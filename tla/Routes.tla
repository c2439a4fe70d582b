------------------------------- MODULE Routes -------------------------------
(***************************************************************************)
(* The routes of app.ts, in the order they are registered, with the        *)
(* permission each demands before it calls a service, and what the HTTP    *)
(* server does with a request: the first route that matches, the account   *)
(* the token names, the permission.  What the services do is in the other  *)
(* modules; that an account holds a permission for one record only is in   *)
(* Permissions.  Paths are those below /api; a HEAD goes where a GET goes. *)
(***************************************************************************)
EXTENDS Sample, Sequences, TLC

CONSTANT Grants   \* sets of actions that a role may grant, on every resource

Id == "*"         \* a parameter of a path
Taken == "4711"   \* what a request has in its place

(* verb: an action that must be granted on the resource, or               *)
(*   "public", "signed": no account, but maybe a signature;                 *)
(*   "own": any account, the service confines it to what is its own;        *)
(*   "broker", "customer": an account of that kind.                         *)
Route(method, path, verb, changes) ==
  [method |-> method, path |-> path, verb |-> verb, also |-> {}, changes |-> changes]
Get(path, verb) == Route("GET", path, verb, FALSE)
Look(path, verb) == Route("POST", path, verb, FALSE)   \* calculates, and saves nothing
Post(path, verb) == Route("POST", path, verb, TRUE)
Patch(path, verb) == Route("PATCH", path, verb, TRUE)
Delete(path, verb) == Route("DELETE", path, verb, TRUE)
Both(route, verb, resource) == [route EXCEPT !.also = {<<verb, resource>>}]

At(prefix, resource, routes) ==
  [i \in DOMAIN routes |->
     [routes[i] EXCEPT !.path = prefix \o @] @@ [resource |-> resource]]
-----------------------------------------------------------------------------
AuthRoutes ==
  At(<<"auth">>, "employee", <<
    Post(<<"register">>, "create"), Post(<<"login">>, "public"), Post(<<"signup">>, "public")>>)

OrganizationRoutes ==
  At(<<"organization">>, "employee", <<
    Post(<<"companies">>, "public"), Post(<<"employees">>, "create"),
    Get(<<"employees">>, "view"), Post(<<"employees", Id, "reassign-manager">>, "edit"),
    Post(<<"employees", Id, "terminate">>, "delete")>>) \o
  At(<<"organization", "branches">>, "branch", <<
    Post(<<>>, "create"), Get(<<>>, "view")>>) \o
  At(<<"organization">>, "department", <<
    Post(<<"departments">>, "create"), Get(<<"departments">>, "view"), Get(<<"company">>, "own")>>)

MeRoutes ==
  At(<<"me">>, None, <<
    Get(<<"manifest">>, "own"), Get(<<>>, "own")>>)

RoleRoutes ==
  At(<<"roles">>, "role", <<
    Post(<<>>, "create"), Get(<<>>, "view"), Get(<<Id, "grants">>, "view"),
    Post(<<Id, "grants">>, "edit"), Delete(<<Id, "grants", Id>>, "edit"),
    Both(Post(<<"import">>, "create"), "edit", "role")>>) \o
  At(<<"users">>, "employee", <<
    Get(<<>>, "view")>>) \o
  At(<<"users", Id, "roles">>, "role", <<
    Get(<<>>, "view"), Post(<<>>, "assign"), Delete(<<Id>>, "assign")>>)

PaymentPlanRoutes ==
  At(<<>>, "payment_plan_template", <<
    Post(<<"payment-plan-templates">>, "create"),
    Post(<<"payment-plan-templates", "import">>, "create"),
    Get(<<"payment-plan-templates">>, "view"),
    Look(<<"contracts", Id, "payment-schedule", "preview">>, "view"),
    Post(<<"contracts", Id, "payment-schedule", "generate">>, "create")>>) \o
  At(<<"contracts", Id, "payment-schedule">>, "payment_schedule", <<
    Get(<<>>, "view")>>)

QuotationRoutes ==
  At(<<"quotations">>, "quotation", <<
    Get(<<"units", "by-code", Id>>, "create"), Look(<<"calculate">>, "create"),
    Post(<<>>, "create"), Get(<<>>, "view"), Get(<<Id>>, "view"),
    Patch(<<Id, "status">>, "edit"), Get(<<Id, "excel">>, "view"), Get(<<Id, "print">>, "view")>>)

OfferRoutes ==
  At(<<"quotations">>, "quotation", <<
    Post(<<Id, "share">>, "view"), Get(<<Id, "pdf">>, "view"),
    Post(<<Id, "send-whatsapp">>, "view")>>)

ProjectRoutes ==
  At(<<"inventory">>, "project", <<
    Post(<<"projects">>, "create"), Get(<<"projects">>, "view"), Get(<<"projects", Id>>, "view"),
    Patch(<<"projects", Id>>, "edit"), Post(<<"developers">>, "create"),
    Get(<<"developers">>, "view"), Get(<<"developers", Id, "portfolio">>, "view"),
    Post(<<"projects", Id, "phases">>, "create"), Get(<<"projects", Id, "phases">>, "view"),
    Post(<<"projects", Id, "launches">>, "create"), Get(<<"projects", Id, "launches">>, "view")>>)

FacilityRoutes ==
  At(<<"inventory">>, "project", <<
    Post(<<"facilities">>, "create"), Get(<<"facilities">>, "view"),
    Get(<<"projects", Id, "facilities">>, "view"), Post(<<"consultants">>, "create"),
    Get(<<"consultants">>, "view"), Post(<<"projects", Id, "sales-phone-numbers">>, "create"),
    Get(<<"projects", Id, "sales-phone-numbers">>, "view"),
    Post(<<"sales-phone-numbers", Id, "deactivate">>, "edit")>>)

UnitImportRoutes ==
  At(<<>>, "unit", <<
    Post(<<"inventory", "units">>, "create"), Post(<<"inventory", "units", "import">>, "create"),
    Post(<<"inventory", "units", "import", "upload">>, "create"),
    Post(<<"inventory", "units", "import", Id, "preview">>, "create"),
    Post(<<"inventory", "units", "import", Id, "confirm">>, "create"),
    Get(<<"imports", "history">>, "view")>>)

DocumentRoutes ==
  At(<<"documents", "extract">>, "unit", <<
    Post(<<"upload">>, "create"), Get(<<>>, "view"), Get(<<Id>>, "view"),
    Post(<<"fields", Id, "correct">>, "create"), Post(<<Id, "review">>, "create"),
    Post(<<Id, "reject">>, "create"), Post(<<Id, "confirm">>, "create")>>)

UnitRoutes ==
  At(<<"inventory">>, "unit", <<
    Get(<<"units">>, "view"), Patch(<<"units", Id>>, "edit"),
    Post(<<"units", Id, "hold">>, "edit"), Post(<<"units", Id, "reserve">>, "edit"),
    Get(<<"reservations">>, "view"), Post(<<"sweep-expired-reservations">>, "edit")>>)

LeadIntakeRoutes ==
  At(<<"crm", "leads">>, "lead", <<
    Post(<<>>, "create")>>)

CrmStageRoutes ==
  At(<<"crm", "stages">>, "crm_stage", <<
    Get(<<>>, "view"), Post(<<>>, "create"), Patch(<<Id>>, "edit"), Post(<<"reorder">>, "edit"),
    Post(<<Id, "set-default">>, "edit"), Post(<<Id, "archive">>, "delete")>>)

(* Mutant: whoever sees the leads may have the overdue ones reassigned. *)
DistributionRoutesLax ==
  At(<<"crm", "lead-distribution">>, "lead", <<
    Post(<<"pool">>, "edit"), Get(<<"pool">>, "view"), Post(<<"sweep">>, "view")>>)
DistributionRoutes ==
  At(<<"crm", "lead-distribution">>, "lead", <<
    Post(<<"pool">>, "edit"), Get(<<"pool">>, "view"), Post(<<"sweep">>, "edit")>>)

LeadImportRoutes ==
  At(<<"crm", "leads", "import">>, "lead", <<
    Post(<<>>, "create"), Post(<<"upload">>, "create"), Post(<<Id, "preview">>, "create"),
    Post(<<Id, "confirm">>, "create")>>)

LeadRoutes ==
  At(<<"crm", "leads">>, "lead", <<
    Get(<<>>, "view"), Get(<<Id>>, "view"), Patch(<<Id, "stage">>, "edit")>>)

LeadDetailRoutes ==
  At(<<"crm", "leads">>, "lead", <<
    Patch(<<Id, "details">>, "edit"), Patch(<<Id, "owner">>, "edit"),
    Patch(<<Id, "tags">>, "edit"), Get(<<Id, "timeline">>, "view")>>)

OpportunityRoutes ==
  At(<<"sales", "opportunities">>, "opportunity", <<
    Post(<<>>, "create"), Get(<<>>, "view"), Post(<<Id, "reserve-unit">>, "create")>>)

ContractRoutes ==
  At(<<"sales">>, "contract", <<
    Get(<<"contracts">>, "view"), Get(<<"contracts", Id>>, "view"),
    Post(<<"discount-policy">>, "edit"), Get(<<"discount-policy">>, "view"),
    Post(<<"contracts">>, "create")>>)

ContractChangeRoutes ==
  At(<<"sales", "contracts">>, "contract", <<
    Both(Post(<<"import">>, "create"), "create", "opportunity"), Post(<<Id, "cancel">>, "edit"), Post(<<Id, "amend">>, "edit")>>)

EnvelopeRoutes ==
  At(<<>>, "signature_envelope", <<
    Post(<<"sales", "contracts", Id, "signature-envelopes">>, "create"),
    Get(<<"sales", "contracts", Id, "signature-envelopes">>, "view"),
    Post(<<"integrations", "e-signature", "webhooks", Id, Id>>, "signed"),
    Post(<<"integrations", "communication", "webhooks", Id, Id>>, "signed")>>) \o
  At(<<"integrations", "communication", "delivery">>, "integration_connection", <<
    Get(<<Id>>, "view"), Get(<<"by-resource", Id>>, "view")>>)

PaymentRoutes ==
  At(<<"finance", "payments">>, "payment_schedule", <<
    Post(<<>>, "edit"), Post(<<"import">>, "edit")>>)

PaymentImportRoutes ==
  At(<<"finance", "payments", "import">>, "payment_schedule", <<
    Post(<<"upload">>, "edit"), Post(<<Id, "preview">>, "edit"), Post(<<Id, "confirm">>, "edit")>>)

RefundRoutes ==
  At(<<"finance">>, "payment_schedule", <<
    Get(<<"contracts", Id, "balance">>, "view"), Get(<<"refunds">>, "view"),
    Post(<<"refunds">>, "edit"), Post(<<"sweep-overdue">>, "edit")>>)

BrokerRoutes ==
  At(<<"brokers">>, "broker_company", <<
    Get(<<"companies">>, "view"), Post(<<"companies">>, "create"),
    Both(Post(<<"companies", "import">>, "create"), "edit", "broker_company"),
    Post(<<"companies", Id, "approve">>, "approve"),
    Post(<<"companies", Id, "suspend">>, "edit"), Post(<<"leads">>, "broker"),
    Get(<<"leads">>, "view")>>) \o
  At(<<"brokers", "leads", Id, "approve">>, "lead", <<
    Post(<<>>, "create")>>)

CommissionRoutes ==
  At(<<"brokers">>, "broker_company", <<
    Get(<<"commission-rules">>, "view"), Post(<<"commission-rules">>, "edit"),
    Get(<<"commissions">>, "view"), Post(<<"companies", Id, "commissions">>, "edit"),
    Post(<<"commissions", Id, "approve">>, "approve")>>)

SalesCommissionRoutes ==
  At(<<"sales-commissions">>, "sales_commission", <<
    Post(<<"rules">>, "edit"), Get(<<"rules">>, "view"), Get(<<>>, "view"),
    Post(<<Id, "approve">>, "approve"), Post(<<Id, "pay">>, "edit"),
    Post(<<Id, "clawback">>, "edit")>>)

LeaveRoutes ==
  At(<<"hr">>, "leave_request", <<
    Post(<<"leave-requests">>, "create"), Get(<<"leave-requests">>, "view"),
    Get(<<"my-leave-requests">>, "own"), Post(<<"leave-requests", Id, "approve">>, "approve"),
    Post(<<"leave-requests", Id, "reject">>, "approve"),
    Post(<<"leave-requests", Id, "cancel">>, "own")>>)

TicketRoutes ==
  At(<<"operations", "tickets">>, "maintenance_ticket", <<
    Post(<<>>, "create"), Get(<<>>, "view"), Post(<<Id, "assign">>, "edit"),
    Post(<<Id, "status">>, "edit")>>)

LegalRoutes ==
  At(<<"legal", "documents">>, "legal_document", <<
    Post(<<>>, "create"), Get(<<>>, "view"), Post(<<Id, "received">>, "edit"),
    Post(<<Id, "verify">>, "approve"), Post(<<Id, "reject">>, "edit")>>)

PurchasingRoutes ==
  At(<<"purchasing", "vendors">>, "vendor", <<
    Post(<<>>, "create"), Get(<<>>, "view"), Post(<<Id, "deactivate">>, "edit")>>) \o
  At(<<"purchasing", "purchase-orders">>, "purchase_order", <<
    Post(<<>>, "create"), Get(<<>>, "view"), Post(<<Id, "approve">>, "approve"),
    Post(<<Id, "fulfill">>, "edit"), Post(<<Id, "cancel">>, "edit")>>)

CampaignRoutes ==
  At(<<"marketing", "campaigns">>, "campaign", <<
    Post(<<>>, "create"), Get(<<>>, "view"), Post(<<Id, "status">>, "edit"),
    Get(<<Id, "performance">>, "view")>>)

MessageRoutes ==
  At(<<"communication">>, "message", <<
    Post(<<"messages">>, "create"), Get(<<"my-messages">>, "own"), Get(<<"messages">>, "view"),
    Post(<<"messages", Id, "read">>, "own")>>)

AnalyticsRoutes ==
  At(<<"analytics">>, "analytics", <<
    Get(<<"sales-funnel">>, "view"), Get(<<"pipeline">>, "view"),
    Get(<<"collections-aging">>, "view"), Get(<<"inventory-occupancy">>, "view"),
    Get(<<"broker-performance">>, "view"), Get(<<"speed-to-first-contact">>, "view"),
    Get(<<"funnel-conversion-rates">>, "view"), Get(<<"cost-per-qualified-lead">>, "view"),
    Get(<<"lost-reasons">>, "view"), Get(<<"lead-scores">>, "view")>>) \o
  At(<<"crm", "leads", Id, "score">>, "lead", <<
    Get(<<>>, "view")>>)

ForecastRoutes ==
  At(<<>>, "forecast", <<
    Get(<<"forecasting", "historical">>, "view"), Get(<<"forecasting", "forecast">>, "view"),
    Get(<<"forecasting", "compare">>, "view"), Look(<<"scenario-simulation", "run">>, "view")>>)

PortalRoutes ==
  At(<<>>, "portal_access", <<
    Post(<<"portal", "grant-access">>, "create"), Get(<<"customers">>, "view"),
    Get(<<"customers", Id, "360">>, "view"), Get(<<"portal", "me">>, "customer"),
    Get(<<"portal", "contracts">>, "customer"),
    Get(<<"portal", "contracts", Id, "schedule">>, "customer")>>)

TaskRoutes ==
  At(<<"tasks">>, "task", <<
    Post(<<>>, "create"), Get(<<>>, "view"), Get(<<"my">>, "own"),
    Post(<<Id, "complete">>, "edit"), Post(<<Id, "cancel">>, "edit")>>)

WorkflowRoutes ==
  At(<<"automation">>, "workflow", <<
    Post(<<"workflows">>, "create"), Get(<<"workflows">>, "view"), Get(<<"templates">>, "own"),
    Post(<<"templates", Id, "activate">>, "create")>>) \o
  At(<<"automation", "stats">>, "workflow_run", <<
    Get(<<>>, "view")>>) \o
  At(<<"automation", "workflows">>, "workflow", <<
    Get(<<Id>>, "view"), Patch(<<Id>>, "edit"), Post(<<Id, "status">>, "edit")>>)

RunRoutes ==
  At(<<"automation">>, "workflow_run", <<
    Get(<<"workflows", Id, "runs">>, "view"), Get(<<"runs", Id>>, "view"),
    Get(<<"runs", Id, "steps">>, "view"), Post(<<"runs", Id, "retry">>, "edit")>>) \o
  At(<<"automation", "approvals">>, "approval", <<
    Get(<<>>, "view"), Post(<<Id, "approve">>, "approve"), Post(<<Id, "reject">>, "approve")>>)

ApprovalRoutes ==
  At(<<"approvals">>, "approval", <<
    Get(<<>>, "view"), Post(<<Id, "approve">>, "approve"), Post(<<Id, "reject">>, "approve")>>)

SecretRoutes ==
  At(<<"automation">>, "secret", <<
    Post(<<"secrets">>, "create"), Get(<<"secrets">>, "view"),
    Delete(<<"secrets", Id>>, "delete"), Post(<<"webhooks", Id, Id>>, "signed")>>)

AiActionRoutes ==
  At(<<"ai", "actions">>, "ai_action", <<
    Post(<<>>, "create"), Get(<<>>, "view"), Get(<<Id>>, "view")>>) \o
  At(<<"ai", "actions">>, "approval", <<
    Post(<<Id, "approve">>, "approve"), Post(<<Id, "reject">>, "approve")>>) \o
  At(<<>>, "ai_action", <<
    Get(<<"ai", "policies">>, "view"), Post(<<"ai", "policies">>, "edit"),
    Post(<<"crm", "leads", Id, "suggest-next-action">>, "create")>>)

AiAgentRoutes ==
  At(<<"ai">>, "ai_action", <<
    Get(<<"agents">>, "own"), Get(<<"tools">>, "own"),
    Post(<<"agents", Id, "decide">>, "create"), Get(<<"decisions">>, "view"),
    Get(<<"decisions", Id>>, "view"), Get(<<"agent-stats">>, "view")>>)

AiMemoryRoutes ==
  At(<<"ai", "memory">>, "ai_memory", <<
    Post(<<>>, "create"), Get(<<>>, "view"), Post(<<Id, "invalidate">>, "edit")>>)

LlmRoutes ==
  At(<<"ai", "llm">>, "ai_llm_config", <<
    Post(<<"config">>, "create"), Get(<<"config">>, "view"),
    Post(<<"config", Id, "deactivate">>, "edit"), Get(<<"usage">>, "view")>>)

IntegrationRoutes ==
  At(<<"integrations">>, "integration_connection", <<
    Get(<<"connectors">>, "own"), Post(<<"connections">>, "create"),
    Get(<<"connections">>, "view"), Delete(<<"connections", Id>>, "delete"),
    Post(<<Id, "send">>, "create"), Get(<<"events">>, "view")>>)

AiWorkflowRoutes ==
  At(<<"ai", "workflows">>, "ai_action", <<
    Post(<<>>, "create"), Get(<<>>, "view"), Get(<<Id>>, "view"), Get(<<Id, "steps">>, "view"),
    Post(<<Id, "resume">>, "edit")>>)

AdminRoutes ==
  At(<<>>, "audit_log", <<
    Get(<<"audit-log">>, "view"), Get(<<"health">>, "public"), Get(<<"seed-info">>, "public")>>)
-----------------------------------------------------------------------------
Routes ==
  AuthRoutes \o OrganizationRoutes \o MeRoutes \o RoleRoutes \o
  PaymentPlanRoutes \o QuotationRoutes \o OfferRoutes \o ProjectRoutes \o
  FacilityRoutes \o UnitImportRoutes \o DocumentRoutes \o UnitRoutes \o
  LeadIntakeRoutes \o CrmStageRoutes \o DistributionRoutes \o
  LeadImportRoutes \o LeadRoutes \o LeadDetailRoutes \o
  OpportunityRoutes \o ContractRoutes \o ContractChangeRoutes \o
  EnvelopeRoutes \o PaymentRoutes \o PaymentImportRoutes \o RefundRoutes \o
  BrokerRoutes \o CommissionRoutes \o SalesCommissionRoutes \o
  LeaveRoutes \o TicketRoutes \o LegalRoutes \o PurchasingRoutes \o
  CampaignRoutes \o MessageRoutes \o AnalyticsRoutes \o ForecastRoutes \o
  PortalRoutes \o TaskRoutes \o WorkflowRoutes \o RunRoutes \o
  ApprovalRoutes \o SecretRoutes \o AiActionRoutes \o AiAgentRoutes \o
  AiMemoryRoutes \o LlmRoutes \o IntegrationRoutes \o AiWorkflowRoutes \o
  AdminRoutes

Matches(pattern, path) ==
  /\ Len(pattern) = Len(path)
  /\ \A i \in DOMAIN path : pattern[i] \in {Id, path[i]}
MatchRoute(method, path) ==
  LET found == {i \in DOMAIN Routes : Routes[i].method = method /\ Matches(Routes[i].path, path)}
  IN  IF found = {} THEN None ELSE CHOOSE i \in found : \A j \in found : i <= j

Clients == [token : {"none", "expired", "valid"}, userType : {"employee", "broker_user", "customer_user"},
             grants : Grants]
Requests == [of : {"request"}, route : DOMAIN Routes, account : Clients]

PathOf(route) == [i \in DOMAIN route.path |-> IF route.path[i] = Id THEN Taken ELSE route.path[i]]

Granted(account, route) ==
  {route.verb} \cup {d[1] : d \in route.also} \subseteq account.grants

Allowed(account, route) ==
  CASE route.verb = "own" -> TRUE
    [] route.verb = "broker" -> account.userType = "broker_user"
    [] route.verb = "customer" -> account.userType = "customer_user"
    [] OTHER -> Granted(account, route)

Status(account, route) ==
  IF route.verb \in {"public", "signed"} THEN "handled"
  ELSE IF account.token # "valid" THEN "unauthorized"
  ELSE IF Allowed(account, route) THEN "handled" ELSE "forbidden"

HandleRequest(request) ==
  LET sent == Routes[request.route]
      found == MatchRoute(sent.method, PathOf(sent))
      status == Status(request.account, Routes[found])
  IN  [route |-> found, status |-> status, changed |-> status = "handled" /\ Routes[found].changes]
-----------------------------------------------------------------------------
RoutesInit == Given(Requests)
Serve == sample.of = "request" /\ Answer(HandleRequest(sample))
RoutesSpec == RoutesInit /\ [][Serve]_sampleVars

(* What a request may change without a permission to change anything: what *)
(* is open to everybody or signed, an account's own messages and leave, a  *)
(* lead a broker submits, and the offers of a quotation that may be seen.  *)
OpenToAll(route) ==
  \/ route.verb \in {"public", "signed", "own", "broker"}
  \/ route.resource = "quotation" /\ route.path[Len(route.path)] \in {"share", "send-whatsapp"}

(* Every request is served by the route written for it, none is taken by   *)
(* another that was registered before; and none of the routes of an account *)
(* that may only view changes anything, but for those open to all (app.ts: *)
(* the guards; 845-847 name a route that lacked its own).                  *)
ViewersOnlyLook ==
  Answered("request") =>
    /\ answer.route = sample.route
    /\ answer.changed /\ sample.account.grants \subseteq {"view"} => OpenToAll(Routes[sample.route])
    /\ answer.changed /\ sample.account.token # "valid" =>
         Routes[sample.route].verb \in {"public", "signed"}
=============================================================================

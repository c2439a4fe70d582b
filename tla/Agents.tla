------------------------------- MODULE Agents -------------------------------
(***************************************************************************)
(* The AI execution layer (ai-agent.service.ts): a request of an action    *)
(* passes the permission of the user it is made for, the policy of the     *)
(* company, the approval of a human, and is executed and recorded; the     *)
(* sales agent decides on its lead, remembers its decision for an hour,    *)
(* and asks for the action it chose through the same pipeline.             *)
(*                                                                         *)
(* One lead with a good score, in the first stage of the pipeline or in    *)
(* the last one before Won; one requester, whose grants and whose          *)
(* company's policies may change at any time.  The tools that only read skip *)
(* the policy, and are left out.                                           *)
(***************************************************************************)
EXTENDS Desk, Integers, Sequences

CONSTANTS
  MaxRequests,   \* bounds the action requests made
  MaxHour,       \* bounds the clock, in units of the cooldown
  Unsettled,     \* the tools whose grant and policy change
  Asked          \* the tools a user asks for

Tools == {"integration_call", "update_lead_status"}
AiAutonomyLevel == {"suggest_only", "require_approval", "auto_execute"}
CooldownHours == 1

ASSUME AgentsAssumption ==
  /\ MaxRequests \in Nat /\ MaxHour \in Nat
  /\ Unsettled \subseteq Tools /\ Asked \subseteq Tools
  /\ None \notin Nat /\ None # "pending"
-----------------------------------------------------------------------------
VARIABLES
  lead,        \* [stage: its stage, reached: whether the delivery log names it]
  policy,      \* [Tools -> the policy of the company; without one approval is required]
  granted,     \* the tools the requester holds the permission of
  hour,        \* the clock
  requests,    \* the action requests, in the order they were saved
  decisions,   \* the decisions of the agent on the lead
  aiCall,      \* [Callers -> a call in progress]
  performed,   \* auxiliary: [request -> times its action was carried out]
  muddled      \* auxiliary: two calls that decide one approval, or two of the agent, have
               \* overlapped, or one of the agent was lost between request and decision

agentsVars == <<lead, policy, granted, hour, requests, decisions, aiCall, performed, muddled>>

AgentsInit ==
  /\ lead = [stage |-> "fresh", reached |-> FALSE]
  /\ policy = [t \in Tools |-> "require_approval"]
  /\ granted = Tools
  /\ hour = 0
  /\ requests = <<>>
  /\ decisions = <<>>
  /\ aiCall = [w \in Callers |-> Rest]
  /\ performed = [r \in 1..MaxRequests |-> 0]
  /\ muddled = FALSE

Request(c, status, approval) ==
  [tool |-> c.tool, agent |-> c.agent, status |-> status, approval |-> approval]
Go(w, new) == aiCall' = Becomes(aiCall, w, new)

(* findRecentDecision: the latest decision of the hour, if it still waits   *)
(* for a human.                                                            *)
Live(d) ==
  /\ hour - d.at < CooldownHours
  /\ \/ d.status = "escalated"
     \/ d.request # None /\ requests[d.request].status \in {"pending_approval", "suggested"}
(* Mutant: what the agent decided before is forgotten. *)
NoRecentDecision == FALSE
RecentDecision == decisions # <<>> /\ Live(decisions[Len(decisions)])

AgentAtWork ==
  \E v \in Callers : aiCall[v] # Rest /\ aiCall[v].agent /\ (aiCall[v].request = None \/ aiCall[v].pc = "remember")

Decision(status, request) == Append(decisions, [status |-> status, request |-> request, at |-> hour])

(* decide, with decideSales for a lead of good score: reach out once, then  *)
(* move it on; past the last stage a human decides.                        *)
Decide(w) ==
  /\ aiCall[w].pc = "idle"
  /\ ~ RecentDecision
  /\ Len(requests) < MaxRequests
  /\ IF lead.stage = "last"
       THEN decisions' = Decision("escalated", None) /\ UNCHANGED <<aiCall, muddled>>
       ELSE /\ muddled' = (muddled \/ AgentAtWork)
            /\ Go(w, [pc |-> "request", agent |-> TRUE, request |-> None,
                      tool |-> IF lead.reached THEN "update_lead_status" ELSE "integration_call"])
            /\ UNCHANGED decisions
  /\ UNCHANGED <<lead, policy, granted, hour, requests, performed>>

(* POST /api/ai/actions, or a workflow of follow-ups. *)
AskAction(w, t) ==
  /\ aiCall[w].pc = "idle"
  /\ Go(w, [pc |-> "request", agent |-> FALSE, request |-> None, tool |-> t])
  /\ UNCHANGED <<lead, policy, granted, hour, requests, decisions, performed, muddled>>

(* persist: the call of an agent goes on to save its decision. *)
Persist(w, status, approval) ==
  /\ Len(requests) < MaxRequests
  /\ requests' = Append(requests, Request(aiCall[w], status, approval))
  /\ Go(w, IF aiCall[w].agent
             THEN [pc |-> "remember", agent |-> TRUE, request |-> Len(requests) + 1]
             ELSE Rest)

PersistDecision(w) ==
  /\ aiCall[w].pc = "remember"
  /\ decisions' = Decision("proceeded", aiCall[w].request)
  /\ Go(w, Rest)
  /\ UNCHANGED <<lead, policy, granted, hour, requests, performed, muddled>>

(* The limits of a policy (amount, channel, working hours) only turn an     *)
(* automatic execution into one that needs approval.                        *)
RequestAction(w) ==
  LET t == aiCall[w].tool
  IN  /\ aiCall[w].pc = "request"
      /\ \/ /\ t \notin granted
            /\ Persist(w, "denied_permission", None)
         \/ /\ t \in granted
            /\ policy[t] = "suggest_only"
            /\ Persist(w, "suggested", None)
         \/ /\ t \in granted
            /\ policy[t] \in {"require_approval", "auto_execute"}   \* auto_execute: a limit is exceeded
            /\ Persist(w, "pending_approval", "pending")
         \/ /\ t \in granted
            /\ policy[t] = "auto_execute"
            /\ Go(w, [pc |-> "perform", agent |-> aiCall[w].agent, tool |-> t, request |-> None])
            /\ UNCHANGED requests
      /\ UNCHANGED <<lead, policy, granted, hour, decisions, performed, muddled>>

(* executeAction: it checks the permission again, as it is now; a delivery  *)
(* is logged whether it succeeds or not.                                    *)
Perform(w) ==
  LET c == aiCall[w]
      done(output) == Go(w, [pc |-> "record", agent |-> c.agent, tool |-> c.tool,
                             request |-> c.request, output |-> output])
  IN  /\ c.pc = "perform"
      /\ \/ /\ c.tool \notin granted
            /\ done("refused")
            /\ UNCHANGED <<lead, performed>>
         \/ /\ c.tool \in granted
            /\ lead' = IF c.tool = "integration_call" THEN [lead EXCEPT !.reached = TRUE]
                       ELSE [lead EXCEPT !.stage = "last"]
            /\ performed' = IF c.request = None THEN performed
                            ELSE [performed EXCEPT ![c.request] = @ + 1]
            /\ done("done")
         \/ /\ c.tool = "integration_call" /\ c.tool \in granted
            /\ lead' = [lead EXCEPT !.reached = TRUE]
            /\ done("refused")   \* the provider did not take it
            /\ UNCHANGED performed
      /\ UNCHANGED <<policy, granted, hour, requests, decisions, muddled>>

(* An automatic action is recorded once it is executed; one that a human    *)
(* approved is saved on the copy of the request read before.                *)
RecordAction(w) ==
  LET c == aiCall[w]
      status == IF c.output = "done" THEN "executed" ELSE "denied_policy"
  IN  /\ c.pc = "record"
      /\ IF c.request = None
           THEN Persist(w, status, None)
           ELSE requests' = [requests EXCEPT ![c.request].status = status] /\ Go(w, Rest)
      /\ UNCHANGED <<lead, policy, granted, hour, decisions, performed, muddled>>

Deciding(r) == {w \in Callers : aiCall[w].pc \in {"approve", "reject", "perform", "record"}
                                  /\ aiCall[w].request = r}

(* Mutant: any approval may be decided, however it was decided before. *)
AnyApproval(r) == requests[r].approval # None
PendingApproval(r) == requests[r].approval = "pending"

(* approveAction and rejectAction: the read of the approval and of the      *)
(* request, then the saves.                                                 *)
OpenApproval(w, r, op) ==
  /\ aiCall[w].pc = "idle"
  /\ PendingApproval(r)
  /\ muddled' = (muddled \/ Deciding(r) # {})
  /\ Go(w, [pc |-> op, agent |-> requests[r].agent, tool |-> requests[r].tool, request |-> r])
  /\ UNCHANGED <<lead, policy, granted, hour, requests, decisions, performed>>

ApproveAction(w) ==
  LET c == aiCall[w] IN
  /\ c.pc = "approve"
  /\ requests' = [requests EXCEPT ![c.request].approval = "approved"]
  /\ Go(w, [c EXCEPT !.pc = "perform"])
  /\ UNCHANGED <<lead, policy, granted, hour, decisions, performed, muddled>>

RejectAction(w) ==
  LET c == aiCall[w] IN
  /\ c.pc = "reject"
  /\ requests' = [requests EXCEPT ![c.request].approval = "rejected"]
  /\ Go(w, [pc |-> "record", agent |-> c.agent, tool |-> c.tool, request |-> c.request, output |-> "rejected"])
  /\ UNCHANGED <<lead, policy, granted, hour, decisions, performed, muddled>>

SetPolicy(t, level) ==
  /\ policy' = [policy EXCEPT ![t] = level]
  /\ UNCHANGED <<lead, granted, hour, requests, decisions, aiCall, performed, muddled>>

ChangeGrants(t) ==   \* of the requester, by a role or an override
  /\ granted' = IF t \in granted THEN granted \ {t} ELSE granted \cup {t}
  /\ UNCHANGED <<lead, policy, hour, requests, decisions, aiCall, performed, muddled>>

HourPasses ==
  /\ hour < MaxHour
  /\ hour' = hour + 1
  /\ UNCHANGED <<lead, policy, granted, requests, decisions, aiCall, performed, muddled>>

(* The process stops: a call is lost with what it had not saved yet. *)
StopAgents ==
  /\ ~ Quiet(aiCall)
  /\ aiCall' = [w \in Callers |-> Rest]
  /\ muddled' = (muddled \/ AgentAtWork)
  /\ UNCHANGED <<lead, policy, granted, hour, requests, decisions, performed>>

AgentsNext ==
  \/ \E w \in Callers :
       \/ Decide(w) \/ PersistDecision(w)
       \/ \E t \in Asked : AskAction(w, t)
       \/ RequestAction(w) \/ Perform(w) \/ RecordAction(w)
       \/ \E r \in 1..Len(requests), op \in {"approve", "reject"} : OpenApproval(w, r, op)
       \/ ApproveAction(w) \/ RejectAction(w)
  \/ \E t \in Unsettled : ChangeGrants(t) \/ \E level \in AiAutonomyLevel : SetPolicy(t, level)
  \/ HourPasses
  \/ StopAgents

AgentsSpec == AgentsInit /\ [][AgentsNext]_agentsVars
-----------------------------------------------------------------------------
(* As long as no two calls decide an approval at once, the action of a      *)
(* request is carried out once at most, and never after it was rejected     *)
(* (approveAction, rejectAction: the read of a pending approval).           *)
DecidedOnce ==
  ~ muddled => \A r \in 1..Len(requests) :
                 performed[r] <= (IF requests[r].approval = "approved" THEN 1 ELSE 0)

(* As long as the calls of the agent do not overlap, and none is lost       *)
(* between its request and its decision, an hour never sees the agent ask   *)
(* twice for an approval nobody has given yet (findRecentDecision).         *)
AsksOnceAnHour ==
  ~ muddled => \A i, j \in 1..Len(decisions) :
                /\ i < j
                /\ decisions[j].at - decisions[i].at < CooldownHours
                /\ decisions[i].request # None /\ decisions[j].request # None
                => requests[decisions[i].request].approval # "pending"
=============================================================================

------------------------------ MODULE Brokers ------------------------------
(***************************************************************************)
(* Broker companies register a prospect (brokers.service): the first one   *)
(* protects its registration for a window, an employee approves it, which  *)
(* creates the lead through createLead (Pipeline.tla), or finds that the   *)
(* person is a lead already.  One prospect is modelled.                    *)
(***************************************************************************)
EXTENDS Desk, Naturals, Sequences

CONSTANTS
  BrokerCompanies,
  MaxRegistrations   \* bounds the registrations of the prospect

ASSUME BrokersAssumption == MaxRegistrations \in Nat /\ None \notin Nat

VARIABLES
  suspended,      \* the broker companies that are not approved
  registrations,  \* the broker leads, in order: [company, status, protected]
  leadFrom,       \* what the lead of the prospect came from: a registration, 0 for staff, None before
  brokerCall,     \* [Callers -> a call in progress]
  rushed,         \* auxiliary: two registrations were being made at once
  clashed         \* auxiliary: two approvals of one were, or one was cut short

brokerVars == <<suspended, registrations, leadFrom, brokerCall, rushed, clashed>>

BrokersInit ==
  /\ suspended = {}
  /\ registrations = <<>>
  /\ leadFrom = None
  /\ brokerCall = [w \in Callers |-> Rest]
  /\ rushed = FALSE
  /\ clashed = FALSE

Proceeds(w, new) == brokerCall' = Becomes(brokerCall, w, new)
AwaitsApproval(i) == registrations[i].status = "pending_approval"
-----------------------------------------------------------------------------
(* submitBrokerLead: refused while another company's is pending and still   *)
(* protected.                                                               *)
Protected(i) == AwaitsApproval(i) /\ registrations[i].protected

SubmitBrokerLead(w, company) ==
  /\ brokerCall[w] = Rest
  /\ company \notin suspended
  /\ Len(registrations) < MaxRegistrations
  /\ \A i \in DOMAIN registrations : Protected(i) => registrations[i].company = company
  /\ rushed' = (rushed \/ \E v \in Callers : brokerCall[v].pc = "register")
  /\ Proceeds(w, [pc |-> "register", company |-> company])
  /\ UNCHANGED <<suspended, registrations, leadFrom, clashed>>

SaveBrokerLead(w) ==
  /\ brokerCall[w].pc = "register"
  /\ Len(registrations) < MaxRegistrations
  /\ registrations' = Append(registrations, [company |-> brokerCall[w].company,
                                             status |-> "pending_approval", protected |-> TRUE])
  /\ Proceeds(w, Rest)
  /\ UNCHANGED <<suspended, leadFrom, rushed, clashed>>

ProtectionEnds(i) ==
  /\ registrations[i].protected
  /\ registrations' = [registrations EXCEPT ![i].protected = FALSE]
  /\ UNCHANGED <<suspended, leadFrom, brokerCall, rushed, clashed>>
-----------------------------------------------------------------------------
(* Mutant: a registration that was decided may be approved again. *)
ApprovableAlways(i) == TRUE
Approvable(i) == AwaitsApproval(i)

Approving(i) == {v \in Callers : brokerCall[v].pc \in {"lead", "decide"} /\ brokerCall[v].at = i}

ApproveBrokerLead(w, i) ==
  /\ brokerCall[w] = Rest
  /\ Approvable(i)
  /\ clashed' = (clashed \/ Approving(i) # {})
  /\ Proceeds(w, [pc |-> "lead", at |-> i])
  /\ UNCHANGED <<suspended, registrations, leadFrom, rushed>>

(* createLead, under the lock of the company. *)
CreateBrokerLead(w) ==
  LET c == brokerCall[w] IN
  /\ c.pc = "lead"
  /\ leadFrom' = IF leadFrom = None THEN c.at ELSE leadFrom
  /\ Proceeds(w, [pc |-> "decide", at |-> c.at,
                  status |-> IF leadFrom = None THEN "approved" ELSE "rejected_duplicate"])
  /\ UNCHANGED <<suspended, registrations, rushed, clashed>>

(* Any other error of createLead leaves the registration as it is. *)
BrokerLeadFails(w) ==
  /\ brokerCall[w].pc = "lead"
  /\ Proceeds(w, Rest)
  /\ UNCHANGED <<suspended, registrations, leadFrom, rushed, clashed>>

DecideBrokerLead(w) ==
  LET c == brokerCall[w] IN
  /\ c.pc = "decide"
  /\ registrations' = [registrations EXCEPT ![c.at].status = c.status]
  /\ Proceeds(w, Rest)
  /\ UNCHANGED <<suspended, leadFrom, rushed, clashed>>

StaffCreateLead ==
  /\ leadFrom = None
  /\ leadFrom' = 0
  /\ UNCHANGED <<suspended, registrations, brokerCall, rushed, clashed>>

SuspendBrokerCompany(company) ==
  /\ company \notin suspended
  /\ suspended' = suspended \cup {company}
  /\ UNCHANGED <<registrations, leadFrom, brokerCall, rushed, clashed>>

StopBrokers ==
  /\ ~ Quiet(brokerCall)
  /\ brokerCall' = [w \in Callers |-> Rest]
  /\ clashed' = (clashed \/ \E w \in Callers : brokerCall[w].pc = "decide")
  /\ UNCHANGED <<suspended, registrations, leadFrom, rushed>>

BrokersNext ==
  \/ \E w \in Callers :
       \/ \E company \in BrokerCompanies : SubmitBrokerLead(w, company)
       \/ SaveBrokerLead(w)
       \/ \E i \in DOMAIN registrations : ApproveBrokerLead(w, i)
       \/ CreateBrokerLead(w) \/ BrokerLeadFails(w) \/ DecideBrokerLead(w)
  \/ \E i \in DOMAIN registrations : ProtectionEnds(i)
  \/ StaffCreateLead
  \/ \E company \in BrokerCompanies : SuspendBrokerCompany(company)
  \/ StopBrokers

BrokersSpec == BrokersInit /\ [][BrokersNext]_brokerVars
-----------------------------------------------------------------------------
(* A registration shows as approved only if the lead came from it, so at    *)
(* most one ever does; one that the lead came from never shows as a         *)
(* duplicate, unless two approvals of it overlapped or one was cut short;   *)
(* and no two companies hold protected registrations of one prospect,       *)
(* unless they registered at once (brokers.service.ts:69-76, 122-126).      *)
BrokerCredit ==
  /\ \A i \in DOMAIN registrations : registrations[i].status = "approved" => leadFrom = i
  /\ ~ clashed => \A i \in DOMAIN registrations : registrations[i].status = "rejected_duplicate" => leadFrom # i
  /\ ~ rushed => \A i, j \in DOMAIN registrations :
                   Protected(i) /\ Protected(j) => registrations[i].company = registrations[j].company
=============================================================================

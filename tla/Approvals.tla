----------------------------- MODULE Approvals -----------------------------
(***************************************************************************)
(* The approval engine, and the three actions its routes gate with it: a   *)
(* contract signed at a discount above the company's threshold, the        *)
(* amendment of a contract, a refund.  An approval is saved as approved,   *)
(* then the route resumes the action; a signature goes on to record the    *)
(* commissions of the seller and of the seller's manager.                  *)
(*                                                                         *)
(* One action on one subject is modelled; the signature itself, with its   *)
(* lock on the reservation, is Sales.tla, refunds under theirs Ledger.tla. *)
(***************************************************************************)
EXTENDS Desk, Naturals

CONSTANTS Paid   \* units of money collected on the line, of which one is refunded

ASSUME ApprovalsAssumption ==
  Paid \in Nat /\ None \notin [status : {"pending", "approved", "rejected"}, failed : BOOLEAN]

VARIABLES
  action,     \* [kind, gated]: gated unless the discount is below the threshold
  rates,      \* [base, override]: a rate is configured (and there is a manager)
  approval,   \* [status, failed], None before it is requested
  done,       \* how often the action was carried out
  commission, \* [base, override]: rows recorded for the contract
  approvalCall,  \* [Callers -> a call in progress]
  decided,    \* auxiliary: the decisions that have been saved
  contested   \* auxiliary: two decisions were under way at once

approvalVars == <<action, rates, approval, done, commission, approvalCall, decided, contested>>

ApprovalsInit ==
  /\ action \in [kind : {"discount_override"}, gated : BOOLEAN]
                  \cup [kind : {"contract_amendment", "refund"}, gated : {TRUE}]
  /\ rates \in [base : BOOLEAN, override : BOOLEAN]
  /\ approval = None
  /\ done = 0
  /\ commission = [base |-> 0, override |-> 0]
  /\ approvalCall = [w \in Callers |-> Rest]
  /\ decided = {}
  /\ contested = FALSE

Goes(w, new) == approvalCall' = Becomes(approvalCall, w, new)
-----------------------------------------------------------------------------
(* The routes: ask for an approval, or act at once. *)
RequestApproval(w) ==
  /\ approvalCall[w] = Rest
  /\ approval = None
  /\ IF action.gated
       THEN approval' = [status |-> "pending", failed |-> FALSE] /\ UNCHANGED approvalCall
       ELSE Goes(w, [pc |-> "act"]) /\ UNCHANGED approval
  /\ UNCHANGED <<action, rates, done, commission, decided, contested>>

(* Mutant: a decision does not look at the status. *)
AnyStatus(a) == a # None
Pending(a) == a # None /\ a.status = "pending"

(* approve, reject: getPending, the permission of the approver, a save. *)
ReadPending(w, status) ==
  /\ approvalCall[w] = Rest
  /\ Pending(approval)
  /\ Goes(w, [pc |-> "decide", new |-> [approval EXCEPT !.status = status]])
  /\ contested' = (contested \/ \E v \in Callers : approvalCall[v].pc = "decide")
  /\ UNCHANGED <<action, rates, approval, done, commission, decided>>

SaveDecision(w) ==
  LET c == approvalCall[w] IN
  /\ c.pc = "decide"
  /\ approval' = c.new
  /\ decided' = decided \cup {c.new.status}
  /\ Goes(w, IF c.new.status = "approved" THEN [pc |-> "act"] ELSE Rest)
  /\ UNCHANGED <<action, rates, done, commission, contested>>
-----------------------------------------------------------------------------
(* What still stands in the way of the action: a reservation is contracted  *)
(* once, no more is refunded than was paid.                                 *)
Open ==
  CASE action.kind = "discount_override" -> done = 0
    [] action.kind = "refund" -> done < Paid
    [] OTHER -> done < Paid   \* bounds the amendments

(* resumeApprovedAction, and the direct path of the route. *)
CarryOut(w) ==
  /\ approvalCall[w].pc = "act"
  /\ Open
  /\ done' = done + 1
  /\ Goes(w, IF action.kind = "discount_override" THEN [pc |-> "check"] ELSE Rest)
  /\ UNCHANGED <<action, rates, approval, commission, decided, contested>>

(* Refused (the reservation has lapsed, the amount is too high), it is      *)
(* noted on the approval: read, then saved.                                 *)
Refused(w) ==
  /\ approvalCall[w].pc = "act"
  /\ Goes(w, IF action.gated THEN [pc |-> "note", new |-> [approval EXCEPT !.failed = TRUE]] ELSE Rest)
  /\ UNCHANGED <<action, rates, approval, done, commission, decided, contested>>

RecordResumeFailure(w) ==
  /\ approvalCall[w].pc = "note"
  /\ approval' = approvalCall[w].new
  /\ Goes(w, Rest)
  /\ UNCHANGED <<action, rates, done, commission, decided, contested>>
-----------------------------------------------------------------------------
(* recordCommissionsForContract: nothing if the contract has any, else the  *)
(* line of the seller, then the line of the manager.                        *)
FindCommissions(w) ==
  /\ approvalCall[w].pc = "check"
  /\ Goes(w, IF commission.base + commission.override > 0 THEN Rest ELSE [pc |-> "base"])
  /\ UNCHANGED <<action, rates, approval, done, commission, decided, contested>>

RecordLine(w, tier, then) ==
  /\ approvalCall[w].pc = tier
  /\ commission' = IF rates[tier] THEN [commission EXCEPT ![tier] = @ + 1] ELSE commission
  /\ Goes(w, then)
  /\ UNCHANGED <<action, rates, approval, done, decided, contested>>

StopApprovals ==
  /\ ~ Quiet(approvalCall)
  /\ approvalCall' = [w \in Callers |-> Rest]
  /\ UNCHANGED <<action, rates, approval, done, commission, decided, contested>>

ApprovalsNext ==
  \/ \E w \in Callers :
       \/ RequestApproval(w)
       \/ \E status \in {"approved", "rejected"} : ReadPending(w, status)
       \/ SaveDecision(w) \/ CarryOut(w) \/ Refused(w) \/ RecordResumeFailure(w)
       \/ FindCommissions(w)
       \/ RecordLine(w, "base", [pc |-> "override"]) \/ RecordLine(w, "override", Rest)
  \/ StopApprovals

ApprovalsSpec == ApprovalsInit /\ [][ApprovalsNext]_approvalVars
-----------------------------------------------------------------------------
(* What is gated is never done before somebody approved it; it is done at   *)
(* most once, and never beside a rejection, unless two decisions were under *)
(* way at once; even then a contract is signed at most once and each of its *)
(* commissions recorded at most once.  Where a base rate is configured the  *)
(* manager's never stands without the seller's; where none is, it does,     *)
(* whatever the comment of recordCommissionsForContract says of recording   *)
(* nothing then (approval-engine.service.ts:55-60,                          *)
(* sales-commission.service.ts:81-131).                                     *)
GatedOnce ==
  /\ action.gated /\ done > 0 => "approved" \in decided
  /\ action.gated /\ ~contested => done <= 1 /\ ("rejected" \in decided => done = 0)
  /\ action.kind = "discount_override" =>
       /\ done <= 1 /\ commission.base <= 1 /\ commission.override <= 1
       /\ rates.base => commission.override <= commission.base
=============================================================================

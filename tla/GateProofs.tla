----------------------------- MODULE GateProofs -----------------------------
(***************************************************************************)
(* What the gates of the office promise, for every set of callers and      *)
(* every bound: what needs an approval (Approvals), an answer (FollowUps), *)
(* a callback (Deliveries) or a human (Agents, AgentRules) waits for it,   *)
(* and happens once. Each part states an inductive invariant: what the     *)
(* calls in progress hold, and how it agrees with what is saved; a claim   *)
(* that two calls can break when they meet is made under the flag its      *)
(* module keeps of that.  The last part is about who may see what          *)
(* (Permissions), where nothing waits.                                     *)
(***************************************************************************)
EXTENDS Approvals, FollowUps, Deliveries, Agents, AgentRules, Permissions, FoldProofs
-----------------------------------------------------------------------------
(* Approvals of gated actions. *)

(* The steps after a decision to go on, and those that record commissions. *)
Recording == {"check", "base", "override"}
Standing == {"pending", "approved", "rejected"}
Approval == [status : Standing, failed : BOOLEAN]
ApprovalCalls ==
  {Rest} \cup [pc : {"act"} \cup Recording] \cup [pc : {"decide", "note"}, new : Approval]

ApprovalTypes ==
  /\ action \in [kind : {"discount_override", "contract_amendment", "refund"}, gated : BOOLEAN]
  /\ rates \in [base : BOOLEAN, override : BOOLEAN]
  /\ approval \in Approval \cup {None}
  /\ done \in Nat
  /\ commission \in [base : Nat, override : Nat]
  /\ approvalCall \in [Callers -> ApprovalCalls]
  /\ decided \subseteq {"approved", "rejected"}
  /\ contested \in BOOLEAN

(* What is gated follows an approval, and a decision is never undone. *)
Followed ==
  /\ \A w \in Callers :
       /\ approvalCall[w].pc \in {"decide", "note"} => approvalCall[w].new.status # "pending"
       /\ action.gated /\ approvalCall[w].pc \in {"act", "note"} => "approved" \in decided
       /\ approvalCall[w].pc = "decide" => approval # None
  /\ action.gated /\ done > 0 => "approved" \in decided
  /\ decided # {} => approval # None /\ approval.status # "pending"

(* Unless two decisions met, one of them is under way, or its outcome. *)
Alone == action.gated /\ ~ contested =>
  /\ \A v, w \in Callers : approvalCall[v].pc = "decide" /\ approvalCall[w].pc = "decide" => v = w
  /\ \A w \in Callers : approvalCall[w].pc = "decide" => decided = {}
  /\ \A v, w \in Callers : approvalCall[v].pc = "act" /\ approvalCall[w].pc = "act" => v = w
  /\ \A w \in Callers : approvalCall[w].pc = "act" => done = 0 /\ "rejected" \notin decided
  /\ done <= 1
  /\ "rejected" \in decided => done = 0

(* A signature is recorded by the call that made it, line after line. *)
Recorded == action.kind = "discount_override" =>
  /\ done <= 1
  /\ done = 0 => commission.base = 0 /\ commission.override = 0
                 /\ \A w \in Callers : approvalCall[w].pc \notin Recording
  /\ \A v, w \in Callers : approvalCall[v].pc \in Recording /\ approvalCall[w].pc \in Recording => v = w
  /\ \A w \in Callers :
       /\ approvalCall[w].pc \in {"check", "base"} => commission.base = 0 /\ commission.override = 0
       /\ approvalCall[w].pc = "override" => commission.override = 0
            /\ commission.base = IF rates.base THEN 1 ELSE 0
  /\ commission.base <= 1 /\ commission.override <= 1
  /\ rates.base => commission.override <= commission.base

ApprovalsInv == ApprovalTypes /\ Followed /\ Alone /\ Recorded

(* The approval, its calls and its commissions start in order. *)
LEMMA ApprovalsStart == ApprovalsInit => ApprovalsInv
<1> SUFFICES ASSUME ApprovalsInit PROVE ApprovalsInv
  OBVIOUS
<1>1. \A w \in Callers : approvalCall[w] = Rest /\ approvalCall[w].pc = "idle"
  BY DEF ApprovalsInit, Rest
<1>2. ApprovalTypes
  BY DEF ApprovalsInit, ApprovalTypes, ApprovalCalls
<1> QED
  BY <1>1, <1>2 DEF ApprovalsInit, ApprovalsInv, Followed, Alone, Recorded, Recording

(* Every step of an approval keeps the invariant: a step per action. *)
LEMMA ApprovalsNextInv ==
  ASSUME ApprovalsInv, [ApprovalsNext]_approvalVars PROVE ApprovalsInv'
<1> USE DEF ApprovalsInv
<1>0. approvalCall \in [Callers -> ApprovalCalls] /\ ApprovalTypes
  BY DEF ApprovalTypes
<1>1. ASSUME NEW w \in Callers, RequestApproval(w) PROVE ApprovalsInv'
  <2>1. CASE action.gated
    <3>1. approval = None /\ approval' = [status |-> "pending", failed |-> FALSE]
            /\ UNCHANGED <<action, rates, done, commission, approvalCall, decided, contested>>
      BY <1>1, <2>1 DEF RequestApproval
    <3>2. approval' \in Approval /\ decided = {}
      BY <3>1 DEF Approval, Standing, Followed
    <3> QED
      BY <3>1, <3>2 DEF ApprovalTypes, Followed, Alone, Recorded, Approval
  <2>2. CASE ~ action.gated
    <3>1. /\ approvalCall' = [approvalCall EXCEPT ![w] = [pc |-> "act"]]
          /\ approvalCall[w] = Rest
          /\ UNCHANGED <<action, rates, approval, done, commission, decided, contested>>
      BY <1>1, <2>2 DEF RequestApproval, Goes, Becomes
    <3>2. [pc |-> "act"] \in ApprovalCalls
      BY DEF ApprovalCalls
    <3>3. approvalCall'[w].pc = "act" /\ \A v \in Callers : v # w => approvalCall'[v] = approvalCall[v]
      BY <1>0, <3>1
    <3>4. ApprovalTypes'
      BY <3>1, <3>2 DEF ApprovalTypes
    <3>5. Followed'
      BY <2>2, <3>1, <3>3 DEF Followed
    <3>6. Alone' /\ Recorded'
      BY <2>2, <3>1, <3>3 DEF Alone, Recorded, Recording
    <3> QED
      BY <3>4, <3>5, <3>6
  <2> QED
    BY <2>1, <2>2
<1>2. ASSUME NEW w \in Callers, NEW status \in {"approved", "rejected"}, ReadPending(w, status)
      PROVE  ApprovalsInv'
  <2>1. PICK a \in Approval : a = [approval EXCEPT !.status = status] /\ a.status = status
    BY <1>2, <1>0 DEF ReadPending, Pending, ApprovalTypes, Approval, Standing
  <2>2. /\ approvalCall' = [approvalCall EXCEPT ![w] = [pc |-> "decide", new |-> a]]
        /\ approval # None /\ approval.status = "pending"
        /\ contested' = (contested \/ \E v \in Callers : approvalCall[v].pc = "decide")
        /\ UNCHANGED <<action, rates, approval, done, commission, decided>>
    BY <1>2, <2>1 DEF ReadPending, Pending, Goes, Becomes
  <2>3. [pc |-> "decide", new |-> a] \in ApprovalCalls
    BY DEF ApprovalCalls
  <2>4. approvalCall'[w] = [pc |-> "decide", new |-> a]
        /\ \A v \in Callers : v # w => approvalCall'[v] = approvalCall[v]
    BY <1>0, <2>2
  <2>5. approvalCall'[w].pc = "decide" /\ approvalCall'[w].new = a /\ a.status = status
    BY <2>1, <2>4
  <2>6. decided = {}
    BY <2>2 DEF Followed
  <2>7. ApprovalTypes'
    BY <2>2, <2>3 DEF ApprovalTypes
  <2>8. Followed'
    BY <2>2, <2>4, <2>5 DEF Followed
  <2>9. Alone'
    BY <2>2, <2>4, <2>5, <2>6 DEF Alone, ApprovalTypes
  <2>10. Recorded'
    BY <2>2, <2>4, <2>5 DEF Recorded, Recording
  <2> QED
    BY <2>7, <2>8, <2>9, <2>10
<1>3. ASSUME NEW w \in Callers, SaveDecision(w) PROVE ApprovalsInv'
  <2>1. PICK a \in Approval : a = approvalCall[w].new /\ a.status \in {"approved", "rejected"}
    BY <1>0, <1>3 DEF SaveDecision, Followed, ApprovalCalls, Approval, Standing, Rest, Recording
  <2>2. PICK n \in ApprovalCalls : n = IF a.status = "approved" THEN [pc |-> "act"] ELSE Rest
    BY DEF ApprovalCalls
  <2>3. /\ approvalCall' = [approvalCall EXCEPT ![w] = n]
        /\ approval' = a /\ decided' = decided \cup {a.status}
        /\ approvalCall[w].pc = "decide"
        /\ UNCHANGED <<action, rates, done, commission, contested>>
    BY <1>3, <2>1, <2>2 DEF SaveDecision, Goes, Becomes
  <2>4. approvalCall'[w] = n /\ \A v \in Callers : v # w => approvalCall'[v] = approvalCall[v]
    BY <1>0, <2>3
  <2>5. n.pc = (IF a.status = "approved" THEN "act" ELSE "idle")
    BY <2>2 DEF Rest
  <2>6. a # None
    BY ApprovalsAssumption DEF Approval, Standing
  <2>7. ApprovalTypes'
    BY <2>1, <2>3 DEF ApprovalTypes
  <2>8. Followed'
    BY <2>1, <2>3, <2>4, <2>5, <2>6 DEF Followed
  <2>9. Alone'
    <3> SUFFICES ASSUME action.gated, ~ contested PROVE Alone'
      BY <2>3 DEF Alone
    <3>1. decided = {} /\ done = 0 /\ \A v \in Callers : v # w => approvalCall[v].pc \notin {"decide", "act"}
      BY <2>3 DEF Alone, Followed, ApprovalTypes
    <3> QED
      BY <2>1, <2>3, <2>4, <2>5, <3>1 DEF Alone
  <2>10. Recorded'
    BY <2>3, <2>4, <2>5 DEF Recorded, Recording
  <2> QED
    BY <2>7, <2>8, <2>9, <2>10
<1>4. ASSUME NEW w \in Callers, CarryOut(w) PROVE ApprovalsInv'
  <2>1. PICK n \in ApprovalCalls :
          n = IF action.kind = "discount_override" THEN [pc |-> "check"] ELSE Rest
    BY DEF ApprovalCalls, Recording
  <2>2. /\ approvalCall' = [approvalCall EXCEPT ![w] = n]
        /\ approvalCall[w].pc = "act" /\ done' = done + 1
        /\ UNCHANGED <<action, rates, approval, commission, decided, contested>>
    BY <1>4, <2>1 DEF CarryOut, Goes, Becomes
  <2>3. approvalCall'[w] = n /\ \A v \in Callers : v # w => approvalCall'[v] = approvalCall[v]
    BY <1>0, <2>2
  <2>4. n.pc = (IF action.kind = "discount_override" THEN "check" ELSE "idle")
    BY <2>1 DEF Rest
  <2>5. ApprovalTypes'
    BY <2>2 DEF ApprovalTypes
  <2>6. done' \in Nat \ {0} /\ done \in Nat /\ (done = 0 => done' = 1)
    BY <2>2 DEF ApprovalTypes
  <2>7. Followed'
    BY <2>2, <2>3, <2>4 DEF Followed
  <2>8. Alone'
    <3> SUFFICES ASSUME action.gated, ~ contested PROVE Alone'
      BY <2>2 DEF Alone
    <3>1. done = 0 /\ "rejected" \notin decided
          /\ \A v \in Callers : v # w => approvalCall[v].pc # "act"
      BY <2>2 DEF Alone
    <3> QED
      BY <2>2, <2>3, <2>4, <2>6, <3>1 DEF Alone
  <2>9. Recorded'
    <3> SUFFICES ASSUME action.kind = "discount_override" PROVE Recorded'
      BY <2>2 DEF Recorded
    <3>1. done = 0
      BY <1>4 DEF CarryOut, Open
    <3>2. commission.base = 0 /\ commission.override = 0
          /\ \A v \in Callers : approvalCall[v].pc \notin Recording
      BY <3>1 DEF Recorded
    <3> QED
      BY <2>2, <2>3, <2>4, <2>6, <3>1, <3>2 DEF Recorded, Recording
  <2> QED
    BY <2>5, <2>7, <2>8, <2>9
<1>5. ASSUME NEW w \in Callers, Refused(w) PROVE ApprovalsInv'
  <2>1. CASE action.gated
    <3>1. "approved" \in decided /\ approvalCall[w].pc = "act"
      BY <1>5, <2>1 DEF Refused, Followed
    <3>2. approval \in Approval /\ approval.status # "pending"
      BY <3>1 DEF Followed, ApprovalTypes
    <3>3. PICK a \in Approval : a = [approval EXCEPT !.failed = TRUE] /\ a.status # "pending"
      <4>1. [approval EXCEPT !.failed = TRUE] \in Approval
        BY <3>2 DEF Approval
      <4>2. [approval EXCEPT !.failed = TRUE].status = approval.status
        BY <3>2 DEF Approval
      <4> QED
        BY <3>2, <4>1, <4>2
    <3>4. PICK n \in ApprovalCalls : n = [pc |-> "note", new |-> a]
      BY DEF ApprovalCalls
    <3>5. /\ approvalCall' = [approvalCall EXCEPT ![w] = n]
          /\ UNCHANGED <<action, rates, approval, done, commission, decided, contested>>
      BY <1>5, <2>1, <3>3, <3>4 DEF Refused, Goes, Becomes
    <3>6. approvalCall'[w] = n /\ \A v \in Callers : v # w => approvalCall'[v] = approvalCall[v]
      BY <1>0, <3>5
    <3>7. n.pc = "note" /\ n.new = a
      BY <3>4
    <3>8. ApprovalTypes'
      BY <3>5 DEF ApprovalTypes
    <3>9. Followed'
      <4>1. approvalCall'[w].pc = "note" /\ approvalCall'[w].new.status # "pending"
        BY <3>3, <3>6, <3>7
      <4> QED
        BY <3>1, <3>5, <3>6, <4>1 DEF Followed
    <3>10. Alone' /\ Recorded'
      BY <3>5, <3>6, <3>7 DEF Alone, Recorded, Recording
    <3> QED
      BY <3>8, <3>9, <3>10
  <2>2. CASE ~ action.gated
    <3>1. /\ approvalCall' = [approvalCall EXCEPT ![w] = Rest] /\ Rest \in ApprovalCalls
          /\ UNCHANGED <<action, rates, approval, done, commission, decided, contested>>
      BY <1>5, <2>2 DEF Refused, Goes, Becomes, ApprovalCalls
    <3>2. approvalCall'[w].pc = "idle" /\ \A v \in Callers : v # w => approvalCall'[v] = approvalCall[v]
      BY <1>0, <3>1 DEF Rest
    <3>3. ApprovalTypes'
      BY <3>1 DEF ApprovalTypes
    <3> QED
      BY <3>1, <3>2, <3>3 DEF Followed, Alone, Recorded, Recording
  <2> QED
    BY <2>1, <2>2
<1>6. ASSUME NEW w \in Callers, RecordResumeFailure(w) PROVE ApprovalsInv'
  <2>1. PICK a \in Approval : a = approvalCall[w].new /\ a.status # "pending"
    BY <1>0, <1>6 DEF RecordResumeFailure, Followed, ApprovalCalls, Rest, Recording
  <2>2. /\ approvalCall' = [approvalCall EXCEPT ![w] = Rest] /\ Rest \in ApprovalCalls
        /\ approval' = a /\ approvalCall[w].pc = "note"
        /\ UNCHANGED <<action, rates, done, commission, decided, contested>>
    BY <1>6, <2>1 DEF RecordResumeFailure, Goes, Becomes, ApprovalCalls
  <2>3. approvalCall'[w].pc = "idle" /\ \A v \in Callers : v # w => approvalCall'[v] = approvalCall[v]
    BY <1>0, <2>2 DEF Rest
  <2>4. a # None
    BY ApprovalsAssumption DEF Approval, Standing
  <2>5. ApprovalTypes'
    BY <2>2 DEF ApprovalTypes
  <2>6. Followed'
    BY <2>1, <2>2, <2>3, <2>4 DEF Followed
  <2>7. Alone' /\ Recorded'
    BY <2>2, <2>3 DEF Alone, Recorded, Recording
  <2> QED
    BY <2>5, <2>6, <2>7
<1>7. ASSUME NEW w \in Callers, FindCommissions(w) PROVE ApprovalsInv'
  <2>1. PICK n \in ApprovalCalls : n = IF commission.base + commission.override > 0 THEN Rest ELSE [pc |-> "base"]
    BY DEF ApprovalCalls, Recording
  <2>2. /\ approvalCall' = [approvalCall EXCEPT ![w] = n] /\ approvalCall[w].pc = "check"
        /\ UNCHANGED <<action, rates, approval, done, commission, decided, contested>>
    BY <1>7, <2>1 DEF FindCommissions, Goes, Becomes
  <2>3. approvalCall'[w] = n /\ \A v \in Callers : v # w => approvalCall'[v] = approvalCall[v]
    BY <1>0, <2>2
  <2>4. n.pc \in {"idle", "base"}
    BY <2>1 DEF Rest
  <2>5. ApprovalTypes' /\ Followed' /\ Alone'
    BY <2>2, <2>3, <2>4 DEF ApprovalTypes, Followed, Alone
  <2>6. Recorded'
    BY <2>2, <2>3, <2>4 DEF Recorded, Recording
  <2> QED
    BY <2>5, <2>6
<1>8. ASSUME NEW w \in Callers, RecordLine(w, "base", [pc |-> "override"]) PROVE ApprovalsInv'
  <2>1. [pc |-> "override"] \in ApprovalCalls
    BY DEF ApprovalCalls, Recording
  <2>2. /\ approvalCall' = [approvalCall EXCEPT ![w] = [pc |-> "override"]] /\ approvalCall[w].pc = "base"
        /\ commission' = IF rates.base THEN [commission EXCEPT !.base = @ + 1] ELSE commission
        /\ UNCHANGED <<action, rates, approval, done, decided, contested>>
    BY <1>8 DEF RecordLine, Goes, Becomes
  <2>3. approvalCall'[w].pc = "override"
        /\ \A v \in Callers : v # w => approvalCall'[v] = approvalCall[v]
    BY <1>0, <2>2
  <2>4. /\ commission' \in [base : Nat, override : Nat]
        /\ commission'.base = commission.base + (IF rates.base THEN 1 ELSE 0)
        /\ commission'.override = commission.override
    BY <2>2 DEF ApprovalTypes
  <2>5. ApprovalTypes' /\ Followed' /\ Alone'
    BY <2>1, <2>2, <2>3, <2>4 DEF ApprovalTypes, Followed, Alone
  <2>6. Recorded'
    BY <2>2, <2>3, <2>4 DEF Recorded, Recording
  <2> QED
    BY <2>5, <2>6
<1>9. ASSUME NEW w \in Callers, RecordLine(w, "override", Rest) PROVE ApprovalsInv'
  <2>1. Rest \in ApprovalCalls
    BY DEF ApprovalCalls
  <2>2. /\ approvalCall' = [approvalCall EXCEPT ![w] = Rest] /\ approvalCall[w].pc = "override"
        /\ commission' = IF rates.override THEN [commission EXCEPT !.override = @ + 1] ELSE commission
        /\ UNCHANGED <<action, rates, approval, done, decided, contested>>
    BY <1>9 DEF RecordLine, Goes, Becomes
  <2>3. approvalCall'[w].pc = "idle"
        /\ \A v \in Callers : v # w => approvalCall'[v] = approvalCall[v]
    BY <1>0, <2>2 DEF Rest
  <2>4. /\ commission' \in [base : Nat, override : Nat]
        /\ commission'.override = commission.override + (IF rates.override THEN 1 ELSE 0)
        /\ commission'.base = commission.base
    BY <2>2 DEF ApprovalTypes
  <2>5. ApprovalTypes' /\ Followed' /\ Alone'
    BY <2>1, <2>2, <2>3, <2>4 DEF ApprovalTypes, Followed, Alone
  <2>6. Recorded'
    BY <2>2, <2>3, <2>4 DEF Recorded, Recording
  <2> QED
    BY <2>5, <2>6
<1>10. CASE StopApprovals
  <2>1. approvalCall' = [w \in Callers |-> Rest] /\ Rest \in ApprovalCalls
        /\ UNCHANGED <<action, rates, approval, done, commission, decided, contested>>
    BY <1>10 DEF StopApprovals, ApprovalCalls
  <2>2. \A w \in Callers : approvalCall'[w].pc = "idle"
    BY <2>1 DEF Rest
  <2> QED
    BY <2>1, <2>2 DEF ApprovalTypes, Followed, Alone, Recorded, Recording
<1>11. CASE UNCHANGED approvalVars
  BY <1>11 DEF approvalVars, ApprovalTypes, Followed, Alone, Recorded
<1> QED
  BY <1>1, <1>2, <1>3, <1>4, <1>5, <1>6, <1>7, <1>8, <1>9, <1>10, <1>11 DEF ApprovalsNext

(* What is gated is never done before somebody approved it; it is done at   *)
(* most once, and never beside a rejection, unless two decisions were under *)
(* way at once; even then a contract is signed, and each commission         *)
(* recorded, at most once, the manager's beside the seller's where a base   *)
(* rate is configured (approval-engine.service.ts:55-60,                    *)
(* sales-commission.service.ts:81-131).                                     *)
THEOREM GatedActions == ApprovalsSpec => []GatedOnce
<1>1. ApprovalsInv => GatedOnce
  BY DEF ApprovalsInv, Followed, Alone, Recorded, GatedOnce
<1>2. ApprovalsInv /\ [ApprovalsNext]_approvalVars => ApprovalsInv'
  BY ApprovalsNextInv
<1> QED
  BY <1>1, <1>2, ApprovalsStart, PTL DEF ApprovalsSpec
-----------------------------------------------------------------------------
(* Follow-ups of the agents: AI workflow runs. *)

RunStatus == {"running", "waiting", "completed", "escalated"}
Parts == {"park", "complete", "escalate", "reply"}
FollowCalls ==
  {Rest, [pc |-> "start"]}
    \cup [pc : {"check"}, run : Nat, copy : {"running"}, at : 1 .. Len(Checks)]
    \cup [pc : {"ask"}, run : Nat, copy : {"running", "waiting"}, action : Actions]
    \cup [pc : Parts, run : Nat]
OnRun(c) == c.pc \in {"check", "ask"} \cup Parts

FollowTypes ==
  /\ runs \in Seq(RunStatus)
  /\ acted \in Seq([Actions -> Nat])
  /\ Len(acted) = Len(runs)
  /\ replied \in BOOLEAN /\ doubled \in BOOLEAN
  /\ followCall \in [Callers -> FollowCalls]
  /\ \A w \in Callers : OnRun(followCall[w]) => followCall[w].run \in DOMAIN runs

(* What a call has had executed for its run when it comes to its step. *)
Owed(c) ==
  /\ c.pc = "ask" /\ c.action = "send_message" => acted[c.run]["create_task"] > 0
  /\ c.pc \in {"park", "reply"} => acted[c.run]["create_task"] > 0 /\ acted[c.run]["send_message"] > 0
  /\ c.pc = "ask" /\ c.action = "update_lead_status" => replied

Executed ==
  /\ \A w \in Callers : Owed(followCall[w])
  /\ \A r \in DOMAIN runs :
       /\ runs[r] = "waiting" => acted[r]["create_task"] > 0 /\ acted[r]["send_message"] > 0
       /\ acted[r]["update_lead_status"] > 0 => replied

(* What it has not had executed yet. *)
Unanswered(r) == acted[r]["update_lead_status"] = 0 /\ acted[r]["escalation_task"] = 0
Ahead(c) ==
  /\ c.pc = "check" => \A a \in Actions : acted[c.run][a] = 0
  /\ c.pc = "ask" => Unanswered(c.run) /\ acted[c.run][c.action] = 0
                     /\ (c.action = "create_task" => acted[c.run]["send_message"] = 0)
  /\ c.pc \in {"park", "reply"} => Unanswered(c.run)

Sharing(v, w) == OnRun(followCall[v]) /\ OnRun(followCall[w]) /\ followCall[v].run = followCall[w].run
Tailing(w, r) == followCall[w].pc \in {"complete", "escalate"} /\ followCall[w].run = r

Single == ~ doubled =>
  /\ \A v, w \in Callers : Sharing(v, w) => v = w
  /\ \A w \in Callers : OnRun(followCall[w]) => Active(runs[followCall[w].run])
  /\ \A v, w \in Callers : followCall[v].pc = "start" /\ followCall[w].pc = "start" => v = w
  /\ \A w \in Callers, r \in DOMAIN runs : followCall[w].pc = "start" => ~ Active(runs[r])
  /\ \A r, q \in DOMAIN runs : Active(runs[r]) /\ Active(runs[q]) => r = q
  /\ \A r \in DOMAIN runs, a \in Actions : acted[r][a] <= 1
  /\ \A w \in Callers : Ahead(followCall[w])
  /\ \A r \in DOMAIN runs : runs[r] = "waiting" => Unanswered(r) \/ \E w \in Callers : Tailing(w, r)

FollowInv == FollowTypes /\ Executed /\ Single

(* No run, no call: the follow-ups start in order. *)
LEMMA FollowUpsStart == FollowUpsInit => FollowInv
<1> SUFFICES ASSUME FollowUpsInit PROVE FollowInv
  OBVIOUS
<1>1. runs \in Seq(RunStatus) /\ acted \in Seq([Actions -> Nat]) /\ Len(acted) = Len(runs) /\ DOMAIN runs = {}
  BY DEF FollowUpsInit
<1>2. \A w \in Callers : followCall[w] = Rest /\ followCall[w].pc = "idle"
  BY DEF FollowUpsInit, Rest
<1>3. FollowTypes
  BY <1>1, <1>2 DEF FollowUpsInit, FollowTypes, FollowCalls, OnRun, Parts
<1>4. Executed /\ Single
  BY <1>1, <1>2 DEF Executed, Owed, Single, Sharing, OnRun, Parts, Ahead
<1> QED
  BY <1>3, <1>4 DEF FollowInv

(* A call saves its run and goes on to a step that it fits, or to none. *)
LEMMA SavesRun ==
  ASSUME FollowInv, NEW w \in Callers, NEW n \in FollowCalls, NEW r \in DOMAIN runs, NEW s \in RunStatus,
         OnRun(followCall[w]), followCall[w].run = r,
         n = Rest \/ (OnRun(n) /\ n.run = r /\ Active(s)),
         runs' = [runs EXCEPT ![r] = s], followCall' = [followCall EXCEPT ![w] = n],
         UNCHANGED <<acted, replied, doubled>>,
         s = "waiting" => acted[r]["create_task"] > 0 /\ acted[r]["send_message"] > 0,
         s = "waiting" /\ ~ doubled => Unanswered(r),
         Owed(n), ~ doubled => Ahead(n)
  PROVE  FollowInv'
<1> USE DEF FollowInv
<1>0. runs \in Seq(RunStatus) /\ followCall \in [Callers -> FollowCalls] /\ FollowTypes
  BY DEF FollowTypes
<1>1. followCall'[w] = n /\ \A v \in Callers : v # w => followCall'[v] = followCall[v]
  BY <1>0
<1>2. /\ runs' \in Seq(RunStatus) /\ DOMAIN runs' = DOMAIN runs /\ Len(runs') = Len(runs)
      /\ runs'[r] = s /\ \A q \in DOMAIN runs : q # r => runs'[q] = runs[q]
  BY <1>0
<1>3. Rest.pc = "idle" /\ ~ OnRun(Rest)
  BY DEF Rest, OnRun, Parts
<1>4. UNCHANGED <<acted, replied, doubled>>
  OBVIOUS
<1>5. FollowTypes'
  <2>1. followCall' \in [Callers -> FollowCalls]
    BY <1>0
  <2>2. \A v \in Callers : OnRun(followCall'[v]) => followCall'[v].run \in DOMAIN runs'
    BY <1>1, <1>2, <1>3 DEF FollowTypes
  <2> QED
    BY <1>2, <1>4, <2>1, <2>2 DEF FollowTypes, OnRun
<1>6. Executed'
  <2>1. \A v \in Callers : Owed(followCall'[v])
    BY <1>1 DEF Executed
  <2> QED
    BY <1>2, <1>4, <2>1 DEF Executed, Owed
<1>7. Single'
  <2> SUFFICES ASSUME ~ doubled PROVE Single'
    BY <1>4 DEF Single
  <2>1. \A v, u \in Callers : Sharing(v, u)' => v = u
    <3>1. \A v, u \in Callers : Sharing(v, u)' => Sharing(v, u)
      BY <1>1, <1>3 DEF Sharing, OnRun
    <3> QED
      BY <3>1 DEF Single
  <2>2. \A v \in Callers : v # w /\ OnRun(followCall[v]) => followCall[v].run # r /\ Active(runs[followCall[v].run])
    BY DEF Single, Sharing
  <2>3. \A v \in Callers : OnRun(followCall'[v]) => Active(runs'[followCall'[v].run])
    BY <1>1, <1>2, <1>3, <2>2 DEF FollowTypes
  <2>4. Active(runs[r])
    BY DEF Single
  <2>5. \A q \in DOMAIN runs : Active(runs'[q]) => Active(runs[q])
    BY <1>2, <2>4
  <2>6. \A v \in Callers : followCall'[v].pc = "start" => followCall[v].pc = "start"
    BY <1>1, <1>3 DEF OnRun, Parts
  <2>7. \A v, u \in Callers : followCall'[v].pc = "start" /\ followCall'[u].pc = "start" => v = u
    BY <2>6 DEF Single
  <2>8. \A v \in Callers, q \in DOMAIN runs : followCall'[v].pc = "start" => ~ Active(runs'[q])
    BY <2>5, <2>6 DEF Single
  <2>9. \A p, q \in DOMAIN runs : Active(runs'[p]) /\ Active(runs'[q]) => p = q
    BY <2>5 DEF Single
  <2>10. \A v \in Callers : Ahead(followCall'[v])
    BY <1>1 DEF Single
  <2>11. ASSUME NEW q \in DOMAIN runs, runs'[q] = "waiting"
         PROVE  Unanswered(q) \/ \E v \in Callers : Tailing(v, q)'
    <3>1. CASE q = r
      BY <1>2, <2>11, <3>1
    <3>2. CASE q # r
      <4>1. \A v \in Callers : Tailing(v, q) => v # w
        BY <3>2 DEF Tailing
      <4>2. \A v \in Callers : Tailing(v, q) => Tailing(v, q)'
        BY <1>1, <4>1 DEF Tailing
      <4> QED
        BY <1>2, <2>11, <3>2, <4>2 DEF Single
    <3> QED
      BY <3>1, <3>2
  <2> QED
    BY <1>2, <1>4, <2>1, <2>3, <2>7, <2>8, <2>9, <2>10, <2>11 DEF Single, OnRun, Active, Ahead, Unanswered
<1> QED
  BY <1>5, <1>6, <1>7

(* The records of the calls, and what a call that asks carries. *)
LEMMA CallRecords ==
  /\ \A r \in Nat, pc \in Parts : [pc |-> pc, run |-> r] \in FollowCalls
  /\ \A c \in [pc : {"ask"}, run : Nat, copy : {"running", "waiting"}, action : Actions] : c \in FollowCalls
  /\ \A c \in FollowCalls : c.pc = "ask" =>
       c \in [pc : {"ask"}, run : Nat, copy : {"running", "waiting"}, action : Actions]
<1>1. \A r \in Nat, pc \in Parts : [pc |-> pc, run |-> r] \in FollowCalls
  BY DEF FollowCalls
<1>2. \A c \in [pc : {"ask"}, run : Nat, copy : {"running", "waiting"}, action : Actions] : c \in FollowCalls
  BY DEF FollowCalls
<1>3. ASSUME NEW c \in FollowCalls, c.pc = "ask"
      PROVE  c \in [pc : {"ask"}, run : Nat, copy : {"running", "waiting"}, action : Actions]
  <2>1. c # Rest /\ c # [pc |-> "start"]
    BY <1>3 DEF Rest
  <2>2. c \notin [pc : {"check"}, run : Nat, copy : {"running"}, at : 1 .. Len(Checks)]
    BY <1>3
  <2>3. c \notin [pc : Parts, run : Nat]
    BY <1>3 DEF Parts
  <2> QED
    BY <2>1, <2>2, <2>3 DEF FollowCalls
<1> QED
  BY <1>1, <1>2, <1>3

(* An action is asked for: executed, it is counted, and the call goes on to *)
(* the step that follows; else the run is escalated.                        *)
LEMMA RequestKeeps ==
  ASSUME FollowInv, NEW w \in Callers, NEW outcome \in Outcomes, RequestStep(w, outcome)
  PROVE  FollowInv'
<1> USE DEF FollowInv
<1>0. /\ runs \in Seq(RunStatus) /\ acted \in Seq([Actions -> Nat]) /\ followCall \in [Callers -> FollowCalls]
      /\ DOMAIN runs = DOMAIN acted /\ FollowTypes
      /\ DOMAIN runs = 1 .. Len(runs) /\ DOMAIN acted = 1 .. Len(runs) /\ Len(runs) \in Nat
      /\ \A q \in DOMAIN acted : acted[q] \in [Actions -> Nat]
  BY DEF FollowTypes
<1>1. followCall[w].pc = "ask" /\ OnRun(followCall[w])
  BY DEF RequestStep, OnRun
<1>2. PICK r \in DOMAIN runs, x \in Actions : r = followCall[w].run /\ x = followCall[w].action /\ r \in Nat
  <2>1. followCall[w] \in [pc : {"ask"}, run : Nat, copy : {"running", "waiting"}, action : Actions]
    BY <1>0, <1>1, CallRecords
  <2> QED
    BY <1>0, <1>1, <2>1 DEF FollowTypes
<1>3. acted[r] \in [Actions -> Nat] /\ r \in DOMAIN acted /\ r \in Nat
  BY <1>0, <1>2
<1>4. PICK f \in [Actions -> Nat] :
        /\ f = IF outcome = "executed" THEN [acted[r] EXCEPT ![x] = @ + 1] ELSE acted[r]
        /\ \A a \in Actions : a # x => f[a] = acted[r][a]
        /\ f[x] = acted[r][x] + (IF outcome = "executed" THEN 1 ELSE 0)
  <2>1. CASE outcome = "executed"
    <3>1. PICK g \in [Actions -> Nat] : g = acted[r]
      BY <1>3
    <3>2. PICK f \in [Actions -> Nat] : f = [g EXCEPT ![x] = @ + 1]
      <4>1. g[x] + 1 \in Nat
        OBVIOUS
      <4> QED
        BY <4>1
    <3>3. f[x] = g[x] + 1 /\ \A a \in Actions : a # x => f[a] = g[a]
      BY <3>2
    <3> QED
      BY <2>1, <3>1, <3>2, <3>3
  <2>2. CASE outcome # "executed"
    <3>1. acted[r][x] \in Nat
      BY <1>3
    <3> QED
      BY <1>3, <2>2, <3>1
  <2> QED
    BY <2>1, <2>2
<1>5. /\ acted' \in Seq([Actions -> Nat]) /\ Len(acted') = Len(acted)
      /\ acted'[r] = f /\ \A q \in DOMAIN runs : q # r => acted'[q] = acted[q]
  <2>1. acted' = IF outcome = "executed" THEN [acted EXCEPT ![r] = f] ELSE acted
    BY <1>2, <1>4 DEF RequestStep
  <2>2. CASE outcome = "executed"
    BY <1>0, <1>3, <2>1, <2>2
  <2>3. CASE outcome # "executed"
    BY <1>0, <1>4, <2>1, <2>3
  <2> QED
    BY <2>2, <2>3
<1>6. PICK n \in FollowCalls :
        /\ followCall' = [followCall EXCEPT ![w] = n] /\ n.run = r
        /\ n.pc # "escalate" => outcome = "executed"
        /\ \/ n.pc \in {"complete", "escalate"}
           \/ n.pc = "park" /\ x = "send_message"
           \/ n.pc = "ask" /\ n.action = "send_message" /\ x = "create_task"
  <2>1. PICK c \in [pc : {"ask"}, run : Nat, copy : {"running", "waiting"}, action : Actions] : c = followCall[w]
    BY <1>0, <1>1, CallRecords
  <2>2. c.run = r /\ c.action = x /\ c.copy \in {"running", "waiting"}
    BY <1>2, <2>1
  <2>3. followCall' = [followCall EXCEPT ![w] = IF Blocked(outcome) THEN [pc |-> "escalate", run |-> r] ELSE Follows(c)]
    BY <2>1, <2>2 DEF RequestStep, Steps, Becomes
  <2>4. PICK e \in FollowCalls : e = [pc |-> "escalate", run |-> r] /\ e.run = r /\ e.pc = "escalate"
    <3>1. PICK e \in FollowCalls : e = [pc |-> "escalate", run |-> r]
      BY <1>3, CallRecords DEF Parts
    <3> QED
      BY <3>1
  <2>5. PICK m \in FollowCalls : m = [pc |-> "complete", run |-> r] /\ m.run = r /\ m.pc = "complete"
    <3>1. PICK m \in FollowCalls : m = [pc |-> "complete", run |-> r]
      BY <1>3, CallRecords DEF Parts
    <3> QED
      BY <3>1
  <2>6. PICK k \in FollowCalls : k = [pc |-> "park", run |-> r] /\ k.run = r /\ k.pc = "park"
    <3>1. PICK k \in FollowCalls : k = [pc |-> "park", run |-> r]
      BY <1>3, CallRecords DEF Parts
    <3> QED
      BY <3>1
  <2>7. PICK j \in FollowCalls : j = [c EXCEPT !.action = "send_message"] /\ j.run = r /\ j.pc = "ask"
                                   /\ j.action = "send_message"
    <3>1. [c EXCEPT !.action = "send_message"]
            \in [pc : {"ask"}, run : Nat, copy : {"running", "waiting"}, action : Actions]
      BY <2>1 DEF Actions
    <3> QED
      BY <2>1, <2>2, <3>1 DEF FollowCalls
  <2>8. CASE Blocked(outcome)
    BY <2>3, <2>4, <2>8
  <2>9. CASE ~ Blocked(outcome)
    <3>1. outcome = "executed"
      BY <2>9 DEF Blocked
    <3>2. CASE x = "create_task"
      BY <2>2, <2>3, <2>7, <2>9, <3>1, <3>2 DEF Follows
    <3>3. CASE x = "send_message"
      BY <2>2, <2>3, <2>6, <2>9, <3>1, <3>3 DEF Follows
    <3>4. CASE x = "update_lead_status"
      BY <2>2, <2>3, <2>5, <2>9, <3>1, <3>4 DEF Follows
    <3>5. CASE x = "escalation_task"
      BY <2>2, <2>3, <2>4, <2>9, <3>1, <3>5 DEF Follows
    <3> QED
      BY <3>2, <3>3, <3>4, <3>5 DEF Actions
  <2> QED
    BY <2>8, <2>9
<1>7. UNCHANGED <<runs, replied, doubled>> /\ OnRun(n) /\ n.pc # "start"
  BY <1>6 DEF RequestStep, OnRun, Parts
<1>8. followCall'[w] = n /\ \A v \in Callers : v # w => followCall'[v] = followCall[v]
  BY <1>0, <1>6
<1>9. \A q \in DOMAIN runs, a \in Actions : acted[q][a] \in Nat /\ acted'[q][a] \in Nat /\ acted'[q][a] >= acted[q][a]
  <2>1. \A a \in Actions : f[a] >= acted[r][a]
    BY <1>3, <1>4
  <2> QED
    <3>1. \A q \in DOMAIN runs, a \in Actions : acted[q][a] \in Nat
      BY <1>0
    <3>2. \A a \in Actions : acted'[r][a] \in Nat /\ acted'[r][a] >= acted[r][a]
      BY <1>5, <2>1
    <3> QED
      BY <1>5, <3>1, <3>2
<1>10. FollowTypes'
  <2>1. followCall' \in [Callers -> FollowCalls]
    BY <1>0, <1>6
  <2>2. \A v \in Callers : OnRun(followCall'[v]) => followCall'[v].run \in DOMAIN runs'
    BY <1>6, <1>7, <1>8 DEF FollowTypes
  <2> QED
    BY <1>5, <1>7, <2>1, <2>2 DEF FollowTypes, OnRun
<1>11. Executed'
  <2>1. "create_task" \in Actions /\ "send_message" \in Actions /\ "update_lead_status" \in Actions
    BY DEF Actions
  <2>2. acted[r]["create_task"] > 0 => acted'[r]["create_task"] > 0
    BY <1>9, <2>1
  <2>3. x = "create_task" /\ outcome = "executed" => acted'[r]["create_task"] > 0
    BY <1>3, <1>4, <1>5
  <2>4. x = "send_message" /\ outcome = "executed" => acted'[r]["send_message"] > 0
    BY <1>3, <1>4, <1>5
  <2>5. x = "send_message" => acted[r]["create_task"] > 0
    BY <1>1, <1>2 DEF Executed, Owed
  <2>6. \A v \in Callers : Owed(followCall[v])'
    <3> SUFFICES ASSUME NEW v \in Callers PROVE Owed(followCall[v])'
      OBVIOUS
    <3>1. CASE v = w
      BY <1>6, <1>8, <2>2, <2>3, <2>4, <2>5, <3>1 DEF Owed
    <3>2. CASE v # w
      <4>1. followCall[v].pc \in {"ask", "park", "reply"} => followCall[v].run \in DOMAIN runs
        BY DEF FollowTypes, OnRun, Parts
      <4>2. Owed(followCall[v]) /\ followCall'[v] = followCall[v]
        BY <1>8, <3>2 DEF Executed
      <4>3. followCall[v].pc \in {"ask", "park", "reply"} =>
              /\ acted[followCall[v].run]["create_task"] > 0 => acted'[followCall[v].run]["create_task"] > 0
              /\ acted[followCall[v].run]["send_message"] > 0 => acted'[followCall[v].run]["send_message"] > 0
        BY <1>9, <2>1, <4>1
      <4> QED
        BY <1>7, <4>2, <4>3 DEF Owed
    <3> QED
      BY <3>1, <3>2
  <2>7. \A q \in DOMAIN runs : runs[q] = "waiting" => acted'[q]["create_task"] > 0 /\ acted'[q]["send_message"] > 0
    BY <1>9, <2>1 DEF Executed
  <2>8. x = "update_lead_status" => replied
    BY <1>1, <1>2 DEF Executed, Owed
  <2>9. \A q \in DOMAIN runs : acted'[q]["update_lead_status"] > 0 => replied
    BY <1>4, <1>5, <2>1, <2>8 DEF Executed
  <2> QED
    BY <1>7, <2>6, <2>7, <2>9 DEF Executed
<1>12. Single'
  <2> SUFFICES ASSUME ~ doubled PROVE Single'
    BY <1>7 DEF Single
  <2>1. \A v, u \in Callers : Sharing(v, u)' => v = u
    <3>1. \A v, u \in Callers : Sharing(v, u)' => Sharing(v, u)
      BY <1>1, <1>2, <1>6, <1>8 DEF Sharing, OnRun
    <3> QED
      BY <3>1 DEF Single
  <2>2. \A v \in Callers : v # w /\ OnRun(followCall[v]) => followCall[v].run # r /\ followCall[v].run \in DOMAIN runs
    BY <1>1, <1>2 DEF Single, Sharing, FollowTypes
  <2>3. \A v \in Callers : OnRun(followCall'[v]) => Active(runs'[followCall'[v].run])
    BY <1>1, <1>2, <1>6, <1>7, <1>8 DEF Single
  <2>4. \A v \in Callers : followCall'[v].pc = "start" => followCall[v].pc = "start"
    BY <1>7, <1>8
  <2>5. Unanswered(r) /\ acted[r][x] = 0 /\ (x = "create_task" => acted[r]["send_message"] = 0)
    BY <1>1, <1>2 DEF Single, Ahead
  <2>6. \A q \in DOMAIN runs, a \in Actions : acted'[q][a] <= 1
    <3>1. \A a \in Actions : f[a] <= 1
      BY <1>3, <1>4, <2>5 DEF Single
    <3> QED
      BY <1>5, <3>1 DEF Single
  <2>7. n.pc \in {"park", "ask"} => Unanswered(r)'
    <3>1. x \in {"create_task", "send_message"} =>
            f["update_lead_status"] = 0 /\ f["escalation_task"] = 0
      BY <1>4, <2>5 DEF Unanswered, Actions
    <3> QED
      BY <1>5, <1>6, <3>1 DEF Unanswered
  <2>8. \A v \in Callers : Ahead(followCall[v])'
    <3> SUFFICES ASSUME NEW v \in Callers PROVE Ahead(followCall[v])'
      OBVIOUS
    <3>1. CASE v = w
      <4>1. n.pc = "ask" => acted'[r]["send_message"] = 0 /\ n.action = "send_message"
        BY <1>4, <1>5, <1>6, <2>5 DEF Actions
      <4> QED
        BY <1>6, <1>8, <2>7, <3>1, <4>1 DEF Ahead
    <3>2. CASE v # w
      <4>1. followCall'[v] = followCall[v] /\ Ahead(followCall[v])
        BY <1>8, <3>2 DEF Single
      <4>2. OnRun(followCall[v]) => acted'[followCall[v].run] = acted[followCall[v].run]
        BY <1>5, <2>2, <3>2
      <4>3. followCall[v].pc \in {"check", "ask", "park", "reply"} => OnRun(followCall[v])
        BY DEF OnRun, Parts
      <4> QED
        BY <4>1, <4>2, <4>3 DEF Ahead, Unanswered
    <3> QED
      BY <3>1, <3>2
  <2>9. ASSUME NEW q \in DOMAIN runs, runs[q] = "waiting"
        PROVE  Unanswered(q)' \/ \E v \in Callers : Tailing(v, q)'
    <3>1. CASE q = r
      BY <1>6, <1>8, <2>7, <3>1 DEF Tailing
    <3>2. CASE q # r
      <4>1. Unanswered(q) => Unanswered(q)'
        BY <1>5, <3>2 DEF Unanswered
      <4>2. \A v \in Callers : Tailing(v, q) => Tailing(v, q)'
        BY <1>2, <1>8, <3>2 DEF Tailing
      <4> QED
        BY <2>9, <4>1, <4>2 DEF Single
    <3> QED
      BY <3>1, <3>2
  <2> QED
    BY <1>7, <2>1, <2>3, <2>4, <2>6, <2>8, <2>9 DEF Single, OnRun, Active
<1> QED
  BY <1>10, <1>11, <1>12

(* A call begins, or ends, without a change of its run. *)
LEMMA FollowUpsNextInv ==
  ASSUME FollowInv, [FollowUpsNext]_followVars PROVE FollowInv'
<1> USE DEF FollowInv
<1>0. /\ runs \in Seq(RunStatus) /\ acted \in Seq([Actions -> Nat]) /\ followCall \in [Callers -> FollowCalls]
      /\ DOMAIN runs = DOMAIN acted /\ FollowTypes /\ Rest \in FollowCalls
      /\ Rest.pc = "idle" /\ ~ OnRun(Rest) /\ Owed(Rest) /\ Ahead(Rest)
      /\ DOMAIN runs = 1 .. Len(runs) /\ Len(runs) \in Nat
  BY DEF FollowTypes, FollowCalls, Rest, OnRun, Parts, Owed, Ahead
<1>a. Len(Checks) = 6
  BY DEF Checks
<1>1. ASSUME NEW w \in Callers, FindActive(w) PROVE FollowInv'
  <2>1. PICK n \in FollowCalls : n = [pc |-> "start"]
    BY DEF FollowCalls
  <2>2. /\ followCall' = [followCall EXCEPT ![w] = n] /\ followCall[w].pc = "idle"
        /\ \A r \in DOMAIN runs : ~ Active(runs[r])
        /\ doubled' = (doubled \/ \E v \in Callers : followCall[v].pc = "start")
        /\ UNCHANGED <<runs, acted, replied>>
    BY <1>0, <1>1, <2>1 DEF FindActive, Steps, Becomes
  <2>3. n.pc = "start" /\ followCall'[w] = n /\ \A v \in Callers : v # w => followCall'[v] = followCall[v]
    BY <1>0, <2>1, <2>2
  <2>4. \A v \in Callers : OnRun(followCall'[v]) => v # w /\ OnRun(followCall[v])
    BY <2>3 DEF OnRun, Parts
  <2>5. FollowTypes'
    <3>1. followCall' \in [Callers -> FollowCalls]
      BY <1>0, <2>2
    <3>2. \A v \in Callers : OnRun(followCall'[v]) => followCall'[v].run \in DOMAIN runs'
      BY <2>2, <2>3, <2>4 DEF FollowTypes
    <3> QED
      BY <2>2, <3>1, <3>2 DEF FollowTypes, OnRun
  <2>6. Executed'
    <3>1. \A v \in Callers : Owed(followCall'[v])
      BY <2>3 DEF Executed, Owed
    <3> QED
      BY <2>2, <3>1 DEF Executed, Owed
  <2>7. Single'
    <3> SUFFICES ASSUME ~ doubled' PROVE Single'
      BY DEF Single
    <3>1. ~ doubled /\ \A v \in Callers : followCall[v].pc # "start"
      BY <2>2
    <3>2. \A v, u \in Callers : Sharing(v, u)' => v = u
      <4>1. \A v, u \in Callers : Sharing(v, u)' => Sharing(v, u)
        BY <2>3, <2>4 DEF Sharing, OnRun
      <4> QED
        BY <3>1, <4>1 DEF Single
    <3>3. \A v \in Callers : OnRun(followCall'[v]) => Active(runs'[followCall'[v].run])
      BY <2>2, <2>3, <2>4, <3>1 DEF Single
    <3>4. \A v, u \in Callers : followCall'[v].pc = "start" /\ followCall'[u].pc = "start" => v = u
      BY <2>3, <3>1
    <3>5. \A v \in Callers : Ahead(followCall'[v])
      BY <2>3, <3>1 DEF Single, Ahead
    <3>6. \A r \in DOMAIN runs, v \in Callers : Tailing(v, r) => Tailing(v, r)'
      BY <2>2, <2>3 DEF Tailing
    <3> QED
      BY <2>2, <3>1, <3>2, <3>3, <3>4, <3>5, <3>6 DEF Single, OnRun, Active, Ahead, Unanswered
  <2> QED
    BY <2>5, <2>6, <2>7
<1>2. ASSUME NEW w \in Callers, SaveRun(w) PROVE FollowInv'
  <2>1. PICK q \in Nat : q = Len(runs) + 1
    BY <1>0
  <2>2. PICK n \in FollowCalls : n = [pc |-> "check", run |-> q, copy |-> "running", at |-> 1]
    <3>1. 1 \in 1 .. Len(Checks)
      BY <1>a
    <3>2. [pc |-> "check", run |-> q, copy |-> "running", at |-> 1]
            \in [pc : {"check"}, run : Nat, copy : {"running"}, at : 1 .. Len(Checks)]
      BY <3>1
    <3> QED
      BY <3>2 DEF FollowCalls
  <2>3. PICK none \in [Actions -> Nat] : none = [a \in Actions |-> 0]
    OBVIOUS
  <2>4. /\ followCall' = [followCall EXCEPT ![w] = n] /\ followCall[w].pc = "start"
        /\ runs' = Append(runs, "running") /\ acted' = Append(acted, none)
        /\ UNCHANGED <<replied, doubled>>
    BY <1>2, <2>1, <2>2, <2>3 DEF SaveRun, Steps, Becomes
  <2>5. followCall'[w] = n /\ \A v \in Callers : v # w => followCall'[v] = followCall[v]
    BY <1>0, <2>4
  <2>6. n.pc = "check" /\ n.run = q
    BY <2>2
  <2>7. /\ runs' \in Seq(RunStatus) /\ DOMAIN runs' = DOMAIN runs \cup {q} /\ q \notin DOMAIN runs
        /\ runs'[q] = "running" /\ \A r \in DOMAIN runs : runs'[r] = runs[r]
    BY <1>0, <2>1, <2>4 DEF RunStatus
  <2>8. /\ acted' \in Seq([Actions -> Nat]) /\ Len(acted') = Len(runs')
        /\ acted'[q] = none /\ \A r \in DOMAIN runs : acted'[r] = acted[r]
    BY <1>0, <2>1, <2>4 DEF FollowTypes
  <2>9. \A a \in Actions : acted'[q][a] = 0
    BY <2>3, <2>8
  <2>10. FollowTypes'
    <3>1. followCall' \in [Callers -> FollowCalls]
      BY <1>0, <2>4
    <3>2. \A v \in Callers : OnRun(followCall'[v]) => followCall'[v].run \in DOMAIN runs'
      BY <2>5, <2>6, <2>7 DEF FollowTypes
    <3> QED
      BY <2>4, <2>7, <2>8, <3>1, <3>2 DEF FollowTypes, OnRun
  <2>11. \A v \in Callers : v # w /\ OnRun(followCall[v]) =>
           followCall[v].run \in DOMAIN runs /\ acted'[followCall[v].run] = acted[followCall[v].run]
             /\ runs'[followCall[v].run] = runs[followCall[v].run] /\ followCall[v].run # q
    BY <2>7, <2>8 DEF FollowTypes
  <2>12. Executed'
    <3>1. \A v \in Callers : Owed(followCall[v])'
      <4> SUFFICES ASSUME NEW v \in Callers PROVE Owed(followCall[v])'
        OBVIOUS
      <4>1. CASE v = w
        <5>1. followCall'[v].pc = "check"
          BY <2>5, <2>6, <4>1
        <5> QED
          BY <5>1 DEF Owed
      <4>2. CASE v # w
        BY <2>4, <2>5, <2>11, <4>2 DEF Executed, Owed, OnRun, Parts
      <4> QED
        BY <4>1, <4>2
    <3>2. "update_lead_status" \in Actions
      BY DEF Actions
    <3> QED
      BY <2>4, <2>7, <2>8, <2>9, <3>1, <3>2 DEF Executed
  <2>13. Single'
    <3> SUFFICES ASSUME ~ doubled PROVE Single'
      BY <2>4 DEF Single
    <3>1. /\ \A r \in DOMAIN runs : ~ Active(runs[r])
          /\ \A v \in Callers : v # w => followCall[v].pc # "start" /\ ~ OnRun(followCall[v])
      BY <2>4 DEF Single, FollowTypes
    <3>2. \A v \in Callers : OnRun(followCall'[v]) \/ followCall'[v].pc = "start" => v = w
      BY <2>5, <3>1
    <3>3. \A v \in Callers : OnRun(followCall'[v]) => Active(runs'[followCall'[v].run])
      BY <2>5, <2>6, <2>7, <3>2 DEF Active
    <3>4. \A r \in DOMAIN runs' : Active(runs'[r]) => r = q
      BY <2>7, <3>1
    <3>5. \A r \in DOMAIN runs' : runs'[r] # "waiting"
      BY <2>7, <3>1 DEF Active
    <3>6. \A r \in DOMAIN runs', a \in Actions : acted'[r][a] <= 1
      <4>1. \A a \in Actions : acted'[q][a] <= 1
        BY <2>9
      <4>2. \A r \in DOMAIN runs, a \in Actions : acted'[r][a] <= 1
        BY <2>8 DEF Single
      <4> QED
        BY <2>7, <4>1, <4>2
    <3>7. \A v \in Callers : Ahead(followCall[v])'
      <4> SUFFICES ASSUME NEW v \in Callers PROVE Ahead(followCall[v])'
        OBVIOUS
      <4>1. CASE v = w
        BY <2>5, <2>6, <2>9, <4>1 DEF Ahead
      <4>2. CASE v # w
        BY <2>5, <3>1, <4>2 DEF Ahead, OnRun, Parts
      <4> QED
        BY <4>1, <4>2
    <3>8. \A v \in Callers : followCall'[v].pc # "start"
      BY <2>5, <2>6, <3>1
    <3> QED
      BY <3>2, <3>3, <3>4, <3>5, <3>6, <3>7, <3>8 DEF Single, Sharing
  <2> QED
    BY <2>10, <2>12, <2>13
<1>3. ASSUME NEW w \in Callers, Check(w) PROVE FollowInv'
  <2>1. PICK r \in DOMAIN runs : r = followCall[w].run
    BY <1>0, <1>3 DEF Check, FollowTypes, OnRun
  <2>2. /\ followCall[w].pc = "check" /\ followCall[w].copy = "running" /\ OnRun(followCall[w]) /\ r \in Nat
        /\ followCall[w].at \in 1 .. Len(Checks)
        /\ followCall[w] \in [pc : {"check"}, run : Nat, copy : {"running"}, at : 1 .. Len(Checks)]
    BY <1>0, <1>3, <2>1 DEF Check, OnRun, FollowCalls, Parts, Rest
  <2>3. PICK n \in FollowCalls :
          /\ n = IF followCall[w].at < Len(Checks) THEN [followCall[w] EXCEPT !.at = @ + 1]
                 ELSE [pc |-> "ask", run |-> r, copy |-> "running", action |-> "create_task"]
          /\ n.run = r
          /\ n.pc = "check" \/ (n.pc = "ask" /\ n.action = "create_task")
    <3>1. CASE followCall[w].at < Len(Checks)
      <4>1. followCall[w].at + 1 \in 1 .. Len(Checks)
        BY <1>a, <2>2, <3>1
      <4>2. [followCall[w] EXCEPT !.at = @ + 1] \in [pc : {"check"}, run : Nat, copy : {"running"}, at : 1 .. Len(Checks)]
        BY <2>2, <4>1
      <4>3. [followCall[w] EXCEPT !.at = @ + 1].run = r /\ [followCall[w] EXCEPT !.at = @ + 1].pc = "check"
        BY <2>1, <2>2
      <4> QED
        BY <3>1, <4>2, <4>3 DEF FollowCalls
    <3>2. CASE ~ (followCall[w].at < Len(Checks))
      <4>1. [pc |-> "ask", run |-> r, copy |-> "running", action |-> "create_task"]
              \in [pc : {"ask"}, run : Nat, copy : {"running", "waiting"}, action : Actions]
        BY <2>2 DEF Actions
      <4>2. PICK n \in FollowCalls : n = [pc |-> "ask", run |-> r, copy |-> "running", action |-> "create_task"]
        BY <4>1 DEF FollowCalls
      <4>3. n.run = r /\ n.pc = "ask" /\ n.action = "create_task"
        BY <4>2
      <4> QED
        BY <3>2, <4>2, <4>3
    <3> QED
      BY <3>1, <3>2
  <2>4. /\ followCall' = [followCall EXCEPT ![w] = n] /\ runs' = [runs EXCEPT ![r] = "running"]
        /\ UNCHANGED <<acted, replied, doubled>>
    BY <1>3, <2>1, <2>2, <2>3 DEF Check, Steps, Saves, Becomes
  <2>5. Owed(n) /\ OnRun(n)
    BY <2>3 DEF Owed, OnRun, Parts
  <2>6. ~ doubled => \A a \in Actions : acted[r][a] = 0
    BY <2>1, <2>2 DEF Single, Ahead
  <2>7. ~ doubled => Ahead(n)
    BY <2>3, <2>6 DEF Ahead, Unanswered, Actions
  <2>8. "running" \in RunStatus /\ Active("running")
    BY DEF RunStatus, Active
  <2> QED
    BY <2>1, <2>2, <2>3, <2>4, <2>5, <2>7, <2>8, SavesRun
<1>4. ASSUME NEW w \in Callers, GivesUp(w) \/ Complete(w) \/ Escalate(w) PROVE FollowInv'
  <2>1. PICK r \in DOMAIN runs : r = followCall[w].run
    BY <1>0, <1>4 DEF GivesUp, Complete, Escalate, FollowTypes, OnRun, Parts
  <2>2. OnRun(followCall[w])
    BY <1>4 DEF GivesUp, Complete, Escalate, OnRun, Parts
  <2>3. PICK s \in {"completed", "escalated"} :
          /\ followCall' = [followCall EXCEPT ![w] = Rest] /\ runs' = [runs EXCEPT ![r] = s]
          /\ UNCHANGED <<acted, replied, doubled>>
    BY <1>4, <2>1 DEF GivesUp, Complete, Escalate, Ends, Steps, Saves, Becomes
  <2>4. s \in RunStatus /\ s # "waiting"
    BY DEF RunStatus
  <2> QED
    BY <1>0, <2>1, <2>2, <2>3, <2>4, SavesRun
<1>5. ASSUME NEW w \in Callers, Park(w) PROVE FollowInv'
  <2>1. PICK r \in DOMAIN runs : r = followCall[w].run
    BY <1>0, <1>5 DEF Park, FollowTypes, OnRun, Parts
  <2>2. /\ followCall[w].pc = "park"
        /\ followCall' = [followCall EXCEPT ![w] = Rest] /\ runs' = [runs EXCEPT ![r] = "waiting"]
        /\ UNCHANGED <<acted, replied, doubled>>
    BY <1>5, <2>1 DEF Park, Ends, Steps, Saves, Becomes
  <2>3. "waiting" \in RunStatus /\ OnRun(followCall[w])
    BY <2>2 DEF RunStatus, OnRun, Parts
  <2>4. acted[r]["create_task"] > 0 /\ acted[r]["send_message"] > 0
    BY <2>1, <2>2 DEF Executed, Owed
  <2>5. ~ doubled => Unanswered(r)
    BY <2>1, <2>2 DEF Single, Ahead
  <2> QED
    BY <1>0, <2>1, <2>2, <2>3, <2>4, <2>5, SavesRun
<1>6. ASSUME NEW w \in Callers, CheckResponse(w) PROVE FollowInv'
  <2>1. PICK r \in DOMAIN runs : r = followCall[w].run
    BY <1>0, <1>6 DEF CheckResponse, FollowTypes, OnRun, Parts
  <2>2. r \in Nat
    BY <1>0
  <2>3. PICK n \in FollowCalls :
          /\ \/ n = [pc |-> "ask", run |-> r, copy |-> "waiting", action |-> "escalation_task"]
             \/ replied /\ n = [pc |-> "ask", run |-> r, copy |-> "waiting", action |-> "update_lead_status"]
             \/ n = [pc |-> "escalate", run |-> r]
          /\ followCall' = [followCall EXCEPT ![w] = n] /\ runs' = [runs EXCEPT ![r] = "waiting"]
          /\ UNCHANGED <<acted, replied, doubled>>
    <3>1. /\ [pc |-> "ask", run |-> r, copy |-> "waiting", action |-> "escalation_task"] \in FollowCalls
          /\ [pc |-> "ask", run |-> r, copy |-> "waiting", action |-> "update_lead_status"] \in FollowCalls
          /\ [pc |-> "escalate", run |-> r] \in FollowCalls
      BY <2>2 DEF FollowCalls, Actions, Parts
    <3> QED
      BY <1>6, <2>1, <3>1 DEF CheckResponse, Steps, Saves, Becomes
  <2>4. /\ n.run = r /\ n.pc \in {"ask", "escalate"}
        /\ n.pc = "ask" => n.action = "escalation_task" \/ (n.action = "update_lead_status" /\ replied)
    BY <2>3
  <2>5. followCall[w].pc = "reply" /\ OnRun(followCall[w]) /\ OnRun(n)
    BY <1>6, <2>4 DEF CheckResponse, OnRun, Parts
  <2>6. acted[r]["create_task"] > 0 /\ acted[r]["send_message"] > 0
    BY <2>1, <2>5 DEF Executed, Owed
  <2>7. ~ doubled => Unanswered(r)
    BY <2>1, <2>5 DEF Single, Ahead
  <2>8. Owed(n) /\ (~ doubled => Ahead(n))
    BY <2>4, <2>7 DEF Owed, Ahead, Unanswered
  <2>9. "waiting" \in RunStatus /\ Active("waiting")
    BY DEF RunStatus, Active
  <2> QED
    BY <2>1, <2>3, <2>4, <2>5, <2>6, <2>7, <2>8, <2>9, SavesRun
<1>7. ASSUME NEW w \in Callers, NEW r \in DOMAIN runs, ContinueAfterWait(w, r) PROVE FollowInv'
  <2>1. PICK n \in FollowCalls : n = [pc |-> "reply", run |-> r]
    <3>1. r \in Nat
      BY <1>0
    <3> QED
      BY <3>1, CallRecords DEF Parts
  <2>2. /\ followCall' = [followCall EXCEPT ![w] = n] /\ followCall[w].pc = "idle"
        /\ runs[r] = "waiting"
        /\ doubled' = (doubled \/ On(r) # {})
        /\ UNCHANGED <<runs, acted, replied>>
    BY <1>0, <1>7, <2>1 DEF ContinueAfterWait, Steps, Becomes
  <2>3. followCall'[w] = n /\ \A v \in Callers : v # w => followCall'[v] = followCall[v]
    BY <1>0, <2>2
  <2>4. n.pc = "reply" /\ n.run = r
    BY <2>1
  <2>5. FollowTypes'
    <3>1. followCall' \in [Callers -> FollowCalls]
      BY <1>0, <2>2
    <3>2. \A v \in Callers : OnRun(followCall'[v]) => followCall'[v].run \in DOMAIN runs'
      BY <2>2, <2>3, <2>4 DEF FollowTypes
    <3> QED
      BY <2>2, <3>1, <3>2 DEF FollowTypes, OnRun
  <2>6. Executed'
    <3>1. Owed(n)
      BY <2>2, <2>4 DEF Owed, Executed
    <3>2. \A v \in Callers : Owed(followCall'[v])
      BY <2>3, <3>1 DEF Executed
    <3> QED
      BY <2>2, <3>2 DEF Executed, Owed
  <2>7. Single'
    <3> SUFFICES ASSUME ~ doubled' PROVE Single'
      BY DEF Single
    <3>1. ~ doubled /\ \A v \in Callers : OnRun(followCall[v]) => followCall[v].run # r
      BY <2>2 DEF On, OnRun, Parts
    <3>2. \A v, u \in Callers : Sharing(v, u)' => v = u
      <4>1. \A v, u \in Callers : Sharing(v, u)' /\ v # w /\ u # w => Sharing(v, u)
        BY <2>3 DEF Sharing, OnRun
      <4>2. \A v \in Callers : Sharing(v, w)' \/ Sharing(w, v)' => v = w
        BY <2>3, <2>4, <3>1 DEF Sharing, OnRun
      <4> QED
        BY <3>1, <4>1, <4>2 DEF Single
    <3>3. \A v \in Callers : OnRun(followCall'[v]) => Active(runs'[followCall'[v].run])
      BY <2>2, <2>3, <2>4, <3>1 DEF Single, Active
    <3>4. \A v \in Callers : followCall'[v].pc = "start" => followCall[v].pc = "start"
      BY <2>3, <2>4
    <3>5. \A v \in Callers : ~ Tailing(v, r)
      BY <3>1 DEF Tailing, OnRun, Parts
    <3>6. Ahead(n)
      BY <2>2, <2>4, <3>1, <3>5 DEF Single, Ahead
    <3>7. \A v \in Callers : Ahead(followCall'[v])
      BY <2>3, <3>1, <3>6 DEF Single
    <3>8. \A q \in DOMAIN runs, v \in Callers : Tailing(v, q) => Tailing(v, q)'
      BY <2>2, <2>3 DEF Tailing
    <3>9. \A q \in DOMAIN runs : runs[q] = "waiting" => Unanswered(q) \/ \E v \in Callers : Tailing(v, q)'
      BY <3>1, <3>8 DEF Single
    <3> QED
      BY <2>2, <3>1, <3>2, <3>3, <3>4, <3>7, <3>9 DEF Single, OnRun, Active, Ahead, Unanswered
  <2> QED
    BY <2>5, <2>6, <2>7
<1>8. CASE LeadReplies
  <2>1. replied' = TRUE /\ UNCHANGED <<runs, acted, followCall, doubled>>
    BY <1>8 DEF LeadReplies
  <2>2. FollowTypes'
    BY <2>1 DEF FollowTypes, OnRun
  <2>3. Executed'
    BY <2>1 DEF Executed, Owed
  <2>4. Single'
    BY <2>1 DEF Single, Sharing, OnRun, Active, Ahead, Unanswered, Tailing
  <2> QED
    BY <2>2, <2>3, <2>4
<1>9. CASE StopFollowUps
  <2>1. /\ followCall' = [w \in Callers |-> Rest]
        /\ doubled' = (doubled \/ \E w \in Callers : followCall[w].pc \in {"ask", "complete", "escalate"}
                                                       /\ runs[followCall[w].run] = "waiting")
        /\ UNCHANGED <<runs, acted, replied>>
    BY <1>9 DEF StopFollowUps
  <2>2. \A w \in Callers : followCall'[w] = Rest /\ ~ OnRun(followCall'[w]) /\ followCall'[w].pc = "idle"
    BY <1>0, <2>1
  <2>3. FollowTypes'
    BY <1>0, <2>1, <2>2 DEF FollowTypes, OnRun
  <2>4. Executed'
    BY <1>0, <2>1, <2>2 DEF Executed, Owed
  <2>5. Single'
    <3> SUFFICES ASSUME ~ doubled' PROVE Single'
      BY DEF Single
    <3>1. ~ doubled /\ \A r \in DOMAIN runs : runs[r] = "waiting" => Unanswered(r)
      <4>1. ~ doubled
        BY <2>1
      <4>2. \A r \in DOMAIN runs, w \in Callers : runs[r] = "waiting" => ~ Tailing(w, r)
        BY <2>1 DEF Tailing
      <4> QED
        BY <4>1, <4>2 DEF Single
    <3> QED
      BY <2>1, <2>2, <3>1 DEF Single, Sharing, OnRun, Active, Ahead, Unanswered
  <2> QED
    BY <2>3, <2>4, <2>5
<1>10. CASE UNCHANGED followVars
  <2>1. UNCHANGED <<runs, acted, replied, followCall, doubled>>
    BY <1>10 DEF followVars
  <2>2. FollowTypes'
    BY <2>1 DEF FollowTypes, OnRun
  <2>3. Executed'
    BY <2>1 DEF Executed, Owed
  <2>4. Single'
    BY <2>1 DEF Single, Sharing, OnRun, Active, Ahead, Unanswered, Tailing
  <2> QED
    BY <2>2, <2>3, <2>4
<1>11. ASSUME NEW w \in Callers, NEW outcome \in Outcomes, RequestStep(w, outcome) PROVE FollowInv'
  BY <1>11, RequestKeeps
<1> QED
  BY <1>1, <1>2, <1>3, <1>4, <1>5, <1>6, <1>7, <1>8, <1>9, <1>10, <1>11 DEF FollowUpsNext

(* A run waits for an answer only if its task and its message were really   *)
(* executed, and moves the lead only after it replied; as long as no two    *)
(* calls work on it and none stops in its tail, it does nothing twice, and  *)
(* no second run is under way (ai-workflow.service.ts:66-69, 92-97).        *)
THEOREM FollowUpsAssumeNothing == FollowUpsSpec => []NeverAssumes
<1>1. FollowInv => NeverAssumes
  BY DEF FollowInv, Executed, Single, NeverAssumes
<1> QED
  BY FollowUpsStart, FollowUpsNextInv, <1>1, PTL DEF FollowUpsSpec
-----------------------------------------------------------------------------
(* Deliveries: messages, envelopes, and what providers report of them. *)

Row == [from : {"send", "report"}, linked : BOOLEAN]
DeliveryCalls ==
  {Rest, [pc |-> "failed"]}
    \cup [pc : {"attempt"}, n : Nat, able : BOOLEAN]
    \cup [pc : {"succeeded", "row"}, id : Ids]
    \cup [pc : {"report"}, id : Ids, linked : BOOLEAN]
    \cup [pc : {"decide"}, status : {"signed", "declined"}]
    \cup [pc : {"disconnect"}, left : SUBSET Fields]

DeliveryTypes ==
  /\ channel \in {"message", "envelope"} /\ credentialKeys \subseteq Fields
  /\ accepted \in Nat /\ atOnce \in BOOLEAN
  /\ timeline \in [Ids -> Seq(Row)]
  /\ verdicts \in Seq({"signed", "declined"})
  /\ deliveryCall \in [Callers -> DeliveryCalls]

(* What is stored was noted by connect or stored by hand anew; of what was  *)
(* noted a disconnection has yet to delete what it has left.                *)
UnderWay(w) == deliveryCall[w].pc \in {"attempt", "succeeded", "failed"}
Severed ==
  /\ secrets \subseteq credentialKeys \cup restored
  /\ connection = "disconnected" => secrets \subseteq restored
  /\ \A w \in Callers : Doing(w, "disconnect") => secrets \subseteq restored \cup deliveryCall[w].left
  /\ cutOff => connection = "disconnected" /\ \A w \in Callers : ~ UnderWay(w)

(* The rows of a message lead to its lead, those on their way included.     *)
HasSent(id, last) == \E j \in 1..last : timeline[id][j].from = "send"
Linked == \A id \in Ids :
  /\ \A i \in DOMAIN timeline[id] :
       /\ id \notin early => timeline[id][i].linked
       /\ timeline[id][i].linked => HasSent(id, i)
  /\ \A w \in Callers : Doing(w, "report") /\ deliveryCall[w].id = id =>
       /\ id \notin early => deliveryCall[w].linked
       /\ deliveryCall[w].linked => HasSent(id, Len(timeline[id]))

(* One call sends, the provider accepts no more requests than it makes, and *)
(* the envelope is there when it has done.                                  *)
Sends(w) == deliveryCall[w].pc \in {"attempt", "succeeded", "row"}
SentOnce ==
  /\ \A v, w \in Callers : Sends(v) /\ Sends(w) => v = w
  /\ \A w \in Callers : deliveryCall[w].pc \in {"succeeded", "row"} => accepted > 0
  /\ \A w \in Callers : Doing(w, "attempt") =>
       accepted < deliveryCall[w].n /\ deliveryCall[w].n <= MaxAttempts
  /\ envelope # None => accepted > 0 /\ \A w \in Callers : ~ Sends(w)
  /\ verdicts # <<>> => envelope # None
  /\ \A w \in Callers : Doing(w, "decide") => envelope # None

DecidedAlone == ~ atOnce =>
  /\ \A v, w \in Callers : Doing(v, "decide") /\ Doing(w, "decide") => v = w
  /\ \A w \in Callers : Doing(w, "decide") => verdicts = <<>>
  /\ verdicts # <<>> => envelope # "sent"
  /\ Len(verdicts) <= 1

DeliveriesInv == DeliveryTypes /\ Severed /\ Linked /\ SentOnce /\ DecidedAlone

(* No call and nothing sent: the deliveries start in order. *)
LEMMA DeliveriesStart == DeliveriesInit => DeliveriesInv
<1> SUFFICES ASSUME DeliveriesInit PROVE DeliveriesInv
  OBVIOUS
<1>1. \A w \in Callers : deliveryCall[w].pc = "idle"
  BY DEF DeliveriesInit, Rest
<1>2. DeliveryTypes
  <2>1. <<>> \in Seq(Row) /\ timeline = [id \in Ids |-> <<>>]
    BY DEF DeliveriesInit
  <2>2. timeline \in [Ids -> Seq(Row)]
    BY <2>1
  <2>3. verdicts \in Seq({"signed", "declined"})
    BY DEF DeliveriesInit
  <2>4. deliveryCall \in [Callers -> DeliveryCalls]
    BY DEF DeliveriesInit, DeliveryCalls
  <2>5. credentialKeys \subseteq Fields
    BY DEF DeliveriesInit, Fields
  <2> QED
    BY <2>2, <2>3, <2>4, <2>5 DEF DeliveriesInit, DeliveryTypes
<1>3. Severed /\ SentOnce
  BY <1>1 DEF DeliveriesInit, Severed, UnderWay, SentOnce, Sends, Doing
<1>4. Linked
  <2>1. \A id \in Ids : DOMAIN timeline[id] = {}
    BY DEF DeliveriesInit
  <2> QED
    BY <1>1, <2>1 DEF Linked, Doing
<1>5. DecidedAlone
  BY <1>1 DEF DeliveriesInit, DecidedAlone, Doing
<1> QED
  BY <1>2, <1>3, <1>4, <1>5 DEF DeliveriesInv

(* The records of the calls. *)
LEMMA DeliveryRecords ==
  /\ Rest \in DeliveryCalls /\ [pc |-> "failed"] \in DeliveryCalls
  /\ \A n \in Nat, able \in BOOLEAN : [pc |-> "attempt", n |-> n, able |-> able] \in DeliveryCalls
  /\ \A id \in Ids, pc \in {"succeeded", "row"} : [pc |-> pc, id |-> id] \in DeliveryCalls
  /\ \A id \in Ids, linked \in BOOLEAN :
       [pc |-> "report", id |-> id, linked |-> linked] \in DeliveryCalls
  /\ \A status \in {"signed", "declined"} : [pc |-> "decide", status |-> status] \in DeliveryCalls
  /\ \A left \in SUBSET Fields : [pc |-> "disconnect", left |-> left] \in DeliveryCalls
  /\ \A c \in DeliveryCalls : c.pc = "attempt" => c \in [pc : {"attempt"}, n : Nat, able : BOOLEAN]
  /\ \A c \in DeliveryCalls : c.pc \in {"succeeded", "row"} => c \in [pc : {"succeeded", "row"}, id : Ids]
  /\ \A c \in DeliveryCalls : c.pc = "report" => c \in [pc : {"report"}, id : Ids, linked : BOOLEAN]
  /\ \A c \in DeliveryCalls : c.pc = "decide" => c \in [pc : {"decide"}, status : {"signed", "declined"}]
  /\ \A c \in DeliveryCalls : c.pc = "disconnect" => c \in [pc : {"disconnect"}, left : SUBSET Fields]
<1>1. Rest.pc = "idle" /\ [pc |-> "failed"].pc = "failed"
  BY DEF Rest
<1>2. \A n \in Nat, able \in BOOLEAN : [pc |-> "attempt", n |-> n, able |-> able] \in DeliveryCalls
  BY DEF DeliveryCalls
<1>3. \A id \in Ids, pc \in {"succeeded", "row"} : [pc |-> pc, id |-> id] \in DeliveryCalls
  BY DEF DeliveryCalls
<1>4. \A id \in Ids, linked \in BOOLEAN :
        [pc |-> "report", id |-> id, linked |-> linked] \in DeliveryCalls
  BY DEF DeliveryCalls
<1>5. /\ Rest \in DeliveryCalls /\ [pc |-> "failed"] \in DeliveryCalls
      /\ \A status \in {"signed", "declined"} : [pc |-> "decide", status |-> status] \in DeliveryCalls
      /\ \A left \in SUBSET Fields : [pc |-> "disconnect", left |-> left] \in DeliveryCalls
  BY DEF DeliveryCalls
<1>6. \A c \in DeliveryCalls : c.pc = "attempt" => c \in [pc : {"attempt"}, n : Nat, able : BOOLEAN]
  BY <1>1 DEF DeliveryCalls
<1>7. \A c \in DeliveryCalls : c.pc \in {"succeeded", "row"} => c \in [pc : {"succeeded", "row"}, id : Ids]
  BY <1>1 DEF DeliveryCalls
<1>8. \A c \in DeliveryCalls : c.pc = "report" => c \in [pc : {"report"}, id : Ids, linked : BOOLEAN]
  BY <1>1 DEF DeliveryCalls
<1>9. \A c \in DeliveryCalls : c.pc = "decide" => c \in [pc : {"decide"}, status : {"signed", "declined"}]
  BY <1>1 DEF DeliveryCalls
<1>10. \A c \in DeliveryCalls : c.pc = "disconnect" => c \in [pc : {"disconnect"}, left : SUBSET Fields]
  BY <1>1 DEF DeliveryCalls
<1> QED
  BY <1>2, <1>3, <1>4, <1>5, <1>6, <1>7, <1>8, <1>9, <1>10

(* A row more: what is linked has its row "sent" at or before it still.     *)
LEMMA RowMore ==
  ASSUME DeliveryTypes, Linked, NEW id \in Ids, NEW r \in Row,
         timeline' = [timeline EXCEPT ![id] = Append(@, r)], early' = early,
         id \notin early => r.linked,
         r.linked => r.from = "send" \/ HasSent(id, Len(timeline[id]))
  PROVE  /\ timeline' \in [Ids -> Seq(Row)]
         /\ \A k \in Ids : \A i \in DOMAIN timeline'[k] :
              (k \notin early => timeline'[k][i].linked) /\ (timeline'[k][i].linked => HasSent(k, i)')
         /\ \A k \in Ids : HasSent(k, Len(timeline[k])) => HasSent(k, Len(timeline[k]))'
<1>1. timeline \in [Ids -> Seq(Row)]
  BY DEF DeliveryTypes
<1>2. timeline'[id] = Append(timeline[id], r) /\ \A k \in Ids : k # id => timeline'[k] = timeline[k]
  BY <1>1
<1>3. timeline' \in [Ids -> Seq(Row)]
  BY <1>1
<1> DEFINE s == timeline[id]
           t == timeline'[id]
<1>4. s \in Seq(Row) /\ t = Append(s, r)
  BY <1>1, <1>2
<1>5. /\ Len(t) = Len(s) + 1 /\ DOMAIN t = 1..Len(s) + 1 /\ DOMAIN s = 1..Len(s) /\ Len(s) \in Nat
      /\ t[Len(s) + 1] = r /\ \A i \in 1..Len(s) : t[i] = s[i]
  <2> HIDE DEF s, t
  <2> QED
    BY <1>4
<1>6. \A k \in Ids, i \in Nat : i <= Len(timeline[k]) /\ HasSent(k, i) => HasSent(k, i)'
  <2> SUFFICES ASSUME NEW k \in Ids, NEW i \in Nat, i <= Len(timeline[k]), HasSent(k, i)
               PROVE  HasSent(k, i)'
    OBVIOUS
  <2>1. CASE k # id
    BY <1>2, <2>1 DEF HasSent
  <2>2. CASE k = id
    <3>1. PICK j \in 1..i : s[j].from = "send"
      BY <2>2 DEF HasSent
    <3>2. t[j] = s[j]
      BY <1>5, <2>2
    <3> QED
      BY <2>2, <3>1, <3>2 DEF HasSent
  <2> QED
    BY <2>1, <2>2
<1>7. ASSUME NEW k \in Ids, NEW i \in DOMAIN timeline'[k]
      PROVE  (k \notin early => timeline'[k][i].linked) /\ (timeline'[k][i].linked => HasSent(k, i)')
  <2>1. CASE k # id
    BY <1>2, <1>7, <2>1 DEF Linked, HasSent
  <2>2. CASE k = id /\ i \in 1..Len(s)
    <3>1. i \in DOMAIN timeline[id] /\ timeline'[id][i] = timeline[id][i] /\ i \in Nat /\ i <= Len(timeline[id])
      BY <1>5, <2>2
    <3> QED
      BY <1>6, <2>2, <3>1 DEF Linked
  <2>3. CASE k = id /\ i = Len(s) + 1
    <3>1. timeline'[k][i] = r
      BY <1>5, <2>3
    <3>2. r.from = "send" => HasSent(id, i)'
      BY <1>5, <2>3, <3>1 DEF HasSent
    <3>3. HasSent(id, Len(timeline[id])) => HasSent(id, i)'
      <4> SUFFICES ASSUME HasSent(id, Len(timeline[id])) PROVE HasSent(id, i)'
        OBVIOUS
      <4>1. PICK j \in 1..Len(s) : s[j].from = "send"
        BY DEF HasSent
      <4>2. t[j] = s[j] /\ j \in 1..i
        BY <1>5, <2>3
      <4> QED
        BY <4>1, <4>2 DEF HasSent
    <3> QED
      BY <2>3, <3>1, <3>2, <3>3
  <2>4. k = id => i \in 1..Len(s) \/ i = Len(s) + 1
    BY <1>5
  <2> QED
    BY <2>1, <2>2, <2>3, <2>4
<1>8. ASSUME NEW k \in Ids, HasSent(k, Len(timeline[k])) PROVE HasSent(k, Len(timeline[k]))'
  <2>1. CASE k # id
    BY <1>2, <1>8, <2>1 DEF HasSent
  <2>2. CASE k = id
    <3>1. PICK j \in 1..Len(s) : s[j].from = "send"
      BY <1>8, <2>2 DEF HasSent
    <3>2. t[j] = s[j] /\ j \in 1..Len(t)
      BY <1>5
    <3> QED
      BY <2>2, <3>1, <3>2 DEF HasSent
  <2> QED
    BY <2>1, <2>2
<1> QED
  BY <1>3, <1>7, <1>8

(* No row more: the calls alone decide. *)
LEMMA RowsStay ==
  ASSUME Linked, timeline' = timeline, early' = early,
         \A v \in Callers : Doing(v, "report")' => Doing(v, "report") /\ deliveryCall'[v] = deliveryCall[v]
  PROVE  Linked'
  BY DEF Linked, HasSent, Doing

(* Every step of a delivery keeps the invariant: a step per action. *)
LEMMA DeliveriesNextInv ==
  ASSUME DeliveriesInv, [DeliveriesNext]_deliveryVars PROVE DeliveriesInv'
<1> USE DEF DeliveriesInv, Keeps
<1>0. /\ deliveryCall \in [Callers -> DeliveryCalls] /\ DeliveryTypes /\ Rest.pc = "idle"
      /\ timeline \in [Ids -> Seq(Row)] /\ verdicts \in Seq({"signed", "declined"}) /\ accepted \in Nat
  BY DEF DeliveryTypes, Rest
<1>1. ASSUME NEW w \in Callers, Send(w) PROVE DeliveriesInv'
  <2>1. PICK n \in DeliveryCalls : n = [pc |-> "attempt", n |-> 1, able |-> "credential" \in secrets]
    <3>1. PICK b \in BOOLEAN : b = ("credential" \in secrets)
      <4>1. ("credential" \in secrets) \in BOOLEAN
        OBVIOUS
      <4> QED
        BY <4>1, Zenon
    <3>2. PICK n \in DeliveryCalls : n = [pc |-> "attempt", n |-> 1, able |-> b]
      BY DeliveryRecords
    <3> QED
      BY <3>1, <3>2
  <2>2. /\ deliveryCall' = [deliveryCall EXCEPT ![w] = n] /\ deliveryCall[w].pc = "idle"
        /\ accepted = 0 /\ connection # "disconnected" /\ \A v \in Callers : ~ Doing(v, "attempt")
        /\ UNCHANGED <<channel, connection, credentialKeys, secrets, accepted, timeline, envelope,
                       early, verdicts, atOnce, restored, cutOff>>
    BY <1>1, <2>1 DEF Send, Doing, Continues, Becomes
  <2>3. n.pc = "attempt" /\ n.n = 1
    BY <2>1
  <2>4. deliveryCall'[w] = n /\ \A v \in Callers : v # w => deliveryCall'[v] = deliveryCall[v]
    BY <1>0, <2>2
  <2>5. DeliveryTypes'
    BY <1>0, <2>2 DEF DeliveryTypes
  <2>6. Severed'
    BY <2>2, <2>3, <2>4 DEF Severed, Doing
  <2>7. Linked'
    BY <2>2, <2>3, <2>4, RowsStay DEF Doing
  <2>8. SentOnce'
    <3>1. \A v \in Callers : ~ Sends(v)
      BY <2>2 DEF SentOnce, Sends, Doing
    <3>2. envelope = None
      BY <2>2 DEF SentOnce
    <3>3. \A v \in Callers : v # w => ~ Sends(v)'
      BY <2>4, <3>1 DEF Sends
    <3>4. 1 <= MaxAttempts
      BY DeliveriesAssumption
    <3> QED
      BY <2>2, <2>3, <2>4, <3>2, <3>3, <3>4 DEF SentOnce, Sends, Doing
  <2>9. DecidedAlone'
    BY <2>2, <2>3, <2>4 DEF DecidedAlone, Doing
  <2> QED
    BY <2>5, <2>6, <2>7, <2>8, <2>9
<1>2. ASSUME NEW w \in Callers, Attempt(w) PROVE DeliveriesInv'
  <2>1. PICK c \in [pc : {"attempt"}, n : Nat, able : BOOLEAN] : c = deliveryCall[w]
    BY <1>0, <1>2, DeliveryRecords DEF Attempt
  <2>2. /\ deliveryCall[w].pc = "attempt" /\ accepted < c.n /\ c.n <= MaxAttempts /\ c.n \in Nat
        /\ accepted' \in {accepted, accepted + 1} /\ accepted + 1 \in Ids
        /\ UNCHANGED <<channel, connection, credentialKeys, secrets, timeline, envelope,
                       early, verdicts, atOnce, restored, cutOff>>
    <3>1. deliveryCall[w].pc = "attempt"
      BY <1>2 DEF Attempt
    <3>2. accepted < c.n /\ c.n <= MaxAttempts /\ c.n \in Nat
      BY <2>1, <3>1 DEF SentOnce, Doing
    <3> QED
      BY <1>0, <1>2, <3>1, <3>2, DeliveriesAssumption DEF Attempt, Ids
  <2>3. PICK n \in DeliveryCalls :
          /\ deliveryCall' = [deliveryCall EXCEPT ![w] = n]
          /\ \/ n.pc = "succeeded" /\ accepted' > 0
             \/ n.pc = "attempt" /\ n.n = c.n + 1 /\ c.n + 1 <= MaxAttempts
             \/ n.pc = "failed"
    <3>1. PICK m \in DeliveryCalls : m = [pc |-> "succeeded", id |-> accepted + 1] /\ m.pc = "succeeded"
      BY <2>2, DeliveryRecords
    <3>2. PICK m2 \in DeliveryCalls : m2 = [c EXCEPT !.n = @ + 1] /\ m2.pc = "attempt" /\ m2.n = c.n + 1
      <4>1. [c EXCEPT !.n = @ + 1] = [pc |-> "attempt", n |-> c.n + 1, able |-> c.able] /\ c.n + 1 \in Nat /\ c.able \in BOOLEAN
        BY <2>1
      <4>2. PICK m2 \in DeliveryCalls : m2 = [pc |-> "attempt", n |-> c.n + 1, able |-> c.able]
        BY <4>1, DeliveryRecords
      <4> QED
        BY <4>1, <4>2
    <3>3. PICK m3 \in DeliveryCalls : m3 = [pc |-> "failed"] /\ m3.pc = "failed"
      BY DeliveryRecords
    <3>4. CASE deliveryCall' = [deliveryCall EXCEPT ![w] = m] /\ accepted' = accepted + 1
      <4>1. accepted' > 0
        BY <1>0, <3>4
      <4> QED
        BY <3>1, <3>4, <4>1
    <3>5. CASE c.n < MaxAttempts /\ deliveryCall' = [deliveryCall EXCEPT ![w] = m2]
      <4>1. c.n + 1 <= MaxAttempts
        BY <2>2, <3>5, DeliveriesAssumption
      <4> QED
        BY <3>2, <3>5, <4>1
    <3>6. CASE deliveryCall' = [deliveryCall EXCEPT ![w] = m3]
      BY <3>3, <3>6
    <3> QED
      BY <1>2, <2>1, <3>1, <3>2, <3>3, <3>4, <3>5, <3>6 DEF Attempt, Continues, Becomes
  <2>4. deliveryCall'[w] = n /\ \A v \in Callers : v # w => deliveryCall'[v] = deliveryCall[v]
    BY <1>0, <2>3
  <2>5. DeliveryTypes'
    BY <1>0, <2>2, <2>3 DEF DeliveryTypes
  <2>6. Severed'
    BY <2>2, <2>3, <2>4 DEF Severed, UnderWay, Doing
  <2>7. Linked'
    BY <2>2, <2>3, <2>4, RowsStay DEF Doing
  <2>8. SentOnce'
    <3>1. \A v \in Callers : Sends(v)' => Sends(v)
      BY <2>2, <2>4 DEF Sends
    <3>2. \A v \in Callers : Sends(v) => v = w
      BY <2>2 DEF SentOnce, Sends
    <3>3. \A v \in Callers : deliveryCall'[v].pc \in {"succeeded", "row"} => accepted' > 0
      BY <2>3, <2>4, <3>1, <3>2 DEF Sends
    <3>4. \A v \in Callers : deliveryCall'[v].pc = "attempt" =>
            accepted' < deliveryCall'[v].n /\ deliveryCall'[v].n <= MaxAttempts
      <4>1. \A v \in Callers : deliveryCall'[v].pc = "attempt" => v = w
        BY <3>1, <3>2 DEF Sends
      <4>2. accepted' < c.n + 1
        BY <1>0, <2>2
      <4> QED
        BY <2>3, <2>4, <4>1, <4>2
    <3>5. envelope = None /\ verdicts = <<>> /\ \A v \in Callers : ~ Doing(v, "decide")
      BY <2>2 DEF SentOnce, Sends
    <3>6. \A v \in Callers : ~ Doing(v, "decide")'
      BY <2>3, <2>4, <3>5 DEF Doing
    <3> QED
      BY <2>2, <3>1, <3>2, <3>3, <3>4, <3>5, <3>6 DEF SentOnce, Doing
  <2>9. DecidedAlone'
    BY <2>2, <2>3, <2>4 DEF DecidedAlone, Doing
  <2> QED
    BY <2>5, <2>6, <2>7, <2>8, <2>9
<1>3. ASSUME NEW w \in Callers, SaveConnection(w) PROVE DeliveriesInv'
  <2>1. /\ connection' # "disconnected" /\ deliveryCall[w].pc \in {"succeeded", "failed"}
        /\ UNCHANGED <<channel, credentialKeys, secrets, accepted, timeline, envelope,
                       early, verdicts, atOnce, restored, cutOff>>
    BY <1>3 DEF SaveConnection
  <2>2. PICK n \in DeliveryCalls :
          /\ deliveryCall' = [deliveryCall EXCEPT ![w] = n]
          /\ n.pc = "idle" \/ (deliveryCall[w].pc = "succeeded" /\ n.pc = "row")
    <3>1. CASE deliveryCall[w].pc = "succeeded"
      <4>1. PICK id \in Ids : id = deliveryCall[w].id
        BY <1>0, <3>1, DeliveryRecords
      <4>2. PICK m \in DeliveryCalls : m = [pc |-> "row", id |-> id] /\ m.pc = "row"
        BY DeliveryRecords
      <4> QED
        BY <1>3, <3>1, <4>1, <4>2 DEF SaveConnection, Continues, Becomes
    <3>2. CASE deliveryCall[w].pc = "failed"
      BY <1>0, <1>3, <3>2, DeliveryRecords DEF SaveConnection, Continues, Becomes
    <3> QED
      BY <2>1, <3>1, <3>2
  <2>3. deliveryCall'[w] = n /\ \A v \in Callers : v # w => deliveryCall'[v] = deliveryCall[v]
    BY <1>0, <2>2
  <2>4. DeliveryTypes'
    BY <1>0, <2>1, <2>2 DEF DeliveryTypes
  <2>5. ~ cutOff
    BY <2>1 DEF Severed, UnderWay
  <2>6. Severed'
    BY <2>1, <2>2, <2>3, <2>5 DEF Severed, Doing
  <2>7. Linked'
    BY <2>1, <2>2, <2>3, RowsStay DEF Doing
  <2>8. SentOnce'
    <3>1. \A v \in Callers : Sends(v)' => Sends(v)
      BY <2>2, <2>3 DEF Sends
    <3>2. \A v \in Callers : deliveryCall'[v].pc \in {"succeeded", "row"} => accepted > 0
      BY <2>2, <2>3 DEF SentOnce
    <3> QED
      BY <2>1, <2>2, <2>3, <3>1, <3>2 DEF SentOnce, Doing
  <2>9. DecidedAlone'
    BY <2>1, <2>2, <2>3 DEF DecidedAlone, Doing
  <2> QED
    BY <2>4, <2>6, <2>7, <2>8, <2>9
<1>4. ASSUME NEW w \in Callers, SaveSent(w) PROVE DeliveriesInv'
  <2>1. PICK id \in Ids : id = deliveryCall[w].id
    BY <1>0, <1>4, DeliveryRecords DEF SaveSent
  <2>2. PICK r \in Row : r = [from |-> "send", linked |-> TRUE] /\ r.from = "send" /\ r.linked
    <3>1. [from |-> "send", linked |-> TRUE] \in Row
      BY DEF Row
    <3> QED
      BY <3>1
  <2>3. /\ deliveryCall' = [deliveryCall EXCEPT ![w] = Rest] /\ Sends(w)
        /\ UNCHANGED <<channel, connection, credentialKeys, secrets, accepted, early, verdicts, atOnce,
                       restored, cutOff>>
        /\ \/ envelope' = envelope /\ timeline' = [timeline EXCEPT ![id] = Append(@, r)]
           \/ envelope' \in {envelope, "sent"} /\ timeline' = timeline
    BY <1>4, <2>1, <2>2 DEF SaveSent, Sends, Continues, Becomes
  <2>4. deliveryCall'[w].pc = "idle" /\ \A v \in Callers : v # w => deliveryCall'[v] = deliveryCall[v]
    BY <1>0, <2>3
  <2>5. Linked' /\ timeline' \in [Ids -> Seq(Row)]
    <3>1. CASE timeline' = timeline
      BY <1>0, <2>3, <2>4, <3>1, RowsStay DEF Doing
    <3>2. CASE timeline' = [timeline EXCEPT ![id] = Append(@, r)]
      <4>1. /\ timeline' \in [Ids -> Seq(Row)]
            /\ \A k \in Ids : \A i \in DOMAIN timeline'[k] :
                 (k \notin early => timeline'[k][i].linked) /\ (timeline'[k][i].linked => HasSent(k, i)')
            /\ \A k \in Ids : HasSent(k, Len(timeline[k])) => HasSent(k, Len(timeline[k]))'
        BY <1>0, <2>2, <2>3, <3>2, RowMore
      <4>2. \A v \in Callers : Doing(v, "report")' => Doing(v, "report") /\ deliveryCall'[v] = deliveryCall[v]
        BY <2>4 DEF Doing
      <4>3. early' = early
        BY <2>3
      <4> QED
        BY <4>1, <4>2, <4>3 DEF Linked
    <3> QED
      BY <2>3, <3>1, <3>2
  <2>6. DeliveryTypes'
    BY <1>0, <2>3, <2>5, DeliveryRecords DEF DeliveryTypes
  <2>7. Severed'
    BY <2>3, <2>4 DEF Severed, UnderWay, Doing
  <2>8. /\ envelope = None /\ verdicts = <<>> /\ accepted > 0 /\ \A v \in Callers : ~ Doing(v, "decide")
        /\ \A v \in Callers : ~ Sends(v)'
    <3>1. deliveryCall[w].pc = "row"
      BY <1>4 DEF SaveSent
    <3>2. \A v \in Callers : Sends(v)' => v # w /\ Sends(v)
      BY <2>4 DEF Sends
    <3> QED
      BY <2>3, <3>1, <3>2 DEF SentOnce
  <2>9. \A v \in Callers : ~ Doing(v, "decide")'
    BY <2>4, <2>8 DEF Doing
  <2>10. SentOnce'
    BY <2>3, <2>8, <2>9 DEF SentOnce, Sends, Doing
  <2>11. DecidedAlone'
    BY <2>3, <2>8, <2>9 DEF DecidedAlone
  <2> QED
    BY <2>5, <2>6, <2>7, <2>10, <2>11
<1>5. ASSUME NEW w \in Callers, NEW id \in Ids, ReadPrior(w, id) PROVE DeliveriesInv'
  <2>1. PICK b \in BOOLEAN : b = Originating(timeline[id])
    BY DEF Originating
  <2>2. PICK n \in DeliveryCalls : n = [pc |-> "report", id |-> id, linked |-> b]
    BY DeliveryRecords
  <2>3. /\ deliveryCall' = [deliveryCall EXCEPT ![w] = n]
        /\ early' = IF timeline[id] = <<>> THEN early \cup {id} ELSE early
        /\ UNCHANGED <<channel, connection, credentialKeys, secrets, accepted, timeline, envelope,
                       verdicts, atOnce, restored, cutOff>>
    BY <1>5, <2>1, <2>2 DEF ReadPrior, Continues, Becomes
  <2>4. n.pc = "report" /\ n.id = id /\ n.linked = b
    BY <2>2
  <2>5. deliveryCall'[w] = n /\ \A v \in Callers : v # w => deliveryCall'[v] = deliveryCall[v]
    BY <1>0, <2>3
  <2>6. DeliveryTypes'
    BY <1>0, <2>3 DEF DeliveryTypes
  <2>7. Severed'
    BY <2>3, <2>4, <2>5 DEF Severed, UnderWay, Doing
  <2>8. (id \notin early' => b) /\ (b => HasSent(id, Len(timeline[id])))
    <3>1. CASE timeline[id] = <<>>
      BY <2>1, <2>3, <3>1 DEF Originating
    <3>2. CASE timeline[id] # <<>>
      <4> DEFINE s == timeline[id]
      <4>1. s \in Seq(Row) /\ s # <<>>
        BY <1>0, <3>2
      <4>2. 1 \in DOMAIN s /\ Head(s) = s[1] /\ Len(s) \in Nat /\ 1 <= Len(s)
        <5> HIDE DEF s
        <5> QED
          BY <4>1
      <4>3. (id \notin early => s[1].linked) /\ (s[1].linked => HasSent(id, 1))
        BY <4>2 DEF Linked
      <4>4. HasSent(id, 1) => HasSent(id, Len(s))
        <5>1. \A j \in 1..1 : j \in 1..Len(s)
          BY <4>2
        <5> QED
          BY <5>1 DEF HasSent
      <4>5. b <=> s[1].linked
        BY <2>1, <3>2, <4>1, <4>2 DEF Originating
      <4>6. early' = early
        BY <2>3, <3>2
      <4> QED
        BY <4>3, <4>4, <4>5, <4>6
    <3> QED
      BY <3>1, <3>2
  <2>9. Linked'
    <3>1. early \subseteq early'
      BY <2>3
    <3>2. \A k \in Ids : \A i \in DOMAIN timeline'[k] :
            (k \notin early' => timeline'[k][i].linked) /\ (timeline'[k][i].linked => HasSent(k, i)')
      BY <2>3, <3>1 DEF Linked, HasSent
    <3>3. ASSUME NEW k \in Ids, NEW v \in Callers, Doing(v, "report")', deliveryCall'[v].id = k
          PROVE  /\ k \notin early' => deliveryCall'[v].linked
                 /\ deliveryCall'[v].linked => HasSent(k, Len(timeline[k]))'
      <4>1. HasSent(k, Len(timeline[k]))' <=> HasSent(k, Len(timeline[k]))
        BY <2>3 DEF HasSent
      <4>2. CASE v = w
        BY <2>4, <2>5, <2>8, <3>3, <4>1, <4>2
      <4>3. CASE v # w
        BY <2>5, <3>1, <3>3, <4>1, <4>3 DEF Linked, Doing
      <4> QED
        BY <4>2, <4>3
    <3> QED
      BY <3>2, <3>3 DEF Linked
  <2>10. \A v \in Callers : Sends(v)' => v # w /\ Sends(v)
    BY <2>4, <2>5 DEF Sends
  <2>11. SentOnce'
    BY <2>3, <2>4, <2>5, <2>10 DEF SentOnce, Doing
  <2>12. DecidedAlone'
    BY <2>3, <2>4, <2>5 DEF DecidedAlone, Doing
  <2> QED
    BY <2>6, <2>7, <2>9, <2>11, <2>12
<1>6. ASSUME NEW w \in Callers, SaveReport(w) PROVE DeliveriesInv'
  <2>1. PICK c \in [pc : {"report"}, id : Ids, linked : BOOLEAN] : c = deliveryCall[w]
    BY <1>0, <1>6, DeliveryRecords DEF SaveReport
  <2>2. PICK r \in Row : r = [from |-> "report", linked |-> c.linked] /\ r.linked = c.linked
    <3>1. c.linked \in BOOLEAN
      BY <2>1
    <3>2. [from |-> "report", linked |-> c.linked] \in Row
      BY <3>1 DEF Row
    <3> QED
      BY <3>2
  <2>3. /\ deliveryCall' = [deliveryCall EXCEPT ![w] = Rest] /\ Doing(w, "report") /\ c.id \in Ids
        /\ timeline' = [timeline EXCEPT ![c.id] = Append(@, r)]
        /\ UNCHANGED <<channel, connection, credentialKeys, secrets, accepted, envelope, early,
                       verdicts, atOnce, restored, cutOff>>
    BY <1>6, <2>1, <2>2 DEF SaveReport, Doing, Continues, Becomes
  <2>4. deliveryCall'[w].pc = "idle" /\ \A v \in Callers : v # w => deliveryCall'[v] = deliveryCall[v]
    BY <1>0, <2>3
  <2>5. (c.id \notin early => r.linked) /\ (r.linked => HasSent(c.id, Len(timeline[c.id])))
    BY <2>1, <2>2, <2>3 DEF Linked
  <2>6. /\ timeline' \in [Ids -> Seq(Row)]
        /\ \A k \in Ids : \A i \in DOMAIN timeline'[k] :
             (k \notin early => timeline'[k][i].linked) /\ (timeline'[k][i].linked => HasSent(k, i)')
        /\ \A k \in Ids : HasSent(k, Len(timeline[k])) => HasSent(k, Len(timeline[k]))'
    BY <1>0, <2>2, <2>3, <2>5, RowMore
  <2>7. Linked'
    <3>1. \A v \in Callers : Doing(v, "report")' => Doing(v, "report") /\ deliveryCall'[v] = deliveryCall[v]
      BY <2>4 DEF Doing
    <3>2. early' = early
      BY <2>3
    <3> QED
      BY <2>6, <3>1, <3>2 DEF Linked
  <2>8. DeliveryTypes'
    BY <1>0, <2>3, <2>6, DeliveryRecords DEF DeliveryTypes
  <2>9. Severed'
    BY <2>3, <2>4 DEF Severed, UnderWay, Doing
  <2>10. \A v \in Callers : Sends(v)' => v # w /\ Sends(v)
    BY <2>4 DEF Sends
  <2>11. SentOnce'
    BY <2>3, <2>4, <2>10 DEF SentOnce, Doing
  <2>12. DecidedAlone'
    BY <2>3, <2>4 DEF DecidedAlone, Doing
  <2> QED
    BY <2>7, <2>8, <2>9, <2>11, <2>12
<1>7. ASSUME NEW w \in Callers, NEW status \in {"signed", "declined"}, ReadEnvelope(w, status)
      PROVE  DeliveriesInv'
  <2>1. PICK n \in DeliveryCalls : n = [pc |-> "decide", status |-> status]
    BY DeliveryRecords
  <2>2. /\ deliveryCall' = [deliveryCall EXCEPT ![w] = n] /\ envelope = "sent"
        /\ atOnce' = (atOnce \/ \E v \in Callers : Doing(v, "decide"))
        /\ UNCHANGED <<channel, connection, credentialKeys, secrets, accepted, timeline, envelope,
                       early, verdicts, restored, cutOff>>
    BY <1>7, <2>1 DEF ReadEnvelope, Undecided, Continues, Becomes
  <2>3. n.pc = "decide"
    BY <2>1
  <2>4. deliveryCall'[w] = n /\ \A v \in Callers : v # w => deliveryCall'[v] = deliveryCall[v]
    BY <1>0, <2>2
  <2>5. DeliveryTypes'
    BY <1>0, <2>2 DEF DeliveryTypes
  <2>6. Severed'
    BY <2>2, <2>3, <2>4 DEF Severed, UnderWay, Doing
  <2>7. Linked'
    BY <2>2, <2>3, <2>4, RowsStay DEF Doing
  <2>8. \A v \in Callers : Sends(v)' => v # w /\ Sends(v)
    BY <2>3, <2>4 DEF Sends
  <2>9. SentOnce'
    BY <2>2, <2>3, <2>4, <2>8, DeliveriesAssumption DEF SentOnce, Doing
  <2>10. DecidedAlone'
    BY <2>2, <2>3, <2>4 DEF DecidedAlone, Doing
  <2> QED
    BY <2>5, <2>6, <2>7, <2>9, <2>10
<1>8. ASSUME NEW w \in Callers, SaveVerdict(w) PROVE DeliveriesInv'
  <2>1. PICK s \in {"signed", "declined"} : s = deliveryCall[w].status
    BY <1>0, <1>8, DeliveryRecords DEF SaveVerdict, Doing
  <2>2. /\ deliveryCall' = [deliveryCall EXCEPT ![w] = Rest] /\ Doing(w, "decide")
        /\ envelope' = s /\ verdicts' = Append(verdicts, s)
        /\ UNCHANGED <<channel, connection, credentialKeys, secrets, accepted, timeline, early,
                       atOnce, restored, cutOff>>
    BY <1>8, <2>1 DEF SaveVerdict, Continues, Becomes
  <2>3. deliveryCall'[w].pc = "idle" /\ \A v \in Callers : v # w => deliveryCall'[v] = deliveryCall[v]
    BY <1>0, <2>2
  <2>4. verdicts' \in Seq({"signed", "declined"}) /\ verdicts' # <<>> /\ (verdicts = <<>> => Len(verdicts') = 1)
    BY <1>0, <2>2
  <2>5. DeliveryTypes'
    BY <1>0, <2>2, <2>4, DeliveryRecords DEF DeliveryTypes
  <2>6. Severed'
    BY <2>2, <2>3 DEF Severed, UnderWay, Doing
  <2>7. Linked'
    BY <2>2, <2>3, RowsStay DEF Doing
  <2>8. \A v \in Callers : Sends(v)' => v # w /\ Sends(v)
    BY <2>3 DEF Sends
  <2>9. envelope' # None /\ envelope' # "sent" /\ envelope # None
    BY <2>1, <2>2, DeliveriesAssumption DEF SentOnce
  <2>10. SentOnce'
    BY <2>2, <2>3, <2>8, <2>9 DEF SentOnce, Doing
  <2>11. DecidedAlone'
    BY <2>2, <2>3, <2>4, <2>9 DEF DecidedAlone, Doing
  <2> QED
    BY <2>5, <2>6, <2>7, <2>10, <2>11
<1>9. ASSUME NEW w \in Callers, NEW field \in Fields, SetSecret(w, field) PROVE DeliveriesInv'
  <2>1. /\ UNCHANGED <<channel, connection, credentialKeys, accepted, timeline, envelope, deliveryCall,
                       early, verdicts, atOnce, cutOff>>
        /\ secrets' = secrets \cup {field}
        /\ restored' = IF field \in secrets THEN restored ELSE restored \cup {field}
    BY <1>9 DEF SetSecret
  <2>2. DeliveryTypes' /\ SentOnce' /\ DecidedAlone'
    BY <1>0, <2>1 DEF DeliveryTypes, SentOnce, Sends, DecidedAlone, Doing
  <2>3. \A S : secrets \subseteq S \cup restored => secrets' \subseteq S \cup restored'
    BY <2>1
  <2>4. Severed'
    BY <2>1, <2>3 DEF Severed, UnderWay, Doing
  <2>5. Linked'
    BY <2>1, RowsStay DEF Doing
  <2> QED
    BY <2>2, <2>4, <2>5
<1>10. ASSUME NEW w \in Callers, ListSecrets(w) PROVE DeliveriesInv'
  <2>1. PICK n \in DeliveryCalls : n = [pc |-> "disconnect", left |-> credentialKeys \cap secrets]
    BY DeliveryRecords DEF DeliveryTypes
  <2>2. /\ deliveryCall' = [deliveryCall EXCEPT ![w] = n]
        /\ UNCHANGED <<channel, connection, credentialKeys, secrets, accepted, timeline, envelope,
                       early, verdicts, atOnce, restored, cutOff>>
    BY <1>10, <2>1 DEF ListSecrets, Continues, Becomes
  <2>3. n.pc = "disconnect" /\ n.left = credentialKeys \cap secrets
    BY <2>1
  <2>4. deliveryCall'[w] = n /\ \A v \in Callers : v # w => deliveryCall'[v] = deliveryCall[v]
    BY <1>0, <2>2
  <2>5. DeliveryTypes'
    BY <1>0, <2>2 DEF DeliveryTypes
  <2>6. Severed'
    <3>1. secrets \subseteq restored \cup n.left
      BY <2>3 DEF Severed
    <3> QED
      BY <2>2, <2>3, <2>4, <3>1 DEF Severed, UnderWay, Doing
  <2>7. Linked'
    BY <2>2, <2>3, <2>4, RowsStay DEF Doing
  <2>8. \A v \in Callers : Sends(v)' => v # w /\ Sends(v)
    BY <2>3, <2>4 DEF Sends
  <2>9. SentOnce'
    BY <2>2, <2>3, <2>4, <2>8 DEF SentOnce, Doing
  <2>10. DecidedAlone'
    BY <2>2, <2>3, <2>4 DEF DecidedAlone, Doing
  <2> QED
    BY <2>5, <2>6, <2>7, <2>9, <2>10
<1>11. ASSUME NEW w \in Callers, NEW field \in Fields, DeleteSecret(w, field) PROVE DeliveriesInv'
  <2>1. PICK c \in [pc : {"disconnect"}, left : SUBSET Fields] : c = deliveryCall[w]
    BY <1>0, <1>11, DeliveryRecords DEF DeleteSecret
  <2>2. PICK m \in DeliveryCalls :
          m = [c EXCEPT !.left = @ \ {field}] /\ m.pc = "disconnect" /\ m.left = c.left \ {field}
    <3>1. [c EXCEPT !.left = @ \ {field}] = [pc |-> "disconnect", left |-> c.left \ {field}]
            /\ c.left \ {field} \in SUBSET Fields
      BY <2>1
    <3>2. PICK m \in DeliveryCalls : m = [pc |-> "disconnect", left |-> c.left \ {field}]
      BY <3>1, DeliveryRecords
    <3> QED
      BY <3>1, <3>2
  <2>3. /\ UNCHANGED <<channel, connection, credentialKeys, accepted, timeline, envelope,
                       early, verdicts, atOnce, restored, cutOff>>
        /\ deliveryCall[w].pc = "disconnect"
    BY <1>11 DEF DeleteSecret
  <2>4. PICK n \in DeliveryCalls :
          /\ deliveryCall' = [deliveryCall EXCEPT ![w] = n]
          /\ \/ n.pc = "idle" /\ secrets' = secrets
             \/ /\ n.pc = "disconnect" /\ n.left = c.left \ {field}
                /\ \/ secrets' = secrets \ {field}
                   \/ secrets' = secrets /\ field \notin secrets \ restored
    <3>1. \/ secrets' = secrets \ {field} /\ deliveryCall' = [deliveryCall EXCEPT ![w] = m]
          \/ /\ secrets' = secrets /\ field \notin secrets \ restored
             /\ \/ deliveryCall' = [deliveryCall EXCEPT ![w] = Rest]
                \/ deliveryCall' = [deliveryCall EXCEPT ![w] = m]
      BY <1>11, <2>1, <2>2 DEF DeleteSecret, Continues, Becomes
    <3> QED
      BY <1>0, <2>2, <3>1, DeliveryRecords
  <2>5. deliveryCall'[w] = n /\ \A v \in Callers : v # w => deliveryCall'[v] = deliveryCall[v]
    BY <1>0, <2>4
  <2>6. DeliveryTypes'
    BY <1>0, <2>3, <2>4 DEF DeliveryTypes
  <2>7. Severed'
    <3>1. secrets' \subseteq secrets
      BY <2>4
    <3>2. n.pc = "disconnect" => secrets' \subseteq restored \cup n.left
      <4>1. secrets \subseteq restored \cup c.left
        BY <2>1, <2>3 DEF Severed, Doing
      <4>2. CASE n.pc = "disconnect" /\ n.left = c.left \ {field} /\ secrets' = secrets \ {field}
        BY <4>1, <4>2
      <4>3. CASE n.pc = "disconnect" /\ n.left = c.left \ {field} /\ secrets' = secrets
                   /\ field \notin secrets \ restored
        BY <4>1, <4>3
      <4> QED
        BY <2>4, <4>2, <4>3
    <3>3. n.pc \in {"idle", "disconnect"}
      BY <2>4
    <3> QED
      BY <2>3, <2>5, <3>1, <3>2, <3>3 DEF Severed, UnderWay, Doing
  <2>8. Linked'
    BY <2>3, <2>4, <2>5, RowsStay DEF Doing
  <2>9. \A v \in Callers : Sends(v)' => v # w /\ Sends(v)
    BY <2>4, <2>5 DEF Sends
  <2>10. SentOnce'
    BY <2>3, <2>4, <2>5, <2>9 DEF SentOnce, Doing
  <2>11. DecidedAlone'
    BY <2>3, <2>4, <2>5 DEF DecidedAlone, Doing
  <2> QED
    BY <2>6, <2>7, <2>8, <2>10, <2>11
<1>12. ASSUME NEW w \in Callers, SaveDisconnected(w) PROVE DeliveriesInv'
  <2>1. /\ deliveryCall' = [deliveryCall EXCEPT ![w] = Rest] /\ Doing(w, "disconnect")
        /\ deliveryCall[w].left = {} /\ connection' = "disconnected"
        /\ cutOff' = \A v \in Callers : ~ UnderWay(v)
        /\ UNCHANGED <<channel, credentialKeys, secrets, accepted, timeline, envelope,
                       early, verdicts, atOnce, restored>>
    BY <1>12 DEF SaveDisconnected, Continues, Becomes, UnderWay, Doing
  <2>2. deliveryCall'[w].pc = "idle" /\ \A v \in Callers : v # w => deliveryCall'[v] = deliveryCall[v]
    BY <1>0, <2>1
  <2>3. DeliveryTypes'
    BY <1>0, <2>1, DeliveryRecords DEF DeliveryTypes
  <2>4. Severed'
    <3>1. secrets \subseteq restored
      BY <2>1 DEF Severed
    <3>2. (\A v \in Callers : ~ UnderWay(v)) => \A v \in Callers : ~ UnderWay(v)'
      BY <2>2 DEF UnderWay
    <3> QED
      BY <2>1, <2>2, <3>1, <3>2 DEF Severed, Doing
  <2>5. Linked'
    BY <2>1, <2>2, RowsStay DEF Doing
  <2>6. \A v \in Callers : Sends(v)' => v # w /\ Sends(v)
    BY <2>2 DEF Sends
  <2>7. SentOnce'
    BY <2>1, <2>2, <2>6 DEF SentOnce, Doing
  <2>8. DecidedAlone'
    BY <2>1, <2>2 DEF DecidedAlone, Doing
  <2> QED
    BY <2>3, <2>4, <2>5, <2>7, <2>8
<1>13. CASE StopDeliveries
  <2>1. /\ deliveryCall' = [w \in Callers |-> Rest]
        /\ UNCHANGED <<channel, connection, credentialKeys, secrets, accepted, timeline, envelope,
                       early, verdicts, atOnce, restored, cutOff>>
    BY <1>13 DEF StopDeliveries
  <2>2. \A w \in Callers : deliveryCall'[w].pc = "idle"
    BY <1>0, <2>1
  <2>3. DeliveryTypes'
    BY <1>0, <2>1, DeliveryRecords DEF DeliveryTypes
  <2>4. Severed' /\ DecidedAlone'
    BY <2>1, <2>2 DEF Severed, UnderWay, DecidedAlone, Doing
  <2>5. Linked'
    BY <2>1, <2>2, RowsStay DEF Doing
  <2>6. SentOnce'
    BY <2>1, <2>2 DEF SentOnce, Sends, Doing
  <2> QED
    BY <2>3, <2>4, <2>5, <2>6
<1>14. CASE UNCHANGED deliveryVars
  <2>1. UNCHANGED <<channel, connection, credentialKeys, secrets, accepted, timeline, envelope,
                    deliveryCall, early, verdicts, atOnce, restored, cutOff>>
    BY <1>14 DEF deliveryVars
  <2>2. Linked'
    BY <2>1, RowsStay DEF Doing
  <2> QED
    BY <2>1, <2>2 DEF DeliveryTypes, Severed, UnderWay, SentOnce, Sends, DecidedAlone, Doing
<1> QED
  BY <1>1, <1>2, <1>3, <1>4, <1>5, <1>6, <1>7, <1>8, <1>9, <1>10, <1>11, <1>12, <1>13, <1>14
  DEF DeliveriesNext

(* What is left of a disconnected connection was stored by hand where       *)
(* nothing was, and it stays disconnected unless a send was under way;      *)
(* reports are linked to the lead of a message whose row was there, and to  *)
(* none for a message without one; an envelope is decided once unless two   *)
(* callbacks on it met (integration.service.ts:173-181, 257-280,            *)
(* communication-delivery.service.ts:82-88, e-signature.service.ts:87-93).  *)
THEOREM DeliveriesAgree == DeliveriesSpec => []CallbacksAgree
<1>1. DeliveriesInv => CallbacksAgree
  BY DEF DeliveriesInv, Severed, Linked, HasSent, DecidedAlone, CallbacksAgree
<1> QED
  BY DeliveriesStart, DeliveriesNextInv, <1>1, PTL DEF DeliveriesSpec
-----------------------------------------------------------------------------
(* The agents: their requests, approvals and decisions. *)

ApprovalState == {None, "pending", "approved", "rejected"}
RequestStatus == {"denied_permission", "suggested", "pending_approval", "executed", "denied_policy"}
ActionRequest == [tool : Tools, agent : BOOLEAN, status : RequestStatus, approval : ApprovalState]
Decided == [status : {"proceeded", "escalated"}, request : Nat \cup {None}, at : Nat]

(* A call of the agent or of a requester; one that decides an approval, or   *)
(* that remembers a decision, names a request that was saved.               *)
Settling == {"approve", "reject", "perform", "record"}
AiCall(c) ==
  /\ c.pc \in {"idle", "request", "remember"} \cup Settling
  /\ c.pc = "idle" => c = Rest
  /\ c.pc # "idle" => c.agent \in BOOLEAN /\ c.request \in (DOMAIN requests) \cup {None}
  /\ c.pc = "request" => c.request = None
  /\ c.pc \in {"approve", "reject", "remember"} => c.request # None
  /\ c.pc \notin {"idle", "remember"} => c.tool \in Tools
  /\ c.pc = "remember" => c.agent
  /\ c.pc = "approve" =>
       c = [pc |-> "approve", agent |-> c.agent, tool |-> c.tool, request |-> c.request]
  /\ c.pc \in {"perform", "record"} /\ c.request # None => requests[c.request].approval # "pending"

AgentsTypes ==
  /\ requests \in Seq(ActionRequest) /\ Len(requests) <= MaxRequests
  /\ decisions \in Seq(Decided)
  /\ hour \in Nat
  /\ performed \in [1..MaxRequests -> Nat]
  /\ muddled \in BOOLEAN
  /\ aiCall = [w \in Callers |-> aiCall[w]]
  /\ \A w \in Callers : AiCall(aiCall[w])

(* A pending approval is of a request that waits for it; decisions come in   *)
(* the order of the clock, and one without a request was escalated.         *)
Waiting == \A r \in DOMAIN requests : requests[r].approval = "pending" => requests[r].status = "pending_approval"
Dated(i) ==
  /\ decisions[i].at <= hour
  /\ decisions[i].request \in (DOMAIN requests) \cup {None}
  /\ decisions[i].request = None => decisions[i].status = "escalated"
InOrder ==
  /\ \A i \in DOMAIN decisions : Dated(i)
  /\ \A i, j \in DOMAIN decisions : i < j => decisions[i].at <= decisions[j].at

(* One call at most settles a request, and carries its action out once, on   *)
(* an approval.                                                             *)
Settles(w, r) == aiCall[w].pc \in Settling /\ aiCall[w].request = r
SettledBy(w, r) ==
  /\ aiCall[w].pc \in {"approve", "reject"} => requests[r].approval = "pending"
  /\ aiCall[w].pc = "perform" => requests[r].approval = "approved" /\ performed[r] = 0
SettledOnce ==
  /\ \A r \in 1..MaxRequests : r \notin DOMAIN requests => performed[r] = 0
  /\ \A r \in DOMAIN requests : performed[r] <= IF requests[r].approval = "approved" THEN 1 ELSE 0
  /\ \A r \in DOMAIN requests, w \in Callers : Settles(w, r) => SettledBy(w, r)
  /\ \A r \in DOMAIN requests, v, w \in Callers : Settles(v, r) /\ Settles(w, r) => v = w

(* One call at most is the agent's, and while it is at work no approval that *)
(* the agent asked for within the hour waits.                               *)
AnswerGiven(i) ==
  /\ decisions[i].request # None
  => requests[decisions[i].request].approval # "pending"
Works(w) == aiCall[w].pc # "idle" /\ aiCall[w].agent /\ (aiCall[w].request = None \/ aiCall[w].pc = "remember")
AsksAlone ==
  /\ \A v, w \in Callers : Works(v) /\ Works(w) => v = w
  /\ \A w \in Callers, i \in DOMAIN decisions : Works(w) /\ decisions[i].at = hour => AnswerGiven(i)
  /\ \A i, j \in DOMAIN decisions :
       i < j /\ decisions[i].at = decisions[j].at /\ decisions[j].request # None => AnswerGiven(i)

AgentsInv ==
  /\ AgentsTypes /\ Waiting /\ InOrder
  /\ ~ muddled => SettledOnce /\ AsksAlone

(* A request stays saved, and an approval that was decided never waits again. *)
Extends ==
  /\ DOMAIN requests \subseteq DOMAIN requests'
  /\ \A r \in DOMAIN requests : requests[r].approval # "pending" => requests'[r].approval # "pending"

(* One call changes, to one that is in order; the others stay so. *)
LEMMA CallsKept ==
  ASSUME AgentsTypes, NEW w \in Callers, NEW n, Go(w, n), AiCall(n)', Extends
  PROVE  /\ aiCall'[w] = n /\ aiCall' = [v \in Callers |-> aiCall'[v]]
         /\ \A v \in Callers : v # w => aiCall'[v] = aiCall[v]
         /\ \A v \in Callers : AiCall(aiCall[v])'
<1>1. /\ aiCall'[w] = n /\ aiCall' = [v \in Callers |-> aiCall'[v]]
      /\ \A v \in Callers : v # w => aiCall'[v] = aiCall[v]
  BY DEF AgentsTypes, Go, Becomes
<1>2. ASSUME NEW c, AiCall(c) PROVE AiCall(c)'
  <2>1. c.pc # "idle" => c.request \in (DOMAIN requests') \cup {None}
    BY <1>2 DEF AiCall, Extends
  <2>2. c.pc \in {"perform", "record"} /\ c.request # None => requests'[c.request].approval # "pending"
    BY <1>2 DEF AiCall, Extends
  <2> QED
    BY <1>2, <2>1, <2>2 DEF AiCall
<1>3. ASSUME NEW v \in Callers PROVE AiCall(aiCall[v])'
  <2>1. PICK c : c = aiCall'[v]
    OBVIOUS
  <2>2. AiCall(c)'
    BY <1>1, <1>2, <2>1 DEF AgentsTypes
  <2> QED
    BY <2>1, <2>2 DEF AiCall
<1> QED
  BY <1>1, <1>3

(* The decisions stay in order while none is added. *)
LEMMA OrderKept ==
  ASSUME AgentsTypes, InOrder, Extends, decisions' = decisions, hour' \in {hour, hour + 1}
  PROVE  InOrder'
<1>1. ASSUME NEW i \in DOMAIN decisions PROVE Dated(i)'
  <2>1. decisions[i] \in Decided /\ hour \in Nat
    BY DEF AgentsTypes
  <2>2. decisions[i].at \in Nat
    BY <2>1 DEF Decided
  <2>3. decisions[i].at <= hour'
    BY <2>1, <2>2 DEF InOrder, Dated
  <2> QED
    BY <2>3 DEF InOrder, Dated, Extends
<1> QED
  BY <1>1 DEF InOrder

(* The numbers of the requests. *)
LEMMA RequestsNumbered ==
  ASSUME AgentsTypes
  PROVE  /\ DOMAIN requests = 1..Len(requests) /\ Len(requests) \in Nat /\ None \notin DOMAIN requests
         /\ DOMAIN requests \subseteq 1..MaxRequests
         /\ \A r \in DOMAIN requests : requests[r] \in ActionRequest
BY AgentsAssumption DEF AgentsTypes

(* A call that is not settling, and the agent's only if it was, moves on.    *)
LEMMA MovesOn ==
  ASSUME AgentsInv, NEW w \in Callers, NEW n, Go(w, n), AiCall(n)',
         n.pc \notin Settling \/ n.request = None,
         n.pc # "idle" /\ n.agent /\ (n.request = None \/ n.pc = "remember") => Works(w) \/ (~ AgentAtWork /\ ~ RecentDecision),
         UNCHANGED <<hour, requests, decisions, performed>>, muddled' \in {muddled, TRUE}
  PROVE  AgentsInv'
<1>0. AgentsTypes /\ Waiting /\ InOrder
  BY DEF AgentsInv
<1>1. Extends
  BY DEF Extends
<1>2. /\ aiCall'[w] = n /\ aiCall' = [v \in Callers |-> aiCall'[v]]
      /\ \A v \in Callers : v # w => aiCall'[v] = aiCall[v]
      /\ \A v \in Callers : AiCall(aiCall[v])'
  BY <1>0, <1>1, CallsKept
<1>3. AgentsTypes' /\ Waiting' /\ InOrder'
  BY <1>0, <1>1, <1>2, OrderKept DEF AgentsTypes, Waiting
<1>4. ASSUME ~ muddled' PROVE SettledOnce' /\ AsksAlone'
  <2>0. SettledOnce /\ AsksAlone
    BY <1>0, <1>4 DEF AgentsInv, AgentsTypes
  <2>1. \A r \in DOMAIN requests : ~ Settles(w, r)'
    BY <1>0, <1>2, RequestsNumbered DEF Settles
  <2>2. SettledOnce'
    BY <2>0, <2>1, <1>2 DEF SettledOnce, Settles, SettledBy
  <2>3. CASE Works(w)
    <3>1. \A v \in Callers : Works(v)' => Works(v)
      BY <2>3, <1>2 DEF Works
    <3>2. AsksAlone'
      BY <2>0, <3>1 DEF AsksAlone, AnswerGiven
    <3> QED
      BY <2>2, <3>2
  <2>4. CASE ~ Works(w)' /\ ~ Works(w)
    <3>1. \A v \in Callers : Works(v)' => Works(v)
      BY <2>4, <1>2 DEF Works
    <3>2. AsksAlone'
      BY <2>0, <3>1 DEF AsksAlone, AnswerGiven
    <3> QED
      BY <2>2, <3>2
  <2>5. CASE ~ Works(w) /\ Works(w)'
    <3>1. ~ AgentAtWork /\ ~ RecentDecision
      BY <2>5, <1>2 DEF Works
    <3>2. \A v \in Callers : ~ Works(v)
      BY <1>0, <3>1 DEF Works, AgentAtWork, AgentsTypes, AiCall, Rest
    <3>3. \A v \in Callers : Works(v)' => v = w
      BY <3>2, <1>2 DEF Works
    <3>4. \A i \in DOMAIN decisions : decisions[i].at = hour => AnswerGiven(i)
      <4> SUFFICES ASSUME NEW i \in DOMAIN decisions, decisions[i].at = hour PROVE AnswerGiven(i)
        OBVIOUS
      <4>1. PICK l \in DOMAIN decisions : l = Len(decisions) /\ i <= l /\ decisions # <<>>
        BY <1>0 DEF AgentsTypes
      <4>2. decisions[l] \in Decided /\ decisions[i] \in Decided
        BY <1>0 DEF AgentsTypes
      <4>3. decisions[l].at = hour /\ hour \in Nat
        BY <1>0, <4>1, <4>2 DEF InOrder, Dated, AgentsTypes, Decided
      <4>4. ~ Live(decisions[l])
        BY <3>1, <4>1 DEF RecentDecision
      <4>5. decisions[l].status # "escalated" /\ decisions[l].request # None
            /\ requests[decisions[l].request].status # "pending_approval"
        BY <4>3, <4>4, <1>0 DEF Live, CooldownHours, InOrder, Dated
      <4>6. AnswerGiven(l)
        BY <1>0, <4>5 DEF AnswerGiven, Waiting, InOrder, Dated
      <4>7. i < l => AnswerGiven(i)
        BY <2>0, <4>3, <4>5 DEF AsksAlone
      <4> QED
        BY <4>1, <4>6, <4>7
    <3>5. AsksAlone'
      BY <2>0, <3>3, <3>4 DEF AsksAlone, AnswerGiven
    <3> QED
      BY <2>2, <3>5
  <2> QED
    BY <2>3, <2>4, <2>5
<1> QED
  BY <1>3, <1>4, <1>0 DEF AgentsInv

(* A request is saved, and its call goes on: the agent's remembers it.       *)
LEMMA PersistKeeps ==
  ASSUME AgentsInv, NEW w \in Callers, aiCall[w].pc \in {"request", "record"}, aiCall[w].request = None,
         NEW status \in RequestStatus, NEW ask \in ApprovalState,
         ask = "pending" => status = "pending_approval",
         Persist(w, status, ask), UNCHANGED <<hour, decisions, performed, muddled>>
  PROVE  AgentsInv'
<1>0. AgentsTypes /\ Waiting /\ InOrder
  BY DEF AgentsInv
<1>1. AiCall(aiCall[w])
  BY <1>0 DEF AgentsTypes
<1>2. PICK x : x = Request(aiCall[w], status, ask)
  OBVIOUS
<1>3. x \in ActionRequest /\ x.status = status /\ x.approval = ask
  BY <1>1, <1>2 DEF Request, AiCall, ActionRequest
<1>4. PICK k \in Nat : k = Len(requests) + 1 /\ k \notin DOMAIN requests /\ k # None /\ k \in 1..MaxRequests
  BY <1>0, RequestsNumbered, AgentsAssumption DEF Persist
<1>5. /\ requests' \in Seq(ActionRequest) /\ Len(requests') = k
      /\ DOMAIN requests' = DOMAIN requests \cup {k}
      /\ requests'[k] = x /\ \A r \in DOMAIN requests : requests'[r] = requests[r]
  BY <1>0, <1>2, <1>3, <1>4 DEF AgentsTypes, Persist
<1>6. Extends
  BY <1>5 DEF Extends
<1>7. PICK n : n = IF aiCall[w].agent THEN [pc |-> "remember", agent |-> TRUE, request |-> k] ELSE Rest
  OBVIOUS
<1>8. Go(w, n)
  BY <1>4, <1>7 DEF Persist
<1>9. AiCall(n)'
  <2>1. CASE aiCall[w].agent
    BY <2>1, <1>4, <1>5, <1>7 DEF AiCall, Settling
  <2>2. CASE ~ aiCall[w].agent
    BY <2>2, <1>7 DEF AiCall, Rest
  <2> QED
    BY <2>1, <2>2
<1>10. /\ aiCall'[w] = n /\ aiCall' = [v \in Callers |-> aiCall'[v]]
       /\ \A v \in Callers : v # w => aiCall'[v] = aiCall[v]
       /\ \A v \in Callers : AiCall(aiCall[v])'
  BY <1>0, <1>6, <1>8, <1>9, CallsKept
<1>11. AgentsTypes'
  BY <1>0, <1>4, <1>5, <1>10 DEF AgentsTypes
<1>12. Waiting' /\ InOrder'
  BY <1>0, <1>3, <1>5, <1>6, OrderKept DEF Waiting
<1>13. n.pc \in {"idle", "remember"} /\ (n.pc = "idle" \/ aiCall[w].agent)
  BY <1>7 DEF Rest
<1>14. ASSUME ~ muddled' PROVE SettledOnce' /\ AsksAlone'
  <2>0. SettledOnce /\ AsksAlone
    BY <1>14 DEF AgentsInv
  <2>1. \A r : ~ Settles(w, r)'
    BY <1>10, <1>13 DEF Settles, Settling
  <2>2. \A v \in Callers : ~ Settles(v, k)'
    <3>1. \A v \in Callers : aiCall[v].pc \in Settling => aiCall[v].request # k
      BY <1>0, <1>4 DEF AgentsTypes, AiCall, Settling
    <3> QED
      BY <3>1, <2>1, <1>10 DEF Settles
  <2>3. \A r \in 1..MaxRequests : r \notin DOMAIN requests' => performed'[r] = 0
    BY <2>0, <1>5 DEF SettledOnce
  <2>4. \A r \in DOMAIN requests' : performed'[r] <= IF requests'[r].approval = "approved" THEN 1 ELSE 0
    BY <2>0, <1>4, <1>5 DEF SettledOnce
  <2>5. \A r \in DOMAIN requests', v \in Callers : Settles(v, r)' => r \in DOMAIN requests /\ Settles(v, r) /\ v # w
    BY <2>1, <2>2, <1>5, <1>10 DEF Settles
  <2>6. SettledOnce'
    BY <2>0, <2>3, <2>4, <2>5, <1>5, <1>10 DEF SettledOnce, SettledBy
  <2>7. \A v \in Callers : Works(v)' => Works(v)
    BY <1>10, <1>13 DEF Works
  <2>8. \A i \in DOMAIN decisions : AnswerGiven(i) => AnswerGiven(i)'
    BY <1>0, <1>5 DEF AnswerGiven, InOrder, Dated
  <2>9. AsksAlone'
    BY <2>0, <2>7, <2>8 DEF AsksAlone
  <2> QED
    BY <2>6, <2>9
<1> QED
  BY <1>11, <1>12, <1>14 DEF AgentsInv

(* A saved request r becomes x, with an approval that no longer waits, and   *)
(* the call that settles it goes on.                                        *)
LEMMA SettlingKeeps ==
  ASSUME AgentsInv, NEW w \in Callers, NEW r \in DOMAIN requests, Settles(w, r), NEW x \in ActionRequest,
         x.approval # "pending",
         ~ muddled => performed[r] <= IF x.approval = "approved" THEN 1 ELSE 0,
         NEW n, Go(w, n), n.pc \in {"idle", "perform", "record"}, n = Rest \/ n.request = r,
         n.pc = "perform" => x.approval = "approved" /\ (~ muddled => performed[r] = 0),
         requests' = [requests EXCEPT ![r] = x], AiCall(n)',
         UNCHANGED <<hour, decisions, performed, muddled>>
  PROVE  AgentsInv'
<1>0. AgentsTypes /\ Waiting /\ InOrder
  BY DEF AgentsInv
<1>1. r # None /\ r \in 1..MaxRequests
  BY <1>0, RequestsNumbered
<1>2. /\ requests' \in Seq(ActionRequest) /\ Len(requests') = Len(requests)
      /\ DOMAIN requests' = DOMAIN requests
      /\ requests'[r] = x /\ \A k \in DOMAIN requests : k # r => requests'[k] = requests[k]
  BY <1>0 DEF AgentsTypes
<1>3. Extends
  BY <1>2 DEF Extends
<1>4. /\ aiCall'[w] = n /\ aiCall' = [v \in Callers |-> aiCall'[v]]
      /\ \A v \in Callers : v # w => aiCall'[v] = aiCall[v]
      /\ \A v \in Callers : AiCall(aiCall[v])'
  BY <1>0, <1>3, CallsKept
<1>5. AgentsTypes'
  BY <1>0, <1>2, <1>4 DEF AgentsTypes
<1>6. Waiting' /\ InOrder'
  BY <1>0, <1>2, <1>3, OrderKept DEF Waiting
<1>7. ASSUME ~ muddled' PROVE SettledOnce' /\ AsksAlone'
  <2>0. SettledOnce /\ AsksAlone /\ ~ muddled
    BY <1>7 DEF AgentsInv
  <2>1. \A k, v : k \in DOMAIN requests /\ v \in Callers /\ Settles(v, k)' => Settles(v, k)
    BY <1>4 DEF Settles, Settling, Rest
  <2>2. \A v \in Callers : v # w => ~ Settles(v, r)
    BY <2>0 DEF SettledOnce
  <2>3. /\ \A k \in 1..MaxRequests : k \notin DOMAIN requests' => performed'[k] = 0
        /\ \A k \in DOMAIN requests' : performed'[k] <= IF requests'[k].approval = "approved" THEN 1 ELSE 0
    BY <2>0, <1>2 DEF SettledOnce
  <2>4. ASSUME NEW k \in DOMAIN requests', NEW v \in Callers, Settles(v, k)' PROVE SettledBy(v, k)'
    <3>1. CASE k = r
      <4>1. v = w
        BY <2>1, <2>2, <2>4, <3>1, <1>2
      <4> QED
        BY <4>1, <3>1, <2>0, <1>2, <1>4 DEF SettledBy
    <3>2. CASE k # r
      <4>1. v # w
        BY <2>4, <3>2, <1>4 DEF Settles, Settling, Rest
      <4> QED
        BY <4>1, <3>2, <2>0, <2>1, <2>4, <1>2, <1>4 DEF SettledOnce, SettledBy
    <3> QED
      BY <3>1, <3>2
  <2>5. SettledOnce'
    BY <2>0, <2>1, <2>3, <2>4, <1>2 DEF SettledOnce
  <2>6. \A v \in Callers : Works(v)' => Works(v)
    BY <1>1, <1>4 DEF Works, Rest
  <2>7. \A i \in DOMAIN decisions : AnswerGiven(i) => AnswerGiven(i)'
    BY <1>0, <1>2 DEF AnswerGiven, InOrder, Dated
  <2>8. AsksAlone'
    BY <2>0, <2>6, <2>7 DEF AsksAlone
  <2> QED
    BY <2>5, <2>8
<1> QED
  BY <1>5, <1>6, <1>7 DEF AgentsInv

(* No request, no decision and no call: the agents start in order. *)
LEMMA AgentsStart == AgentsInit => AgentsInv
<1> SUFFICES ASSUME AgentsInit PROVE AgentsInv
  OBVIOUS
<1>1. requests = <<>> /\ decisions = <<>> /\ DOMAIN requests = {} /\ DOMAIN decisions = {} /\ Len(requests) = 0
  BY DEF AgentsInit
<1>2. \A w \in Callers : aiCall[w] = Rest /\ AiCall(aiCall[w]) /\ aiCall[w].pc = "idle"
  BY DEF AgentsInit, AiCall, Rest
<1>3. AgentsTypes
  <2>1. requests \in Seq(ActionRequest) /\ decisions \in Seq(Decided) /\ Len(requests) <= MaxRequests
    BY <1>1, AgentsAssumption
  <2>2. hour \in Nat /\ muddled \in BOOLEAN /\ performed \in [1..MaxRequests -> Nat]
        /\ aiCall = [w \in Callers |-> aiCall[w]]
    BY DEF AgentsInit
  <2> QED
    BY <1>2, <2>1, <2>2 DEF AgentsTypes
<1>4. \A r \in 1..MaxRequests : performed[r] = 0
  BY DEF AgentsInit
<1> QED
  BY <1>1, <1>2, <1>3, <1>4 DEF AgentsInv, Waiting, InOrder, SettledOnce, AsksAlone, Works

(* Every step of an agent keeps the invariant: a step per action. *)
LEMMA AgentsNextInv ==
  ASSUME AgentsInv, [AgentsNext]_agentsVars PROVE AgentsInv'
<1>0. AgentsTypes /\ Waiting /\ InOrder
  BY DEF AgentsInv
<1>1. ASSUME NEW w \in Callers, Decide(w) PROVE AgentsInv'
  <2>1. CASE lead.stage = "last"
    <3>1. PICK d : d = [status |-> "escalated", request |-> None, at |-> hour]
      OBVIOUS
    <3>2. decisions' = Append(decisions, d)
          /\ UNCHANGED <<lead, policy, granted, hour, requests, aiCall, performed, muddled>>
      BY <1>1, <2>1, <3>1 DEF Decide, Decision
    <3>3. d \in Decided /\ d.request = None /\ d.at = hour /\ d.status = "escalated"
      BY <1>0, <3>1 DEF Decided, AgentsTypes
    <3>4. PICK k \in Nat : k = Len(decisions) + 1
      BY <1>0 DEF AgentsTypes
    <3>5. /\ decisions' \in Seq(Decided) /\ DOMAIN decisions = 1..k - 1 /\ DOMAIN decisions' = 1..k
          /\ decisions'[k] = d /\ \A i \in DOMAIN decisions : decisions'[i] = decisions[i]
      BY <1>0, <3>2, <3>3, <3>4 DEF AgentsTypes
    <3>6. AgentsTypes' /\ Waiting'
      BY <1>0, <3>2, <3>5 DEF AgentsTypes, Waiting, AiCall
    <3>7. InOrder'
      <4>1. \A i \in DOMAIN decisions' : Dated(i)'
        BY <1>0, <3>2, <3>3, <3>4, <3>5 DEF InOrder, Dated, AgentsTypes
      <4>2. \A i, j \in DOMAIN decisions' : i < j => decisions'[i].at <= decisions'[j].at
        BY <1>0, <3>3, <3>4, <3>5 DEF InOrder, Dated, AgentsTypes
      <4> QED
        BY <4>1, <4>2 DEF InOrder
    <3>8. ASSUME ~ muddled' PROVE SettledOnce' /\ AsksAlone'
      <4>0. SettledOnce /\ AsksAlone
        BY <3>8, <3>2 DEF AgentsInv
      <4>1. SettledOnce'
        BY <4>0, <3>2 DEF SettledOnce, Settles, SettledBy
      <4>2. \A i \in DOMAIN decisions : AnswerGiven(i) <=> AnswerGiven(i)'
        BY <3>2, <3>5 DEF AnswerGiven
      <4>3. AnswerGiven(k)'
        BY <3>3, <3>5 DEF AnswerGiven
      <4>4. \A v \in Callers : Works(v)' <=> Works(v)
        BY <3>2 DEF Works
      <4>5. \A v, u \in Callers : Works(v)' /\ Works(u)' => v = u
        BY <4>0, <4>4 DEF AsksAlone
      <4>6. \A v \in Callers, i \in DOMAIN decisions' : Works(v)' /\ decisions'[i].at = hour' => AnswerGiven(i)'
        BY <4>0, <4>2, <4>3, <4>4, <3>2, <3>4, <3>5 DEF AsksAlone
      <4>7. \A i, j \in DOMAIN decisions' :
              i < j /\ decisions'[i].at = decisions'[j].at /\ decisions'[j].request # None => AnswerGiven(i)'
        BY <4>0, <4>2, <3>3, <3>4, <3>5 DEF AsksAlone
      <4> QED
        BY <4>1, <4>5, <4>6, <4>7 DEF AsksAlone
    <3> QED
      BY <3>6, <3>7, <3>8 DEF AgentsInv
  <2>2. CASE lead.stage # "last"
    <3>1. PICK t \in Tools : t = IF lead.reached THEN "update_lead_status" ELSE "integration_call"
      BY DEF Tools
    <3>2. PICK n : n = [pc |-> "request", agent |-> TRUE, request |-> None, tool |-> t]
      OBVIOUS
    <3>3. /\ Go(w, n) /\ ~ RecentDecision /\ muddled' = (muddled \/ AgentAtWork)
          /\ UNCHANGED <<hour, requests, decisions, performed>>
      BY <1>1, <2>2, <3>1, <3>2 DEF Decide
    <3>4. AiCall(n)'
      BY <3>1, <3>2 DEF AiCall, Settling
    <3>5. n.pc \notin Settling
      BY <3>2 DEF Settling
    <3>6. muddled' \in {muddled, TRUE}
      BY <1>0, <3>3 DEF AgentsTypes
    <3>7. CASE ~ AgentAtWork
      BY <3>3, <3>4, <3>5, <3>6, <3>7, MovesOn
    <3>8. CASE AgentAtWork
      <4>1. muddled'
        BY <3>3, <3>8 
      <4>2. Extends
        BY <3>3 DEF Extends
      <4>3. aiCall' = [v \in Callers |-> aiCall'[v]] /\ \A v \in Callers : AiCall(aiCall[v])'
        BY <1>0, <3>3, <3>4, <4>2, CallsKept
      <4>4. AgentsTypes' /\ Waiting' /\ InOrder'
        BY <1>0, <3>3, <4>1, <4>2, <4>3, OrderKept DEF AgentsTypes, Waiting
      <4> QED
        BY <4>1, <4>4 DEF AgentsInv
    <3> QED
      BY <3>7, <3>8
  <2> QED
    BY <2>1, <2>2
<1>2. ASSUME NEW w \in Callers, PersistDecision(w) PROVE AgentsInv'
  <2>0. AiCall(aiCall[w]) /\ aiCall[w].pc = "remember"
    BY <1>0, <1>2 DEF AgentsTypes, PersistDecision
  <2>1. PICK r \in DOMAIN requests : r = aiCall[w].request
    BY <2>0 DEF AiCall
  <2>2. r # None /\ r \in Nat /\ Works(w)
    BY <1>0, <2>0, <2>1, RequestsNumbered DEF AiCall, Works
  <2>3. PICK d : d = [status |-> "proceeded", request |-> r, at |-> hour]
    OBVIOUS
  <2>4. d \in Decided /\ d.request = r /\ d.at = hour
    BY <1>0, <2>2, <2>3 DEF Decided, AgentsTypes
  <2>5. decisions' = Append(decisions, d) /\ Go(w, Rest) /\ UNCHANGED <<hour, requests, performed, muddled>>
    BY <1>2, <2>1, <2>3 DEF PersistDecision, Decision
  <2>6. PICK k \in Nat : k = Len(decisions) + 1
    BY <1>0 DEF AgentsTypes
  <2>7. /\ decisions' \in Seq(Decided) /\ DOMAIN decisions = 1..k - 1 /\ DOMAIN decisions' = 1..k
        /\ decisions'[k] = d /\ \A i \in DOMAIN decisions : decisions'[i] = decisions[i]
    BY <1>0, <2>4, <2>5, <2>6 DEF AgentsTypes
  <2>8. AiCall(Rest)' /\ Extends
    BY <2>5 DEF AiCall, Rest, Extends
  <2>9. /\ aiCall'[w] = Rest /\ aiCall' = [v \in Callers |-> aiCall'[v]]
        /\ \A v \in Callers : v # w => aiCall'[v] = aiCall[v]
        /\ \A v \in Callers : AiCall(aiCall[v])'
    BY <1>0, <2>5, <2>8, CallsKept
  <2>10. AgentsTypes' /\ Waiting'
    BY <1>0, <2>5, <2>7, <2>9 DEF AgentsTypes, Waiting
  <2>11. InOrder'
    <3>1. \A i \in DOMAIN decisions' : Dated(i)'
      BY <1>0, <2>2, <2>4, <2>5, <2>6, <2>7 DEF InOrder, Dated, AgentsTypes
    <3>2. \A i, j \in DOMAIN decisions' : i < j => decisions'[i].at <= decisions'[j].at
      BY <1>0, <2>4, <2>6, <2>7 DEF InOrder, Dated, AgentsTypes
    <3> QED
      BY <3>1, <3>2 DEF InOrder
  <2>12. ASSUME ~ muddled' PROVE SettledOnce' /\ AsksAlone'
    <3>0. SettledOnce /\ AsksAlone
      BY <2>12, <2>5 DEF AgentsInv
    <3>1. \A s, v : v \in Callers /\ Settles(v, s)' => Settles(v, s) /\ v # w
      BY <2>9 DEF Settles, Settling, Rest
    <3>2. SettledOnce'
      BY <3>0, <3>1, <2>5, <2>9 DEF SettledOnce, SettledBy
    <3>3. \A v \in Callers : ~ Works(v)'
      BY <3>0, <2>2, <2>9 DEF AsksAlone, Works, Rest
    <3>4. \A i \in DOMAIN decisions : AnswerGiven(i) <=> AnswerGiven(i)'
      BY <2>5, <2>7 DEF AnswerGiven
    <3>5. \A i, j \in DOMAIN decisions' :
            i < j /\ decisions'[i].at = decisions'[j].at /\ decisions'[j].request # None => AnswerGiven(i)'
      BY <3>0, <3>4, <2>2, <2>4, <2>6, <2>7 DEF AsksAlone
    <3> QED
      BY <3>2, <3>3, <3>5 DEF AsksAlone
  <2> QED
    BY <2>10, <2>11, <2>12 DEF AgentsInv
<1>3. ASSUME NEW w \in Callers, NEW t \in Asked, AskAction(w, t) PROVE AgentsInv'
  <2>1. PICK n : n = [pc |-> "request", agent |-> FALSE, request |-> None, tool |-> t]
    OBVIOUS
  <2>2. AiCall(n)' /\ n.pc \notin Settling /\ ~ n.agent
    BY <2>1, AgentsAssumption DEF AiCall, Settling
  <2>3. Go(w, n) /\ UNCHANGED <<hour, requests, decisions, performed, muddled>>
    BY <1>3, <2>1 DEF AskAction
  <2> QED
    BY <2>2, <2>3, MovesOn
<1>4. ASSUME NEW w \in Callers, RequestAction(w) PROVE AgentsInv'
  <2>0. AiCall(aiCall[w]) /\ aiCall[w].pc = "request" /\ aiCall[w].request = None
        /\ UNCHANGED <<hour, decisions, performed, muddled>>
    BY <1>0, <1>4 DEF AgentsTypes, RequestAction, AiCall
  <2>1. CASE \E status, ask : /\ Persist(w, status, ask)
                              /\ <<status, ask>> \in {<<"denied_permission", None>>,
                                    <<"suggested", None>>, <<"pending_approval", "pending">>}
    <3>1. PICK status, ask : /\ Persist(w, status, ask)
                             /\ status \in RequestStatus /\ ask \in ApprovalState
                             /\ ask = "pending" => status = "pending_approval"
      BY <2>1, AgentsAssumption DEF RequestStatus, ApprovalState
    <3> QED
      BY <2>0, <3>1, PersistKeeps
  <2>2. CASE /\ Go(w, [pc |-> "perform", agent |-> aiCall[w].agent, tool |-> aiCall[w].tool, request |-> None])
             /\ UNCHANGED requests
    <3>1. PICK n : n = [pc |-> "perform", agent |-> aiCall[w].agent, tool |-> aiCall[w].tool, request |-> None]
      OBVIOUS
    <3>2. AiCall(n)' /\ n.request = None
      BY <2>0, <3>1 DEF AiCall, Settling
    <3>3. n.agent => Works(w)
      BY <2>0, <3>1 DEF Works
    <3>4. /\ n.pc # "idle" /\ n.agent /\ (n.request = None \/ n.pc = "remember")
                 => Works(w) \/ (~ AgentAtWork /\ ~ RecentDecision)
          /\ muddled' \in {muddled, TRUE} /\ Go(w, n) /\ UNCHANGED <<hour, requests, decisions, performed>>
      <4>1. n.pc # "idle" /\ n.agent /\ (n.request = None \/ n.pc = "remember")
              => Works(w) \/ (~ AgentAtWork /\ ~ RecentDecision)
        BY <3>3
      <4>2. muddled' \in {muddled, TRUE}
        BY <2>0
      <4>3. Go(w, n) /\ UNCHANGED <<hour, requests, decisions, performed>>
        BY <2>0, <2>2, <3>1
      <4> QED
        BY <4>1, <4>2, <4>3
    <3> QED
      BY <3>2, <3>4, MovesOn
  <2> QED
    BY <1>4, <2>1, <2>2 DEF RequestAction
<1>5. ASSUME NEW w \in Callers, Perform(w) PROVE AgentsInv'
  <2>0. AiCall(aiCall[w]) /\ aiCall[w].pc = "perform"
    BY <1>0, <1>5 DEF AgentsTypes, Perform
  <2>1. PICK o : /\ Go(w, [pc |-> "record", agent |-> aiCall[w].agent, tool |-> aiCall[w].tool,
                           request |-> aiCall[w].request, output |-> o])
                 /\ \/ performed' = performed
                    \/ aiCall[w].request # None
                       /\ performed' = [performed EXCEPT ![aiCall[w].request] = @ + 1]
    BY <1>5 DEF Perform
  <2>2. UNCHANGED <<hour, requests, decisions, muddled>>
    BY <1>5 DEF Perform
  <2>3. PICK n : n = [pc |-> "record", agent |-> aiCall[w].agent, tool |-> aiCall[w].tool,
                      request |-> aiCall[w].request, output |-> o]
    OBVIOUS
  <2>4. CASE aiCall[w].request = None
    <3>1. AiCall(n)' /\ n.request = None
      BY <2>0, <2>3, <2>4 DEF AiCall, Settling
    <3>2. n.agent => Works(w)
      BY <2>0, <2>3, <2>4 DEF Works
    <3>3. /\ n.pc # "idle" /\ n.agent /\ (n.request = None \/ n.pc = "remember")
                 => Works(w) \/ (~ AgentAtWork /\ ~ RecentDecision)
          /\ muddled' \in {muddled, TRUE} /\ Go(w, n) /\ UNCHANGED <<hour, requests, decisions, performed>>
      <4>1. n.pc # "idle" /\ n.agent /\ (n.request = None \/ n.pc = "remember")
              => Works(w) \/ (~ AgentAtWork /\ ~ RecentDecision)
        BY <3>2
      <4>2. muddled' \in {muddled, TRUE}
        BY <2>2
      <4>3. Go(w, n) /\ UNCHANGED <<hour, requests, decisions, performed>>
        BY <2>1, <2>2, <2>3, <2>4
      <4> QED
        BY <4>1, <4>2, <4>3
    <3> QED
      BY <3>1, <3>3, MovesOn
  <2>5. CASE aiCall[w].request # None
    <3>1. PICK r \in DOMAIN requests : r = aiCall[w].request /\ r \in 1..MaxRequests
      BY <1>0, <2>0, <2>5, RequestsNumbered DEF AiCall
    <3>2. n.pc = "record" /\ n.request = r
      BY <2>3, <3>1
    <3>3. Extends /\ Go(w, n)
      BY <2>1, <2>2, <2>3 DEF Extends
    <3>5. performed' \in [1..MaxRequests -> Nat] /\ (\A k \in 1..MaxRequests : k # r => performed'[k] = performed[k])
          /\ performed'[r] \in {performed[r], performed[r] + 1}
      <4>1. performed \in [1..MaxRequests -> Nat]
        BY <1>0 DEF AgentsTypes
      <4>2. performed' = performed \/ performed' = [performed EXCEPT ![r] = performed[r] + 1]
        BY <2>1, <3>1
      <4>3. CASE performed' = performed
        BY <4>1, <4>3, <3>1
      <4>4. CASE performed' = [performed EXCEPT ![r] = performed[r] + 1]
        <5>1. performed[r] + 1 \in Nat
          BY <4>1, <3>1
        <5> QED
          BY <4>1, <4>4, <5>1, <3>1
      <4> QED
        BY <4>2, <4>3, <4>4
    <3>4. requests[r].approval # "pending"
      BY <2>0, <2>5, <3>1 DEF AiCall
    <3>6. AiCall(n)'
      BY <2>0, <2>2, <2>3, <3>1, <3>4 DEF AiCall, Settling
    <3>7. /\ aiCall'[w] = n /\ aiCall' = [v \in Callers |-> aiCall'[v]]
          /\ \A v \in Callers : v # w => aiCall'[v] = aiCall[v]
          /\ \A v \in Callers : AiCall(aiCall[v])'
      BY <1>0, <3>3, <3>6, CallsKept
    <3>8. AgentsTypes' /\ Waiting' /\ InOrder'
      BY <1>0, <2>2, <3>3, <3>5, <3>7, OrderKept DEF AgentsTypes, Waiting
    <3>9. ASSUME ~ muddled' PROVE SettledOnce' /\ AsksAlone'
      <4>0. SettledOnce /\ AsksAlone
        BY <3>9, <2>2 DEF AgentsInv
      <4>1. Settles(w, r)
        BY <2>0, <3>1 DEF Settles, Settling
      <4>2. requests[r].approval = "approved" /\ performed[r] = 0
        BY <4>0, <4>1, <2>0 DEF SettledOnce, SettledBy
      <4>3. \A s, v : v \in Callers /\ Settles(v, s)' => Settles(v, s)
        BY <3>1, <3>2, <3>7, <4>1 DEF Settles, Settling
      <4>4. \A v \in Callers : v # w => ~ Settles(v, r)
        BY <4>0, <4>1 DEF SettledOnce
      <4>5. /\ \A s \in 1..MaxRequests : s \notin DOMAIN requests => performed'[s] = 0
            /\ \A s \in DOMAIN requests : performed'[s] <= IF requests[s].approval = "approved" THEN 1 ELSE 0
        BY <1>0, <4>0, <4>2, <3>1, <3>5, RequestsNumbered DEF SettledOnce
      <4>6. ASSUME NEW s \in DOMAIN requests, NEW v \in Callers, Settles(v, s)' PROVE SettledBy(v, s)'
        <5>1. CASE v = w
          BY <5>1, <3>2, <3>7 DEF SettledBy
        <5>2. CASE v # w
          <6>1. s # r /\ Settles(v, s) /\ s \in 1..MaxRequests
            BY <1>0, <5>2, <4>3, <4>4, <4>6, RequestsNumbered
          <6> QED
            BY <6>1, <5>2, <4>0, <2>2, <3>5, <3>7 DEF SettledOnce, SettledBy
        <5> QED
          BY <5>1, <5>2
      <4>7. SettledOnce'
        BY <4>0, <4>3, <4>5, <4>6, <2>2 DEF SettledOnce
      <4>8. \A v \in Callers : Works(v)' => Works(v)
        BY <2>5, <3>1, <3>2, <3>7 DEF Works
      <4>9. AsksAlone'
        BY <4>0, <4>8, <2>2 DEF AsksAlone, AnswerGiven
      <4> QED
        BY <4>7, <4>9
    <3> QED
      BY <3>8, <3>9 DEF AgentsInv
  <2> QED
    BY <2>4, <2>5
<1>6. ASSUME NEW w \in Callers, RecordAction(w) PROVE AgentsInv'
  <2>0. AiCall(aiCall[w]) /\ aiCall[w].pc = "record" /\ UNCHANGED <<hour, decisions, performed, muddled>>
    BY <1>0, <1>6 DEF AgentsTypes, RecordAction
  <2>1. PICK status \in RequestStatus : status = IF aiCall[w].output = "done" THEN "executed" ELSE "denied_policy"
    BY DEF RequestStatus
  <2>2. CASE aiCall[w].request = None
    <3>1. Persist(w, status, None) /\ None \in ApprovalState /\ None # "pending"
      BY <1>6, <2>1, <2>2, AgentsAssumption DEF RecordAction, ApprovalState
    <3> QED
      BY <2>0, <2>2, <3>1, PersistKeeps
  <2>3. CASE aiCall[w].request # None
    <3>1. PICK r \in DOMAIN requests : r = aiCall[w].request
      BY <2>0, <2>3 DEF AiCall
    <3>2. requests[r] \in ActionRequest /\ requests[r].approval # "pending"
      BY <1>0, <2>0, <2>3, <3>1, RequestsNumbered DEF AiCall
    <3>8. PICK x : x = [requests[r] EXCEPT !.status = status]
      OBVIOUS
    <3>3. x \in ActionRequest /\ x.approval = requests[r].approval
      BY <3>2, <3>8 DEF ActionRequest
    <3>4. requests' = [requests EXCEPT ![r] = x] /\ Go(w, Rest)
      BY <1>6, <2>1, <2>3, <3>1, <3>8 DEF RecordAction
    <3>5. AiCall(Rest)' /\ Rest.pc = "idle"
      BY DEF AiCall, Rest
    <3>6. Settles(w, r)
      BY <2>0, <3>1 DEF Settles, Settling
    <3>7. ~ muddled => performed[r] <= IF x.approval = "approved" THEN 1 ELSE 0
      BY <3>3 DEF AgentsInv, SettledOnce
    <3> QED
      BY <2>0, <3>2, <3>3, <3>4, <3>5, <3>6, <3>7, SettlingKeeps
  <2> QED
    BY <2>2, <2>3
<1>7. ASSUME NEW w \in Callers, NEW r \in 1..Len(requests), NEW op \in {"approve", "reject"}, OpenApproval(w, r, op)
      PROVE  AgentsInv'
  <2>1. r \in DOMAIN requests /\ r # None /\ requests[r] \in ActionRequest
    BY <1>0, RequestsNumbered
  <2>2. PICK n : n = [pc |-> op, agent |-> requests[r].agent, tool |-> requests[r].tool, request |-> r]
    OBVIOUS
  <2>3. /\ Go(w, n) /\ requests[r].approval = "pending" /\ muddled' = (muddled \/ Deciding(r) # {})
        /\ UNCHANGED <<hour, requests, decisions, performed>>
    BY <1>7, <2>2 DEF OpenApproval, PendingApproval
  <2>4. AiCall(n)'
    BY <2>1, <2>2, <2>3 DEF AiCall, Settling, ActionRequest
  <2>5. Extends
    BY <2>3 DEF Extends
  <2>6. /\ aiCall'[w] = n /\ aiCall' = [v \in Callers |-> aiCall'[v]]
        /\ \A v \in Callers : v # w => aiCall'[v] = aiCall[v]
        /\ \A v \in Callers : AiCall(aiCall[v])'
    BY <1>0, <2>3, <2>4, <2>5, CallsKept
  <2>7. AgentsTypes' /\ Waiting' /\ InOrder'
    BY <1>0, <2>3, <2>5, <2>6, OrderKept DEF AgentsTypes, Waiting
  <2>8. ASSUME ~ muddled' PROVE SettledOnce' /\ AsksAlone'
    <3>0. SettledOnce /\ AsksAlone /\ Deciding(r) = {}
      BY <1>0, <2>3, <2>8 DEF AgentsInv, AgentsTypes
    <3>1. \A v \in Callers : ~ Settles(v, r)
      BY <3>0 DEF Deciding, Settles, Settling
    <3>2. n.pc = op /\ n.request = r
      BY <2>2
    <3>3. \A s, v : v \in Callers /\ Settles(v, s)' => (v = w /\ s = r) \/ (v # w /\ Settles(v, s))
      BY <2>6, <3>2 DEF Settles
    <3>4. ASSUME NEW s \in DOMAIN requests, NEW v \in Callers, Settles(v, s)' PROVE SettledBy(v, s)'
      <4>1. CASE v = w /\ s = r
        BY <4>1, <2>3, <2>6, <3>2 DEF SettledBy
      <4>2. CASE v # w /\ Settles(v, s)
        BY <4>2, <3>0, <2>3, <2>6 DEF SettledOnce, SettledBy
      <4> QED
        BY <3>3, <3>4, <4>1, <4>2
    <3>5. \A s \in DOMAIN requests, u, v \in Callers : Settles(u, s)' /\ Settles(v, s)' => u = v
      BY <3>0, <3>1, <3>3 DEF SettledOnce
    <3>6. SettledOnce'
      BY <3>0, <3>4, <3>5, <2>3 DEF SettledOnce
    <3>7. \A v \in Callers : Works(v)' => Works(v)
      BY <2>1, <2>6, <3>2 DEF Works
    <3>8. AsksAlone'
      BY <3>0, <3>7, <2>3 DEF AsksAlone, AnswerGiven
    <3> QED
      BY <3>6, <3>8
  <2> QED
    BY <2>7, <2>8 DEF AgentsInv
<1>8. ASSUME NEW w \in Callers, ApproveAction(w) PROVE AgentsInv'
  <2>0. AiCall(aiCall[w]) /\ aiCall[w].pc = "approve" /\ UNCHANGED <<hour, decisions, performed, muddled>>
    BY <1>0, <1>8 DEF AgentsTypes, ApproveAction
  <2>1. PICK r \in DOMAIN requests : r = aiCall[w].request /\ r # None /\ Settles(w, r)
    BY <2>0 DEF AiCall, Settles, Settling
  <2>2. requests[r] \in ActionRequest
    BY <1>0, RequestsNumbered
  <2>11. PICK x : x = [requests[r] EXCEPT !.approval = "approved"]
    OBVIOUS
  <2>3. x \in ActionRequest /\ x.approval = "approved"
    BY <2>2, <2>11 DEF ActionRequest, ApprovalState
  <2>4. PICK n : n = [pc |-> "perform", agent |-> aiCall[w].agent, tool |-> aiCall[w].tool, request |-> r]
    OBVIOUS
  <2>5. n = [aiCall[w] EXCEPT !.pc = "perform"]
    BY <2>0, <2>1, <2>4 DEF AiCall
  <2>6. requests' = [requests EXCEPT ![r] = x] /\ Go(w, n)
    BY <1>8, <2>1, <2>11, <2>5 DEF ApproveAction
  <2>7. DOMAIN requests' = DOMAIN requests
    BY <1>0, <2>6 DEF AgentsTypes
  <2>12. requests'[r] = x
    BY <1>0, <2>6 DEF AgentsTypes
  <2>8. AiCall(n)' /\ n.pc = "perform" /\ n.request = r
    BY <2>0, <2>1, <2>3, <2>4, <2>7, <2>12 DEF AiCall, Settling
  <2>9. ~ muddled => performed[r] = 0
    <3>1. ~ muddled => requests[r].approval = "pending" /\ performed[r] <= 0
      BY <2>0, <2>1 DEF AgentsInv, SettledOnce, SettledBy
    <3>2. performed[r] \in Nat
      BY <1>0, RequestsNumbered DEF AgentsTypes
    <3> QED
      BY <3>1, <3>2
  <2>10. ~ muddled => performed[r] <= IF x.approval = "approved" THEN 1 ELSE 0
    BY <2>3, <2>9
  <2> QED
    BY <2>0, <2>1, <2>3, <2>6, <2>8, <2>9, <2>10, SettlingKeeps
<1>9. ASSUME NEW w \in Callers, RejectAction(w) PROVE AgentsInv'
  <2>0. AiCall(aiCall[w]) /\ aiCall[w].pc = "reject" /\ UNCHANGED <<hour, decisions, performed, muddled>>
    BY <1>0, <1>9 DEF AgentsTypes, RejectAction
  <2>1. PICK r \in DOMAIN requests : r = aiCall[w].request /\ r # None /\ Settles(w, r)
    BY <2>0 DEF AiCall, Settles, Settling
  <2>2. requests[r] \in ActionRequest
    BY <1>0, RequestsNumbered
  <2>11. PICK x : x = [requests[r] EXCEPT !.approval = "rejected"]
    OBVIOUS
  <2>3. x \in ActionRequest /\ x.approval = "rejected"
    BY <2>2, <2>11 DEF ActionRequest, ApprovalState
  <2>4. PICK n : n = [pc |-> "record", agent |-> aiCall[w].agent, tool |-> aiCall[w].tool, request |-> r,
                      output |-> "rejected"]
    OBVIOUS
  <2>6. requests' = [requests EXCEPT ![r] = x] /\ Go(w, n)
    BY <1>9, <2>1, <2>11, <2>4 DEF RejectAction
  <2>7. DOMAIN requests' = DOMAIN requests /\ requests'[r] = x
    BY <1>0, <2>6 DEF AgentsTypes
  <2>8. AiCall(n)' /\ n.pc = "record" /\ n.request = r
    BY <2>0, <2>1, <2>3, <2>4, <2>7 DEF AiCall, Settling
  <2>9. ~ muddled => performed[r] <= 0
    BY <2>0, <2>1 DEF AgentsInv, SettledOnce, SettledBy
  <2> QED
    BY <2>0, <2>1, <2>3, <2>6, <2>8, <2>9, SettlingKeeps
<1>10. ASSUME UNCHANGED <<hour, requests, decisions, aiCall, performed, muddled>> PROVE AgentsInv'
  <2>1. AgentsTypes' /\ Waiting' /\ InOrder'
    BY <1>0, <1>10 DEF AgentsTypes, AiCall, Waiting, InOrder, Dated
  <2>2. SettledOnce => SettledOnce'
    BY <1>10 DEF SettledOnce, Settles, SettledBy
  <2>3. AsksAlone => AsksAlone'
    BY <1>10 DEF AsksAlone, Works, AnswerGiven
  <2> QED
    BY <1>10, <2>1, <2>2, <2>3 DEF AgentsInv
<1>11. CASE HourPasses
  <2>1. hour' = hour + 1 /\ UNCHANGED <<requests, decisions, aiCall, performed, muddled>>
    BY <1>11 DEF HourPasses
  <2>2. Extends
    BY <2>1 DEF Extends
  <2>3. AgentsTypes' /\ Waiting' /\ InOrder'
    BY <1>0, <2>1, <2>2, OrderKept DEF AgentsTypes, AiCall, Waiting
  <2>4. SettledOnce => SettledOnce'
    BY <2>1 DEF SettledOnce, Settles, SettledBy
  <2>5. \A i \in DOMAIN decisions : decisions[i].at # hour'
    <3>1. \A i \in DOMAIN decisions : decisions[i] \in Decided /\ decisions[i].at <= hour
      BY <1>0 DEF AgentsTypes, InOrder, Dated
    <3>2. \A i \in DOMAIN decisions : decisions[i].at \in Nat /\ decisions[i].at <= hour
      BY <3>1 DEF Decided
    <3> QED
      BY <1>0, <2>1, <3>2 DEF AgentsTypes
  <2>6. AsksAlone => AsksAlone'
    BY <2>1, <2>5 DEF AsksAlone, Works, AnswerGiven
  <2> QED
    BY <2>1, <2>3, <2>4, <2>6 DEF AgentsInv
<1>12. CASE StopAgents
  <2>1. /\ aiCall' = [w \in Callers |-> Rest] /\ muddled' = (muddled \/ AgentAtWork)
        /\ UNCHANGED <<hour, requests, decisions, performed>>
    BY <1>12 DEF StopAgents
  <2>2. \A w \in Callers : aiCall'[w] = Rest /\ aiCall'[w].pc = "idle"
    BY <2>1 DEF Rest
  <2>3. Extends
    BY <2>1 DEF Extends
  <2>4. \A w \in Callers : AiCall(aiCall[w])'
    BY <2>2 DEF AiCall
  <2>5. AgentsTypes' /\ Waiting' /\ InOrder'
    BY <1>0, <2>1, <2>2, <2>3, <2>4, OrderKept DEF AgentsTypes, Waiting
  <2>6. ASSUME ~ muddled' PROVE SettledOnce' /\ AsksAlone'
    <3>0. SettledOnce /\ AsksAlone
      BY <1>0, <2>1, <2>6 DEF AgentsInv, AgentsTypes
    <3>1. SettledOnce'
      BY <3>0, <2>1, <2>2 DEF SettledOnce, Settles, Settling
    <3>2. AsksAlone'
      BY <3>0, <2>1, <2>2 DEF AsksAlone, Works, AnswerGiven
    <3> QED
      BY <3>1, <3>2
  <2> QED
    BY <2>5, <2>6 DEF AgentsInv
<1> QED
  <2>1. ASSUME NEW t, ChangeGrants(t) PROVE AgentsInv'
    BY <1>10, <2>1 DEF ChangeGrants
  <2>2. ASSUME NEW t, NEW level, SetPolicy(t, level) PROVE AgentsInv'
    BY <1>10, <2>2 DEF SetPolicy
  <2>3. CASE UNCHANGED agentsVars
    BY <1>10, <2>3 DEF agentsVars
  <2> QED
    BY <1>1, <1>2, <1>3, <1>4, <1>5, <1>6, <1>7, <1>8, <1>9, <1>11, <1>12, <2>1, <2>2, <2>3 DEF AgentsNext

(* What the invariant says where no calls have met. *)
LEMMA AgentsInvSays == AgentsInv => DecidedOnce /\ AsksOnceAnHour
<1> SUFFICES ASSUME AgentsInv, ~ muddled PROVE DecidedOnce /\ AsksOnceAnHour
  BY DEF DecidedOnce, AsksOnceAnHour
<1>0. AgentsTypes /\ InOrder /\ SettledOnce /\ AsksAlone
  BY DEF AgentsInv
<1>1. DecidedOnce
  BY <1>0, RequestsNumbered DEF DecidedOnce, SettledOnce
<1>2. ASSUME NEW i \in 1..Len(decisions), NEW j \in 1..Len(decisions), i < j,
             decisions[j].at - decisions[i].at < CooldownHours,
             decisions[i].request # None, decisions[j].request # None
      PROVE  requests[decisions[i].request].approval # "pending"
  <2>1. i \in DOMAIN decisions /\ j \in DOMAIN decisions
    BY <1>0 DEF AgentsTypes
  <2>2. decisions[i] \in Decided /\ decisions[j] \in Decided /\ decisions[i].at <= decisions[j].at
    BY <1>0, <1>2, <2>1 DEF AgentsTypes, InOrder
  <2>3. decisions[i].at = decisions[j].at
    BY <1>2, <2>2 DEF Decided, CooldownHours
  <2> QED
    BY <1>0, <1>2, <2>1, <2>3 DEF AsksAlone, AnswerGiven
<1> QED
  BY <1>1, <1>2 DEF AsksOnceAnHour

(* As long as no two calls decide an approval at once, the action of a      *)
(* request is carried out once at most, and never after it was rejected     *)
(* (ai-agent.service.ts: approveAction, rejectAction).                      *)
THEOREM ActionsDecidedOnce == AgentsSpec => []DecidedOnce
<1>1. AgentsInv => DecidedOnce
  BY AgentsInvSays
<1> QED
  BY <1>1, AgentsStart, AgentsNextInv, PTL DEF AgentsSpec

(* As long as the calls of the agent do not overlap, and none is lost       *)
(* between its request and its decision, an hour never sees the agent ask   *)
(* twice for an approval nobody has given yet (findRecentDecision).         *)
THEOREM AgentAsksOnce == AgentsSpec => []AsksOnceAnHour
<1>1. AgentsInv => AsksOnceAnHour
  BY AgentsInvSays
<1> QED
  BY <1>1, AgentsStart, AgentsNextInv, PTL DEF AgentsSpec
-----------------------------------------------------------------------------
(* What the agents decide. *)

(* What the agent of a subject decides. *)
Outcome(s) == DecisionStatus(s, RunDecisionRules(s))
RulesInv == sample \in Subjects /\ (answer = None \/ (sample.of \in Deciders /\ answer = Outcome(sample)))

(* A task, or nothing to do, of enough confidence is not escalated. *)
Confident(d) == d.tool = None \/ (d.tool = "create_task" /\ d.confidence >= EscalateBelowConfidence)

(* Such a decision is never taken from the agent. *)
LEMMA ConfidentStands ==
  ASSUME NEW s, NEW d, d.confidence \in Int, Confident(d)
  PROVE  DecisionStatus(s, d) # "escalated"
BY DEF Confident, DecisionStatus, AllowedActionTypes, EscalateBelowConfidence

(* The fields of an advice. *)
LEMMA AdviceOf ==
  ASSUME NEW tool, NEW c PROVE Advice(tool, c).tool = tool /\ Advice(tool, c).confidence = c
BY DEF Advice

(* A task of some confidence, at least 20; nothing to do, of any. *)
LEMMA TaskStands == ASSUME NEW c \in Int, c >= 20 PROVE Confident(Task(c)) /\ Task(c).confidence \in Int
BY AdviceOf DEF Task, Confident, EscalateBelowConfidence

(* Nothing to do stands at any confidence. *)
LEMMA NothingStands == ASSUME NEW c \in Int PROVE Confident(Nothing(c)) /\ Nothing(c).confidence \in Int
BY AdviceOf DEF Nothing, Confident

(* The lower of two confidences is high enough if both are. *)
LEMMA LeastTaskStands ==
  ASSUME NEW x \in Int, NEW y \in Int, x >= 20, y >= 20
  PROVE  Confident(Task(Least(x, y))) /\ Task(Least(x, y)).confidence \in Int
<1>1. Least(x, y) \in Int /\ Least(x, y) >= 20
  BY DEF Least
<1> QED
  BY <1>1, TaskStands

(* Ages and shares are whole. *)
LEMMA WholeNumbers == \A x \in Ages \cup Percents : x \in Nat
BY RulesAssumption

(* What the marketing agent decides stands, *)
LEMMA MarketingStands ==
  ASSUME NEW c \in Campaigns PROVE Confident(DecideMarketing(c)) /\ DecideMarketing(c).confidence \in Int
BY TaskStands, NothingStands DEF DecideMarketing

(* and so does what the support agent decides, *)
LEMMA SupportStands ==
  ASSUME NEW t \in Tickets PROVE Confident(DecideSupport(t)) /\ DecideSupport(t).confidence \in Int
BY TaskStands, NothingStands DEF DecideSupport

(* the finance agent, for a line of any age, *)
LEMMA FinanceStands ==
  ASSUME NEW l \in Lines PROVE Confident(DecideFinance(l)) /\ DecideFinance(l).confidence \in Int
<1>1. l.age \in Ages \cup Percents
  BY DEF Lines
<1>2. PICK a \in Nat : a = l.age
  BY <1>1, WholeNumbers
<1>3. PICK y \in Int : y = 50 + 2 * a /\ y >= 20
  OBVIOUS
<1>4. Confident(Task(Least(95, y))) /\ Task(Least(95, y)).confidence \in Int
  BY <1>3, LeastTaskStands
<1> QED
  BY <1>2, <1>3, <1>4, NothingStands DEF DecideFinance

(* the HR agent, for a leave request of any age, *)
LEMMA HrStands ==
  ASSUME NEW l \in Leaves PROVE Confident(DecideHr(l)) /\ DecideHr(l).confidence \in Int
<1>1. l.age \in Ages \cup Percents
  BY DEF Leaves
<1>2. PICK a \in Nat : a = l.age
  BY <1>1, WholeNumbers
<1>3. PICK y \in Int : y = 50 + a \div 2 /\ y >= 20
  OBVIOUS
<1>4. Confident(Task(Least(90, y))) /\ Task(Least(90, y)).confidence \in Int
  BY <1>3, LeastTaskStands
<1> QED
  BY <1>2, <1>3, <1>4, NothingStands DEF DecideHr

(* the legal agent, for a document of any age, *)
LEMMA LegalStands ==
  ASSUME NEW d \in Documents PROVE Confident(DecideLegal(d)) /\ DecideLegal(d).confidence \in Int
<1>1. d.age \in Ages \cup Percents
  BY DEF Documents
<1>2. PICK a \in Nat : a = d.age
  BY <1>1, WholeNumbers
<1>3. PICK y \in Int : y = 50 + a \div 4 /\ y >= 20
  OBVIOUS
<1>4. PICK z \in Int : z = 45 + a \div 6 /\ z >= 20
  OBVIOUS
<1>5. Confident(Task(Least(90, y))) /\ Task(Least(90, y)).confidence \in Int
  BY <1>3, LeastTaskStands
<1>6. Confident(Task(Least(85, z))) /\ Task(Least(85, z)).confidence \in Int
  BY <1>4, LeastTaskStands
<1> QED
  BY <1>2, <1>3, <1>4, <1>5, <1>6, NothingStands DEF DecideLegal

(* the broker agent, for a lead of any age, *)
LEMMA BrokerStands ==
  ASSUME NEW l \in BrokerLeads PROVE Confident(DecideBroker(l)) /\ DecideBroker(l).confidence \in Int
<1>1. l.age \in Ages \cup Percents
  BY DEF BrokerLeads
<1>2. PICK a \in Nat : a = l.age
  BY <1>1, WholeNumbers
<1>3. PICK y \in Int : y = 40 + a /\ y >= 20
  OBVIOUS
<1>4. Confident(Task(Least(90, y))) /\ Task(Least(90, y)).confidence \in Int
  BY <1>3, LeastTaskStands
<1> QED
  BY <1>2, <1>3, <1>4, NothingStands DEF DecideBroker

(* the inventory agent, for a unit of any age, *)
LEMMA InventoryStands ==
  ASSUME NEW u \in Units PROVE Confident(DecideInventory(u)) /\ DecideInventory(u).confidence \in Int
<1>1. u.age \in Ages \cup Percents
  BY DEF Units
<1>2. PICK a \in Nat : a = u.age
  BY <1>1, WholeNumbers
<1>3. PICK y \in Int : y = 40 + a \div 4 /\ y >= 20
  OBVIOUS
<1>4. Confident(Task(Least(85, y))) /\ Task(Least(85, y)).confidence \in Int
  BY <1>3, LeastTaskStands
<1> QED
  BY <1>2, <1>3, <1>4, NothingStands DEF DecideInventory

(* and the management agent, for any share overdue. *)
LEMMA ManagementStands ==
  ASSUME NEW c \in Companies PROVE Confident(DecideManagement(c)) /\ DecideManagement(c).confidence \in Int
<1>1. c.percent \in Ages \cup Percents
  BY DEF Companies
<1>2. PICK a \in Nat : a = c.percent
  BY <1>1, WholeNumbers
<1>3. PICK y \in Int : y = 50 + a \div 2 /\ y >= 20
  OBVIOUS
<1>4. Confident(Task(Least(90, y))) /\ Task(Least(90, y)).confidence \in Int
  BY <1>3, LeastTaskStands
<1> QED
  BY <1>2, <1>3, <1>4, NothingStands DEF DecideManagement

(* The score of a lead is a whole number, and so is the confidence in it. *)
LEMMA ConfidenceIsWhole ==
  ASSUME NEW l \in Leads, NEW base \in {35, 60}
  PROVE  Least(95, RoundDiv(ComputeScore(l) * 100, base)) \in Int
<1>1. /\ l.stages \in Nat /\ l.stages >= 1 /\ l.at \in Nat /\ l.age \in Nat
      /\ l.kind \in {"open", "won", "lost", "archived"}
  <2>1. l.stages \in 1..MaxStages
    BY DEF Leads
  <2>2. l.at \in 0..MaxStages - 1
    BY DEF Leads
  <2>3. l.age \in Ages
    BY DEF Leads
  <2>4. l.kind \in {"open", "won", "lost", "archived"}
    BY DEF Leads
  <2>5. MaxStages \in Nat
    BY RulesAssumption
  <2>6. l.stages \in Nat /\ l.stages >= 1
    BY <2>1, <2>5
  <2>7. l.at \in Nat
    BY <2>2, <2>5
  <2>8. l.age \in Nat
    BY <2>3, WholeNumbers
  <2> QED
    BY <2>4, <2>6, <2>7, <2>8
<1>2. \A x \in Int, y \in Nat : y > 0 => RoundDiv(x, y) \in Int
  BY DEF RoundDiv
<1>3. StagePoints(l) \in Int
  <2>1. CASE l.stages = 1
    BY <2>1 DEF StagePoints
  <2>2. CASE l.stages # 1
    <3>1. l.stages - 1 \in Nat /\ l.stages - 1 > 0 /\ 10 * (l.stages - 1) + 50 * l.at \in Int
      BY <1>1, <2>2
    <3> QED
      BY <1>2, <2>2, <3>1 DEF StagePoints
  <2> QED
    BY <2>1, <2>2
<1>4. RecencyPoints(l) \in Int
  BY <1>1, <1>2 DEF RecencyPoints
<1>5. ComputeScore(l) \in Int
  <2>1. \A x, y \in Int : Least(x, y) \in Int
    BY DEF Least
  <2>2. PICK stage \in Int : stage = IF l.kind = "won" THEN 90 ELSE StagePoints(l)
    BY <1>3
  <2>3. PICK recency \in Int : recency = RecencyPoints(l)
    BY <1>4
  <2>4. PICK owner \in Int : owner = IF l.owned THEN 10 ELSE 0
    OBVIOUS
  <2>5. PICK source \in Int : source = IF l.sourced THEN 5 ELSE 0
    OBVIOUS
  <2>6. stage + recency + owner + source \in Int
    OBVIOUS
  <2>7. Least(100, stage + recency + owner + source) \in Int
    BY <2>1, <2>6
  <2>8. ComputeScore(l) = IF l.kind = "lost" THEN 0 ELSE Least(100, stage + recency + owner + source)
    BY <2>2, <2>3, <2>4, <2>5 DEF ComputeScore
  <2> QED
    BY <2>7, <2>8
<1>6. RoundDiv(ComputeScore(l) * 100, base) \in Int
  BY <1>2, <1>5
<1> QED
  BY <1>6 DEF Least

(* A lead gets a next action, unless it is settled or at the end. *)
LEMMA SalesStands ==
  ASSUME NEW l \in Leads
  PROVE  DecisionStatus(l, DecideSales(l)) =
           IF l.kind \in {"won", "lost"} THEN "no_action"
           ELSE IF l.kind = "archived" \/ l.at + 1 >= l.stages THEN "escalated"
           ELSE "proceeded"
<1>0. /\ l.of = "sales" /\ l.stages \in Nat /\ l.at \in Nat /\ l.default \in BOOLEAN
      /\ l.kind \in {"open", "won", "lost", "archived"}
  BY RulesAssumption DEF Leads
<1>1. CASE l.kind \in {"won", "lost"}
  <2>1. DecideSales(l) = Nothing(100)
    BY <1>1 DEF DecideSales
  <2> QED
    BY <1>1, <2>1, AdviceOf DEF DecisionStatus, Nothing
<1>2. CASE l.kind \notin {"won", "lost"} /\ AtTheEnd(l)
  <2>1. DecideSales(l) = Task(15)
    BY <1>2 DEF DecideSales
  <2>2. DecisionStatus(l, Task(15)) = "escalated"
    BY AdviceOf, RulesAssumption DEF DecisionStatus, Task, EscalateBelowConfidence
  <2>3. l.kind = "archived" \/ l.at + 1 >= l.stages
    BY <1>0, <1>2 DEF AtTheEnd
  <2> QED
    BY <1>2, <2>1, <2>2, <2>3
<1>3. CASE l.kind \notin {"won", "lost"} /\ ~ AtTheEnd(l)
  <2>1. PICK base \in {35, 60} : base = IF l.default THEN 35 ELSE 60
    OBVIOUS
  <2>2. PICK bar \in {50, 60} : bar = IF l.default THEN 50 ELSE 60
    OBVIOUS
  <2>3. PICK c \in Int : c = Least(95, RoundDiv(ComputeScore(l) * 100, base))
    BY ConfidenceIsWhole
  <2>4. DecideSales(l) = IF c < bar THEN Task(100 - c)
                         ELSE Advice(IF l.default /\ ~ l.reached /\ l.channel THEN "integration_call"
                                     ELSE "update_lead_status", c)
    BY <1>3, <2>1, <2>2, <2>3 DEF DecideSales
  <2>5. \/ DecideSales(l) \in {Advice("integration_call", c), Advice("update_lead_status", c)} /\ c >= 20
        \/ DecideSales(l) = Advice("create_task", 100 - c) /\ 100 - c >= 20
    BY <2>2, <2>4 DEF Task
  <2>6. DecisionStatus(l, DecideSales(l)) = "proceeded"
    BY <1>0, <2>5, AdviceOf, RulesAssumption DEF DecisionStatus, AllowedActionTypes, EscalateBelowConfidence
  <2>7. ~ (l.kind = "archived" \/ l.at + 1 >= l.stages)
    BY <1>0, <1>3 DEF AtTheEnd
  <2> QED
    BY <1>3, <2>6, <2>7
<1> QED
  BY <1>1, <1>2, <1>3

(* Which agent a subject is for. *)
LEMMA SubjectOf ==
  ASSUME NEW s \in Subjects
  PROVE  /\ s.of = "sales" => s \in Leads
         /\ s.of = "marketing" => s \in Campaigns
         /\ s.of = "finance" => s \in Lines
         /\ s.of = "support" => s \in Tickets
         /\ s.of = "hr" => s \in Leaves
         /\ s.of = "legal" => s \in Documents
         /\ s.of = "broker" => s \in BrokerLeads
         /\ s.of = "inventory" => s \in Units
         /\ s.of = "management" => s \in Companies
<1>1. /\ s \in Leads => s.of = "sales"
      /\ s \in Campaigns => s.of = "marketing"
      /\ s \in Lines => s.of = "finance"
      /\ s \in Tickets => s.of = "support"
      /\ s \in Leaves => s.of = "hr"
      /\ s \in Documents => s.of = "legal"
      /\ s \in BrokerLeads => s.of = "broker"
      /\ s \in Units => s.of = "inventory"
      /\ s \in Companies => s.of = "management"
  BY DEF Leads, Campaigns, Lines, Tickets, Leaves, Documents, BrokerLeads, Units, Companies
<1> QED
  BY <1>1 DEF Subjects

(* A lead in no terminal stage always gets a next action, a human is asked  *)
(* exactly where no active stage follows, and no other agent ever has its   *)
(* own decision taken from it, by a low confidence or by its boundary       *)
(* (ai-agent.service.ts:851-863, 888-893).                                  *)
THEOREM HelpIsAsked == RulesSpec => []AsksForHelp
<1>1. RulesInit => RulesInv
  BY DEF RulesInit, Given, RulesInv
<1>2. RulesInv /\ [Judge]_sampleVars => RulesInv'
  <2>1. ASSUME RulesInv, Judge PROVE RulesInv'
    BY <2>1 DEF RulesInv, Judge, Answer, Outcome
  <2>2. ASSUME RulesInv, UNCHANGED sampleVars PROVE RulesInv'
    BY <2>2 DEF RulesInv, sampleVars
  <2> QED
    BY <2>1, <2>2
<1>3. RulesInv => AsksForHelp
  <2> SUFFICES ASSUME sample \in Subjects, sample.of \in Deciders, answer = Outcome(sample)
               PROVE  AsksForHelp
    BY DEF RulesInv, AsksForHelp
  <2>1. CASE sample.of = "sales"
    <3>1. RunDecisionRules(sample) = DecideSales(sample)
      BY <2>1 DEF RunDecisionRules
    <3> QED
      BY <2>1, <3>1, SubjectOf, SalesStands DEF AsksForHelp, Outcome
  <2>2. CASE sample.of # "sales"
    <3>1. PICK d : d = RunDecisionRules(sample)
      OBVIOUS
    <3>2. Confident(d) /\ d.confidence \in Int
      <4>1. CASE sample.of = "marketing"
        BY <3>1, <4>1, SubjectOf, MarketingStands DEF RunDecisionRules
      <4>2. CASE sample.of = "finance"
        BY <3>1, <4>2, SubjectOf, FinanceStands DEF RunDecisionRules
      <4>3. CASE sample.of = "support"
        BY <3>1, <4>3, SubjectOf, SupportStands DEF RunDecisionRules
      <4>4. CASE sample.of = "hr"
        BY <3>1, <4>4, SubjectOf, HrStands DEF RunDecisionRules
      <4>5. CASE sample.of = "legal"
        BY <3>1, <4>5, SubjectOf, LegalStands DEF RunDecisionRules
      <4>6. CASE sample.of = "broker"
        BY <3>1, <4>6, SubjectOf, BrokerStands DEF RunDecisionRules
      <4>7. CASE sample.of = "inventory"
        BY <3>1, <4>7, SubjectOf, InventoryStands DEF RunDecisionRules
      <4>8. CASE sample.of = "management"
        BY <3>1, <4>8, SubjectOf, ManagementStands DEF RunDecisionRules
      <4> QED
        BY <2>2, <4>1, <4>2, <4>3, <4>4, <4>5, <4>6, <4>7, <4>8 DEF Deciders
    <3>3. answer # "escalated"
      BY <3>1, <3>2, ConfidentStands DEF Outcome
    <3> QED
      BY <2>2, <3>3 DEF AsksForHelp
  <2> QED
    BY <2>1, <2>2
<1> QED
  BY <1>1, <1>2, <1>3, PTL DEF RulesSpec
-----------------------------------------------------------------------------
(* Who may see and open what. *)

(* The scope of a list is one that is granted, and open to the user; there  *)
(* is none only if no granted scope is.                                     *)
LEMMA Broadest ==
  ASSUME NEW a
  PROVE  \/ /\ BroadestScope(a) \in ScopeName
            /\ BroadestScope(a) \in GrantsFor(a) /\ Available(BroadestScope(a), a)
         \/ /\ BroadestScope(a) = None
            /\ \A scope \in ScopeName : ~ (scope \in GrantsFor(a) /\ Available(scope, a))
<1> DEFINE open == {i \in DOMAIN Priority : Priority[i] \in GrantsFor(a) /\ Available(Priority[i], a)}
<1>1. BroadestScope(a) = IF open = {} THEN None ELSE Priority[CHOOSE i \in open : \A j \in open : i <= j]
  BY Zenon DEF BroadestScope
<1>2. DOMAIN Priority = 1 .. 6 /\ \A i \in 1 .. 6 : Priority[i] \in ScopeName
  BY DEF Priority, ScopeName
<1>3. \A scope \in ScopeName : \E i \in 1 .. 6 : Priority[i] = scope
  <2>1. /\ Priority[1] = "company" /\ Priority[2] = "branch" /\ Priority[3] = "department"
        /\ Priority[4] = "team" /\ Priority[5] = "own" /\ Priority[6] = "broker_own"
    BY DEF Priority
  <2> QED
    BY <2>1 DEF ScopeName
<1>4. CASE open = {}
  <2>1. \A i \in 1 .. 6 : ~ (Priority[i] \in GrantsFor(a) /\ Available(Priority[i], a))
    BY <1>2, <1>4
  <2> QED
    BY <1>1, <1>3, <1>4, <2>1
<1>5. CASE open # {}
  <2>1. open \subseteq 1 .. 6
    BY <1>2
  <2>2. \E i \in open : \A j \in open : i <= j
    <3> HIDE DEF open
    <3> QED
      <4>1. open \subseteq Nat
        BY <2>1
      <4> QED
        BY <1>5, <4>1, LeastNatural
  <2> DEFINE i == CHOOSE i \in open : \A j \in open : i <= j
  <2>3. i \in open
    <3> HIDE DEF open
    <3> QED
      BY <2>2
  <2>4. BroadestScope(a) = Priority[i]
    BY <1>1, <1>5
  <2> HIDE DEF i
  <2> QED
    BY <1>2, <2>3, <2>4
<1> QED
  BY <1>4, <1>5

Facts(a) ==
  /\ a.user.userType \in {"employee", "broker_user"}
  /\ \/ a.user.employee = None
     \/ a.user.employee \in Employees
  /\ a.user.brokerCompany \in Key

LEMMA Accounted == ASSUME NEW a \in Accounts PROVE Facts(a) /\ a.granted \subseteq ScopeName
BY DEF Accounts, Users, Facts

(* What a list shows may be opened. *)
LEMMA ListedCan ==
  ASSUME NEW a, Facts(a), NEW r \in Records, Listed(a, r)
  PROVE  Can(a, r)
<1> DEFINE scope == GetListAccessScope(a)
           e == a.user.employee
<1>1. r.company = "here" /\ scope # None
  BY PermissionsAssumption DEF Listed, ScopeName
<1>2. Override(a) # "revoke"
  BY <1>1 DEF GetListAccessScope
<1>3. CASE a.user.userType = "broker_user"
  <2>1. scope = "broker_own" /\ CanAtAll(a) /\ a.user.brokerCompany # None
    BY <1>1, <1>3 DEF GetListAccessScope
  <2>2. r.brokerCompany = a.user.brokerCompany
    BY <2>1, PermissionsAssumption DEF Listed, ScopeName
  <2> QED
    BY <1>1, <1>2, <1>3, <2>1, <2>2 DEF Can, CanAtAll, SubmittedByBroker, Same
<1>4. CASE a.user.userType # "broker_user" /\ Override(a) # "grant"
  <2>1. scope = BroadestScope(a)
    BY <1>2, <1>4 DEF GetListAccessScope
  <2>2. scope \in ScopeName /\ scope \in GrantsFor(a) /\ Available(scope, a)
    <3> HIDE DEF scope
    <3> QED
      BY <1>1, <2>1, Broadest
  <2>3. ScopeAllows(scope, a, r)
    <3>1. CASE scope = "company"
      BY <1>1, <3>1 DEF ScopeAllows
    <3>2. CASE scope = "branch"
      BY <2>2, <3>2, PermissionsAssumption DEF ScopeAllows, Listed, Available, Same, ScopeName
    <3>3. CASE scope = "department"
      BY <2>2, <3>3, PermissionsAssumption DEF ScopeAllows, Listed, Available, Same, ScopeName
    <3>4. CASE scope = "team"
      BY <2>2, <3>4, PermissionsAssumption DEF ScopeAllows, Listed, Available, ScopeName
    <3>5. CASE scope = "own"
      BY <2>2, <3>5, PermissionsAssumption DEF ScopeAllows, Listed, ScopeName
    <3>6. CASE scope = "broker_own"
      BY <2>2, <3>6, PermissionsAssumption
      DEF ScopeAllows, Listed, Available, SubmittedByBroker, Same, ScopeName
    <3> QED
      BY <2>2, <3>1, <3>2, <3>3, <3>4, <3>5, <3>6 DEF ScopeName
  <2> QED
    BY <1>1, <1>2, <1>4, <2>2, <2>3 DEF Can
<1> QED
  BY <1>1, <1>2, <1>3, <1>4 DEF Can

(* An empty list of an employee leaves records submitted by the employee. *)
LEMMA EmptyList ==
  ASSUME NEW a, Facts(a), a.granted \subseteq ScopeName, a.user.userType # "broker_user",
         \A r \in Records : ~ Listed(a, r), NEW r \in Records, Can(a, r)
  PROVE  r.submitter = "me"
<1> DEFINE scope == GetListAccessScope(a)
           e == a.user.employee
<1>1. Override(a) # "revoke"
  BY DEF Can
<1>2. ASSUME scope # None PROVE FALSE
  <2>1. \/ scope = "company"
        \/ scope \in ScopeName /\ Available(scope, a)
    BY <1>1, <1>2, Broadest DEF GetListAccessScope
  <2> DEFINE branch == IF e # None THEN e.branch ELSE None
             department == IF e # None THEN e.department ELSE None
             x == [company |-> "here", owner |-> "me", branch |-> branch, department |-> department,
                   manager |-> "me", brokerCompany |-> a.user.brokerCompany, submitter |-> "other"]
  <2>2. branch \in Key /\ department \in Key /\ a.user.brokerCompany \in Key
    BY DEF Facts, Employees, Key
  <2>3. x \in Records
    BY <2>2 DEF Records, Key
  <2>4. Listed(a, x)
    <3> HIDE DEF scope
    <3>1. CASE scope = "company"
      BY <1>2, <3>1 DEF Listed, scope
    <3>2. CASE scope = "branch" /\ e # None
      BY <1>2, <3>2 DEF Listed, scope
    <3>3. CASE scope = "department" /\ e # None
      BY <1>2, <3>3 DEF Listed, scope
    <3>4. CASE scope = "team"
      BY <1>2, <3>4 DEF Listed, scope
    <3>5. CASE scope = "own"
      BY <1>2, <3>5 DEF Listed, scope
    <3>6. CASE scope = "broker_own"
      BY <1>2, <3>6 DEF Listed, scope
    <3> QED
      BY <2>1, <3>1, <3>2, <3>3, <3>4, <3>5, <3>6 DEF ScopeName, Available
  <2> HIDE DEF x
  <2> QED
    BY <2>3, <2>4
<1>3. scope = None
  BY <1>2
<1>4. Override(a) # "grant" /\ BroadestScope(a) = None
  BY <1>1, <1>3, PermissionsAssumption DEF GetListAccessScope, ScopeName
<1>5. \A s \in ScopeName : ~ (s \in GrantsFor(a) /\ Available(s, a))
  BY <1>4, Broadest, PermissionsAssumption
<1>6. PICK s \in GrantsFor(a) : ScopeAllows(s, a, r)
  BY <1>4 DEF Can
<1>7. s \in ScopeName /\ ~ Available(s, a)
  BY <1>5 DEF GrantsFor
<1> QED
  BY <1>6, <1>7 DEF ScopeName, ScopeAllows, Available, SubmittedByBroker, Same

LEMMA ListedGranted ==
  ASSUME NEW a, a.granted = {}, "grant" \notin a.overrides, NEW r, Listed(a, r)
  PROVE  FALSE
<1>1. Override(a) # "grant" /\ GrantsFor(a) = {}
  BY PermissionsAssumption DEF Override, GrantsFor
<1>2. BroadestScope(a) = None
  BY <1>1, Broadest
<1>3. ~ CanAtAll(a)
  BY <1>1 DEF CanAtAll
<1>4. GetListAccessScope(a) = None
  BY <1>1, <1>2, <1>3 DEF GetListAccessScope
<1> QED
  BY <1>4, PermissionsAssumption DEF Listed, ScopeName

Checked == /\ sample \in Accounts
           /\ answer # None => answer = {r \in Records : Listed(sample, r)}

(* A list shows no record that the same account could not open, nothing to  *)
(* an account whose roles have run out, and everything but what was         *)
(* submitted by an employee that the employee could open, or something:     *)
(* whatever roles have run out (rbac.evaluator.ts:144-149).                 *)
THEOREM ListsAreAllowed == PermissionsSpec => []ListedIsAllowed
<1>1. PermissionsInit => Checked
  BY DEF PermissionsInit, Given, Checked
<1>2. Checked /\ [CheckAccess]_sampleVars => Checked'
  BY DEF Checked, CheckAccess, Answer, sampleVars, Listed, Records
<1>3. Checked => ListedIsAllowed
  <2> SUFFICES ASSUME Checked, answer # None PROVE ListedIsAllowed
    BY DEF ListedIsAllowed, Answered
  <2>1. sample \in Accounts /\ answer = {r \in Records : Listed(sample, r)}
    BY DEF Checked
  <2>2. Facts(sample) /\ sample.granted \subseteq ScopeName
    BY <2>1, Accounted
  <2>3. \A r \in answer : Can(sample, r)
    BY <2>1, <2>2, ListedCan
  <2>4. sample.granted = {} /\ "grant" \notin sample.overrides => answer = {}
    BY <2>1, ListedGranted
  <2>5. ASSUME answer = {}, sample.user.userType # "broker_user", NEW r \in Records, Can(sample, r)
        PROVE  r.submitter = "me"
    <3>1. \A x \in Records : ~ Listed(sample, x)
      BY <2>1, <2>5
    <3> QED
      BY <2>2, <2>5, <3>1, EmptyList
  <2> QED
    BY <2>3, <2>4, <2>5 DEF ListedIsAllowed
<1> QED
  BY <1>1, <1>2, <1>3, PTL DEF PermissionsSpec
=============================================================================

-------------------------- MODULE AutomationProofs --------------------------
(***************************************************************************)
(* Proofs about Automation, for any workflow, keys, number of requests and *)
(* of restarts: its type, that a trigger creates one run, and, in the      *)
(* second half, what becomes of the steps of a run and of its approvals.   *)
(*                                                                         *)
(* OneRunPerTrigger is not inductive: Inv adds that a request about to     *)
(* create a run holds the lock of its key and that no run with that key    *)
(* exists (Creating), and that the copy a request will save has the key of *)
(* the row it overwrites (Local).  Every step of a request but the two     *)
(* around the creation leaves locks and keys alone; StepKeepsInv shows     *)
(* once that such a step keeps Inv.                                        *)
(***************************************************************************)
EXTENDS Automation, SequenceTheorems, TLAPS

(* The places of the code that share an obligation. *)
Triggering == {"lock", "create"}
Recording == {"ask", "park", "succeeded", "failed", "advance", "fail"}
Deciding == {"decide", "saveDecision", "resolve", "resume"}
Copying == Recording \cup {"step", "saveDecision", "resolve", "resume", "retry"}
Running == Copying \cup {"execute", "decide"}

(* What the request q refers to exists among the runs rs and approvals as,  *)
(* and its copy has the key of the run it was read from.                    *)
Refers(q, rs, as) ==
  /\ q.todo \subseteq DOMAIN rs
  /\ q.pc \in Triggering => q.key \in Keys
  /\ q.pc \in Running => q.run \in DOMAIN rs
  /\ q.pc \in Copying => q.copy \in RunRow /\ q.copy.key = rs[q.run].key
  /\ q.pc \in Recording => q.copy.index \in Indices
  /\ q.pc \in Deciding => q.app \in DOMAIN as /\ q.op \in {"approved", "rejected"}

Local(w) == Refers(req[w], runs, approvals)

(* A request about to create a run is alone with its key.                   *)
Creating(w) ==
  req[w].pc = "create" => keyLock[req[w].key] = w /\ RunsFor(req[w].key) = {}

(* The documents, without the requests and locks.                           *)
Documents ==
  /\ runs \in Seq(RunRow)
  /\ stepRuns \in Seq(Seq(StepRunRow)) /\ Len(stepRuns) = Len(runs)
  /\ approvals \in Seq(ApprovalRow)
  /\ effects \in Seq([Indices -> Nat]) /\ Len(effects) = Len(runs)
  /\ marks \in Marks
  /\ \A a \in DOMAIN approvals : approvals[a].run \in Runs

(* The inductive invariant.                                                 *)
Inv ==
  /\ Documents
  /\ req \in [Slots -> Request]
  /\ keyLock \in [Keys -> Slots \cup {None}]
  /\ OneRunPerTrigger
  /\ \A w \in Slots : Local(w) /\ Creating(w)

(* Rows are never deleted, and a run keeps its key.                         *)
Grow ==
  /\ \A r \in Runs : r \in Runs' /\ runs'[r].key = runs[r].key
  /\ DOMAIN approvals \subseteq DOMAIN approvals'

Others(w) == req' \in [Slots -> Request] /\ \A v \in Slots : v # w => req'[v] = req[v]

(* What the lemma of each action establishes.                               *)
Effects(w) == Documents' /\ Grow /\ Others(w) /\ Local(w)'

(* The step creates no run and does not get ready to.                       *)
Plain(w) == keyLock' = keyLock /\ Runs' = Runs /\ req'[w].pc # "create"
-----------------------------------------------------------------------------
(* The rows a sequence of S consists of.                                    *)
LEMMA Row ==
  ASSUME NEW S, NEW s \in Seq(S), NEW n \in DOMAIN s
  PROVE  s[n] \in S /\ n \in 1 .. Len(s) /\ n \in Nat
BY ElementOfSeq, LenProperties

(* What a request refers to is still there when rows have been added.       *)
LEMMA RefersStill ==
  ASSUME NEW w \in Slots, Inv, Grow, req'[w] = req[w]
  PROVE  Local(w)'
<1>1. req[w].pc \in Copying => req[w].pc \in Running
  BY DEF Copying, Running
<1> QED
  BY <1>1 DEF Inv, Local, Refers, Grow, Runs

(* A step that changes neither locks nor the set of runs keeps Inv.         *)
LEMMA StepKeepsInv ==
  ASSUME Inv, NEW w \in Slots, Effects(w), Plain(w)
  PROVE  Inv'
<1>1. req' \in [Slots -> Request] /\ keyLock' \in [Keys -> Slots \cup {None}] /\ Documents'
  BY DEF Inv, Effects, Others, Plain
<1>2. \A k \in Keys : RunsFor(k)' = RunsFor(k)
  BY DEF Effects, Plain, Grow, RunsFor, Inv, Documents
<1>3. OneRunPerTrigger'
  BY DEF Effects, Plain, Grow, OneRunPerTrigger, Inv
<1>4. ASSUME NEW v \in Slots
      PROVE  Local(v)' /\ Creating(v)'
  <2>1. CASE v = w
    BY <2>1 DEF Effects, Plain, Creating
  <2>2. CASE v # w
    <3>1. req'[v] = req[v] /\ Local(v)'
      BY <2>2, RefersStill DEF Effects, Others
    <3>2. req[v].pc = "create" => req[v].key \in Keys
      BY DEF Inv, Local, Refers, Triggering
    <3> QED
      BY <3>1, <3>2, <1>2 DEF Plain, Creating, Inv
  <2> QED
    BY <2>1, <2>2
<1> QED
  BY <1>1, <1>3, <1>4 DEF Inv

(* The save of a run.                                                       *)
LEMMA SaveRunKeeps ==
  ASSUME Inv, NEW w \in Slots, NEW STATE row, row \in RunRow, SaveRun(w, row),
         req[w].run \in Runs, row.key = runs[req[w].run].key
  PROVE  /\ runs' \in Seq(RunRow) /\ Len(runs') = Len(runs) /\ Runs' = Runs
         /\ \A r \in Runs : runs'[r].key = runs[r].key
         /\ runs'[req[w].run] = row
<1>1. runs \in Seq(RunRow) /\ req[w].run \in 1 .. Len(runs)
  BY Row DEF Inv, Documents, Runs
<1>2. runs' = [runs EXCEPT ![req[w].run] = row]
  BY DEF SaveRun
<1>3. /\ runs' \in Seq(RunRow) /\ Len(runs') = Len(runs)
      /\ \A j \in 1 .. Len(runs) : runs'[j] = IF j = req[w].run THEN row ELSE runs[j]
  BY <1>1, <1>2, ExceptSeq
<1>4. Runs = 1 .. Len(runs) /\ Runs' = 1 .. Len(runs')
  BY <1>1, <1>3, LenProperties DEF Runs
<1> QED
  BY <1>1, <1>3, <1>4

(* The save of a new step run.                                              *)
LEMMA AddStepRunKeeps ==
  ASSUME Inv, NEW w \in Slots, NEW status \in StepRunStatus, AddStepRun(w, status),
         req[w].run \in Runs, req[w].copy.index \in Indices
  PROVE  stepRuns' \in Seq(Seq(StepRunRow)) /\ Len(stepRuns') = Len(stepRuns)
<1> DEFINE rows == stepRuns[req[w].run]
           row == [step |-> req[w].copy.index, status |-> status]
<1>1. stepRuns \in Seq(Seq(StepRunRow)) /\ req[w].run \in 1 .. Len(stepRuns)
  BY Row DEF Inv, Documents, Runs
<1>2. rows \in Seq(StepRunRow) /\ row \in StepRunRow
  BY <1>1, ElementOfSeq DEF StepRunRow
<1>3. Append(rows, row) \in Seq(StepRunRow)
  BY <1>2, AppendProperties
<1>4. stepRuns' = [stepRuns EXCEPT ![req[w].run] = Append(rows, row)]
  BY DEF AddStepRun
<1> QED
  BY <1>1, <1>3, <1>4, ExceptSeq

(* A step that saves no document.                                           *)
LEMMA DocumentsStill ==
  ASSUME Inv, UNCHANGED <<runs, stepRuns, approvals, effects>>, marks' \in Marks
  PROVE  Documents' /\ Grow /\ Runs' = Runs
BY DEF Inv, Documents, Grow, Runs

(* What a request becomes.                                                  *)
LEMMA BecomeMoves ==
  ASSUME Inv, NEW w \in Slots, NEW STATE q, q \in Request, Become(w, q)
  PROVE  Others(w) /\ req'[w] = q
BY DEF Inv, Become, Others

LEMMA GotoMoves ==
  ASSUME Inv, NEW w \in Slots, NEW pc \in Pcs, Goto(w, pc)
  PROVE  Others(w) /\ req'[w] = [req[w] EXCEPT !.pc = pc]
<1>1. req[w] \in Request
  BY DEF Inv
<1>2. [req[w] EXCEPT !.pc = pc] \in Request
  BY <1>1 DEF Request
<1> QED
  BY <1>2, BecomeMoves DEF Goto

(* A request that has ended refers to nothing but the runs it has to        *)
(* recover yet.                                                             *)
LEMMA DoneMoves ==
  ASSUME Inv, NEW w \in Slots, Done(w), Grow
  PROVE  Others(w) /\ Local(w)' /\ req'[w].pc # "create"
<1> DEFINE next == [Idle EXCEPT !.op = "recover", !.pc = "recover", !.todo = req[w].todo]
           q == IF req[w].op = "recover" THEN next ELSE Idle
<1>1. req[w] \in Request /\ req[w].todo \subseteq Runs
  BY DEF Inv, Local, Refers, Runs
<1>2. Idle \in Request /\ Idle.pc = "idle" /\ Idle.todo = {}
  BY DEF Idle, Request, Ops, Pcs
<1>3. next \in Request /\ next.pc = "recover" /\ next.todo = req[w].todo
  BY <1>1 DEF Idle, Request, Ops, Pcs
<1>4. q \in Request /\ q.pc \in {"idle", "recover"} /\ q.todo \subseteq Runs
  BY <1>1, <1>2, <1>3
<1>5. Others(w) /\ req'[w] = q
  BY <1>4, BecomeMoves DEF Done
<1>6. q.todo \subseteq Runs'
  BY <1>4 DEF Grow
<1>7. req'[w].pc \in {"idle", "recover"} /\ req'[w].todo \subseteq Runs'
  BY <1>4, <1>5, <1>6
<1>8. Local(w)'
  BY <1>7 DEF Local, Refers, Runs, Triggering, Running, Copying, Recording, Deciding
<1> QED
  BY <1>5, <1>7, <1>8

(* Nothing exists, and nobody is at work.                                   *)
LEMMA Inits == Init => Inv
<1> SUFFICES ASSUME Init PROVE Inv
  OBVIOUS
<1>1. Idle \in Request /\ Idle.pc = "idle" /\ Idle.todo = {}
  BY DEF Idle, Request, Ops, Pcs
<1>2. Documents
  <2>1. <<>> \in Seq(RunRow) /\ <<>> \in Seq(Seq(StepRunRow)) /\ <<>> \in Seq(ApprovalRow)
          /\ <<>> \in Seq([Indices -> Nat]) /\ Len(<<>>) = 0 /\ DOMAIN <<>> = {}
    BY EmptySeq
  <2>2. marks \in Marks
    BY DEF Init, Marks
  <2> QED
    BY <2>1, <2>2 DEF Init, Documents
<1>3. req \in [Slots -> Request] /\ keyLock \in [Keys -> Slots \cup {None}]
  BY <1>1 DEF Init
<1>4. OneRunPerTrigger
  BY DEF Init, OneRunPerTrigger, Runs
<1>5. \A w \in Slots : Local(w) /\ Creating(w)
  BY <1>1 DEF Init, Local, Creating, Refers, Triggering, Running, Copying, Recording, Deciding
<1> QED
  BY <1>2, <1>3, <1>4, <1>5 DEF Inv
-----------------------------------------------------------------------------
(* Each step of a request, but the two around the creation of a run.        *)

LEMMA TriggerEffects ==
  ASSUME Inv, NEW w \in Slots, NEW k \in Keys, Trigger(w, k)
  PROVE  Effects(w) /\ Plain(w)
<1> DEFINE q == [Idle EXCEPT !.op = "trigger", !.pc = "lock", !.key = k]
<1>1. q \in Request /\ q.pc = "lock" /\ q.key = k /\ q.todo = {}
  BY DEF Idle, Request, Ops, Pcs
<1>2. Others(w) /\ req'[w] = q
  BY <1>1, BecomeMoves DEF Trigger
<1>3. Documents' /\ Grow /\ Runs' = Runs
  BY DocumentsStill DEF Trigger, Inv, Documents
<1>4. Local(w)'
  BY <1>1, <1>2 DEF Local, Refers, Running, Copying, Recording, Deciding
<1> QED
  BY <1>1, <1>2, <1>3, <1>4 DEF Effects, Plain, Trigger

LEMMA ExecuteEffects ==
  ASSUME Inv, NEW w \in Slots, Execute(w)
  PROVE  Effects(w) /\ Plain(w)
<1> DEFINE q == [req[w] EXCEPT !.pc = "step", !.copy = runs[req[w].run]]
<1>1. Documents' /\ Grow /\ Runs' = Runs /\ keyLock' = keyLock
  BY DocumentsStill DEF Execute, Inv, Documents
<1>2. CASE Done(w)
  BY <1>1, <1>2, DoneMoves DEF Effects, Plain
<1>3. CASE Become(w, q)
  <2>1. req[w] \in Request /\ req[w].run \in Runs /\ req[w].todo \subseteq Runs
    BY DEF Inv, Local, Refers, Running, Execute, Runs
  <2>2. runs[req[w].run] \in RunRow
    BY <2>1, Row DEF Inv, Documents, Runs
  <2>3. /\ q \in Request /\ q.pc = "step" /\ q.copy = runs[req[w].run]
        /\ q.run = req[w].run /\ q.todo = req[w].todo
    BY <2>1, <2>2 DEF Request, Pcs
  <2>4. Others(w) /\ req'[w] = q
    BY <1>3, <2>3, BecomeMoves
  <2>5. runs' = runs
    BY DEF Execute
  <2>6. Local(w)'
    BY <2>1, <2>2, <2>3, <2>4, <2>5 DEF Local, Refers, Runs, Triggering, Recording, Deciding
  <2> QED
    BY <1>1, <2>3, <2>4, <2>6 DEF Effects, Plain
<1> QED
  BY <1>2, <1>3 DEF Execute

(* The step run of the step at hand is saved, and the request goes on.      *)
LEMMA RecordEffects ==
  ASSUME Inv, NEW w \in Slots, NEW status \in StepRunStatus, AddStepRun(w, status),
         NEW pc \in Recording, Others(w),
         req'[w] = [req[w] EXCEPT !.pc = pc] \/ req'[w] = [req[w] EXCEPT !.pc = pc, !.tries = 0],
         req[w].pc \in Copying, req[w].copy.index \in Indices,
         UNCHANGED <<runs, approvals, keyLock, effects, marks>>
  PROVE  Effects(w) /\ Plain(w)
<1>1. /\ req[w] \in Request /\ req[w].run \in Runs /\ req[w].todo \subseteq Runs
      /\ req[w].copy \in RunRow /\ req[w].copy.key = runs[req[w].run].key
  BY DEF Inv, Local, Refers, Running, Runs
<1>2. Documents'
  BY <1>1, AddStepRunKeeps DEF Inv, Documents, Runs
<1>3. /\ req'[w].pc = pc /\ req'[w].run = req[w].run /\ req'[w].copy = req[w].copy
      /\ req'[w].todo = req[w].todo
  BY <1>1 DEF Request
<1>4. Local(w)'
  BY <1>1, <1>3 DEF Local, Refers, Runs, Triggering, Recording, Deciding
<1> QED
  BY <1>2, <1>3, <1>4 DEF Effects, Plain, Grow, Runs, Recording

LEMMA SkipStepEffects ==
  ASSUME Inv, NEW w \in Slots, SkipStep(w)
  PROVE  Effects(w) /\ Plain(w)
<1>1. req[w].pc = "step" /\ req[w].copy.index \in Indices
  BY DEF SkipStep, AtStep
<1>2. Others(w) /\ req'[w] = [req[w] EXCEPT !.pc = "advance"]
  BY GotoMoves DEF SkipStep, Pcs
<1> QED
  BY <1>1, <1>2, RecordEffects DEF SkipStep, Copying, Recording, StepRunStatus

LEMMA ReachGateEffects ==
  ASSUME Inv, NEW w \in Slots, ReachGate(w)
  PROVE  Effects(w) /\ Plain(w)
<1>1. req[w].pc = "step" /\ req[w].copy.index \in Indices
  BY DEF ReachGate, AtStep
<1>2. Others(w) /\ req'[w] = [req[w] EXCEPT !.pc = "ask"]
  BY GotoMoves DEF ReachGate, Pcs
<1> QED
  BY <1>1, <1>2, RecordEffects DEF ReachGate, Copying, Recording, StepRunStatus

LEMMA RecordSuccessEffects ==
  ASSUME Inv, NEW w \in Slots, RecordSuccess(w)
  PROVE  Effects(w) /\ Plain(w)
<1> DEFINE q == [req[w] EXCEPT !.pc = "advance", !.tries = 0]
<1>1. req[w].pc = "succeeded" /\ req[w].copy.index \in Indices /\ req[w] \in Request
  BY DEF RecordSuccess, Inv, Local, Refers, Recording
<1>2. q \in Request
  BY <1>1 DEF Request, Pcs
<1>3. Others(w) /\ req'[w] = q
  BY <1>2, BecomeMoves DEF RecordSuccess
<1> QED
  BY <1>1, <1>3, RecordEffects DEF RecordSuccess, Copying, Recording, StepRunStatus

LEMMA RecordFailureEffects ==
  ASSUME Inv, NEW w \in Slots, RecordFailure(w)
  PROVE  Effects(w) /\ Plain(w)
<1>1. req[w].pc = "failed" /\ req[w].copy.index \in Indices
  BY DEF RecordFailure, Inv, Local, Refers, Recording
<1>2. PICK pc \in {"fail", "advance"} : Goto(w, pc)
  BY DEF RecordFailure
<1>3. Others(w) /\ req'[w] = [req[w] EXCEPT !.pc = pc]
  BY <1>2, GotoMoves DEF Pcs
<1> QED
  BY <1>1, <1>3, RecordEffects DEF RecordFailure, Copying, Recording, StepRunStatus

(* The run is saved with the key of the copy.                               *)
LEMMA SaveEffects ==
  ASSUME Inv, NEW w \in Slots, NEW STATE row, row \in RunRow, SaveRun(w, row),
         req[w].pc \in Copying, row.key = req[w].copy.key,
         UNCHANGED <<stepRuns, approvals, effects, marks>>
  PROVE  /\ Documents' /\ Grow /\ Runs' = Runs
         /\ req[w].run \in Runs' /\ runs'[req[w].run] = row
<1>1. req[w].run \in Runs /\ row.key = runs[req[w].run].key
  BY DEF Inv, Local, Refers, Running, Runs
<1>2. /\ runs' \in Seq(RunRow) /\ Len(runs') = Len(runs) /\ Runs' = Runs
      /\ \A r \in Runs : runs'[r].key = runs[r].key
      /\ runs'[req[w].run] = row
  BY <1>1, SaveRunKeeps
<1> QED
  BY <1>1, <1>2 DEF Inv, Documents, Grow

(* The run is saved, and the request ends.                                  *)
LEMMA SaveAndEnd ==
  ASSUME Inv, NEW w \in Slots, NEW status \in RunStatus,
         SaveRun(w, [req[w].copy EXCEPT !.status = status]), Done(w),
         req[w].pc \in Copying, UNCHANGED <<stepRuns, approvals, keyLock, effects, marks>>
  PROVE  Effects(w) /\ Plain(w)
<1> DEFINE row == [req[w].copy EXCEPT !.status = status]
<1>1. req[w].copy \in RunRow
  BY DEF Inv, Local, Refers
<1>2. row \in RunRow /\ row.key = req[w].copy.key
  BY <1>1 DEF RunRow
<1>3. Documents' /\ Grow /\ Runs' = Runs
  BY <1>2, SaveEffects
<1> QED
  BY <1>3, DoneMoves DEF Effects, Plain

(* The run is saved, and the request goes on with the row saved.            *)
LEMMA SaveAndGoOn ==
  ASSUME Inv, NEW w \in Slots, NEW STATE row, row \in RunRow, SaveRun(w, row),
         req[w].pc \in Copying, row.key = req[w].copy.key,
         UNCHANGED <<stepRuns, approvals, keyLock, effects, marks>>,
         Others(w), req'[w].run = req[w].run, req'[w].todo = req[w].todo,
         req'[w].pc = "execute" \/ (req'[w].pc = "step" /\ req'[w].copy = row)
  PROVE  Effects(w) /\ Plain(w)
<1>1. /\ Documents' /\ Grow /\ Runs' = Runs
      /\ req[w].run \in Runs' /\ runs'[req[w].run] = row
  BY SaveEffects
<1>2. req[w].todo \subseteq Runs
  BY DEF Inv, Local, Refers, Runs
<1>3. Local(w)'
  BY <1>1, <1>2 DEF Local, Refers, Runs, Triggering, Copying, Recording, Deciding
<1> QED
  BY <1>1, <1>3 DEF Effects, Plain

LEMMA ParkEffects ==
  ASSUME Inv, NEW w \in Slots, Park(w)
  PROVE  Effects(w) /\ Plain(w)
BY SaveAndEnd DEF Park, Copying, Recording, RunStatus

LEMMA FailEffects ==
  ASSUME Inv, NEW w \in Slots, Fail(w)
  PROVE  Effects(w) /\ Plain(w)
BY SaveAndEnd DEF Fail, Copying, Recording, RunStatus

LEMMA CompleteEffects ==
  ASSUME Inv, NEW w \in Slots, Complete(w)
  PROVE  Effects(w) /\ Plain(w)
BY SaveAndEnd DEF Complete, Copying, RunStatus

LEMMA AdvanceEffects ==
  ASSUME Inv, NEW w \in Slots, Advance(w)
  PROVE  Effects(w) /\ Plain(w)
<1> DEFINE row == [req[w].copy EXCEPT !.index = @ + 1]
           q == [req[w] EXCEPT !.pc = "step", !.copy = row]
<1>1. req[w] \in Request /\ req[w].pc \in Copying /\ req[w].copy \in RunRow
  BY DEF Inv, Local, Refers, Advance, Copying, Recording
<1>2. row \in RunRow /\ row.key = req[w].copy.key
  BY <1>1 DEF RunRow
<1>3. /\ q \in Request /\ q.pc = "step" /\ q.copy = row /\ q.run = req[w].run
      /\ q.todo = req[w].todo
  BY <1>1, <1>2 DEF Request, Pcs
<1>4. Others(w) /\ req'[w] = q
  BY <1>3, BecomeMoves DEF Advance
<1> QED
  BY <1>1, <1>2, <1>3, <1>4, SaveAndGoOn DEF Advance

LEMMA SaveRetryEffects ==
  ASSUME Inv, NEW w \in Slots, SaveRetry(w)
  PROVE  Effects(w) /\ Plain(w)
<1>1. req[w] \in Request /\ req[w].pc \in Copying /\ req[w].copy \in RunRow
  BY DEF Inv, Local, Refers, SaveRetry, Copying
<1>2. Revived(req[w].copy) \in RunRow /\ Revived(req[w].copy).key = req[w].copy.key
  BY <1>1 DEF Revived, RunRow, RunStatus
<1>3. Others(w) /\ req'[w] = [req[w] EXCEPT !.pc = "execute"]
  BY GotoMoves DEF SaveRetry, Pcs
<1>4. req'[w].pc = "execute" /\ req'[w].run = req[w].run /\ req'[w].todo = req[w].todo
  BY <1>1, <1>3 DEF Request
<1> QED
  BY <1>1, <1>2, <1>3, <1>4, SaveAndGoOn DEF SaveRetry

(* The row an approval saves is a row of the same key.                      *)
LEMMA ResumedRow ==
  ASSUME NEW copy \in RunRow
  PROVE  Resumed(copy) \in RunRow /\ Resumed(copy).key = copy.key
<1>1. copy.index + 1 \in Nat /\ "running" \in RunStatus
  BY DEF RunRow, RunStatus
<1> QED
  BY <1>1 DEF Resumed, RunRow

LEMMA ResumeEffects ==
  ASSUME Inv, NEW w \in Slots, Resume(w)
  PROVE  Effects(w) /\ Plain(w)
<1>1. req[w] \in Request /\ req[w].pc \in Copying /\ req[w].copy \in RunRow
  BY DEF Inv, Local, Refers, Resume, Copying
<1>2. CASE req[w].op = "approved"
  <2>1. /\ SaveRun(w, Resumed(req[w].copy)) /\ Goto(w, "execute")
        /\ UNCHANGED <<stepRuns, approvals, keyLock, effects, marks>>
    BY <1>2 DEF Resume
  <2>2. Resumed(req[w].copy) \in RunRow /\ Resumed(req[w].copy).key = req[w].copy.key
    BY <1>1, ResumedRow
  <2>3. Others(w) /\ req'[w] = [req[w] EXCEPT !.pc = "execute"]
    BY <2>1, GotoMoves DEF Pcs
  <2>4. req'[w].pc = "execute" /\ req'[w].run = req[w].run /\ req'[w].todo = req[w].todo
    BY <1>1, <2>3 DEF Request
  <2> QED
    BY <1>1, <2>1, <2>2, <2>3, <2>4, SaveAndGoOn
<1>3. CASE req[w].op # "approved"
  BY <1>1, <1>3, SaveAndEnd DEF Resume, RunStatus
<1> QED
  BY <1>2, <1>3

LEMMA AskEffects ==
  ASSUME Inv, NEW w \in Slots, Ask(w)
  PROVE  Effects(w) /\ Plain(w)
<1> DEFINE row == [run |-> req[w].run, step |-> req[w].copy.index, status |-> "pending"]
<1>1. /\ req[w] \in Request /\ req[w].run \in Runs /\ req[w].todo \subseteq Runs
      /\ req[w].copy \in RunRow /\ req[w].copy.key = runs[req[w].run].key
      /\ req[w].copy.index \in Indices
  BY DEF Inv, Local, Refers, Ask, Runs, Running, Copying, Recording
<1>2. row \in ApprovalRow
  BY <1>1 DEF ApprovalRow, Request
<1>3. approvals \in Seq(ApprovalRow) /\ approvals' = Append(approvals, row)
  BY DEF Ask, Inv, Documents
<1>4. /\ approvals' \in Seq(ApprovalRow) /\ Len(approvals') = Len(approvals) + 1
      /\ \A a \in 1 .. Len(approvals) : approvals'[a] = approvals[a]
      /\ approvals'[Len(approvals) + 1] = row
  BY <1>2, <1>3, AppendProperties
<1>5. /\ DOMAIN approvals = 1 .. Len(approvals) /\ Len(approvals) \in Nat
      /\ DOMAIN approvals' = 1 .. (Len(approvals) + 1)
  BY <1>3, <1>4, LenProperties
<1>6. \A a \in DOMAIN approvals' : approvals'[a].run \in Runs
  <2>1. ASSUME NEW a \in DOMAIN approvals' PROVE approvals'[a].run \in Runs
    <3>1. CASE a \in 1 .. Len(approvals)
      BY <3>1, <1>4, <1>5 DEF Inv, Documents
    <3>2. CASE a = Len(approvals) + 1
      BY <3>2, <1>4, <1>1
    <3> QED
      BY <2>1, <3>1, <3>2, <1>5
  <2> QED
    BY <2>1
<1>7. Documents' /\ Grow /\ Runs' = Runs
  BY <1>4, <1>5, <1>6 DEF Ask, Inv, Documents, Grow, Runs
<1>8. Others(w) /\ req'[w] = [req[w] EXCEPT !.pc = "park"]
  BY GotoMoves DEF Ask, Pcs
<1>9. /\ req'[w].pc = "park" /\ req'[w].run = req[w].run /\ req'[w].copy = req[w].copy
      /\ req'[w].todo = req[w].todo
  BY <1>1, <1>8 DEF Request
<1>10. Local(w)'
  BY <1>1, <1>9 DEF Ask, Local, Refers, Runs, Triggering, Deciding
<1> QED
  BY <1>7, <1>8, <1>9, <1>10 DEF Effects, Plain, Ask

(* The request stays with its run and its copy.                             *)
LEMMA KeepsCopy ==
  ASSUME Inv, NEW w \in Slots, req[w].pc \in Copying, req[w].copy.index \in Indices,
         UNCHANGED runs, req'[w].pc \in Recording \cup {"step"}, req'[w].run = req[w].run,
         req'[w].copy = req[w].copy, req'[w].todo = req[w].todo
  PROVE  Local(w)' /\ req'[w].pc # "create"
BY DEF Inv, Local, Refers, Runs, Triggering, Running, Copying, Recording, Deciding

LEMMA ActionSucceedsEffects ==
  ASSUME Inv, NEW w \in Slots, ActionSucceeds(w)
  PROVE  Effects(w) /\ Plain(w)
<1>1. PICK i \in Indices :
        Attempting(w, i) /\ effects' = [effects EXCEPT ![req[w].run][i] = @ + 1]
  BY DEF ActionSucceeds
<1>2. /\ req[w] \in Request /\ req[w].run \in Runs
      /\ req[w].pc = "step" /\ req[w].copy.index \in Indices
  BY <1>1 DEF Inv, Local, Refers, Attempting, AtStep, Runs, Running, Copying
<1>3. /\ effects \in Seq([Indices -> Nat]) /\ req[w].run \in 1 .. Len(effects)
  BY <1>2, Row DEF Inv, Documents, Runs
<1> DEFINE counts == [effects[req[w].run] EXCEPT ![i] = @ + 1]
<1>4. counts \in [Indices -> Nat] /\ effects' = [effects EXCEPT ![req[w].run] = counts]
  <2>1. effects[req[w].run] \in [Indices -> Nat]
    BY <1>3, ElementOfSeq
  <2> QED
    BY <1>1, <2>1
<1>5. effects' \in Seq([Indices -> Nat]) /\ Len(effects') = Len(effects)
  BY <1>3, <1>4, ExceptSeq
<1>6. Documents' /\ Grow /\ Runs' = Runs
  BY <1>5 DEF ActionSucceeds, Inv, Documents, Grow, Runs
<1>7. Others(w) /\ req'[w] = [req[w] EXCEPT !.pc = "succeeded"]
  BY GotoMoves DEF ActionSucceeds, Pcs
<1>8. /\ req'[w].pc = "succeeded" /\ req'[w].run = req[w].run
      /\ req'[w].copy = req[w].copy /\ req'[w].todo = req[w].todo
  BY <1>2, <1>7 DEF Request
<1>9. Local(w)'
  BY <1>2, <1>8, KeepsCopy DEF ActionSucceeds, Copying, Recording
<1> QED
  BY <1>6, <1>7, <1>8, <1>9 DEF Effects, Plain, ActionSucceeds

LEMMA ActionFailsEffects ==
  ASSUME Inv, NEW w \in Slots, ActionFails(w)
  PROVE  Effects(w) /\ Plain(w)
<1> DEFINE again == [req[w] EXCEPT !.tries = @ + 1]
           failed == [req[w] EXCEPT !.pc = "failed", !.tries = 0]
<1>1. req[w] \in Request /\ req[w].pc = "step" /\ req[w].copy.index \in Indices
  BY DEF ActionFails, Attempting, AtStep, Inv
<1>2. /\ again \in Request /\ again.pc = "step" /\ again.run = req[w].run
      /\ again.copy = req[w].copy /\ again.todo = req[w].todo
  BY <1>1 DEF Request
<1>3. /\ failed \in Request /\ failed.pc = "failed" /\ failed.run = req[w].run
      /\ failed.copy = req[w].copy /\ failed.todo = req[w].todo
  BY <1>1 DEF Request, Pcs
<1>4. Become(w, again) \/ Become(w, failed)
  BY DEF ActionFails
<1>5. Others(w) /\ (req'[w] = again \/ req'[w] = failed)
  BY <1>2, <1>3, <1>4, BecomeMoves
<1>6. Documents' /\ Grow /\ Runs' = Runs
  BY DocumentsStill DEF ActionFails, Inv, Documents
<1>7. Local(w)' /\ req'[w].pc # "create"
  BY <1>1, <1>2, <1>3, <1>5, KeepsCopy DEF ActionFails, Copying, Recording
<1> QED
  BY <1>5, <1>6, <1>7 DEF Effects, Plain, ActionFails

(* A decision or a retry starts, and is noted.                              *)
LEMMA NoteHasteTyped ==
  ASSUME Inv, NEW r \in Runs, NoteHaste(r)
  PROVE  marks' \in Marks
<1>1. marks \in Marks /\ r \in Nat
  BY Row DEF Inv, Documents, Runs
<1> QED
  BY <1>1 DEF NoteHaste, Marks

LEMMA StartDecideEffects ==
  ASSUME Inv, NEW w \in Slots, NEW a \in DOMAIN approvals,
         NEW verdict \in {"approved", "rejected"}, StartDecide(w, a, verdict)
  PROVE  Effects(w) /\ Plain(w)
<1> DEFINE q == [Idle EXCEPT !.op = verdict, !.pc = "decide", !.app = a,
                             !.run = approvals[a].run]
<1>1. a \in Nat /\ approvals[a].run \in Runs /\ approvals[a].run \in Nat
  BY Row DEF Inv, Documents, Runs
<1>2. /\ q \in Request /\ q.pc = "decide" /\ q.op = verdict /\ q.app = a
      /\ q.run = approvals[a].run /\ q.todo = {}
  BY <1>1 DEF Idle, Request, Ops, Pcs
<1>3. Others(w) /\ req'[w] = q
  BY <1>2, BecomeMoves DEF StartDecide
<1>4. Documents' /\ Grow /\ Runs' = Runs
  BY <1>1, NoteHasteTyped, DocumentsStill DEF StartDecide
<1>5. Local(w)'
  BY <1>1, <1>2, <1>3 DEF StartDecide, Local, Refers, Runs, Triggering, Copying, Recording
<1> QED
  BY <1>2, <1>3, <1>4, <1>5 DEF Effects, Plain, StartDecide

LEMMA StartRetryEffects ==
  ASSUME Inv, NEW w \in Slots, NEW r \in Runs, StartRetry(w, r)
  PROVE  Effects(w) /\ Plain(w)
<1> DEFINE q == [Idle EXCEPT !.op = "retry", !.pc = "retry", !.run = r, !.copy = runs[r]]
<1>1. r \in Nat /\ runs[r] \in RunRow
  BY Row DEF Inv, Documents, Runs
<1>2. q \in Request /\ q.pc = "retry" /\ q.run = r /\ q.copy = runs[r] /\ q.todo = {}
  BY <1>1 DEF Idle, Request, Ops, Pcs
<1>3. Others(w) /\ req'[w] = q
  BY <1>2, BecomeMoves DEF StartRetry
<1>4. Documents' /\ Grow /\ Runs' = Runs
  BY NoteHasteTyped, DocumentsStill DEF StartRetry
<1>5. Local(w)'
  BY <1>1, <1>2, <1>3 DEF StartRetry, Local, Refers, Runs, Triggering, Recording, Deciding
<1> QED
  BY <1>2, <1>3, <1>4, <1>5 DEF Effects, Plain, StartRetry

LEMMA ReadDecidedEffects ==
  ASSUME Inv, NEW w \in Slots, ReadDecided(w)
  PROVE  Effects(w) /\ Plain(w)
<1> DEFINE q == [req[w] EXCEPT !.pc = "saveDecision", !.copy = runs[req[w].run]]
<1>1. /\ req[w] \in Request /\ req[w].run \in Runs /\ req[w].todo \subseteq Runs
      /\ req[w].app \in DOMAIN approvals /\ req[w].op \in {"approved", "rejected"}
  BY DEF Inv, Local, Refers, Runs, ReadDecided, Running, Deciding
<1>2. runs[req[w].run] \in RunRow
  BY <1>1, Row DEF Inv, Documents, Runs
<1>3. /\ q \in Request /\ q.pc = "saveDecision" /\ q.copy = runs[req[w].run]
      /\ q.run = req[w].run /\ q.todo = req[w].todo /\ q.app = req[w].app /\ q.op = req[w].op
  BY <1>1, <1>2 DEF Request, Pcs
<1>4. Others(w) /\ req'[w] = q
  BY <1>3, BecomeMoves DEF ReadDecided
<1>5. Documents' /\ Grow /\ Runs' = Runs
  BY DocumentsStill DEF ReadDecided, Inv, Documents
<1>6. runs' = runs /\ approvals' = approvals
  BY DEF ReadDecided
<1>7. Local(w)'
  BY <1>1, <1>2, <1>3, <1>4, <1>6 DEF Local, Refers, Runs, Triggering, Recording
<1> QED
  BY <1>3, <1>4, <1>5, <1>7 DEF Effects, Plain, ReadDecided

(* A decision goes on to its next save.                                     *)
LEMMA DecisionGoesOn ==
  ASSUME Inv, NEW w \in Slots, NEW pc \in {"resolve", "resume"}, Goto(w, pc),
         req[w].pc \in {"saveDecision", "resolve"}, Documents', Grow,
         UNCHANGED <<runs, keyLock>>
  PROVE  Effects(w) /\ Plain(w)
<1>1. /\ req[w] \in Request /\ req[w].run \in Runs /\ req[w].todo \subseteq Runs
      /\ req[w].copy \in RunRow /\ req[w].copy.key = runs[req[w].run].key
      /\ req[w].app \in DOMAIN approvals /\ req[w].op \in {"approved", "rejected"}
  BY DEF Inv, Local, Refers, Runs, Running, Copying, Deciding
<1>2. Others(w) /\ req'[w] = [req[w] EXCEPT !.pc = pc]
  BY GotoMoves DEF Pcs
<1>3. /\ req'[w].pc = pc /\ req'[w].run = req[w].run /\ req'[w].copy = req[w].copy
      /\ req'[w].todo = req[w].todo /\ req'[w].app = req[w].app /\ req'[w].op = req[w].op
  BY <1>1, <1>2 DEF Request
<1>4. Local(w)'
  BY <1>1, <1>3 DEF Grow, Local, Refers, Runs, Triggering, Recording
<1> QED
  BY <1>2, <1>3, <1>4 DEF Effects, Plain, Runs

LEMMA SaveDecisionEffects ==
  ASSUME Inv, NEW w \in Slots, SaveDecision(w)
  PROVE  Effects(w) /\ Plain(w)
<1> DEFINE a == req[w].app
           row == [approvals[a] EXCEPT !.status = req[w].op]
<1>1. a \in DOMAIN approvals /\ req[w].op \in {"approved", "rejected"}
  BY DEF Inv, Local, Refers, SaveDecision, Deciding
<1>2. /\ approvals \in Seq(ApprovalRow) /\ approvals[a] \in ApprovalRow
      /\ a \in 1 .. Len(approvals) /\ DOMAIN approvals = 1 .. Len(approvals)
  BY <1>1, Row, LenProperties DEF Inv, Documents
<1>3. row \in ApprovalRow /\ row.run = approvals[a].run
  BY <1>1, <1>2 DEF ApprovalRow
<1>4. approvals' = [approvals EXCEPT ![a] = row]
  BY DEF SaveDecision
<1>5. /\ approvals' \in Seq(ApprovalRow) /\ Len(approvals') = Len(approvals)
      /\ \A b \in 1 .. Len(approvals) : approvals'[b] = IF b = a THEN row ELSE approvals[b]
  BY <1>2, <1>3, <1>4, ExceptSeq
<1>6. DOMAIN approvals' = DOMAIN approvals
  BY <1>2, <1>5, LenProperties
<1>7. Documents' /\ Grow
  BY <1>2, <1>3, <1>5, <1>6 DEF SaveDecision, Inv, Documents, Grow, Runs
<1> QED
  BY <1>7, DecisionGoesOn DEF SaveDecision

LEMMA ResolveEffects ==
  ASSUME Inv, NEW w \in Slots, Resolve(w)
  PROVE  Effects(w) /\ Plain(w)
<1>1. req[w].run \in Runs
  BY DEF Inv, Local, Refers, Runs, Resolve, Running, Copying
<1>2. /\ stepRuns \in Seq(Seq(StepRunRow)) /\ req[w].run \in 1 .. Len(stepRuns)
      /\ stepRuns[req[w].run] \in Seq(StepRunRow)
  BY <1>1, Row, ElementOfSeq DEF Inv, Documents, Runs
<1>3. stepRuns' \in Seq(Seq(StepRunRow)) /\ Len(stepRuns') = Len(stepRuns)
  <2>1. CASE UNCHANGED stepRuns
    BY <2>1, <1>2
  <2>2. CASE \E n \in Waiting(w) :
               stepRuns' = [stepRuns EXCEPT ![req[w].run][n].status = Outcome(w)]
    <3>1. PICK n \in Waiting(w) :
            stepRuns' = [stepRuns EXCEPT ![req[w].run][n].status = Outcome(w)]
      BY <2>2
    <3> DEFINE rows == stepRuns[req[w].run]
               row == [rows[n] EXCEPT !.status = Outcome(w)]
    <3>2. n \in 1 .. Len(rows) /\ rows[n] \in StepRunRow
      BY <3>1, <1>2, Row DEF Waiting
    <3>3. row \in StepRunRow
      BY <3>2 DEF Outcome, StepRunRow, StepRunStatus
    <3>4. [rows EXCEPT ![n] = row] \in Seq(StepRunRow)
      BY <1>2, <3>2, <3>3, ExceptSeq
    <3>5. stepRuns' = [stepRuns EXCEPT ![req[w].run] = [rows EXCEPT ![n] = row]]
      BY <3>1
    <3> QED
      BY <1>2, <3>4, <3>5, ExceptSeq
  <2> QED
    BY <2>1, <2>2 DEF Resolve
<1>4. Documents' /\ Grow
  BY <1>3 DEF Resolve, Inv, Documents, Grow, Runs
<1> QED
  BY <1>4, DecisionGoesOn DEF Resolve

LEMMA RecoverNextEffects ==
  ASSUME Inv, NEW w \in Slots, NEW r \in Runs, RecoverNext(w, r)
  PROVE  Effects(w) /\ Plain(w)
<1> DEFINE q == [req[w] EXCEPT !.pc = "execute", !.run = r, !.todo = @ \ {r}]
<1>1. req[w] \in Request /\ req[w].todo \subseteq Runs /\ r \in Nat
  BY Row DEF Inv, Documents, Local, Refers, Runs
<1>2. q \in Request /\ q.pc = "execute" /\ q.run = r /\ q.todo \subseteq Runs
  BY <1>1 DEF Request, Pcs
<1>3. Others(w) /\ req'[w] = q
  BY <1>2, BecomeMoves DEF RecoverNext
<1>4. Documents' /\ Grow /\ Runs' = Runs
  BY DocumentsStill DEF RecoverNext, Inv, Documents
<1>5. Local(w)'
  BY <1>2, <1>3, <1>4 DEF Local, Refers, Runs, Triggering, Copying, Recording, Deciding
<1> QED
  BY <1>2, <1>3, <1>4, <1>5 DEF Effects, Plain, RecoverNext

LEMMA RecoverEndEffects ==
  ASSUME Inv, NEW w \in Slots, RecoverEnd(w)
  PROVE  Effects(w) /\ Plain(w)
<1>1. Idle \in Request /\ Idle.pc = "idle" /\ Idle.todo = {}
  BY DEF Idle, Request, Ops, Pcs
<1>2. Others(w) /\ req'[w] = Idle
  BY <1>1, BecomeMoves DEF RecoverEnd
<1>3. Documents' /\ Grow /\ Runs' = Runs
  BY DocumentsStill DEF RecoverEnd, Inv, Documents
<1>4. Local(w)'
  BY <1>1, <1>2 DEF Local, Refers, Triggering, Running, Copying, Recording, Deciding
<1> QED
  BY <1>1, <1>2, <1>3, <1>4 DEF Effects, Plain, RecoverEnd
-----------------------------------------------------------------------------
(* A trigger finds the key free and no run for it: it is alone with the key. *)
LEMMA FindExistingKeepsInv ==
  ASSUME Inv, NEW w \in Slots, FindExisting(w)
  PROVE  Inv'
<1> DEFINE k == req[w].key
<1>1. Documents' /\ Grow /\ Runs' = Runs
  BY DocumentsStill DEF FindExisting, Inv, Documents
<1>2. CASE Done(w) /\ UNCHANGED keyLock
  BY <1>1, <1>2, DoneMoves, StepKeepsInv DEF Effects, Plain
<1>3. CASE RunsFor(k) = {} /\ Goto(w, "create") /\ keyLock' = [keyLock EXCEPT ![k] = w]
  <2>1. req[w] \in Request /\ k \in Keys /\ keyLock[k] = None /\ req[w].todo \subseteq Runs
    BY DEF FindExisting, Free, Inv, Local, Refers, Triggering, Runs
  <2>2. Others(w) /\ req'[w] = [req[w] EXCEPT !.pc = "create"]
    BY <1>3, GotoMoves DEF Pcs
  <2>3. req'[w].pc = "create" /\ req'[w].key = k /\ req'[w].todo = req[w].todo
    BY <2>1, <2>2 DEF Request
  <2>4. \A j \in Keys : RunsFor(j)' = RunsFor(j)
    BY DEF FindExisting, RunsFor, Runs
  <2>5. /\ keyLock' \in [Keys -> Slots \cup {None}] /\ keyLock'[k] = w
        /\ \A j \in Keys : j # k => keyLock'[j] = keyLock[j]
    BY <1>3, <2>1 DEF Inv
  <2>6. OneRunPerTrigger'
    BY DEF FindExisting, OneRunPerTrigger, Runs, Inv
  <2>7. ASSUME NEW v \in Slots
        PROVE  Local(v)' /\ Creating(v)'
    <3>1. CASE v = w
      <4>1. Local(v)'
        BY <3>1, <2>1, <2>3, <1>1
           DEF Local, Refers, Runs, Triggering, Running, Copying, Recording, Deciding
      <4> QED
        BY <3>1, <4>1, <1>3, <2>1, <2>3, <2>4, <2>5 DEF Creating
    <3>2. CASE v # w
      <4>1. req'[v] = req[v] /\ Local(v)'
        BY <3>2, <2>2, <1>1, RefersStill DEF Others
      <4>2. req[v].pc = "create" => req[v].key \in Keys \ {k}
        BY <2>1, NoneAssumption DEF Inv, Local, Refers, Creating, Triggering
      <4> QED
        BY <4>1, <4>2, <2>4, <2>5 DEF Creating, Inv
    <3> QED
      BY <3>1, <3>2
  <2> QED
    BY <1>1, <2>2, <2>5, <2>6, <2>7 DEF Inv, Others
<1> QED
  BY <1>2, <1>3 DEF FindExisting

(* The run created is the first with its key, and the lock is released.     *)
LEMMA CreateRunKeepsInv ==
  ASSUME Inv, NEW w \in Slots, CreateRun(w)
  PROVE  Inv'
<1> DEFINE k == req[w].key
           row == [key |-> k, status |-> "running", index |-> 1]
           zero == [i \in Indices |-> 0]
           n == Len(runs) + 1
           q == [req[w] EXCEPT !.pc = "execute", !.run = n]
<1>1. /\ req[w] \in Request /\ req[w].todo \subseteq Runs /\ req[w].pc = "create"
      /\ k \in Keys /\ keyLock[k] = w /\ RunsFor(k) = {}
  BY DEF CreateRun, Inv, Local, Refers, Creating, Triggering, Runs
<1>2. runs \in Seq(RunRow) /\ row \in RunRow /\ runs' = Append(runs, row)
  BY <1>1 DEF CreateRun, Inv, Documents, RunRow, RunStatus
<1>3. /\ runs' \in Seq(RunRow) /\ Len(runs') = n /\ runs'[n] = row
      /\ \A r \in 1 .. Len(runs) : runs'[r] = runs[r]
  BY <1>2, AppendProperties
<1>4. /\ Runs = 1 .. Len(runs) /\ Len(runs) \in Nat
      /\ Runs' = 1 .. n
  BY <1>2, <1>3, LenProperties DEF Runs
<1>5. Runs' = Runs \cup {n} /\ n \notin Runs
  BY <1>4
<1>6. \A j \in Keys \ {k} : RunsFor(j)' = RunsFor(j)
  BY <1>3, <1>4, <1>5 DEF RunsFor
<1>7. Documents' /\ Grow
  <2>1. stepRuns' \in Seq(Seq(StepRunRow)) /\ Len(stepRuns') = n
    <3>1. <<>> \in Seq(StepRunRow)
      BY EmptySeq
    <3> QED
      BY <3>1, AppendProperties DEF CreateRun, Inv, Documents
  <2>2. effects' \in Seq([Indices -> Nat]) /\ Len(effects') = n
    <3>1. zero \in [Indices -> Nat]
      OBVIOUS
    <3> QED
      BY <3>1, AppendProperties DEF CreateRun, Inv, Documents
  <2> QED
    BY <2>1, <2>2, <1>3, <1>4, <1>5 DEF CreateRun, Inv, Documents, Grow
<1>8. q \in Request /\ q.pc = "execute" /\ q.run = n /\ q.todo = req[w].todo
  <2>1. n \in Nat
    BY <1>4
  <2> HIDE DEF n
  <2> QED
    BY <1>1, <2>1 DEF Request, Pcs
<1>9. Others(w) /\ req'[w] = q
  <2>1. Become(w, q)
    BY <1>3 DEF CreateRun
  <2> QED
    BY <1>8, <2>1, BecomeMoves
<1>10. /\ keyLock' \in [Keys -> Slots \cup {None}]
       /\ \A j \in Keys : j # k => keyLock'[j] = keyLock[j]
  BY <1>1 DEF CreateRun, Inv
<1>11. OneRunPerTrigger'
  BY <1>1, <1>3, <1>4, <1>5 DEF OneRunPerTrigger, RunsFor, Inv
<1>12. ASSUME NEW v \in Slots
       PROVE  Local(v)' /\ Creating(v)'
  <2>1. CASE v = w
    BY <2>1, <1>1, <1>5, <1>8, <1>9
       DEF Local, Creating, Refers, Runs, Triggering, Copying, Recording, Deciding
  <2>2. CASE v # w
    <3>1. req'[v] = req[v] /\ Local(v)'
      BY <2>2, <1>7, <1>9, RefersStill DEF Others
    <3>2. req[v].pc = "create" => req[v].key \in Keys \ {k}
      BY <2>2, <1>1 DEF Inv, Local, Refers, Creating, Triggering
    <3> QED
      BY <3>1, <3>2, <1>6, <1>10 DEF Creating, Inv
  <2> QED
    BY <2>1, <2>2
<1> QED
  BY <1>7, <1>9, <1>10, <1>11, <1>12 DEF Inv, Others

(* A restart: nobody is at work but the recovery, which knows what it found. *)
LEMMA CrashKeepsInv ==
  ASSUME Inv, Crash
  PROVE  Inv'
<1>1. /\ Idle \in Request /\ Idle.pc = "idle" /\ Idle.todo = {}
      /\ Stuck \subseteq Runs /\ Runs \subseteq Nat
  BY Row DEF Idle, Request, Ops, Pcs, Stuck, Inv, Documents, Runs
<1> DEFINE next == [Idle EXCEPT !.op = "recover", !.pc = "recover", !.todo = Stuck]
<1>2. next \in Request /\ next.pc = "recover" /\ next.todo = Stuck
  BY <1>1 DEF Idle, Request, Ops, Pcs
<1>3. PICK w \in Slots :
        req' = [v \in Slots |-> IF v = w /\ Stuck # {} THEN next ELSE Idle]
  BY DEF Crash
<1>4. /\ req' \in [Slots -> Request]
      /\ \A v \in Slots : req'[v].pc \in {"idle", "recover"} /\ req'[v].todo \subseteq Runs
  BY <1>1, <1>2, <1>3
<1>5. marks' \in Marks
  <2>1. \A pcs : RunsAt(pcs) \subseteq Nat
    BY DEF RunsAt, Inv, Request
  <2> QED
    BY <2>1 DEF Crash, Marks, Inv, Documents
<1>6. Documents' /\ Grow /\ Runs' = Runs
  BY <1>5, DocumentsStill DEF Crash
<1>7. keyLock' \in [Keys -> Slots \cup {None}]
  BY DEF Crash
<1>8. OneRunPerTrigger'
  BY DEF Crash, OneRunPerTrigger, Runs, Inv
<1>9. \A v \in Slots : Local(v)' /\ Creating(v)'
  BY <1>4, <1>6
     DEF Local, Creating, Refers, Runs, Triggering, Running, Copying, Recording, Deciding
<1> QED
  BY <1>4, <1>6, <1>7, <1>8, <1>9 DEF Inv
-----------------------------------------------------------------------------
LEMMA NextKeepsInv ==
  ASSUME Inv, [Next]_vars
  PROVE  Inv'
<1>1. CASE UNCHANGED vars
  BY <1>1 DEF vars, Inv, Documents, OneRunPerTrigger, Local, Creating, RunsFor, Runs
<1>2. CASE Crash
  BY <1>2, CrashKeepsInv
<1>3. ASSUME NEW w \in Slots, NEW k \in Keys, Trigger(w, k) PROVE Inv'
  BY <1>3, TriggerEffects, StepKeepsInv
<1>4. ASSUME NEW w \in Slots, NEW a \in DOMAIN approvals,
             NEW verdict \in {"approved", "rejected"}, StartDecide(w, a, verdict)
      PROVE  Inv'
  BY <1>4, StartDecideEffects, StepKeepsInv
<1>5. ASSUME NEW w \in Slots, NEW r \in Runs, StartRetry(w, r) PROVE Inv'
  BY <1>5, StartRetryEffects, StepKeepsInv
<1>6. ASSUME NEW w \in Slots, Step(w) PROVE Inv'
  <2>1. CASE FindExisting(w)
    BY <2>1, FindExistingKeepsInv
  <2>2. CASE CreateRun(w)
    BY <2>2, CreateRunKeepsInv
  <2>3. CASE \E r \in Runs : RecoverNext(w, r)
    BY <2>3, RecoverNextEffects, StepKeepsInv
  <2>4. CASE SkipStep(w) \/ ReachGate(w) \/ RecordSuccess(w) \/ RecordFailure(w)
    BY <2>4, SkipStepEffects, ReachGateEffects, RecordSuccessEffects, RecordFailureEffects,
       StepKeepsInv
  <2>5. CASE Execute(w) \/ Ask(w) \/ ActionSucceeds(w) \/ ActionFails(w)
    BY <2>5, ExecuteEffects, AskEffects, ActionSucceedsEffects, ActionFailsEffects, StepKeepsInv
  <2>6. CASE Park(w) \/ Advance(w) \/ Fail(w) \/ Complete(w)
    BY <2>6, ParkEffects, AdvanceEffects, FailEffects, CompleteEffects, StepKeepsInv
  <2>7. CASE ReadDecided(w) \/ SaveDecision(w) \/ Resolve(w) \/ Resume(w)
    BY <2>7, ReadDecidedEffects, SaveDecisionEffects, ResolveEffects, ResumeEffects, StepKeepsInv
  <2>8. CASE SaveRetry(w) \/ RecoverEnd(w)
    BY <2>8, SaveRetryEffects, RecoverEndEffects, StepKeepsInv
  <2> QED
    BY <1>6, <2>1, <2>2, <2>3, <2>4, <2>5, <2>6, <2>7, <2>8 DEF Step
<1> QED
  BY <1>1, <1>2, <1>3, <1>4, <1>5, <1>6 DEF Next

(* The inductive invariant holds.                                           *)
THEOREM Invariance == Spec => []Inv
<1>1. Inv /\ [Next]_vars => Inv'
  BY NextKeepsInv
<1> QED
  BY Inits, <1>1, PTL DEF Spec

(* Every document, lock and request has its type                            *)
(* (types.ts:1158-1210, automation.service.ts:591-616).                     *)
THEOREM Typed == Spec => []TypeOK
<1>1. Inv => TypeOK
  BY DEF Inv, Documents, TypeOK
<1> QED
  BY Invariance, <1>1, PTL

(* However often a trigger is delivered, and wherever the process stops, one *)
(* run is created for its key (automation.service.ts:558-580).               *)
THEOREM TriggeredOnce == Spec => []OneRunPerTrigger
<1>1. Inv => OneRunPerTrigger
  BY DEF Inv
<1> QED
  BY Invariance, <1>1, PTL
-----------------------------------------------------------------------------
(* Sound, the second invariant: what a run and the request at work on it   *)
(* agree on, for the runs two requests never had at once.  A step of a      *)
(* request changes its own run and nothing else (Confined): each lemma      *)
(* XGood shows that a step leaves that run sound, and GoodKeepsWhole adds   *)
(* the others, which it does not touch.                                     *)

On(w, r) == req[w].run = r

Settling == {"resolve", "resume"}
Pending(r) == {a \in DOMAIN approvals : approvals[a].run = r /\ approvals[a].status = "pending"}

(* The request w is at work on the run r.                                   *)
Working(w, r) ==
  /\ req[w].pc \in Copying => req[w].copy = runs[r]
  /\ req[w].pc \in Recording \cup {"step"} => runs[r].status = "running"
  /\ req[w].pc = "retry" => runs[r].status = "failed"
  /\ req[w].pc \in {"ask", "park"} => Steps[runs[r].index].gate
  /\ req[w].pc \in {"succeeded", "failed"} => ~ Steps[runs[r].index].gate
  /\ req[w].pc = "advance" => \A i \in Indices : i = runs[r].index => DealtWith(r, i)
  /\ req[w].pc = "park" => Pending(r) # {}
  /\ req[w].pc \in Deciding =>
       runs[r].status = "waiting_approval" /\ approvals[req[w].app].step = runs[r].index
  /\ req[w].pc \in {"decide", "saveDecision"} => approvals[req[w].app].status = "pending"
  /\ req[w].pc \in Settling => approvals[req[w].app].status = req[w].op /\ Pending(r) = {}

(* The approvals of a run: one is pending at most, for the gate it stands   *)
(* at, and a run that waits is decided on sooner or later.                  *)
Asked(r) ==
  /\ \A a, b \in Pending(r) : a = b
  /\ \A a \in Pending(r) :
       /\ approvals[a].step = runs[r].index
       /\ \/ runs[r].status = "waiting_approval"
          \/ \E w \in Slots : On(w, r) /\ req[w].pc = "park"
  /\ \A a \in DOMAIN approvals : approvals[a].run = r => Steps[approvals[a].step].gate
  /\ runs[r].status = "waiting_approval" /\ r \notin marks.dropped
       => Pending(r) # {} \/ \E w \in Slots : On(w, r) /\ req[w].pc \in Settling

(* No action has succeeded beyond the index of the run, and one at the      *)
(* index only while its request has not advanced.                           *)
Counted(r) ==
  r \notin marks.repeated =>
    \A i \in Indices :
      /\ effects[r][i] <= 1
      /\ i > runs[r].index => effects[r][i] = 0
      /\ i = runs[r].index /\ effects[r][i] # 0
           => \E w \in Slots : On(w, r) /\ req[w].pc \in {"succeeded", "advance"}

Behind(r) == \A i \in Indices : i < runs[r].index => DealtWith(r, i)

OneAtWork(r) == \A w, v \in Slots : On(w, r) /\ On(v, r) => w = v

Sound(r) ==
  /\ OneAtWork(r)
  /\ \A w \in Slots : On(w, r) => Working(w, r)
  /\ Asked(r)
  /\ Counted(r)
  /\ Behind(r)

Clean == Runs \ marks.doubled

(* A request that is at work on no run.                                     *)
Resting(w) ==
  req[w].pc \notin Running => req[w].run = 0 /\ (req[w].pc = "recover" => req[w].op = "recover")

(* A decision is taken on an approval of its run.                           *)
DecidesOwn(w) == req[w].pc \in Deciding => approvals[req[w].app].run = req[w].run

Whole ==
  /\ Inv
  /\ \A w \in Slots : Resting(w)
  /\ \A w, v \in Slots : req[w].op = "recover" /\ v # w => req[v] = Idle
  /\ \A w \in Slots : DecidesOwn(w)
  /\ \A r \in Clean : Sound(r)
-----------------------------------------------------------------------------
(* What was dealt with stays so: only a row that waits, and an approval that *)
(* is not approved, may change.                                             *)
Kept(r) ==
  /\ runs'[r].key = runs[r].key
  /\ \A n \in DOMAIN stepRuns[r] : stepRuns[r][n].status # "waiting_approval"
       => n \in DOMAIN stepRuns'[r] /\ stepRuns'[r][n] = stepRuns[r][n]
  /\ \A a \in DOMAIN approvals : approvals[a].run = r /\ approvals[a].status = "approved"
       => a \in DOMAIN approvals' /\ approvals'[a] = approvals[a]

LEMMA DealtStays ==
  ASSUME NEW r, Kept(r), NEW i, DealtWith(r, i)
  PROVE  DealtWith(r, i)'
<1>1. Approved(r, i) => Approved(r, i)'
  BY DEF Kept, Approved
<1>2. ASSUME NEW status \in {"succeeded", "failed"}, Recorded(r, i, status)
      PROVE  Recorded(r, i, status)'
  <2>1. PICK n \in DOMAIN stepRuns[r] : stepRuns[r][n] = [step |-> i, status |-> status]
    BY <1>2 DEF Recorded
  <2>2. stepRuns[r][n].status # "waiting_approval"
    BY <2>1
  <2> QED
    BY <2>1, <2>2 DEF Kept, Recorded
<1> QED
  BY <1>1, <1>2 DEF DealtWith, Kept

LEMMA BehindStays ==
  ASSUME NEW r, Kept(r), Behind(r), runs'[r].index = runs[r].index
  PROVE  Behind(r)'
BY DealtStays DEF Behind

(* A step of w at another run than r leaves r and all about it alone.       *)
Untouched(r) ==
  /\ runs'[r] = runs[r] /\ stepRuns'[r] = stepRuns[r] /\ effects'[r] = effects[r]
  /\ \A a \in DOMAIN approvals :
       approvals[a].run = r => a \in DOMAIN approvals' /\ approvals'[a] = approvals[a]
  /\ \A a \in DOMAIN approvals' :
       approvals'[a].run = r => a \in DOMAIN approvals /\ approvals[a].run = r
  /\ \A w \in Slots : On(w, r) \/ On(w, r)' => req'[w] = req[w]
  /\ marks.dropped \subseteq marks'.dropped /\ marks.repeated \subseteq marks'.repeated

LEMMA UntouchedSound ==
  ASSUME Inv, \A w \in Slots : DecidesOwn(w), NEW r \in Runs, Untouched(r), Sound(r)
  PROVE  Sound(r)'
<1>1. Kept(r)
  BY DEF Untouched, Kept
<1>2. Pending(r)' = Pending(r)
  BY DEF Untouched, Pending
<1>3. Behind(r)'
  BY <1>1, BehindStays DEF Untouched, Sound
<1>4. Counted(r)'
  BY DEF Untouched, Sound, Counted, On
<1>5. Asked(r)'
  <2>1. \A a \in Pending(r) : approvals'[a] = approvals[a]
    BY DEF Pending, Untouched
  <2> QED
    BY <1>2, <2>1 DEF Untouched, Sound, Asked, On
<1>6. OneAtWork(r)'
  BY DEF Untouched, Sound, OneAtWork, On
<1>7. ASSUME NEW w \in Slots, On(w, r)' PROVE Working(w, r)'
  <2>1. On(w, r) /\ req'[w] = req[w] /\ Working(w, r)
    BY <1>7 DEF Untouched, Sound, On
  <2>2. req[w].pc = "advance" => \A i \in Indices : i = runs[r].index => DealtWith(r, i)'
    BY <2>1, <1>1, DealtStays DEF Working
  <2>3. req[w].pc \in Deciding => approvals'[req[w].app] = approvals[req[w].app]
    BY <2>1 DEF DecidesOwn, On, Untouched, Inv, Local, Refers
  <2> QED
    BY <1>2, <2>1, <2>2, <2>3 DEF Untouched, Working, Deciding, Settling
<1> QED
  BY <1>3, <1>4, <1>5, <1>6, <1>7 DEF Sound

(* A step of w changes nothing but its own run.                             *)
Confined(w) ==
  /\ Others(w)
  /\ req'[w].run \in {req[w].run, 0}
  /\ \A r \in Runs \ {req[w].run} :
       runs'[r] = runs[r] /\ stepRuns'[r] = stepRuns[r] /\ effects'[r] = effects[r]
  /\ \A a \in DOMAIN approvals :
       /\ a \in DOMAIN approvals' /\ approvals'[a].run = approvals[a].run
       /\ approvals[a].run # req[w].run => approvals'[a] = approvals[a]
  /\ \A a \in DOMAIN approvals' \ DOMAIN approvals : approvals'[a].run = req[w].run
  /\ marks' = marks

LEMMA ConfinedUntouched ==
  ASSUME Inv, NEW w \in Slots, Confined(w), NEW r \in Runs, ~ On(w, r)
  PROVE  Untouched(r)
<1>1. r # 0
  BY Row DEF Inv, Documents, Runs
<1>2. \A v \in Slots : On(v, r) \/ On(v, r)' => req'[v] = req[v]
  BY <1>1 DEF Confined, Others, On
<1> QED
  BY <1>2 DEF Confined, Untouched, On
-----------------------------------------------------------------------------
(* A step of the request at work on a run.                                  *)

LEMMA AtWork ==
  ASSUME Inv, NEW w \in Slots, NEW r \in Runs, On(w, r), Sound(r)
  PROVE  /\ req[w] \in Request /\ runs[r] \in RunRow /\ r \in Nat /\ r # 0
         /\ Working(w, r) /\ Local(w)
         /\ \A v \in Slots : On(v, r) => v = w
         /\ Asked(r) /\ Counted(r) /\ Behind(r)
<1>1. runs[r] \in RunRow /\ r \in Nat /\ r # 0
  BY Row DEF Inv, Documents, Runs
<1> QED
  BY <1>1 DEF Inv, Sound, OneAtWork

LEMMA OwnStep ==
  ASSUME Inv, NEW w \in Slots, NEW r \in Runs, On(w, r), Sound(r), Others(w),
         req'[w].run \in {r, 0}, On(w, r)' => Working(w, r)',
         Asked(r)', Counted(r)', Behind(r)'
  PROVE  Sound(r)'
<1>1. \A v \in Slots : v # w => ~ On(v, r)'
  BY DEF Others, On, Sound, OneAtWork
<1> QED
  BY <1>1 DEF Sound, OneAtWork

(* It changes neither the approvals nor where the run stands.               *)
LEMMA AskedStays ==
  ASSUME NEW w \in Slots, NEW r \in Runs, On(w, r), Sound(r), Others(w),
         runs'[r].status = runs[r].status, runs'[r].index = runs[r].index,
         UNCHANGED <<approvals, marks>>, req[w].pc # "park",
         req[w].pc \in Settling => On(w, r)' /\ req'[w].pc \in Settling
  PROVE  Asked(r)'
<1>1. Pending(r)' = Pending(r)
  BY DEF Pending
<1>2. \A v \in Slots : On(v, r) /\ req[v].pc = "park" => On(v, r)' /\ req'[v].pc = "park"
  BY DEF Others, On
<1>3. \A v \in Slots : On(v, r) /\ req[v].pc \in Settling => On(v, r)' /\ req'[v].pc \in Settling
  BY DEF Others, On
<1> QED
  BY <1>1, <1>2, <1>3 DEF Sound, Asked

(* It performs no action, and the run keeps its index.                      *)
LEMMA CountedStays ==
  ASSUME NEW w \in Slots, NEW r \in Runs, On(w, r), Sound(r), Others(w),
         runs'[r].index = runs[r].index, effects'[r] = effects[r], marks' = marks,
         req[w].pc \in {"succeeded", "advance"}
           => On(w, r)' /\ req'[w].pc \in {"succeeded", "advance"}
  PROVE  Counted(r)'
<1>1. \A v \in Slots : On(v, r) /\ req[v].pc \in {"succeeded", "advance"}
                         => On(v, r)' /\ req'[v].pc \in {"succeeded", "advance"}
  BY DEF Others, On
<1> QED
  BY <1>1 DEF Sound, Counted

(* The request has ended, or goes on with the recovery.                     *)
LEMMA DoneLeaves ==
  ASSUME Inv, NEW w \in Slots, Done(w)
  PROVE  /\ Others(w) /\ req'[w].run = 0 /\ req'[w].pc \notin Running
         /\ req'[w].pc = "recover" => req'[w].op = "recover"
         /\ req'[w].op = "recover" => req[w].op = "recover"
<1> DEFINE next == [Idle EXCEPT !.op = "recover", !.pc = "recover", !.todo = req[w].todo]
           q == IF req[w].op = "recover" THEN next ELSE Idle
<1>1. req[w] \in Request
  BY DEF Inv
<1>2. Idle \in Request /\ Idle.pc = "idle" /\ Idle.run = 0 /\ Idle.op = "none"
  BY DEF Idle, Request, Ops, Pcs
<1>3. next \in Request /\ next.pc = "recover" /\ next.run = 0 /\ next.op = "recover"
  BY <1>1 DEF Idle, Request, Ops, Pcs
<1>4. /\ q \in Request /\ q.pc \in {"idle", "recover"} /\ q.run = 0
      /\ q.pc = "recover" => q.op = "recover"
      /\ q.op = "recover" => req[w].op = "recover"
  BY <1>2, <1>3
<1>5. Others(w) /\ req'[w] = q
  BY <1>4, BecomeMoves DEF Done
<1> QED
  BY <1>4, <1>5 DEF Running, Copying, Recording
-----------------------------------------------------------------------------
(* What the lemma of each step of a request at work establishes.            *)
Good(w) ==
  /\ req[w].pc \in Running
  /\ Confined(w)
  /\ Resting(w)'
  /\ req'[w].op = "recover" => req[w].op = "recover"
  /\ req'[w].pc \in Deciding
       => req[w].pc \in Deciding /\ req'[w].app = req[w].app /\ req'[w].run = req[w].run
  /\ \A r \in Clean : On(w, r) => Sound(r)'

LEMMA GoodKeepsWhole ==
  ASSUME Whole, Inv', NEW w \in Slots, Good(w), Runs' = Runs
  PROVE  Whole'
<1>1. Clean' = Clean
  BY DEF Good, Confined, Clean
<1>2. ASSUME NEW r \in Clean PROVE Sound(r)'
  <2>1. CASE On(w, r)
    BY <2>1 DEF Good
  <2>2. CASE ~ On(w, r)
    BY <2>2, ConfinedUntouched, UntouchedSound DEF Good, Whole, Clean
  <2> QED
    BY <2>1, <2>2
<1>3. \A v \in Slots : Resting(v)'
  BY DEF Good, Confined, Others, Whole, Resting
<1>4. \A v, u \in Slots : req'[v].op = "recover" /\ u # v => req'[u] = Idle
  <2>1. Idle.pc = "idle" /\ Idle.op = "none"
    BY DEF Idle
  <2>2. req[w] # Idle
    BY <2>1 DEF Good, Resting, Running, Copying, Recording
  <2>3. \A v \in Slots : v # w => req'[v] = req[v]
    BY DEF Good, Confined, Others
  <2> QED
    BY <2>2, <2>3 DEF Good, Whole
<1>5. \A v \in Slots : DecidesOwn(v)'
  BY DEF Good, Confined, Others, Whole, DecidesOwn, Inv, Local, Refers
<1> QED
  BY <1>1, <1>2, <1>3, <1>4, <1>5 DEF Whole

(* A step that changes no document but, maybe, step runs.                   *)
LEMMA CalmGood ==
  ASSUME Whole, NEW w \in Slots, req[w].pc \in Running, req[w].pc # "park", Others(w),
         req'[w].run = req[w].run, req'[w].op = req[w].op, req'[w].pc \in Running,
         UNCHANGED <<runs, approvals, effects, marks>>,
         \A r \in Runs \ {req[w].run} : stepRuns'[r] = stepRuns[r],
         Kept(req[w].run),
         req[w].pc \in Settling => req'[w].pc \in Settling,
         req'[w].pc \in Deciding => req[w].pc \in Deciding /\ req'[w].app = req[w].app,
         req[w].pc \in {"succeeded", "advance"} => req'[w].pc \in {"succeeded", "advance"},
         \A r \in Clean : On(w, r) => Working(w, r)'
  PROVE  Good(w)
<1>1. Confined(w)
  BY DEF Confined
<1>2. ASSUME NEW r \in Clean, On(w, r)
      PROVE  Sound(r)'
  <2>1. Inv /\ r \in Runs /\ Sound(r) /\ Working(w, r)' /\ On(w, r)'
    BY <1>2 DEF Whole, Clean, On
  <2>2. Asked(r)'
    BY <1>2, <2>1, AskedStays
  <2>3. Counted(r)'
    BY <1>2, <2>1, CountedStays
  <2>4. Behind(r)'
    BY <1>2, <2>1, BehindStays DEF Sound, On
  <2> QED
    BY <1>2, <2>1, <2>2, <2>3, <2>4, OwnStep DEF On
<1> QED
  BY <1>1, <1>2 DEF Good, Resting

(* Nothing at all is saved.                                                 *)
LEMMA KeptStill ==
  ASSUME UNCHANGED <<runs, stepRuns, approvals>>, NEW r
  PROVE  Kept(r)
BY DEF Kept

(* Appending keeps what was there, and adds what was appended.              *)
LEMMA Appended ==
  ASSUME NEW S, NEW s \in Seq(S), NEW x \in S, NEW t, t = Append(s, x)
  PROVE  /\ \A n \in DOMAIN s : n \in DOMAIN t /\ t[n] = s[n]
         /\ \E n \in DOMAIN t : t[n] = x
<1>1. /\ t \in Seq(S) /\ Len(t) = Len(s) + 1
      /\ \A n \in 1 .. Len(s) : t[n] = s[n]
      /\ t[Len(s) + 1] = x
  BY AppendProperties
<1>2. DOMAIN s = 1 .. Len(s) /\ Len(s) \in Nat /\ DOMAIN t = 1 .. Len(s) + 1
  BY <1>1, LenProperties
<1> QED
  BY <1>1, <1>2

(* A new row is added behind those there are.                               *)
LEMMA AddStepRunKept ==
  ASSUME Inv, NEW w \in Slots, NEW status \in StepRunStatus, AddStepRun(w, status),
         req[w].run \in Runs, req[w].copy.index \in Indices, UNCHANGED <<runs, approvals>>
  PROVE  /\ Kept(req[w].run)
         /\ \A r \in Runs \ {req[w].run} : stepRuns'[r] = stepRuns[r]
         /\ \E n \in DOMAIN stepRuns'[req[w].run] :
              stepRuns'[req[w].run][n] = [step |-> req[w].copy.index, status |-> status]
<1> DEFINE run == req[w].run
           rows == stepRuns[run]
           row == [step |-> req[w].copy.index, status |-> status]
<1>1. stepRuns \in Seq(Seq(StepRunRow)) /\ run \in 1 .. Len(stepRuns)
  BY Row DEF Inv, Documents, Runs
<1>2. rows \in Seq(StepRunRow) /\ row \in StepRunRow
  BY <1>1, ElementOfSeq DEF StepRunRow
<1>3. DOMAIN stepRuns = 1 .. Len(stepRuns)
  BY <1>1, LenProperties
<1>4. stepRuns' = [stepRuns EXCEPT ![run] = Append(rows, row)]
  BY DEF AddStepRun
<1>5. /\ stepRuns'[run] = Append(rows, row)
      /\ \A r \in 1 .. Len(stepRuns) : r # run => stepRuns'[r] = stepRuns[r]
  BY <1>1, <1>3, <1>4
<1> HIDE DEF rows, row, run
<1>6. /\ \A n \in DOMAIN rows : n \in DOMAIN stepRuns'[run] /\ stepRuns'[run][n] = rows[n]
      /\ \E n \in DOMAIN stepRuns'[run] : stepRuns'[run][n] = row
  BY <1>2, <1>5, Appended
<1>7. Runs = 1 .. Len(stepRuns)
  BY LenProperties DEF Inv, Documents, Runs
<1>8. Kept(run)
  BY <1>6 DEF Kept, rows
<1>9. run = req[w].run /\ row = [step |-> req[w].copy.index, status |-> status]
  BY DEF run, row
<1> QED
  BY <1>5, <1>6, <1>7, <1>8, <1>9

LEMMA ExecuteGood ==
  ASSUME Whole, NEW w \in Slots, Execute(w)
  PROVE  Good(w)
<1>1. Inv /\ req[w] \in Request /\ req[w].run \in Runs
  BY DEF Whole, Inv, Execute, Local, Refers, Running, Runs
<1>2. req[w].pc = "execute" /\ req[w].pc \in Running
  BY DEF Execute, Running
<1>3. Kept(req[w].run)
  BY KeptStill DEF Execute
<1>4. CASE Done(w)
  <2>1. /\ Others(w) /\ req'[w].run = 0 /\ req'[w].pc \notin Running
        /\ req'[w].pc = "recover" => req'[w].op = "recover"
        /\ req'[w].op = "recover" => req[w].op = "recover"
    BY <1>1, <1>4, DoneLeaves
  <2>2. Confined(w)
    BY <2>1 DEF Confined, Execute
  <2>3. ASSUME NEW r \in Clean, On(w, r) PROVE Sound(r)'
    <3>1. Inv /\ r \in Runs /\ Sound(r) /\ r # 0 /\ ~ On(w, r)'
      BY <2>1, <2>3, AtWork DEF Whole, Clean, On
    <3>2. Asked(r)'
      BY <1>2, <2>1, <2>3, <3>1, AskedStays DEF Execute, Settling
    <3>3. Counted(r)'
      BY <1>2, <2>1, <2>3, <3>1, CountedStays DEF Execute
    <3>4. Behind(r)'
      BY <1>3, <2>3, <3>1, BehindStays DEF Sound, On, Execute
    <3> QED
      BY <2>1, <2>3, <3>1, <3>2, <3>3, <3>4, OwnStep
  <2> QED
    BY <1>2, <2>1, <2>2, <2>3 DEF Good, Resting, Deciding, Running, Copying
<1>5. CASE /\ runs[req[w].run].status = "running"
           /\ Become(w, [req[w] EXCEPT !.pc = "step", !.copy = runs[req[w].run]])
  <2> DEFINE q == [req[w] EXCEPT !.pc = "step", !.copy = runs[req[w].run]]
  <2>1. runs[req[w].run] \in RunRow
    BY <1>1, Row DEF Inv, Documents, Runs
  <2>2. q \in Request
    BY <1>1, <2>1 DEF Request, Pcs
  <2>3. Others(w) /\ req'[w] = q
    BY <1>1, <1>5, <2>2, BecomeMoves
  <2>4. /\ req'[w].pc = "step" /\ req'[w].copy = runs[req[w].run]
        /\ req'[w].run = req[w].run /\ req'[w].op = req[w].op
    BY <1>1, <2>3 DEF Request
  <2>5. ASSUME NEW r \in Clean, On(w, r) PROVE Working(w, r)'
    BY <1>5, <2>4, <2>5 DEF On, Working, Execute, Recording, Deciding, Settling
  <2> QED
    BY <1>2, <1>3, <2>3, <2>4, <2>5, CalmGood
       DEF Execute, Deciding, Running, Copying, Settling, Deciding
<1> QED
  BY <1>4, <1>5 DEF Execute

LEMMA SkipStepGood ==
  ASSUME Whole, NEW w \in Slots, SkipStep(w)
  PROVE  Good(w)
<1>1. /\ Inv /\ req[w] \in Request /\ req[w].pc = "step" /\ req[w].run \in Runs
      /\ req[w].copy.index \in Indices /\ <<req[w].copy.key, req[w].copy.index>> \in Skips
  BY DEF Whole, Inv, SkipStep, AtStep, Skipped, Local, Refers, Running, Copying, Runs
<1>2. Others(w) /\ req'[w] = [req[w] EXCEPT !.pc = "advance"]
  BY <1>1, GotoMoves DEF SkipStep, Pcs
<1>3. /\ req'[w].pc = "advance" /\ req'[w].copy = req[w].copy
      /\ req'[w].run = req[w].run /\ req'[w].op = req[w].op
  BY <1>1, <1>2 DEF Request
<1>4. Kept(req[w].run) /\ \A r \in Runs \ {req[w].run} : stepRuns'[r] = stepRuns[r]
  BY <1>1, AddStepRunKept DEF SkipStep, StepRunStatus
<1>5. ASSUME NEW r \in Clean, On(w, r) PROVE Working(w, r)'
  <2>1. req[w].copy = runs[r] /\ runs[r].status = "running"
    BY <1>1, <1>5, AtWork DEF Whole, Clean, Working, Copying
  <2>2. \A i \in Indices : i = runs[r].index => DealtWith(r, i)'
    BY <1>1, <2>1 DEF SkipStep, DealtWith
  <2> QED
    BY <1>3, <2>1, <2>2 DEF SkipStep, Working, Deciding, Settling
<1> QED
  BY <1>1, <1>2, <1>3, <1>4, <1>5, CalmGood
     DEF SkipStep, Running, Copying, Recording, Settling, Deciding

LEMMA ReachGateGood ==
  ASSUME Whole, NEW w \in Slots, ReachGate(w)
  PROVE  Good(w)
<1>1. /\ Inv /\ req[w] \in Request /\ req[w].pc = "step" /\ req[w].run \in Runs
      /\ req[w].copy.index \in Indices /\ Steps[req[w].copy.index].gate
  BY DEF Whole, Inv, ReachGate, AtStep, Local, Refers, Running, Copying, Runs
<1>2. Others(w) /\ req'[w] = [req[w] EXCEPT !.pc = "ask"]
  BY <1>1, GotoMoves DEF ReachGate, Pcs
<1>3. /\ req'[w].pc = "ask" /\ req'[w].copy = req[w].copy
      /\ req'[w].run = req[w].run /\ req'[w].op = req[w].op
  BY <1>1, <1>2 DEF Request
<1>4. Kept(req[w].run) /\ \A r \in Runs \ {req[w].run} : stepRuns'[r] = stepRuns[r]
  BY <1>1, AddStepRunKept DEF ReachGate, StepRunStatus
<1>5. ASSUME NEW r \in Clean, On(w, r) PROVE Working(w, r)'
  <2>1. req[w].copy = runs[r] /\ runs[r].status = "running"
    BY <1>1, <1>5, AtWork DEF Whole, Clean, Working, Copying
  <2> QED
    BY <1>1, <1>3, <2>1 DEF ReachGate, Working, Deciding, Settling
<1> QED
  BY <1>1, <1>2, <1>3, <1>4, <1>5, CalmGood
     DEF ReachGate, Running, Copying, Recording, Settling, Deciding

LEMMA ActionFailsGood ==
  ASSUME Whole, NEW w \in Slots, ActionFails(w)
  PROVE  Good(w)
<1> DEFINE again == [req[w] EXCEPT !.tries = @ + 1]
           failed == [req[w] EXCEPT !.pc = "failed", !.tries = 0]
<1>1. /\ Inv /\ req[w] \in Request /\ req[w].pc = "step" /\ req[w].run \in Runs
      /\ req[w].copy.index \in Indices /\ ~ Steps[req[w].copy.index].gate
  BY DEF Whole, Inv, ActionFails, Attempting, AtStep, Local, Refers, Running, Copying, Runs
<1>2. again \in Request /\ failed \in Request
  <2>1. again \in Request
    BY <1>1 DEF Request
  <2>2. failed \in Request
    BY <1>1 DEF Request, Pcs
  <2> QED
    BY <2>1, <2>2
<1>3. Become(w, again) \/ Become(w, failed)
  BY DEF ActionFails
<1>4. Others(w) /\ (req'[w] = again \/ req'[w] = failed)
  BY <1>1, <1>2, <1>3, BecomeMoves
<1>5. /\ req'[w].pc \in {"step", "failed"} /\ req'[w].copy = req[w].copy
      /\ req'[w].run = req[w].run /\ req'[w].op = req[w].op
  BY <1>1, <1>4 DEF Request
<1>6. Kept(req[w].run)
  BY KeptStill DEF ActionFails
<1>7. ASSUME NEW r \in Clean, On(w, r) PROVE Working(w, r)'
  <2>1. req[w].copy = runs[r] /\ runs[r].status = "running"
    BY <1>1, <1>7, AtWork DEF Whole, Clean, Working, Copying
  <2> QED
    BY <1>1, <1>5, <2>1 DEF ActionFails, Working, Deciding, Settling
<1> QED
  BY <1>1, <1>4, <1>5, <1>6, <1>7, CalmGood
     DEF ActionFails, Running, Copying, Recording, Settling, Deciding

LEMMA RecordSuccessGood ==
  ASSUME Whole, NEW w \in Slots, RecordSuccess(w)
  PROVE  Good(w)
<1> DEFINE q == [req[w] EXCEPT !.pc = "advance", !.tries = 0]
<1>1. /\ Inv /\ req[w] \in Request /\ req[w].pc = "succeeded" /\ req[w].run \in Runs
      /\ req[w].copy.index \in Indices
  BY DEF Whole, Inv, RecordSuccess, Local, Refers, Running, Copying, Recording, Runs
<1>2. q \in Request
  BY <1>1 DEF Request, Pcs
<1>3. Others(w) /\ req'[w] = q
  BY <1>1, <1>2, BecomeMoves DEF RecordSuccess
<1>4. /\ req'[w].pc = "advance" /\ req'[w].copy = req[w].copy
      /\ req'[w].run = req[w].run /\ req'[w].op = req[w].op
  BY <1>1, <1>3 DEF Request
<1>5. /\ Kept(req[w].run) /\ \A r \in Runs \ {req[w].run} : stepRuns'[r] = stepRuns[r]
      /\ \E n \in DOMAIN stepRuns'[req[w].run] :
           stepRuns'[req[w].run][n] = [step |-> req[w].copy.index, status |-> "succeeded"]
  BY <1>1, AddStepRunKept DEF RecordSuccess, StepRunStatus
<1>6. ASSUME NEW r \in Clean, On(w, r) PROVE Working(w, r)'
  <2>1. req[w].copy = runs[r] /\ runs[r].status = "running" /\ ~ Steps[runs[r].index].gate
    BY <1>1, <1>6, AtWork DEF Whole, Clean, Working, Copying, Recording
  <2>2. \A i \in Indices : i = runs[r].index => DealtWith(r, i)'
    BY <1>5, <1>6, <2>1 DEF DealtWith, Recorded, On
  <2> QED
    BY <1>4, <2>1, <2>2 DEF RecordSuccess, Working, Deciding, Settling
<1> QED
  BY <1>1, <1>3, <1>4, <1>5, <1>6, CalmGood
     DEF RecordSuccess, Running, Copying, Recording, Settling, Deciding

LEMMA RecordFailureGood ==
  ASSUME Whole, NEW w \in Slots, RecordFailure(w)
  PROVE  Good(w)
<1> DEFINE pc == IF StopsAt(req[w].copy.index) THEN "fail" ELSE "advance"
<1>1. /\ Inv /\ req[w] \in Request /\ req[w].pc = "failed" /\ req[w].run \in Runs
      /\ req[w].copy.index \in Indices
  BY DEF Whole, Inv, RecordFailure, Local, Refers, Running, Copying, Recording, Runs
<1>2. pc \in {"fail", "advance"}
  OBVIOUS
<1>3. Others(w) /\ req'[w] = [req[w] EXCEPT !.pc = pc]
  BY <1>1, <1>2, GotoMoves DEF RecordFailure, Pcs
<1>4. /\ req'[w].pc = pc /\ req'[w].copy = req[w].copy
      /\ req'[w].run = req[w].run /\ req'[w].op = req[w].op
  BY <1>1, <1>3 DEF Request
<1>5. /\ Kept(req[w].run) /\ \A r \in Runs \ {req[w].run} : stepRuns'[r] = stepRuns[r]
      /\ \E n \in DOMAIN stepRuns'[req[w].run] :
           stepRuns'[req[w].run][n] = [step |-> req[w].copy.index, status |-> "failed"]
  BY <1>1, AddStepRunKept DEF RecordFailure, StepRunStatus
<1>6. ASSUME NEW r \in Clean, On(w, r) PROVE Working(w, r)'
  <2>1. req[w].copy = runs[r] /\ runs[r].status = "running" /\ ~ Steps[runs[r].index].gate
    BY <1>1, <1>6, AtWork DEF Whole, Clean, Working, Copying, Recording
  <2>2. pc = "advance" => \A i \in Indices : i = runs[r].index => DealtWith(r, i)'
    BY <1>5, <1>6, <2>1 DEF DealtWith, Recorded, On, StopsAt
  <2> QED
    BY <1>2, <1>4, <2>1, <2>2 DEF RecordFailure, Working, Deciding, Settling
<1> QED
  BY <1>1, <1>2, <1>3, <1>4, <1>5, <1>6, CalmGood
     DEF RecordFailure, Running, Copying, Recording, Settling, Deciding

LEMMA ReadDecidedGood ==
  ASSUME Whole, NEW w \in Slots, ReadDecided(w)
  PROVE  Good(w)
<1> DEFINE q == [req[w] EXCEPT !.pc = "saveDecision", !.copy = runs[req[w].run]]
<1>1. Inv /\ req[w] \in Request /\ req[w].pc = "decide" /\ req[w].run \in Runs
  BY DEF Whole, Inv, ReadDecided, Local, Refers, Running, Runs
<1>2. runs[req[w].run] \in RunRow
  BY <1>1, Row DEF Inv, Documents, Runs
<1>3. q \in Request
  BY <1>1, <1>2 DEF Request, Pcs
<1>4. Others(w) /\ req'[w] = q
  BY <1>1, <1>3, BecomeMoves DEF ReadDecided
<1>5. /\ req'[w].pc = "saveDecision" /\ req'[w].copy = runs[req[w].run]
      /\ req'[w].run = req[w].run /\ req'[w].op = req[w].op /\ req'[w].app = req[w].app
  BY <1>1, <1>4 DEF Request
<1>6. Kept(req[w].run)
  BY KeptStill DEF ReadDecided
<1>7. ASSUME NEW r \in Clean, On(w, r) PROVE Working(w, r)'
  <2>1. /\ runs[r].status = "waiting_approval"
        /\ approvals[req[w].app].step = runs[r].index
        /\ approvals[req[w].app].status = "pending"
    BY <1>1, <1>7, AtWork DEF Whole, Clean, Working, Deciding
  <2> QED
    BY <1>5, <1>7, <2>1 DEF ReadDecided, Working, Recording, Settling, On
<1> QED
  BY <1>1, <1>4, <1>5, <1>6, <1>7, CalmGood DEF ReadDecided, Running, Copying, Settling, Deciding

(* The decision is noted on the step run that waits.                        *)
LEMMA ResolveGood ==
  ASSUME Whole, NEW w \in Slots, Resolve(w)
  PROVE  Good(w)
<1>1. Inv /\ req[w] \in Request /\ req[w].pc = "resolve" /\ req[w].run \in Runs
  BY DEF Whole, Inv, Resolve, Local, Refers, Running, Copying, Runs
<1>2. Others(w) /\ req'[w] = [req[w] EXCEPT !.pc = "resume"]
  BY <1>1, GotoMoves DEF Resolve, Pcs
<1>3. /\ req'[w].pc = "resume" /\ req'[w].copy = req[w].copy
      /\ req'[w].run = req[w].run /\ req'[w].op = req[w].op /\ req'[w].app = req[w].app
  BY <1>1, <1>2 DEF Request
<1>4. Kept(req[w].run) /\ \A r \in Runs \ {req[w].run} : stepRuns'[r] = stepRuns[r]
  <2> DEFINE run == req[w].run
  <2>1. CASE UNCHANGED stepRuns
    BY <2>1, KeptStill DEF Resolve
  <2>2. CASE \E n \in Waiting(w) : stepRuns' = [stepRuns EXCEPT ![run][n].status = Outcome(w)]
    <3>1. PICK n \in Waiting(w) : stepRuns' = [stepRuns EXCEPT ![run][n].status = Outcome(w)]
      BY <2>2
    <3>2. n \in DOMAIN stepRuns[run] /\ stepRuns[run][n].status = "waiting_approval"
      BY <3>1 DEF Waiting
    <3>3. run \in DOMAIN stepRuns /\ Runs = DOMAIN stepRuns
      BY <1>1, LenProperties DEF Inv, Documents, Runs
    <3>4. /\ DOMAIN stepRuns'[run] = DOMAIN stepRuns[run]
          /\ \A m \in DOMAIN stepRuns[run] : m # n => stepRuns'[run][m] = stepRuns[run][m]
      BY <3>1, <3>2, <3>3
    <3>5. \A r \in Runs \ {run} : stepRuns'[r] = stepRuns[r]
      BY <3>1, <3>3
    <3> QED
      BY <3>2, <3>4, <3>5 DEF Resolve, Kept
  <2> QED
    BY <2>1, <2>2 DEF Resolve
<1>5. ASSUME NEW r \in Clean, On(w, r) PROVE Working(w, r)'
  <2>1. /\ req[w].copy = runs[r] /\ runs[r].status = "waiting_approval"
        /\ approvals[req[w].app].step = runs[r].index
        /\ approvals[req[w].app].status = req[w].op /\ Pending(r) = {}
    BY <1>1, <1>5, AtWork DEF Whole, Clean, Working, Copying, Deciding, Settling
  <2>2. Pending(r)' = Pending(r)
    BY DEF Resolve, Pending
  <2> QED
    BY <1>3, <2>1, <2>2 DEF Resolve, Working, Recording, Settling
<1> QED
  BY <1>1, <1>2, <1>3, <1>4, <1>5, CalmGood DEF Resolve, Running, Copying, Settling, Deciding
-----------------------------------------------------------------------------
(* The steps that save the run, and the two that touch approvals and counts. *)

LEMMA SavedRow ==
  ASSUME Inv, NEW w \in Slots, NEW STATE row, SaveRun(w, row), req[w].run \in Runs
  PROVE  /\ runs'[req[w].run] = row
         /\ \A r \in Runs \ {req[w].run} : runs'[r] = runs[r]
BY DEF SaveRun, Runs

(* A run has nothing pending while it is neither parked nor being parked.   *)
LEMMA NothingPending ==
  ASSUME NEW w \in Slots, NEW r \in Runs, On(w, r), Sound(r),
         req[w].pc # "park", runs[r].status # "waiting_approval"
  PROVE  Pending(r) = {}
BY DEF Sound, OneAtWork, Asked

(* The run is saved with a status, and the request ends.                    *)
LEMMA EndGood ==
  ASSUME Whole, NEW w \in Slots, NEW status \in RunStatus,
         req[w].pc \in Copying \ {"succeeded", "advance"},
         SaveRun(w, [req[w].copy EXCEPT !.status = status]), Done(w),
         UNCHANGED <<stepRuns, approvals, effects, marks>>,
         \A r \in Clean : On(w, r) => (status = "waiting_approval" <=> Pending(r) # {})
  PROVE  Good(w)
<1> DEFINE row == [req[w].copy EXCEPT !.status = status]
<1>1. /\ Inv /\ req[w].run \in Runs /\ req[w].copy \in RunRow /\ req[w].pc \in Running
      /\ req[w].copy.key = runs[req[w].run].key
  BY DEF Whole, Inv, Local, Refers, Running, Runs
<1>2. /\ runs'[req[w].run] = row
      /\ \A r \in Runs \ {req[w].run} : runs'[r] = runs[r]
  <2> HIDE DEF row
  <2> QED
    BY <1>1, SavedRow DEF row
<1>3. row.status = status /\ row.key = req[w].copy.key /\ row.index = req[w].copy.index
  BY <1>1 DEF RunRow
<1>4. /\ Others(w) /\ req'[w].run = 0 /\ req'[w].pc \notin Running
      /\ req'[w].pc = "recover" => req'[w].op = "recover"
      /\ req'[w].op = "recover" => req[w].op = "recover"
  BY <1>1, DoneLeaves
<1> HIDE DEF row
<1>5. Confined(w)
  BY <1>2, <1>4 DEF Confined
<1>6. ASSUME NEW r \in Clean, On(w, r) PROVE Sound(r)'
  <2>1. /\ r \in Runs /\ Sound(r) /\ r # 0 /\ ~ On(w, r)' /\ req[w].copy = runs[r]
        /\ Asked(r) /\ Behind(r)
    BY <1>1, <1>4, <1>6, AtWork DEF Whole, Clean, On, Working
  <2>2. /\ runs'[r].status = status /\ runs'[r].index = runs[r].index
        /\ runs'[r].key = runs[r].key
    BY <1>2, <1>3, <1>6, <2>1 DEF On
  <2>3. Pending(r)' = Pending(r)
    BY DEF Pending
  <2>4. Asked(r)'
    BY <1>6, <2>1, <2>2, <2>3 DEF Asked
  <2>5. Counted(r)'
    BY <1>1, <1>4, <1>6, <2>1, <2>2, CountedStays
  <2>6. Kept(r)
    BY <2>2 DEF Kept
  <2>7. Behind(r)'
    BY <2>1, <2>2, <2>6, BehindStays
  <2> QED
    BY <1>1, <1>4, <1>6, <2>1, <2>4, <2>5, <2>7, OwnStep
<1> QED
  BY <1>1, <1>4, <1>5, <1>6 DEF Good, Resting, Running, Deciding, Copying

LEMMA ParkGood ==
  ASSUME Whole, NEW w \in Slots, Park(w)
  PROVE  Good(w)
<1>1. \A r \in Clean : On(w, r) => Pending(r) # {}
  BY DEF Whole, Clean, Sound, Working, Park
<1> QED
  BY <1>1, EndGood DEF Park, Copying, Recording, RunStatus

LEMMA FailGood ==
  ASSUME Whole, NEW w \in Slots, Fail(w)
  PROVE  Good(w)
<1>1. \A r \in Clean : On(w, r) => Pending(r) = {}
  BY NothingPending DEF Whole, Clean, Sound, Working, Fail, Recording
<1> QED
  BY <1>1, EndGood DEF Fail, Copying, Recording, RunStatus

LEMMA CompleteGood ==
  ASSUME Whole, NEW w \in Slots, Complete(w)
  PROVE  Good(w)
<1>1. \A r \in Clean : On(w, r) => Pending(r) = {}
  BY NothingPending DEF Whole, Clean, Sound, Working, Complete
<1> QED
  BY <1>1, EndGood DEF Complete, Copying, RunStatus

(* The run is saved as running, at its step or, once that has been dealt    *)
(* with, at the next one, and the request goes on.                          *)
LEMMA GoOnGood ==
  ASSUME Whole, NEW w \in Slots, req[w].pc \in Copying, NEW STATE row, SaveRun(w, row),
         row.key = req[w].copy.key, Others(w), req'[w].run = req[w].run, req'[w].op = req[w].op,
         req'[w].pc = "execute" \/ (req'[w].pc = "step" /\ req'[w].copy = row),
         UNCHANGED <<stepRuns, approvals, effects, marks>>,
         \A r \in Clean : On(w, r) => row.status = "running" /\ Pending(r) = {},
         \/ row.index = req[w].copy.index /\ req[w].pc \notin {"succeeded", "advance"}
         \/ /\ row.index = req[w].copy.index + 1
            /\ \A r \in Clean, i \in Indices :
                 On(w, r) /\ i = req[w].copy.index => DealtWith(r, i)
  PROVE  Good(w)
<1>1. /\ Inv /\ req[w].run \in Runs /\ req[w].copy \in RunRow /\ req[w].pc \in Running
      /\ req[w].copy.key = runs[req[w].run].key
  BY DEF Whole, Inv, Local, Refers, Running, Runs
<1>2. /\ runs'[req[w].run] = row
      /\ \A r \in Runs \ {req[w].run} : runs'[r] = runs[r]
  BY <1>1, SavedRow
<1>3. Confined(w)
  BY <1>2 DEF Confined
<1>4. ASSUME NEW r \in Clean, On(w, r) PROVE Sound(r)'
  <2>1. /\ r \in Runs /\ Sound(r) /\ req[w].copy = runs[r] /\ runs'[r] = row
        /\ Asked(r) /\ Behind(r) /\ Counted(r) /\ runs[r] \in RunRow /\ Pending(r) = {}
        /\ row.status = "running"
        /\ \A v \in Slots : On(v, r) => v = w
    BY <1>1, <1>2, <1>4, AtWork DEF Whole, Clean, On, Working
  <2>2. Pending(r)' = Pending(r)
    BY DEF Pending
  <2>3. Asked(r)'
    BY <1>4, <2>1, <2>2 DEF Asked
  <2>4. Kept(r)
    BY <1>1, <1>4, <2>1 DEF Kept, On
  <2>5. CASE row.index = req[w].copy.index /\ req[w].pc \notin {"succeeded", "advance"}
    <3>1. Counted(r)'
      BY <1>4, <2>1, <2>5, CountedStays
    <3>2. Behind(r)'
      BY <2>1, <2>4, <2>5, BehindStays
    <3> QED
      BY <1>1, <1>4, <2>1, <2>3, <3>1, <3>2, OwnStep
         DEF Working, Recording, Copying, Deciding, Settling, On
  <2>6. CASE /\ row.index = req[w].copy.index + 1
             /\ \A i \in Indices : i = req[w].copy.index => DealtWith(r, i)
    <3>1. Indices \subseteq Nat /\ runs[r].index \in Nat /\ runs'[r].index = runs[r].index + 1
      BY <2>1, <2>6, StepsAssumption, LenProperties DEF Indices, RunRow
    <3>2. \A i \in Indices :
            /\ i > runs'[r].index \/ i = runs'[r].index => i > runs[r].index
            /\ i < runs'[r].index => i < runs[r].index \/ i = runs[r].index
      BY <3>1
    <3>3. Counted(r)'
      BY <2>1, <3>2 DEF Counted
    <3>4. Behind(r)'
      <4>1. \A i \in Indices : i < runs'[r].index => DealtWith(r, i)
        BY <2>1, <2>6, <3>2 DEF Behind
      <4> QED
        BY <2>1, <2>4, <4>1, DealtStays DEF Behind
    <3> QED
      BY <1>1, <1>4, <2>1, <2>3, <3>3, <3>4, OwnStep
         DEF Working, Recording, Copying, Deciding, Settling, On
  <2> QED
    BY <1>4, <2>5, <2>6
<1> QED
  BY <1>1, <1>3, <1>4 DEF Good, Resting, Running, Copying, Deciding

LEMMA AdvanceGood ==
  ASSUME Whole, NEW w \in Slots, Advance(w)
  PROVE  Good(w)
<1> DEFINE row == [req[w].copy EXCEPT !.index = @ + 1]
           q == [req[w] EXCEPT !.pc = "step", !.copy = row]
<1>1. /\ Inv /\ req[w] \in Request /\ req[w].pc = "advance" /\ req[w].copy \in RunRow
  BY DEF Whole, Inv, Local, Refers, Advance, Copying, Recording
<1>2. /\ row \in RunRow /\ row.key = req[w].copy.key /\ row.status = req[w].copy.status
      /\ row.index = req[w].copy.index + 1
  BY <1>1 DEF RunRow
<1>3. q \in Request
  BY <1>1, <1>2 DEF Request, Pcs
<1>4. Others(w) /\ req'[w] = q
  BY <1>1, <1>3, BecomeMoves DEF Advance
<1>5. /\ req'[w].pc = "step" /\ req'[w].copy = row
      /\ req'[w].run = req[w].run /\ req'[w].op = req[w].op
  BY <1>1, <1>4 DEF Request
<1>6. ASSUME NEW r \in Clean, On(w, r)
      PROVE  /\ Pending(r) = {}
             /\ \A i \in Indices : i = req[w].copy.index => DealtWith(r, i)
             /\ req[w].copy.status = "running"
  <2>1. Sound(r) /\ r \in Runs
    BY DEF Whole, Clean
  <2>2. /\ req[w].copy = runs[r] /\ runs[r].status = "running"
        /\ \A i \in Indices : i = runs[r].index => DealtWith(r, i)
    BY <1>1, <1>6, <2>1 DEF Sound, Working, Copying, Recording
  <2> QED
    BY <1>1, <1>6, <2>1, <2>2, NothingPending
<1> HIDE DEF row
<1>7. SaveRun(w, row)
  BY DEF Advance, row
<1> QED
  BY <1>1, <1>2, <1>4, <1>5, <1>6, <1>7, GoOnGood DEF Advance, Copying, Recording

LEMMA SaveRetryGood ==
  ASSUME Whole, NEW w \in Slots, SaveRetry(w)
  PROVE  Good(w)
<1>1. Inv /\ req[w] \in Request /\ req[w].pc = "retry" /\ req[w].copy \in RunRow
  BY DEF Whole, Inv, Local, Refers, SaveRetry, Copying
<1>2. /\ Revived(req[w].copy).status = "running" /\ Revived(req[w].copy).key = req[w].copy.key
      /\ Revived(req[w].copy).index = req[w].copy.index
  BY <1>1 DEF Revived, RunRow
<1>3. Others(w) /\ req'[w] = [req[w] EXCEPT !.pc = "execute"]
  BY <1>1, GotoMoves DEF SaveRetry, Pcs
<1>4. req'[w].pc = "execute" /\ req'[w].run = req[w].run /\ req'[w].op = req[w].op
  BY <1>1, <1>3 DEF Request
<1>5. \A r \in Clean : On(w, r) => Pending(r) = {}
  BY <1>1, NothingPending DEF Whole, Clean, Sound, Working
<1> QED
  BY <1>1, <1>2, <1>3, <1>4, <1>5, GoOnGood DEF SaveRetry, Copying

LEMMA ResumeGood ==
  ASSUME Whole, NEW w \in Slots, Resume(w)
  PROVE  Good(w)
<1>1. /\ Inv /\ req[w] \in Request /\ req[w].pc = "resume" /\ req[w].copy \in RunRow
      /\ approvals[req[w].app] \in ApprovalRow /\ req[w].app \in DOMAIN approvals
      /\ approvals[req[w].app].run = req[w].run
  BY Row DEF Whole, Inv, Documents, Local, Refers, Resume, Copying, Deciding, DecidesOwn
<1>2. \A r \in Clean : On(w, r) => Pending(r) = {}
  BY <1>1 DEF Whole, Clean, Sound, Working, Settling
<1>3. CASE req[w].op = "approved"
  <2>1. /\ Resumed(req[w].copy).status = "running" /\ Resumed(req[w].copy).key = req[w].copy.key
        /\ Resumed(req[w].copy).index = req[w].copy.index + 1
    BY <1>1 DEF Resumed, RunRow
  <2>2. Others(w) /\ req'[w] = [req[w] EXCEPT !.pc = "execute"]
    BY <1>1, <1>3, GotoMoves DEF Resume, Pcs
  <2>3. req'[w].pc = "execute" /\ req'[w].run = req[w].run /\ req'[w].op = req[w].op
    BY <1>1, <2>2 DEF Request
  <2>4. ASSUME NEW r \in Clean, NEW i \in Indices, On(w, r), i = req[w].copy.index
        PROVE  DealtWith(r, i)
    <3>1. /\ req[w].copy = runs[r] /\ approvals[req[w].app].step = runs[r].index
          /\ approvals[req[w].app].status = "approved" /\ Asked(r)
      BY <1>1, <1>3, <2>4 DEF Whole, Clean, Sound, Working, Settling, Deciding, Copying
    <3>2. approvals[req[w].app] = [run |-> r, step |-> i, status |-> "approved"]
      BY <1>1, <2>4, <3>1 DEF ApprovalRow, On
    <3>3. Steps[i].gate
      BY <1>1, <2>4, <3>1 DEF Asked, On
    <3> QED
      BY <1>1, <3>2, <3>3 DEF DealtWith, Approved
  <2> QED
    BY <1>1, <1>2, <1>3, <2>1, <2>2, <2>3, <2>4, GoOnGood DEF Resume, Copying
<1>4. CASE req[w].op # "approved"
  BY <1>1, <1>2, <1>4, EndGood DEF Resume, Copying, RunStatus
<1> QED
  BY <1>3, <1>4

(* The approval is asked for, before the run is parked.                     *)
LEMMA AskGood ==
  ASSUME Whole, NEW w \in Slots, Ask(w)
  PROVE  Good(w)
<1> DEFINE row == [run |-> req[w].run, step |-> req[w].copy.index, status |-> "pending"]
           n == Len(approvals) + 1
<1>1. /\ Inv /\ req[w] \in Request /\ req[w].pc = "ask" /\ req[w].run \in Runs
      /\ req[w].copy.index \in Indices /\ approvals \in Seq(ApprovalRow)
  BY DEF Whole, Inv, Documents, Local, Refers, Ask, Running, Copying, Recording, Runs
<1>2. row \in ApprovalRow
  BY <1>1 DEF ApprovalRow, Request
<1>3. approvals' = Append(approvals, row)
  BY DEF Ask
<1>4. /\ approvals' \in Seq(ApprovalRow) /\ Len(approvals') = n /\ approvals'[n] = row
      /\ \A a \in 1 .. Len(approvals) : approvals'[a] = approvals[a]
  BY <1>1, <1>2, <1>3, AppendProperties
<1>5. /\ DOMAIN approvals = 1 .. Len(approvals) /\ Len(approvals) \in Nat
      /\ DOMAIN approvals' = 1 .. n
  BY <1>1, <1>4, LenProperties
<1>6. /\ \A a \in DOMAIN approvals : a \in DOMAIN approvals' /\ approvals'[a] = approvals[a]
      /\ DOMAIN approvals' = DOMAIN approvals \cup {n} /\ n \notin DOMAIN approvals
  BY <1>4, <1>5
<1>7. Others(w) /\ req'[w] = [req[w] EXCEPT !.pc = "park"]
  BY <1>1, GotoMoves DEF Ask, Pcs
<1>8. /\ req'[w].pc = "park" /\ req'[w].copy = req[w].copy
      /\ req'[w].run = req[w].run /\ req'[w].op = req[w].op
  BY <1>1, <1>7 DEF Request
<1> HIDE DEF n
<1>9. Confined(w)
  BY <1>4, <1>6, <1>7, <1>8 DEF Ask, Confined
<1>10. ASSUME NEW r \in Clean, On(w, r) PROVE Sound(r)'
  <2>1. /\ Sound(r) /\ r \in Runs /\ req[w].copy = runs[r] /\ runs[r].status = "running"
        /\ Asked(r) /\ Behind(r) /\ Steps[runs[r].index].gate
    BY <1>1, <1>10 DEF Whole, Clean, Sound, Working, Copying, Recording
  <2>2. Pending(r) = {}
    BY <1>1, <1>10, <2>1, NothingPending
  <2>3. Pending(r)' = {n}
    BY <1>4, <1>6, <1>10, <2>2 DEF Pending, On
  <2>4. On(w, r)' /\ req'[w].pc = "park"
    BY <1>8, <1>10 DEF On
  <2>5. Asked(r)'
    <3>1. \A a \in DOMAIN approvals' : approvals'[a].run = r => Steps[approvals'[a].step].gate
      BY <1>4, <1>6, <2>1 DEF Asked
    <3> QED
      BY <1>4, <2>1, <2>3, <2>4, <3>1 DEF Ask, Asked
  <2>6. Counted(r)'
    BY <1>1, <1>7, <1>10, <2>1, CountedStays DEF Ask
  <2>7. Behind(r)'
    <3>1. Kept(r)
      BY <1>6 DEF Kept, Ask
    <3> QED
      BY <2>1, <3>1, BehindStays DEF Ask
  <2>8. Working(w, r)'
    BY <1>8, <2>1, <2>3 DEF Ask, Working, Deciding, Settling
  <2> QED
    BY <1>1, <1>7, <1>8, <1>10, <2>1, <2>5, <2>6, <2>7, <2>8, OwnStep DEF On
<1> QED
  BY <1>1, <1>8, <1>9, <1>10 DEF Good, Resting, Running, Copying, Recording, Deciding

LEMMA ActionSucceedsGood ==
  ASSUME Whole, NEW w \in Slots, ActionSucceeds(w)
  PROVE  Good(w)
<1>1. PICK j \in Indices :
        Attempting(w, j) /\ effects' = [effects EXCEPT ![req[w].run][j] = @ + 1]
  BY DEF ActionSucceeds
<1>2. /\ Inv /\ req[w] \in Request /\ req[w].run \in Runs /\ req[w].pc = "step"
      /\ req[w].copy.index = j /\ ~ Steps[j].gate
  BY <1>1 DEF Whole, Inv, Local, Refers, Attempting, AtStep, Runs, Running, Copying
<1>3. /\ effects \in Seq([Indices -> Nat]) /\ req[w].run \in DOMAIN effects
      /\ Runs = DOMAIN effects /\ effects[req[w].run] \in [Indices -> Nat]
  BY <1>2, Row, LenProperties DEF Inv, Documents, Runs
<1>4. /\ \A r \in Runs \ {req[w].run} : effects'[r] = effects[r]
      /\ \A i \in Indices : effects'[req[w].run][i]
                              = IF i = j THEN effects[req[w].run][i] + 1 ELSE effects[req[w].run][i]
  BY <1>1, <1>3
<1>5. Others(w) /\ req'[w] = [req[w] EXCEPT !.pc = "succeeded"]
  BY <1>2, GotoMoves DEF ActionSucceeds, Pcs
<1>6. /\ req'[w].pc = "succeeded" /\ req'[w].copy = req[w].copy
      /\ req'[w].run = req[w].run /\ req'[w].op = req[w].op
  BY <1>2, <1>5 DEF Request
<1>7. Confined(w)
  BY <1>4, <1>5, <1>6 DEF ActionSucceeds, Confined
<1>8. ASSUME NEW r \in Clean, On(w, r) PROVE Sound(r)'
  <2>1. /\ Sound(r) /\ r \in Runs /\ req[w].copy = runs[r] /\ runs[r].status = "running"
        /\ Counted(r) /\ Behind(r) /\ runs[r].index = j
        /\ \A v \in Slots : On(v, r) => v = w
    BY <1>2, <1>8, AtWork DEF Whole, Clean, Working, Copying
  <2>2. Asked(r)'
    BY <1>2, <1>5, <1>8, <2>1, AskedStays DEF ActionSucceeds, Settling
  <2>3. On(w, r)' /\ req'[w].pc = "succeeded"
    BY <1>6, <1>8 DEF On
  <2>4. Counted(r)'
    <3>1. SUFFICES ASSUME r \notin marks.repeated, NEW i \in Indices
                   PROVE  effects'[r][i] <= 1 /\ (i > j => effects'[r][i] = 0)
      BY <2>1, <2>3 DEF Counted, ActionSucceeds
    <3>2. j \in Nat /\ i \in Nat
      BY StepsAssumption, LenProperties DEF Indices
    <3>3. CASE i = j
      <4>1. effects[r][j] = 0
        BY <1>2, <2>1, <3>1 DEF Counted
      <4> QED
        BY <1>4, <1>8, <3>2, <3>3, <4>1 DEF On
    <3>4. CASE i # j
      BY <1>4, <1>8, <2>1, <3>1, <3>4 DEF On, Counted
    <3> QED
      BY <3>3, <3>4
  <2>5. Behind(r)'
    BY <2>1, KeptStill, BehindStays DEF ActionSucceeds
  <2>6. Working(w, r)'
    BY <1>2, <1>6, <2>1 DEF ActionSucceeds, Working, Deciding, Settling
  <2> QED
    BY <1>2, <1>5, <1>6, <1>8, <2>1, <2>2, <2>4, <2>5, <2>6, OwnStep DEF On
<1> QED
  BY <1>2, <1>6, <1>7, <1>8 DEF Good, Resting, Running, Copying, Recording, Deciding

LEMMA SaveDecisionGood ==
  ASSUME Whole, NEW w \in Slots, SaveDecision(w)
  PROVE  Good(w)
<1> DEFINE app == req[w].app
<1>1. /\ Inv /\ req[w] \in Request /\ req[w].run \in Runs /\ req[w].pc = "saveDecision"
      /\ app \in DOMAIN approvals /\ req[w].op \in {"approved", "rejected"}
      /\ approvals[app].run = req[w].run /\ approvals[app] \in ApprovalRow
  BY Row DEF Whole, Inv, Documents, Local, Refers, SaveDecision, Running, Copying, Deciding,
             DecidesOwn, Runs
<1>2. approvals' = [approvals EXCEPT ![app].status = req[w].op]
  BY DEF SaveDecision
<1>3. /\ DOMAIN approvals' = DOMAIN approvals
      /\ \A a \in DOMAIN approvals : a # app => approvals'[a] = approvals[a]
      /\ approvals'[app].run = approvals[app].run /\ approvals'[app].step = approvals[app].step
      /\ approvals'[app].status = req[w].op
  BY <1>1, <1>2 DEF ApprovalRow
<1>4. Others(w) /\ req'[w] = [req[w] EXCEPT !.pc = "resolve"]
  BY <1>1, GotoMoves DEF SaveDecision, Pcs
<1>5. /\ req'[w].pc = "resolve" /\ req'[w].copy = req[w].copy /\ req'[w].app = app
      /\ req'[w].run = req[w].run /\ req'[w].op = req[w].op
  BY <1>1, <1>4 DEF Request
<1> HIDE DEF app
<1>6. Confined(w)
  BY <1>1, <1>3, <1>4, <1>5 DEF SaveDecision, Confined
<1>7. ASSUME NEW r \in Clean, On(w, r) PROVE Sound(r)'
  <2>1. /\ Sound(r) /\ r \in Runs /\ req[w].copy = runs[r] /\ approvals[app].status = "pending"
        /\ runs[r].status = "waiting_approval" /\ approvals[app].step = runs[r].index
        /\ Asked(r) /\ Behind(r)
    BY <1>1, <1>7 DEF Whole, Clean, Sound, Working, Copying, Deciding, app
  <2>2. Pending(r) = {app}
    BY <1>1, <1>7, <2>1 DEF Asked, Pending, On
  <2>3. Pending(r)' = {}
    BY <1>1, <1>3, <2>2 DEF Pending
  <2>4. On(w, r)' /\ req'[w].pc \in Settling
    BY <1>5, <1>7 DEF On, Settling
  <2>5. Asked(r)'
    <3>1. \A a \in DOMAIN approvals' : approvals'[a].run = r => Steps[approvals'[a].step].gate
      BY <1>1, <1>3, <2>1 DEF Asked
    <3> QED
      BY <2>3, <2>4, <3>1 DEF Asked
  <2>6. Counted(r)'
    BY <1>1, <1>4, <1>7, <2>1, CountedStays DEF SaveDecision
  <2>7. Behind(r)'
    <3>1. Kept(r)
      BY <1>3, <2>1 DEF Kept, SaveDecision
    <3> QED
      BY <2>1, <3>1, BehindStays DEF SaveDecision
  <2>8. Working(w, r)'
    BY <1>1, <1>3, <1>5, <2>1, <2>3 DEF SaveDecision, Working, Recording, Settling
  <2> QED
    BY <1>1, <1>4, <1>5, <1>7, <2>1, <2>5, <2>6, <2>7, <2>8, OwnStep DEF On
<1> QED
  BY <1>1, <1>5, <1>6, <1>7 DEF Good, Resting, Running, Copying, Deciding, app
-----------------------------------------------------------------------------
(* The steps of a request that is at work on no run.                        *)

LEMMA AtRest ==
  ASSUME Whole, NEW w \in Slots, NEW r \in Runs
  PROVE  r # 0 /\ (req[w].pc \notin Running => ~ On(w, r))
BY Row DEF Whole, Inv, Documents, Runs, On, Resting

(* It saves nothing, and goes to no run.                                    *)
LEMMA AsideKeepsWhole ==
  ASSUME Whole, Inv', NEW w \in Slots, UNCHANGED <<runs, stepRuns, approvals, effects, marks>>,
         Others(w), req[w].pc \notin Running, req'[w].pc \notin Running, req'[w].run = 0,
         req'[w].pc = "recover" => req'[w].op = "recover",
         req'[w].op = "recover" => req[w].op = "recover", Listening \/ req[w] # Idle
  PROVE  Whole'
<1>1. ASSUME NEW r \in Clean PROVE Sound(r)'
  <2>1. r \in Runs /\ ~ On(w, r) /\ ~ On(w, r)'
    BY AtRest DEF Clean, On
  <2>2. Untouched(r)
    BY <2>1 DEF Untouched, Others, On
  <2> QED
    BY <2>1, <2>2, UntouchedSound DEF Whole, Clean
<1>2. Clean' = Clean
  BY DEF Clean, Runs
<1>3. \A v, u \in Slots : req'[v].op = "recover" /\ u # v => req'[u] = Idle
  BY DEF Others, Whole, Listening
<1>4. \A v \in Slots : DecidesOwn(v)'
  BY DEF Others, Whole, DecidesOwn, Running, Copying, Deciding
<1> QED
  BY <1>1, <1>2, <1>3, <1>4 DEF Whole, Others, Resting

LEMMA TriggerKeepsWhole ==
  ASSUME Whole, Inv', NEW w \in Slots, NEW k \in Keys, Trigger(w, k)
  PROVE  Whole'
<1> DEFINE q == [Idle EXCEPT !.op = "trigger", !.pc = "lock", !.key = k]
<1>1. q \in Request /\ q.pc = "lock" /\ q.run = 0 /\ q.op = "trigger"
  BY DEF Idle, Request, Ops, Pcs
<1>2. Others(w) /\ req'[w] = q
  BY <1>1, BecomeMoves DEF Trigger, Whole
<1> QED
  BY <1>1, <1>2, AsideKeepsWhole DEF Trigger, IsIdle, Running, Copying, Recording

LEMMA FindExistingKeepsWhole ==
  ASSUME Whole, Inv', NEW w \in Slots, FindExisting(w)
  PROVE  Whole'
<1>1. Inv /\ req[w] \in Request /\ req[w].pc = "lock" /\ req[w].run = 0 /\ req[w] # Idle
  BY DEF FindExisting, Whole, Inv, Idle, Resting, Running, Copying, Recording
<1>2. CASE Done(w)
  BY <1>1, <1>2, DoneLeaves, AsideKeepsWhole DEF FindExisting, Running, Copying, Recording
<1>3. CASE Goto(w, "create")
  <2>1. Others(w) /\ req'[w] = [req[w] EXCEPT !.pc = "create"]
    BY <1>1, <1>3, GotoMoves DEF Pcs
  <2>2. req'[w].pc = "create" /\ req'[w].run = 0 /\ req'[w].op = req[w].op
    BY <1>1, <2>1 DEF Request
  <2> QED
    BY <1>1, <2>1, <2>2, AsideKeepsWhole DEF FindExisting, Running, Copying, Recording
<1> QED
  BY <1>2, <1>3 DEF FindExisting

LEMMA RecoverEndKeepsWhole ==
  ASSUME Whole, Inv', NEW w \in Slots, RecoverEnd(w)
  PROVE  Whole'
<1>1. Idle \in Request /\ Idle.pc = "idle" /\ Idle.run = 0 /\ Idle.op = "none"
  BY DEF Idle, Request, Ops, Pcs
<1>2. Others(w) /\ req'[w] = Idle
  BY <1>1, BecomeMoves DEF RecoverEnd, Whole
<1>3. req[w] # Idle
  BY <1>1 DEF RecoverEnd
<1> QED
  BY <1>1, <1>2, <1>3, AsideKeepsWhole DEF RecoverEnd, Running, Copying, Recording

(* It goes to the run s, where nobody else is at work unless that is noted. *)
LEMMA JoinKeepsWhole ==
  ASSUME Whole, Inv', NEW w \in Slots, NEW s \in Runs,
         UNCHANGED <<runs, stepRuns, approvals, effects, marks.dropped, marks.repeated>>,
         marks.doubled \subseteq marks'.doubled,
         Others(w), req[w].pc \notin Running, req'[w].pc \in Running, req'[w].run = s,
         req'[w].op = "recover" => req[w].op = "recover", Listening \/ req[w] # Idle,
         DecidesOwn(w)',
         s \notin marks'.doubled => \A v \in Slots : v # w => ~ On(v, s),
         s \in Clean /\ s \notin marks'.doubled => Working(w, s)'
  PROVE  Whole'
<1>1. Clean' \subseteq Clean
  BY DEF Clean, Runs
<1>2. ASSUME NEW r \in Clean, r # s PROVE Sound(r)'
  <2>1. r \in Runs /\ ~ On(w, r) /\ ~ On(w, r)'
    BY <1>2, AtRest DEF Clean, On
  <2>2. Untouched(r)
    BY <2>1 DEF Untouched, Others, On
  <2> QED
    BY <2>1, <2>2, UntouchedSound DEF Whole, Clean
<1>3. ASSUME s \in Clean, s \notin marks'.doubled PROVE Sound(s)'
  <2>1. Sound(s) /\ \A v \in Slots : ~ On(v, s)
    BY <1>3, AtRest DEF Whole
  <2>2. \A v \in Slots : v # w => ~ On(v, s)'
    BY <2>1 DEF Others, On
  <2>3. Pending(s)' = Pending(s)
    BY DEF Pending
  <2>4. Asked(s)'
    BY <2>1, <2>3 DEF Sound, Asked
  <2>5. Counted(s)'
    BY <2>1 DEF Sound, Counted
  <2>6. Behind(s)'
    BY <2>1, KeptStill, BehindStays DEF Sound
  <2> QED
    BY <1>3, <2>2, <2>4, <2>5, <2>6 DEF Sound, OneAtWork
<1>4. \A v, u \in Slots : req'[v].op = "recover" /\ u # v => req'[u] = Idle
  BY DEF Others, Whole, Listening
<1>5. \A v \in Slots : DecidesOwn(v)'
  BY DEF Others, Whole, DecidesOwn
<1>6. \A v \in Slots : Resting(v)'
  BY DEF Others, Whole, Resting
<1>7. \A r \in Clean' : Sound(r)'
  BY <1>1, <1>2, <1>3 DEF Clean
<1> QED
  BY <1>4, <1>5, <1>6, <1>7 DEF Whole

(* A run somebody else is at work on is noted as doubled.                   *)
LEMMA HasteNoted ==
  ASSUME Whole, NEW s \in Runs, NoteHaste(s)
  PROVE  /\ UNCHANGED <<marks.dropped, marks.repeated>>
         /\ marks.doubled \subseteq marks'.doubled
         /\ s \notin marks'.doubled => \A v \in Slots : ~ On(v, s)
BY DEF NoteHaste, Whole, Inv, Documents, Marks, On

LEMMA StartDecideKeepsWhole ==
  ASSUME Whole, Inv', NEW w \in Slots, NEW a \in DOMAIN approvals,
         NEW verdict \in {"approved", "rejected"}, StartDecide(w, a, verdict)
  PROVE  Whole'
<1>1. PICK s \in Runs : s = approvals[a].run
  BY DEF Whole, Inv, Documents
<1> DEFINE q == [Idle EXCEPT !.op = verdict, !.pc = "decide", !.app = a, !.run = s]
<1>2. Inv /\ a \in Nat /\ s \in Nat
  BY Row DEF Whole, Inv, Documents, Runs
<1>3. /\ q \in Request /\ q.pc = "decide" /\ q.op = verdict /\ q.app = a /\ q.run = s
  BY <1>2 DEF Idle, Request, Ops, Pcs
<1>4. Others(w) /\ req'[w] = q
  BY <1>2, <1>1, <1>3, BecomeMoves DEF StartDecide
<1>5. /\ UNCHANGED <<marks.dropped, marks.repeated>>
      /\ marks.doubled \subseteq marks'.doubled
      /\ s \notin marks'.doubled => \A v \in Slots : ~ On(v, s)
  BY <1>1, HasteNoted DEF StartDecide
<1>6. ASSUME s \in Clean, s \notin marks'.doubled PROVE Working(w, s)'
  <2>1. Asked(s) /\ a \in Pending(s)
    BY <1>1, <1>6 DEF Whole, Sound, Pending, StartDecide
  <2>2. approvals[a].step = runs[s].index /\ runs[s].status = "waiting_approval"
    BY <1>5, <1>6, <2>1 DEF Asked
  <2> QED
    BY <1>3, <1>4, <2>2 DEF StartDecide, Working, Copying, Recording, Settling
<1>7. DecidesOwn(w)'
  BY <1>1, <1>3, <1>4 DEF StartDecide, DecidesOwn
<1> QED
  BY <1>2, <1>1, <1>3, <1>4, <1>5, <1>6, <1>7, JoinKeepsWhole
     DEF StartDecide, IsIdle, Running, Copying, Recording

LEMMA StartRetryKeepsWhole ==
  ASSUME Whole, Inv', NEW w \in Slots, NEW s \in Runs, StartRetry(w, s)
  PROVE  Whole'
<1> DEFINE q == [Idle EXCEPT !.op = "retry", !.pc = "retry", !.run = s, !.copy = runs[s]]
<1>1. Inv /\ s \in Nat /\ runs[s] \in RunRow
  BY Row DEF Whole, Inv, Documents, Runs
<1>2. q \in Request /\ q.pc = "retry" /\ q.op = "retry" /\ q.run = s /\ q.copy = runs[s]
  BY <1>1 DEF Idle, Request, Ops, Pcs
<1>3. Others(w) /\ req'[w] = q
  BY <1>1, <1>2, BecomeMoves DEF StartRetry
<1>4. /\ UNCHANGED <<marks.dropped, marks.repeated>>
      /\ marks.doubled \subseteq marks'.doubled
      /\ s \notin marks'.doubled => \A v \in Slots : ~ On(v, s)
  BY HasteNoted DEF StartRetry
<1>5. Working(w, s)'
  BY <1>2, <1>3 DEF StartRetry, Retryable, Working, Recording, Deciding, Settling
<1>6. DecidesOwn(w)'
  BY <1>2, <1>3 DEF DecidesOwn, Deciding
<1> QED
  BY <1>2, <1>3, <1>4, <1>5, <1>6, JoinKeepsWhole
     DEF StartRetry, IsIdle, Running, Copying, Recording

LEMMA RecoverNextKeepsWhole ==
  ASSUME Whole, Inv', NEW w \in Slots, NEW s \in Runs, RecoverNext(w, s)
  PROVE  Whole'
<1> DEFINE q == [req[w] EXCEPT !.pc = "execute", !.run = s, !.todo = @ \ {s}]
<1>1. Inv /\ req[w] \in Request /\ req[w].pc = "recover" /\ s \in Nat
  BY Row DEF Whole, Inv, Documents, Runs, RecoverNext
<1>2. q \in Request /\ q.pc = "execute" /\ q.run = s /\ q.op = req[w].op
  BY <1>1 DEF Request, Pcs
<1>3. Others(w) /\ req'[w] = q
  BY <1>1, <1>2, BecomeMoves DEF RecoverNext
<1>4. \A v \in Slots : v # w => ~ On(v, s)
  <2>1. req[w].op = "recover"
    BY <1>1 DEF Whole, Resting, Running, Copying, Recording
  <2>2. \A v \in Slots : v # w => req[v] = Idle
    BY <2>1 DEF Whole
  <2> QED
    BY <2>2, AtRest DEF On, Idle
<1>5. Working(w, s)'
  BY <1>2, <1>3 DEF Working, Copying, Recording, Deciding, Settling
<1>6. DecidesOwn(w)'
  BY <1>2, <1>3 DEF DecidesOwn, Deciding
<1>7. req[w] # Idle
  BY <1>1 DEF Idle
<1> QED
  BY <1>1, <1>2, <1>3, <1>4, <1>5, <1>6, <1>7, JoinKeepsWhole
     DEF RecoverNext, Running, Copying, Recording
-----------------------------------------------------------------------------
(* A new run: its request is about to execute it, and nothing else refers   *)
(* to it.                                                                   *)
LEMMA CreateRunKeepsWhole ==
  ASSUME Whole, Inv', NEW w \in Slots, CreateRun(w)
  PROVE  Whole'
<1>1. PICK n \in Nat : n = Len(runs) + 1
  BY LenProperties DEF Whole, Inv, Documents
<1> DEFINE row == [key |-> req[w].key, status |-> "running", index |-> 1]
           zero == [i \in Indices |-> 0]
           q == [req[w] EXCEPT !.pc = "execute", !.run = n]
<1>2. /\ Inv /\ req[w] \in Request /\ req[w].pc = "create" /\ req[w].run = 0
      /\ req[w].key \in Keys /\ req[w].pc \notin Running
  BY DEF CreateRun, Whole, Inv, Local, Refers, Triggering, Resting, Running, Copying, Recording
<1>3. /\ runs \in Seq(RunRow) /\ row \in RunRow /\ runs' = Append(runs, row)
      /\ stepRuns \in Seq(Seq(StepRunRow)) /\ <<>> \in Seq(StepRunRow)
      /\ effects \in Seq([Indices -> Nat]) /\ zero \in [Indices -> Nat]
      /\ Len(stepRuns) = Len(runs) /\ Len(effects) = Len(runs)
  BY <1>2, EmptySeq DEF CreateRun, Inv, Documents, RunRow, RunStatus
<1>4. /\ runs'[n] = row /\ \A r \in 1 .. Len(runs) : runs'[r] = runs[r]
      /\ stepRuns'[n] = <<>> /\ \A r \in 1 .. Len(runs) : stepRuns'[r] = stepRuns[r]
      /\ effects'[n] = zero /\ \A r \in 1 .. Len(runs) : effects'[r] = effects[r]
      /\ Len(runs') = n /\ runs' \in Seq(RunRow)
  BY <1>1, <1>3, AppendProperties DEF CreateRun
<1>5. Runs = 1 .. Len(runs) /\ Runs' = 1 .. n /\ Len(runs) \in Nat
  BY <1>3, <1>4, LenProperties DEF Runs
<1>6. Runs' = Runs \cup {n} /\ n \notin Runs /\ n # 0 /\ n \in Nat
  BY <1>1, <1>5
<1>7. q \in Request
  BY <1>2, <1>6 DEF Request, Pcs
<1>8. Others(w) /\ req'[w] = q
  BY <1>2, <1>4, <1>7, BecomeMoves DEF CreateRun
<1>9. req'[w].pc = "execute" /\ req'[w].run = n /\ req'[w].op = req[w].op
  BY <1>2, <1>8 DEF Request
<1>10. ASSUME NEW r \in Clean PROVE Sound(r)'
  <2>1. r \in Runs /\ ~ On(w, r) /\ ~ On(w, r)'
    BY <1>2, <1>6, <1>9, AtRest DEF Clean, On
  <2>2. Untouched(r)
    BY <1>4, <1>5, <1>8, <2>1 DEF CreateRun, Untouched, Others, On
  <2> QED
    BY <2>1, <2>2, UntouchedSound DEF Whole, Clean
<1>11. Sound(n)'
  <2>1. \A v \in Slots : v # w => ~ On(v, n)'
    <3>1. \A v \in Slots : req[v].run \in Runs \cup {0}
      BY DEF Whole, Inv, Local, Refers, Resting, Runs
    <3> QED
      BY <1>6, <1>8, <3>1 DEF Others, On
  <2>2. OneAtWork(n)'
    BY <2>1 DEF OneAtWork
  <2>3. Working(w, n)'
    BY <1>9 DEF Working, Copying, Recording, Deciding, Settling
  <2>4. \A a \in DOMAIN approvals' : approvals'[a].run # n
    BY <1>6 DEF CreateRun, Whole, Inv, Documents
  <2>5. Asked(n)'
    BY <1>4, <2>4 DEF Asked, Pending
  <2>6. Counted(n)'
    BY <1>4 DEF Counted
  <2>7. Behind(n)'
    <3>1. \A i \in Indices : i \in 1 .. Len(Steps) /\ Len(Steps) \in Nat
      BY StepsAssumption, LenProperties DEF Indices
    <3>2. \A i \in Indices : ~ (i < 1)
      BY <3>1
    <3> QED
      BY <1>4, <3>2 DEF Behind
  <2> QED
    BY <2>1, <2>2, <2>3, <2>5, <2>6, <2>7 DEF Sound
<1>12. \A r \in Clean' : Sound(r)'
  BY <1>6, <1>10, <1>11 DEF CreateRun, Clean
<1>13. \A v, u \in Slots : req'[v].op = "recover" /\ u # v => req'[u] = Idle
  <2>1. \A v \in Slots : v # w => req[v].op # "recover"
    BY <1>2 DEF Idle, Whole
  <2>2. \A v \in Slots : req[v].op = "recover" => \A u \in Slots : u # v => req[u] = Idle
    BY DEF Whole
  <2> QED
    BY <1>8, <1>9, <2>1, <2>2 DEF Others
<1>14. \A v \in Slots : DecidesOwn(v)' /\ Resting(v)'
  <2>1. \A v \in Slots : DecidesOwn(v) /\ Resting(v)
    BY DEF Whole
  <2> QED
    BY <1>8, <1>9, <2>1
       DEF CreateRun, Others, DecidesOwn, Resting, Deciding, Running, Copying, Recording
<1> QED
  BY <1>12, <1>13, <1>14 DEF Whole

(* A restart: what it cuts in two is noted, and of what is left only the    *)
(* documents speak.                                                         *)
LEMMA CrashKeepsWhole ==
  ASSUME Whole, Inv', Crash
  PROVE  Whole'
<1> DEFINE next == [Idle EXCEPT !.op = "recover", !.pc = "recover", !.todo = Stuck]
<1>1. PICK w \in Slots :
        req' = [v \in Slots |-> IF v = w /\ Stuck # {} THEN next ELSE Idle]
  BY DEF Crash
<1>2. /\ Idle.pc = "idle" /\ Idle.run = 0 /\ Idle.op = "none"
      /\ next.pc = "recover" /\ next.run = 0 /\ next.op = "recover"
  BY DEF Idle
<1>3. \A v \in Slots : req'[v].pc \notin Running /\ req'[v].run = 0 /\ Resting(v)' /\ DecidesOwn(v)'
  BY <1>1, <1>2 DEF Resting, DecidesOwn, Running, Copying, Recording, Deciding
<1>4. \A v, u \in Slots : req'[v].op = "recover" /\ u # v => req'[u] = Idle
  BY <1>1, <1>2
<1>5. /\ marks'.repeated = marks.repeated \cup RunsAt({"succeeded", "advance"})
      /\ marks'.doubled = marks.doubled \cup RunsAt({"park"})
      /\ marks'.dropped = marks.dropped \cup RunsAt(Settling)
  BY DEF Crash, Settling
<1>6. ASSUME NEW r \in Clean' PROVE Sound(r)'
  <2>1. /\ r \in Clean /\ Sound(r) /\ r # 0 /\ r \in Runs
        /\ \A v \in Slots : On(v, r) => req[v].pc # "park"
    <3>1. r \in Clean /\ r \notin RunsAt({"park"})
      BY <1>5 DEF Crash, Clean, Runs
    <3> QED
      BY <3>1, AtRest DEF Whole, Clean, RunsAt, On
  <2>2. \A v \in Slots : ~ On(v, r)'
    BY <1>3, <2>1 DEF On
  <2>3. Pending(r)' = Pending(r)
    BY DEF Crash, Pending
  <2>4. Asked(r)'
    <3>1. r \notin marks'.dropped
            => r \notin marks.dropped /\ \A v \in Slots : On(v, r) => req[v].pc \notin Settling
      BY <1>5 DEF RunsAt, On
    <3> QED
      BY <2>1, <2>3, <3>1 DEF Crash, Sound, Asked
  <2>5. Counted(r)'
    <3>1. r \notin marks'.repeated
            => /\ r \notin marks.repeated
               /\ \A v \in Slots : On(v, r) => req[v].pc \notin {"succeeded", "advance"}
      BY <1>5 DEF RunsAt, On
    <3> QED
      BY <2>1, <3>1 DEF Crash, Sound, Counted
  <2>6. Behind(r)'
    BY <2>1, KeptStill, BehindStays DEF Crash, Sound
  <2> QED
    BY <2>2, <2>4, <2>5, <2>6 DEF Sound, OneAtWork
<1> QED
  BY <1>3, <1>4, <1>6 DEF Whole
-----------------------------------------------------------------------------
LEMMA StepKeepsWhole ==
  ASSUME Whole, Inv', NEW w \in Slots, Step(w)
  PROVE  Whole'
<1>1. CASE FindExisting(w)
  BY <1>1, FindExistingKeepsWhole
<1>2. CASE CreateRun(w)
  BY <1>2, CreateRunKeepsWhole
<1>3. CASE \E r \in Runs : RecoverNext(w, r)
  BY <1>3, RecoverNextKeepsWhole
<1>4. CASE RecoverEnd(w)
  BY <1>4, RecoverEndKeepsWhole
<1>5. Inv
  BY DEF Whole
<1>6. CASE SkipStep(w) \/ ReachGate(w) \/ RecordSuccess(w) \/ RecordFailure(w)
  <2>1. Runs' = Runs
    BY <1>5, <1>6, SkipStepEffects, ReachGateEffects, RecordSuccessEffects, RecordFailureEffects
       DEF Plain
  <2> QED
    BY <1>6, <2>1, SkipStepGood, ReachGateGood, RecordSuccessGood, RecordFailureGood,
       GoodKeepsWhole
<1>7. CASE Execute(w) \/ Ask(w) \/ ActionSucceeds(w) \/ ActionFails(w)
  <2>1. Runs' = Runs
    BY <1>5, <1>7, ExecuteEffects, AskEffects, ActionSucceedsEffects, ActionFailsEffects
       DEF Plain
  <2> QED
    BY <1>7, <2>1, ExecuteGood, AskGood, ActionSucceedsGood, ActionFailsGood, GoodKeepsWhole
<1>8. CASE Park(w) \/ Advance(w) \/ Fail(w) \/ Complete(w)
  <2>1. Runs' = Runs
    BY <1>5, <1>8, ParkEffects, AdvanceEffects, FailEffects, CompleteEffects DEF Plain
  <2> QED
    BY <1>8, <2>1, ParkGood, AdvanceGood, FailGood, CompleteGood, GoodKeepsWhole
<1>9. CASE ReadDecided(w) \/ SaveDecision(w) \/ Resolve(w) \/ Resume(w)
  <2>1. Runs' = Runs
    BY <1>5, <1>9, ReadDecidedEffects, SaveDecisionEffects, ResolveEffects, ResumeEffects
       DEF Plain
  <2> QED
    BY <1>9, <2>1, ReadDecidedGood, SaveDecisionGood, ResolveGood, ResumeGood, GoodKeepsWhole
<1>10. CASE SaveRetry(w)
  <2>1. Runs' = Runs
    BY <1>5, <1>10, SaveRetryEffects DEF Plain
  <2> QED
    BY <1>10, <2>1, SaveRetryGood, GoodKeepsWhole
<1> QED
  BY <1>1, <1>2, <1>3, <1>4, <1>6, <1>7, <1>8, <1>9, <1>10 DEF Step

LEMMA NextKeepsWhole ==
  ASSUME Whole, [Next]_vars
  PROVE  Whole'
<1>1. Inv'
  BY NextKeepsInv DEF Whole
<1>2. CASE UNCHANGED vars
  <2>1. \A r \in Clean : Sound(r)'
    <3>1. \A r \in Clean : Untouched(r)
      BY <1>2 DEF vars, Untouched, On
    <3> QED
      BY <3>1, UntouchedSound DEF Whole, Clean
  <2>2. Clean' = Clean
    BY <1>2 DEF vars, Clean, Runs
  <2> QED
    BY <1>1, <1>2, <2>1, <2>2 DEF vars, Whole, Resting, DecidesOwn
<1>3. CASE Crash
  BY <1>1, <1>3, CrashKeepsWhole
<1>4. ASSUME NEW w \in Slots, NEW k \in Keys, Trigger(w, k) PROVE Whole'
  BY <1>1, <1>4, TriggerKeepsWhole
<1>5. ASSUME NEW w \in Slots, NEW a \in DOMAIN approvals,
             NEW verdict \in {"approved", "rejected"}, StartDecide(w, a, verdict)
      PROVE  Whole'
  BY <1>1, <1>5, StartDecideKeepsWhole
<1>6. ASSUME NEW w \in Slots, NEW r \in Runs, StartRetry(w, r) PROVE Whole'
  BY <1>1, <1>6, StartRetryKeepsWhole
<1>7. ASSUME NEW w \in Slots, Step(w) PROVE Whole'
  BY <1>1, <1>7, StepKeepsWhole
<1> QED
  BY <1>2, <1>3, <1>4, <1>5, <1>6, <1>7 DEF Next

LEMMA WholeAtFirst == Init => Whole
<1> SUFFICES ASSUME Init PROVE Whole
  OBVIOUS
<1>1. Idle.pc = "idle" /\ Idle.run = 0 /\ Idle.op = "none"
  BY DEF Idle
<1>2. Clean = {}
  BY DEF Init, Clean, Runs
<1>3. \A w \in Slots : Resting(w) /\ DecidesOwn(w) /\ req[w] = Idle
  BY <1>1 DEF Init, Resting, DecidesOwn, Deciding
<1> QED
  BY <1>2, <1>3, Inits DEF Whole

(* What a run and the request at work on it agree on holds throughout.      *)
THEOREM WholeHolds == Spec => []Whole
<1>1. Whole /\ [Next]_vars => Whole'
  BY NextKeepsWhole
<1> QED
  BY WholeAtFirst, <1>1, PTL DEF Spec

(* The action of a step succeeds once in a run, through retries, decisions  *)
(* and recoveries, but where a restart cut the action from its save or two  *)
(* requests had the run at once (automation.service.ts:831-836, 846-850).   *)
THEOREM ExecutesOnce == Spec => []ExecutedOnce
<1>1. Whole => ExecutedOnce
  BY DEF Whole, Clean, Sound, Counted, ExecutedOnce
<1> QED
  BY WholeHolds, <1>1, PTL

(* A run is never past a step that was neither approved, done, failed as it *)
(* may, nor skipped (automation.service.ts:632-719, 1235-1253).             *)
THEOREM LeavesNoStepBehind == Spec => []StepsDealtWith
<1>1. Whole => StepsDealtWith
  BY DEF Whole, Clean, Sound, Behind, StepsDealtWith
<1> QED
  BY WholeHolds, <1>1, PTL

(* A run that waits has an approval pending or a request that carries its   *)
(* decision (automation.service.ts:654-657, 1235-1272).                     *)
THEOREM AsksWhileItWaits == Spec => []WaitingIsAsked
<1>1. Whole => WaitingIsAsked
  BY DEF Whole, Clean, Sound, Asked, Pending, On, WaitingIsAsked
<1> QED
  BY WholeHolds, <1>1, PTL

(* The rows of runs are saved by seven steps, and each finds its run        *)
(* running, failed or waiting.                                              *)
LEMMA EndedStayStep ==
  ASSUME Whole, [Next]_vars, NEW r \in Clean, Ended(r)
  PROVE  runs'[r] = runs[r]
<1>1. r \in Runs /\ Sound(r) /\ Inv
  BY DEF Whole, Clean
<1>2. ASSUME NEW w \in Slots, NEW STATE row, SaveRun(w, row),
             req[w].pc \in Recording \cup {"step", "resume", "retry"}
      PROVE  runs'[r] = runs[r]
  <2>1. req[w].run \in Runs
    BY <1>1, <1>2 DEF Inv, Local, Refers, Running, Copying, Recording, Runs
  <2>2. ~ On(w, r)
    BY <1>1, <1>2 DEF Sound, Working, Ended, Deciding
  <2> QED
    BY <1>1, <1>2, <2>1, <2>2, SavedRow DEF On
<1>3. ASSUME NEW w \in Slots, CreateRun(w) PROVE runs'[r] = runs[r]
  <2>1. /\ runs \in Seq(RunRow) /\ r \in 1 .. Len(runs)
        /\ [key |-> req[w].key, status |-> "running", index |-> 1] \in RunRow
    BY <1>1, <1>3, Row
       DEF CreateRun, Inv, Documents, Runs, Local, Refers, Triggering, RunRow, RunStatus
  <2> QED
    BY <1>3, <2>1, AppendProperties DEF CreateRun
<1>4. ASSUME NEW w \in Slots, Step(w) PROVE runs'[r] = runs[r]
  <2>1. CASE Park(w) \/ Fail(w) \/ Complete(w)
    BY <1>2, <2>1 DEF Park, Fail, Complete, Recording
  <2>2. CASE Advance(w)
    BY <1>2, <2>2 DEF Advance, Recording
  <2>3. CASE Resume(w)
    BY <1>2, <2>3 DEF Resume
  <2>4. CASE SaveRetry(w)
    BY <1>2, <2>4 DEF SaveRetry
  <2>5. CASE \/ FindExisting(w) \/ \E s \in Runs : RecoverNext(w, s)
             \/ Execute(w) \/ SkipStep(w) \/ ReachGate(w) \/ Ask(w)
    BY <2>5 DEF FindExisting, RecoverNext, Execute, SkipStep, ReachGate, Ask
  <2>6. CASE \/ ActionSucceeds(w) \/ ActionFails(w) \/ RecordSuccess(w) \/ RecordFailure(w)
             \/ ReadDecided(w) \/ SaveDecision(w) \/ Resolve(w) \/ RecoverEnd(w)
    BY <2>6 DEF ActionSucceeds, ActionFails, RecordSuccess, RecordFailure, ReadDecided,
       SaveDecision, Resolve, RecoverEnd
  <2> QED
    BY <1>3, <1>4, <2>1, <2>2, <2>3, <2>4, <2>5, <2>6 DEF Step
<1> QED
  BY <1>4 DEF Next, Trigger, StartDecide, StartRetry, Crash, vars

(* A run that has been completed or cancelled is never saved again          *)
(* (automation.service.ts:627, 839, 1277).                                  *)
THEOREM EndedRunsStay == Spec => EndedStays
<1>1. Whole /\ [Next]_vars
        => [\A r \in Runs : Ended(r) /\ r \notin marks.doubled => runs'[r] = runs[r]]_vars
  BY EndedStayStep DEF Clean
<1> QED
  BY WholeHolds, <1>1, PTL DEF Spec, EndedStays
=============================================================================

----------------------------- MODULE Automation -----------------------------
(***************************************************************************)
(* src/src/modules/automation/automation.service.ts: the runs of one       *)
(* active workflow.  A trigger (event, webhook, scheduler, a user) creates *)
(* a run once per idempotency key; the run executes the steps, each        *)
(* followed by a save of the index reached; a gate (require_approval)      *)
(* parks it until somebody decides; a failed run may be retried; and the   *)
(* runs a dead process left `running` are executed again at boot.          *)
(*                                                                         *)
(* As in Inventory a request is a program counter with the values it has   *)
(* read: `copy` is the WorkflowRun it will save.  keyLock stands for       *)
(* idempotencyMutex.  The limiter of executions is left out: it only       *)
(* delays (see ConcurrencyLimiter).                                        *)
(***************************************************************************)
EXTENDS Naturals, Sequences, FiniteSets

CONSTANTS
  Steps,        \* the steps of the workflow
  Keys,         \* idempotency keys of triggers
  Skips,        \* <<key, step>>: the payload fails the conditions of the step
  MaxRuns,      \* bounds the runs created
  Slots,        \* bounds the requests in progress at once
  MaxRetries,   \* bounds the failures after which a run is retried
  MaxRestarts,  \* bounds how often the process stops and starts again
  None

StepRow == [gate : BOOLEAN, maxRetries : Nat, stop : BOOLEAN]

ASSUME StepsAssumption == Steps \in Seq(StepRow)
ASSUME BoundAssumption == MaxRuns \in Nat /\ MaxRetries \in Nat /\ MaxRestarts \in Nat

VARIABLES
  runs,       \* the WorkflowRun rows, in the order of creation
  stepRuns,   \* for each run its WorkflowStepRun rows, in that order
  approvals,  \* the ApprovalRequest rows, in the order of creation
  keyLock,    \* [Keys -> the slot inside idempotencyMutex, or None]
  req,        \* [Slots -> the request in progress]
  effects,    \* auxiliary: for each run, how often the action of a step succeeded
  marks       \* auxiliary: what restarts and hasty users have done to runs

vars == <<runs, stepRuns, approvals, keyLock, req, effects, marks>>

Indices == DOMAIN Steps
Runs == DOMAIN runs
RunStatus == {"running", "waiting_approval", "completed", "failed", "cancelled"}
StepRunStatus == {"succeeded", "failed", "skipped", "waiting_approval"}
RunRow == [key : Keys, status : RunStatus, index : Nat]
StepRunRow == [step : Indices, status : StepRunStatus]
ApprovalRow == [run : Nat, step : Indices, status : {"pending", "approved", "rejected"}]

ASSUME NoneAssumption ==
  /\ None \notin Slots \cup Keys
  /\ None \notin RunRow

Idle == [op |-> "none", pc |-> "idle", key |-> None, run |-> 0, copy |-> None,
         app |-> 0, tries |-> 0, todo |-> {}]

IsIdle(w) == req[w].pc = "idle"
Become(w, q) == req' = [req EXCEPT ![w] = q]
Goto(w, pc) == Become(w, [req[w] EXCEPT !.pc = pc])

(* The end of a request; recoverStuckRuns goes on with the next run.        *)
Done(w) ==
  Become(w, IF req[w].op = "recover"
              THEN [Idle EXCEPT !.op = "recover", !.pc = "recover", !.todo = req[w].todo]
              ELSE Idle)

(* main.ts listens, and starts its timers, after the recovery.              *)
Listening == \A w \in Slots : req[w].op # "recover"

SaveRun(w, row) == runs' = [runs EXCEPT ![req[w].run] = row]
AddStepRun(w, status) ==
  stepRuns' = [stepRuns EXCEPT ![req[w].run] =
                 Append(@, [step |-> req[w].copy.index, status |-> status])]

Init ==
  /\ runs = <<>>
  /\ stepRuns = <<>>
  /\ approvals = <<>>
  /\ keyLock = [k \in Keys |-> None]
  /\ req = [w \in Slots |-> Idle]
  /\ effects = <<>>
  /\ marks = [restarts |-> 0, repeated |-> {}, doubled |-> {}, dropped |-> {}]
-----------------------------------------------------------------------------
(* handleEvent, receiveWebhook, runDueScheduledWorkflows: getOrCreateRun.   *)

RunsFor(k) == {r \in Runs : runs[r].key = k}

(* Bound: a trigger comes only while MaxRuns leaves room for what it creates. *)
RunLeft ==
  Len(runs) + Cardinality({w \in Slots : req[w].pc \in {"lock", "create"}}) < MaxRuns

Trigger(w, k) ==
  /\ IsIdle(w)
  /\ Listening
  /\ RunLeft
  /\ Become(w, [Idle EXCEPT !.op = "trigger", !.pc = "lock", !.key = k])
  /\ UNCHANGED <<runs, stepRuns, approvals, keyLock, effects, marks>>

(* Mutant: the lookup and the creation run outside the mutex. *)
FreeAlways(k) == TRUE

Free(k) == keyLock[k] = None

FindExisting(w) ==
  /\ req[w].pc = "lock"
  /\ Free(req[w].key)
  /\ IF RunsFor(req[w].key) # {}
       THEN Done(w) /\ UNCHANGED keyLock
       ELSE Goto(w, "create") /\ keyLock' = [keyLock EXCEPT ![req[w].key] = w]
  /\ UNCHANGED <<runs, stepRuns, approvals, effects, marks>>

CreateRun(w) ==
  /\ req[w].pc = "create"
  /\ runs' = Append(runs, [key |-> req[w].key, status |-> "running", index |-> 1])
  /\ stepRuns' = Append(stepRuns, <<>>)
  /\ effects' = Append(effects, [i \in Indices |-> 0])
  /\ keyLock' = [keyLock EXCEPT ![req[w].key] = None]
  /\ Become(w, [req[w] EXCEPT !.pc = "execute", !.run = Len(runs')])
  /\ UNCHANGED <<approvals, marks>>
-----------------------------------------------------------------------------
(* executeRunInternal. *)

Execute(w) ==
  /\ req[w].pc = "execute"
  /\ IF runs[req[w].run].status # "running" THEN Done(w)
     ELSE Become(w, [req[w] EXCEPT !.pc = "step", !.copy = runs[req[w].run]])
  /\ UNCHANGED <<runs, stepRuns, approvals, keyLock, effects, marks>>

(* The request is about to take step i of its run. *)
AtStep(w, i) == req[w].pc = "step" /\ i = req[w].copy.index /\ i \in Indices
Skipped(w, i) == <<req[w].copy.key, i>> \in Skips

SkipStep(w) ==
  /\ \E i \in Indices : AtStep(w, i) /\ Skipped(w, i)
  /\ AddStepRun(w, "skipped")
  /\ Goto(w, "advance")
  /\ UNCHANGED <<runs, approvals, keyLock, effects, marks>>

(* A gate: step run, approval request and run are saved one by one. *)
ReachGate(w) ==
  /\ \E i \in Indices : AtStep(w, i) /\ ~ Skipped(w, i) /\ Steps[i].gate
  /\ AddStepRun(w, "waiting_approval")
  /\ Goto(w, "ask")
  /\ UNCHANGED <<runs, approvals, keyLock, effects, marks>>

Ask(w) ==
  /\ req[w].pc = "ask"
  /\ approvals' = Append(approvals,
       [run |-> req[w].run, step |-> req[w].copy.index, status |-> "pending"])
  /\ Goto(w, "park")
  /\ UNCHANGED <<runs, stepRuns, keyLock, effects, marks>>

Park(w) ==
  /\ req[w].pc = "park"
  /\ SaveRun(w, [req[w].copy EXCEPT !.status = "waiting_approval"])
  /\ Done(w)
  /\ UNCHANGED <<stepRuns, approvals, keyLock, effects, marks>>

(* One attempt of executeAction. *)
Attempting(w, i) == AtStep(w, i) /\ ~ Skipped(w, i) /\ ~ Steps[i].gate

ActionSucceeds(w) ==
  /\ \E i \in Indices :
       /\ Attempting(w, i)
       /\ effects' = [effects EXCEPT ![req[w].run][i] = @ + 1]
  /\ Goto(w, "succeeded")
  /\ UNCHANGED <<runs, stepRuns, approvals, keyLock, marks>>

ActionFails(w) ==
  /\ \E i \in Indices :
       /\ Attempting(w, i)
       /\ Become(w, IF req[w].tries < Steps[i].maxRetries
                      THEN [req[w] EXCEPT !.tries = @ + 1]
                      ELSE [req[w] EXCEPT !.pc = "failed", !.tries = 0])
  /\ UNCHANGED <<runs, stepRuns, approvals, keyLock, effects, marks>>

RecordSuccess(w) ==
  /\ req[w].pc = "succeeded"
  /\ AddStepRun(w, "succeeded")
  /\ Become(w, [req[w] EXCEPT !.pc = "advance", !.tries = 0])
  /\ UNCHANGED <<runs, approvals, keyLock, effects, marks>>

(* Mutant: every failure is one to go on after. *)
NeverStops(i) == FALSE

StopsAt(i) == Steps[i].stop

RecordFailure(w) ==
  /\ req[w].pc = "failed"
  /\ AddStepRun(w, "failed")
  /\ Goto(w, IF StopsAt(req[w].copy.index) THEN "fail" ELSE "advance")
  /\ UNCHANGED <<runs, approvals, keyLock, effects, marks>>

Advance(w) ==
  LET row == [req[w].copy EXCEPT !.index = @ + 1]
  IN  /\ req[w].pc = "advance"
      /\ SaveRun(w, row)
      /\ Become(w, [req[w] EXCEPT !.pc = "step", !.copy = row])
      /\ UNCHANGED <<stepRuns, approvals, keyLock, effects, marks>>

Fail(w) ==
  /\ req[w].pc = "fail"
  /\ SaveRun(w, [req[w].copy EXCEPT !.status = "failed"])
  /\ Done(w)
  /\ UNCHANGED <<stepRuns, approvals, keyLock, effects, marks>>

Complete(w) ==
  /\ req[w].pc = "step"
  /\ req[w].copy.index \notin Indices
  /\ SaveRun(w, [req[w].copy EXCEPT !.status = "completed"])
  /\ Done(w)
  /\ UNCHANGED <<stepRuns, approvals, keyLock, effects, marks>>
-----------------------------------------------------------------------------
(* approveStep and rejectStep.  The approval was read as pending; nothing   *)
(* asks for the status of the run, and nothing keeps two decisions, or a    *)
(* decision and the save that parks the run, apart.                         *)

(* A user acts on a run another request is at work on. *)
NoteHaste(r) ==
  marks' = IF \E w \in Slots : req[w].run = r THEN [marks EXCEPT !.doubled = @ \cup {r}] ELSE marks

StartDecide(w, a, verdict) ==
  /\ IsIdle(w)
  /\ Listening
  /\ approvals[a].status = "pending"
  /\ Become(w, [Idle EXCEPT !.op = verdict, !.pc = "decide", !.app = a, !.run = approvals[a].run])
  /\ NoteHaste(approvals[a].run)
  /\ UNCHANGED <<runs, stepRuns, approvals, keyLock, effects>>

ReadDecided(w) ==
  /\ req[w].pc = "decide"
  /\ Become(w, [req[w] EXCEPT !.pc = "saveDecision", !.copy = runs[req[w].run]])
  /\ UNCHANGED <<runs, stepRuns, approvals, keyLock, effects, marks>>

SaveDecision(w) ==
  /\ req[w].pc = "saveDecision"
  /\ approvals' = [approvals EXCEPT ![req[w].app].status = req[w].op]
  /\ Goto(w, "resolve")
  /\ UNCHANGED <<runs, stepRuns, keyLock, effects, marks>>

(* Mutant: the step run gets the name of the decision. *)
OutcomeVerdict(w) == req[w].op

Outcome(w) == IF req[w].op = "approved" THEN "succeeded" ELSE "failed"

(* resolveWaitingStepRun: the latest row of the step that waits. *)
Waiting(w) ==
  {n \in DOMAIN stepRuns[req[w].run] :
     stepRuns[req[w].run][n] = [step |-> approvals[req[w].app].step, status |-> "waiting_approval"]}

Resolve(w) ==
  /\ req[w].pc = "resolve"
  /\ IF Waiting(w) = {} THEN UNCHANGED stepRuns
     ELSE \E n \in Waiting(w) :
            /\ \A m \in Waiting(w) : m <= n
            /\ stepRuns' = [stepRuns EXCEPT ![req[w].run][n].status = Outcome(w)]
  /\ Goto(w, "resume")
  /\ UNCHANGED <<runs, approvals, keyLock, effects, marks>>

(* Mutant: the run moves on and keeps its status. *)
ResumedParked(copy) == [copy EXCEPT !.index = @ + 1]

Resumed(copy) == [copy EXCEPT !.status = "running", !.index = @ + 1]

Resume(w) ==
  /\ req[w].pc = "resume"
  /\ IF req[w].op = "approved"
       THEN SaveRun(w, Resumed(req[w].copy)) /\ Goto(w, "execute")
       ELSE SaveRun(w, [req[w].copy EXCEPT !.status = "cancelled"]) /\ Done(w)
  /\ UNCHANGED <<stepRuns, approvals, keyLock, effects, marks>>
-----------------------------------------------------------------------------
(* retryRun. *)

(* Mutant: any run that is not under way may be retried. *)
RetryableEnded(r) == runs[r].status \in {"failed", "completed", "cancelled"}

Retryable(r) == runs[r].status = "failed"

(* Bound: how often a run is retried. *)
Failures(r) == Cardinality({n \in DOMAIN stepRuns[r] : stepRuns[r][n].status = "failed"})

StartRetry(w, r) ==
  /\ IsIdle(w)
  /\ Listening
  /\ Retryable(r)
  /\ Failures(r) <= MaxRetries
  /\ Become(w, [Idle EXCEPT !.op = "retry", !.pc = "retry", !.run = r, !.copy = runs[r]])
  /\ NoteHaste(r)
  /\ UNCHANGED <<runs, stepRuns, approvals, keyLock, effects>>

(* Mutant: a retry starts the run from scratch. *)
RevivedFromScratch(copy) == [copy EXCEPT !.status = "running", !.index = 1]

Revived(copy) == [copy EXCEPT !.status = "running"]

SaveRetry(w) ==
  /\ req[w].pc = "retry"
  /\ SaveRun(w, Revived(req[w].copy))
  /\ Goto(w, "execute")
  /\ UNCHANGED <<stepRuns, approvals, keyLock, effects, marks>>
-----------------------------------------------------------------------------
(* The process stops, starts again, and executes what it finds running, one *)
(* run after the other.                                                     *)

(* Mutant: runs that have not taken a step yet are overlooked. *)
StuckPastStart == {r \in Runs : runs[r].status = "running" /\ runs[r].index > 1}

Stuck == {r \in Runs : runs[r].status = "running"}

(* What the restart cuts in two: an action whose success is not saved yet,  *)
(* a gate whose approval exists though the run has not been parked, a       *)
(* decision that has not reached the run.                                   *)
RunsAt(pcs) == {req[w].run : w \in {v \in Slots : req[v].pc \in pcs}}

Crash ==
  /\ marks.restarts < MaxRestarts
  /\ \E w \in Slots : ~ IsIdle(w)
  /\ \E w \in Slots :
       req' = [v \in Slots |-> IF v = w /\ Stuck # {}
                 THEN [Idle EXCEPT !.op = "recover", !.pc = "recover", !.todo = Stuck] ELSE Idle]
  /\ keyLock' = [k \in Keys |-> None]
  /\ marks' = [restarts |-> marks.restarts + 1,
               repeated |-> marks.repeated \cup RunsAt({"succeeded", "advance"}),
               doubled  |-> marks.doubled \cup RunsAt({"park"}),
               dropped  |-> marks.dropped \cup RunsAt({"resolve", "resume"})]
  /\ UNCHANGED <<runs, stepRuns, approvals, effects>>

RecoverNext(w, r) ==
  /\ req[w].pc = "recover"
  /\ r \in req[w].todo
  /\ Become(w, [req[w] EXCEPT !.pc = "execute", !.run = r, !.todo = @ \ {r}])
  /\ UNCHANGED <<runs, stepRuns, approvals, keyLock, effects, marks>>

RecoverEnd(w) ==
  /\ req[w].pc = "recover"
  /\ req[w].todo = {}
  /\ Become(w, Idle)
  /\ UNCHANGED <<runs, stepRuns, approvals, keyLock, effects, marks>>

Step(w) ==
  \/ FindExisting(w)
  \/ CreateRun(w)
  \/ \E r \in Runs : RecoverNext(w, r)
  \/ Execute(w)
  \/ SkipStep(w)
  \/ ReachGate(w)
  \/ Ask(w)
  \/ Park(w)
  \/ ActionSucceeds(w)
  \/ ActionFails(w)
  \/ RecordSuccess(w)
  \/ RecordFailure(w)
  \/ Advance(w)
  \/ Fail(w)
  \/ Complete(w)
  \/ ReadDecided(w)
  \/ SaveDecision(w)
  \/ Resolve(w)
  \/ Resume(w)
  \/ SaveRetry(w)
  \/ RecoverEnd(w)

Next ==
  \/ \E w \in Slots :
       \/ \E k \in Keys : Trigger(w, k)
       \/ \E a \in DOMAIN approvals, verdict \in {"approved", "rejected"} : StartDecide(w, a, verdict)
       \/ \E r \in Runs : StartRetry(w, r)
       \/ Step(w)
  \/ Crash

Spec == Init /\ [][Next]_vars

(* A request that has started goes on: repositories answer, actions return  *)
(* or throw (fetch gives up by itself).                                     *)
Fairness == \A w \in Slots : WF_vars(Step(w))

FairSpec == Spec /\ Fairness
-----------------------------------------------------------------------------
Ops == {"none", "trigger", "approved", "rejected", "retry", "recover"}
Pcs == {"idle", "lock", "create", "execute", "step", "ask", "park", "succeeded", "failed",
        "advance", "fail", "decide", "saveDecision", "resolve", "resume", "retry", "recover"}

Request ==
  [op : Ops, pc : Pcs, key : Keys \cup {None}, run : Nat, copy : RunRow \cup {None},
   app : Nat, tries : Nat, todo : SUBSET Nat]

Marks ==
  [restarts : Nat, repeated : SUBSET Nat, doubled : SUBSET Nat, dropped : SUBSET Nat]

TypeOK ==
  /\ runs \in Seq(RunRow)
  /\ stepRuns \in Seq(Seq(StepRunRow)) /\ Len(stepRuns) = Len(runs)
  /\ approvals \in Seq(ApprovalRow)
  /\ keyLock \in [Keys -> Slots \cup {None}]
  /\ req \in [Slots -> Request]
  /\ effects \in Seq([Indices -> Nat]) /\ Len(effects) = Len(runs)
  /\ marks \in Marks

(* However often a trigger is delivered, and wherever the process stops,    *)
(* one run is created for its key (automation.service.ts:558-580).          *)
OneRunPerTrigger ==
  \A r, s \in Runs : runs[r].key = runs[s].key => r = s

(* The action of a step succeeds once in a run, through retries, decisions  *)
(* and recoveries, but for a restart between the action and the save of the *)
(* index, and for runs two requests had at once (lines 831-836, 846-850).   *)
ExecutedOnce ==
  \A r \in Runs \ (marks.repeated \cup marks.doubled), i \in Indices : effects[r][i] <= 1

(* A run is never past a step that has not been dealt with: its gate        *)
(* approved, its action done, or failed where the run goes on, or skipped   *)
(* by its conditions (lines 632-719, 1235-1253).                            *)
Recorded(r, i, status) == \E n \in DOMAIN stepRuns[r] : stepRuns[r][n] = [step |-> i, status |-> status]
Approved(r, i) ==
  \E a \in DOMAIN approvals : approvals[a] = [run |-> r, step |-> i, status |-> "approved"]

DealtWith(r, i) ==
  \/ <<runs[r].key, i>> \in Skips
  \/ Steps[i].gate /\ Approved(r, i)
  \/ ~ Steps[i].gate /\ Recorded(r, i, "succeeded")
  \/ ~ Steps[i].gate /\ ~ Steps[i].stop /\ Recorded(r, i, "failed")

StepsDealtWith ==
  \A r \in Runs \ marks.doubled, i \in Indices : i < runs[r].index => DealtWith(r, i)

(* A run that waits has somebody to wait for: an approval that is pending,  *)
(* or a request that carries its decision (lines 654-657, 1235-1272), but   *)
(* for a decision that a restart dropped or that came before the run was    *)
(* parked.                                                                  *)
WaitingIsAsked ==
  \A r \in Runs \ (marks.dropped \cup marks.doubled) : runs[r].status = "waiting_approval"
    => \/ \E a \in DOMAIN approvals : approvals[a].run = r /\ approvals[a].status = "pending"
       \/ \E w \in Slots : req[w].run = r

(* A run that has been completed or cancelled stays as it is (lines 627,    *)
(* 839, 1277), but for runs that two requests had at once.                  *)
Ended(r) == runs[r].status \in {"completed", "cancelled"}
EndedStays == [][\A r \in Runs : Ended(r) /\ r \notin marks.doubled => runs'[r] = runs[r]]_vars

(* No run stays `running`: that of a trigger ends or is parked, after       *)
(* restarts as well (main.ts:36-42).                                        *)
IsRunning(k) == \E r \in RunsFor(k) : runs[r].status = "running"
RunsSettle == \A k \in Keys : IsRunning(k) ~> ~ IsRunning(k)

(* Once an approval of a run has been rejected, none of its steps is        *)
(* executed any more (automation.test.ts:373).                              *)
RejectedNeverRuns ==
  [][\A r \in Runs : effects'[r] # effects[r]
       => ~ \E a \in DOMAIN approvals : approvals[a].run = r /\ approvals[a].status = "rejected"]_vars
=============================================================================

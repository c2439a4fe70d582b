------------------------- MODULE ConcurrencyLimiter -------------------------
(***************************************************************************)
(* src/src/infra/concurrency-queue.ts: at most maxConcurrent jobs at once,  *)
(* the other callers in a first-come, first-served line.                    *)
(*                                                                          *)
(* A promise that is resolved does not run its waiter: it queues the        *)
(* continuation as a microtask, behind those queued before.  `tasks` is     *)
(* that queue of the event loop, and RunTask its turn; a call of run, the   *)
(* end of a job and the wake-up of a waiter are tasks like any other.       *)
(***************************************************************************)
EXTENDS Naturals, Sequences, FiniteSets

CONSTANTS Callers, maxConcurrent

ASSUME LimitAssumption == maxConcurrent \in Nat \ {0}

VARIABLES
  phase,    \* [Callers -> where each call of run() is]
  active,   \* this.active
  waiters,  \* this.waiters
  tasks     \* the microtasks queued, by caller

vars == <<phase, active, waiters, tasks>>

Phase == {"outside", "calling", "waiting", "woken", "running", "ending", "done"}

At(p) == {c \in Callers : phase[c] = p}
Move(c, p) == phase' = [phase EXCEPT ![c] = p]

Init ==
  /\ phase = [c \in Callers |-> "outside"]
  /\ active = 0
  /\ waiters = <<>>
  /\ tasks = <<>>

(* Some code that will call run() is resumed. *)
Arrive(c) ==
  /\ phase[c] = "outside"
  /\ Move(c, "calling")
  /\ tasks' = Append(tasks, c)
  /\ UNCHANGED <<active, waiters>>

(* The promise of fn() settles, fulfilled or rejected. *)
JobSettles(c) ==
  /\ phase[c] = "running"
  /\ Move(c, "ending")
  /\ tasks' = Append(tasks, c)
  /\ UNCHANGED <<active, waiters>>

(* Mutant: callers queue from the start. *)
FullOffByOne == active >= maxConcurrent - 1

Full == active >= maxConcurrent

(* run(): join the line, or start the job. *)
Enqueue(c) ==
  /\ phase[c] = "calling"
  /\ Full
  /\ Move(c, "waiting")
  /\ waiters' = Append(waiters, c)
  /\ tasks' = Tail(tasks)
  /\ UNCHANGED active

(* Mutant: a woken caller takes its slot over without counting itself. *)
StartJobUncounted(c) ==
  /\ phase[c] \in {"calling", "woken"}
  /\ phase[c] = "calling" => ~ Full
  /\ Move(c, "running")
  /\ active' = IF phase[c] = "calling" THEN active + 1 ELSE active
  /\ tasks' = Tail(tasks)
  /\ UNCHANGED waiters

StartJob(c) ==
  /\ \/ phase[c] = "calling" /\ ~ Full
     \/ phase[c] = "woken"
  /\ Move(c, "running")
  /\ active' = active + 1
  /\ tasks' = Tail(tasks)
  /\ UNCHANGED waiters

(* waiters.shift() *)
Woken == Head(waiters)

(* Mutant: a slot is handed on only by a limiter that was full. *)
ReleaseWhenFull(c) ==
  /\ phase[c] = "ending"
  /\ active' = active - 1
  /\ IF waiters = <<>> \/ ~ Full
       THEN Move(c, "done") /\ tasks' = Tail(tasks) /\ UNCHANGED waiters
       ELSE /\ phase' = [phase EXCEPT ![c] = "done", ![Woken] = "woken"]
            /\ tasks' = Append(Tail(tasks), Woken)
            /\ waiters' = Tail(waiters)

(* The finally of run(). *)
Release(c) ==
  /\ phase[c] = "ending"
  /\ active' = active - 1
  /\ IF waiters = <<>>
       THEN Move(c, "done") /\ tasks' = Tail(tasks) /\ UNCHANGED waiters
       ELSE /\ phase' = [phase EXCEPT ![c] = "done", ![Woken] = "woken"]
            /\ tasks' = Append(Tail(tasks), Woken)
            /\ waiters' = Tail(waiters)

RunTask ==
  /\ tasks # <<>>
  /\ LET c == Head(tasks) IN Enqueue(c) \/ StartJob(c) \/ Release(c)

Next ==
  \/ \E c \in Callers : Arrive(c) \/ JobSettles(c)
  \/ RunTask

Spec == Init /\ [][Next]_vars

(* The event loop drains its queue, and every job settles. *)
Fairness == WF_vars(RunTask) /\ \A c \in Callers : WF_vars(JobSettles(c))

FairSpec == Spec /\ Fairness
-----------------------------------------------------------------------------
TypeOK ==
  /\ phase \in [Callers -> Phase]
  /\ active \in Nat
  /\ waiters \in Seq(Callers)
  /\ tasks \in Seq(Callers)

(* Nobody waits in vain: while there is a line, every slot is taken by a    *)
(* running or ending job, or promised to a caller already woken             *)
(* (concurrency-queue.ts:23-25).                                            *)
NoIdleSlot ==
  waiters # <<>> => Cardinality(At("running") \cup At("ending") \cup At("woken")) >= maxConcurrent

(* Every call of run() ends, whatever the others do and however the jobs    *)
(* end (concurrency-queue.test.ts:54-60).                                   *)
CallsEnd == \A c \in Callers : phase[c] = "calling" ~> phase[c] = "done"

(* No more than maxConcurrent jobs run at once (concurrency-queue.ts:1-5).  *)
WithinLimit == Cardinality(At("running")) <= maxConcurrent
=============================================================================

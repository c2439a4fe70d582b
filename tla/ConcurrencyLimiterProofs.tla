---------------------- MODULE ConcurrencyLimiterProofs ----------------------
(***************************************************************************)
(* Proofs about ConcurrencyLimiter, for any callers and any limit: its      *)
(* type, that nobody who waits is forgotten, and that nobody waits while a  *)
(* slot is idle.                                                            *)
(*                                                                          *)
(* Whether a slot is idle is decided by a counter, and handed on by a line. *)
(* The strengthening says that the counter counts (Counted), that the line  *)
(* is exactly the callers who wait, each of them once (InLine), and that a  *)
(* caller who has something to do is queued to do it (Queued).              *)
(***************************************************************************)
EXTENDS ConcurrencyLimiter, FiniteSetTheorems, TLAPS

Busy == At("running") \cup At("ending")
Promised == At("woken")

(* this.active is the number of jobs in progress. *)
Counted == IsFiniteSet(Busy) /\ IsFiniteSet(Promised) /\ active = Cardinality(Busy)

(* The line holds those who wait, and each of them once. *)
InLine ==
  /\ \A i \in 1 .. Len(waiters) : phase[waiters[i]] = "waiting"
  /\ \A i, j \in 1 .. Len(waiters) : waiters[i] = waiters[j] => i = j
  /\ \A c \in Callers : phase[c] = "waiting" => \E i \in 1 .. Len(waiters) : waiters[i] = c

(* Who is to go on has a task of his own in the event loop. *)
Queued ==
  \A c \in Callers : phase[c] \in {"calling", "woken", "ending"} =>
    \E i \in 1 .. Len(tasks) : tasks[i] = c

(* A slot is never idle while somebody waits, put with the counter. *)
Handed == waiters # <<>> => active + Cardinality(Promised) >= maxConcurrent

(* The inductive invariant. *)
Inv == TypeOK /\ Counted /\ InLine /\ Queued /\ Handed

(* Nobody is lost: who waits stands in the line, and who is to go on has a  *)
(* task queued; each caller waits in one place.                             *)
NobodyLost == InLine /\ Queued

(* Taking the head away leaves every other element in the sequence. *)
LEMMA TailKeeps ==
  ASSUME NEW S, NEW s \in Seq(S), s # <<>>
  PROVE  /\ Len(s) \in Nat \ {0} /\ Head(s) = s[1] /\ Head(s) \in S
         /\ Tail(s) \in Seq(S) /\ Len(Tail(s)) = Len(s) - 1
         /\ \A i \in 1 .. Len(Tail(s)) : Tail(s)[i] = s[i + 1]
         /\ \A i \in 1 .. Len(s) : s[i] # Head(s) =>
              \E j \in 1 .. Len(Tail(s)) : Tail(s)[j] = s[i]
<1>1. /\ Len(s) \in Nat \ {0} /\ Head(s) = s[1] /\ Head(s) \in S
      /\ Tail(s) \in Seq(S) /\ Len(Tail(s)) = Len(s) - 1
      /\ \A i \in 1 .. Len(Tail(s)) : Tail(s)[i] = s[i + 1]
  OBVIOUS
<1>2. ASSUME NEW i \in 1 .. Len(s), s[i] # Head(s)
      PROVE  \E j \in 1 .. Len(Tail(s)) : Tail(s)[j] = s[i]
  <2>1. i # 1
    BY <1>1, <1>2
  <2>2. i - 1 \in 1 .. Len(Tail(s)) /\ (i - 1) + 1 = i
    BY <1>1, <2>1
  <2> QED
    BY <1>1, <2>2
<1> QED
  BY <1>1, <1>2

(* What is appended is in the sequence, and so is all that was there. *)
LEMMA AppendKeeps ==
  ASSUME NEW S, NEW s \in Seq(S), NEW e \in S
  PROVE  /\ Append(s, e) \in Seq(S) /\ Len(Append(s, e)) = Len(s) + 1
         /\ Len(s) \in Nat
         /\ Append(s, e)[Len(s) + 1] = e
         /\ \A i \in 1 .. Len(s) : Append(s, e)[i] = s[i]
OBVIOUS

(* The calls that have been made, before the first task. *)
LEMMA InitInv == Init => Inv
<1> SUFFICES ASSUME Init PROVE Inv
  OBVIOUS
<1>1. Busy = {} /\ Promised = {}
  BY DEF Init, Busy, Promised, At
<1>2. Counted
  BY <1>1, FS_EmptySet DEF Init, Counted
<1>3. TypeOK /\ InLine /\ Queued /\ Handed
  BY DEF Init, TypeOK, Phase, InLine, Queued, Handed
<1> QED
  BY <1>2, <1>3 DEF Inv

(* A call is made, or a job settles: one more task, and nobody else moves. *)
LEMMA ArrivalKeeps ==
  ASSUME Inv, NEW c \in Callers, Arrive(c) \/ JobSettles(c)
  PROVE  Inv'
<1>1. TypeOK
  BY DEF Inv
<1>2. tasks' = Append(tasks, c) /\ waiters' = waiters /\ active' = active
      /\ \A d \in Callers : d # c => phase'[d] = phase[d]
  BY <1>1 DEF Arrive, JobSettles, Move, TypeOK
<1>3. phase[c] \in {"outside", "running"} /\ phase'[c] \in {"calling", "ending"}
      /\ (phase[c] = "running" <=> phase'[c] = "ending")
  BY <1>1 DEF Arrive, JobSettles, Move, TypeOK
<1>4. TypeOK'
  <2>1. phase' \in [Callers -> Phase]
    BY <1>1 DEF Arrive, JobSettles, Move, TypeOK, Phase
  <2>2. tasks' \in Seq(Callers)
    BY <1>1, <1>2, AppendKeeps DEF TypeOK
  <2> QED
    BY <1>1, <1>2, <2>1, <2>2 DEF TypeOK
<1>5. Busy' = Busy /\ Promised' = Promised
  BY <1>2, <1>3 DEF Busy, Promised, At
<1>6. Counted' /\ Handed'
  BY <1>2, <1>5 DEF Inv, Counted, Handed
<1>7. InLine'
  <2>1. \A i \in 1 .. Len(waiters) : waiters[i] \in Callers
    BY <1>1 DEF TypeOK
  <2>2. \A d \in Callers : phase'[d] = "waiting" <=> phase[d] = "waiting"
    BY <1>2, <1>3
  <2> QED
    BY <1>2, <2>1, <2>2 DEF Inv, InLine
<1>8. Queued'
  <2> SUFFICES ASSUME NEW d \in Callers, phase'[d] \in {"calling", "woken", "ending"}
               PROVE  \E i \in 1 .. Len(tasks') : tasks'[i] = d
    BY DEF Queued
  <2>1. /\ Len(tasks) \in Nat /\ Len(tasks') = Len(tasks) + 1 /\ tasks'[Len(tasks) + 1] = c
        /\ \A i \in 1 .. Len(tasks) : tasks'[i] = tasks[i]
    BY <1>1, <1>2, AppendKeeps DEF TypeOK
  <2>2. CASE d = c
    BY <2>1, <2>2
  <2>3. CASE d # c
    <3>1. PICK i \in 1 .. Len(tasks) : tasks[i] = d
      BY <1>2, <2>3 DEF Inv, Queued
    <3> QED
      BY <2>1, <3>1
  <2> QED
    BY <2>2, <2>3
<1> QED
  BY <1>4, <1>6, <1>7, <1>8 DEF Inv

(* The task at the head is done, and every other stays queued. *)
LEMMA TaskDone ==
  ASSUME TypeOK, Queued, tasks # <<>>, tasks' = Tail(tasks),
         \A d \in Callers : d # Head(tasks) => phase'[d] = phase[d],
         phase'[Head(tasks)] \notin {"calling", "woken", "ending"}
  PROVE  Queued'
<1> SUFFICES ASSUME NEW d \in Callers, phase'[d] \in {"calling", "woken", "ending"}
             PROVE  \E i \in 1 .. Len(tasks') : tasks'[i] = d
  BY DEF Queued
<1>1. d # Head(tasks) /\ phase[d] \in {"calling", "woken", "ending"}
  OBVIOUS
<1>2. PICK i \in 1 .. Len(tasks) : tasks[i] = d
  BY <1>1 DEF Queued
<1>3. \E j \in 1 .. Len(Tail(tasks)) : Tail(tasks)[j] = tasks[i]
  BY <1>1, <1>2, TailKeeps DEF TypeOK
<1> QED
  BY <1>2, <1>3

(* A caller who finds every slot taken joins the end of the line. *)
LEMMA EnqueueKeeps ==
  ASSUME Inv, tasks # <<>>, Enqueue(Head(tasks))
  PROVE  Inv'
<1> DEFINE c == Head(tasks)
<1>1. TypeOK /\ c \in Callers
  BY TailKeeps DEF Inv, TypeOK
<1>2. waiters' = Append(waiters, c) /\ tasks' = Tail(tasks) /\ active' = active
      /\ phase[c] = "calling" /\ phase'[c] = "waiting"
      /\ \A d \in Callers : d # c => phase'[d] = phase[d]
  BY <1>1 DEF Enqueue, Move, TypeOK
<1>3. TypeOK'
  <2>1. phase' \in [Callers -> Phase]
    BY <1>1 DEF Enqueue, Move, TypeOK, Phase
  <2>2. waiters' \in Seq(Callers)
    BY <1>1, <1>2, AppendKeeps DEF TypeOK
  <2>3. tasks' \in Seq(Callers)
    BY <1>1, <1>2, TailKeeps DEF TypeOK
  <2> QED
    BY <1>1, <1>2, <2>1, <2>2, <2>3 DEF TypeOK
<1> HIDE DEF c
<1>4. Busy' = Busy /\ Promised' = Promised
  BY <1>2 DEF Busy, Promised, At
<1>5. Counted'
  BY <1>2, <1>4 DEF Inv, Counted
<1>6. Handed'
  <2>1. active \in Nat /\ active >= maxConcurrent
    BY <1>1 DEF Enqueue, Full, TypeOK
  <2>2. Cardinality(Promised) \in Nat
    BY FS_CardinalityType DEF Inv, Counted
  <2>3. active + Cardinality(Promised) >= maxConcurrent
    BY <2>1, <2>2, LimitAssumption
  <2> QED
    BY <1>2, <1>4, <2>3 DEF Handed
<1>7. InLine'
  <2>1. /\ Len(waiters) \in Nat /\ Len(waiters') = Len(waiters) + 1
        /\ waiters'[Len(waiters) + 1] = c
        /\ \A i \in 1 .. Len(waiters) : waiters'[i] = waiters[i]
    BY <1>1, <1>2, AppendKeeps DEF TypeOK
  <2>2. \A i \in 1 .. Len(waiters) : waiters[i] \in Callers /\ waiters[i] # c
                                      /\ phase'[waiters[i]] = "waiting"
    BY <1>1, <1>2 DEF Inv, InLine, TypeOK
  <2>3. \A i \in 1 .. Len(waiters') : i = Len(waiters) + 1 \/ i \in 1 .. Len(waiters)
    BY <2>1
  <2>4. \A i \in 1 .. Len(waiters') : phase'[waiters'[i]] = "waiting"
    BY <1>2, <2>1, <2>2, <2>3
  <2>5. \A i, j \in 1 .. Len(waiters') : waiters'[i] = waiters'[j] => i = j
    BY <2>1, <2>2, <2>3 DEF Inv, InLine
  <2>6. ASSUME NEW d \in Callers, phase'[d] = "waiting"
        PROVE  \E i \in 1 .. Len(waiters') : waiters'[i] = d
    <3>1. CASE d = c
      BY <2>1, <3>1
    <3>2. CASE d # c
      <4>1. PICK i \in 1 .. Len(waiters) : waiters[i] = d
        BY <1>2, <2>6, <3>2 DEF Inv, InLine
      <4> QED
        BY <2>1, <4>1
    <3> QED
      BY <3>1, <3>2
  <2> QED
    BY <2>4, <2>5, <2>6 DEF InLine
<1>8. Queued'
  BY <1>1, <1>2, TaskDone DEF c, Inv
<1> QED
  BY <1>3, <1>5, <1>6, <1>7, <1>8 DEF Inv

(* A caller starts his job and counts himself. *)
LEMMA StartJobKeeps ==
  ASSUME Inv, tasks # <<>>, StartJob(Head(tasks))
  PROVE  Inv'
<1> DEFINE c == Head(tasks)
<1>1. TypeOK /\ c \in Callers
  BY TailKeeps DEF Inv, TypeOK
<1>2. waiters' = waiters /\ tasks' = Tail(tasks) /\ active' = active + 1
      /\ phase[c] \in {"calling", "woken"} /\ phase'[c] = "running"
      /\ \A d \in Callers : d # c => phase'[d] = phase[d]
  BY <1>1 DEF StartJob, Move, TypeOK
<1>3. TypeOK'
  <2>1. phase' \in [Callers -> Phase]
    BY <1>1 DEF StartJob, Move, TypeOK, Phase
  <2>2. tasks' \in Seq(Callers)
    BY <1>1, <1>2, TailKeeps DEF TypeOK
  <2> QED
    BY <1>1, <1>2, <2>1, <2>2 DEF TypeOK
<1>4. Queued'
  BY <1>1, <1>2, TaskDone DEF Inv
<1> HIDE DEF c
<1>5. Busy' = Busy \cup {c} /\ c \notin Busy /\ Promised' = Promised \ {c}
  BY <1>1, <1>2 DEF Busy, Promised, At
<1>6. /\ IsFiniteSet(Busy') /\ IsFiniteSet(Promised')
      /\ Cardinality(Busy') = Cardinality(Busy) + 1
      /\ Cardinality(Promised') = IF c \in Promised THEN Cardinality(Promised) - 1
                                                    ELSE Cardinality(Promised)
  BY <1>5, FS_AddElement, FS_RemoveElement DEF Inv, Counted
<1>7. Counted'
  BY <1>2, <1>6 DEF Inv, Counted
<1>8. Handed'
  <2>1. active \in Nat /\ Cardinality(Promised) \in Nat
    BY <1>1, FS_CardinalityType DEF TypeOK, Inv, Counted
  <2>2. waiters # <<>> => active + Cardinality(Promised) >= maxConcurrent
    BY DEF Inv, Handed
  <2>3. Cardinality(Promised') >= Cardinality(Promised) - 1
    BY <1>6, <2>1
  <2>4. Cardinality(Promised') \in Nat
    BY <1>6, FS_CardinalityType
  <2>5. waiters # <<>> => (active + 1) + Cardinality(Promised') >= maxConcurrent
    BY <2>1, <2>2, <2>3, <2>4, LimitAssumption
  <2> QED
    BY <1>2, <2>5 DEF Handed
<1>9. InLine'
  <2>1. \A i \in 1 .. Len(waiters) : waiters[i] \in Callers /\ waiters[i] # c
    BY <1>1, <1>2 DEF Inv, InLine, TypeOK
  <2> QED
    BY <1>2, <2>1 DEF Inv, InLine
<1> QED
  BY <1>3, <1>7, <1>8, <1>4, <1>9 DEF Inv

(* A job ends: its slot is promised to the first in line, if there is one. *)
LEMMA ReleaseKeeps ==
  ASSUME Inv, tasks # <<>>, Release(Head(tasks))
  PROVE  Inv'
<1>1. PICK c \in Callers : c = Head(tasks)
  BY TailKeeps DEF Inv, TypeOK
<1>2. TypeOK /\ phase[c] = "ending" /\ active' = active - 1
  BY <1>1 DEF Inv, Release
<1>3. c \in Busy /\ active = Cardinality(Busy) /\ IsFiniteSet(Busy) /\ IsFiniteSet(Promised)
  BY <1>2 DEF Inv, Counted, Busy, At
<1>4. active \in Nat \ {0} /\ Cardinality(Busy \ {c}) = active - 1 /\ IsFiniteSet(Busy \ {c})
  <2>1. IsFiniteSet(Busy \ {c}) /\ Cardinality(Busy \ {c}) = Cardinality(Busy) - 1
          /\ Cardinality(Busy) \in Nat /\ Cardinality(Busy \ {c}) \in Nat
    BY <1>3, FS_RemoveElement, FS_CardinalityType
  <2> QED
    BY <1>3, <2>1
<1>5. CASE waiters = <<>>
  <2>1. waiters' = waiters /\ tasks' = Tail(tasks) /\ phase'[c] = "done"
        /\ \A d \in Callers : d # c => phase'[d] = phase[d]
    BY <1>1, <1>2, <1>5 DEF Release, Move, TypeOK
  <2>2. TypeOK'
    <3>1. phase' \in [Callers -> Phase]
      BY <1>1, <1>2, <1>5 DEF Release, Move, TypeOK, Phase
    <3>2. tasks' \in Seq(Callers)
      BY <1>2, <2>1, TailKeeps DEF TypeOK
    <3>3. active' \in Nat
      BY <1>2, <1>4
    <3> QED
      BY <1>2, <2>1, <3>1, <3>2, <3>3 DEF TypeOK
  <2>3. Busy' = Busy \ {c} /\ Promised' = Promised
    BY <1>2, <2>1 DEF Busy, Promised, At
  <2>4. Counted'
    BY <1>2, <1>3, <1>4, <2>3 DEF Counted
  <2>5. Handed' /\ InLine'
    BY <1>2, <1>5, <2>1 DEF Handed, Inv, InLine
  <2>6. Queued'
    BY <1>1, <1>2, <2>1, TaskDone DEF Inv
  <2> QED
    BY <2>2, <2>4, <2>5, <2>6 DEF Inv
<1>6. CASE waiters # <<>>
  <2>1. PICK n \in Callers : n = Head(waiters)
    BY <1>2, <1>6, TailKeeps DEF TypeOK
  <2>2. /\ Len(waiters) \in Nat \ {0} /\ n = waiters[1] /\ Tail(waiters) \in Seq(Callers)
        /\ Len(Tail(waiters)) = Len(waiters) - 1
        /\ \A i \in 1 .. Len(Tail(waiters)) : Tail(waiters)[i] = waiters[i + 1]
        /\ \A i \in 1 .. Len(waiters) : waiters[i] # n =>
             \E j \in 1 .. Len(Tail(waiters)) : Tail(waiters)[j] = waiters[i]
    BY <1>2, <1>6, <2>1, TailKeeps DEF TypeOK
  <2>3. phase[n] = "waiting" /\ n # c
    <3>1. 1 \in 1 .. Len(waiters)
      BY <2>2
    <3> QED
      BY <1>2, <2>2, <3>1 DEF Inv, InLine
  <2>4. waiters' = Tail(waiters) /\ tasks' = Append(Tail(tasks), n)
        /\ phase' = [phase EXCEPT ![c] = "done", ![n] = "woken"]
    BY <1>1, <1>6, <2>1 DEF Release, Woken
  <2>5. phase'[c] = "done" /\ phase'[n] = "woken"
        /\ \A d \in Callers : d \notin {c, n} => phase'[d] = phase[d]
    BY <1>2, <2>3, <2>4 DEF TypeOK
  <2>6. Tail(tasks) \in Seq(Callers)
    BY <1>2, TailKeeps DEF TypeOK
  <2>7. TypeOK'
    <3>1. phase' \in [Callers -> Phase]
      BY <1>2, <2>4 DEF TypeOK, Phase
    <3>2. tasks' \in Seq(Callers)
      BY <2>4, <2>6, AppendKeeps
    <3>3. active' \in Nat
      BY <1>2, <1>4
    <3> QED
      BY <2>2, <2>4, <3>1, <3>2, <3>3 DEF TypeOK
  <2>8. Busy' = Busy \ {c} /\ Promised' = Promised \cup {n} /\ n \notin Promised
    BY <1>2, <2>3, <2>5 DEF Busy, Promised, At
  <2>9. IsFiniteSet(Promised') /\ Cardinality(Promised') = Cardinality(Promised) + 1
    BY <1>3, <2>8, FS_AddElement
  <2>10. Counted'
    BY <1>2, <1>3, <1>4, <2>8, <2>9 DEF Counted
  <2>11. Handed'
    <3>1. active + Cardinality(Promised) >= maxConcurrent /\ Cardinality(Promised) \in Nat
      BY <1>3, <1>6, FS_CardinalityType DEF Inv, Handed
    <3>2. (active - 1) + (Cardinality(Promised) + 1) >= maxConcurrent
      BY <1>4, <3>1, LimitAssumption
    <3> QED
      BY <1>2, <2>9, <3>2 DEF Handed
  <2>12. InLine'
    <3>1. \A i \in 1 .. Len(Tail(waiters)) : i + 1 \in 1 .. Len(waiters) /\ i + 1 # 1
      BY <2>2
    <3>2. 1 \in 1 .. Len(waiters)
      BY <2>2
    <3>3. \A i \in 1 .. Len(Tail(waiters)) :
            Tail(waiters)[i] \in Callers \ {c, n} /\ phase[Tail(waiters)[i]] = "waiting"
      <4> TAKE i \in 1 .. Len(Tail(waiters))
      <4>1. Tail(waiters)[i] = waiters[i + 1] /\ i + 1 \in 1 .. Len(waiters) /\ i + 1 # 1
        BY <2>2, <3>1
      <4>2. waiters[i + 1] # waiters[1] /\ phase[waiters[i + 1]] = "waiting"
        BY <3>2, <4>1 DEF Inv, InLine
      <4>3. waiters[i + 1] \in Callers
        BY <1>2, <4>1 DEF TypeOK
      <4> QED
        BY <1>2, <2>2, <4>1, <4>2, <4>3
    <3>4. \A i \in 1 .. Len(waiters') : phase'[waiters'[i]] = "waiting"
      BY <2>4, <2>5, <3>3
    <3>5. \A i, j \in 1 .. Len(waiters') : waiters'[i] = waiters'[j] => i = j
      <4> SUFFICES ASSUME NEW i \in 1 .. Len(Tail(waiters)), NEW j \in 1 .. Len(Tail(waiters)),
                          Tail(waiters)[i] = Tail(waiters)[j]
                   PROVE  i = j
        BY <2>4
      <4>1. waiters[i + 1] = waiters[j + 1] /\ i + 1 \in 1 .. Len(waiters)
              /\ j + 1 \in 1 .. Len(waiters)
        BY <2>2, <3>1
      <4>2. i + 1 = j + 1
        BY <4>1 DEF Inv, InLine
      <4> QED
        BY <4>2
    <3>6. ASSUME NEW d \in Callers, phase'[d] = "waiting"
          PROVE  \E i \in 1 .. Len(waiters') : waiters'[i] = d
      <4>1. d \notin {c, n} /\ phase[d] = "waiting"
        BY <2>5, <3>6
      <4>2. PICK i \in 1 .. Len(waiters) : waiters[i] = d
        BY <4>1 DEF Inv, InLine
      <4> QED
        BY <2>2, <2>4, <4>1, <4>2
    <3> QED
      BY <3>4, <3>5, <3>6 DEF InLine
  <2>13. Queued'
    <3> SUFFICES ASSUME NEW d \in Callers, phase'[d] \in {"calling", "woken", "ending"}
                 PROVE  \E i \in 1 .. Len(tasks') : tasks'[i] = d
      BY DEF Queued
    <3>1. /\ Len(Tail(tasks)) \in Nat /\ Len(tasks') = Len(Tail(tasks)) + 1
          /\ tasks'[Len(Tail(tasks)) + 1] = n
          /\ \A i \in 1 .. Len(Tail(tasks)) : tasks'[i] = Tail(tasks)[i]
      BY <2>4, <2>6, AppendKeeps
    <3>2. CASE d = n
      BY <3>1, <3>2
    <3>3. CASE d # n
      <4>1. d # Head(tasks) /\ phase[d] \in {"calling", "woken", "ending"}
        BY <1>1, <2>5, <3>3
      <4>2. PICK i \in 1 .. Len(tasks) : tasks[i] = d
        BY <4>1 DEF Inv, Queued
      <4>3. PICK j \in 1 .. Len(Tail(tasks)) : Tail(tasks)[j] = tasks[i]
        BY <1>2, <4>1, <4>2, TailKeeps DEF TypeOK
      <4>4. j \in 1 .. Len(tasks')
        BY <3>1, <4>3
      <4>5. tasks'[j] = d
        BY <3>1, <4>2, <4>3
      <4> QED
        BY <4>4, <4>5
    <3> QED
      BY <3>2, <3>3
  <2> QED
    BY <2>7, <2>10, <2>11, <2>12, <2>13 DEF Inv
<1> QED
  BY <1>5, <1>6

(* The invariant is inductive. *)
LEMMA NextInv == Inv /\ [Next]_vars => Inv'
<1> SUFFICES ASSUME Inv, [Next]_vars PROVE Inv'
  OBVIOUS
<1>1. ASSUME NEW c \in Callers, Arrive(c) \/ JobSettles(c) PROVE Inv'
  BY <1>1, ArrivalKeeps
<1>2. CASE RunTask
  BY <1>2, EnqueueKeeps, StartJobKeeps, ReleaseKeeps DEF RunTask
<1>3. CASE UNCHANGED vars
  BY <1>3 DEF vars, Inv, TypeOK, Counted, InLine, Queued, Handed, Busy, Promised, At
<1> QED
  BY <1>1, <1>2, <1>3 DEF Next

(* The inductive invariant, in every reachable state. *)
THEOREM Invariance == Spec => []Inv
BY InitInv, NextInv, PTL DEF Spec

(* Every variable keeps its type; this.active never goes below zero. *)
THEOREM TypeCorrect == Spec => []TypeOK
<1>1. Inv => TypeOK
  BY DEF Inv
<1> QED
  BY <1>1, Invariance, PTL

(* No wake-up is lost: who waits stands in the line, once, and whoever is   *)
(* to go on has a task queued for it.                                       *)
THEOREM WaitersKept == Spec => []NobodyLost
<1>1. Inv => NobodyLost
  BY DEF Inv, NobodyLost
<1> QED
  BY <1>1, Invariance, PTL

(* Nobody waits while a slot is neither taken nor promised, for any number  *)
(* of callers and any limit.                                                *)
THEOREM NoSlotIdles == Spec => []NoIdleSlot
<1>1. Inv => NoIdleSlot
  <2> SUFFICES ASSUME Inv, waiters # <<>>
               PROVE  Cardinality(At("running") \cup At("ending") \cup At("woken")) >= maxConcurrent
    BY DEF NoIdleSlot
  <2>1. Busy \cap Promised = {}
    BY DEF Busy, Promised, At
  <2>2. IsFiniteSet(Busy) /\ IsFiniteSet(Promised) /\ active = Cardinality(Busy)
    BY DEF Inv, Counted
  <2>3. Cardinality(Busy \cup Promised) =
          Cardinality(Busy) + Cardinality(Promised) - Cardinality(Busy \cap Promised)
    BY <2>2, FS_Union
  <2>4. Cardinality(Busy \cap Promised) = 0 /\ Cardinality(Busy) \in Nat
          /\ Cardinality(Promised) \in Nat
    BY <2>1, <2>2, FS_EmptySet, FS_CardinalityType
  <2>5. Cardinality(Busy \cup Promised) = active + Cardinality(Promised)
    BY <2>2, <2>3, <2>4
  <2> QED
    BY <2>5 DEF Inv, Handed, Busy, Promised
<1> QED
  BY <1>1, Invariance, PTL
=============================================================================

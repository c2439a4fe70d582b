-------------------------- MODULE KeyedMutexProofs --------------------------
(***************************************************************************)
(* Proofs about KeyedMutex, for any set of calls and keys: its type, mutual *)
(* exclusion, and that the chain of promises implements FifoLock.           *)
(*                                                                          *)
(* Mutual exclusion is not inductive: nothing in it says why a call that    *)
(* resumes is alone.  The strengthening Line says that the captured         *)
(* promises of a key form one line in the order of the tickets, and that a  *)
(* call which has passed its await has only finished calls before it.       *)
(***************************************************************************)
EXTENDS KeyedMutex, TLAPS

Requested(c) == phase[c] # "idle"
SameLine(c, d) == Requested(c) /\ Requested(d) /\ key[c] = key[d]

(* A ticket has been issued to one call only. *)
TicketsUnique ==
  /\ \A c \in Calls : Requested(c) => ticket[c] < issued[key[c]]
  /\ \A c, d \in Calls : SameLine(c, d) /\ ticket[c] = ticket[d] => c = d

(* The promise stored for a key is the one of the last call of its line. *)
ChainIsTail == \A k \in Keys :
  IF chains[k] = None
    THEN \A c \in Calls : Requested(c) => key[c] # k
    ELSE Requested(chains[k]) /\ key[chains[k]] = k /\ ticket[chains[k]] + 1 = issued[k]

(* The promise a call captured is the one of the call just before it. *)
PreviousIsNeighbour == \A c \in Calls : Requested(c) =>
  IF previous[c] = None
    THEN \A d \in Calls : SameLine(c, d) => ~ (ticket[d] < ticket[c])
    ELSE SameLine(c, previous[c]) /\ ticket[previous[c]] + 1 = ticket[c]

(* Who has passed its await has only finished calls before it. *)
PassedInOrder == \A c, d \in Calls :
  SameLine(c, d) /\ phase[c] # "queued" /\ ticket[d] < ticket[c] => phase[d] = "done"

SettledDone == \A c \in settled : phase[c] = "done"

Line ==
  /\ TypeOK
  /\ TicketsUnique
  /\ ChainIsTail
  /\ PreviousIsNeighbour
  /\ PassedInOrder
  /\ SettledDone

(* Every action keeps the variables in their types. *)
LEMMA TypeStep == TypeOK /\ [Next]_vars => TypeOK'
<1> SUFFICES ASSUME TypeOK, [Next]_vars PROVE TypeOK'
  OBVIOUS
<1> USE DEF TypeOK, Outcomes
<1>1. ASSUME NEW c \in Calls, RunExclusive(c) PROVE TypeOK'
  BY <1>1 DEF RunExclusive, SetChain
<1>2. ASSUME NEW c \in Calls, Enter(c) PROVE TypeOK'
  BY <1>2 DEF Enter
<1>3. ASSUME NEW c \in Calls, NEW how \in {"returned", "threw"}, Leave(c, how)
      PROVE  TypeOK'
  BY <1>3 DEF Leave
<1>4. ASSUME NEW c \in Calls, Settle(c) PROVE TypeOK'
  BY <1>4 DEF Settle
<1>5. CASE UNCHANGED vars
  BY <1>5 DEF vars
<1> QED
  BY <1>1, <1>2, <1>3, <1>4, <1>5 DEF Next

(* Every variable keeps its type: Init establishes it, each action keeps it. *)
THEOREM TypeCorrect == Spec => []TypeOK
<1>1. Init => TypeOK
  BY DEF Init, TypeOK, Outcomes
<1> QED
  BY <1>1, TypeStep, PTL DEF Spec

(* Before the first call there is no line. *)
LEMMA LineInit == Init => Line
  BY NoneAssumption DEF Init, Line, TypeOK, Outcomes, TicketsUnique, ChainIsTail,
     PreviousIsNeighbour, PassedInOrder, SettledDone, Requested, SameLine

(* A new call takes the place after the last one of its line. *)
LEMMA LineRunExclusive ==
  ASSUME Line, TypeOK', NEW c \in Calls, RunExclusive(c)
  PROVE  Line'
<1> DEFINE k == key[c]
<1> USE NoneAssumption DEF Line, TypeOK, Requested, SameLine
<1>1. k \in Keys /\ issued[k] \in Nat /\ chains[k] \in Calls \cup {None}
  OBVIOUS
<1>2. /\ \A d \in Calls : phase'[d] = IF d = c THEN "queued" ELSE phase[d]
      /\ \A d \in Calls : ticket'[d] = IF d = c THEN issued[k] ELSE ticket[d]
      /\ \A d \in Calls : previous'[d] = IF d = c THEN chains[k] ELSE previous[d]
      /\ \A j \in Keys : chains'[j] = IF j = k THEN c ELSE chains[j]
      /\ \A j \in Keys : issued'[j] = IF j = k THEN issued[k] + 1 ELSE issued[j]
      /\ phase[c] = "idle" /\ key' = key /\ settled' = settled
  BY DEF RunExclusive, SetChain
<1>3. TicketsUnique'
  BY <1>1, <1>2 DEF TicketsUnique
<1>4. ChainIsTail'
  BY <1>1, <1>2 DEF ChainIsTail
<1>5. PreviousIsNeighbour'
  <2> SUFFICES ASSUME NEW d \in Calls, Requested(d)'
               PROVE  IF previous'[d] = None
                        THEN \A e \in Calls : SameLine(d, e)' => ~ (ticket'[e] < ticket'[d])
                        ELSE SameLine(d, previous[d])' /\ ticket'[previous'[d]] + 1 = ticket'[d]
    BY DEF PreviousIsNeighbour
  <2>1. CASE d = c
    <3>1. CASE chains[k] = None
      BY <1>1, <1>2, <2>1, <3>1 DEF ChainIsTail
    <3>2. CASE chains[k] # None
      BY <1>1, <1>2, <2>1, <3>2 DEF ChainIsTail
    <3> QED
      BY <3>1, <3>2
  <2>2. CASE d # c
    <3>1. ticket[d] < issued[key[d]]
      BY <1>2, <2>2 DEF TicketsUnique
    <3>2. CASE previous[d] = None
      BY <1>1, <1>2, <2>2, <3>1, <3>2 DEF PreviousIsNeighbour
    <3>3. CASE previous[d] # None
      BY <1>1, <1>2, <2>2, <3>3 DEF PreviousIsNeighbour
    <3> QED
      BY <3>2, <3>3
  <2> QED
    BY <2>1, <2>2
<1>6. PassedInOrder'
  <2> SUFFICES ASSUME NEW d \in Calls, NEW e \in Calls, SameLine(d, e)',
                      phase'[d] # "queued", ticket'[e] < ticket'[d]
               PROVE  phase'[e] = "done"
    BY DEF PassedInOrder
  <2>1. d # c
    BY <1>2
  <2>2. ticket[d] < issued[key[d]]
    BY <1>2, <2>1 DEF TicketsUnique
  <2>3. e # c
    BY <1>1, <1>2, <2>1, <2>2
  <2> QED
    BY <1>2, <2>1, <2>3 DEF PassedInOrder
<1>7. SettledDone'
  BY <1>2 DEF SettledDone
<1> QED
  BY <1>3, <1>4, <1>5, <1>6, <1>7

(* A call whose awaited promise has settled has only finished calls before  *)
(* it: its neighbour in the line, and by PassedInOrder everything before.   *)
LEMMA ResolvedMeansFirst ==
  ASSUME Line, NEW c \in Calls, phase[c] # "idle", Resolved(previous[c])
  PROVE  \A d \in Calls : SameLine(c, d) /\ ticket[d] < ticket[c] => phase[d] = "done"
<1> USE NoneAssumption DEF Line, TypeOK, Requested, SameLine
<1> SUFFICES ASSUME NEW d \in Calls, SameLine(c, d), ticket[d] < ticket[c]
             PROVE  phase[d] = "done"
  OBVIOUS
<1>1. previous[c] # None
  BY DEF PreviousIsNeighbour
<1>2. PICK p \in Calls : p = previous[c]
  BY <1>1
<1>3. p \in settled /\ phase[p] = "done"
  BY <1>1, <1>2 DEF Resolved, SettledDone
<1>4. SameLine(c, p) /\ ticket[p] + 1 = ticket[c]
  BY <1>1, <1>2 DEF PreviousIsNeighbour
<1>5. ticket[d] = ticket[p] \/ ticket[d] < ticket[p]
  BY <1>4
<1>6. CASE ticket[d] = ticket[p]
  BY <1>3, <1>4, <1>6 DEF TicketsUnique
<1>7. CASE ticket[d] < ticket[p]
  <2>1. SameLine(p, d) /\ phase[p] # "queued"
    BY <1>3, <1>4
  <2> QED
    BY <1>7, <2>1 DEF PassedInOrder
<1> QED
  BY <1>5, <1>6, <1>7

(* A call that resumes had only finished calls before it. *)
LEMMA LineEnter ==
  ASSUME Line, TypeOK', NEW c \in Calls, Enter(c)
  PROVE  Line'
<1> USE NoneAssumption DEF Line, TypeOK, Requested, SameLine
<1>1. /\ phase[c] = "queued"
      /\ \A d \in Calls : phase'[d] = IF d = c THEN "inside" ELSE phase[d]
      /\ UNCHANGED <<key, ticket, issued, chains, previous, settled>>
  BY DEF Enter
<1>2. TicketsUnique'
  BY <1>1 DEF TicketsUnique
<1>3. ChainIsTail'
  BY <1>1 DEF ChainIsTail
<1>4. PreviousIsNeighbour'
  BY <1>1 DEF PreviousIsNeighbour
<1>5. \A d \in Calls : SameLine(c, d) /\ ticket[d] < ticket[c] => phase[d] = "done"
  BY ResolvedMeansFirst DEF Enter
<1>6. PassedInOrder'
  BY <1>1, <1>5 DEF PassedInOrder
<1>7. SettledDone'
  BY <1>1 DEF SettledDone
<1> QED
  BY <1>2, <1>3, <1>4, <1>6, <1>7

(* A call that ends is the first of its line, since all before it have. *)
LEMMA LineLeave ==
  ASSUME Line, TypeOK', NEW c \in Calls, NEW how \in {"returned", "threw"}, Leave(c, how)
  PROVE  Line'
<1> USE NoneAssumption DEF Line, TypeOK, Requested, SameLine
<1>1. /\ phase[c] = "inside"
      /\ \A d \in Calls : phase'[d] = IF d = c THEN "done" ELSE phase[d]
      /\ UNCHANGED <<key, ticket, issued, chains, previous, settled>>
  BY DEF Leave
<1>2. TicketsUnique'
  BY <1>1 DEF TicketsUnique
<1>3. ChainIsTail'
  BY <1>1 DEF ChainIsTail
<1>4. PreviousIsNeighbour'
  BY <1>1 DEF PreviousIsNeighbour
<1>5. PassedInOrder'
  BY <1>1 DEF PassedInOrder
<1>6. SettledDone'
  BY <1>1 DEF SettledDone
<1> QED
  BY <1>2, <1>3, <1>4, <1>5, <1>6

(* The promise of a call settles after the call has ended. *)
LEMMA LineSettle ==
  ASSUME Line, TypeOK', NEW c \in Calls, Settle(c)
  PROVE  Line'
BY DEF Line, Settle, TicketsUnique, ChainIsTail, PreviousIsNeighbour, PassedInOrder,
   SettledDone, Requested, SameLine

(* The captured promises form one line per key, in every reachable state. *)
THEOREM LineInvariant == Spec => []Line
<1>1. Line /\ [Next]_vars => Line'
  <2> SUFFICES ASSUME Line, [Next]_vars PROVE Line'
    OBVIOUS
  <2>1. TypeOK'
    BY TypeStep DEF Line
  <2>2. ASSUME NEW c \in Calls, RunExclusive(c) PROVE Line'
    BY <2>1, <2>2, LineRunExclusive
  <2>3. ASSUME NEW c \in Calls, Enter(c) PROVE Line'
    BY <2>1, <2>3, LineEnter
  <2>4. ASSUME NEW c \in Calls, NEW how \in {"returned", "threw"}, Leave(c, how)
        PROVE  Line'
    BY <2>1, <2>4, LineLeave
  <2>5. ASSUME NEW c \in Calls, Settle(c) PROVE Line'
    BY <2>1, <2>5, LineSettle
  <2>6. CASE UNCHANGED vars
    BY <2>6 DEF vars, Line, TypeOK, TicketsUnique, ChainIsTail, PreviousIsNeighbour,
       PassedInOrder, SettledDone, Requested, SameLine
  <2> QED
    BY <2>2, <2>3, <2>4, <2>5, <2>6 DEF Next
<1> QED
  BY LineInit, <1>1, PTL DEF Spec

(* Two bodies never run at once under one key, for any calls and keys. *)
THEOREM Exclusion == Spec => []MutualExclusion
<1>1. Line => MutualExclusion
  <2> SUFFICES ASSUME Line, NEW c \in Calls, NEW d \in Calls,
                      phase[c] = "inside", phase[d] = "inside", key[c] = key[d]
               PROVE  c = d
    BY DEF MutualExclusion
  <2>1. ticket[c] \in Nat /\ ticket[d] \in Nat
    BY DEF Line, TypeOK
  <2>2. ~ (ticket[c] < ticket[d]) /\ ~ (ticket[d] < ticket[c])
    BY DEF Line, PassedInOrder, SameLine, Requested
  <2>3. ticket[c] = ticket[d]
    BY <2>1, <2>2
  <2> QED
    BY <2>3 DEF Line, TicketsUnique, SameLine, Requested
<1> QED
  BY <1>1, LineInvariant, PTL

(* The chain of promises implements the first-come-first-served lock: each  *)
(* step of KeyedMutex is a step of FifoLock, or leaves its variables alone. *)
THEOREM Refinement == Spec => ImplementsFifoLock
<1>1. Init => Lock!LockInit
  BY DEF Init, Lock!LockInit
<1>2. Line /\ [Next]_vars => [Lock!LockNext]_(Lock!lockVars)
  <2> SUFFICES ASSUME Line, [Next]_vars PROVE [Lock!LockNext]_(Lock!lockVars)
    OBVIOUS
  <2>1. ASSUME NEW c \in Calls, RunExclusive(c) PROVE Lock!Request(c)
    BY <2>1 DEF RunExclusive, Lock!Request
  <2>2. ASSUME NEW c \in Calls, Enter(c) PROVE Lock!Grant(c)
    <3>1. \A d \in Calls : SameLine(c, d) /\ ticket[d] < ticket[c] => phase[d] = "done"
      BY <2>2, ResolvedMeansFirst DEF Enter
    <3> QED
      BY <2>2, <3>1 DEF Enter, Lock!Grant, Lock!Ahead, SameLine, Requested
  <2>3. ASSUME NEW c \in Calls, NEW how \in {"returned", "threw"}, Leave(c, how)
        PROVE  Lock!Release(c)
    BY <2>3 DEF Leave, Lock!Release
  <2>4. ASSUME NEW c \in Calls, Settle(c) PROVE UNCHANGED Lock!lockVars
    BY <2>4 DEF Settle, Lock!lockVars
  <2>5. CASE UNCHANGED vars
    BY <2>5 DEF vars, Lock!lockVars
  <2> QED
    BY <2>1, <2>2, <2>3, <2>4, <2>5 DEF Next, Lock!LockNext
<1> QED
  BY <1>1, <1>2, LineInvariant, PTL DEF Spec, ImplementsFifoLock, Lock!LockSpec
=============================================================================

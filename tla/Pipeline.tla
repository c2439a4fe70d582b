------------------------------ MODULE Pipeline ------------------------------
(***************************************************************************)
(* The leads of a company: creation without duplicates, the stages of its  *)
(* pipeline, the rotation of new leads among the pool of sales people, and *)
(* the sweep that takes an untouched lead from its owner once the deadline *)
(* of the first contact has passed (crm.service, crm-stage.service,        *)
(* lead-distribution.service).                                             *)
(*                                                                         *)
(* crm.service takes a lock per company for creation and one per lead for  *)
(* changes; stages, the pool and the last save of the sweep have none.     *)
(***************************************************************************)
EXTENDS Desk, Naturals, Sequences, FiniteSets

CONSTANTS
  People,      \* what is known of a person: [phone, nationalId]
  MaxLeads,    \* bounds the leads created
  Stages,      \* the stages of the pipeline, the first default one among them
  FirstStage,
  Teams,       \* the pools of sales people that may be configured, sequences
  MaxLapses    \* bounds the deadlines of first contact that pass

ASSUME PipelineAssumption ==
  FirstStage \in Stages /\ MaxLeads \in Nat /\ MaxLapses \in Nat /\ \A t \in Teams : Len(t) > 0
-----------------------------------------------------------------------------
VARIABLES
  leads,      \* the leads, in the order of their creation
  stages,     \* [Stages -> [active, default]]
  pool,       \* [members, cursor]: whom the last lead went to, 0 before the first
  points,     \* penalty points given
  crmLocks,   \* the keys locked: Company, or the number of a lead
  crmCall,    \* [Callers -> a call in progress]
  lapses,     \* auxiliary: [number of a lead -> deadlines it has missed]
  crossed     \* auxiliary: a sweep has met another call on its lead, or was cut short

pipelineVars == <<leads, stages, pool, points, crmLocks, crmCall, lapses, crossed>>

PipelineInit ==
  /\ leads = <<>>
  /\ stages = [s \in Stages |-> [active |-> TRUE, default |-> s = FirstStage]]
  /\ pool \in [members : Teams, cursor : {0}]
  /\ points = 0
  /\ crmLocks = {}
  /\ crmCall = [w \in Callers |-> Rest]
  /\ lapses = [l \in 1..MaxLeads |-> 0]
  /\ crossed = FALSE

Company == 0   \* the lock for creation; those of the leads are their numbers
Turn(w, new) == crmCall' = Becomes(crmCall, w, new)
Idle(w) == crmCall[w] = Rest
-----------------------------------------------------------------------------
(* findNext: the first member after the cursor that will do; 0 if none. *)
FindNext(members, cursor, eligible) ==
  LET n == Len(members)
      after(k) == ((cursor + k - 1) % n) + 1
      fits == {k \in 1..n : members[after(k)] \in eligible}
  IN  IF fits = {} THEN 0 ELSE after(CHOOSE k \in fits : \A j \in fits : k <= j)
Members(p) == {p.members[i] : i \in DOMAIN p.members}

(* pickOwnerForNewLead: the members with the skill asked for, or everybody  *)
(* if there is none.                                                       *)
PickOwner(w, who, skilled) ==
  /\ Idle(w)
  /\ Len(leads) < MaxLeads
  /\ LET eligible == IF skilled = {} THEN Members(pool) ELSE skilled
     IN  Turn(w, [pc |-> "cursor", who |-> who, pool |-> pool,
                  index |-> FindNext(pool.members, pool.cursor, eligible)])
  /\ UNCHANGED <<leads, stages, pool, points, crmLocks, lapses, crossed>>

SaveCursor(w) ==
  LET c == crmCall[w] IN
  /\ c.pc = "cursor"
  /\ pool' = [c.pool EXCEPT !.cursor = c.index]
  /\ Turn(w, [pc |-> "create", who |-> c.who, owner |-> c.pool.members[c.index]])
  /\ UNCHANGED <<leads, stages, points, crmLocks, lapses, crossed>>

ConfigurePool(team) ==
  /\ pool' = [members |-> team, cursor |-> IF Len(team) = Len(pool.members) THEN pool.cursor ELSE 0]
  /\ UNCHANGED <<leads, stages, points, crmLocks, crmCall, lapses, crossed>>
-----------------------------------------------------------------------------
SamePerson(a, b) ==
  a.phone = b.phone \/ (a.nationalId # None /\ a.nationalId = b.nationalId)
FindDuplicate(who) == \E l \in DOMAIN leads : SamePerson(leads[l].who, who)

(* Mutant: creation takes no lock. *)
NeverLocked(key) == FALSE
Locked(key) == key \in crmLocks

(* createLead, under the lock of the company: a duplicate is refused, and   *)
(* an archived stage asked for, and no stage asked for where no default is. *)
CreateCheck(w, s) ==
  LET c == crmCall[w] IN
  /\ c.pc = "create"
  /\ ~ Locked(Company)
  /\ stages[s].active
  /\ ~ FindDuplicate(c.who)
  /\ crmLocks' = crmLocks \cup {Company}
  /\ Turn(w, [pc |-> "saveLead", who |-> c.who, owner |-> c.owner, stage |-> s])
  /\ UNCHANGED <<leads, stages, pool, points, lapses, crossed>>

CreateRefused(w) ==
  LET c == crmCall[w] IN
  /\ c.pc = "create"
  /\ ~ Locked(Company)
  /\ \/ FindDuplicate(c.who)
     \/ \E s \in Stages : ~ stages[s].active
     \/ ~ \E s \in Stages : stages[s].active /\ stages[s].default
  /\ Turn(w, Rest)
  /\ UNCHANGED <<leads, stages, pool, points, crmLocks, lapses, crossed>>

SaveLead(w) ==
  LET c == crmCall[w] IN
  /\ c.pc = "saveLead"
  /\ Len(leads) < MaxLeads
  /\ leads' = Append(leads, [who |-> c.who, stage |-> c.stage, owner |-> c.owner,
                             overdue |-> FALSE, breaches |-> 0])
  /\ crmLocks' = crmLocks \ {Company}
  /\ Turn(w, Rest)
  /\ UNCHANGED <<stages, pool, points, lapses, crossed>>
-----------------------------------------------------------------------------
AtWorkOn(l) ==
  {v \in Callers : crmCall[v].pc \in {"saveEdit", "assign", "turn", "close"} /\ crmCall[v].lead = l}

(* moveToStage, assignOwner, updateTagsAndPriority, updateCustomFields: the *)
(* lead is read under its lock, and the copy saved.                        *)
ReadLead(w, l, new) ==
  /\ Idle(w)
  /\ ~ Locked(l)
  /\ crmLocks' = crmLocks \cup {l}
  /\ crossed' = (crossed \/ AtWorkOn(l) # {})
  /\ Turn(w, [pc |-> "saveEdit", lead |-> l, new |-> new])
  /\ UNCHANGED <<leads, stages, pool, points, lapses>>

MoveToStage(w, l, s) == stages[s].active /\ ReadLead(w, l, [leads[l] EXCEPT !.stage = s])
AssignOwner(w, l, m) == ReadLead(w, l, [leads[l] EXCEPT !.owner = m])

SaveEdit(w) ==
  LET c == crmCall[w] IN
  /\ c.pc = "saveEdit"
  /\ leads' = [leads EXCEPT ![c.lead] = c.new]
  /\ crmLocks' = crmLocks \ {c.lead}
  /\ Turn(w, Rest)
  /\ UNCHANGED <<stages, pool, points, lapses, crossed>>

(* The clock passes the deadline of a lead nobody has contacted. *)
DeadlinePasses(l) ==
  /\ ~ leads[l].overdue
  /\ lapses[l] < MaxLapses
  /\ leads' = [leads EXCEPT ![l].overdue = TRUE]
  /\ lapses' = [lapses EXCEPT ![l] = @ + 1]
  /\ UNCHANGED <<stages, pool, points, crmLocks, crmCall, crossed>>
-----------------------------------------------------------------------------
Due(l) == leads[l].overdue /\ stages[leads[l].stage].default

(* sweepSlaBreaches lists copies of the leads that are due and works        *)
(* through them: a point for the owner, the next member of the pool, the   *)
(* cursor, and a save of the copy with a new deadline.                     *)
SweepList(w) ==
  LET due == {l \in DOMAIN leads : Due(l)} IN
  /\ Idle(w)
  /\ due # {}
  /\ crossed' = (crossed \/ \E l \in due : AtWorkOn(l) # {})
  /\ Turn(w, [pc |-> "sweep", listed |-> [l \in due |-> leads[l]]])
  /\ UNCHANGED <<leads, stages, pool, points, crmLocks, lapses>>

SweepNext(w, rest) ==
  Turn(w, IF rest = {} THEN Rest
          ELSE [pc |-> "sweep", listed |-> [l \in rest |-> crmCall[w].listed[l]]])

PenalizeOwner(w, l) ==
  LET c == crmCall[w]
      next == FindNext(pool.members, pool.cursor, Members(pool) \ {c.listed[l].owner})
  IN  /\ c.pc = "sweep"
      /\ l \in DOMAIN c.listed
      /\ points' = points + 1
      /\ crossed' = (crossed \/ AtWorkOn(l) # {} \/ leads[l] # c.listed[l])
      /\ Turn(w, [pc |-> IF next = 0 THEN "close" ELSE "assign", lead |-> l, listed |-> c.listed,
                  pool |-> pool, index |-> next, new |-> c.listed[l]])
      /\ UNCHANGED <<leads, stages, pool, crmLocks, lapses>>

(* assignOwner, under the lock: the lead is read again. *)
Reassign(w) ==
  LET c == crmCall[w]
      new == [leads[c.lead] EXCEPT !.owner = c.pool.members[c.index]]
  IN  /\ c.pc = "assign"
      /\ ~ Locked(c.lead)
      /\ leads' = [leads EXCEPT ![c.lead] = new]
      /\ Turn(w, [c EXCEPT !.pc = "turn", !.new = new])
      /\ UNCHANGED <<stages, pool, points, crmLocks, lapses, crossed>>

TurnPool(w) ==
  LET c == crmCall[w] IN
  /\ c.pc = "turn"
  /\ pool' = [c.pool EXCEPT !.cursor = c.index]
  /\ Turn(w, [c EXCEPT !.pc = "close"])
  /\ UNCHANGED <<leads, stages, points, crmLocks, lapses, crossed>>

(* Mutant: the lead keeps the deadline it has missed. *)
RenewedStale(c) == [c.new EXCEPT !.breaches = c.listed[c.lead].breaches + 1]
Renewed(c) == [c.new EXCEPT !.breaches = c.listed[c.lead].breaches + 1, !.overdue = FALSE]

CloseBreach(w) ==
  LET c == crmCall[w] IN
  /\ c.pc = "close"
  /\ leads' = [leads EXCEPT ![c.lead] = Renewed(c)]
  /\ SweepNext(w, DOMAIN c.listed \ {c.lead})
  /\ UNCHANGED <<stages, pool, points, crmLocks, lapses, crossed>>
-----------------------------------------------------------------------------
(* setDefaultStage takes the flag from the others one by one, then saves    *)
(* the copy it read; archiveStage and updateStage read and save a copy.    *)
SetDefaultStage(w, s) ==
  /\ Idle(w)
  /\ stages[s].active
  /\ Turn(w, [pc |-> "unset", stage |-> s, new |-> [stages[s] EXCEPT !.default = TRUE],
              others |-> {t \in Stages \ {s} : stages[t].default}])
  /\ UNCHANGED <<leads, stages, pool, points, crmLocks, lapses, crossed>>

UnsetOther(w) ==
  LET c == crmCall[w] IN
  /\ c.pc = "unset"
  /\ \E t \in c.others :
       /\ stages' = [stages EXCEPT ![t].default = FALSE]
       /\ Turn(w, [c EXCEPT !.others = @ \ {t}])
  /\ UNCHANGED <<leads, pool, points, crmLocks, lapses, crossed>>

EditStage(w, s, new) ==   \* archived, or changed in what is left out
  /\ Idle(w)
  /\ new.active = stages[s].active \/ ~ stages[s].default
  /\ Turn(w, [pc |-> "unset", stage |-> s, new |-> new, others |-> {}])
  /\ UNCHANGED <<leads, stages, pool, points, crmLocks, lapses, crossed>>

SaveStage(w) ==
  LET c == crmCall[w] IN
  /\ c.pc = "unset"
  /\ c.others = {}
  /\ stages' = [stages EXCEPT ![c.stage] = c.new]
  /\ Turn(w, Rest)
  /\ UNCHANGED <<leads, pool, points, crmLocks, lapses, crossed>>

StopPipeline ==
  /\ ~ Quiet(crmCall)
  /\ crmCall' = [w \in Callers |-> Rest]
  /\ crmLocks' = {}
  /\ crossed' = (crossed \/ \E w \in Callers : crmCall[w].pc \in {"assign", "turn", "close"})
  /\ UNCHANGED <<leads, stages, pool, points, lapses>>

PipelineNext ==
  \/ \E w \in Callers :
       \/ \E who \in People, skilled \in SUBSET Members(pool) : PickOwner(w, who, skilled)
       \/ SaveCursor(w)
       \/ \E s \in Stages : CreateCheck(w, s) \/ SetDefaultStage(w, s)
            \/ EditStage(w, s, stages[s]) \/ EditStage(w, s, [stages[s] EXCEPT !.active = FALSE])
       \/ CreateRefused(w) \/ SaveLead(w)
       \/ \E l \in DOMAIN leads :
            \/ \E s \in Stages : MoveToStage(w, l, s)
            \/ \E m \in Members(pool) : AssignOwner(w, l, m)
            \/ PenalizeOwner(w, l)
       \/ SaveEdit(w)
       \/ SweepList(w) \/ Reassign(w) \/ TurnPool(w) \/ CloseBreach(w)
       \/ UnsetOther(w) \/ SaveStage(w)
  \/ \E l \in DOMAIN leads : DeadlinePasses(l)
  \/ \E t \in Teams : ConfigurePool(t)
  \/ StopPipeline

PipelineSpec == PipelineInit /\ [][PipelineNext]_pipelineVars
-----------------------------------------------------------------------------
(* However creations overlap, and wherever the process stops, no two leads  *)
(* share a phone or a national id (crm.service.ts:118-122, 132-138).       *)
OnePerPerson ==
  \A i, j \in DOMAIN leads : i # j => ~ SamePerson(leads[i].who, leads[j].who)

(* As long as no other call meets a sweep on the lead it works on, nobody   *)
(* is penalized twice for one missed deadline                              *)
(* (lead-distribution.service.ts:117-123).                                 *)
PenalizedOnce ==
  ~ crossed => points <= Cardinality({p \in (1..MaxLeads) \X (1..MaxLapses) : p[2] <= lapses[p[1]]})
=============================================================================

---------------------------- MODULE RecordProofs ----------------------------
(***************************************************************************)
(* What the records of the office promise, for every set of callers and    *)
(* every bound: the statuses of a register (Registers), the credit of a    *)
(* broker (Brokers), the times and slugs of the workflows (Workflows), the *)
(* persons and the points of the pipeline (Pipeline), the installments of  *)
(* a payment plan (Schedules), what a file becomes (Imports).  Calls read, *)
(* wait and save, so each invariant says what a call in progress may still *)
(* save; a claim that two calls can break when they meet is made under the *)
(* flag its module keeps of that.                                          *)
(***************************************************************************)
EXTENDS Registers, Brokers, Workflows, Pipeline, Schedules, Imports, FoldProofs, SequenceTheorems
-----------------------------------------------------------------------------
(* The registers. *)

Table(r, birth, status, moves, events) ==
  /\ r \in DOMAIN Registry
  /\ Registry[r].birth = birth /\ Registry[r].status = status
  /\ Registry[r].moves = moves /\ Registry[r].events = events

(* The five fields of each register. *)
LEMMA Tables ==
  /\ DOMAIN Registry = {"leave", "ticket", "legal", "vendor", "order", "campaign", "message", "task",
                        "broker", "commission", "quotation", "sales"}
  /\ Table("leave", "pending", LeaveRequestStatus, LeaveMoves, LeaveEvents)
  /\ Table("ticket", "open", MaintenanceStatus, TicketMoves, TicketEvents)
  /\ Table("legal", "pending", LegalDocumentStatus, LegalMoves, LegalEvents)
  /\ Table("vendor", "active", VendorStatus, VendorMoves, Silent)
  /\ Table("order", "draft", PurchaseOrderStatus, OrderMoves, OrderEvents)
  /\ Table("campaign", "planned", CampaignStatus, Moves("status", CampaignTransitions), CampaignEvents)
  /\ Table("message", "sent", MessageStatus, MessageMoves, Silent)
  /\ Table("task", "open", TaskStatus, TaskMoves, Silent)
  /\ Table("broker", "pending", BrokerCompanyStatus, BrokerMoves, Silent)
  /\ Table("commission", "pending", CommissionStatus, CommissionMoves, Silent)
  /\ Table("quotation", "generated", QuotationStatus, QuotationMoves, Silent)
  /\ Table("sales", "pending", SalesCommissionStatus, SalesCommissionMoves, SalesCommissionEvents)
<1>1. DOMAIN Registry = {"leave", "ticket", "legal", "vendor", "order", "campaign", "message", "task",
                         "broker", "commission", "quotation", "sales"}
  BY DEF Registry
<1>2. Table("leave", "pending", LeaveRequestStatus, LeaveMoves, LeaveEvents)
  BY <1>1 DEF Registry, Register, Table
<1>3. Table("ticket", "open", MaintenanceStatus, TicketMoves, TicketEvents)
  BY <1>1 DEF Registry, Register, Table
<1>4. Table("legal", "pending", LegalDocumentStatus, LegalMoves, LegalEvents)
  BY <1>1 DEF Registry, Register, Table
<1>5. Table("vendor", "active", VendorStatus, VendorMoves, Silent)
  BY <1>1 DEF Registry, Register, Table
<1>6. Table("order", "draft", PurchaseOrderStatus, OrderMoves, OrderEvents)
  BY <1>1 DEF Registry, Register, Table
<1>7. Table("campaign", "planned", CampaignStatus, Moves("status", CampaignTransitions), CampaignEvents)
  BY <1>1 DEF Registry, Register, Table
<1>8. Table("message", "sent", MessageStatus, MessageMoves, Silent)
  BY <1>1 DEF Registry, Register, Table
<1>9. Table("task", "open", TaskStatus, TaskMoves, Silent)
  BY <1>1 DEF Registry, Register, Table
<1>10. Table("broker", "pending", BrokerCompanyStatus, BrokerMoves, Silent)
  BY <1>1 DEF Registry, Register, Table
<1>11. Table("commission", "pending", CommissionStatus, CommissionMoves, Silent)
  BY <1>1 DEF Registry, Register, Table
<1>12. Table("quotation", "generated", QuotationStatus, QuotationMoves, Silent)
  BY <1>1 DEF Registry, Register, Table
<1>13. Table("sales", "pending", SalesCommissionStatus, SalesCommissionMoves, SalesCommissionEvents)
  BY <1>1 DEF Registry, Register, Table
<1> QED
  BY <1>1, <1>2, <1>3, <1>4, <1>5, <1>6, <1>7, <1>8, <1>9, <1>10, <1>11, <1>12, <1>13

(* The moves that follow a table of transitions. *)
LEMMA MovesOf ==
  ASSUME NEW op, NEW table, NEW m \in Moves(op, table)
  PROVE  \E s \in DOMAIN table : \E t \in table[s] : m.op = op /\ m.from = {s} /\ m.to = t
BY DEF Moves, Move

(* The status of a document stays within its register. *)
Sound(r) ==
  /\ Registry[r].birth \in Registry[r].status
  /\ \A m \in Registry[r].moves : m.from \subseteq Registry[r].status /\ m.to \in Registry[r].status \cup {None}

(* Every register is sound. *)
LEMMA AllSound == \A r \in DOMAIN Registry : Sound(r)
<1>1. Sound("leave") /\ Sound("legal") /\ Sound("order")
  BY Tables DEF Table, Sound, Move, LeaveRequestStatus, LeaveMoves, LegalDocumentStatus, LegalMoves,
                PurchaseOrderStatus, OrderMoves
<1>2. Sound("vendor") /\ Sound("message") /\ Sound("task") /\ Sound("broker")
  BY Tables DEF Table, Sound, Move, VendorStatus, VendorMoves, MessageStatus, MessageMoves, TaskStatus,
                TaskMoves, BrokerCompanyStatus, BrokerMoves
<1>3. Sound("commission") /\ Sound("quotation") /\ Sound("sales")
  BY Tables DEF Table, Sound, Move, CommissionStatus, CommissionMoves, QuotationStatus, QuotationMoves,
                SalesCommissionStatus, SalesCommissionMoves
<1>4. Sound("campaign")
  <2>1. \A m \in Moves("status", CampaignTransitions) :
          m.from \subseteq CampaignStatus /\ m.to \in CampaignStatus
    BY MovesOf DEF CampaignTransitions, CampaignStatus
  <2> QED
    BY Tables, <2>1 DEF Table, Sound, CampaignStatus
<1>5. Sound("ticket")
  <2>1. \A m \in Moves("status", TicketTransitions) :
          m.from \subseteq MaintenanceStatus /\ m.to \in MaintenanceStatus
    BY MovesOf DEF TicketTransitions, MaintenanceStatus
  <2> QED
    BY Tables, <2>1 DEF Table, Sound, TicketMoves, Move, MaintenanceStatus
<1> QED
  BY Tables, <1>1, <1>2, <1>3, <1>4, <1>5

(* What must come before a status comes before every move that leads to it. *)
Preceded(r, t, b) ==
  /\ Registry[r].birth # t
  /\ \A m \in Registry[r].moves : m.to = t => \A s \in m.from : s = b \/ <<r, s, b>> \in Precedes

(* In every register, what must come first does. *)
LEMMA AllPreceded == \A p \in Precedes : p[1] \in Registers => Preceded(p[1], p[2], p[3])
<1>1. Preceded("order", "fulfilled", "approved")
  BY Tables DEF Table, OrderMoves, Move, Preceded
<1>2. Preceded("sales", "paid", "approved")
  BY Tables DEF Table, SalesCommissionMoves, Move, Preceded
<1>3. Preceded("sales", "clawed_back", "approved")
  BY Tables DEF Table, SalesCommissionMoves, Move, Precedes, Preceded
<1>4. Preceded("legal", "verified", "received")
  BY Tables DEF Table, LegalMoves, Move, Preceded
<1>5. Preceded("broker", "suspended", "approved")
  BY Tables DEF Table, BrokerMoves, Move, Preceded
<1>6. Preceded("campaign", "completed", "active")
  <2>1. \A m \in Moves("status", CampaignTransitions) : m.to = "completed" => m.from = {"active"}
    BY MovesOf DEF CampaignTransitions
  <2> QED
    BY Tables, <2>1 DEF Table, Preceded
<1>7. ASSUME "ticket" \in Registers PROVE Preceded("ticket", "resolved", "in_progress")
  <2>1. \A m \in Moves("status", TicketTransitions) : m.to = "resolved" => m.from = {"in_progress"}
    BY MovesOf DEF TicketTransitions
  <2>2. None # "resolved"
    BY <1>7, Tables, RegistersAssumption DEF Table, MaintenanceStatus
  <2> QED
    BY Tables, <2>1, <2>2 DEF Table, TicketMoves, Move, Preceded
<1> QED
  BY <1>1, <1>2, <1>3, <1>4, <1>5, <1>6, <1>7 DEF Precedes

(* The registers that announce changes of status, ranked: a move leads up,  *)
(* or nowhere, and is announced by the status it leads to, except for the   *)
(* one decision on a leave request.                                         *)
Rank == [pending |-> 0, draft |-> 0, planned |-> 0, approved |-> 1, received |-> 1, active |-> 1,
         verified |-> 2, fulfilled |-> 2, completed |-> 2, paid |-> 2,
         rejected |-> 3, cancelled |-> 3, clawed_back |-> 3]
Loud == {"leave", "legal", "order", "campaign", "sales"}

Uphill(r, m) == \A s \in m.from : m.to = s \/ Rank[s] < Rank[m.to]
Announced(r, m) ==
  m.op \in DOMAIN Registry[r].events =>
    \/ Registry[r].events[m.op] = "status_changed"
    \/ Registry[r].events[m.op] = "decided" /\ m.from = {"pending"} /\ m.to \in {"approved", "rejected"}
Ranked(r) ==
  /\ Registry[r].birth \in DOMAIN Rank
  /\ \A m \in Registry[r].moves :
       /\ m.from \subseteq DOMAIN Rank /\ m.to \in DOMAIN Rank /\ m.to \in Registry[r].status
       /\ Uphill(r, m) /\ Announced(r, m)
  /\ "create" \in DOMAIN Registry[r].events => Registry[r].events["create"] \notin {"status_changed", "decided"}

(* The ranks, spelled out. *)
LEMMA RankOf ==
  /\ DOMAIN Rank = {"pending", "draft", "planned", "approved", "received", "active", "verified", "fulfilled",
                    "completed", "paid", "rejected", "cancelled", "clawed_back"}
  /\ Rank["pending"] = 0 /\ Rank["draft"] = 0 /\ Rank["planned"] = 0
  /\ Rank["approved"] = 1 /\ Rank["received"] = 1 /\ Rank["active"] = 1
  /\ Rank["verified"] = 2 /\ Rank["fulfilled"] = 2 /\ Rank["completed"] = 2 /\ Rank["paid"] = 2
  /\ Rank["rejected"] = 3 /\ Rank["cancelled"] = 3 /\ Rank["clawed_back"] = 3
  /\ \A s \in DOMAIN Rank : Rank[s] \in Nat
BY DEF Rank

(* Every register that announces changes goes up in rank. *)
LEMMA AllRanked == \A r \in Loud : Ranked(r)
<1>1. Ranked("leave")
  BY Tables, RankOf DEF Table, Ranked, Uphill, Announced, LeaveMoves, LeaveEvents, LeaveRequestStatus, Move
<1>2. Ranked("legal")
  BY Tables, RankOf DEF Table, Ranked, Uphill, Announced, LegalMoves, LegalEvents, LegalDocumentStatus, Move
<1>3. Ranked("order")
  BY Tables, RankOf DEF Table, Ranked, Uphill, Announced, OrderMoves, OrderEvents, PurchaseOrderStatus, Move
<1>4. Ranked("sales")
  BY Tables, RankOf DEF Table, Ranked, Uphill, Announced, SalesCommissionMoves, SalesCommissionEvents,
                        SalesCommissionStatus, Move
<1>5. Ranked("campaign")
  <2>1. \A m \in Moves("status", CampaignTransitions) :
          /\ m.op = "status"
          /\ \/ m.from = {"planned"} /\ m.to = "active"
             \/ m.from = {"active"} /\ m.to = "completed"
             \/ m.from \in {{"planned"}, {"active"}} /\ m.to = "cancelled"
    BY MovesOf DEF CampaignTransitions
  <2> QED
    BY Tables, RankOf, <2>1 DEF Table, Ranked, Uphill, Announced, CampaignEvents, CampaignStatus
<1> QED
  BY <1>1, <1>2, <1>3, <1>4, <1>5 DEF Loud

(* The other registers announce nothing; no operation is called none. *)
Mute(r) ==
  /\ Registry[r].events = Silent
  /\ \A m \in Registry[r].moves : m.op # "none"

(* A register that is not re-entrant goes up in rank, or announces nothing. *)
LEMMA LoudOrMute == \A r \in Registers \ Reentrant : r \in Loud \/ Mute(r)
<1>1. Mute("vendor") /\ Mute("message") /\ Mute("task") /\ Mute("broker") /\ Mute("commission") /\ Mute("quotation")
  BY Tables DEF Table, Mute, VendorMoves, MessageMoves, TaskMoves, BrokerMoves, CommissionMoves, QuotationMoves, Move
<1> QED
  BY Tables, RegistersAssumption, <1>1 DEF Loud

(* A call that saves makes a move of the register; one that announces has   *)
(* made it, or created the document.                                        *)
Moved(c) == \E m \in Here.moves : c.op = m.op /\ c.seen \in m.from /\ c.to = IF m.to = None THEN c.seen ELSE m.to
RegisterCall(c) ==
  \/ c = Rest
  \/ c.pc = "save" /\ Moved(c)
  \/ /\ c.pc = "emit" /\ c.op \in DOMAIN Here.events
     /\ Moved(c) \/ (c.op = "create" /\ c.to = Here.birth /\ c.seen = None)

RegisterTypes ==
  /\ register \in Registers
  /\ call = [w \in Callers |-> call[w]]
  /\ \A w \in Callers : RegisterCall(call[w])
  /\ stale \in BOOLEAN
  /\ doc \in Here.status \/ (doc = None /\ past = {} /\ told = {} /\ muted = {}
                              /\ \A w \in Callers : call[w] = Rest)
  /\ doc # None => doc \in past

(* What a call is about to save has been earned when it is read. *)
EarnedSoFar ==
  \A p \in Precedes : register = p[1] =>
    /\ doc = p[2] => p[3] \in past
    /\ \A w \in Callers : call[w].pc = "save" /\ call[w].to = p[2] => p[3] \in past

(* Announced once: a key is told, or about to be, only after its change. *)
Key(c) == <<Here.events[c.op], IF Here.events[c.op] = "status_changed" THEN c.to ELSE None>>
Telling(w) == call[w].pc = "emit" /\ call[w].to # call[w].seen
Spent(k) ==
  CASE k[1] = "status_changed" -> k[2] \in past
    [] k[1] = "decided" -> past \cap {"approved", "rejected"} # {}
    [] OTHER -> past # {}

ToldOnce == register \notin Reentrant /\ ~ stale =>
  /\ muted = {}
  /\ register \in Loud =>
       /\ past \subseteq DOMAIN Rank
       /\ doc # None => \A s \in past : Rank[s] <= Rank[doc]
  /\ \A k \in told : Spent(k)
  /\ \A w \in Callers : Telling(w) => Spent(Key(call[w])) /\ Key(call[w]) \notin told
  /\ \A v, w \in Callers : Telling(v) /\ Telling(w) /\ Key(call[v]) = Key(call[w]) => v = w

RegistersInv == RegisterTypes /\ EarnedSoFar /\ ToldOnce

(* A new document has come from nowhere: the register starts in order. *)
LEMMA RegistersStart == RegistersInit => RegistersInv
<1> SUFFICES ASSUME RegistersInit PROVE RegistersInv
  OBVIOUS
<1>1. \A w \in Callers : call[w] = Rest /\ call[w].pc = "idle"
  BY DEF RegistersInit, Rest
<1>2. \A p \in Precedes : p[1] \in Registers => \E s \in Registry[p[1]].status : s = p[2]
  BY Tables DEF Precedes, Table, PurchaseOrderStatus, SalesCommissionStatus, LegalDocumentStatus, CampaignStatus,
                BrokerCompanyStatus, MaintenanceStatus
<1>3. RegisterTypes
  BY <1>1 DEF RegistersInit, RegisterTypes, RegisterCall
<1>4. EarnedSoFar
  BY <1>1, <1>2, RegistersAssumption DEF RegistersInit, EarnedSoFar
<1>5. ToldOnce
  BY <1>1 DEF RegistersInit, ToldOnce, Telling
<1> QED
  BY <1>3, <1>4, <1>5 DEF RegistersInv

(* Every step on a document keeps the invariant: a step per action. *)
LEMMA RegistersNextInv ==
  ASSUME RegistersInv, [RegistersNext]_registersVars PROVE RegistersInv'
<1> USE DEF RegistersInv
<1>0. /\ call = [v \in Callers |-> call[v]] /\ register \in Registers /\ register \in DOMAIN Registry
      /\ Rest.pc = "idle" /\ None \notin Here.status /\ Here.birth \in Here.status
      /\ \A m \in Here.moves : m.from \subseteq Here.status /\ m.to \in Here.status \cup {None}
  BY RegistersAssumption, AllSound DEF RegisterTypes, Rest, Here, Sound
<1>a. register \notin Reentrant => (register \in Loud /\ Ranked(register)) \/ Mute(register)
  BY <1>0, LoudOrMute, AllRanked
<1>b. ASSUME UNCHANGED register PROVE Here' = Here
  BY <1>b DEF Here
<1>1. ASSUME NEW w \in Callers, CreateDoc(w) PROVE RegistersInv'
  <2>1. /\ doc = None /\ doc' = Here.birth /\ past' = {Here.birth}
        /\ UNCHANGED <<register, heard, told, muted, stale>>
    BY <1>1 DEF CreateDoc
  <2>2. past = {} /\ told = {} /\ muted = {} /\ \A v \in Callers : call[v] = Rest
    BY <1>0, <2>1 DEF RegisterTypes
  <2>3. PICK n : 
          /\ call' = [call EXCEPT ![w] = n]
          /\ \/ n = Rest
             \/ "create" \in DOMAIN Here.events /\ n = [pc |-> "emit", op |-> "create", to |-> Here.birth, seen |-> None]
    BY <1>1 DEF CreateDoc, Announce, Becomes
  <2>4. n.pc \in {"idle", "emit"} /\ (n = Rest \/ (n.pc = "emit" /\ n.op = "create" /\ n.to = Here.birth /\ n.seen = None
                                                     /\ "create" \in DOMAIN Here.events))
    BY <1>0, <2>3
  <2>5. call'[w] = n /\ (\A v \in Callers : v # w => call'[v] = Rest) /\ call' = [v \in Callers |-> call'[v]]
    BY <1>0, <2>2, <2>3
  <2>6. Here' = Here
    BY <1>b, <2>1
  <2>7. RegisterTypes'
    <3>1. \A v \in Callers : RegisterCall(call[v])'
      BY <2>4, <2>5, <2>6 DEF RegisterCall, Moved
    <3> QED
      BY <1>0, <2>1, <2>5, <2>6, <3>1 DEF RegisterTypes
  <2>8. EarnedSoFar'
    <3>1. \A p \in Precedes : register = p[1] => Here.birth # p[2]
      BY <1>0, AllPreceded DEF Preceded, Here
    <3> QED
      BY <1>0, <2>1, <2>4, <2>5, <3>1 DEF EarnedSoFar
  <2>9. ToldOnce'
    <3> SUFFICES ASSUME register \notin Reentrant PROVE ToldOnce'
      BY <2>1 DEF ToldOnce
    <3>1. \A v \in Callers : Telling(v)' => v = w /\ n.pc = "emit" /\ n # Rest
      BY <1>0, <2>4, <2>5 DEF Telling
    <3>2. "create" \in DOMAIN Here.events => Here.events["create"] \notin {"status_changed", "decided"}
      BY <1>a DEF Ranked, Mute, Here, Silent
    <3>3. \A v \in Callers : Telling(v)' => Spent(Key(call[v]))'
      <4> SUFFICES ASSUME Telling(w)' PROVE Spent(Key(call[w]))'
        BY <3>1
      <4>1. n.op = "create" /\ Here.events["create"] \notin {"status_changed", "decided"}
        BY <1>0, <2>4, <3>1, <3>2
      <4>2. Key(call[w])' = <<Here.events["create"], None>>
        BY <2>5, <2>6, <4>1 DEF Key
      <4>3. past' # {}
        BY <2>1
      <4> QED
        BY <4>1, <4>2, <4>3 DEF Spent
    <3>4. register \in Loud => Here.birth \in DOMAIN Rank /\ Rank[Here.birth] \in Nat
      BY AllRanked, RankOf DEF Ranked, Here
    <3>5. register \in Loud => past' \subseteq DOMAIN Rank /\ \A s \in past' : Rank[s] <= Rank[doc']
      BY <2>1, <3>4
    <3> QED
      BY <2>1, <2>2, <3>1, <3>3, <3>5 DEF ToldOnce
  <2> QED
    BY <2>7, <2>8, <2>9
<1>2. ASSUME NEW w \in Callers, NEW m \in Here.moves, ReadDoc(w, m) PROVE RegistersInv'
  <2>1. PICK t : t = IF m.to = None THEN doc ELSE m.to
    OBVIOUS
  <2>2. PICK n : n = [pc |-> "save", op |-> m.op, seen |-> doc, to |-> t]
    OBVIOUS
  <2>3. /\ doc \in m.from /\ call' = [call EXCEPT ![w] = n]
        /\ UNCHANGED <<register, doc, heard, past, told, muted, stale>>
    BY <1>2, <2>1, <2>2 DEF ReadDoc, Becomes
  <2>4. n.pc = "save" /\ n.op = m.op /\ n.seen = doc /\ n.to = t
    BY <2>2
  <2>5. call'[w] = n /\ (\A v \in Callers : v # w => call'[v] = call[v]) /\ call' = [v \in Callers |-> call'[v]]
    BY <1>0, <2>3
  <2>6. Here' = Here
    BY <1>b, <2>3
  <2>7. doc # None /\ doc \in Here.status
    BY <1>0, <2>3
  <2>8. RegisterTypes'
    <3>1. RegisterCall(n)
      BY <2>1, <2>3, <2>4 DEF RegisterCall, Moved
    <3>2. \A v \in Callers : RegisterCall(call[v])'
      BY <2>5, <2>6, <3>1 DEF RegisterTypes, RegisterCall, Moved
    <3> QED
      BY <1>0, <2>3, <2>5, <2>6, <2>7, <3>2 DEF RegisterTypes
  <2>9. EarnedSoFar'
    <3> SUFFICES ASSUME NEW p \in Precedes, register = p[1]
                 PROVE  /\ doc = p[2] => p[3] \in past
                        /\ \A v \in Callers : call'[v].pc = "save" /\ call'[v].to = p[2] => p[3] \in past
      BY <2>3 DEF EarnedSoFar
    <3>1. t = p[2] => p[3] \in past
      <4>1. CASE m.to = None
        BY <2>1, <4>1 DEF EarnedSoFar
      <4>2. CASE m.to # None
        <5> SUFFICES ASSUME m.to = p[2] PROVE p[3] \in past
          BY <2>1, <4>2
        <5>1. doc = p[3] \/ <<p[1], doc, p[3]>> \in Precedes
          BY <1>0, <2>3, AllPreceded DEF Preceded, Here
        <5>2. doc \in past
          BY <2>7 DEF RegisterTypes
        <5>3. <<p[1], doc, p[3]>> \in Precedes => p[3] \in past
          BY DEF EarnedSoFar
        <5> QED
          BY <5>1, <5>2, <5>3
      <4> QED
        BY <4>1, <4>2
    <3> QED
      BY <2>4, <2>5, <3>1 DEF EarnedSoFar
  <2>10. ToldOnce'
    <3>1. \A v \in Callers : Telling(v)' => Telling(v) /\ Key(call[v])' = Key(call[v])
      BY <2>4, <2>5, <2>6 DEF Telling, Key
    <3> QED
      BY <2>3, <3>1 DEF ToldOnce, Spent
  <2> QED
    BY <2>8, <2>9, <2>10
<1>3. ASSUME NEW w \in Callers, SaveDoc(w) PROVE RegistersInv'
  <2>1. PICK c : c = call[w]
    OBVIOUS
  <2>2. /\ c.pc = "save" /\ doc' = c.to /\ past' = past \cup {c.to}
        /\ stale' = (stale \/ doc # c.seen)
        /\ UNCHANGED <<register, heard, told, muted>>
    BY <1>3, <2>1 DEF SaveDoc
  <2>3. PICK m \in Here.moves : c.op = m.op /\ c.seen \in m.from /\ c.to = IF m.to = None THEN c.seen ELSE m.to
    BY <1>0, <2>1, <2>2 DEF RegisterTypes, RegisterCall, Moved
  <2>4. PICK n :
          /\ call' = [call EXCEPT ![w] = n]
          /\ \/ n = Rest
             \/ c.op \in DOMAIN Here.events /\ n = [pc |-> "emit", op |-> c.op, to |-> c.to, seen |-> c.seen]
    BY <1>3, <2>1 DEF SaveDoc, Announce, Becomes
  <2>5. n = Rest \/ (n.pc = "emit" /\ n.op = c.op /\ n.to = c.to /\ n.seen = c.seen /\ c.op \in DOMAIN Here.events)
    BY <2>4
  <2>6. call'[w] = n /\ (\A v \in Callers : v # w => call'[v] = call[v]) /\ call' = [v \in Callers |-> call'[v]]
    BY <1>0, <2>4
  <2>7. Here' = Here
    BY <1>b, <2>2
  <2>8. c.to \in Here.status /\ doc # None
    <3>1. doc # None
      BY <1>0, <2>1, <2>2 DEF RegisterTypes
    <3> QED
      BY <1>0, <2>3, <3>1
  <2>9. RegisterTypes'
    <3>1. RegisterCall(n)
      BY <2>3, <2>5 DEF RegisterCall, Moved
    <3>2. \A v \in Callers : RegisterCall(call[v])'
      BY <2>6, <2>7, <3>1 DEF RegisterTypes, RegisterCall, Moved
    <3>3. stale' \in BOOLEAN
      BY <2>2
    <3> QED
      BY <1>0, <2>2, <2>6, <2>7, <2>8, <3>2, <3>3 DEF RegisterTypes
  <2>10. EarnedSoFar'
    <3>1. \A v \in Callers : call'[v].pc = "save" => call[v].pc = "save" /\ call'[v].to = call[v].to
      BY <1>0, <2>5, <2>6
    <3> QED
      BY <2>1, <2>2, <3>1 DEF EarnedSoFar
  <2>11. ToldOnce'
    <3> SUFFICES ASSUME register \notin Reentrant, ~ stale' PROVE ToldOnce'
      BY <2>2 DEF ToldOnce
    <3>1. ~ stale /\ doc = c.seen
      BY <2>2
    <3>2. \A k : Spent(k) => Spent(k)'
      BY <2>2 DEF Spent
    <3>3. \A v \in Callers : v # w => (Telling(v)' <=> Telling(v)) /\ Key(call[v])' = Key(call[v])
      BY <2>6, <2>7 DEF Telling, Key
    <3>4. CASE Mute(register)
      <4>1. ~ Telling(w)'
        BY <1>0, <2>3, <2>5, <2>6, <3>4 DEF Telling, Mute, Silent, Here
      <4>2. register \notin Loud
        BY <3>4, Tables DEF Mute, Table, Loud, Silent, LeaveEvents, LegalEvents, OrderEvents, CampaignEvents,
                            SalesCommissionEvents
      <4> QED
        BY <2>2, <3>1, <3>2, <3>3, <4>1, <4>2 DEF ToldOnce
    <3>5. CASE register \in Loud /\ Ranked(register)
      <4>1. /\ m.from \subseteq DOMAIN Rank /\ m.to \in DOMAIN Rank /\ Uphill(register, m) /\ Announced(register, m)
            /\ m.to \in Here.status
        BY <3>5 DEF Ranked, Here
      <4>2. c.to = m.to /\ doc \in m.from /\ (c.to = doc \/ Rank[doc] < Rank[c.to])
        BY <1>0, <2>3, <3>1, <4>1 DEF Uphill
      <4>3. Rank[doc] \in Nat /\ Rank[c.to] \in Nat /\ past \subseteq DOMAIN Rank /\ \A s \in past : Rank[s] \in Nat /\ Rank[s] <= Rank[doc]
        <5>1. past \subseteq DOMAIN Rank /\ \A s \in past : Rank[s] <= Rank[doc]
          BY <2>8, <3>1, <3>5 DEF ToldOnce
        <5> QED
          BY <4>1, <4>2, <5>1, RankOf
      <4>4. past' \subseteq DOMAIN Rank
        BY <2>2, <4>1, <4>2, <4>3
      <4>5. \A s \in past' : Rank[s] <= Rank[doc']
        <5>1. Rank[doc] <= Rank[c.to]
          BY <4>2, <4>3
        <5>2. \A s \in past : Rank[s] <= Rank[c.to]
          BY <4>3, <5>1
        <5> QED
          BY <2>2, <4>3, <5>2
      <4>6. c.to # doc => c.to \notin past
        BY <4>2, <4>3
      <4>7. ASSUME Telling(w)' PROVE Spent(Key(call[w]))' /\ ~ Spent(Key(call[w])')
        <5>1. n.pc = "emit" /\ n.to = c.to /\ n.op = c.op /\ c.to # doc /\ m.op \in DOMAIN Here.events
          BY <1>0, <2>3, <2>5, <2>6, <3>1, <4>7 DEF Telling
        <5>2. Key(call[w])' = <<Here.events[m.op], IF Here.events[m.op] = "status_changed" THEN c.to ELSE None>>
          BY <2>3, <2>6, <2>7, <5>1 DEF Key
        <5>3. CASE Here.events[m.op] = "status_changed"
          BY <2>2, <4>6, <5>1, <5>2, <5>3 DEF Spent
        <5>4. CASE Here.events[m.op] = "decided" /\ m.from = {"pending"} /\ m.to \in {"approved", "rejected"}
          <6>1. Key(call[w])' = <<"decided", None>>
            BY <5>2, <5>4
          <6>2. past' \cap {"approved", "rejected"} # {}
            BY <2>2, <4>2, <5>4
          <6>3. past \cap {"approved", "rejected"} = {}
            BY <4>2, <4>3, <5>4, RankOf
          <6> QED
            BY <6>1, <6>2, <6>3 DEF Spent
        <5> QED
          BY <4>1, <5>1, <5>3, <5>4 DEF Announced, Here
      <4>8. \A k \in told : Spent(k)
        BY <3>1 DEF ToldOnce
      <4>9. \A v \in Callers : v # w /\ Telling(v)' => Spent(Key(call[v])') /\ Key(call[v])' \notin told
        BY <3>1, <3>3 DEF ToldOnce
      <4>10. \A v \in Callers : Telling(v)' => Key(call[v])' \notin told
        BY <4>7, <4>8, <4>9
      <4>11. \A v \in Callers : Telling(v)' => Spent(Key(call[v]))'
        BY <3>1, <3>2, <3>3, <4>7 DEF ToldOnce
      <4>12. \A u, v \in Callers : Telling(u)' /\ Telling(v)' /\ Key(call[u])' = Key(call[v])' => u = v
        <5>1. \A v \in Callers : v # w /\ Telling(v)' /\ Telling(w)' => Key(call[v])' # Key(call[w])'
          BY <4>7, <4>9
        <5>2. \A u, v \in Callers : u # w /\ v # w /\ Telling(u)' /\ Telling(v)' /\ Key(call[u])' = Key(call[v])' => u = v
          BY <3>1, <3>3 DEF ToldOnce
        <5> QED
          BY <5>1, <5>2
      <4>13. muted' = {} /\ \A k \in told' : Spent(k)'
        BY <2>2, <3>1, <3>2, <4>8 DEF ToldOnce
      <4> QED
        BY <2>2, <4>4, <4>5, <4>10, <4>11, <4>12, <4>13 DEF ToldOnce
    <3> QED
      BY <1>a, <3>4, <3>5
  <2> QED
    BY <2>9, <2>10, <2>11
<1>4. ASSUME NEW w \in Callers, EmitChange(w) PROVE RegistersInv'
  <2>1. PICK change :
          /\ change = IF call[w].to = call[w].seen THEN {} ELSE {DedupeKey(w)}
          /\ muted' = muted \cup (change \cap told) /\ told' = told \cup change
    BY <1>4 DEF EmitChange
  <2>2. /\ call[w].pc = "emit" /\ call' = [call EXCEPT ![w] = Rest]
        /\ UNCHANGED <<register, doc, past, stale>>
    BY <1>4 DEF EmitChange, Becomes
  <2>3. call'[w] = Rest /\ (\A v \in Callers : v # w => call'[v] = call[v]) /\ call' = [v \in Callers |-> call'[v]]
    BY <1>0, <2>2
  <2>4. Here' = Here
    BY <1>b, <2>2
  <2>5. DedupeKey(w) = Key(call[w])
    BY DEF DedupeKey, Key
  <2>6. RegisterTypes'
    <3>1. \A v \in Callers : RegisterCall(call[v])'
      BY <2>3, <2>4 DEF RegisterTypes, RegisterCall, Moved
    <3>2. doc # None
      BY <1>0, <2>2 DEF RegisterTypes
    <3> QED
      BY <1>0, <2>2, <2>3, <2>4, <3>1, <3>2 DEF RegisterTypes
  <2>7. EarnedSoFar'
    <3>1. \A v \in Callers : call'[v].pc = "save" => call[v].pc = "save" /\ call'[v].to = call[v].to
      BY <1>0, <2>3
    <3> QED
      BY <2>2, <3>1 DEF EarnedSoFar
  <2>8. ToldOnce'
    <3> SUFFICES ASSUME register \notin Reentrant, ~ stale PROVE ToldOnce'
      BY <2>2 DEF ToldOnce
    <3>1. \A k : Spent(k) => Spent(k)'
      BY <2>2 DEF Spent
    <3>2. \A v \in Callers : Telling(v)' => v # w /\ Telling(v) /\ Key(call[v])' = Key(call[v])
      BY <1>0, <2>3, <2>4 DEF Telling, Key
    <3>3. CASE Telling(w)
      <4>1. change = {Key(call[w])}
        BY <2>1, <2>5, <3>3 DEF Telling
      <4>2. Key(call[w]) \notin told /\ Spent(Key(call[w]))
        BY <3>3 DEF ToldOnce
      <4>3. muted' = {} /\ told' = told \cup {Key(call[w])}
        BY <2>1, <4>1, <4>2 DEF ToldOnce
      <4>4. \A v \in Callers : Telling(v)' => Key(call[v])' \notin told'
        BY <3>2, <3>3, <4>3 DEF ToldOnce
      <4>5. \A k \in told' : Spent(k)'
        BY <3>1, <4>2, <4>3 DEF ToldOnce
      <4> QED
        BY <2>2, <3>1, <3>2, <4>3, <4>4, <4>5 DEF ToldOnce
    <3>4. CASE ~ Telling(w)
      <4>1. muted' = muted /\ told' = told
        BY <2>1, <2>2, <3>4 DEF Telling
      <4> QED
        BY <2>2, <3>1, <3>2, <4>1 DEF ToldOnce
    <3> QED
      BY <3>3, <3>4
  <2> QED
    BY <2>6, <2>7, <2>8
<1>5. CASE StopOffice
  <2>1. call' = [v \in Callers |-> Rest] /\ UNCHANGED <<register, doc, heard, past, told, muted, stale>>
    BY <1>5 DEF StopOffice
  <2>2. (\A v \in Callers : call'[v] = Rest) /\ call' = [v \in Callers |-> call'[v]]
    BY <2>1
  <2>3. Here' = Here
    BY <1>b, <2>1
  <2>4. RegisterTypes'
    BY <2>1, <2>2, <2>3 DEF RegisterTypes, RegisterCall
  <2>5. EarnedSoFar'
    BY <1>0, <2>1, <2>2 DEF EarnedSoFar
  <2>6. ToldOnce'
    BY <1>0, <2>1, <2>2 DEF ToldOnce, Telling, Spent
  <2> QED
    BY <2>4, <2>5, <2>6
<1>6. CASE UNCHANGED registersVars
  <2>1. UNCHANGED <<register, doc, call, heard, past, told, muted, stale>> /\ Here' = Here
    BY <1>6, <1>b DEF registersVars
  <2>2. RegisterTypes'
    BY <2>1 DEF RegisterTypes, RegisterCall, Moved
  <2>3. EarnedSoFar' /\ ToldOnce'
    BY <2>1 DEF EarnedSoFar, ToldOnce, Telling, Spent, Key
  <2> QED
    BY <2>2, <2>3
<1> QED
  BY <1>1, <1>2, <1>3, <1>4, <1>5, <1>6 DEF RegistersNext

(* However calls overlap and wherever the process stops, nothing is paid,   *)
(* fulfilled, verified, completed or suspended that was not approved,       *)
(* received or active before: in every set of registers.                    *)
THEOREM RegistersEarn == RegistersSpec => []Earned
<1>1. RegistersInv => Earned
  BY DEF RegistersInv, EarnedSoFar, Earned
<1> QED
  BY RegistersStart, RegistersNextInv, <1>1, PTL DEF RegistersSpec

(* As long as no two calls overlap on a document, no two announced changes  *)
(* of its status share a dedupeKey, so each gets a workflow run of its own  *)
(* (event-bus.ts:8-12, automation.service.ts:565-580).                      *)
THEOREM RegistersHeard == RegistersSpec => []ChangesHeard
<1>1. RegistersInv => ChangesHeard
  BY DEF RegistersInv, ToldOnce, ChangesHeard
<1> QED
  BY RegistersStart, RegistersNextInv, <1>1, PTL DEF RegistersSpec
-----------------------------------------------------------------------------
(* Brokers and their registrations. *)

Registration ==
  [company : BrokerCompanies, protected : BOOLEAN,
   status : {"pending_approval", "approved", "rejected_duplicate"}]
BrokerCalls ==
  {Rest} \cup [pc : {"register"}, company : BrokerCompanies] \cup [pc : {"lead"}, at : Nat]
    \cup [pc : {"decide"}, at : Nat, status : {"approved", "rejected_duplicate"}]

BrokerTypes ==
  /\ registrations \in Seq(Registration)
  /\ brokerCall \in [Callers -> BrokerCalls]
  /\ rushed \in BOOLEAN /\ clashed \in BOOLEAN
  /\ leadFrom \in {0, None} \cup DOMAIN registrations
  /\ \A w \in Callers : brokerCall[w].pc \in {"lead", "decide"} => brokerCall[w].at \in DOMAIN registrations

Decides(w, i, status) ==
  brokerCall[w].pc = "decide" /\ brokerCall[w].at = i /\ brokerCall[w].status = status

(* Whoever is about to show a registration as approved made the lead of it. *)
Credited ==
  /\ \A i \in DOMAIN registrations : registrations[i].status = "approved" => leadFrom = i
  /\ \A w \in Callers, i \in DOMAIN registrations : Decides(w, i, "approved") => leadFrom = i
  /\ \A w \in Callers, i \in DOMAIN registrations : Decides(w, i, "rejected_duplicate") => leadFrom # None

(* One call at a time approves a registration, from pending to decided. *)
Alongside(v, w) ==
  brokerCall[v].pc \in {"lead", "decide"} /\ brokerCall[w].pc \in {"lead", "decide"}
    /\ brokerCall[v].at = brokerCall[w].at
Unclashed == ~ clashed =>
  /\ \A v, w \in Callers : Alongside(v, w) => v = w
  /\ \A w \in Callers : brokerCall[w].pc \in {"lead", "decide"} => AwaitsApproval(brokerCall[w].at)
  /\ \A i \in DOMAIN registrations : leadFrom = i =>
       registrations[i].status = "approved" \/ \E w \in Callers : Decides(w, i, "approved")
  /\ \A w \in Callers, i \in DOMAIN registrations : Decides(w, i, "rejected_duplicate") => leadFrom # i
  /\ \A i \in DOMAIN registrations : registrations[i].status = "rejected_duplicate" => leadFrom # i

(* One call at a time registers the prospect, beside its own company only. *)
Unrushed == ~ rushed =>
  /\ \A v, w \in Callers : brokerCall[v].pc = "register" /\ brokerCall[w].pc = "register" => v = w
  /\ \A w \in Callers : brokerCall[w].pc = "register" =>
       \A i \in DOMAIN registrations : Protected(i) => registrations[i].company = brokerCall[w].company
  /\ \A i, j \in DOMAIN registrations :
       Protected(i) /\ Protected(j) => registrations[i].company = registrations[j].company

BrokersInv == BrokerTypes /\ Credited /\ Unclashed /\ Unrushed

(* No registration and no call: the brokers start in order. *)
LEMMA BrokersStart == BrokersInit => BrokersInv
<1> SUFFICES ASSUME BrokersInit PROVE BrokersInv
  OBVIOUS
<1>1. \A w \in Callers : brokerCall[w].pc = "idle"
  BY DEF BrokersInit, Rest
<1>2. BrokerTypes
  <2>1. registrations \in Seq(Registration)
    BY DEF BrokersInit
  <2>2. brokerCall \in [Callers -> BrokerCalls]
    BY DEF BrokersInit, BrokerCalls
  <2> QED
    BY <1>1, <2>1, <2>2 DEF BrokersInit, BrokerTypes
<1>3. Credited /\ Unrushed
  BY <1>1 DEF BrokersInit, Credited, Unrushed, Decides
<1>4. Unclashed
  BY <1>1, BrokersAssumption DEF BrokersInit, Unclashed, Alongside, Decides
<1> QED
  BY <1>2, <1>3, <1>4 DEF BrokersInv

(* The call of w is at rest, registers or approves; the others wait. *)
LEMMA BrokersNextInv ==
  ASSUME BrokersInv, [BrokersNext]_brokerVars PROVE BrokersInv'
<1> USE DEF BrokersInv
<1>0. brokerCall \in [Callers -> BrokerCalls] /\ BrokerTypes /\ registrations \in Seq(Registration)
        /\ Rest \in BrokerCalls /\ Rest.pc = "idle"
        /\ DOMAIN registrations = 1 .. Len(registrations) /\ Len(registrations) \in Nat
  BY DEF BrokerTypes, BrokerCalls, Rest
<1>1. ASSUME NEW w \in Callers, NEW company \in BrokerCompanies, SubmitBrokerLead(w, company)
      PROVE  BrokersInv'
  <2>1. [pc |-> "register", company |-> company] \in BrokerCalls
    BY DEF BrokerCalls
  <2>2. /\ brokerCall' = [brokerCall EXCEPT ![w] = [pc |-> "register", company |-> company]]
        /\ \A i \in DOMAIN registrations : Protected(i) => registrations[i].company = company
        /\ rushed' = (rushed \/ \E v \in Callers : brokerCall[v].pc = "register")
        /\ UNCHANGED <<suspended, registrations, leadFrom, clashed>>
    BY <1>1 DEF SubmitBrokerLead, Proceeds, Becomes
  <2>3. brokerCall'[w].pc = "register" /\ brokerCall'[w].company = company
        /\ \A v \in Callers : v # w => brokerCall'[v] = brokerCall[v]
    BY <1>0, <2>2
  <2>4. BrokerTypes'
    BY <2>1, <2>2, <2>3 DEF BrokerTypes
  <2>5. Credited'
    BY <2>2, <2>3 DEF Credited, Decides
  <2>6. Unclashed'
    BY <1>1, <2>2, <2>3 DEF SubmitBrokerLead, Unclashed, Alongside, Decides, AwaitsApproval, Rest
  <2>7. Unrushed'
    BY <2>2, <2>3 DEF Unrushed, BrokerTypes, Protected, AwaitsApproval
  <2> QED
    BY <2>4, <2>5, <2>6, <2>7
<1>2. ASSUME NEW w \in Callers, SaveBrokerLead(w) PROVE BrokersInv'
  <2>1. PICK r \in Registration : r = [company |-> brokerCall[w].company, status |-> "pending_approval",
                                       protected |-> TRUE]
    BY <1>0, <1>2 DEF SaveBrokerLead, BrokerCalls, Registration, Rest
  <2>2. /\ brokerCall' = [brokerCall EXCEPT ![w] = Rest] /\ brokerCall[w].pc = "register"
        /\ registrations' = Append(registrations, r)
        /\ UNCHANGED <<suspended, leadFrom, rushed, clashed>>
    BY <1>2, <2>1 DEF SaveBrokerLead, Proceeds, Becomes
  <2>3. brokerCall'[w].pc = "idle" /\ \A v \in Callers : v # w => brokerCall'[v] = brokerCall[v]
    BY <1>0, <2>2
  <2>4. PICK n \in Nat : n = Len(registrations) + 1
    BY <1>0
  <2>5. /\ registrations' \in Seq(Registration)
        /\ DOMAIN registrations' = DOMAIN registrations \cup {n} /\ n \notin DOMAIN registrations
        /\ registrations'[n] = r /\ \A i \in DOMAIN registrations : registrations'[i] = registrations[i]
    BY <1>0, <2>2, <2>4
  <2>6. r.status = "pending_approval" /\ r.protected /\ r.company = brokerCall[w].company
    BY <2>1
  <2>7. BrokerTypes'
    <3>1. brokerCall' \in [Callers -> BrokerCalls]
      BY <1>0, <2>2
    <3>2. \A v \in Callers : brokerCall'[v].pc \in {"lead", "decide"} => brokerCall'[v].at \in DOMAIN registrations'
      BY <2>3, <2>5 DEF BrokerTypes
    <3> QED
      BY <2>2, <2>5, <3>1, <3>2 DEF BrokerTypes
  <2>8. \A v \in Callers, i \in DOMAIN registrations', s \in {"approved", "rejected_duplicate"} :
          Decides(v, i, s)' => v # w /\ Decides(v, i, s) /\ i \in DOMAIN registrations
    BY <2>3, <2>5 DEF Decides, BrokerTypes
  <2>9. Credited'
    BY <2>2, <2>5, <2>6, <2>8 DEF Credited
  <2>10. Unclashed'
    <3> SUFFICES ASSUME ~ clashed PROVE Unclashed'
      BY <2>2 DEF Unclashed, Alongside
    <3>1. leadFrom # n
      BY <1>0, <2>4, <2>5, BrokersAssumption DEF BrokerTypes
    <3> QED
      BY <2>2, <2>3, <2>5, <2>6, <2>8, <3>1 DEF Unclashed, Alongside, Decides, AwaitsApproval, BrokerTypes
  <2>11. Unrushed'
    BY <2>2, <2>3, <2>5, <2>6 DEF Unrushed, Protected, AwaitsApproval
  <2> QED
    BY <2>7, <2>9, <2>10, <2>11
<1>3. ASSUME NEW i \in DOMAIN registrations, ProtectionEnds(i) PROVE BrokersInv'
  <2>1. registrations[i] \in Registration
    BY <1>0
  <2>2. PICK r \in Registration : r = [registrations[i] EXCEPT !.protected = FALSE]
    BY <2>1 DEF Registration
  <2>3. registrations' = [registrations EXCEPT ![i] = r]
        /\ UNCHANGED <<suspended, leadFrom, brokerCall, rushed, clashed>>
    BY <1>3, <2>2 DEF ProtectionEnds
  <2>4. ~ r.protected /\ r.status = registrations[i].status /\ r.company = registrations[i].company
    BY <2>2, <2>1 DEF Registration
  <2>5. /\ registrations' \in Seq(Registration) /\ DOMAIN registrations' = DOMAIN registrations
        /\ registrations'[i] = r
        /\ \A j \in DOMAIN registrations : j # i => registrations'[j] = registrations[j]
    BY <1>0, <2>3
  <2>6. \A j \in DOMAIN registrations : registrations'[j].status = registrations[j].status
          /\ registrations'[j].company = registrations[j].company
          /\ (registrations'[j].protected => registrations[j].protected)
    BY <2>4, <2>5
  <2>7. UNCHANGED <<leadFrom, brokerCall, rushed, clashed>>
    BY <2>3
  <2>8. BrokerTypes'
    BY <2>5, <2>7 DEF BrokerTypes
  <2>9. Credited'
    BY <2>5, <2>6, <2>7 DEF Credited, Decides
  <2>10. Unclashed'
    <3>1. \A w \in Callers : brokerCall[w].pc \in {"lead", "decide"} => brokerCall[w].at \in DOMAIN registrations
      BY DEF BrokerTypes
    <3> QED
      BY <2>5, <2>6, <2>7, <3>1 DEF Unclashed, Alongside, Decides, AwaitsApproval
  <2>11. Unrushed'
    BY <2>5, <2>6, <2>7 DEF Unrushed, Protected, AwaitsApproval
  <2> QED
    BY <2>8, <2>9, <2>10, <2>11
<1>4. ASSUME NEW w \in Callers, NEW i \in DOMAIN registrations, ApproveBrokerLead(w, i) PROVE BrokersInv'
  <2>1. [pc |-> "lead", at |-> i] \in BrokerCalls
    BY <1>0 DEF BrokerCalls
  <2>2. /\ brokerCall' = [brokerCall EXCEPT ![w] = [pc |-> "lead", at |-> i]]
        /\ brokerCall[w] = Rest /\ registrations[i].status = "pending_approval"
        /\ clashed' = (clashed \/ Approving(i) # {})
        /\ UNCHANGED <<suspended, registrations, leadFrom, rushed>>
    BY <1>4 DEF ApproveBrokerLead, Approvable, AwaitsApproval, Proceeds, Becomes
  <2>3. brokerCall'[w].pc = "lead" /\ brokerCall'[w].at = i
        /\ \A v \in Callers : v # w => brokerCall'[v] = brokerCall[v]
    BY <1>0, <2>2
  <2>4. brokerCall[w].pc = "idle"
    BY <2>2 DEF Rest
  <2>5. BrokerTypes'
    <3>1. brokerCall' \in [Callers -> BrokerCalls]
      BY <1>0, <2>1, <2>2
    <3> QED
      BY <2>2, <2>3, <3>1 DEF BrokerTypes
  <2>6. \A v \in Callers, j \in DOMAIN registrations, s \in {"approved", "rejected_duplicate"} :
          Decides(v, j, s)' <=> Decides(v, j, s)
    BY <2>3, <2>4 DEF Decides
  <2>7. Credited'
    BY <2>2, <2>6 DEF Credited
  <2>8. Unclashed'
    <3> SUFFICES ASSUME ~ clashed' PROVE Unclashed'
      BY DEF Unclashed, Alongside
    <3>1. ~ clashed /\ \A v \in Callers : brokerCall[v].pc \in {"lead", "decide"} => brokerCall[v].at # i
      BY <2>2 DEF Approving
    <3> QED
      BY <2>2, <2>3, <2>6, <3>1 DEF Unclashed, Alongside, AwaitsApproval
  <2>9. Unrushed'
    BY <2>2, <2>3 DEF Unrushed, Protected, AwaitsApproval
  <2> QED
    BY <2>5, <2>7, <2>8, <2>9
<1>5. ASSUME NEW w \in Callers, CreateBrokerLead(w) PROVE BrokersInv'
  <2>1. PICK i \in DOMAIN registrations : i = brokerCall[w].at /\ i \in Nat
    BY <1>0, <1>5 DEF CreateBrokerLead, BrokerTypes
  <2>2. PICK s \in {"approved", "rejected_duplicate"} :
          s = IF leadFrom = None THEN "approved" ELSE "rejected_duplicate"
    OBVIOUS
  <2>3. /\ brokerCall' = [brokerCall EXCEPT ![w] = [pc |-> "decide", at |-> i, status |-> s]]
        /\ brokerCall[w].pc = "lead"
        /\ leadFrom' = IF leadFrom = None THEN i ELSE leadFrom
        /\ UNCHANGED <<suspended, registrations, rushed, clashed>>
    BY <1>5, <2>1, <2>2 DEF CreateBrokerLead, Proceeds, Becomes
  <2>4. [pc |-> "decide", at |-> i, status |-> s] \in BrokerCalls
    BY <2>1 DEF BrokerCalls
  <2>5. brokerCall'[w].pc = "decide" /\ brokerCall'[w].at = i /\ brokerCall'[w].status = s
        /\ \A v \in Callers : v # w => brokerCall'[v] = brokerCall[v]
    BY <1>0, <2>3
  <2>6. leadFrom' # None
    BY <2>1, <2>3, BrokersAssumption
  <2>7. BrokerTypes'
    <3>1. brokerCall' \in [Callers -> BrokerCalls]
      BY <1>0, <2>3, <2>4
    <3> QED
      BY <2>3, <2>5, <3>1 DEF BrokerTypes
  <2>8. \A v \in Callers, j \in DOMAIN registrations, t \in {"approved", "rejected_duplicate"} :
          Decides(v, j, t)' <=> (v = w /\ j = i /\ t = s) \/ Decides(v, j, t)
    BY <2>3, <2>5 DEF Decides
  <2>9. Credited'
    <3>1. \A j \in DOMAIN registrations : j # None
      BY <1>0, BrokersAssumption
    <3> QED
      BY <2>2, <2>3, <2>6, <2>8, <3>1 DEF Credited
  <2>10. Unclashed'
    <3> SUFFICES ASSUME ~ clashed PROVE Unclashed'
      BY <2>3 DEF Unclashed, Alongside
    <3>1. registrations[i].status = "pending_approval"
      BY <2>1, <2>3 DEF Unclashed, AwaitsApproval
    <3>2. \A v, u \in Callers : Alongside(v, u)' => v = u
      <4>1. \A v, u \in Callers : Alongside(v, u)' => Alongside(v, u)
        BY <2>1, <2>3, <2>5 DEF Alongside
      <4> QED
        BY <4>1 DEF Unclashed
    <3>3. \A v \in Callers : brokerCall'[v].pc \in {"lead", "decide"} =>
            registrations'[brokerCall'[v].at].status = "pending_approval"
      BY <2>1, <2>3, <2>5, <3>1 DEF Unclashed, AwaitsApproval
    <3>4. ~ \E v \in Callers, t \in {"approved", "rejected_duplicate"} : Decides(v, i, t)
      BY <2>1, <2>3 DEF Unclashed, Alongside, Decides
    <3>5. \A j \in DOMAIN registrations' : leadFrom' = j =>
            registrations'[j].status = "approved" \/ \E v \in Callers : Decides(v, j, "approved")'
      <4>1. CASE leadFrom = None
        BY <2>2, <2>3, <2>8, <4>1
      <4>2. CASE leadFrom # None
        BY <2>3, <2>8, <4>2 DEF Unclashed, Alongside
      <4> QED
        BY <4>1, <4>2
    <3>6. \A v \in Callers, j \in DOMAIN registrations' : Decides(v, j, "rejected_duplicate")' => leadFrom' # j
      <4>1. leadFrom = None => leadFrom' = i
        BY <2>3
      <4>2. \A v \in Callers, j \in DOMAIN registrations :
              Decides(v, j, "rejected_duplicate") => leadFrom # None /\ leadFrom # j
        BY DEF Credited, Unclashed, Alongside
      <4>3. s = "rejected_duplicate" => leadFrom # None /\ leadFrom # i
        BY <2>2, <3>1, <3>4 DEF Unclashed, Alongside
      <4> SUFFICES ASSUME NEW v \in Callers, NEW j \in DOMAIN registrations, Decides(v, j, "rejected_duplicate")'
                   PROVE  leadFrom' # j
        BY <2>3
      <4>4. CASE Decides(v, j, "rejected_duplicate")
        BY <2>3, <4>2, <4>4
      <4>5. CASE j = i /\ s = "rejected_duplicate"
        BY <2>3, <4>3, <4>5
      <4> QED
        BY <2>8, <4>4, <4>5
    <3>7. \A j \in DOMAIN registrations' : registrations'[j].status = "rejected_duplicate" => leadFrom' # j
      BY <2>3, <3>1 DEF Unclashed, Alongside
    <3> QED
      BY <3>2, <3>3, <3>5, <3>6, <3>7 DEF Unclashed, AwaitsApproval
  <2>11. Unrushed'
    BY <2>3, <2>5 DEF Unrushed, Protected, AwaitsApproval
  <2> QED
    BY <2>7, <2>9, <2>10, <2>11
<1>6. ASSUME NEW w \in Callers, BrokerLeadFails(w) PROVE BrokersInv'
  <2>1. /\ brokerCall' = [brokerCall EXCEPT ![w] = Rest] /\ brokerCall[w].pc = "lead"
        /\ UNCHANGED <<suspended, registrations, leadFrom, rushed, clashed>>
    BY <1>6 DEF BrokerLeadFails, Proceeds, Becomes
  <2>2. brokerCall'[w].pc = "idle" /\ \A v \in Callers : v # w => brokerCall'[v] = brokerCall[v]
    BY <1>0, <2>1
  <2>3. BrokerTypes'
    BY <1>0, <2>1, <2>2 DEF BrokerTypes
  <2>4. \A v \in Callers, j \in DOMAIN registrations, s \in {"approved", "rejected_duplicate"} :
          Decides(v, j, s)' <=> Decides(v, j, s)
    BY <2>1, <2>2 DEF Decides
  <2>5. Credited'
    BY <2>1, <2>4 DEF Credited
  <2>6. Unclashed'
    BY <2>1, <2>2, <2>4 DEF Unclashed, Alongside, AwaitsApproval
  <2>7. Unrushed'
    BY <2>1, <2>2 DEF Unrushed, Protected, AwaitsApproval
  <2> QED
    BY <2>3, <2>5, <2>6, <2>7
<1>7. ASSUME NEW w \in Callers, DecideBrokerLead(w) PROVE BrokersInv'
  <2>1. PICK i \in DOMAIN registrations, s \in {"approved", "rejected_duplicate"} :
          i = brokerCall[w].at /\ s = brokerCall[w].status
    BY <1>0, <1>7 DEF DecideBrokerLead, BrokerTypes, BrokerCalls
  <2>2. registrations[i] \in Registration
    BY <1>0
  <2>3. PICK r \in Registration : r = [registrations[i] EXCEPT !.status = s]
    BY <2>2 DEF Registration
  <2>4. r.status = s /\ r.protected = registrations[i].protected /\ r.company = registrations[i].company
    BY <2>2, <2>3 DEF Registration
  <2>5. /\ registrations' = [registrations EXCEPT ![i] = r] /\ brokerCall[w].pc = "decide"
        /\ brokerCall' = [brokerCall EXCEPT ![w] = Rest]
        /\ UNCHANGED <<suspended, leadFrom, rushed, clashed>>
    BY <1>7, <2>1, <2>3 DEF DecideBrokerLead, Proceeds, Becomes
  <2>6. /\ registrations' \in Seq(Registration) /\ DOMAIN registrations' = DOMAIN registrations
        /\ registrations'[i] = r
        /\ \A j \in DOMAIN registrations : j # i => registrations'[j] = registrations[j]
    BY <1>0, <2>5
  <2>7. brokerCall'[w].pc = "idle" /\ \A v \in Callers : v # w => brokerCall'[v] = brokerCall[v]
    BY <1>0, <2>5
  <2>8. UNCHANGED <<leadFrom, rushed, clashed>>
    BY <2>5
  <2>9. BrokerTypes'
    <3>1. brokerCall' \in [Callers -> BrokerCalls]
      BY <1>0, <2>5
    <3> QED
      BY <2>6, <2>7, <2>8, <3>1 DEF BrokerTypes
  <2>10. \A v \in Callers, j \in DOMAIN registrations, t \in {"approved", "rejected_duplicate"} :
          Decides(v, j, t)' <=> v # w /\ Decides(v, j, t)
    BY <2>7 DEF Decides
  <2>11. Decides(w, i, s)
    BY <2>1, <2>5 DEF Decides
  <2>12. Credited'
    BY <2>4, <2>6, <2>8, <2>10, <2>11 DEF Credited
  <2>13. Unclashed'
    <3> SUFFICES ASSUME ~ clashed PROVE Unclashed'
      BY <2>8 DEF Unclashed, Alongside
    <3>1. \A v \in Callers : v # w /\ brokerCall[v].pc \in {"lead", "decide"} => brokerCall[v].at # i
      <4> SUFFICES ASSUME NEW v \in Callers, v # w, brokerCall[v].pc \in {"lead", "decide"}, brokerCall[v].at = i
                   PROVE  FALSE
        OBVIOUS
      <4>1. Alongside(v, w)
        BY <2>1, <2>5 DEF Alongside
      <4> QED
        BY <4>1 DEF Unclashed
    <3>2. \A v \in Callers : v # w /\ brokerCall[v].pc \in {"lead", "decide"} =>
            registrations'[brokerCall[v].at].status = "pending_approval"
      BY <2>6, <3>1 DEF Unclashed, AwaitsApproval, BrokerTypes
    <3>3. \A j \in DOMAIN registrations' : leadFrom' = j =>
            registrations'[j].status = "approved" \/ \E v \in Callers : Decides(v, j, "approved")'
      <4> SUFFICES ASSUME NEW j \in DOMAIN registrations, leadFrom = j
                   PROVE  registrations'[j].status = "approved" \/ \E v \in Callers : Decides(v, j, "approved")'
        BY <2>6, <2>8
      <4>1. CASE j = i
        BY <2>1, <2>4, <2>6, <2>11, <4>1 DEF Unclashed
      <4>2. CASE j # i
        <5>1. \A v \in Callers : Decides(v, j, "approved") => v # w
          BY <2>1, <4>2 DEF Decides
        <5> QED
          BY <2>6, <2>10, <4>2, <5>1 DEF Unclashed, Alongside
      <4> QED
        BY <4>1, <4>2
    <3>4. \A j \in DOMAIN registrations' : registrations'[j].status = "rejected_duplicate" => leadFrom' # j
      BY <2>4, <2>6, <2>8, <2>11 DEF Unclashed, Alongside
    <3>5. \A u, v \in Callers : Alongside(u, v)' => Alongside(u, v)
      BY <2>7 DEF Alongside
    <3>6. \A v \in Callers, j \in DOMAIN registrations' : Decides(v, j, "rejected_duplicate")' => leadFrom' # j
      BY <2>6, <2>8, <2>10 DEF Unclashed
    <3>7. \A v \in Callers : brokerCall'[v].pc \in {"lead", "decide"} =>
            registrations'[brokerCall'[v].at].status = "pending_approval"
      BY <2>7, <3>2
    <3>8. \A u, v \in Callers : Alongside(u, v)' => u = v
      BY <3>5 DEF Unclashed
    <3> QED
      BY <3>3, <3>4, <3>6, <3>7, <3>8 DEF Unclashed, AwaitsApproval
  <2>14. Unrushed'
    <3>1. \A j \in DOMAIN registrations : Protected(j)' => Protected(j)
      BY <2>1, <2>4, <2>6 DEF Protected, AwaitsApproval
    <3>2. \A j \in DOMAIN registrations : registrations'[j].company = registrations[j].company
      BY <2>4, <2>6
    <3> QED
      BY <2>6, <2>7, <2>8, <3>1, <3>2 DEF Unrushed
  <2> QED
    BY <2>9, <2>12, <2>13, <2>14
<1>8. CASE StaffCreateLead
  <2>1. leadFrom = None /\ leadFrom' = 0 /\ UNCHANGED <<suspended, registrations, brokerCall, rushed, clashed>>
    BY <1>8 DEF StaffCreateLead
  <2>2. \A j \in DOMAIN registrations : j # 0 /\ j # None
    BY <1>0, BrokersAssumption
  <2>3. leadFrom' # None
    BY <2>1, BrokersAssumption
  <2>4. BrokerTypes'
    BY <2>1 DEF BrokerTypes
  <2>5. Credited'
    BY <2>1, <2>2, <2>3 DEF Credited, Decides
  <2>6. Unclashed'
    BY <2>1, <2>2 DEF Unclashed, Alongside, Decides, AwaitsApproval
  <2>7. Unrushed'
    BY <2>1 DEF Unrushed, Protected, AwaitsApproval
  <2> QED
    BY <2>4, <2>5, <2>6, <2>7
<1>9. ASSUME NEW company \in BrokerCompanies, SuspendBrokerCompany(company) PROVE BrokersInv'
  BY <1>9 DEF SuspendBrokerCompany, BrokerTypes, Credited, Unclashed, Alongside, Unrushed, Decides, AwaitsApproval, Protected
<1>10. CASE StopBrokers
  <2>1. /\ brokerCall' = [v \in Callers |-> Rest]
        /\ clashed' = (clashed \/ \E v \in Callers : brokerCall[v].pc = "decide")
        /\ UNCHANGED <<suspended, registrations, leadFrom, rushed>>
    BY <1>10 DEF StopBrokers
  <2>2. \A v \in Callers : brokerCall'[v].pc = "idle"
    BY <2>1 DEF Rest
  <2>3. BrokerTypes'
    BY <1>0, <2>1, <2>2 DEF BrokerTypes
  <2>4. Credited' /\ Unrushed'
    BY <2>1, <2>2 DEF Credited, Decides, Unrushed, Protected, AwaitsApproval
  <2>5. Unclashed'
    <3> SUFFICES ASSUME ~ clashed' PROVE Unclashed'
      BY DEF Unclashed, Alongside
    <3>1. ~ clashed /\ \A v \in Callers : brokerCall[v].pc # "decide"
      BY <2>1
    <3>2. \A v \in Callers, j \in DOMAIN registrations : ~ Decides(v, j, "approved")
      BY <3>1 DEF Decides
    <3> QED
      BY <2>1, <2>2, <3>1, <3>2 DEF Unclashed, Alongside, Decides
  <2> QED
    BY <2>3, <2>4, <2>5
<1>11. CASE UNCHANGED brokerVars
  BY <1>11 DEF brokerVars, BrokerTypes, Credited, Unclashed, Alongside, Unrushed, Decides, AwaitsApproval, Protected
<1> QED
  BY <1>1, <1>2, <1>3, <1>4, <1>5, <1>6, <1>7, <1>8, <1>9, <1>10, <1>11 DEF BrokersNext

(* A registration shows as approved only if the lead came from it; one that *)
(* the lead came from never shows as a duplicate, unless two approvals of   *)
(* it overlapped or one was cut short; and no two companies protect one     *)
(* prospect unless they registered at once (brokers.service.ts:69-76,       *)
(* 122-126).                                                                *)
THEOREM BrokersCredited == BrokersSpec => []BrokerCredit
<1>1. BrokersInv => BrokerCredit
  BY DEF BrokersInv, Credited, Unclashed, Unrushed, BrokerCredit
<1> QED
  BY BrokersStart, BrokersNextInv, <1>1, PTL DEF BrokersSpec
-----------------------------------------------------------------------------
(* Workflows: what starts them. *)

Flow == [status : WorkflowStatus, last : Nat \cup {None}]
Stamped == [status : WorkflowStatus, last : Nat]
Start == [bucket : Nat, at : Nat, status : WorkflowStatus]
FlowCalls ==
  {Rest} \cup [pc : {"create"}, flow : Hooks] \cup [pc : {"change"}, flow : Hooks \cup {"timed"}, copy : Flow]
    \cup [pc : {"stamp", "start"}, flow : {"timed"}, copy : Stamped]
AtWork(w) == flowCall[w].pc # "idle"

FlowTypes ==
  /\ flows \in [{"timed"} -> Flow] \/ (flows \in [Hooks -> Flow \cup {None}] /\ starts = <<>>)
  /\ minute \in Nat
  /\ starts \in Seq(Start)
  /\ flowCall \in [Callers -> FlowCalls]
  /\ \A w \in Callers : AtWork(w) => flowCall[w].flow \in DOMAIN flows
  /\ met \in BOOLEAN /\ missed \in BOOLEAN /\ reclaimed \in BOOLEAN

(* A bucket has one run. *)
Bucketed ==
  /\ \A i \in DOMAIN starts : starts[i].bucket = Bucket(starts[i].at)
  /\ \A i, j \in DOMAIN starts : i # j => starts[i].bucket # starts[j].bucket

(* The stamp of the scheduled workflow is that of its latest run, of the    *)
(* one about to start, or of one that was lost.                             *)
LastRun == flows["timed"].last
OnTimed(w) == AtWork(w) /\ flowCall[w].flow = "timed"
Starting(w) == flowCall[w].pc = "start"

Timely == "timed" \in DOMAIN flows /\ ~ met =>
  /\ \A v, w \in Callers : OnTimed(v) /\ OnTimed(w) => v = w
  /\ \A w \in Callers : flowCall[w].pc = "change" => flowCall[w].copy.last = LastRun
  /\ \A w \in Callers : flowCall[w].pc = "stamp" =>
       /\ flowCall[w].copy.status = "active"
       /\ LastRun # None => flowCall[w].copy.last - LastRun >= Interval
  /\ \A w \in Callers : Starting(w) =>
       /\ flowCall[w].copy = flows["timed"] /\ flows["timed"].status = "active"
       /\ \A i \in DOMAIN starts : LastRun - starts[i].at >= Interval
  /\ \A i \in DOMAIN starts : LastRun \in Nat /\ starts[i].at <= LastRun /\ starts[i].status = "active"
  /\ \A i, j \in DOMAIN starts : i < j => starts[j].at - starts[i].at >= Interval
  /\ missed \/ LastRun = None \/ (\E i \in DOMAIN starts : starts[i].at = LastRun) \/ \E w \in Callers : Starting(w)

(* A slug is claimed by one workflow, and by none while one is created. *)
OneClaim == ~ reclaimed =>
  /\ \A v, w \in Callers : flowCall[v].pc = "create" /\ flowCall[w].pc = "create" => v = w
  /\ \A w \in Callers, f \in DOMAIN flows : flowCall[w].pc = "create" => ~ Claims(f)
  /\ \A f, g \in DOMAIN flows \cap Hooks : Claims(f) /\ Claims(g) => f = g

FlowsInv == FlowTypes /\ Bucketed /\ Timely /\ OneClaim

(* Runs an interval apart fall into different buckets. *)
LEMMA BucketsApart ==
  ASSUME NEW a \in Nat, NEW b \in Nat, a - b >= Interval PROVE Bucket(a) # Bucket(b)
<1>1. Interval \in Nat /\ Interval > 0
  BY WorkflowsAssumption
<1>2. a = Interval * (a \div Interval) + (a % Interval) /\ a % Interval >= 0 /\ a % Interval < Interval
  BY <1>1
<1>3. b = Interval * (b \div Interval) + (b % Interval) /\ b % Interval >= 0 /\ b % Interval < Interval
  BY <1>1
<1> QED
  BY <1>1, <1>2, <1>3 DEF Bucket

(* A bucket is a number. *)
LEMMA BucketNat == ASSUME NEW a \in Nat PROVE Bucket(a) \in Nat
BY WorkflowsAssumption DEF Bucket

(* No workflow, no run and no call: the workflows start in order. *)
LEMMA WorkflowsStart == WorkflowsInit => FlowsInv
<1> SUFFICES ASSUME WorkflowsInit PROVE FlowsInv
  OBVIOUS
<1>1. \A w \in Callers : ~ AtWork(w) /\ flowCall[w].pc = "idle"
  BY DEF WorkflowsInit, Rest, AtWork
<1>2. FlowTypes
  <2>1. starts = <<>> /\ starts \in Seq(Start) /\ flowCall \in [Callers -> FlowCalls]
    BY DEF WorkflowsInit, FlowCalls
  <2>2. flows \in [{"timed"} -> Flow] \/ flows \in [Hooks -> Flow \cup {None}]
    BY DEF WorkflowsInit, Flow, WorkflowStatus
  <2> QED
    BY <1>1, <2>1, <2>2 DEF WorkflowsInit, FlowTypes
<1>3. starts = <<>> /\ DOMAIN starts = {}
  BY DEF WorkflowsInit
<1>4. Bucketed
  BY <1>3 DEF Bucketed
<1>5. Timely
  <2>1. "timed" \in DOMAIN flows => LastRun = None
    BY WorkflowsAssumption DEF WorkflowsInit, LastRun
  <2> QED
    BY <1>1, <1>3, <2>1 DEF Timely, OnTimed, Starting
<1>6. OneClaim
  <2>1. \A f \in DOMAIN flows \cap Hooks : flows[f] = None
    BY WorkflowsAssumption DEF WorkflowsInit
  <2> QED
    BY <1>1, <2>1 DEF OneClaim, Claims
<1> QED
  BY <1>2, <1>4, <1>5, <1>6 DEF FlowsInv

(* The records of the calls. *)
LEMMA FlowRecords ==
  /\ Rest \in FlowCalls /\ Rest.pc = "idle"
  /\ \A c \in FlowCalls : c.pc \in {"idle", "create", "change", "stamp", "start"}
  /\ \A c \in FlowCalls : c.pc = "create" => c \in [pc : {"create"}, flow : Hooks]
  /\ \A c \in FlowCalls : c.pc = "change" => c \in [pc : {"change"}, flow : Hooks \cup {"timed"}, copy : Flow]
  /\ \A c \in FlowCalls : c.pc \in {"stamp", "start"} => c \in [pc : {"stamp", "start"}, flow : {"timed"}, copy : Stamped]
<1>1. Rest \in FlowCalls /\ Rest.pc = "idle"
  BY DEF FlowCalls, Rest
<1>2. \A c \in FlowCalls : c.pc \in {"idle", "create", "change", "stamp", "start"}
  BY <1>1 DEF FlowCalls
<1>3. \A c \in FlowCalls : c.pc = "create" => c \in [pc : {"create"}, flow : Hooks]
  BY <1>1 DEF FlowCalls
<1>4. \A c \in FlowCalls : c.pc = "change" => c \in [pc : {"change"}, flow : Hooks \cup {"timed"}, copy : Flow]
  BY <1>1 DEF FlowCalls
<1>5. \A c \in FlowCalls : c.pc \in {"stamp", "start"} => c \in [pc : {"stamp", "start"}, flow : {"timed"}, copy : Stamped]
  BY <1>1 DEF FlowCalls
<1> QED
  BY <1>1, <1>2, <1>3, <1>4, <1>5

(* Every step of the workflows keeps the invariant: a step per action. *)
LEMMA WorkflowsNextInv ==
  ASSUME FlowsInv, [WorkflowsNext]_workflowVars PROVE FlowsInv'
<1> USE DEF FlowsInv
<1>0. /\ flowCall \in [Callers -> FlowCalls] /\ FlowTypes /\ starts \in Seq(Start) /\ minute \in Nat
      /\ Rest.pc = "idle" /\ \A v \in Callers : flowCall[v] \in FlowCalls
  BY FlowRecords DEF FlowTypes
<1>a. "timed" \in DOMAIN flows => flows \in [{"timed"} -> Flow]
  BY WorkflowsAssumption DEF FlowTypes
<1>b. \A f \in DOMAIN flows : flows[f] # None => flows[f] \in Flow
  BY DEF FlowTypes
<1>1. ASSUME NEW w \in Callers, NEW f \in DOMAIN flows, CreateWorkflow(w, f) PROVE FlowsInv'
  <2>1. PICK n \in FlowCalls : n = [pc |-> "create", flow |-> f]
    BY <1>1 DEF CreateWorkflow, FlowCalls
  <2>2. /\ flowCall' = [flowCall EXCEPT ![w] = n] /\ f \in Hooks /\ SlugFree
        /\ reclaimed' = (reclaimed \/ \E v \in Callers : flowCall[v].pc = "create")
        /\ UNCHANGED <<flows, minute, starts, met, missed>>
    BY <1>1, <2>1 DEF CreateWorkflow, Hands, Becomes
  <2>3. n.pc = "create" /\ n.flow = f
    BY <2>1
  <2>4. flowCall'[w] = n /\ \A v \in Callers : v # w => flowCall'[v] = flowCall[v]
    BY <1>0, <2>2
  <2>5. "timed" \notin DOMAIN flows
    BY <2>2, WorkflowsAssumption DEF FlowTypes
  <2>6. FlowTypes'
    <3>1. flowCall' \in [Callers -> FlowCalls]
      BY <1>0, <2>2
    <3>2. \A v \in Callers : AtWork(v)' => flowCall'[v].flow \in DOMAIN flows
      BY <2>3, <2>4 DEF FlowTypes, AtWork
    <3> QED
      BY <2>2, <3>1, <3>2 DEF FlowTypes
  <2>7. Bucketed'
    BY <2>2 DEF Bucketed
  <2>8. Timely'
    BY <2>2, <2>5 DEF Timely
  <2>9. OneClaim'
    BY <2>2, <2>3, <2>4 DEF OneClaim, SlugFree, Claims, FlowTypes
  <2> QED
    BY <2>6, <2>7, <2>8, <2>9
<1>2. ASSUME NEW w \in Callers, SaveWorkflow(w) PROVE FlowsInv'
  <2>1. PICK f \in Hooks : f = flowCall[w].flow /\ f \in DOMAIN flows
    BY <1>0, <1>2, FlowRecords DEF SaveWorkflow, FlowTypes, AtWork
  <2>2. PICK r \in Flow : r = [status |-> "active", last |-> None]
    BY DEF Flow, WorkflowStatus
  <2>3. /\ flowCall[w].pc = "create" /\ flowCall' = [flowCall EXCEPT ![w] = Rest]
        /\ flows' = [flows EXCEPT ![f] = r]
        /\ UNCHANGED <<minute, starts, met, missed, reclaimed>>
    BY <1>2, <2>1, <2>2 DEF SaveWorkflow, Hands, Becomes
  <2>4. flowCall'[w] = Rest /\ \A v \in Callers : v # w => flowCall'[v] = flowCall[v]
    BY <1>0, <2>3
  <2>5. flows \in [Hooks -> Flow \cup {None}] /\ starts = <<>> /\ "timed" \notin DOMAIN flows
    BY <2>1, WorkflowsAssumption DEF FlowTypes
  <2>6. flows' \in [Hooks -> Flow \cup {None}] /\ \A g \in Hooks : g # f => flows'[g] = flows[g]
    BY <2>3, <2>5
  <2>7. FlowTypes'
    <3>1. flowCall' \in [Callers -> FlowCalls]
      BY <1>0, <2>3, FlowRecords
    <3>2. \A v \in Callers : AtWork(v)' => flowCall'[v].flow \in DOMAIN flows'
      BY <1>0, <2>4, <2>5, <2>6 DEF FlowTypes, AtWork
    <3> QED
      BY <2>3, <2>5, <2>6, <3>1, <3>2 DEF FlowTypes
  <2>8. Bucketed'
    BY <2>3 DEF Bucketed
  <2>9. Timely'
    BY <2>6, WorkflowsAssumption DEF Timely
  <2>10. OneClaim'
    <3> SUFFICES ASSUME ~ reclaimed PROVE OneClaim'
      BY <2>3 DEF OneClaim
    <3>1. \A v \in Callers : flowCall'[v].pc # "create"
      BY <1>0, <2>3, <2>4 DEF OneClaim
    <3>2. \A g \in Hooks : g # f => ~ Claims(g)'
      BY <2>3, <2>5, <2>6 DEF OneClaim, Claims
    <3> QED
      BY <2>6, <3>1, <3>2 DEF OneClaim
  <2> QED
    BY <2>7, <2>8, <2>9, <2>10
<1>3. ASSUME NEW w \in Callers, NEW f \in DOMAIN flows, NEW status \in WorkflowStatus, OpenWorkflow(w, f, status)
      PROVE  FlowsInv'
  <2>1. flows[f] \in Flow /\ f \in Hooks \cup {"timed"}
    BY <1>b, <1>3 DEF OpenWorkflow, FlowTypes
  <2>2. PICK r \in Flow : r = [flows[f] EXCEPT !.status = status]
    BY <2>1 DEF Flow
  <2>3. r.last = flows[f].last
    BY <2>1, <2>2 DEF Flow
  <2>4. PICK n \in FlowCalls : n = [pc |-> "change", flow |-> f, copy |-> r]
    BY <2>1 DEF FlowCalls
  <2>5. n.pc = "change" /\ n.flow = f /\ n.copy = r
    BY <2>4
  <2>6. /\ flowCall' = [flowCall EXCEPT ![w] = n] /\ flowCall[w] = Rest
        /\ met' = (met \/ (f = "timed" /\ Busy(f)))
        /\ UNCHANGED <<flows, minute, starts, missed, reclaimed>>
    BY <1>3, <2>2, <2>4 DEF OpenWorkflow, Hands, Becomes, Meets
  <2>7. flowCall'[w] = n /\ \A v \in Callers : v # w => flowCall'[v] = flowCall[v]
    BY <1>0, <2>6
  <2>8. FlowTypes'
    <3>1. flowCall' \in [Callers -> FlowCalls]
      BY <1>0, <2>6
    <3>2. \A v \in Callers : AtWork(v)' => flowCall'[v].flow \in DOMAIN flows
      BY <2>5, <2>7 DEF FlowTypes, AtWork
    <3>3. met' \in BOOLEAN
      BY <2>6 DEF FlowTypes
    <3> QED
      BY <2>6, <3>1, <3>2, <3>3 DEF FlowTypes
  <2>9. Bucketed'
    BY <2>6 DEF Bucketed
  <2>10. Timely'
    <3> SUFFICES ASSUME "timed" \in DOMAIN flows, ~ met' PROVE Timely'
      BY <2>6 DEF Timely
    <3>1. DOMAIN flows = {"timed"} /\ f = "timed" /\ ~ met
      BY <1>a, <2>6
    <3>2. \A v \in Callers : ~ OnTimed(v)
      BY <1>0, <2>6, <3>1 DEF Busy, OnTimed, AtWork
    <3>3. \A v \in Callers : ~ AtWork(v)
      BY <3>1, <3>2 DEF OnTimed, FlowTypes
    <3>4. \A v \in Callers : v # w => flowCall'[v].pc = "idle" /\ ~ OnTimed(v)'
      BY <2>7, <3>3 DEF AtWork, OnTimed
    <3>5. \A v \in Callers : ~ Starting(v) /\ ~ Starting(v)'
      BY <2>5, <2>7, <3>3, <3>4 DEF AtWork, Starting
    <3>6. \A v \in Callers : flowCall'[v].pc = "change" => flowCall'[v].copy.last = LastRun
      BY <2>3, <2>5, <2>7, <3>1, <3>4 DEF LastRun
    <3>7. \A v \in Callers : flowCall'[v].pc # "stamp"
      BY <2>5, <2>7, <3>4
    <3>8. LastRun' = LastRun
      BY <2>6 DEF LastRun
    <3>9. \A u, v \in Callers : OnTimed(u)' /\ OnTimed(v)' => u = v
      BY <3>4
    <3> QED
      BY <2>6, <3>1, <3>5, <3>6, <3>7, <3>8, <3>9 DEF Timely
  <2>11. OneClaim'
    <3>1. \A v \in Callers : flowCall'[v].pc = "create" => flowCall[v].pc = "create"
      BY <2>5, <2>7
    <3> QED
      BY <2>6, <3>1 DEF OneClaim, Claims
  <2> QED
    BY <2>8, <2>9, <2>10, <2>11
<1>4. ASSUME NEW w \in Callers, ChangeWorkflow(w) PROVE FlowsInv'
  <2>1. PICK f \in DOMAIN flows, r \in Flow : f = flowCall[w].flow /\ r = flowCall[w].copy
    BY <1>0, <1>4, FlowRecords DEF ChangeWorkflow, FlowTypes, AtWork
  <2>2. /\ flowCall[w].pc = "change" /\ flowCall' = [flowCall EXCEPT ![w] = Rest]
        /\ flows' = [flows EXCEPT ![f] = r]
        /\ reclaimed' = (reclaimed \/ (~ Claims(f) /\ r.status # "archived"))
        /\ UNCHANGED <<minute, starts, met, missed>>
    BY <1>4, <2>1 DEF ChangeWorkflow, Hands, Becomes
  <2>3. flowCall'[w] = Rest /\ \A v \in Callers : v # w => flowCall'[v] = flowCall[v]
    BY <1>0, <2>2
  <2>4. /\ DOMAIN flows' = DOMAIN flows /\ flows'[f] = r /\ \A g \in DOMAIN flows : g # f => flows'[g] = flows[g]
        /\ flows' \in [{"timed"} -> Flow] \/ (flows' \in [Hooks -> Flow \cup {None}] /\ starts = <<>>)
    BY <2>2 DEF FlowTypes
  <2>5. \A v \in Callers : AtWork(v)' => v # w /\ AtWork(v)
    BY <1>0, <2>3 DEF AtWork
  <2>6. FlowTypes'
    <3>1. flowCall' \in [Callers -> FlowCalls]
      BY <1>0, <2>2, FlowRecords
    <3>2. \A v \in Callers : AtWork(v)' => flowCall'[v].flow \in DOMAIN flows'
      BY <2>3, <2>4, <2>5 DEF FlowTypes
    <3>3. reclaimed' \in BOOLEAN
      BY <2>2 DEF FlowTypes
    <3> QED
      BY <2>2, <2>4, <3>1, <3>2, <3>3 DEF FlowTypes
  <2>7. Bucketed'
    BY <2>2 DEF Bucketed
  <2>8. Timely'
    <3> SUFFICES ASSUME "timed" \in DOMAIN flows, ~ met PROVE Timely'
      BY <2>2, <2>4 DEF Timely
    <3>1. DOMAIN flows = {"timed"} /\ f = "timed"
      BY <1>a
    <3>2. OnTimed(w) /\ r.last = LastRun
      BY <2>1, <2>2, <3>1 DEF Timely, OnTimed, AtWork
    <3>3. LastRun' = LastRun
      BY <2>4, <3>1, <3>2 DEF LastRun
    <3>4. \A v \in Callers : v # w => ~ AtWork(v)
      BY <3>1, <3>2 DEF Timely, OnTimed, FlowTypes
    <3>5. \A v \in Callers : ~ AtWork(v)' /\ flowCall'[v].pc = "idle"
      BY <1>0, <2>3, <2>5, <3>4 DEF AtWork
    <3>6. ~ \E v \in Callers : Starting(v)
      BY <2>2, <3>4 DEF Starting, AtWork
    <3> QED
      BY <2>2, <3>3, <3>5, <3>6 DEF Timely, OnTimed, Starting
  <2>9. OneClaim'
    <3> SUFFICES ASSUME ~ reclaimed' PROVE OneClaim'
      BY DEF OneClaim
    <3>1. ~ reclaimed /\ \A g \in DOMAIN flows : Claims(g)' => Claims(g)
      BY <2>2, <2>4 DEF Claims
    <3>2. \A v \in Callers : flowCall'[v].pc = "create" => flowCall[v].pc = "create"
      BY <1>0, <2>3
    <3> QED
      BY <2>4, <3>1, <3>2 DEF OneClaim
  <2> QED
    BY <2>6, <2>7, <2>8, <2>9
<1>5. ASSUME NEW w \in Callers, NEW f \in DOMAIN flows, Tick(w, f) PROVE FlowsInv'
  <2>1. f = "timed" /\ DOMAIN flows = {"timed"} /\ flows["timed"] \in Flow
    BY <1>5, <1>a DEF Tick
  <2>2. PICK r \in Stamped : r = [flows["timed"] EXCEPT !.last = minute]
    BY <1>0, <2>1 DEF Flow, Stamped
  <2>3. r.last = minute /\ r.status = flows["timed"].status
    BY <2>1, <2>2 DEF Flow
  <2>4. PICK n \in FlowCalls : n = [pc |-> "stamp", flow |-> "timed", copy |-> r]
    BY DEF FlowCalls
  <2>5. n.pc = "stamp" /\ n.flow = "timed" /\ n.copy = r
    BY <2>4
  <2>6. /\ flowCall' = [flowCall EXCEPT ![w] = n] /\ flows["timed"].status = "active"
        /\ LastRun # None => minute - LastRun >= Interval
        /\ met' = (met \/ Busy("timed"))
        /\ UNCHANGED <<flows, minute, starts, missed, reclaimed>>
    BY <1>5, <2>1, <2>2, <2>4 DEF Tick, Hands, Becomes, Meets, IsDue, LastRun
  <2>7. flowCall'[w] = n /\ \A v \in Callers : v # w => flowCall'[v] = flowCall[v]
    BY <1>0, <2>6
  <2>8. FlowTypes'
    <3>1. flowCall' \in [Callers -> FlowCalls]
      BY <1>0, <2>6
    <3>2. \A v \in Callers : AtWork(v)' => flowCall'[v].flow \in DOMAIN flows
      BY <2>1, <2>5, <2>7 DEF FlowTypes, AtWork
    <3>3. met' \in BOOLEAN
      BY <2>6 DEF FlowTypes
    <3> QED
      BY <2>6, <3>1, <3>2, <3>3 DEF FlowTypes
  <2>9. Bucketed'
    BY <2>6 DEF Bucketed
  <2>10. Timely'
    <3> SUFFICES ASSUME ~ met' PROVE Timely'
      BY DEF Timely
    <3>1. ~ met
      BY <2>6
    <3>2. \A v \in Callers : ~ OnTimed(v)
      BY <1>0, <2>6 DEF Busy, OnTimed, AtWork
    <3>3. \A v \in Callers : ~ AtWork(v)
      BY <2>1, <3>2 DEF OnTimed, FlowTypes
    <3>4. \A v \in Callers : v # w => flowCall'[v].pc = "idle" /\ ~ OnTimed(v)'
      BY <2>7, <3>3 DEF AtWork, OnTimed
    <3>5. \A v \in Callers : ~ Starting(v) /\ ~ Starting(v)' /\ flowCall'[v].pc # "change"
      BY <2>5, <2>7, <3>3, <3>4 DEF AtWork, Starting
    <3>6. \A v \in Callers : flowCall'[v].pc = "stamp" =>
            /\ flowCall'[v].copy.status = "active"
            /\ LastRun # None => flowCall'[v].copy.last - LastRun >= Interval
      BY <2>3, <2>5, <2>6, <2>7, <3>4
    <3>7. LastRun' = LastRun
      BY <2>6 DEF LastRun
    <3>8. \A u, v \in Callers : OnTimed(u)' /\ OnTimed(v)' => u = v
      BY <3>4
    <3> QED
      BY <2>1, <2>6, <3>1, <3>5, <3>6, <3>7, <3>8 DEF Timely
  <2>11. OneClaim'
    <3>1. \A v \in Callers : flowCall'[v].pc = "create" => flowCall[v].pc = "create"
      BY <2>5, <2>7
    <3> QED
      BY <2>6, <3>1 DEF OneClaim, Claims
  <2> QED
    BY <2>8, <2>9, <2>10, <2>11
<1>6. ASSUME NEW w \in Callers, StampWorkflow(w) PROVE FlowsInv'
  <2>1. PICK c \in [pc : {"stamp", "start"}, flow : {"timed"}, copy : Stamped] : c = flowCall[w] /\ c.pc = "stamp"
    BY <1>0, <1>6, FlowRecords DEF StampWorkflow
  <2>2. "timed" \in DOMAIN flows /\ DOMAIN flows = {"timed"} /\ flows \in [{"timed"} -> Flow]
    BY <1>a, <2>1 DEF FlowTypes, AtWork
  <2>3. PICK r \in Stamped : r = c.copy
    BY <2>1
  <2>4. PICK n \in FlowCalls : n = [c EXCEPT !.pc = "start"]
    BY <2>1 DEF FlowCalls
  <2>5. n.pc = "start" /\ n.flow = "timed" /\ n.copy = r
    BY <2>1, <2>3, <2>4
  <2>6. /\ flowCall' = [flowCall EXCEPT ![w] = n] /\ flows' = [flows EXCEPT !["timed"] = r]
        /\ UNCHANGED <<minute, starts, met, missed, reclaimed>>
    BY <1>6, <2>1, <2>3, <2>4 DEF StampWorkflow, Hands, Becomes
  <2>7. flowCall'[w] = n /\ \A v \in Callers : v # w => flowCall'[v] = flowCall[v]
    BY <1>0, <2>6
  <2>8. r \in Flow /\ r.last \in Nat
    BY DEF Stamped, Flow
  <2>9. flows' \in [{"timed"} -> Flow] /\ DOMAIN flows' = {"timed"} /\ flows'["timed"] = r
    BY <2>2, <2>6, <2>8
  <2>10. FlowTypes'
    <3>1. flowCall' \in [Callers -> FlowCalls]
      BY <1>0, <2>6
    <3>2. \A v \in Callers : AtWork(v)' => flowCall'[v].flow \in DOMAIN flows'
      BY <2>2, <2>5, <2>7, <2>9 DEF FlowTypes, AtWork
    <3> QED
      BY <2>6, <2>9, <3>1, <3>2 DEF FlowTypes
  <2>11. Bucketed'
    BY <2>6 DEF Bucketed
  <2>12. Timely'
    <3> SUFFICES ASSUME ~ met PROVE Timely'
      BY <2>6 DEF Timely
    <3>1. OnTimed(w) /\ r.status = "active" /\ (LastRun # None => r.last - LastRun >= Interval)
      BY <2>1, <2>2, <2>3 DEF Timely, OnTimed, AtWork
    <3>2. \A v \in Callers : v # w => ~ AtWork(v)
      BY <2>2, <3>1 DEF Timely, OnTimed, FlowTypes
    <3>3. \A v \in Callers : v # w => flowCall'[v].pc = "idle" /\ ~ OnTimed(v)'
      BY <2>7, <3>2 DEF AtWork, OnTimed
    <3>4. LastRun' = r.last /\ LastRun' # None /\ Starting(w)'
      BY <2>5, <2>7, <2>8, <2>9, WorkflowsAssumption DEF LastRun, Starting
    <3>5. \A v \in Callers : flowCall'[v].pc \notin {"change", "stamp"}
      BY <2>5, <2>7, <3>3
    <3>6. \A i \in DOMAIN starts : starts[i].at \in Nat /\ LastRun \in Nat /\ starts[i].at <= LastRun /\ starts[i].status = "active"
      <4>1. \A i \in DOMAIN starts : starts[i] \in Start
        BY <1>0
      <4> QED
        BY <2>2, <4>1 DEF Timely, Start
    <3>7. \A i \in DOMAIN starts : r.last - starts[i].at >= Interval /\ starts[i].at <= r.last
      BY <2>8, <3>1, <3>6, WorkflowsAssumption
    <3>8. \A v \in Callers : Starting(v)' => v = w
      BY <3>3 DEF Starting
    <3>9. \A v \in Callers : Starting(v)' => flowCall'[v].copy = flows'["timed"] /\ flows'["timed"].status = "active"
      BY <2>5, <2>7, <2>9, <3>1, <3>8
    <3>10. \A u, v \in Callers : OnTimed(u)' /\ OnTimed(v)' => u = v
      BY <3>3
    <3>11. \A i, j \in DOMAIN starts : i < j => starts[j].at - starts[i].at >= Interval
      BY <2>2 DEF Timely
    <3> QED
      BY <2>6, <2>8, <3>4, <3>5, <3>6, <3>7, <3>9, <3>10, <3>11 DEF Timely
  <2>13. OneClaim'
    <3>1. \A v \in Callers : flowCall'[v].pc = "create" => flowCall[v].pc = "create"
      BY <2>5, <2>7
    <3>2. \A v \in Callers : flowCall[v].pc # "create"
      BY <1>0, <2>2, FlowRecords, WorkflowsAssumption DEF FlowTypes, AtWork
    <3>3. DOMAIN flows' \cap Hooks = {}
      BY <2>9, WorkflowsAssumption
    <3> QED
      BY <3>1, <3>2, <3>3 DEF OneClaim
  <2> QED
    BY <2>10, <2>11, <2>12, <2>13
<1>7. ASSUME NEW w \in Callers, StartScheduled(w) PROVE FlowsInv'
  <2>1. PICK c \in [pc : {"stamp", "start"}, flow : {"timed"}, copy : Stamped] : c = flowCall[w] /\ c.pc = "start"
    BY <1>0, <1>7, FlowRecords DEF StartScheduled
  <2>2. "timed" \in DOMAIN flows /\ DOMAIN flows = {"timed"} /\ flows["timed"] \in Flow
    BY <1>a, <2>1 DEF FlowTypes, AtWork
  <2>3. PICK at \in Nat : at = c.copy.last
    BY <2>1 DEF Stamped
  <2>4. PICK b \in Nat : b = Bucket(at)
    BY BucketNat
  <2>5. PICK s \in Start : s = [bucket |-> b, at |-> at, status |-> flows["timed"].status]
    BY <2>2 DEF Start, Flow
  <2>6. s.bucket = b /\ s.at = at /\ s.status = flows["timed"].status
    BY <2>5
  <2>7. /\ flowCall' = [flowCall EXCEPT ![w] = Rest]
        /\ starts' = IF \E i \in DOMAIN starts : starts[i].bucket = b THEN starts ELSE Append(starts, s)
        /\ UNCHANGED <<flows, minute, met, missed, reclaimed>>
    BY <1>7, <2>1, <2>3, <2>4, <2>5 DEF StartScheduled, Hands, Becomes
  <2>8. flowCall'[w] = Rest /\ \A v \in Callers : v # w => flowCall'[v] = flowCall[v]
    BY <1>0, <2>7
  <2>9. PICK k \in Nat : k = Len(starts) + 1
    BY <1>0
  <2>10. starts' = Append(starts, s) =>
           /\ starts' \in Seq(Start) /\ DOMAIN starts' = DOMAIN starts \cup {k} /\ k \notin DOMAIN starts
           /\ starts'[k] = s /\ (\A i \in DOMAIN starts : starts'[i] = starts[i])
           /\ \A i \in DOMAIN starts : i \in Nat /\ i < k
    BY <1>0, <2>9
  <2>11. starts' \in Seq(Start)
    BY <1>0, <2>7, <2>10
  <2>12. \A v \in Callers : AtWork(v)' => v # w /\ AtWork(v)
    BY <1>0, <2>8 DEF AtWork
  <2>13. FlowTypes'
    <3>1. flowCall' \in [Callers -> FlowCalls]
      BY <1>0, <2>7, FlowRecords
    <3>2. \A v \in Callers : AtWork(v)' => flowCall'[v].flow \in DOMAIN flows'
      BY <2>7, <2>8, <2>12 DEF FlowTypes
    <3>3. flows' \in [{"timed"} -> Flow]
      BY <1>a, <2>2, <2>7
    <3> QED
      BY <2>7, <2>11, <3>1, <3>2, <3>3 DEF FlowTypes
  <2>14. Bucketed'
    <3>1. CASE \E i \in DOMAIN starts : starts[i].bucket = b
      BY <2>7, <3>1 DEF Bucketed
    <3>2. CASE ~ \E i \in DOMAIN starts : starts[i].bucket = b
      <4>1. \A i \in DOMAIN starts' : starts'[i].bucket = Bucket(starts'[i].at)
        BY <2>4, <2>6, <2>7, <2>10, <3>2 DEF Bucketed
      <4>2. \A i, j \in DOMAIN starts' : i # j => starts'[i].bucket # starts'[j].bucket
        BY <2>6, <2>7, <2>10, <3>2 DEF Bucketed
      <4> QED
        BY <4>1, <4>2 DEF Bucketed
    <3> QED
      BY <3>1, <3>2
  <2>15. Timely'
    <3> SUFFICES ASSUME ~ met PROVE Timely'
      BY <2>7 DEF Timely
    <3>1. /\ Starting(w) /\ OnTimed(w) /\ at = LastRun /\ LastRun' = LastRun /\ flows["timed"].status = "active"
          /\ \A i \in DOMAIN starts : at - starts[i].at >= Interval
      <4>1. Starting(w) /\ OnTimed(w) /\ c.copy = flows["timed"]
        BY <2>1, <2>2 DEF Timely, OnTimed, AtWork, Starting
      <4> QED
        BY <2>2, <2>3, <2>7, <4>1 DEF Timely, LastRun
    <3>2. \A i \in DOMAIN starts : starts[i] \in Start /\ starts[i].at \in Nat
      <4>1. \A i \in DOMAIN starts : starts[i] \in Start
        BY <1>0
      <4> QED
        BY <4>1 DEF Start
    <3>3. ~ \E i \in DOMAIN starts : starts[i].bucket = b
      <4>1. \A i \in DOMAIN starts : Bucket(at) # Bucket(starts[i].at)
        BY <3>1, <3>2, BucketsApart
      <4> QED
        BY <2>4, <4>1 DEF Bucketed
    <3>4. /\ DOMAIN starts' = DOMAIN starts \cup {k} /\ k \notin DOMAIN starts
          /\ starts'[k] = s /\ (\A i \in DOMAIN starts : starts'[i] = starts[i])
          /\ \A i \in DOMAIN starts : i \in Nat /\ i < k
      BY <2>7, <2>10, <3>3
    <3>5. \A v \in Callers : ~ AtWork(v)' /\ flowCall'[v].pc = "idle"
      <4>1. \A v \in Callers : v # w => ~ AtWork(v)
        BY <2>2, <3>1 DEF Timely, OnTimed, FlowTypes
      <4> QED
        BY <1>0, <2>8, <4>1 DEF AtWork
    <3>6. \A i \in DOMAIN starts' : LastRun \in Nat /\ starts'[i].at <= LastRun /\ starts'[i].status = "active"
      <4>1. s.at <= LastRun /\ s.status = "active" /\ LastRun \in Nat
        BY <2>6, <3>1
      <4> QED
        BY <2>2, <3>4, <4>1 DEF Timely
    <3>7. \A i, j \in DOMAIN starts' : i < j => starts'[j].at - starts'[i].at >= Interval
      <4> SUFFICES ASSUME NEW i \in DOMAIN starts', NEW j \in DOMAIN starts', i < j
                   PROVE  starts'[j].at - starts'[i].at >= Interval
        OBVIOUS
      <4>1. i \in DOMAIN starts
        BY <3>4
      <4>2. CASE j = k
        BY <2>6, <3>1, <3>4, <4>1, <4>2
      <4>3. CASE j # k
        BY <2>2, <3>4, <4>1, <4>3 DEF Timely
      <4> QED
        BY <4>2, <4>3
    <3>8. \E i \in DOMAIN starts' : starts'[i].at = LastRun
      BY <2>6, <3>1, <3>4
    <3> QED
      BY <2>7, <3>1, <3>5, <3>6, <3>7, <3>8 DEF Timely, OnTimed, Starting
  <2>16. OneClaim'
    <3>1. \A v \in Callers : flowCall'[v].pc = "create" => flowCall[v].pc = "create"
      BY <1>0, <2>8
    <3> QED
      BY <2>7, <3>1 DEF OneClaim, Claims
  <2> QED
    BY <2>13, <2>14, <2>15, <2>16
<1>8. CASE MinutePasses
  <2>1. minute' \in Nat /\ UNCHANGED <<flows, starts, flowCall, met, missed, reclaimed>>
    BY <1>0, <1>8 DEF MinutePasses
  <2>2. FlowTypes'
    BY <2>1 DEF FlowTypes, AtWork
  <2>3. Bucketed' /\ OneClaim'
    BY <2>1 DEF Bucketed, OneClaim, Claims
  <2>4. Timely'
    BY <2>1 DEF Timely, LastRun, OnTimed, Starting, AtWork
  <2> QED
    BY <2>2, <2>3, <2>4
<1>9. CASE StopWorkflows
  <2>1. /\ flowCall' = [w \in Callers |-> Rest] /\ missed' = (missed \/ \E w \in Callers : flowCall[w].pc = "start")
        /\ UNCHANGED <<flows, minute, starts, met, reclaimed>>
    BY <1>9 DEF StopWorkflows
  <2>2. \A v \in Callers : flowCall'[v].pc = "idle"
    BY <1>0, <2>1
  <2>3. FlowTypes'
    <3>1. flowCall' \in [Callers -> FlowCalls] /\ missed' \in BOOLEAN
      BY <2>1, FlowRecords DEF FlowTypes
    <3> QED
      BY <2>1, <2>2, <3>1 DEF FlowTypes, AtWork
  <2>4. Bucketed' /\ OneClaim'
    BY <2>1, <2>2 DEF Bucketed, OneClaim, Claims
  <2>5. Timely'
    <3> SUFFICES ASSUME "timed" \in DOMAIN flows, ~ met PROVE Timely'
      BY <2>1 DEF Timely
    <3>1. missed' \/ LastRun = None \/ \E i \in DOMAIN starts : starts[i].at = LastRun
      BY <2>1 DEF Timely, Starting
    <3>2. LastRun' = LastRun
      BY <2>1 DEF LastRun
    <3> QED
      BY <2>1, <2>2, <3>1, <3>2 DEF Timely, OnTimed, Starting, AtWork
  <2> QED
    BY <2>3, <2>4, <2>5
<1>10. CASE UNCHANGED workflowVars
  <2>1. UNCHANGED <<flows, minute, starts, flowCall, met, missed, reclaimed>>
    BY <1>10 DEF workflowVars
  <2>2. FlowTypes'
    BY <2>1 DEF FlowTypes, AtWork
  <2>3. Bucketed' /\ OneClaim'
    BY <2>1 DEF Bucketed, OneClaim, Claims
  <2>4. Timely'
    BY <2>1 DEF Timely, LastRun, OnTimed, Starting, AtWork
  <2> QED
    BY <2>2, <2>3, <2>4
<1> QED
  BY <1>1, <1>2, <1>3, <1>4, <1>5, <1>6, <1>7, <1>8, <1>9, <1>10 DEF WorkflowsNext

(* A schedule fires once for each of its times and keeps the time of its last *)
(* run, unless two of its calls met or one was cut short; one workflow      *)
(* claims a slug, unless two were created at once or an archived one took   *)
(* its slug back (automation.service.ts: runSchedules, createWorkflow).     *)
THEOREM WorkflowsTriggered == WorkflowsSpec => []TriggersKept
<1>1. FlowsInv => TriggersKept
  <2>1. FlowsInv => SlugsApart
    BY DEF FlowsInv, OneClaim, SlugsApart
  <2>2. ASSUME FlowsInv PROVE KeepsTime
    <3>1. \A i, j \in DOMAIN starts : i # j => starts[i].bucket # starts[j].bucket
      BY <2>2 DEF FlowsInv, Bucketed
    <3>2. ASSUME ~ met
          PROVE  /\ \A i, j \in DOMAIN starts : i < j => starts[j].at - starts[i].at >= Interval
                 /\ \A i \in DOMAIN starts : starts[i].status = "active"
      <4>1. CASE "timed" \in DOMAIN flows
        BY <2>2, <3>2, <4>1 DEF FlowsInv, Timely
      <4>2. CASE "timed" \notin DOMAIN flows
        BY <2>2, <4>2 DEF FlowsInv, FlowTypes
      <4> QED
        BY <4>1, <4>2
    <3>3. ASSUME ~ met, "timed" \in DOMAIN flows, Quiet(flowCall), ~ missed
          PROVE  flows["timed"].last \in {None} \cup {starts[i].at : i \in DOMAIN starts}
      <4>1. ~ \E w \in Callers : Starting(w)
        BY <3>3 DEF Quiet, Starting, Rest
      <4> QED
        BY <2>2, <3>3, <4>1 DEF FlowsInv, Timely, LastRun
    <3> QED
      BY <3>1, <3>2, <3>3 DEF KeepsTime
  <2> QED
    BY <2>1, <2>2 DEF TriggersKept
<1> QED
  BY WorkflowsStart, WorkflowsNextInv, <1>1, PTL DEF WorkflowsSpec
-----------------------------------------------------------------------------
(* The pipeline: leads and their owners. *)

(* The shape of a lead, and of the calls that save one: what they hold is  *)
(* left open, but for the person a lead is about.                          *)
LeadShape(x) == x = [who |-> x.who, stage |-> x.stage, owner |-> x.owner,
                     overdue |-> x.overdue, breaches |-> x.breaches]
Breach == {"assign", "turn", "close"}
BreachShape(c) == c = [pc |-> c.pc, lead |-> c.lead, listed |-> c.listed,
                       pool |-> c.pool, index |-> c.index, new |-> c.new]

(* A copy of lead l is about the same person. *)
CopyOf(x, l) == l \in DOMAIN leads /\ LeadShape(x) /\ x.who = leads[l].who
ListedCopies(c) == \A l \in DOMAIN c.listed : CopyOf(c.listed[l], l)

PipelineTypes ==
  /\ \E S : leads \in Seq(S)
  /\ \A l \in DOMAIN leads : LeadShape(leads[l])
  /\ crmCall = [w \in Callers |-> crmCall[w]]

(* Every call that saves a lead saves a copy of it. *)
HoldsCopies(n) ==
  /\ n.pc = "saveEdit" => CopyOf(n.new, n.lead)
  /\ n.pc \in Breach => CopyOf(n.new, n.lead) /\ BreachShape(n) /\ ListedCopies(n)
  /\ n.pc = "sweep" => ListedCopies(n)
  /\ n.pc = "unset" => n = [pc |-> "unset", stage |-> n.stage, new |-> n.new, others |-> n.others]
SavesCopies == \A w \in Callers : HoldsCopies(crmCall[w])

(* The call that creates a lead holds the lock of the company, alone, and   *)
(* nobody is known by what it knows of the person.                         *)
Creating(w) == crmCall[w].pc = "saveLead"
CreatedAlone ==
  /\ \A w \in Callers : Creating(w) => Company \in crmLocks /\ ~ FindDuplicate(crmCall[w].who)
  /\ \A v, w \in Callers : Creating(v) /\ Creating(w) => v = w

PipelineInv == PipelineTypes /\ SavesCopies /\ CreatedAlone /\ OnePerPerson

(* Being the same person does not depend on who is asked about whom. *)
LEMMA SameEitherWay == \A a, b : SamePerson(a, b) <=> SamePerson(b, a)
BY DEF SamePerson

(* The leads are numbered from 1; a call that takes its turn changes no other. *)
LEMMA Numbered ==
  ASSUME PipelineTypes
  PROVE  Len(leads) \in Nat /\ DOMAIN leads = 1..Len(leads) /\ \A l \in DOMAIN leads : l # Company
<1>1. PICK S : leads \in Seq(S)
  BY DEF PipelineTypes
<1> QED
  BY <1>1 DEF Company

(* One call changes; the others stay. *)
LEMMA TurnTaken ==
  ASSUME PipelineTypes, NEW w \in Callers, NEW n, Turn(w, n)
  PROVE  /\ crmCall'[w] = n /\ crmCall' = [v \in Callers |-> crmCall'[v]]
         /\ \A v \in Callers : v # w => crmCall'[v] = crmCall[v]
BY DEF PipelineTypes, Turn, Becomes

(* A step that changes one call, and keeps the copies the others hold.     *)
LEMMA CopiesKept ==
  ASSUME SavesCopies, NEW w \in Callers, NEW n, HoldsCopies(n), crmCall'[w] = n,
         \A v \in Callers : v # w => crmCall'[v] = crmCall[v],
         \A y, k : CopyOf(y, k) => CopyOf(y, k)'
  PROVE  SavesCopies'
<1>1. \A c : ListedCopies(c) => ListedCopies(c)'
  BY DEF ListedCopies
<1>2. \A c : HoldsCopies(c) => HoldsCopies(c)'
  BY <1>1 DEF HoldsCopies
<1> SUFFICES ASSUME NEW v \in Callers PROVE HoldsCopies(crmCall[v])'
  BY DEF SavesCopies
<1>3. PICK c : c = crmCall'[v]
  OBVIOUS
<1>4. HoldsCopies(c)
  BY <1>3 DEF SavesCopies
<1>5. HoldsCopies(c)'
  BY <1>2, <1>4
<1> QED
  BY <1>3, <1>5 DEF HoldsCopies, ListedCopies, CopyOf

(* A step that leaves leads and locks alone, and takes a call to a point    *)
(* where it holds copies, keeps the invariant.                             *)
LEMMA TurnKeeps ==
  ASSUME PipelineInv, NEW w \in Callers, NEW n, Turn(w, n), HoldsCopies(n), n.pc # "saveLead",
         leads' = leads, Company \in crmLocks => Company \in crmLocks'
  PROVE  PipelineInv'
<1>1. /\ crmCall'[w] = n /\ crmCall' = [v \in Callers |-> crmCall'[v]]
      /\ \A v \in Callers : v # w => crmCall'[v] = crmCall[v]
  BY TurnTaken DEF PipelineInv
<1>2. PipelineTypes' /\ OnePerPerson'
  BY <1>1 DEF PipelineInv, PipelineTypes, OnePerPerson
<1>3. SavesCopies'
  <2>1. \A y, k : CopyOf(y, k) => CopyOf(y, k)'
    BY DEF CopyOf
  <2> QED
    BY <1>1, <2>1, CopiesKept DEF PipelineInv
<1>4. CreatedAlone'
  BY <1>1 DEF PipelineInv, CreatedAlone, Creating, FindDuplicate
<1> QED
  BY <1>2, <1>3, <1>4 DEF PipelineInv

(* So does one that saves a copy of a lead, about the same person.          *)
LEMMA SaveKeeps ==
  ASSUME PipelineInv, NEW w \in Callers, NEW n, Turn(w, n), n.pc # "saveLead",
         NEW l, NEW x, CopyOf(x, l), leads' = [leads EXCEPT ![l] = x],
         HoldsCopies(n), Company \in crmLocks => Company \in crmLocks'
  PROVE  PipelineInv'
<1>0. PipelineTypes
  BY DEF PipelineInv
<1>1. /\ crmCall'[w] = n /\ crmCall' = [v \in Callers |-> crmCall'[v]]
      /\ \A v \in Callers : v # w => crmCall'[v] = crmCall[v]
  BY TurnTaken, <1>0
<1>2. PICK S : leads \in Seq(S)
  BY <1>0 DEF PipelineTypes
<1>3. /\ DOMAIN leads' = DOMAIN leads /\ leads'[l] = x
      /\ \A k \in DOMAIN leads : k # l => leads'[k] = leads[k]
  BY <1>2 DEF CopyOf
<1>4. \A k \in DOMAIN leads : leads'[k].who = leads[k].who
  BY <1>3 DEF CopyOf
<1>5. leads' \in Seq(S \cup {x})
  BY <1>2 DEF CopyOf
<1>6. PipelineTypes'
  <2>1. \A k \in DOMAIN leads' : LeadShape(leads[k])'
    BY <1>0, <1>3 DEF CopyOf, PipelineTypes, LeadShape
  <2> QED
    BY <1>1, <1>5, <2>1 DEF PipelineTypes
<1>7. OnePerPerson'
  BY <1>3, <1>4 DEF PipelineInv, OnePerPerson, SamePerson
<1>8. \A y, k : CopyOf(y, k) => CopyOf(y, k)'
  BY <1>3, <1>4 DEF CopyOf, LeadShape
<1>9. SavesCopies'
  BY <1>1, <1>8, CopiesKept DEF PipelineInv
<1>10. CreatedAlone'
  BY <1>1, <1>3, <1>4 DEF PipelineInv, CreatedAlone, Creating, FindDuplicate, SamePerson
<1> QED
  BY <1>6, <1>7, <1>9, <1>10 DEF PipelineInv

(* No lead and no call: the pipeline starts in order. *)
LEMMA PipelineStart == PipelineInit => PipelineInv
<1> SUFFICES ASSUME PipelineInit PROVE PipelineInv
  OBVIOUS
<1>1. \A w \in Callers : crmCall[w] = Rest /\ crmCall[w].pc = "idle"
  BY DEF PipelineInit, Rest
<1>2. leads = <<>> /\ leads \in Seq({}) /\ DOMAIN leads = {}
  BY DEF PipelineInit
<1>3. PipelineTypes
  BY <1>2 DEF PipelineInit, PipelineTypes
<1> QED
  BY <1>1, <1>2, <1>3 DEF PipelineInv, SavesCopies, HoldsCopies, CreatedAlone, Creating, Breach, OnePerPerson

(* Every step of the pipeline keeps the invariant: a step per action. *)
LEMMA PipelineNextInv ==
  ASSUME PipelineInv, [PipelineNext]_pipelineVars PROVE PipelineInv'
<1>0. PipelineTypes /\ SavesCopies /\ CreatedAlone /\ OnePerPerson
  BY DEF PipelineInv
<1>1. ASSUME NEW w \in Callers, NEW who, NEW skilled, PickOwner(w, who, skilled) PROVE PipelineInv'
  <2>1. PICK k : Turn(w, [pc |-> "cursor", who |-> who, pool |-> pool, index |-> k])
    BY <1>1 DEF PickOwner
  <2>2. HoldsCopies([pc |-> "cursor", who |-> who, pool |-> pool, index |-> k])
    BY DEF HoldsCopies, Breach
  <2> QED
    BY <1>1, <2>1, <2>2, TurnKeeps DEF PickOwner
<1>2. ASSUME NEW w \in Callers, SaveCursor(w) PROVE PipelineInv'
  <2>1. PICK a, b : Turn(w, [pc |-> "create", who |-> a, owner |-> b])
    BY <1>2 DEF SaveCursor
  <2>2. HoldsCopies([pc |-> "create", who |-> a, owner |-> b])
    BY DEF HoldsCopies, Breach
  <2> QED
    BY <1>2, <2>1, <2>2, TurnKeeps DEF SaveCursor
<1>3. ASSUME NEW w \in Callers, NEW s \in Stages, CreateCheck(w, s) PROVE PipelineInv'
  <2>1. PICK a : a = crmCall[w].who
    OBVIOUS
  <2>2. PICK n : n = [pc |-> "saveLead", who |-> a, owner |-> crmCall[w].owner, stage |-> s]
    OBVIOUS
  <2>3. /\ Turn(w, n) /\ n.pc = "saveLead" /\ n.who = a /\ ~ FindDuplicate(a)
        /\ Company \notin crmLocks /\ crmLocks' = crmLocks \cup {Company} /\ leads' = leads
    BY <1>3, <2>1, <2>2 DEF CreateCheck, Locked
  <2>4. /\ crmCall'[w] = n /\ crmCall' = [v \in Callers |-> crmCall'[v]]
        /\ \A v \in Callers : v # w => crmCall'[v] = crmCall[v]
    BY TurnTaken, <1>0, <2>3
  <2>5. PipelineTypes' /\ OnePerPerson'
    BY <1>0, <2>3, <2>4 DEF PipelineTypes, OnePerPerson
  <2>6. SavesCopies'
    <3>1. HoldsCopies(n)
      BY <2>3 DEF HoldsCopies, Breach
    <3>2. \A y, k : CopyOf(y, k) => CopyOf(y, k)'
      BY <2>3 DEF CopyOf
    <3> QED
      BY <1>0, <2>4, <3>1, <3>2, CopiesKept
  <2>7. CreatedAlone'
    <3>1. \A v \in Callers : v # w => ~ Creating(v)'
      BY <1>0, <2>3, <2>4 DEF CreatedAlone, Creating
    <3> QED
      BY <2>3, <2>4, <3>1 DEF CreatedAlone, Creating, FindDuplicate
  <2> QED
    BY <2>5, <2>6, <2>7 DEF PipelineInv
<1>4. ASSUME NEW w \in Callers, CreateRefused(w) PROVE PipelineInv'
  <2>1. HoldsCopies(Rest) /\ Rest.pc # "saveLead"
    BY DEF HoldsCopies, Breach, Rest
  <2> QED
    BY <1>4, <2>1, TurnKeeps DEF CreateRefused
<1>5. ASSUME NEW w \in Callers, SaveLead(w) PROVE PipelineInv'
  <2>1. PICK a : a = crmCall[w].who
    OBVIOUS
  <2>2. PICK x : x = [who |-> a, stage |-> crmCall[w].stage, owner |-> crmCall[w].owner,
                      overdue |-> FALSE, breaches |-> 0]
    OBVIOUS
  <2>3. Turn(w, Rest) /\ leads' = Append(leads, x) /\ Creating(w) /\ x.who = a /\ LeadShape(x)
    BY <1>5, <2>1, <2>2 DEF SaveLead, Creating, LeadShape
  <2>4. /\ crmCall'[w] = Rest /\ crmCall' = [v \in Callers |-> crmCall'[v]]
        /\ \A v \in Callers : v # w => crmCall'[v] = crmCall[v]
    BY TurnTaken, <1>0, <2>3
  <2>5. \A v \in Callers : ~ Creating(v)'
    BY <1>0, <2>3, <2>4 DEF CreatedAlone, Creating, Rest
  <2>6. PICK S : leads \in Seq(S)
    BY <1>0 DEF PipelineTypes
  <2>7. PICK T : T = S \cup {x}
    OBVIOUS
  <2>8. leads \in Seq(T) /\ x \in T
    BY <2>6, <2>7
  <2>9. PICK k \in Nat : k = Len(leads) + 1
    BY <2>8
  <2>10. /\ leads' \in Seq(T)
         /\ DOMAIN leads' = DOMAIN leads \cup {k} /\ k \notin DOMAIN leads
         /\ leads'[k] = x /\ \A i \in DOMAIN leads : leads'[i] = leads[i]
    BY <2>3, <2>8, <2>9
  <2>11. PipelineTypes'
    <3>1. \A l \in DOMAIN leads' : LeadShape(leads[l])'
      BY <1>0, <2>3, <2>10 DEF PipelineTypes, LeadShape
    <3> QED
      BY <2>4, <2>10, <3>1 DEF PipelineTypes
  <2>12. OnePerPerson'
    <3>1. \A i \in DOMAIN leads : ~ SamePerson(leads[i].who, a)
      BY <1>0, <2>1, <2>3 DEF CreatedAlone, FindDuplicate
    <3>2. \A i \in DOMAIN leads : ~ SamePerson(a, leads[i].who)
      BY <3>1, SameEitherWay
    <3> QED
      BY <1>0, <2>3, <2>10, <3>1, <3>2 DEF OnePerPerson, SamePerson
  <2>13. \A y, l : CopyOf(y, l) => CopyOf(y, l)'
    BY <2>10 DEF CopyOf, LeadShape
  <2>14. SavesCopies'
    <3>1. HoldsCopies(Rest)
      BY DEF HoldsCopies, Breach, Rest
    <3> QED
      BY <1>0, <2>4, <2>13, <3>1, CopiesKept
  <2>15. CreatedAlone'
    BY <2>5 DEF CreatedAlone
  <2> QED
    BY <2>11, <2>12, <2>14, <2>15 DEF PipelineInv
<1>6. ASSUME NEW w \in Callers, NEW l \in DOMAIN leads, NEW new, ReadLead(w, l, new),
             CopyOf(new, l)
      PROVE  PipelineInv'
  <2>1. HoldsCopies([pc |-> "saveEdit", lead |-> l, new |-> new])
    BY <1>6 DEF HoldsCopies, Breach
  <2> QED
    BY <1>6, <2>1, TurnKeeps DEF ReadLead
<1>7. ASSUME NEW w \in Callers, NEW l \in DOMAIN leads, NEW s \in Stages, MoveToStage(w, l, s)
      PROVE  PipelineInv'
  <2>1. CopyOf([leads[l] EXCEPT !.stage = s], l)
    BY <1>0 DEF PipelineTypes, CopyOf, LeadShape
  <2> QED
    BY <1>6, <1>7, <2>1 DEF MoveToStage
<1>8. ASSUME NEW w \in Callers, NEW l \in DOMAIN leads, NEW m, AssignOwner(w, l, m)
      PROVE  PipelineInv'
  <2>1. CopyOf([leads[l] EXCEPT !.owner = m], l)
    BY <1>0 DEF PipelineTypes, CopyOf, LeadShape
  <2> QED
    BY <1>6, <1>8, <2>1 DEF AssignOwner
<1>9. ASSUME NEW w \in Callers, SaveEdit(w) PROVE PipelineInv'
  <2>1. CopyOf(crmCall[w].new, crmCall[w].lead)
    BY <1>0, <1>9 DEF SaveEdit, SavesCopies, HoldsCopies
  <2>2. crmCall[w].lead # Company
    BY <1>0, <2>1, Numbered DEF CopyOf
  <2>3. HoldsCopies(Rest) /\ Rest.pc # "saveLead"
    BY DEF HoldsCopies, Breach, Rest
  <2> QED
    BY <1>9, <2>1, <2>2, <2>3, SaveKeeps DEF SaveEdit
<1>10. ASSUME NEW l \in DOMAIN leads, DeadlinePasses(l) PROVE PipelineInv'
  <2>1. PICK x : x = [leads[l] EXCEPT !.overdue = TRUE]
    OBVIOUS
  <2>2. CopyOf(x, l)
    <3>1. LeadShape(leads[l])
      BY <1>0, <1>10 DEF PipelineTypes
    <3>2. LeadShape(x) /\ x.who = leads[l].who
      BY <2>1, <3>1 DEF LeadShape
    <3> QED
      BY <1>10, <3>2 DEF CopyOf
  <2>3. leads' = [leads EXCEPT ![l] = x] /\ UNCHANGED <<crmCall, crmLocks>>
    BY <1>10, <2>1 DEF DeadlinePasses
  <2>4. PICK S : leads \in Seq(S)
    BY <1>0 DEF PipelineTypes
  <2>5. /\ DOMAIN leads' = DOMAIN leads /\ leads'[l] = x
        /\ \A k \in DOMAIN leads : k # l => leads'[k] = leads[k]
        /\ leads' \in Seq(S \cup {x})
    BY <2>3, <2>4
  <2>6. \A k \in DOMAIN leads : leads'[k].who = leads[k].who
    BY <2>2, <2>5 DEF CopyOf
  <2>7. PipelineTypes'
    <3>1. \A k \in DOMAIN leads' : LeadShape(leads[k])'
      BY <1>0, <2>2, <2>5 DEF CopyOf, PipelineTypes, LeadShape
    <3> QED
      BY <1>0, <2>3, <2>5, <3>1 DEF PipelineTypes
  <2>8. \A y, k : CopyOf(y, k) => CopyOf(y, k)'
    BY <2>5, <2>6 DEF CopyOf, LeadShape
  <2>9. SavesCopies'
    BY <1>0, <2>3, <2>8 DEF SavesCopies, HoldsCopies, ListedCopies
  <2>10. CreatedAlone' /\ OnePerPerson'
    BY <1>0, <2>3, <2>5, <2>6 DEF CreatedAlone, Creating, FindDuplicate, SamePerson, OnePerPerson
  <2> QED
    BY <2>7, <2>9, <2>10 DEF PipelineInv
<1>11. ASSUME NEW w \in Callers, SweepList(w) PROVE PipelineInv'
  <2>1. PICK due : due = {l \in DOMAIN leads : Due(l)}
    OBVIOUS
  <2>2. PICK n : n = [pc |-> "sweep", listed |-> [l \in due |-> leads[l]]]
    OBVIOUS
  <2>3. HoldsCopies(n) /\ n.pc = "sweep"
    BY <1>0, <2>1, <2>2 DEF HoldsCopies, Breach, ListedCopies, CopyOf, PipelineTypes, LeadShape
  <2>4. Turn(w, n) /\ UNCHANGED <<leads, crmLocks>>
    BY <1>11, <2>1, <2>2 DEF SweepList
  <2> QED
    BY <2>3, <2>4, TurnKeeps
<1>12. ASSUME NEW w \in Callers, NEW l \in DOMAIN leads, PenalizeOwner(w, l) PROVE PipelineInv'
  <2>1. PICK f : f = crmCall[w].listed
    OBVIOUS
  <2>2. l \in DOMAIN f /\ ListedCopies(crmCall[w]) /\ crmCall[w].pc = "sweep"
    BY <1>0, <1>12, <2>1 DEF PenalizeOwner, SavesCopies, HoldsCopies
  <2>3. \A k \in DOMAIN f : CopyOf(f[k], k)
    BY <2>1, <2>2 DEF ListedCopies
  <2>4. PICK k : Turn(w, [pc |-> IF k = 0 THEN "close" ELSE "assign", lead |-> l, listed |-> f,
                          pool |-> pool, index |-> k, new |-> f[l]])
    BY <1>12, <2>1 DEF PenalizeOwner
  <2>7. PICK p \in {"close", "assign"} : p = IF k = 0 THEN "close" ELSE "assign"
    OBVIOUS
  <2>5. PICK n : n = [pc |-> p, lead |-> l, listed |-> f, pool |-> pool, index |-> k, new |-> f[l]]
    OBVIOUS
  <2>6. HoldsCopies(n) /\ n.pc # "saveLead"
    BY <2>2, <2>3, <2>7, <2>5 DEF HoldsCopies, Breach, BreachShape, ListedCopies
  <2> QED
    BY <1>12, <2>4, <2>7, <2>5, <2>6, TurnKeeps DEF PenalizeOwner
<1>13. ASSUME NEW w \in Callers, Reassign(w) PROVE PipelineInv'
  <2>0. PICK c : c = crmCall[w] /\ c.pc = "assign"
    BY <1>13 DEF Reassign
  <2>1. CopyOf(c.new, c.lead) /\ BreachShape(c) /\ ListedCopies(c)
    BY <1>0, <2>0 DEF SavesCopies, HoldsCopies, Breach
  <2>2. PICK x : x = [leads[c.lead] EXCEPT !.owner = c.pool.members[c.index]]
    OBVIOUS
  <2>3. CopyOf(x, c.lead)
    BY <1>0, <2>1, <2>2 DEF CopyOf, PipelineTypes, LeadShape
  <2>4. PICK n : n = [c EXCEPT !.pc = "turn", !.new = x]
    OBVIOUS
  <2>5. /\ n = [pc |-> "turn", lead |-> c.lead, listed |-> c.listed, pool |-> c.pool,
                index |-> c.index, new |-> x]
    BY <2>1, <2>4 DEF BreachShape
  <2>6. HoldsCopies(n) /\ n.pc = "turn"
    BY <2>1, <2>3, <2>5 DEF HoldsCopies, Breach, BreachShape, ListedCopies
  <2>7. Turn(w, n) /\ leads' = [leads EXCEPT ![c.lead] = x] /\ crmLocks' = crmLocks
    BY <1>13, <2>0, <2>2, <2>4 DEF Reassign
  <2> QED
    BY <2>3, <2>6, <2>7, SaveKeeps
<1>14. ASSUME NEW w \in Callers, TurnPool(w) PROVE PipelineInv'
  <2>0. PICK c : c = crmCall[w] /\ c.pc = "turn"
    BY <1>14 DEF TurnPool
  <2>1. CopyOf(c.new, c.lead) /\ BreachShape(c) /\ ListedCopies(c)
    BY <1>0, <2>0 DEF SavesCopies, HoldsCopies, Breach
  <2>2. PICK n : n = [c EXCEPT !.pc = "close"]
    OBVIOUS
  <2>3. n = [pc |-> "close", lead |-> c.lead, listed |-> c.listed, pool |-> c.pool,
             index |-> c.index, new |-> c.new]
    BY <2>1, <2>2 DEF BreachShape
  <2>4. HoldsCopies(n) /\ n.pc = "close"
    BY <2>1, <2>3 DEF HoldsCopies, Breach, BreachShape, ListedCopies
  <2> QED
    BY <1>14, <2>0, <2>2, <2>4, TurnKeeps DEF TurnPool
<1>15. ASSUME NEW w \in Callers, CloseBreach(w) PROVE PipelineInv'
  <2>0. PICK c : c = crmCall[w] /\ c.pc = "close"
    BY <1>15 DEF CloseBreach
  <2>1. CopyOf(c.new, c.lead) /\ BreachShape(c) /\ ListedCopies(c)
    BY <1>0, <2>0 DEF SavesCopies, HoldsCopies, Breach
  <2>2. PICK x : x = Renewed(c)
    OBVIOUS
  <2>3. CopyOf(x, c.lead)
    BY <2>1, <2>2 DEF CopyOf, Renewed, LeadShape
  <2>4. PICK rest : rest = DOMAIN c.listed \ {c.lead}
    OBVIOUS
  <2>5. PICK n : n = IF rest = {} THEN Rest ELSE [pc |-> "sweep", listed |-> [l \in rest |-> c.listed[l]]]
    OBVIOUS
  <2>6. HoldsCopies(n) /\ n.pc # "saveLead"
    <3>1. CASE rest = {}
      BY <2>5, <3>1 DEF HoldsCopies, Breach, Rest
    <3>2. CASE rest # {}
      BY <2>1, <2>4, <2>5, <3>2 DEF HoldsCopies, Breach, ListedCopies
    <3> QED
      BY <3>1, <3>2
  <2>7. Turn(w, n) /\ leads' = [leads EXCEPT ![c.lead] = x] /\ crmLocks' = crmLocks
    BY <1>15, <2>0, <2>2, <2>4, <2>5 DEF CloseBreach, SweepNext
  <2> QED
    BY <2>3, <2>6, <2>7, SaveKeeps
<1>16. ASSUME NEW w \in Callers, NEW s, NEW new, NEW others,
              Turn(w, [pc |-> "unset", stage |-> s, new |-> new, others |-> others]),
              UNCHANGED <<leads, crmLocks>>
       PROVE  PipelineInv'
  <2>1. HoldsCopies([pc |-> "unset", stage |-> s, new |-> new, others |-> others])
    BY DEF HoldsCopies, Breach
  <2> QED
    BY <1>16, <2>1, TurnKeeps
<1>17. ASSUME NEW w \in Callers, NEW s \in Stages, SetDefaultStage(w, s) PROVE PipelineInv'
  BY <1>16, <1>17 DEF SetDefaultStage
<1>18. ASSUME NEW w \in Callers, NEW s \in Stages, NEW new, EditStage(w, s, new) PROVE PipelineInv'
  BY <1>16, <1>18 DEF EditStage
<1>19. ASSUME NEW w \in Callers, UnsetOther(w) PROVE PipelineInv'
  <2>0. PICK c : c = crmCall[w] /\ c.pc = "unset"
    BY <1>19 DEF UnsetOther
  <2>1. c = [pc |-> "unset", stage |-> c.stage, new |-> c.new, others |-> c.others]
    BY <1>0, <2>0 DEF SavesCopies, HoldsCopies
  <2>2. PICK t : Turn(w, [c EXCEPT !.others = @ \ {t}])
    BY <1>19, <2>0 DEF UnsetOther
  <2>3. [c EXCEPT !.others = @ \ {t}]
          = [pc |-> "unset", stage |-> c.stage, new |-> c.new, others |-> c.others \ {t}]
    BY <2>1
  <2> QED
    BY <1>16, <1>19, <2>2, <2>3 DEF UnsetOther
<1>20. ASSUME NEW w \in Callers, SaveStage(w) PROVE PipelineInv'
  <2>1. HoldsCopies(Rest) /\ Rest.pc # "saveLead"
    BY DEF HoldsCopies, Breach, Rest
  <2> QED
    BY <1>20, <2>1, TurnKeeps DEF SaveStage
<1>21. ASSUME NEW t \in Teams, ConfigurePool(t) PROVE PipelineInv'
  <2>1. UNCHANGED <<leads, crmCall, crmLocks>>
    BY <1>21 DEF ConfigurePool
  <2> QED
    BY <1>0, <2>1 DEF PipelineInv, PipelineTypes, SavesCopies, HoldsCopies, CreatedAlone, OnePerPerson, Creating,
                      FindDuplicate, CopyOf, ListedCopies
<1>22. CASE StopPipeline
  <2>1. leads' = leads /\ crmCall' = [w \in Callers |-> Rest]
    BY <1>22 DEF StopPipeline
  <2>2. \A w \in Callers : crmCall'[w] = Rest /\ crmCall'[w].pc = "idle"
    BY <2>1 DEF Rest
  <2> QED
    BY <1>0, <2>1, <2>2 DEF PipelineInv, PipelineTypes, SavesCopies, HoldsCopies, CreatedAlone, OnePerPerson, Creating, Breach
<1>23. CASE UNCHANGED pipelineVars
  <2>1. UNCHANGED <<leads, crmCall, crmLocks>>
    BY <1>23 DEF pipelineVars
  <2> QED
    BY <1>0, <2>1 DEF PipelineInv, PipelineTypes, SavesCopies, HoldsCopies, CreatedAlone, OnePerPerson, Creating,
                      FindDuplicate, CopyOf, ListedCopies
<1> QED
  BY <1>1, <1>2, <1>3, <1>4, <1>5, <1>7, <1>8, <1>9, <1>10, <1>11, <1>12, <1>13, <1>14, <1>15, <1>17,
     <1>18, <1>19, <1>20, <1>21, <1>22, <1>23 DEF PipelineNext

(* However creations overlap, and wherever the process stops, no two leads  *)
(* share a phone or a national id (crm.service.ts:118-122, 132-138).       *)
THEOREM LeadsApart == PipelineSpec => []OnePerPerson
<1>1. PipelineInv => OnePerPerson
  BY DEF PipelineInv
<1> QED
  BY <1>1, PipelineStart, PipelineNextInv, PTL DEF PipelineSpec
-----------------------------------------------------------------------------
(* Points given to owners. *)

(* The deadlines missed: the k-th of lead l.  As long as nothing crossed a   *)
(* sweep, the points given are owed for some of them, P, and P leaves out    *)
(* the one last missed by a lead that is overdue and not being dealt with,  *)
(* or will be again once an edit is saved.                                  *)
Missed == {p \in (1..MaxLeads) \X (1..MaxLapses) : p[2] <= lapses[p[1]]}
Breaks(w, l) == crmCall[w].pc \in Breach /\ crmCall[w].lead = l
Unsettled(l) == \A w \in Callers : ~ Breaks(w, l)
LastOf(l) == <<l, lapses[l]>>
Restores(w, l) == crmCall[w].pc = "saveEdit" /\ crmCall[w].lead = l /\ crmCall[w].new.overdue

OwedFor(P) ==
  /\ IsFiniteSet(P) /\ Cardinality(P) = points /\ P \subseteq Missed
  /\ \A l \in DOMAIN leads : leads[l].overdue /\ Unsettled(l) => LastOf(l) \notin P
  /\ \A l \in DOMAIN leads, w \in Callers : Restores(w, l) => LastOf(l) \notin P

(* A sweep lists leads that are overdue, and such a lead has missed one.     *)
ListedOverdue(c) == c.pc \in Breach \cup {"sweep"} => \A l \in DOMAIN c.listed : c.listed[l].overdue
Lapsed ==
  /\ lapses \in [1..MaxLeads -> 0..MaxLapses] /\ points \in Nat /\ crossed \in BOOLEAN
  /\ Len(leads) <= MaxLeads
  /\ \A l \in DOMAIN leads : leads[l].overdue => lapses[l] >= 1
  /\ \A l \in DOMAIN leads, w \in Callers : Restores(w, l) => lapses[l] >= 1
  /\ \A w \in Callers : ListedOverdue(crmCall[w])

PenaltyInv == PipelineInv /\ Lapsed /\ (~ crossed => \E P : OwedFor(P))

(* The numbers of the leads. *)
LEMMA LeadNumbers ==
  ASSUME PipelineInv, Lapsed
  PROVE  DOMAIN leads \subseteq 1..MaxLeads
<1>1. DOMAIN leads = 1..Len(leads) /\ Len(leads) \in Nat
  BY Numbered DEF PipelineInv
<1> QED
  BY <1>1, PipelineAssumption DEF Lapsed

(* One call changes, from a state in order. *)
LEMMA TakesTurn ==
  ASSUME PipelineInv, NEW w \in Callers, NEW n, Turn(w, n)
  PROVE  crmCall'[w] = n /\ \A v \in Callers : v # w => crmCall'[v] = crmCall[v]
BY TurnTaken DEF PipelineInv

(* A step that only moves a call on: a breach stays with the lead it is of.  *)
LEMMA OwedStays ==
  ASSUME PenaltyInv, PipelineInv', NEW w \in Callers, NEW n, Turn(w, n),
         UNCHANGED <<leads, lapses, points>>, crossed' \in {crossed, TRUE},
         ListedOverdue(n), n.pc # "saveEdit",
         \A l : Breaks(w, l) => n.pc \in Breach /\ n.lead = l
  PROVE  PenaltyInv'
<1>0. PipelineInv /\ Lapsed
  BY DEF PenaltyInv
<1>1. crmCall'[w] = n /\ \A v \in Callers : v # w => crmCall'[v] = crmCall[v]
  BY <1>0, TakesTurn
<1>2. \A v, l : v \in Callers /\ Restores(v, l)' => Restores(v, l)
  BY <1>1 DEF Restores
<1>3. \A v \in Callers : ListedOverdue(crmCall'[v])
  BY <1>0, <1>1 DEF Lapsed
<1>4. Lapsed'
  <2>1. \A v \in Callers : ListedOverdue(crmCall[v])'
    BY <1>3 DEF ListedOverdue
  <2>2. \A l \in DOMAIN leads', v \in Callers : Restores(v, l)' => lapses'[l] >= 1
    BY <1>0, <1>2 DEF Lapsed
  <2> QED
    BY <1>0, <2>1, <2>2 DEF Lapsed
<1>5. ASSUME ~ crossed' PROVE \E P : OwedFor(P)'
  <2>1. ~ crossed
    BY <1>0, <1>5 DEF Lapsed
  <2>2. PICK P : OwedFor(P)
    BY <2>1 DEF PenaltyInv
  <2>3. \A l : Unsettled(l)' => Unsettled(l)
    BY <1>1 DEF Unsettled, Breaks
  <2>4. Missed' = Missed /\ \A l : LastOf(l)' = LastOf(l)
    BY DEF Missed, LastOf
  <2>5. OwedFor(P)'
    BY <1>2, <2>2, <2>3, <2>4 DEF OwedFor
  <2> QED
    BY <2>5
<1> QED
  BY <1>4, <1>5 DEF PenaltyInv

(* A step that saves lead l as x: overdue only while the same call goes on   *)
(* with its breach, or as the edit it read has it.                          *)
LEMMA OwedAsSaved ==
  ASSUME PenaltyInv, PipelineInv', NEW w \in Callers, NEW n, Turn(w, n), NEW l \in DOMAIN leads, NEW x,
         leads' = [leads EXCEPT ![l] = x], UNCHANGED <<lapses, points, crossed>>,
         ListedOverdue(n), n.pc # "saveEdit",
         \A k : Breaks(w, k) => k = l,
         x.overdue => \/ leads[l].overdue /\ n.pc \in Breach /\ n.lead = l
                      \/ Restores(w, l)
  PROVE  PenaltyInv'
<1>0. PipelineInv /\ Lapsed
  BY DEF PenaltyInv
<1>1. crmCall'[w] = n /\ \A v \in Callers : v # w => crmCall'[v] = crmCall[v]
  BY <1>0, TakesTurn
<1>6. /\ DOMAIN leads' = DOMAIN leads /\ leads'[l] = x /\ Len(leads') = Len(leads)
      /\ \A k \in DOMAIN leads : k # l => leads'[k] = leads[k]
  <2>1. PICK S : leads \in Seq(S)
    BY <1>0 DEF PipelineInv, PipelineTypes
  <2> QED
    BY <2>1
<1>2. \A v, k : v \in Callers /\ Restores(v, k)' => Restores(v, k)
  BY <1>1 DEF Restores
<1>3. \A v \in Callers : ListedOverdue(crmCall'[v])
  BY <1>0, <1>1 DEF Lapsed
<1>4. Lapsed'
  <2>1. \A v \in Callers : ListedOverdue(crmCall[v])'
    BY <1>3 DEF ListedOverdue
  <2>2. \A k \in DOMAIN leads', v \in Callers : Restores(v, k)' => lapses'[k] >= 1
    BY <1>0, <1>2, <1>6 DEF Lapsed
  <2>3. \A k \in DOMAIN leads' : leads'[k].overdue => lapses'[k] >= 1
    BY <1>0, <1>6 DEF Lapsed
  <2> QED
    BY <1>0, <1>6, <2>1, <2>2, <2>3 DEF Lapsed
<1>5. ASSUME ~ crossed' PROVE \E P : OwedFor(P)'
  <2>2. PICK P : OwedFor(P)
    BY <1>5 DEF PenaltyInv
  <2>3. \A k : k # l /\ Unsettled(k)' => Unsettled(k)
    BY <1>1 DEF Unsettled, Breaks
  <2>4. Missed' = Missed /\ \A k : LastOf(k)' = LastOf(k)
    BY DEF Missed, LastOf
  <2>5. x.overdue /\ Unsettled(l)' => LastOf(l) \notin P
    BY <1>1, <2>2 DEF Unsettled, Breaks, OwedFor
  <2>6. \A k \in DOMAIN leads' : leads'[k].overdue /\ Unsettled(k)' => LastOf(k) \notin P
    BY <1>6, <2>2, <2>3, <2>5 DEF OwedFor
  <2>7. \A k \in DOMAIN leads', v \in Callers : Restores(v, k)' => LastOf(k) \notin P
    BY <1>2, <1>6, <2>2 DEF OwedFor
  <2>8. OwedFor(P)'
    BY <2>2, <2>4, <2>6, <2>7 DEF OwedFor
  <2> QED
    BY <2>8
<1> QED
  BY <1>4, <1>5 DEF PenaltyInv

(* No deadline is missed and no point given at the start. *)
LEMMA PenaltyStart == PipelineInit => PenaltyInv
<1> SUFFICES ASSUME PipelineInit PROVE PenaltyInv
  OBVIOUS
<1>1. \A w \in Callers : crmCall[w] = Rest /\ crmCall[w].pc = "idle"
  BY DEF PipelineInit, Rest
<1>2. leads = <<>> /\ DOMAIN leads = {} /\ Len(leads) = 0
  BY DEF PipelineInit
<1>3. Lapsed
  <2>1. lapses \in [1..MaxLeads -> 0..MaxLapses] /\ points \in Nat /\ crossed \in BOOLEAN /\ Len(leads) <= MaxLeads
    <3>1. lapses = [l \in 1..MaxLeads |-> 0] /\ points = 0 /\ crossed = FALSE
      BY DEF PipelineInit
    <3>2. 0 \in 0..MaxLapses /\ 0 <= MaxLeads
      BY PipelineAssumption
    <3>3. lapses \in [1..MaxLeads -> 0..MaxLapses]
      BY <3>1, <3>2
    <3> QED
      BY <1>2, <3>1, <3>2, <3>3
  <2> QED
    BY <1>1, <1>2, <2>1 DEF Lapsed, ListedOverdue, Breach
<1>4. OwedFor({})
  BY <1>1, <1>2, FS_EmptySet DEF OwedFor, PipelineInit, Restores
<1> QED
  BY <1>3, <1>4, PipelineStart DEF PenaltyInv

(* Every step keeps the points owed for deadlines missed: a step per        *)
(* action.                                                                  *)
LEMMA PenaltyNextInv ==
  ASSUME PenaltyInv, [PipelineNext]_pipelineVars PROVE PenaltyInv'
<1>0. PipelineInv /\ Lapsed /\ PipelineInv'
  BY PipelineNextInv DEF PenaltyInv
<1>a. PipelineTypes /\ SavesCopies
  BY <1>0 DEF PipelineInv
<1>b. \A l \in DOMAIN leads : l \in 1..MaxLeads
  BY <1>0, LeadNumbers
<1>1. ASSUME NEW w \in Callers, NEW n, Turn(w, n), n.pc \notin Breach \cup {"sweep", "saveEdit"},
             crmCall[w].pc \notin Breach, UNCHANGED <<leads, lapses, points, crossed>>
      PROVE  PenaltyInv'
  <2>1. ListedOverdue(n) /\ \A l : ~ Breaks(w, l)
    BY <1>1 DEF ListedOverdue, Breaks
  <2> QED
    BY <1>0, <1>1, <2>1, OwedStays
<1>2. ASSUME NEW w \in Callers, NEW who, NEW skilled, PickOwner(w, who, skilled) PROVE PenaltyInv'
  <2>1. PICK k : Turn(w, [pc |-> "cursor", who |-> who, pool |-> pool, index |-> k])
    BY <1>2 DEF PickOwner
  <2> QED
    BY <1>1, <1>2, <2>1 DEF PickOwner, Breach, Idle, Rest
<1>3. ASSUME NEW w \in Callers, SaveCursor(w) PROVE PenaltyInv'
  BY <1>1, <1>3 DEF SaveCursor, Breach
<1>4. ASSUME NEW w \in Callers, NEW s \in Stages, CreateCheck(w, s) PROVE PenaltyInv'
  BY <1>1, <1>4 DEF CreateCheck, Breach
<1>5. ASSUME NEW w \in Callers, CreateRefused(w) PROVE PenaltyInv'
  BY <1>1, <1>5 DEF CreateRefused, Breach, Rest
<1>6. ASSUME NEW w \in Callers, SaveLead(w) PROVE PenaltyInv'
  <2>1. PICK x : x = [who |-> crmCall[w].who, stage |-> crmCall[w].stage, owner |-> crmCall[w].owner,
                      overdue |-> FALSE, breaches |-> 0]
    OBVIOUS
  <2>2. /\ leads' = Append(leads, x) /\ ~ x.overdue /\ Turn(w, Rest) /\ Rest.pc = "idle"
        /\ Len(leads) < MaxLeads /\ UNCHANGED <<lapses, points, crossed>> /\ crmCall[w].pc = "saveLead"
    BY <1>6, <2>1 DEF SaveLead, Rest
  <2>3. crmCall'[w] = Rest /\ \A v \in Callers : v # w => crmCall'[v] = crmCall[v]
    BY <1>0, <2>2, TakesTurn
  <2>4. PICK S : leads \in Seq(S)
    BY <1>a DEF PipelineTypes
  <2>5. PICK T : T = S \cup {x}
    OBVIOUS
  <2>6. leads \in Seq(T) /\ x \in T
    BY <2>4, <2>5
  <2>7. PICK k \in Nat : k = Len(leads) + 1
    BY <2>6
  <2>8. /\ DOMAIN leads' = DOMAIN leads \cup {k} /\ Len(leads') = k /\ k \notin DOMAIN leads
        /\ leads'[k] = x /\ \A i \in DOMAIN leads : leads'[i] = leads[i]
    BY <2>2, <2>6, <2>7
  <2>9. \A v, l : v \in Callers /\ Restores(v, l)' => Restores(v, l) /\ l \in DOMAIN leads
    <3>1. \A v, l : v \in Callers /\ Restores(v, l)' => Restores(v, l)
      BY <2>2, <2>3 DEF Restores
    <3>2. \A v, l : v \in Callers /\ Restores(v, l) => l \in DOMAIN leads
      BY <1>a DEF SavesCopies, HoldsCopies, CopyOf, Restores
    <3> QED
      BY <3>1, <3>2
  <2>10. \A v \in Callers : ListedOverdue(crmCall[v])'
    BY <1>0, <2>2, <2>3 DEF Lapsed, ListedOverdue, Breach
  <2>11. Lapsed'
    <3>1. \A l \in DOMAIN leads' : leads'[l].overdue => lapses'[l] >= 1
      BY <1>0, <2>2, <2>8 DEF Lapsed
    <3>2. \A l \in DOMAIN leads', v \in Callers : Restores(v, l)' => lapses'[l] >= 1
      BY <1>0, <2>2, <2>9 DEF Lapsed
    <3>3. Len(leads') <= MaxLeads
      BY <2>2, <2>6, <2>7, <2>8, PipelineAssumption
    <3> QED
      BY <1>0, <2>2, <2>10, <3>1, <3>2, <3>3 DEF Lapsed
  <2>12. ASSUME ~ crossed' PROVE \E P : OwedFor(P)'
    <3>1. PICK P : OwedFor(P)
      BY <2>2, <2>12 DEF PenaltyInv
    <3>2. Missed' = Missed /\ \A l : LastOf(l)' = LastOf(l)
      BY <2>2 DEF Missed, LastOf
    <3>3. \A l : Unsettled(l)' => Unsettled(l)
      BY <2>2, <2>3 DEF Unsettled, Breaks, Breach
    <3>4. \A l \in DOMAIN leads' : leads'[l].overdue /\ Unsettled(l)' => LastOf(l) \notin P
      BY <2>2, <2>8, <3>1, <3>3 DEF OwedFor
    <3>5. \A l \in DOMAIN leads', v \in Callers : Restores(v, l)' => LastOf(l) \notin P
      BY <2>9, <3>1 DEF OwedFor
    <3>6. OwedFor(P)'
      BY <2>2, <3>1, <3>2, <3>4, <3>5 DEF OwedFor
    <3> QED
      BY <3>6
  <2> QED
    BY <1>0, <2>11, <2>12 DEF PenaltyInv
<1>7. ASSUME NEW w \in Callers, NEW l \in DOMAIN leads, NEW new, new.overdue => leads[l].overdue,
             ReadLead(w, l, new)
      PROVE  PenaltyInv'
  <2>1. PICK n : n = [pc |-> "saveEdit", lead |-> l, new |-> new]
    OBVIOUS
  <2>2. /\ Turn(w, n) /\ UNCHANGED <<leads, lapses, points>> /\ crmCall[w] = Rest
        /\ crossed' = (crossed \/ AtWorkOn(l) # {})
    BY <1>7, <2>1 DEF ReadLead, Idle
  <2>3. crmCall'[w] = n /\ \A v \in Callers : v # w => crmCall'[v] = crmCall[v]
    BY <1>0, <2>2, TakesTurn
  <2>4. \A v, k : v \in Callers /\ Restores(v, k)' => Restores(v, k) \/ (k = l /\ leads[l].overdue)
    BY <1>7, <2>1, <2>3 DEF Restores
  <2>5. \A v \in Callers : ListedOverdue(crmCall[v])'
    BY <1>0, <2>1, <2>3 DEF Lapsed, ListedOverdue, Breach
  <2>6. Lapsed'
    <3>1. \A k \in DOMAIN leads', v \in Callers : Restores(v, k)' => lapses'[k] >= 1
      BY <1>0, <2>2, <2>4 DEF Lapsed
    <3>2. crossed' \in BOOLEAN
      BY <2>2
    <3> QED
      BY <1>0, <2>2, <2>5, <3>1, <3>2 DEF Lapsed
  <2>7. ASSUME ~ crossed' PROVE \E P : OwedFor(P)'
    <3>1. ~ crossed /\ AtWorkOn(l) = {}
      BY <1>0, <2>2, <2>7 DEF Lapsed
    <3>2. PICK P : OwedFor(P)
      BY <3>1 DEF PenaltyInv
    <3>3. Unsettled(l)
      BY <3>1 DEF AtWorkOn, Unsettled, Breaks, Breach
    <3>4. Missed' = Missed /\ \A k : LastOf(k)' = LastOf(k)
      BY <2>2 DEF Missed, LastOf
    <3>5. \A k : Unsettled(k)' => Unsettled(k)
      BY <2>2, <2>3 DEF Unsettled, Breaks, Breach, Rest
    <3>6. \A k \in DOMAIN leads', v \in Callers : Restores(v, k)' => LastOf(k) \notin P
      BY <2>2, <2>4, <3>2, <3>3 DEF OwedFor
    <3>7. OwedFor(P)'
      BY <2>2, <3>2, <3>4, <3>5, <3>6 DEF OwedFor
    <3> QED
      BY <3>7
  <2> QED
    BY <1>0, <2>6, <2>7 DEF PenaltyInv
<1>8. ASSUME NEW w \in Callers, NEW l \in DOMAIN leads, NEW s \in Stages, MoveToStage(w, l, s)
      PROVE  PenaltyInv'
  <2>1. [leads[l] EXCEPT !.stage = s].overdue = leads[l].overdue
    BY <1>a DEF PipelineTypes, LeadShape
  <2> QED
    BY <1>7, <1>8, <2>1 DEF MoveToStage
<1>9. ASSUME NEW w \in Callers, NEW l \in DOMAIN leads, NEW m, AssignOwner(w, l, m)
      PROVE  PenaltyInv'
  <2>1. [leads[l] EXCEPT !.owner = m].overdue = leads[l].overdue
    BY <1>a DEF PipelineTypes, LeadShape
  <2> QED
    BY <1>7, <1>9, <2>1 DEF AssignOwner
<1>10. ASSUME NEW w \in Callers, SaveEdit(w) PROVE PenaltyInv'
  <2>1. PICK l, x : l = crmCall[w].lead /\ x = crmCall[w].new
    OBVIOUS
  <2>2. l \in DOMAIN leads
    BY <1>a, <1>10, <2>1 DEF SavesCopies, HoldsCopies, CopyOf, SaveEdit
  <2>3. /\ Turn(w, Rest) /\ leads' = [leads EXCEPT ![l] = x] /\ crmCall[w].pc = "saveEdit"
        /\ UNCHANGED <<lapses, points, crossed>>
    BY <1>10, <2>1 DEF SaveEdit
  <2>4. x.overdue => Restores(w, l)
    BY <2>1, <2>3 DEF Restores
  <2>5. ListedOverdue(Rest) /\ Rest.pc # "saveEdit"
    BY DEF ListedOverdue, Rest, Breach
  <2>6. \A k : ~ Breaks(w, k)
    BY <2>3 DEF Breaks, Breach
  <2> QED
    BY <1>0, <2>2, <2>3, <2>4, <2>5, <2>6, OwedAsSaved
<1>11. ASSUME NEW l \in DOMAIN leads, DeadlinePasses(l) PROVE PenaltyInv'
  <2>1. /\ ~ leads[l].overdue /\ lapses[l] < MaxLapses
        /\ leads' = [leads EXCEPT ![l].overdue = TRUE]
        /\ lapses' = [lapses EXCEPT ![l] = lapses[l] + 1]
        /\ UNCHANGED <<points, crmCall, crossed>>
    BY <1>11 DEF DeadlinePasses
  <2>2. /\ DOMAIN leads' = DOMAIN leads /\ Len(leads') = Len(leads)
        /\ \A k \in DOMAIN leads : k # l => leads'[k] = leads[k]
    <3>1. PICK S : leads \in Seq(S)
      BY <1>a DEF PipelineTypes
    <3> QED
      BY <2>1, <3>1
  <2>3. l \in 1..MaxLeads /\ lapses[l] \in 0..MaxLapses
    BY <1>0, <1>b DEF Lapsed
  <2>4. /\ lapses' \in [1..MaxLeads -> 0..MaxLapses] /\ lapses'[l] = lapses[l] + 1
        /\ \A k \in 1..MaxLeads : k # l => lapses'[k] = lapses[k]
    BY <1>0, <2>1, <2>3, PipelineAssumption DEF Lapsed
  <2>5. \A v, k : Restores(v, k)' <=> Restores(v, k)
    BY <2>1 DEF Restores
  <2>6. Lapsed'
    <3>1. \A k \in DOMAIN leads' : leads'[k].overdue => lapses'[k] >= 1
      BY <1>0, <1>b, <2>2, <2>3, <2>4 DEF Lapsed
    <3>2. \A k \in DOMAIN leads', v \in Callers : Restores(v, k)' => lapses'[k] >= 1
      BY <1>0, <1>b, <2>2, <2>3, <2>4, <2>5 DEF Lapsed
    <3>3. \A v \in Callers : ListedOverdue(crmCall[v])'
      BY <1>0, <2>1 DEF Lapsed, ListedOverdue
    <3> QED
      BY <1>0, <2>1, <2>2, <2>4, <3>1, <3>2, <3>3 DEF Lapsed
  <2>7. ASSUME ~ crossed' PROVE \E P : OwedFor(P)'
    <3>1. PICK P : OwedFor(P)
      BY <2>1, <2>7 DEF PenaltyInv
    <3>2. P \subseteq Missed
      BY <3>1 DEF OwedFor
    <3>3. LastOf(l)' \notin P
      <4>1. <<l, lapses[l] + 1>> \notin Missed
        BY <2>3 DEF Missed
      <4> QED
        BY <3>2, <4>1, <2>4 DEF LastOf
    <3>4. P \subseteq Missed'
      <4>1. ASSUME NEW p \in P PROVE p \in Missed'
        <5>1. p \in (1..MaxLeads) \X (1..MaxLapses) /\ p[2] <= lapses[p[1]]
          BY <3>2 DEF Missed
        <5>2. p[1] \in 1..MaxLeads /\ p[2] \in 1..MaxLapses
          BY <5>1
        <5>3. lapses[p[1]] \in 0..MaxLapses /\ lapses[p[1]] <= lapses'[p[1]] /\ lapses'[p[1]] \in 0..MaxLapses
          BY <1>0, <2>3, <2>4, <5>2 DEF Lapsed
        <5>4. p[2] <= lapses'[p[1]]
          BY <5>1, <5>2, <5>3, PipelineAssumption
        <5> QED
          BY <5>1, <5>4 DEF Missed
      <4> QED
        BY <4>1
    <3>5. \A k \in DOMAIN leads : k # l => LastOf(k)' = LastOf(k)
      BY <1>b, <2>4 DEF LastOf
    <3>6. \A k : Unsettled(k)' => Unsettled(k)
      BY <2>1 DEF Unsettled, Breaks
    <3>7. \A k \in DOMAIN leads' : leads'[k].overdue /\ Unsettled(k)' => LastOf(k)' \notin P
      BY <2>2, <3>1, <3>3, <3>5, <3>6 DEF OwedFor
    <3>8. \A k \in DOMAIN leads', v \in Callers : Restores(v, k)' => LastOf(k)' \notin P
      BY <2>2, <2>5, <3>1, <3>3, <3>5 DEF OwedFor
    <3>9. OwedFor(P)'
      BY <2>1, <3>1, <3>4, <3>7, <3>8 DEF OwedFor
    <3> QED
      BY <3>9
  <2> QED
    BY <1>0, <2>6, <2>7 DEF PenaltyInv
<1>12. ASSUME NEW w \in Callers, SweepList(w) PROVE PenaltyInv'
  <2>1. PICK due : due = {l \in DOMAIN leads : Due(l)}
    OBVIOUS
  <2>2. PICK n : n = [pc |-> "sweep", listed |-> [l \in due |-> leads[l]]]
    OBVIOUS
  <2>3. ListedOverdue(n) /\ n.pc = "sweep"
    BY <2>1, <2>2 DEF ListedOverdue, Due
  <2>4. Turn(w, n) /\ UNCHANGED <<leads, lapses, points>> /\ crmCall[w] = Rest
    BY <1>12, <2>1, <2>2 DEF SweepList, Idle
  <2>5. crossed' \in {crossed, TRUE}
    BY <1>0, <1>12 DEF SweepList, Lapsed
  <2>6. \A l : ~ Breaks(w, l)
    BY <2>4 DEF Breaks, Breach, Rest
  <2> QED
    BY <1>0, <2>3, <2>4, <2>5, <2>6, OwedStays
<1>13. ASSUME NEW w \in Callers, NEW l \in DOMAIN leads, PenalizeOwner(w, l) PROVE PenaltyInv'
  <2>1. PICK f : f = crmCall[w].listed
    OBVIOUS
  <2>2. PICK k : Turn(w, [pc |-> IF k = 0 THEN "close" ELSE "assign", lead |-> l, listed |-> f,
                          pool |-> pool, index |-> k, new |-> f[l]])
    BY <1>13, <2>1 DEF PenalizeOwner
  <2>3. PICK q \in Breach : q = IF k = 0 THEN "close" ELSE "assign"
    BY DEF Breach
  <2>4. PICK n : n = [pc |-> q, lead |-> l, listed |-> f, pool |-> pool, index |-> k, new |-> f[l]]
    OBVIOUS
  <2>5. /\ Turn(w, n) /\ n.pc \in Breach /\ n.lead = l /\ n.listed = f
        /\ points' = points + 1 /\ UNCHANGED <<leads, lapses>> /\ l \in DOMAIN f /\ crmCall[w].pc = "sweep"
        /\ crossed' = (crossed \/ AtWorkOn(l) # {} \/ leads[l] # f[l])
    BY <1>13, <2>1, <2>2, <2>3, <2>4 DEF PenalizeOwner
  <2>6. crmCall'[w] = n /\ \A v \in Callers : v # w => crmCall'[v] = crmCall[v]
    BY <1>0, <2>5, TakesTurn
  <2>7. \A i \in DOMAIN f : f[i].overdue
    BY <1>0, <2>1, <2>5 DEF Lapsed, ListedOverdue
  <2>8. \A v, i : v \in Callers /\ Restores(v, i)' => Restores(v, i)
    BY <2>5, <2>6 DEF Restores, Breach
  <2>9. \A v \in Callers : ListedOverdue(crmCall[v])'
    BY <1>0, <2>5, <2>6, <2>7 DEF Lapsed, ListedOverdue
  <2>10. Lapsed'
    <3>1. \A i \in DOMAIN leads', v \in Callers : Restores(v, i)' => lapses'[i] >= 1
      BY <1>0, <2>5, <2>8 DEF Lapsed
    <3>2. crossed' \in BOOLEAN /\ points' \in Nat
      BY <1>0, <2>5 DEF Lapsed
    <3> QED
      BY <1>0, <2>5, <2>9, <3>1, <3>2 DEF Lapsed
  <2>11. ASSUME ~ crossed' PROVE \E P : OwedFor(P)'
    <3>1. ~ crossed /\ AtWorkOn(l) = {} /\ leads[l] = f[l]
      BY <1>0, <2>5, <2>11 DEF Lapsed
    <3>2. PICK P : OwedFor(P)
      BY <3>1 DEF PenaltyInv
    <3>3. Unsettled(l) /\ leads[l].overdue
      BY <2>5, <2>7, <3>1 DEF AtWorkOn, Unsettled, Breaks, Breach
    <3>4. LastOf(l) \notin P
      BY <3>2, <3>3 DEF OwedFor
    <3>5. LastOf(l) \in Missed
      <4>1. l \in 1..MaxLeads /\ lapses[l] \in 0..MaxLapses /\ lapses[l] >= 1
        BY <1>0, <1>b, <3>3 DEF Lapsed
      <4>2. lapses[l] \in 1..MaxLapses
        BY <4>1, PipelineAssumption
      <4> QED
        BY <4>1, <4>2 DEF LastOf, Missed
    <3>6. PICK Q : Q = P \cup {LastOf(l)}
      OBVIOUS
    <3>7. IsFiniteSet(Q) /\ Cardinality(Q) = points'
      BY <2>5, <3>2, <3>4, <3>6, FS_AddElement DEF OwedFor
    <3>8. Missed' = Missed /\ \A i : LastOf(i)' = LastOf(i)
      BY <2>5 DEF Missed, LastOf
    <3>9. \A i \in DOMAIN leads : i # l => LastOf(i) # LastOf(l)
      BY DEF LastOf
    <3>10. \A i : Unsettled(i)' => Unsettled(i) /\ i # l
      BY <2>5, <2>6 DEF Unsettled, Breaks, Breach
    <3>11. \A v, i : v \in Callers /\ Restores(v, i) => i # l
      BY <3>1 DEF AtWorkOn, Restores
    <3>12. \A i \in DOMAIN leads' : leads'[i].overdue /\ Unsettled(i)' => LastOf(i) \notin Q
      BY <2>5, <3>2, <3>6, <3>9, <3>10 DEF OwedFor
    <3>13. \A i \in DOMAIN leads', v \in Callers : Restores(v, i)' => LastOf(i) \notin Q
      BY <2>5, <2>8, <3>2, <3>6, <3>9, <3>11 DEF OwedFor
    <3>14. OwedFor(Q)'
      BY <3>2, <3>5, <3>6, <3>7, <3>8, <3>12, <3>13 DEF OwedFor
    <3> QED
      BY <3>14
  <2> QED
    BY <1>0, <2>10, <2>11 DEF PenaltyInv
<1>14. ASSUME NEW w \in Callers, Reassign(w) PROVE PenaltyInv'
  <2>0. PICK c : c = crmCall[w] /\ c.pc = "assign"
    BY <1>14 DEF Reassign
  <2>1. c.lead \in DOMAIN leads /\ BreachShape(c) /\ ListedOverdue(c)
    BY <1>0, <1>a, <2>0 DEF SavesCopies, HoldsCopies, CopyOf, Breach, Lapsed
  <2>2. PICK x : x = [leads[c.lead] EXCEPT !.owner = c.pool.members[c.index]]
    OBVIOUS
  <2>3. x.overdue = leads[c.lead].overdue
    BY <1>a, <2>1, <2>2 DEF PipelineTypes, LeadShape
  <2>4. PICK n : n = [c EXCEPT !.pc = "turn", !.new = x]
    OBVIOUS
  <2>5. n = [pc |-> "turn", lead |-> c.lead, listed |-> c.listed, pool |-> c.pool, index |-> c.index, new |-> x]
    BY <2>1, <2>4 DEF BreachShape
  <2>6. n.pc = "turn" /\ n.lead = c.lead /\ ListedOverdue(n)
    BY <2>0, <2>1, <2>5 DEF ListedOverdue, Breach
  <2>7. /\ Turn(w, n) /\ leads' = [leads EXCEPT ![c.lead] = x] /\ UNCHANGED <<lapses, points, crossed>>
    BY <1>14, <2>0, <2>2, <2>4 DEF Reassign
  <2>8. \A k : Breaks(w, k) => k = c.lead
    BY <2>0 DEF Breaks
  <2>9. x.overdue => leads[c.lead].overdue /\ n.pc \in Breach /\ n.lead = c.lead
    BY <2>3, <2>6 DEF Breach
  <2> QED
    BY <1>0, <2>1, <2>6, <2>7, <2>8, <2>9, OwedAsSaved
<1>15. ASSUME NEW w \in Callers, TurnPool(w) PROVE PenaltyInv'
  <2>0. PICK c : c = crmCall[w] /\ c.pc = "turn"
    BY <1>15 DEF TurnPool
  <2>1. BreachShape(c) /\ ListedOverdue(c)
    BY <1>0, <1>a, <2>0 DEF SavesCopies, HoldsCopies, Breach, Lapsed
  <2>2. PICK n : n = [c EXCEPT !.pc = "close"]
    OBVIOUS
  <2>3. n = [pc |-> "close", lead |-> c.lead, listed |-> c.listed, pool |-> c.pool,
             index |-> c.index, new |-> c.new]
    BY <2>1, <2>2 DEF BreachShape
  <2>4. n.pc = "close" /\ n.lead = c.lead /\ ListedOverdue(n)
    BY <2>0, <2>1, <2>3 DEF ListedOverdue, Breach
  <2>5. Turn(w, n) /\ UNCHANGED <<leads, lapses, points, crossed>>
    BY <1>15, <2>0, <2>2 DEF TurnPool
  <2>6. \A l : Breaks(w, l) => n.pc \in Breach /\ n.lead = l
    BY <2>0, <2>4 DEF Breaks, Breach
  <2> QED
    BY <1>0, <2>4, <2>5, <2>6, OwedStays
<1>16. ASSUME NEW w \in Callers, CloseBreach(w) PROVE PenaltyInv'
  <2>0. PICK c : c = crmCall[w] /\ c.pc = "close"
    BY <1>16 DEF CloseBreach
  <2>1. CopyOf(c.new, c.lead) /\ ListedOverdue(c)
    BY <1>0, <1>a, <2>0 DEF SavesCopies, HoldsCopies, Breach, Lapsed
  <2>2. PICK x : x = Renewed(c)
    OBVIOUS
  <2>3. ~ x.overdue /\ c.lead \in DOMAIN leads
    BY <2>1, <2>2 DEF CopyOf, Renewed, LeadShape
  <2>4. PICK rest : rest = DOMAIN c.listed \ {c.lead}
    OBVIOUS
  <2>5. PICK n : n = IF rest = {} THEN Rest ELSE [pc |-> "sweep", listed |-> [l \in rest |-> c.listed[l]]]
    OBVIOUS
  <2>6. ListedOverdue(n) /\ n.pc # "saveEdit"
    <3>1. CASE rest = {}
      BY <2>5, <3>1 DEF ListedOverdue, Breach, Rest
    <3>2. CASE rest # {}
      <4>1. \A l \in rest : c.listed[l].overdue
        BY <2>0, <2>1, <2>4 DEF ListedOverdue, Breach
      <4> QED
        BY <2>5, <3>2, <4>1 DEF ListedOverdue
    <3> QED
      BY <3>1, <3>2
  <2>7. Turn(w, n) /\ leads' = [leads EXCEPT ![c.lead] = x] /\ UNCHANGED <<lapses, points, crossed>>
    BY <1>16, <2>0, <2>2, <2>4, <2>5 DEF CloseBreach, SweepNext
  <2>8. \A k : Breaks(w, k) => k = c.lead
    BY <2>0 DEF Breaks
  <2> QED
    BY <1>0, <2>3, <2>6, <2>7, <2>8, OwedAsSaved
<1>17. ASSUME NEW w \in Callers, NEW s \in Stages, SetDefaultStage(w, s) PROVE PenaltyInv'
  BY <1>1, <1>17 DEF SetDefaultStage, Breach, Idle, Rest
<1>18. ASSUME NEW w \in Callers, NEW s \in Stages, NEW new, EditStage(w, s, new) PROVE PenaltyInv'
  BY <1>1, <1>18 DEF EditStage, Breach, Idle, Rest
<1>19. ASSUME NEW w \in Callers, UnsetOther(w) PROVE PenaltyInv'
  <2>0. PICK c : c = crmCall[w] /\ c.pc = "unset"
    BY <1>19 DEF UnsetOther
  <2>1. c = [pc |-> "unset", stage |-> c.stage, new |-> c.new, others |-> c.others]
    BY <1>a, <2>0 DEF SavesCopies, HoldsCopies
  <2>2. PICK t : Turn(w, [c EXCEPT !.others = @ \ {t}])
    BY <1>19, <2>0 DEF UnsetOther
  <2>3. [c EXCEPT !.others = @ \ {t}].pc = "unset"
    BY <2>1
  <2> QED
    BY <1>1, <1>19, <2>0, <2>2, <2>3 DEF UnsetOther, Breach
<1>20. ASSUME NEW w \in Callers, SaveStage(w) PROVE PenaltyInv'
  BY <1>1, <1>20 DEF SaveStage, Breach, Rest
<1>21. ASSUME UNCHANGED <<leads, crmCall, lapses, points, crossed>> PROVE PenaltyInv'
  <2>1. Lapsed'
    BY <1>0, <1>21 DEF Lapsed, Restores, ListedOverdue
  <2>2. ASSUME NEW P, OwedFor(P) PROVE OwedFor(P)'
    BY <1>21, <2>2 DEF OwedFor, Missed, Restores, LastOf, Unsettled, Breaks
  <2> QED
    BY <1>0, <1>21, <2>1, <2>2 DEF PenaltyInv
<1>22. CASE StopPipeline
  <2>1. /\ crmCall' = [w \in Callers |-> Rest] /\ UNCHANGED <<leads, lapses, points>>
        /\ crossed' = (crossed \/ \E w \in Callers : crmCall[w].pc \in Breach)
    BY <1>22 DEF StopPipeline, Breach
  <2>2. \A w \in Callers : crmCall'[w] = Rest /\ crmCall'[w].pc = "idle"
    BY <2>1 DEF Rest
  <2>3. \A w \in Callers : \A l : ~ Restores(w, l)'
    BY <2>2 DEF Restores
  <2>4. \A w \in Callers : ListedOverdue(crmCall[w])'
    BY <2>2 DEF ListedOverdue, Breach
  <2>5. Lapsed'
    <3>1. crossed' \in BOOLEAN
      BY <2>1
    <3> QED
      BY <1>0, <2>1, <2>3, <2>4, <3>1 DEF Lapsed
  <2>6. ASSUME ~ crossed' PROVE \E P : OwedFor(P)'
    <3>1. ~ crossed /\ \A w \in Callers : crmCall[w].pc \notin Breach
      BY <1>0, <2>1, <2>6 DEF Lapsed
    <3>2. PICK P : OwedFor(P)
      BY <3>1 DEF PenaltyInv
    <3>3. \A l : Unsettled(l)
      BY <3>1 DEF Unsettled, Breaks
    <3>4. Missed' = Missed /\ \A i : LastOf(i)' = LastOf(i)
      BY <2>1 DEF Missed, LastOf
    <3>5. OwedFor(P)'
      BY <2>1, <2>3, <3>2, <3>3, <3>4 DEF OwedFor
    <3> QED
      BY <3>5
  <2> QED
    BY <1>0, <2>5, <2>6 DEF PenaltyInv
<1> QED
  <2>1. ASSUME NEW t \in Teams, ConfigurePool(t) PROVE PenaltyInv'
    BY <1>21, <2>1 DEF ConfigurePool
  <2>2. CASE UNCHANGED pipelineVars
    BY <1>21, <2>2 DEF pipelineVars
  <2> QED
    BY <1>2, <1>3, <1>4, <1>5, <1>6, <1>8, <1>9, <1>10, <1>11, <1>12, <1>13, <1>14, <1>15, <1>16, <1>17,
       <1>18, <1>19, <1>20, <1>22, <2>1, <2>2 DEF PipelineNext

(* As long as no other call meets a sweep on the lead it works on, nobody   *)
(* is penalized twice for one missed deadline                              *)
(* (lead-distribution.service.ts:117-123).                                 *)
THEOREM OwnersPenalizedOnce == PipelineSpec => []PenalizedOnce
<1>1. PenaltyInv => PenalizedOnce
  <2> SUFFICES ASSUME PenaltyInv, ~ crossed PROVE points <= Cardinality(Missed)
    BY DEF PenalizedOnce, Missed
  <2>1. PICK P : OwedFor(P)
    BY DEF PenaltyInv
  <2>2. IsFiniteSet((1..MaxLeads) \X (1..MaxLapses))
    <3>1. IsFiniteSet(1..MaxLeads) /\ IsFiniteSet(1..MaxLapses)
      <4>1. 1 \in Int /\ MaxLeads \in Int /\ MaxLapses \in Int
        BY PipelineAssumption
      <4> QED
        BY <4>1, FS_Interval
    <3> QED
      BY <3>1, FS_Product
  <2>3. IsFiniteSet(Missed)
    BY <2>2, FS_Subset DEF Missed
  <2> QED
    BY <2>1, <2>3, FS_Subset DEF OwedFor
<1> QED
  BY <1>1, PenaltyStart, PenaltyNextInv, PTL DEF PipelineSpec
-----------------------------------------------------------------------------
(* The payment plans. *)

(* A sequence of n numbers. *)
Numbers(s, n) == DOMAIN s = 1 .. n /\ \A i \in 1 .. n : s[i] \in Int

(* P sums the first elements of s. *)
Sums(s, n, P) ==
  /\ P \in [0 .. n -> Int]
  /\ P[0] = 0
  /\ \A i \in 1 .. n : P[i] = P[i - 1] + s[i]

LEMMA TotalSums ==
  ASSUME NEW n \in Nat, NEW s, DOMAIN s = 1 .. n, \A i \in 1 .. n : s[i] \in Int
  PROVE  \E P : Sums(s, n, P) /\ Total(s) = P[n]
<1> DEFINE step == [i \in 1 .. n |-> [x \in Int |-> x + s[i]]]
<1>1. step \in [1 .. n -> [Int -> Int]] /\ 0 \in Int
  OBVIOUS
<1>2. PICK F : PrefixFolded(n, Int, 0, step, F)
  <2> HIDE DEF step
  <2> QED
    BY <1>1, PrefixFold
<1>0. /\ F \in [SUBSET (1 .. n) -> Int]
           /\ F = [U \in SUBSET (1 .. n) |->
                     IF U = {} THEN 0 ELSE step[Max(U)][F[U \ {Max(U)}]]]
           /\ F[1 .. 0] = 0
           /\ \A i \in 1 .. n : F[1 .. i] = step[i][F[1 .. i - 1]]
  BY <1>2, Zenon DEF PrefixFolded
<1> DEFINE H == [U \in SUBSET (1 .. n) |->
                     IF U = {} THEN 0 ELSE F[U \ {Max(U)}] + s[Max(U)]]
           K == [U \in SUBSET (1 .. n) |->
                     IF U = {} THEN 0 ELSE step[Max(U)][F[U \ {Max(U)}]]]
<1>3. ASSUME NEW U \in SUBSET (1 .. n) PROVE F[U] = H[U]
  <2>1. CASE U = {}
    <3>1. K[U] = 0 /\ H[U] = 0
      BY <2>1
    <3> QED
      BY <1>0, <3>1, Zenon
  <2>2. CASE U # {}
    <3>1. U \subseteq 0 .. n
      OBVIOUS
    <3>2. Max(U) \in U
      BY <2>2, <3>1, Maximum
    <3> DEFINE m == Max(U)
    <3>3. K[U] = step[m][F[U \ {m}]] /\ H[U] = F[U \ {m}] + s[m]
      BY <2>2
    <3>4. U \ {m} \in SUBSET (1 .. n) /\ m \in 1 .. n
      BY <3>2
    <3> HIDE DEF m
    <3>5. F[U \ {m}] \in Int
      <4> HIDE DEF step
      <4> QED
        BY <1>0, <3>4
    <3>6. step[m][F[U \ {m}]] = F[U \ {m}] + s[m]
      BY <3>4, <3>5
    <3> QED
      BY <1>0, <3>3, <3>6, Zenon
  <2> QED
    BY <2>1, <2>2
<1>4. F = H
  <2> HIDE DEF step
  <2>1. F = [U \in SUBSET (1 .. n) |-> F[U]]
    BY <1>0
  <2> QED
    BY <1>3, <2>1
<1> DEFINE G == CHOOSE X : X = [U \in SUBSET (1 .. n) |->
                     IF U = {} THEN 0 ELSE X[U \ {Max(U)}] + s[Max(U)]]
<1>5. G = [U \in SUBSET (1 .. n) |-> IF U = {} THEN 0 ELSE G[U \ {Max(U)}] + s[Max(U)]]
  BY <1>4, Zenon
<1>6. Total(s) = G[1 .. n]
  BY Zenon DEF Total, FoldLeft, MapThenFoldSet
<1>7. G[1 .. n] = F[1 .. n]
  <2>1. G[{}] = 0
    BY <1>5, Zenon
  <2>2. ASSUME NEW U \in SUBSET (1 .. n), U # {}, G[U \ {Max(U)}] \in Int
        PROVE  G[U] = step[Max(U)][G[U \ {Max(U)}]]
    <3> DEFINE m == Max(U)
               x == G[U \ {m}]
    <3>1. G[U] = x + s[m]
      BY <1>5, <2>2, Zenon
    <3>2. m \in U
      <4>1. U \subseteq 0 .. n
        OBVIOUS
      <4> QED
        BY <2>2, <4>1, Maximum
    <3>3. x \in Int /\ m \in 1 .. n
      BY <2>2, <3>2
    <3> HIDE DEF x, m, G
    <3>4. step[m][x] = x + s[m]
      BY <3>3
    <3> QED
      BY <3>1, <3>4 DEF x, m
  <2>3. SameSteps(n, Int, 0, step, G)
    BY <2>1, <2>2, Zenon DEF SameSteps
  <2> HIDE DEF G, step
  <2>4. PrefixFolded(n, Int, 0, step, F)
    BY <1>2
  <2>5. PICK g, t, T, z : g = G /\ t = step /\ T = Int /\ z = 0
    OBVIOUS
  <2>6. z \in T /\ SameSteps(n, T, z, t, g) /\ PrefixFolded(n, T, z, t, F)
    BY <1>1, <2>3, <2>4, <2>5, Zenon
  <2>7. g[1 .. n] = F[1 .. n]
    BY <2>6, PrefixSame
  <2> QED
    BY <2>5, <2>7, Zenon
<1> DEFINE P == [i \in 0 .. n |-> F[1 .. i]]
<1>8. P \in [0 .. n -> Int] /\ P[0] = 0 /\ P[n] = F[1 .. n]
  <2>1. \A i \in 0 .. n : 1 .. i \in SUBSET (1 .. n)
    OBVIOUS
  <2>2. 0 \in 0 .. n /\ n \in 0 .. n
    OBVIOUS
  <2> HIDE DEF step
  <2> QED
    BY <1>0, <2>1, <2>2, Zenon
<1>9. ASSUME NEW i \in 1 .. n PROVE P[i] = P[i - 1] + s[i]
  <2>1. i \in 0 .. n /\ i - 1 \in 0 .. n /\ 1 .. i - 1 \in SUBSET (1 .. n)
    OBVIOUS
  <2>2. F[1 .. i] = step[i][F[1 .. i - 1]] /\ F[1 .. i - 1] \in Int
    BY <1>0, <2>1, Zenon
  <2> DEFINE x == F[1 .. i - 1]
  <2>3. P[i] = step[i][x] /\ P[i - 1] = x /\ x \in Int
    BY <2>1, <2>2, Zenon
  <2> HIDE DEF x
  <2>4. step[i][x] = x + s[i]
    BY <2>3
  <2> QED
    BY <2>3, <2>4, Zenon
<1>10. Total(s) = P[n]
  <2>1. 1 .. n \in SUBSET (1 .. n)
    OBVIOUS
  <2> QED
    BY <1>6, <1>7, <1>8, <2>1, Zenon
<1> QED
  BY <1>8, <1>9, <1>10, Zenon DEF Sums

(* The sums of what agrees so far agree so far. *)
AgreeTo(s, r, m) == \A i \in 1 .. m : s[i] = r[i]

LEMMA SumsAgree ==
  ASSUME NEW n \in Nat, NEW k \in Nat, NEW m \in Nat, m <= n, m <= k,
         NEW s, NEW r, NEW P, NEW Q, Sums(s, n, P), Sums(r, k, Q),
         AgreeTo(s, r, m)
  PROVE  \A i \in 0 .. m : P[i] = Q[i]
<1> DEFINE S == {i \in 0 .. m : P[i] = Q[i]}
<1>1. 0 \in S
  BY DEF Sums
<1>2. ASSUME NEW i \in 0 .. m, i < m, i \in S PROVE i + 1 \in S
  <2>1. i + 1 \in 1 .. m /\ i + 1 \in 1 .. n /\ i + 1 \in 1 .. k /\ (i + 1) - 1 = i /\ i + 1 \in 0 .. m
    BY <1>2
  <2>2. P[i + 1] = P[(i + 1) - 1] + s[i + 1] /\ Q[i + 1] = Q[(i + 1) - 1] + r[i + 1]
    BY <2>1, Zenon DEF Sums
  <2>3. P[i] = Q[i] /\ s[i + 1] = r[i + 1]
    BY <1>2, <2>1 DEF AgreeTo
  <2> QED
    BY <2>1, <2>2, <2>3
<1> HIDE DEF S
<1>3. \A i \in 0 .. m : i \in S
  BY <1>1, <1>2, Climb
<1> QED
  BY <1>3 DEF S

(* The last summand can make the sum what it should be. *)
LEMMA SumsLast ==
  ASSUME NEW n \in Nat, n > 0, NEW s, NEW P, Sums(s, n, P), NEW a \in Int,
         NEW r, Numbers(r, n), AgreeTo(s, r, n - 1), s[n] \in Int, r[n] = s[n] + a - P[n]
  PROVE  Total(r) = a /\ r[n] = a - P[n - 1]
<1>1. PICK Q : Sums(r, n, Q) /\ Total(r) = Q[n]
  BY TotalSums DEF Numbers
<1>2. n - 1 \in Nat /\ n - 1 <= n /\ n \in 1 .. n /\ n - 1 \in 0 .. n - 1 /\ n - 1 \in 0 .. n
  OBVIOUS
<1>4. \A i \in 0 .. n - 1 : Q[i] = P[i]
  <2> DEFINE m == n - 1
  <2>1. m \in Nat /\ m <= n /\ AgreeTo(s, r, m)
    BY <1>2
  <2> HIDE DEF m
  <2>2. \A i \in 0 .. m : P[i] = Q[i]
    BY <1>1, <2>1, SumsAgree
  <2> QED
    BY <2>2 DEF m
<1>5. Q[n - 1] = P[n - 1]
  BY <1>2, <1>4
<1>6. Q[n] = Q[n - 1] + r[n] /\ P[n] = P[n - 1] + s[n] /\ P[n - 1] \in Int /\ P[n] \in Int
  BY <1>1, <1>2 DEF Sums
<1> DEFINE p == P[n - 1]
           q == Q[n]
           pn == P[n]
           x == s[n]
           y == r[n]
<1>7. q = p + y /\ pn = p + x /\ y = x + a - pn /\ p \in Int /\ x \in Int
  BY <1>5, <1>6, Zenon
<1> HIDE DEF p, q, pn, x, y
<1>8. q = a /\ y = a - p
  BY <1>7
<1> QED
  BY <1>1, <1>8, Zenon DEF p, q, y

(* A sum with one more in front. *)
LEMMA TotalFront ==
  ASSUME NEW n \in Nat, NEW s, DOMAIN s = 1 .. n, NEW a \in Int,
         NEW r, DOMAIN r = 1 .. n + 1, r[1] = a,
         \A i \in 1 .. n : s[i] \in Int /\ r[i + 1] = s[i]
  PROVE  Total(r) = a + Total(s) /\ Total(s) \in Int
<1>1. PICK P : Sums(s, n, P) /\ Total(s) = P[n]
  BY TotalSums
<1>2. \A i \in 1 .. n + 1 : r[i] \in Int
  <2> SUFFICES ASSUME NEW i \in 1 .. n + 1, i # 1 PROVE r[i] \in Int
    OBVIOUS
  <2>1. i - 1 \in 1 .. n /\ (i - 1) + 1 = i
    OBVIOUS
  <2> QED
    BY <2>1
<1>3. PICK Q : Sums(r, n + 1, Q) /\ Total(r) = Q[n + 1]
  BY <1>2, TotalSums
<1> DEFINE S == {i \in 0 .. n : Q[i + 1] = a + P[i]}
<1>4. 0 \in S
  <2>1. 1 \in 1 .. n + 1 /\ 1 - 1 = 0
    OBVIOUS
  <2>2. Q[1] = Q[1 - 1] + r[1] /\ Q[0] = 0 /\ P[0] = 0
    BY <1>1, <1>3, <2>1, Zenon DEF Sums
  <2> QED
    BY <2>2
<1>5. ASSUME NEW i \in 0 .. n, i < n, i \in S PROVE i + 1 \in S
  <2>1. /\ i + 1 \in 1 .. n /\ (i + 1) + 1 \in 1 .. n + 1 /\ (i + 1) - 1 = i
        /\ ((i + 1) + 1) - 1 = i + 1 /\ i + 1 \in 0 .. n
    BY <1>5
  <2>2. P[i + 1] = P[(i + 1) - 1] + s[i + 1] /\ Q[(i + 1) + 1] = Q[((i + 1) + 1) - 1] + r[(i + 1) + 1]
    BY <1>1, <1>3, <2>1, Zenon DEF Sums
  <2>3. Q[i + 1] = a + P[i] /\ s[i + 1] = r[(i + 1) + 1] /\ s[i + 1] \in Int /\ P[i] \in Int
    BY <1>1, <1>5, <2>1 DEF Sums
  <2> QED
    BY <2>1, <2>2, <2>3
<1>6. \A i \in 0 .. n : i \in S
  <2> HIDE DEF S
  <2> QED
    BY <1>4, <1>5, Climb
<1>7. P[n] \in Int /\ n \in 0 .. n
  BY <1>1 DEF Sums
<1> QED
  BY <1>1, <1>3, <1>6, <1>7

(* Sums of summands that are not negative grow. *)
LEMMA SumsGrow ==
  ASSUME NEW n \in Nat, NEW s, NEW P, Sums(s, n, P), \A i \in 1 .. n : s[i] \in Nat,
         NEW m \in 0 .. n
  PROVE  \A i \in 0 .. n : m <= i => P[m] <= P[i]
<1> DEFINE S == {i \in 0 .. n : m <= i => P[m] <= P[i]}
<1>1. 0 \in S
  BY DEF Sums
<1>2. ASSUME NEW i \in 0 .. n, i < n, i \in S PROVE i + 1 \in S
  <2>1. i + 1 \in 1 .. n /\ (i + 1) - 1 = i /\ i + 1 \in 0 .. n
    BY <1>2
  <2>2. P[i + 1] = P[(i + 1) - 1] + s[i + 1] /\ P[i] \in Int /\ P[m] \in Int /\ P[i + 1] \in Int
    BY <2>1 DEF Sums
  <2>3. s[i + 1] \in Nat /\ (m <= i => P[m] <= P[i])
    BY <1>2, <2>1
  <2>4. m = i + 1 \/ m <= i \/ m > i + 1
    OBVIOUS
  <2> QED
    BY <2>1, <2>2, <2>3, <2>4
<1> HIDE DEF S
<1>3. \A i \in 0 .. n : i \in S
  BY <1>1, <1>2, Climb
<1> QED
  BY <1>3 DEF S

(* Rounding is at most half a cent off. *)
LEMMA Rounding ==
  ASSUME NEW x \in Nat, NEW y \in Nat, y > 0
  PROVE  /\ RoundDiv(x, y) \in Nat
         /\ 2 * (y * RoundDiv(x, y)) <= 2 * x + y /\ 2 * x <= 2 * (y * RoundDiv(x, y)) + y
<1> DEFINE z == 2 * y
           t == 2 * x + y
<1>1. z \in Nat /\ z > 0 /\ t \in Nat
  OBVIOUS
<1>2. t = z * (t \div z) + (t % z) /\ t % z >= 0 /\ t % z < z /\ t \div z \in Nat
  <2> HIDE DEF z, t
  <2> QED
    BY <1>1
<1>3. RoundDiv(x, y) = t \div z
  BY DEF RoundDiv
<1> DEFINE q == t \div z
<1>4. q \in Nat /\ z * q <= t /\ t <= z * q + z
  <2> HIDE DEF z, t
  <2>1. q \in Nat /\ t = z * q + (t % z) /\ t % z >= 0 /\ t % z < z /\ t % z \in Int
    BY <1>1, <1>2
  <2> DEFINE left == t % z
             taken == z * q
  <2>2. t = taken + left /\ left >= 0 /\ left < z /\ left \in Int /\ taken \in Int
    BY <1>1, <2>1
  <2> HIDE DEF q, left, taken
  <2>3. taken <= t /\ t <= taken + z
    BY <1>1, <2>2
  <2> QED
    BY <2>1, <2>3 DEF taken
<1> HIDE DEF q
<1>5. z * q = 2 * (y * q) /\ y * q \in Nat
  BY <1>4
<1>6. 2 * (y * q) <= 2 * x + y /\ 2 * x + y <= 2 * (y * q) + 2 * y
  BY <1>4, <1>5
<1> DEFINE yq == y * q
<1>7. 2 * x <= 2 * yq + y
  <2>1. yq \in Nat /\ 2 * x + y <= 2 * yq + 2 * y
    BY <1>5, <1>6
  <2> HIDE DEF yq
  <2> QED
    BY <2>1
<1> QED
  BY <1>3, <1>4, <1>6, <1>7 DEF q

(* A power is reached by multiplying once more each time. *)
LEMMA PowerSteps ==
  ASSUME NEW x \in Nat, NEW n \in Nat
  PROVE  \E P \in [0 .. n -> Nat] :
           P[0] = 1 /\ Power(x, n) = P[n] /\ \A i \in 1 .. n : P[i] = P[i - 1] * x
<1> DEFINE s == [i \in 1 .. n |-> i]
           step == [i \in 1 .. n |-> [p \in Nat |-> p * x]]
<1>1. step \in [1 .. n -> [Nat -> Nat]] /\ 1 \in Nat /\ DOMAIN s = 1 .. n
  OBVIOUS
<1>2. PICK F : PrefixFolded(n, Nat, 1, step, F)
  <2> HIDE DEF step
  <2> QED
    BY <1>1, PrefixFold
<1> DEFINE G == CHOOSE X : X = [U \in SUBSET DOMAIN s |->
                     IF U = {} THEN 1 ELSE X[U \ {Max(U)}] * x]
<1>3. Power(x, n) = G[DOMAIN s]
  BY Zenon DEF Power, FoldLeft, MapThenFoldSet
<1> DEFINE H == [U \in SUBSET DOMAIN s |-> IF U = {} THEN 1 ELSE F[U \ {Max(U)}] * x]
<1>4. /\ F \in [SUBSET (1 .. n) -> Nat]
      /\ F = [U \in SUBSET (1 .. n) |->
                IF U = {} THEN 1 ELSE step[Max(U)][F[U \ {Max(U)}]]]
      /\ F[1 .. 0] = 1
      /\ \A i \in 1 .. n : F[1 .. i] = step[i][F[1 .. i - 1]]
  BY <1>2, Zenon DEF PrefixFolded
<1>5. ASSUME NEW m \in 1 .. n, NEW p \in Nat PROVE step[m][p] = p * x
  OBVIOUS
<1>6. ASSUME NEW U \in SUBSET (1 .. n), U # {} PROVE Max(U) \in 1 .. n /\ U \ {Max(U)} \in SUBSET (1 .. n)
  <2>1. U \subseteq 0 .. n
    OBVIOUS
  <2> QED
    BY <1>6, <2>1, Maximum
<1>7. ASSUME NEW U \in SUBSET (1 .. n) PROVE F[U] = H[U]
  <2>1. CASE U = {}
    BY <1>1, <1>4, <2>1, Zenon
  <2>2. CASE U # {}
    <3>1. Max(U) \in 1 .. n /\ F[U \ {Max(U)}] \in Nat
      <4> HIDE DEF step
      <4> QED
        BY <1>4, <1>6, <2>2
    <3>2. F[U] = step[Max(U)][F[U \ {Max(U)}]] /\ H[U] = F[U \ {Max(U)}] * x
      BY <1>1, <1>4, <2>2, Zenon
    <3> QED
      BY <1>5, <3>1, <3>2, Zenon
  <2> QED
    BY <2>1, <2>2
<1>8. F = H
  <2> HIDE DEF step
  <2>1. F = [U \in SUBSET (1 .. n) |-> F[U]]
    BY <1>4
  <2> QED
    BY <1>1, <1>7, <2>1
<1>9. G = [U \in SUBSET DOMAIN s |-> IF U = {} THEN 1 ELSE G[U \ {Max(U)}] * x]
  BY <1>8, Zenon
<1>10. G[1 .. n] = F[1 .. n]
  <2>1. G[{}] = 1
    BY <1>9, Zenon
  <2>2. ASSUME NEW U \in SUBSET (1 .. n), U # {}, G[U \ {Max(U)}] \in Nat
        PROVE  G[U] = step[Max(U)][G[U \ {Max(U)}]]
    <3>1. G[U] = G[U \ {Max(U)}] * x
      BY <1>1, <1>9, <2>2, Zenon
    <3> QED
      BY <1>5, <1>6, <2>2, <3>1, Zenon
  <2>3. SameSteps(n, Nat, 1, step, G)
    BY <2>1, <2>2, Zenon DEF SameSteps
  <2> HIDE DEF G, step
  <2>4. PrefixFolded(n, Nat, 1, step, F)
    BY <1>2
  <2>5. PICK g, t : g = G /\ t = step
    OBVIOUS
  <2>6. SameSteps(n, Nat, 1, t, g) /\ PrefixFolded(n, Nat, 1, t, F)
    BY <2>3, <2>4, <2>5, Zenon
  <2>7. g[1 .. n] = F[1 .. n]
    BY <2>6, PrefixSame
  <2> QED
    BY <2>5, <2>7, Zenon
<1>11. Power(x, n) = F[1 .. n] /\ 1 .. n \in SUBSET (1 .. n)
  BY <1>1, <1>3, <1>10, Zenon
<1>12. \A i \in 0 .. n : 1 .. i \in SUBSET (1 .. n)
  OBVIOUS
<1> DEFINE P == [i \in 0 .. n |-> F[1 .. i]]
<1>13. P \in [0 .. n -> Nat]
  <2>1. \A i \in 0 .. n : F[1 .. i] \in Nat
    <3> HIDE DEF step, G, H
    <3> QED
      BY <1>4, <1>12
  <2> QED
    BY <2>1
<1>14. P[0] = 1 /\ P[n] = F[1 .. n]
  <2>1. 0 \in 0 .. n /\ n \in 0 .. n
    OBVIOUS
  <2> QED
    BY <1>4, <2>1, Zenon
<1>15. ASSUME NEW i \in 1 .. n PROVE P[i] = P[i - 1] * x
  <2>1. i \in 0 .. n /\ i - 1 \in 0 .. n
    OBVIOUS
  <2>2. P[i] = F[1 .. i] /\ P[i - 1] = F[1 .. i - 1]
    BY <2>1
  <2>3. F[1 .. i - 1] \in Nat /\ F[1 .. i] = step[i][F[1 .. i - 1]]
    <3>1. 1 .. i - 1 \in SUBSET (1 .. n)
      OBVIOUS
    <3> HIDE DEF step, G, H, P
    <3> QED
      BY <1>4, <3>1
  <2> HIDE DEF P
  <2> QED
    BY <1>5, <2>2, <2>3, Zenon
<1> HIDE DEF P
<1>16. Power(x, n) = P[n]
  BY <1>11, <1>14, Zenon
<1> QED
  BY <1>13, <1>14, <1>15, <1>16

(* Products of what is not negative. *)
LEMMA Powers == ASSUME NEW x \in Nat, NEW n \in Nat
                PROVE  Power(x, n) \in Nat /\ (x > 0 \/ n = 0 => Power(x, n) > 0)
<1>1. PICK P \in [0 .. n -> Nat] :
        P[0] = 1 /\ Power(x, n) = P[n] /\ \A i \in 1 .. n : P[i] = P[i - 1] * x
  BY PowerSteps
<1> DEFINE S == {i \in 0 .. n : x > 0 \/ i = 0 => P[i] > 0}
<1>2. 0 \in S
  BY <1>1
<1>3. ASSUME NEW i \in 0 .. n, i < n, i \in S PROVE i + 1 \in S
  <2>1. i + 1 \in 1 .. n /\ (i + 1) - 1 = i /\ i + 1 \in 0 .. n
    BY <1>3
  <2>2. P[i + 1] = P[i] * x /\ P[i] \in Nat
    BY <1>1, <2>1
  <2>3. x > 0 => P[i] > 0 /\ P[i] * x > 0
    BY <1>3, <2>2
  <2> QED
    BY <2>1, <2>2, <2>3
<1>4. n \in S
  <2> HIDE DEF S
  <2>1. \A i \in 0 .. n : i \in S
    BY <1>2, <1>3, Climb
  <2> QED
    BY <2>1
<1> QED
  BY <1>1, <1>4

(* The next power is one factor more. *)
LEMMA PowerNext == ASSUME NEW x \in Nat, NEW n \in Nat
                   PROVE  Power(x, n + 1) = Power(x, n) * x
<1>1. PICK P \in [0 .. n -> Nat] :
        P[0] = 1 /\ Power(x, n) = P[n] /\ \A i \in 1 .. n : P[i] = P[i - 1] * x
  BY PowerSteps
<1> DEFINE m == n + 1
<1>2. m \in Nat /\ m - 1 = n /\ m \in 1 .. m
  OBVIOUS
<1>3. PICK Q \in [0 .. m -> Nat] :
        Q[0] = 1 /\ Power(x, m) = Q[m] /\ \A i \in 1 .. m : Q[i] = Q[i - 1] * x
  BY <1>2, PowerSteps
<1> DEFINE S == {i \in 0 .. n : P[i] = Q[i]}
<1>4. 0 \in S
  BY <1>1, <1>3
<1>5. ASSUME NEW i \in 0 .. n, i < n, i \in S PROVE i + 1 \in S
  <2>1. i + 1 \in 1 .. n /\ (i + 1) - 1 = i /\ i + 1 \in 0 .. n /\ i + 1 \in 1 .. m
    BY <1>5
  <2>2. P[i + 1] = P[i] * x /\ Q[i + 1] = Q[i] * x
    BY <1>1, <1>3, <2>1
  <2> QED
    BY <1>5, <2>1, <2>2
<1>6. n \in S
  <2> HIDE DEF S
  <2>1. \A i \in 0 .. n : i \in S
    BY <1>4, <1>5, Climb
  <2> QED
    BY <2>1
<1>7. Q[m] = Q[n] * x
  BY <1>2, <1>3
<1> QED
  BY <1>1, <1>3, <1>6, <1>7

(* Rounded shares add up to the shares, half a cent of each aside. *)
LEMMA SharesRound ==
  ASSUME NEW n \in Nat, NEW w, NEW W, Sums(w, n, W), \A i \in 1 .. n : w[i] \in Nat,
         NEW R \in Nat, NEW all \in Nat, all > 0,
         NEW s, NEW Q, Sums(s, n, Q), \A i \in 1 .. n : s[i] = RoundDiv(R * w[i], all)
  PROVE  \A k \in 0 .. n : Within(Q[k], R * W[k], all, k)
<1> DEFINE S == {k \in 0 .. n : Within(Q[k], R * W[k], all, k)}
<1>1. 0 \in S
  <2>1. Q[0] = 0 /\ W[0] = 0
    BY DEF Sums
  <2> QED
    BY <2>1 DEF Within
<1>2. ASSUME NEW k \in 0 .. n, k < n, k \in S PROVE k + 1 \in S
  <2>1. k + 1 \in 1 .. n /\ (k + 1) - 1 = k /\ k + 1 \in 0 .. n
    BY <1>2
  <2>2. /\ Q[k + 1] = Q[k] + s[k + 1] /\ W[k + 1] = W[k] + w[k + 1]
        /\ Q[k] \in Int /\ W[k] \in Int
    BY <2>1 DEF Sums
  <2> DEFINE q == Q[k]
             v == W[k]
             r == s[k + 1]
             x == w[k + 1]
  <2>3. x \in Nat /\ R * x \in Nat /\ r = RoundDiv(R * x, all)
    BY <2>1
  <2>4. /\ r \in Nat /\ 2 * (all * r) <= 2 * (R * x) + all
        /\ 2 * (R * x) <= 2 * (all * r) + all
    <3> HIDE DEF x, r
    <3> QED
      BY <2>3, Rounding
  <2>5. /\ 2 * (all * q) <= 2 * (R * v) + k * all /\ q \in Int /\ v \in Int
        /\ 2 * (R * v) <= 2 * (all * q) + k * all
    BY <1>2, <2>2 DEF Within
  <2>6. Within(q + r, R * (v + x), all, k + 1)
    <3> HIDE DEF x, r, q, v
    <3>1. /\ all * (q + r) = all * q + all * r /\ R * (v + x) = R * v + R * x
          /\ (k + 1) * all = k * all + all
      BY <2>3, <2>4, <2>5
    <3>2. all * q \in Int /\ all * r \in Int /\ R * v \in Int /\ R * x \in Int /\ k * all \in Int
      BY <2>3, <2>4, <2>5
    <3> DEFINE aq == all * q
               ar == all * r
               rv == R * v
               rx == R * x
               ka == k * all
    <3>3. /\ 2 * (aq + ar) <= 2 * (rv + rx) + (ka + all)
          /\ 2 * (rv + rx) <= 2 * (aq + ar) + (ka + all)
      <4>1. /\ 2 * ar <= 2 * rx + all /\ 2 * aq <= 2 * rv + ka
            /\ 2 * rx <= 2 * ar + all /\ 2 * rv <= 2 * aq + ka
        BY <2>4, <2>5
      <4>2. aq \in Int /\ ar \in Int /\ rv \in Int /\ rx \in Int /\ ka \in Int
        BY <3>2
      <4> HIDE DEF aq, ar, rv, rx, ka
      <4> QED
        BY <4>1, <4>2
    <3> QED
      BY <3>1, <3>3 DEF Within
  <2>7. Q[k + 1] = q + r /\ W[k + 1] = v + x
    BY <2>2
  <2> HIDE DEF q, v, r, x
  <2>8. Within(Q[k + 1], R * W[k + 1], all, k + 1)
    BY <2>6, <2>7
  <2> QED
    BY <2>1, <2>8
<1> HIDE DEF S
<1>3. \A k \in 0 .. n : k \in S
  BY <1>1, <1>2, Climb
<1> QED
  BY <1>3 DEF S

(* The last line takes what the others leave: it is off its share by no     *)
(* more than they are off theirs.                                           *)
LEMMA LastShare ==
  ASSUME NEW n \in Nat, n > 0, NEW w, NEW W, Sums(w, n, W), \A i \in 1 .. n : w[i] \in Nat,
         NEW R \in Nat, W[n] > 0,
         NEW s, NEW Q, Sums(s, n, Q), \A i \in 1 .. n : s[i] = RoundDiv(R * w[i], W[n])
  PROVE  Within(R - Q[n - 1], R * w[n], W[n], n - 1)
<1> DEFINE all == W[n]
           q == Q[n - 1]
           v == W[n - 1]
           x == w[n]
           m == n - 1
<1>1. /\ n - 1 \in 0 .. n /\ n \in 1 .. n /\ n \in 0 .. n /\ all \in Int /\ q \in Int /\ v \in Int
      /\ all = v + x /\ x \in Nat
  BY DEF Sums
<1>2. all \in Nat /\ all > 0
  BY <1>1
<1>3. Within(q, R * v, all, m)
  <2> HIDE DEF all, v
  <2>1. \A i \in 1 .. n : s[i] = RoundDiv(R * w[i], all)
    BY DEF all
  <2>2. \A k \in 0 .. n : Within(Q[k], R * W[k], all, k)
    BY <1>2, <2>1, SharesRound
  <2> QED
    BY <1>1, <2>2 DEF v
<1>4. m \in Nat
  OBVIOUS
<1> HIDE DEF all, q, v, x, m
<1>5. Within(R - q, R * x, all, m)
  <2> DEFINE aq == all * q
             rv == R * v
             rx == R * x
             ma == m * all
             last == all * (R - q)
  <2>1. last = (rv + rx) - aq
    <3>1. last = all * R - aq
      BY <1>1, <1>2
    <3>2. all * R = rv + rx
      BY <1>1
    <3> QED
      BY <3>1, <3>2
  <2>2. 2 * aq <= 2 * rv + ma /\ 2 * rv <= 2 * aq + ma
    BY <1>3 DEF Within
  <2>3. aq \in Int /\ rv \in Int /\ rx \in Int /\ ma \in Int
    BY <1>1, <1>2, <1>4
  <2>4. 2 * last <= 2 * rx + ma /\ 2 * rx <= 2 * last + ma
    <3> HIDE DEF aq, rv, rx, ma, last
    <3> QED
      BY <2>1, <2>2, <2>3
  <2> QED
    BY <2>4 DEF Within
<1> QED
  BY <1>5 DEF all, q, x, m

(* Functions from 1 .. n are sequences of length n. *)
LEMMA Length ==
  ASSUME NEW n \in Nat, NEW s \in [1 .. n -> Int]
  PROVE  s \in Seq(Int) /\ Len(s) = n
<1>1. s \in Seq(Int)
  BY IsASeq
<1>2. Len(s) \in Nat /\ DOMAIN s = 1 .. Len(s)
  BY <1>1, LenProperties
<1> QED
  BY <1>1, <1>2

(* A deal that is accepted. *)
Deal(d) ==
  /\ d.price \in Nat /\ d.discount \in 0 .. 99 /\ d.term \in 1 .. 240 /\ d.start \in Int
  /\ d.escalation \in Int /\ d.escalation >= -10
  /\ d.frequency \in DOMAIN MonthsOf
  /\ \/ d.down.type = "percentage" /\ d.down.value \in {0, 33, 100}
     \/ d.down.type = "fixed" /\ d.down.value \in Nat

LEMMA Months ==
  ASSUME NEW d, Deal(d)
  PROVE  /\ IntervalMonths(d) \in {1, 3, 5, 6, 12}
         /\ NumberOfInstallments(d) \in Nat /\ NumberOfInstallments(d) > 0
<1>1. IntervalMonths(d) \in {1, 3, 5, 6, 12}
  BY DEF Deal, IntervalMonths, MonthsOf
<1>2. d.term \in Nat
  BY DEF Deal
<1>3. d.term \div IntervalMonths(d) \in Int
  BY <1>1, <1>2
<1> QED
  BY <1>1, <1>3 DEF NumberOfInstallments, Most

(* Years elapse in order. *)
Years(i, m) == ((i - 1) * m) \div 12

LEMMA YearsElapse ==
  ASSUME NEW m \in {1, 3, 5, 6, 12}, NEW n \in Nat, NEW i \in 1 .. n
  PROVE  /\ Years(i, m) \in Nat /\ Years(n, m) \in Nat /\ Years(n, m) - Years(i, m) \in Nat
         /\ Years(1, m) = 0
         /\ Years(i + 1, m) \in {Years(i, m), Years(i, m) + 1}
<1>1. CASE m = 1
  BY <1>1 DEF Years
<1>2. CASE m = 3
  BY <1>2 DEF Years
<1>3. CASE m = 5
  BY <1>3 DEF Years
<1>4. CASE m = 6
  BY <1>4 DEF Years
<1>5. CASE m = 12
  BY <1>5 DEF Years
<1> QED
  BY <1>1, <1>2, <1>3, <1>4, <1>5

(* Weights are not negative, and the first is positive. *)
LEMMA Weighted ==
  ASSUME NEW d, Deal(d), NEW n, n = NumberOfInstallments(d), NEW w, w = Weights(d)
  PROVE  /\ n \in Nat /\ n > 0 /\ DOMAIN w = 1 .. n
         /\ \A i \in 1 .. n : w[i] \in Nat
         /\ w[1] > 0
         /\ Len(w) = n /\ Escalated(d, w)
<1> DEFINE m == IntervalMonths(d)
           e == 10 + d.escalation
<1>1. n \in Nat /\ n > 0 /\ m \in {1, 3, 5, 6, 12} /\ e \in Nat
  BY Months DEF Deal
<1>2. w = [i \in 1 .. n |-> Power(e, Years(i, m)) * Power(10, Years(n, m) - Years(i, m))]
  BY Zenon DEF Weights, Years
<1> HIDE DEF m, e
<1>3. ASSUME NEW i \in 1 .. n PROVE w[i] \in Nat
  <2>1. Years(i, m) \in Nat /\ Years(n, m) - Years(i, m) \in Nat
    BY <1>1, YearsElapse
  <2>2. Power(e, Years(i, m)) \in Nat /\ Power(10, Years(n, m) - Years(i, m)) \in Nat
    BY <1>1, <2>1, Powers
  <2> QED
    BY <1>2, <2>2
<1>4. w[1] > 0
  <2>1. 1 \in 1 .. n
    BY <1>1
  <2>2. Years(1, m) = 0 /\ Years(n, m) - Years(1, m) \in Nat
    BY <1>1, <2>1, YearsElapse
  <2> DEFINE a == Power(e, Years(1, m))
             b == Power(10, Years(n, m) - Years(1, m))
  <2>3. a \in Nat /\ a > 0
    BY <1>1, <2>2, Powers
  <2>4. b \in Nat /\ b > 0
    <3> DEFINE y == Years(n, m) - Years(1, m)
    <3>1. y \in Nat
      BY <2>2
    <3> HIDE DEF y
    <3>2. Power(10, y) \in Nat /\ Power(10, y) > 0
      BY <3>1, Powers
    <3> QED
      BY <3>2 DEF y
  <2>5. w[1] = a * b
    BY <1>2, <2>1
  <2> HIDE DEF a, b
  <2> QED
    BY <2>3, <2>4, <2>5
<1>5. Len(w) = n
  <2>1. w \in [1 .. n -> Int]
    BY <1>2, <1>3
  <2> QED
    BY <1>1, <2>1, Length
<1>6. ASSUME NEW i \in 1 .. n - 1
      PROVE  IF Years(i + 1, m) = Years(i, m) THEN w[i + 1] = w[i]
             ELSE 10 * w[i + 1] = e * w[i]
  <2> DEFINE y == Years(i, m)
             z == Years(i + 1, m)
             h == Years(n, m)
  <2>1. i \in 1 .. n /\ i + 1 \in 1 .. n
    BY <1>1
  <2>2. /\ y \in Nat /\ z \in Nat /\ h - y \in Nat /\ h - z \in Nat /\ z \in {y, y + 1}
        /\ h \in Int
    <3>1. /\ Years(i, m) \in Nat /\ Years(n, m) - Years(i, m) \in Nat
          /\ Years(i + 1, m) \in {Years(i, m), Years(i, m) + 1}
      BY <1>1, <2>1, YearsElapse
    <3>2. Years(i + 1, m) \in Nat /\ Years(n, m) - Years(i + 1, m) \in Nat
      BY <1>1, <2>1, YearsElapse
    <3>3. Years(n, m) \in Nat
      BY <1>1, <2>1, YearsElapse
    <3> QED
      BY <3>1, <3>2, <3>3
  <2>3. w[i] = Power(e, y) * Power(10, h - y) /\ w[i + 1] = Power(e, z) * Power(10, h - z)
    BY <1>2, <2>1
  <2> HIDE DEF y, z, h
  <2>4. CASE z = y
    BY <2>3, <2>4 DEF y, z
  <2>5. CASE z # y
    <3>1. z = y + 1 /\ h - y = (h - z) + 1
      BY <2>2, <2>5
    <3>2. PICK l \in Nat : l = h - z
      BY <2>2
    <3>3. Power(e, z) = Power(e, y) * e /\ Power(10, h - y) = Power(10, l) * 10
      BY <1>1, <2>2, <3>1, <3>2, PowerNext
    <3>4. Power(e, y) \in Nat /\ Power(10, l) \in Nat
      BY <1>1, <2>2, Powers
    <3> DEFINE a == Power(e, y)
               b == Power(10, l)
    <3>5. w[i] = a * (b * 10) /\ w[i + 1] = (a * e) * b
      BY <2>3, <3>2, <3>3
    <3> HIDE DEF a, b
    <3>6. a \in Nat /\ b \in Nat
      BY <3>4 DEF a, b
    <3>7. 10 * ((a * e) * b) = e * (a * (b * 10))
      BY <1>1, <3>6
    <3> QED
      BY <2>5, <3>5, <3>7 DEF y, z
  <2> QED
    BY <2>4, <2>5
<1>7. Escalated(d, w)
  <2>1. ASSUME NEW i \in 1 .. n - 1
        PROVE  /\ Years(i + 1, m) = (i * m) \div 12 /\ Years(i, m) = ((i - 1) * m) \div 12
    <3>1. (i + 1) - 1 = i
      OBVIOUS
    <3> QED
      BY <3>1 DEF Years
  <2>2. \A i \in 1 .. n - 1 :
          IF (i * m) \div 12 = ((i - 1) * m) \div 12 THEN w[i + 1] = w[i]
          ELSE 10 * w[i + 1] = e * w[i]
    BY <1>6, <2>1
  <2> QED
    BY <1>5, <2>2, Zenon DEF Escalated, m, e
<1> QED
  BY <1>1, <1>2, <1>3, <1>4, <1>5, <1>7

(* The installments: all of what remains after the down payment. *)
LEMMA InstallmentsExact ==
  ASSUME NEW d, Deal(d), Remaining(d) \in Nat
  PROVE  \E k \in Nat :
           /\ Installments(d) \in [1 .. k -> Int]
           /\ Total(Installments(d)) = Remaining(d)
           /\ k > 0 => Len(Weights(d)) = k /\ Escalated(d, Weights(d))
           /\ \A i \in 1 .. k :
                Within(Installments(d)[i], Remaining(d) * Weights(d)[i], Total(Weights(d)),
                       IF i < k THEN 1 ELSE k - 1)
<1> DEFINE R == Remaining(d)
<1>1. CASE R = 0
  <2> DEFINE s == <<>>
  <2>1. Installments(d) = s
    BY <1>1 DEF Installments
  <2>2. DOMAIN s = 1 .. 0 /\ s \in [1 .. 0 -> Int] /\ \A i \in 1 .. 0 : s[i] \in Int
    OBVIOUS
  <2> HIDE DEF s
  <2>3. PICK P : Sums(s, 0, P) /\ Total(s) = P[0]
    BY <2>2, TotalSums
  <2>4. Total(s) = 0
    BY <2>3 DEF Sums
  <2>5. 0 \in Nat /\ ~ (0 > 0) /\ 1 .. 0 = {}
    OBVIOUS
  <2> QED
    BY <1>1, <2>1, <2>2, <2>4, <2>5
<1>2. CASE R # 0
  <2> DEFINE w == Weights(d)
             n == NumberOfInstallments(d)
             all == Total(w)
             s == [i \in DOMAIN w |-> RoundDiv(R * w[i], all)]
             r == RoundExactSum(s, R)
  <2>1. Installments(d) = r
    BY <1>2, Zenon DEF Installments
  <2>2. /\ n \in Nat /\ n > 0 /\ DOMAIN w = 1 .. n
        /\ \A i \in 1 .. n : w[i] \in Nat
        /\ w[1] > 0
        /\ Len(w) = n /\ Escalated(d, w)
    <3> HIDE DEF w, n
    <3> QED
      BY Weighted DEF w, n
  <2> HIDE DEF w, n
  <2>3. PICK W : Sums(w, n, W) /\ all = W[n]
    BY <2>2, TotalSums
  <2>4. all \in Nat /\ all > 0
    <3>1. 1 \in 1 .. n /\ n \in 0 .. n /\ 1 \in 0 .. n
      BY <2>2
    <3>2. W[1] = W[1 - 1] + w[1] /\ W[0] = 0 /\ W[1] \in Int /\ W[n] \in Int
      BY <2>3, <3>1 DEF Sums
    <3>3. W[1] <= W[n]
      BY <2>2, <2>3, <3>1, SumsGrow
    <3> QED
      BY <2>2, <2>3, <3>2, <3>3
  <2> HIDE DEF all
  <2>5. R \in Nat
    OBVIOUS
  <2> HIDE DEF R
  <2>6. ASSUME NEW i \in 1 .. n
        PROVE  s[i] = RoundDiv(R * w[i], all) /\ s[i] \in Nat /\ Within(s[i], R * w[i], all, 1)
    <3>1. R * w[i] \in Nat
      BY <2>2, <2>5
    <3>2. s[i] = RoundDiv(R * w[i], all)
      BY <2>2
    <3>3. PICK x \in Nat : x = R * w[i]
      BY <3>1
    <3>4. /\ RoundDiv(x, all) \in Nat
          /\ 2 * (all * RoundDiv(x, all)) <= 2 * x + all /\ 2 * x <= 2 * (all * RoundDiv(x, all)) + all
      BY <2>4, Rounding
    <3>5. 1 * all = all
      BY <2>4
    <3> HIDE DEF s
    <3> QED
      BY <3>2, <3>3, <3>4, <3>5, Zenon DEF Within
  <2>7. DOMAIN s = 1 .. n /\ s \in [1 .. n -> Int]
    BY <2>2, <2>6
  <2> HIDE DEF s
  <2>8. PICK P : Sums(s, n, P) /\ Total(s) = P[n]
    BY <2>2, <2>6, <2>7, TotalSums
  <2>9. Len(s) = n
    BY <2>2, <2>7, Length
  <2>10. P[n] \in Int /\ n \in 1 .. n
    BY <2>2, <2>8 DEF Sums
  <2>11. /\ r = [s EXCEPT ![n] = @ + R - Total(s)]
    BY <2>9 DEF RoundExactSum
  <2> HIDE DEF r
  <2>12. /\ DOMAIN r = 1 .. n /\ r[n] = s[n] + R - P[n] /\ r \in [1 .. n -> Int]
         /\ (\A i \in 1 .. n : i < n => r[i] = s[i]) /\ s[n] \in Int
    BY <2>5, <2>6, <2>7, <2>8, <2>10, <2>11
  <2>13. Total(r) = R /\ r[n] = R - P[n - 1]
    <3>1. AgreeTo(s, r, n - 1) /\ Numbers(r, n)
      BY <2>2, <2>12 DEF AgreeTo, Numbers
    <3> QED
      BY <2>2, <2>5, <2>8, <2>12, <3>1, SumsLast
  <2>14. Within(R - P[n - 1], R * w[n], all, n - 1)
    BY <2>2, <2>3, <2>4, <2>5, <2>6, <2>8, LastShare
  <2>15. ASSUME NEW i \in 1 .. n PROVE Within(r[i], R * w[i], all, IF i < n THEN 1 ELSE n - 1)
    <3>1. CASE i < n
      BY <2>6, <2>12, <3>1
    <3>2. CASE ~ (i < n)
      <4>1. i = n
        BY <2>2, <3>2
      <4> QED
        BY <2>13, <2>14, <3>2, <4>1
    <3> QED
      BY <3>1, <3>2
  <2> QED
    BY <2>1, <2>2, <2>12, <2>13, <2>15 DEF R, w, all
<1> QED
  BY <1>1, <1>2

(* The down payment is part of the price. *)
LEMMA DownPaid ==
  ASSUME NEW d, Deal(d)
  PROVE  /\ NetContractValue(d.price, d.discount) \in Nat /\ DownPayment(d) \in Nat
         /\ Remaining(d) \in Nat
         /\ Remaining(d) = NetContractValue(d.price, d.discount) - DownPayment(d)
<1> DEFINE net == NetContractValue(d.price, d.discount)
<1>1. net \in Nat
  <2>1. d.price \in Nat /\ 100 - d.discount \in Nat
    BY DEF Deal
  <2>2. d.price * (100 - d.discount) \in Nat
    BY <2>1
  <2> QED
    BY <2>2, Rounding DEF NetContractValue
<1> HIDE DEF net
<1>2. DownPayment(d) \in Nat /\ DownPayment(d) <= net
  <2>1. CASE d.down.type = "percentage"
    <3>1. DownPayment(d) = RoundDiv(net * d.down.value, 100)
      BY <2>1 DEF DownPayment, net
    <3>2. d.down.value \in {0, 33, 100}
      BY <2>1 DEF Deal
    <3>3. CASE d.down.value = 0
      BY <1>1, <3>1, <3>3 DEF RoundDiv
    <3>4. CASE d.down.value = 33
      BY <1>1, <3>1, <3>4 DEF RoundDiv
    <3>5. CASE d.down.value = 100
      BY <1>1, <3>1, <3>5 DEF RoundDiv
    <3> QED
      BY <3>2, <3>3, <3>4, <3>5
  <2>2. CASE d.down.type # "percentage"
    <3>1. DownPayment(d) = Least(d.down.value, net)
      BY <2>2 DEF DownPayment, net
    <3>2. d.down.value \in Nat
      BY <2>2 DEF Deal
    <3> QED
      BY <1>1, <3>1, <3>2 DEF Least
  <2> QED
    BY <2>1, <2>2
<1>3. Remaining(d) = net - DownPayment(d)
  BY DEF Remaining, net
<1> QED
  BY <1>1, <1>2, <1>3 DEF net

(* Months begin one after the other. *)
LEMMA DaysPass ==
  ASSUME NEW k \in Nat
  PROVE  DaysBefore(k) \in Int /\ \A j \in 0 .. k : j < k => DaysBefore(j) < DaysBefore(k)
<1> DEFINE days(n) == [m \in 1 .. n |-> DaysIn[((m - 1) % 12) + 1]]
<1>1. ASSUME NEW m \in Nat, m > 0 PROVE DaysIn[((m - 1) % 12) + 1] \in Nat /\ DaysIn[((m - 1) % 12) + 1] > 0
  <2> DEFINE i == ((m - 1) % 12) + 1
  <2>1. i \in 1 .. 12
    BY <1>1
  <2> HIDE DEF i
  <2>2. \A x \in 1 .. 12 : DaysIn[x] \in Nat /\ DaysIn[x] > 0
    BY DEF DaysIn
  <2> QED
    BY <2>1, <2>2 DEF i
<1>2. ASSUME NEW n \in Nat
      PROVE  /\ DOMAIN days(n) = 1 .. n
             /\ \A i \in 1 .. n : days(n)[i] \in Nat /\ days(n)[i] > 0 /\ days(n)[i] = DaysIn[((i - 1) % 12) + 1]
  BY <1>1
<1>3. ASSUME NEW n \in Nat PROVE DaysBefore(n) = Total(days(n))
  BY Zenon DEF DaysBefore
<1> HIDE DEF days
<1>4. ASSUME NEW n \in Nat PROVE \E P : Sums(days(n), n, P) /\ DaysBefore(n) = P[n]
  <2> DEFINE s == days(n)
  <2>1. DOMAIN s = 1 .. n /\ \A i \in 1 .. n : s[i] \in Int
    BY <1>2
  <2> HIDE DEF s
  <2>2. PICK P : Sums(s, n, P) /\ Total(s) = P[n]
    BY <2>1, TotalSums
  <2> QED
    BY <1>3, <2>2 DEF s
<1>5. PICK P : Sums(days(k), k, P) /\ DaysBefore(k) = P[k]
  BY <1>4
<1>6. P \in [0 .. k -> Int]
  BY <1>5 DEF Sums
<1>7. ASSUME NEW j \in 0 .. k, j < k PROVE DaysBefore(j) < DaysBefore(k)
  <2>1. PICK Q : Sums(days(j), j, Q) /\ DaysBefore(j) = Q[j]
    BY <1>4
  <2> DEFINE s == days(k)
             r == days(j)
  <2>2. AgreeTo(s, r, j)
    <3>1. \A i \in 1 .. j : i \in 1 .. k
      BY <1>7
    <3> QED
      BY <1>2, <3>1 DEF AgreeTo
  <2>3. \A i \in 1 .. k : s[i] \in Nat /\ s[i] > 0
    BY <1>2
  <2>4. Sums(s, k, P) /\ Sums(r, j, Q)
    BY <1>5, <2>1
  <2> HIDE DEF s, r
  <2>5. P[j] = Q[j]
    <3>1. \A i \in 0 .. j : P[i] = Q[i]
      <4>1. j \in Nat /\ j <= k /\ j <= j
        BY <1>7
      <4> QED
        BY <2>2, <2>4, <4>1, SumsAgree
    <3> QED
      BY <1>7, <3>1
  <2>6. P[j + 1] = P[j] + s[j + 1] /\ j + 1 \in 1 .. k /\ j + 1 \in 0 .. k
    <3>1. j + 1 \in 1 .. k /\ (j + 1) - 1 = j /\ j + 1 \in 0 .. k
      BY <1>7
    <3> QED
      BY <2>4, <3>1 DEF Sums
  <2>7. P[j + 1] <= P[k]
    <3> DEFINE i == j + 1
    <3>1. i \in 0 .. k /\ k \in 0 .. k /\ i <= k
      BY <1>7
    <3> HIDE DEF i
    <3>2. P[i] <= P[k]
      BY <2>3, <2>4, <3>1, SumsGrow
    <3> QED
      BY <3>2 DEF i
  <2>8. P[j] \in Int /\ P[j + 1] \in Int /\ P[k] \in Int
    BY <1>6, <2>6
  <2> QED
    BY <1>5, <2>1, <2>3, <2>5, <2>6, <2>7, <2>8
<1>8. P[k] \in Int
  BY <1>6
<1> QED
  BY <1>5, <1>7, <1>8

(* A sequence with one more in front. *)
LEMMA InFront ==
  ASSUME NEW k \in Nat, NEW s, s \in Seq(Int), Len(s) = k, NEW a \in Int,
         NEW r, r = <<a>> \o s
  PROVE  Len(r) = k + 1 /\ DOMAIN r = 1 .. k + 1 /\ r[1] = a /\ \A i \in 1 .. k : r[i + 1] = s[i]
<1> DEFINE f == <<a>>
           g == f \o s
<1>1. f \in Seq(Int) /\ Len(f) = 1 /\ f[1] = a
  OBVIOUS
<1> HIDE DEF f
<1>2. /\ g \in Seq(Int) /\ Len(g) = Len(f) + Len(s)
      /\ \A i \in 1 .. Len(f) + Len(s) : g[i] = IF i <= Len(f) THEN f[i] ELSE s[i - Len(f)]
  BY <1>1, ConcatProperties
<1>3. Len(g) \in Nat /\ DOMAIN g = 1 .. Len(g)
  BY <1>2, LenProperties
<1> HIDE DEF g
<1>4. Len(g) = k + 1
  BY <1>1, <1>2
<1>5. g[1] = a
  <2>1. 1 \in 1 .. Len(f) + Len(s) /\ 1 <= Len(f)
    BY <1>1
  <2> QED
    BY <1>1, <1>2, <2>1
<1>6. ASSUME NEW i \in 1 .. k PROVE g[i + 1] = s[i]
  <2>1. i + 1 \in 1 .. Len(f) + Len(s) /\ ~ (i + 1 <= Len(f)) /\ (i + 1) - Len(f) = i
    BY <1>1
  <2> QED
    BY <1>2, <2>1
<1> QED
  <2>1. r = g
    BY DEF f, g
  <2> QED
    BY <1>3, <1>4, <1>5, <1>6, <2>1

(* The schedule of a deal. *)
LEMMA Generated ==
  ASSUME NEW d, Deal(d), NEW s, s = GenerateSchedule(d)
  PROVE  LET amounts == s.amounts
             n == Len(amounts) - 1
             w == Weights(d)
             net == NetContractValue(d.price, d.discount)
         IN  /\ Total(amounts) = net
             /\ amounts[1] \in 0 .. net
             /\ n > 0 => Len(w) = n /\ Escalated(d, w)
             /\ \A i \in 1 .. n :
                  Within(amounts[i + 1], Remaining(d) * w[i], Total(w), IF i < n THEN 1 ELSE n - 1)
             /\ \A i \in 1 .. n : s.dates[i] < s.dates[i + 1]
<1> DEFINE down == DownPayment(d)
           rest == Installments(d)
           a == <<down>> \o rest
           m == IntervalMonths(d)
<1>1. /\ NetContractValue(d.price, d.discount) \in Nat /\ down \in Nat /\ Remaining(d) \in Nat
      /\ Remaining(d) = NetContractValue(d.price, d.discount) - down
  BY DownPaid
<1>2. s.amounts = a /\ s.dates = DueDates(d)
  BY DEF GenerateSchedule
<1>3. PICK k \in Nat :
        /\ rest \in [1 .. k -> Int]
        /\ Total(rest) = Remaining(d)
        /\ k > 0 => Len(Weights(d)) = k /\ Escalated(d, Weights(d))
        /\ \A i \in 1 .. k :
             Within(rest[i], Remaining(d) * Weights(d)[i], Total(Weights(d)),
                    IF i < k THEN 1 ELSE k - 1)
  BY <1>1, InstallmentsExact
<1> HIDE DEF rest, down, m
<1>4. rest \in Seq(Int) /\ Len(rest) = k
  BY <1>3, Length
<1>5. /\ Len(a) = k + 1 /\ DOMAIN a = 1 .. k + 1 /\ a[1] = down
      /\ \A i \in 1 .. k : a[i + 1] = rest[i]
  <2>1. down \in Int
    BY <1>1
  <2>2. PICK x, t, r : x = down /\ t = rest /\ r = a
    OBVIOUS
  <2>3. t \in Seq(Int) /\ Len(t) = k /\ x \in Int /\ r = <<x>> \o t
    BY <1>4, <2>1, <2>2, Zenon
  <2>4. Len(r) = k + 1 /\ DOMAIN r = 1 .. k + 1 /\ r[1] = x /\ \A i \in 1 .. k : r[i + 1] = t[i]
    BY <2>3, InFront
  <2> QED
    BY <2>2, <2>4, Zenon
<1> HIDE DEF a
<1>6. Total(a) = NetContractValue(d.price, d.discount)
  <2>1. \A i \in 1 .. k : rest[i] \in Int /\ a[i + 1] = rest[i]
    BY <1>3, <1>5
  <2>2. DOMAIN rest = 1 .. k /\ down \in Int
    BY <1>1, <1>3
  <2>3. Total(a) = down + Total(rest) /\ Total(rest) \in Int
    BY <1>5, <2>1, <2>2, TotalFront
  <2> QED
    BY <1>1, <1>3, <2>3
<1>7. a[1] \in 0 .. NetContractValue(d.price, d.discount)
  BY <1>1, <1>5
<1>8. ASSUME NEW i \in 1 .. k
      PROVE  Within(a[i + 1], Remaining(d) * Weights(d)[i], Total(Weights(d)), IF i < k THEN 1 ELSE k - 1)
  BY <1>3, <1>5
<1>9. ASSUME NEW i \in 1 .. k PROVE s.dates[i] < s.dates[i + 1]
  <2> DEFINE later == [j \in 1 .. k |-> AddMonths(d.start, j * m)]
             f == <<d.start>> \o later
  <2>1. s.dates = f
    BY <1>2, <1>4 DEF DueDates, rest, m
  <2>2. m \in {1, 3, 5, 6, 12} /\ d.start \in Int
    BY Months DEF Deal, m
  <2>3. ASSUME NEW j \in Nat PROVE j * m \in Nat /\ DaysBefore(j * m) \in Int
    <3>1. j * m \in Nat
      BY <2>2
    <3> QED
      BY <3>1, DaysPass
  <2>4. ASSUME NEW j \in Nat PROVE DaysBefore(j * m) < DaysBefore((j + 1) * m)
    <3> DEFINE x == j * m
               y == (j + 1) * m
    <3>1. x \in 0 .. y /\ x < y /\ y \in Nat
      BY <2>2
    <3> HIDE DEF x, y
    <3>2. DaysBefore(x) < DaysBefore(y)
      BY <3>1, DaysPass
    <3> QED
      BY <3>2 DEF x, y
  <2>5. ASSUME NEW j \in 1 .. k PROVE later[j] = DaysBefore(j * m) + d.start /\ later[j] \in Int
    <3>1. j \in Nat
      OBVIOUS
    <3>2. later[j] = AddMonths(d.start, j * m)
      OBVIOUS
    <3>3. AddMonths(d.start, j * m) = DaysBefore(j * m) + d.start
      BY Zenon DEF AddMonths
    <3> DEFINE x == DaysBefore(j * m)
    <3>4. x \in Int
      BY <2>3, <3>1
    <3>5. later[j] = x + d.start
      BY <3>2, <3>3, Zenon
    <3> HIDE DEF x, later
    <3>6. x + d.start \in Int
      BY <2>2, <3>4
    <3> QED
      BY <3>5, <3>6, Zenon DEF x
  <2>6. later \in [1 .. k -> Int]
    BY <2>5
  <2> HIDE DEF later
  <2>7. later \in Seq(Int) /\ Len(later) = k
    BY <2>6, Length
  <2>8. f[1] = d.start /\ \A j \in 1 .. k : f[j + 1] = later[j]
    BY <2>2, <2>7, InFront
  <2> HIDE DEF f
  <2>9. s.dates[i + 1] = DaysBefore(i * m) + d.start
    BY <2>1, <2>5, <2>8
  <2>10. i - 1 \in Nat /\ (i - 1) + 1 = i /\ i \in Nat
    OBVIOUS
  <2>11. DaysBefore((i - 1) * m) < DaysBefore(i * m)
    BY <2>4, <2>10
  <2>12. DaysBefore((i - 1) * m) \in Int /\ DaysBefore(i * m) \in Int
    BY <2>3, <2>10
  <2>13. s.dates[i] = DaysBefore((i - 1) * m) + d.start
    <3>1. CASE i = 1
      <4>1. 1 \in 1 .. 1 + k /\ (1 - 1) * m = 0
        BY <2>2
      <4>2. DaysBefore(0) = 0
        <5> DEFINE z == [x \in 1 .. 0 |-> DaysIn[((x - 1) % 12) + 1]]
        <5>1. DOMAIN z = 1 .. 0 /\ \A x \in 1 .. 0 : z[x] \in Int
          OBVIOUS
        <5>2. DaysBefore(0) = Total(z)
          BY Zenon DEF DaysBefore
        <5> HIDE DEF z
        <5>3. PICK P : Sums(z, 0, P) /\ Total(z) = P[0]
          BY <5>1, TotalSums
        <5> QED
          BY <5>2, <5>3 DEF Sums
      <4> QED
        BY <2>1, <2>2, <2>8, <3>1, <4>1, <4>2
    <3>2. CASE i # 1
      <4>1. i - 1 \in 1 .. k /\ (i - 1) + 1 = i
        BY <3>2
      <4>2. f[(i - 1) + 1] = later[i - 1] /\ later[i - 1] = DaysBefore((i - 1) * m) + d.start
        BY <2>5, <2>8, <4>1
      <4> QED
        BY <2>1, <4>1, <4>2
    <3> QED
      BY <3>1, <3>2
  <2> QED
    BY <2>2, <2>9, <2>11, <2>12, <2>13
<1> QED
  <2>1. (k + 1) - 1 = k
    OBVIOUS
  <2>2. Len(s.amounts) - 1 = k
    BY <1>2, <1>5, <2>1
  <2> QED
    BY <1>2, <1>3, <1>6, <1>7, <1>8, <1>9, <2>2, Zenon

Scheduled == /\ sample.of = "schedule" => Deal(sample)
             /\ sample.of = "schedule" /\ answer # None => answer = GenerateSchedule(sample)

(* The lines of every schedule add up to the net value of the contract to   *)
(* the cent; each installment but the last is within half a cent of its     *)
(* share, which grows by the escalation every year, and the last is off by  *)
(* no more than all the others; and each is due after the one before: for   *)
(* any prices, discounts, terms, days and escalations                       *)
(* (schedule-generator.ts:38-53, 90-154).                                   *)
THEOREM SchedulesExact == SchedulesSpec => []ScheduleExact
<1>1. SchedulesInit => Scheduled
  <2> SUFFICES ASSUME SchedulesInit PROVE Scheduled
    OBVIOUS
  <2>1. sample \in Deals /\ Accepted(sample) /\ answer = None
    BY DEF SchedulesInit, Given
  <2>2. Deal(sample)
    <3>1. /\ sample.price \in Prices /\ sample.discount \in Discounts /\ sample.term \in Terms
          /\ sample.escalation \in Escalations /\ sample.frequency \in DOMAIN MonthsOf
          /\ sample.start \in StartDays
      BY <2>1 DEF Deals
    <3>2. \/ \E v \in {0, 33, 100} : sample.down = [type |-> "percentage", value |-> v]
          \/ \E v \in {0, 50, 100000} : sample.down = [type |-> "fixed", value |-> v]
      <4> DEFINE D == {[type |-> "percentage", value |-> v] : v \in {0, 33, 100}}
                        \cup {[type |-> "fixed", value |-> v] : v \in {0, 50, 100000}}
      <4>1. Deals = [of : {"schedule"}, price : Prices, discount : Discounts,
                     escalation : Escalations, frequency : DOMAIN MonthsOf, term : Terms,
                     start : StartDays, down : D]
        BY DEF Deals
      <4>2. sample.down \in D
        <5> HIDE DEF D
        <5> QED
          BY <2>1, <4>1
      <4> QED
        BY <4>2
    <3>3. \/ sample.down.type = "percentage" /\ sample.down.value \in {0, 33, 100}
          \/ sample.down.type = "fixed" /\ sample.down.value \in Nat
      BY <3>2
    <3>4. /\ sample.price \in Int /\ sample.discount \in Int /\ sample.term \in Int
          /\ sample.start \in Int /\ sample.escalation \in Int /\ sample.escalation >= -10
      BY <3>1, SchedulesAssumption
    <3>5. sample.price > 0 /\ sample.discount \in 0 .. 99 /\ sample.term \in 1 .. 240
      BY <2>1 DEF Accepted
    <3> QED
      BY <3>1, <3>3, <3>4, <3>5 DEF Deal
  <2> QED
    BY <2>1, <2>2 DEF Scheduled
<1>2. Scheduled /\ [Schedule]_sampleVars => Scheduled'
  <2> SUFFICES ASSUME Scheduled, [Schedule]_sampleVars PROVE Scheduled'
    OBVIOUS
  <2>1. CASE Schedule
    BY <2>1 DEF Schedule, Answer, Scheduled, Deal
  <2>2. CASE UNCHANGED sampleVars
    BY <2>2 DEF sampleVars, Scheduled, Deal
  <2> QED
    BY <2>1, <2>2
<1>3. Scheduled => ScheduleExact
  <2> SUFFICES ASSUME Scheduled, sample.of = "schedule", answer # None PROVE ScheduleExact
    BY DEF ScheduleExact, Answered
  <2>1. Deal(sample) /\ answer = GenerateSchedule(sample)
    BY DEF Scheduled
  <2> QED
    BY <2>1, Generated, Zenon DEF ScheduleExact
<1> QED
  BY <1>1, <1>2, <1>3, PTL DEF SchedulesSpec
-----------------------------------------------------------------------------
(* The imports. *)

(* What the state of an import consists of. *)
ImportStatus == {"uploaded", "extracted", "mapped", "reviewed", "rejected", "confirmed", "imported"}
Session == [rows : Files, status : ImportStatus, mapped : BOOLEAN, creates : BOOLEAN]
Item == [made : Nat, status : {None, "available", "reserved"}, project : Names \cup {None}, amount : Int]
PlanRow == [key : Keys, project : Names, amount : Int, pending : BOOLEAN, update : BOOLEAN]
ImportCalls ==
  {Rest} \cup [pc : {"stamp", "mark"}, new : Session]
    \cup [pc : {"evaluate"}, copy : Session, creates : BOOLEAN]
    \cup [pc : {"rows"}, copy : Session, plan : Seq(PlanRow), created : SUBSET Names, wrote : BOOLEAN]
    \cup [pc : {"save"}, copy : Session, plan : Seq(PlanRow), created : SUBSET Names,
          wrote : BOOLEAN, unit : Item]

ImportTypes ==
  /\ target \in ImportTargetType \cup {"document"}
  /\ session \in Session
  /\ items \in [Keys -> Item]
  /\ projects \in [Names -> Nat]
  /\ importCall \in [Callers -> ImportCalls]
  /\ confirms \in Nat /\ reviews \in Nat /\ written \in Nat
  /\ agreed \in [Keys -> Int]

ForUnits == target \in {"inventory_unit", "document"}
RowOf(c) == Head(c.plan)
Rowwise(c) == c.pc \in {"rows", "save"}
Writes(c) == c.pc \in {"evaluate", "rows", "save", "mark"}

(* What is about to be saved over a unit was available, and the unit is not *)
(* reserved unless it was since it was read.                                *)
SavePriced(c) ==
  c.pc = "save" =>
    /\ ForUnits /\ c.plan # <<>>
    /\ RowOf(c).update => c.unit.status = "available" /\ c.unit.made > 0
    /\ ~ torn => items[RowOf(c).key].status # "reserved"

Priced ==
  /\ \A k \in Keys : (items[k].made = 0 \/ ~ ForUnits) => items[k].status = None
  /\ ~ torn => \A k \in Keys : items[k].status = "reserved" => items[k].amount = agreed[k]
  /\ \A w \in Callers : SavePriced(importCall[w])

(* A confirmation pays an installment at most once: its rows are of         *)
(* different installments, and each payment of it has used up one of the    *)
(* confirmations begun.                                                     *)
Apart(plan) == \A i, j \in DOMAIN plan : plan[i].key = plan[j].key => i = j
RowsApart(c) == target \in {"lead", "payment"} /\ c.pc = "rows" => Apart(c.plan)
Owes(c, k) == c.pc = "evaluate" \/ (c.pc = "rows" /\ \E i \in DOMAIN c.plan : c.plan[i].key = k)
DueOn(k) == {w \in Callers : Owes(importCall[w], k)}
Afforded(k) == IsFiniteSet(DueOn(k)) /\ items[k].made + Cardinality(DueOn(k)) <= confirms

PaidOnce ==
  /\ \A w \in Callers : RowsApart(importCall[w])
  /\ target = "lead" => \A k \in Keys : items[k].made <= 1
  /\ target = "payment" => \A k \in Keys : items[k].amount <= Owed /\ Afforded(k)

(* A confirmation on its own finds what it evaluated as it was. *)
StillMissing(c) ==
  Rowwise(c) =>
    \A i \in DOMAIN c.plan :
      c.plan[i].pending /\ c.plan[i].project \notin c.created => projects[c.plan[i].project] = 0
StillFree(c) ==
  c.pc = "save" => IF RowOf(c).update THEN c.unit.made <= 1 ELSE items[RowOf(c).key].made = 0

WrittenAlone ==
  ~ overlapped =>
     /\ \A v, w \in Callers : Writes(importCall[v]) /\ Writes(importCall[w]) => v = w
     /\ target # "payment" => \A k \in Keys : items[k].made <= 1
     /\ \A n \in Names : projects[n] <= 1
     /\ \A w \in Callers : StillMissing(importCall[w]) /\ StillFree(importCall[w])

(* A document has one row, and who has yet to write it read the document    *)
(* after the review that allows it.                                         *)
OneRow(s) == Len(s.rows) = 1
YetToWrite(c) == c.pc = "evaluate" \/ (Rowwise(c) /\ ~ c.wrote)
RowOnce(c) ==
  /\ c.pc \in {"stamp", "mark"} => OneRow(c.new)
  /\ c.pc = "mark" => c.new.status = "imported"
  /\ c.pc \in {"evaluate", "rows", "save"} => OneRow(c.copy)
  /\ Rowwise(c) => Len(c.plan) <= 1
  /\ Rowwise(c) /\ c.wrote => c.plan = <<>>

Reviewed == \A w \in Callers : YetToWrite(importCall[w]) => written <= reviews
Resting == \A w \in Callers : ~ Writes(importCall[w])
Documented ==
  /\ target # "document" => written = 0
  /\ target = "document" =>
       /\ OneRow(session)
       /\ \A w \in Callers : RowOnce(importCall[w])
       /\ ~ overlapped =>
            /\ written <= 1 + reviews
            /\ Reviewed
            /\ session.status \in {"extracted", "reviewed"} /\ Resting => written <= reviews

ImportInv == ImportTypes /\ Priced /\ PaidOnce /\ WrittenAlone /\ Documented
-----------------------------------------------------------------------------
LEMMA RowTypes ==
  /\ \A file \in Files : file \in Seq(Rows)
  /\ \A row \in Rows : row.key \in Keys /\ row.project \in Names /\ row.amount \in Int
<1>1. ASSUME NEW file \in Files PROVE file \in Seq(Rows)
  <2>1. file \in Seq(Range(file)) /\ Range(file) \subseteq Rows
    BY ImportsAssumption DEF Rows
  <2> QED
    BY <2>1, SeqMonotonic, Zenon
<1>2. ASSUME NEW row \in Rows PROVE row.key \in Keys /\ row.project \in Names /\ row.amount \in Int
  BY ImportsAssumption DEF Keys, Names
<1> QED
  BY <1>1, <1>2

GoodPlans ==
  {plan \in Seq(PlanRow) :
     /\ target \in {"lead", "payment"} => Apart(plan)
     /\ \A i \in DOMAIN plan : plan[i].pending => projects[plan[i].project] = 0}

(* A row that fits may be added to a plan. *)
LEMMA FitAdded ==
  ASSUME ImportTypes, NEW row \in Rows, NEW plan \in GoodPlans, NEW creates, Fits(row, plan, creates)
  PROVE  Append(plan, Planned(row)) \in GoodPlans
<1> DEFINE p == Planned(row)
           q == Append(plan, p)
<1>1. /\ p \in PlanRow /\ p.key = row.key
      /\ p.pending => projects[p.project] = 0
  <2>1. row.key \in Keys /\ row.project \in Names /\ row.amount \in Int
    BY RowTypes
  <2>2. projects[row.project] \in Nat
    BY <2>1 DEF ImportTypes
  <2>3. Known(row) \in BOOLEAN /\ Existing(row) \in BOOLEAN
    BY DEF Known, Existing
  <2>4. ~ Known(row) => projects[row.project] = 0
    BY <2>2 DEF Known
  <2> DEFINE pends == ~ Known(row)
             updates == Known(row) /\ Existing(row)
  <2>5. /\ p = [key |-> row.key, project |-> row.project, amount |-> row.amount, pending |-> pends,
                update |-> updates]
        /\ pends \in BOOLEAN /\ updates \in BOOLEAN /\ (pends => projects[row.project] = 0)
    BY <2>3, <2>4, Zenon DEF Planned
  <2> HIDE DEF pends, updates
  <2> QED
    BY <2>1, <2>5 DEF PlanRow
<1> HIDE DEF p
<1>2. plan \in Seq(PlanRow)
  BY DEF GoodPlans
<1>3. /\ q \in Seq(PlanRow) /\ Len(plan) \in Nat /\ DOMAIN plan = 1 .. Len(plan)
      /\ DOMAIN q = 1 .. Len(plan) + 1
      /\ \A i \in 1 .. Len(plan) : q[i] = plan[i]
      /\ q[Len(plan) + 1] = p
  BY <1>1, <1>2, AppendProperties, LenProperties
<1> DEFINE n == Len(plan)
<1>4. ASSUME target \in {"lead", "payment"} PROVE Apart(q)
  <2>1. Apart(plan) /\ \A i \in DOMAIN plan : plan[i].key # row.key
    BY <1>4 DEF GoodPlans, Fits, Claimed
  <2>2. ASSUME NEW i \in 1 .. n + 1, NEW j \in 1 .. n + 1, q[i].key = q[j].key PROVE i = j
    <3>1. CASE i = n + 1
      BY <1>1, <1>3, <2>1, <2>2, <3>1
    <3>2. CASE j = n + 1
      BY <1>1, <1>3, <2>1, <2>2, <3>2
    <3>3. CASE i # n + 1 /\ j # n + 1
      <4>1. i \in 1 .. n /\ j \in 1 .. n
        BY <1>3, <3>3
      <4> QED
        BY <1>3, <2>1, <2>2, <4>1 DEF Apart
    <3> QED
      BY <3>1, <3>2, <3>3
  <2> QED
    BY <1>3, <2>2 DEF Apart
<1>5. ASSUME NEW i \in DOMAIN q, q[i].pending PROVE projects[q[i].project] = 0
  <2>1. CASE i = n + 1
    BY <1>1, <1>3, <1>5, <2>1
  <2>2. CASE i \in 1 .. n
    BY <1>3, <1>5, <2>2 DEF GoodPlans
  <2> QED
    BY <1>3, <2>1, <2>2
<1> QED
  BY <1>3, <1>4, <1>5 DEF GoodPlans, p

(* What a file is evaluated to. *)
LEMMA Evaluated ==
  ASSUME ImportTypes, NEW rows \in Seq(Rows), NEW creates
  PROVE  /\ Plan(rows, creates) \in GoodPlans
         /\ Len(rows) = 1 => Len(Plan(rows, creates)) <= 1
<1> DEFINE n == Len(rows)
           T == GoodPlans
           add(i, p) == IF Fits(rows[i], p, creates) THEN Append(p, Planned(rows[i])) ELSE p
           step == [i \in 1 .. n |-> [p \in T |-> add(i, p)]]
<1>1. n \in Nat /\ DOMAIN rows = 1 .. n /\ \A i \in 1 .. n : rows[i] \in Rows
  BY LenProperties, ElementOfSeq
<1>2. << >> \in T
  <2>1. << >> \in Seq(PlanRow) /\ DOMAIN << >> = {}
    OBVIOUS
  <2> QED
    BY <2>1 DEF GoodPlans, Apart
<1>3. ASSUME NEW i \in 1 .. n, NEW p \in T PROVE add(i, p) \in T
  BY <1>1, FitAdded
<1>4. step \in [1 .. n -> [T -> T]]
  <2> HIDE DEF add, T
  <2> QED
    BY <1>3
<1>5. PICK F : PrefixFolded(n, T, << >>, step, F)
  <2> HIDE DEF step, T
  <2> QED
    BY <1>1, <1>2, <1>4, PrefixFold
<1>6. /\ F \in [SUBSET (1 .. n) -> T]
      /\ F = [U \in SUBSET (1 .. n) |-> IF U = {} THEN << >> ELSE step[Max(U)][F[U \ {Max(U)}]]]
      /\ F[1 .. 0] = << >>
      /\ \A i \in 1 .. n : F[1 .. i] = step[i][F[1 .. i - 1]]
  <2> HIDE DEF step, T
  <2> QED
    BY <1>5, Zenon DEF PrefixFolded
<1> DEFINE H == [U \in SUBSET (1 .. n) |-> IF U = {} THEN << >> ELSE add(Max(U), F[U \ {Max(U)}])]
<1>7. ASSUME NEW U \in SUBSET (1 .. n) PROVE F[U] = H[U]
  <2>1. CASE U = {}
    BY <1>6, <2>1, Zenon
  <2>2. CASE U # {}
    <3>1. Max(U) \in U
      <4>1. U \subseteq 0 .. n
        OBVIOUS
      <4> QED
        BY <1>1, <2>2, <4>1, Maximum
    <3> DEFINE m == Max(U)
    <3> HIDE DEF add, T
    <3>2. F[U] = step[m][F[U \ {m}]] /\ H[U] = add(m, F[U \ {m}])
      BY <1>6, <2>2, Zenon
    <3>3. U \ {m} \in SUBSET (1 .. n) /\ m \in 1 .. n
      BY <3>1
    <3> HIDE DEF m
    <3>4. F[U \ {m}] \in T
      <4> HIDE DEF step
      <4> QED
        BY <1>6, <3>3
    <3>5. step[m][F[U \ {m}]] = add(m, F[U \ {m}])
      BY <3>3, <3>4
    <3> QED
      BY <3>2, <3>5, Zenon
  <2> QED
    BY <2>1, <2>2
<1>8. F = H
  <2> HIDE DEF step, T
  <2>1. F = [U \in SUBSET (1 .. n) |-> F[U]]
    BY <1>6
  <2> QED
    BY <1>7, <2>1
<1> DEFINE G == CHOOSE X : X = [U \in SUBSET DOMAIN rows |->
                     IF U = {} THEN << >>
                     ELSE IF Fits(rows[Max(U)], X[U \ {Max(U)}], creates)
                            THEN Append(X[U \ {Max(U)}], Planned(rows[Max(U)]))
                            ELSE X[U \ {Max(U)}]]
<1>9. Plan(rows, creates) = G[1 .. n]
  <2>1. Plan(rows, creates) = G[DOMAIN rows]
    BY Zenon DEF Plan, FoldLeft, MapThenFoldSet
  <2> QED
    BY <1>1, <2>1, Zenon
<1>10. G = [U \in SUBSET (1 .. n) |-> IF U = {} THEN << >> ELSE add(Max(U), G[U \ {Max(U)}])]
  <2>1. F = [U \in SUBSET DOMAIN rows |->
                     IF U = {} THEN << >>
                     ELSE IF Fits(rows[Max(U)], F[U \ {Max(U)}], creates)
                            THEN Append(F[U \ {Max(U)}], Planned(rows[Max(U)]))
                            ELSE F[U \ {Max(U)}]]
    BY <1>1, <1>8, Zenon
  <2>2. G = [U \in SUBSET DOMAIN rows |->
                     IF U = {} THEN << >>
                     ELSE IF Fits(rows[Max(U)], G[U \ {Max(U)}], creates)
                            THEN Append(G[U \ {Max(U)}], Planned(rows[Max(U)]))
                            ELSE G[U \ {Max(U)}]]
    BY <2>1, Zenon
  <2> QED
    BY <1>1, <2>2, Zenon
<1>11. G[1 .. n] = F[1 .. n]
  <2> HIDE DEF add, T
  <2>1. G[{}] = << >>
    BY <1>10, Zenon
  <2>2. ASSUME NEW U \in SUBSET (1 .. n), U # {}, G[U \ {Max(U)}] \in T
        PROVE  G[U] = step[Max(U)][G[U \ {Max(U)}]]
    <3> DEFINE m == Max(U)
               x == G[U \ {m}]
    <3>1. G[U] = add(m, x)
      BY <1>10, <2>2, Zenon
    <3>2. m \in U
      <4>1. U \subseteq 0 .. n
        OBVIOUS
      <4> QED
        BY <1>1, <2>2, <4>1, Maximum
    <3>3. x \in T /\ m \in 1 .. n
      BY <2>2, <3>2
    <3> HIDE DEF x, m, G
    <3>4. step[m][x] = add(m, x)
      BY <3>3
    <3> QED
      BY <3>1, <3>4 DEF x, m
  <2>3. SameSteps(n, T, << >>, step, G)
    BY <2>1, <2>2, Zenon DEF SameSteps
  <2> HIDE DEF G, step
  <2>5. PICK g, t, z : g = G /\ t = step /\ z = << >>
    OBVIOUS
  <2>6. n \in Nat /\ z \in T /\ SameSteps(n, T, z, t, g) /\ PrefixFolded(n, T, z, t, F)
    BY <1>1, <1>2, <1>5, <2>3, <2>5, Zenon
  <2>7. g[1 .. n] = F[1 .. n]
    BY <2>6, PrefixSame
  <2> QED
    BY <2>5, <2>7, Zenon
<1>12. F[1 .. n] \in T
  <2>1. 1 .. n \in SUBSET (1 .. n)
    OBVIOUS
  <2> HIDE DEF T, step
  <2> QED
    BY <1>6, <2>1
<1>13. ASSUME n = 1 PROVE Len(F[1 .. n]) <= 1
  <2>1. F[1 .. 1] = step[1][<< >>]
    BY <1>6, <1>13
  <2>2. step[1][<< >>] = add(1, << >>)
    <3> HIDE DEF T, add
    <3> QED
      BY <1>2, <1>13
  <2>3. Len(Append(<< >>, Planned(rows[1]))) = 1 /\ Len(<< >>) = 0
    OBVIOUS
  <2> HIDE DEF step
  <2>4. CASE Fits(rows[1], << >>, creates)
    BY <1>13, <2>1, <2>2, <2>3, <2>4
  <2>5. CASE ~ Fits(rows[1], << >>, creates)
    BY <1>13, <2>1, <2>2, <2>3, <2>5
  <2> QED
    BY <2>4, <2>5
<1> QED
  BY <1>9, <1>11, <1>12, <1>13, Zenon
-----------------------------------------------------------------------------
LEMMA Calls ==
  ASSUME NEW c \in ImportCalls
  PROVE  /\ c.pc \in {"idle", "stamp", "mark", "evaluate", "rows", "save"}
         /\ c.pc = "idle" => c = Rest
         /\ c.pc \in {"stamp", "mark"} => c.new \in Session
         /\ c.pc = "evaluate" => c.copy \in Session /\ c.creates \in BOOLEAN
         /\ Rowwise(c) => /\ c.copy \in Session /\ c.plan \in Seq(PlanRow)
                         /\ c.created \subseteq Names /\ c.wrote \in BOOLEAN
         /\ c.pc = "save" => c.unit \in Item
         /\ c.pc = "rows" =>
              c = [pc |-> "rows", copy |-> c.copy, plan |-> c.plan, created |-> c.created, wrote |-> c.wrote]
<1> DEFINE Plans == Seq(PlanRow)
           Created == SUBSET Names
           Sessions == Session
           Units == Item
<1>1. c = Rest \/ c \in [pc : {"stamp", "mark"}, new : Sessions]
        \/ c \in [pc : {"evaluate"}, copy : Sessions, creates : BOOLEAN]
        \/ c \in [pc : {"rows"}, copy : Sessions, plan : Plans, created : Created, wrote : BOOLEAN]
        \/ c \in [pc : {"save"}, copy : Sessions, plan : Plans, created : Created, wrote : BOOLEAN, unit : Units]
  BY DEF ImportCalls
<1> HIDE DEF Plans, Sessions, Units, Created
<1>2. /\ c.pc \in {"idle", "stamp", "mark", "evaluate", "rows", "save"}
      /\ c.pc = "idle" => c = Rest
      /\ c.pc \in {"stamp", "mark"} => c.new \in Sessions
      /\ c.pc = "evaluate" => c.copy \in Sessions /\ c.creates \in BOOLEAN
      /\ Rowwise(c) => c.copy \in Sessions /\ c.plan \in Plans /\ c.created \in Created /\ c.wrote \in BOOLEAN
      /\ c.pc = "save" => c.unit \in Units
      /\ c.pc = "rows" =>
           c = [pc |-> "rows", copy |-> c.copy, plan |-> c.plan, created |-> c.created, wrote |-> c.wrote]
  BY <1>1 DEF Rest, Rowwise
<1> QED
  BY <1>2, Zenon DEF Plans, Sessions, Units, Created

LEMMA RowCalls ==
  ASSUME NEW copy \in Session, NEW plan \in Seq(PlanRow), NEW created \in SUBSET Names, NEW wrote \in BOOLEAN
  PROVE  /\ InRows(copy, plan, created, wrote) \in ImportCalls
         /\ \A unit \in Item : [pc |-> "save", copy |-> copy, plan |-> plan, created |-> created,
                                wrote |-> wrote, unit |-> unit] \in ImportCalls
<1> DEFINE Plans == Seq(PlanRow)
           Created == SUBSET Names
           Sessions == Session
           Units == Item
<1>1. copy \in Sessions /\ plan \in Plans /\ created \in Created
  OBVIOUS
<1> HIDE DEF Plans, Sessions, Units, Created
<1>2. InRows(copy, plan, created, wrote)
        \in [pc : {"rows"}, copy : Sessions, plan : Plans, created : Created, wrote : BOOLEAN]
  BY <1>1 DEF InRows
<1>3. \A unit \in Units :
        [pc |-> "save", copy |-> copy, plan |-> plan, created |-> created, wrote |-> wrote, unit |-> unit]
          \in [pc : {"save"}, copy : Sessions, plan : Plans, created : Created, wrote : BOOLEAN, unit : Units]
  BY <1>1
<1> QED
  BY <1>2, <1>3, Zenon DEF ImportCalls, Plans, Sessions, Units, Created

(* What is left of a plan once its first row is done. *)
LEMMA HeadAndTail ==
  ASSUME NEW plan \in Seq(PlanRow), plan # << >>
  PROVE  /\ Head(plan) \in PlanRow /\ Head(plan) = plan[1] /\ 1 \in DOMAIN plan
         /\ Tail(plan) \in Seq(PlanRow)
         /\ \A i \in DOMAIN Tail(plan) : i + 1 \in DOMAIN plan /\ Tail(plan)[i] = plan[i + 1] /\ i + 1 # 1
         /\ Len(plan) <= 1 => Tail(plan) = << >>
         /\ Apart(plan) => /\ Apart(Tail(plan))
                           /\ \A i \in DOMAIN Tail(plan) : Tail(plan)[i].key # Head(plan).key
<1>1. /\ Head(plan) \in PlanRow /\ Head(plan) = plan[1] /\ Tail(plan) \in Seq(PlanRow)
      /\ Len(Tail(plan)) = Len(plan) - 1 /\ Len(plan) \in Nat /\ Len(plan) # 0
      /\ \A i \in 1 .. Len(Tail(plan)) : Tail(plan)[i] = plan[i + 1]
      /\ DOMAIN plan = 1 .. Len(plan) /\ DOMAIN Tail(plan) = 1 .. Len(Tail(plan))
  BY HeadTailProperties, LenProperties, EmptySeq
<1> DEFINE n == Len(plan)
           t == Tail(plan)
<1>2. /\ \A i \in DOMAIN t : i \in Int /\ i + 1 \in DOMAIN plan /\ t[i] = plan[i + 1] /\ i + 1 # 1
      /\ 1 \in DOMAIN plan
  <2> HIDE DEF t
  <2> QED
    BY <1>1 DEF t
<1>3. Len(plan) <= 1 => Tail(plan) = << >>
  BY <1>1, EmptySeq
<1>4. ASSUME Apart(plan) PROVE Apart(t) /\ \A i \in DOMAIN t : t[i].key # Head(plan).key
  <2> HIDE DEF t
  <2>1. ASSUME NEW i \in DOMAIN t, NEW j \in DOMAIN t, t[i].key = t[j].key PROVE i = j
    <3>1. i + 1 = j + 1
      BY <1>2, <1>4, <2>1 DEF Apart
    <3> QED
      BY <1>2, <3>1
  <2>2. ASSUME NEW i \in DOMAIN t, t[i].key = Head(plan).key PROVE FALSE
    <3>1. i + 1 = 1
      BY <1>1, <1>2, <1>4, <2>2 DEF Apart
    <3> QED
      BY <1>2, <3>1
  <2> QED
    BY <2>1, <2>2 DEF Apart
<1> QED
  BY <1>1, <1>2, <1>3, <1>4

LEMMA Became ==
  ASSUME importCall \in [Callers -> ImportCalls], NEW w \in Callers, NEW new \in ImportCalls, Works(w, new)
  PROVE  /\ importCall' \in [Callers -> ImportCalls]
         /\ importCall'[w] = new
         /\ \A v \in Callers : v # w => importCall'[v] = importCall[v]
BY DEF Works, Becomes

(* A step of one call that writes nothing. *)
LEMMA CallMoves ==
  ASSUME ImportInv, NEW w \in Callers, NEW new \in ImportCalls, Works(w, new),
         target' = target, session' = session, items' = items, projects' = projects,
         confirms' = confirms, reviews' = reviews, written' = written, agreed' = agreed,
         overlapped' = overlapped, torn' = torn,
         SavePriced(new), RowsApart(new), \A k \in Keys : Owes(new, k) => Owes(importCall[w], k),
         Writes(new) => Writes(importCall[w]),
         ~ overlapped => StillMissing(new) /\ StillFree(new),
         target = "document" => RowOnce(new),
         YetToWrite(new) => YetToWrite(importCall[w]),
         target = "document" /\ ~ overlapped /\ Writes(importCall[w]) /\ ~ Writes(new)
           /\ session.status \in {"extracted", "reviewed"} => written <= reviews
  PROVE  ImportInv'
<1>1. /\ importCall' \in [Callers -> ImportCalls] /\ importCall'[w] = new
      /\ \A v \in Callers : v # w => importCall'[v] = importCall[v]
  BY Became DEF ImportInv, ImportTypes
<1>2. ImportTypes'
  BY <1>1 DEF ImportInv, ImportTypes
<1>3. Priced'
  BY <1>1 DEF ImportInv, Priced, SavePriced, ForUnits, RowOf
<1>4. PaidOnce'
  <2>1. \A v \in Callers : RowsApart(importCall[v])'
    BY <1>1 DEF ImportInv, PaidOnce, RowsApart
  <2>2. ASSUME target = "payment", NEW k \in Keys PROVE Afforded(k)'
    <3>1. DueOn(k)' \subseteq DueOn(k)
      BY <1>1 DEF DueOn, Owes
    <3>2. Afforded(k)
      BY <2>2 DEF ImportInv, PaidOnce
    <3>3. /\ IsFiniteSet(DueOn(k)') /\ Cardinality(DueOn(k)') <= Cardinality(DueOn(k))
          /\ Cardinality(DueOn(k)') \in Nat /\ Cardinality(DueOn(k)) \in Nat
      BY <3>1, <3>2, FS_Subset, FS_CardinalityType DEF Afforded
    <3>4. items[k].made \in Nat /\ confirms \in Nat
      BY DEF ImportInv, ImportTypes, Item
    <3> QED
      BY <3>2, <3>3, <3>4 DEF Afforded
  <2> QED
    BY <2>1, <2>2 DEF ImportInv, PaidOnce
<1>5. WrittenAlone'
  <2>1. ASSUME ~ overlapped
        PROVE  \A v, u \in Callers : Writes(importCall[v])' /\ Writes(importCall[u])' => v = u
    <3>1. \A v \in Callers : Writes(importCall[v])' => Writes(importCall[v])
      BY <1>1 DEF Writes
    <3> QED
      BY <2>1, <3>1 DEF ImportInv, WrittenAlone
  <2>2. ASSUME ~ overlapped, NEW v \in Callers PROVE StillMissing(importCall[v])' /\ StillFree(importCall[v])'
    BY <1>1, <2>2 DEF ImportInv, WrittenAlone, StillMissing, StillFree, Rowwise, RowOf
  <2> QED
    BY <2>1, <2>2 DEF ImportInv, WrittenAlone
<1>6. Documented'
  <2> SUFFICES ASSUME target = "document" PROVE Documented'
    BY DEF ImportInv, Documented
  <2>1. ASSUME NEW v \in Callers PROVE RowOnce(importCall[v])'
    BY <1>1 DEF ImportInv, Documented, RowOnce, Rowwise, OneRow
  <2>2. ASSUME ~ overlapped PROVE Reviewed'
    <3>1. \A v \in Callers : YetToWrite(importCall[v])' => YetToWrite(importCall[v])
      BY <1>1 DEF YetToWrite, Rowwise
    <3> QED
      BY <2>2, <3>1 DEF ImportInv, Documented, Reviewed
  <2>3. ASSUME ~ overlapped, session.status \in {"extracted", "reviewed"}, Resting' PROVE written <= reviews
    <3>1. CASE Writes(importCall[w])
      BY <1>1, <2>3, <3>1 DEF Resting, Writes
    <3>2. CASE ~ Writes(importCall[w])
      <4>1. Resting
        BY <1>1, <2>3, <3>2 DEF Resting, Writes
      <4> QED
        BY <2>3, <4>1 DEF ImportInv, Documented
    <3> QED
      BY <3>1, <3>2
  <2> QED
    BY <2>1, <2>2, <2>3 DEF ImportInv, Documented
<1> QED
  BY <1>2, <1>3, <1>4, <1>5, <1>6 DEF ImportInv

LEMMA PreviewKeeps ==
  ASSUME ImportInv, NEW w \in Callers, NEW creates \in BOOLEAN, PreviewImport(w, creates)
  PROVE  ImportInv'
<1> DEFINE copy == [session EXCEPT !.mapped = TRUE, !.creates = creates, !.status = "mapped"]
           new == [pc |-> "stamp", new |-> copy]
<1>1. copy \in Session
  BY DEF ImportInv, ImportTypes, Session, ImportStatus
<1> HIDE DEF copy
<1>2. new \in ImportCalls
  BY <1>1 DEF ImportCalls
<1>3. SavePriced(new) /\ RowsApart(new) /\ StillMissing(new) /\ StillFree(new) /\ ~ Writes(new) /\ ~ YetToWrite(new)
      /\ \A k \in Keys : ~ Owes(new, k)
  BY DEF SavePriced, RowsApart, StillMissing, StillFree, Writes, YetToWrite, Rowwise, Owes
<1>4. ~ Writes(importCall[w])
  BY DEF PreviewImport, Rest, Writes
<1>5. Works(w, new)
  BY DEF PreviewImport, copy
<1> HIDE DEF new
<1> QED
  BY <1>2, <1>3, <1>4, <1>5, CallMoves DEF PreviewImport

LEMMA ReviewKeeps ==
  ASSUME ImportInv, NEW w \in Callers, NEW status \in {"reviewed", "rejected"}, ReviewDocument(w, status)
  PROVE  ImportInv'
<1> DEFINE copy == [session EXCEPT !.status = status]
           new == [pc |-> "stamp", new |-> copy]
<1>1. copy \in Session /\ OneRow(copy)
  BY DEF ReviewDocument, ImportInv, ImportTypes, Documented, OneRow, Session, ImportStatus
<1> HIDE DEF copy
<1>2. new \in ImportCalls
  BY <1>1 DEF ImportCalls
<1>3. SavePriced(new) /\ RowsApart(new) /\ StillMissing(new) /\ StillFree(new) /\ ~ Writes(new) /\ ~ YetToWrite(new)
      /\ RowOnce(new) /\ \A k \in Keys : ~ Owes(new, k)
  BY <1>1 DEF SavePriced, RowsApart, StillMissing, StillFree, Writes, YetToWrite, Rowwise, Owes, RowOnce
<1>4. ~ Writes(importCall[w])
  BY DEF ReviewDocument, Rest, Writes
<1>5. Works(w, new)
  BY DEF ReviewDocument, copy
<1> HIDE DEF new
<1> QED
  BY <1>2, <1>3, <1>4, <1>5, CallMoves DEF ReviewDocument

LEMMA EvaluateKeeps ==
  ASSUME ImportInv, NEW w \in Callers, EvaluateRows(w)
  PROVE  ImportInv'
<1> DEFINE c == importCall[w]
           plan == Plan(c.copy.rows, c.creates)
           new == [pc |-> "rows", copy |-> c.copy, plan |-> plan, created |-> {}, wrote |-> FALSE]
<1>1. c.pc = "evaluate" /\ Works(w, new)
  BY DEF EvaluateRows, InRows
<1>2. c \in ImportCalls
  BY DEF ImportInv, ImportTypes
<1> HIDE DEF c
<1>3. c.copy \in Session
  BY <1>1, <1>2, Calls
<1>4. c.copy.rows \in Seq(Rows)
  BY <1>3, RowTypes DEF Session
<1>5. plan \in GoodPlans /\ (Len(c.copy.rows) = 1 => Len(plan) <= 1)
  BY <1>4, Evaluated DEF ImportInv
<1>6. target = "document" => OneRow(c.copy)
  BY <1>1 DEF ImportInv, Documented, RowOnce, c
<1> HIDE DEF plan
<1>7. plan \in Seq(PlanRow)
  BY <1>5 DEF GoodPlans
<1>8. new \in ImportCalls
  BY <1>3, <1>7 DEF ImportCalls
<1>9. SavePriced(new) /\ RowsApart(new) /\ StillMissing(new) /\ StillFree(new)
  BY <1>5 DEF SavePriced, RowsApart, StillMissing, StillFree, Rowwise, GoodPlans
<1>10. target = "document" => RowOnce(new)
  BY <1>5, <1>6 DEF RowOnce, OneRow, Rowwise
<1>11. Writes(c) /\ YetToWrite(c) /\ Writes(new) /\ \A k \in Keys : Owes(c, k)
  BY <1>1 DEF Writes, YetToWrite, Owes
<1> HIDE DEF new
<1> QED
  BY <1>1, <1>8, <1>9, <1>10, <1>11, CallMoves DEF EvaluateRows, c

(* The installments due are no more than before: payments stay afforded. *)
LEMMA StillAfforded ==
  ASSUME ImportTypes, NEW k \in Keys, Afforded(k), DueOn(k)' \subseteq DueOn(k),
         items'[k].made = items[k].made, confirms' = confirms
  PROVE  Afforded(k)'
<1>1. /\ IsFiniteSet(DueOn(k)') /\ Cardinality(DueOn(k)') <= Cardinality(DueOn(k))
      /\ Cardinality(DueOn(k)') \in Nat /\ Cardinality(DueOn(k)) \in Nat
  BY FS_Subset, FS_CardinalityType DEF Afforded
<1>2. items[k].made \in Nat /\ confirms \in Nat
  BY DEF ImportTypes, Item
<1> QED
  BY <1>1, <1>2 DEF Afforded

LEMMA CheckKeeps ==
  ASSUME ImportInv, NEW w \in Callers, CheckUnit(w)
  PROVE  ImportInv'
<1> DEFINE c == importCall[w]
           row == Head(c.plan)
           unit == items[row.key]
           taken == IF row.update THEN Updatable(unit) ELSE unit.made = 0
           save == [pc |-> "save", copy |-> c.copy, plan |-> c.plan, created |-> c.created,
                    wrote |-> c.wrote, unit |-> unit]
           next == InRows(c.copy, Tail(c.plan), c.created, c.wrote)
           new == IF taken THEN save ELSE next
<1>1. c.pc = "rows" /\ c.plan # << >> /\ ForUnits /\ Works(w, new)
  BY DEF CheckUnit, AtUnit, AtRow, ForUnits, RowDone
<1>2. c \in ImportCalls
  BY DEF ImportInv, ImportTypes
<1>3. /\ RowOnce(c) \/ target # "document"
      /\ ~ overlapped => StillMissing(c)
  BY <1>1 DEF ImportInv, Documented, WrittenAlone
<1> HIDE DEF c
<1>4. /\ c.copy \in Session /\ c.plan \in Seq(PlanRow) /\ c.created \subseteq Names /\ c.wrote \in BOOLEAN
      /\ c = [pc |-> "rows", copy |-> c.copy, plan |-> c.plan, created |-> c.created, wrote |-> c.wrote]
  BY <1>1, <1>2, Calls DEF Rowwise
<1>5. row \in PlanRow /\ row.key \in Keys
  BY <1>1, <1>4, HeadAndTail DEF PlanRow
<1>6. /\ Tail(c.plan) \in Seq(PlanRow)
      /\ \A i \in DOMAIN Tail(c.plan) : i + 1 \in DOMAIN c.plan /\ Tail(c.plan)[i] = c.plan[i + 1]
      /\ Len(c.plan) <= 1 => Tail(c.plan) = << >>
  BY <1>1, <1>4, HeadAndTail
<1>7. next = [pc |-> "rows", copy |-> c.copy, plan |-> Tail(c.plan), created |-> c.created, wrote |-> c.wrote]
  BY DEF InRows
<1>8. unit \in Item
  BY <1>5 DEF ImportInv, ImportTypes
<1>9. taken => IF row.update THEN unit.status = "available" ELSE unit.made = 0
  BY DEF Updatable
<1>10. /\ unit.made = 0 => unit.status = None
       /\ ~ overlapped => unit.made <= 1
  BY <1>1, <1>5 DEF ImportInv, Priced, WrittenAlone, ForUnits
<1>11. None # "available" /\ None # "reserved"
  BY ImportsAssumption
<1>12. Writes(c) /\ Writes(save) /\ Writes(next)
  BY <1>1, <1>7 DEF Writes
<1>13. save \in ImportCalls /\ next \in ImportCalls
  BY <1>4, <1>6, <1>8, RowCalls
<1>14. target \notin {"lead", "payment"}
  BY <1>1 DEF ForUnits
<1> DEFINE Good(x) ==
             /\ SavePriced(x) /\ RowsApart(x) /\ \A k \in Keys : Owes(x, k) => Owes(c, k)
             /\ ~ overlapped => StillMissing(x) /\ StillFree(x)
             /\ target = "document" => RowOnce(x)
             /\ YetToWrite(x) => YetToWrite(c)
<1>15. ASSUME taken PROVE Good(save)
  <2>1. SavePriced(save)
    <3>1. items[row.key].status # "reserved"
      BY <1>9, <1>10, <1>11, <1>15
    <3>2. row.update => unit.status = "available" /\ unit.made > 0
      BY <1>8, <1>9, <1>10, <1>11, <1>15 DEF Item
    <3> QED
      BY <1>1, <3>1, <3>2 DEF SavePriced, RowOf
  <2>2. ~ overlapped => StillMissing(save) /\ StillFree(save)
    <3>1. ~ overlapped => StillMissing(save)
      BY <1>1, <1>3 DEF StillMissing, Rowwise
    <3>2. ~ overlapped => StillFree(save)
      BY <1>9, <1>10, <1>15 DEF StillFree, RowOf
    <3> QED
      BY <3>1, <3>2
  <2>3. target = "document" => RowOnce(save)
    BY <1>1, <1>3 DEF RowOnce, Rowwise
  <2>4. /\ RowsApart(save) /\ \A k \in Keys : ~ Owes(save, k)
        /\ YetToWrite(save) => YetToWrite(c)
    BY <1>1 DEF RowsApart, Owes, YetToWrite, Rowwise
  <2> QED
    BY <2>1, <2>2, <2>3, <2>4
<1>16. Good(next)
  <2> DEFINE left == Tail(c.plan)
             after == [pc |-> "rows", copy |-> c.copy, plan |-> left, created |-> c.created, wrote |-> c.wrote]
  <2>1. SavePriced(after) /\ RowsApart(after) /\ StillFree(after) /\ (YetToWrite(after) => YetToWrite(c))
    BY <1>1, <1>14 DEF SavePriced, RowsApart, StillFree, YetToWrite, Rowwise
  <2> HIDE DEF left
  <2>2. \A k \in Keys : Owes(after, k) => Owes(c, k)
    BY <1>1, <1>6 DEF Owes, left
  <2>3. ~ overlapped => StillMissing(after)
    BY <1>1, <1>3, <1>6 DEF StillMissing, Rowwise, left
  <2>4. target = "document" => RowOnce(after)
    BY <1>1, <1>3, <1>6, EmptySeq DEF RowOnce, Rowwise, left
  <2> QED
    BY <1>7, <2>1, <2>2, <2>3, <2>4 DEF left
<1>17. /\ new \in ImportCalls /\ Writes(new)
       /\ SavePriced(new) /\ RowsApart(new) /\ \A k \in Keys : Owes(new, k) => Owes(c, k)
       /\ ~ overlapped => StillMissing(new) /\ StillFree(new)
       /\ target = "document" => RowOnce(new)
       /\ YetToWrite(new) => YetToWrite(c)
  <2> HIDE DEF save, next, taken
  <2> QED
    BY <1>12, <1>13, <1>15, <1>16
<1> HIDE DEF new
<1> QED
  BY <1>1, <1>12, <1>17, CallMoves DEF CheckUnit, c

LEMMA EndKeeps ==
  ASSUME ImportInv, NEW w \in Callers, EndRows(w)
  PROVE  ImportInv'
<1> DEFINE c == importCall[w]
           imported == [c.copy EXCEPT !.status = "imported"]
           confirmed == [session EXCEPT !.status = "confirmed"]
<1>1. c.pc = "rows" /\ c \in ImportCalls
  BY DEF EndRows, ImportInv, ImportTypes
<1>2. c.copy \in Session /\ c.wrote \in BOOLEAN
  BY <1>1, Calls DEF Rowwise
<1>3. imported \in Session /\ confirmed \in Session
  BY <1>2 DEF ImportInv, ImportTypes, Session, ImportStatus
<1>4. target = "document" => OneRow(imported) /\ imported.status = "imported"
  <2>1. target = "document" => OneRow(c.copy)
    BY <1>1 DEF ImportInv, Documented, RowOnce
  <2> QED
    BY <1>2, <2>1 DEF OneRow, Session
<1> HIDE DEF imported, confirmed
<1>5. Writes(c)
  BY <1>1 DEF Writes
<1> DEFINE Good(x) ==
             /\ x \in ImportCalls /\ SavePriced(x) /\ RowsApart(x) /\ StillMissing(x) /\ StillFree(x)
             /\ ~ YetToWrite(x) /\ (target = "document" => RowOnce(x))
             /\ \A k \in Keys : ~ Owes(x, k)
<1>6. ASSUME NEW s \in Session, target = "document" => OneRow(s) /\ s.status = "imported"
      PROVE  Good([pc |-> "mark", new |-> s])
  BY <1>6 DEF SavePriced, RowsApart, StillMissing, StillFree, YetToWrite, Rowwise, RowOnce, Owes, ImportCalls
<1>7. Good(Rest)
  BY DEF Rest, SavePriced, RowsApart, StillMissing, StillFree, YetToWrite, Rowwise, RowOnce, Owes, ImportCalls
<1>8. CASE target = "document" /\ c.wrote
  <2> DEFINE new == [pc |-> "mark", new |-> imported]
  <2>1. Works(w, new)
    BY <1>8 DEF EndRows, imported
  <2>2. Good(new)
    BY <1>3, <1>4, <1>6
  <2>3. Writes(new)
    BY DEF Writes
  <2> HIDE DEF new
  <2> QED
    BY <1>5, <2>1, <2>2, <2>3, CallMoves DEF EndRows
<1>9. CASE target # "document" /\ Usable
  <2> DEFINE new == [pc |-> "mark", new |-> confirmed]
  <2>1. Works(w, new)
    BY <1>9 DEF EndRows, confirmed
  <2>2. Good(new)
    BY <1>3, <1>6, <1>9
  <2> HIDE DEF new
  <2> QED
    BY <1>5, <1>9, <2>1, <2>2, CallMoves DEF EndRows
<1>10. CASE ~ (target = "document" /\ c.wrote) /\ ~ (target # "document" /\ Usable)
  <2>1. Works(w, Rest)
    BY <1>10 DEF EndRows
  <2>2. target = "document" /\ ~ overlapped => written <= reviews
    <3>1. target = "document" => YetToWrite(c)
      BY <1>1, <1>10 DEF YetToWrite, Rowwise
    <3> QED
      BY <3>1 DEF ImportInv, Documented, Reviewed
  <2>3. Writes(Rest) => Writes(c)
    BY <1>5
  <2> DEFINE new == Rest
  <2>4. Good(new)
    BY <1>7
  <2> HIDE DEF new
  <2> QED
    BY <1>5, <2>1, <2>2, <2>4, CallMoves DEF EndRows, new
<1> QED
  BY <1>8, <1>9, <1>10

LEMMA StampKeeps ==
  ASSUME ImportInv, NEW w \in Callers, SaveStamp(w)
  PROVE  ImportInv'
<1> DEFINE c == importCall[w]
<1>1. c.pc = "stamp" /\ c \in ImportCalls /\ Works(w, Rest) /\ Rest \in ImportCalls
  BY DEF SaveStamp, ImportInv, ImportTypes, ImportCalls
<1>2. c.new \in Session
  BY <1>1, Calls
<1>3. /\ importCall' \in [Callers -> ImportCalls] /\ importCall'[w] = Rest
      /\ \A v \in Callers : v # w => importCall'[v] = importCall[v]
  BY <1>1, Became DEF ImportInv, ImportTypes
<1>4. Rest.pc = "idle" /\ c.pc = "stamp"
  BY <1>1 DEF Rest
<1>5. ImportTypes'
  BY <1>2, <1>3 DEF ImportInv, ImportTypes, SaveStamp
<1>6. Priced'
  BY <1>3, <1>4 DEF ImportInv, Priced, SavePriced, ForUnits, RowOf, SaveStamp
<1>7. PaidOnce'
  <2>1. \A v \in Callers : RowsApart(importCall[v])'
    BY <1>3, <1>4 DEF ImportInv, PaidOnce, RowsApart, SaveStamp
  <2>2. ASSUME target = "payment", NEW k \in Keys PROVE Afforded(k)'
    <3>1. DueOn(k)' \subseteq DueOn(k)
      BY <1>3, <1>4 DEF DueOn, Owes
    <3> QED
      BY <2>2, <3>1, StillAfforded DEF ImportInv, PaidOnce, SaveStamp
  <2> QED
    BY <2>1, <2>2 DEF ImportInv, PaidOnce, SaveStamp
<1>8. WrittenAlone'
  <2>1. \A v \in Callers : Writes(importCall[v])' => Writes(importCall[v])
    BY <1>3, <1>4 DEF Writes
  <2>2. ASSUME ~ overlapped, NEW v \in Callers PROVE StillMissing(importCall[v])' /\ StillFree(importCall[v])'
    BY <1>3, <1>4, <2>2 DEF ImportInv, WrittenAlone, StillMissing, StillFree, Rowwise, RowOf, SaveStamp
  <2> QED
    BY <2>1, <2>2 DEF ImportInv, WrittenAlone, SaveStamp
<1>9. Documented'
  <2>1. ASSUME target = "document", NEW v \in Callers PROVE RowOnce(importCall[v])'
    BY <1>3, <1>4, <2>1 DEF ImportInv, Documented, RowOnce, Rowwise, OneRow
  <2>2. target = "document" => OneRow(session')
    BY <1>1 DEF ImportInv, Documented, RowOnce, SaveStamp
  <2>3. ASSUME target = "document", ~ overlapped PROVE written <= reviews'
    <3>1. reviews' = reviews + 1 /\ reviews \in Nat /\ written \in Nat /\ written <= 1 + reviews
      BY <2>3 DEF SaveStamp, ImportInv, ImportTypes, Documented
    <3> QED
      BY <3>1
  <2>4. written \in Nat /\ reviews' \in Nat
    BY <1>5 DEF ImportTypes, SaveStamp
  <2> QED
    BY <2>1, <2>2, <2>3, <2>4 DEF ImportInv, Documented, Reviewed, SaveStamp
<1> QED
  BY <1>5, <1>6, <1>7, <1>8, <1>9 DEF ImportInv

LEMMA ConfirmKeeps ==
  ASSUME ImportInv, NEW w \in Callers, NEW creates \in BOOLEAN, ConfirmImport(w, creates)
  PROVE  ImportInv'
<1> DEFINE new == [pc |-> "evaluate", copy |-> session, creates |-> creates]
<1>1. importCall[w] = Rest /\ Works(w, new) /\ new \in ImportCalls
  BY DEF ConfirmImport, ImportInv, ImportTypes, ImportCalls
<1>2. /\ importCall' \in [Callers -> ImportCalls] /\ importCall'[w] = new
      /\ \A v \in Callers : v # w => importCall'[v] = importCall[v]
  <2> HIDE DEF new
  <2> QED
    BY <1>1, Became DEF ImportInv, ImportTypes
<1>3. Rest.pc = "idle" /\ new.pc = "evaluate" /\ new.copy = session
  BY DEF Rest
<1>4. ~ overlapped' => ~ overlapped /\ Resting
  BY DEF ConfirmImport, Resting, Writing, Writes
<1> HIDE DEF new
<1>5. confirms \in Nat /\ confirms' = confirms + 1
  BY DEF ConfirmImport, ImportInv, ImportTypes
<1>6. ImportTypes'
  BY <1>2, <1>5 DEF ImportInv, ImportTypes, ConfirmImport
<1>7. Priced'
  BY <1>2, <1>3 DEF ImportInv, Priced, SavePriced, ForUnits, RowOf, ConfirmImport
<1>8. PaidOnce'
  <2>1. \A v \in Callers : RowsApart(importCall[v])'
    BY <1>2, <1>3 DEF ImportInv, PaidOnce, RowsApart, ConfirmImport
  <2>2. ASSUME target = "payment", NEW k \in Keys PROVE Afforded(k)'
    <3>1. DueOn(k)' = DueOn(k) \cup {w} /\ w \notin DueOn(k)
      BY <1>1, <1>2, <1>3 DEF DueOn, Owes
    <3>2. Afforded(k)
      BY <2>2 DEF ImportInv, PaidOnce
    <3>3. /\ IsFiniteSet(DueOn(k)') /\ Cardinality(DueOn(k)') = Cardinality(DueOn(k)) + 1
          /\ Cardinality(DueOn(k)) \in Nat
      BY <3>1, <3>2, FS_AddElement, FS_CardinalityType DEF Afforded
    <3>4. items[k].made \in Nat /\ items' = items
      BY DEF ImportInv, ImportTypes, Item, ConfirmImport
    <3> QED
      BY <1>5, <3>2, <3>3, <3>4 DEF Afforded
  <2> QED
    BY <2>1, <2>2 DEF ImportInv, PaidOnce, ConfirmImport
<1>9. WrittenAlone'
  <2>1. ASSUME ~ overlapped', NEW v \in Callers, Writes(importCall[v])' PROVE v = w
    BY <1>2, <1>4, <2>1 DEF Resting, Writes
  <2>2. ASSUME ~ overlapped', NEW v \in Callers PROVE StillMissing(importCall[v])' /\ StillFree(importCall[v])'
    BY <1>2, <1>3, <1>4, <2>2
    DEF ImportInv, WrittenAlone, StillMissing, StillFree, Rowwise, RowOf, ConfirmImport
  <2> QED
    BY <1>4, <2>1, <2>2 DEF ImportInv, WrittenAlone, ConfirmImport
<1>10. Documented'
  <2>1. ASSUME target = "document", NEW v \in Callers PROVE RowOnce(importCall[v])'
    BY <1>2, <1>3, <2>1 DEF ImportInv, Documented, RowOnce, Rowwise, OneRow
  <2>2. target = "document" => session.status \in {"extracted", "reviewed"}
    BY DEF ConfirmImport, Confirmable
  <2>3. target = "document" /\ ~ overlapped' => written <= reviews
    BY <1>4, <2>2 DEF ImportInv, Documented
  <2> QED
    BY <1>4, <2>1, <2>3 DEF ImportInv, Documented, Reviewed, ConfirmImport
<1> QED
  BY <1>6, <1>7, <1>8, <1>9, <1>10 DEF ImportInv

LEMMA MarkKeeps ==
  ASSUME ImportInv, NEW w \in Callers, MarkImported(w)
  PROVE  ImportInv'
<1> DEFINE c == importCall[w]
<1>1. c.pc = "mark" /\ c \in ImportCalls /\ Works(w, Rest) /\ Rest \in ImportCalls
  BY DEF MarkImported, ImportInv, ImportTypes, ImportCalls
<1>2. c.new \in Session
  BY <1>1, Calls
<1>3. /\ importCall' \in [Callers -> ImportCalls] /\ importCall'[w] = Rest
      /\ \A v \in Callers : v # w => importCall'[v] = importCall[v]
  BY <1>1, Became DEF ImportInv, ImportTypes
<1>4. Rest.pc = "idle" /\ c.pc = "mark"
  BY <1>1 DEF Rest
<1>5. ImportTypes'
  BY <1>2, <1>3 DEF ImportInv, ImportTypes, MarkImported
<1>6. Priced'
  BY <1>3, <1>4 DEF ImportInv, Priced, SavePriced, ForUnits, RowOf, MarkImported
<1>7. PaidOnce'
  <2>1. \A v \in Callers : RowsApart(importCall[v])'
    BY <1>3, <1>4 DEF ImportInv, PaidOnce, RowsApart, MarkImported
  <2>2. ASSUME target = "payment", NEW k \in Keys PROVE Afforded(k)'
    <3>1. DueOn(k)' \subseteq DueOn(k)
      BY <1>3, <1>4 DEF DueOn, Owes
    <3> QED
      BY <2>2, <3>1, StillAfforded DEF ImportInv, PaidOnce, MarkImported
  <2> QED
    BY <2>1, <2>2 DEF ImportInv, PaidOnce, MarkImported
<1>8. WrittenAlone'
  <2>1. \A v \in Callers : Writes(importCall[v])' => Writes(importCall[v])
    BY <1>3, <1>4 DEF Writes
  <2>2. ASSUME ~ overlapped, NEW v \in Callers PROVE StillMissing(importCall[v])' /\ StillFree(importCall[v])'
    BY <1>3, <1>4, <2>2 DEF ImportInv, WrittenAlone, StillMissing, StillFree, Rowwise, RowOf, MarkImported
  <2> QED
    BY <2>1, <2>2 DEF ImportInv, WrittenAlone, MarkImported
<1>9. Documented'
  <2>1. ASSUME target = "document", NEW v \in Callers PROVE RowOnce(importCall[v])'
    BY <1>3, <1>4, <2>1 DEF ImportInv, Documented, RowOnce, Rowwise, OneRow
  <2>2. target = "document" => OneRow(session') /\ session'.status = "imported"
    BY <1>1 DEF ImportInv, Documented, RowOnce, MarkImported
  <2>3. ASSUME target = "document", ~ overlapped PROVE Reviewed'
    <3>1. \A v \in Callers : YetToWrite(importCall[v])' => YetToWrite(importCall[v])
      BY <1>3, <1>4 DEF YetToWrite, Rowwise
    <3> QED
      BY <2>3, <3>1 DEF ImportInv, Documented, Reviewed, MarkImported
  <2> QED
    BY <2>1, <2>2, <2>3 DEF ImportInv, Documented, MarkImported
<1> QED
  BY <1>5, <1>6, <1>7, <1>8, <1>9 DEF ImportInv

(* A row that is done without a save of its own. *)
LEMMA RowDoneCall ==
  ASSUME ImportInv, NEW w \in Callers, AtRow(w), RowDone(w, TRUE), target \in {"lead", "payment"}
  PROVE  /\ importCall' \in [Callers -> ImportCalls]
         /\ \A v \in Callers : v # w => importCall'[v] = importCall[v]
         /\ importCall[w].pc = "rows" /\ importCall'[w].pc = "rows"
         /\ Head(importCall[w].plan) \in PlanRow
         /\ RowsApart(importCall'[w])
         /\ \A k \in Keys : Owes(importCall'[w], k) => Owes(importCall[w], k)
         /\ Owes(importCall[w], Head(importCall[w].plan).key)
         /\ ~ Owes(importCall'[w], Head(importCall[w].plan).key)
         /\ ~ overlapped => StillMissing(importCall'[w])
<1> DEFINE c == importCall[w]
           left == Tail(c.plan)
           new == InRows(c.copy, left, c.created, TRUE)
<1>1. c.pc = "rows" /\ c.plan # << >> /\ Works(w, new) /\ c \in ImportCalls
  BY DEF AtRow, RowDone, ImportInv, ImportTypes
<1>2. Apart(c.plan) /\ (~ overlapped => StillMissing(c))
  BY <1>1 DEF ImportInv, PaidOnce, RowsApart, WrittenAlone
<1> HIDE DEF c
<1>3. c.copy \in Session /\ c.plan \in Seq(PlanRow) /\ c.created \subseteq Names
  BY <1>1, Calls DEF Rowwise
<1>4. /\ Head(c.plan) \in PlanRow /\ Head(c.plan) = c.plan[1] /\ 1 \in DOMAIN c.plan
      /\ left \in Seq(PlanRow) /\ Apart(left)
      /\ \A i \in DOMAIN left : i + 1 \in DOMAIN c.plan /\ left[i] = c.plan[i + 1]
      /\ \A i \in DOMAIN left : left[i].key # Head(c.plan).key
  BY <1>1, <1>2, <1>3, HeadAndTail
<1> HIDE DEF left
<1>5. new \in ImportCalls
  BY <1>3, <1>4, RowCalls
<1>6. new.pc = "rows" /\ new.plan = left /\ new.created = c.created
  BY DEF InRows
<1> HIDE DEF new
<1>7. /\ importCall' \in [Callers -> ImportCalls] /\ importCall'[w] = new
      /\ \A v \in Callers : v # w => importCall'[v] = importCall[v]
  BY <1>1, <1>5, Became DEF ImportInv, ImportTypes
<1>8. RowsApart(new) /\ \A k \in Keys : Owes(new, k) => Owes(c, k)
  BY <1>1, <1>4, <1>6 DEF RowsApart, Owes
<1>9. Owes(c, Head(c.plan).key) /\ ~ Owes(new, Head(c.plan).key)
  BY <1>1, <1>4, <1>6 DEF Owes
<1>10. ~ overlapped => StillMissing(new)
  <2> SUFFICES ASSUME ~ overlapped, NEW i \in DOMAIN left, left[i].pending, left[i].project \notin c.created
               PROVE  projects[left[i].project] = 0
    BY <1>6 DEF StillMissing
  <2>1. StillMissing(c) /\ i + 1 \in DOMAIN c.plan /\ left[i] = c.plan[i + 1]
    BY <1>2, <1>4
  <2> QED
    BY <1>1, <2>1 DEF StillMissing, Rowwise
<1> QED
  BY <1>1, <1>4, <1>6, <1>7, <1>8, <1>9, <1>10 DEF c

LEMMA LeadKeeps ==
  ASSUME ImportInv, NEW w \in Callers, ImportLead(w)
  PROVE  ImportInv'
<1> DEFINE key == Head(importCall[w].plan).key
<1>1. AtRow(w) /\ RowDone(w, TRUE) /\ target = "lead"
  BY DEF ImportLead
<1>2. /\ importCall' \in [Callers -> ImportCalls]
      /\ \A v \in Callers : v # w => importCall'[v] = importCall[v]
      /\ importCall[w].pc = "rows" /\ importCall'[w].pc = "rows"
      /\ Head(importCall[w].plan) \in PlanRow
      /\ RowsApart(importCall'[w])
      /\ ~ overlapped => StillMissing(importCall'[w])
  BY <1>1, RowDoneCall
<1>3. key \in Keys
  BY <1>2 DEF PlanRow
<1>4. \A k \in Keys : /\ items'[k].status = items[k].status
                      /\ items'[k].made \in {0, 1} /\ items'[k] \in Item
  <2>1. items \in [Keys -> Item] /\ \A k \in Keys : items[k].made <= 1
    BY <1>1 DEF ImportInv, ImportTypes, PaidOnce
  <2>2. items' = items \/ items' = [items EXCEPT ![key].made = 1]
    BY DEF ImportLead
  <2> HIDE DEF key
  <2>3. ASSUME NEW k \in Keys PROVE items'[k].status = items[k].status /\ items'[k].made \in {0, 1} /\ items'[k] \in Item
    BY <1>3, <2>1, <2>2 DEF Item
  <2> QED
    BY <2>3
<1>5. items' \in [Keys -> Item]
  <2>1. DOMAIN items' = Keys /\ items' = [k \in DOMAIN items' |-> items'[k]]
    BY DEF ImportLead, ImportInv, ImportTypes
  <2> QED
    BY <1>4, <2>1
<1>6. ~ ForUnits
  BY <1>1 DEF ForUnits
<1>7. ImportTypes'
  BY <1>2, <1>5 DEF ImportInv, ImportTypes, ImportLead
<1>8. Priced'
  <2>1. \A k \in Keys : items'[k].status = None /\ None # "reserved"
    BY <1>4, <1>6, ImportsAssumption DEF ImportInv, Priced
  <2>2. \A v \in Callers : importCall'[v].pc # "save"
    BY <1>2, <1>6 DEF ImportInv, Priced, SavePriced
  <2> QED
    BY <2>1, <2>2 DEF Priced, SavePriced
<1>9. PaidOnce'
  <2>1. \A v \in Callers : RowsApart(importCall[v])'
    BY <1>2 DEF ImportInv, PaidOnce, RowsApart, ImportLead
  <2> QED
    BY <1>1, <1>4, <2>1 DEF PaidOnce, ImportLead
<1>10. WrittenAlone'
  <2>1. \A v \in Callers : Writes(importCall[v])' => Writes(importCall[v])
    BY <1>2 DEF Writes
  <2>2. ASSUME ~ overlapped, NEW v \in Callers PROVE StillMissing(importCall[v])' /\ StillFree(importCall[v])'
    <3>1. importCall'[v].pc # "save"
      BY <1>2, <1>6 DEF ImportInv, Priced, SavePriced
    <3>2. StillMissing(importCall'[v])
      BY <1>2, <2>2 DEF ImportInv, WrittenAlone
    <3> QED
      BY <3>1, <3>2 DEF StillMissing, StillFree, ImportLead
  <2> QED
    BY <1>4, <2>1, <2>2 DEF ImportInv, WrittenAlone, ImportLead
<1>11. Documented'
  BY <1>1 DEF ImportInv, Documented, ImportLead
<1> QED
  BY <1>7, <1>8, <1>9, <1>10, <1>11 DEF ImportInv

LEMMA PaymentKeeps ==
  ASSUME ImportInv, NEW w \in Callers, ImportPayment(w)
  PROVE  ImportInv'
<1> DEFINE row == Head(importCall[w].plan)
           line == items[row.key]
           paid == [items EXCEPT ![row.key] = [line EXCEPT !.made = @ + 1, !.amount = @ + row.amount]]
<1>1. AtRow(w) /\ RowDone(w, TRUE) /\ target = "payment"
  BY DEF ImportPayment
<1>2. /\ importCall' \in [Callers -> ImportCalls]
      /\ \A v \in Callers : v # w => importCall'[v] = importCall[v]
      /\ importCall[w].pc = "rows" /\ importCall'[w].pc = "rows"
      /\ row \in PlanRow
      /\ RowsApart(importCall'[w])
      /\ \A k \in Keys : Owes(importCall'[w], k) => Owes(importCall[w], k)
      /\ Owes(importCall[w], row.key) /\ ~ Owes(importCall'[w], row.key)
      /\ ~ overlapped => StillMissing(importCall'[w])
  BY <1>1, RowDoneCall
<1> HIDE DEF row
<1>3. row.key \in Keys /\ row.amount \in Int
  BY <1>2 DEF PlanRow
<1>4. items \in [Keys -> Item] /\ \A k \in Keys : items[k].amount <= Owed
  BY <1>1 DEF ImportInv, ImportTypes, PaidOnce
<1>5. items' = items \/ (items' = paid /\ line.amount + row.amount <= Owed)
  BY DEF ImportPayment, row
<1>6. \A k \in Keys : /\ items'[k] \in Item /\ items'[k].status = items[k].status
                      /\ items'[k].amount <= Owed
                      /\ items'[k].made <= items[k].made + (IF k = row.key THEN 1 ELSE 0)
  <2>1. CASE items' = items
    BY <1>3, <1>4, <2>1 DEF Item
  <2>2. CASE items' = paid /\ line.amount + row.amount <= Owed
    <3>1. line.made \in Nat /\ line.amount \in Int /\ line.status \in {None, "available", "reserved"}
          /\ line.project \in Names \cup {None} /\ line \in Item
      BY <1>3, <1>4 DEF Item
    <3> DEFINE after == [line EXCEPT !.made = @ + 1, !.amount = @ + row.amount]
    <3>2. /\ after \in Item /\ after.status = line.status /\ after.made = line.made + 1
          /\ after.amount = line.amount + row.amount
      <4>1. PICK l \in Item, a \in Int : l = line /\ a = row.amount
        BY <1>3, <3>1
      <4>2. l.made \in Nat /\ l.amount \in Int
        BY DEF Item
      <4> DEFINE next == [l EXCEPT !.made = @ + 1, !.amount = @ + a]
      <4>3. next \in Item /\ next.status = l.status /\ next.made = l.made + 1 /\ next.amount = l.amount + a
        <5> DEFINE made == l.made + 1
                   amount == l.amount + a
                   with == [l EXCEPT !.made = made, !.amount = amount]
        <5>1. made \in Nat /\ amount \in Int
          BY <4>2
        <5> HIDE DEF made, amount
        <5>2. with \in Item
          BY <5>1 DEF Item
        <5>3. with.status = l.status /\ with.made = made /\ with.amount = amount
          BY DEF Item
        <5>4. with = next
          BY DEF made, amount
        <5> HIDE DEF with, next
        <5> QED
          BY <5>2, <5>3, <5>4 DEF made, amount
      <4> QED
        BY <4>1, <4>3
    <3>3. \A k \in Keys : items'[k] = IF k = row.key THEN after ELSE items[k]
      BY <1>3, <1>4, <2>2
    <3>4. \A k \in Keys : items[k].made \in Nat
      BY <1>4 DEF Item
    <3> HIDE DEF after
    <3> QED
      BY <1>4, <2>2, <3>1, <3>2, <3>3, <3>4
  <2> QED
    BY <1>5, <2>1, <2>2
<1>7. items' \in [Keys -> Item]
  <2>1. DOMAIN items' = Keys /\ items' = [k \in DOMAIN items' |-> items'[k]]
    BY <1>4, <1>5
  <2> QED
    BY <1>6, <2>1
<1>8. ~ ForUnits
  BY <1>1 DEF ForUnits
<1>9. ImportTypes'
  BY <1>2, <1>7 DEF ImportInv, ImportTypes, ImportPayment
<1>10. Priced'
  <2>1. \A k \in Keys : items'[k].status = None /\ None # "reserved"
    BY <1>6, <1>8, ImportsAssumption DEF ImportInv, Priced
  <2>2. \A v \in Callers : importCall'[v].pc # "save"
    BY <1>2, <1>8 DEF ImportInv, Priced, SavePriced
  <2> QED
    BY <2>1, <2>2 DEF Priced, SavePriced
<1>11. PaidOnce'
  <2>1. \A v \in Callers : RowsApart(importCall[v])'
    BY <1>2 DEF ImportInv, PaidOnce, RowsApart, ImportPayment
  <2>2. ASSUME NEW k \in Keys PROVE Afforded(k)'
    <3>1. DueOn(k)' \subseteq DueOn(k)
      BY <1>2 DEF DueOn, Owes
    <3>2. Afforded(k)
      BY <1>1 DEF ImportInv, PaidOnce
    <3>3. items[k].made \in Nat /\ items'[k].made \in Nat /\ confirms \in Nat /\ confirms' = confirms
      BY <1>6 DEF ImportInv, ImportTypes, Item, ImportPayment
    <3>4. CASE k # row.key
      <4>1. /\ IsFiniteSet(DueOn(k)') /\ Cardinality(DueOn(k)') <= Cardinality(DueOn(k))
            /\ Cardinality(DueOn(k)') \in Nat /\ Cardinality(DueOn(k)) \in Nat
        BY <3>1, <3>2, FS_Subset, FS_CardinalityType DEF Afforded
      <4>2. items'[k].made <= items[k].made
        BY <1>6, <3>3, <3>4
      <4> QED
        BY <3>2, <3>3, <4>1, <4>2 DEF Afforded
    <3>5. CASE k = row.key
      <4>1. w \in DueOn(k) /\ w \notin DueOn(k)'
        BY <1>2, <3>5 DEF DueOn
      <4>2. /\ IsFiniteSet(DueOn(k) \ {w}) /\ Cardinality(DueOn(k) \ {w}) = Cardinality(DueOn(k)) - 1
            /\ Cardinality(DueOn(k)) \in Nat
        BY <3>2, <4>1, FS_RemoveElement, FS_CardinalityType DEF Afforded
      <4>3. DueOn(k)' \subseteq DueOn(k) \ {w}
        BY <3>1, <4>1
      <4>4. /\ IsFiniteSet(DueOn(k)') /\ Cardinality(DueOn(k)') <= Cardinality(DueOn(k)) - 1
            /\ Cardinality(DueOn(k)') \in Nat
        BY <4>2, <4>3, FS_Subset, FS_CardinalityType
      <4>5. items'[k].made <= items[k].made + 1
        BY <1>6, <3>5
      <4> QED
        BY <3>2, <3>3, <4>2, <4>4, <4>5 DEF Afforded
    <3> QED
      BY <3>4, <3>5
  <2> QED
    BY <1>1, <1>6, <2>1, <2>2 DEF PaidOnce, ImportPayment
<1>12. WrittenAlone'
  <2>1. \A v \in Callers : Writes(importCall[v])' => Writes(importCall[v])
    BY <1>2 DEF Writes
  <2>2. ASSUME ~ overlapped, NEW v \in Callers PROVE StillMissing(importCall[v])' /\ StillFree(importCall[v])'
    <3>1. importCall'[v].pc # "save"
      BY <1>2, <1>8 DEF ImportInv, Priced, SavePriced
    <3>2. StillMissing(importCall'[v])
      BY <1>2, <2>2 DEF ImportInv, WrittenAlone
    <3> QED
      BY <3>1, <3>2 DEF StillMissing, StillFree, ImportPayment
  <2> QED
    BY <1>1, <2>1, <2>2 DEF ImportInv, WrittenAlone, ImportPayment
<1>13. Documented'
  BY <1>1 DEF ImportInv, Documented, ImportPayment
<1> QED
  BY <1>9, <1>10, <1>11, <1>12, <1>13 DEF ImportInv

LEMMA CreateKeeps ==
  ASSUME ImportInv, NEW w \in Callers, CreateProject(w)
  PROVE  ImportInv'
<1> DEFINE c == importCall[w]
           row == Head(c.plan)
           new == InRows(c.copy, c.plan, c.created \cup {row.project}, c.wrote)
<1>1. /\ c.pc = "rows" /\ c.plan # << >> /\ ForUnits /\ Works(w, new)
      /\ row.pending /\ row.project \notin c.created
      /\ projects' = [projects EXCEPT ![row.project] = @ + 1]
  BY DEF CreateProject, AtUnit, AtRow, Missing, ForUnits
<1>2. /\ c \in ImportCalls
      /\ target = "document" => RowOnce(c)
      /\ ~ overlapped => StillMissing(c) /\ \A v \in Callers : v # w => ~ Writes(importCall[v])
  BY <1>1 DEF ImportInv, ImportTypes, Documented, WrittenAlone, Writes
<1>3. projects \in [Names -> Nat]
  BY DEF ImportInv, ImportTypes
<1> HIDE DEF c
<1>4. c.copy \in Session /\ c.plan \in Seq(PlanRow) /\ c.created \subseteq Names /\ c.wrote \in BOOLEAN
  BY <1>1, <1>2, Calls DEF Rowwise
<1>5. row \in PlanRow /\ row = c.plan[1] /\ 1 \in DOMAIN c.plan
  BY <1>1, <1>4, HeadAndTail
<1> HIDE DEF row
<1>6. row.project \in Names
  BY <1>5 DEF PlanRow
<1>7. new \in ImportCalls
  BY <1>4, <1>6, RowCalls
<1>8. /\ new.pc = "rows" /\ new.plan = c.plan /\ new.copy = c.copy /\ new.wrote = c.wrote
      /\ new.created = c.created \cup {row.project}
  BY DEF InRows
<1> HIDE DEF new
<1>9. /\ importCall' \in [Callers -> ImportCalls] /\ importCall'[w] = new
      /\ \A v \in Callers : v # w => importCall'[v] = importCall[v]
  BY <1>1, <1>7, Became DEF ImportInv, ImportTypes
<1>10. /\ projects' \in [Names -> Nat]
       /\ \A n \in Names : projects'[n] = IF n = row.project THEN projects[n] + 1 ELSE projects[n]
  BY <1>1, <1>3, <1>6
<1>11. ImportTypes'
  BY <1>9, <1>10 DEF ImportInv, ImportTypes, CreateProject
<1>12. Priced'
  BY <1>8, <1>9 DEF ImportInv, Priced, SavePriced, ForUnits, RowOf, CreateProject
<1>13. PaidOnce'
  <2>1. target' = target /\ target \notin {"lead", "payment"}
    BY <1>1 DEF ForUnits, CreateProject
  <2> QED
    BY <2>1 DEF PaidOnce, RowsApart
<1>14. WrittenAlone'
  <2>1. \A v \in Callers : Writes(importCall[v])' => Writes(importCall[v])
    BY <1>1, <1>8, <1>9 DEF Writes, c
  <2>2. ~ overlapped => projects[row.project] = 0
    BY <1>1, <1>2, <1>5 DEF StillMissing, Rowwise
  <2>3. ASSUME ~ overlapped, NEW n \in Names PROVE projects'[n] <= 1
    BY <1>10, <2>2, <2>3 DEF ImportInv, WrittenAlone
  <2>4. ~ overlapped => StillMissing(importCall[w])' /\ StillFree(importCall[w])'
    <3>1. StillFree(importCall[w])'
      BY <1>8, <1>9 DEF StillFree
    <3>2. ASSUME ~ overlapped, NEW i \in DOMAIN c.plan, c.plan[i].pending,
                 c.plan[i].project \notin new.created
          PROVE  projects'[c.plan[i].project] = 0
      <4>1. c.plan[i] \in PlanRow
        BY <1>4
      <4>2. c.plan[i].project \in Names
        BY <4>1 DEF PlanRow
      <4>3. projects[c.plan[i].project] = 0
        BY <1>1, <1>2, <1>8, <3>2 DEF StillMissing, Rowwise
      <4> QED
        BY <1>8, <1>10, <3>2, <4>2, <4>3
    <3> QED
      BY <1>8, <1>9, <3>1, <3>2 DEF StillMissing, StillFree
  <2>5. ASSUME ~ overlapped, NEW v \in Callers, v # w PROVE StillMissing(importCall[v])' /\ StillFree(importCall[v])'
    <3>1. ~ Writes(importCall'[v])
      BY <1>2, <1>9, <2>5
    <3> QED
      BY <3>1 DEF Writes, StillMissing, StillFree, Rowwise
  <2> QED
    BY <2>1, <2>3, <2>4, <2>5 DEF ImportInv, WrittenAlone, CreateProject
<1>15. Documented'
  <2>1. ASSUME target = "document", NEW v \in Callers PROVE RowOnce(importCall[v])'
    <3>1. RowOnce(new)
      BY <1>1, <1>2, <1>8, <2>1 DEF RowOnce, Rowwise, OneRow
    <3> QED
      BY <1>9, <2>1, <3>1 DEF ImportInv, Documented, RowOnce, Rowwise, OneRow
  <2>2. ASSUME target = "document", ~ overlapped PROVE Reviewed'
    <3>1. \A v \in Callers : YetToWrite(importCall[v])' => YetToWrite(importCall[v])
      BY <1>1, <1>8, <1>9 DEF YetToWrite, Rowwise, c
    <3> QED
      BY <2>2, <3>1 DEF ImportInv, Documented, Reviewed, CreateProject
  <2>3. ~ Resting'
    BY <1>8, <1>9 DEF Resting, Writes
  <2> QED
    BY <2>1, <2>2, <2>3 DEF ImportInv, Documented, CreateProject
<1> QED
  BY <1>11, <1>12, <1>13, <1>14, <1>15 DEF ImportInv

LEMMA SaveUnitKeeps ==
  ASSUME ImportInv, NEW w \in Callers, SaveUnit(w)
  PROVE  ImportInv'
<1> DEFINE c == importCall[w]
           row == Head(c.plan)
           left == Tail(c.plan)
           new == InRows(c.copy, left, c.created, TRUE)
           saved == IF row.update THEN [c.unit EXCEPT !.amount = row.amount]
                    ELSE [made |-> items[row.key].made + 1, status |-> "available", project |-> row.project,
                          amount |-> row.amount]
<1>1. c.pc = "save" /\ Works(w, new) /\ items' = [items EXCEPT ![row.key] = saved]
  BY DEF SaveUnit, RowDone
<1>2. /\ c \in ImportCalls
      /\ ForUnits /\ c.plan # << >>
      /\ row.update => c.unit.status = "available" /\ c.unit.made > 0
      /\ target = "document" => RowOnce(c)
      /\ ~ overlapped => /\ StillMissing(c) /\ \A v \in Callers : v # w => ~ Writes(importCall[v])
                         /\ IF row.update THEN c.unit.made <= 1 ELSE items[row.key].made = 0
  BY <1>1 DEF ImportInv, ImportTypes, Priced, SavePriced, RowOf, Documented, WrittenAlone, StillFree, Writes
<1>3. items \in [Keys -> Item]
  BY DEF ImportInv, ImportTypes
<1>4. ~ torn => \A k \in Keys : items[k].status = "reserved" => items[k].amount = agreed[k]
  BY DEF ImportInv, Priced
<1> HIDE DEF c
<1>5. c.copy \in Session /\ c.plan \in Seq(PlanRow) /\ c.created \subseteq Names /\ c.wrote \in BOOLEAN /\ c.unit \in Item
  BY <1>1, <1>2, Calls DEF Rowwise
<1>6. /\ row \in PlanRow /\ row = c.plan[1] /\ 1 \in DOMAIN c.plan
      /\ left \in Seq(PlanRow)
      /\ \A i \in DOMAIN left : i + 1 \in DOMAIN c.plan /\ left[i] = c.plan[i + 1]
      /\ Len(c.plan) <= 1 => left = << >>
  BY <1>2, <1>5, HeadAndTail
<1> HIDE DEF row, left
<1>7. row.key \in Keys /\ row.project \in Names /\ row.amount \in Int
  BY <1>6 DEF PlanRow
<1>8. saved \in Item /\ saved.status = "available" /\ saved.made > 0 /\ (~ overlapped => saved.made <= 1)
  <2>1. CASE row.update
    <3>1. saved = [c.unit EXCEPT !.amount = row.amount]
      BY <2>1
    <3>2. PICK u \in Item, a \in Int : u = c.unit /\ a = row.amount
      BY <1>5, <1>7
    <3>3. [u EXCEPT !.amount = a] \in Item
      BY DEF Item
    <3>4. [u EXCEPT !.amount = a].status = u.status /\ [u EXCEPT !.amount = a].made = u.made
      BY DEF Item
    <3> QED
      BY <1>2, <2>1, <3>1, <3>2, <3>3, <3>4
  <2>2. CASE ~ row.update
    <3>1. saved = [made |-> items[row.key].made + 1, status |-> "available", project |-> row.project,
                   amount |-> row.amount]
      BY <2>2
    <3>2. items[row.key].made \in Nat
      BY <1>3, <1>7 DEF Item
    <3> DEFINE m == items[row.key].made + 1
               a == row.amount
               n == row.project
    <3>3. m \in Nat /\ a \in Int /\ n \in Names
      BY <1>7, <3>2
    <3>5. saved = [made |-> m, status |-> "available", project |-> n, amount |-> a]
      BY <3>1
    <3>6. m > 0 /\ (~ overlapped => m <= 1)
      BY <1>2, <2>2, <3>2
    <3> HIDE DEF saved, m, a, n
    <3>4. [made |-> m, status |-> "available", project |-> n, amount |-> a] \in Item
      BY <3>3 DEF Item
    <3> QED
      BY <3>4, <3>5, <3>6
  <2> QED
    BY <2>1, <2>2
<1> HIDE DEF saved
<1>9. new \in ImportCalls
  BY <1>5, <1>6, RowCalls
<1>10. new.pc = "rows" /\ new.plan = left /\ new.copy = c.copy /\ new.wrote = TRUE /\ new.created = c.created
  BY DEF InRows
<1> HIDE DEF new
<1>11. /\ importCall' \in [Callers -> ImportCalls] /\ importCall'[w] = new
       /\ \A v \in Callers : v # w => importCall'[v] = importCall[v]
  BY <1>1, <1>9, Became DEF ImportInv, ImportTypes
<1>12. /\ items' \in [Keys -> Item]
       /\ \A k \in Keys : items'[k] = IF k = row.key THEN saved ELSE items[k]
  BY <1>1, <1>3, <1>7, <1>8
<1>13. None # "available" /\ None # "reserved" /\ \A k \in Keys : items[k].made \in Nat
  BY <1>3, ImportsAssumption DEF Item
<1>14. written \in Nat /\ written' \in Nat
  BY DEF SaveUnit, ImportInv, ImportTypes
<1>15. ImportTypes'
  BY <1>11, <1>12, <1>14 DEF ImportInv, ImportTypes, SaveUnit
<1>16. Priced'
  <2>1. ASSUME NEW k \in Keys, items'[k].made = 0 \/ ~ ForUnits' PROVE items'[k].status = None
    <3>1. ForUnits' /\ items'[k].made = 0
      BY <1>2, <2>1 DEF ForUnits, SaveUnit
    <3>2. saved.made # 0
      BY <1>8
    <3> QED
      BY <1>12, <3>1, <3>2 DEF ImportInv, Priced
  <2>2. ASSUME ~ torn', NEW k \in Keys, items'[k].status = "reserved" PROVE items'[k].amount = agreed'[k]
    BY <1>4, <1>8, <1>12, <2>2 DEF SaveUnit
  <2>3. ASSUME NEW v \in Callers PROVE SavePriced(importCall[v])'
    <3>1. CASE v = w
      BY <1>10, <1>11, <3>1 DEF SavePriced
    <3>2. CASE v # w
      <4> DEFINE d == importCall[v]
      <4>1. /\ importCall'[v] = d /\ SavePriced(d) /\ d \in ImportCalls
        BY <1>11, <3>2 DEF ImportInv, ImportTypes, Priced
      <4> HIDE DEF d
      <4>2. ASSUME d.pc = "save" PROVE RowOf(d).key \in Keys
        <5>1. d.plan \in Seq(PlanRow) /\ d.plan # << >>
          BY <4>1, <4>2, Calls DEF Rowwise, SavePriced
        <5>2. Head(d.plan) \in PlanRow
          BY <5>1, HeadAndTail
        <5> QED
          BY <5>2 DEF RowOf, PlanRow
      <4>3. SavePriced(d)'
        BY <1>8, <1>12, <4>1, <4>2 DEF SavePriced, RowOf, ForUnits, SaveUnit, d
      <4> QED
        BY <4>1, <4>3 DEF d
    <3> QED
      BY <3>1, <3>2
  <2> QED
    BY <2>1, <2>2, <2>3 DEF Priced
<1>17. PaidOnce'
  <2>1. target' = target /\ target \notin {"lead", "payment"}
    BY <1>2 DEF ForUnits, SaveUnit
  <2> QED
    BY <2>1 DEF PaidOnce, RowsApart
<1>18. WrittenAlone'
  <2>1. \A v \in Callers : Writes(importCall[v])' => Writes(importCall[v])
    BY <1>1, <1>10, <1>11 DEF Writes, c
  <2>2. ASSUME ~ overlapped, NEW k \in Keys PROVE items'[k].made <= 1
    <3>1. items[k].made <= 1
      BY <1>2, <2>2 DEF ImportInv, WrittenAlone, ForUnits
    <3> QED
      BY <1>8, <1>12, <2>2, <3>1
  <2>3. ~ overlapped => StillMissing(importCall[w])' /\ StillFree(importCall[w])'
    <3>1. StillFree(importCall[w])'
      BY <1>10, <1>11 DEF StillFree
    <3>2. ASSUME ~ overlapped, NEW i \in DOMAIN left, left[i].pending, left[i].project \notin c.created
          PROVE  projects[left[i].project] = 0
      <4>1. StillMissing(c) /\ i + 1 \in DOMAIN c.plan /\ left[i] = c.plan[i + 1]
        BY <1>2, <1>6, <3>2
      <4> QED
        BY <1>1, <3>2, <4>1 DEF StillMissing, Rowwise
    <3> QED
      BY <1>10, <1>11, <3>1, <3>2 DEF StillMissing, StillFree, SaveUnit
  <2>4. ASSUME ~ overlapped, NEW v \in Callers, v # w PROVE StillMissing(importCall[v])' /\ StillFree(importCall[v])'
    <3>1. ~ Writes(importCall'[v])
      BY <1>2, <1>11, <2>4
    <3> QED
      BY <3>1 DEF Writes, StillMissing, StillFree, Rowwise
  <2> QED
    BY <2>1, <2>2, <2>3, <2>4 DEF ImportInv, WrittenAlone, SaveUnit
<1>19. Documented'
  <2>1. target # "document" => written' = 0
    BY DEF ImportInv, Documented, SaveUnit
  <2> SUFFICES ASSUME target = "document" PROVE Documented'
    BY <2>1 DEF Documented, SaveUnit
  <2>2. Len(c.plan) <= 1 /\ ~ c.wrote /\ OneRow(c.copy)
    BY <1>1, <1>2 DEF RowOnce, Rowwise
  <2>3. left = << >>
    BY <1>6, <2>2
  <2>4. RowOnce(new)
    BY <1>10, <2>2, <2>3 DEF RowOnce, Rowwise
  <2>5. ASSUME NEW v \in Callers PROVE RowOnce(importCall[v])'
    BY <1>11, <2>4 DEF ImportInv, Documented, RowOnce, Rowwise, OneRow
  <2>6. ~ overlapped => written' <= 1 + reviews
    <3>1. YetToWrite(c)
      BY <1>1, <2>2 DEF YetToWrite, Rowwise
    <3>2. ~ overlapped => written <= reviews
      BY <3>1 DEF ImportInv, Documented, Reviewed, c
    <3>3. written' = written + 1 /\ reviews \in Nat
      BY DEF SaveUnit, ImportInv, ImportTypes
    <3> QED
      BY <1>14, <3>2, <3>3
  <2>7. ~ overlapped => Reviewed'
    <3>1. ~ YetToWrite(new)
      BY <1>10 DEF YetToWrite, Rowwise
    <3>2. ~ overlapped => \A v \in Callers : v # w => ~ YetToWrite(importCall'[v])
      BY <1>2, <1>11 DEF Writes, YetToWrite, Rowwise
    <3> QED
      BY <1>11, <3>1, <3>2 DEF Reviewed
  <2>8. ~ Resting'
    BY <1>10, <1>11 DEF Resting, Writes
  <2>9. OneRow(session)'
    BY DEF ImportInv, Documented, SaveUnit, OneRow
  <2> QED
    BY <2>5, <2>6, <2>7, <2>8, <2>9 DEF Documented, SaveUnit
<1> QED
  BY <1>15, <1>16, <1>17, <1>18, <1>19 DEF ImportInv

LEMMA StopKeeps ==
  ASSUME ImportInv, StopImports
  PROVE  ImportInv'
<1>1. \A w \in Callers : importCall'[w].pc = "idle"
  BY DEF StopImports, Rest
<1>2. importCall' \in [Callers -> ImportCalls]
  BY DEF StopImports, ImportCalls
<1>3. ~ overlapped' => ~ overlapped /\ Resting
  BY DEF StopImports, Resting, Writing, Writes
<1>4. ImportTypes'
  BY <1>2 DEF ImportInv, ImportTypes, StopImports
<1>5. Priced'
  BY <1>1 DEF ImportInv, Priced, SavePriced, ForUnits, StopImports
<1>6. PaidOnce'
  <2>1. ASSUME target = "payment", NEW k \in Keys PROVE Afforded(k)'
    <3>1. DueOn(k)' \subseteq DueOn(k)
      BY <1>1 DEF DueOn, Owes
    <3> QED
      BY <2>1, <3>1, StillAfforded DEF ImportInv, PaidOnce, StopImports
  <2> QED
    BY <1>1, <2>1 DEF ImportInv, PaidOnce, RowsApart, StopImports
<1>7. WrittenAlone'
  BY <1>1, <1>3 DEF ImportInv, WrittenAlone, Writes, StillMissing, StillFree, Rowwise, StopImports
<1>8. Documented'
  BY <1>1, <1>3 DEF ImportInv, Documented, Reviewed, YetToWrite, RowOnce, Rowwise, StopImports
<1> QED
  BY <1>4, <1>5, <1>6, <1>7, <1>8 DEF ImportInv

(* Reservations and releases of units. *)
LEMMA StatusKeeps ==
  ASSUME ImportInv, NEW k \in Keys, ReserveUnit(k) \/ ReleaseUnit(k)
  PROVE  ImportInv'
<1> DEFINE status == IF ReserveUnit(k) THEN "reserved" ELSE "available"
<1>1. /\ items \in [Keys -> Item]
      /\ items' = [items EXCEPT ![k].status = status]
      /\ items[k].status \in {"available", "reserved"}
      /\ status \in {"available", "reserved"}
  BY DEF ImportInv, ImportTypes, ReserveUnit, ReleaseUnit
<1>2. None # "available" /\ None # "reserved"
  BY ImportsAssumption
<1>3. items[k].made # 0 /\ ForUnits
  BY <1>1, <1>2 DEF ImportInv, Priced
<1> HIDE DEF status
<1>4. \A j \in Keys : /\ items'[j] \in Item /\ items'[j].made = items[j].made /\ items'[j].amount = items[j].amount
                      /\ items'[j].status = IF j = k THEN status ELSE items[j].status
  <2>1. ASSUME NEW s \in {"available", "reserved"}, NEW i \in Item
        PROVE  [i EXCEPT !.status = s] \in Item /\ [i EXCEPT !.status = s].made = i.made
               /\ [i EXCEPT !.status = s].amount = i.amount /\ [i EXCEPT !.status = s].status = s
    BY DEF Item
  <2>2. \A j \in Keys : items'[j] = IF j = k THEN [items[k] EXCEPT !.status = status] ELSE items[j]
    BY <1>1
  <2>3. items[k] \in Item
    BY <1>1
  <2> QED
    BY <1>1, <2>1, <2>2, <2>3
<1>5. items' \in [Keys -> Item]
  <2>1. DOMAIN items' = Keys /\ items' = [j \in DOMAIN items' |-> items'[j]]
    BY <1>1
  <2> QED
    BY <1>4, <2>1
<1>6. ASSUME NEW w \in Callers, importCall[w].pc = "save" PROVE RowOf(importCall[w]).key \in Keys
  <2> DEFINE c == importCall[w]
  <2>1. c \in ImportCalls /\ c.plan # << >>
    BY <1>6 DEF ImportInv, ImportTypes, Priced, SavePriced
  <2> HIDE DEF c
  <2>2. c.pc = "save" => c.plan \in Seq(PlanRow)
    BY <2>1, Calls DEF Rowwise
  <2>3. c.pc = "save" => Head(c.plan) \in PlanRow
    BY <2>1, <2>2, HeadAndTail
  <2> QED
    BY <1>6, <2>3 DEF RowOf, PlanRow, c
<1>7. /\ target' = target /\ session' = session /\ projects' = projects /\ importCall' = importCall
      /\ confirms' = confirms /\ reviews' = reviews /\ written' = written /\ overlapped' = overlapped
      /\ agreed' \in [Keys -> Int]
      /\ ReserveUnit(k) => /\ agreed' = [agreed EXCEPT ![k] = items[k].amount]
                           /\ torn' = (torn \/ \E w \in Callers : importCall[w].pc = "save" /\ RowOf(importCall[w]).key = k)
      /\ ~ ReserveUnit(k) => agreed' = agreed /\ torn' = torn
  <2>1. agreed \in [Keys -> Int] /\ items[k].amount \in Int
    BY <1>1 DEF ImportInv, ImportTypes, Item
  <2>2. CASE ReserveUnit(k)
    BY <2>1, <2>2 DEF ReserveUnit, RowOf
  <2>3. CASE ~ ReserveUnit(k)
    BY <2>1, <2>3 DEF ReleaseUnit
  <2> QED
    BY <2>2, <2>3
<1>8. ImportTypes'
  BY <1>5, <1>7 DEF ImportInv, ImportTypes
<1>9. Priced'
  <2>1. \A j \in Keys : items'[j].made = 0 \/ ~ ForUnits' => items'[j].status = None
    BY <1>3, <1>4, <1>7 DEF ImportInv, Priced, ForUnits
  <2>2. ~ torn' => ~ torn
    BY <1>7
  <2>3. ASSUME ~ torn', NEW j \in Keys, items'[j].status = "reserved" PROVE items'[j].amount = agreed'[j]
    <3>1. CASE j # k
      BY <1>4, <1>7, <2>2, <2>3, <3>1 DEF ImportInv, ImportTypes, Priced
    <3>2. CASE j = k
      <4>1. status = "reserved"
        BY <1>4, <2>3, <3>2
      <4>2. ReserveUnit(k)
        BY <4>1 DEF status
      <4> QED
        BY <1>4, <1>7, <3>2, <4>2 DEF ImportInv, ImportTypes
    <3> QED
      BY <3>1, <3>2
  <2>4. ASSUME NEW w \in Callers PROVE SavePriced(importCall[w])'
    <3> DEFINE c == importCall[w]
               key == RowOf(c).key
    <3>1. SavePriced(c) /\ importCall'[w] = c
      BY <1>7 DEF ImportInv, Priced
    <3>2. ASSUME c.pc = "save", ~ torn' PROVE items'[key].status # "reserved"
      <4>1. key \in Keys /\ items[key].status # "reserved"
        BY <1>6, <2>2, <3>1, <3>2 DEF SavePriced
      <4>2. CASE key # k
        BY <1>4, <4>1, <4>2
      <4>3. CASE key = k
        <5>1. ~ ReserveUnit(k)
          BY <1>7, <3>2, <4>3
        <5>2. status = "available"
          BY <5>1 DEF status
        <5> QED
          BY <1>4, <4>3, <5>2
      <4> QED
        BY <4>2, <4>3
    <3> HIDE DEF key, c
    <3>3. (c.pc = "save" => /\ ForUnits' /\ c.plan # << >>
                            /\ RowOf(c).update => c.unit.status = "available" /\ c.unit.made > 0
                            /\ ~ torn' => items'[RowOf(c).key].status # "reserved")
      BY <1>7, <3>1, <3>2 DEF SavePriced, ForUnits, key
    <3> QED
      BY <3>1, <3>3 DEF SavePriced, RowOf, c
  <2> QED
    BY <2>1, <2>3, <2>4 DEF Priced
<1>10. PaidOnce'
  <2>1. target' = target /\ target \notin {"lead", "payment"}
    BY <1>3, <1>7 DEF ForUnits
  <2> QED
    BY <2>1 DEF PaidOnce, RowsApart
<1>11. WrittenAlone'
  <2>1. ASSUME ~ overlapped, NEW w \in Callers PROVE StillMissing(importCall[w])' /\ StillFree(importCall[w])'
    <3>1. StillMissing(importCall[w]) /\ StillFree(importCall[w]) /\ importCall'[w] = importCall[w]
      BY <1>7, <2>1 DEF ImportInv, WrittenAlone
    <3> QED
      BY <1>4, <1>6, <1>7, <3>1 DEF StillMissing, StillFree, RowOf, Rowwise
  <2> QED
    BY <1>4, <1>7, <2>1 DEF ImportInv, WrittenAlone, Writes
<1>12. Documented'
  BY <1>7 DEF ImportInv, Documented, Reviewed, Resting, YetToWrite, Writes, RowOnce, Rowwise, OneRow
<1> QED
  BY <1>8, <1>9, <1>10, <1>11, <1>12 DEF ImportInv

(* Steps that none of this depends on. *)
LEMMA OtherKeeps ==
  ASSUME ImportInv, CorrectField \/ DayPasses \/ UNCHANGED importVars
  PROVE  ImportInv'
<1>1. /\ target' = target /\ session' = session /\ projects' = projects /\ importCall' = importCall
      /\ items' = items /\ agreed' = agreed /\ torn' = torn
      /\ confirms' = confirms /\ reviews' = reviews /\ written' = written /\ overlapped' = overlapped
  BY DEF CorrectField, DayPasses, importVars
<1>2. Priced' /\ ImportTypes'
  BY <1>1 DEF ImportInv, ImportTypes, Priced, SavePriced, ForUnits, RowOf
<1>3. PaidOnce'
  BY <1>1 DEF ImportInv, PaidOnce, RowsApart, Afforded, DueOn, Owes
<1>4. WrittenAlone'
  BY <1>1 DEF ImportInv, WrittenAlone, Writes, StillMissing, StillFree, RowOf, Rowwise
<1>5. Documented'
  BY <1>1 DEF ImportInv, Documented, Reviewed, Resting, YetToWrite, Writes, RowOnce, Rowwise, OneRow
<1> QED
  BY <1>2, <1>3, <1>4, <1>5 DEF ImportInv

LEMMA ImportsStart == ImportsInit => ImportInv
<1> SUFFICES ASSUME ImportsInit PROVE ImportInv
  OBVIOUS
<1>1. \A w \in Callers : importCall[w].pc = "idle"
  BY DEF ImportsInit, Rest
<1>2. /\ target \in ImportTargetType \cup {"document"}
      /\ session \in Session /\ (target = "document" => OneRow(session))
  BY ImportsAssumption DEF ImportsInit, Session, ImportStatus, OneRow
<1>3. Absent \in Item /\ Absent.made = 0 /\ Absent.status = None /\ None # "reserved"
  BY ImportsAssumption DEF Absent, Item
<1>4. \A row \in Rows : Unit(row) \in Item /\ Unit(row).made = 1 /\ Unit(row).status = "available"
  BY RowTypes DEF Unit, Item
<1>5. items \in [Keys -> Item]
  BY <1>3, <1>4 DEF ImportsInit
<1>6. \A k \in Keys : \/ items[k] = Absent
                      \/ target \in {"inventory_unit", "document"} /\ \E row \in Rows : items[k] = Unit(row)
  BY DEF ImportsInit
<1>7. \A k \in Keys : items[k].made <= 1 /\ items[k].status # "reserved" /\ items[k].made \in Nat
  BY <1>3, <1>4, <1>6
<1>8. importCall \in [Callers -> ImportCalls] /\ projects \in [Names -> Nat] /\ agreed \in [Keys -> Int]
  BY DEF ImportsInit, ImportCalls
<1>9. ImportTypes
  BY <1>2, <1>5, <1>8 DEF ImportTypes, ImportsInit
<1>10. Priced
  BY <1>1, <1>3, <1>4, <1>6, <1>7 DEF Priced, SavePriced, ForUnits
<1>11. PaidOnce
  <2>1. ASSUME target = "payment", NEW k \in Keys PROVE items[k].amount <= Owed /\ Afforded(k)
    <3>1. DueOn(k) = {}
      BY <1>1 DEF DueOn, Owes
    <3>2. items[k].made = 0 /\ items[k].amount = 0
      BY <1>6, <2>1 DEF Absent
    <3> QED
      BY <3>1, <3>2, FS_EmptySet, ImportsAssumption DEF Afforded, ImportsInit
  <2> QED
    BY <1>1, <1>7, <2>1 DEF PaidOnce, RowsApart
<1>12. WrittenAlone
  <2>1. \A n \in Names : projects[n] <= 1
    BY DEF ImportsInit
  <2> QED
    BY <1>1, <1>7, <2>1 DEF WrittenAlone, Writes, StillMissing, StillFree, Rowwise
<1>13. Documented
  BY <1>1, <1>2 DEF Documented, Reviewed, RowOnce, YetToWrite, Rowwise, ImportsInit
<1> QED
  BY <1>9, <1>10, <1>11, <1>12, <1>13 DEF ImportInv

LEMMA ImportsStep == ImportInv /\ [ImportsNext]_importVars => ImportInv'
<1> SUFFICES ASSUME ImportInv, [ImportsNext]_importVars PROVE ImportInv'
  OBVIOUS
<1>1. ASSUME NEW w \in Callers, NEW creates \in BOOLEAN, PreviewImport(w, creates) \/ ConfirmImport(w, creates)
      PROVE  ImportInv'
  BY <1>1, PreviewKeeps, ConfirmKeeps
<1>2. ASSUME NEW w \in Callers, NEW status \in {"reviewed", "rejected"}, ReviewDocument(w, status)
      PROVE  ImportInv'
  BY <1>2, ReviewKeeps
<1>3. ASSUME NEW w \in Callers,
             \/ SaveStamp(w) \/ EvaluateRows(w) \/ ImportLead(w) \/ ImportPayment(w)
             \/ CreateProject(w) \/ CheckUnit(w) \/ SaveUnit(w) \/ EndRows(w) \/ MarkImported(w)
      PROVE  ImportInv'
  BY <1>3, StampKeeps, EvaluateKeeps, LeadKeeps, PaymentKeeps, CreateKeeps, CheckKeeps, SaveUnitKeeps,
     EndKeeps, MarkKeeps
<1>4. ASSUME NEW k \in Keys, ReserveUnit(k) \/ ReleaseUnit(k) PROVE ImportInv'
  BY <1>4, StatusKeeps
<1>5. CASE CorrectField \/ DayPasses \/ UNCHANGED importVars
  BY <1>5, OtherKeeps
<1>6. CASE StopImports
  BY <1>6, StopKeeps
<1> QED
  BY <1>1, <1>2, <1>3, <1>4, <1>5, <1>6 DEF ImportsNext

LEMMA ImportsHold == ImportInv => ImportKeeps
<1> SUFFICES ASSUME ImportInv PROVE ImportKeeps
  OBVIOUS
<1>1. ASSUME target = "payment", NEW k \in Keys PROVE items[k].made <= confirms /\ items[k].amount <= Owed
  <2>1. Afforded(k) /\ items[k].amount <= Owed /\ items[k].made \in Nat /\ confirms \in Nat
    BY <1>1 DEF ImportInv, PaidOnce, ImportTypes, Item
  <2>2. Cardinality(DueOn(k)) \in Nat
    BY <2>1, FS_CardinalityType DEF Afforded
  <2> QED
    BY <2>1, <2>2 DEF Afforded
<1>2. ~ overlapped => written <= 1 + reviews
  BY DEF ImportInv, Documented, ImportTypes
<1>3. ~ torn => \A k \in Keys : items[k].status = "reserved" => items[k].amount = agreed[k]
  BY DEF ImportInv, Priced
<1>4. /\ target = "lead" => \A k \in Keys : items[k].made <= 1
      /\ ~ overlapped => /\ target # "payment" => \A k \in Keys : items[k].made <= 1
                         /\ \A n \in Names : projects[n] <= 1
  BY DEF ImportInv, PaidOnce, WrittenAlone
<1> QED
  BY <1>1, <1>2, <1>3, <1>4 DEF ImportKeeps

(* However often a file is confirmed, by whoever at once, and whatever is   *)
(* cut short: the price of a unit that is reserved stays the one agreed, a  *)
(* person is imported once, an installment is paid at most once per         *)
(* confirmation and never beyond what it amounts to; a confirmation that is *)
(* alone keeps codes and projects unique and imports a document once per    *)
(* review (inventory-import.service.ts:181-190, payment-import.service.ts:  *)
(* 76-84, lead-import.service.ts:168-175).                                  *)
THEOREM ImportsAreKept == ImportsSpec => []ImportKeeps
<1>1. ImportsInit => ImportInv
  BY ImportsStart
<1>2. ImportInv /\ [ImportsNext]_importVars => ImportInv'
  BY ImportsStep
<1>3. ImportInv => ImportKeeps
  BY ImportsHold
<1> QED
  BY <1>1, <1>2, <1>3, PTL DEF ImportsSpec
=============================================================================

----------------------------- MODULE Registers -----------------------------
(***************************************************************************)
(* The registers of the office: leave requests, maintenance tickets, legal *)
(* documents, purchase orders, vendors, campaigns, messages, tasks, broker *)
(* companies, quotations and the two kinds of commissions.  Each is a      *)
(* document with a status, each operation reads it, checks the status,     *)
(* saves a copy, and most routes then announce the change to the           *)
(* automation engine, which runs a workflow once per dedupeKey             *)
(* (getOrCreateRun, Automation.tla).                                       *)
(*                                                                         *)
(* A register is a table: the status of a new document, the moves of its   *)
(* service, the events of its routes.  One document at a time is modelled; *)
(* documents of a register share nothing.                                  *)
(***************************************************************************)
EXTENDS Desk, Naturals

CONSTANTS
  Registers,    \* the registers of this instance, names of fields of Registry
  Reentrant     \* those whose moves lead back to a status left before

(* An operation may move a document from any of the statuses `from`; `to`   *)
(* is None when it saves the status it has read.                         *)
Move(op, from, to) == [op |-> op, from |-> from, to |-> to]
Moves(op, table) == UNION {{Move(op, {s}, t) : t \in table[s]} : s \in DOMAIN table}
-----------------------------------------------------------------------------
LeaveRequestStatus == {"pending", "approved", "rejected", "cancelled"}
LeaveMoves == {Move("approve", {"pending"}, "approved"), Move("reject", {"pending"}, "rejected"),
               Move("cancel", {"pending"}, "cancelled")}
LeaveEvents == [create |-> "created", approve |-> "decided", reject |-> "decided"]

MaintenanceStatus == {"open", "in_progress", "resolved", "closed"}
TicketTransitions == [open |-> {"in_progress", "closed"}, in_progress |-> {"resolved", "open"},
                      resolved |-> {"closed", "in_progress"}, closed |-> {}]
TicketMoves == Moves("status", TicketTransitions)
                 \cup {Move("assign", {"open", "in_progress"}, None)}
TicketEvents == [create |-> "created", status |-> "status_changed"]

LegalDocumentStatus == {"pending", "received", "verified", "rejected"}
LegalMoves == {Move("receive", {"pending"}, "received"), Move("verify", {"received"}, "verified"),
               Move("reject", LegalDocumentStatus \ {"verified"}, "rejected")}
LegalEvents == [receive |-> "status_changed", verify |-> "status_changed", reject |-> "status_changed"]

VendorStatus == {"active", "inactive"}
VendorMoves == {Move("deactivate", VendorStatus, "inactive")}

PurchaseOrderStatus == {"draft", "approved", "fulfilled", "cancelled"}
(* Mutant: an order nobody approved may be fulfilled. *)
OrderMovesHasty == {Move("approve", {"draft"}, "approved"), Move("fulfil", {"draft", "approved"}, "fulfilled"),
                    Move("cancel", {"draft", "approved"}, "cancelled")}
OrderMoves == {Move("approve", {"draft"}, "approved"), Move("fulfil", {"approved"}, "fulfilled"),
               Move("cancel", {"draft", "approved"}, "cancelled")}
OrderEvents == [create |-> "created", approve |-> "status_changed", fulfil |-> "status_changed",
                cancel |-> "status_changed"]

CampaignStatus == {"planned", "active", "completed", "cancelled"}
CampaignTransitions == [planned |-> {"active", "cancelled"}, active |-> {"completed", "cancelled"},
                        completed |-> {}, cancelled |-> {}]
CampaignEvents == [status |-> "status_changed"]

MessageStatus == {"sent", "read"}
MessageMoves == {Move("markRead", {"sent"}, "read")}

TaskStatus == {"open", "done", "cancelled"}
TaskMoves == {Move("complete", {"open"}, "done"), Move("cancel", {"open"}, "cancelled")}

BrokerCompanyStatus == {"pending", "approved", "suspended", "rejected"}
BrokerMoves == {Move("approve", {"pending"}, "approved"), Move("suspend", {"approved"}, "suspended")}

CommissionStatus == {"pending", "approved", "paid"}
CommissionMoves == {Move("approve", {"pending"}, "approved")}

SalesCommissionStatus == {"pending", "approved", "paid", "clawed_back"}
SalesCommissionMoves == {Move("approve", {"pending"}, "approved"), Move("pay", {"approved"}, "paid"),
                         Move("clawback", {"approved", "paid"}, "clawed_back")}
SalesCommissionEvents == [create |-> "recorded", approve |-> "status_changed", pay |-> "status_changed",
                          clawback |-> "status_changed"]

QuotationStatus == {"draft", "generated", "sent", "accepted", "expired", "cancelled"}
QuotationMoves == {Move("status", QuotationStatus, s) : s \in QuotationStatus}

Silent == [none |-> "none"]   \* routes that announce nothing
Register(birth, status, moves, events) ==
  [birth |-> birth, status |-> status, moves |-> moves, events |-> events]

Registry ==
  [leave      |-> Register("pending", LeaveRequestStatus, LeaveMoves, LeaveEvents),
   ticket     |-> Register("open", MaintenanceStatus, TicketMoves, TicketEvents),
   legal      |-> Register("pending", LegalDocumentStatus, LegalMoves, LegalEvents),
   vendor     |-> Register("active", VendorStatus, VendorMoves, Silent),
   order      |-> Register("draft", PurchaseOrderStatus, OrderMoves, OrderEvents),
   campaign   |-> Register("planned", CampaignStatus, Moves("status", CampaignTransitions), CampaignEvents),
   message    |-> Register("sent", MessageStatus, MessageMoves, Silent),
   task       |-> Register("open", TaskStatus, TaskMoves, Silent),
   broker     |-> Register("pending", BrokerCompanyStatus, BrokerMoves, Silent),
   commission |-> Register("pending", CommissionStatus, CommissionMoves, Silent),
   quotation  |-> Register("generated", QuotationStatus, QuotationMoves, Silent),
   sales      |-> Register("pending", SalesCommissionStatus, SalesCommissionMoves, SalesCommissionEvents)]

ASSUME RegistersAssumption ==
  /\ Registers \subseteq DOMAIN Registry /\ Reentrant \subseteq Registers
  /\ "ticket" \in Registers => "ticket" \in Reentrant
  /\ \A r \in Registers : None \notin Registry[r].status
-----------------------------------------------------------------------------
VARIABLES
  register,  \* the register the document belongs to
  doc,       \* its status, or None before it is created
  call,      \* [Callers -> a call in progress: what it saves, what it has read]
  heard,     \* the dedupeKeys for which the automation engine has a run
  past,      \* auxiliary: the statuses the document has had
  told,      \* auxiliary: the keys under which a change of status was announced
  muted,     \* auxiliary: the keys under which another one was, and got no run
  stale       \* auxiliary: a save has overwritten a status its call had not read

registersVars == <<register, doc, call, heard, past, told, muted, stale>>

Here == Registry[register]

RegistersInit ==
  /\ register \in Registers
  /\ doc = None
  /\ call = [w \in Callers |-> Rest]
  /\ heard = {}
  /\ past = {}
  /\ told = {}
  /\ muted = {}
  /\ stale = FALSE

(* What follows a save: the event of the route, if it has one. *)
Announce(w, op, to, seen) ==
  call' = Becomes(call, w, IF op \in DOMAIN Here.events
                             THEN [pc |-> "emit", op |-> op, to |-> to, seen |-> seen]
                             ELSE Rest)

CreateDoc(w) ==
  /\ call[w].pc = "idle"
  /\ doc = None
  /\ doc' = Here.birth
  /\ past' = {Here.birth}
  /\ Announce(w, "create", Here.birth, None)
  /\ UNCHANGED <<register, heard, told, muted, stale>>

ReadDoc(w, m) ==
  /\ call[w].pc = "idle"
  /\ doc \in m.from
  /\ call' = Becomes(call, w, [pc |-> "save", op |-> m.op, seen |-> doc,
                               to |-> IF m.to = None THEN doc ELSE m.to])
  /\ UNCHANGED <<register, doc, heard, past, told, muted, stale>>

SaveDoc(w) ==
  /\ call[w].pc = "save"
  /\ doc' = call[w].to
  /\ past' = past \cup {call[w].to}
  /\ stale' = (stale \/ doc # call[w].seen)
  /\ Announce(w, call[w].op, call[w].to, call[w].seen)
  /\ UNCHANGED <<register, heard, told, muted>>

(* Mutant: the key names the document alone. *)
DedupeKeyOfDocument(w) == <<Here.events[call[w].op], None>>

(* The id of the document is left out of the key: there is one document. *)
DedupeKey(w) ==
  LET event == Here.events[call[w].op]
  IN  <<event, IF event = "status_changed" THEN call[w].to ELSE None>>

EmitChange(w) ==
  /\ call[w].pc = "emit"
  /\ heard' = heard \cup {DedupeKey(w)}
  /\ LET change == IF call[w].to = call[w].seen THEN {} ELSE {DedupeKey(w)}
     IN  /\ muted' = muted \cup (change \cap told)
         /\ told' = told \cup change
  /\ call' = Becomes(call, w, Rest)
  /\ UNCHANGED <<register, doc, past, stale>>

StopOffice ==
  /\ ~ Quiet(call)
  /\ call' = [w \in Callers |-> Rest]
  /\ UNCHANGED <<register, doc, heard, past, told, muted, stale>>

RegistersNext ==
  \/ \E w \in Callers :
       \/ CreateDoc(w)
       \/ \E m \in Here.moves : ReadDoc(w, m)
       \/ SaveDoc(w)
       \/ EmitChange(w)
  \/ StopOffice

RegistersSpec == RegistersInit /\ [][RegistersNext]_registersVars
-----------------------------------------------------------------------------
(* As long as no two calls overlap on a document, each change of its status *)
(* that is announced gets a workflow run of its own: no two changes share a *)
(* dedupeKey (event-bus.ts:8-12, automation.service.ts:565-580).            *)
ChangesHeard == register \notin Reentrant /\ ~ stale => muted = {}

(* The statuses that something else must have come before. *)
Precedes ==
  {<<"order", "fulfilled", "approved">>, <<"sales", "paid", "approved">>,
   <<"sales", "clawed_back", "approved">>, <<"legal", "verified", "received">>,
   <<"campaign", "completed", "active">>, <<"broker", "suspended", "approved">>,
   <<"ticket", "resolved", "in_progress">>}

(* However calls overlap and wherever the process stops, nothing is paid,   *)
(* fulfilled, verified, completed or suspended that was not approved,       *)
(* received or active before.                                               *)
Earned == \A p \in Precedes : register = p[1] /\ doc = p[2] => p[3] \in past
=============================================================================

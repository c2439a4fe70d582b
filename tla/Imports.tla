------------------------------ MODULE Imports ------------------------------
(***************************************************************************)
(* Files become leads, units or payments: an upload is parsed into rows    *)
(* (import-session.service), the preview saves how columns map to fields,  *)
(* the confirmation evaluates every row against what is stored at that     *)
(* moment and then writes the rows that fit one by one, each through the   *)
(* service that owns it, which checks again (lead-import, inventory-import *)
(* and payment-import.service).  The values read from a PDF are imported   *)
(* as one row of a unit (document-intelligence.service).                   *)
(*                                                                         *)
(* The locks of createLead and recordPayment make one step of each; they   *)
(* are in Pipeline and Ledger.  Units have none in this path.              *)
(***************************************************************************)
EXTENDS Desk, Integers, SequencesExt

CONSTANTS
  Targets,      \* what files are imported into, some of ImportTargetType or "document"
  Files,        \* the files uploaded, sequences of rows [key, project, amount]
  Projects,     \* the projects there are before, those of rows may be others
  Owed,         \* what each installment amounts to
  MaxConfirms,  \* bounds the confirmations
  MaxReviews    \* bounds the reviews of a document

ImportTargetType == {"lead", "inventory_unit", "payment"}
Rows == UNION {Range(file) : file \in Files}
Keys == {row.key : row \in Rows}   \* a person, the code of a unit, an installment

ASSUME ImportsAssumption ==
  /\ Targets \subseteq ImportTargetType \cup {"document"}
  /\ \A file \in Files : file \in Seq(Range(file))
  /\ \A row \in Rows : row.amount \in Int
  /\ None \notin {"available", "reserved"}
  /\ Owed \in Nat /\ MaxConfirms \in Nat /\ MaxReviews \in Nat
-----------------------------------------------------------------------------
VARIABLES
  target,     \* what this file becomes
  session,    \* [rows, status, mapped, creates: missing projects are created]
  expired,    \* a day has passed since the upload
  legible,    \* every field the import of a document requires has a value
  items,      \* [Keys -> [made: documents with the key, status, project, amount]]
  projects,   \* [names -> how many projects have it]
  importCall, \* [Callers -> a call in progress]
  confirms,   \* auxiliary: the confirmations begun
  reviews,    \* auxiliary: the reviews saved
  written,    \* auxiliary: the rows written from a document
  agreed,     \* auxiliary: [Keys -> the amount of a unit when it was reserved]
  overlapped, \* auxiliary: two confirmations were under way at once, or one was cut short
  torn        \* auxiliary: a unit was reserved between the read and the save of an update

importVars == <<target, session, expired, legible, items, projects, importCall,
                confirms, reviews, written, agreed, overlapped, torn>>

Names == {row.project : row \in Rows} \cup Projects
Absent == [made |-> 0, status |-> None, project |-> None, amount |-> 0]
Unit(row) == [made |-> 1, status |-> "available", project |-> row.project, amount |-> 0]

ImportsInit ==
  /\ target \in Targets
  /\ \E file \in Files :
       /\ target = "document" => Len(file) = 1
       /\ session = [rows |-> file, mapped |-> target = "document", creates |-> FALSE,
                     status |-> IF target = "document" THEN "extracted" ELSE "uploaded"]
  /\ expired = FALSE
  /\ legible = TRUE
  /\ items \in {[k \in Keys |-> Absent]}
                 \cup {[k \in Keys |-> IF k = row.key THEN Unit(row) ELSE Absent] :
                         row \in {r \in Rows : r.project \in Projects /\ target \in {"inventory_unit", "document"}}}
  /\ projects = [n \in Names |-> IF n \in Projects THEN 1 ELSE 0]
  /\ importCall = [w \in Callers |-> Rest]
  /\ confirms = 0 /\ reviews = 0 /\ written = 0
  /\ agreed = [k \in Keys |-> 0]
  /\ overlapped = FALSE /\ torn = FALSE

Works(w, new) == importCall' = Becomes(importCall, w, new)
Writing(w) == importCall[w].pc \in {"evaluate", "rows", "save", "mark"}
-----------------------------------------------------------------------------
(* getSession: an expired session can only be read once it is confirmed. *)
Usable == ~ expired \/ session.status = "confirmed"

(* confirmMapping and markConfirmed: the session is read, and a copy saved; *)
(* so are markReviewed and rejectExtraction, whatever the status was.       *)
PreviewImport(w, creates) ==
  /\ importCall[w] = Rest
  /\ target # "document" /\ Usable
  /\ Works(w, [pc |-> "stamp", new |-> [session EXCEPT !.mapped = TRUE, !.creates = creates, !.status = "mapped"]])
  /\ UNCHANGED <<target, session, expired, legible, items, projects, confirms, reviews, written, agreed, overlapped, torn>>

ReviewDocument(w, status) ==
  /\ importCall[w] = Rest
  /\ target = "document" /\ reviews < MaxReviews
  /\ Works(w, [pc |-> "stamp", new |-> [session EXCEPT !.status = status]])
  /\ UNCHANGED <<target, session, expired, legible, items, projects, confirms, reviews, written, agreed, overlapped, torn>>

SaveStamp(w) ==
  /\ importCall[w].pc = "stamp"
  /\ session' = importCall[w].new
  /\ reviews' = IF target = "document" THEN reviews + 1 ELSE reviews
  /\ Works(w, Rest)
  /\ UNCHANGED <<target, expired, legible, items, projects, confirms, written, agreed, overlapped, torn>>

CorrectField ==
  /\ target = "document"
  /\ legible' = ~ legible
  /\ UNCHANGED <<target, session, expired, items, projects, importCall, confirms, reviews, written, agreed, overlapped, torn>>

(* The confirmation reads the session, or the run of the document: whether  *)
(* projects are created was asked with the preview, or is with it.         *)
Confirmable ==
  IF target = "document" THEN session.status \in {"extracted", "reviewed"} /\ legible
  ELSE Usable /\ session.mapped

ConfirmImport(w, creates) ==
  /\ importCall[w] = Rest
  /\ target # "document" => creates = session.creates
  /\ confirms < MaxConfirms
  /\ Confirmable
  /\ confirms' = confirms + 1
  /\ overlapped' = (overlapped \/ \E v \in Callers : Writing(v))
  /\ Works(w, [pc |-> "evaluate", copy |-> session, creates |-> creates])
  /\ UNCHANGED <<target, session, expired, legible, items, projects, reviews, written, agreed, torn>>
-----------------------------------------------------------------------------
(* evaluateRows: a row fits if what it names is there, if no row before it  *)
(* in the file claims the same, and if what is stored allows it.            *)
Claimed(row, plan) ==
  \E i \in DOMAIN plan :
    plan[i].key = row.key /\ (target \in {"inventory_unit", "document"} => plan[i].project = row.project)

Known(row) == projects[row.project] > 0
Existing(row) == items[row.key].made > 0 /\ items[row.key].project = row.project

Fits(row, plan, creates) ==
  /\ ~ Claimed(row, plan)
  /\ CASE target = "lead" -> items[row.key].made = 0
       [] target = "payment" -> items[row.key].amount < Owed /\ items[row.key].amount + row.amount <= Owed
       [] OTHER -> /\ Known(row) \/ creates
                   /\ Existing(row) => items[row.key].status = "available"

Planned(row) ==
  [key |-> row.key, project |-> row.project, amount |-> row.amount, pending |-> ~ Known(row),
   update |-> Known(row) /\ Existing(row)]

Plan(rows, creates) ==
  FoldLeft(LAMBDA so_far, row :
             IF Fits(row, so_far, creates) THEN Append(so_far, Planned(row)) ELSE so_far,
           <<>>, rows)

InRows(copy, plan, created, wrote) ==
  [pc |-> "rows", copy |-> copy, plan |-> plan, created |-> created, wrote |-> wrote]

EvaluateRows(w) ==
  LET c == importCall[w] IN
  /\ c.pc = "evaluate"
  /\ Works(w, InRows(c.copy, Plan(c.copy.rows, c.creates), {}, FALSE))
  /\ UNCHANGED <<target, session, expired, legible, items, projects, confirms, reviews, written, agreed, overlapped, torn>>

AtRow(w) == importCall[w].pc = "rows" /\ importCall[w].plan # <<>>
RowDone(w, wrote) ==
  LET c == importCall[w] IN Works(w, InRows(c.copy, Tail(c.plan), c.created, wrote))

(* A row for a lead, through createLead; a duplicate is an error of the row. *)
ImportLead(w) ==
  LET row == Head(importCall[w].plan) IN
  /\ target = "lead" /\ AtRow(w)
  /\ items' = IF items[row.key].made = 0 THEN [items EXCEPT ![row.key].made = 1] ELSE items
  /\ RowDone(w, TRUE)
  /\ UNCHANGED <<target, session, expired, legible, projects, confirms, reviews, written, agreed, overlapped, torn>>

(* A row for a payment, through recordPayment. *)
ImportPayment(w) ==
  LET row == Head(importCall[w].plan)
      line == items[row.key]
  IN  /\ target = "payment" /\ AtRow(w)
      /\ items' = IF line.amount + row.amount <= Owed
                    THEN [items EXCEPT ![row.key] = [line EXCEPT !.made = @ + 1, !.amount = @ + row.amount]]
                    ELSE items
      /\ RowDone(w, TRUE)
      /\ UNCHANGED <<target, session, expired, legible, projects, confirms, reviews, written, agreed, overlapped, torn>>

(* A missing project is created once per import, with the first row of it. *)
AtUnit(w) == target \in {"inventory_unit", "document"} /\ AtRow(w)
Missing(w) ==
  LET row == Head(importCall[w].plan) IN row.pending /\ row.project \notin importCall[w].created

CreateProject(w) ==
  LET c == importCall[w]
      project == Head(c.plan).project
  IN  /\ AtUnit(w) /\ Missing(w)
      /\ projects' = [projects EXCEPT ![project] = @ + 1]
      /\ Works(w, InRows(c.copy, c.plan, c.created \cup {project}, c.wrote))
      /\ UNCHANGED <<target, session, expired, legible, items, confirms, reviews, written, agreed, overlapped, torn>>

(* Mutant: the evaluation of the row is trusted. *)
UpdatableAsPlanned(unit) == TRUE
Updatable(unit) == unit.status = "available"

(* createUnit refuses a code the company has, updateUnitDetails a unit that *)
(* is no longer available; both are errors of the row.                      *)
CheckUnit(w) ==
  LET c == importCall[w]
      row == Head(c.plan)
      unit == items[row.key]
  IN  /\ AtUnit(w) /\ ~ Missing(w)
      /\ IF IF row.update THEN Updatable(unit) ELSE unit.made = 0
           THEN Works(w, [pc |-> "save", copy |-> c.copy, plan |-> c.plan, created |-> c.created,
                          wrote |-> c.wrote, unit |-> unit])
           ELSE RowDone(w, c.wrote)
      /\ UNCHANGED <<target, session, expired, legible, items, projects, confirms, reviews, written, agreed, overlapped, torn>>

SaveUnit(w) ==
  LET c == importCall[w]
      row == Head(c.plan)
  IN  /\ c.pc = "save"
      /\ items' = [items EXCEPT ![row.key] =
                     IF row.update THEN [c.unit EXCEPT !.amount = row.amount]
                     ELSE [made |-> @.made + 1, status |-> "available", project |-> row.project, amount |-> row.amount]]
      /\ written' = IF target = "document" THEN written + 1 ELSE written
      /\ RowDone(w, TRUE)
      /\ UNCHANGED <<target, session, expired, legible, projects, confirms, reviews, agreed, overlapped, torn>>

(* markConfirmed reads the session again; a document is saved as imported,  *)
(* as it was read before its row, if its row was written.                   *)
EndRows(w) ==
  LET c == importCall[w] IN
  /\ c.pc = "rows" /\ c.plan = <<>>
  /\ Works(w, CASE target = "document" /\ c.wrote -> [pc |-> "mark", new |-> [c.copy EXCEPT !.status = "imported"]]
                [] target # "document" /\ Usable -> [pc |-> "mark", new |-> [session EXCEPT !.status = "confirmed"]]
                [] OTHER -> Rest)
  /\ UNCHANGED <<target, session, expired, legible, items, projects, confirms, reviews, written, agreed, overlapped, torn>>

MarkImported(w) ==
  /\ importCall[w].pc = "mark"
  /\ session' = importCall[w].new
  /\ Works(w, Rest)
  /\ UNCHANGED <<target, expired, legible, items, projects, confirms, reviews, written, agreed, overlapped, torn>>
-----------------------------------------------------------------------------
(* Meanwhile units are reserved and released (Sales.tla), and time passes. *)
ReserveUnit(k) ==
  /\ items[k].status = "available"
  /\ items' = [items EXCEPT ![k].status = "reserved"]
  /\ agreed' = [agreed EXCEPT ![k] = items[k].amount]
  /\ torn' = (torn \/ \E w \in Callers : importCall[w].pc = "save" /\ Head(importCall[w].plan).key = k)
  /\ UNCHANGED <<target, session, expired, legible, projects, importCall, confirms, reviews, written, overlapped>>

ReleaseUnit(k) ==
  /\ items[k].status = "reserved"
  /\ items' = [items EXCEPT ![k].status = "available"]
  /\ UNCHANGED <<target, session, expired, legible, projects, importCall, confirms, reviews, written, agreed, overlapped, torn>>

DayPasses ==
  /\ ~ expired /\ target # "document"
  /\ expired' = TRUE
  /\ UNCHANGED <<target, session, legible, items, projects, importCall, confirms, reviews, written, agreed, overlapped, torn>>

StopImports ==
  /\ ~ Quiet(importCall)
  /\ importCall' = [w \in Callers |-> Rest]
  /\ overlapped' = (overlapped \/ \E w \in Callers : Writing(w))
  /\ UNCHANGED <<target, session, expired, legible, items, projects, confirms, reviews, written, agreed, torn>>

ImportsNext ==
  \/ \E w \in Callers :
       \/ \E creates \in BOOLEAN : PreviewImport(w, creates) \/ ConfirmImport(w, creates)
       \/ \E status \in {"reviewed", "rejected"} : ReviewDocument(w, status)
       \/ SaveStamp(w) \/ EvaluateRows(w)
       \/ ImportLead(w) \/ ImportPayment(w)
       \/ CreateProject(w) \/ CheckUnit(w) \/ SaveUnit(w)
       \/ EndRows(w) \/ MarkImported(w)
  \/ CorrectField
  \/ \E k \in Keys : ReserveUnit(k) \/ ReleaseUnit(k)
  \/ DayPasses
  \/ StopImports

ImportsSpec == ImportsInit /\ [][ImportsNext]_importVars
-----------------------------------------------------------------------------
(* However often a file is confirmed: an import never changes the price of  *)
(* a unit that is reserved, unless it was reserved between the read and the *)
(* save of the update; a person is imported once, an installment is paid at *)
(* most once per confirmation and never beyond what it amounts to.  Unless  *)
(* two confirmations overlap or one is cut short, codes and projects stay   *)
(* unique, and a document is imported at most once per review               *)
(* (inventory-import.service.ts:181-190, payment-import.service.ts:76-84,   *)
(* lead-import.service.ts:168-175).                                         *)
ImportKeeps ==
  /\ ~ torn => \A k \in Keys : items[k].status = "reserved" => items[k].amount = agreed[k]
  /\ target = "lead" => \A k \in Keys : items[k].made <= 1
  /\ target = "payment" => \A k \in Keys : items[k].made <= confirms /\ items[k].amount <= Owed
  /\ ~ overlapped =>
       /\ target # "payment" => \A k \in Keys : items[k].made <= 1
       /\ \A n \in Names : projects[n] <= 1
       /\ written <= 1 + reviews
=============================================================================

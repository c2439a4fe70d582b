---------------------------- MODULE LedgerProofs ----------------------------
(***************************************************************************)
(* Proofs about Ledger, for any schedule and any number of restarts.  While *)
(* no amendment meets another request (prices are not amended, or one       *)
(* request is served at a time), a line is announced as overdue once and    *)
(* only a refund takes money back, at any fraction of a cent; in whole      *)
(* cents the ledger and the lines agree.                                    *)
(*                                                                          *)
(* The invariant is about the requests inside a lock: the copy each will    *)
(* save is still the line, and between the save of the line and that of     *)
(* the row, the two differ by the amount of the one request inside.  The    *)
(* amendment takes no lock; alone, what it saves is the line but for its    *)
(* amount.                                                                  *)
(*                                                                          *)
(* What amendments do to the schedule, while one request is served at a     *)
(* time, and that receipts are numbered apart whatever happens, follow from *)
(* invariants of their own, at any prices and any fraction of a cent.       *)
(***************************************************************************)
EXTENDS Ledger, FoldProofs

WholeCents == Fraction = 1
PricesStand == NewPrices = {}

(* One request is served at a time: nothing else happens at its awaits. *)
OneAtATime == \A v, w \in Slots : v = w

(* No amendment meets a payment, a refund or a sweep. *)
AmendsAlone == PricesStand \/ OneAtATime

(* TypeOK, but for the price, which nothing here depends on. *)
Typed ==
  /\ lines \in [Lines -> LineRow]
  /\ due \subseteq Lines
  /\ payments \in [Lines -> Nat] /\ refunds \in [Lines -> Nat]
  /\ receiptCounter \in Nat /\ receipts \in Seq(Nat)
  /\ notices \in [Lines -> Nat]
  /\ lineLock \in [Lines -> Slots \cup {None}]
  /\ req \in [Slots -> Request]
  /\ restarts \in [count : Nat, torn : SUBSET Lines, repricing : BOOLEAN, receipts : Nat]

Inside == {"saveLine", "saveRow", "saveReceipt", "sweepSave"}

(* A request at a line is under its lock and of the kind its place says; its *)
(* copy is current, and what was checked on it still holds.  An amendment   *)
(* is under no lock, but alone: its copies differ from the lines in nothing *)
(* but the amount.                                                          *)
Covered(w) == WholeCents => req[w].amount <= lines[req[w].line].amountPaid

SameButAmount(row, other) == row.amountPaid = other.amountPaid /\ row.status = other.status
Restates(w) == \A l \in Lines : SameButAmount(req[w].copy[l], lines[l])

Place(w) ==
  /\ req[w].pc \in {"rescale", "rescaleSave"} => OneAtATime
  /\ req[w].pc = "rescaleSave" => Restates(w)
  /\ req[w].pc \in Inside \cup {"lock"} => req[w].line \in Lines
  /\ req[w].pc \in Inside => lineLock[req[w].line] = w
  /\ req[w].pc \in {"lock", "saveLine", "saveRow"} => req[w].op \in {"pay", "refund"}
  /\ req[w].pc \in {"saveLine", "sweepSave"} => req[w].copy[req[w].line] = lines[req[w].line]
  /\ req[w].pc = "saveLine" /\ req[w].op = "pay" => lines[req[w].line].status # "paid"
  /\ req[w].pc = "saveLine" /\ req[w].op = "refund" => Covered(w)
  /\ req[w].pc = "sweepSave" => /\ lines[req[w].line].status = "upcoming"
                                /\ req[w].line \in due

Pending(w, l) == req[w].pc = "saveRow" /\ req[w].line = l
Signed(w) == IF req[w].op = "pay" THEN req[w].amount ELSE 0 - req[w].amount
Apart(l, d) == lines[l].amountPaid = payments[l] - refunds[l] + d

(* What the line says, and what the rows say of it, as far as amounts that  *)
(* are no whole cents are not rounded away.                                 *)
Agreed == WholeCents => \A l \in Lines \ restarts.torn :
  /\ \A w \in Slots : Pending(w, l) => Apart(l, Signed(w))
  /\ (\A w \in Slots : ~ Pending(w, l)) => Apart(l, 0)

(* A line that a sweep has flagged is late for good, and one sweep at most  *)
(* has it to announce.                                                      *)
Flagged(w, l) == l \in req[w].swept

Announced == \A l \in Lines :
  /\ notices[l] <= 1
  /\ notices[l] = 1 \/ (\E w \in Slots : Flagged(w, l))
       => l \in due /\ lines[l].status # "upcoming"
  /\ \A w \in Slots : Flagged(w, l) => notices[l] = 0 /\ req[w].pc \in {"sweep", "sweepSave"}
  /\ \A v, w \in Slots : Flagged(v, l) /\ Flagged(w, l) => v = w

(* The numbers drawn in this life of the process, saved or about to be.     *)
Recent == restarts.receipts + 1 .. Len(receipts)

Numbered ==
  /\ restarts.receipts <= Len(receipts)
  /\ \A i \in Recent : receipts[i] <= receiptCounter
  /\ \A i, j \in Recent : receipts[i] = receipts[j] => i = j

Drawn == \A w \in Slots : req[w].pc = "saveReceipt" =>
  /\ req[w].amount <= receiptCounter
  /\ \A i \in Recent : receipts[i] # req[w].amount
  /\ \A v \in Slots : req[v].pc = "saveReceipt" /\ req[v].amount = req[w].amount => v = w

Inv ==
  /\ Typed
  /\ \A w \in Slots : Place(w)
  /\ Agreed
  /\ Announced
  /\ Numbered
  /\ Drawn
-----------------------------------------------------------------------------
(* A whole number of cents is rounded to itself.                            *)
LEMMA RoundWhole ==
  ASSUME WholeCents, NEW x \in Int
  PROVE  RoundCents(x) = x
<1>1. (2 * x + 1) \div 2 = x
  OBVIOUS
<1> QED
  BY <1>1 DEF RoundCents, WholeCents

(* What is rounded is a number of cents, and no smaller than the cents it    *)
(* was rounded from.                                                        *)
LEMMA RoundsToCents ==
  ASSUME NEW x \in Int
  PROVE  \E k \in Int : /\ RoundCents(x) = k * Fraction
                       /\ \A j \in Int : j * Fraction <= x => j <= k
<1> DEFINE t == 2 * x + Fraction
           z == 2 * Fraction
           k == t \div z
<1>1. Fraction \in Nat /\ Fraction > 0 /\ t \in Int /\ z \in Nat /\ z > 0
  BY ScheduleAssumption
<1>2. k \in Int /\ t < z * k + z
  <2> HIDE DEF t, z
  <2>1. t = z * (t \div z) + (t % z) /\ t % z < z /\ t \div z \in Int /\ t % z \in Int
    BY <1>1
  <2>2. z * (t \div z) \in Int
    BY <1>1, <2>1
  <2> QED
    BY <1>1, <2>1, <2>2
<1>3. RoundCents(x) = k * Fraction
  BY DEF RoundCents
<1> HIDE DEF k
<1>4. ASSUME NEW j \in Int, j * Fraction <= x PROVE j <= k
  <2> SUFFICES ASSUME j >= k + 1 PROVE FALSE
    BY <1>2
  <2>1. (j - (k + 1)) * Fraction >= 0
    BY <1>1, <1>2
  <2>2. (j - (k + 1)) * Fraction = j * Fraction - k * Fraction - Fraction
    BY <1>1, <1>2
  <2>3. z * k = 2 * (k * Fraction)
    BY <1>1, <1>2
  <2>4. j * Fraction \in Int /\ k * Fraction \in Int
    BY <1>1, <1>2
  <2> QED
    BY <1>1, <1>2, <1>4, <2>1, <2>2, <2>3, <2>4
<1> QED
  BY <1>2, <1>3, <1>4

(* An amount that is not negative is rounded to one that is not.            *)
LEMMA RoundNat ==
  ASSUME NEW x \in Nat
  PROVE  RoundCents(x) \in Nat
<1>1. PICK k \in Int : RoundCents(x) = k * Fraction /\ \A j \in Int : j * Fraction <= x => j <= k
  BY RoundsToCents
<1>2. 0 * Fraction = 0 /\ Fraction \in Nat
  BY ScheduleAssumption
<1>3. k >= 0
  BY <1>1, <1>2
<1>4. k * Fraction \in Nat
  BY <1>2, <1>3
<1> QED
  BY <1>1, <1>4

(* Math.max(0, x).                                                          *)
LEMMA MaxZero ==
  ASSUME NEW x \in Int
  PROVE  Max({0, x}) = (IF x >= 0 THEN x ELSE 0)
<1> DEFINE m == IF x >= 0 THEN x ELSE 0
<1>1. m \in {0, x} /\ \A y \in {0, x} : m >= y
  OBVIOUS
<1>2. \A z \in {0, x} : (\A y \in {0, x} : z >= y) => z = m
  OBVIOUS
<1> HIDE DEF m
<1>3. Max({0, x}) = m
  BY <1>1, <1>2 DEF Max
<1> QED
  BY <1>3 DEF m

LEMMA LinesAreNumbers == Lines \subseteq Nat /\ None \notin Slots
<1>1. Lines = 1 .. Len(Schedule)
  BY ScheduleAssumption DEF Lines
<1> QED
  BY <1>1, ScheduleAssumption, NoneAssumption

(* What recordPayment makes of a line.                                      *)
LEMMA PaymentRow ==
  ASSUME NEW row \in LineRow, NEW a \in Nat
  PROVE  /\ AfterPayment(row, a) \in LineRow
         /\ AfterPayment(row, a).amountPaid = RoundCents(row.amountPaid + a)
         /\ row.status # "upcoming" => AfterPayment(row, a).status # "upcoming"
<1> DEFINE x == RoundCents(row.amountPaid + a)
           paid == [row EXCEPT !.amountPaid = x]
           closed == [paid EXCEPT !.status = "paid"]
<1>1. x \in Nat
  BY RoundNat DEF LineRow
<1>2. AfterPayment(row, a) = IF Settled(paid) THEN closed ELSE paid
  BY Zenon DEF AfterPayment
<1> HIDE DEF x
<1>3. paid \in LineRow /\ paid.amountPaid = x /\ paid.status = row.status
  BY <1>1 DEF LineRow, LineStatus
<1> HIDE DEF paid
<1>4. closed \in LineRow /\ closed.amountPaid = paid.amountPaid /\ closed.status = "paid"
  BY <1>3 DEF LineRow, LineStatus
<1> HIDE DEF closed
<1> QED
  BY <1>2, <1>3, <1>4 DEF x

(* What recordRefund makes of a line.                                       *)
LEMMA RefundRow ==
  ASSUME NEW row \in LineRow, NEW a \in Nat, NEW late
  PROVE  /\ AfterRefund(row, a, late) \in LineRow
         /\ AfterRefund(row, a, late).amountPaid = Max({0, RoundCents(row.amountPaid - a)})
         /\ WholeCents /\ a <= row.amountPaid
              => AfterRefund(row, a, late).amountPaid = row.amountPaid - a
         /\ late => AfterRefund(row, a, late).status # "upcoming"
<1> DEFINE x == Max({0, RoundCents(row.amountPaid - a)})
           unpaid == [row EXCEPT !.amountPaid = x]
           status == IF Settled(unpaid) THEN "paid" ELSE IF late THEN "overdue" ELSE "upcoming"
<1>1. row.amountPaid \in Nat /\ row.amountPaid - a \in Int
  BY DEF LineRow
<1>2. RoundCents(row.amountPaid - a) \in Int
  <2>1. PICK k \in Int : RoundCents(row.amountPaid - a) = k * Fraction
    BY <1>1, RoundsToCents
  <2> QED
    BY <2>1, ScheduleAssumption
<1>3. x \in Nat
  BY <1>2, MaxZero
<1>4. WholeCents /\ a <= row.amountPaid => x = row.amountPaid - a
  BY <1>1, RoundWhole, MaxZero
<1>5. AfterRefund(row, a, late) = [unpaid EXCEPT !.status = status]
  BY Zenon DEF AfterRefund
<1> HIDE DEF x
<1>6. unpaid \in LineRow /\ unpaid.amountPaid = x
  BY <1>3 DEF LineRow, LineStatus
<1>7. status \in LineStatus /\ (late => status # "upcoming")
  BY DEF LineStatus
<1> HIDE DEF status, unpaid
<1>8. [unpaid EXCEPT !.status = status] \in LineRow
      /\ [unpaid EXCEPT !.status = status].amountPaid = unpaid.amountPaid
      /\ [unpaid EXCEPT !.status = status].status = status
  BY <1>6, <1>7 DEF LineRow
<1> QED
  BY <1>4, <1>5, <1>6, <1>7, <1>8 DEF x
-----------------------------------------------------------------------------
(* The requests of the others are untouched. *)
Others(w) == req' \in [Slots -> Request] /\ \A v \in Slots : v # w => req'[v] = req[v]

(* The slot of a request that has ended is a request record like any other. *)
LEMMA IdleRequest ==
  /\ Idle \in Request
  /\ Idle.pc = "idle" /\ Idle.swept = {} /\ Idle.line = None
<1>1. Blank \in [Lines -> LineRow]
  BY DEF Blank, LineRow, LineStatus
<1> QED
  BY <1>1 DEF Idle, Request, Ops, Pcs

(* The line and its rows stay as they are, and so do the requests between   *)
(* the two.                                                                 *)
LEMMA AgreedFrame ==
  ASSUME Agreed, UNCHANGED <<lines, payments, refunds>>,
         restarts.torn \subseteq restarts'.torn,
         \A v \in Slots :
           \/ req'[v] = req[v]
           \/ /\ req[v].pc # "saveRow" /\ req'[v].pc # "saveRow"
  PROVE  Agreed'
<1>1. \A l, d : Apart(l, d)' <=> Apart(l, d)
  BY DEF Apart
<1>2. \A v \in Slots, l \in Lines : Pending(v, l)' <=> Pending(v, l)
  BY DEF Pending
<1>3. \A v \in Slots, l \in Lines : Pending(v, l)' => Signed(v)' = Signed(v)
  BY DEF Pending, Signed
<1> QED
  BY <1>1, <1>2, <1>3 DEF Agreed

(* The receipts stay as they are, and nobody draws a number.                *)
LEMMA NumberedFrame ==
  ASSUME Numbered, Drawn, UNCHANGED <<receiptCounter, receipts>>,
         restarts'.receipts = restarts.receipts,
         \A v \in Slots : req'[v].pc = "saveReceipt" => req'[v] = req[v]
  PROVE  Numbered' /\ Drawn'
<1>1. Recent' = Recent
  BY DEF Recent
<1>2. Numbered'
  BY <1>1 DEF Numbered
<1>3. Drawn'
  BY <1>1 DEF Drawn
<1> QED
  BY <1>2, <1>3

(* The lines, their due dates and the announcements stay as they are, and   *)
(* nobody flags a line.                                                     *)
LEMMA AnnouncedFrame ==
  ASSUME Announced, UNCHANGED <<lines, due, notices>>,
         \A v \in Slots :
           \/ req'[v] = req[v]
           \/ req'[v].swept = {}
           \/ req'[v].swept = req[v].swept /\ req'[v].pc \in {"sweep", "sweepSave"}
  PROVE  Announced'
<1>1. \A v \in Slots, l \in Lines : Flagged(v, l)' =>
         Flagged(v, l) /\ req'[v].pc \in {"sweep", "sweepSave"}
  BY DEF Flagged, Announced
<1> QED
  BY <1>1 DEF Announced

(* The schedule as it was signed, and nothing else.                         *)
LEMMA InitInv == Init => Inv
<1> SUFFICES ASSUME Init PROVE Inv
  OBVIOUS
<1>1. \A w \in Slots : req[w] = Idle
  BY DEF Init
<1>2. Typed
  <2>1. Schedule \in [Lines -> Nat]
    BY ScheduleAssumption DEF Lines
  <2>2. lines \in [Lines -> LineRow]
    BY <2>1 DEF Init, LineRow, LineStatus
  <2>3. req \in [Slots -> Request]
    BY IdleRequest DEF Init
  <2> QED
    BY <2>2, <2>3 DEF Init, Typed
<1>3. \A w \in Slots : Place(w)
  BY <1>1, IdleRequest DEF Place, Inside
<1>4. Agreed
  BY <1>1, IdleRequest DEF Init, Agreed, Pending, Apart
<1>5. Announced
  BY <1>1, IdleRequest DEF Init, Announced, Flagged
<1>6. Numbered
  BY <1>1, IdleRequest DEF Init, Numbered, Recent
<1>7. Drawn
  BY <1>1, IdleRequest DEF Drawn
<1> QED
  BY <1>2, <1>3, <1>4, <1>5, <1>6, <1>7 DEF Inv

(* The step of a request does not disturb the others at their lines: it     *)
(* writes no line whose lock another one holds, and takes no lock from it.   *)
Frame(w) ==
  /\ \A l \in Lines : lineLock[l] \notin {None, w} =>
       lineLock'[l] = lineLock[l] /\ lines'[l] = lines[l]
  /\ due \subseteq due'

LEMMA OtherPlaces ==
  ASSUME \A v \in Slots : Place(v), NEW w \in Slots, Others(w), Frame(w)
  PROVE  \A v \in Slots : v # w => Place(v)'
<1> SUFFICES ASSUME NEW v \in Slots, v # w PROVE Place(v)'
  OBVIOUS
<1>1. req'[v] = req[v] /\ Place(v) /\ v # None
  BY NoneAssumption DEF Others
<1>0. req[v].pc \notin {"rescale", "rescaleSave"}
  BY <1>1 DEF Place, OneAtATime
<1>2. CASE req[v].pc \notin Inside
  BY <1>0, <1>1, <1>2 DEF Place, Inside
<1>3. CASE req[v].pc \in Inside
  <2> DEFINE l == req[v].line
  <2>1. l \in Lines /\ lineLock'[l] = v /\ lines'[l] = lines[l] /\ due \subseteq due'
    BY <1>1, <1>3 DEF Place, Frame
  <2>2. Covered(v) => Covered(v)'
    BY <1>1, <2>1 DEF Covered
  <2> QED
    BY <1>0, <1>1, <1>3, <2>1, <2>2 DEF Place
<1> QED
  BY <1>2, <1>3

(* A payment or a refund comes in.                                          *)
LEMMA StartInv ==
  ASSUME Inv, NEW w \in Slots, NEW op \in {"pay", "refund"}, NEW l \in Lines, NEW a \in Nat,
         Start(w, op, l, a)
  PROVE  Inv'
<1>1. /\ Others(w)
      /\ req'[w].pc = "lock" /\ req'[w].op = op /\ req'[w].line = l /\ req'[w].swept = {}
  <2>1. req \in [Slots -> Request] /\ "lock" \in Pcs /\ op \in Ops
    BY DEF Inv, Typed, Pcs, Ops
  <2>2. Become(w, [Idle EXCEPT !.op = op, !.pc = "lock", !.line = l, !.amount = a])
    BY DEF Start
  <2> QED
    BY <2>1, <2>2, IdleRequest DEF Become, Others, Request
<1>2. UNCHANGED <<lines, due, payments, refunds, receiptCounter, receipts, notices, lineLock,
                  restarts>> /\ req[w].pc = "idle"
  BY DEF Start, bookVars, IsIdle
<1>3. Typed'
  BY <1>1, <1>2 DEF Inv, Typed, Others
<1>4. \A v \in Slots : Place(v)'
  <2>1. Place(w)'
    BY <1>1 DEF Place, Inside
  <2>2. Frame(w)
    BY <1>2 DEF Frame
  <2> QED
    BY <1>1, <2>1, <2>2, OtherPlaces DEF Inv
<1>5. Agreed'
  BY <1>1, <1>2, AgreedFrame DEF Inv, Others
<1>6. Announced'
  BY <1>1, <1>2, AnnouncedFrame DEF Inv, Others
<1>7. Numbered' /\ Drawn'
  BY <1>1, <1>2, NumberedFrame DEF Inv, Others
<1> QED
  BY <1>3, <1>4, <1>5, <1>6, <1>7 DEF Inv

(* The line is read under its lock, which was free, or the request refused. *)
LEMMA ReadLineInv ==
  ASSUME Inv, NEW w \in Slots, ReadLine(w)
  PROVE  Inv'
<1> DEFINE l == req[w].line
<1>1. /\ req \in [Slots -> Request] /\ req[w] \in Request /\ l \in Lines
      /\ lines[l] \in LineRow /\ req[w].pc = "lock" /\ req[w].amount \in Nat
      /\ req[w].op \in {"pay", "refund"} /\ lineLock \in [Lines -> Slots \cup {None}]
      /\ lineLock[l] = None
  BY DEF Inv, Typed, Place, ReadLine, Free, Request
<1>2. UNCHANGED <<lines, due, payments, refunds, receiptCounter, receipts, notices, restarts>>
  BY DEF ReadLine, bookVars
<1>3. CASE Accepts(req[w].op, lines[l], req[w].amount)
  <2>1. /\ Others(w)
        /\ req'[w].pc = "saveLine" /\ req'[w].op = req[w].op /\ req'[w].line = l
        /\ req'[w].amount = req[w].amount /\ req'[w].swept = req[w].swept
        /\ req'[w].copy[l] = lines[l]
    <3> DEFINE c == [Blank EXCEPT ![l] = lines[l]]
    <3>1. c \in [Lines -> LineRow] /\ c[l] = lines[l] /\ "saveLine" \in Pcs
      BY <1>1 DEF Blank, LineRow, LineStatus, Pcs
    <3>2. Become(w, [req[w] EXCEPT !.pc = "saveLine", !.copy = c])
      BY <1>3 DEF ReadLine
    <3> HIDE DEF c
    <3> QED
      BY <1>1, <3>1, <3>2 DEF Become, Others, Request
  <2>2. lineLock' = [lineLock EXCEPT ![l] = w]
    BY <1>3 DEF ReadLine, Lock
  <2>3. Typed'
    BY <1>1, <1>2, <2>1, <2>2 DEF Inv, Typed, Others
  <2>4. \A v \in Slots : Place(v)'
    <3>1. req[w].op = "pay" => lines'[l].status # "paid"
      BY <1>2, <1>3 DEF Accepts
    <3>2. req[w].op = "refund" => Covered(w)'
      <4>1. req[w].op = "refund" /\ WholeCents => req[w].amount <= lines[l].amountPaid
        BY <1>1, <1>3 DEF Accepts, WholeCents, LineRow
      <4> QED
        BY <1>2, <2>1, <4>1 DEF Covered
    <3>3. Place(w)'
      BY <1>1, <1>2, <2>1, <2>2, <3>1, <3>2 DEF Place, Inside
    <3>4. Frame(w)
      BY <1>1, <1>2, <2>2 DEF Frame
    <3> QED
      BY <2>1, <3>3, <3>4, OtherPlaces DEF Inv
  <2>5. Agreed'
    BY <1>1, <1>2, <2>1, AgreedFrame DEF Inv, Others
  <2>6. Announced'
    <3>1. req[w].swept = {}
      BY <1>1 DEF Inv, Typed, Announced, Flagged, Request
    <3> QED
      BY <1>2, <2>1, <3>1, AnnouncedFrame DEF Inv, Others
  <2>7. Numbered' /\ Drawn'
    BY <1>2, <2>1, NumberedFrame DEF Inv, Others
  <2> QED
    BY <2>3, <2>4, <2>5, <2>6, <2>7 DEF Inv
<1>4. CASE ~ Accepts(req[w].op, lines[l], req[w].amount)
  <2>1. Others(w) /\ req'[w].pc = "idle" /\ req'[w].swept = {}
    BY <1>1, <1>4, IdleRequest DEF ReadLine, Finish, Become, Others
  <2>2. lineLock' = lineLock
    BY <1>4 DEF ReadLine
  <2>3. Typed'
    BY <1>2, <2>1, <2>2 DEF Inv, Typed, Others
  <2>4. \A v \in Slots : Place(v)'
    <3>1. Place(w)' /\ Frame(w)
      BY <1>2, <2>1, <2>2 DEF Place, Inside, Frame
    <3> QED
      BY <2>1, <3>1, OtherPlaces DEF Inv
  <2>5. Agreed' /\ Announced'
    BY <1>1, <1>2, <2>1, AgreedFrame, AnnouncedFrame DEF Inv, Others
  <2>6. Numbered' /\ Drawn'
    BY <1>2, <2>1, NumberedFrame DEF Inv, Others
  <2> QED
    BY <2>3, <2>4, <2>5, <2>6 DEF Inv
<1> QED
  BY <1>3, <1>4

(* The line is saved: it runs ahead of its rows by the amount of w, which    *)
(* nobody else can be in between of.                                         *)
LEMMA SaveLineInv ==
  ASSUME Inv, NEW w \in Slots, SaveLine(w)
  PROVE  Inv'
<1> DEFINE l == req[w].line
           row == IF req[w].op = "pay" THEN AfterPayment(lines[l], req[w].amount)
                                       ELSE AfterRefund(lines[l], req[w].amount, l \in due)
<1>1. /\ req \in [Slots -> Request] /\ req[w] \in Request /\ l \in Lines
      /\ lines \in [Lines -> LineRow] /\ lines[l] \in LineRow /\ req[w].pc = "saveLine"
      /\ req[w].amount \in Nat /\ req[w].op \in {"pay", "refund"} /\ lineLock[l] = w
      /\ req[w].copy[l] = lines[l]
  BY DEF Inv, Typed, Place, SaveLine, Request, Inside
<1>2. /\ lines' = [lines EXCEPT ![l] = row]
      /\ UNCHANGED <<due, payments, refunds, receiptCounter, receipts, notices, lineLock,
                     restarts>>
  BY <1>1 DEF SaveLine, bookVars
<1>3. /\ row \in LineRow
      /\ WholeCents => row.amountPaid = lines[l].amountPaid + Signed(w)
      /\ lines[l].status # "upcoming" /\ l \in due => row.status # "upcoming"
  <2>0. lines[l].amountPaid \in Nat
    BY <1>1 DEF LineRow
  <2>1. CASE req[w].op = "pay"
    <3>1. WholeCents => RoundCents(lines[l].amountPaid + req[w].amount) = lines[l].amountPaid + req[w].amount
      BY <1>1, <2>0, RoundWhole
    <3> QED
      BY <1>1, <2>1, <3>1, PaymentRow DEF Signed
  <2>2. CASE req[w].op = "refund"
    <3>1. WholeCents => req[w].amount <= lines[l].amountPaid
      BY <1>1, <2>2 DEF Inv, Place, Covered
    <3> DEFINE refunded == AfterRefund(lines[l], req[w].amount, l \in due)
    <3>2. /\ refunded \in LineRow
          /\ WholeCents /\ req[w].amount <= lines[l].amountPaid
               => refunded.amountPaid = lines[l].amountPaid - req[w].amount
          /\ l \in due => refunded.status # "upcoming"
      BY <1>1, RefundRow, Zenon
    <3>3. row = refunded
      BY <2>2, Zenon
    <3> HIDE DEF row, refunded
    <3>4. Signed(w) = 0 - req[w].amount
      BY <2>2 DEF Signed
    <3> QED
      BY <1>1, <2>0, <3>1, <3>2, <3>3, <3>4
  <2> QED
    BY <1>1, <2>1, <2>2
<1> HIDE DEF row
<1>4. /\ Others(w)
      /\ req'[w].pc = "saveRow" /\ req'[w].op = req[w].op /\ req'[w].line = l
      /\ req'[w].amount = req[w].amount /\ req'[w].swept = req[w].swept
  <2>1. Blank \in [Lines -> LineRow] /\ "saveRow" \in Pcs
    BY DEF Blank, LineRow, LineStatus, Pcs
  <2>2. Become(w, [req[w] EXCEPT !.pc = "saveRow", !.copy = Blank])
    BY DEF SaveLine
  <2> QED
    BY <1>1, <2>1, <2>2 DEF Become, Others, Request
<1>5. Typed'
  BY <1>1, <1>2, <1>3, <1>4 DEF Inv, Typed, Others
<1>6. \A v \in Slots : Place(v)'
  <2>1. Place(w)'
    BY <1>1, <1>2, <1>4 DEF Place, Inside
  <2>2. Frame(w)
    BY <1>1, <1>2 DEF Frame
  <2> QED
    BY <1>4, <2>1, <2>2, OtherPlaces DEF Inv
<1>7. \A v \in Slots : ~ Pending(v, l)
  BY <1>1 DEF Inv, Place, Pending, Inside
<1>8. Agreed'
  <2> SUFFICES ASSUME WholeCents, NEW k \in Lines, k \notin restarts.torn
               PROVE  /\ \A v \in Slots : Pending(v, k)' => Apart(k, Signed(v))'
                      /\ (\A v \in Slots : ~ Pending(v, k)') => Apart(k, 0)'
    BY <1>2 DEF Agreed
  <2>1. CASE k = l
    <3>1. \A v \in Slots : Pending(v, k)' <=> v = w
      BY <1>4, <1>7, <2>1 DEF Others, Pending
    <3>2. Apart(l, 0)
      BY <1>7, <2>1 DEF Inv, Agreed
    <3>3. Signed(w)' = Signed(w) /\ Signed(w) \in Int
      BY <1>1, <1>4 DEF Signed
    <3>4. lines'[l].amountPaid = lines[l].amountPaid + Signed(w)
      BY <1>1, <1>2, <1>3
    <3>5. payments[l] \in Nat /\ refunds[l] \in Nat /\ lines[l].amountPaid \in Nat
      BY <1>1 DEF Inv, Typed, LineRow
    <3>6. lines'[l].amountPaid = payments[l] - refunds[l] + Signed(w)
      BY <3>2, <3>3, <3>4, <3>5 DEF Apart
    <3>7. \A v \in Slots : Pending(v, k)' =>
            lines'[k].amountPaid = payments'[k] - refunds'[k] + Signed(v)'
      BY <1>2, <2>1, <3>1, <3>3, <3>6
    <3> QED
      BY <3>1, <3>7 DEF Apart
  <2>2. CASE k # l
    <3>1. \A v \in Slots : Pending(v, k)' => Pending(v, k) /\ Signed(v)' = Signed(v)
      BY <1>4, <2>2 DEF Others, Pending, Signed
    <3>2. \A v \in Slots : Pending(v, k) => Pending(v, k)'
      BY <1>1, <1>4, <2>2 DEF Others, Pending
    <3>3. \A d : Apart(k, d)' <=> Apart(k, d)
      BY <1>1, <1>2, <2>2 DEF Apart
    <3> QED
      BY <3>1, <3>2, <3>3 DEF Inv, Agreed
  <2> QED
    BY <2>1, <2>2
<1>9. Announced'
  <2>1. \A v \in Slots, k \in Lines : Flagged(v, k)' => Flagged(v, k) /\ req'[v] = req[v]
    BY <1>1, <1>4 DEF Inv, Announced, Flagged, Others
  <2>2. \A k \in Lines : lines[k].status # "upcoming" /\ k \in due
          => lines'[k].status # "upcoming"
    BY <1>1, <1>2, <1>3
  <2> QED
    BY <1>2, <2>1, <2>2 DEF Inv, Announced, Flagged
<1>10. Numbered' /\ Drawn'
  BY <1>2, <1>4, NumberedFrame DEF Inv, Others
<1> QED
  BY <1>5, <1>6, <1>8, <1>9, <1>10 DEF Inv

(* A row of amount d is added to what the rows of l say, by the one request  *)
(* that was between the two; it is no longer.                                *)
LEMMA AgreedRow ==
  ASSUME Inv, NEW w \in Slots, Pending(w, req[w].line), Others(w), req'[w].pc # "saveRow",
         UNCHANGED <<lines, restarts>>,
         \A k \in Lines : k # req[w].line =>
           payments'[k] = payments[k] /\ refunds'[k] = refunds[k],
         payments'[req[w].line] - refunds'[req[w].line]
           = payments[req[w].line] - refunds[req[w].line] + Signed(w)
  PROVE  Agreed'
<1> DEFINE l == req[w].line
<1>1. l \in Lines /\ \A v \in Slots : Pending(v, l) => v = w
  BY DEF Inv, Place, Pending, Inside
<1>2. SUFFICES ASSUME WholeCents, NEW k \in Lines, k \notin restarts.torn
               PROVE  /\ \A v \in Slots : Pending(v, k)' => Apart(k, Signed(v))'
                      /\ (\A v \in Slots : ~ Pending(v, k)') => Apart(k, 0)'
  BY DEF Agreed
<1>3. CASE k = l
  <2>1. \A v \in Slots : ~ Pending(v, k)'
    BY <1>1, <1>3 DEF Pending, Others
  <2>2. Apart(l, Signed(w))
    BY <1>2, <1>3 DEF Inv, Agreed
  <2>3. Apart(k, 0)'
    <3> DEFINE x == Signed(w)
    <3>1. lines[l].amountPaid = payments[l] - refunds[l] + x
      BY <2>2 DEF Apart
    <3>2. x \in Int /\ payments[l] \in Nat /\ refunds[l] \in Nat /\ lines[l].amountPaid \in Nat
      <4>1. req[w].amount \in Nat
        BY DEF Inv, Typed, Request
      <4>2. x \in Int
        BY <4>1 DEF Signed
      <4> QED
        BY <1>1, <4>2 DEF Inv, Typed, LineRow
    <3> HIDE DEF x
    <3>3. payments'[l] - refunds'[l] = payments[l] - refunds[l] + x
      BY DEF x
    <3>4. lines'[l].amountPaid = payments'[l] - refunds'[l]
      BY <3>1, <3>3
    <3>5. lines'[l].amountPaid \in Nat
      BY <3>2
    <3>6. payments'[l] - refunds'[l] + 0 = payments'[l] - refunds'[l]
      BY <3>4, <3>5
    <3> QED
      BY <1>3, <3>4, <3>6 DEF Apart
  <2> QED
    BY <2>1, <2>3
<1>4. CASE k # l
  <2>1. \A v \in Slots : Pending(v, k)' => Pending(v, k) /\ Signed(v)' = Signed(v)
    BY <1>4 DEF Others, Pending, Signed
  <2>2. \A v \in Slots : Pending(v, k) => Pending(v, k)'
    BY <1>4 DEF Others, Pending
  <2>3. \A d : Apart(k, d)' <=> Apart(k, d)
    BY <1>4 DEF Apart
  <2> QED
    BY <1>2, <2>1, <2>2, <2>3 DEF Inv, Agreed
<1> QED
  BY <1>3, <1>4

(* The Payment row is saved and a number drawn that nobody has.             *)
LEMMA SavePaymentInv ==
  ASSUME Inv, NEW w \in Slots, SavePayment(w)
  PROVE  Inv'
<1> DEFINE l == req[w].line
<1>1. /\ req \in [Slots -> Request] /\ req[w] \in Request /\ l \in Lines
      /\ req[w].pc = "saveRow" /\ req[w].op = "pay" /\ req[w].amount \in Nat
      /\ lineLock[l] = w /\ receiptCounter \in Nat
      /\ payments \in [Lines -> Nat] /\ refunds \in [Lines -> Nat]
  BY DEF Inv, Typed, Place, SavePayment, Request, Inside
<1>2. /\ payments' = [payments EXCEPT ![l] = payments[l] + req[w].amount]
      /\ receiptCounter' = receiptCounter + 1
      /\ UNCHANGED <<lines, due, refunds, receipts, notices, lineLock, restarts>>
  BY DEF SavePayment
<1>3. /\ Others(w)
      /\ req'[w].pc = "saveReceipt" /\ req'[w].op = "pay" /\ req'[w].line = l
      /\ req'[w].amount = receiptCounter + 1 /\ req'[w].swept = req[w].swept
  <2>1. "saveReceipt" \in Pcs /\ receiptCounter + 1 \in Nat
    BY <1>1 DEF Pcs
  <2>2. Become(w, [req[w] EXCEPT !.pc = "saveReceipt", !.amount = receiptCounter + 1])
    BY DEF SavePayment, Become
  <2> QED
    BY <1>1, <2>1, <2>2 DEF Become, Others, Request
<1>4. Typed'
  <2>1. payments' \in [Lines -> Nat] /\ receiptCounter' \in Nat
    BY <1>1, <1>2
  <2> QED
    BY <1>2, <1>3, <2>1 DEF Inv, Typed, Others
<1>5. \A v \in Slots : Place(v)'
  <2>1. Place(w)' /\ Frame(w)
    BY <1>1, <1>2, <1>3 DEF Place, Inside, Frame
  <2> QED
    BY <1>3, <2>1, OtherPlaces DEF Inv
<1>6. Agreed'
  <2>1. Pending(w, l) /\ Signed(w) = req[w].amount
    BY <1>1 DEF Pending, Signed
  <2>2. payments'[l] - refunds'[l] = payments[l] - refunds[l] + Signed(w)
    BY <1>1, <1>2, <2>1
  <2>3. \A k \in Lines : k # l => payments'[k] = payments[k] /\ refunds'[k] = refunds[k]
    BY <1>1, <1>2
  <2> QED
    BY <1>2, <1>3, <2>1, <2>2, <2>3, AgreedRow
<1>7. Announced'
  <2>1. req'[w].swept = {}
    BY <1>1, <1>3 DEF Inv, Announced, Flagged, Request
  <2> QED
    BY <1>2, <1>3, <2>1, AnnouncedFrame DEF Inv, Others
<1>8. Numbered' /\ Drawn'
  <2>1. Recent' = Recent
    BY <1>2 DEF Recent
  <2>2. \A i \in Recent : receipts[i] \in Nat
    BY DEF Inv, Typed, Recent
  <2>3. \A v \in Slots : req[v].amount \in Nat
    BY <1>1 DEF Request
  <2>4. \A x \in Nat : x <= receiptCounter => x <= receiptCounter + 1 /\ x # receiptCounter + 1
    BY <1>1
  <2>5. receiptCounter + 1 <= receiptCounter + 1
    BY <1>1
  <2>6. Numbered'
    BY <1>2, <2>1, <2>2, <2>4 DEF Inv, Numbered
  <2>7. Drawn'
    BY <1>2, <1>3, <2>1, <2>2, <2>3, <2>4, <2>5 DEF Inv, Numbered, Drawn, Others
  <2> QED
    BY <2>6, <2>7
<1> QED
  BY <1>4, <1>5, <1>6, <1>7, <1>8 DEF Inv

(* The receipt is saved under the number drawn for it.                      *)
LEMMA SaveReceiptInv ==
  ASSUME Inv, NEW w \in Slots, SaveReceipt(w)
  PROVE  Inv'
<1> DEFINE l == req[w].line
<1>1. /\ req \in [Slots -> Request] /\ req[w] \in Request /\ l \in Lines
      /\ req[w].pc = "saveReceipt" /\ req[w].amount \in Nat
      /\ lineLock \in [Lines -> Slots \cup {None}] /\ lineLock[l] = w
      /\ receipts \in Seq(Nat) /\ restarts.receipts \in Nat
  BY DEF Inv, Typed, Place, SaveReceipt, Request, Inside
<1>2. /\ receipts' = Append(receipts, req[w].amount)
      /\ lineLock' = [lineLock EXCEPT ![l] = None]
      /\ UNCHANGED <<lines, due, payments, refunds, receiptCounter, notices, restarts>>
  BY DEF SaveReceipt, Unlock
<1>3. Others(w) /\ req'[w].pc = "idle" /\ req'[w].swept = {}
  BY <1>1, IdleRequest DEF SaveReceipt, Finish, Become, Others
<1>4. Typed'
  <2>1. receipts' \in Seq(Nat) /\ lineLock' \in [Lines -> Slots \cup {None}]
    BY <1>1, <1>2
  <2> QED
    BY <1>2, <1>3, <2>1 DEF Inv, Typed, Others
<1>5. \A v \in Slots : Place(v)'
  <2>1. Place(w)' /\ Frame(w)
    BY <1>1, <1>2, <1>3 DEF Place, Inside, Frame
  <2> QED
    BY <1>3, <2>1, OtherPlaces DEF Inv
<1>6. Agreed' /\ Announced'
  BY <1>1, <1>2, <1>3, AgreedFrame, AnnouncedFrame DEF Inv, Others
<1>7. Numbered' /\ Drawn'
  <2> DEFINE n == Len(receipts)
  <2>1. /\ n \in Nat /\ Len(receipts') = n + 1 /\ receipts'[n + 1] = req[w].amount
        /\ \A i \in 1 .. n : receipts'[i] = receipts[i]
    BY <1>1, <1>2
  <2>2. /\ restarts.receipts <= n
        /\ Recent' = Recent \cup {n + 1}
        /\ \A i \in Recent : receipts'[i] = receipts[i] /\ i # n + 1
    BY <1>1, <1>2, <2>1 DEF Inv, Numbered, Recent
  <2>3. /\ req[w].amount <= receiptCounter
        /\ \A i \in Recent : receipts[i] # req[w].amount
        /\ \A v \in Slots : req[v].pc = "saveReceipt" /\ v # w => req[v].amount # req[w].amount
    BY <1>1 DEF Inv, Drawn
  <2>4. restarts'.receipts <= Len(receipts')
    BY <1>1, <1>2, <2>1, <2>2
  <2> DEFINE last == n + 1
  <2>5. /\ Recent' = Recent \cup {last} /\ receipts'[last] = req[w].amount
        /\ \A i \in Recent : receipts'[i] = receipts[i] /\ i # last
    BY <2>1, <2>2
  <2> HIDE DEF last, n
  <2>6. /\ \A i \in Recent : receipts[i] <= receiptCounter
        /\ \A i, j \in Recent : receipts[i] = receipts[j] => i = j
    BY DEF Inv, Numbered
  <2>7. \A i \in Recent' : receipts'[i] <= receiptCounter'
    BY <1>2, <2>3, <2>5, <2>6
  <2>8. \A i, j \in Recent' : receipts'[i] = receipts'[j] => i = j
    BY <2>3, <2>5, <2>6
  <2>9. Numbered'
    BY <2>4, <2>7, <2>8 DEF Numbered
  <2>10. Drawn'
    <3> SUFFICES ASSUME NEW v \in Slots, req'[v].pc = "saveReceipt"
                 PROVE  /\ req'[v].amount <= receiptCounter'
                        /\ \A i \in Recent' : receipts'[i] # req'[v].amount
                        /\ \A u \in Slots : /\ req'[u].pc = "saveReceipt"
                                             /\ req'[u].amount = req'[v].amount
                                             => u = v
      BY DEF Drawn
    <3>1. v # w /\ req'[v] = req[v]
      BY <1>3 DEF Others
    <3>2. /\ req[v].amount <= receiptCounter
          /\ \A i \in Recent : receipts[i] # req[v].amount
          /\ \A u \in Slots : req[u].pc = "saveReceipt" /\ req[u].amount = req[v].amount
               => u = v
      BY <3>1 DEF Inv, Drawn
    <3>3. req[v].amount # req[w].amount
      BY <2>3, <3>1
    <3> QED
      BY <1>2, <1>3, <2>5, <3>1, <3>2, <3>3 DEF Others
  <2> QED
    BY <2>9, <2>10
<1> QED
  BY <1>4, <1>5, <1>6, <1>7 DEF Inv

(* The Refund row is saved.                                                 *)
LEMMA SaveRefundInv ==
  ASSUME Inv, NEW w \in Slots, SaveRefund(w)
  PROVE  Inv'
<1> DEFINE l == req[w].line
<1>1. /\ req \in [Slots -> Request] /\ req[w] \in Request /\ l \in Lines
      /\ req[w].pc = "saveRow" /\ req[w].op = "refund" /\ req[w].amount \in Nat
      /\ lineLock \in [Lines -> Slots \cup {None}] /\ lineLock[l] = w
      /\ payments \in [Lines -> Nat] /\ refunds \in [Lines -> Nat]
  BY DEF Inv, Typed, Place, SaveRefund, Request, Inside
<1>2. /\ refunds' = [refunds EXCEPT ![l] = refunds[l] + req[w].amount]
      /\ lineLock' = [lineLock EXCEPT ![l] = None]
      /\ UNCHANGED <<lines, due, payments, receiptCounter, receipts, notices, restarts>>
  BY DEF SaveRefund, Unlock
<1>3. Others(w) /\ req'[w].pc = "idle" /\ req'[w].swept = {}
  BY <1>1, IdleRequest DEF SaveRefund, Finish, Become, Others
<1>4. Typed'
  <2>1. refunds' \in [Lines -> Nat] /\ lineLock' \in [Lines -> Slots \cup {None}]
    BY <1>1, <1>2
  <2> QED
    BY <1>2, <1>3, <2>1 DEF Inv, Typed, Others
<1>5. \A v \in Slots : Place(v)'
  <2>1. Place(w)' /\ Frame(w)
    BY <1>1, <1>2, <1>3 DEF Place, Inside, Frame
  <2> QED
    BY <1>3, <2>1, OtherPlaces DEF Inv
<1>6. Agreed'
  <2>1. Pending(w, l) /\ Signed(w) = 0 - req[w].amount
    BY <1>1 DEF Pending, Signed
  <2>2. payments'[l] - refunds'[l] = payments[l] - refunds[l] + Signed(w)
    BY <1>1, <1>2, <2>1
  <2>3. \A k \in Lines : k # l => payments'[k] = payments[k] /\ refunds'[k] = refunds[k]
    BY <1>1, <1>2
  <2> QED
    BY <1>2, <1>3, <2>1, <2>2, <2>3, AgreedRow
<1>7. Announced' /\ Numbered' /\ Drawn'
  BY <1>2, <1>3, AnnouncedFrame, NumberedFrame DEF Inv, Others
<1> QED
  BY <1>4, <1>5, <1>6, <1>7 DEF Inv
-----------------------------------------------------------------------------
(* A sweep lists its candidates.                                            *)
LEMMA StartSweepInv ==
  ASSUME Inv, NEW w \in Slots, StartSweep(w)
  PROVE  Inv'
<1> DEFINE S == {l \in Lines : Sweepable(l)}
<1>1. Others(w) /\ req'[w].pc = "sweep" /\ req'[w].swept = {}
  <2>1. req \in [Slots -> Request] /\ "sweep" \in Pcs /\ "sweep" \in Ops /\ S \in SUBSET Lines
    BY DEF Inv, Typed, Pcs, Ops
  <2>2. Become(w, [Idle EXCEPT !.op = "sweep", !.pc = "sweep", !.todo = S])
    BY DEF StartSweep
  <2> HIDE DEF S
  <2> QED
    BY <2>1, <2>2, IdleRequest DEF Become, Others, Request
<1>2. UNCHANGED <<lines, due, payments, refunds, receiptCounter, receipts, notices, lineLock,
                  restarts>> /\ req[w].pc = "idle"
  BY DEF StartSweep, bookVars, IsIdle
<1>3. Typed'
  BY <1>1, <1>2 DEF Inv, Typed, Others
<1>4. \A v \in Slots : Place(v)'
  <2>1. Place(w)' /\ Frame(w)
    BY <1>1, <1>2 DEF Place, Inside, Frame
  <2> QED
    BY <1>1, <2>1, OtherPlaces DEF Inv
<1>5. Agreed' /\ Announced' /\ Numbered' /\ Drawn'
  BY <1>1, <1>2, AgreedFrame, AnnouncedFrame, NumberedFrame DEF Inv, Others
<1> QED
  BY <1>3, <1>4, <1>5 DEF Inv

(* A candidate is read again, under its lock if it still qualifies.         *)
LEMMA SweepReadInv ==
  ASSUME Inv, NEW w \in Slots, NEW l \in Lines, SweepRead(w, l)
  PROVE  Inv'
<1>1. /\ req \in [Slots -> Request] /\ req[w] \in Request /\ req[w].pc = "sweep"
      /\ lines[l] \in LineRow /\ lineLock \in [Lines -> Slots \cup {None}]
      /\ lineLock[l] = None /\ req[w].todo \ {l} \in SUBSET Lines
  BY DEF Inv, Typed, SweepRead, Free, Request
<1>2. UNCHANGED <<lines, due, payments, refunds, receiptCounter, receipts, notices, restarts>>
  BY DEF SweepRead, bookVars
<1>3. /\ Others(w) /\ req'[w].pc \in {"sweep", "sweepSave"} /\ req'[w].swept = req[w].swept
      /\ req'[w].pc = "sweepSave" =>
           /\ Sweepable(l) /\ req'[w].line = l /\ req'[w].copy[l] = lines[l]
           /\ lineLock' = [lineLock EXCEPT ![l] = w]
      /\ lineLock' \in {lineLock, [lineLock EXCEPT ![l] = w]}
  <2>1. CASE Sweepable(l)
    <3> DEFINE c == [Blank EXCEPT ![l] = lines[l]]
               rest == req[w].todo \ {l}
    <3>1. c \in [Lines -> LineRow] /\ c[l] = lines[l] /\ "sweepSave" \in Pcs
          /\ rest \in SUBSET Lines
      BY <1>1 DEF Blank, LineRow, LineStatus, Pcs
    <3>2. Become(w, [req[w] EXCEPT !.pc = "sweepSave", !.line = l, !.todo = rest, !.copy = c])
      BY <2>1 DEF SweepRead, Become
    <3>3. lineLock' = [lineLock EXCEPT ![l] = w]
      BY <2>1 DEF SweepRead
    <3> HIDE DEF c, rest
    <3> QED
      BY <1>1, <2>1, <3>1, <3>2, <3>3 DEF Become, Others, Request
  <2>2. CASE ~ Sweepable(l)
    <3>1. Become(w, [req[w] EXCEPT !.todo = req[w].todo \ {l}]) /\ lineLock' = lineLock
      BY <2>2 DEF SweepRead, Become
    <3> QED
      BY <1>1, <3>1 DEF Become, Others, Request
  <2> QED
    BY <2>1, <2>2
<1>4. Typed'
  BY <1>1, <1>2, <1>3 DEF Inv, Typed, Others
<1>5. \A v \in Slots : Place(v)'
  <2>1. Place(w)'
    BY <1>1, <1>2, <1>3 DEF Place, Inside, Sweepable
  <2>2. Frame(w)
    BY <1>1, <1>2, <1>3 DEF Frame
  <2> QED
    BY <1>3, <2>1, <2>2, OtherPlaces DEF Inv
<1>6. Agreed' /\ Announced' /\ Numbered' /\ Drawn'
  BY <1>1, <1>2, <1>3, AgreedFrame, AnnouncedFrame, NumberedFrame DEF Inv, Others
<1> QED
  BY <1>4, <1>5, <1>6 DEF Inv

(* The line is flagged, as it was read: nothing else about it has changed.  *)
LEMMA SweepSaveInv ==
  ASSUME Inv, NEW w \in Slots, SweepSave(w)
  PROVE  Inv'
<1> DEFINE l == req[w].line
           row == [lines[l] EXCEPT !.status = "overdue"]
<1>1. /\ req \in [Slots -> Request] /\ req[w] \in Request /\ req[w].pc = "sweepSave"
      /\ l \in Lines /\ lines \in [Lines -> LineRow] /\ lines[l] \in LineRow
      /\ lineLock \in [Lines -> Slots \cup {None}] /\ lineLock[l] = w
      /\ req[w].copy[l] = lines[l] /\ lines[l].status = "upcoming" /\ l \in due
      /\ req[w].swept \cup {l} \in SUBSET Lines
  BY DEF Inv, Typed, Place, SweepSave, Request, Inside
<1>2. /\ lines' = [lines EXCEPT ![l] = row]
      /\ lineLock' = [lineLock EXCEPT ![l] = None]
      /\ UNCHANGED <<due, payments, refunds, receiptCounter, receipts, notices, restarts>>
  BY <1>1 DEF SweepSave, Unlock, bookVars
<1>3. row \in LineRow /\ row.status = "overdue" /\ row.amountPaid = lines[l].amountPaid
  BY <1>1 DEF LineRow, LineStatus
<1> HIDE DEF row
<1>4. Others(w) /\ req'[w].pc = "sweep" /\ req'[w].swept = req[w].swept \cup {l}
  <2> DEFINE s == req[w].swept \cup {l}
  <2>1. Blank \in [Lines -> LineRow] /\ "sweep" \in Pcs /\ s \in SUBSET Lines
    BY <1>1 DEF Blank, LineRow, LineStatus, Pcs
  <2>2. Become(w, [req[w] EXCEPT !.pc = "sweep", !.line = None, !.copy = Blank, !.swept = s])
    BY DEF SweepSave, Become
  <2> HIDE DEF s
  <2>3. Others(w) /\ req'[w].pc = "sweep" /\ req'[w].swept = s
    BY <1>1, <2>1, <2>2 DEF Become, Others, Request
  <2> QED
    BY <2>3 DEF s
<1>5. Typed'
  BY <1>1, <1>2, <1>3, <1>4 DEF Inv, Typed, Others
<1>6. \A v \in Slots : Place(v)'
  <2>1. Place(w)' /\ Frame(w)
    BY <1>1, <1>2, <1>4 DEF Place, Inside, Frame
  <2> QED
    BY <1>4, <2>1, OtherPlaces DEF Inv
<1>7. Agreed'
  <2>1. \A k \in Lines : lines'[k].amountPaid = lines[k].amountPaid
    BY <1>1, <1>2, <1>3
  <2>2. \A k \in Lines : \A d : Apart(k, d)' <=> Apart(k, d)
    BY <1>2, <2>1 DEF Apart
  <2>3. \A v \in Slots, k \in Lines : Pending(v, k)' <=> Pending(v, k)
    BY <1>1, <1>4 DEF Pending, Others
  <2>4. \A v \in Slots, k \in Lines : Pending(v, k)' => Signed(v)' = Signed(v)
    BY <1>1, <1>4 DEF Pending, Signed, Others
  <2> QED
    BY <1>2, <2>2, <2>3, <2>4 DEF Inv, Agreed
<1>8. Announced'
  <2>0. PICK m \in Lines : m = l
    BY <1>1
  <2>1. notices[m] = 0 /\ \A v \in Slots : ~ Flagged(v, m)
    <3>1. lines[m].status = "upcoming" /\ notices[m] \in Nat
      BY <1>1, <2>0 DEF Inv, Typed
    <3> QED
      BY <3>1 DEF Inv, Announced
  <2>2. \A k \in Lines : k # m => lines'[k] = lines[k]
    BY <1>1, <1>2, <2>0
  <2>3. lines'[m].status = "overdue"
    BY <1>1, <1>2, <1>3, <2>0
  <2>4. \A v \in Slots, k \in Lines : k # m => (Flagged(v, k)' <=> Flagged(v, k))
    BY <1>1, <1>4, <2>0 DEF Flagged, Others
  <2>5. \A v \in Slots : Flagged(v, m)' <=> v = w
    BY <1>4, <2>0, <2>1 DEF Flagged, Others
  <2>6. \A v \in Slots : req[v].pc \in {"sweep", "sweepSave"}
          => req'[v].pc \in {"sweep", "sweepSave"}
    BY <1>4 DEF Others
  <2> SUFFICES ASSUME NEW k \in Lines
               PROVE  /\ notices'[k] <= 1
                      /\ notices'[k] = 1 \/ (\E v \in Slots : Flagged(v, k)')
                           => k \in due' /\ lines'[k].status # "upcoming"
                      /\ \A v \in Slots : Flagged(v, k)' =>
                           notices'[k] = 0 /\ req'[v].pc \in {"sweep", "sweepSave"}
                      /\ \A u, v \in Slots : Flagged(u, k)' /\ Flagged(v, k)' => u = v
    BY DEF Announced
  <2>7. CASE k = m
    BY <1>1, <1>2, <1>4, <2>0, <2>1, <2>3, <2>5, <2>7
  <2>8. CASE k # m
    BY <1>2, <2>2, <2>4, <2>6, <2>8 DEF Inv, Announced
  <2> QED
    BY <2>7, <2>8
<1>9. Numbered' /\ Drawn'
  BY <1>2, <1>4, NumberedFrame DEF Inv, Others
<1> QED
  BY <1>5, <1>6, <1>7, <1>8, <1>9 DEF Inv

(* The events go out.                                                       *)
LEMMA EmitSweptInv ==
  ASSUME Inv, NEW w \in Slots, EmitSwept(w)
  PROVE  Inv'
<1>1. /\ req \in [Slots -> Request] /\ req[w].pc = "sweep" /\ notices \in [Lines -> Nat]
  BY DEF Inv, Typed, EmitSwept
<1>2. /\ notices' = [l \in Lines |-> notices[l] + (IF l \in req[w].swept THEN 1 ELSE 0)]
      /\ UNCHANGED <<lines, due, payments, refunds, receiptCounter, receipts, lineLock, restarts>>
  BY DEF EmitSwept, bookVars
<1>3. Others(w) /\ req'[w].pc = "idle" /\ req'[w].swept = {}
  BY <1>1, IdleRequest DEF EmitSwept, Finish, Become, Others
<1>4. Typed'
  <2>1. notices' \in [Lines -> Nat]
    BY <1>1, <1>2
  <2> QED
    BY <1>2, <1>3, <2>1 DEF Inv, Typed, Others
<1>5. \A v \in Slots : Place(v)'
  <2>1. Place(w)' /\ Frame(w)
    BY <1>2, <1>3 DEF Place, Inside, Frame
  <2> QED
    BY <1>3, <2>1, OtherPlaces DEF Inv
<1>6. Announced'
  <2>1. \A l \in Lines : notices'[l] = IF Flagged(w, l) THEN 1 ELSE notices[l]
    BY <1>1, <1>2 DEF Inv, Announced, Flagged
  <2>2. \A v \in Slots, l \in Lines :
          Flagged(v, l)' => v # w /\ Flagged(v, l) /\ req'[v].pc = req[v].pc
    BY <1>3 DEF Flagged, Others
  <2> QED
    BY <1>2, <2>1, <2>2 DEF Inv, Announced
<1>7. Agreed' /\ Numbered' /\ Drawn'
  BY <1>1, <1>2, <1>3, AgreedFrame, NumberedFrame DEF Inv, Others
<1> QED
  BY <1>4, <1>5, <1>6, <1>7 DEF Inv

(* The clock only adds to what is due.                                      *)
LEMMA PassDueInv ==
  ASSUME Inv, NEW l \in Lines, PassDue(l)
  PROVE  Inv'
<1>1. /\ due' = due \cup {l}
      /\ UNCHANGED <<lines, payments, refunds, receiptCounter, receipts, notices, lineLock, req,
                     restarts>>
  BY DEF PassDue, bookVars
<1>2. Typed'
  BY <1>1 DEF Inv, Typed
<1>3. \A v \in Slots : Place(v)'
  <2>1. \A v \in Slots : (Covered(v)' <=> Covered(v)) /\ (Restates(v)' <=> Restates(v))
    BY <1>1 DEF Covered, Restates
  <2> QED
    BY <1>1, <2>1 DEF Inv, Place
<1>4. Announced'
  <2>1. \A v, k : Flagged(v, k)' <=> Flagged(v, k)
    BY <1>1 DEF Flagged
  <2> QED
    BY <1>1, <2>1 DEF Inv, Announced
<1>5. Agreed' /\ Numbered' /\ Drawn'
  BY <1>1, AgreedFrame, NumberedFrame DEF Inv
<1> QED
  BY <1>2, <1>3, <1>4, <1>5 DEF Inv

(* After a restart nobody is inside, the numbering starts over, and a line  *)
(* that was saved without its row is torn.                                  *)
LEMMA CrashInv ==
  ASSUME Inv, Crash
  PROVE  Inv'
<1> DEFINE torn == restarts.torn \cup {req[w].line : w \in {v \in Slots : req[v].pc = "saveRow"}}
           again == restarts.repricing \/ \E w \in Slots : req[w].pc = "rescaleSave"
<1>1. /\ req' = [w \in Slots |-> Idle] /\ lineLock' = [l \in Lines |-> None]
      /\ receiptCounter' = 0
      /\ restarts' = [count |-> restarts.count + 1, torn |-> torn, repricing |-> again,
                      receipts |-> Len(receipts)]
      /\ UNCHANGED <<lines, due, payments, refunds, receipts, notices>>
  BY DEF Crash
<1>2. torn \in SUBSET Lines /\ again \in BOOLEAN
  BY DEF Inv, Typed, Place, Inside
<1>3. Len(receipts) \in Nat /\ restarts.count + 1 \in Nat
  BY DEF Inv, Typed
<1>4. \A w \in Slots, l \in Lines : Pending(w, l) => l \in torn
  BY DEF Pending
<1>5. restarts.torn \subseteq torn
  OBVIOUS
<1> HIDE DEF torn, again
<1>6. \A w \in Slots : req'[w].pc = "idle" /\ req'[w].swept = {}
  BY <1>1, IdleRequest
<1>7. Typed'
  BY <1>1, <1>2, <1>3, IdleRequest DEF Inv, Typed
<1>8. \A w \in Slots : Place(w)'
  BY <1>6 DEF Place, Inside
<1>9. Agreed'
  <2>1. \A w \in Slots, l \in Lines : ~ Pending(w, l)'
    BY <1>6 DEF Pending
  <2>2. \A l, d : Apart(l, d)' <=> Apart(l, d)
    BY <1>1 DEF Apart
  <2>3. restarts'.torn = torn
    BY <1>1
  <2> QED
    BY <1>4, <1>5, <2>1, <2>2, <2>3 DEF Inv, Agreed
<1>10. Announced'
  <2>1. \A w \in Slots, l \in Lines : ~ Flagged(w, l)'
    BY <1>6 DEF Flagged
  <2> QED
    BY <1>1, <2>1 DEF Inv, Announced
<1>11. Numbered' /\ Drawn'
  <2>1. restarts'.receipts = Len(receipts) /\ Len(receipts') = Len(receipts)
    BY <1>1
  <2>2. Recent' = {}
    BY <1>3, <2>1 DEF Recent
  <2>3. Numbered'
    BY <1>3, <2>1, <2>2 DEF Numbered
  <2>4. Drawn'
    BY <1>6 DEF Drawn
  <2> QED
    BY <2>3, <2>4
<1> QED
  BY <1>7, <1>8, <1>9, <1>10, <1>11 DEF Inv
-----------------------------------------------------------------------------
(* A row keeps its fields; its amount is a number, and so are totals. *)
RowShape(r) == r \in [amount : Int, amountPaid : {r.amountPaid}, status : {r.status}]

LEMMA FiniteLines == Lines = 1 .. Len(Schedule) /\ Len(Schedule) \in Nat /\ IsFiniteSet(Lines)
<1>1. Lines = 1 .. Len(Schedule) /\ Len(Schedule) \in Nat
  BY ScheduleAssumption DEF Lines
<1> QED
  BY <1>1, FS_Interval

(* Total is the sum of the amounts, by whatever function they are given. *)
LEMMA TotalAddsUp ==
  ASSUME NEW rows, NEW S, IsFiniteSet(S), NEW a, \A l \in S : a[l] \in Int /\ a[l] = rows[l].amount
  PROVE  Total(rows, S) = AddUp(a, S) /\ Total(rows, S) \in Int
<1> DEFINE OfRows(F) == F = [U \in SUBSET S |->
              IF U = {} THEN 0
              ELSE rows[CHOOSE x \in U : TRUE].amount + F[U \ {CHOOSE x \in U : TRUE}]]
           G == CHOOSE F : OfRows(F)
<1>1. Total(rows, S) = G[S]
  BY Zenon DEF Total, MapThenSumSet, MapThenFoldSet
<1>2. PICK F \in [SUBSET S -> Int] : SumOver(S, a, F)
  BY SumExists
<1>3. OfRows(F)
  <2> DEFINE H == [U \in SUBSET S |->
              IF U = {} THEN 0
              ELSE rows[CHOOSE x \in U : TRUE].amount + F[U \ {CHOOSE x \in U : TRUE}]]
  <2>1. ASSUME NEW U \in SUBSET S PROVE F[U] = H[U]
    <3>1. CASE U = {}
      BY <1>2, <3>1 DEF SumOver
    <3>2. CASE U # {}
      <4> DEFINE c == CHOOSE x \in U : TRUE
      <4>1. c \in U
        BY <3>2
      <4>2. F[U] = a[c] + F[U \ {c}]
        BY <1>2, <3>2 DEF SumOver
      <4>3. a[c] = rows[c].amount
        BY <4>1
      <4> QED
        BY <3>2, <4>2, <4>3
    <3> QED
      BY <3>1, <3>2
  <2>2. F = H
    BY <2>1
  <2> QED
    BY <2>2, Zenon
<1>4. OfRows(G)
  BY <1>3, Zenon
<1>5. SumOver(S, a, G)
  <2> DEFINE H == [U \in SUBSET S |-> IF U = {} THEN 0
                          ELSE a[CHOOSE x \in U : TRUE] + G[U \ {CHOOSE x \in U : TRUE}]]
  <2> HIDE DEF G
  <2>1. ASSUME NEW U \in SUBSET S PROVE G[U] = H[U]
    <3>1. CASE U = {}
      BY <1>4, <3>1
    <3>2. CASE U # {}
      <4> DEFINE c == CHOOSE x \in U : TRUE
      <4>1. c \in U
        BY <3>2
      <4>2. G[U] = rows[c].amount + G[U \ {c}]
        BY <1>4, <3>2
      <4>3. a[c] = rows[c].amount
        BY <4>1
      <4> QED
        BY <3>2, <4>2, <4>3
    <3> QED
      BY <3>1, <3>2
  <2>2. G = [U \in SUBSET S |-> G[U]]
    BY <1>4
  <2>3. G = H
    BY <2>1, <2>2
  <2> QED
    BY <2>3, Zenon DEF SumOver
<1>6. PICK F1 : SumOver(S, a, F1) /\ AddUp(a, S) = F1[S]
  BY AddUpSum
<1>7. G[S] = F1[S]
  <2> HIDE DEF G
  <2> QED
    BY <1>5, <1>6, SumSame
<1>8. AddUp(a, S) \in Int
  BY AddUpInt
<1> QED
  BY <1>1, <1>6, <1>7, <1>8, Zenon

(* Rows with the same amounts have the same total. *)
LEMMA SameTotal ==
  ASSUME NEW rows, NEW other, NEW S, S \subseteq Lines,
         \A l \in S : rows[l].amount \in Int /\ other[l].amount = rows[l].amount
  PROVE  Total(other, S) = Total(rows, S) /\ Total(rows, S) \in Int
<1> DEFINE a == [l \in S |-> rows[l].amount]
<1>1. IsFiniteSet(S)
  BY FiniteLines, FS_Subset
<1>2. \A l \in S : a[l] \in Int /\ a[l] = rows[l].amount /\ a[l] = other[l].amount
  OBVIOUS
<1> HIDE DEF a
<1> QED
  BY <1>1, <1>2, TotalAddsUp

(* The rescaled lines add up to the amended price less what is untouched,   *)
(* since the last one takes what rounding leaves over.                       *)
LEMMA RescaledAddsUp ==
  ASSUME NEW rows, \A l \in Lines : RowShape(rows[l]), NEW total \in Int,
         Untouched(rows) # {} \/ total = 0
  PROVE  /\ \A l \in Lines : RowShape(Rescaled(rows, total)[l])
         /\ \A l \in Lines \ Untouched(rows) : Rescaled(rows, total)[l] = rows[l]
         /\ Total(Rescaled(rows, total), Lines) = Total(rows, Touched(rows)) + total
         /\ Total(rows, Touched(rows)) \in Int
<1> DEFINE S == Untouched(rows)
           old == Total(rows, S)
           rounded == [l \in S |-> IF old > 0 THEN Portion(rows[l].amount, total, old)
                                              ELSE Portion(1, total, Cardinality(S))]
           residual == total - SumFunction(rounded)
           final == [l \in Lines |->
               IF l \notin S THEN rows[l]
               ELSE [rows[l] EXCEPT !.amount = rounded[l] + (IF l = Max(S) THEN residual ELSE 0)]]
<1>1. Rescaled(rows, total) = final
  BY Zenon DEF Rescaled
<1>2. S \subseteq Lines /\ IsFiniteSet(S) /\ IsFiniteSet(Lines) /\ IsFiniteSet(Lines \ S)
  <2>1. S \subseteq Lines /\ Lines \ S \subseteq Lines
    BY DEF Untouched
  <2> HIDE DEF S
  <2> QED
    BY <2>1, FiniteLines, FS_Subset
<1>3. \A l \in Lines : rows[l].amount \in Int
  BY DEF RowShape
<1>4. old \in Int /\ Total(rows, Lines \ S) \in Int
  <2> HIDE DEF S
  <2> QED
    BY <1>2, <1>3, SameTotal
<1>5. \A l \in S : rounded[l] \in Int
  <2> SUFFICES ASSUME NEW l \in S PROVE rounded[l] \in Int
    OBVIOUS
  <2>1. Cardinality(S) \in Nat \ {0}
    <3> HIDE DEF S
    <3> QED
      BY <1>2, FS_EmptySet, FS_CardinalityType
  <2>2. \A x \in Int, d \in Nat \ {0} : Portion(x, total, d) \in Int
    <3> SUFFICES ASSUME NEW x \in Int, NEW d \in Nat \ {0}
                 PROVE  ((2 * x * total + d * Fraction) \div (2 * d * Fraction)) * Fraction \in Int
      BY DEF Portion
    <3>1. 2 * d * Fraction \in Nat \ {0}
      BY ScheduleAssumption
    <3>2. 2 * x * total + d * Fraction \in Int
      BY ScheduleAssumption
    <3>3. (2 * x * total + d * Fraction) \div (2 * d * Fraction) \in Int
      BY <3>1, <3>2
    <3> QED
      BY <3>3, ScheduleAssumption
  <2>3. l \in Lines /\ rows[l].amount \in Int
    BY <1>2, <1>3
  <2>4. old > 0 => old \in Nat \ {0}
    BY <1>4
  <2> HIDE DEF S, old
  <2>5. Portion(1, total, Cardinality(S)) \in Int /\ (old > 0 => Portion(rows[l].amount, total, old) \in Int)
    <3>1. 1 \in Int
      OBVIOUS
    <3> QED
      BY <2>1, <2>2, <2>3, <2>4, <3>1, Zenon
  <2>6. rounded[l] = IF old > 0 THEN Portion(rows[l].amount, total, old)
                                ELSE Portion(1, total, Cardinality(S))
    BY Zenon
  <2> HIDE DEF rounded
  <2> QED
    BY <2>5, <2>6, Zenon
<1>6. SumFunction(rounded) = AddUp(rounded, S) /\ SumFunction(rounded) \in Int
  <2>1. DOMAIN rounded = S
    OBVIOUS
  <2> HIDE DEF rounded, S
  <2> QED
    BY <1>2, <1>5, <2>1, SumFunctionAddsUp, AddUpInt
<1>7. residual \in Int
  <2> HIDE DEF rounded
  <2> QED
    BY <1>6
<1> DEFINE m == Max(S)
<1>8. S # {} => m \in S
  <2>1. S \subseteq 0 .. Len(Schedule)
    BY <1>2, FiniteLines
  <2> HIDE DEF S
  <2> QED
    BY <2>1, FiniteLines, Maximum
<1> DEFINE extra == [l \in S |-> IF l = m THEN residual ELSE 0]
           a == [l \in Lines |-> IF l \in S THEN rounded[l] + extra[l] ELSE rows[l].amount]
<1>9. /\ \A l \in Lines \ S : final[l] = rows[l]
      /\ \A l \in S : final[l] = [rows[l] EXCEPT !.amount = rounded[l] + extra[l]]
      /\ \A l \in S : extra[l] \in Int
  <2> HIDE DEF S, rounded, residual, m
  <2>1. \A l \in S : extra[l] = IF l = m THEN residual ELSE 0
    OBVIOUS
  <2>2. \A l \in S : extra[l] \in Int
    BY <1>7, <2>1
  <2>3. \A l \in Lines : final[l] = IF l \notin S THEN rows[l]
               ELSE [rows[l] EXCEPT !.amount = rounded[l] + (IF l = m THEN residual ELSE 0)]
    BY Zenon DEF m
  <2>4. \A l \in S : final[l] = [rows[l] EXCEPT !.amount = rounded[l] + extra[l]]
    BY <1>2, <2>1, <2>3, Zenon
  <2>5. \A l \in Lines \ S : final[l] = rows[l]
    BY <2>3, Zenon
  <2> QED
    BY <2>2, <2>4, <2>5
<1> HIDE DEF S, rounded, residual, final, m, old
<1>10. \A l \in Lines : RowShape(final[l]) /\ a[l] = final[l].amount /\ a[l] \in Int
  <2> SUFFICES ASSUME NEW l \in Lines PROVE RowShape(final[l]) /\ a[l] = final[l].amount /\ a[l] \in Int
    OBVIOUS
  <2>1. CASE l \notin S
    BY <1>3, <1>9, <2>1
  <2>2. CASE l \in S
    <3>1. PICK n \in Int : n = rounded[l] + extra[l]
      BY <1>5, <1>9, <2>2
    <3>2. final[l] = [rows[l] EXCEPT !.amount = n] /\ a[l] = n
      BY <1>9, <2>2, <3>1
    <3> QED
      BY <3>2 DEF RowShape
  <2> QED
    BY <2>1, <2>2
<1>11. Total(final, Lines) = AddUp(a, S) + AddUp(a, Lines \ S)
  <2>1. Total(final, Lines) = AddUp(a, Lines)
    <3> HIDE DEF a
    <3> QED
      BY <1>2, <1>10, TotalAddsUp
  <2> HIDE DEF a
  <2> QED
    BY <1>2, <1>10, <2>1, AddUpUnion
<1>12. AddUp(a, Lines \ S) = Total(rows, Lines \ S)
  <2>1. \A l \in Lines \ S : a[l] \in Int /\ a[l] = rows[l].amount
    BY <1>3
  <2> HIDE DEF a
  <2> QED
    BY <1>2, <2>1, TotalAddsUp
<1>13. AddUp(a, S) = total
  <2>1. CASE S = {}
    <3>1. total = 0
      BY <2>1 DEF S
    <3>2. AddUp(a, S) = 0
      BY <2>1, AddUpEmpty
    <3> QED
      BY <3>1, <3>2
  <2>2. CASE S # {}
    <3> DEFINE T == S \ {m}
    <3>1. m \in S /\ IsFiniteSet(T)
      BY <1>2, <1>8, <2>2, FS_Subset
    <3>2. \A l \in S : a[l] \in Int
      BY <1>2, <1>10
    <3>3. \A l \in T : rounded[l] \in Int /\ rounded[l] = a[l]
      BY <1>2, <1>5
    <3>4. a[m] = rounded[m] + residual /\ rounded[m] \in Int
      BY <1>2, <1>5, <3>1
    <3> HIDE DEF a
    <3>5. AddUp(a, S) = a[m] + AddUp(a, T)
      BY <1>2, <3>1, <3>2, AddUpElement
    <3>6. AddUp(rounded, S) = rounded[m] + AddUp(rounded, T)
      BY <1>2, <1>5, <3>1, AddUpElement
    <3> HIDE DEF T
    <3>7. AddUp(a, T) = AddUp(rounded, T) /\ AddUp(rounded, T) \in Int
      BY <3>1, <3>3, AddUpSame, AddUpInt
    <3>8. residual = total - AddUp(rounded, S)
      BY <1>6 DEF residual
    <3> QED
      BY <1>7, <3>4, <3>5, <3>6, <3>7, <3>8
  <2> QED
    BY <2>1, <2>2
<1>14. Touched(rows) = Lines \ S
  BY DEF Touched, S
<1>15. Total(final, Lines) = Total(rows, Touched(rows)) + total
  BY <1>4, <1>11, <1>12, <1>13, <1>14
<1>16. \A l \in Lines \ Untouched(rows) : final[l] = rows[l]
  BY <1>9 DEF S
<1> QED
  BY <1>1, <1>4, <1>10, <1>14, <1>15, <1>16
-----------------------------------------------------------------------------
(* An amendment, alone in the process. *)

(* What an amendment makes of the lines differs from them in the amounts.   *)
LEMMA RescaledRows ==
  ASSUME NEW rows \in [Lines -> LineRow], NEW total \in Int, Untouched(rows) # {} \/ total = 0
  PROVE  /\ Rescaled(rows, total) \in [Lines -> LineRow]
         /\ \A l \in Lines : SameButAmount(Rescaled(rows, total)[l], rows[l])
<1> DEFINE S == Untouched(rows)
           old == Total(rows, S)
           rounded == [l \in S |-> IF old > 0 THEN Portion(rows[l].amount, total, old)
                                              ELSE Portion(1, total, Cardinality(S))]
           residual == total - SumFunction(rounded)
           more(l) == rounded[l] + (IF l = Max(S) THEN residual ELSE 0)
           final == [l \in Lines |-> IF l \notin S THEN rows[l] ELSE [rows[l] EXCEPT !.amount = more(l)]]
<1>1. Rescaled(rows, total) = final
  BY Zenon DEF Rescaled
<1>2. ASSUME NEW l \in Lines PROVE RowShape(final[l]) /\ rows[l] \in LineRow
  <2>1. \A m \in Lines : RowShape(rows[m])
    BY DEF RowShape, LineRow
  <2>2. RowShape(Rescaled(rows, total)[l])
    BY <2>1, RescaledAddsUp
  <2> QED
    BY <1>1, <2>2, Zenon
<1> HIDE DEF more, S
<1>3. ASSUME NEW l \in Lines PROVE SameButAmount(final[l], rows[l])
  BY <1>2 DEF SameButAmount, LineRow
<1>4. final = [l \in Lines |-> final[l]]
  OBVIOUS
<1> HIDE DEF final
<1>5. ASSUME NEW l \in Lines PROVE final[l] \in LineRow
  BY <1>2, <1>3 DEF SameButAmount, RowShape, LineRow
<1> QED
  BY <1>1, <1>3, <1>4, <1>5

(* An amendment starts: it knows what is left to spread, which is no debt.  *)
LEMMA StartAmendInv ==
  ASSUME Inv, OneAtATime, NEW w \in Slots, NEW p \in NewPrices, StartAmend(w, p)
  PROVE  Inv'
<1> DEFINE rest == p - Total(lines, Touched(lines))
<1>1. rest \in Nat /\ p \in Nat
  <2>1. Touched(lines) \subseteq Lines /\ \A l \in Lines : lines[l].amount \in Int
    BY DEF Touched, Inv, Typed, LineRow
  <2>2. Total(lines, Touched(lines)) \in Int
    BY <2>1, SameTotal
  <2> QED
    BY <2>2, CentsAssumption DEF StartAmend
<1>2. /\ Become(w, [Idle EXCEPT !.op = "amend", !.pc = "rescale", !.amount = p, !.rest = rest])
      /\ UNCHANGED <<lines, due, payments, refunds, receiptCounter, receipts, notices, lineLock,
                     restarts>>
      /\ req[w].pc = "idle"
  BY DEF StartAmend, bookVars, IsIdle
<1> HIDE DEF rest
<1>3. Others(w) /\ req'[w].pc = "rescale" /\ req'[w].swept = {}
  <2>1. req \in [Slots -> Request] /\ "rescale" \in Pcs /\ "amend" \in Ops
    BY DEF Inv, Typed, Pcs, Ops
  <2> QED
    BY <1>1, <1>2, <2>1, IdleRequest DEF Become, Others, Request
<1>4. Typed'
  BY <1>2, <1>3 DEF Inv, Typed, Others
<1>5. \A v \in Slots : Place(v)'
  <2>1. Place(w)' /\ Frame(w)
    BY <1>2, <1>3 DEF Place, Inside, Frame
  <2> QED
    BY <1>3, <2>1, OtherPlaces DEF Inv
<1>6. Agreed' /\ Announced' /\ Numbered' /\ Drawn'
  BY <1>2, <1>3, AgreedFrame, AnnouncedFrame, NumberedFrame DEF Inv, Others
<1> QED
  BY <1>4, <1>5, <1>6 DEF Inv

(* An amendment ends, refused or done.                                      *)
LEMMA EndAmendInv ==
  ASSUME Inv, NEW w \in Slots, AmendRefuse(w) \/ AmendSave(w)
  PROVE  Inv'
<1>1. /\ req \in [Slots -> Request] /\ req[w].pc \in {"rescale", "rescaleSave"}
      /\ Finish(w)
      /\ UNCHANGED <<lines, due, payments, refunds, receiptCounter, receipts, notices, lineLock>>
      /\ restarts' = restarts \/ restarts' = [restarts EXCEPT !.repricing = FALSE]
  BY DEF AmendRefuse, AmendSave, bookVars, Inv, Typed
<1>2. /\ restarts' \in [count : Nat, torn : SUBSET Lines, repricing : BOOLEAN, receipts : Nat]
      /\ restarts'.torn = restarts.torn /\ restarts'.receipts = restarts.receipts
  BY <1>1 DEF Inv, Typed
<1>3. Others(w) /\ req'[w].pc = "idle" /\ req'[w].swept = {}
  BY <1>1, IdleRequest DEF Finish, Become, Others
<1>4. Typed'
  BY <1>1, <1>2, <1>3 DEF Inv, Typed, Others
<1>5. \A v \in Slots : Place(v)'
  <2>1. Place(w)' /\ Frame(w)
    BY <1>1, <1>3 DEF Place, Inside, Frame
  <2> QED
    BY <1>3, <2>1, OtherPlaces DEF Inv
<1>6. Agreed' /\ Announced' /\ Numbered' /\ Drawn'
  BY <1>1, <1>2, <1>3, AgreedFrame, AnnouncedFrame, NumberedFrame DEF Inv, Others
<1> QED
  BY <1>4, <1>5, <1>6 DEF Inv

(* The lines are read, and copies of them rescaled.                         *)
LEMMA RescaleInv ==
  ASSUME Inv, NEW w \in Slots, Rescale(w)
  PROVE  Inv'
<1> DEFINE copy == Rescaled(lines, req[w].rest)
           todo == Untouched(lines)
<1>1. /\ req \in [Slots -> Request] /\ req[w] \in Request /\ req[w].pc = "rescale"
      /\ lines \in [Lines -> LineRow] /\ OneAtATime
  BY DEF Inv, Typed, Place, Rescale
<1>2. copy \in [Lines -> LineRow] /\ \A l \in Lines : SameButAmount(copy[l], lines[l])
  <2>1. req[w].rest \in Int /\ (Untouched(lines) # {} \/ req[w].rest = 0)
    BY <1>1 DEF Rescale, Request
  <2> QED
    BY <1>1, <2>1, RescaledRows
<1>3. todo \subseteq Lines
  BY DEF Untouched
<1>4. /\ Become(w, [req[w] EXCEPT !.pc = "rescaleSave", !.todo = todo, !.copy = copy])
      /\ UNCHANGED <<lines, due, payments, refunds, receiptCounter, receipts, notices, lineLock,
                     restarts>>
  BY DEF Rescale, bookVars
<1> HIDE DEF copy, todo
<1>5. /\ Others(w) /\ req'[w].pc = "rescaleSave" /\ req'[w].copy = copy
      /\ req'[w].swept = req[w].swept
  <2>1. "rescaleSave" \in Pcs
    BY DEF Pcs
  <2> QED
    BY <1>1, <1>2, <1>3, <1>4, <2>1 DEF Become, Others, Request
<1>6. req[w].swept = {}
  BY <1>1 DEF Inv, Typed, Announced, Flagged, Request
<1>7. Typed'
  BY <1>4, <1>5 DEF Inv, Typed, Others
<1>8. \A v \in Slots : Place(v)'
  <2>1. Restates(w)'
    BY <1>2, <1>4, <1>5 DEF Restates
  <2>2. Place(w)' /\ Frame(w)
    BY <1>1, <1>4, <1>5, <2>1 DEF Place, Inside, Frame
  <2> QED
    BY <1>5, <2>2, OtherPlaces DEF Inv
<1>9. Agreed' /\ Announced' /\ Numbered' /\ Drawn'
  BY <1>1, <1>4, <1>5, <1>6, AgreedFrame, AnnouncedFrame, NumberedFrame DEF Inv, Others
<1> QED
  BY <1>7, <1>8, <1>9 DEF Inv

(* A rescaled line is saved: nothing but its amount changes.                *)
LEMMA RescaledLine ==
  ASSUME Inv, NEW w \in Slots, RescaleSave(w)
  PROVE  /\ lines' \in [Lines -> LineRow]
         /\ \A l \in Lines : SameButAmount(lines'[l], lines[l])
<1> DEFINE m == Min(req[w].todo)
<1>1. /\ req[w] \in Request /\ req[w].pc = "rescaleSave" /\ lines \in [Lines -> LineRow]
      /\ Restates(w) /\ req[w].copy \in [Lines -> LineRow]
  BY DEF Inv, Typed, Place, RescaleSave, Request
<1>2. m \in Lines
  <2>1. req[w].todo \subseteq Nat /\ req[w].todo \subseteq Lines /\ req[w].todo # {}
    BY <1>1, LinesAreNumbers DEF Request, RescaleSave
  <2> QED
    BY <2>1, Minimum
<1>3. lines' = [lines EXCEPT ![m] = req[w].copy[m]]
  BY DEF RescaleSave
<1> HIDE DEF m
<1> QED
  BY <1>1, <1>2, <1>3 DEF Restates, SameButAmount

LEMMA RescaleSaveInv ==
  ASSUME Inv, NEW w \in Slots, RescaleSave(w)
  PROVE  Inv'
<1>1. /\ req \in [Slots -> Request] /\ req[w] \in Request /\ req[w].pc = "rescaleSave"
      /\ OneAtATime /\ Restates(w)
  BY DEF Inv, Typed, Place, RescaleSave
<1>2. /\ lines' \in [Lines -> LineRow]
      /\ \A l \in Lines : SameButAmount(lines'[l], lines[l])
  BY RescaledLine
<1>3. PICK todo : todo = req[w].todo \ {Min(req[w].todo)}
  OBVIOUS
<1>4. /\ Become(w, [req[w] EXCEPT !.todo = todo])
      /\ UNCHANGED <<due, payments, refunds, receiptCounter, receipts, notices, lineLock, restarts>>
  BY <1>3 DEF RescaleSave, bookVars
<1>5. /\ Others(w) /\ req'[w].pc = "rescaleSave" /\ req'[w].copy = req[w].copy
      /\ req'[w].swept = req[w].swept
  BY <1>1, <1>3, <1>4 DEF Become, Others, Request
<1>6. \A v \in Slots : v = w
  BY <1>1 DEF OneAtATime
<1>7. Typed'
  BY <1>2, <1>4, <1>5 DEF Inv, Typed, Others
<1>8. \A v \in Slots : Place(v)'
  <2>1. Restates(w)'
    BY <1>1, <1>2, <1>5 DEF Restates, SameButAmount
  <2>2. Place(w)'
    BY <1>1, <1>5, <2>1 DEF Place, Inside
  <2> QED
    BY <1>6, <2>2
<1>9. Agreed'
  <2>1. \A l \in Lines : \A d : Apart(l, d)' <=> Apart(l, d)
    BY <1>2, <1>4 DEF Apart, SameButAmount
  <2>2. \A v \in Slots, l \in Lines : ~ Pending(v, l) /\ ~ Pending(v, l)'
    BY <1>1, <1>5, <1>6 DEF Pending
  <2> QED
    BY <1>4, <2>1, <2>2 DEF Inv, Agreed
<1>10. Announced'
  <2>1. req[w].swept = {}
    BY <1>1 DEF Inv, Typed, Announced, Flagged, Request
  <2>2. \A v \in Slots, l \in Lines : ~ Flagged(v, l) /\ ~ Flagged(v, l)'
    BY <1>5, <1>6, <2>1 DEF Flagged
  <2> QED
    BY <1>2, <1>4, <2>2 DEF Inv, Announced, SameButAmount
<1>11. Numbered' /\ Drawn'
  BY <1>4, <1>5, NumberedFrame DEF Inv, Others
<1> QED
  BY <1>7, <1>8, <1>9, <1>10, <1>11 DEF Inv
-----------------------------------------------------------------------------
(* Every step, one lemma per action.                                        *)
LEMMA NextInv ==
  ASSUME Inv, AmendsAlone, [Next]_vars
  PROVE  Inv'
<1>1. CASE UNCHANGED vars
  <2>1. Typed' /\ (\A w \in Slots : Place(w)')
    BY <1>1 DEF Inv, Typed, Place, Covered, Restates, vars, bookVars
  <2>2. Agreed' /\ Announced' /\ Numbered' /\ Drawn'
    BY <1>1 DEF Inv, Agreed, Pending, Signed, Apart, Announced, Flagged, Numbered, Drawn, Recent,
       vars, bookVars
  <2> QED
    BY <2>1, <2>2 DEF Inv
<1>2. ASSUME NEW w \in Slots, NEW l \in Lines, NEW a \in Payable,
             StartPay(w, l, a) \/ StartRefund(w, l, a)
      PROVE  Inv'
  BY <1>2, PayableAssumption, StartInv DEF StartPay, StartRefund
<1>3. ASSUME NEW w \in Slots, Step(w)
      PROVE  Inv'
  BY <1>3, ReadLineInv, SaveLineInv, SavePaymentInv, SaveReceiptInv, SaveRefundInv,
     SweepReadInv, SweepSaveInv, EmitSweptInv, EndAmendInv, RescaleInv, RescaleSaveInv DEF Step
<1>4. ASSUME NEW w \in Slots, NEW p \in NewPrices, StartAmend(w, p)
      PROVE  Inv'
  BY <1>4, StartAmendInv DEF AmendsAlone, PricesStand
<1> QED
  BY <1>1, <1>2, <1>3, <1>4, StartSweepInv, PassDueInv, CrashInv DEF Next

(* The invariant holds of every state the books can be in.                  *)
THEOREM Invariance == AmendsAlone => (Spec => []Inv)
<1> SUFFICES ASSUME AmendsAlone PROVE Spec => []Inv
  OBVIOUS
<1>1. Inv /\ [Next]_vars => Inv'
  BY NextInv
<1> QED
  BY InitInv, <1>1, PTL DEF Spec

(* The ledger and the lines agree whenever nobody is inside the lock of the *)
(* line: no interleaving of payments, refunds and sweeps loses an amount,   *)
(* nor does an amendment that meets none of them.                           *)
THEOREM Agreement == WholeCents /\ AmendsAlone => (Spec => []LedgerAgrees)
<1> SUFFICES ASSUME WholeCents, AmendsAlone PROVE Spec => []LedgerAgrees
  OBVIOUS
<1>1. Inv => LedgerAgrees
  <2> SUFFICES ASSUME Inv, NEW l \in Lines, Free(l), l \notin restarts.torn
               PROVE  lines[l].amountPaid = payments[l] - refunds[l]
    BY DEF LedgerAgrees
  <2>1. \A w \in Slots : ~ Pending(w, l)
    BY NoneAssumption DEF Inv, Place, Inside, Pending, Free
  <2>2. Apart(l, 0)
    BY <2>1 DEF Inv, Agreed
  <2>3. lines[l].amountPaid \in Nat /\ payments[l] \in Nat /\ refunds[l] \in Nat
    BY DEF Inv, Typed, LineRow
  <2> QED
    BY <2>2, <2>3 DEF Apart
<1> QED
  BY Invariance, <1>1, PTL

(* A line is announced as overdue once, however many sweeps run at a time,  *)
(* and whatever is paid, refunded or lost in a restart in between, or       *)
(* amended by a request on its own.                                         *)
THEOREM AnnouncedOnce == AmendsAlone => (Spec => []SweptOnce)
<1>1. Inv => SweptOnce
  BY DEF Inv, Announced, SweptOnce
<1> QED
  BY Invariance, <1>1, PTL

(* What was paid on a line is a number of cents: it is rounded to one.      *)
InCents == \A l \in Lines : \E k \in Int : lines[l].amountPaid = k * Fraction

(* A line is saved with what was paid on it before, or rounded.             *)
LEMMA InCentsNext ==
  ASSUME Inv, InCents, AmendsAlone, [Next]_vars
  PROVE  InCents'
<1>1. CASE lines' = lines
  BY <1>1 DEF InCents
<1>2. ASSUME NEW w \in Slots, SaveLine(w) PROVE InCents'
  <2>1. PICK l \in Lines : l = req[w].line
    BY <1>2 DEF Inv, Place, SaveLine, Inside
  <2>2. PICK a \in Nat : a = req[w].amount
    BY DEF Inv, Typed, Request
  <2>3. PICK row : row = IF req[w].op = "pay" THEN AfterPayment(lines[l], a)
                                              ELSE AfterRefund(lines[l], a, l \in due)
    OBVIOUS
  <2>4. lines \in [Lines -> LineRow] /\ lines' = [lines EXCEPT ![l] = row]
    BY <1>2, <2>1, <2>2, <2>3 DEF SaveLine, Inv, Typed, Place
  <2>5. lines[l] \in LineRow /\ lines[l].amountPaid \in Nat
    BY <2>4 DEF LineRow
  <2>6. \E k \in Int : row.amountPaid = k * Fraction
    <3>1. CASE req[w].op = "pay"
      <4>1. row.amountPaid = RoundCents(lines[l].amountPaid + a)
        BY <2>3, <2>5, <3>1, PaymentRow
      <4> QED
        BY <2>5, <4>1, RoundsToCents
    <3>2. CASE req[w].op # "pay"
      <4>1. row.amountPaid = Max({0, RoundCents(lines[l].amountPaid - a)})
        BY <2>3, <2>5, <3>2, RefundRow
      <4>2. PICK k \in Int : RoundCents(lines[l].amountPaid - a) = k * Fraction
        BY <2>5, RoundsToCents
      <4>3. k * Fraction \in Int /\ 0 * Fraction = 0
        BY ScheduleAssumption
      <4>4. row.amountPaid = IF k * Fraction >= 0 THEN k * Fraction ELSE 0
        BY <4>1, <4>2, <4>3, MaxZero
      <4> QED
        BY <4>3, <4>4
    <3> QED
      BY <3>1, <3>2
  <2>7. \A m \in Lines : lines'[m] = IF m = l THEN row ELSE lines[m]
    BY <2>4
  <2> QED
    BY <2>6, <2>7 DEF InCents
<1>3. ASSUME NEW w \in Slots, SweepSave(w) PROVE InCents'
  <2>1. PICK l \in Lines : l = req[w].line
    BY <1>3 DEF Inv, Place, SweepSave, Inside
  <2>2. PICK row : row = [lines[l] EXCEPT !.status = "overdue"]
    OBVIOUS
  <2>3. lines \in [Lines -> LineRow] /\ lines' = [lines EXCEPT ![l] = row]
    BY <1>3, <2>1, <2>2 DEF SweepSave, Inv, Typed, Place
  <2>4. row.amountPaid = lines[l].amountPaid
    BY <2>2, <2>3 DEF LineRow
  <2>5. \A m \in Lines : lines'[m].amountPaid = lines[m].amountPaid
    BY <2>3, <2>4
  <2> QED
    BY <2>5 DEF InCents
<1>4. ASSUME NEW w \in Slots, RescaleSave(w) PROVE InCents'
  BY <1>4, RescaledLine DEF InCents, SameButAmount
<1> QED
  BY <1>1, <1>2, <1>3, <1>4 DEF Next, StartPay, StartRefund, Start, StartSweep, StartAmend, Step,
     ReadLine, SavePayment, SaveReceipt, SaveRefund, SweepRead, EmitSwept, AmendRefuse,
     Rescale, AmendSave, PassDue, Crash, vars

(* Only the save of a refund takes the status `paid`, or money, from a line, *)
(* whatever fraction of a cent is paid; an amendment on its own does not.    *)
THEOREM MoneyOnlyRefunded == AmendsAlone => (Spec => MoneyStays)
<1> SUFFICES ASSUME AmendsAlone PROVE Spec => MoneyStays
  OBVIOUS
<1> DEFINE Taken(l) == \/ lines'[l].amountPaid < lines[l].amountPaid
                       \/ lines[l].status = "paid" /\ lines'[l].status # "paid"
<1>1. Inv /\ InCents /\ [Next]_vars =>
        [\A l \in Lines :
           \/ lines'[l].amountPaid < lines[l].amountPaid
           \/ lines[l].status = "paid" /\ lines'[l].status # "paid"
           => RefundSaved(l)]_vars
  <2> SUFFICES ASSUME Inv, InCents, Next, NEW l \in Lines, Taken(l) PROVE RefundSaved(l)
    OBVIOUS
  <2>1. lines \in [Lines -> LineRow] /\ lines[l].amountPaid \in Nat
    BY DEF Inv, Typed, LineRow
  <2>2. lines' # lines
    BY <2>1
  <2>3. PICK w \in Slots : SaveLine(w) \/ SweepSave(w)
    <3>1. \A w \in Slots : ~ RescaleSave(w)
      BY <2>1, RescaledLine DEF SameButAmount
    <3> QED
      BY <2>2, <3>1 DEF Next, StartPay, StartRefund, Start, StartSweep, StartAmend, Step,
         ReadLine, SavePayment, SaveReceipt, SaveRefund, SweepRead, EmitSwept, AmendRefuse,
         Rescale, AmendSave, PassDue, Crash
  <2>4. /\ req \in [Slots -> Request] /\ req[w].line \in Lines /\ lines[req[w].line] \in LineRow
        /\ req[w].copy[req[w].line] = lines[req[w].line] /\ req[w].amount \in Nat
    BY <2>1, <2>3 DEF Inv, Typed, Place, SaveLine, SweepSave, Inside, Request
  <2>5. ~ SweepSave(w)
    <3> SUFFICES ASSUME SweepSave(w) PROVE FALSE
      OBVIOUS
    <3> DEFINE row == [lines[req[w].line] EXCEPT !.status = "overdue"]
    <3>1. lines' = [lines EXCEPT ![req[w].line] = row] /\ lines[req[w].line].status = "upcoming"
      BY <2>4 DEF SweepSave, Inv, Place
    <3>2. row.amountPaid = lines[req[w].line].amountPaid
      BY <2>4 DEF LineRow
    <3> HIDE DEF row
    <3> QED
      BY <2>1, <3>1, <3>2
  <2>6. SaveLine(w) /\ req[w].pc = "saveLine" /\ req[w].op \in {"pay", "refund"}
    BY <2>3, <2>5 DEF SaveLine, Inv, Place
  <2>7. req[w].line = l
    BY <2>1, <2>6 DEF SaveLine
  <2>8. req[w].op # "pay"
    <3> SUFFICES ASSUME req[w].op = "pay" PROVE FALSE
      OBVIOUS
    <3>1. lines'[l] = AfterPayment(lines[l], req[w].amount)
      BY <2>1, <2>4, <2>6, <2>7 DEF SaveLine
    <3>2. lines'[l].amountPaid >= lines[l].amountPaid
      <4>1. lines'[l].amountPaid = RoundCents(lines[l].amountPaid + req[w].amount)
        BY <2>4, <2>7, <3>1, PaymentRow
      <4>2. PICK x \in Nat : x = lines[l].amountPaid
        BY <2>1
      <4>3. PICK a \in Nat : a = req[w].amount
        BY <2>4
      <4>4. PICK j \in Int : x = j * Fraction
        BY <4>2 DEF InCents
      <4>5. PICK k \in Int : RoundCents(x + a) = k * Fraction /\ \A i \in Int : i * Fraction <= x + a => i <= k
        BY RoundsToCents
      <4>6. j <= k
        BY <4>4, <4>5
      <4>7. (k - j) * Fraction >= 0 /\ (k - j) * Fraction = k * Fraction - j * Fraction
        BY <4>6, ScheduleAssumption
      <4>8. j * Fraction \in Int /\ k * Fraction \in Int
        BY ScheduleAssumption
      <4>9. k * Fraction >= j * Fraction
        BY <4>7, <4>8
      <4> QED
        BY <4>1, <4>2, <4>3, <4>4, <4>5, <4>9
    <3>3. lines[l].status # "paid"
      BY <2>6, <2>7 DEF Inv, Place
    <3> QED
      <4>1. lines'[l].amountPaid \in Nat
        BY <2>1, <2>4, <2>7, <3>1, PaymentRow DEF LineRow
      <4> QED
        BY <2>1, <3>2, <3>3, <4>1
  <2>9. req'[w].pc = "saveRow"
    <3>1. Become(w, [req[w] EXCEPT !.pc = "saveRow", !.copy = Blank])
      BY <2>6 DEF SaveLine
    <3>2. req[w] \in Request
      BY <2>4
    <3> QED
      BY <2>4, <3>1, <3>2 DEF Become, Request
  <2> QED
    BY <2>6, <2>7, <2>8, <2>9 DEF RefundSaved
<1>2. Init => InCents
  <2>1. 0 * Fraction = 0
    BY ScheduleAssumption
  <2>2. Init => \A m \in Lines : lines[m].amountPaid = 0
    BY DEF Init
  <2> QED
    BY <2>1, <2>2 DEF InCents
<1>3. Inv /\ InCents /\ [Next]_vars => InCents'
  BY InCentsNext
<1> QED
  BY <1>1, <1>2, <1>3, Invariance, PTL DEF Spec, MoneyStays
-----------------------------------------------------------------------------
(* The fields of a request, and the lines an amendment has yet to save: they *)
(* are those on which nothing has been paid.                                 *)
Shape(q) == q \in [op : {q.op}, pc : {q.pc}, line : {q.line}, amount : {q.amount}, copy : {q.copy},
                    rest : {q.rest}, todo : {q.todo}, swept : {q.swept}]
Spared ==
  /\ lines = [l \in Lines |-> lines[l]]
  /\ req = [w \in Slots |-> req[w]]
  /\ \A w \in Slots : Shape(req[w])
  /\ \A w \in Slots : req[w].pc = "rescaleSave" => req[w].todo \subseteq Untouched(lines)

(* The one request moves on, to no save of a rescaled line. *)
LEMMA Moves ==
  ASSUME OneAtATime, Spared, NEW w \in Slots, NEW q, Become(w, q), Shape(q), q.pc # "rescaleSave",
         lines' = [l \in Lines |-> lines'[l]]
  PROVE  Spared'
<1>1. req' = [v \in Slots |-> req'[v]] /\ req'[w] = q
  BY DEF Become, Spared
<1>2. \A v \in Slots : v = w
  BY DEF OneAtATime
<1>3. \A v \in Slots : req'[v] = q
  BY <1>1, <1>2
<1>4. \A v \in Slots : Shape(req[v])'
  BY <1>3 DEF Shape
<1> QED
  BY <1>1, <1>3, <1>4 DEF Spared

(* No request has started. *)
LEMMA SparedStart == Init => Spared
<1> SUFFICES ASSUME Init PROVE Spared
  OBVIOUS
<1>1. \A w \in Slots : req[w] = Idle
  BY DEF Init
<1>2. Shape(Idle) /\ Idle.pc = "idle"
  BY DEF Shape, Idle
<1>3. \A w \in Slots : Shape(req[w]) /\ req[w].pc = "idle"
  BY <1>1, <1>2 DEF Shape
<1> QED
  BY <1>3 DEF Init, Spared

(* A request that is over saves nothing. *)
LEMMA Idles == Shape(Idle) /\ Idle.pc # "rescaleSave"
BY DEF Shape, Idle

(* Every step keeps it, at any price and with any fraction of a cent: a step *)
(* per action.                                                               *)
LEMMA SparedNext ==
  ASSUME OneAtATime, Spared, [Next]_vars PROVE Spared'
<1>0. \A w \in Slots : Shape(req[w])
  BY DEF Spared
<1>1. ASSUME NEW w \in Slots, NEW op, NEW l, NEW a, Start(w, op, l, a) PROVE Spared'
  <2>1. PICK q : q = [Idle EXCEPT !.op = op, !.pc = "lock", !.line = l, !.amount = a]
    OBVIOUS
  <2>2. Shape(q) /\ q.pc = "lock"
    BY <2>1 DEF Shape, Idle
  <2> QED
    BY <1>1, <2>1, <2>2, Moves DEF Start, Spared
<1>2. ASSUME NEW w \in Slots, ReadLine(w) PROVE Spared'
  <2>1. PICK q : q = [req[w] EXCEPT !.pc = "saveLine", !.copy = [Blank EXCEPT ![req[w].line] = lines[req[w].line]]]
    OBVIOUS
  <2>2. Shape(q) /\ q.pc = "saveLine"
    BY <1>0, <2>1 DEF Shape
  <2>3. Become(w, q) \/ Become(w, Idle)
    BY <1>2, <2>1 DEF ReadLine, Finish
  <2> QED
    BY <1>2, <2>2, <2>3, Idles, Moves DEF ReadLine, Spared
<1>3. ASSUME NEW w \in Slots, SaveLine(w) PROVE Spared'
  <2>1. PICK q : q = [req[w] EXCEPT !.pc = "saveRow", !.copy = Blank]
    OBVIOUS
  <2>2. Shape(q) /\ q.pc = "saveRow"
    BY <1>0, <2>1 DEF Shape
  <2>3. Become(w, q) /\ lines' = [l \in Lines |-> lines'[l]]
    BY <1>3, <2>1 DEF SaveLine, Spared
  <2> QED
    BY <2>2, <2>3, Moves
<1>4. ASSUME NEW w \in Slots, SavePayment(w) PROVE Spared'
  <2>1. PICK q : q = [req[w] EXCEPT !.pc = "saveReceipt", !.amount = receiptCounter']
    OBVIOUS
  <2>2. Shape(q) /\ q.pc = "saveReceipt"
    BY <1>0, <2>1 DEF Shape
  <2> QED
    BY <1>4, <2>1, <2>2, Moves DEF SavePayment, Spared
<1>5. ASSUME NEW w \in Slots, SaveReceipt(w) \/ SaveRefund(w) \/ EmitSwept(w) \/ AmendRefuse(w) \/ AmendSave(w)
      PROVE  Spared'
  <2>1. Become(w, Idle) /\ lines' = lines
    BY <1>5 DEF SaveReceipt, SaveRefund, EmitSwept, AmendRefuse, AmendSave, Finish
  <2> QED
    BY <2>1, Idles, Moves DEF Spared
<1>6. ASSUME NEW w \in Slots, StartSweep(w) PROVE Spared'
  <2>1. PICK q : q = [Idle EXCEPT !.op = "sweep", !.pc = "sweep", !.todo = {l \in Lines : Sweepable(l)}]
    OBVIOUS
  <2>2. Shape(q) /\ q.pc = "sweep"
    BY <2>1 DEF Shape, Idle
  <2> QED
    BY <1>6, <2>1, <2>2, Moves DEF StartSweep, Spared
<1>7. ASSUME NEW w \in Slots, NEW l \in Lines, SweepRead(w, l) PROVE Spared'
  <2>1. PICK q : q = [req[w] EXCEPT !.pc = "sweepSave", !.line = l, !.todo = @ \ {l},
                                    !.copy = [Blank EXCEPT ![l] = lines[l]]]
    OBVIOUS
  <2>2. PICK r : r = [req[w] EXCEPT !.todo = @ \ {l}]
    OBVIOUS
  <2>3. Shape(q) /\ q.pc = "sweepSave"
    BY <1>0, <2>1 DEF Shape
  <2>4. Shape(r) /\ r.pc = req[w].pc
    BY <1>0, <2>2 DEF Shape
  <2>5. req[w].pc = "sweep" /\ lines' = lines /\ (Become(w, q) \/ Become(w, r))
    BY <1>7, <2>1, <2>2 DEF SweepRead
  <2> QED
    BY <2>3, <2>4, <2>5, Moves DEF Spared
<1>8. ASSUME NEW w \in Slots, SweepSave(w) PROVE Spared'
  <2>1. PICK q : q = [req[w] EXCEPT !.pc = "sweep", !.line = None, !.copy = Blank, !.swept = @ \cup {req[w].line}]
    OBVIOUS
  <2>2. Shape(q) /\ q.pc = "sweep"
    BY <1>0, <2>1 DEF Shape
  <2>3. Become(w, q) /\ lines' = [l \in Lines |-> lines'[l]]
    BY <1>8, <2>1 DEF SweepSave, Spared
  <2> QED
    BY <2>2, <2>3, Moves
<1>9. ASSUME NEW w \in Slots, NEW p, StartAmend(w, p) PROVE Spared'
  <2>1. PICK q : q = [Idle EXCEPT !.op = "amend", !.pc = "rescale", !.amount = p,
                                  !.rest = p - Total(lines, Touched(lines))]
    OBVIOUS
  <2>2. Shape(q) /\ q.pc = "rescale"
    BY <2>1 DEF Shape, Idle
  <2> QED
    BY <1>9, <2>1, <2>2, Moves DEF StartAmend, Spared
<1>10. ASSUME NEW w \in Slots, Rescale(w) PROVE Spared'
  <2>1. PICK q : q = [req[w] EXCEPT !.pc = "rescaleSave", !.todo = Untouched(lines),
                                    !.copy = Rescaled(lines, req[w].rest)]
    OBVIOUS
  <2>2. Shape(q) /\ q.todo = Untouched(lines)
    BY <1>0, <2>1 DEF Shape
  <2>3. req' = [req EXCEPT ![w] = q] /\ lines' = lines
    BY <1>10, <2>1 DEF Rescale, Become
  <2>4. req' = [v \in Slots |-> req'[v]] /\ \A v \in Slots : req'[v] = q
    BY <2>3 DEF Spared, OneAtATime
  <2>5. \A v \in Slots : Shape(req[v])'
    BY <2>2, <2>4 DEF Shape
  <2>6. \A v \in Slots : req'[v].todo \subseteq Untouched(lines')
    BY <2>2, <2>3, <2>4
  <2> QED
    BY <2>3, <2>4, <2>5, <2>6 DEF Spared
<1>11. ASSUME NEW w \in Slots, RescaleSave(w) PROVE Spared'
  <2>1. PICK m : m = Min(req[w].todo)
    OBVIOUS
  <2>2. PICK q : q = [req[w] EXCEPT !.todo = @ \ {m}]
    OBVIOUS
  <2>3. Shape(q) /\ q.todo = req[w].todo \ {m}
    BY <1>0, <2>2 DEF Shape
  <2>4. req' = [req EXCEPT ![w] = q] /\ lines' = [lines EXCEPT ![m] = req[w].copy[m]]
        /\ req[w].pc = "rescaleSave"
    BY <1>11, <2>1, <2>2 DEF RescaleSave, Become
  <2>5. req' = [v \in Slots |-> req'[v]] /\ \A v \in Slots : req'[v] = q
    BY <2>4 DEF Spared, OneAtATime
  <2>6. lines' = [l \in Lines |-> lines'[l]] /\ \A l \in Lines : l # m => lines'[l] = lines[l]
    BY <2>4 DEF Spared
  <2>7. \A v \in Slots : Shape(req[v])'
    BY <2>3, <2>5 DEF Shape
  <2>8. q.todo \subseteq Untouched(lines')
    BY <2>3, <2>4, <2>6 DEF Spared, Untouched
  <2> QED
    BY <2>5, <2>6, <2>7, <2>8 DEF Spared
<1>12. CASE UNCHANGED <<lines, req>>
  BY <1>12 DEF Spared, Shape, Untouched
<1>13. CASE Crash
  <2>1. req' = [w \in Slots |-> Idle] /\ lines' = lines
    BY <1>13 DEF Crash
  <2>2. \A w \in Slots : Shape(req[w])' /\ req'[w].pc # "rescaleSave"
    BY <2>1, Idles DEF Shape
  <2> QED
    BY <2>1, <2>2 DEF Spared
<1> QED
  BY <1>1, <1>2, <1>3, <1>4, <1>5, <1>6, <1>7, <1>8, <1>9, <1>10, <1>11, <1>12, <1>13
     DEF Next, Step, StartPay, StartRefund, PassDue, vars

(* While one request is served at a time, an amendment leaves every line     *)
(* alone on which something has been paid (sales.service.ts:196-203,         *)
(* payment-plans.service.ts:129).                                            *)
THEOREM AmendmentsSpare == OneAtATime => (Spec => AmendLeavesPaidLines)
<1> SUFFICES ASSUME OneAtATime PROVE Spec => AmendLeavesPaidLines
  OBVIOUS
<1>1. Spared /\ [Next]_vars => Spared'
  BY SparedNext
<1>2. Spared => [\A l \in Lines, w \in Slots :
         RescaleSave(w) /\ lines[l].amountPaid > 0 => lines'[l] = lines[l]]_vars
  <2> SUFFICES ASSUME Spared, NEW l \in Lines, NEW w \in Slots, RescaleSave(w), lines[l].amountPaid > 0
               PROVE  lines'[l] = lines[l]
    OBVIOUS
  <2>1. req[w].todo \subseteq Untouched(lines) /\ req[w].todo # {}
    BY DEF Spared, RescaleSave
  <2>2. Untouched(lines) \subseteq Nat
    BY ScheduleAssumption DEF Untouched, Lines
  <2>3. Min(req[w].todo) \in Untouched(lines)
    BY <2>1, <2>2, Minimum
  <2>4. Min(req[w].todo) # l
    BY <2>3 DEF Untouched
  <2> QED
    BY <2>4 DEF RescaleSave, Spared
<1> QED
  BY SparedStart, <1>1, <1>2, PTL DEF Spec, AmendLeavesPaidLines
-----------------------------------------------------------------------------
(* Receipts are numbered apart whatever else goes on: amendments beside      *)
(* payments, at any prices and any fraction of a cent.  A number drawn is    *)
(* above those of the receipts saved, and the counter never goes back but    *)
(* with the process.                                                         *)
Serial ==
  /\ req = [w \in Slots |-> req[w]] /\ \A w \in Slots : Shape(req[w])
  /\ restarts \in [count : {restarts.count}, torn : {restarts.torn},
                   repricing : {restarts.repricing}, receipts : Nat]
  /\ receiptCounter \in Nat /\ receipts \in Seq(Nat)
  /\ \A w \in Slots : req[w].pc = "saveReceipt" => req[w].amount \in Nat
  /\ Numbered
  /\ Drawn

(* No receipt has been saved.                                                *)
LEMMA SerialStart == Init => Serial
<1> SUFFICES ASSUME Init PROVE Serial
  OBVIOUS
<1>1. \A w \in Slots : req[w] = Idle
  BY DEF Init
<1>2. Shape(Idle) /\ Idle.pc = "idle"
  BY DEF Shape, Idle
<1>3. \A w \in Slots : Shape(req[w]) /\ req[w].pc = "idle"
  BY <1>1, <1>2 DEF Shape
<1>4. receipts = <<>> /\ receiptCounter = 0 /\ restarts.receipts = 0
  BY DEF Init
<1>5. Numbered
  BY <1>4 DEF Numbered, Recent
<1>6. Drawn
  BY <1>3 DEF Drawn
<1> QED
  BY <1>3, <1>4, <1>5, <1>6 DEF Init, Serial

(* A request moves on without drawing a number or saving a receipt.          *)
LEMMA DrawsNothing ==
  ASSUME Serial, NEW w \in Slots, NEW q, Become(w, q), Shape(q), q.pc # "saveReceipt",
         UNCHANGED <<receiptCounter, receipts>>,
         restarts' = restarts \/ restarts' = [restarts EXCEPT !.repricing = FALSE]
  PROVE  Serial'
<1>1. req' = [v \in Slots |-> req'[v]] /\ req'[w] = q /\ \A v \in Slots : v # w => req'[v] = req[v]
  BY DEF Become, Serial
<1>2. \A v \in Slots : Shape(req[v])'
  BY <1>1 DEF Shape, Serial
<1>3. /\ restarts' \in [count : {restarts'.count}, torn : {restarts'.torn},
                        repricing : {restarts'.repricing}, receipts : Nat]
      /\ restarts'.receipts = restarts.receipts
  BY DEF Serial
<1>4. \A v \in Slots : req'[v].pc = "saveReceipt" => req'[v] = req[v]
  BY <1>1
<1>5. Numbered' /\ Drawn'
  BY <1>3, <1>4, NumberedFrame DEF Serial
<1> QED
  BY <1>1, <1>2, <1>3, <1>4, <1>5 DEF Serial

(* The number drawn is one that nobody has.                                  *)
LEMMA SavePaymentSerial ==
  ASSUME Serial, NEW w \in Slots, SavePayment(w)
  PROVE  Serial'
<1>1. PICK q : q = [req[w] EXCEPT !.pc = "saveReceipt", !.amount = receiptCounter + 1]
  OBVIOUS
<1>2. Shape(q) /\ q.pc = "saveReceipt" /\ q.amount = receiptCounter + 1
  BY <1>1 DEF Shape, Serial
<1>3. /\ Become(w, q) /\ receiptCounter' = receiptCounter + 1 /\ receiptCounter \in Nat
      /\ UNCHANGED <<receipts, restarts>>
  BY <1>1 DEF SavePayment, Serial
<1>4. req' = [v \in Slots |-> req'[v]] /\ req'[w] = q /\ \A v \in Slots : v # w => req'[v] = req[v]
  BY <1>3 DEF Become, Serial
<1>5. \A v \in Slots : Shape(req[v])'
  BY <1>2, <1>4 DEF Shape, Serial
<1>6. Recent' = Recent /\ \A i \in Recent : receipts[i] \in Nat
  BY <1>3 DEF Recent, Serial
<1>7. \A x \in Nat : x <= receiptCounter => x <= receiptCounter + 1 /\ x # receiptCounter + 1
  BY <1>3
<1>8. receiptCounter + 1 <= receiptCounter + 1 /\ receiptCounter + 1 \in Nat
  BY <1>3
<1>9. Numbered'
  BY <1>3, <1>6, <1>7 DEF Serial, Numbered
<1>10. Drawn'
  BY <1>2, <1>3, <1>4, <1>6, <1>7, <1>8 DEF Serial, Numbered, Drawn
<1> QED
  BY <1>2, <1>3, <1>4, <1>5, <1>8, <1>9, <1>10 DEF Serial

(* The receipt is saved under the number drawn for it.                       *)
LEMMA SaveReceiptSerial ==
  ASSUME Serial, NEW w \in Slots, SaveReceipt(w)
  PROVE  Serial'
<1>1. /\ req[w].pc = "saveReceipt" /\ req[w].amount \in Nat
      /\ receipts \in Seq(Nat) /\ restarts.receipts \in Nat
      /\ receipts' = Append(receipts, req[w].amount)
      /\ UNCHANGED <<receiptCounter, restarts>> /\ Become(w, Idle)
  BY DEF Serial, SaveReceipt, Finish
<1>2. req' = [v \in Slots |-> req'[v]] /\ req'[w] = Idle /\ \A v \in Slots : v # w => req'[v] = req[v]
  BY <1>1 DEF Become, Serial
<1>3. Shape(Idle) /\ Idle.pc = "idle"
  BY DEF Shape, Idle
<1>4. \A v \in Slots : Shape(req[v])'
  BY <1>2, <1>3 DEF Shape, Serial
<1>5. PICK n \in Nat : n = Len(receipts)
  BY <1>1
<1>6. /\ receipts' \in Seq(Nat) /\ Len(receipts') = n + 1 /\ receipts'[n + 1] = req[w].amount
      /\ \A i \in 1 .. n : receipts'[i] = receipts[i]
  BY <1>1, <1>5
<1>7. PICK last : last = n + 1
  OBVIOUS
<1>8. /\ restarts'.receipts <= Len(receipts')
      /\ Recent' = Recent \cup {last} /\ receipts'[last] = req[w].amount
      /\ \A i \in Recent : receipts'[i] = receipts[i] /\ i # last
  BY <1>1, <1>5, <1>6, <1>7 DEF Serial, Numbered, Recent
<1>9. /\ \A i \in Recent : receipts[i] <= receiptCounter
      /\ \A i, j \in Recent : receipts[i] = receipts[j] => i = j
      /\ req[w].amount <= receiptCounter
      /\ \A i \in Recent : receipts[i] # req[w].amount
      /\ \A v \in Slots : req[v].pc = "saveReceipt" /\ v # w => req[v].amount # req[w].amount
  BY <1>1 DEF Serial, Numbered, Drawn
<1>10. Numbered'
  <2>1. \A i \in Recent' : receipts'[i] <= receiptCounter'
    BY <1>1, <1>8, <1>9
  <2>2. \A i, j \in Recent' : receipts'[i] = receipts'[j] => i = j
    BY <1>8, <1>9
  <2> QED
    BY <1>8, <2>1, <2>2 DEF Numbered
<1>11. Drawn'
  <2> SUFFICES ASSUME NEW v \in Slots, req'[v].pc = "saveReceipt"
               PROVE  /\ req'[v].amount <= receiptCounter'
                      /\ \A i \in Recent' : receipts'[i] # req'[v].amount
                      /\ \A u \in Slots : /\ req'[u].pc = "saveReceipt"
                                           /\ req'[u].amount = req'[v].amount
                                           => u = v
    BY DEF Drawn
  <2>1. v # w /\ req'[v] = req[v]
    BY <1>2, <1>3
  <2>2. /\ req[v].amount <= receiptCounter
        /\ \A i \in Recent : receipts[i] # req[v].amount
        /\ \A u \in Slots : req[u].pc = "saveReceipt" /\ req[u].amount = req[v].amount => u = v
    BY <2>1 DEF Serial, Drawn
  <2>3. \A u \in Slots : req'[u].pc = "saveReceipt" => req'[u] = req[u]
    BY <1>2, <1>3
  <2> QED
    BY <1>1, <1>8, <1>9, <2>1, <2>2, <2>3
<1> QED
  BY <1>1, <1>2, <1>3, <1>4, <1>6, <1>10, <1>11 DEF Serial

(* The counter starts over, and so does the life of the process it numbers.  *)
LEMMA CrashSerial == ASSUME Serial, Crash PROVE Serial'
<1>1. /\ req' = [w \in Slots |-> Idle] /\ receiptCounter' = 0 /\ receipts' = receipts
      /\ restarts'.receipts = Len(receipts) /\ Len(receipts) \in Nat
      /\ restarts' \in [count : {restarts'.count}, torn : {restarts'.torn},
                        repricing : {restarts'.repricing}, receipts : Nat]
  BY DEF Crash, Serial
<1>2. Shape(Idle) /\ Idle.pc = "idle"
  BY DEF Shape, Idle
<1>3. \A w \in Slots : Shape(req[w])' /\ req'[w].pc = "idle"
  BY <1>1, <1>2 DEF Shape
<1>4. Recent' = {} /\ Len(receipts') = Len(receipts)
  BY <1>1 DEF Recent
<1>5. Numbered'
  BY <1>1, <1>4 DEF Numbered
<1>6. Drawn'
  BY <1>3 DEF Drawn
<1> QED
  BY <1>1, <1>3, <1>5, <1>6 DEF Serial

(* Every step keeps the numbers apart.                                       *)
LEMMA SerialNext ==
  ASSUME Serial, [Next]_vars PROVE Serial'
<1>0. \A w \in Slots : Shape(req[w])
  BY DEF Serial
<1>1. ASSUME NEW w \in Slots, NEW op, NEW l, NEW a, Start(w, op, l, a) PROVE Serial'
  <2>1. PICK q : q = [Idle EXCEPT !.op = op, !.pc = "lock", !.line = l, !.amount = a]
    OBVIOUS
  <2>2. Shape(q) /\ q.pc = "lock"
    BY <2>1 DEF Shape, Idle
  <2> QED
    BY <1>1, <2>1, <2>2, DrawsNothing DEF Start, bookVars
<1>2. ASSUME NEW w \in Slots, ReadLine(w) PROVE Serial'
  <2>1. PICK q : q = [req[w] EXCEPT !.pc = "saveLine", !.copy = [Blank EXCEPT ![req[w].line] = lines[req[w].line]]]
    OBVIOUS
  <2>2. Shape(q) /\ q.pc = "saveLine" /\ Shape(Idle) /\ Idle.pc = "idle"
    BY <1>0, <2>1 DEF Shape, Idle
  <2>3. Become(w, q) \/ Become(w, Idle)
    BY <1>2, <2>1 DEF ReadLine, Finish
  <2>4. UNCHANGED <<receiptCounter, receipts, restarts>>
    BY <1>2 DEF ReadLine, bookVars
  <2> QED
    BY <2>2, <2>3, <2>4, DrawsNothing
<1>3. ASSUME NEW w \in Slots, SaveLine(w) PROVE Serial'
  <2>1. PICK q : q = [req[w] EXCEPT !.pc = "saveRow", !.copy = Blank]
    OBVIOUS
  <2>2. Shape(q) /\ q.pc = "saveRow"
    BY <1>0, <2>1 DEF Shape
  <2>3. Become(w, q) /\ UNCHANGED <<receiptCounter, receipts, restarts>>
    BY <1>3, <2>1 DEF SaveLine, bookVars
  <2> QED
    BY <2>2, <2>3, DrawsNothing
<1>4. ASSUME NEW w \in Slots, SaveRefund(w) \/ EmitSwept(w) \/ AmendRefuse(w) \/ AmendSave(w)
      PROVE  Serial'
  <2>1. /\ Become(w, Idle) /\ UNCHANGED <<receiptCounter, receipts>>
        /\ restarts' = restarts \/ restarts' = [restarts EXCEPT !.repricing = FALSE]
    BY <1>4 DEF SaveRefund, EmitSwept, AmendRefuse, AmendSave, Finish, bookVars
  <2>2. Shape(Idle) /\ Idle.pc = "idle"
    BY DEF Shape, Idle
  <2> QED
    BY <2>1, <2>2, DrawsNothing
<1>5. ASSUME NEW w \in Slots, StartSweep(w) PROVE Serial'
  <2>1. PICK q : q = [Idle EXCEPT !.op = "sweep", !.pc = "sweep", !.todo = {l \in Lines : Sweepable(l)}]
    OBVIOUS
  <2>2. Shape(q) /\ q.pc = "sweep"
    BY <2>1 DEF Shape, Idle
  <2> QED
    BY <1>5, <2>1, <2>2, DrawsNothing DEF StartSweep, bookVars
<1>6. ASSUME NEW w \in Slots, NEW l \in Lines, SweepRead(w, l) PROVE Serial'
  <2>1. PICK q : q = [req[w] EXCEPT !.pc = "sweepSave", !.line = l, !.todo = @ \ {l},
                                    !.copy = [Blank EXCEPT ![l] = lines[l]]]
    OBVIOUS
  <2>2. PICK r : r = [req[w] EXCEPT !.todo = @ \ {l}]
    OBVIOUS
  <2>3. Shape(q) /\ q.pc = "sweepSave"
    BY <1>0, <2>1 DEF Shape
  <2>4. Shape(r) /\ r.pc = req[w].pc
    BY <1>0, <2>2 DEF Shape
  <2>5. /\ req[w].pc = "sweep" /\ UNCHANGED <<receiptCounter, receipts, restarts>>
        /\ Become(w, q) \/ Become(w, r)
    BY <1>6, <2>1, <2>2 DEF SweepRead, bookVars
  <2> QED
    BY <2>3, <2>4, <2>5, DrawsNothing
<1>7. ASSUME NEW w \in Slots, SweepSave(w) PROVE Serial'
  <2>1. PICK q : q = [req[w] EXCEPT !.pc = "sweep", !.line = None, !.copy = Blank, !.swept = @ \cup {req[w].line}]
    OBVIOUS
  <2>2. Shape(q) /\ q.pc = "sweep"
    BY <1>0, <2>1 DEF Shape
  <2>3. Become(w, q) /\ UNCHANGED <<receiptCounter, receipts, restarts>>
    BY <1>7, <2>1 DEF SweepSave, bookVars
  <2> QED
    BY <2>2, <2>3, DrawsNothing
<1>8. ASSUME NEW w \in Slots, NEW p, StartAmend(w, p) PROVE Serial'
  <2>1. PICK q : q = [Idle EXCEPT !.op = "amend", !.pc = "rescale", !.amount = p,
                                  !.rest = p - Total(lines, Touched(lines))]
    OBVIOUS
  <2>2. Shape(q) /\ q.pc = "rescale"
    BY <2>1 DEF Shape, Idle
  <2> QED
    BY <1>8, <2>1, <2>2, DrawsNothing DEF StartAmend, bookVars
<1>9. ASSUME NEW w \in Slots, Rescale(w) PROVE Serial'
  <2>1. PICK q : q = [req[w] EXCEPT !.pc = "rescaleSave", !.todo = Untouched(lines),
                                    !.copy = Rescaled(lines, req[w].rest)]
    OBVIOUS
  <2>2. Shape(q) /\ q.pc = "rescaleSave"
    BY <1>0, <2>1 DEF Shape
  <2>3. Become(w, q) /\ UNCHANGED <<receiptCounter, receipts, restarts>>
    BY <1>9, <2>1 DEF Rescale, bookVars
  <2> QED
    BY <2>2, <2>3, DrawsNothing
<1>10. ASSUME NEW w \in Slots, RescaleSave(w) PROVE Serial'
  <2>1. PICK m : m = Min(req[w].todo)
    OBVIOUS
  <2>2. PICK q : q = [req[w] EXCEPT !.todo = @ \ {m}]
    OBVIOUS
  <2>3. Shape(q) /\ q.pc = req[w].pc
    BY <1>0, <2>2 DEF Shape
  <2>4. Become(w, q) /\ req[w].pc = "rescaleSave" /\ UNCHANGED <<receiptCounter, receipts, restarts>>
    BY <1>10, <2>1, <2>2 DEF RescaleSave, bookVars
  <2> QED
    BY <2>3, <2>4, DrawsNothing
<1>11. CASE UNCHANGED <<req, receiptCounter, receipts, restarts>>
  BY <1>11 DEF Serial, Shape, Numbered, Drawn, Recent
<1> QED
  BY <1>1, <1>2, <1>3, <1>4, <1>5, <1>6, <1>7, <1>8, <1>9, <1>10, <1>11, SavePaymentSerial,
     SaveReceiptSerial, CrashSerial
     DEF Next, Step, StartPay, StartRefund, PassDue, vars, bookVars

(* Two receipts of one life of the process never share a number, whatever    *)
(* payments, refunds, sweeps and amendments run side by side.                *)
THEOREM ReceiptsApart == Spec => []ReceiptNumbersUnique
<1>1. Serial => ReceiptNumbersUnique
  BY DEF Serial, Numbered, Recent, ReceiptNumbersUnique, IsInjective
<1>2. Serial /\ [Next]_vars => Serial'
  BY SerialNext
<1> QED
  BY SerialStart, <1>1, <1>2, PTL DEF Spec
-----------------------------------------------------------------------------
(* What holds while one request is served at a time: the rows of a request  *)
(* have the amounts of the lines; an amendment knows what the lines it will *)
(* not touch add up to, and its copies add up to the new price.             *)
Amending(w) == req[w].pc \in {"rescale", "rescaleSave"}

Restated(w) ==
  /\ \A l \in Lines : RowShape(req[w].copy[l])
  /\ Total(req[w].copy, Lines) = req[w].amount
  /\ req[w].todo \subseteq Lines
  /\ \A l \in Lines \ req[w].todo : lines[l].amount = req[w].copy[l].amount

Current(w) ==
  /\ req[w].op = "amend" <=> Amending(w)
  /\ req[w].pc \in {"lock", "saveLine", "sweepSave"} => req[w].line \in Lines
  /\ req[w].pc \in {"saveLine", "sweepSave"} =>
       /\ RowShape(req[w].copy[req[w].line])
       /\ req[w].copy[req[w].line].amount = lines[req[w].line].amount
  /\ Amending(w) => req[w].amount \in Int
  /\ req[w].pc = "rescale" => req[w].rest = req[w].amount - Total(lines, Touched(lines))
  /\ req[w].pc = "rescaleSave" => Restated(w)

AsPriced ==
  (\A w \in Slots : req[w].pc # "rescaleSave") /\ ~ restarts.repricing => Total(lines, Lines) = price

Rows == lines = [l \in Lines |-> lines[l]] /\ \A l \in Lines : RowShape(lines[l])
Requests == req = [w \in Slots |-> req[w]] /\ \A w \in Slots : Shape(req[w])

Balanced ==
  /\ Rows
  /\ Requests
  /\ \A w \in Slots : Current(w)
  /\ AsPriced

(* The request of the one slot becomes q. *)
LEMMA Alone ==
  ASSUME OneAtATime, Requests, NEW w \in Slots, NEW q, Become(w, q), Shape(q)
  PROVE  Requests' /\ \A v \in Slots : req'[v] = q /\ req[v] = req[w]
<1>1. req' = [v \in Slots |-> req'[v]] /\ req'[w] = q
  BY DEF Become, Requests
<1>2. \A v \in Slots : v = w
  BY DEF OneAtATime
<1>3. \A v \in Slots : req'[v] = q /\ req[v] = req[w]
  BY <1>1, <1>2
<1>4. \A v \in Slots : Shape(req[v])'
  BY <1>3 DEF Shape
<1> QED
  BY <1>1, <1>3, <1>4 DEF Requests

SameAmounts == \A l \in Lines : lines'[l].amount = lines[l].amount

(* A step that leaves the amounts alone leaves their sums alone. *)
LEMMA SameLines ==
  ASSUME Rows, SameAmounts
  PROVE  Total(lines, Lines)' = Total(lines, Lines) /\ Total(lines, Lines) \in Int
<1>1. \A l \in Lines : lines[l].amount \in Int /\ lines'[l].amount = lines[l].amount
  BY DEF Rows, RowShape, SameAmounts
<1>2. Total(lines', Lines) = Total(lines, Lines) /\ Total(lines, Lines) \in Int
  BY <1>1, SameTotal
<1>3. Total(lines, Lines)' = Total(lines', Lines)
  OBVIOUS
<1> QED
  BY <1>2, <1>3

(* A step that leaves the amounts alone, of a request that is no amendment. *)
LEMMA KeepsAmounts ==
  ASSUME OneAtATime, Balanced, NEW w \in Slots, NEW q, Become(w, q), Shape(q),
         req[w].pc # "rescaleSave", q.pc \notin {"rescale", "rescaleSave"}, q.op # "amend",
         Rows', SameAmounts, UNCHANGED <<price, restarts>>,
         q.pc \in {"lock", "saveLine", "sweepSave"} => q.line \in Lines,
         q.pc \in {"saveLine", "sweepSave"} =>
           /\ RowShape(q.copy[q.line])
           /\ q.copy[q.line].amount = lines[q.line].amount
  PROVE  Balanced'
<1>1. Requests' /\ \A v \in Slots : req'[v] = q /\ req[v] = req[w]
  BY Alone DEF Balanced
<1>2. ASSUME NEW v \in Slots PROVE Current(v)'
  <2>1. req'[v] = q
    BY <1>1
  <2> QED
    BY <2>1 DEF Current, Amending, SameAmounts
<1>3. AsPriced'
  <2>1. Total(lines, Lines)' = Total(lines, Lines)
    BY SameLines DEF Balanced
  <2>2. \A v \in Slots : req[v].pc # "rescaleSave"
    BY <1>1
  <2> QED
    BY <2>1, <2>2 DEF AsPriced, Balanced
<1> QED
  BY <1>1, <1>2, <1>3 DEF Balanced

(* The lines of a signed contract. *)
LEMMA BalancedStart == Init => Balanced
<1> SUFFICES ASSUME Init PROVE Balanced
  OBVIOUS
<1>1. Rows
  <2>1. ASSUME NEW l \in Lines PROVE RowShape(lines[l])
    <3>1. Schedule[l] \in Int
      BY ScheduleAssumption DEF Lines
    <3>2. lines[l] = [amount |-> Schedule[l], amountPaid |-> 0, status |-> "upcoming"]
      BY DEF Init
    <3> QED
      BY <3>1, <3>2 DEF RowShape
  <2> QED
    BY <2>1 DEF Init, Rows
<1>2. \A w \in Slots : Shape(req[w]) /\ req[w].pc = "idle" /\ req[w].op = "none"
  <2>1. Shape(Idle) /\ Idle.pc = "idle" /\ Idle.op = "none"
    BY DEF Shape, Idle
  <2>2. \A w \in Slots : req[w] = Idle
    BY DEF Init
  <2> QED
    BY <2>1, <2>2 DEF Shape
<1>3. Requests /\ \A w \in Slots : Current(w)
  BY <1>2 DEF Init, Requests, Current, Amending
<1>4. AsPriced
  <2>1. \A l \in Lines : Schedule[l] \in Int /\ Schedule[l] = lines[l].amount
    BY ScheduleAssumption DEF Lines, Init
  <2>2. Total(lines, Lines) = AddUp(Schedule, Lines)
    BY <2>1, FiniteLines, TotalAddsUp
  <2>3. price = AddUp(Schedule, Lines)
    BY SumFunctionAddsUp DEF Init, Lines
  <2> QED
    BY <2>2, <2>3 DEF AsPriced
<1> QED
  BY <1>1, <1>3, <1>4 DEF Balanced

(* An amendment that goes on with the lines it has read. *)
LEMMA Reads ==
  ASSUME OneAtATime, Balanced, NEW w \in Slots, NEW q, Become(w, q), Shape(q),
         req[w].pc # "rescaleSave", q.op = "amend", q.amount \in Int,
         UNCHANGED <<lines, price, restarts>>,
         \/ q.pc = "rescale" /\ q.rest = q.amount - Total(lines, Touched(lines))
         \/ /\ q.pc = "rescaleSave"
            /\ \A l \in Lines : RowShape(q.copy[l])
            /\ Total(q.copy, Lines) = q.amount
            /\ q.todo \subseteq Lines
            /\ \A l \in Lines \ q.todo : lines[l].amount = q.copy[l].amount
  PROVE  Balanced'
<1>1. Requests' /\ \A v \in Slots : req'[v] = q /\ req[v] = req[w]
  BY Alone DEF Balanced
<1>2. ASSUME NEW v \in Slots PROVE Current(v)'
  <2>1. req'[v] = q
    BY <1>1
  <2>2. Total(lines, Touched(lines))' = Total(lines, Touched(lines))
    <3>1. lines' = lines
      OBVIOUS
    <3> QED
      BY <3>1 DEF Touched, Untouched
  <2>3. Total(req[v].copy, Lines)' = Total(q.copy, Lines)
    BY <2>1
  <2> QED
    BY <2>1, <2>2, <2>3 DEF Current, Amending, Restated
<1>3. AsPriced'
  <2>1. Total(lines, Lines)' = Total(lines, Lines)
    OBVIOUS
  <2>2. \A v \in Slots : req[v].pc # "rescaleSave"
    BY <1>1
  <2> QED
    BY <2>1, <2>2 DEF AsPriced, Balanced
<1>4. Rows'
  BY DEF Balanced, Rows
<1> QED
  BY <1>1, <1>2, <1>3, <1>4 DEF Balanced

(* Each of the steps of the amendment. *)
LEMMA RescaleBalanced ==
  ASSUME OneAtATime, Balanced, NEW w \in Slots, Rescale(w) PROVE Balanced'
<1>1. PICK q : q = [req[w] EXCEPT !.pc = "rescaleSave", !.todo = Untouched(lines),
                                  !.copy = Rescaled(lines, req[w].rest)]
  OBVIOUS
<1>2. Shape(req[w]) /\ Current(w) /\ Rows
  BY DEF Balanced, Requests
<1>3. /\ Shape(q) /\ q.pc = "rescaleSave" /\ q.todo = Untouched(lines)
      /\ q.copy = Rescaled(lines, req[w].rest) /\ q.amount = req[w].amount /\ q.op = req[w].op
  BY <1>1, <1>2 DEF Shape
<1>4. /\ Become(w, q) /\ req[w].pc = "rescale" /\ UNCHANGED <<lines, price, restarts>>
      /\ Untouched(lines) # {} \/ req[w].rest = 0
  BY <1>1 DEF Rescale
<1>5. /\ req[w].op = "amend" /\ req[w].amount \in Int
      /\ req[w].rest = req[w].amount - Total(lines, Touched(lines))
  BY <1>2, <1>4 DEF Current, Amending
<1>6. \A l \in Lines : RowShape(lines[l]) /\ lines[l].amount \in Int
  BY <1>2 DEF Rows, RowShape
<1>7. Total(lines, Touched(lines)) \in Int
  <2>1. Touched(lines) \subseteq Lines
    BY DEF Touched
  <2> QED
    BY <1>6, <2>1, SameTotal
<1>8. req[w].rest \in Int
  BY <1>5, <1>7
<1>9. /\ \A l \in Lines : RowShape(q.copy[l])
      /\ \A l \in Lines \ Untouched(lines) : q.copy[l] = lines[l]
      /\ Total(q.copy, Lines) = Total(lines, Touched(lines)) + req[w].rest
  BY <1>3, <1>4, <1>6, <1>8, RescaledAddsUp
<1>10. Total(q.copy, Lines) = q.amount
  BY <1>3, <1>5, <1>7, <1>9
<1>11. q.todo \subseteq Lines
  BY <1>3 DEF Untouched
<1> QED
  BY <1>3, <1>4, <1>5, <1>9, <1>10, <1>11, Reads

LEMMA RescaleSaveBalanced ==
  ASSUME OneAtATime, Balanced, NEW w \in Slots, RescaleSave(w) PROVE Balanced'
<1>1. PICK m : m = Min(req[w].todo)
  OBVIOUS
<1>2. PICK q : q = [req[w] EXCEPT !.todo = @ \ {m}]
  OBVIOUS
<1>3. Shape(req[w]) /\ Restated(w) /\ Current(w) /\ Rows /\ req[w].pc = "rescaleSave"
  BY DEF Balanced, Requests, Current, RescaleSave
<1>4. /\ Shape(q) /\ q.todo = req[w].todo \ {m} /\ q.pc = "rescaleSave" /\ q.copy = req[w].copy
      /\ q.amount = req[w].amount /\ q.op = req[w].op
  BY <1>2, <1>3 DEF Shape
<1>5. m \in Lines
  <2>1. req[w].todo \subseteq Nat /\ req[w].todo # {}
    BY <1>3, FiniteLines DEF Restated, RescaleSave
  <2> QED
    BY <1>1, <1>3, <2>1, Minimum DEF Restated
<1>6. Become(w, q) /\ lines' = [lines EXCEPT ![m] = q.copy[m]]
  BY <1>1, <1>2, <1>4 DEF RescaleSave
<1>7. Requests' /\ \A v \in Slots : req'[v] = q
  BY <1>4, <1>6, Alone DEF Balanced
<1>8. /\ lines' = [l \in Lines |-> lines'[l]] /\ lines'[m] = q.copy[m]
      /\ \A l \in Lines \ {m} : lines'[l] = lines[l]
  BY <1>3, <1>5, <1>6 DEF Rows
<1>9. Rows'
  <2>1. ASSUME NEW l \in Lines PROVE RowShape(lines'[l])
    BY <1>3, <1>4, <1>8 DEF Rows, Restated
  <2> QED
    BY <1>8, <2>1 DEF Rows, RowShape
<1>10. ASSUME NEW v \in Slots PROVE Current(v)'
  <2>1. req'[v] = q
    BY <1>7
  <2>2. Total(req[v].copy, Lines)' = Total(req[w].copy, Lines)
    BY <1>4, <2>1
  <2>3. Restated(v)'
    BY <1>3, <1>4, <1>8, <2>1, <2>2 DEF Restated, RowShape
  <2> QED
    BY <1>3, <1>4, <2>1, <2>3 DEF Current, Amending
<1>11. AsPriced'
  <2>1. w \in Slots /\ req'[w].pc = "rescaleSave"
    BY <1>4, <1>7
  <2> QED
    BY <2>1 DEF AsPriced
<1> QED
  BY <1>7, <1>9, <1>10, <1>11 DEF Balanced

LEMMA AmendSaveBalanced ==
  ASSUME OneAtATime, Balanced, NEW w \in Slots, AmendSave(w) PROVE Balanced'
<1>1. Restated(w) /\ Rows /\ req[w].todo = {} /\ lines' = lines /\ price' = req[w].amount
  BY DEF Balanced, Current, AmendSave
<1>2. Shape(Idle) /\ Idle.pc = "idle" /\ Idle.op = "none"
  BY DEF Shape, Idle
<1>3. Requests' /\ \A v \in Slots : req'[v] = Idle
  BY <1>2, Alone DEF Balanced, AmendSave, Finish
<1>4. \A v \in Slots : Current(v)'
  BY <1>2, <1>3 DEF Current, Amending
<1>5. Total(lines, Lines)' = price'
  <2>1. \A l \in Lines : lines[l].amount \in Int /\ req[w].copy[l].amount = lines[l].amount
    BY <1>1 DEF Rows, RowShape, Restated
  <2>2. Total(req[w].copy, Lines) = Total(lines, Lines)
    BY <2>1, SameTotal
  <2>3. Total(lines, Lines)' = Total(lines, Lines)
    BY <1>1
  <2> QED
    BY <1>1, <2>2, <2>3 DEF Restated
<1>6. Rows'
  BY <1>1 DEF Rows
<1> QED
  BY <1>3, <1>4, <1>5, <1>6 DEF Balanced, AsPriced

(* Payments and refunds keep the amount of the line. *)
LEMMA SameAmount ==
  ASSUME NEW row, RowShape(row), NEW a, NEW late
  PROVE  /\ RowShape(AfterPayment(row, a)) /\ AfterPayment(row, a).amount = row.amount
         /\ RowShape(AfterRefund(row, a, late)) /\ AfterRefund(row, a, late).amount = row.amount
<1>1. ASSUME NEW n PROVE LET r == [row EXCEPT !.amountPaid = n]
                         IN  RowShape(r) /\ r.amount = row.amount
  BY DEF RowShape
<1>2. ASSUME NEW r, RowShape(r), NEW s PROVE LET t == [r EXCEPT !.status = s]
                                             IN  RowShape(t) /\ t.amount = r.amount
  BY <1>2 DEF RowShape
<1>3. RowShape(AfterPayment(row, a)) /\ AfterPayment(row, a).amount = row.amount
  <2>1. PICK r : r = [row EXCEPT !.amountPaid = RoundCents(row.amountPaid + a)]
    OBVIOUS
  <2>2. RowShape(r) /\ r.amount = row.amount
    BY <1>1, <2>1
  <2>3. AfterPayment(row, a) = IF Settled(r) THEN [r EXCEPT !.status = "paid"] ELSE r
    BY <2>1, Zenon DEF AfterPayment
  <2> QED
    BY <1>2, <2>2, <2>3
<1>4. RowShape(AfterRefund(row, a, late)) /\ AfterRefund(row, a, late).amount = row.amount
  <2>1. PICK r : r = [row EXCEPT !.amountPaid = Max({0, RoundCents(row.amountPaid - a)})]
    OBVIOUS
  <2>2. RowShape(r) /\ r.amount = row.amount
    BY <1>1, <2>1
  <2>3. AfterRefund(row, a, late) = [r EXCEPT !.status = IF Settled(r) THEN "paid"
                              ELSE IF late THEN "overdue" ELSE "upcoming"]
    BY <2>1, Zenon DEF AfterRefund
  <2> QED
    BY <1>2, <2>2, <2>3
<1> QED
  BY <1>3, <1>4

LEMMA SaveLineBalanced ==
  ASSUME OneAtATime, Balanced, NEW w \in Slots, SaveLine(w) PROVE Balanced'
<1>1. PICK l : l = req[w].line
  OBVIOUS
<1>2. PICK q : q = [req[w] EXCEPT !.pc = "saveRow", !.copy = Blank]
  OBVIOUS
<1>3. PICK r : r = IF req[w].op = "pay" THEN AfterPayment(req[w].copy[l], req[w].amount)
                   ELSE AfterRefund(req[w].copy[l], req[w].amount, l \in due)
  OBVIOUS
<1>4. Shape(req[w]) /\ Current(w) /\ Rows /\ req[w].pc = "saveLine"
  BY DEF Balanced, Requests, SaveLine
<1>5. Shape(q) /\ q.pc = "saveRow" /\ q.op = req[w].op
  BY <1>2, <1>4 DEF Shape
<1>6. l \in Lines /\ RowShape(req[w].copy[l]) /\ req[w].copy[l].amount = lines[l].amount
      /\ req[w].op # "amend"
  BY <1>1, <1>4 DEF Current, Amending
<1>7. RowShape(r) /\ r.amount = lines[l].amount
  BY <1>3, <1>6, SameAmount
<1>8. Become(w, q) /\ lines' = [lines EXCEPT ![l] = r] /\ UNCHANGED <<price, restarts>>
  BY <1>1, <1>2, <1>3 DEF SaveLine
<1>9. Rows' /\ SameAmounts
  BY <1>4, <1>6, <1>7, <1>8 DEF Rows, RowShape, SameAmounts
<1> QED
  BY <1>4, <1>5, <1>6, <1>8, <1>9, KeepsAmounts

LEMMA SweepSaveBalanced ==
  ASSUME OneAtATime, Balanced, NEW w \in Slots, SweepSave(w) PROVE Balanced'
<1>1. PICK l : l = req[w].line
  OBVIOUS
<1>2. PICK q : q = [req[w] EXCEPT !.pc = "sweep", !.line = None, !.copy = Blank, !.swept = @ \cup {l}]
  OBVIOUS
<1>3. PICK r : r = [req[w].copy[l] EXCEPT !.status = "overdue"]
  OBVIOUS
<1>4. Shape(req[w]) /\ Current(w) /\ Rows /\ req[w].pc = "sweepSave"
  BY DEF Balanced, Requests, SweepSave
<1>5. Shape(q) /\ q.pc = "sweep" /\ q.op = req[w].op
  BY <1>2, <1>4 DEF Shape
<1>6. l \in Lines /\ RowShape(req[w].copy[l]) /\ req[w].copy[l].amount = lines[l].amount
      /\ req[w].op # "amend"
  BY <1>1, <1>4 DEF Current, Amending
<1>7. RowShape(r) /\ r.amount = lines[l].amount
  BY <1>3, <1>6 DEF RowShape
<1>8. Become(w, q) /\ lines' = [lines EXCEPT ![l] = r] /\ UNCHANGED <<price, restarts>>
  BY <1>1, <1>2, <1>3 DEF SweepSave
<1>9. Rows' /\ SameAmounts
  BY <1>4, <1>6, <1>7, <1>8 DEF Rows, RowShape, SameAmounts
<1> QED
  BY <1>4, <1>5, <1>6, <1>8, <1>9, KeepsAmounts

LEMMA CopyOne ==
  ASSUME Rows, NEW l \in Lines
  PROVE  [Blank EXCEPT ![l] = lines[l]][l] = lines[l]
BY DEF Blank

(* Every step keeps it: a step per action. *)
LEMMA BalancedNext ==
  ASSUME OneAtATime, Balanced, [Next]_vars PROVE Balanced'
<1>0. Rows /\ Requests /\ \A w \in Slots : Shape(req[w]) /\ Current(w)
  BY DEF Balanced, Requests
<1>a. ASSUME UNCHANGED lines PROVE Rows' /\ SameAmounts
  BY <1>0, <1>a DEF Rows, RowShape, SameAmounts
<1>1. ASSUME NEW w \in Slots, NEW op, op # "amend", NEW l \in Lines, NEW a, Start(w, op, l, a)
      PROVE  Balanced'
  <2>1. PICK q : q = [Idle EXCEPT !.op = op, !.pc = "lock", !.line = l, !.amount = a]
    OBVIOUS
  <2>2. Shape(q) /\ q.pc = "lock" /\ q.line = l /\ q.op = op
    BY <2>1 DEF Shape, Idle
  <2>3. Become(w, q) /\ req[w].pc # "rescaleSave" /\ UNCHANGED <<lines, price, restarts>>
    BY <1>1, <2>1 DEF Start, IsIdle
  <2> QED
    BY <1>1, <1>a, <2>2, <2>3, KeepsAmounts
<1>b. Shape(Idle) /\ Idle.pc = "idle" /\ Idle.op = "none"
  BY DEF Shape, Idle
<1>2. ASSUME NEW w \in Slots, ReadLine(w) PROVE Balanced'
  <2>1. PICK l : l = req[w].line
    OBVIOUS
  <2>2. PICK q : q = [req[w] EXCEPT !.pc = "saveLine", !.copy = [Blank EXCEPT ![l] = lines[l]]]
    OBVIOUS
  <2>3. Shape(q) /\ q.pc = "saveLine" /\ q.op = req[w].op /\ q.line = l
        /\ q.copy = [Blank EXCEPT ![l] = lines[l]]
    BY <1>0, <2>1, <2>2 DEF Shape
  <2>4. req[w].pc = "lock" /\ UNCHANGED <<lines, price, restarts>> /\ (Become(w, q) \/ Become(w, Idle))
    BY <1>2, <2>1, <2>2 DEF ReadLine, Finish
  <2>5. l \in Lines /\ req[w].op # "amend"
    BY <1>0, <2>1, <2>4 DEF Current, Amending
  <2>6. q.copy[q.line] = lines[q.line] /\ RowShape(lines[q.line])
    BY <1>0, <2>3, <2>5, CopyOne DEF Rows
  <2>7. CASE Become(w, q)
    BY <1>a, <2>3, <2>4, <2>5, <2>6, <2>7, KeepsAmounts
  <2>8. CASE Become(w, Idle)
    BY <1>a, <1>b, <2>4, <2>8, KeepsAmounts
  <2> QED
    BY <2>4, <2>7, <2>8
<1>3. ASSUME NEW w \in Slots, SavePayment(w) PROVE Balanced'
  <2>1. PICK q : q = [req[w] EXCEPT !.pc = "saveReceipt", !.amount = receiptCounter']
    OBVIOUS
  <2>2. Shape(q) /\ q.pc = "saveReceipt" /\ q.op = req[w].op
    BY <1>0, <2>1 DEF Shape
  <2>3. Become(w, q) /\ req[w].pc = "saveRow" /\ UNCHANGED <<lines, price, restarts>> /\ req[w].op # "amend"
    BY <1>0, <1>3, <2>1 DEF SavePayment
  <2> QED
    BY <1>a, <2>2, <2>3, KeepsAmounts
<1>4. ASSUME NEW w \in Slots, SaveReceipt(w) \/ SaveRefund(w) \/ EmitSwept(w) \/ AmendRefuse(w)
      PROVE  Balanced'
  <2>1. Become(w, Idle) /\ req[w].pc # "rescaleSave" /\ UNCHANGED <<lines, price, restarts>>
    BY <1>4 DEF SaveReceipt, SaveRefund, EmitSwept, AmendRefuse, Finish
  <2> QED
    BY <1>a, <1>b, <2>1, KeepsAmounts
<1>5. ASSUME NEW w \in Slots, StartSweep(w) PROVE Balanced'
  <2>1. PICK q : q = [Idle EXCEPT !.op = "sweep", !.pc = "sweep", !.todo = {l \in Lines : Sweepable(l)}]
    OBVIOUS
  <2>2. Shape(q) /\ q.pc = "sweep" /\ q.op = "sweep"
    BY <2>1 DEF Shape, Idle
  <2>3. Become(w, q) /\ req[w].pc # "rescaleSave" /\ UNCHANGED <<lines, price, restarts>>
    BY <1>5, <2>1 DEF StartSweep, IsIdle
  <2> QED
    BY <1>a, <2>2, <2>3, KeepsAmounts
<1>6. ASSUME NEW w \in Slots, NEW l \in Lines, SweepRead(w, l) PROVE Balanced'
  <2>1. PICK q : q = [req[w] EXCEPT !.pc = "sweepSave", !.line = l, !.todo = @ \ {l},
                                    !.copy = [Blank EXCEPT ![l] = lines[l]]]
    OBVIOUS
  <2>2. PICK r : r = [req[w] EXCEPT !.todo = @ \ {l}]
    OBVIOUS
  <2>3. Shape(q) /\ q.pc = "sweepSave" /\ q.op = req[w].op /\ q.line = l
        /\ q.copy = [Blank EXCEPT ![l] = lines[l]]
    BY <1>0, <2>1 DEF Shape
  <2>4. Shape(r) /\ r.pc = req[w].pc /\ r.op = req[w].op
    BY <1>0, <2>2 DEF Shape
  <2>5. req[w].pc = "sweep" /\ UNCHANGED <<lines, price, restarts>> /\ (Become(w, q) \/ Become(w, r))
    BY <1>6, <2>1, <2>2 DEF SweepRead
  <2>6. req[w].op # "amend"
    BY <1>0, <2>5 DEF Current, Amending
  <2>7. q.copy[q.line] = lines[q.line] /\ RowShape(lines[q.line])
    BY <1>0, <2>3, CopyOne DEF Rows
  <2>8. CASE Become(w, q)
    BY <1>a, <2>3, <2>5, <2>6, <2>7, <2>8, KeepsAmounts
  <2>9. CASE Become(w, r)
    BY <1>a, <2>4, <2>5, <2>6, <2>9, KeepsAmounts
  <2> QED
    BY <2>5, <2>8, <2>9
<1>7. ASSUME NEW w \in Slots, NEW p \in NewPrices, StartAmend(w, p) PROVE Balanced'
  <2>1. PICK q : q = [Idle EXCEPT !.op = "amend", !.pc = "rescale", !.amount = p,
                                  !.rest = p - Total(lines, Touched(lines))]
    OBVIOUS
  <2>2. Shape(q) /\ q.pc = "rescale" /\ q.op = "amend" /\ q.amount = p
        /\ q.rest = p - Total(lines, Touched(lines))
    BY <2>1 DEF Shape, Idle
  <2>3. Become(w, q) /\ req[w].pc # "rescaleSave" /\ UNCHANGED <<lines, price, restarts>>
    BY <1>7, <2>1 DEF StartAmend, IsIdle
  <2>4. p \in Int
    BY CentsAssumption
  <2> QED
    BY <2>2, <2>3, <2>4, Reads
<1>8. CASE UNCHANGED <<lines, price, req, restarts>>
  <2>1. Rows' /\ Requests' /\ Total(lines, Lines)' = Total(lines, Lines)
    BY <1>0, <1>8 DEF Rows, Requests, Shape
  <2>2. ASSUME NEW w \in Slots PROVE Current(w)'
    <3>1. Total(lines, Touched(lines))' = Total(lines, Touched(lines))
      BY <1>8 DEF Touched, Untouched
    <3>2. Total(req[w].copy, Lines)' = Total(req[w].copy, Lines)
      BY <1>8
    <3> QED
      BY <1>0, <1>8, <3>1, <3>2 DEF Current, Amending, Restated
  <2>3. AsPriced'
    BY <1>8, <2>1 DEF Balanced, AsPriced
  <2> QED
    BY <2>1, <2>2, <2>3 DEF Balanced
<1>9. CASE Crash
  <2>1. /\ req' = [w \in Slots |-> Idle] /\ lines' = lines /\ price' = price
        /\ restarts'.repricing <=> restarts.repricing \/ \E w \in Slots : req[w].pc = "rescaleSave"
    BY <1>9 DEF Crash
  <2>2. Requests' /\ \A w \in Slots : Current(w)'
    BY <1>b, <2>1 DEF Requests, Current, Amending, Shape
  <2>3. Rows' /\ Total(lines, Lines)' = Total(lines, Lines)
    BY <1>0, <2>1 DEF Rows
  <2>4. AsPriced'
    BY <2>1, <2>3 DEF Balanced, AsPriced
  <2> QED
    BY <2>2, <2>3, <2>4 DEF Balanced
<1> QED
  BY <1>1, <1>2, <1>3, <1>4, <1>5, <1>6, <1>7, <1>8, <1>9, SaveLineBalanced, SweepSaveBalanced,
     RescaleBalanced, RescaleSaveBalanced, AmendSaveBalanced
     DEF Next, Step, StartPay, StartRefund, PassDue, vars

(* While one request is served at a time, the lines add up to the price of  *)
(* the contract between amendments, unless a restart cut one short: at any  *)
(* prices and any fraction of a cent (payment-plans.service.ts:125-134,     *)
(* sales.service.ts:216-224).                                               *)
THEOREM AmendmentsAddUp == OneAtATime => (Spec => []ScheduleAddsUp)
<1> SUFFICES ASSUME OneAtATime PROVE Spec => []ScheduleAddsUp
  OBVIOUS
<1>1. Balanced /\ [Next]_vars => Balanced'
  BY BalancedNext
<1>2. Balanced => ScheduleAddsUp
  BY DEF Balanced, AsPriced, Current, Amending, ScheduleAddsUp
<1> QED
  BY BalancedStart, <1>1, <1>2, PTL DEF Spec
=============================================================================

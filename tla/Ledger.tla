------------------------------- MODULE Ledger -------------------------------
(***************************************************************************)
(* The money of one signed contract: the lines of its payment schedule     *)
(* (src/src/modules/payment-plans), the payments, receipts and refunds     *)
(* recorded on them (src/src/modules/finance/finance.service.ts), the      *)
(* sweep that flags overdue lines, and the amendment of the price          *)
(* (SalesService.amendContract), which rescales the lines.                 *)
(*                                                                         *)
(* Requests interleave at the awaits of the repositories, as in Inventory: *)
(* a request keeps the copy of the line it has read, and saves that copy.  *)
(* lineLock stands for the KeyedMutex of the service, one lock per line.   *)
(*                                                                         *)
(* Money is counted in 1/Fraction of a cent, since the amount of a payment *)
(* is not rounded before it is recorded; what a line holds is.             *)
(***************************************************************************)
EXTENDS Integers, Sequences, FiniteSets, Functions, FiniteSetsExt

CONSTANTS
  Schedule,      \* the amounts of the lines, as the contract is signed
  Fraction,      \* units of money in a cent
  Payable,       \* the amounts clients and accountants type
  NewPrices,     \* the prices, after discount, an amendment may ask for
  MaxCollected,  \* bounds the payments recorded on a line
  MaxRefunded,   \* bounds the refunds recorded on a line
  Slots,         \* bounds the requests in progress at once
  MaxRestarts,   \* bounds how often the process stops and starts again
  None

ASSUME ScheduleAssumption == Schedule \in Seq(Nat) /\ Fraction \in Nat \ {0}
ASSUME CentsAssumption ==
  /\ \A l \in DOMAIN Schedule : Schedule[l] % Fraction = 0
  /\ \A p \in NewPrices : p \in Nat \ {0} /\ p % Fraction = 0
ASSUME PayableAssumption == Payable \subseteq Nat \ {0}
ASSUME BoundAssumption == MaxCollected \in Nat /\ MaxRefunded \in Nat /\ MaxRestarts \in Nat
ASSUME NoneAssumption == None \notin Slots

VARIABLES
  lines,           \* [Lines -> row]
  due,             \* the lines whose dueDate has passed
  price,           \* totalPrice of the contract, after discount
  payments,        \* [Lines -> sum of the Payment rows]
  refunds,         \* [Lines -> sum of the Refund rows]
  receiptCounter,  \* module variable: it does not survive a restart
  receipts,        \* the receiptNumbers, in the order they were saved
  notices,         \* [Lines -> payment.overdue_swept events emitted]
  lineLock,        \* [Lines -> the slot inside lineMutex, or None]
  req,             \* [Slots -> the request in progress]
  restarts         \* auxiliary: what restarts have cut in two

vars == <<lines, due, price, payments, refunds, receiptCounter, receipts, notices,
          lineLock, req, restarts>>
bookVars == <<payments, refunds, receiptCounter, receipts>>

Lines == DOMAIN Schedule
LineStatus == {"upcoming", "overdue", "paid"}
LineRow == [amount : Int, amountPaid : Nat, status : LineStatus]

(* Math.round(x * 100) / 100: to the nearest cent, halves upwards.          *)
RoundCents(x) == ((2 * x + Fraction) \div (2 * Fraction)) * Fraction

(* What a request carries between two awaits: `copy` are the lines it has   *)
(* read, `rest` what an amendment has to spread, `todo` what a loop still   *)
(* has to visit, `swept` what the sweep has flagged.                        *)
Blank == [l \in Lines |-> [amount |-> 0, amountPaid |-> 0, status |-> "upcoming"]]
Idle == [op |-> "none", pc |-> "idle", line |-> None, amount |-> 0, copy |-> Blank,
         rest |-> 0, todo |-> {}, swept |-> {}]

IsIdle(w) == req[w].pc = "idle"
Become(w, q) == req' = [req EXCEPT ![w] = q]
Goto(w, pc) == Become(w, [req[w] EXCEPT !.pc = pc])
Finish(w) == Become(w, Idle)

(* Mutant: recordPayment and the others run outside the mutex. *)
FreeAlways(l) == TRUE

Free(l) == lineLock[l] = None
Lock(w) == lineLock' = [lineLock EXCEPT ![req[w].line] = w]
Unlock(w) == lineLock' = [lineLock EXCEPT ![req[w].line] = None]

Total(row, S) == MapThenSumSet(LAMBDA l : row[l].amount, S)

Init ==
  /\ lines = [l \in Lines |-> [amount |-> Schedule[l], amountPaid |-> 0, status |-> "upcoming"]]
  /\ due = {}
  /\ price = SumFunction(Schedule)
  /\ payments = [l \in Lines |-> 0] /\ refunds = [l \in Lines |-> 0]
  /\ receiptCounter = 0 /\ receipts = <<>>
  /\ notices = [l \in Lines |-> 0]
  /\ lineLock = [l \in Lines |-> None]
  /\ req = [w \in Slots |-> Idle]
  /\ restarts = [count |-> 0, torn |-> {}, repricing |-> FALSE, receipts |-> 0]
-----------------------------------------------------------------------------
(* recordPayment and recordRefund, under the lock of the line.              *)

Start(w, op, l, a) ==
  /\ IsIdle(w)
  /\ Become(w, [Idle EXCEPT !.op = op, !.pc = "lock", !.line = l, !.amount = a])
  /\ UNCHANGED <<lines, due, price, bookVars, notices, lineLock, restarts>>

(* Bounds: a request starts only if what has been recorded leaves room.     *)
StartPay(w, l, a) == payments[l] + a <= MaxCollected /\ Start(w, "pay", l, a)

StartRefund(w, l, a) == refunds[l] + a <= MaxRefunded /\ Start(w, "refund", l, a)

Settled(row) == row.amountPaid >= row.amount

(* Mutant: a line paid in part gets a status of its own. *)
AfterPaymentPartly(row, a) ==
  LET paid == [row EXCEPT !.amountPaid = RoundCents(row.amountPaid + a)]
  IN  [paid EXCEPT !.status = IF Settled(paid) THEN "paid" ELSE "partly_paid"]

AfterPayment(row, a) ==
  LET paid == [row EXCEPT !.amountPaid = RoundCents(row.amountPaid + a)]
  IN  IF Settled(paid) THEN [paid EXCEPT !.status = "paid"] ELSE paid

(* Mutant: a refunded line starts over as upcoming. *)
AfterRefundUpcoming(row, a, late) ==
  LET unpaid == [row EXCEPT !.amountPaid = Max({0, RoundCents(row.amountPaid - a)})]
  IN  [unpaid EXCEPT !.status = IF Settled(unpaid) THEN "paid" ELSE "upcoming"]

AfterRefund(row, a, late) ==
  LET unpaid == [row EXCEPT !.amountPaid = Max({0, RoundCents(row.amountPaid - a)})]
  IN  [unpaid EXCEPT !.status = IF Settled(unpaid) THEN "paid"
                              ELSE IF late THEN "overdue" ELSE "upcoming"]

(* The checks; half a cent of tolerance, which only amounts below a cent    *)
(* can use.                                                                 *)
Accepts(op, row, a) ==
  IF op = "pay" THEN row.status # "paid" /\ RoundCents(row.amountPaid + a) <= row.amount
                ELSE 2 * a <= 2 * row.amountPaid + Fraction

ReadLine(w) ==
  /\ req[w].pc = "lock"
  /\ Free(req[w].line)
  /\ IF Accepts(req[w].op, lines[req[w].line], req[w].amount)
       THEN /\ Lock(w)
            /\ Become(w, [req[w] EXCEPT !.pc = "saveLine",
                                        !.copy = [Blank EXCEPT ![req[w].line] = lines[req[w].line]]])
       ELSE Finish(w) /\ UNCHANGED lineLock
  /\ UNCHANGED <<lines, due, price, bookVars, notices, restarts>>

SaveLine(w) ==
  LET l == req[w].line
      row == req[w].copy[l]
  IN  /\ req[w].pc = "saveLine"
      /\ lines' = [lines EXCEPT ![l] =
           IF req[w].op = "pay" THEN AfterPayment(row, req[w].amount)
                                ELSE AfterRefund(row, req[w].amount, l \in due)]
      /\ Become(w, [req[w] EXCEPT !.pc = "saveRow", !.copy = Blank])
      /\ UNCHANGED <<due, price, bookVars, notices, lineLock, restarts>>

(* Mutant: the number is one more than the receipts saved so far. *)
SavePaymentUncounted(w) ==
  /\ req[w].pc = "saveRow"
  /\ req[w].op = "pay"
  /\ payments' = [payments EXCEPT ![req[w].line] = @ + req[w].amount]
  /\ receiptCounter' = Len(receipts) + 1
  /\ Become(w, [req[w] EXCEPT !.pc = "saveReceipt", !.amount = receiptCounter'])
  /\ UNCHANGED <<lines, due, price, refunds, receipts, notices, lineLock, restarts>>

(* The Payment row; the number of the receipt is drawn as the save returns. *)
SavePayment(w) ==
  /\ req[w].pc = "saveRow"
  /\ req[w].op = "pay"
  /\ payments' = [payments EXCEPT ![req[w].line] = @ + req[w].amount]
  /\ receiptCounter' = receiptCounter + 1
  /\ Become(w, [req[w] EXCEPT !.pc = "saveReceipt", !.amount = receiptCounter'])
  /\ UNCHANGED <<lines, due, price, refunds, receipts, notices, lineLock, restarts>>

SaveReceipt(w) ==
  /\ req[w].pc = "saveReceipt"
  /\ receipts' = Append(receipts, req[w].amount)
  /\ Unlock(w)
  /\ Finish(w)
  /\ UNCHANGED <<lines, due, price, payments, refunds, receiptCounter, notices, restarts>>

SaveRefund(w) ==
  /\ req[w].pc = "saveRow"
  /\ req[w].op = "refund"
  /\ refunds' = [refunds EXCEPT ![req[w].line] = @ + req[w].amount]
  /\ Unlock(w)
  /\ Finish(w)
  /\ UNCHANGED <<lines, due, price, payments, receiptCounter, receipts, notices, restarts>>
-----------------------------------------------------------------------------
(* sweepOverdueDetailed and the events of sweepOverdueAndEmit: the tick of  *)
(* main.ts, and the manual route.                                           *)

(* Mutant: a line on which something was paid is not looked at again. *)
SweepableUnpaid(l) == lines[l].status = "upcoming" /\ l \in due /\ lines[l].amountPaid = 0

Sweepable(l) == lines[l].status = "upcoming" /\ l \in due

StartSweep(w) ==
  /\ IsIdle(w)
  /\ \E l \in Lines : Sweepable(l)
  /\ Become(w, [Idle EXCEPT !.op = "sweep", !.pc = "sweep", !.todo = {l \in Lines : Sweepable(l)}])
  /\ UNCHANGED <<lines, due, price, bookVars, notices, lineLock, restarts>>

(* Mutant: the candidate is flagged as it was found, not read again. *)
SweepReadUnchecked(w, l) ==
  /\ req[w].pc = "sweep"
  /\ l \in req[w].todo
  /\ Free(l)
  /\ lineLock' = [lineLock EXCEPT ![l] = w]
  /\ Become(w, [req[w] EXCEPT !.pc = "sweepSave", !.line = l, !.todo = @ \ {l},
                              !.copy = [Blank EXCEPT ![l] = lines[l]]])
  /\ UNCHANGED <<lines, due, price, bookVars, notices, restarts>>

(* The candidate is read again under its lock.                              *)
SweepRead(w, l) ==
  /\ req[w].pc = "sweep"
  /\ l \in req[w].todo
  /\ Free(l)
  /\ IF Sweepable(l)
       THEN /\ lineLock' = [lineLock EXCEPT ![l] = w]
            /\ Become(w, [req[w] EXCEPT !.pc = "sweepSave", !.line = l, !.todo = @ \ {l},
                                        !.copy = [Blank EXCEPT ![l] = lines[l]]])
       ELSE /\ Become(w, [req[w] EXCEPT !.todo = @ \ {l}])
            /\ UNCHANGED lineLock
  /\ UNCHANGED <<lines, due, price, bookVars, notices, restarts>>

SweepSave(w) ==
  LET l == req[w].line
  IN  /\ req[w].pc = "sweepSave"
      /\ lines' = [lines EXCEPT ![l] = [req[w].copy[l] EXCEPT !.status = "overdue"]]
      /\ Unlock(w)
      /\ Become(w, [req[w] EXCEPT !.pc = "sweep", !.line = None, !.copy = Blank,
                                    !.swept = @ \cup {l}])
      /\ UNCHANGED <<due, price, bookVars, notices, restarts>>

(* The sweep has returned: one event per line it flagged.                   *)
EmitSwept(w) ==
  /\ req[w].pc = "sweep"
  /\ req[w].todo = {}
  /\ notices' = [l \in Lines |-> notices[l] + (IF l \in req[w].swept THEN 1 ELSE 0)]
  /\ Finish(w)
  /\ UNCHANGED <<lines, due, price, bookVars, lineLock, restarts>>
-----------------------------------------------------------------------------
(* amendContract: it reads the lines, rescaleUnpaidLines reads them again   *)
(* and saves the copies one by one, then the contract is saved.  No lock.   *)

(* x * n / d, to the nearest cent.                                          *)
Portion(x, n, d) == ((2 * x * n + d * Fraction) \div (2 * d * Fraction)) * Fraction

(* Mutant: a line that is paid in part is rescaled as well. *)
UntouchedUnlessPaid(rows) == {l \in Lines : rows[l].status # "paid"}

Untouched(rows) == {l \in Lines : rows[l].amountPaid = 0}
Touched(rows) == Lines \ Untouched(rows)

(* Mutant: the rounding is left as it is. *)
RescaledDrifting(rows, total) ==
  LET S == Untouched(rows)
      old == Total(rows, S)
  IN  [l \in Lines |->
         IF l \notin S THEN rows[l]
         ELSE [rows[l] EXCEPT !.amount = IF old > 0 THEN Portion(rows[l].amount, total, old)
                                         ELSE Portion(1, total, Cardinality(S))]]

(* Each line in proportion, an even split of nothing, and the residual of   *)
(* the rounding on the last one.                                            *)
Rescaled(rows, total) ==
  LET S == Untouched(rows)
      old == Total(rows, S)
      rounded == [l \in S |-> IF old > 0 THEN Portion(rows[l].amount, total, old)
                                         ELSE Portion(1, total, Cardinality(S))]
      residual == total - SumFunction(rounded)
  IN  [l \in Lines |->
         IF l \notin S THEN rows[l]
         ELSE [rows[l] EXCEPT !.amount = rounded[l] + (IF l = Max(S) THEN residual ELSE 0)]]

StartAmend(w, p) ==
  LET rest == p - Total(lines, Touched(lines))
  IN  /\ IsIdle(w)
      /\ rest >= 0
      /\ Become(w, [Idle EXCEPT !.op = "amend", !.pc = "rescale", !.amount = p, !.rest = rest])
      /\ UNCHANGED <<lines, due, price, bookVars, notices, lineLock, restarts>>

(* No line is left to spread the rest over.                                 *)
AmendRefuse(w) ==
  /\ req[w].pc = "rescale"
  /\ Untouched(lines) = {}
  /\ req[w].rest > 0
  /\ Finish(w)
  /\ UNCHANGED <<lines, due, price, bookVars, notices, lineLock, restarts>>

Rescale(w) ==
  /\ req[w].pc = "rescale"
  /\ Untouched(lines) # {} \/ req[w].rest = 0
  /\ Become(w, [req[w] EXCEPT !.pc = "rescaleSave", !.todo = Untouched(lines),
                              !.copy = Rescaled(lines, req[w].rest)])
  /\ UNCHANGED <<lines, due, price, bookVars, notices, lineLock, restarts>>

RescaleSave(w) ==
  /\ req[w].pc = "rescaleSave"
  /\ req[w].todo # {}
  /\ LET l == Min(req[w].todo)
     IN  /\ lines' = [lines EXCEPT ![l] = req[w].copy[l]]
         /\ Become(w, [req[w] EXCEPT !.todo = @ \ {l}])
  /\ UNCHANGED <<due, price, bookVars, notices, lineLock, restarts>>

AmendSave(w) ==
  /\ req[w].pc = "rescaleSave"
  /\ req[w].todo = {}
  /\ price' = req[w].amount
  /\ restarts' = [restarts EXCEPT !.repricing = FALSE]
  /\ Finish(w)
  /\ UNCHANGED <<lines, due, bookVars, notices, lineLock>>
-----------------------------------------------------------------------------
(* The clock passes a dueDate. *)
PassDue(l) ==
  /\ l \notin due
  /\ due' = due \cup {l}
  /\ UNCHANGED <<lines, price, bookVars, notices, lineLock, req, restarts>>

(* The process restarts.  `restarts` notes the lines saved without the row that *)
(* explains them, an amendment cut short, and the receipts of earlier lives. *)
Crash ==
  /\ restarts.count < MaxRestarts
  /\ \E w \in Slots : ~ IsIdle(w)
  /\ req' = [w \in Slots |-> Idle]
  /\ lineLock' = [l \in Lines |-> None]
  /\ receiptCounter' = 0
  /\ restarts' = [count |-> restarts.count + 1,
                  torn |-> restarts.torn \cup {req[w].line : w \in {v \in Slots : req[v].pc = "saveRow"}},
                  repricing |-> restarts.repricing \/ \E w \in Slots : req[w].pc = "rescaleSave",
                  receipts |-> Len(receipts)]
  /\ UNCHANGED <<lines, due, price, payments, refunds, receipts, notices>>

Step(w) ==
  \/ ReadLine(w)
  \/ SaveLine(w)
  \/ SavePayment(w)
  \/ SaveReceipt(w)
  \/ SaveRefund(w)
  \/ \E l \in Lines : SweepRead(w, l)
  \/ SweepSave(w)
  \/ EmitSwept(w)
  \/ AmendRefuse(w)
  \/ Rescale(w)
  \/ RescaleSave(w)
  \/ AmendSave(w)

Next ==
  \/ \E w \in Slots : \/ \E l \in Lines, a \in Payable : StartPay(w, l, a) \/ StartRefund(w, l, a)
                      \/ StartSweep(w)
                      \/ \E p \in NewPrices : StartAmend(w, p)
                      \/ Step(w)
  \/ \E l \in Lines : PassDue(l)
  \/ Crash

Spec == Init /\ [][Next]_vars

(* A request that has started goes on, since its repository calls answer    *)
(* and the line before a lock is first come, first served; and the timer of *)
(* main.ts sweeps again and again, however busy the requests keep the slots. *)
Fairness ==
  /\ \A w \in Slots : SF_vars(Step(w))
  /\ SF_vars(\E w \in Slots : StartSweep(w))

FairSpec == Spec /\ Fairness
-----------------------------------------------------------------------------
Ops == {"none", "pay", "refund", "sweep", "amend"}
Pcs == {"idle", "lock", "saveLine", "saveRow", "saveReceipt", "sweep", "sweepSave",
        "rescale", "rescaleSave"}

Request ==
  [op : Ops, pc : Pcs, line : Lines \cup {None}, amount : Nat, copy : [Lines -> LineRow],
   rest : Nat, todo : SUBSET Lines, swept : SUBSET Lines]

TypeOK ==
  /\ lines \in [Lines -> LineRow]
  /\ due \subseteq Lines
  /\ price \in Nat
  /\ payments \in [Lines -> Nat] /\ refunds \in [Lines -> Nat]
  /\ receiptCounter \in Nat /\ receipts \in Seq(Nat)
  /\ notices \in [Lines -> Nat]
  /\ lineLock \in [Lines -> Slots \cup {None}]
  /\ req \in [Slots -> Request]
  /\ restarts \in [count : Nat, torn : SUBSET Lines, repricing : BOOLEAN, receipts : Nat]

(* The ledger and the lines agree: when nobody is inside the lock of a      *)
(* line, what it says was paid is the sum of its Payment rows less that of  *)
(* its Refund rows, whatever payments, refunds and sweeps were interleaved, *)
(* but for the lines on which a restart cut an operation in two             *)
(* (finance.service.ts:35-40).                                              *)
LedgerAgrees ==
  \A l \in Lines : Free(l) /\ l \notin restarts.torn
    => lines[l].amountPaid = payments[l] - refunds[l]

(* A sweep that read a line before a payment never takes the payment back:  *)
(* only the save of a refund takes a line out of `paid`, or its amountPaid  *)
(* down (finance.service.ts:174-180).                                       *)
RefundSaved(l) ==
  \E w \in Slots : req[w].op = "refund" /\ req[w].line = l /\ req[w].pc = "saveLine"
                   /\ req'[w].pc = "saveRow"
MoneyStays ==
  [][\A l \in Lines :
       \/ lines'[l].amountPaid < lines[l].amountPaid
       \/ lines[l].status = "paid" /\ lines'[l].status # "paid"
       => RefundSaved(l)]_vars

(* A line is announced as overdue once, though two sweeps may run at the    *)
(* same time, and though it may be paid and refunded in between             *)
(* (finance.service.ts:171-175).                                            *)
SweptOnce == \A l \in Lines : notices[l] <= 1

(* Two payments never share a receipt number, as long as the process that   *)
(* numbers them lives (finance.service.ts:86-94).                           *)
ReceiptNumbersUnique ==
  IsInjective([i \in restarts.receipts + 1 .. Len(receipts) |-> receipts[i]])

(* A line past its due date does not stay `upcoming`: it is paid, or the    *)
(* sweep finds it, even after restarts (main.ts:50-53).                     *)
DueLinesFlagged ==
  \A l \in Lines : l \in due /\ lines[l].status = "upcoming" ~> lines[l].status # "upcoming"

(* Between amendments the lines add up to the price of the contract, unless *)
(* a restart cut an amendment short, which the next amendment repairs       *)
(* (payment-plans.service.ts:125-134, sales.service.ts:216-224).            *)
ScheduleAddsUp ==
  restarts.repricing \/ (\E w \in Slots : req[w].op = "amend") \/ Total(lines, Lines) = price

(* An amendment leaves every line alone on which something has been paid    *)
(* (sales.service.ts:196-203, payment-plans.service.ts:129).                *)
AmendLeavesPaidLines ==
  [][\A l \in Lines, w \in Slots :
       RescaleSave(w) /\ lines[l].amountPaid > 0 => lines'[l] = lines[l]]_vars
=============================================================================

----------------------------- MODULE Schedules -----------------------------
(***************************************************************************)
(* The payment schedule of a deal (schedule-generator.ts): a down payment, *)
(* installments that grow with the years, in whole cents and at dates a    *)
(* number of months after the first.  The fees of a template come behind   *)
(* them as they are, and are left out.  Money the code computes in binary  *)
(* fractions and rounds to cents is computed exactly here.                 *)
(***************************************************************************)
EXTENDS Sample, Sequences, SequencesExt

CONSTANTS
  Prices,       \* total prices tried, in cents
  Discounts,    \* deal discounts tried, in percent
  Escalations,  \* yearly escalations tried, in tens of percent
  Terms,        \* terms tried, in months
  StartDays     \* days of a January the schedule may start on

(* Nobody checks an escalation; one that takes away more than a line has is *)
(* not considered.                                                          *)
ASSUME SchedulesAssumption ==
  /\ Prices \subseteq Int /\ Discounts \subseteq Int /\ Terms \subseteq Int /\ StartDays \subseteq Int
  /\ Escalations \subseteq Int /\ \A e \in Escalations : e >= -10

MonthsOf == [monthly |-> 1, quarterly |-> 3, semiannual |-> 6, annual |-> 12, custom |-> 5]

Deals == [of : {"schedule"}, price : Prices, discount : Discounts, escalation : Escalations,
          frequency : DOMAIN MonthsOf, term : Terms, start : StartDays,
          down : {[type |-> "percentage", value |-> v] : v \in {0, 33, 100}}
                   \cup {[type |-> "fixed", value |-> v] : v \in {0, 50, 100000}}]

(* validateTemplate and generateSchedule refuse the rest. *)
Accepted(d) == d.price > 0 /\ d.discount \in 0..99 /\ d.term \in 1..240
-----------------------------------------------------------------------------
NetContractValue(price, discount) == RoundDiv(price * (100 - discount), 100)

DownPayment(d) ==
  LET net == NetContractValue(d.price, d.discount)
  IN  IF d.down.type = "percentage" THEN RoundDiv(net * d.down.value, 100) ELSE Least(d.down.value, net)
Remaining(d) == NetContractValue(d.price, d.discount) - DownPayment(d)

IntervalMonths(d) == MonthsOf[d.frequency]
NumberOfInstallments(d) == Most(1, d.term \div IntervalMonths(d))

(* (1 + escalation) to the years elapsed, over a common denominator. *)
Power(x, n) == FoldLeft(LAMBDA product, i : product * x, 1, [i \in 1..n |-> i])
Weights(d) ==
  LET n == NumberOfInstallments(d)
      years(i) == ((i - 1) * IntervalMonths(d)) \div 12
  IN  [i \in 1..n |-> Power(10 + d.escalation, years(i)) * Power(10, years(n) - years(i))]

Total(amounts) == FoldLeft(LAMBDA sum, a : sum + a, 0, amounts)

(* Mutant: what rounding to cents leaves over goes to the first line. *)
IntoFirst(rounded, target) == [rounded EXCEPT ![1] = @ + target - Total(rounded)]
(* roundExactSum: the last line takes what rounding leaves over. *)
RoundExactSum(rounded, target) ==
  [rounded EXCEPT ![Len(rounded)] = @ + target - Total(rounded)]

Installments(d) ==
  IF Remaining(d) = 0 THEN <<>>
  ELSE LET w == Weights(d)
           sum == Total(w)
       IN  RoundExactSum([i \in DOMAIN w |-> RoundDiv(Remaining(d) * w[i], sum)], Remaining(d))

(* addMonths: a day the month does not have runs into the next one, as      *)
(* Date.setMonth has it; days are counted from the first of January.        *)
DaysIn == <<31, 28, 31, 30, 31, 30, 31, 31, 30, 31, 30, 31>>
DaysBefore(month) == Total([m \in 1..month |-> DaysIn[((m - 1) % 12) + 1]])
AddMonths(day, months) == DaysBefore(months) + day

DueDates(d) ==
  <<d.start>> \o [i \in 1..Len(Installments(d)) |-> AddMonths(d.start, i * IntervalMonths(d))]
GenerateSchedule(d) ==
  [amounts |-> <<DownPayment(d)>> \o Installments(d), dates |-> DueDates(d)]
-----------------------------------------------------------------------------
SchedulesInit == Given({d \in Deals : Accepted(d)})
Schedule == sample.of = "schedule" /\ Answer(GenerateSchedule(sample))
SchedulesSpec == SchedulesInit /\ [][Schedule]_sampleVars

(* Weights that stay the same within a year and grow by the escalation when *)
(* a year has passed; only their proportions matter.                        *)
Escalated(d, w) ==
  LET year(i) == (i * IntervalMonths(d)) \div 12
  IN  \A i \in 1..Len(w) - 1 :
        IF year(i) = year(i - 1) THEN w[i + 1] = w[i]
        ELSE 10 * w[i + 1] = (10 + d.escalation) * w[i]

(* A line is at most so many half cents off its share part / whole. *)
Within(line, part, whole, halves) ==
  /\ 2 * (whole * line) <= 2 * part + halves * whole
  /\ 2 * part <= 2 * (whole * line) + halves * whole

(* The lines without the fees add up to the net value of the contract, the  *)
(* base of its commissions, to the cent.  After the down payment every      *)
(* installment is its share of the rest, in proportion to weights that grow *)
(* by the escalation each year: within half a cent, but the last, which     *)
(* makes up for all of the others.  Each is due after the one before, the   *)
(* 31st of a month included (schedule-generator.ts:38-53, 90-145,           *)
(* money.ts:1-10).                                                          *)
ScheduleExact ==
  Answered("schedule") =>
    LET amounts == answer.amounts
        n == Len(amounts) - 1
        w == Weights(sample)
        net == NetContractValue(sample.price, sample.discount)
    IN  /\ Total(amounts) = net
        /\ amounts[1] \in 0..net
        /\ n > 0 => Len(w) = n /\ Escalated(sample, w)
        /\ \A i \in 1..n :
             Within(amounts[i + 1], Remaining(sample) * w[i], Total(w), IF i < n THEN 1 ELSE n - 1)
        /\ \A i \in 1..n : answer.dates[i] < answer.dates[i + 1]
=============================================================================

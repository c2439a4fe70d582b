----------------------------- MODULE AgentRules -----------------------------
(***************************************************************************)
(* What the nine agents decide (ai-agent.service.ts): deterministic rules  *)
(* over the subject of each, with a confidence from 0 to 100; below 20, or *)
(* outside the tools the agent is allowed, decide() leaves it to a human.  *)
(* The sales agent rests on the score of the lead (lead-scoring.service).  *)
(* A subject is what the rules look at; ages are whole hours or days, and  *)
(* fractions of a confidence are dropped.                                  *)
(***************************************************************************)
EXTENDS Sample

CONSTANTS
  MaxStages,   \* bounds the non-terminal stages of a pipeline
  Ages,        \* ages looked at, in hours or days by subject
  Percents     \* conversion rates and overdue shares looked at

ASSUME RulesAssumption ==
  /\ MaxStages \in Nat /\ Ages \subseteq Nat /\ Percents \subseteq Nat
  /\ None \notin {"create_task", "integration_call", "update_lead_status"}
-----------------------------------------------------------------------------
(* Stages run from 0 to stages - 1, wherever the pipeline's default one is. *)
Leads == [of : {"sales"}, kind : {"open", "won", "lost", "archived"}, stages : 1..MaxStages,
          at : 0..MaxStages - 1, default : BOOLEAN, age : Ages, owned : BOOLEAN, sourced : BOOLEAN,
          channel : BOOLEAN, reached : BOOLEAN]

StagePoints(l) ==
  IF l.stages = 1 THEN 10 ELSE RoundDiv(10 * (l.stages - 1) + 50 * l.at, l.stages - 1)

RecencyPoints(l) == IF l.age <= 14 THEN RoundDiv(10 * (14 - l.age), 14) ELSE 0

ComputeScore(l) ==
  IF l.kind = "lost" THEN 0
  ELSE Least(100, (IF l.kind = "won" THEN 90 ELSE StagePoints(l)) + RecencyPoints(l)
                    + (IF l.owned THEN 10 ELSE 0) + (IF l.sourced THEN 5 ELSE 0))
-----------------------------------------------------------------------------
Advice(tool, confidence) == [tool |-> tool, confidence |-> confidence]
Nothing(confidence) == Advice(None, confidence)
Task(confidence) == Advice("create_task", confidence)

(* Mutant: a lead at the end of the pipeline is handled like any other. *)
AtTheEndNever(l) == FALSE
(* No active stage follows, or its own is archived. *)
AtTheEnd(l) == l.kind = "archived" \/ l.at >= l.stages - 1

DecideSales(l) ==
  LET base == IF l.default THEN 35 ELSE 60
      bar == IF l.default THEN 50 ELSE 60
      confidence == Least(95, RoundDiv(ComputeScore(l) * 100, base))
  IN  IF l.kind \in {"won", "lost"} THEN Nothing(100)
      ELSE IF AtTheEnd(l) THEN Task(15)
      ELSE IF confidence < bar THEN Task(100 - confidence)
      ELSE Advice(IF l.default /\ ~ l.reached /\ l.channel THEN "integration_call" ELSE "update_lead_status",
                  confidence)

Campaigns == [of : {"marketing"}, active : BOOLEAN, leads : {0, 9, 10}, percent : Percents]
DecideMarketing(c) ==
  IF ~ c.active THEN Nothing(100)
  ELSE IF c.leads >= 10 /\ c.percent < 10 THEN Task(75) ELSE Nothing(90)

Lines == [of : {"finance"}, overdue : BOOLEAN, age : Ages]   \* days past the due date
DecideFinance(l) == IF ~ l.overdue THEN Nothing(100) ELSE Task(Least(95, 50 + 2 * l.age))

Tickets == [of : {"support"}, open : BOOLEAN, assigned : BOOLEAN, urgent : BOOLEAN, age : Ages]
DecideSupport(t) ==
  IF ~ t.open THEN Nothing(100)
  ELSE IF ~ t.assigned /\ (t.urgent \/ t.age > 24) THEN Task(IF t.urgent THEN 90 ELSE 70) ELSE Nothing(80)

Leaves == [of : {"hr"}, pending : BOOLEAN, age : Ages]
DecideHr(l) ==
  IF ~ l.pending THEN Nothing(100)
  ELSE IF l.age > 48 THEN Task(Least(90, 50 + l.age \div 2)) ELSE Nothing(70)

Documents == [of : {"legal"}, status : {"pending", "received", "verified", "rejected"}, age : Ages]
DecideLegal(d) ==
  CASE d.status \in {"verified", "rejected"} -> Nothing(100)
    [] d.status = "pending" /\ d.age > 72 -> Task(Least(90, 50 + d.age \div 4))
    [] d.status = "received" /\ d.age > 48 -> Task(Least(85, 45 + d.age \div 6))
    [] OTHER -> Nothing(70)

BrokerLeads == [of : {"broker"}, pending : BOOLEAN, age : Ages]
DecideBroker(l) ==
  IF ~ l.pending THEN Nothing(100)
  ELSE IF l.age > 24 THEN Task(Least(90, 40 + l.age)) ELSE Nothing(60)

Units == [of : {"inventory"}, available : BOOLEAN, reserved : BOOLEAN, age : Ages]   \* in days
DecideInventory(u) ==
  IF ~ u.available THEN Nothing(100)
  ELSE IF ~ u.reserved /\ u.age > 90 THEN Task(Least(85, 40 + u.age \div 4)) ELSE Nothing(60)

Companies == [of : {"management"}, tracked : BOOLEAN, percent : Percents]
DecideManagement(c) ==
  IF ~ c.tracked THEN Nothing(90)
  ELSE IF c.percent >= 25 THEN Task(Least(90, 50 + c.percent \div 2)) ELSE Nothing(80)

Subjects == Leads \cup Campaigns \cup Lines \cup Tickets \cup Leaves \cup Documents
              \cup BrokerLeads \cup Units \cup Companies

RunDecisionRules(s) ==
  CASE s.of = "sales" -> DecideSales(s)
    [] s.of = "marketing" -> DecideMarketing(s)
    [] s.of = "finance" -> DecideFinance(s)
    [] s.of = "support" -> DecideSupport(s)
    [] s.of = "hr" -> DecideHr(s)
    [] s.of = "legal" -> DecideLegal(s)
    [] s.of = "broker" -> DecideBroker(s)
    [] s.of = "inventory" -> DecideInventory(s)
    [] s.of = "management" -> DecideManagement(s)

AllowedActionTypes(agent) ==
  {"create_task"} \cup
  CASE agent = "sales" -> {"update_lead_status", "assign_lead_owner", "send_message", "integration_call"}
    [] agent = "marketing" -> {"update_campaign_status"}
    [] agent \in {"inventory", "management"} -> {}
    [] OTHER -> {"send_message"}

EscalateBelowConfidence == 20
DecisionStatus(s, d) ==
  IF d.tool = None THEN "no_action"
  ELSE IF d.confidence < EscalateBelowConfidence \/ d.tool \notin AllowedActionTypes(s.of)
    THEN "escalated" ELSE "proceeded"
-----------------------------------------------------------------------------
RulesInit == Given(Subjects)
Deciders == {"sales", "marketing", "finance", "support", "hr", "legal", "broker", "inventory", "management"}
Judge ==
  /\ sample.of \in Deciders
  /\ Answer(DecisionStatus(sample, RunDecisionRules(sample)))
RulesSpec == RulesInit /\ [][Judge]_sampleVars

(* A lead in no terminal stage always gets a next action, a human is asked  *)
(* exactly where no active stage follows, and no other agent ever has its   *)
(* own decision taken from it, by a low confidence or by its boundary       *)
(* (the claims of ai-agent.service.ts:851-863, 888-893).                    *)
AsksForHelp ==
  answer # None /\ sample.of \in Deciders =>
    /\ sample.of # "sales" => answer # "escalated"
    /\ sample.of = "sales" =>
         answer = IF sample.kind \in {"won", "lost"} THEN "no_action"
                   ELSE IF sample.kind = "archived" \/ sample.at + 1 >= sample.stages THEN "escalated"
                   ELSE "proceeded"
=============================================================================

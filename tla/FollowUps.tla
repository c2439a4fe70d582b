----------------------------- MODULE FollowUps -----------------------------
(***************************************************************************)
(* The runs of ai-workflow.service that follow up a lead of high value: a  *)
(* plan of checks, a task, a message, a pause of some hours, and then the  *)
(* next stage if the lead has replied, a task for a human if not.  Every   *)
(* action passes through requestAction of the agents (Agents.tla), which   *)
(* executes it, only suggests it, asks for an approval or refuses.         *)
(*                                                                         *)
(* A call works on the copy of the run it began with and saves that copy,  *)
(* its status included, at each step.  The runs of one lead are modelled.  *)
(***************************************************************************)
EXTENDS Desk, Naturals, Sequences

CONSTANTS
  MaxRuns,   \* bounds the runs started for the lead
  MaxActs    \* bounds the executions of one action for one run

ASSUME FollowUpsAssumption == MaxRuns \in Nat /\ MaxActs \in Nat

VARIABLES
  runs,        \* the status of each run, in the order of their start
  acted,       \* [run -> [action -> how often it was executed for the run]]
  replied,     \* the lead has answered
  followCall,  \* [Callers -> a call in progress]
  doubled      \* auxiliary: two calls have worked on one run, or two runs begun at once

followVars == <<runs, acted, replied, followCall, doubled>>

Actions == {"create_task", "send_message", "update_lead_status", "escalation_task"}
(* The steps of the plan that only look; the first may complete the run,    *)
(* and those with an escape escalate it when they find nothing.             *)
Checks == <<"analyze_lead", "retrieve_history", "identify_requirements", "match_suitable_units",
            "analyze_payment_plans", "select_sales_agent">>
Escapes == {"analyze_lead", "identify_requirements", "match_suitable_units",
            "analyze_payment_plans", "select_sales_agent"}

FollowUpsInit ==
  /\ runs = <<>>
  /\ acted = <<>>
  /\ replied = FALSE
  /\ followCall = [w \in Callers |-> Rest]
  /\ doubled = FALSE

Steps(w, new) == followCall' = Becomes(followCall, w, new)
Saves(w, status) == runs' = [runs EXCEPT ![followCall[w].run] = status]
On(r) == {v \in Callers : followCall[v].pc \notin {"idle", "start"} /\ followCall[v].run = r}
-----------------------------------------------------------------------------
Active(status) == status \in {"running", "waiting"}

(* startWorkflow: the runs of the lead are read, then a new one is saved. *)
FindActive(w) ==
  /\ followCall[w] = Rest
  /\ Len(runs) < MaxRuns
  /\ ~ \E r \in DOMAIN runs : Active(runs[r])
  /\ doubled' = (doubled \/ \E v \in Callers : followCall[v].pc = "start")
  /\ Steps(w, [pc |-> "start"])
  /\ UNCHANGED <<runs, acted, replied>>

SaveRun(w) ==
  /\ followCall[w].pc = "start"
  /\ Len(runs) < MaxRuns
  /\ runs' = Append(runs, "running")
  /\ acted' = Append(acted, [a \in Actions |-> 0])
  /\ Steps(w, [pc |-> "check", run |-> Len(runs) + 1, copy |-> "running", at |-> 1])
  /\ UNCHANGED <<replied, doubled>>

(* recordStep of a check: the next one, or the task when all is found. *)
Check(w) ==
  LET c == followCall[w] IN
  /\ c.pc = "check"
  /\ Saves(w, c.copy)
  /\ Steps(w, IF c.at < Len(Checks) THEN [c EXCEPT !.at = @ + 1]
              ELSE [pc |-> "ask", run |-> c.run, copy |-> c.copy, action |-> "create_task"])
  /\ UNCHANGED <<acted, replied, doubled>>

(* complete, escalate *)
Ends(w, status) == Saves(w, status) /\ Steps(w, Rest)

GivesUp(w) ==
  LET c == followCall[w] IN
  /\ c.pc = "check"
  /\ Checks[c.at] \in Escapes
  /\ \/ Ends(w, "escalated")
     \/ Checks[c.at] = "analyze_lead" /\ Ends(w, "completed")   \* a low score
  /\ UNCHANGED <<acted, replied, doubled>>
-----------------------------------------------------------------------------
(* runGatedAction: an action that was not executed ends the run. *)
(* Mutant: a suggestion counts as done. *)
BlockedUnlessSuggested(outcome) == outcome \notin {"executed", "suggested"}
Blocked(outcome) == outcome # "executed"
Outcomes == {"executed", "suggested", "pending_approval", "denied_permission"}

Follows(c) ==
  CASE c.action = "create_task" -> [c EXCEPT !.action = "send_message"]
    [] c.action = "send_message" -> [pc |-> "park", run |-> c.run]
    [] c.action = "update_lead_status" -> [pc |-> "complete", run |-> c.run]
    [] OTHER -> [pc |-> "escalate", run |-> c.run]

RequestStep(w, outcome) ==
  LET c == followCall[w] IN
  /\ c.pc = "ask"
  /\ acted[c.run][c.action] < MaxActs
  /\ acted' = IF outcome = "executed" THEN [acted EXCEPT ![c.run][c.action] = @ + 1] ELSE acted
  /\ Steps(w, IF Blocked(outcome) THEN [pc |-> "escalate", run |-> c.run] ELSE Follows(c))
  /\ UNCHANGED <<runs, replied, doubled>>

Park(w) ==      /\ followCall[w].pc = "park"     /\ Ends(w, "waiting")   /\ UNCHANGED <<acted, replied, doubled>>
Complete(w) ==  /\ followCall[w].pc = "complete" /\ Ends(w, "completed") /\ UNCHANGED <<acted, replied, doubled>>
Escalate(w) ==  /\ followCall[w].pc = "escalate" /\ Ends(w, "escalated") /\ UNCHANGED <<acted, replied, doubled>>

LeadReplies ==
  /\ ~ replied
  /\ \E r \in DOMAIN runs : acted[r]["send_message"] > 0
  /\ replied' = TRUE
  /\ UNCHANGED <<runs, acted, followCall, doubled>>

(* resumeWorkflow and sweepDueWaitingRuns list the waiting runs, and        *)
(* continueAfterWait goes on with the copy: its first save is one of a      *)
(* waiting run.  At the last open stage there is no next one.               *)
ContinueAfterWait(w, r) ==
  /\ followCall[w] = Rest
  /\ runs[r] = "waiting"
  /\ doubled' = (doubled \/ On(r) # {})
  /\ Steps(w, [pc |-> "reply", run |-> r])
  /\ UNCHANGED <<runs, acted, replied>>

CheckResponse(w) ==
  LET c == followCall[w] IN
  /\ c.pc = "reply"
  /\ Saves(w, "waiting")
  /\ \/ ~ replied /\ Steps(w, [pc |-> "ask", run |-> c.run, copy |-> "waiting", action |-> "escalation_task"])
     \/ replied /\ Steps(w, [pc |-> "ask", run |-> c.run, copy |-> "waiting", action |-> "update_lead_status"])
     \/ replied /\ Steps(w, [pc |-> "escalate", run |-> c.run])
  /\ UNCHANGED <<acted, replied, doubled>>

StopFollowUps ==
  /\ ~ Quiet(followCall)
  /\ followCall' = [w \in Callers |-> Rest]
  /\ doubled' = (doubled \/ \E w \in Callers : followCall[w].pc \in {"ask", "complete", "escalate"}
                                               /\ runs[followCall[w].run] = "waiting")
  /\ UNCHANGED <<runs, acted, replied>>

FollowUpsNext ==
  \/ \E w \in Callers :
       \/ FindActive(w) \/ SaveRun(w) \/ Check(w) \/ GivesUp(w)
       \/ \E outcome \in Outcomes : RequestStep(w, outcome)
       \/ Park(w) \/ Complete(w) \/ Escalate(w)
       \/ \E r \in DOMAIN runs : ContinueAfterWait(w, r)
       \/ CheckResponse(w)
  \/ LeadReplies
  \/ StopFollowUps

FollowUpsSpec == FollowUpsInit /\ [][FollowUpsNext]_followVars
-----------------------------------------------------------------------------
(* A run waits for an answer only if its task and its message were really   *)
(* executed, and moves the lead only after it replied.  As long as no two   *)
(* calls work on it, and the process does not stop in its tail, it does     *)
(* nothing twice, and no second run is under way (ai-workflow.service.ts:   *)
(* 66-69, 92-97).                                                           *)
NeverAssumes ==
  /\ \A r \in DOMAIN runs :
       /\ runs[r] = "waiting" => acted[r]["create_task"] > 0 /\ acted[r]["send_message"] > 0
       /\ acted[r]["update_lead_status"] > 0 => replied
  /\ ~doubled =>
       /\ \A r \in DOMAIN runs, a \in Actions : acted[r][a] <= 1
       /\ \A r, q \in DOMAIN runs : Active(runs[r]) /\ Active(runs[q]) => r = q
=============================================================================

----------------------------- MODULE Workflows -----------------------------
(***************************************************************************)
(* The workflows of a company (automation.service.ts) and what starts      *)
(* them, up to the creation of the run, which Automation.tla carries on    *)
(* from: one workflow on a schedule, or those that claim one webhook slug. *)
(* A tick lists the workflows that are due and comes to each when it has   *)
(* executed those before it, so any time may pass between its steps.       *)
(***************************************************************************)
EXTENDS Desk, Naturals, Sequences

CONSTANTS
  Hooks,       \* the workflows that may be created with the slug
  Interval,    \* of the schedule, in minutes
  MaxMinute    \* bounds the clock

ASSUME WorkflowsAssumption ==
  Interval \in Nat \ {0} /\ MaxMinute \in Nat /\ "timed" \notin Hooks /\ None \notin Nat

WorkflowStatus == {"active", "paused", "archived"}

VARIABLES
  flows,     \* [the workflows of the trigger -> [status, last], None before the creation]
  minute,    \* the clock
  starts,    \* the scheduled runs, in order: [bucket, at, status of the workflow]
  flowCall,  \* [Callers -> a call in progress]
  met,       \* auxiliary: two calls were at work on the scheduled workflow at once
  missed,    \* auxiliary: the process stopped between the stamp of a workflow and its run
  reclaimed  \* auxiliary: two creations overlapped, or the slug of an archived workflow was
             \* taken back, by a new status or by a copy that was read before

workflowVars == <<flows, minute, starts, flowCall, met, missed, reclaimed>>

WorkflowsInit ==
  /\ flows \in {[f \in {"timed"} |-> [status |-> "active", last |-> None]],
                [f \in Hooks |-> None]}
  /\ minute = 0
  /\ starts = <<>>
  /\ flowCall = [w \in Callers |-> Rest]
  /\ met = FALSE
  /\ missed = FALSE
  /\ reclaimed = FALSE

Hands(w, new) == flowCall' = Becomes(flowCall, w, new)
Busy(f) == \E v \in Callers : flowCall[v] # Rest /\ flowCall[v].flow = f
Meets(f) == met' = (met \/ (f = "timed" /\ Busy(f)))
Claims(f) == flows[f] # None /\ flows[f].status # "archived"
-----------------------------------------------------------------------------
(* createWorkflow: the slug must be free when it is looked up, before the   *)
(* save (assertWebhookSlugFree).                                            *)
SlugFree == \A f \in Hooks : ~ Claims(f)

CreateWorkflow(w, f) ==
  /\ flowCall[w] = Rest
  /\ f \in Hooks /\ flows[f] = None /\ ~ Busy(f)
  /\ SlugFree
  /\ reclaimed' = (reclaimed \/ \E v \in Callers : flowCall[v].pc = "create")
  /\ Hands(w, [pc |-> "create", flow |-> f])
  /\ UNCHANGED <<flows, minute, starts, met, missed>>

SaveWorkflow(w) ==
  LET f == flowCall[w].flow IN
  /\ flowCall[w].pc = "create"
  /\ flows' = [flows EXCEPT ![f] = [status |-> "active", last |-> None]]
  /\ Hands(w, Rest)
  /\ UNCHANGED <<minute, starts, met, missed, reclaimed>>

(* setWorkflowStatus with the new status, updateWorkflow with the old one:  *)
(* either saves the workflow it read.                                      *)
OpenWorkflow(w, f, status) ==
  /\ flowCall[w] = Rest
  /\ flows[f] # None
  /\ Meets(f)
  /\ Hands(w, [pc |-> "change", flow |-> f, copy |-> [flows[f] EXCEPT !.status = status]])
  /\ UNCHANGED <<flows, minute, starts, missed, reclaimed>>

ChangeWorkflow(w) ==
  LET f == flowCall[w].flow
      copy == flowCall[w].copy
  IN  /\ flowCall[w].pc = "change"
      /\ flows' = [flows EXCEPT ![f] = copy]
      /\ reclaimed' = (reclaimed \/ (~ Claims(f) /\ copy.status # "archived"))
      /\ Hands(w, Rest)
      /\ UNCHANGED <<minute, starts, met, missed>>
-----------------------------------------------------------------------------
(* Mutant: the bucket alone is to keep the runs apart. *)
IsDueAlways(f) == TRUE

(* runDueScheduledWorkflows: it lists, and judges by what it listed. *)
IsDue(f) == flows[f].last # None => minute - flows[f].last >= Interval

Tick(w, f) ==
  /\ flowCall[w] = Rest
  /\ f = "timed"
  /\ flows[f].status = "active"
  /\ IsDue(f)
  /\ Meets(f)
  /\ Hands(w, [pc |-> "stamp", flow |-> f, copy |-> [flows[f] EXCEPT !.last = minute]])
  /\ UNCHANGED <<flows, minute, starts, missed, reclaimed>>

StampWorkflow(w) ==
  LET f == flowCall[w].flow IN
  /\ flowCall[w].pc = "stamp"
  /\ flows' = [flows EXCEPT ![f] = flowCall[w].copy]
  /\ Hands(w, [flowCall[w] EXCEPT !.pc = "start"])
  /\ UNCHANGED <<minute, starts, met, missed, reclaimed>>

(* getOrCreateRun with the bucket of the tick as its key. *)
Bucket(at) == at \div Interval
StartScheduled(w) ==
  LET at == flowCall[w].copy.last IN
  /\ flowCall[w].pc = "start"
  /\ starts' = IF \E i \in DOMAIN starts : starts[i].bucket = Bucket(at) THEN starts
               ELSE Append(starts, [bucket |-> Bucket(at), at |-> at,
                                    status |-> flows[flowCall[w].flow].status])
  /\ Hands(w, Rest)
  /\ UNCHANGED <<flows, minute, met, missed, reclaimed>>

MinutePasses ==
  /\ minute < MaxMinute
  /\ minute' = minute + 1
  /\ UNCHANGED <<flows, starts, flowCall, met, missed, reclaimed>>

StopWorkflows ==
  /\ ~ Quiet(flowCall)
  /\ flowCall' = [w \in Callers |-> Rest]
  /\ missed' = (missed \/ \E w \in Callers : flowCall[w].pc = "start")
  /\ UNCHANGED <<flows, minute, starts, met, reclaimed>>

WorkflowsNext ==
  \/ \E w \in Callers, f \in DOMAIN flows :
       \/ CreateWorkflow(w, f) \/ Tick(w, f)
       \/ \E status \in WorkflowStatus : OpenWorkflow(w, f, status)
  \/ \E w \in Callers : SaveWorkflow(w) \/ ChangeWorkflow(w) \/ StampWorkflow(w) \/ StartScheduled(w)
  \/ MinutePasses
  \/ StopWorkflows

WorkflowsSpec == WorkflowsInit /\ [][WorkflowsNext]_workflowVars
-----------------------------------------------------------------------------
(* As long as ticks and edits of a workflow do not overlap, its runs are an *)
(* interval apart, each starts while the workflow is active, and every      *)
(* stamp has its run, so that the bucket never swallows one that was due;   *)
(* whatever overlaps, a bucket has one run.                                 *)
KeepsTime ==
  /\ \A i, j \in DOMAIN starts : i # j => starts[i].bucket # starts[j].bucket
  /\ ~ met =>
       /\ \A i, j \in DOMAIN starts : i < j => starts[j].at - starts[i].at >= Interval
       /\ \A i \in DOMAIN starts : starts[i].status = "active"
       /\ "timed" \in DOMAIN flows /\ Quiet(flowCall) /\ ~ missed =>
            flows["timed"].last \in {None} \cup {starts[i].at : i \in DOMAIN starts}

(* One workflow claims a slug, so that a webhook has one receiver, unless   *)
(* two were created at once or an archived one took its slug back, which    *)
(* setWorkflowStatus does not check.                                        *)
SlugsApart ==
  ~ reclaimed => \A f, g \in DOMAIN flows \cap Hooks : Claims(f) /\ Claims(g) => f = g

TriggersKept == KeepsTime /\ SlugsApart
=============================================================================

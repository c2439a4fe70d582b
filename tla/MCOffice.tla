------------------------------ MODULE MCOffice ------------------------------
(***************************************************************************)
(* The desks of the office, one per behaviour: `desk` is chosen once, only *)
(* its module moves, and what the others leave open in their initial       *)
(* states is fixed (they share no state with it: what crosses a module's   *)
(* border is modelled in the module as its environment).                   *)
(***************************************************************************)
EXTENDS Registers, Agents, AgentRules, Schedules, Permissions, Routes,
        Pipeline, Approvals, FollowUps, Deliveries, Imports, Brokers, Workflows

CallerSymmetry == Permutations(Callers)

MCAges == {0, 7, 14, 15, 24, 25, 49, 73, 91, 200}
MCPeople == {[phone |-> 1, nationalId |-> 9], [phone |-> 2, nationalId |-> 9]}
MCTeams == {<<"m1", "m2">>}
MCGrants == {{}, {"view"}, {"view", "create"}, {"view", "edit"},
             {"view", "create", "edit", "delete", "approve", "export"}}
Row(key, project, amount) == [key |-> key, project |-> project, amount |-> amount]
MCFiles == {<<Row("A", "old", 2)>>, <<Row("A", "new", 1), Row("B", "new", 2), Row("A", "new", 1)>>}

VARIABLE desk

Desks == {"registers", "agents", "samples", "pipeline", "approvals", "follow-ups", "deliveries",
          "imports", "brokers", "workflows"}

AnyOf(S) == CHOOSE x \in S : TRUE

OfficeInit ==
  /\ desk \in Desks
  /\ RegistersInit /\ (desk # "registers" => register = AnyOf(Registers))
  /\ AgentsInit
  /\ answer = None
  /\ IF desk = "samples"
       THEN RulesInit \/ SchedulesInit \/ PermissionsInit \/ RoutesInit
       ELSE sample = [of |-> "none"]
  /\ PipelineInit
  /\ ApprovalsInit
  /\ desk # "approvals" =>
       action = [kind |-> "refund", gated |-> TRUE] /\ rates = [base |-> TRUE, override |-> TRUE]
  /\ FollowUpsInit
  /\ DeliveriesInit /\ (desk # "deliveries" => channel = "envelope")
  /\ ImportsInit
  /\ desk # "imports" =>
       target = "lead" /\ session.rows = AnyOf(Files) /\ items = [k \in Keys |-> Absent]
  /\ BrokersInit
  /\ WorkflowsInit /\ (desk # "workflows" => flows = [f \in Hooks |-> None])

OfficeNext ==
  \/ /\ desk = "registers" /\ RegistersNext
     /\ UNCHANGED <<desk, agentsVars, sampleVars, pipelineVars, approvalVars,
                    followVars, deliveryVars, importVars, brokerVars, workflowVars>>
  \/ /\ desk = "agents" /\ AgentsNext
     /\ UNCHANGED <<desk, registersVars, sampleVars, pipelineVars, approvalVars,
                    followVars, deliveryVars, importVars, brokerVars, workflowVars>>
  \/ /\ desk = "samples" /\ (Judge \/ Schedule \/ CheckAccess \/ Serve)
     /\ UNCHANGED <<desk, registersVars, agentsVars, pipelineVars, approvalVars,
                    followVars, deliveryVars, importVars, brokerVars, workflowVars>>
  \/ /\ desk = "pipeline" /\ PipelineNext
     /\ UNCHANGED <<desk, registersVars, agentsVars, sampleVars, approvalVars,
                    followVars, deliveryVars, importVars, brokerVars, workflowVars>>
  \/ /\ desk = "approvals" /\ ApprovalsNext
     /\ UNCHANGED <<desk, registersVars, agentsVars, sampleVars, pipelineVars,
                    followVars, deliveryVars, importVars, brokerVars, workflowVars>>
  \/ /\ desk = "follow-ups" /\ FollowUpsNext
     /\ UNCHANGED <<desk, registersVars, agentsVars, sampleVars, pipelineVars,
                    approvalVars, deliveryVars, importVars, brokerVars, workflowVars>>
  \/ /\ desk = "deliveries" /\ DeliveriesNext
     /\ UNCHANGED <<desk, registersVars, agentsVars, sampleVars, pipelineVars,
                    approvalVars, followVars, importVars, brokerVars, workflowVars>>
  \/ /\ desk = "imports" /\ ImportsNext
     /\ UNCHANGED <<desk, registersVars, agentsVars, sampleVars, pipelineVars,
                    approvalVars, followVars, deliveryVars, brokerVars, workflowVars>>
  \/ /\ desk = "brokers" /\ BrokersNext
     /\ UNCHANGED <<desk, registersVars, agentsVars, sampleVars, pipelineVars,
                    approvalVars, followVars, deliveryVars, importVars, workflowVars>>
  \/ /\ desk = "workflows" /\ WorkflowsNext
     /\ UNCHANGED <<desk, registersVars, agentsVars, sampleVars, pipelineVars,
                    approvalVars, followVars, deliveryVars, importVars, brokerVars>>

officeVars == <<desk, registersVars, agentsVars, sampleVars, pipelineVars, approvalVars,
                followVars, deliveryVars, importVars, brokerVars, workflowVars>>
OfficeSpec == OfficeInit /\ [][OfficeNext]_officeVars

(* What comes after a behaviour that its property exempts is not looked at. *)
Unmuddled == ~ muddled /\ ~ crossed
=============================================================================

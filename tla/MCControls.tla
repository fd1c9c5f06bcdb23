----------------------------- MODULE MCControls -----------------------------
(* What stands between a decision and the broker, on small instances: the  *)
(* risk engine, the final check, the force flatten service, the governance *)
(* of agents and the gateway of their tools.  They share no state: a       *)
(* behaviour is one of the five.                                           *)
EXTENDS RiskEngine, FinalCheckGate, ForceFlatten, AgentGovernance, AgentGateway, TLC

VARIABLE part

agentVars == <<govVars, gatewayVars>>
vars == <<part, riskVars, gateVars, flattenVars, agentVars>>

(* Only the flatten service starts in several ways. *)
Init == /\ part \in {"engine", "gate", "flatten", "governance", "gateway"}
        /\ RiskInit /\ GateInit /\ FlattenInit /\ GovInit /\ GatewayInit
        /\ part # "flatten" => service = [repo |-> FALSE, orders |-> FALSE] /\ positions = <<>>

Next ==
    /\ UNCHANGED part
    /\ \/ part = "engine" /\ RiskNext /\ UNCHANGED <<gateVars, flattenVars, agentVars>>
       \/ part = "gate" /\ GateNext /\ UNCHANGED <<riskVars, flattenVars, agentVars>>
       \/ part = "flatten" /\ FlattenNext /\ UNCHANGED <<riskVars, gateVars, agentVars>>
       \/ /\ part = "governance" /\ GovNext
          /\ UNCHANGED <<riskVars, gateVars, flattenVars, gatewayVars>>
       \/ /\ part = "gateway" /\ GatewayNext
          /\ UNCHANGED <<riskVars, gateVars, flattenVars, govVars>>

Spec == Init /\ [][Next]_vars

(* Callers, approval requests, executions and agent tasks are              *)
(* interchangeable.                                                        *)
MCSymmetry == Permutations(AgentCallers) \cup Permutations(Approvals)
              \cup Permutations(Executions) \cup Permutations(AgentTasks)

(* The state of every part keeps its type: statuses, counters, tables and  *)
(* windows stay within their bounds.                                       *)
TypesOK == RiskTypeOK /\ GateTypeOK /\ FlattenTypeOK /\ GovTypeOK /\ GatewayTypeOK
=============================================================================

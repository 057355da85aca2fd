---------------------------- MODULE MCOperations ----------------------------
(***************************************************************************)
(* The tools that put contracts on the live network: the stage gates and   *)
(* the official deployment.  They share no state, so one behaviour runs    *)
(* one of them.                                                            *)
(***************************************************************************)
EXTENDS StageGates, Deployment

VARIABLE tool               \* the tool of this behaviour

operationsVars == <<tool, gateVars, deploymentVars>>

MCForbidden == {<<"a", "a", "b">>}
MCSelectors == {<<>>, <<<<"*", "a", "b">>>>, <<<<"*">>, <<"-", "a", "*", "b">>>>, <<<<"a", "*">>, <<"-", "*", "a">>>>}

OperationsInit ==
  /\ tool \in {"gate", "deployment"}
  /\ GateInit /\ DeploymentInit
  /\ tool # "deployment" => NothingDeployed

OperationsNext ==
  /\ tool' = tool
  /\ \/ tool = "gate" /\ GateNext /\ UNCHANGED deploymentVars
     \/ tool = "deployment" /\ DeploymentNext /\ UNCHANGED gateVars

OperationsSpec == OperationsInit /\ [][OperationsNext]_operationsVars
=============================================================================

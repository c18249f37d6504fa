---------------------------- MODULE MCEvalQueue ----------------------------
(* Three evaluations on two priority levels for the broker.                *)
EXTENDS EvalQueueHistory, BrokerRefinement, TLC

CONSTANTS e1, e2, e3

MCEval == {e1, e2, e3}
MCPriority == (e1 :> 50) @@ (e2 :> 50) @@ (e3 :> 80)

============================================================================

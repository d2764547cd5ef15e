------------------------ MODULE MCCorrelationEngine ------------------------
(* Signals for CorrelationEngine: a deployment risk and two reports from   *)
(* one node, one of them from a pod of it too.                             *)
EXTENDS CorrelationEngine

OnNode == [node |-> "n1", pod |-> Empty, namespace |-> "shop"]
InPod  == [node |-> "n1", pod |-> "a", namespace |-> "shop"]

Signal(module, type, place, risk) ==
  [module |-> module, type |-> type, place |-> place, risk |-> risk]

MCSignals == {Signal("ollinai", "deployment_risk", OnNode, 60),
              Signal("earthworm", "anomaly", OnNode, NoRisk),
              Signal("ebeecontrol", "access", OnNode, NoRisk),
              Signal("earthworm", "anomaly", InPod, NoRisk)}
=============================================================================

--------------------------- MODULE ThreatResponse ---------------------------
(***************************************************************************)
(* What eBeeControl makes of an access to a honeytoken: the threat level   *)
(* of a pod context (classifier.go) and the plan that answers it           *)
(* (planner.go).  Anomaly scores are counted in tenths.                    *)
(***************************************************************************)
EXTENDS Integers, Sequences

Classifications == {"production", "other", "missing"}
PodContexts == [class : Classifications, criticality : 0..5, anomaly : 0..10]

ThreatLevels == {"low", "medium", "high", "critical"}
Rank == [low |-> 1, medium |-> 2, high |-> 3, critical |-> 4]

IsCritical(c) == c.class = "production" /\ (c.anomaly > 8 \/ c.criticality = 5)
IsHigh(c) == c.class = "production" /\ (c.anomaly \in 6..8 \/ c.criticality = 4)
IsLow(c)  == c.class # "production" /\ c.anomaly < 3 /\ c.criticality <= 2

(* classifyFromInputs; what no rule covers is medium *)
ClassifyThreat(c) == CASE IsCritical(c) -> "critical"
                       [] ~IsCritical(c) /\ IsHigh(c) -> "high"
                       [] IsLow(c) -> "low"
                       [] OTHER -> "medium"

(* the highest-risk value stands in for every missing input *)
WithDefaults(c) ==
  [class |-> IF c.class = "missing" THEN "production" ELSE c.class,
   criticality |-> IF c.criticality = 0 THEN 5 ELSE c.criticality,
   anomaly |-> IF c.anomaly = 0 THEN 10 ELSE c.anomaly]

ClassifyThreatWithDefaults(c) == ClassifyThreat(WithDefaults(c))

(* processAccessEvent: the defaults are for the case that GetPodContext *)
(* failed, not for an answer with missing fields                        *)
LevelWithoutContext ==
  ClassifyThreatWithDefaults([class |-> "missing", criticality |-> 0, anomaly |-> 0])
Assessments(contexts) == {ClassifyThreat(c) : c \in contexts} \cup {LevelWithoutContext}

(* buildActions, in the order of their priorities *)
PlanActions(level) ==
  CASE level = "low" -> <<>>
    [] level = "medium" -> <<"additional_honeytokens">>
    [] level \in {"high", "critical"} ->
         <<"pod_isolation", "ip_block", "additional_honeytokens">>
=============================================================================

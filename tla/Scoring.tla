------------------------------ MODULE Scoring ------------------------------
(***************************************************************************)
(* The confidence formula of the correlation engine (scoring.go).  A group *)
(* is a set of events with the fields module, type, risk and timestamp;    *)
(* time is counted in ticks of ten seconds.                                *)
(***************************************************************************)
EXTENDS Integers, FiniteSets, FiniteSetsExt

ModuleBaseScore        == 20
AttributeBonus         == 10
ProximityBonusClose    == 10
ProximityBonusNear     == 5
MaxConfidence          == 100
MaxDeploymentRiskBonus == 20

Close == 1       \* 10 seconds
Near  == 3       \* 30 seconds

NoRisk == -1     \* no risk_score label, or one that is not a number

ModulesOf(group) == {event.module : event \in group}

(* DeploymentRiskBonus: the risk score clamped to 0..100, divided by five *)
DeploymentRiskBonus(riskScore) ==
  CASE riskScore < 0   -> 0
    [] riskScore > 100 -> MaxDeploymentRiskBonus
    [] OTHER           -> riskScore \div 5

(* extractRiskScore *)
ExtractRiskScore(event) == IF event.risk = NoRisk THEN 0 ELSE event.risk

(* ollinAIDeploymentRiskBonusFromEvents: the highest one, 0 when there is none *)
RiskBonusOf(group) ==
  Max({0} \cup {DeploymentRiskBonus(ExtractRiskScore(event)) :
                  event \in {e \in group : e.module = "ollinai" /\ e.type = "deployment_risk"}})

(* eventTimeSpan *)
TimeSpan(group) ==
  LET stamps == {event.timestamp : event \in group}
  IN  IF Cardinality(group) < 2 THEN 0 ELSE Max(stamps) - Min(stamps)

MutProximityBonus(span) ==       \* the close bonus outweighs a module
  IF span <= Close THEN 40 ELSE IF span <= Near THEN ProximityBonusNear ELSE 0
ProximityBonus(span) ==
  IF span <= Close THEN ProximityBonusClose
  ELSE IF span <= Near THEN ProximityBonusNear ELSE 0

(* CalculateConfidence *)
CalculateConfidence(group, matchedAttributes) ==
  LET score == Cardinality(ModulesOf(group)) * ModuleBaseScore
                 + Cardinality(matchedAttributes) * AttributeBonus
                 + ProximityBonus(TimeSpan(group))
                 + RiskBonusOf(group)
  IN  IF Cardinality(group) < 2 THEN 0
      ELSE IF score > MaxConfidence THEN MaxConfidence ELSE score
=============================================================================

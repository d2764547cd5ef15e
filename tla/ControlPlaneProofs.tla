------------------------ MODULE ControlPlaneProofs ------------------------
(***************************************************************************)
(* Proofs about what the platform decides on: the correlation engine,      *)
(* which finds incidents, and the gateway's overrides, by which operators  *)
(* decide on actions.                                                      *)
(*                                                                         *)
(* CorrelationEngine, for any signals, windows and threshold: the engine   *)
(* reports every pair of events of two modules in its window and nothing   *)
(* else, keeps one event per dedup window, and is the surer the more       *)
(* modules report.  Overrides, for any actions, modules and operators and  *)
(* any number of concurrent requests: what the stores say was done by an   *)
(* operator is in the audit trail or about to be written there, and the    *)
(* trail has one entry for each override that was carried out.             *)
(***************************************************************************)
EXTENDS CorrelationEngine, Overrides, FiniteSetTheorems, WellFoundedInduction, TLAPS

-----------------------------------------------------------------------------
(* The confidence of a group                                                 *)

(* A finite set of numbers that is not empty has a greatest element.       *)
LEMMA GreatestExists ==
  ASSUME NEW S, IsFiniteSet(S), S \subseteq Int, S # {}
  PROVE  \E m \in S : \A x \in S : x <= m
<1> DEFINE Has(T) == \E m \in T : \A x \in T : x <= m
           Bad == {T \in SUBSET S : T # {} /\ ~Has(T)}
           Sizes == {Cardinality(T) : T \in Bad}
<1>1. SUFFICES ASSUME Bad # {}
               PROVE  FALSE
  BY DEF Bad
<1>2. \A T \in SUBSET S : IsFiniteSet(T) /\ Cardinality(T) \in Nat
  BY FS_Subset, FS_CardinalityType
<1>3. Sizes \subseteq Nat /\ Sizes # {}
  BY <1>1, <1>2 DEF Bad
<1>4. PICK n \in Sizes : \A k \in Sizes : ~(<<k, n>> \in OpToRel(<, Nat))
  BY <1>3, NatLessThanWellFounded, WFMin
<1>5. \A k \in Sizes : ~(k < n)
  BY <1>3, <1>4 DEF OpToRel
<1>6. PICK T \in Bad : Cardinality(T) = n
  OBVIOUS
<1>7. PICK x \in T : TRUE
  BY <1>6 DEF Bad
<1>8. T \in SUBSET S /\ x \in Int /\ T \subseteq Int /\ ~Has(T)
  BY <1>6, <1>7 DEF Bad
<1>9. T \ {x} \in SUBSET S /\ Cardinality(T \ {x}) = Cardinality(T) - 1
  BY <1>2, <1>7, <1>8, FS_RemoveElement
<1>10. Cardinality(T \ {x}) < n
  BY <1>2, <1>6, <1>8, <1>9
<1>11. T \ {x} \notin Bad
  BY <1>5, <1>10
<1>12. CASE T \ {x} = {}
  <2>1. T = {x}
    BY <1>7, <1>12
  <2> QED BY <1>8, <2>1
<1>13. CASE T \ {x} # {}
  <2>1. PICK m \in T \ {x} : \A y \in T \ {x} : y <= m
    BY <1>9, <1>11, <1>13
  <2>2. CASE m <= x
    <3>1. \A y \in T : y <= x
      BY <1>8, <2>1, <2>2
    <3> QED BY <1>7, <1>8, <3>1
  <2>3. CASE x <= m
    <3>1. \A y \in T : y <= m
      BY <1>8, <2>1, <2>3
    <3> QED BY <1>8, <2>1, <3>1
  <2> QED BY <1>8, <2>1, <2>2, <2>3
<1> QED BY <1>12, <1>13

(* Max and Min of a finite set of numbers are its greatest and least.      *)
LEMMA MaxIsGreatest ==
  ASSUME NEW S, IsFiniteSet(S), S \subseteq Int, S # {}
  PROVE  Max(S) \in S /\ \A x \in S : x <= Max(S)
<1>1. PICK m \in S : \A x \in S : x <= m
  BY GreatestExists
<1>2. m \in S /\ \A x \in S : m >= x
  BY <1>1
<1>3. Max(S) \in S /\ \A x \in S : Max(S) >= x
  BY <1>2 DEF Max
<1> QED BY <1>3

(* A set of at least two elements has two that differ.                     *)
LEMMA TwoElements ==
  ASSUME NEW S, IsFiniteSet(S), Cardinality(S) >= 2
  PROVE  \E x, y \in S : x # y
<1>1. S # {}
  BY FS_EmptySet
<1>2. PICK x \in S : TRUE
  BY <1>1
<1>3. S # {x}
  BY FS_Singleton
<1> QED BY <1>2, <1>3

(* Two elements that differ make at least two.                             *)
LEMMA AtLeastTwo ==
  ASSUME NEW S, IsFiniteSet(S), NEW x \in S, NEW y \in S, x # y
  PROVE  Cardinality(S) >= 2
<1>1. IsFiniteSet({x}) /\ Cardinality({x}) = 1
  BY FS_Singleton
<1>2. Cardinality({x} \cup {y}) = 2
  BY <1>1, FS_AddElement
<1>3. {x} \cup {y} \in SUBSET S
  OBVIOUS
<1>4. Cardinality({x} \cup {y}) <= Cardinality(S) /\ Cardinality(S) \in Nat
  BY <1>3, FS_Subset, FS_CardinalityType
<1> QED BY <1>2, <1>4

(* The modules of a finite group are finitely many.                        *)
LEMMA ModulesFinite ==
  ASSUME NEW group, IsFiniteSet(group)
  PROVE  IsFiniteSet(ModulesOf(group)) /\ Cardinality(ModulesOf(group)) \in Nat
<1> DEFINE name == [e \in group |-> e.module]
<1>1. name \in Surjection(group, ModulesOf(group))
  BY DEF Surjection, ModulesOf
<1> QED BY <1>1, FS_Surjection, FS_CardinalityType

(* The attributes of a place are at most three.                            *)
LEMMA AttributesCounted ==
  ASSUME NEW place
  PROVE  Cardinality(MatchedAttributes(place)) \in 0..3
<1> DEFINE two == {"node"} \cup {"pod"}
           three == two \cup {"namespace"}
<1>1. IsFiniteSet({"node"}) /\ Cardinality({"node"}) = 1
  BY FS_Singleton
<1>2. IsFiniteSet(two) /\ Cardinality(two) <= 2
  BY <1>1, FS_AddElement
<1>3. MatchedAttributes(place) \in SUBSET three
  BY DEF MatchedAttributes
<1> HIDE DEF two
<1>4. Cardinality(two) \in Nat
  BY <1>2, FS_CardinalityType
<1>5. IsFiniteSet(three) /\ Cardinality(three) <= 3
  BY <1>2, <1>4, FS_AddElement, SMTT(30)
<1> HIDE DEF three
<1>6. /\ IsFiniteSet(MatchedAttributes(place))
      /\ Cardinality(MatchedAttributes(place)) <= Cardinality(three)
  BY <1>3, <1>5, FS_Subset
<1>7. Cardinality(MatchedAttributes(place)) \in Nat /\ Cardinality(three) \in Nat
  BY <1>5, <1>6, FS_CardinalityType
<1> QED BY <1>5, <1>6, <1>7

(* The bonus of a risk is between 0 and 20.                                *)
LEMMA BonusBounded ==
  ASSUME NEW risk \in Int
  PROVE  DeploymentRiskBonus(risk) \in 0..20
BY DEF DeploymentRiskBonus, MaxDeploymentRiskBonus

(* The risk bonuses a group is judged by, 0 among them.                    *)
BonusesOf(group) ==
  {0} \cup {DeploymentRiskBonus(ExtractRiskScore(event)) :
              event \in {e \in group : e.module = "ollinai" /\ e.type = "deployment_risk"}}

(* The bonus of a group is the highest of its events.                       *)
LEMMA RiskBonus ==
  ASSUME NEW group, \A e \in group : e.risk \in Int
  PROVE  /\ RiskBonusOf(group) \in BonusesOf(group)
         /\ BonusesOf(group) \subseteq 0..20
         /\ \A b \in BonusesOf(group) : b <= RiskBonusOf(group)
<1>1. \A e \in group : ExtractRiskScore(e) \in Int
  BY DEF ExtractRiskScore
<1>2. BonusesOf(group) \subseteq 0..20
  BY <1>1, BonusBounded DEF BonusesOf
<1>3. IsFiniteSet(BonusesOf(group))
  <2>1. BonusesOf(group) \in SUBSET Nat /\ 20 \in Nat /\ \A b \in BonusesOf(group) : b <= 20
    BY <1>2
  <2> QED BY <2>1, FS_BoundedSetOfNaturals
<1>4. BonusesOf(group) \subseteq Int /\ BonusesOf(group) # {}
  BY <1>2 DEF BonusesOf
<1>5. RiskBonusOf(group) = Max(BonusesOf(group))
  BY DEF RiskBonusOf, BonusesOf
<1> QED BY <1>2, <1>3, <1>4, <1>5, MaxIsGreatest

(* The bonus of a span has three values.                                    *)
LEMMA ProximityValues ==
  ASSUME NEW span
  PROVE  ProximityBonus(span) \in {0, 5, 10}
BY DEF ProximityBonus, ProximityBonusClose, ProximityBonusNear

(* A confidence is between 0 and 100.                                      *)
LEMMA ConfidenceBounded ==
  ASSUME NEW group, IsFiniteSet(group), \A e \in group : e.risk \in Int, NEW place
  PROVE  CalculateConfidence(group, MatchedAttributes(place)) \in 0..100
<1> DEFINE modules == Cardinality(ModulesOf(group))
           attributes == Cardinality(MatchedAttributes(place))
           close == ProximityBonus(TimeSpan(group))
           bonus == RiskBonusOf(group)
<1>1. modules \in Nat /\ attributes \in 0..3 /\ close \in {0, 5, 10} /\ bonus \in 0..20
  BY ModulesFinite, AttributesCounted, ProximityValues, RiskBonus
<1> HIDE DEF modules, attributes, close, bonus
<1>2. CalculateConfidence(group, MatchedAttributes(place)) =
        IF Cardinality(group) < 2 THEN 0
        ELSE IF modules * 20 + attributes * 10 + close + bonus > 100 THEN 100
        ELSE modules * 20 + attributes * 10 + close + bonus
  BY DEF CalculateConfidence, ModuleBaseScore, AttributeBonus, MaxConfidence,
         modules, attributes, close, bonus
<1> QED BY <1>1, <1>2

(* A group with one module more than another of the same place is worth    *)
(* at least as much, whatever happens to the proximity.                    *)
LEMMA MoreModulesMoreConfidence ==
  ASSUME NEW small, NEW large, IsFiniteSet(large), small \subseteq large,
         ModulesOf(small) # ModulesOf(large),
         \A e \in large : e.risk \in Int,
         NEW place
  PROVE  CalculateConfidence(small, MatchedAttributes(place))
           <= CalculateConfidence(large, MatchedAttributes(place))
<1> DEFINE few == Cardinality(ModulesOf(small))
           many == Cardinality(ModulesOf(large))
           attributes == Cardinality(MatchedAttributes(place))
           near == ProximityBonus(TimeSpan(small))
           far == ProximityBonus(TimeSpan(large))
           less == RiskBonusOf(small)
           more == RiskBonusOf(large)
<1>1. /\ IsFiniteSet(small) /\ Cardinality(small) \in Nat
      /\ Cardinality(large) \in Nat /\ Cardinality(small) <= Cardinality(large)
  BY FS_Subset, FS_CardinalityType
<1>2. few \in Nat /\ many \in Nat /\ few + 1 <= many
  <2>1. ModulesOf(small) \in SUBSET ModulesOf(large)
    BY DEF ModulesOf
  <2>2. IsFiniteSet(ModulesOf(large)) /\ few \in Nat /\ many \in Nat
    BY <1>1, ModulesFinite
  <2>3. few <= many /\ few # many
    BY <2>1, <2>2, FS_Subset
  <2> QED BY <2>2, <2>3
<1>3. attributes \in 0..3 /\ near \in {0, 5, 10} /\ far \in {0, 5, 10}
  BY AttributesCounted, ProximityValues
<1>4. less \in 0..20 /\ more \in 0..20 /\ less <= more
  <2>1. BonusesOf(small) \subseteq BonusesOf(large)
    BY DEF BonusesOf
  <2>2. \A e \in small : e.risk \in Int
    OBVIOUS
  <2>3. less \in BonusesOf(small) /\ BonusesOf(small) \subseteq 0..20
    BY <2>2, RiskBonus
  <2>4. /\ more \in BonusesOf(large) /\ BonusesOf(large) \subseteq 0..20
        /\ \A b \in BonusesOf(large) : b <= more
    BY RiskBonus
  <2> QED BY <2>1, <2>3, <2>4
<1>5. CalculateConfidence(large, MatchedAttributes(place)) \in 0..100
  BY ConfidenceBounded
<1> HIDE DEF few, many, attributes, near, far, less, more
<1>6. CalculateConfidence(small, MatchedAttributes(place)) =
        IF Cardinality(small) < 2 THEN 0
        ELSE IF few * 20 + attributes * 10 + near + less > 100 THEN 100
        ELSE few * 20 + attributes * 10 + near + less
  BY DEF CalculateConfidence, ModuleBaseScore, AttributeBonus, MaxConfidence,
         few, attributes, near, less
<1>7. CalculateConfidence(large, MatchedAttributes(place)) =
        IF Cardinality(large) < 2 THEN 0
        ELSE IF many * 20 + attributes * 10 + far + more > 100 THEN 100
        ELSE many * 20 + attributes * 10 + far + more
  BY DEF CalculateConfidence, ModuleBaseScore, AttributeBonus, MaxConfidence,
         many, attributes, far, more
<1>8. few * 20 + attributes * 10 + near + less <= many * 20 + attributes * 10 + far + more
  BY <1>2, <1>3, <1>4
<1>9. CASE Cardinality(small) < 2
  BY <1>5, <1>6, <1>9
<1>10. CASE Cardinality(small) >= 2
  BY <1>1, <1>2, <1>3, <1>4, <1>6, <1>7, <1>8, <1>10
<1> QED BY <1>1, <1>9, <1>10

-----------------------------------------------------------------------------
(* What the engine has received is numbered in order, not of the future,   *)
(* and carries the fingerprint of a signal.                                *)
Arrivals ==
  /\ IsFiniteSet(accepted)
  /\ \A e \in accepted \cup suppressed :
       /\ e.id \in 1..ingested
       /\ e.receivedAt \in 0..now
       /\ Fingerprint(e) \in Fingerprints

(* A round is recorded with what was ingested by then.                     *)
RoundsRecorded ==
  \A r \in 1..Len(rounds) : rounds[r].at \in 0..now /\ rounds[r].upTo \in 0..ingested

TypesInv == EngineTypeOK /\ Arrivals /\ RoundsRecorded

(* The event an Ingest receives.                                           *)
LEMMA EventReceived ==
  ASSUME TypesInv, NEW signal \in Signals, NEW lag \in Lags, ingested < MaxIngest
  PROVE  LET event == TimedEvent(signal, lag)
         IN  /\ event \in Events
             /\ event.id = ingested + 1
             /\ event.receivedAt = now
             /\ Fingerprint(event) \in Fingerprints
<1> DEFINE event == TimedEvent(signal, lag)
<1>1. /\ now \in 0..MaxNow /\ ingested \in 0..MaxIngest /\ lag \in Nat
      /\ MaxNow \in Nat /\ MaxIngest \in Nat
  BY EngineAssumption DEF TypesInv, EngineTypeOK
<1>2. ingested + 1 \in 1..MaxIngest /\ now - lag \in Int
  BY <1>1
<1>3. /\ event.id = ingested + 1 /\ event.receivedAt = now
      /\ event.module = signal.module /\ event.type = signal.type /\ event.place = signal.place
  BY DEF TimedEvent
<1>4. Fingerprint(event) = Fingerprint(signal)
  BY <1>3 DEF Fingerprint
<1>5. Fingerprint(event) \in Fingerprints
  BY <1>4 DEF Fingerprints
<1>6. event \in Events
  BY <1>1, <1>2 DEF Events, TimedEvent
<1> QED BY <1>3, <1>5, <1>6

(* What a Correlate finds: one incident for each place with two modules.   *)
LEMMA IncidentsFound ==
  ASSUME TypesInv, Correlate
  PROVE  LET window == InWindow(events)
         IN  /\ \A i \in incidents' \ incidents :
                  \E place \in CorrelatedPlaces(window) :
                    /\ i.round = Len(rounds) + 1
                    /\ i.at = now
                    /\ i.place = place
                    /\ i.events = GroupOf(window, place)
                    /\ i.score = CalculateConfidence(i.events, MatchedAttributes(i.place))
                    /\ i.action \in {"none", "executed", "failed"}
             /\ \A place \in CorrelatedPlaces(window) :
                  \E i \in incidents' : /\ i.round = Len(rounds) + 1
                                        /\ i.events = GroupOf(window, place)
             /\ incidents \subseteq incidents'
             /\ \A i \in alerts' : i \in alerts \/ i \in incidents'
<1> DEFINE window == InWindow(events)
<1>1. PICK failing \in SUBSET CorrelatedPlaces(window) :
        LET found == {Incident(window, place, failing) : place \in CorrelatedPlaces(window)}
        IN  /\ incidents' = incidents \cup found
            /\ alerts' = alerts \cup {i \in found : i.action = "failed"}
  BY DEF Correlate
<1> DEFINE found == {Incident(window, place, failing) : place \in CorrelatedPlaces(window)}
<1>2. incidents' = incidents \cup found /\ alerts' = alerts \cup {i \in found : i.action = "failed"}
  BY <1>1
<1>3. ASSUME NEW place
      PROVE  LET i == Incident(window, place, failing)
             IN  /\ i.round = Len(rounds) + 1
                 /\ i.at = now
                 /\ i.place = place
                 /\ i.events = GroupOf(window, place)
                 /\ i.score = CalculateConfidence(i.events, MatchedAttributes(i.place))
                 /\ i.action \in {"none", "executed", "failed"}
  BY DEF Incident
<1>4. \A i \in incidents' \ incidents :
        \E place \in CorrelatedPlaces(window) : i = Incident(window, place, failing)
  BY <1>2
<1>5. \A i \in incidents' \ incidents :
        \E place \in CorrelatedPlaces(window) :
          /\ i.round = Len(rounds) + 1
          /\ i.at = now
          /\ i.place = place
          /\ i.events = GroupOf(window, place)
          /\ i.score = CalculateConfidence(i.events, MatchedAttributes(i.place))
          /\ i.action \in {"none", "executed", "failed"}
  BY <1>3, <1>4
<1>6. \A place \in CorrelatedPlaces(window) :
        \E i \in incidents' : i.round = Len(rounds) + 1 /\ i.events = GroupOf(window, place)
  <2> TAKE place \in CorrelatedPlaces(window)
  <2>1. Incident(window, place, failing) \in incidents'
    BY <1>2
  <2> QED BY <1>3, <2>1
<1>7. incidents \subseteq incidents' /\ \A i \in alerts' : i \in alerts \/ i \in incidents'
  BY <1>2
<1> QED BY <1>5, <1>6, <1>7

(* The group of a place is made of accepted events of that place, and of   *)
(* at least two modules when the place is correlated.                      *)
LEMMA GroupsAre ==
  ASSUME TypesInv, NEW place \in CorrelatedPlaces(InWindow(events))
  PROVE  LET group == GroupOf(InWindow(events), place)
         IN  /\ group \subseteq accepted
             /\ IsFiniteSet(group)
             /\ \A e \in group : e.place = place /\ e.receivedAt \in 0..now
                                 /\ now - TimeWindow <= e.receivedAt
             /\ \E a, b \in group : a.module # b.module
<1> DEFINE group == GroupOf(InWindow(events), place)
<1>1. group \subseteq events /\ events \subseteq accepted
  BY DEF GroupOf, InWindow, TypesInv, EngineTypeOK
<1>2. \A e \in group : e.receivedAt \in 0..now
  BY <1>1 DEF TypesInv, Arrivals
<1>3. now \in Nat /\ TimeWindow \in Nat
  BY EngineAssumption DEF TypesInv, EngineTypeOK
<1>4. \A e \in group : e.place = place /\ now - TimeWindow <= e.receivedAt
  BY <1>2, <1>3 DEF GroupOf, InWindow
<1>5. group \in SUBSET accepted
  BY <1>1
<1>6. IsFiniteSet(group)
  BY <1>5, FS_Subset DEF TypesInv, Arrivals
<1>7. Cardinality(ModulesOf(group)) >= 2
  BY DEF CorrelatedPlaces
<1>8. PICK m, n \in ModulesOf(group) : m # n
  BY <1>6, <1>7, ModulesFinite, TwoElements
<1>9. \E a, b \in group : a.module # b.module
  BY <1>8 DEF ModulesOf
<1> QED BY <1>2, <1>4, <1>5, <1>6, <1>9

(* The risks of events are numbers.                                        *)
LEMMA RisksAreNumbers ==
  ASSUME NEW group, group \subseteq Events
  PROVE  \A e \in group : e.risk \in Int
<1>1. \A e \in group : \E s \in Signals : e.risk = s.risk
  BY DEF Events
<1> QED BY <1>1, EngineAssumption

(* An event is stored with the time it came.                                *)
LEMMA TypesIngest ==
  ASSUME TypesInv, NEW signal \in Signals, NEW lag \in Lags, Ingest(signal, lag)
  PROVE  TypesInv'
<1> DEFINE event == TimedEvent(signal, lag)
<1>1. /\ ingested < MaxIngest /\ ingested' = ingested + 1
      /\ UNCHANGED <<now, incidents, rounds, alerts>>
  BY DEF Ingest
<1>2. /\ event \in Events /\ event.id = ingested + 1 /\ event.receivedAt = now
      /\ Fingerprint(event) \in Fingerprints
  BY <1>1, EventReceived
<1>3. \/ /\ suppressed' = suppressed \cup {event}
         /\ UNCHANGED <<events, cache, accepted>>
      \/ /\ events' = InWindow(events \cup {event})
         /\ cache' = PrunedCache(
              IF DedupWindow > 0 THEN [cache EXCEPT ![Fingerprint(event)] = now] ELSE cache)
         /\ accepted' = accepted \cup {event}
         /\ UNCHANGED suppressed
  BY DEF Ingest
<1> HIDE DEF event
<1> USE DEF TypesInv
<1>4. /\ now \in 0..MaxNow /\ ingested \in 0..MaxIngest /\ MaxNow \in Nat /\ MaxIngest \in Nat
      /\ ingested' \in 0..MaxIngest
  BY <1>1, EngineAssumption DEF EngineTypeOK
<1>5. cache' \in [Fingerprints -> (0..MaxNow) \cup {Never}]
  <2>1. cache \in [Fingerprints -> (0..MaxNow) \cup {Never}]
    BY DEF EngineTypeOK
  <2>2. CASE cache' = cache
    BY <2>1, <2>2
  <2>3. CASE cache' = PrunedCache(
              IF DedupWindow > 0 THEN [cache EXCEPT ![Fingerprint(event)] = now] ELSE cache)
    <3> DEFINE entries ==
          IF DedupWindow > 0 THEN [cache EXCEPT ![Fingerprint(event)] = now] ELSE cache
    <3>1. entries \in [Fingerprints -> (0..MaxNow) \cup {Never}]
      BY <1>4, <2>1
    <3> HIDE DEF entries
    <3>2. cache' = PrunedCache(entries)
      BY <2>3 DEF entries
    <3> QED BY <3>1, <3>2 DEF PrunedCache
  <2> QED BY <1>3, <2>2, <2>3
<1>6. /\ events' \in SUBSET Events /\ accepted' \in SUBSET Events /\ suppressed' \in SUBSET Events
      /\ events' \subseteq accepted' /\ accepted \subseteq accepted'
  BY <1>2, <1>3 DEF EngineTypeOK, InWindow
<1>7. EngineTypeOK'
  <2>1. \A i \in incidents' : i.events \subseteq accepted'
    BY <1>1, <1>6 DEF EngineTypeOK
  <2> QED BY <1>1, <1>4, <1>5, <1>6, <2>1 DEF EngineTypeOK
<1>8. Arrivals'
  <2>1. IsFiniteSet(accepted')
    BY <1>3, FS_AddElement DEF Arrivals
  <2>2. accepted' \cup suppressed' = (accepted \cup suppressed) \cup {event}
    BY <1>3
  <2>3. \A e \in accepted \cup suppressed : e.id \in 1..ingested /\ e.receivedAt \in 0..now
          /\ Fingerprint(e) \in Fingerprints
    BY DEF Arrivals
  <2>4. now' = now
    BY <1>1
  <2> QED BY <1>1, <1>2, <1>4, <2>1, <2>2, <2>3, <2>4 DEF Arrivals, Fingerprint
<1>9. RoundsRecorded'
  BY <1>1, <1>4 DEF RoundsRecorded
<1> QED BY <1>7, <1>8, <1>9

(* A round records the window and what became of it.                        *)
LEMMA TypesCorrelate ==
  ASSUME TypesInv, Correlate
  PROVE  TypesInv'
<1> DEFINE window == InWindow(events)
<1>1. /\ rounds' = Append(rounds, [at |-> now, upTo |-> ingested])
      /\ events' = InWindow(events)
      /\ UNCHANGED <<now, cache, ingested, accepted, suppressed>>
  BY DEF Correlate
<1>2. /\ now \in 0..MaxNow /\ ingested \in 0..MaxIngest /\ MaxNow \in Nat /\ MaxIngest \in Nat
      /\ rounds \in Seq([at : 0..MaxNow, upTo : 0..MaxIngest])
  BY EngineAssumption DEF TypesInv, EngineTypeOK
<1>3. rounds' \in Seq([at : 0..MaxNow, upTo : 0..MaxIngest])
  BY <1>1, <1>2
<1>4. \A i \in incidents' : /\ i.at \in 0..MaxNow
                            /\ i.score \in 0..100
                            /\ i.action \in {"none", "executed", "failed"}
                            /\ i.events \subseteq accepted
  <2> SUFFICES ASSUME NEW i \in incidents', i \notin incidents
               PROVE  /\ i.at \in 0..MaxNow
                      /\ i.score \in 0..100
                      /\ i.action \in {"none", "executed", "failed"}
                      /\ i.events \subseteq accepted
    BY DEF TypesInv, EngineTypeOK
  <2>1. PICK place \in CorrelatedPlaces(window) :
          /\ i.at = now
          /\ i.events = GroupOf(window, place)
          /\ i.score = CalculateConfidence(i.events, MatchedAttributes(i.place))
          /\ i.action \in {"none", "executed", "failed"}
    BY IncidentsFound
  <2>2. i.events \subseteq accepted /\ IsFiniteSet(i.events)
    BY <2>1, GroupsAre
  <2>3. i.events \subseteq Events
    BY <2>2 DEF TypesInv, EngineTypeOK
  <2>4. \A e \in i.events : e.risk \in Int
    BY <2>3, RisksAreNumbers
  <2>5. i.score \in 0..100
    BY <2>1, <2>2, <2>4, ConfidenceBounded
  <2> QED BY <1>2, <2>1, <2>2, <2>5
<1>5. alerts' \subseteq incidents'
  <2>1. \A i \in alerts : i \in incidents'
    BY IncidentsFound DEF TypesInv, EngineTypeOK
  <2>2. \A i \in alerts' : i \in alerts \/ i \in incidents'
    BY IncidentsFound
  <2> QED BY <2>1, <2>2
<1>6. EngineTypeOK'
  BY <1>1, <1>3, <1>4, <1>5 DEF TypesInv, EngineTypeOK, InWindow
<1>7. Arrivals'
  BY <1>1 DEF TypesInv, Arrivals, Fingerprint
<1>8. RoundsRecorded'
  <2>1. Len(rounds') = Len(rounds) + 1 /\ rounds'[Len(rounds) + 1] = [at |-> now, upTo |-> ingested]
        /\ \A r \in 1..Len(rounds) : rounds'[r] = rounds[r]
    BY <1>1, <1>2
  <2>2. Len(rounds) \in Nat
    BY <1>2
  <2> QED BY <1>1, <1>2, <2>1, <2>2 DEF TypesInv, RoundsRecorded
<1> QED BY <1>6, <1>7, <1>8 DEF TypesInv

(* Time passes.                                                             *)
LEMMA TypesTick ==
  ASSUME TypesInv, Tick
  PROVE  TypesInv'
<1>1. /\ now < MaxNow /\ now' = now + 1
      /\ UNCHANGED <<events, cache, incidents, ingested, accepted, suppressed, rounds, alerts>>
  BY DEF Tick
<1>2. now \in 0..MaxNow /\ MaxNow \in Nat /\ now' \in 0..MaxNow /\ 0..now \subseteq 0..now'
  BY <1>1, EngineAssumption DEF TypesInv, EngineTypeOK
<1>3. EngineTypeOK'
  BY <1>1, <1>2 DEF TypesInv, EngineTypeOK
<1>4. Arrivals'
  BY <1>1, <1>2 DEF TypesInv, Arrivals, Fingerprint
<1>5. RoundsRecorded'
  BY <1>1, <1>2 DEF TypesInv, RoundsRecorded
<1> QED BY <1>3, <1>4, <1>5 DEF TypesInv

(* Nothing happens.                                                         *)
LEMMA TypesStutter ==
  ASSUME TypesInv, UNCHANGED engineVars
  PROVE  TypesInv'
BY DEF TypesInv, engineVars, EngineTypeOK, Arrivals, RoundsRecorded, Fingerprint

(* The engine starts empty.                                                 *)
LEMMA TypesInit ==
  ASSUME EngineInit
  PROVE  TypesInv
<1>1. IsFiniteSet({})
  BY FS_EmptySet
<1>2. EngineTypeOK
  BY EngineAssumption DEF EngineInit, EngineTypeOK, Never
<1> QED BY <1>1, <1>2 DEF EngineInit, TypesInv, Arrivals, RoundsRecorded

(* Events, rounds and incidents keep their types, and what arrived is on  *)
(* record. (correlation/engine.go Ingest, Correlate)                        *)
THEOREM EngineTypesHold == EngineSpec => []TypesInv
<1>1. TypesInv /\ [EngineNext]_engineVars => TypesInv'
  BY TypesIngest, TypesCorrelate, TypesTick, TypesStutter DEF EngineNext
<1> QED BY <1>1, TypesInit, PTL DEF EngineSpec

(* The engine is type-correct; a confidence is between 0 and 100. *)
THEOREM EngineTypeCorrect == EngineSpec => []EngineTypeOK
<1>1. TypesInv => EngineTypeOK
  BY DEF TypesInv
<1> QED BY <1>1, EngineTypesHold, PTL

-----------------------------------------------------------------------------
(* Incidents: what they are made of, and how sure they are                  *)

Scored ==
  \A i \in incidents : i.score = CalculateConfidence(i.events, MatchedAttributes(i.place))

(* An incident is made of received events of two modules, at one place and *)
(* in one time window. (engine.go Correlate, pruneEventsLocked)            *)
THEOREM IncidentsCrossModules == EngineSpec => []IncidentsAreCrossModule
<1>1. EngineInit => IncidentsAreCrossModule
  BY DEF EngineInit, IncidentsAreCrossModule
<1>2. TypesInv /\ IncidentsAreCrossModule /\ [EngineNext]_engineVars => IncidentsAreCrossModule'
  <2> SUFFICES ASSUME TypesInv, IncidentsAreCrossModule, [EngineNext]_engineVars
               PROVE  IncidentsAreCrossModule'
    OBVIOUS
  <2>1. CASE Correlate
    <3> SUFFICES ASSUME NEW i \in incidents', i \notin incidents
                 PROVE  /\ \E a, b \in i.events : a.module # b.module
                        /\ \A e \in i.events :
                             /\ e.place = i.place
                             /\ i.at - TimeWindow <= e.receivedAt /\ e.receivedAt <= i.at
      BY DEF IncidentsAreCrossModule
    <3>1. PICK place \in CorrelatedPlaces(InWindow(events)) :
            /\ i.at = now
            /\ i.place = place
            /\ i.events = GroupOf(InWindow(events), place)
      BY <2>1, IncidentsFound
    <3>2. /\ \E a, b \in i.events : a.module # b.module
          /\ \A e \in i.events : e.place = place /\ e.receivedAt \in 0..now
                                 /\ now - TimeWindow <= e.receivedAt
      BY <3>1, GroupsAre
    <3>3. now \in Nat
      BY EngineAssumption DEF TypesInv, EngineTypeOK
    <3> QED BY <3>1, <3>2, <3>3
  <2>2. CASE UNCHANGED incidents
    BY <2>2 DEF IncidentsAreCrossModule
  <2> QED BY <2>1, <2>2 DEF EngineNext, Ingest, Tick, engineVars
<1> QED BY <1>1, <1>2, EngineTypesHold, PTL DEF EngineSpec

(* One more module never lowers the confidence of what was reported.       *)
(* (scoring.go CalculateConfidence)                                        *)
THEOREM EvidenceRaisesConfidence == EngineSpec => []AnotherModuleRaisesConfidence
<1>1. EngineInit => Scored
  BY DEF EngineInit, Scored
<1>2. TypesInv /\ Scored /\ [EngineNext]_engineVars => Scored'
  <2> SUFFICES ASSUME TypesInv, Scored, [EngineNext]_engineVars
               PROVE  Scored'
    OBVIOUS
  <2>1. CASE Correlate
    <3>1. \A i \in incidents' : i.score = CalculateConfidence(i.events, MatchedAttributes(i.place))
      BY <2>1, IncidentsFound DEF Scored
    <3> QED BY <3>1 DEF Scored
  <2>2. CASE UNCHANGED incidents
    BY <2>2 DEF Scored
  <2> QED BY <2>1, <2>2 DEF EngineNext, Ingest, Tick, engineVars
<1>3. TypesInv /\ Scored /\ IncidentsAreCrossModule => AnotherModuleRaisesConfidence
  <2> SUFFICES ASSUME TypesInv, Scored, IncidentsAreCrossModule,
                      NEW i \in incidents, NEW j \in incidents,
                      i.events \subseteq j.events,
                      ModulesOf(i.events) # ModulesOf(j.events)
               PROVE  i.score <= j.score
    BY DEF AnotherModuleRaisesConfidence
  <2>1. i.place = j.place
    <3>1. PICK a \in i.events : TRUE
      BY DEF IncidentsAreCrossModule
    <3> QED BY <3>1 DEF IncidentsAreCrossModule
  <2>2. j.events \in SUBSET accepted /\ j.events \subseteq Events
    BY DEF TypesInv, EngineTypeOK
  <2>3. IsFiniteSet(j.events) /\ \A e \in j.events : e.risk \in Int
    BY <2>2, RisksAreNumbers, FS_Subset DEF TypesInv, Arrivals
  <2>4. CalculateConfidence(i.events, MatchedAttributes(j.place))
          <= CalculateConfidence(j.events, MatchedAttributes(j.place))
    BY <2>3, MoreModulesMoreConfidence
  <2> QED BY <2>1, <2>4 DEF Scored
<1> QED BY <1>1, <1>2, <1>3, EngineTypesHold, IncidentsCrossModules, PTL DEF EngineSpec

-----------------------------------------------------------------------------
(* No pair of events is missed                                              *)

(* What was accepted and is not too old is in the window.                  *)
WindowKept == \A e \in accepted : e.receivedAt >= now - TimeWindow => e \in events

(* Correlate drops only what is too old.                                    *)
LEMMA WindowStep ==
  ASSUME TypesInv, WindowKept, [EngineNext]_engineVars
  PROVE  WindowKept'
<1>1. now \in Nat /\ TimeWindow \in Nat /\ \A e \in accepted : e.receivedAt \in 0..now
  BY EngineAssumption DEF TypesInv, EngineTypeOK, Arrivals
<1>2. ASSUME NEW signal \in Signals, NEW lag \in Lags, Ingest(signal, lag)
      PROVE  WindowKept'
  <2> DEFINE event == TimedEvent(signal, lag)
  <2>1. /\ now' = now
        /\ \/ UNCHANGED <<events, accepted>>
           \/ events' = InWindow(events \cup {event}) /\ accepted' = accepted \cup {event}
    BY <1>2 DEF Ingest
  <2> HIDE DEF event
  <2> QED BY <2>1 DEF WindowKept, InWindow
<1>3. CASE Correlate
  <2>1. events' = InWindow(events) /\ UNCHANGED <<now, accepted>>
    BY <1>3 DEF Correlate
  <2> QED BY <2>1 DEF WindowKept, InWindow
<1>4. CASE Tick
  <2>1. now' = now + 1 /\ UNCHANGED <<events, accepted>>
    BY <1>4 DEF Tick
  <2> QED BY <1>1, <2>1 DEF WindowKept
<1>5. CASE UNCHANGED engineVars
  BY <1>5 DEF engineVars, WindowKept
<1> QED BY <1>2, <1>3, <1>4, <1>5 DEF EngineNext

(* A pair that a new round can correlate is in an incident of that round.  *)
LEMMA PairFound ==
  ASSUME TypesInv, WindowKept, Correlate,
         NEW a \in accepted, NEW b \in accepted,
         a.module # b.module, a.place = b.place,
         a.receivedAt >= now - TimeWindow, b.receivedAt >= now - TimeWindow
  PROVE  \E i \in incidents' : i.round = Len(rounds) + 1 /\ a \in i.events /\ b \in i.events
<1> DEFINE window == InWindow(events)
           group == GroupOf(window, a.place)
<1>1. a \in group /\ b \in group
  BY DEF WindowKept, InWindow, GroupOf
<1>2. group \in SUBSET accepted /\ a.place \in {e.place : e \in window}
  BY <1>1 DEF GroupOf, InWindow, TypesInv, EngineTypeOK
<1>3. IsFiniteSet(ModulesOf(group))
  BY <1>2, FS_Subset, ModulesFinite DEF TypesInv, Arrivals
<1>4. a.module \in ModulesOf(group) /\ b.module \in ModulesOf(group)
  BY <1>1 DEF ModulesOf
<1>5. Cardinality(ModulesOf(group)) >= 2
  BY <1>3, <1>4, AtLeastTwo
<1>6. a.place \in CorrelatedPlaces(window)
  BY <1>2, <1>5 DEF CorrelatedPlaces
<1>7. PICK i \in incidents' : i.round = Len(rounds) + 1 /\ i.events = group
  BY <1>6, IncidentsFound
<1> QED BY <1>1, <1>7

(* Two events of different modules at one place, both received in the time *)
(* window before a Correlate, are together in an incident of that call.    *)
(* (engine.go Ingest, Correlate)                                           *)
THEOREM PairsAreFound == EngineSpec => []NoPairMissed
<1>1. EngineInit => WindowKept /\ NoPairMissed
  BY DEF EngineInit, WindowKept, NoPairMissed
<1>2. TypesInv /\ WindowKept /\ NoPairMissed /\ [EngineNext]_engineVars => NoPairMissed'
  <2> SUFFICES ASSUME TypesInv, WindowKept, NoPairMissed, [EngineNext]_engineVars
               PROVE  NoPairMissed'
    OBVIOUS
  <2>1. rounds \in Seq([at : 0..MaxNow, upTo : 0..MaxIngest]) /\ Len(rounds) \in Nat
    BY DEF TypesInv, EngineTypeOK
  <2>2. ASSUME NEW signal \in Signals, NEW lag \in Lags, Ingest(signal, lag)
        PROVE  NoPairMissed'
    <3> DEFINE event == TimedEvent(signal, lag)
    <3>1. ingested < MaxIngest /\ UNCHANGED <<incidents, rounds>>
      BY <2>2 DEF Ingest
    <3>2. accepted' \subseteq accepted \cup {event}
      BY <2>2 DEF Ingest
    <3>3. event.id = ingested + 1
      BY <3>1, EventReceived
    <3>4. ingested \in Nat /\ \A r \in 1..Len(rounds) : rounds[r].upTo \in 0..ingested
      BY EngineAssumption DEF TypesInv, EngineTypeOK, RoundsRecorded
    <3> HIDE DEF event
    <3>5. \A r \in 1..Len(rounds) : ~(event.id <= rounds[r].upTo)
      BY <3>3, <3>4
    <3> QED BY <3>1, <3>2, <3>5 DEF NoPairMissed, Correlatable
  <2>3. CASE Correlate
    <3>1. /\ rounds' = Append(rounds, [at |-> now, upTo |-> ingested])
          /\ UNCHANGED <<now, accepted>>
      BY <2>3 DEF Correlate
    <3>2. /\ Len(rounds') = Len(rounds) + 1
          /\ rounds'[Len(rounds) + 1] = [at |-> now, upTo |-> ingested]
          /\ \A r \in 1..Len(rounds) : rounds'[r] = rounds[r]
      BY <2>1, <3>1
    <3>3. incidents \subseteq incidents'
      BY <2>3, IncidentsFound
    <3> SUFFICES ASSUME NEW a \in accepted, NEW b \in accepted, NEW r \in 1..Len(rounds'),
                        Correlatable(a, b, rounds'[r])
                 PROVE  \E i \in incidents' : i.round = r /\ a \in i.events /\ b \in i.events
      BY <3>1 DEF NoPairMissed, Correlatable
    <3>4. CASE r \in 1..Len(rounds)
      BY <3>2, <3>3, <3>4 DEF NoPairMissed
    <3>5. CASE r = Len(rounds) + 1
      <4>1. /\ a.module # b.module /\ a.place = b.place
            /\ a.receivedAt >= now - TimeWindow /\ b.receivedAt >= now - TimeWindow
        BY <3>2, <3>5 DEF Correlatable
      <4> QED BY <2>3, <3>5, <4>1, PairFound
    <3> QED BY <2>1, <3>2, <3>4, <3>5
  <2>4. CASE UNCHANGED <<accepted, rounds, incidents>>
    BY <2>4 DEF NoPairMissed, Correlatable
  <2> QED BY <2>2, <2>3, <2>4 DEF EngineNext, Tick, engineVars
<1>3. TypesInv /\ WindowKept /\ [EngineNext]_engineVars => WindowKept'
  BY WindowStep
<1> QED BY <1>1, <1>2, <1>3, EngineTypesHold, PTL DEF EngineSpec

-----------------------------------------------------------------------------
(* One event per dedup window                                               *)

(* The cache knows of each accepted event that may still have duplicates,  *)
(* and only of accepted events.                                            *)
CacheCurrent ==
  /\ \A a \in accepted :
       DedupWindow > 0 /\ now - a.receivedAt < DedupWindow
       => a.receivedAt <= cache[Fingerprint(a)]
  /\ \A f \in Fingerprints :
       cache[f] # Never => \E a \in accepted : Fingerprint(a) = f /\ a.receivedAt = cache[f]

(* The cache forgets an event only when its window is over.                 *)
LEMMA CacheStep ==
  ASSUME TypesInv, CacheCurrent, [EngineNext]_engineVars
  PROVE  CacheCurrent'
<1>1. /\ now \in Nat /\ DedupWindow \in Nat
      /\ \A a \in accepted : a.receivedAt \in 0..now /\ Fingerprint(a) \in Fingerprints
      /\ cache \in [Fingerprints -> Nat \cup {Never}]
  BY EngineAssumption DEF TypesInv, EngineTypeOK, Arrivals
<1>2. ASSUME NEW signal \in Signals, NEW lag \in Lags, Ingest(signal, lag)
      PROVE  CacheCurrent'
  <2> DEFINE event == TimedEvent(signal, lag)
             entries == IF DedupWindow > 0
                        THEN [cache EXCEPT ![Fingerprint(event)] = now] ELSE cache
  <2>1. /\ now' = now /\ ingested < MaxIngest
        /\ \/ UNCHANGED <<cache, accepted>>
           \/ cache' = PrunedCache(entries) /\ accepted' = accepted \cup {event}
    BY <1>2 DEF Ingest
  <2>2. event.receivedAt = now /\ Fingerprint(event) \in Fingerprints
    BY <2>1, EventReceived
  <2>3. CASE UNCHANGED <<cache, accepted>>
    BY <2>1, <2>3 DEF CacheCurrent, Fingerprint
  <2>4. CASE cache' = PrunedCache(entries) /\ accepted' = accepted \cup {event}
    <3>1. /\ entries \in [Fingerprints -> Nat \cup {Never}]
          /\ DedupWindow > 0 => entries[Fingerprint(event)] = now
          /\ \A f \in Fingerprints : f # Fingerprint(event) => entries[f] = cache[f]
          /\ DedupWindow = 0 => entries = cache
      BY <1>1, <2>2
    <3> HIDE DEF event, entries
    <3>2. \A f \in Fingerprints : 
            /\ cache'[f] = IF DedupWindow > 0 /\ entries[f] < now - DedupWindow
                           THEN Never ELSE entries[f]
      BY <2>4 DEF PrunedCache
    <3>3. ASSUME NEW a \in accepted', DedupWindow > 0, now - a.receivedAt < DedupWindow
          PROVE  a.receivedAt <= cache'[Fingerprint(a)]
      <4>1. Fingerprint(a) \in Fingerprints /\ a.receivedAt \in 0..now
        BY <1>1, <2>2, <2>4
      <4>2. a.receivedAt <= entries[Fingerprint(a)] /\ entries[Fingerprint(a)] \in Nat
        <5>1. CASE Fingerprint(a) = Fingerprint(event)
          BY <1>1, <3>1, <3>3, <4>1, <5>1
        <5>2. CASE Fingerprint(a) # Fingerprint(event)
          <6>1. a \in accepted
            BY <2>4, <5>2
          <6>2. a.receivedAt <= cache[Fingerprint(a)]
            BY <3>3, <6>1 DEF CacheCurrent
          <6> QED BY <1>1, <3>1, <4>1, <5>2, <6>2 DEF Never
        <5> QED BY <5>1, <5>2
      <4> QED BY <1>1, <3>2, <3>3, <4>1, <4>2
    <3>4. ASSUME NEW f \in Fingerprints, cache'[f] # Never
          PROVE  \E a \in accepted' : Fingerprint(a) = f /\ a.receivedAt = cache'[f]
      <4>1. cache'[f] = entries[f]
        BY <3>2, <3>4
      <4>2. CASE f = Fingerprint(event) /\ DedupWindow > 0
        BY <2>2, <2>4, <3>1, <4>1, <4>2
      <4>3. CASE f # Fingerprint(event) \/ DedupWindow = 0
        <5>1. entries[f] = cache[f]
          BY <3>1, <4>3
        <5> QED BY <2>4, <3>4, <4>1, <5>1 DEF CacheCurrent
      <4> QED BY <1>1, <4>2, <4>3
    <3> QED BY <2>1, <3>3, <3>4 DEF CacheCurrent, Fingerprint, Fingerprints
  <2> QED BY <2>1, <2>3, <2>4
<1>3. CASE Tick
  <2>1. now' = now + 1 /\ UNCHANGED <<cache, accepted>>
    BY <1>3 DEF Tick
  <2> QED BY <1>1, <2>1 DEF CacheCurrent, Fingerprint
<1>4. CASE UNCHANGED <<now, cache, accepted>>
  BY <1>4 DEF CacheCurrent, Fingerprint
<1> QED BY <1>2, <1>3, <1>4 DEF EngineNext, Correlate, engineVars

(* An event that is accepted has no younger twin.                           *)
LEMMA OneEventStep ==
  ASSUME TypesInv, CacheCurrent, OnePerDedupWindow, [EngineNext]_engineVars
  PROVE  OnePerDedupWindow'
<1>1. /\ now \in Nat /\ DedupWindow \in Nat /\ ingested \in Nat
      /\ \A a \in accepted : /\ a.id \in 1..ingested /\ a.receivedAt \in 0..now
                             /\ Fingerprint(a) \in Fingerprints
      /\ cache \in [Fingerprints -> Nat \cup {Never}]
  BY EngineAssumption DEF TypesInv, EngineTypeOK, Arrivals
<1>2. ASSUME NEW signal \in Signals, NEW lag \in Lags, Ingest(signal, lag)
      PROVE  OnePerDedupWindow'
  <2> DEFINE event == TimedEvent(signal, lag)
  <2>1. ingested < MaxIngest
    BY <1>2 DEF Ingest
  <2>2. /\ event.id = ingested + 1 /\ event.receivedAt = now
        /\ Fingerprint(event) \in Fingerprints
    BY <2>1, EventReceived
  <2>3. \/ /\ IsDuplicate(event)
           /\ suppressed' = suppressed \cup {event} /\ accepted' = accepted
        \/ /\ ~IsDuplicate(event)
           /\ accepted' = accepted \cup {event} /\ suppressed' = suppressed
    BY <1>2 DEF Ingest
  <2> HIDE DEF event
  <2>4. CASE IsDuplicate(event) /\ suppressed' = suppressed \cup {event} /\ accepted' = accepted
    <3>1. cache[Fingerprint(event)] # Never /\ now - cache[Fingerprint(event)] < DedupWindow
      BY <2>4 DEF IsDuplicate
    <3>2. PICK a \in accepted : /\ Fingerprint(a) = Fingerprint(event)
                                /\ a.receivedAt = cache[Fingerprint(event)]
      BY <2>2, <3>1 DEF CacheCurrent
    <3>3. a.id < event.id /\ event.receivedAt - a.receivedAt < DedupWindow
      BY <1>1, <2>2, <3>1, <3>2
    <3> QED BY <2>4, <3>2, <3>3 DEF OnePerDedupWindow, Fingerprint
  <2>5. CASE ~IsDuplicate(event) /\ accepted' = accepted \cup {event} /\ suppressed' = suppressed
    <3>1. ASSUME NEW a \in accepted, Fingerprint(a) = Fingerprint(event)
          PROVE  event.receivedAt - a.receivedAt >= DedupWindow
      <4>1. CASE DedupWindow = 0
        BY <1>1, <2>2, <4>1
      <4>2. CASE DedupWindow > 0 /\ now - a.receivedAt < DedupWindow
        <5>1. a.receivedAt <= cache[Fingerprint(event)]
          BY <3>1, <4>2 DEF CacheCurrent
        <5>2. cache[Fingerprint(event)] \in Nat \cup {Never} /\ a.receivedAt \in Nat
          BY <1>1, <2>2
        <5>3. cache[Fingerprint(event)] # Never
          BY <5>1, <5>2 DEF Never
        <5>4. ~(now - cache[Fingerprint(event)] < DedupWindow)
          BY <2>5, <4>2, <5>3 DEF IsDuplicate
        <5> QED BY <1>1, <4>2, <5>1, <5>2, <5>3, <5>4
      <4> QED BY <1>1, <2>2, <4>1, <4>2
    <3>2. event.id \in Nat /\ \A a \in accepted : a.id \in Nat /\ ~(event.id < a.id)
      BY <1>1, <2>2
    <3>3. ~(event.id < event.id)
      BY <3>2
    <3>4. ASSUME NEW a \in accepted', NEW b \in accepted',
                 a.id < b.id, Fingerprint(a) = Fingerprint(b)
          PROVE  b.receivedAt - a.receivedAt >= DedupWindow
      <4>1. a \in accepted
        BY <2>5, <3>2, <3>3, <3>4
      <4>2. CASE b \in accepted
        BY <3>4, <4>1, <4>2 DEF OnePerDedupWindow
      <4>3. CASE b = event
        BY <3>1, <3>4, <4>1, <4>3
      <4> QED BY <2>5, <4>2, <4>3
    <3>5. \A s \in suppressed' : \E a \in accepted' :
            /\ a.id < s.id /\ Fingerprint(a) = Fingerprint(s)
            /\ s.receivedAt - a.receivedAt < DedupWindow
      BY <2>5 DEF OnePerDedupWindow
    <3> QED BY <3>4, <3>5 DEF OnePerDedupWindow, Fingerprint
  <2> QED BY <2>3, <2>4, <2>5
<1>3. CASE UNCHANGED <<accepted, suppressed>>
  BY <1>3 DEF OnePerDedupWindow, Fingerprint
<1> QED BY <1>2, <1>3 DEF EngineNext, Correlate, Tick, engineVars

(* Of the events with one module, type and node exactly the first in a     *)
(* dedup window is kept, although the cache is pruned and time passes.     *)
(* (dedup.go IsDuplicate, Prune)                                           *)
THEOREM FirstOfEachWindow == EngineSpec => []OnePerDedupWindow
<1>1. EngineInit => CacheCurrent /\ OnePerDedupWindow
  BY DEF EngineInit, CacheCurrent, OnePerDedupWindow
<1> QED BY <1>1, CacheStep, OneEventStep, EngineTypesHold, PTL DEF EngineSpec

-----------------------------------------------------------------------------
(* Overrides: types                                                          *)

Sent == {"find", "apply", "audit", "answered", "notfound"}

(* An override of an action is of one that was found. *)
RequestsOK ==
  \A r \in Requests : request[r].pc \in Sent =>
    /\ request[r].op \in {"approve", "reject"} <=> request[r].target \in Actions
    /\ request[r].pc = "find" => request[r].target \in Actions
    /\ request[r].pc \in {"apply", "audit", "answered"} /\ request[r].target \in Actions =>
         outcome[request[r].target] # "absent"

TypeInv == TypeOK /\ RequestsOK

-----------------------------------------------------------------------------
(* Types *)

(* A request that moves on is the same request. *)
LEMMA MovedRequest ==
  ASSUME TypeOK, NEW r \in Requests, NEW pc \in RequestStates
  PROVE  LET new == [request[r] EXCEPT !.pc = pc]
         IN  /\ new \in Records /\ new.pc = pc
             /\ new.op = request[r].op /\ new.target = request[r].target
             /\ new.operator = request[r].operator
             /\ new = [pc |-> pc, op |-> request[r].op, target |-> request[r].target,
                       operator |-> request[r].operator]
BY DEF TypeOK, Records

(* What a handler does to the requests. *)
LEMMA HandlerMoves ==
  ASSUME TypeInv, NEW r \in Requests, Handle(r)
  PROVE  \E pc \in Sent \ {"find"} :
           /\ request' = [request EXCEPT ![r] = [request[r] EXCEPT !.pc = pc]]
           /\ request[r].pc \in {"find", "apply", "audit"}
<1>1. CASE Find(r)
  <2>1. CASE outcome[request[r].target] = "absent"
    BY <1>1, <2>1 DEF Find, TypeInv, TypeOK, Sent
  <2>2. CASE outcome[request[r].target] # "absent"
    BY <1>1, <2>2 DEF Find, TypeInv, TypeOK, Sent
  <2> QED BY <2>1, <2>2
<1>2. CASE Apply(r)
  BY <1>2 DEF Apply, TypeInv, TypeOK, Sent
<1>3. CASE Record(r)
  BY <1>3 DEF Record, TypeInv, TypeOK, Sent
<1> QED BY <1>1, <1>2, <1>3 DEF Handle

(* The entry of a request is an entry. *)
LEMMA EntryIsEntry ==
  ASSUME TypeInv, NEW r \in Requests, request[r].pc = "audit"
  PROVE  /\ Entry(r) \in Entries
         /\ Entry(r).op = request[r].op /\ Entry(r).target = request[r].target
         /\ Entry(r).operator = request[r].operator
<1>1. /\ request[r].op \in Ops /\ request[r].target \in Actions \cup Modules
      /\ request[r].operator \in Operators
  BY DEF TypeInv, TypeOK, Records
<1>2. ModuleFor(request[r].target) \in Modules
  BY <1>1, OverridesAssumption DEF ModuleFor
<1>3. Audited[request[r].op] \in {"approved", "rejected", "paused", "resumed"}
  BY <1>1 DEF Ops, Audited
<1> HIDE DEF Audited, ModuleFor
<1> QED BY <1>1, <1>2, <1>3 DEF Entry, Entries

(* Nothing is sent at first. *)
LEMMA TypeInvInit == Init => TypeInv
BY DEF Init, TypeInv, TypeOK, RequestsOK, Unsent, Records, RequestStates, Ops, Outcomes, Sent

(* An action that is there stays there. *)
LEMMA ActionsStay ==
  ASSUME TypeInv, Next, NEW a \in Actions, outcome[a] # "absent"
  PROVE  outcome'[a] # "absent"
<1>1. ASSUME NEW b \in Actions, NEW result \in {"pending", "success", "failed"},
             AddAction(b, result)
      PROVE  outcome'[a] # "absent"
  BY <1>1 DEF AddAction, TypeInv, TypeOK
<1>2. ASSUME NEW r \in Requests, Overrule(r)
      PROVE  outcome'[a] # "absent"
  BY <1>2 DEF Overrule, Decided, TypeInv, TypeOK
<1> QED BY <1>1, <1>2 DEF Next, Handle, Find, Apply, Record, Send, stores, PauseOrResume

(* Every step keeps the types, and what requests are about. *)
LEMMA TypeInvStep == TypeInv /\ [Next]_vars => TypeInv'
<1> SUFFICES ASSUME TypeInv, [Next]_vars
             PROVE  TypeInv'
  OBVIOUS
<1>1. ASSUME NEW a \in Actions, NEW result \in {"pending", "success", "failed"},
             AddAction(a, result)
      PROVE  TypeInv'
  <2>1. TypeOK'
    BY <1>1 DEF AddAction, TypeInv, TypeOK, Outcomes
  <2>2. RequestsOK'
    BY <1>1 DEF AddAction, TypeInv, TypeOK, RequestsOK
  <2> QED BY <2>1, <2>2 DEF TypeInv
<1>2. ASSUME NEW r \in Requests, NEW op \in Ops, NEW target \in Actions \cup Modules,
             NEW operator \in Operators, Send(r, op, target, operator)
      PROVE  TypeInv'
  <2> DEFINE new == [pc |-> IF target \in Actions THEN "find" ELSE "apply",
                     op |-> op, target |-> target, operator |-> operator]
  <2>1. new \in Records /\ new.pc \in {"find", "apply"}
    BY DEF Records, RequestStates
  <2>2. request' = [request EXCEPT ![r] = new]
    BY <1>2 DEF Send
  <2>3. new.op = op /\ new.target = target /\ new.operator = operator
    OBVIOUS
  <2>4. new.pc = "find" <=> target \in Actions
    OBVIOUS
  <2> HIDE DEF new, Records
  <2>5. TypeOK'
    BY <1>2, <2>1, <2>2, <2>3 DEF Send, stores, TypeInv, TypeOK
  <2>6. RequestsOK'
    BY <1>2, <2>1, <2>2, <2>3, <2>4 DEF Send, stores, TypeInv, TypeOK, RequestsOK
  <2> QED BY <2>5, <2>6 DEF TypeInv
<1>3. ASSUME NEW r \in Requests, Handle(r)
      PROVE  TypeInv'
  <2> PICK pc \in Sent \ {"find"} :
        /\ request' = [request EXCEPT ![r] = [request[r] EXCEPT !.pc = pc]]
        /\ request[r].pc \in {"find", "apply", "audit"}
    BY <1>3, HandlerMoves
  <2> DEFINE new == [request[r] EXCEPT !.pc = pc]
  <2>1. /\ new \in Records /\ new.pc = pc
        /\ new.op = request[r].op /\ new.target = request[r].target
        /\ new.operator = request[r].operator
    <3>1. TypeOK /\ pc \in RequestStates
      BY DEF TypeInv, Sent, RequestStates
    <3> QED BY <3>1, MovedRequest
  <2>2. request' = [request EXCEPT ![r] = new] /\ request \in [Requests -> Records]
    BY DEF TypeInv, TypeOK
  <2>3. request'[r] = new /\ \A s \in Requests \ {r} : request'[s] = request[s]
    BY <2>2
  <2>4. request' \in [Requests -> Records]
    <3> HIDE DEF new, Records
    <3> QED BY <2>1, <2>2
  <2> HIDE DEF new, Records
  <2>5. \A s \in Requests : request'[s].pc # "unsent" =>
          request'[s].target \in Actions \cup Modules /\ request'[s].operator \in Operators
    BY <2>1, <2>3 DEF TypeInv, TypeOK
  <2>6. CASE Find(r)
    <3>1. UNCHANGED <<outcome, overrideBy, pausedBy, audit>>
      BY <2>6 DEF Find, stores
    <3>2. request[r].pc = "find" /\ (new.pc = "notfound" \/ outcome[request[r].target] # "absent")
      <4>1. CASE outcome[request[r].target] = "absent"
        <5>1. request' = [request EXCEPT ![r].pc = "notfound"]
          BY <2>6, <4>1 DEF Find
        <5>2. request'[r].pc = "notfound"
          BY <2>2, <5>1 DEF Records
        <5> QED BY <2>3, <2>6, <5>2 DEF Find
      <4>2. CASE outcome[request[r].target] # "absent"
        BY <2>6, <4>2 DEF Find
      <4> QED BY <4>1, <4>2
    <3>3. TypeOK'
      BY <2>4, <2>5, <3>1 DEF TypeInv, TypeOK
    <3>4. RequestsOK'
      BY <2>1, <2>3, <3>1, <3>2 DEF TypeInv, RequestsOK, Sent
    <3> QED BY <3>3, <3>4 DEF TypeInv
  <2>7. CASE Apply(r)
    <3>1. request[r].pc = "apply" /\ UNCHANGED audit
      BY <2>7 DEF Apply
    <3>2. request[r].operator \in Operators /\ request[r].op \in Ops
      BY <3>1 DEF TypeInv, TypeOK, Records
    <3>3. /\ outcome' \in [Actions -> Outcomes]
          /\ overrideBy' \in [Actions -> Operators \cup {Nobody}]
          /\ pausedBy' \in [Modules -> Operators \cup {Nobody}]
      BY <2>7, <3>2 DEF Apply, Overrule, PauseOrResume, Decided, TypeInv, TypeOK, Outcomes
    <3>4. TypeOK'
      BY <2>4, <2>5, <3>1, <3>3 DEF TypeInv, TypeOK
    <3>5. \A a \in Actions : outcome[a] # "absent" => outcome'[a] # "absent"
      BY <1>3, ActionsStay DEF Next
    <3>6. RequestsOK'
      BY <2>1, <2>3, <3>1, <3>5 DEF TypeInv, RequestsOK, Sent
    <3> QED BY <3>4, <3>6 DEF TypeInv
  <2>8. CASE Record(r)
    <3>1. request[r].pc = "audit" /\ UNCHANGED stores /\ audit' = Append(audit, Entry(r))
      BY <2>8 DEF Record
    <3>2. audit' \in Seq(Entries)
      BY <3>1, EntryIsEntry DEF TypeInv, TypeOK
    <3>3. TypeOK'
      BY <2>4, <2>5, <3>1, <3>2 DEF TypeInv, TypeOK, stores
    <3>4. RequestsOK'
      BY <2>1, <2>3, <3>1 DEF TypeInv, RequestsOK, Sent, stores
    <3> QED BY <3>3, <3>4 DEF TypeInv
  <2> QED BY <1>3, <2>6, <2>7, <2>8 DEF Handle
<1>4. CASE UNCHANGED vars
  BY <1>4 DEF vars, TypeInv, TypeOK, RequestsOK
<1> QED BY <1>1, <1>2, <1>3, <1>4 DEF Next

(* Every variable of the gateway's override handling has its type.         *)
(* (overrides.go, stores.go, audit.go)                                     *)
THEOREM TypeCorrect == Spec => []TypeOK
<1>1. TypeInv => TypeOK
  BY DEF TypeInv
<1> QED BY <1>1, TypeInvInit, TypeInvStep, PTL DEF Spec

-----------------------------------------------------------------------------
(* The stores and the trail *)

(* What a request asks for, and an entry says. *)
Asks(q, pc, op, target, operator) ==
  q = [pc |-> pc, op |-> op, target |-> target, operator |-> operator]
Says(e, op, target, operator) == e.op = op /\ e.target = target /\ e.operator = operator

(* A step that writes no entry unsays nothing: who was about to write one  *)
(* still is.                                                               *)
LEMMA OnRecordStays ==
  ASSUME TypeInv, Next, NEW op, NEW target, NEW operator, OnRecord(op, target, operator)
  PROVE  OnRecord(op, target, operator)'
<1>0. TypeOK
  BY DEF TypeInv
<1>1. CASE \E n \in 1..Len(audit) : Says(audit[n], op, target, operator)
  <2> PICK n \in 1..Len(audit) : Says(audit[n], op, target, operator)
    BY <1>1
  <2>1. audit' = audit \/ \E r \in Requests : request[r].pc = "audit" /\ audit' = Append(audit, Entry(r))
    BY DEF Next, AddAction, Send, Handle, Find, Apply, Record, stores
  <2>2. n \in 1..Len(audit') /\ audit'[n] = audit[n]
    <3>1. CASE audit' = audit
      BY <3>1
    <3>2. ASSUME NEW r \in Requests, request[r].pc = "audit", audit' = Append(audit, Entry(r))
          PROVE  n \in 1..Len(audit') /\ audit'[n] = audit[n]
      BY <3>2, <1>0, EntryIsEntry DEF TypeOK
    <3> QED BY <2>1, <3>1, <3>2
  <2> QED BY <2>2 DEF OnRecord, Says
<1>2. ASSUME NEW r \in Requests, Asks(request[r], "audit", op, target, operator)
      PROVE  OnRecord(op, target, operator)'
  <2>0. /\ request[r].pc = "audit" /\ request[r].op = op /\ request[r].target = target
        /\ request[r].operator = operator
    BY <1>2 DEF Asks
  <2>1. CASE Record(r)
    <3>1. Says(Entry(r), op, target, operator)
      BY <2>0, EntryIsEntry DEF Says
    <3>2. Len(audit) + 1 \in 1..Len(audit') /\ audit'[Len(audit) + 1] = Entry(r)
      BY <1>0, <2>0, <2>1, EntryIsEntry DEF Record, TypeOK
    <3> QED BY <3>1, <3>2 DEF OnRecord, Says
  <2>2. CASE ~Record(r)
    <3>1. request'[r] = request[r]
      <4>1. ASSUME NEW s \in Requests, Handle(s)
            PROVE  request'[r] = request[r]
        <5>1. s # r
          BY <2>0, <2>2, <4>1 DEF Handle, Find, Apply
        <5> QED BY <1>0, <4>1, <5>1, HandlerMoves DEF TypeOK
      <4>2. ASSUME NEW s \in Requests, NEW o \in Ops, NEW t \in Actions \cup Modules,
                   NEW p \in Operators, Send(s, o, t, p)
            PROVE  request'[r] = request[r]
        BY <1>0, <2>0, <4>2 DEF Send, TypeOK
      <4>3. CASE UNCHANGED request
        BY <4>3
      <4> QED BY <4>1, <4>2, <4>3 DEF Next, AddAction
    <3> QED BY <1>2, <3>1 DEF OnRecord, Pending, Asks
  <2> QED BY <2>1, <2>2
<1> QED BY <1>1, <1>2 DEF OnRecord, Pending, Asks, Says

(* Who overrules an action or pauses a module is about to write that down. *)
LEMMA AppliedIsPending ==
  ASSUME TypeInv, NEW r \in Requests, Apply(r), NEW op, NEW target, NEW operator,
         Says(request[r], op, target, operator)
  PROVE  OnRecord(op, target, operator)'
<1>1. request'[r] = [request[r] EXCEPT !.pc = "audit"]
  BY DEF Apply, TypeInv, TypeOK
<1>2. request'[r] = [pc |-> "audit", op |-> op, target |-> target, operator |-> operator]
  <2>1. TypeOK /\ "audit" \in RequestStates
    BY DEF TypeInv, RequestStates
  <2> QED BY <1>1, <2>1, MovedRequest DEF Says
<1> QED BY <1>2 DEF OnRecord, Pending

(* Every step keeps the stores on record. *)
LEMMA StoresOnRecordStep == TypeInv /\ StoresOnRecord /\ [Next]_vars => StoresOnRecord'
<1> SUFFICES ASSUME TypeInv, StoresOnRecord, [Next]_vars
             PROVE  StoresOnRecord'
  OBVIOUS
<1>1. CASE UNCHANGED vars
  BY <1>1 DEF vars, StoresOnRecord, OnRecord, Pending
<1>2. CASE Next
  <2>1. ASSUME NEW a \in Actions, overrideBy'[a] # Nobody
        PROVE  \E op \in {"approve", "reject"} :
                 Decided(op) = outcome'[a] /\ OnRecord(op, a, overrideBy[a])'
    <3>1. CASE overrideBy'[a] = overrideBy[a] /\ outcome'[a] = outcome[a]
      BY <1>2, <2>1, <3>1, OnRecordStays DEF StoresOnRecord
    <3>2. ASSUME NEW b \in Actions, NEW result, AddAction(b, result)
          PROVE  overrideBy'[a] = overrideBy[a] /\ outcome'[a] = outcome[a]
      <4>1. CASE b = a
        <5>1. overrideBy[a] # Nobody /\ outcome[a] = "absent"
          BY <2>1, <3>2, <4>1 DEF AddAction
        <5> QED BY <5>1 DEF StoresOnRecord, Decided
      <4>2. CASE b # a
        BY <3>2, <4>2 DEF AddAction, TypeInv, TypeOK
      <4> QED BY <4>1, <4>2
    <3>3. ASSUME NEW r \in Requests, Apply(r), Overrule(r), request[r].target = a
          PROVE  \E op \in {"approve", "reject"} :
                   Decided(op) = outcome'[a] /\ OnRecord(op, a, overrideBy[a])'
      <4>1. outcome[a] # "absent"
        BY <3>3 DEF Apply, TypeInv, RequestsOK, Sent
      <4>2. outcome'[a] = Decided(request[r].op) /\ overrideBy'[a] = request[r].operator
        BY <3>3, <4>1 DEF Overrule, TypeInv, TypeOK
      <4>3. request[r].op \in {"approve", "reject"}
        BY <3>3 DEF Overrule
      <4> PICK op, operator : op = request[r].op /\ operator = request[r].operator
        OBVIOUS
      <4>4. Says(request[r], op, a, operator)
        BY <3>3 DEF Says
      <4>5. OnRecord(op, a, operator)'
        BY <3>3, <4>4, AppliedIsPending
      <4> QED BY <4>2, <4>3, <4>5
    <3>4. ASSUME NEW r \in Requests, Apply(r), Overrule(r), request[r].target # a
          PROVE  overrideBy'[a] = overrideBy[a] /\ outcome'[a] = outcome[a]
      BY <3>4 DEF Overrule, TypeInv, TypeOK
    <3>5. (\E b \in Actions : \E result : AddAction(b, result))
            \/ (\E r \in Requests : Apply(r) /\ Overrule(r)) \/ UNCHANGED <<outcome, overrideBy>>
      BY <1>2 DEF Next, Handle, Find, Apply, Record, Send, stores, PauseOrResume
    <3> QED BY <3>1, <3>2, <3>3, <3>4, <3>5
  <2>2. ASSUME NEW m \in Modules, pausedBy'[m] # Nobody
        PROVE  OnRecord("pause", m, pausedBy[m])'
    <3>1. CASE pausedBy'[m] = pausedBy[m]
      BY <1>2, <2>2, <3>1, OnRecordStays DEF StoresOnRecord
    <3>2. ASSUME NEW r \in Requests, Apply(r), PauseOrResume(r), request[r].target = m
          PROVE  OnRecord("pause", m, pausedBy[m])'
      <4>1. request[r].op = "pause" /\ pausedBy'[m] = request[r].operator
        BY <2>2, <3>2 DEF PauseOrResume, TypeInv, TypeOK
      <4> PICK operator : operator = request[r].operator
        OBVIOUS
      <4>2. Says(request[r], "pause", m, operator)
        BY <3>2, <4>1 DEF Says
      <4>3. OnRecord("pause", m, operator)'
        BY <3>2, <4>2, AppliedIsPending
      <4> QED BY <4>1, <4>3
    <3>3. ASSUME NEW r \in Requests, PauseOrResume(r), request[r].target # m
          PROVE  pausedBy'[m] = pausedBy[m]
      BY <3>3 DEF PauseOrResume, TypeInv, TypeOK
    <3>4. (\E r \in Requests : Apply(r) /\ PauseOrResume(r)) \/ UNCHANGED pausedBy
      BY <1>2 DEF Next, Handle, Find, Apply, Record, Send, stores, Overrule, AddAction
    <3> QED BY <3>1, <3>2, <3>3, <3>4
  <2> QED BY <2>1, <2>2 DEF StoresOnRecord
<1> QED BY <1>1, <1>2

-----------------------------------------------------------------------------
(* One entry each *)

EntriesOf(trail, op, target, operator) ==
  {n \in 1..Len(trail) : Says(trail[n], op, target, operator)}
AnsweredOf(requests, op, target, operator) ==
  {r \in Requests : Asks(requests[r], "answered", op, target, operator)}

OneEntry ==
  \A op \in Ops, target \in Actions \cup Modules, operator \in Operators :
    Cardinality(EntriesOf(audit, op, target, operator))
      = Cardinality(AnsweredOf(request, op, target, operator))
NoStrays ==
  \A n \in 1..Len(audit) :
    audit[n].target \in Actions => outcome[audit[n].target] # "absent"

(* The two parts of what is to be proved. *)
LEMMA OneEntryMeans == OneEntry /\ NoStrays => OneEntryPerOverride
BY DEF OneEntry, NoStrays, EntriesOf, AnsweredOf, Asks, Says, OneEntryPerOverride, CarriedOut

(* A request that is answered brings the one entry that says what it asked *)
(* for.                                                                    *)
LEMMA RecordKeepsOneEntry ==
  ASSUME TypeInv, OneEntry, NEW r \in Requests, Record(r)
  PROVE  OneEntry'
<1> DEFINE next == Len(audit) + 1
<1>1. /\ TypeOK /\ request[r].pc = "audit"
      /\ audit' = Append(audit, Entry(r))
      /\ request' = [request EXCEPT ![r].pc = "answered"]
  BY DEF Record, TypeInv
<1>2. /\ Len(audit) \in Nat /\ Len(audit') = next /\ audit'[next] = Entry(r)
      /\ \A n \in 1..Len(audit) : audit'[n] = audit[n]
  BY <1>1, EntryIsEntry DEF TypeOK
<1>3. /\ request'[r] = [pc |-> "answered", op |-> request[r].op, target |-> request[r].target,
                        operator |-> request[r].operator]
      /\ \A s \in Requests \ {r} : request'[s] = request[s]
  <2>1. "answered" \in RequestStates
    BY DEF RequestStates
  <2>2. request'[r] = [request[r] EXCEPT !.pc = "answered"]
    BY <1>1 DEF TypeOK
  <2>3. \A s \in Requests \ {r} : request'[s] = request[s]
    BY <1>1 DEF TypeOK
  <2> QED BY <1>1, <2>1, <2>2, <2>3, MovedRequest
<1>4. ASSUME NEW op \in Ops, NEW target \in Actions \cup Modules, NEW operator \in Operators
      PROVE  Cardinality(EntriesOf(audit', op, target, operator))
               = Cardinality(AnsweredOf(request', op, target, operator))
  <2> DEFINE entries  == EntriesOf(audit, op, target, operator)
             answered == AnsweredOf(request, op, target, operator)
  <2>1. IsFiniteSet(entries) /\ next \notin entries
    <3>1. entries \subseteq 1..Len(audit)
      BY DEF EntriesOf
    <3>2. next \notin 1..Len(audit) /\ Len(audit) \in Nat
      BY <1>2
    <3> HIDE DEF entries, next
    <3>3. entries \in SUBSET Nat /\ \A n \in entries : n <= Len(audit)
      BY <3>1, <3>2
    <3>4. IsFiniteSet(entries)
      BY <3>2, <3>3, FS_BoundedSetOfNaturals
    <3> QED BY <3>1, <3>2, <3>4
  <2>2. IsFiniteSet(answered) /\ r \notin answered
    <3>1. answered \subseteq Requests
      BY DEF AnsweredOf
    <3>2. r \notin answered
      BY <1>1 DEF AnsweredOf, Asks
    <3> HIDE DEF answered
    <3> QED BY <3>1, <3>2, OverridesAssumption, FS_Subset
  <2>3. Cardinality(entries) = Cardinality(answered)
    BY DEF OneEntry
  <2>4. CASE request[r].op = op /\ request[r].target = target /\ request[r].operator = operator
    <3>1. EntriesOf(audit', op, target, operator) = entries \cup {next}
      <4>1. Says(audit'[next], op, target, operator)
        BY <1>1, <1>2, <2>4, EntryIsEntry DEF Says
      <4> QED BY <1>2, <4>1 DEF EntriesOf
    <3>2. AnsweredOf(request', op, target, operator) = answered \cup {r}
      BY <1>3, <2>4 DEF AnsweredOf, Asks
    <3> HIDE DEF entries, answered, next
    <3>3. Cardinality(entries \cup {next}) = Cardinality(entries) + 1
      BY <2>1, FS_AddElement
    <3>4. Cardinality(answered \cup {r}) = Cardinality(answered) + 1
      BY <2>2, FS_AddElement
    <3> QED BY <2>3, <3>1, <3>2, <3>3, <3>4
  <2>5. CASE ~(request[r].op = op /\ request[r].target = target /\ request[r].operator = operator)
    <3>1. EntriesOf(audit', op, target, operator) = entries
      <4>1. ~Says(audit'[next], op, target, operator)
        BY <1>1, <1>2, <2>5, EntryIsEntry DEF Says
      <4> QED BY <1>2, <4>1 DEF EntriesOf
    <3>2. AnsweredOf(request', op, target, operator) = answered
      <4>1. ~Asks(request'[r], "answered", op, target, operator)
        BY <1>3, <2>5 DEF Asks
      <4> QED BY <1>3, <2>2, <4>1 DEF AnsweredOf
    <3> QED BY <2>3, <3>1, <3>2
  <2> QED BY <2>4, <2>5
<1> QED BY <1>4 DEF OneEntry

(* Every step keeps one entry each. *)
LEMMA OneEntryStep == TypeInv /\ OneEntry /\ [Next]_vars => OneEntry'
<1> SUFFICES ASSUME TypeInv, OneEntry, [Next]_vars
             PROVE  OneEntry'
  OBVIOUS
<1>1. ASSUME audit' = audit,
             \A r \in Requests :
               request'[r] # request[r] =>
                 request[r].pc # "answered" /\ request'[r].pc # "answered"
      PROVE  OneEntry'
  <2>1. ASSUME NEW op, NEW target, NEW operator
        PROVE  AnsweredOf(request', op, target, operator)
                 = AnsweredOf(request, op, target, operator)
    BY <1>1 DEF AnsweredOf, Asks
  <2> QED BY <1>1, <2>1 DEF OneEntry
<1>2. ASSUME NEW r \in Requests, Find(r) \/ Apply(r)
      PROVE  OneEntry'
  <2>1. audit' = audit /\ request[r].pc # "answered"
    BY <1>2 DEF Find, Apply, stores
  <2>2. request'[r].pc # "answered" /\ \A s \in Requests \ {r} : request'[s] = request[s]
    <3>1. \E pc \in {"notfound", "apply", "audit"} :
            request' = [request EXCEPT ![r] = [request[r] EXCEPT !.pc = pc]]
      <4>1. CASE Find(r) /\ outcome[request[r].target] = "absent"
        BY <4>1 DEF Find, TypeInv, TypeOK
      <4>2. CASE Find(r) /\ outcome[request[r].target] # "absent"
        BY <4>2 DEF Find, TypeInv, TypeOK
      <4>3. CASE Apply(r)
        BY <4>3 DEF Apply, TypeInv, TypeOK
      <4> QED BY <1>2, <4>1, <4>2, <4>3
    <3> QED BY <3>1 DEF TypeInv, TypeOK, Records
  <2> QED BY <1>1, <2>1, <2>2
<1>3. ASSUME NEW r \in Requests, NEW op \in Ops, NEW target \in Actions \cup Modules,
             NEW operator \in Operators, Send(r, op, target, operator)
      PROVE  OneEntry'
  <2>1. /\ audit' = audit /\ request[r].pc # "answered" /\ request'[r].pc # "answered"
        /\ \A s \in Requests \ {r} : request'[s] = request[s]
    BY <1>3 DEF Send, TypeInv, TypeOK
  <2> QED BY <1>1, <2>1
<1>4. ASSUME NEW a \in Actions, NEW result, AddAction(a, result)
      PROVE  OneEntry'
  BY <1>1, <1>4 DEF AddAction
<1>5. CASE UNCHANGED vars
  BY <1>1, <1>5 DEF vars
<1> QED BY <1>2, <1>3, <1>4, <1>5, RecordKeepsOneEntry DEF Next, Handle

(* Every step leaves the entries about actions that exist. *)
LEMMA NoStraysStep == TypeInv /\ NoStrays /\ [Next]_vars => NoStrays'
<1> SUFFICES ASSUME TypeInv, NoStrays, [Next]_vars
             PROVE  NoStrays'
  OBVIOUS
<1>1. CASE UNCHANGED vars
  BY <1>1 DEF vars, NoStrays
<1>2. CASE Next
  <2>1. \A a \in Actions : outcome[a] # "absent" => outcome'[a] # "absent"
    BY <1>2, ActionsStay
  <2>2. CASE audit' = audit
    BY <2>1, <2>2 DEF NoStrays
  <2>3. ASSUME NEW r \in Requests, Record(r)
        PROVE  NoStrays'
    <3>1. /\ Len(audit) \in Nat /\ Len(audit') = Len(audit) + 1
          /\ audit'[Len(audit) + 1] = Entry(r)
          /\ \A n \in 1..Len(audit) : audit'[n] = audit[n]
      BY <2>3, EntryIsEntry DEF Record, TypeInv, TypeOK
    <3>2. Entry(r).target \in Actions => outcome[Entry(r).target] # "absent"
      BY <2>3, EntryIsEntry DEF Record, TypeInv, RequestsOK, Sent
    <3> QED BY <2>1, <3>1, <3>2 DEF NoStrays
  <2> QED BY <1>2, <2>2, <2>3 DEF Next, AddAction, Send, Handle, Find, Apply, stores
<1> QED BY <1>1, <1>2

(* What the stores say was done by an operator is in the audit trail, or   *)
(* about to be written there, and the trail has one entry for each         *)
(* override that was carried out. (overrides.go, audit.go)                 *)
THEOREM OverridesRecorded == Spec => []OverridesOnRecord
<1>1. Init => StoresOnRecord /\ OneEntry /\ NoStrays
  <2> SUFFICES ASSUME Init
               PROVE  StoresOnRecord /\ OneEntry /\ NoStrays
    OBVIOUS
  <2>1. ASSUME NEW op, NEW target, NEW operator
        PROVE  /\ EntriesOf(audit, op, target, operator) = {}
               /\ AnsweredOf(request, op, target, operator) = {}
    BY DEF Init, EntriesOf, AnsweredOf, Asks, Unsent
  <2>2. OneEntry
    BY <2>1 DEF OneEntry
  <2>3. StoresOnRecord
    BY DEF Init, StoresOnRecord
  <2>4. NoStrays
    BY DEF Init, NoStrays
  <2> QED BY <2>2, <2>3, <2>4
<1>2. StoresOnRecord /\ OneEntry /\ NoStrays => OverridesOnRecord
  BY OneEntryMeans DEF OverridesOnRecord
<1> QED BY <1>1, <1>2, TypeInvInit, TypeInvStep, StoresOnRecordStep, OneEntryStep,
           NoStraysStep, PTL DEF Spec
=============================================================================

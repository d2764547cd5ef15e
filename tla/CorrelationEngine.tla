------------------------- MODULE CorrelationEngine -------------------------
(***************************************************************************)
(* The correlation engine (correlation/engine.go, dedup.go): a sliding     *)
(* window of received events, grouped by place, that yields incidents.     *)
(*                                                                         *)
(* Ingest and Correlate hold e.mu for their whole body, so each is one     *)
(* action; Correlate calls the action executor and the exporter under the  *)
(* lock.  The window and the group slices are sets here: their order only  *)
(* reaches the text of the narrative.  Time is counted in ticks of ten     *)
(* seconds; several calls may fall into one tick.                          *)
(***************************************************************************)
EXTENDS Scoring, Sequences

CONSTANTS
  Signals,        \* what modules report: [module, type, place, risk]
  Lags,           \* how long before its reception an event may have happened
  TimeWindow,     \* config.TimeWindow, 10 to 600 seconds
  DedupWindow,    \* config.DedupWindow, 0 switches deduplication off
  Threshold,      \* config.ConfidenceThreshold
  ActionEnabled,  \* an auto-action is enabled
  MaxNow,         \* bound on time
  MaxIngest,      \* bound on the number of Ingest calls
  MaxRounds       \* bound on the number of Correlate calls

ASSUME EngineAssumption ==
  /\ TimeWindow \in 1..60              \* ValidateConfig
  /\ Threshold \in 1..100              \* ValidateConfig
  /\ DedupWindow \in Nat
  /\ ActionEnabled \in BOOLEAN
  /\ Lags \subseteq Nat
  /\ \A signal \in Signals : signal.risk \in Int
  /\ MaxNow \in Nat /\ MaxIngest \in Nat /\ MaxRounds \in Nat

VARIABLES
  now,        \* the clock
  events,     \* e.events: the window
  cache,      \* e.dedup.entries: fingerprint -> lastSeen, Never when absent
  incidents,  \* e.incidents
  ingested,   \* history: number of Ingest calls
  accepted,   \* history: every event that entered the window
  suppressed, \* history: every event dropped as a duplicate
  rounds,     \* history: one [at, upTo] per Correlate call
  alerts      \* history: incidents for which an operator alert was exported

engineVars == <<now, events, cache, incidents, ingested, accepted, suppressed, rounds, alerts>>

Never == -1
Empty == ""

(* eventFingerprint: neither pod nor namespace is part of it *)
Fingerprint(event) == <<event.module, event.type, event.place.node>>
Fingerprints == {Fingerprint(signal) : signal \in Signals}

(* the attributes a place names *)
MatchedAttributes(place) ==
  {attribute \in {"node", "pod", "namespace"} : place[attribute] # Empty}

-----------------------------------------------------------------------------
(* dedupCache.IsDuplicate *)
IsDuplicate(event) ==
  /\ DedupWindow > 0
  /\ cache[Fingerprint(event)] # Never
  /\ now - cache[Fingerprint(event)] < DedupWindow

(* dedupCache.Prune *)
MutPrunedCache(entries) ==                       \* forgets an entry too early
  [f \in Fingerprints |-> IF entries[f] < now THEN Never ELSE entries[f]]
PrunedCache(entries) ==
  [f \in Fingerprints |->
     IF DedupWindow > 0 /\ entries[f] < now - DedupWindow THEN Never ELSE entries[f]]

(* pruneEventsLocked: an event exactly TimeWindow old is kept *)
MutInWindow(window) == {e \in window : e.receivedAt > now - TimeWindow}
MutNoPruning(window) == window
InWindow(window) == {e \in window : e.receivedAt >= now - TimeWindow}

(* groupEvents: one group for each node, pod and namespace combination *)
GroupOf(window, place) == {e \in window : e.place = place}

(* places where at least two modules reported *)
CorrelatedPlaces(window) ==
  {place \in {e.place : e \in window} : Cardinality(ModulesOf(GroupOf(window, place))) >= 2}

(* score >= threshold, with an action to execute *)
Acts(score) == score >= Threshold /\ ActionEnabled

Incident(window, place, failing) ==
  LET group == GroupOf(window, place)
      score == CalculateConfidence(group, MatchedAttributes(place))
  IN  [round  |-> Len(rounds) + 1,
       at     |-> now,
       place  |-> place,
       events |-> group,
       score  |-> score,
       action |-> IF ~Acts(score) THEN "none"
                  ELSE IF place \in failing THEN "failed" ELSE "executed"]

-----------------------------------------------------------------------------
EngineInit ==
  /\ now = 0
  /\ events = {}
  /\ cache = [f \in Fingerprints |-> Never]
  /\ incidents = {}
  /\ ingested = 0
  /\ accepted = {}
  /\ suppressed = {}
  /\ rounds = <<>>
  /\ alerts = {}

TimedEvent(signal, lag) ==
  [id         |-> ingested + 1,
   module     |-> signal.module,
   type       |-> signal.type,
   place      |-> signal.place,
   risk       |-> signal.risk,
   timestamp  |-> now - lag,
   receivedAt |-> now]

(* Ingest: drop a duplicate, or add the event and prune window and cache *)
Ingest(signal, lag) ==
  LET event == TimedEvent(signal, lag)
  IN  /\ ingested < MaxIngest
      /\ ingested' = ingested + 1
      /\ \/ /\ IsDuplicate(event)
            /\ suppressed' = suppressed \cup {event}
            /\ UNCHANGED <<events, cache, accepted>>
         \/ /\ ~IsDuplicate(event)
            /\ events' = InWindow(events \cup {event})
            /\ cache' = PrunedCache(
                 IF DedupWindow > 0 THEN [cache EXCEPT ![Fingerprint(event)] = now] ELSE cache)
            /\ accepted' = accepted \cup {event}
            /\ UNCHANGED suppressed
      /\ UNCHANGED <<now, incidents, rounds, alerts>>

(* Correlate: prune, group, and one incident for every group of two modules;
   the auto-action of any of them may fail *)
Correlate ==
  /\ Len(rounds) < MaxRounds
  /\ rounds' = Append(rounds, [at |-> now, upTo |-> ingested])
  /\ events' = InWindow(events)
  /\ \E failing \in SUBSET CorrelatedPlaces(InWindow(events)) :
       LET found == {Incident(InWindow(events), place, failing) :
                       place \in CorrelatedPlaces(InWindow(events))}
       IN  /\ incidents' = incidents \cup found
           /\ alerts' = alerts \cup {i \in found : i.action = "failed"}
  /\ UNCHANGED <<now, cache, ingested, accepted, suppressed>>

Tick ==
  /\ now < MaxNow
  /\ now' = now + 1
  /\ UNCHANGED <<events, cache, incidents, ingested, accepted, suppressed, rounds, alerts>>

EngineNext == Tick \/ Correlate \/ \E signal \in Signals, lag \in Lags : Ingest(signal, lag)

EngineSpec == EngineInit /\ [][EngineNext]_engineVars

-----------------------------------------------------------------------------
Events == [id : 1..MaxIngest, module : {s.module : s \in Signals},
           type : {s.type : s \in Signals}, place : {s.place : s \in Signals},
           risk : {s.risk : s \in Signals}, timestamp : Int, receivedAt : 0..MaxNow]

(* Every variable has its type; confidences are between 0 and 100. *)
EngineTypeOK ==
  /\ now \in 0..MaxNow
  /\ events \in SUBSET Events
  /\ cache \in [Fingerprints -> (0..MaxNow) \cup {Never}]
  /\ ingested \in 0..MaxIngest
  /\ accepted \in SUBSET Events
  /\ suppressed \in SUBSET Events
  /\ events \subseteq accepted
  /\ rounds \in Seq([at : 0..MaxNow, upTo : 0..MaxIngest])
  /\ alerts \subseteq incidents
  /\ \A i \in incidents :
       /\ i.at \in 0..MaxNow
       /\ i.score \in 0..100
       /\ i.action \in {"none", "executed", "failed"}
       /\ i.events \subseteq accepted

(* An incident is made of events of at least two modules that share node,  *)
(* pod and namespace, every one of them received in the time window before *)
(* the detection. (engine.go Correlate, pruneEventsLocked, groupEvents)    *)
IncidentsAreCrossModule ==
  \A i \in incidents :
    /\ \E a, b \in i.events : a.module # b.module
    /\ \A e \in i.events :
         /\ e.place = i.place
         /\ i.at - TimeWindow <= e.receivedAt /\ e.receivedAt <= i.at

Correlatable(a, b, round) ==
  /\ a.module # b.module
  /\ a.place = b.place
  /\ \A e \in {a, b} : e.id <= round.upTo /\ e.receivedAt >= round.at - TimeWindow

(* No correlation is missed: two events of different modules at one place, *)
(* both received in the time window before a Correlate, are together in an *)
(* incident of that call. (engine.go Ingest, Correlate)                    *)
NoPairMissed ==
  \A a, b \in accepted, r \in 1..Len(rounds) :
    Correlatable(a, b, rounds[r]) =>
      \E i \in incidents : i.round = r /\ a \in i.events /\ b \in i.events

(* Of the events with one module, type and node only the first in a dedup  *)
(* window is kept: two kept ones are a window apart, and an event is       *)
(* dropped only for one kept less than a window before. (dedup.go)         *)
OnePerDedupWindow ==
  /\ \A a, b \in accepted :
       /\ a.id < b.id
       /\ Fingerprint(a) = Fingerprint(b)
       => b.receivedAt - a.receivedAt >= DedupWindow
  /\ \A s \in suppressed : \E a \in accepted :
       /\ a.id < s.id
       /\ Fingerprint(a) = Fingerprint(s)
       /\ s.receivedAt - a.receivedAt < DedupWindow

(* Evidence of one more module never lowers the confidence, although the   *)
(* new event may widen the time span and lose the proximity bonus.         *)
(* (scoring.go CalculateConfidence)                                        *)
AnotherModuleRaisesConfidence ==
  \A i, j \in incidents :
    /\ i.events \subseteq j.events
    /\ ModulesOf(i.events) # ModulesOf(j.events)
    => i.score <= j.score

=============================================================================

------------------------- MODULE ChangeVerification -------------------------
(***************************************************************************)
(* Post-deploy verification (modules/ollinai/verifier.go, change.go,       *)
(* verdict.go) of the changes DeploymentWatcher reports: a verification    *)
(* waits for the check window of its change, queries the signals the       *)
(* change calls for, judges them and announces the verdict.                *)
(*                                                                         *)
(* Time goes in ticks of 10 s, the poll interval.  Timers are punctual: a  *)
(* tick passes when the poll of the tick was made and no check window is   *)
(* overdue.  The callback given to the watcher is taken to start Verify in *)
(* a goroutine.  The metrics source is outside src/: a query over a window *)
(* sees the load of that window, as an average, a total (restarts) or, for *)
(* p99 latency, as the slowest tick of it.                                 *)
(***************************************************************************)
EXTENDS DeploymentWatcher

CONSTANTS
  Profiles,     \* what a rollout may do to the load: names
  Level,        \* per profile and signal, its level in one tick
  LastRollout,  \* bound: last tick at which the cluster changes or a poll fails
  MaxRollouts,  \* bound: rollouts and creations of one workload
  Outages       \* the sets of signals whose queries may fail at a time

Signals == {"error_rate", "latency_p99", "pod_restarts", "throughput", "cpu_saturation"}

ASSUME VerifierAssumption ==
  /\ Level \in [Profiles -> [Signals -> Nat]]
  /\ LastRollout \in Nat
  /\ MaxRollouts \in Nat
  /\ Outages \subseteq SUBSET Signals

(* windows, in ticks *)
MutBaselineWindow == 6                              \* as short as the current one
BaselineWindow == 30                                \* 5 min
CurrentWindow  == 6                                 \* 1 min
RestartWindow  == 12                                \* 2 min

(* DeploymentChange.CheckWindow *)
CheckWindow(changes) ==
  IF "resource_limits" \in changes THEN 12
  ELSE IF changes \cap {"image", "probe"} # {} THEN 9
  ELSE IF "env_var" \in changes THEN 6
  ELSE IF "replica_scale" \in changes THEN 2
  ELSE 6                                            \* rollout_strategy

Horizon == LastRollout + 14

VARIABLES
  now,        \* the tick
  polled,     \* the poll of this tick was made
  running,    \* the context of watcher and verifier lives
  load,       \* per workload, <<[since, profile]>>: what it has been like
  verifying,  \* verifications in progress: [workload, changes, startedAt]
  emitting,   \* verdicts on record whose event is not yet emitted
  verdicts,   \* v.verdicts
  reports,    \* history: changes given to the callback
  cancelled   \* history: verifications that ended with ctx.Err()

verifierVars == <<now, polled, running, load, verifying, emitting, verdicts, reports, cancelled>>
vars == <<watcherVars, verifierVars>>

Init ==
  /\ WatcherInit
  /\ now = 0
  /\ polled = TRUE
  /\ running = TRUE
  /\ load \in [Workloads -> {<<[since |-> -BaselineWindow, profile |-> p]>> : p \in Profiles}]
  /\ verifying = {}
  /\ emitting = {}
  /\ verdicts = <<>>
  /\ reports = {}
  /\ cancelled = {}

-----------------------------------------------------------------------------
(* The signals of a workload                                               *)

Larger(a, b)  == IF a > b THEN a ELSE b
Smaller(a, b) == IF a < b THEN a ELSE b

(* the ticks from..to-1 that the i-th part of a workload's load covers *)
EndOf(parts, i) == IF i = Len(parts) THEN Horizon + 1 ELSE parts[i + 1].since
Ticks(parts, i, from, to) ==
  Larger(0, Smaller(EndOf(parts, i), to) - Larger(parts[i].since, from))

LevelAt(parts, i, signal) == Level[parts[i].profile][signal]
LevelsIn(parts, signal, from, to) ==
  {LevelAt(parts, i, signal) : i \in {j \in 1..Len(parts) : Ticks(parts, j, from, to) > 0}}

Total(parts, signal, from, to) ==
  LET upTo[i \in 0..Len(parts)] ==
        IF i = 0 THEN 0
        ELSE upTo[i - 1] + LevelAt(parts, i, signal) * Ticks(parts, i, from, to)
  IN  upTo[Len(parts)]
Slowest(parts, from, to) ==
  CHOOSE l \in LevelsIn(parts, "latency_p99", from, to) :
    \A k \in LevelsIn(parts, "latency_p99", from, to) : k <= l

Baseline(parts, signal, at) == Total(parts, signal, at - BaselineWindow, at)
Current(parts, signal, at)  == Total(parts, signal, at - CurrentWindow, at)

(* evaluateCheck, with averages over different windows cross-multiplied *)
MutPasses(parts, signal, at) ==                \* windows of different length compared
  signal = "throughput" => Current(parts, signal, at) * 10 >= Baseline(parts, signal, at) * 7
Passes(parts, signal, at) ==
  CASE signal = "error_rate" ->
         IF Baseline(parts, signal, at) = 0 THEN Current(parts, signal, at) = 0
         ELSE Current(parts, signal, at) * BaselineWindow * 10
                <= Baseline(parts, signal, at) * CurrentWindow * 15
    [] signal = "latency_p99" ->
         LET base == Slowest(parts, at - BaselineWindow, at)
         IN  base = 0 \/ Slowest(parts, at - CurrentWindow, at) <= base * 2
    [] signal = "pod_restarts" -> Total(parts, signal, at - RestartWindow, at) <= 1
    [] signal = "throughput" ->
         Current(parts, signal, at) * BaselineWindow * 10
           >= Baseline(parts, signal, at) * CurrentWindow * 7
    [] signal = "cpu_saturation" -> Current(parts, signal, at) < 90 * CurrentWindow

(* selectSignals *)
SignalsFor(change) ==
  CASE change = "image"            -> {"error_rate", "latency_p99", "pod_restarts", "throughput"}
    [] change = "env_var"          -> {"error_rate", "pod_restarts"}
    [] change = "resource_limits"  -> {"cpu_saturation", "latency_p99", "pod_restarts"}
    [] change = "replica_scale"    -> {"throughput"}
    [] change \in {"probe", "rollout_strategy"} -> {"pod_restarts", "throughput"}
Selected(changes) == UNION {SignalsFor(c) : c \in changes}

-----------------------------------------------------------------------------
(* A rollout may change the load *)
ClusterChanges ==
  /\ running                          \* nobody sees a change after the end
  /\ now <= LastRollout
  /\ \E w \in Workloads :
       \/ /\ Len(load[w]) <= MaxRollouts
          /\ \E t \in Templates : Rollout(w, t) \/ Create(w, t)
          /\ \E p \in Profiles :
               load' = [load EXCEPT ![w] = Append(@, [since |-> now, profile |-> p])]
       \/ Delete(w) /\ UNCHANGED load
  /\ UNCHANGED <<now, polled, running, verifying, emitting, verdicts,
                 reports, cancelled>>

StartWatcher ==
  /\ running
  /\ CaptureBaseline \/ BaselineFails
  /\ UNCHANGED verifierVars

(* onChangeFn is called for each change of the poll *)
PollWorkloads ==
  /\ running
  /\ ~polled
  /\ polled' = TRUE
  /\ Poll
  /\ LET new == {[workload |-> w, changes |-> Changes(w), startedAt |-> now] : w \in Reported}
     IN  /\ verifying' = verifying \cup new
         /\ reports' = reports \cup new
  /\ UNCHANGED <<now, running, load, emitting, verdicts, cancelled>>

(* ListWorkloads fails: the next tick tries again *)
PollFails ==
  /\ running
  /\ ~polled
  /\ watching = "polling"
  /\ now <= LastRollout
  /\ polled' = TRUE
  /\ UNCHANGED <<watcherVars, now, running, load, verifying, emitting, verdicts, reports, cancelled>>

DueAt(v) == v.startedAt + CheckWindow(v.changes)

Tick ==
  /\ running
  /\ now < Horizon
  /\ polled
  /\ watching = "polling"
  /\ \A v \in verifying : now < DueAt(v)
  /\ emitting = {}
  /\ now' = now + 1
  /\ polled' = FALSE
  /\ UNCHANGED <<watcherVars, running, load, verifying, emitting, verdicts,
                 reports, cancelled>>

-----------------------------------------------------------------------------
(* Verify *)

(* determineStatus *)
Status(measured, failed) ==
  IF measured = {} THEN "inconclusive"
  ELSE IF failed = {} THEN "healthy"
  ELSE "regression"

(* runChecks, NewVerdict, and the verdict is stored: a signal whose query  *)
(* fails is left out                                                       *)
MutJudge(v) ==                                 \* given up when queries fail
  /\ v \in verifying
  /\ now = DueAt(v)
  /\ verifying' = verifying \ {v}
  /\ \E down \in Outages :
       LET measured == Selected(v.changes) \ down
           failed   == {s \in measured : ~Passes(load[v.workload], s, now)}
           verdict  == [change |-> v, at |-> now, measured |-> measured,
                        status |-> Status(measured, failed)]
       IN  /\ verdicts' = IF measured = {} THEN verdicts ELSE Append(verdicts, verdict)
           /\ emitting' = IF measured = {} THEN emitting ELSE emitting \cup {verdict}
  /\ UNCHANGED <<watcherVars, now, polled, running, load, reports, cancelled>>
Judge(v) ==
  /\ v \in verifying
  /\ now = DueAt(v)
  /\ verifying' = verifying \ {v}
  /\ \E down \in Outages :
       LET measured == Selected(v.changes) \ down
           failed   == {s \in measured : ~Passes(load[v.workload], s, now)}
           verdict  == [change |-> v, at |-> now, measured |-> measured,
                        status |-> Status(measured, failed)]
       IN  /\ verdicts' = Append(verdicts, verdict)
           /\ emitting' = emitting \cup {verdict}
  /\ UNCHANGED <<watcherVars, now, polled, running, load, reports, cancelled>>

(* emitVerdict: whatever the emitter answers, Verify returns its verdict *)
MutAnnounce(verdict) ==                        \* nothing to say without data
  /\ verdict \in emitting
  /\ verdict.measured # {}
  /\ emitting' = emitting \ {verdict}
  /\ UNCHANGED <<watcherVars, now, polled, running, load, verifying, verdicts, reports,
                 cancelled>>
Announce(verdict) ==
  /\ verdict \in emitting
  /\ emitting' = emitting \ {verdict}
  /\ UNCHANGED <<watcherVars, now, polled, running, load, verifying, verdicts, reports,
                 cancelled>>

(* the context is done: the watch loop returns and so does every Verify    *)
(* that still waits                                                        *)
Stop ==
  /\ running
  /\ running' = FALSE
  /\ UNCHANGED <<watcherVars, now, polled, load, verifying, emitting, verdicts,
                 reports, cancelled>>

Cancelled(v) ==
  /\ v \in verifying
  /\ ~running
  /\ verifying' = verifying \ {v}
  /\ cancelled' = cancelled \cup {v}
  /\ UNCHANGED <<watcherVars, now, polled, running, load, emitting, verdicts,
                 reports>>

Verify == \/ \E v \in verifying : Judge(v) \/ Cancelled(v)
          \/ \E verdict \in emitting : Announce(verdict)

Next ==
  \/ ClusterChanges \/ StartWatcher \/ PollWorkloads \/ PollFails
  \/ Tick \/ Stop \/ Verify

Spec == Init /\ [][Next]_vars

(* time passes, the watcher polls in each tick and goroutines are scheduled *)
FairSpec == Spec /\ WF_vars(StartWatcher \/ PollWorkloads) /\ WF_vars(Tick) /\ WF_vars(Verify)

-----------------------------------------------------------------------------
Report == [workload : Workloads, changes : SUBSET Aspects, startedAt : 0..Horizon]
Verdict == [change : Report, at : 0..Horizon, measured : SUBSET Signals,
            status : {"healthy", "regression", "inconclusive"}]

(* Every variable of watcher and verifier has its type. *)
TypeOK ==
  /\ WatcherTypeOK
  /\ now \in 0..Horizon
  /\ polled \in BOOLEAN /\ running \in BOOLEAN
  /\ load \in [Workloads -> Seq([since : (-BaselineWindow)..Horizon, profile : Profiles])]
  /\ verifying \subseteq Report /\ reports \subseteq Report /\ cancelled \subseteq Report
  /\ emitting \subseteq Verdict
  /\ verdicts \in Seq(Verdict)

VerdictsOn(report) == {i \in 1..Len(verdicts) : verdicts[i].change = report}

(* Each reported change is still being verified, or was cancelled, or has  *)
(* exactly one verdict on record, whichever queries failed, and an event   *)
(* is emitted only for what is on record. (verifier.go Verify)             *)
OneVerdictPerReport ==
  /\ \A r \in reports :
       Cardinality(VerdictsOn(r)) = IF r \in verifying \cup cancelled THEN 0 ELSE 1
  /\ \A d \in emitting : \E i \in 1..Len(verdicts) : verdicts[i] = d

(* The look at the generation hides no rollout: after a poll the snapshot  *)
(* of a workload is the workload, unless it was deleted and created again, *)
(* when it may have the same generation by chance. (watcher.go poll)       *)
PollCatchesUp ==
  [][PollWorkloads => \A w \in Workloads \ recreated :
                        Exists(w) => previous'[w] = cluster[w]]_vars

(* the rollout a verdict is about, as far as the load tells *)
RolloutOf(d) ==
  CHOOSE i \in 1..Len(load[d.change.workload]) :
    /\ load[d.change.workload][i].since <= d.change.startedAt
    /\ \A j \in (i + 1)..Len(load[d.change.workload]) :
         load[d.change.workload][j].since > d.change.startedAt
RolledOutAt(d) == load[d.change.workload][RolloutOf(d)].since

Before(d, signal) ==
  LevelsIn(load[d.change.workload], signal, load[d.change.workload][1].since, RolledOutAt(d))
Since(d, signal) == LevelsIn(load[d.change.workload], signal, RolledOutAt(d), d.at)

(* A rollout that turns an error-free service into one with errors, or     *)
(* stops all of its traffic, is judged a regression whenever that signal   *)
(* was measured over a full current window and within 190 s, although the  *)
(* baseline window reaches into the time after the rollout.                *)
(* (verifier.go runSingleCheck, evaluateCheck; change.go CheckWindow)      *)
BreakdownsCaught ==
  \A i \in 1..Len(verdicts) :
    LET d == verdicts[i]
    IN  /\ d.at - RolledOutAt(d) \in CurrentWindow..19
        /\ \/ /\ "error_rate" \in d.measured
              /\ Before(d, "error_rate") = {0}
              /\ Cardinality(Since(d, "error_rate")) = 1 /\ 0 \notin Since(d, "error_rate")
           \/ /\ "throughput" \in d.measured
              /\ 0 \notin Before(d, "throughput") /\ Since(d, "throughput") = {0}
        => d.status = "regression"

Steady(d) ==
  LET in(signal) == LevelsIn(load[d.change.workload], signal, d.at - BaselineWindow, d.at)
  IN  /\ \A signal \in d.measured : Cardinality(in(signal)) = 1
      /\ in("pod_restarts") = {0}
      /\ \A l \in in("cpu_saturation") : l < 90

(* A service whose signals were the same before and after the rollout is   *)
(* never judged a regression, and judged healthy only from measurements.   *)
(* (verifier.go evaluateCheck, verdict.go determineStatus)                 *)
SteadyServicePasses ==
  \A i \in 1..Len(verdicts) :
    /\ Steady(verdicts[i]) => verdicts[i].status # "regression"
    /\ verdicts[i].status = "healthy" => verdicts[i].measured # {}

(* Every reported change is judged, unless the verifier is stopped.        *)
(* (verifier.go Verify)                                                    *)
ReportsAreJudged ==
  verifying # {} ~> (verifying = {} /\ emitting = {})

(* "BaselineValue is the pre-deployment measurement" (verdict.go:25): what *)
(* was measured equals what a baseline ending at the rollout would show.   *)
BaselineIsPreDeployment ==
  \A i \in 1..Len(verdicts) :
    LET d == verdicts[i]
    IN  \A signal \in d.measured \ {"latency_p99"} :
          Baseline(load[d.change.workload], signal, d.at)
            = Baseline(load[d.change.workload], signal, RolledOutAt(d))
=============================================================================

----------------------------- MODULE Earthworm -----------------------------
(***************************************************************************)
(* The earthworm agent (modules/earthworm): heartbeats of nodes are scored *)
(* by the local model (shared/titanops-ai/local_provider.go), or by static *)
(* rules while the model is unavailable, and a score at the threshold or   *)
(* above is remediated through the Kubernetes API and reported to the      *)
(* export backends (shared/titanops-export/multi_exporter.go).             *)
(*                                                                         *)
(* Any number of goroutines process heartbeats at a time.  The cluster is  *)
(* outside src/: the API serializes calls, rejects an update of a node     *)
(* that changed since it was read, and any call may fail, a write also     *)
(* after it took effect.  A deleted pod stays on its node until its grace  *)
(* period is over, and its controller recreates it under its name.  On     *)
(* which node it lands, and when, is left open: DaemonSet pods, static     *)
(* pods, pods that tolerate a cordon and pods that the scheduler had a     *)
(* node for land on a cordoned node as well.  Nobody uncordons a node.     *)
(***************************************************************************)
EXTENDS Integers, FiniteSets

CONSTANTS
  Workers,      \* goroutines that call ProcessHeartbeat
  Nodes, Pods,
  Heartbeats,   \* [node, cpu, memory, disk, network (percent), latency (ms)]
  Configs,      \* the module configs the kernel may hold
  HasK8s,       \* a Kubernetes client was given to the kernel
  Backends,     \* the enabled export backends ...
  Faulty        \* ... and those whose Send fails or panics

Unset == 0                                          \* the zero value in a config
Gone  == "gone"                            \* where a pod without a node is

ASSUME EarthwormAssumption ==
  /\ \A c \in Configs : /\ c.node \in Nodes \cup {Unset}
                        /\ c.threshold \in Nat
                        /\ {c.cpu, c.memory} \subseteq 0..100
                        /\ c.latency \in 0..1000   \* the score falls beyond 1000 ms
  /\ \A h \in Heartbeats : /\ h.node \in Nodes
                           /\ {h.cpu, h.memory, h.disk, h.network} \subseteq 0..100
                           /\ h.latency \in Nat
  /\ Gone \notin Nodes
  /\ HasK8s \in BOOLEAN
  /\ Faulty \subseteq Backends

VARIABLES
  module,     \* "new", "started", "failed" or "stopped"; m.agent is set in "started"
  config,     \* the validated AgentConfig
  crashed,    \* the process panicked
  modelFile,  \* "unusable" (missing, empty, not readable) or "good"
  session,    \* the session is in lp.models
  loads,      \* history: sessions created
  lock,       \* the worker that holds lp.mu for writing, or Nobody
  cordoned,   \* nodes that are unschedulable
  place,      \* per pod its node, or Gone while it has none
  doomed,     \* the pods whose deletion is under way
  spared,     \* history: per worker, the pods its reschedule leaves on the node
  job,        \* per worker, the heartbeat it works on
  received    \* per backend, the workers whose event of this heartbeat it took

cluster == <<cordoned, place, doomed, spared>>
model   == <<modelFile, session, loads, lock>>
vars    == <<module, config, crashed, model, cluster, job, received>>

Nobody == "nobody"
NaN    == -1                                  \* a score that is not a number
NoHeartbeat == [node |-> Unset]

-----------------------------------------------------------------------------
(* ValidateConfig *)

DefaultRuleThresholds == [cpu |-> 90, memory |-> 85, latency |-> 500]

OrDefault(value, default) == IF value = Unset THEN default ELSE value
Validated(c) ==
  [node      |-> c.node,
   threshold |-> OrDefault(c.threshold, 75),
   cpu       |-> OrDefault(c.cpu, DefaultRuleThresholds.cpu),
   memory    |-> OrDefault(c.memory, DefaultRuleThresholds.memory),
   latency   |-> OrDefault(c.latency, DefaultRuleThresholds.latency)]
Valid(c) == c.threshold \in 10..100 /\ c.node # Unset

-----------------------------------------------------------------------------
(* Scores, in 1/500: Full is a score of 1.0.  Rounding down does not change *)
(* a comparison with a threshold, which is a whole number of them.          *)

Full == 500
Min2(a, b) == IF a < b THEN a ELSE b

(* a latency of a second or more is 1.0 *)
ToFeatures(h) == <<h.cpu, h.memory, h.disk, h.network, Min2(h.latency \div 10, 100)>>

(* ONNXSession.Run: the mean of the features *)
ModelScore(h) ==
  LET f == ToFeatures(h) IN f[1] + f[2] + f[3] + f[4] + f[5]

(* one rule: 0.75 and a quarter for the way from the threshold to the top  *)
(* of the scale; where the two coincide, 0/0 is not a number and x/0 is    *)
(* infinite                                                                *)
RuleScore(value, threshold, top) ==
  CASE threshold = top /\ value = top -> NaN
    [] threshold = top /\ value > top -> Full
    [] threshold # top ->
         Min2(375 + (125 * (value - threshold)) \div (top - threshold), Full)

(* evaluateRules: the first rule that triggers decides *)
RulesScore(h) ==
  CASE h.cpu >= config.cpu -> RuleScore(h.cpu, config.cpu, 100)
    [] h.cpu < config.cpu /\ h.memory >= config.memory ->
         RuleScore(h.memory, config.memory, 100)
    [] h.cpu < config.cpu /\ h.memory < config.memory /\ h.latency >= config.latency ->
         RuleScore(h.latency, config.latency, 1000)
    [] OTHER -> 0

(* "score < threshold" is false of a score that is not a number *)
BelowThreshold(score) == score # NaN /\ score < 5 * config.threshold

SelectAction(h, score) ==
  CASE score # NaN /\ score >= 450 /\ h.cpu > 90 /\ h.memory > 85 -> "node_cordon"
    [] ~(score # NaN /\ score >= 450 /\ h.cpu > 90 /\ h.memory > 85)
         /\ h.latency > 500 /\ h.cpu < 70 -> "workload_reschedule"
    [] OTHER -> "pod_restart"

-----------------------------------------------------------------------------
(* What a worker knows of its heartbeat.  outcome says how the last one    *)
(* ended: "none" yet, "quiet" (no action), "error" or, and then the job is *)
(* kept, "acted".                                                          *)
NoJob == [pc |-> "idle", hb |-> NoHeartbeat, nan |-> FALSE, action |-> "none", pods |-> {},
          fresh |-> FALSE, todo |-> {}, outcome |-> "none"]

(* a reschedule that has its list of pods *)
Listed(j) ==
  /\ j.action = "workload_reschedule"
  /\ j.pc \in {"restart", "emit", "export"} \/ (j.pc = "idle" /\ j.outcome = "acted")

At(w, pc) == job[w].pc = pc /\ ~crashed
Step(w, new) == job' = [job EXCEPT ![w] = new]
Ended(j, outcome) ==
  IF outcome = "acted" THEN [j EXCEPT !.pc = "idle", !.outcome = outcome]
  ELSE [NoJob EXCEPT !.outcome = outcome]
Answer(w, outcome) == Step(w, Ended(job[w], outcome))

Init ==
  /\ module = "new"
  /\ config \in Configs
  /\ crashed = FALSE
  /\ modelFile = "unusable"
  /\ session = FALSE
  /\ loads = 0
  /\ lock = Nobody
  /\ cordoned = {}
  /\ place \in [Pods -> Nodes]
  /\ doomed = {}
  /\ spared = [w \in Workers |-> {}]
  /\ job = [w \in Workers |-> NoJob]
  /\ received = [b \in Backends |-> {}]

(* EarthwormModule.Start, NewAgent: a provider and an emitter are there *)
Start ==
  /\ module = "new"
  /\ config' = Validated(config)
  /\ module' = IF Valid(config') /\ HasK8s THEN "started" ELSE "failed"
  /\ UNCHANGED <<crashed, model, cluster, job, received>>

Stop ==
  /\ module = "started"
  /\ module' = "stopped"
  /\ UNCHANGED <<config, crashed, model, cluster, job, received>>

(* EarthwormModule.ProcessHeartbeat finds m.agent set ... *)
Heartbeat(w) ==
  /\ At(w, "idle")
  /\ module = "started"
  /\ \E h \in Heartbeats : Step(w, [NoJob EXCEPT !.pc = "enter", !.hb = h])
  /\ received' = [b \in Backends |-> received[b] \ {w}]
  /\ spared' = [spared EXCEPT ![w] = {}]
  /\ UNCHANGED <<module, config, crashed, model, cordoned, place, doomed>>

(* ... or reads nil and refuses *)
Refuse(w) ==
  /\ At(w, "idle")
  /\ module # "started"
  /\ Step(w, [NoJob EXCEPT !.outcome = "error"])
  /\ received' = [b \in Backends |-> received[b] \ {w}]
  /\ spared' = [spared EXCEPT ![w] = {}]
  /\ UNCHANGED <<module, config, crashed, model, cordoned, place, doomed>>

(* ... and reads m.agent again to call it: nil after a Stop in between, *)
(* which panics                                                         *)
Enter(w) ==
  /\ At(w, "enter")
  /\ \/ module = "started" /\ Step(w, [job[w] EXCEPT !.pc = "predict"]) /\ UNCHANGED crashed
     \/ module # "started" /\ crashed' = TRUE /\ UNCHANGED job
  /\ UNCHANGED <<module, config, model, cluster, received>>

-----------------------------------------------------------------------------
(* getAnomalyScore *)

(* the first step of a remediation, or none *)
Decide(w, score) ==
  LET h      == job[w].hb
      action == SelectAction(h, score)
      pc     == IF action = "pod_restart" THEN "list" ELSE "get"
  IN  IF BelowThreshold(score)
      THEN Answer(w, "quiet")
      ELSE Step(w, [job[w] EXCEPT !.pc = pc, !.nan = (score = NaN), !.action = action])

(* Predict, up to the look into the cache: the caller's context may be     *)
(* cancelled (an error) or past its deadline (the rules)                   *)
Predict(w) ==
  /\ At(w, "predict")
  /\ \/ Answer(w, "error")
     \/ Decide(w, RulesScore(job[w].hb))
     \/ session /\ Decide(w, ModelScore(job[w].hb))
     \/ ~session /\ Step(w, [job[w] EXCEPT !.pc = "lock"])
  /\ UNCHANGED <<module, config, crashed, model, cluster, received>>

(* getOrLoadSession takes lp.mu for writing ... *)
LockModels(w) ==
  /\ At(w, "lock")
  /\ lock = Nobody
  /\ lock' = w
  /\ Step(w, [job[w] EXCEPT !.pc = "load"])
  /\ UNCHANGED <<module, config, crashed, modelFile, session, loads, cluster, received>>

(* ... looks again, and loads the file; without one the rules decide *)
MutLoad(w) ==                               \* without the second look
  /\ At(w, "load")
  /\ lock' = Nobody
  /\ \/ /\ modelFile = "good"
        /\ session' = TRUE
        /\ loads' = loads + 1
        /\ Decide(w, ModelScore(job[w].hb))
     \/ /\ modelFile # "good"
        /\ UNCHANGED <<session, loads>>
        /\ Decide(w, RulesScore(job[w].hb))
  /\ UNCHANGED <<module, config, crashed, modelFile, cluster, received>>
MutLoadFailed(w) ==                         \* an early return keeps the lock
  /\ At(w, "load")
  /\ \/ /\ modelFile = "good"
        /\ session' = TRUE
        /\ loads' = loads + 1
        /\ lock' = Nobody
        /\ Decide(w, ModelScore(job[w].hb))
     \/ /\ modelFile # "good"
        /\ UNCHANGED <<session, loads, lock>>
        /\ Decide(w, RulesScore(job[w].hb))
  /\ UNCHANGED <<module, config, crashed, modelFile, cluster, received>>
Load(w) ==
  /\ At(w, "load")
  /\ lock' = Nobody
  /\ \/ /\ session
        /\ UNCHANGED <<session, loads>>
        /\ Decide(w, ModelScore(job[w].hb))
     \/ /\ ~session /\ modelFile = "good"
        /\ session' = TRUE
        /\ loads' = loads + 1
        /\ Decide(w, ModelScore(job[w].hb))
     \/ /\ ~session /\ modelFile # "good"
        /\ UNCHANGED <<session, loads>>
        /\ Decide(w, RulesScore(job[w].hb))
  /\ UNCHANGED <<module, config, crashed, modelFile, cluster, received>>

-----------------------------------------------------------------------------
(* executeRemediation, over the calls of k8sclient.go *)

AfterCordon(w) == IF job[w].action = "node_cordon" THEN "emit" ELSE "list"

(* CordonNode reads the node ... *)
GetNode(w) ==
  /\ At(w, "get")
  /\ \/ Answer(w, "error")
     \/ /\ job[w].hb.node \in cordoned
        /\ Step(w, [job[w] EXCEPT !.pc = AfterCordon(w)])
     \/ /\ job[w].hb.node \notin cordoned
        /\ Step(w, [job[w] EXCEPT !.pc = "update", !.fresh = TRUE])
  /\ UNCHANGED <<module, config, crashed, model, cluster, received>>

(* an object of the node is written: what workers have read of it is old *)
Stale(node, jobs) ==
  [w \in Workers |-> IF jobs[w].pc = "update" /\ jobs[w].hb.node = node
                     THEN [jobs[w] EXCEPT !.fresh = FALSE] ELSE jobs[w]]

(* ... and updates it, if it did not change in between *)
UpdateNode(w) ==
  /\ At(w, "update")
  /\ LET node == job[w].hb.node
     IN  \/ /\ job[w].fresh
            /\ cordoned' = cordoned \cup {node}
            /\ \/ job' = Stale(node, [job EXCEPT ![w].pc = AfterCordon(w), ![w].fresh = FALSE])
               \/ job' = Stale(node, [job EXCEPT ![w] = Ended(job[w], "error")])
         \/ UNCHANGED cordoned /\ Answer(w, "error")
  /\ UNCHANGED <<module, config, crashed, model, place, doomed, spared, received>>

(* ListPods of all namespaces, without a filter: the pods on the node, or  *)
(* the first of them                                                       *)
ListPods(w) ==
  /\ At(w, "list")
  /\ \/ Answer(w, "error")
     \/ LET there == {p \in Pods : place[p] = job[w].hb.node}
        IN  \E pods \in SUBSET there :
              /\ \/ job[w].action = "workload_reschedule" /\ pods = there
                 \/ job[w].action = "pod_restart" /\ Cardinality(pods) = Min2(1, Cardinality(there))
              /\ Step(w, [job[w] EXCEPT !.pc = "restart", !.pods = pods])
  /\ UNCHANGED <<module, config, crashed, model, cluster, received>>

(* the API accepts a deletion; a pod that is on no node goes at once *)
Delete(p) == doomed' = IF place[p] = Gone THEN doomed ELSE doomed \cup {p}

(* RestartPod: a reschedule only logs a failure and spares the pod, a      *)
(* restart returns it                                                      *)
MutRestartPod(w) ==                         \* a reschedule, too, restarts one pod only
  /\ At(w, "restart")
  /\ \/ /\ job[w].pods = {}
        /\ Step(w, [job[w] EXCEPT !.pc = "emit"])
        /\ UNCHANGED <<doomed, spared>>
     \/ \E p \in job[w].pods :
          LET left  == [job[w] EXCEPT !.pods = {}]
              Fails == IF job[w].action = "pod_restart"
                       THEN Answer(w, "error") /\ UNCHANGED spared
                       ELSE /\ Step(w, left)
                            /\ spared' = [spared EXCEPT ![w] =
                                            IF place[p] = job[w].hb.node THEN @ \cup {p} ELSE @]
          IN  \/ Delete(p) /\ (Fails \/ (Step(w, left) /\ UNCHANGED spared))
              \/ UNCHANGED doomed /\ Fails
  /\ UNCHANGED <<module, config, crashed, model, cordoned, place, received>>
RestartPod(w) ==
  /\ At(w, "restart")
  /\ \/ /\ job[w].pods = {}
        /\ Step(w, [job[w] EXCEPT !.pc = "emit"])
        /\ UNCHANGED <<doomed, spared>>
     \/ \E p \in job[w].pods :
          LET left  == [job[w] EXCEPT !.pods = @ \ {p}]
              Fails == IF job[w].action = "pod_restart"
                       THEN Answer(w, "error") /\ UNCHANGED spared
                       ELSE /\ Step(w, left)
                            /\ spared' = [spared EXCEPT ![w] =
                                            IF place[p] = job[w].hb.node THEN @ \cup {p} ELSE @]
          IN  \/ Delete(p) /\ (Fails \/ (Step(w, left) /\ UNCHANGED spared))
              \/ UNCHANGED doomed /\ Fails
  /\ UNCHANGED <<module, config, crashed, model, cordoned, place, received>>

-----------------------------------------------------------------------------
(* emitActionEvent, kernel.Emit, MultiExporter.Export: one goroutine per   *)
(* backend, all of them awaited; a score that is not a number has no JSON  *)
Emit(w) ==
  /\ At(w, "emit")
  /\ IF job[w].nan
     THEN Answer(w, "acted")
     ELSE Step(w, [job[w] EXCEPT !.pc = "export", !.todo = Backends])
  /\ UNCHANGED <<module, config, crashed, model, cluster, received>>

Send(w, b) ==
  /\ At(w, "export")
  /\ b \in job[w].todo
  /\ Step(w, [job[w] EXCEPT !.todo = @ \ {b}])
  /\ received' = IF b \in Faulty THEN received ELSE [received EXCEPT ![b] = @ \cup {w}]
  /\ UNCHANGED <<module, config, crashed, model, cluster>>

MutExported(w) ==                           \* does not wait for the backends
  /\ At(w, "export")
  /\ Answer(w, "acted")
  /\ UNCHANGED <<module, config, crashed, model, cluster, received>>
Exported(w) ==
  /\ At(w, "export")
  /\ job[w].todo = {}
  /\ Answer(w, "acted")
  /\ UNCHANGED <<module, config, crashed, model, cluster, received>>

-----------------------------------------------------------------------------
(* The cluster and the model directory *)

NodeTouched(n) ==
  /\ job' = Stale(n, job)
  /\ job' # job
  /\ UNCHANGED <<module, config, crashed, model, cluster, received>>

(* the grace period of a deleted pod is over *)
Terminate(p) ==
  /\ p \in doomed
  /\ place' = [place EXCEPT ![p] = Gone]
  /\ doomed' = doomed \ {p}
  /\ spared' = [w \in Workers |-> spared[w] \ {p}]
  /\ UNCHANGED <<module, config, crashed, model, cordoned, job, received>>

(* a pod lands on a node, after the list or the cordon of some workers *)
Schedule(p) ==
  /\ place[p] = Gone
  /\ \E n \in Nodes :
       /\ place' = [place EXCEPT ![p] = n]
       /\ spared' = [w \in Workers |->
                     IF Listed(job[w]) /\ job[w].hb.node = n /\ n \in cordoned
                     THEN spared[w] \cup {p} ELSE spared[w]]
  /\ UNCHANGED <<module, config, crashed, model, cordoned, doomed, job, received>>

(* the file is written, or emptied or removed; nobody looks at it once the *)
(* session is there                                                        *)
ModelDelivery ==
  /\ ~session
  /\ modelFile' = IF modelFile = "good" THEN "unusable" ELSE "good"
  /\ UNCHANGED <<module, config, crashed, session, loads, lock, cluster, job, received>>

-----------------------------------------------------------------------------
Work(w) ==
  \/ Enter(w) \/ Predict(w) \/ LockModels(w) \/ Load(w)
  \/ GetNode(w) \/ UpdateNode(w) \/ ListPods(w) \/ RestartPod(w)
  \/ Emit(w) \/ (\E b \in Backends : Send(w, b)) \/ Exported(w)

Next ==
  \/ Start \/ Stop \/ ModelDelivery
  \/ \E w \in Workers : Heartbeat(w) \/ Refuse(w) \/ Work(w)
  \/ \E n \in Nodes : NodeTouched(n)
  \/ \E p \in Pods : Terminate(p) \/ Schedule(p)

Spec == Init /\ [][Next]_vars

(* goroutines are scheduled, and calls return; a mutex is given to a waiter *)
(* that waits again and again                                               *)
FairSpec == Spec /\ \A w \in Workers : WF_vars(Work(w)) /\ SF_vars(LockModels(w))

-----------------------------------------------------------------------------
Pcs == {"idle", "enter", "predict", "lock", "load", "get", "update", "list", "restart",
        "emit", "export"}
Job == [pc : Pcs, hb : Heartbeats \cup {NoHeartbeat}, nan : BOOLEAN,
        action : {"none", "node_cordon", "workload_reschedule", "pod_restart"},
        pods : SUBSET Pods, fresh : BOOLEAN, todo : SUBSET Backends,
        outcome : {"none", "quiet", "error", "acted"}]

(* Every variable has its type. *)
TypeOK ==
  /\ module \in {"new", "started", "failed", "stopped"}
  /\ crashed \in BOOLEAN /\ session \in BOOLEAN
  /\ modelFile \in {"unusable", "good"}
  /\ loads \in Nat
  /\ lock \in Workers \cup {Nobody}
  /\ cordoned \subseteq Nodes
  /\ place \in [Pods -> Nodes \cup {Gone}]
  /\ doomed \subseteq Pods
  /\ spared \in [Workers -> SUBSET Pods]
  /\ job \in [Workers -> Job]
  /\ received \in [Backends -> SUBSET Workers]

(* However many heartbeats find the cache empty at once, one session is    *)
(* created, and it is there to stay. (local_provider.go getOrLoadSession)  *)
LoadedOnce == loads = IF session THEN 1 ELSE 0

HasActed(w) == job[w].pc = "idle" /\ job[w].outcome = "acted"

(* What a finished remediation promises still holds, whatever happened     *)
(* since.  The node is cordoned, and after a reschedule each pod on the    *)
(* node is being deleted, or could not be, or came both after the node was *)
(* cordoned and after its pods were listed, as a pod may that a cordon     *)
(* does not keep away: no pod that was there before slips through between  *)
(* the cordon, the list and the deletions. (agent.go executeRemediation,   *)
(* k8sclient.go CordonNode)                                                *)
RemediationHolds ==
  \A w \in Workers :
    HasActed(w) /\ job[w].action # "pod_restart" =>
      /\ job[w].hb.node \in cordoned
      /\ job[w].action = "workload_reschedule" =>
           \A p \in Pods : place[p] = job[w].hb.node => p \in doomed \cup spared[w]

(* Every finished remediation was reported to each backend that works,     *)
(* whatever the others did, unless its score was not a number; and nothing *)
(* was reported that did not finish. (agent.go ProcessHeartbeat,           *)
(* multi_exporter.go Export)                                               *)
ActionsReported ==
  \A w \in Workers :
    /\ HasActed(w) /\ ~job[w].nan =>
         \A b \in Backends \ Faulty : w \in received[b]
    /\ (\E b \in Backends : w \in received[b]) => job[w].pc = "export" \/ HasActed(w)

(* Each heartbeat is answered, unless the process panics.                  *)
(* (module.go ProcessHeartbeat)                                            *)
HeartbeatsAnswered ==
  \A w \in Workers : job[w].pc # "idle" ~> (job[w].pc = "idle" \/ crashed)
=============================================================================

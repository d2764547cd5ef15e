-------------------------- MODULE EarthwormProofs --------------------------
(***************************************************************************)
(* Proofs about Earthworm, for any number of workers, nodes, pods,         *)
(* heartbeats and backends: every variable has its type, the model is      *)
(* loaded once, what a remediation did lasts, and it is reported to the    *)
(* backends that work.                                                     *)
(***************************************************************************)
EXTENDS Earthworm, TLAPS

Actions  == {"none", "node_cordon", "workload_reschedule", "pod_restart"}
Outcomes == {"none", "quiet", "error", "acted"}

(* A finished remediation. *)
Acted(j) == j.pc = "idle" /\ j.outcome = "acted"

(* Whoever works on a heartbeat has one. *)
Busy(j) == j.pc # "idle" => j.hb \in Heartbeats
TypeInv == TypeOK /\ \A w \in Workers : Busy(job[w])

(* A job that has changed nothing in the cluster and reported nothing. *)
Early(j) ==
  \/ j.pc \in {"enter", "predict", "lock", "load", "get", "update"}
  \/ j.pc = "list" /\ j.action = "pod_restart"
  \/ j.pc = "idle" /\ j.outcome # "acted"

(* What a step of one worker does to its job. *)
Moves(w, new) == new \in Job /\ Busy(new) /\ job' = [job EXCEPT ![w] = new]
EarlyMove(w) == \E new \in Job : Early(new) /\ Moves(w, new)

-----------------------------------------------------------------------------
(* Jobs *)

(* The first job, and what it becomes when a heartbeat is taken or refused. *)
LEMMA NewJobs ==
  /\ NoJob \in Job
  /\ \A h \in Heartbeats : [NoJob EXCEPT !.pc = "enter", !.hb = h] \in Job
  /\ \A outcome \in Outcomes : [NoJob EXCEPT !.outcome = outcome] \in Job
<1>1. NoJob \in Job
  BY DEF NoJob, Job, Pcs
<1>2. ASSUME NEW h \in Heartbeats
      PROVE  [NoJob EXCEPT !.pc = "enter", !.hb = h] \in Job
  <2>1. [NoJob EXCEPT !.pc = "enter", !.hb = h] =
          [[NoJob EXCEPT !.pc = "enter"] EXCEPT !.hb = h]
    OBVIOUS
  <2>2. ASSUME NEW j \in Job
        PROVE  [j EXCEPT !.pc = "enter"] \in Job /\ [j EXCEPT !.hb = h] \in Job
    BY DEF Job, Pcs
  <2> QED BY <1>1, <2>1, <2>2
<1>3. ASSUME NEW outcome \in Outcomes
      PROVE  [NoJob EXCEPT !.outcome = outcome] \in Job
  BY <1>1 DEF Job, Outcomes
<1> QED BY <1>1, <1>2, <1>3

(* An ended job is a job. *)
LEMMA EndedIsJob ==
  ASSUME NEW j \in Job, NEW outcome \in Outcomes
  PROVE  /\ Ended(j, outcome) \in Job
         /\ Ended(j, outcome).pc = "idle"
         /\ Ended(j, outcome).outcome = outcome
<1>1. CASE outcome = "acted"
  BY <1>1 DEF Ended, Job, Pcs
<1>2. CASE outcome # "acted"
  <2>1. Ended(j, outcome) = [NoJob EXCEPT !.outcome = outcome]
    BY <1>2 DEF Ended
  <2> QED BY <2>1, NewJobs DEF NoJob
<1> QED BY <1>1, <1>2

(* The decision on a score ends the job or starts a remediation. *)
LEMMA DecideIsEarly ==
  ASSUME TypeInv, NEW w \in Workers, job[w].pc # "idle", NEW score, Decide(w, score)
  PROVE  EarlyMove(w)
<1> DEFINE h      == job[w].hb
           action == SelectAction(h, score)
           pc     == IF action = "pod_restart" THEN "list" ELSE "get"
           new    == [job[w] EXCEPT !.pc = pc, !.nan = (score = NaN), !.action = action]
<1>1. job[w] \in Job /\ job[w].hb \in Heartbeats
  BY DEF TypeInv, TypeOK, Busy
<1>2. action \in {"node_cordon", "workload_reschedule", "pod_restart"}
  BY DEF SelectAction
<1>3. CASE BelowThreshold(score)
  <2>1. Step(w, Ended(job[w], "quiet"))
    BY <1>3 DEF Decide, Answer
  <2> QED BY <1>1, <2>1, EndedIsJob DEF EarlyMove, Moves, Early, Busy, Step, Outcomes
<1>4. CASE ~BelowThreshold(score)
  <2>1. Step(w, new)
    BY <1>4 DEF Decide
  <2> HIDE DEF action
  <2>2. new \in Job /\ new.hb \in Heartbeats /\ Early(new)
    BY <1>1, <1>2 DEF Job, Pcs, Early
  <2> QED BY <2>1, <2>2 DEF EarlyMove, Moves, Busy, Step
<1> QED BY <1>3, <1>4

(* A job that ends without acting is early. *)
LEMMA AnswerIsEarly ==
  ASSUME TypeInv, NEW w \in Workers, NEW outcome \in {"quiet", "error"}, Answer(w, outcome)
  PROVE  EarlyMove(w)
<1>1. job[w] \in Job
  BY DEF TypeInv, TypeOK
<1> QED BY <1>1, EndedIsJob DEF Answer, Step, EarlyMove, Moves, Early, Busy, Outcomes

(* Up to the load of the model nothing is done but to the job, and a new *)
(* one spares no pod.                                                    *)
LEMMA FirstSteps ==
  ASSUME TypeInv, NEW w \in Workers,
         Heartbeat(w) \/ Refuse(w) \/ Enter(w) \/ Predict(w) \/ LockModels(w) \/ Load(w)
           \/ (GetNode(w) /\ job'[w].pc \in {"idle", "update"})
  PROVE  /\ EarlyMove(w) /\ UNCHANGED <<cordoned, place, doomed>>
         /\ \A v \in Workers \ {w} : spared'[v] = spared[v]
<1> USE DEF cluster
<1>1. job[w] \in Job /\ Busy(job[w]) /\ job \in [Workers -> Job] /\ spared \in [Workers -> SUBSET Pods]
  BY DEF TypeInv, TypeOK
<1>2. CASE Heartbeat(w)
  <2> PICK h \in Heartbeats : Step(w, [NoJob EXCEPT !.pc = "enter", !.hb = h])
    BY <1>2 DEF Heartbeat
  <2> DEFINE new == [NoJob EXCEPT !.pc = "enter", !.hb = h]
  <2>1. new \in Job /\ new.pc = "enter" /\ new.hb = h
    BY NewJobs DEF NoJob
  <2> HIDE DEF new
  <2>2. Step(w, new)
    BY DEF new
  <2>3. EarlyMove(w)
    BY <2>1, <2>2 DEF EarlyMove, Moves, Early, Busy, Step
  <2> QED BY <1>1, <1>2, <2>3 DEF Heartbeat
<1>3. CASE Refuse(w)
  <2> DEFINE new == [NoJob EXCEPT !.outcome = "error"]
  <2>1. new \in Job /\ new.pc = "idle" /\ new.outcome = "error"
    BY NewJobs DEF NoJob, Outcomes
  <2> HIDE DEF new
  <2>2. Step(w, new)
    BY <1>3 DEF Refuse, new
  <2>3. EarlyMove(w)
    BY <2>1, <2>2 DEF EarlyMove, Moves, Early, Busy, Step
  <2> QED BY <1>1, <1>3, <2>3 DEF Refuse
<1>4. CASE Enter(w)
  <2>1. CASE Step(w, [job[w] EXCEPT !.pc = "predict"])
    BY <2>1, <1>4, <1>1 DEF Enter, At, EarlyMove, Moves, Early, Busy, Step, Job, Pcs
  <2>2. CASE UNCHANGED job
    <3>1. job' = [job EXCEPT ![w] = job[w]]
      BY <2>2, <1>1
    <3> QED BY <3>1, <1>4, <1>1 DEF Enter, At, EarlyMove, Moves, Early
  <2> QED BY <1>4, <2>1, <2>2 DEF Enter, cluster
<1>5. CASE Predict(w)
  <2>1. CASE Answer(w, "error")
    BY <2>1, <1>5, AnswerIsEarly DEF Predict
  <2>2. CASE \E score : Decide(w, score)
    BY <1>5, <2>2, DecideIsEarly DEF Predict, At
  <2>3. CASE Step(w, [job[w] EXCEPT !.pc = "lock"])
    BY <2>3, <1>5, <1>1 DEF Predict, At, EarlyMove, Moves, Early, Busy, Step, Job, Pcs
  <2> QED BY <1>5, <2>1, <2>2, <2>3 DEF Predict
<1>6. CASE LockModels(w)
  BY <1>6, <1>1 DEF LockModels, At, EarlyMove, Moves, Early, Busy, Step, Job, Pcs, cluster
<1>7. CASE Load(w)
  <2>1. \E score : Decide(w, score)
    BY <1>7 DEF Load
  <2> QED BY <1>7, <2>1, DecideIsEarly DEF Load, At
<1>8. CASE GetNode(w) /\ job'[w].pc \in {"idle", "update"}
  <2>1. CASE Answer(w, "error")
    BY <2>1, AnswerIsEarly, <1>8 DEF GetNode
  <2>2. CASE Step(w, [job[w] EXCEPT !.pc = AfterCordon(w)])
    BY <2>2, <1>1, <1>8 DEF Step, AfterCordon, Job
  <2>3. CASE Step(w, [job[w] EXCEPT !.pc = "update", !.fresh = TRUE])
    BY <2>3, <1>8, <1>1 DEF GetNode, At, EarlyMove, Moves, Early, Busy, Step, Job, Pcs
  <2> QED BY <1>8, <2>1, <2>2, <2>3 DEF GetNode
<1> QED BY <1>2, <1>3, <1>4, <1>5, <1>6, <1>7, <1>8

(* Two jobs that differ at most in how late their read is. *)
SameButFresh(k, j) ==
  /\ k.pc = j.pc /\ k.hb = j.hb /\ k.nan = j.nan /\ k.action = j.action
  /\ k.pods = j.pods /\ k.todo = j.todo /\ k.outcome = j.outcome

(* What the others have read of a node gets old, and nothing else happens  *)
(* to their jobs.                                                          *)
LEMMA StaleChangesFresh ==
  ASSUME NEW jobs \in [Workers -> Job], NEW node
  PROVE  /\ Stale(node, jobs) \in [Workers -> Job]
         /\ \A v \in Workers : SameButFresh(Stale(node, jobs)[v], jobs[v])
<1>1. ASSUME NEW j \in Job
      PROVE  /\ [j EXCEPT !.fresh = FALSE] \in Job
             /\ SameButFresh([j EXCEPT !.fresh = FALSE], j)
  BY DEF Job, SameButFresh
<1>2. ASSUME NEW j \in Job
      PROVE  SameButFresh(j, j)
  BY DEF SameButFresh
<1> QED BY <1>1, <1>2 DEF Stale

(* The node is cordoned, with or without an update; or the update failed,  *)
(* before or after it took effect.                                         *)
Cordons(w, new) ==
  /\ new \in Job /\ Busy(new)
  /\ SameButFresh(new, [job[w] EXCEPT !.pc = AfterCordon(w)]) \/ Early(new)
  /\ \/ /\ cordoned' = cordoned \cup {job[w].hb.node}
        /\ job' = Stale(job[w].hb.node, [job EXCEPT ![w] = new])
     \/ /\ UNCHANGED cordoned
        /\ job' = [job EXCEPT ![w] = new]
        /\ Early(new)

(* An update is one of these.                                              *)
LEMMA UpdateNodeCordons ==
  ASSUME TypeInv, NEW w \in Workers, UpdateNode(w)
  PROVE  \E new \in Job : Cordons(w, new)
<1> DEFINE node  == job[w].hb.node
           after == [job[w] EXCEPT !.pc = AfterCordon(w)]
           done  == [after EXCEPT !.fresh = FALSE]
           fails == Ended(job[w], "error")
<1>1. job[w] \in Job /\ job[w].hb \in Heartbeats /\ job \in [Workers -> Job]
  BY DEF TypeInv, TypeOK, Busy, UpdateNode, At
<1>2. after \in Job /\ after.hb = job[w].hb
  BY <1>1 DEF AfterCordon, Job, Pcs
<1>3. done \in Job /\ SameButFresh(done, after) /\ Busy(done)
  BY <1>1, <1>2 DEF Job, SameButFresh, Busy
<1>4. [job EXCEPT ![w].pc = AfterCordon(w), ![w].fresh = FALSE] = [job EXCEPT ![w] = done]
  BY <1>1
<1>5. fails \in Job /\ Early(fails) /\ Busy(fails)
  BY <1>1, EndedIsJob DEF Outcomes, Early, Busy
<1>6. \/ /\ cordoned' = cordoned \cup {node}
         /\ \/ job' = Stale(node, [job EXCEPT ![w] = done])
            \/ job' = Stale(node, [job EXCEPT ![w] = fails])
      \/ UNCHANGED cordoned /\ job' = [job EXCEPT ![w] = fails]
  BY <1>4 DEF UpdateNode, Answer, Step
<1> HIDE DEF done, fails, after
<1> QED BY <1>3, <1>5, <1>6 DEF Cordons, after

(* From the list of pods on a worker changes its own job only. *)
LEMMA LaterSteps ==
  ASSUME TypeInv, NEW w \in Workers,
         GetNode(w) \/ ListPods(w) \/ RestartPod(w) \/ Emit(w)
           \/ (\E b \in Backends : Send(w, b)) \/ Exported(w)
  PROVE  \E new \in Job : Moves(w, new)
<1>1. job[w] \in Job /\ job[w].hb \in Heartbeats /\ job \in [Workers -> Job]
  BY DEF TypeInv, TypeOK, Busy, GetNode, ListPods, RestartPod, Emit, Send, Exported, At
<1>2. ASSUME NEW outcome \in Outcomes, NEW left \in Job, Step(w, Ended(left, outcome))
      PROVE  \E new \in Job : Moves(w, new)
  BY <1>2, EndedIsJob DEF Moves, Busy, Step
<1>3. CASE GetNode(w)
  BY <1>3, <1>2, <1>1 DEF GetNode, Answer, Outcomes, Moves, Busy, Step, Job, Pcs, AfterCordon
<1>4. CASE ListPods(w)
  BY <1>4, <1>2, <1>1 DEF ListPods, Answer, Outcomes, Moves, Busy, Step, Job, Pcs
<1>5. CASE RestartPod(w)
  <2>1. CASE Step(w, [job[w] EXCEPT !.pc = "emit"])
    BY <2>1, <1>1 DEF Moves, Busy, Step, Job, Pcs
  <2>2. ASSUME NEW p \in job[w].pods
        PROVE  LET left == [job[w] EXCEPT !.pods = job[w].pods \ {p}]
               IN  left \in Job /\ left.hb = job[w].hb
    BY <1>1 DEF Job
  <2>3. \/ Step(w, [job[w] EXCEPT !.pc = "emit"])
        \/ \E p \in job[w].pods : \/ Step(w, [job[w] EXCEPT !.pods = job[w].pods \ {p}])
                                  \/ Answer(w, "error")
    BY <1>5 DEF RestartPod
  <2> QED BY <2>1, <2>2, <2>3, <1>2, <1>1 DEF Answer, Outcomes, Moves, Busy, Step
<1>6. CASE Emit(w)
  BY <1>6, <1>2, <1>1 DEF Emit, Answer, Outcomes, Moves, Busy, Step, Job, Pcs
<1>7. CASE \E b \in Backends : Send(w, b)
  BY <1>7, <1>1 DEF Send, Moves, Busy, Step, Job
<1>8. CASE Exported(w)
  BY <1>8, <1>2, <1>1 DEF Exported, Answer, Outcomes
<1> QED BY <1>3, <1>4, <1>5, <1>6, <1>7, <1>8

-----------------------------------------------------------------------------
(* Types *)

(* The jobs keep their types when one worker's job changes ... *)
LEMMA MoveKeepsTypes ==
  ASSUME TypeInv, NEW w \in Workers, NEW new, Moves(w, new)
  PROVE  job' \in [Workers -> Job] /\ \A v \in Workers : Busy(job'[v])
<1>1. job \in [Workers -> Job] /\ \A v \in Workers : Busy(job[v])
  BY DEF TypeInv, TypeOK
<1>2. new \in Job /\ Busy(new) /\ job' = [job EXCEPT ![w] = new]
  BY DEF Moves
<1> HIDE DEF Job, Busy
<1> QED BY <1>1, <1>2

(* ... and when the readers of a node are told that they are late. *)
LEMMA StaleKeepsTypes ==
  ASSUME NEW jobs \in [Workers -> Job], \A v \in Workers : Busy(jobs[v]),
         NEW node, job' = Stale(node, jobs)
  PROVE  job' \in [Workers -> Job] /\ \A v \in Workers : Busy(job'[v])
BY StaleChangesFresh DEF SameButFresh, Busy

(* ... or both.                                                            *)
LEMMA CordonKeepsTypes ==
  ASSUME TypeInv, NEW w \in Workers, NEW new, Cordons(w, new)
  PROVE  job' \in [Workers -> Job] /\ \A v \in Workers : Busy(job'[v])
<1>1. job \in [Workers -> Job] /\ \A v \in Workers : Busy(job[v])
  BY DEF TypeInv, TypeOK
<1>2. new \in Job /\ Busy(new)
  BY DEF Cordons
<1> DEFINE jobs == [job EXCEPT ![w] = new]
<1> HIDE DEF Job, Busy
<1>3. jobs \in [Workers -> Job] /\ \A v \in Workers : Busy(jobs[v])
  BY <1>1, <1>2
<1>4. job' = jobs \/ \E node : job' = Stale(node, jobs)
  BY DEF Cordons
<1> HIDE DEF jobs
<1>5. CASE job' = jobs
  BY <1>3, <1>5
<1>6. ASSUME NEW node, job' = Stale(node, jobs)
      PROVE  job' \in [Workers -> Job] /\ \A v \in Workers : Busy(job'[v])
  BY <1>3, <1>6, StaleKeepsTypes
<1> QED BY <1>4, <1>5, <1>6

(* Nobody works at first.                                                  *)
LEMMA TypeInvInit == Init => TypeInv
<1> SUFFICES ASSUME Init
             PROVE  TypeInv
  OBVIOUS
<1>1. job \in [Workers -> Job] /\ \A w \in Workers : job[w] = NoJob
  <2> HIDE DEF NoJob, Job
  <2> QED BY NewJobs DEF Init
<1>2. \A w \in Workers : Busy(job[w])
  BY <1>1 DEF Busy, NoJob
<1> QED BY <1>1, <1>2 DEF Init, TypeInv, TypeOK

(* What the steps do to the other variables. *)
LEMMA OthersKeepTypes ==
  ASSUME TypeInv, Next
  PROVE  /\ module' \in {"new", "started", "failed", "stopped"}
         /\ crashed' \in BOOLEAN /\ session' \in BOOLEAN
         /\ modelFile' \in {"unusable", "good"}
         /\ loads' \in Nat
         /\ lock' \in Workers \cup {Nobody}
         /\ cordoned' \subseteq Nodes
         /\ place' \in [Pods -> Nodes \cup {Gone}]
         /\ doomed' \subseteq Pods
         /\ spared' \in [Workers -> SUBSET Pods]
         /\ received' \in [Backends -> SUBSET Workers]
<1> USE DEF TypeInv, TypeOK, model, cluster
<1>1. CASE Start
  BY <1>1 DEF Start
<1>2. CASE Stop
  BY <1>2 DEF Stop
<1>3. CASE ModelDelivery
  <2>1. modelFile' \in {"unusable", "good"}
    BY <1>3 DEF ModelDelivery
  <2> QED BY <1>3, <2>1 DEF ModelDelivery
<1>4. ASSUME NEW w \in Workers, Heartbeat(w) \/ Refuse(w) \/ Work(w)
      PROVE  /\ module' = module
             /\ crashed' \in BOOLEAN /\ session' \in BOOLEAN
             /\ modelFile' = modelFile
             /\ loads' \in Nat
             /\ lock' \in Workers \cup {Nobody}
             /\ cordoned' \subseteq Nodes
             /\ place' \in [Pods -> Nodes \cup {Gone}]
             /\ doomed' \subseteq Pods
             /\ spared' \in [Workers -> SUBSET Pods]
             /\ received' \in [Backends -> SUBSET Workers]
  <2>1. CASE Heartbeat(w)
    BY <2>1 DEF Heartbeat
  <2>2. CASE Refuse(w)
    BY <2>2 DEF Refuse
  <2>3. CASE Enter(w)
    BY <2>3 DEF Enter
  <2>4. CASE Predict(w)
    BY <2>4 DEF Predict
  <2>5. CASE LockModels(w)
    BY <2>5 DEF LockModels
  <2>6. CASE Load(w)
    <3>1. session' \in BOOLEAN /\ loads' \in {loads, loads + 1} /\ lock' = Nobody
      BY <2>6 DEF Load
    <3>2. UNCHANGED <<module, crashed, modelFile, cordoned, place, doomed, spared, received>>
      BY <2>6 DEF Load
    <3> QED BY <3>1, <3>2
  <2>7. CASE GetNode(w)
    BY <2>7 DEF GetNode
  <2>8. CASE UpdateNode(w)
    <3>1. job[w].hb.node \in Nodes
      BY <2>8, EarthwormAssumption DEF Busy, UpdateNode, At
    <3>2. cordoned' \subseteq Nodes
      BY <2>8, <3>1 DEF UpdateNode
    <3> QED BY <2>8, <3>2 DEF UpdateNode
  <2>9. CASE ListPods(w)
    BY <2>9 DEF ListPods
  <2>10. CASE RestartPod(w)
    <3>1. job[w].pods \subseteq Pods
      BY <2>10 DEF RestartPod, At, Job
    <3>2. doomed' \subseteq Pods
      <4>1. \/ doomed' = doomed
            \/ \E p \in job[w].pods : Delete(p)
        BY <2>10 DEF RestartPod
      <4> QED BY <3>1, <4>1 DEF Delete
    <3>3. spared' = spared \/ \E p \in Pods : spared' = [spared EXCEPT ![w] = spared[w] \cup {p}]
      <4>1. \/ spared' = spared
            \/ \E p \in job[w].pods :
                 spared' = [spared EXCEPT ![w] =
                             IF place[p] = job[w].hb.node THEN spared[w] \cup {p} ELSE spared[w]]
        BY <2>10 DEF RestartPod
      <4> QED BY <3>1, <4>1
    <3>4. spared' \in [Workers -> SUBSET Pods]
      BY <3>3
    <3>5. UNCHANGED <<module, crashed, session, loads, modelFile, lock, cordoned, place, received>>
      BY <2>10 DEF RestartPod
    <3> QED BY <3>2, <3>4, <3>5
  <2>11. CASE Emit(w)
    BY <2>11 DEF Emit
  <2>12. CASE \E b \in Backends : Send(w, b)
    BY <2>12 DEF Send
  <2>13. CASE Exported(w)
    BY <2>13 DEF Exported
  <2> QED BY <1>4, <2>1, <2>2, <2>3, <2>4, <2>5, <2>6, <2>7, <2>8, <2>9, <2>10, <2>11,
             <2>12, <2>13 DEF Work
<1>5. CASE \E n \in Nodes : NodeTouched(n)
  BY <1>5 DEF NodeTouched
<1>6. CASE \E p \in Pods : Terminate(p) \/ Schedule(p)
  BY <1>6 DEF Terminate, Schedule
<1> QED BY <1>1, <1>2, <1>3, <1>4, <1>5, <1>6 DEF Next

(* Every step keeps the types, and a heartbeat with each worker.           *)
LEMMA TypeInvStep == TypeInv /\ [Next]_vars => TypeInv'
<1> SUFFICES ASSUME TypeInv, [Next]_vars
             PROVE  TypeInv'
  OBVIOUS
<1>1. CASE UNCHANGED vars
  BY <1>1 DEF vars, model, cluster, TypeInv, TypeOK, Busy
<1>2. CASE Next
  <2>1. SUFFICES job' \in [Workers -> Job] /\ \A v \in Workers : Busy(job'[v])
    BY <1>2, OthersKeepTypes DEF TypeInv, TypeOK
  <2>2. job \in [Workers -> Job] /\ \A v \in Workers : Busy(job[v])
    BY DEF TypeInv, TypeOK
  <2>3. CASE UNCHANGED job
    BY <2>2, <2>3
  <2>4. ASSUME NEW w \in Workers, Heartbeat(w) \/ Refuse(w) \/ Work(w)
        PROVE  job' \in [Workers -> Job] /\ \A v \in Workers : Busy(job'[v])
    <3>1. CASE UpdateNode(w)
      BY <3>1, UpdateNodeCordons, CordonKeepsTypes
    <3>2. CASE Heartbeat(w) \/ Refuse(w) \/ Enter(w) \/ Predict(w) \/ LockModels(w) \/ Load(w)
      BY <3>2, FirstSteps, MoveKeepsTypes DEF EarlyMove
    <3>3. CASE GetNode(w) \/ ListPods(w) \/ RestartPod(w) \/ Emit(w)
                 \/ (\E b \in Backends : Send(w, b)) \/ Exported(w)
      BY <3>3, LaterSteps, MoveKeepsTypes
    <3> QED BY <2>4, <3>1, <3>2, <3>3 DEF Work
  <2>5. CASE \E n \in Nodes : NodeTouched(n)
    BY <2>2, <2>5, StaleKeepsTypes DEF NodeTouched
  <2> QED BY <1>2, <2>3, <2>4, <2>5 DEF Next, Start, Stop, ModelDelivery, Terminate, Schedule
<1> QED BY <1>1, <1>2

(* Every variable of the earthworm module has its type. (module.go,        *)
(* agent.go, local_provider.go)                                            *)
THEOREM TypeCorrect == Spec => []TypeOK
<1>1. TypeInv => TypeOK
  BY DEF TypeInv
<1> QED BY <1>1, TypeInvInit, TypeInvStep, PTL DEF Spec

-----------------------------------------------------------------------------
(* The model *)

(* Only a load that looked again under the lock creates a session.         *)
LEMMA LoadedOnceStep == LoadedOnce /\ [Next]_vars => LoadedOnce'
<1> SUFFICES ASSUME LoadedOnce, [Next]_vars
             PROVE  LoadedOnce'
  OBVIOUS
<1>1. ASSUME NEW w \in Workers, Load(w)
      PROVE  LoadedOnce'
  BY <1>1 DEF Load, LoadedOnce
<1>2. CASE UNCHANGED <<session, loads>>
  BY <1>2 DEF LoadedOnce
<1>3. (\E w \in Workers : Load(w)) \/ UNCHANGED <<session, loads>>
  BY DEF Next, vars, model, Start, Stop, ModelDelivery, Heartbeat, Refuse, Work, Enter, Predict,
         LockModels, GetNode, UpdateNode, ListPods, RestartPod, Emit, Send, Exported,
         NodeTouched, Terminate, Schedule
<1> QED BY <1>1, <1>2, <1>3

(* However many heartbeats find the cache empty at once, one session is    *)
(* created. (local_provider.go getOrLoadSession)                           *)
THEOREM ModelLoadedOnce == Spec => []LoadedOnce
<1>1. Init => LoadedOnce
  BY DEF Init, LoadedOnce
<1> QED BY <1>1, LoadedOnceStep, PTL DEF Spec

-----------------------------------------------------------------------------
(* What a remediation did to the cluster *)

(* The work on the cluster that a job has behind it: its node is cordoned, *)
(* and of the pods that stay on the node since the list of a reschedule it *)
(* has the name, or they are spared.                                       *)
Sealed(j) == j.action # "pod_restart" /\ (j.pc \in {"list", "restart", "emit", "export"} \/ Acted(j))
Held(j, unschedulable, where, dying, left) ==
  Sealed(j) =>
    /\ j.hb.node \in unschedulable
    /\ j.action = "workload_reschedule" =>
         /\ j.pc # "list" =>
              \A p \in Pods : where[p] = j.hb.node => p \in j.pods \cup dying \cup left
         /\ j.pc \notin {"list", "restart"} => j.pods = {}
ClusterInv == \A w \in Workers : Held(job[w], cordoned, place, doomed, spared[w])

(* Nodes stay cordoned, and no pod is on a node that was not there before  *)
(* or whose deletion was under way and is no more.                         *)
ClusterStays ==
  /\ cordoned \subseteq cordoned'
  /\ \A p \in Pods :
       place'[p] # Gone => place'[p] = place[p] /\ (p \in doomed => p \in doomed')

(* A spared pod stays spared, as long as it is there.                      *)
SparedStay(w) == \A p \in spared[w] : place'[p] # Gone => p \in spared'[w]

(* What was done lasts in a cluster that stays.                            *)
LEMMA HeldStays ==
  ASSUME TypeInv, ClusterStays, NEW w \in Workers, SparedStay(w), NEW j,
         Held(j, cordoned, place, doomed, spared[w])
  PROVE  Held(j, cordoned', place', doomed', spared'[w])
<1>1. Sealed(j) => j.hb.node # Gone
  BY EarthwormAssumption DEF Held, TypeInv, TypeOK
<1> QED BY <1>1 DEF ClusterStays, SparedStay, Held

(* An early job has nothing behind it.                                     *)
LEMMA EarlyHolds ==
  ASSUME NEW j, Early(j), NEW unschedulable, NEW where, NEW dying, NEW left
  PROVE  Held(j, unschedulable, where, dying, left)
BY DEF Early, Held, Sealed, Acted

(* A late read does not matter to what was done.                           *)
LEMMA SameHolds ==
  ASSUME NEW j, NEW k, SameButFresh(k, j),
         NEW unschedulable, NEW where, NEW dying, NEW left,
         Held(j, unschedulable, where, dying, left)
  PROVE  Held(k, unschedulable, where, dying, left)
BY DEF SameButFresh, Held, Sealed, Acted

(* So it is enough to look at the job of the worker that moves.            *)
LEMMA MoveKeepsCluster ==
  ASSUME TypeInv, ClusterInv, ClusterStays, NEW w \in Workers, NEW new, Moves(w, new),
         \A v \in Workers \ {w} : SparedStay(v),
         Held(new, cordoned', place', doomed', spared'[w])
  PROVE  ClusterInv'
<1>1. job' = [job EXCEPT ![w] = new] /\ job \in [Workers -> Job]
  BY DEF Moves, TypeInv, TypeOK
<1>2. \A v \in Workers \ {w} : Held(job[v], cordoned', place', doomed', spared'[v])
  BY HeldStays DEF ClusterInv
<1> HIDE DEF Job, Held
<1> QED BY <1>1, <1>2 DEF ClusterInv

(* An update cordons the node, and tells the others that they are late.    *)
LEMMA CordonKeepsCluster ==
  ASSUME TypeInv, ClusterInv, NEW w \in Workers, UpdateNode(w)
  PROVE  ClusterInv'
<1>1. job \in [Workers -> Job] /\ job[w].pc = "update"
  BY DEF TypeInv, TypeOK, UpdateNode, At
<1> PICK new \in Job : Cordons(w, new)
  BY UpdateNodeCordons
<1> DEFINE node == job[w].hb.node
           jobs == [job EXCEPT ![w] = new]
           Keeps(v, j) == Held(j, cordoned', place', doomed', spared'[v])
<1>2. ClusterStays /\ \A v \in Workers : SparedStay(v)
  BY DEF UpdateNode, ClusterStays, SparedStay, Cordons
<1>3. \A v \in Workers : Keeps(v, job[v])
  BY <1>2, HeldStays DEF ClusterInv
<1>4. Keeps(w, new)
  <2>1. CASE Early(new)
    BY <2>1, EarlyHolds
  <2>2. CASE ~Early(new)
    <3> DEFINE after == [job[w] EXCEPT !.pc = AfterCordon(w)]
    <3>1. SameButFresh(new, after) /\ node \in cordoned'
      BY <2>2 DEF Cordons
    <3>2. /\ after.hb = job[w].hb /\ after.action = job[w].action
          /\ after.pc = IF job[w].action = "node_cordon" THEN "emit" ELSE "list"
      BY <1>1 DEF Job, AfterCordon
    <3> HIDE DEF after
    <3>3. Keeps(w, after)
      BY <3>1, <3>2 DEF Held
    <3> QED BY <3>1, <3>3, SameHolds
  <2> QED BY <2>1, <2>2
<1> HIDE DEF Keeps
<1>5. jobs \in [Workers -> Job] /\ \A v \in Workers : Keeps(v, jobs[v])
  <2> HIDE DEF Job
  <2> QED BY <1>1, <1>3, <1>4
<1>6. job' = jobs \/ job' = Stale(node, jobs)
  BY DEF Cordons
<1> HIDE DEF jobs, node
<1>7. CASE job' = Stale(node, jobs)
  BY <1>5, <1>7, StaleChangesFresh, SameHolds DEF ClusterInv, Keeps
<1> QED BY <1>5, <1>6, <1>7 DEF ClusterInv, Keeps

(* A node found cordoned needs no update.                                  *)
LEMMA GetNodeKeepsCluster ==
  ASSUME TypeInv, ClusterInv, NEW w \in Workers, GetNode(w)
  PROVE  ClusterInv'
<1>1. job[w] \in Job /\ job \in [Workers -> Job]
  BY DEF TypeInv, TypeOK
<1>2. ClusterStays /\ UNCHANGED cluster /\ \A v \in Workers : SparedStay(v)
  BY DEF GetNode, cluster, ClusterStays, SparedStay
<1>3. CASE job'[w].pc \in {"idle", "update"}
  BY <1>2, <1>3, FirstSteps, EarlyHolds, MoveKeepsCluster DEF EarlyMove
<1>4. CASE job'[w].pc \notin {"idle", "update"}
  <2> PICK new \in Job : Moves(w, new)
    BY LaterSteps
  <2>1. new = job'[w]
    BY <1>1 DEF Moves
  <2>2. ~Answer(w, "error")
    BY <1>1, <1>4, EndedIsJob DEF Answer, Step, Outcomes
  <2>3. Step(w, [job[w] EXCEPT !.pc = AfterCordon(w)]) /\ job[w].hb.node \in cordoned
    <3>1. job'[w] # [job[w] EXCEPT !.pc = "update", !.fresh = TRUE]
      BY <1>1, <1>4 DEF Job
    <3> QED BY <1>1, <2>2, <3>1 DEF GetNode, Step
  <2>4. /\ new.hb = job[w].hb /\ new.action = job[w].action
        /\ new.pc = IF job[w].action = "node_cordon" THEN "emit" ELSE "list"
    BY <1>1, <2>1, <2>3 DEF Step, AfterCordon, Job
  <2>5. Held(new, cordoned', place', doomed', spared'[w])
    BY <2>3, <2>4 DEF Held, GetNode, cluster
  <2> QED BY <1>2, <2>5, MoveKeepsCluster
<1> QED BY <1>3, <1>4

(* The pods listed are those on the node.                                  *)
LEMMA ListPodsKeepsCluster ==
  ASSUME TypeInv, ClusterInv, NEW w \in Workers, ListPods(w)
  PROVE  ClusterInv'
<1>1. job[w] \in Job /\ job \in [Workers -> Job] /\ job[w].pc = "list"
  BY DEF TypeInv, TypeOK, ListPods, At
<1>2. ClusterStays /\ \A v \in Workers : SparedStay(v)
  BY DEF ListPods, cluster, ClusterStays, SparedStay
<1>3. CASE Answer(w, "error")
  BY <1>2, <1>3, AnswerIsEarly, EarlyHolds, MoveKeepsCluster DEF EarlyMove
<1>4. CASE ~Answer(w, "error")
  <2> PICK new \in Job : Moves(w, new)
    BY LaterSteps
  <2> DEFINE there == {p \in Pods : place[p] = job[w].hb.node}
  <2> PICK pods \in SUBSET there :
        /\ (job[w].action = "workload_reschedule" /\ pods = there) \/ job[w].action = "pod_restart"
        /\ new = [job[w] EXCEPT !.pc = "restart", !.pods = pods]
    BY <1>1, <1>4 DEF ListPods, Step, Moves
  <2>1. /\ new.hb = job[w].hb /\ new.action = job[w].action
        /\ new.pc = "restart" /\ new.pods = pods
    BY <1>1 DEF Job
  <2>2. UNCHANGED cluster /\ Held(job[w], cordoned, place, doomed, spared[w])
    BY DEF ListPods, ClusterInv
  <2>3. Held(new, cordoned', place', doomed', spared'[w])
    BY <1>1, <2>1, <2>2 DEF Held, Sealed, cluster
  <2> QED BY <1>2, <2>3, MoveKeepsCluster
<1> QED BY <1>3, <1>4

(* A pod is deleted, or the reschedule spares it.                          *)
LEMMA RestartPodKeepsCluster ==
  ASSUME TypeInv, ClusterInv, NEW w \in Workers, RestartPod(w)
  PROVE  ClusterInv'
<1>1. job[w] \in Job /\ job \in [Workers -> Job] /\ job[w].pc = "restart"
  BY DEF TypeInv, TypeOK, RestartPod, At
<1>2. /\ cordoned' = cordoned /\ place' = place
      /\ doomed \subseteq doomed' /\ spared \in [Workers -> SUBSET Pods]
  BY DEF RestartPod, Delete, TypeInv, TypeOK
<1>3. \/ spared' = spared
      \/ \E p \in job[w].pods :
           spared' = [spared EXCEPT ![w] =
                       IF place[p] = job[w].hb.node THEN spared[w] \cup {p} ELSE spared[w]]
  BY DEF RestartPod
<1>4. \A v \in Workers : spared[v] \subseteq spared'[v]
  BY <1>2, <1>3
<1>5. ClusterStays /\ \A v \in Workers : SparedStay(v)
  BY <1>2, <1>4 DEF ClusterStays, SparedStay
<1>6. Held(job[w], cordoned', place', doomed', spared'[w])
  BY <1>5, HeldStays DEF ClusterInv
<1> PICK new \in Job : Moves(w, new)
  BY LaterSteps
<1>7. CASE job[w].pods = {} /\ Step(w, [job[w] EXCEPT !.pc = "emit"])
  <2>1. new = [job[w] EXCEPT !.pc = "emit"]
    BY <1>1, <1>7 DEF Step, Moves
  <2>2. /\ new.hb = job[w].hb /\ new.action = job[w].action /\ new.pc = "emit"
        /\ new.pods = job[w].pods
    BY <1>1, <2>1 DEF Job
  <2>3. Held(new, cordoned', place', doomed', spared'[w])
    BY <1>1, <1>6, <1>7, <2>2 DEF Held, Sealed
  <2> QED BY <1>5, <2>3, MoveKeepsCluster
<1>8. CASE Answer(w, "error")
  BY <1>5, <1>8, AnswerIsEarly, EarlyHolds, MoveKeepsCluster DEF EarlyMove
<1>9. ASSUME NEW p \in job[w].pods, Step(w, [job[w] EXCEPT !.pods = @ \ {p}]),
             job[w].action # "pod_restart" /\ place[p] = job[w].hb.node
               => p \in doomed' \cup spared'[w] \/ place[p] = Gone
      PROVE  ClusterInv'
  <2>1. new = [job[w] EXCEPT !.pods = @ \ {p}]
    BY <1>1, <1>9 DEF Step, Moves
  <2>2. /\ new.hb = job[w].hb /\ new.action = job[w].action /\ new.pc = "restart"
        /\ new.pods = job[w].pods \ {p}
    BY <1>1, <2>1 DEF Job
  <2>3. Sealed(new) => job[w].hb.node # Gone
    BY <1>1, <1>2, <1>6, <2>2, EarthwormAssumption DEF Held, Sealed, Acted, TypeInv, TypeOK
  <2>4. Held(new, cordoned', place', doomed', spared'[w])
    BY <1>1, <1>2, <1>6, <1>9, <2>2, <2>3 DEF Held, Sealed, Acted
  <2> QED BY <1>5, <2>4, MoveKeepsCluster
<1>10. CASE \E p \in job[w].pods :
              /\ Step(w, [job[w] EXCEPT !.pods = @ \ {p}])
              /\ Delete(p) \/ (place[p] = job[w].hb.node => p \in spared'[w])
  <2> PICK p \in job[w].pods :
             /\ Step(w, [job[w] EXCEPT !.pods = @ \ {p}])
             /\ Delete(p) \/ (place[p] = job[w].hb.node => p \in spared'[w])
    BY <1>10
  <2>1. CASE Delete(p)
    BY <1>9, <2>1 DEF Delete
  <2>2. CASE place[p] = job[w].hb.node => p \in spared'[w]
    BY <1>9, <2>2
  <2> QED BY <2>1, <2>2
<1>11. \/ job[w].pods = {} /\ Step(w, [job[w] EXCEPT !.pc = "emit"])
       \/ Answer(w, "error")
       \/ \E p \in job[w].pods :
             /\ Step(w, [job[w] EXCEPT !.pods = @ \ {p}])
             /\ Delete(p) \/ (place[p] = job[w].hb.node => p \in spared'[w])
  <2>1. \A p : place[p] = job[w].hb.node /\ spared' = [spared EXCEPT ![w] = spared[w] \cup {p}]
                  => p \in spared'[w]
    BY <1>2
  <2> QED BY <2>1 DEF RestartPod
<1> QED BY <1>7, <1>8, <1>10, <1>11

(* The rest of the work leaves the cluster alone. *)
LEMMA ReportKeepsCluster ==
  ASSUME TypeInv, ClusterInv, NEW w \in Workers,
         Emit(w) \/ (\E b \in Backends : Send(w, b)) \/ Exported(w)
  PROVE  ClusterInv'
<1>1. job[w] \in Job /\ job \in [Workers -> Job] /\ job[w].pc \in {"emit", "export"}
  BY DEF TypeInv, TypeOK, Emit, Send, Exported, At
<1>2. ClusterStays /\ UNCHANGED cluster /\ \A v \in Workers : SparedStay(v)
  BY DEF Emit, Send, Exported, cluster, ClusterStays, SparedStay
<1> PICK new \in Job : Moves(w, new)
  BY LaterSteps
<1>3. /\ new.hb = job[w].hb /\ new.action = job[w].action
      /\ new.pods = job[w].pods
      /\ new.pc \in {"export", "idle"}
  <2>1. new = job'[w]
    BY <1>1 DEF Moves
  <2>2. CASE Emit(w)
    <3>1. CASE new = Ended(job[w], "acted")
      BY <1>1, <3>1 DEF Ended, Job
    <3>2. CASE new = [job[w] EXCEPT !.pc = "export", !.todo = Backends]
      BY <1>1, <3>2 DEF Job
    <3>3. \/ Answer(w, "acted")
          \/ Step(w, [job[w] EXCEPT !.pc = "export", !.todo = Backends])
      BY <2>2 DEF Emit
    <3> QED BY <1>1, <2>1, <3>1, <3>2, <3>3 DEF Answer, Step
  <2>3. CASE \E b \in Backends : Send(w, b)
    BY <1>1, <2>1, <2>3 DEF Send, At, Step, Job
  <2>4. CASE Exported(w)
    BY <1>1, <2>1, <2>4 DEF Exported, Answer, Ended, Step, Job
  <2> QED BY <2>2, <2>3, <2>4
<1>4. Held(job[w], cordoned, place, doomed, spared[w])
  BY DEF ClusterInv
<1>5. Held(new, cordoned', place', doomed', spared'[w])
  BY <1>1, <1>2, <1>3, <1>4 DEF Held, Sealed, Acted, cluster
<1> QED BY <1>2, <1>5, MoveKeepsCluster

(* A pod that is gone is on no node.                                       *)
LEMMA TerminateKeepsCluster ==
  ASSUME TypeInv, ClusterInv, NEW p \in Pods, Terminate(p)
  PROVE  ClusterInv'
<1>1. place \in [Pods -> Nodes \cup {Gone}]
  BY DEF TypeInv, TypeOK
<1>2. /\ place'[p] = Gone
      /\ \A q \in Pods \ {p} : place'[q] = place[q] /\ (q \in doomed => q \in doomed')
  BY <1>1 DEF Terminate
<1>3. \A w \in Workers : spared'[w] = spared[w] \ {p}
  BY DEF Terminate
<1>4. \A w \in Workers : SparedStay(w)
  BY <1>2, <1>3 DEF SparedStay
<1>5. ClusterStays /\ job' = job
  BY <1>2 DEF Terminate, ClusterStays
<1> QED BY <1>4, <1>5, HeldStays DEF ClusterInv

(* A pod that lands on a node spares itself: the node of a reschedule that *)
(* has its list is cordoned by then.                                       *)
LEMMA ScheduleKeepsCluster ==
  ASSUME TypeInv, ClusterInv, NEW p \in Pods, Schedule(p)
  PROVE  ClusterInv'
<1>1. place \in [Pods -> Nodes \cup {Gone}]
  BY DEF TypeInv, TypeOK
<1> PICK n \in Nodes :
      /\ place' = [place EXCEPT ![p] = n]
      /\ spared' = [w \in Workers |->
                      IF Listed(job[w]) /\ job[w].hb.node = n /\ n \in cordoned
                      THEN spared[w] \cup {p} ELSE spared[w]]
  BY DEF Schedule
<1>2. job' = job /\ doomed' = doomed /\ cordoned' = cordoned
  BY DEF Schedule
<1>3. \A q \in Pods : place'[q] = IF q = p THEN n ELSE place[q]
  BY <1>1
<1> SUFFICES ASSUME NEW w \in Workers
             PROVE  Held(job[w], cordoned, place', doomed, spared'[w])
  BY <1>2 DEF ClusterInv
<1>4. Held(job[w], cordoned, place, doomed, spared[w])
  BY DEF ClusterInv
<1>5. spared[w] \subseteq spared'[w]
  OBVIOUS
<1>6. CASE Listed(job[w]) /\ job[w].hb.node = n /\ n \in cordoned
  <2>1. p \in spared'[w]
    BY <1>6
  <2> QED BY <1>3, <1>4, <1>5, <2>1 DEF Held
<1>7. CASE ~Listed(job[w])
  BY <1>4, <1>7 DEF Held, Sealed, Acted, Listed
<1>8. CASE Listed(job[w]) /\ job[w].hb.node # n
  BY <1>3, <1>4, <1>5, <1>8 DEF Held
<1>9. CASE Listed(job[w]) /\ n \notin cordoned
  BY <1>3, <1>4, <1>5, <1>9 DEF Held, Sealed, Acted, Listed
<1> QED BY <1>6, <1>7, <1>8, <1>9

(* Every step keeps what remediations did.                                 *)
LEMMA ClusterInvStep == TypeInv /\ ClusterInv /\ [Next]_vars => ClusterInv'
<1> SUFFICES ASSUME TypeInv, ClusterInv, [Next]_vars
             PROVE  ClusterInv'
  OBVIOUS
<1>1. CASE UNCHANGED <<cluster, job>>
  BY <1>1 DEF cluster, ClusterInv
<1>2. ASSUME NEW w \in Workers, Heartbeat(w) \/ Refuse(w) \/ Work(w)
      PROVE  ClusterInv'
  <2>1. CASE Heartbeat(w) \/ Refuse(w) \/ Enter(w) \/ Predict(w) \/ LockModels(w) \/ Load(w)
    <3>1. /\ EarlyMove(w) /\ UNCHANGED <<cordoned, place, doomed>>
          /\ \A v \in Workers \ {w} : spared'[v] = spared[v]
      BY <2>1, FirstSteps
    <3> QED BY <3>1, EarlyHolds, MoveKeepsCluster DEF EarlyMove, ClusterStays, SparedStay
  <2> QED BY <1>2, <2>1, GetNodeKeepsCluster, CordonKeepsCluster, ListPodsKeepsCluster,
             RestartPodKeepsCluster, ReportKeepsCluster DEF Work
<1>3. ASSUME NEW n \in Nodes, NodeTouched(n)
      PROVE  ClusterInv'
  <2>1. job \in [Workers -> Job] /\ job' = Stale(n, job) /\ UNCHANGED cluster
    BY <1>3 DEF TypeInv, TypeOK, NodeTouched
  <2> QED BY <2>1, StaleChangesFresh, SameHolds DEF cluster, ClusterInv
<1>4. ASSUME NEW p \in Pods, Terminate(p)
      PROVE  ClusterInv'
  BY <1>4, TerminateKeepsCluster
<1>5. ASSUME NEW p \in Pods, Schedule(p)
      PROVE  ClusterInv'
  BY <1>5, ScheduleKeepsCluster
<1> QED BY <1>1, <1>2, <1>3, <1>4, <1>5 DEF Next, vars, Start, Stop, ModelDelivery

(* What a finished remediation promises still holds, whatever happened     *)
(* since and wherever pods land: the node is cordoned, and no pod that was *)
(* on it before slipped through. (agent.go executeRemediation,             *)
(* k8sclient.go CordonNode)                                                *)
THEOREM RemediationLasts == Spec => []RemediationHolds
<1>1. Init => ClusterInv
  BY DEF Init, ClusterInv, Held, Sealed, Acted, NoJob
<1>2. ClusterInv => RemediationHolds
  BY DEF ClusterInv, Held, Sealed, Acted, RemediationHolds, HasActed
<1> QED BY <1>1, <1>2, TypeInvInit, TypeInvStep, ClusterInvStep, PTL DEF Spec

-----------------------------------------------------------------------------
(* Reports *)

(* Of a job that is being reported, the backends that work have the event  *)
(* unless they are still to do; they have it of a finished one; and nobody *)
(* has it of another.                                                      *)
Told(w, j, got) ==
  /\ j.pc = "export" => \A b \in Backends \ Faulty : b \in j.todo \/ w \in got[b]
  /\ Acted(j) /\ ~j.nan => \A b \in Backends \ Faulty : w \in got[b]
  /\ (\E b \in Backends : w \in got[b]) => j.pc = "export" \/ Acted(j)
ReportInv == \A w \in Workers : Told(w, job[w], received)

(* A worker that moves does not touch the events of the others.            *)
LEMMA MoveKeepsReports ==
  ASSUME TypeInv, ReportInv, NEW w \in Workers, NEW new, Moves(w, new), Told(w, new, received'),
         \A b \in Backends : \A v \in Workers \ {w} : v \in received'[b] <=> v \in received[b]
  PROVE  ReportInv'
<1>1. job' = [job EXCEPT ![w] = new] /\ job \in [Workers -> Job]
  BY DEF Moves, TypeInv, TypeOK
<1>2. ASSUME NEW v \in Workers \ {w}
      PROVE  Told(v, job[v], received')
  <2>1. Told(v, job[v], received)
    BY DEF ReportInv
  <2> QED BY <2>1 DEF Told
<1> HIDE DEF Job, Told
<1> QED BY <1>1, <1>2 DEF ReportInv

(* A late read does not matter to the reports.                             *)
LEMMA SameTold ==
  ASSUME NEW w, NEW j, NEW k, SameButFresh(k, j), NEW got, Told(w, j, got)
  PROVE  Told(w, k, got)
BY DEF SameButFresh, Told, Acted

(* A new heartbeat starts with no reports.                                 *)
LEMMA FirstStepsKeepReports ==
  ASSUME TypeInv, ReportInv, NEW w \in Workers,
         Heartbeat(w) \/ Refuse(w) \/ Enter(w) \/ Predict(w) \/ LockModels(w) \/ Load(w)
  PROVE  ReportInv'
<1>1. \A b \in Backends : w \notin received'[b]
  <2>1. CASE Heartbeat(w) \/ Refuse(w)
    BY <2>1 DEF Heartbeat, Refuse
  <2>2. CASE Enter(w) \/ Predict(w) \/ LockModels(w) \/ Load(w)
    <3>1. job[w].pc \notin {"idle", "export"} /\ received' = received
      BY <2>2 DEF Enter, Predict, LockModels, Load, At
    <3>2. Told(w, job[w], received)
      BY DEF ReportInv
    <3> QED BY <3>1, <3>2 DEF Told, Acted
  <2> QED BY <2>1, <2>2
<1>2. \A b \in Backends : \A v \in Workers \ {w} : v \in received'[b] <=> v \in received[b]
  BY DEF Heartbeat, Refuse, Enter, Predict, LockModels, Load
<1> PICK new \in Job : Early(new) /\ Moves(w, new)
  BY FirstSteps DEF EarlyMove
<1>3. Told(w, new, received')
  BY <1>1 DEF Early, Told, Acted
<1> QED BY <1>2, <1>3, MoveKeepsReports

(* Before the report the backends have nothing of the job, whichever way   *)
(* it takes.                                                               *)
LEMMA ClusterWorkKeepsReports ==
  ASSUME TypeInv, ReportInv, NEW w \in Workers, GetNode(w) \/ ListPods(w) \/ RestartPod(w)
  PROVE  ReportInv'
<1>1. job[w] \in Job /\ job \in [Workers -> Job] /\ job[w].pc \notin {"idle", "export"}
  BY DEF TypeInv, TypeOK, GetNode, ListPods, RestartPod, At
<1>2. received' = received
  BY DEF GetNode, ListPods, RestartPod
<1>3. \A b \in Backends : w \notin received[b]
  BY <1>1 DEF ReportInv, Told, Acted
<1> PICK new \in Job : Moves(w, new)
  BY LaterSteps
<1>4. new.pc # "export" /\ ~Acted(new)
  <2>1. new = job'[w]
    BY <1>1 DEF Moves
  <2>2. ASSUME NEW left \in Job, Step(w, Ended(left, "error"))
        PROVE  new.pc # "export" /\ ~Acted(new)
    BY <1>1, <2>1, <2>2, EndedIsJob DEF Step, Acted, Outcomes
  <2>3. CASE GetNode(w)
    <3>1. CASE Answer(w, "error")
      BY <1>1, <2>2, <3>1 DEF Answer
    <3>2. CASE Step(w, [job[w] EXCEPT !.pc = AfterCordon(w)])
      BY <1>1, <2>1, <3>2 DEF Step, AfterCordon, Acted, Job
    <3>3. CASE Step(w, [job[w] EXCEPT !.pc = "update", !.fresh = TRUE])
      BY <1>1, <2>1, <3>3 DEF Step, Acted, Job
    <3> QED BY <2>3, <3>1, <3>2, <3>3 DEF GetNode
  <2>4. CASE ListPods(w)
    <3>1. CASE Answer(w, "error")
      BY <1>1, <2>2, <3>1 DEF Answer
    <3>2. CASE \E pods : Step(w, [job[w] EXCEPT !.pc = "restart", !.pods = pods])
      BY <1>1, <2>1, <3>2 DEF Step, Acted, Job
    <3> QED BY <2>4, <3>1, <3>2 DEF ListPods
  <2>5. CASE RestartPod(w)
    <3>0. job[w].pc = "restart"
      BY <2>5 DEF RestartPod, At
    <3>1. CASE Step(w, [job[w] EXCEPT !.pc = "emit"])
      BY <1>1, <2>1, <3>1 DEF Step, Acted, Job
    <3>2. ASSUME NEW p \in job[w].pods
          PROVE  LET left == [job[w] EXCEPT !.pods = job[w].pods \ {p}]
                 IN  left \in Job /\ left.pc = "restart"
      BY <1>1, <3>0 DEF Job
    <3>3. \/ Step(w, [job[w] EXCEPT !.pc = "emit"])
          \/ Step(w, Ended(job[w], "error"))
          \/ \E p \in job[w].pods : Step(w, [job[w] EXCEPT !.pods = job[w].pods \ {p}])
      BY <2>5 DEF RestartPod, Answer
    <3>4. ASSUME NEW j \in Job, j.pc = "restart", Step(w, j)
          PROVE  new.pc # "export" /\ ~Acted(new)
      BY <1>1, <2>1, <3>4 DEF Step, Acted
    <3>5. CASE Step(w, Ended(job[w], "error"))
      BY <1>1, <2>2, <3>5
    <3> HIDE DEF Step, Acted, Job, Ended
    <3> QED BY <3>1, <3>2, <3>3, <3>4, <3>5
  <2> QED BY <2>3, <2>4, <2>5
<1>5. Told(w, new, received')
  BY <1>2, <1>3, <1>4 DEF Told
<1> QED BY <1>2, <1>5, MoveKeepsReports

(* An update reports nothing.                                              *)
LEMMA UpdateNodeKeepsReports ==
  ASSUME TypeInv, ReportInv, NEW w \in Workers, UpdateNode(w)
  PROVE  ReportInv'
<1>1. job[w] \in Job /\ job \in [Workers -> Job] /\ job[w].pc = "update"
  BY DEF TypeInv, TypeOK, UpdateNode, At
<1>2. received' = received
  BY DEF UpdateNode
<1>3. \A b \in Backends : w \notin received[b]
  BY <1>1 DEF ReportInv, Told, Acted
<1> PICK new \in Job : Cordons(w, new)
  BY UpdateNodeCordons
<1> DEFINE jobs == [job EXCEPT ![w] = new]
<1>4. new.pc # "export" /\ ~Acted(new)
  <2>1. CASE Early(new)
    BY <2>1 DEF Early, Acted
  <2>2. CASE SameButFresh(new, [job[w] EXCEPT !.pc = AfterCordon(w)])
    BY <1>1, <2>2 DEF SameButFresh, AfterCordon, Acted, Job
  <2> QED BY <2>1, <2>2 DEF Cordons
<1>5. Told(w, new, received)
  BY <1>3, <1>4 DEF Told
<1>6. jobs \in [Workers -> Job] /\ \A v \in Workers : Told(v, jobs[v], received)
  <2> HIDE DEF Job, Told
  <2> QED BY <1>1, <1>5 DEF ReportInv
<1>7. job' = jobs \/ job' = Stale(job[w].hb.node, jobs)
  BY DEF Cordons
<1> HIDE DEF jobs
<1>8. CASE job' = Stale(job[w].hb.node, jobs)
  BY <1>2, <1>6, <1>8, StaleChangesFresh, SameTold DEF ReportInv
<1> QED BY <1>2, <1>6, <1>7, <1>8 DEF ReportInv

(* The event goes to each backend, and the last to answer ends the job.    *)
LEMMA ReportStepsKeepReports ==
  ASSUME TypeInv, ReportInv, NEW w \in Workers,
         Emit(w) \/ (\E b \in Backends : Send(w, b)) \/ Exported(w)
  PROVE  ReportInv'
<1>1. job[w] \in Job /\ job \in [Workers -> Job] /\ received \in [Backends -> SUBSET Workers]
  BY DEF TypeInv, TypeOK
<1>2. Told(w, job[w], received)
  BY DEF ReportInv
<1> PICK new \in Job : Moves(w, new)
  BY LaterSteps
<1>3. new = job'[w]
  BY <1>1 DEF Moves
<1>4. CASE Emit(w)
  <2>1. received' = received /\ \A b \in Backends : w \notin received[b]
    BY <1>2, <1>4 DEF Emit, At, Told, Acted
  <2>2. CASE job[w].nan
    <3>1. new = Ended(job[w], "acted")
      BY <1>1, <1>3, <1>4, <2>2 DEF Emit, Answer, Step
    <3>2. Acted(new) /\ new.nan = job[w].nan
      BY <1>1, <3>1 DEF Ended, Acted, Job
    <3>3. Told(w, new, received')
      BY <2>1, <2>2, <3>2 DEF Told, Acted
    <3> QED BY <2>1, <3>3, MoveKeepsReports
  <2>3. CASE ~job[w].nan
    <3>1. new = [job[w] EXCEPT !.pc = "export", !.todo = Backends]
      BY <1>1, <1>3, <1>4, <2>3 DEF Emit, Step
    <3>2. new.pc = "export" /\ new.todo = Backends
      BY <1>1, <3>1 DEF Job
    <3>3. Told(w, new, received')
      BY <2>1, <3>2 DEF Told, Acted
    <3> QED BY <2>1, <3>3, MoveKeepsReports
  <2> QED BY <2>2, <2>3
<1>5. ASSUME NEW b \in Backends, Send(w, b)
      PROVE  ReportInv'
  <2>1. new = [job[w] EXCEPT !.todo = job[w].todo \ {b}] /\ job[w].pc = "export"
    BY <1>1, <1>3, <1>5 DEF Send, At, Step
  <2>2. new.pc = "export" /\ new.todo = job[w].todo \ {b}
    BY <1>1, <2>1 DEF Job
  <2>3. received' = IF b \in Faulty THEN received
                    ELSE [received EXCEPT ![b] = received[b] \cup {w}]
    BY <1>5 DEF Send
  <2>4. \A c \in Backends : \A v \in Workers \ {w} : v \in received'[c] <=> v \in received[c]
    BY <1>1, <2>3
  <2>5. \A c \in Backends : w \in received'[c] <=> w \in received[c] \/ (c = b /\ b \notin Faulty)
    BY <1>1, <2>3
  <2>6. Told(w, new, received')
    BY <1>2, <2>1, <2>2, <2>5 DEF Told, Acted
  <2> QED BY <2>4, <2>6, MoveKeepsReports
<1>6. CASE Exported(w)
  <2>1. new = Ended(job[w], "acted") /\ job[w].pc = "export" /\ job[w].todo = {}
    BY <1>1, <1>3, <1>6 DEF Exported, At, Answer, Step
  <2>2. Acted(new)
    BY <1>1, <2>1 DEF Ended, Acted, Job
  <2>3. received' = received
    BY <1>6 DEF Exported
  <2>4. Told(w, new, received')
    BY <1>2, <2>1, <2>2, <2>3 DEF Told, Acted
  <2> QED BY <2>3, <2>4, MoveKeepsReports
<1> QED BY <1>4, <1>5, <1>6

(* Every step keeps what the backends have.                                *)
LEMMA ReportInvStep == TypeInv /\ ReportInv /\ [Next]_vars => ReportInv'
<1> SUFFICES ASSUME TypeInv, ReportInv, [Next]_vars
             PROVE  ReportInv'
  OBVIOUS
<1>1. CASE UNCHANGED <<job, received>>
  BY <1>1 DEF ReportInv
<1>2. ASSUME NEW w \in Workers, Heartbeat(w) \/ Refuse(w) \/ Work(w)
      PROVE  ReportInv'
  BY <1>2, FirstStepsKeepReports, ClusterWorkKeepsReports, UpdateNodeKeepsReports,
     ReportStepsKeepReports DEF Work
<1>3. ASSUME NEW n \in Nodes, NodeTouched(n)
      PROVE  ReportInv'
  <2>1. job \in [Workers -> Job] /\ job' = Stale(n, job) /\ UNCHANGED received
    BY <1>3 DEF TypeInv, TypeOK, NodeTouched
  <2> QED BY <2>1, StaleChangesFresh, SameTold DEF ReportInv
<1> QED BY <1>1, <1>2, <1>3 DEF Next, vars, Start, Stop, ModelDelivery, Terminate, Schedule

(* Every finished remediation was reported to each backend that works, and *)
(* nothing was reported that did not finish. (agent.go ProcessHeartbeat,   *)
(* multi_exporter.go Export)                                               *)
THEOREM RemediationsReported == Spec => []ActionsReported
<1>1. Init => ReportInv
  BY DEF Init, ReportInv, Told, Acted, NoJob
<1>2. ReportInv => ActionsReported
  BY DEF ReportInv, Told, Acted, ActionsReported, HasActed
<1> QED BY <1>1, <1>2, TypeInvInit, TypeInvStep, ReportInvStep, PTL DEF Spec
=============================================================================

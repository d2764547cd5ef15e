---------------------- MODULE ChangeVerificationProofs ----------------------
(***************************************************************************)
(* Proofs about DeploymentWatcher and ChangeVerification: the reports of   *)
(* the watcher add up to what it compares with and hide no rollout, for    *)
(* any number of workloads, aspects, templates and rollouts, by itself and *)
(* composed with the verifier, which is a user of the watcher as           *)
(* specified; every report has one verdict, and the verdicts are right     *)
(* about breakdowns and steady services, for any load and any bounds.      *)
(***************************************************************************)
EXTENDS ChangeVerification, FiniteSetTheorems, WellFoundedInduction, TLAPS

(* What ReportsAddUp rests on: snapshots are complete, and told is kept    *)
(* for the known workloads.                                                *)
WatcherInv == WatcherTypeOK /\ ReportsAddUp

(* What there is of a workload that exists.                                *)
LEMMA SnapshotProperties ==
  ASSUME NEW s \in Snapshot, s # NoWorkload
  PROVE  /\ s.gen \in 1..MaxGeneration
         /\ s.template \in Templates
         /\ DOMAIN s.template = Aspects
BY WatcherAssumption DEF Snapshot

(* A generation and a template make a snapshot.                            *)
LEMMA NewSnapshot ==
  ASSUME NEW g \in 1..MaxGeneration, NEW t \in Templates
  PROVE  [gen |-> g, template |-> t] \in Snapshot
BY DEF Snapshot

(* Nothing is known at first.                                              *)
LEMMA WatcherInvInit == WatcherInit => WatcherInv
<1> SUFFICES ASSUME WatcherInit
             PROVE  WatcherInv
  OBVIOUS
<1> USE DEF WatcherInit
<1>1. 1 \in 1..MaxGeneration
  BY WatcherAssumption
<1>2. {NoWorkload} \cup [gen : {1}, template : Templates] \subseteq Snapshot
  BY <1>1 DEF Snapshot
<1>3. cluster \in [Workloads -> Snapshot]
  BY <1>2
<1>4. previous \in [Workloads -> Snapshot] /\ \A w \in Workloads : ~Known(w)
  BY DEF Snapshot, Known
<1> QED BY <1>3, <1>4 DEF WatcherInv, WatcherTypeOK, ReportsAddUp

(* the cluster and BaselineFails leave what the watcher knows alone *)
LEMMA ClusterKeepsInv ==
  ASSUME WatcherInv, cluster' \in [Workloads -> Snapshot], recreated' \subseteq Workloads,
         watching' \in {"starting", "polling"}, UNCHANGED <<previous, told>>
  PROVE  WatcherInv'
BY DEF WatcherInv, WatcherTypeOK, ReportsAddUp, Known

(* A rollout, known or not to the watcher, changes the cluster only.       *)
LEMMA RolloutKeepsInv ==
  ASSUME WatcherInv, NEW w \in Workloads, NEW t \in Templates, Rollout(w, t)
  PROVE  WatcherInv'
<1>1. cluster[w] \in Snapshot /\ cluster[w] # NoWorkload
  BY DEF WatcherInv, WatcherTypeOK, Rollout, Exists
<1>2. cluster[w].gen + 1 \in 1..MaxGeneration
  BY <1>1, SnapshotProperties, WatcherAssumption DEF Rollout
<1>3. [gen |-> cluster[w].gen + 1, template |-> t] \in Snapshot
  BY <1>2, NewSnapshot
<1>4. cluster' \in [Workloads -> Snapshot]
  BY <1>3 DEF Rollout, WatcherInv, WatcherTypeOK
<1> QED BY <1>4, ClusterKeepsInv DEF Rollout, WatcherInv, WatcherTypeOK

(* So does a new workload ...                                              *)
LEMMA CreateKeepsInv ==
  ASSUME WatcherInv, NEW w \in Workloads, NEW t \in Templates, Create(w, t)
  PROVE  WatcherInv'
<1>1. [gen |-> 1, template |-> t] \in Snapshot
  BY WatcherAssumption, NewSnapshot
<1>2. cluster' \in [Workloads -> Snapshot]
  BY <1>1 DEF Create, WatcherInv, WatcherTypeOK
<1> QED BY <1>2, ClusterKeepsInv DEF Create, WatcherInv, WatcherTypeOK

(* ... and one that goes.                                                  *)
LEMMA DeleteKeepsInv ==
  ASSUME WatcherInv, NEW w \in Workloads, Delete(w)
  PROVE  WatcherInv'
<1>1. cluster' \in [Workloads -> Snapshot]
  BY DEF Delete, WatcherInv, WatcherTypeOK, Snapshot
<1> QED BY <1>1, ClusterKeepsInv DEF Delete, WatcherInv, WatcherTypeOK

(* The baseline is what is told first.                                     *)
LEMMA CaptureBaselineKeepsInv ==
  ASSUME WatcherInv, CaptureBaseline
  PROVE  WatcherInv'
<1> USE DEF CaptureBaseline
<1>1. \A w \in Workloads : Known(w)' =>
        /\ told'[w] = previous'[w].template
        /\ DOMAIN told'[w] = Aspects
  <2> SUFFICES ASSUME NEW w \in Workloads, Known(w)'
               PROVE  /\ told'[w] = previous'[w].template
                      /\ DOMAIN told'[w] = Aspects
    OBVIOUS
  <2>1. Exists(w) /\ cluster[w] \in Snapshot
    BY DEF Known, Exists, WatcherInv, WatcherTypeOK
  <2>2. told'[w] = cluster[w].template
    BY <2>1
  <2> QED BY <2>1, <2>2, SnapshotProperties DEF Exists
<1>2. WatcherTypeOK'
  BY <1>1 DEF WatcherTypeOK, WatcherInv, Known
<1>3. ReportsAddUp'
  BY <1>1 DEF ReportsAddUp, Known
<1> QED BY <1>2, <1>3 DEF WatcherInv

(* A poll: an entry that is reported is told, and one that is not is       *)
(* either gone or what it was.                                             *)
LEMMA PollKeepsInv ==
  ASSUME WatcherInv, Poll
  PROVE  WatcherInv'
<1> USE DEF Poll
<1>1. /\ cluster \in [Workloads -> Snapshot]
      /\ previous \in [Workloads -> Snapshot]
  BY DEF WatcherInv, WatcherTypeOK
<1>2. previous' \in [Workloads -> Snapshot]
  BY <1>1
<1>3. ASSUME NEW w \in Workloads, Known(w)'
      PROVE  /\ DOMAIN told'[w] = Aspects
             /\ \A a \in Aspects : previous'[w].template[a] \in {Absent, told'[w][a]}
  <2>1. CASE Differs(w)
    <3>1. Exists(w) /\ Known(w) /\ previous'[w] = cluster[w]
      BY <2>1 DEF Differs
    <3>2. told'[w] = [a \in Aspects |->
            IF a \in Changes(w) THEN cluster[w].template[a] ELSE told[w][a]]
      BY <2>1
    <3>3. ASSUME NEW a \in Aspects
          PROVE  cluster[w].template[a] \in {Absent, told'[w][a]}
      <4>1. CASE a \in Changes(w)
        BY <4>1, <3>2
      <4>2. CASE a \notin Changes(w)
        <5>1. cluster[w].template[a] = Absent
                \/ cluster[w].template[a] = previous[w].template[a]
          BY <2>1, <4>2 DEF Changes, Diff
        <5>2. previous[w].template[a] \in {Absent, told[w][a]}
          BY <3>1 DEF WatcherInv, ReportsAddUp
        <5>3. told'[w][a] = told[w][a]
          BY <3>2, <4>2
        <5> QED BY <5>1, <5>2, <5>3
      <4> QED BY <4>1, <4>2
    <3> QED BY <3>1, <3>2, <3>3
  <2>2. CASE ~Differs(w) /\ Exists(w) /\ ~Known(w)
    <3>1. previous'[w] = cluster[w] /\ told'[w] = cluster[w].template
      BY <2>2
    <3>2. DOMAIN cluster[w].template = Aspects
      BY <1>1, <2>2, SnapshotProperties DEF Exists
    <3> QED BY <3>1, <3>2
  <2>3. CASE ~Differs(w) /\ ~(Exists(w) /\ ~Known(w))
    <3>1. previous'[w] = previous[w] /\ told'[w] = told[w]
      BY <2>3
    <3>2. Known(w)
      BY <3>1, <1>3 DEF Known
    <3> QED BY <3>1, <3>2 DEF WatcherInv, WatcherTypeOK, ReportsAddUp
  <2> QED BY <2>1, <2>2, <2>3
<1>4. WatcherTypeOK'
  BY <1>2, <1>3 DEF WatcherInv, WatcherTypeOK
<1>5. ReportsAddUp'
  BY <1>3 DEF ReportsAddUp
<1> QED BY <1>4, <1>5 DEF WatcherInv

(* Every step of the cluster and of the watcher keeps it.                  *)
LEMMA WatcherInvStep == WatcherInv /\ [WatcherNext]_watcherVars => WatcherInv'
<1> SUFFICES ASSUME WatcherInv, [WatcherNext]_watcherVars
             PROVE  WatcherInv'
  OBVIOUS
<1>1. CASE ClusterNext
  BY <1>1, RolloutKeepsInv, CreateKeepsInv, DeleteKeepsInv DEF ClusterNext
<1>2. CASE CaptureBaseline
  BY <1>2, CaptureBaselineKeepsInv
<1>3. CASE BaselineFails
  BY <1>3, ClusterKeepsInv DEF BaselineFails, WatcherInv, WatcherTypeOK
<1>4. CASE Poll
  BY <1>4, PollKeepsInv
<1>5. CASE UNCHANGED watcherVars
  BY <1>5, ClusterKeepsInv DEF watcherVars, WatcherInv, WatcherTypeOK
<1> QED BY <1>1, <1>2, <1>3, <1>4, <1>5 DEF WatcherNext

(* The reports of the watcher skip no value, whatever rollouts fell        *)
(* between two polls and whichever polls failed. (watcher.go poll)         *)
THEOREM WatcherReports == WatcherSpec => []ReportsAddUp
<1>1. WatcherInv => ReportsAddUp
  BY DEF WatcherInv
<1> QED BY <1>1, WatcherInvInit, WatcherInvStep, PTL DEF WatcherSpec

-----------------------------------------------------------------------------
(* The verifier adds steps that the watcher does not see.                  *)
LEMMA VerificationStepsWatch == [Next]_vars => [WatcherNext]_watcherVars
<1> SUFFICES ASSUME [Next]_vars
             PROVE  [WatcherNext]_watcherVars
  OBVIOUS
<1>1. CASE ClusterChanges
  BY <1>1 DEF ClusterChanges, WatcherNext, ClusterNext
<1>2. CASE StartWatcher
  BY <1>2 DEF StartWatcher, WatcherNext
<1>3. CASE PollWorkloads
  BY <1>3 DEF PollWorkloads, WatcherNext
<1>4. CASE PollFails \/ Tick \/ Stop
  BY <1>4 DEF PollFails, Tick, Stop
<1>5. CASE Verify
  BY <1>5 DEF Verify, Judge, Cancelled, Announce
<1>6. CASE UNCHANGED vars
  BY <1>6 DEF vars
<1> QED BY <1>1, <1>2, <1>3, <1>4, <1>5, <1>6 DEF Next

(* The verifier changes nothing that belongs to the watcher, and uses it   *)
(* only as the watcher is specified. (verifier.go, watcher.go onChangeFn)  *)
THEOREM UsesTheWatcher == Spec => WatcherSpec
<1>1. Init => WatcherInit
  BY DEF Init
<1> QED BY <1>1, VerificationStepsWatch, PTL DEF Spec, WatcherSpec

(* The reports add up in the composition with the verifier, too.           *)
(* (watcher.go poll)                                                       *)
THEOREM ReportsAreComplete == Spec => []ReportsAddUp
BY UsesTheWatcher, WatcherReports

-----------------------------------------------------------------------------
(* Verdicts.  What the verifier needs of its own types: the load and the   *)
(* signals do not matter.                                                  *)
VerifierTypes ==
  /\ now \in 0..Horizon
  /\ verifying \subseteq Report /\ reports \subseteq Report
  /\ verdicts \in Seq(Verdict)

Open == verifying \cup cancelled                      \* reports without a verdict

(* A report is made by the poll of a tick, so none is made twice; a        *)
(* verdict is about a report that is no longer open, and no two are about  *)
(* the same.                                                               *)
VerdictInv ==
  /\ VerifierTypes
  /\ Open \subseteq reports
  /\ verifying \cap cancelled = {}
  /\ \A r \in reports : r.startedAt <= now /\ (r.startedAt = now => polled)
  /\ \A i \in 1..Len(verdicts) : verdicts[i].change \in reports \ Open
  /\ \A i, j \in 1..Len(verdicts) : verdicts[i].change = verdicts[j].change => i = j
  /\ \A r \in reports \ Open : \E i \in 1..Len(verdicts) : verdicts[i].change = r
  /\ \A d \in emitting : \E i \in 1..Len(verdicts) : verdicts[i] = d

(* What is to be proved follows: the verdicts on a report are a singleton. *)
LEMMA VerdictInvSuffices == VerdictInv => OneVerdictPerReport
<1> SUFFICES ASSUME VerdictInv
             PROVE  OneVerdictPerReport
  OBVIOUS
<1>1. ASSUME NEW r \in reports, r \in Open
      PROVE  Cardinality(VerdictsOn(r)) = 0
  <2>1. VerdictsOn(r) = {}
    BY <1>1 DEF VerdictInv, VerdictsOn
  <2> QED BY <2>1, FS_EmptySet
<1>2. ASSUME NEW r \in reports, r \notin Open
      PROVE  Cardinality(VerdictsOn(r)) = 1
  <2>1. PICK i \in 1..Len(verdicts) : verdicts[i].change = r
    BY <1>2 DEF VerdictInv
  <2>2. VerdictsOn(r) = {i}
    BY <2>1 DEF VerdictInv, VerdictsOn
  <2> QED BY <2>2, FS_Singleton
<1> QED BY <1>1, <1>2 DEF OneVerdictPerReport, VerdictInv, Open

(* The verdict of a check is a verdict, whatever was measured.             *)
LEMMA JudgedIsVerdict ==
  ASSUME VerdictInv, NEW v \in verifying, NEW down, NEW failed
  PROVE  LET measured == Selected(v.changes) \ down
         IN  [change |-> v, at |-> now, measured |-> measured,
              status |-> Status(measured, failed)] \in Verdict
<1>1. v \in Report /\ now \in 0..Horizon
  BY DEF VerdictInv, VerifierTypes
<1>2. \A c \in ChangeTypes : SignalsFor(c) \subseteq Signals
  BY DEF ChangeTypes, SignalsFor, Signals
<1>3. Selected(v.changes) \subseteq Signals
  BY <1>1, <1>2, WatcherAssumption DEF Report, Selected
<1>4. ASSUME NEW measured
      PROVE  Status(measured, failed) \in {"healthy", "regression", "inconclusive"}
  BY DEF Status
<1> QED BY <1>1, <1>3, <1>4 DEF Verdict

(* A verdict ends the verification it is about.                            *)
LEMMA JudgeKeepsVerdicts ==
  ASSUME VerdictInv, NEW v \in verifying, Judge(v)
  PROVE  VerdictInv'
<1> PICK d \in Verdict :
      /\ d.change = v
      /\ verdicts' = Append(verdicts, d)
      /\ emitting' = emitting \cup {d}
  <2> HIDE DEF Verdict
  <2> PICK down \in Outages :
        LET measured == Selected(v.changes) \ down
            failed   == {s \in measured : ~Passes(load[v.workload], s, now)}
            verdict  == [change |-> v, at |-> now, measured |-> measured,
                         status |-> Status(measured, failed)]
        IN  /\ verdicts' = Append(verdicts, verdict)
            /\ emitting' = emitting \cup {verdict}
    BY DEF Judge
  <2> DEFINE measured == Selected(v.changes) \ down
             failed   == {s \in measured : ~Passes(load[v.workload], s, now)}
             verdict  == [change |-> v, at |-> now, measured |-> measured,
                          status |-> Status(measured, failed)]
  <2>1. verdict \in Verdict
    BY JudgedIsVerdict
  <2>2. verdict.change = v
    OBVIOUS
  <2>3. verdicts' = Append(verdicts, verdict) /\ emitting' = emitting \cup {verdict}
    OBVIOUS
  <2> HIDE DEF verdict
  <2> QED BY <2>1, <2>2, <2>3
<1>1. /\ verifying' = verifying \ {v}
      /\ UNCHANGED <<now, polled, reports, cancelled>>
  BY DEF Judge
<1>2. /\ Len(verdicts) \in Nat
      /\ Len(verdicts') = Len(verdicts) + 1
      /\ verdicts' \in Seq(Verdict)
      /\ \A i \in 1..Len(verdicts) : verdicts'[i] = verdicts[i]
      /\ verdicts'[Len(verdicts) + 1] = d
  BY DEF VerdictInv, VerifierTypes
<1>3. /\ v \in reports /\ v \notin cancelled
      /\ Open' = Open \ {v}
  BY <1>1 DEF VerdictInv, Open
<1>4. \A i \in 1..Len(verdicts) : verdicts[i].change # v
  BY DEF VerdictInv, Open
<1> HIDE DEF Verdict
<1>5. VerifierTypes' /\ (verifying \cap cancelled = {})' /\ (Open \subseteq reports)'
  BY <1>1, <1>2, <1>3 DEF VerdictInv, VerifierTypes
<1>6. \A i \in 1..Len(verdicts') : verdicts'[i].change \in reports' \ Open'
  BY <1>1, <1>2, <1>3, <1>4 DEF VerdictInv
<1>7. \A i, j \in 1..Len(verdicts') : verdicts'[i].change = verdicts'[j].change => i = j
  <2> SUFFICES ASSUME NEW i \in 1..Len(verdicts'), NEW j \in 1..Len(verdicts'),
                      verdicts'[i].change = verdicts'[j].change
               PROVE  i = j
    OBVIOUS
  <2>1. CASE i <= Len(verdicts) /\ j <= Len(verdicts)
    BY <1>2, <2>1 DEF VerdictInv
  <2>2. CASE i = Len(verdicts) + 1 \/ j = Len(verdicts) + 1
    BY <1>2, <1>4, <2>2
  <2> QED BY <1>2, <2>1, <2>2
<1>8. \A r \in reports' \ Open' : \E i \in 1..Len(verdicts') : verdicts'[i].change = r
  <2> SUFFICES ASSUME NEW r \in reports, r \notin Open \/ r = v
               PROVE  \E i \in 1..Len(verdicts') : verdicts'[i].change = r
    BY <1>1, <1>3
  <2>1. CASE r = v
    BY <1>2, <2>1
  <2>2. CASE r \notin Open
    BY <1>2, <2>2 DEF VerdictInv
  <2> QED BY <2>1, <2>2
<1>9. \A e \in emitting' : \E i \in 1..Len(verdicts') : verdicts'[i] = e
  <2> SUFFICES ASSUME NEW e \in emitting \cup {d}
               PROVE  \E i \in 1..Len(verdicts') : verdicts'[i] = e
    OBVIOUS
  <2>1. CASE e = d
    BY <1>2, <2>1
  <2>2. CASE e \in emitting
    BY <1>2, <2>2 DEF VerdictInv
  <2> QED BY <2>1, <2>2
<1>10. \A r \in reports' : r.startedAt <= now' /\ (r.startedAt = now' => polled')
  BY <1>1 DEF VerdictInv
<1> QED BY <1>5, <1>6, <1>7, <1>8, <1>9, <1>10 DEF VerdictInv

(* What a poll reports was not reported before.                            *)
LEMMA PollKeepsVerdicts ==
  ASSUME VerdictInv, PollWorkloads
  PROVE  VerdictInv'
<1> DEFINE new == {[workload |-> w, changes |-> Changes(w), startedAt |-> now] : w \in Reported}
<1>1. /\ ~polled /\ polled'
      /\ verifying' = verifying \cup new /\ reports' = reports \cup new
      /\ UNCHANGED <<now, emitting, verdicts, cancelled>>
  BY DEF PollWorkloads
<1>2. \A r \in new : r \in Report /\ r.startedAt = now
  BY DEF VerdictInv, VerifierTypes, Report, Reported, Changes, Diff
<1> HIDE DEF new
<1>3. new \cap reports = {}
  BY <1>1, <1>2 DEF VerdictInv
<1>4. Open' = Open \cup new
  BY <1>1 DEF Open
<1>5. /\ VerifierTypes' /\ (Open \subseteq reports)'
      /\ (verifying \cap cancelled = {})'
  BY <1>1, <1>2, <1>3, <1>4 DEF VerdictInv, VerifierTypes, Open
<1>6. \A r \in reports' : r.startedAt <= now' /\ (r.startedAt = now' => polled')
  BY <1>1, <1>2 DEF VerdictInv, VerifierTypes
<1>7. reports' \ Open' = reports \ Open
  BY <1>1, <1>3, <1>4
<1> QED BY <1>1, <1>5, <1>6, <1>7 DEF VerdictInv

(* Every step keeps it.                                                    *)
LEMMA VerdictInvStep == VerdictInv /\ [Next]_vars => VerdictInv'
<1> SUFFICES ASSUME VerdictInv, [Next]_vars
             PROVE  VerdictInv'
  OBVIOUS
<1>1. CASE UNCHANGED <<now, polled, verifying, emitting, verdicts, reports, cancelled>>
  BY <1>1 DEF VerdictInv, VerifierTypes, Open
<1>2. CASE PollWorkloads
  BY <1>2, PollKeepsVerdicts
<1>3. CASE PollFails
  BY <1>3 DEF PollFails, VerdictInv, VerifierTypes, Open
<1>4. CASE Tick
  <2>1. /\ now' = now + 1 /\ now < Horizon
        /\ UNCHANGED <<verifying, emitting, verdicts, reports, cancelled>>
    BY <1>4 DEF Tick
  <2>2. Horizon \in Int
    BY VerifierAssumption DEF Horizon
  <2>3. now' \in 0..Horizon
    BY <2>1, <2>2 DEF VerdictInv, VerifierTypes
  <2>4. \A r \in reports' : r.startedAt <= now' /\ r.startedAt # now'
    BY <2>1, <2>2 DEF VerdictInv, VerifierTypes, Report
  <2> QED BY <2>1, <2>3, <2>4 DEF VerdictInv, VerifierTypes, Open
<1>5. ASSUME NEW v \in verifying, Judge(v)
      PROVE  VerdictInv'
  BY <1>5, JudgeKeepsVerdicts
<1>6. ASSUME NEW v \in verifying, Cancelled(v)
      PROVE  VerdictInv'
  <2>1. /\ verifying' = verifying \ {v} /\ cancelled' = cancelled \cup {v}
        /\ UNCHANGED <<now, polled, emitting, verdicts, reports>>
    BY <1>6 DEF Cancelled
  <2>2. Open' = Open
    BY <2>1 DEF Open
  <2> QED BY <2>1, <2>2 DEF VerdictInv, VerifierTypes
<1>7. ASSUME NEW d \in emitting, Announce(d)
      PROVE  VerdictInv'
  BY <1>7 DEF Announce, VerdictInv, VerifierTypes, Open
<1> QED BY <1>1, <1>2, <1>3, <1>4, <1>5, <1>6, <1>7
        DEF Next, Verify, ClusterChanges, StartWatcher, verifierVars, Stop, vars

(* Each reported change is still being verified, or was cancelled, or has  *)
(* exactly one verdict on record. (verifier.go Verify)                     *)
THEOREM OneVerdictEach == Spec => []OneVerdictPerReport
<1>1. Init => VerdictInv
  BY VerifierAssumption DEF Init, VerdictInv, VerifierTypes, Open, Horizon
<1> QED BY <1>1, VerdictInvStep, VerdictInvSuffices, PTL DEF Spec

-----------------------------------------------------------------------------
(* The snapshots                                                           *)

(* A workload that was never deleted is known in an earlier or the same    *)
(* generation, and in the same one it is known as it is.                   *)
SnapshotInv ==
  \A w \in Workloads \ recreated : Known(w) =>
    /\ Exists(w)
    /\ previous[w].gen <= cluster[w].gen
    /\ previous[w].gen = cluster[w].gen => previous[w] = cluster[w]

(* Rollouts raise the generation, and what is created again is recreated.   *)
LEMMA SnapshotInvStep ==
  WatcherInv /\ SnapshotInv /\ [WatcherNext]_watcherVars => SnapshotInv'
<1> SUFFICES ASSUME WatcherInv, SnapshotInv, [WatcherNext]_watcherVars
             PROVE  SnapshotInv'
  OBVIOUS
<1>1. /\ cluster \in [Workloads -> Snapshot] /\ previous \in [Workloads -> Snapshot]
      /\ recreated \subseteq Workloads
  BY DEF WatcherInv, WatcherTypeOK
<1>2. ASSUME NEW w \in Workloads, Known(w)
      PROVE  previous[w].gen \in Int
  BY <1>1, <1>2, SnapshotProperties DEF Known
<1>3. ASSUME NEW w \in Workloads, Exists(w)
      PROVE  cluster[w].gen \in Int
  BY <1>1, <1>3, SnapshotProperties DEF Exists
<1>4. ASSUME NEW w \in Workloads, NEW t \in Templates, Rollout(w, t)
      PROVE  SnapshotInv'
  <2>1. /\ UNCHANGED <<previous, recreated>> /\ Exists(w) /\ Exists(w)'
        /\ cluster'[w].gen = cluster[w].gen + 1
        /\ \A v \in Workloads \ {w} : cluster'[v] = cluster[v]
    BY <1>1, <1>4 DEF Rollout, Exists, NoWorkload
  <2>2. ASSUME NEW v \in Workloads \ recreated, Known(v)
        PROVE  /\ Exists(v)'
               /\ previous[v].gen <= cluster'[v].gen
               /\ previous[v].gen = cluster'[v].gen => previous[v] = cluster'[v]
    <3>1. /\ Exists(v) /\ previous[v].gen <= cluster[v].gen
          /\ previous[v].gen = cluster[v].gen => previous[v] = cluster[v]
      BY <2>2 DEF SnapshotInv
    <3>2. CASE v = w
      BY <1>2, <1>3, <2>1, <2>2, <3>1, <3>2
    <3>3. CASE v # w
      BY <2>1, <3>1, <3>3 DEF Exists
    <3> QED BY <3>2, <3>3
  <2> QED BY <2>1, <2>2 DEF SnapshotInv, Known
<1>5. ASSUME NEW w \in Workloads, NEW t \in Templates, Create(w, t)
      PROVE  SnapshotInv'
  <2>1. /\ UNCHANGED <<previous, recreated>> /\ ~Exists(w)
        /\ \A v \in Workloads \ {w} : cluster'[v] = cluster[v]
    BY <1>1, <1>5 DEF Create
  <2> QED BY <2>1 DEF SnapshotInv, Known, Exists
<1>6. ASSUME NEW w \in Workloads, Delete(w)
      PROVE  SnapshotInv'
  <2>1. /\ UNCHANGED previous /\ recreated' = recreated \cup {w}
        /\ \A v \in Workloads \ {w} : cluster'[v] = cluster[v]
    BY <1>1, <1>6 DEF Delete
  <2> QED BY <2>1 DEF SnapshotInv, Known, Exists
<1>7. CASE CaptureBaseline
  <2>1. previous' = cluster /\ cluster' = cluster
    BY <1>7 DEF CaptureBaseline
  <2> QED BY <1>3, <2>1 DEF SnapshotInv, Known, Exists
<1>8. CASE BaselineFails
  BY <1>8 DEF BaselineFails, SnapshotInv, Known, Exists
<1>9. CASE Poll
  <2>1. /\ UNCHANGED <<cluster, recreated>>
        /\ \A w \in Workloads : previous'[w] \in {previous[w], cluster[w]}
    BY <1>9 DEF Poll
  <2> QED BY <1>3, <2>1 DEF SnapshotInv, Known, Exists
<1>10. CASE UNCHANGED watcherVars
  BY <1>10 DEF watcherVars, SnapshotInv, Known, Exists
<1> QED BY <1>4, <1>5, <1>6, <1>7, <1>8, <1>9, <1>10 DEF WatcherNext, ClusterNext

(* What a poll then does.                                                  *)
LEMMA PollStepCatchesUp ==
  ASSUME SnapshotInv, PollWorkloads, NEW w \in Workloads \ recreated, Exists(w)
  PROVE  previous'[w] = cluster[w]
<1>1. previous'[w] = IF Differs(w) \/ (Exists(w) /\ ~Known(w)) THEN cluster[w] ELSE previous[w]
  BY DEF PollWorkloads, Poll
<1>2. CASE Known(w) /\ ~Differs(w)
  BY <1>1, <1>2 DEF Differs, SnapshotInv
<1>3. CASE ~(Known(w) /\ ~Differs(w))
  BY <1>1, <1>3
<1> QED BY <1>2, <1>3

(* The look at the generation hides no rollout. (watcher.go poll)          *)
THEOREM NoRolloutIsHidden == Spec => PollCatchesUp
<1> DEFINE CatchesUp ==
      PollWorkloads => \A w \in Workloads \ recreated : Exists(w) => previous'[w] = cluster[w]
<1>1. Init => WatcherInv /\ SnapshotInv
  <2>1. WatcherInit => SnapshotInv
    BY DEF WatcherInit, SnapshotInv, Known
  <2> QED BY <2>1, WatcherInvInit DEF Init
<1>2. WatcherInv /\ SnapshotInv /\ [Next]_vars => (WatcherInv /\ SnapshotInv)'
  BY VerificationStepsWatch, WatcherInvStep, SnapshotInvStep
<1>3. SnapshotInv /\ [Next]_vars => [CatchesUp]_vars
  BY PollStepCatchesUp
<1>4. Spec => [][CatchesUp]_vars
  BY <1>1, <1>2, <1>3, PTL DEF Spec
<1> QED BY <1>4 DEF PollCatchesUp

-----------------------------------------------------------------------------
(* Sums, by least counterexamples                                          *)

(* A set of naturals that is not empty has a least element.                *)
LEMMA LeastExists ==
  ASSUME NEW S, S \subseteq Nat, S # {}
  PROVE  \E n \in S : \A k \in S : n <= k
<1>1. PICK n \in S : \A k \in S : ~(<<k, n>> \in OpToRel(<, Nat))
  BY NatLessThanWellFounded, WFMin
<1>2. \A k \in S : ~(k < n)
  BY <1>1 DEF OpToRel
<1> QED BY <1>2

(* The running sums of t: what the recursive function of Total computes.   *)
RunningSum(g, t, n) ==
  \A i \in 0..n : g[i] = IF i = 0 THEN 0 ELSE g[i - 1] + t[i]

(* They exist.                                                              *)
LEMMA RunningSumExists ==
  ASSUME NEW n \in Nat, NEW t \in [1..n -> Int]
  PROVE  \E g \in [0..n -> Int] : RunningSum(g, t, n)
<1> DEFINE Bad == {m \in 0..n : ~\E g \in [0..m -> Int] : RunningSum(g, t, m)}
<1>1. SUFFICES ASSUME Bad # {}
               PROVE  FALSE
  BY DEF Bad
<1>2. PICK m \in Bad : \A k \in Bad : m <= k
  <2>1. Bad \subseteq Nat
    BY DEF Bad
  <2> HIDE DEF Bad
  <2> QED BY <1>1, <2>1, LeastExists
<1>3. m \in 0..n /\ ~\E g \in [0..m -> Int] : RunningSum(g, t, m)
  BY DEF Bad
<1>4. CASE m = 0
  <2> DEFINE g == [i \in 0..0 |-> 0]
  <2>1. g \in [0..0 -> Int] /\ RunningSum(g, t, 0)
    BY DEF RunningSum
  <2> QED BY <1>3, <1>4, <2>1
<1>5. CASE m > 0
  <2>1. m - 1 \in 0..n /\ m - 1 \notin Bad
    BY <1>2, <1>3, <1>5
  <2>2. PICK f \in [0..(m - 1) -> Int] : RunningSum(f, t, m - 1)
    BY <2>1
  <2> DEFINE g == [i \in 0..m |-> IF i = m THEN f[m - 1] + t[m] ELSE f[i]]
  <2>3. g \in [0..m -> Int]
    BY <1>3, <1>5, <2>2
  <2>4. \A i \in 0..m : g[i] = IF i = 0 THEN 0 ELSE g[i - 1] + t[i]
    <3> TAKE i \in 0..m
    <3>1. \A j \in 0..(m - 1) : f[j] = IF j = 0 THEN 0 ELSE f[j - 1] + t[j]
      BY <2>2 DEF RunningSum
    <3> QED BY <1>3, <1>5, <3>1, SMTT(30)
  <2>5. RunningSum(g, t, m)
    BY <2>4 DEF RunningSum
  <2> QED BY <1>3, <2>3, <2>5
<1> QED BY <1>3, <1>4, <1>5

(* A running sum is made of integers.                                      *)
LEMMA RunningSumType ==
  ASSUME NEW n \in Nat, NEW t \in [1..n -> Int], NEW g, RunningSum(g, t, n)
  PROVE  \A i \in 0..n : g[i] \in Int
<1> DEFINE Bad == {m \in 0..n : g[m] \notin Int}
<1>1. SUFFICES ASSUME Bad # {}
               PROVE  FALSE
  BY DEF Bad
<1>2. PICK m \in Bad : \A k \in Bad : m <= k
  <2>1. Bad \subseteq Nat
    BY DEF Bad
  <2> HIDE DEF Bad
  <2> QED BY <1>1, <2>1, LeastExists
<1>3. m \in 0..n /\ g[m] = IF m = 0 THEN 0 ELSE g[m - 1] + t[m]
  BY DEF Bad, RunningSum
<1>4. CASE m = 0
  BY <1>2, <1>3, <1>4
<1>5. CASE m > 0
  <2>1. m - 1 \in 0..n /\ m - 1 \notin Bad
    BY <1>2, <1>3, <1>5
  <2>2. g[m - 1] \in Int /\ t[m] \in Int
    BY <1>3, <1>5, <2>1
  <2> QED BY <1>2, <1>3, <1>5, <2>2
<1> QED BY <1>3, <1>4, <1>5

-----------------------------------------------------------------------------
(* The load of a workload: its parts follow each other from before the     *)
(* first baseline window on.                                               *)
LoadOK(parts) ==
  /\ parts \in Seq([since : (-BaselineWindow)..Horizon, profile : Profiles])
  /\ Len(parts) >= 1
  /\ parts[1].since = -BaselineWindow
  /\ \A i \in 1..(Len(parts) - 1) : parts[i].since <= parts[i + 1].since

(* The last tick is a natural number.                                       *)
LEMMA HorizonType == Horizon \in Nat
BY VerifierAssumption DEF Horizon

(* What a part of a load is made of.                                        *)
LEMMA PartType ==
  ASSUME NEW parts, LoadOK(parts), NEW i \in 1..Len(parts)
  PROVE  /\ Len(parts) \in Nat
         /\ parts[i].since \in Int /\ EndOf(parts, i) \in Int
         /\ -BaselineWindow <= parts[i].since
         /\ parts[i].since <= EndOf(parts, i) /\ EndOf(parts, i) <= Horizon + 1
         /\ parts[i].profile \in Profiles
<1>1. /\ Len(parts) \in Nat /\ Horizon \in Nat
      /\ \A j \in 1..Len(parts) :
           parts[j] \in [since : (-BaselineWindow)..Horizon, profile : Profiles]
  <2> DEFINE Part == [since : (-BaselineWindow)..Horizon, profile : Profiles]
  <2>1. parts \in Seq(Part)
    BY DEF LoadOK
  <2> HIDE DEF Part
  <2>2. Len(parts) \in Nat /\ \A j \in 1..Len(parts) : parts[j] \in Part
    BY <2>1
  <2> QED BY <2>2, HorizonType DEF Part
<1>2. \A j \in 1..Len(parts) : /\ parts[j].since \in Int /\ -BaselineWindow <= parts[j].since
                               /\ parts[j].since <= Horizon /\ parts[j].profile \in Profiles
  BY <1>1 DEF BaselineWindow
<1>3. CASE i = Len(parts)
  BY <1>1, <1>2, <1>3 DEF EndOf
<1>4. CASE i < Len(parts)
  <2>1. i + 1 \in 1..Len(parts) /\ i \in 1..(Len(parts) - 1)
    BY <1>1, <1>4
  <2>2. EndOf(parts, i) = parts[i + 1].since /\ parts[i].since <= parts[i + 1].since
    BY <1>4, <2>1 DEF EndOf, LoadOK
  <2> QED BY <1>1, <1>2, <2>1, <2>2
<1> QED BY <1>1, <1>3, <1>4

(* A part covers a natural number of ticks.                                 *)
LEMMA TicksType ==
  ASSUME NEW parts, LoadOK(parts), NEW i \in 1..Len(parts),
         NEW from \in Int, NEW to \in Int
  PROVE  Ticks(parts, i, from, to) \in Nat
BY PartType DEF Ticks, Larger, Smaller

(* A level is a natural number.                                             *)
LEMMA LevelType ==
  ASSUME NEW parts, LoadOK(parts), NEW i \in 1..Len(parts), NEW signal \in Signals
  PROVE  LevelAt(parts, i, signal) \in Nat
<1>1. parts[i].profile \in Profiles
  BY PartType
<1> QED BY <1>1, VerifierAssumption DEF LevelAt

(* A product of naturals is one.                                           *)
LEMMA ProductType == \A a, b \in Nat : a * b \in Nat
OBVIOUS

(* What a part contributes to a total.                                     *)
Term(parts, i, signal, from, to) == LevelAt(parts, i, signal) * Ticks(parts, i, from, to)

(* So is what a part contributes.                                           *)
LEMMA TermType ==
  ASSUME NEW parts, LoadOK(parts), NEW i \in 1..Len(parts), NEW signal \in Signals,
         NEW from \in Int, NEW to \in Int
  PROVE  Term(parts, i, signal, from, to) \in Nat
BY LevelType, TicksType, ProductType DEF Term

(* Total is the sum of what the parts contribute.                          *)
LEMMA TotalIsASum ==
  ASSUME NEW parts, LoadOK(parts), NEW signal \in Signals, NEW from \in Int, NEW to \in Int
  PROVE  \E g \in [0..Len(parts) -> Int] :
           /\ g[0] = 0
           /\ \A i \in 1..Len(parts) : g[i] = g[i - 1] + Term(parts, i, signal, from, to)
           /\ Total(parts, signal, from, to) = g[Len(parts)]
<1> DEFINE n == Len(parts)
           T(i) == LevelAt(parts, i, signal) * Ticks(parts, i, from, to)
           t == [i \in 1..n |-> T(i)]
           Sum(g) == g = [i \in 0..n |-> IF i = 0 THEN 0 ELSE g[i - 1] + T(i)]
           s == CHOOSE g : Sum(g)
<1>1. Total(parts, signal, from, to) = s[n]
  BY Zenon DEF Total
<1>2. n \in Nat /\ \A i \in 1..n : T(i) \in Int /\ T(i) = Term(parts, i, signal, from, to)
  <2>1. \A i \in 1..n : Term(parts, i, signal, from, to) \in Nat
    BY TermType
  <2>2. \A i \in 1..n : T(i) = Term(parts, i, signal, from, to)
    BY DEF Term
  <2>3. n \in Nat
    BY DEF LoadOK
  <2> QED BY <2>1, <2>2, <2>3
<1> HIDE DEF T, n
<1>3. t \in [1..n -> Int] /\ \A i \in 1..n : t[i] = T(i)
  BY <1>2
<1> HIDE DEF t
<1>4. PICK g \in [0..n -> Int] : RunningSum(g, t, n)
  BY <1>2, <1>3, RunningSumExists
<1>5. \A i \in 0..n : g[i] = IF i = 0 THEN 0 ELSE g[i - 1] + T(i)
  BY <1>2, <1>3, <1>4 DEF RunningSum
<1>6. Sum(g)
  BY <1>5
<1> HIDE DEF s
<1>7. Sum(s)
  <2> HIDE DEF Sum
  <2> QED BY <1>6 DEF s
<1>8. DOMAIN s = 0..n /\ s = [i \in 0..n |-> s[i]]
  BY <1>7
<1>9. \A i \in 0..n : s[i] = IF i = 0 THEN 0 ELSE s[i - 1] + T(i)
  BY <1>7
<1>10. RunningSum(s, t, n)
  BY <1>2, <1>3, <1>9 DEF RunningSum
<1>11. \A i \in 0..n : s[i] \in Int
  BY <1>2, <1>3, <1>10, RunningSumType
<1>12. s \in [0..n -> Int]
  BY <1>8, <1>11
<1>13. s[0] = 0 /\ \A i \in 1..n : s[i] = s[i - 1] + Term(parts, i, signal, from, to)
  BY <1>2, <1>9
<1> QED BY <1>1, <1>12, <1>13 DEF n

(* A total is a number.                                                     *)
LEMMA TotalType ==
  ASSUME NEW parts, LoadOK(parts), NEW signal \in Signals, NEW from \in Int, NEW to \in Int
  PROVE  Total(parts, signal, from, to) \in Int
<1>1. Len(parts) \in Nat
  BY DEF LoadOK
<1>2. PICK g \in [0..Len(parts) -> Int] : Total(parts, signal, from, to) = g[Len(parts)]
  BY TotalIsASum
<1> QED BY <1>1, <1>2

-----------------------------------------------------------------------------
(* Totals over a window                                                    *)

(* Multiplication distributes, stated for the provers.                      *)
LEMMA Distributes == \A a, b, c \in Int : a * (b + c) = a * b + a * c
OBVIOUS

(* The ticks of from..to-1 that the first i parts cover.                   *)
Covered(parts, i, from, to) == Larger(0, Smaller(EndOf(parts, i), to) - from)

(* The first parts cover a natural number of ticks.                         *)
LEMMA CoveredType ==
  ASSUME NEW parts, LoadOK(parts), NEW i \in 1..Len(parts), NEW from \in Int, NEW to \in Int
  PROVE  Covered(parts, i, from, to) \in Nat
BY PartType DEF Covered, Larger, Smaller

(* Each part adds its ticks, and together they cover the window.            *)
LEMMA CoveredStep ==
  ASSUME NEW parts, LoadOK(parts), NEW from \in Int, NEW to \in Int,
         -BaselineWindow <= from, from <= to, to <= Horizon + 1
  PROVE  /\ Ticks(parts, 1, from, to) = Covered(parts, 1, from, to)
         /\ \A i \in 2..Len(parts) :
              Covered(parts, i, from, to)
                = Covered(parts, i - 1, from, to) + Ticks(parts, i, from, to)
         /\ Covered(parts, Len(parts), from, to) = to - from
<1>1. Len(parts) \in Nat /\ Len(parts) >= 1 /\ Horizon \in Nat
  BY HorizonType DEF LoadOK
<1>2. Ticks(parts, 1, from, to) = Covered(parts, 1, from, to)
  <2>1. parts[1].since = -BaselineWindow
    BY DEF LoadOK
  <2>2. 1 \in 1..Len(parts)
    BY <1>1
  <2>3. EndOf(parts, 1) \in Int
    BY <2>2, PartType
  <2> QED BY <2>1, <2>3 DEF Ticks, Covered, Larger, Smaller, BaselineWindow
<1>3. ASSUME NEW i \in 2..Len(parts)
      PROVE  Covered(parts, i, from, to)
               = Covered(parts, i - 1, from, to) + Ticks(parts, i, from, to)
  <2>1. i \in 1..Len(parts) /\ i - 1 \in 1..Len(parts) /\ i - 1 # Len(parts)
    BY <1>1
  <2>2. EndOf(parts, i - 1) = parts[i].since
    BY <2>1 DEF EndOf
  <2>3. parts[i].since \in Int /\ EndOf(parts, i) \in Int /\ parts[i].since <= EndOf(parts, i)
    BY <2>1, PartType
  <2> QED BY <2>2, <2>3, SMTT(30) DEF Ticks, Covered, Larger, Smaller
<1>4. Covered(parts, Len(parts), from, to) = to - from
  BY <1>1 DEF Covered, EndOf, Larger, Smaller
<1> QED BY <1>2, <1>3, <1>4

(* The level of a part that covers ticks of a window is one of its levels. *)
LEMMA CoveringLevel ==
  ASSUME NEW parts, LoadOK(parts), NEW i \in 1..Len(parts), NEW signal,
         NEW from, NEW to, Ticks(parts, i, from, to) > 0
  PROVE  LevelAt(parts, i, signal) \in LevelsIn(parts, signal, from, to)
BY DEF LevelsIn

(* What a steady signal amounts to.                                        *)
LEMMA SteadyTotal ==
  ASSUME NEW parts, LoadOK(parts), NEW signal \in Signals, NEW from \in Int, NEW to \in Int,
         -BaselineWindow <= from, from <= to, to <= Horizon + 1,
         NEW level \in Nat, LevelsIn(parts, signal, from, to) \subseteq {level}
  PROVE  Total(parts, signal, from, to) = level * (to - from)
<1> DEFINE n == Len(parts)
           C(i) == Covered(parts, i, from, to)
           X(i) == Term(parts, i, signal, from, to)
           K(i) == Ticks(parts, i, from, to)
<1>1. n \in Nat /\ n >= 1
  BY DEF LoadOK
<1>2. /\ K(1) = C(1) /\ C(n) = to - from
      /\ \A i \in 2..n : C(i) = C(i - 1) + K(i)
  BY CoveredStep
<1>3. \A i \in 1..n : X(i) = level * K(i) /\ K(i) \in Nat /\ C(i) \in Nat
  <2> TAKE i \in 1..n
  <2>1. K(i) \in Nat /\ C(i) \in Nat /\ LevelAt(parts, i, signal) \in Nat
    BY TicksType, LevelType, CoveredType
  <2>2. CASE K(i) > 0
    <3>1. LevelAt(parts, i, signal) = level
      BY <2>2, CoveringLevel
    <3> QED BY <2>1, <3>1 DEF Term
  <2>3. CASE K(i) = 0
    BY <2>1, <2>3 DEF Term
  <2> QED BY <2>1, <2>2, <2>3
<1>4. PICK g \in [0..n -> Int] :
        /\ g[0] = 0
        /\ \A i \in 1..n : g[i] = g[i - 1] + X(i)
        /\ Total(parts, signal, from, to) = g[n]
  BY TotalIsASum
<1> HIDE DEF n, C, X, K
<1> DEFINE Bad == {i \in 1..n : g[i] # level * C(i)}
<1>5. Bad = {}
  <2> SUFFICES ASSUME Bad # {}
               PROVE  FALSE
    OBVIOUS
  <2>1. PICK i \in Bad : \A k \in Bad : i <= k
    <3>1. Bad \subseteq Nat
      BY <1>1
    <3> HIDE DEF Bad
    <3> QED BY <3>1, LeastExists
  <2>2. i \in 1..n /\ g[i] # level * C(i) /\ g[i] = g[i - 1] + level * K(i)
    BY <1>3, <1>4
  <2>3. CASE i = 1
    BY <1>1, <1>2, <1>3, <1>4, <2>2, <2>3
  <2>4. CASE i > 1
    <3>1. i - 1 \in 1..n /\ i - 1 \notin Bad /\ i \in 2..n
      BY <1>1, <2>1, <2>2, <2>4
    <3>2. g[i - 1] = level * C(i - 1)
      BY <3>1
    <3>3. C(i - 1) \in Int /\ K(i) \in Int /\ C(i) = C(i - 1) + K(i)
      BY <1>2, <1>3, <3>1
    <3>4. level * C(i) = level * C(i - 1) + level * K(i)
      BY <3>3, Distributes
    <3> QED BY <2>2, <3>2, <3>4
  <2> QED BY <1>1, <2>2, <2>3, <2>4
<1>6. g[n] = level * C(n)
  BY <1>1, <1>5
<1> QED BY <1>2, <1>4, <1>6

(* Two windows that meet make one.                                         *)
LEMMA TotalsAdd ==
  ASSUME NEW parts, LoadOK(parts), NEW signal \in Signals,
         NEW from \in Int, NEW mid \in Int, NEW to \in Int, from <= mid, mid <= to
  PROVE  Total(parts, signal, from, to)
           = Total(parts, signal, from, mid) + Total(parts, signal, mid, to)
<1> DEFINE n == Len(parts)
           X(i) == Term(parts, i, signal, from, to)
           Y(i) == Term(parts, i, signal, from, mid)
           Z(i) == Term(parts, i, signal, mid, to)
<1>1. n \in Nat
  BY DEF LoadOK
<1>2. \A i \in 1..n : X(i) = Y(i) + Z(i) /\ X(i) \in Int /\ Y(i) \in Int /\ Z(i) \in Int
  <2> TAKE i \in 1..n
  <2>1. /\ Ticks(parts, i, from, mid) \in Int /\ Ticks(parts, i, mid, to) \in Int
        /\ LevelAt(parts, i, signal) \in Int
    BY TicksType, LevelType
  <2>2. Ticks(parts, i, from, to) = Ticks(parts, i, from, mid) + Ticks(parts, i, mid, to)
    BY PartType DEF Ticks, Larger, Smaller
  <2>3. X(i) \in Nat /\ Y(i) \in Nat /\ Z(i) \in Nat
    BY TermType
  <2> QED BY <2>1, <2>2, <2>3, Distributes DEF Term
<1>3. PICK f \in [0..n -> Int] :
        /\ f[0] = 0
        /\ \A i \in 1..n : f[i] = f[i - 1] + X(i)
        /\ Total(parts, signal, from, to) = f[n]
  BY TotalIsASum
<1>4. PICK g \in [0..n -> Int] :
        /\ g[0] = 0
        /\ \A i \in 1..n : g[i] = g[i - 1] + Y(i)
        /\ Total(parts, signal, from, mid) = g[n]
  BY TotalIsASum
<1>5. PICK h \in [0..n -> Int] :
        /\ h[0] = 0
        /\ \A i \in 1..n : h[i] = h[i - 1] + Z(i)
        /\ Total(parts, signal, mid, to) = h[n]
  BY TotalIsASum
<1> HIDE DEF n, X, Y, Z
<1> DEFINE Bad == {i \in 0..n : f[i] # g[i] + h[i]}
<1>6. Bad = {}
  <2> SUFFICES ASSUME Bad # {}
               PROVE  FALSE
    OBVIOUS
  <2>1. PICK i \in Bad : \A k \in Bad : i <= k
    <3>1. Bad \subseteq Nat
      BY <1>1
    <3> HIDE DEF Bad
    <3> QED BY <3>1, LeastExists
  <2>2. i \in 0..n /\ f[i] # g[i] + h[i] /\ i # 0
    BY <1>1, <1>3, <1>4, <1>5
  <2>3. i \in 1..n /\ i - 1 \in 0..n /\ i - 1 \notin Bad
    BY <1>1, <2>1, <2>2
  <2>4. f[i - 1] = g[i - 1] + h[i - 1]
    BY <2>3
  <2>5. f[i] = f[i - 1] + X(i) /\ g[i] = g[i - 1] + Y(i) /\ h[i] = h[i - 1] + Z(i)
    BY <1>3, <1>4, <1>5, <2>3
  <2> QED BY <1>2, <2>2, <2>3, <2>4, <2>5, SMTT(30)
<1>7. f[n] = g[n] + h[n]
  BY <1>1, <1>6, SMTT(30)
<1> QED BY <1>3, <1>4, <1>5, <1>7

(* Some part covers a window that is not empty.                            *)
LEMMA WindowIsCovered ==
  ASSUME NEW parts, LoadOK(parts), NEW from \in Int, NEW to \in Int,
         -BaselineWindow <= from, from < to, to <= Horizon + 1
  PROVE  \E i \in 1..Len(parts) : Ticks(parts, i, from, to) > 0
<1> DEFINE n == Len(parts)
           Ending == {i \in 1..n : EndOf(parts, i) > from}
<1>1. n \in Nat /\ n >= 1 /\ parts[1].since = -BaselineWindow /\ Horizon \in Nat
  BY HorizonType DEF LoadOK
<1>2. n \in Ending
  BY <1>1 DEF EndOf
<1>3. PICK i \in Ending : \A k \in Ending : i <= k
  <2>1. Ending \subseteq Nat /\ Ending # {}
    BY <1>1, <1>2
  <2> HIDE DEF Ending
  <2> QED BY <2>1, LeastExists
<1>4. i \in 1..n /\ EndOf(parts, i) > from /\ EndOf(parts, i) \in Int /\ parts[i].since \in Int
  BY <1>3, PartType
<1>5. parts[i].since <= from
  <2>1. CASE i = 1
    BY <1>1, <2>1
  <2>2. CASE i > 1
    <3>1. i - 1 \in 1..n /\ i - 1 # n /\ i - 1 \notin Ending
      BY <1>1, <1>3, <1>4, <2>2
    <3>2. EndOf(parts, i - 1) = parts[i].since
      BY <1>1, <1>4, <3>1 DEF EndOf
    <3> QED BY <1>4, <3>1, <3>2
  <2> QED BY <1>1, <1>4, <2>1, <2>2
<1>6. Ticks(parts, i, from, to) > 0
  BY <1>4, <1>5 DEF Ticks, Larger, Smaller
<1> QED BY <1>4, <1>6

(* A signal that is nowhere zero in a window adds up to something.         *)
LEMMA PositiveTotal ==
  ASSUME NEW parts, LoadOK(parts), NEW signal \in Signals, NEW from \in Int, NEW to \in Int,
         -BaselineWindow <= from, from < to, to <= Horizon + 1,
         0 \notin LevelsIn(parts, signal, from, to)
  PROVE  Total(parts, signal, from, to) > 0
<1> DEFINE n == Len(parts)
           X(i) == Term(parts, i, signal, from, to)
<1>1. n \in Nat
  BY DEF LoadOK
<1>2. PICK p \in 1..n : Ticks(parts, p, from, to) > 0
  BY WindowIsCovered
<1>3. X(p) > 0
  <2>1. /\ LevelAt(parts, p, signal) \in Nat /\ LevelAt(parts, p, signal) # 0
        /\ Ticks(parts, p, from, to) \in Nat
    BY <1>2, CoveringLevel, LevelType, TicksType
  <2>2. \A a, b \in Nat : a # 0 /\ b > 0 => a * b > 0
    OBVIOUS
  <2> QED BY <1>2, <2>1, <2>2 DEF Term
<1>4. \A i \in 1..n : X(i) \in Nat
  BY TermType
<1>5. PICK g \in [0..n -> Int] :
        /\ g[0] = 0
        /\ \A i \in 1..n : g[i] = g[i - 1] + X(i)
        /\ Total(parts, signal, from, to) = g[n]
  BY TotalIsASum
<1> HIDE DEF n, X
<1> DEFINE Bad == {i \in 0..n : ~(g[i] >= 0 /\ (i >= p => g[i] > 0))}
<1>6. Bad = {}
  <2> SUFFICES ASSUME Bad # {}
               PROVE  FALSE
    OBVIOUS
  <2>1. PICK i \in Bad : \A k \in Bad : i <= k
    <3>1. Bad \subseteq Nat
      BY <1>1
    <3> HIDE DEF Bad
    <3> QED BY <3>1, LeastExists
  <2>2. i \in 0..n /\ ~(g[i] >= 0 /\ (i >= p => g[i] > 0)) /\ i # 0
    BY <1>1, <1>2, <1>5
  <2>3. i \in 1..n /\ i - 1 \in 0..n /\ i - 1 \notin Bad
    BY <1>1, <2>1, <2>2
  <2>4. g[i - 1] >= 0 /\ (i - 1 >= p => g[i - 1] > 0)
    BY <2>3
  <2>5. g[i] = g[i - 1] + X(i) /\ X(i) \in Nat
    BY <1>4, <1>5, <2>3
  <2>6. CASE i = p
    BY <1>3, <2>2, <2>3, <2>4, <2>5, <2>6
  <2>7. CASE i # p
    BY <1>1, <1>2, <2>2, <2>3, <2>4, <2>5, <2>7
  <2> QED BY <2>6, <2>7
<1>7. g[n] > 0
  <2>1. n \in 0..n /\ n >= p
    BY <1>1, <1>2
  <2> QED BY <1>6, <2>1
<1> QED BY <1>5, <1>7

(* The levels of a shorter window are among those of a longer one.         *)
LEMMA ShorterWindow ==
  ASSUME NEW parts, LoadOK(parts), NEW signal,
         NEW from \in Int, NEW to \in Int, NEW start \in Int, NEW end \in Int,
         from <= start, end <= to
  PROVE  LevelsIn(parts, signal, start, end) \subseteq LevelsIn(parts, signal, from, to)
<1>1. ASSUME NEW i \in 1..Len(parts), Ticks(parts, i, start, end) > 0
      PROVE  Ticks(parts, i, from, to) > 0
  <2> DEFINE first == parts[i].since
             last  == EndOf(parts, i)
  <2>1. first \in Int /\ last \in Int
    BY PartType
  <2>2. Larger(0, Smaller(last, end) - Larger(first, start)) > 0
    BY <1>1 DEF Ticks
  <2> HIDE DEF first, last
  <2>3. Smaller(last, end) > Larger(first, start)
    BY <2>1, <2>2 DEF Larger, Smaller
  <2>4. Smaller(last, to) > Larger(first, from)
    BY <2>1, <2>3 DEF Larger, Smaller
  <2>5. Larger(0, Smaller(last, to) - Larger(first, from)) > 0
    BY <2>1, <2>4 DEF Larger, Smaller
  <2> QED BY <2>5 DEF Ticks, first, last
<1> QED BY <1>1 DEF LevelsIn

-----------------------------------------------------------------------------
(* A rollout does not change what earlier windows saw                      *)

(* More load after the end of a window.                                    *)
LEMMA LaterLoad ==
  ASSUME NEW parts, LoadOK(parts), NEW part \in [since : 0..Horizon, profile : Profiles],
         parts[Len(parts)].since <= part.since,
         NEW from \in Int, NEW to \in Int, to <= part.since
  PROVE  LET more == Append(parts, part)
         IN  /\ LoadOK(more)
             /\ Len(more) = Len(parts) + 1
             /\ \A i \in 1..Len(parts) :
                  /\ \A signal : LevelAt(more, i, signal) = LevelAt(parts, i, signal)
                  /\ Ticks(more, i, from, to) = Ticks(parts, i, from, to)
             /\ Ticks(more, Len(parts) + 1, from, to) = 0
<1> DEFINE more == Append(parts, part)
           n == Len(parts)
           Part == [since : (-BaselineWindow)..Horizon, profile : Profiles]
<1>1. part \in Part /\ part.since \in 0..Horizon /\ Horizon \in Nat
  BY HorizonType DEF BaselineWindow
<1>2. parts \in Seq(Part) /\ n \in Nat /\ n >= 1
  BY DEF LoadOK
<1> HIDE DEF Part
<1>3. /\ more \in Seq(Part) /\ Len(more) = n + 1
      /\ \A i \in 1..n : more[i] = parts[i]
      /\ more[n + 1] = part
  BY <1>1, <1>2
<1> HIDE DEF more, n
<1>4. LoadOK(more)
  <2>1. more[1].since = -BaselineWindow
    BY <1>2, <1>3 DEF LoadOK
  <2>2. ASSUME NEW i \in 1..(Len(more) - 1)
        PROVE  more[i].since <= more[i + 1].since
    <3>1. CASE i = n
      BY <1>2, <1>3, <3>1 DEF n
    <3>2. CASE i # n
      <4>1. i \in 1..(n - 1) /\ i \in 1..n /\ i + 1 \in 1..n
        BY <1>2, <1>3, <3>2
      <4> QED BY <1>3, <4>1 DEF LoadOK, n
    <3> QED BY <3>1, <3>2
  <2> QED BY <1>2, <1>3, <2>1, <2>2 DEF LoadOK, Part
<1>5. ASSUME NEW i \in 1..n
      PROVE  /\ \A signal : LevelAt(more, i, signal) = LevelAt(parts, i, signal)
             /\ Ticks(more, i, from, to) = Ticks(parts, i, from, to)
  <2>1. more[i] = parts[i]
    BY <1>3
  <2>2. CASE i = n
    <3>1. EndOf(more, i) = part.since /\ EndOf(parts, i) = Horizon + 1
      BY <1>2, <1>3, <2>2 DEF EndOf, n
    <3>2. Smaller(part.since, to) = to /\ Smaller(Horizon + 1, to) = to
      BY <1>1 DEF Smaller
    <3> QED BY <2>1, <3>1, <3>2 DEF LevelAt, Ticks
  <2>3. CASE i # n
    <3>1. i + 1 \in 1..n /\ i # Len(more)
      BY <1>2, <1>3, <2>3
    <3>2. EndOf(more, i) = EndOf(parts, i)
      BY <1>3, <2>3, <3>1 DEF EndOf, n
    <3> QED BY <2>1, <3>2 DEF LevelAt, Ticks
  <2> QED BY <2>2, <2>3
<1>6. Ticks(more, n + 1, from, to) = 0
  <2>1. EndOf(more, n + 1) = Horizon + 1 /\ more[n + 1].since = part.since
    BY <1>3 DEF EndOf
  <2> QED BY <1>1, <2>1 DEF Ticks, Larger, Smaller
<1> QED BY <1>3, <1>4, <1>5, <1>6 DEF more, n

(* ... nor the levels in them,                                              *)
LEMMA LaterLoadLevels ==
  ASSUME NEW parts, LoadOK(parts), NEW part \in [since : 0..Horizon, profile : Profiles],
         parts[Len(parts)].since <= part.since,
         NEW from \in Int, NEW to \in Int, to <= part.since, NEW signal
  PROVE  LevelsIn(Append(parts, part), signal, from, to) = LevelsIn(parts, signal, from, to)
<1> DEFINE more == Append(parts, part)
<1>1. Len(parts) \in Nat
  BY DEF LoadOK
<1>2. /\ Len(more) = Len(parts) + 1
      /\ \A i \in 1..Len(parts) : /\ LevelAt(more, i, signal) = LevelAt(parts, i, signal)
                                  /\ Ticks(more, i, from, to) = Ticks(parts, i, from, to)
      /\ Ticks(more, Len(parts) + 1, from, to) = 0
  BY LaterLoad
<1> HIDE DEF more
<1>3. {j \in 1..Len(more) : Ticks(more, j, from, to) > 0}
        = {j \in 1..Len(parts) : Ticks(parts, j, from, to) > 0}
  BY <1>1, <1>2
<1>4. LevelsIn(more, signal, from, to) = LevelsIn(parts, signal, from, to)
  BY <1>2, <1>3 DEF LevelsIn
<1> QED BY <1>4 DEF more

(* ... nor their totals,                                                    *)
LEMMA LaterLoadTotal ==
  ASSUME NEW parts, LoadOK(parts), NEW part \in [since : 0..Horizon, profile : Profiles],
         parts[Len(parts)].since <= part.since,
         NEW from \in Int, NEW to \in Int, to <= part.since, NEW signal \in Signals
  PROVE  Total(Append(parts, part), signal, from, to) = Total(parts, signal, from, to)
<1> DEFINE more == Append(parts, part)
           n == Len(parts)
           X(i) == Term(parts, i, signal, from, to)
<1>1. n \in Nat
  BY DEF LoadOK
<1>2. /\ LoadOK(more) /\ Len(more) = n + 1
      /\ \A i \in 1..n : /\ LevelAt(more, i, signal) = LevelAt(parts, i, signal)
                         /\ Ticks(more, i, from, to) = Ticks(parts, i, from, to)
      /\ Ticks(more, n + 1, from, to) = 0
  BY LaterLoad
<1> HIDE DEF more
<1>3. \A i \in 1..n : Term(more, i, signal, from, to) = X(i)
  BY <1>2 DEF Term
<1>4. Term(more, n + 1, signal, from, to) = 0
  <2>1. n + 1 \in 1..Len(more)
    BY <1>1, <1>2
  <2>2. LevelAt(more, n + 1, signal) \in Nat
    BY <1>2, <2>1, LevelType
  <2> QED BY <1>2, <2>2 DEF Term
<1>5. PICK f \in [0..(n + 1) -> Int] :
        /\ f[0] = 0
        /\ \A i \in 1..(n + 1) : f[i] = f[i - 1] + Term(more, i, signal, from, to)
        /\ Total(more, signal, from, to) = f[n + 1]
  <2>1. Len(more) = n + 1 /\ LoadOK(more)
    BY <1>2
  <2>2. \E f \in [0..Len(more) -> Int] :
          /\ f[0] = 0
          /\ \A i \in 1..Len(more) : f[i] = f[i - 1] + Term(more, i, signal, from, to)
          /\ Total(more, signal, from, to) = f[Len(more)]
    BY <2>1, TotalIsASum
  <2> QED BY <2>1, <2>2
<1>6. PICK g \in [0..n -> Int] :
        /\ g[0] = 0
        /\ \A i \in 1..n : g[i] = g[i - 1] + X(i)
        /\ Total(parts, signal, from, to) = g[n]
  BY TotalIsASum
<1> HIDE DEF n, X
<1>7. \A i \in 1..n : f[i] = f[i - 1] + X(i)
  BY <1>1, <1>3, <1>5
<1>8. f[n + 1] = f[n]
  <2>1. f[n + 1] = f[(n + 1) - 1] + 0 /\ f[n] \in Int
    BY <1>1, <1>4, <1>5
  <2> QED BY <1>1, <2>1
<1> DEFINE Bad == {i \in 0..n : f[i] # g[i]}
<1>9. Bad = {}
  <2> SUFFICES ASSUME Bad # {}
               PROVE  FALSE
    OBVIOUS
  <2>1. PICK i \in Bad : \A k \in Bad : i <= k
    <3>1. Bad \subseteq Nat
      BY <1>1
    <3> HIDE DEF Bad
    <3> QED BY <3>1, LeastExists
  <2>2. i \in 0..n /\ f[i] # g[i] /\ i # 0
    BY <1>1, <1>5, <1>6
  <2>3. i \in 1..n /\ i - 1 \in 0..n /\ i - 1 \notin Bad
    BY <1>1, <2>1, <2>2
  <2>4. f[i - 1] = g[i - 1]
    BY <2>3
  <2> QED BY <1>6, <1>7, <2>2, <2>3, <2>4
<1>10. f[n] = g[n]
  <2>1. n \in 0..n
    BY <1>1
  <2>2. \A i \in 0..n : f[i] = g[i]
    BY <1>9
  <2> QED BY <2>1, <2>2
<1> QED BY <1>5, <1>6, <1>8, <1>10 DEF more

(* What the checks of an earlier tick saw, they still see after a rollout. *)
LEMMA LaterLoadPasses ==
  ASSUME NEW parts, LoadOK(parts), NEW part \in [since : 0..Horizon, profile : Profiles],
         parts[Len(parts)].since <= part.since,
         NEW at \in Nat, at <= part.since, NEW signal \in Signals
  PROVE  Passes(Append(parts, part), signal, at) = Passes(parts, signal, at)
<1> DEFINE more == Append(parts, part)
<1>1. at \in Int /\ at - BaselineWindow \in Int /\ at - CurrentWindow \in Int
      /\ at - RestartWindow \in Int
  BY DEF BaselineWindow, CurrentWindow, RestartWindow
<1>2. ASSUME NEW from \in Int
      PROVE  /\ Total(more, signal, from, at) = Total(parts, signal, from, at)
             /\ Slowest(more, from, at) = Slowest(parts, from, at)
  <2>1. Total(more, signal, from, at) = Total(parts, signal, from, at)
    BY <1>1, LaterLoadTotal
  <2>2. LevelsIn(more, "latency_p99", from, at) = LevelsIn(parts, "latency_p99", from, at)
    BY <1>1, LaterLoadLevels
  <2> HIDE DEF more
  <2>3. Slowest(more, from, at) = Slowest(parts, from, at)
    BY <2>2 DEF Slowest
  <2> QED BY <2>1, <2>3
<1> HIDE DEF more
<1>3. /\ Baseline(more, signal, at) = Baseline(parts, signal, at)
      /\ Current(more, signal, at) = Current(parts, signal, at)
      /\ Total(more, signal, at - RestartWindow, at) = Total(parts, signal, at - RestartWindow, at)
      /\ Slowest(more, at - BaselineWindow, at) = Slowest(parts, at - BaselineWindow, at)
      /\ Slowest(more, at - CurrentWindow, at) = Slowest(parts, at - CurrentWindow, at)
  BY <1>1, <1>2 DEF Baseline, Current
<1>4. Passes(more, signal, at) = Passes(parts, signal, at)
  BY <1>3 DEF Passes
<1> QED BY <1>4 DEF more

-----------------------------------------------------------------------------
(* What the checks make of a load                                          *)

(* There are finitely many levels in a window.                              *)
LEMMA LevelsFinite ==
  ASSUME NEW parts, LoadOK(parts), NEW signal \in Signals, NEW from, NEW to
  PROVE  /\ IsFiniteSet(LevelsIn(parts, signal, from, to))
         /\ LevelsIn(parts, signal, from, to) \subseteq Nat
<1> DEFINE covering == {j \in 1..Len(parts) : Ticks(parts, j, from, to) > 0}
           level == [i \in covering |-> LevelAt(parts, i, signal)]
<1>1. Len(parts) \in Nat
  BY DEF LoadOK
<1>2. covering \in SUBSET Nat /\ \A i \in covering : i <= Len(parts)
  BY <1>1
<1>3. IsFiniteSet(covering)
  <2> HIDE DEF covering
  <2> QED BY <1>1, <1>2, FS_BoundedSetOfNaturals
<1>4. level \in Surjection(covering, LevelsIn(parts, signal, from, to))
  BY DEF Surjection, LevelsIn
<1>5. IsFiniteSet(LevelsIn(parts, signal, from, to))
  <2> HIDE DEF covering, level
  <2> QED BY <1>3, <1>4, FS_Surjection
<1>6. LevelsIn(parts, signal, from, to) \subseteq Nat
  BY LevelType DEF LevelsIn
<1> QED BY <1>5, <1>6

(* A signal at one level all along passes its check.                       *)
LEMMA SteadyPasses ==
  ASSUME NEW parts, LoadOK(parts), NEW at \in 0..Horizon, NEW signal \in Signals,
         Cardinality(LevelsIn(parts, signal, at - BaselineWindow, at)) = 1,
         signal = "pod_restarts" => LevelsIn(parts, signal, at - BaselineWindow, at) = {0},
         signal = "cpu_saturation" =>
           \A l \in LevelsIn(parts, signal, at - BaselineWindow, at) : l < 90
  PROVE  Passes(parts, signal, at)
<1> DEFINE base == at - BaselineWindow
           levels == LevelsIn(parts, signal, base, at)
<1>1. /\ at \in Int /\ base \in Int /\ base = at - 30 /\ -BaselineWindow <= base
      /\ at <= Horizon + 1 /\ Horizon \in Nat /\ BaselineWindow = 30
      /\ CurrentWindow = 6 /\ RestartWindow = 12
  BY HorizonType DEF BaselineWindow, CurrentWindow, RestartWindow
<1>2. PICK level : levels = {level}
  <2>1. IsFiniteSet(levels)
    BY LevelsFinite
  <2> HIDE DEF levels
  <2> QED BY <2>1, FS_Singleton DEF levels
<1>3. level \in Nat
  BY <1>2, LevelsFinite
<1>4. ASSUME NEW from \in Int, base <= from, from < at
      PROVE  /\ Total(parts, signal, from, at) = level * (at - from)
             /\ LevelsIn(parts, signal, from, at) = {level}
  <2>1. LevelsIn(parts, signal, from, at) \subseteq {level}
    BY <1>1, <1>2, <1>4, ShorterWindow
  <2>2. Total(parts, signal, from, at) = level * (at - from)
    BY <1>1, <1>3, <1>4, <2>1, SteadyTotal
  <2>3. \E i \in 1..Len(parts) : Ticks(parts, i, from, at) > 0
    BY <1>1, <1>4, WindowIsCovered
  <2>4. LevelsIn(parts, signal, from, at) # {}
    BY <2>3, CoveringLevel
  <2> QED BY <2>1, <2>2, <2>4
<1>5. /\ Total(parts, signal, at - 30, at) = level * 30
      /\ Total(parts, signal, at - 6, at) = level * 6
      /\ Total(parts, signal, at - 12, at) = level * 12
  <2>1. Total(parts, signal, at - 30, at) = level * (at - (at - 30))
    BY <1>1, <1>4
  <2>2. Total(parts, signal, at - 6, at) = level * (at - (at - 6))
    BY <1>1, <1>4
  <2>3. Total(parts, signal, at - 12, at) = level * (at - (at - 12))
    BY <1>1, <1>4
  <2>4. at - (at - 30) = 30 /\ at - (at - 6) = 6 /\ at - (at - 12) = 12
    BY <1>1
  <2> QED BY <2>1, <2>2, <2>3, <2>4
<1>6. Baseline(parts, signal, at) = level * 30 /\ Current(parts, signal, at) = level * 6
  BY <1>1, <1>5 DEF Baseline, Current
<1>7. CASE signal = "error_rate"
  BY <1>1, <1>3, <1>6, <1>7 DEF Passes
<1>8. CASE signal = "latency_p99"
  <2>1. /\ LevelsIn(parts, "latency_p99", at - BaselineWindow, at) = {level}
        /\ LevelsIn(parts, "latency_p99", at - CurrentWindow, at) = {level}
    BY <1>1, <1>4, <1>8
  <2>2. /\ Slowest(parts, at - BaselineWindow, at) = level
        /\ Slowest(parts, at - CurrentWindow, at) = level
    BY <1>3, <2>1 DEF Slowest
  <2> QED BY <1>3, <1>8, <2>2 DEF Passes
<1>9. CASE signal = "pod_restarts"
  <2>1. level = 0
    BY <1>2, <1>9
  <2>2. Total(parts, "pod_restarts", at - RestartWindow, at) <= 1
    BY <1>1, <1>5, <1>9, <2>1
  <2> QED BY <1>9, <2>2 DEF Passes
<1>10. CASE signal = "throughput"
  BY <1>1, <1>3, <1>6, <1>10 DEF Passes
<1>11. CASE signal = "cpu_saturation"
  <2>1. level < 90
    BY <1>2, <1>11
  <2> QED BY <1>1, <1>3, <1>6, <1>11, <2>1 DEF Passes
<1> QED BY <1>7, <1>8, <1>9, <1>10, <1>11 DEF Signals

(* Errors that begin with a rollout fail the check of the error rate.      *)
LEMMA NewErrorsFail ==
  ASSUME NEW parts, LoadOK(parts), NEW at \in 0..Horizon, NEW rollout \in Int,
         at - rollout \in 6..19,
         LevelsIn(parts, "error_rate", -BaselineWindow, rollout) = {0},
         Cardinality(LevelsIn(parts, "error_rate", rollout, at)) = 1,
         0 \notin LevelsIn(parts, "error_rate", rollout, at)
  PROVE  ~Passes(parts, "error_rate", at)
<1> DEFINE signal == "error_rate"
<1>1. /\ at \in Int /\ at - 30 \in Int /\ at - 6 \in Int /\ signal \in Signals
      /\ Horizon \in Nat /\ BaselineWindow = 30 /\ CurrentWindow = 6
  BY HorizonType DEF BaselineWindow, CurrentWindow, Signals
<1>2. /\ -30 <= at - 30 /\ at - 30 <= rollout /\ rollout <= at - 6 /\ -30 <= rollout
      /\ at <= Horizon + 1 /\ rollout <= Horizon + 1 /\ rollout <= at
  BY <1>1
<1> HIDE DEF signal
<1>3. PICK level : LevelsIn(parts, signal, rollout, at) = {level}
  <2>1. IsFiniteSet(LevelsIn(parts, signal, rollout, at))
    BY <1>1, LevelsFinite
  <2> QED BY <2>1, FS_Singleton DEF signal
<1>4. level \in Nat /\ level # 0
  BY <1>1, <1>3, LevelsFinite DEF signal
<1>5. Total(parts, signal, at - 30, rollout) = 0 * (rollout - (at - 30))
  <2>1. LevelsIn(parts, signal, at - 30, rollout) \subseteq {0}
    <3>1. LevelsIn(parts, signal, at - 30, rollout) \subseteq LevelsIn(parts, signal, -30, rollout)
      BY <1>1, <1>2, ShorterWindow
    <3> QED BY <1>1, <3>1 DEF signal
  <2> QED BY <1>1, <1>2, <2>1, SteadyTotal
<1>6. Total(parts, signal, rollout, at) = level * (at - rollout)
  BY <1>1, <1>2, <1>3, <1>4, SteadyTotal
<1>7. Total(parts, signal, at - 6, at) = level * (at - (at - 6))
  <2>1. LevelsIn(parts, signal, at - 6, at) \subseteq {level}
    BY <1>1, <1>2, <1>3, ShorterWindow
  <2> QED BY <1>1, <1>2, <1>4, <2>1, SteadyTotal
<1>8. /\ Baseline(parts, signal, at) = level * (at - rollout)
      /\ Current(parts, signal, at) = level * 6
  <2>1. Total(parts, signal, at - 30, at)
          = Total(parts, signal, at - 30, rollout) + Total(parts, signal, rollout, at)
    BY <1>1, <1>2, TotalsAdd
  <2>2. level * (at - rollout) \in Nat /\ 0 * (rollout - (at - 30)) = 0
    BY <1>1, <1>2, <1>4, ProductType
  <2>3. at - (at - 6) = 6
    BY <1>1
  <2> QED BY <1>1, <1>5, <1>6, <1>7, <2>1, <2>2, <2>3 DEF Baseline, Current
<1>9. PICK ticks \in 6..19 : at - rollout = ticks
  OBVIOUS
<1>10. level * ticks # 0 /\ ~(level * 6 * 30 * 10 <= level * ticks * 6 * 15)
  <2>1. level * 1800 > level * ticks * 90
    <3>1. ticks * 90 <= 1710 /\ level > 0
      BY <1>4
    <3>2. \A a, b, c \in Nat : a > 0 /\ b < c => a * b < a * c
      OBVIOUS
    <3>3. level * (ticks * 90) < level * 1800
      BY <1>4, <3>1, <3>2
    <3> QED BY <1>4, <3>3
  <2> QED BY <1>4, <2>1
<1>11. ~Passes(parts, signal, at)
  BY <1>1, <1>8, <1>9, <1>10 DEF Passes, signal
<1> QED BY <1>11 DEF signal

(* Traffic that ends with a rollout fails the check of the throughput.     *)
LEMMA OutageFails ==
  ASSUME NEW parts, LoadOK(parts), NEW at \in 0..Horizon, NEW rollout \in Int,
         at - rollout \in 6..19,
         0 \notin LevelsIn(parts, "throughput", -BaselineWindow, rollout),
         LevelsIn(parts, "throughput", rollout, at) = {0}
  PROVE  ~Passes(parts, "throughput", at)
<1> DEFINE signal == "throughput"
<1>1. /\ at \in Int /\ at - 30 \in Int /\ at - 6 \in Int /\ signal \in Signals
      /\ Horizon \in Nat /\ BaselineWindow = 30 /\ CurrentWindow = 6
  BY HorizonType DEF BaselineWindow, CurrentWindow, Signals
<1>2. /\ -30 <= at - 30 /\ at - 30 < rollout /\ rollout <= at - 6 /\ -30 <= rollout
      /\ at <= Horizon + 1 /\ rollout <= Horizon + 1 /\ rollout <= at
  BY <1>1
<1> HIDE DEF signal
<1>3. Total(parts, signal, at - 30, rollout) > 0
  <2>1. LevelsIn(parts, signal, at - 30, rollout) \subseteq LevelsIn(parts, signal, -30, rollout)
    BY <1>1, <1>2, ShorterWindow
  <2>2. 0 \notin LevelsIn(parts, signal, at - 30, rollout)
    BY <1>1, <2>1 DEF signal
  <2> QED BY <1>1, <1>2, <2>2, PositiveTotal
<1>4. Total(parts, signal, rollout, at) = 0 * (at - rollout)
  BY <1>1, <1>2, SteadyTotal DEF signal
<1>5. Total(parts, signal, at - 6, at) = 0 * (at - (at - 6))
  <2>1. LevelsIn(parts, signal, at - 6, at) \subseteq LevelsIn(parts, signal, rollout, at)
    BY <1>1, <1>2, ShorterWindow
  <2>2. LevelsIn(parts, signal, at - 6, at) \subseteq {0}
    BY <2>1 DEF signal
  <2> QED BY <1>1, <1>2, <2>2, SteadyTotal
<1>6. Total(parts, signal, at - 30, rollout) \in Int
  BY <1>1, TotalType
<1>7. Baseline(parts, signal, at) \in Int /\ Baseline(parts, signal, at) > 0
      /\ Current(parts, signal, at) = 0
  <2>1. Total(parts, signal, at - 30, at)
          = Total(parts, signal, at - 30, rollout) + Total(parts, signal, rollout, at)
    BY <1>1, <1>2, TotalsAdd
  <2>2. 0 * (at - rollout) = 0 /\ 0 * (at - (at - 6)) = 0
    BY <1>1
  <2> QED BY <1>1, <1>3, <1>4, <1>5, <1>6, <2>1, <2>2 DEF Baseline, Current
<1>8. ~Passes(parts, signal, at)
  BY <1>1, <1>7 DEF Passes, signal
<1> QED BY <1>8 DEF signal

-----------------------------------------------------------------------------
(* Verdicts agree with the load                                            *)

(* The load is known up to now.                                            *)
LoadInv ==
  /\ now \in 0..Horizon
  /\ DOMAIN load = Workloads
  /\ \A w \in Workloads : LoadOK(load[w]) /\ load[w][Len(load[w])].since <= now

(* A verdict tells what the checks of its signals would tell today.        *)
Judged(d) ==
  LET failed == {s \in d.measured : ~Passes(load[d.change.workload], s, d.at)}
  IN  d.at <= now /\ d.status = Status(d.measured, failed)
JudgedInv == \A i \in 1..Len(verdicts) : Judged(verdicts[i])

(* What a verdict is made of.                                               *)
LEMMA VerdictFields ==
  ASSUME VerdictInv, NEW i \in 1..Len(verdicts)
  PROVE  /\ verdicts[i] \in Verdict
         /\ verdicts[i].change \in Report /\ verdicts[i].change.workload \in Workloads
         /\ verdicts[i].change.startedAt \in 0..Horizon
         /\ verdicts[i].at \in 0..Horizon /\ verdicts[i].measured \subseteq Signals
<1>1. verdicts[i] \in Verdict
  <2> HIDE DEF Verdict
  <2> QED BY DEF VerdictInv, VerifierTypes
<1> QED BY <1>1 DEF Verdict, Report

(* At first the load has one part and there is no verdict.                  *)
LEMMA LoadInvInit == Init => LoadInv /\ JudgedInv
<1> SUFFICES ASSUME Init
             PROVE  LoadInv /\ JudgedInv
  OBVIOUS
<1>1. Horizon \in Nat /\ BaselineWindow = 30 /\ now = 0 /\ verdicts = <<>>
  BY HorizonType DEF Init, BaselineWindow
<1>2. DOMAIN load = Workloads
      /\ \A w \in Workloads : \E p \in Profiles :
           load[w] = <<[since |-> -BaselineWindow, profile |-> p]>>
  <2>1. load \in [Workloads -> {<<[since |-> -BaselineWindow, profile |-> p]>> : p \in Profiles}]
    BY DEF Init
  <2> QED BY <2>1
<1>3. ASSUME NEW p \in Profiles
      PROVE  LET parts == <<[since |-> -BaselineWindow, profile |-> p]>>
             IN  LoadOK(parts) /\ parts[Len(parts)].since <= now
  <2> DEFINE Part == [since : (-BaselineWindow)..Horizon, profile : Profiles]
             part == [since |-> -BaselineWindow, profile |-> p]
  <2>1. part \in Part /\ part.since = -BaselineWindow
    BY <1>1
  <2> HIDE DEF Part, part
  <2>2. <<part>> \in Seq(Part) /\ Len(<<part>>) = 1 /\ <<part>>[1] = part
    BY <2>1
  <2>3. <<part>>[Len(<<part>>)].since <= now
    BY <1>1, <2>1, <2>2
  <2>4. LoadOK(<<part>>)
    BY <2>1, <2>2 DEF LoadOK, Part
  <2> QED BY <2>3, <2>4 DEF part
<1>4. LoadInv
  <2>1. ASSUME NEW w \in Workloads
        PROVE  LoadOK(load[w]) /\ load[w][Len(load[w])].since <= now
    BY <1>2, <1>3
  <2> QED BY <1>1, <1>2, <2>1 DEF LoadInv
<1> QED BY <1>1, <1>4 DEF JudgedInv

(* A rollout begins a new part of the load, now.                           *)
LEMMA RolloutKeepsVerdicts ==
  ASSUME VerdictInv, LoadInv, JudgedInv,
         NEW w \in Workloads, NEW p \in Profiles,
         load' = [load EXCEPT ![w] = Append(@, [since |-> now, profile |-> p])],
         UNCHANGED <<now, verdicts>>
  PROVE  LoadInv' /\ JudgedInv'
<1> DEFINE part == [since |-> now, profile |-> p]
<1>1. part \in [since : 0..Horizon, profile : Profiles] /\ part.since = now
  BY DEF LoadInv
<1> HIDE DEF part
<1>2. /\ LoadOK(load[w]) /\ load[w][Len(load[w])].since <= part.since
      /\ now \in Int
  BY <1>1 DEF LoadInv
<1>3. /\ DOMAIN load' = Workloads
      /\ load'[w] = Append(load[w], part)
      /\ \A v \in Workloads \ {w} : load'[v] = load[v]
  BY DEF LoadInv, part
<1>4. LoadOK(load'[w]) /\ load'[w][Len(load'[w])].since <= now
  <2>1. LoadOK(Append(load[w], part)) /\ Len(Append(load[w], part)) = Len(load[w]) + 1
    BY <1>1, <1>2, LaterLoad
  <2>2. Append(load[w], part)[Len(load[w]) + 1] = part
    BY <1>2 DEF LoadOK
  <2> QED BY <1>1, <1>2, <1>3, <2>1, <2>2
<1>5. LoadInv'
  <2>1. ASSUME NEW v \in Workloads
        PROVE  LoadOK(load'[v]) /\ load'[v][Len(load'[v])].since <= now
    BY <1>3, <1>4 DEF LoadInv
  <2> QED BY <1>3, <2>1 DEF LoadInv
<1>6. ASSUME NEW i \in 1..Len(verdicts)
      PROVE  Judged(verdicts[i])'
  <2> DEFINE d == verdicts[i]
             v == d.change.workload
  <2>1. v \in Workloads /\ d.at \in Nat /\ d.measured \subseteq Signals
    BY VerdictFields
  <2>2. d.at <= now
    BY DEF JudgedInv, Judged
  <2>3. \A s \in d.measured : Passes(load'[v], s, d.at) = Passes(load[v], s, d.at)
    <3>1. CASE v = w
      <4>1. ASSUME NEW s \in d.measured
            PROVE  Passes(Append(load[w], part), s, d.at) = Passes(load[w], s, d.at)
        BY <1>1, <1>2, <2>1, <2>2, LaterLoadPasses
      <4> QED BY <1>3, <3>1, <4>1
    <3>2. CASE v # w
      BY <1>3, <2>1, <3>2
    <3> QED BY <3>1, <3>2
  <2>4. verdicts'[i] = d /\ now' = now
    OBVIOUS
  <2>5. Judged(d)
    BY DEF JudgedInv
  <2>6. {s \in d.measured : ~Passes(load'[v], s, d.at)}
          = {s \in d.measured : ~Passes(load[v], s, d.at)}
    BY <2>3
  <2> QED BY <2>4, <2>5, <2>6 DEF Judged
<1> QED BY <1>5, <1>6 DEF JudgedInv

(* Every step keeps it.                                                    *)
LEMMA JudgedInvStep ==
  VerdictInv /\ LoadInv /\ JudgedInv /\ [Next]_vars => LoadInv' /\ JudgedInv'
<1> SUFFICES ASSUME VerdictInv, LoadInv, JudgedInv, [Next]_vars
             PROVE  LoadInv' /\ JudgedInv'
  OBVIOUS
<1>1. CASE UNCHANGED <<now, load, verdicts>>
  BY <1>1 DEF LoadInv, JudgedInv, Judged
<1>2. CASE ClusterChanges
  <2>1. UNCHANGED <<now, verdicts>>
    BY <1>2 DEF ClusterChanges
  <2>2. CASE UNCHANGED load
    BY <1>1, <2>1, <2>2
  <2>3. CASE \E w \in Workloads : \E p \in Profiles :
               load' = [load EXCEPT ![w] = Append(@, [since |-> now, profile |-> p])]
    BY <2>1, <2>3, RolloutKeepsVerdicts
  <2> QED BY <1>2, <2>2, <2>3 DEF ClusterChanges
<1>3. CASE Tick
  <2>1. now' = now + 1 /\ now < Horizon /\ UNCHANGED <<load, verdicts>>
    BY <1>3 DEF Tick
  <2>2. now \in 0..Horizon /\ now' \in 0..Horizon /\ now <= now'
    BY <2>1, HorizonType DEF LoadInv
  <2>3. LoadInv'
    <3>1. ASSUME NEW w \in Workloads
          PROVE  LoadOK(load[w]) /\ load[w][Len(load[w])].since <= now'
      <4>1. LoadOK(load[w]) /\ load[w][Len(load[w])].since <= now
        BY DEF LoadInv
      <4>2. load[w][Len(load[w])].since \in Int
        <5>1. Len(load[w]) \in 1..Len(load[w])
          BY <4>1 DEF LoadOK
        <5> QED BY <4>1, <5>1, PartType
      <4> QED BY <2>2, <4>1, <4>2
    <3> QED BY <2>1, <2>2, <3>1 DEF LoadInv
  <2>4. JudgedInv'
    <3>1. ASSUME NEW i \in 1..Len(verdicts)
          PROVE  Judged(verdicts[i])'
      <4>1. Judged(verdicts[i]) /\ verdicts[i].at \in 0..Horizon
        BY VerdictFields DEF JudgedInv
      <4> QED BY <2>1, <2>2, <4>1 DEF Judged
    <3> QED BY <2>1, <3>1 DEF JudgedInv
  <2> QED BY <2>3, <2>4
<1>4. ASSUME NEW v \in verifying, Judge(v)
      PROVE  LoadInv' /\ JudgedInv'
  <2>1. UNCHANGED <<now, load>>
    BY <1>4 DEF Judge
  <2>2. LoadInv'
    BY <2>1 DEF LoadInv
  <2>3. PICK d : Judged(d) /\ verdicts' = Append(verdicts, d)
    <3>1. PICK down \in Outages :
            LET measured == Selected(v.changes) \ down
                failed   == {s \in measured : ~Passes(load[v.workload], s, now)}
                verdict  == [change |-> v, at |-> now, measured |-> measured,
                             status |-> Status(measured, failed)]
            IN  verdicts' = Append(verdicts, verdict)
      BY <1>4 DEF Judge
    <3> DEFINE measured == Selected(v.changes) \ down
               failed   == {s \in measured : ~Passes(load[v.workload], s, now)}
               verdict  == [change |-> v, at |-> now, measured |-> measured,
                            status |-> Status(measured, failed)]
    <3>2. Judged(verdict)
      <4>1. verdict.change.workload = v.workload /\ verdict.at = now
            /\ verdict.measured = measured /\ verdict.status = Status(measured, failed)
        OBVIOUS
      <4>2. now <= now
        BY DEF LoadInv
      <4> HIDE DEF verdict, measured
      <4> QED BY <4>1, <4>2 DEF Judged
    <3>3. verdicts' = Append(verdicts, verdict)
      BY <3>1
    <3> HIDE DEF verdict
    <3> QED BY <3>2, <3>3
  <2>4. ASSUME NEW i \in 1..Len(verdicts')
        PROVE  Judged(verdicts[i])'
    <3>1. Len(verdicts) \in Nat /\ Len(verdicts') = Len(verdicts) + 1
          /\ (\A j \in 1..Len(verdicts) : verdicts'[j] = verdicts[j])
          /\ verdicts'[Len(verdicts) + 1] = d
      BY <2>3 DEF VerdictInv, VerifierTypes
    <3>2. CASE i = Len(verdicts) + 1
      BY <2>1, <2>3, <3>1, <3>2 DEF Judged
    <3>3. CASE i \in 1..Len(verdicts)
      <4>1. Judged(verdicts[i])
        BY <3>3 DEF JudgedInv
      <4> QED BY <2>1, <3>1, <3>3, <4>1 DEF Judged
    <3> QED BY <3>1, <3>2, <3>3
  <2> QED BY <2>2, <2>4 DEF JudgedInv
<1> QED BY <1>1, <1>2, <1>3, <1>4
        DEF Next, StartWatcher, verifierVars, PollWorkloads, PollFails, Stop, Verify,
            Cancelled, Announce, vars

-----------------------------------------------------------------------------
(* The part of a load that a time falls into.                              *)
LEMMA PartExists ==
  ASSUME NEW parts, LoadOK(parts), NEW at \in Nat
  PROVE  \E i \in 1..Len(parts) :
           parts[i].since <= at /\ \A j \in (i + 1)..Len(parts) : parts[j].since > at
<1> DEFINE n == Len(parts)
           Fits == {k \in 0..(n - 1) : parts[n - k].since <= at}
<1>1. n \in Nat /\ n >= 1 /\ parts[1].since = -30
  BY DEF LoadOK, BaselineWindow
<1>2. \A i \in 1..n : parts[i].since \in Int
  BY PartType
<1>3. n - 1 \in Fits
  BY <1>1
<1>4. PICK k \in Fits : \A l \in Fits : k <= l
  <2>1. Fits \subseteq Nat
    OBVIOUS
  <2> HIDE DEF Fits
  <2> QED BY <1>3, <2>1, LeastExists
<1>5. n - k \in 1..n /\ parts[n - k].since <= at
  BY <1>1, <1>4
<1>6. ASSUME NEW j \in ((n - k) + 1)..n
      PROVE  parts[j].since > at
  <2>1. n - j \in 0..(n - 1) /\ n - j < k /\ j \in 1..n /\ n - (n - j) = j
    BY <1>1, <1>4, <1>5
  <2>2. n - j \notin Fits
    BY <1>4, <2>1
  <2> QED BY <1>2, <2>1, <2>2
<1> QED BY <1>5, <1>6

(* The rollout of a verdict has a time.                                     *)
LEMMA RolloutTime ==
  ASSUME VerdictInv, LoadInv, NEW i \in 1..Len(verdicts)
  PROVE  RolledOutAt(verdicts[i]) \in Int
<1> DEFINE parts == load[verdicts[i].change.workload]
           at    == verdicts[i].change.startedAt
<1>1. LoadOK(parts) /\ at \in Nat
  BY VerdictFields DEF LoadInv
<1>2. RolloutOf(verdicts[i]) \in 1..Len(parts)
  BY <1>1, PartExists DEF RolloutOf
<1> QED BY <1>1, <1>2, PartType DEF RolledOutAt

(* A breakdown fails one of the measured signals.                           *)
LEMMA BreakdownFails ==
  VerdictInv /\ LoadInv /\ JudgedInv => BreakdownsCaught
<1> SUFFICES ASSUME VerdictInv, LoadInv, JudgedInv, NEW i \in 1..Len(verdicts),
                    verdicts[i].at - RolledOutAt(verdicts[i]) \in CurrentWindow..19,
                    \/ /\ "error_rate" \in verdicts[i].measured
                       /\ Before(verdicts[i], "error_rate") = {0}
                       /\ Cardinality(Since(verdicts[i], "error_rate")) = 1
                       /\ 0 \notin Since(verdicts[i], "error_rate")
                    \/ /\ "throughput" \in verdicts[i].measured
                       /\ 0 \notin Before(verdicts[i], "throughput")
                       /\ Since(verdicts[i], "throughput") = {0}
             PROVE  verdicts[i].status = "regression"
  BY DEF BreakdownsCaught
<1> DEFINE d       == verdicts[i]
           parts   == load[d.change.workload]
           rollout == RolledOutAt(d)
<1>1. /\ LoadOK(parts) /\ d.at \in 0..Horizon /\ rollout \in Int
      /\ d.at - rollout \in 6..19 /\ parts[1].since = -BaselineWindow
  BY VerdictFields, RolloutTime DEF LoadInv, LoadOK, CurrentWindow
<1>2. \A signal : /\ Before(d, signal) = LevelsIn(parts, signal, -BaselineWindow, rollout)
                  /\ Since(d, signal) = LevelsIn(parts, signal, rollout, d.at)
  BY <1>1 DEF Before, Since
<1>3. PICK s \in d.measured : ~Passes(parts, s, d.at)
  <2> HIDE DEF parts, rollout
  <2>1. CASE "error_rate" \in d.measured
             /\ Before(d, "error_rate") = {0}
             /\ Cardinality(Since(d, "error_rate")) = 1 /\ 0 \notin Since(d, "error_rate")
    BY <1>1, <1>2, <2>1, NewErrorsFail
  <2>2. CASE "throughput" \in d.measured
             /\ 0 \notin Before(d, "throughput") /\ Since(d, "throughput") = {0}
    BY <1>1, <1>2, <2>2, OutageFails
  <2> QED BY <2>1, <2>2
<1> QED BY <1>3 DEF JudgedInv, Judged, Status

(* A steady service fails none.                                             *)
LEMMA SteadyIsHealthy ==
  VerdictInv /\ LoadInv /\ JudgedInv => SteadyServicePasses
<1> SUFFICES ASSUME VerdictInv, LoadInv, JudgedInv, NEW i \in 1..Len(verdicts)
             PROVE  /\ Steady(verdicts[i]) => verdicts[i].status # "regression"
                    /\ verdicts[i].status = "healthy" => verdicts[i].measured # {}
  BY DEF SteadyServicePasses
<1> DEFINE d      == verdicts[i]
           parts  == load[d.change.workload]
           failed == {s \in d.measured : ~Passes(parts, s, d.at)}
<1>1. /\ LoadOK(parts) /\ d.at \in 0..Horizon /\ d.measured \subseteq Signals
  BY VerdictFields DEF LoadInv
<1>2. d.status = Status(d.measured, failed)
  BY DEF JudgedInv, Judged
<1>3. ASSUME Steady(d), NEW s \in d.measured
      PROVE  Passes(parts, s, d.at)
  <2>1. /\ Cardinality(LevelsIn(parts, s, d.at - BaselineWindow, d.at)) = 1
        /\ s = "pod_restarts" => LevelsIn(parts, s, d.at - BaselineWindow, d.at) = {0}
        /\ s = "cpu_saturation" =>
             \A l \in LevelsIn(parts, s, d.at - BaselineWindow, d.at) : l < 90
    BY <1>3 DEF Steady
  <2> QED BY <1>1, <2>1, SteadyPasses
<1> HIDE DEF parts
<1> QED BY <1>2, <1>3 DEF Status

(* All of it holds of every behaviour.                                      *)
LEMMA VerdictsAgree == Spec => [](VerdictInv /\ LoadInv /\ JudgedInv)
<1>1. Init => VerdictInv
  BY VerifierAssumption DEF Init, VerdictInv, VerifierTypes, Open, Horizon
<1> QED BY <1>1, LoadInvInit, VerdictInvStep, JudgedInvStep, PTL DEF Spec

(* The types of the verifier that the proofs above did without.            *)
OtherTypes ==
  /\ polled \in BOOLEAN /\ running \in BOOLEAN
  /\ load \in [Workloads -> Seq([since : (-BaselineWindow)..Horizon, profile : Profiles])]

(* Every step keeps them.                                                  *)
LEMMA OtherTypesStep == OtherTypes /\ LoadInv' /\ [Next]_vars => OtherTypes'
<1> SUFFICES ASSUME OtherTypes, LoadInv', [Next]_vars
             PROVE  OtherTypes'
  OBVIOUS
<1> DEFINE Parts == Seq([since : (-BaselineWindow)..Horizon, profile : Profiles])
<1> HIDE DEF Parts
<1>1. ASSUME load' \in [Workloads -> Parts], polled' \in BOOLEAN, running' \in BOOLEAN
      PROVE  OtherTypes'
  BY <1>1 DEF OtherTypes, Parts
<1>2. load \in [Workloads -> Parts] /\ polled \in BOOLEAN /\ running \in BOOLEAN
  BY DEF OtherTypes, Parts
<1>3. \A w \in Workloads : load'[w] \in Parts
  BY DEF LoadInv, LoadOK, Parts
<1>4. CASE ClusterChanges
  <2>1. \/ UNCHANGED load
        \/ \E w \in Workloads, p \in Profiles :
             load' = [load EXCEPT ![w] = Append(@, [since |-> now, profile |-> p])]
    BY <1>4 DEF ClusterChanges
  <2>2. load' = [w \in Workloads |-> load'[w]]
    BY <1>2, <2>1
  <2> QED BY <1>1, <1>2, <1>3, <1>4, <2>2 DEF ClusterChanges
<1>5. CASE UNCHANGED load
  BY <1>1, <1>2, <1>5
     DEF Next, ClusterChanges, StartWatcher, verifierVars, PollWorkloads, PollFails, Tick,
         Stop, Verify, Judge, Cancelled, Announce, vars
<1> QED BY <1>4, <1>5
        DEF Next, StartWatcher, verifierVars, PollWorkloads, PollFails, Tick,
            Stop, Verify, Judge, Cancelled, Announce, vars

(* Watcher and verifier are type-correct, for any load. (verifier.go)      *)
THEOREM VerificationTyped == Spec => []TypeOK
<1>1. Init => OtherTypes
  <2>1. ASSUME Init
        PROVE  OtherTypes
    <3>1. \A w \in Workloads :
            load[w] \in Seq([since : (-BaselineWindow)..Horizon, profile : Profiles])
      BY <2>1, LoadInvInit DEF LoadInv, LoadOK
    <3>2. load = [w \in Workloads |-> load[w]]
      BY <2>1 DEF Init
    <3> QED BY <2>1, <3>1, <3>2 DEF OtherTypes, Init
  <2> QED BY <2>1
<1>2. WatcherInv /\ VerdictInv /\ OtherTypes => TypeOK
  <2> SUFFICES ASSUME WatcherInv, VerdictInv, OtherTypes
               PROVE  TypeOK
    OBVIOUS
  <2> HIDE DEF Verdict
  <2>1. emitting \subseteq Verdict
    BY DEF VerdictInv, VerifierTypes
  <2>2. verifying \subseteq Report /\ cancelled \subseteq Report
    BY DEF VerdictInv, VerifierTypes, Open
  <2> QED BY <2>1, <2>2 DEF WatcherInv, VerdictInv, VerifierTypes, OtherTypes, TypeOK
<1>3. Spec => []WatcherInv
  BY UsesTheWatcher, WatcherInvInit, WatcherInvStep, PTL DEF WatcherSpec
<1> QED BY <1>1, <1>2, <1>3, OtherTypesStep, VerdictsAgree, PTL DEF Spec

(* A rollout that turns an error-free service into one with errors, or     *)
(* stops all of its traffic, is judged a regression if that signal was     *)
(* measured in time, whatever the load was before and however many         *)
(* rollouts there were. (verifier.go runSingleCheck, evaluateCheck)        *)
THEOREM BreakdownsAreCaught == Spec => []BreakdownsCaught
BY VerdictsAgree, BreakdownFails, PTL

(* A service whose signals were the same before and after the rollout is   *)
(* never judged a regression. (verifier.go evaluateCheck; verdict.go       *)
(* determineStatus)                                                        *)
THEOREM SteadyServicesPass == Spec => []SteadyServicePasses
BY VerdictsAgree, SteadyIsHealthy, PTL
=============================================================================

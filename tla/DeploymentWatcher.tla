------------------------- MODULE DeploymentWatcher -------------------------
(***************************************************************************)
(* The OllinAI deployment watcher (modules/ollinai/watcher.go): it polls   *)
(* the workloads of the cluster, compares each with the snapshot it kept   *)
(* and reports what changed.  It looks closer only when the generation     *)
(* number of a workload differs from the one of its snapshot.              *)
(*                                                                         *)
(* A workload's template maps the watched aspects to values; an entry that *)
(* is missing from a map of the snapshot (a container, a variable, a       *)
(* limit, a probe) is Absent, and so is the empty string.                  *)
(***************************************************************************)
EXTENDS Integers, Sequences, FiniteSets

CONSTANTS
  Workloads,      \* keys kind/namespace/name
  Aspects,        \* the watched parts of a template, named as change types
  Templates,      \* templates the environment may deploy
  MaxGeneration   \* bound: highest metadata.generation

ChangeTypes == {"image", "env_var", "resource_limits", "replica_scale", "probe",
                "rollout_strategy"}

Absent     == "absent"
NoWorkload == [gen |-> 0]

ASSUME WatcherAssumption ==
  /\ Aspects \subseteq ChangeTypes
  /\ \A t \in Templates : DOMAIN t = Aspects
  /\ MaxGeneration \in Nat \ {0}

VARIABLES
  cluster,    \* what ListWorkloads would return
  previous,   \* w.previous: the snapshot of each known workload
  watching,   \* "starting" until the baseline was tried, then "polling"
  told,       \* history: per workload, the template its baseline and reports amount to
  recreated   \* history: workloads that were deleted and created again

watcherVars == <<cluster, previous, watching, told, recreated>>

Exists(w) == cluster[w] # NoWorkload
Known(w)  == previous[w] # NoWorkload

WatcherInit ==
  /\ cluster \in [Workloads -> {NoWorkload} \cup [gen : {1}, template : Templates]]
  /\ previous = [w \in Workloads |-> NoWorkload]
  /\ watching = "starting"
  /\ told = [w \in Workloads |-> NoWorkload]
  /\ recreated = {}

-----------------------------------------------------------------------------
(* The cluster: every change of a template increments the generation, and  *)
(* a workload that is created again starts from 1.                         *)

Rollout(w, template) ==
  /\ Exists(w)
  /\ cluster[w].gen < MaxGeneration
  /\ template # cluster[w].template
  /\ cluster' = [cluster EXCEPT ![w] = [gen |-> cluster[w].gen + 1, template |-> template]]
  /\ UNCHANGED <<previous, watching, told, recreated>>

Delete(w) ==
  /\ Exists(w)
  /\ cluster' = [cluster EXCEPT ![w] = NoWorkload]
  /\ recreated' = recreated \cup {w}
  /\ UNCHANGED <<previous, watching, told>>

Create(w, template) ==
  /\ ~Exists(w)
  /\ cluster' = [cluster EXCEPT ![w] = [gen |-> 1, template |-> template]]
  /\ UNCHANGED <<previous, watching, told, recreated>>

-----------------------------------------------------------------------------
(* captureBaseline: everything there is becomes known without a report     *)
CaptureBaseline ==
  /\ watching = "starting"
  /\ watching' = "polling"
  /\ previous' = cluster
  /\ told' = [w \in Workloads |-> IF Exists(w) THEN cluster[w].template ELSE NoWorkload]
  /\ UNCHANGED <<cluster, recreated>>

(* the list call fails: the watcher starts without a baseline *)
BaselineFails ==
  /\ watching = "starting"
  /\ watching' = "polling"
  /\ UNCHANGED <<cluster, previous, told, recreated>>

(* diffSnapshots runs over the entries of the current snapshot only, so an *)
(* entry that was removed is no change                                     *)
MutDiff(old, new) ==                         \* only entries that were there before
  {a \in Aspects : old[a] # Absent /\ new[a] # Absent /\ new[a] # old[a]}
Diff(old, new) == {a \in Aspects : new[a] # Absent /\ new[a] # old[a]}

(* a known workload is compared when its generation differs *)
MutDiffers(w) == Exists(w) /\ Known(w) /\ cluster[w].gen > previous[w].gen + 1
Differs(w) == Exists(w) /\ Known(w) /\ cluster[w].gen # previous[w].gen

Changes(w) ==
  IF Differs(w) THEN Diff(previous[w].template, cluster[w].template) ELSE {}

(* poll: new workloads are stored, the reported ones are those with Changes *)
Reported == {w \in Workloads : Changes(w) # {}}

Poll ==
  /\ watching = "polling"
  /\ previous' = [w \in Workloads |->
       IF Differs(w) \/ (Exists(w) /\ ~Known(w)) THEN cluster[w] ELSE previous[w]]
  /\ told' = [w \in Workloads |->
       IF Differs(w)
       THEN [a \in Aspects |->
               IF a \in Changes(w) THEN cluster[w].template[a] ELSE told[w][a]]
       ELSE IF Exists(w) /\ ~Known(w) THEN cluster[w].template ELSE told[w]]
  /\ UNCHANGED <<cluster, watching, recreated>>

-----------------------------------------------------------------------------
ClusterNext ==
  \E w \in Workloads : Delete(w) \/ \E t \in Templates : Rollout(w, t) \/ Create(w, t)

WatcherNext == ClusterNext \/ CaptureBaseline \/ BaselineFails \/ Poll

WatcherSpec == WatcherInit /\ [][WatcherNext]_watcherVars

-----------------------------------------------------------------------------
Snapshot == {NoWorkload} \cup [gen : 1..MaxGeneration, template : Templates]

(* Every variable of the watcher has its type, and told is kept exactly    *)
(* for the known workloads.                                                *)
WatcherTypeOK ==
  /\ cluster \in [Workloads -> Snapshot]
  /\ previous \in [Workloads -> Snapshot]
  /\ watching \in {"starting", "polling"}
  /\ recreated \subseteq Workloads
  /\ DOMAIN told = Workloads
  /\ \A w \in Workloads : Known(w) => DOMAIN told[w] = Aspects

(* Whoever has the baseline of a workload and applies every report to it   *)
(* knows the template the watcher compares with, except for entries that   *)
(* were removed: no report skips a value, whatever rollouts fell between   *)
(* two polls. (watcher.go poll, diffSnapshots)                             *)
ReportsAddUp ==
  \A w \in Workloads : Known(w) =>
    \A a \in Aspects : previous[w].template[a] \in {Absent, told[w][a]}
=============================================================================

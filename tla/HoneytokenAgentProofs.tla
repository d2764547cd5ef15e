----------------------- MODULE HoneytokenAgentProofs -----------------------
(***************************************************************************)
(* Theorems about eBeeControl's agent, for every set of pods and accesses, *)
(* every placement of honeytokens and every number of cycles and retries.  *)
(***************************************************************************)
EXTENDS HoneytokenAgent, SequenceTheorems, FiniteSetTheorems, TLAPS

(* Classification is total: every context has a level. *)
LEMMA LevelTyped ==
  ASSUME NEW c PROVE ClassifyThreat(c) \in ThreatLevels
BY DEF ClassifyThreat, ThreatLevels

(* What is missing never lowers the level: a context completed with the    *)
(* defaults is rated at least as high as the context itself                *)
(* (classifier.go ClassifyThreatWithDefaults).                             *)
THEOREM MissingContextIsWorst ==
  \A c \in PodContexts :
    Rank[ClassifyThreatWithDefaults(c)] >= Rank[ClassifyThreat(c)]
<1> SUFFICES ASSUME NEW c \in PodContexts
             PROVE  Rank[ClassifyThreatWithDefaults(c)] >= Rank[ClassifyThreat(c)]
  OBVIOUS
<1> DEFINE d == WithDefaults(c)
<1>1. /\ c.class \in {"production", "other", "missing"}
      /\ c.criticality \in 0..5 /\ c.anomaly \in 0..10
  BY DEF PodContexts, Classifications
<1>2. /\ d.class = (IF c.class = "missing" THEN "production" ELSE c.class)
      /\ d.criticality = (IF c.criticality = 0 THEN 5 ELSE c.criticality)
      /\ d.anomaly = (IF c.anomaly = 0 THEN 10 ELSE c.anomaly)
  BY DEF WithDefaults
<1>3. IsCritical(c) => IsCritical(d)
  BY <1>1, <1>2 DEF IsCritical
<1>4. IsHigh(c) => IsHigh(d) \/ IsCritical(d)
  BY <1>1, <1>2 DEF IsCritical, IsHigh
<1>5. IsLow(d) => IsLow(c)
  BY <1>1, <1>2 DEF IsLow
<1>6. IsLow(d) => ~IsHigh(d) /\ ~IsCritical(d)
  BY DEF IsLow, IsHigh, IsCritical
<1>7. ClassifyThreatWithDefaults(c) = ClassifyThreat(d)
  BY DEF ClassifyThreatWithDefaults
<1> HIDE DEF d
<1>8. QED
  BY <1>3, <1>4, <1>5, <1>6, <1>7, LevelTyped DEF ClassifyThreat, Rank, ThreatLevels

-----------------------------------------------------------------------------
(* Types.  The type invariant of the module leaves out what TLC shows with *)
(* less; these are the inductive versions, one per part of the state.      *)

Causes  == Cycles \cup Accesses
AnyPod  == Pods \cup {ReactivePod}
Actions == {"pod_isolation", "ip_block", "additional_honeytokens"}

DeployCalls == [step : DeploySteps, by : Causes \cup {0},
                pod : AnyPod, left : Seq(Paths), done : Seq(Honeytokens)]
Discoveries == [pc : DiscoveryStates, cycle : Cycles, todo : SUBSET Pods,
                adding : Seq(Honeytokens)]
Workflows == [pc : WorkflowStates, pod : AnyPod, path : Paths, known : BOOLEAN,
              full : BOOLEAN, level : ThreatLevels, todo : Seq(Actions), attempt : Nat,
              failed : SUBSET Retried]
Trainers == [dataset : Nat, sinceLast : Nat, trainedOn : Nat,
             accuracy : Accuracies \cup {InitialAccuracy}]

(* a call under way works for its cycle or access and has something in hand *)
DeployTypes ==
  /\ cluster \subseteq Honeytokens /\ store \subseteq Honeytokens
  /\ orphans \subseteq Honeytokens
  /\ deploy \in [Callers -> DeployCalls]
  /\ \A c \in Callers : deploy[c].step # "idle" => deploy[c].by \in Causes
  /\ \A c \in Callers : deploy[c].step = "creating" =>
       deploy[c].left # <<>> \/ deploy[c].done # <<>>
  /\ \A c \in Callers : deploy[c].step = "inserting" => deploy[c].left # <<>>
  /\ \A c \in Callers : deploy[c].step = "forgetting" => deploy[c].done # <<>>

DiscoveryTypes ==
  /\ discovery \in Discoveries
  /\ discovery.pc \in {"registering", "watching"} <=> discovery.adding # <<>>
  /\ DOMAIN registry \subseteq Honeytokens
  /\ \A h \in DOMAIN registry : registry[h] \subseteq Accesses
  /\ watched \subseteq Paths

WorkflowTypes ==
  /\ workflow \in [Accesses -> Workflows]
  /\ \A a \in Accesses :
       /\ workflow[a].pc \in {"retrying", "deploying"} => workflow[a].todo # <<>>
       /\ workflow[a].pc = "retrying" => Head(workflow[a].todo) \in Retried

LearningTypes ==
  /\ trainer \in Trainers
  /\ scheduler \in {"waiting", "training", "logging", "ended"}
  /\ stop \in {"running", "cancelled", "stopped"} /\ ctx \in {"live", "done"}

AgentTypes == DeployTypes /\ DiscoveryTypes /\ WorkflowTypes /\ LearningTypes

(* The placements are sequences of paths with at least one element. *)
LEMMA PlacementsTyped ==
  /\ Placements \in Seq(Paths) /\ ReactivePlacements \in Seq(Paths)
  /\ Placements[1] \in Paths
  /\ \A by : PlacementsOf(by) \in Seq(Paths) /\ PlacementsOf(by) # <<>>
<1>1. Placements \in Seq(ElementsOf(Placements)) /\ Placements # <<>>
  BY AgentAssumption
<1>2. ReactivePlacements \in Seq(ElementsOf(ReactivePlacements)) /\ ReactivePlacements # <<>>
  BY AgentAssumption
<1>3. Placements \in Seq(Paths)
  BY <1>1, SeqMonotonic DEF Paths
<1>4. ReactivePlacements \in Seq(Paths)
  BY <1>2, SeqMonotonic DEF Paths
<1>5. Placements[1] \in Paths
  <2>1. Len(Placements) \in Nat \ {0}
    BY <1>1, <1>3, EmptySeq
  <2> QED BY <1>3, <2>1, ElementOfSeq
<1> QED BY <1>1, <1>2, <1>3, <1>4, <1>5 DEF PlacementsOf

(* A plan is a sequence of actions. *)
LEMMA PlanTyped ==
  ASSUME NEW level \in ThreatLevels PROVE PlanActions(level) \in Seq(Actions)
<1>1. CASE level = "low"
  BY <1>1, EmptySeq DEF PlanActions
<1>2. CASE level = "medium"
  BY <1>2, SMT DEF PlanActions, Actions
<1>3. CASE level \in {"high", "critical"}
  <2>1. PlanActions(level) = <<"pod_isolation", "ip_block", "additional_honeytokens">>
    BY <1>3 DEF PlanActions
  <2>2. <<"pod_isolation", "ip_block", "additional_honeytokens">> \in Seq(Actions)
    BY DEF Actions
  <2> QED BY <2>1, <2>2
<1> QED BY <1>1, <1>2, <1>3 DEF ThreatLevels

(* Only the deployments and those who start or collect them change them. *)
DeployStep ==
  \/ \E c \in Callers : Deploying(c)
  \/ \E p \in Pods : ServePod(p)
  \/ PodDeployed
  \/ \E a \in Accesses : DeployHoneytokens(a) \/ HoneytokensDeployed(a)
(* Only discovery changes what it works on, the entries and the paths. *)
DiscoveryStep ==
  \/ Discovering \/ NextCycle
  \/ \E a \in Accesses : MarkTriggered(a)
(* Only detection and the workflows change a workflow. *)
WorkflowStep ==
  \/ \E a \in Accesses, pod \in Pods, path \in Paths, full \in BOOLEAN :
       Detect(a, pod, path, full)
  \/ \E a \in Accesses : Working(a)

(* Every other step leaves the deployments alone. *)
LEMMA DeployFrame ==
  ASSUME [Next]_vars PROVE DeployStep \/ UNCHANGED <<deployer, deploy>>
<1>1. CASE UNCHANGED vars
  BY <1>1 DEF vars
<1>2. CASE Discovering
  BY <1>2 DEF Discovering, DeployStep, Discover, Register, RegisterPath, LogDiscovery,
    DiscoveryEnds
<1>3. CASE NextCycle
  BY <1>3 DEF NextCycle
<1>4. ASSUME NEW a \in Accesses, NEW pod \in Pods, NEW path \in Paths, NEW full \in BOOLEAN,
             Detect(a, pod, path, full)
      PROVE  UNCHANGED <<deployer, deploy>>
  BY <1>4 DEF Detect
<1>5. ASSUME NEW a \in Accesses, Working(a)
      PROVE  DeployStep \/ UNCHANGED <<deployer, deploy>>
  BY <1>5 DEF Working, DeployStep, Assess, MarkTriggered, ActionSucceeds, ActionFails,
    ActionExhausted, RetryAction, AbandonAction, Ingest, LogWorkflow
<1>6. CASE ShouldRetrain \/ Retraining
  BY <1>6 DEF ShouldRetrain, Retraining, TriggerRetraining, LogModel, SchedulerEnds
<1>7. CASE ContextEnds \/ Cancel \/ StopReturns
  BY <1>7 DEF ContextEnds, Cancel, StopReturns
<1> QED BY <1>1, <1>2, <1>3, <1>4, <1>5, <1>6, <1>7 DEF Next, DeployStep

(* Every other step leaves discovery, registry and paths alone. *)
LEMMA DiscoveryFrame ==
  ASSUME [Next]_vars PROVE DiscoveryStep \/ UNCHANGED <<discovery, catalogue>>
<1>1. CASE UNCHANGED vars
  BY <1>1 DEF vars
<1>2. ASSUME NEW c \in Callers, Deploying(c) PROVE UNCHANGED <<discovery, catalogue>>
  BY <1>2 DEF Deploying, CreateSecret, Insert, CreateSecretFails, DeleteSecret, Forget
<1>4. ASSUME NEW a \in Accesses, NEW pod \in Pods, NEW path \in Paths, NEW full \in BOOLEAN,
             Detect(a, pod, path, full)
      PROVE  UNCHANGED <<discovery, catalogue>>
  BY <1>4 DEF Detect
<1>5. ASSUME NEW a \in Accesses, Working(a)
      PROVE  DiscoveryStep \/ UNCHANGED <<discovery, catalogue>>
  BY <1>5 DEF Working, DiscoveryStep, Assess, ActionSucceeds, ActionFails, ActionExhausted,
    RetryAction, AbandonAction, DeployHoneytokens, HoneytokensDeployed, Ingest, LogWorkflow
<1>6. CASE ShouldRetrain \/ Retraining
  BY <1>6 DEF ShouldRetrain, Retraining, TriggerRetraining, LogModel, SchedulerEnds
<1>7. CASE ContextEnds \/ Cancel \/ StopReturns
  BY <1>7 DEF ContextEnds, Cancel, StopReturns
<1> QED BY <1>1, <1>2, <1>4, <1>5, <1>6, <1>7 DEF Next, DiscoveryStep

(* Every other step leaves the workflows alone. *)
LEMMA WorkflowFrame ==
  ASSUME [Next]_vars PROVE WorkflowStep \/ UNCHANGED workflow
<1>1. CASE UNCHANGED vars
  BY <1>1 DEF vars
<1>2. ASSUME NEW c \in Callers, Deploying(c) PROVE UNCHANGED workflow
  BY <1>2 DEF Deploying, CreateSecret, Insert, CreateSecretFails, DeleteSecret, Forget
<1>3. CASE Discovering \/ NextCycle
  BY <1>3 DEF Discovering, NextCycle, Discover, ServePod, PodDeployed, Register,
    RegisterPath, LogDiscovery, DiscoveryEnds
<1>6. CASE ShouldRetrain \/ Retraining
  BY <1>6 DEF ShouldRetrain, Retraining, TriggerRetraining, LogModel, SchedulerEnds
<1>7. CASE ContextEnds \/ Cancel \/ StopReturns
  BY <1>7 DEF ContextEnds, Cancel, StopReturns
<1> QED BY <1>1, <1>2, <1>3, <1>6, <1>7 DEF Next, WorkflowStep

-----------------------------------------------------------------------------
(* The initial state has its types. *)
LEMMA TypesInit == Init => AgentTypes
<1> SUFFICES ASSUME Init PROVE AgentTypes
  OBVIOUS
<1>0. \A S : <<>> \in Seq(S)
  BY EmptySeq
<1>1. DeployTypes
  <2>1. NotDeploying \in DeployCalls
    BY <1>0 DEF NotDeploying, DeployCalls, AnyPod, DeploySteps
  <2> QED BY <2>1 DEF Init, DeployTypes, NotDeploying
<1>2. DiscoveryTypes
  <2>1. discovery \in Discoveries
    BY <1>0, AgentAssumption DEF Init, Discoveries, DiscoveryStates, Cycles
  <2>2. DOMAIN registry = {}
    BY DEF Init
  <2> QED BY <2>1, <2>2 DEF Init, DiscoveryTypes
<1>3. WorkflowTypes
  <2>1. Undetected \in Workflows
    BY <1>0, PlacementsTyped DEF Undetected, Workflows, WorkflowStates, AnyPod, ThreatLevels
  <2> QED BY <2>1 DEF Init, WorkflowTypes, Undetected
<1>4. LearningTypes
  BY DEF Init, LearningTypes, Trainers
<1> QED BY <1>1, <1>2, <1>3, <1>4 DEF AgentTypes

(* A deployment starts with its type. *)
LEMMA DeploymentTyped ==
  ASSUME NEW by \in Causes, NEW pod \in AnyPod
  PROVE  /\ Deployment(by, pod) \in DeployCalls
         /\ Deployment(by, pod).left # <<>>
         /\ NotDeploying \in DeployCalls
<1>0. <<>> \in Seq(Honeytokens) /\ <<>> \in Seq(Paths)
  BY EmptySeq
<1>1. PlacementsOf(by) \in Seq(Paths) /\ PlacementsOf(by) # <<>>
  BY PlacementsTyped
<1> QED BY <1>0, <1>1 DEF Deployment, DeployCalls, NotDeploying, AnyPod, DeploySteps

(* A call of the API of the cluster: it creates a Secret, in vain or not, or *)
(* deletes one.                                                              *)
Turn(c) ==
  \/ CreateSecret(c)
  \/ \E created \in BOOLEAN : CreateSecretFails(c, created)
  \/ \E deleted \in BOOLEAN : DeleteSecret(c, deleted)

(* It moves its deployment on, and changes nothing but the cluster. *)
LEMMA TurnEffect ==
  ASSUME AgentTypes, NEW c \in Callers, Turn(c)
  PROVE  /\ UNCHANGED <<store, discovery, catalogue, workflow>>
         /\ deploy[c].step # "idle" /\ deploy'[c].step \in DeploySteps
         /\ deploy' = [deploy EXCEPT ![c].step = deploy'[c].step]
         /\ \/ /\ deploy[c].step = "creating" /\ deploy[c].left # <<>>
               /\ deploy'[c].step \in {"inserting", "rolling back"}
            \/ /\ deploy[c].step = "rolling back" /\ deploy[c].done # <<>>
               /\ deploy'[c].step = "forgetting"
         /\ deploy'[c].by = deploy[c].by /\ deploy'[c].pod = deploy[c].pod
         /\ deploy'[c].left = deploy[c].left /\ deploy'[c].done = deploy[c].done
         /\ \A x \in Callers \ {c} : deploy'[x] = deploy[x]
         /\ cluster' \subseteq Honeytokens /\ orphans' \subseteq Honeytokens
<1>0. deploy[c] \in DeployCalls /\ deploy \in [Callers -> DeployCalls]
  BY DEF AgentTypes, DeployTypes
<1>1. ASSUME NEW step \in DeploySteps, deploy' = [deploy EXCEPT ![c].step = step]
      PROVE  /\ deploy'[c].step = step
             /\ deploy' = [deploy EXCEPT ![c].step = deploy'[c].step]
             /\ deploy'[c].by = deploy[c].by /\ deploy'[c].pod = deploy[c].pod
             /\ deploy'[c].left = deploy[c].left /\ deploy'[c].done = deploy[c].done
             /\ \A x \in Callers \ {c} : deploy'[x] = deploy[x]
  BY <1>0, <1>1 DEF DeployCalls
<1>2. ASSUME deploy[c].step = "creating", deploy[c].left # <<>> PROVE Wanted(c) \in Honeytokens
  <2>1. Head(deploy[c].left) \in Paths
    BY <1>0, <1>2, HeadTailProperties DEF DeployCalls
  <2> QED BY <1>0, <1>2, <2>1
          DEF AgentTypes, DeployTypes, Wanted, Honeytokens, DeployCalls, AnyPod, Causes
<1>3. CASE CreateSecret(c)
  <2>1. deploy' = [deploy EXCEPT ![c].step = "inserting"] /\ "inserting" \in DeploySteps
    BY <1>3 DEF CreateSecret, DeploySteps
  <2> QED BY <1>1, <1>2, <1>3, <2>1 DEF CreateSecret, AgentTypes, DeployTypes
<1>4. ASSUME NEW created \in BOOLEAN, CreateSecretFails(c, created)
      PROVE  deploy' = [deploy EXCEPT ![c].step = "rolling back"]
             /\ cluster' \subseteq Honeytokens /\ orphans' \subseteq Honeytokens
             /\ deploy[c].step = "creating" /\ deploy[c].left # <<>>
             /\ UNCHANGED <<store, discovery, catalogue, workflow>>
  BY <1>2, <1>4 DEF CreateSecretFails, AgentTypes, DeployTypes
<1>5. ASSUME NEW deleted \in BOOLEAN, DeleteSecret(c, deleted)
      PROVE  deploy' = [deploy EXCEPT ![c].step = "forgetting"]
             /\ cluster' \subseteq Honeytokens /\ orphans' \subseteq Honeytokens
             /\ deploy[c].step = "rolling back" /\ deploy[c].done # <<>>
             /\ UNCHANGED <<store, discovery, catalogue, workflow>>
  <2>1. deploy[c].step = "rolling back" /\ deploy[c].done # <<>>
    BY <1>5 DEF DeleteSecret
  <2>2. Head(deploy[c].done) \in Honeytokens
    BY <1>0, <2>1, HeadTailProperties DEF DeployCalls
  <2> QED BY <1>5, <2>1, <2>2 DEF DeleteSecret, AgentTypes, DeployTypes
<1>6. "rolling back" \in DeploySteps /\ "forgetting" \in DeploySteps
  BY DEF DeploySteps
<1>7. CASE \E created \in BOOLEAN : CreateSecretFails(c, created)
  BY <1>1, <1>4, <1>6, <1>7
<1>8. CASE \E deleted \in BOOLEAN : DeleteSecret(c, deleted)
  BY <1>1, <1>5, <1>6, <1>8
<1> QED BY <1>3, <1>7, <1>8 DEF Turn

(* The steps of the deployments preserve their types. *)
LEMMA DeployTypesStep ==
  ASSUME AgentTypes, [Next]_vars PROVE DeployTypes'
<1> USE DEF AgentTypes
<1>0. NotDeploying \in DeployCalls /\ NotDeploying.step = "idle"
  BY EmptySeq DEF DeployCalls, NotDeploying, AnyPod, DeploySteps
<1>1. CASE UNCHANGED <<deployer, deploy>>
  BY <1>1 DEF DeployTypes, deployer
<1>2. ASSUME NEW c \in Callers, Insert(c) PROVE DeployTypes'
  <2> DEFINE d  == deploy[c]
             ht == [by |-> d.by, pod |-> d.pod, path |-> Head(d.left)]
  <2>1. d \in DeployCalls /\ d.step = "inserting" /\ d.left # <<>> /\ d.by \in Causes
    BY <1>2 DEF Insert, DeployTypes
  <2>2. Head(d.left) \in Paths /\ Tail(d.left) \in Seq(Paths)
    BY <2>1, HeadTailProperties DEF DeployCalls
  <2>3. ht \in Honeytokens
    BY <2>1, <2>2 DEF Honeytokens, DeployCalls, AnyPod, Causes
  <2>4. Append(d.done, ht) \in Seq(Honeytokens) /\ Append(d.done, ht) # <<>>
    <3>1. d.done \in Seq(Honeytokens)
      BY <2>1 DEF DeployCalls
    <3> HIDE DEF d, ht
    <3> QED BY <3>1, <2>3, AppendProperties
  <2>5. deploy' = [deploy EXCEPT ![c].step = "creating", ![c].left = Tail(d.left),
                                 ![c].done = Append(d.done, ht)]
    BY <1>2 DEF Insert, Wanted
  <2>6. cluster' = cluster /\ store' = store \cup {ht} /\ orphans' = orphans
    BY <1>2 DEF Insert, Wanted
  <2> HIDE DEF ht
  <2>7. deploy' \in [Callers -> DeployCalls]
    BY <2>1, <2>2, <2>4, <2>5 DEF DeployTypes, DeployCalls, DeploySteps
  <2>8. /\ deploy'[c].done # <<>> /\ deploy'[c].by = d.by
        /\ deploy'[c].step = "creating"
        /\ \A x \in Callers \ {c} : deploy'[x] = deploy[x]
    BY <2>1, <2>4, <2>5 DEF DeployTypes, DeployCalls
  <2> QED BY <2>1, <2>3, <2>6, <2>7, <2>8 DEF DeployTypes
<1>3. ASSUME NEW c \in Callers, Turn(c) PROVE DeployTypes'
  <2>0. AgentTypes
    OBVIOUS
  <2>1. deploy[c] \in DeployCalls /\ deploy[c].by \in Causes
    BY <1>3, TurnEffect, <2>0 DEF DeployTypes
  <2>2. deploy' \in [Callers -> DeployCalls]
    <3>1. deploy' = [deploy EXCEPT ![c].step = deploy'[c].step]
          /\ deploy'[c].step \in DeploySteps
      BY <1>3, <2>0, TurnEffect
    <3> DEFINE step == deploy'[c].step
    <3>2. step \in DeploySteps /\ deploy' = [deploy EXCEPT ![c].step = step]
      BY <3>1
    <3> HIDE DEF step
    <3> QED BY <2>1, <3>2 DEF DeployTypes, DeployCalls
  <2>3. /\ deploy'[c].by = deploy[c].by
        /\ deploy'[c].left = deploy[c].left /\ deploy'[c].done = deploy[c].done
        /\ deploy'[c].step # "creating"
        /\ deploy'[c].step = "inserting" => deploy[c].left # <<>>
        /\ deploy'[c].step = "forgetting" => deploy[c].done # <<>>
        /\ \A x \in Callers \ {c} : deploy'[x] = deploy[x]
    BY <1>3, <2>0, TurnEffect
  <2>4. cluster' \subseteq Honeytokens /\ store' = store /\ orphans' \subseteq Honeytokens
    BY <1>3, <2>0, TurnEffect DEF DeployTypes
  <2> QED BY <2>1, <2>2, <2>3, <2>4 DEF DeployTypes
<1>4. ASSUME NEW c \in Callers, Forget(c) PROVE DeployTypes'
  <2> DEFINE ht == Head(deploy[c].done)
  <2>1. /\ deploy[c] \in DeployCalls /\ deploy[c].by \in Causes
        /\ deploy[c].step = "forgetting" /\ deploy[c].done # <<>>
    BY <1>4 DEF Forget, DeployTypes
  <2>2. ht \in Honeytokens /\ Tail(deploy[c].done) \in Seq(Honeytokens)
    BY <2>1, HeadTailProperties DEF DeployCalls
  <2>3. deploy' = [deploy EXCEPT ![c].step = "rolling back",
                                 ![c].done = Tail(deploy[c].done)]
    BY <1>4 DEF Forget
  <2>4. cluster' = cluster /\ store' \subseteq store /\ orphans' = orphans
    BY <1>4 DEF Forget
  <2> HIDE DEF ht
  <2>5. deploy' \in [Callers -> DeployCalls]
    BY <2>1, <2>2, <2>3 DEF DeployTypes, DeployCalls, DeploySteps
  <2>6. /\ deploy'[c].step = "rolling back" /\ deploy'[c].by = deploy[c].by
        /\ \A x \in Callers \ {c} : deploy'[x] = deploy[x]
    BY <2>1, <2>3 DEF DeployTypes, DeployCalls
  <2> QED BY <2>1, <2>4, <2>5, <2>6 DEF DeployTypes
<1>5. ASSUME NEW p \in Pods, ServePod(p) PROVE DeployTypes'
  <2>1. discovery.cycle \in Causes /\ p \in AnyPod /\ "discovery" \in Callers
    BY DEF DiscoveryTypes, Discoveries, Causes, AnyPod, Callers
  <2> DEFINE d == Deployment(discovery.cycle, p)
  <2>2. d \in DeployCalls /\ d.left # <<>> /\ d.by = discovery.cycle /\ d.step = "creating"
    BY <2>1, DeploymentTyped DEF Deployment
  <2>3. deploy' = [deploy EXCEPT !["discovery"] = d] /\ UNCHANGED deployer
    BY <1>5 DEF ServePod
  <2> HIDE DEF d
  <2> QED BY <2>1, <2>2, <2>3 DEF DeployTypes, deployer
<1>6. ASSUME NEW c \in Callers, deploy' = [deploy EXCEPT ![c] = NotDeploying],
             UNCHANGED deployer
      PROVE  DeployTypes'
  BY <1>0, <1>6 DEF DeployTypes, deployer
<1>7. ASSUME NEW a \in Accesses, DeployHoneytokens(a) PROVE DeployTypes'
  <2>1. a \in Causes /\ ReactivePod \in AnyPod /\ a \in Callers
    BY DEF Causes, AnyPod, Callers
  <2> DEFINE d == Deployment(a, ReactivePod)
  <2>2. d \in DeployCalls /\ d.left # <<>> /\ d.by = a /\ d.step = "creating"
    BY <2>1, DeploymentTyped DEF Deployment
  <2>3. deploy' = [deploy EXCEPT ![a] = d] /\ UNCHANGED deployer
    BY <1>7 DEF DeployHoneytokens
  <2> HIDE DEF d
  <2> QED BY <2>1, <2>2, <2>3 DEF DeployTypes, deployer
<1>8. CASE PodDeployed
  BY <1>6, <1>8 DEF PodDeployed, Callers
<1>9. ASSUME NEW a \in Accesses, HoneytokensDeployed(a) PROVE DeployTypes'
  BY <1>6, <1>9 DEF HoneytokensDeployed, Callers
<1> QED
  BY <1>1, <1>2, <1>3, <1>4, <1>5, <1>7, <1>8, <1>9, DeployFrame
  DEF DeployStep, Deploying, Turn

(* The steps of the discovery goroutine preserve their types. *)
LEMMA DiscoveryTypesStep ==
  ASSUME AgentTypes, [Next]_vars PROVE DiscoveryTypes'
<1> USE DEF AgentTypes
<1>0. discovery \in Discoveries /\ "discovery" \in Callers
  BY DEF DiscoveryTypes, Callers
<1>1. CASE UNCHANGED <<discovery, catalogue>>
  BY <1>1 DEF DiscoveryTypes, catalogue
<1>2. ASSUME NEW found \in SUBSET Pods, Discover(found) PROVE DiscoveryTypes'
  BY <1>0, <1>2 DEF Discover, AtDiscovery, DiscoveryTypes, Discoveries, DiscoveryStates, catalogue
<1>3. ASSUME NEW p \in Pods, ServePod(p) PROVE DiscoveryTypes'
  BY <1>0, <1>3 DEF ServePod, AtDiscovery, DiscoveryTypes, Discoveries, DiscoveryStates, catalogue
<1>4. CASE PodDeployed
  <2>1. CASE Succeeded("discovery")
    <3> DEFINE done == deploy["discovery"].done
    <3>1. done \in Seq(Honeytokens) /\ done # <<>>
      BY <1>0, <2>1 DEF Succeeded, DeployTypes, DeployCalls
    <3>2. discovery' = [discovery EXCEPT !.pc = "registering", !.adding = done]
      BY <1>4, <2>1 DEF PodDeployed, Failed, Succeeded
    <3>3. UNCHANGED catalogue
      BY <1>4 DEF PodDeployed
    <3> HIDE DEF done
    <3> QED BY <1>0, <3>1, <3>2, <3>3
            DEF DiscoveryTypes, Discoveries, DiscoveryStates, catalogue
  <2>2. CASE Failed("discovery")
    BY <1>0, <1>4, <2>2 DEF PodDeployed, AtDiscovery, Failed, Succeeded, DiscoveryTypes,
      Discoveries, DiscoveryStates, catalogue
  <2> QED BY <1>4, <2>1, <2>2 DEF PodDeployed
<1>5. CASE Register
  <2> DEFINE ht == Head(discovery.adding)
  <2>1. discovery.pc = "registering" /\ discovery.adding # <<>>
    BY <1>5 DEF Register, AtDiscovery, DiscoveryTypes
  <2>2. ht \in Honeytokens
    BY <1>0, <2>1, HeadTailProperties DEF Discoveries
  <2>3. /\ registry' = [h \in DOMAIN registry \cup {ht} |-> IF h = ht THEN {} ELSE registry[h]]
        /\ discovery' = [discovery EXCEPT !.pc = "watching"] /\ watched' = watched
    BY <1>5 DEF Register
  <2> HIDE DEF ht
  <2> QED BY <1>0, <2>1, <2>2, <2>3 DEF DiscoveryTypes, Discoveries, DiscoveryStates
<1>6. CASE RegisterPath
  <2> DEFINE ht   == Head(discovery.adding)
             rest == Tail(discovery.adding)
  <2>1. discovery.pc = "watching" /\ discovery.adding # <<>>
    BY <1>6 DEF RegisterPath, AtDiscovery, DiscoveryTypes
  <2>2. ht \in Honeytokens /\ rest \in Seq(Honeytokens)
    BY <1>0, <2>1, HeadTailProperties DEF Discoveries
  <2>3. ht.path \in Paths
    BY <2>2 DEF Honeytokens
  <2>4. /\ watched' = watched \cup {ht.path} /\ registry' = registry
        /\ discovery' = [discovery EXCEPT !.adding = rest,
                           !.pc = IF rest = <<>> THEN "serving" ELSE "registering"]
    BY <1>6 DEF RegisterPath
  <2> HIDE DEF ht, rest
  <2> QED BY <1>0, <2>2, <2>3, <2>4 DEF DiscoveryTypes, Discoveries, DiscoveryStates
<1>7. CASE LogDiscovery \/ DiscoveryEnds
  BY <1>0, <1>7 DEF LogDiscovery, DiscoveryEnds, AtDiscovery, DiscoveryTypes, Discoveries,
    DiscoveryStates, catalogue
<1>8. CASE NextCycle
  <2>1. discovery.cycle + 1 \in Cycles
    BY <1>0, <1>8, AgentAssumption DEF NextCycle, Discoveries, Cycles
  <2> QED BY <1>0, <1>8, <2>1 DEF NextCycle, AtDiscovery, DiscoveryTypes, Discoveries,
        DiscoveryStates, catalogue
<1>9. ASSUME NEW a \in Accesses, MarkTriggered(a) PROVE DiscoveryTypes'
  <2>1. DOMAIN registry' = DOMAIN registry
    BY <1>9 DEF MarkTriggered
  <2>2. \A h \in DOMAIN registry : registry'[h] \subseteq registry[h] \cup {a}
    BY <1>9 DEF MarkTriggered
  <2> QED BY <1>9, <2>1, <2>2 DEF MarkTriggered, DiscoveryTypes
<1> QED
  BY <1>1, <1>2, <1>3, <1>4, <1>5, <1>6, <1>7, <1>8, <1>9, DiscoveryFrame
  DEF DiscoveryStep, Discovering

(* Every level a workflow may be given is one of the four. *)
LEMMA AssessmentTyped == Assessments(Contexts) \subseteq ThreatLevels
BY LevelTyped DEF Assessments, LevelWithoutContext, ClassifyThreatWithDefaults

(* NextAction keeps the type of a workflow that has an action to finish. *)
LEMMA NextActionTyped ==
  ASSUME WorkflowTypes, NEW a \in Accesses, NEW failed \in SUBSET Retried,
         workflow[a].todo # <<>>, NextAction(a, failed)
  PROVE  /\ WorkflowTypes'
         /\ workflow'[a].pc = "responding" /\ workflow'[a].level = workflow[a].level
         /\ \A b \in Accesses \ {a} : workflow'[b] = workflow[b]
<1> DEFINE w == workflow[a]
           rest == Tail(w.todo)
           new == [w EXCEPT !.pc = "responding", !.todo = rest, !.attempt = 0,
                            !.failed = w.failed \cup failed]
<1>1. w \in Workflows
  BY DEF WorkflowTypes
<1>2. rest \in Seq(Actions)
  BY <1>1, HeadTailProperties DEF Workflows
<1>3. workflow' = [workflow EXCEPT ![a] = new]
  BY DEF NextAction
<1> HIDE DEF rest
<1>4. new \in Workflows /\ new.pc = "responding" /\ new.level = w.level
  BY <1>1, <1>2 DEF Workflows, WorkflowStates
<1> HIDE DEF new
<1> QED BY <1>3, <1>4 DEF WorkflowTypes

(* The steps of the workflows preserve their types. *)
LEMMA WorkflowTypesStep ==
  ASSUME AgentTypes, [Next]_vars PROVE WorkflowTypes'
<1> USE DEF AgentTypes
<1>1. CASE UNCHANGED workflow
  BY <1>1 DEF WorkflowTypes
<1>2. ASSUME NEW a \in Accesses, NEW pod \in Pods, NEW path \in Paths, NEW full \in BOOLEAN,
             Detect(a, pod, path, full)
      PROVE  WorkflowTypes'
  <2> DEFINE known == \E h \in DOMAIN registry : h.pod = pod /\ h.path = path
  <2>1. known \in BOOLEAN
    OBVIOUS
  <2>2. workflow' = [workflow EXCEPT ![a].pc = "assessing", ![a].pod = pod,
                                     ![a].path = path, ![a].full = full,
                                     ![a].known = known]
    BY <1>2 DEF Detect
  <2> HIDE DEF known
  <2> DEFINE new == [workflow[a] EXCEPT !.pc = "assessing", !.pod = pod, !.path = path,
                                        !.full = full, !.known = known]
  <2>3. workflow[a] \in Workflows
    BY DEF WorkflowTypes
  <2>4. new \in Workflows
    BY <2>1, <2>3 DEF Workflows, WorkflowStates, AnyPod
  <2>5. new.pc = "assessing"
    BY <2>3 DEF Workflows
  <2>6. workflow' = [workflow EXCEPT ![a] = new]
    BY <2>2
  <2> HIDE DEF new
  <2> QED BY <2>4, <2>5, <2>6 DEF WorkflowTypes
<1>3. ASSUME NEW a \in Accesses, Working(a) PROVE WorkflowTypes'
  <2>0. workflow[a] \in Workflows
    BY DEF WorkflowTypes
  <2>1. ASSUME NEW level \in Assessments(Contexts), Assess(a, level) PROVE WorkflowTypes'
    BY <2>0, <2>1, AssessmentTyped DEF Assess, AtWorkflow, WorkflowTypes, Workflows, WorkflowStates
  <2>2. CASE MarkTriggered(a)
    <3> DEFINE plan == PlanActions(workflow[a].level)
    <3>1. plan \in Seq(Actions)
      BY <2>0, PlanTyped DEF Workflows
    <3>2. workflow' = [workflow EXCEPT ![a].pc = "responding", ![a].todo = plan]
      BY <2>2 DEF MarkTriggered
    <3> HIDE DEF plan
    <3> QED BY <2>0, <3>1, <3>2 DEF WorkflowTypes, Workflows, WorkflowStates
  <2>3. ASSUME NEW action \in Retried, ActionSucceeds(a, action) PROVE WorkflowTypes'
    BY <2>3, NextActionTyped DEF ActionSucceeds, Responding
  <2>4. ASSUME NEW action \in Retried, ActionFails(a, action) PROVE WorkflowTypes'
    BY <2>0, <2>4, SMTT(30) DEF ActionFails, Responding, WorkflowTypes, Workflows, WorkflowStates
  <2>5. ASSUME NEW action \in Retried, ActionExhausted(a, action) PROVE WorkflowTypes'
    BY <2>5, NextActionTyped DEF ActionExhausted, Responding
  <2>6. CASE RetryAction(a)
    BY <2>0, <2>6 DEF RetryAction, AtWorkflow, WorkflowTypes, Workflows, WorkflowStates
  <2>7. CASE AbandonAction(a)
    <3>1. workflow[a].todo # <<>> /\ {Head(workflow[a].todo)} \in SUBSET Retried
      BY <2>7 DEF AbandonAction, AtWorkflow, WorkflowTypes
    <3> DEFINE failed == {Head(workflow[a].todo)}
    <3>2. NextAction(a, failed)
      BY <2>7 DEF AbandonAction
    <3> HIDE DEF failed
    <3> QED BY <3>1, <3>2, NextActionTyped DEF failed
  <2>8. CASE DeployHoneytokens(a)
    BY <2>0, <2>8 DEF DeployHoneytokens, Responding, WorkflowTypes, Workflows, WorkflowStates
  <2>9. CASE HoneytokensDeployed(a)
    BY <2>9, NextActionTyped DEF HoneytokensDeployed, AtWorkflow, WorkflowTypes
  <2>10. CASE Ingest(a)
    BY <2>0, <2>10 DEF Ingest, AtWorkflow, WorkflowTypes, Workflows, WorkflowStates
  <2>11. CASE LogWorkflow(a)
    BY <2>0, <2>11 DEF LogWorkflow, AtWorkflow, WorkflowTypes, Workflows, WorkflowStates
  <2> QED
    BY <1>3, <2>1, <2>2, <2>3, <2>4, <2>5, <2>6, <2>7, <2>8, <2>9, <2>10, <2>11 DEF Working
<1> QED BY <1>1, <1>2, <1>3, WorkflowFrame DEF WorkflowStep

(* Who changes the trainer, the scheduler and the life cycle. *)
LEMMA LearningFrame ==
  ASSUME [Next]_vars
  PROVE  \/ \E a \in Accesses : Ingest(a)
         \/ ShouldRetrain \/ Retraining \/ ContextEnds \/ Cancel \/ StopReturns
         \/ UNCHANGED <<learning, lifecycle>>
<1>1. CASE UNCHANGED vars
  BY <1>1 DEF vars
<1>2. ASSUME NEW c \in Callers, Deploying(c) PROVE UNCHANGED <<learning, lifecycle>>
  BY <1>2 DEF Deploying, CreateSecret, Insert, CreateSecretFails, DeleteSecret, Forget
<1>3. CASE Discovering \/ NextCycle
  BY <1>3 DEF Discovering, NextCycle, Discover, ServePod, PodDeployed, Register,
    RegisterPath, LogDiscovery, DiscoveryEnds
<1>4. ASSUME NEW a \in Accesses, NEW pod \in Pods, NEW path \in Paths, NEW full \in BOOLEAN,
             Detect(a, pod, path, full)
      PROVE  UNCHANGED <<learning, lifecycle>>
  BY <1>4 DEF Detect
<1>5. ASSUME NEW a \in Accesses, Working(a)
      PROVE  Ingest(a) \/ UNCHANGED <<learning, lifecycle>>
  BY <1>5 DEF Working, Assess, MarkTriggered, ActionSucceeds, ActionFails, ActionExhausted,
    RetryAction, AbandonAction, DeployHoneytokens, HoneytokensDeployed, LogWorkflow
<1> QED BY <1>1, <1>2, <1>3, <1>4, <1>5 DEF Next

(* Ingestion and retraining preserve the types of the trainer. *)
LEMMA LearningTypesStep ==
  ASSUME AgentTypes, [Next]_vars PROVE LearningTypes'
<1> USE DEF AgentTypes
<1>0. trainer \in Trainers
  BY DEF LearningTypes
<1>1. CASE UNCHANGED <<learning, lifecycle>>
  BY <1>1 DEF LearningTypes, learning, lifecycle
<1>2. ASSUME NEW a \in Accesses, Ingest(a) PROVE LearningTypes'
  <2>1. trainer' \in Trainers
    <3>1. CASE Valid(a)
      <4>1. trainer' = [trainer EXCEPT !.dataset = trainer.dataset + 1,
                                       !.sinceLast = trainer.sinceLast + 1]
        BY <1>2, <3>1 DEF Ingest
      <4>2. trainer.dataset + 1 \in Nat /\ trainer.sinceLast + 1 \in Nat
        BY <1>0 DEF Trainers
      <4> QED BY <1>0, <4>1, <4>2 DEF Trainers
    <3>2. CASE ~Valid(a)
      BY <1>0, <1>2, <3>2 DEF Ingest
    <3> QED BY <3>1, <3>2
  <2> QED BY <1>2, <2>1 DEF Ingest, LearningTypes, lifecycle
<1>3. CASE ShouldRetrain
  BY <1>3 DEF ShouldRetrain, LearningTypes, lifecycle
<1>4. ASSUME NEW accuracy \in Accuracies, TriggerRetraining(accuracy) PROVE LearningTypes'
  <2>1. trainer' \in Trainers
    <3>1. CASE accuracy >= trainer.accuracy
      <4>1. trainer' = [trainer EXCEPT !.accuracy = accuracy,
                                       !.trainedOn = trainer.dataset, !.sinceLast = 0]
        BY <1>4, <3>1 DEF TriggerRetraining
      <4>2. trainer.dataset \in Nat
        BY <1>0 DEF Trainers
      <4> QED BY <1>0, <4>1, <4>2 DEF Trainers
    <3>2. CASE ~(accuracy >= trainer.accuracy)
      BY <1>0, <1>4, <3>2 DEF TriggerRetraining
    <3> QED BY <3>1, <3>2
  <2>2. scheduler' \in {"waiting", "logging"} /\ UNCHANGED lifecycle
    BY <1>4 DEF TriggerRetraining
  <2> QED BY <2>1, <2>2 DEF LearningTypes, lifecycle
<1>5. CASE LogModel \/ SchedulerEnds
  BY <1>5 DEF LogModel, SchedulerEnds, LearningTypes, lifecycle
<1>6. CASE ContextEnds \/ Cancel \/ StopReturns
  BY <1>6 DEF ContextEnds, Cancel, StopReturns, LearningTypes, learning
<1> QED BY <1>1, <1>2, <1>3, <1>4, <1>5, <1>6, LearningFrame DEF Retraining

(* The types hold in every reachable state. *)
LEMMA TypesInvariant == Spec => []AgentTypes
<1>1. AgentTypes /\ [Next]_vars => AgentTypes'
  BY DeployTypesStep, DiscoveryTypesStep, WorkflowTypesStep, LearningTypesStep DEF AgentTypes
<1> QED BY <1>1, TypesInit, PTL DEF Spec

(* Every variable of the agent always has its type.                        *)
THEOREM TypeCorrect == Spec => []TypeOK
<1>1. AgentTypes => TypeOK
  BY DEF AgentTypes, DeployTypes, DiscoveryTypes, WorkflowTypes, LearningTypes, TypeOK,
    DeployCalls, Discoveries, Workflows, Trainers, DeploySteps
<1> QED BY <1>1, TypesInvariant, PTL

-----------------------------------------------------------------------------
(* The records of the trainer *)

(* Only Ingest adds to the learned accesses: before it no workflow has     *)
(* reached the states that count, and after it the level does not change.  *)
LEMMA LearnedFrame ==
  ASSUME AgentTypes, [Next]_vars, \A a \in Accesses : ~Ingest(a)
  PROVE  Learned' = Learned
<1> DEFINE In(w) == w.pc \in {"logging", "done"} /\ PlanActions(w.level) # <<>> /\ w.full
<1>0. \A a \in Accesses : workflow[a] \in Workflows /\ workflow'[a] \in Workflows
  BY WorkflowTypesStep DEF AgentTypes, WorkflowTypes
<1>1. SUFFICES \A a \in Accesses : In(workflow[a]) <=> In(workflow'[a])
  BY DEF Learned, Valid
<1>2. CASE UNCHANGED workflow
  BY <1>2
<1>3. ASSUME NEW a \in Accesses, NEW pod \in Pods, NEW path \in Paths, NEW full \in BOOLEAN,
             Detect(a, pod, path, full)
      PROVE  \A x \in Accesses : In(workflow[x]) <=> In(workflow'[x])
  <2>1. /\ workflow[a].pc = "undetected" /\ workflow'[a].pc = "assessing"
        /\ \A x \in Accesses \ {a} : workflow'[x] = workflow[x]
    BY <1>0, <1>3 DEF Detect, AtWorkflow, AgentTypes, WorkflowTypes, Workflows
  <2> QED BY <2>1
<1>4. ASSUME NEW a \in Accesses, Working(a)
      PROVE  \A x \in Accesses : In(workflow[x]) <=> In(workflow'[x])
  <2> DEFINE Busy == WorkflowStates \ {"logging", "done"}
  <2>1. SUFFICES /\ \/ workflow[a].pc \in Busy /\ workflow'[a].pc \in Busy
                    \/ /\ workflow[a].pc = "logging" /\ workflow'[a].pc = "done"
                       /\ workflow'[a].level = workflow[a].level
                       /\ workflow'[a].full = workflow[a].full
                 /\ \A x \in Accesses \ {a} : workflow'[x] = workflow[x]
    BY DEF WorkflowStates
  <2> USE DEF AgentTypes
  <2>2. ASSUME NEW level \in Assessments(Contexts), Assess(a, level)
        PROVE  /\ workflow[a].pc \in Busy /\ workflow'[a].pc \in Busy
               /\ \A x \in Accesses \ {a} : workflow'[x] = workflow[x]
    BY <1>0, <2>2 DEF Assess, AtWorkflow, WorkflowTypes, Workflows, WorkflowStates
  <2>3. CASE MarkTriggered(a)
    BY <1>0, <2>3 DEF MarkTriggered, AtWorkflow, WorkflowTypes, Workflows, WorkflowStates
  <2>4. ASSUME NEW action \in Retried, ActionSucceeds(a, action)
        PROVE  /\ workflow[a].pc \in Busy /\ workflow'[a].pc \in Busy
               /\ \A x \in Accesses \ {a} : workflow'[x] = workflow[x]
    BY <2>4, NextActionTyped DEF ActionSucceeds, Responding, AtWorkflow, WorkflowStates
  <2>5. ASSUME NEW action \in Retried, ActionFails(a, action)
        PROVE  /\ workflow[a].pc \in Busy /\ workflow'[a].pc \in Busy
               /\ \A x \in Accesses \ {a} : workflow'[x] = workflow[x]
    BY <1>0, <2>5 DEF ActionFails, Responding, AtWorkflow, WorkflowTypes, Workflows, WorkflowStates
  <2>6. ASSUME NEW action \in Retried, ActionExhausted(a, action)
        PROVE  /\ workflow[a].pc \in Busy /\ workflow'[a].pc \in Busy
               /\ \A x \in Accesses \ {a} : workflow'[x] = workflow[x]
    BY <2>6, NextActionTyped DEF ActionExhausted, Responding, AtWorkflow, WorkflowStates
  <2>7. CASE RetryAction(a)
    BY <1>0, <2>7 DEF RetryAction, AtWorkflow, WorkflowTypes, Workflows, WorkflowStates
  <2>8. CASE AbandonAction(a)
    <3> DEFINE failed == {Head(workflow[a].todo)}
    <3>1. workflow[a].todo # <<>> /\ failed \in SUBSET Retried
      BY <2>8 DEF AbandonAction, AtWorkflow, WorkflowTypes
    <3>2. NextAction(a, failed) /\ workflow[a].pc = "retrying"
      BY <2>8 DEF AbandonAction, AtWorkflow
    <3> HIDE DEF failed
    <3> QED BY <3>1, <3>2, NextActionTyped DEF WorkflowStates
  <2>9. CASE DeployHoneytokens(a)
    BY <1>0, <2>9 DEF DeployHoneytokens, Responding, AtWorkflow, WorkflowTypes, Workflows,
      WorkflowStates
  <2>10. CASE HoneytokensDeployed(a)
    BY <2>10, NextActionTyped DEF HoneytokensDeployed, AtWorkflow, WorkflowTypes, WorkflowStates
  <2>11. CASE LogWorkflow(a)
    BY <1>0, <2>11 DEF LogWorkflow, AtWorkflow, WorkflowTypes, Workflows
  <2> HIDE DEF Busy
  <2> QED
    BY <1>4, <2>2, <2>3, <2>4, <2>5, <2>6, <2>7, <2>8, <2>9, <2>10, <2>11 DEF Working
<1> HIDE DEF In
<1> QED BY <1>2, <1>3, <1>4, WorkflowFrame DEF WorkflowStep

(* Ingest of a workflow that took action adds its access, of another none. *)
LEMMA LearnedIngest ==
  ASSUME AgentTypes, NEW a \in Accesses, Ingest(a)
  PROVE  a \notin Learned /\ Learned' = IF Valid(a) THEN Learned \cup {a} ELSE Learned
<1>1. workflow \in [Accesses -> Workflows]
  BY DEF AgentTypes, WorkflowTypes
<1>2. workflow[a].pc = "responding" /\ workflow' = [workflow EXCEPT ![a].pc = "logging"]
  BY DEF Ingest, AtWorkflow
<1>3. /\ workflow'[a].pc = "logging" /\ workflow'[a].level = workflow[a].level
      /\ \A x \in Accesses \ {a} : workflow'[x] = workflow[x]
  BY <1>1, <1>2 DEF Workflows
<1> QED BY <1>2, <1>3 DEF Learned, Valid

(* The dataset of the trainer is what the published model was trained on   *)
(* and the records since then, and it holds exactly the valid outcomes of  *)
(* the workflows that are past their learning, those with an action and    *)
(* with every field of their event, for every number of accesses and       *)
(* however retraining and ingestion interleave (trainer.go                 *)
(* IngestOutcomeData, validateOutcomeData, TriggerRetraining).             *)
THEOREM DatasetIsComplete == Spec => []RecordsCounted
<1>1. Init => RecordsCounted
  <2> SUFFICES ASSUME Init PROVE RecordsCounted
    OBVIOUS
  <2>1. Learned = {}
    BY DEF Init, Learned, Undetected
  <2> QED BY <2>1, FS_EmptySet DEF Init, RecordsCounted
<1>2. AgentTypes /\ RecordsCounted /\ [Next]_vars => RecordsCounted'
  <2> SUFFICES ASSUME AgentTypes, RecordsCounted, [Next]_vars PROVE RecordsCounted'
    OBVIOUS
  <2>0. trainer \in Trainers
    BY DEF AgentTypes, LearningTypes
  <2>1. CASE \E a \in Accesses : Ingest(a)
    <3> PICK a \in Accesses : Ingest(a)
      BY <2>1
    <3>1. IsFiniteSet(Learned)
      BY AgentAssumption, FS_Subset DEF Learned
    <3>2. CASE Valid(a)
      <4>1. Learned' = Learned \cup {a} /\ a \notin Learned
        BY <3>2, LearnedIngest
      <4>2. Cardinality(Learned') = Cardinality(Learned) + 1
        BY <3>1, <4>1, FS_AddElement
      <4>3. trainer' = [trainer EXCEPT !.dataset = trainer.dataset + 1,
                                       !.sinceLast = trainer.sinceLast + 1]
        BY <3>2 DEF Ingest
      <4> QED BY <2>0, <4>2, <4>3 DEF RecordsCounted, Trainers
    <3>3. CASE ~Valid(a)
      BY <3>3, LearnedIngest DEF Ingest, RecordsCounted
    <3> QED BY <3>2, <3>3
  <2>2. CASE \A a \in Accesses : ~Ingest(a)
    <3>1. Learned' = Learned
      BY <2>2, LearnedFrame
    <3>2. /\ trainer'.dataset = trainer.dataset
          /\ trainer'.dataset = trainer'.trainedOn + trainer'.sinceLast
      <4>1. CASE trainer' = trainer
        BY <4>1 DEF RecordsCounted
      <4>2. ASSUME NEW accuracy \in Accuracies, TriggerRetraining(accuracy)
            PROVE  /\ trainer'.dataset = trainer.dataset
                   /\ trainer'.dataset = trainer'.trainedOn + trainer'.sinceLast
        <5>1. CASE accuracy >= trainer.accuracy
          <6>1. trainer' = [trainer EXCEPT !.accuracy = accuracy,
                              !.trainedOn = trainer.dataset, !.sinceLast = 0]
            BY <4>2, <5>1 DEF TriggerRetraining
          <6>2. trainer.dataset \in Nat
            BY <2>0 DEF Trainers
          <6> QED BY <2>0, <6>1, <6>2 DEF Trainers
        <5>2. CASE ~(accuracy >= trainer.accuracy)
          BY <4>2, <5>2 DEF TriggerRetraining, RecordsCounted
        <5> QED BY <5>1, <5>2
      <4> QED
        BY <2>2, <4>1, <4>2, LearningFrame DEF ShouldRetrain, Retraining, LogModel,
          SchedulerEnds, ContextEnds, Cancel, StopReturns, learning
    <3> QED BY <3>1, <3>2 DEF RecordsCounted
  <2> QED BY <2>1, <2>2
<1> QED BY <1>1, <1>2, TypesInvariant, PTL DEF Spec

-----------------------------------------------------------------------------
(* Registry, store and watched paths *)

Discovered == deploy["discovery"]          \* the Deploy call of the discovery goroutine
Making     == {"creating", "inserting"}    \* steps of a call that has not failed

(* Every call works for its own cycle or access, so a rollback only removes *)
(* what its own call made.                                                  *)
OwnBatches ==
  /\ \A a \in Accesses : deploy[a].step # "idle" => deploy[a].by = a
  /\ discovery.pc = "deploying" =>
       /\ Discovered.step # "idle" /\ Discovered.by = discovery.cycle
       /\ Discovered.pod \notin discovery.todo
  /\ discovery.pc # "deploying" => Discovered.step = "idle"
  /\ \A c \in Callers : deploy[c].step # "idle" =>
       \A h \in ElementsOf(deploy[c].done) : h.by = deploy[c].by /\ h.pod = deploy[c].pod

(* What the registry knows was deployed by an earlier cycle or for a pod the *)
(* current one is through with; that is why the rollback of a later          *)
(* deployment cannot take it away.                                           *)
EntriesSettled ==
  \A h \in DOMAIN registry :
    /\ h \in store /\ h.by \in Cycles /\ h.by <= discovery.cycle
    /\ h.by = discovery.cycle =>
         /\ discovery.pc # "querying" /\ h.pod \notin discovery.todo
         /\ discovery.pc = "deploying" => h.pod # Discovered.pod

(* What is being added is deployed, and belongs to the current cycle. *)
AddingSettled ==
  /\ \A h \in ElementsOf(discovery.adding) :
       h \in store /\ h.by = discovery.cycle /\ h.pod \notin discovery.todo
  /\ discovery.pc = "watching" => Head(discovery.adding) \in DOMAIN registry
  /\ Discovered.step \in Making => ElementsOf(Discovered.done) \subseteq store

(* No honeytoken of a cycle is forgotten: it is registered and watched, about *)
(* to be, or in the hands of the deployment under way.                        *)
NoneForgotten ==
  \A h \in store : h.by \in Cycles =>
    \/ h \in DOMAIN registry /\ h.path \in watched
    \/ h \in ElementsOf(discovery.adding)
    \/ discovery.pc = "deploying" /\ h \in ElementsOf(Discovered.done)

WatchedRegistered == \A path \in watched : \E h \in DOMAIN registry : h.path = path

CatalogueInv ==
  OwnBatches /\ EntriesSettled /\ AddingSettled /\ NoneForgotten /\ WatchedRegistered

(* The elements of a sequence without its head, and with one more. *)
LEMMA TailElements ==
  ASSUME NEW S, NEW s \in Seq(S), s # <<>>
  PROVE  /\ Head(s) \in ElementsOf(s) /\ ElementsOf(Tail(s)) \subseteq ElementsOf(s)
         /\ \A x \in ElementsOf(s) : x = Head(s) \/ x \in ElementsOf(Tail(s))
<1>1. Len(s) \in Nat \ {0} /\ DOMAIN s = 1..Len(s)
  BY EmptySeq, LenProperties
<1>2. /\ Tail(s) \in Seq(S) /\ Len(Tail(s)) = Len(s) - 1
      /\ \A i \in 1..Len(Tail(s)) : Tail(s)[i] = s[i + 1]
  BY HeadTailProperties
<1>3. DOMAIN Tail(s) = 1..Len(Tail(s))
  BY <1>2, LenProperties
<1>4. Head(s) = s[1]
  OBVIOUS
<1>5. Head(s) \in ElementsOf(s)
  BY <1>1, <1>4 DEF ElementsOf
<1>6. ASSUME NEW i \in DOMAIN Tail(s) PROVE Tail(s)[i] \in ElementsOf(s)
  <2>1. i \in 1..Len(Tail(s)) /\ i + 1 \in DOMAIN s
    BY <1>1, <1>2, <1>3
  <2> QED BY <1>2, <2>1 DEF ElementsOf
<1>7. ASSUME NEW j \in DOMAIN s, s[j] # Head(s) PROVE s[j] \in ElementsOf(Tail(s))
  <2>1. j - 1 \in 1..Len(Tail(s)) /\ (j - 1) + 1 = j
    BY <1>1, <1>2, <1>4, <1>7
  <2>2. Tail(s)[j - 1] = s[j]
    BY <1>2, <2>1
  <2> QED BY <1>3, <2>1, <2>2 DEF ElementsOf
<1> QED BY <1>5, <1>6, <1>7 DEF ElementsOf

(* See TailElements. *)
LEMMA AppendElements ==
  ASSUME NEW S, NEW s \in Seq(S), NEW e \in S
  PROVE  ElementsOf(Append(s, e)) = ElementsOf(s) \cup {e}
<1>1. Len(s) \in Nat /\ DOMAIN s = 1..Len(s)
  BY LenProperties
<1> DEFINE t == Append(s, e)
<1>2. /\ t \in Seq(S) /\ Len(t) = Len(s) + 1
      /\ \A i \in 1..Len(s) : t[i] = s[i]
      /\ t[Len(s) + 1] = e
  BY AppendProperties
<1>3. DOMAIN t = 1..(Len(s) + 1)
  BY <1>2, LenProperties
<1> HIDE DEF t
<1>4. ElementsOf(t) \subseteq ElementsOf(s) \cup {e}
  <2> SUFFICES ASSUME NEW i \in 1..(Len(s) + 1) PROVE t[i] \in ElementsOf(s) \cup {e}
    BY <1>3 DEF ElementsOf
  <2>1. i \in 1..Len(s) \/ i = Len(s) + 1
    BY <1>1
  <2> QED BY <1>1, <1>2, <2>1 DEF ElementsOf
<1>5. ElementsOf(s) \subseteq ElementsOf(t)
  <2> SUFFICES ASSUME NEW i \in 1..Len(s) PROVE s[i] \in ElementsOf(t)
    BY <1>1 DEF ElementsOf
  <2>1. i \in DOMAIN t
    BY <1>1, <1>3
  <2> QED BY <1>2, <2>1 DEF ElementsOf
<1>6. e \in ElementsOf(t)
  <2>1. Len(s) + 1 \in DOMAIN t
    BY <1>1, <1>3
  <2> QED BY <1>2, <2>1 DEF ElementsOf
<1>7. QED
  BY <1>4, <1>5, <1>6 DEF t

(* What one step of a deployment does, in terms of the honeytoken it is about. *)
LEMMA InsertEffect ==
  ASSUME DeployTypes, NEW c \in Callers, Insert(c)
  PROVE  \E ht \in Honeytokens :
           /\ ht.by = deploy[c].by /\ ht.pod = deploy[c].pod
           /\ store' = store \cup {ht}
           /\ deploy[c].step = "inserting" /\ deploy'[c].step = "creating"
           /\ deploy'[c].by = deploy[c].by /\ deploy'[c].pod = deploy[c].pod
           /\ ElementsOf(deploy'[c].done) = ElementsOf(deploy[c].done) \cup {ht}
           /\ \A x \in Callers \ {c} : deploy'[x] = deploy[x]
           /\ UNCHANGED <<discovery, registry, watched>>
<1> DEFINE d  == deploy[c]
           ht == [by |-> d.by, pod |-> d.pod, path |-> Head(d.left)]
           t  == Append(d.done, ht)
<1>1. d \in DeployCalls /\ d.step = "inserting" /\ d.left # <<>> /\ d.by \in Causes
  BY DEF Insert, DeployTypes
<1>2. Head(d.left) \in Paths
  BY <1>1, HeadTailProperties DEF DeployCalls
<1>3. ht \in Honeytokens /\ ht.by = d.by /\ ht.pod = d.pod
  BY <1>1, <1>2 DEF Honeytokens, DeployCalls, AnyPod, Causes
<1>4. /\ deploy' = [deploy EXCEPT ![c].step = "creating", ![c].left = Tail(d.left),
                                   ![c].done = t]
      /\ store' = store \cup {ht} /\ UNCHANGED <<discovery, registry, watched>>
  BY DEF Insert, Wanted, catalogue
<1>5. ElementsOf(t) = ElementsOf(d.done) \cup {ht}
  <2>1. d.done \in Seq(Honeytokens)
    BY <1>1 DEF DeployCalls
  <2> HIDE DEF d, ht
  <2> QED BY <1>3, <2>1, AppendElements
<1> HIDE DEF ht, t
<1>6. /\ deploy'[c].step = "creating" /\ deploy'[c].done = t
      /\ deploy'[c].by = d.by /\ deploy'[c].pod = d.pod
      /\ \A x \in Callers \ {c} : deploy'[x] = deploy[x]
  BY <1>1, <1>4 DEF DeployTypes, DeployCalls
<1> QED BY <1>1, <1>3, <1>4, <1>5, <1>6

(* See InsertEffect. *)
LEMMA ForgetEffect ==
  ASSUME DeployTypes, NEW c \in Callers, Forget(c)
  PROVE  \E ht \in ElementsOf(deploy[c].done) :
           /\ store' = store \ {ht}
           /\ deploy[c].step = "forgetting" /\ deploy'[c].step = "rolling back"
           /\ deploy'[c].by = deploy[c].by /\ deploy'[c].pod = deploy[c].pod
           /\ ElementsOf(deploy'[c].done) \subseteq ElementsOf(deploy[c].done)
           /\ \A h \in ElementsOf(deploy[c].done) : h = ht \/ h \in ElementsOf(deploy'[c].done)
           /\ \A x \in Callers \ {c} : deploy'[x] = deploy[x]
           /\ UNCHANGED <<discovery, registry, watched>>
<1> DEFINE d == deploy[c]
           t == Tail(d.done)
<1>1. d \in DeployCalls /\ d.step = "forgetting" /\ d.done # <<>>
  BY DEF Forget, DeployTypes
<1>2. /\ Head(d.done) \in ElementsOf(d.done) /\ ElementsOf(t) \subseteq ElementsOf(d.done)
      /\ \A h \in ElementsOf(d.done) : h = Head(d.done) \/ h \in ElementsOf(t)
  <2>1. d.done \in Seq(Honeytokens)
    BY <1>1 DEF DeployCalls
  <2> HIDE DEF d
  <2> QED BY <1>1, <2>1, TailElements
<1>3. /\ deploy' = [deploy EXCEPT ![c].step = "rolling back", ![c].done = t]
      /\ store' = store \ {Head(d.done)}
      /\ UNCHANGED <<discovery, registry, watched>>
  BY DEF Forget, catalogue
<1> HIDE DEF t
<1>4. /\ deploy'[c].step = "rolling back" /\ deploy'[c].done = t
      /\ deploy'[c].by = d.by /\ deploy'[c].pod = d.pod
      /\ \A x \in Callers \ {c} : deploy'[x] = deploy[x]
  BY <1>1, <1>3 DEF DeployTypes, DeployCalls
<1> QED BY <1>1, <1>2, <1>3, <1>4

(* Nothing is deployed, registered or watched at first. *)
LEMMA CatalogueInit == Init => CatalogueInv
<1> SUFFICES ASSUME Init PROVE CatalogueInv
  OBVIOUS
<1>1. "discovery" \in Callers /\ \A a \in Accesses : a \in Callers
  BY DEF Callers
<1>2. \A c \in Callers : deploy[c].step = "idle"
  BY DEF Init, NotDeploying
<1>3. DOMAIN registry = {} /\ ElementsOf(discovery.adding) = {}
  BY DEF Init, ElementsOf
<1>4. store = {} /\ watched = {} /\ discovery.pc = "querying"
  BY DEF Init
<1>5. Discovered.step = "idle"
  BY <1>1, <1>2 DEF Discovered
<1> QED BY <1>1, <1>2, <1>3, <1>4, <1>5 DEF CatalogueInv, OwnBatches, EntriesSettled,
      AddingSettled, NoneForgotten, WatchedRegistered, Making

(* The empty sequence has no elements. *)
LEMMA NoElements == ElementsOf(<<>>) = {}
BY DEF ElementsOf

(* A call that goes on working for the same cause keeps the batches apart. *)
LEMMA OwnBatchesKept ==
  ASSUME OwnBatches, NEW c \in Callers, UNCHANGED discovery,
         deploy[c].step # "idle", deploy'[c].step # "idle",
         deploy'[c].by = deploy[c].by, deploy'[c].pod = deploy[c].pod,
         \A h \in ElementsOf(deploy'[c].done) : h.by = deploy[c].by /\ h.pod = deploy[c].pod,
         \A x \in Callers \ {c} : deploy'[x] = deploy[x]
  PROVE  OwnBatches'
<1>0. "discovery" \in Callers /\ \A a \in Accesses : a \in Callers
  BY DEF Callers
<1>1. \A x \in Callers : /\ deploy'[x].step # "idle" <=> deploy[x].step # "idle"
                         /\ deploy'[x].by = deploy[x].by /\ deploy'[x].pod = deploy[x].pod
  OBVIOUS
<1>2. \A a \in Accesses : deploy'[a].step # "idle" => deploy'[a].by = a
  BY <1>0, <1>1 DEF OwnBatches
<1>3. /\ discovery'.pc = "deploying" =>
           /\ Discovered'.step # "idle" /\ Discovered'.by = discovery'.cycle
           /\ Discovered'.pod \notin discovery'.todo
      /\ discovery'.pc # "deploying" => Discovered'.step = "idle"
  BY <1>0, <1>1 DEF OwnBatches, Discovered
<1>4. ASSUME NEW x \in Callers, deploy'[x].step # "idle", NEW h \in ElementsOf(deploy'[x].done)
      PROVE  h.by = deploy'[x].by /\ h.pod = deploy'[x].pod
  <2>1. CASE x = c
    BY <1>4, <2>1
  <2>2. CASE x # c
    BY <1>4, <2>2 DEF OwnBatches
  <2> QED BY <2>1, <2>2
<1> QED BY <1>2, <1>3, <1>4 DEF OwnBatches

(* The steps of a deployment keep the catalogue: a created honeytoken is in  *)
(* the hands of its call, and a rollback takes away nothing registered.      *)
LEMMA DeployingKeepsCatalogue ==
  ASSUME AgentTypes, CatalogueInv, NEW c \in Callers, Deploying(c)
  PROVE  CatalogueInv'
<1> USE DEF AgentTypes
<1>0. /\ "discovery" \in Callers /\ \A a \in Accesses : a \in Callers
      /\ c = "discovery" \/ c \in Accesses
      /\ "discovery" \notin Accesses /\ Cycles \cap Accesses = {}
      /\ discovery.cycle \in Cycles
  BY AgentAssumption DEF Callers, Cycles, DiscoveryTypes, Discoveries
<1>1. CASE Insert(c)
  <2> PICK ht \in Honeytokens :
           /\ ht.by = deploy[c].by /\ ht.pod = deploy[c].pod
           /\ store' = store \cup {ht}
           /\ deploy[c].step = "inserting" /\ deploy'[c].step = "creating"
           /\ deploy'[c].by = deploy[c].by /\ deploy'[c].pod = deploy[c].pod
           /\ ElementsOf(deploy'[c].done) = ElementsOf(deploy[c].done) \cup {ht}
           /\ \A x \in Callers \ {c} : deploy'[x] = deploy[x]
           /\ UNCHANGED <<discovery, registry, watched>>
    BY <1>1, InsertEffect
  <2>1. OwnBatches'
    BY OwnBatchesKept DEF CatalogueInv, OwnBatches
  <2>2. EntriesSettled'
    BY <1>0 DEF CatalogueInv, EntriesSettled, Discovered
  <2>3. AddingSettled'
    BY <1>0 DEF CatalogueInv, AddingSettled, Discovered, Making
  <2>4. NoneForgotten'
    BY <1>0 DEF CatalogueInv, NoneForgotten, OwnBatches, Discovered
  <2>5. WatchedRegistered'
    BY DEF CatalogueInv, WatchedRegistered
  <2> QED BY <2>1, <2>2, <2>3, <2>4, <2>5 DEF CatalogueInv
<1>2. CASE Forget(c)
  <2> PICK ht \in ElementsOf(deploy[c].done) :
           /\ store' = store \ {ht}
           /\ deploy[c].step = "forgetting" /\ deploy'[c].step = "rolling back"
           /\ deploy'[c].by = deploy[c].by /\ deploy'[c].pod = deploy[c].pod
           /\ ElementsOf(deploy'[c].done) \subseteq ElementsOf(deploy[c].done)
           /\ \A h \in ElementsOf(deploy[c].done) : h = ht \/ h \in ElementsOf(deploy'[c].done)
           /\ \A x \in Callers \ {c} : deploy'[x] = deploy[x]
           /\ UNCHANGED <<discovery, registry, watched>>
    BY <1>2, ForgetEffect
  <2>0. ht.by = deploy[c].by /\ ht.pod = deploy[c].pod
    BY DEF CatalogueInv, OwnBatches
  <2>1. OwnBatches'
    BY OwnBatchesKept DEF CatalogueInv, OwnBatches
  <2>2. EntriesSettled'
    <3> SUFFICES ASSUME NEW h \in DOMAIN registry
                 PROVE  /\ h \in store'
                        /\ h.by = discovery.cycle /\ discovery.pc = "deploying" =>
                             h.pod # deploy'["discovery"].pod
      BY DEF CatalogueInv, EntriesSettled, Discovered
    <3>1. /\ h \in store /\ h.by \in Cycles
          /\ h.by = discovery.cycle /\ discovery.pc = "deploying" => h.pod # Discovered.pod
      BY DEF CatalogueInv, EntriesSettled
    <3>2. deploy'["discovery"].pod = deploy["discovery"].pod
      BY <1>0
    <3>3. h # ht
      BY <1>0, <2>0, <3>1 DEF CatalogueInv, OwnBatches, Discovered
    <3> QED BY <3>1, <3>2, <3>3 DEF Discovered
  <2>3. AddingSettled'
    <3>1. CASE c = "discovery"
      <4>1. discovery.pc = "deploying" /\ discovery.adding = <<>>
        BY <1>0, <3>1 DEF CatalogueInv, OwnBatches, Discovered, DiscoveryTypes
      <4>2. ElementsOf(discovery.adding) = {}
        BY <4>1, NoElements
      <4> QED BY <3>1, <4>1, <4>2 DEF AddingSettled, Discovered, Making
    <3>2. CASE c \in Accesses
      <4>1. ht.by = c /\ c \notin Cycles
        BY <1>0, <2>0, <3>2 DEF CatalogueInv, OwnBatches
      <4>2. Discovered' = Discovered
        BY <1>0, <3>2 DEF Discovered
      <4>3. \A h \in ElementsOf(discovery.adding) : h \in store'
        BY <1>0, <4>1 DEF CatalogueInv, AddingSettled
      <4>4. Discovered.step \in Making => ElementsOf(Discovered.done) \subseteq store'
        <5> SUFFICES ASSUME Discovered.step \in Making,
                            NEW h \in ElementsOf(Discovered.done)
                     PROVE  h \in store'
          OBVIOUS
        <5>1. h.by = discovery.cycle /\ h \in store
          BY <1>0 DEF CatalogueInv, AddingSettled, OwnBatches, Discovered, Making
        <5> QED BY <1>0, <4>1, <5>1
      <4> QED BY <4>2, <4>3, <4>4 DEF CatalogueInv, AddingSettled
    <3> QED BY <1>0, <3>1, <3>2
  <2>4. NoneForgotten'
    BY <1>0 DEF CatalogueInv, NoneForgotten, OwnBatches, Discovered
  <2>5. WatchedRegistered'
    BY DEF CatalogueInv, WatchedRegistered
  <2> QED BY <2>1, <2>2, <2>3, <2>4, <2>5 DEF CatalogueInv
<1>3. CASE Turn(c)
  <2>1. /\ deploy'[c].step # "idle" /\ deploy[c].step # "idle"
        /\ deploy'[c].by = deploy[c].by /\ deploy'[c].pod = deploy[c].pod
        /\ deploy'[c].done = deploy[c].done
        /\ deploy'[c].step \in Making => deploy[c].step \in Making
        /\ \A x \in Callers \ {c} : deploy'[x] = deploy[x]
        /\ UNCHANGED <<discovery, registry, watched, store>>
    BY <1>3, TurnEffect DEF catalogue, Making
  <2>2. OwnBatches'
    BY <2>1, OwnBatchesKept DEF CatalogueInv, OwnBatches
  <2>3. /\ Discovered'.pod = Discovered.pod /\ Discovered'.done = Discovered.done
        /\ Discovered'.step \in Making => Discovered.step \in Making
    BY <1>0, <2>1 DEF Discovered
  <2> QED BY <1>0, <2>1, <2>2, <2>3 DEF CatalogueInv, EntriesSettled, AddingSettled,
        NoneForgotten, WatchedRegistered
<1> QED BY <1>1, <1>2, <1>3 DEF Deploying, Turn

(* A reactive deployment has no part in the catalogue. *)
LEMMA ReactiveKeepsCatalogue ==
  ASSUME AgentTypes, CatalogueInv, NEW a \in Accesses,
         DeployHoneytokens(a) \/ HoneytokensDeployed(a)
  PROVE  CatalogueInv'
<1>0. a \in Callers /\ a # "discovery" /\ "discovery" \in Callers
  BY AgentAssumption DEF Callers
<1>1. UNCHANGED <<store, discovery, registry, watched>>
  BY DEF DeployHoneytokens, HoneytokensDeployed, deployer, catalogue
<1>2. /\ \/ deploy'[a].step = "idle"
         \/ deploy'[a].by = a /\ deploy'[a].done = <<>>
      /\ \A x \in Callers \ {a} : deploy'[x] = deploy[x]
  BY <1>0 DEF AgentTypes, DeployTypes, DeployHoneytokens, HoneytokensDeployed, Deployment,
    NotDeploying
<1>3. Discovered' = Discovered
  BY <1>0, <1>2 DEF Discovered
<1>4. OwnBatches'
  <2>1. \A x \in Accesses : deploy'[x].step # "idle" => deploy'[x].by = x
    BY <1>2 DEF CatalogueInv, OwnBatches, Callers
  <2>2. ASSUME NEW x \in Callers, deploy'[x].step # "idle",
               NEW h \in ElementsOf(deploy'[x].done)
        PROVE  h.by = deploy'[x].by /\ h.pod = deploy'[x].pod
    <3>1. CASE x = a
      BY <1>2, <2>2, <3>1, NoElements
    <3>2. CASE x # a
      BY <1>2, <2>2, <3>2 DEF CatalogueInv, OwnBatches
    <3> QED BY <3>1, <3>2
  <2> QED BY <1>1, <1>3, <2>1, <2>2 DEF CatalogueInv, OwnBatches
<1> QED BY <1>1, <1>3, <1>4 DEF CatalogueInv, EntriesSettled, AddingSettled, NoneForgotten,
      WatchedRegistered

(* A step of the discovery goroutine that leaves its deployment alone and    *)
(* neither enters nor leaves the state of waiting for one keeps the batches. *)
LEMMA OwnBatchesFrame ==
  ASSUME OwnBatches, UNCHANGED deploy, discovery.pc # "deploying", discovery'.pc # "deploying"
  PROVE  OwnBatches'
BY DEF OwnBatches, Discovered

(* The steps of the discovery goroutine between deployments. *)
LEMMA DiscoveryKeepsCatalogue ==
  ASSUME AgentTypes, CatalogueInv,
         \/ \E found \in SUBSET Pods : Discover(found)
         \/ Register \/ RegisterPath \/ LogDiscovery \/ DiscoveryEnds \/ NextCycle
  PROVE  CatalogueInv'
<1> USE DEF AgentTypes
<1>0. /\ discovery \in Discoveries /\ discovery.cycle \in Cycles
      /\ discovery.cycle \in Nat /\ \A by \in Cycles : by \in Nat
  BY DEF DiscoveryTypes, Discoveries, Cycles
<1>1. ASSUME NEW found \in SUBSET Pods, Discover(found) PROVE CatalogueInv'
  <2>1. /\ discovery.pc = "querying" /\ discovery'.pc \in {"waiting", "serving"}
        /\ discovery'.cycle = discovery.cycle /\ discovery'.adding = discovery.adding
        /\ UNCHANGED <<deploy, store, registry, watched>>
    BY <1>0, <1>1 DEF Discover, AtDiscovery, Discoveries, deployer, catalogue
  <2>2. discovery.adding = <<>>
    BY <2>1 DEF DiscoveryTypes
  <2>3. OwnBatches'
    BY <2>1, OwnBatchesFrame DEF CatalogueInv
  <2>4. EntriesSettled'
    BY <2>1 DEF CatalogueInv, EntriesSettled
  <2>5. AddingSettled'
    BY <2>1, <2>2, NoElements DEF CatalogueInv, AddingSettled, Discovered
  <2>6. NoneForgotten' /\ WatchedRegistered'
    BY <2>1 DEF CatalogueInv, NoneForgotten, WatchedRegistered
  <2> QED BY <2>3, <2>4, <2>5, <2>6 DEF CatalogueInv
<1>2. CASE Register
  <2> DEFINE ht == Head(discovery.adding)
  <2>1. /\ discovery.pc = "registering" /\ discovery'.pc = "watching"
        /\ discovery'.cycle = discovery.cycle /\ discovery'.adding = discovery.adding
        /\ discovery'.todo = discovery.todo
        /\ DOMAIN registry' = DOMAIN registry \cup {ht}
        /\ UNCHANGED <<deploy, store, watched>>
    BY <1>0, <1>2 DEF Register, AtDiscovery, Discoveries, deployer
  <2>2. ht \in ElementsOf(discovery.adding)
    BY <1>0, <2>1, TailElements DEF DiscoveryTypes, Discoveries
  <2> HIDE DEF ht
  <2>3. ht \in store /\ ht.by = discovery.cycle /\ ht.pod \notin discovery.todo
    BY <2>2 DEF CatalogueInv, AddingSettled
  <2>4. OwnBatches'
    BY <2>1, OwnBatchesFrame DEF CatalogueInv
  <2>5. EntriesSettled'
    BY <1>0, <2>1, <2>3 DEF CatalogueInv, EntriesSettled
  <2>6. AddingSettled'
    BY <2>1 DEF CatalogueInv, AddingSettled, Discovered, ht
  <2>7. NoneForgotten' /\ WatchedRegistered'
    BY <2>1 DEF CatalogueInv, NoneForgotten, WatchedRegistered
  <2> QED BY <2>4, <2>5, <2>6, <2>7 DEF CatalogueInv
<1>3. CASE RegisterPath
  <2> DEFINE ht   == Head(discovery.adding)
             rest == Tail(discovery.adding)
  <2>1. /\ discovery.pc = "watching" /\ discovery'.pc \in {"serving", "registering"}
        /\ discovery'.cycle = discovery.cycle /\ discovery'.adding = rest
        /\ discovery'.todo = discovery.todo /\ watched' = watched \cup {ht.path}
        /\ UNCHANGED <<deploy, store, registry>>
    BY <1>0, <1>3 DEF RegisterPath, AtDiscovery, Discoveries, deployer
  <2>2. /\ ElementsOf(rest) \subseteq ElementsOf(discovery.adding)
        /\ \A h \in ElementsOf(discovery.adding) : h = ht \/ h \in ElementsOf(rest)
    BY <1>0, <2>1, TailElements DEF DiscoveryTypes, Discoveries
  <2> HIDE DEF ht, rest
  <2>3. ht \in DOMAIN registry
    BY <2>1 DEF CatalogueInv, AddingSettled, ht
  <2>4. OwnBatches'
    BY <2>1, OwnBatchesFrame DEF CatalogueInv
  <2>5. EntriesSettled'
    BY <2>1 DEF CatalogueInv, EntriesSettled
  <2>6. AddingSettled'
    BY <2>1, <2>2 DEF CatalogueInv, AddingSettled, Discovered
  <2>7. NoneForgotten'
    BY <2>1, <2>2, <2>3 DEF CatalogueInv, NoneForgotten
  <2>8. WatchedRegistered'
    BY <2>1, <2>3 DEF CatalogueInv, WatchedRegistered
  <2> QED BY <2>4, <2>5, <2>6, <2>7, <2>8 DEF CatalogueInv
<1>4. CASE LogDiscovery \/ DiscoveryEnds
  <2>1. /\ discovery.pc \in {"serving", "waiting"} /\ discovery'.pc \in {"waiting", "ended"}
        /\ discovery'.cycle = discovery.cycle /\ discovery'.adding = discovery.adding
        /\ discovery'.todo = discovery.todo
        /\ UNCHANGED <<deploy, store, registry, watched>>
    BY <1>0, <1>4 DEF LogDiscovery, DiscoveryEnds, AtDiscovery, Discoveries, deployer, catalogue
  <2>2. OwnBatches'
    BY <2>1, OwnBatchesFrame DEF CatalogueInv
  <2> QED BY <2>1, <2>2 DEF CatalogueInv, EntriesSettled, AddingSettled, NoneForgotten,
        WatchedRegistered, Discovered
<1>5. CASE NextCycle
  <2>1. /\ discovery.pc = "waiting" /\ discovery'.pc = "querying"
        /\ discovery'.cycle = discovery.cycle + 1 /\ discovery'.adding = discovery.adding
        /\ UNCHANGED <<deploy, store, registry, watched>>
    BY <1>0, <1>5 DEF NextCycle, AtDiscovery, Discoveries, deployer, catalogue
  <2>2. discovery.adding = <<>>
    BY <2>1 DEF DiscoveryTypes
  <2>3. OwnBatches'
    BY <2>1, OwnBatchesFrame DEF CatalogueInv
  <2>4. EntriesSettled'
    <3> SUFFICES ASSUME NEW h \in DOMAIN registry
                 PROVE  /\ h \in store /\ h.by \in Cycles /\ h.by <= discovery.cycle + 1
                        /\ h.by # discovery.cycle + 1
      BY <2>1 DEF EntriesSettled
    <3>1. h \in store /\ h.by \in Cycles /\ h.by <= discovery.cycle
      BY DEF CatalogueInv, EntriesSettled
    <3> QED BY <1>0, <3>1
  <2>5. AddingSettled'
    BY <2>1, <2>2, NoElements DEF CatalogueInv, AddingSettled, Discovered
  <2>6. NoneForgotten' /\ WatchedRegistered'
    BY <2>1 DEF CatalogueInv, NoneForgotten, WatchedRegistered
  <2> QED BY <2>3, <2>4, <2>5, <2>6 DEF CatalogueInv
<1> QED BY <1>1, <1>2, <1>3, <1>4, <1>5

(* A pod is served: its deployment starts empty, for a pod no entry is for. *)
LEMMA ServePodKeepsCatalogue ==
  ASSUME AgentTypes, CatalogueInv, NEW p \in Pods, ServePod(p)
  PROVE  CatalogueInv'
<1> USE DEF AgentTypes
<1>0. discovery \in Discoveries /\ "discovery" \in Callers /\ "discovery" \notin Accesses
  BY AgentAssumption DEF DiscoveryTypes, Callers
<1>1. /\ discovery.pc = "serving" /\ discovery'.pc = "deploying" /\ p \in discovery.todo
      /\ discovery'.cycle = discovery.cycle /\ discovery'.adding = discovery.adding
      /\ discovery'.todo = discovery.todo \ {p}
      /\ UNCHANGED <<store, registry, watched>>
  BY <1>0 DEF ServePod, AtDiscovery, Discoveries, deployer, catalogue
<1>2. /\ Discovered'.step = "creating" /\ Discovered'.by = discovery.cycle
      /\ Discovered'.pod = p /\ Discovered'.done = <<>>
      /\ \A x \in Callers \ {"discovery"} : deploy'[x] = deploy[x]
  BY <1>0 DEF ServePod, DeployTypes, Deployment, Discovered
<1>3. discovery.adding = <<>> /\ ElementsOf(Discovered'.done) = {}
  BY <1>1, <1>2, NoElements DEF DiscoveryTypes
<1>4. OwnBatches'
  <2>1. \A x \in Accesses : deploy'[x].step # "idle" => deploy'[x].by = x
    BY <1>0, <1>2 DEF CatalogueInv, OwnBatches, Callers
  <2>2. ASSUME NEW x \in Callers, deploy'[x].step # "idle",
               NEW h \in ElementsOf(deploy'[x].done)
        PROVE  h.by = deploy'[x].by /\ h.pod = deploy'[x].pod
    <3>1. CASE x = "discovery"
      BY <1>3, <2>2, <3>1 DEF Discovered
    <3>2. CASE x # "discovery"
      BY <1>2, <2>2, <3>2 DEF CatalogueInv, OwnBatches
    <3> QED BY <3>1, <3>2
  <2> QED BY <1>1, <1>2, <2>1, <2>2 DEF OwnBatches
<1>5. EntriesSettled'
  BY <1>1, <1>2 DEF CatalogueInv, EntriesSettled
<1>6. AddingSettled'
  BY <1>1, <1>3, NoElements DEF CatalogueInv, AddingSettled, Making
<1>7. NoneForgotten' /\ WatchedRegistered'
  BY <1>1 DEF CatalogueInv, NoneForgotten, WatchedRegistered
<1> QED BY <1>4, <1>5, <1>6, <1>7 DEF CatalogueInv

(* A deployment is collected: a success hands its batch on, a failure has   *)
(* nothing left in the store.                                               *)
LEMMA PodDeployedKeepsCatalogue ==
  ASSUME AgentTypes, CatalogueInv, PodDeployed
  PROVE  CatalogueInv'
<1> USE DEF AgentTypes
<1>0. discovery \in Discoveries /\ "discovery" \in Callers /\ "discovery" \notin Accesses
  BY AgentAssumption DEF DiscoveryTypes, Callers
<1>1. /\ discovery.pc = "deploying" /\ discovery.adding = <<>>
      /\ discovery'.cycle = discovery.cycle /\ discovery'.todo = discovery.todo
      /\ UNCHANGED <<store, registry, watched>>
  BY <1>0 DEF PodDeployed, AtDiscovery, DiscoveryTypes, Discoveries, deployer, catalogue
<1>2. \/ /\ Discovered.step = "creating"
         /\ discovery'.pc = "registering" /\ discovery'.adding = Discovered.done
      \/ /\ Discovered.done = <<>>
         /\ discovery'.pc = "serving" /\ discovery'.adding = <<>>
  BY <1>0, <1>1 DEF PodDeployed, Succeeded, Failed, Discovered, Discoveries
<1>3. /\ Discovered'.step = "idle"
      /\ \A x \in Callers \ {"discovery"} : deploy'[x] = deploy[x]
  BY <1>0 DEF PodDeployed, DeployTypes, NotDeploying, Discovered
<1>4. \A h \in ElementsOf(Discovered.done) : h.by = discovery.cycle /\ h.pod \notin discovery.todo
  BY <1>0, <1>1 DEF CatalogueInv, OwnBatches, Discovered
<1>5. OwnBatches'
  <2>1. \A x \in Accesses : deploy'[x].step # "idle" => deploy'[x].by = x
    BY <1>0, <1>3 DEF CatalogueInv, OwnBatches, Callers
  <2>2. ASSUME NEW x \in Callers, deploy'[x].step # "idle",
               NEW h \in ElementsOf(deploy'[x].done)
        PROVE  h.by = deploy'[x].by /\ h.pod = deploy'[x].pod
    <3>1. x # "discovery"
      BY <1>3, <2>2 DEF Discovered
    <3> QED BY <1>3, <2>2, <3>1 DEF CatalogueInv, OwnBatches
  <2> QED BY <1>2, <1>3, <2>1, <2>2 DEF OwnBatches
<1>6. EntriesSettled'
  BY <1>1, <1>2 DEF CatalogueInv, EntriesSettled
<1>7. AddingSettled'
  BY <1>1, <1>2, <1>3, <1>4, NoElements DEF CatalogueInv, AddingSettled, Making
<1>8. NoneForgotten'
  BY <1>1, <1>2, NoElements DEF CatalogueInv, NoneForgotten
<1>9. WatchedRegistered'
  BY <1>1 DEF CatalogueInv, WatchedRegistered
<1> QED BY <1>5, <1>6, <1>7, <1>8, <1>9 DEF CatalogueInv

(* Every step keeps the catalogue. *)
LEMMA CatalogueStep ==
  ASSUME AgentTypes, CatalogueInv, [Next]_vars PROVE CatalogueInv'
<1>1. ASSUME UNCHANGED <<discovery, watched, store, deploy>>, DOMAIN registry' = DOMAIN registry
      PROVE  CatalogueInv'
  BY <1>1 DEF CatalogueInv, OwnBatches, EntriesSettled, AddingSettled, NoneForgotten,
    WatchedRegistered, Discovered
<1>2. CASE DeployStep
  BY <1>2, DeployingKeepsCatalogue, ServePodKeepsCatalogue, PodDeployedKeepsCatalogue,
    ReactiveKeepsCatalogue DEF DeployStep
<1>3. CASE UNCHANGED <<deployer, deploy>> /\ UNCHANGED <<discovery, catalogue>>
  BY <1>1, <1>3 DEF deployer, catalogue
<1>4. CASE UNCHANGED <<deployer, deploy>> /\ ~DeployStep /\ DiscoveryStep
  <2>1. ASSUME NEW a \in Accesses, MarkTriggered(a) PROVE CatalogueInv'
    <3>1. UNCHANGED <<discovery, watched>> /\ DOMAIN registry' = DOMAIN registry
      BY <2>1 DEF MarkTriggered
    <3> QED BY <1>1, <1>4, <3>1 DEF deployer
  <2> QED BY <1>4, <2>1, DiscoveryKeepsCatalogue DEF DiscoveryStep, DeployStep, Discovering
<1> QED BY <1>2, <1>3, <1>4, DeployFrame, DiscoveryFrame

(* However deployments, rollbacks, discovery cycles and triggers interleave, *)
(* a watched path belongs to a registered honeytoken, a registered one is    *)
(* deployed, and between cycles every deployed honeytoken of a cycle is      *)
(* registered and watched (agent.go executeDiscovery, deployer.go Deploy).   *)
THEOREM CatalogueIsConsistent == Spec => []CatalogueConsistent
<1>1. AgentTypes /\ CatalogueInv => CatalogueConsistent
  <2> SUFFICES ASSUME AgentTypes, CatalogueInv PROVE CatalogueConsistent
    OBVIOUS
  <2>1. DOMAIN registry \subseteq store
    BY DEF CatalogueInv, EntriesSettled
  <2>2. ASSUME discovery.pc \in {"waiting", "querying", "ended"}, NEW h \in store, h.by \in Cycles
        PROVE  h \in DOMAIN registry /\ h.path \in watched
    <3>1. discovery.adding = <<>>
      BY <2>2 DEF AgentTypes, DiscoveryTypes
    <3> QED BY <2>2, <3>1, NoElements DEF CatalogueInv, NoneForgotten
  <2> QED BY <2>1, <2>2 DEF CatalogueConsistent, CatalogueInv, WatchedRegistered
<1>2. AgentTypes /\ CatalogueInv /\ [Next]_vars => CatalogueInv'
  BY CatalogueStep
<1> QED BY <1>1, <1>2, CatalogueInit, TypesInvariant, PTL DEF Spec
-----------------------------------------------------------------------------
(* What a workflow does next, in terms of its record before and after.  The  *)
(* operators are over records, so that facts about them carry over from the  *)
(* state before a step to the state after it.                                *)

Past(w) == ~(w.pc \in {"undetected", "assessing", "marking"})
SameAccess(w, n) ==
  n.pod = w.pod /\ n.path = w.path /\ n.known = w.known /\ n.full = w.full
Kept(w, n) == n.level = w.level /\ n.todo = w.todo /\ n.failed = w.failed
(* the first action of the plan is over, for better or worse *)
Over(w, n, failed) ==
  /\ w.todo # <<>> /\ n.pc = "responding" /\ n.level = w.level
  /\ n.todo = Tail(w.todo) /\ n.failed = w.failed \cup failed

WorkflowMove(a, w, n) ==
  /\ SameAccess(w, n)
  /\ \/ /\ w.pc = "assessing" /\ n.pc = "marking"
        /\ n.todo = w.todo /\ n.failed = w.failed
     \/ /\ MarkTriggered(a) /\ w.pc = "marking" /\ n.pc = "responding"
        /\ n.level = w.level /\ n.todo = PlanActions(w.level) /\ n.failed = w.failed
     \/ /\ w.pc \in {"responding", "retrying"} /\ n.pc \in {"responding", "retrying"}
        /\ Kept(w, n)
     \/ /\ DeployHoneytokens(a) /\ w.pc = "responding" /\ n.pc = "deploying"
        /\ w.todo # <<>> /\ Head(w.todo) = "additional_honeytokens" /\ Kept(w, n)
     \/ /\ HoneytokensDeployed(a) /\ w.pc = "deploying" /\ Over(w, n, {})
     \/ /\ ActionSucceeds(a, Head(w.todo)) /\ w.pc = "responding" /\ Over(w, n, {})
     \/ /\ ActionExhausted(a, Head(w.todo)) /\ w.pc = "responding"
        /\ Over(w, n, {Head(w.todo)})
     \/ /\ ctx = "done" /\ w.pc = "retrying" /\ Over(w, n, {Head(w.todo)})
     \/ /\ w.pc = "responding" /\ w.todo = <<>> /\ n.pc = "logging" /\ Kept(w, n)
     \/ /\ LogWorkflow(a) /\ w.pc = "logging" /\ n.pc = "done" /\ Kept(w, n)

(* NextAction ends the first action of the plan. *)
LEMMA NextActionOver ==
  ASSUME WorkflowTypes, NEW a \in Accesses, NEW failed, workflow[a].todo # <<>>,
         NextAction(a, failed)
  PROVE  /\ SameAccess(workflow[a], workflow'[a])
         /\ Over(workflow[a], workflow'[a], failed)
         /\ \A x \in Accesses \ {a} : workflow'[x] = workflow[x]
<1>1. workflow \in [Accesses -> Workflows]
  BY DEF WorkflowTypes
<1>2. workflow' = [workflow EXCEPT ![a].pc = "responding", ![a].todo = Tail(workflow[a].todo),
                     ![a].attempt = 0, ![a].failed = workflow[a].failed \cup failed]
  BY DEF NextAction
<1> DEFINE rest == Tail(workflow[a].todo)
           total == workflow[a].failed \cup failed
<1>3. workflow' = [workflow EXCEPT ![a].pc = "responding", ![a].todo = rest,
                     ![a].attempt = 0, ![a].failed = total]
  BY <1>2
<1> HIDE DEF rest, total
<1>4. /\ workflow'[a].pc = "responding" /\ workflow'[a].level = workflow[a].level
      /\ workflow'[a].todo = rest /\ workflow'[a].failed = total
      /\ workflow'[a].pod = workflow[a].pod /\ workflow'[a].path = workflow[a].path
      /\ workflow'[a].known = workflow[a].known /\ workflow'[a].full = workflow[a].full
      /\ \A x \in Accesses \ {a} : workflow'[x] = workflow[x]
  BY <1>1, <1>3 DEF Workflows
<1> QED BY <1>4 DEF SameAccess, Over, rest, total

(* Every step of a workflow is one of these moves. *)
LEMMA WorkingEffect ==
  ASSUME AgentTypes, NEW a \in Accesses, Working(a)
  PROVE  /\ WorkflowMove(a, workflow[a], workflow'[a])
         /\ \A x \in Accesses \ {a} : workflow'[x] = workflow[x]
<1> USE DEF AgentTypes
<1> DEFINE Goal == /\ WorkflowMove(a, workflow[a], workflow'[a])
                   /\ \A x \in Accesses \ {a} : workflow'[x] = workflow[x]
<1>0. workflow \in [Accesses -> Workflows]
  BY DEF WorkflowTypes
<1>1. ASSUME NEW level \in Assessments(Contexts), Assess(a, level) PROVE Goal
  BY <1>0, <1>1 DEF Assess, AtWorkflow, Workflows, WorkflowMove, SameAccess
<1>2. CASE MarkTriggered(a)
  <2> DEFINE plan == PlanActions(workflow[a].level)
  <2>1. workflow[a].pc = "marking"
        /\ workflow' = [workflow EXCEPT ![a].pc = "responding", ![a].todo = plan]
    BY <1>2 DEF MarkTriggered, AtWorkflow
  <2> HIDE DEF plan
  <2>2. /\ SameAccess(workflow[a], workflow'[a]) /\ workflow'[a].pc = "responding"
        /\ workflow'[a].level = workflow[a].level /\ workflow'[a].todo = plan
        /\ workflow'[a].failed = workflow[a].failed
        /\ \A x \in Accesses \ {a} : workflow'[x] = workflow[x]
    BY <1>0, <2>1 DEF Workflows, SameAccess
  <2> QED BY <1>2, <2>1, <2>2 DEF WorkflowMove, plan
<1>3. ASSUME NEW action \in Retried, ActionSucceeds(a, action) PROVE Goal
  <2>1. /\ workflow[a].pc = "responding" /\ workflow[a].todo # <<>>
        /\ Head(workflow[a].todo) = action /\ NextAction(a, {})
    BY <1>3 DEF ActionSucceeds, Responding, AtWorkflow
  <2>2. /\ SameAccess(workflow[a], workflow'[a]) /\ Over(workflow[a], workflow'[a], {})
        /\ \A x \in Accesses \ {a} : workflow'[x] = workflow[x]
    BY <2>1, NextActionOver
  <2> QED BY <1>3, <2>1, <2>2 DEF WorkflowMove
<1>4. ASSUME NEW action \in Retried, ActionFails(a, action) PROVE Goal
  BY <1>0, <1>4 DEF ActionFails, Responding, AtWorkflow, Workflows, WorkflowMove, SameAccess, Kept
<1>5. ASSUME NEW action \in Retried, ActionExhausted(a, action) PROVE Goal
  <2>1. /\ workflow[a].pc = "responding" /\ workflow[a].todo # <<>>
        /\ Head(workflow[a].todo) = action /\ NextAction(a, {action})
    BY <1>5 DEF ActionExhausted, Responding, AtWorkflow
  <2>2. /\ SameAccess(workflow[a], workflow'[a]) /\ Over(workflow[a], workflow'[a], {action})
        /\ \A x \in Accesses \ {a} : workflow'[x] = workflow[x]
    BY <2>1, NextActionOver
  <2> QED BY <1>5, <2>1, <2>2 DEF WorkflowMove
<1>6. CASE RetryAction(a)
  BY <1>0, <1>6 DEF RetryAction, AtWorkflow, Workflows, WorkflowMove, SameAccess, Kept
<1>7. CASE AbandonAction(a)
  <2>1. /\ workflow[a].pc = "retrying" /\ workflow[a].todo # <<>> /\ ctx = "done"
        /\ NextAction(a, {Head(workflow[a].todo)})
    BY <1>7 DEF AbandonAction, AtWorkflow, WorkflowTypes
  <2>2. /\ SameAccess(workflow[a], workflow'[a])
        /\ Over(workflow[a], workflow'[a], {Head(workflow[a].todo)})
        /\ \A x \in Accesses \ {a} : workflow'[x] = workflow[x]
    BY <2>1, NextActionOver
  <2> QED BY <2>1, <2>2 DEF WorkflowMove
<1>8. CASE DeployHoneytokens(a)
  <2>1. /\ workflow[a].pc = "responding" /\ workflow[a].todo # <<>>
        /\ Head(workflow[a].todo) = "additional_honeytokens"
        /\ workflow' = [workflow EXCEPT ![a].pc = "deploying"]
    BY <1>8 DEF DeployHoneytokens, Responding, AtWorkflow
  <2>2. /\ SameAccess(workflow[a], workflow'[a]) /\ Kept(workflow[a], workflow'[a])
        /\ workflow'[a].pc = "deploying"
        /\ \A x \in Accesses \ {a} : workflow'[x] = workflow[x]
    BY <1>0, <2>1 DEF Workflows, SameAccess, Kept
  <2> QED BY <1>8, <2>1, <2>2 DEF WorkflowMove
<1>9. CASE HoneytokensDeployed(a)
  <2>1. workflow[a].pc = "deploying" /\ workflow[a].todo # <<>> /\ NextAction(a, {})
    BY <1>9 DEF HoneytokensDeployed, AtWorkflow, WorkflowTypes
  <2>2. /\ SameAccess(workflow[a], workflow'[a]) /\ Over(workflow[a], workflow'[a], {})
        /\ \A x \in Accesses \ {a} : workflow'[x] = workflow[x]
    BY <2>1, NextActionOver
  <2> QED BY <1>9, <2>1, <2>2 DEF WorkflowMove
<1>10. CASE Ingest(a)
  BY <1>0, <1>10 DEF Ingest, AtWorkflow, Workflows, WorkflowMove, SameAccess, Kept
<1>11. CASE LogWorkflow(a)
  BY <1>0, <1>11 DEF LogWorkflow, AtWorkflow, Workflows, WorkflowMove, SameAccess, Kept
<1> HIDE DEF Goal
<1> QED
  BY <1>1, <1>2, <1>3, <1>4, <1>5, <1>6, <1>7, <1>8, <1>9, <1>10, <1>11 DEF Working, Goal

-----------------------------------------------------------------------------
(* Who is reached, alerted and stopped *)

Distinct(seq) == \A i, j \in DOMAIN seq : seq[i] = seq[j] => i = j

(* The actions of a plan that its workflow is through with. *)
ThroughRec(w, action) ==
  Past(w) /\ action \in ElementsOf(PlanActions(w.level)) \ ElementsOf(w.todo)

(* A workflow against the pods reached, the accesses alerted on and the state *)
(* of the context: what it is through with reached the pod or failed, and a     *)
(* failed isolation was alerted on or cut short by the end of the context.    *)
ResponseRec(a, w, pods, addresses, alerts, state) ==
  /\ ThroughRec(w, "pod_isolation") => w.pod \in pods \/ "pod_isolation" \in w.failed
  /\ ThroughRec(w, "ip_block") => w.pod \in addresses \/ "ip_block" \in w.failed
  /\ "pod_isolation" \in w.failed => a \in alerts \/ state = "done"
  /\ w.pc \in {"logging", "done"} => w.todo = <<>>
  /\ w.pc = "deploying" => Head(w.todo) = "additional_honeytokens"
  /\ Distinct(w.todo)

ResponseInv ==
  \A a \in Accesses : ResponseRec(a, workflow[a], isolated, blocked, escalated, ctx)

(* A sequence without its head has no element twice if the sequence has none, *)
(* and the head is not among the rest.                                        *)
LEMMA TailDistinct ==
  ASSUME NEW S, NEW s \in Seq(S), s # <<>>, Distinct(s)
  PROVE  Distinct(Tail(s)) /\ Head(s) \notin ElementsOf(Tail(s))
<1>1. Len(s) \in Nat \ {0} /\ DOMAIN s = 1..Len(s)
  BY EmptySeq, LenProperties
<1> DEFINE t == Tail(s)
<1>2. /\ t \in Seq(S) /\ Len(t) = Len(s) - 1
      /\ \A i \in 1..Len(t) : t[i] = s[i + 1]
  BY HeadTailProperties
<1>3. DOMAIN t = 1..Len(t)
  BY <1>2, LenProperties
<1>4. Head(s) = s[1]
  OBVIOUS
<1> HIDE DEF t
<1>5. Distinct(t)
  <2> SUFFICES ASSUME NEW i \in 1..Len(t), NEW j \in 1..Len(t), t[i] = t[j] PROVE i = j
    BY <1>3 DEF Distinct
  <2>1. i + 1 \in DOMAIN s /\ j + 1 \in DOMAIN s /\ s[i + 1] = s[j + 1]
    BY <1>1, <1>2
  <2>2. i + 1 = j + 1
    BY <2>1 DEF Distinct
  <2> QED BY <1>1, <1>2, <2>2
<1>6. Head(s) \notin ElementsOf(t)
  <2> SUFFICES ASSUME NEW i \in 1..Len(t), t[i] = s[1] PROVE FALSE
    BY <1>3, <1>4 DEF ElementsOf
  <2>1. i + 1 \in DOMAIN s /\ 1 \in DOMAIN s /\ s[i + 1] = s[1]
    BY <1>1, <1>2
  <2>2. i + 1 = 1
    BY <2>1 DEF Distinct
  <2> QED BY <1>1, <1>2, <2>2
<1> QED BY <1>5, <1>6 DEF t

(* A plan asks for nothing twice, and from a high level on for an isolation. *)
LEMMA PlanDistinct ==
  ASSUME NEW level \in ThreatLevels
  PROVE  /\ Distinct(PlanActions(level))
         /\ Rank[level] >= Rank["high"] => "pod_isolation" \in ElementsOf(PlanActions(level))
<1>1. CASE level = "low"
  <2>1. PlanActions(level) = <<>> /\ ~(Rank[level] >= Rank["high"])
    BY <1>1 DEF PlanActions, Rank
  <2> QED BY <2>1 DEF Distinct
<1>2. CASE level = "medium"
  <2>1. PlanActions(level) = <<"additional_honeytokens">> /\ ~(Rank[level] >= Rank["high"])
    BY <1>2 DEF PlanActions, Rank
  <2> QED BY <2>1 DEF Distinct
<1>3. CASE level \in {"high", "critical"}
  <2> DEFINE plan == <<"pod_isolation", "ip_block", "additional_honeytokens">>
  <2>1. PlanActions(level) = plan
    BY <1>3 DEF PlanActions
  <2>2. DOMAIN plan = {1, 2, 3} /\ plan[1] = "pod_isolation" /\ plan[2] = "ip_block"
        /\ plan[3] = "additional_honeytokens"
    OBVIOUS
  <2> HIDE DEF plan
  <2>3. Distinct(plan) /\ "pod_isolation" \in ElementsOf(plan)
    BY <2>2 DEF Distinct, ElementsOf
  <2> QED BY <2>1, <2>3
<1> QED BY <1>1, <1>2, <1>3 DEF ThreatLevels

(* Nothing a workflow has achieved is undone. *)
LEMMA ResponseMonotonic ==
  ASSUME NEW a, NEW w, NEW pods, NEW addresses, NEW alerts, NEW state,
         NEW pods2, NEW addresses2, NEW alerts2, NEW state2,
         pods \subseteq pods2, addresses \subseteq addresses2, alerts \subseteq alerts2,
         state = "done" => state2 = "done",
         ResponseRec(a, w, pods, addresses, alerts, state)
  PROVE  ResponseRec(a, w, pods2, addresses2, alerts2, state2)
BY DEF ResponseRec

(* Pods stay isolated and blocked, alerts stay sent, and a context that is *)
(* done stays so.                                                          *)
LEMMA EffectsGrow ==
  ASSUME [Next]_vars
  PROVE  /\ isolated \subseteq isolated' /\ blocked \subseteq blocked'
         /\ escalated \subseteq escalated'
         /\ ctx = "done" => ctx' = "done"
<1> DEFINE Goal == /\ isolated \subseteq isolated' /\ blocked \subseteq blocked'
                   /\ escalated \subseteq escalated'
                   /\ ctx = "done" => ctx' = "done"
<1>1. CASE UNCHANGED vars
  BY <1>1 DEF vars, effects, lifecycle
<1>2. ASSUME NEW c \in Callers, Deploying(c) PROVE Goal
  BY <1>2 DEF Deploying, CreateSecret, Insert, CreateSecretFails, DeleteSecret, Forget, effects, lifecycle
<1>3. CASE Discovering \/ NextCycle
  BY <1>3 DEF Discovering, NextCycle, Discover, ServePod, PodDeployed, Register,
    RegisterPath, LogDiscovery, DiscoveryEnds, effects, lifecycle
<1>4. ASSUME NEW a \in Accesses, NEW pod \in Pods, NEW path \in Paths, NEW full \in BOOLEAN,
             Detect(a, pod, path, full)
      PROVE  Goal
  BY <1>4 DEF Detect, effects, lifecycle
<1>5. ASSUME NEW a \in Accesses, Working(a) PROVE Goal
  <2>1. ASSUME NEW action \in Retried,
               ActionSucceeds(a, action) \/ ActionFails(a, action) \/ ActionExhausted(a, action)
        PROVE  Goal
    BY <2>1 DEF ActionSucceeds, ActionFails, ActionExhausted, effects, lifecycle
  <2> QED BY <1>5, <2>1 DEF Working, Assess, MarkTriggered, RetryAction, AbandonAction,
        DeployHoneytokens, HoneytokensDeployed, Ingest, LogWorkflow, effects, lifecycle
<1>6. CASE ShouldRetrain \/ Retraining
  BY <1>6 DEF ShouldRetrain, Retraining, TriggerRetraining, LogModel, SchedulerEnds,
    effects, lifecycle
<1>7. CASE ContextEnds \/ Cancel \/ StopReturns
  BY <1>7 DEF ContextEnds, Cancel, StopReturns, effects
<1> QED BY <1>1, <1>2, <1>3, <1>4, <1>5, <1>6, <1>7 DEF Next, Goal

(* A workflow whose first action is over: what was open before it and is   *)
(* through now is that action.                                             *)
LEMMA OverThrough ==
  ASSUME NEW w \in Workflows, NEW n \in Workflows, NEW failed, Over(w, n, failed), Past(w),
         NEW action, ThroughRec(n, action)
  PROVE  ThroughRec(w, action) \/ action = Head(w.todo)
<1>1. w.todo \in Seq(Actions) /\ w.todo # <<>> /\ n.todo = Tail(w.todo) /\ n.level = w.level
  BY DEF Workflows, Over
<1>2. \A x \in ElementsOf(w.todo) : x = Head(w.todo) \/ x \in ElementsOf(Tail(w.todo))
  BY <1>1, TailElements
<1> QED BY <1>1, <1>2 DEF ThroughRec

(* Every move of a workflow keeps what is known of its response. *)
LEMMA ResponseMove ==
  ASSUME AgentTypes, NEW a \in Accesses, Working(a), AgentTypes',
         isolated \subseteq isolated', blocked \subseteq blocked',
         escalated \subseteq escalated', ctx = "done" => ctx' = "done",
         ResponseRec(a, workflow[a], isolated, blocked, escalated, ctx)
  PROVE  ResponseRec(a, workflow'[a], isolated', blocked', escalated', ctx')
<1> DEFINE w == workflow[a]
           n == workflow'[a]
<1>1. w \in Workflows /\ n \in Workflows
  BY DEF AgentTypes, WorkflowTypes
<1>2. WorkflowMove(a, w, n)
  BY WorkingEffect
<1>3. ResponseRec(a, w, isolated', blocked', escalated', ctx')
  BY ResponseMonotonic
<1> HIDE DEF w, n
<1>4. n.pod = w.pod
  BY <1>2 DEF WorkflowMove, SameAccess
<1>5. CASE w.pc = "assessing" /\ n.pc = "marking" /\ n.todo = w.todo /\ n.failed = w.failed
  BY <1>3, <1>4, <1>5 DEF ResponseRec, ThroughRec, Past, n
<1>6. CASE /\ n.pc = "responding" /\ n.level = w.level
           /\ n.todo = PlanActions(w.level) /\ n.failed = w.failed
  <2>1. Distinct(n.todo) /\ \A action : ~ThroughRec(n, action)
    BY <1>1, <1>6, PlanDistinct DEF ThroughRec, Workflows
  <2> QED BY <1>3, <1>6, <2>1 DEF ResponseRec, n
<1>7. CASE /\ Kept(w, n) /\ Past(w)
           /\ n.pc = "deploying" => Head(w.todo) = "additional_honeytokens"
           /\ n.pc \in {"logging", "done"} => w.todo = <<>>
  <2>1. \A action : ThroughRec(n, action) => ThroughRec(w, action)
    BY <1>7 DEF ThroughRec, Kept
  <2> QED BY <1>3, <1>4, <1>7, <2>1 DEF ResponseRec, Kept, n
<1>8. ASSUME NEW failed, Over(w, n, failed), Past(w),
             failed \subseteq {Head(w.todo)},
             Head(w.todo) = "pod_isolation" =>
               /\ w.pod \in isolated' \/ "pod_isolation" \in failed
               /\ "pod_isolation" \in failed => a \in escalated' \/ ctx' = "done",
             Head(w.todo) = "ip_block" => w.pod \in blocked' \/ "ip_block" \in failed
      PROVE  ResponseRec(a, n, isolated', blocked', escalated', ctx')
  <2>1. \A action : ThroughRec(n, action) => ThroughRec(w, action) \/ action = Head(w.todo)
    BY <1>1, <1>8, OverThrough
  <2>2. n.pc = "responding" /\ n.failed = w.failed \cup failed /\ n.todo = Tail(w.todo)
    BY <1>8 DEF Over
  <2>3. Distinct(n.todo)
    BY <1>1, <1>3, <1>8, <2>2, TailDistinct DEF Over, Workflows, ResponseRec
  <2>4. ThroughRec(n, "pod_isolation") => n.pod \in isolated' \/ "pod_isolation" \in n.failed
    BY <1>3, <1>4, <1>8, <2>1, <2>2 DEF ResponseRec
  <2>5. ThroughRec(n, "ip_block") => n.pod \in blocked' \/ "ip_block" \in n.failed
    BY <1>3, <1>4, <1>8, <2>1, <2>2 DEF ResponseRec
  <2>6. "pod_isolation" \in n.failed => a \in escalated' \/ ctx' = "done"
    BY <1>3, <1>8, <2>2 DEF ResponseRec
  <2> QED BY <2>2, <2>3, <2>4, <2>5, <2>6 DEF ResponseRec
<1>9. CASE HoneytokensDeployed(a) /\ w.pc = "deploying" /\ Over(w, n, {})
  <2>1. Head(w.todo) = "additional_honeytokens" /\ Past(w)
    BY <1>3, <1>9 DEF ResponseRec, Past
  <2> QED BY <1>8, <1>9, <2>1 DEF n
<1>10. CASE ActionSucceeds(a, Head(w.todo)) /\ w.pc = "responding" /\ Over(w, n, {})
  <2>1. /\ Head(w.todo) = "pod_isolation" => w.pod \in isolated'
        /\ Head(w.todo) = "ip_block" => w.pod \in blocked'
    BY <1>10 DEF ActionSucceeds, w
  <2>2. Past(w)
    BY <1>10 DEF Past
  <2> QED BY <1>8, <1>10, <2>1, <2>2 DEF n
<1>11. CASE ActionExhausted(a, Head(w.todo)) /\ w.pc = "responding" /\ Over(w, n, {Head(w.todo)})
  <2>1. Head(w.todo) = "pod_isolation" => a \in escalated'
    BY <1>11 DEF ActionExhausted
  <2>2. Past(w)
    BY <1>11 DEF Past
  <2> QED BY <1>8, <1>11, <2>1, <2>2 DEF n
<1>12. CASE ctx = "done" /\ w.pc = "retrying" /\ Over(w, n, {Head(w.todo)})
  <2>1. Past(w) /\ ctx' = "done"
    BY <1>12 DEF Past
  <2> QED BY <1>8, <1>12, <2>1 DEF n
<1>13. QED
  <2>1. CASE w.pc \in {"responding", "retrying"} /\ n.pc \in {"responding", "retrying"} /\ Kept(w, n)
    BY <1>7, <2>1 DEF Past
  <2>2. CASE /\ w.pc = "responding" /\ n.pc = "deploying"
             /\ Head(w.todo) = "additional_honeytokens" /\ Kept(w, n)
    BY <1>7, <2>2 DEF Past
  <2>3. CASE w.pc = "responding" /\ w.todo = <<>> /\ n.pc = "logging" /\ Kept(w, n)
    BY <1>7, <2>3 DEF Past
  <2>4. CASE w.pc = "logging" /\ n.pc = "done" /\ Kept(w, n)
    <3>1. w.todo = <<>>
      BY <1>3, <2>4 DEF ResponseRec
    <3> QED BY <1>7, <2>4, <3>1 DEF Past
  <2> QED BY <1>2, <1>5, <1>6, <1>9, <1>10, <1>11, <1>12, <2>1, <2>2, <2>3, <2>4
        DEF WorkflowMove, w, n

(* Every step keeps what is known of the responses. *)
LEMMA ResponseStep ==
  ASSUME AgentTypes, AgentTypes', ResponseInv, [Next]_vars PROVE ResponseInv'
<1>1. /\ isolated \subseteq isolated' /\ blocked \subseteq blocked'
      /\ escalated \subseteq escalated' /\ (ctx = "done" => ctx' = "done")
  BY EffectsGrow
<1>2. ASSUME NEW x \in Accesses, workflow'[x] = workflow[x]
      PROVE  ResponseRec(x, workflow'[x], isolated', blocked', escalated', ctx')
  <2>1. ResponseRec(x, workflow[x], isolated, blocked, escalated, ctx)
    BY DEF ResponseInv
  <2> QED BY <1>1, <1>2, <2>1, ResponseMonotonic
<1>3. CASE UNCHANGED workflow
  BY <1>2, <1>3 DEF ResponseInv
<1>4. ASSUME NEW a \in Accesses, NEW pod \in Pods, NEW path \in Paths, NEW full \in BOOLEAN,
             Detect(a, pod, path, full)
      PROVE  ResponseInv'
  <2> DEFINE w == workflow[a]
             n == workflow'[a]
             known == \E h \in DOMAIN registry : h.pod = pod /\ h.path = path
  <2>1. w \in Workflows /\ workflow \in [Accesses -> Workflows]
    BY DEF AgentTypes, WorkflowTypes
  <2>2. workflow' = [workflow EXCEPT ![a].pc = "assessing", ![a].pod = pod,
                                     ![a].path = path, ![a].full = full,
                                     ![a].known = known]
    BY <1>4 DEF Detect
  <2> HIDE DEF known
  <2>3. /\ n.pc = "assessing" /\ n.failed = w.failed /\ n.todo = w.todo
        /\ \A x \in Accesses \ {a} : workflow'[x] = workflow[x]
    BY <2>1, <2>2 DEF Workflows
  <2>4. ResponseRec(a, w, isolated', blocked', escalated', ctx')
    <3>1. ResponseRec(a, workflow[a], isolated, blocked, escalated, ctx)
      BY DEF ResponseInv
    <3> QED BY <1>1, <3>1, ResponseMonotonic
  <2> HIDE DEF w, n
  <2>5. ResponseRec(a, n, isolated', blocked', escalated', ctx')
    BY <2>3, <2>4 DEF ResponseRec, ThroughRec, Past
  <2> QED BY <1>2, <2>3, <2>5 DEF ResponseInv, n
<1>5. ASSUME NEW a \in Accesses, Working(a) PROVE ResponseInv'
  <2>1. \A x \in Accesses \ {a} : workflow'[x] = workflow[x]
    BY <1>5, WorkingEffect
  <2>2. ResponseRec(a, workflow'[a], isolated', blocked', escalated', ctx')
    BY <1>1, <1>5, ResponseMove DEF ResponseInv
  <2> QED BY <1>2, <2>1, <2>2 DEF ResponseInv
<1> QED BY <1>3, <1>4, <1>5, WorkflowFrame DEF WorkflowStep

(* Nothing is asked for and nothing has failed at first. *)
LEMMA ResponseInit == Init => ResponseInv
<1> SUFFICES ASSUME Init, NEW a \in Accesses
             PROVE  ResponseRec(a, workflow[a], isolated, blocked, escalated, ctx)
  BY DEF ResponseInv
<1>1. /\ workflow[a].pc = "undetected" /\ workflow[a].failed = {}
      /\ workflow[a].todo = <<>>
  BY DEF Init, Undetected
<1>2. Distinct(<<>>)
  BY DEF Distinct
<1> QED BY <1>1, <1>2 DEF ResponseRec, ThroughRec, Past

(* No failed isolation goes without an alert but for the context: once a     *)
(* workflow whose plan asks for an isolation is done, IsolatePod returned    *)
(* nil for its pod, a critical alert was sent, or the context of the agent   *)
(* is done, by Stop or by the kernel; and an action that did not return nil  *)
(* for the pod of the access is reported as failed, with or without that     *)
(* context; for every number of accesses, retries and pods (executor.go      *)
(* executePodIsolation, executeIPBlock).                                     *)
THEOREM ContainedUnlessCancelled == Spec => []ContainedOrEscalated
<1>1. Init => ResponseInv
  BY ResponseInit
<1>2. AgentTypes /\ ResponseInv => ContainedOrEscalated
  <2> SUFFICES ASSUME AgentTypes, ResponseInv, NEW a \in Accesses
               PROVE  /\ Rank[workflow[a].level] >= Rank["high"] /\ workflow[a].pc = "done" =>
                           workflow[a].pod \in isolated \/ a \in escalated \/ ctx = "done"
                      /\ Through(a, "pod_isolation") =>
                           \/ workflow[a].pod \in isolated
                           \/ "pod_isolation" \in workflow[a].failed
                      /\ Through(a, "ip_block") =>
                           workflow[a].pod \in blocked \/ "ip_block" \in workflow[a].failed
    BY DEF ContainedOrEscalated
  <2> DEFINE w == workflow[a]
  <2>1. ResponseRec(a, w, isolated, blocked, escalated, ctx) /\ w \in Workflows
    BY DEF ResponseInv, AgentTypes, WorkflowTypes
  <2>2. \A action : Through(a, action) <=> ThroughRec(w, action)
    BY DEF Through, PastMarking, ThroughRec, Past
  <2> HIDE DEF w
  <2>3. ASSUME Rank[w.level] >= Rank["high"], w.pc = "done"
        PROVE  w.pod \in isolated \/ a \in escalated \/ ctx = "done"
    <3>1. "pod_isolation" \in ElementsOf(PlanActions(w.level))
      BY <2>1, <2>3, PlanDistinct DEF Workflows
    <3>2. ElementsOf(w.todo) = {}
      BY <2>1, <2>3, NoElements DEF ResponseRec
    <3>3. ThroughRec(w, "pod_isolation")
      BY <2>3, <3>1, <3>2 DEF ThroughRec, Past
    <3> QED BY <2>1, <3>3 DEF ResponseRec
  <2> QED BY <2>1, <2>2, <2>3 DEF ResponseRec, w
<1>3. AgentTypes /\ AgentTypes' /\ ResponseInv /\ [Next]_vars => ResponseInv'
  BY ResponseStep
<1> QED BY <1>1, <1>2, <1>3, TypesInvariant, PTL DEF Spec

-----------------------------------------------------------------------------
(* The audit log *)

(* Only the three goroutines that log write to the audit log. *)
LEMMA AuditFrame ==
  ASSUME [Next]_vars
  PROVE  LogDiscovery \/ LogModel \/ (\E a \in Accesses : LogWorkflow(a)) \/ UNCHANGED audit
<1>1. CASE UNCHANGED vars
  BY <1>1 DEF vars
<1>2. ASSUME NEW c \in Callers, Deploying(c) PROVE UNCHANGED audit
  BY <1>2 DEF Deploying, CreateSecret, Insert, CreateSecretFails, DeleteSecret, Forget
<1>3. CASE Discovering \/ NextCycle
  BY <1>3 DEF Discovering, NextCycle, Discover, ServePod, PodDeployed, Register,
    RegisterPath, DiscoveryEnds
<1>4. ASSUME NEW a \in Accesses, NEW pod \in Pods, NEW path \in Paths, NEW full \in BOOLEAN,
             Detect(a, pod, path, full)
      PROVE  UNCHANGED audit
  BY <1>4 DEF Detect
<1>5. ASSUME NEW a \in Accesses, Working(a) PROVE LogWorkflow(a) \/ UNCHANGED audit
  BY <1>5 DEF Working, Assess, MarkTriggered, ActionSucceeds, ActionFails, ActionExhausted,
    RetryAction, AbandonAction, DeployHoneytokens, HoneytokensDeployed, Ingest
<1>6. CASE ShouldRetrain \/ Retraining
  BY <1>6 DEF ShouldRetrain, Retraining, TriggerRetraining, SchedulerEnds
<1>7. CASE ContextEnds \/ Cancel \/ StopReturns
  BY <1>7 DEF ContextEnds, Cancel, StopReturns
<1> QED BY <1>1, <1>2, <1>3, <1>4, <1>5, <1>6, <1>7 DEF Next

(* Nothing is taken from the audit log. *)
LEMMA AuditGrows == ASSUME [Next]_vars PROVE audit \subseteq audit'
<1>1. LogDiscovery => audit \subseteq audit'
  BY DEF LogDiscovery
<1>2. LogModel => audit \subseteq audit'
  BY DEF LogModel
<1>3. \A a \in Accesses : LogWorkflow(a) => audit \subseteq audit'
  BY DEF LogWorkflow
<1> QED BY <1>1, <1>2, <1>3, AuditFrame

(* The three parts of the property, which are inductive one by one. *)
CyclesOnRecord ==
  \A h \in DOMAIN registry :
    <<"deployment", h.by>> \in audit
      \/ (discovery.cycle = h.by /\ ~(discovery.pc \in {"waiting", "ended"}))
ResponsesOnRecord == \A a \in Accesses : AtWorkflow(a, "done") => <<"response", a>> \in audit
ModelsOnRecord ==
  trainer.trainedOn > 0 /\ scheduler # "logging" => <<"model", trainer.trainedOn>> \in audit

(* A cycle only comes to rest after it was logged or without an entry. *)
LEMMA CyclesOnRecordStep ==
  ASSUME AgentTypes, CatalogueInv, CyclesOnRecord, [Next]_vars PROVE CyclesOnRecord'
<1>0. discovery \in Discoveries /\ audit \subseteq audit'
  BY AuditGrows DEF AgentTypes, DiscoveryTypes
<1>1. ASSUME DOMAIN registry' \subseteq DOMAIN registry, discovery'.cycle = discovery.cycle,
             discovery'.pc \in {"waiting", "ended"} => discovery.pc \in {"waiting", "ended"}
      PROVE  CyclesOnRecord'
  BY <1>0, <1>1 DEF CyclesOnRecord
<1>2. CASE UNCHANGED <<discovery, catalogue>>
  BY <1>1, <1>2 DEF catalogue
<1>3. ASSUME NEW a \in Accesses, MarkTriggered(a) PROVE CyclesOnRecord'
  BY <1>1, <1>3 DEF MarkTriggered
<1>4. ASSUME NEW found \in SUBSET Pods, Discover(found) PROVE CyclesOnRecord'
  <2>1. /\ discovery.pc = "querying" /\ discovery'.cycle = discovery.cycle
        /\ registry' = registry
    BY <1>0, <1>4 DEF Discover, AtDiscovery, Discoveries, catalogue
  <2>2. \A h \in DOMAIN registry : h.by # discovery.cycle
    BY <2>1 DEF CatalogueInv, EntriesSettled
  <2> QED BY <1>0, <2>1, <2>2 DEF CyclesOnRecord
<1>5. ASSUME NEW p \in Pods, ServePod(p) PROVE CyclesOnRecord'
  BY <1>0, <1>1, <1>5 DEF ServePod, AtDiscovery, Discoveries, catalogue
<1>6. CASE PodDeployed
  <2>1. /\ registry' = registry /\ discovery'.cycle = discovery.cycle
        /\ discovery'.pc \in {"registering", "serving"}
    BY <1>0, <1>6 DEF PodDeployed, Discoveries, catalogue
  <2> QED BY <1>1, <2>1
<1>7. CASE Register
  <2> DEFINE ht == Head(discovery.adding)
  <2>1. /\ discovery.pc = "registering" /\ discovery'.pc = "watching"
        /\ discovery'.cycle = discovery.cycle
        /\ DOMAIN registry' = DOMAIN registry \cup {ht}
    BY <1>0, <1>7 DEF Register, AtDiscovery, Discoveries
  <2>2. ht \in ElementsOf(discovery.adding)
    BY <1>0, <2>1, TailElements DEF AgentTypes, DiscoveryTypes, Discoveries
  <2> HIDE DEF ht
  <2>3. ht.by = discovery.cycle
    BY <2>2 DEF CatalogueInv, AddingSettled
  <2> QED BY <1>0, <2>1, <2>3 DEF CyclesOnRecord
<1>8. CASE RegisterPath
  <2>1. /\ registry' = registry /\ discovery'.cycle = discovery.cycle
        /\ discovery'.pc \in {"registering", "serving"}
    BY <1>0, <1>8 DEF RegisterPath, Discoveries
  <2> QED BY <1>1, <2>1
<1>9. CASE LogDiscovery
  <2>1. /\ registry' = registry /\ discovery.pc = "serving"
        /\ audit' = audit \cup {<<"deployment", discovery.cycle>>}
    BY <1>9 DEF LogDiscovery, AtDiscovery, catalogue
  <2> QED BY <2>1 DEF CyclesOnRecord
<1>10. CASE DiscoveryEnds
  BY <1>0, <1>1, <1>10 DEF DiscoveryEnds, AtDiscovery, Discoveries, catalogue
<1>11. CASE NextCycle
  <2>1. registry' = registry /\ discovery.pc = "waiting"
    BY <1>11 DEF NextCycle, AtDiscovery, catalogue
  <2> QED BY <1>0, <2>1 DEF CyclesOnRecord
<1> QED
  BY <1>2, <1>3, <1>4, <1>5, <1>6, <1>7, <1>8, <1>9, <1>10, <1>11, DiscoveryFrame
  DEF DiscoveryStep, Discovering

(* A workflow is done by logging its response. *)
LEMMA ResponsesOnRecordStep ==
  ASSUME AgentTypes, ResponsesOnRecord, [Next]_vars PROVE ResponsesOnRecord'
<1>0. audit \subseteq audit'
  BY AuditGrows
<1> SUFFICES ASSUME NEW x \in Accesses, workflow'[x].pc = "done"
             PROVE  <<"response", x>> \in audit'
  BY DEF ResponsesOnRecord, AtWorkflow
<1>1. CASE workflow'[x] = workflow[x]
  BY <1>0, <1>1 DEF ResponsesOnRecord, AtWorkflow
<1>2. ASSUME NEW a \in Accesses, NEW pod \in Pods, NEW path \in Paths, NEW full \in BOOLEAN,
             Detect(a, pod, path, full)
      PROVE  <<"response", x>> \in audit'
  <2>1. workflow'[a].pc = "assessing" /\ \A y \in Accesses \ {a} : workflow'[y] = workflow[y]
    BY <1>2 DEF Detect, AgentTypes, WorkflowTypes, Workflows
  <2> QED BY <1>1, <2>1
<1>3. ASSUME NEW a \in Accesses, Working(a) PROVE <<"response", x>> \in audit'
  <2>1. /\ WorkflowMove(a, workflow[a], workflow'[a])
        /\ \A y \in Accesses \ {a} : workflow'[y] = workflow[y]
    BY <1>3, WorkingEffect
  <2>2. workflow'[a].pc = "done" => LogWorkflow(a)
    BY <2>1 DEF WorkflowMove, Over
  <2>3. LogWorkflow(a) => <<"response", a>> \in audit'
    BY DEF LogWorkflow
  <2> QED BY <1>1, <2>1, <2>2, <2>3
<1> QED BY <1>1, <1>2, <1>3, WorkflowFrame DEF WorkflowStep

(* A published model is logged before the scheduler waits again. *)
LEMMA ModelsOnRecordStep ==
  ASSUME AgentTypes, ModelsOnRecord, [Next]_vars PROVE ModelsOnRecord'
<1>0. audit \subseteq audit' /\ trainer \in Trainers
  BY AuditGrows DEF AgentTypes, LearningTypes
<1>1. ASSUME trainer'.trainedOn = trainer.trainedOn, scheduler' # "logging" => scheduler # "logging"
      PROVE  ModelsOnRecord'
  BY <1>0, <1>1 DEF ModelsOnRecord
<1>2. ASSUME NEW a \in Accesses, Ingest(a) PROVE ModelsOnRecord'
  <2>1. trainer'.trainedOn = trainer.trainedOn /\ scheduler' = scheduler
    BY <1>0, <1>2 DEF Ingest, Trainers
  <2> QED BY <1>1, <2>1
<1>3. CASE ShouldRetrain
  BY <1>1, <1>3 DEF ShouldRetrain
<1>4. ASSUME NEW accuracy \in Accuracies, TriggerRetraining(accuracy) PROVE ModelsOnRecord'
  <2>1. CASE accuracy >= trainer.accuracy
    BY <1>4, <2>1 DEF TriggerRetraining, ModelsOnRecord
  <2>2. CASE ~(accuracy >= trainer.accuracy)
    BY <1>1, <1>4, <2>2 DEF TriggerRetraining
  <2> QED BY <2>1, <2>2
<1>5. CASE LogModel
  BY <1>5 DEF LogModel, ModelsOnRecord
<1>6. CASE SchedulerEnds
  BY <1>1, <1>6 DEF SchedulerEnds
<1>7. CASE ContextEnds \/ Cancel \/ StopReturns
  BY <1>1, <1>7 DEF ContextEnds, Cancel, StopReturns, learning
<1>8. CASE UNCHANGED <<learning, lifecycle>>
  BY <1>1, <1>8 DEF learning
<1> QED BY <1>2, <1>3, <1>4, <1>5, <1>6, <1>7, <1>8, LearningFrame DEF Retraining

(* Every decision is on record once the goroutine that made it is at rest:  *)
(* the cycles that registered honeytokens, the finished workflows and the   *)
(* model in use, however the three goroutines interleave (audit.go Log).    *)
THEOREM EveryDecisionIsOnRecord == Spec => []DecisionsOnRecord
<1> DEFINE Inv == CyclesOnRecord /\ ResponsesOnRecord /\ ModelsOnRecord
<1>1. Init => Inv
  <2> SUFFICES ASSUME Init PROVE Inv
    OBVIOUS
  <2>1. CyclesOnRecord
    <3>1. DOMAIN registry = {}
      BY DEF Init
    <3> QED BY <3>1 DEF CyclesOnRecord
  <2>2. ResponsesOnRecord
    BY DEF Init, ResponsesOnRecord, AtWorkflow, Undetected
  <2>3. ModelsOnRecord
    BY DEF Init, ModelsOnRecord
  <2> QED BY <2>1, <2>2, <2>3
<1>2. Inv => DecisionsOnRecord
  BY DEF CyclesOnRecord, ResponsesOnRecord, ModelsOnRecord, DecisionsOnRecord
<1>3. AgentTypes /\ CatalogueInv /\ Inv /\ [Next]_vars => Inv'
  BY CyclesOnRecordStep, ResponsesOnRecordStep, ModelsOnRecordStep
<1>4. AgentTypes /\ CatalogueInv /\ [Next]_vars => CatalogueInv'
  BY CatalogueStep
<1> HIDE DEF Inv
<1> QED BY <1>1, <1>2, <1>3, <1>4, CatalogueInit, TypesInvariant, PTL DEF Spec

-----------------------------------------------------------------------------
(* Deployments and their rollbacks *)

Pending(d) == {[by |-> d.by, pod |-> d.pod, path |-> path] : path \in ElementsOf(d.left)}

(* What the store has of a deployment under way is in the hands of its call, *)
(* which is how a rollback finds all of it.                                  *)
InHand ==
  \A c \in Callers : deploy[c].step # "idle" =>
    \A h \in store : h.by = deploy[c].by /\ h.pod = deploy[c].pod =>
      h \in ElementsOf(deploy[c].done)

(* A call that is still creating has stored what it made, and what is missing *)
(* from its batch is what it has left to do.                                  *)
Progressing ==
  \A c \in Callers : deploy[c].step \in Making =>
    /\ ElementsOf(deploy[c].done) \subseteq store
    /\ BatchOf(deploy[c]) \subseteq ElementsOf(deploy[c].done) \cup Pending(deploy[c])

BatchesWhole == \A h \in store : UnderWay(h) \/ BatchOf(h) \subseteq store

(* A workflow deploys at most once, so its deployment starts from nothing. *)
DeploysOnce ==
  /\ \A a \in Accesses : deploy[a].step # "idle" => workflow[a].pc = "deploying"
  /\ \A h \in store : h.by \in Accesses =>
       \/ workflow[h.by].pc = "deploying"
       \/ /\ Past(workflow[h.by])
          /\ "additional_honeytokens" \notin ElementsOf(workflow[h.by].todo)

(* What a call is about to store is in the cluster; what it is about to forget *)
(* is not, or an orphan; nothing else differs between the store and the       *)
(* cluster but orphans.                                                       *)
StoreBacked ==
  /\ cluster \ store \subseteq orphans \cup {Wanted(c) : c \in AtStep("inserting")}
  /\ store \ cluster \subseteq {Head(deploy[c].done) : c \in AtStep("forgetting")}
  /\ \A c \in AtStep("inserting") : Wanted(c) \in cluster
  /\ \A c \in AtStep("forgetting") : Head(deploy[c].done) \in cluster =>
       Head(deploy[c].done) \in orphans

Batches == InHand /\ Progressing /\ BatchesWhole
DeploymentInv == Batches /\ DeploysOnce /\ StoreBacked

(* Two calls never work for the same cycle or access. *)
LEMMA CausesDiffer ==
  ASSUME AgentTypes, OwnBatches, NEW c \in Callers, NEW x \in Callers, x # c,
         deploy[c].step # "idle", deploy[x].step # "idle"
  PROVE  deploy[c].by # deploy[x].by
<1>1. discovery.cycle \in Cycles /\ Cycles \cap Accesses = {}
  BY AgentAssumption DEF AgentTypes, DiscoveryTypes, Discoveries, Cycles
<1>2. \A y \in Callers : deploy[y].step # "idle" =>
        \/ y = "discovery" /\ deploy[y].by \in Cycles
        \/ y \in Accesses /\ deploy[y].by = y
  BY <1>1 DEF OwnBatches, Callers, Discovered
<1> QED BY <1>1, <1>2

(* The honeytoken a step stores, with its place in the batch. *)
LEMMA InsertDetail ==
  ASSUME DeployTypes, NEW c \in Callers, Insert(c)
  PROVE  \E ht \in Honeytokens :
           /\ ht = [by |-> deploy[c].by, pod |-> deploy[c].pod, path |-> Head(deploy[c].left)]
           /\ store' = store \cup {ht}
           /\ UNCHANGED <<cluster, orphans, discovery, registry, workflow>>
           /\ deploy[c].step = "inserting" /\ deploy[c].left # <<>>
           /\ deploy'[c].step = "creating"
           /\ deploy'[c].by = deploy[c].by /\ deploy'[c].pod = deploy[c].pod
           /\ deploy'[c].left = Tail(deploy[c].left)
           /\ deploy'[c].done = Append(deploy[c].done, ht)
           /\ \A x \in Callers \ {c} : deploy'[x] = deploy[x]
<1> DEFINE d  == deploy[c]
           ht == [by |-> d.by, pod |-> d.pod, path |-> Head(d.left)]
           t  == Append(d.done, ht)
           r  == Tail(d.left)
<1>1. d \in DeployCalls /\ d.step = "inserting" /\ d.left # <<>> /\ d.by \in Causes
  BY DEF Insert, DeployTypes
<1>2. Head(d.left) \in Paths
  BY <1>1, HeadTailProperties DEF DeployCalls
<1>3. ht \in Honeytokens
  BY <1>1, <1>2 DEF Honeytokens, DeployCalls, AnyPod, Causes
<1>4. /\ deploy' = [deploy EXCEPT ![c].step = "creating", ![c].left = r, ![c].done = t]
      /\ store' = store \cup {ht}
      /\ UNCHANGED <<cluster, orphans, discovery, registry, workflow>>
  BY DEF Insert, Wanted, catalogue
<1> DEFINE e == ht
<1>5. e = [by |-> d.by, pod |-> d.pod, path |-> Head(d.left)]
  OBVIOUS
<1> HIDE DEF t, r
<1>6. /\ deploy'[c].step = "creating" /\ deploy'[c].done = t /\ deploy'[c].left = r
      /\ deploy'[c].by = d.by /\ deploy'[c].pod = d.pod
      /\ \A x \in Callers \ {c} : deploy'[x] = deploy[x]
  BY <1>1, <1>4 DEF DeployTypes, DeployCalls
<1> HIDE DEF e
<1>7. /\ deploy'[c].done = Append(deploy[c].done, e) /\ e \in Honeytokens
      /\ deploy'[c].left = Tail(deploy[c].left)
      /\ store' = store \cup {e}
  BY <1>3, <1>4, <1>6 DEF e, t, r
<1> QED BY <1>1, <1>4, <1>5, <1>6, <1>7

(* A batch is for one cycle or access and one pod. *)
LEMMA BatchFields ==
  ASSUME NEW h PROVE \A e \in BatchOf(h) : e.by = h.by /\ e.pod = h.pod
<1> SUFFICES ASSUME NEW path PROVE LET e == [by |-> h.by, pod |-> h.pod, path |-> path]
                                   IN  e.by = h.by /\ e.pod = h.pod
  BY DEF BatchOf
<1> QED OBVIOUS

(* Calls that keep what they work for keep the batches under way. *)
LEMMA UnderWayKept ==
  ASSUME \A x \in Callers : /\ deploy'[x].step # "idle" <=> deploy[x].step # "idle"
                            /\ deploy'[x].by = deploy[x].by /\ deploy'[x].pod = deploy[x].pod
  PROVE  \A h : UnderWay(h)' <=> UnderWay(h)
BY DEF UnderWay

(* A created honeytoken is in the hands of its call. *)
LEMMA BatchesInsert ==
  ASSUME AgentTypes, OwnBatches, Batches, NEW c \in Callers, Insert(c) PROVE Batches'
<1>0. DeployTypes /\ deploy[c] \in DeployCalls
  BY DEF AgentTypes, DeployTypes
<1> PICK ht \in Honeytokens :
           /\ ht = [by |-> deploy[c].by, pod |-> deploy[c].pod, path |-> Head(deploy[c].left)]
           /\ store' = store \cup {ht}
           /\ UNCHANGED <<cluster, orphans, discovery, registry, workflow>>
           /\ deploy[c].step = "inserting" /\ deploy[c].left # <<>>
           /\ deploy'[c].step = "creating"
           /\ deploy'[c].by = deploy[c].by /\ deploy'[c].pod = deploy[c].pod
           /\ deploy'[c].left = Tail(deploy[c].left)
           /\ deploy'[c].done = Append(deploy[c].done, ht)
           /\ \A x \in Callers \ {c} : deploy'[x] = deploy[x]
  BY <1>0, InsertDetail
<1>1. ElementsOf(deploy'[c].done) = ElementsOf(deploy[c].done) \cup {ht}
  <2>1. deploy[c].done \in Seq(Honeytokens)
    BY <1>0 DEF DeployCalls
  <2>2. ElementsOf(Append(deploy[c].done, ht)) = ElementsOf(deploy[c].done) \cup {ht}
    BY <2>1, AppendElements
  <2> QED BY <2>2
<1>2. /\ ht.by = deploy[c].by /\ ht.pod = deploy[c].pod /\ deploy[c].step # "idle"
      /\ deploy'[c].step # "idle"
  OBVIOUS
<1>3. InHand'
  <2> SUFFICES ASSUME NEW x \in Callers, deploy'[x].step # "idle", NEW h \in store',
                      h.by = deploy'[x].by, h.pod = deploy'[x].pod
               PROVE  h \in ElementsOf(deploy'[x].done)
    BY DEF InHand
  <2>1. CASE x = c
    BY <1>1, <1>2, <2>1 DEF Batches, InHand
  <2>2. CASE x # c
    <3>1. h # ht
      BY <1>2, <2>2, CausesDiffer
    <3> QED BY <2>2, <3>1 DEF Batches, InHand
  <2> QED BY <2>1, <2>2
<1>4. Progressing'
  <2> SUFFICES ASSUME NEW x \in Callers, deploy'[x].step \in Making
               PROVE  /\ ElementsOf(deploy'[x].done) \subseteq store'
                      /\ BatchOf(deploy'[x]) \subseteq
                           ElementsOf(deploy'[x].done) \cup Pending(deploy'[x])
    BY DEF Progressing
  <2>1. CASE x = c
    <3>1. \A path \in ElementsOf(deploy[c].left) :
            path = Head(deploy[c].left) \/ path \in ElementsOf(deploy'[c].left)
      BY <1>0, TailElements DEF DeployCalls
    <3>2. Pending(deploy[c]) \subseteq {ht} \cup Pending(deploy'[c])
      BY <3>1 DEF Pending
    <3>3. BatchOf(deploy'[c]) = BatchOf(deploy[c])
      BY DEF BatchOf
    <3>4. /\ ElementsOf(deploy[c].done) \subseteq store
          /\ BatchOf(deploy[c]) \subseteq ElementsOf(deploy[c].done) \cup Pending(deploy[c])
      BY DEF Batches, Progressing, Making
    <3> QED BY <1>1, <2>1, <3>2, <3>3, <3>4
  <2>2. CASE x # c
    BY <2>2 DEF Batches, Progressing, Making
  <2> QED BY <2>1, <2>2
<1>5. BatchesWhole'
  <2>1. \A h : UnderWay(h)' <=> UnderWay(h)
    <3>1. \A x \in Callers : /\ deploy'[x].step # "idle" <=> deploy[x].step # "idle"
                             /\ deploy'[x].by = deploy[x].by /\ deploy'[x].pod = deploy[x].pod
      OBVIOUS
    <3> QED BY <3>1, UnderWayKept
  <2>2. UnderWay(ht)
    BY <1>2 DEF UnderWay
  <2>3. ASSUME NEW h \in store' PROVE UnderWay(h)' \/ BatchOf(h) \subseteq store'
    BY <2>1, <2>2, <2>3 DEF Batches, BatchesWhole
  <2> QED BY <2>3 DEF BatchesWhole
<1> QED BY <1>3, <1>4, <1>5 DEF Batches

(* A rollback takes from the store what its call has in hand, and no other   *)
(* batch.                                                                    *)
LEMMA BatchesForget ==
  ASSUME AgentTypes, OwnBatches, Batches, NEW c \in Callers, Forget(c)
  PROVE  Batches'
<1>0. DeployTypes /\ deploy[c] \in DeployCalls
  BY DEF AgentTypes, DeployTypes
<1> PICK ht \in ElementsOf(deploy[c].done) :
           /\ store' = store \ {ht}
           /\ deploy[c].step = "forgetting" /\ deploy'[c].step = "rolling back"
           /\ deploy'[c].by = deploy[c].by /\ deploy'[c].pod = deploy[c].pod
           /\ ElementsOf(deploy'[c].done) \subseteq ElementsOf(deploy[c].done)
           /\ \A h \in ElementsOf(deploy[c].done) : h = ht \/ h \in ElementsOf(deploy'[c].done)
           /\ \A x \in Callers \ {c} : deploy'[x] = deploy[x]
           /\ UNCHANGED <<discovery, registry, watched>>
  BY <1>0, ForgetEffect
<1>1. ht.by = deploy[c].by /\ ht.pod = deploy[c].pod /\ deploy[c].step # "idle"
  BY DEF OwnBatches
<1>2. InHand'
  BY DEF Batches, InHand
<1>3. Progressing'
  <2> SUFFICES ASSUME NEW x \in Callers, deploy'[x].step \in Making
               PROVE  /\ ElementsOf(deploy'[x].done) \subseteq store'
                      /\ BatchOf(deploy'[x]) \subseteq
                           ElementsOf(deploy'[x].done) \cup Pending(deploy'[x])
    BY DEF Progressing
  <2>1. x # c /\ deploy'[x] = deploy[x] /\ deploy[x].step # "idle"
    BY DEF Making
  <2>2. ht \notin ElementsOf(deploy[x].done)
    <3>1. deploy[c].by # deploy[x].by
      BY <1>1, <2>1, CausesDiffer
    <3> QED BY <1>1, <2>1, <3>1 DEF OwnBatches
  <2> QED BY <2>1, <2>2 DEF Batches, Progressing
<1>4. BatchesWhole'
  <2>1. \A h : UnderWay(h)' <=> UnderWay(h)
    <3>1. \A x \in Callers : /\ deploy'[x].step # "idle" <=> deploy[x].step # "idle"
                             /\ deploy'[x].by = deploy[x].by /\ deploy'[x].pod = deploy[x].pod
      OBVIOUS
    <3> QED BY <3>1, UnderWayKept
  <2>2. ASSUME NEW h \in store', ~UnderWay(h) PROVE BatchOf(h) \subseteq store'
    <3>1. BatchOf(h) \subseteq store
      BY <2>2 DEF Batches, BatchesWhole
    <3>2. ht \notin BatchOf(h)
      <4>1. ~(h.by = deploy[c].by /\ h.pod = deploy[c].pod)
        BY <1>1, <2>2 DEF UnderWay
      <4> QED BY <1>1, <4>1, BatchFields
    <3> QED BY <3>1, <3>2
  <2> QED BY <2>1, <2>2 DEF BatchesWhole
<1> QED BY <1>2, <1>3, <1>4 DEF Batches

(* A call starts with its whole batch to make and nothing of it stored. *)
LEMMA BatchesStart ==
  ASSUME AgentTypes, Batches, NEW c \in Callers, NEW by \in Causes, NEW pod \in AnyPod,
         deploy[c].step = "idle", deploy' = [deploy EXCEPT ![c] = Deployment(by, pod)],
         store' = store, \A h \in store : ~(h.by = by /\ h.pod = pod)
  PROVE  Batches'
<1>1. /\ deploy'[c] = Deployment(by, pod)
      /\ \A x \in Callers \ {c} : deploy'[x] = deploy[x]
  BY DEF AgentTypes, DeployTypes
<1>2. /\ deploy'[c].step = "creating" /\ deploy'[c].by = by /\ deploy'[c].pod = pod
      /\ deploy'[c].left = PlacementsOf(by) /\ ElementsOf(deploy'[c].done) = {}
  BY <1>1, NoElements DEF Deployment
<1>3. InHand'
  BY <1>1, <1>2 DEF Batches, InHand
<1>4. Progressing'
  <2>1. BatchOf(deploy'[c]) \subseteq Pending(deploy'[c])
    BY <1>2 DEF BatchOf, Pending
  <2> QED BY <1>1, <1>2, <2>1 DEF Batches, Progressing, Making
<1>5. BatchesWhole'
  <2>1. \A h : UnderWay(h) => UnderWay(h)'
    BY <1>1 DEF UnderWay
  <2> QED BY <2>1 DEF Batches, BatchesWhole
<1> QED BY <1>3, <1>4, <1>5 DEF Batches

(* A call ends with its whole batch stored or with nothing of it. *)
LEMMA BatchesEnd ==
  ASSUME AgentTypes, Batches, NEW c \in Callers, Succeeded(c) \/ Failed(c),
         deploy' = [deploy EXCEPT ![c] = NotDeploying], store' = store
  PROVE  Batches'
<1>1. /\ deploy'[c].step = "idle"
      /\ \A x \in Callers \ {c} : deploy'[x] = deploy[x]
  BY DEF AgentTypes, DeployTypes, NotDeploying
<1>2. InHand'
  BY <1>1 DEF Batches, InHand
<1>3. Progressing'
  BY <1>1 DEF Batches, Progressing, Making
<1>4. BatchesWhole'
  <2> SUFFICES ASSUME NEW h \in store, UnderWay(h), ~UnderWay(h)'
               PROVE  BatchOf(h) \subseteq store
    BY DEF Batches, BatchesWhole
  <2>1. deploy[c].step # "idle" /\ h.by = deploy[c].by /\ h.pod = deploy[c].pod
    BY <1>1 DEF UnderWay
  <2>2. h \in ElementsOf(deploy[c].done)
    BY <2>1 DEF Batches, InHand
  <2>3. deploy[c].done # <<>>
    BY <2>2, NoElements
  <2>4. deploy[c].step = "creating" /\ deploy[c].left = <<>>
    BY <2>3 DEF Succeeded, Failed
  <2>5. Pending(deploy[c]) = {}
    BY <2>4, NoElements DEF Pending
  <2>6. BatchOf(deploy[c]) \subseteq store
    BY <2>4, <2>5 DEF Batches, Progressing, Making
  <2>7. BatchOf(h) = BatchOf(deploy[c])
    BY <2>1 DEF BatchOf
  <2> QED BY <2>6, <2>7
<1> QED BY <1>2, <1>3, <1>4 DEF Batches

(* Every step keeps the batches. *)
LEMMA BatchesStep ==
  ASSUME AgentTypes, CatalogueInv, ResponseInv, DeploymentInv, [Next]_vars PROVE Batches'
<1> USE DEF DeploymentInv
<1>0. "discovery" \in Callers /\ OwnBatches /\ discovery \in Discoveries
      /\ \A a \in Accesses : a \in Callers
  BY DEF Callers, CatalogueInv, AgentTypes, DiscoveryTypes
<1>1. CASE UNCHANGED <<deployer, deploy>>
  BY <1>1 DEF deployer, Batches, InHand, Progressing, BatchesWhole, UnderWay
<1>2. ASSUME NEW c \in Callers, Deploying(c) PROVE Batches'
  <2>1. CASE Insert(c)
    BY <1>0, <2>1, BatchesInsert
  <2>2. CASE Turn(c)
    <3>1. /\ deploy[c].step # "idle" /\ deploy'[c].step # "idle"
          /\ deploy'[c].step \in Making => deploy[c].step \in Making
          /\ deploy'[c].by = deploy[c].by /\ deploy'[c].pod = deploy[c].pod
          /\ deploy'[c].left = deploy[c].left /\ deploy'[c].done = deploy[c].done
          /\ store' = store
          /\ \A x \in Callers \ {c} : deploy'[x] = deploy[x]
      BY <2>2, TurnEffect DEF Making
    <3>2. \A h : UnderWay(h)' <=> UnderWay(h)
      <4>1. \A x \in Callers : /\ deploy'[x].step # "idle" <=> deploy[x].step # "idle"
                               /\ deploy'[x].by = deploy[x].by /\ deploy'[x].pod = deploy[x].pod
        BY <3>1
      <4> QED BY <4>1, UnderWayKept
    <3>3. InHand'
      BY <3>1 DEF Batches, InHand
    <3>4. Progressing'
      <4> SUFFICES ASSUME NEW x \in Callers, deploy'[x].step \in Making
                   PROVE  /\ ElementsOf(deploy'[x].done) \subseteq store'
                          /\ BatchOf(deploy'[x]) \subseteq
                               ElementsOf(deploy'[x].done) \cup Pending(deploy'[x])
        BY DEF Progressing
      <4>1. deploy[x].step \in Making
        BY <3>1
      <4>2. BatchOf(deploy'[x]) = BatchOf(deploy[x]) /\ Pending(deploy'[x]) = Pending(deploy[x])
        BY <3>1 DEF BatchOf, Pending
      <4>3. deploy'[x].done = deploy[x].done
        BY <3>1
      <4> QED BY <3>1, <4>1, <4>2, <4>3 DEF Batches, Progressing
    <3>5. BatchesWhole'
      BY <3>1, <3>2 DEF Batches, BatchesWhole
    <3> QED BY <3>3, <3>4, <3>5 DEF Batches
  <2>3. CASE Forget(c)
    BY <1>0, <2>3, BatchesForget
  <2> QED BY <1>2, <2>1, <2>2, <2>3 DEF Deploying, Turn
<1>3. ASSUME NEW p \in Pods, ServePod(p) PROVE Batches'
  <2>1. /\ discovery.pc = "serving" /\ p \in discovery.todo /\ store' = store
        /\ deploy' = [deploy EXCEPT !["discovery"] = Deployment(discovery.cycle, p)]
    BY <1>3 DEF ServePod, AtDiscovery, deployer
  <2>2. discovery.cycle \in Causes /\ discovery.cycle \in Cycles /\ p \in AnyPod
    BY <1>0 DEF Discoveries, Causes, AnyPod
  <2>3. deploy["discovery"].step = "idle"
    BY <2>1 DEF CatalogueInv, OwnBatches, Discovered
  <2>4. ASSUME NEW h \in store, h.by = discovery.cycle, h.pod = p PROVE FALSE
    <3>1. h \in DOMAIN registry \/ h \in ElementsOf(discovery.adding)
      BY <2>1, <2>2, <2>4 DEF CatalogueInv, NoneForgotten
    <3>2. h \notin DOMAIN registry
      BY <2>1, <2>4 DEF CatalogueInv, EntriesSettled
    <3>3. h \notin ElementsOf(discovery.adding)
      BY <2>1, <2>4 DEF CatalogueInv, AddingSettled
    <3> QED BY <3>1, <3>2, <3>3
  <2> DEFINE by == discovery.cycle
             c  == "discovery"
  <2>5. /\ deploy' = [deploy EXCEPT ![c] = Deployment(by, p)] /\ by \in Causes
        /\ \A h \in store : ~(h.by = by /\ h.pod = p)
        /\ c \in Callers /\ deploy[c].step = "idle" /\ p \in AnyPod
        /\ store' = store /\ Batches
    BY <1>0, <2>1, <2>2, <2>3, <2>4
  <2> HIDE DEF by, c
  <2> QED BY <2>5, BatchesStart
<1>4. CASE PodDeployed
  BY <1>0, <1>4, BatchesEnd DEF PodDeployed, deployer
<1>5. ASSUME NEW a \in Accesses, DeployHoneytokens(a) PROVE Batches'
  <2>1. /\ workflow[a].pc = "responding" /\ workflow[a].todo # <<>> /\ store' = store
        /\ Head(workflow[a].todo) = "additional_honeytokens"
        /\ deploy' = [deploy EXCEPT ![a] = Deployment(a, ReactivePod)]
    BY <1>5 DEF DeployHoneytokens, Responding, AtWorkflow, deployer
  <2>2. workflow[a].todo \in Seq(Actions)
    BY DEF AgentTypes, WorkflowTypes, Workflows
  <2>3. "additional_honeytokens" \in ElementsOf(workflow[a].todo)
    BY <2>1, <2>2, TailElements
  <2>4. \A h \in store : h.by # a
    BY <2>1, <2>3 DEF DeploysOnce
  <2>5. a \in Causes /\ ReactivePod \in AnyPod
    BY DEF Causes, AnyPod
  <2>6. deploy[a].step = "idle"
    BY <2>1 DEF DeploysOnce
  <2> QED BY <1>0, <2>1, <2>4, <2>5, <2>6, BatchesStart
<1>6. ASSUME NEW a \in Accesses, HoneytokensDeployed(a) PROVE Batches'
  BY <1>0, <1>6, BatchesEnd DEF HoneytokensDeployed, deployer
<1> QED BY <1>1, <1>2, <1>3, <1>4, <1>5, <1>6, DeployFrame DEF DeployStep

(* The honeytokens of two calls under way are different. *)
LEMMA HandsDiffer ==
  ASSUME AgentTypes, OwnBatches, NEW c \in Callers, NEW x \in Callers, x # c,
         deploy[c].step # "idle", deploy[x].step # "idle",
         deploy[x].done # <<>>
  PROVE  Wanted(c) # Head(deploy[x].done)
<1>1. Head(deploy[x].done) \in ElementsOf(deploy[x].done)
  <2>1. deploy[x].done \in Seq(Honeytokens)
    BY DEF AgentTypes, DeployTypes, DeployCalls
  <2> QED BY <2>1, TailElements
<1>2. Head(deploy[x].done).by = deploy[x].by
  BY <1>1 DEF OwnBatches
<1>3. Wanted(c).by = deploy[c].by
  BY DEF Wanted
<1> QED BY <1>2, <1>3, CausesDiffer

(* A call of the cluster keeps the store backed. *)
LEMMA TurnBacked ==
  ASSUME AgentTypes, OwnBatches, StoreBacked, NEW c \in Callers, Turn(c)
  PROVE  StoreBacked'
<1>0. /\ store' = store /\ deploy[c].step # "idle"
      /\ deploy'[c].by = deploy[c].by /\ deploy'[c].pod = deploy[c].pod
      /\ deploy'[c].left = deploy[c].left /\ deploy'[c].done = deploy[c].done
      /\ \A x \in Callers \ {c} : deploy'[x] = deploy[x]
  BY TurnEffect
<1>1. \A x \in Callers : Wanted(x)' = Wanted(x) /\ deploy'[x].done = deploy[x].done
  BY <1>0 DEF Wanted
<1>2. \A x \in Callers : deploy[x].step = "forgetting" => deploy[x].done # <<>>
  BY DEF AgentTypes, DeployTypes
<1>3. CASE CreateSecret(c)
  <2>1. /\ cluster' = cluster \cup {Wanted(c)} /\ orphans' = orphans
        /\ deploy[c].step = "creating" /\ deploy'[c].step = "inserting"
    BY <1>3 DEF CreateSecret, AgentTypes, DeployTypes, DeployCalls
  <2>2. /\ AtStep("inserting")' = AtStep("inserting") \cup {c}
        /\ AtStep("forgetting")' = AtStep("forgetting")
    BY <1>0, <2>1 DEF AtStep
  <2>3. \A x \in AtStep("forgetting") : Head(deploy[x].done) # Wanted(c)
    BY <1>0, <1>2, <2>1, HandsDiffer DEF AtStep
  <2>4. AtStep("inserting") \subseteq Callers /\ AtStep("forgetting") \subseteq Callers
    BY DEF AtStep
  <2>5. {Wanted(x) : x \in AtStep("inserting")}' =
          {Wanted(x) : x \in AtStep("inserting")} \cup {Wanted(c)}
    BY <1>1, <2>2, <2>4
  <2>6. {Head(deploy[x].done) : x \in AtStep("forgetting")}' =
          {Head(deploy[x].done) : x \in AtStep("forgetting")}
    BY <1>1, <2>2, <2>4
  <2>7. \A x \in AtStep("inserting")' : Wanted(x)' \in cluster'
    BY <1>1, <2>1, <2>2, <2>4 DEF StoreBacked
  <2>8. \A x \in AtStep("forgetting")' : Head(deploy'[x].done) \in cluster' =>
          Head(deploy'[x].done) \in orphans'
    BY <1>1, <2>1, <2>2, <2>3, <2>4 DEF StoreBacked
  <2>9. /\ cluster' \ store' \subseteq
             orphans' \cup {Wanted(x) : x \in AtStep("inserting")}'
        /\ store' \ cluster' \subseteq
             {Head(deploy[x].done) : x \in AtStep("forgetting")}'
    BY <1>0, <2>1, <2>5, <2>6 DEF StoreBacked
  <2> QED BY <2>7, <2>8, <2>9 DEF StoreBacked
<1>4. ASSUME NEW created \in BOOLEAN, CreateSecretFails(c, created) PROVE StoreBacked'
  <2>1. /\ \/ UNCHANGED <<cluster, orphans>>
           \/ cluster' = cluster \cup {Wanted(c)} /\ orphans' = orphans \cup {Wanted(c)}
        /\ deploy[c].step = "creating" /\ deploy'[c].step = "rolling back"
    BY <1>4 DEF CreateSecretFails, AgentTypes, DeployTypes, DeployCalls
  <2>2. /\ AtStep("inserting")' = AtStep("inserting")
        /\ AtStep("forgetting")' = AtStep("forgetting")
    BY <1>0, <2>1 DEF AtStep
  <2>4. AtStep("inserting") \subseteq Callers /\ AtStep("forgetting") \subseteq Callers
    BY DEF AtStep
  <2>5. {Wanted(x) : x \in AtStep("inserting")}' = {Wanted(x) : x \in AtStep("inserting")}
    BY <1>1, <2>2, <2>4
  <2>6. {Head(deploy[x].done) : x \in AtStep("forgetting")}' =
          {Head(deploy[x].done) : x \in AtStep("forgetting")}
    BY <1>1, <2>2, <2>4
  <2>7. \A x \in AtStep("inserting")' : Wanted(x)' \in cluster'
    BY <1>1, <2>1, <2>2, <2>4 DEF StoreBacked
  <2>8. \A x \in AtStep("forgetting")' : Head(deploy'[x].done) \in cluster' =>
          Head(deploy'[x].done) \in orphans'
    <3> SUFFICES ASSUME NEW x \in AtStep("forgetting"), Head(deploy[x].done) \in cluster'
                 PROVE  Head(deploy[x].done) \in orphans'
      BY <1>1, <2>2, <2>4
    <3>1. Head(deploy[x].done) \in cluster => Head(deploy[x].done) \in orphans
      BY DEF StoreBacked
    <3> QED BY <2>1, <3>1
  <2>9. /\ cluster' \ store' \subseteq
             orphans' \cup {Wanted(x) : x \in AtStep("inserting")}'
        /\ store' \ cluster' \subseteq
             {Head(deploy[x].done) : x \in AtStep("forgetting")}'
    BY <1>0, <2>1, <2>5, <2>6 DEF StoreBacked
  <2> QED BY <2>7, <2>8, <2>9 DEF StoreBacked
<1>5. ASSUME NEW deleted \in BOOLEAN, DeleteSecret(c, deleted) PROVE StoreBacked'
  <2> DEFINE ht == Head(deploy[c].done)
  <2>1. /\ \/ cluster' = cluster \ {ht} /\ orphans' = orphans
           \/ cluster' = cluster /\ orphans' = orphans \cup {ht}
        /\ deploy[c].step = "rolling back" /\ deploy'[c].step = "forgetting"
        /\ deploy[c].done # <<>>
    BY <1>5 DEF DeleteSecret, AgentTypes, DeployTypes, DeployCalls
  <2>2. /\ AtStep("inserting")' = AtStep("inserting")
        /\ AtStep("forgetting")' = AtStep("forgetting") \cup {c}
    BY <1>0, <2>1 DEF AtStep
  <2>3. \A x \in AtStep("inserting") : Wanted(x) # ht
    BY <1>0, <2>1, HandsDiffer DEF AtStep
  <2> HIDE DEF ht
  <2>4. AtStep("inserting") \subseteq Callers /\ AtStep("forgetting") \subseteq Callers
    BY DEF AtStep
  <2>5. {Wanted(x) : x \in AtStep("inserting")}' = {Wanted(x) : x \in AtStep("inserting")}
    BY <1>1, <2>2, <2>4
  <2>6. {Head(deploy[x].done) : x \in AtStep("forgetting")}' =
          {Head(deploy[x].done) : x \in AtStep("forgetting")} \cup {ht}
    BY <1>1, <2>2, <2>4 DEF ht
  <2>7. \A x \in AtStep("inserting")' : Wanted(x)' \in cluster'
    <3> SUFFICES ASSUME NEW x \in AtStep("inserting") PROVE Wanted(x) \in cluster'
      BY <1>1, <2>2, <2>4
    <3>1. Wanted(x) \in cluster /\ Wanted(x) # ht
      BY <2>3 DEF StoreBacked
    <3> QED BY <2>1, <3>1
  <2>8. \A x \in AtStep("forgetting")' : Head(deploy'[x].done) \in cluster' =>
          Head(deploy'[x].done) \in orphans'
    BY <1>1, <2>1, <2>2, <2>4 DEF StoreBacked, ht
  <2>9. /\ cluster' \ store' \subseteq
             orphans' \cup {Wanted(x) : x \in AtStep("inserting")}'
        /\ store' \ cluster' \subseteq
             {Head(deploy[x].done) : x \in AtStep("forgetting")}'
    BY <1>0, <2>1, <2>5, <2>6 DEF StoreBacked
  <2> QED BY <2>7, <2>8, <2>9 DEF StoreBacked
<1> QED BY <1>3, <1>4, <1>5 DEF Turn

(* So does what follows it in the store. *)
LEMMA StoreStepBacked ==
  ASSUME AgentTypes, OwnBatches, StoreBacked, NEW c \in Callers, Insert(c) \/ Forget(c)
  PROVE  StoreBacked'
<1>0. /\ UNCHANGED <<cluster, orphans>>
      /\ \A x \in Callers \ {c} : deploy'[x] = deploy[x]
  BY DEF Insert, Forget, AgentTypes, DeployTypes
<1>1. \A x \in Callers \ {c} : Wanted(x)' = Wanted(x)
  BY <1>0 DEF Wanted
<1>2. AtStep("inserting") \subseteq Callers /\ AtStep("forgetting") \subseteq Callers
  BY DEF AtStep
<1>3. CASE Insert(c)
  <2>1. /\ deploy[c].step = "inserting" /\ deploy'[c].step = "creating"
        /\ store' = store \cup {Wanted(c)}
    BY <1>3 DEF Insert, AgentTypes, DeployTypes, DeployCalls
  <2>2. /\ AtStep("inserting")' = AtStep("inserting") \ {c} /\ c \in AtStep("inserting")
        /\ AtStep("forgetting")' = AtStep("forgetting") /\ c \notin AtStep("forgetting")
    BY <1>0, <2>1 DEF AtStep
  <2>3. {Wanted(x) : x \in AtStep("inserting")} \subseteq
          {Wanted(x) : x \in AtStep("inserting")}' \cup {Wanted(c)}
    BY <1>1, <1>2, <2>2
  <2>4. {Head(deploy[x].done) : x \in AtStep("forgetting")}' =
          {Head(deploy[x].done) : x \in AtStep("forgetting")}
    BY <1>0, <1>2, <2>2
  <2>5. Wanted(c) \in cluster
    BY <2>2 DEF StoreBacked
  <2>6. \A x \in AtStep("inserting")' : Wanted(x)' \in cluster'
    BY <1>0, <1>1, <1>2, <2>2 DEF StoreBacked
  <2>7. \A x \in AtStep("forgetting")' : Head(deploy'[x].done) \in cluster' =>
          Head(deploy'[x].done) \in orphans'
    BY <1>0, <1>2, <2>2 DEF StoreBacked
  <2>8. /\ cluster' \ store' \subseteq
             orphans' \cup {Wanted(x) : x \in AtStep("inserting")}'
        /\ store' \ cluster' \subseteq
             {Head(deploy[x].done) : x \in AtStep("forgetting")}'
    BY <1>0, <2>1, <2>3, <2>4, <2>5 DEF StoreBacked
  <2> QED BY <2>6, <2>7, <2>8 DEF StoreBacked
<1>4. CASE Forget(c)
  <2> DEFINE ht == Head(deploy[c].done)
  <2>1. /\ deploy[c].step = "forgetting" /\ deploy'[c].step = "rolling back"
        /\ store' = store \ {ht}
    BY <1>4 DEF Forget, AgentTypes, DeployTypes, DeployCalls
  <2>2. /\ AtStep("inserting")' = AtStep("inserting") /\ c \notin AtStep("inserting")
        /\ AtStep("forgetting")' = AtStep("forgetting") \ {c} /\ c \in AtStep("forgetting")
    BY <1>0, <2>1 DEF AtStep
  <2>3. {Wanted(x) : x \in AtStep("inserting")}' = {Wanted(x) : x \in AtStep("inserting")}
    BY <1>1, <1>2, <2>2
  <2>4. {Head(deploy[x].done) : x \in AtStep("forgetting")} \subseteq
          {Head(deploy[x].done) : x \in AtStep("forgetting")}' \cup {ht}
    BY <1>0, <1>2, <2>2
  <2>5. ht \in cluster => ht \in orphans
    BY <2>2 DEF StoreBacked
  <2> HIDE DEF ht
  <2>6. \A x \in AtStep("inserting")' : Wanted(x)' \in cluster'
    BY <1>0, <1>1, <1>2, <2>2 DEF StoreBacked
  <2>7. \A x \in AtStep("forgetting")' : Head(deploy'[x].done) \in cluster' =>
          Head(deploy'[x].done) \in orphans'
    BY <1>0, <1>2, <2>2 DEF StoreBacked
  <2>8. /\ cluster' \ store' \subseteq
             orphans' \cup {Wanted(x) : x \in AtStep("inserting")}'
        /\ store' \ cluster' \subseteq
             {Head(deploy[x].done) : x \in AtStep("forgetting")}'
    BY <1>0, <2>1, <2>3, <2>4, <2>5 DEF StoreBacked
  <2> QED BY <2>6, <2>7, <2>8 DEF StoreBacked
<1> QED BY <1>3, <1>4

(* Every step keeps the store backed: calls begin and end between the steps *)
(* that leave a difference.                                                 *)
LEMMA StoreBackedStep ==
  ASSUME AgentTypes, CatalogueInv, DeploysOnce, StoreBacked, [Next]_vars PROVE StoreBacked'
<1>0. OwnBatches /\ deploy \in [Callers -> DeployCalls]
      /\ "discovery" \in Callers /\ \A a \in Accesses : a \in Callers
  BY DEF CatalogueInv, AgentTypes, DeployTypes, Callers
<1>1. ASSUME NEW c \in Callers, NEW d, deploy' = [deploy EXCEPT ![c] = d], UNCHANGED deployer,
             deploy[c].step \notin {"inserting", "forgetting"},
             d.step \notin {"inserting", "forgetting"}
      PROVE  StoreBacked'
  <2>1. deploy'[c] = d /\ \A x \in Callers \ {c} : deploy'[x] = deploy[x]
    BY <1>0, <1>1
  <2>2. \A x \in Callers \ {c} : Wanted(x)' = Wanted(x)
    BY <2>1 DEF Wanted
  <2>3. /\ AtStep("inserting")' = AtStep("inserting")
        /\ AtStep("forgetting")' = AtStep("forgetting")
        /\ AtStep("inserting") \subseteq Callers \ {c}
        /\ AtStep("forgetting") \subseteq Callers \ {c}
    BY <1>1, <2>1 DEF AtStep
  <2>4. {Wanted(x) : x \in AtStep("inserting")}' = {Wanted(x) : x \in AtStep("inserting")}
    BY <2>2, <2>3
  <2>5. {Head(deploy[x].done) : x \in AtStep("forgetting")}' =
          {Head(deploy[x].done) : x \in AtStep("forgetting")}
    BY <2>1, <2>3
  <2> QED BY <1>1, <2>1, <2>2, <2>3, <2>4, <2>5 DEF StoreBacked, deployer
<1>2. CASE UNCHANGED <<deployer, deploy>>
  BY <1>2 DEF deployer, StoreBacked, AtStep, Wanted
<1>3. ASSUME NEW c \in Callers, Deploying(c) PROVE StoreBacked'
  BY <1>0, <1>3, TurnBacked, StoreStepBacked DEF Deploying, Turn
<1>4. ASSUME NEW a \in Accesses, DeployHoneytokens(a) PROVE StoreBacked'
  <2>1. workflow[a].pc # "deploying"
    BY <1>4 DEF DeployHoneytokens, Responding, AtWorkflow
  <2>2. deploy[a].step = "idle" /\ Deployment(a, ReactivePod).step = "creating"
    BY <2>1 DEF DeploysOnce, Deployment
  <2>3. deploy' = [deploy EXCEPT ![a] = Deployment(a, ReactivePod)] /\ UNCHANGED deployer
    BY <1>4 DEF DeployHoneytokens
  <2> QED BY <1>0, <1>1, <2>2, <2>3
<1>5. ASSUME NEW a \in Accesses, HoneytokensDeployed(a) PROVE StoreBacked'
  <2>1. /\ deploy[a].step \in {"creating", "rolling back"} /\ NotDeploying.step = "idle"
        /\ deploy' = [deploy EXCEPT ![a] = NotDeploying] /\ UNCHANGED deployer
    BY <1>5 DEF HoneytokensDeployed, Succeeded, Failed, NotDeploying
  <2> QED BY <1>0, <1>1, <2>1
<1>6. ASSUME NEW p \in Pods, ServePod(p) PROVE StoreBacked'
  <2>1. deploy["discovery"].step = "idle"
    BY <1>0, <1>6 DEF ServePod, AtDiscovery, OwnBatches, Discovered
  <2>2. Deployment(discovery.cycle, p).step = "creating"
    BY DEF Deployment
  <2>3. /\ deploy' = [deploy EXCEPT !["discovery"] = Deployment(discovery.cycle, p)]
        /\ UNCHANGED deployer
    BY <1>6 DEF ServePod
  <2> QED BY <1>0, <1>1, <2>1, <2>2, <2>3
<1>7. CASE PodDeployed
  <2>1. /\ deploy["discovery"].step \in {"creating", "rolling back"}
        /\ NotDeploying.step = "idle" /\ UNCHANGED deployer
        /\ deploy' = [deploy EXCEPT !["discovery"] = NotDeploying]
    BY <1>7 DEF PodDeployed, Succeeded, Failed, NotDeploying
  <2> QED BY <1>0, <1>1, <2>1
<1> QED BY <1>2, <1>3, <1>4, <1>5, <1>6, <1>7, DeployFrame DEF DeployStep

(* What a workflow is through with it does not begin again. *)
ThroughDeploying(w) == Past(w) /\ "additional_honeytokens" \notin ElementsOf(w.todo)

(* A move of a workflow that neither starts nor collects a deployment. *)
LEMMA OtherMove ==
  ASSUME NEW a, NEW w \in Workflows, NEW n \in Workflows, WorkflowMove(a, w, n),
         ~DeployHoneytokens(a), ~HoneytokensDeployed(a)
  PROVE  /\ w.pc # "deploying"
         /\ ThroughDeploying(w) => ThroughDeploying(n)
<1>1. ASSUME NEW failed, Over(w, n, failed), Past(w)
      PROVE  ThroughDeploying(w) => ThroughDeploying(n)
  <2>1. w.todo \in Seq(Actions) /\ w.todo # <<>> /\ n.todo = Tail(w.todo)
        /\ n.pc = "responding"
    BY <1>1 DEF Over, Workflows
  <2>2. ElementsOf(Tail(w.todo)) \subseteq ElementsOf(w.todo)
    BY <2>1, TailElements
  <2> QED BY <2>1, <2>2 DEF ThroughDeploying, Past
<1>2. Kept(w, n) /\ Past(n) => (ThroughDeploying(w) => ThroughDeploying(n))
  BY DEF Kept, ThroughDeploying
<1>3. CASE ~Past(w)
  BY <1>3 DEF Past, ThroughDeploying
<1>4. CASE w.pc = "responding" \/ w.pc = "retrying"
  <2>1. Past(w) /\ w.pc # "deploying"
    BY <1>4 DEF Past
  <2>2. \/ Kept(w, n) /\ Past(n)
        \/ \E failed : Over(w, n, failed)
    BY <1>4 DEF WorkflowMove, Past
  <2> QED BY <1>1, <1>2, <2>1, <2>2
<1>5. CASE w.pc = "logging"
  <2>1. Kept(w, n) /\ Past(n)
    BY <1>5 DEF WorkflowMove, Past
  <2> QED BY <1>2, <1>5, <2>1
<1>6. w.pc # "deploying"
  BY DEF WorkflowMove
<1>7. Past(w) => w.pc \in {"responding", "retrying", "logging"}
  BY DEF WorkflowMove, Past
<1> QED BY <1>3, <1>4, <1>5, <1>6, <1>7

(* A workflow whose deployment is over is through with deploying. *)
LEMMA DeploymentOver ==
  ASSUME NEW w \in Workflows, NEW n \in Workflows, Over(w, n, {}), Distinct(w.todo),
         Head(w.todo) = "additional_honeytokens"
  PROVE  ThroughDeploying(n)
<1>1. w.todo \in Seq(Actions) /\ w.todo # <<>> /\ n.todo = Tail(w.todo) /\ n.pc = "responding"
  BY DEF Over, Workflows
<1>2. Head(w.todo) \notin ElementsOf(Tail(w.todo))
  BY <1>1, TailDistinct
<1> QED BY <1>1, <1>2 DEF ThroughDeploying, Past

(* A step that leaves deployments and store alone leaves the workflows that   *)
(* deploy in that state.                                                      *)
LEMMA DeploysOnceOther ==
  ASSUME AgentTypes, AgentTypes', DeploysOnce, [Next]_vars,
         \A a \in Accesses : ~DeployHoneytokens(a) /\ ~HoneytokensDeployed(a)
  PROVE  \A x \in Accesses :
           /\ workflow[x].pc = "deploying" => workflow'[x].pc = "deploying"
           /\ ThroughDeploying(workflow[x]) => ThroughDeploying(workflow'[x])
<1>1. CASE UNCHANGED workflow
  BY <1>1
<1>2. ASSUME NEW a \in Accesses, NEW pod \in Pods, NEW path \in Paths, NEW full \in BOOLEAN,
             Detect(a, pod, path, full),
             NEW x \in Accesses
      PROVE  /\ workflow[x].pc = "deploying" => workflow'[x].pc = "deploying"
             /\ ThroughDeploying(workflow[x]) => ThroughDeploying(workflow'[x])
  <2>1. workflow[a].pc = "undetected" /\ \A y \in Accesses \ {a} : workflow'[y] = workflow[y]
    BY <1>2 DEF Detect, AtWorkflow, AgentTypes, WorkflowTypes
  <2> QED BY <2>1 DEF ThroughDeploying, Past
<1>3. ASSUME NEW a \in Accesses, Working(a), NEW x \in Accesses
      PROVE  /\ workflow[x].pc = "deploying" => workflow'[x].pc = "deploying"
             /\ ThroughDeploying(workflow[x]) => ThroughDeploying(workflow'[x])
  <2>1. /\ WorkflowMove(a, workflow[a], workflow'[a])
        /\ \A y \in Accesses \ {a} : workflow'[y] = workflow[y]
    BY <1>3, WorkingEffect
  <2>2. workflow[a] \in Workflows /\ workflow'[a] \in Workflows
    BY DEF AgentTypes, WorkflowTypes
  <2>3. /\ workflow[a].pc # "deploying"
        /\ ThroughDeploying(workflow[a]) => ThroughDeploying(workflow'[a])
    BY <2>1, <2>2, OtherMove
  <2> QED BY <2>1, <2>3
<1> QED BY <1>1, <1>2, <1>3, WorkflowFrame DEF WorkflowStep

(* Every step keeps a workflow to one deployment. *)
LEMMA DeploysOnceStep ==
  ASSUME AgentTypes, AgentTypes', CatalogueInv, ResponseInv, DeploysOnce, [Next]_vars
  PROVE  DeploysOnce'
<1>0. /\ \A a \in Accesses : a \in Callers /\ a # "discovery"
      /\ Cycles \cap Accesses = {} /\ discovery.cycle \in Cycles
      /\ workflow \in [Accesses -> Workflows]
  BY AgentAssumption DEF Callers, Cycles, AgentTypes, DiscoveryTypes, Discoveries, WorkflowTypes
<1>1. ASSUME NEW a \in Accesses, DeployHoneytokens(a) PROVE DeploysOnce'
  <2>1. /\ workflow' = [workflow EXCEPT ![a].pc = "deploying"] /\ store' = store
        /\ deploy' = [deploy EXCEPT ![a] = Deployment(a, ReactivePod)]
    BY <1>1 DEF DeployHoneytokens, deployer
  <2>2. /\ workflow'[a].pc = "deploying"
        /\ \A x \in Accesses \ {a} : workflow'[x] = workflow[x] /\ deploy'[x] = deploy[x]
    BY <1>0, <2>1 DEF Workflows, AgentTypes, DeployTypes
  <2> QED BY <2>1, <2>2 DEF DeploysOnce
<1>2. ASSUME NEW a \in Accesses, HoneytokensDeployed(a) PROVE DeploysOnce'
  <2>1. store' = store /\ deploy' = [deploy EXCEPT ![a] = NotDeploying] /\ Working(a)
    BY <1>2 DEF HoneytokensDeployed, deployer, Working
  <2>2. /\ workflow[a].pc = "deploying" /\ workflow[a].todo # <<>> /\ NextAction(a, {})
    BY <1>2 DEF HoneytokensDeployed, AtWorkflow, AgentTypes, WorkflowTypes
  <2>3. /\ Over(workflow[a], workflow'[a], {})
        /\ \A x \in Accesses \ {a} : workflow'[x] = workflow[x]
    BY <2>2, NextActionOver DEF AgentTypes
  <2>4. deploy'[a].step = "idle" /\ \A x \in Accesses \ {a} : deploy'[x] = deploy[x]
    BY <1>0, <2>1 DEF AgentTypes, DeployTypes, NotDeploying
  <2>5. ThroughDeploying(workflow'[a])
    <3>1. Distinct(workflow[a].todo) /\ Head(workflow[a].todo) = "additional_honeytokens"
      BY <2>2 DEF ResponseInv, ResponseRec
    <3>2. workflow[a] \in Workflows /\ workflow'[a] \in Workflows
      BY DEF AgentTypes, WorkflowTypes
    <3> QED BY <2>3, <3>1, <3>2, DeploymentOver
  <2> QED BY <2>1, <2>3, <2>4, <2>5 DEF DeploysOnce, ThroughDeploying
<1>3. ASSUME \A a \in Accesses : ~DeployHoneytokens(a) /\ ~HoneytokensDeployed(a),
             \A a \in Accesses : deploy'[a].step # "idle" => deploy[a].step # "idle",
             \A h \in store' : h \in store \/
               (h.by \in Accesses => workflow[h.by].pc = "deploying")
      PROVE  DeploysOnce'
  <2>1. \A x \in Accesses :
          /\ workflow[x].pc = "deploying" => workflow'[x].pc = "deploying"
          /\ ThroughDeploying(workflow[x]) => ThroughDeploying(workflow'[x])
    BY <1>3, DeploysOnceOther
  <2>2. \A h \in store : h.by \in Accesses =>
          workflow[h.by].pc = "deploying" \/ ThroughDeploying(workflow[h.by])
    BY DEF DeploysOnce, ThroughDeploying
  <2>3. \A h \in store' : h.by \in Accesses =>
          workflow'[h.by].pc = "deploying" \/ ThroughDeploying(workflow'[h.by])
    BY <1>3, <2>1, <2>2
  <2> QED BY <1>3, <2>1, <2>3 DEF DeploysOnce, ThroughDeploying
<1>4. CASE \A a \in Accesses : ~DeployHoneytokens(a) /\ ~HoneytokensDeployed(a)
  <2>1. CASE UNCHANGED <<deployer, deploy>>
    BY <1>3, <1>4, <2>1 DEF deployer
  <2>2. ASSUME NEW c \in Callers, Deploying(c) PROVE DeploysOnce'
    <3>1. CASE Insert(c)
      <4> PICK ht \in Honeytokens :
                 /\ ht.by = deploy[c].by /\ ht.pod = deploy[c].pod
                 /\ store' = store \cup {ht}
                 /\ deploy[c].step = "inserting" /\ deploy'[c].step = "creating"
                 /\ deploy'[c].by = deploy[c].by /\ deploy'[c].pod = deploy[c].pod
                 /\ ElementsOf(deploy'[c].done) = ElementsOf(deploy[c].done) \cup {ht}
                 /\ \A x \in Callers \ {c} : deploy'[x] = deploy[x]
                 /\ UNCHANGED <<discovery, registry, watched>>
        BY <3>1, InsertEffect DEF AgentTypes
      <4>1. ht.by \in Accesses => workflow[ht.by].pc = "deploying"
        BY <1>0 DEF CatalogueInv, OwnBatches, Discovered, DeploysOnce, Callers
      <4> QED BY <1>0, <1>3, <1>4, <4>1
    <3>2. CASE Turn(c)
      <4>1. /\ deploy[c].step # "idle" /\ store' = store
            /\ \A x \in Callers \ {c} : deploy'[x] = deploy[x]
        BY <3>2, TurnEffect
      <4> QED BY <1>0, <1>3, <1>4, <4>1
    <3>3. CASE Forget(c)
      <4>1. /\ deploy[c].step # "idle" /\ store' \subseteq store
            /\ \A x \in Callers \ {c} : deploy'[x] = deploy[x]
        BY <3>3 DEF Forget, AgentTypes, DeployTypes
      <4> QED BY <1>0, <1>3, <1>4, <4>1
    <3> QED BY <2>2, <3>1, <3>2, <3>3 DEF Deploying, Turn
  <2>3. ASSUME NEW p \in Pods, ServePod(p) PROVE DeploysOnce'
    <3>1. store' = store /\ \A x \in Accesses : deploy'[x] = deploy[x]
      BY <1>0, <2>3 DEF ServePod, deployer, AgentTypes, DeployTypes
    <3> QED BY <1>3, <1>4, <3>1
  <2>4. CASE PodDeployed
    <3>1. store' = store /\ \A x \in Accesses : deploy'[x] = deploy[x]
      BY <1>0, <2>4 DEF PodDeployed, deployer, AgentTypes, DeployTypes
    <3> QED BY <1>3, <1>4, <3>1
  <2> QED BY <1>4, <2>1, <2>2, <2>3, <2>4, DeployFrame DEF DeployStep
<1> QED BY <1>1, <1>2, <1>4

(* A deployment is all or nothing, however the calls of the discovery cycle   *)
(* and of the responses interleave, between a request and the update of       *)
(* the store too, and whichever of the requests fail, with or without effect: *)
(* outside a deployment the store has a whole batch or none of it, and what   *)
(* it and the cluster do not share is on its way into the store or out of it  *)
(* or was orphaned by a failed request (deployer.go Deploy, rollback).        *)
THEOREM DeploymentsAreAllOrNothing == Spec => []DeployAllOrNothing
<1>1. Init => ResponseInv /\ DeploymentInv
  <2> SUFFICES ASSUME Init PROVE ResponseInv /\ DeploymentInv
    OBVIOUS
  <2>1. ResponseInv
    BY ResponseInit
  <2>2. store = {} /\ cluster = {} /\ \A c \in Callers : deploy[c].step = "idle"
    BY DEF Init, NotDeploying
  <2>3. \A a \in Accesses : a \in Callers
    BY DEF Callers
  <2>4. Batches
    BY <2>2 DEF Batches, InHand, Progressing, BatchesWhole, Making
  <2> QED BY <2>1, <2>2, <2>3, <2>4 DEF DeploymentInv, DeploysOnce, StoreBacked, AtStep
<1>2. DeploymentInv => DeployAllOrNothing
  BY DEF DeploymentInv, Batches, BatchesWhole, StoreBacked, DeployAllOrNothing
<1>3. AgentTypes /\ AgentTypes' /\ ResponseInv /\ [Next]_vars => ResponseInv'
  BY ResponseStep
<1>4. AgentTypes /\ CatalogueInv /\ [Next]_vars => CatalogueInv'
  BY CatalogueStep
<1>5. AgentTypes /\ AgentTypes' /\ CatalogueInv /\ ResponseInv /\ DeploymentInv /\ [Next]_vars
        => DeploymentInv'
  BY BatchesStep, DeploysOnceStep, StoreBackedStep DEF DeploymentInv
<1> QED BY <1>1, <1>2, <1>3, <1>4, <1>5, CatalogueInit, TypesInvariant, PTL DEF Spec

-----------------------------------------------------------------------------
(* The accesses the registry counts *)

(* The deployment of the discovery goroutine makes no honeytoken twice: the  *)
(* placements of a service are different paths.                              *)
PathsApart ==
  Discovered.step \in Making =>
    /\ Distinct(Discovered.left) /\ Distinct(Discovered.done)
    /\ \A h \in ElementsOf(Discovered.done) : h.path \notin ElementsOf(Discovered.left)

(* What is still to be registered is new, so that registering it resets no   *)
(* count.                                                                    *)
AddingNew ==
  /\ Distinct(discovery.adding)
  /\ discovery.pc = "registering" =>
       ElementsOf(discovery.adding) \cap DOMAIN registry = {}
  /\ discovery.pc = "watching" =>
       ElementsOf(Tail(discovery.adding)) \cap DOMAIN registry = {}

RegistrationInv == PathsApart /\ AddingNew

Counts(h, a) == h \in DOMAIN registry /\ a \in registry[h]

TriggerInv ==
  \A a \in Accesses :
    /\ \A h : Counts(h, a) =>
         Past(workflow[a]) /\ h.pod = workflow[a].pod /\ h.path = workflow[a].path
    /\ \A h, k : Counts(h, a) /\ Counts(k, a) => h = k
    /\ workflow[a].known =>
         \E h \in DOMAIN registry : h.pod = workflow[a].pod /\ h.path = workflow[a].path
    /\ Past(workflow[a]) /\ workflow[a].known => \E h : Counts(h, a)

(* A sequence with a new element at its end has still no element twice. *)
LEMMA AppendDistinct ==
  ASSUME NEW S, NEW s \in Seq(S), NEW e \in S, Distinct(s), e \notin ElementsOf(s)
  PROVE  Distinct(Append(s, e))
<1>1. Len(s) \in Nat /\ DOMAIN s = 1..Len(s)
  BY LenProperties
<1> DEFINE t == Append(s, e)
<1>2. /\ t \in Seq(S) /\ Len(t) = Len(s) + 1
      /\ \A i \in 1..Len(s) : t[i] = s[i]
      /\ t[Len(s) + 1] = e
  BY AppendProperties
<1>3. DOMAIN t = 1..(Len(s) + 1)
  BY <1>2, LenProperties
<1>4. \A i \in 1..Len(s) : s[i] # e
  BY <1>1 DEF ElementsOf
<1> HIDE DEF t
<1> SUFFICES ASSUME NEW i \in 1..(Len(s) + 1), NEW j \in 1..(Len(s) + 1), t[i] = t[j]
             PROVE  i = j
  BY <1>3 DEF Distinct, t
<1>5. (i \in 1..Len(s) \/ i = Len(s) + 1) /\ (j \in 1..Len(s) \/ j = Len(s) + 1)
  BY <1>1
<1>6. CASE i \in 1..Len(s) /\ j \in 1..Len(s)
  BY <1>1, <1>2, <1>6 DEF Distinct
<1>7. CASE i = Len(s) + 1 \/ j = Len(s) + 1
  BY <1>1, <1>2, <1>4, <1>5, <1>7
<1> QED BY <1>5, <1>6, <1>7

(* Every step keeps the paths of a deployment apart. *)
LEMMA PathsApartStep ==
  ASSUME AgentTypes, CatalogueInv, PathsApart, [Next]_vars PROVE PathsApart'
<1>0. "discovery" \in Callers /\ DeployTypes /\ discovery \in Discoveries
      /\ "discovery" \notin Accesses
  BY AgentAssumption DEF Callers, AgentTypes, DiscoveryTypes
<1>1. CASE deploy'["discovery"] = deploy["discovery"]
  BY <1>1 DEF PathsApart, Discovered, Making
<1>2. ASSUME NEW c \in Callers, Deploying(c) PROVE PathsApart'
  <2>1. CASE c # "discovery"
    <3>1. deploy'["discovery"] = deploy["discovery"]
      BY <1>0, <1>2, <2>1 DEF Deploying, CreateSecret, Insert, CreateSecretFails, DeleteSecret, Forget, DeployTypes
    <3> QED BY <1>1, <3>1
  <2>2. CASE c = "discovery" /\ Insert(c)
    <3> DEFINE d == deploy[c]
               e == deploy'[c]
    <3>0. d \in DeployCalls /\ Insert(c)
      BY <1>0, <2>2 DEF DeployTypes
    <3> PICK ht \in Honeytokens :
               /\ ht = [by |-> deploy[c].by, pod |-> deploy[c].pod, path |-> Head(deploy[c].left)]
               /\ store' = store \cup {ht}
               /\ UNCHANGED <<cluster, orphans, discovery, registry, workflow>>
               /\ deploy[c].step = "inserting" /\ deploy[c].left # <<>>
               /\ deploy'[c].step = "creating"
               /\ deploy'[c].by = deploy[c].by /\ deploy'[c].pod = deploy[c].pod
               /\ deploy'[c].left = Tail(deploy[c].left)
               /\ deploy'[c].done = Append(deploy[c].done, ht)
               /\ \A x \in Callers \ {c} : deploy'[x] = deploy[x]
      BY <1>0, <3>0, InsertDetail
    <3>1. /\ d.step = "inserting" /\ d.left # <<>> /\ e.left = Tail(d.left)
          /\ e.done = Append(d.done, ht) /\ ht.path = Head(d.left)
          /\ d.left \in Seq(Paths) /\ d.done \in Seq(Honeytokens)
      BY <3>0 DEF DeployCalls
    <3>2. /\ Distinct(d.left) /\ Distinct(d.done)
          /\ \A h \in ElementsOf(d.done) : h.path \notin ElementsOf(d.left)
      BY <2>2, <3>1 DEF PathsApart, Discovered, Making
    <3> HIDE DEF d, e
    <3>3. /\ Distinct(e.left) /\ Head(d.left) \notin ElementsOf(e.left)
          /\ Head(d.left) \in ElementsOf(d.left)
          /\ ElementsOf(e.left) \subseteq ElementsOf(d.left)
      BY <3>1, <3>2, TailDistinct, TailElements
    <3>4. ht \notin ElementsOf(d.done)
      BY <3>1, <3>2, <3>3
    <3>5. Distinct(e.done) /\ ElementsOf(e.done) = ElementsOf(d.done) \cup {ht}
      BY <3>1, <3>2, <3>4, AppendDistinct, AppendElements
    <3>6. \A h \in ElementsOf(e.done) : h.path \notin ElementsOf(e.left)
      BY <3>1, <3>2, <3>3, <3>5
    <3> QED BY <2>2, <3>3, <3>5, <3>6 DEF PathsApart, Discovered, Making, e
  <2>3. CASE c = "discovery" /\ Turn(c)
    <3>1. /\ deploy'[c].left = deploy[c].left /\ deploy'[c].done = deploy[c].done
          /\ deploy'[c].step \in Making => deploy[c].step \in Making
      BY <2>3, TurnEffect DEF Making
    <3> QED BY <2>3, <3>1 DEF PathsApart, Discovered
  <2>4. CASE c = "discovery" /\ Forget(c)
    <3>1. deploy'[c].step = "rolling back"
      BY <1>0, <2>4, ForgetEffect
    <3> QED BY <2>4, <3>1 DEF PathsApart, Discovered, Making
  <2> QED BY <1>2, <2>1, <2>2, <2>3, <2>4 DEF Deploying, Turn
<1>3. ASSUME NEW p \in Pods, ServePod(p) PROVE PathsApart'
  <2>1. deploy'["discovery"] = Deployment(discovery.cycle, p)
    BY <1>0, <1>3 DEF ServePod, DeployTypes
  <2>2. discovery.cycle \notin Accesses
    BY <1>0, AgentAssumption DEF Discoveries, Cycles
  <2>3. /\ deploy'["discovery"].left = Placements /\ deploy'["discovery"].done = <<>>
    BY <2>1, <2>2 DEF Deployment, PlacementsOf
  <2>4. Distinct(Placements)
    BY AgentAssumption DEF Distinct
  <2>5. Distinct(<<>>)
    BY DEF Distinct
  <2> QED BY <2>3, <2>4, <2>5, NoElements DEF PathsApart, Discovered, Making
<1>4. CASE PodDeployed
  <2>1. deploy'["discovery"].step = "idle"
    BY <1>0, <1>4 DEF PodDeployed, DeployTypes, NotDeploying
  <2> QED BY <2>1 DEF PathsApart, Discovered, Making
<1>5. ASSUME NEW a \in Accesses, DeployHoneytokens(a) \/ HoneytokensDeployed(a)
      PROVE  PathsApart'
  BY <1>0, <1>1, <1>5 DEF DeployHoneytokens, HoneytokensDeployed, DeployTypes
<1> QED BY <1>1, <1>2, <1>3, <1>4, <1>5, DeployFrame DEF DeployStep

(* Every step keeps what is to be registered new. *)
LEMMA AddingNewStep ==
  ASSUME AgentTypes, CatalogueInv, RegistrationInv, [Next]_vars PROVE AddingNew'
<1> USE DEF RegistrationInv
<1>0. discovery \in Discoveries /\ "discovery" \in Callers
  BY DEF AgentTypes, DiscoveryTypes, Callers
<1>1. ASSUME UNCHANGED discovery, DOMAIN registry' = DOMAIN registry PROVE AddingNew'
  BY <1>1 DEF AddingNew
<1>2. ASSUME NEW a \in Accesses, MarkTriggered(a) PROVE AddingNew'
  BY <1>1, <1>2 DEF MarkTriggered
<1>3. ASSUME discovery'.adding = discovery.adding,
             ~(discovery'.pc \in {"registering", "watching"})
      PROVE  AddingNew'
  BY <1>3 DEF AddingNew
<1>4. CASE PodDeployed
  <2>1. discovery.pc = "deploying" /\ registry' = registry
    BY <1>4 DEF PodDeployed, AtDiscovery, catalogue
  <2>2. CASE Failed("discovery")
    <3>1. discovery'.pc = "serving" /\ discovery'.adding = discovery.adding
      BY <1>0, <1>4, <2>2 DEF PodDeployed, Failed, Succeeded, Discoveries
    <3> QED BY <1>3, <3>1
  <2>3. CASE Succeeded("discovery")
    <3>1. /\ discovery'.pc = "registering" /\ discovery'.adding = Discovered.done
          /\ Discovered.step = "creating"
      BY <1>0, <1>4, <2>3 DEF PodDeployed, Failed, Succeeded, Discovered, Discoveries
    <3>2. \A h \in ElementsOf(Discovered.done) : h.by = discovery.cycle /\ h.pod = Discovered.pod
      BY <1>0, <2>1, <3>1 DEF CatalogueInv, OwnBatches, Discovered
    <3>3. \A h \in DOMAIN registry : h.by = discovery.cycle => h.pod # Discovered.pod
      BY <2>1 DEF CatalogueInv, EntriesSettled
    <3>4. Distinct(Discovered.done)
      BY <3>1 DEF PathsApart, Making
    <3> QED BY <2>1, <3>1, <3>2, <3>3, <3>4 DEF AddingNew
  <2> QED BY <1>4, <2>2, <2>3 DEF PodDeployed
<1>5. CASE Register
  <2> DEFINE ht   == Head(discovery.adding)
             rest == Tail(discovery.adding)
  <2>1. /\ discovery.pc = "registering" /\ discovery'.pc = "watching"
        /\ discovery'.adding = discovery.adding
        /\ DOMAIN registry' = DOMAIN registry \cup {ht}
    BY <1>0, <1>5 DEF Register, AtDiscovery, Discoveries
  <2>2. discovery.adding \in Seq(Honeytokens) /\ discovery.adding # <<>>
    BY <1>0, <2>1 DEF AgentTypes, DiscoveryTypes, Discoveries
  <2>3. /\ ht \notin ElementsOf(rest) /\ ElementsOf(rest) \subseteq ElementsOf(discovery.adding)
    BY <2>2, TailDistinct, TailElements DEF AddingNew
  <2>4. ElementsOf(discovery.adding) \cap DOMAIN registry = {}
    BY <2>1 DEF AddingNew
  <2>5. Distinct(discovery'.adding)
    BY <2>1 DEF AddingNew
  <2> HIDE DEF ht
  <2>6. ElementsOf(rest) \cap DOMAIN registry' = {}
    BY <2>1, <2>3, <2>4
  <2> QED BY <2>1, <2>5, <2>6 DEF AddingNew
<1>6. CASE RegisterPath
  <2> DEFINE rest == Tail(discovery.adding)
  <2>1. /\ discovery.pc = "watching" /\ discovery'.pc \in {"serving", "registering"}
        /\ discovery'.adding = rest /\ registry' = registry
    BY <1>0, <1>6 DEF RegisterPath, AtDiscovery, Discoveries
  <2>2. discovery.adding \in Seq(Honeytokens) /\ discovery.adding # <<>>
    BY <1>0, <2>1 DEF AgentTypes, DiscoveryTypes, Discoveries
  <2>3. Distinct(rest)
    BY <2>2, TailDistinct DEF AddingNew
  <2>4. ElementsOf(rest) \cap DOMAIN registry = {}
    BY <2>1 DEF AddingNew
  <2> QED BY <2>1, <2>3, <2>4 DEF AddingNew
<1>7. ASSUME NEW found \in SUBSET Pods, Discover(found) PROVE AddingNew'
  BY <1>0, <1>3, <1>7 DEF Discover, Discoveries
<1>8. ASSUME NEW p \in Pods, ServePod(p) PROVE AddingNew'
  BY <1>0, <1>3, <1>8 DEF ServePod, Discoveries
<1>9. CASE LogDiscovery \/ DiscoveryEnds \/ NextCycle
  <2>1. /\ discovery'.adding = discovery.adding
        /\ ~(discovery'.pc \in {"registering", "watching"})
    BY <1>0, <1>9 DEF LogDiscovery, DiscoveryEnds, NextCycle, Discoveries
  <2> QED BY <1>3, <2>1
<1>10. CASE UNCHANGED <<discovery, catalogue>>
  BY <1>1, <1>10 DEF catalogue
<1> QED
  BY <1>2, <1>4, <1>5, <1>6, <1>7, <1>8, <1>9, <1>10, DiscoveryFrame DEF DiscoveryStep, Discovering

(* A step that counts nothing and marks nobody. *)
LEMMA TriggerFrame ==
  ASSUME TriggerInv, DOMAIN registry \subseteq DOMAIN registry',
         \A h : \A a \in Accesses : Counts(h, a)' <=> Counts(h, a),
         \A a \in Accesses :
           /\ SameAccess(workflow[a], workflow'[a])
           /\ Past(workflow'[a]) <=> Past(workflow[a])
  PROVE  TriggerInv'
<1> SUFFICES ASSUME NEW a \in Accesses
             PROVE  /\ \A h : Counts(h, a)' => /\ Past(workflow'[a]) /\ h.pod = workflow'[a].pod
                                               /\ h.path = workflow'[a].path
                    /\ \A h, k : Counts(h, a)' /\ Counts(k, a)' => h = k
                    /\ workflow'[a].known =>
                         \E h \in DOMAIN registry' :
                           h.pod = workflow'[a].pod /\ h.path = workflow'[a].path
                    /\ Past(workflow'[a]) /\ workflow'[a].known => \E h : Counts(h, a)'
  BY DEF TriggerInv
<1> QED BY DEF TriggerInv, SameAccess

(* An access is counted once, at an entry of its pod and path. *)
LEMMA TriggerMark ==
  ASSUME AgentTypes, TriggerInv, NEW a \in Accesses, MarkTriggered(a)
  PROVE  TriggerInv'
<1>1. /\ workflow[a].pc = "marking" /\ workflow'[a].pc = "responding"
      /\ SameAccess(workflow[a], workflow'[a])
      /\ \A x \in Accesses \ {a} : workflow'[x] = workflow[x]
  <2>1. Working(a)
    BY DEF Working
  <2>2. /\ WorkflowMove(a, workflow[a], workflow'[a])
        /\ \A x \in Accesses \ {a} : workflow'[x] = workflow[x]
    BY <2>1, WorkingEffect
  <2>3. workflow[a].pc = "marking" /\ workflow'[a].pc = "responding"
    BY <2>2 DEF MarkTriggered, AtWorkflow, AgentTypes, WorkflowTypes, Workflows
  <2> QED BY <2>2, <2>3 DEF WorkflowMove
<1>2. ~Past(workflow[a]) /\ Past(workflow'[a]) /\ \A h : ~Counts(h, a)
  BY <1>1 DEF Past, TriggerInv
<1>3. CASE Entries(a) = {} /\ UNCHANGED registry
  <2>1. \A h : \A x \in Accesses : Counts(h, x)' <=> Counts(h, x)
    BY <1>3 DEF Counts
  <2>2. ~workflow[a].known
    BY <1>3 DEF TriggerInv, Entries
  <2> QED BY <1>1, <1>2, <1>3, <2>1, <2>2 DEF TriggerInv, SameAccess
<1>4. ASSUME NEW e \in Entries(a), registry' = [registry EXCEPT ![e] = @ \cup {a}]
      PROVE  TriggerInv'
  <2>1. e \in DOMAIN registry /\ e.pod = workflow[a].pod /\ e.path = workflow[a].path
    BY DEF Entries
  <2>2. /\ DOMAIN registry' = DOMAIN registry
        /\ \A h \in DOMAIN registry :
             registry'[h] = IF h = e THEN registry[h] \cup {a} ELSE registry[h]
    BY <1>4
  <2>3. \A h : \A x \in Accesses \ {a} : Counts(h, x)' <=> Counts(h, x)
    BY <2>1, <2>2 DEF Counts
  <2>4. \A h : Counts(h, a)' <=> h = e
    BY <1>2, <2>1, <2>2 DEF Counts
  <2>5. ASSUME NEW x \in Accesses
        PROVE  /\ \A h : Counts(h, x)' => /\ Past(workflow'[x]) /\ h.pod = workflow'[x].pod
                                          /\ h.path = workflow'[x].path
               /\ \A h, k : Counts(h, x)' /\ Counts(k, x)' => h = k
               /\ workflow'[x].known =>
                    \E h \in DOMAIN registry' :
                      h.pod = workflow'[x].pod /\ h.path = workflow'[x].path
               /\ Past(workflow'[x]) /\ workflow'[x].known => \E h : Counts(h, x)'
    <3>1. CASE x = a
      BY <1>1, <1>2, <2>1, <2>2, <2>4, <3>1 DEF SameAccess
    <3>2. CASE x # a
      BY <1>1, <2>2, <2>3, <3>2 DEF TriggerInv
    <3> QED BY <3>1, <3>2
  <2> QED BY <2>5 DEF TriggerInv
<1> QED BY <1>3, <1>4 DEF MarkTriggered

(* Every step keeps the counts. *)
LEMMA TriggerStep ==
  ASSUME AgentTypes, AgentTypes', RegistrationInv, TriggerInv, [Next]_vars PROVE TriggerInv'
<1>0. discovery \in Discoveries /\ workflow \in [Accesses -> Workflows]
  BY DEF AgentTypes, DiscoveryTypes, WorkflowTypes
<1>1. ASSUME registry' = registry,
             \A a \in Accesses : /\ SameAccess(workflow[a], workflow'[a])
                                 /\ Past(workflow'[a]) <=> Past(workflow[a])
      PROVE  TriggerInv'
  <2>1. \A h : \A a \in Accesses : Counts(h, a)' <=> Counts(h, a)
    BY <1>1 DEF Counts
  <2> QED BY <1>1, <2>1, TriggerFrame
<1>2. CASE UNCHANGED <<workflow, registry>>
  BY <1>1, <1>2 DEF SameAccess
<1>3. CASE Register
  <2> DEFINE ht == Head(discovery.adding)
  <2>1. /\ workflow' = workflow /\ discovery.pc = "registering"
        /\ registry' = [h \in DOMAIN registry \cup {ht} |-> IF h = ht THEN {} ELSE registry[h]]
    BY <1>3 DEF Register, AtDiscovery
  <2>2. discovery.adding \in Seq(Honeytokens) /\ discovery.adding # <<>>
    BY <1>0, <2>1 DEF AgentTypes, DiscoveryTypes, Discoveries
  <2>3. ht \in ElementsOf(discovery.adding)
    BY <2>2, TailElements
  <2>4. ht \notin DOMAIN registry
    BY <2>1, <2>3 DEF RegistrationInv, AddingNew
  <2> HIDE DEF ht
  <2>5. \A h : \A a \in Accesses : Counts(h, a)' <=> Counts(h, a)
    BY <2>1, <2>4 DEF Counts
  <2>6. DOMAIN registry \subseteq DOMAIN registry'
    BY <2>1
  <2> QED BY <2>1, <2>5, <2>6, TriggerFrame DEF SameAccess
<1>4. ASSUME NEW a \in Accesses, NEW pod \in Pods, NEW path \in Paths, NEW full \in BOOLEAN,
             Detect(a, pod, path, full)
      PROVE  TriggerInv'
  <2> DEFINE known == \E h \in DOMAIN registry : h.pod = pod /\ h.path = path
  <2>1. /\ workflow[a].pc = "undetected" /\ registry' = registry
        /\ workflow' = [workflow EXCEPT ![a].pc = "assessing", ![a].pod = pod,
                                        ![a].path = path, ![a].full = full,
                                        ![a].known = known]
    BY <1>4 DEF Detect, AtWorkflow, catalogue
  <2> HIDE DEF known
  <2>2. /\ workflow'[a].pc = "assessing" /\ workflow'[a].pod = pod
        /\ workflow'[a].path = path /\ workflow'[a].known = known
        /\ \A x \in Accesses \ {a} : workflow'[x] = workflow[x]
    BY <1>0, <2>1 DEF Workflows
  <2>3. ~Past(workflow[a]) /\ ~Past(workflow'[a]) /\ \A h : ~Counts(h, a)
    BY <2>1, <2>2 DEF Past, TriggerInv
  <2>4. \A h : \A x \in Accesses : Counts(h, x)' <=> Counts(h, x)
    BY <2>1 DEF Counts
  <2>5. ASSUME NEW x \in Accesses
        PROVE  /\ \A h : Counts(h, x)' => /\ Past(workflow'[x]) /\ h.pod = workflow'[x].pod
                                          /\ h.path = workflow'[x].path
               /\ \A h, k : Counts(h, x)' /\ Counts(k, x)' => h = k
               /\ workflow'[x].known =>
                    \E h \in DOMAIN registry' :
                      h.pod = workflow'[x].pod /\ h.path = workflow'[x].path
               /\ Past(workflow'[x]) /\ workflow'[x].known => \E h : Counts(h, x)'
    <3>1. CASE x = a
      BY <2>1, <2>2, <2>3, <2>4, <3>1 DEF known
    <3>2. CASE x # a
      <4>1. registry' = registry /\ workflow'[x] = workflow[x]
        BY <2>1, <2>2, <3>2
      <4>2. \A h : Counts(h, x)' <=> Counts(h, x)
        BY <2>4
      <4> QED BY <4>1, <4>2 DEF TriggerInv
    <3> QED BY <3>1, <3>2
  <2> QED BY <2>5 DEF TriggerInv
<1>5. ASSUME NEW a \in Accesses, Working(a) PROVE TriggerInv'
  <2>1. CASE MarkTriggered(a)
    BY <2>1, TriggerMark
  <2>2. CASE ~MarkTriggered(a)
    <3>1. /\ WorkflowMove(a, workflow[a], workflow'[a])
          /\ \A x \in Accesses \ {a} : workflow'[x] = workflow[x]
      BY <1>5, WorkingEffect
    <3>2. /\ SameAccess(workflow[a], workflow'[a])
          /\ Past(workflow'[a]) <=> Past(workflow[a])
      BY <2>2, <3>1 DEF WorkflowMove, Past, Over
    <3>3. registry' = registry
      BY <1>5, <2>2 DEF Working, Assess, ActionSucceeds, ActionFails, ActionExhausted,
        RetryAction, AbandonAction, DeployHoneytokens, HoneytokensDeployed, Ingest,
        LogWorkflow, catalogue
    <3> QED BY <1>1, <3>1, <3>2, <3>3 DEF SameAccess
  <2> QED BY <2>1, <2>2
<1>6. Discovering => Register \/ UNCHANGED <<workflow, registry>>
  BY DEF Discovering, Discover, ServePod, PodDeployed, RegisterPath, LogDiscovery,
    DiscoveryEnds, catalogue
<1>7. NextCycle => UNCHANGED <<workflow, registry>>
  BY DEF NextCycle, catalogue
<1>8. CASE UNCHANGED <<discovery, catalogue>> /\ UNCHANGED workflow
  BY <1>2, <1>8 DEF catalogue
<1>9. \/ \E a \in Accesses, pod \in Pods, path \in Paths, full \in BOOLEAN :
           Detect(a, pod, path, full)
      \/ \E a \in Accesses : Working(a)
      \/ Discovering \/ NextCycle
      \/ UNCHANGED <<discovery, catalogue>> /\ UNCHANGED workflow
  <2>1. \A a \in Accesses : MarkTriggered(a) => Working(a)
    BY DEF Working
  <2> QED BY <2>1, DiscoveryFrame, WorkflowFrame DEF DiscoveryStep, WorkflowStep
<1> QED BY <1>2, <1>3, <1>4, <1>5, <1>6, <1>7, <1>8, <1>9

(* An access is counted at most once, at an entry of its pod and path, and    *)
(* exactly once if the registry knew the honeytoken when it was detected, for *)
(* every number of cycles, pods and accesses: registering the honeytokens of  *)
(* a later cycle resets no count and hides no entry (agent.go MarkTriggered,  *)
(* Register).                                                                 *)
THEOREM EveryTriggerIsCounted == Spec => []TriggersCounted
<1>1. Init => RegistrationInv /\ TriggerInv
  <2> SUFFICES ASSUME Init PROVE RegistrationInv /\ TriggerInv
    OBVIOUS
  <2>1. DOMAIN registry = {} /\ discovery.adding = <<>> /\ discovery.pc = "querying"
    BY DEF Init
  <2>2. Discovered.step = "idle"
    BY DEF Init, Discovered, Callers, NotDeploying
  <2>3. Distinct(<<>>)
    BY DEF Distinct
  <2>4. RegistrationInv
    BY <2>1, <2>2, <2>3 DEF RegistrationInv, PathsApart, AddingNew, Making
  <2>5. \A a \in Accesses : ~workflow[a].known
    BY DEF Init, Undetected
  <2>6. TriggerInv
    BY <2>1, <2>5 DEF TriggerInv, Counts
  <2> QED BY <2>4, <2>6
<1>2. TriggerInv => TriggersCounted
  <2> SUFFICES ASSUME TriggerInv, NEW a \in Accesses
               PROVE  LET counting == {h \in DOMAIN registry : a \in registry[h]}
                      IN /\ Cardinality(counting) <= 1 /\ counting \subseteq Entries(a)
                         /\ PastMarking(a) /\ workflow[a].known => counting # {}
    BY DEF TriggersCounted
  <2> DEFINE counting == {h \in DOMAIN registry : a \in registry[h]}
  <2>1. \A h : h \in counting <=> Counts(h, a)
    BY DEF Counts
  <2>2. counting \subseteq DOMAIN registry
    OBVIOUS
  <2>3. PastMarking(a) <=> Past(workflow[a])
    BY DEF PastMarking, Past
  <2> HIDE DEF counting
  <2>4. Cardinality(counting) <= 1
    <3>1. CASE counting = {}
      <4>1. Cardinality(counting) = 0
        BY <3>1, FS_EmptySet
      <4> QED BY <4>1
    <3>2. ASSUME NEW h \in counting PROVE Cardinality(counting) <= 1
      <4>1. counting = {h}
        BY <2>1, <3>2 DEF TriggerInv
      <4>2. Cardinality(counting) = 1
        BY <4>1, FS_Singleton
      <4> QED BY <4>2
    <3> QED BY <3>1, <3>2
  <2>5. counting \subseteq Entries(a)
    BY <2>1, <2>2 DEF TriggerInv, Entries
  <2>6. PastMarking(a) /\ workflow[a].known => counting # {}
    BY <2>1, <2>3 DEF TriggerInv
  <2> QED BY <2>4, <2>5, <2>6 DEF counting
<1>3. AgentTypes /\ CatalogueInv /\ [Next]_vars => CatalogueInv'
  BY CatalogueStep
<1>4. AgentTypes /\ CatalogueInv /\ RegistrationInv /\ [Next]_vars => RegistrationInv'
  BY PathsApartStep, AddingNewStep DEF RegistrationInv
<1>5. AgentTypes /\ AgentTypes' /\ RegistrationInv /\ TriggerInv /\ [Next]_vars => TriggerInv'
  BY TriggerStep
<1> QED BY <1>1, <1>2, <1>3, <1>4, <1>5, CatalogueInit, TypesInvariant, PTL DEF Spec
=============================================================================

-------------------------- MODULE HoneytokenAgent --------------------------
(***************************************************************************)
(* eBeeControl's agent (modules/ebeecontrol/agent.go) with its deployer,   *)
(* registry, response executor and trainer.  Its goroutines: the discovery *)
(* cycle, which deploys honeytokens and has them watched; one workflow per *)
(* detected access (assess, respond, learn, log); the retraining           *)
(* scheduler; and Stop.  Each step is one critical section or one call of  *)
(* a service.  A honeytoken is named by the deployment that made it: its   *)
(* id is a fresh UUID in the code.                                         *)
(***************************************************************************)
EXTENDS Integers, Sequences, FiniteSets, ThreatResponse

CONSTANTS
  Pods,               \* pods of high-risk services
  ReactivePod,        \* the pod name the reactive deployment uses
  Placements,         \* where generateHoneytokenSpecs puts honeytokens
  ReactivePlacements, \* where the additional honeytokens of a response go
  Accesses,           \* accesses to files, each detected at most once
  Contexts,           \* the pod contexts Dynatrace may answer with
  IsolationMaxRetries, IPBlockMaxRetries,
  MinimumOutcomeRecords,
  InitialAccuracy, Accuracies,   \* of the first and of retrained models
  MaxCycles           \* bound on discovery cycles

ElementsOf(seq) == {seq[i] : i \in DOMAIN seq}

ASSUME AgentAssumption ==
  /\ Contexts \subseteq PodContexts
  /\ IsolationMaxRetries \in Nat /\ IPBlockMaxRetries \in Nat
  /\ MinimumOutcomeRecords \in Nat \ {0}
  /\ InitialAccuracy \in Nat /\ Accuracies \subseteq Nat
  /\ MaxCycles \in Nat \ {0}
  /\ IsFiniteSet(Accesses)
  /\ (1..MaxCycles) \cap Accesses = {} /\ "discovery" \notin Accesses
  /\ \A placements \in {Placements, ReactivePlacements} :
       placements # <<>> /\ placements \in Seq(ElementsOf(placements))
  /\ \A i, j \in DOMAIN Placements : Placements[i] = Placements[j] => i = j

Cycles  == 1..MaxCycles
Callers == {"discovery"} \cup Accesses       \* goroutines that call Deploy
Paths   == ElementsOf(Placements) \cup ElementsOf(ReactivePlacements)
Honeytokens == [by : Cycles \cup Accesses, pod : Pods \cup {ReactivePod}, path : Paths]
PlacementsOf(by) == IF by \in Accesses THEN ReactivePlacements ELSE Placements

MaxRetries == [pod_isolation |-> IsolationMaxRetries, ip_block |-> IPBlockMaxRetries]
Retried    == DOMAIN MaxRetries

VARIABLES
  cluster,    \* honeytokens whose Secret exists
  store,      \* K8sDeployer.store
  orphans,    \* history: Secrets that were created by a call which returned an
              \* error, or that a rollback failed to delete
  deploy,     \* per caller: the Deploy call under way
  registry,   \* HoneytokenRegistry: honeytoken -> the accesses counted
  watched,    \* TetragonMonitor.registeredPaths
  discovery,  \* [pc, cycle, todo, adding]: pods to serve, honeytokens to register
  workflow,   \* per access: [pc, pod, path, known, full, level, todo, attempt, failed]
  isolated, blocked,   \* pods for which IsolatePod, BlockIP returned nil
  escalated,  \* accesses with a critical alert
  trainer,    \* [dataset, sinceLast, trainedOn, accuracy]
  scheduler,  \* "waiting", "training", "logging" or "ended"
  audit,      \* AuditLog: what its entries are about
  ctx,        \* the context of the agent: "live" or "done"
  stop        \* "running", "cancelled" or "stopped"

deployer  == <<cluster, store, orphans>>
catalogue == <<registry, watched>>
effects   == <<isolated, blocked, escalated>>
learning  == <<trainer, scheduler>>
lifecycle == <<ctx, stop>>
vars == <<deployer, deploy, catalogue, discovery, workflow, effects, learning,
          audit, lifecycle>>

NotDeploying == [step |-> "idle", by |-> 0, pod |-> ReactivePod,
                 left |-> <<>>, done |-> <<>>]
Undetected == [pc |-> "undetected", pod |-> ReactivePod, path |-> Placements[1],
               known |-> FALSE, full |-> FALSE, level |-> "low", todo |-> <<>>, attempt |-> 0,
               failed |-> {}]

Init ==
  /\ cluster = {} /\ store = {} /\ orphans = {}
  /\ deploy = [c \in Callers |-> NotDeploying]
  /\ registry = <<>> /\ watched = {}
  /\ discovery = [pc |-> "querying", cycle |-> 1, todo |-> {}, adding |-> <<>>]
  /\ workflow = [a \in Accesses |-> Undetected]
  /\ isolated = {} /\ blocked = {} /\ escalated = {}
  /\ trainer = [dataset |-> 0, sinceLast |-> 0, trainedOn |-> 0,
                accuracy |-> InitialAccuracy]
  /\ scheduler = "waiting"
  /\ audit = {}
  /\ ctx = "live" /\ stop = "running"

-----------------------------------------------------------------------------
(* Deploy: one Secret per placement, all rolled back when one fails *)

Deployment(by, pod) == [step |-> "creating", by |-> by, pod |-> pod,
                        left |-> PlacementsOf(by), done |-> <<>>]
Succeeded(c) == deploy[c].step = "creating" /\ deploy[c].left = <<>>
Failed(c)    == deploy[c].step = "rolling back" /\ deploy[c].done = <<>>

Wanted(c) == [by |-> deploy[c].by, pod |-> deploy[c].pod, path |-> Head(deploy[c].left)]

(* the API creates the Secret ... *)
CreateSecret(c) ==
  /\ deploy[c].step = "creating" /\ deploy[c].left # <<>>
  /\ cluster' = cluster \cup {Wanted(c)}
  /\ deploy' = [deploy EXCEPT ![c].step = "inserting"]
  /\ UNCHANGED <<store, orphans, catalogue, discovery, workflow, effects, learning,
                 audit, lifecycle>>

(* ... which is then put into the store *)
Insert(c) ==
  /\ deploy[c].step = "inserting"
  /\ store' = store \cup {Wanted(c)}
  /\ deploy' = [deploy EXCEPT ![c].step = "creating", ![c].left = Tail(@),
                             ![c].done = Append(@, Wanted(c))]
  /\ UNCHANGED <<cluster, orphans, catalogue, discovery, workflow, effects, learning,
                 audit, lifecycle>>

(* the call returns an error, with the Secret created or not: the rollback *)
(* only looks at the Secrets before it                                     *)
CreateSecretFails(c, created) ==
  /\ deploy[c].step = "creating" /\ deploy[c].left # <<>>
  /\ cluster' = IF created THEN cluster \cup {Wanted(c)} ELSE cluster
  /\ orphans' = IF created THEN orphans \cup {Wanted(c)} ELSE orphans
  /\ deploy' = [deploy EXCEPT ![c].step = "rolling back"]
  /\ UNCHANGED <<store, catalogue, discovery, workflow, effects, learning,
                 audit, lifecycle>>

(* the error of DeleteSecret is ignored *)
MutDeleteSecret(c, deleted) ==                \* stops when a deletion fails
  LET ht == Head(deploy[c].done)
  IN /\ deploy[c].step = "rolling back" /\ deploy[c].done # <<>>
     /\ cluster' = IF deleted THEN cluster \ {ht} ELSE cluster
     /\ orphans' = IF deleted THEN orphans ELSE orphans \cup {ht}
     /\ deploy' = IF deleted THEN [deploy EXCEPT ![c].step = "forgetting"]
                  ELSE [deploy EXCEPT ![c].done = <<>>]
     /\ UNCHANGED <<store, catalogue, discovery, workflow, effects, learning, audit, lifecycle>>
DeleteSecret(c, deleted) ==
  LET ht == Head(deploy[c].done)
  IN /\ deploy[c].step = "rolling back" /\ deploy[c].done # <<>>
     /\ cluster' = IF deleted THEN cluster \ {ht} ELSE cluster
     /\ orphans' = IF deleted THEN orphans ELSE orphans \cup {ht}
     /\ deploy' = [deploy EXCEPT ![c].step = "forgetting"]
     /\ UNCHANGED <<store, catalogue, discovery, workflow, effects, learning, audit, lifecycle>>

(* and the store forgets it *)
Forget(c) ==
  /\ deploy[c].step = "forgetting"
  /\ store' = store \ {Head(deploy[c].done)}
  /\ deploy' = [deploy EXCEPT ![c].step = "rolling back", ![c].done = Tail(@)]
  /\ UNCHANGED <<cluster, orphans, catalogue, discovery, workflow, effects, learning,
                 audit, lifecycle>>

Deploying(c) ==
  \/ CreateSecret(c) \/ Insert(c)
  \/ \E created \in BOOLEAN : CreateSecretFails(c, created)
  \/ \E deleted \in BOOLEAN : DeleteSecret(c, deleted)
  \/ Forget(c)

-----------------------------------------------------------------------------
(* runDiscoveryCycle and executeDiscovery *)

AtDiscovery(pc) == discovery.pc = pc

(* QueryHighRiskServices; an error and an empty answer both end the cycle *)
Discover(found) ==
  /\ AtDiscovery("querying")
  /\ discovery' = [discovery EXCEPT !.pc = IF found = {} THEN "waiting" ELSE "serving",
                                    !.todo = found]
  /\ UNCHANGED <<deployer, deploy, catalogue, workflow, effects, learning, audit, lifecycle>>

(* pods in the order of their risk, which is any order *)
ServePod(p) ==
  /\ AtDiscovery("serving") /\ p \in discovery.todo
  /\ discovery' = [discovery EXCEPT !.pc = "deploying", !.todo = @ \ {p}]
  /\ deploy' = [deploy EXCEPT !["discovery"] = Deployment(discovery.cycle, p)]
  /\ UNCHANGED <<deployer, catalogue, workflow, effects, learning, audit, lifecycle>>

PodDeployed ==
  /\ AtDiscovery("deploying")
  /\ \/ /\ Succeeded("discovery")
        /\ discovery' = [discovery EXCEPT !.pc = "registering",
                                          !.adding = deploy["discovery"].done]
     \/ /\ Failed("discovery")
        /\ discovery' = [discovery EXCEPT !.pc = "serving"]
  /\ deploy' = [deploy EXCEPT !["discovery"] = NotDeploying]
  /\ UNCHANGED <<deployer, catalogue, workflow, effects, learning, audit, lifecycle>>

MutRegister ==                                \* one entry per pod and path
  LET ht == Head(discovery.adding)
      others == {h \in DOMAIN registry : <<h.pod, h.path>> # <<ht.pod, ht.path>>}
  IN /\ AtDiscovery("registering")
     /\ registry' = [h \in others \cup {ht} |-> IF h = ht THEN {} ELSE registry[h]]
     /\ discovery' = [discovery EXCEPT !.pc = "watching"]
     /\ UNCHANGED <<deployer, deploy, watched, workflow, effects, learning, audit, lifecycle>>
Register ==
  LET ht == Head(discovery.adding)
  IN /\ AtDiscovery("registering")
     /\ registry' = [h \in DOMAIN registry \cup {ht} |-> IF h = ht THEN {} ELSE registry[h]]
     /\ discovery' = [discovery EXCEPT !.pc = "watching"]
     /\ UNCHANGED <<deployer, deploy, watched, workflow, effects, learning, audit, lifecycle>>

RegisterPath ==
  LET rest == Tail(discovery.adding)
  IN /\ AtDiscovery("watching")
     /\ watched' = watched \cup {Head(discovery.adding).path}
     /\ discovery' = [discovery EXCEPT !.adding = rest,
                        !.pc = IF rest = <<>> THEN "serving" ELSE "registering"]
     /\ UNCHANGED <<deployer, deploy, registry, workflow, effects, learning, audit, lifecycle>>

LogDiscovery ==
  /\ AtDiscovery("serving") /\ discovery.todo = {}
  /\ audit' = audit \cup {<<"deployment", discovery.cycle>>}
  /\ discovery' = [discovery EXCEPT !.pc = "waiting"]
  /\ UNCHANGED <<deployer, deploy, catalogue, workflow, effects, learning, lifecycle>>

(* the ticker; when the context is done as well, select takes either *)
NextCycle ==
  /\ AtDiscovery("waiting") /\ discovery.cycle < MaxCycles
  /\ discovery' = [discovery EXCEPT !.pc = "querying", !.cycle = @ + 1]
  /\ UNCHANGED <<deployer, deploy, catalogue, workflow, effects, learning, audit, lifecycle>>

DiscoveryEnds ==
  /\ AtDiscovery("waiting") /\ ctx = "done"
  /\ discovery' = [discovery EXCEPT !.pc = "ended"]
  /\ UNCHANGED <<deployer, deploy, catalogue, workflow, effects, learning, audit, lifecycle>>

Discovering ==
  \/ \E found \in SUBSET Pods : Discover(found)
  \/ \E p \in Pods : ServePod(p)
  \/ PodDeployed \/ Register \/ RegisterPath \/ LogDiscovery \/ DiscoveryEnds

-----------------------------------------------------------------------------
(* handleRawEvent and processAccessEvent *)

AtWorkflow(a, pc) == workflow[a].pc = pc
Entries(a) == {h \in DOMAIN registry : h.pod = workflow[a].pod /\ h.path = workflow[a].path}

(* an access to a path that is not watched is dropped, which changes nothing; *)
(* the stream of the monitor ends some time after the context, if it does;    *)
(* full: the event has every field that validateOutcomeData looks at (that of *)
(* a process which is in no pod has not);                                     *)
(* known is history: the registry had the honeytoken when it was detected     *)
Detect(a, pod, path, full) ==
  /\ AtWorkflow(a, "undetected")
  /\ path \in watched
  /\ workflow' = [workflow EXCEPT
       ![a].pc = "assessing", ![a].pod = pod, ![a].path = path, ![a].full = full,
       ![a].known = \E h \in DOMAIN registry : h.pod = pod /\ h.path = path]
  /\ UNCHANGED <<deployer, deploy, catalogue, discovery, effects, learning, audit, lifecycle>>

Assess(a, level) ==
  /\ AtWorkflow(a, "assessing")
  /\ workflow' = [workflow EXCEPT ![a].pc = "marking",
                                  ![a].level = level]
  /\ UNCHANGED <<deployer, deploy, catalogue, discovery, effects, learning, audit, lifecycle>>

(* MarkTriggered takes the first match of a map iteration, any of them *)
MarkTriggered(a) ==
  /\ AtWorkflow(a, "marking")
  /\ \/ \E h \in Entries(a) : registry' = [registry EXCEPT ![h] = @ \cup {a}]
     \/ Entries(a) = {} /\ UNCHANGED registry
  /\ workflow' = [workflow EXCEPT ![a].pc = "responding",
                                  ![a].todo = PlanActions(workflow[a].level)]
  /\ UNCHANGED <<deployer, deploy, watched, discovery, effects, learning, audit, lifecycle>>

Responding(a, action) ==
  AtWorkflow(a, "responding") /\ workflow[a].todo # <<>> /\ Head(workflow[a].todo) = action

(* ExecuteResponse goes on with the next action, whatever became of this one *)
NextAction(a, failed) ==
  workflow' = [workflow EXCEPT ![a].pc = "responding", ![a].todo = Tail(@),
                               ![a].attempt = 0, ![a].failed = @ \cup failed]

(* IsolatePod or BlockIP, callbacks of the agent, return nil *)
ActionSucceeds(a, action) ==
  /\ Responding(a, action)
  /\ isolated' = IF action = "pod_isolation" THEN isolated \cup {workflow[a].pod} ELSE isolated
  /\ blocked' = IF action = "ip_block" THEN blocked \cup {workflow[a].pod} ELSE blocked
  /\ NextAction(a, {})
  /\ UNCHANGED <<deployer, deploy, catalogue, discovery, escalated, learning, audit, lifecycle>>

(* it fails and is tried again after the interval *)
ActionFails(a, action) ==
  /\ Responding(a, action)
  /\ workflow[a].attempt < MaxRetries[action]
  /\ workflow' = [workflow EXCEPT ![a].pc = "retrying", ![a].attempt = @ + 1]
  /\ UNCHANGED <<deployer, deploy, catalogue, discovery, effects, learning, audit, lifecycle>>

(* all retries are used up; only a failed isolation is critical *)
MutActionExhausted(a, action) ==              \* no critical alert without retries
  /\ Responding(a, action)
  /\ workflow[a].attempt = MaxRetries[action]
  /\ escalated' = IF action = "ip_block" THEN escalated \cup {a} ELSE escalated
  /\ NextAction(a, {action})
  /\ UNCHANGED <<deployer, deploy, catalogue, discovery, isolated, blocked, learning,
                 audit, lifecycle>>
ActionExhausted(a, action) ==
  /\ Responding(a, action)
  /\ workflow[a].attempt = MaxRetries[action]
  /\ escalated' = IF action = "pod_isolation" THEN escalated \cup {a} ELSE escalated
  /\ NextAction(a, {action})
  /\ UNCHANGED <<deployer, deploy, catalogue, discovery, isolated, blocked, learning,
                 audit, lifecycle>>

RetryAction(a) ==
  /\ AtWorkflow(a, "retrying")
  /\ workflow' = [workflow EXCEPT ![a].pc = "responding"]
  /\ UNCHANGED <<deployer, deploy, catalogue, discovery, effects, learning, audit, lifecycle>>

(* the context is done during the interval: no alert is sent *)
AbandonAction(a) ==
  /\ AtWorkflow(a, "retrying") /\ ctx = "done"
  /\ NextAction(a, {Head(workflow[a].todo)})
  /\ UNCHANGED <<deployer, deploy, catalogue, discovery, effects, learning, audit, lifecycle>>

DeployHoneytokens(a) ==
  /\ Responding(a, "additional_honeytokens")
  /\ deploy' = [deploy EXCEPT ![a] = Deployment(a, ReactivePod)]
  /\ workflow' = [workflow EXCEPT ![a].pc = "deploying"]
  /\ UNCHANGED <<deployer, catalogue, discovery, effects, learning, audit, lifecycle>>

(* Deploy reports failures in its response, which the caller drops *)
MutHoneytokensDeployed(a) ==                  \* waits for a success
  /\ AtWorkflow(a, "deploying") /\ Succeeded(a)
  /\ deploy' = [deploy EXCEPT ![a] = NotDeploying]
  /\ NextAction(a, {})
  /\ UNCHANGED <<deployer, catalogue, discovery, effects, learning, audit, lifecycle>>
HoneytokensDeployed(a) ==
  /\ AtWorkflow(a, "deploying") /\ (Succeeded(a) \/ Failed(a))
  /\ deploy' = [deploy EXCEPT ![a] = NotDeploying]
  /\ NextAction(a, {})
  /\ UNCHANGED <<deployer, catalogue, discovery, effects, learning, audit, lifecycle>>

(* validateOutcomeData: ActionsTaken is not empty, and the event is complete; *)
(* what the agent fills in itself is always there                             *)
Valid(a) == PlanActions(workflow[a].level) # <<>> /\ workflow[a].full

(* the event goes to the kernel, whose answer is only logged, and the outcome *)
(* to IngestOutcomeData, whose refusal is only logged too                     *)
Ingest(a) ==
  /\ AtWorkflow(a, "responding") /\ workflow[a].todo = <<>>
  /\ trainer' = IF Valid(a)
                THEN [trainer EXCEPT !.dataset = @ + 1, !.sinceLast = @ + 1]
                ELSE trainer
  /\ workflow' = [workflow EXCEPT ![a].pc = "logging"]
  /\ UNCHANGED <<deployer, deploy, catalogue, discovery, effects, scheduler, audit, lifecycle>>

LogWorkflow(a) ==
  /\ AtWorkflow(a, "logging")
  /\ audit' = audit \cup {<<"response", a>>}
  /\ workflow' = [workflow EXCEPT ![a].pc = "done"]
  /\ UNCHANGED <<deployer, deploy, catalogue, discovery, effects, learning, lifecycle>>

Working(a) ==
  \/ \E level \in Assessments(Contexts) : Assess(a, level)
  \/ MarkTriggered(a)
  \/ \E action \in Retried :
       ActionSucceeds(a, action) \/ ActionFails(a, action) \/ ActionExhausted(a, action)
  \/ RetryAction(a) \/ AbandonAction(a)
  \/ DeployHoneytokens(a) \/ HoneytokensDeployed(a)
  \/ Ingest(a) \/ LogWorkflow(a)

-----------------------------------------------------------------------------
(* runRetrainingScheduler *)

EnoughRecords == trainer.sinceLast >= MinimumOutcomeRecords

(* ShouldRetrain at a tick; whether the interval since the last model has *)
(* elapsed is left open                                                   *)
ShouldRetrain ==
  /\ scheduler = "waiting" /\ EnoughRecords
  /\ scheduler' = "training"
  /\ UNCHANGED <<deployer, deploy, catalogue, discovery, workflow, effects, trainer,
                 audit, lifecycle>>

(* TriggerRetraining: the model is published unless it is worse *)
MutSilentRetraining(accuracy) ==              \* published, but reported as a failure
  /\ scheduler = "training" /\ EnoughRecords
  /\ trainer' = IF accuracy >= trainer.accuracy
                THEN [trainer EXCEPT !.accuracy = accuracy, !.trainedOn = trainer.dataset,
                                     !.sinceLast = 0]
                ELSE trainer
  /\ scheduler' = "waiting"
  /\ UNCHANGED <<deployer, deploy, catalogue, discovery, workflow, effects, audit, lifecycle>>
TriggerRetraining(accuracy) ==
  /\ scheduler = "training" /\ EnoughRecords
  /\ IF accuracy >= trainer.accuracy
     THEN /\ trainer' = [trainer EXCEPT !.accuracy = accuracy, !.trainedOn = trainer.dataset,
                                        !.sinceLast = 0]
          /\ scheduler' = "logging"
     ELSE UNCHANGED trainer /\ scheduler' = "waiting"
  /\ UNCHANGED <<deployer, deploy, catalogue, discovery, workflow, effects, audit, lifecycle>>

LogModel ==
  /\ scheduler = "logging"
  /\ audit' = audit \cup {<<"model", trainer.trainedOn>>}
  /\ scheduler' = "waiting"
  /\ UNCHANGED <<deployer, deploy, catalogue, discovery, workflow, effects, trainer, lifecycle>>

SchedulerEnds ==
  /\ scheduler = "waiting" /\ ctx = "done"
  /\ scheduler' = "ended"
  /\ UNCHANGED <<deployer, deploy, catalogue, discovery, workflow, effects, trainer,
                 audit, lifecycle>>

Retraining ==
  \/ \E accuracy \in Accuracies : TriggerRetraining(accuracy)
  \/ LogModel \/ SchedulerEnds

-----------------------------------------------------------------------------
(* The context of the agent comes from the one its module is started with, *)
(* which the kernel cancels as soon as the module's Start has returned, as *)
(* its caller may at any time.  Stop cancels it and waits for the two      *)
(* loops; the stream of the monitor and the workflows are not waited for.  *)

ContextEnds ==
  /\ ctx = "live" /\ ctx' = "done"
  /\ UNCHANGED <<deployer, deploy, catalogue, discovery, workflow, effects, learning,
                 audit, stop>>

Cancel ==
  /\ stop = "running" /\ stop' = "cancelled" /\ ctx' = "done"
  /\ UNCHANGED <<deployer, deploy, catalogue, discovery, workflow, effects, learning,
                 audit>>

StopReturns ==
  /\ stop = "cancelled" /\ AtDiscovery("ended") /\ scheduler = "ended"
  /\ stop' = "stopped"
  /\ UNCHANGED <<deployer, deploy, catalogue, discovery, workflow, effects, learning,
                 audit, ctx>>

Next ==
  \/ \E c \in Callers : Deploying(c)
  \/ Discovering \/ NextCycle
  \/ \E a \in Accesses, pod \in Pods, path \in Paths, full \in BOOLEAN :
       Detect(a, pod, path, full)
  \/ \E a \in Accesses : Working(a)
  \/ ShouldRetrain \/ Retraining
  \/ ContextEnds \/ Cancel \/ StopReturns

Spec == Init /\ [][Next]_vars

(* Every goroutine gets on with what it has begun, its calls return, and the *)
(* loops notice that the context is done; accesses, ticks, the end of the    *)
(* context and Stop need not happen.                                         *)
FairSpec ==
  /\ Spec
  /\ \A c \in Callers : WF_vars(Deploying(c))
  /\ WF_vars(Discovering) /\ SF_vars(DiscoveryEnds)
  /\ \A a \in Accesses : WF_vars(Working(a))
  /\ WF_vars(Retraining) /\ SF_vars(SchedulerEnds)
  /\ WF_vars(StopReturns)

-----------------------------------------------------------------------------
DeploySteps == {"idle", "creating", "inserting", "rolling back", "forgetting"}
DiscoveryStates == {"querying", "serving", "deploying", "registering", "watching",
                    "waiting", "ended"}
WorkflowStates == {"undetected", "assessing", "marking", "responding", "retrying",
                   "deploying", "logging", "done"}

(* Every value has its type, and the discovery cycle has something to add *)
(* exactly while it is adding.                                           *)
TypeOK ==
  /\ cluster \subseteq Honeytokens /\ store \subseteq Honeytokens
  /\ orphans \subseteq Honeytokens
  /\ \A c \in Callers : deploy[c].step \in DeploySteps
  /\ DOMAIN registry \subseteq Honeytokens
  /\ \A h \in DOMAIN registry : registry[h] \subseteq Accesses
  /\ watched \subseteq Paths
  /\ discovery.pc \in DiscoveryStates /\ discovery.todo \subseteq Pods
  /\ discovery.pc \in {"registering", "watching"} <=> discovery.adding # <<>>
  /\ \A a \in Accesses :
       /\ workflow[a].pc \in WorkflowStates /\ workflow[a].level \in ThreatLevels
       /\ workflow[a].attempt \in Nat /\ workflow[a].failed \subseteq Retried
  /\ trainer \in [dataset : Nat, sinceLast : Nat, trainedOn : Nat,
                   accuracy : Accuracies \cup {InitialAccuracy}]
  /\ scheduler \in {"waiting", "training", "logging", "ended"}
  /\ ctx \in {"live", "done"}
  /\ stop \in {"running", "cancelled", "stopped"}

BatchOf(h) == {[by |-> h.by, pod |-> h.pod, path |-> path] :
                 path \in ElementsOf(PlacementsOf(h.by))}
UnderWay(h) == \E c \in Callers : /\ deploy[c].step # "idle"
                                  /\ deploy[c].by = h.by /\ deploy[c].pod = h.pod

AtStep(step) == {c \in Callers : deploy[c].step = step}
(* A deployment is all or nothing in the store: outside a deployment it has *)
(* either every honeytoken of a batch or none.  And the store is the truth  *)
(* about the cluster: a Secret it does not know is on its way into it, or   *)
(* an orphan, whose creation returned an error or whose deletion failed; a  *)
(* honeytoken without a Secret is on its way out (Deploy and its rollback). *)
DeployAllOrNothing ==
  /\ \A h \in store : UnderWay(h) \/ BatchOf(h) \subseteq store
  /\ cluster \ store \subseteq orphans \cup {Wanted(c) : c \in AtStep("inserting")}
  /\ store \ cluster \subseteq {Head(deploy[c].done) : c \in AtStep("forgetting")}

(* Between discovery cycles the honeytokens they deployed are registered and *)
(* watched, and at any time a watched path belongs to a registered, deployed *)
(* honeytoken, so that no access is reported which the registry cannot place *)
(* (executeDiscovery: Deploy, Register, RegisterPath in this order).         *)
CatalogueConsistent ==
  /\ \A path \in watched : \E h \in DOMAIN registry : h.path = path
  /\ DOMAIN registry \subseteq store
  /\ discovery.pc \in {"waiting", "querying", "ended"} =>
       \A h \in store : h.by \in Cycles => h \in DOMAIN registry /\ h.path \in watched

PastMarking(a) == ~(workflow[a].pc \in {"undetected", "assessing", "marking"})
(* An access to a honeytoken the registry knew when it was detected is counted *)
(* exactly once, at an entry of its pod and path, however many cycles redeploy *)
(* there in the meantime (MarkTriggered, Register).                            *)
TriggersCounted ==
  \A a \in Accesses :
    LET counting == {h \in DOMAIN registry : a \in registry[h]}
    IN /\ Cardinality(counting) <= 1 /\ counting \subseteq Entries(a)
       /\ PastMarking(a) /\ workflow[a].known => counting # {}

Through(a, action) ==
  /\ PastMarking(a)
  /\ action \in ElementsOf(PlanActions(workflow[a].level)) \ ElementsOf(workflow[a].todo)

(* Once a workflow is through with the isolation its plan asks for, IsolatePod *)
(* returned nil for its pod or a critical alert was sent, unless the context   *)
(* of the agent was done by then, which it is as soon as the kernel or Stop    *)
(* cancels it: then the retries are given up without a word.  And an action    *)
(* that is not reported as failed returned nil for the pod of the access       *)
(* (executePodIsolation, executeIPBlock).                                      *)
ContainedOrEscalated ==
  \A a \in Accesses :
    /\ Rank[workflow[a].level] >= Rank["high"] /\ workflow[a].pc = "done" =>
         workflow[a].pod \in isolated \/ a \in escalated \/ ctx = "done"
    /\ Through(a, "pod_isolation") =>
         workflow[a].pod \in isolated \/ "pod_isolation" \in workflow[a].failed
    /\ Through(a, "ip_block") =>
         workflow[a].pod \in blocked \/ "ip_block" \in workflow[a].failed

Learned == {a \in Accesses : workflow[a].pc \in {"logging", "done"} /\ Valid(a)}
(* The records the current model was trained on and those since then are the *)
(* whole dataset, which has one record for each workflow that is past its    *)
(* learning and whose outcome is valid: some action was taken, and no field  *)
(* of the event is missing (IngestOutcomeData against TriggerRetraining).    *)
RecordsCounted ==
  /\ trainer.dataset = trainer.trainedOn + trainer.sinceLast
  /\ trainer.dataset = Cardinality(Learned)

(* A cycle that registered honeytokens, a finished workflow and a model that *)
(* replaced the first one are all in the audit log once the goroutine that   *)
(* made the decision is back at rest (AuditLog.Log).                         *)
DecisionsOnRecord ==
  /\ \A h \in DOMAIN registry :
       <<"deployment", h.by>> \in audit
         \/ (discovery.cycle = h.by /\ ~(discovery.pc \in {"waiting", "ended"}))
  /\ \A a \in Accesses : AtWorkflow(a, "done") => <<"response", a>> \in audit
  /\ trainer.trainedOn > 0 /\ scheduler # "logging" =>
       <<"model", trainer.trainedOn>> \in audit

(* What was begun ends, whatever the services answer: every access that was *)
(* detected runs through its workflow, whether or not the agent is stopped  *)
(* meanwhile, and Stop returns once its two loops have ended                *)
(* (processAccessEvent, Stop, runDiscoveryCycle, runRetrainingScheduler).   *)
WorkEnds ==
  /\ \A a \in Accesses : AtWorkflow(a, "assessing") ~> AtWorkflow(a, "done")
  /\ stop = "cancelled" ~> stop = "stopped"
=============================================================================

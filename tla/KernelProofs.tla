---------------------------- MODULE KernelProofs ----------------------------
(***************************************************************************)
(* Proofs about Kernel, for any modules, requests, events, filters and     *)
(* bounds: a lifecycle that completes, health answers that are about the   *)
(* modules that run, and an event bus that starts the handlers asked for.  *)
(***************************************************************************)
EXTENDS Kernel, TLAPS

-----------------------------------------------------------------------------
(* Types, one part of the state at a time *)

Phases == {"registering", "starting", "serving", "stopping", "closing", "stopped"}

(* main, the loop it is in, and the table of the modules *)
TablesOK ==
  /\ main \in Phases
  /\ todo \in SUBSET Modules
  /\ current \in Modules \cup {None}
  /\ state \in [Modules -> ModuleStates]

(* the health requests *)
Request == [phase : {"idle", "waiting", "answered"}, todo : SUBSET Modules,
            results : SUBSET Modules]
ChecksOK == check \in [Requests -> Request]

(* the event bus; a copy is of the subscriptions that existed before it *)
Calls == (1..Len(subs)) \X (1..Len(emitted))
Copies == [event : Events, copy : Seq(Subscription), next : Nat]
BusOK ==
  /\ startCtx \in [Modules -> {"none", "live", "cancelled"}]
  /\ subs \in Seq(Subscription)
  /\ emitted \in Seq(Copies)
  /\ Len(emitted) <= MaxEmits
  /\ \A n \in 1..Len(emitted) : emitted[n].next \in Nat \ {0} /\ Len(emitted[n].copy) <= Len(subs)
  /\ spawned \in SUBSET Calls
  /\ handled \in SUBSET Calls
  /\ exit \in {None, "panic", "listener", "shutdown"}

(* A filled request is a request. *)
LEMMA RequestForms ==
  ASSUME NEW old \in Request, NEW m \in Modules, NEW S \in SUBSET Modules
  PROVE  /\ [phase |-> "waiting", todo |-> S, results |-> {}] \in Request
         /\ [old EXCEPT !.phase = "answered"] \in Request
         /\ [old EXCEPT !.todo = @ \ {m}, !.results = @ \cup {m}] \in Request
BY DEF Request

(* The steps of main keep the tables. *)
LEMMA TablesStep == TablesOK /\ [Next]_vars => TablesOK'
<1> SUFFICES ASSUME TablesOK, [Next]_vars
             PROVE  TablesOK'
  OBVIOUS
<1> USE DEF TablesOK, Phases
<1>1. CASE MainStep
  BY <1>1 DEF MainStep, BeginStartAll, FinishStartAll, FinishStopAll, ShutdownDone,
              ShutdownFails, Register, StartModule,
              StartReturns, StopModule, StopReturns, In, ModuleStates, mainVars
<1>2. CASE HealthStep
  BY <1>2 DEF HealthStep, AnswerHealth, CheckReturns, mainVars
<1>3. CASE Handlers
  BY <1>3 DEF Emits, Dispatch, Handlers, HandlerRuns, mainVars
<1>4. CASE Environment
  BY <1>4 DEF Environment, BeginStopAll, BeginHealthCheck, Subscribe, CloseSubscription, Emit,
              ListenerFails,
              HandlerPanics, In, ModuleStates, mainVars
<1>5. CASE Emits
  BY <1>5 DEF Emits, Dispatch, mainVars
<1>6. CASE UNCHANGED vars
  BY <1>6 DEF vars
<1> QED BY <1>1, <1>2, <1>3, <1>4, <1>5, <1>6 DEF Next

(* The steps of the health requests keep the requests. *)
LEMMA ChecksStep == ChecksOK /\ TablesOK /\ [Next]_vars => ChecksOK'
<1> SUFFICES ASSUME ChecksOK, TablesOK, [Next]_vars
             PROVE  ChecksOK'
  OBVIOUS
<1>1. ASSUME NEW r \in Requests, NEW m \in Modules, CheckReturns(r, m)
      PROVE  ChecksOK'
  <2> DEFINE new == [check[r] EXCEPT !.todo = @ \ {m}, !.results = @ \cup {m}]
  <2>1. new \in Request
    BY RequestForms DEF ChecksOK
  <2>2. check' = [check EXCEPT ![r] = new]
    BY <1>1 DEF CheckReturns
  <2> HIDE DEF new
  <2> QED BY <2>1, <2>2 DEF ChecksOK
<1>2. ASSUME NEW r \in Requests, AnswerHealth(r)
      PROVE  ChecksOK'
  <2> DEFINE new == [check[r] EXCEPT !.phase = "answered"]
  <2>1. new \in Request
    BY DEF ChecksOK, Request
  <2>2. check' = [check EXCEPT ![r] = new]
    BY <1>2 DEF AnswerHealth
  <2> HIDE DEF new
  <2> QED BY <2>1, <2>2 DEF ChecksOK
<1>3. ASSUME NEW r \in Requests, BeginHealthCheck(r)
      PROVE  ChecksOK'
  <2> DEFINE new == [phase |-> "waiting", todo |-> In({"running"}), results |-> {}]
  <2>1. new \in Request
    BY DEF Request, In
  <2>2. check' = [check EXCEPT ![r] = new]
    BY <1>3 DEF BeginHealthCheck
  <2> HIDE DEF new
  <2> QED BY <2>1, <2>2 DEF ChecksOK
<1>4. \/ \E r \in Requests : \/ AnswerHealth(r) \/ BeginHealthCheck(r)
                             \/ \E m \in Modules : CheckReturns(r, m)
      \/ check' = check
  BY DEF Next, MainStep, BeginStartAll, FinishStartAll, FinishStopAll, ShutdownDone,
         ShutdownFails, Register, StartModule,
         StartReturns, StopModule, StopReturns, HealthStep, Emits, Dispatch, Handlers,
         HandlerRuns, Environment,
         BeginStopAll, Subscribe, CloseSubscription, Emit, ListenerFails, HandlerPanics, vars
<1> QED BY <1>1, <1>2, <1>3, <1>4 DEF ChecksOK

(* What an Emit call looks like after one iteration of its loop. *)
LEMMA Dispatched ==
  ASSUME BusOK, NEW n \in 1..Len(emitted), Dispatch(n)
  PROVE  /\ emitted' \in Seq(Copies) /\ Len(emitted') = Len(emitted)
         /\ \A k \in 1..Len(emitted) :
              /\ emitted'[k].event = emitted[k].event /\ emitted'[k].copy = emitted[k].copy
              /\ emitted'[k].next = IF k = n THEN emitted[n].next + 1 ELSE emitted[k].next
         /\ spawned' \in {spawned, spawned \cup {<<emitted[n].next, n>>}}
         /\ <<emitted[n].next, n>> \in Calls
         /\ UNCHANGED <<startCtx, subs, handled, exit>>
<1> DEFINE new == [emitted[n] EXCEPT !.next = @ + 1]
<1>1. emitted[n] \in Copies /\ Len(emitted) \in Nat
  BY DEF BusOK
<1>2. /\ new \in Copies /\ new.event = emitted[n].event /\ new.copy = emitted[n].copy
      /\ new.next = emitted[n].next + 1
  BY <1>1 DEF Copies
<1>3. /\ emitted' = [emitted EXCEPT ![n] = new]
      /\ emitted[n].next <= Len(emitted[n].copy)
      /\ spawned' \in {spawned, spawned \cup {<<emitted[n].next, n>>}}
      /\ UNCHANGED <<startCtx, subs, handled, exit>>
  BY DEF Dispatch
<1> HIDE DEF new
<1>4. emitted' \in Seq(Copies) /\ Len(emitted') = Len(emitted)
  BY <1>2, <1>3 DEF BusOK
<1>5. \A k \in 1..Len(emitted) : emitted'[k] = IF k = n THEN new ELSE emitted[k]
  BY <1>3 DEF BusOK
<1>6. emitted[n].next \in 1..Len(subs)
  <2>1. emitted[n].next \in Nat \ {0} /\ Len(emitted[n].copy) <= Len(subs)
    BY DEF BusOK
  <2>2. Len(emitted[n].copy) \in Nat /\ Len(subs) \in Nat
    BY <1>1 DEF BusOK, Copies
  <2> QED BY <1>3, <2>1, <2>2
<1> QED BY <1>2, <1>3, <1>4, <1>5, <1>6 DEF Calls

(* What the subscriptions look like after a Subscribe or a Close. *)
LEMMA Subscribed ==
  ASSUME BusOK, NEW m \in Modules, NEW filter \in Filters, Subscribe(m, filter)
  PROVE  /\ subs' \in Seq(Subscription) /\ Len(subs') = Len(subs) + 1
         /\ \A i \in 1..Len(subs) : subs'[i] = subs[i]
         /\ UNCHANGED <<startCtx, emitted, spawned, handled, exit>>
<1> DEFINE new == [filter |-> filter, closed |-> FALSE, since |-> Len(emitted), until |-> 0]
<1>1. new \in Subscription
  BY KernelAssumption DEF Subscription, BusOK
<1>2. subs' = Append(subs, new) /\ UNCHANGED <<startCtx, emitted, spawned, handled, exit>>
  BY DEF Subscribe
<1> HIDE DEF new
<1> QED BY <1>1, <1>2 DEF BusOK

LEMMA Unsubscribed ==
  ASSUME BusOK, NEW i \in 1..Len(subs), CloseSubscription(i)
  PROVE  /\ subs' \in Seq(Subscription) /\ Len(subs') = Len(subs)
         /\ \A k \in 1..Len(subs) : k # i => subs'[k] = subs[k]
         /\ subs'[i].filter = subs[i].filter /\ subs'[i].since = subs[i].since
         /\ subs'[i].until = Len(emitted) /\ ~subs[i].closed
         /\ UNCHANGED <<startCtx, emitted, spawned, handled, exit>>
<1> DEFINE new == [subs[i] EXCEPT !.closed = TRUE, !.until = Len(emitted)]
<1>1. subs[i] \in Subscription /\ Len(emitted) \in 0..MaxEmits
  BY KernelAssumption DEF BusOK
<1>2. /\ new \in Subscription /\ new.filter = subs[i].filter /\ new.since = subs[i].since
      /\ new.until = Len(emitted)
  BY <1>1 DEF Subscription
<1>3. /\ subs' = [subs EXCEPT ![i] = new] /\ ~subs[i].closed
      /\ UNCHANGED <<startCtx, emitted, spawned, handled, exit>>
  BY DEF CloseSubscription
<1> HIDE DEF new
<1>4. subs' \in Seq(Subscription) /\ Len(subs') = Len(subs)
  BY <1>2, <1>3 DEF BusOK
<1>5. subs'[i] = new /\ \A k \in 1..Len(subs) : k # i => subs'[k] = subs[k]
  BY <1>3 DEF BusOK
<1> QED BY <1>2, <1>3, <1>4, <1>5

(* What the Emit calls look like after the first step of another. *)
LEMMA Emitted ==
  ASSUME BusOK, NEW event \in Events, Emit(event)
  PROVE  /\ emitted' \in Seq(Copies) /\ Len(emitted') = Len(emitted) + 1
         /\ Len(emitted') <= MaxEmits
         /\ \A n \in 1..Len(emitted) : emitted'[n] = emitted[n]
         /\ emitted'[Len(emitted) + 1] = [event |-> event, copy |-> subs, next |-> 1]
         /\ UNCHANGED <<startCtx, subs, spawned, handled, exit>>
<1> DEFINE new == [event |-> event, copy |-> subs, next |-> 1]
<1>1. new \in Copies
  BY DEF Copies, BusOK
<1>2. /\ emitted' = Append(emitted, new) /\ Len(emitted) < MaxEmits
      /\ UNCHANGED <<startCtx, subs, spawned, handled, exit>>
  BY DEF Emit
<1> HIDE DEF new
<1>3. /\ emitted' \in Seq(Copies) /\ Len(emitted') = Len(emitted) + 1 /\ Len(emitted) \in Nat
      /\ emitted'[Len(emitted) + 1] = new
      /\ \A n \in 1..Len(emitted) : emitted'[n] = emitted[n]
  BY <1>1, <1>2 DEF BusOK
<1>4. Len(emitted') <= MaxEmits
  BY <1>2, <1>3, KernelAssumption
<1> QED BY <1>2, <1>3, <1>4 DEF new

(* The steps that touch the bus. *)
BusSteps ==
  \/ \E m \in Modules, filter \in Filters : Subscribe(m, filter)
  \/ \E i \in 1..Len(subs) : CloseSubscription(i)
  \/ \E event \in Events : Emit(event)
  \/ \E n \in 1..Len(emitted) : Dispatch(n)
  \/ \E call \in spawned : HandlerRuns(call) \/ HandlerPanics(call)
LEMMA BusCases ==
  ASSUME [Next]_vars
  PROVE  \/ BusSteps
         \/ \E m \in Modules : StartModule(m) \/ StartReturns(m)
         \/ UNCHANGED busVars /\ startCtx' = startCtx /\ exit' \in {exit, "listener", "shutdown"}
BY DEF Next, MainStep, BeginStartAll, FinishStartAll, FinishStopAll, ShutdownDone, ShutdownFails,
       ListenerFails, Register, StopModule, StopReturns, HealthStep, AnswerHealth, CheckReturns,
       Emits, Handlers, Environment, BeginStopAll, BeginHealthCheck, BusSteps, vars, busVars

(* The steps of the bus keep subscriptions, copies and calls. *)
LEMMA BusStep == BusOK /\ [Next]_vars => BusOK'
<1> SUFFICES ASSUME BusOK, [Next]_vars
             PROVE  BusOK'
  OBVIOUS
<1>0. Len(subs) \in Nat /\ Len(emitted) \in Nat
  BY DEF BusOK
<1>1. ASSUME NEW m \in Modules, NEW filter \in Filters, Subscribe(m, filter)
      PROVE  BusOK'
  <2>1. /\ subs' \in Seq(Subscription) /\ Len(subs') = Len(subs) + 1
        /\ UNCHANGED <<startCtx, emitted, spawned, handled, exit>>
    BY <1>1, Subscribed
  <2>2. Calls \subseteq Calls'
    BY <1>0, <2>1 DEF Calls
  <2>3. \A n \in 1..Len(emitted) : Len(emitted[n].copy) <= Len(subs')
    <3> TAKE n \in 1..Len(emitted)
    <3>1. Len(emitted[n].copy) <= Len(subs) /\ Len(emitted[n].copy) \in Nat
      BY DEF BusOK, Copies
    <3> QED BY <1>0, <2>1, <3>1
  <2> QED BY <2>1, <2>2, <2>3 DEF BusOK
<1>2. ASSUME NEW i \in 1..Len(subs), CloseSubscription(i)
      PROVE  BusOK'
  <2>1. /\ subs' \in Seq(Subscription) /\ Len(subs') = Len(subs)
        /\ UNCHANGED <<startCtx, emitted, spawned, handled, exit>>
    BY <1>2, Unsubscribed
  <2> QED BY <2>1 DEF BusOK, Calls
<1>3. ASSUME NEW event \in Events, Emit(event)
      PROVE  BusOK'
  <2>1. /\ emitted' \in Seq(Copies) /\ Len(emitted') = Len(emitted) + 1
        /\ Len(emitted') <= MaxEmits
        /\ \A n \in 1..Len(emitted) : emitted'[n] = emitted[n]
        /\ emitted'[Len(emitted) + 1] = [event |-> event, copy |-> subs, next |-> 1]
        /\ UNCHANGED <<startCtx, subs, spawned, handled, exit>>
    BY <1>3, Emitted
  <2>2. Calls \subseteq Calls'
    BY <1>0, <2>1 DEF Calls
  <2>3. \A n \in 1..Len(emitted') :
          emitted'[n].next \in Nat \ {0} /\ Len(emitted'[n].copy) <= Len(subs')
    <3> TAKE n \in 1..Len(emitted')
    <3>1. CASE n \in 1..Len(emitted)
      BY <2>1, <3>1 DEF BusOK
    <3>2. CASE n = Len(emitted) + 1
      BY <1>0, <2>1, <3>2
    <3> QED BY <1>0, <2>1, <3>1, <3>2
  <2> QED BY <2>1, <2>2, <2>3 DEF BusOK
<1>4. ASSUME NEW n \in 1..Len(emitted), Dispatch(n)
      PROVE  BusOK'
  <2>1. /\ emitted' \in Seq(Copies) /\ Len(emitted') = Len(emitted)
        /\ \A k \in 1..Len(emitted) :
             /\ emitted'[k].copy = emitted[k].copy
             /\ emitted'[k].next = IF k = n THEN emitted[n].next + 1 ELSE emitted[k].next
        /\ spawned' \in {spawned, spawned \cup {<<emitted[n].next, n>>}}
        /\ <<emitted[n].next, n>> \in Calls
        /\ UNCHANGED <<startCtx, subs, handled, exit>>
    BY <1>4, Dispatched
  <2>2. \A k \in 1..Len(emitted') :
          emitted'[k].next \in Nat \ {0} /\ Len(emitted'[k].copy) <= Len(subs')
    <3> TAKE k \in 1..Len(emitted')
    <3>1. k \in 1..Len(emitted) /\ emitted'[k].copy = emitted[k].copy /\ subs' = subs
      BY <2>1
    <3>2. emitted[k].next \in Nat \ {0} /\ Len(emitted[k].copy) <= Len(subs)
      BY <3>1 DEF BusOK
    <3>3. emitted'[k].next \in {emitted[k].next, emitted[k].next + 1}
      BY <2>1, <3>1
    <3> QED BY <3>1, <3>2, <3>3
  <2>3. Calls' = Calls
    BY <2>1 DEF Calls
  <2> QED BY <2>1, <2>2, <2>3 DEF BusOK
<1>5. ASSUME NEW call \in spawned, HandlerRuns(call) \/ HandlerPanics(call)
      PROVE  BusOK'
  BY <1>5 DEF HandlerRuns, HandlerPanics, BusOK, Calls
<1>6. ASSUME UNCHANGED busVars, exit' \in {exit, "listener", "shutdown"},
             startCtx' \in [Modules -> {"none", "live", "cancelled"}]
      PROVE  BusOK'
  BY <1>6 DEF BusOK, busVars, Calls
<1>7. CASE \E m \in Modules : StartModule(m) \/ StartReturns(m)
  <2>1. startCtx' \in [Modules -> {"none", "live", "cancelled"}]
    BY <1>7 DEF StartModule, StartReturns, BusOK
  <2> QED BY <1>6, <1>7, <2>1 DEF StartModule, StartReturns
<1>8. CASE UNCHANGED busVars /\ startCtx' = startCtx /\ exit' \in {exit, "listener", "shutdown"}
  BY <1>6, <1>8 DEF BusOK
<1> QED BY <1>1, <1>2, <1>3, <1>4, <1>5, <1>7, <1>8, BusCases DEF BusSteps

KernelTypes == TablesOK /\ ChecksOK /\ BusOK

(* The kernel is type-correct. *)
LEMMA TypesHold == Spec => []KernelTypes
<1>1. Init => KernelTypes
  <2>1. Init => TablesOK
    BY DEF Init, TablesOK, Phases, ModuleStates
  <2>2. Init => ChecksOK
    BY DEF Init, ChecksOK, Request
  <2>3. Init => BusOK
    <3> SUFFICES ASSUME Init PROVE BusOK
      OBVIOUS
    <3>1. subs \in Seq(Subscription) /\ emitted \in Seq(Copies) /\ Len(emitted) = 0 /\ 0 <= MaxEmits
      BY KernelAssumption DEF Init
    <3>2. startCtx \in [Modules -> {"none", "live", "cancelled"}] /\ exit = None
      BY DEF Init
    <3> QED BY <3>1, <3>2 DEF Init, BusOK
  <2> QED BY <2>1, <2>2, <2>3 DEF KernelTypes
<1>2. KernelTypes /\ [Next]_vars => KernelTypes'
  BY TablesStep, ChecksStep, BusStep DEF KernelTypes
<1> QED BY <1>1, <1>2, PTL DEF Spec

(* Every variable of the kernel has its type, for any modules, requests,   *)
(* events and filters. (kernel.go)                                         *)
THEOREM TypeCorrect == Spec => []TypeOK
<1>1. KernelTypes => TypeOK
  BY DEF KernelTypes, TablesOK, ChecksOK, BusOK, TypeOK, Phases, Request, Copies, Calls
<1> QED BY <1>1, TypesHold, PTL

-----------------------------------------------------------------------------
(* The lifecycle *)

(* What the loops of StartAll and StopAll have visited shows in the table: *)
(* a module is registered or running while it is still to be visited, in   *)
(* between while it is called, and settled afterwards.                     *)
Registering ==
  /\ todo = {} /\ current = None
  /\ In(ModuleStates \ {"absent", "registered"}) = {}
Starting ==
  /\ In({"registered"}) = todo
  /\ In({"starting"}) = {current} \ {None}
  /\ In({"stopping", "stopped"}) = {}
Serving ==
  /\ todo = {} /\ current = None
  /\ In({"registered", "starting", "stopping", "stopped"}) = {}
Stopping ==
  /\ In({"running"}) = todo
  /\ In({"stopping"}) = {current} \ {None}
  /\ In({"registered", "starting"}) = {}
Stopped == In({"registered", "starting", "stopping", "running"}) = {}

LifecycleInv ==
  /\ main = "registering" => Registering
  /\ main = "starting" => Starting
  /\ main = "serving" => Serving
  /\ main = "stopping" => Stopping
  /\ main \in {"closing", "stopped"} => Stopped

(* The steps of main keep the tables in the state of the phase. *)
LEMMA LifecycleStep == TablesOK /\ LifecycleInv /\ [Next]_vars => LifecycleInv'
<1> SUFFICES ASSUME TablesOK, LifecycleInv, [Next]_vars
             PROVE  LifecycleInv'
  OBVIOUS
<1> USE KernelAssumption DEF LifecycleInv, In
<1>1. ASSUME NEW m \in Modules, Register(m)
      PROVE  LifecycleInv'
  BY <1>1 DEF Register, Registering, TablesOK, mainVars, ModuleStates
<1>2. CASE BeginStartAll
  BY <1>2 DEF BeginStartAll, Registering, Starting, TablesOK, ModuleStates
<1>3. ASSUME NEW m \in Modules, StartModule(m)
      PROVE  LifecycleInv'
  BY <1>3 DEF StartModule, Starting, TablesOK
<1>4. ASSUME NEW m \in Modules, StartReturns(m)
      PROVE  LifecycleInv'
  BY <1>4 DEF StartReturns, Starting, TablesOK
<1>5. CASE FinishStartAll
  BY <1>5 DEF FinishStartAll, Starting, Serving, TablesOK
<1>6. CASE BeginStopAll
  BY <1>6 DEF BeginStopAll, Serving, Stopping, TablesOK
<1>7. ASSUME NEW m \in Modules, StopModule(m)
      PROVE  LifecycleInv'
  BY <1>7 DEF StopModule, Stopping, TablesOK
<1>8. ASSUME NEW m \in Modules, StopReturns(m)
      PROVE  LifecycleInv'
  BY <1>8 DEF StopReturns, Stopping, TablesOK
<1>9. CASE FinishStopAll \/ ShutdownDone
  BY <1>9 DEF FinishStopAll, ShutdownDone, Stopping, Stopped, TablesOK
<1>10. CASE UNCHANGED <<mainVars, state>>
  BY <1>10 DEF mainVars, Registering, Starting, Serving, Stopping, Stopped
<1>11. \/ BeginStartAll \/ FinishStartAll \/ BeginStopAll \/ FinishStopAll \/ ShutdownDone
       \/ \E m \in Modules : \/ Register(m) \/ StartModule(m) \/ StartReturns(m)
                             \/ StopModule(m) \/ StopReturns(m)
       \/ UNCHANGED <<mainVars, state>>
  BY DEF Next, MainStep, ShutdownFails, HealthStep, AnswerHealth, CheckReturns, Emits, Dispatch,
         Handlers, HandlerRuns, Environment, BeginHealthCheck, Subscribe, CloseSubscription,
         Emit, ListenerFails, HandlerPanics, vars,
         mainVars
<1> QED BY <1>1, <1>2, <1>3, <1>4, <1>5, <1>6, <1>7, <1>8, <1>9, <1>10, <1>11

(* The invariant holds in every state. *)
LEMMA LifecycleHolds == Spec => []LifecycleInv
<1>1. Init => LifecycleInv
  BY DEF Init, LifecycleInv, Registering, In, ModuleStates
<1>2. KernelTypes /\ LifecycleInv /\ [Next]_vars => LifecycleInv'
  BY LifecycleStep DEF KernelTypes
<1> QED BY <1>1, <1>2, TypesHold, PTL DEF Spec

(* Start and stop settle every module, whatever its Start or Stop did, for *)
(* any number of modules. (kernel.go StartAll, StopAll)                    *)
THEOREM LifecyclesComplete == Spec => []LifecycleComplete
<1>1. LifecycleInv => LifecycleComplete
  BY DEF LifecycleInv, LifecycleComplete, Serving, Stopped
<1> QED BY <1>1, LifecycleHolds, PTL

-----------------------------------------------------------------------------
(* Health *)

(* from the start of the HTTP server on *)
Listening == {"serving", "stopping", "closing", "stopped"}

(* An idle request has asked nothing; requests are begun when the platform *)
(* serves, and from then on no module starts to run.                       *)
HealthInv == \A r \in Requests :
  /\ check[r].phase = "idle" => check[r].todo = {} /\ check[r].results = {}
  /\ check[r].phase # "idle" =>
       /\ main \in Listening
       /\ check[r].todo \cup check[r].results \subseteq In({"running", "stopping", "stopped"})
       /\ In({"running"}) \subseteq check[r].todo \cup check[r].results

(* A module that is asked runs, or did so until StopAll came to it.        *)
LEMMA HealthStepKeeps ==
  TablesOK /\ ChecksOK /\ LifecycleInv /\ HealthInv /\ [Next]_vars => HealthInv'
<1> SUFFICES ASSUME TablesOK, ChecksOK, LifecycleInv, HealthInv, [Next]_vars
             PROVE  HealthInv'
  OBVIOUS
<1> USE DEF Listening
<1>1. ASSUME NEW r \in Requests, BeginHealthCheck(r)
      PROVE  HealthInv'
  BY <1>1 DEF BeginHealthCheck, HealthInv, ChecksOK, Request, In, mainVars
<1>2. ASSUME NEW r \in Requests, NEW m \in Modules, CheckReturns(r, m)
      PROVE  HealthInv'
  BY <1>2 DEF CheckReturns, HealthInv, ChecksOK, Request, In, mainVars
<1>3. ASSUME NEW r \in Requests, AnswerHealth(r)
      PROVE  HealthInv'
  BY <1>3 DEF AnswerHealth, HealthInv, ChecksOK, Request, In, mainVars
<1>4. ASSUME check' = check,
             main \in Listening =>
               /\ main' \in Listening
               /\ In({"running", "stopping", "stopped"})
                    \subseteq In({"running", "stopping", "stopped"})'
               /\ In({"running"})' \subseteq In({"running"})
      PROVE  HealthInv'
  BY <1>4 DEF HealthInv
<1>5. CASE BeginStopAll \/ FinishStopAll \/ ShutdownDone
  BY <1>4, <1>5 DEF BeginStopAll, FinishStopAll, ShutdownDone, In
<1>6. ASSUME NEW m \in Modules, StopModule(m) \/ StopReturns(m)
      PROVE  HealthInv'
  <2>1. state[m] \in {"running", "stopping"}
    BY <1>6, KernelAssumption DEF StopModule, StopReturns, LifecycleInv, Stopping, In
  <2>2. In({"running", "stopping", "stopped"})
                    \subseteq In({"running", "stopping", "stopped"})'
    BY <1>6, <2>1 DEF StopModule, StopReturns, TablesOK, In
  <2>3. In({"running"})' \subseteq In({"running"})
    BY <1>6 DEF StopModule, StopReturns, TablesOK, In
  <2> QED BY <1>4, <1>6, <2>2, <2>3 DEF StopModule, StopReturns
<1>7. CASE main \notin Listening /\ check' = check
  BY <1>4, <1>7
<1>8. CASE UNCHANGED <<mainVars, state, check>>
  BY <1>4, <1>8 DEF mainVars, In
<1>9. \/ BeginStopAll \/ FinishStopAll \/ ShutdownDone
      \/ \E m \in Modules : StopModule(m) \/ StopReturns(m)
      \/ \E r \in Requests : \/ BeginHealthCheck(r) \/ AnswerHealth(r)
                             \/ \E m \in Modules : CheckReturns(r, m)
      \/ main \notin Listening /\ check' = check
      \/ UNCHANGED <<mainVars, state, check>>
  BY DEF Next, MainStep, BeginStartAll, FinishStartAll, ShutdownFails, Register, StartModule,
         StartReturns, HealthStep, Emits, Dispatch, Handlers, HandlerRuns, Environment,
         Subscribe, CloseSubscription, Emit, ListenerFails,
         HandlerPanics, vars, mainVars
<1> QED BY <1>1, <1>2, <1>3, <1>5, <1>6, <1>7, <1>8, <1>9

(* A health answer is about modules whose Start succeeded, and about all   *)
(* of them that still run, for any number of requests and modules, however *)
(* StopAll and the checks interleave. (kernel.go HealthCheckAll)           *)
THEOREM HealthIsOfStartedModules == Spec => []HealthOfStartedModules
<1>1. Init => HealthInv
  BY DEF Init, HealthInv
<1>2. KernelTypes /\ LifecycleInv /\ HealthInv /\ [Next]_vars => HealthInv'
  BY HealthStepKeeps DEF KernelTypes
<1>3. KernelTypes /\ HealthInv => HealthOfStartedModules
  <2> SUFFICES ASSUME KernelTypes, HealthInv, NEW r \in Requests
               PROVE  /\ check[r].todo \cup check[r].results
                           \subseteq In({"running", "stopping", "stopped"})
                      /\ check[r].phase # "idle" =>
                           In({"running"}) \subseteq check[r].todo \cup check[r].results
    BY DEF HealthOfStartedModules
  <2>1. CASE check[r].phase = "idle"
    BY <2>1 DEF HealthInv
  <2>2. CASE check[r].phase # "idle"
    BY <2>2 DEF HealthInv
  <2> QED BY <2>1, <2>2
<1> QED BY <1>1, <1>2, <1>3, TypesHold, LifecycleHolds, PTL DEF Spec

-----------------------------------------------------------------------------
(* The event bus *)

(* The ranks put the severities in the order of AtOrAbove. *)
LEMMA MatchedIsWanted ==
  ASSUME NEW event \in Events, NEW filter \in Filters, MatchesFilter(event, filter)
  PROVE  Wanted(event, filter)
<1>1. CASE filter.minSeverity = Any
  BY <1>1 DEF MatchesFilter, Wanted
<1>2. CASE filter.minSeverity # Any
  <2>1. filter.minSeverity \in {"critical", "high", "medium", "low", "informational"}
    BY <1>2, KernelAssumption
  <2>2. SeverityRank(event.severity) >= SeverityRank(filter.minSeverity)
    BY <1>2 DEF MatchesFilter
  <2>3. event.severity \in AtOrAbove[filter.minSeverity]
    BY <2>1, <2>2 DEF SeverityRank, Ranks, AtOrAbove
  <2> QED BY <2>3 DEF MatchesFilter, Wanted
<1> QED BY <1>1, <1>2

(* A copy shows the subscriptions as they were when its event was emitted: *)
(* one that was open then is open now, or was closed after that event.  A  *)
(* loop has started handlers only for indices it has passed.               *)
CopiesInv == \A n \in 1..Len(emitted) : \A i \in 1..Len(emitted[n].copy) :
  /\ emitted[n].copy[i].filter = subs[i].filter
  /\ subs[i].since < n
  /\ ~emitted[n].copy[i].closed /\ subs[i].closed => n <= subs[i].until
SinceInv == \A i \in 1..Len(subs) : subs[i].since <= Len(emitted)
CallsInv == \A call \in spawned \cup handled : call[1] < emitted[call[2]].next
OnceInv == SinceInv /\ CopiesInv /\ CallsInv

(* Nobody subscribed after more events than were emitted. *)
LEMMA SinceStep == BusOK /\ SinceInv /\ [Next]_vars => SinceInv'
<1> SUFFICES ASSUME BusOK, SinceInv, [Next]_vars
             PROVE  SinceInv'
  OBVIOUS
<1>0. Len(subs) \in Nat /\ Len(emitted) \in Nat /\ \A i \in 1..Len(subs) : subs[i].since \in Nat
  <2>1. \A i \in 1..Len(subs) : subs[i] \in Subscription
    BY DEF BusOK
  <2> QED BY <2>1, KernelAssumption DEF BusOK, Subscription
<1>1. ASSUME NEW m \in Modules, NEW filter \in Filters, Subscribe(m, filter)
      PROVE  SinceInv'
  <2>1. /\ Len(subs') = Len(subs) + 1 /\ \A i \in 1..Len(subs) : subs'[i] = subs[i]
        /\ emitted' = emitted
    BY <1>1, Subscribed
  <2>2. subs'[Len(subs) + 1].since = Len(emitted)
    BY <1>1 DEF Subscribe, BusOK
  <2> QED BY <1>0, <2>1, <2>2 DEF SinceInv
<1>2. ASSUME NEW j \in 1..Len(subs), CloseSubscription(j)
      PROVE  SinceInv'
  <2>1. /\ Len(subs') = Len(subs) /\ \A k \in 1..Len(subs) : k # j => subs'[k] = subs[k]
        /\ subs'[j].since = subs[j].since /\ emitted' = emitted
    BY <1>2, Unsubscribed
  <2> QED BY <2>1 DEF SinceInv
<1>3. ASSUME NEW event \in Events, Emit(event)
      PROVE  SinceInv'
  <2>1. Len(emitted') = Len(emitted) + 1 /\ subs' = subs
    BY <1>3, Emitted
  <2> QED BY <1>0, <2>1 DEF SinceInv
<1>4. ASSUME NEW n \in 1..Len(emitted), Dispatch(n)
      PROVE  SinceInv'
  <2>1. Len(emitted') = Len(emitted) /\ subs' = subs
    BY <1>4, Dispatched
  <2> QED BY <2>1 DEF SinceInv
<1>5. CASE UNCHANGED <<subs, emitted>>
  BY <1>5 DEF SinceInv
<1> QED BY <1>1, <1>2, <1>3, <1>4, <1>5, BusCases
        DEF BusSteps, HandlerRuns, HandlerPanics, StartModule, StartReturns, busVars

(* Every step keeps what the copies show. *)
LEMMA CopiesStep == BusOK /\ SinceInv /\ CopiesInv /\ [Next]_vars => CopiesInv'
<1> SUFFICES ASSUME BusOK, SinceInv, CopiesInv, [Next]_vars
             PROVE  CopiesInv'
  OBVIOUS
<1>0. Len(subs) \in Nat /\ Len(emitted) \in Nat
  BY DEF BusOK
<1>1. ASSUME NEW n \in 1..Len(emitted)
      PROVE  1..Len(emitted[n].copy) \subseteq 1..Len(subs)
  <2>1. Len(emitted[n].copy) <= Len(subs) /\ Len(emitted[n].copy) \in Nat
    BY DEF BusOK, Copies
  <2> QED BY <1>0, <2>1
<1>2. ASSUME NEW m \in Modules, NEW filter \in Filters, Subscribe(m, filter)
      PROVE  CopiesInv'
  <2>1. emitted' = emitted /\ \A i \in 1..Len(subs) : subs'[i] = subs[i]
    BY <1>2, Subscribed
  <2> QED BY <1>1, <2>1 DEF CopiesInv
<1>3. ASSUME NEW j \in 1..Len(subs), CloseSubscription(j)
      PROVE  CopiesInv'
  <2>1. /\ emitted' = emitted
        /\ \A k \in 1..Len(subs) : k # j => subs'[k] = subs[k]
        /\ subs'[j].filter = subs[j].filter /\ subs'[j].since = subs[j].since
        /\ subs'[j].until = Len(emitted)
    BY <1>3, Unsubscribed
  <2> SUFFICES ASSUME NEW n \in 1..Len(emitted), NEW i \in 1..Len(emitted[n].copy)
               PROVE  /\ emitted[n].copy[i].filter = subs'[i].filter
                      /\ subs'[i].since < n
                      /\ ~emitted[n].copy[i].closed /\ subs'[i].closed => n <= subs'[i].until
    BY <2>1 DEF CopiesInv
  <2>2. i \in 1..Len(subs)
    BY <1>1
  <2>3. CASE i = j
    BY <1>0, <2>1, <2>3 DEF CopiesInv
  <2>4. CASE i # j
    BY <2>1, <2>2, <2>4 DEF CopiesInv
  <2> QED BY <2>3, <2>4
<1>4. ASSUME NEW event \in Events, Emit(event)
      PROVE  CopiesInv'
  <2>1. /\ Len(emitted') = Len(emitted) + 1 /\ subs' = subs
        /\ \A n \in 1..Len(emitted) : emitted'[n] = emitted[n]
        /\ emitted'[Len(emitted) + 1] = [event |-> event, copy |-> subs, next |-> 1]
    BY <1>4, Emitted
  <2> SUFFICES ASSUME NEW n \in 1..Len(emitted'), NEW i \in 1..Len(emitted'[n].copy)
               PROVE  /\ emitted'[n].copy[i].filter = subs[i].filter
                      /\ subs[i].since < n
                      /\ ~emitted'[n].copy[i].closed /\ subs[i].closed => n <= subs[i].until
    BY <2>1 DEF CopiesInv
  <2>2. CASE n \in 1..Len(emitted)
    BY <2>1, <2>2 DEF CopiesInv
  <2>3. CASE n = Len(emitted) + 1
    <3>1. emitted'[n].copy = subs
      BY <2>1, <2>3
    <3>2. subs[i] \in Subscription
      BY <3>1 DEF BusOK
    <3>3. subs[i].since \in 0..MaxEmits /\ subs[i].since <= Len(emitted)
      BY <3>1, <3>2 DEF Subscription, SinceInv
    <3> QED BY <1>0, <2>3, <3>1, <3>3
  <2> QED BY <1>0, <2>1, <2>2, <2>3
<1>5. ASSUME NEW n \in 1..Len(emitted), Dispatch(n)
      PROVE  CopiesInv'
  <2>1. /\ Len(emitted') = Len(emitted) /\ subs' = subs
        /\ \A k \in 1..Len(emitted) : emitted'[k].copy = emitted[k].copy
    BY <1>5, Dispatched
  <2> QED BY <2>1 DEF CopiesInv
<1>6. CASE UNCHANGED <<subs, emitted>>
  BY <1>6 DEF CopiesInv
<1> QED BY <1>2, <1>3, <1>4, <1>5, <1>6, BusCases
        DEF BusSteps, HandlerRuns, HandlerPanics, StartModule, StartReturns, busVars


(* A loop starts a handler for the index it leaves behind. *)
LEMMA CallsStep == BusOK /\ CallsInv /\ [Next]_vars => CallsInv'
<1> SUFFICES ASSUME BusOK, CallsInv, [Next]_vars
             PROVE  CallsInv'
  OBVIOUS
<1>0. /\ \A n \in 1..Len(emitted) : emitted[n].next \in Nat
      /\ \A call \in spawned \cup handled : /\ call[1] \in Nat /\ call[2] \in 1..Len(emitted)
                                           /\ call = <<call[1], call[2]>>
      /\ Len(emitted) \in Nat
  BY DEF BusOK, Calls
<1>1. ASSUME NEW event \in Events, Emit(event)
      PROVE  CallsInv'
  <2>1. /\ \A n \in 1..Len(emitted) : emitted'[n] = emitted[n]
        /\ UNCHANGED <<spawned, handled>>
    BY <1>1, Emitted
  <2> QED BY <1>0, <2>1 DEF CallsInv
<1>2. ASSUME NEW n \in 1..Len(emitted), Dispatch(n)
      PROVE  CallsInv'
  <2>1. /\ \A k \in 1..Len(emitted) :
             emitted'[k].next = IF k = n THEN emitted[n].next + 1 ELSE emitted[k].next
        /\ spawned' \in {spawned, spawned \cup {<<emitted[n].next, n>>}} /\ handled' = handled
    BY <1>2, Dispatched
  <2> SUFFICES ASSUME NEW call \in spawned' \cup handled'
               PROVE  call[1] < emitted'[call[2]].next
    BY DEF CallsInv
  <2>2. CASE call \in spawned \cup handled
    BY <1>0, <2>1, <2>2 DEF CallsInv
  <2>3. CASE call = <<emitted[n].next, n>>
    BY <1>0, <2>1, <2>3
  <2> QED BY <2>1, <2>2, <2>3
<1>3. ASSUME NEW call \in spawned, HandlerRuns(call) \/ HandlerPanics(call)
      PROVE  CallsInv'
  BY <1>3 DEF HandlerRuns, HandlerPanics, CallsInv
<1>4. CASE UNCHANGED <<emitted, spawned, handled>>
  BY <1>4 DEF CallsInv
<1> QED BY <1>1, <1>2, <1>3, <1>4, BusCases
        DEF BusSteps, Subscribe, CloseSubscription, StartModule, StartReturns, busVars

(* The invariant holds in every state. *)
LEMMA OnceHolds == Spec => []OnceInv
<1>1. Init => OnceInv
  BY DEF Init, OnceInv, SinceInv, CopiesInv, CallsInv
<1>2. KernelTypes /\ OnceInv /\ [Next]_vars => OnceInv'
  BY SinceStep, CopiesStep, CallsStep DEF KernelTypes, OnceInv
<1> QED BY <1>1, <1>2, TypesHold, PTL DEF Spec

(* Only the loop of an Emit call starts handlers, and those its copy and   *)
(* its place in the copy allow.                                            *)
LEMMA CallsWereAsked == BusOK /\ OnceInv /\ [Next]_vars =>
  \A call \in spawned' \ spawned : AskedFor(call[1], call[2]) /\ call \notin handled
<1> SUFFICES ASSUME BusOK, OnceInv, [Next]_vars, NEW call \in spawned' \ spawned
             PROVE  AskedFor(call[1], call[2]) /\ call \notin handled
  OBVIOUS
<1>1. PICK n \in 1..Len(emitted) : Dispatch(n)
  <2>1. BusSteps /\ spawned' # spawned
    BY BusCases DEF StartModule, StartReturns, busVars
  <2>2. ASSUME NEW event \in Events, Emit(event)
        PROVE  spawned' = spawned
    BY <2>2 DEF Emit
  <2>3. ASSUME NEW other \in spawned, HandlerRuns(other) \/ HandlerPanics(other)
        PROVE  spawned' \subseteq spawned
    BY <2>3 DEF HandlerRuns, HandlerPanics
  <2>4. \E n \in 1..Len(emitted) : Dispatch(n)
    BY <2>1, <2>2, <2>3 DEF BusSteps, Subscribe, CloseSubscription
  <2> QED BY <2>4
<1> DEFINE i == emitted[n].next
<1>2. /\ i <= Len(emitted[n].copy) /\ call = <<i, n>>
      /\ ~emitted[n].copy[i].closed
      /\ MatchesFilter(emitted[n].event, emitted[n].copy[i].filter)
  BY <1>1 DEF Dispatch
<1>3. i \in 1..Len(emitted[n].copy) /\ emitted[n].event \in Events
  <2>1. emitted[n] \in Copies /\ i \in Nat \ {0}
    BY DEF BusOK
  <2> QED BY <1>2, <2>1 DEF Copies
<1>4. /\ emitted[n].copy[i].filter = subs[i].filter
      /\ subs[i].since < n
      /\ subs[i].closed => n <= subs[i].until
  BY <1>2, <1>3 DEF OnceInv, CopiesInv
<1>5. subs[i].filter \in Filters
  <2>1. emitted[n].copy[i] \in Subscription
    <3>1. emitted[n] \in Copies
      BY DEF BusOK
    <3> QED BY <1>3, <3>1 DEF Copies
  <2> QED BY <1>4, <2>1 DEF Subscription
<1>6. Wanted(emitted[n].event, subs[i].filter)
  BY <1>2, <1>3, <1>4, <1>5, MatchedIsWanted
<1>7. call \notin handled
  <2>1. i \in Nat /\ ~(i < i)
    BY DEF BusOK
  <2> QED BY <1>2, <2>1 DEF OnceInv, CallsInv
<1> QED BY <1>2, <1>4, <1>6, <1>7 DEF AskedFor

(* Handlers are started only for events their filter asks for, emitted     *)
(* between the Subscribe and the Close of the subscription, and once for   *)
(* an event, for any subscriptions and events and however emits,           *)
(* subscribes and closes interleave. (kernel.go Emit, Subscribe,           *)
(* kernelSubscription.Close; platform.go EventFilter)                      *)
THEOREM HandlersAreAsked == Spec => HandlersWereAsked
<1>1. KernelTypes /\ OnceInv /\ [Next]_vars =>
        [\A call \in spawned' \ spawned :
           AskedFor(call[1], call[2]) /\ call \notin handled]_vars
  BY CallsWereAsked DEF KernelTypes
<1> QED BY <1>1, TypesHold, OnceHolds, PTL DEF Spec, HandlersWereAsked
=============================================================================

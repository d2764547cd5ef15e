------------------------------- MODULE Kernel -------------------------------
(***************************************************************************)
(* The platform kernel (titanops-platform/kernel.go) as cmd/titanops       *)
(* drives it: modules are registered, started one after the other, served, *)
(* and stopped one after the other.                                        *)
(*                                                                         *)
(* The kernel takes k.mu only to look at or to change its tables and calls *)
(* into modules with the lock released, so a start or a stop is two        *)
(* critical sections around a call.  Health requests arrive on HTTP        *)
(* goroutines and work on a snapshot of the running modules.  An emit      *)
(* copies the subscriptions under the lock and goes through its copy with  *)
(* the lock released, starting each handler on a goroutine of its own, so  *)
(* other emits, subscribes and closes come between its steps.              *)
(***************************************************************************)
EXTENDS Integers, Sequences, FiniteSets

CONSTANTS
  Modules,     \* the modules compiled into the platform
  Requests,    \* HTTP requests for /api/modules/health
  Events,      \* events modules emit: [module, type, severity]
  Filters,     \* filters subscribers pass: [module, type, minSeverity]
  MaxEmits,    \* bound: events emitted
  MaxSubs      \* bound: subscriptions registered

Any  == ""          \* the empty string of an EventFilter field
None == "none"

ASSUME KernelAssumption ==
  /\ MaxEmits \in Nat
  /\ MaxSubs \in Nat
  /\ Modules \cap {Any, None} = {}
  /\ \A event \in Events : event.module \in Modules
  /\ \A filter \in Filters :
       filter.minSeverity \in {Any, "critical", "high", "medium", "low", "informational"}

VARIABLES
  main,       \* where cmd/titanops main is
  todo,       \* ids the StartAll or StopAll loop has still to visit
  current,    \* the module whose Start or Stop is being called, or None
  state,      \* k.modules[id].state, "absent" when not registered
  startCtx,   \* the context Start was given: "none", "live" or "cancelled"
  subs,       \* k.subs: <<[filter, closed]>>; history: the number of events
              \* emitted before the Subscribe in since, before the Close in until
  emitted,    \* the Emit calls, in the order they copied k.subs: <<[event,
              \* copy, next]>>, next being the index its loop has come to
  spawned,    \* handler goroutines not yet run: <<subscription, emit>>
  handled,    \* history: handler calls that ran
  check,      \* health requests: [phase, todo, results]
  exit        \* what ended the process before main returned: None, "panic"
              \* (nobody recovered it), "listener" or "shutdown" (log.Fatalf)

mainVars  == <<main, todo, current>>
busVars   == <<subs, emitted, spawned, handled>>
vars      == <<main, todo, current, state, startCtx, subs, emitted, spawned,
               handled, check, exit>>

ModuleStates == {"absent", "registered", "starting", "running", "stopping", "stopped", "failed"}

In(states) == {m \in Modules : state[m] \in states}

-----------------------------------------------------------------------------
(* severityRank and matchesFilter *)
Ranks == [critical |-> 5, high |-> 4, medium |-> 3, low |-> 2, informational |-> 1]
SeverityRank(severity) == IF severity \in DOMAIN Ranks THEN Ranks[severity] ELSE 0

MatchesFilter(event, filter) ==
  /\ filter.module \in {Any, event.module}
  /\ filter.type \in {Any, event.type}
  /\ filter.minSeverity # Any => SeverityRank(event.severity) >= SeverityRank(filter.minSeverity)

-----------------------------------------------------------------------------
Init ==
  /\ main = "registering"
  /\ todo = {}
  /\ current = None
  /\ state = [m \in Modules |-> "absent"]
  /\ startCtx = [m \in Modules |-> "none"]
  /\ subs = <<>>
  /\ emitted = <<>>
  /\ spawned = {}
  /\ handled = {}
  /\ check = [r \in Requests |-> [phase |-> "idle", todo |-> {}, results |-> {}]]
  /\ exit = None

(* Register(m): a second module with the same id is refused *)
Register(m) ==
  /\ main = "registering"
  /\ state[m] = "absent"
  /\ state' = [state EXCEPT ![m] = "registered"]
  /\ UNCHANGED <<mainVars, startCtx, busVars, check, exit>>

(* StartAll: the ids of the registered modules *)
BeginStartAll ==
  /\ main = "registering"
  /\ main' = "starting"
  /\ todo' = In(ModuleStates \ {"absent"})
  /\ UNCHANGED <<current, state, startCtx, busVars, check, exit>>

(* startModule: mark it starting, then call its Start *)
StartModule(m) ==
  /\ main = "starting"
  /\ current = None
  /\ m \in todo
  /\ current' = m
  /\ todo' = todo \ {m}
  /\ state' = [state EXCEPT ![m] = "starting"]
  /\ startCtx' = [startCtx EXCEPT ![m] = "live"]
  /\ UNCHANGED <<main, busVars, check, exit>>

(* Start came back; the deferred cancel ends its context in every case *)
StartReturns(m) ==
  /\ main = "starting"
  /\ current = m
  /\ current' = None
  /\ \/ state' = [state EXCEPT ![m] = "running"]     \* nil
     \/ state' = [state EXCEPT ![m] = "failed"]      \* an error, or a panic
  /\ startCtx' = [startCtx EXCEPT ![m] = "cancelled"]
  /\ UNCHANGED <<main, todo, busVars, check, exit>>

(* StartAll returned; main starts the HTTP server *)
FinishStartAll ==
  /\ main = "starting"
  /\ current = None
  /\ todo = {}
  /\ main' = "serving"
  /\ UNCHANGED <<todo, current, state, startCtx, busVars, check, exit>>

(* a shutdown signal: StopAll takes the ids of the running modules *)
BeginStopAll ==
  /\ main = "serving"
  /\ main' = "stopping"
  /\ todo' = In({"running"})
  /\ UNCHANGED <<current, state, startCtx, busVars, check, exit>>

(* stopModule: mark it stopping, then call its Stop *)
StopModule(m) ==
  /\ main = "stopping"
  /\ current = None
  /\ m \in todo
  /\ current' = m
  /\ todo' = todo \ {m}
  /\ state' = [state EXCEPT ![m] = "stopping"]
  /\ UNCHANGED <<main, startCtx, busVars, check, exit>>

(* Stop returned nil or an error, or panicked: the deferred function marks
   the module stopped *)
MutStopReturns(m) ==                         \* a panic skips the marking
  /\ main = "stopping"
  /\ current = m
  /\ current' = None
  /\ state' \in {[state EXCEPT ![m] = "stopped"], state}
  /\ UNCHANGED <<main, todo, startCtx, busVars, check, exit>>
StopReturns(m) ==
  /\ main = "stopping"
  /\ current = m
  /\ current' = None
  /\ state' = [state EXCEPT ![m] = "stopped"]
  /\ UNCHANGED <<main, todo, startCtx, busVars, check, exit>>

(* StopAll returned; server.Shutdown closes the listener *)
FinishStopAll ==
  /\ main = "stopping"
  /\ current = None
  /\ todo = {}
  /\ main' = "closing"
  /\ UNCHANGED <<todo, current, state, startCtx, busVars, check, exit>>

(* server.Shutdown found every connection idle *)
ShutdownDone ==
  /\ main = "closing"
  /\ \A r \in Requests : check[r].phase # "waiting"
  /\ main' = "stopped"
  /\ UNCHANGED <<todo, current, state, startCtx, busVars, check, exit>>

(* the 30 s since the signal are over and some request - for the health of
   the modules or any other - is still being served: log.Fatalf *)
ShutdownFails ==
  /\ main = "closing"
  /\ exit' = "shutdown"
  /\ UNCHANGED <<mainVars, state, startCtx, busVars, check>>

(* ListenAndServe failed on its goroutine: log.Fatalf *)
ListenerFails ==
  /\ main \in {"serving", "stopping"}
  /\ exit' = "listener"
  /\ UNCHANGED <<mainVars, state, startCtx, busVars, check>>

-----------------------------------------------------------------------------
(* HealthCheckAll, on the goroutine of request r; a connection accepted
   before the listener was closed may bring its request after that *)

(* take the running modules and start one goroutine for each *)
MutBeginHealthCheck(r) ==                    \* every registered module
  /\ main \in {"serving", "stopping", "closing"}
  /\ check[r].phase = "idle"
  /\ check' = [check EXCEPT ![r] =
       [phase |-> "waiting", todo |-> In(ModuleStates \ {"absent"}), results |-> {}]]
  /\ UNCHANGED <<mainVars, state, startCtx, busVars, exit>>
BeginHealthCheck(r) ==
  /\ main \in {"serving", "stopping", "closing"}
  /\ check[r].phase = "idle"
  /\ check' = [check EXCEPT ![r] =
       [phase |-> "waiting", todo |-> In({"running"}), results |-> {}]]
  /\ UNCHANGED <<mainVars, state, startCtx, busVars, exit>>

(* the check of m returned a status, or its panic became one *)
MutCheckReturns(r, m) ==                     \* wg.Done() is forgotten
  /\ check[r].phase = "waiting"
  /\ m \in check[r].todo
  /\ check' = [check EXCEPT ![r].results = @ \cup {m}]
  /\ UNCHANGED <<mainVars, state, startCtx, busVars, exit>>
CheckReturns(r, m) ==
  /\ check[r].phase = "waiting"
  /\ m \in check[r].todo
  /\ check' = [check EXCEPT ![r].todo = @ \ {m}, ![r].results = @ \cup {m}]
  /\ UNCHANGED <<mainVars, state, startCtx, busVars, exit>>

(* wg.Wait() is over *)
AnswerHealth(r) ==
  /\ check[r].phase = "waiting"
  /\ check[r].todo = {}
  /\ check' = [check EXCEPT ![r].phase = "answered"]
  /\ UNCHANGED <<mainVars, state, startCtx, busVars, exit>>

-----------------------------------------------------------------------------
(* the event bus *)

(* a module that has been handed the kernel subscribes *)
Subscribe(m, filter) ==
  /\ startCtx[m] # "none"
  /\ Len(subs) < MaxSubs
  /\ subs' = Append(subs, [filter |-> filter, closed |-> FALSE, since |-> Len(emitted),
                         until |-> 0])
  /\ UNCHANGED <<mainVars, state, startCtx, emitted, spawned, handled, check, exit>>

CloseSubscription(i) ==
  /\ ~subs[i].closed
  /\ subs' = [subs EXCEPT ![i].closed = TRUE, ![i].until = Len(emitted)]
  /\ UNCHANGED <<mainVars, state, startCtx, emitted, spawned, handled, check, exit>>

(* Emit: copy the subscriptions under the lock *)
Emit(event) ==
  /\ startCtx[event.module] # "none"
  /\ Len(emitted) < MaxEmits
  /\ emitted' = Append(emitted, [event |-> event, copy |-> subs, next |-> 1])
  /\ UNCHANGED <<mainVars, state, startCtx, subs, spawned, handled, check, exit>>

(* one iteration of its loop over the copy: skip a subscription that was
   closed or does not match, start a goroutine for the handler of another;
   the call of the export adapters after the loop changes nothing here *)
MutDispatch(n) ==                            \* closed subscriptions are not skipped
  LET call == emitted[n]
  IN  /\ call.next <= Len(call.copy)
      /\ emitted' = [emitted EXCEPT ![n].next = @ + 1]
      /\ spawned' = IF MatchesFilter(call.event, call.copy[call.next].filter)
                    THEN spawned \cup {<<call.next, n>>} ELSE spawned
      /\ UNCHANGED <<mainVars, state, startCtx, subs, handled, check, exit>>
MutShortDispatch(n) ==                       \* the loop ends one too early
  LET call == emitted[n]
  IN  /\ call.next < Len(call.copy)
      /\ emitted' = [emitted EXCEPT ![n].next = @ + 1]
      /\ spawned' = IF /\ ~call.copy[call.next].closed
                       /\ MatchesFilter(call.event, call.copy[call.next].filter)
                    THEN spawned \cup {<<call.next, n>>} ELSE spawned
      /\ UNCHANGED <<mainVars, state, startCtx, subs, handled, check, exit>>
Dispatch(n) ==
  LET call == emitted[n]
  IN  /\ call.next <= Len(call.copy)
      /\ emitted' = [emitted EXCEPT ![n].next = @ + 1]
      /\ spawned' = IF /\ ~call.copy[call.next].closed
                       /\ MatchesFilter(call.event, call.copy[call.next].filter)
                    THEN spawned \cup {<<call.next, n>>} ELSE spawned
      /\ UNCHANGED <<mainVars, state, startCtx, subs, handled, check, exit>>

HandlerRuns(call) ==
  /\ spawned' = spawned \ {call}
  /\ handled' = handled \cup {call}
  /\ UNCHANGED <<mainVars, state, startCtx, subs, emitted, check, exit>>

(* a handler panics on its own goroutine, where nothing recovers *)
HandlerPanics(call) ==
  /\ spawned' = spawned \ {call}
  /\ exit' = "panic"
  /\ UNCHANGED <<mainVars, state, startCtx, subs, emitted, handled, check>>

-----------------------------------------------------------------------------
MainStep ==
  \/ BeginStartAll \/ FinishStartAll \/ FinishStopAll \/ ShutdownDone \/ ShutdownFails
  \/ \E m \in Modules :
       Register(m) \/ StartModule(m) \/ StartReturns(m) \/ StopModule(m) \/ StopReturns(m)

HealthStep == \E r \in Requests :
  AnswerHealth(r) \/ \E m \in Modules : CheckReturns(r, m)

Emits == \E n \in 1..Len(emitted) : Dispatch(n)

Handlers == \E call \in spawned : HandlerRuns(call)

Environment ==
  \/ BeginStopAll
  \/ ListenerFails
  \/ \E r \in Requests : BeginHealthCheck(r)
  \/ \E m \in Modules, filter \in Filters : Subscribe(m, filter)
  \/ \E i \in 1..Len(subs) : CloseSubscription(i)
  \/ \E event \in Events : Emit(event)
  \/ \E call \in spawned : HandlerPanics(call)

(* the process ends when main returns, a panic is not recovered or
   log.Fatalf is called *)
Alive == exit = None /\ main # "stopped"

Next == Alive /\ (MainStep \/ HealthStep \/ Emits \/ Handlers \/ Environment)

Spec == Init /\ [][Next]_vars

(* main runs on, called modules return, and goroutines are scheduled *)
FairSpec == /\ Spec
            /\ WF_vars(MainStep) /\ WF_vars(HealthStep)
            /\ WF_vars(Emits) /\ WF_vars(Handlers)

-----------------------------------------------------------------------------
Subscription == [filter : Filters, closed : BOOLEAN, since : 0..MaxEmits, until : 0..MaxEmits]

(* Every variable has its type; handlers run for calls that were dispatched. *)
TypeOK ==
  /\ main \in {"registering", "starting", "serving", "stopping", "closing", "stopped"}
  /\ todo \in SUBSET Modules
  /\ current \in Modules \cup {None}
  /\ state \in [Modules -> ModuleStates]
  /\ startCtx \in [Modules -> {"none", "live", "cancelled"}]
  /\ subs \in Seq(Subscription)
  /\ emitted \in Seq([event : Events, copy : Seq(Subscription), next : Nat])
  /\ spawned \in SUBSET ((1..Len(subs)) \X (1..Len(emitted)))
  /\ handled \in SUBSET ((1..Len(subs)) \X (1..Len(emitted)))
  /\ check \in [Requests -> [phase : {"idle", "waiting", "answered"},
                             todo : SUBSET Modules, results : SUBSET Modules]]
  /\ exit \in {None, "panic", "listener", "shutdown"}

(* Once main has come to the end of StartAll every module that was         *)
(* registered runs or failed, and from the end of StopAll on none runs any *)
(* more - whatever its Start or Stop did, a panic included. (kernel.go     *)
(* StartAll, StopAll)                                                      *)
LifecycleComplete ==
  /\ main = "serving" => In({"registered", "starting", "stopping", "stopped"}) = {}
  /\ main \in {"closing", "stopped"} =>
       In({"registered", "starting", "stopping", "running"}) = {}

(* A module is asked for its health only after its Start succeeded, and a  *)
(* health answer that was begun while the platform served reports every    *)
(* module that still runs. (kernel.go HealthCheckAll)                      *)
HealthOfStartedModules == \A r \in Requests :
  /\ check[r].todo \cup check[r].results \subseteq In({"running", "stopping", "stopped"})
  /\ check[r].phase # "idle" => In({"running"}) \subseteq check[r].todo \cup check[r].results

AtOrAbove == [critical |-> {"critical"},
              high     |-> {"critical", "high"},
              medium   |-> {"critical", "high", "medium"},
              low      |-> {"critical", "high", "medium", "low"},
              informational |-> {"critical", "high", "medium", "low", "informational"}]
Wanted(event, filter) ==
  /\ filter.module = Any \/ filter.module = event.module
  /\ filter.type = Any \/ filter.type = event.type
  /\ filter.minSeverity = Any \/ event.severity \in AtOrAbove[filter.minSeverity]

(* A handler is started at most once for an event, only for an event that  *)
(* was emitted - its Emit copied the subscriptions - after the Subscribe   *)
(* and before the Close of its subscription, and only for one its filter   *)
(* asks for: the module and type are the asked ones and the severity is at *)
(* or above the minimum.  A Close does not wait for the Emit calls that    *)
(* hold a copy: they may start the handler after it. (kernel.go Emit,      *)
(* Subscribe, kernelSubscription.Close; platform.go EventFilter)           *)
AskedFor(i, n) ==
  /\ subs[i].since < n
  /\ subs[i].closed => n <= subs[i].until
  /\ Wanted(emitted[n].event, subs[i].filter)
HandlersWereAsked ==
  [][\A call \in spawned' \ spawned : AskedFor(call[1], call[2]) /\ call \notin handled]_vars

(* A subscriber hears every event it asked for that is emitted while it is *)
(* subscribed, even when it closes its subscription before the handler is  *)
(* started, unless the process ends first. (kernel.go Emit)                *)
SubscribersHear ==
  \A i \in 1..MaxSubs, n \in 1..MaxEmits :
    (i \in 1..Len(subs) /\ n \in 1..Len(emitted) /\ AskedFor(i, n))
    ~> (<<i, n>> \in handled \/ ~Alive)

(* StartAll comes to its end, a requested shutdown ends, and a health      *)
(* request is answered, in spite of modules that fail or panic and of      *)
(* requests that are being served.  A start is cut short only by a panic   *)
(* in an event handler, which nothing recovers; a shutdown also by main's  *)
(* fatal exits: the listener failed, or a request was still being served   *)
(* 30 s after the signal. (kernel.go StartAll, StopAll, HealthCheckAll,    *)
(* Emit; main.go)                                                          *)
PhasesEnd ==
  /\ main = "starting" ~> main = "serving" \/ exit = "panic"
  /\ main = "stopping" ~> main = "stopped" \/ exit # None
  /\ \A r \in Requests : check[r].phase = "waiting" ~> check[r].phase = "answered" \/ ~Alive

=============================================================================

-------------------------- MODULE TetragonMonitor --------------------------
(***************************************************************************)
(* The Tetragon monitor (modules/ebeecontrol/tetragon.go) around its event *)
(* buffer: a loop that connects to Tetragon and reads the stream, the      *)
(* handling of each event (its path is looked up and the callbacks are     *)
(* copied under m.mu, then the event is pushed and the callbacks run       *)
(* without a lock), and Stop, which does not wait for the loop.            *)
(*                                                                         *)
(* InjectEvent handles an event in a goroutine of its caller, next to the  *)
(* loop.  Tetragon is outside src/: a stream ends at any time, and its     *)
(* Recv returns when the context of the stream is done.                    *)
(***************************************************************************)
EXTENDS EventBuffer, FiniteSets

CONSTANTS
  RawEvents,   \* kprobe events: [file, string], the two arguments, or None
  Injectors,   \* goroutines that call InjectEvent
  Callbacks,   \* functions given to OnEvent
  Panicking    \* the callbacks that panic

None    == "none"
Unknown == "unknown"

(* extractFilePath *)
FilePath(raw) ==
  CASE raw.file # None -> raw.file
    [] raw.file = None /\ raw.string # None -> raw.string
    [] OTHER -> Unknown

ASSUME MonitorAssumption ==
  /\ \A raw \in RawEvents : FilePath(raw) \in Event     \* events are told apart by path
  /\ Panicking \subseteq Callbacks

VARIABLES
  registered, \* m.registeredPaths
  callbacks,  \* m.callbacks
  connected,  \* m.connected
  ctx,        \* the stream's context: "none", "live" or "cancelled"
  loop,       \* where runStreamLoop is, "done" once m.done is closed; "simulation"
              \* in a monitor without a connector
  handling,   \* per goroutine, the event in handleRawEvent: [pc, path, todo, seq]
  owed,       \* history: <<callback, seq>>: the callback was there when the event came
  told        \* history: <<callback, seq>> of the calls made

streamVars  == <<connected, ctx, loop>>
monitorVars == <<registered, callbacks, streamVars, handling, owed, told>>
allVars     == <<vars, monitorVars>>

Stream     == "stream"
Goroutines == Injectors \cup {Stream}
Resting      == [pc |-> "idle", path |-> None, todo |-> {}, seq |-> 0]

MonitorInit ==
  /\ Init
  /\ registered = {}
  /\ callbacks = {}
  /\ connected = FALSE
  /\ ctx = "none"
  /\ loop \in {"off", "simulation"}
  /\ handling = [g \in Goroutines |-> Resting]
  /\ owed = {}
  /\ told = {}

-----------------------------------------------------------------------------
(* The methods of the agent *)

RegisterPath(path) ==
  /\ registered' = registered \cup {path}
  /\ UNCHANGED <<vars, callbacks, streamVars, handling, owed, told>>

UnregisterPath(path) ==
  /\ registered' = registered \ {path}
  /\ UNCHANGED <<vars, callbacks, streamVars, handling, owed, told>>

OnEvent(c) ==
  /\ c \notin callbacks
  /\ callbacks' = callbacks \cup {c}
  /\ UNCHANGED <<vars, registered, streamVars, handling, owed, told>>

(* once: without a connector the monitor only says that it is connected *)
Start ==
  /\ ctx = "none"
  /\ ctx' = "live"
  /\ \/ loop = "off" /\ loop' = "check" /\ UNCHANGED connected
     \/ loop = "simulation" /\ connected' = TRUE /\ UNCHANGED loop
  /\ UNCHANGED <<vars, registered, callbacks, handling, owed, told>>

(* m.cancel(), then connected = false; the loop may be anywhere *)
Stop ==
  /\ ctx = "live"
  /\ ctx' = "cancelled"
  /\ connected' = FALSE
  /\ UNCHANGED <<vars, registered, callbacks, loop, handling, owed, told>>

-----------------------------------------------------------------------------
(* runStreamLoop *)

Goes(from, to) == loop = from /\ loop' = to
KeepRest == UNCHANGED <<vars, registered, callbacks, ctx, handling, owed, told>>

MutCheck ==                                 \* the context is not looked at
  /\ Goes("check", "connect")
  /\ UNCHANGED connected
  /\ KeepRest
Check ==
  /\ \/ ctx = "cancelled" /\ Goes("check", "done")
     \/ ctx = "live" /\ Goes("check", "connect")
  /\ UNCHANGED connected
  /\ KeepRest

(* the connector fails, or answers with a stream *)
Connect ==
  /\ Goes("connect", "wait") \/ Goes("connect", "connected")
  /\ UNCHANGED connected
  /\ KeepRest

SetConnected ==
  /\ Goes("connected", "consume")
  /\ connected' = TRUE
  /\ KeepRest

(* consumeStream returns: the context is done, or Recv fails *)
StreamEnds ==
  /\ handling[Stream].pc = "idle"
  /\ Goes("consume", "disconnect")
  /\ UNCHANGED connected
  /\ KeepRest

MutSetDisconnected ==                       \* left to Stop
  /\ Goes("disconnect", "wait")
  /\ UNCHANGED connected
  /\ KeepRest
SetDisconnected ==
  /\ Goes("disconnect", "wait")
  /\ connected' = FALSE
  /\ KeepRest

(* stream.Close, then the reconnect interval or the end of the context *)
WaitReconnect ==
  /\ Goes("wait", "check")
  /\ UNCHANGED connected
  /\ KeepRest

-----------------------------------------------------------------------------
(* handleRawEvent *)

MayReceive(g) ==
  /\ g = Stream => loop = "consume"
  /\ Len(pushed) + Cardinality({h \in Goroutines : handling[h].pc = "push"}) < MaxPushed

(* the path and the callbacks are copied under m.mu *)
Arrive(g) ==
  /\ handling[g].pc = "idle"
  /\ MayReceive(g)
  /\ \E raw \in RawEvents :
       /\ FilePath(raw) \in registered
       /\ handling' = [handling EXCEPT ![g] =
            [pc |-> "push", path |-> FilePath(raw), todo |-> callbacks, seq |-> 0]]
  /\ UNCHANGED <<vars, registered, callbacks, streamVars, owed, told>>

(* an event whose path is not registered is dropped: no state changes *)

Buffer(g) ==
  /\ handling[g].pc = "push"
  /\ Push(handling[g].path)
  /\ handling' = [handling EXCEPT ![g].pc = "call", ![g].seq = Len(pushed')]
  /\ owed' = owed \cup {<<c, Len(pushed')>> : c \in handling[g].todo}
  /\ UNCHANGED <<registered, callbacks, streamVars, told>>

(* a panic of a callback is recovered, and the next one is called *)
MutCall(g) ==                               \* recovered around the whole loop
  /\ handling[g].pc = "call"
  /\ \/ /\ handling[g].todo = {}
        /\ handling' = [handling EXCEPT ![g] = Resting]
        /\ UNCHANGED told
     \/ \E c \in handling[g].todo :
          /\ told' = told \cup {<<c, handling[g].seq>>}
          /\ handling' = IF c \in Panicking THEN [handling EXCEPT ![g] = Resting]
                         ELSE [handling EXCEPT ![g].todo = @ \ {c}]
  /\ UNCHANGED <<vars, registered, callbacks, streamVars, owed>>
Call(g) ==
  /\ handling[g].pc = "call"
  /\ \/ /\ handling[g].todo = {}
        /\ handling' = [handling EXCEPT ![g] = Resting]
        /\ UNCHANGED told
     \/ \E c \in handling[g].todo :
          /\ told' = told \cup {<<c, handling[g].seq>>}
          /\ handling' = [handling EXCEPT ![g].todo = @ \ {c}]
  /\ UNCHANGED <<vars, registered, callbacks, streamVars, owed>>

-----------------------------------------------------------------------------
LoopStep ==
  \/ Check \/ Connect \/ SetConnected \/ StreamEnds \/ SetDisconnected \/ WaitReconnect
Handle(g) == Buffer(g) \/ Call(g)

MonitorNext ==
  \/ \E path \in Event : RegisterPath(path) \/ UnregisterPath(path)
  \/ \E c \in Callbacks : OnEvent(c)
  \/ Start \/ Stop \/ LoopStep
  \/ \E g \in Goroutines : Arrive(g) \/ Handle(g)

MonitorSpec == MonitorInit /\ [][MonitorNext]_allVars

(* goroutines are scheduled; the stream ends once its context is done *)
MonitorFairSpec ==
  /\ MonitorSpec
  /\ WF_allVars(LoopStep /\ (ctx = "cancelled" \/ loop # "consume"))
  /\ \A g \in Goroutines : WF_allVars(Handle(g))

-----------------------------------------------------------------------------
(* Each callback that was registered when an event came is called with     *)
(* it, whichever other callbacks panic, paths are unregistered and         *)
(* goroutines handle events at the same time; nobody is called with an     *)
(* event that is not in the log yet. (tetragon.go handleRawEvent)          *)
CallbacksTold ==
  LET Pending == UNION {{<<c, handling[g].seq>> : c \in handling[g].todo} :
                          g \in {h \in Goroutines : handling[h].pc = "call"}}
  IN  told = owed \ Pending

(* The monitor says it is connected only while it has a stream, or in      *)
(* simulation mode; and when the loop has ended nothing says so any more,  *)
(* although Stop may come before the loop says that it has connected.      *)
(* (tetragon.go runStreamLoop, Stop)                                       *)
ConnectionTold ==
  /\ connected => \/ loop \in {"consume", "disconnect"}
                  \/ loop = "simulation" /\ ctx = "live"
  /\ ctx = "live" /\ loop = "consume" => connected

(* After Stop the loop ends and the monitor stays disconnected.            *)
(* (tetragon.go Stop, waitReconnect, consumeStream)                        *)
StopEnds ==
  ctx = "cancelled" ~> [](~connected /\ loop \in {"simulation", "done"})
=============================================================================

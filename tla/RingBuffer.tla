----------------------------- MODULE RingBuffer -----------------------------
(***************************************************************************)
(* The per-backend export buffer of titanops-export (buffer.go): a bounded *)
(* slice of events with oldest-first eviction, retried with exponential    *)
(* backoff by ProcessBuffer.                                               *)
(*                                                                         *)
(* Every method of the buffer holds rb.mu for its whole body and is one    *)
(* action.  ProcessBuffer is not atomic: it peeks under the lock, sends    *)
(* with the lock released and takes the lock again in MarkSuccess or       *)
(* MarkFailure, which look for "the first ready event" afresh.  Producers  *)
(* call Push, a shutdown path may call Drain, and the clock advances,      *)
(* between any two of those steps.                                         *)
(*                                                                         *)
(* Time is relative: an item keeps the time left until its nextTry, and    *)
(* Tick lets one unit pass for all of them, so no clock value is needed.   *)
(***************************************************************************)
EXTENDS Integers, FiniteSets, SequencesExt

CONSTANTS
  Capacity,        \* rb.capacity
  MaxRetries,      \* rb.maxRetries
  InitialBackoff,  \* rb.initialBackoff, in ticks
  MaxBackoff,      \* rb.maxBackoff, in ticks
  MaxPush          \* bound: how many events the producers push

ASSUME BufferAssumption ==
  /\ Capacity \in Nat \ {0}
  /\ MaxRetries \in Nat \ {0}
  /\ InitialBackoff \in Nat \ {0}
  /\ MaxBackoff \in Nat \ {0}
  /\ MaxPush \in Nat

VARIABLES
  items,      \* rb.items: <<[id, attempts, wait]>>, oldest first
  dropped,    \* rb.dropped
  pc,         \* where ProcessBuffer is
  inflight,   \* the event ProcessBuffer peeked and hands to backend.Send
  ctxDone,    \* the context of the current ProcessBuffer call is cancelled
  pushed,     \* number of events pushed; event k is the k-th one
  delivered,  \* history: events for which a backend.Send returned nil
  fails,      \* history: per event, how many of its Sends returned an error,
              \* counted up to MaxRetries
  gone,       \* history: per way of leaving, the events that left that way
  undisturbed \* history: the first ready event never changed under a Send

bufferVars == <<items, dropped>>
loopVars   == <<pc, inflight, ctxDone>>
history    == <<pushed, delivered, fails, gone, undisturbed>>
vars       == <<items, dropped, pc, inflight, ctxDone, pushed, delivered, fails, gone,
                undisturbed>>

Ids   == 1..MaxPush
Ways  == {"acked", "evicted", "exhausted", "drained"}
Steps == {"idle", "check", "peek", "sending", "sent", "refused"}

BufferedEvent == [id : Ids, attempts : 0..(MaxRetries - 1), wait : Int]

InFlight == pc \in {"sending", "sent", "refused"}

(* nextTry is not after now *)
Ready(item) == item.wait <= 0

(* i is the index the loops of Peek, MarkSuccess and MarkFailure stop at *)
IsFirstReady(i) ==
  /\ i \in 1..Len(items)
  /\ Ready(items[i])
  /\ \A j \in 1..(i - 1) : ~Ready(items[j])

NothingReady == \A i \in 1..Len(items) : ~Ready(items[i])

(* the buffer has no room for another event *)
MutFull == Len(items) > Capacity            \* off by one
Full == Len(items) >= Capacity

(* attempts that discard the event *)
Exhausted(attempt) == attempt >= MaxRetries

(* calculateBackoff *)
Backoff(attempt) ==
  LET doubled == InitialBackoff * 2^(attempt - 1)
  IN  IF doubled > MaxBackoff THEN MaxBackoff ELSE doubled

(* a failed item: one more attempt, not ready before its backoff is over *)
MutUncounted(item) ==                             \* attempts never grows
  [item EXCEPT !.wait = Backoff(item.attempts + 1)]
BackedOff(item) ==
  [id       |-> item.id,
   attempts |-> item.attempts + 1,
   wait     |-> Backoff(item.attempts + 1)]

Leaves(way, ids) == gone' = [gone EXCEPT ![way] = @ \cup ids]

-----------------------------------------------------------------------------
Init ==
  /\ items = <<>>
  /\ dropped = 0
  /\ pc = "idle"
  /\ inflight = 0
  /\ ctxDone = FALSE
  /\ pushed = 0
  /\ delivered = {}
  /\ fails = [e \in Ids |-> 0]
  /\ gone = [way \in Ways |-> {}]
  /\ undisturbed = TRUE

NewItem == [id |-> pushed + 1, attempts |-> 0, wait |-> 0]

(* the eviction is not counted *)
MutUncountedPush ==
  /\ pushed < MaxPush
  /\ pushed' = pushed + 1
  /\ undisturbed' = (undisturbed /\ ~(Full /\ InFlight))
  /\ \/ /\ Full
        /\ items' = Append(Tail(items), NewItem)
        /\ Leaves("evicted", {Head(items).id})
     \/ /\ ~Full
        /\ items' = Append(items, NewItem)
        /\ UNCHANGED gone
  /\ UNCHANGED <<dropped, loopVars, delivered, fails>>

(* Push(event): evict the oldest event of a full buffer, then append *)
Push ==
  /\ pushed < MaxPush
  /\ pushed' = pushed + 1
  /\ undisturbed' = (undisturbed /\ ~(Full /\ InFlight))
  /\ \/ /\ Full
        /\ items' = Append(Tail(items), NewItem)
        /\ dropped' = dropped + 1
        /\ Leaves("evicted", {Head(items).id})
     \/ /\ ~Full
        /\ items' = Append(items, NewItem)
        /\ UNCHANGED <<dropped, gone>>
  /\ UNCHANGED <<loopVars, delivered, fails>>

(* Drain(): every event is handed to the caller *)
Drain ==
  /\ items # <<>>
  /\ items' = <<>>
  /\ Leaves("drained", {items[i].id : i \in 1..Len(items)})
  /\ undisturbed' = (undisturbed /\ ~InFlight)
  /\ UNCHANGED <<dropped, loopVars, pushed, delivered, fails>>

(* one unit of time passes; a ready item stays ready *)
Aged(item) == IF Ready(item) THEN item ELSE [item EXCEPT !.wait = @ - 1]
Tick ==
  /\ \E i \in 1..Len(items) : ~Ready(items[i])
  /\ items' = [i \in 1..Len(items) |-> Aged(items[i])]
  /\ undisturbed' = (undisturbed /\ ~InFlight)
  /\ UNCHANGED <<dropped, loopVars, pushed, delivered, fails, gone>>

-----------------------------------------------------------------------------
(* ProcessBuffer, step by step *)

(* a caller starts ProcessBuffer with a live context *)
StartProcess ==
  /\ pc = "idle"
  /\ pc' = "check"
  /\ ctxDone' = FALSE
  /\ UNCHANGED <<bufferVars, inflight, history>>

(* the context of the running call is cancelled *)
CancelCtx ==
  /\ pc # "idle"
  /\ ~ctxDone
  /\ ctxDone' = TRUE
  /\ UNCHANGED <<bufferVars, pc, inflight, history>>

(* select { case <-ctx.Done(): return; default: } *)
CheckCtx ==
  /\ pc = "check"
  /\ pc' = IF ctxDone THEN "idle" ELSE "peek"
  /\ UNCHANGED <<bufferVars, inflight, ctxDone, history>>

(* Peek(): the first ready event, or return when there is none *)
Peek ==
  /\ pc = "peek"
  /\ \/ \E i \in 1..Len(items) :
          /\ IsFirstReady(i)
          /\ inflight' = items[i].id
          /\ pc' = "sending"
     \/ /\ NothingReady
        /\ inflight' = 0
        /\ pc' = "idle"
  /\ UNCHANGED <<bufferVars, ctxDone, history>>

(* backend.Send returns nil: the backend has the event *)
SendAccepted ==
  /\ pc = "sending"
  /\ pc' = "sent"
  /\ delivered' = delivered \cup {inflight}
  /\ UNCHANGED <<bufferVars, inflight, ctxDone, pushed, fails, gone, undisturbed>>

(* backend.Send returns an error *)
SendRefused ==
  /\ pc = "sending"
  /\ pc' = "refused"
  /\ fails' = [fails EXCEPT ![inflight] = IF @ < MaxRetries THEN @ + 1 ELSE @]
  /\ UNCHANGED <<bufferVars, inflight, ctxDone, pushed, delivered, gone, undisturbed>>

(* the head of the buffer is removed, ready or not *)
MutMarkHead ==
  /\ pc = "sent"
  /\ pc' = "check"
  /\ inflight' = 0
  /\ items # <<>>
  /\ items' = Tail(items)
  /\ Leaves("acked", {Head(items).id})
  /\ UNCHANGED <<dropped, ctxDone, pushed, delivered, fails, undisturbed>>

(* MarkSuccess(): remove what is now the first ready event, and loop *)
MarkSuccess ==
  /\ pc = "sent"
  /\ pc' = "check"
  /\ inflight' = 0
  /\ \/ \E i \in 1..Len(items) :
          /\ IsFirstReady(i)
          /\ items' = RemoveAt(items, i)
          /\ Leaves("acked", {items[i].id})
     \/ /\ NothingReady
        /\ UNCHANGED <<items, gone>>
  /\ UNCHANGED <<dropped, ctxDone, pushed, delivered, fails, undisturbed>>

(* MarkFailure(): charge what is now the first ready event with an attempt;
   discard it at MaxRetries, otherwise back it off; then return *)
MarkFailure ==
  /\ pc = "refused"
  /\ pc' = "idle"
  /\ inflight' = 0
  /\ \/ \E i \in 1..Len(items) :
          /\ IsFirstReady(i)
          /\ \/ /\ Exhausted(items[i].attempts + 1)
                /\ items' = RemoveAt(items, i)
                /\ dropped' = dropped + 1
                /\ Leaves("exhausted", {items[i].id})
             \/ /\ ~Exhausted(items[i].attempts + 1)
                /\ items' = [items EXCEPT ![i] = BackedOff(@)]
                /\ UNCHANGED <<dropped, gone>>
     \/ /\ NothingReady
        /\ UNCHANGED <<items, dropped, gone>>
  /\ UNCHANGED <<ctxDone, pushed, delivered, fails, undisturbed>>

Worker ==
  \/ StartProcess \/ CheckCtx \/ Peek
  \/ SendAccepted \/ SendRefused \/ MarkSuccess \/ MarkFailure

Next == Push \/ Drain \/ Tick \/ CancelCtx \/ Worker

Spec == Init /\ [][Next]_vars

(* A caller that keeps invoking ProcessBuffer, a Send that returns (every
   backend sends under a timeout) and a clock that advances. *)
FairSpec == Spec /\ WF_vars(Worker) /\ WF_vars(Tick)

(* Service without shutdown: no context is cancelled and nothing drained. *)
ServingSpec == Init /\ [][Push \/ Tick \/ Worker]_vars

-----------------------------------------------------------------------------
(* Every variable has its type, a running send has an event to send. *)
TypeOK ==
  /\ items \in Seq(BufferedEvent)
  /\ dropped \in Nat
  /\ pc \in Steps
  /\ inflight \in Ids \cup {0}
  /\ InFlight => inflight \in Ids
  /\ ctxDone \in BOOLEAN
  /\ pushed \in 0..MaxPush
  /\ delivered \in SUBSET Ids
  /\ fails \in [Ids -> Nat]
  /\ gone \in [Ways -> SUBSET Ids]
  /\ undisturbed \in BOOLEAN

Buffered == {items[i].id : i \in 1..Len(items)}

LongestWait(attempts) == IF attempts = 0 THEN 0 ELSE Backoff(attempts)

(* The buffer never holds more than its capacity, its events are in the    *)
(* order they were pushed whatever was removed from the middle, and no     *)
(* event waits longer than the backoff of the attempts it was charged.     *)
(* (buffer.go Push, MarkSuccess, MarkFailure, calculateBackoff)            *)
OldestFirst ==
  /\ Len(items) <= Capacity
  /\ \A i, j \in 1..Len(items) : i < j => items[i].id < items[j].id
  /\ \A i \in 1..Len(items) :
       /\ items[i].id <= pushed
       /\ items[i].wait <= LongestWait(items[i].attempts)

(* No event vanishes unaccounted: each pushed event is still buffered or   *)
(* left in exactly one way. (buffer.go)                                    *)
InOnePlace ==
  /\ \A e \in Ids : e <= pushed <=> e \in Buffered \/ \E way \in Ways : e \in gone[way]
  /\ \A way \in Ways : gone[way] \cap Buffered = {}
  /\ \A v, w \in Ways : v # w => gone[v] \cap gone[w] = {}

(* Every event is in one place, and the dropped counter that Info and      *)
(* Dropped report is the number of evicted and exhausted events.           *)
(* (buffer.go Push, MarkFailure)                                           *)
Accounted ==
  /\ InOnePlace
  /\ dropped = Cardinality(gone["evicted"]) + Cardinality(gone["exhausted"])

(* As long as no event was evicted or drained, and no backoff ended, while *)
(* a Send was out: only events the backend accepted are removed as sent,   *)
(* an accepted event is not sent again, and an event is discarded as       *)
(* exhausted only after MaxRetries of its own sends failed. (buffer.go     *)
(* ProcessBuffer, MarkSuccess, MarkFailure)                                *)
RightEventMarked ==
  undisturbed =>
    /\ gone["acked"] \subseteq delivered
    /\ pc = "sending" => inflight \notin delivered
    /\ \A e \in gone["exhausted"] : fails[e] >= MaxRetries

(* Every buffered event leaves the buffer when contexts are no longer      *)
(* cancelled: it is sent, evicted, drained or given up after its retries;  *)
(* no event is retried forever and none is starved by the events before    *)
(* it. (buffer.go ProcessBuffer)                                           *)
EveryEventLeaves ==
  <>[]~ctxDone => \A e \in Ids : e \in Buffered ~> e \notin Buffered

=============================================================================

---------------------------- MODULE NATSEmitter ----------------------------
(***************************************************************************)
(* The OllinAI event emitter (modules/ollinai/emitter.go): events go to    *)
(* NATS at once when it is connected and into a bounded buffer otherwise;  *)
(* Flush publishes the buffer while it holds e.mu.                         *)
(*                                                                         *)
(* Emit looks at the connection, publishes and buffers without one lock    *)
(* around the three, so the connection may go between them, and any number *)
(* of producers (the poller, webhook handlers) emit at the same time.      *)
(***************************************************************************)
EXTENDS Integers, Sequences, FiniteSets

CONSTANTS
  Producers,   \* goroutines that call Emit
  Capacity,    \* e.capacity
  MaxRetries,  \* e.maxRetries
  MaxEvents    \* bound: events emitted; event k is the k-th one

ASSUME EmitterAssumption ==
  /\ Capacity \in Nat \ {0}
  /\ MaxRetries \in Nat \ {0}
  /\ MaxEvents \in Nat

VARIABLES
  connected,  \* publisher.IsConnected()
  buffer,     \* e.buffer: <<[id, attempts]>>; nextTry is written, nothing reads it
  dropped,    \* e.dropped
  emitting,   \* per producer: [pc, id]
  flush,      \* the Flush in progress: [pc, next, remaining]; it holds e.mu
  flushCtx,   \* "live" or "done": the context of that Flush, "live" without one
  emitted,    \* history: number of events given to Emit
  malformed,  \* history: those MarshalEvent cannot serialize
  published,  \* history: ids in the order NATS accepted them
  gone        \* history: per way, events that were given up

emitVars  == <<buffer, dropped, emitting, flush, flushCtx, emitted, malformed,
               published, gone>>
vars      == <<connected, buffer, dropped, emitting, flush, flushCtx, emitted,
               malformed, published, gone>>

Ids  == 1..MaxEvents
Ways == {"evicted", "exhausted", "malformed", "refused", "drained"}
Item == [id : Ids, attempts : 0..(MaxRetries - 1)]

Idle     == [pc |-> "idle", id |-> 0]
NoFlush  == [pc |-> "idle", next |-> 0, remaining |-> <<>>]
Unlocked == flush.pc = "idle"                       \* e.mu is free

(* e.dropped++ *)
CountDrop == dropped' = dropped + 1

Leaves(way, ids) == gone' = [gone EXCEPT ![way] = @ \cup ids]

IdsOf(items) == {items[i].id : i \in 1..Len(items)}

(* what is behind the item at position i *)
MutRest(items, i) == items                          \* the processed ones too
Rest(items, i) == SubSeq(items, i, Len(items))

Init ==
  /\ connected \in BOOLEAN
  /\ buffer = <<>>
  /\ dropped = 0
  /\ emitting = [p \in Producers |-> Idle]
  /\ flush = NoFlush
  /\ flushCtx = "live"
  /\ emitted = 0
  /\ malformed = {}
  /\ published = <<>>
  /\ gone = [way \in Ways |-> {}]

Connect    == ~connected /\ connected' = TRUE /\ UNCHANGED emitVars
Disconnect == connected /\ connected' = FALSE /\ UNCHANGED emitVars

-----------------------------------------------------------------------------
(* DrainBuffer: every event is handed to the caller *)
DrainBuffer ==
  /\ Unlocked
  /\ buffer # <<>>
  /\ buffer' = <<>>
  /\ Leaves("drained", IdsOf(buffer))
  /\ UNCHANGED <<connected, dropped, emitting, flush, flushCtx, emitted, malformed, published>>

-----------------------------------------------------------------------------
(* Emit *)

(* id and timestamp are assigned, and IsConnected is asked; an event with  *)
(* a bad timestamp (a year that JSON has no form for) will not serialize   *)
EmitStart(p, bad) ==
  /\ emitting[p].pc = "idle"
  /\ emitted < MaxEvents
  /\ emitted' = emitted + 1
  /\ malformed' = IF bad THEN malformed \cup {emitted + 1} ELSE malformed
  /\ emitting' = [emitting EXCEPT ![p] =
       [pc |-> IF connected THEN "publish" ELSE "buffer", id |-> emitted + 1]]
  /\ UNCHANGED <<connected, buffer, dropped, flush, flushCtx, published, gone>>

(* serializeEvent and Publish: an error, the event at NATS, or into the buffer *)
EmitPublish(p) ==
  /\ emitting[p].pc = "publish"
  /\ LET id == emitting[p].id
     IN  \/ /\ id \in malformed
            /\ emitting' = [emitting EXCEPT ![p] = Idle]
            /\ Leaves("refused", {id})
            /\ UNCHANGED published
         \/ /\ id \notin malformed
            /\ connected
            /\ emitting' = [emitting EXCEPT ![p] = Idle]
            /\ published' = Append(published, id)
            /\ UNCHANGED gone
         \/ /\ id \notin malformed
            /\ emitting' = [emitting EXCEPT ![p].pc = "buffer"]
            /\ UNCHANGED <<published, gone>>
  /\ UNCHANGED <<connected, buffer, dropped, flush, flushCtx, emitted, malformed>>

(* pushToBuffer: evict the oldest event of a full buffer, then append *)
NewItem(id) == [id |-> id, attempts |-> 0]

EmitBuffer(p) ==
  /\ emitting[p].pc = "buffer"
  /\ Unlocked
  /\ emitting' = [emitting EXCEPT ![p] = Idle]
  /\ \/ /\ Len(buffer) >= Capacity
        /\ buffer' = Append(Tail(buffer), NewItem(emitting[p].id))
        /\ CountDrop
        /\ Leaves("evicted", {Head(buffer).id})
     \/ /\ Len(buffer) < Capacity
        /\ buffer' = Append(buffer, NewItem(emitting[p].id))
        /\ UNCHANGED <<dropped, gone>>
  /\ UNCHANGED <<connected, flush, flushCtx, emitted, malformed, published>>

-----------------------------------------------------------------------------
(* Flush: from its start to its end e.mu is held *)

FlushStart ==
  /\ Unlocked
  /\ connected
  /\ flush' = [pc |-> "item", next |-> 1, remaining |-> <<>>]
  /\ flushCtx' = "live"
  /\ UNCHANGED <<connected, buffer, dropped, emitting, emitted, malformed, published, gone>>

(* the deadline of the flush passes *)
FlushDeadline ==
  /\ ~Unlocked
  /\ flushCtx = "live"
  /\ flushCtx' = "done"
  /\ UNCHANGED <<connected, buffer, dropped, emitting, flush, emitted, malformed, published, gone>>

(* nothing left: the buffer becomes what remained *)
FlushEnd ==
  /\ flush.pc = "item"
  /\ flush.next > Len(buffer)
  /\ buffer' = flush.remaining
  /\ flush' = NoFlush
  /\ flushCtx' = "live"
  /\ UNCHANGED <<connected, dropped, emitting, emitted, malformed, published, gone>>

(* the context is done: the unprocessed events stay in the buffer *)
FlushCancelled ==
  /\ flush.pc = "item"
  /\ flush.next <= Len(buffer)
  /\ flushCtx = "done"
  /\ buffer' = flush.remaining \o Rest(buffer, flush.next)
  /\ flush' = NoFlush
  /\ flushCtx' = "live"
  /\ UNCHANGED <<connected, dropped, emitting, emitted, malformed, published, gone>>

(* one event: malformed, published, given up, or kept for a later retry *)
Exhausted(attempts) == attempts >= MaxRetries

FlushItem ==
  /\ flush.pc = "item"
  /\ flush.next <= Len(buffer)
  /\ flushCtx = "live"
  /\ LET item == buffer[flush.next]
         skip == [flush EXCEPT !.next = @ + 1]
     IN  \/ /\ item.id \in malformed
            /\ flush' = skip
            /\ Leaves("malformed", {item.id})
            /\ UNCHANGED <<dropped, published>>
         \/ /\ item.id \notin malformed
            /\ connected
            /\ flush' = skip
            /\ published' = Append(published, item.id)
            /\ UNCHANGED <<dropped, gone>>
         \/ /\ item.id \notin malformed
            /\ Exhausted(item.attempts + 1)
            /\ flush' = skip
            /\ CountDrop
            /\ Leaves("exhausted", {item.id})
            /\ UNCHANGED published
         \/ /\ item.id \notin malformed
            /\ ~Exhausted(item.attempts + 1)
            /\ flush' = [skip EXCEPT !.remaining =
                 Append(@, [id |-> item.id, attempts |-> item.attempts + 1])]
            /\ UNCHANGED <<dropped, published, gone>>
  /\ UNCHANGED <<connected, buffer, emitting, flushCtx, emitted, malformed>>

Emit(p) == (\E bad \in BOOLEAN : EmitStart(p, bad)) \/ EmitPublish(p) \/ EmitBuffer(p)
Flush   == FlushItem \/ FlushEnd \/ FlushCancelled

Next ==
  \/ Connect \/ Disconnect \/ DrainBuffer
  \/ FlushStart \/ FlushDeadline \/ Flush
  \/ \E p \in Producers : Emit(p)

Spec == Init /\ [][Next]_vars

-----------------------------------------------------------------------------
(* Every variable has its type; the buffer is within its capacity. *)
TypeOK ==
  /\ connected \in BOOLEAN
  /\ buffer \in Seq(Item)
  /\ Len(buffer) <= Capacity
  /\ dropped \in Nat
  /\ emitting \in [Producers -> [pc : {"idle", "publish", "buffer"}, id : Ids \cup {0}]]
  /\ flush \in [pc : {"idle", "item"}, next : Nat, remaining : Seq(Item)]
  /\ flushCtx \in {"live", "done"}
  /\ emitted \in 0..MaxEvents
  /\ malformed \subseteq 1..emitted
  /\ published \in Seq(Ids)
  /\ gone \in [Ways -> SUBSET Ids]

(* events that Flush has not looked at, or kept *)
Buffered ==
  IF Unlocked THEN IdsOf(buffer)
  ELSE IdsOf(flush.remaining) \cup IdsOf(Rest(buffer, flush.next))

InHand(p) == IF emitting[p].pc = "idle" THEN {} ELSE {emitting[p].id}

AtNATS == {published[i] : i \in 1..Len(published)}

PlacesOf(e) ==
  {<<"nats">> : x \in {e} \cap AtNATS} \cup {<<"buffer">> : x \in {e} \cap Buffered}
    \cup {<<way>> : way \in {w \in Ways : e \in gone[w]}}
    \cup {<<"hand", p>> : p \in {q \in Producers : e \in InHand(q)}}

EachInOnePlace ==
  \A e \in Ids : Cardinality(PlacesOf(e)) = IF e <= emitted THEN 1 ELSE 0

DropsCounted == dropped = Cardinality(gone["evicted"]) + Cardinality(gone["exhausted"])

(* NATS is given an event at most once, and the buffer holds no event twice *)
NoDuplicates ==
  /\ \A i, j \in 1..Len(published) : i # j => published[i] # published[j]
  /\ \A i, j \in 1..Len(buffer) : i # j => buffer[i].id # buffer[j].id

(* No event is lost unnoticed or doubled, whenever a flush is cut short:   *)
(* each emitted event is at NATS, in the buffer, in the hands of its       *)
(* producer or was given up in one known way, never in two of those places *)
(* and never twice in one; Dropped() is the number of evicted and          *)
(* exhausted events. (emitter.go Emit, Flush, pushToBuffer)                *)
Accounted == EachInOnePlace /\ NoDuplicates /\ DropsCounted
=============================================================================

---------------------------- MODULE EventBuffer ----------------------------
(***************************************************************************)
(* The circular buffer in which the Tetragon monitor keeps access events   *)
(* (modules/ebeecontrol/tetragon.go): a slice of fixed length with the     *)
(* index of the oldest event and the number of events in it.  Every method *)
(* holds b.mu.                                                             *)
(***************************************************************************)
EXTENDS Integers, Sequences

CONSTANTS
  Event,       \* access events
  Capacity,    \* b.capacity
  MaxPushed    \* bound: events pushed

ASSUME BufferAssumption ==
  /\ Capacity \in Nat \ {0}       \* NewEventBuffer replaces anything smaller
  /\ MaxPushed \in Nat

Blank == "blank"                  \* the zero AccessEvent of an unused slot

VARIABLES
  events,      \* b.events: the slots, from 0
  head,        \* b.head: the slot of the oldest event
  size,        \* b.size
  overflow,    \* b.overflow
  pushed       \* history: every event pushed, in order

vars == <<events, head, size, overflow, pushed>>

Slots == 0..(Capacity - 1)

Init ==
  /\ events = [slot \in Slots |-> Blank]
  /\ head = 0
  /\ size = 0
  /\ overflow = 0
  /\ pushed = <<>>

(* the next write position of a buffer that is not full *)
MutFree == (head + size + 1) % Capacity           \* off by one
Free == (head + size) % Capacity

(* where the oldest event is once it was overwritten *)
NextHead == (head + 1) % Capacity

Push(event) ==
  /\ Len(pushed) < MaxPushed
  /\ pushed' = Append(pushed, event)
  /\ \/ /\ size = Capacity
        /\ events' = [events EXCEPT ![head] = event]
        /\ head' = NextHead
        /\ overflow' = overflow + 1
        /\ UNCHANGED size
     \/ /\ size # Capacity
        /\ events' = [events EXCEPT ![Free] = event]
        /\ size' = size + 1
        /\ UNCHANGED <<head, overflow>>

(* Recent(n): the newest n events, newest first *)
Recent(n) ==
  LET count == IF n > size THEN size ELSE n
  IN  [i \in 1..count |-> events[(head + size - 1 - (i - 1)) % Capacity]]

Next == \E event \in Event : Push(event)

Spec == Init /\ [][Next]_vars

-----------------------------------------------------------------------------
(* Slots, head, size and counters are in range. *)
TypeOK ==
  /\ events \in [Slots -> Event \cup {Blank}]
  /\ head \in Slots
  /\ size \in 0..Capacity
  /\ overflow \in Nat
  /\ pushed \in Seq(Event)

AtMost(n, m) == IF n < m THEN n ELSE m

(* Recent answers, newest first, exactly the latest pushed events, as many *)
(* as were asked for, are there and fit; overflow counts the lost ones.    *)
(* (tetragon.go Push, Recent, Status)                                      *)
RecentIsNewest ==
  /\ overflow = Len(pushed) - AtMost(Len(pushed), Capacity)
  /\ \A n \in 0..(Capacity + 1) :
       Recent(n) = [i \in 1..AtMost(n, AtMost(Len(pushed), Capacity)) |->
                      pushed[Len(pushed) + 1 - i]]

(* the events held, oldest first *)
Contents == [i \in 1..size |-> events[(head + i - 1) % Capacity]]

Log == INSTANCE BoundedLog WITH log <- Contents, forgotten <- overflow

(* The circular buffer is a bounded log: overwriting the slot of the       *)
(* oldest event and moving head is forgetting the oldest event.            *)
(* (tetragon.go Push)                                                      *)
IsBoundedLog == Log!Spec
=============================================================================

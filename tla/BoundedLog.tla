----------------------------- MODULE BoundedLog -----------------------------
(***************************************************************************)
(* What a bounded event log promises: it holds the latest Capacity events  *)
(* in the order they came, and counts the ones it had to forget.           *)
(***************************************************************************)
EXTENDS Integers, Sequences

CONSTANTS
  Event,       \* the events
  Capacity     \* how many of them the log holds

VARIABLES
  log,         \* the events held, oldest first
  forgotten    \* how many events were forgotten

Init == log = <<>> /\ forgotten = 0

Record(event) ==
  \/ /\ Len(log) < Capacity
     /\ log' = Append(log, event)
     /\ UNCHANGED forgotten
  \/ /\ Len(log) = Capacity
     /\ log' = Append(Tail(log), event)
     /\ forgotten' = forgotten + 1

Next == \E event \in Event : Record(event)

Spec == Init /\ [][Next]_<<log, forgotten>>
=============================================================================

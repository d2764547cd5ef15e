----------------------- MODULE TetragonMonitorProofs -----------------------
(***************************************************************************)
(* Proofs about EventBuffer, for every capacity, and about TetragonMonitor *)
(* around it, for any paths, callbacks and injecting goroutines: the       *)
(* circular buffer implements a bounded log and answers Recent with the    *)
(* latest events; the monitor uses the buffer as the buffer is specified,  *)
(* so this holds inside the monitor, too; every callback is told; and the  *)
(* connection is told as it is.                                            *)
(***************************************************************************)
EXTENDS TetragonMonitor, SequenceTheorems, TLAPS

-----------------------------------------------------------------------------
(* The event buffer by itself *)

(* the slot of the i-th oldest event of a buffer whose head is h *)
SlotAt(h, i) == (h + i - 1) % Capacity

(* A modulus of a number below twice the divisor is one subtraction.       *)
LEMMA WrapModulo ==
  ASSUME NEW C \in Nat \ {0}, NEW x \in Nat, x < 2 * C
  PROVE  x % C = IF x < C THEN x ELSE x - C
<1>1. x % C \in 0..(C - 1)
  OBVIOUS
<1>2. x = C * (x \div C) + (x % C)
  OBVIOUS
<1>3. x \div C \in Nat
  OBVIOUS
<1> QED BY <1>1, <1>2, <1>3

(* The slot a position of the buffer falls on. *)
LEMMA SlotIs ==
  ASSUME NEW h \in Slots, NEW i \in 1..(Capacity + 1)
  PROVE  SlotAt(h, i) = IF h + i - 1 < Capacity THEN h + i - 1 ELSE h + i - 1 - Capacity
<1> DEFINE x == h + i - 1
<1>1. x \in Nat /\ x < 2 * Capacity /\ Capacity \in Nat \ {0}
  BY BufferAssumption DEF Slots
<1>2. SlotAt(h, i) = x % Capacity
  BY DEF SlotAt
<1>4. (IF x < Capacity THEN x ELSE x - Capacity)
        = IF h + i - 1 < Capacity THEN h + i - 1 ELSE h + i - 1 - Capacity
  BY <1>1 DEF Slots
<1>3. x % Capacity = IF x < Capacity THEN x ELSE x - Capacity
  <2> HIDE DEF x
  <2> QED BY <1>1, WrapModulo
<1> HIDE DEF x
<1> QED BY <1>2, <1>3, <1>4

(* The empty buffer has its type. *)
LEMMA TypeInit == Init => TypeOK
BY BufferAssumption DEF Init, TypeOK, Slots

(* Write position and next head are slots; they coincide with the slots of *)
(* the next free and of the second oldest event.                           *)
LEMMA Positions ==
  ASSUME TypeOK
  PROVE  /\ NextHead \in Slots
         /\ NextHead = IF head + 1 < Capacity THEN head + 1 ELSE 0
         /\ size # Capacity => Free \in Slots /\ Free = SlotAt(head, size + 1)
<1>0. head \in 0..(Capacity - 1) /\ size \in 0..Capacity /\ Capacity \in Nat \ {0}
  BY BufferAssumption DEF TypeOK, Slots
<1>1. NextHead = IF head + 1 < Capacity THEN head + 1 ELSE 0
  <2>1. head + 1 \in Nat /\ (head + 1 < 2 * Capacity \/ Capacity = 1)
    BY <1>0
  <2>2. CASE head + 1 < 2 * Capacity
    <3> DEFINE x == head + 1
    <3>1. x \in Nat /\ x < 2 * Capacity
      BY <1>0, <2>2
    <3>2. x % Capacity = IF x < Capacity THEN x ELSE x - Capacity
      <4> HIDE DEF x
      <4> QED BY <1>0, <3>1, WrapModulo
    <3> QED BY <1>0, <3>2 DEF NextHead
  <2> QED BY <1>0, <2>1, <2>2
<1>2. ASSUME size # Capacity PROVE Free = SlotAt(head, size + 1)
  BY <1>0 DEF Free, SlotAt
<1>3. ASSUME size # Capacity PROVE SlotAt(head, size + 1) \in Slots
  BY <1>0, <1>3, SlotIs DEF Slots
<1> QED BY <1>0, <1>1, <1>2, <1>3 DEF Slots

(* Push keeps the type. *)
LEMMA TypeStep == TypeOK /\ [Next]_vars => TypeOK'
<1> SUFFICES ASSUME TypeOK, [Next]_vars PROVE TypeOK'
  OBVIOUS
<1>1. ASSUME NEW event \in Event, Push(event) PROVE TypeOK'
  <2>1. pushed' \in Seq(Event)
    BY <1>1, AppendProperties DEF Push, TypeOK
  <2>2. head' \in Slots
    BY <1>1, Positions DEF Push, TypeOK
  <2>3. events' \in [Slots -> Event \cup {Blank}]
    BY <1>1, Positions DEF Push, TypeOK
  <2>4. size' \in 0..Capacity /\ overflow' \in Nat
    BY <1>1, BufferAssumption DEF Push, TypeOK
  <2> QED BY <2>1, <2>2, <2>3, <2>4 DEF TypeOK
<1>2. CASE UNCHANGED vars
  BY <1>2 DEF vars, TypeOK
<1> QED BY <1>1, <1>2 DEF Next

(* The slots, the head, the size and the overflow counter stay in range.   *)
THEOREM TypeCorrect == Spec => []TypeOK
<1> QED BY TypeInit, TypeStep, PTL DEF Spec

-----------------------------------------------------------------------------
(* What a push does to the contents. *)
LEMMA ContentsAre ==
  /\ Contents = [i \in 1..size |-> events[SlotAt(head, i)]]
  /\ Contents' = [i \in 1..size' |-> events'[SlotAt(head', i)]]
BY DEF Contents, SlotAt

(* What a push does to a full buffer: the oldest slot is overwritten. *)
LEMMA PushWhenFull ==
  ASSUME TypeOK, NEW event \in Event, Push(event), size = Capacity
  PROVE  /\ size' = Capacity
         /\ \A i \in 1..(Capacity - 1) : events'[SlotAt(head', i)] = events[SlotAt(head, i + 1)]
         /\ events'[SlotAt(head', Capacity)] = event
<1>0. /\ head \in 0..(Capacity - 1) /\ Capacity \in Nat \ {0} /\ size' = size
      /\ events' = [events EXCEPT ![head] = event]
      /\ head' = IF head + 1 < Capacity THEN head + 1 ELSE 0
      /\ events \in [Slots -> Event \cup {Blank}]
  BY BufferAssumption, Positions DEF TypeOK, Slots, Push
<1>1. TypeOK'
  BY TypeStep DEF Next
<1>2. ASSUME NEW i \in 1..Capacity
      PROVE  SlotAt(head', i) = IF head' + i - 1 < Capacity THEN head' + i - 1
                        ELSE head' + i - 1 - Capacity
  <2>1. head' \in Slots /\ i \in 1..(Capacity + 1)
    BY <1>0 DEF Slots
  <2> QED BY <2>1, SlotIs
<1>3. ASSUME NEW i \in 1..(Capacity - 1) PROVE events'[SlotAt(head', i)] = events[SlotAt(head, i + 1)]
  <2>0. i \in 1..Capacity /\ i + 1 \in 1..(Capacity + 1)
    BY <1>0
  <2>1. SlotAt(head, i + 1) = IF head + i < Capacity THEN head + i ELSE head + i - Capacity
    <3>1. head \in Slots
      BY <1>0 DEF Slots
    <3>2. SlotAt(head, i + 1) = IF head + (i + 1) - 1 < Capacity THEN head + (i + 1) - 1
                                ELSE head + (i + 1) - 1 - Capacity
      BY <2>0, <3>1, SlotIs
    <3> QED BY <1>0, <2>0, <3>2
  <2>2. SlotAt(head', i) = SlotAt(head, i + 1) /\ SlotAt(head, i + 1) # head /\ SlotAt(head, i + 1) \in Slots
    BY <1>0, <1>2, <2>0, <2>1 DEF Slots
  <2> QED BY <1>0, <2>2
<1>4. events'[SlotAt(head', Capacity)] = event
  <2>1. SlotAt(head', Capacity) = head
    BY <1>0, <1>2
  <2> QED BY <1>0, <2>1 DEF Slots
<1> QED BY <1>0, <1>3, <1>4

(* What a push does to a buffer with room: a free slot is written. *)
LEMMA PushWithRoom ==
  ASSUME TypeOK, NEW event \in Event, Push(event), size # Capacity
  PROVE  /\ size' = size + 1 /\ size < Capacity
         /\ \A i \in 1..size : events'[SlotAt(head', i)] = events[SlotAt(head, i)]
         /\ events'[SlotAt(head', size + 1)] = event
<1>0. /\ head \in 0..(Capacity - 1) /\ Capacity \in Nat \ {0}
      /\ size \in 0..Capacity /\ size < Capacity
      /\ events' = [events EXCEPT ![SlotAt(head, size + 1)] = event]
      /\ SlotAt(head, size + 1) \in Slots
      /\ head' = head /\ size' = size + 1
      /\ events \in [Slots -> Event \cup {Blank}]
  BY BufferAssumption, Positions DEF TypeOK, Slots, Push
<1>1. \A i \in 1..(size + 1) : SlotAt(head', i) = SlotAt(head, i)
  BY <1>0 DEF SlotAt
<1>2. ASSUME NEW i \in 1..size PROVE events'[SlotAt(head', i)] = events[SlotAt(head, i)]
  <2>0. i \in 1..(Capacity + 1) /\ size + 1 \in 1..(Capacity + 1) /\ head \in Slots
    BY <1>0 DEF Slots
  <2>1. /\ SlotAt(head, i) = IF head + i - 1 < Capacity THEN head + i - 1 ELSE head + i - 1 - Capacity
        /\ SlotAt(head, size + 1) = IF head + size < Capacity THEN head + size ELSE head + size - Capacity
    <3>1. SlotAt(head, size + 1) = IF head + (size + 1) - 1 < Capacity THEN head + (size + 1) - 1
                           ELSE head + (size + 1) - 1 - Capacity
      BY <2>0, SlotIs
    <3>2. SlotAt(head, i) = IF head + i - 1 < Capacity THEN head + i - 1
                            ELSE head + i - 1 - Capacity
      BY <2>0, SlotIs
    <3> QED BY <1>0, <3>1, <3>2
  <2>2. SlotAt(head, i) # SlotAt(head, size + 1) /\ SlotAt(head, i) \in Slots
    BY <1>0, <2>1 DEF Slots
  <2> QED BY <1>0, <1>1, <2>2
<1>3. events'[SlotAt(head', size + 1)] = event
  <2>1. SlotAt(head', size + 1) = SlotAt(head, size + 1)
    BY <1>0, <1>1
  <2> QED BY <1>0, <2>1
<1> QED BY <1>0, <1>2, <1>3

-----------------------------------------------------------------------------
(* The circular buffer implements the bounded log.                         *)
LEMMA LogInit == Init => Log!Init
<1> SUFFICES ASSUME Init PROVE Log!Init
  OBVIOUS
<1>1. Contents = <<>>
  BY DEF Init, Contents
<1> QED BY <1>1 DEF Init, Log!Init

(* The contents are a sequence of events. *)
LEMMA ContentsType ==
  ASSUME TypeOK, NEW S, \A i \in 1..size : events[SlotAt(head, i)] \in S
  PROVE  Contents \in Seq(S) /\ Len(Contents) = size
<1>1. size \in Nat
  BY BufferAssumption DEF TypeOK
<1>2. Contents \in [1..size -> S]
  BY ContentsAre
<1> QED BY <1>1, <1>2, IsASeq, LenProperties

(* A push is a step of the bounded log. *)
LEMMA LogStep == TypeOK /\ [Next]_vars => [Log!Next]_<<Contents, overflow>>
<1> SUFFICES ASSUME TypeOK, [Next]_vars PROVE [Log!Next]_<<Contents, overflow>>
  OBVIOUS
<1>0. size \in 0..Capacity /\ Capacity \in Nat \ {0}
  BY BufferAssumption DEF TypeOK
<1> DEFINE Any == {events[s] : s \in Slots} \cup Event
<1>1. Contents \in Seq(Any) /\ Len(Contents) = size
  <2>1. ASSUME NEW i \in 1..size PROVE events[SlotAt(head, i)] \in Any
    <3>1. SlotAt(head, i) \in Slots
      <4>1. head \in Slots /\ i \in 1..(Capacity + 1)
        BY <1>0 DEF TypeOK
      <4> QED BY <1>0, <4>1, SlotIs DEF Slots
    <3> QED BY <3>1
  <2> HIDE DEF Any
  <2> QED BY <2>1, ContentsType
<1> HIDE DEF Any
<1>2. ASSUME NEW event \in Event, Push(event), size = Capacity PROVE Log!Record(event)
  <2>1. /\ size' = Capacity
        /\ \A i \in 1..(Capacity - 1) : events'[SlotAt(head', i)] = events[SlotAt(head, i + 1)]
        /\ events'[SlotAt(head', Capacity)] = event
    BY <1>2, PushWhenFull
  <2>2. event \in Any
    BY <1>2 DEF Any
  <2>3. /\ Tail(Contents) \in Seq(Any) /\ Len(Tail(Contents)) = Capacity - 1
        /\ \A i \in 1..(Capacity - 1) : Tail(Contents)[i] = Contents[i + 1]
    <3>1. Contents # <<>>
      BY <1>0, <1>1, <1>2
    <3> QED BY <1>0, <1>1, <1>2, <3>1, HeadTailProperties
  <2>4. /\ Append(Tail(Contents), event) \in Seq(Any)
        /\ Len(Append(Tail(Contents), event)) = Capacity
        /\ \A i \in 1..(Capacity - 1) : Append(Tail(Contents), event)[i] = Contents[i + 1]
        /\ Append(Tail(Contents), event)[Capacity] = event
    BY <1>0, <2>2, <2>3, AppendProperties
  <2>5. ASSUME NEW i \in 1..Capacity PROVE events'[SlotAt(head', i)] = Append(Tail(Contents), event)[i]
    <3>1. CASE i = Capacity
      BY <2>1, <2>4, <3>1
    <3>2. CASE i # Capacity
      <4>1. i \in 1..(Capacity - 1) /\ i + 1 \in 1..size
        BY <1>0, <1>2, <3>2
      <4>2. Contents[i + 1] = events[SlotAt(head, i + 1)]
        BY <4>1, ContentsAre
      <4> QED BY <2>1, <2>4, <4>1, <4>2
    <3> QED BY <3>1, <3>2
  <2>6. Contents' = Append(Tail(Contents), event)
    <3>1. DOMAIN Append(Tail(Contents), event) = 1..Capacity
      BY <2>4, LenProperties
    <3>2. Append(Tail(Contents), event)
            = [i \in 1..Capacity |-> Append(Tail(Contents), event)[i]]
      BY <2>4, <3>1, LenProperties
    <3> QED BY <2>1, <2>5, <3>2, ContentsAre
  <2>7. overflow' = overflow + 1
    BY <1>2 DEF Push
  <2> QED BY <1>1, <1>2, <2>6, <2>7 DEF Log!Record
<1>3. ASSUME NEW event \in Event, Push(event), size # Capacity PROVE Log!Record(event)
  <2>1. /\ size' = size + 1 /\ size < Capacity
        /\ \A i \in 1..size : events'[SlotAt(head', i)] = events[SlotAt(head, i)]
        /\ events'[SlotAt(head', size + 1)] = event
    BY <1>3, PushWithRoom
  <2>2. event \in Any
    BY <1>3 DEF Any
  <2>3. /\ Append(Contents, event) \in Seq(Any)
        /\ Len(Append(Contents, event)) = size + 1
        /\ \A i \in 1..size : Append(Contents, event)[i] = Contents[i]
        /\ Append(Contents, event)[size + 1] = event
    BY <1>0, <1>1, <2>2, AppendProperties
  <2>4. ASSUME NEW i \in 1..(size + 1) PROVE events'[SlotAt(head', i)] = Append(Contents, event)[i]
    <3>1. CASE i = size + 1
      BY <2>1, <2>3, <3>1
    <3>2. CASE i # size + 1
      <4>1. i \in 1..size
        BY <1>0, <3>2
      <4> QED BY <2>1, <2>3, <4>1, ContentsAre
    <3> QED BY <3>1, <3>2
  <2>5. Contents' = Append(Contents, event)
    <3>1. Append(Contents, event) = [i \in 1..(size + 1) |-> Append(Contents, event)[i]]
      BY <2>3, LenProperties
    <3> QED BY <2>1, <2>4, <3>1, ContentsAre
  <2>6. overflow' = overflow
    BY <1>3 DEF Push
  <2> QED BY <1>1, <2>1, <2>5, <2>6 DEF Log!Record
<1>4. CASE UNCHANGED vars
  <2>1. Contents' = Contents /\ overflow' = overflow
    BY <1>4 DEF vars, Contents
  <2> QED BY <2>1
<1> QED BY <1>2, <1>3, <1>4 DEF Next, Log!Next

(* Overwriting a slot and moving head is forgetting the oldest event: each *)
(* behaviour of the buffer is one of the bounded log. (tetragon.go Push)   *)
THEOREM ImplementsBoundedLog == Spec => IsBoundedLog
<1> QED BY LogInit, LogStep, TypeCorrect, PTL DEF Spec, IsBoundedLog, Log!Spec

-----------------------------------------------------------------------------
(* The buffer holds the latest pushed events: what makes RecentIsNewest    *)
(* inductive is where each of them is.                                     *)
HoldsLatest ==
  /\ size = AtMost(Len(pushed), Capacity)
  /\ overflow = Len(pushed) - size
  /\ \A i \in 1..size : events[SlotAt(head, i)] = pushed[Len(pushed) - size + i]

(* The empty buffer holds the latest of no events. *)
LEMMA HoldsInit == Init => HoldsLatest
BY BufferAssumption DEF Init, HoldsLatest, AtMost

(* Push keeps the latest events in their slots. *)
LEMMA HoldsStep == TypeOK /\ HoldsLatest /\ [Next]_vars => HoldsLatest'
<1> SUFFICES ASSUME TypeOK, HoldsLatest, [Next]_vars PROVE HoldsLatest'
  OBVIOUS
<1>0. /\ Capacity \in Nat \ {0} /\ size \in 0..Capacity /\ Len(pushed) \in Nat
      /\ size = AtMost(Len(pushed), Capacity) /\ overflow = Len(pushed) - size
      /\ \A i \in 1..size : events[SlotAt(head, i)] = pushed[Len(pushed) - size + i]
  BY BufferAssumption, LenProperties DEF TypeOK, HoldsLatest
<1>1. ASSUME NEW event \in Event, Push(event) PROVE HoldsLatest'
  <2>1. /\ Len(pushed') = Len(pushed) + 1
        /\ \A i \in 1..Len(pushed) : pushed'[i] = pushed[i]
        /\ pushed'[Len(pushed) + 1] = event
    BY <1>1, AppendProperties DEF Push, TypeOK
  <2>2. CASE size = Capacity
    <3>1. /\ size' = Capacity
          /\ \A i \in 1..(Capacity - 1) : events'[SlotAt(head', i)] = events[SlotAt(head, i + 1)]
          /\ events'[SlotAt(head', Capacity)] = event
      BY <1>1, <2>2, PushWhenFull
    <3>2. overflow' = overflow + 1
      BY <1>1, <2>2 DEF Push
    <3>0. Len(pushed) >= Capacity
      BY <1>0, <2>2 DEF AtMost
    <3>3. size' = AtMost(Len(pushed'), Capacity) /\ overflow' = Len(pushed') - size'
      <4> DEFINE before == Len(pushed)
                 after == Len(pushed')
      <4>1. /\ before \in Nat /\ before >= Capacity /\ after = before + 1
            /\ size = Capacity /\ size' = Capacity
            /\ overflow = before - size /\ overflow' = overflow + 1
        BY <1>0, <2>1, <2>2, <3>0, <3>1, <3>2
      <4> HIDE DEF before, after
      <4>2. size' = AtMost(after, Capacity)
        BY <1>0, <4>1 DEF AtMost
      <4>3. overflow' = after - size'
        BY <1>0, <4>1
      <4> QED BY <4>2, <4>3 DEF after
    <3>4. ASSUME NEW i \in 1..size'
          PROVE  events'[SlotAt(head', i)] = pushed'[Len(pushed') - size' + i]
      <4>1. CASE i = Capacity
        BY <1>0, <2>1, <3>1, <4>1
      <4>2. CASE i # Capacity
        <5>1. i \in 1..(Capacity - 1) /\ i + 1 \in 1..size
          BY <1>0, <2>2, <3>1, <4>2
        <5>2. events'[SlotAt(head', i)] = pushed[Len(pushed) - size + (i + 1)]
          BY <1>0, <3>1, <5>1
        <5>3. /\ Len(pushed) - size + (i + 1) \in 1..Len(pushed)
              /\ Len(pushed') - size' + i = Len(pushed) - size + (i + 1)
          BY <1>0, <2>1, <2>2, <3>0, <3>1, <5>1, SMTT(30)
        <5> QED BY <2>1, <5>2, <5>3
      <4> QED BY <4>1, <4>2
    <3> QED BY <3>3, <3>4 DEF HoldsLatest
  <2>3. CASE size # Capacity
    <3>1. /\ size' = size + 1 /\ size < Capacity
          /\ \A i \in 1..size : events'[SlotAt(head', i)] = events[SlotAt(head, i)]
          /\ events'[SlotAt(head', size + 1)] = event
      BY <1>1, <2>3, PushWithRoom
    <3>2. overflow' = overflow /\ size = Len(pushed)
      BY <1>0, <1>1, <2>3 DEF Push, AtMost
    <3>3. size' = AtMost(Len(pushed'), Capacity) /\ overflow' = Len(pushed') - size'
      BY <1>0, <2>1, <3>1, <3>2 DEF AtMost
    <3>4. ASSUME NEW i \in 1..size'
          PROVE  events'[SlotAt(head', i)] = pushed'[Len(pushed') - size' + i]
      <4>0. Len(pushed') - size' + i = i
        BY <1>0, <2>1, <3>1, <3>2
      <4>1. CASE i = size + 1
        BY <2>1, <3>1, <3>2, <4>0, <4>1
      <4>2. CASE i # size + 1
        <5>1. i \in 1..size /\ Len(pushed) - size + i = i
          BY <1>0, <3>1, <3>2, <4>2
        <5> QED BY <1>0, <2>1, <3>1, <3>2, <4>0, <5>1
      <4> QED BY <4>1, <4>2
    <3> QED BY <3>3, <3>4 DEF HoldsLatest
  <2> QED BY <2>2, <2>3
<1>2. CASE UNCHANGED vars
  BY <1>2 DEF vars, HoldsLatest, SlotAt
<1> QED BY <1>1, <1>2 DEF Next

(* A buffer that holds the latest events answers with them. *)
LEMMA HoldsAnswers == TypeOK /\ HoldsLatest => RecentIsNewest
<1> SUFFICES ASSUME TypeOK, HoldsLatest PROVE RecentIsNewest
  OBVIOUS
<1>0. /\ Capacity \in Nat \ {0} /\ size \in 0..Capacity /\ Len(pushed) \in Nat
      /\ size = AtMost(Len(pushed), Capacity) /\ overflow = Len(pushed) - size
      /\ head \in 0..(Capacity - 1)
      /\ \A i \in 1..size : events[SlotAt(head, i)] = pushed[Len(pushed) - size + i]
  BY BufferAssumption, LenProperties DEF TypeOK, HoldsLatest, Slots
<1>1. ASSUME NEW n \in 0..(Capacity + 1)
      PROVE  Recent(n) = [i \in 1..AtMost(n, AtMost(Len(pushed), Capacity)) |->
                            pushed[Len(pushed) + 1 - i]]
  <2> DEFINE count == IF n > size THEN size ELSE n
  <2>1. count = AtMost(n, AtMost(Len(pushed), Capacity)) /\ count \in 0..size
    BY <1>0 DEF AtMost
  <2>2. ASSUME NEW i \in 1..count
        PROVE  events[(head + size - 1 - (i - 1)) % Capacity] = pushed[Len(pushed) + 1 - i]
    <3>1. size + 1 - i \in 1..size
      BY <1>0, <2>1, SMTT(30)
    <3>2. SlotAt(head, size + 1 - i) = (head + size - 1 - (i - 1)) % Capacity
      <4>1. head + (size + 1 - i) - 1 = head + size - 1 - (i - 1)
        BY <1>0, <2>1
      <4> QED BY <4>1 DEF SlotAt
    <3>3. Len(pushed) - size + (size + 1 - i) = Len(pushed) + 1 - i
      BY <1>0, <2>1
    <3> QED BY <1>0, <3>1, <3>2, <3>3
  <2>3. Recent(n) = [i \in 1..count |-> events[(head + size - 1 - (i - 1)) % Capacity]]
    BY DEF Recent
  <2> HIDE DEF count
  <2> QED BY <2>1, <2>2, <2>3
<1> QED BY <1>0, <1>1 DEF RecentIsNewest

(* Recent answers with the latest events for every capacity and length of  *)
(* history. (tetragon.go Push, Recent)                                     *)
THEOREM RecentCorrect == Spec => []RecentIsNewest
<1>1. Spec => []HoldsLatest
  <2>1. TypeOK /\ HoldsLatest /\ [Next]_vars => HoldsLatest'
    BY HoldsStep
  <2> QED BY <2>1, HoldsInit, TypeCorrect, PTL DEF Spec
<1> QED BY <1>1, HoldsAnswers, TypeCorrect, PTL

-----------------------------------------------------------------------------
(* The buffer of the monitor *)

Job == [pc : {"idle", "push", "call"}, path : Event \cup {None}, todo : SUBSET Callbacks,
        seq : Nat]

(* Whoever is about to push has an event, a path of Event. *)
HandlingOK ==
  /\ handling \in [Goroutines -> Job]
  /\ \A g \in Goroutines : handling[g].pc = "push" => handling[g].path \in Event
  /\ callbacks \subseteq Callbacks

(* The goroutines take events of Event only. *)
LEMMA ArrivalIsEvent ==
  ASSUME HandlingOK, NEW g \in Goroutines, NEW raw \in RawEvents
  PROVE  [pc |-> "push", path |-> FilePath(raw), todo |-> callbacks, seq |-> 0] \in Job
BY MonitorAssumption DEF Job, HandlingOK

(* Every goroutine rests at first. *)
LEMMA HandlingInit == MonitorInit => HandlingOK
BY DEF MonitorInit, HandlingOK, Job, Resting

(* Every step of the monitor keeps what goroutines handle. *)
LEMMA HandlingStep == TypeOK /\ HandlingOK /\ [MonitorNext]_allVars => HandlingOK'
<1> SUFFICES ASSUME TypeOK, HandlingOK, [MonitorNext]_allVars
             PROVE  HandlingOK'
  OBVIOUS
<1>1. ASSUME NEW g \in Goroutines, Arrive(g)
      PROVE  HandlingOK'
  <2> PICK raw \in RawEvents :
        handling' = [handling EXCEPT ![g] =
          [pc |-> "push", path |-> FilePath(raw), todo |-> callbacks, seq |-> 0]]
    BY <1>1 DEF Arrive
  <2> DEFINE new == [pc |-> "push", path |-> FilePath(raw), todo |-> callbacks, seq |-> 0]
  <2>1. new \in Job /\ new.path \in Event
    BY ArrivalIsEvent, MonitorAssumption
  <2>2. handling' = [handling EXCEPT ![g] = new] /\ callbacks' = callbacks
    BY <1>1 DEF Arrive
  <2> HIDE DEF new, Job
  <2> QED BY <2>1, <2>2 DEF HandlingOK
<1>2. ASSUME NEW g \in Goroutines, Buffer(g)
      PROVE  HandlingOK'
  <2>1. Len(pushed') \in Nat
    BY <1>2 DEF Buffer, Push, HandlingOK, TypeOK
  <2> DEFINE n   == Len(pushed')
             new == [[handling[g] EXCEPT !.pc = "call"] EXCEPT !.seq = n]
  <2>2. handling' = [handling EXCEPT ![g] = new]
    BY <1>2 DEF Buffer, HandlingOK
  <2> HIDE DEF n
  <2>3. new \in Job /\ new.pc = "call"
    BY <2>1 DEF HandlingOK, Job, n
  <2> HIDE DEF new, Job
  <2> QED BY <1>2, <2>2, <2>3 DEF Buffer, HandlingOK
<1>3. ASSUME NEW g \in Goroutines, Call(g)
      PROVE  HandlingOK'
  <2>1. Resting \in Job /\ Resting.pc = "idle"
    BY DEF Resting, Job
  <2>2. ASSUME NEW c
        PROVE  LET new == [handling[g] EXCEPT !.todo = handling[g].todo \ {c}]
               IN  new \in Job /\ new.pc = handling[g].pc
    BY DEF HandlingOK, Job
  <2>3. PICK new \in Job : new.pc \in {"idle", "call"} /\ handling' = [handling EXCEPT ![g] = new]
    BY <1>3, <2>1, <2>2 DEF Call
  <2> HIDE DEF Job
  <2> QED BY <1>3, <2>3 DEF Call, HandlingOK
<1>4. ASSUME NEW c \in Callbacks, OnEvent(c)
      PROVE  HandlingOK'
  BY <1>4 DEF OnEvent, HandlingOK
<1>5. CASE UNCHANGED <<handling, callbacks>>
  BY <1>5 DEF HandlingOK
<1> QED BY <1>1, <1>2, <1>3, <1>4, <1>5
        DEF MonitorNext, allVars, monitorVars, RegisterPath, UnregisterPath, Start, Stop,
            LoopStep, Check, Connect, SetConnected, StreamEnds, SetDisconnected, WaitReconnect,
            KeepRest, Handle

(* The monitor changes its buffer by pushing events only. *)
LEMMA MonitorPushes == HandlingOK /\ [MonitorNext]_allVars => [Next]_vars
<1> SUFFICES ASSUME HandlingOK, [MonitorNext]_allVars
             PROVE  [Next]_vars
  OBVIOUS
<1>1. ASSUME NEW g \in Goroutines, Buffer(g)
      PROVE  Next
  BY <1>1 DEF Buffer, HandlingOK, Next
<1> QED BY <1>1 DEF MonitorNext, allVars, RegisterPath, UnregisterPath, OnEvent, Start, Stop,
            LoopStep, Check, Connect, SetConnected, StreamEnds, SetDisconnected, WaitReconnect,
            KeepRest, Arrive, Handle, Call

(* The types of the buffer and of what is handled hold in the monitor.     *)
(* (tetragon.go handleRawEvent)                                            *)
THEOREM MonitorTypes == MonitorSpec => [](TypeOK /\ HandlingOK)
<1>1. MonitorInit => TypeOK
  BY TypeInit DEF MonitorInit
<1>2. TypeOK /\ HandlingOK /\ [MonitorNext]_allVars => TypeOK'
  BY MonitorPushes, TypeStep
<1> QED BY <1>1, <1>2, HandlingInit, HandlingStep, PTL DEF MonitorSpec

(* The monitor uses its buffer as the buffer is specified. (tetragon.go)   *)
THEOREM UsesTheBuffer == MonitorSpec => Spec
<1>1. MonitorInit => Init
  BY DEF MonitorInit
<1> QED BY <1>1, MonitorTypes, MonitorPushes, PTL DEF MonitorSpec, Spec

(* Inside the monitor, too, the circular buffer is a bounded log: what is  *)
(* handled by several goroutines is kept in the order in which it came to  *)
(* the buffer, the oldest forgotten first. (tetragon.go handleRawEvent)    *)
THEOREM MonitorKeepsABoundedLog == MonitorSpec => IsBoundedLog
BY UsesTheBuffer, ImplementsBoundedLog

-----------------------------------------------------------------------------
(* The connection *)

(* Every step of the monitor keeps what is said of the connection. *)
LEMMA ConnectionStep == ConnectionTold /\ [MonitorNext]_allVars => ConnectionTold'
<1> SUFFICES ASSUME ConnectionTold, [MonitorNext]_allVars
             PROVE  ConnectionTold'
  OBVIOUS
<1> USE DEF ConnectionTold
<1>1. CASE UNCHANGED streamVars
  BY <1>1 DEF streamVars
<1>2. CASE Start
  BY <1>2 DEF Start
<1>3. CASE Stop
  BY <1>3 DEF Stop
<1>4. CASE LoopStep
  BY <1>4 DEF LoopStep, Check, Connect, SetConnected, StreamEnds, SetDisconnected,
              WaitReconnect, KeepRest, Goes
<1> QED BY <1>1, <1>2, <1>3, <1>4
        DEF MonitorNext, allVars, monitorVars, RegisterPath, UnregisterPath, OnEvent, Arrive,
            Handle, Buffer, Call

(* The monitor says it is connected only while it has a stream, or in      *)
(* simulation mode. (tetragon.go runStreamLoop, Stop)                      *)
THEOREM ConnectionIsTold == MonitorSpec => []ConnectionTold
<1>1. MonitorInit => ConnectionTold
  BY DEF MonitorInit, ConnectionTold
<1> QED BY <1>1, ConnectionStep, PTL DEF MonitorSpec

-----------------------------------------------------------------------------
(* Callbacks *)

Calling(g) == handling[g].pc = "call"

(* The calls a goroutine has still to make are owed and not made, and no   *)
(* two goroutines handle the same event; all are about events in the log.  *)
CallsInv ==
  /\ \A x \in owed : x \in told \/
       \E g \in Goroutines : Calling(g) /\ x[2] = handling[g].seq /\ x[1] \in handling[g].todo
  /\ told \subseteq owed
  /\ \A g \in Goroutines : Calling(g) =>
       \A c \in handling[g].todo : <<c, handling[g].seq>> \in owed \ told
  /\ \A g, h \in Goroutines : Calling(g) /\ Calling(h) /\ g # h =>
       handling[g].seq # handling[h].seq
  /\ \A g \in Goroutines : Calling(g) => handling[g].seq <= Len(pushed)
  /\ \A x \in owed : x[2] \in Nat /\ x[2] <= Len(pushed) /\ x = <<x[1], x[2]>>

(* Told is what is owed, but for the calls still to be made. *)
LEMMA CallsInvSuffices == CallsInv => CallbacksTold
<1> SUFFICES ASSUME CallsInv
             PROVE  CallbacksTold
  OBVIOUS
<1> DEFINE PendingOf(g) == {<<c, handling[g].seq>> : c \in handling[g].todo}
           Pending == UNION {PendingOf(g) : g \in {h \in Goroutines : handling[h].pc = "call"}}
<1>1. ASSUME NEW x \in told
      PROVE  x \in owed /\ x \notin Pending
  BY <1>1 DEF CallsInv, Calling
<1>2. ASSUME NEW x \in owed, x \notin told
      PROVE  x \in Pending
  <2>1. PICK g \in Goroutines : /\ Calling(g)
                                /\ x[2] = handling[g].seq /\ x[1] \in handling[g].todo
    BY <1>2 DEF CallsInv
  <2>2. x = <<x[1], handling[g].seq>>
    BY <2>1 DEF CallsInv
  <2>3. x \in PendingOf(g)
    BY <2>1, <2>2
  <2> QED BY <2>1, <2>3 DEF Calling
<1>3. told = owed \ Pending
  BY <1>1, <1>2
<1> QED BY <1>3 DEF CallbacksTold

(* A pushed event gets a number nobody has, and is owed to the callbacks.  *)
LEMMA BufferKeepsCalls ==
  ASSUME TypeOK, HandlingOK, CallsInv, NEW g \in Goroutines, Buffer(g)
  PROVE  CallsInv'
<1> DEFINE n == Len(pushed) + 1
<1>1. Len(pushed) \in Nat /\ Len(pushed') = n
  BY DEF TypeOK, HandlingOK, Buffer, Push
<1>2. /\ handling[g].pc = "push"
      /\ owed' = owed \cup {<<c, n>> : c \in handling[g].todo} /\ told' = told
  BY <1>1 DEF Buffer
<1>3. /\ handling'[g].pc = "call" /\ handling'[g].seq = n
      /\ handling'[g].todo = handling[g].todo
      /\ \A h \in Goroutines \ {g} : handling'[h] = handling[h]
  BY <1>1 DEF Buffer, HandlingOK, Job
<1>4. \A x \in owed : x[2] # n
  BY <1>1 DEF CallsInv
<1>5. \A c : <<c, n>> \notin told
  BY <1>4 DEF CallsInv
<1>6. \A h \in Goroutines \ {g} : Calling(h) => handling[h].seq # n
  BY <1>1 DEF CallsInv, HandlingOK, Job
<1> USE DEF CallsInv, Calling
<1>7. \A x \in owed' : x \in told' \/
        \E h \in Goroutines : /\ handling'[h].pc = "call"
                              /\ x[2] = handling'[h].seq /\ x[1] \in handling'[h].todo
  BY <1>2, <1>3
<1>8. \A h \in Goroutines : handling'[h].pc = "call" =>
        \A c \in handling'[h].todo : <<c, handling'[h].seq>> \in owed' \ told'
  BY <1>2, <1>3, <1>5
<1>9. \A h, k \in Goroutines : handling'[h].pc = "call" /\ handling'[k].pc = "call" /\ h # k =>
        handling'[h].seq # handling'[k].seq
  BY <1>3, <1>6
<1>10. \A h \in Goroutines : handling'[h].pc = "call" => handling'[h].seq <= Len(pushed')
  BY <1>1, <1>3 DEF HandlingOK, Job
<1>11. \A x \in owed' : x[2] \in Nat /\ x[2] <= Len(pushed') /\ x = <<x[1], x[2]>>
  BY <1>1, <1>2
<1>12. told' \subseteq owed'
  BY <1>2
<1> QED BY <1>7, <1>8, <1>9, <1>10, <1>11, <1>12

(* A call is made once, by the goroutine that handles the event. *)
LEMMA CallKeepsCalls ==
  ASSUME HandlingOK, CallsInv, NEW g \in Goroutines, Call(g)
  PROVE  CallsInv'
<1> USE DEF CallsInv, Calling
<1>1. handling[g].pc = "call" /\ owed' = owed /\ pushed' = pushed
  BY DEF Call, vars
<1>2. CASE handling[g].todo = {} /\ handling' = [handling EXCEPT ![g] = Resting] /\ told' = told
  <2>1. handling'[g].pc = "idle" /\ \A h \in Goroutines \ {g} : handling'[h] = handling[h]
    BY <1>2 DEF HandlingOK, Resting
  <2> QED BY <1>1, <1>2, <2>1
<1>3. ASSUME NEW c \in handling[g].todo, told' = told \cup {<<c, handling[g].seq>>},
             handling' = [handling EXCEPT ![g].todo = handling[g].todo \ {c}]
      PROVE  CallsInv'
  <2>1. /\ handling'[g].pc = "call" /\ handling'[g].seq = handling[g].seq
        /\ handling'[g].todo = handling[g].todo \ {c}
        /\ \A h \in Goroutines \ {g} : handling'[h] = handling[h]
    BY <1>1, <1>3 DEF HandlingOK, Job
  <2>2. \A x \in owed' : x \in told' \/
          \E h \in Goroutines : /\ handling'[h].pc = "call"
                                /\ x[2] = handling'[h].seq /\ x[1] \in handling'[h].todo
    BY <1>1, <1>3, <2>1
  <2>3. \A h \in Goroutines : handling'[h].pc = "call" =>
          \A d \in handling'[h].todo : <<d, handling'[h].seq>> \in owed' \ told'
    BY <1>1, <1>3, <2>1
  <2>4. told' \subseteq owed'
    BY <1>1, <1>3
  <2> QED BY <1>1, <2>1, <2>2, <2>3, <2>4
<1> QED BY <1>2, <1>3 DEF Call

(* Every step of the monitor keeps the calls. *)
LEMMA CallsInvStep == TypeOK /\ HandlingOK /\ CallsInv /\ [MonitorNext]_allVars => CallsInv'
<1> SUFFICES ASSUME TypeOK, HandlingOK, CallsInv, [MonitorNext]_allVars
             PROVE  CallsInv'
  OBVIOUS
<1>1. CASE UNCHANGED <<pushed, handling, owed, told>>
  BY <1>1 DEF CallsInv, Calling
<1>2. ASSUME NEW g \in Goroutines, Arrive(g)
      PROVE  CallsInv'
  <2>1. /\ handling[g].pc = "idle" /\ handling'[g].pc = "push"
        /\ \A h \in Goroutines \ {g} : handling'[h] = handling[h]
        /\ UNCHANGED <<pushed, owed, told>>
    BY <1>2 DEF Arrive, HandlingOK, vars
  <2> QED BY <2>1 DEF CallsInv, Calling
<1>3. ASSUME NEW g \in Goroutines, Handle(g)
      PROVE  CallsInv'
  BY <1>3, BufferKeepsCalls, CallKeepsCalls DEF Handle
<1> QED BY <1>1, <1>2, <1>3
        DEF MonitorNext, allVars, monitorVars, vars, RegisterPath, UnregisterPath, OnEvent,
            Start, Stop, LoopStep, Check, Connect, SetConnected, StreamEnds, SetDisconnected,
            WaitReconnect, KeepRest

(* Each callback that was registered when an event came is called with it, *)
(* whichever others panic. (tetragon.go handleRawEvent)                    *)
THEOREM CallbacksAreTold == MonitorSpec => []CallbacksTold
<1>1. MonitorInit => CallsInv
  BY DEF MonitorInit, CallsInv, Calling, Resting
<1> QED BY <1>1, CallsInvSuffices, CallsInvStep, MonitorTypes, PTL DEF MonitorSpec
=============================================================================

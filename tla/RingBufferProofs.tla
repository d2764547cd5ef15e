-------------------------- MODULE RingBufferProofs --------------------------
(***************************************************************************)
(* Proofs about RingBuffer: its type invariant, the order of the buffer,   *)
(* and the accounting of events, for every capacity, retry limit, backoff  *)
(* and number of pushes.                                                   *)
(***************************************************************************)
EXTENDS RingBuffer, SequenceTheorems, FiniteSetTheorems, TLAPS

(* What removing the i-th element does to a sequence. *)
LEMMA RemoveAtProperties ==
  ASSUME NEW S, NEW s \in Seq(S), NEW i \in 1..Len(s)
  PROVE  /\ RemoveAt(s, i) \in Seq(S)
         /\ Len(RemoveAt(s, i)) = Len(s) - 1
         /\ \A j \in 1..(Len(s) - 1) :
              RemoveAt(s, i)[j] = IF j < i THEN s[j] ELSE s[j + 1]
<1> DEFINE front == SubSeq(s, 1, i - 1)
           back  == SubSeq(s, i + 1, Len(s))
<1>1. Len(s) \in Nat /\ \A k \in 1..Len(s) : s[k] \in S
  BY LenProperties
<1>2. /\ front \in Seq(S)
      /\ Len(front) = i - 1
      /\ \A k \in 1..(i - 1) : front[k] = s[k]
  <2>1. \A k \in 1..(i - 1) : s[k] \in S
    BY <1>1
  <2>2. /\ front \in Seq(S)
        /\ Len(front) = IF 1 <= i - 1 THEN i - 1 - 1 + 1 ELSE 0
        /\ \A k \in 1..(i - 1 - 1 + 1) : front[k] = s[1 + k - 1]
    BY <1>1, <2>1, SubSeqProperties
  <2> QED BY <1>1, <2>2
<1>3. /\ back \in Seq(S)
      /\ Len(back) = Len(s) - i
      /\ \A k \in 1..(Len(s) - i) : back[k] = s[i + k]
  <2>1. \A k \in (i + 1)..Len(s) : s[k] \in S
    BY <1>1
  <2>2. /\ back \in Seq(S)
        /\ Len(back) = IF i + 1 <= Len(s) THEN Len(s) - (i + 1) + 1 ELSE 0
        /\ \A k \in 1..(Len(s) - (i + 1) + 1) : back[k] = s[i + 1 + k - 1]
    BY <1>1, <2>1, SubSeqProperties
  <2> QED BY <1>1, <2>2
<1>4. RemoveAt(s, i) = front \o back
  BY DEF RemoveAt
<1>5. /\ front \o back \in Seq(S)
      /\ Len(front \o back) = Len(front) + Len(back)
      /\ \A k \in 1..(Len(front) + Len(back)) :
           (front \o back)[k] = IF k <= Len(front) THEN front[k] ELSE back[k - Len(front)]
  BY <1>2, <1>3, ConcatProperties
<1> QED
  <2> HIDE DEF front, back
  <2>1. ASSUME NEW j \in 1..(Len(s) - 1)
        PROVE  (front \o back)[j] = IF j < i THEN s[j] ELSE s[j + 1]
    <3>1. CASE j < i
      BY <1>1, <1>2, <1>3, <1>5, <3>1
    <3>2. CASE ~(j < i)
      <4>1. j - (i - 1) \in 1..(Len(s) - i)
        BY <1>1, <3>2
      <4>2. back[j - (i - 1)] = s[i + (j - (i - 1))]
        BY <4>1, <1>3
      <4>3. i + (j - (i - 1)) = j + 1
        BY <1>1
      <4>4. (front \o back)[j] = back[j - (i - 1)]
        BY <1>1, <1>2, <1>3, <1>5, <3>2
      <4> QED BY <3>2, <4>2, <4>3, <4>4
    <3> QED BY <3>1, <3>2
  <2> QED BY <1>1, <1>2, <1>3, <1>4, <1>5, <2>1

(* calculateBackoff never exceeds the configured maximum. *)
LEMMA BackoffBound ==
  ASSUME NEW attempt \in Nat \ {0}
  PROVE  Backoff(attempt) \in Int /\ Backoff(attempt) <= MaxBackoff
<1>1. attempt - 1 \in Nat
  OBVIOUS
<1>2. 2^(attempt - 1) \in Int
  BY <1>1, SMT
<1>3. InitialBackoff * 2^(attempt - 1) \in Int
  BY <1>2, BufferAssumption
<1> QED BY <1>3, BufferAssumption DEF Backoff

(* What an event may have to wait for is a number. *)
LEMMA LongestWaitType == \A attempts \in Nat : LongestWait(attempts) \in Int
<1> TAKE attempts \in Nat
<1>1. CASE attempts = 0
  BY <1>1 DEF LongestWait
<1>2. CASE attempts # 0
  <2>1. Backoff(attempts) \in Int
    BY <1>2, BackoffBound
  <2> QED BY <1>2, <2>1 DEF LongestWait
<1> QED BY <1>1, <1>2

-----------------------------------------------------------------------------
(* How each operation transforms the slice of buffered events. *)

(* A buffered event and its id.                                             *)
LEMMA ItemType ==
  ASSUME TypeOK, NEW i \in 1..Len(items)
  PROVE  items[i] \in BufferedEvent /\ items[i].id \in Ids
<1>1. items[i] \in BufferedEvent
  BY DEF TypeOK
<1>2. items[i].id \in Ids
  BY <1>1 DEF BufferedEvent
<1> QED BY <1>1, <1>2

(* Leaves adds to one way only. *)
LEMMA LeavesEffect ==
  ASSUME TypeOK, NEW way \in Ways, NEW ids \in SUBSET Ids, Leaves(way, ids)
  PROVE  /\ gone' \in [Ways -> SUBSET Ids]
         /\ gone'[way] = gone[way] \cup ids
         /\ \A w \in Ways : w # way => gone'[w] = gone[w]
  BY DEF TypeOK, Leaves

(* The items after a push. *)
LEMMA PushItems ==
  ASSUME TypeOK, pushed < MaxPush
  PROVE  /\ NewItem \in BufferedEvent
         /\ Append(items, NewItem) \in Seq(BufferedEvent)
         /\ Len(Append(items, NewItem)) = Len(items) + 1
         /\ \A j \in 1..(Len(items) + 1) :
              Append(items, NewItem)[j] = IF j <= Len(items) THEN items[j] ELSE NewItem
         /\ Full => /\ items # <<>>
                    /\ Head(items) = items[1]
                    /\ Append(Tail(items), NewItem) \in Seq(BufferedEvent)
                    /\ Len(Append(Tail(items), NewItem)) = Len(items)
                    /\ \A j \in 1..Len(items) :
                         Append(Tail(items), NewItem)[j] =
                           IF j < Len(items) THEN items[j + 1] ELSE NewItem
<1> USE BufferAssumption
<1>1. NewItem \in BufferedEvent
  BY DEF NewItem, BufferedEvent, Ids, TypeOK
<1>2. /\ items \in Seq(BufferedEvent)
      /\ Len(items) \in Nat
  BY DEF TypeOK
<1>3. ASSUME Full
      PROVE  /\ items # <<>>
             /\ Head(items) = items[1]
             /\ Tail(items) \in Seq(BufferedEvent)
             /\ Len(Tail(items)) = Len(items) - 1
             /\ \A j \in 1..(Len(items) - 1) : Tail(items)[j] = items[j + 1]
  <2>1. Len(items) > 0
    BY <1>2, <1>3 DEF Full
  <2>2. items # <<>>
    BY <2>1
  <2> QED BY <1>2, <2>1, <2>2, HeadTailProperties
<1>4. ASSUME Full
      PROVE  /\ Append(Tail(items), NewItem) \in Seq(BufferedEvent)
             /\ Len(Append(Tail(items), NewItem)) = Len(items)
             /\ \A j \in 1..Len(items) :
                  Append(Tail(items), NewItem)[j] =
                    IF j < Len(items) THEN items[j + 1] ELSE NewItem
  BY <1>1, <1>2, <1>3, <1>4, AppendProperties
<1>5. /\ Append(items, NewItem) \in Seq(BufferedEvent)
      /\ Len(Append(items, NewItem)) = Len(items) + 1
      /\ \A j \in 1..(Len(items) + 1) :
           Append(items, NewItem)[j] = IF j <= Len(items) THEN items[j] ELSE NewItem
  BY <1>1, <1>2, AppendProperties
<1> QED BY <1>1, <1>3, <1>4, <1>5

(* What is left when one item is removed. *)
LEMMA RemoveItems ==
  ASSUME TypeOK, NEW i \in 1..Len(items)
  PROVE  /\ items[i].id \in Ids
         /\ RemoveAt(items, i) \in Seq(BufferedEvent)
         /\ Len(RemoveAt(items, i)) = Len(items) - 1
         /\ \A j \in 1..(Len(items) - 1) :
              RemoveAt(items, i)[j] = IF j < i THEN items[j] ELSE items[j + 1]
<1>1. items \in Seq(BufferedEvent)
  BY DEF TypeOK
<1>2. items[i].id \in Ids
  BY ItemType
<1> QED BY <1>1, <1>2, RemoveAtProperties

(* The items after one has failed. *)
LEMMA BackOffItems ==
  ASSUME TypeOK, NEW i \in 1..Len(items), ~Exhausted(items[i].attempts + 1)
  PROVE  /\ BackedOff(items[i]) \in BufferedEvent
         /\ BackedOff(items[i]).id = items[i].id
         /\ BackedOff(items[i]).attempts = items[i].attempts + 1
         /\ BackedOff(items[i]).wait = LongestWait(items[i].attempts + 1)
         /\ [items EXCEPT ![i] = BackedOff(items[i])] \in Seq(BufferedEvent)
         /\ Len([items EXCEPT ![i] = BackedOff(items[i])]) = Len(items)
         /\ \A j \in 1..Len(items) :
              [items EXCEPT ![i] = BackedOff(items[i])][j] =
                IF j = i THEN BackedOff(items[i]) ELSE items[j]
<1>1. items[i] \in BufferedEvent /\ items \in Seq(BufferedEvent)
  BY DEF TypeOK
<1>2. /\ items[i].attempts + 1 \in Nat \ {0}
      /\ items[i].attempts + 1 \in 0..(MaxRetries - 1)
      /\ items[i].id \in Ids
  BY <1>1, BufferAssumption DEF BufferedEvent, Exhausted
<1>3. /\ Backoff(items[i].attempts + 1) \in Int
      /\ Backoff(items[i].attempts + 1) = LongestWait(items[i].attempts + 1)
  BY <1>2, BackoffBound DEF LongestWait
<1>4. BackedOff(items[i]) \in BufferedEvent
  BY <1>2, <1>3 DEF BackedOff, BufferedEvent
<1>5. /\ [items EXCEPT ![i] = BackedOff(items[i])] \in Seq(BufferedEvent)
      /\ Len([items EXCEPT ![i] = BackedOff(items[i])]) = Len(items)
      /\ \A j \in 1..Len(items) :
           [items EXCEPT ![i] = BackedOff(items[i])][j] =
             IF j = i THEN BackedOff(items[i]) ELSE items[j]
  BY <1>1, <1>4, ExceptSeq
<1> QED BY <1>3, <1>4, <1>5 DEF BackedOff

(* The items after time has passed. *)
LEMMA TickItems ==
  ASSUME TypeOK, Tick
  PROVE  /\ items' \in Seq(BufferedEvent)
         /\ Len(items') = Len(items)
         /\ \A j \in 1..Len(items) :
              /\ items'[j].id = items[j].id
              /\ items'[j].attempts = items[j].attempts
              /\ items'[j].wait <= items[j].wait
              /\ items'[j].wait \in Int
<1>1. /\ items \in Seq(BufferedEvent)
      /\ Len(items) \in Nat
  BY DEF TypeOK
<1>2. items' = [j \in 1..Len(items) |-> Aged(items[j])]
  BY DEF Tick
<1>3. ASSUME NEW j \in 1..Len(items)
      PROVE  /\ Aged(items[j]) \in BufferedEvent
             /\ Aged(items[j]).id = items[j].id
             /\ Aged(items[j]).attempts = items[j].attempts
             /\ Aged(items[j]).wait <= items[j].wait
             /\ Aged(items[j]).wait \in Int
  <2>1. items[j] \in BufferedEvent
    BY <1>1
  <2> QED BY <2>1 DEF Aged, Ready, BufferedEvent
<1>4. items' \in Seq(BufferedEvent) /\ Len(items') = Len(items)
  BY <1>1, <1>2, <1>3
<1> QED BY <1>2, <1>3, <1>4

-----------------------------------------------------------------------------
(* Every variable keeps its type (RingBuffer: TypeOK). *)
LEMMA TypeInit == Init => TypeOK
<1> SUFFICES ASSUME Init PROVE TypeOK
  OBVIOUS
<1>1. items \in Seq(BufferedEvent)
  BY DEF Init
<1>2. fails \in [Ids -> Nat] /\ gone \in [Ways -> SUBSET Ids]
  BY DEF Init
<1>3. pc \in Steps /\ ~InFlight /\ ctxDone \in BOOLEAN
  BY DEF Init, Steps, InFlight
<1>4. inflight \in Ids \cup {0} /\ delivered \in SUBSET Ids /\ undisturbed \in BOOLEAN
  BY DEF Init
<1>5. pushed \in 0..MaxPush /\ dropped \in Nat
  BY BufferAssumption DEF Init
<1> QED BY <1>1, <1>2, <1>3, <1>4, <1>5 DEF TypeOK

(* Every step keeps the types. *)
LEMMA TypeStep == TypeOK /\ [Next]_vars => TypeOK'
<1> SUFFICES ASSUME TypeOK, [Next]_vars PROVE TypeOK'
  OBVIOUS
<1> USE BufferAssumption
<1>1. CASE Push
  <2>1. pushed < MaxPush
    BY <1>1 DEF Push
  <2>2. items' \in Seq(BufferedEvent)
    BY <1>1, <2>1, PushItems DEF Push
  <2>3. gone' \in [Ways -> SUBSET Ids]
    <3>1. CASE Full
      <4>1. Head(items).id \in Ids
        <5>1. 1 \in 1..Len(items)
          BY <3>1 DEF Full, TypeOK
        <5> QED BY <2>1, <3>1, <5>1, PushItems, ItemType
      <4> QED BY <1>1, <3>1, <4>1, LeavesEffect DEF Push, Ways
    <3>2. CASE ~Full
      BY <1>1, <3>2 DEF Push, TypeOK
    <3> QED BY <3>1, <3>2
  <2>4. dropped' \in Nat
    BY <1>1 DEF Push, TypeOK
  <2> QED BY <1>1, <2>2, <2>3, <2>4 DEF Push, TypeOK, loopVars, InFlight
<1>2. CASE Drain
  <2>1. {items[i].id : i \in 1..Len(items)} \in SUBSET Ids
    BY ItemType
  <2>2. gone' \in [Ways -> SUBSET Ids]
    BY <1>2, <2>1, LeavesEffect DEF Drain, Ways
  <2> QED BY <1>2, <2>2 DEF Drain, TypeOK, loopVars, InFlight
<1>3. CASE Tick
  BY <1>3, TickItems DEF Tick, TypeOK, loopVars, history, InFlight
<1>4. CASE CancelCtx
  BY <1>4 DEF CancelCtx, TypeOK, bufferVars, history, InFlight
<1>5. CASE StartProcess
  BY <1>5 DEF StartProcess, TypeOK, bufferVars, history, InFlight, Steps
<1>6. CASE CheckCtx
  BY <1>6 DEF CheckCtx, TypeOK, bufferVars, history, InFlight, Steps
<1>7. CASE Peek
  <2>1. \A i \in 1..Len(items) : items[i].id \in Ids
    BY ItemType
  <2> QED BY <1>7, <2>1 DEF Peek, IsFirstReady, TypeOK, bufferVars, history, InFlight, Steps
<1>8. CASE SendAccepted
  BY <1>8 DEF SendAccepted, TypeOK, bufferVars, InFlight, Steps
<1>9. CASE SendRefused
  BY <1>9 DEF SendRefused, TypeOK, bufferVars, InFlight, Steps
<1>10. CASE MarkSuccess
  <2>1. /\ items' \in Seq(BufferedEvent)
        /\ gone' \in [Ways -> SUBSET Ids]
    <3>1. CASE NothingReady /\ UNCHANGED <<items, gone>>
      BY <3>1 DEF TypeOK
    <3>2. ASSUME NEW i \in 1..Len(items),
                 items' = RemoveAt(items, i),
                 Leaves("acked", {items[i].id})
          PROVE  /\ items' \in Seq(BufferedEvent)
                 /\ gone' \in [Ways -> SUBSET Ids]
      <4>1. "acked" \in Ways /\ {items[i].id} \in SUBSET Ids
        BY ItemType DEF Ways
      <4> QED BY <3>2, <4>1, RemoveItems, LeavesEffect
    <3> QED BY <1>10, <3>1, <3>2 DEF MarkSuccess
  <2> QED BY <1>10, <2>1 DEF MarkSuccess, TypeOK, InFlight, Steps
<1>11. CASE MarkFailure
  <2>1. /\ items' \in Seq(BufferedEvent)
        /\ gone' \in [Ways -> SUBSET Ids]
        /\ dropped' \in Nat
    <3>1. CASE UNCHANGED <<items, dropped, gone>>
      BY <3>1 DEF TypeOK
    <3>2. ASSUME NEW i \in 1..Len(items),
                 items' = RemoveAt(items, i),
                 dropped' = dropped + 1,
                 Leaves("exhausted", {items[i].id})
          PROVE  /\ items' \in Seq(BufferedEvent)
                 /\ gone' \in [Ways -> SUBSET Ids]
                 /\ dropped' \in Nat
      <4>1. "exhausted" \in Ways /\ {items[i].id} \in SUBSET Ids
        BY ItemType DEF Ways
      <4> QED BY <3>2, <4>1, RemoveItems, LeavesEffect DEF TypeOK
    <3>3. ASSUME NEW i \in 1..Len(items),
                 ~Exhausted(items[i].attempts + 1),
                 items' = [items EXCEPT ![i] = BackedOff(items[i])],
                 UNCHANGED <<dropped, gone>>
          PROVE  /\ items' \in Seq(BufferedEvent)
                 /\ gone' \in [Ways -> SUBSET Ids]
                 /\ dropped' \in Nat
      BY <3>3, BackOffItems DEF TypeOK
    <3> QED BY <1>11, <3>1, <3>2, <3>3 DEF MarkFailure
  <2> QED BY <1>11, <2>1 DEF MarkFailure, TypeOK, InFlight, Steps
<1>12. CASE UNCHANGED vars
  BY <1>12 DEF vars, TypeOK, InFlight
<1> QED
  BY <1>1, <1>2, <1>3, <1>4, <1>5, <1>6, <1>7, <1>8, <1>9, <1>10, <1>11, <1>12
  DEF Next, Worker

(* Every variable of the export buffer keeps its type. *)
THEOREM TypeCorrect == Spec => []TypeOK
  BY TypeInit, TypeStep, PTL DEF Spec

-----------------------------------------------------------------------------
(* The buffer is bounded and ordered (RingBuffer: OldestFirst). *)

(* Only these things ever happen to the slice. *)
LEMMA ItemsStep ==
  ASSUME TypeOK, [Next]_vars
  PROVE  \/ UNCHANGED <<items, pushed>>
         \/ Push
         \/ Drain
         \/ Tick
         \/ \E i \in 1..Len(items) : /\ items' = RemoveAt(items, i)
                                    /\ pushed' = pushed
         \/ \E i \in 1..Len(items) : /\ ~Exhausted(items[i].attempts + 1)
                                    /\ items' = [items EXCEPT ![i] = BackedOff(items[i])]
                                    /\ pushed' = pushed
<1>1. CASE MarkSuccess
  BY <1>1 DEF MarkSuccess
<1>2. CASE MarkFailure
  BY <1>2 DEF MarkFailure
<1> QED
  BY <1>1, <1>2 DEF Next, Worker, vars, bufferVars, history, CancelCtx, StartProcess,
     CheckCtx, Peek, SendAccepted, SendRefused

(* The empty buffer is in order. *)
LEMMA OrderInit == Init => OldestFirst
  BY BufferAssumption DEF Init, OldestFirst

(* Every step keeps the buffer in order. *)
LEMMA OrderStep == TypeOK /\ OldestFirst /\ [Next]_vars => OldestFirst'
<1> SUFFICES ASSUME TypeOK, OldestFirst, [Next]_vars PROVE OldestFirst'
  OBVIOUS
<1> USE BufferAssumption
<1>0. /\ Len(items) \in Nat
      /\ pushed \in Nat
      /\ \A j \in 1..Len(items) : /\ items[j].id \in Nat
                                 /\ items[j].attempts \in Nat
                                 /\ items[j].wait \in Int
  <2>1. ASSUME NEW j \in 1..Len(items)
        PROVE  items[j].id \in Nat /\ items[j].attempts \in Nat /\ items[j].wait \in Int
    BY ItemType DEF BufferedEvent, Ids
  <2> QED BY <2>1 DEF TypeOK
<1>1. CASE UNCHANGED <<items, pushed>>
  BY <1>1 DEF OldestFirst
<1>2. CASE Push
  <2>1. pushed < MaxPush /\ pushed' = pushed + 1
    BY <1>2 DEF Push
  <2>2. /\ NewItem.id = pushed + 1
        /\ NewItem.attempts = 0
        /\ NewItem.wait = 0
    BY DEF NewItem
  <2>3. CASE Full
    <3>1. /\ Len(items') = Len(items)
          /\ \A j \in 1..Len(items) :
               items'[j] = IF j < Len(items) THEN items[j + 1] ELSE NewItem
      BY <1>2, <2>1, <2>3, PushItems DEF Push
    <3>2. \A j, k \in 1..Len(items) : j < k => items'[j].id < items'[k].id
      <4> SUFFICES ASSUME NEW j \in 1..Len(items), NEW k \in 1..Len(items), j < k
                   PROVE  items'[j].id < items'[k].id
        OBVIOUS
      <4>1. items'[j] = items[j + 1] /\ j + 1 \in 1..Len(items)
        BY <1>0, <3>1
      <4>2. CASE k < Len(items)
        <5>1. items'[k] = items[k + 1] /\ k + 1 \in 1..Len(items) /\ j + 1 < k + 1
          BY <1>0, <3>1, <4>2
        <5> QED BY <4>1, <5>1 DEF OldestFirst
      <4>3. CASE k = Len(items)
        <5>1. items'[k] = NewItem
          BY <1>0, <3>1, <4>3
        <5> QED BY <1>0, <2>2, <4>1, <5>1 DEF OldestFirst
      <4> QED BY <1>0, <4>2, <4>3
    <3>3. \A j \in 1..Len(items) :
            /\ items'[j].id <= pushed + 1
            /\ items'[j].wait <= LongestWait(items'[j].attempts)
      <4> SUFFICES ASSUME NEW j \in 1..Len(items)
                   PROVE  /\ items'[j].id <= pushed + 1
                          /\ items'[j].wait <= LongestWait(items'[j].attempts)
        OBVIOUS
      <4>1. CASE j < Len(items)
        <5>1. items'[j] = items[j + 1] /\ j + 1 \in 1..Len(items)
          BY <1>0, <3>1, <4>1
        <5> QED BY <1>0, <5>1 DEF OldestFirst
      <4>2. CASE j = Len(items)
        BY <1>0, <2>2, <3>1, <4>2 DEF LongestWait
      <4> QED BY <1>0, <4>1, <4>2
    <3> QED BY <2>1, <3>1, <3>2, <3>3 DEF OldestFirst
  <2>4. CASE ~Full
    <3>1. /\ Len(items') = Len(items) + 1
          /\ \A j \in 1..(Len(items) + 1) :
               items'[j] = IF j <= Len(items) THEN items[j] ELSE NewItem
      BY <1>2, <2>1, <2>4, PushItems DEF Push
    <3>2. Len(items') <= Capacity
      BY <1>0, <2>4, <3>1 DEF Full
    <3>3. \A j, k \in 1..(Len(items) + 1) : j < k => items'[j].id < items'[k].id
      <4> SUFFICES ASSUME NEW j \in 1..(Len(items) + 1), NEW k \in 1..(Len(items) + 1), j < k
                   PROVE  items'[j].id < items'[k].id
        OBVIOUS
      <4>1. items'[j] = items[j] /\ j \in 1..Len(items)
        BY <1>0, <3>1
      <4>2. CASE k <= Len(items)
        <5>1. items'[k] = items[k] /\ k \in 1..Len(items)
          BY <1>0, <3>1, <4>2, SMTT(30)
        <5> QED BY <4>1, <5>1 DEF OldestFirst
      <4>3. CASE k = Len(items) + 1
        <5>1. items'[k] = NewItem
          BY <1>0, <3>1, <4>3
        <5> QED BY <1>0, <2>2, <4>1, <5>1 DEF OldestFirst
      <4> QED BY <1>0, <4>2, <4>3
    <3>4. \A j \in 1..(Len(items) + 1) :
            /\ items'[j].id <= pushed + 1
            /\ items'[j].wait <= LongestWait(items'[j].attempts)
      <4> SUFFICES ASSUME NEW j \in 1..(Len(items) + 1)
                   PROVE  /\ items'[j].id <= pushed + 1
                          /\ items'[j].wait <= LongestWait(items'[j].attempts)
        OBVIOUS
      <4>1. CASE j <= Len(items)
        <5>1. items'[j] = items[j] /\ j \in 1..Len(items)
          BY <1>0, <3>1, <4>1
        <5> QED BY <1>0, <5>1 DEF OldestFirst
      <4>2. CASE j = Len(items) + 1
        BY <1>0, <2>2, <3>1, <4>2 DEF LongestWait
      <4> QED BY <1>0, <4>1, <4>2
    <3> QED BY <2>1, <3>1, <3>2, <3>3, <3>4 DEF OldestFirst
  <2> QED BY <2>3, <2>4
<1>3. CASE Drain
  BY <1>3 DEF Drain, OldestFirst
<1>4. CASE Tick
  <2>1. pushed' = pushed
    BY <1>4 DEF Tick, history
  <2>2. /\ Len(items') = Len(items)
        /\ \A j \in 1..Len(items) :
             /\ items'[j].id = items[j].id
             /\ items'[j].attempts = items[j].attempts
             /\ items'[j].wait <= items[j].wait
             /\ items'[j].wait \in Int
    BY <1>4, TickItems
  <2>3. \A j \in 1..Len(items) : LongestWait(items[j].attempts) \in Int
    BY <1>0, LongestWaitType
  <2>4. \A j \in 1..Len(items) : items'[j].wait <= LongestWait(items'[j].attempts)
    <3> TAKE j \in 1..Len(items)
    <3>1. items[j].wait <= LongestWait(items[j].attempts)
      BY DEF OldestFirst
    <3> QED BY <1>0, <2>2, <2>3, <3>1
  <2> QED BY <1>0, <2>1, <2>2, <2>4, SMTT(30) DEF OldestFirst
<1>5. ASSUME NEW i \in 1..Len(items), items' = RemoveAt(items, i), pushed' = pushed
      PROVE  OldestFirst'
  <2>1. /\ Len(items') = Len(items) - 1
        /\ \A j \in 1..(Len(items) - 1) :
             items'[j] = IF j < i THEN items[j] ELSE items[j + 1]
    BY <1>5, RemoveItems
  <2> DEFINE at(j) == IF j < i THEN j ELSE j + 1
  <2>2. ASSUME NEW j \in 1..Len(items')
        PROVE  items'[j] = items[at(j)] /\ at(j) \in 1..Len(items)
    BY <1>0, <2>1
  <2>3. ASSUME NEW j \in 1..Len(items'), NEW k \in 1..Len(items'), j < k
        PROVE  at(j) < at(k)
    BY <1>0, <2>1, <2>3
  <2>4. Len(items') <= Capacity
    BY <1>0, <2>1 DEF OldestFirst
  <2> HIDE DEF at
  <2>5. \A j, k \in 1..Len(items') : j < k => items'[j].id < items'[k].id
    BY <2>2, <2>3 DEF OldestFirst
  <2> QED BY <1>5, <2>2, <2>4, <2>5 DEF OldestFirst
<1>6. ASSUME NEW i \in 1..Len(items),
             ~Exhausted(items[i].attempts + 1),
             items' = [items EXCEPT ![i] = BackedOff(items[i])],
             pushed' = pushed
      PROVE  OldestFirst'
  <2>1. /\ Len(items') = Len(items)
        /\ \A j \in 1..Len(items) :
             items'[j] = IF j = i THEN BackedOff(items[i]) ELSE items[j]
        /\ BackedOff(items[i]).id = items[i].id
        /\ BackedOff(items[i]).attempts = items[i].attempts + 1
        /\ BackedOff(items[i]).wait = LongestWait(items[i].attempts + 1)
        /\ LongestWait(items[i].attempts + 1) \in Int
    BY <1>0, <1>6, BackOffItems, LongestWaitType
  <2>2. \A j \in 1..Len(items) : items'[j].wait <= LongestWait(items'[j].attempts)
    BY <2>1 DEF OldestFirst
  <2> QED BY <1>0, <1>6, <2>1, <2>2 DEF OldestFirst
<1> QED BY <1>1, <1>2, <1>3, <1>4, <1>5, <1>6, ItemsStep

(* Whatever evictions, removals from the middle and backoffs do, the buffer  *)
(* is bounded by its capacity, in push order, and an event waits no longer   *)
(* than the backoff of its attempts.                                         *)
THEOREM BufferOrdered == Spec => []OldestFirst
  BY TypeInit, TypeStep, OrderInit, OrderStep, PTL DEF Spec

-----------------------------------------------------------------------------
(* No event vanishes unaccounted (RingBuffer: Accounted). *)

(* The events X leave the buffer one way while the events N arrive. *)
LEMMA MoveKeepsPlaces ==
  ASSUME TypeOK, InOnePlace,
         NEW way \in Ways, NEW X \in SUBSET Buffered, NEW N \in SUBSET Ids,
         Leaves(way, X),
         Buffered' = (Buffered \ X) \cup N,
         pushed' \in Nat,
         \A e \in Ids : e <= pushed' <=> e <= pushed \/ e \in N,
         \A e \in N : ~(e <= pushed)
  PROVE  InOnePlace'
<1>1. X \in SUBSET Ids
  BY ItemType DEF Buffered
<1>2. /\ gone'[way] = gone[way] \cup X
      /\ \A w \in Ways : w # way => gone'[w] = gone[w]
  BY <1>1, LeavesEffect
<1>3. \A w \in Ways : gone[w] \in SUBSET Ids
  BY DEF TypeOK
<1>4. \A e \in Ids : e <= pushed' <=> e \in Buffered' \/ \E w \in Ways : e \in gone'[w]
  BY <1>1, <1>2 DEF InOnePlace
<1>5. \A w \in Ways : gone'[w] \cap Buffered' = {}
  BY <1>2, <1>3 DEF InOnePlace
<1>6. \A v, w \in Ways : v # w => gone'[v] \cap gone'[w] = {}
  BY <1>2 DEF InOnePlace
<1> QED BY <1>4, <1>5, <1>6 DEF InOnePlace

(* Counting one more event that left some way. *)
LEMMA CountLeaving ==
  ASSUME TypeOK, InOnePlace, NEW way \in Ways, NEW e \in Buffered
  PROVE  /\ Cardinality(gone[way] \cup {e}) = Cardinality(gone[way]) + 1
         /\ \A w \in Ways : Cardinality(gone[w]) \in Nat
<1>1. IsFiniteSet(Ids)
  BY BufferAssumption, FS_Interval DEF Ids
<1>2. \A w \in Ways : IsFiniteSet(gone[w])
  BY <1>1, FS_Subset DEF TypeOK
<1>3. e \notin gone[way]
  BY DEF InOnePlace
<1>4. \A w \in Ways : Cardinality(gone[w]) \in Nat
  BY <1>2, FS_CardinalityType
<1> QED BY <1>2, <1>3, <1>4, FS_AddElement

(* An event that moves out of the buffer is in one place again. *)
LEMMA LeavingKeepsPlaces ==
  ASSUME TypeOK, InOnePlace, NEW way \in Ways, NEW X \in SUBSET Buffered,
         Leaves(way, X), Buffered' = Buffered \ X, pushed' = pushed
  PROVE  InOnePlace'
<1> DEFINE N == {}
<1>1. /\ N \in SUBSET Ids
      /\ Buffered' = (Buffered \ X) \cup N
      /\ pushed' \in Nat
      /\ \A e \in Ids : e <= pushed' <=> e <= pushed \/ e \in N
      /\ \A e \in N : ~(e <= pushed)
  BY DEF TypeOK
<1> HIDE DEF N
<1> QED BY <1>1, MoveKeepsPlaces

(* Who is buffered after a push. *)
LEMMA BufferedAfterPush ==
  ASSUME TypeOK, OldestFirst, Push
  PROVE  /\ Full => /\ items[1].id \in Buffered
                    /\ Head(items) = items[1]
                    /\ Buffered' = (Buffered \ {items[1].id}) \cup {pushed + 1}
         /\ ~Full => Buffered' = Buffered \cup {pushed + 1}
<1> USE BufferAssumption
<1>0. /\ Len(items) \in Nat /\ pushed \in Nat /\ pushed < MaxPush
      /\ \A j \in 1..Len(items) : items[j].id \in Nat
  <2>1. ASSUME NEW j \in 1..Len(items) PROVE items[j].id \in Nat
    BY ItemType DEF Ids
  <2> QED BY <2>1 DEF TypeOK, Push
<1>1. NewItem.id = pushed + 1
  BY DEF NewItem
<1>2. CASE Full
  <2>1. /\ Len(items') = Len(items) /\ Len(items) > 0 /\ Head(items) = items[1]
        /\ \A j \in 1..Len(items) :
             items'[j] = IF j < Len(items) THEN items[j + 1] ELSE NewItem
    <3>1. items' = Append(Tail(items), NewItem)
      BY <1>2 DEF Push
    <3>2. Len(items) > 0
      BY <1>0, <1>2 DEF Full
    <3> QED BY <1>0, <1>2, <3>1, <3>2, PushItems
  <2>2. ASSUME NEW e \in Buffered' PROVE e \in (Buffered \ {items[1].id}) \cup {pushed + 1}
    <3>1. PICK j \in 1..Len(items) : e = items'[j].id
      BY <2>1 DEF Buffered
    <3>2. CASE j < Len(items)
      <4>1. e = items[j + 1].id /\ j + 1 \in 1..Len(items) /\ 1 \in 1..Len(items) /\ 1 < j + 1
        BY <1>0, <2>1, <3>1, <3>2
      <4>2. items[1].id < items[j + 1].id
        BY <4>1 DEF OldestFirst
      <4> QED BY <1>0, <4>1, <4>2 DEF Buffered
    <3>3. CASE j = Len(items)
      BY <1>0, <1>1, <2>1, <3>1, <3>3
    <3> QED BY <1>0, <3>2, <3>3
  <2>3. ASSUME NEW e \in Buffered, e # items[1].id PROVE e \in Buffered'
    <3>1. PICK j \in 1..Len(items) : e = items[j].id
      BY DEF Buffered
    <3>2. j # 1
      BY <2>3, <3>1
    <3>3. j - 1 \in 1..Len(items) /\ j - 1 < Len(items) /\ (j - 1) + 1 = j
      BY <1>0, <3>2
    <3>4. items'[j - 1] = items[j]
      BY <1>0, <2>1, <3>3
    <3> QED BY <2>1, <3>1, <3>3, <3>4 DEF Buffered
  <2>4. pushed + 1 \in Buffered'
    <3>1. Len(items) \in 1..Len(items) /\ items'[Len(items)] = NewItem
      BY <1>0, <2>1
    <3> QED BY <1>1, <2>1, <3>1 DEF Buffered
  <2>5. items[1].id \in Buffered
    BY <1>0, <2>1 DEF Buffered
  <2> QED BY <1>2, <2>1, <2>2, <2>3, <2>4, <2>5
<1>3. CASE ~Full
  <2>1. /\ Len(items') = Len(items) + 1
        /\ \A j \in 1..(Len(items) + 1) :
             items'[j] = IF j <= Len(items) THEN items[j] ELSE NewItem
    BY <1>0, <1>3, PushItems DEF Push
  <2>2. ASSUME NEW e \in Buffered' PROVE e \in Buffered \cup {pushed + 1}
    <3>1. PICK j \in 1..(Len(items) + 1) : e = items'[j].id
      BY <2>1 DEF Buffered
    <3> QED BY <1>0, <1>1, <2>1, <3>1 DEF Buffered
  <2>3. ASSUME NEW e \in Buffered PROVE e \in Buffered'
    <3>1. PICK j \in 1..Len(items) : e = items[j].id
      BY DEF Buffered
    <3>2. j \in 1..Len(items') /\ items'[j] = items[j]
      BY <1>0, <2>1
    <3> QED BY <3>1, <3>2 DEF Buffered
  <2>4. pushed + 1 \in Buffered'
    <3>1. Len(items) + 1 \in 1..Len(items') /\ items'[Len(items) + 1] = NewItem
      BY <1>0, <2>1
    <3> QED BY <1>1, <3>1 DEF Buffered
  <2> QED BY <1>3, <2>2, <2>3, <2>4
<1> QED BY <1>2, <1>3

(* Who is buffered after a removal. *)
LEMMA BufferedAfterRemoval ==
  ASSUME TypeOK, OldestFirst, NEW i \in 1..Len(items), items' = RemoveAt(items, i)
  PROVE  items[i].id \in Buffered /\ Buffered' = Buffered \ {items[i].id}
<1>0. /\ Len(items) \in Nat
      /\ \A j \in 1..Len(items) : items[j].id \in Nat
  <2>1. ASSUME NEW j \in 1..Len(items) PROVE items[j].id \in Nat
    BY ItemType, BufferAssumption DEF Ids
  <2> QED BY <2>1 DEF TypeOK
<1>1. /\ Len(items') = Len(items) - 1
      /\ \A j \in 1..(Len(items) - 1) :
           items'[j] = IF j < i THEN items[j] ELSE items[j + 1]
  BY RemoveItems
<1>2. \A j \in 1..Len(items) : j # i => items[j].id # items[i].id
  <2> TAKE j \in 1..Len(items)
  <2>1. j < i => items[j].id < items[i].id
    BY DEF OldestFirst
  <2>2. i < j => items[i].id < items[j].id
    BY DEF OldestFirst
  <2> QED BY <1>0, <2>1, <2>2
<1>3. ASSUME NEW e \in Buffered' PROVE e \in Buffered /\ e # items[i].id
  <2>1. PICK j \in 1..(Len(items) - 1) : e = items'[j].id
    BY <1>1 DEF Buffered
  <2>2. \E k \in 1..Len(items) : k # i /\ items'[j] = items[k]
    <3>1. CASE j < i
      BY <1>0, <1>1, <3>1
    <3>2. CASE ~(j < i)
      <4>1. j + 1 \in 1..Len(items) /\ j + 1 # i /\ items'[j] = items[j + 1]
        BY <1>0, <1>1, <3>2
      <4> QED BY <4>1
    <3> QED BY <3>1, <3>2
  <2> QED BY <1>2, <2>1, <2>2 DEF Buffered
<1>4. ASSUME NEW e \in Buffered, e # items[i].id PROVE e \in Buffered'
  <2>1. PICK j \in 1..Len(items) : e = items[j].id
    BY DEF Buffered
  <2>2. CASE j < i
    <3>1. j \in 1..Len(items') /\ items'[j] = items[j]
      BY <1>0, <1>1, <2>2
    <3> QED BY <2>1, <3>1 DEF Buffered
  <2>3. CASE i < j
    <3>1. /\ j - 1 \in 1..Len(items')
          /\ j - 1 \in 1..(Len(items) - 1)
          /\ ~(j - 1 < i)
          /\ (j - 1) + 1 = j
      BY <1>0, <1>1, <2>3
    <3>2. items'[j - 1] = items[j]
      BY <1>1, <3>1
    <3> QED BY <2>1, <3>1, <3>2 DEF Buffered
  <2>4. j # i
    BY <1>4, <2>1
  <2> QED BY <1>0, <2>2, <2>3, <2>4
<1> QED BY <1>3, <1>4 DEF Buffered

(* Nothing was pushed, nothing is missing. *)
LEMMA AccountInit == Init => Accounted
<1> SUFFICES ASSUME Init PROVE Accounted
  OBVIOUS
<1>1. Buffered = {} /\ \A way \in Ways : gone[way] = {}
  BY DEF Init, Buffered
<1>2. \A e \in Ids : ~(e <= pushed)
  BY BufferAssumption DEF Init, Ids
<1>3. "evicted" \in Ways /\ "exhausted" \in Ways
  BY DEF Ways
<1>4. InOnePlace
  BY <1>1, <1>2 DEF InOnePlace
<1>5. dropped = Cardinality(gone["evicted"]) + Cardinality(gone["exhausted"])
  BY <1>1, <1>3, FS_EmptySet DEF Init
<1> QED BY <1>4, <1>5 DEF Accounted

(* Every step keeps the account. *)
LEMMA AccountStep == TypeOK /\ OldestFirst /\ Accounted /\ [Next]_vars => Accounted'
<1> SUFFICES ASSUME TypeOK, OldestFirst, Accounted, [Next]_vars PROVE Accounted'
  OBVIOUS
<1>0. /\ InOnePlace
      /\ {"evicted", "exhausted", "acked", "drained"} \subseteq Ways
      /\ dropped = Cardinality(gone["evicted"]) + Cardinality(gone["exhausted"])
      /\ pushed \in Nat
  BY DEF Accounted, Ways, TypeOK
(* what leaves as evicted or exhausted is counted, nothing else is *)
<1>1. ASSUME NEW way \in Ways, NEW e \in Buffered, Leaves(way, {e}), InOnePlace',
             dropped' = IF way \in {"evicted", "exhausted"} THEN dropped + 1 ELSE dropped
      PROVE  Accounted'
  <2>1. {e} \in SUBSET Ids
    BY ItemType DEF Buffered
  <2>2. /\ gone'[way] = gone[way] \cup {e}
        /\ \A w \in Ways : w # way => gone'[w] = gone[w]
    BY <1>1, <2>1, LeavesEffect
  <2>3. /\ Cardinality(gone[way] \cup {e}) = Cardinality(gone[way]) + 1
        /\ \A w \in Ways : Cardinality(gone[w]) \in Nat
    BY <1>0, CountLeaving
  <2>4. dropped' = Cardinality(gone'["evicted"]) + Cardinality(gone'["exhausted"])
    <3>0. /\ Cardinality(gone["evicted"]) \in Nat
          /\ Cardinality(gone["exhausted"]) \in Nat
      BY <1>0, <2>3
    <3>1. CASE way = "evicted"
      <4>1. gone'["exhausted"] = gone["exhausted"]
        BY <1>0, <2>2, <3>1
      <4>2. Cardinality(gone'["evicted"]) = Cardinality(gone["evicted"]) + 1
        BY <2>2, <2>3, <3>1
      <4>3. dropped' = dropped + 1
        BY <1>1, <3>1
      <4> QED BY <1>0, <3>0, <4>1, <4>2, <4>3
    <3>2. CASE way = "exhausted"
      <4>1. gone'["evicted"] = gone["evicted"]
        BY <1>0, <2>2, <3>2
      <4>2. Cardinality(gone'["exhausted"]) = Cardinality(gone["exhausted"]) + 1
        BY <2>2, <2>3, <3>2
      <4>3. dropped' = dropped + 1
        BY <1>1, <3>2
      <4> QED BY <1>0, <3>0, <4>1, <4>2, <4>3
    <3>3. CASE way \notin {"evicted", "exhausted"}
      BY <1>0, <1>1, <2>2, <3>3
    <3> QED BY <3>1, <3>2, <3>3
  <2> QED BY <1>1, <2>4 DEF Accounted
<1>2. CASE Push
  <2>1. pushed' = pushed + 1 /\ pushed < MaxPush
    BY <1>2 DEF Push
  <2> DEFINE N == {pushed + 1}
  <2>4. /\ N \in SUBSET Ids
        /\ pushed' \in Nat
        /\ \A e \in Ids : e <= pushed' <=> e <= pushed \/ e \in N
        /\ \A e \in N : ~(e <= pushed)
    BY <1>0, <2>1, BufferAssumption DEF Ids
  <2>2. CASE Full
    <3>1. /\ items[1].id \in Buffered
          /\ Buffered' = (Buffered \ {items[1].id}) \cup {pushed + 1}
          /\ Leaves("evicted", {items[1].id})
      BY <1>2, <2>2, BufferedAfterPush DEF Push
    <3>2. InOnePlace'
      <4> DEFINE X == {items[1].id}
      <4>1. X \in SUBSET Buffered /\ Leaves("evicted", X) /\ Buffered' = (Buffered \ X) \cup N
        BY <3>1
      <4> HIDE DEF X, N
      <4> QED BY <1>0, <2>4, <4>1, MoveKeepsPlaces
    <3>3. dropped' = dropped + 1
      BY <1>2, <2>2 DEF Push
    <3> QED BY <1>0, <1>1, <3>1, <3>2, <3>3
  <2>3. CASE ~Full
    <3>1. Buffered' = Buffered \cup {pushed + 1}
      BY <1>2, <2>3, BufferedAfterPush
    <3>2. gone' = gone /\ dropped' = dropped
      BY <1>2, <2>3 DEF Push
    <3>3. Leaves("evicted", {})
      BY <1>0, <3>2 DEF Leaves, TypeOK
    <3>4. InOnePlace'
      <4> DEFINE X == {}
      <4>1. X \in SUBSET Buffered /\ Leaves("evicted", X) /\ Buffered' = (Buffered \ X) \cup N
        BY <3>1, <3>3
      <4> HIDE DEF X, N
      <4> QED BY <1>0, <2>4, <4>1, MoveKeepsPlaces
    <3> QED BY <1>0, <3>2, <3>4 DEF Accounted
  <2> QED BY <2>2, <2>3
<1>3. CASE Drain
  <2>1. /\ Buffered' = Buffered \ Buffered
        /\ Leaves("drained", Buffered)
        /\ pushed' = pushed /\ dropped' = dropped
    BY <1>3 DEF Drain, Buffered
  <2>2. InOnePlace'
    BY <1>0, <2>1, LeavingKeepsPlaces
  <2>3. gone'["evicted"] = gone["evicted"] /\ gone'["exhausted"] = gone["exhausted"]
    <3>1. Buffered \in SUBSET Ids
      BY ItemType DEF Buffered
    <3> QED BY <1>0, <2>1, <3>1, LeavesEffect
  <2> QED BY <1>0, <2>1, <2>2, <2>3 DEF Accounted
<1>4. ASSUME Buffered' = Buffered, gone' = gone, dropped' = dropped, pushed' = pushed
      PROVE  Accounted'
  BY <1>4 DEF Accounted, InOnePlace
<1>5. CASE Tick
  <2>1. Buffered' = Buffered
    BY <1>5, TickItems DEF Buffered
  <2> QED BY <1>4, <1>5, <2>1 DEF Tick, history
<1>6. CASE MarkSuccess
  <2>1. ASSUME NEW i \in 1..Len(items), items' = RemoveAt(items, i),
               Leaves("acked", {items[i].id})
        PROVE  Accounted'
    <3>1. items[i].id \in Buffered /\ Buffered' = Buffered \ {items[i].id}
      BY <2>1, BufferedAfterRemoval
    <3>2. InOnePlace'
      <4> DEFINE X == {items[i].id}
      <4>1. /\ X \in SUBSET Buffered /\ Leaves("acked", X)
            /\ Buffered' = Buffered \ X /\ pushed' = pushed
        BY <1>6, <2>1, <3>1 DEF MarkSuccess
      <4> HIDE DEF X
      <4> QED BY <1>0, <4>1, LeavingKeepsPlaces
    <3> QED BY <1>0, <1>1, <1>6, <2>1, <3>1, <3>2 DEF MarkSuccess
  <2>2. ASSUME UNCHANGED <<items, gone>> PROVE Accounted'
    BY <1>4, <1>6, <2>2 DEF MarkSuccess, Buffered
  <2> QED BY <1>6, <2>1, <2>2 DEF MarkSuccess
<1>7. CASE MarkFailure
  <2>1. ASSUME NEW i \in 1..Len(items), items' = RemoveAt(items, i),
               dropped' = dropped + 1, Leaves("exhausted", {items[i].id})
        PROVE  Accounted'
    <3>1. items[i].id \in Buffered /\ Buffered' = Buffered \ {items[i].id}
      BY <2>1, BufferedAfterRemoval
    <3>2. InOnePlace'
      <4> DEFINE X == {items[i].id}
      <4>1. /\ X \in SUBSET Buffered /\ Leaves("exhausted", X)
            /\ Buffered' = Buffered \ X /\ pushed' = pushed
        BY <1>7, <2>1, <3>1 DEF MarkFailure
      <4> HIDE DEF X
      <4> QED BY <1>0, <4>1, LeavingKeepsPlaces
    <3> QED BY <1>0, <1>1, <2>1, <3>1, <3>2
  <2>2. ASSUME NEW i \in 1..Len(items), ~Exhausted(items[i].attempts + 1),
               items' = [items EXCEPT ![i] = BackedOff(items[i])],
               UNCHANGED <<dropped, gone>>
        PROVE  Accounted'
    <3>1. /\ Len(items') = Len(items)
          /\ \A j \in 1..Len(items) : items'[j].id = items[j].id
      BY <2>2, BackOffItems
    <3>2. Buffered' = Buffered
      BY <3>1 DEF Buffered
    <3> QED BY <1>4, <1>7, <2>2, <3>2 DEF MarkFailure
  <2>3. ASSUME UNCHANGED <<items, dropped, gone>> PROVE Accounted'
    BY <1>4, <1>7, <2>3 DEF MarkFailure, Buffered
  <2> QED BY <1>7, <2>1, <2>2, <2>3 DEF MarkFailure
<1>8. ASSUME UNCHANGED <<items, gone, dropped, pushed>> PROVE Accounted'
  BY <1>4, <1>8 DEF Buffered
<1> QED
  BY <1>2, <1>3, <1>5, <1>6, <1>7, <1>8
  DEF Next, Worker, vars, bufferVars, history, CancelCtx, StartProcess, CheckCtx,
      Peek, SendAccepted, SendRefused

(* Each pushed event is in exactly one place, and dropped counts exactly the *)
(* evicted and the exhausted ones.                                           *)
THEOREM EventsAccounted == Spec => []Accounted
  BY TypeInit, TypeStep, OrderInit, OrderStep, AccountInit, AccountStep, PTL DEF Spec

-----------------------------------------------------------------------------
(* The right event is marked, as long as nothing disturbs a Send           *)
(* (RingBuffer: RightEventMarked).                                         *)

(* What was delivered, or is being sent, was pushed; what was sent was     *)
(* delivered.                                                              *)
Known ==
  /\ delivered \subseteq 1..pushed
  /\ InFlight => inflight <= pushed
  /\ pc = "sent" => inflight \in delivered

AckedSent       == gone["acked"] \subseteq delivered
ExhaustedFailed == \A e \in gone["exhausted"] : fails[e] >= MaxRetries

(* i is the first ready item of the sequence s *)
FirstIn(s, i) ==
  i \in 1..Len(s) /\ Ready(s[i]) /\ \A j \in 1..(i - 1) : ~Ready(s[j])

(* The event that is being sent is the one the loops will stop at, and its *)
(* refusal is not yet charged to it.                                       *)
Aimed ==
  InFlight => \E i \in 1..Len(items) :
    /\ FirstIn(items, i)
    /\ items[i].id = inflight
    /\ pc = "refused" => items[i].attempts < fails[inflight]

(* Nothing that was delivered stays buffered beyond MarkSuccess. *)
Unsent == \A e \in Buffered : e \in delivered => pc = "sent" /\ e = inflight

(* Every attempt charged to an event is a refusal of that event. *)
Covered == \A i \in 1..Len(items) : items[i].attempts <= fails[items[i].id]

MarkInv ==
  /\ Known
  /\ undisturbed => AckedSent /\ ExhaustedFailed /\ Aimed /\ Unsent /\ Covered

(* The loops of Peek, MarkSuccess and MarkFailure stop at the same item. *)
LEMMA OneFirstReady ==
  ASSUME TypeOK, NEW i, NEW j, IsFirstReady(i), FirstIn(items, j)
  PROVE  i = j
<1>1. i \in 1..Len(items) /\ j \in 1..Len(items) /\ Len(items) \in Nat
  BY DEF IsFirstReady, FirstIn, TypeOK
<1>2. ~(i < j) /\ ~(j < i)
  BY <1>1 DEF IsFirstReady, FirstIn
<1> QED BY <1>1, <1>2

(* It stays the first ready one while items are only appended. *)
LEMMA StaysFirst ==
  ASSUME NEW s, NEW t, NEW i, FirstIn(s, i), Len(s) \in Nat, Len(t) \in Nat,
         Len(s) <= Len(t), \A j \in 1..Len(s) : t[j] = s[j]
  PROVE  FirstIn(t, i)
<1>1. i \in 1..Len(s) /\ i \in 1..Len(t) /\ Ready(s[i])
  BY DEF FirstIn
<1>2. \A j \in 1..(i - 1) : j \in 1..Len(s) /\ ~Ready(s[j])
  BY <1>1 DEF FirstIn
<1> QED BY <1>1, <1>2 DEF FirstIn

(* Items that are moved, but not changed, stay covered. *)
LEMMA MovedStayCovered ==
  ASSUME Covered, UNCHANGED fails,
         \A j \in 1..Len(items') : \E k \in 1..Len(items) :
           items'[j].id = items[k].id /\ items'[j].attempts = items[k].attempts
  PROVE  Covered'
<1> SUFFICES ASSUME NEW j \in 1..Len(items')
             PROVE  items'[j].attempts <= fails[items'[j].id]
  BY DEF Covered
<1>1. PICK k \in 1..Len(items) :
        items'[j].id = items[k].id /\ items'[j].attempts = items[k].attempts
  OBVIOUS
<1> QED BY <1>1 DEF Covered

(* A push disturbs a Send only when it evicts. *)
LEMMA PushMarks ==
  ASSUME TypeOK, OldestFirst, MarkInv, Push
  PROVE  MarkInv'
<1>1. /\ pushed \in Nat /\ pushed' = pushed + 1 /\ pushed < MaxPush /\ MaxPush \in Nat
      /\ UNCHANGED <<pc, inflight, delivered, fails>>
      /\ undisturbed' = (undisturbed /\ ~(Full /\ InFlight)) /\ undisturbed \in BOOLEAN
      /\ items \in Seq(BufferedEvent) /\ Len(items) \in Nat
      /\ InFlight => inflight \in Ids
  BY BufferAssumption DEF Push, TypeOK, loopVars
<1>2. Known'
  BY <1>1, BufferAssumption DEF MarkInv, Known, InFlight, Ids
<1> SUFFICES ASSUME undisturbed' PROVE (AckedSent /\ ExhaustedFailed /\ Aimed /\ Unsent /\ Covered)'
  BY <1>2 DEF MarkInv
<1>3. undisturbed /\ ~(Full /\ InFlight)
  BY <1>1
<1>4. AckedSent /\ ExhaustedFailed /\ Aimed /\ Unsent /\ Covered
  BY <1>3 DEF MarkInv
<1>5. gone'["acked"] = gone["acked"] /\ gone'["exhausted"] = gone["exhausted"]
  <2>1. CASE Full
    <3>1. Head(items).id \in Ids
      <4>1. 1 \in 1..Len(items)
        BY <1>1, <2>1, BufferAssumption DEF Full
      <4> QED BY <1>1, <2>1, <4>1, PushItems, ItemType
    <3> QED BY <2>1, <3>1, LeavesEffect DEF Push, Ways
  <2>2. CASE ~Full
    BY <2>2 DEF Push
  <2> QED BY <2>1, <2>2
<1>6. AckedSent' /\ ExhaustedFailed'
  BY <1>1, <1>4, <1>5 DEF AckedSent, ExhaustedFailed
<1>7. Unsent'
  <2>1. Buffered' \subseteq Buffered \cup {pushed + 1}
    BY BufferedAfterPush
  <2>2. pushed + 1 \notin delivered
    BY <1>1 DEF MarkInv, Known
  <2> QED BY <1>1, <1>4, <2>1, <2>2 DEF Unsent
<1>8. NewItem.id = pushed + 1 /\ NewItem.attempts = 0 /\ pushed + 1 \in Ids
  BY <1>1 DEF NewItem, Ids
<1>9. Covered'
  <2> SUFFICES ASSUME NEW j \in 1..Len(items')
               PROVE  items'[j].attempts <= fails'[items'[j].id]
    BY DEF Covered
  <2>1. items'[j] = NewItem \/ \E k \in 1..Len(items) : items'[j] = items[k]
    <3>1. CASE Full
      <4>1. /\ Len(items') = Len(items)
            /\ \A l \in 1..Len(items) : items'[l] = IF l < Len(items) THEN items[l + 1] ELSE NewItem
        BY <1>1, <3>1, PushItems DEF Push
      <4>2. j < Len(items) => j + 1 \in 1..Len(items)
        BY <1>1, <4>1
      <4> QED BY <4>1, <4>2
    <3>2. CASE ~Full
      <4>1. /\ Len(items') = Len(items) + 1
            /\ \A l \in 1..(Len(items) + 1) : items'[l] = IF l <= Len(items) THEN items[l] ELSE NewItem
        BY <1>1, <3>2, PushItems DEF Push
      <4>2. j <= Len(items) => j \in 1..Len(items)
        BY <1>1, <4>1
      <4> QED BY <4>1, <4>2
    <3> QED BY <3>1, <3>2
  <2>2. CASE items'[j] = NewItem
    <3>1. fails[pushed + 1] \in Nat
      BY <1>8 DEF TypeOK
    <3> QED BY <1>1, <1>8, <2>2, <3>1
  <2>3. CASE \E k \in 1..Len(items) : items'[j] = items[k]
    BY <1>1, <1>4, <2>3 DEF Covered
  <2> QED BY <2>1, <2>2, <2>3
<1>10. Aimed'
  <2> SUFFICES ASSUME InFlight' PROVE Aimed'
    BY DEF Aimed
  <2>1. InFlight /\ ~Full
    BY <1>1, <1>3 DEF InFlight
  <2>2. /\ Len(items') = Len(items) + 1
        /\ \A l \in 1..(Len(items) + 1) : items'[l] = IF l <= Len(items) THEN items[l] ELSE NewItem
    BY <1>1, <2>1, PushItems DEF Push
  <2>3. Len(items') \in Nat /\ Len(items) <= Len(items') /\ \A l \in 1..Len(items) : items'[l] = items[l]
    BY <1>1, <2>2
  <2>4. PICK i \in 1..Len(items) :
          /\ FirstIn(items, i)
          /\ items[i].id = inflight
          /\ pc = "refused" => items[i].attempts < fails[inflight]
    BY <1>4, <2>1 DEF Aimed
  <2>5. FirstIn(items', i)
    BY <1>1, <2>3, <2>4, StaysFirst
  <2>6. i \in 1..Len(items') /\ items'[i] = items[i]
    BY <1>1, <2>3
  <2> QED BY <1>1, <2>4, <2>5, <2>6 DEF Aimed
<1> QED BY <1>6, <1>7, <1>9, <1>10

(* Draining, or the passing of time, disturbs a Send. *)
LEMMA QuietMarks ==
  ASSUME TypeOK, MarkInv, Drain \/ Tick
  PROVE  MarkInv'
<1>1. /\ UNCHANGED <<pc, inflight, delivered, fails, pushed>>
      /\ undisturbed' = (undisturbed /\ ~InFlight) /\ undisturbed \in BOOLEAN
      /\ Len(items) \in Nat
  BY DEF Drain, Tick, TypeOK, loopVars
<1>2. Known'
  BY <1>1 DEF MarkInv, Known, InFlight
<1> SUFFICES ASSUME undisturbed' PROVE (AckedSent /\ ExhaustedFailed /\ Aimed /\ Unsent /\ Covered)'
  BY <1>2 DEF MarkInv
<1>3. undisturbed /\ ~InFlight /\ ~InFlight'
  BY <1>1 DEF InFlight
<1>4. AckedSent /\ ExhaustedFailed /\ Unsent /\ Covered
  BY <1>3 DEF MarkInv
<1>5. Aimed'
  BY <1>3 DEF Aimed
<1>6. CASE Drain
  <2>1. items' = <<>> /\ Leaves("drained", {items[i].id : i \in 1..Len(items)})
    BY <1>6 DEF Drain
  <2>2. {items[i].id : i \in 1..Len(items)} \in SUBSET Ids
    BY ItemType
  <2>3. gone'["acked"] = gone["acked"] /\ gone'["exhausted"] = gone["exhausted"]
    BY <2>1, <2>2, LeavesEffect DEF Ways
  <2>4. Unsent' /\ Covered'
    BY <2>1 DEF Unsent, Covered, Buffered
  <2> QED BY <1>1, <1>4, <1>5, <2>3, <2>4 DEF AckedSent, ExhaustedFailed
<1>7. CASE Tick
  <2>1. /\ Len(items') = Len(items)
        /\ \A j \in 1..Len(items) : items'[j].id = items[j].id /\ items'[j].attempts = items[j].attempts
    BY <1>7, TickItems
  <2>2. gone' = gone
    BY <1>7 DEF Tick
  <2>3. Buffered' = Buffered
    BY <2>1 DEF Buffered
  <2>4. Covered'
    BY <1>1, <1>4, <2>1, MovedStayCovered
  <2> QED BY <1>1, <1>4, <1>5, <2>2, <2>3, <2>4 DEF AckedSent, ExhaustedFailed, Unsent
<1> QED BY <1>6, <1>7

(* A call of ProcessBuffer that looks at its context, peeks or stops. *)
LEMMA LookMarks ==
  ASSUME TypeOK, OldestFirst, MarkInv,
         StartProcess \/ CancelCtx \/ CheckCtx \/ Peek \/ UNCHANGED vars
  PROVE  MarkInv'
<1>1. UNCHANGED <<items, pushed, delivered, fails, gone, undisturbed>>
  BY DEF StartProcess, CancelCtx, CheckCtx, Peek, vars, bufferVars, history
<1>2. Buffered' = Buffered /\ AckedSent' = AckedSent /\ (ExhaustedFailed' <=> ExhaustedFailed)
      /\ (Covered' <=> Covered)
  BY <1>1 DEF Buffered, AckedSent, ExhaustedFailed, Covered
<1>3. CASE UNCHANGED <<pc, inflight>>
  BY <1>1, <1>2, <1>3 DEF MarkInv, Known, InFlight, Aimed, Unsent
<1>4. CASE ~InFlight /\ ~InFlight'
  <2>1. pc # "sent" /\ pc' # "sent"
    BY <1>4 DEF InFlight
  <2> QED BY <1>1, <1>2, <1>4, <2>1 DEF MarkInv, Known, Aimed, Unsent
<1>5. ASSUME NEW i \in 1..Len(items), IsFirstReady(i), pc = "peek",
             inflight' = items[i].id, pc' = "sending"
      PROVE  MarkInv'
  <2>1. FirstIn(items', i) /\ i \in 1..Len(items') /\ items'[i].id = inflight'
    BY <1>1, <1>5 DEF IsFirstReady, FirstIn
  <2>2. items[i].id <= pushed
    BY DEF OldestFirst
  <2>3. Known' /\ Aimed'
    BY <1>1, <1>5, <2>1, <2>2 DEF MarkInv, Known, Aimed
  <2>4. undisturbed => Unsent'
    BY <1>1, <1>2, <1>5 DEF MarkInv, Unsent
  <2> QED BY <1>1, <1>2, <2>3, <2>4 DEF MarkInv
<1>6. \/ UNCHANGED <<pc, inflight>>
      \/ ~InFlight /\ ~InFlight'
      \/ \E i \in 1..Len(items) : /\ IsFirstReady(i) /\ pc = "peek"
                                 /\ inflight' = items[i].id /\ pc' = "sending"
  BY DEF StartProcess, CancelCtx, CheckCtx, Peek, vars, InFlight
<1> QED BY <1>3, <1>4, <1>5, <1>6

(* backend.Send answers. *)
LEMMA AnswerMarks ==
  ASSUME TypeOK, OldestFirst, MarkInv, SendAccepted \/ SendRefused
  PROVE  MarkInv'
<1>1. /\ pc = "sending" /\ UNCHANGED <<items, inflight, pushed, gone, undisturbed>>
      /\ InFlight /\ inflight \in Ids /\ inflight <= pushed /\ pushed \in Nat
      /\ InFlight'
  BY DEF SendAccepted, SendRefused, bufferVars, InFlight, TypeOK, MarkInv, Known
<1>2. Buffered' = Buffered
  BY <1>1 DEF Buffered
<1>3. CASE SendAccepted
  <2>1. pc' = "sent" /\ delivered' = delivered \cup {inflight} /\ fails' = fails
    BY <1>3 DEF SendAccepted
  <2>2. Known'
    BY <1>1, <2>1 DEF MarkInv, Known, Ids
  <2>3. ASSUME undisturbed
        PROVE  (AckedSent /\ ExhaustedFailed /\ Aimed /\ Unsent /\ Covered)'
    <3>1. AckedSent /\ ExhaustedFailed /\ Aimed /\ Unsent /\ Covered
      BY <2>3 DEF MarkInv
    <3>2. AckedSent' /\ ExhaustedFailed' /\ Covered'
      BY <1>1, <2>1, <3>1 DEF AckedSent, ExhaustedFailed, Covered
    <3>3. Unsent'
      BY <1>1, <1>2, <2>1, <3>1 DEF Unsent
    <3>4. Aimed'
      BY <1>1, <2>1, <3>1 DEF Aimed
    <3> QED BY <3>2, <3>3, <3>4
  <2> QED BY <1>1, <2>2, <2>3 DEF MarkInv
<1>4. CASE SendRefused
  <2>1. /\ pc' = "refused" /\ delivered' = delivered
        /\ fails' = [fails EXCEPT ![inflight] = IF @ < MaxRetries THEN @ + 1 ELSE @]
        /\ fails \in [Ids -> Nat] /\ MaxRetries \in Nat
    BY <1>4, BufferAssumption DEF SendRefused, TypeOK
  <2>2. Known'
    BY <1>1, <2>1 DEF MarkInv, Known
  <2>3. /\ \A e \in Ids : fails'[e] \in Nat /\ fails[e] \in Nat /\ fails[e] <= fails'[e]
        /\ \A n \in 0..(MaxRetries - 1) : n <= fails[inflight] => n < fails'[inflight]
    BY <1>1, <2>1
  <2>4. ASSUME undisturbed
        PROVE  (AckedSent /\ ExhaustedFailed /\ Aimed /\ Unsent /\ Covered)'
    <3>1. AckedSent /\ ExhaustedFailed /\ Aimed /\ Unsent /\ Covered
      BY <2>4 DEF MarkInv
    <3>2. AckedSent' /\ Unsent'
      BY <1>1, <1>2, <2>1, <3>1 DEF AckedSent, Unsent
    <3>3. ExhaustedFailed'
      <4>1. gone["exhausted"] \subseteq Ids
        BY DEF TypeOK, Ways
      <4> QED BY <1>1, <2>1, <2>3, <3>1, <4>1 DEF ExhaustedFailed
    <3>4. ASSUME NEW i \in 1..Len(items)
          PROVE  /\ items[i].id \in Ids /\ items[i].attempts \in 0..(MaxRetries - 1)
                 /\ items[i].attempts <= fails[items[i].id]
      BY <3>1, ItemType DEF BufferedEvent, Covered
    <3>5. Covered'
      BY <1>1, <2>1, <2>3, <3>4 DEF Covered
    <3>6. Aimed'
      <4>1. PICK i \in 1..Len(items) : FirstIn(items, i) /\ items[i].id = inflight
        BY <1>1, <3>1 DEF Aimed
      <4>2. items[i].attempts < fails'[inflight]
        BY <2>3, <3>4, <4>1
      <4> QED BY <1>1, <4>1, <4>2 DEF Aimed
    <3> QED BY <3>2, <3>3, <3>5, <3>6
  <2> QED BY <1>1, <2>2, <2>4 DEF MarkInv
<1> QED BY <1>3, <1>4

(* Items that stay behind when one is removed are those that were there. *)
LEMMA RemovedStayCovered ==
  ASSUME TypeOK, Covered, UNCHANGED fails, NEW i \in 1..Len(items), items' = RemoveAt(items, i)
  PROVE  Covered'
<1>1. /\ Len(items) \in Nat /\ Len(items') = Len(items) - 1
      /\ \A j \in 1..(Len(items) - 1) : items'[j] = IF j < i THEN items[j] ELSE items[j + 1]
  <2>1. Len(items) \in Nat
    BY DEF TypeOK
  <2> QED BY <2>1, RemoveItems
<1>2. ASSUME NEW j \in 1..Len(items')
      PROVE  \E k \in 1..Len(items) :
               items'[j].id = items[k].id /\ items'[j].attempts = items[k].attempts
  <2>1. j \in 1..(Len(items) - 1) /\ j \in 1..Len(items) /\ j + 1 \in 1..Len(items)
    BY <1>1
  <2>2. items'[j] = items[j] \/ items'[j] = items[j + 1]
    BY <1>1, <2>1
  <2> QED BY <2>1, <2>2
<1> QED BY <1>2, MovedStayCovered

(* MarkSuccess and MarkFailure find the event that was sent. *)
LEMMA MarkMarks ==
  ASSUME TypeOK, OldestFirst, MarkInv, MarkSuccess \/ MarkFailure
  PROVE  MarkInv'
<1>1. /\ pc \in {"sent", "refused"} /\ InFlight /\ ~InFlight' /\ pc' # "sent"
      /\ UNCHANGED <<pushed, delivered, fails, undisturbed>>
      /\ inflight \in Ids /\ Len(items) \in Nat
  BY DEF MarkSuccess, MarkFailure, InFlight, TypeOK
<1>2. Known' /\ Aimed'
  BY <1>1 DEF MarkInv, Known, Aimed
<1> SUFFICES ASSUME undisturbed PROVE (AckedSent /\ ExhaustedFailed /\ Unsent /\ Covered)'
  BY <1>1, <1>2 DEF MarkInv
<1>3. AckedSent /\ ExhaustedFailed /\ Aimed /\ Unsent /\ Covered
  BY DEF MarkInv
<1>4. PICK i \in 1..Len(items) :
        /\ FirstIn(items, i)
        /\ items[i].id = inflight
        /\ pc = "refused" => items[i].attempts < fails[inflight]
  BY <1>1, <1>3 DEF Aimed
<1>5. ~NothingReady
  BY <1>4 DEF NothingReady, FirstIn
<1>6. \A k : IsFirstReady(k) => k = i
  BY <1>4, OneFirstReady
<1>7. {items[i].id} \in SUBSET Ids /\ "acked" \in Ways /\ "exhausted" \in Ways
  BY ItemType DEF Ways
<1>8. CASE MarkSuccess
  <2>1. pc = "sent" /\ items' = RemoveAt(items, i) /\ Leaves("acked", {items[i].id})
    BY <1>5, <1>6, <1>8 DEF MarkSuccess
  <2>2. Buffered' = Buffered \ {inflight}
    BY <1>4, <2>1, BufferedAfterRemoval
  <2>3. gone'["acked"] = gone["acked"] \cup {inflight} /\ gone'["exhausted"] = gone["exhausted"]
    BY <1>4, <1>7, <2>1, LeavesEffect
  <2>4. inflight \in delivered
    BY <2>1 DEF MarkInv, Known
  <2>5. AckedSent' /\ ExhaustedFailed'
    BY <1>1, <1>3, <2>3, <2>4 DEF AckedSent, ExhaustedFailed
  <2>6. Unsent'
    BY <1>1, <1>3, <2>2 DEF Unsent
  <2> QED BY <1>1, <1>3, <2>1, <2>5, <2>6, RemovedStayCovered
<1>9. CASE MarkFailure
  <2>1. /\ pc = "refused" /\ items[i].attempts < fails[inflight]
        /\ items[i].attempts \in Nat /\ fails[inflight] \in Nat /\ MaxRetries \in Nat
    <3>1. items[i] \in BufferedEvent
      BY ItemType
    <3> QED BY <1>1, <1>4, <1>9, <3>1, BufferAssumption DEF MarkFailure, BufferedEvent, TypeOK
  <2>2. CASE /\ Exhausted(items[i].attempts + 1)
             /\ items' = RemoveAt(items, i)
             /\ Leaves("exhausted", {items[i].id})
    <3>1. fails[inflight] >= MaxRetries
      BY <2>1, <2>2 DEF Exhausted
    <3>2. gone'["exhausted"] = gone["exhausted"] \cup {inflight} /\ gone'["acked"] = gone["acked"]
      BY <1>4, <1>7, <2>2, LeavesEffect
    <3>3. Buffered' \subseteq Buffered
      BY <2>2, BufferedAfterRemoval
    <3>4. AckedSent' /\ ExhaustedFailed' /\ Unsent'
      BY <1>1, <1>3, <2>1, <3>1, <3>2, <3>3 DEF AckedSent, ExhaustedFailed, Unsent
    <3> QED BY <1>1, <1>3, <2>2, <3>4, RemovedStayCovered
  <2>3. CASE /\ ~Exhausted(items[i].attempts + 1)
             /\ items' = [items EXCEPT ![i] = BackedOff(items[i])]
             /\ UNCHANGED gone
    <3>1. /\ Len(items') = Len(items)
          /\ items'[i].id = items[i].id /\ items'[i].attempts = items[i].attempts + 1
          /\ \A j \in 1..Len(items) : j # i => items'[j] = items[j]
      BY <2>3, BackOffItems
    <3>2. Buffered' = Buffered
      BY <3>1 DEF Buffered
    <3>3. Covered'
      <4> SUFFICES ASSUME NEW j \in 1..Len(items')
                   PROVE  items'[j].attempts <= fails'[items'[j].id]
        BY DEF Covered
      <4>1. CASE j = i
        BY <1>1, <1>4, <2>1, <3>1, <4>1
      <4>2. CASE j # i
        BY <1>1, <1>3, <3>1, <4>2 DEF Covered
      <4> QED BY <4>1, <4>2
    <3> QED BY <1>1, <1>3, <2>1, <2>3, <3>2, <3>3 DEF AckedSent, ExhaustedFailed, Unsent
  <2> QED BY <1>5, <1>6, <1>9, <2>2, <2>3 DEF MarkFailure
<1> QED BY <1>8, <1>9

(* Nothing is in flight yet. *)
LEMMA MarkInit == Init => MarkInv
<1> SUFFICES ASSUME Init PROVE MarkInv
  OBVIOUS
<1>1. items = <<>> /\ delivered = {} /\ pc = "idle" /\ gone = [way \in Ways |-> {}]
  BY DEF Init
<1>2. Buffered = {} /\ ~InFlight /\ gone["acked"] = {} /\ gone["exhausted"] = {}
  BY <1>1 DEF Buffered, InFlight, Ways
<1>3. Covered
  BY <1>1 DEF Covered
<1>4. Known
  BY <1>1, <1>2 DEF Known
<1> QED BY <1>2, <1>3, <1>4 DEF MarkInv, AckedSent, ExhaustedFailed, Aimed, Unsent

(* Every step keeps the marks right. *)
LEMMA MarkStep == TypeOK /\ OldestFirst /\ MarkInv /\ [Next]_vars => MarkInv'
BY PushMarks, QuietMarks, LookMarks, AnswerMarks, MarkMarks DEF Next, Worker

(* As long as no event was evicted or drained and no backoff ended while a *)
(* Send was out, ProcessBuffer removes and charges the event it sent: the  *)
(* loops of MarkSuccess and MarkFailure find the peeked event again, for   *)
(* any capacity, retry limit and backoff. (buffer.go ProcessBuffer,        *)
(* MarkSuccess, MarkFailure)                                               *)
THEOREM MarksTheRightEvent == Spec => []RightEventMarked
<1>1. Spec => [](TypeOK /\ OldestFirst /\ MarkInv)
  BY TypeInit, TypeStep, OrderInit, OrderStep, MarkInit, MarkStep, PTL DEF Spec
<1>2. MarkInv => RightEventMarked
  <2> SUFFICES ASSUME MarkInv, undisturbed
               PROVE  /\ gone["acked"] \subseteq delivered
                      /\ pc = "sending" => inflight \notin delivered
                      /\ \A e \in gone["exhausted"] : fails[e] >= MaxRetries
    BY DEF RightEventMarked
  <2>1. ASSUME pc = "sending"
        PROVE  inflight \in Buffered
    BY <2>1 DEF MarkInv, Aimed, InFlight, Buffered
  <2> QED BY <2>1 DEF MarkInv, AckedSent, ExhaustedFailed, Unsent
<1> QED BY <1>1, <1>2, PTL

=============================================================================

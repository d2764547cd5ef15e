--------------------------- MODULE AdapterProofs ---------------------------
(***************************************************************************)
(* Proofs about the OllinAI adapter: its emitter loses and doubles no      *)
(* event, for any producers, capacity and number of retries; the adapter   *)
(* uses the emitter as it is specified; a clean shutdown leaves no event   *)
(* of a webhook behind.  And about the reloading of its configuration:     *)
(* whatever the file contains when it is read, the active configuration is *)
(* valid, and no version of the file is loaded over and over.              *)
(***************************************************************************)
EXTENDS Adapter, ConfigReload, FiniteSetTheorems, TLAPS


-----------------------------------------------------------------------------
(* Items in sequences *)

(* no id twice *)
Distinct(items) == \A i, j \in 1..Len(items) : i # j => items[i].id # items[j].id

(* What an appended item adds. *)
LEMMA AppendItem ==
  ASSUME NEW items \in Seq(Item), NEW x \in Item
  PROVE  /\ Append(items, x) \in Seq(Item) /\ Len(Append(items, x)) = Len(items) + 1
         /\ IdsOf(Append(items, x)) = IdsOf(items) \cup {x.id}
         /\ Distinct(items) /\ x.id \notin IdsOf(items) => Distinct(Append(items, x))
<1> DEFINE more == Append(items, x)
<1>1. /\ more \in Seq(Item) /\ Len(more) = Len(items) + 1 /\ Len(items) \in Nat
      /\ \A i \in 1..Len(items) : more[i] = items[i]
      /\ more[Len(items) + 1] = x
  OBVIOUS
<1> HIDE DEF more
<1>2. IdsOf(more) = IdsOf(items) \cup {x.id}
  BY <1>1 DEF IdsOf
<1>3. ASSUME Distinct(items), x.id \notin IdsOf(items)
      PROVE  Distinct(more)
  BY <1>1, <1>3 DEF Distinct, IdsOf
<1> QED BY <1>1, <1>2, <1>3 DEF more

(* A stretch of a sequence, numbered anew. *)
LEMMA StretchOfItems ==
  ASSUME NEW items \in Seq(Item), NEW part \in Seq(Item), NEW k \in Nat,
         k + Len(part) <= Len(items), \A i \in 1..Len(part) : part[i] = items[i + k]
  PROVE  /\ IdsOf(part) = {items[i].id : i \in (k + 1)..(k + Len(part))}
         /\ Distinct(items) => Distinct(part)
<1>1. Len(part) \in Nat /\ Len(items) \in Nat
  OBVIOUS
<1>2. ASSUME NEW i \in (k + 1)..(k + Len(part))
      PROVE  items[i].id \in IdsOf(part)
  <2>1. i - k \in 1..Len(part) /\ (i - k) + k = i
    BY <1>1
  <2>2. part[i - k] = items[(i - k) + k]
    BY <2>1
  <2> QED BY <2>1, <2>2 DEF IdsOf
<1>3. ASSUME NEW i \in 1..Len(part)
      PROVE  /\ i + k \in 1..Len(items) /\ i + k \in (k + 1)..(k + Len(part))
             /\ part[i].id = items[i + k].id
  BY <1>1
<1> DEFINE stretch == {items[i].id : i \in (k + 1)..(k + Len(part))}
<1>4. IdsOf(part) = stretch
  <2>1. stretch \subseteq IdsOf(part)
    BY <1>2
  <2>2. IdsOf(part) \subseteq stretch
    <3> SUFFICES ASSUME NEW i \in 1..Len(part) PROVE part[i].id \in stretch
      BY DEF IdsOf
    <3> QED BY <1>3
  <2> QED BY <2>1, <2>2
<1>5. ASSUME Distinct(items)
      PROVE  Distinct(part)
  <2> SUFFICES ASSUME NEW i \in 1..Len(part), NEW j \in 1..Len(part), i # j
               PROVE  part[i].id # part[j].id
    BY DEF Distinct
  <2>1. i + k # j + k
    BY <1>1
  <2> QED BY <1>3, <1>5, <2>1 DEF Distinct
<1> QED BY <1>4, <1>5

(* What is left when the first item is gone. *)
LEMMA TailOfItems ==
  ASSUME NEW items \in Seq(Item), items # <<>>
  PROVE  /\ Tail(items) \in Seq(Item) /\ Len(Tail(items)) = Len(items) - 1
         /\ Head(items) \in Item /\ Head(items).id \in IdsOf(items)
         /\ IdsOf(items) = IdsOf(Tail(items)) \cup {Head(items).id}
         /\ Distinct(items) =>
              Distinct(Tail(items)) /\ Head(items).id \notin IdsOf(Tail(items))
<1> DEFINE less == Tail(items)
<1>1. /\ less \in Seq(Item) /\ Len(less) = Len(items) - 1 /\ Len(items) \in Nat \ {0}
      /\ \A i \in 1..Len(less) : less[i] = items[i + 1]
      /\ Head(items) = items[1] /\ items[1] \in Item
  OBVIOUS
<1> HIDE DEF less
<1>2. IdsOf(less) = {items[i].id : i \in 2..Len(items)} /\ (Distinct(items) => Distinct(less))
  BY <1>1, StretchOfItems, SMTT(30)
<1>3. 1..Len(items) = (2..Len(items)) \cup {1}
  BY <1>1
<1>4. IdsOf(items) = IdsOf(less) \cup {Head(items).id}
  <2>1. IdsOf(items) = {items[i].id : i \in (2..Len(items)) \cup {1}}
    BY <1>3 DEF IdsOf
  <2>2. items[1].id = Head(items).id
    BY <1>1
  <2> HIDE DEF less
  <2> QED BY <1>2, <2>1, <2>2
<1>5. Distinct(items) => Head(items).id \notin IdsOf(less)
  BY <1>1, <1>2, <1>3 DEF Distinct
<1> QED BY <1>1, <1>2, <1>4, <1>5 DEF less

(* The items from a position on. *)
LEMMA RestOfItems ==
  ASSUME NEW items \in Seq(Item), NEW n \in 1..(Len(items) + 1)
  PROVE  /\ Rest(items, n) \in Seq(Item)
         /\ Len(Rest(items, n)) = Len(items) - n + 1
         /\ IdsOf(Rest(items, n)) = {items[i].id : i \in n..Len(items)}
         /\ Distinct(items) => Distinct(Rest(items, n))
<1> DEFINE rest == Rest(items, n)
<1>1. Len(items) \in Nat /\ n \in Int
  OBVIOUS
<1>2. rest \in Seq(Item) /\ Len(rest) = Len(items) - n + 1
  BY <1>1 DEF Rest
<1>3. \A i \in 1..Len(rest) : rest[i] = items[i + (n - 1)]
  BY <1>1, <1>2 DEF Rest
<1> HIDE DEF rest
<1> DEFINE k == n - 1
<1>4. k \in Nat /\ k + Len(rest) <= Len(items) /\ k + 1 = n /\ k + Len(rest) = Len(items)
  BY <1>1, <1>2
<1>5. \A i \in 1..Len(rest) : rest[i] = items[i + k]
  BY <1>3
<1> HIDE DEF k
<1>6. /\ IdsOf(rest) = {items[i].id : i \in (k + 1)..(k + Len(rest))}
      /\ Distinct(items) => Distinct(rest)
  BY <1>2, <1>4, <1>5, StretchOfItems
<1> QED BY <1>2, <1>4, <1>6 DEF rest

(* One step of a flush takes the item at its position out of the rest. *)
LEMMA RestStep ==
  ASSUME NEW items \in Seq(Item), NEW n \in 1..Len(items)
  PROVE  /\ IdsOf(Rest(items, n)) = IdsOf(Rest(items, n + 1)) \cup {items[n].id}
         /\ Distinct(items) => items[n].id \notin IdsOf(Rest(items, n + 1))
<1>1. /\ IdsOf(Rest(items, n)) = {items[i].id : i \in n..Len(items)}
      /\ IdsOf(Rest(items, n + 1)) = {items[i].id : i \in (n + 1)..Len(items)}
  <2>1. n \in 1..(Len(items) + 1) /\ n + 1 \in 1..(Len(items) + 1)
    OBVIOUS
  <2> QED BY <2>1, RestOfItems
<1>2. n..Len(items) = ((n + 1)..Len(items)) \cup {n} /\ Len(items) \in Nat
  OBVIOUS
<1>3. ASSUME Distinct(items)
      PROVE  items[n].id \notin IdsOf(Rest(items, n + 1))
  BY <1>1, <1>2, <1>3 DEF Distinct
<1> QED BY <1>1, <1>2, <1>3

(* Two sequences without a common id, one behind the other. *)
LEMMA JoinedItems ==
  ASSUME NEW s \in Seq(Item), NEW t \in Seq(Item)
  PROVE  /\ s \o t \in Seq(Item) /\ Len(s \o t) = Len(s) + Len(t)
         /\ IdsOf(s \o t) = IdsOf(s) \cup IdsOf(t)
         /\ Distinct(s) /\ Distinct(t) /\ IdsOf(s) \cap IdsOf(t) = {} => Distinct(s \o t)
<1> DEFINE st == s \o t
<1>1. /\ st \in Seq(Item) /\ Len(st) = Len(s) + Len(t) /\ Len(s) \in Nat /\ Len(t) \in Nat
      /\ \A i \in 1..Len(s) : st[i] = s[i]
      /\ \A i \in 1..Len(t) : st[Len(s) + i] = t[i]
  OBVIOUS
<1> HIDE DEF st
<1>2. ASSUME NEW i \in 1..Len(st), i \notin 1..Len(s)
      PROVE  i - Len(s) \in 1..Len(t) /\ st[i] = t[i - Len(s)]
  <2>1. i - Len(s) \in 1..Len(t) /\ Len(s) + (i - Len(s)) = i
    BY <1>1, <1>2
  <2>2. st[Len(s) + (i - Len(s))] = t[i - Len(s)]
    BY <1>1, <2>1
  <2> QED BY <2>1, <2>2
<1>3. IdsOf(st) = IdsOf(s) \cup IdsOf(t)
  <2>1. IdsOf(s) \subseteq IdsOf(st)
    BY <1>1 DEF IdsOf
  <2>2. IdsOf(t) \subseteq IdsOf(st)
    <3> SUFFICES ASSUME NEW i \in 1..Len(t) PROVE t[i].id \in IdsOf(st)
      BY DEF IdsOf
    <3>1. Len(s) + i \in 1..Len(st)
      BY <1>1
    <3> QED BY <1>1, <3>1 DEF IdsOf
  <2>3. IdsOf(st) \subseteq IdsOf(s) \cup IdsOf(t)
    <3> SUFFICES ASSUME NEW i \in 1..Len(st) PROVE st[i].id \in IdsOf(s) \cup IdsOf(t)
      BY DEF IdsOf
    <3>1. CASE i \in 1..Len(s)
      BY <1>1, <3>1 DEF IdsOf
    <3>2. CASE i \notin 1..Len(s)
      BY <1>2, <3>2 DEF IdsOf
    <3> QED BY <3>1, <3>2
  <2> QED BY <2>1, <2>2, <2>3
<1>4. ASSUME Distinct(s), Distinct(t), IdsOf(s) \cap IdsOf(t) = {}
      PROVE  Distinct(st)
  <2> SUFFICES ASSUME NEW i \in 1..Len(st), NEW j \in 1..Len(st), i # j
               PROVE  st[i].id # st[j].id
    BY DEF Distinct
  <2>1. CASE i \in 1..Len(s) /\ j \in 1..Len(s)
    BY <1>1, <1>4, <2>1 DEF Distinct
  <2>2. CASE i \notin 1..Len(s) /\ j \notin 1..Len(s)
    <3>1. /\ i - Len(s) \in 1..Len(t) /\ st[i] = t[i - Len(s)]
          /\ j - Len(s) \in 1..Len(t) /\ st[j] = t[j - Len(s)]
      BY <1>2, <2>2
    <3>2. i - Len(s) # j - Len(s)
      BY <1>1
    <3> QED BY <1>4, <3>1, <3>2 DEF Distinct
  <2>3. CASE i \in 1..Len(s) /\ j \notin 1..Len(s)
    <3>1. st[i].id \in IdsOf(s)
      BY <1>1, <2>3 DEF IdsOf
    <3>2. st[j].id \in IdsOf(t)
      BY <1>2, <2>3 DEF IdsOf
    <3> QED BY <1>4, <3>1, <3>2
  <2>4. CASE i \notin 1..Len(s) /\ j \in 1..Len(s)
    <3>1. st[j].id \in IdsOf(s)
      BY <1>1, <2>4 DEF IdsOf
    <3>2. st[i].id \in IdsOf(t)
      BY <1>2, <2>4 DEF IdsOf
    <3> QED BY <1>4, <3>1, <3>2
  <2> QED BY <2>1, <2>2, <2>3, <2>4
<1> QED BY <1>1, <1>3, <1>4 DEF st

-----------------------------------------------------------------------------
(* The ledger of the emitted events 1..E: at NATS, held by the buffer,     *)
(* given up in some way, or in the hand of a producer                      *)

Booked(e, nats, held, given, hand) ==
  \/ e \in nats \/ e \in held
  \/ \E way \in Ways : e \in given[way]
  \/ \E p \in Producers : e \in hand[p]

Ledger(E, nats, held, given, hand) ==
  /\ E \in Nat
  /\ nats \subseteq 1..E /\ held \subseteq 1..E
  /\ given \in [Ways -> SUBSET (1..E)] /\ hand \in [Producers -> SUBSET (1..E)]
  /\ \A e \in 1..E : Booked(e, nats, held, given, hand)
  /\ nats \cap held = {}
  /\ \A way \in Ways : given[way] \cap (nats \cup held) = {}
  /\ \A way, other \in Ways : way # other => given[way] \cap given[other] = {}
  /\ \A p \in Producers : /\ hand[p] \cap (nats \cup held) = {}
                          /\ \A way \in Ways : hand[p] \cap given[way] = {}
  /\ \A p, q \in Producers : p # q => hand[p] \cap hand[q] = {}

(* A new event comes into the hand of its producer. *)
LEMMA IntoHand ==
  ASSUME NEW E, NEW nats, NEW held, NEW given, NEW hand,
         Ledger(E, nats, held, given, hand), NEW p \in Producers, hand[p] = {}
  PROVE  Ledger(E + 1, nats, held, given, [hand EXCEPT ![p] = {E + 1}])
<1>1. 1..(E + 1) = (1..E) \cup {E + 1} /\ E + 1 \notin 1..E
  BY DEF Ledger
<1> QED BY <1>1 DEF Ledger, Booked

(* The event in a hand goes to NATS ... *)
LEMMA HandToNATS ==
  ASSUME NEW E, NEW nats, NEW held, NEW given, NEW hand,
         Ledger(E, nats, held, given, hand), NEW p \in Producers, NEW e, hand[p] = {e}
  PROVE  Ledger(E, nats \cup {e}, held, given, [hand EXCEPT ![p] = {}])
BY DEF Ledger, Booked

(* ... or into the buffer ... *)
LEMMA HandToBuffer ==
  ASSUME NEW E, NEW nats, NEW held, NEW given, NEW hand,
         Ledger(E, nats, held, given, hand), NEW p \in Producers, NEW e, hand[p] = {e}
  PROVE  Ledger(E, nats, held \cup {e}, given, [hand EXCEPT ![p] = {}])
BY DEF Ledger, Booked

(* ... or is given up. *)
LEMMA HandToGone ==
  ASSUME NEW E, NEW nats, NEW held, NEW given, NEW hand,
         Ledger(E, nats, held, given, hand), NEW p \in Producers, NEW e, hand[p] = {e},
         NEW way \in Ways
  PROVE  Ledger(E, nats, held, [given EXCEPT ![way] = @ \cup {e}], [hand EXCEPT ![p] = {}])
BY DEF Ledger, Booked

(* An event of the buffer goes to NATS. *)
LEMMA BufferToNATS ==
  ASSUME NEW E, NEW nats, NEW held, NEW given, NEW hand,
         Ledger(E, nats, held, given, hand), NEW e \in held
  PROVE  Ledger(E, nats \cup {e}, held \ {e}, given, hand)
BY DEF Ledger, Booked

(* Events of the buffer are given up. *)
LEMMA BufferToGone ==
  ASSUME NEW E, NEW nats, NEW held, NEW given, NEW hand,
         Ledger(E, nats, held, given, hand), NEW S \in SUBSET held, NEW way \in Ways
  PROVE  Ledger(E, nats, held \ S, [given EXCEPT ![way] = @ \cup S], hand)
BY DEF Ledger, Booked

Hands == [p \in Producers |-> InHand(p)]
LedgerInv == Ledger(emitted, AtNATS, Buffered, gone, Hands)

(* A ledger that is kept has each emitted event in one place. *)
LEMMA OnePlace == emitted <= MaxEvents /\ LedgerInv => EachInOnePlace
<1> SUFFICES ASSUME emitted <= MaxEvents, LedgerInv, NEW e \in Ids
             PROVE  Cardinality(PlacesOf(e)) = IF e <= emitted THEN 1 ELSE 0
  BY DEF EachInOnePlace
<1> DEFINE ways  == {<<way>> : way \in {w \in Ways : e \in gone[w]}}
           hands == {<<"hand", p>> : p \in {q \in Producers : e \in InHand(q)}}
           nats  == {<<"nats">> : x \in {e} \cap AtNATS}
           held  == {<<"buffer">> : x \in {e} \cap Buffered}
<1>1. PlacesOf(e) = nats \cup held \cup ways \cup hands
  BY DEF PlacesOf
<1>2. /\ e \in AtNATS => nats = {<<"nats">>}
      /\ e \notin AtNATS => nats = {}
      /\ e \in Buffered => held = {<<"buffer">>}
      /\ e \notin Buffered => held = {}
  OBVIOUS
<1>3. /\ (\A way \in Ways : e \notin gone[way]) => ways = {}
      /\ (\A p \in Producers : e \notin Hands[p]) => hands = {}
  BY DEF Hands
<1>4. ASSUME NEW way \in Ways, e \in gone[way], \A w \in Ways : w # way => e \notin gone[w]
      PROVE  ways = {<<way>>}
  BY <1>4
<1>5. ASSUME NEW p \in Producers, e \in Hands[p], \A q \in Producers : q # p => e \notin Hands[q]
      PROVE  hands = {<<"hand", p>>}
  BY <1>5 DEF Hands
<1> HIDE DEF nats, held, ways, hands
<1>6. CASE e \notin 1..emitted
  <2>1. PlacesOf(e) = {}
    BY <1>1, <1>2, <1>3, <1>6 DEF LedgerInv, Ledger
  <2>2. ~(e <= emitted)
    BY <1>6 DEF LedgerInv, Ledger, Ids
  <2> QED BY <2>1, <2>2, FS_EmptySet
<1>7. CASE e \in 1..emitted
  <2>1. \E place : PlacesOf(e) = {place}
    <3>1. CASE e \in AtNATS
      BY <1>1, <1>2, <1>3, <3>1 DEF LedgerInv, Ledger
    <3>2. CASE e \in Buffered
      BY <1>1, <1>2, <1>3, <3>2 DEF LedgerInv, Ledger
    <3>3. ASSUME NEW way \in Ways, e \in gone[way]
          PROVE  PlacesOf(e) = {<<way>>}
      BY <1>1, <1>2, <1>3, <1>4, <3>3 DEF LedgerInv, Ledger
    <3>4. ASSUME NEW p \in Producers, e \in Hands[p]
          PROVE  PlacesOf(e) = {<<"hand", p>>}
      BY <1>1, <1>2, <1>3, <1>5, <3>4 DEF LedgerInv, Ledger
    <3>5. Booked(e, AtNATS, Buffered, gone, Hands)
      BY <1>7 DEF LedgerInv, Ledger
    <3> QED BY <3>1, <3>2, <3>3, <3>4, <3>5 DEF Booked
  <2>2. Cardinality(PlacesOf(e)) = 1
    BY <2>1, FS_Singleton
  <2>3. e <= emitted
    BY <1>7
  <2> QED BY <2>2, <2>3
<1> QED BY <1>6, <1>7

-----------------------------------------------------------------------------
(* The invariant of the emitter                                            *)

Hand == [pc : {"idle", "publish", "buffer"}, id : Ids \cup {0}]

ScalarsOK ==
  /\ connected \in BOOLEAN
  /\ dropped \in Nat
  /\ emitting \in [Producers -> Hand]
  /\ flushCtx \in {"live", "done"}
  /\ emitted \in 0..MaxEvents
  /\ malformed \subseteq 1..emitted

(* While a flush is on, what it has kept and what it has not looked at yet *)
(* are apart, and together no more than the buffer it began with.          *)
BufferOK ==
  /\ buffer \in Seq(Item) /\ Len(buffer) <= Capacity /\ Distinct(buffer)
  /\ flush \in [pc : {"idle", "item"}, next : Nat, remaining : Seq(Item)]
  /\ ~Unlocked =>
       /\ flush.next \in 1..(Len(buffer) + 1)
       /\ Len(flush.remaining) < flush.next
       /\ Distinct(flush.remaining)
       /\ IdsOf(flush.remaining) \cap IdsOf(Rest(buffer, flush.next)) = {}

PublishedOK ==
  /\ published \in Seq(Ids)
  /\ \A i, j \in 1..Len(published) : i # j => published[i] # published[j]

EmitterInv == ScalarsOK /\ BufferOK /\ PublishedOK /\ LedgerInv /\ DropsCounted

(* The ledger after a step, as far as the step changes it. *)
LEMMA SameLedger ==
  ASSUME LedgerInv, UNCHANGED <<emitted, published, gone, emitting>>, Buffered' = Buffered
  PROVE  LedgerInv'
BY DEF LedgerInv, AtNATS, Hands, InHand

(* The hand of a producer after its step. *)
LEMMA HandsAre ==
  ASSUME ScalarsOK, NEW p \in Producers, NEW new \in Hand,
         emitting' = [emitting EXCEPT ![p] = new]
  PROVE  Hands' = [Hands EXCEPT ![p] = IF new.pc = "idle" THEN {} ELSE {new.id}]
BY DEF ScalarsOK, Hands, InHand

(* A producer with an event holds one of the emitted events. *)
LEMMA HandHolds ==
  ASSUME ScalarsOK, LedgerInv, NEW p \in Producers, emitting[p].pc # "idle"
  PROVE  /\ Hands[p] = {emitting[p].id} /\ emitting[p].id \in 1..emitted
         /\ emitting[p].id \in Ids
<1>1. Hands[p] = {emitting[p].id}
  BY DEF Hands, InHand
<1>2. Hands[p] \subseteq 1..emitted
  BY DEF LedgerInv, Ledger
<1>3. 1..emitted \subseteq Ids
  BY EmitterAssumption DEF ScalarsOK, Ids
<1> QED BY <1>1, <1>2, <1>3

(* NATS accepts an event it does not have. *)
LEMMA PublishedGrows ==
  ASSUME PublishedOK, NEW e \in Ids, e \notin AtNATS, published' = Append(published, e)
  PROVE  PublishedOK' /\ AtNATS' = AtNATS \cup {e}
<1>1. /\ published' \in Seq(Ids) /\ Len(published') = Len(published) + 1
      /\ Len(published) \in Nat
      /\ \A i \in 1..Len(published) : published'[i] = published[i]
      /\ published'[Len(published) + 1] = e
  BY DEF PublishedOK
<1>2. AtNATS' = AtNATS \cup {e}
  <2>1. 1..Len(published') = (1..Len(published)) \cup {Len(published) + 1}
    BY <1>1
  <2> QED BY <1>1, <2>1 DEF AtNATS
<1>3. PublishedOK'
  BY <1>1 DEF PublishedOK, AtNATS
<1> QED BY <1>2, <1>3

(* A dropped event that was not dropped before is counted. *)
LEMMA DropCounts ==
  ASSUME LedgerInv, DropsCounted, dropped \in Nat, NEW way \in {"evicted", "exhausted"},
         NEW e \in 1..emitted, e \notin gone[way],
         CountDrop, Leaves(way, {e})
  PROVE  DropsCounted' /\ dropped' \in Nat
<1>1. /\ gone["evicted"] \subseteq 1..emitted /\ gone["exhausted"] \subseteq 1..emitted
      /\ gone \in [Ways -> SUBSET (1..emitted)] /\ way \in Ways
  BY DEF LedgerInv, Ledger, Ways
<1>2. IsFiniteSet(1..emitted)
  BY FS_Interval DEF LedgerInv, Ledger
<1>3. IsFiniteSet(gone["evicted"]) /\ IsFiniteSet(gone["exhausted"])
  BY <1>1, <1>2, FS_Subset
<1>4. /\ Cardinality(gone["evicted"]) \in Nat /\ Cardinality(gone["exhausted"]) \in Nat
      /\ Cardinality(gone[way] \cup {e}) = Cardinality(gone[way]) + 1
  BY <1>3, FS_CardinalityType, FS_AddElement
<1>5. gone' = [gone EXCEPT ![way] = @ \cup {e}] /\ dropped' = dropped + 1
  BY DEF Leaves, CountDrop
<1>6. CASE way = "evicted"
  <2>1. gone'["evicted"] = gone["evicted"] \cup {e} /\ gone'["exhausted"] = gone["exhausted"]
    BY <1>1, <1>5, <1>6 DEF Ways
  <2>2. Cardinality(gone'["evicted"]) = Cardinality(gone["evicted"]) + 1
    BY <1>4, <1>6, <2>1
  <2> QED BY <1>4, <1>5, <2>1, <2>2 DEF DropsCounted
<1>7. CASE way = "exhausted"
  <2>1. gone'["exhausted"] = gone["exhausted"] \cup {e} /\ gone'["evicted"] = gone["evicted"]
    BY <1>1, <1>5, <1>7 DEF Ways
  <2>2. Cardinality(gone'["exhausted"]) = Cardinality(gone["exhausted"]) + 1
    BY <1>4, <1>7, <2>1
  <2> QED BY <1>4, <1>5, <2>1, <2>2 DEF DropsCounted
<1> QED BY <1>6, <1>7

(* Another way of giving up events is not counted. *)
LEMMA NotADrop ==
  ASSUME LedgerInv, DropsCounted, dropped' = dropped, NEW way \in {"malformed", "refused", "drained"},
         NEW S, Leaves(way, S)
  PROVE  DropsCounted'
<1>1. gone \in [Ways -> SUBSET (1..emitted)]
  BY DEF LedgerInv, Ledger
<1>2. gone'["evicted"] = gone["evicted"] /\ gone'["exhausted"] = gone["exhausted"]
  BY <1>1 DEF Leaves, Ways
<1> QED BY <1>2 DEF DropsCounted

-----------------------------------------------------------------------------
(* One lemma per step of the emitter *)

(* A connection comes or goes; a deadline passes. *)
LEMMA ConnectionStep ==
  EmitterInv /\ (Connect \/ Disconnect \/ FlushDeadline \/ UNCHANGED vars) => EmitterInv'
<1> SUFFICES ASSUME EmitterInv, Connect \/ Disconnect \/ FlushDeadline \/ UNCHANGED vars
             PROVE  EmitterInv'
  OBVIOUS
<1>1. /\ UNCHANGED <<buffer, dropped, emitting, flush, emitted, malformed, published, gone>>
      /\ connected' \in BOOLEAN /\ flushCtx' \in {"live", "done"}
  BY DEF Connect, Disconnect, FlushDeadline, vars, emitVars, EmitterInv, ScalarsOK
<1>2. Buffered' = Buffered
  BY <1>1 DEF Buffered, Unlocked, IdsOf, Rest
<1>3. LedgerInv'
  BY <1>1, <1>2, SameLedger DEF EmitterInv
<1>4. BufferOK'
  BY <1>1 DEF EmitterInv, BufferOK, Unlocked
<1> QED BY <1>1, <1>3, <1>4 DEF EmitterInv, ScalarsOK, PublishedOK, DropsCounted

(* Emit begins. *)
LEMMA EmitStartStep ==
  ASSUME EmitterInv, NEW p \in Producers, NEW bad \in BOOLEAN, EmitStart(p, bad)
  PROVE  EmitterInv'
<1> DEFINE new == [pc |-> IF connected THEN "publish" ELSE "buffer", id |-> emitted + 1]
<1> USE DEF EmitterInv
<1>1. /\ emitted' = emitted + 1 /\ emitted' \in 0..MaxEvents /\ emitted + 1 \in Ids
      /\ emitting' = [emitting EXCEPT ![p] = new]
      /\ UNCHANGED <<connected, buffer, dropped, flush, flushCtx, published, gone>>
      /\ emitting[p].pc = "idle"
  BY EmitterAssumption DEF EmitStart, ScalarsOK, Ids
<1>2. new \in Hand /\ new.pc # "idle" /\ new.id = emitted + 1
  BY <1>1 DEF Hand
<1> HIDE DEF new
<1>3. ScalarsOK'
  <2>1. malformed' \subseteq 1..emitted'
    BY <1>1 DEF EmitStart, ScalarsOK
  <2>2. emitting' \in [Producers -> Hand]
    BY <1>1, <1>2 DEF ScalarsOK
  <2> QED BY <1>1, <2>1, <2>2 DEF ScalarsOK
<1>4. Hands' = [Hands EXCEPT ![p] = {emitted + 1}]
  BY <1>1, <1>2, HandsAre
<1>5. Hands[p] = {}
  BY <1>1 DEF Hands, InHand
<1>6. AtNATS' = AtNATS /\ Buffered' = Buffered
  BY <1>1 DEF AtNATS, Buffered, Unlocked, IdsOf, Rest
<1>7. LedgerInv'
  BY <1>1, <1>4, <1>5, <1>6, IntoHand DEF LedgerInv
<1>8. BufferOK'
  BY <1>1 DEF BufferOK, Unlocked
<1> QED BY <1>1, <1>3, <1>7, <1>8 DEF PublishedOK, DropsCounted

(* NATS accepts the event, or the producer goes on to the buffer. *)
LEMMA EmitPublishStep ==
  ASSUME EmitterInv, NEW p \in Producers, EmitPublish(p)
  PROVE  EmitterInv'
<1> DEFINE id == emitting[p].id
<1> USE DEF EmitterInv
<1>1. /\ emitting[p].pc = "publish"
      /\ UNCHANGED <<connected, buffer, dropped, flush, flushCtx, emitted, malformed>>
  BY DEF EmitPublish
<1>2. Hands[p] = {id} /\ id \in 1..emitted /\ id \in Ids
  BY <1>1, HandHolds
<1>3. Buffered' = Buffered /\ BufferOK'
  BY <1>1 DEF Buffered, Unlocked, BufferOK
<1>4. Idle \in Hand /\ Idle.pc = "idle"
  BY DEF Idle, Hand
<1>5. CASE /\ emitting' = [emitting EXCEPT ![p] = Idle]
           /\ \/ Leaves("refused", {id}) /\ UNCHANGED published
              \/ published' = Append(published, id) /\ UNCHANGED gone
  <2>1. Hands' = [Hands EXCEPT ![p] = {}]
    BY <1>4, <1>5, HandsAre
  <2>2. ScalarsOK'
    BY <1>1, <1>4, <1>5 DEF ScalarsOK
  <2>3. CASE Leaves("refused", {id}) /\ UNCHANGED published
    <3>1. AtNATS' = AtNATS /\ PublishedOK'
      BY <2>3 DEF AtNATS, PublishedOK
    <3>2. gone' = [gone EXCEPT !["refused"] = @ \cup {id}] /\ "refused" \in Ways
      BY <2>3 DEF Leaves, Ways
    <3>3. LedgerInv'
      BY <1>1, <1>2, <1>3, <2>1, <3>1, <3>2, HandToGone DEF LedgerInv
    <3>4. DropsCounted'
      BY <1>1, <2>3, NotADrop
    <3> QED BY <1>3, <2>2, <3>1, <3>3, <3>4
  <2>4. CASE published' = Append(published, id) /\ UNCHANGED gone
    <3>1. id \notin AtNATS
      BY <1>2 DEF LedgerInv, Ledger
    <3>2. AtNATS' = AtNATS \cup {id} /\ PublishedOK'
      BY <1>2, <2>4, <3>1, PublishedGrows
    <3>3. LedgerInv'
      BY <1>1, <1>2, <1>3, <2>1, <2>4, <3>2, HandToNATS DEF LedgerInv
    <3> QED BY <1>1, <1>3, <2>2, <2>4, <3>2, <3>3 DEF DropsCounted
  <2> QED BY <1>5, <2>3, <2>4
<1>6. CASE emitting' = [emitting EXCEPT ![p].pc = "buffer"] /\ UNCHANGED <<published, gone>>
  <2> DEFINE new == [pc |-> "buffer", id |-> id]
  <2>1. emitting[p] \in Hand /\ new \in Hand /\ new.pc # "idle" /\ new.id = id
    BY <1>2 DEF ScalarsOK, Hand
  <2>2. emitting' = [emitting EXCEPT ![p] = new]
    BY <1>6, <2>1 DEF ScalarsOK, Hand
  <2> HIDE DEF new
  <2>3. Hands' = [Hands EXCEPT ![p] = {id}]
    BY <2>1, <2>2, HandsAre
  <2>4. Hands' = Hands
    BY <1>2, <2>3 DEF Hands
  <2>5. LedgerInv' /\ PublishedOK' /\ DropsCounted'
    BY <1>1, <1>3, <1>6, <2>4 DEF LedgerInv, AtNATS, PublishedOK, DropsCounted
  <2>6. ScalarsOK'
    BY <1>1, <2>1, <2>2 DEF ScalarsOK
  <2> QED BY <1>3, <2>5, <2>6
<1>7. \/ /\ emitting' = [emitting EXCEPT ![p] = Idle]
         /\ \/ Leaves("refused", {id}) /\ UNCHANGED published
            \/ published' = Append(published, id) /\ UNCHANGED gone
      \/ emitting' = [emitting EXCEPT ![p].pc = "buffer"] /\ UNCHANGED <<published, gone>>
  BY DEF EmitPublish
<1> QED BY <1>5, <1>6, <1>7

(* An event goes into the buffer, which may evict its oldest one. *)
LEMMA EmitBufferStep ==
  ASSUME EmitterInv, NEW p \in Producers, EmitBuffer(p)
  PROVE  EmitterInv'
<1> DEFINE id  == emitting[p].id
           new == NewItem(id)
<1> USE DEF EmitterInv
<1>1. /\ emitting[p].pc = "buffer" /\ Unlocked
      /\ emitting' = [emitting EXCEPT ![p] = Idle]
      /\ UNCHANGED <<connected, flush, flushCtx, emitted, malformed, published>>
  BY DEF EmitBuffer
<1>2. Hands[p] = {id} /\ id \in 1..emitted /\ id \in Ids
  BY <1>1, HandHolds
<1>3. new \in Item /\ new.id = id
  BY <1>2, EmitterAssumption DEF NewItem, Item
<1>4. Idle \in Hand /\ Idle.pc = "idle"
  BY DEF Idle, Hand
<1>5. Hands' = [Hands EXCEPT ![p] = {}]
  BY <1>1, <1>4, HandsAre
<1>6. Unlocked' /\ Buffered = IdsOf(buffer) /\ Buffered' = IdsOf(buffer')
  BY <1>1 DEF Unlocked, Buffered
<1>7. AtNATS' = AtNATS /\ PublishedOK'
  BY <1>1 DEF AtNATS, PublishedOK
<1>8. id \notin Buffered
  BY <1>2 DEF LedgerInv, Ledger
<1> HIDE DEF new
<1>9. /\ buffer \in Seq(Item) /\ Len(buffer) <= Capacity /\ Distinct(buffer)
      /\ Len(buffer) \in Nat /\ Capacity \in Nat \ {0}
  BY EmitterAssumption DEF BufferOK
<1>10. CASE /\ Len(buffer) >= Capacity
            /\ buffer' = Append(Tail(buffer), new)
            /\ CountDrop
            /\ Leaves("evicted", {Head(buffer).id})
  <2> DEFINE old == Head(buffer).id
             less == Tail(buffer)
  <2>1. buffer # <<>>
    BY <1>9, <1>10
  <2>2. /\ less \in Seq(Item) /\ Len(less) = Len(buffer) - 1
        /\ old \in IdsOf(buffer) /\ IdsOf(buffer) = IdsOf(less) \cup {old}
        /\ Distinct(less) /\ old \notin IdsOf(less)
    BY <1>9, <2>1, TailOfItems
  <2>3. buffer' = Append(less, new) /\ gone' = [gone EXCEPT !["evicted"] = @ \cup {old}]
    BY <1>10 DEF Leaves
  <2>4. old \in Buffered /\ IdsOf(less) = Buffered \ {old}
    BY <1>6, <2>2
  <2>5. old \in 1..emitted /\ old \notin gone["evicted"] /\ "evicted" \in Ways
    BY <2>4 DEF LedgerInv, Ledger, Ways
  <2>6. DropsCounted' /\ dropped' \in Nat
    BY <1>10, <2>5, DropCounts DEF ScalarsOK
  <2> HIDE DEF old, less
  <2>7. /\ buffer' \in Seq(Item) /\ Len(buffer') = Len(less) + 1
        /\ IdsOf(buffer') = IdsOf(less) \cup {id} /\ Distinct(buffer')
    <3>1. new.id \notin IdsOf(less)
      BY <1>3, <1>8, <2>4
    <3> QED BY <1>3, <2>2, <2>3, <3>1, AppendItem
  <2>8. LedgerInv'
    <3>1. Ledger(emitted, AtNATS, Buffered \ {old}, gone', Hands)
      BY <2>3, <2>4, <2>5, BufferToGone DEF LedgerInv
    <3>2. Ledger(emitted, AtNATS, (Buffered \ {old}) \cup {id}, gone', Hands')
      BY <1>2, <1>5, <3>1, HandToBuffer
    <3> QED BY <1>1, <1>6, <1>7, <2>4, <2>7, <3>2 DEF LedgerInv
  <2>9. ScalarsOK'
    BY <1>1, <1>4, <2>6 DEF ScalarsOK
  <2>10. BufferOK'
    BY <1>1, <1>6, <1>9, <2>2, <2>7 DEF BufferOK
  <2> QED BY <1>7, <2>6, <2>8, <2>9, <2>10
<1>11. CASE /\ Len(buffer) < Capacity
            /\ buffer' = Append(buffer, new)
            /\ UNCHANGED <<dropped, gone>>
  <2>1. /\ buffer' \in Seq(Item) /\ Len(buffer') = Len(buffer) + 1
        /\ IdsOf(buffer') = IdsOf(buffer) \cup {id} /\ Distinct(buffer')
    BY <1>3, <1>6, <1>8, <1>9, <1>11, AppendItem
  <2>2. LedgerInv'
    <3>1. Ledger(emitted, AtNATS, Buffered \cup {id}, gone, Hands')
      BY <1>2, <1>5, HandToBuffer DEF LedgerInv
    <3> QED BY <1>1, <1>6, <1>7, <1>11, <2>1, <3>1 DEF LedgerInv
  <2>3. ScalarsOK' /\ DropsCounted'
    BY <1>1, <1>4, <1>11 DEF ScalarsOK, DropsCounted
  <2>4. BufferOK'
    BY <1>1, <1>6, <1>9, <1>11, <2>1 DEF BufferOK
  <2> QED BY <1>7, <2>2, <2>3, <2>4
<1> QED BY <1>10, <1>11 DEF EmitBuffer, new

(* The buffer is drained. *)
LEMMA DrainStep ==
  ASSUME EmitterInv, DrainBuffer
  PROVE  EmitterInv'
<1> USE DEF EmitterInv
<1>1. /\ Unlocked /\ buffer' = <<>> /\ Leaves("drained", IdsOf(buffer))
      /\ UNCHANGED <<connected, dropped, emitting, flush, flushCtx, emitted, malformed, published>>
  BY DEF DrainBuffer
<1>2. IdsOf(<<>>) = {} /\ Distinct(<<>>) /\ <<>> \in Seq(Item) /\ Len(<<>>) = 0
  BY DEF IdsOf, Distinct
<1>3. Unlocked' /\ Buffered = IdsOf(buffer) /\ Buffered' = {}
  BY <1>1, <1>2 DEF Unlocked, Buffered
<1>4. LedgerInv'
  <2>1. gone' = [gone EXCEPT !["drained"] = @ \cup IdsOf(buffer)] /\ "drained" \in Ways
    BY <1>1 DEF Leaves, Ways
  <2>2. Ledger(emitted, AtNATS, Buffered \ IdsOf(buffer), gone', Hands)
    BY <1>3, <2>1, BufferToGone DEF LedgerInv
  <2>3. Buffered' = Buffered \ IdsOf(buffer)
    BY <1>3
  <2> QED BY <1>1, <2>2, <2>3 DEF LedgerInv, AtNATS, Hands, InHand
<1>5. DropsCounted'
  BY <1>1, NotADrop
<1>6. BufferOK'
  BY <1>1, <1>2, <1>3, EmitterAssumption DEF BufferOK
<1> QED BY <1>1, <1>4, <1>5, <1>6 DEF ScalarsOK, PublishedOK

(* A flush begins with the whole buffer before it. *)
LEMMA FlushStartStep ==
  ASSUME EmitterInv, FlushStart
  PROVE  EmitterInv'
<1> USE DEF EmitterInv
<1>1. /\ Unlocked /\ flush' = [pc |-> "item", next |-> 1, remaining |-> <<>>]
      /\ flushCtx' = "live"
      /\ UNCHANGED <<connected, buffer, dropped, emitting, emitted, malformed, published, gone>>
  BY DEF FlushStart
<1>2. /\ flush'.pc = "item" /\ flush'.next = 1 /\ flush'.remaining = <<>> /\ ~Unlocked'
      /\ flush' \in [pc : {"idle", "item"}, next : Nat, remaining : Seq(Item)]
  BY <1>1 DEF Unlocked
<1>3. IdsOf(<<>>) = {} /\ Distinct(<<>>) /\ Len(<<>>) = 0
  BY DEF IdsOf, Distinct
<1>4. buffer \in Seq(Item) /\ Len(buffer) \in Nat
  BY DEF BufferOK
<1>5. IdsOf(Rest(buffer, 1)) = IdsOf(buffer)
  <2>1. 1 \in 1..(Len(buffer) + 1) /\ buffer \in Seq(Item)
    BY <1>4
  <2> HIDE DEF EmitterInv
  <2>2. IdsOf(Rest(buffer, 1)) = {buffer[i].id : i \in 1..Len(buffer)}
    BY <2>1, RestOfItems
  <2> QED BY <2>2 DEF IdsOf
<1>6. Buffered' = Buffered
  BY <1>1, <1>2, <1>3, <1>5 DEF Buffered
<1>7. LedgerInv'
  BY <1>1, <1>6, SameLedger
<1>8. BufferOK'
  BY <1>1, <1>2, <1>3, <1>4 DEF BufferOK
<1> QED BY <1>1, <1>7, <1>8 DEF ScalarsOK, PublishedOK, DropsCounted

(* One event of the buffer: given up, published, or kept for a retry. *)
LEMMA FlushItemStep ==
  ASSUME EmitterInv, FlushItem
  PROVE  EmitterInv'
<1> DEFINE n    == flush.next
           item == buffer[n]
           kept == flush.remaining
           rest == IdsOf(Rest(buffer, n))
           then == IdsOf(Rest(buffer, n + 1))
           skip == [flush EXCEPT !.next = @ + 1]
           again == [id |-> item.id, attempts |-> item.attempts + 1]
<1> USE DEF EmitterInv
<1>1. /\ flush.pc = "item" /\ ~Unlocked /\ n <= Len(buffer) /\ flushCtx = "live"
      /\ UNCHANGED <<connected, buffer, emitting, flushCtx, emitted, malformed>>
  BY DEF FlushItem, Unlocked
<1>2. /\ buffer \in Seq(Item) /\ Len(buffer) \in Nat /\ Distinct(buffer)
      /\ n \in 1..Len(buffer) /\ n \in Nat /\ Len(kept) < n
      /\ kept \in Seq(Item) /\ Len(kept) \in Nat /\ Distinct(kept)
      /\ IdsOf(kept) \cap rest = {}
      /\ flush \in [pc : {"idle", "item"}, next : Nat, remaining : Seq(Item)]
  BY <1>1 DEF BufferOK
<1>3. item \in Item
  BY <1>2
<1>4. item.id \in Ids /\ item.attempts \in 0..(MaxRetries - 1)
  BY <1>3 DEF Item
<1>5. rest = then \cup {item.id} /\ item.id \notin then
  BY <1>2, RestStep
<1>6. Buffered = IdsOf(kept) \cup rest
  BY <1>1 DEF Buffered
<1>7. /\ skip \in [pc : {"idle", "item"}, next : Nat, remaining : Seq(Item)]
      /\ skip.pc = "item" /\ skip.next = n + 1 /\ skip.remaining = kept
  BY <1>1, <1>2
<1>8. item.id \in Buffered /\ item.id \in 1..emitted
  BY <1>5, <1>6 DEF LedgerInv, Ledger
<1>9. Hands' = Hands
  BY <1>1 DEF Hands, InHand
<1> HIDE DEF rest, then, skip, item, kept, n
<1>10. ASSUME flush' = skip
       PROVE  Buffered' = Buffered \ {item.id} /\ BufferOK'
  <2>1. flush'.pc = "item" /\ flush'.next = n + 1 /\ flush'.remaining = kept /\ ~Unlocked'
    BY <1>7, <1>10 DEF Unlocked
  <2>2. IdsOf(Rest(buffer', flush'.next)) = then /\ IdsOf(flush'.remaining) = IdsOf(kept)
    BY <1>1, <2>1 DEF then
  <2>3. Buffered' = IdsOf(kept) \cup then
    BY <2>1, <2>2 DEF Buffered
  <2>4. Buffered' = Buffered \ {item.id}
    BY <1>2, <1>5, <1>6, <2>3
  <2>5. BufferOK'
    <3>1. /\ flush' \in [pc : {"idle", "item"}, next : Nat, remaining : Seq(Item)]
          /\ flush'.next \in 1..(Len(buffer) + 1) /\ Len(flush'.remaining) < flush'.next
          /\ IdsOf(flush'.remaining) \cap IdsOf(Rest(buffer', flush'.next)) = {}
          /\ Distinct(flush'.remaining)
      BY <1>2, <1>5, <1>7, <1>10, <2>1, <2>2
    <3>2. /\ buffer' \in Seq(Item) /\ Len(buffer') <= Capacity /\ Distinct(buffer')
          /\ Len(buffer') = Len(buffer)
      BY <1>1 DEF BufferOK
    <3> QED BY <2>1, <3>1, <3>2 DEF BufferOK
  <2> QED BY <2>4, <2>5
<1>11. ASSUME flush' = skip, UNCHANGED <<dropped, published>>, Leaves("malformed", {item.id})
       PROVE  EmitterInv'
  <2>1. gone' = [gone EXCEPT !["malformed"] = @ \cup {item.id}] /\ "malformed" \in Ways
    BY <1>11 DEF Leaves, Ways
  <2>2. Ledger(emitted, AtNATS, Buffered \ {item.id}, gone', Hands)
    BY <1>8, <2>1, BufferToGone DEF LedgerInv
  <2>3. LedgerInv'
    BY <1>1, <1>9, <1>10, <1>11, <2>2 DEF LedgerInv, AtNATS
  <2>4. DropsCounted'
    BY <1>11, NotADrop
  <2> QED BY <1>1, <1>10, <1>11, <2>3, <2>4 DEF ScalarsOK, PublishedOK
<1>12. ASSUME flush' = skip, published' = Append(published, item.id), UNCHANGED <<dropped, gone>>
       PROVE  EmitterInv'
  <2>1. item.id \notin AtNATS
    BY <1>8 DEF LedgerInv, Ledger
  <2>2. PublishedOK' /\ AtNATS' = AtNATS \cup {item.id}
    BY <1>4, <1>12, <2>1, PublishedGrows
  <2>3. Ledger(emitted, AtNATS \cup {item.id}, Buffered \ {item.id}, gone, Hands)
    BY <1>8, BufferToNATS DEF LedgerInv
  <2>4. LedgerInv'
    BY <1>1, <1>9, <1>10, <1>12, <2>2, <2>3 DEF LedgerInv
  <2> QED BY <1>1, <1>10, <1>12, <2>2, <2>4 DEF ScalarsOK, DropsCounted
<1>13. ASSUME flush' = skip, CountDrop, Leaves("exhausted", {item.id}), UNCHANGED published
       PROVE  EmitterInv'
  <2>1. gone' = [gone EXCEPT !["exhausted"] = @ \cup {item.id}] /\ "exhausted" \in Ways
    BY <1>13 DEF Leaves, Ways
  <2>2. Ledger(emitted, AtNATS, Buffered \ {item.id}, gone', Hands)
    BY <1>8, <2>1, BufferToGone DEF LedgerInv
  <2>3. LedgerInv'
    BY <1>1, <1>9, <1>10, <1>13, <2>2 DEF LedgerInv, AtNATS
  <2>4. item.id \notin gone["exhausted"]
    BY <1>8, <2>1 DEF LedgerInv, Ledger
  <2>5. DropsCounted' /\ dropped' \in Nat
    BY <1>8, <1>13, <2>4, DropCounts DEF ScalarsOK
  <2> QED BY <1>1, <1>10, <1>13, <2>3, <2>5 DEF ScalarsOK, PublishedOK
<1>14. ASSUME ~Exhausted(item.attempts + 1),
              flush' = [skip EXCEPT !.remaining = Append(@, again)],
              UNCHANGED <<dropped, published, gone>>
       PROVE  EmitterInv'
  <2>1. again \in Item /\ again.id = item.id
    BY <1>4, <1>14, EmitterAssumption DEF Exhausted, Item
  <2> HIDE DEF again
  <2>2. item.id \notin IdsOf(kept)
    BY <1>2, <1>5
  <2>3. /\ Append(kept, again) \in Seq(Item) /\ Len(Append(kept, again)) = Len(kept) + 1
        /\ IdsOf(Append(kept, again)) = IdsOf(kept) \cup {item.id}
        /\ Distinct(Append(kept, again))
    BY <1>2, <2>1, <2>2, AppendItem
  <2>4. /\ flush' \in [pc : {"idle", "item"}, next : Nat, remaining : Seq(Item)]
        /\ flush'.pc = "item" /\ flush'.next = n + 1 /\ flush'.remaining = Append(kept, again)
        /\ ~Unlocked'
    BY <1>7, <1>14, <2>3 DEF Unlocked
  <2>5. IdsOf(Rest(buffer', flush'.next)) = then
    BY <1>1, <2>4 DEF then
  <2>6. Buffered' = Buffered
    BY <1>5, <1>6, <2>3, <2>4, <2>5 DEF Buffered
  <2>7. LedgerInv'
    BY <1>1, <1>14, <2>6, SameLedger
  <2>8. BufferOK'
    <3>1. /\ flush'.next \in 1..(Len(buffer) + 1) /\ Len(flush'.remaining) < flush'.next
          /\ IdsOf(flush'.remaining) \cap IdsOf(Rest(buffer', flush'.next)) = {}
          /\ Distinct(flush'.remaining)
      BY <1>2, <1>5, <2>3, <2>4, <2>5
    <3>2. /\ buffer' \in Seq(Item) /\ Len(buffer') <= Capacity /\ Distinct(buffer')
          /\ Len(buffer') = Len(buffer)
      BY <1>1 DEF BufferOK
    <3> QED BY <2>4, <3>1, <3>2 DEF BufferOK
  <2> QED BY <1>1, <1>14, <2>7, <2>8 DEF ScalarsOK, PublishedOK, DropsCounted
<1>15. \/ flush' = skip /\ UNCHANGED <<dropped, published>> /\ Leaves("malformed", {item.id})
       \/ flush' = skip /\ published' = Append(published, item.id) /\ UNCHANGED <<dropped, gone>>
       \/ /\ flush' = skip /\ CountDrop
          /\ Leaves("exhausted", {item.id}) /\ UNCHANGED published
       \/ /\ ~Exhausted(item.attempts + 1)
          /\ flush' = [skip EXCEPT !.remaining = Append(@, again)]
          /\ UNCHANGED <<dropped, published, gone>>
  BY DEF FlushItem, item, n, skip
<1> QED BY <1>11, <1>12, <1>13, <1>14, <1>15

(* A flush ends, with what it kept and, when cut short, with the rest. *)
LEMMA FlushEndStep ==
  ASSUME EmitterInv, FlushEnd \/ FlushCancelled
  PROVE  EmitterInv'
<1> DEFINE n    == flush.next
           kept == flush.remaining
           rest == Rest(buffer, n)
<1> USE DEF EmitterInv
<1>1. /\ flush.pc = "item" /\ ~Unlocked /\ flush' = NoFlush /\ flushCtx' = "live"
      /\ UNCHANGED <<connected, dropped, emitting, emitted, malformed, published, gone>>
  BY DEF FlushEnd, FlushCancelled, Unlocked
<1>2. /\ buffer \in Seq(Item) /\ Len(buffer) \in Nat /\ Distinct(buffer)
      /\ Len(buffer) <= Capacity /\ Capacity \in Nat
      /\ n \in 1..(Len(buffer) + 1) /\ Len(kept) < n
      /\ kept \in Seq(Item) /\ Len(kept) \in Nat /\ Distinct(kept)
      /\ IdsOf(kept) \cap IdsOf(rest) = {}
  BY <1>1, EmitterAssumption DEF BufferOK
<1>3. rest \in Seq(Item) /\ Len(rest) = Len(buffer) - n + 1 /\ Distinct(rest)
  BY <1>2, RestOfItems
<1>4. Buffered = IdsOf(kept) \cup IdsOf(rest)
  BY <1>1 DEF Buffered
<1>5. /\ flush' \in [pc : {"idle", "item"}, next : Nat, remaining : Seq(Item)] /\ Unlocked'
      /\ Buffered' = IdsOf(buffer')
  <2>1. NoFlush \in [pc : {"idle", "item"}, next : Nat, remaining : Seq(Item)]
    <3>1. <<>> \in Seq(Item)
      OBVIOUS
    <3> QED BY <3>1 DEF NoFlush
  <2>2. Unlocked'
    BY <1>1 DEF Unlocked, NoFlush
  <2> QED BY <1>1, <2>1, <2>2 DEF Buffered
<1> HIDE DEF rest, kept, n
<1>6. /\ buffer' \in Seq(Item) /\ Len(buffer') <= Capacity /\ Distinct(buffer')
      /\ IdsOf(buffer') = IdsOf(kept) \cup IdsOf(rest)
  <2>1. CASE FlushEnd
    <3>1. buffer' = kept /\ n > Len(buffer)
      BY <2>1 DEF FlushEnd, kept, n
    <3>2. Len(rest) = 0 /\ IdsOf(rest) = {}
      <4>1. Len(rest) = 0
        BY <1>2, <1>3, <3>1
      <4> QED BY <4>1 DEF IdsOf
    <3> QED BY <1>2, <3>1, <3>2
  <2>2. CASE FlushCancelled
    <3>1. buffer' = kept \o rest
      BY <2>2 DEF FlushCancelled, kept, rest, n
    <3>2. /\ kept \o rest \in Seq(Item) /\ Len(kept \o rest) = Len(kept) + Len(rest)
          /\ IdsOf(kept \o rest) = IdsOf(kept) \cup IdsOf(rest) /\ Distinct(kept \o rest)
      BY <1>2, <1>3, JoinedItems
    <3> QED BY <1>2, <1>3, <3>1, <3>2
  <2> QED BY <2>1, <2>2
<1>7. LedgerInv'
  BY <1>1, <1>4, <1>5, <1>6, SameLedger
<1>8. BufferOK'
  BY <1>5, <1>6 DEF BufferOK
<1> QED BY <1>1, <1>7, <1>8 DEF ScalarsOK, PublishedOK, DropsCounted

-----------------------------------------------------------------------------
(* The emitter                                                             *)

(* Nothing has been emitted yet. *)
LEMMA EmitterInit == Init => EmitterInv
<1> SUFFICES ASSUME Init PROVE EmitterInv
  OBVIOUS
<1>1. IdsOf(<<>>) = {} /\ Distinct(<<>>) /\ Len(<<>>) = 0 /\ <<>> \in Seq(Item) /\ <<>> \in Seq(Ids)
  BY DEF IdsOf, Distinct
<1>2. /\ connected \in BOOLEAN /\ buffer = <<>> /\ dropped = 0 /\ flush = NoFlush
      /\ emitting = [p \in Producers |-> Idle] /\ flushCtx = "live" /\ emitted = 0
      /\ malformed = {} /\ published = <<>> /\ gone = [way \in Ways |-> {}]
  BY DEF Init
<1>3. Idle \in Hand /\ Idle.pc = "idle"
  BY DEF Idle, Hand
<1>4. ScalarsOK
  BY <1>2, <1>3, EmitterAssumption DEF ScalarsOK
<1>5. Unlocked /\ flush \in [pc : {"idle", "item"}, next : Nat, remaining : Seq(Item)]
  BY <1>1, <1>2 DEF Unlocked, NoFlush
<1>6. BufferOK
  BY <1>1, <1>2, <1>5, EmitterAssumption DEF BufferOK
<1>7. PublishedOK /\ AtNATS = {} /\ Buffered = {}
  BY <1>1, <1>2, <1>5 DEF PublishedOK, AtNATS, Buffered
<1>8. Hands = [p \in Producers |-> {}]
  BY <1>2, <1>3 DEF Hands, InHand
<1>9. LedgerInv
  <2>1. \A e \in 1..emitted : FALSE
    BY <1>2
  <2> QED BY <1>2, <1>7, <1>8, <2>1 DEF LedgerInv, Ledger
<1>10. DropsCounted
  <2>1. gone["evicted"] = {} /\ gone["exhausted"] = {}
    BY <1>2 DEF Ways
  <2>2. Cardinality(gone["evicted"]) = 0 /\ Cardinality(gone["exhausted"]) = 0
    BY <2>1, FS_EmptySet
  <2> QED BY <1>2, <2>2 DEF DropsCounted
<1> QED BY <1>4, <1>6, <1>7, <1>9, <1>10 DEF EmitterInv

(* Every step of the emitter keeps its invariant. *)
LEMMA EmitterStep == EmitterInv /\ [Next]_vars => EmitterInv'
<1> SUFFICES ASSUME EmitterInv, [Next]_vars PROVE EmitterInv'
  OBVIOUS
<1>1. CASE Connect \/ Disconnect \/ FlushDeadline \/ UNCHANGED vars
  BY <1>1, ConnectionStep
<1>2. CASE DrainBuffer
  BY <1>2, DrainStep
<1>3. CASE FlushStart
  BY <1>3, FlushStartStep
<1>4. CASE Flush
  BY <1>4, FlushItemStep, FlushEndStep DEF Flush
<1>5. ASSUME NEW p \in Producers, Emit(p)
      PROVE  EmitterInv'
  BY <1>5, EmitStartStep, EmitPublishStep, EmitBufferStep DEF Emit
<1> QED BY <1>1, <1>2, <1>3, <1>4, <1>5 DEF Next

(* What the invariant of the emitter says. *)
LEMMA EmitterSafe == EmitterInv => TypeOK /\ Accounted
<1> SUFFICES ASSUME EmitterInv PROVE TypeOK /\ Accounted
  OBVIOUS
<1>1. EachInOnePlace
  <2>1. emitted <= MaxEvents
    BY DEF EmitterInv, ScalarsOK
  <2> QED BY <2>1, OnePlace DEF EmitterInv
<1>2. NoDuplicates
  BY DEF EmitterInv, BufferOK, PublishedOK, Distinct, NoDuplicates
<1>3. gone \in [Ways -> SUBSET Ids]
  <2>1. 1..emitted \subseteq Ids
    BY EmitterAssumption DEF EmitterInv, ScalarsOK, Ids
  <2> QED BY <2>1 DEF EmitterInv, LedgerInv, Ledger
<1>4. TypeOK
  BY <1>3 DEF EmitterInv, ScalarsOK, BufferOK, PublishedOK, Hand, TypeOK
<1> QED BY <1>1, <1>2, <1>4 DEF EmitterInv, Accounted

(* The emitter, whoever uses it and for any capacity and number of         *)
(* retries, has every variable in its type: the buffer never exceeds its   *)
(* capacity, and a retry stays below the maximum. (emitter.go)             *)
THEOREM EmitterTyped == Spec => []TypeOK
<1>1. Spec => []EmitterInv
  BY EmitterInit, EmitterStep, PTL DEF Spec
<1> QED BY <1>1, EmitterSafe, PTL

(* The emitter loses and doubles no event, under any interleaving of its   *)
(* producers, the connection and a flush that may be cut short: each one   *)
(* is at NATS, buffered, in the hand of its producer or given up in one    *)
(* known way, and Dropped() counts the evicted and exhausted ones.         *)
(* (emitter.go Emit, Flush, pushToBuffer)                                  *)
THEOREM NoEventIsLost == Spec => []Accounted
<1>1. Spec => []EmitterInv
  BY EmitterInit, EmitterStep, PTL DEF Spec
<1> QED BY <1>1, EmitterSafe, PTL

-----------------------------------------------------------------------------
(* The adapter uses the emitter as it is specified                         *)

Request == [pc : {"idle", "handling", "emitting", "emitted"}, bad : BOOLEAN,
            attempts : 0..WebhookEmitMaxRetries]

ControlOK ==
  /\ shutdown \in {"running", "webhook", "poller", "flush", "flushing", "close", "done"}
  /\ pollerCtx \in {"live", "cancelled"}
  /\ polling \in BOOLEAN
  /\ active \in [Handlers -> Request]
  /\ closed \in BOOLEAN
  /\ clean \in BOOLEAN
  /\ ownerCalls \in 0..MaxOwnerCalls

(* Every step of the adapter is a step of the emitter, or none. *)
LEMMA AdapterStep ==
  ASSUME EmitterInv, ControlOK, [AdapterNext]_allVars
  PROVE  [Next]_vars
<1> SUFFICES ASSUME AdapterNext PROVE [Next]_vars
  BY DEF allVars
<1>1. ASSUME NEW h \in Handlers, AcceptRequest(h) \/ AnswerRequest(h)
      PROVE  UNCHANGED vars
  BY <1>1 DEF AcceptRequest, AnswerRequest
<1>2. ASSUME NEW h \in Handlers, HandlerEmits(h)
      PROVE  Next
  <2>1. active[h] \in Request
    BY DEF ControlOK
  <2>2. active[h].bad \in BOOLEAN /\ h \in Producers
    BY <2>1 DEF Request, Handlers
  <2> QED BY <1>2, <2>2 DEF HandlerEmits, Next, Emit
<1>3. CASE PollerEmits
  <2>1. Emit(Poller)
    BY <1>3 DEF PollerEmits, Emit
  <2> QED BY <2>1, AdapterAssumption DEF Next
<1>4. ASSUME NEW p \in Producers, Continue(p)
      PROVE  Next
  BY <1>4 DEF Continue, Emit, Next
<1>5. CASE BeginPoll \/ EndPoll \/ BeginShutdown \/ WebhookStopped \/ CancelPoller
  BY <1>5 DEF BeginPoll, EndPoll, BeginShutdown, WebhookStopped, CancelPoller
<1>6. CASE Connection \/ FlushTimesOut \/ FlushStep
  BY <1>6 DEF Connection, FlushTimesOut, FlushStep, Next
<1>7. CASE BeginFlush
  BY <1>7 DEF BeginFlush, Next
<1>8. CASE CloseNATS
  <2>1. connected' = FALSE /\ UNCHANGED emitVars
    BY <1>8 DEF CloseNATS
  <2>2. CASE connected
    BY <2>1, <2>2 DEF Disconnect, Next
  <2>3. CASE ~connected
    <3>1. connected' = connected
      BY <2>1, <2>3 DEF EmitterInv, ScalarsOK
    <3> QED BY <2>1, <3>1 DEF vars, emitVars
  <2> QED BY <2>2, <2>3
<1>9. CASE OwnerFlushes \/ OwnerFlushStep \/ OwnerDrains
  BY <1>9 DEF OwnerFlushes, OwnerFlushStep, OwnerDrains, Next
<1> QED BY <1>1, <1>2, <1>3, <1>4, <1>5, <1>6, <1>7, <1>8, <1>9 DEF AdapterNext, ShutdownStep

-----------------------------------------------------------------------------
(* What Shutdown may rely on                                               *)

Late  == shutdown \in {"poller", "flush", "flushing", "close", "done"}
After == shutdown \in {"close", "done"}

(* Whose event is in a hand: a handler only emits for its request, and the *)
(* poller never holds an event of a handler.                               *)
OwnersInv ==
  /\ fromWebhook \subseteq 1..emitted
  /\ \A h \in Handlers : emitting[h].pc # "idle" => active[h].pc = "emitting"
  /\ emitting[Poller].pc # "idle" => emitting[Poller].id \notin fromWebhook

(* A clean shutdown is past the handlers once it cancels the poller, finds *)
(* NATS connected, and keeps nothing of the buffer it flushes.             *)
CleanInv ==
  /\ shutdown = "flushing" => ~Unlocked
  /\ clean /\ Late => \A h \in Handlers : active[h].pc = "idle"
  /\ clean /\ shutdown \notin {"running", "done"} => connected
  /\ clean /\ shutdown = "flushing" => flush.remaining = <<>>
  /\ clean /\ After => Buffered \cap fromWebhook = {}

AdapterInv == EmitterInv /\ ControlOK /\ OwnersInv /\ CleanInv

(* The adapter has not begun. *)
LEMMA AdapterBegins == AdapterInit => AdapterInv
<1> SUFFICES ASSUME AdapterInit PROVE AdapterInv
  OBVIOUS
<1>1. EmitterInv
  BY EmitterInit DEF AdapterInit
<1>2. ControlOK
  <2>1. NoRequest \in Request
    BY AdapterAssumption DEF NoRequest, Request
  <2>2. 0 \in 0..MaxOwnerCalls
    BY AdapterAssumption
  <2> QED BY <2>1, <2>2 DEF AdapterInit, ControlOK
<1>3. OwnersInv
  BY AdapterAssumption DEF AdapterInit, Init, OwnersInv, Idle, Handlers
<1>4. CleanInv
  BY DEF AdapterInit, Init, CleanInv, Unlocked, NoFlush, Late, After
<1> QED BY <1>1, <1>2, <1>3, <1>4 DEF AdapterInv

(* Requests and polls that do not emit. *)
LEMMA RequestStep ==
  ASSUME AdapterInv, EmitterInv',
         \/ \E h \in Handlers : AcceptRequest(h) \/ AnswerRequest(h)
         \/ BeginPoll \/ EndPoll \/ UNCHANGED allVars
  PROVE  AdapterInv'
<1>1. /\ UNCHANGED <<vars, shutdown, pollerCtx, closed, fromWebhook, clean, ownerCalls>>
      /\ polling' \in BOOLEAN
  BY DEF AcceptRequest, AnswerRequest, BeginPoll, EndPoll, allVars, adapterVars,
         AdapterInv, ControlOK
<1>2. \/ \E h \in Handlers : /\ active[h].pc = "idle" /\ shutdown = "running"
                             /\ \E bad \in BOOLEAN : active' = [active EXCEPT ![h] =
                                  [pc |-> "handling", bad |-> bad, attempts |-> 0]]
      \/ \E h \in Handlers : active[h].pc # "emitting" /\ active' = [active EXCEPT ![h] = NoRequest]
      \/ active' = active
  BY DEF AcceptRequest, AnswerRequest, BeginPoll, EndPoll, allVars, adapterVars
<1>3. active' \in [Handlers -> Request]
  <2>1. NoRequest \in Request /\ \A bad \in BOOLEAN :
          [pc |-> "handling", bad |-> bad, attempts |-> 0] \in Request
    BY AdapterAssumption DEF NoRequest, Request
  <2> QED BY <1>2, <2>1 DEF AdapterInv, ControlOK
<1>4. ControlOK'
  BY <1>1, <1>3 DEF AdapterInv, ControlOK
<1>5. OwnersInv'
  <2>1. /\ UNCHANGED <<emitting, emitted, fromWebhook>>
        /\ \A h \in Handlers : active[h].pc = "emitting" => active'[h].pc = "emitting"
    BY <1>1, <1>2 DEF vars, AdapterInv, ControlOK
  <2> QED BY <2>1 DEF AdapterInv, OwnersInv
<1>6. CleanInv'
  <2>1. UNCHANGED <<shutdown, clean, fromWebhook, connected, flush, buffer>>
    BY <1>1 DEF vars
  <2>2. Buffered' = Buffered
    BY <2>1 DEF Buffered, Unlocked, IdsOf, Rest
  <2>3. clean /\ Late => \A h \in Handlers : active'[h].pc = "idle"
    <3>1. ASSUME clean, Late
          PROVE  \A h \in Handlers : active'[h].pc = "idle"
      BY <1>2, <3>1 DEF AdapterInv, ControlOK, CleanInv, Late, NoRequest
    <3> QED BY <3>1
  <2> QED BY <2>1, <2>2, <2>3 DEF AdapterInv, CleanInv, Unlocked, Late, After
<1> QED BY <1>4, <1>5, <1>6 DEF AdapterInv

(* A handler or the poller calls Emit. *)
LEMMA CallStep ==
  ASSUME AdapterInv, EmitterInv', PollerEmits \/ \E h \in Handlers : HandlerEmits(h)
  PROVE  AdapterInv'
<1> USE DEF AdapterInv
<1>1. PICK p \in Producers : /\ emitted' = emitted + 1
                            /\ \E on \in {"publish", "buffer"} : emitting' =
                                 [emitting EXCEPT ![p] = [pc |-> on, id |-> emitted + 1]]
                            /\ IF p = Poller THEN UNCHANGED <<active, fromWebhook>>
                               ELSE /\ active[p].pc = "handling"
                                    /\ active[p].attempts < WebhookEmitMaxRetries
                                    /\ active' = [active EXCEPT ![p].pc = "emitting",
                                                    ![p].attempts = active[p].attempts + 1]
                                    /\ fromWebhook' = fromWebhook \cup {emitted + 1}
  <2>1. CASE PollerEmits
    BY <2>1, AdapterAssumption DEF PollerEmits, EmitStart, adapterVars
  <2>2. ASSUME NEW h \in Handlers, HandlerEmits(h)
        PROVE  /\ h \in Producers /\ h # Poller
               /\ active[h].pc = "handling"
               /\ active[h].attempts < WebhookEmitMaxRetries
               /\ active' = [active EXCEPT ![h].pc = "emitting",
                              ![h].attempts = active[h].attempts + 1]
               /\ emitted' = emitted + 1 /\ fromWebhook' = fromWebhook \cup {emitted + 1}
               /\ \E on \in {"publish", "buffer"} : emitting' =
                    [emitting EXCEPT ![h] = [pc |-> on, id |-> emitted + 1]]
    BY <2>2 DEF HandlerEmits, EmitStart, Handlers
  <2> QED BY <2>1, <2>2
<1>2. UNCHANGED <<shutdown, pollerCtx, polling, closed, clean, ownerCalls, connected, buffer, flush>>
  BY DEF PollerEmits, HandlerEmits, EmitStart, adapterVars
<1>3. /\ emitted \in Nat /\ emitted + 1 \notin 1..emitted /\ 1..(emitted + 1) = (1..emitted) \cup {emitted + 1}
      /\ emitting \in [Producers -> Hand] /\ Handlers \subseteq Producers /\ Poller \in Producers
      /\ Poller \notin Handlers
  BY AdapterAssumption, EmitterAssumption DEF EmitterInv, ScalarsOK, Handlers
<1>4. \A h \in Handlers : active[h] \in Request
  BY DEF ControlOK
<1>5. /\ active' \in [Handlers -> Request]
      /\ \A h \in Handlers : h # p => active'[h] = active[h]
      /\ p # Poller => active'[p].pc = "emitting" /\ active[p].pc = "handling" /\ p \in Handlers
  <2>1. CASE p = Poller
    BY <1>1, <2>1, <1>3 DEF ControlOK
  <2>2. CASE p # Poller
    <3>1. p \in Handlers
      BY <2>2 DEF Handlers
    <3>2. active[p] \in Request /\ active[p].attempts + 1 \in 0..WebhookEmitMaxRetries
      BY <1>1, <1>4, <2>2, <3>1, AdapterAssumption DEF Request
    <3> DEFINE new == [pc |-> "emitting", bad |-> active[p].bad, attempts |-> active[p].attempts + 1]
    <3>3. new \in Request /\ new.pc = "emitting"
      BY <3>2 DEF Request
    <3>4. active' = [active EXCEPT ![p] = new]
      BY <1>1, <2>2, <3>1, <3>2 DEF ControlOK, Request
    <3> HIDE DEF new
    <3> QED BY <1>1, <2>2, <3>1, <3>3, <3>4 DEF ControlOK
  <2> QED BY <2>1, <2>2
<1>6. ControlOK'
  BY <1>2, <1>5 DEF ControlOK
<1>7. OwnersInv'
  <2>1. fromWebhook' \subseteq 1..emitted'
    BY <1>1, <1>3 DEF OwnersInv
  <2>2. ASSUME NEW h \in Handlers, emitting'[h].pc # "idle"
        PROVE  active'[h].pc = "emitting"
    <3>1. CASE h = p
      BY <1>3, <1>5, <3>1
    <3>2. CASE h # p
      BY <1>1, <1>3, <1>5, <2>2, <3>2 DEF OwnersInv
    <3> QED BY <3>1, <3>2
  <2>3. emitting'[Poller].pc # "idle" => emitting'[Poller].id \notin fromWebhook'
    <3>1. CASE p = Poller
      <4>1. emitting'[Poller].id = emitted + 1 /\ fromWebhook' = fromWebhook
        BY <1>1, <1>3, <3>1
      <4> QED BY <1>3, <4>1 DEF OwnersInv
    <3>2. CASE p # Poller
      <4>1. emitting'[Poller] = emitting[Poller] /\ fromWebhook' = fromWebhook \cup {emitted + 1}
        BY <1>1, <1>3, <3>2
      <4>2. emitting[Poller].pc # "idle" => emitting[Poller].id \in 1..emitted
        BY <1>3, HandHolds DEF EmitterInv
      <4> QED BY <1>3, <4>1, <4>2 DEF OwnersInv
    <3> QED BY <3>1, <3>2
  <2> QED BY <2>1, <2>2, <2>3 DEF OwnersInv
<1>8. CleanInv'
  <2>1. Buffered' = Buffered
    BY <1>2 DEF Buffered, Unlocked, IdsOf, Rest
  <2>2. ASSUME clean, Late
        PROVE  p = Poller
    BY <1>5, <2>2 DEF CleanInv
  <2>3. clean /\ Late => \A h \in Handlers : active'[h].pc = "idle"
    BY <1>3, <1>5, <2>2 DEF CleanInv
  <2>4. clean /\ After => Buffered \cap fromWebhook' = {}
    <3>1. ASSUME clean, After
          PROVE  Buffered \cap fromWebhook' = {}
      <4>1. Late
        BY <3>1 DEF After, Late
      <4> QED BY <1>1, <2>2, <3>1, <4>1 DEF CleanInv
    <3> QED BY <3>1
  <2> QED BY <1>2, <2>1, <2>3, <2>4 DEF CleanInv, Unlocked, Late, After
<1> QED BY <1>6, <1>7, <1>8

(* A producer goes on with its Emit. *)
LEMMA ContinueStep ==
  ASSUME AdapterInv, EmitterInv', NEW p \in Producers, Continue(p)
  PROVE  AdapterInv'
<1> USE DEF AdapterInv
<1>1. /\ EmitPublish(p) \/ EmitBuffer(p)
      /\ active' = AfterEmit(p)
      /\ clean' = (clean /\ (shutdown = "running" \/ emitting'[p].pc # "buffer"))
      /\ UNCHANGED <<shutdown, pollerCtx, polling, closed, fromWebhook, ownerCalls>>
  BY DEF Continue
<1>2. /\ emitting[p].pc # "idle"
      /\ UNCHANGED <<connected, flush, emitted>>
      /\ \/ emitting' = [emitting EXCEPT ![p] = Idle]
         \/ emitting' = [emitting EXCEPT ![p].pc = "buffer"] /\ buffer' = buffer
  BY <1>1 DEF EmitPublish, EmitBuffer
<1>3. /\ emitting \in [Producers -> Hand] /\ Handlers \subseteq Producers /\ Poller \in Producers
      /\ Poller \notin Handlers /\ clean \in BOOLEAN
  BY AdapterAssumption DEF EmitterInv, ScalarsOK, Handlers, ControlOK
<1>4. emitting[p] \in Hand /\ \A q \in Producers : emitting[q] \in Hand
  BY <1>3
<1>5. /\ \A q \in Producers : q # p => emitting'[q] = emitting[q]
      /\ emitting'[p].pc \in {"idle", "buffer"}
      /\ emitting'[p].pc # "idle" => emitting'[p].id = emitting[p].id /\ buffer' = buffer
  <2>1. CASE emitting' = [emitting EXCEPT ![p] = Idle]
    BY <1>3, <2>1 DEF Idle
  <2>2. CASE emitting' = [emitting EXCEPT ![p].pc = "buffer"] /\ buffer' = buffer
    BY <1>3, <1>4, <2>2 DEF Hand
  <2> QED BY <1>2, <2>1, <2>2
<1>6. /\ active' \in [Handlers -> Request]
      /\ \A h \in Handlers : h # p => active'[h] = active[h]
      /\ emitting'[p].pc # "idle" => active' = active
      /\ p = Poller => active' = active
  <2>1. CASE p = Poller \/ emitting'[p].pc # "idle"
    BY <1>1, <2>1 DEF AfterEmit, ControlOK
  <2>2. CASE ~(p = Poller \/ emitting'[p].pc # "idle")
    <3> DEFINE to == IF gone'["refused"] = gone["refused"] THEN "emitted" ELSE "handling"
               new == [pc |-> to, bad |-> active[p].bad, attempts |-> active[p].attempts]
    <3>1. active[p] \in Request /\ p \in Handlers
      BY <2>2 DEF ControlOK, Handlers
    <3>2. new \in Request
      BY <3>1 DEF Request
    <3>3. active' = [active EXCEPT ![p] = new]
      <4>1. active' = [active EXCEPT ![p].pc = to]
        BY <1>1, <2>2 DEF AfterEmit
      <4>2. new = [active[p] EXCEPT !.pc = to]
        <5> HIDE DEF to
        <5> QED BY <3>1 DEF Request
      <4> QED BY <4>1, <4>2
    <3> HIDE DEF new
    <3> QED BY <2>2, <3>1, <3>2, <3>3 DEF ControlOK
  <2> QED BY <2>1, <2>2
<1>7. ControlOK'
  BY <1>1, <1>3, <1>6 DEF ControlOK
<1>8. OwnersInv'
  <2>1. ASSUME NEW h \in Handlers, emitting'[h].pc # "idle"
        PROVE  active'[h].pc = "emitting"
    BY <1>2, <1>3, <1>5, <1>6, <2>1 DEF OwnersInv
  <2>2. emitting'[Poller].pc # "idle" => emitting'[Poller].id \notin fromWebhook'
    BY <1>1, <1>2, <1>3, <1>5 DEF OwnersInv
  <2> QED BY <1>1, <1>2, <2>1, <2>2 DEF OwnersInv
<1>9. CleanInv'
  <2>1. ASSUME clean, Late
        PROVE  p = Poller
    BY <1>2, <1>3, <2>1 DEF CleanInv, OwnersInv, Handlers
  <2>2. clean /\ Late => \A h \in Handlers : active'[h].pc = "idle"
    BY <1>6, <2>1 DEF CleanInv
  <2>3. ASSUME clean, After
        PROVE  Buffered' \cap fromWebhook = {}
    <3>1. p = Poller /\ Buffered \cap fromWebhook = {}
      <4>1. Late
        BY <2>3 DEF After, Late
      <4> QED BY <2>1, <2>3, <4>1 DEF CleanInv
    <3>3. CASE EmitPublish(p)
      <4>1. UNCHANGED <<buffer, flush>>
        BY <3>3 DEF EmitPublish
      <4>2. Buffered' = Buffered
        BY <4>1 DEF Buffered, Unlocked, IdsOf, Rest
      <4> QED BY <3>1, <4>2
    <3>4. CASE EmitBuffer(p)
      <4> Buffered = IdsOf(buffer) /\ Buffered' = IdsOf(buffer')
        BY <1>2, <3>4 DEF EmitBuffer, Unlocked, Buffered
      <4> DEFINE new == NewItem(emitting[p].id)
      <4>1. new \in Item /\ new.id = emitting[p].id /\ new.id \notin fromWebhook
        <5>1. emitting[p].id \in Ids
          BY <1>2, HandHolds DEF EmitterInv
        <5> QED BY <1>2, <3>1, <5>1, EmitterAssumption DEF NewItem, Item, OwnersInv
      <4>2. buffer \in Seq(Item) /\ Capacity \in Nat \ {0}
        BY EmitterAssumption DEF EmitterInv, BufferOK
      <4>3. \E items \in Seq(Item) : buffer' = Append(items, new) /\ IdsOf(items) \subseteq IdsOf(buffer)
        <5>1. CASE Len(buffer) >= Capacity /\ buffer' = Append(Tail(buffer), new)
          <6>1. buffer # <<>>
            BY <4>2, <5>1
          <6> QED BY <4>2, <5>1, <6>1, TailOfItems
        <5>2. CASE buffer' = Append(buffer, new)
          BY <4>2, <5>2
        <5> QED BY <3>4, <5>1, <5>2 DEF EmitBuffer
      <4> HIDE DEF new
      <4>4. IdsOf(buffer') \subseteq IdsOf(buffer) \cup {new.id}
        BY <4>1, <4>3, AppendItem
      <4> QED BY <3>1, <4>1, <4>4
    <3> QED BY <1>1, <3>3, <3>4
  <2>4. clean' => clean
    BY <1>1
  <2> QED BY <1>1, <1>2, <2>2, <2>3, <2>4 DEF CleanInv, Unlocked, Late, After
<1> QED BY <1>7, <1>8, <1>9

(* The connection, and the deadline of the flush. *)
LEMMA OutsideStep ==
  ASSUME AdapterInv, EmitterInv', Connection \/ FlushTimesOut
  PROVE  AdapterInv'
<1> USE DEF AdapterInv
<1>1. /\ UNCHANGED <<buffer, flush, emitting, emitted, shutdown, pollerCtx, polling, active, closed,
                     fromWebhook, ownerCalls>>
      /\ \/ clean' = (clean /\ shutdown = "running")
         \/ clean' = clean /\ connected' = connected
  BY DEF Connection, Connect, Disconnect, emitVars, FlushTimesOut, FlushDeadline, adapterVars
<1>2. Buffered' = Buffered
  BY <1>1 DEF Buffered, Unlocked, IdsOf, Rest
<1>3. ControlOK' /\ OwnersInv'
  BY <1>1 DEF ControlOK, OwnersInv
<1>4. CleanInv'
  <2> /\ clean \in BOOLEAN /\ clean' \in BOOLEAN
      /\ connected \in BOOLEAN /\ connected' \in BOOLEAN
    BY <1>3 DEF ControlOK, EmitterInv, ScalarsOK
  <2>1. /\ clean' => clean
        /\ clean' => shutdown = "running" \/ connected' = connected
    BY <1>1
  <2>2. (Late' <=> Late) /\ (After' <=> After) /\ (Unlocked' <=> Unlocked)
    BY <1>1 DEF Late, After, Unlocked
  <2>3. clean' /\ shutdown' \notin {"running", "done"} => connected'
    <3>1. ASSUME clean', shutdown' \notin {"running", "done"}
          PROVE  connected'
      <4>1. clean /\ shutdown \notin {"running", "done"} /\ connected' = connected
        BY <1>1, <2>1, <3>1
      <4> QED BY <4>1 DEF CleanInv
    <3> QED BY <3>1
  <2> QED BY <1>1, <1>2, <2>1, <2>2, <2>3 DEF CleanInv
<1> QED BY <1>3, <1>4

(* Shutdown begins, waits for the handlers, cancels the poller, closes. *)
LEMMA OrderlyStep ==
  ASSUME AdapterInv, EmitterInv', BeginShutdown \/ WebhookStopped \/ CancelPoller \/ CloseNATS
  PROVE  AdapterInv'
<1> USE DEF AdapterInv
<1>1. UNCHANGED <<buffer, flush, emitting, emitted, polling, active, fromWebhook, ownerCalls>>
  BY DEF BeginShutdown, WebhookStopped, CancelPoller, CloseNATS, vars, emitVars
<1>2. Buffered' = Buffered
  BY <1>1 DEF Buffered, Unlocked, IdsOf, Rest
<1>3. OwnersInv'
  BY <1>1 DEF OwnersInv
<1>4. CASE BeginShutdown
  BY <1>1, <1>2, <1>3, <1>4 DEF BeginShutdown, vars, EmitterInv, ScalarsOK, ControlOK, CleanInv,
                          Unlocked, Late, After
<1>5. CASE WebhookStopped
  BY <1>1, <1>2, <1>3, <1>5 DEF WebhookStopped, vars, ControlOK, CleanInv, Unlocked, Late, After
<1>6. CASE CancelPoller
  BY <1>1, <1>2, <1>3, <1>6 DEF CancelPoller, vars, ControlOK, CleanInv, Unlocked, Late, After
<1>7. CASE CloseNATS
  BY <1>1, <1>2, <1>3, <1>7 DEF CloseNATS, ControlOK, CleanInv, Unlocked, Late, After
<1> QED BY <1>4, <1>5, <1>6, <1>7

(* The flush of the shutdown begins, or does not for want of a connection. *)
LEMMA BeginFlushStep ==
  ASSUME AdapterInv, EmitterInv', BeginFlush
  PROVE  AdapterInv'
<1> USE DEF AdapterInv
<1>1. /\ shutdown = "flush"
      /\ UNCHANGED <<buffer, connected, emitting, emitted, pollerCtx, polling, active, closed,
                     fromWebhook, clean, ownerCalls>>
  BY DEF BeginFlush, FlushStart, vars
<1>2. OwnersInv'
  BY <1>1 DEF OwnersInv
<1>3. CASE FlushStart /\ shutdown' = "flushing"
  <2>1. flush'.remaining = <<>> /\ ~Unlocked'
    BY <1>3 DEF FlushStart, Unlocked
  <2> QED BY <1>1, <1>2, <1>3, <2>1 DEF ControlOK, CleanInv, Late, After
<1>4. CASE ~connected /\ shutdown' = "close" /\ UNCHANGED vars
  <2>1. ~clean
    BY <1>1, <1>4 DEF CleanInv
  <2> QED BY <1>1, <1>2, <1>4, <2>1 DEF ControlOK, CleanInv, vars, Unlocked, Late, After
<1> QED BY <1>3, <1>4 DEF BeginFlush

(* A step of that flush, which closes it when nothing is left to look at. *)
LEMMA FlushingStep ==
  ASSUME AdapterInv, EmitterInv', FlushStep
  PROVE  AdapterInv'
<1> USE DEF AdapterInv
<1>1. /\ shutdown = "flushing"
      /\ shutdown' = IF flush'.pc = "idle" THEN "close" ELSE shutdown
      /\ clean' = (clean /\ Len(flush'.remaining) = Len(flush.remaining) /\ flushCtx = "live")
      /\ UNCHANGED <<emitting, emitted, connected, pollerCtx, polling, active, closed,
                     fromWebhook, ownerCalls>>
  BY DEF FlushStep, Flush, FlushItem, FlushEnd, FlushCancelled
<1>2. OwnersInv' /\ ControlOK'
  BY <1>1 DEF OwnersInv, ControlOK
<1>3. flush.remaining \in Seq(Item) /\ flush'.remaining \in Seq(Item)
  BY DEF EmitterInv, BufferOK
<1>4. ASSUME clean'
      PROVE  clean /\ flush.remaining = <<>> /\ flush'.remaining = <<>> /\ flushCtx = "live"
  <2>1. clean \in BOOLEAN /\ clean' \in BOOLEAN
    BY <1>2 DEF ControlOK
  <2>2. clean /\ Len(flush'.remaining) = Len(flush.remaining) /\ flushCtx = "live"
    BY <1>1, <1>4, <2>1
  <2>3. flush.remaining = <<>>
    BY <1>1, <2>2 DEF CleanInv
  <2> QED BY <1>3, <2>2, <2>3
<1>5. (shutdown' = "flushing") => ~Unlocked'
  BY <1>1 DEF Unlocked
<1>6. ASSUME clean', After'
      PROVE  Buffered' = {}
  <2>1. flush'.pc = "idle"
    BY <1>1, <1>6 DEF After
  <2>2. FlushEnd
    <3>1. ~FlushCancelled
      BY <1>4, <1>6 DEF FlushCancelled
    <3>2. ~FlushItem
      <4>1. ASSUME FlushItem
            PROVE  flush'.pc = flush.pc
        <5>1. flush \in [pc : {"idle", "item"}, next : Nat, remaining : Seq(Item)]
          BY DEF EmitterInv, BufferOK
        <5> QED BY <4>1, <5>1 DEF FlushItem
      <4> QED BY <2>1, <4>1 DEF FlushItem
    <3> QED BY <3>1, <3>2 DEF FlushStep, Flush
  <2>3. buffer' = <<>>
    BY <1>4, <1>6, <2>2 DEF FlushEnd
  <2> QED BY <2>1, <2>3 DEF Buffered, Unlocked, IdsOf
<1>7. CleanInv'
  <2>1. /\ Late /\ shutdown' \in {"flushing", "close"}
    BY <1>1 DEF Late
  <2>2. clean' => connected' /\ \A h \in Handlers : active'[h].pc = "idle"
    BY <1>1, <1>4, <2>1 DEF CleanInv
  <2>3. clean' /\ After' => Buffered' \cap fromWebhook' = {}
    BY <1>6
  <2>4. clean' /\ shutdown' = "flushing" => flush'.remaining = <<>>
    BY <1>4
  <2> QED BY <1>5, <2>2, <2>3, <2>4 DEF CleanInv
<1> QED BY <1>2, <1>7

(* No step of a flush and no draining puts an event into the buffer. *)
LEMMA FlushShrinks ==
  ASSUME EmitterInv, EmitterInv', FlushStart \/ Flush \/ DrainBuffer
  PROVE  Buffered' \subseteq Buffered
<1>1. /\ UNCHANGED <<emitting, emitted>> /\ AtNATS \subseteq AtNATS'
      /\ \A way \in Ways : gone[way] \subseteq gone'[way]
  <2>1. gone \in [Ways -> SUBSET (1..emitted)] /\ published \in Seq(Ids)
    BY DEF EmitterInv, LedgerInv, Ledger, PublishedOK
  <2>2. \A way \in Ways : gone[way] \subseteq gone'[way]
    BY <2>1 DEF FlushStart, Flush, FlushItem, FlushEnd, FlushCancelled, DrainBuffer, Leaves
  <2>3. \/ published' = published
        \/ \E e \in Ids : published' = Append(published, e)
    <3>1. ASSUME FlushItem
          PROVE  buffer[flush.next].id \in Ids
      <4>1. flush.next \in 1..Len(buffer) /\ buffer \in Seq(Item)
        BY <3>1 DEF EmitterInv, BufferOK, FlushItem, Unlocked
      <4>2. buffer[flush.next] \in Item
        BY <4>1
      <4> QED BY <4>2 DEF Item
    <3> QED BY <3>1 DEF FlushStart, Flush, FlushItem, FlushEnd, FlushCancelled, DrainBuffer
  <2>4. AtNATS \subseteq AtNATS'
    BY <2>1, <2>3 DEF AtNATS
  <2> QED BY <2>2, <2>4 DEF FlushStart, Flush, FlushItem, FlushEnd, FlushCancelled, DrainBuffer
<1>2. Hands' = Hands
  BY <1>1 DEF Hands, InHand
<1> SUFFICES ASSUME NEW e \in Buffered', e \notin Buffered PROVE FALSE
  OBVIOUS
<1>3. /\ e \in 1..emitted /\ e \notin AtNATS' /\ \A p \in Producers : e \notin Hands[p]
      /\ \A way \in Ways : e \notin gone'[way]
  BY <1>1, <1>2 DEF EmitterInv, LedgerInv, Ledger
<1>4. Booked(e, AtNATS, Buffered, gone, Hands)
  BY <1>3 DEF EmitterInv, LedgerInv, Ledger
<1> QED BY <1>1, <1>3, <1>4 DEF Booked

(* The owner of the emitter flushes or drains. *)
LEMMA OwnerStep ==
  ASSUME AdapterInv, EmitterInv', OwnerFlushes \/ OwnerFlushStep \/ OwnerDrains
  PROVE  AdapterInv'
<1> USE DEF AdapterInv
<1>1. /\ FlushStart \/ Flush \/ DrainBuffer
      /\ shutdown = "flushing" => FALSE
      /\ UNCHANGED <<shutdown, pollerCtx, polling, active, closed, fromWebhook, clean>>
      /\ ownerCalls' \in 0..MaxOwnerCalls
  <2>1. CASE OwnerFlushStep
    BY <2>1 DEF OwnerFlushStep, adapterVars, ControlOK
  <2>2. CASE OwnerFlushes \/ OwnerDrains
    <3>1. (FlushStart \/ DrainBuffer) /\ OwnerCalls /\ Unlocked
      BY <2>2 DEF OwnerFlushes, OwnerDrains, FlushStart, DrainBuffer
    <3>2. ownerCalls' \in 0..MaxOwnerCalls
      BY <3>1, AdapterAssumption DEF OwnerCalls, ControlOK
    <3> QED BY <3>1, <3>2 DEF OwnerCalls, CleanInv
  <2> QED BY <2>1, <2>2
<1>2. UNCHANGED <<emitting, emitted, connected>>
  BY <1>1 DEF FlushStart, Flush, FlushItem, FlushEnd, FlushCancelled, DrainBuffer
<1>3. Buffered' \subseteq Buffered
  BY <1>1, FlushShrinks
<1>4. ControlOK' /\ OwnersInv'
  BY <1>1, <1>2 DEF ControlOK, OwnersInv
<1>5. CleanInv'
  BY <1>1, <1>2, <1>3 DEF CleanInv, Late, After
<1> QED BY <1>4, <1>5

(* Every step of the adapter keeps its invariant. *)
LEMMA AdapterInvStep == AdapterInv /\ [AdapterNext]_allVars => AdapterInv'
<1> SUFFICES ASSUME AdapterInv, [AdapterNext]_allVars PROVE AdapterInv'
  OBVIOUS
<1>1. EmitterInv'
  BY AdapterStep, EmitterStep DEF AdapterInv
<1> QED BY <1>1, RequestStep, CallStep, ContinueStep, OutsideStep, OrderlyStep, BeginFlushStep,
           FlushingStep, OwnerStep DEF AdapterNext, ShutdownStep

(* The adapter uses its emitter as it is specified: whatever the handlers, *)
(* the poller and a shutdown do, they do it through Emit and Flush.        *)
(* (adapter.go, poller.go, webhook.go)                                     *)
THEOREM UsesTheEmitter == AdapterSpec => Spec
<1>1. AdapterInit => Init
  BY DEF AdapterInit
<1>2. AdapterInv /\ [AdapterNext]_allVars => [Next]_vars
  BY AdapterStep DEF AdapterInv
<1>3. AdapterSpec => []AdapterInv
  BY AdapterBegins, AdapterInvStep, PTL DEF AdapterSpec
<1> QED BY <1>1, <1>2, <1>3, PTL DEF AdapterSpec, Spec

(* So no event is lost or doubled in the adapter either, through all of a  *)
(* shutdown. (adapter.go Shutdown, emitter.go)                             *)
THEOREM AdapterLosesNothing == AdapterSpec => []Accounted
BY UsesTheEmitter, NoEventIsLost, PTL

(* A clean shutdown leaves no event of a webhook behind: the handlers are  *)
(* waited for before the flush, and what still emits afterwards is the     *)
(* poller. (adapter.go Shutdown, webhook.go)                               *)
THEOREM CleanShutdownSaves == AdapterSpec => []WebhookEventsSaved
<1>1. AdapterSpec => []AdapterInv
  BY AdapterBegins, AdapterInvStep, PTL DEF AdapterSpec
<1>2. AdapterInv => WebhookEventsSaved
  <2> SUFFICES ASSUME AdapterInv, shutdown = "done", clean, NEW e \in LeftBehind, e \in fromWebhook
               PROVE  FALSE
    BY DEF WebhookEventsSaved
  <2>1. Late /\ After
    BY DEF Late, After
  <2>2. CASE e \in Buffered
    BY <2>1, <2>2 DEF AdapterInv, CleanInv
  <2>3. ASSUME NEW p \in Producers, e \in InHand(p)
        PROVE  FALSE
    <3>1. emitting[p].pc # "idle" /\ e = emitting[p].id
      BY <2>3 DEF InHand
    <3>2. p # Poller
      BY <3>1 DEF AdapterInv, OwnersInv
    <3> QED BY <2>1, <3>1, <3>2 DEF AdapterInv, OwnersInv, CleanInv, Handlers
  <2> QED BY <2>2, <2>3 DEF LeftBehind
<1> QED BY <1>1, <1>2, PTL

(* Every variable of the adapter has its type, for any set of handlers and *)
(* any number of their retries. (adapter.go, webhook.go)                   *)
THEOREM AdapterTyped == AdapterSpec => []AdapterTypeOK
<1>1. AdapterSpec => []AdapterInv
  BY AdapterBegins, AdapterInvStep, PTL DEF AdapterSpec
<1>2. AdapterInv => AdapterTypeOK
  BY EmitterSafe DEF AdapterInv, ControlOK, OwnersInv, Request, AdapterTypeOK
<1> QED BY <1>1, <1>2, PTL

-----------------------------------------------------------------------------
(* The configuration and its reloading                                     *)


Contains == Contents \cup {Nothing}

(* The fields of a configuration come out of loading with their types, and *)
(* the environment has the last word. (loader.go Load)                     *)
LEMMA LoadedProperties ==
  ASSUME NEW content \in Contains, NEW e \in Environments
  PROVE  /\ IsConfig(Loaded(content, e))
         /\ \A f \in Fields : Counts(e, f) => Loaded(content, e)[f] = FromVariable(e, f)
<1> DEFINE file1 == WithFile(Defaults, content)
<1>1. /\ DOMAIN content \subseteq Fields
      /\ \A f \in DOMAIN content \cap TextFields : content[f] \in Texts
      /\ \A f \in DOMAIN content \cap NumberFields : content[f] \in Nat
  BY ReloadAssumption DEF Contains, Nothing
<1>2. /\ \A f \in TextFields : Defaults[f] \in Texts
      /\ \A f \in NumberFields : Defaults[f] \in Nat
  BY DEF Defaults, Fields, TextFields, NumberFields, Texts, Empty
<1>3. /\ \A f \in TextFields : file1[f] \in Texts
      /\ \A f \in NumberFields : file1[f] \in Nat
  BY <1>1, <1>2 DEF WithFile, Fields
<1>4. \A f \in Fields :
        Loaded(content, e)[f] = IF Counts(e, f) THEN FromVariable(e, f) ELSE file1[f]
  BY DEF Loaded, WithEnv
<1>5. DOMAIN Loaded(content, e) = Fields
  BY DEF Loaded, WithEnv
<1>6. \A f \in Fields : Counts(e, f) => EnvName(f) \in DOMAIN e
  BY DEF Counts
<1>7. \A f \in TextFields : Counts(e, f) => FromVariable(e, f) \in Texts
  BY <1>6, ReloadAssumption DEF FromVariable, Fields
<1>8. \A f \in NumberFields : Counts(e, f) => FromVariable(e, f) \in Nat
  <2> SUFFICES ASSUME NEW f \in NumberFields, Counts(e, f)
               PROVE  FromVariable(e, f) \in Nat
    OBVIOUS
  <2>1. EnvName(f) \in DOMAIN e /\ e[EnvName(f)].number # NoNumber
    BY DEF Counts
  <2>2. e[EnvName(f)].number \in Nat \cup {NoNumber}
    BY <2>1, ReloadAssumption
  <2>3. f \notin TextFields
    BY DEF NumberFields, TextFields
  <2> QED BY <2>1, <2>2, <2>3 DEF FromVariable
<1> HIDE DEF file1
<1>9. IsConfig(Loaded(content, e))
  BY <1>3, <1>4, <1>5, <1>7, <1>8 DEF IsConfig, Fields
<1> QED BY <1>4, <1>9

-----------------------------------------------------------------------------
(* The active configuration came from loading something a file may say.    *)
FromAFile ==
  /\ env \in Environments
  /\ file \in Files
  /\ \E f \in Files : Loads(f) /\ config = Loaded(f.content, env)

(* What was written is a content.                                          *)
LEMMA FilesSayContents ==
  ASSUME NEW f \in Files
  PROVE  f.content \in Contains
BY DEF Files, Missing, Broken, Text, Contains

(* The first configuration is from a file ...                              *)
LEMMA FromAFileInit == ReloadInit => FromAFile
BY DEF ReloadInit, FromAFile, Files

(* ... and so is each that replaces it.                                    *)
LEMMA FromAFileStep == FromAFile /\ [ReloadNext]_reloadVars => FromAFile'
<1> SUFFICES ASSUME FromAFile, [ReloadNext]_reloadVars
             PROVE  FromAFile'
  OBVIOUS
<1> USE DEF FromAFile, Loads
<1>1. CASE WriteInPlace
  BY <1>1 DEF WriteInPlace, Changes, watcherVars
<1>2. CASE MoveInPlace
  BY <1>2 DEF MoveInPlace, Changes, watcherVars, Files
<1>3. CASE Remove
  BY <1>3 DEF Remove, Changes, watcherVars, Files
<1>4. CASE Read
  BY <1>4 DEF Read, fileVars
<1>5. CASE BeginWatch \/ Look \/ ReadFails \/ StopWatch
  BY <1>5 DEF BeginWatch, Look, ReadFails, StopWatch, fileVars
<1>6. CASE UNCHANGED reloadVars
  BY <1>6 DEF reloadVars, fileVars, watcherVars
<1> QED BY <1>1, <1>2, <1>3, <1>4, <1>5, <1>6 DEF ReloadNext

(* The active configuration is always valid and has what the environment   *)
(* says, however often and in whatever state the file was read.            *)
(* (adapter.go checkConfigReload)                                          *)
THEOREM ActiveIsValid == ReloadSpec => []ActiveConfigValid
<1>1. FromAFile => ActiveConfigValid
  BY LoadedProperties, FilesSayContents DEF FromAFile, ActiveConfigValid, Loads
<1> QED BY <1>1, FromAFileInit, FromAFileStep, PTL DEF ReloadSpec

-----------------------------------------------------------------------------
(* Why a version is read twice at most: the second read follows a look at  *)
(* this version, after which its mtime is known.                           *)
LooksEnd ==
  /\ version \in 1..MaxVersion
  /\ mtime \in Nat /\ configMtime \in Nat /\ looked \in Nat
  /\ attempts \in [1..MaxVersion -> 0..2]
  /\ \A v \in 1..MaxVersion : v > version => attempts[v] = 0
  /\ watcher = "off" => attempts[version] = 0
  /\ attempts[version] = 1 /\ watcher = "reading" => looked = mtime
  /\ attempts[version] = 2 => watcher # "reading" /\ configMtime >= mtime

(* Nobody looks at first.                                                  *)
LEMMA LooksEndInit == ReloadInit => LooksEnd
BY ReloadAssumption DEF ReloadInit, LooksEnd

(* Writing the file leaves the looks at it as they are.                    *)
LEMMA ChangesKeepLooks ==
  ASSUME LooksEnd, NEW f, NEW m \in Nat, Changes(f, m)
  PROVE  LooksEnd'
BY ReloadAssumption DEF LooksEnd, Changes, watcherVars

(* Every step keeps it.                                                    *)
LEMMA LooksEndStep == LooksEnd /\ [ReloadNext]_reloadVars => LooksEnd'
<1> SUFFICES ASSUME LooksEnd, [ReloadNext]_reloadVars
             PROVE  LooksEnd'
  OBVIOUS
<1>1. CASE WriteInPlace
  <2>1. version + 1 \in Nat
    BY ReloadAssumption DEF LooksEnd
  <2> QED BY <1>1, <2>1, ChangesKeepLooks DEF WriteInPlace
<1>2. CASE MoveInPlace
  <2>1. 1..version \subseteq Nat
    BY DEF LooksEnd
  <2> QED BY <1>2, <2>1, ChangesKeepLooks DEF MoveInPlace
<1>3. CASE Remove
  BY <1>3, ChangesKeepLooks DEF Remove, LooksEnd
<1>4. CASE BeginWatch
  BY <1>4 DEF BeginWatch, LooksEnd, fileVars
<1>5. CASE Look
  BY <1>5 DEF Look, LooksEnd, fileVars
<1>6. CASE Read
  BY <1>6 DEF Read, LooksEnd, fileVars
<1>7. CASE ReadFails
  BY <1>7 DEF ReadFails, LooksEnd, fileVars
<1>8. CASE StopWatch
  BY <1>8 DEF StopWatch, LooksEnd, fileVars
<1>9. CASE UNCHANGED reloadVars
  BY <1>9 DEF reloadVars, fileVars, watcherVars, LooksEnd
<1> QED BY <1>1, <1>2, <1>3, <1>4, <1>5, <1>6, <1>7, <1>8, <1>9 DEF ReloadNext

(* A version of the file is loaded at most twice, be it good or bad.       *)
(* (adapter.go checkConfigReload)                                          *)
THEOREM NoVersionAgain == ReloadSpec => []NoReloadLoop
<1>1. LooksEnd => NoReloadLoop
  BY DEF LooksEnd, NoReloadLoop
<1> QED BY <1>1, LooksEndInit, LooksEndStep, PTL DEF ReloadSpec
=============================================================================

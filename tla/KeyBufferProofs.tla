-------------------------- MODULE KeyBufferProofs ---------------------------
(***************************************************************************)
(* The ring buffer of type-ahead is a bounded queue, for every number of   *)
(* slots, 16 among them, and every set of keys.                            *)
(*                                                                         *)
(* The lemmas are about a ring b with head h and tail t, so that they can  *)
(* be used twice for a step that takes one key and enqueues another.       *)
(***************************************************************************)
EXTENDS KeyBuffer, SequenceTheorems, TLAPS

USE NAssumption

Ring == [Slots -> Keys \cup {NoKey}]

(* Indices stay in the ring, and two of them tell an empty ring, a full one *)
(* and the number of keys in between apart.                                 *)
LEMMA RingArithmetic ==
    ASSUME NEW h \in Slots, NEW t \in Slots
    PROVE  /\ Succ(h) \in Slots
           /\ Between(h, t) \in 0 .. N - 1
           /\ Between(h, t) = 0 <=> h = t
           /\ Between(h, t) = N - 1 <=> Succ(h) = t
           /\ Succ(h) # t => Between(Succ(h), t) = Between(h, t) + 1
           /\ h # t => Between(h, Succ(t)) = Between(h, t) - 1
           /\ Slot(t + Between(h, t)) = h
           /\ \A i \in 1 .. N : Slot(t + i - 1) \in Slots
           /\ \A i \in 1 .. Between(h, t) : Slot(t + i - 1) # h
           /\ \A i \in 1 .. N - 1 : Slot(Succ(t) + i - 1) = Slot(t + (i + 1) - 1)
BY DEF Slots, Succ, Between, Slot

(* The keys of a ring are a sequence of Between(h, t) elements.            *)
LEMMA KeysAreSeq ==
    ASSUME NEW b \in Ring, NEW h \in Slots, NEW t \in Slots,
           \A i \in 1 .. Between(h, t) : b[Slot(t + i - 1)] \in Keys
    PROVE  /\ KeysBetween(b, h, t) \in Seq(Keys)
           /\ Len(KeysBetween(b, h, t)) = Between(h, t)
           /\ \A i \in 1 .. Between(h, t) :
                 KeysBetween(b, h, t)[i] = b[Slot(t + i - 1)]
<1>1. Between(h, t) \in Nat
  BY DEF Between, Slots
<1> QED
  BY <1>1 DEF KeysBetween

(* The converse: if they are a sequence of keys, each slot holds a key.    *)
LEMMA SlotsHoldKeys ==
    ASSUME NEW b \in Ring, NEW h \in Slots, NEW t \in Slots,
           KeysBetween(b, h, t) \in Seq(Keys)
    PROVE  \A i \in 1 .. Between(h, t) : b[Slot(t + i - 1)] \in Keys
<1>1. Between(h, t) \in Nat
  BY DEF Between, Slots
<1>2. Len(KeysBetween(b, h, t)) = Between(h, t)
  BY <1>1 DEF KeysBetween
<1>3. \A i \in 1 .. Between(h, t) : KeysBetween(b, h, t)[i] \in Keys
  BY <1>2, ElementOfSeq
<1> QED
  BY <1>3 DEF KeysBetween

(* A key written at the head of a ring that is not full is appended.       *)
LEMMA EnqueueAppends ==
    ASSUME NEW b \in Ring, NEW h \in Slots, NEW t \in Slots, NEW k \in Keys,
           KeysBetween(b, h, t) \in Seq(Keys), Succ(h) # t
    PROVE  KeysBetween([b EXCEPT ![h] = k], Succ(h), t) =
               Append(KeysBetween(b, h, t), k)
<1> DEFINE c == [b EXCEPT ![h] = k]
           n == Between(h, t)
           old == KeysBetween(b, h, t)
           new == KeysBetween(c, Succ(h), t)
<1>1. /\ c \in Ring
      /\ Succ(h) \in Slots
      /\ n \in 0 .. N - 1
      /\ n # N - 1
      /\ Between(Succ(h), t) = n + 1
  BY RingArithmetic DEF Ring
<1>2. \A i \in 1 .. n : b[Slot(t + i - 1)] \in Keys
  BY SlotsHoldKeys
<1>3. /\ Len(old) = n
      /\ \A i \in 1 .. n : old[i] = b[Slot(t + i - 1)]
  BY <1>2, KeysAreSeq
<1>4. \A i \in 1 .. n : c[Slot(t + i - 1)] = b[Slot(t + i - 1)]
  <2> TAKE i \in 1 .. n
  <2>1. Slot(t + i - 1) \in Slots /\ Slot(t + i - 1) # h
    BY <1>1, RingArithmetic
  <2> QED
    BY <2>1 DEF Ring
<1>5. c[Slot(t + (n + 1) - 1)] = k
  <2>1. Slot(t + (n + 1) - 1) = h
    <3>1. t + (n + 1) - 1 = t + n
      BY <1>1 DEF Slots
    <3> QED
      BY <3>1, RingArithmetic
  <2> QED
    BY <2>1 DEF Ring
<1>6. \A i \in 1 .. n + 1 : c[Slot(t + i - 1)] \in Keys
  <2> TAKE i \in 1 .. n + 1
  <2>1. i \in 1 .. n \/ i = n + 1
    BY <1>1
  <2> QED
    BY <1>2, <1>4, <1>5, <2>1
<1>7. /\ new \in Seq(Keys)
      /\ Len(new) = n + 1
      /\ \A i \in 1 .. n + 1 : new[i] = c[Slot(t + i - 1)]
  <2> HIDE DEF c
  <2> QED
    BY <1>1, <1>6, KeysAreSeq
<1>8. /\ Append(old, k) \in Seq(Keys)
      /\ Len(Append(old, k)) = n + 1
      /\ \A i \in 1 .. n : Append(old, k)[i] = old[i]
      /\ Append(old, k)[n + 1] = k
  BY <1>3, AppendProperties
<1>9. \A i \in 1 .. Len(new) : new[i] = Append(old, k)[i]
  <2> TAKE i \in 1 .. Len(new)
  <2>1. i \in 1 .. n \/ i = n + 1
    BY <1>1, <1>7
  <2>2. CASE i \in 1 .. n
    BY <1>3, <1>4, <1>7, <1>8, <2>2
  <2>3. CASE i = n + 1
    BY <1>1, <1>5, <1>7, <1>8, <2>3
  <2> QED
    BY <2>1, <2>2, <2>3
<1>10. new = Append(old, k)
  <2> HIDE DEF new, old
  <2> QED
    BY <1>7, <1>8, <1>9, SeqEqual
<1> QED
  BY <1>10

(* Moving the tail of a ring that is not empty removes the oldest key.     *)
LEMMA DequeueRemovesHead ==
    ASSUME NEW b \in Ring, NEW h \in Slots, NEW t \in Slots,
           KeysBetween(b, h, t) \in Seq(Keys), h # t
    PROVE  /\ KeysBetween(b, h, t) # <<>>
           /\ b[t] = Head(KeysBetween(b, h, t))
           /\ KeysBetween(b, h, Succ(t)) = Tail(KeysBetween(b, h, t))
<1> DEFINE n == Between(h, t)
           old == KeysBetween(b, h, t)
           new == KeysBetween(b, h, Succ(t))
<1>1. /\ Succ(t) \in Slots
      /\ n \in 1 .. N - 1
      /\ Between(h, Succ(t)) = n - 1
  BY RingArithmetic
<1>2. \A i \in 1 .. n : b[Slot(t + i - 1)] \in Keys
  BY SlotsHoldKeys
<1>3. /\ old \in Seq(Keys)
      /\ Len(old) = n
      /\ \A i \in 1 .. n : old[i] = b[Slot(t + i - 1)]
  BY <1>2, KeysAreSeq
<1>4. old # <<>>
  BY <1>1, <1>3
<1>5. Head(old) = b[t]
  <2>1. Slot(t + 1 - 1) = t
    BY DEF Slots, Slot
  <2>2. Head(old) = old[1]
    BY <1>4
  <2> QED
    BY <1>1, <1>3, <2>1, <2>2
<1>6. \A i \in 1 .. n - 1 : b[Slot(Succ(t) + i - 1)] = b[Slot(t + (i + 1) - 1)]
  <2> TAKE i \in 1 .. n - 1
  <2>1. i \in 1 .. N - 1
    BY <1>1
  <2> QED
    BY <2>1, RingArithmetic
<1>7. \A i \in 1 .. n - 1 : b[Slot(Succ(t) + i - 1)] \in Keys
  <2> TAKE i \in 1 .. n - 1
  <2>1. i + 1 \in 1 .. n
    BY <1>1
  <2>2. b[Slot(t + (i + 1) - 1)] \in Keys
    BY <1>2, <2>1
  <2> QED
    BY <1>6, <2>2
<1>8. /\ new \in Seq(Keys)
      /\ Len(new) = n - 1
      /\ \A i \in 1 .. n - 1 : new[i] = b[Slot(Succ(t) + i - 1)]
  BY <1>1, <1>7, KeysAreSeq
<1>9. /\ Tail(old) \in Seq(Keys)
      /\ Len(Tail(old)) = n - 1
      /\ \A i \in 1 .. n - 1 : Tail(old)[i] = old[i + 1]
  <2> HIDE DEF old
  <2> QED
    BY <1>3, <1>4, HeadTailProperties
<1>10. \A i \in 1 .. Len(new) : new[i] = Tail(old)[i]
  <2> TAKE i \in 1 .. Len(new)
  <2>1. i \in 1 .. n - 1 /\ i + 1 \in 1 .. n
    BY <1>1, <1>8
  <2>2. new[i] = b[Slot(t + (i + 1) - 1)]
    BY <1>6, <1>8, <2>1
  <2>3. Tail(old)[i] = b[Slot(t + (i + 1) - 1)]
    BY <1>3, <1>9, <2>1
  <2> QED
    BY <2>2, <2>3
<1>11. new = Tail(old)
  <2> HIDE DEF new, old
  <2> QED
    BY <1>8, <1>9, <1>10, SeqEqual
<1> QED
  BY <1>4, <1>5, <1>11

(* A ring whose tail has caught up with its head is empty.                 *)
LEMMA EmptyRing ==
    ASSUME NEW b \in Ring, NEW h \in Slots
    PROVE  KeysBetween(b, h, h) = <<>>
<1>1. Between(h, h) = 0
  BY RingArithmetic
<1>2. 1 .. 0 = {}
  OBVIOUS
<1> QED
  BY <1>1, <1>2 DEF KeysBetween

-----------------------------------------------------------------------------
(* Each step keeps the type and is a step of the queue.                    *)
LEMMA StepImplements ==
    ASSUME TypeOK, Next
    PROVE  TypeOK' /\ Queue!Next
<1> USE DEF TypeOK
<1>1. /\ keybuf \in Ring
      /\ keybuf_head \in Slots
      /\ keybuf_tail \in Slots
  BY DEF Ring
<1>2. Contents = <<>> <=> IsEmpty
  BY <1>1, EmptyRing, DequeueRemovesHead DEF Contents, IsEmpty
<1>3. Len(Contents) = Between(keybuf_head, keybuf_tail)
  BY <1>1, SlotsHoldKeys, KeysAreSeq DEF Contents
<1>4. Len(Contents) < N - 1 <=> ~IsFull
  BY <1>1, <1>3, RingArithmetic DEF IsFull
<1>5. ASSUME NEW k \in Keys, Put(k)
      PROVE  TypeOK' /\ Queue!Put(k)
  <2>1. Contents' = Append(Contents, k)
    BY <1>1, <1>5, EnqueueAppends DEF Put, IsFull, Contents
  <2>2. Contents' \in Seq(Keys)
    BY <2>1, AppendProperties
  <2>3. TypeOK'
    BY <1>1, <1>5, <2>2, RingArithmetic DEF Put, Slots
  <2> QED
    BY <1>4, <1>5, <2>1, <2>3 DEF Put, Queue!Put
<1>6. ASSUME NEW k \in Keys, Drop(k)
      PROVE  TypeOK' /\ Queue!Drop(k)
  <2>1. Contents' = Contents
    BY <1>6 DEF Drop, vars, Contents
  <2>2. Len(Contents) = N - 1
    BY <1>1, <1>3, <1>6, RingArithmetic DEF Drop, IsFull
  <2> QED
    BY <1>6, <2>1, <2>2 DEF Drop, vars, Slots, Queue!Drop, Queue!qVars
<1>7. ASSUME NEW k \in Keys, TakeAndPut(k)
      PROVE  TypeOK' /\ Queue!TakeAndPut(k)
  <2> DEFINE rest == KeysBetween(keybuf, keybuf_head, Succ(keybuf_tail))
  <2>1. /\ Contents # <<>>
        /\ acted' = Head(Contents)
        /\ rest = Tail(Contents)
    BY <1>1, <1>7, DequeueRemovesHead DEF TakeAndPut, IsEmpty, Contents
  <2>2. rest \in Seq(Keys) /\ acted' \in Keys
    BY <2>1, HeadTailProperties
  <2>3. Succ(keybuf_tail) \in Slots
    BY <1>1, RingArithmetic
  <2>4. Succ(keybuf_head) # Succ(keybuf_tail)
    BY <1>1, <1>7 DEF TakeAndPut, IsEmpty, Succ, Slots
  <2>5. /\ keybuf' = [keybuf EXCEPT ![keybuf_head] = k]
        /\ keybuf_head' = Succ(keybuf_head)
        /\ keybuf_tail' = Succ(keybuf_tail)
    BY <1>7, <2>4 DEF TakeAndPut
  <2>6. Contents' = Append(rest, k)
    BY <1>1, <2>2, <2>3, <2>4, <2>5, EnqueueAppends DEF Contents
  <2>7. Contents' \in Seq(Keys)
    BY <2>2, <2>6, AppendProperties
  <2>8. TypeOK'
    BY <1>1, <2>2, <2>5, <2>7, RingArithmetic DEF Slots
  <2> QED
    BY <2>1, <2>6, <2>8 DEF Queue!TakeAndPut
<1>8. ASSUME NEW k \in Keys, Direct(k)
      PROVE  TypeOK' /\ Queue!Direct(k)
  <2>1. Contents' = Contents
    BY <1>8 DEF Direct, Contents
  <2> QED
    BY <1>2, <1>8, <2>1 DEF Direct, Slots, Queue!Direct
<1>9. ASSUME Take
      PROVE  TypeOK' /\ Queue!Take
  <2>1. /\ Contents # <<>>
        /\ acted' = Head(Contents)
        /\ Contents' = Tail(Contents)
    BY <1>1, <1>9, DequeueRemovesHead DEF Take, IsEmpty, Contents
  <2>2. Contents' \in Seq(Keys) /\ acted' \in Keys
    BY <2>1, HeadTailProperties
  <2>3. TypeOK'
    BY <1>1, <1>9, <2>2, RingArithmetic DEF Take, Slots
  <2> QED
    BY <2>1, <2>3 DEF Queue!Take
<1>10. ASSUME Flush
       PROVE  TypeOK' /\ Queue!Flush
  <2>1. Contents' = <<>>
    BY <1>1, <1>10, EmptyRing DEF Flush, Contents
  <2>2. Contents' \in Seq(Keys)
    BY <2>1, EmptySeq
  <2> QED
    BY <1>1, <1>10, <2>1, <2>2 DEF Flush, Slots, Queue!Flush
<1> QED
  BY <1>5, <1>6, <1>7, <1>8, <1>9, <1>10 DEF Next, Queue!Next

(* keybuf_head and keybuf_tail stay inside the ring, and only slots that   *)
(* were written are ever read.                                             *)
THEOREM TypeCorrect == Spec => []TypeOK
<1>1. Init => TypeOK
  <2> SUFFICES ASSUME Init
               PROVE  TypeOK
    OBVIOUS
  <2>1. 0 \in Slots
    BY DEF Slots
  <2>2. keybuf \in Ring
    BY DEF Init, Ring
  <2>3. Contents = <<>>
    BY <2>1, <2>2, EmptyRing DEF Init, Contents
  <2> QED
    BY <2>1, <2>2, <2>3, EmptySeq DEF Init, TypeOK, Ring
<1>2. TypeOK /\ [Next]_vars => TypeOK'
  <2> SUFFICES ASSUME TypeOK, [Next]_vars
               PROVE  TypeOK'
    OBVIOUS
  <2>1. CASE Next
    BY <2>1, StepImplements
  <2>2. CASE UNCHANGED vars
    BY <2>2 DEF vars, TypeOK, Contents, Slots
  <2> QED
    BY <2>1, <2>2
<1> QED
  BY <1>1, <1>2, PTL DEF Spec

(* core_keydown_2() and dequeue_key() use keybuf[] as a first-in first-out *)
(* queue of N - 1 keys.                                                    *)
THEOREM RingIsQueue == Spec => QueueSpec
<1>1. Init => Queue!Init
  <2> SUFFICES ASSUME Init
               PROVE  Queue!Init
    OBVIOUS
  <2>1. 0 \in Slots
    BY DEF Slots
  <2>2. keybuf \in Ring
    BY DEF Init, Ring
  <2>3. Contents = <<>>
    BY <2>1, <2>2, EmptyRing DEF Init, Contents
  <2> QED
    BY <2>3 DEF Init, Queue!Init
<1>2. TypeOK /\ [Next]_vars => [Queue!Next]_(Queue!qVars)
  <2> SUFFICES ASSUME TypeOK, [Next]_vars
               PROVE  [Queue!Next]_(Queue!qVars)
    OBVIOUS
  <2>1. CASE Next
    BY <2>1, StepImplements
  <2>2. CASE UNCHANGED vars
    BY <2>2 DEF vars, Queue!qVars, Contents
  <2> QED
    BY <2>1, <2>2
<1> QED
  BY <1>1, <1>2, TypeCorrect, PTL DEF Spec, QueueSpec, Queue!Spec

=============================================================================

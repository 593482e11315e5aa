------------------------------ MODULE KeyBuffer -----------------------------
(***************************************************************************)
(* keybuf[], keybuf_head and keybuf_tail (core_globals.cc): the type-ahead *)
(* buffer is a ring of which one slot always stays free, because an equal  *)
(* head and tail stand for the empty buffer. Slots are never cleared.      *)
(***************************************************************************)
EXTENDS Naturals, Sequences

CONSTANTS
    Keys,     \* key codes; a shifted one is stored negated
    NoKey,    \* the 0 that a slot holds before it is first used
    N         \* the number of slots: 16

ASSUME NAssumption == N \in Nat /\ N > 1
ASSUME NoKeyAssumption == NoKey \notin Keys

VARIABLES
    keybuf,
    keybuf_head,
    keybuf_tail,
    acted           \* history: the key that was given to keydown() last, since
                    \* the buffer was last emptied

vars == <<keybuf, keybuf_head, keybuf_tail, acted>>

Slots == 0 .. N - 1

(* A plausible slip: the mask is one bit too wide. *)
SuccUnwrapped(i) == i + 1

(* (i + 1) & 15 *)
Succ(i) == IF i = N - 1 THEN 0 ELSE i + 1

IsEmpty == keybuf_head = keybuf_tail

IsFull == Succ(keybuf_head) = keybuf_tail

Init ==
    /\ keybuf = [i \in Slots |-> NoKey]
    /\ keybuf_head = 0
    /\ keybuf_tail = 0
    /\ acted = NoKey

(* A plausible slip: the slot that must stay free is filled. *)
PutWithoutTest(k) ==
    /\ keybuf' = [keybuf EXCEPT ![keybuf_head] = k]
    /\ keybuf_head' = Succ(keybuf_head)
    /\ UNCHANGED <<keybuf_tail, acted>>

(* Enqueue, in each of the three places of core_keydown_2() that do it *)
Put(k) ==
    /\ ~IsFull
    /\ keybuf' = [keybuf EXCEPT ![keybuf_head] = k]
    /\ keybuf_head' = Succ(keybuf_head)
    /\ UNCHANGED <<keybuf_tail, acted>>

Drop(k) ==
    /\ IsFull
    /\ UNCHANGED vars

(* The dequeueing branch of core_keydown_2() without a new key, and         *)
(* dequeue_key()                                                            *)
Take ==
    /\ ~IsEmpty
    /\ acted' = keybuf[keybuf_tail]
    /\ keybuf_tail' = Succ(keybuf_tail)
    /\ UNCHANGED <<keybuf, keybuf_head>>

(* The dequeueing branch with a new key, whose test for a full buffer comes *)
(* after the tail has moved                                                 *)
TakeAndPut(k) ==
    /\ ~IsEmpty
    /\ acted' = keybuf[keybuf_tail]
    /\ keybuf_tail' = Succ(keybuf_tail)
    /\ IF Succ(keybuf_head) # Succ(keybuf_tail)
         THEN /\ keybuf' = [keybuf EXCEPT ![keybuf_head] = k]
              /\ keybuf_head' = Succ(keybuf_head)
         ELSE UNCHANGED <<keybuf, keybuf_head>>

(* The last branch of core_keydown_2(), reached only when head = tail *)
Direct(k) ==
    /\ IsEmpty
    /\ acted' = k
    /\ UNCHANGED <<keybuf, keybuf_head, keybuf_tail>>

(* keybuf_tail = keybuf_head: EXIT or R/S during execution, a power cycle *)
Flush ==
    /\ keybuf_tail' = keybuf_head
    /\ acted' = NoKey
    /\ UNCHANGED <<keybuf, keybuf_head>>

Next ==
    \/ \E k \in Keys : Put(k) \/ Drop(k) \/ TakeAndPut(k) \/ Direct(k)
    \/ Take
    \/ Flush

Spec == Init /\ [][Next]_vars

-----------------------------------------------------------------------------
(* The number of keys between a tail and a head, their sequence, and the   *)
(* queue that the ring stands for                                          *)
Between(h, t) == IF h >= t THEN h - t ELSE h + N - t

Slot(i) == IF i < N THEN i ELSE i - N

KeysBetween(b, h, t) == [i \in 1 .. Between(h, t) |-> b[Slot(t + i - 1)]]

Contents == KeysBetween(keybuf, keybuf_head, keybuf_tail)

(* The indices stay inside the ring and every slot between tail and head   *)
(* holds a key: no key is read from a slot that was never written.         *)
TypeOK ==
    /\ keybuf \in [Slots -> Keys \cup {NoKey}]
    /\ keybuf_head \in Slots
    /\ keybuf_tail \in Slots
    /\ acted \in Keys \cup {NoKey}
    /\ Contents \in Seq(Keys)

Queue == INSTANCE KeyQueue WITH queue <- Contents, Cap <- N - 1

(* The ring of N slots is a first-in first-out queue of at most N - 1 keys *)
(* at every position of head and tail, wrapped around or not: no key is    *)
(* overwritten, skipped or read twice, and none is dropped while there is  *)
(* room for it.                                                            *)
QueueSpec == Queue!Spec

=============================================================================

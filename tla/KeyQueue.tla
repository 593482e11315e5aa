------------------------------ MODULE KeyQueue ------------------------------
(***************************************************************************)
(* What the core promises about type-ahead, without the ring buffer and    *)
(* the modes of the calculator: keys that cannot be acted upon yet wait in *)
(* a queue, and no key is acted upon before the keys pressed before it.    *)
(***************************************************************************)
EXTENDS Naturals, Sequences

CONSTANTS
    Keys,    \* key strokes, shifted ones included
    NoKey,   \* none of them
    Cap      \* how many of them may wait

VARIABLES
    queue,   \* the keys that wait, the oldest first
    acted    \* the key that was acted upon last, since the queue was last flushed

qVars == <<queue, acted>>

Init ==
    /\ queue = <<>>
    /\ acted = NoKey

(* A key is pressed that has to wait; without room for it, it is lost. *)
Put(k) ==
    /\ Len(queue) < Cap
    /\ queue' = Append(queue, k)
    /\ UNCHANGED acted

Drop(k) ==
    /\ Len(queue) = Cap
    /\ UNCHANGED qVars

(* The key that has waited longest is acted upon. *)
Take ==
    /\ queue # <<>>
    /\ acted' = Head(queue)
    /\ queue' = Tail(queue)

(* The same, and a key that is pressed meanwhile takes the free place. *)
TakeAndPut(k) ==
    /\ queue # <<>>
    /\ acted' = Head(queue)
    /\ queue' = Append(Tail(queue), k)

(* A key is acted upon at once, which it only may when none is waiting. *)
Direct(k) ==
    /\ queue = <<>>
    /\ acted' = k
    /\ UNCHANGED queue

(* The keys that wait are forgotten. *)
Flush ==
    /\ queue' = <<>>
    /\ acted' = NoKey

Next ==
    \/ \E k \in Keys : Put(k) \/ Drop(k) \/ TakeAndPut(k) \/ Direct(k)
    \/ Take
    \/ Flush

Spec == Init /\ [][Next]_qVars

=============================================================================

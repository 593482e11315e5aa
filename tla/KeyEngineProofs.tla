-------------------------- MODULE KeyEngineProofs ---------------------------
(***************************************************************************)
(* The event handlers of the core and the shell, for every set of keys and *)
(* every size of the type-ahead buffer.                                    *)
(*                                                                         *)
(* A core call is a set of results, so there is a lemma for each part of a *)
(* call, which says of every result what the invariants need to know.      *)
(***************************************************************************)
EXTENDS KeyEngine, SequenceTheorems, TLAPS

USE KeysAssumption, CapAssumption, UnknownKeysAssumption

(* A pending command that a release is going to execute *)
HeldPendings == {"cmd", "run", "linger1", "off"}

(* The core, with a type-ahead buffer that is not too long *)
Bounded(c) == Len(c.buf) <= Cap

Results ==
    [c : Core, keep : BOOLEAN, enq : BOOLEAN, rep : BOOLEAN, t3 : BOOLEAN,
     quit : BOOLEAN, out : Outcomes]

(* The program or the keys typed ahead need another call of the core *)
NeedsCall(c) == (c.running /\ (c.getkey = "no" \/ c.intr # "no")) \/ c.buf # <<>>

(* Type-ahead goes from c to d as KeyQueue says it may. *)
QueueMoves(c, d) ==
    \/ d.buf = c.buf /\ d.acted = c.acted
    \/ \E s \in Strokes : Len(c.buf) < Cap /\ d.buf = Append(c.buf, s) /\ d.acted = c.acted
    \/ c.buf # <<>> /\ d.acted = Head(c.buf) /\ d.buf = Tail(c.buf)
    \/ \E s \in Strokes : c.buf # <<>> /\ d.acted = Head(c.buf) /\ d.buf = Append(Tail(c.buf), s)
    \/ \E s \in Strokes : c.buf = <<>> /\ d.acted = s /\ d.buf = <<>>
    \/ d.buf = <<>> /\ d.acted = NoStroke

(* c and d differ in shift and the buffer at most *)
SameModes(c, d) ==
    /\ d.running = c.running /\ d.getkey = c.getkey /\ d.pause = c.pause
    /\ d.intr = c.intr /\ d.pending = c.pending
    /\ d.repeating = c.repeating /\ d.repeat = c.repeat

-----------------------------------------------------------------------------
(* The type-ahead buffer *)

LEMMA EnqueueResult ==
    ASSUME NEW c \in Core, Bounded(c), NEW k \in Keys \cup {NoKey},
           NEW d, d = Enqueue(c, k)
    PROVE  /\ d \in Core /\ Bounded(d)
           /\ SameModes(c, d)
           /\ d.acted = c.acted
           /\ k = NoKey => d = c
           /\ \/ d.buf = c.buf
              \/ \E s \in Strokes : Len(c.buf) < Cap /\ d.buf = Append(c.buf, s)
<1>1. c.buf \in Seq(Strokes) /\ Len(c.buf) \in Nat
  BY DEF Core
<1>2. CASE k = NoKey
  BY <1>2 DEF Enqueue, SameModes
<1>3. CASE k \in Keys
  <2> DEFINE s == Stroke(k, c.shift)
  <2>1. s \in Strokes /\ k # NoKey
    BY <1>3 DEF Stroke, Strokes, Core
  <2> DEFINE b == IF Len(c.buf) < Cap THEN Append(c.buf, s) ELSE c.buf
  <2> HIDE DEF s
  <2>2. b \in Seq(Strokes) /\ Len(b) <= Cap
    BY <1>1, <2>1, AppendProperties DEF Bounded
  <2>3. d = [c EXCEPT !.buf = b, !.shift = FALSE]
    BY <2>1 DEF Enqueue, s, Core
  <2>4. b = c.buf \/ (Len(c.buf) < Cap /\ b = Append(c.buf, s))
    OBVIOUS
  <2> HIDE DEF b
  <2>5. d \in Core /\ SameModes(c, d) /\ d.acted = c.acted /\ d.buf = b
    BY <2>2, <2>3 DEF Core, SameModes
  <2> QED
    BY <2>1, <2>2, <2>4, <2>5 DEF Bounded
<1> QED
  BY <1>2, <1>3

LEMMA DequeueResult ==
    ASSUME NEW c \in Core, Bounded(c), c.buf # <<>>,
           NEW d, d = Dequeue(c)
    PROVE  /\ d \in Core /\ Len(d.buf) < Cap /\ Bounded(d)
           /\ SameModes(c, d)
           /\ d.buf = Tail(c.buf)
           /\ d.acted = Head(c.buf)
           /\ Head(c.buf) \in Strokes
<1>1. c.buf \in Seq(Strokes) /\ Len(c.buf) \in Nat
  BY DEF Core
<1>2. /\ Tail(c.buf) \in Seq(Strokes)
      /\ Len(Tail(c.buf)) = Len(c.buf) - 1
      /\ Head(c.buf) \in Strokes
  BY <1>1, HeadTailProperties
<1>3. d \in Core /\ SameModes(c, d) /\ d.buf = Tail(c.buf) /\ d.acted = Head(c.buf)
  BY <1>2 DEF Dequeue, Core, SameModes
<1> QED
  BY <1>1, <1>2, <1>3 DEF Bounded

LEMMA FlushedResult ==
    ASSUME NEW c \in Core, NEW d, d = Flushed(c)
    PROVE  /\ d \in Core /\ Bounded(d)
           /\ SameModes(c, d)
           /\ d.buf = <<>>
           /\ d.acted = NoStroke
<1>1. d \in Core /\ SameModes(c, d) /\ d.buf = <<>> /\ d.acted = NoStroke
  BY EmptySeq DEF Flushed, Core, SameModes
<1> QED
  BY <1>1, EmptySeq DEF Bounded

(* A step that changes nothing but modes leaves the buffer as it is.       *)
LEMMA PendingResult ==
    ASSUME NEW c \in Core, NEW p \in Pendings, NEW d, d = Pending(c, p)
    PROVE  /\ d \in Core
           /\ d.buf = c.buf /\ d.acted = c.acted
           /\ d.running = c.running /\ d.getkey = c.getkey /\ d.pause = c.pause
           /\ d.intr = c.intr /\ d.pending = p
           /\ d.repeating = c.repeating /\ d.repeat = c.repeat
BY DEF Pending, Core

-----------------------------------------------------------------------------
(* keydown() *)

(* A key acted upon that is not for a running program. Only one that a     *)
(* release will execute makes a command pending, and a key repeats only if *)
(* nothing waits for a key.                                                *)
LEMMA KeydownResult ==
    ASSUME NEW c \in Core, NEW s \in Strokes, NEW d \in Keydown(c, s),
           ~(c.running /\ c.getkey = "no")
    PROVE  /\ d \in Core
           /\ d.buf = c.buf /\ d.acted = s
           /\ d.pause = c.pause /\ d.intr = c.intr
           /\ d.pending # "none" => d.getkey = "no" /\ ~d.running
           /\ d.repeating => c.repeating \/ (d.getkey = "no" /\ ~d.running)
<1> DEFINE e == [c EXCEPT !.pending = "none", !.acted = s]
<1>1. /\ e \in Core
      /\ e.buf = c.buf /\ e.acted = s /\ e.pause = c.pause /\ e.intr = c.intr
      /\ e.pending = "none" /\ e.getkey = c.getkey /\ e.running = c.running
      /\ e.repeating = c.repeating
  BY DEF Core, Pendings
<1>2. CASE c.getkey # "no"
  <2>1. d \in GetkeyGets(e, s)
    BY <1>1, <1>2 DEF Keydown
  <2> HIDE DEF e
  <2>2. \/ d = e
        \/ \E x \in BOOLEAN : d = [e EXCEPT !.getkey = "no", !.running = x]
    BY <1>1, <2>1 DEF GetkeyGets, Core, Getkeys
  <2>3. CASE d = e
    BY <1>1, <2>3
  <2>4. ASSUME NEW x \in BOOLEAN, d = [e EXCEPT !.getkey = "no", !.running = x]
        PROVE  /\ d \in Core /\ d.buf = e.buf /\ d.acted = e.acted /\ d.pause = e.pause
               /\ d.intr = e.intr /\ d.pending = e.pending /\ d.repeating = e.repeating
    BY <1>1, <2>4 DEF Core, Getkeys
  <2> QED
    BY <1>1, <2>2, <2>3, <2>4
<1>3. CASE c.getkey = "no"
  <2>1. \/ \E p \in Pendings : d = Pending(e, p)
        \/ d = e
        \/ d = [e EXCEPT !.running = TRUE]
        \/ \E p \in Pendings : d = [Pending(e, p) EXCEPT !.repeating = TRUE, !.repeat = s]
    BY <1>1, <1>3 DEF Keydown, OtherKey, Pendings
  <2> HIDE DEF e
  <2>2. CASE d = e
    BY <1>1, <1>3, <2>2 DEF Core
  <2>3. CASE d = [e EXCEPT !.running = TRUE]
    BY <1>1, <1>3, <2>3 DEF Core
  <2>4. ASSUME NEW p \in Pendings, d = Pending(e, p)
        PROVE  /\ d \in Core /\ d.buf = e.buf /\ d.acted = e.acted /\ d.pause = e.pause
               /\ d.intr = e.intr /\ d.getkey = e.getkey /\ d.running = e.running
    BY <1>1, <2>4, PendingResult
  <2>5. ASSUME NEW p \in Pendings, d = [Pending(e, p) EXCEPT !.repeating = TRUE, !.repeat = s]
        PROVE  /\ d \in Core /\ d.buf = e.buf /\ d.acted = e.acted /\ d.pause = e.pause
               /\ d.intr = e.intr /\ d.getkey = e.getkey /\ d.running = e.running
    BY <1>1, <2>5 DEF Pending, Core
  <2> QED
    BY <1>1, <1>3, <2>1, <2>2, <2>3, <2>4, <2>5
<1> QED
  BY <1>2, <1>3

-----------------------------------------------------------------------------
(* core_keyup() *)

LEMMA ResultFields ==
    ASSUME NEW c \in Core, NEW keep \in BOOLEAN
    PROVE  /\ Result(c, keep) \in Results
           /\ Result(c, keep).c = c
           /\ Result(c, keep).keep = keep
           /\ ~Result(c, keep).enq /\ ~Result(c, keep).rep
           /\ ~Result(c, keep).t3 /\ ~Result(c, keep).quit
BY DEF Result, Results, Outcomes

LEMMA QuitFields ==
    ASSUME NEW c \in Core, NEW r, r = [Result(c, FALSE) EXCEPT !.quit = TRUE]
    PROVE  r \in Results /\ r.c = c /\ ~r.rep /\ ~r.enq /\ ~r.t3
BY DEF Result, Results, Outcomes

(* The command that a release executes *)
LEMMA CommandResult ==
    ASSUME NEW c \in Core, NEW r \in Command(c), c.intr = "no", ~c.pause
    PROVE  /\ r \in Results
           /\ r.c.buf = c.buf /\ r.c.acted = c.acted
           /\ r.c.pause = c.pause /\ r.c.repeating = c.repeating
           /\ r.c.pending = "none"
           /\ r.c.intr = "no" \/ r.c.getkey = c.getkey
           /\ r.quit \/ (NeedsCall(r.c) => r.keep)
           /\ ~r.rep /\ ~r.enq /\ ~r.t3
<1> DEFINE e == Pending(c, "none")
<1>1. /\ e \in Core
      /\ e.buf = c.buf /\ e.acted = c.acted /\ e.pause = c.pause
      /\ e.intr = "no" /\ e.pending = "none" /\ e.repeating = c.repeating
      /\ e.getkey = c.getkey
  BY PendingResult DEF Pendings
<1>2. \/ \E d \in {e} \cup GetkeyWait(e) : r = Result(d, WantsCpu(d))
      \/ \E d \in Starting(e) : r = Result(d, TRUE)
      \/ r = Result([e EXCEPT !.running = TRUE], TRUE)
      \/ r = [Result(e, FALSE) EXCEPT !.quit = TRUE]
  BY DEF Command
<1> HIDE DEF e
<1>3. ASSUME NEW d \in {e} \cup GetkeyWait(e), r = Result(d, WantsCpu(d))
      PROVE  /\ r \in Results /\ r.c = d /\ ~r.rep /\ ~r.enq /\ ~r.t3
             /\ d.buf = e.buf /\ d.acted = e.acted /\ d.pause = e.pause
             /\ d.pending = e.pending /\ d.repeating = e.repeating /\ d.intr = "no"
             /\ NeedsCall(d) => r.keep
  <2>1. d \in Core /\ d.buf = e.buf /\ d.acted = e.acted /\ d.pause = e.pause /\ d.intr = e.intr
        /\ d.pending = e.pending /\ d.repeating = e.repeating
    BY <1>1 DEF GetkeyWait, Core, Getkeys
  <2>2. WantsCpu(d) \in BOOLEAN /\ (NeedsCall(d) => WantsCpu(d))
    BY <1>1, <2>1 DEF WantsCpu, NeedsCall, Core
  <2> QED
    BY <1>1, <1>3, <2>1, <2>2, ResultFields
<1>4. ASSUME NEW d \in Starting(e) \cup {[e EXCEPT !.running = TRUE]}, r = Result(d, TRUE)
      PROVE  /\ r \in Results /\ r.c = d /\ ~r.rep /\ ~r.enq /\ ~r.t3
             /\ d.buf = e.buf /\ d.acted = e.acted /\ d.pause = e.pause
             /\ d.pending = e.pending /\ d.repeating = e.repeating /\ d.getkey = e.getkey
             /\ r.keep
  <2>1. d \in Core /\ d.buf = e.buf /\ d.acted = e.acted /\ d.pause = e.pause
        /\ d.pending = e.pending /\ d.repeating = e.repeating /\ d.getkey = e.getkey
    <3>1. CASE d \in Starting(e)
      BY <1>1, <3>1 DEF Starting, Core, Workers
    <3>2. CASE d = [e EXCEPT !.running = TRUE]
      BY <1>1, <3>2 DEF Core
    <3> QED
      BY <3>1, <3>2
  <2> QED
    BY <1>4, <2>1, ResultFields
<1>5. CASE r = [Result(e, FALSE) EXCEPT !.quit = TRUE]
  <2>1. r.quit
    BY <1>5 DEF Result
  <2> QED
    BY <1>1, <1>5, <2>1, QuitFields
<1> QED
  BY <1>1, <1>2, <1>3, <1>4, <1>5

(* A release executes what is pending, at most. *)
LEMMA KeyupResult ==
    ASSUME NEW c \in Core, NEW r \in Keyup(c), c.pending = "cmd" => c.intr = "no"
    PROVE  /\ r \in Results
           /\ r.c.buf = c.buf /\ r.c.acted = c.acted
           /\ r.c.pause = c.pause /\ r.c.repeating = c.repeating
           /\ r.c.pending \in HeldPendings => c.pause /\ r.c = c
           /\ r.c.intr = c.intr \/ (c.pending = "cmd" /\ r.c.getkey = c.getkey)
           /\ r.quit \/ (NeedsCall(r.c) => r.keep \/ c.pause)
           /\ ~r.rep /\ ~r.enq /\ ~r.t3
<1> DEFINE queued == c.running \/ c.buf # <<>>
<1>1. queued \in BOOLEAN /\ c.pending \in Pendings
  BY DEF Core
<1>2. CASE c.pause
  <2>1. r = Result(c, FALSE)
    BY <1>2 DEF Keyup
  <2> QED
    BY <1>2, <2>1, ResultFields
<1>3. CASE ~c.pause /\ c.pending = "cmd"
  BY <1>3, CommandResult DEF Keyup, HeldPendings
<1>4. CASE ~c.pause /\ c.pending # "cmd"
  <2>1. \/ \E p \in {"none", "linger2"}, keep \in BOOLEAN :
              /\ r = Result(Pending(c, p), keep)
              /\ queued => keep
        \/ r = Result(c, queued \/ c.intr # "no") /\ c.pending = "none"
        \/ r = [Result(Pending(c, "none"), FALSE) EXCEPT !.quit = TRUE]
        \/ r = Result([Pending(c, "none") EXCEPT !.running = TRUE], TRUE)
    <3>1. CASE c.pending \in {"linger1", "linger2"}
      BY <1>1, <1>4, <3>1 DEF Keyup
    <3>2. CASE c.pending = "off"
      BY <1>4, <3>2 DEF Keyup
    <3>3. CASE c.pending = "none"
      BY <1>4, <3>3 DEF Keyup
    <3>4. CASE c.pending = "cancelled"
      BY <1>1, <1>4, <3>4 DEF Keyup
    <3>5. CASE c.pending = "run"
      BY <1>1, <1>4, <3>5 DEF Keyup
    <3> QED
      BY <1>1, <1>4, <3>1, <3>2, <3>3, <3>4, <3>5 DEF Pendings
  <2>2. ASSUME NEW p \in {"none", "linger2"}, NEW keep \in BOOLEAN,
               r = Result(Pending(c, p), keep), queued => keep
        PROVE  /\ r \in Results
               /\ r.c.buf = c.buf /\ r.c.acted = c.acted
               /\ r.c.pause = c.pause /\ r.c.repeating = c.repeating
               /\ r.c.pending \notin HeldPendings /\ r.c.intr = c.intr
               /\ NeedsCall(r.c) => r.keep
               /\ ~r.rep /\ ~r.enq /\ ~r.t3
    <3>1. Pending(c, p) \in Core /\ Pending(c, p).running = c.running
          /\ Pending(c, p).buf = c.buf /\ Pending(c, p).acted = c.acted
          /\ Pending(c, p).pause = c.pause /\ Pending(c, p).pending = p
          /\ Pending(c, p).repeating = c.repeating /\ Pending(c, p).intr = c.intr
      BY PendingResult DEF Pendings
    <3> QED
      BY <2>2, <3>1, ResultFields DEF NeedsCall, HeldPendings
  <2>3. CASE r = Result(c, queued \/ c.intr # "no") /\ c.pending = "none"
    BY <1>1, <2>3, ResultFields DEF NeedsCall, HeldPendings
  <2>4. CASE r = [Result(Pending(c, "none"), FALSE) EXCEPT !.quit = TRUE]
    <3>1. r.quit
      BY <2>4 DEF Result
    <3>2. Pending(c, "none") \in Core
          /\ Pending(c, "none").buf = c.buf /\ Pending(c, "none").acted = c.acted
          /\ Pending(c, "none").pause = c.pause /\ Pending(c, "none").pending = "none"
          /\ Pending(c, "none").repeating = c.repeating /\ Pending(c, "none").intr = c.intr
      BY PendingResult DEF Pendings
    <3> QED
      BY <2>4, <3>1, <3>2, QuitFields DEF HeldPendings
  <2>5. CASE r = Result([Pending(c, "none") EXCEPT !.running = TRUE], TRUE)
    <3> DEFINE d == [Pending(c, "none") EXCEPT !.running = TRUE]
    <3>1. /\ d \in Core /\ d.buf = c.buf /\ d.acted = c.acted
          /\ d.pause = c.pause /\ d.pending = "none" /\ d.repeating = c.repeating
          /\ d.intr = c.intr
      BY DEF Pending, Core, Pendings
    <3> QED
      BY <2>5, <3>1, ResultFields DEF HeldPendings
  <2> QED
    BY <2>1, <2>2, <2>3, <2>4, <2>5
<1> QED
  BY <1>2, <1>3, <1>4

-----------------------------------------------------------------------------
(* core_keydown_2() *)

(* What is the same for every branch that is given the new key k, NoKey or *)
(* one of the calculator's: types, type-ahead, and that the core asks for  *)
(* another call if it needs one and the key k, if it is queued, does not   *)
(* lead to one when it is released.                                        *)
Branch(c, k, r) ==
    /\ r \in Results /\ Bounded(r.c)
    /\ QueueMoves(c, r.c)
    /\ r.c.pause => r.t3
    /\ ~r.quit /\ (k = NoKey \/ r.enq) /\ NeedsCall(r.c) => r.keep \/ r.c.pause

(* In all branches but the last no command becomes pending and no key      *)
(* starts to repeat.                                                       *)
NothingPends(c, r) ==
    /\ r.c.pending \in HeldPendings => r.c.pending = c.pending
    /\ ~r.rep

(* A call of a worker *)
LEMMA WorkResult ==
    ASSUME NEW c \in Core, c.intr # "no", ~c.pause, NEW r \in Work(c)
    PROVE  /\ r \in Results
           /\ r.c.buf = c.buf /\ r.c.acted = c.acted
           /\ ~r.c.pause
           /\ r.c.pending \in {c.pending, "none"}
           /\ NeedsCall(r.c) => r.keep
           /\ ~r.rep
<1> DEFINE done == [c EXCEPT !.intr = "no"]
           Ended(out, running) ==
               [Result([done EXCEPT !.running = running], running \/ c.buf # <<>>)
                   EXCEPT !.out = out]
<1>1. \/ r = Result(c, TRUE)
      \/ \E out \in Outcomes, running \in BOOLEAN : r = Ended(out, running)
      \/ r = Result([done EXCEPT !.pending = "none"], c.buf # <<>>) /\ ~c.running
  BY DEF Work, Outcomes
<1>2. CASE r = Result(c, TRUE)
  BY <1>2, ResultFields
<1>3. ASSUME NEW out \in Outcomes, NEW running \in BOOLEAN, r = Ended(out, running)
      PROVE  /\ r \in Results
             /\ r.c.buf = c.buf /\ r.c.acted = c.acted /\ ~r.c.pause
             /\ r.c.pending = c.pending
             /\ NeedsCall(r.c) => r.keep
             /\ ~r.rep
  <2> DEFINE d == [done EXCEPT !.running = running]
             keep == running \/ c.buf # <<>>
  <2>1. /\ d \in Core /\ d.buf = c.buf /\ d.acted = c.acted /\ ~d.pause
        /\ d.pending = c.pending /\ d.running = running
    BY DEF Core, Workers
  <2>2. r = [Result(d, keep) EXCEPT !.out = out] /\ keep \in BOOLEAN
    BY <1>3
  <2> HIDE DEF d
  <2>3. r \in Results /\ r.c = d /\ r.keep = keep /\ ~r.rep
    BY <2>1, <2>2 DEF Result, Results
  <2> QED
    BY <2>1, <2>3 DEF NeedsCall
<1>4. CASE r = Result([done EXCEPT !.pending = "none"], c.buf # <<>>) /\ ~c.running
  <2> DEFINE d == [done EXCEPT !.pending = "none"]
  <2>1. /\ d \in Core /\ d.buf = c.buf /\ d.acted = c.acted /\ ~d.pause
        /\ d.pending = "none" /\ ~d.running
    BY <1>4 DEF Core, Workers, Pendings
  <2> HIDE DEF d
  <2>2. r = Result(d, c.buf # <<>>)
    BY <1>4 DEF d
  <2> QED
    BY <2>1, <2>2, ResultFields DEF NeedsCall
<1> QED
  BY <1>1, <1>2, <1>3, <1>4

(* One instruction; GETKEYA may take the oldest key from the buffer. *)
LEMMA InstructionResult ==
    ASSUME NEW c \in Core, Bounded(c), c.running, c.getkey = "no", c.intr = "no", ~c.pause,
           NEW r \in Instruction(c)
    PROVE  /\ r \in Results
           /\ \/ r.c.buf = c.buf /\ r.c.acted = c.acted
              \/ c.buf # <<>> /\ r.c.buf = Tail(c.buf) /\ r.c.acted = Head(c.buf)
           /\ Bounded(r.c)
           /\ r.c.pending = c.pending
           /\ r.c.pause => r.t3
           /\ NeedsCall(r.c) => r.keep \/ r.c.pause
           /\ ~r.rep
<1> DEFINE Answer(d, out, t3) == [Result(d, WantsCpu(d)) EXCEPT !.out = out, !.t3 = t3]
           Successors == {c, [c EXCEPT !.running = FALSE], [c EXCEPT !.pause = TRUE], Dequeue(c)}
                   \cup GetkeyWait(c) \cup Starting(c)
<1>1. PICK d \in Successors, out \in Outcomes, t3 \in BOOLEAN :
        /\ r = Answer(d, out, t3)
        /\ \/ d \in {c, [c EXCEPT !.running = FALSE]}
           \/ d = [c EXCEPT !.pause = TRUE] /\ t3
           \/ d \in GetkeyWait(c)
           \/ d \in Starting(c)
           \/ c.buf # <<>> /\ d = Dequeue(c)
  BY DEF Instruction, Outcomes
<1>2. /\ d \in Core /\ d.pending = c.pending
      /\ \/ d.buf = c.buf /\ d.acted = c.acted
         \/ c.buf # <<>> /\ d.buf = Tail(c.buf) /\ d.acted = Head(c.buf) /\ Bounded(d)
      /\ d.pause => t3
      /\ d.intr # "no" => d.getkey = "no"
  <2>1. CASE d \in {c, [c EXCEPT !.running = FALSE]}
    BY <2>1 DEF Core
  <2>2. CASE d = [c EXCEPT !.pause = TRUE] /\ t3
    BY <2>2 DEF Core
  <2>3. CASE d \in GetkeyWait(c)
    BY <2>3 DEF GetkeyWait, Core, Getkeys
  <2>4. CASE d \in Starting(c)
    BY <2>4 DEF Starting, Core, Workers
  <2>5. CASE c.buf # <<>> /\ d = Dequeue(c)
    BY <2>5, DequeueResult DEF SameModes
  <2> QED
    BY <1>1, <2>1, <2>2, <2>3, <2>4, <2>5
<1>3. Bounded(d)
  BY <1>2 DEF Bounded
<1>4. WantsCpu(d) \in BOOLEAN /\ (NeedsCall(d) => WantsCpu(d) \/ d.pause)
  BY <1>2 DEF WantsCpu, NeedsCall, Core
<1>5. r \in Results /\ r.c = d /\ r.keep = WantsCpu(d) /\ r.t3 = t3 /\ ~r.rep
  BY <1>1, <1>2, <1>4 DEF Result, Results
<1> QED
  BY <1>2, <1>3, <1>4, <1>5

(* A key k pressed in an interruptible instruction stops it or is queued.  *)
LEMMA WhileInterruptibleResult ==
    ASSUME NEW c \in Core, Bounded(c), NEW k \in Keys \cup {NoKey},
           c.intr # "no", ~c.pause, NEW r \in WhileInterruptible(c, k)
    PROVE  Branch(c, k, r) /\ NothingPends(c, r) /\ ~r.c.pause
<1>1. CASE k = EXIT \/ (k = RUN /\ c.intr = "stoppable" /\ ~c.shift)
  <2> DEFINE f == Flushed(c)
             d == StopInterruptible(f)
  <2>1. /\ f \in Core /\ f.buf = <<>> /\ f.acted = NoStroke /\ ~f.pause
    BY FlushedResult DEF SameModes
  <2> HIDE DEF f
  <2>2. /\ d \in Core /\ d.buf = <<>> /\ d.acted = NoStroke /\ ~d.pause
        /\ ~d.running /\ d.pending = "none"
    BY <2>1 DEF StopInterruptible, Core, Workers, Pendings
  <2>3. r = [Result(d, FALSE) EXCEPT !.enq = TRUE]
    BY <1>1 DEF WhileInterruptible, f
  <2> HIDE DEF d
  <2>4. r \in Results /\ r.c = d /\ ~r.rep
    BY <2>2, <2>3 DEF Result, Results, Outcomes
  <2> QED
    BY <2>2, <2>4, EmptySeq
    DEF Branch, NothingPends, QueueMoves, NeedsCall, Bounded, HeldPendings
<1>2. CASE ~(k = EXIT \/ (k = RUN /\ c.intr = "stoppable" /\ ~c.shift))
  <2> DEFINE e == Enqueue(c, k)
  <2>1. PICK w \in Work(e) : r = [w EXCEPT !.enq = (k # NoKey)]
    BY <1>2 DEF WhileInterruptible
  <2>2. /\ e \in Core /\ Bounded(e) /\ SameModes(c, e) /\ e.acted = c.acted
        /\ \/ e.buf = c.buf
           \/ \E s \in Strokes : Len(c.buf) < Cap /\ e.buf = Append(c.buf, s)
    BY EnqueueResult
  <2> HIDE DEF e
  <2>3. e.intr # "no" /\ ~e.pause /\ e.pending = c.pending
    BY <2>2 DEF SameModes
  <2>4. /\ w \in Results /\ w.c.buf = e.buf /\ w.c.acted = e.acted /\ ~w.c.pause
        /\ w.c.pending \in {e.pending, "none"}
        /\ NeedsCall(w.c) => w.keep
        /\ ~w.rep
    BY <2>2, <2>3, WorkResult
  <2>5. r \in Results /\ r.c = w.c /\ r.keep = w.keep /\ ~r.rep
    BY <2>1, <2>4 DEF Results
  <2>6. Bounded(r.c) /\ QueueMoves(c, r.c)
    BY <2>2, <2>4, <2>5 DEF Bounded, QueueMoves
  <2> QED
    BY <2>3, <2>4, <2>5, <2>6 DEF Branch, NothingPends, HeldPendings
<1> QED
  BY <1>1, <1>2

(* A key k pressed while a program is running stops it or is queued, and   *)
(* the program's next instruction may take a key.                          *)
LEMMA WhileRunningResult ==
    ASSUME NEW c \in Core, Bounded(c), NEW k \in Keys \cup {NoKey},
           c.running, c.getkey = "no", c.intr = "no", ~c.pause,
           NEW r \in WhileRunning(c, k)
    PROVE  Branch(c, k, r) /\ NothingPends(c, r)
<1>1. CASE StopPressed(c, k)
  <2> DEFINE f == Flushed(c)
             d == Stopped(c, k)
  <2>1. f \in Core /\ f.buf = <<>> /\ f.acted = NoStroke /\ ~f.pause /\ f.pending = c.pending
    BY FlushedResult DEF SameModes
  <2>2. d = [f EXCEPT !.shift = FALSE, !.running = FALSE, !.pending = "cancelled"]
        \/ d = [f EXCEPT !.running = FALSE]
    BY DEF Stopped
  <2> HIDE DEF f
  <2>3. /\ d \in Core /\ d.buf = <<>> /\ d.acted = NoStroke /\ ~d.pause
        /\ ~d.running /\ d.pending \in {c.pending, "cancelled"}
    <3>1. CASE d = [f EXCEPT !.shift = FALSE, !.running = FALSE, !.pending = "cancelled"]
      <4> HIDE DEF d
      <4> QED
        BY <2>1, <3>1 DEF Core, Pendings
    <3>2. CASE d = [f EXCEPT !.running = FALSE]
      <4> HIDE DEF d
      <4> QED
        BY <2>1, <3>2 DEF Core
    <3> QED
      BY <2>2, <3>1, <3>2
  <2>4. r = [Result(d, FALSE) EXCEPT !.enq = (k = RUN)]
    BY <1>1 DEF WhileRunning
  <2> HIDE DEF d
  <2>5. r \in Results /\ r.c = d /\ ~r.rep
    BY <2>3, <2>4 DEF Result, Results, Outcomes
  <2> QED
    BY <2>3, <2>5, EmptySeq
    DEF Branch, NothingPends, QueueMoves, NeedsCall, Bounded, HeldPendings
<1>2. CASE ~StopPressed(c, k)
  <2> DEFINE e == Enqueue(c, k)
  <2>1. PICK w \in Instruction(e) : r = [w EXCEPT !.enq = (k # NoKey)]
    BY <1>2 DEF WhileRunning
  <2>2. /\ e \in Core /\ Bounded(e) /\ SameModes(c, e) /\ e.acted = c.acted
        /\ \/ e.buf = c.buf
           \/ \E s \in Strokes : Len(c.buf) < Cap /\ e.buf = Append(c.buf, s)
    BY EnqueueResult
  <2> HIDE DEF e
  <2>3. /\ e.running /\ e.getkey = "no" /\ e.intr = "no" /\ ~e.pause
        /\ e.pending = c.pending
    BY <2>2 DEF SameModes
  <2>4. /\ w \in Results
        /\ \/ w.c.buf = e.buf /\ w.c.acted = e.acted
           \/ e.buf # <<>> /\ w.c.buf = Tail(e.buf) /\ w.c.acted = Head(e.buf)
        /\ Bounded(w.c)
        /\ w.c.pending = e.pending
        /\ w.c.pause => w.t3
        /\ NeedsCall(w.c) => w.keep \/ w.c.pause
        /\ ~w.rep
    BY <2>2, <2>3, InstructionResult
  <2>5. r \in Results /\ r.c = w.c /\ r.keep = w.keep /\ r.t3 = w.t3 /\ ~r.rep
    BY <2>1, <2>4 DEF Results
  <2>6. QueueMoves(c, w.c)
    <3>1. CASE w.c.buf = e.buf /\ w.c.acted = e.acted
      BY <2>2, <3>1 DEF QueueMoves
    <3>2. CASE e.buf # <<>> /\ w.c.buf = Tail(e.buf) /\ w.c.acted = Head(e.buf)
      <4>1. CASE e.buf = c.buf
        BY <3>2, <4>1 DEF QueueMoves
      <4>2. ASSUME NEW s \in Strokes, e.buf = Append(c.buf, s)
            PROVE  QueueMoves(c, w.c)
        <5>1. c.buf \in Seq(Strokes)
          BY DEF Core
        <5>2. /\ Head(e.buf) = IF c.buf = <<>> THEN s ELSE Head(c.buf)
              /\ Tail(e.buf) = IF c.buf = <<>> THEN <<>> ELSE Append(Tail(c.buf), s)
          BY <4>2, <5>1, HeadTailAppend
        <5> QED
          BY <3>2, <5>2 DEF QueueMoves
      <4> QED
        BY <2>2, <4>1, <4>2
    <3> QED
      BY <2>4, <3>1, <3>2
  <2> QED
    BY <2>3, <2>4, <2>5, <2>6 DEF Branch, NothingPends
<1> QED
  BY <1>1, <1>2

(* What a released key left, and then k at the end of the buffer *)
LEMMA ThenQueueResult ==
    ASSUME NEW d \in Core, NEW u \in Results, NEW x \in Core, x = u.c,
           Bounded(x), NEW k \in Keys \cup {NoKey}, NEW r, r = ThenQueue(d, u, k),
           ~x.pause, x.pending \notin HeldPendings,
           x.intr = "no" \/ x.getkey = "no", ~u.rep
    PROVE  /\ r \in Results /\ Bounded(r.c)
           /\ ~r.rep /\ ~r.c.pause /\ r.c.pending \notin HeldPendings
           /\ NeedsCall(r.c) => r.keep
           /\ r.c.acted = x.acted
           /\ r.c.buf = x.buf \/ \E s \in Strokes : r.c.buf = Append(x.buf, s)
<1> DEFINE e == Enqueue(x, k)
<1>1. /\ e \in Core /\ Bounded(e) /\ SameModes(x, e) /\ e.acted = x.acted
      /\ \/ e.buf = x.buf
         \/ \E s \in Strokes : Len(x.buf) < Cap /\ e.buf = Append(x.buf, s)
  <2>1. \A y \in Core : Bounded(y) =>
            /\ Enqueue(y, k) \in Core /\ Bounded(Enqueue(y, k))
            /\ SameModes(y, Enqueue(y, k)) /\ Enqueue(y, k).acted = y.acted
    BY EnqueueResult
  <2>2. \A y \in Core : Bounded(y) =>
            \/ Enqueue(y, k).buf = y.buf
            \/ \E s \in Strokes : Len(y.buf) < Cap /\ Enqueue(y, k).buf = Append(y.buf, s)
    BY EnqueueResult
  <2> QED
    BY <2>1, <2>2
<1>2. r = [u EXCEPT !.c = e, !.keep = (e.running /\ e.getkey = "no") \/ e.buf # <<>>,
                    !.t3 = Asks(d)]
  BY DEF ThenQueue
<1> HIDE DEF e
<1>3. /\ r \in Results /\ r.c = e /\ ~r.rep
      /\ r.keep = ((e.running /\ e.getkey = "no") \/ e.buf # <<>>)
  <2>1. Asks(d) \in BOOLEAN /\ ((e.running /\ e.getkey = "no") \/ e.buf # <<>>) \in BOOLEAN
    BY DEF Asks
  <2> QED
    BY <1>1, <1>2, <2>1 DEF Results
<1>4. ~e.pause /\ e.pending \notin HeldPendings /\ (e.intr = "no" \/ e.getkey = "no")
  BY <1>1 DEF SameModes
<1> QED
  BY <1>1, <1>3, <1>4 DEF NeedsCall

(* The oldest key is acted upon, press and release at once, and k takes    *)
(* its place in the buffer.                                                *)
LEMMA ServeQueuedResult ==
    ASSUME NEW c \in Core, Bounded(c), NEW k \in Keys \cup {NoKey},
           c.buf # <<>>, c.intr = "no", ~c.pause, ~(c.running /\ c.getkey = "no"),
           NEW r \in ServeQueued(c, k)
    PROVE  Branch(c, k, r) /\ NothingPends(c, r) /\ ~r.c.pause
<1> DEFINE q == Dequeue(c)
           s == Head(c.buf)
<1>1. /\ q \in Core /\ Len(q.buf) < Cap /\ Bounded(q)
      /\ SameModes(c, q)
      /\ q.buf = Tail(c.buf)
      /\ s \in Strokes
  BY DequeueResult
<1>2. PICK d \in Keydown(q, s) : \E u \in Keyup(d) : r = ThenQueue(d, u, k)
  BY DEF ServeQueued
<1>u. PICK u \in Keyup(d) : r = ThenQueue(d, u, k)
  BY <1>2
<1> HIDE DEF q, s
<1>3. q.intr = "no" /\ ~q.pause /\ ~(q.running /\ q.getkey = "no")
  BY <1>1 DEF SameModes
<1>4. /\ d \in Core
      /\ d.buf = q.buf /\ d.acted = s
      /\ ~d.pause /\ d.intr = "no"
      /\ d.pending # "none" => d.getkey = "no" /\ ~d.running
  BY <1>1, <1>2, <1>3, KeydownResult
<1>5. /\ u \in Results
      /\ u.c.buf = d.buf /\ u.c.acted = d.acted
      /\ ~u.c.pause
      /\ u.c.pending \notin HeldPendings
      /\ u.c.intr = "no" \/ u.c.getkey = "no"
      /\ ~u.rep
  BY <1>4, <1>u, KeyupResult
<1>6. u.c \in Core /\ Bounded(u.c) /\ Len(u.c.buf) < Cap
  BY <1>1, <1>4, <1>5 DEF Results, Bounded
<1>7. /\ r \in Results /\ Bounded(r.c)
      /\ ~r.rep /\ ~r.c.pause /\ r.c.pending \notin HeldPendings
      /\ NeedsCall(r.c) => r.keep
      /\ r.c.acted = u.c.acted
      /\ r.c.buf = u.c.buf \/ \E x \in Strokes : r.c.buf = Append(u.c.buf, x)
  BY <1>4, <1>5, <1>6, <1>u, ThenQueueResult
<1>8. QueueMoves(c, r.c)
  BY <1>1, <1>4, <1>5, <1>7 DEF QueueMoves, s
<1> QED
  BY <1>7, <1>8 DEF Branch, NothingPends

(* A key that is acted upon at once. It may make a command pending, or     *)
(* repeat, only while nothing else goes on.                                *)
Quiet(c) == c.intr = "no" /\ ~c.pause /\ c.buf = <<>>

LEMMA ActUponResult ==
    ASSUME NEW c \in Core, Bounded(c), NEW k \in Keys,
           Quiet(c), ~(c.running /\ c.getkey = "no"),
           NEW r \in ActUpon(c, k)
    PROVE  /\ Branch(c, k, r)
           /\ ~r.enq
           /\ Quiet(r.c)
           /\ r.c.pending \in HeldPendings => ~r.c.running
           /\ ~r.c.repeating
           /\ r.keep \/ ~(r.c.running /\ r.c.getkey = "no")
<1> DEFINE e == [c EXCEPT !.shift = FALSE]
           s == Stroke(k, c.shift)
<1>1. /\ e \in Core /\ s \in Strokes
      /\ e.buf = c.buf /\ e.intr = c.intr /\ e.pause = c.pause
      /\ e.running = c.running /\ e.getkey = c.getkey
  BY DEF Core, Stroke, Strokes
<1>2. PICK d \in Keydown(e, s) :
        r = [Result([d EXCEPT !.repeating = FALSE], d.running /\ d.getkey = "no")
                EXCEPT !.rep = d.repeating, !.t3 = Asks(d)]
  BY DEF ActUpon
<1> HIDE DEF e, s
<1>3. /\ d \in Core
      /\ d.buf = <<>> /\ d.acted = s
      /\ ~d.pause /\ d.intr = "no"
      /\ d.pending # "none" => d.getkey = "no" /\ ~d.running
  BY <1>1, <1>2, KeydownResult DEF Quiet
<1> DEFINE f == [d EXCEPT !.repeating = FALSE]
<1>4. /\ f \in Core /\ f.buf = <<>> /\ f.acted = s /\ ~f.pause /\ f.intr = "no"
      /\ f.pending = d.pending /\ f.running = d.running /\ f.getkey = d.getkey
      /\ ~f.repeating
  BY <1>3 DEF Core
<1>5. r = [Result(f, d.running /\ d.getkey = "no") EXCEPT !.rep = d.repeating, !.t3 = Asks(d)]
  BY <1>2
<1> HIDE DEF f
<1>6. /\ r \in Results /\ r.c = f /\ ~r.enq /\ ~r.quit
      /\ r.keep = (d.running /\ d.getkey = "no")
  <2>1. Asks(d) \in BOOLEAN /\ d.repeating \in BOOLEAN /\ (d.running /\ d.getkey = "no") \in BOOLEAN
    BY <1>3 DEF Asks, Core
  <2> QED
    BY <1>4, <1>5, <2>1 DEF Result, Results, Outcomes
<1>7. QueueMoves(c, f)
  BY <1>1, <1>4 DEF QueueMoves, Quiet
<1> QED
  BY <1>3, <1>4, <1>6, <1>7, EmptySeq
  DEF Branch, Quiet, NeedsCall, Bounded, HeldPendings

(* What the invariants need to know of a call of core_keydown(): a command *)
(* that becomes pending, and a key that repeats, are those of the key k,   *)
(* which was acted upon, and nothing else goes on.                         *)
Call(c, k, r) ==
    /\ r \in Results /\ Bounded(r.c)
    /\ QueueMoves(c, r.c)
    /\ r.c.pause => r.t3 \/ (c.pause /\ k \in {SHIFT, NoKey} /\ r.c.pending = c.pending)
    /\ ~r.quit /\ (k = NoKey \/ r.enq) /\ NeedsCall(r.c) => r.keep \/ r.c.pause
    /\ r.c.pending \in HeldPendings =>
          \/ r.c.pending = c.pending
          \/ k \in Keys /\ ~r.enq /\ ~r.c.running /\ Quiet(r.c)
    /\ r.rep => k \in Keys /\ ~r.enq /\ Quiet(r.c) /\ ~r.c.repeating
                /\ (r.keep \/ ~(r.c.running /\ r.c.getkey = "no"))

LEMMA DispatchResult ==
    ASSUME NEW c \in Core, Bounded(c), NEW k \in Keys \cup {NoKey}, ~c.pause,
           NEW r \in Dispatch(c, k)
    PROVE  Call(c, k, r)
<1>1. CASE c.intr # "no"
  BY <1>1, WhileInterruptibleResult DEF Dispatch, Branch, NothingPends, Call
<1>2. CASE c.intr = "no" /\ c.running /\ c.getkey = "no"
  BY <1>2, WhileRunningResult DEF Dispatch, Branch, NothingPends, Call
<1>3. CASE c.intr = "no" /\ ~(c.running /\ c.getkey = "no") /\ c.buf # <<>>
  BY <1>3, ServeQueuedResult DEF Dispatch, Branch, NothingPends, Call
<1>4. CASE c.intr = "no" /\ ~(c.running /\ c.getkey = "no") /\ c.buf = <<>> /\ k # NoKey
  BY <1>4, ActUponResult DEF Dispatch, Branch, Quiet, Call
<1>5. CASE c.intr = "no" /\ ~(c.running /\ c.getkey = "no") /\ c.buf = <<>> /\ k = NoKey
  <2>1. r = Result(c, FALSE)
    BY <1>5 DEF Dispatch
  <2> QED
    BY <1>5, <2>1, ResultFields DEF Call, QueueMoves, NeedsCall
<1> QED
  BY <1>1, <1>2, <1>3, <1>4, <1>5

LEMMA CoreKeydownResult ==
    ASSUME NEW c \in Core, Bounded(c), NEW k \in Keys \cup {SHIFT, NoKey},
           NEW r \in CoreKeydown(c, k)
    PROVE  Call(c, k, r)
<1>1. CASE k = SHIFT
  <2> DEFINE d == [c EXCEPT !.shift = ~@]
  <2>1. /\ d \in Core /\ d.buf = c.buf /\ d.acted = c.acted
        /\ d.pause = c.pause /\ d.pending = c.pending
    BY DEF Core
  <2>2. r = Result(d, WantsCpu(d)) /\ WantsCpu(d) \in BOOLEAN
    BY <1>1, <2>1 DEF CoreKeydown, ShiftPressed, WantsCpu, Core
  <2> HIDE DEF d
  <2> QED
    BY <1>1, <2>1, <2>2, ResultFields DEF Call, QueueMoves, Bounded
<1>2. CASE k # SHIFT /\ ~c.pause
  BY <1>2, DispatchResult DEF CoreKeydown
<1>3. CASE k = NoKey /\ c.pause
  <2>1. r = Result(c, FALSE)
    BY <1>3 DEF CoreKeydown
  <2> QED
    BY <1>3, <2>1, ResultFields DEF Call, QueueMoves
<1>4. CASE k \in Keys /\ c.pause
  <2> DEFINE d == Unpaused(c)
  <2>1. /\ d \in Core /\ d.buf = c.buf /\ d.acted = c.acted
        /\ ~d.pause /\ ~d.running /\ d.pending = c.pending
    BY DEF Unpaused, Core
  <2>2. r = Result(d, FALSE) \/ r \in Dispatch(d, k)
    BY <1>4 DEF CoreKeydown
  <2> HIDE DEF d
  <2>3. CASE r = Result(d, FALSE)
    BY <1>4, <2>1, <2>3, ResultFields DEF Call, QueueMoves, Bounded
  <2>4. CASE r \in Dispatch(d, k)
    <3>1. Call(d, k, r)
      BY <1>4, <2>1, <2>4, DispatchResult DEF Bounded
    <3> QED
      BY <1>4, <2>1, <3>1 DEF Call, QueueMoves
  <2> QED
    BY <2>2, <2>3, <2>4
<1> QED
  BY <1>1, <1>2, <1>3, <1>4

(* The core has nothing to do when it is called. *)
LEMMA IdleCall ==
    ASSUME NEW c \in Core, Quiet(c), ~c.running, NEW r \in CoreKeydown(c, NoKey)
    PROVE  r = Result(c, FALSE)
BY DEF CoreKeydown, Dispatch, Quiet

LEMMA Timeout3Result ==
    ASSUME NEW c \in Core, NEW repaint \in BOOLEAN, NEW d, d = Timeout3Core(c, repaint)
    PROVE  /\ d \in Core
           /\ d.buf = c.buf /\ d.acted = c.acted
           /\ d.running = c.running /\ d.getkey = c.getkey /\ d.intr = c.intr
           /\ d.repeating = c.repeating
           /\ d.pause = (c.pause /\ ~repaint)
           /\ d.pending \in HeldPendings => d.pending = c.pending
<1>1. CASE c.pause
  <2>1. d = [c EXCEPT !.pause = ~repaint]
    BY <1>1 DEF Timeout3Core
  <2> QED
    BY <1>1, <2>1 DEF Core
<1>2. CASE ~c.pause
  <2>1. d = c \/ \E p \in {"cancelled", "none"} : d = Pending(c, p)
    BY <1>2 DEF Timeout3Core
  <2> QED
    BY <1>2, <2>1, PendingResult DEF Core, Pendings, HeldPendings
<1>3. c.pause \in BOOLEAN
  BY DEF Core
<1> QED
  BY <1>1, <1>2, <1>3

LEMMA SavedResult ==
    ASSUME NEW c \in Core, NEW d, d = Saved(c)
    PROVE  /\ d \in Core
           /\ d.buf = c.buf /\ d.acted = c.acted /\ d.pause = c.pause
           /\ ~d.running /\ d.intr = "no" /\ d.repeating = c.repeating
           /\ d.pending \in HeldPendings => d.pending = c.pending
BY DEF Saved, StopInterruptible, Core, Workers, Pendings, HeldPendings

LEMMA FreshResult ==
    ASSUME NEW x \in BOOLEAN
    PROVE  /\ FreshCore(x) \in Core /\ FreshShell(x) \in Shell
           /\ FreshCore(x).buf = <<>> /\ FreshCore(x).acted = NoStroke
           /\ FreshCore(x).running = x /\ ~FreshCore(x).pause
           /\ FreshCore(x).intr = "no" /\ FreshCore(x).pending = "none"
           /\ FreshShell(x).reminder = x /\ FreshShell(x).timer = "none"
<1>1. Stroke(RUN, FALSE) \in Strokes
  BY DEF Stroke, Strokes
<1>2. <<>> \in Seq(Strokes)
  OBVIOUS
<1>3. FreshCore(x) \in Core
  BY <1>1, <1>2 DEF FreshCore, Core, Getkeys, Workers, Pendings
<1>4. FreshShell(x) \in Shell
  BY DEF FreshShell, Shell
<1> QED
  BY <1>3, <1>4 DEF FreshCore, FreshShell

-----------------------------------------------------------------------------
(* The inductive invariant *)

(* What core_timeout3() and core_keyup() skip while the program pauses is  *)
(* never a command that waits for a release.                               *)
PausedIdle == core.pause => core.pending \notin HeldPendings

(* A timeout is only armed while a key is held down that the core will     *)
(* hear the release of and while no idle callback is due; the repeater     *)
(* only while the core has nothing else to do.                             *)
TimerSound ==
    /\ shell.timer # "none" => shell.held # NoKey /\ ~shell.enqueued /\ ~shell.reminder
    /\ shell.timer = "repeat" =>
          /\ shell.held \in Keys /\ Quiet(core)
          /\ ~(core.running /\ core.getkey = "no")
          /\ ~core.repeating

Inv == TypeOK /\ PendingHeld /\ PausedIdle /\ TimerSound

(* What a handler finds when no key is held down *)
LEMMA NothingHeld ==
    ASSUME Inv, shell.held = NoKey
    PROVE  core.pending \notin HeldPendings /\ shell.timer = "none"
BY DEF Inv, TypeOK, PendingHeld, TimerSound, HeldPendings, Shell

(* What shell_keydown() calls the core with *)
Pressed(c, k) ==
    LET d == IF shell.timer3 /\ k # SHIFT THEN Timeout3Core(c, FALSE) ELSE c
    IN  IF k = UNKNOWN THEN [d EXCEPT !.shift = FALSE] ELSE d

PassedOn(k) == IF k = UNKNOWN THEN NoKey ELSE k

KeyPressShell(k, r) ==
    [shell EXCEPT !.held = k,
                  !.enqueued = r.enq,
                  !.reminder = r.keep,
                  !.timer = IF r.keep THEN "none"
                            ELSE IF r.rep THEN "repeat"
                            ELSE IF ~r.enq THEN "t1" ELSE "none",
                  !.timer3 = @ /\ ~(shell.timer3 /\ k # SHIFT)]

LEMMA KeyPressShellResult ==
    ASSUME shell \in Shell, NEW k \in Keys \cup {SHIFT, UNKNOWN}, NEW r \in Results,
           NEW sh, sh = KeyPressShell(k, r)
    PROVE  /\ sh \in Shell /\ sh.held = k /\ sh.enqueued = r.enq /\ sh.reminder = r.keep
           /\ sh.timer # "none" => ~r.keep /\ (~r.enq \/ r.rep)
           /\ sh.timer = "repeat" => ~r.keep /\ r.rep
           /\ sh.timer3 = (shell.timer3 /\ k = SHIFT)
<1> DEFINE timer == IF r.keep THEN "none"
                    ELSE IF r.rep THEN "repeat"
                    ELSE IF ~r.enq THEN "t1" ELSE "none"
           timer3 == shell.timer3 /\ ~(shell.timer3 /\ k # SHIFT)
<1>1. sh = [shell EXCEPT !.held = k, !.enqueued = r.enq, !.reminder = r.keep,
                         !.timer = timer, !.timer3 = timer3]
  BY DEF KeyPressShell, Shell
<1>2. /\ timer \in {"none", "t1", "repeat"}
      /\ timer # "none" => ~r.keep /\ (~r.enq \/ r.rep)
      /\ timer = "repeat" => ~r.keep /\ r.rep
  BY DEF Results
<1>3. timer3 \in BOOLEAN /\ timer3 = (shell.timer3 /\ k = SHIFT)
  BY DEF Shell
<1>4. r.enq \in BOOLEAN /\ r.keep \in BOOLEAN
  BY DEF Results
<1> HIDE DEF timer, timer3
<1> QED
  BY <1>1, <1>2, <1>3, <1>4 DEF Shell

LEMMA KeyPressCalls ==
    ASSUME NEW k \in Keys \cup {SHIFT, UNKNOWN}, KeyPress(k)
    PROVE  /\ shell.held = NoKey
           /\ k = UNKNOWN => UnknownKeys
           /\ \E r \in CoreKeydown(Pressed(core, k), PassedOn(k)) :
                  Deliver(r, KeyPressShell(k, r))
BY DEF KeyPress, Pressed, PassedOn, KeyPressShell

LEMMA PressedResult ==
    ASSUME NEW c \in Core, NEW k, shell.timer3 \in BOOLEAN, NEW d, d = Pressed(c, k)
    PROVE  /\ d \in Core
           /\ d.buf = c.buf /\ d.acted = c.acted /\ d.pause = c.pause
           /\ d.running = c.running /\ d.getkey = c.getkey /\ d.intr = c.intr
           /\ d.pending \in HeldPendings => d.pending = c.pending
<1> DEFINE e == IF shell.timer3 /\ k # SHIFT THEN Timeout3Core(c, FALSE) ELSE c
<1>1. /\ e \in Core
      /\ e.buf = c.buf /\ e.acted = c.acted /\ e.pause = c.pause
      /\ e.running = c.running /\ e.getkey = c.getkey /\ e.intr = c.intr
      /\ e.pending \in HeldPendings => e.pending = c.pending
  <2>1. c.pause \in BOOLEAN
    BY DEF Core
  <2> QED
    BY <2>1, Timeout3Result
<1>2. d = e \/ d = [e EXCEPT !.shift = FALSE]
  BY DEF Pressed
<1> HIDE DEF e
<1> QED
  BY <1>1, <1>2 DEF Core

LEMMA RelaunchInv ==
    ASSUME Relaunch
    PROVE  Inv'
<1>1. PICK x \in BOOLEAN :
        core' = FreshCore(x) /\ shell' = FreshShell(x) /\ outcome' = "none"
  BY DEF Relaunch
<1> QED
  BY <1>1, FreshResult, EmptySeq
  DEF Inv, TypeOK, PendingHeld, PausedIdle, TimerSound, HeldPendings, Outcomes

(* The state that Deliver leaves if the core did not ask to be ended *)
LEMMA DeliverResult ==
    ASSUME NEW r \in Results, NEW sh \in Shell, Deliver(r, sh), ~r.quit
    PROVE  /\ core' = r.c /\ core' \in Core
           /\ outcome' \in Outcomes
           /\ shell' \in Shell
           /\ shell'.held = sh.held /\ shell'.enqueued = sh.enqueued
           /\ shell'.reminder = sh.reminder /\ shell'.timer = sh.timer
           /\ shell'.timer3 = (sh.timer3 \/ r.t3)
BY DEF Deliver, Results, Shell

LEMMA KeyPressInv ==
    ASSUME Inv, NEW k \in Keys \cup {SHIFT, UNKNOWN}, KeyPress(k)
    PROVE  Inv'
<1>1. /\ shell.held = NoKey
      /\ \E r \in CoreKeydown(Pressed(core, k), PassedOn(k)) :
            Deliver(r, KeyPressShell(k, r))
  BY KeyPressCalls
<1>2. PICK r \in CoreKeydown(Pressed(core, k), PassedOn(k)) :
        Deliver(r, KeyPressShell(k, r))
  BY <1>1
<1> DEFINE c == Pressed(core, k)
           p == PassedOn(k)
<1>3. core.pending \notin HeldPendings
  BY <1>1, NothingHeld
<1>4. /\ c \in Core /\ Bounded(c)
      /\ c.pending \notin HeldPendings
  BY <1>3, PressedResult DEF Inv, TypeOK, Shell, Bounded
<1>5. p \in Keys \cup {SHIFT, NoKey} /\ (p \in Keys => p = k)
  BY DEF PassedOn
<1>6. Call(c, p, r)
  BY <1>2, <1>4, <1>5, CoreKeydownResult
<1> HIDE DEF c, p
<1>7. CASE r.quit
  BY <1>2, <1>7, RelaunchInv DEF Deliver
<1>8. CASE ~r.quit
  <2> DEFINE sh == KeyPressShell(k, r)
  <2>1. r \in Results /\ Len(r.c.buf) <= Cap
    BY <1>6 DEF Call, Bounded
  <2>2. /\ sh \in Shell /\ sh.held = k /\ sh.enqueued = r.enq /\ sh.reminder = r.keep
        /\ sh.timer # "none" => ~r.keep /\ (~r.enq \/ r.rep)
        /\ sh.timer = "repeat" => ~r.keep /\ r.rep
    BY <2>1, KeyPressShellResult DEF Inv, TypeOK
  <2> HIDE DEF sh
  <2>3. Deliver(r, sh)
    BY <1>2 DEF sh
  <2>4. /\ core' = r.c /\ core' \in Core /\ outcome' \in Outcomes /\ shell' \in Shell
        /\ shell'.held = k /\ shell'.enqueued = r.enq /\ shell'.reminder = r.keep
        /\ shell'.timer = sh.timer
    BY <1>8, <2>1, <2>2, <2>3, DeliverResult
  <2>5. r.c.pending \in HeldPendings => k \in Keys /\ ~r.enq /\ ~r.c.running /\ Quiet(r.c)
    BY <1>4, <1>5, <1>6 DEF Call
  <2>6. TypeOK'
    BY <2>1, <2>4 DEF TypeOK
  <2>7. PendingHeld' /\ PausedIdle'
    BY <2>4, <2>5 DEF PendingHeld, PausedIdle, HeldPendings, Quiet
  <2>8. TimerSound'
    <3>1. r.rep => k \in Keys /\ ~r.enq /\ Quiet(r.c) /\ ~r.c.repeating
                   /\ (r.keep \/ ~(r.c.running /\ r.c.getkey = "no"))
      BY <1>5, <1>6 DEF Call
    <3>2. k # NoKey
      OBVIOUS
    <3> QED
      BY <2>2, <2>4, <3>1, <3>2 DEF TimerSound
  <2> QED
    BY <2>6, <2>7, <2>8 DEF Inv
<1> QED
  BY <1>7, <1>8

LEMMA KeyReleaseInv ==
    ASSUME Inv, KeyRelease
    PROVE  Inv'
<1> DEFINE released == [shell EXCEPT !.held = NoKey, !.timer = "none"]
<1>1. released \in Shell /\ released.held = NoKey /\ released.timer = "none"
  BY DEF Inv, TypeOK, Shell
<1>2. CASE shell.enqueued
  <2>1. shell' = released /\ outcome' = "none" /\ core' = core
    BY <1>2 DEF KeyRelease
  <2>2. core.pending \notin HeldPendings
    BY <1>2 DEF Inv, PendingHeld, HeldPendings
  <2> HIDE DEF released
  <2> QED
    BY <1>1, <2>1, <2>2
    DEF Inv, TypeOK, PendingHeld, PausedIdle, TimerSound, HeldPendings, Outcomes
<1>3. CASE ~shell.enqueued
  <2>1. PICK r \in Keyup(core) : Deliver(r, [released EXCEPT !.reminder = r.keep])
    BY <1>3 DEF KeyRelease
  <2> DEFINE sh == [released EXCEPT !.reminder = r.keep]
  <2> HIDE DEF released
  <2>2. /\ r \in Results /\ r.c.buf = core.buf
        /\ r.c.pending \in HeldPendings => core.pause /\ r.c = core
    BY KeyupResult DEF Inv, TypeOK, PendingHeld
  <2>3. r.c.pending \notin HeldPendings
    BY <2>2 DEF Inv, PausedIdle
  <2>4. sh \in Shell /\ sh.timer = "none"
    BY <1>1, <2>2 DEF Shell, Results
  <2> HIDE DEF sh
  <2>5. Deliver(r, sh)
    BY <2>1 DEF sh
  <2>6. CASE r.quit
    BY <2>5, <2>6, RelaunchInv DEF Deliver
  <2>7. CASE ~r.quit
    <3>1. /\ core' = r.c /\ core' \in Core /\ outcome' \in Outcomes /\ shell' \in Shell
          /\ shell'.timer = "none"
      BY <2>2, <2>4, <2>5, <2>7, DeliverResult
    <3> QED
      BY <2>2, <2>3, <3>1
      DEF Inv, TypeOK, PendingHeld, PausedIdle, TimerSound, HeldPendings
  <2> QED
    BY <2>6, <2>7
<1> QED
  BY <1>2, <1>3

LEMMA ReminderInv ==
    ASSUME Inv, Reminder
    PROVE  Inv'
<1>1. PICK r \in CoreKeydown(core, NoKey) : Deliver(r, [shell EXCEPT !.reminder = r.keep])
  BY DEF Reminder
<1>2. core \in Core /\ Bounded(core) /\ shell \in Shell /\ shell.timer = "none"
  BY DEF Inv, TypeOK, Bounded, Reminder, TimerSound
<1>3. Call(core, NoKey, r)
  BY <1>1, <1>2, CoreKeydownResult
<1>4. r.c.pending \in HeldPendings => core.pending \in HeldPendings /\ r.c = core
  <2>1. SUFFICES ASSUME r.c.pending \in HeldPendings
                 PROVE  core.pending \in HeldPendings /\ r.c = core
    OBVIOUS
  <2>2. core.pending \in HeldPendings
    BY <1>3, <2>1 DEF Call
  <2>3. Quiet(core) /\ ~core.running
    BY <2>2 DEF Inv, PendingHeld, PausedIdle, HeldPendings, Quiet
  <2> QED
    BY <1>1, <1>2, <2>2, <2>3, IdleCall, ResultFields
<1> DEFINE sh == [shell EXCEPT !.reminder = r.keep]
<1>5. r \in Results /\ Len(r.c.buf) <= Cap
  BY <1>3 DEF Call, Bounded
<1>6. /\ sh \in Shell /\ sh.timer = "none" /\ sh.held = shell.held
      /\ sh.enqueued = shell.enqueued
  BY <1>2, <1>5 DEF Shell, Results
<1> HIDE DEF sh
<1>7. Deliver(r, sh)
  BY <1>1 DEF sh
<1>8. CASE r.quit
  BY <1>7, <1>8, RelaunchInv DEF Deliver
<1>9. CASE ~r.quit
  <2>1. /\ core' = r.c /\ core' \in Core /\ outcome' \in Outcomes /\ shell' \in Shell
        /\ shell'.timer = "none" /\ shell'.held = shell.held
        /\ shell'.enqueued = shell.enqueued
    BY <1>5, <1>6, <1>7, <1>9, DeliverResult
  <2>2. PendingHeld' /\ PausedIdle'
    BY <1>4, <2>1 DEF Inv, PendingHeld, PausedIdle, HeldPendings
  <2> QED
    BY <1>5, <2>1, <2>2 DEF Inv, TypeOK, TimerSound
<1> QED
  BY <1>8, <1>9

LEMMA TimeoutsInv ==
    ASSUME Inv, Timeout1 \/ Timeout2
    PROVE  Inv'
<1>1. /\ shell' \in Shell /\ shell'.held = shell.held /\ shell'.enqueued = shell.enqueued
      /\ shell'.reminder = shell.reminder
      /\ shell'.timer # "repeat" /\ (shell'.timer # "none" => shell.timer # "none")
      /\ outcome' \in Outcomes
  <2>1. CASE Timeout1
    BY <2>1 DEF Timeout1, Inv, TypeOK, Shell, Outcomes
  <2>2. CASE Timeout2
    BY <2>2 DEF Timeout2, Inv, TypeOK, Shell, Outcomes
  <2> QED
    BY <2>1, <2>2
<1>2. core' = core \/ core' = Pending(core, "cancelled")
  BY DEF Timeout1, Timeout2
<1>3. core \in Core
  BY DEF Inv, TypeOK
<1>4. /\ core' \in Core
      /\ core'.buf = core.buf /\ core'.running = core.running
      /\ core'.pause = core.pause /\ core'.intr = core.intr
      /\ core'.pending \in HeldPendings => core'.pending = core.pending
  BY <1>2, <1>3, PendingResult DEF Pendings, HeldPendings
<1> QED
  BY <1>1, <1>4 DEF Inv, TypeOK, PendingHeld, PausedIdle, TimerSound, HeldPendings

(* What core_repeat() leaves *)
LEMMA RepeatResult ==
    ASSUME Inv, shell.timer = "repeat", NEW d \in Keydown(core, core.repeat),
           NEW r, r = [Result([d EXCEPT !.repeating = FALSE], FALSE) EXCEPT !.t3 = Asks(d)]
    PROVE  /\ r \in Results /\ ~r.quit /\ ~r.c.repeating
           /\ Quiet(core) /\ Quiet(r.c)
           /\ r.c.acted = core.repeat /\ core.repeat \in Strokes
           /\ r.c.pending # "none" => ~r.c.running
           /\ d.repeating \in BOOLEAN
           /\ d.repeating => ~r.c.running
<1>1. /\ core \in Core /\ core.repeat \in Strokes
      /\ Quiet(core) /\ ~(core.running /\ core.getkey = "no") /\ ~core.repeating
  BY DEF Inv, TypeOK, TimerSound, Core
<1>2. /\ d \in Core
      /\ d.buf = <<>> /\ d.acted = core.repeat /\ ~d.pause /\ d.intr = "no"
      /\ d.pending # "none" => ~d.running
      /\ d.repeating => ~d.running
  BY <1>1, KeydownResult DEF Quiet
<1> DEFINE e == [d EXCEPT !.repeating = FALSE]
<1>3. /\ e \in Core /\ e.buf = <<>> /\ e.acted = d.acted /\ ~e.pause /\ e.intr = "no"
      /\ e.pending = d.pending /\ e.running = d.running /\ ~e.repeating
  BY <1>2 DEF Core
<1> HIDE DEF e
<1>4. r = [Result(e, FALSE) EXCEPT !.t3 = Asks(d)] /\ Asks(d) \in BOOLEAN
  BY DEF e, Asks
<1>5. r \in Results /\ r.c = e /\ ~r.quit
  BY <1>3, <1>4 DEF Result, Results, Outcomes
<1>6. d.repeating \in BOOLEAN
  BY <1>2 DEF Core
<1> QED
  BY <1>1, <1>2, <1>3, <1>5, <1>6 DEF Quiet

LEMMA RepeatCalls ==
    ASSUME Inv, Repeat
    PROVE  \E d \in Keydown(core, core.repeat), r \in Results, sh \in Shell :
             /\ r = [Result([d EXCEPT !.repeating = FALSE], FALSE) EXCEPT !.t3 = Asks(d)]
             /\ Deliver(r, sh)
             /\ sh.held = shell.held /\ sh.enqueued = shell.enqueued
             /\ sh.reminder = shell.reminder /\ sh.timer3 = shell.timer3
             /\ sh.timer = (IF d.repeating THEN "repeat" ELSE "t1")
<1>1. PICK d \in Keydown(core, core.repeat) :
        Deliver([Result([d EXCEPT !.repeating = FALSE], FALSE) EXCEPT !.t3 = Asks(d)],
                [shell EXCEPT !.timer = IF d.repeating THEN "repeat" ELSE "t1"])
  BY DEF Repeat
<1> DEFINE r == [Result([d EXCEPT !.repeating = FALSE], FALSE) EXCEPT !.t3 = Asks(d)]
           sh == [shell EXCEPT !.timer = IF d.repeating THEN "repeat" ELSE "t1"]
<1>2. shell.timer = "repeat"
  BY DEF Repeat
<1>3. r \in Results
  BY <1>2, RepeatResult
<1>4. /\ sh \in Shell /\ sh.held = shell.held /\ sh.enqueued = shell.enqueued
      /\ sh.reminder = shell.reminder /\ sh.timer3 = shell.timer3
      /\ sh.timer = (IF d.repeating THEN "repeat" ELSE "t1")
  BY DEF Inv, TypeOK, Shell
<1> QED
  BY <1>1, <1>3, <1>4

LEMMA RepeatInv ==
    ASSUME Inv, Repeat
    PROVE  Inv'
<1>1. PICK d \in Keydown(core, core.repeat), r \in Results, sh \in Shell :
        /\ r = [Result([d EXCEPT !.repeating = FALSE], FALSE) EXCEPT !.t3 = Asks(d)]
        /\ Deliver(r, sh)
        /\ sh.held = shell.held /\ sh.enqueued = shell.enqueued
        /\ sh.reminder = shell.reminder /\ sh.timer3 = shell.timer3
        /\ sh.timer = (IF d.repeating THEN "repeat" ELSE "t1")
  BY RepeatCalls
<1>2. shell.timer = "repeat"
  BY DEF Repeat
<1>3. /\ ~r.quit /\ ~r.c.repeating /\ Quiet(r.c)
      /\ r.c.pending # "none" => ~r.c.running
      /\ d.repeating => ~r.c.running
  BY <1>1, <1>2, RepeatResult
<1>4. shell.held \in Keys /\ ~shell.enqueued /\ ~shell.reminder
  BY <1>2 DEF Inv, TimerSound
<1>5. /\ core' = r.c /\ core' \in Core /\ outcome' \in Outcomes /\ shell' \in Shell
      /\ shell'.held = shell.held /\ shell'.enqueued = shell.enqueued
      /\ shell'.reminder = shell.reminder
      /\ shell'.timer = (IF d.repeating THEN "repeat" ELSE "t1")
  BY <1>1, <1>3, DeliverResult
<1> QED
  BY <1>3, <1>4, <1>5, EmptySeq
  DEF Inv, TypeOK, PendingHeld, PausedIdle, TimerSound, HeldPendings, Quiet

LEMMA Timeout3Inv ==
    ASSUME Inv, Timeout3
    PROVE  Inv'
<1>1. core \in Core
  BY DEF Inv, TypeOK
<1>2. /\ core' \in Core
      /\ core'.buf = core.buf /\ core'.running = core.running /\ core'.getkey = core.getkey
      /\ core'.intr = core.intr /\ core'.repeating = core.repeating /\ ~core'.pause
      /\ core'.pending \in HeldPendings => core'.pending = core.pending
  BY <1>1, Timeout3Result DEF Timeout3
<1>3. /\ shell' \in Shell /\ shell'.held = shell.held /\ shell'.enqueued = shell.enqueued
      /\ shell'.timer # "none" => shell'.reminder = shell.reminder
      /\ shell'.timer # "none" => shell'.timer = shell.timer /\ ~core.pause
      /\ outcome' \in Outcomes
  BY <1>1 DEF Timeout3, Inv, TypeOK, Shell, Outcomes, Core
<1> QED
  BY <1>2, <1>3
  DEF Inv, TypeOK, PendingHeld, PausedIdle, TimerSound, HeldPendings, Quiet

LEMMA SaveStateInv ==
    ASSUME Inv, SaveState
    PROVE  Inv'
<1>1. core \in Core
  BY DEF Inv, TypeOK
<1>2. /\ core' \in Core
      /\ core'.buf = core.buf /\ core'.pause = core.pause
      /\ ~core'.running /\ core'.intr = "no" /\ core'.repeating = core.repeating
      /\ core'.pending \in HeldPendings => core'.pending = core.pending
  BY <1>1, SavedResult DEF SaveState
<1>3. shell' = shell /\ outcome' \in Outcomes
  BY DEF SaveState, Outcomes
<1> QED
  BY <1>2, <1>3
  DEF Inv, TypeOK, PendingHeld, PausedIdle, TimerSound, HeldPendings, Quiet

LEMMA SwitchStateInv ==
    ASSUME Inv, SwitchState
    PROVE  Inv'
<1>1. PICK x \in BOOLEAN :
        /\ core' = [FreshCore(x) EXCEPT !.pause = core.pause,
                                        !.repeating = core.repeating,
                                        !.repeat = core.repeat]
        /\ shell' = [shell EXCEPT !.reminder = @ \/ x,
                                  !.timer = IF x THEN "none" ELSE @]
        /\ outcome' = "none"
  BY DEF SwitchState
<1>2. core \in Core /\ shell \in Shell
  BY DEF Inv, TypeOK
<1> DEFINE f == FreshCore(x)
<1>3. f \in Core /\ f.buf = <<>> /\ f.running = x /\ f.intr = "no" /\ f.pending = "none"
  BY FreshResult
<1> HIDE DEF f
<1>4. core' = [f EXCEPT !.pause = core.pause, !.repeating = core.repeating,
                        !.repeat = core.repeat]
  BY <1>1 DEF f
<1>5. /\ core' \in Core /\ core'.buf = <<>> /\ core'.running = x /\ core'.intr = "no"
      /\ core'.pending = "none" /\ core'.pause = core.pause
      /\ core'.repeating = core.repeating
  BY <1>2, <1>3, <1>4 DEF Core
<1>6. /\ shell' \in Shell /\ shell'.held = shell.held /\ shell'.enqueued = shell.enqueued
      /\ shell'.timer # "none" => ~x /\ shell'.timer = shell.timer
                                  /\ shell'.reminder = shell.reminder
  BY <1>1, <1>2 DEF Shell
<1> QED
  BY <1>1, <1>5, <1>6, EmptySeq
  DEF Inv, TypeOK, PendingHeld, PausedIdle, TimerSound, HeldPendings, Quiet, Outcomes

LEMMA InitInv ==
    ASSUME Init
    PROVE  Inv
BY FreshResult, EmptySeq
DEF Init, Inv, TypeOK, PendingHeld, PausedIdle, TimerSound, HeldPendings, Outcomes

LEMMA NextInv ==
    ASSUME Inv, [Next]_vars
    PROVE  Inv'
<1>1. ASSUME NEW k \in Keys \cup {SHIFT, UNKNOWN}, KeyPress(k)
      PROVE  Inv'
  BY <1>1, KeyPressInv
<1>2. CASE UNCHANGED vars
  BY <1>2
  DEF vars, Inv, TypeOK, PendingHeld, PausedIdle, TimerSound, Quiet
<1> QED
  BY <1>1, <1>2, KeyReleaseInv, ReminderInv, TimeoutsInv, RepeatInv, Timeout3Inv,
     SaveStateInv, SwitchStateInv, RelaunchInv
  DEF Next

(* Whatever the user does and whatever the program and the commands do,    *)
(* the invariant holds.                                                    *)
THEOREM Invariance == Spec => []Inv
<1>1. Init => Inv
  BY InitInv
<1>2. Inv /\ [Next]_vars => Inv'
  BY NextInv
<1> QED
  BY <1>1, <1>2, PTL DEF Spec

(* The buffer never holds more than Cap keys, and core and shell keep their *)
(* types.                                                                   *)
THEOREM TypeCorrect == Spec => []TypeOK
<1>1. Inv => TypeOK
  BY DEF Inv
<1> QED
  BY <1>1, Invariance, PTL

(* A command waits for a release only while its key is held down and        *)
(* nothing runs that it could disturb.                                      *)
THEOREM PendingIsHeld == Spec => []PendingHeld
<1>1. Inv => PendingHeld
  BY DEF Inv
<1> QED
  BY <1>1, Invariance, PTL

-----------------------------------------------------------------------------
(* The program and the keys typed ahead are never forgotten. A key of the  *)
(* keyboard map that stands for nothing ends the pause without waking the  *)
(* program up, so there must be none (UnknownKeys).                        *)

Awake == ProgramAwake /\ PauseHasTimer

LEMMA ProgramAwakeNeeds == ProgramAwake <=> (NeedsCall(core) => WillWake)
BY DEF ProgramAwake, NeedsCall

LEMMA InitAwake ==
    ASSUME Init
    PROVE  Awake
BY FreshResult
DEF Init, Awake, ProgramAwake, PauseHasTimer, WillWake, FreshCore, FreshShell

LEMMA RelaunchAwake ==
    ASSUME Relaunch
    PROVE  Awake'
<1>1. PICK x \in BOOLEAN : core' = FreshCore(x) /\ shell' = FreshShell(x)
  BY DEF Relaunch
<1> QED
  BY <1>1, FreshResult DEF Awake, ProgramAwake, PauseHasTimer, WillWake

LEMMA KeyPressAwake ==
    ASSUME Inv, Awake, ~UnknownKeys, NEW k \in Keys \cup {SHIFT, UNKNOWN}, KeyPress(k)
    PROVE  Awake'
<1>1. /\ k \in Keys \cup {SHIFT}
      /\ \E r \in CoreKeydown(Pressed(core, k), k) : Deliver(r, KeyPressShell(k, r))
  BY KeyPressCalls DEF PassedOn
<1> DEFINE c == Pressed(core, k)
<1>2. PICK r \in CoreKeydown(c, k) : Deliver(r, KeyPressShell(k, r))
  BY <1>1
<1>3. c \in Core /\ Bounded(c) /\ c.pause = core.pause
  BY PressedResult DEF Inv, TypeOK, Shell, Bounded
<1>4. Call(c, k, r)
  BY <1>1, <1>2, <1>3, CoreKeydownResult
<1> HIDE DEF c
<1>5. CASE r.quit
  BY <1>2, <1>5, RelaunchAwake DEF Deliver
<1>6. CASE ~r.quit
  <2> DEFINE sh == KeyPressShell(k, r)
  <2>1. r \in Results
    BY <1>4 DEF Call
  <2>2. /\ sh \in Shell /\ sh.held = k /\ sh.enqueued = r.enq /\ sh.reminder = r.keep
        /\ sh.timer3 = (shell.timer3 /\ k = SHIFT)
    BY <2>1, KeyPressShellResult DEF Inv, TypeOK
  <2> HIDE DEF sh
  <2>3. Deliver(r, sh)
    BY <1>2 DEF sh
  <2>4. /\ core' = r.c /\ shell'.held = k /\ shell'.enqueued = r.enq
        /\ shell'.reminder = r.keep
        /\ shell'.timer3 = ((shell.timer3 /\ k = SHIFT) \/ r.t3)
    BY <1>6, <2>1, <2>2, <2>3, DeliverResult
  <2>5. r.c.pause => shell'.timer3
    BY <1>1, <1>3, <1>4, <2>4 DEF Call, Awake, PauseHasTimer
  <2>6. r.enq /\ NeedsCall(r.c) => r.keep \/ r.c.pause
    BY <1>4, <1>6 DEF Call
  <2>7. PauseHasTimer'
    BY <2>4, <2>5 DEF PauseHasTimer
  <2>8. ProgramAwake'
    BY <1>1, <2>4, <2>5, <2>6 DEF ProgramAwake, WillWake, NeedsCall
  <2> QED
    BY <2>7, <2>8 DEF Awake
<1> QED
  BY <1>5, <1>6

LEMMA KeyReleaseAwake ==
    ASSUME Inv, Awake, KeyRelease
    PROVE  Awake'
<1> DEFINE released == [shell EXCEPT !.held = NoKey, !.timer = "none"]
<1>1. /\ released \in Shell
      /\ released.timer3 = shell.timer3 /\ released.reminder = shell.reminder
  BY DEF Inv, TypeOK, Shell
<1>2. CASE shell.enqueued
  <2>1. shell' = released /\ core' = core
    BY <1>2 DEF KeyRelease
  <2> HIDE DEF released
  <2> QED
    BY <1>1, <1>2, <2>1 DEF Awake, ProgramAwake, PauseHasTimer, WillWake
<1>3. CASE ~shell.enqueued
  <2>1. PICK r \in Keyup(core) : Deliver(r, [released EXCEPT !.reminder = r.keep])
    BY <1>3 DEF KeyRelease
  <2> DEFINE sh == [released EXCEPT !.reminder = r.keep]
  <2> HIDE DEF released
  <2>2. /\ r \in Results /\ r.c.pause = core.pause
        /\ r.quit \/ (NeedsCall(r.c) => r.keep \/ core.pause)
    BY KeyupResult DEF Inv, TypeOK, PendingHeld
  <2>3. sh \in Shell /\ sh.reminder = r.keep /\ sh.timer3 = shell.timer3
    BY <1>1, <2>2 DEF Shell, Results
  <2> HIDE DEF sh
  <2>4. Deliver(r, sh)
    BY <2>1 DEF sh
  <2>5. CASE r.quit
    BY <2>4, <2>5, RelaunchAwake DEF Deliver
  <2>6. CASE ~r.quit
    <3>1. /\ core' = r.c /\ shell'.reminder = r.keep
          /\ shell'.timer3 = (shell.timer3 \/ r.t3)
      BY <2>2, <2>3, <2>4, <2>6, DeliverResult
    <3> QED
      BY <2>2, <2>6, <3>1 DEF Awake, ProgramAwake, PauseHasTimer, WillWake, NeedsCall
  <2> QED
    BY <2>5, <2>6
<1> QED
  BY <1>2, <1>3

LEMMA ReminderAwake ==
    ASSUME Inv, Awake, Reminder
    PROVE  Awake'
<1>1. PICK r \in CoreKeydown(core, NoKey) : Deliver(r, [shell EXCEPT !.reminder = r.keep])
  BY DEF Reminder
<1>2. core \in Core /\ Bounded(core) /\ shell \in Shell
  BY DEF Inv, TypeOK, Bounded
<1>3. Call(core, NoKey, r)
  BY <1>1, <1>2, CoreKeydownResult
<1> DEFINE sh == [shell EXCEPT !.reminder = r.keep]
<1>4. r \in Results
  BY <1>3 DEF Call
<1>5. sh \in Shell /\ sh.reminder = r.keep /\ sh.timer3 = shell.timer3
  BY <1>2, <1>4 DEF Shell, Results
<1> HIDE DEF sh
<1>6. Deliver(r, sh)
  BY <1>1 DEF sh
<1>7. CASE r.quit
  BY <1>6, <1>7, RelaunchAwake DEF Deliver
<1>8. CASE ~r.quit
  <2>1. /\ core' = r.c /\ shell'.reminder = r.keep
        /\ shell'.timer3 = (shell.timer3 \/ r.t3)
    BY <1>4, <1>5, <1>6, <1>8, DeliverResult
  <2>2. r.c.pause => shell'.timer3
    BY <1>3, <2>1 DEF Call, Awake, PauseHasTimer
  <2>3. NeedsCall(r.c) => r.keep \/ r.c.pause
    BY <1>3, <1>8 DEF Call
  <2> QED
    BY <2>1, <2>2, <2>3 DEF Awake, ProgramAwake, PauseHasTimer, WillWake, NeedsCall
<1> QED
  BY <1>7, <1>8

LEMMA RepeatAwake ==
    ASSUME Inv, Awake, Repeat
    PROVE  Awake'
<1>1. PICK d \in Keydown(core, core.repeat), r \in Results, sh \in Shell :
        /\ r = [Result([d EXCEPT !.repeating = FALSE], FALSE) EXCEPT !.t3 = Asks(d)]
        /\ Deliver(r, sh)
        /\ sh.held = shell.held /\ sh.enqueued = shell.enqueued
        /\ sh.reminder = shell.reminder /\ sh.timer3 = shell.timer3
        /\ sh.timer = (IF d.repeating THEN "repeat" ELSE "t1")
  BY RepeatCalls
<1>2. shell.timer = "repeat"
  BY DEF Repeat
<1>3. ~r.quit /\ Quiet(r.c)
  BY <1>1, <1>2, RepeatResult
<1>4. shell.held # NoKey /\ ~shell.enqueued
  BY <1>2 DEF Inv, TimerSound
<1>5. core' = r.c /\ shell'.held = shell.held /\ shell'.enqueued = shell.enqueued
  BY <1>1, <1>3, DeliverResult
<1> QED
  BY <1>3, <1>4, <1>5 DEF Awake, ProgramAwake, PauseHasTimer, WillWake, Quiet

LEMMA OtherAwake ==
    ASSUME Inv, Awake, Timeout1 \/ Timeout2 \/ Timeout3 \/ SaveState \/ SwitchState
    PROVE  Awake'
<1>0. core \in Core /\ shell \in Shell
  BY DEF Inv, TypeOK
<1>1. CASE Timeout1 \/ Timeout2
  <2>1. /\ shell'.held = shell.held /\ shell'.enqueued = shell.enqueued
        /\ shell'.reminder = shell.reminder /\ shell'.timer3 = shell.timer3
    BY <1>0, <1>1 DEF Timeout1, Timeout2, Shell
  <2>2. core' = core \/ core' = Pending(core, "cancelled")
    BY <1>1 DEF Timeout1, Timeout2
  <2>3. /\ core'.buf = core.buf /\ core'.running = core.running
        /\ core'.getkey = core.getkey /\ core'.intr = core.intr /\ core'.pause = core.pause
    BY <1>0, <2>2, PendingResult DEF Pendings
  <2> QED
    BY <2>1, <2>3 DEF Awake, ProgramAwake, PauseHasTimer, WillWake
<1>2. CASE Timeout3
  <2>1. /\ core'.buf = core.buf /\ core'.running = core.running
        /\ core'.getkey = core.getkey /\ core'.intr = core.intr /\ ~core'.pause
    BY <1>0, <1>2, Timeout3Result DEF Timeout3
  <2>2. /\ shell'.held = shell.held /\ shell'.enqueued = shell.enqueued
        /\ shell'.reminder = (shell.reminder \/ core.pause)
    BY <1>0, <1>2 DEF Timeout3, Shell
  <2> QED
    BY <2>1, <2>2 DEF Awake, ProgramAwake, PauseHasTimer, WillWake
<1>3. CASE SaveState
  <2>1. /\ core'.buf = core.buf /\ core'.pause = core.pause
        /\ ~core'.running /\ core'.intr = "no"
    BY <1>0, <1>3, SavedResult DEF SaveState
  <2>2. shell' = shell
    BY <1>3 DEF SaveState
  <2> QED
    BY <2>1, <2>2 DEF Awake, ProgramAwake, PauseHasTimer, WillWake
<1>4. CASE SwitchState
  <2>1. PICK x \in BOOLEAN :
          /\ core' = [FreshCore(x) EXCEPT !.pause = core.pause,
                                          !.repeating = core.repeating,
                                          !.repeat = core.repeat]
          /\ shell' = [shell EXCEPT !.reminder = @ \/ x,
                                    !.timer = IF x THEN "none" ELSE @]
    BY <1>4 DEF SwitchState
  <2>2. core'.buf = <<>> /\ core'.running = x /\ core'.intr = "no" /\ core'.pause = core.pause
    BY <2>1 DEF FreshCore
  <2>3. shell'.reminder = (shell.reminder \/ x) /\ shell'.timer3 = shell.timer3
    BY <1>0, <2>1 DEF Shell
  <2> QED
    BY <2>2, <2>3 DEF Awake, ProgramAwake, PauseHasTimer, WillWake
<1> QED
  BY <1>1, <1>2, <1>3, <1>4

LEMMA NextAwake ==
    ASSUME Inv, Awake, ~UnknownKeys, [Next]_vars
    PROVE  Awake'
<1>1. ASSUME NEW k \in Keys \cup {SHIFT, UNKNOWN}, KeyPress(k)
      PROVE  Awake'
  BY <1>1, KeyPressAwake
<1>2. CASE UNCHANGED vars
  BY <1>2 DEF vars, Awake, ProgramAwake, PauseHasTimer, WillWake
<1> QED
  BY <1>1, <1>2, KeyReleaseAwake, ReminderAwake, RepeatAwake, OtherAwake, RelaunchAwake
  DEF Next

(* Unless keys are pressed that stand for nothing, a program that runs and *)
(* keys typed ahead always have a callback, a timeout or a release ahead   *)
(* that calls the core, and a program that pauses the timeout that ends it.*)
THEOREM Wakefulness == ~UnknownKeys /\ Spec => []Awake
<1>1. ASSUME ~UnknownKeys
      PROVE  Spec => []Awake
  <2>1. Init => Awake
    BY InitAwake
  <2>2. Inv /\ Awake /\ [Next]_vars => Awake'
    BY <1>1, NextAwake
  <2> QED
    BY <2>1, <2>2, Invariance, PTL DEF Spec
<1> QED
  BY <1>1

(* The program is never forgotten. *)
THEOREM ProgramIsAwake == ~UnknownKeys /\ Spec => []ProgramAwake
<1>1. Awake => ProgramAwake
  BY DEF Awake
<1> QED
  BY <1>1, Wakefulness, PTL

(* The timeout of PSE is always armed. *)
THEOREM PauseIsTimed == ~UnknownKeys /\ Spec => []PauseHasTimer
<1>1. Awake => PauseHasTimer
  BY DEF Awake
<1> QED
  BY <1>1, Wakefulness, PTL

-----------------------------------------------------------------------------
(* Type-ahead is the queue of KeyQueue. *)

LEMMA QueueStep ==
    ASSUME QueueMoves(core, core')
    PROVE  [Queue!Next]_(Queue!qVars)
<1>1. CASE core'.buf = core.buf /\ core'.acted = core.acted
  BY <1>1 DEF Queue!qVars
<1>2. CASE \E s \in Strokes :
             Len(core.buf) < Cap /\ core'.buf = Append(core.buf, s) /\ core'.acted = core.acted
  BY <1>2 DEF Queue!Next, Queue!Put
<1>3. CASE core.buf # <<>> /\ core'.acted = Head(core.buf) /\ core'.buf = Tail(core.buf)
  BY <1>3 DEF Queue!Next, Queue!Take
<1>4. CASE \E s \in Strokes :
             /\ core.buf # <<>> /\ core'.acted = Head(core.buf)
             /\ core'.buf = Append(Tail(core.buf), s)
  BY <1>4 DEF Queue!Next, Queue!TakeAndPut
<1>5. CASE \E s \in Strokes : core.buf = <<>> /\ core'.acted = s /\ core'.buf = <<>>
  BY <1>5 DEF Queue!Next, Queue!Direct
<1>6. CASE core'.buf = <<>> /\ core'.acted = NoStroke
  BY <1>6 DEF Queue!Next, Queue!Flush
<1> QED
  BY <1>1, <1>2, <1>3, <1>4, <1>5, <1>6 DEF QueueMoves

LEMMA RelaunchMoves ==
    ASSUME Relaunch
    PROVE  QueueMoves(core, core')
BY FreshResult DEF Relaunch, QueueMoves

(* What a call of the core does to type-ahead, the step does. *)
LEMMA DeliverMoves ==
    ASSUME NEW r, NEW sh, Deliver(r, sh), QueueMoves(core, r.c)
    PROVE  QueueMoves(core, core')
BY RelaunchMoves DEF Deliver

LEMMA NextMoves ==
    ASSUME Inv, Next
    PROVE  QueueMoves(core, core')
<1>0. core \in Core /\ Bounded(core) /\ shell \in Shell
  BY DEF Inv, TypeOK, Bounded
<1>1. ASSUME NEW k \in Keys \cup {SHIFT, UNKNOWN}, KeyPress(k)
      PROVE  QueueMoves(core, core')
  <2> DEFINE c == Pressed(core, k)
             p == PassedOn(k)
  <2>1. PICK r \in CoreKeydown(c, p) : Deliver(r, KeyPressShell(k, r))
    BY <1>1, KeyPressCalls
  <2>2. c \in Core /\ Bounded(c) /\ c.buf = core.buf /\ c.acted = core.acted
    BY <1>0, PressedResult DEF Shell, Bounded
  <2>3. p \in Keys \cup {SHIFT, NoKey}
    BY DEF PassedOn
  <2> HIDE DEF c, p
  <2>4. QueueMoves(c, r.c)
    BY <2>1, <2>2, <2>3, CoreKeydownResult DEF Call
  <2>5. QueueMoves(core, r.c)
    BY <2>2, <2>4 DEF QueueMoves
  <2> QED
    BY <2>1, <2>5, DeliverMoves
<1>2. CASE KeyRelease
  <2>1. CASE core' = core
    BY <2>1 DEF QueueMoves
  <2>2. CASE \E r \in Keyup(core) : \E sh : Deliver(r, sh)
    <3>1. PICK r \in Keyup(core) : \E sh : Deliver(r, sh)
      BY <2>2
    <3>2. r.c.buf = core.buf /\ r.c.acted = core.acted
      BY <1>0, KeyupResult DEF Inv, PendingHeld
    <3> QED
      BY <3>1, <3>2, DeliverMoves DEF QueueMoves
  <2> QED
    BY <1>2, <2>1, <2>2 DEF KeyRelease
<1>3. CASE Reminder
  <2>1. PICK r \in CoreKeydown(core, NoKey) : Deliver(r, [shell EXCEPT !.reminder = r.keep])
    BY <1>3 DEF Reminder
  <2>2. QueueMoves(core, r.c)
    BY <1>0, <2>1, CoreKeydownResult DEF Call
  <2> QED
    BY <2>1, <2>2, DeliverMoves
<1>4. CASE Timeout1 \/ Timeout2
  <2>1. core' = core \/ core' = Pending(core, "cancelled")
    BY <1>4 DEF Timeout1, Timeout2
  <2> QED
    BY <1>0, <2>1, PendingResult DEF Pendings, QueueMoves
<1>5. CASE Repeat
  <2>1. PICK d \in Keydown(core, core.repeat), r \in Results, sh \in Shell :
          /\ r = [Result([d EXCEPT !.repeating = FALSE], FALSE) EXCEPT !.t3 = Asks(d)]
          /\ Deliver(r, sh)
    BY <1>5, RepeatCalls
  <2>2. /\ Quiet(core) /\ Quiet(r.c) /\ r.c.acted = core.repeat /\ core.repeat \in Strokes
    BY <1>5, <2>1, RepeatResult DEF Repeat
  <2>3. QueueMoves(core, r.c)
    BY <2>2 DEF QueueMoves, Quiet
  <2> QED
    BY <2>1, <2>3, DeliverMoves
<1>6. CASE Timeout3
  BY <1>0, <1>6, Timeout3Result DEF Timeout3, QueueMoves
<1>7. CASE SaveState
  BY <1>0, <1>7, SavedResult DEF SaveState, QueueMoves
<1>8. CASE SwitchState
  <2>1. core'.buf = <<>> /\ core'.acted = NoStroke
    BY <1>8 DEF SwitchState, FreshCore
  <2> QED
    BY <2>1 DEF QueueMoves
<1> QED
  BY <1>1, <1>2, <1>3, <1>4, <1>5, <1>6, <1>7, <1>8, RelaunchMoves DEF Next

(* Keys are acted upon in the order they were pressed, whatever running,   *)
(* pausing, waiting in GETKEY and interruptible commands make of them.     *)
THEOREM QueueRefinement == Spec => QueueSpec
<1>1. Init => Queue!Init
  BY FreshResult DEF Init, Queue!Init
<1>2. Inv /\ [Next]_vars => [Queue!Next]_(Queue!qVars)
  <2>1. ASSUME Inv, Next
        PROVE  [Queue!Next]_(Queue!qVars)
    BY <2>1, NextMoves, QueueStep
  <2>2. ASSUME UNCHANGED vars
        PROVE  [Queue!Next]_(Queue!qVars)
    BY <2>2 DEF vars, Queue!qVars
  <2> QED
    BY <2>1, <2>2
<1> QED
  BY <1>1, <1>2, Invariance, PTL DEF Spec, QueueSpec, Queue!Spec

=============================================================================

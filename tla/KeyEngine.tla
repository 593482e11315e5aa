----------------------------- MODULE KeyEngine ------------------------------
(***************************************************************************)
(* The event handlers of the core (core_main.cc) and the part of the GTK   *)
(* shell that calls them (gtk/shell_main.cc). One thread runs everything,  *)
(* in short calls: a program goes on only while the shell keeps calling    *)
(* core_keydown(0), which it does while the core answers that it wants to. *)
(*                                                                         *)
(* A core call is an operator from the core's state to the set of its      *)
(* possible results: what the called command or worker does is a choice.   *)
(* A call executes one instruction; a longer one is several calls with no  *)
(* event in between.                                                       *)
(***************************************************************************)
EXTENDS Naturals, Sequences

CONSTANTS
    Keys,          \* the keys of the calculator other than Shift
    RUN, EXIT,     \* two of them: R/S and EXIT
    SHIFT, NoKey,  \* not among Keys; NoKey is the key code 0
    UNKNOWN,       \* a key bound to a command or a character that does not exist
    Cap,           \* how many keys the type-ahead buffer holds: 15
    UnknownKeys    \* whether such keys are pressed

ASSUME KeysAssumption ==
    /\ {RUN, EXIT} \subseteq Keys /\ RUN # EXIT
    /\ {SHIFT, NoKey, UNKNOWN} \cap Keys = {}
    /\ SHIFT # NoKey /\ UNKNOWN \notin {SHIFT, NoKey}
ASSUME CapAssumption == Cap \in Nat \ {0}
ASSUME UnknownKeysAssumption == UnknownKeys \in BOOLEAN

VARIABLES
    core,      \* the globals of the core
    shell,     \* what the shell remembers between events
    outcome    \* history: how the last instruction or worker ended

vars == <<core, shell, outcome>>

-----------------------------------------------------------------------------
(* Values *)

Strokes == [key : Keys, shift : BOOLEAN]
Stroke(k, s) == [key |-> k, shift |-> s]
NoStroke == Stroke(NoKey, FALSE)

Getkeys == {"no", "getkey", "getkey1"}

(* mode_interruptible with mode_stoppable *)
Workers == {"no", "stoppable", "unstoppable"}

(* pending_command: "cmd" is any command that core_keyup() executes, and   *)
(* "run" one that starts the program; CMD_NULL counts as "cancelled"       *)
Pendings == {"none", "cancelled", "cmd", "run", "linger1", "linger2", "off"}

Outcomes == {"none", "ok", "trapped", "ended"}

Core ==
    [running : BOOLEAN, getkey : Getkeys, pause : BOOLEAN, intr : Workers,
     pending : Pendings, shift : BOOLEAN, buf : Seq(Strokes),
     repeating : BOOLEAN,   \* the flag; the stroke outlives it
     repeat : Strokes,
     acted : Strokes \cup {NoStroke}]   \* history: keydown()'s last argument since
                                        \* type-ahead was last given up

Shell ==
    [reminder : BOOLEAN,                         \* reminder_id: an idle callback
     held : Keys \cup {SHIFT, UNKNOWN, NoKey},   \* ckey
     enqueued : BOOLEAN,
     timer : {"none", "t1", "t2", "repeat"},     \* timeout_id
     timer3 : BOOLEAN]                           \* timeout3_id

FreshCore(running) ==
    [running |-> running, getkey |-> "no", pause |-> FALSE, intr |-> "no",
     pending |-> "none", shift |-> FALSE, buf |-> <<>>, repeating |-> FALSE,
     repeat |-> Stroke(RUN, FALSE), acted |-> NoStroke]

FreshShell(running) ==
    [reminder |-> running, held |-> NoKey, enqueued |-> FALSE,
     timer |-> "none", timer3 |-> FALSE]

(* The result of a core call: the new state, the value returned, *enqueued, *)
(* *repeat, whether shell_request_timeout3() and shell_powerdown() were     *)
(* called, and the outcome.                                                 *)
Result(c, keep) ==
    [c |-> c, keep |-> keep, enq |-> FALSE, rep |-> FALSE, t3 |-> FALSE,
     quit |-> FALSE, out |-> "none"]

(* Plausible slips in a definition, here and below, are named for what is  *)
(* wrong and are only used to show that the properties notice them.        *)
WantsCpuUnlessQueued(c) == c.running /\ c.getkey = "no" /\ ~c.pause

WantsCpuUnlessWorking(c) ==
    \/ c.running /\ c.getkey = "no" /\ ~c.pause /\ c.intr = "no"
    \/ c.buf # <<>>

(* What most handlers answer: whether they want to be called again *)
WantsCpu(c) ==
    \/ c.running /\ c.getkey = "no" /\ ~c.pause
    \/ c.buf # <<>>

-----------------------------------------------------------------------------
(* The type-ahead buffer; KeyBuffer shows that the ring implements this *)

EnqueueUnbounded(c, k) ==
    IF k = NoKey
      THEN c
      ELSE [c EXCEPT !.buf = Append(@, Stroke(k, c.shift)), !.shift = FALSE]

Enqueue(c, k) ==
    IF k = NoKey
      THEN c
      ELSE [c EXCEPT !.buf = IF Len(@) < Cap THEN Append(@, Stroke(k, c.shift)) ELSE @,
                     !.shift = FALSE]

(* keybuf_tail = keybuf_head *)
Flushed(c) == [c EXCEPT !.buf = <<>>, !.acted = NoStroke]

Dequeue(c) == [c EXCEPT !.buf = Tail(@), !.acted = Head(c.buf)]

-----------------------------------------------------------------------------
(* Instructions, commands and workers *)

Starting(c) == {[c EXCEPT !.intr = w] : w \in Workers \ {"no"}}

GetkeyWait(c) == {[c EXCEPT !.getkey = g] : g \in Getkeys \ {"no"}}

(* One instruction of a running program. "trapped" is an error that        *)
(* handle_error() hands to SOLVE: it returns FALSE and leaves mode_running. *)
Instruction(c) ==
    LET Then(cs, out, t3) ==
            {[Result(d, WantsCpu(d)) EXCEPT !.out = out, !.t3 = t3] : d \in cs}
    IN  Then({c}, "ok", FALSE)
        \cup Then({c}, "trapped", FALSE)
        \cup Then({[c EXCEPT !.running = FALSE]}, "ended", FALSE)
        \cup Then({[c EXCEPT !.pause = TRUE]}, "ok", TRUE)
        \cup Then(GetkeyWait(c) \cup Starting(c), "ok", FALSE)
        \cup IF c.buf = <<>> THEN {} ELSE Then({Dequeue(c)}, "ok", FALSE)   \* GETKEYA

(* A call of mode_interruptible(FALSE): it is not done, or what            *)
(* core_keydown_2() makes of the error it ends with                        *)
Work(c) ==
    LET done == [c EXCEPT !.intr = "no"]
        Ended(out, running) ==
            [Result([done EXCEPT !.running = running], running \/ c.buf # <<>>)
                EXCEPT !.out = out]
    IN  {Result(c, TRUE)} \cup
        IF c.running
          THEN {Ended("ok", TRUE), Ended("trapped", FALSE), Ended("ended", FALSE)}
          ELSE {Result([done EXCEPT !.pending = "none"], c.buf # <<>>)}

(* stop_interruptible() *)
StopInterruptible(c) ==
    [c EXCEPT !.intr = "no", !.running = FALSE, !.pending = "none"]

-----------------------------------------------------------------------------
(* keydown() (core_keydown.cc): what a key does when it is acted upon. The *)
(* menus and entry modes that decide are not modelled, so this is a choice *)
(* among everything a key can do.                                          *)

GetkeyGets(c, s) ==
    LET stops == \/ s.key = RUN /\ ~s.shift
                 \/ s.key = EXIT /\ c.getkey = "getkey"
        got == [c EXCEPT !.getkey = "no"]
    IN  {[got EXCEPT !.running = @ /\ ~stops],
         [got EXCEPT !.running = FALSE]}                \* out of memory
        \cup IF s.key \in {RUN, EXIT} THEN {} ELSE {c}   \* a command without a key code

Pending(c, p) == [c EXCEPT !.pending = p]

OtherKey(c, s) ==
    {Pending(c, "cmd"), Pending(c, "run"), Pending(c, "linger1"),
     [c EXCEPT !.running = TRUE]}                 \* a key of a program's menu
    \cup {[Pending(c, p) EXCEPT !.repeating = TRUE, !.repeat = s] :
             p \in {"none", "cancelled"}}

Keydown(c0, s) ==
    LET c == [c0 EXCEPT !.pending = "none", !.acted = s]
    IN  IF c.getkey # "no" THEN GetkeyGets(c, s)
        ELSE IF s = Stroke(EXIT, TRUE) THEN {Pending(c, "off")}
        ELSE IF s = Stroke(RUN, TRUE) THEN {c}
        ELSE {c, Pending(c, "cancelled")}
             \cup (IF s.key = RUN THEN {Pending(c, "run")} ELSE {})
             \cup (IF s.key \in {RUN, EXIT} THEN {} ELSE OtherKey(c, s))

(* SHOW, MEM and shifted VARMENU keys ask for the timeout. *)
Asks(c) == c.pending = "linger1"

-----------------------------------------------------------------------------
(* core_keyup() *)

(* handle() of the pending command. SST and the stepped instruction are    *)
(* among the commands that are simply done.                                *)
Command(c0) ==
    LET c == Pending(c0, "none")
    IN  {Result(d, WantsCpu(d)) : d \in {c} \cup GetkeyWait(c)}
        \cup {Result(d, TRUE) : d \in Starting(c)}
        \cup {Result([c EXCEPT !.running = TRUE], TRUE)}
        \cup {[Result(c, FALSE) EXCEPT !.quit = TRUE]}

Keyup(c) ==
    LET queued == c.running \/ c.buf # <<>>
    IN  CASE c.pause -> {Result(c, FALSE)}
          [] ~c.pause /\ c.pending \in {"linger1", "linger2"} ->
                {Result(Pending(c, "linger2"), queued)}
          [] ~c.pause /\ c.pending = "off" ->
                {[Result(Pending(c, "none"), FALSE) EXCEPT !.quit = TRUE]}
          [] ~c.pause /\ c.pending = "none" -> {Result(c, queued \/ c.intr # "no")}
          [] ~c.pause /\ c.pending = "cancelled" -> {Result(Pending(c, "none"), queued)}
          [] ~c.pause /\ c.pending = "run" ->
                {Result([Pending(c, "none") EXCEPT !.running = TRUE], TRUE),
                 Result(Pending(c, "none"), queued)}   \* storing INPUT's value failed
          [] ~c.pause /\ c.pending = "cmd" -> Command(c)

-----------------------------------------------------------------------------
(* core_keydown_2(), branch by branch *)

ShiftPressed(c) ==
    LET d == [c EXCEPT !.shift = ~@] IN {Result(d, WantsCpu(d))}

WhileInterruptible(c, k) ==
    IF k = EXIT \/ (k = RUN /\ c.intr = "stoppable" /\ ~c.shift)
      THEN {[Result(StopInterruptible(Flushed(c)), FALSE)
                EXCEPT !.enq = TRUE]}
      ELSE {[r EXCEPT !.enq = (k # NoKey)] : r \in Work(Enqueue(c, k))}

StopPressed(c, k) == k = EXIT \/ (k = RUN /\ ~c.shift)

Stopped(c, k) ==
    IF k = EXIT
      THEN [Flushed(c) EXCEPT !.shift = FALSE, !.running = FALSE, !.pending = "cancelled"]
      ELSE [Flushed(c) EXCEPT !.running = FALSE]

WhileRunning(c, k) ==
    IF StopPressed(c, k)
      THEN {[Result(Stopped(c, k), FALSE) EXCEPT !.enq = (k = RUN)]}
      ELSE {[r EXCEPT !.enq = (k # NoKey)] : r \in Instruction(Enqueue(c, k))}

ServeQueuedPressOnly(c, k) ==
    {[Result(Enqueue(d, k), TRUE) EXCEPT !.t3 = Asks(d)] :
        d \in Keydown(Dequeue(c), Head(c.buf))}

(* u is the result of the release of the queued key, d the core before it. *)
ThenQueue(d, u, k) ==
    LET e == Enqueue(u.c, k)
    IN  [u EXCEPT !.c = e,
                  !.keep = (e.running /\ e.getkey = "no") \/ e.buf # <<>>,
                  !.t3 = Asks(d)]

(* A queued key is acted upon, press and release at once; a new one is     *)
(* queued, of which the shell is not told.                                 *)
ServeQueued(c, k) ==
    UNION {{ThenQueue(d, u, k) : u \in Keyup(d)} : d \in Keydown(Dequeue(c), Head(c.buf))}

ActUpon(c, k) ==
    {[Result([d EXCEPT !.repeating = FALSE], d.running /\ d.getkey = "no")
        EXCEPT !.rep = d.repeating, !.t3 = Asks(d)] :
        d \in Keydown([c EXCEPT !.shift = FALSE], Stroke(k, c.shift))}

DispatchNewKeyFirst(c, k) ==
    IF c.intr # "no" THEN WhileInterruptible(c, k)
    ELSE IF c.running /\ c.getkey = "no" THEN WhileRunning(c, k)
    ELSE IF k # NoKey THEN ActUpon(c, k)
    ELSE IF c.buf # <<>> THEN ServeQueued(c, k)
    ELSE {Result(c, FALSE)}

Dispatch(c, k) ==
    IF c.intr # "no" THEN WhileInterruptible(c, k)
    ELSE IF c.running /\ c.getkey = "no" THEN WhileRunning(c, k)
    ELSE IF c.buf # <<>> THEN ServeQueued(c, k)
    ELSE IF k # NoKey THEN ActUpon(c, k)
    ELSE {Result(c, FALSE)}

UnpausedByHalf(c) == [c EXCEPT !.running = FALSE]

Unpaused(c) == [c EXCEPT !.pause = FALSE, !.running = FALSE]

CoreKeydown(c, k) ==
    IF k = SHIFT THEN ShiftPressed(c)
    ELSE IF ~c.pause THEN Dispatch(c, k)
    ELSE IF k = NoKey THEN {Result(c, FALSE)}
    ELSE IF StopPressed(c, k) /\ ~c.shift THEN {Result(Unpaused(c), FALSE)}
    ELSE Dispatch(Unpaused(c), k)

-----------------------------------------------------------------------------
(* The shell's event handlers *)

Init ==
    \E autoExec \in BOOLEAN :
        /\ core = FreshCore(autoExec)
        /\ shell = FreshShell(autoExec)
        /\ outcome = "none"

(* quit() saves the state and ends the process. The next one starts with    *)
(* core_init() and core_powercycle(), which gives up GETKEY, type-ahead and *)
(* the pending command, and runs the program only if flag 11 says so.       *)
Relaunch ==
    \E autoExec \in BOOLEAN :
        /\ core' = FreshCore(autoExec)
        /\ shell' = FreshShell(autoExec)
        /\ outcome' = "none"

(* What is common to the handlers that call the core: sh is the state of the *)
(* shell as the handler leaves it, before the timeout that the core may ask  *)
(* for.                                                                      *)
Deliver(r, sh) ==
    IF r.quit
      THEN Relaunch
      ELSE /\ core' = r.c
           /\ shell' = [sh EXCEPT !.timer3 = @ \/ r.t3]
           /\ outcome' = r.out

Timeout3CoreStillPaused(c, repaint) ==
    CASE c.pause -> c
      [] ~c.pause /\ c.pending = "linger1" -> Pending(c, "cancelled")
      [] ~c.pause /\ c.pending = "linger2" -> Pending(c, "none")
      [] OTHER -> c

(* core_timeout3(repaint) *)
Timeout3Core(c, repaint) ==
    CASE c.pause -> [c EXCEPT !.pause = ~repaint]
      [] ~c.pause /\ c.pending = "linger1" -> Pending(c, "cancelled")
      [] ~c.pause /\ c.pending = "linger2" -> Pending(c, "none")
      [] OTHER -> c

(* shell_keydown() *)
KeyPress(k) ==
    /\ shell.held = NoKey
    /\ k = UNKNOWN => UnknownKeys
    /\ LET cancels == shell.timer3 /\ k # SHIFT
           c == IF cancels THEN Timeout3Core(core, FALSE) ELSE core
           results == IF k = UNKNOWN
                        THEN CoreKeydown([c EXCEPT !.shift = FALSE], NoKey)
                        ELSE CoreKeydown(c, k)
           Timer(r) == IF r.keep THEN "none"
                       ELSE IF r.rep THEN "repeat"
                       ELSE IF ~r.enq THEN "t1" ELSE "none"
       IN  \E r \in results :
               Deliver(r, [shell EXCEPT !.held = k,
                                        !.enqueued = r.enq,
                                        !.reminder = r.keep,
                                        !.timer = Timer(r),
                                        !.timer3 = @ /\ ~cancels])

(* shell_keyup() *)
KeyRelease ==
    /\ shell.held # NoKey
    /\ LET released == [shell EXCEPT !.held = NoKey, !.timer = "none"]
       IN  IF shell.enqueued
             THEN /\ shell' = released
                  /\ outcome' = "none"
                  /\ UNCHANGED core
             ELSE \E r \in Keyup(core) :
                      Deliver(r, [released EXCEPT !.reminder = r.keep])

(* reminder() *)
Reminder ==
    /\ shell.reminder
    /\ \E r \in CoreKeydown(core, NoKey) :
           Deliver(r, [shell EXCEPT !.reminder = r.keep])

(* timeout1() and timeout2(); the first only changes the display *)
Timeout1 ==
    /\ shell.timer = "t1"
    /\ shell' = [shell EXCEPT !.timer = "t2"]
    /\ outcome' = "none"
    /\ UNCHANGED core

Timeout2 ==
    /\ shell.timer = "t2"
    /\ \/ /\ core.pending \in {"cmd", "run"}
          /\ core' = Pending(core, "cancelled")
       \/ /\ core.pending # "run"          \* or FLAG_NO_SHOW
          /\ UNCHANGED core
    /\ shell' = [shell EXCEPT !.timer = "none"]
    /\ outcome' = "none"

(* repeater() and core_repeat() *)
Repeat ==
    /\ shell.timer = "repeat"
    /\ \E d \in Keydown(core, core.repeat) :
           Deliver([Result([d EXCEPT !.repeating = FALSE], FALSE) EXCEPT !.t3 = Asks(d)],
                   [shell EXCEPT !.timer = IF d.repeating THEN "repeat" ELSE "t1"])

(* timeout3() *)
Timeout3 ==
    /\ shell.timer3
    /\ core' = Timeout3Core(core, TRUE)
    /\ shell' = [shell EXCEPT !.timer3 = FALSE,
                              !.reminder = @ \/ core.pause,
                              !.timer = IF core.pause THEN "none" ELSE @]
    /\ outcome' = "none"

(* core_save_state() *)
Saved(c) ==
    IF c.intr # "no" THEN StopInterruptible(c) ELSE [c EXCEPT !.running = FALSE]

(* The states window duplicates or exports the current state. *)
SaveState ==
    /\ core' = Saved(core)
    /\ outcome' = "none"
    /\ UNCHANGED shell

(* It switches to another state: core_save_state(), core_cleanup(),        *)
(* core_init() and core_powercycle() in one process, with its timers.      *)
SwitchState ==
    \E autoExec \in BOOLEAN :
        /\ core' = [FreshCore(autoExec) EXCEPT !.pause = core.pause,
                                               !.repeating = core.repeating,
                                               !.repeat = core.repeat]
        /\ shell' = [shell EXCEPT !.reminder = @ \/ autoExec,
                                  !.timer = IF autoExec THEN "none" ELSE @]
        /\ outcome' = "none"

Next ==
    \/ \E k \in Keys \cup {SHIFT, UNKNOWN} : KeyPress(k)
    \/ KeyRelease
    \/ Reminder
    \/ Timeout1
    \/ Timeout2
    \/ Repeat
    \/ Timeout3
    \/ SaveState
    \/ SwitchState
    \/ Relaunch

Spec == Init /\ [][Next]_vars

(* The main loop runs idle callbacks and expired timers, the user lets go  *)
(* of every key, and every worker is done after finitely many calls.       *)
WorkerDone == Reminder /\ core.intr # "no" /\ core'.intr = "no"

Fairness ==
    /\ WF_vars(Reminder)
    /\ WF_vars(KeyRelease)
    /\ WF_vars(Timeout3)
    /\ SF_vars(WorkerDone)

FairSpec == Spec /\ Fairness

-----------------------------------------------------------------------------
(* Properties *)

TypeOK ==
    /\ core \in Core
    /\ Len(core.buf) <= Cap
    /\ shell \in Shell
    /\ outcome \in Outcomes

(* Something is going to call the core again by itself, or the release of  *)
(* a key that is not just discarded will.                                  *)
WillWake ==
    \/ shell.reminder
    \/ core.pause /\ shell.timer3
    \/ shell.held # NoKey /\ ~shell.enqueued

(* A program that is running, in an interruptible instruction or not, and  *)
(* keys that were typed ahead never wait for a callback nobody will make.  *)
ProgramAwake ==
    (core.running /\ (core.getkey = "no" \/ core.intr # "no")) \/ core.buf # <<>>
        => WillWake

(* A program that pauses will be woken by the timeout of PSE. *)
PauseHasTimer == core.pause => shell.timer3

(* An interruptible command executed from the keyboard goes on.            *)
CommandAwake == core.intr # "no" => WillWake

(* A command that waits for the release of its key is held by a key whose  *)
(* release reaches core_keyup(), while nothing runs that it could disturb  *)
(* and no key is queued that it would overtake.                            *)
PendingHeld ==
    core.pending \in {"cmd", "run", "linger1", "off"} =>
        /\ shell.held \in Keys
        /\ ~shell.enqueued
        /\ ~core.running
        /\ core.intr = "no"
        /\ core.buf = <<>>

(* What SOLVE does about an error that it traps is run the next function   *)
(* value: the program goes on.                                             *)
TrappedErrorGoesOn == outcome = "trapped" => core.running

(* The key that repeats is the one that is held down.                      *)
RepeatsHeldKey == shell.timer = "repeat" => core.repeat.key = shell.held

(* A key that is put into the buffer is reported to the shell as enqueued. *)
EnqueuedReported ==
    [][/\ shell.held = NoKey
       /\ shell'.held \in Keys
       /\ core'.buf \notin {<<>>, core.buf}
       => shell'.enqueued]_vars

(* The release that core_keyup() sees during PSE is that of Shift.         *)
ShiftReleasedInPause ==
    [][core.pause /\ shell.held # NoKey /\ shell'.held = NoKey
       /\ shell'.timer3 /\ ~shell.enqueued => shell.held = SHIFT]_vars

Queue == INSTANCE KeyQueue WITH
            Keys <- Strokes, NoKey <- NoStroke, queue <- core.buf, acted <- core.acted

(* Keys are acted upon in the order they were pressed, however running,    *)
(* pausing, waiting in GETKEY and interruptible commands take turns.       *)
QueueSpec == Queue!Spec

(* PSE ends. *)
PauseEnds == core.pause ~> ~core.pause

(* A program gets out of an interruptible instruction. *)
InstructionEnds == (core.running /\ core.intr # "no") ~> core.intr = "no"

(* GETKEY gets the key that was typed ahead, if it is still there. *)
GetkeyFed == (core.getkey # "no" /\ core.buf # <<>>) ~> (core.getkey = "no" \/ core.buf = <<>>)

=============================================================================

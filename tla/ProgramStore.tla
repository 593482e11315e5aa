---------------------------- MODULE ProgramStore ----------------------------
(***************************************************************************)
(* The program memory (core_globals.cc): programs, the table of their      *)
(* global labels and ENDs, the targets that GTO and XEQ of local labels    *)
(* have cached inside the code, the current line, and the return addresses *)
(* that refer to lines. Keys edit programs between any two instructions of *)
(* a program that was stopped, so that all of these have to follow.        *)
(*                                                                         *)
(* A program is a sequence of lines and a pc is a line number: 0 stands    *)
(* for the pc -1 of line 00, and i for the first byte of line i. Programs  *)
(* are numbered from 1. What a line looks like in bytes is left out.       *)
(***************************************************************************)
EXTENDS Selection

CONSTANTS
    GlobalLabels,     \* names of global labels
    LocalLabels,      \* 00-99, A-J, a-e and the synthetic labels of StackLabels
    StackLabels,      \* LBL ST X and so on, which only an import can create
    StackNumbers,     \* pairs of a stack label and the number it also answers to
    Commands,         \* the lines a user stores, END excepted
    MaxLines,         \* bound: lines of all programs
    MaxReturns,       \* bound: return addresses
    CutsPastEmpty     \* whether CLP may delete the last program while it is the
                      \* current one and an empty program is left to be the last

ASSUME LabelAssumption ==
    /\ GlobalLabels \cap LocalLabels = {}
    /\ StackLabels \subseteq LocalLabels
    /\ StackNumbers \subseteq StackLabels \X LocalLabels
ASSUME CommandAssumption ==
    Commands \subseteq
        [op : {"lbl"}, arg : GlobalLabels \cup LocalLabels]
        \cup [op : {"gto", "xeq"}, arg : GlobalLabels \cup LocalLabels]
ASSUME BoundAssumption == MaxLines \in Nat \ {0} /\ MaxReturns \in Nat

VARIABLES
    prgms,         \* each with lines, lclbl_invalid and locked
    labels,        \* the global labels and ENDs, in the order of the code
    currentPrgm,
    pc,
    rtns           \* return addresses, the newest last

vars == <<prgms, labels, currentPrgm, pc, rtns>>

-----------------------------------------------------------------------------
(* Lines and programs *)

Unknown == -1       \* the bytes FF FF FF FF in place of a target
NotFound == -2

Line(c) == [op |-> c.op, arg |-> c.arg, target |-> Unknown]
End == [op |-> "end", arg |-> "none", target |-> Unknown]

Lines == {End} \cup [op : {"lbl", "gto", "xeq"}, arg : GlobalLabels \cup LocalLabels,
                     target : {Unknown, NotFound} \cup (Nat \ {0})]

(* A GTO or XEQ that has room for a target *)
Caches(ln) == ln.op \in {"gto", "xeq"} /\ ln.arg \in LocalLabels

NewPrgm(lines) == [lines |-> lines, invalid |-> TRUE, locked |-> FALSE]
EmptyPrgm == NewPrgm(<<End>>)

LastLine(p) == Len(prgms[p].lines)
IsEnd(p, i) == i = LastLine(p)
IsEmptyPrgm(p) == LastLine(p) = 1

Positions(ps) == UNION {{p} \X DOMAIN ps[p].lines : p \in DOMAIN ps}

LineAt(ps, q) == ps[q[1]].lines[q[2]]

(* find_local_label(): whether LBL l stops the search for label a. The     *)
(* comparison of two stack labels is an assignment in the code.            *)
LabelMatches(l, a) ==
    \/ l = a
    \/ l \in StackLabels /\ a \in StackLabels
    \/ <<l, a>> \in StackNumbers

LeastOf(S) == CHOOSE i \in S : \A j \in S : i <= j

(* The search ends before it has come around to the line it started from.  *)
FindLocal(lines, start, a) ==
    LET here  == {i \in 1 .. Len(lines) - 1 :
                    lines[i].op = "lbl" /\ lines[i].arg \in LocalLabels
                    /\ LabelMatches(lines[i].arg, a)}
        ahead == {i \in here : i >= start}
    IN  IF ahead # {} THEN LeastOf(ahead)
        ELSE IF here # {} THEN LeastOf(here)
        ELSE NotFound

-----------------------------------------------------------------------------
(* The table of labels *)

NoName == "end"

Labelled(ps) ==
    {q \in Positions(ps) :
        \/ LineAt(ps, q).op = "end"
        \/ LineAt(ps, q).op = "lbl" /\ LineAt(ps, q).arg \in GlobalLabels}

Before(q, r) == q[1] < r[1] \/ (q[1] = r[1] /\ q[2] < r[2])

Entry(ps, q) ==
    [name |-> IF LineAt(ps, q).op = "end" THEN NoName ELSE LineAt(ps, q).arg,
     prgm |-> q[1], pc |-> q[2]]

(* rebuild_label_table() *)
Rebuilt(ps) ==
    LET at == Labelled(ps)
        Nth(n) == CHOOSE q \in at : Cardinality({r \in at : Before(r, q)}) = n - 1
    IN  [n \in 1 .. Cardinality(at) |-> Entry(ps, Nth(n))]

(* fault: a label on the very line that moves stays behind *)
UpdatedBelow(ls, p, from, by) ==
    [n \in DOMAIN ls |->
        IF ls[n].prgm = p /\ ls[n].pc > from
          THEN [ls[n] EXCEPT !.pc = @ + by]
          ELSE ls[n]]

(* update_label_table(): gives up at the first label of a later program *)
Updated(ls, p, from, by) ==
    [n \in DOMAIN ls |->
        IF ls[n].prgm = p /\ ls[n].pc >= from /\ \A m \in 1 .. n : ls[m].prgm <= p
          THEN [ls[n] EXCEPT !.pc = @ + by]
          ELSE ls[n]]

(* find_global_label(): the newest label of that name, or none *)
FindGlobal(a) == {n \in DOMAIN labels :
                    /\ labels[n].name = a
                    /\ \A m \in DOMAIN labels : m > n => labels[m].name # a}

-----------------------------------------------------------------------------
(* Editing *)

(* invalidate_lclbls() *)
Forget(lines) == [i \in DOMAIN lines |-> [lines[i] EXCEPT !.target = Unknown]]

Forgotten(prgm) == [prgm EXCEPT !.lines = Forget(@), !.invalid = TRUE]

(* fault: what was before release 2.0.17 *)
InvalidatedUnforced(ps, p, force) ==
    IF ~ps[p].invalid
      THEN [ps EXCEPT ![p] = Forgotten(@)]
      ELSE ps

Invalidated(ps, p, force) ==
    IF force \/ ~ps[p].invalid
      THEN [ps EXCEPT ![p] = Forgotten(@)]
      ELSE ps

InsertLine(lines, i, ln) == SubSeq(lines, 1, i - 1) \o <<ln>> \o SubSeq(lines, i, Len(lines))
CutLines(lines, i, n) == SubSeq(lines, 1, i - 1) \o SubSeq(lines, i + n, Len(lines))

InsertPrgm(ps, p, new) == SubSeq(ps, 1, p - 1) \o <<new>> \o SubSeq(ps, p, Len(ps))
CutPrgm(ps, p) == SubSeq(ps, 1, p - 1) \o SubSeq(ps, p + 1, Len(ps))

(* store_command_after(): where the new line goes *)
InsertPos ==
    IF pc = 0 THEN 1 ELSE IF IsEnd(currentPrgm, pc) THEN pc ELSE pc + 1

(* store_command() of a line other than END, at line i of program p *)
Stored(ps, ls, p, i, ln) ==
    LET text == [ps EXCEPT ![p].lines = InsertLine(@, i, ln)]
    IN  [prgms  |-> Invalidated(text, p, FALSE),
         labels |-> IF ln.op = "lbl" /\ ln.arg \in GlobalLabels
                      THEN Rebuilt(text)
                      ELSE Updated(ls, p, i, 1)]

(* goto_dot_dot() with force_new: an empty program at the end *)
WithNewPrgm == Append(prgms, EmptyPrgm)

Room == Cardinality(Positions(prgms)) < MaxLines

(* A line is stored. A locked program refuses it, but when an argument had *)
(* to be entered first, start_incomplete_command() has moved the pc already *)
(* and finish_command_entry() does not move it back. X2LINE and A2LINE      *)
(* store their lines in the same way.                                       *)
Insert(c) ==
    /\ Room
    /\ UNCHANGED currentPrgm
    /\ IF prgms[currentPrgm].locked
         THEN pc' \in {pc, InsertPos} /\ UNCHANGED <<prgms, labels, rtns>>
         ELSE LET s == Stored(prgms, labels, currentPrgm, InsertPos, Line(c))
              IN  /\ prgms' = s.prgms
                  /\ labels' = s.labels
                  /\ pc' = InsertPos
                  /\ rtns' = <<>>

(* END is stored in the middle of a program and splits it. The caller sets *)
(* pc to the first line even when a locked program has refused it. Nothing *)
(* initialises the flag 'locked' of the second half.                       *)
InsertEnd ==
    /\ Room
    /\ LET p == currentPrgm
           lines == prgms[p].lines
           first == SubSeq(lines, 1, InsertPos - 1) \o <<End>>
           second == SubSeq(lines, InsertPos, Len(lines))
       IN  IF prgms[p].locked
             THEN UNCHANGED <<prgms, labels, currentPrgm, rtns>>
             ELSE \E garbage \in BOOLEAN :
                    LET text == InsertPrgm([prgms EXCEPT ![p].lines = first], p + 1,
                                           [NewPrgm(second) EXCEPT !.locked = garbage])
                    IN  /\ prgms' = Invalidated(Invalidated(text, p + 1, TRUE), p, TRUE)
                        /\ labels' = Rebuilt(text)
                        /\ currentPrgm' = p + 1
                        /\ rtns' = <<>>
    /\ pc' = 1

(* delete_command() of an END: the next program is appended to this one *)
DeleteEnd ==
    LET p == currentPrgm
        joined == SubSeq(prgms[p].lines, 1, pc - 1) \o prgms[p + 1].lines
        text == CutPrgm([prgms EXCEPT ![p].lines = joined], p + 1)
    IN  /\ prgms' = Invalidated(text, p, TRUE)
        /\ labels' = Rebuilt(text)

(* delete_command() of another line *)
DeleteOther ==
    LET p == currentPrgm
        ln == prgms[p].lines[pc]
        text == [prgms EXCEPT ![p].lines = CutLines(@, pc, 1)]
    IN  /\ prgms' = Invalidated(text, p, FALSE)
        /\ labels' = IF ln.op = "lbl" /\ ln.arg \in GlobalLabels
                       THEN Rebuilt(text)
                       ELSE Updated(labels, p, pc, -1)

Delete == IF IsEnd(currentPrgm, pc) THEN DeleteEnd ELSE DeleteOther

(* fault: the next program's lock is forgotten *)
DeletableHere ==
    /\ ~prgms[currentPrgm].locked

Deletable ==
    /\ ~prgms[currentPrgm].locked
    /\ IsEnd(currentPrgm, pc) => ~prgms[currentPrgm + 1].locked

(* The backspace key in program mode; the last END is only stepped over. *)
DeleteLine ==
    /\ pc # 0
    /\ IF IsEnd(currentPrgm, pc) /\ currentPrgm = Len(prgms)
         THEN pc' = pc - 1 /\ UNCHANGED <<prgms, labels, rtns>>
         ELSE IF Deletable
                THEN Delete /\ pc' = pc - 1 /\ rtns' = <<>>
                ELSE UNCHANGED <<prgms, labels, pc, rtns>>
    /\ UNCHANGED currentPrgm

(* clear_prgm_lines() deletes n lines, but no END *)
LinesCleared(n) ==
    LET p == currentPrgm
        from == IF pc = 0 THEN 1 ELSE pc
        k == IF from + n <= LastLine(p) THEN n ELSE LastLine(p) - from
        Gone(e) == e.prgm = p /\ from <= e.pc /\ e.pc < from + k
        left == Kept(labels, {m \in DOMAIN labels : ~Gone(labels[m])})
    IN  /\ prgms' = Invalidated([prgms EXCEPT ![p].lines = CutLines(@, from, k)], p, FALSE)
        /\ labels' = [m \in DOMAIN left |->
                        IF left[m].prgm = p /\ left[m].pc >= from + k
                          THEN [left[m] EXCEPT !.pc = @ - k]
                          ELSE left[m]]
        /\ pc' = from
        /\ UNCHANGED currentPrgm

(* fault: DEL leaves the return addresses alone *)
DelKeepingReturns(n) ==
    /\ ~prgms[currentPrgm].locked
    /\ LinesCleared(n)
    /\ UNCHANGED rtns

Del(n) ==
    /\ ~prgms[currentPrgm].locked
    /\ LinesCleared(n)
    /\ rtns' = <<>>

(* clear_prgm_by_index(): the programs and labels that are left *)
Cleared(p) ==
    LET left == Kept(labels, {m \in DOMAIN labels : labels[m].prgm # p})
        kept == CutPrgm(prgms, p)
        needsNew ==
            /\ p = Len(prgms)
            /\ kept # <<>> => Len(kept[Len(kept)].lines) > 1
    IN  IF needsNew
          THEN [prgms |-> Append(kept, EmptyPrgm), labels |-> Rebuilt(Append(kept, EmptyPrgm))]
          ELSE [prgms  |-> kept,
                labels |-> [m \in DOMAIN left |->
                             IF left[m].prgm > p THEN [left[m] EXCEPT !.prgm = @ - 1]
                                                 ELSE left[m]]]

LeavesEmptyLast(p) ==
    /\ p = Len(prgms)
    /\ p > 1
    /\ IsEmptyPrgm(p - 1)

(* fault: what was before release 1.1.4 *)
IndexKept(p) == currentPrgm

(* The current program keeps being the current one, and the one after it   *)
(* takes its place when it is the one that is deleted.                      *)
IndexAfterClp(p) == IF currentPrgm > p THEN currentPrgm - 1 ELSE currentPrgm

(* CLP, from the keyboard or in a program. Afterwards current_prgm and pc  *)
(* are what they were before goto_dot_dot() moved them.                    *)
Clp(p) ==
    /\ CutsPastEmpty \/ ~(p = currentPrgm /\ LeavesEmptyLast(p))
    /\ prgms' = Cleared(p).prgms
    /\ labels' = Cleared(p).labels
    /\ pc' = IF p = currentPrgm THEN 0 ELSE pc
    /\ currentPrgm' = IndexAfterClp(p)
    /\ rtns' = <<>>

(* CLALL *)
ClearAll ==
    /\ prgms' = <<EmptyPrgm>>
    /\ labels' = Rebuilt(<<EmptyPrgm>>)
    /\ currentPrgm' = 1
    /\ pc' = 0
    /\ rtns' = <<>>

(* GTO ..: the return addresses survive when the last program is empty *)
GtoDotDot ==
    /\ pc' = 0
    /\ IF IsEmptyPrgm(Len(prgms))
         THEN currentPrgm' = Len(prgms) /\ UNCHANGED <<prgms, labels, rtns>>
         ELSE /\ Room
              /\ prgms' = WithNewPrgm
              /\ labels' = Rebuilt(WithNewPrgm)
              /\ currentPrgm' = Len(prgms) + 1
              /\ rtns' = <<>>

(* LOCK and UNLOCK *)
Lock(b) ==
    /\ prgms' = [prgms EXCEPT ![currentPrgm].locked = b]
    /\ UNCHANGED <<labels, currentPrgm, pc, rtns>>

(* core_import_programs() of a file with one program of one line. An empty *)
(* last program is used for it, even a locked one unless the calculator is *)
(* in program mode, which makes store_command() refuse.                    *)
Import(c, prgmMode) ==
    LET reuse == IsEmptyPrgm(Len(prgms))
        base == IF reuse THEN prgms ELSE WithNewPrgm
        p == Len(base)
        s == Stored(base, labels, p, 1, Line(c))
    IN  /\ Cardinality(Positions(base)) < MaxLines
        /\ currentPrgm' = p
        /\ pc' = 1
        /\ IF base[p].locked /\ prgmMode
             THEN UNCHANGED <<prgms, labels, rtns>>
             ELSE prgms' = s.prgms /\ labels' = Rebuilt(s.prgms) /\ rtns' = <<>>

-----------------------------------------------------------------------------
(* Moving about *)

(* GTO . nnn *)
GtoLine(n) ==
    /\ pc' = IF n <= LastLine(currentPrgm) THEN n ELSE LastLine(currentPrgm)
    /\ rtns' = <<>>
    /\ UNCHANGED <<prgms, labels, currentPrgm>>

(* GTO and XEQ from the keyboard, which look for local labels afresh *)
GtoKey(a) ==
    LET i == FindLocal(prgms[currentPrgm].lines, pc, a)
    IN  /\ rtns' = <<>>
        /\ UNCHANGED <<prgms, labels>>
        /\ IF a \in LocalLabels
             THEN pc' = (IF i = NotFound THEN pc ELSE i) /\ UNCHANGED currentPrgm
             ELSE IF FindGlobal(a) = {}
               THEN UNCHANGED <<currentPrgm, pc>>
               ELSE \E n \in FindGlobal(a) :
                        currentPrgm' = labels[n].prgm /\ pc' = labels[n].pc

(* sst() and bst() in program mode *)
SstKey ==
    /\ pc' = IF pc >= LastLine(currentPrgm) THEN 0 ELSE pc + 1
    /\ UNCHANGED <<prgms, labels, currentPrgm, rtns>>

BstKey ==
    /\ pc' = IF pc = 0 THEN LastLine(currentPrgm) ELSE pc - 1
    /\ UNCHANGED <<prgms, labels, currentPrgm, rtns>>

-----------------------------------------------------------------------------
(* One instruction of a running or single-stepped program *)

At == IF pc = 0 THEN 1 ELSE pc
Current == prgms[currentPrgm].lines[At]

(* get_next_command() with find_target: the search starts below the line *)
Target ==
    IF Current.target # Unknown
      THEN Current.target
      ELSE FindLocal(prgms[currentPrgm].lines, At + 1, Current.arg)

Aimed(prgm, i, target) ==
    [prgm EXCEPT !.lines[i].target = target, !.invalid = FALSE]

Cached ==
    IF Caches(Current) /\ Current.target = Unknown
      THEN [prgms EXCEPT ![currentPrgm] = Aimed(@, At, Target)]
      ELSE prgms

ReturnHere == Append(rtns, [prgm |-> currentPrgm, pc |-> At + 1])

(* push_rtn_addr() of an XEQ must succeed; a failing instruction is undone *)
Callable == Current.op = "xeq" => Len(rtns) < MaxReturns

ExecLbl ==
    /\ Current.op = "lbl"
    /\ pc' = At + 1
    /\ UNCHANGED <<prgms, labels, currentPrgm, rtns>>

ExecLocal ==
    /\ Caches(Current)
    /\ prgms' = Cached
    /\ UNCHANGED <<labels, currentPrgm>>
    /\ IF Target # NotFound /\ Callable
         THEN /\ pc' = Target
              /\ rtns' = IF Current.op = "xeq" THEN ReturnHere ELSE rtns
         ELSE UNCHANGED <<pc, rtns>>

ExecGlobal ==
    /\ Current.op \in {"gto", "xeq"}
    /\ Current.arg \in GlobalLabels
    /\ UNCHANGED <<prgms, labels>>
    /\ IF FindGlobal(Current.arg) # {} /\ Callable
         THEN /\ \E n \in FindGlobal(Current.arg) :
                     currentPrgm' = labels[n].prgm /\ pc' = labels[n].pc
              /\ rtns' = IF Current.op = "xeq" THEN ReturnHere ELSE rtns
         ELSE UNCHANGED <<currentPrgm, pc, rtns>>

(* rtn() of an END *)
ExecEnd ==
    /\ Current.op = "end"
    /\ UNCHANGED <<prgms, labels>>
    /\ IF rtns = <<>>
         THEN pc' = 0 /\ UNCHANGED <<currentPrgm, rtns>>
         ELSE LET top == rtns[Len(rtns)]
              IN  /\ currentPrgm' = top.prgm
                  /\ pc' = top.pc
                  /\ rtns' = SubSeq(rtns, 1, Len(rtns) - 1)

(* persist_globals() and unpersist_globals(): the programs are exported and *)
(* imported, which leaves no targets in them; pcs are saved as line numbers. *)
Restart ==
    /\ prgms' = [p \in DOMAIN prgms |-> Forgotten(prgms[p])]
    /\ labels' = Rebuilt(prgms)
    /\ UNCHANGED <<currentPrgm, pc, rtns>>

-----------------------------------------------------------------------------
Init ==
    /\ prgms = <<EmptyPrgm>>
    /\ labels = Rebuilt(prgms)
    /\ currentPrgm = 1
    /\ pc = 0
    /\ rtns = <<>>

Next ==
    \/ \E c \in Commands : Insert(c) \/ \E prgmMode \in BOOLEAN : Import(c, prgmMode)
    \/ InsertEnd \/ DeleteLine \/ ClearAll \/ GtoDotDot
    \/ \E n \in 0 .. MaxLines : Del(n) \/ GtoLine(n)
    \/ \E p \in DOMAIN prgms : Clp(p)
    \/ \E b \in BOOLEAN : Lock(b)
    \/ \E a \in GlobalLabels \cup LocalLabels : GtoKey(a)
    \/ SstKey \/ BstKey
    \/ ExecLbl \/ ExecLocal \/ ExecGlobal \/ ExecEnd
    \/ Restart

Spec == Init /\ [][Next]_vars

-----------------------------------------------------------------------------
(* Properties *)

(* There is a current program, and the pc is one of its lines.             *)
CurrentExists ==
    /\ currentPrgm \in DOMAIN prgms
    /\ pc \in 0 .. LastLine(currentPrgm)

(* Every program ends with its only END, and the counters stay in range.   *)
TypeOK ==
    /\ prgms \in Seq([lines : Seq(Lines), invalid : BOOLEAN, locked : BOOLEAN])
    /\ \A p \in DOMAIN prgms : \A i \in DOMAIN prgms[p].lines :
            prgms[p].lines[i].op = "end" <=> i = LastLine(p)
    /\ \A n \in DOMAIN labels : labels[n].name \in GlobalLabels \cup {NoName}
    /\ Len(rtns) <= MaxReturns
    /\ CurrentExists

(* The table of labels that every edit updates in its own way is the one a *)
(* scan of all programs would build, in the same order.                    *)
LabelsExact == labels = Rebuilt(prgms)

(* A target in the code is the line that a search would find now, and the  *)
(* flag that saves invalidate_lclbls() a scan does not hide one.           *)
TargetsExact ==
    \A p \in DOMAIN prgms : \A i \in DOMAIN prgms[p].lines :
        LET ln == prgms[p].lines[i]
        IN  ln.target # Unknown =>
                /\ Caches(ln)
                /\ ln.target = FindLocal(prgms[p].lines, i + 1, ln.arg)
                /\ ~prgms[p].invalid

(* Every return address is the line below an XEQ: no edit leaves one that  *)
(* points to a line that has moved or to a program that is gone.           *)
ReturnsAfterXeq ==
    \A k \in DOMAIN rtns :
        /\ rtns[k].prgm \in DOMAIN prgms
        /\ rtns[k].pc \in 2 .. LastLine(rtns[k].prgm)
        /\ prgms[rtns[k].prgm].lines[rtns[k].pc - 1].op = "xeq"

(* The keys that edit lines leave a locked program as it is, wherever it   *)
(* moves to, and locked.                                                   *)
LockedKept ==
    [][(\E c \in Commands : Insert(c)) \/ InsertEnd \/ DeleteLine \/ (\E n \in 0 .. MaxLines : Del(n))
       => \A p \in DOMAIN prgms : prgms[p].locked =>
            \E q \in DOMAIN prgms' :
                prgms'[q].locked /\ Forget(prgms'[q].lines) = Forget(prgms[p].lines)]_vars

(* A GTO that finds its label goes to a LBL of that name.                  *)
TargetNamed ==
    \A p \in DOMAIN prgms : \A i \in DOMAIN prgms[p].lines :
        LET ln == prgms[p].lines[i]
        IN  ln.target > 0 =>
                \/ prgms[p].lines[ln.target].arg = ln.arg
                \/ <<prgms[p].lines[ln.target].arg, ln.arg>> \in StackNumbers

(* Only LOCK locks a program.                                              *)
LockedByLock ==
    [][(\E p \in DOMAIN prgms' : prgms'[p].locked) =>
            (\E p \in DOMAIN prgms : prgms[p].locked) \/ (\E b \in BOOLEAN : Lock(b))]_vars

=============================================================================

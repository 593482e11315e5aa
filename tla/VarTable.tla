----------------------------- MODULE VarTable ------------------------------
(***************************************************************************)
(* The table of variables, vars[0 .. vars_count-1] (core_variables.cc), as *)
(* a value: what each function of that file returns for a table. An entry  *)
(* is                                                                      *)
(*                                                                         *)
(*    name, level   the variable's name, and the level of the return stack *)
(*                  it is local to, -1 for a global one                    *)
(*    hidden        VAR_HIDDEN: a newer local of the same name hides it    *)
(*    hiding        VAR_HIDING: it hides an older one                      *)
(*    private       VAR_PRIVATE: "STK" or "MAT", where a subroutine keeps  *)
(*                  the state of its caller                                *)
(*    val           its value                                              *)
(*                                                                         *)
(* Entries are in order of creation; indices start at 1, and 0 is the      *)
(* "not found" that the code writes -1.                                    *)
(***************************************************************************)
EXTENDS Selection

GlobalLevel == -1

Variable(n, level, hiding, val) ==
    [name |-> n, level |-> level, hidden |-> FALSE, hiding |-> hiding,
     private |-> FALSE, val |-> val]

PrivateVariable(n, level, val) ==
    [name |-> n, level |-> level, hidden |-> FALSE, hiding |-> FALSE,
     private |-> TRUE, val |-> val]

(* The last of a set of indices, 0 if there is none *)
LastOf(I) == IF I = {} THEN 0 ELSE CHOOSE i \in I : \A j \in I : j <= i

(* lookup_var(): the newest entry that is neither hidden nor private *)
LookupVar(t, n) ==
    LastOf({i \in DOMAIN t : t[i].name = n /\ ~t[i].hidden /\ ~t[i].private})

(* The entries of level L or more that a scan from the end meets before    *)
(* the first local of a lower level                                        *)
FromLevel(t, L) ==
    {i \in DOMAIN t : /\ t[i].level # GlobalLevel
                      /\ \A j \in i .. Len(t) : t[j].level = GlobalLevel \/ t[j].level >= L}

(* lookup_private_var() at level L *)
LookupPrivate(t, n, L) ==
    LastOf({i \in FromLevel(t, L) : t[i].private /\ t[i].name = n})

(* The entry that entry i hides: the newest hidden one of its name *)
HiddenBy(t, i) ==
    LastOf({j \in 1 .. (i - 1) : t[j].hidden /\ t[j].name = t[i].name})

(* fault: the variable that a new local hides is not marked *)
StoreVarUnmarked(t, n, val, local, L) ==
    LET i == LookupVar(t, n)
    IN  IF i = 0
          THEN Append(t, Variable(n, IF local THEN L ELSE GlobalLevel, FALSE, val))
        ELSE IF local /\ t[i].level < L
          THEN Append(t, Variable(n, L, TRUE, val))
        ELSE [t EXCEPT ![i].val = val]

(* store_var() at level L *)
StoreVar(t, n, val, local, L) ==
    LET i == LookupVar(t, n)
    IN  IF i = 0
          THEN Append(t, Variable(n, IF local THEN L ELSE GlobalLevel, FALSE, val))
        ELSE IF local /\ t[i].level < L
          THEN Append([t EXCEPT ![i].hidden = TRUE], Variable(n, L, TRUE, val))
        ELSE [t EXCEPT ![i].val = val]

(***************************************************************************)
(* purge_var() at level L: the entry it deletes (0 for none), whether it   *)
(* refuses to, and the table without entry i. CLV asks for globals         *)
(* (local = FALSE), LCLV for locals of this level.                         *)
(***************************************************************************)
PurgeRefused(t, n, local) ==
    LET i == LookupVar(t, n)
    IN  i # 0 /\ t[i].level # GlobalLevel /\ ~local

ToPurge(t, n, local, L) ==
    LET i == LookupVar(t, n)
    IN  IF i # 0 /\ t[i].level = (IF local THEN L ELSE GlobalLevel) THEN i ELSE 0

Uncover(t, I) ==
    [j \in DOMAIN t |->
        [t[j] EXCEPT !.hidden = @ /\ ~\E i \in I : t[i].hiding /\ j = HiddenBy(t, i)]]

(* The table without the entries I *)
Without(t, I) == Kept(t, DOMAIN t \ I)

PurgeVar(t, i) == Without(Uncover(t, {i}), {i})

(***************************************************************************)
(* The loop of remove_locals() at level L. The code uncovers one entry at  *)
(* a time, from the end, and marks those to remove by length = 100; two    *)
(* locals of one level never have the same name, so no entry is uncovered  *)
(* twice.                                                                  *)
(***************************************************************************)
RemoveLocals(t, L) ==
    LET gone == FromLevel(t, L) IN Without(Uncover(t, gone), gone)

(* store_private_var() at level L *)
StorePrivate(t, n, val, L) ==
    LET i == LookupPrivate(t, n, L)
    IN  IF i = 0 THEN Append(t, PrivateVariable(n, L, val)) ELSE [t EXCEPT ![i].val = val]
=============================================================================

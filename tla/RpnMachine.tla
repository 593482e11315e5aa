----------------------------- MODULE RpnMachine -----------------------------
(***************************************************************************)
(* The RPN machine: every command that works on the stack, LASTX and the   *)
(* variables, dispatched by handle() of core_tables.cc, with the long ones *)
(* run as interruptible jobs.                                              *)
(*                                                                         *)
(* The state m is a record:                                                *)
(*   stk, lastx, vars  the values, each a handle [t |-> type, a |-> array] *)
(*   arr      the arrays: reference count, strings or not, list elements   *)
(*   live     how many vartype objects there are                           *)
(*   big, sld the stack mode, and flags.f.stack_lift_disable               *)
(*   ed       the matrix that is indexed or edited (module Matedit)        *)
(*   job, later, sm  the job, its completion routine and the setting it    *)
(*            changes meanwhile (module Linalg)                            *)
(*   err      the outcome of the last command                              *)
(* and, within one command only: nomem and o, the memory and the numbers   *)
(* it meets; lift, mode_disable_stack_lift; pool, the values it has freed. *)
(* bad, flaw and cut are what the checks look at: an array misused, a      *)
(* known departure reached, the bounds of the model passed.                *)
(***************************************************************************)
EXTENDS Commands7

CONSTANTS KnownFlaws,   \* BOOLEAN: may commands take the departures listed in the README?
          MaxCommands,  \* commands of a behaviour
          MaxDepth,     \* levels of a stack that grows
          Situations,   \* the states it starts from
          Args          \* the arguments of commands that take one

ASSUME BoundsAssumption == KnownFlaws \in BOOLEAN /\ MaxCommands \in Nat /\ MaxDepth \in Nat /\ MaxDepth >= 4

VARIABLES m,   \* the machine
          n    \* commands left

vars == <<m, n>>

(***************************************************************************)
(* Arrays are numbered in the order in which the handles reach them, and   *)
(* forgotten when none does.                                               *)
(***************************************************************************)
Roots(s) == <<s.lastx, s.vars["REGS"], s.vars["A"], s.ed.x, s.job.a, s.job.b, s.later.v>> \o s.stk
IsArray(v) == v.t \in ArrayTypes

RECURSIVE Visit(_, _, _)
Visit(arr, seen, vs) ==
  IF vs = << >> THEN seen
  ELSE LET v == Head(vs)
           new == IsArray(v) /\ v.a \notin Range(seen)
       IN Visit(arr, IF new THEN Append(seen, v.a) ELSE seen, (IF new THEN arr[v.a].el ELSE << >>) \o Tail(vs))

Reached(s) == Visit(s.arr, << >>, Roots(s))

RECURSIVE Renamed(_, _)
Renamed(vs, seen) ==
  LET v == Head(vs)
      known == IsArray(v) /\ v.a \in Range(seen)
      new == IF known THEN [v EXCEPT !.a = CHOOSE k \in DOMAIN seen : seen[k] = v.a] ELSE v
  IN IF vs = << >> THEN << >> ELSE <<new>> \o Renamed(Tail(vs), seen)

RECURSIVE Kept(_, _, _)
Kept(arr, seen, k) ==
  IF k > Len(seen) THEN << >>
  ELSE <<[arr[seen[k]] EXCEPT !.el = Renamed(@, seen)]>> \o Kept(arr, seen, k + 1)

(* The handles, under their new names, go back to their places.            *)
PutBack(s, arr, lent, vs) ==
  [s EXCEPT !.arr = arr, !.job.l = lent[1], !.job.r = lent[2], !.lastx = vs[1], !.vars = [x \in DOMAIN @ |-> IF x = "REGS" THEN vs[2] ELSE vs[3]],
            !.ed.x = vs[4], !.job.a = vs[5], !.job.b = vs[6], !.later.v = vs[7], !.stk = SubSeq(vs, 8, Len(vs))]

RenumberedBy(s, seen) ==
  PutBack(s, Kept(s.arr, seen, 1), Renamed(<<s.job.l, s.job.r>>, seen), Renamed(Roots(s), seen))
Renumbered(s) == RenumberedBy(s, Reached(s))

RealErrors(e) == e \notin {"none", "stop", "yes", "no"}

(* The end of a command, or of a call of a worker.                         *)
Finish(s) ==
  Renumbered([s EXCEPT !.lift = FALSE, !.nomem = 0, !.pool = {}, !.o = "fine",
                       !.sld = IF s.job # NoJob \/ RealErrors(s.err) THEN @ ELSE s.lift,
                       !.later = IF s.job # NoJob THEN @ ELSE NoCompletion,
                       !.err = IF RealErrors(@) THEN "error" ELSE "none"])

(***************************************************************************)
(* handle(): a command of cmd_array with argcount arguments of types, 0xff *)
(* being all of them, or -1 when the function looks itself.                *)
(***************************************************************************)
AllT == Types
Number == {"real", "cpx", "rmat", "cmat"}

TooFew(s, argcount) ==
  s.big /\ IF argcount = -1
           THEN Sp(s) = 0 \/ (Sp(s) = 1 /\ X(s).t \notin {"cpx", "cmat"})
           ELSE Sp(s) < argcount

ArgError(s, argcount, types) ==
  LET wrong == {k \in 0 .. argcount - 1 : Level(s, k).t \notin types}
  IN IF TooFew(s, argcount) THEN "few"
     ELSE IF wrong = {} THEN "none" ELSE WrongType(Level(s, Min(wrong)))

Idle(s) == s.job = NoJob

(* What a command may meet: its numbers, or that its k-th allocation fails.*)
Meets(os, k) == (os \X {0}) \cup ({"fine"} \X (1 .. k))
Levels == 0 .. 4
Operations == {"/", "*", "-", "+"}
Met(c) == [m EXCEPT !.o = c[1], !.nomem = c[2], !.err = "none"]
Now == Met(<<"fine", 0>>)
Memory(k) == Meets({"fine"}, k)
Domain(k) == Meets({"fine", "math"}, k)
SizeOr(k) == Meets({"fine", "size"}, k)
Maths(k) == Meets({"fine", "size", "math"}, k)
Jobs(k) == {"fine", "size", "small", "smallmath", "tiny"} \X (0 .. k)

(* e is what keeps it from running, r what the command makes of the state. *)
Ran(e, r) ==
  /\ e = "none" => /\ ~r.cut /\ (r.flaw => KnownFlaws)
                   /\ Len(r.stk) <= IF m.big THEN MaxDepth ELSE 4
  /\ m' = Finish(IF e = "none" THEN r ELSE Fail(m, e))
  /\ n' = n - 1

handle(argcount, types, r) == Idle(m) /\ n > 0 /\ Ran(ArgError(m, argcount, types), r)

(* core_main calls the worker of the job again, until it is done or the    *)
(* user interrupts it.                                                     *)
Outcomes == {"done", "singular", "overflow", "interrupted"}
worker ==
  /\ ~Idle(m)
  /\ \E outcome \in Outcomes, nomem \in 0 .. 2 :
       LET s == [m EXCEPT !.nomem = nomem]
           r == IF m.job.at = "print" THEN prv_worker(s, outcome) ELSE Complete(Worker(s, outcome))
       IN (r.flaw => KnownFlaws) /\ m' = Finish(r)
  /\ UNCHANGED n

(***************************************************************************)
(* The table.                                                              *)
(***************************************************************************)
Variables == {a \in Args : a.k = "str"}
Named == {a \in Args : a.k \in {"str", "indstr", "indstk"}}

(* / and its like, STO/ with an argument, RCL/.                            *)
Operation(s, op, arg, recall) ==
  Arithmetic(CASE arg = NoArg -> docmd_arithmetic(s, op)
               [] arg # NoArg /\ recall -> docmd_rcl_with(s, arg, op)
               [] OTHER -> docmd_sto_with(s, arg, op), op)

arithmetic ==
  \/ handle(1, AllT, docmd_clx(Now))
  \/ \E c \in Memory(2) : handle(1, AllT, docmd_enter(Met(c)))
  \/ handle(2, AllT, docmd_swap(Now))
  \/ handle(0, AllT, docmd_rdn(Now))
  \/ \E c \in Memory(1) : handle(1, Number, docmd_chs(Met(c)))
  \/ \E c \in Jobs(3), op \in Operations, arg \in Args \cup {NoArg}, recall \in BOOLEAN :
       handle(IF arg = NoArg THEN 2 ELSE 1, Number, Operation(Met(c), op, arg, recall))
  \/ \E c \in Memory(2) : handle(0, AllT, docmd_lastx(Met(c)))
  \/ \E c \in Domain(2) : handle(2, {"real"}, docmd_percent(Met(c)))
  \/ \E c \in Memory(2) : handle(0, AllT, docmd_pi(Met(c)))
  \/ \E c \in Maths(2) : handle(-1, AllT, docmd_complex(Met(c)))
  \/ \E c \in Domain(2) : handle(-1, AllT, docmd_to_rec(Met(c)))
  \/ \E c \in Domain(2) : handle(-1, AllT, docmd_to_pol(Met(c)))
  \/ \E c \in Domain(1) : handle(1, {"real", "rmat"}, docmd_to_deg(Met(c)))
  \/ \E c \in Domain(1) : handle(1, {"real", "rmat"}, docmd_to_rad(Met(c)))
  \/ \E c \in Domain(1) : handle(1, {"real", "rmat"}, docmd_to_hr(Met(c)))
  \/ \E c \in Domain(1) : handle(1, {"real", "rmat"}, docmd_to_hms(Met(c)))
  \/ \E c \in Domain(1) : handle(1, {"real", "rmat"}, docmd_ip(Met(c)))
  \/ \E c \in Domain(1) : handle(1, {"real", "rmat"}, docmd_fp(Met(c)))
  \/ \E c \in Domain(1) : handle(1, Number, docmd_rnd(Met(c)))
  \/ \E c \in Domain(1) : handle(1, {"real", "cpx", "rmat"}, docmd_abs(Met(c)))
  \/ \E c \in Memory(1) : handle(1, Number \cup {"str"}, docmd_sign(Met(c)))
  \/ \E c \in Domain(2) : handle(2, {"real"}, docmd_mod(Met(c)))

storage ==
  \/ \E c \in SizeOr(3), arg \in Args : handle(1, AllT, docmd_sto(Met(c), arg))
  \/ \E c \in SizeOr(2), arg \in Args : handle(0, AllT, docmd_rcl(Met(c), arg))
  \/ \E c \in SizeOr(3), arg \in Args : handle(0, AllT, docmd_asto(Met(c), arg))
  \/ \E c \in SizeOr(3), arg \in Args : handle(0, AllT, docmd_arcl(Met(c), arg))
  \/ \E c \in SizeOr(3), arg \in Args : handle(1, AllT, docmd_x_swap(Met(c), arg))
  \/ \E c \in SizeOr(2), arg \in Args : handle(0, AllT, docmd_isg(Met(c), arg))
  \/ \E c \in SizeOr(2), arg \in Args : handle(0, AllT, docmd_dse(Met(c), arg))
  \/ \E c \in SizeOr(2), arg \in Args : handle(0, AllT, docmd_input(Met(c), arg))
  \/ \E c \in SizeOr(2), arg \in Args : handle(0, AllT, docmd_view(Met(c), arg))
  \/ \E c \in SizeOr(3), arg \in Variables : handle(1, AllT, docmd_vmsto(Met(c), arg))
  \/ \E arg \in Named : handle(0, AllT, docmd_clv(Now, arg))
  \/ \E c \in SizeOr(0), arg \in Args : handle(0, AllT, docmd_tone(Met(c), arg))
  \/ \E c \in SizeOr(0), arg \in Args : handle(0, AllT, docmd_sigma_reg(Met(c), arg))
  \/ \E c \in Memory(2) : handle(0, AllT, docmd_sigma_reg_t(Met(c)))
  \/ \E c \in Meets({"less", "more", "zero"}, 3) : handle(0, AllT, docmd_size(Met(c)))
  \/ \E c \in SizeOr(0) : handle(0, AllT, docmd_clsigma(Met(c)))
  \/ \E c \in Memory(1) : handle(0, AllT, docmd_clrg(Met(c)))
  \/ \E c \in Memory(1) : handle(0, AllT, docmd_clst(Met(c)))
  \/ \E c \in Memory(3) : handle(0, AllT, docmd_clall(Met(c)))

functions ==
  \/ \E c \in Domain(1) : handle(2, {"real"}, docmd_comb(Met(c)))
  \/ \E c \in Domain(1) : handle(2, {"real"}, docmd_perm(Met(c)))
  \/ \E c \in Domain(1) : handle(1, {"real", "rmat"}, docmd_fact(Met(c)))
  \/ \E c \in Domain(1) : handle(1, {"real", "rmat"}, docmd_gamma(Met(c)))
  \/ \E c \in Memory(2) : handle(0, AllT, docmd_ran(Met(c)))
  \/ handle(1, {"real"}, docmd_seed(Now))
  \/ \E c \in Domain(2) : handle(0, AllT, docmd_number(Met(c)))
  \/ handle(1, {"real"}, docmd_aip(Now))
  \/ \E c \in Domain(0) : handle(1, {"real", "rmat", "str"}, docmd_xtoa(Met(c)))
  \/ handle(-1, AllT, docmd_agraph(Now))
  \/ handle(-1, AllT, docmd_pixel(Now))
  \/ handle(1, {"real"}, docmd_x_eq_0(Now))
  \/ handle(2, AllT, docmd_x_eq_y(Now))
  \/ handle(1, AllT, docmd_real_t(Now))
  \/ \E c \in Domain(0) : handle(1, {"real"}, docmd_delay(Met(c)))
  \/ \E c \in SizeOr(2) : handle(2, {"real"}, docmd_newmat(Met(c)))
  \/ handle(0, AllT, docmd_rup(Now))
  \/ \E c \in Memory(2) : handle(1, Matrices, docmd_dim_t(Met(c)))
  \/ \E c \in Meets({"small", "math"}, 1) : handle(1, Number, docmd_acosh(Met(c)))
  \/ \E c \in Memory(2) : handle(0, AllT, docmd_aleng(Met(c)))
  \/ handle(1, {"real"}, docmd_arot(Now))
  \/ \E c \in Domain(1) : handle(1, Number, docmd_asinh(Met(c)))
  \/ \E c \in Meets({"small", "math"}, 1) : handle(1, Number, docmd_atanh(Met(c)))
  \/ \E c \in Memory(2) : handle(0, AllT, docmd_atox(Met(c)))
  \/ \E c \in Domain(1) : handle(1, Number, docmd_cosh(Met(c)))
  \/ \E c \in Domain(1) : handle(1, {"real", "rmat"}, docmd_e_pow_x_1(Met(c)))
  \/ \E c \in Domain(1) : handle(1, {"real", "rmat"}, docmd_ln_1_x(Met(c)))
  \/ \E c \in Domain(1) : handle(1, Number, docmd_sinh(Met(c)))
  \/ \E c \in Domain(1) : handle(1, Number, docmd_tanh(Met(c)))
  \/ \E c \in Domain(1) : handle(2, {"real"}, docmd_hmsadd(Met(c)))
  \/ \E c \in Domain(1) : handle(2, {"real"}, docmd_hmssub(Met(c)))
  \/ \E c \in Domain(1) : handle(2, {"real"}, docmd_percent_ch(Met(c)))
  \/ \E c \in Memory(1) : handle(1, {"real", "str"}, docmd_posa(Met(c)))

printing ==
  \/ \E c \in SizeOr(0) : handle(0, AllT, docmd_prsigma(Met(c)))
  \/ \E c \in Meets({"same", "size"}, 1), arg \in Named : handle(0, AllT, docmd_prv(Met(c), arg))
  \/ \E c \in Meets({"same", "size"}, 0) : handle(0, AllT, docmd_prstk(Met(c)))
  \/ \E c \in Meets({"same", "size"}, 1) : handle(1, AllT, docmd_prx(Met(c)))
  \/ \E c \in Meets({"same", "size"}, 0) : handle(0, AllT, docmd_prusr(Met(c)))
  \/ \E c \in Meets({"same", "size"}, 0) : handle(0, AllT, docmd_prreg(Met(c)))
  \/ \E c \in SizeOr(0) : handle(1, {"str"}, docmd_xview(Met(c)))

matrices ==
  \/ \E c \in Maths(2) : handle(2, AllT, docmd_cross(Met(c)))
  \/ \E c \in Maths(2) : handle(2, AllT, docmd_dot(Met(c)))
  \/ \E c \in Jobs(4) : handle(1, Matrices, docmd_det(Met(c)))
  \/ \E c \in Jobs(4) : handle(1, Matrices, docmd_invrt(Met(c)))
  \/ \E c \in Domain(1) : handle(1, Matrices, docmd_fnrm(Met(c)))
  \/ \E c \in Domain(1) : handle(1, Matrices, docmd_rnrm(Met(c)))
  \/ \E c \in Domain(1) : handle(1, Matrices, docmd_rsum(Met(c)))
  \/ \E c \in Memory(2) : handle(1, Matrices, docmd_trans(Met(c)))
  \/ \E c \in Domain(1) : handle(1, {"cpx", "rmat"}, docmd_uvec(Met(c)))

editing ==
  \/ \E c \in Memory(2) : handle(1, AllT, docmd_edit(Met(c)))
  \/ \E c \in Memory(2), arg \in Named : handle(0, AllT, docmd_editn(Met(c), arg))
  \/ \E arg \in Named : handle(0, AllT, docmd_index(Now, arg))
  \/ \E c \in Meets({"size", "less", "more"}, 3), arg \in Named : handle(2, {"real"}, docmd_dim(Met(c), arg))
  \/ \E c \in Memory(5) : handle(0, AllT, docmd_insr(Met(c)))
  \/ \E c \in SizeOr(4) : handle(0, AllT, docmd_delr(Met(c)))
  \/ \E c \in Meets({"grow"}, 4) : handle(0, AllT, docmd_j_add(Met(c)))
  \/ handle(0, AllT, docmd_j_sub(Now))
  \/ handle(0, AllT, docmd_i_add(Now))
  \/ handle(0, AllT, docmd_i_sub(Now))
  \/ \E c \in Memory(3) : handle(1, AllT, docmd_stoel(Met(c)))
  \/ \E c \in Memory(2) : handle(0, AllT, docmd_rclel(Met(c)))
  \/ \E c \in Meets({"size", "last"}, 0) : handle(2, AllT, docmd_stoij(Met(c)))
  \/ \E c \in Memory(3) : handle(0, AllT, docmd_rclij(Met(c)))
  \/ \E c \in Meets({"same", "grow", "one"}, 4), dir \in {"left", "up", "down", "right"} : handle(0, AllT, docmd_arrow(Met(c), dir))
  \/ \E c \in SizeOr(2) : handle(2, AllT, docmd_getm(Met(c)))
  \/ \E c \in SizeOr(3) : handle(1, AllT, docmd_putm(Met(c)))
  \/ \E c \in Meets({"same", "size"}, 1) : handle(2, AllT, docmd_swap_r(Met(c)))
  \/ \E c \in Memory(3) : handle(0, AllT, docmd_max(Met(c)))
  \/ \E c \in Memory(3) : handle(0, AllT, docmd_min(Met(c)))
  \/ handle(1, AllT, docmd_find(Now))

statistics ==
  \/ \E c \in SizeOr(0) : handle(0, AllT, docmd_best(Met(c)))
  \/ \E c \in Meets({"size", "small", "math"}, 2) : handle(0, AllT, docmd_corr(Met(c)))
  \/ \E c \in Meets({"size", "small", "math"}, 2) : handle(0, AllT, docmd_slope(Met(c)))
  \/ \E c \in Maths(2) : handle(0, AllT, docmd_wmean(Met(c)))
  \/ \E c \in Meets({"size", "small", "math"}, 2) : handle(0, AllT, docmd_yint(Met(c)))
  \/ \E c \in Meets({"size", "small", "math"}, 1) : handle(1, AllT, docmd_fcstx(Met(c)))
  \/ \E c \in Meets({"size", "small", "math"}, 1) : handle(1, AllT, docmd_fcsty(Met(c)))
  \/ \E c \in Maths(3) : handle(0, AllT, docmd_mean(Met(c)))
  \/ \E c \in Meets({"size", "math", "smallmath"}, 3) : handle(0, AllT, docmd_sdev(Met(c)))
  \/ \E c \in SizeOr(3) : handle(0, AllT, docmd_sum(Met(c)))
  \/ \E c \in SizeOr(0), arg \in Named : handle(0, AllT, docmd_integ(Met(c), arg))
  \/ \E c \in SizeOr(0), arg \in Named : handle(1, AllT, docmd_solve(Met(c), arg))
  \/ \E c \in Maths(1) : handle(1, {"real", "rmat"}, docmd_sigmaadd(Met(c)))
  \/ \E c \in Maths(1) : handle(1, {"real", "rmat"}, docmd_sigmasub(Met(c)))

integers ==
  \/ \E c \in Domain(1) : handle(2, {"real"}, docmd_and(Met(c)))
  \/ \E c \in Domain(1) : handle(2, {"real"}, docmd_or(Met(c)))
  \/ \E c \in Domain(1) : handle(2, {"real"}, docmd_xor(Met(c)))
  \/ \E c \in Domain(1) : handle(1, {"real"}, docmd_not(Met(c)))
  \/ \E c \in Domain(0) : handle(2, {"real"}, docmd_bit_t(Met(c)))
  \/ \E c \in Domain(1) : handle(2, {"real"}, docmd_rotxy(Met(c)))
  \/ \E c \in Domain(1) : handle(2, {"real"}, docmd_baseadd(Met(c)))
  \/ \E c \in Domain(1) : handle(2, {"real"}, docmd_basesub(Met(c)))
  \/ \E c \in Domain(1) : handle(2, {"real"}, docmd_basemul(Met(c)))
  \/ \E c \in Domain(1) : handle(2, {"real"}, docmd_basediv(Met(c)))
  \/ \E c \in Domain(0) : handle(1, {"real"}, docmd_basechs(Met(c)))
  \/ \E c \in Domain(1) : handle(1, {"real"}, sl(Met(c)))
  \/ \E c \in Domain(1) : handle(1, {"real"}, sr(Met(c)))
  \/ \E c \in Domain(1) : handle(2, {"real"}, sln(Met(c)))
  \/ \E c \in Domain(1) : handle(2, {"real"}, srn(Met(c)))
  \/ \E c \in Domain(2) : handle(1, {"real"}, docmd_lj(Met(c)))
  \/ \E c \in Domain(2) : handle(1, {"real"}, docmd_rj(Met(c)))
  \/ \E c \in Domain(1) : handle(1, {"real"}, rl(Met(c)))
  \/ \E c \in Domain(1) : handle(1, {"real"}, rr(Met(c)))
  \/ \E c \in Domain(1) : handle(2, {"real"}, rn(Met(c)))
  \/ \E c \in Domain(1), test \in BOOLEAN : handle(2, {"real"}, bit(Met(c), test))
  \/ \E c \in Domain(1) : handle(1, {"real"}, docmd_num_b(Met(c)))
  \/ \E c \in Domain(1) : handle(1, {"real"}, make_mask(Met(c)))
  \/ \E c \in Meets({"fine", "small"}, 1) : handle(1, {"real"}, docmd_n_to_bits(Met(c)))
  \/ \E c \in Domain(1) : handle(1, {"real", "str"}, docmd_bits_to_n(Met(c)))
  \/ \E c \in Domain(0) : handle(1, {"real"}, docmd_wsize(Met(c)))
  \/ \E c \in Memory(2) : handle(0, AllT, docmd_wsize_t(Met(c)))
  \/ \E c \in Domain(1) : handle(1, {"real"}, docmd_to_dec(Met(c)))
  \/ \E c \in Domain(1) : handle(1, {"real"}, docmd_to_oct(Met(c)))

transcendental ==
  \/ \E c \in Domain(1) : handle(1, Number, docmd_sin(Met(c)))
  \/ \E c \in Domain(1) : handle(1, Number, docmd_cos(Met(c)))
  \/ \E c \in Domain(1) : handle(1, Number, docmd_tan(Met(c)))
  \/ \E c \in Meets({"small", "math"}, 1) : handle(1, Number, docmd_asin(Met(c)))
  \/ \E c \in Meets({"small", "math"}, 1) : handle(1, Number, docmd_acos(Met(c)))
  \/ \E c \in Domain(1) : handle(1, Number, docmd_atan(Met(c)))
  \/ \E c \in Meets({"small", "math"}, 1) : handle(1, Number, docmd_log(Met(c)))
  \/ \E c \in Domain(1) : handle(1, Number, docmd_10_pow_x(Met(c)))
  \/ \E c \in Meets({"small", "math"}, 1) : handle(1, Number, docmd_ln(Met(c)))
  \/ \E c \in Domain(1) : handle(1, Number, docmd_e_pow_x(Met(c)))
  \/ \E c \in Meets({"small", "math"}, 1) : handle(1, Number, docmd_sqrt(Met(c)))
  \/ \E c \in Domain(1) : handle(1, Number, docmd_square(Met(c)))
  \/ \E c \in Domain(1) : handle(1, Number, docmd_inv(Met(c)))
  \/ \E c \in Domain(1) : handle(0, AllT, docmd_c_e_pow_x_1(Met(c)))
  \/ \E c \in Meets({"small", "math"}, 1) : handle(0, AllT, docmd_c_ln_1_x(Met(c)))
  \/ \E c \in Meets({"small", "math"}, 2) : handle(2, AllT, docmd_y_pow_x(Met(c)))
  \/ \E c \in Meets({"same"}, 2) : handle(0, AllT, docmd_anum(Met(c)))
  \/ \E c \in Domain(0) : handle(1, {"real"}, docmd_x_swap_f(Met(c)))
  \/ \E c \in Memory(2) : handle(0, AllT, docmd_rclflag(Met(c)))
  \/ \E c \in Meets({"one", "math"}, 0) : handle(-1, AllT, docmd_stoflag(Met(c)))

stacks ==
  \/ \E c \in Domain(0) : handle(1, {"real"}, docmd_adate(Met(c)))
  \/ \E c \in Domain(0) : handle(1, {"real"}, docmd_atime(Met(c)))
  \/ \E c \in Memory(2) : handle(0, AllT, docmd_date(Met(c)))
  \/ \E c \in Domain(1) : handle(2, {"real"}, docmd_date_plus(Met(c)))
  \/ \E c \in Domain(1) : handle(2, {"real"}, docmd_ddays(Met(c)))
  \/ \E c \in Domain(1) : handle(1, {"real"}, docmd_dow(Met(c)))
  \/ \E c \in Memory(2) : handle(0, AllT, docmd_time(Met(c)))
  \/ \E c \in Domain(3) : handle(3, {"real"}, docmd_fma(Met(c)))
  \/ \E c \in Memory(2) : handle(0, AllT, docmd_errmsg(Met(c)))
  \/ \E c \in Meets({"fine", "small"}, 2) : handle(0, AllT, docmd_errno(Met(c)))
  \/ \E c \in Memory(2) : handle(0, AllT, docmd_ident(Met(c)))
  \/ \E c \in Maths(2) : handle(-1, AllT, docmd_rcomplx(Met(c)))
  \/ \E c \in Maths(2) : handle(-1, AllT, docmd_pcomplx(Met(c)))
  \/ \E c \in Memory(1) : handle(1, AllT, docmd_type_t(Met(c)))
  \/ \E c \in Memory(4) : handle(0, AllT, docmd_4stk(Met(c)))
  \/ \E c \in SizeOr(0) : handle(0, AllT, docmd_nstk(Met(c)))
  \/ \E c \in Memory(2) : handle(0, AllT, docmd_depth(Met(c)))
  \/ \E c \in Memory(1) : handle(1, AllT, docmd_drop(Met(c)))
  \/ \E c \in Memory(2), arg \in Levels : handle(0, AllT, docmd_dropn(Met(c), arg))
  \/ \E c \in Memory(2) : handle(1, AllT, docmd_dup(Met(c)))
  \/ \E c \in Memory(3), arg \in Levels : handle(0, AllT, docmd_dupn(Met(c), arg))
  \/ \E c \in Memory(2), arg \in Levels : handle(0, AllT, docmd_pick(Met(c), arg))
  \/ \E c \in Memory(1), arg \in Levels : handle(0, AllT, docmd_unpick(Met(c), arg))
  \/ \E arg \in Levels : handle(0, AllT, docmd_rdnn(Now, arg))
  \/ \E arg \in Levels : handle(0, AllT, docmd_rupn(Now, arg))
  \/ \E c \in SizeOr(1), arg \in Args : handle(1, AllT, docmd_x_eq_nn(Met(c), arg))
  \/ \E c \in SizeOr(1), arg \in Args : handle(1, {"real"}, docmd_x_lt_nn(Met(c), arg))
  \/ \E c \in SizeOr(1), arg \in Args : handle(0, AllT, docmd_0_eq_nn(Met(c), arg))
  \/ \E c \in SizeOr(1), arg \in Args : handle(0, AllT, docmd_0_lt_nn(Met(c), arg))

lists ==
  \/ \E c \in SizeOr(2), arg \in Args : handle(2, {"real"}, docmd_getmi(Met(c), arg))
  \/ \E c \in SizeOr(2), arg \in Args : handle(3, {"real", "cpx", "str"}, docmd_putmi(Met(c), arg))
  \/ \E c \in SizeOr(2), arg \in Args : handle(1, {"real"}, docmd_getli(Met(c), arg))
  \/ \E c \in Meets({"fine", "size", "last", "grow"}, 4), arg \in Args : handle(2, AllT, docmd_putli(Met(c), arg))
  \/ \E c \in Memory(6), extend \in BOOLEAN : handle(2, AllT, docmd_concat(Met(c), extend))
  \/ \E c \in Meets({"same", "size"}, 4) : handle(2, AllT, docmd_substr(Met(c)))
  \/ \E c \in Memory(1) : handle(1, {"str", "list"}, docmd_length(Met(c)))
  \/ \E c \in Meets({"size", "zero"}, 5), arg \in Args : handle(0, AllT, docmd_head(Met(c), arg))
  \/ \E c \in Memory(3) : handle(1, {"str", "list"}, docmd_rev(Met(c)))
  \/ \E c \in Domain(3) : handle(2, AllT, docmd_pos(Met(c)))
  \/ \E c \in Domain(1) : handle(1, {"str"}, docmd_s_to_n(Met(c)))
  \/ \E c \in Memory(1) : handle(1, AllT, docmd_n_to_s(Met(c)))
  \/ \E c \in Memory(1) : handle(1, AllT, docmd_nn_to_s(Met(c)))
  \/ \E c \in Memory(1) : handle(1, {"str"}, docmd_c_to_n(Met(c)))
  \/ \E c \in Domain(1) : handle(1, {"real"}, docmd_n_to_c(Met(c)))
  \/ \E c \in Memory(2) : handle(0, AllT, docmd_newlist(Met(c)))
  \/ \E c \in Memory(4), k \in Levels : handle(1, {"real"}, docmd_to_list(Met(c), k))
  \/ \E c \in Memory(4) : handle(1, {"list"}, docmd_from_list(Met(c)))

Init == m \in Situations /\ n = MaxCommands

Next == arithmetic \/ storage \/ functions \/ printing \/ matrices \/ editing
        \/ statistics \/ integers \/ transcendental \/ stacks \/ lists \/ worker

Spec == Init /\ [][Next]_vars

(***************************************************************************)
(* Properties.                                                             *)
(***************************************************************************)
Handles(s) == FoldLeft(LAMBDA all, a : all \o a.el, Roots(s), s.arr)
Values(s) == SelectSeq(Handles(s), LAMBDA v : v # Null)
References(s, a) == Cardinality({i \in DOMAIN Handles(s) : IsArray(Handles(s)[i]) /\ Handles(s)[i].a = a})

IsValue(v) == v.t \in Types /\ (IsArray(v) <=> v.a \in DOMAIN m.arr)

TypeOK ==
  /\ n \in 0 .. MaxCommands
  /\ \A v \in Range(Values(m)) : IsValue(v)
  /\ m.lastx # Null /\ Null \notin Range(m.stk)
  /\ IF m.big THEN Len(m.stk) <= MaxDepth ELSE Len(m.stk) = 4
  /\ m.ed.mode \in 0 .. 3 /\ (m.ed.mode = 2 <=> m.ed.x # Null)
  /\ (m.job = NoJob <=> m.job.at = "none") /\ m.err \in {"none", "error"}

(* Every object is owned by exactly one place, every array's reference     *)
(* count is the number of its handles, and nobody writes to an array that  *)
(* another handle shares: core_variables.cc's contract with all commands,  *)
(* whether they succeed, fail or run out of memory.                        *)
Owned ==
  /\ m.live = Len(Values(m))
  /\ \A a \in DOMAIN m.arr : m.arr[a].rc = References(m, a)
  /\ ~m.bad

(* Where the operands of the job are that the command has started: its     *)
(* completion says which command that is.  docmd_mul() and docmd_div()     *)
(* take Y and X, RCLx and RCL/ X and their temp_v, STOx and STO/ what is   *)
(* stored into and X.                                                      *)
LeftOperand ==
  CASE m.later.k = "binary" -> Y(m)
    [] m.later.k = "rcl"    -> X(m)
    [] m.later.k = "sto"    -> IF m.later.dst.k = "stk" THEN Level(m, m.later.dst.l) ELSE m.vars[m.later.dst.n]
RightOperand == IF m.later.k = "rcl" THEN m.later.v ELSE X(m)

(* What a job only borrows stays where it was lent until the job is done:  *)
(* the operands a product reads in every slice (matrix_mul_rr_worker() and *)
(* its like), the first of which is the inverse when small_div() divides;  *)
(* the one linalg_div() still has to copy; the value prv_worker() prints.  *)
Borrowed ==
  /\ m.job.k = "mul" => IF m.job.a = Null THEN m.job.l = LeftOperand /\ m.job.r = RightOperand
                        ELSE m.job.l = m.job.a /\ m.job.r = LeftOperand
  /\ m.job.k = "div" => m.job.l = LeftOperand
  /\ m.job.k = "print" => m.job.l \in {Null, m.vars["REGS"], m.vars["A"]} \cup Range(m.stk)

(* MATRIX SINGULAR is the user's again when no determinant is computed.    *)
SettingRestored == m.job.k # "det" => m.sm = SingularMatrix

RECURSIVE Shape(_, _)
Shape(s, v) == IF IsArray(v) THEN <<v.t, s.arr[v.a].str, [i \in DOMAIN s.arr[v.a].el |-> Shape(s, s.arr[v.a].el[i])]>> ELSE <<v.t>>
StackShape(s) == [i \in DOMAIN s.stk |-> Shape(s, s.stk[i])] \o <<Shape(s, s.lastx)>>

(* A command that ends with an error leaves stack and LASTX as they were.  *)
ErrorKeepsStack == [][m'.err = "error" /\ m.ed.mode \in {0, 1} => StackShape(m') = StackShape(m)]_vars
=============================================================================

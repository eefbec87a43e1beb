-------------------------- MODULE FlangInterpreter --------------------------
(***************************************************************************)
(* The Flang interpreter (emulator/flang/ir.py, the INTERPRETER mode of    *)
(* main.py): it runs the parser's statements directly, over a dictionary   *)
(* of variables.  It knows no floats, no texts and no functions; the 0.0   *)
(* of a declaration without a value counts as 0.                           *)
(*                                                                         *)
(* An expression is worth <<"int", n>>, or Raised.  The interpreter is a   *)
(* record: its variables, what it has printed, and the exception that is   *)
(* going up: "", "stop", "continue" or "error".                            *)
(***************************************************************************)
EXTENDS Integers, Sequences, SequencesExt, TLC

Raised == <<"raised">>
Worth(n) == <<"int", n>>
Truth(b) == Worth(IF b THEN 1 ELSE 0)
Quotient(a, b) == IF b > 0 THEN a \div b ELSE (-a) \div (-b)

RECURSIVE eval_expr(_, _)
eval_expr(env, e) ==
  CASE e[1] \in {"num", "numf"} -> Worth(e[2])
    [] e[1] = "var" -> IF e[2] \in DOMAIN env THEN env[e[2]] ELSE Worth(0)
    [] e[1] = "binop" ->
         LET left == eval_expr(env, e[2])
             right == eval_expr(env, e[4])
             a == left[2]
             b == right[2]
         IN  CASE Raised \in {left, right} -> Raised
               [] e[3] = "+" -> Worth(a + b)
               [] e[3] = "-" -> Worth(a - b)
               [] e[3] = "*" -> Worth(a * b)
               [] e[3] \in {"/", "//", "%"} /\ b = 0 -> Raised
               [] e[3] \in {"/", "//"} -> Worth(Quotient(a, b))
               [] e[3] = "%"  -> Worth(a - b * Quotient(a, b))
               [] e[3] = "**" -> Worth(a ^ b)
               [] e[3] = "<"  -> Truth(a < b)
               [] e[3] = "<=" -> Truth(a <= b)
               [] e[3] = ">"  -> Truth(a > b)
               [] e[3] = ">=" -> Truth(a >= b)
               [] e[3] = "==" -> Truth(a = b)
               [] e[3] = "!=" -> Truth(a # b)
               [] OTHER -> Raised
    [] OTHER -> Raised

Raising(st, what) == [st EXCEPT !.signal = what]

\* The state after the first branch whose condition holds, or the last one.
RECURSIVE run(_, _), run_stmt(_, _), branches(_, _, _), repeat(_, _, _, _)
branches(st, conds, else_body) ==
  IF conds = <<>> THEN run(st, else_body)
  ELSE LET v == eval_expr(st.vars, conds[1][1])
       IN  CASE v = Raised -> Raising(st, "error")
             [] v[2] # 0   -> run(st, conds[1][2])
             [] OTHER      -> branches(st, Tail(conds), else_body)

repeat(st, cond, body, step) ==
  LET v == eval_expr(st.vars, cond)
      w == run(st, body)
      again == IF w.signal = "continue" THEN Raising(w, "") ELSE w
  IN  CASE st.signal # ""      -> st
        [] v = Raised          -> Raising(st, "error")
        [] v[2] = 0            -> st
        [] w.signal = "stop"   -> Raising(w, "")
        [] w.signal = "error"  -> w
        [] OTHER -> repeat(run(again, step), cond, body, step)

run_stmt(st, s) ==
  CASE s[1] = "assign" ->
         LET v == eval_expr(st.vars, s[3])
         IN  IF v = Raised THEN Raising(st, "error")
             ELSE [st EXCEPT !.vars = (s[2] :> v) @@ @]
    [] s[1] = "print_expr" ->
         LET v == eval_expr(st.vars, s[2])
         IN  IF v = Raised THEN Raising(st, "error") ELSE [st EXCEPT !.out = Append(@, v)]
    [] s[1] = "print_str" -> [st EXCEPT !.out = Append(@, <<"str", s[2]>>)]
    [] s[1] = "if"    -> branches(st, <<<<s[2], s[3]>>>> \o s[4], s[5])
    [] s[1] = "while" -> repeat(st, s[2], s[3], <<>>)
    [] s[1] = "for"   -> repeat(run_stmt(st, s[2]), s[3], s[5], <<s[4]>>)
    [] s[1] \in {"stop", "continue"} -> Raising(st, s[1])
    [] OTHER -> Raising(st, "error")

run(st, stmts) ==
  FoldLeft(LAMBDA t, s : IF t.signal = "" THEN run_stmt(t, s) ELSE t, st, stmts)

\* run_code(): what running a program prints, and whether an exception ends it.
run_code(stmts) ==
  LET st == run([vars |-> <<>>, out |-> <<>>, signal |-> ""], stmts)
  IN  [out |-> st.out, failed |-> st.signal # ""]
=============================================================================

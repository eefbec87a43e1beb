--------------------------- MODULE FlangCompiler ---------------------------
(***************************************************************************)
(* The Flang compiler (emulator/flang/compiler.py) and the assembler       *)
(* (emulator/assembler/assembler.py): from the parser's statements to the  *)
(* program of an OmniumCPU core.                                           *)
(*                                                                         *)
(* A statement or an expression is the tuple the parser makes.  An operand *)
(* is that of OmniumCore, a label <<"label", id>> or a text <<"str", s>>.  *)
(* A name is the sequence of its dotted parts; that of a function begins   *)
(* with the functions around it: <<"outer", "inner">>.  The name <<>> is   *)
(* the main program.                                                       *)
(*                                                                         *)
(* The compiler is the record u of its attributes.  Its field r is the     *)
(* register the last expr() returned, failed a CompileError: the rest of   *)
(* such a unit means nothing, as main.py drops it.                         *)
(***************************************************************************)
EXTENDS OmniumCore, SequencesExt, TLC

RETVAL == <<"mem", <<"RETVAL">>>>

FLOAT_TYPES == {"float", "ufloat", "big_float", "ubig_float", "light_float", "ulight_float"}
CMP_INVERSE == ("==" :> "JNE") @@ ("!=" :> "JE") @@ ("<" :> "JGE") @@ ("<=" :> "JG")
                 @@ (">" :> "JLE") @@ (">=" :> "JL")
INT_OPS == ("+" :> "SUM") @@ ("-" :> "SUB") @@ ("*" :> "MUL") @@ ("/" :> "FLOORDIV")
             @@ ("//" :> "FLOORDIV") @@ ("%" :> "MOD") @@ ("**" :> "POW")
             @@ ("&" :> "AND") @@ ("|" :> "OR") @@ ("^" :> "XOR")
FLOAT_OPS == ("+" :> "FSUM") @@ ("-" :> "FSUB") @@ ("*" :> "FMUL") @@ ("/" :> "FDIV")
               @@ ("**" :> "FPOW")

Registers(n, bank) == {<<bank, i>> : i \in 0 .. n - 1}
Reversed(n, bank) == [i \in 1 .. n |-> <<bank, n - i>>]

NewCompiler ==
  [asm |-> <<>>, free |-> [H |-> Reversed(H_REGS, "H"), F |-> Reversed(F_REGS, "F")],
   label_id |-> 0, loop_stack |-> <<>>, funcs |-> <<>>, cur |-> <<>>, types |-> <<>>,
   failed |-> FALSE, r |-> <<"H", 0>>]

----------------------------------------------------------------------------
(* Helpers of the compiler.                                                *)

Refuse(u) == [u EXCEPT !.failed = TRUE]
emit(u, op, args) == [u EXCEPT !.asm = Append(@, <<op, args>>)]
emit_all(u, op, regs) == FoldLeft(LAMBDA v, r : emit(v, op, <<r>>), u, regs)

Label(u, i) == <<"label", u.label_id + i>>
new_labels(u, n) == [u EXCEPT !.label_id = @ + n]

alloc(u, bank) ==
  IF u.free[bank] = <<>> THEN Refuse(u)
  ELSE [u EXCEPT !.r = Last(u.free[bank]), !.free[bank] = Front(@)]

free(u, r) ==
  IF r[1] \notin {"H", "F"} \/ r \in Range(u.free[r[1]]) THEN u
  ELSE [u EXCEPT !.free[r[1]] = Append(@, r)]

free_all(u, regs) == FoldLeft(free, u, regs)

Live(u, n, bank) ==
  SelectSeq(Reverse(Reversed(n, bank)), LAMBDA r : r \notin Range(u.free[bank]))
Mutant_live_regs(u) == Live(u, H_REGS, "H")
live_regs(u) == Live(u, H_REGS, "H") \o Live(u, F_REGS, "F")

addr(u, name) ==
  <<"mem", IF u.cur # <<>> /\ name \in Range(u.funcs[u.cur].locals)
           THEN u.cur \o name ELSE name>>

is_float_type(t) == t \in FLOAT_TYPES
FloatAt(u, a) == a \in DOMAIN u.types /\ is_float_type(u.types[a])

\* The scopes a call is looked up in, the innermost last.
Candidates(u, name) ==
  SelectSeq([i \in 1 .. Len(u.cur) + 1 |-> SubSeq(u.cur, 1, i - 1) \o name],
            LAMBDA f : f \in DOMAIN u.funcs)

----------------------------------------------------------------------------
(* First pass: the functions of the program and their local variables.     *)

RECURSIVE locals_of(_, _)
locals_of(names, stmts) ==
  LET walk(ns, s) ==
        CASE s[1] = "assign" -> IF s[2] \in Range(ns) THEN ns ELSE Append(ns, s[2])
          [] s[1] = "if"     -> locals_of(FoldLeft(LAMBDA m, b : locals_of(m, b[2]),
                                                   locals_of(ns, s[3]), s[4]), s[5])
          [] s[1] = "while"  -> locals_of(ns, s[3])
          [] s[1] = "for"    -> locals_of(locals_of(ns, <<s[2], s[4]>>), s[5])
          [] OTHER           -> ns
  IN  FoldLeft(walk, names, stmts)

collect_locals(args, body) == locals_of([i \in DOMAIN args |-> args[i][2]], body)

RECURSIVE register_funcs(_, _)
register_funcs(u, stmts) ==
  LET register(v, s) ==
        IF s[1] # "func" THEN v
        ELSE register_funcs(
               [new_labels(v, 1) EXCEPT !.funcs =
                  (s[2] :> [name |-> s[2], args |-> s[3], body |-> s[4],
                            label |-> Label(v, 1),
                            locals |-> collect_locals(s[3], s[4])]) @@ @], s[4])
  IN  FoldLeft(register, u, stmts)

----------------------------------------------------------------------------
(* Expressions: the code that leaves the value in register r.  A text is   *)
(* an operand itself, which the processor takes for a variable.            *)

Mutant_to_float(u, r) ==
  IF r[1] = "F" THEN [u EXCEPT !.r = r]
  ELSE LET f == alloc(u, "F") IN emit(f, "ITOF", <<r, f.r>>)
to_float(u, r) ==
  IF r[1] = "F" THEN [u EXCEPT !.r = r]
  ELSE LET f == alloc(u, "F") IN free(emit(f, "ITOF", <<r, f.r>>), r)

Typed(u, type) == IF is_float_type(type) THEN to_float(u, u.r) ELSE u

Load(u, x, bank) ==
  LET v == alloc(u, bank)
  IN  emit(v, IF bank = "F" THEN "LOADF" ELSE "LOAD", <<x, v.r>>)

Operation(u, op, l, rgt) ==
  IF "F" \in {l[1], rgt[1]}
  THEN LET lf == to_float(u, l)
           rf == to_float(lf, rgt)
           v  == alloc(rf, "F")
       IN  IF op \notin DOMAIN FLOAT_OPS THEN Refuse(u)
           ELSE free_all(emit(v, FLOAT_OPS[op], <<lf.r, rf.r, v.r>>), <<lf.r, rf.r>>)
  ELSE LET v == alloc(u, "H")
       IN  IF op \notin DOMAIN INT_OPS THEN Refuse(u)
           ELSE free_all(emit(v, INT_OPS[op], <<l, rgt, v.r>>), <<l, rgt>>)

RECURSIVE expr(_, _, _), call(_, _, _)
expr(u, e, target) ==
  CASE e[1] = "num"   -> Load(u, Num(e[2]), "H")
    [] e[1] = "numf"  -> Load(u, Flt(e[2]), "H")
    [] e[1] = "float" -> Load(u, Flt(e[2]), "F")
    [] e[1] = "str"   -> [u EXCEPT !.r = <<"mem", <<e[2]>>>>]
    [] e[1] = "var"   -> LET a == addr(u, e[2])
                         IN  Load(u, a, IF FloatAt(u, a) THEN "F" ELSE "H")
    [] e[1] = "binop" -> LET l == expr(u, e[2], "")
                             v == expr(l, e[4], "")
                         IN  IF e[3] \in DOMAIN CMP_INVERSE THEN Refuse(u)
                             ELSE Operation(v, e[3], l.r, v.r)
    [] e[1] = "convert" -> LET s == expr(u, e[2], "")
                               d == alloc(s, "H")
                           IN  CASE target = "" -> Refuse(u)
                                 [] is_float_type(target) -> to_float(s, s.r)
                                 [] s.r[1] = "F" ->
                                      free(emit(d, "FTOI", <<s.r, d.r>>), s.r)
                                 [] OTHER -> s
    [] e[1] = "call"  -> call(u, e[2], e[3])

call(u, name, args_expr) ==
  LET f == u.funcs[Last(Candidates(u, name))]
      Arg(acc, i) == LET v == Typed(expr(acc.u, args_expr[i], f.args[i][1]), f.args[i][1])
                     IN  [u |-> v, regs |-> Append(acc.regs, v.r)]
      args  == FoldLeft(Arg, [u |-> u, regs |-> <<>>], [i \in DOMAIN args_expr |-> i])
      saved == SelectSeq(live_regs(args.u), LAMBDA r : r \notin Range(args.regs))
      pushed == free_all(emit_all(emit_all(args.u, "PUSH", saved), "PUSH", args.regs), args.regs)
      back  == emit_all(emit(pushed, "CALL", <<f.label>>), "POP", Reverse(saved))
  IN  IF Candidates(u, name) = <<>> \/ Len(args_expr) # Len(f.args) THEN Refuse(u)
      ELSE Load(back, RETVAL, "H")

\* Jump to label unless condition e holds (every caller passes jump_if_false).
cond_jump(u, e, label) ==
  IF e[1] = "binop" /\ e[3] \in DOMAIN CMP_INVERSE
  THEN LET l == expr(u, e[2], "")
           v == expr(l, e[4], "")
       IN  IF "F" \in {l.r[1], v.r[1]} THEN Refuse(u)
           ELSE free_all(emit(emit(v, "CMP", <<l.r, v.r>>), CMP_INVERSE[e[3]], <<label>>),
                         <<l.r, v.r>>)
  ELSE LET v == expr(u, e, "")
           z == Load(v, Num(0), "H")
       IN  free_all(emit(emit(z, "CMP", <<v.r, z.r>>), "JE", <<label>>), <<v.r, z.r>>)

----------------------------------------------------------------------------
(* Functions and statements.                                               *)

Mutant_epilogue(u) ==
  LET restore(v, a) == LET t == alloc(v, "H")
                       IN  free(emit(emit(t, "POP", <<t.r>>),
                                     "STORE", <<addr(v, a[2]), t.r>>), t.r)
  IN  emit(FoldLeft(restore, u, Reverse(u.funcs[u.cur].args)), "RET", <<>>)
epilogue(u) ==
  LET restore(v, name) == LET t == alloc(v, "H")
                          IN  free(emit(emit(t, "POP", <<t.r>>),
                                        "STORE", <<addr(v, name), t.r>>), t.r)
  IN  emit(FoldLeft(restore, u, Reverse(u.funcs[u.cur].locals)), "RET", <<>>)

\* The head of a function: its label, its arguments taken off the stack, the
\* old values of its local variables saved, the arguments in their variables.
prologue(u, f) ==
  LET n == Len(f.args)
      typed == [u EXCEPT !.types =
                  [a \in {addr(u, f.args[i][2]) : i \in 1 .. n} |->
                     (CHOOSE p \in Range(f.args) : addr(u, p[2]) = a)[1]] @@ @]
      Take(acc, i) == LET v == alloc(acc.u, "H")
                      IN  [u |-> v, regs |-> Append(acc.regs, v.r)]
      taken == FoldLeft(Take, [u |-> typed, regs |-> <<>>], f.args)
      popped == emit_all(taken.u, "POP", Reverse(taken.regs))
      save(v, name) == LET t == Load(v, addr(v, name), "H")
                       IN  free(emit(t, "PUSH", <<t.r>>), t.r)
      store(v, i) == free(emit(v, "STORE", <<addr(v, f.args[i][2]), taken.regs[i]>>),
                          taken.regs[i])
  IN  FoldLeft(store, FoldLeft(save, popped, f.locals), [i \in 1 .. n |-> i])

RECURSIVE stmt(_, _), block(_, _), function(_, _)
function(u, f) ==
  LET isFunc(s) == s[1] = "func"
      head == emit(emit([new_labels(u, 1) EXCEPT !.cur = f.name], "JMP", <<Label(u, 1)>>),
                   "LABEL", <<f.label>>)
      body == epilogue(block(prologue(head, f), SelectSeq(f.body, LAMBDA s : ~isFunc(s))))
      tail == [emit(body, "LABEL", <<Label(u, 1)>>) EXCEPT !.cur = u.cur]
  IN  FoldLeft(LAMBDA v, s : function(v, v.funcs[s[2]]), tail, SelectSeq(f.body, isFunc))

block(u, stmts) == FoldLeft(LAMBDA v, s : stmt(v, s), u, stmts)

assign(u, s) ==
  LET a == addr(u, s[2])
      v == IF a \in DOMAIN u.types THEN u
           ELSE [u EXCEPT !.types = (a :> IF s[4] = "" THEN "int" ELSE s[4]) @@ @]
      w == Typed(expr(v, s[3], v.types[a]), v.types[a])
  IN  CASE is_float_type(v.types[a]) -> free(emit(w, "STOREF", <<a, w.r>>), w.r)
        [] w.r[1] = "F"         -> Refuse(u)
        [] OTHER                -> free(emit(w, "STORE", <<a, w.r>>), w.r)

\* if, elif, else: one branch per condition, each leaving to the end label.
if_stmt(u, s) ==
  LET Branch(v, b) ==
        LET next == Label(v, 1)
        IN  emit(emit(block(cond_jump(new_labels(v, 1), b[1], next), b[2]),
                      "JMP", <<Label(u, 1)>>), "LABEL", <<next>>)
      tested == FoldLeft(Branch, new_labels(u, 1), <<<<s[2], s[3]>>>> \o s[4])
  IN  emit(block(tested, s[5]), "LABEL", <<Label(u, 1)>>)

\* A loop: start and end labels, and the label "continue" goes to, which in a
\* while is the start and in a for is the step.
loop(u, cond, body, isFor, step_s) ==
  LET start == Label(u, 1)
      step  == Label(u, 2)
      end   == Label(u, 3)
      top   == [emit(new_labels(u, 3), "LABEL", <<start>>) EXCEPT
                  !.loop_stack = Append(@, [step |-> step, end |-> end])]
      entry == IF isFor THEN top ELSE emit(top, "LABEL", <<step>>)
      run   == block(cond_jump(entry, cond, end), body)
      again == IF isFor THEN stmt(emit(run, "LABEL", <<step>>), step_s) ELSE run
  IN  emit([emit(again, "JMP", <<start>>) EXCEPT !.loop_stack = Front(@)], "LABEL", <<end>>)

\* stop and continue jump to a label of the innermost loop.
leave(u, which) ==
  IF u.loop_stack = <<>> THEN Refuse(u)
  ELSE emit(u, "JMP", <<Last(u.loop_stack)[which]>>)

stmt(u, s) ==
  CASE s[1] = "assign"     -> assign(u, s)
    [] s[1] = "print_str"  -> emit(u, "PRINT_STR", <<<<"str", s[2]>>>>)
    [] s[1] = "print_expr" /\ s[2][1] = "str" -> emit(u, "PRINT_STR", <<s[2]>>)
    [] s[1] = "print_expr" -> LET v == expr(u, s[2], "")
                              IN  free(emit(v, IF v.r[1] = "F" THEN "PRINTF" ELSE "PRINT",
                                            <<v.r>>), v.r)
    [] s[1] = "if"         -> if_stmt(u, s)
    [] s[1] = "while"      -> loop(u, s[2], s[3], FALSE, <<>>)
    [] s[1] = "for"        -> loop(stmt(u, s[2]), s[3], s[5], TRUE, s[4])
    [] s[1] = "func"       -> CASE u.cur # <<>> -> u
                                [] s[2] \in DOMAIN u.funcs -> function(u, u.funcs[s[2]])
                                [] OTHER -> Refuse(u)
    [] s[1] = "stop"       -> leave(u, "end")
    [] s[1] = "continue"   -> leave(u, "step")
    [] s[1] = "return"     -> LET v == expr(u, s[2], "")
                                  op == IF v.r[1] = "H" THEN "STORE" ELSE "STOREF"
                              IN  IF u.cur = <<>> THEN Refuse(u)
                                  ELSE epilogue(free(emit(v, op, <<RETVAL, v.r>>), v.r))

compile(stmts) == emit(block(register_funcs(NewCompiler, stmts), stmts), "HALT", <<>>)

----------------------------------------------------------------------------
(* The assembler: labels become addresses, counted from 0.                 *)

assemble(asm) ==
  LET IsCode(x) == x[1] # "LABEL"
      code == SelectSeq(asm, IsCode)
      At(i) == Len(SelectSeq(SubSeq(asm, 1, i - 1), IsCode))
      labels == [l \in {asm[i][2][1] : i \in {j \in DOMAIN asm : asm[j][1] = "LABEL"}} |->
                   At(CHOOSE i \in DOMAIN asm : asm[i] = <<"LABEL", <<l>>>>)]
      Resolve(a) == IF a \in DOMAIN labels THEN Num(labels[a]) ELSE a
  IN  [i \in DOMAIN code |->
         <<code[i][1], [j \in DOMAIN code[i][2] |-> Resolve(code[i][2][j])]>>]
=============================================================================

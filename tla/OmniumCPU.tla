----------------------------- MODULE OmniumCPU -----------------------------
(***************************************************************************)
(* The emulator (emulator/main.py): the sources given to it, one per core, *)
(* compiled, assembled and run by the processor of MultiCore.  A source is *)
(* the lexemes of a Flang file, or the assembly of a core as               *)
(* <<"asm", code>>.                                                        *)
(***************************************************************************)
EXTENDS FlangCompiler, MultiCore

Flang == INSTANCE FlangParser

----------------------------------------------------------------------------
(* main.run_compile(): the sources compiled; one that is refused gets no   *)
(* core.                                                                   *)

Unit(source) ==
  LET parsed == Flang!parse(source)
      made(p, u) == [compiler |-> u, types |-> p.types, declared |-> p.declared]
  IN  CASE source # <<>> /\ source[1] = "asm" ->
             made(Flang!Parser(<<>>), [NewCompiler EXCEPT !.asm = source[2]])
        [] parsed.failed -> made(parsed, Refuse(NewCompiler))
        [] OTHER -> made(parsed, compile(parsed.r))

\* The job of these sources: what the front end and the compiler leave behind
\* for each source, and the assembled program of each core.  It is to print
\* what is expected.
Build(sources, limit, expected, compiled) ==
  LET done == [i \in DOMAIN sources |-> Unit(sources[i])]
      good == SelectSeq(done, LAMBDA u : ~u.compiler.failed)
  IN  [units |-> [i \in DOMAIN done |->
                    [failed |-> done[i].compiler.failed, free |-> done[i].compiler.free,
                     types |-> done[i].types, declared |-> done[i].declared]],
       programs |-> [c \in DOMAIN good |-> assemble(good[c].compiler.asm)],
       limit |-> limit, expected |-> expected, compiled |-> compiled]

----------------------------------------------------------------------------
(* Properties.  Jobs[job].expected[c] is what the source of core c prints, *)
(* and whether it then fails, by the meaning of the language.              *)

Finished(c) == cores[c].halted /\ ~timed_out

\* A core prints what its source says, in that order, whatever registers, stack
\* and addresses the compiler chose and whatever the other cores do between its
\* steps; and it fails exactly where the source does.  Exactly the sources the
\* language allows get a core.
RunsAsWritten ==
  /\ DOMAIN printed = DOMAIN Jobs[job].expected
  /\ \A c \in DOMAIN printed :
    /\ IsPrefix(printed[c], Jobs[job].expected[c].out)
    /\ Finished(c) => /\ printed[c] = Jobs[job].expected[c].out
                      /\ cores[c].error = Jobs[job].expected[c].failed

\* The code of calls and returns keeps the stacks balanced over every path: a
\* compiled program that ends without an error has left nothing on them.
Balanced ==
  \A c \in DOMAIN cores :
    Jobs[job].compiled /\ Finished(c) /\ ~cores[c].error =>
      cores[c].stack = <<>> /\ cores[c].call_stack = <<>>

\* The compiler gives back every temporary register it took, each once: a long
\* program never runs out of registers because of the statements before.
RegistersReturned ==
  \A i \in DOMAIN Jobs[job].units :
    LET u == Jobs[job].units[i]
    IN  ~u.failed => /\ Len(u.free["H"]) = H_REGS /\ Range(u.free["H"]) = Registers(H_REGS, "H")
                     /\ Len(u.free["F"]) = F_REGS /\ Range(u.free["F"]) = Registers(F_REGS, "F")

\* A variable keeps the type it was declared with (emulator/flang/parser.py:69,
\* 125-127): no later assignment makes the front end believe in another one.
DeclaredTypeKept ==
  \A i \in DOMAIN Jobs[job].units :
    LET u == Jobs[job].units[i]
    IN  \A x \in DOMAIN u.declared : u.types[x] = u.declared[x]
=============================================================================

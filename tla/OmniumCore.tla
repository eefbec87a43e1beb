----------------------------- MODULE OmniumCore -----------------------------
(***************************************************************************)
(* One core of the emulated processor (emulator/emulator/core.py): what an *)
(* instruction does.                                                       *)
(*                                                                         *)
(* A program is a sequence of instructions <<op, args>>.  An operand is a  *)
(* number <<"int", n>> or <<"float", halves>>, a register <<"H", i>> or    *)
(* <<"F", i>>, or the key of a word of memory: a variable <<"mem", name>>, *)
(* a label or a text.  STORE, LOAD and the atomic instructions use any     *)
(* operand as a key, even the name of a register.                          *)
(*                                                                         *)
(* s is what an instruction works on: the core, the memory, and out, what  *)
(* the core has printed.  A word of memory is 0 until it is stored to.     *)
(* RETVAL of a core and the result register of CALL are left out: nothing  *)
(* in the code ever sets RETVAL.  So is what an instruction that raises    *)
(* has done to its own core: the core has halted.                          *)
(***************************************************************************)
EXTENDS Integers, Sequences

CONSTANTS H_REGS,         \* registers for integers; 31 in the code
          F_REGS,         \* registers for floats; 16 in the code
          Bits(_, _, _)   \* AND, OR and XOR of two integers

Num(n) == <<"int", n>>
Flt(h) == <<"float", h>>

NewCore == [PC |-> 0, halted |-> FALSE, error |-> FALSE, Z |-> FALSE, N |-> FALSE,
            fresh_cmp |-> FALSE, stack |-> <<>>, call_stack |-> <<>>,
            reg |-> [H |-> [i \in 0 .. H_REGS - 1 |-> Num(0)],
                     F |-> [i \in 0 .. F_REGS - 1 |-> Flt(0)]]]

----------------------------------------------------------------------------
(* Numbers: Python's int, and float in halves.                             *)

Fail == <<"error">>
IsFloat(x) == x[1] = "float"
Halves(x) == IF IsFloat(x) THEN x[2] ELSE 2 * x[2]
ToFloat(x) == Flt(Halves(x))
Trunc(h) == IF h >= 0 THEN h \div 2 ELSE -((-h) \div 2)
FloorDiv(a, b) == IF b > 0 THEN a \div b ELSE (-a) \div (-b)

Calc(op, a, b) ==
  CASE op = "SUM" -> a + b
    [] op = "SUB" -> a - b
    [] op = "MUL" -> a * b
    [] op \in {"DIV", "FLOORDIV"} -> FloorDiv(a, b)
    [] op = "MOD" -> a - b * FloorDiv(a, b)
    [] op = "POW" -> a ^ b
    [] OTHER -> Bits(op, a, b)

\* The same on halves, for operands whose result is a number of halves.
CalcHalves(op, a, b) ==
  CASE op \in {"SUM", "FSUM"} -> a + b
    [] op \in {"SUB", "FSUB"} -> a - b
    [] op \in {"MUL", "FMUL"} -> FloorDiv(a * b, 2)
    [] op = "FDIV" -> FloorDiv(2 * a, b)
    [] op = "FLOORDIV" -> 2 * FloorDiv(a, b)
    [] op = "MOD" -> a - b * FloorDiv(a, b)
    [] op \in {"POW", "FPOW"} -> 2 * ((a \div 2) ^ (b \div 2))

FloatOps == {"FSUM", "FSUB", "FMUL", "FDIV", "FPOW"}
IntOps == {"SUM", "SUB", "MUL", "DIV", "MOD", "POW", "FLOORDIV", "AND", "OR", "XOR"}

\* What the arithmetic instruction op writes, or Fail where it raises.
Result(op, x, y) ==
  LET floats == IsFloat(x) \/ IsFloat(y)
      h == CalcHalves(op, Halves(x), Halves(y))
  IN  IF \/ op \in {"DIV", "MOD", "FLOORDIV", "FDIV"} /\ y[2] = 0
         \/ floats /\ op \in {"DIV", "AND", "OR", "XOR"}
      THEN Fail
      ELSE IF floats /\ op = "SUM" THEN Num(Trunc(h))
      ELSE IF floats \/ op \in FloatOps THEN Flt(h)
      ELSE Num(Calc(op, x[2], y[2]))

\* new = old + value of ATOMIC_ADD.
Plus(x, y) == IF IsFloat(x) \/ IsFloat(y) THEN Flt(Halves(x) + Halves(y)) ELSE Num(x[2] + y[2])

----------------------------------------------------------------------------
(* Operands.                                                               *)

IsH(x) == x[1] = "H"
IsF(x) == x[1] = "F"
IsNumber(x) == x[1] \in {"int", "float"}

Put(core, dst, v) == [core EXCEPT !.reg[dst[1]][dst[2]] = v]
Becomes(s, core) == [s EXCEPT !.core = core]
Store(s, key, v) == [s EXCEPT !.memory[key] = v]
raise(s) == Becomes(s, [s.core EXCEPT !.error = TRUE, !.halted = TRUE])

val(s, x) == CASE IsH(x) \/ IsF(x) -> s.core.reg[x[1]][x[2]]
               [] IsNumber(x)      -> x
               [] OTHER            -> s.memory[x]

write(s, dst, v) ==
  CASE IsH(dst)      -> Becomes(s, Put(s.core, dst, v))
    [] IsF(dst)      -> Becomes(s, Put(s.core, dst, ToFloat(v)))
    [] IsNumber(dst) -> raise(s)
    [] OTHER         -> Store(s, dst, v)

----------------------------------------------------------------------------
(* The instructions: s after each of them, but for the PC, which only the  *)
(* jumps set.                                                              *)

Compute(s, op, args) ==
  LET v == Result(op, val(s, args[1]), val(s, args[2]))
  IN  IF v = Fail \/ (op = "SUM" /\ ~IsH(args[3])) THEN raise(s) ELSE write(s, args[3], v)

Complement(s, args) ==
  LET x == val(s, args[1])
  IN  IF IsFloat(x) THEN raise(s) ELSE write(s, args[2], Num(-x[2] - 1))

\* LOAD reads its source as a number or a key, never as a register; a float
\* source of LOAD is a key too.
LoadRegister(s, op, args) ==
  LET src == args[1]
      dst == args[2]
      allowed == CASE op = "LOAD"  -> IsH(dst)
                   [] op = "LOADF" -> IsF(dst)
                   [] op = "FTOI"  -> IsF(src) /\ IsH(dst)
                   [] op = "ITOF"  -> IsH(src) /\ IsF(dst)
      x == CASE op = "LOAD" -> IF src[1] = "int" THEN src ELSE s.memory[src]
             [] op = "FTOI" -> Num(Trunc(Halves(val(s, src))))
             [] OTHER       -> val(s, src)
  IN  IF allowed THEN write(s, dst, x) ELSE raise(s)

StoreRegister(s, op, args) ==
  IF args[2][1] = (IF op = "STORE" THEN "H" ELSE "F")
  THEN Store(s, args[1], val(s, args[2])) ELSE raise(s)

Push(s, args) == Becomes(s, [s.core EXCEPT !.stack = Append(@, val(s, args[1]))])

Pop(s, args) ==
  LET stack == s.core.stack
      n == Len(stack)
  IN  IF n = 0 THEN write(s, args[1], Num(0))
      ELSE write(Becomes(s, [s.core EXCEPT !.stack = SubSeq(@, 1, n - 1)]), args[1], stack[n])

Cmp(s, args) ==
  LET a == val(s, args[1])
      b == val(s, args[2])
  IN  IF IsFloat(a) \/ IsFloat(b) THEN raise(s)
      ELSE Becomes(s, [s.core EXCEPT !.Z = (a[2] = b[2]), !.N = (a[2] < b[2])])

Conditions == {"JE", "JZ", "JNE", "JNZ", "JL", "JLE", "JG", "JGE"}
Met(op, core) == CASE op = "JMP" -> TRUE
                   [] op \in {"JE", "JZ"}   -> core.Z
                   [] op \in {"JNE", "JNZ"} -> ~core.Z
                   [] op = "JL"  -> core.N
                   [] op = "JLE" -> core.N \/ core.Z
                   [] op = "JG"  -> ~core.N /\ ~core.Z
                   [] op = "JGE" -> ~core.N \/ core.Z

\* A target that is still a label was in no LABEL of the program.
Jump(s, op, args, size) ==
  LET met == Met(op, s.core)
      target == args[1]
  IN  CASE op \in Conditions /\ ~s.core.fresh_cmp -> raise(s)
        [] met /\ (target[1] # "int" \/ target[2] \notin 0 .. size) -> raise(s)
        [] OTHER -> Becomes(s, [s.core EXCEPT !.PC = IF met THEN target[2] ELSE @ + 1])

AtomicAdd(s, args) ==
  LET new == Plus(s.memory[args[1]], val(s, args[2]))
  IN  write(Store(s, args[1], new), args[3], new)

AtomicCas(s, args) ==
  LET success == Halves(s.memory[args[1]]) = Halves(val(s, args[2]))
  IN  IF success THEN write(Store(s, args[1], val(s, args[3])), args[4], Num(1))
      ELSE write(s, args[4], Num(0))

Output(s, op, args) ==
  LET x == args[1]
      text == IF op = "PRINT_STR" THEN x
              ELSE IF IsH(x) \/ IsF(x) THEN val(s, x)
              ELSE s.memory[x]
  IN  [s EXCEPT !.out = Append(@, text)]

Call(s, args) ==
  IF args[1][1] # "int" THEN raise(s)
  ELSE Becomes(s, [s.core EXCEPT !.call_stack = Append(@, s.core.PC + 1), !.PC = args[1][2]])

\* HALT, an opcode the core does not know, and RET from no call.
Halt(s) == Becomes(s, [s.core EXCEPT !.halted = TRUE])

Ret(s) ==
  LET calls == s.core.call_stack
      n == Len(calls)
  IN  IF n = 0 THEN Halt(s)
      ELSE Becomes(s, [s.core EXCEPT !.call_stack = SubSeq(@, 1, n - 1), !.PC = calls[n]])

----------------------------------------------------------------------------
(* step(), with the fetch of run().                                        *)

\* How many operands an instruction has; some raise when given more.
Operands(op) ==
  CASE op \in IntOps \cup FloatOps \cup {"ATOMIC_ADD"} -> 3
    [] op = "ATOMIC_CAS" -> 4
    [] op \in {"NOT", "LOAD", "LOADF", "STORE", "STOREF", "FTOI", "ITOF", "CMP"} -> 2
    [] op \in {"PUSH", "POP", "PRINT", "PRINTF", "PRINT_STR", "CALL", "JMP"} \cup Conditions -> 1
    [] OTHER -> 0
Unpacking == {"LOAD", "LOADF", "STOREF", "FTOI", "ITOF", "ATOMIC_ADD", "ATOMIC_CAS"}
Takes(op, args) == /\ Len(args) >= Operands(op)
                   /\ op \in Unpacking => Len(args) = Operands(op)

Execute(s, op, args, size) ==
  CASE op \in IntOps \cup FloatOps -> Compute(s, op, args)
    [] op = "NOT" -> Complement(s, args)
    [] op \in {"LOAD", "LOADF", "FTOI", "ITOF"} -> LoadRegister(s, op, args)
    [] op \in {"STORE", "STOREF"} -> StoreRegister(s, op, args)
    [] op = "PUSH" -> Push(s, args)
    [] op = "POP" -> Pop(s, args)
    [] op = "CMP" -> Cmp(s, args)
    [] op \in {"JMP"} \cup Conditions -> Jump(s, op, args, size)
    [] op = "ATOMIC_ADD" -> AtomicAdd(s, args)
    [] op = "ATOMIC_CAS" -> AtomicCas(s, args)
    [] op \in {"PRINT", "PRINTF", "PRINT_STR"} -> Output(s, op, args)
    [] op = "CALL" -> Call(s, args)
    [] op = "RET" -> Ret(s)
    [] OTHER -> Halt(s)

\* The end of step(), for an instruction that has not halted the core.
Jumps == {"JMP", "CALL", "RET"} \cup Conditions
Advance(s, op, size) ==
  LET pc == IF op \in Jumps THEN s.core.PC ELSE s.core.PC + 1
  IN  IF s.core.halted THEN s
      ELSE Becomes(s, [s.core EXCEPT !.PC = pc, !.fresh_cmp = (op = "CMP"), !.halted = pc >= size])

\* A negative PC counts from the end of the program, as Python's indices do.
Fetched(program, pc) == IF pc < 0 THEN Len(program) + pc + 1 ELSE pc + 1

CoreStep(program, s) ==
  LET i == Fetched(program, s.core.PC)
      op == program[i][1]
      args == program[i][2]
  IN  IF i \notin DOMAIN program \/ ~Takes(op, args) THEN raise(s)
      ELSE Advance(Execute(s, op, args, Len(program)), op, Len(program))

----------------------------------------------------------------------------
(* The keys a program names, all its operands, and those it may store to.  *)

Names(program) ==
  UNION {{program[i][2][j] : j \in DOMAIN program[i][2]} : i \in DOMAIN program}
IsProgram(program) == program \in Seq(STRING \X Seq(Names(program)))

Key(dst) == IF IsH(dst) \/ IsF(dst) \/ IsNumber(dst) THEN {} ELSE {dst}
StoredBy(op, args) ==
  CASE op \in (IntOps \cup FloatOps) \ {"SUM"} -> Key(args[3])
    [] op = "NOT" -> Key(args[2])
    [] op \in {"STORE", "STOREF"} -> {args[1]}
    [] op = "POP" -> Key(args[1])
    [] op = "ATOMIC_ADD" -> {args[1]} \cup Key(args[3])
    [] op = "ATOMIC_CAS" -> {args[1]} \cup Key(args[4])
    [] OTHER -> {}
Stores(program) ==
  UNION {IF Takes(program[i][1], program[i][2]) THEN StoredBy(program[i][1], program[i][2]) ELSE {}
           : i \in DOMAIN program}
=============================================================================

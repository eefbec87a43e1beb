--------------------------- MODULE MultiCoreProofs ---------------------------
(* Proofs about MultiCore for any jobs, number of cores and programs.       *)
EXTENDS MultiCore, SequenceTheorems, TLAPS

-----------------------------------------------------------------------------
(* What an instruction works on, taken apart and put together.              *)

Rec(k, m, o) == [core |-> k, memory |-> m, out |-> o]
IsRec(s) == s = Rec(s.core, s.memory, s.out)

LEMMA RecParts ==
  ASSUME NEW k, NEW m, NEW o
  PROVE  /\ IsRec(Rec(k, m, o))
         /\ Rec(k, m, o).core = k /\ Rec(k, m, o).memory = m /\ Rec(k, m, o).out = o
BY DEF Rec, IsRec

LEMMA BecomesIs ==
  ASSUME NEW s, IsRec(s), NEW k
  PROVE  Becomes(s, k) = Rec(k, s.memory, s.out)
<1> DEFINE c == s.core
           m == s.memory
           o == s.out
<1>1. s = Rec(c, m, o)
  BY DEF IsRec
<1> HIDE DEF c, m, o
<1>2. [Rec(c, m, o) EXCEPT !.core = k] = Rec(k, m, o)
  BY DEF Rec
<1> QED
  BY <1>1, <1>2 DEF Becomes, m, o

LEMMA StoreIs ==
  ASSUME NEW s, IsRec(s), NEW x, NEW v
  PROVE  Store(s, x, v) = Rec(s.core, [s.memory EXCEPT ![x] = v], s.out)
<1> DEFINE c == s.core
           m == s.memory
           o == s.out
<1>1. s = Rec(c, m, o)
  BY DEF IsRec
<1> HIDE DEF c, m, o
<1>2. [Rec(c, m, o) EXCEPT !.memory[x] = v] = Rec(c, [m EXCEPT ![x] = v], o)
  BY DEF Rec
<1> QED
  BY <1>1, <1>2 DEF Store, c, m, o

LEMMA OutIs ==
  ASSUME NEW s, IsRec(s), NEW o
  PROVE  [s EXCEPT !.out = o] = Rec(s.core, s.memory, o)
<1> DEFINE c == s.core
           m == s.memory
           p == s.out
<1>1. s = Rec(c, m, p)
  BY DEF IsRec
<1> HIDE DEF c, m, p
<1>2. [Rec(c, m, p) EXCEPT !.out = o] = Rec(c, m, o)
  BY DEF Rec
<1> QED
  BY <1>1, <1>2 DEF c, m

-----------------------------------------------------------------------------
(* Two states that are the same for a program which names the words A.      *)

IsMemory(m) == m = [x \in DOMAIN m |-> m[x]]
Sane(s) == IsRec(s) /\ IsMemory(s.memory)

Same(s, t, A) ==
  /\ Sane(s) /\ Sane(t)
  /\ s.core = t.core /\ s.out = t.out
  /\ A \subseteq DOMAIN s.memory /\ A \subseteq DOMAIN t.memory
  /\ \A x \in A : s.memory[x] = t.memory[x]

LEMMA ValSame ==
  ASSUME NEW A, NEW s, NEW t, Same(s, t, A), NEW x \in A
  PROVE  val(s, x) = val(t, x)
BY DEF Same, val

LEMMA BecomesSame ==
  ASSUME NEW A, NEW s, NEW t, Same(s, t, A), NEW k
  PROVE  /\ Same(Becomes(s, k), Becomes(t, k), A)
         /\ Becomes(s, k).core = k
BY BecomesIs, RecParts DEF Same, Sane

LEMMA RaiseSame ==
  ASSUME NEW A, NEW s, NEW t, Same(s, t, A)
  PROVE  Same(raise(s), raise(t), A)
<1>1. s.core = t.core
  BY DEF Same
<1> QED
  BY <1>1, BecomesSame DEF raise

LEMMA StoreSame ==
  ASSUME NEW A, NEW s, NEW t, Same(s, t, A), NEW x, NEW v
  PROVE  Same(Store(s, x, v), Store(t, x, v), A)
<1> DEFINE m == [s.memory EXCEPT ![x] = v]
           n == [t.memory EXCEPT ![x] = v]
<1>1. Store(s, x, v) = Rec(s.core, m, s.out) /\ Store(t, x, v) = Rec(t.core, n, t.out)
  BY StoreIs DEF Same, Sane
<1>2. /\ IsMemory(m) /\ IsMemory(n)
      /\ A \subseteq DOMAIN m /\ A \subseteq DOMAIN n
      /\ \A y \in A : m[y] = n[y]
  BY DEF Same, Sane, IsMemory
<1> HIDE DEF m, n
<1> QED
  BY <1>1, <1>2, RecParts DEF Same, Sane

LEMMA WriteSame ==
  ASSUME NEW A, NEW s, NEW t, Same(s, t, A), NEW d, NEW v
  PROVE  Same(write(s, d, v), write(t, d, v), A)
<1>1. s.core = t.core
  BY DEF Same
<1>2. CASE IsH(d)
  BY <1>1, <1>2, BecomesSame DEF write, IsH, IsF, IsNumber
<1>3. CASE IsF(d)
  BY <1>1, <1>3, BecomesSame DEF write, IsH, IsF, IsNumber
<1>4. CASE ~IsH(d) /\ ~IsF(d) /\ IsNumber(d)
  BY <1>4, RaiseSame DEF write
<1>5. CASE ~IsH(d) /\ ~IsF(d) /\ ~IsNumber(d)
  BY <1>5, StoreSame DEF write
<1> QED
  BY <1>2, <1>3, <1>4, <1>5

-----------------------------------------------------------------------------
(* The instructions, on two states that are the same for their operands.    *)

LEMMA ComputeSame ==
  ASSUME NEW A, NEW s, NEW t, Same(s, t, A), NEW op, NEW args,
         args[1] \in A, args[2] \in A
  PROVE  Same(Compute(s, op, args), Compute(t, op, args), A)
<1>1. val(s, args[1]) = val(t, args[1]) /\ val(s, args[2]) = val(t, args[2])
  BY ValSame
<1> QED
  BY <1>1, RaiseSame, WriteSame DEF Compute

LEMMA ComplementSame ==
  ASSUME NEW A, NEW s, NEW t, Same(s, t, A), NEW args, args[1] \in A
  PROVE  Same(Complement(s, args), Complement(t, args), A)
<1>1. val(s, args[1]) = val(t, args[1])
  BY ValSame
<1> QED
  BY <1>1, RaiseSame, WriteSame DEF Complement

LEMMA LoadRegisterSame ==
  ASSUME NEW A, NEW s, NEW t, Same(s, t, A), NEW op, NEW args, args[1] \in A
  PROVE  Same(LoadRegister(s, op, args), LoadRegister(t, op, args), A)
<1>1. val(s, args[1]) = val(t, args[1]) /\ s.memory[args[1]] = t.memory[args[1]]
  BY ValSame DEF Same
<1> QED
  BY <1>1, RaiseSame, WriteSame DEF LoadRegister

LEMMA StoreRegisterSame ==
  ASSUME NEW A, NEW s, NEW t, Same(s, t, A), NEW op, NEW args, args[2] \in A
  PROVE  Same(StoreRegister(s, op, args), StoreRegister(t, op, args), A)
<1>1. val(s, args[2]) = val(t, args[2])
  BY ValSame
<1> QED
  BY <1>1, RaiseSame, StoreSame DEF StoreRegister

LEMMA PushSame ==
  ASSUME NEW A, NEW s, NEW t, Same(s, t, A), NEW args, args[1] \in A
  PROVE  Same(Push(s, args), Push(t, args), A)
<1>1. val(s, args[1]) = val(t, args[1]) /\ s.core = t.core
  BY ValSame DEF Same
<1> QED
  BY <1>1, BecomesSame DEF Push

LEMMA PopSame ==
  ASSUME NEW A, NEW s, NEW t, Same(s, t, A), NEW args
  PROVE  Same(Pop(s, args), Pop(t, args), A)
<1> DEFINE n == Len(s.core.stack)
           k == [s.core EXCEPT !.stack = SubSeq(@, 1, n - 1)]
           v == s.core.stack[n]
<1>1. s.core = t.core
  BY DEF Same
<1>2. Pop(s, args) = IF n = 0 THEN write(s, args[1], Num(0)) ELSE write(Becomes(s, k), args[1], v)
  BY DEF Pop
<1>3. Pop(t, args) = IF n = 0 THEN write(t, args[1], Num(0)) ELSE write(Becomes(t, k), args[1], v)
  BY <1>1 DEF Pop
<1> HIDE DEF n, k, v
<1>4. Same(Becomes(s, k), Becomes(t, k), A)
  BY BecomesSame
<1> QED
  BY <1>2, <1>3, <1>4, WriteSame

LEMMA CmpSame ==
  ASSUME NEW A, NEW s, NEW t, Same(s, t, A), NEW args, args[1] \in A, args[2] \in A
  PROVE  Same(Cmp(s, args), Cmp(t, args), A)
<1>1. /\ val(s, args[1]) = val(t, args[1]) /\ val(s, args[2]) = val(t, args[2])
      /\ s.core = t.core
  BY ValSame DEF Same
<1> QED
  BY <1>1, RaiseSame, BecomesSame DEF Cmp

LEMMA JumpSame ==
  ASSUME NEW A, NEW s, NEW t, Same(s, t, A), NEW op, NEW args, NEW size
  PROVE  Same(Jump(s, op, args, size), Jump(t, op, args, size), A)
<1>1. s.core = t.core
  BY DEF Same
<1> QED
  BY <1>1, RaiseSame, BecomesSame DEF Jump

LEMMA AtomicAddSame ==
  ASSUME NEW A, NEW s, NEW t, Same(s, t, A), NEW args, args[1] \in A, args[2] \in A
  PROVE  Same(AtomicAdd(s, args), AtomicAdd(t, args), A)
<1>1. s.memory[args[1]] = t.memory[args[1]] /\ val(s, args[2]) = val(t, args[2])
  BY ValSame DEF Same
<1> QED
  BY <1>1, StoreSame, WriteSame DEF AtomicAdd

LEMMA AtomicCasSame ==
  ASSUME NEW A, NEW s, NEW t, Same(s, t, A), NEW args,
         args[1] \in A, args[2] \in A, args[3] \in A
  PROVE  Same(AtomicCas(s, args), AtomicCas(t, args), A)
<1>1. /\ s.memory[args[1]] = t.memory[args[1]]
      /\ val(s, args[2]) = val(t, args[2]) /\ val(s, args[3]) = val(t, args[3])
  BY ValSame DEF Same
<1> QED
  BY <1>1, StoreSame, WriteSame DEF AtomicCas

LEMMA OutputSame ==
  ASSUME NEW A, NEW s, NEW t, Same(s, t, A), NEW op, NEW args, args[1] \in A
  PROVE  Same(Output(s, op, args), Output(t, op, args), A)
<1> DEFINE x == args[1]
           text(r) == IF op = "PRINT_STR" THEN x
                      ELSE IF IsH(x) \/ IsF(x) THEN val(r, x)
                      ELSE r.memory[x]
           o == Append(s.out, text(s))
<1>1. val(s, x) = val(t, x) /\ s.memory[x] = t.memory[x] /\ s.out = t.out
  BY ValSame DEF Same
<1>2. Output(s, op, args) = [s EXCEPT !.out = o] /\ Output(t, op, args) = [t EXCEPT !.out = o]
  BY <1>1 DEF Output
<1> HIDE DEF o
<1> QED
  BY <1>2, OutIs, RecParts DEF Same, Sane

LEMMA CallSame ==
  ASSUME NEW A, NEW s, NEW t, Same(s, t, A), NEW args
  PROVE  Same(Call(s, args), Call(t, args), A)
<1>1. s.core = t.core
  BY DEF Same
<1> QED
  BY <1>1, RaiseSame, BecomesSame DEF Call

LEMMA RetSame ==
  ASSUME NEW A, NEW s, NEW t, Same(s, t, A)
  PROVE  Same(Ret(s), Ret(t), A) /\ Same(Halt(s), Halt(t), A)
<1>1. s.core = t.core
  BY DEF Same
<1> QED
  BY <1>1, BecomesSame DEF Ret, Halt

(* An instruction that step() accepts finds its operands among its          *)
(* arguments.                                                               *)
LEMMA OperandsThere ==
  ASSUME NEW A, NEW op, NEW args \in Seq(A), Takes(op, args)
  PROVE  /\ op \in IntOps \cup FloatOps \cup {"ATOMIC_ADD"} =>
              args[1] \in A /\ args[2] \in A /\ args[3] \in A
         /\ op = "ATOMIC_CAS" => args[1] \in A /\ args[2] \in A /\ args[3] \in A /\ args[4] \in A
         /\ op \in {"NOT", "LOAD", "LOADF", "STORE", "STOREF", "FTOI", "ITOF", "CMP"} =>
              args[1] \in A /\ args[2] \in A
         /\ op \in {"PUSH", "POP", "PRINT", "PRINTF", "PRINT_STR"} => args[1] \in A
<1>1. Len(args) \in Nat /\ \A i \in 1 .. Len(args) : args[i] \in A
  OBVIOUS
<1>2. Len(args) >= Operands(op)
  BY DEF Takes
<1>3. ASSUME op \in IntOps \cup FloatOps \cup {"ATOMIC_ADD"} PROVE Operands(op) = 3
  BY <1>3 DEF Operands, IntOps, FloatOps, Conditions
<1>4. ASSUME op = "ATOMIC_CAS" PROVE Operands(op) = 4
  BY <1>4 DEF Operands, IntOps, FloatOps, Conditions
<1>5. ASSUME op \in {"NOT", "LOAD", "LOADF", "STORE", "STOREF", "FTOI", "ITOF", "CMP"}
      PROVE  Operands(op) = 2
  BY <1>5 DEF Operands, IntOps, FloatOps, Conditions
<1>6. ASSUME op \in {"PUSH", "POP", "PRINT", "PRINTF", "PRINT_STR"} PROVE Operands(op) = 1
  BY <1>6 DEF Operands, IntOps, FloatOps, Conditions
<1> QED
  BY <1>1, <1>2, <1>3, <1>4, <1>5, <1>6

LEMMA ExecuteSame ==
  ASSUME NEW A, NEW s, NEW t, Same(s, t, A),
         NEW op, NEW args \in Seq(A), Takes(op, args), NEW size
  PROVE  Same(Execute(s, op, args, size), Execute(t, op, args, size), A)
<1> USE DEF Execute, IntOps, FloatOps, Conditions
<1>1. CASE op \in IntOps \cup FloatOps
  BY <1>1, OperandsThere, ComputeSame
<1>2. CASE op = "NOT"
  BY <1>2, OperandsThere, ComplementSame
<1>3. CASE op \in {"LOAD", "LOADF", "FTOI", "ITOF"}
  BY <1>3, OperandsThere, LoadRegisterSame
<1>4. CASE op \in {"STORE", "STOREF"}
  BY <1>4, OperandsThere, StoreRegisterSame
<1>5. CASE op = "PUSH"
  BY <1>5, OperandsThere, PushSame
<1>6. CASE op = "POP"
  BY <1>6, PopSame
<1>7. CASE op = "CMP"
  BY <1>7, OperandsThere, CmpSame
<1>8. CASE op \in {"JMP"} \cup Conditions
  BY <1>8, JumpSame
<1>9. CASE op = "ATOMIC_ADD"
  BY <1>9, OperandsThere, AtomicAddSame
<1>10. CASE op = "ATOMIC_CAS"
  BY <1>10, OperandsThere, AtomicCasSame
<1>11. CASE op \in {"PRINT", "PRINTF", "PRINT_STR"}
  BY <1>11, OperandsThere, OutputSame
<1>12. CASE op = "CALL"
  BY <1>12, CallSame
<1>13. CASE op = "RET"
  BY <1>13, RetSame
<1>14. CASE /\ op \notin IntOps \cup FloatOps
            /\ op \notin {"NOT", "LOAD", "LOADF", "FTOI", "ITOF", "STORE", "STOREF", "PUSH", "POP",
                          "CMP", "JMP", "ATOMIC_ADD", "ATOMIC_CAS", "PRINT", "PRINTF",
                          "PRINT_STR", "CALL", "RET"} \cup Conditions
  BY <1>14, RetSame
<1> QED
  BY <1>1, <1>2, <1>3, <1>4, <1>5, <1>6, <1>7, <1>8, <1>9, <1>10, <1>11, <1>12, <1>13, <1>14

LEMMA AdvanceSame ==
  ASSUME NEW A, NEW s, NEW t, Same(s, t, A), NEW op, NEW size
  PROVE  Same(Advance(s, op, size), Advance(t, op, size), A)
<1>1. s.core = t.core
  BY DEF Same
<1> QED
  BY <1>1, BecomesSame DEF Advance

(* The instructions of a program and their operands.                        *)
LEMMA InstructionIs ==
  ASSUME NEW p, IsProgram(p), NEW i \in DOMAIN p
  PROVE  p[i][2] \in Seq(Names(p))
<1>1. p[i] \in STRING \X Seq(Names(p))
  BY DEF IsProgram
<1> QED
  BY <1>1

(* Two states that are the same for what a program names stay so when it    *)
(* takes a step from each.                                                  *)
LEMMA StepSame ==
  ASSUME NEW p, IsProgram(p), NEW s, NEW t, Same(s, t, Names(p))
  PROVE  Same(CoreStep(p, s), CoreStep(p, t), Names(p))
<1> DEFINE i == Fetched(p, s.core.PC)
           op == p[i][1]
           args == p[i][2]
<1>1. i = Fetched(p, t.core.PC)
  BY DEF Same
<1>2. CASE i \notin DOMAIN p \/ ~Takes(op, args)
  BY <1>1, <1>2, RaiseSame DEF CoreStep
<1>3. CASE i \in DOMAIN p /\ Takes(op, args)
  <2>1. args \in Seq(Names(p))
    BY <1>3, InstructionIs
  <2>2. /\ CoreStep(p, s) = Advance(Execute(s, op, args, Len(p)), op, Len(p))
        /\ CoreStep(p, t) = Advance(Execute(t, op, args, Len(p)), op, Len(p))
    BY <1>1, <1>3 DEF CoreStep
  <2> HIDE DEF op, args
  <2>3. Same(Execute(s, op, args, Len(p)), Execute(t, op, args, Len(p)), Names(p))
    BY <1>3, <2>1, ExecuteSame
  <2> QED
    BY <2>2, <2>3, AdvanceSame
<1> QED
  BY <1>2, <1>3

-----------------------------------------------------------------------------
(* What a step leaves alone: t is a state after s in which no word but      *)
(* those of K has changed.                                                  *)

Keeps(s, t, K) ==
  /\ Sane(s) /\ Sane(t)
  /\ DOMAIN t.memory = DOMAIN s.memory
  /\ \A x \in DOMAIN s.memory \ K : t.memory[x] = s.memory[x]

LEMMA KeepsBoth ==
  ASSUME NEW s, NEW t, NEW r, NEW K, NEW L, Keeps(s, t, K), Keeps(t, r, L)
  PROVE  Keeps(s, r, K \cup L)
BY DEF Keeps

LEMMA KeepsMore ==
  ASSUME NEW s, NEW t, NEW K, NEW L, Keeps(s, t, K), K \subseteq L
  PROVE  Keeps(s, t, L)
BY DEF Keeps

LEMMA BecomesKeeps ==
  ASSUME NEW s, Sane(s), NEW k
  PROVE  Keeps(s, Becomes(s, k), {})
BY BecomesIs, RecParts DEF Sane, Keeps

LEMMA RaiseKeeps ==
  ASSUME NEW s, Sane(s)
  PROVE  Keeps(s, raise(s), {})
BY BecomesKeeps DEF raise

LEMMA StoreKeeps ==
  ASSUME NEW s, Sane(s), NEW x, NEW v
  PROVE  Keeps(s, Store(s, x, v), {x})
<1> DEFINE m == [s.memory EXCEPT ![x] = v]
<1>1. Store(s, x, v) = Rec(s.core, m, s.out)
  BY StoreIs DEF Sane
<1>2. /\ IsMemory(m) /\ DOMAIN m = DOMAIN s.memory
      /\ \A y \in DOMAIN s.memory \ {x} : m[y] = s.memory[y]
  BY DEF Sane, IsMemory
<1> HIDE DEF m
<1> QED
  BY <1>1, <1>2, RecParts DEF Keeps, Sane

LEMMA WriteKeeps ==
  ASSUME NEW s, Sane(s), NEW d, NEW v
  PROVE  Keeps(s, write(s, d, v), Key(d))
<1>1. CASE IsH(d)
  BY <1>1, BecomesKeeps DEF write, Key, IsH, IsF, IsNumber
<1>2. CASE IsF(d)
  BY <1>2, BecomesKeeps DEF write, Key, IsH, IsF, IsNumber
<1>3. CASE ~IsH(d) /\ ~IsF(d) /\ IsNumber(d)
  BY <1>3, RaiseKeeps DEF write, Key
<1>4. CASE ~IsH(d) /\ ~IsF(d) /\ ~IsNumber(d)
  BY <1>4, StoreKeeps DEF write, Key
<1> QED
  BY <1>1, <1>2, <1>3, <1>4

(* A write to a register changes no word.                                   *)
LEMMA NoKey ==
  ASSUME NEW d, IsH(d) \/ IsF(d)
  PROVE  Key(d) = {}
BY DEF Key

LEMMA ComputeKeeps ==
  ASSUME NEW s, Sane(s), NEW op, NEW args
  PROVE  Keeps(s, Compute(s, op, args), IF op = "SUM" THEN {} ELSE Key(args[3]))
<1> DEFINE K == IF op = "SUM" THEN {} ELSE Key(args[3])
           v == Result(op, val(s, args[1]), val(s, args[2]))
<1>1. CASE Compute(s, op, args) = raise(s)
  BY <1>1, RaiseKeeps, KeepsMore
<1>2. CASE /\ Compute(s, op, args) = write(s, args[3], v)
           /\ op = "SUM" => IsH(args[3])
  <2>1. Key(args[3]) = K
    BY <1>2, NoKey
  <2> HIDE DEF K, v
  <2> QED
    BY <1>2, <2>1, WriteKeeps DEF K
<1> QED
  BY <1>1, <1>2 DEF Compute

LEMMA ComplementKeeps ==
  ASSUME NEW s, Sane(s), NEW args
  PROVE  Keeps(s, Complement(s, args), Key(args[2]))
BY RaiseKeeps, KeepsMore, WriteKeeps DEF Complement

LEMMA LoadRegisterKeeps ==
  ASSUME NEW s, Sane(s), NEW op, op \in {"LOAD", "LOADF", "FTOI", "ITOF"}, NEW args
  PROVE  Keeps(s, LoadRegister(s, op, args), {})
<1>1. CASE LoadRegister(s, op, args) = raise(s)
  BY <1>1, RaiseKeeps
<1>2. CASE LoadRegister(s, op, args) # raise(s)
  <2>1. PICK x : LoadRegister(s, op, args) = write(s, args[2], x)
    BY <1>2 DEF LoadRegister
  <2>2. IsH(args[2]) \/ IsF(args[2])
    BY <1>2 DEF LoadRegister
  <2> QED
    BY <2>1, <2>2, WriteKeeps, NoKey
<1> QED
  BY <1>1, <1>2

LEMMA StoreRegisterKeeps ==
  ASSUME NEW s, Sane(s), NEW op, NEW args
  PROVE  Keeps(s, StoreRegister(s, op, args), {args[1]})
BY RaiseKeeps, KeepsMore, StoreKeeps DEF StoreRegister

LEMMA PopKeeps ==
  ASSUME NEW s, Sane(s), NEW args
  PROVE  Keeps(s, Pop(s, args), Key(args[1]))
<1> DEFINE n == Len(s.core.stack)
           k == [s.core EXCEPT !.stack = SubSeq(@, 1, n - 1)]
           v == s.core.stack[n]
<1>1. Pop(s, args) = IF n = 0 THEN write(s, args[1], Num(0)) ELSE write(Becomes(s, k), args[1], v)
  BY DEF Pop
<1> HIDE DEF n, k, v
<1>2. Keeps(s, Becomes(s, k), {}) /\ Sane(Becomes(s, k))
  BY BecomesKeeps DEF Keeps
<1>3. Keeps(s, write(Becomes(s, k), args[1], v), {} \cup Key(args[1]))
  BY <1>2, WriteKeeps, KeepsBoth
<1>4. {} \cup Key(args[1]) = Key(args[1])
  OBVIOUS
<1> QED
  BY <1>1, <1>3, <1>4, WriteKeeps

LEMMA JumpKeeps ==
  ASSUME NEW s, Sane(s), NEW op, NEW args, NEW size
  PROVE  Keeps(s, Jump(s, op, args, size), {})
BY RaiseKeeps, BecomesKeeps DEF Jump

LEMMA AtomicAddKeeps ==
  ASSUME NEW s, Sane(s), NEW args
  PROVE  Keeps(s, AtomicAdd(s, args), {args[1]} \cup Key(args[3]))
<1> DEFINE new == Plus(s.memory[args[1]], val(s, args[2]))
           t == Store(s, args[1], new)
<1>1. AtomicAdd(s, args) = write(t, args[3], new)
  BY DEF AtomicAdd
<1>2. Keeps(s, t, {args[1]}) /\ Sane(t)
  BY StoreKeeps DEF Keeps
<1> HIDE DEF t, new
<1> QED
  BY <1>1, <1>2, WriteKeeps, KeepsBoth

LEMMA AtomicCasKeeps ==
  ASSUME NEW s, Sane(s), NEW args
  PROVE  Keeps(s, AtomicCas(s, args), {args[1]} \cup Key(args[4]))
<1> DEFINE t == Store(s, args[1], val(s, args[3]))
<1>1. \/ AtomicCas(s, args) = write(t, args[4], Num(1))
      \/ AtomicCas(s, args) = write(s, args[4], Num(0))
  BY DEF AtomicCas
<1>2. Keeps(s, t, {args[1]}) /\ Sane(t)
  BY StoreKeeps DEF Keeps
<1> HIDE DEF t
<1>3. Keeps(s, write(t, args[4], Num(1)), {args[1]} \cup Key(args[4]))
  BY <1>2, WriteKeeps, KeepsBoth
<1>4. Keeps(s, write(s, args[4], Num(0)), {args[1]} \cup Key(args[4]))
  BY WriteKeeps, KeepsMore
<1> QED
  BY <1>1, <1>3, <1>4

LEMMA OutputKeeps ==
  ASSUME NEW s, Sane(s), NEW op, NEW args
  PROVE  Keeps(s, Output(s, op, args), {})
<1>1. PICK o : Output(s, op, args) = [s EXCEPT !.out = o]
  BY DEF Output
<1> QED
  BY <1>1, OutIs, RecParts DEF Keeps, Sane

LEMMA CoreOnlyKeeps ==
  ASSUME NEW s, Sane(s), NEW args
  PROVE  /\ Keeps(s, Push(s, args), {}) /\ Keeps(s, Cmp(s, args), {})
         /\ Keeps(s, Call(s, args), {}) /\ Keeps(s, Ret(s), {}) /\ Keeps(s, Halt(s), {})
BY RaiseKeeps, BecomesKeeps DEF Push, Cmp, Call, Ret, Halt

LEMMA ExecuteKeeps ==
  ASSUME NEW s, Sane(s), NEW op, NEW args, NEW size
  PROVE  Keeps(s, Execute(s, op, args, size), StoredBy(op, args))
<1> USE DEF Execute, StoredBy, IntOps, FloatOps, Conditions
<1>1. CASE op \in IntOps \cup FloatOps
  <2>1. StoredBy(op, args) = IF op = "SUM" THEN {} ELSE Key(args[3])
    BY <1>1
  <2>2. Execute(s, op, args, size) = Compute(s, op, args)
    BY <1>1
  <2> QED
    BY <2>1, <2>2, ComputeKeeps
<1>2. CASE op = "NOT"
  BY <1>2, ComplementKeeps
<1>3. CASE op \in {"LOAD", "LOADF", "FTOI", "ITOF"}
  BY <1>3, LoadRegisterKeeps
<1>4. CASE op \in {"STORE", "STOREF"}
  BY <1>4, StoreRegisterKeeps
<1>5. CASE op \in {"PUSH", "CMP", "CALL", "RET"}
  BY <1>5, CoreOnlyKeeps
<1>6. CASE op = "POP"
  BY <1>6, PopKeeps
<1>7. CASE op \in {"JMP"} \cup Conditions
  BY <1>7, JumpKeeps
<1>8. CASE op = "ATOMIC_ADD"
  BY <1>8, AtomicAddKeeps
<1>9. CASE op = "ATOMIC_CAS"
  BY <1>9, AtomicCasKeeps
<1>10. CASE op \in {"PRINT", "PRINTF", "PRINT_STR"}
  BY <1>10, OutputKeeps
<1>11. CASE /\ op \notin IntOps \cup FloatOps
            /\ op \notin {"NOT", "LOAD", "LOADF", "FTOI", "ITOF", "STORE", "STOREF", "PUSH", "POP",
                          "CMP", "JMP", "ATOMIC_ADD", "ATOMIC_CAS", "PRINT", "PRINTF",
                          "PRINT_STR", "CALL", "RET"} \cup Conditions
  BY <1>11, CoreOnlyKeeps
<1> QED
  BY <1>1, <1>2, <1>3, <1>4, <1>5, <1>6, <1>7, <1>8, <1>9, <1>10, <1>11

(* A step changes only words the program may store to.                      *)
LEMMA StepKeeps ==
  ASSUME NEW p, NEW s, Sane(s)
  PROVE  Keeps(s, CoreStep(p, s), Stores(p))
<1> DEFINE i == Fetched(p, s.core.PC)
           op == p[i][1]
           args == p[i][2]
           t == Execute(s, op, args, Len(p))
<1>1. CASE i \notin DOMAIN p \/ ~Takes(op, args)
  BY <1>1, RaiseKeeps, KeepsMore DEF CoreStep
<1>2. CASE i \in DOMAIN p /\ Takes(op, args)
  <2>1. StoredBy(op, args) \subseteq Stores(p)
    BY <1>2 DEF Stores
  <2>2. Keeps(s, t, StoredBy(op, args)) /\ Sane(t)
    BY ExecuteKeeps DEF Keeps
  <2>3. CoreStep(p, s) = Advance(t, op, Len(p))
    BY <1>2 DEF CoreStep
  <2> HIDE DEF op, args, t
  <2>4. Keeps(t, Advance(t, op, Len(p)), {})
    BY <2>2, BecomesKeeps DEF Advance, Keeps
  <2>5. Keeps(s, CoreStep(p, s), StoredBy(op, args) \cup {})
    BY <2>2, <2>3, <2>4, KeepsBoth
  <2> QED
    BY <2>1, <2>5, KeepsMore
<1> QED
  BY <1>1, <1>2

-----------------------------------------------------------------------------
(* The invariant: every core has its parts, the memory has the words the    *)
(* programs name, and the queue is a queue of the cores that run.           *)

TypeOK ==
  /\ job \in DOMAIN Jobs
  /\ cores = [c \in DOMAIN Programs |-> cores[c]]
  /\ printed = [c \in DOMAIN Programs |-> printed[c]]
  /\ IsMemory(memory)
  /\ \A c \in DOMAIN Programs : Named(c) \subseteq DOMAIN memory
  /\ run_queue \in Seq(DOMAIN Programs)

IInv == TypeOK /\ InTurn

LEMMA JobIs ==
  ASSUME job \in DOMAIN Jobs
  PROVE  /\ Len(Programs) \in Nat /\ DOMAIN Programs = 1 .. Len(Programs)
         /\ \A c \in DOMAIN Programs : IsProgram(Programs[c])
BY MultiCoreAssumption DEF Programs

LEMMA InitOK == Init => IInv
<1> SUFFICES ASSUME Init PROVE IInv
  OBVIOUS
<1> USE DEF Init
<1>1. job \in DOMAIN Jobs /\ DOMAIN Programs = 1 .. Len(Programs) /\ Len(Programs) \in Nat
  BY JobIs
<1>2. /\ run_queue \in Seq(DOMAIN Programs) /\ DOMAIN run_queue = DOMAIN Programs
      /\ \A i \in DOMAIN Programs : run_queue[i] = i
  BY <1>1
<1>3. IsMemory(memory) /\ \A c \in DOMAIN Programs : Named(c) \subseteq DOMAIN memory
  BY DEF IsMemory
<1>4. TypeOK
  BY <1>1, <1>2, <1>3 DEF TypeOK
<1>5. \A c \in DOMAIN cores : ~cores[c].halted
  BY DEF NewCore
<1>6. InTurn
  BY <1>2, <1>5 DEF InTurn
<1> QED
  BY <1>4, <1>6 DEF IInv

(* A core with what it works on.                                            *)
LEMMA StateIs ==
  ASSUME TypeOK, NEW c \in DOMAIN Programs
  PROVE  /\ Sane(State(c)) /\ State(c).memory = memory
         /\ State(c).core = cores[c] /\ State(c).out = printed[c]
<1>1. State(c) = Rec(cores[c], memory, printed[c])
  BY DEF State, Rec
<1> QED
  BY <1>1, RecParts DEF Sane, TypeOK

(* What one turn changes.                                                   *)
LEMMA TurnIs ==
  ASSUME TypeOK, Step
  PROVE  /\ run_queue # <<>> /\ ~timed_out /\ ~timed_out' /\ job' = job
         /\ \E c \in DOMAIN Programs : \E s :
              /\ c = Head(run_queue) /\ s = CoreStep(Programs[c], State(c))
              /\ Keeps(State(c), s, Stores(Programs[c]))
              /\ cores' = [cores EXCEPT ![c] = s.core]
              /\ printed' = [printed EXCEPT ![c] = s.out]
              /\ memory' = s.memory
              /\ run_queue' = IF s.core.halted THEN Tail(run_queue)
                                               ELSE Append(Tail(run_queue), c)
<1> DEFINE c == Head(run_queue)
           s == CoreStep(Programs[c], State(c))
<1>1. run_queue # <<>> /\ ~timed_out /\ ~timed_out' /\ job' = job
  BY DEF Step, Running, Turn
<1>2. c \in DOMAIN Programs
  BY <1>1 DEF TypeOK
<1>3. Keeps(State(c), s, Stores(Programs[c]))
  BY <1>2, StateIs, StepKeeps
<1>4. /\ cores' = [cores EXCEPT ![c] = s.core]
      /\ printed' = [printed EXCEPT ![c] = s.out]
      /\ memory' = s.memory
      /\ run_queue' = IF s.core.halted THEN Tail(run_queue) ELSE Append(Tail(run_queue), c)
  BY DEF Step, Turn, With, QueueAfter
<1> HIDE DEF c, s
<1> QED
  BY <1>1, <1>2, <1>3, <1>4 DEF c, s

(* The queue after a turn: its first member goes, and may come back last.   *)
LEMMA RestOfQueue ==
  ASSUME NEW S, NEW q \in Seq(S), q # <<>>
  PROVE  /\ Head(q) = q[1] /\ Head(q) \in S /\ Len(q) \in Nat /\ Len(q) >= 1
         /\ Tail(q) \in Seq(S) /\ Len(Tail(q)) = Len(q) - 1
         /\ \A i \in 1 .. Len(q) - 1 : Tail(q)[i] = q[i + 1]
         /\ \A c \in S : /\ Append(Tail(q), c) \in Seq(S)
                         /\ Len(Append(Tail(q), c)) = Len(q)
                         /\ Append(Tail(q), c)[Len(q)] = c
                         /\ \A i \in 1 .. Len(q) - 1 : Append(Tail(q), c)[i] = q[i + 1]
<1>1. /\ Head(q) = q[1] /\ Head(q) \in S /\ Len(q) \in Nat /\ Len(q) >= 1
      /\ Tail(q) \in Seq(S) /\ Len(Tail(q)) = Len(q) - 1
      /\ \A i \in 1 .. Len(q) - 1 : Tail(q)[i] = q[i + 1]
  BY HeadTailProperties, EmptySeq
<1>2. ASSUME NEW c \in S
      PROVE  /\ Append(Tail(q), c) \in Seq(S)
             /\ Len(Append(Tail(q), c)) = Len(q)
             /\ Append(Tail(q), c)[Len(q)] = c
             /\ \A i \in 1 .. Len(q) - 1 : Append(Tail(q), c)[i] = q[i + 1]
  BY <1>1, AppendProperties
<1> QED
  BY <1>1, <1>2

LEMMA StepOK == ASSUME IInv, Step PROVE IInv'
<1> DEFINE S == DOMAIN Programs
           q == run_queue
<1>1. TypeOK /\ InTurn /\ q # <<>> /\ ~timed_out /\ ~timed_out' /\ job' = job
  BY TurnIs DEF IInv
<1>a. PICK c \in S : \E s :
        /\ c = Head(q) /\ s = CoreStep(Programs[c], State(c))
        /\ Keeps(State(c), s, Stores(Programs[c]))
        /\ cores' = [cores EXCEPT ![c] = s.core]
        /\ printed' = [printed EXCEPT ![c] = s.out]
        /\ memory' = s.memory
        /\ q' = IF s.core.halted THEN Tail(q) ELSE Append(Tail(q), c)
  BY <1>1, TurnIs
<1>2. PICK s :
        /\ c = Head(q) /\ Keeps(State(c), s, Stores(Programs[c]))
        /\ cores' = [cores EXCEPT ![c] = s.core]
        /\ printed' = [printed EXCEPT ![c] = s.out]
        /\ memory' = s.memory
        /\ q' = IF s.core.halted THEN Tail(q) ELSE Append(Tail(q), c)
  BY <1>a
<1>3. Programs' = Programs /\ (\A d : Named(d)' = Named(d))
  BY <1>1 DEF Programs, Named
<1>4. IsMemory(memory') /\ DOMAIN memory' = DOMAIN memory
  BY <1>1, <1>2, StateIs DEF Keeps, Sane
<1>5. q \in Seq(S) /\ cores = [d \in S |-> cores[d]] /\ printed = [d \in S |-> printed[d]]
  BY <1>1 DEF TypeOK
<1>6. /\ q[1] = c /\ Len(q) \in Nat /\ Len(q) >= 1
      /\ Tail(q) \in Seq(S) /\ Len(Tail(q)) = Len(q) - 1
      /\ \A i \in 1 .. Len(q) - 1 : Tail(q)[i] = q[i + 1]
      /\ Append(Tail(q), c) \in Seq(S) /\ Len(Append(Tail(q), c)) = Len(q)
      /\ Append(Tail(q), c)[Len(q)] = c
      /\ \A i \in 1 .. Len(q) - 1 : Append(Tail(q), c)[i] = q[i + 1]
  BY <1>1, <1>2, <1>5, RestOfQueue
<1>7. TypeOK'
  BY <1>1, <1>2, <1>3, <1>4, <1>5, <1>6 DEF TypeOK
<1>8. /\ \A i, j \in 1 .. Len(q) : q[i] = q[j] => i = j
      /\ \A d \in S : ~cores[d].halted <=> \E i \in 1 .. Len(q) : q[i] = d
  BY <1>1, <1>5, <1>6 DEF InTurn
<1>9. cores'[c] = s.core /\ DOMAIN cores' = S /\ \A d \in S : d # c => cores'[d] = cores[d]
  BY <1>2, <1>5
<1> HIDE DEF S, q
<1>b. Len(q) \in Nat /\ Len(q) >= 1
  BY <1>6
<1>10. \A i \in 1 .. Len(q) - 1 : i + 1 \in 1 .. Len(q) /\ q[i + 1] # c
  BY <1>6, <1>8
<1>11. \A d \in S : d # c =>
          (~cores'[d].halted <=> \E i \in 1 .. Len(q) - 1 : q[i + 1] = d)
  <2> SUFFICES ASSUME NEW d \in S, d # c
               PROVE  ~cores[d].halted <=> \E i \in 1 .. Len(q) - 1 : q[i + 1] = d
    BY <1>9
  <2>1. ASSUME NEW i \in 1 .. Len(q), q[i] = d
        PROVE  i - 1 \in 1 .. Len(q) - 1 /\ q[(i - 1) + 1] = d
    BY <1>6, <2>1
  <2> QED
    BY <1>8, <1>10, <2>1
<1>12. CASE s.core.halted
  <2>1. DOMAIN q' = 1 .. Len(q) - 1 /\ \A i \in 1 .. Len(q) - 1 : q'[i] = q[i + 1]
    BY <1>2, <1>6, <1>12
  <2>2. \A i, j \in DOMAIN q' : q'[i] = q'[j] => i = j
    BY <1>6, <1>8, <1>10, <2>1
  <2>3. \A d \in S : ~cores'[d].halted <=> \E i \in DOMAIN q' : q'[i] = d
    <3> SUFFICES ASSUME NEW d \in S
                 PROVE  ~cores'[d].halted <=> \E i \in DOMAIN q' : q'[i] = d
      OBVIOUS
    <3>1. CASE d = c
      BY <3>1, <1>9, <1>10, <1>12, <2>1
    <3>2. CASE d # c
      <4>1. ~cores'[d].halted <=> \E i \in 1 .. Len(q) - 1 : q[i + 1] = d
        BY <3>2, <1>11, Zenon
      <4>2. (\E i \in DOMAIN q' : q'[i] = d) <=> \E i \in 1 .. Len(q) - 1 : q[i + 1] = d
        BY <2>1, Zenon
      <4> QED
        BY <4>1, <4>2, Zenon
    <3> QED
      BY <3>1, <3>2
  <2>4. InTurn'
    BY <1>9, <2>2, <2>3 DEF InTurn, q
  <2> QED
    BY <1>7, <2>4 DEF IInv
<1>13. CASE ~s.core.halted
  <2>1. /\ DOMAIN q' = 1 .. Len(q) /\ q'[Len(q)] = c
        /\ \A i \in 1 .. Len(q) - 1 : q'[i] = q[i + 1]
    BY <1>2, <1>6, <1>13
  <2>2. \A i \in 1 .. Len(q) : i = Len(q) \/ i \in 1 .. Len(q) - 1
    BY <1>b
  <2>3. ASSUME NEW i \in DOMAIN q', NEW j \in DOMAIN q', q'[i] = q'[j] PROVE i = j
    <3>1. CASE i \in 1 .. Len(q) - 1 /\ j \in 1 .. Len(q) - 1
      <4>1. q[i + 1] = q[j + 1] /\ i + 1 \in 1 .. Len(q) /\ j + 1 \in 1 .. Len(q)
        BY <2>1, <2>3, <3>1, <1>10
      <4>2. i + 1 = j + 1
        BY <4>1, <1>8, Zenon
      <4> QED
        BY <3>1, <4>2, <1>b
    <3>2. CASE i = Len(q) /\ j \in 1 .. Len(q) - 1
      BY <2>1, <2>3, <3>2, <1>10
    <3>3. CASE j = Len(q) /\ i \in 1 .. Len(q) - 1
      BY <2>1, <2>3, <3>3, <1>10
    <3> QED
      BY <2>1, <2>2, <3>1, <3>2, <3>3
  <2>4. \A d \in S : ~cores'[d].halted <=> \E i \in DOMAIN q' : q'[i] = d
    <3> SUFFICES ASSUME NEW d \in S
                 PROVE  ~cores'[d].halted <=> \E i \in DOMAIN q' : q'[i] = d
      OBVIOUS
    <3>1. CASE d = c
      BY <3>1, <1>6, <1>9, <1>13, <2>1
    <3>2. CASE d # c
      <4>1. ~cores'[d].halted <=> \E i \in 1 .. Len(q) - 1 : q[i + 1] = d
        BY <3>2, <1>11, Zenon
      <4>2. (\E i \in DOMAIN q' : q'[i] = d) <=> \E i \in 1 .. Len(q) - 1 : q[i + 1] = d
        <5>1. \A i \in 1 .. Len(q) - 1 : i \in 1 .. Len(q)
          BY <1>b
        <5> QED
          BY <3>2, <5>1, <2>1, <2>2, Zenon
      <4> QED
        BY <4>1, <4>2, Zenon
    <3> QED
      BY <3>1, <3>2
  <2>5. InTurn'
    BY <1>9, <2>3, <2>4 DEF InTurn, q
  <2> QED
    BY <1>7, <2>5 DEF IInv
<1> QED
  BY <1>12, <1>13

LEMMA StopOK == ASSUME IInv, Stop PROVE IInv'
<1>1. Programs' = Programs /\ (\A d : Named(d)' = Named(d))
  BY DEF Stop, Programs, Named
<1>2. TypeOK'
  BY <1>1 DEF IInv, TypeOK, Stop
<1>3. InTurn'
  BY DEF InTurn, Stop
<1> QED
  BY <1>2, <1>3 DEF IInv

LEMMA NextOK == IInv /\ [Next]_vars => IInv'
<1> SUFFICES ASSUME IInv, [Next]_vars PROVE IInv'
  OBVIOUS
<1>1. CASE Step
  BY <1>1, StepOK
<1>2. CASE Timeout \/ StepLimit
  BY <1>2, StopOK DEF Timeout, StepLimit
<1>3. CASE UNCHANGED vars
  BY <1>3 DEF vars, IInv, TypeOK, InTurn, Programs, Named
<1> QED
  BY <1>1, <1>2, <1>3 DEF Next

(* Every core that still runs waits in the queue for its turn, and waits    *)
(* there once: no instruction of any program, an error or the end of a      *)
(* core loses it, and none gives it two turns in a round                    *)
(* (emulator/emulator/multi_core.py:59-82).                                 *)
THEOREM EachInTurn == Spec => []InTurn
<1>1. IInv => InTurn
  BY DEF IInv
<1> QED
  BY <1>1, InitOK, NextOK, PTL DEF Spec

-----------------------------------------------------------------------------
(* A core among others and a core by itself.                                *)

(* What the program of c works on when nobody else is there.                *)
Own(c) == [x \in Named(c) |-> memory[x]]
OwnState(c) == [core |-> cores[c], memory |-> Own(c), out |-> printed[c]]

LEMMA OwnSame ==
  ASSUME TypeOK, NEW c \in DOMAIN Programs
  PROVE  Same(State(c), OwnState(c), Names(Programs[c])) /\ OwnState(c).memory = Own(c)
<1>1. OwnState(c) = Rec(cores[c], Own(c), printed[c])
  BY DEF OwnState, Rec
<1>2. IsMemory(Own(c)) /\ DOMAIN Own(c) = Named(c) /\ \A x \in Named(c) : Own(c)[x] = memory[x]
  BY DEF Own, IsMemory
<1>3. Named(c) \subseteq DOMAIN memory
  BY DEF TypeOK
<1> QED
  BY <1>1, <1>2, <1>3, StateIs, RecParts DEF Same, Sane, Named

(* The turn of a core is the step it would take by itself.                  *)
LEMMA TurnAlone ==
  ASSUME IInv, IInv', Step, NEW c \in DOMAIN Programs, c = Head(run_queue)
  PROVE  Lone(c)!Run
<1> DEFINE p == Programs[c]
           s == CoreStep(p, State(c))
           l == CoreStep(p, OwnState(c))
<1>1. TypeOK /\ InTurn /\ run_queue # <<>> /\ ~timed_out /\ job' = job
  BY TurnIs DEF IInv
<1>2. cores' = [cores EXCEPT ![c] = s.core] /\ printed' = [printed EXCEPT ![c] = s.out]
      /\ memory' = s.memory
  BY <1>1, TurnIs
<1>3. cores'[c] = s.core /\ printed'[c] = s.out
  BY <1>1, <1>2 DEF TypeOK
<1>4. Programs' = Programs /\ Named(c)' = Named(c)
  BY <1>1 DEF Programs, Named
<1>5. IsProgram(p)
  BY <1>1, JobIs DEF TypeOK
<1>6. Same(s, l, Named(c))
  BY <1>1, <1>5, OwnSame, StepSame DEF Named
<1>7. Keeps(OwnState(c), l, Stores(p))
  BY <1>1, OwnSame, StepKeeps DEF Same
<1>8. DOMAIN l.memory = Named(c) /\ IsMemory(l.memory)
  BY <1>1, <1>7, OwnSame DEF Keeps, Sane, Own
<1>9. l.memory = [x \in Named(c) |-> s.memory[x]]
  BY <1>6, <1>8 DEF Same, IsMemory
<1>10. ~cores[c].halted
  <2>1. 1 \in DOMAIN run_queue /\ run_queue[1] = c /\ DOMAIN cores = DOMAIN Programs
    BY <1>1, RestOfQueue DEF TypeOK
  <2> QED
    BY <1>1, <2>1 DEF InTurn
<1>11. cores'[c] = l.core /\ printed'[c] = l.out
  BY <1>3, <1>6 DEF Same
<1>12. [x \in Named(c) |-> memory[x]]' = l.memory
  BY <1>2, <1>4, <1>9
<1>13. Programs[c]' = Programs[c]
  BY <1>4
<1>14. l = CoreStep(Programs[c], [core |-> cores[c], memory |-> [x \in Named(c) |-> memory[x]],
                                  out |-> printed[c]])
  BY DEF OwnState, Own
<1> HIDE DEF l, s
<1> QED
  BY <1>10, <1>11, <1>12, <1>13, <1>14 DEF Lone!Run

(* The turn of another core leaves a core as it was, and the words it names *)
(* too, unless its program may store to one of them.                        *)
LEMMA TurnElsewhere ==
  ASSUME IInv, IInv', Step, NEW c \in DOMAIN Programs, c # Head(run_queue), Apart(c)
  PROVE  UNCHANGED Lone(c)!vars
<1>1. TypeOK /\ job' = job
  BY TurnIs DEF IInv
<1>a. PICK d \in DOMAIN Programs : \E s :
        /\ d = Head(run_queue)
        /\ Keeps(State(d), s, Stores(Programs[d]))
        /\ cores' = [cores EXCEPT ![d] = s.core]
        /\ printed' = [printed EXCEPT ![d] = s.out]
        /\ memory' = s.memory
  BY <1>1, TurnIs
<1>2. PICK s :
        /\ Keeps(State(d), s, Stores(Programs[d]))
        /\ cores' = [cores EXCEPT ![d] = s.core]
        /\ printed' = [printed EXCEPT ![d] = s.out]
        /\ memory' = s.memory
  BY <1>a
<1>3. cores'[c] = cores[c] /\ printed'[c] = printed[c]
  BY <1>1, <1>a, <1>2 DEF TypeOK
<1>4. Programs' = Programs /\ Named(c)' = Named(c)
  BY <1>1 DEF Programs, Named
<1>5. ASSUME NEW x \in Named(c) PROVE memory'[x] = memory[x]
  <2>1. x \in DOMAIN memory /\ x \notin Stores(Programs[d])
    BY <1>1, <1>a DEF TypeOK, Apart
  <2> QED
    BY <1>1, <1>2, <2>1, StateIs DEF Keeps
<1>6. [x \in Named(c) |-> memory[x]]' = [x \in Named(c) |-> memory[x]]
  BY <1>4, <1>5
<1>7. Programs[c]' = Programs[c]
  BY <1>4
<1> QED
  BY <1>3, <1>6, <1>7 DEF Lone!vars

LEMMA InitAlone == Init => \A c \in DOMAIN cores : Lone(c)!Init
<1> SUFFICES ASSUME Init, NEW c \in DOMAIN cores PROVE Lone(c)!Init
  OBVIOUS
<1>1. cores[c] = NewCore /\ printed[c] = <<>>
  BY DEF Init
<1>2. [x \in Named(c) |-> memory[x]] = [x \in Names(Programs[c]) |-> Num(0)]
  BY DEF Init, Named
<1> QED
  BY <1>1, <1>2 DEF Lone!Init

LEMMA NextAlone ==
  IInv /\ IInv' /\ [Next]_vars =>
    \A c \in DOMAIN cores : Apart(c) => [Lone(c)!Next]_(Lone(c)!vars)
<1> SUFFICES ASSUME IInv, IInv', [Next]_vars, NEW c \in DOMAIN cores, Apart(c)
             PROVE  [Lone(c)!Next]_(Lone(c)!vars)
  OBVIOUS
<1>1. c \in DOMAIN Programs
  BY DEF IInv, TypeOK
<1>2. CASE Step
  <2>1. CASE c = Head(run_queue)
    BY <1>1, <1>2, <2>1, TurnAlone DEF Lone!Next
  <2>2. CASE c # Head(run_queue)
    BY <1>1, <1>2, <2>2, TurnElsewhere
  <2> QED
    BY <2>1, <2>2
<1>3. CASE Timeout \/ StepLimit
  <2>1. Stop
    BY <1>3 DEF Timeout, StepLimit
  <2>2. Lone(c)!Stopped
    BY <2>1 DEF Stop, Lone!Stopped, Programs, Named
  <2> QED
    BY <2>2 DEF Lone!Next
<1>4. CASE UNCHANGED vars
  BY <1>4 DEF vars, Lone!vars, Programs, Named
<1> QED
  BY <1>2, <1>3, <1>4 DEF Next

(* A core whose words no other program stores to works and prints as it     *)
(* would alone, for any number of cores and any programs: the turns of      *)
(* multi_core.py:59-82, the stacks, the flags and the end of the others     *)
(* leave no trace in it.                                                    *)
THEOREM RunsAlone == Spec => RunsAsAlone
<1>1. Spec => []IInv
  BY InitOK, NextOK, PTL DEF Spec
<1>2. Spec => [][\A c \in DOMAIN cores : Apart(c) => [Lone(c)!Next]_(Lone(c)!vars)]_vars
  BY <1>1, NextAlone, PTL DEF Spec
<1>3. Spec => \A c \in DOMAIN cores : Lone(c)!Init
  BY InitAlone DEF Spec
<1> QED
  BY <1>2, <1>3 DEF RunsAsAlone
=============================================================================

----------------------------- MODULE MC_Emulator -----------------------------
(***************************************************************************)
(* The jobs TLC runs.  What a source must print comes from the interpreter *)
(* of the repository where the source is one the interpreter runs, and     *)
(* from the plain meaning of its expressions where it calls functions or   *)
(* computes with floats.                                                   *)
(***************************************************************************)
EXTENDS OmniumCPU, FlangInterpreter, Bitwise

Source == INSTANCE FlangText

\* The bit operations of Python on the operands the jobs use, which are not negative.
MC_Bits(op, a, b) == CASE op = "AND" -> a & b [] op = "OR" -> a | b [] op = "XOR" -> a ^^ b

N(n) == <<"num", n>>
D(h) == <<"float", h>>
V(x) == <<"var", <<x>>>>
B(l, op, r) == <<"binop", l, op, r>>
Set(x, e) == <<"assign", <<x>>, e, "">>
Let(type, x, e) == <<"assign", <<x>>, e, type>>
Show(e) == <<"print_expr", e>>
If(c, then, else) == <<"if", c, then, <<>>, else>>

\* The elements s[i] op t[j], and the like: every pair of two sequences.
Pairs(s, t) == [i \in 1 .. Len(s) * Len(t) |->
                  <<s[(i - 1) \div Len(t) + 1], t[((i - 1) % Len(t)) + 1]>>]
Apply(pairs, F(_)) == [i \in DOMAIN pairs |-> F(pairs[i])]

Texts(programs) == [i \in DOMAIN programs |-> Source!Text(programs[i])]

\* A task: sources to run and what each of them is to print.
Limited(sources, limit, expected) == [sources |-> sources, limit |-> limit, expected |-> expected]
Raw(sources, expected) == Limited(sources, NoLimit, expected)
Job(programs, expected) == Raw(Texts(programs), expected)
Prints(values) == [out |-> values, failed |-> FALSE]
Interpreted(source) == Job(<<source>>, <<run_code(source)>>)

----------------------------------------------------------------------------
(* Expressions of three operands over a = 7, b = -3 and d = 0.             *)

Atoms == <<V("a"), V("b"), V("d"), N(2)>>
Ops == <<"+", "-", "*", "/", "%">>
Simple == Apply(Pairs(<<V("a"), V("b"), N(2)>>, Pairs(Ops, Atoms)),
                LAMBDA p : B(p[1], p[2][1], p[2][2]))
Nested == Apply(Pairs(Pairs(<<V("b"), N(2)>>, <<"-", "/">>), Simple),
                LAMBDA p : B(p[1][1], p[1][2], p[2]))
ExpressionJobs ==
  Apply(Simple \o Nested,
        LAMBDA e : Interpreted(<<Set("a", N(7)), Set("b", B(N(0), "-", N(3))),
                                 Set("x", e), Show(V("x")), Show(B(V("x"), "-", V("a")))>>))

----------------------------------------------------------------------------
(* Loops: stop, continue and elif under conditions C and E.                *)

Conds == <<B(V("i"), "==", N(2)), B(V("i"), "<", V("s")), B(V("i"), ">=", N(2)),
           B(V("s"), "!=", N(3)), B(V("i"), "%", N(2)), B(V("s"), "<=", V("i")),
           B(V("i"), ">", N(1))>>
Inc == Set("i", B(V("i"), "+", N(1)))
Add == Set("s", B(V("s"), "+", V("i")))
Body(p) == <<<<"if", p[1], <<<<"continue">>>>,
               <<<<p[2], <<Show(V("s")), <<"stop">>>>>>>>, <<Add>>>>, Show(V("i"))>>
WhileJobs == Apply(Pairs(Conds, Conds),
  LAMBDA p : Interpreted(<<Set("i", N(0)), Set("s", N(0)),
     <<"while", B(V("i"), "<", N(4)), <<Inc>> \o Body(p)>>, Show(V("s"))>>))
ForJobs == Apply(Pairs(Conds, Conds),
  LAMBDA p : Interpreted(<<<<"for", Set("i", N(0)), B(V("i"), "<", N(3)), Inc,
     <<<<"for", Set("j", N(0)), B(V("j"), "<", N(2)), Set("j", B(V("j"), "+", N(1))),
         Body(p)>>>> \o Body(p)>>, Show(V("s"))>>))

----------------------------------------------------------------------------
(* Functions: recursion, several arguments, a loop left by return, a       *)
(* function inside a function, a float argument and a float local.         *)

Func(name, args, body) == <<"func", name, args, body>>
Return(e) == <<"return", e>>
Called(f, args) == <<"call", <<f>>, args>>
IntArg(x) == <<"int", <<x>>>>

Library ==
  <<Func(<<"fact">>, <<IntArg("n")>>,
      <<If(B(V("n"), "<=", N(1)), <<Return(N(1))>>, <<>>),
        Let("int", "m", B(V("n"), "-", N(1))), Let("int", "r", Called("fact", <<V("m")>>)),
        Return(B(V("n"), "*", V("r")))>>),
    Func(<<"sub">>, <<IntArg("p"), IntArg("q")>>, <<Return(B(V("p"), "-", V("q")))>>),
    Func(<<"root">>, <<IntArg("n")>>,
      <<Set("k", N(0)),
        <<"while", N(1), <<Set("k", B(V("k"), "+", N(1))),
          If(B(B(V("k"), "*", V("k")), ">", V("n")),
             <<Return(B(V("k"), "-", N(1)))>>, <<>>)>>>>,
        Return(N(0))>>),
    Func(<<"outer">>, <<IntArg("n")>>,
      <<Func(<<"outer", "inner">>, <<IntArg("n")>>, <<Return(B(V("n"), "+", N(1)))>>),
        Return(B(Called("inner", <<B(V("n"), "*", N(2))>>), "-", V("n")))>>),
    Func(<<"scale">>, <<<<"float", <<"x">>>>, IntArg("n")>>,
      <<Let("float", "y", B(V("x"), "*", V("n"))), Let("int", "w", <<"convert", V("y")>>),
        Return(V("w"))>>)>>

Fact == <<1, 2, 6>>
Root(n) == CHOOSE k \in 0 .. n : k * k <= n /\ (k + 1) * (k + 1) > n

\* What an expression is worth, in halves: k is 3.
RECURSIVE Worth2(_)
Worth2(e) ==
  CASE e[1] = "num"   -> 2 * e[2]
    [] e[1] = "float" -> e[2]
    [] e[1] = "var"   -> 6
    [] e[1] = "binop" -> (CASE e[3] = "+" -> Worth2(e[2]) + Worth2(e[4])
                            [] e[3] = "-" -> Worth2(e[2]) - Worth2(e[4])
                            [] e[3] = "*" -> (Worth2(e[2]) * Worth2(e[4])) \div 2)
    [] e[1] = "call"  ->
         LET a(i) == Worth2(e[3][i])
         IN  CASE e[2][1] = "fact"  -> 2 * Fact[a(1) \div 2]
               [] e[2][1] = "sub"   -> a(1) - a(2)
               [] e[2][1] = "root"  -> 2 * Root(a(1) \div 2)
               [] e[2][1] = "outer" -> a(1) + 2
               [] e[2][1] = "scale" -> 2 * Trunc((a(1) * a(2)) \div 2)

Calls == <<Called("fact", <<V("k")>>), Called("sub", <<N(5), V("k")>>),
           Called("root", <<N(5)>>), Called("outer", <<V("k")>>),
           Called("scale", <<D(3), V("k")>>)>>
Inside == Apply(Calls, LAMBDA c : Called("sub", <<c, N(1)>>))
            \o Apply(Calls, LAMBDA c : Called("sub", <<V("k"), c>>))
            \o Apply(Calls, LAMBDA c : Called("outer", <<c>>))
            \o Apply(Pairs(Calls, Calls), LAMBDA p : Called("sub", p))
Mixed == Apply(Pairs(Pairs(<<V("k")>> \o Calls, <<"-", "*">>), Calls),
               LAMBDA p : B(p[1][1], p[1][2], p[2]))
FloatMixed == Apply(Calls, LAMBDA c : B(D(5), "*", c))

\* k is read again after the call, and printed beside the result.
CallJob(e) ==
  Job(<<<<Let("int", "k", N(3)), Let("int", "v", e), Show(V("v")), Show(V("k"))>>
          \o Library>>,
      <<Prints(<<Num(Worth2(e) \div 2), Num(3)>>)>>)
FloatJob(e) ==
  Job(<<Library \o <<Let("int", "k", N(3)), Let("float", "x", e), Show(V("x")),
                     Show(B(V("x"), "-", D(1))), Show(V("k"))>>>>,
      <<Prints(<<Flt(Worth2(e)), Flt(Worth2(e) - 1), Num(3)>>)>>)
FunctionJobs == Apply(Inside \o Mixed, CallJob) \o Apply(FloatMixed, FloatJob)

----------------------------------------------------------------------------
(* Floats and conversions; sources the compiler refuses; several cores     *)
(* with variables of their own; programs without an end.                   *)

Floats ==
  <<Let("float", "j", D(5)), Let("float", "k", D(7)),
    Let("int", "a", <<"convert", V("j")>>), Let("int", "c", <<"convert", B(V("j"), "+", V("k"))>>),
    Let("int", "b", <<"convert", B(N(0), "-", V("j"))>>), Let("float", "x", <<"convert", V("a")>>),
    Let("int", "e", <<"convert", B(V("c"), "/", N(4))>>),
    Show(V("a")), Show(V("b")), Show(V("c")), Show(V("x")), Show(V("e")),
    Show(B(B(V("j"), "+", V("k")), "/", V("x"))), Show(B(V("x"), "**", N(2))),
    Show(B(N(1), "/", B(V("x"), "-", V("a"))))>>
FloatsJob == Job(<<Floats>>,
  <<[out |-> <<Num(2), Num(-2), Num(6), Flt(4), Num(1), Flt(6), Flt(8)>>, failed |-> TRUE]>>)

Deep == B(N(1), "-", B(N(2), "-", B(N(3), "-", B(N(4), "-", B(N(5), "-", N(6))))))
Refused ==
  <<<<If(B(D(1), "<", D(2)), <<>>, <<>>)>>, <<Let("int", "y", D(5))>>,
    <<Set("y", B(N(1), "<", N(2)))>>, <<<<"stop">>>>, <<Return(N(1))>>,
    <<Show(Called("nothing", <<>>))>>, <<Library[1], Show(Called("fact", <<>>))>>,
    <<Show(<<"convert", D(1)>>)>>, <<Show(B(D(1), "%", D(2)))>>, <<Show(Deep)>>,
    <<Library[4], Show(Called("inner", <<N(1)>>))>>>>
Accepted == <<Show(B(N(7), "//", N(2))), Show(<<"str", "end">>)>>
RefusedJob == Job(Append(Refused, Accepted), <<Prints(<<Num(3), <<"str", "end">>>>)>>)

Counting == <<Set("i", N(3)), <<"while", V("i"), <<Show(V("i")), Set("i", B(V("i"), "-", N(1)))>>>>>>
Calling == Library \o <<Show(Called("fact", <<N(3)>>)), Set("z", B(N(1), "%", V("u")))>>
Endless == <<Set("t", N(1)), <<"while", B(V("t"), ">", N(0)), <<Set("t", V("t"))>>>>>>
CountingOut == run_code(Counting)
CallingOut == [out |-> <<Num(6)>>, failed |-> TRUE]
SharedJobs ==
  <<Job(<<Counting, Calling>>, <<CountingOut, CallingOut>>),
    Job(<<Calling, Counting, Endless>>, <<CallingOut, CountingOut, Prints(<<>>)>>),
    Job(<<Endless>>, <<Prints(<<>>)>>),
    Limited(Texts(<<Calling, Counting>>), 30, <<CallingOut, CountingOut>>),
    Limited(Texts(<<Endless>>), 20, <<Prints(<<>>)>>)>>

----------------------------------------------------------------------------
(* The rest of the syntax: declarations without a value, print without     *)
(* parentheses, short and dotted functions, arguments without a comma,     *)
(* floats with a keyword or with blanks, signs, compound assignments,      *)
(* powers; and texts that are no program.                                  *)

w(x) == <<Source!Word(x)>>
s(x) == <<Source!Sign(x)>>
n(k) == <<Source!Digits(k)>>
PrintX == w("print") \o s("(") \o w("x") \o s(")") \o s(";")
IntX(code) == w("int") \o w("x") \o s("=") \o code \o s(";") \o PrintX
FloatX(code) == w("float") \o w("x") \o s("=") \o code \o s(";") \o PrintX
Short(f) == w("func") \o w(f) \o s("(") \o w("int") \o w("n") \o s(")") \o s("=")

RawJob(code, value) == Raw(<<code>>, <<Prints(<<value>>)>>)
RawJobs ==
  <<RawJob(w("float") \o w("x") \o s(";") \o PrintX, Flt(0)),
    RawJob(w("uint") \o w("x") \o s(";") \o PrintX, Num(0)),
    RawJob(w("int") \o w("x") \o s(";") \o w("print") \o w("x") \o s("+") \o n(1) \o s(";"), Num(1)),
    RawJob(IntX(s("-") \o s("-") \o n(3) \o s("+") \o s("+") \o n(2)), Num(5)),
    RawJob(IntX(n(2) \o s("**") \o n(3) \o s("**") \o n(2)), Num(512)),
    RawJob(IntX(s("(") \o n(2) \o s("**") \o n(3) \o s(")") \o s("**") \o n(2)), Num(64)),
    RawJob(FloatX(n(1) \o s(".") \o n(5)), Flt(3)),
    RawJob(FloatX(w("float") \o n(2)), Flt(4)),
    RawJob(FloatX(w("float") \o n(2) \o s(".") \o n(5)), Flt(5)),
    RawJob(FloatX(w("float")), Flt(0)),
    RawJob(<<<<"comment", "int x">>>> \o IntX(n(4) \o <<<<"comment", "+ 1">>>>), Num(4)),
    RawJob(Short("dbl") \o s("{") \o w("n") \o s("*") \o n(2) \o s("}") \o s(";")
             \o IntX(w("dbl") \o s("(") \o n(4) \o s(")")), Num(8)),
    RawJob(Source!Text(Library) \o IntX(w("outer") \o s(".") \o w("inner") \o s("(") \o n(3) \o s(")")), Num(4)),
    RawJob(Source!Text(Library) \o IntX(w("sub") \o s("(") \o n(7) \o n(2) \o s(")")), Num(5))>>
WrittenJobs ==
  <<Job(<<<<Let("float", "x", D(5)), Set("x", N(2)), Show(V("x"))>>>>, <<Prints(<<Flt(4)>>)>>),
    Job(<<<<Func(<<"whole">>, <<IntArg("n")>>,
              <<Func(<<"half">>, <<IntArg("n")>>, <<Return(B(V("n"), "/", N(2)))>>),
                Let("int", "k", Called("half", <<V("n")>>)), Return(B(V("k"), "+", N(1)))>>),
            Show(Called("whole", <<N(6)>>))>>>>, <<Prints(<<Num(4)>>)>>),
    Job(<<<<<<"for", Let("int", "i", N(0)), B(V("i"), "<", N(3)), Set("i", B(V("i"), "+", N(2))),
                <<Show(V("i"))>>>>, <<"declare", <<"k">>, "int">>,
              Set("i", B(V("i"), "*", B(N(2), "+", N(1)))), Set("i", B(V("i"), "%", N(7))),
              Set("i", B(V("i"), "/", N(2))), Set("i", B(V("i"), "-", N(1))),
              Show(V("i")), Show(V("k"))>>>>, <<Prints(<<Num(0), Num(2), Num(1), Num(0)>>)>>)>>

NotFlang ==
  <<w("int") \o w("x") \o s("=") \o n(1), IntX(n(5) \o s("@") \o n(3)), IntX(s(")")), IntX(w("f") \o s("(")),
    w("int") \o w("timer") \o s("=") \o n(3) \o s(";"), w("x") \o n(1) \o s(";"),
    w("print") \o s("(") \o n(1) \o s(")") \o s("+") \o n(2) \o s(";"), n(1) \o s(";"),
    w("if") \o s("(") \o n(1) \o s(")") \o s("{") \o PrintX, w("else") \o s("{") \o s("}"),
    w("func") \o w("f") \o s("(") \o w("n") \o s(")") \o s("{") \o s("}"),
    w("if") \o s("(") \o n(1) \o s(")") \o s("{") \o Short("f") \o n(1) \o s(";") \o s("}"),
    Source!Text(<<Let("int", "x", D(5))>>), Source!Text(<<Let("int", "x", N(1)), Set("x", D(5))>>)>>
NotFlangJob == Raw(Append(NotFlang, PrintX), <<Prints(<<Num(0)>>)>>)
SyntaxJobs == RawJobs \o WrittenJobs \o <<NotFlangJob>>

----------------------------------------------------------------------------
(* Assembly the compiler never makes.                                      *)

H(i) == <<"H", i>>
F(i) == <<"F", i>>
M(x) == <<"mem", <<x>>>>
L(x) == <<"label", x>>
Asm(code) == <<"asm", code>>
AsmJob(codes, outs) == Raw([i \in DOMAIN codes |-> Asm(codes[i])], outs)
Fails(values) == [out |-> values, failed |-> TRUE]

Adder == <<<<"ATOMIC_ADD", <<M("x"), Num(1), H(0)>>>>, <<"PRINT", <<H(0)>>>>,
           <<"ATOMIC_ADD", <<M("x"), Num(1), H(0)>>>>, <<"PRINTF", <<H(0)>>>>>>
\* A lock taken with compare-and-swap around a read and a write of x.
Locker == <<<<"LABEL", <<L("again")>>>>, <<"ATOMIC_CAS", <<M("l"), Num(0), Num(1), H(0)>>>>,
            <<"CMP", <<H(0), Num(0)>>>>, <<"JZ", <<L("again")>>>>,
            <<"LOAD", <<M("x"), H(1)>>>>, <<"SUM", <<H(1), Num(1), H(1)>>>>,
            <<"STORE", <<M("x"), H(1)>>>>, <<"ATOMIC_CAS", <<M("l"), Num(1), Num(0), H(0)>>>>,
            <<"PRINT", <<H(1)>>>>, <<"RET", <<>>>>>>
Odd == <<<<"LOAD", <<Num(5), H(0)>>>>, <<"NOT", <<H(0), H(1)>>>>, <<"PRINT", <<H(1)>>>>,
         <<"POP", <<H(0)>>>>, <<"PRINT", <<H(0)>>>>, <<"PRINT", <<M("x")>>>>,
         <<"CMP", <<H(0), H(1)>>>>, <<"JNZ", <<L("on")>>>>, <<"PRINT", <<H(1)>>>>,
         <<"LABEL", <<L("on")>>>>, <<"DIV", <<H(1), Num(4), M("x")>>>>, <<"PRINT", <<M("x")>>>>,
         <<"JZ", <<L("on")>>>>>>
Broken == <<<<<<"JMP", <<L("nowhere")>>>>>>, <<<<"CALL", <<L("nowhere")>>>>>>, <<>>,
            <<<<"SUM", <<Num(1), Num(2), F(0)>>>>>>, <<<<"LOAD", <<Num(1), F(0)>>>>>>,
            <<<<"LOADF", <<Num(1), H(0)>>>>>>, <<<<"STORE", <<M("x"), F(0)>>>>>>,
            <<<<"FTOI", <<H(0), H(0)>>>>>>, <<<<"ITOF", <<F(0), F(0)>>>>>>,
            <<<<"NOT", <<F(0), H(0)>>>>>>, <<<<"CMP", <<F(0), H(0)>>>>>>,
            <<<<"DIV", <<F(0), Num(1), H(0)>>>>>>, <<<<"AND", <<F(0), Num(1), H(0)>>>>>>,
            <<<<"JMP", <<Num(7)>>>>>>>>
AsmJobs ==
  <<AsmJob(<<Adder, Adder>>, <<Prints(<<Num(1), Num(3)>>), Prints(<<Num(2), Num(4)>>)>>),
    AsmJob(<<Locker, Locker>>, <<Prints(<<Num(1)>>), Prints(<<Num(2)>>)>>),
    AsmJob(<<Odd>>, <<Fails(<<Num(-6), Num(0), Num(0), Num(-2)>>)>>),
    AsmJob(Broken, [i \in DOMAIN Broken |-> Fails(<<>>)])>>

Made(tasks, compiled) ==
  Apply(tasks, LAMBDA t : Build(t.sources, t.limit, t.expected, compiled))
AllJobs == Made(ExpressionJobs \o WhileJobs \o ForJobs \o FunctionJobs
                  \o <<FloatsJob, RefusedJob>> \o SharedJobs \o SyntaxJobs, TRUE)
           \o Made(AsmJobs, FALSE)
MC_Jobs == LET all == AllJobs IN all

\* A float variable that is once given a whole number.
MC_TypeJobs ==
  LET source == <<Let("float", "x", D(3)), Set("x", N(2)), Set("x", D(5)), Show(V("x"))>>
  IN  <<Build(Texts(<<source>>), NoLimit, <<Prints(<<Flt(5)>>)>>, TRUE)>>
=============================================================================

------------------------------ MODULE FlangText ------------------------------
(***************************************************************************)
(* How a person writes a Flang program: from the statements that are meant *)
(* to the lexemes of a source, with the usual precedence of the operators, *)
(* no parenthesis that is not needed, and every short form the language    *)
(* has.  It is the reference the parser is checked against and shares      *)
(* nothing with it.                                                        *)
(***************************************************************************)
EXTENDS Integers, Sequences, SequencesExt

Word(x) == <<"word", x>>
Sign(x) == <<"sign", x>>
Digits(n) == <<"digits", n>>

Name(x) == FoldLeft(LAMBDA ts, part : ts \o <<Sign("."), Word(part)>>, <<Word(x[1])>>, Tail(x))
Listed(texts) ==
  FoldLeft(LAMBDA ts, t : IF ts = <<>> THEN t ELSE ts \o <<Sign(",")>> \o t, <<>>, texts)

\* Tighter operators are higher; there is no agreed place for // in Flang, so
\* it stands in parentheses, and so do its operands.
Tightness(op) == CASE op \in {"==", "!=", "<", "<=", ">", ">="} -> 1
                   [] op \in {"+", "-"} -> 2
                   [] op \in {"*", "/", "%"} -> 3
                   [] op = "**" -> 4
                   [] op = "//" -> 5
IsNegation(e) == e[1] = "binop" /\ e[2] = <<"num", 0>> /\ e[3] = "-" /\ e[4][1] # "binop"

RECURSIVE Expr(_, _)
Expr(e, around) ==
  CASE e[1] = "num"   -> <<Digits(e[2])>>
    [] e[1] = "float" -> <<<<"fraction", e[2]>>>>
    [] e[1] = "str"   -> <<<<"text", e[2]>>>>
    [] e[1] = "var"   -> Name(e[2])
    [] e[1] = "call"  -> Name(e[2]) \o <<Sign("(")>>
                           \o Listed([i \in DOMAIN e[3] |-> Expr(e[3][i], 0)]) \o <<Sign(")")>>
    [] e[1] = "convert" -> <<Word("convert"), Sign("(")>> \o Expr(e[2], 0) \o <<Sign(")")>>
    [] e[1] = "binop" ->
         LET t == Tightness(e[3])
             l == Expr(e[2], IF e[3] \in {"**", "//"} THEN t + 1 ELSE t)
             r == Expr(e[4], IF e[3] = "**" THEN t ELSE t + 1)
         IN  CASE IsNegation(e) -> <<Sign("-")>> \o Expr(e[4], 9)
               [] t < around    -> <<Sign("(")>> \o l \o <<Sign(e[3])>> \o r \o <<Sign(")")>>
               [] OTHER         -> l \o <<Sign(e[3])>> \o r

\* x++, x--, x op= e where they say the same, x = e elsewhere.
Change(x, e) ==
  LET own == e[1] = "binop" /\ e[2] = <<"var", x>>
  IN  <<Word(x[1])>> \o
      CASE own /\ e[3] = "+" /\ e[4] = <<"num", 1>> -> <<Sign("++")>>
        [] own /\ e[3] = "-" /\ e[4] = <<"num", 1>> -> <<Sign("--")>>
        [] own /\ e[3] \in {"+", "-", "*", "/", "%"} ->
             <<Sign(e[3] \o "=")>> \o Expr(e[4], 0)
        [] OTHER -> <<Sign("=")>> \o Expr(e, 0)
Typed(s) == IF s[4] = "" THEN <<>> ELSE <<Word(s[4])>>
Declared(s) == Typed(s) \o <<Word(s[2][1]), Sign("=")>> \o Expr(s[3], 0)

RECURSIVE Text(_)
Text(stmts) ==
  LET Block(b) == <<Sign("{")>> \o Text(b) \o <<Sign("}")>>
      When(word, c, b) == <<Word(word), Sign("(")>> \o Expr(c, 0) \o <<Sign(")")>> \o Block(b)
      Params(args) == <<Sign("(")>> \o Listed([i \in DOMAIN args |->
                        <<Word(args[i][1]), Word(args[i][2][1])>>]) \o <<Sign(")")>>
      Write(s) ==
        CASE s[1] = "assign" -> (IF s[4] = "" THEN Change(s[2], s[3]) ELSE Declared(s)) \o <<Sign(";")>>
          [] s[1] = "declare"    -> <<Word(s[3]), Word(s[2][1]), Sign(";")>>
          [] s[1] = "print_expr" -> <<Word("print"), Sign("(")>> \o Expr(s[2], 0) \o <<Sign(")"), Sign(";")>>
          [] s[1] = "if" -> FoldLeft(LAMBDA ts, b : ts \o When("elif", b[1], b[2]),
                                     When("if", s[2], s[3]), s[4])
                              \o (IF s[5] = <<>> THEN <<>> ELSE <<Word("else")>> \o Block(s[5]))
          [] s[1] = "while" -> When("while", s[2], s[3])
          [] s[1] = "for" -> <<Word("for"), Sign("(")>> \o Declared(s[2]) \o <<Sign(";")>> \o Expr(s[3], 0)
                               \o <<Sign(";")>> \o Change(s[4][2], s[4][3]) \o <<Sign(")")>> \o Block(s[5])
          [] s[1] = "return" -> <<Word("return")>> \o Expr(s[2], 0) \o <<Sign(";")>>
          [] s[1] \in {"stop", "continue"} -> <<Word(s[1]), Sign(";")>>
          [] s[1] = "func" ->
               <<Word("func"), Word(Last(s[2]))>> \o Params(s[3]) \o
               IF Len(s[4]) = 1 /\ s[4][1][1] = "return" /\ Len(s[2]) = 1
               THEN <<Sign("=")>> \o Expr(s[4][1][2], 0) \o <<Sign(";")>>
               ELSE Block(s[4])
  IN  FoldLeft(LAMBDA ts, s : ts \o Write(s), <<>>, stmts)
=============================================================================

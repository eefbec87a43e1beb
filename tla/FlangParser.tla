----------------------------- MODULE FlangParser -----------------------------
(***************************************************************************)
(* The Flang front end (emulator/flang/lexer.py, emulator/flang/parser.py):*)
(* from a source to the statements the compiler and the interpreter work   *)
(* on.                                                                     *)
(*                                                                         *)
(* A source is a sequence of lexemes <<class, value>>: words, digits,      *)
(* digits with a fraction (counted in halves), signs, quoted texts and     *)
(* comments.  A token is <<kind, value>>.  A name is the sequence of its   *)
(* dotted parts.  The parser is a record: the tokens, the position,        *)
(* _var_types, whether it has raised SyntaxError or TypeError, and in r    *)
(* what the last method returned.  Each operator takes a parser and gives  *)
(* the parser after the method of that name; one that has failed sees no   *)
(* more tokens.                                                            *)
(***************************************************************************)
EXTENDS Integers, Sequences, TLC

TYPES == {"int", "uint", "light_int", "light_uint", "big_int", "big_uint",
          "float", "ufloat", "big_float", "ubig_float", "light_float", "ulight_float",
          "str", "symbol", "cord2", "cord3", "state2", "state3", "color",
          "reg", "mem_block", "bitfield", "ptr", "handle", "mutex",
          "array", "list", "map", "event", "timer", "socket_handle"}

Signs == [INC |-> {"++"}, DEC |-> {"--"}, ASSIGN_OP |-> {"+=", "-=", "*=", "/=", "%="},
          OP |-> {"**", "//", "==", "!=", "<=", ">=", "+", "-", "*", "/", "%", "<", ">", "."},
          ASSIGN |-> {"="}, LPAREN |-> {"("}, RPAREN |-> {")"}, LBRACE |-> {"{"},
          RBRACE |-> {"}"}, SEMI |-> {";"}, COMMA |-> {","}]
MISMATCH(x) == x[1] = "sign" /\ \A kind \in DOMAIN Signs : x[2] \notin Signs[kind]

Kind(x) == CASE x[1] = "word"     -> IF x[2] \in TYPES THEN "TYPE" ELSE "ID"
             [] x[1] = "digits"   -> "NUMBER"
             [] x[1] = "fraction" -> "FLOAT"
             [] x[1] = "text"     -> "STRING"
             [] x[1] = "sign"     -> CHOOSE kind \in DOMAIN Signs : x[2] \in Signs[kind]

tokenize(code) ==
  LET kept == SelectSeq(code, LAMBDA x : x[1] # "comment")
  IN  [i \in DOMAIN kept |-> <<Kind(kept[i]), kept[i][2]>>]

\* A source with a character of no token makes no parser.
Parser(code) ==
  LET bad == \E i \in DOMAIN code : MISMATCH(code[i])
  IN  [tokens |-> IF bad THEN <<>> ELSE tokenize(code), pos |-> 1, types |-> <<>>,
       failed |-> bad, r |-> <<>>,
       declared |-> <<>>]    \* history: the type of each variable's declaration

peek(p) == IF p.pos <= Len(p.tokens) THEN p.tokens[p.pos] ELSE <<"end", "">>
Sees(p, kind) == peek(p)[1] = kind
SeesWord(p, kind, value) == Sees(p, kind) /\ peek(p)[2] = value

Give(p, x) == [p EXCEPT !.r = x]
Raised(p) == [p EXCEPT !.failed = TRUE, !.pos = Len(p.tokens) + 1, !.r = <<"none">>]
eat(p, kind) == IF Sees(p, kind) THEN [p EXCEPT !.pos = @ + 1] ELSE Raised(p)
eat_if(p, kind) == IF Sees(p, kind) THEN eat(p, kind) ELSE p

----------------------------------------------------------------------------
(* Types.                                                                  *)

RECURSIVE deduce_type(_, _)
deduce_type(types, e) ==
  CASE e[1] = "float" -> "float"
    [] e[1] = "binop" -> IF "float" \in {deduce_type(types, e[2]), deduce_type(types, e[4])}
                         THEN "float" ELSE "int"
    [] e[1] = "var" /\ e[2] \in DOMAIN types -> types[e[2]]
    [] OTHER -> "int"

Widened(e) == IF e[1] = "num" THEN <<"float", 2 * e[2]>> ELSE e

\* A value of this type is stored in a variable declared so: what is stored.
Misfit(declared, type) == declared = "int" /\ type = "float"
Stored(declared, type, e) == IF declared = "float" /\ type = "int" THEN Widened(e) ELSE e

----------------------------------------------------------------------------
(* Expressions.                                                            *)

Precedence(op) == CASE op = "**" -> 40
                    [] op \in {"*", "/", "%"} -> 30
                    [] op \in {"+", "-"} -> 20
                    [] op \in {"<", "<=", ">", ">="} -> 10
                    [] op \in {"==", "!="} -> 5
                    [] OTHER -> 0
NextMin(op) == IF op = "**" THEN Precedence(op) ELSE Precedence(op) + 1

\* NUMBER, or NUMBER . NUMBER with a fraction of 0 or 5.
number(p) ==
  LET dot == eat(p, "NUMBER")
      frac == eat(dot, "OP")
      half == IF peek(frac) = <<"NUMBER", 5>> THEN 1 ELSE 0
  IN  IF SeesWord(dot, "OP", ".")
      THEN Give(eat(frac, "NUMBER"), <<"float", 2 * peek(p)[2] + half>>)
      ELSE Give(dot, <<"num", peek(p)[2]>>)

RECURSIVE dotted(_, _)
dotted(p, name) ==
  LET part == eat(p, "OP")
  IN  IF SeesWord(p, "OP", ".") THEN dotted(eat(part, "ID"), Append(name, peek(part)[2]))
      ELSE Give(p, name)

RECURSIVE parse_binop(_, _), climb(_, _), unary(_), atom(_), call_args(_, _)
expr(p) == parse_binop(p, 0)
parse_binop(p, min_prec) == climb(unary(p), min_prec)

\* The loop of parse_binop: r is the left operand.
climb(p, min_prec) ==
  LET op == peek(p)[2]
      right == parse_binop(eat(p, "OP"), NextMin(op))
  IN  IF Sees(p, "OP") /\ Precedence(op) >= min_prec
      THEN climb(Give(right, <<"binop", p.r, op, right.r>>), min_prec)
      ELSE p

unary(p) ==
  LET node == unary(eat(p, "OP"))
  IN  CASE SeesWord(p, "OP", "-") -> Give(node, <<"binop", <<"num", 0>>, "-", node.r>>)
        [] SeesWord(p, "OP", "+") -> node
        [] OTHER -> atom(p)

call_args(p, args) ==
  LET e == expr(p)
  IN  IF p.failed \/ Sees(p, "RPAREN") THEN Give(p, args)
      ELSE call_args(eat_if(e, "COMMA"), Append(args, e.r))

atom(p) ==
  LET after == [p EXCEPT !.pos = @ + 1]
      inner == expr(eat(after, "LPAREN"))
      name == dotted(after, <<peek(p)[2]>>)
      args == call_args(eat(name, "LPAREN"), <<>>)
  IN  CASE SeesWord(p, "ID", "convert") -> Give(eat(inner, "RPAREN"), <<"convert", inner.r>>)
        [] SeesWord(p, "TYPE", "float") ->
             IF Sees(after, "NUMBER") THEN number(after) ELSE Give(after, <<"float", 0>>)
        [] Sees(p, "NUMBER") -> number(p)
        [] Sees(p, "FLOAT")  -> Give(after, <<"float", peek(p)[2]>>)
        [] Sees(p, "STRING") -> Give(after, <<"str", peek(p)[2]>>)
        [] Sees(p, "ID") -> IF Sees(name, "LPAREN")
                            THEN Give(eat(args, "RPAREN"), <<"call", name.r, args.r>>)
                            ELSE Give(name, <<"var", name.r>>)
        [] Sees(p, "LPAREN") -> LET e == expr(after) IN eat(e, "RPAREN")
        [] OTHER -> Raised(p)

----------------------------------------------------------------------------
(* Declarations and assignments.                                           *)

\* The variable has its value and its type, unless that failed.
Assigned(p, name, value, type) ==
  IF p.failed THEN p
  ELSE [p EXCEPT !.types = (name :> type) @@ @, !.r = <<"assign", name, value, type>>]

\* "float x;" and the like store the number 0.0, numf here.
decl(p) ==
  LET type == peek(p)[2]
      word == eat(p, "TYPE")
      name == <<peek(word)[2]>>
      rest == eat(word, "ID")
      e == expr(eat(rest, "ASSIGN"))
      found == deduce_type(p.types, e.r)
      done == IF Sees(rest, "SEMI")
              THEN Assigned(eat(rest, "SEMI"), name,
                            <<IF type = "int" THEN "num" ELSE "numf", 0>>, type)
              ELSE Assigned(IF Misfit(type, found) THEN Raised(e) ELSE eat(e, "SEMI"),
                            name, Stored(type, found, e.r), type)
  IN  IF done.failed THEN done ELSE [done EXCEPT !.declared = (name :> type) @@ @]

\* What is assigned: the value itself, or that of op=, ++ or --.
op_map == [op \in {"+=", "-=", "*=", "/=", "%="} |->
             CASE op = "+=" -> "+" [] op = "-=" -> "-" [] op = "*=" -> "*"
               [] op = "/=" -> "/" [] op = "%=" -> "%"]
new_value(p, name) ==
  LET after == [p EXCEPT !.pos = @ + 1]
      e == expr(after)
      self(op, x) == <<"binop", <<"var", name>>, op, x>>
  IN  CASE Sees(p, "ASSIGN")    -> e
        [] Sees(p, "ASSIGN_OP") -> Give(e, self(op_map[peek(p)[2]], e.r))
        [] Sees(p, "INC")       -> Give(after, self("+", <<"num", 1>>))
        [] Sees(p, "DEC")       -> Give(after, self("-", <<"num", 1>>))
        [] OTHER -> Raised(p)

assign_stmt(p) ==
  LET name == <<peek(p)[2]>>
      rest == eat(p, "ID")
      v == new_value(rest, name)
      type == deduce_type(p.types, v.r)
      declared == IF Sees(rest, "ASSIGN") /\ name \in DOMAIN p.types THEN p.types[name] ELSE ""
  IN  Assigned(IF Misfit(declared, type) THEN Raised(v) ELSE eat(v, "SEMI"),
               name, Stored(declared, type, v.r), type)

\* In the head of a for: neither a type nor a check.
assign_for(p) ==
  LET word == eat_if(p, "TYPE")
      v == new_value(eat(word, "ID"), <<peek(word)[2]>>)
  IN  Give(v, <<"assign", <<peek(word)[2]>>, v.r, "">>)

----------------------------------------------------------------------------
(* Statements.  parent is the name of the function around, <<>> for None.  *)

print_stmt(p) ==
  LET word == eat(p, "ID")
      e == expr(eat_if(word, "LPAREN"))
  IN  Give(eat(IF Sees(word, "LPAREN") THEN eat(e, "RPAREN") ELSE e, "SEMI"),
           <<"print_expr", e.r>>)

return_stmt(p) ==
  LET e == expr(eat(p, "ID")) IN Give(eat(e, "SEMI"), <<"return", e.r>>)

RECURSIVE parameters(_, _)
parameters(p, args) ==
  LET word == eat(p, "TYPE")
  IN  IF p.failed \/ Sees(p, "RPAREN") THEN Give(p, args)
      ELSE parameters(eat_if(eat(word, "ID"), "COMMA"),
                      Append(args, <<peek(p)[2], <<peek(word)[2]>>>>))

RECURSIVE statement(_, _), statements(_, _, _, _), elifs(_, _)
statements(p, parent, end, done) ==
  LET s == statement(p, parent)
  IN  CASE p.failed      -> p
        [] Sees(p, end) -> Give([p EXCEPT !.pos = @ + 1], done)
        [] OTHER        -> statements(s, parent, end, Append(done, s.r))

block(p, parent) == statements(eat(p, "LBRACE"), parent, "RBRACE", <<>>)

\* if, elif or while: the condition and its block.
guarded(p) ==
  LET cond == expr(eat(eat(p, "ID"), "LPAREN"))
      body == block(eat(cond, "RPAREN"), <<>>)
  IN  Give(body, <<cond.r, body.r>>)

elifs(p, done) ==
  LET b == guarded(p)
  IN  IF SeesWord(p, "ID", "elif") THEN elifs(b, Append(done, b.r)) ELSE Give(p, done)

if_stmt(p) ==
  LET first == guarded(p)
      more == elifs(first, <<>>)
      last == IF SeesWord(more, "ID", "else") THEN block(eat(more, "ID"), <<>>)
              ELSE Give(more, <<>>)
  IN  Give(last, <<"if", first.r[1], first.r[2], more.r, last.r>>)

while_stmt(p) == LET w == guarded(p) IN Give(w, <<"while", w.r[1], w.r[2]>>)

for_stmt(p) ==
  LET init == assign_for(eat(eat(p, "ID"), "LPAREN"))
      cond == expr(eat(init, "SEMI"))
      step == assign_for(eat(cond, "SEMI"))
      body == block(eat(step, "RPAREN"), <<>>)
  IN  Give(body, <<"for", init.r, cond.r, step.r, body.r>>)

\* A short function keeps its bare name, wherever it stands.
func_decl(p, parent) ==
  LET word == eat(p, "ID")
      name == <<peek(word)[2]>>
      args == parameters(eat(eat(word, "ID"), "LPAREN"), <<>>)
      head == eat(args, "RPAREN")
      short == eat(head, "ASSIGN")
      e == expr(eat_if(short, "LBRACE"))
      body == block(head, parent \o name)
  IN  IF Sees(head, "ASSIGN")
      THEN Give(eat(IF Sees(short, "LBRACE") THEN eat(e, "RBRACE") ELSE e, "SEMI"),
                <<"func", name, args.r, <<<<"return", e.r>>>>>>)
      ELSE Give(body, <<"func", parent \o name, args.r, body.r>>)

statement(p, parent) ==
  LET word == peek(p)[2]
  IN  CASE Sees(p, "TYPE")   -> decl(p)
        [] ~Sees(p, "ID")    -> Raised(p)
        [] word = "print"    -> print_stmt(p)
        [] word = "if"       -> if_stmt(p)
        [] word = "while"    -> while_stmt(p)
        [] word = "for"      -> for_stmt(p)
        [] word = "func"     -> func_decl(p, parent)
        [] word = "return"   -> return_stmt(p)
        [] word \in {"stop", "continue"} -> Give(eat(eat(p, "ID"), "SEMI"), <<word>>)
        [] OTHER             -> assign_stmt(p)

parse(code) == statements(Parser(code), <<>>, "end", <<>>)
=============================================================================

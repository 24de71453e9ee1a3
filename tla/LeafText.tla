------------------------------ MODULE LeafText ------------------------------
(***************************************************************************)
(* Programs as their author means them: the syntax of the language as      *)
(* trees, how a tree is written down, and the instructions it stands for.  *)
(* This is what the compiler (module Compiler) is measured against.           *)
(*                                                                         *)
(* An expression is [op, name, args].  It is written with the fewest       *)
(* brackets under the levels of the grammar, so that reading it back takes *)
(* every precedence and associativity right.                               *)
(***************************************************************************)
EXTENDS Parser

Node(op, name, args) == [op |-> op, name |-> name, args |-> args]

Sign ==
    [ADD |-> <<"+">>, SUB |-> <<"-">>, MUL |-> <<"*">>, DIV |-> <<"/">>, MOD |-> <<"%">>, POW |-> <<"^">>,
     LESS |-> <<"<">>, MORE |-> <<">">>, LESS_EQ |-> <<"<", "=">>, MORE_EQ |-> <<">", "=">>,
     CMP |-> <<"=", "=">>, CMP_NOT |-> <<"!", "=">>, SET |-> <<"=">>, AND |-> <<"&", "&">>,
     OR |-> <<"|", "|">>, UNARY_MINUS |-> <<"-">>, INCR |-> <<"+", "+">>, DECR |-> <<"-", "-">>,
     INVERT |-> <<"!">>]
Prefixed == {"UNARY_MINUS", "INCR", "DECR", "INVERT"}

\* How tightly an expression binds, from a disjunction to an operand.
Level(e) ==
    CASE e.op \in {"SET_ELEM", "ADD_ELEM"} -> 0
      [] e.op = "OR" -> 1
      [] e.op = "AND" -> 2
      [] e.op \in {"CMP", "CMP_NOT", "SET"} -> 3
      [] e.op \in {"LESS", "MORE", "LESS_EQ", "MORE_EQ"} -> 4
      [] e.op \in {"ADD", "SUB", "UNARY_MINUS", "INCR", "DECR"} -> 5
      [] e.op \in {"MUL", "DIV", "MOD"} -> 6
      [] e.op = "POW" -> 7
      [] e.op = "INVERT" -> 8
      [] OTHER -> 9

\* The levels an operator's operands must have to stand without brackets.
\* Sums, products, && and || associate to the left, powers to the right;
\* comparisons and equalities do not associate.
LeftLevel(e) ==
    CASE Level(e) \in {1, 2, 5, 6} -> Level(e) [] OTHER -> Level(e) + 1
RightLevel(e) == IF e.op = "POW" THEN 7 ELSE Level(e) + 1

RECURSIVE Text(_), Listed(_)
Within(e, level) == IF Level(e) >= level THEN Text(e) ELSE <<"(">> \o Text(e) \o <<")">>
Listed(args) ==
    IF args = <<>> THEN <<>>
    ELSE Within(Head(args), 5) \o (IF Len(args) = 1 THEN <<>> ELSE <<",", " ">>) \o Listed(Tail(args))

Text(e) ==
    CASE e.op \in {"AS_VAR", "AS_DOUBLE"} -> e.name
      [] e.op = "AS_STRING" -> <<Quote>> \o e.name \o <<Quote>>
      [] e.op = "AS_VOID" -> <<"_">>
      [] e.op = "MICROTIME" -> <<"microtime", "(", ")">>
      [] e.op = "PRINT" -> <<"print", "(">> \o Text(e.args[1]) \o <<")">>
      [] e.op = "CALL" -> e.name \o <<"(">> \o Listed(e.args) \o <<")">>
      [] e.op = "XCALL" -> e.name[1] \o <<":", ":">> \o e.name[2] \o <<"(">> \o Listed(e.args) \o <<")">>
      [] e.op = "ACCESS" -> e.name \o <<"[">> \o Within(e.args[1], 5) \o <<"]">>
      [] e.op = "SET_ELEM" ->
             e.name \o <<"[">> \o Within(e.args[1], 5) \o <<"]", " ", "=", " ">> \o Within(e.args[2], 5)
      [] e.op = "ADD_ELEM" -> e.name \o <<"[", "]", " ", "=", " ">> \o Within(e.args[1], 5)
      [] e.op \in Prefixed -> Sign[e.op] \o Within(e.args[1], IF e.op = "INVERT" THEN 9 ELSE 6)
      [] OTHER -> Within(e.args[1], LeftLevel(e)) \o <<" ">> \o Sign[e.op] \o <<" ">>
                  \o Within(e.args[2], RightLevel(e))

\* Operands first, then the operator.
RECURSIVE Code(_)
Code(e) ==
    FlattenSeq([i \in DOMAIN e.args |-> Code(e.args[i])])
    \o (CASE e.op = "CALL" /\ e.args = <<>> -> <<Instr("IDLE", <<>>, 0)>>
          [] e.op = "CALL" -> <<Instr("REVERSE_STACK", <<>>, Len(e.args))>>
          [] OTHER -> <<>>)
    \o <<Instr(e.op, e.name, IF e.op = "XCALL" THEN Len(e.args) ELSE 0)>>

-----------------------------------------------------------------------------
(* A piece of a program is [text, code, uses]: how it is written, what it   *)
(* is compiled to and the cocoons it uses.                                  *)

Piece(text, code, uses) == [text |-> text, code |-> code, uses |-> uses]
I(op) == <<Instr(op, <<>>, 0)>>
N(op, name) == <<Instr(op, name, 0)>>
Indent == <<" ", " ">>

Lines(pieces) ==
    Piece(FlattenSeq([i \in DOMAIN pieces |-> pieces[i].text]),
          FlattenSeq([i \in DOMAIN pieces |-> pieces[i].code]),
          UNION {pieces[i].uses : i \in DOMAIN pieces})

Statement(e) == Piece(Text(e) \o <<"\n">>, Code(e), {})
Blank == Piece(<<"\n">>, <<>>, {})
Comment == Piece(Indent \o <<"#", Quote, "x", "#", "#", "\n">>, <<>>, {})
LongComment == Piece(<<"#", "#", "x", "\n", Quote, "#", "#", "\n">>, <<>>, {})
Noted(p) == [p EXCEPT !.text = Front(@) \o <<" ", "#", "x", "\n">>]

\* The words use and include are two cells each, so that one can be left out.
Use(name) == Piece(<<"u", "s", " ", name, "\n">>, <<>>, {name})
Include(name, file) == Piece(<<"i", "n", " ", Quote, name, Quote, "\n">>, file.code, file.uses)

Braces(body) == Piece(<<"{", "\n">> \o Indent \o body.text \o <<"}", "\n">>,
                      I("BLOCK_START") \o body.code \o I("BLOCK_END"), body.uses)
Guarded(word, op, cond, body) ==
    Piece(<<word, " ", "(">> \o Text(cond) \o <<")", "\n">> \o Braces(body).text,
          I(op) \o Code(cond) \o I("CEIT") \o Braces(body).code, body.uses)
If(cond, body) == Guarded("if", "IF", cond, body)
While(cond, body) == Guarded("while", "WHILE", cond, body)
Else(body) == Piece(<<"else", "\n">> \o Braces(body).text, I("ELSE") \o Braces(body).code, body.uses)
Return(e) == Piece(<<"return", " ">> \o Text(e) \o <<"\n">>, I("CLEAR_STACK") \o Code(e) \o I("RETURN"), {})
ReturnNothing == Piece(<<"return", "\n">>, I("CLEAR_STACK") \o I("RETURN"), {})

\* Variables and parameters: declared, or with a value.
Plain(name) == [text |-> <<name>>, init |-> <<>>, name |-> <<name>>]
With(name, e) == [text |-> <<name, " ", "=", " ">> \o Text(e), init |-> Code(e), name |-> <<name>>]
Joined(ds) == FlattenSeq([i \in DOMAIN ds |-> IF i = 1 THEN ds[i].text ELSE <<",", " ">> \o ds[i].text])
Declared(ds, op, opx) ==
    FlattenSeq([i \in DOMAIN ds |-> ds[i].init \o N(IF ds[i].init = <<>> THEN op ELSE opx, ds[i].name)])
Var(ds) == Piece(<<"var", " ">> \o Joined(ds) \o <<"\n">>, Declared(ds, "VAR", "VARX"), {})
VarJson(name, json) ==
    Piece(<<"var", " ", name, " ", "=", " ">> \o json \o <<"\n">>,
          N("FROM_JSON", json) \o N("VARX", <<name>>), {})
Block(name, params, body) ==
    Piece(<<"block", " ", name>>
            \o (IF params = <<>> THEN <<>> ELSE <<"(">> \o Joined(params) \o <<")">>)
            \o <<"\n">> \o Braces(body).text,
          N("BLOCK_DEF", <<name>>) \o I("BLOCK_START")
            \o Declared(params, "PARAM", "PARAMX") \o body.code \o I("BLOCK_END"),
          body.uses)
=============================================================================

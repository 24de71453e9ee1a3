----------------------------- MODULE MCCompiler -----------------------------
(***************************************************************************)
(* Programs for Compiler.                                                  *)
(***************************************************************************)
EXTENDS Compiler

Cells ==
    <<"x", "y", "f", "g", "0", "1", "2", "\n", "\t", " ", ".", "_", "-", "{", "[", "]", "}", ",", ":", "web", "render",
      "json", "k", "#", "F", "G", ")", "{{", "(", "=", Quote, "block", "var", "if", "return">>

X == Node("AS_VAR", <<"x">>, <<>>)
Y == Node("AS_VAR", <<"y">>, <<>>)
One == Node("AS_DOUBLE", <<"1">>, <<>>)
Str(cells) == Node("AS_STRING", cells, <<>>)
Both(op, e1, e2) == Node(op, <<>>, <<e1, e2>>)
Only(op, e) == Node(op, <<>>, <<e>>)
CallOf(name, args) == Node("CALL", name, args)
Assign(e) == Both("SET", X, e)

\* Every operator over operands, and every operator over each of those.
Binary == {"OR", "AND", "CMP", "CMP_NOT", "LESS", "MORE_EQ", "ADD", "SUB", "MUL", "MOD", "POW"}
Simple == {Both(op, X, One) : op \in Binary} \cup {Only(op, X) : op \in Prefixed}
Operands == {X, One} \cup Simple
Nested == {Both(op, e, X) : op \in Binary, e \in Operands}
          \cup {Both(op, One, e) : op \in Binary, e \in Operands}
          \cup {Only(op, e) : op \in {"UNARY_MINUS", "INVERT"}, e \in Operands}

None == [name \in {} |-> Blank]
Program(pieces, files, fate) == [main |-> Lines(pieces), files |-> files, fate |-> fate]
Alone(p) == Program(<<p>>, None, "compiles")

Expressions == {Alone(Statement(Assign(e))) : e \in {x \in Operands : Level(x) > 3}}
               \cup {Alone(Statement(e)) : e \in Nested}

Element == Node("ACCESS", <<"x">>, <<Both("ADD", X, One)>>)
Calls ==
    {Only("PRINT", Both("OR", X, Str(<<"#", ",", ")">>))), Only("PRINT", Node("MICROTIME", <<>>, <<>>)),
     CallOf(<<"f">>, <<>>), CallOf(<<"f", ".", "g">>, <<Only("UNARY_MINUS", X), Node("AS_VOID", <<>>, <<>>), Assign(One)>>),
     Node("XCALL", <<<<"web">>, <<"render">>>>, <<Str(<<"x">>), CallOf(<<"f">>, <<X>>)>>),
     Node("XCALL", <<<<"web">>, <<"render">>>>, <<>>),
     Both("LESS", One, Element), Node("SET_ELEM", <<"x">>, <<One, Both("SUB", Element, One)>>),
     Node("ADD_ELEM", <<"x">>, <<Both("MUL", X, Y)>>)}

\* Escapes: what is written, and the literal it stands for.
Escaped == Piece(<<"print", "(", Quote, Backslash, "n", "x", Backslash, "t", "#", Quote, ")", "\n">>,
                 N("AS_STRING", <<"\n", "x", "\t", "#">>) \o I("PRINT"), {})

\* A sign behind an operator is a decrement or an increment (expression.c:480).
SignedOperand(sign, prefix) ==
    Piece(<<"x", " ", "*", " ", sign, "y", "\n">>, Code(Both("MUL", X, Only(prefix, Y))), {})
SignedTerm == Piece(<<"1", " ", "-", " ", "-", "x", "\n">>, Code(Both("SUB", One, Only("DECR", X))), {})

Step == Statement(Assign(Both("ADD", X, One)))
Json == <<"{", "k", ":", "1", "}">>
Statements ==
    {Var(<<Plain("x")>>), Var(<<With("x", One), Plain("y"), With("f", CallOf(<<"g">>, <<X, Y>>))>>),
     VarJson("x", Json), VarJson("y", <<"[", "1", ",", "2", "]">>),
     If(Both("AND", X, CallOf(<<"f">>, <<Y>>)), Lines(<<Step, Comment>>)),
     Lines(<<If(X, Step), Step, Else(ReturnNothing)>>),
     While(Both("LESS", X, One), Lines(<<If(Y, Return(X)), Step>>)),
     Block("f", <<>>, Lines(<<Block("g", <<Plain("x")>>, Return(X)), Step>>)),
     Block("f", <<Plain("x"), With("y", Both("ADD", One, One))>>, Return(Both("MUL", X, Y))),
     Block("f", <<With("x", One), Plain("y")>>, Lines(<<Var(<<Plain("g")>>), ReturnNothing>>)),
     Lines(<<LongComment, Blank, Comment, Step, Blank, Escaped>>),
     Lines(<<Use("web"), Use("json"), Step>>), Escaped,
     Lines(<<SignedOperand("-", "DECR"), SignedOperand("+", "INCR"), SignedTerm>>)}

\* A file that is included need not end with a newline.  A use in its first lines
\* is not seen by the search.
Lib == [Lines(<<Comment, Block("f", <<>>, Step), Use("json"), Step>>) EXCEPT !.text = Front(@)]
UseFirst == Lines(<<Use("json"), Step>>)
Files == [name \in {"F"} |-> Lib]
Including == {Program(<<Use("web"), Include("F", Lib), Step>>, Files, "compiles"),
              Program(<<Step, Blank, Include("F", Lib)>>, Files, "compiles"),
              Program(<<Include("F", UseFirst), Step>>, [name \in {"F"} |-> UseFirst], "any")}

Long == <<"x", "x", "x", "x", "x", "x">>
Cut(p) == [p EXCEPT !.text = Front(@)]
Refused ==
    {Program(<<p>>, None, "fails") :
        p \in {Piece(<<"var", " ", "if", "\n">>, <<>>, {}), Piece(<<"var", " ", "x", " ", "y", "\n">>, <<>>, {}),
               Piece(Long \o <<"\n">>, <<>>, {}), Piece(<<"block", " ">> \o Long \o <<"\n">>, <<>>, {}),
               Piece(<<"print", "(", "x", "\n">>, <<>>, {}), Piece(<<"x", "&", "x", "\n">>, <<>>, {}),
               Include("G", Blank), Piece(<<"x", "[", "1", "]", " ", "=", "=", " ", "1", "\n">>, <<>>, {})}}

\* What leaves a buffer, or nearly: a last line that is cut, a name or literal longer
\* than the token, two includes; and every text of up to four cells and a newline.
Marks == {"block", "var", "if", "return", "x", "y", "(", ")", ",", "=", "{", "}", Quote, "#", " ", "\n", "-", "["}
Few == {"block", "var", "if", "x", "(", ")", ",", "=", " ", "\n"}
Loose(cells) == Piece(cells, <<>>, {})
Rough ==
    {Program(ps, None, "any") :
        ps \in {<<Cut(Step)>>, <<Step, Cut(Comment)>>, <<Step, Loose(<<"#", "#", "x", "\n">>)>>,
                <<Statement(Assign(Node("AS_VAR", Long, <<>>)))>>, <<Statement(Only("PRINT", Str(Long)))>>,
                <<Var(<<With("x", CallOf(Long, <<>>))>>)>>}}
    \cup {Program(ps, Files, "any") :
            ps \in {<<Include("F", Lib), Include("F", Lib), Step>>, <<Step, Include("F", Lib), Step, Include("F", Lib)>>}}
    \cup {Program(<<Loose(Append(cells, "\n"))>>, None, "any") : cells \in UNION {[1 .. n -> Marks] : n \in 0 .. 3} \cup [1 .. 4 -> Few]}

All == Expressions \cup {Alone(Statement(e)) : e \in Calls} \cup {Alone(p) : p \in Statements}
       \cup {Alone(Lines(<<p, q>>)) : p, q \in Statements} \cup Including \cup Refused \cup Rough

\* Statements with a comment behind them.
NotedOnes == {Program(<<Noted(Step), Step>>, None, "compiles"), Program(<<Step, Noted(Step), Blank, Step>>, None, "compiles")}
=============================================================================

------------------------------ MODULE MCValues ------------------------------
(***************************************************************************)
(* Statements for Values, as the compiler emits them.                      *)
(***************************************************************************)
EXTENDS Values

I(op) == <<Instruction(op, None, 0, <<>>)>>
N(op, name) == <<Instruction(op, name, 0, <<>>)>>
C(op, n) == <<Instruction(op, None, n, <<>>)>>

Num(n) == <<Instruction("AS_DOUBLE", None, 0, Lit(n))>>
Str(chars) == <<Instruction("AS_STRING", None, 0, [i \in DOMAIN chars |-> Ch(chars[i])])>>
V(name) == N("AS_VAR", name)
Json(name, fragment) == <<Instruction("FROM_JSON", None, 0, fragment)>> \o N("VARX", name)
Trim(arg) == arg \o <<Instruction("XCALL", None, 1, Plain("STRING", <<Ch("t")>>))>>

Set(name, e) == V(name) \o e \o N("SET", name)
Both(op, e1, e2) == e1 \o e2 \o I(op)
Display(e) == e \o I("PRINT")
Elem(name, index) == index \o N("ACCESS", name)
SetElemOf(name, index, e) == index \o e \o N("SET_ELEM", name)
AddElemOf(name, e) == e \o N("ADD_ELEM", name)

\* JSON literals: array_create gives room for the elements, or MIN_ARRAY_SIZE.
NumberAt(p) == Var("DOUBLE", p, None)
JsonArray(ns) ==
    <<Object("ARRAY", <<>>, [i \in DOMAIN ns |-> NumberAt(i + 1)],
             IF ns = <<>> THEN MinArray ELSE Len(ns), IF ns = <<>> THEN MinArray ELSE Len(ns))>>
    \o [i \in DOMAIN ns |-> Scalar("DOUBLE", Lit(ns[i]))]

k == <<Ch("k")>>
g == <<Ch("g")>>
u == <<Ch("u")>>

\* {"k": 1, "u": null, "g": [7, 8, 9]}
JsonMap ==
    <<Object("MAP", <<>>, (k :> NumberAt(2)) @@ (u :> Zeroed) @@ (g :> Var("ARRAY", 3, None)), 0, 0),
      Scalar("DOUBLE", Lit(1)),
      Object("ARRAY", <<>>, <<NumberAt(4), NumberAt(5), NumberAt(6)>>, 3, 3)>>
    \o [i \in 1 .. 3 |-> Scalar("DOUBLE", Lit(6 + i))]

-----------------------------------------------------------------------------
\* xs is declared before x, which begins it and has its bucket.  A key that
\* starts with a digit is added to a map by its first assignment.
Declarations ==
    Num(5) \o N("VARX", "xs") \o Num(1) \o N("VARX", "x")
    \o Json("a", JsonArray(<<>>)) \o Json("m", JsonMap)
    \o SetElemOf("m", Str(<<"0">>), V("xs"))

\* block f(p, q = 3) { return p + q }, called with two arguments.
CallF(arg1, arg2) ==
    arg1 \o arg2 \o C("REVERSE_STACK", 2) \o N("CALL", "f")
    \o N("PARAM", "p") \o Num(3) \o N("PARAMX", "q")
    \o I("CLEAR_STACK") \o Both("ADD", V("p"), V("q")) \o I("RETURN")

\* block h(p) { p[] = 's' }, and with one line more: return.
CallH(arg, end) ==
    arg \o C("REVERSE_STACK", 1) \o N("CALL", "h")
    \o N("PARAM", "p") \o AddElemOf("p", Str(<<"s">>)) \o end

\* An element that is not there leaves v2 without data.
Nothing == Display(Elem("a", Num(9)))

Sound ==
    {Set("x", Both("ADD", V("xs"), V("x"))), Set("x", Str(<<"s">>)),
     Num(2) \o N("VARX", "x"), V("a") \o N("VARX", "y"), V("x") \o N("VARX", "y"),
     N("VAR", "y") \o Display(V("y")),
     AddElemOf("a", V("x")), SetElemOf("a", Num(2), V("x")), SetElemOf("a", Num(0), Str(<<"s">>)),
     Set("a", Both("ADD", V("a"), V("a"))), Display(Elem("a", Num(1))),
     Nothing \o Display(Elem("m", Str(<<"g", ".", "1">>))) \o Display(V("m")),
     Nothing \o Display(Both("ADD", Elem("m", Str(<<"g">>)), V("a"))),
     SetElemOf("m", Str(<<"k">>), V("x")), SetElemOf("m", Str(<<"g", ".", "1">>), V("a")),
     Display(Elem("m", Str(<<"k", ".", "0">>))),
     N("AS_VAR", "x") \o N("INCR", "x"), V("x") \o N("DECR", "x") \o I("UNARY_MINUS"),
     Display(Both("CMP", V("x"), V("xs"))),
     Display(Both("CMP", V("x"), Elem("a", Num(9)))),
     V("x") \o I("UNARY_MINUS") \o I("PRINT"),
     Display(CallF(V("x"), I("AS_VOID"))), Display(CallF(V("x"), V("x"))),
     CallH(V("a"), I("BLOCK_END")) \o Display(V("a")),
     CallH(V("a"), I("CLEAR_STACK") \o I("RETURN")),
     Trim(V("x")) \o N("VARX", "y"), Display(I("MICROTIME")),
     V("z"), Elem("a", V("m")), Num(1) \o V("x") \o N("SET", None)}
    \cup {Display(Both(op, Num(6), Num(2))) : op \in {"POW", "OR"}}

\* Reading an element by its key.  The prologue's last statement assigned another.
KeyOnly == {Display(Elem("m", Str(<<"k">>))), Set("x", Elem("m", Str(<<"k">>)))}

\* An array literal with fewer elements than MIN_ARRAY_SIZE, and a push.
ShortArray == Json("a", JsonArray(<<7>>))
PushOnly == {AddElemOf("a", Num(8))}

ShadowPairs == {<<"x", "xs">>}
\* v2 is not initialised: anything, a pointer into nowhere too.
Anything == {Zeroed, Var("STRING", 99, None)}
=============================================================================

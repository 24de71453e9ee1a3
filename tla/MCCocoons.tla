----------------------------- MODULE MCCocoons -----------------------------
(***************************************************************************)
(* Calls and answers for Cocoons.                                          *)
(***************************************************************************)
EXTENDS Cocoons

Of(cells, n) == UNION {[1 .. k -> cells] : k \in 0 .. n}
CallOf(fn, args, request) == [fn |-> fn, args |-> args, request |-> request, document |-> NoJson]
Given(fn, args, document) == [fn |-> fn, args |-> args, request |-> NULL, document |-> document]
Strings(texts) == [i \in DOMAIN texts |-> String(texts[i])]

TextCalls ==
    {CallOf("trim", Strings(<<s>>), NULL) : s \in Of({Blank, "a"}, 5)}
    \cup {CallOf("length", Strings(<<s>>), [i \in 1 .. align |-> Blank]) : s \in Of({"a", Continuation}, 5), align \in 0 .. WordSize - 1}
    \cup {CallOf("split", Strings(<<s, sep>>), NULL) : s \in Of({"a", ",", Blank}, 4), sep \in Of({",", Blank}, 2)}
    \cup {CallOf("replace", Strings(<<s, old, new>>), NULL) :
            s \in Of({"a", "b"}, 5), old \in Of({"a", "b"}, 3), new \in {<<>>, <<"b">>, <<"a", "a">>, <<"b", "a", "b">>}}

\* Queries of pairs, and short ones with "=" and "&" anywhere.
Queries == {q \in Of({"k", "x", "=", "&"}, 7) : WellFormed(q)} \cup Of({"k", "=", "&"}, 4)
WebCalls ==
    {CallOf("fromGet", Strings(<<<<"k">>>>), q) : q \in Queries}
    \cup {CallOf("cookie", Strings(<<<<"k">>>>), q) :
            q \in {NULL, <<"k", "=", "x">>, <<"k", "=", "x", ";", Blank, "x", "=", "k">>,
                   <<"x", "=", "x", ";", Blank, "k", "=", "x">>, <<"k", "=", ";">>}}
    \cup {CallOf("fromPost", <<>>, body) : body \in {<<>>, <<"k", "=", "x">>}}

\* Templates of up to four pieces, and short ones with braces anywhere.
Pieces == {<<"a">>, <<Blank>>, <<"}">>, Variable(<<"a">>, 1, 1), Variable(<<"b">>, 0, 2), Variable(<<"a">>, 1, 0)}
Templates == {FlattenSeq(p) : p \in Of(Pieces, 4)} \cup Of({"{", "}", "a"}, 6) \cup {NULL}
Maps == {Map([k \in {<<"a">>, <<"b">>} |-> IF k = <<"a">> THEN String(<<"b">>) ELSE second]) :
           second \in {String(<<>>), String(<<"a", Blank>>), Nothing, Double(1)}}
        \cup {Map([k \in {<<"b">>} |-> String(<<"a", "b">>)])}
RenderCalls ==
    {CallOf("render", <<String(<<"f">>), variables>>, html) : variables \in Maps, html \in Templates}
    \cup {CallOf("render", <<String(<<"f">>)>>, <<"a", "a">>), CallOf("render", <<String(<<"f">>), Double(1)>>, <<"a", "a">>)}

Json(kind, val, items) == [kind |-> kind, val |-> val, num |-> IF kind = "number" THEN 7 ELSE 0, items |-> items]
Atoms == {Json("string", <<"a">>, <<>>), Json("number", <<>>, <<>>), Json("true", <<>>, <<>>),
          Json("false", <<>>, <<>>), Json("null", <<>>, <<>>)}
Arrays(elements) == {Json("array", <<>>, s) : s \in Of(elements, 2)}
Objects(elements) == {Json("object", <<>>, f) : f \in [{<<"k">>, <<"g">>} -> elements]}
Inner == Arrays({a \in Atoms : a.kind # "string"}) \cup Objects({a \in Atoms : a.kind \in {"string", "true"}})
Documents == Arrays(Atoms \cup {Json("object", <<>>, <<>>)}) \cup Objects(Atoms) \cup Arrays({i \in Inner : i.kind = "object"})
             \cup Objects(Inner)
Paths == {<<>>, <<"k">>, <<"0">>, <<"1">>, <<"k", ".", "1">>, <<"1", ".", "g">>, <<".", "g", ".", "k">>}

JsonCalls ==
    {Given("fromJson", Strings(<<p>>), d) : p \in Paths, d \in Documents}
    \cup {Given("fromJson", <<>>, d) : d \in Documents} \cup {Given("from", Strings(<<<<"a">>>>), d) : d \in Arrays(Atoms)}
    \cup {CallOf("fromJson", <<>>, <<>>), Given("fromJson", <<>>, NoJson), Given("from", Strings(<<<<"a">>>>), NoJson)}

WrongCalls ==
    {CallOf(fn, <<>>, NULL) : fn \in {"replace", "trim", "split", "from", "fromGet", "cookie"}}
    \cup {CallOf("length", <<Double(1)>>, <<>>), CallOf("split", <<String(<<"a">>), Double(1)>>, NULL),
          Given("fromJson", <<Double(1)>>, Json("array", <<>>, <<Json("true", <<>>, <<>>), Json("number", <<>>, <<>>)>>))}

AllCalls == TextCalls \cup WebCalls \cup RenderCalls \cup JsonCalls \cup WrongCalls

Keys == [c \in {"0", "1"} |-> IF c = "0" THEN 0 ELSE 1]

Row1 == <<<<"a">>, NULL>>
Row2 == <<<<"b">>, <<>>>>
Replies ==
    {[kind |-> "ok", rows |-> NULL], [kind |-> "rows", rows |-> <<>>], [kind |-> "rows", rows |-> <<Row1>>],
     [kind |-> "rows", rows |-> <<Row1, Row2, Row1>>]}
=============================================================================

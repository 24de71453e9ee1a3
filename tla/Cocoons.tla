------------------------------ MODULE Cocoons ------------------------------
(***************************************************************************)
(* The functions of the cocoons text, json, web and db, as XCALL calls     *)
(* them (cocoons/*/*.c, core/sys.c, the JSON conversion of core/var.c).    *)
(*                                                                         *)
(* The functions without state are operators, and a script makes one call  *)
(* of one of them; or it uses db, whose functions share state (Db).        *)
(***************************************************************************)
EXTENDS CString, Db

CONSTANTS
    Calls,          \* calls of the functions without state: [fn, args, request, document]
    NumberKeys      \* the digits of paths: a function from cells to indexes

VARIABLES
    call, v         \* the call made and the var it returned, or the text it put out

pure == <<call, v>>
vars == <<pure, db, status>>

-----------------------------------------------------------------------------
(* Arguments.                                                               *)

AreStrings(args, n) == Len(args) = n /\ \A i \in 1 .. n : args[i].type = "STRING"
Error == Failure("ERROR")

-----------------------------------------------------------------------------
(* text.                                                                    *)

\* The size does not count the NUL.
replace_(args) ==
    IF ~AreStrings(args, 3) THEN Error
    ELSE IF ~Ends(args[2].val) THEN Failure("HANGS")
    ELSE LET s == str_replace(args[1].val, args[2].val, args[3].val) IN Value("STRING", s, <<>>, Len(s))

trim_(args) == IF AreStrings(args, 1) THEN String(trim(args[1].val)) ELSE Error

length_(args, align) == IF AreStrings(args, 1) THEN Double(cp_strlen_utf8(args[1].val, align)) ELSE Error

\* Only the type of the text is checked.
split_(args) ==
    IF Len(args) # 2 \/ args[1].type # "STRING" THEN Error
    ELSE IF args[2].type # "STRING" THEN Failure("UNDEFINED")
    ELSE LET tokens == Tokens(args[1].val, ToSet(args[2].val)) IN Array([i \in DOMAIN tokens |-> String(tokens[i])])

-----------------------------------------------------------------------------
(* JSON documents: [kind, val, num, items].                                 *)

NoJson == [kind |-> "none", val |-> <<>>, num |-> 0, items |-> <<>>]       \* a json_t * that is NULL

\* json_to_map and json_to_array: an element that is neither an object, an
\* array, a string nor a number stays unset.
RECURSIVE Element(_)
Element(j) ==
    CASE j.kind = "object" -> Map([key \in DOMAIN j.items |-> Element(j.items[key])])
      [] j.kind = "array" -> Array([i \in DOMAIN j.items |-> Element(j.items[i])])
      [] j.kind = "string" -> String(j.val)
      [] j.kind = "number" -> Double(j.num)
      [] OTHER -> Nothing

\* A whole document, or the part of it that was asked for.
Document(j) ==
    CASE j.kind = "true" -> Double(1)
      [] j.kind = "false" -> Double(0)
      [] OTHER -> Element(j)

\* A text that is no JSON: the cocoon's own larva_error returns, and so does
\* from_, with nothing.
from_(args, document) ==
    IF ~AreStrings(args, 1) THEN Error ELSE IF document = NoJson THEN Nothing ELSE Document(document)

IsNumber(token) == token[1] \in DOMAIN NumberKeys
Get(j, kind, index) ==
    IF j.kind = kind /\ index \in DOMAIN j.items THEN j.items[index] ELSE NoJson

\* Seeded fault: array elements are counted from one.
StepFromOne(j, token) ==
    IF IsNumber(token) THEN Get(j, "array", NumberKeys[token[1]]) ELSE Get(j, "object", token)

\* One token of the path: json_array_get or json_object_get.
Step(j, token) ==
    IF IsNumber(token) THEN Get(j, "array", NumberKeys[token[1]] + 1) ELSE Get(j, "object", token)

fromJson_(args, body, document) ==
    LET path == Tokens(args[1].val, {"."})
        j == CASE Len(args) # 1 -> document
               [] Len(args) = 1 /\ args[1].type = "STRING" -> FoldLeft(Step, document, path)
               [] Len(args) = 1 /\ args[1].type = "DOUBLE" -> Get(document, "array", args[1].num + 1)
               [] OTHER -> NoJson
    IN  CASE body = <<>> -> Nothing
          [] body # <<>> /\ (document = NoJson \/ j = NoJson) -> Error
          [] OTHER -> Document(j)

-----------------------------------------------------------------------------
(* web: the pairs of a query or of the cookies.                             *)

\* Seeded fault: the last of the pairs with the key is taken.
LookupLast(s, separators, key) ==
    LET pairs == [i \in DOMAIN Tokens(s, separators) |-> Pair(Tokens(s, separators)[i])]
        stops == {i \in DOMAIN pairs : pairs[i].key \in {NULL, key}}
        last == CHOOSE i \in stops : \A k \in stops : i >= k
    IN  CASE stops = {} -> Nothing
          [] stops # {} /\ NULL \in {pairs[last].key, pairs[last].val} -> Failure("CRASH")
          [] OTHER -> String(pairs[last].val)

\* The first pair with the key.  A pair without a key before it, or without a
\* value, hands NULL to memcmp or strdup.
Lookup(s, separators, key) ==
    LET pairs == [i \in DOMAIN Tokens(s, separators) |-> Pair(Tokens(s, separators)[i])]
        stops == {i \in DOMAIN pairs : pairs[i].key \in {NULL, key}}
        first == CHOOSE i \in stops : \A k \in stops : i <= k
    IN  CASE stops = {} -> Nothing
          [] stops # {} /\ NULL \in {pairs[first].key, pairs[first].val} -> Failure("CRASH")
          [] OTHER -> String(pairs[first].val)

HasKey(args) == Len(args) >= 1 /\ args[1].type = "STRING"

fromGet_(args, query) == IF HasKey(args) THEN Lookup(query, {"&"}, args[1].val) ELSE Error

\* Reading; a request without cookies has no string to copy.
cookie_(args, cookies) ==
    IF ~HasKey(args) THEN Error
    ELSE IF cookies = NULL THEN Failure("CRASH") ELSE Lookup(cookies, {";"}, args[1].val)

\* A template's byte at i, counted from zero; as in trim, a zero is in front.
Html(html, i) == IF i \in 0 .. Len(html) - 1 THEN html[i + 1] ELSE "NUL"
Twice(html, i, brace) == Html(html, i) = brace /\ Html(html, i - 1) = brace
IsSet(variables, token) == token \in DOMAIN variables /\ variables[token].type # "UNSET"

\* Seeded fault: one byte less is copied.
TokenShort(html, frame, n) == trim(SubSeq(html, frame + 1, frame + n - 3))

Token(html, frame, n) == trim(SubSeq(html, frame + 1, frame + n - 2))

\* The variables of a template, searched from a position on.  From the first
\* "{{" bytes are counted up to a "}}"; what stands between the last "{{" and
\* there, without its last byte, is a name.  An unknown name leaves its length to
\* the next one's; otherwise the text is replaced wherever it stands and all is
\* searched again.  A "}}" without a "{{" and a "{{}}" copy from or to nowhere,
\* and any value is taken for a string.
RECURSIVE Filled(_, _, _, _)
Filled(html, from, frame_length, variables) ==
    LET closing == {i \in from .. Len(html) - 1 : Twice(html, i, "}")}
        c == Min(closing)
        opening == {i \in from .. c : Twice(html, i - 1, "{")}
        frame == Max(opening)
        n == frame_length + c - Min(opening)
        search == SubSeq(html, frame - 1, Min({frame + n + 1, Len(html)}))
        token == Token(html, frame, n)
    IN  CASE closing = {} -> String(html)
          [] closing # {} /\ (opening = {} \/ n < 2) -> Failure("CRASH")
          [] closing # {} /\ ~(opening = {} \/ n < 2) /\ frame + n > Len(html) -> Failure("UNDEFINED")
          [] OTHER -> IF ~IsSet(variables, token) THEN Filled(html, c + 1, n - 2, variables)
                      ELSE IF variables[token].type # "STRING" THEN Failure("UNDEFINED")
                      ELSE CHOOSE r \in {Filled(new, 1, 0, variables) :
                                         new \in {str_replace(html, search, variables[token].val)}} : TRUE

\* The text that is put out.  A file that is not there, or has one byte, puts
\* out nothing.  (The directories are WebServer's.)
render_(args, html) ==
    CASE Len(args) = 2 /\ args[2].type # "MAP" -> Error
      [] Len(args) = 2 /\ args[2].type = "MAP" ->
           IF html = NULL \/ Len(html) < 2 THEN Nothing ELSE Filled(html, 1, 0, args[2].slots)
      [] OTHER -> Failure("UNDEFINED")

\* The whole body, whatever the key.
fromPost_(body) == IF body = <<>> THEN Nothing ELSE String(body)

-----------------------------------------------------------------------------
Apply(c) ==
    CASE c.fn = "replace" -> replace_(c.args)
      [] c.fn = "trim" -> trim_(c.args)
      [] c.fn = "length" -> length_(c.args, Len(c.request))
      [] c.fn = "split" -> split_(c.args)
      [] c.fn = "from" -> from_(c.args, c.document)
      [] c.fn = "fromJson" -> fromJson_(c.args, c.request, c.document)
      [] c.fn = "fromGet" -> fromGet_(c.args, c.request)
      [] c.fn = "cookie" -> cookie_(c.args, c.request)
      [] c.fn = "render" -> render_(c.args, c.request)
      [] c.fn = "fromPost" -> fromPost_(c.request)

NoCall == [fn |-> "none", args |-> <<>>, request |-> NULL, document |-> NoJson]

Init ==
    /\ call = NoCall /\ v = Nothing
    /\ DbInit

Call ==
    /\ status = "run" /\ call = NoCall /\ link = "none"
    /\ call' \in Calls
    /\ v' = Apply(call')
    /\ status' = CASE v'.type = "ERROR" -> "error" [] v'.type = "CRASH" -> "crash" [] OTHER -> "run"
    /\ UNCHANGED db

-----------------------------------------------------------------------------
\* A script that uses db, and makes no other call.
Script == call = NoCall /\ DbNext /\ UNCHANGED pure

Next == Call \/ Script

Spec == Init /\ [][Next]_vars

-----------------------------------------------------------------------------
(* Properties.                                                              *)

\* The text functions, against what each promises: trimming takes the longest
\* part without a blank at either end; a length counts characters; splitting
\* gives every run without a separator and loses nothing else; and replacing
\* changes every match that does not begin inside an earlier one, in a buffer
\* that has room for the result.
Trimmed(s, t) ==
    \E from \in 1 .. Len(s) + 1, to \in 0 .. Len(s) :
        /\ t = SubSeq(s, from, to)
        /\ \A i \in DOMAIN s : i < from \/ i > to => s[i] = Blank
        /\ t # <<>> => Head(t) # Blank /\ Last(t) # Blank
Split(s, separators, pieces) ==
    /\ \A i \in DOMAIN pieces : pieces[i] # <<>>
    /\ FlattenSeq(pieces) = SelectSeq(s, LAMBDA c : c \notin separators)
    /\ Len(pieces) = Cardinality({i \in DOMAIN s : s[i] \notin separators /\ (i = 1 \/ s[i - 1] \in separators)})
Greedy(s, old) ==
    CHOOSE C \in SUBSET Matches(s, old) :
        \A m \in Matches(s, old) : m \in C <=> ~ \E c \in C : c < m /\ m < c + Len(old)
Replaced(s, old, new) ==
    LET C == Greedy(s, old)
        Inside(i) == \E c \in C : c < i /\ i < c + Len(old)
    IN  FlattenSeq([i \in DOMAIN s |-> IF i \in C THEN new ELSE IF Inside(i) THEN <<>> ELSE <<s[i]>>])
TextAsDefined ==
    LET Arg(i) == call.args[i].val IN
    /\ call.fn = "trim" /\ status = "run" => Trimmed(Arg(1), v.val)
    /\ call.fn = "length" /\ status = "run" => v.num = Len(SelectSeq(Arg(1), LAMBDA b : b # Continuation))
    /\ call.fn = "split" /\ v.type = "ARRAY" =>
        Split(Arg(1), ToSet(Arg(2)), [i \in DOMAIN v.slots |-> v.slots[i].val])
    /\ call.fn = "replace" /\ v.type = "STRING" =>
        v.val = Replaced(Arg(1), Arg(2), Arg(3)) /\ Len(v.val) <= retlen(Arg(1), Arg(2), Arg(3))

\* In a query and in cookies made of pairs, each a name and a value that is not
\* empty and has no "=" of its own, the value found is all of the one that belongs
\* to the first pair with the key, and nothing is found when there is none.  (Only
\* the first cookie has a name that can be given: the name of every other one
\* begins with the blank behind the semicolon.)
Separators == {"&", ";"}
WellFormed(s) ==
    \A t \in ToSet(Tokens(s, Separators)) :
        Head(t) # "=" /\ Last(t) # "=" /\ Cardinality({i \in DOMAIN t : t[i] = "="}) = 1
PairAt(s, key, p) ==
    /\ p = 1 \/ s[p - 1] \in Separators
    /\ p + Len(key) <= Len(s) /\ SubSeq(s, p, p + Len(key)) = key \o <<"=">>
PairsFound ==
    call.fn \in {"fromGet", "cookie"} /\ HasKey(call.args) /\ call.request # NULL /\ WellFormed(call.request) =>
        LET s == call.request
            key == call.args[1].val
            pairs == {p \in DOMAIN s : PairAt(s, key, p)}
            first == CHOOSE p \in pairs : \A q \in pairs : p <= q
            behind == SubSeq(s, first + Len(key) + 1, Len(s))
        IN  IF pairs = {} THEN v = Nothing
            ELSE /\ v.type = "STRING" /\ IsPrefix(v.val, behind)
                 /\ ToSet(v.val) \cap Separators = {}
                 /\ Len(v.val) < Len(behind) => behind[Len(v.val) + 1] \in Separators

\* A template whose braces all belong to variables of the map, "{{", a name and
\* at least one blank, "}}", is put out with each replaced by its value and every
\* other byte as it is, however the values and the text between look.
Variable(key, left, right) ==
    LET Blanks(k) == [i \in 1 .. k |-> Blank] IN <<"{", "{">> \o Blanks(left) \o key \o Blanks(right) \o <<"}", "}">>
StandsAt(html, p, text) == p + Len(text) - 1 <= Len(html) /\ SubSeq(html, p, p + Len(text) - 1) = text
TemplateFilled ==
    call.fn = "render" /\ Len(call.args) = 2 /\ call.args[2].type = "MAP" /\ call.request # NULL =>
        LET html == call.request
            values == call.args[2].slots
            Texts(key) == {Variable(key, left, right) : left \in 0 .. 2, right \in 1 .. 2}
            At(p) == {<<key, text>> \in UNION {{key} \X Texts(key) : key \in DOMAIN values} : StandsAt(html, p, text)}
            Within_(i) == \E p \in DOMAIN html : \E x \in At(p) : p <= i /\ i < p + Len(x[2])
            Piece(i) == IF At(i) # {} THEN values[(CHOOSE x \in At(i) : TRUE)[1]].val
                        ELSE IF Within_(i) THEN <<>> ELSE <<html[i]>>
        IN  /\ Len(html) > 1
            /\ \A i \in DOMAIN html : html[i] \in {"{", "}"} => Within_(i)
            /\ \A key \in DOMAIN values : values[key].type = "STRING" /\ ToSet(values[key].val) \cap {"{", "}"} = {}
            => v = String(FlattenSeq([i \in DOMAIN html |-> Piece(i)]))

\* Asking for a part of the posted document is asking for the document and
\* following the path in the variable it became.  (A true, a false or a null
\* inside a document is lost when it is converted as a whole, and only then.)
RECURSIVE Follow(_, _)
Follow(w, path) ==
    IF path = <<>> THEN w
    ELSE LET index == IF IsNumber(path[1]) THEN NumberKeys[path[1][1]] + 1 ELSE path[1]
             type == IF IsNumber(path[1]) THEN "ARRAY" ELSE "MAP"
         IN  IF w.type = type /\ index \in DOMAIN w.slots THEN Follow(w.slots[index], Tail(path)) ELSE Error
PathsAgree ==
    call.fn = "fromJson" /\ AreStrings(call.args, 1) /\ call.document # NoJson =>
        LET w == Follow(Document(call.document), Tokens(call.args[1].val, {"."}))
        IN  v = w \/ (w = Nothing /\ v \in {Double(0), Double(1)})
=============================================================================

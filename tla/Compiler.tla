------------------------------ MODULE Compiler ------------------------------
(***************************************************************************)
(* From a Leaf file to byte-code: larva_init cleans the text of comments   *)
(* and escapes (larva_chew), splices included files and loads cocoons;     *)
(* larva_digest reads statement after statement and emits instructions     *)
(* (core/larva.c); bc_ready closes the buffer (core/bytecode.c).  Then     *)
(* the code is read back as larva_silk reads it: every instruction once    *)
(* executed, with definitions overwritten, and once passed over.           *)
(*                                                                         *)
(* A program is a piece of module LeafText, with the pieces it includes.   *)
(***************************************************************************)
EXTENDS LeafText, Emission

CONSTANT Programs       \* a set of [main, files, fate]: a piece, a function from names to
                        \* pieces, and "compiles", "fails" or "any" (nothing is promised)

VARIABLES
    program,            \* the program compiled
    incoming, i, quotes_on, comment, new_code,          \* larva_chew
    splice,             \* the line_start of the include being chewed, or -1: the main file
    code, code_length, code_pos, cocoons,               \* bombyx_env_t
    is_param, expect_block                              \* larva_digest

chewing == <<incoming, i, quotes_on, comment, new_code, splice>>
text == <<code, code_length, code_pos>>
vars == <<program, stage, chewing, text, cocoons, is_param, expect_block, pending, buffer, reading>>

Init ==
    /\ program \in Programs
    /\ EmissionInit
    /\ incoming = program.main.text \o <<Nul>>
    /\ i = 0 /\ quotes_on = FALSE /\ comment = "none" /\ new_code = <<>> /\ splice = -1
    /\ code = <<>> /\ code_length = 0 /\ code_pos = 0
    /\ cocoons = {}
    /\ is_param = FALSE /\ expect_block = FALSE

LarvaError ==
    /\ stage' = "error"
    /\ UNCHANGED <<program, chewing, text, cocoons, is_param, expect_block, pending, buffer, reading>>

-----------------------------------------------------------------------------
(* larva_chew, one character at a time; a comment's loop is one step per    *)
(* character too.                                                           *)

Ch(k) == At(incoming, i + k)
Follows(k) == i + k < Len(incoming)

Chewing ==
    /\ stage = "chew"
    /\ i < Len(incoming)
    /\ UNCHANGED <<program, stage, incoming, splice, text, cocoons, is_param, expect_block, pending, buffer, reading>>

InCode == Chewing /\ comment = "none"

\* \n and \t are decoded; any other escape, a quote's too, disappears.
Escape ==
    /\ InCode
    /\ Ch(0) = Backslash /\ Follows(1)
    /\ new_code' = CASE Ch(1) = "n" -> Append(new_code, "\n")
                     [] Ch(1) = "t" -> Append(new_code, "\t")
                     [] OTHER -> new_code
    /\ i' = i + 2
    /\ UNCHANGED <<quotes_on, comment>>

\* A second # opens a long comment; its end is looked for from that # on.
OpenComment ==
    /\ InCode
    /\ Ch(0) = "#" /\ ~quotes_on
    /\ comment' = IF Follows(1) /\ Ch(1) = "#" THEN "long" ELSE "line"
    /\ i' = i + 1
    /\ UNCHANGED <<quotes_on, new_code>>

\* The newline that ends a comment goes with it.
InComment ==
    /\ Chewing
    /\ comment # "none"
    /\ IF comment = "line"
       THEN comment' = (IF Ch(0) = "\n" THEN "none" ELSE "line") /\ i' = i + 1
       ELSE IF Ch(0) = "#" /\ Follows(1) /\ Ch(1) = "#"
            THEN comment' = "none" /\ i' = i + 2
            ELSE comment' = "long" /\ i' = i + 1
    /\ UNCHANGED <<quotes_on, new_code>>

Copy ==
    /\ InCode
    /\ ~(Ch(0) = Backslash /\ Follows(1))
    /\ ~(Ch(0) = "#" /\ ~quotes_on)
    /\ quotes_on' = IF Ch(0) = Quote THEN ~quotes_on ELSE quotes_on
    /\ new_code' = Append(new_code, Ch(0))
    /\ i' = i + 1
    /\ UNCHANGED comment

\* The main file's text is the code.
MainChewed ==
    /\ stage = "chew" /\ i >= Len(incoming) /\ splice = -1
    /\ stage' = "init"
    /\ code' = new_code /\ code_length' = Len(new_code) /\ code_pos' = 0
    /\ UNCHANGED <<program, chewing, cocoons, is_param, expect_block, pending, buffer, reading>>

\* Seeded fault: the newline counts as one of the bytes moved behind it.
SplicedShort(line_start) ==
    SubSeq(code, 1, line_start) \o <<"\n">> \o new_code \o SubSeq(code, code_pos + 1, code_length - 1)

\* The included text, after a newline, in place of the statement.
Spliced(line_start) ==
    SubSeq(code, 1, line_start) \o <<"\n">> \o new_code \o SubSeq(code, code_pos + 1, code_length)

\* Seeded fault: the length of the statement replaced is not subtracted.
IncludeAdded ==
    /\ stage = "chew" /\ i >= Len(incoming) /\ splice # -1
    /\ stage' = "init"
    /\ code' = Spliced(splice)
    /\ code_length' = code_length + Len(new_code)
    /\ code_pos' = code_pos + 1
    /\ UNCHANGED <<program, chewing, cocoons, is_param, expect_block, pending, buffer, reading>>

\* The length does not count the newline, and the position stays.
IncludeChewed ==
    /\ stage = "chew" /\ i >= Len(incoming) /\ splice # -1
    /\ stage' = "init"
    /\ code' = Spliced(splice)
    /\ code_length' = code_length + Len(new_code) - (code_pos - splice)
    /\ code_pos' = code_pos + 1
    /\ UNCHANGED <<program, chewing, cocoons, is_param, expect_block, pending, buffer, reading>>

-----------------------------------------------------------------------------
(* Tokens.                                                                  *)

\* A cell of the code; what lies behind it in memory is no cell.
Cell(p) == IF p < Len(code) THEN At(code, p) ELSE "outside"
Delimiters == {"(", ")", ",", "=", "{", "}"} \cup Spaces

NextOf(p, limit, Stop(_)) == First({q \in p .. limit - 1 : Stop(Cell(q))} \cup {limit})
NotSpace(c) == c \notin Spaces

\* larva_read_token from p: the first character whatever it is, and those up
\* to a delimiter.  At the end of the code the last character is not counted.
TokenFrom(start, end) ==
    [token |-> SubSeq(code, start + 1, IF end < code_length THEN end ELSE end - 1),
     pos |-> IF start + 1 > code_length THEN start + 1 ELSE end]
TokenAt(p) ==
    Once(NextOf(p, Len(code), NotSpace),
         LAMBDA start : Once(NextOf(start + 1, code_length, LAMBDA c : c \in Delimiters),
                             LAMBDA end : TokenFrom(start, end)))

-----------------------------------------------------------------------------
(* larva_init's search for include and use.                                 *)

Searching == stage = "init" /\ code_pos < code_length

\* Seeded fault: one character is left out at the start of a line too.
SearchBehind == code_pos + 1

\* In the middle of a line one character is left out first.
SearchFrom == IF code_pos > 0 /\ Cell(code_pos - 1) # "\n" THEN code_pos + 1 ELSE code_pos
Found == TokenAt(SearchFrom)

\* larva_read_string_token: the file's name in quotes.
Opening == NextOf(Found.pos, Len(code), NotSpace)
Closing == NextOf(Opening + 2, code_length, LAMBDA c : c = Quote)

StartInclude ==
    /\ Searching
    /\ Found.token = <<"i", "n">>
    /\ Cell(Opening) = Quote
    /\ Cell(Opening + 1) \in DOMAIN program.files
    /\ stage' = "chew"
    /\ incoming' = program.files[Cell(Opening + 1)].text
    /\ i' = 0 /\ quotes_on' = FALSE /\ comment' = "none" /\ new_code' = <<>>
    /\ splice' = code_pos
    /\ code_pos' = Closing + 1
    /\ UNCHANGED <<program, code, code_length, cocoons, is_param, expect_block, pending, buffer, reading>>

IncludeFails ==
    /\ Searching
    /\ Found.token = <<"i", "n">>
    /\ Cell(Opening) # Quote \/ Cell(Opening + 1) \notin DOMAIN program.files
    /\ LarvaError

\* A use, and any other token.
Search ==
    /\ Searching
    /\ Found.token # <<"i", "n">> /\ ~TooLong(Found.token)
    /\ LET use == Found.token = <<"u", "s">>
           name == TokenAt(Found.pos)
       IN  /\ cocoons' = IF use THEN cocoons \cup {name.token} ELSE cocoons
           /\ use => ~TooLong(name.token)
           /\ code_pos' = (IF use THEN name.pos ELSE Found.pos) + 1
    /\ UNCHANGED <<program, stage, chewing, code, code_length, is_param, expect_block, pending, buffer, reading>>

EndSearch ==
    /\ stage = "init" /\ code_pos >= code_length
    /\ stage' = "digest"
    /\ code_pos' = 0
    /\ UNCHANGED <<program, chewing, code, code_length, cocoons, is_param, expect_block, pending, buffer, reading>>

-----------------------------------------------------------------------------
(* larva_digest.                                                            *)

\* How many brackets are open before q, counting those at the given positions.
Depth(q, positions) ==
    Cardinality({k \in positions : k < q /\ Cell(k) = "("}) - Cardinality({k \in positions : k < q /\ Cell(k) = ")"})

\* parse: the expression ends at a newline, a closing bracket too many or a
\* comma outside brackets, none of them in quotes; or where the code does.
Unquoted(from) ==
    {q \in from .. code_length - 1 : Cardinality({k \in from .. q - 1 : Cell(k) = Quote}) % 2 = 0}
Ends(bare) ==
    {q \in bare : Cell(q) = "\n" \/ (Cell(q) \in {",", ")"} /\ Depth(q, bare) = 0)}
ExpressionEnd(from) ==
    IF from >= code_length THEN from
    ELSE First((UNION {Ends(bare) : bare \in {Unquoted(from)}})
               \cup {q \in from .. code_length - 1 : Cell(q) = Nul} \cup {code_length})

\* The condition of if and while: up to the bracket that closes the first.
ConditionEnd(from) ==
    LET rest == from .. Len(code) - 1
    IN  First({q \in rest : Cell(q) = Nul} \cup {q + 1 : q \in {k \in rest : Cell(k) = ")" /\ Depth(k, rest) = 1}}
              \cup {Len(code)})

Parsed(from, to) == parse_expression(SubSeq(code, from + 1, to))

Digesting ==
    /\ stage = "digest" /\ pending = <<>>
    /\ Cell(code_pos) \notin {Nul, "outside"}
    /\ UNCHANGED <<program, chewing, code, code_length, cocoons, buffer, reading>>

Statement_ == TokenAt(code_pos)
Keywords == {<<"}">>, <<"var">>, <<"return">>, <<"block">>, <<"if">>, <<"while">>, <<"else">>, <<"{">>, <<"u", "s">>}

\* The statement has been read up to pos, and emits xs.
Goes(xs, pos) ==
    /\ pending' = xs
    /\ stage' = "digest"
    /\ code_pos' = pos + 1

Parses(expression) == expression.ok /\ ~expression.overrun

\* An expression has an error, or has overrun the parser's token on the way.
ParseFails(expression) ==
    /\ stage' = IF expression.overrun THEN "undefined" ELSE "error"
    /\ UNCHANGED <<pending, code_pos>>

BlockClose ==
    /\ Digesting /\ Statement_.token = <<"}">>
    /\ Goes(I("BLOCK_END"), Statement_.pos)
    /\ UNCHANGED <<is_param, expect_block>>

BlockOpen ==
    /\ Digesting /\ Statement_.token = <<"{">>
    /\ Goes(IF expect_block THEN <<>> ELSE I("BLOCK_START"), Statement_.pos)
    /\ expect_block' = FALSE
    /\ UNCHANGED is_param

\* return, if, while and expressions: what they emit around the expression.
Emits(before, from, to, after) ==
    \E expression \in {Parsed(from, to)} :
        IF Parses(expression) THEN Goes(before \o expression.out \o after, to) ELSE ParseFails(expression)

ReturnStatement ==
    /\ Digesting /\ Statement_.token = <<"return">>
    /\ \E end \in {ExpressionEnd(Statement_.pos)} :
           Emits(I("CLEAR_STACK"), Statement_.pos, end, I("RETURN"))
    /\ UNCHANGED <<is_param, expect_block>>

IfStatement ==
    /\ Digesting /\ Statement_.token = <<"if">>
    /\ \E end \in {ConditionEnd(Statement_.pos)} :
           Emits(I("IF"), Statement_.pos, end, I("CEIT"))
    /\ UNCHANGED <<is_param, expect_block>>

WhileStatement ==
    /\ Digesting /\ Statement_.token = <<"while">>
    /\ \E end \in {ConditionEnd(Statement_.pos)} :
           Emits(I("WHILE"), Statement_.pos, end, I("CEIT"))
    /\ UNCHANGED <<is_param, expect_block>>

ElseStatement ==
    /\ Digesting /\ Statement_.token = <<"else">>
    /\ Goes(I("ELSE"), Statement_.pos)
    /\ UNCHANGED <<is_param, expect_block>>

\* Seeded fault: the position goes back to the start of the line.
UseAgain ==
    /\ Digesting /\ Statement_.token = <<"u", "s">>
    /\ ~TooLong(TokenAt(Statement_.pos).token)
    /\ Goes(<<>>, code_pos - 1)
    /\ UNCHANGED <<is_param, expect_block>>

UseStatement ==
    /\ Digesting /\ Statement_.token = <<"u", "s">>
    /\ ~TooLong(TokenAt(Statement_.pos).token)
    /\ Goes(<<>>, TokenAt(Statement_.pos).pos)
    /\ UNCHANGED <<is_param, expect_block>>

\* Anything else is read again from the start of the line, as an expression.
\* A blank line is an empty one.
ExpressionStatement ==
    /\ Digesting /\ Statement_.token \notin Keywords /\ ~TooLong(Statement_.token)
    /\ \E end \in {ExpressionEnd(code_pos)} : Emits(<<>>, code_pos, end, <<>>)
    /\ UNCHANGED <<is_param, expect_block>>

\* A block's definition opens it at once; its parameters are read as variables.
BlockStatement ==
    /\ Digesting /\ Statement_.token = <<"block">>
    /\ LET name == TokenAt(Statement_.pos)
           params == Cell(name.pos) = "("
       IN  /\ ~TooLong(name.token)
           /\ pending' = N("BLOCK_DEF", name.token) \o I("BLOCK_START")
           /\ stage' = IF params THEN "declare" ELSE "digest"
           /\ is_param' = IF params THEN TRUE ELSE is_param
           /\ code_pos' = name.pos + 1
    /\ expect_block' = TRUE

VarStatement ==
    /\ Digesting /\ Statement_.token = <<"var">>
    /\ stage' = "declare"
    /\ is_param' = FALSE
    /\ code_pos' = Statement_.pos
    /\ UNCHANGED <<expect_block, pending>>

\* larva_read_token refuses a token that does not fit its buffer.
LongToken ==
    \/ /\ stage = "digest" /\ pending = <<>> /\ Cell(code_pos) \notin {Nul, "outside"}
       /\ \/ TooLong(Statement_.token)
          \/ Statement_.token \in {<<"block">>, <<"u", "s">>} /\ TooLong(TokenAt(Statement_.pos).token)
       /\ LarvaError
    \/ /\ Searching
       /\ \/ TooLong(Found.token)
          \/ Found.token = <<"u", "s">> /\ TooLong(TokenAt(Found.pos).token)
       /\ LarvaError

-----------------------------------------------------------------------------
(* re_read_var: one variable or parameter after another.                    *)

Reserved == {<<"if">>, <<"else">>, <<"var">>, <<"block">>, <<"return">>, <<"while">>}
Name == TokenAt(code_pos)
ReadsOn(token) == token \notin Reserved /\ ~TooLong(token)
NotBlank(c) == c # " "
After(p) == NextOf(p, Len(code), NotBlank)
Behind == After(Name.pos)

Declaring ==
    /\ stage = "declare" /\ pending = <<>>
    /\ ReadsOn(Name.token)
    /\ UNCHANGED <<program, chewing, code, code_length, cocoons, is_param, expect_block, buffer, reading>>

DeclareFails ==
    /\ stage = "declare" /\ pending = <<>>
    /\ \/ ~ReadsOn(Name.token)
       \/ Cell(Behind) \notin {"\n", Nul, ",", ")", "=", "outside"}
    /\ LarvaError

\* Without a value; "block f()" leaves a bracket that is no name.
Declare ==
    /\ Declaring
    /\ Cell(Behind) \in {"\n", Nul, ",", ")"}
    /\ pending' = IF Cell(Behind) \in {"\n", Nul} /\ IsPrefix(<<")">>, Name.token) THEN <<>>
                  ELSE N(IF is_param \/ Cell(Behind) = ")" THEN "PARAM" ELSE "VAR", Name.token)
    /\ stage' = IF Cell(Behind) = "," THEN "declare" ELSE "digest"
    /\ code_pos' = IF Cell(Behind) \in {",", ")"} THEN Behind + 1 ELSE Behind

\* A value is followed by a comma and one more variable, or by whatever ends
\* the statement.
Valued(xs, op, end) ==
    /\ pending' = xs \o N(op, Name.token)
    /\ stage' = IF Cell(end) = "," THEN "declare" ELSE "digest"
    /\ code_pos' = end + 1

\* JSON up to the end of the line or a bracket; never a PARAMX.
DeclareJson ==
    /\ Declaring
    /\ Cell(Behind) = "="
    /\ LET from == After(Behind + 1)
           end == NextOf(from, Len(code), LAMBDA c : c \in {Nul, "\n", ")"})
       IN  /\ Cell(from) \in {"{", "["}
           /\ Valued(N("FROM_JSON", SubSeq(code, from + 1, end)), "VARX", end)

DeclareWith ==
    /\ Declaring
    /\ Cell(Behind) = "="
    /\ \E from \in {After(Behind + 1)} : \E end \in {ExpressionEnd(from)} :
        \E value \in {Parsed(from, end)} :
           /\ Cell(from) \notin {"{", "["}
           /\ IF Parses(value) THEN Valued(value.out, IF is_param THEN "PARAMX" ELSE "VARX", end)
              ELSE ParseFails(value)

\* Reading behind the end of the code: what is there is anyone's guess.
RunAway ==
    /\ stage \in {"digest", "declare"} /\ pending = <<>>
    /\ Cell(code_pos) = "outside" \/ (stage = "declare" /\ ReadsOn(Name.token) /\ Cell(Behind) = "outside")
    /\ stage' = "undefined"
    /\ UNCHANGED <<program, chewing, text, cocoons, is_param, expect_block, pending, buffer, reading>>

-----------------------------------------------------------------------------
(* Emission, and reading the code back when its end is reached.              *)

Emitting ==
    /\ \/ EmitNext \/ FetchNext \/ Again \/ PassNext
       \/ Ready /\ Cell(code_pos) = Nul
    /\ UNCHANGED <<program, chewing, text, cocoons, is_param, expect_block>>

-----------------------------------------------------------------------------
Chew == Escape \/ OpenComment \/ InComment \/ Copy \/ MainChewed \/ IncludeChewed
LarvaInit == StartInclude \/ IncludeFails \/ Search \/ EndSearch
LarvaDigest ==
    \/ BlockClose \/ BlockOpen \/ ReturnStatement \/ IfStatement \/ WhileStatement \/ ElseStatement
    \/ UseStatement \/ ExpressionStatement \/ BlockStatement \/ VarStatement \/ LongToken
    \/ Declare \/ DeclareJson \/ DeclareWith \/ DeclareFails \/ RunAway
Next == Chew \/ LarvaInit \/ LarvaDigest \/ Emitting

\* The compiler runs until it is done: one thread, nothing to wait for.
Spec == Init /\ [][Next]_vars /\ WF_vars(Next)

-----------------------------------------------------------------------------
(* Properties.                                                              *)

\* The stages, positions and buffers are of their types.
TypeOK ==
    /\ stage \in {"chew", "init", "digest", "declare", "fetch", "pass", "done", "error", "undefined"}
    /\ i \in 0 .. Len(incoming) + 1 /\ quotes_on \in BOOLEAN /\ comment \in {"none", "line", "long"}
    /\ splice \in -1 .. Len(code) - 1
    /\ code_length \in {Len(code), Len(code) - 1} /\ code_pos \in 0 .. Len(code) + 3
    /\ {is_param, expect_block} \subseteq BOOLEAN
    /\ bc.length \in Nat /\ bc_pos \in 0 .. bc.length

\* The four ways to make the compiler leave its buffers.  A name or a text in
\* quotes is as long as the parser's token or longer.
LongName ==
    \E p \in 0 .. Len(code) - MaxToken :
        LET run == {Cell(q) : q \in p .. p + MaxToken - 1}
        IN  \/ \A c \in run : IsNameCell(c)
            \/ Quote \notin run /\ p \notin Unquoted(0)

\* The code does not end with a newline and the zero: the file does not, or a
\* comment at its end has taken them, or a second include has lost the zero (after
\* the first, code_length is short by one).
Unended == ~IsSuffix(<<"\n", Nul>>, code)

\* The last statement stops where a name has to follow.
OpenEnd ==
    LET cells == SelectSeq(code, LAMBDA c : NotSpace(c) /\ c # Nul)
    IN  cells # <<>> /\ Last(cells) \in {"block", "var", "s", "(", ","}

\* A condition has no closing bracket, and so goes on to the zero.
OpenCondition == \E q \in 0 .. Len(code) - 1 : Cell(q) \in {"if", "while"} /\ Cell(ConditionEnd(q + 1)) = Nul

\* Nothing is stored outside a buffer: the cleaned text fits the allocation of
\* the text's own length, and every bc_add_ call finds or makes the room it uses.
\* Nothing is stored behind the parser's token and nothing is read behind the end
\* of the code, except in the four cases above, which the code does not guard
\* against.
InBounds ==
    /\ Len(new_code) <= Len(incoming)
    /\ BufferFits
    /\ stage = "undefined" => LongName \/ Unended \/ OpenEnd \/ OpenCondition
    /\ program.fate # "any" => stage # "undefined"

\* What larva_silk reads is what the program's author wrote: cleaning, splicing one
\* file, tokens, precedence, the code of each statement and the bytes in between
\* lose and add nothing.  A program that breaks a rule of the grammar is refused,
\* and so is one that compares an element (a[i] == b), which the grammar takes for
\* an assignment.
CompiledAsWritten ==
    /\ program.fate = "compiles" => stage # "error" /\ (stage = "pass" => decoded = program.main.code \o I("IDLE"))
    /\ program.fate = "fails" => stage \notin {"fetch", "pass", "done"}

\* The search loads nothing but cocoons that are used, and before statements are
\* compiled it has seen every use of a program that compiles.  In the included file
\* that is every use behind as many characters as the include statement has: the
\* search goes on from there, and the uses in front of it are not promised.
CocoonsLoaded ==
    LET used == {<<c>> : c \in program.main.uses}
    IN  /\ cocoons \subseteq used
        /\ program.fate = "compiles" /\ stage \notin {"chew", "init"} => cocoons = used

\* The compiler and the buffer are composed as Emission says: only whole
\* instructions are handed over, with names that fit the byte that counts them,
\* one statement at a time.
ImplementsEmission == EmissionSpec

\* Every compilation comes to an end.
Compiles == <>(stage \in {"done", "error", "undefined"})
=============================================================================

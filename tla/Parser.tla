------------------------------- MODULE Parser -------------------------------
(***************************************************************************)
(* The expression parser (core/expression.c): a recursive descent over the *)
(* text of one expression that emits instructions as it goes.              *)
(*                                                                         *)
(* Text is a sequence of cells.  A cell is one character, or a word whose  *)
(* letters nothing looks at; it ends with the cell Nul.  A parser's state  *)
(* is pd = [s, pos, out, ok, num_args, overrun]: the text, the position    *)
(* (counted from zero), the instructions emitted, whether no error has     *)
(* been raised (an error leaves by longjmp, so nothing happens after it),  *)
(* the length of the argument list read last, and whether something has    *)
(* been stored behind the end of a token.                                  *)
(***************************************************************************)
EXTENDS Bytecode

CONSTANT MaxArguments   \* PARSER_MAX_ARGUMENT_COUNT

Nul == "NUL"
Quote == "'"
Backslash == "\\"
Spaces == {" ", "\n", "\t"}
Digits == {"0", "1", "2"}
Punctuation ==
    {"(", ")", "[", "]", "{", "}", ",", ":", "=", "!", "<", ">", "&", "|", "+", "-", "*", "/", "%", "^",
     ".", "_", "#", Quote, Backslash, Nul}
IsAlpha(c) == c \notin Spaces \cup Digits \cup Punctuation
IsNameCell(c) == IsAlpha(c) \/ c \in Digits \cup {"_", "."}

Peek(pd) == At(pd.s, pd.pos)
Fail(pd) == [pd EXCEPT !.ok = FALSE]
Skip(pd) == [pd EXCEPT !.pos = @ + 1]
Out(pd, x) == [pd EXCEPT !.out = Append(@, x)]
Op(pd, op) == Out(pd, Instr(op, <<>>, 0))

\* Rest(v), with v evaluated once.
Once(v, Rest(_)) == CHOOSE r \in {Rest(x) : x \in {v}} : TRUE

\* The rest of a parse, unless an error has been raised.
Then(pd, Rest(_)) == Once(pd, LAMBDA p : IF p.ok THEN Rest(p) ELSE p)

\* The least of a set of positions.
First(positions) == Once(positions, LAMBDA P : CHOOSE q \in P : \A t \in P : q <= t)

\* The first position from p on whose cell fails the test; Nul always does.
RunEnd(s, p, Test(_)) == First({q \in p .. Len(s) - 1 : ~Test(At(s, q))})

EatSpaces(pd) == [pd EXCEPT !.pos = RunEnd(pd.s, @, LAMBDA c : c \in Spaces)]
ThenOp(pd, op) == Then(pd, LAMBDA p : EatSpaces(Op(p, op)))
Expect(pd, c) == Then(pd, LAMBDA p : IF Peek(p) = c THEN Skip(p) ELSE Fail(p))

\* size characters and a zero are copied into the token, without a look at its size.
Copied(pd, size) == [pd EXCEPT !.overrun = @ \/ size >= MaxToken]

\* The name at the position, and the parser behind it.
NameAt(pd) == SubSeq(pd.s, pd.pos + 1, RunEnd(pd.s, pd.pos, IsNameCell))
AfterName(pd) == Copied([pd EXCEPT !.pos = RunEnd(pd.s, @, IsNameCell)], Len(NameAt(pd)))

\* A literal: a text in quotes, or a number with an optional sign.  A text that
\* is not closed, or nothing to be read, is an error.
parser_read_double(pd) ==
    LET sign == IF Peek(pd) \in {"+", "-"} THEN 1 ELSE 0
        end == RunEnd(pd.s, pd.pos + sign, LAMBDA c : c \in Digits)
        closing == {q \in pd.pos + 1 .. Len(pd.s) - 1 : At(pd.s, q) = Quote}
        Literal(op, from, to, next) ==
            Out(Copied([pd EXCEPT !.pos = next], to - from), Instr(op, SubSeq(pd.s, from + 1, to), 0))
    IN  CASE Peek(pd) = Quote /\ closing = {} -> Fail(Copied(pd, Len(pd.s) - pd.pos - 2))
          [] Peek(pd) = Quote /\ closing # {} -> Literal("AS_STRING", pd.pos + 1, First(closing), First(closing) + 1)
          [] Peek(pd) # Quote /\ end = pd.pos -> Fail(pd)
          [] OTHER -> Literal("AS_DOUBLE", pd.pos, end, end)

-----------------------------------------------------------------------------
(* Each reader takes a parser that is at its first character and leaves it  *)
(* behind the spaces that follow what it has read.                          *)

\* A reader by its name: where one reader calls another.
RECURSIVE Read(_, _)
ThenRead(pd, reader) == Then(EatSpaces(pd), LAMBDA p : Read(reader, p))

parser_read_argument(pd) ==
    Then(Read("expr", EatSpaces(pd)), LAMBDA p : IF Peek(p) = "," THEN EatSpaces(Skip(p)) ELSE p)

\* The arguments up to the closing bracket, n of them read so far.
RECURSIVE Arguments(_, _)
Arguments(pd, n) ==
    CASE Peek(pd) = ")" -> [pd EXCEPT !.num_args = n]
      [] Peek(pd) # ")" /\ n >= MaxArguments -> Fail(pd)
      [] OTHER -> Then(Read("expr", pd),
                       LAMBDA p : CASE Peek(p) = ")" -> [p EXCEPT !.num_args = n + 1]
                                    [] Peek(p) = "," -> Then(EatSpaces(Skip(p)), LAMBDA q : Arguments(q, n + 1))
                                    [] OTHER -> Fail(p))
parser_read_argument_list(pd) == Then(EatSpaces(pd), LAMBDA p : Arguments(p, 0))

\* A block's call: REVERSE_STACK and the count before it, or the count alone,
\* which is the byte of an IDLE.
ReadCall(pd, token) ==
    CASE token = <<"print">> -> ThenOp(Read("boolean_or", pd), "PRINT")
      [] token = <<"microtime">> -> Op(pd, "MICROTIME")
      [] OTHER -> Then(parser_read_argument_list(pd),
                       LAMBDA p : Out(Out(p, IF p.num_args > 0 THEN Instr("REVERSE_STACK", <<>>, p.num_args)
                                             ELSE Instr("IDLE", <<>>, 0)),
                                      Instr("CALL", token, 0)))

\* a[] = e, a[i] = e and a[i].  Any "=" behind the bracket is an assignment.
ReadElement(pd, token) ==
    LET Assigned(p, op) == Then(parser_read_argument(Skip(p)), LAMBDA q : Out(q, Instr(op, token, 0)))
    IN  IF Peek(pd) = "]"
        THEN Then(EatSpaces(Skip(pd)), LAMBDA p : IF Peek(p) = "=" THEN Assigned(p, "ADD_ELEM") ELSE Fail(p))
        ELSE Then(Then(Expect(Read("expr", pd), "]"), EatSpaces),
                  LAMBDA p : IF Peek(p) = "=" THEN Assigned(p, "SET_ELEM")
                             ELSE Out(p, Instr("ACCESS", token, 0)))

ReadCocoonCall(pd, token) ==
    Then(Expect(pd, ":"),
         LAMBDA p : Expect(Then(Then(Expect(AfterName(p), "("), parser_read_argument_list),
                                LAMBDA q : Out(q, Instr("XCALL", <<token, NameAt(p)>>, q.num_args))),
                           ")"))

parser_read_builtin(pd) ==
    LET token == NameAt(pd)
        p == AfterName(pd)
    IN  Then(CASE ~(IsAlpha(Peek(pd)) \/ Peek(pd) = "_") -> parser_read_double(pd)
               [] Peek(p) = "(" -> Expect(ReadCall(Skip(p), token), ")")
               [] Peek(p) = "[" -> ReadElement(Skip(p), token)
               [] Peek(p) = ":" -> ReadCocoonCall(Skip(p), token)
               [] OTHER -> IF token = <<"_">> THEN Op(p, "AS_VOID") ELSE Out(p, Instr("AS_VAR", token, 0)),
             EatSpaces)

parser_read_paren(pd) ==
    IF Peek(pd) = "("
    THEN Then(Expect(ThenRead(Skip(pd), "boolean_or"), ")"), EatSpaces)
    ELSE parser_read_builtin(pd)

\* The second comparison of the code's "-" and "+" branches is of the same
\* character as the first, so it always holds: a sign here is a decrement or an
\* increment, of the whole term that follows.
parser_read_unary(pd) ==
    CASE Peek(pd) = "!" -> ThenOp(ThenRead(Skip(pd), "paren"), "INVERT")
      [] Peek(pd) = "-" -> ThenOp(ThenRead(Skip(pd), "term"), "DECR")
      [] Peek(pd) = "+" -> ThenOp(ThenRead(Skip(pd), "term"), "INCR")
      [] OTHER -> Read("paren", pd)

\* Seeded fault: the right operand of a power is a unary one, so that powers
\* associate to the left.
ExponentUnary(pd) == IF Peek(pd) = "-" THEN Fail(pd) ELSE ThenOp(parser_read_unary(pd), "POW")

\* The right operand of a power.
Exponent(pd) == IF Peek(pd) = "-" THEN Fail(pd) ELSE ThenOp(Read("power", pd), "POW")

RECURSIVE Powers(_)
Powers(pd) == IF Peek(pd) = "^" THEN Then(Then(EatSpaces(Skip(pd)), Exponent), Powers) ELSE pd
parser_read_power(pd) == Then(parser_read_unary(pd), Powers)

TermOp(c) == CASE c = "*" -> "MUL" [] c = "/" -> "DIV" [] c = "%" -> "MOD"
RECURSIVE Terms(_)
Terms(pd) ==
    IF Peek(pd) \in {"*", "/", "%"}
    THEN Then(ThenOp(ThenRead(Skip(pd), "power"), TermOp(Peek(pd))), Terms)
    ELSE pd
parser_read_term(pd) == Then(Read("power", pd), Terms)

\* A leading minus negates the first term, unless another minus follows it.
FirstTerm(pd) ==
    CASE Peek(pd) = "-" -> Then(EatSpaces(Skip(pd)),
                                LAMBDA p : IF Peek(p) = "-" THEN Read("term", p)
                                           ELSE ThenOp(Read("term", p), "UNARY_MINUS"))
      [] Peek(pd) = "+" -> ThenRead(Skip(pd), "term")
      [] OTHER -> Read("term", pd)

SumOp(c) == IF c = "+" THEN "ADD" ELSE "SUB"
RECURSIVE Sums(_)
Sums(pd) ==
    IF Peek(pd) \in {"+", "-"}
    THEN Then(ThenOp(ThenRead(Skip(pd), "term"), SumOp(Peek(pd))), Sums)
    ELSE pd
parser_read_expr(pd) == Then(FirstTerm(pd), Sums)

\* At most one comparison, and at most one equality or assignment.
ComparisonOp(c, orEqual) ==
    CASE c = "<" -> (IF orEqual THEN "LESS_EQ" ELSE "LESS") [] c = ">" -> (IF orEqual THEN "MORE_EQ" ELSE "MORE")
Compared(pd) ==
    LET orEqual == Peek(Skip(pd)) = "="
    IN  IF Peek(pd) \in {"<", ">"}
        THEN ThenOp(ThenRead(Skip(IF orEqual THEN Skip(pd) ELSE pd), "expr"),
                    ComparisonOp(Peek(pd), orEqual))
        ELSE pd
parser_read_boolean_comparison(pd) == Then(ThenRead(pd, "expr"), Compared)

Equated(pd) ==
    LET second == Peek(Skip(pd)) = "="
        op == CASE Peek(pd) = "!" -> "CMP_NOT" [] second -> "CMP" [] OTHER -> "SET"
    IN  IF Peek(pd) = "=" \/ (Peek(pd) = "!" /\ second)
        THEN ThenOp(ThenRead(Skip(IF second THEN Skip(pd) ELSE pd), "boolean_comparison"), op)
        ELSE pd
parser_read_boolean_equality(pd) == Then(Read("boolean_comparison", pd), Equated)

\* The second character of && and || is required.
Second(pd, c) == IF Peek(Skip(pd)) = c THEN EatSpaces(Skip(Skip(pd))) ELSE Fail(pd)

RECURSIVE Ands(_)
Ands(pd) ==
    IF Peek(pd) = "&" THEN Then(ThenOp(Then(Second(pd, "&"), LAMBDA p : Read("boolean_equality", p)), "AND"), Ands) ELSE pd
parser_read_boolean_and(pd) == Then(Read("boolean_equality", pd), Ands)

RECURSIVE Ors(_)
Ors(pd) ==
    IF Peek(pd) = "|" THEN Then(ThenOp(Then(Second(pd, "|"), LAMBDA p : Read("boolean_and", p)), "OR"), Ors) ELSE pd
parser_read_boolean_or(pd) == Then(Read("boolean_and", pd), Ors)

Read(reader, pd) ==
    CASE reader = "boolean_or" -> parser_read_boolean_or(pd)
      [] reader = "boolean_and" -> parser_read_boolean_and(pd)
      [] reader = "boolean_equality" -> parser_read_boolean_equality(pd)
      [] reader = "boolean_comparison" -> parser_read_boolean_comparison(pd)
      [] reader = "expr" -> parser_read_expr(pd)
      [] reader = "term" -> parser_read_term(pd)
      [] reader = "power" -> parser_read_power(pd)
      [] reader = "paren" -> parser_read_paren(pd)

\* parser_parse: all of the text is to be read.  An empty expression emits
\* nothing.
parse_expression(text) ==
    LET start == [s |-> Append(text, Nul), pos |-> 0, out |-> <<>>, ok |-> TRUE, num_args |-> 0, overrun |-> FALSE]
    IN  IF text = <<>> THEN start
        ELSE Then(Then(start, LAMBDA p : Read("boolean_or", p)),
                  LAMBDA p : IF p.pos < Len(text) THEN Fail(p) ELSE p)
=============================================================================

------------------------------ MODULE Operands ------------------------------
(***************************************************************************)
(* What the store of values (Store) and the heap of data (Values) share:   *)
(* instructions, numbers and strings, APath, and the rendering of heap     *)
(* objects as values.                                                      *)
(*                                                                         *)
(* A number is a term: a literal, or an operator with the terms it was     *)
(* applied to.  A string is a sequence of elements, each a character or a  *)
(* number as "%.6g" prints it.                                             *)
(***************************************************************************)
EXTENDS Integers, Sequences, FiniteSets, SequencesExt

\* name is the token of the instruction.  For SET, INCR and DECR, which have
\* none, it is the variable the source names on the left, if it names one: the
\* byte-code does not hold it and only Store reads it.
Instruction(op, name, n, lit) == [op |-> op, name |-> name, n |-> n, lit |-> lit]

None == "none"      \* no variable: a NULL ref

Lit(n) == <<"lit", n>>
Ch(c) == <<"char", c>>
Shown(term) == <<"%.6g", term>>

Binary == {"ADD", "SUB", "MUL", "DIV", "POW", "MOD", "AND", "OR"}
Comparisons == {"CMP", "CMP_NOT", "MORE", "MORE_EQ", "LESS", "LESS_EQ"}
Unary == {"INCR", "DECR", "INVERT", "UNARY_MINUS"}
Composite == {"ARRAY", "MAP"}

-----------------------------------------------------------------------------
(* The paths of var_apath.                                                  *)

Dot == Ch(".")
Digits == [d \in {Ch("0"), Ch("1"), Ch("2"), Ch("3")} |->
             CHOOSE n \in 0 .. 3 : d = Ch(ToString(n))]

\* strtok_r with ".": the longest runs without a dot.
Tokens(s) ==
    LET starts == {i \in DOMAIN s : s[i] # Dot /\ (i > 1 => s[i - 1] = Dot)}
        Stop(i) == CHOOSE j \in i .. Len(s) : /\ \A k \in i .. j : s[k] # Dot
                                              /\ j < Len(s) => s[j + 1] = Dot
        Start(n) == CHOOSE i \in starts : Cardinality({j \in starts : j <= i}) = n
    IN  [n \in 1 .. Cardinality(starts) |-> SubSeq(s, Start(n), Stop(Start(n)))]

\* atoi gives a number, or zero and the token starts with '0'.
IsIndex(token) == token[1] \in DOMAIN Digits
IndexOf(token) == Digits[token[1]]

-----------------------------------------------------------------------------
(* Heap objects.  An object is what a var's data points to, data counted    *)
(* from 1 and 0 for NULL.  The slots of an array are its vars, counted from *)
(* 1 where the code counts from 0; those of a map are its entries.          *)

Object(kind, val, slots, max_size, cap) ==
    [kind |-> kind, live |-> TRUE, val |-> val, slots |-> slots,
     max_size |-> max_size, cap |-> cap]

Scalar(kind, val) == Object(kind, val, <<>>, 0, 0)

Var(type, data, ref) == [type |-> type, data |-> data, ref |-> ref]
Zeroed == Var("UNSET", 0, None)         \* var v = {0}
Hole == Var("HOLE", 0, None)            \* a NULL among the vars of an array

\* The values that pointers stand for.
Plain(type, val) == [type |-> type, val |-> val, slots |-> <<>>]
Unset == Plain("UNSET", <<>>)
Null == Plain("NULL", <<>>)             \* "null - nothing, just nothing"
Freed == Plain("FREED", <<>>)
Composed(type, slots) == [type |-> type, val |-> <<>>, slots |-> slots]

\* Depth of the deepest value.
Nesting == 3

ValueOf(h, v) ==
    LET Of[w \in {v} \cup UNION {Range(h[a].slots) : a \in DOMAIN h}, depth \in 0 .. Nesting] ==
          IF w.data = 0
          THEN CASE w.type = "HOLE" -> Plain("HOLE", <<>>)
                 [] w.type = "UNSET" -> Unset
                 [] OTHER -> Null
          ELSE LET o == h[w.data]
               IN  CASE ~o.live -> Freed
                     [] o.kind \in Composite ->
                          Composed(o.kind, [s \in DOMAIN o.slots |-> Of[o.slots[s], depth - 1]])
                     [] OTHER -> Plain(o.kind, o.val)
    IN  Of[v, Nesting]
=============================================================================

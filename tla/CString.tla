------------------------------ MODULE CString ------------------------------
(***************************************************************************)
(* The text routines of core/sys.c and of the cocoons, as functions of C   *)
(* strings.  A string is a sequence of cells without its NUL; positions    *)
(* are counted from 1, and Len(s) + 1 is the NUL.                          *)
(***************************************************************************)
EXTENDS Vars, Integers, Sequences, FiniteSets, SequencesExt

CONSTANT WordSize       \* sizeof(size_t)

ASSUME CStringAssumption == WordSize \in Nat \ {0}

Blank == " "
Continuation == "cont"  \* a byte 10xxxxxx of UTF-8

-----------------------------------------------------------------------------
(* trim: the pointers stop at the first cell from the front that is not a   *)
(* space, be it the NUL, and at the first from the end.  In a text of       *)
(* spaces only the second one runs out of the buffer: it stops at the byte  *)
(* in front of it, which in a block of malloc is the zero at the end of the *)
(* block's size.                                                            *)

Frontp(s) == CHOOSE i \in 1 .. Len(s) + 1 : /\ \A j \in 1 .. i - 1 : s[j] = Blank
                                            /\ i = Len(s) + 1 \/ s[i] # Blank
Endp(s) == CHOOSE i \in 0 .. Len(s) : /\ \A j \in i + 1 .. Len(s) : s[j] = Blank
                                      /\ i = 0 \/ s[i] # Blank
trim(s) == SubSeq(s, Frontp(s), Endp(s))

-----------------------------------------------------------------------------
(* str_replace.  strstr from position p, and 0 for NULL.                    *)

Matches(s, old) == {q \in 1 .. Len(s) - Len(old) + 1 : SubSeq(s, q, q + Len(old) - 1) = old}
strstr(s, p, old) ==
    LET found == {q \in Matches(s, old) : q >= p}
    IN  IF found = {} THEN 0 ELSE CHOOSE q \in found : \A r \in found : q <= r

\* The first pass, when the sizes differ: how often, and where it ends.
RECURSIVE Counted(_, _, _)
Counted(s, p, old) ==
    LET q == strstr(s, p, old)
    IN  IF q = 0 THEN [count |-> 0, p |-> p]
        ELSE LET rest == Counted(s, q + Len(old), old) IN [rest EXCEPT !.count = @ + 1]

retlen(s, old, new) ==
    LET pass == Counted(s, 1, old)
    IN  IF Len(old) = Len(new) THEN Len(s)
        ELSE (pass.p - 1) + (Len(s) - pass.p + 1) + pass.count * (Len(new) - Len(old))

\* The second pass from p.  With different sizes it is ended by the count.
RECURSIVE Rewritten(_, _, _, _, _)
Rewritten(s, p, old, new, count) ==
    LET q == strstr(s, p, old)
    IN  IF (Len(old) # Len(new) /\ count = 0) \/ q = 0 THEN SubSeq(s, p, Len(s))
        ELSE SubSeq(s, p, q - 1) \o new \o Rewritten(s, q + Len(old), old, new, count - 1)

\* Neither pass ends when the text looked for is empty.
Ends(old) == old # <<>>
str_replace(s, old, new) == Rewritten(s, 1, old, new, Counted(s, 1, old).count)

-----------------------------------------------------------------------------
(* cp_strlen_utf8 of a string at an address that is align over a word: the  *)
(* bytes up to the first whole word, the words without a zero, the rest.    *)

Within(s, from, to) == Cardinality({i \in from .. to : s[i] = Continuation})
HeadSize(s, align) == LET k == (WordSize - align) % WordSize IN IF k > Len(s) THEN Len(s) ELSE k
WordsSize(s, align) == ((Len(s) - HeadSize(s, align)) \div WordSize) * WordSize

\* Seeded fault: the bytes behind the last whole word are not looked at.
LengthWithoutRest(s, align) ==
    LET h == HeadSize(s, align)
        w == h + WordsSize(s, align)
    IN  Len(s) - (Within(s, 1, h) + Within(s, h + 1, w))

cp_strlen_utf8(s, align) ==
    LET h == HeadSize(s, align)
        w == h + WordsSize(s, align)
    IN  Len(s) - (Within(s, 1, h) + Within(s, h + 1, w) + Within(s, w + 1, Len(s)))

-----------------------------------------------------------------------------
(* strtok_r called until it returns NULL: the longest runs without a        *)
(* separator.                                                               *)

Tokens(s, separators) ==
    LET starts == {i \in DOMAIN s : s[i] \notin separators /\ (i > 1 => s[i - 1] \in separators)}
        Stop(i) == CHOOSE j \in i .. Len(s) : /\ \A k \in i .. j : s[k] \notin separators
                                              /\ j < Len(s) => s[j + 1] \in separators
        order == SetToSortSeq(starts, <)
    IN  [i \in DOMAIN order |-> SubSeq(s, order[i], Stop(order[i]))]

\* The key and the value of a pair, each NULL when it is not there.
Pair(token) ==
    LET parts == Tokens(token, {"="})
    IN  [key |-> IF parts = <<>> THEN NULL ELSE parts[1], val |-> IF Len(parts) < 2 THEN NULL ELSE parts[2]]
=============================================================================

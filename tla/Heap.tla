-------------------------------- MODULE Heap --------------------------------
(***************************************************************************)
(* The data that variables and operands point to: what op_copy, op_add     *)
(* (core/operator.c), var_unset, var_apath (core/var.c), arrays            *)
(* (core/array.c) and maps (core/map.c) do to it.                          *)
(*                                                                         *)
(* A memory m is the objects allocated so far, with a flag that says that  *)
(* undefined behaviour happened: a datum used or freed after it was freed, *)
(* a NULL or foreign pointer followed.  An address is never used twice, so *)
(* that a use after free cannot go unseen.                                 *)
(***************************************************************************)
EXTENDS Operands, FiniteSetsExt

CONSTANT MinArray       \* MIN_ARRAY_SIZE
ASSUME MinArrayAssumption == MinArray \in Nat \ {0}

\* v's data are there, not freed, and what its type says.
Good(m, v) == v.data \in DOMAIN m.h /\ m.h[v.data].live /\ m.h[v.data].kind = v.type

Spoilt(m, cond) == [m EXCEPT !.bad = @ \/ cond]

\* A datum with everything below it.
Children(o) == {w.data : w \in Range(o.slots)} \ {0}
Below(h, S) == UNION {Children(h[b]) : b \in S}
Reach(h, a) ==
    LET R[S \in SUBSET DOMAIN h] ==
          IF Below(h, S) \subseteq S THEN S ELSE R[S \cup Below(h, S)]
    IN  R[{a}]

DataOf(m, v) == IF v.data = 0 THEN {} ELSE Reach(m.h, v.data)

-----------------------------------------------------------------------------
(* var_unset, one var after the other.                                      *)

Free(m, vs) ==
    LET gone == UNION {DataOf(m, vs[i]) : i \in DOMAIN vs}
    IN  [h |-> [a \in DOMAIN m.h |-> [m.h[a] EXCEPT !.live = @ /\ a \notin gone]],
         bad |-> \/ m.bad
                 \/ \E a \in gone : ~m.h[a].live
                 \/ \E i, j \in DOMAIN vs : i # j /\ DataOf(m, vs[i]) \cap DataOf(m, vs[j]) # {}]

-----------------------------------------------------------------------------
(* Allocating.  A fragment is a sequence of objects that point to each      *)
(* other by their places in it, the first being the one all others are      *)
(* below.                                                                   *)

Moved(o, to(_)) ==
    LET moved(w) == IF w.data = 0 THEN w ELSE [w EXCEPT !.data = to(w.data)]
    IN  [o EXCEPT !.slots = [s \in DOMAIN o.slots |-> moved(o.slots[s])]]

Allocate(m, fragment) ==
    [m EXCEPT !.h = @ \o [i \in DOMAIN fragment |->
                            Moved(fragment[i], LAMBDA p : p + Len(m.h))]]

Fresh(m, type) == Var(type, Len(m.h) + 1, None)

\* array_clone allocates room for max_size vars of the original and records
\* another max_size.
ClonedArray(o) ==
    [o EXCEPT !.max_size = Max({Len(o.slots), MinArray}), !.cap = o.max_size]

\* array_clone, map_table_clone, or malloc and memcpy.
Clone(m, v) ==
    LET all == DataOf(m, v)
        order == <<v.data>> \o SetToSeq(all \ {v.data})
        copies == [i \in DOMAIN order |->
                     LET o == m.h[order[i]]
                     IN  Moved(IF o.kind = "ARRAY" THEN ClonedArray(o) ELSE o,
                               LAMBDA p : CHOOSE j \in DOMAIN order : order[j] = p)]
    IN  Spoilt(Allocate(m, copies), ~Good(m, v) \/ \E a \in all : a \notin DOMAIN m.h \/ ~m.h[a].live)

-----------------------------------------------------------------------------
(* op_copy.                                                                 *)

\* data_size: a string's grows with it, the others' are constants.
SameSize(m, a, b) ==
    a.type = b.type /\ (a.type = "STRING" => Len(m.h[a.data].val) = Len(m.h[b.data].val))

op_copy(m, a, b) ==
    LET taken == [b EXCEPT !.data = Len(m.h) + 1]
    IN  IF b.data = 0 THEN [m |-> m, v |-> b]
        ELSE IF a.data = 0 THEN [m |-> Clone(m, b), v |-> taken]
        ELSE IF SameSize(m, a, b)
        THEN IF a.type \in Composite
             THEN [m |-> Clone(m, b), v |-> [a EXCEPT !.data = Len(m.h) + 1]]
             ELSE [m |-> [h |-> [m.h EXCEPT ![a.data].val = m.h[b.data].val],
                          bad |-> m.bad \/ ~Good(m, a) \/ ~Good(m, b)],
                   v |-> a]
        ELSE [m |-> Clone(Free(m, <<a>>), b), v |-> taken]

-----------------------------------------------------------------------------
(* Arrays: vars has room for cap elements.                                  *)

\* Seeded fault: the new max_size without the realloc.
PushWithoutRoom(m, a, v) ==
    LET o == m.h[a]
    IN  [m EXCEPT !.h[a] = [o EXCEPT !.slots = Append(@, v),
                                     !.max_size = IF Len(o.slots) >= @ THEN 2 * @ ELSE @]]

array_push(m, a, v) ==
    LET o == m.h[a]
        new == IF o.max_size < MinArray THEN 2 * MinArray ELSE 2 * o.max_size
    IN  [m EXCEPT !.h[a] =
           IF Len(o.slots) >= o.max_size
           THEN [o EXCEPT !.slots = Append(@, v), !.max_size = new, !.cap = new]
           ELSE [o EXCEPT !.slots = Append(@, v)]]

\* index counts from 0.  Slots that were never set become NULL.
array_set_elem(m, a, index, v) ==
    LET o == m.h[a]
        new == Max({index + 1, 2 * o.max_size})
        long == [i \in 1 .. index + 1 |->
                   IF i = index + 1 THEN v ELSE IF i <= Len(o.slots) THEN o.slots[i] ELSE Hole]
    IN  [m EXCEPT !.h[a] =
           IF index < Len(o.slots) THEN [o EXCEPT !.slots[index + 1] = v]
           ELSE IF index < o.max_size THEN [o EXCEPT !.slots = long]
           ELSE [o EXCEPT !.slots = long, !.max_size = new, !.cap = new]]

\* array + array: the elements of b move to a.
Join(m, a, b) ==
    LET o == m.h[a]
        all == o.slots \o m.h[b].slots
    IN  [m EXCEPT !.h[a] =
           IF o.max_size < Len(all)
           THEN [o EXCEPT !.slots = all, !.max_size = Len(all), !.cap = Len(all)]
           ELSE [o EXCEPT !.slots = all]]

\* map_add: an entry that exists is not inserted again.
map_add(m, a, key, v) ==
    IF key \in DOMAIN m.h[a].slots THEN m
    ELSE [m EXCEPT !.h[a].slots = [k \in DOMAIN @ \cup {key} |-> IF k = key THEN v ELSE @[k]]]

-----------------------------------------------------------------------------
(* var_apath: the slot a path leads to.                                     *)

Nowhere == [how |-> "null", v |-> Zeroed, a |-> 0, slot |-> 0]    \* NULL is returned
Wild == [Nowhere EXCEPT !.how = "wild"]                           \* not a var's address
Place(m, a, slot) == [how |-> "slot", v |-> m.h[a].slots[slot], a |-> a, slot |-> slot]

\* One token further.  map_lookup may give NULL and vars is indexed without a
\* check: what is reached then is not a var.
Further(m, at, token) ==
    IF at.how \in {"null", "wild"} THEN at
    ELSE IF at.v = Hole THEN Wild
    ELSE IF at.v.type # (IF IsIndex(token) THEN "ARRAY" ELSE "MAP") THEN Nowhere
    ELSE IF ~Good(m, at.v) THEN Wild
    ELSE LET slot == IF IsIndex(token) THEN IndexOf(token) + 1 ELSE token
         IN  IF slot \in DOMAIN m.h[at.v.data].slots THEN Place(m, at.v.data, slot) ELSE Wild

var_apath(m, v, path) ==
    LET tokens == Tokens(path)
        reached[i \in 0 .. Len(tokens)] ==
          IF i = 0 THEN [Nowhere EXCEPT !.how = "variable", !.v = v]
          ELSE Further(m, reached[i - 1], tokens[i])
        end == reached[Len(tokens)]
    IN  IF end.how = "slot" /\ end.v = Hole THEN Nowhere ELSE end
=============================================================================

---------------------------- MODULE ValuesProofs ----------------------------
(***************************************************************************)
(* Proofs about Heap and Values, for every program whose literals leave    *)
(* room in their arrays.                                                   *)
(***************************************************************************)
EXTENDS Values, FiniteSetTheorems, TLAPS

-----------------------------------------------------------------------------
(* Memories in which every array fits.                                      *)

List(s) == s \in Seq(Range(s))

Shaped(o) == DOMAIN o = {"kind", "live", "val", "slots", "max_size", "cap"}

\* An array has no more elements than max_size says, max_size is no more than
\* what was allocated and no less than what array_clone will record of a copy.
Fits(o) ==
    /\ List(o.slots) /\ o.max_size \in Nat /\ o.cap \in Nat
    /\ Len(o.slots) <= o.max_size /\ o.max_size <= o.cap /\ MinArray <= o.max_size

Sized(o) == Shaped(o) /\ (o.kind = "ARRAY" => Fits(o))
AllSized(h) == List(h) /\ \A a \in DOMAIN h : Sized(h[a])

\* Of a memory in which undefined behaviour happened nothing is said.
Memory(m) == DOMAIN m = {"h", "bad"} /\ (m.bad \/ AllSized(m.h))

-----------------------------------------------------------------------------
(* Sequences.                                                               *)

\* What is a sequence of anything is a list.
LEMMA ListOf ==
    ASSUME NEW T, NEW s \in Seq(T)
    PROVE  List(s)
  BY DEF List, Range

\* A function on 1 .. n is a list of length n.
LEMMA ListOn ==
    ASSUME NEW s, NEW n \in Nat, s = [i \in 1 .. n |-> s[i]]
    PROVE  List(s) /\ Len(s) = n /\ DOMAIN s = 1 .. n
<1>1. s \in Seq({s[i] : i \in 1 .. n})
  OBVIOUS
<1> QED
  BY <1>1, ListOf

\* The places of a list.
LEMMA ListType ==
    ASSUME NEW s, List(s)
    PROVE  /\ Len(s) \in Nat /\ DOMAIN s = 1 .. Len(s)
           /\ s = [i \in 1 .. Len(s) |-> s[i]]
  BY DEF List

\* Two lists joined.
LEMMA ListJoin ==
    ASSUME NEW s, NEW t, List(s), List(t)
    PROVE  /\ List(s \o t) /\ Len(s \o t) = Len(s) + Len(t)
           /\ \A i \in DOMAIN (s \o t) :
                (s \o t)[i] = IF i <= Len(s) THEN s[i] ELSE t[i - Len(s)]
<1> DEFINE T == Range(s) \cup Range(t)
<1>1. s \in Seq(T) /\ t \in Seq(T)
  BY DEF List
<1>2. s \o t \in Seq(T)
  BY <1>1
<1> HIDE DEF T
<1>3. List(s \o t)
  BY <1>2, ListOf
<1> QED
  BY <1>1, <1>2, <1>3

\* A list and one element more.
LEMMA ListAppend ==
    ASSUME NEW s, List(s), NEW v
    PROVE  List(Append(s, v)) /\ Len(Append(s, v)) = Len(s) + 1
<1> DEFINE T == Range(s) \cup {v}
<1>1. s \in Seq(T) /\ v \in T
  BY DEF List
<1> HIDE DEF T
<1>2. Append(s, v) \in Seq(T) /\ Len(Append(s, v)) = Len(s) + 1
  BY <1>1
<1> QED
  BY <1>2, ListOf

\* A list with other elements at the same places.
LEMMA ListSame ==
    ASSUME NEW s, List(s), NEW t, t = [i \in DOMAIN s |-> t[i]]
    PROVE  List(t) /\ Len(t) = Len(s)
<1>1. t = [i \in 1 .. Len(s) |-> t[i]] /\ Len(s) \in Nat
  BY ListType
<1> QED
  BY <1>1, ListOn

\* A list without its first element.
LEMMA ListTail ==
    ASSUME NEW s, List(s), s # <<>>
    PROVE  /\ List(Tail(s)) /\ 1 \in DOMAIN s
           /\ \A i \in DOMAIN Tail(s) : i + 1 \in DOMAIN s /\ Tail(s)[i] = s[i + 1]
<1>1. Tail(s) \in Seq(Range(s)) /\ Len(s) \in Nat /\ Len(s) >= 1
  BY DEF List
<1>2. List(Tail(s))
  BY <1>1, ListOf
<1> QED
  BY <1>1, <1>2, ListType DEF List

-----------------------------------------------------------------------------
(* Objects.                                                                 *)

\* The greater of two numbers.
LEMMA MaxOfTwo ==
    ASSUME NEW i \in Int, NEW j \in Int
    PROVE  Max({i, j}) = IF i >= j THEN i ELSE j
  BY DEF Max

\* Numbers and strings have no array to fit.
LEMMA ScalarSized ==
    ASSUME NEW kind, NEW val, kind # "ARRAY"
    PROVE  Sized(Scalar(kind, val)) /\ Scalar(kind, val).kind = kind
  BY DEF Sized, Shaped, Scalar, Object

\* A datum stays sized when its content changes, or when it is freed.
LEMMA ValSized ==
    ASSUME NEW o, Sized(o), NEW x
    PROVE  Sized([o EXCEPT !.val = x]) /\ Sized([o EXCEPT !.live = x])
  BY DEF Sized, Shaped, Fits

\* An array stays sized when its elements are others.
LEMMA SlotsSized ==
    ASSUME NEW o, Sized(o), NEW t, t = [i \in DOMAIN o.slots |-> t[i]]
    PROVE  Sized([o EXCEPT !.slots = t])
<1>1. CASE o.kind = "ARRAY"
  <2>1. List(t) /\ Len(t) = Len(o.slots)
    BY <1>1, ListSame DEF Sized, Fits
  <2> QED
    BY <1>1, <2>1 DEF Sized, Shaped, Fits
<1>2. CASE o.kind # "ARRAY"
  BY <1>2 DEF Sized, Shaped
<1> QED
  BY <1>1, <1>2

\* array_clone: the copy's max_size is not above the room it was given.
LEMMA CloneSized ==
    ASSUME NEW o, Sized(o), o.kind = "ARRAY"
    PROVE  Sized(ClonedArray(o))
<1>1. Len(o.slots) \in Nat /\ MinArray \in Nat
  BY ListType, MinArrayAssumption DEF Sized, Fits
<1>2. Max({Len(o.slots), MinArray}) = IF Len(o.slots) >= MinArray THEN Len(o.slots) ELSE MinArray
  BY <1>1, MaxOfTwo
<1> QED
  BY <1>1, <1>2 DEF ClonedArray, Sized, Shaped, Fits

-----------------------------------------------------------------------------
(* Memories.                                                                *)

\* A memory is one whatever else went wrong in it.
LEMMA SpoiltMemory ==
    ASSUME NEW m, Memory(m), NEW cond
    PROVE  Memory(Spoilt(m, cond))
  BY DEF Memory, Spoilt

\* A bad memory is one.
LEMMA BadMemory ==
    ASSUME NEW m, DOMAIN m = {"h", "bad"}, m.bad
    PROVE  Memory(m)
  BY DEF Memory

\* One datum changed.
LEMMA Changed ==
    ASSUME NEW h, AllSized(h), NEW a, NEW o, a \in DOMAIN h => Sized(o)
    PROVE  AllSized([h EXCEPT ![a] = o])
<1> DEFINE g == [h EXCEPT ![a] = o]
<1>1. g = [b \in DOMAIN h |-> g[b]]
  OBVIOUS
<1>2. \A b \in DOMAIN h : Sized(g[b])
  BY DEF AllSized
<1>3. DOMAIN g = DOMAIN h
  OBVIOUS
<1> HIDE DEF g
<1>4. List(g)
  BY <1>1, ListSame DEF AllSized
<1>5. AllSized(g)
  BY <1>2, <1>3, <1>4 DEF AllSized
<1> QED
  BY <1>5 DEF g

LEMMA ChangedMemory ==
    ASSUME NEW m, Memory(m), NEW a, NEW o, ~m.bad /\ a \in DOMAIN m.h => Sized(o)
    PROVE  Memory([m EXCEPT !.h[a] = o])
<1> DEFINE n == [m EXCEPT !.h[a] = o]
<1>1. DOMAIN n = {"h", "bad"} /\ n.bad = m.bad /\ n.h = [m.h EXCEPT ![a] = o]
  BY DEF Memory
<1>2. ~m.bad => AllSized(n.h)
  BY <1>1, Changed DEF Memory
<1> QED
  BY <1>1, <1>2 DEF Memory

\* var_unset leaves the arrays as they are.
LEMMA FreeMemory ==
    ASSUME NEW m, Memory(m), NEW vs
    PROVE  Memory(Free(m, vs)) /\ (AllSized(m.h) => AllSized(Free(m, vs).h))
<1> DEFINE gone == UNION {DataOf(m, vs[i]) : i \in DOMAIN vs}
           g == [a \in DOMAIN m.h |-> [m.h[a] EXCEPT !.live = @ /\ a \notin gone]]
<1>1. Free(m, vs).h = g
  BY DEF Free
<1>2. DOMAIN Free(m, vs) = {"h", "bad"} /\ (m.bad => Free(m, vs).bad)
  BY DEF Free
<1>3. ASSUME AllSized(m.h)
      PROVE  AllSized(g)
  <2>1. \A a \in DOMAIN m.h : Sized(g[a])
    BY <1>3, ValSized DEF AllSized
  <2>2. DOMAIN g = DOMAIN m.h /\ g = [a \in DOMAIN m.h |-> g[a]]
    OBVIOUS
  <2> HIDE DEF g
  <2>3. List(g)
    BY <1>3, <2>2, ListSame DEF AllSized
  <2> QED
    BY <2>1, <2>2, <2>3 DEF AllSized
<1> HIDE DEF g
<1> QED
  BY <1>1, <1>2, <1>3 DEF Memory

\* Objects that are sized, moved to where they are allocated.
LEMMA AllocateSized ==
    ASSUME NEW m, "h" \in DOMAIN m, AllSized(m.h), NEW fragment, AllSized(fragment)
    PROVE  AllSized(Allocate(m, fragment).h)
<1> DEFINE slots(i) == [s \in DOMAIN fragment[i].slots |->
                          IF fragment[i].slots[s].data = 0 THEN fragment[i].slots[s]
                          ELSE [fragment[i].slots[s] EXCEPT !.data = fragment[i].slots[s].data + Len(m.h)]]
           new == [i \in DOMAIN fragment |-> [fragment[i] EXCEPT !.slots = slots(i)]]
           h == m.h \o new
<1>2. \A i \in DOMAIN fragment : Sized(new[i])
  <2> TAKE i \in DOMAIN fragment
  <2>1. slots(i) = [s \in DOMAIN fragment[i].slots |-> slots(i)[s]]
    OBVIOUS
  <2> HIDE DEF slots
  <2> QED
    BY <2>1, SlotsSized DEF AllSized
<1>3. DOMAIN new = DOMAIN fragment /\ new = [i \in DOMAIN fragment |-> new[i]]
  OBVIOUS
<1> HIDE DEF slots
<1>4. List(new) /\ Len(new) = Len(fragment)
  BY <1>3, ListSame DEF AllSized
<1> HIDE DEF new
<1>5. /\ List(h) /\ Len(h) = Len(m.h) + Len(new)
      /\ \A i \in DOMAIN h : h[i] = IF i <= Len(m.h) THEN m.h[i] ELSE new[i - Len(m.h)]
  BY <1>4, ListJoin DEF AllSized
<1>6. Len(m.h) \in Nat /\ DOMAIN m.h = 1 .. Len(m.h)
  BY ListType DEF AllSized
<1>7. Len(new) \in Nat /\ DOMAIN new = 1 .. Len(new) /\ DOMAIN h = 1 .. Len(m.h) + Len(new)
  BY <1>4, <1>5, ListType
<1> HIDE DEF h
<1>8. AllSized(h)
  <2> SUFFICES ASSUME NEW i \in DOMAIN h PROVE Sized(h[i])
    BY <1>5 DEF AllSized
  <2>1. CASE i <= Len(m.h)
    BY <1>5, <1>6, <1>7, <2>1 DEF AllSized
  <2>2. CASE i > Len(m.h)
    <3>1. i - Len(m.h) \in DOMAIN new
      BY <1>6, <1>7, <2>2
    <3>2. h[i] = new[i - Len(m.h)]
      BY <1>5, <1>6, <1>7, <2>2
    <3> QED
      BY <1>2, <1>3, <3>1, <3>2
  <2> QED
    BY <1>6, <1>7, <2>1, <2>2
<1>9. Allocate(m, fragment).h = h
  BY DEF h, new, slots, Allocate, Moved
<1> QED
  BY <1>8, <1>9

\* The members of a finite set, in some order.
LEMMA SetToSeqList ==
    ASSUME NEW T, IsFiniteSet(T)
    PROVE  List(SetToSeq(T)) /\ \A i \in DOMAIN SetToSeq(T) : SetToSeq(T)[i] \in T
<1>1. Cardinality(T) \in Nat /\ ExistsBijection(1 .. Cardinality(T), T)
  BY FS_CardinalityType
<1>2. \E f \in [1 .. Cardinality(T) -> T] : IsInjective(f)
  BY <1>1 DEF ExistsBijection, Bijection, Injection
<1>3. SetToSeq(T) \in [1 .. Cardinality(T) -> T]
  BY <1>2 DEF SetToSeq
<1>4. SetToSeq(T) \in Seq(T)
  BY <1>1, <1>3
<1> QED
  BY <1>3, <1>4, ListOf

\* A copy of a datum with everything below it is sized as the datum is.
LEMMA CloneMemory ==
    ASSUME NEW m, Memory(m), NEW v
    PROVE  Memory(Clone(m, v))
<1> DEFINE all == DataOf(m, v)
           order == <<v.data>> \o SetToSeq(all \ {v.data})
           place(p) == CHOOSE j \in DOMAIN order : order[j] = p
           kept(o) == IF o.kind = "ARRAY" THEN ClonedArray(o) ELSE o
           slots(o) == [s \in DOMAIN o.slots |->
                          IF o.slots[s].data = 0 THEN o.slots[s]
                          ELSE [o.slots[s] EXCEPT !.data = place(o.slots[s].data)]]
           copy(o) == [o EXCEPT !.slots = slots(o)]
           copies == [i \in DOMAIN order |-> copy(kept(m.h[order[i]]))]
           spoilt == ~Good(m, v) \/ \E a \in all : a \notin DOMAIN m.h \/ ~m.h[a].live
<1>1. Clone(m, v) = Spoilt(Allocate(m, copies), spoilt)
  BY DEF Clone, Moved
<1>2. DOMAIN Clone(m, v) = {"h", "bad"} /\ Clone(m, v).bad = (m.bad \/ spoilt)
  BY <1>1 DEF Spoilt, Allocate, Memory
<1>3. Clone(m, v).h = Allocate(m, copies).h
  BY <1>1 DEF Spoilt, Allocate, Memory
<1> HIDE DEF order, place
<1>4. ASSUME NEW o, Sized(o)
      PROVE  Sized(copy(kept(o)))
  <2>1. Sized(kept(o))
    BY <1>4, CloneSized
  <2> HIDE DEF kept
  <2>2. slots(kept(o)) = [s \in DOMAIN kept(o).slots |-> slots(kept(o))[s]]
    OBVIOUS
  <2> HIDE DEF slots
  <2> QED
    BY <2>1, <2>2, SlotsSized
<1> HIDE DEF copy, kept
<1>5. ASSUME ~m.bad, ~spoilt
      PROVE  AllSized(Allocate(m, copies).h)
  <2>1. AllSized(m.h) /\ v.data \in DOMAIN m.h /\ all \subseteq DOMAIN m.h
    BY <1>5 DEF Memory, Good
  <2>2. IsFiniteSet(DOMAIN m.h)
    BY <2>1, ListType, FS_Interval DEF AllSized
  <2>3. IsFiniteSet(all \ {v.data})
    BY <2>1, <2>2, FS_Subset
  <2> DEFINE rest == SetToSeq(all \ {v.data})
  <2>4. List(rest) /\ \A i \in DOMAIN rest : rest[i] \in DOMAIN m.h
    BY <2>1, <2>3, SetToSeqList
  <2> HIDE DEF rest
  <2>5. List(<<v.data>>) /\ Len(<<v.data>>) = 1 /\ <<v.data>>[1] = v.data
    <3>1. <<v.data>> \in Seq({v.data})
      OBVIOUS
    <3> QED
      BY <3>1, ListOf
  <2>6. /\ List(order) /\ Len(order) = 1 + Len(rest)
        /\ \A i \in DOMAIN order : order[i] = IF i <= 1 THEN <<v.data>>[i] ELSE rest[i - 1]
    BY <2>4, <2>5, ListJoin DEF order, rest
  <2>7. \A i \in DOMAIN order : order[i] \in DOMAIN m.h
    <3> TAKE i \in DOMAIN order
    <3>1. Len(rest) \in Nat /\ DOMAIN rest = 1 .. Len(rest) /\ i \in 1 .. 1 + Len(rest)
      BY <2>4, <2>6, ListType
    <3>2. CASE i = 1
      BY <2>1, <2>5, <2>6, <3>2
    <3>3. CASE i # 1
      <4>1. i - 1 \in DOMAIN rest /\ order[i] = rest[i - 1]
        BY <2>6, <3>1, <3>3
      <4> QED
        BY <2>4, <4>1
    <3> QED
      BY <3>2, <3>3
  <2>8. \A i \in DOMAIN order : Sized(copies[i])
    BY <1>4, <2>1, <2>7 DEF AllSized
  <2>9. DOMAIN copies = DOMAIN order /\ copies = [i \in DOMAIN order |-> copies[i]]
    OBVIOUS
  <2> HIDE DEF copies
  <2>10. AllSized(copies)
    BY <2>6, <2>8, <2>9, ListSame DEF AllSized
  <2> QED
    BY <2>1, <2>10, AllocateSized DEF Memory
<1> QED
  BY <1>2, <1>3, <1>5 DEF Memory

\* Sized objects allocated.
LEMMA AllocateMemory ==
    ASSUME NEW m, Memory(m), NEW fragment, AllSized(fragment)
    PROVE  Memory(Allocate(m, fragment))
<1>1. DOMAIN Allocate(m, fragment) = {"h", "bad"} /\ Allocate(m, fragment).bad = m.bad
  BY DEF Allocate, Memory
<1>2. ~m.bad => AllSized(Allocate(m, fragment).h)
  BY AllocateSized DEF Memory
<1> QED
  BY <1>1, <1>2 DEF Memory

\* A number or a string allocated.
LEMMA ScalarMemory ==
    ASSUME NEW m, Memory(m), NEW kind, NEW val, kind # "ARRAY"
    PROVE  Memory(Allocate(m, <<Scalar(kind, val)>>))
<1> DEFINE o == Scalar(kind, val)
<1>1. Sized(o)
  BY ScalarSized
<1> HIDE DEF o
<1>2. <<o>> \in Seq({o}) /\ DOMAIN <<o>> = {1} /\ <<o>>[1] = o
  OBVIOUS
<1>3. AllSized(<<o>>)
  BY <1>1, <1>2, ListOf DEF AllSized
<1> QED
  BY <1>3, AllocateMemory DEF o

\* The content of one datum changed.
LEMMA ValMemory ==
    ASSUME NEW m, Memory(m), NEW a, NEW x
    PROVE  Memory([m EXCEPT !.h[a].val = x])
<1>1. ~m.bad /\ a \in DOMAIN m.h => Sized([m.h[a] EXCEPT !.val = x])
  BY ValSized DEF Memory, AllSized
<1> QED
  BY <1>1, ChangedMemory

\* op_copy, whatever it copies to.
LEMMA CopyMemory ==
    ASSUME NEW m, Memory(m), NEW a, NEW b
    PROVE  Memory(op_copy(m, a, b).m)
<1>1. Memory(Clone(m, b))
  BY CloneMemory
<1>2. Memory(Clone(Free(m, <<a>>), b))
  BY CloneMemory, FreeMemory
<1>3. Memory([h |-> [m.h EXCEPT ![a.data].val = m.h[b.data].val],
              bad |-> m.bad \/ ~Good(m, a) \/ ~Good(m, b)])
  <2> DEFINE o == [m.h[a.data] EXCEPT !.val = m.h[b.data].val]
  <2>1. ~m.bad /\ a.data \in DOMAIN m.h => Sized(o)
    BY ValSized DEF Memory, AllSized
  <2> HIDE DEF o
  <2>2. ~m.bad => AllSized([m.h EXCEPT ![a.data] = o])
    BY <2>1, Changed DEF Memory
  <2> QED
    BY <2>2 DEF Memory, o
<1> QED
  BY <1>1, <1>2, <1>3 DEF op_copy

-----------------------------------------------------------------------------
(* Arrays and maps.                                                         *)

\* array_push.
LEMMA PushMemory ==
    ASSUME NEW m, Memory(m), NEW a, m.h[a].kind = "ARRAY", NEW v
    PROVE  Memory(array_push(m, a, v))
<1> DEFINE o == m.h[a]
           new == IF o.max_size < MinArray THEN 2 * MinArray ELSE 2 * o.max_size
           longer == IF Len(o.slots) >= o.max_size
                     THEN [o EXCEPT !.slots = Append(o.slots, v), !.max_size = new, !.cap = new]
                     ELSE [o EXCEPT !.slots = Append(o.slots, v)]
<1>1. ASSUME ~m.bad, a \in DOMAIN m.h
      PROVE  Sized(longer)
  <2>1. Shaped(o) /\ Fits(o) /\ o.kind = "ARRAY"
    BY <1>1 DEF Memory, AllSized, Sized
  <2>2. List(Append(o.slots, v)) /\ Len(Append(o.slots, v)) = Len(o.slots) + 1
    BY <2>1, ListAppend DEF Fits
  <2>3. Len(o.slots) \in Nat /\ MinArray \in Nat \ {0}
    BY <2>1, ListType, MinArrayAssumption DEF Fits
  <2> HIDE DEF o
  <2>4. CASE Len(o.slots) >= o.max_size
    <3>1. new \in Nat /\ Len(o.slots) + 1 <= new /\ MinArray <= new
      BY <2>1, <2>3 DEF Fits
    <3> HIDE DEF new
    <3> QED
      BY <2>1, <2>2, <2>4, <3>1 DEF Fits, Sized, Shaped
  <2>5. CASE Len(o.slots) < o.max_size
    BY <2>1, <2>2, <2>3, <2>5 DEF Fits, Sized, Shaped
  <2> QED
    BY <2>1, <2>3, <2>4, <2>5 DEF Fits
<1> HIDE DEF longer
<1>2. Memory([m EXCEPT !.h[a] = longer])
  BY <1>1, ChangedMemory
<1> QED
  BY <1>2 DEF array_push, longer

\* array_set_elem, with an index that is one.
LEMMA SetElemMemory ==
    ASSUME NEW m, Memory(m), NEW a, m.h[a].kind = "ARRAY", NEW index \in Nat, NEW v
    PROVE  Memory(array_set_elem(m, a, index, v))
<1> DEFINE o == m.h[a]
           new == Max({index + 1, 2 * o.max_size})
           long == [i \in 1 .. index + 1 |->
                      IF i = index + 1 THEN v ELSE IF i <= Len(o.slots) THEN o.slots[i] ELSE Hole]
           set == IF index < Len(o.slots) THEN [o EXCEPT !.slots[index + 1] = v]
                  ELSE IF index < o.max_size THEN [o EXCEPT !.slots = long]
                  ELSE [o EXCEPT !.slots = long, !.max_size = new, !.cap = new]
<1>1. ASSUME ~m.bad, a \in DOMAIN m.h
      PROVE  Sized(set)
  <2>1. Sized(o) /\ Shaped(o) /\ Fits(o) /\ o.kind = "ARRAY"
    BY <1>1 DEF Memory, AllSized, Sized
  <2>2. long = [i \in 1 .. index + 1 |-> long[i]]
    OBVIOUS
  <2>3. Len(o.slots) \in Nat /\ MinArray \in Nat \ {0}
    BY <2>1, ListType, MinArrayAssumption DEF Fits
  <2> HIDE DEF o, long
  <2>4. List(long) /\ Len(long) = index + 1
    BY <2>2, ListOn
  <2>5. CASE index < Len(o.slots)
    <3> DEFINE t == [o.slots EXCEPT ![index + 1] = v]
    <3>1. t = [i \in DOMAIN o.slots |-> t[i]]
      OBVIOUS
    <3>2. set = [o EXCEPT !.slots = t]
      BY <2>5
    <3> HIDE DEF t, set
    <3> QED
      BY <2>1, <3>1, <3>2, SlotsSized
  <2>6. CASE ~(index < Len(o.slots)) /\ index < o.max_size
    BY <2>1, <2>3, <2>4, <2>6 DEF Fits, Sized, Shaped
  <2>7. CASE ~(index < Len(o.slots)) /\ ~(index < o.max_size)
    <3>1. new = IF index + 1 >= 2 * o.max_size THEN index + 1 ELSE 2 * o.max_size
      BY <2>1, MaxOfTwo DEF Fits
    <3>2. new \in Nat /\ index + 1 <= new /\ MinArray <= new
      BY <2>1, <2>3, <2>7, <3>1 DEF Fits
    <3> HIDE DEF new
    <3> QED
      BY <2>1, <2>4, <2>7, <3>2 DEF Fits, Sized, Shaped
  <2> QED
    BY <2>5, <2>6, <2>7
<1> HIDE DEF set
<1>2. Memory([m EXCEPT !.h[a] = set])
  BY <1>1, ChangedMemory
<1> QED
  BY <1>2 DEF array_set_elem, set

\* array + array.
LEMMA JoinMemory ==
    ASSUME NEW m, Memory(m), NEW a, NEW b, m.h[a].kind = "ARRAY",
           b \in DOMAIN m.h, m.h[b].kind = "ARRAY"
    PROVE  Memory(Join(m, a, b))
<1> DEFINE o == m.h[a]
           all == o.slots \o m.h[b].slots
           joined == IF o.max_size < Len(all)
                     THEN [o EXCEPT !.slots = all, !.max_size = Len(all), !.cap = Len(all)]
                     ELSE [o EXCEPT !.slots = all]
<1>1. ASSUME ~m.bad, a \in DOMAIN m.h
      PROVE  Sized(joined)
  <2>1. Shaped(o) /\ Fits(o) /\ o.kind = "ARRAY" /\ List(m.h[b].slots)
    BY <1>1 DEF Memory, AllSized, Sized, Fits
  <2>2. List(all)
    BY <2>1, ListJoin DEF Fits
  <2>3. Len(all) \in Nat /\ MinArray \in Nat
    BY <2>2, ListType, MinArrayAssumption
  <2> HIDE DEF o, all
  <2> QED
    BY <2>1, <2>2, <2>3 DEF Fits, Sized, Shaped
<1> HIDE DEF joined
<1>2. Memory([m EXCEPT !.h[a] = joined])
  BY <1>1, ChangedMemory
<1> QED
  BY <1>2 DEF Join, joined

\* map_add.
LEMMA MapAddMemory ==
    ASSUME NEW m, Memory(m), NEW a, m.h[a].kind = "MAP", NEW key, NEW v
    PROVE  Memory(map_add(m, a, key, v))
<1> DEFINE slots == [k \in DOMAIN m.h[a].slots \cup {key} |-> IF k = key THEN v ELSE m.h[a].slots[k]]
           o == [m.h[a] EXCEPT !.slots = slots]
<1>1. ~m.bad /\ a \in DOMAIN m.h => Sized(o)
  BY DEF Memory, AllSized, Sized, Shaped
<1> HIDE DEF o
<1>2. Memory([m EXCEPT !.h[a] = o])
  BY <1>1, ChangedMemory
<1> QED
  BY <1>2 DEF map_add, o

\* A slot that a path leads to gets another var.
LEMMA StoredMemory ==
    ASSUME NEW m, Memory(m), NEW at, NEW v
    PROVE  Memory(Stored(m, at, v))
<1> DEFINE slots == [m.h[at.a].slots EXCEPT ![at.slot] = v]
           o == [m.h[at.a] EXCEPT !.slots = slots]
<1>1. slots = [i \in DOMAIN m.h[at.a].slots |-> slots[i]]
  OBVIOUS
<1>2. ~m.bad /\ at.a \in DOMAIN m.h => Sized(m.h[at.a])
  BY DEF Memory, AllSized
<1> HIDE DEF slots
<1>3. ~m.bad /\ at.a \in DOMAIN m.h => Sized(o)
  BY <1>1, <1>2, SlotsSized
<1> HIDE DEF o
<1>4. Memory([m EXCEPT !.h[at.a] = o])
  BY <1>3, ChangedMemory
<1> QED
  BY <1>4 DEF Stored, o, slots

-----------------------------------------------------------------------------
(* The programs and the invariant.                                          *)

\* What the theorem asks of a program: that the arrays of its JSON literals have
\* room for their elements and for MIN_ARRAY_SIZE of them.  json_to_array sees to
\* the second for an empty literal only.  A cocoon's result is a number or a
\* string.
SizedInstruction(x) ==
    /\ x.op = "FROM_JSON" => AllSized(x.lit)
    /\ x.op = "XCALL" => x.lit.type # "ARRAY"

SizedCode(code) == List(code) /\ \A i \in DOMAIN code : SizedInstruction(code[i])
SizedLiterals == SizedCode(Prologue) /\ \A code \in Statements : SizedCode(code)

\* Of what an undefined step left nothing is said.
IInv == (Defined => AllSized(heap)) /\ SizedCode(todo)

\* The memory an instruction starts from.
LEMMA MemMemory ==
    ASSUME IInv, Defined
    PROVE  Memory(Mem)
  BY DEF IInv, Memory, Mem

\* An instruction that ends with a memory keeps the invariant.
LEMMA DoneKeeps ==
    ASSUME IInv, todo # <<>>, NEW m, Memory(m), Done(m)
    PROVE  IInv'
<1>1. SizedCode(Tail(todo))
  BY ListTail DEF IInv, SizedCode
<1>2. status' # "ub" => AllSized(heap')
  BY DEF Done, Memory
<1> QED
  BY <1>1, <1>2 DEF IInv, Done, Defined

\* An instruction that fails or is undefined leaves the heap alone.
LEMMA ErrorKeeps ==
    ASSUME IInv, Defined, heap' = heap, todo' = todo
    PROVE  IInv'
  BY DEF IInv, Defined

-----------------------------------------------------------------------------
(* The instructions.                                                        *)

\* SET_ELEM: an element stored, an entry added or an element of an array set.
LEMMA ElementSetMemory ==
    ASSUME IInv, Defined, NEW t, NEW index, NEW v
    PROVE  Memory(ElementSet(t, index, v))
<1>1. Memory(Mem) /\ Mem.h = heap
  BY MemMemory DEF Mem
<1>2. CASE index.type = "STRING"
  <2> DEFINE path == heap[index.data].val
             at == var_apath(Mem, t, path)
  <2>1. Memory(Stored(Mem, at, v)) /\ Memory(Spoilt(Mem, TRUE))
    BY <1>1, StoredMemory, SpoiltMemory
  <2>2. Good(Mem, t) /\ t.type = "MAP" => Memory(map_add(Mem, t.data, Tokens(path)[1], v))
    BY <1>1, MapAddMemory DEF Good
  <2> HIDE DEF at
  <2> QED
    BY <1>2, <2>1, <2>2 DEF ElementSet, at
<1>3. CASE index.type # "STRING"
  <2> DEFINE i == heap[index.data].val[2]
             slots == heap[t.data].slots
  <2>1. Memory(Spoilt(Mem, TRUE))
    BY <1>1, SpoiltMemory
  <2>2. ASSUME Good(Mem, t), t.type = "ARRAY", i \in Nat, NEW w
        PROVE  Memory(array_set_elem(Mem, t.data, i, w))
    BY <1>1, <2>2, SetElemMemory DEF Good
  <2> HIDE DEF i
  <2> QED
    BY <1>3, <2>1, <2>2 DEF ElementSet, i
<1> QED
  BY <1>2, <1>3

\* PRINT, CLEAR_STACK and the others that allocate, copy and free.
LEMMA StraightKeeps ==
    ASSUME IInv, SizedLiterals,
           \/ AsVar \/ AsConstant \/ Show \/ ClearStack \/ Declare \/ DeclareWith \/ Assign
    PROVE  IInv'
<1>1. Defined /\ todo # <<>> /\ SizedInstruction(Head(todo))
  BY ListTail DEF IInv, SizedCode, Defined, AsVar, AsConstant, Show, ClearStack, Declare, DeclareWith,
     Assign, At
<1>2. Memory(Mem)
  BY <1>1, MemMemory
<1>3. CASE AsVar
  <2> DEFINE name == var_lookup_2(Name)
             c == op_copy(Mem, Zeroed, variables[name])
  <2>1. Memory(c.m)
    BY <1>2, CopyMemory
  <2>2. Error(0) \/ Done(c.m)
    BY <1>3 DEF AsVar
  <2> QED
    BY <1>1, <2>1, <2>2, DoneKeeps, ErrorKeeps DEF Error
<1>4. CASE AsConstant
  <2>1. /\ Op \in {"AS_DOUBLE", "MICROTIME", "AS_STRING", "FROM_JSON", "AS_VOID"}
        /\ Done(Allocate(Mem, CASE Op = "AS_DOUBLE" -> <<Scalar("DOUBLE", Literal)>>
                                [] Op = "MICROTIME" -> <<Scalar("DOUBLE", <<"time">>)>>
                                [] Op = "AS_STRING" -> <<Scalar("STRING", Literal)>>
                                [] Op = "FROM_JSON" -> Literal
                                [] Op = "AS_VOID" -> <<>>))
    BY <1>4 DEF AsConstant, At, Op
  <2>2. CASE Op = "AS_DOUBLE"
    <3>1. Memory(Allocate(Mem, <<Scalar("DOUBLE", Literal)>>))
      BY <1>2, ScalarMemory
    <3> QED
      BY <1>1, <2>1, <2>2, <3>1, DoneKeeps
  <2>3. CASE Op = "MICROTIME"
    <3>1. Memory(Allocate(Mem, <<Scalar("DOUBLE", <<"time">>)>>))
      BY <1>2, ScalarMemory
    <3> QED
      BY <1>1, <2>1, <2>3, <3>1, DoneKeeps
  <2>4. CASE Op = "AS_STRING"
    <3>1. Memory(Allocate(Mem, <<Scalar("STRING", Literal)>>))
      BY <1>2, ScalarMemory
    <3> QED
      BY <1>1, <2>1, <2>4, <3>1, DoneKeeps
  <2>5. CASE Op = "FROM_JSON"
    <3>1. AllSized(Literal)
      BY <1>1, <2>5 DEF SizedInstruction, Op, Literal
    <3>2. Memory(Allocate(Mem, Literal))
      BY <1>2, <3>1, AllocateMemory
    <3> QED
      BY <1>1, <2>1, <2>5, <3>2, DoneKeeps
  <2>6. CASE Op = "AS_VOID"
    <3>1. <<>> \in Seq({}) /\ DOMAIN <<>> = {}
      OBVIOUS
    <3>2. AllSized(<<>>)
      BY <3>1, ListOf DEF AllSized
    <3>3. Memory(Allocate(Mem, <<>>))
      BY <1>2, <3>2, AllocateMemory
    <3> QED
      BY <1>1, <2>1, <2>6, <3>3, DoneKeeps
  <2> QED
    BY <2>1, <2>2, <2>3, <2>4, <2>5, <2>6
<1>5. CASE Show
  BY <1>1, <1>2, <1>5, FreeMemory, DoneKeeps DEF Show
<1>6. CASE ClearStack
  BY <1>1, <1>2, <1>6, FreeMemory, DoneKeeps DEF ClearStack
<1>7. CASE Declare
  BY <1>1, <1>2, <1>7, DoneKeeps DEF Declare
<1>8. CASE DeclareWith
  <2> DEFINE v1 == [Pop(0) EXCEPT !.ref = None]
             c == op_copy(Mem, Old(Name), v1)
  <2>1. Memory(Free(c.m, <<v1>>))
    BY <1>2, CopyMemory, FreeMemory
  <2>2. Done(Free(c.m, <<v1>>))
    BY <1>8 DEF DeclareWith
  <2> QED
    BY <1>1, <2>1, <2>2, DoneKeeps
<1>9. CASE Assign
  BY <1>1, <1>2, <1>9, DoneKeeps, ErrorKeeps DEF Assign, Error
<1> QED
  BY <1>3, <1>4, <1>5, <1>6, <1>7, <1>8, <1>9

\* SET_ELEM, ADD_ELEM, ACCESS.
LEMMA ElementsKeep ==
    ASSUME IInv, SetElem \/ AddElem \/ AccessIndex \/ AccessPath \/ AccessFails
    PROVE  IInv'
<1>1. Defined /\ todo # <<>>
  BY DEF Defined, SetElem, AddElem, AccessIndex, AccessPath, AccessFails, At
<1>2. Memory(Mem)
  BY <1>1, MemMemory
<1>3. CASE SetElem
  <2> DEFINE name == var_lookup_2(Name)
             m == ElementSet(variables[name], Pop(1), Pop(0))
             c == op_copy(m, Zeroed, Pop(0))
  <2>1. Memory(m)
    BY <1>1, ElementSetMemory
  <2>2. Error(2) \/ Done(c.m)
    BY <1>3 DEF SetElem
  <2> HIDE DEF m
  <2>3. Memory(c.m)
    BY <2>1, CopyMemory
  <2> QED
    BY <1>1, <2>2, <2>3, DoneKeeps, ErrorKeeps DEF Error
<1>4. CASE AddElem
  <2> DEFINE t == variables[var_lookup_2(Name)]
             m == array_push(Mem, t.data, Pop(0))
             c == op_copy(m, Zeroed, Pop(0))
  <2>1. Error(1) \/ Undefined \/ (Good(Mem, t) /\ t.type = "ARRAY" /\ Done(c.m))
    BY <1>4 DEF AddElem
  <2>2. Good(Mem, t) /\ t.type = "ARRAY" => Memory(m)
    BY <1>2, PushMemory DEF Good
  <2> HIDE DEF m
  <2>3. Good(Mem, t) /\ t.type = "ARRAY" => Memory(c.m)
    BY <2>2, CopyMemory
  <2> HIDE DEF t, c
  <2> QED
    BY <1>1, <2>1, <2>3, DoneKeeps, ErrorKeeps DEF Error, Undefined
<1>5. CASE AccessIndex
  <2> DEFINE t == variables[var_lookup_2(Name)]
             i == heap[Pop(0).data].val[2] + 1
             c == op_copy(Mem, [v2 EXCEPT !.data = 0], heap[t.data].slots[i])
             m == IF i \in DOMAIN heap[t.data].slots /\ heap[t.data].slots[i] # Hole THEN c.m ELSE Mem
  <2>1. Memory(m)
    BY <1>2, CopyMemory
  <2>2. Undefined \/ Done(m)
    BY <1>5 DEF AccessIndex
  <2> HIDE DEF m
  <2> QED
    BY <1>1, <2>1, <2>2, DoneKeeps, ErrorKeeps DEF Undefined
<1>6. CASE AccessPath
  <2> DEFINE t == variables[var_lookup_2(Name)]
             at == var_apath(Mem, t, heap[Pop(0).data].val)
             c == IF at.how = "null" THEN [m |-> Mem, v |-> Zeroed] ELSE op_copy(Mem, v2, at.v)
  <2>1. Undefined \/ Done(c.m)
    BY <1>6 DEF AccessPath
  <2> HIDE DEF at
  <2>2. Memory(c.m)
    BY <1>2, CopyMemory
  <2> QED
    BY <1>1, <2>1, <2>2, DoneKeeps, ErrorKeeps DEF Undefined
<1>7. CASE AccessFails
  BY <1>1, <1>7, ErrorKeeps DEF AccessFails, Error
<1> QED
  BY <1>3, <1>4, <1>5, <1>6, <1>7

\* The operators and cocoon functions.
LEMMA OperatorsKeep ==
    ASSUME IInv, Arithmetic \/ Compare \/ Change \/ XCall
    PROVE  IInv'
<1>1. Defined /\ todo # <<>> /\ SizedInstruction(Head(todo))
  BY ListTail DEF IInv, SizedCode, Defined, Arithmetic, Compare, Change, XCall, At
<1>2. Memory(Mem) /\ Mem.h = heap /\ ~Mem.bad
  BY <1>1, MemMemory DEF Mem
<1>3. CASE Arithmetic
  <2> DEFINE x == Pop(1)
             y == Pop(0)
             r == IF Op = "ADD" THEN op_add(x, y) ELSE [m |-> InPlace(x, y), v1 |-> x, v2 |-> y]
  <2>1. Error(2) \/ Undefined \/ (Takes(x, y) /\ Readable(x, y) /\ Done(Free(r.m, <<r.v2>>)))
    BY <1>3 DEF Arithmetic
  <2>2. ASSUME Takes(x, y), Readable(x, y)
        PROVE  Memory(r.m)
    <3>1. Memory(InPlace(x, y))
      BY <1>2, ValMemory DEF InPlace
    <3>2. Memory(Free(Mem, <<x>>))
      BY <1>2, FreeMemory
    <3>3. Memory(Allocate(Free(Mem, <<x>>), <<Scalar("STRING", Text(x) \o Text(y))>>))
      BY <3>2, ScalarMemory
    <3>4. ASSUME Op = "ADD", x.type = "ARRAY"
          PROVE  Memory(Join(Mem, x.data, y.data))
      <4>1. y.type = "ARRAY"
        BY <2>2, <3>4 DEF Takes
      <4> QED
        BY <1>2, <2>2, <3>4, <4>1, JoinMemory DEF Readable, Good
    <3> HIDE DEF x, y
    <3> QED
      BY <3>1, <3>3, <3>4 DEF op_add
  <2> HIDE DEF r
  <2>3. Takes(x, y) /\ Readable(x, y) => Memory(Free(r.m, <<r.v2>>))
    BY <2>2, FreeMemory
  <2> QED
    BY <1>1, <2>1, <2>3, DoneKeeps, ErrorKeeps DEF Error, Undefined
<1>4. CASE Compare
  <2> DEFINE x == Pop(1)
             y == Pop(0)
             unset == "UNSET" \in {x.type, y.type}
             term == IF unset THEN Lit(IF Op = "CMP" THEN 0 ELSE 1)
                     ELSE <<Op, heap[x.data].val, heap[y.data].val>>
  <2>1. Error(2) \/ Undefined \/ Done(Free(Number(Mem, term), <<x, y>>))
    BY <1>4 DEF Compare
  <2> HIDE DEF term
  <2>2. Memory(Number(Mem, term))
    BY <1>2, ScalarMemory DEF Number
  <2>3. Memory(Free(Number(Mem, term), <<x, y>>))
    BY <2>2, FreeMemory
  <2> QED
    BY <1>1, <2>1, <2>3, DoneKeeps, ErrorKeeps DEF Error, Undefined
<1>5. CASE Change
  <2> DEFINE v == Pop(0)
             new == IF v.type = "STRING" THEN Reverse(heap[v.data].val) ELSE <<Op, heap[v.data].val>>
             also == IF Target(v) = None THEN v ELSE variables[Target(v)]
             once == [heap EXCEPT ![v.data].val = new]
             twice == [once EXCEPT ![also.data].val = new]
  <2>1. Error(0) \/ Undefined \/ Done([Mem EXCEPT !.h = twice])
    BY <1>2, <1>5 DEF Change
  <2> HIDE DEF v, new, also
  <2>2. AllSized(heap)
    BY <1>2 DEF Memory
  <2>3. AllSized(once)
    BY <2>2, Changed, ValSized DEF AllSized
  <2> HIDE DEF once
  <2>4. AllSized(twice)
    BY <2>3, Changed, ValSized DEF AllSized
  <2> HIDE DEF twice
  <2>5. Memory([Mem EXCEPT !.h = twice])
    BY <1>2, <2>4 DEF Memory
  <2> QED
    BY <1>1, <2>1, <2>5, DoneKeeps, ErrorKeeps DEF Error, Undefined
<1>6. CASE XCall
  <2> DEFINE args == [i \in 1 .. Head(todo).n |-> stack[Len(stack) - Head(todo).n + i].v]
             made == Allocate(Mem, <<Scalar(Literal.type, Literal.val)>>)
  <2>1. \/ Done(Free(made, args))
        \/ status' = "error" /\ heap' = Free(Mem, args).h /\ todo' = todo
    BY <1>6 DEF XCall
  <2>2. Literal.type # "ARRAY"
    BY <1>1, <1>6 DEF SizedInstruction, XCall, At, Literal
  <2>3. Memory(made)
    BY <1>2, <2>2, ScalarMemory
  <2> HIDE DEF made, args
  <2>4. Memory(Free(made, args)) /\ AllSized(Free(Mem, args).h)
    BY <1>2, <2>3, FreeMemory DEF Memory
  <2> QED
    BY <1>1, <2>1, <2>4, DoneKeeps DEF IInv, Defined
<1> QED
  BY <1>3, <1>4, <1>5, <1>6

\* Calls and returns.
LEMMA BlocksKeep ==
    ASSUME IInv, ReverseStack \/ Call \/ Param \/ ParamDefault \/ Return \/ EndBlock
    PROVE  IInv'
<1>1. Defined /\ todo # <<>>
  BY DEF Defined, ReverseStack, Call, Param, ParamDefault, Return, EndBlock, At
<1>2. Memory(Mem) /\ Memory(Number(Mem, Lit(0)))
  BY <1>1, MemMemory, ScalarMemory DEF Number
<1>3. CASE ReverseStack
  BY <1>1, <1>2, <1>3, DoneKeeps DEF ReverseStack
<1>4. CASE Call
  BY <1>1, <1>2, <1>4, DoneKeeps DEF Call
<1>5. CASE Param
  <2> DEFINE c == op_copy(Mem, Old(Name), Pop(0))
  <2>1. Error(0) \/ Undefined \/ Done(c.m)
    BY <1>5 DEF Param
  <2>2. Memory(c.m)
    BY <1>2, CopyMemory
  <2> QED
    BY <1>1, <2>1, <2>2, DoneKeeps, ErrorKeeps DEF Error, Undefined
<1>6. CASE ParamDefault
  <2> DEFINE arg == IF Len(stack) > 1 THEN Pop(1) ELSE Zeroed
             given == arg.type # "UNSET" /\ param_count > 0
             c == op_copy(Mem, Old(Name), IF given THEN arg ELSE Pop(0))
  <2>1. Done(Free(c.m, <<Pop(0), arg>>))
    BY <1>6 DEF ParamDefault
  <2>2. Memory(c.m)
    BY <1>2, CopyMemory
  <2>3. Memory(Free(c.m, <<Pop(0), arg>>))
    BY <2>2, FreeMemory
  <2> QED
    BY <1>1, <2>1, <2>3, DoneKeeps
<1>7. CASE Return
  <2>1. Done(Number(Mem, Lit(0))) \/ Done(Free(Mem, Garbage(Rest(1))))
    BY <1>7 DEF Return
  <2>2. Memory(Free(Mem, Garbage(Rest(1))))
    BY <1>2, FreeMemory
  <2> QED
    BY <1>1, <1>2, <2>1, <2>2, DoneKeeps
<1>8. CASE EndBlock
  <2>1. Done(Free(Number(Mem, Lit(0)), Garbage(stack)))
    BY <1>8 DEF EndBlock
  <2>2. Memory(Free(Number(Mem, Lit(0)), Garbage(stack)))
    BY <1>2, FreeMemory
  <2> QED
    BY <1>1, <2>1, <2>2, DoneKeeps
<1> QED
  BY <1>3, <1>4, <1>5, <1>6, <1>7, <1>8

\* The next statement, the end of the run and larva_stop.
LEMMA EndsKeep ==
    ASSUME IInv, SizedLiterals, NextStatement \/ Finish \/ Stop
    PROVE  IInv'
<1>1. Defined
  BY DEF Defined, NextStatement, Finish, Stop
<1>2. Memory(Mem) /\ Mem.h = heap /\ AllSized(heap)
  BY <1>1, MemMemory DEF Mem, IInv
<1>3. CASE NextStatement
  <2>1. SizedCode(todo') /\ heap' = heap
    BY <1>3 DEF NextStatement, SizedLiterals
  <2> QED
    BY <1>2, <2>1 DEF IInv
<1>4. ASSUME NEW vs, heap' = Free(Mem, vs).h, todo' = todo
      PROVE  IInv'
  <2>1. AllSized(heap')
    BY <1>2, <1>4, FreeMemory
  <2> QED
    BY <1>4, <2>1 DEF IInv
<1>5. CASE Finish
  BY <1>4, <1>5 DEF Finish
<1>6. CASE Stop
  BY <1>4, <1>6 DEF Stop
<1> QED
  BY <1>3, <1>5, <1>6

-----------------------------------------------------------------------------
(* The theorem.                                                             *)

\* The invariant holds of the prologue and is kept by every step.
LEMMA InitIInv ==
    ASSUME SizedLiterals, Init
    PROVE  IInv
<1>1. heap \in Seq({}) /\ DOMAIN heap = {}
  BY DEF Init
<1> QED
  BY <1>1, ListOf DEF Init, IInv, AllSized, SizedLiterals

LEMMA StepIInv ==
    ASSUME SizedLiterals, IInv, [Next]_vars
    PROVE  IInv'
<1>1. CASE Next
  BY <1>1, StraightKeeps, ElementsKeep, OperatorsKeep, BlocksKeep, EndsKeep DEF Next, Ended, vars, IInv, Defined
<1>2. CASE UNCHANGED vars
  BY <1>2 DEF vars, IInv, Defined
<1> QED
  BY <1>1, <1>2

\* Until a step is undefined, no array has more elements than vars has room for:
\* array_push, array_set_elem, array_clone and array + array keep it so, in every
\* program whose literals leave room.
THEOREM ElementsFitHolds ==
    ASSUME SizedLiterals
    PROVE  Spec => [](Defined => ElementsFit)
<1>1. Init => IInv
  BY InitIInv
<1>2. IInv /\ [Next]_vars => IInv'
  BY StepIInv
<1>3. IInv => (Defined => ElementsFit)
  <2> SUFFICES ASSUME IInv, Defined, NEW a \in DOMAIN heap, heap[a].kind = "ARRAY"
               PROVE  Len(heap[a].slots) <= heap[a].cap
    BY DEF ElementsFit
  <2>1. Fits(heap[a])
    BY DEF IInv, AllSized, Sized
  <2> QED
    BY <2>1, ListType DEF Fits
<1> QED
  BY <1>1, <1>2, <1>3, PTL DEF Spec
=============================================================================

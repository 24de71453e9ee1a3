----------------------------- MODULE OwnerProofs -----------------------------
(***************************************************************************)
(* Proofs about who owns which datum and what type it has, for every       *)
(* program whose literals are trees (TreeLiterals).                        *)
(*                                                                         *)
(* OneOwner and NothingFreedTwice follow from the invariant OInv: while    *)
(* the program runs the operands, the variables and the heap are Ready,    *)
(* that is every operand and every name of the table that has data owns a  *)
(* tree of its own, and the trees hold every datum that they point to.     *)
(* The steps keep it where an instruction finds its operands (Supplied)    *)
(* and an access path finds v2 without data (CleanPath).                   *)
(*                                                                         *)
(* Supplied follows in turn from the text of the statements (FedPrograms): *)
(* a statement is Fed if its instructions can be annotated with levels and *)
(* with the tags of operands that are sure to be on the stack.             *)
(*                                                                         *)
(* TypesAgree and TypeOK follow with two more: TInv, that every var says   *)
(* the type of its data, and LInv, about the counters and the level tags.  *)
(***************************************************************************)
EXTENDS ValuesProofs, NaturalsInduction, WellFoundedInduction

-----------------------------------------------------------------------------
(* Least numbers.                                                           *)

\* A relation that contains < has a least member of every set of naturals.
LEMMA LeastOf ==
    ASSUME NEW R, IsWellFoundedOn(R, Nat),
           \A x, y \in Nat : y < x => <<y, x>> \in R,
           NEW T \in SUBSET Nat, T # {}
    PROVE  \E x \in T : \A y \in T : x <= y
<1>1. PICK x \in T : \A y \in T : ~ (<<y, x>> \in R)
  BY WFMin, Zenon
<1>2. ASSUME NEW y \in T PROVE x <= y
  <2>1. x \in Nat /\ y \in Nat
    OBVIOUS
  <2>2. ~ (y < x)
    BY <1>1, <2>1, Zenon
  <2> QED
    BY <2>1, <2>2
<1> QED
  BY <1>2

\* Every nonempty set of naturals has a least member.
LEMMA LeastExists ==
    ASSUME NEW T \in SUBSET Nat, T # {}
    PROVE  \E x \in T : \A y \in T : x <= y
<1>1. \A x, y \in Nat : y < x => <<y, x>> \in OpToRel(<, Nat)
  BY DEF OpToRel
<1> QED
  BY <1>1, NatLessThanWellFounded, LeastOf, Zenon

-----------------------------------------------------------------------------
(* Heaps: data with the fields the code gives them, which point to each     *)
(* other and to nothing else.                                               *)

Pointer(w, n) == DOMAIN w = {"type", "data", "ref"} /\ w.data \in 0 .. n

Cell(o, n) ==
    /\ Shaped(o) /\ o.live \in BOOLEAN
    /\ \A s \in DOMAIN o.slots : Pointer(o.slots[s], n)
    /\ o.kind = "ARRAY" => List(o.slots)
    /\ o.kind = "STRING" => List(o.val)

Heaped(h) == List(h) /\ \A a \in DOMAIN h : Cell(h[a], Len(h))

\* X leads to nothing but its own.
Closed(h, X) == Below(h, X) \subseteq X

\* What is below a set of data of the heap are data of the heap.
LEMMA BelowType ==
    ASSUME NEW h, Heaped(h), NEW X \in SUBSET DOMAIN h
    PROVE  Below(h, X) \in SUBSET DOMAIN h
<1> SUFFICES ASSUME NEW b \in X, NEW s \in DOMAIN h[b].slots, h[b].slots[s].data # 0
             PROVE  h[b].slots[s].data \in DOMAIN h
  BY DEF Below, Children, Range
<1>1. Len(h) \in Nat /\ DOMAIN h = 1 .. Len(h)
  BY ListType DEF Heaped
<1>2. h[b].slots[s].data \in 0 .. Len(h)
  BY DEF Heaped, Cell, Pointer
<1> QED
  BY <1>1, <1>2

\* The least closed set around X.
Hull(h, X) == {b \in DOMAIN h : \A C \in SUBSET DOMAIN h : X \subseteq C /\ Closed(h, C) => b \in C}

\* It is what it is called, and the same for X and what is below X.
LEMMA HullLeast ==
    ASSUME NEW h, Heaped(h), NEW X \in SUBSET DOMAIN h
    PROVE  /\ X \subseteq Hull(h, X) /\ Hull(h, X) \in SUBSET DOMAIN h
           /\ Closed(h, Hull(h, X))
           /\ \A C \in SUBSET DOMAIN h : X \subseteq C /\ Closed(h, C) => Hull(h, X) \subseteq C
           /\ Hull(h, X) = IF Closed(h, X) THEN X ELSE Hull(h, X \cup Below(h, X))
<1> DEFINE H == Hull(h, X)
<1>1. X \subseteq H /\ H \in SUBSET DOMAIN h
  BY DEF Hull
<1>2. \A C \in SUBSET DOMAIN h : X \subseteq C /\ Closed(h, C) => H \subseteq C
  BY DEF Hull
<1>3. Below(h, H) \in SUBSET DOMAIN h
  BY <1>1, BelowType
<1>4. Closed(h, H)
  <2> SUFFICES ASSUME NEW b \in Below(h, H),
                      NEW C \in SUBSET DOMAIN h, X \subseteq C, Closed(h, C)
               PROVE  b \in C
    BY <1>3 DEF Closed, Hull
  <2>1. H \subseteq C
    BY <1>2
  <2> QED
    BY <2>1 DEF Closed, Below
<1>5. ASSUME ~Closed(h, X)
      PROVE  H = Hull(h, X \cup Below(h, X))
  <2>1. \A C \in SUBSET DOMAIN h : Closed(h, C) => (X \subseteq C <=> (X \cup Below(h, X)) \subseteq C)
    BY DEF Closed, Below
  <2> QED
    BY <2>1 DEF Hull
<1>6. Closed(h, X) => H = X
  BY <1>1, <1>2
<1> QED
  BY <1>1, <1>2, <1>4, <1>5, <1>6

\* Reach saturates, and what it arrives at is the least closed set.
LEMMA ReachHull ==
    ASSUME NEW h, Heaped(h), NEW a \in DOMAIN h
    PROVE  Reach(h, a) = Hull(h, {a})
<1> DEFINE Sets == SUBSET DOMAIN h
           Saturates(f) == f = [X \in Sets |-> IF Below(h, X) \subseteq X THEN X ELSE f[X \cup Below(h, X)]]
           R == CHOOSE f : Saturates(f)
<1>1. Reach(h, a) = R[{a}]
  BY DEF Reach
<1>2. \A X \in Sets : X \cup Below(h, X) \in Sets
  BY BelowType
<1>3. \E f : Saturates(f)
  <2> DEFINE g == [X \in Sets |-> Hull(h, X)]
  <2>1. \A X \in Sets : g[X] = IF Below(h, X) \subseteq X THEN X ELSE g[X \cup Below(h, X)]
    BY <1>2, HullLeast DEF Closed
  <2>2. Saturates(g)
    BY <2>1
  <2> QED
    BY <2>2
<1>4. Saturates(R)
  BY <1>3
<1> HIDE DEF R
<1>5. \A X \in Sets : R[X] = IF Closed(h, X) THEN X ELSE R[X \cup Below(h, X)]
  BY <1>4 DEF Closed
<1>6. IsFiniteSet(DOMAIN h)
  <2>1. DOMAIN h = 1 .. Len(h) /\ Len(h) \in Nat
    BY ListType DEF Heaped
  <2> QED
    BY <2>1, FS_Interval
<1> DEFINE Wrong == {X \in Sets : R[X] # Hull(h, X)}
           Left == {Cardinality(DOMAIN h \ X) : X \in Wrong}
<1>7. Wrong = {}
  <2> SUFFICES ASSUME Wrong # {} PROVE FALSE
    OBVIOUS
  <2>1. \A X \in Sets : IsFiniteSet(DOMAIN h \ X) /\ Cardinality(DOMAIN h \ X) \in Nat
    BY <1>6, FS_Subset, FS_CardinalityType
  <2>2. Left \in SUBSET Nat /\ Left # {}
    BY <2>1
  <2>3. PICK n \in Left : \A k \in Left : n <= k
    BY <2>2, LeastExists
  <2>4. PICK X \in Wrong : n = Cardinality(DOMAIN h \ X)
    BY <2>3
  <2> DEFINE T == X \cup Below(h, X)
  <2>5. ~Closed(h, X) /\ R[T] # Hull(h, T) /\ T \in Sets
    BY <1>2, <1>5, <2>4, HullLeast
  <2>6. T \in Wrong
    BY <2>5
  <2>7. DOMAIN h \ T \subseteq DOMAIN h \ X /\ DOMAIN h \ T # DOMAIN h \ X
    BY <1>2, <2>5 DEF Closed
  <2>8. Cardinality(DOMAIN h \ T) < Cardinality(DOMAIN h \ X)
    <3> DEFINE U == DOMAIN h \ T
               V == DOMAIN h \ X
    <3>1. IsFiniteSet(V) /\ U \subseteq V /\ U # V
      BY <2>1, <2>7
    <3>2. Cardinality(U) \in Nat /\ Cardinality(V) \in Nat
      BY <2>1, <2>5
    <3> HIDE DEF U, V
    <3>3. Cardinality(U) <= Cardinality(V) /\ (Cardinality(U) = Cardinality(V) => U = V)
      BY <3>1, FS_Subset
    <3>4. Cardinality(U) < Cardinality(V)
      BY <3>1, <3>2, <3>3
    <3> QED
      BY <3>4 DEF U, V
  <2>9. Cardinality(DOMAIN h \ T) \in Left
    BY <2>6
  <2>10. n <= Cardinality(DOMAIN h \ T)
    BY <2>3, <2>9
  <2> QED
    BY <2>1, <2>4, <2>5, <2>8, <2>10
<1>8. {a} \in Sets
  OBVIOUS
<1> QED
  BY <1>1, <1>7, <1>8

\* A datum with what is below it: the least closed set around the datum.
LEMMA ReachLeast ==
    ASSUME NEW h, Heaped(h), NEW a \in DOMAIN h
    PROVE  /\ a \in Reach(h, a) /\ Reach(h, a) \in SUBSET DOMAIN h
           /\ Closed(h, Reach(h, a))
           /\ \A C \in SUBSET DOMAIN h : a \in C /\ Closed(h, C) => Reach(h, a) \subseteq C
<1>1. {a} \in SUBSET DOMAIN h
  OBVIOUS
<1>2. \A C \in SUBSET DOMAIN h : {a} \subseteq C /\ Closed(h, C) => Hull(h, {a}) \subseteq C
  BY <1>1, HullLeast
<1>3. {a} \subseteq Hull(h, {a}) /\ Hull(h, {a}) \in SUBSET DOMAIN h /\ Closed(h, Hull(h, {a}))
  BY <1>1, HullLeast
<1>4. Reach(h, a) = Hull(h, {a})
  BY ReachHull
<1> HIDE DEF Hull
<1> QED
  BY <1>2, <1>3, <1>4

-----------------------------------------------------------------------------
(* Ownership.  D are the data that variables and operands lead to, K those  *)
(* and all data below them: each is in one place only.                      *)

Owned(h, K, D) ==
    /\ K \subseteq DOMAIN h /\ D \subseteq K
    /\ \A a \in K : h[a].live /\ Children(h[a]) \subseteq K /\ Children(h[a]) \cap D = {}
    /\ \A a, b \in K : \A i \in DOMAIN h[a].slots, j \in DOMAIN h[b].slots :
         h[a].slots[i].data = h[b].slots[j].data /\ h[a].slots[i].data # 0 => a = b /\ i = j

Holds(h, D) == Heaped(h) /\ \E K : Owned(h, K, D)

\* What is found below a datum is in one of the data found.
LEMMA ParentExists ==
    ASSUME NEW h, Heaped(h), NEW a \in DOMAIN h, NEW c \in Reach(h, a), c # a
    PROVE  \E p \in Reach(h, a) : c \in Children(h[p])
<1> DEFINE C == Reach(h, a) \ {c}
<1>1. a \in C /\ C \in SUBSET DOMAIN h /\ ~(Reach(h, a) \subseteq C)
  BY ReachLeast
<1>2. ~Closed(h, C)
  BY <1>1, ReachLeast
<1>3. PICK p \in C : \E d \in Children(h[p]) : d \notin C
  BY <1>2 DEF Closed, Below
<1>4. Children(h[p]) \subseteq Reach(h, a)
  BY <1>3, ReachLeast DEF Closed, Below
<1> QED
  BY <1>3, <1>4

\* It is in no other.
LEMMA OneParent ==
    ASSUME NEW h, NEW K, NEW D, Owned(h, K, D), NEW p \in K, NEW q \in K,
           NEW c \in Children(h[p]), c \in Children(h[q])
    PROVE  p = q
  BY DEF Owned, Children, Range

\* What is below owned data is owned.
LEMMA ReachOwned ==
    ASSUME NEW h, Heaped(h), NEW K, NEW D, Owned(h, K, D), NEW a \in K
    PROVE  Reach(h, a) \subseteq K /\ a \in DOMAIN h
<1>1. K \in SUBSET DOMAIN h /\ Closed(h, K)
  BY DEF Owned, Closed, Below
<1> QED
  BY <1>1, ReachLeast

\* Nothing leads into what is below an owner but the owner.
LEMMA NoWayIn ==
    ASSUME NEW h, Heaped(h), NEW K, NEW D, Owned(h, K, D), NEW b \in K,
           NEW x \in K, NEW c \in Children(h[x]), c \in Reach(h, b), c # b
    PROVE  x \in Reach(h, b)
<1>1. PICK p \in Reach(h, b) : c \in Children(h[p])
  BY ReachOwned, ParentExists
<1> QED
  BY <1>1, ReachOwned, OneParent

\* Two owners have nothing in common.
LEMMA Apart ==
    ASSUME NEW h, Heaped(h), NEW K, NEW D, Owned(h, K, D), NEW q \in D, NEW r \in D, q # r
    PROVE  Reach(h, q) \cap Reach(h, r) = {}
<1> DEFINE C == Reach(h, r) \ Reach(h, q)
<1>1. q \in K /\ r \in K /\ q \in DOMAIN h /\ r \in DOMAIN h
  BY DEF Owned
<1>2. Reach(h, q) \subseteq K /\ Reach(h, r) \subseteq K
  BY <1>1, ReachOwned
<1>3. \A p \in K : q \notin Children(h[p]) /\ r \notin Children(h[p])
  BY DEF Owned
<1>4. r \notin Reach(h, q)
  BY <1>1, <1>2, <1>3, ParentExists
<1>5. Closed(h, C)
  <2> SUFFICES ASSUME NEW x \in C, NEW c \in Children(h[x])
               PROVE  c \in C
    BY DEF Closed, Below
  <2>1. c \in Reach(h, r)
    BY <1>1, ReachLeast DEF Closed, Below
  <2>2. c # q /\ x \in K
    BY <1>2, <1>3
  <2>3. c \notin Reach(h, q)
    BY <1>1, <1>2, <1>3, <2>2, NoWayIn
  <2> QED
    BY <2>1, <2>3
<1>6. r \in C /\ C \in SUBSET DOMAIN h
  BY <1>1, <1>4, ReachLeast
<1>7. Reach(h, r) \subseteq C
  BY <1>1, <1>5, <1>6, ReachLeast
<1> QED
  BY <1>7

\* What an owner leads to does not lead back to it.
LEMMA NoCycle ==
    ASSUME NEW h, Heaped(h), NEW K, NEW D, Owned(h, K, D), NEW r \in D,
           NEW b \in Reach(h, r), NEW p \in Reach(h, b)
    PROVE  b \notin Children(h[p])
<1> SUFFICES ASSUME b \in Children(h[p]) PROVE FALSE
  OBVIOUS
<1>1. r \in K /\ r \in DOMAIN h /\ Reach(h, r) \subseteq K
  BY ReachOwned DEF Owned
<1>2. b \in K /\ b \in DOMAIN h /\ Reach(h, b) \subseteq K
  BY <1>1, ReachOwned
<1>3. r \notin Reach(h, b)
  <2>1. \A q \in K : r \notin Children(h[q])
    BY DEF Owned
  <2>2. b # r
    BY <1>2, <2>1
  <2> QED
    BY <1>2, <2>1, <2>2, ParentExists
<1> DEFINE C == Reach(h, r) \ Reach(h, b)
<1>4. Closed(h, C)
  <2> SUFFICES ASSUME NEW x \in C, NEW c \in Children(h[x]), c \in Reach(h, b)
               PROVE  FALSE
    BY <1>1, ReachLeast DEF Closed, Below
  <2>1. PICK y \in Reach(h, b) : c \in Children(h[y])
    BY <1>2, ParentExists
  <2>2. x = y
    BY <1>1, <1>2, <2>1, OneParent
  <2> QED
    BY <2>2
<1>5. r \in C /\ C \in SUBSET DOMAIN h
  BY <1>1, <1>3, ReachLeast
<1>6. Reach(h, r) \subseteq C
  BY <1>1, <1>4, <1>5, ReachLeast
<1>7. b \in Reach(h, b)
  BY <1>2, ReachLeast
<1> QED
  BY <1>6, <1>7

-----------------------------------------------------------------------------
(* Changes of a heap.                                                       *)

\* Who owns more owns less.
LEMMA HoldsLess ==
    ASSUME NEW h, NEW D, Holds(h, D), NEW E, E \subseteq D
    PROVE  Holds(h, E)
  BY DEF Holds, Owned

\* A heap with one datum changed.
LEMMA HeapedWith ==
    ASSUME NEW h, Heaped(h), NEW a, NEW o, a \in DOMAIN h => Cell(o, Len(h))
    PROVE  Heaped([h EXCEPT ![a] = o]) /\ Len([h EXCEPT ![a] = o]) = Len(h)
<1> DEFINE g == [h EXCEPT ![a] = o]
<1>1. g = [b \in DOMAIN h |-> g[b]] /\ DOMAIN g = DOMAIN h
  OBVIOUS
<1>2. \A b \in DOMAIN h : Cell(g[b], Len(h))
  BY DEF Heaped
<1> HIDE DEF g
<1>3. List(g) /\ Len(g) = Len(h)
  BY <1>1, ListSame DEF Heaped
<1>4. Heaped(g)
  BY <1>1, <1>2, <1>3 DEF Heaped
<1> QED
  BY <1>3, <1>4 DEF g

\* The same pointers, the same owners.
LEMMA HoldsAlike ==
    ASSUME NEW h, NEW D, Holds(h, D), NEW g, Heaped(g), DOMAIN g = DOMAIN h,
           \A a \in DOMAIN h : g[a].slots = h[a].slots /\ g[a].live = h[a].live
    PROVE  Holds(g, D)
  BY DEF Holds, Owned, Children

\* The content of a datum changes nobody's ownership.
LEMMA ValHolds ==
    ASSUME NEW h, NEW D, Holds(h, D), NEW a, NEW x,
           a \in DOMAIN h /\ h[a].kind = "STRING" => List(x)
    PROVE  Holds([h EXCEPT ![a].val = x], D)
<1> DEFINE o == [h[a] EXCEPT !.val = x]
<1>1. a \in DOMAIN h => Cell(o, Len(h))
  BY DEF Holds, Heaped, Cell, Shaped
<1>2. a \in DOMAIN h => o.slots = h[a].slots /\ o.live = h[a].live
  BY DEF Holds, Heaped, Cell, Shaped
<1> HIDE DEF o
<1>3. Heaped([h EXCEPT ![a] = o])
  BY <1>1, HeapedWith DEF Holds
<1>4. Holds([h EXCEPT ![a] = o], D)
  BY <1>2, <1>3, HoldsAlike
<1> QED
  BY <1>4 DEF o

\* A slot that is set: the datum it is given is the slot's from now on, and what
\* the slot held before is nobody's.
LEMMA SlotHolds ==
    ASSUME NEW h, NEW D, Holds(h, D), NEW a \in DOMAIN h, NEW o, Cell(o, Len(h)), o.live = h[a].live,
           NEW s, NEW d \in D \cup {0},
           \A i \in DOMAIN o.slots :
             \/ i = s /\ o.slots[i].data = d
             \/ i # s /\ o.slots[i].data = 0
             \/ i # s /\ i \in DOMAIN h[a].slots /\ o.slots[i].data = h[a].slots[i].data
    PROVE  Holds([h EXCEPT ![a] = o], D \ {d})
<1> DEFINE g == [h EXCEPT ![a] = o]
<1>1. Heaped(g) /\ DOMAIN g = DOMAIN h
  BY HeapedWith DEF Holds
<1>2. PICK K : Owned(h, K, D)
  BY DEF Holds
<1>3. g[a] = o /\ \A b \in DOMAIN h : b # a => g[b] = h[b]
  OBVIOUS
<1> HIDE DEF g
<1>4. \A b \in K : \A i \in DOMAIN g[b].slots :
        LET e == g[b].slots[i].data
        IN  \/ e = 0
            \/ b = a /\ i = s /\ e = d
            \/ ~(b = a /\ i = s) /\ i \in DOMAIN h[b].slots /\ e = h[b].slots[i].data
  BY <1>2, <1>3 DEF Owned
<1>5. \A b \in K : \A i \in DOMAIN h[b].slots :
        h[b].slots[i].data # 0 => h[b].slots[i].data \in K \ D
  BY <1>2 DEF Owned, Children, Range
<1>6. d \in K \cup {0} /\ K \subseteq DOMAIN h
  BY <1>2 DEF Owned
<1>7. \A b \in K : Children(g[b]) \subseteq K /\ Children(g[b]) \cap (D \ {d}) = {}
  BY <1>4, <1>5, <1>6 DEF Children, Range
<1>8. \A b, c \in K : \A i \in DOMAIN g[b].slots, j \in DOMAIN g[c].slots :
        g[b].slots[i].data = g[c].slots[j].data /\ g[b].slots[i].data # 0 => b = c /\ i = j
  <2> SUFFICES ASSUME NEW b \in K, NEW c \in K, NEW i \in DOMAIN g[b].slots, NEW j \in DOMAIN g[c].slots,
                      g[b].slots[i].data = g[c].slots[j].data, g[b].slots[i].data # 0
               PROVE  b = c /\ i = j
    OBVIOUS
  <2>1. CASE b = a /\ i = s /\ g[b].slots[i].data = d
    BY <1>4, <1>5, <2>1
  <2>2. CASE c = a /\ j = s /\ g[c].slots[j].data = d
    BY <1>4, <1>5, <2>2
  <2>3. CASE /\ i \in DOMAIN h[b].slots /\ g[b].slots[i].data = h[b].slots[i].data
             /\ j \in DOMAIN h[c].slots /\ g[c].slots[j].data = h[c].slots[j].data
    <3>1. h[b].slots[i].data = h[c].slots[j].data /\ h[b].slots[i].data # 0
      BY <2>3
    <3> QED
      BY <1>2, <2>3, <3>1 DEF Owned
  <2> QED
    BY <1>4, <2>1, <2>2, <2>3
<1>9. \A b \in K : g[b].live
  BY <1>2, <1>3, <1>6 DEF Owned
<1>10. Owned(g, K, D \ {d})
  BY <1>1, <1>2, <1>6, <1>7, <1>8, <1>9 DEF Owned
<1> QED
  BY <1>1, <1>10 DEF Holds, g

\* Elements that move from one owner's datum to another's.
LEMMA MoveHolds ==
    ASSUME NEW h, NEW D, Holds(h, D), NEW a \in D, NEW b \in D, a # b,
           NEW o, Cell(o, Len(h)), o.live = h[a].live,
           NEW from, \A i \in DOMAIN o.slots :
             \/ i \in DOMAIN h[a].slots /\ from[i] = <<a, i>> /\ o.slots[i] = h[a].slots[i]
             \/ \E j \in DOMAIN h[b].slots : from[i] = <<b, j>> /\ o.slots[i] = h[b].slots[j],
           \A i, j \in DOMAIN o.slots : from[i] = from[j] => i = j
    PROVE  Holds([h EXCEPT ![a] = o], D \ {b})
<1> DEFINE g == [h EXCEPT ![a] = o]
<1>1. Heaped(g) /\ DOMAIN g = DOMAIN h
  BY HeapedWith DEF Holds
<1>2. PICK K : Owned(h, K, D)
  BY DEF Holds
<1>3. K \subseteq DOMAIN h /\ a \in K /\ b \in K
  BY <1>2 DEF Owned
<1>4. g[a] = o /\ \A c \in DOMAIN h : c # a => g[c] = h[c]
  BY <1>3
<1> HIDE DEF g
<1>5. \A c \in K : \A i \in DOMAIN h[c].slots :
        h[c].slots[i].data # 0 => h[c].slots[i].data \in K \ D
  BY <1>2 DEF Owned, Children, Range
<1>6. \A c \in K \ {b} : \A i \in DOMAIN g[c].slots :
        \E e \in K : \E j \in DOMAIN h[e].slots :
          /\ g[c].slots[i].data = h[e].slots[j].data
          /\ IF c = a THEN from[i] = <<e, j>> ELSE e = c /\ j = i
  BY <1>3, <1>4
<1>7. \A c \in K \ {b} : Children(g[c]) \subseteq K \ D
  BY <1>5, <1>6 DEF Children, Range
<1>8. \A c, e \in K \ {b} : \A i \in DOMAIN g[c].slots, j \in DOMAIN g[e].slots :
        g[c].slots[i].data = g[e].slots[j].data /\ g[c].slots[i].data # 0 => c = e /\ i = j
  <2> SUFFICES ASSUME NEW c \in K \ {b}, NEW e \in K \ {b},
                      NEW i \in DOMAIN g[c].slots, NEW j \in DOMAIN g[e].slots,
                      g[c].slots[i].data = g[e].slots[j].data, g[c].slots[i].data # 0
               PROVE  c = e /\ i = j
    OBVIOUS
  <2> DEFINE Source(x, i1, c1, j1) ==
               /\ g[x].slots[i1].data = h[c1].slots[j1].data
               /\ IF x = a THEN from[i1] = <<c1, j1>> ELSE c1 = x /\ j1 = i1
  <2>1. PICK c1 \in K : \E i1 \in DOMAIN h[c1].slots : Source(c, i, c1, i1)
    BY <1>6
  <2>2. PICK i1 \in DOMAIN h[c1].slots : Source(c, i, c1, i1)
    BY <2>1
  <2>3. PICK e1 \in K : \E j1 \in DOMAIN h[e1].slots : Source(e, j, e1, j1)
    BY <1>6
  <2>4. PICK j1 \in DOMAIN h[e1].slots : Source(e, j, e1, j1)
    BY <2>3
  <2>5. c1 = e1 /\ i1 = j1
    <3>1. h[c1].slots[i1].data = h[e1].slots[j1].data /\ h[c1].slots[i1].data # 0
      BY <2>2, <2>4
    <3> QED
      BY <1>2, <3>1 DEF Owned
  <2>6. c = a => c1 \in {a, b} /\ i \in DOMAIN o.slots
    BY <1>4, <2>2
  <2>7. e = a => e1 \in {a, b} /\ j \in DOMAIN o.slots
    BY <1>4, <2>4
  <2>8. CASE c = a /\ e = a
    BY <2>2, <2>4, <2>5, <2>6, <2>7, <2>8
  <2>9. CASE c # a /\ e # a
    BY <2>2, <2>4, <2>5, <2>9
  <2>10. CASE c = a /\ e # a
    BY <2>2, <2>4, <2>5, <2>6, <2>10
  <2>11. CASE c # a /\ e = a
    BY <2>2, <2>4, <2>5, <2>7, <2>11
  <2> QED
    BY <2>8, <2>9, <2>10, <2>11
<1>9. \A c \in K : g[c].live
  BY <1>2, <1>3, <1>4 DEF Owned
<1>10. \A c \in K \ {b} : Children(g[c]) \subseteq K \ {b} /\ Children(g[c]) \cap (D \ {b}) = {}
  BY <1>7
<1>11. Owned(g, K \ {b}, D \ {b})
  BY <1>1, <1>2, <1>3, <1>8, <1>9, <1>10 DEF Owned
<1> QED
  BY <1>1, <1>11 DEF Holds, g

\* Other pointers at the same places.
LEMMA SlotsCell ==
    ASSUME NEW o, NEW k, Cell(o, k), NEW t, t = [s \in DOMAIN o.slots |-> t[s]],
           NEW n, \A s \in DOMAIN o.slots : Pointer(t[s], n)
    PROVE  Cell([o EXCEPT !.slots = t], n)
<1> DEFINE c == [o EXCEPT !.slots = t]
<1>1. /\ Shaped(c) /\ c.live = o.live /\ c.kind = o.kind /\ c.val = o.val /\ c.slots = t
      /\ DOMAIN t = DOMAIN o.slots
  BY DEF Cell, Shaped
<1>2. o.kind = "ARRAY" => List(t)
  BY ListSame DEF Cell
<1> HIDE DEF c
<1>3. Cell(c, n)
  BY <1>1, <1>2 DEF Cell
<1> QED
  BY <1>3 DEF c

\* A datum is one in a longer heap too.
LEMMA CellLonger ==
    ASSUME NEW o, NEW k \in Nat, Cell(o, k), NEW n \in Nat, k <= n
    PROVE  Cell(o, n)
  BY DEF Cell, Pointer

\* var_unset of owners: what was below them is nobody's.
LEMMA FreeHolds ==
    ASSUME NEW m, NEW D, Holds(m.h, D), NEW E, E \subseteq D,
           NEW vs, \A i \in DOMAIN vs : vs[i].data \in D \cup {0} /\ vs[i].data \notin E
    PROVE  /\ Holds(Free(m, vs).h, E)
           /\ Len(Free(m, vs).h) = Len(m.h)
<1> DEFINE gone == UNION {DataOf(m, vs[i]) : i \in DOMAIN vs}
           g == [a \in DOMAIN m.h |-> [m.h[a] EXCEPT !.live = @ /\ a \notin gone]]
<1>1. Free(m, vs).h = g
  BY DEF Free
<1>2. Heaped(m.h) /\ List(m.h)
  BY DEF Holds, Heaped
<1>3. g = [a \in DOMAIN m.h |-> g[a]] /\ DOMAIN g = DOMAIN m.h
  OBVIOUS
<1>4. \A a \in DOMAIN m.h :
        /\ Cell(g[a], Len(m.h)) /\ g[a].slots = m.h[a].slots
        /\ a \notin gone => g[a].live = m.h[a].live
  <2> TAKE a \in DOMAIN m.h
  <2> DEFINE l == m.h[a].live /\ a \notin gone
  <2>1. Cell(m.h[a], Len(m.h)) /\ g[a] = [m.h[a] EXCEPT !.live = l]
    BY <1>2 DEF Heaped
  <2>2. l \in BOOLEAN /\ (a \notin gone => l = m.h[a].live)
    BY <2>1 DEF Cell
  <2> HIDE DEF g, l
  <2>3. Shaped(g[a]) /\ g[a].live = l /\ g[a].kind = m.h[a].kind /\ g[a].val = m.h[a].val
        /\ g[a].slots = m.h[a].slots
    BY <2>1 DEF Cell, Shaped
  <2> QED
    BY <2>1, <2>2, <2>3 DEF Cell
<1> HIDE DEF g
<1>5. List(g) /\ Len(g) = Len(m.h)
  BY <1>2, <1>3, ListSame
<1>6. Heaped(g)
  BY <1>3, <1>4, <1>5 DEF Heaped
<1>7. PICK K : Owned(m.h, K, D)
  BY DEF Holds
<1>8. \A a \in gone : \E q \in D : a \in Reach(m.h, q) /\ Reach(m.h, q) \subseteq gone /\ q \notin E
  BY DEF DataOf
<1> HIDE DEF gone
<1>9. D \subseteq K /\ K \subseteq DOMAIN m.h
  BY <1>7 DEF Owned
<1>10. E \cap gone = {}
  <2> SUFFICES ASSUME NEW r \in E, r \in gone PROVE FALSE
    OBVIOUS
  <2>1. PICK q \in D : r \in Reach(m.h, q) /\ q \notin E
    BY <1>8
  <2>2. r \in D /\ r # q
    BY <2>1
  <2>3. r \in Reach(m.h, r)
    BY <1>2, <1>9, <2>2, ReachLeast
  <2>4. Reach(m.h, q) \cap Reach(m.h, r) = {}
    BY <1>2, <1>7, <2>2, Apart
  <2> QED
    BY <2>1, <2>3, <2>4
<1>11. \A x \in K \ gone : Children(m.h[x]) \cap gone = {}
  <2> SUFFICES ASSUME NEW x \in K, x \notin gone, NEW c \in Children(m.h[x]), c \in gone
               PROVE  FALSE
    OBVIOUS
  <2>1. PICK q \in D : c \in Reach(m.h, q) /\ Reach(m.h, q) \subseteq gone
    BY <1>8
  <2>2. c # q
    BY <1>7 DEF Owned
  <2>3. x \in Reach(m.h, q)
    BY <1>2, <1>7, <1>9, <2>1, <2>2, NoWayIn
  <2> QED
    BY <2>1, <2>3
<1>12. \A x \in K \ gone : Children(g[x]) = Children(m.h[x]) /\ g[x].live
  BY <1>4, <1>7, <1>9 DEF Owned, Children
<1>13. Owned(g, K \ gone, E)
  <2>1. K \ gone \subseteq DOMAIN g /\ E \subseteq K \ gone
    BY <1>3, <1>9, <1>10
  <2>2. \A a \in K \ gone : g[a].live /\ Children(g[a]) \subseteq K \ gone /\ Children(g[a]) \cap E = {}
    BY <1>7, <1>11, <1>12 DEF Owned
  <2>3. \A a, b \in K \ gone : g[a].slots = m.h[a].slots /\ g[b].slots = m.h[b].slots
    BY <1>4, <1>9
  <2>4. \A a, b \in K \ gone : \A i \in DOMAIN g[a].slots, j \in DOMAIN g[b].slots :
          g[a].slots[i].data = g[b].slots[j].data /\ g[a].slots[i].data # 0 => a = b /\ i = j
    BY <1>7, <2>3 DEF Owned
  <2> QED
    BY <2>1, <2>2, <2>4 DEF Owned
<1> QED
  BY <1>1, <1>5, <1>6, <1>13 DEF Holds

\* A fragment in which every datum but the first is in one place at most, and
\* the first in none.
Tree(f) ==
    /\ List(f) /\ \A i \in DOMAIN f : f[i].live /\ Cell(f[i], Len(f))
    /\ \A i \in DOMAIN f : 1 \notin Children(f[i])
    /\ \A i, j \in DOMAIN f : \A s \in DOMAIN f[i].slots, t \in DOMAIN f[j].slots :
         f[i].slots[s].data = f[j].slots[t].data /\ f[i].slots[s].data # 0 => i = j /\ s = t

First(f, n) == IF f = <<>> THEN {} ELSE {n + 1}

\* Its first datum is an owner once it is allocated.
LEMMA AllocateHolds ==
    ASSUME NEW m, "h" \in DOMAIN m, NEW D, Holds(m.h, D), NEW f, Tree(f)
    PROVE  /\ Holds(Allocate(m, f).h, D \cup First(f, Len(m.h)))
           /\ Len(Allocate(m, f).h) = Len(m.h) + Len(f)
<1> DEFINE n == Len(m.h)
           slots(i) == [s \in DOMAIN f[i].slots |->
                          IF f[i].slots[s].data = 0 THEN f[i].slots[s]
                          ELSE [f[i].slots[s] EXCEPT !.data = f[i].slots[s].data + n]]
           new == [i \in DOMAIN f |-> [f[i] EXCEPT !.slots = slots(i)]]
           g == m.h \o new
<1>1. Allocate(m, f).h = g
  BY DEF Allocate, Moved
<1>2. /\ Heaped(m.h) /\ List(m.h) /\ n \in Nat /\ DOMAIN m.h = 1 .. n
      /\ List(f) /\ Len(f) \in Nat /\ DOMAIN f = 1 .. Len(f)
  BY ListType DEF Holds, Heaped, Tree
<1> HIDE DEF n
<1>3. \A i \in DOMAIN f : DOMAIN slots(i) = DOMAIN f[i].slots /\ slots(i) = [s \in DOMAIN f[i].slots |-> slots(i)[s]]
  OBVIOUS
<1>4. \A i \in DOMAIN f : \A s \in DOMAIN f[i].slots :
        /\ Pointer(slots(i)[s], n + Len(f))
        /\ slots(i)[s].data = IF f[i].slots[s].data = 0 THEN 0 ELSE f[i].slots[s].data + n
        /\ f[i].slots[s].data \in 0 .. Len(f)
  <2> TAKE i \in DOMAIN f
  <2> TAKE s \in DOMAIN f[i].slots
  <2>1. Pointer(f[i].slots[s], Len(f))
    BY DEF Tree, Cell
  <2> QED
    BY <1>2, <2>1 DEF Pointer
<1> HIDE DEF slots
<1>5. \A i \in DOMAIN f : Cell(new[i], n + Len(f)) /\ new[i].slots = slots(i) /\ new[i].live
  <2> TAKE i \in DOMAIN f
  <2>1. Cell(f[i], Len(f)) /\ f[i].live
    BY DEF Tree
  <2>2. Cell([f[i] EXCEPT !.slots = slots(i)], n + Len(f))
    BY <1>3, <1>4, <2>1, SlotsCell
  <2> QED
    BY <2>1, <2>2 DEF Cell, Shaped
<1>6. DOMAIN new = DOMAIN f /\ new = [i \in DOMAIN f |-> new[i]]
  OBVIOUS
<1> HIDE DEF new
<1>7. List(new) /\ Len(new) = Len(f)
  BY <1>2, <1>6, ListSame
<1>8. /\ List(g) /\ Len(g) = n + Len(f)
      /\ \A i \in DOMAIN g : g[i] = IF i <= n THEN m.h[i] ELSE new[i - n]
  BY <1>2, <1>7, ListJoin DEF n
<1> HIDE DEF g
<1>9. DOMAIN g = 1 .. n + Len(f)
  BY <1>8, ListType
<1>10. /\ \A a \in 1 .. n : a \in DOMAIN g /\ g[a] = m.h[a]
       /\ \A i \in DOMAIN f : n + i \in DOMAIN g /\ g[n + i] = new[i]
       /\ \A a \in DOMAIN g : a \in 1 .. n \/ \E i \in DOMAIN f : a = n + i
  <2>1. \A i \in DOMAIN f : n + i \in DOMAIN g /\ ~(n + i <= n) /\ n + i - n = i
    BY <1>2, <1>9
  <2>2. \A a \in DOMAIN g : a \in 1 .. n \/ (a - n \in DOMAIN f /\ a = n + (a - n))
    BY <1>2, <1>9
  <2> QED
    BY <1>2, <1>8, <1>9, <2>1, <2>2
<1>11. Heaped(g)
  <2>1. \A a \in 1 .. n : Cell(m.h[a], n)
    BY <1>2 DEF Heaped, n
  <2>2. n + Len(f) \in Nat /\ n <= n + Len(f)
    BY <1>2
  <2>3. \A a \in 1 .. n : Cell(m.h[a], n + Len(f))
    BY <1>2, <2>1, <2>2, CellLonger
  <2> QED
    BY <1>5, <1>8, <1>10, <2>3 DEF Heaped
<1>12. PICK K : Owned(m.h, K, D)
  BY DEF Holds
<1> DEFINE N == {n + i : i \in DOMAIN f}
           E == D \cup First(f, n)
<1>13. K \subseteq 1 .. n /\ D \subseteq K /\ \A a \in K : g[a] = m.h[a] /\ Children(m.h[a]) \subseteq K
  BY <1>2, <1>10, <1>12 DEF Owned
<1>14. K \cap N = {}
  BY <1>2, <1>13
<1>15. First(f, n) \subseteq N /\ First(f, n) \subseteq {n + 1}
  <2>1. CASE f = <<>>
    BY <2>1 DEF First
  <2>2. CASE f # <<>>
    <3>1. 1 \in DOMAIN f
      BY <1>2, <2>2
    <3> QED
      BY <3>1 DEF First
  <2> QED
    BY <2>1, <2>2
<1>16. \A i \in DOMAIN f : \A c \in Children(g[n + i]) : \E j \in DOMAIN f : j # 1 /\ c = n + j
  <2> SUFFICES ASSUME NEW i \in DOMAIN f, NEW s \in DOMAIN f[i].slots, slots(i)[s].data # 0
               PROVE  \E j \in DOMAIN f : j # 1 /\ slots(i)[s].data = n + j
    BY <1>3, <1>5, <1>10 DEF Children, Range
  <2>1. f[i].slots[s].data \in DOMAIN f /\ slots(i)[s].data = n + f[i].slots[s].data
    BY <1>2, <1>4
  <2>2. f[i].slots[s].data # 1
    BY DEF Tree, Children, Range
  <2> QED
    BY <2>1, <2>2
<1>17. \A a \in K \cup N : g[a].live /\ Children(g[a]) \subseteq K \cup N /\ Children(g[a]) \cap E = {}
  <2>1. \A a \in K : g[a].live /\ Children(g[a]) \subseteq K /\ Children(g[a]) \cap D = {}
    BY <1>12, <1>13 DEF Owned
  <2>2. \A i \in DOMAIN f : g[n + i].live
    BY <1>5, <1>10
  <2>3. \A j \in DOMAIN f : n + j \in N /\ (j # 1 => n + j # n + 1)
    BY <1>2
  <2>4. \A i \in DOMAIN f : \A c \in Children(g[n + i]) : c \in N /\ c # n + 1
    BY <1>16, <2>3
  <2>5. \A a \in N : g[a].live /\ Children(g[a]) \subseteq N /\ n + 1 \notin Children(g[a])
    BY <2>2, <2>4
  <2> HIDE DEF N
  <2> QED
    BY <1>13, <1>14, <1>15, <2>1, <2>5
<1>18. \A a, b \in K \cup N : \A i \in DOMAIN g[a].slots, j \in DOMAIN g[b].slots :
         g[a].slots[i].data = g[b].slots[j].data /\ g[a].slots[i].data # 0 => a = b /\ i = j
  <2> SUFFICES ASSUME NEW a \in K \cup N, NEW b \in K \cup N,
                      NEW i \in DOMAIN g[a].slots, NEW j \in DOMAIN g[b].slots,
                      g[a].slots[i].data = g[b].slots[j].data, g[a].slots[i].data # 0
               PROVE  a = b /\ i = j
    OBVIOUS
  <2>1. g[a].slots[i].data \in Children(g[a]) /\ g[a].slots[i].data \in Children(g[b])
    BY DEF Children, Range
  <2>2. /\ a \in K => g[a].slots[i].data \in K
        /\ b \in K => g[a].slots[i].data \in K
        /\ a \in N => g[a].slots[i].data \in N
        /\ b \in N => g[a].slots[i].data \in N
    BY <1>13, <1>16, <2>1
  <2>3. CASE a \in K /\ b \in K
    <3>1. i \in DOMAIN m.h[a].slots /\ j \in DOMAIN m.h[b].slots
          /\ m.h[a].slots[i].data = m.h[b].slots[j].data /\ m.h[a].slots[i].data # 0
      BY <1>13, <2>3
    <3> QED
      BY <1>12, <2>3, <3>1 DEF Owned
  <2>4. CASE a \in N /\ b \in N
    <3>1. PICK x \in DOMAIN f, y \in DOMAIN f : a = n + x /\ b = n + y
      BY <2>4
    <3>2. i \in DOMAIN f[x].slots /\ j \in DOMAIN f[y].slots
          /\ slots(x)[i].data = slots(y)[j].data /\ slots(x)[i].data # 0
      BY <1>3, <1>5, <1>10, <3>1
    <3> DEFINE p == f[x].slots[i].data
               q == f[y].slots[j].data
    <3>3. /\ slots(x)[i].data = IF p = 0 THEN 0 ELSE p + n
          /\ slots(y)[j].data = IF q = 0 THEN 0 ELSE q + n
          /\ p \in Nat /\ q \in Nat /\ n \in Nat /\ (p # 0 => p + n # 0)
      BY <1>2, <1>4, <3>2
    <3> HIDE DEF p, q
    <3>4. p + n = q + n /\ p # 0
      BY <3>2, <3>3
    <3>5. x = y /\ i = j
      BY <3>2, <3>3, <3>4 DEF Tree, p, q
    <3> QED
      BY <3>1, <3>5
  <2> QED
    BY <1>14, <2>2, <2>3, <2>4
<1>19. Owned(g, K \cup N, E)
  <2>1. K \cup N \subseteq DOMAIN g /\ E \subseteq K \cup N
    BY <1>10, <1>13, <1>15
  <2> QED
    BY <1>17, <1>18, <2>1 DEF Owned
<1> QED
  BY <1>1, <1>8, <1>11, <1>19 DEF Holds, n

\* The members of a finite set in some order: each in one place.
LEMMA SetToSeqEach ==
    ASSUME NEW T, IsFiniteSet(T)
    PROVE  /\ \A i, j \in DOMAIN SetToSeq(T) : SetToSeq(T)[i] = SetToSeq(T)[j] => i = j
           /\ \A x \in T : \E i \in DOMAIN SetToSeq(T) : SetToSeq(T)[i] = x
<1> DEFINE n == Cardinality(T)
           f == SetToSeq(T)
<1>1. n \in Nat /\ ExistsBijection(1 .. n, T)
  BY FS_CardinalityType
<1>2. \E g \in [1 .. n -> T] : IsInjective(g)
  BY <1>1 DEF ExistsBijection, Bijection, Injection
<1>3. f \in [1 .. n -> T] /\ IsInjective(f)
  BY <1>2 DEF SetToSeq
<1> HIDE DEF f
<1>4. f \in Injection(1 .. n, T)
  BY <1>3 DEF Injection
<1>5. Cardinality(1 .. n) = n
  BY <1>1, FS_Interval
<1>6. f \in Surjection(1 .. n, T)
  BY <1>4, <1>5, FS_Injection
<1> QED
  BY <1>3, <1>6 DEF IsInjective, Surjection, f

\* A copy keeps everything of its original but the pointers and, of an array,
\* the room.
LEMMA KeptCell ==
    ASSUME NEW o, NEW k, Cell(o, k), NEW c, c = IF o.kind = "ARRAY" THEN ClonedArray(o) ELSE o
    PROVE  Cell(c, k) /\ c.slots = o.slots /\ c.live = o.live /\ c.kind = o.kind
  BY DEF Cell, Shaped, ClonedArray

\* copies is the fragment that Clone allocates for v: its datum first, then
\* what is below it, each once, with pointers to the copies; order says what
\* they are copies of.
Copies(m, v, order, copies) ==
    /\ Clone(m, v).h = Allocate(m, copies).h
    /\ List(copies) /\ Len(copies) \in Nat /\ DOMAIN copies = 1 .. Len(copies)
    /\ 1 \in DOMAIN copies /\ order[1] = v.data
    /\ \A i \in DOMAIN copies : order[i] \in Reach(m.h, v.data)
    /\ \A i, j \in DOMAIN copies : order[i] = order[j] => i = j
    /\ \A i \in DOMAIN copies :
         LET o == m.h[order[i]]
         IN  /\ Cell(copies[i], Len(copies)) /\ copies[i].live = o.live /\ copies[i].kind = o.kind
             /\ DOMAIN copies[i].slots = DOMAIN o.slots
             /\ \A s \in DOMAIN o.slots :
                  \/ o.slots[s].data = 0 /\ copies[i].slots[s] = o.slots[s]
                  \/ \E j \in DOMAIN copies :
                       /\ order[j] = o.slots[s].data
                       /\ copies[i].slots[s] = [o.slots[s] EXCEPT !.data = j]

\* Clone allocates such a fragment.
LEMMA CloneCopies ==
    ASSUME NEW m, Heaped(m.h), DOMAIN m = {"h", "bad"}, NEW v, v.data \in DOMAIN m.h
    PROVE  \E order, copies : Copies(m, v, order, copies)
<1> DEFINE all == DataOf(m, v)
           order == <<v.data>> \o SetToSeq(all \ {v.data})
           place(p) == CHOOSE j \in DOMAIN order : order[j] = p
           kept(o) == IF o.kind = "ARRAY" THEN ClonedArray(o) ELSE o
           slots(o) == [s \in DOMAIN o.slots |->
                          IF o.slots[s].data = 0 THEN o.slots[s]
                          ELSE [o.slots[s] EXCEPT !.data = place(o.slots[s].data)]]
           copy(o) == [o EXCEPT !.slots = slots(o)]
           copies == [i \in DOMAIN order |-> copy(kept(m.h[order[i]]))]
<1>1. Clone(m, v).h = Allocate(m, copies).h
  BY DEF Clone, Moved, Spoilt, Allocate
<1>2. DOMAIN m.h = 1 .. Len(m.h) /\ Len(m.h) \in Nat
  BY ListType DEF Heaped
<1>3. all = Reach(m.h, v.data)
  BY <1>2 DEF DataOf
<1> HIDE DEF all
<1>4. all \subseteq DOMAIN m.h /\ v.data \in all /\ \A a \in all : Children(m.h[a]) \subseteq all
  BY <1>3, ReachLeast DEF Closed, Below
<1>5. /\ List(order) /\ order # <<>> /\ 1 \in DOMAIN order /\ order[1] = v.data
      /\ \A i \in DOMAIN order : order[i] \in all
      /\ \A i, j \in DOMAIN order : order[i] = order[j] => i = j
      /\ \A x \in all : \E i \in DOMAIN order : order[i] = x
  <2> DEFINE rest == SetToSeq(all \ {v.data})
  <2>1. IsFiniteSet(all \ {v.data})
    <3>1. IsFiniteSet(1 .. Len(m.h))
      BY <1>2, FS_Interval
    <3>2. all \ {v.data} \in SUBSET (1 .. Len(m.h))
      BY <1>2, <1>4
    <3> QED
      BY <3>1, <3>2, FS_Subset
  <2>2. /\ List(rest)
        /\ \A i \in DOMAIN rest : rest[i] \in all \ {v.data}
        /\ \A i, j \in DOMAIN rest : rest[i] = rest[j] => i = j
        /\ \A x \in all \ {v.data} : \E i \in DOMAIN rest : rest[i] = x
    BY <2>1, SetToSeqList, SetToSeqEach
  <2> HIDE DEF rest
  <2>3. List(<<v.data>>) /\ Len(<<v.data>>) = 1 /\ <<v.data>>[1] = v.data
    <3>1. <<v.data>> \in Seq({v.data})
      OBVIOUS
    <3> QED
      BY <3>1, ListOf
  <2>4. /\ List(order) /\ Len(order) = 1 + Len(rest)
        /\ \A i \in DOMAIN order : order[i] = IF i <= 1 THEN <<v.data>>[i] ELSE rest[i - 1]
    BY <2>2, <2>3, ListJoin DEF rest
  <2>5. Len(rest) \in Nat /\ DOMAIN rest = 1 .. Len(rest) /\ DOMAIN order = 1 .. 1 + Len(rest)
    BY <2>2, <2>4, ListType
  <2> HIDE DEF order
  <2>6. 1 \in DOMAIN order /\ order[1] = v.data
    BY <2>3, <2>4, <2>5
  <2>7. /\ \A i \in DOMAIN order : i = 1 \/ (i - 1 \in DOMAIN rest /\ order[i] = rest[i - 1])
        /\ \A i \in DOMAIN rest : i + 1 \in DOMAIN order /\ order[i + 1] = rest[i]
    <3>1. \A i \in DOMAIN order : i = 1 \/ (~(i <= 1) /\ i - 1 \in DOMAIN rest)
      BY <2>5
    <3>2. \A i \in DOMAIN rest : ~(i + 1 <= 1) /\ i + 1 \in DOMAIN order /\ i + 1 - 1 = i
      BY <2>5
    <3> QED
      BY <2>4, <3>1, <3>2
  <2>8. \A i \in DOMAIN order : order[i] \in all
    BY <1>4, <2>2, <2>6, <2>7
  <2>9. \A i, j \in DOMAIN order : order[i] = order[j] => i = j
    <3> SUFFICES ASSUME NEW i \in DOMAIN order, NEW j \in DOMAIN order, order[i] = order[j]
                 PROVE  i = j
      OBVIOUS
    <3>1. i = 1 <=> j = 1
      BY <2>2, <2>6, <2>7
    <3>2. CASE i # 1
      <4>1. i - 1 = j - 1
        BY <2>2, <2>7, <3>1, <3>2
      <4> QED
        BY <2>5, <4>1
    <3> QED
      BY <3>1, <3>2
  <2>10. \A x \in all : \E i \in DOMAIN order : order[i] = x
    BY <2>2, <2>6, <2>7
  <2>11. order # <<>>
    BY <2>6
  <2> QED
    BY <2>4, <2>6, <2>8, <2>9, <2>10, <2>11
<1> HIDE DEF order
<1>6. \A x \in all : place(x) \in DOMAIN order /\ order[place(x)] = x
  BY <1>5
<1>7. DOMAIN order = 1 .. Len(order) /\ Len(order) \in Nat
  BY <1>5, ListType
<1> HIDE DEF place
<1>8. \A i \in DOMAIN order :
         LET o == m.h[order[i]]
         IN  /\ Cell(copies[i], Len(order)) /\ copies[i].live = o.live /\ copies[i].kind = o.kind
             /\ DOMAIN copies[i].slots = DOMAIN o.slots
             /\ \A s \in DOMAIN o.slots :
                  \/ o.slots[s].data = 0 /\ copies[i].slots[s] = o.slots[s]
                  \/ \E j \in DOMAIN order :
                       /\ order[j] = o.slots[s].data
                       /\ copies[i].slots[s] = [o.slots[s] EXCEPT !.data = j]
  <2> TAKE i \in DOMAIN order
  <2> DEFINE o == m.h[order[i]]
             k == kept(o)
  <2>1. order[i] \in all /\ Cell(o, Len(m.h))
    BY <1>4, <1>5 DEF Heaped
  <2>2. Cell(k, Len(m.h)) /\ k.slots = o.slots /\ k.live = o.live /\ k.kind = o.kind
    BY <2>1, KeptCell
  <2>3. copies[i] = [k EXCEPT !.slots = slots(k)]
    OBVIOUS
  <2> HIDE DEF copies, copy, k, o
  <2>4. \A s \in DOMAIN k.slots :
          /\ Pointer(slots(k)[s], Len(order))
          /\ \/ o.slots[s].data = 0 /\ slots(k)[s] = o.slots[s]
             \/ \E j \in DOMAIN order : order[j] = o.slots[s].data /\ slots(k)[s] = [o.slots[s] EXCEPT !.data = j]
    <3> TAKE s \in DOMAIN k.slots
    <3>1. Pointer(k.slots[s], Len(m.h)) /\ k.slots[s] = o.slots[s]
      BY <2>2 DEF Cell
    <3>2. k.slots[s].data # 0 => k.slots[s].data \in all
      BY <1>4, <2>1, <3>1, <2>2 DEF Children, Range, o
    <3>3. k.slots[s].data # 0 => place(k.slots[s].data) \in DOMAIN order /\ order[place(k.slots[s].data)] = k.slots[s].data
      BY <1>6, <3>2
    <3>4. slots(k)[s] = IF k.slots[s].data = 0 THEN k.slots[s]
                        ELSE [k.slots[s] EXCEPT !.data = place(k.slots[s].data)]
      OBVIOUS
    <3> HIDE DEF slots
    <3>5. Pointer(slots(k)[s], Len(order))
      BY <1>7, <3>1, <3>3, <3>4 DEF Pointer
    <3> QED
      BY <3>1, <3>3, <3>4, <3>5
  <2>5. slots(k) = [s \in DOMAIN k.slots |-> slots(k)[s]] /\ DOMAIN slots(k) = DOMAIN k.slots
    OBVIOUS
  <2> HIDE DEF slots
  <2>6. Cell([k EXCEPT !.slots = slots(k)], Len(order))
    BY <2>2, <2>4, <2>5, SlotsCell
  <2>7. /\ [k EXCEPT !.slots = slots(k)].slots = slots(k) /\ [k EXCEPT !.slots = slots(k)].live = k.live
        /\ [k EXCEPT !.slots = slots(k)].kind = k.kind
    BY <2>2 DEF Cell, Shaped
  <2>8. /\ Cell(copies[i], Len(order)) /\ copies[i].live = o.live /\ copies[i].kind = o.kind
        /\ copies[i].slots = slots(k) /\ DOMAIN slots(k) = DOMAIN o.slots
    BY <2>1, <2>2, <2>3, <2>5, <2>6, <2>7
  <2> QED
    BY <2>1, <2>2, <2>4, <2>8 DEF o
<1>9. DOMAIN copies = DOMAIN order /\ copies = [i \in DOMAIN order |-> copies[i]]
  OBVIOUS
<1> HIDE DEF copies, copy, kept, slots
<1>10. List(copies) /\ Len(copies) = Len(order)
  BY <1>5, <1>9, ListSame
<1> QED
  <2>1. DOMAIN copies = 1 .. Len(copies) /\ Len(copies) \in Nat
    BY <1>7, <1>9, <1>10
  <2>2. 1 \in DOMAIN copies /\ order[1] = v.data /\ \A i \in DOMAIN copies : order[i] \in Reach(m.h, v.data)
    BY <1>3, <1>5, <1>9
  <2>3. \A i, j \in DOMAIN copies : order[i] = order[j] => i = j
    BY <1>5, <1>9
  <2>4. \A i \in DOMAIN copies :
          LET o == m.h[order[i]]
          IN  /\ Cell(copies[i], Len(copies)) /\ copies[i].live = o.live /\ copies[i].kind = o.kind
              /\ DOMAIN copies[i].slots = DOMAIN o.slots
              /\ \A s \in DOMAIN o.slots :
                   \/ o.slots[s].data = 0 /\ copies[i].slots[s] = o.slots[s]
                   \/ \E j \in DOMAIN copies :
                        /\ order[j] = o.slots[s].data
                        /\ copies[i].slots[s] = [o.slots[s] EXCEPT !.data = j]
    BY <1>8, <1>9, <1>10
  <2> QED
    BY <1>1, <1>10, <2>1, <2>2, <2>3, <2>4 DEF Copies

\* The copy of a datum that is owned, or below one that is, is an owner of its own.
LEMMA CloneHolds ==
    ASSUME NEW m, DOMAIN m = {"h", "bad"}, NEW D, Holds(m.h, D), NEW r \in D,
           NEW v, v.data \in Reach(m.h, r)
    PROVE  /\ Holds(Clone(m, v).h, D \cup {Len(m.h) + 1})
           /\ Len(m.h) <= Len(Clone(m, v).h)
<1>1. Heaped(m.h) /\ Len(m.h) \in Nat
  BY ListType DEF Holds, Heaped
<1>2. PICK K : Owned(m.h, K, D)
  BY DEF Holds
<1> DEFINE all == Reach(m.h, v.data)
<1>3. K \subseteq DOMAIN m.h /\ r \in K /\ v.data \in K
  <2>1. K \subseteq DOMAIN m.h /\ r \in K
    BY <1>2 DEF Owned
  <2>2. Reach(m.h, r) \subseteq K
    BY <1>1, <1>2, <2>1, ReachOwned
  <2> QED
    BY <2>1, <2>2
<1>4. all \subseteq K
  BY <1>1, <1>2, <1>3, ReachOwned
<1>5. \A a \in all : v.data \notin Children(m.h[a])
  BY <1>1, <1>2, NoCycle
<1>6. PICK order, copies : Copies(m, v, order, copies)
  <2>1. v.data \in DOMAIN m.h
    BY <1>3
  <2> QED
    BY <1>1, <2>1, CloneCopies
<1>7. \A i \in DOMAIN copies : order[i] \in all
  BY <1>6 DEF Copies
<1> HIDE DEF all
<1>8. \A i \in DOMAIN copies : \A s \in DOMAIN copies[i].slots :
        copies[i].slots[s].data # 0 =>
          LET d == m.h[order[i]].slots[s].data
          IN  /\ d # 0 /\ d # v.data /\ s \in DOMAIN m.h[order[i]].slots
              /\ copies[i].slots[s].data \in DOMAIN copies /\ order[copies[i].slots[s].data] = d
  <2> SUFFICES ASSUME NEW i \in DOMAIN copies, NEW s \in DOMAIN copies[i].slots, copies[i].slots[s].data # 0
               PROVE  LET d == m.h[order[i]].slots[s].data
                      IN  /\ d # 0 /\ d # v.data /\ s \in DOMAIN m.h[order[i]].slots
                          /\ copies[i].slots[s].data \in DOMAIN copies /\ order[copies[i].slots[s].data] = d
    OBVIOUS
  <2> DEFINE o == m.h[order[i]]
             w == o.slots[s]
  <2>1. s \in DOMAIN o.slots
    BY <1>6 DEF Copies
  <2>2. order[i] \in all /\ order[i] \in DOMAIN m.h /\ Pointer(w, Len(m.h))
    BY <1>1, <1>3, <1>4, <1>7, <2>1 DEF Heaped, Cell
  <2>3. \/ w.data = 0 /\ copies[i].slots[s] = w
        \/ \E j \in DOMAIN copies : order[j] = w.data /\ copies[i].slots[s] = [w EXCEPT !.data = j]
    BY <1>6, <2>1 DEF Copies
  <2>4. copies[i].slots[s].data \in DOMAIN copies /\ order[copies[i].slots[s].data] = w.data
    BY <2>2, <2>3 DEF Pointer
  <2>5. w.data # 0
    <3>1. order[copies[i].slots[s].data] \in DOMAIN m.h /\ 0 \notin DOMAIN m.h
      BY <1>1, <1>3, <1>4, <1>7, <2>4, ListType DEF Heaped
    <3> QED
      BY <2>4, <3>1
  <2>6. w.data \in Children(o)
    BY <2>1, <2>5 DEF Children, Range
  <2> QED
    BY <1>5, <2>1, <2>2, <2>4, <2>5, <2>6
<1>9. Tree(copies)
  <2>1. \A i \in DOMAIN copies : copies[i].live /\ Cell(copies[i], Len(copies))
    BY <1>2, <1>4, <1>6, <1>7 DEF Owned, Copies
  <2>2. \A i \in DOMAIN copies : 1 \notin Children(copies[i])
    <3> SUFFICES ASSUME NEW i \in DOMAIN copies, NEW s \in DOMAIN copies[i].slots, copies[i].slots[s].data = 1
                 PROVE  FALSE
      BY DEF Children, Range
    <3> QED
      BY <1>6, <1>8 DEF Copies
  <2>3. \A i, j \in DOMAIN copies : \A s \in DOMAIN copies[i].slots, t \in DOMAIN copies[j].slots :
          copies[i].slots[s].data = copies[j].slots[t].data /\ copies[i].slots[s].data # 0 => i = j /\ s = t
    <3> SUFFICES ASSUME NEW i \in DOMAIN copies, NEW j \in DOMAIN copies,
                        NEW s \in DOMAIN copies[i].slots, NEW t \in DOMAIN copies[j].slots,
                        copies[i].slots[s].data = copies[j].slots[t].data, copies[i].slots[s].data # 0
                 PROVE  i = j /\ s = t
      OBVIOUS
    <3> DEFINE d == m.h[order[i]].slots[s].data
               e == m.h[order[j]].slots[t].data
    <3>1. d # 0 /\ d = e /\ s \in DOMAIN m.h[order[i]].slots /\ t \in DOMAIN m.h[order[j]].slots
      BY <1>8
    <3>2. order[i] \in K /\ order[j] \in K
      BY <1>4, <1>7
    <3>3. order[i] = order[j] /\ s = t
      BY <1>2, <3>1, <3>2 DEF Owned
    <3> QED
      BY <1>6, <3>3 DEF Copies
  <2> QED
    BY <1>6, <2>1, <2>2, <2>3 DEF Tree, Copies
<1>10. First(copies, Len(m.h)) = {Len(m.h) + 1}
  BY <1>6 DEF First, Copies
<1>11. /\ Holds(Allocate(m, copies).h, D \cup First(copies, Len(m.h)))
       /\ Len(Allocate(m, copies).h) = Len(m.h) + Len(copies)
  BY <1>9, AllocateHolds
<1> QED
  BY <1>1, <1>6, <1>10, <1>11 DEF Copies

\* What is below a datum depends on the pointers only.
LEMMA ReachAlike ==
    ASSUME NEW h, Heaped(h), NEW g, Heaped(g), DOMAIN g = DOMAIN h,
           \A b \in DOMAIN h : g[b].slots = h[b].slots, NEW a \in DOMAIN h
    PROVE  Reach(g, a) = Reach(h, a)
<1>1. \A X \in SUBSET DOMAIN h : Closed(g, X) <=> Closed(h, X)
  BY DEF Closed, Below, Children
<1>2. Reach(g, a) \subseteq Reach(h, a)
  BY <1>1, ReachLeast
<1>3. Reach(h, a) \subseteq Reach(g, a)
  BY <1>1, ReachLeast
<1> QED
  BY <1>2, <1>3

\* var_unset changes no pointer.
LEMMA FreeReach ==
    ASSUME NEW m, NEW D, Holds(m.h, D), NEW vs, \A i \in DOMAIN vs : vs[i].data \in D \cup {0},
           NEW a \in DOMAIN m.h
    PROVE  Reach(Free(m, vs).h, a) = Reach(m.h, a)
<1> DEFINE g == Free(m, vs).h
<1>1. Heaped(m.h) /\ Heaped(g)
  <2>1. Holds(g, {})
    BY FreeHolds
  <2> QED
    BY <2>1 DEF Holds
<1>2. DOMAIN g = DOMAIN m.h /\ \A b \in DOMAIN m.h : g[b].slots = m.h[b].slots
  <2>1. \A b \in DOMAIN m.h : Shaped(m.h[b])
    BY <1>1 DEF Heaped, Cell
  <2> QED
    BY <2>1 DEF Free, Shaped
<1> HIDE DEF g
<1> QED
  BY <1>1, <1>2, ReachAlike DEF g

-----------------------------------------------------------------------------
(* Memories, of which nothing is said once undefined behaviour happened.    *)

Data(v) == {v.data} \ {0}
Struct(v) == DOMAIN v = {"type", "data", "ref"}

Keeps(m, D) == DOMAIN m = {"h", "bad"} /\ (~m.bad => Holds(m.h, D))

\* A datum that is owned, or below one that is.
Under(h, D, d) == \E r \in D : d \in Reach(h, r)

\* Owners are data of the heap.
LEMMA OwnersType ==
    ASSUME NEW h, NEW D, Holds(h, D)
    PROVE  D \subseteq DOMAIN h /\ 0 \notin D /\ Len(h) + 1 \notin D /\ Len(h) \in Nat
<1>1. DOMAIN h = 1 .. Len(h) /\ Len(h) \in Nat
  BY ListType DEF Holds, Heaped
<1>2. D \subseteq DOMAIN h
  BY DEF Holds, Owned
<1> QED
  BY <1>1, <1>2

\* op_copy: the owner that is written to gives up its data for a copy that is
\* nobody else's.
LEMMA CopyHolds ==
    ASSUME NEW m, DOMAIN m = {"h", "bad"}, NEW D, Holds(m.h, D),
           NEW a, Struct(a), a.data \in D \cup {0},
           NEW b, Struct(b), b.data = 0 \/ Under(m.h, D \ {a.data}, b.data)
    PROVE  LET c == op_copy(m, a, b)
           IN  /\ Keeps(c.m, (D \ {a.data}) \cup Data(c.v)) /\ (m.bad => c.m.bad)
               /\ Struct(c.v) /\ c.v.data \notin D \ {a.data}
<1> DEFINE c == op_copy(m, a, b)
           F == Free(m, <<a>>)
           E == (D \ {a.data}) \cup Data(c.v)
<1>1. 0 \notin D /\ Len(m.h) + 1 \notin D /\ Len(m.h) \in Nat /\ D \subseteq DOMAIN m.h
  BY OwnersType
<1>2. ASSUME b.data = 0
      PROVE  Keeps(c.m, E) /\ (m.bad => c.m.bad) /\ Struct(c.v) /\ c.v.data \notin D \ {a.data}
  <2>1. c.m = m /\ c.v = b
    BY <1>2 DEF op_copy
  <2> HIDE DEF c
  <2>2. E \subseteq D
    BY <1>2, <2>1 DEF Data
  <2> QED
    BY <1>1, <1>2, <2>1, <2>2, HoldsLess DEF Keeps
<1>3. ASSUME b.data # 0, c.m = Clone(m, b), c.v.data = Len(m.h) + 1
      PROVE  Keeps(c.m, E) /\ (m.bad => c.m.bad)
  <2> HIDE DEF c
  <2>1. PICK r \in D : b.data \in Reach(m.h, r)
    BY <1>3 DEF Under
  <2>2. Holds(c.m.h, D \cup {Len(m.h) + 1})
    BY <1>3, <2>1, CloneHolds
  <2>3. E \subseteq D \cup {Len(m.h) + 1}
    BY <1>3 DEF Data
  <2>4. DOMAIN c.m = {"h", "bad"} /\ (m.bad => c.m.bad)
    BY <1>3 DEF Clone, Spoilt, Allocate
  <2> QED
    BY <2>2, <2>3, <2>4, HoldsLess DEF Keeps
<1>4. ASSUME b.data # 0, a.data # 0, c.m = Clone(F, b), c.v.data = Len(m.h) + 1
      PROVE  Keeps(c.m, E) /\ (m.bad => c.m.bad)
  <2> HIDE DEF c
  <2>1. PICK r \in D : r # a.data /\ b.data \in Reach(m.h, r)
    BY <1>3, <1>4 DEF Under
  <2>2. \A i \in DOMAIN <<a>> : <<a>>[i].data \in D \cup {0} /\ <<a>>[i].data \notin D \ {a.data}
    OBVIOUS
  <2>3. Holds(F.h, D \ {a.data}) /\ Len(F.h) = Len(m.h)
    BY <2>2, FreeHolds
  <2>4. \A i \in DOMAIN <<a>> : <<a>>[i].data \in D \cup {0}
    BY <2>2
  <2>5. Reach(F.h, r) = Reach(m.h, r)
    BY <1>1, <2>4, FreeReach
  <2>6. DOMAIN F = {"h", "bad"} /\ (m.bad => F.bad)
    BY DEF Free
  <2> HIDE DEF F
  <2>7. Holds(c.m.h, (D \ {a.data}) \cup {Len(m.h) + 1})
    BY <1>4, <2>1, <2>3, <2>5, <2>6, CloneHolds
  <2>8. E = (D \ {a.data}) \cup {Len(m.h) + 1}
    BY <1>1, <1>4 DEF Data
  <2>9. DOMAIN c.m = {"h", "bad"} /\ (m.bad => c.m.bad)
    BY <1>4, <2>6 DEF Clone, Spoilt, Allocate
  <2> QED
    BY <2>7, <2>8, <2>9 DEF Keeps
<1>5. ASSUME b.data # 0, a.data # 0, SameSize(m, a, b), a.type \notin Composite
      PROVE  Keeps(c.m, E) /\ (m.bad => c.m.bad) /\ Struct(c.v) /\ c.v.data \notin D \ {a.data}
  <2> DEFINE g == [m.h EXCEPT ![a.data].val = m.h[b.data].val]
             bad == m.bad \/ ~Good(m, a) \/ ~Good(m, b)
  <2>0. c.v = a /\ c.m = [h |-> g, bad |-> bad]
    BY <1>5 DEF op_copy
  <2> HIDE DEF c, g, bad
  <2>1. c.v = a /\ c.m.h = g /\ c.m.bad = bad /\ DOMAIN c.m = {"h", "bad"}
    BY <2>0
  <2>2. E = D
    BY <1>1, <1>5, <2>1 DEF Data
  <2>3. ASSUME ~c.m.bad
        PROVE  Holds(c.m.h, D)
    <3>1. Good(m, a) /\ Good(m, b) /\ a.type = b.type
      BY <1>5, <2>1, <2>3, Zenon DEF SameSize, bad
    <3>2. m.h[a.data].kind = "STRING" => List(m.h[b.data].val)
      BY <3>1 DEF Good, Holds, Heaped, Cell
    <3>3. Holds([m.h EXCEPT ![a.data].val = m.h[b.data].val], D)
      BY <3>2, ValHolds
    <3> QED
      BY <2>1, <3>3 DEF g
  <2>4. m.bad => c.m.bad
    BY <2>1, Zenon DEF bad
  <2> QED
    BY <2>1, <2>2, <2>3, <2>4 DEF Keeps
<1>6. CASE b.data # 0 /\ (a.data = 0 \/ (SameSize(m, a, b) /\ a.type \in Composite))
  <2>1. c.m = Clone(m, b) /\ c.v.data = Len(m.h) + 1 /\ Struct(c.v)
    BY <1>6 DEF op_copy, Struct
  <2> HIDE DEF c
  <2> QED
    BY <1>1, <1>3, <1>6, <2>1 DEF c
<1>7. CASE b.data # 0 /\ a.data # 0 /\ ~SameSize(m, a, b)
  <2>1. c.m = Clone(F, b) /\ c.v.data = Len(m.h) + 1 /\ Struct(c.v)
    BY <1>7 DEF op_copy, Struct
  <2> HIDE DEF c, F
  <2> QED
    BY <1>1, <1>4, <1>7, <2>1 DEF c, F
<1> HIDE DEF c, E
<1> QED
  BY <1>2, <1>5, <1>6, <1>7 DEF c, E

-----------------------------------------------------------------------------
(* Elements and entries.                                                    *)

\* The operand v became an element: its datum is below an owner if it is not one
\* itself, the others own what they did.
Placed(m, D, v) ==
    /\ DOMAIN m = {"h", "bad"}
    /\ ~m.bad => \E E : /\ D \ {v.data} \subseteq E /\ Holds(m.h, E)
                        /\ v.data = 0 \/ Under(m.h, E, v.data)

\* A datum with other slots is found where it was.
LEMMA ReachWith ==
    ASSUME NEW h, Heaped(h), NEW a, NEW o, Heaped([h EXCEPT ![a] = o]),
           NEW t \in DOMAIN h, a \in Reach(h, t)
    PROVE  a \in Reach([h EXCEPT ![a] = o], t)
<1> DEFINE g == [h EXCEPT ![a] = o]
           C == Reach(g, t)
<1> SUFFICES ASSUME a \notin C PROVE FALSE
  OBVIOUS
<1>1. DOMAIN g = DOMAIN h /\ \A b \in DOMAIN h : b # a => g[b] = h[b]
  OBVIOUS
<1> HIDE DEF g
<1>2. t \in C /\ C \in SUBSET DOMAIN h /\ Closed(g, C)
  BY <1>1, ReachLeast DEF g
<1>3. Closed(h, C)
  BY <1>1, <1>2 DEF Closed, Below
<1>4. Reach(h, t) \subseteq C
  BY <1>2, <1>3, ReachLeast
<1> QED
  BY <1>4

\* A slot below the owner t is given v.
LEMMA SlotPlaced ==
    ASSUME NEW m, DOMAIN m = {"h", "bad"}, NEW D, Holds(m.h, D), NEW t \in D,
           NEW a \in Reach(m.h, t), NEW v, v.data \in D \cup {0}, v.data # t,
           NEW o, Cell(o, Len(m.h)), o.live = m.h[a].live,
           NEW s \in DOMAIN o.slots, o.slots[s].data = v.data,
           \A i \in DOMAIN o.slots : i # s =>
             \/ o.slots[i].data = 0
             \/ i \in DOMAIN m.h[a].slots /\ o.slots[i].data = m.h[a].slots[i].data
    PROVE  Placed([m EXCEPT !.h[a] = o], D, v)
<1> DEFINE g == [m.h EXCEPT ![a] = o]
           E == D \ {v.data}
<1>1. DOMAIN [m EXCEPT !.h[a] = o] = {"h", "bad"} /\ [m EXCEPT !.h[a] = o].h = g
  OBVIOUS
<1>2. t \in DOMAIN m.h /\ Heaped(m.h)
  BY OwnersType DEF Holds
<1>3. a \in DOMAIN m.h
  BY <1>2, ReachLeast
<1>4. Holds(g, E)
  <2>1. v.data \in D \cup {0}
    OBVIOUS
  <2> DEFINE d == v.data
  <2>2. \A i \in DOMAIN o.slots :
          \/ i = s /\ o.slots[i].data = d
          \/ i # s /\ o.slots[i].data = 0
          \/ i # s /\ i \in DOMAIN m.h[a].slots /\ o.slots[i].data = m.h[a].slots[i].data
    OBVIOUS
  <2> HIDE DEF d
  <2>3. d \in D \cup {0}
    BY DEF d
  <2>4. Holds([m.h EXCEPT ![a] = o], D \ {d})
    BY <1>3, <2>2, <2>3, SlotHolds
  <2> QED
    BY <2>4 DEF d
<1>5. ASSUME v.data # 0
      PROVE  Under(g, E, v.data)
  <2>1. Heaped(g) /\ DOMAIN g = DOMAIN m.h /\ g[a] = o
    BY <1>3, <1>4 DEF Holds
  <2>2. a \in Reach(g, t)
    BY <1>2, <2>1, ReachWith
  <2> HIDE DEF g
  <2>3. v.data \in Children(g[a])
    BY <1>5, <2>1 DEF Children, Range
  <2>4. v.data \in Reach(g, t)
    BY <1>2, <2>1, <2>2, <2>3, ReachLeast DEF Closed, Below
  <2> QED
    BY <2>4 DEF Under
<1> QED
  BY <1>1, <1>4, <1>5 DEF Placed

\* A datum with other slots.
LEMMA CellWith ==
    ASSUME NEW o, NEW n, Cell(o, n), NEW c, Shaped(c), c.live = o.live, c.kind = o.kind, c.val = o.val,
           \A s \in DOMAIN c.slots : Pointer(c.slots[s], n), c.kind = "ARRAY" => List(c.slots)
    PROVE  Cell(c, n)
  BY DEF Cell

\* What an owner leads to.
LEMMA OwnedCell ==
    ASSUME NEW h, NEW D, Holds(h, D), NEW t \in D
    PROVE  t \in DOMAIN h /\ t \in Reach(h, t) /\ Cell(h[t], Len(h))
<1>1. t \in DOMAIN h /\ Heaped(h)
  BY OwnersType DEF Holds
<1> QED
  BY <1>1, ReachLeast DEF Heaped

\* A var that an owner's datum or nothing is in is a pointer.
LEMMA OwnerPointer ==
    ASSUME NEW h, NEW D, Holds(h, D), NEW v, Struct(v), v.data \in D \cup {0}
    PROVE  Pointer(v, Len(h))
<1>1. DOMAIN h = 1 .. Len(h) /\ Len(h) \in Nat
  BY ListType DEF Holds, Heaped
<1> QED
  BY <1>1, OwnersType DEF Pointer, Struct

\* array_push.
LEMMA PushPlaced ==
    ASSUME NEW m, DOMAIN m = {"h", "bad"}, NEW D, Holds(m.h, D), NEW a \in D, m.h[a].kind = "ARRAY",
           NEW v, Struct(v), v.data \in D \cup {0}, v.data # a
    PROVE  Placed(array_push(m, a, v), D, v)
<1> DEFINE o == m.h[a]
           new == IF o.max_size < MinArray THEN 2 * MinArray ELSE 2 * o.max_size
           c == IF Len(o.slots) >= o.max_size
                THEN [o EXCEPT !.slots = Append(o.slots, v), !.max_size = new, !.cap = new]
                ELSE [o EXCEPT !.slots = Append(o.slots, v)]
           t == Append(o.slots, v)
<1>1. array_push(m, a, v) = [m EXCEPT !.h[a] = c]
  BY DEF array_push
<1>2. Cell(o, Len(m.h)) /\ a \in Reach(m.h, a)
  BY OwnedCell
<1> HIDE DEF new
<1>3. Shaped(c) /\ c.live = o.live /\ c.kind = o.kind /\ c.val = o.val /\ c.slots = t
  BY <1>2 DEF Cell, Shaped
<1> HIDE DEF c
<1>4. List(o.slots)
  BY <1>2 DEF Cell
<1>5. /\ List(t) /\ Len(t) = Len(o.slots) + 1 /\ DOMAIN t = 1 .. Len(o.slots) + 1 /\ Len(o.slots) \in Nat
      /\ DOMAIN o.slots = 1 .. Len(o.slots)
  BY <1>4, ListAppend, ListType
<1>6. t[Len(o.slots) + 1] = v /\ \A i \in DOMAIN o.slots : t[i] = o.slots[i]
  <2> DEFINE T == Range(o.slots) \cup {v}
  <2>1. o.slots \in Seq(T) /\ v \in T
    BY <1>4 DEF List
  <2> HIDE DEF T
  <2> QED
    BY <2>1
<1> HIDE DEF t
<1>7. \A i \in DOMAIN t : i = Len(o.slots) + 1 \/ (i # Len(o.slots) + 1 /\ i \in DOMAIN o.slots)
  BY <1>5
<1>8. Pointer(v, Len(m.h))
  BY OwnerPointer
<1>9. Cell(c, Len(m.h))
  <2>1. \A s \in DOMAIN t : Pointer(t[s], Len(m.h))
    BY <1>2, <1>6, <1>7, <1>8 DEF Cell
  <2> HIDE DEF o
  <2> QED
    BY <1>2, <1>3, <1>5, <2>1, CellWith
<1>10. Len(o.slots) + 1 \in DOMAIN t
  BY <1>5
<1>11. Placed([m EXCEPT !.h[a] = c], D, v)
  <2> DEFINE s == Len(o.slots) + 1
  <2>1. s \in DOMAIN c.slots /\ c.slots[s].data = v.data
    BY <1>3, <1>6, <1>10
  <2>2. \A i \in DOMAIN c.slots : i # s =>
          i \in DOMAIN m.h[a].slots /\ c.slots[i].data = m.h[a].slots[i].data
    BY <1>3, <1>6, <1>7
  <2>3. c.live = m.h[a].live
    BY <1>3
  <2> HIDE DEF s, o
  <2> QED
    BY <1>2, <1>9, <2>1, <2>2, <2>3, SlotPlaced
<1> QED
  BY <1>1, <1>11

\* array_set_elem.
LEMMA SetElemPlaced ==
    ASSUME NEW m, DOMAIN m = {"h", "bad"}, NEW D, Holds(m.h, D), NEW a \in D, m.h[a].kind = "ARRAY",
           NEW index \in Nat, NEW v, v.data \in D \cup {0}, v.data # a,
           NEW w, Struct(w), w.data = v.data
    PROVE  Placed(array_set_elem(m, a, index, w), D, v)
<1> DEFINE o == m.h[a]
           new == Max({index + 1, 2 * o.max_size})
           long == [i \in 1 .. index + 1 |->
                      IF i = index + 1 THEN w ELSE IF i <= Len(o.slots) THEN o.slots[i] ELSE Hole]
           set == [o.slots EXCEPT ![index + 1] = w]
           c == IF index < Len(o.slots) THEN [o EXCEPT !.slots = set]
                ELSE IF index < o.max_size THEN [o EXCEPT !.slots = long]
                ELSE [o EXCEPT !.slots = long, !.max_size = new, !.cap = new]
           t == IF index < Len(o.slots) THEN set ELSE long
           s == index + 1
<1>1. array_set_elem(m, a, index, w) = [m EXCEPT !.h[a] = c]
  BY DEF array_set_elem
<1>2. Cell(o, Len(m.h)) /\ a \in Reach(m.h, a)
  BY OwnedCell
<1> HIDE DEF new, long, set
<1>3. Shaped(c) /\ c.live = o.live /\ c.kind = o.kind /\ c.val = o.val /\ c.slots = t
  BY <1>2 DEF Cell, Shaped
<1> HIDE DEF c
<1>4. List(o.slots) /\ Len(o.slots) \in Nat /\ DOMAIN o.slots = 1 .. Len(o.slots)
  BY <1>2, ListType DEF Cell
<1>5. Pointer(w, Len(m.h))
  BY OwnerPointer
<1>6. /\ List(t) /\ s \in DOMAIN t /\ t[s] = w
      /\ \A i \in DOMAIN t : i # s => \/ t[i] = Hole
                                      \/ i \in DOMAIN o.slots /\ t[i] = o.slots[i]
  <2>1. CASE index < Len(o.slots)
    <3>1. t = set /\ set = [i \in DOMAIN o.slots |-> set[i]] /\ DOMAIN set = DOMAIN o.slots
      BY <2>1 DEF set
    <3>2. List(t)
      BY <1>4, <3>1, ListSame
    <3>3. s \in DOMAIN o.slots
      BY <1>4, <2>1
    <3> QED
      BY <3>1, <3>2, <3>3 DEF set
  <2>2. CASE ~(index < Len(o.slots))
    <3>1. t = long /\ long = [i \in 1 .. index + 1 |-> long[i]] /\ DOMAIN long = 1 .. index + 1
      BY <2>2 DEF long
    <3>2. List(t)
      <4>1. index + 1 \in Nat
        OBVIOUS
      <4>2. List(long)
        BY <3>1, <4>1, ListOn
      <4> QED
        BY <3>1, <4>2
    <3>3. \A i \in DOMAIN long : long[i] = IF i = s THEN w ELSE IF i <= Len(o.slots) THEN o.slots[i] ELSE Hole
      BY DEF long
    <3>4. \A i \in DOMAIN long : i <= Len(o.slots) => i \in DOMAIN o.slots
      BY <1>4, <3>1
    <3>5. s \in DOMAIN long
      BY <3>1
    <3> QED
      BY <3>1, <3>2, <3>3, <3>4, <3>5
  <2> QED
    BY <2>1, <2>2
<1> HIDE DEF t, s
<1>7. Hole.data = 0 /\ Pointer(Hole, Len(m.h))
  <2>1. Len(m.h) \in Nat
    BY OwnersType
  <2> QED
    BY <2>1 DEF Hole, Var, Pointer
<1>8. \A i \in DOMAIN t : Pointer(t[i], Len(m.h))
  BY <1>2, <1>5, <1>6, <1>7 DEF Cell
<1> HIDE DEF o
<1>9. Cell(c, Len(m.h))
  BY <1>2, <1>3, <1>6, <1>8, CellWith
<1>10. Placed([m EXCEPT !.h[a] = c], D, v)
  <2>1. c.live = m.h[a].live /\ c.slots[s].data = v.data
    BY <1>3, <1>6 DEF o
  <2>2. \A i \in DOMAIN c.slots : i # s =>
          \/ c.slots[i].data = 0
          \/ i \in DOMAIN m.h[a].slots /\ c.slots[i].data = m.h[a].slots[i].data
    BY <1>3, <1>6, <1>7 DEF o
  <2> QED
    BY <1>2, <1>3, <1>6, <1>9, <2>1, <2>2, SlotPlaced
<1> QED
  BY <1>1, <1>10

\* map_add: an entry that is there keeps its var, and the operand its datum.
LEMMA MapAddPlaced ==
    ASSUME NEW m, DOMAIN m = {"h", "bad"}, NEW D, Holds(m.h, D), NEW a \in D, m.h[a].kind # "ARRAY",
           NEW key, NEW v, Struct(v), v.data \in D \cup {0}, v.data # a
    PROVE  Placed(map_add(m, a, key, v), D, v)
<1> DEFINE o == m.h[a]
           t == [k \in DOMAIN o.slots \cup {key} |-> IF k = key THEN v ELSE o.slots[k]]
           c == [o EXCEPT !.slots = t]
<1>1. Cell(o, Len(m.h)) /\ a \in Reach(m.h, a)
  BY OwnedCell
<1>2. CASE key \in DOMAIN o.slots
  <2>1. map_add(m, a, key, v) = m
    BY <1>2 DEF map_add
  <2>2. v.data = 0 \/ Under(m.h, D, v.data)
    BY OwnedCell DEF Under
  <2> QED
    BY <2>1, <2>2 DEF Placed
<1>3. CASE key \notin DOMAIN o.slots
  <2>1. map_add(m, a, key, v) = [m EXCEPT !.h[a] = c]
    <3>1. a \in DOMAIN m.h
      BY OwnersType
    <3> QED
      BY <1>1, <1>3, <3>1 DEF map_add, Cell, Shaped
  <2> HIDE DEF t
  <2>2. Shaped(c) /\ c.live = o.live /\ c.kind = o.kind /\ c.val = o.val /\ c.slots = t
    BY <1>1 DEF Cell, Shaped
  <2> HIDE DEF c
  <2>3. /\ key \in DOMAIN t /\ t[key] = v
        /\ \A i \in DOMAIN t : i # key => i \in DOMAIN o.slots /\ t[i] = o.slots[i]
    BY DEF t
  <2>4. Pointer(v, Len(m.h))
    BY OwnerPointer
  <2>5. \A i \in DOMAIN t : Pointer(t[i], Len(m.h))
    BY <1>1, <2>3, <2>4 DEF Cell
  <2> HIDE DEF o
  <2>6. Cell(c, Len(m.h))
    BY <1>1, <2>2, <2>5, CellWith DEF o
  <2>7. Placed([m EXCEPT !.h[a] = c], D, v)
    <3>1. c.live = m.h[a].live /\ key \in DOMAIN c.slots /\ c.slots[key].data = v.data
      BY <2>2, <2>3 DEF o
    <3>2. \A i \in DOMAIN c.slots : i # key =>
            i \in DOMAIN m.h[a].slots /\ c.slots[i].data = m.h[a].slots[i].data
      BY <2>2, <2>3 DEF o
    <3> QED
      BY <1>1, <2>6, <3>1, <3>2, SlotPlaced
  <2> QED
    BY <2>1, <2>7
<1> QED
  BY <1>2, <1>3

\* An element that a path led to is set.
LEMMA StoredPlaced ==
    ASSUME NEW m, DOMAIN m = {"h", "bad"}, NEW D, Holds(m.h, D), NEW t \in D,
           NEW at, at.a \in Reach(m.h, t), at.slot \in DOMAIN m.h[at.a].slots,
           NEW v, Struct(v), v.data \in D \cup {0}, v.data # t
    PROVE  Placed(Stored(m, at, v), D, v)
<1> DEFINE a == at.a
           s == at.slot
           o == m.h[a]
           w == [o.slots EXCEPT ![s] = v]
           c == [o EXCEPT !.slots = w]
<1>1. a \in DOMAIN m.h /\ Cell(o, Len(m.h)) /\ a \in Reach(m.h, t) /\ s \in DOMAIN o.slots
  <2>1. Heaped(m.h) /\ t \in DOMAIN m.h
    BY OwnersType DEF Holds
  <2> QED
    BY <2>1, ReachLeast DEF Heaped
<1>2. Stored(m, at, v) = [m EXCEPT !.h[a] = c]
  BY <1>1 DEF Stored, Cell, Shaped
<1> HIDE DEF a, s, w
<1>3. Shaped(c) /\ c.live = o.live /\ c.kind = o.kind /\ c.val = o.val /\ c.slots = w
  BY <1>1 DEF Cell, Shaped
<1> HIDE DEF c
<1>4. /\ w = [i \in DOMAIN o.slots |-> w[i]] /\ DOMAIN w = DOMAIN o.slots /\ w[s] = v
      /\ \A i \in DOMAIN o.slots : i # s => w[i] = o.slots[i]
  BY <1>1 DEF w
<1>5. o.kind = "ARRAY" => List(w)
  BY <1>1, <1>4, ListSame DEF Cell
<1>6. Pointer(v, Len(m.h))
  BY OwnerPointer
<1>7. \A i \in DOMAIN w : Pointer(w[i], Len(m.h))
  BY <1>1, <1>4, <1>6 DEF Cell
<1> HIDE DEF o
<1>8. Cell(c, Len(m.h))
  BY <1>1, <1>3, <1>5, <1>7, CellWith
<1>9. c.live = m.h[a].live /\ s \in DOMAIN c.slots /\ c.slots[s].data = v.data
  BY <1>1, <1>3, <1>4 DEF o
<1>10. \A i \in DOMAIN c.slots : i # s =>
         i \in DOMAIN m.h[a].slots /\ c.slots[i].data = m.h[a].slots[i].data
  BY <1>3, <1>4 DEF o
<1>11. Placed([m EXCEPT !.h[a] = c], D, v)
  BY <1>1, <1>8, <1>9, <1>10, SlotPlaced
<1> QED
  BY <1>2, <1>11

-----------------------------------------------------------------------------
(* Paths.                                                                   *)

\* A string has finitely many tokens.
LEMMA TokensCount ==
    ASSUME NEW s, List(s)
    PROVE  Len(Tokens(s)) \in Nat
<1> DEFINE starts == {i \in DOMAIN s : s[i] # Dot /\ (i > 1 => s[i - 1] = Dot)}
           stop(i) == CHOOSE j \in i .. Len(s) : /\ \A k \in i .. j : s[k] # Dot
                                                 /\ j < Len(s) => s[j + 1] = Dot
           begin(n) == CHOOSE i \in starts : Cardinality({j \in starts : j <= i}) = n
           piece(n) == SubSeq(s, begin(n), stop(begin(n)))
<1>1. DOMAIN s = 1 .. Len(s) /\ Len(s) \in Nat
  BY ListType
<1>2. Tokens(s) = [n \in 1 .. Cardinality(starts) |-> piece(n)]
  BY Zenon DEF Tokens
<1> HIDE DEF piece
<1>3. starts \in SUBSET (1 .. Len(s))
  BY <1>1
<1> HIDE DEF starts
<1>4. IsFiniteSet(1 .. Len(s))
  BY <1>1, FS_Interval
<1>5. IsFiniteSet(starts)
  BY <1>3, <1>4, FS_Subset
<1>6. Cardinality(starts) \in Nat
  BY <1>5, FS_CardinalityType
<1>7. Tokens(s) = [i \in 1 .. Cardinality(starts) |-> Tokens(s)[i]]
  BY <1>2
<1> QED
  BY <1>6, <1>7, ListOn

\* A place on a path: a slot of what is below t.
Found(h, t, at) ==
    at.how = "slot" => /\ t.data \in DOMAIN h
                       /\ at.a \in Reach(h, t.data) /\ at.slot \in DOMAIN h[at.a].slots
                       /\ at.v = h[at.a].slots[at.slot]

\* A path starts at t and stays below it.
Within(h, t, at) ==
    /\ at.how \in {"variable", "slot", "null", "wild"} /\ Found(h, t, at)
    /\ at.how = "variable" => at.v = t

\* One token further.
LEMMA FurtherWithin ==
    ASSUME NEW m, Heaped(m.h), NEW t, NEW at, Within(m.h, t, at), NEW token
    PROVE  Within(m.h, t, Further(m, at, token))
<1> DEFINE next == Further(m, at, token)
           slot == IF IsIndex(token) THEN IndexOf(token) + 1 ELSE token
<1>1. Wild.how = "wild" /\ Nowhere.how = "null"
  BY DEF Wild, Nowhere
<1>2. CASE next \in {at, Wild, Nowhere}
  BY <1>1, <1>2 DEF Within, Found
<1>3. CASE next \notin {at, Wild, Nowhere}
  <2>1. /\ at.how \in {"variable", "slot"} /\ Good(m, at.v)
        /\ slot \in DOMAIN m.h[at.v.data].slots /\ next = Place(m, at.v.data, slot)
    BY <1>3 DEF Further, Within
  <2> HIDE DEF slot, next
  <2>2. at.v.data \in DOMAIN m.h /\ t.data \in DOMAIN m.h /\ at.v.data \in Reach(m.h, t.data)
    <3>1. at.v.data \in DOMAIN m.h
      BY <2>1 DEF Good
    <3>2. CASE at.how = "variable"
      BY <3>1, <3>2, ReachLeast DEF Within
    <3>3. CASE at.how = "slot"
      <4>1. t.data \in DOMAIN m.h /\ at.a \in Reach(m.h, t.data) /\ at.v.data = m.h[at.a].slots[at.slot].data
            /\ at.slot \in DOMAIN m.h[at.a].slots
        BY <3>3 DEF Within, Found
      <4>2. at.v.data # 0
        <5>1. DOMAIN m.h = 1 .. Len(m.h)
          BY ListType DEF Heaped
        <5> QED
          BY <3>1, <5>1
      <4>3. at.v.data \in Children(m.h[at.a])
        BY <4>1, <4>2 DEF Children, Range
      <4> QED
        BY <3>1, <4>1, <4>3, ReachLeast DEF Closed, Below
    <3> QED
      BY <2>1, <3>2, <3>3
  <2>3. next.how = "slot" /\ next.a = at.v.data /\ next.slot = slot /\ next.v = m.h[at.v.data].slots[slot]
    BY <2>1 DEF Place
  <2> QED
    BY <2>1, <2>2, <2>3 DEF Within, Found, next
<1> QED
  BY <1>2, <1>3

\* var_apath: what it returns is a slot below the variable, or none.
LEMMA PathWithin ==
    ASSUME NEW m, Heaped(m.h), NEW t, NEW path, List(path)
    PROVE  Within(m.h, t, var_apath(m, t, path))
<1> DEFINE tokens == Tokens(path)
           n == Len(tokens)
           start == [Nowhere EXCEPT !.how = "variable", !.v = t]
           Begun(r, k) == r = [i \in 0 .. k |-> IF i = 0 THEN start ELSE Further(m, r[i - 1], tokens[i])]
           reached == CHOOSE r : Begun(r, n)
           end == reached[n]
<1>1. n \in Nat
  BY TokensCount
<1>2. var_apath(m, t, path) = IF end.how = "slot" /\ end.v = Hole THEN Nowhere ELSE end
  BY DEF var_apath
<1> HIDE DEF tokens, n
<1>3. \E r : Begun(r, n)
  <2> DEFINE T == {k \in Nat : ~\E r : Begun(r, k)}
  <2> SUFFICES ASSUME T # {} PROVE FALSE
    BY <1>1
  <2>1. PICK k \in T : \A l \in T : k <= l
    <3>1. T \in SUBSET Nat
      OBVIOUS
    <3> HIDE DEF T
    <3> QED
      BY <3>1, LeastExists
  <2>2. CASE k = 0
    <3> DEFINE r == [i \in 0 .. 0 |-> start]
    <3>1. Begun(r, 0)
      OBVIOUS
    <3> QED
      BY <2>1, <2>2, <3>1
  <2>3. CASE k # 0
    <3>1. k - 1 \in Nat /\ ~(k <= k - 1) /\ k \in Nat
      BY <2>3
    <3>2. PICK r : Begun(r, k - 1)
      BY <2>1, <3>1
    <3> DEFINE q == [i \in 0 .. k |-> IF i = k THEN Further(m, r[k - 1], tokens[k]) ELSE r[i]]
    <3>3. \A i \in 0 .. k - 1 : r[i] = IF i = 0 THEN start ELSE Further(m, r[i - 1], tokens[i])
      BY <3>2, Zenon
    <3>4. \A i \in 0 .. k : q[i] = IF i = 0 THEN start ELSE Further(m, q[i - 1], tokens[i])
      <4> TAKE i \in 0 .. k
      <4>1. CASE i = k
        <5>1. q[i] = Further(m, r[k - 1], tokens[k]) /\ q[k - 1] = r[k - 1]
          BY <3>1, <4>1
        <5> QED
          BY <2>3, <4>1, <5>1
      <4>2. CASE i # k
        <5>1. i \in 0 .. k - 1 /\ q[i] = r[i] /\ (i # 0 => i - 1 \in 0 .. k /\ i - 1 # k)
          BY <3>1, <4>2
        <5>2. i # 0 => q[i - 1] = r[i - 1]
          BY <5>1
        <5> HIDE DEF q
        <5> QED
          BY <3>3, <5>1, <5>2
      <4> QED
        BY <4>1, <4>2
    <3>5. DOMAIN q = 0 .. k /\ q = [i \in 0 .. k |-> q[i]]
      OBVIOUS
    <3> HIDE DEF q
    <3>6. Begun(q, k)
      BY <3>4, <3>5
    <3> QED
      BY <2>1, <3>6
  <2> QED
    BY <2>2, <2>3
<1>4. Begun(reached, n)
  BY <1>3
<1> HIDE DEF reached
<1>5. \A i \in 0 .. n : reached[i] = IF i = 0 THEN start ELSE Further(m, reached[i - 1], tokens[i])
  BY <1>4, Zenon
<1> DEFINE Lost == {i \in 0 .. n : ~Within(m.h, t, reached[i])}
<1>6. Lost = {}
  <2> SUFFICES ASSUME Lost # {} PROVE FALSE
    OBVIOUS
  <2>1. PICK k \in Lost : \A l \in Lost : k <= l
    <3>1. Lost \in SUBSET Nat
      BY <1>1
    <3> HIDE DEF Lost
    <3> QED
      BY <3>1, LeastExists
  <2>2. CASE k = 0
    <3>1. reached[k] = start
      BY <1>1, <1>5, <2>2
    <3>2. Within(m.h, t, start)
      BY DEF Within, Found, Nowhere
    <3> QED
      BY <2>1, <3>1, <3>2
  <2>3. CASE k # 0
    <3>1. k - 1 \in 0 .. n /\ ~(k <= k - 1)
      BY <1>1, <2>3
    <3>2. Within(m.h, t, reached[k - 1])
      BY <2>1, <3>1
    <3>3. reached[k] = Further(m, reached[k - 1], tokens[k])
      BY <1>5, <2>3
    <3> QED
      BY <2>1, <3>2, <3>3, FurtherWithin
  <2> QED
    BY <2>2, <2>3
<1>7. Within(m.h, t, end)
  BY <1>1, <1>6
<1>8. Within(m.h, t, Nowhere)
  BY DEF Within, Found, Nowhere
<1> QED
  BY <1>2, <1>7, <1>8

-----------------------------------------------------------------------------
(* The memory an instruction starts from, and what SET_ELEM makes of it.    *)

\* Mem is the heap with nothing wrong.
LEMMA MemIs ==
    Mem.h = heap /\ DOMAIN Mem = {"h", "bad"} /\ ~Mem.bad
  BY DEF Mem

\* An undefined step.
LEMMA SpoiltPlaced ==
    ASSUME NEW m, DOMAIN m = {"h", "bad"}, NEW D, NEW v
    PROVE  Placed(Spoilt(m, TRUE), D, v)
<1>1. DOMAIN Spoilt(m, TRUE) = {"h", "bad"} /\ Spoilt(m, TRUE).bad
  BY DEF Spoilt
<1> QED
  BY <1>1 DEF Placed

\* SET_ELEM: whether the element is stored, an entry is added or one is there
\* that keeps its var, the operand's datum has one owner.
LEMMA ElementPlaced ==
    ASSUME NEW D, Holds(heap, D), NEW t, t.data \in D \cup {0}, NEW index,
           NEW v, Struct(v), v.data \in D \cup {0}, v.data # 0 => v.data # t.data
    PROVE  Placed(ElementSet(t, index, v), D, v)
<1>1. Mem.h = heap /\ DOMAIN Mem = {"h", "bad"}
  BY MemIs
<1>2. Placed(Spoilt(Mem, TRUE), D, v)
  BY <1>1, SpoiltPlaced
<1>3. Heaped(heap) /\ DOMAIN heap = 1 .. Len(heap)
  BY ListType DEF Holds, Heaped
<1>4. t.data \in DOMAIN heap => t.data \in D /\ v.data # t.data
  BY <1>3
<1>5. CASE Good(Mem, index) /\ index.type = "STRING"
  <2> DEFINE path == heap[index.data].val
             at == var_apath(Mem, t, path)
  <2>1. List(path)
    BY <1>1, <1>3, <1>5 DEF Good, Heaped, Cell
  <2>2. Within(Mem.h, t, at)
    BY <1>1, <1>3, <2>1, PathWithin
  <2>3. ElementSet(t, index, v) =
          CASE at.how = "slot" -> Stored(Mem, at, v)
            [] at.how = "null" /\ Good(Mem, t) /\ t.type = "MAP" ->
                 map_add(Mem, t.data, Tokens(path)[1], v)
            [] OTHER -> Spoilt(Mem, TRUE)
    BY <1>5 DEF ElementSet
  <2> HIDE DEF path, at
  <2>4. ASSUME at.how = "slot"
        PROVE  Placed(Stored(Mem, at, v), D, v)
    <3>1. t.data \in DOMAIN heap /\ at.a \in Reach(heap, t.data) /\ at.slot \in DOMAIN heap[at.a].slots
      BY <1>1, <2>2, <2>4 DEF Within, Found
    <3> QED
      BY <1>1, <1>4, <3>1, StoredPlaced
  <2>5. ASSUME Good(Mem, t), t.type = "MAP"
        PROVE  Placed(map_add(Mem, t.data, Tokens(path)[1], v), D, v)
    <3>1. t.data \in DOMAIN heap /\ heap[t.data].kind # "ARRAY"
      BY <1>1, <2>5 DEF Good
    <3> QED
      BY <1>1, <1>4, <3>1, MapAddPlaced
  <2>6. CASE at.how = "slot"
    BY <2>3, <2>4, <2>6
  <2>7. CASE at.how = "null" /\ Good(Mem, t) /\ t.type = "MAP"
    BY <2>3, <2>5, <2>7
  <2>8. CASE at.how # "slot" /\ ~(at.how = "null" /\ Good(Mem, t) /\ t.type = "MAP")
    BY <1>2, <2>3, <2>8
  <2> QED
    BY <2>6, <2>7, <2>8
<1>6. CASE Good(Mem, index) /\ index.type # "STRING"
  <2> DEFINE i == heap[index.data].val[2]
             slots == heap[t.data].slots
             m == IF i < Len(slots) /\ slots[i + 1] # Hole
                  THEN array_set_elem(Mem, t.data, i, [v EXCEPT !.ref = slots[i + 1].ref])
                  ELSE array_set_elem(Mem, t.data, i, v)
  <2>1. ElementSet(t, index, v) =
          IF ~Good(Mem, t) \/ t.type # "ARRAY" \/ i \notin Nat THEN Spoilt(Mem, TRUE) ELSE m
    BY <1>6 DEF ElementSet
  <2> HIDE DEF i
  <2>2. ASSUME Good(Mem, t), t.type = "ARRAY", i \in Nat, NEW w, Struct(w), w.data = v.data
        PROVE  Placed(array_set_elem(Mem, t.data, i, w), D, v)
    <3>1. t.data \in DOMAIN heap /\ heap[t.data].kind = "ARRAY"
      BY <1>1, <2>2 DEF Good
    <3> QED
      BY <1>1, <1>4, <2>2, <3>1, SetElemPlaced
  <2>3. ASSUME Good(Mem, t), t.type = "ARRAY", i \in Nat
        PROVE  Placed(m, D, v)
    <3> DEFINE w == [v EXCEPT !.ref = slots[i + 1].ref]
    <3>1. Struct(w) /\ w.data = v.data
      BY DEF Struct
    <3>2. Placed(array_set_elem(Mem, t.data, i, w), D, v)
      BY <2>2, <2>3, <3>1
    <3>3. Placed(array_set_elem(Mem, t.data, i, v), D, v)
      BY <2>2, <2>3
    <3> QED
      BY <3>2, <3>3
  <2> HIDE DEF m
  <2> QED
    BY <1>2, <2>1, <2>3
<1>7. CASE ~Good(Mem, index)
  BY <1>2, <1>7 DEF ElementSet
<1> QED
  BY <1>5, <1>6, <1>7

\* What op_copy then makes of the element is the copy's own.
LEMMA PlacedCopy ==
    ASSUME NEW m, NEW D, NEW v, Struct(v), Placed(m, D, v), 0 \notin D
    PROVE  LET c == op_copy(m, Zeroed, v)
           IN  /\ DOMAIN c.m = {"h", "bad"} /\ Struct(c.v)
               /\ ~c.m.bad => /\ Holds(c.m.h, (D \ {v.data}) \cup Data(c.v))
                              /\ c.v.data \notin D \ {v.data}
<1> DEFINE c == op_copy(m, Zeroed, v)
<1>1. Struct(Zeroed) /\ Zeroed.data = 0
  BY DEF Zeroed, Var, Struct
<1>2. CASE m.bad
  <2>1. c.m \in {m, Clone(m, v)} /\ c.v \in {v, [v EXCEPT !.data = Len(m.h) + 1]}
    BY <1>1 DEF op_copy
  <2>2. /\ DOMAIN c.m = {"h", "bad"} /\ (m.bad => c.m.bad)
        /\ Struct(c.v)
    <3>1. DOMAIN Clone(m, v) = {"h", "bad"} /\ (m.bad => Clone(m, v).bad)
      BY DEF Placed, Clone, Spoilt, Allocate
    <3>2. Struct([v EXCEPT !.data = Len(m.h) + 1])
      BY DEF Struct
    <3> QED
      BY <2>1, <3>1, <3>2 DEF Placed
  <2> HIDE DEF c
  <2> QED
    BY <1>2, <2>2 DEF c
<1>3. CASE ~m.bad
  <2>1. PICK E : /\ D \ {v.data} \subseteq E /\ Holds(m.h, E)
                 /\ v.data = 0 \/ Under(m.h, E, v.data)
    BY <1>3 DEF Placed
  <2>2. 0 \notin E /\ E \ {0} = E
    BY <2>1, OwnersType
  <2>3. /\ Keeps(c.m, E \cup Data(c.v)) /\ Struct(c.v) /\ c.v.data \notin E
    <3>1. v.data = 0 \/ Under(m.h, E \ {Zeroed.data}, v.data)
      BY <1>1, <2>1, <2>2
    <3>2. E \ {Zeroed.data} = E /\ DOMAIN m = {"h", "bad"} /\ Zeroed.data \in E \cup {0}
      BY <1>1, <2>2 DEF Placed
    <3> HIDE DEF c
    <3>3. /\ Keeps(c.m, (E \ {Zeroed.data}) \cup Data(c.v)) /\ Struct(c.v)
          /\ c.v.data \notin E \ {Zeroed.data}
      BY <1>1, <2>1, <3>1, <3>2, CopyHolds DEF c
    <3> QED
      BY <3>2, <3>3
  <2> HIDE DEF c
  <2>4. (D \ {v.data}) \cup Data(c.v) \subseteq E \cup Data(c.v)
    BY <2>1
  <2>5. ~c.m.bad => Holds(c.m.h, (D \ {v.data}) \cup Data(c.v))
    BY <2>3, <2>4, HoldsLess DEF Keeps
  <2> QED
    BY <2>1, <2>3, <2>5 DEF Keeps, c
<1> HIDE DEF c
<1> QED
  BY <1>2, <1>3 DEF c

-----------------------------------------------------------------------------
(* The stack and the table of variables: each datum in one entry.           *)

Entry(e) == DOMAIN e = {"v", "level"} /\ Struct(e.v)

Stacked(s) == {s[i].v.data : i \in DOMAIN s} \ {0}
Named(vs) == {vs[n].data : n \in DOMAIN vs} \ {0}

OnStack(s) ==
    /\ List(s) /\ \A i \in DOMAIN s : Entry(s[i])
    /\ \A i, j \in DOMAIN s : s[i].v.data = s[j].v.data /\ s[i].v.data # 0 => i = j

InTable(vs) ==
    /\ \A n \in DOMAIN vs : Struct(vs[n])
    /\ \A n, k \in DOMAIN vs : vs[n].data = vs[k].data /\ vs[n].data # 0 => n = k

\* The entries a list of places picks.
LEMMA PickedOnStack ==
    ASSUME NEW s, OnStack(s), NEW t, List(t), NEW place,
           \A i \in DOMAIN t : place[i] \in DOMAIN s /\ t[i] = s[place[i]],
           \A i, j \in DOMAIN t : place[i] = place[j] => i = j
    PROVE  OnStack(t) /\ Stacked(t) \subseteq Stacked(s)
<1>1. \A i \in DOMAIN t : Entry(t[i])
  BY DEF OnStack
<1>2. Stacked(t) \subseteq Stacked(s)
  BY DEF Stacked
<1>3. \A i, j \in DOMAIN t : t[i].v.data = t[j].v.data /\ t[i].v.data # 0 => i = j
  BY DEF OnStack
<1> QED
  BY <1>1, <1>2, <1>3 DEF OnStack

\* The first k entries of a list.
LEMMA Lowest ==
    ASSUME NEW s, List(s), NEW k \in 0 .. Len(s)
    PROVE  /\ List(SubSeq(s, 1, k)) /\ DOMAIN SubSeq(s, 1, k) = 1 .. k
           /\ Len(SubSeq(s, 1, k)) = k
           /\ \A i \in 1 .. k : SubSeq(s, 1, k)[i] = s[i] /\ i \in DOMAIN s
<1> DEFINE T == Range(s)
           t == SubSeq(s, 1, k)
<1>1. s \in Seq(T) /\ Len(s) \in Nat
  BY DEF List
<1> HIDE DEF T
<1>2. t \in Seq(T) /\ Len(t) = k /\ \A i \in 1 .. k : t[i] = s[i] /\ i \in DOMAIN s
  BY <1>1
<1> HIDE DEF t
<1>3. List(t) /\ k \in Nat
  BY <1>1, <1>2, ListOf
<1> QED
  BY <1>2, <1>3, ListType DEF t

\* Entries taken off the stack are in no entry left.
LEMMA TakenOff ==
    ASSUME NEW s, OnStack(s), NEW k \in 0 .. Len(s)
    PROVE  /\ OnStack(SubSeq(s, 1, k)) /\ Stacked(SubSeq(s, 1, k)) \subseteq Stacked(s)
           /\ Len(SubSeq(s, 1, k)) = k /\ Len(s) \in Nat
           /\ \A i \in k + 1 .. Len(s) :
                /\ i \in DOMAIN s /\ Entry(s[i])
                /\ s[i].v.data \in Stacked(s) \cup {0} /\ s[i].v.data \notin Stacked(SubSeq(s, 1, k))
<1> DEFINE t == SubSeq(s, 1, k)
           place == [i \in 1 .. k |-> i]
<1>1. List(s) /\ Len(s) \in Nat /\ DOMAIN s = 1 .. Len(s)
  BY ListType DEF OnStack
<1>2. /\ List(t) /\ DOMAIN t = 1 .. k /\ Len(t) = k
      /\ \A i \in 1 .. k : t[i] = s[i] /\ i \in DOMAIN s
  BY <1>1, Lowest
<1> HIDE DEF t
<1>3. OnStack(t) /\ Stacked(t) \subseteq Stacked(s)
  <2>1. \A i \in DOMAIN t : place[i] \in DOMAIN s /\ t[i] = s[place[i]]
    BY <1>2
  <2>2. \A i, j \in DOMAIN t : place[i] = place[j] => i = j
    BY <1>2
  <2> HIDE DEF place
  <2> QED
    BY <1>2, <2>1, <2>2, PickedOnStack
<1>4. \A i \in k + 1 .. Len(s) : i \in DOMAIN s /\ i \notin 1 .. k
  BY <1>1
<1>5. \A i \in k + 1 .. Len(s) :
        /\ Entry(s[i]) /\ s[i].v.data \in Stacked(s) \cup {0} /\ s[i].v.data \notin Stacked(t)
  BY <1>2, <1>4 DEF OnStack, Stacked
<1> QED
  BY <1>1, <1>2, <1>3, <1>4, <1>5 DEF t

\* An entry put on the stack.
LEMMA PutOn ==
    ASSUME NEW s, OnStack(s), NEW e, Entry(e), e.v.data \notin Stacked(s)
    PROVE  OnStack(Append(s, e)) /\ Stacked(Append(s, e)) = Stacked(s) \cup Data(e.v)
<1> DEFINE t == Append(s, e)
           n == Len(s) + 1
           T == Range(s) \cup {e}
<1>1. List(s) /\ Len(s) \in Nat /\ DOMAIN s = 1 .. Len(s)
  BY ListType DEF OnStack
<1>2. s \in Seq(T) /\ e \in T
  BY <1>1 DEF List
<1> HIDE DEF T
<1>3. List(t) /\ DOMAIN t = 1 .. n /\ t[n] = e /\ \A i \in 1 .. Len(s) : t[i] = s[i]
  BY <1>1, <1>2, ListAppend
<1> HIDE DEF t
<1>4. /\ n \in DOMAIN t /\ \A i \in DOMAIN t : i = n \/ i \in DOMAIN s
      /\ \A i \in DOMAIN s : i \in DOMAIN t /\ t[i] = s[i]
  BY <1>1, <1>3
<1> HIDE DEF n
<1>5. \A i \in DOMAIN t : Entry(t[i])
  BY <1>3, <1>4 DEF OnStack
<1>6. Stacked(t) = Stacked(s) \cup Data(e.v)
  BY <1>3, <1>4 DEF Stacked, Data
<1>7. \A i, j \in DOMAIN t : t[i].v.data = t[j].v.data /\ t[i].v.data # 0 => i = j
  <2> SUFFICES ASSUME NEW i \in DOMAIN t, NEW j \in DOMAIN t, t[i].v.data = t[j].v.data, t[i].v.data # 0
               PROVE  i = j
    OBVIOUS
  <2>1. \A x \in DOMAIN s : s[x].v.data # 0 => s[x].v.data # e.v.data
    BY DEF Stacked
  <2>2. CASE i \in DOMAIN s /\ j \in DOMAIN s
    BY <1>4, <2>2 DEF OnStack
  <2>3. CASE i = n
    BY <1>3, <1>4, <2>1, <2>3
  <2>4. CASE j = n
    BY <1>3, <1>4, <2>1, <2>4
  <2> QED
    BY <1>4, <2>2, <2>3, <2>4
<1> QED
  BY <1>3, <1>5, <1>6, <1>7 DEF OnStack, t

\* The last n entries exchanged.
LEMMA Turned ==
    ASSUME NEW s, OnStack(s), NEW n \in 0 .. Len(s)
    PROVE  LET t == SubSeq(s, 1, Len(s) - n) \o Reverse(SubSeq(s, Len(s) - n + 1, Len(s)))
           IN  /\ OnStack(t) /\ Stacked(t) \subseteq Stacked(s)
               /\ \A i \in DOMAIN t : \E j \in DOMAIN s : t[i] = s[j]
<1> DEFINE k == Len(s) - n
           low == SubSeq(s, 1, k)
           top == SubSeq(s, k + 1, Len(s))
           back == Reverse(top)
           t == low \o back
           place == [i \in 1 .. Len(s) |-> IF i <= k THEN i ELSE Len(s) + k + 1 - i]
<1>1. List(s) /\ Len(s) \in Nat /\ DOMAIN s = 1 .. Len(s) /\ k \in 0 .. Len(s) /\ Len(s) - k = n
  BY ListType DEF OnStack
<1>2. /\ List(low) /\ DOMAIN low = 1 .. k /\ Len(low) = k
      /\ \A i \in 1 .. k : low[i] = s[i]
  BY <1>1, Lowest
<1>3. /\ Len(top) = n /\ \A i \in 1 .. n : top[i] = s[k + i]
  <2> DEFINE T == Range(s)
  <2>1. s \in Seq(T)
    BY <1>1 DEF List
  <2> HIDE DEF T
  <2> QED
    BY <1>1, <2>1
<1> HIDE DEF top, low
<1>4. back = [i \in 1 .. n |-> top[n - i + 1]]
  BY <1>3 DEF Reverse
<1>5. /\ List(back) /\ Len(back) = n
      /\ \A i \in 1 .. n : back[i] = s[k + (n - i + 1)]
  <2>1. back = [i \in 1 .. n |-> back[i]] /\ n \in Nat
    BY <1>1, <1>4
  <2>2. \A i \in 1 .. n : n - i + 1 \in 1 .. n
    BY <1>1
  <2> QED
    BY <1>3, <1>4, <2>1, <2>2, ListOn
<1> HIDE DEF back
<1>6. /\ List(t) /\ Len(t) = k + n
      /\ \A i \in DOMAIN t : t[i] = IF i <= k THEN low[i] ELSE back[i - k]
  <2>1. /\ List(t) /\ Len(t) = Len(low) + Len(back)
        /\ \A i \in DOMAIN t : t[i] = IF i <= Len(low) THEN low[i] ELSE back[i - Len(low)]
    BY <1>2, <1>5, ListJoin
  <2> HIDE DEF t, k
  <2> QED
    BY <1>2, <1>5, <2>1
<1> HIDE DEF t
<1>7. DOMAIN t = 1 .. Len(s) /\ k + n = Len(s)
  <2>1. DOMAIN t = 1 .. Len(t)
    BY <1>6, ListType
  <2> QED
    BY <1>1, <1>6, <2>1
<1>8. \A i \in DOMAIN t : place[i] \in DOMAIN s /\ t[i] = s[place[i]]
  <2> TAKE i \in DOMAIN t
  <2>1. CASE i <= k
    <3>1. i \in 1 .. k /\ place[i] = i
      BY <1>1, <1>7, <2>1
    <3> QED
      BY <1>1, <1>2, <1>6, <2>1, <3>1
  <2>2. CASE ~(i <= k)
    <3>1. i - k \in 1 .. n /\ place[i] = Len(s) + k + 1 - i /\ k + (n - (i - k) + 1) = Len(s) + k + 1 - i
          /\ Len(s) + k + 1 - i \in 1 .. Len(s)
      BY <1>1, <1>7, <2>2
    <3>2. back[i - k] = s[k + (n - (i - k) + 1)]
      BY <1>5, <3>1
    <3>3. back[i - k] = s[place[i]]
      BY <3>1, <3>2
    <3>4. t[i] = back[i - k]
      BY <1>6, <2>2
    <3> QED
      BY <1>1, <3>1, <3>3, <3>4
  <2> QED
    BY <2>1, <2>2
<1>9. \A i, j \in DOMAIN t : place[i] = place[j] => i = j
  BY <1>1, <1>7
<1> HIDE DEF place
<1>10. OnStack(t) /\ Stacked(t) \subseteq Stacked(s)
  BY <1>6, <1>8, <1>9, PickedOnStack
<1>11. \A i \in DOMAIN t : \E j \in DOMAIN s : t[i] = s[j]
  BY <1>8
<1> QED
  BY <1>10, <1>11 DEF t, low, back, top

\* A variable that gets another var.
LEMMA PutInto ==
    ASSUME InTable(variables), NEW name, NEW v, Struct(v), v.data \notin Named(variables) \ {Old(name).data}
    PROVE  /\ InTable(With(name, v))
           /\ Named(With(name, v)) = (Named(variables) \ {Old(name).data}) \cup Data(v)
<1> DEFINE vs == variables
           old == Old(name)
           t == With(name, v)
<1>0. /\ old = (IF name \in DOMAIN vs THEN vs[name] ELSE Var("STRING", 0, None))
      /\ t = [n \in DOMAIN vs \cup {name} |-> IF n = name THEN v ELSE vs[n]]
      /\ InTable(vs)
  BY DEF Old, With
<1> HIDE DEF old, t
<1>1. \A n \in DOMAIN vs : n # name /\ vs[n].data # 0 => vs[n].data # old.data /\ vs[n].data # v.data
  BY <1>0 DEF InTable, Named, Var, old
<1>2. /\ DOMAIN t = DOMAIN vs \cup {name} /\ t[name] = v
      /\ \A n \in DOMAIN vs : n # name => t[n] = vs[n]
  BY <1>0
<1> HIDE DEF vs
<1>3. InTable(t)
  BY <1>0, <1>1, <1>2 DEF InTable
<1>4. Named(t) = (Named(vs) \ {old.data}) \cup Data(v)
  <2>1. \A n \in DOMAIN vs : n = name => vs[n].data = old.data
    BY <1>0
  <2>2. \A n \in DOMAIN t : t[n].data # 0 => t[n].data \in (Named(vs) \ {old.data}) \cup Data(v)
    BY <1>1, <1>2 DEF Named, Data
  <2>3. \A n \in DOMAIN vs : vs[n].data # 0 /\ vs[n].data # old.data => vs[n].data \in Named(t)
    BY <1>2, <2>1 DEF Named
  <2>4. Data(v) \subseteq Named(t)
    BY <1>2 DEF Named, Data
  <2> DEFINE R == (Named(vs) \ {old.data}) \cup Data(v)
  <2>5. Named(t) \subseteq R
    <3>1. \A n \in DOMAIN t : t[n].data # 0 => t[n].data \in R
      BY <2>2
    <3> HIDE DEF R
    <3> QED
      BY <3>1 DEF Named
  <2>6. \A d \in Named(vs) : d # old.data => d \in Named(t)
    <3> DEFINE N == Named(t)
    <3>1. \A n \in DOMAIN vs : vs[n].data # 0 /\ vs[n].data # old.data => vs[n].data \in N
      BY <2>3
    <3> HIDE DEF N
    <3>2. \A d \in Named(vs) : d # old.data => d \in N
      BY <3>1 DEF Named
    <3> QED
      BY <3>2 DEF N
  <2> QED
    BY <2>4, <2>5, <2>6
<1> QED
  BY <1>3, <1>4 DEF vs, old, t

\* The greatest of some numbers with a bound.
LEMMA GreatestExists ==
    ASSUME NEW n \in Nat, NEW T \in SUBSET (0 .. n), T # {}
    PROVE  Max(T) \in T /\ \A k \in T : Max(T) >= k
<1> DEFINE U == {n - k : k \in T}
<1>1. U \in SUBSET Nat /\ U # {}
  <2>1. \A k \in T : k \in 0 .. n /\ n - k \in Nat
    OBVIOUS
  <2> QED
    BY <2>1
<1> HIDE DEF U
<1>2. PICK y \in U : \A z \in U : y <= z
  BY <1>1, LeastExists
<1>3. PICK x \in T : y = n - x
  BY <1>2 DEF U
<1>4. \A k \in T : n - x <= n - k
  BY <1>2, <1>3 DEF U
<1>5. \A k \in T : x >= k
  BY <1>4
<1> QED
  BY <1>5 DEF Max

\* What stack_clear takes off is in no entry left.
LEMMA ClearedOff ==
    ASSUME NEW s, OnStack(s)
    PROVE  /\ OnStack(Cleared(s)) /\ Stacked(Cleared(s)) \subseteq Stacked(s)
           /\ \A i \in DOMAIN Garbage(s) :
                /\ Garbage(s)[i].data \in Stacked(s) \cup {0}
                /\ Garbage(s)[i].data \notin Stacked(Cleared(s))
<1> DEFINE T == {0} \cup {i \in DOMAIN s : s[i].level < gl_level}
           k == Kept(s)
<1>1. Len(s) \in Nat /\ DOMAIN s = 1 .. Len(s)
  BY ListType DEF OnStack
<1>2. k \in 0 .. Len(s)
  <2>1. T \in SUBSET (0 .. Len(s)) /\ T # {} /\ k = Max(T)
    BY <1>1 DEF Kept
  <2> HIDE DEF T, k
  <2> QED
    BY <1>1, <2>1, GreatestExists
<1> HIDE DEF k
<1>3. Cleared(s) = SubSeq(s, 1, k)
  BY DEF Cleared, k
<1>4. \A i \in DOMAIN Garbage(s) : k + i \in k + 1 .. Len(s) /\ Garbage(s)[i] = s[k + i].v
  BY <1>1, <1>2 DEF Garbage, k
<1> QED
  BY <1>2, <1>3, <1>4, TakenOff

-----------------------------------------------------------------------------
(* What instructions do to a memory that keeps its owners.                  *)

\* Vars freed that the owners left are not among.
LEMMA FreeKeeps ==
    ASSUME NEW m, NEW D, Keeps(m, D), NEW E, E \subseteq D,
           NEW vs, \A i \in DOMAIN vs : vs[i].data \in D \cup {0} /\ vs[i].data \notin E
    PROVE  Keeps(Free(m, vs), E)
<1>1. DOMAIN Free(m, vs) = {"h", "bad"} /\ (m.bad => Free(m, vs).bad)
  BY DEF Free
<1>2. ASSUME ~m.bad
      PROVE  Holds(Free(m, vs).h, E)
  <2>1. Holds(m.h, D)
    BY <1>2 DEF Keeps
  <2> QED
    BY <2>1, FreeHolds
<1> QED
  BY <1>1, <1>2 DEF Keeps

\* Vars that own what they lead to are freed once, and it was there.
LEMMA FreeDefined ==
    ASSUME NEW m, NEW D, Holds(m.h, D), ~m.bad,
           NEW vs, \A i \in DOMAIN vs : vs[i].data \in D \cup {0},
           \A i, j \in DOMAIN vs : vs[i].data = vs[j].data /\ vs[i].data # 0 => i = j
    PROVE  ~Free(m, vs).bad
<1> DEFINE gone == UNION {DataOf(m, vs[i]) : i \in DOMAIN vs}
<1>1. Free(m, vs).bad = (\/ m.bad \/ \E a \in gone : ~m.h[a].live
                         \/ \E i, j \in DOMAIN vs : i # j /\ DataOf(m, vs[i]) \cap DataOf(m, vs[j]) # {})
  BY DEF Free
<1>2. Heaped(m.h)
  BY DEF Holds
<1>3. PICK K : Owned(m.h, K, D)
  BY DEF Holds
<1>4. \A i \in DOMAIN vs : DataOf(m, vs[i]) = IF vs[i].data = 0 THEN {} ELSE Reach(m.h, vs[i].data)
  BY DEF DataOf
<1>5. ASSUME NEW a \in gone
      PROVE  m.h[a].live
  <2>1. PICK i \in DOMAIN vs : a \in DataOf(m, vs[i])
    BY <1>5
  <2>2. vs[i].data \in D /\ a \in Reach(m.h, vs[i].data)
    BY <1>4, <2>1
  <2>3. vs[i].data \in K
    BY <1>3, <2>2 DEF Owned
  <2>4. a \in K
    BY <1>2, <1>3, <2>2, <2>3, ReachOwned
  <2> QED
    BY <1>3, <2>4 DEF Owned
<1>6. ASSUME NEW i \in DOMAIN vs, NEW j \in DOMAIN vs, i # j
      PROVE  DataOf(m, vs[i]) \cap DataOf(m, vs[j]) = {}
  <2>1. CASE vs[i].data = 0 \/ vs[j].data = 0
    BY <1>4, <2>1
  <2>2. CASE vs[i].data # 0 /\ vs[j].data # 0
    <3>1. vs[i].data \in D /\ vs[j].data \in D /\ vs[i].data # vs[j].data
      BY <1>6, <2>2
    <3>2. Reach(m.h, vs[i].data) \cap Reach(m.h, vs[j].data) = {}
      BY <1>2, <1>3, <3>1, Apart
    <3> QED
      BY <1>4, <2>2, <3>2
  <2> QED
    BY <2>1, <2>2
<1> HIDE DEF gone
<1> QED
  BY <1>1, <1>5, <1>6

\* One var freed.
LEMMA FreeOne ==
    ASSUME NEW m, NEW D, Keeps(m, D), NEW E, E \subseteq D, NEW v, v.data \in D \cup {0}, v.data \notin E
    PROVE  Keeps(Free(m, <<v>>), E) /\ (~m.bad => ~Free(m, <<v>>).bad)
<1>1. DOMAIN <<v>> = {1} /\ <<v>>[1] = v
  OBVIOUS
<1>2. Keeps(Free(m, <<v>>), E)
  BY <1>1, FreeKeeps
<1>3. ~m.bad => ~Free(m, <<v>>).bad
  BY <1>1, FreeDefined DEF Keeps
<1> QED
  BY <1>2, <1>3

\* Two vars freed.
LEMMA FreeTwo ==
    ASSUME NEW m, NEW D, Keeps(m, D), NEW E, E \subseteq D,
           NEW v, v.data \in D \cup {0}, v.data \notin E, NEW w, w.data \in D \cup {0}, w.data \notin E
    PROVE  /\ Keeps(Free(m, <<v, w>>), E)
           /\ ~m.bad /\ (v.data # 0 => v.data # w.data) => ~Free(m, <<v, w>>).bad
<1>1. DOMAIN <<v, w>> = {1, 2} /\ <<v, w>>[1] = v /\ <<v, w>>[2] = w
  OBVIOUS
<1>2. Keeps(Free(m, <<v, w>>), E)
  BY <1>1, FreeKeeps
<1>3. ASSUME ~m.bad, v.data # 0 => v.data # w.data
      PROVE  ~Free(m, <<v, w>>).bad
  <2> DEFINE vs == <<v, w>>
  <2>1. \A i \in DOMAIN vs : vs[i].data \in D \cup {0}
    BY <1>1
  <2>2. \A i, j \in DOMAIN vs : vs[i].data = vs[j].data /\ vs[i].data # 0 => i = j
    BY <1>1, <1>3
  <2> HIDE DEF vs
  <2>3. ~Free(m, vs).bad
    BY <1>3, <2>1, <2>2, FreeDefined DEF Keeps
  <2> QED
    BY <2>3 DEF vs
<1> QED
  BY <1>2, <1>3

\* Fewer owners.
LEMMA KeepsLess ==
    ASSUME NEW m, NEW D, Keeps(m, D), NEW E, E \subseteq D
    PROVE  Keeps(m, E)
  BY HoldsLess DEF Keeps

\* A fragment allocated.
LEMMA AllocateKeeps ==
    ASSUME NEW m, NEW D, Keeps(m, D), NEW f, Tree(f)
    PROVE  Keeps(Allocate(m, f), D \cup First(f, Len(m.h)))
<1>1. DOMAIN Allocate(m, f) = {"h", "bad"} /\ Allocate(m, f).bad = m.bad
  BY DEF Allocate, Keeps
<1> QED
  BY <1>1, AllocateHolds DEF Keeps

\* A number or a string is a tree.
LEMMA ScalarTree ==
    ASSUME NEW kind, kind # "ARRAY", NEW val, kind = "STRING" => List(val)
    PROVE  Tree(<<Scalar(kind, val)>>)
<1> DEFINE o == Scalar(kind, val)
<1>1. Shaped(o) /\ o.live = TRUE /\ o.kind = kind /\ o.val = val /\ o.slots = <<>>
  BY DEF Scalar, Object, Shaped
<1> HIDE DEF o
<1>2. DOMAIN o.slots = {}
  BY <1>1
<1>3. Cell(o, 1)
  BY <1>1, <1>2 DEF Cell
<1>4. <<o>> \in Seq({o}) /\ DOMAIN <<o>> = {1} /\ <<o>>[1] = o /\ Len(<<o>>) = 1
  OBVIOUS
<1>5. Tree(<<o>>)
  <2>1. List(<<o>>)
    BY <1>4, ListOf
  <2>2. Children(o) = {}
    BY <1>2 DEF Children, Range
  <2> QED
    BY <1>1, <1>2, <1>3, <1>4, <2>1, <2>2 DEF Tree
<1> QED
  BY <1>5 DEF o

\* A number or a string allocated.
LEMMA ScalarKeeps ==
    ASSUME NEW m, NEW D, Keeps(m, D), NEW kind, kind # "ARRAY", NEW val, kind = "STRING" => List(val)
    PROVE  Keeps(Allocate(m, <<Scalar(kind, val)>>), D \cup {Len(m.h) + 1})
<1>1. First(<<Scalar(kind, val)>>, Len(m.h)) = {Len(m.h) + 1}
  BY DEF First
<1> QED
  BY <1>1, ScalarTree, AllocateKeeps

-----------------------------------------------------------------------------
(* Programs and the invariant.                                              *)

\* The literals of a program: trees, and strings with an end.
TreeInstruction(x) ==
    /\ x.op = "FROM_JSON" => Tree(x.lit)
    /\ x.op = "AS_STRING" => List(x.lit)
    /\ x.op = "XCALL" => x.lit.type # "ARRAY" /\ (x.lit.type = "STRING" => List(x.lit.val))

\* A statement whose literals are such.
TreeCode(code) == List(code) /\ \A i \in DOMAIN code : TreeInstruction(code[i])
\* The programs considered; what main leaves in v2 has the fields of a value.
TreeLiterals ==
    /\ TreeCode(Prologue) /\ \A code \in Statements : TreeCode(code)
    /\ \A v \in Leftovers : Struct(v)

\* The data owned: by an operand or by a variable of the table.
Owners == Stacked(stack) \cup Named(variables)

\* Operands and variables own different data, each once, and the heap holds
\* what these lead to, as trees, and nothing that is freed.
Ready ==
    /\ OnStack(stack) /\ InTable(variables) /\ Stacked(stack) \cap Named(variables) = {}
    /\ Holds(heap, Owners)
    /\ Struct(v2)
    /\ List(chain) /\ Range(chain) \subseteq DOMAIN variables
    /\ \A i, j \in DOMAIN chain : chain[i] = chain[j] => i = j
    /\ TreeCode(todo)

\* The invariant, until the program has stopped or crashed.
OInv == status \in {"run", "done", "error"} => Ready

\* The operands an instruction takes, and what is left.
LEMMA OperandsTaken ==
    ASSUME Ready, NEW n \in 0 .. Len(stack)
    PROVE  /\ OnStack(Rest(n)) /\ Stacked(Rest(n)) \subseteq Stacked(stack)
           /\ \A i \in 0 .. n - 1 :
                /\ Len(stack) - i \in DOMAIN stack /\ Entry(stack[Len(stack) - i])
                /\ Struct(Pop(i)) /\ Pop(i).data \in Stacked(stack) \cup {0}
                /\ Pop(i).data \notin Stacked(Rest(n)) /\ Pop(i).data \notin Named(variables)
           /\ \A i, j \in 0 .. n - 1 : Pop(i).data = Pop(j).data /\ Pop(i).data # 0 => i = j
<1> DEFINE k == Len(stack) - n
<1>1. OnStack(stack) /\ Stacked(stack) \cap Named(variables) = {}
  BY DEF Ready
<1>2. Len(stack) \in Nat /\ DOMAIN stack = 1 .. Len(stack)
  BY <1>1, ListType DEF OnStack
<1>3. k \in 0 .. Len(stack) /\ Rest(n) = SubSeq(stack, 1, k)
  BY <1>2 DEF Rest
<1> HIDE DEF k
<1>4. /\ OnStack(Rest(n)) /\ Stacked(Rest(n)) \subseteq Stacked(stack)
      /\ \A i \in k + 1 .. Len(stack) :
           /\ i \in DOMAIN stack /\ Entry(stack[i])
           /\ stack[i].v.data \in Stacked(stack) \cup {0} /\ stack[i].v.data \notin Stacked(Rest(n))
  BY <1>1, <1>3, TakenOff
<1>5. \A i \in 0 .. n - 1 : Len(stack) - i \in k + 1 .. Len(stack)
  BY <1>2 DEF k
<1>6. 0 \notin Named(variables)
  BY DEF Named
<1>7. \A i \in 0 .. n - 1 :
        /\ Len(stack) - i \in DOMAIN stack /\ Entry(stack[Len(stack) - i])
        /\ Struct(Pop(i)) /\ Pop(i).data \in Stacked(stack) \cup {0}
        /\ Pop(i).data \notin Stacked(Rest(n)) /\ Pop(i).data \notin Named(variables)
  BY <1>1, <1>4, <1>5, <1>6 DEF Pop, Entry
<1>8. \A i, j \in 0 .. n - 1 : Pop(i).data = Pop(j).data /\ Pop(i).data # 0 => i = j
  <2> TAKE i, j \in 0 .. n - 1
  <2>1. Pop(i).data = Pop(j).data /\ Pop(i).data # 0 => Len(stack) - i = Len(stack) - j
    BY <1>1, <1>7 DEF OnStack, Pop
  <2> QED
    BY <1>2, <2>1
<1> QED
  BY <1>4, <1>7, <1>8

\* The instruction that is next.
LEMMA NextInstruction ==
    ASSUME Ready, todo # <<>>
    PROVE  TreeInstruction(Head(todo)) /\ TreeCode(Tail(todo))
<1>1. List(todo) /\ \A i \in DOMAIN todo : TreeInstruction(todo[i])
  BY DEF Ready, TreeCode
<1>2. /\ List(Tail(todo)) /\ 1 \in DOMAIN todo
      /\ \A i \in DOMAIN Tail(todo) : i + 1 \in DOMAIN todo /\ Tail(todo)[i] = todo[i + 1]
  BY <1>1, ListTail
<1>3. Head(todo) = todo[1]
  BY <1>1 DEF List
<1> QED
  BY <1>1, <1>2, <1>3 DEF TreeCode

\* An instruction that leaves the variables alone.
LEMMA StackStep ==
    ASSUME Ready, todo # <<>>, NEW m, Done(m), UNCHANGED table, NEW E,
           ~m.bad => /\ Holds(m.h, E) /\ Struct(v2') /\ OnStack(stack')
                     /\ Stacked(stack') \cap Named(variables) = {}
                     /\ Stacked(stack') \cup Named(variables) \subseteq E
    PROVE  OInv'
<1> SUFFICES ASSUME status' # "ub" PROVE Ready'
  BY DEF OInv
<1>1. ~m.bad /\ heap' = m.h /\ todo' = Tail(todo)
  BY DEF Done
<1>2. TreeCode(todo')
  BY <1>1, NextInstruction
<1>3. variables' = variables /\ chain' = chain
  BY DEF table
<1>4. Holds(m.h, Stacked(stack') \cup Named(variables))
  BY <1>1, HoldsLess
<1>5. Holds(heap', Owners')
  BY <1>1, <1>3, <1>4 DEF Owners
<1> QED
  BY <1>1, <1>2, <1>3, <1>5 DEF Ready

\* An instruction that gives the variable it names another var.
LEMMA TableStep ==
    ASSUME Ready, todo # <<>>, NEW m, Done(m), NEW name, NEW v, NEW E,
           chain' = chain \/ chain' = Added(name), variables' = With(name, v),
           ~m.bad => /\ Holds(m.h, E) /\ Struct(v2') /\ Struct(v) /\ OnStack(stack')
                     /\ v.data \notin Named(variables) \ {Old(name).data}
                     /\ Stacked(stack') \cap ((Named(variables) \ {Old(name).data}) \cup Data(v)) = {}
                     /\ Stacked(stack') \cup (Named(variables) \ {Old(name).data}) \cup Data(v) \subseteq E
    PROVE  OInv'
<1> SUFFICES ASSUME status' # "ub" PROVE Ready'
  BY DEF OInv
<1>1. ~m.bad /\ heap' = m.h /\ todo' = Tail(todo)
  BY DEF Done
<1>2. TreeCode(todo')
  BY <1>1, NextInstruction
<1>3. InTable(variables') /\ Named(variables') = (Named(variables) \ {Old(name).data}) \cup Data(v)
  <2>1. InTable(variables) /\ Struct(v) /\ v.data \notin Named(variables) \ {Old(name).data}
    BY <1>1 DEF Ready
  <2> QED
    BY <2>1, PutInto
<1>4. Holds(m.h, Stacked(stack') \cup Named(variables'))
  BY <1>1, <1>3, HoldsLess
<1>5. Holds(heap', Owners')
  BY <1>1, <1>4 DEF Owners
<1>6. /\ List(chain') /\ Range(chain') \subseteq DOMAIN variables'
      /\ \A i, j \in DOMAIN chain' : chain'[i] = chain'[j] => i = j
  <2>1. /\ List(chain) /\ Range(chain) \subseteq DOMAIN variables /\ DOMAIN variables' = DOMAIN variables \cup {name}
        /\ \A i, j \in DOMAIN chain : chain[i] = chain[j] => i = j
    BY DEF Ready, With
  <2>2. CASE chain' = chain
    BY <2>1, <2>2
  <2>3. CASE chain' # chain
    <3>1. chain' = <<name>> \o chain /\ name \notin Range(chain)
      BY <2>3 DEF Added
    <3>2. <<name>> \in Seq({name}) /\ Len(<<name>>) = 1 /\ <<name>>[1] = name
      OBVIOUS
    <3>3. List(<<name>>)
      BY <3>2, ListOf
    <3>4. /\ List(chain')
          /\ \A i \in DOMAIN chain' : chain'[i] = IF i <= 1 THEN <<name>>[i] ELSE chain[i - 1]
          /\ Len(chain') = 1 + Len(chain)
      BY <2>1, <3>1, <3>2, <3>3, ListJoin
    <3>5. \A i \in DOMAIN chain' : i = 1 \/ (~(i <= 1) /\ i \in Nat /\ i - 1 \in DOMAIN chain)
      BY <2>1, <3>4, ListType
    <3>6. \A i \in DOMAIN chain' : chain'[i] \in DOMAIN variables'
      BY <2>1, <3>2, <3>4, <3>5 DEF Range
    <3>7. ASSUME NEW i \in DOMAIN chain', NEW j \in DOMAIN chain', chain'[i] = chain'[j]
          PROVE  i = j
      <4>1. \A k \in DOMAIN chain' : k # 1 => chain'[k] \in Range(chain) /\ chain'[k] = chain[k - 1]
        BY <3>4, <3>5 DEF Range
      <4>2. chain'[1] = name
        BY <3>2, <3>4, <2>1, ListType
      <4>3. i # 1 /\ j # 1 => i - 1 = j - 1
        BY <2>1, <3>5, <3>7, <4>1
      <4>4. i = 1 <=> j = 1
        BY <3>1, <3>7, <4>1, <4>2
      <4> QED
        BY <3>5, <4>3, <4>4
    <3> QED
      BY <3>4, <3>6, <3>7 DEF Range
  <2> QED
    BY <2>1, <2>2, <2>3
<1> QED
  BY <1>1, <1>2, <1>3, <1>5, <1>6 DEF Ready

\* The variable var_lookup_2 finds is in the table.
LEMMA LookupType ==
    ASSUME Ready, NEW name, var_lookup_2(name) # None
    PROVE  var_lookup_2(name) \in DOMAIN variables
<1> DEFINE match == {i \in DOMAIN chain : chain[i] = name \/ <<name, chain[i]>> \in Shadows}
<1>1. match # {} /\ var_lookup_2(name) = chain[Min(match)]
  BY DEF var_lookup_2
<1>2. List(chain) /\ Range(chain) \subseteq DOMAIN variables
  BY DEF Ready
<1>3. match \in SUBSET Nat /\ match \subseteq DOMAIN chain
  BY <1>2, ListType
<1> HIDE DEF match
<1>4. Min(match) \in match
  <2>1. \E x \in match : \A y \in match : x <= y
    BY <1>1, <1>3, LeastExists
  <2> QED
    BY <2>1 DEF Min
<1> QED
  BY <1>1, <1>2, <1>3, <1>4 DEF Range

-----------------------------------------------------------------------------
(* Steps of the usual kinds.                                                *)

\* What ends the run, well or not.
LEMMA Halts ==
    ASSUME status' \in {"ub", "stopped"}
    PROVE  OInv'
  BY DEF OInv

\* The memory an instruction starts from.
LEMMA MemKeeps ==
    ASSUME Ready
    PROVE  /\ Keeps(Mem, Owners) /\ Mem.h = heap
           /\ 0 \notin Owners /\ Len(heap) + 1 \notin Owners /\ Len(heap) \in Nat
           /\ Len(heap) + 1 # 0
           /\ Stacked(stack) \cap Named(variables) = {} /\ 0 \notin Stacked(stack) /\ 0 \notin Named(variables)
<1>1. Holds(heap, Owners)
  BY DEF Ready
<1>2. 0 \notin Owners /\ Len(heap) + 1 \notin Owners /\ Len(heap) \in Nat
  BY <1>1, OwnersType
<1>3. Len(heap) + 1 # 0
  BY <1>2
<1>4. Keeps(Mem, Owners) /\ Mem.h = heap
  BY <1>1, MemIs DEF Keeps
<1>5. Stacked(stack) \cap Named(variables) = {} /\ 0 \notin Stacked(stack) /\ 0 \notin Named(variables)
  BY DEF Ready, Stacked, Named
<1> QED
  BY <1>2, <1>3, <1>4, <1>5

\* A new datum.
LEMMA FreshType ==
    ASSUME NEW type
    PROVE  Struct(Fresh(Mem, type)) /\ Fresh(Mem, type).data = Len(heap) + 1
  BY MemIs DEF Fresh, Var, Struct

\* An owner is below one.
LEMMA OwnerUnder ==
    ASSUME NEW h, NEW D, Holds(h, D), NEW E, E \subseteq D, NEW d \in E
    PROVE  Under(h, E, d)
  BY OwnedCell DEF Under

\* A copy of what is below an owner, made for a var without data.
LEMMA CopyNew ==
    ASSUME Ready, NEW a, Struct(a), a.data = 0, NEW b, Struct(b), b.data = 0 \/ Under(heap, Owners, b.data)
    PROVE  LET c == op_copy(Mem, a, b)
           IN  /\ Keeps(c.m, Owners \cup Data(c.v)) /\ Struct(c.v) /\ c.v.data \notin Owners
<1>1. /\ Mem.h = heap /\ DOMAIN Mem = {"h", "bad"} /\ Holds(heap, Owners) /\ Owners \ {a.data} = Owners
      /\ a.data \in Owners \cup {0}
  BY MemIs, MemKeeps DEF Ready
<1>2. Holds(Mem.h, Owners) /\ (b.data = 0 \/ Under(Mem.h, Owners \ {a.data}, b.data))
  BY <1>1
<1> DEFINE c == op_copy(Mem, a, b)
<1>3. /\ Keeps(c.m, (Owners \ {a.data}) \cup Data(c.v)) /\ Struct(c.v)
      /\ c.v.data \notin Owners \ {a.data}
  BY <1>1, <1>2, CopyHolds
<1> HIDE DEF c
<1> QED
  BY <1>1, <1>3 DEF c

\* The var a name has.
LEMMA OldType ==
    ASSUME Ready, NEW name
    PROVE  /\ Struct(Old(name)) /\ Old(name).data \in Named(variables) \cup {0}
           /\ Old(name).data \notin Stacked(stack)
<1>1. InTable(variables)
  BY DEF Ready
<1>2. Struct(Var("STRING", 0, None)) /\ Var("STRING", 0, None).data = 0
  BY DEF Var, Struct
<1>3. Struct(Old(name)) /\ Old(name).data \in Named(variables) \cup {0}
  BY <1>1, <1>2 DEF Old, InTable, Named
<1> QED
  BY <1>3, MemKeeps

\* A copy of an operand made for a variable: what the variable had is nobody's.
LEMMA CopyInto ==
    ASSUME Ready, NEW name, NEW b, Struct(b), b.data \in Stacked(stack) \cup {0}
    PROVE  LET c == op_copy(Mem, Old(name), b)
           IN  /\ Keeps(c.m, (Owners \ {Old(name).data}) \cup Data(c.v))
               /\ Struct(c.v) /\ c.v.data \notin Owners \ {Old(name).data}
<1> DEFINE a == Old(name)
<1>1. Struct(a) /\ a.data \in Named(variables) \cup {0} /\ a.data \notin Stacked(stack)
  BY OldType
<1>2. Mem.h = heap /\ DOMAIN Mem = {"h", "bad"} /\ Holds(heap, Owners)
  BY MemIs DEF Ready
<1> HIDE DEF a
<1>3. b.data # 0 => b.data \in Owners \ {a.data}
  BY <1>1 DEF Owners
<1>4. b.data = 0 \/ Under(heap, Owners \ {a.data}, b.data)
  BY <1>2, <1>3, OwnerUnder
<1>5. a.data \in Owners \cup {0}
  BY <1>1 DEF Owners
<1> QED
  BY <1>1, <1>2, <1>4, <1>5, CopyHolds DEF a

\* An entry pushed after operands were taken.
LEMMA PushStep ==
    ASSUME Ready, todo # <<>>, NEW m, Done(m), UNCHANGED table, Struct(v2'),
           NEW s, OnStack(s), Stacked(s) \subseteq Stacked(stack), NEW e, stack' = Append(s, e),
           NEW E, Stacked(s) \cup Named(variables) \subseteq E,
           ~m.bad => Holds(m.h, E \cup Data(e.v)) /\ Entry(e) /\ e.v.data \notin E
    PROVE  OInv'
<1>1. ASSUME ~m.bad
      PROVE  /\ OnStack(stack') /\ Stacked(stack') \cap Named(variables) = {}
             /\ Stacked(stack') \cup Named(variables) \subseteq E \cup Data(e.v)
  <2>1. OnStack(stack') /\ Stacked(stack') = Stacked(s) \cup Data(e.v)
    BY <1>1, PutOn
  <2>2. Stacked(s) \cap Named(variables) = {}
    BY DEF Ready
  <2> QED
    BY <1>1, <2>1, <2>2 DEF Data
<1> QED
  BY <1>1, StackStep

\* Operands taken, and no entry pushed.
LEMMA PopStep ==
    ASSUME Ready, todo # <<>>, NEW m, Done(m), UNCHANGED table, Struct(v2'),
           OnStack(stack'), Stacked(stack') \subseteq Stacked(stack),
           Keeps(m, Stacked(stack') \cup Named(variables))
    PROVE  OInv'
<1>1. Stacked(stack') \cap Named(variables) = {}
  BY DEF Ready
<1> QED
  BY <1>1, StackStep DEF Keeps

\* A name that gets a copy, and operands taken.
LEMMA CopyStep ==
    ASSUME Ready, todo # <<>>, NEW m, Done(m), NEW name, NEW v, Struct(v), Struct(v2'),
           chain' = Added(name), variables' = With(name, v),
           OnStack(stack'), Stacked(stack') \subseteq Stacked(stack),
           v.data \notin Owners \ {Old(name).data},
           Keeps(m, Stacked(stack') \cup (Named(variables) \ {Old(name).data}) \cup Data(v))
    PROVE  OInv'
<1>1. Old(name).data \notin Stacked(stack) /\ Stacked(stack) \cap Named(variables) = {}
  BY OldType, MemKeeps
<1>2. v.data \notin Named(variables) \ {Old(name).data} /\ v.data \notin Stacked(stack')
  BY <1>1 DEF Owners
<1>3. Stacked(stack') \cap ((Named(variables) \ {Old(name).data}) \cup Data(v)) = {}
  BY <1>1, <1>2 DEF Data
<1> QED
  BY <1>2, <1>3, TableStep DEF Keeps

-----------------------------------------------------------------------------
(* The instructions, when Supplied and CleanPath hold.                      *)

\* runtime_error after some of the operands were taken off.
LEMMA Fails ==
    ASSUME Ready, Supplied, status = "run", todo # <<>>, NEW n \in Nat, n = 0 \/ n <= Arity, Error(n)
    PROVE  OInv'
<1>1. n \in 0 .. Len(stack)
  <2>1. Arity \in 0 .. Len(stack) /\ Len(stack) \in Nat
    BY ListType DEF Supplied, Ready, OnStack
  <2> HIDE DEF Arity
  <2> QED
    BY <2>1
<1>2. OnStack(stack') /\ Stacked(stack') \subseteq Stacked(stack)
  BY <1>1, OperandsTaken DEF Error
<1>3. UNCHANGED <<todo, heap, table, v2>>
  BY DEF Error
<1>4. Stacked(stack') \cup Named(variables) \subseteq Owners
  BY <1>2 DEF Owners
<1>5. Holds(heap, Stacked(stack') \cup Named(variables))
  BY <1>4, HoldsLess DEF Ready
<1>6. heap' = heap /\ Owners' = Stacked(stack') \cup Named(variables) /\ variables' = variables /\ chain' = chain
  BY <1>3 DEF Owners, table
<1> QED
  BY <1>2, <1>3, <1>5, <1>6 DEF Ready, OInv

\* Entries of either tag.
LEMMA EntryType ==
    ASSUME NEW v, Struct(v)
    PROVE  /\ Entry(Tagged(v)) /\ Tagged(v).v = v
           /\ Entry(Direct(v)) /\ Direct(v).v = v
  BY DEF Tagged, Direct, Entry

\* The struct for UNSET.
LEMMA ZeroedType ==
    Struct(Zeroed) /\ Zeroed.data = 0
  BY DEF Zeroed, Var, Struct

\* AS_VAR: the stack gets a copy of the variable.
LEMMA AsVarOwns ==
    ASSUME Ready, Supplied, AsVar
    PROVE  OInv'
<1> DEFINE name == var_lookup_2(Name)
           c == op_copy(Mem, Zeroed, variables[name])
           e == Direct([c.v EXCEPT !.ref = name])
<1>1. \/ OInv'
      \/ /\ name # None /\ todo # <<>> /\ stack' = Append(stack, e)
         /\ Done(c.m) /\ UNCHANGED table /\ v2' = v2
  <2>1. todo # <<>> /\ status = "run"
    BY DEF AsVar, At
  <2>2. \/ Error(0)
        \/ /\ name # None /\ stack' = Append(stack, e)
           /\ Done(c.m) /\ UNCHANGED table /\ v2' = v2
    BY DEF AsVar
  <2>3. Error(0) => OInv'
    BY <2>1, Fails
  <2> QED
    BY <2>1, <2>2, <2>3
<1>2. CASE name # None
  <2>1. name \in DOMAIN variables
    BY <1>2, LookupType
  <2>2. Struct(variables[name]) /\ variables[name].data \in Named(variables) \cup {0}
    BY <2>1 DEF Ready, InTable, Named
  <2>3. variables[name].data = 0 \/ Under(heap, Owners, variables[name].data)
    BY <2>2, OwnerUnder DEF Ready, Owners
  <2> HIDE DEF name
  <2>4. Keeps(c.m, Owners \cup Data(c.v)) /\ Struct(c.v) /\ c.v.data \notin Owners
    BY <2>2, <2>3, ZeroedType, CopyNew
  <2> HIDE DEF c
  <2>5. Entry(e) /\ e.v.data = c.v.data
    BY <2>4 DEF Direct, Entry, Struct
  <2> HIDE DEF e
  <2>6. Data(e.v) = Data(c.v)
    BY <2>5 DEF Data
  <2>7. OnStack(stack) /\ Struct(v2) /\ Stacked(stack) \cup Named(variables) \subseteq Owners
    BY DEF Ready, Owners
  <2> QED
    BY <1>1, <2>4, <2>5, <2>6, <2>7, Halts, PushStep DEF Keeps
<1> HIDE DEF name, c, e
<1> QED
  BY <1>1, <1>2, Halts

\* AS_DOUBLE, AS_STRING, FROM_JSON, AS_VOID and MICROTIME: the stack gets what
\* was allocated.
LEMMA AsConstantOwns ==
    ASSUME Ready, AsConstant
    PROVE  OInv'
<1> DEFINE fragment == CASE Op = "AS_DOUBLE" -> <<Scalar("DOUBLE", Literal)>>
                         [] Op = "MICROTIME" -> <<Scalar("DOUBLE", <<"time">>)>>
                         [] Op = "AS_STRING" -> <<Scalar("STRING", Literal)>>
                         [] Op = "FROM_JSON" -> Literal
                         [] Op = "AS_VOID" -> <<>>
           v == IF fragment = <<>> THEN Zeroed ELSE Fresh(Mem, fragment[1].kind)
           e == IF Op \in {"AS_DOUBLE", "AS_VOID"} THEN Direct(v) ELSE Tagged(v)
           m == Allocate(Mem, fragment)
<1>1. /\ Op \in {"AS_DOUBLE", "AS_STRING", "FROM_JSON", "AS_VOID", "MICROTIME"}
      /\ todo # <<>> /\ stack' = Append(stack, e)
      /\ Done(m) /\ UNCHANGED table /\ v2' = v2
  BY DEF AsConstant, At, Op
<1>2. TreeInstruction(Head(todo))
  BY <1>1, NextInstruction
<1>3. Tree(fragment)
  <2>1. Op = "AS_STRING" => List(Literal)
    BY <1>2 DEF TreeInstruction, Op, Literal
  <2>2. Op = "FROM_JSON" => Tree(Literal)
    BY <1>2 DEF TreeInstruction, Op, Literal
  <2>3. Tree(<<>>)
    <3>1. <<>> \in Seq({}) /\ DOMAIN <<>> = {}
      OBVIOUS
    <3> QED
      BY <3>1, ListOf DEF Tree
  <2>4. Tree(<<Scalar("DOUBLE", Literal)>>) /\ Tree(<<Scalar("DOUBLE", <<"time">>)>>)
    BY ScalarTree
  <2>5. Op = "AS_STRING" => Tree(<<Scalar("STRING", Literal)>>)
    BY <2>1, ScalarTree
  <2> QED
    BY <1>1, <2>2, <2>3, <2>4, <2>5
<1> HIDE DEF fragment
<1>4. Keeps(m, Owners \cup First(fragment, Len(heap)))
  BY <1>3, AllocateKeeps, MemKeeps
<1>5. Struct(v) /\ v.data \notin Owners /\ Data(v) = First(fragment, Len(heap))
  BY ZeroedType, FreshType, MemKeeps DEF First, Data
<1> HIDE DEF v, m
<1>6. Entry(e) /\ e.v = v
  BY <1>5, EntryType
<1> HIDE DEF e
<1>7. OnStack(stack) /\ Struct(v2) /\ Stacked(stack) \cup Named(variables) \subseteq Owners
  BY DEF Ready, Owners
<1> QED
  BY <1>1, <1>4, <1>5, <1>6, <1>7, PushStep DEF Keeps

\* PRINT and CLEAR_STACK free what they take off.
LEMMA TakersOwn ==
    ASSUME Ready, Supplied, Show \/ ClearStack
    PROVE  OInv'
<1>1. todo # <<>> /\ UNCHANGED table /\ v2' = v2 /\ Struct(v2) /\ status = "run"
  BY DEF Show, ClearStack, At, Ready
<1>2. CASE Show
  <2>1. 1 \in 0 .. Len(stack)
    BY <1>1, <1>2 DEF Supplied, Arity, Show, At, Op
  <2>2. stack' = Rest(1) /\ Done(Free(Mem, <<Pop(0)>>))
    BY <1>2 DEF Show
  <2>3. /\ OnStack(Rest(1)) /\ Stacked(Rest(1)) \subseteq Stacked(stack)
        /\ Pop(0).data \in Stacked(stack) \cup {0}
        /\ Pop(0).data \notin Stacked(Rest(1)) /\ Pop(0).data \notin Named(variables)
    BY <2>1, OperandsTaken
  <2>4. Keeps(Free(Mem, <<Pop(0)>>), Stacked(Rest(1)) \cup Named(variables))
    BY <2>3, MemKeeps, FreeOne DEF Owners
  <2> QED
    BY <1>1, <2>2, <2>3, <2>4, PopStep
<1>3. CASE ClearStack
  <2>1. stack' = Cleared(stack) /\ Done(Free(Mem, Garbage(stack)))
    BY <1>3 DEF ClearStack
  <2>2. OnStack(stack)
    BY DEF Ready
  <2>3. /\ OnStack(Cleared(stack)) /\ Stacked(Cleared(stack)) \subseteq Stacked(stack)
        /\ \A i \in DOMAIN Garbage(stack) :
             /\ Garbage(stack)[i].data \in Stacked(stack) \cup {0}
             /\ Garbage(stack)[i].data \notin Stacked(Cleared(stack))
    BY <2>2, ClearedOff
  <2>4. Keeps(Free(Mem, Garbage(stack)), Stacked(Cleared(stack)) \cup Named(variables))
    BY <2>3, MemKeeps, FreeKeeps DEF Owners
  <2> QED
    BY <1>1, <2>1, <2>3, <2>4, PopStep
<1> QED
  BY <1>2, <1>3

\* VAR, VARX and SET.
LEMMA VariablesOwn ==
    ASSUME Ready, Supplied, Declare \/ DeclareWith \/ Assign
    PROVE  OInv'
<1>1. todo # <<>> /\ status = "run" /\ Struct(v2) /\ OnStack(stack)
  BY DEF Declare, DeclareWith, Assign, At, Ready
<1>2. CASE Declare
  <2>1. chain' = Added(Name) /\ variables' = With(Name, Old(Name)) /\ stack' = stack /\ v2' = v2 /\ Done(Mem)
    BY <1>2 DEF Declare
  <2> DEFINE v == Old(Name)
  <2>2. Struct(v) /\ v.data \in Named(variables) \cup {0}
    BY OldType
  <2>3. Keeps(Mem, Stacked(stack) \cup (Named(variables) \ {v.data}) \cup Data(v))
    <3>1. Stacked(stack) \cup (Named(variables) \ {v.data}) \cup Data(v) \subseteq Owners
      BY <2>2 DEF Data, Owners
    <3> QED
      BY <3>1, MemKeeps, KeepsLess
  <2>4. v.data \notin Owners \ {v.data}
    OBVIOUS
  <2> QED
    BY <1>1, <2>1, <2>2, <2>3, <2>4, CopyStep
<1>3. CASE DeclareWith
  <2> DEFINE v1 == [Pop(0) EXCEPT !.ref = None]
             c == op_copy(Mem, Old(Name), v1)
             E == Stacked(Rest(1)) \cup (Named(variables) \ {Old(Name).data}) \cup Data(c.v)
  <2>1. /\ chain' = Added(Name) /\ variables' = With(Name, c.v) /\ stack' = Rest(1) /\ v2' = v2
        /\ Done(Free(c.m, <<v1>>))
    BY <1>3 DEF DeclareWith
  <2>2. 1 \in 0 .. Len(stack)
    BY <1>1, <1>3 DEF Supplied, Arity, DeclareWith, At, Op
  <2>3. /\ OnStack(Rest(1)) /\ Stacked(Rest(1)) \subseteq Stacked(stack) /\ Struct(Pop(0))
        /\ Pop(0).data \in Stacked(stack) \cup {0}
        /\ Pop(0).data \notin Stacked(Rest(1)) /\ Pop(0).data \notin Named(variables)
    BY <2>2, OperandsTaken
  <2>4. Struct(v1) /\ v1.data = Pop(0).data
    BY <2>3 DEF Struct
  <2> HIDE DEF v1
  <2>5. /\ Keeps(c.m, (Owners \ {Old(Name).data}) \cup Data(c.v))
        /\ Struct(c.v) /\ c.v.data \notin Owners \ {Old(Name).data}
    BY <2>3, <2>4, CopyInto
  <2> HIDE DEF c
  <2>6. Old(Name).data \notin Stacked(stack) /\ 0 \notin Stacked(stack) /\ 0 \notin Named(variables)
    BY OldType, MemKeeps
  <2>7. /\ E \subseteq (Owners \ {Old(Name).data}) \cup Data(c.v)
        /\ v1.data \in ((Owners \ {Old(Name).data}) \cup Data(c.v)) \cup {0}
        /\ v1.data \notin E
    BY <2>3, <2>4, <2>5, <2>6 DEF Owners, Data
  <2> HIDE DEF E
  <2>8. Keeps(Free(c.m, <<v1>>), E)
    BY <2>5, <2>7, FreeOne
  <2> QED
    BY <1>1, <2>1, <2>3, <2>5, <2>8, CopyStep DEF E
<1>4. CASE Assign
  <2> DEFINE ref == Pop(1).ref
             v == [Pop(0) EXCEPT !.ref = variables[ref].ref]
  <2>1. \/ OInv'
        \/ /\ variables' = With(ref, v) /\ chain' = chain
           /\ v2' = Pop(0) /\ stack' = Rest(1) /\ Done(Mem)
    <3>1. \/ Error(1)
          \/ /\ variables' = With(ref, v) /\ chain' = chain
             /\ v2' = Pop(0) /\ stack' = Rest(1) /\ Done(Mem)
      BY <1>4 DEF Assign
    <3>2. Op = "SET"
      BY <1>4 DEF Assign, At, Op
    <3>3. Error(1) => OInv'
      BY <1>1, <3>2, Fails DEF Arity, Binary, Comparisons, Unary
    <3> QED
      BY <3>1, <3>3
  <2>2. 2 \in 0 .. Len(stack)
    BY <1>1, <1>4 DEF Supplied, Arity, Assign, At, Op, Binary, Comparisons, Unary
  <2>3. 1 \in 0 .. Len(stack)
    <3>1. Len(stack) \in Nat
      BY <1>1, ListType DEF OnStack
    <3> QED
      BY <2>2, <3>1
  <2>4. /\ OnStack(Rest(1)) /\ Stacked(Rest(1)) \subseteq Stacked(stack) /\ Struct(Pop(0))
        /\ Pop(0).data \in Stacked(stack) \cup {0}
        /\ Pop(0).data \notin Stacked(Rest(1)) /\ Pop(0).data \notin Named(variables)
    BY <2>3, OperandsTaken
  <2>5. Struct(v) /\ v.data = Pop(0).data
    BY <2>4 DEF Struct
  <2> HIDE DEF ref, v
  <2>6. Old(ref).data \notin Stacked(stack) /\ Stacked(stack) \cap Named(variables) = {}
    BY OldType, MemKeeps
  <2>7. /\ v.data \notin Named(variables) \ {Old(ref).data}
        /\ Stacked(Rest(1)) \cap ((Named(variables) \ {Old(ref).data}) \cup Data(v)) = {}
        /\ Stacked(Rest(1)) \cup (Named(variables) \ {Old(ref).data}) \cup Data(v) \subseteq Owners
    BY <2>4, <2>5, <2>6 DEF Owners, Data
  <2>8. Holds(Mem.h, Owners)
    BY MemIs DEF Ready
  <2> QED
    BY <1>1, <2>1, <2>4, <2>5, <2>7, <2>8, Halts, TableStep
<1> QED
  BY <1>2, <1>3, <1>4

\* What an instruction that takes n operands finds.
LEMMA Takes2 ==
    ASSUME Ready, Supplied, status = "run", todo # <<>>, Arity = 2
    PROVE  /\ 2 \in 0 .. Len(stack) /\ 1 \in 0 .. Len(stack)
           /\ OnStack(Rest(2)) /\ Stacked(Rest(2)) \subseteq Stacked(stack)
           /\ Struct(Pop(0)) /\ Struct(Pop(1)) /\ Entry(stack[Len(stack) - 1])
           /\ \A v \in {Pop(0), Pop(1)} :
                /\ v.data \in Stacked(stack) \cup {0}
                /\ v.data \notin Stacked(Rest(2)) /\ v.data \notin Named(variables)
           /\ Pop(0).data # 0 => Pop(0).data # Pop(1).data
<1>1. 2 \in 0 .. Len(stack)
  BY DEF Supplied
<1>2. 1 \in 0 .. Len(stack)
  <2>1. Len(stack) \in Nat
    BY ListType DEF Ready, OnStack
  <2> QED
    BY <1>1, <2>1
<1>3. /\ OnStack(Rest(2)) /\ Stacked(Rest(2)) \subseteq Stacked(stack)
      /\ \A i \in 0 .. 1 :
           /\ Len(stack) - i \in DOMAIN stack /\ Entry(stack[Len(stack) - i])
           /\ Struct(Pop(i)) /\ Pop(i).data \in Stacked(stack) \cup {0}
           /\ Pop(i).data \notin Stacked(Rest(2)) /\ Pop(i).data \notin Named(variables)
      /\ \A i, j \in 0 .. 1 : Pop(i).data = Pop(j).data /\ Pop(i).data # 0 => i = j
  BY <1>1, OperandsTaken
<1>4. 0 \in 0 .. 1 /\ 1 \in 0 .. 1 /\ 0 # 1
  OBVIOUS
<1> QED
  BY <1>1, <1>2, <1>3, <1>4

\* The same for one operand.
LEMMA Takes1 ==
    ASSUME Ready, Supplied, status = "run", todo # <<>>, Arity = 1
    PROVE  /\ 1 \in 0 .. Len(stack)
           /\ OnStack(Rest(1)) /\ Stacked(Rest(1)) \subseteq Stacked(stack)
           /\ Struct(Pop(0)) /\ Pop(0).data \in Stacked(stack) \cup {0}
           /\ Pop(0).data \notin Stacked(Rest(1)) /\ Pop(0).data \notin Named(variables)
  BY OperandsTaken DEF Supplied

\* SET_ELEM: the operand becomes the element, the stack gets a copy.
LEMMA SetElemOwns ==
    ASSUME Ready, Supplied, SetElem
    PROVE  OInv'
<1> DEFINE name == var_lookup_2(Name)
           t == variables[name]
           v == Pop(0)
           m == ElementSet(t, Pop(1), v)
           c == op_copy(m, Zeroed, v)
           e == Tagged(c.v)
           E == Owners \ {v.data}
<1>1. todo # <<>> /\ status = "run" /\ Op = "SET_ELEM"
  BY DEF SetElem, At, Op
<1>2. \/ OInv'
      \/ /\ name # None /\ stack' = Append(Rest(2), e)
         /\ v2' = v /\ Done(c.m) /\ UNCHANGED table
  <2>1. \/ Error(2)
        \/ /\ name # None /\ stack' = Append(Rest(2), e)
           /\ v2' = v /\ Done(c.m) /\ UNCHANGED table
    BY DEF SetElem
  <2>2. Error(2) => OInv'
    BY <1>1, Fails DEF Arity, Binary, Comparisons, Unary
  <2> QED
    BY <2>1, <2>2
<1>3. Arity = 2
  BY <1>1 DEF Arity, Binary, Comparisons, Unary
<1>4. /\ OnStack(Rest(2)) /\ Stacked(Rest(2)) \subseteq Stacked(stack)
      /\ Struct(v) /\ v.data \in Stacked(stack) \cup {0}
      /\ v.data \notin Stacked(Rest(2)) /\ v.data \notin Named(variables)
  BY <1>1, <1>3, Takes2
<1>5. CASE name # None
  <2>1. name \in DOMAIN variables
    BY <1>5, LookupType
  <2>2. t.data \in Named(variables) \cup {0}
    BY <2>1 DEF Named
  <2>3. t.data \in Owners \cup {0} /\ v.data \in Owners \cup {0} /\ (v.data # 0 => v.data # t.data)
    BY <1>4, <2>2, MemKeeps DEF Owners
  <2>4. Holds(heap, Owners)
    BY DEF Ready
  <2> HIDE DEF name, t, v
  <2>5. Placed(m, Owners, v)
    BY <1>4, <2>3, <2>4, ElementPlaced
  <2> HIDE DEF m
  <2>6. /\ Struct(c.v)
        /\ ~c.m.bad => Holds(c.m.h, E \cup Data(c.v)) /\ c.v.data \notin E
    BY <1>4, <2>5, MemKeeps, PlacedCopy
  <2>7. Stacked(Rest(2)) \cup Named(variables) \subseteq E
    BY <1>4 DEF Owners
  <2> HIDE DEF c
  <2>8. Entry(e) /\ e.v = c.v
    BY <2>6, EntryType
  <2> HIDE DEF e, E
  <2> QED
    BY <1>1, <1>2, <1>4, <2>6, <2>7, <2>8, Halts, PushStep
<1> HIDE DEF name, t, v, c, m, e, E
<1> QED
  BY <1>2, <1>5, Halts

\* ADD_ELEM: the operand becomes the last element, the stack gets a copy.
LEMMA AddElemOwns ==
    ASSUME Ready, Supplied, AddElem
    PROVE  OInv'
<1> DEFINE name == var_lookup_2(Name)
           t == variables[name]
           v == Pop(0)
           m == array_push(Mem, t.data, v)
           c == op_copy(m, Zeroed, v)
           e == Tagged(c.v)
           E == Owners \ {v.data}
<1>1. todo # <<>> /\ status = "run" /\ Op = "ADD_ELEM"
  BY DEF AddElem, At, Op
<1>2. \/ OInv'
      \/ status' = "ub"
      \/ /\ name # None /\ t.type = "ARRAY" /\ Good(Mem, t) /\ stack' = Append(Rest(1), e)
         /\ v2' = c.v /\ Done(c.m) /\ UNCHANGED table
  <2>1. \/ Error(1)
        \/ status' = "ub"
        \/ /\ name # None /\ t.type = "ARRAY" /\ Good(Mem, t) /\ stack' = Append(Rest(1), e)
           /\ v2' = c.v /\ Done(c.m) /\ UNCHANGED table
    BY DEF AddElem, Undefined
  <2>2. Error(1) => OInv'
    BY <1>1, Fails DEF Arity, Binary, Comparisons, Unary
  <2> QED
    BY <2>1, <2>2
<1>3. Arity = 1
  BY <1>1 DEF Arity
<1>4. /\ OnStack(Rest(1)) /\ Stacked(Rest(1)) \subseteq Stacked(stack)
      /\ Struct(v) /\ v.data \in Stacked(stack) \cup {0}
      /\ v.data \notin Stacked(Rest(1)) /\ v.data \notin Named(variables)
  BY <1>1, <1>3, Takes1
<1>5. CASE name # None /\ t.type = "ARRAY" /\ Good(Mem, t)
  <2>1. name \in DOMAIN variables
    BY <1>5, LookupType
  <2>2. t.data \in DOMAIN heap /\ heap[t.data].kind = "ARRAY"
    BY <1>5, MemIs DEF Good
  <2>3. t.data \in Named(variables)
    <3>1. 0 \notin DOMAIN heap
      <4>1. DOMAIN heap = 1 .. Len(heap) /\ Len(heap) \in Nat
        BY ListType DEF Ready, Holds, Heaped
      <4> QED
        BY <4>1
    <3> QED
      BY <2>1, <2>2, <3>1 DEF Named
  <2>4. t.data \in Owners /\ v.data \in Owners \cup {0} /\ v.data # t.data
    BY <1>4, <2>3, MemKeeps DEF Owners
  <2>5. Holds(Mem.h, Owners) /\ DOMAIN Mem = {"h", "bad"} /\ Mem.h[t.data].kind = "ARRAY"
    BY <2>2, MemIs DEF Ready
  <2> HIDE DEF name, t, v
  <2>6. Placed(m, Owners, v)
    BY <1>4, <2>4, <2>5, PushPlaced
  <2> HIDE DEF m
  <2>7. /\ Struct(c.v)
        /\ ~c.m.bad => Holds(c.m.h, E \cup Data(c.v)) /\ c.v.data \notin E
    BY <1>4, <2>6, MemKeeps, PlacedCopy
  <2>8. Stacked(Rest(1)) \cup Named(variables) \subseteq E
    BY <1>4 DEF Owners
  <2> HIDE DEF c
  <2>9. Entry(e) /\ e.v = c.v
    BY <2>7, EntryType
  <2> HIDE DEF e, E
  <2>10. v2' = c.v => Struct(v2')
    BY <2>7
  <2>11. ~c.m.bad => Holds(c.m.h, E \cup Data(e.v)) /\ Entry(e) /\ e.v.data \notin E
    BY <2>7, <2>9
  <2>12. CASE stack' = Append(Rest(1), e) /\ v2' = c.v /\ Done(c.m) /\ UNCHANGED table
    BY <1>1, <1>4, <2>8, <2>10, <2>11, <2>12, PushStep
  <2> QED
    BY <1>2, <2>12, Halts
<1> HIDE DEF name, t, v, c, m, e, E
<1> QED
  BY <1>2, <1>5, Halts

\* ACCESS by an index: the stack gets a copy of the element, v2 keeps its
\* pointer.
LEMMA AccessIndexOwns ==
    ASSUME Ready, Supplied, AccessIndex
    PROVE  OInv'
<1> DEFINE t == variables[var_lookup_2(Name)]
           i == heap[Pop(0).data].val[2] + 1
           b == heap[t.data].slots[i]
           a == [v2 EXCEPT !.data = 0]
           found == i \in DOMAIN heap[t.data].slots /\ b # Hole
           c == op_copy(Mem, a, b)
           e == IF found THEN Tagged(c.v) ELSE Direct(Zeroed)
           m == IF found THEN c.m ELSE Mem
<1>1. todo # <<>> /\ status = "run" /\ Op = "ACCESS" /\ var_lookup_2(Name) # None
  BY DEF AccessIndex, At, Op
<1>2. \/ status' = "ub"
      \/ /\ Good(Mem, t) /\ stack' = Append(Rest(1), e)
         /\ v2' = (IF found THEN c.v ELSE a) /\ Done(m) /\ UNCHANGED table
  BY DEF AccessIndex, Undefined
<1>3. Arity = 1
  BY <1>1 DEF Arity
<1>4. OnStack(Rest(1)) /\ Stacked(Rest(1)) \subseteq Stacked(stack)
  BY <1>1, <1>3, Takes1
<1>5. CASE Good(Mem, t)
  <2>1. var_lookup_2(Name) \in DOMAIN variables
    BY <1>1, LookupType
  <2>2. t.data \in DOMAIN heap
    BY <1>5, MemIs DEF Good
  <2>3. t.data \in Owners
    <3>1. 0 \notin DOMAIN heap
      <4>1. DOMAIN heap = 1 .. Len(heap) /\ Len(heap) \in Nat
        BY ListType DEF Ready, Holds, Heaped
      <4> QED
        BY <4>1
    <3> QED
      BY <2>1, <2>2, <3>1 DEF Named, Owners
  <2>4. Struct(a) /\ a.data = 0
    BY DEF Ready, Struct
  <2> HIDE DEF t, i, a
  <2>5. ASSUME i \in DOMAIN heap[t.data].slots
        PROVE  Struct(b) /\ (b.data = 0 \/ Under(heap, Owners, b.data))
    <3>1. Heaped(heap)
      BY DEF Ready, Holds
    <3>2. Struct(b)
      BY <2>2, <2>5, <3>1 DEF Heaped, Cell, Pointer, Struct
    <3>3. t.data \in Reach(heap, t.data) /\ Closed(heap, Reach(heap, t.data))
      BY <2>2, <3>1, ReachLeast
    <3>4. b.data # 0 => b.data \in Reach(heap, t.data)
      BY <2>5, <3>3 DEF Closed, Below, Children, Range
    <3> QED
      BY <2>3, <3>2, <3>4 DEF Under
  <2> HIDE DEF b
  <2>6. CASE found
    <3>1. Keeps(c.m, Owners \cup Data(c.v)) /\ Struct(c.v) /\ c.v.data \notin Owners
      BY <2>4, <2>5, <2>6, CopyNew
    <3> HIDE DEF c
    <3>2. Entry(e) /\ e.v = c.v /\ m = c.m
      BY <2>6, <3>1, EntryType
    <3> HIDE DEF found, e, m
    <3>3. ~m.bad => Holds(m.h, Owners \cup Data(e.v)) /\ Entry(e) /\ e.v.data \notin Owners
      BY <3>1, <3>2 DEF Keeps
    <3>4. Stacked(Rest(1)) \cup Named(variables) \subseteq Owners
      BY <1>4 DEF Owners
    <3>5. v2' = (IF found THEN c.v ELSE a) => Struct(v2')
      BY <3>1, <2>4
    <3>6. CASE stack' = Append(Rest(1), e) /\ v2' = (IF found THEN c.v ELSE a) /\ Done(m) /\ UNCHANGED table
      BY <1>1, <1>4, <3>3, <3>4, <3>5, <3>6, PushStep
    <3> QED
      BY <1>2, <3>6, Halts
  <2>7. CASE ~found
    <3>1. Entry(e) /\ e.v = Zeroed /\ m = Mem
      BY <2>7, ZeroedType, EntryType
    <3> HIDE DEF c
    <3>2. v2' = (IF found THEN c.v ELSE a) => Struct(v2')
      BY <2>4, <2>7
    <3> HIDE DEF found, e, m
    <3>3. Data(e.v) = {} /\ e.v.data \notin Owners
      BY <3>1, ZeroedType, MemKeeps DEF Data
    <3>4. ~m.bad => Holds(m.h, Owners \cup Data(e.v)) /\ Entry(e) /\ e.v.data \notin Owners
      <4>1. Owners \cup Data(e.v) = Owners
        BY <3>3
      <4> QED
        BY <3>1, <3>3, <4>1, MemKeeps DEF Keeps
    <3>5. Stacked(Rest(1)) \cup Named(variables) \subseteq Owners
      BY <1>4 DEF Owners
    <3>6. CASE stack' = Append(Rest(1), e) /\ v2' = (IF found THEN c.v ELSE a) /\ Done(m) /\ UNCHANGED table
      BY <1>1, <1>4, <3>2, <3>4, <3>5, <3>6, PushStep
    <3> QED
      BY <1>2, <3>6, Halts
  <2> QED
    BY <2>6, <2>7
<1> HIDE DEF t, i, b, a, found, c, e, m
<1> QED
  BY <1>2, <1>5, Halts

\* ACCESS by a path: the stack and v2 get the same copy.
LEMMA AccessPathOwns ==
    ASSUME Ready, Supplied, CleanPath, AccessPath
    PROVE  OInv'
<1> DEFINE t == variables[var_lookup_2(Name)]
           at == var_apath(Mem, t, heap[Pop(0).data].val)
           c == IF at.how = "null" THEN [m |-> Mem, v |-> Zeroed] ELSE op_copy(Mem, v2, at.v)
           e == Tagged(c.v)
<1>1. /\ todo # <<>> /\ status = "run" /\ Op = "ACCESS" /\ var_lookup_2(Name) # None
      /\ At({"ACCESS"}) /\ Pop(0).type = "STRING"
  BY DEF AccessPath, At, Op
<1>2. \/ status' = "ub"
      \/ /\ Good(Mem, Pop(0)) /\ at.how # "wild" /\ stack' = Append(Rest(1), e)
         /\ v2' = c.v /\ Done(c.m) /\ UNCHANGED table
  BY DEF AccessPath, Undefined
<1>3. Arity = 1
  BY <1>1 DEF Arity
<1>4. OnStack(Rest(1)) /\ Stacked(Rest(1)) \subseteq Stacked(stack)
  BY <1>1, <1>3, Takes1
<1>5. CASE Good(Mem, Pop(0)) /\ at.how # "wild"
  <2>1. Struct(v2) /\ (at.how # "null" => v2.data = 0)
    BY <1>1, <1>5 DEF CleanPath, Ready
  <2>2. var_lookup_2(Name) \in DOMAIN variables
    BY <1>1, LookupType
  <2>3. Struct(t) /\ t.data \in Owners \cup {0}
    BY <2>2 DEF Ready, InTable, Named, Owners
  <2>4. Heaped(heap) /\ Holds(heap, Owners) /\ Mem.h = heap
    BY MemIs DEF Ready, Holds
  <2>5. List(heap[Pop(0).data].val)
    BY <1>1, <1>5, <2>4 DEF Good, Heaped, Cell
  <2>6. Within(heap, t, at)
    BY <2>4, <2>5, PathWithin
  <2> HIDE DEF t, at
  <2>7. at.how \in {"variable", "slot"} => Struct(at.v) /\ (at.v.data = 0 \/ Under(heap, Owners, at.v.data))
    <3>1. CASE at.how = "variable"
      <4>1. at.v = t
        BY <2>6, <3>1 DEF Within
      <4> QED
        BY <2>3, <2>4, <4>1, OwnerUnder
    <3>2. CASE at.how = "slot"
      <4>1. /\ t.data \in DOMAIN heap
            /\ at.a \in Reach(heap, t.data) /\ at.slot \in DOMAIN heap[at.a].slots
            /\ at.v = heap[at.a].slots[at.slot]
        BY <2>6, <3>2 DEF Within, Found
      <4>2. Reach(heap, t.data) \in SUBSET DOMAIN heap /\ Closed(heap, Reach(heap, t.data))
        BY <2>4, <4>1, ReachLeast
      <4>3. Struct(at.v)
        <5>1. at.a \in DOMAIN heap
          BY <4>1, <4>2
        <5> QED
          BY <2>4, <4>1, <5>1 DEF Heaped, Cell, Pointer, Struct
      <4>4. at.v.data # 0 => at.v.data \in Reach(heap, t.data)
        BY <4>1, <4>2 DEF Closed, Below, Children, Range
      <4>5. t.data \in Owners
        <5>1. 0 \notin DOMAIN heap
          <6>1. DOMAIN heap = 1 .. Len(heap) /\ Len(heap) \in Nat
            BY <2>4, ListType DEF Heaped
          <6> QED
            BY <6>1
        <5> QED
          BY <2>3, <4>1, <5>1
      <4> QED
        BY <4>3, <4>4, <4>5 DEF Under
    <3> QED
      BY <3>1, <3>2
  <2>8. at.how \in {"variable", "slot", "null"}
    BY <1>5, <2>6 DEF Within
  <2>9. Keeps(c.m, Owners \cup Data(c.v)) /\ Struct(c.v) /\ c.v.data \notin Owners
    <3>1. CASE at.how = "null"
      <4>1. c.m = Mem /\ c.v = Zeroed
        BY <3>1
      <4> HIDE DEF c
      <4>2. Data(c.v) = {}
        BY <4>1, ZeroedType DEF Data
      <4>3. Owners \cup Data(c.v) = Owners
        BY <4>2
      <4> QED
        BY <4>1, <4>3, ZeroedType, MemKeeps
    <3>2. CASE at.how # "null"
      <4>1. c = op_copy(Mem, v2, at.v)
        BY <3>2
      <4>2. Struct(at.v) /\ (at.v.data = 0 \/ Under(heap, Owners, at.v.data))
        BY <2>7, <2>8, <3>2
      <4> HIDE DEF c
      <4> QED
        BY <2>1, <3>2, <4>1, <4>2, CopyNew
    <3> QED
      BY <3>1, <3>2
  <2> HIDE DEF c
  <2>10. Entry(e) /\ e.v = c.v
    BY <2>9, EntryType
  <2> HIDE DEF e
  <2>11. ~c.m.bad => Holds(c.m.h, Owners \cup Data(e.v)) /\ Entry(e) /\ e.v.data \notin Owners
    BY <2>9, <2>10 DEF Keeps
  <2>12. Stacked(Rest(1)) \cup Named(variables) \subseteq Owners
    BY <1>4 DEF Owners
  <2>13. v2' = c.v => Struct(v2')
    BY <2>9
  <2>14. CASE stack' = Append(Rest(1), e) /\ v2' = c.v /\ Done(c.m) /\ UNCHANGED table
    BY <1>1, <1>4, <2>11, <2>12, <2>13, <2>14, PushStep
  <2> QED
    BY <1>2, <2>14, Halts
<1> HIDE DEF t, at, c, e
<1> QED
  BY <1>2, <1>5, Halts

\* ACCESS to what is no variable or by no index is an error.
LEMMA AccessFailsOwns ==
    ASSUME Ready, Supplied, AccessFails
    PROVE  OInv'
<1>1. todo # <<>> /\ status = "run" /\ Op = "ACCESS" /\ Error(1)
  BY DEF AccessFails, At, Op
<1> QED
  BY <1>1, Fails DEF Arity

-----------------------------------------------------------------------------
(* Operators.                                                               *)

\* array + array: the elements of the right one move to the left one, and the
\* right one is nobody's.
LEMMA JoinHolds ==
    ASSUME NEW m, DOMAIN m = {"h", "bad"}, NEW D, Holds(m.h, D), NEW a \in D, NEW b \in D, a # b,
           m.h[a].kind = "ARRAY", m.h[b].kind = "ARRAY"
    PROVE  Keeps(Join(m, a, b), D \ {b}) \/ Join(m, a, b).bad
<1> DEFINE o == m.h[a]
           p == m.h[b].slots
           all == o.slots \o p
           k == Len(o.slots)
           c == IF o.max_size < Len(all)
                THEN [o EXCEPT !.slots = all, !.max_size = Len(all), !.cap = Len(all)]
                ELSE [o EXCEPT !.slots = all]
           from == [i \in DOMAIN all |-> IF i <= k THEN <<a, i>> ELSE <<b, i - k>>]
<1>1. Join(m, a, b) = [m EXCEPT !.h[a] = c]
  BY DEF Join
<1>2. Cell(o, Len(m.h)) /\ Cell(m.h[b], Len(m.h))
  BY OwnedCell
<1>3. Shaped(c) /\ c.live = o.live /\ c.kind = o.kind /\ c.val = o.val /\ c.slots = all
  BY <1>2 DEF Cell, Shaped
<1>4. List(o.slots) /\ List(p)
  BY <1>2 DEF Cell
<1> HIDE DEF c
<1>5. /\ List(all) /\ Len(all) = k + Len(p) /\ DOMAIN all = 1 .. Len(all)
      /\ k \in Nat /\ Len(p) \in Nat /\ DOMAIN o.slots = 1 .. k /\ DOMAIN p = 1 .. Len(p)
      /\ \A i \in DOMAIN all : all[i] = IF i <= k THEN o.slots[i] ELSE p[i - k]
  BY <1>4, ListJoin, ListType
<1>6. from = [i \in DOMAIN all |-> from[i]] /\ \A i \in DOMAIN all : from[i] = IF i <= k THEN <<a, i>> ELSE <<b, i - k>>
  OBVIOUS
<1> HIDE DEF all, from
<1>7. \A i \in DOMAIN all :
        \/ i <= k /\ i \in DOMAIN o.slots /\ from[i] = <<a, i>> /\ all[i] = o.slots[i]
        \/ ~(i <= k) /\ i - k \in DOMAIN p /\ from[i] = <<b, i - k>> /\ all[i] = p[i - k]
  <2> SUFFICES ASSUME NEW i \in DOMAIN all
               PROVE  \/ i <= k /\ i \in DOMAIN o.slots /\ from[i] = <<a, i>> /\ all[i] = o.slots[i]
                      \/ ~(i <= k) /\ i - k \in DOMAIN p /\ from[i] = <<b, i - k>> /\ all[i] = p[i - k]
    OBVIOUS
  <2> HIDE DEF o, p, k
  <2>1. i \in 1 .. k + Len(p) /\ k \in Nat /\ Len(p) \in Nat
    BY <1>5
  <2>2. i <= k => i \in 1 .. k
    BY <2>1
  <2>3. ~(i <= k) => i - k \in 1 .. Len(p)
    BY <2>1
  <2>4. from[i] = (IF i <= k THEN <<a, i>> ELSE <<b, i - k>>) /\ all[i] = (IF i <= k THEN o.slots[i] ELSE p[i - k])
    BY <1>5, <1>6
  <2>5. DOMAIN o.slots = 1 .. k /\ DOMAIN p = 1 .. Len(p)
    BY <1>5
  <2> QED
    BY <2>2, <2>3, <2>4, <2>5
<1>8. \A i, j \in DOMAIN all : from[i] = from[j] => i = j
  <2> SUFFICES ASSUME NEW i \in DOMAIN all, NEW j \in DOMAIN all, from[i] = from[j] PROVE i = j
    OBVIOUS
  <2> HIDE DEF o, p, k
  <2>1. i \in Nat /\ j \in Nat /\ k \in Nat
    BY <1>5
  <2>2. CASE i <= k
    <3>1. from[i] = <<a, i>> /\ (from[j] = <<a, j>> \/ from[j] = <<b, j - k>>)
      BY <1>6, <2>2
    <3> QED
      BY <3>1
  <2>3. CASE ~(i <= k)
    <3>1. from[i] = <<b, i - k>> /\ (from[j] = <<a, j>> \/ from[j] = <<b, j - k>>)
      BY <1>6, <2>3
    <3>2. i - k = j - k
      BY <3>1
    <3> QED
      BY <2>1, <3>2
  <2> QED
    BY <2>2, <2>3
<1>9. Cell(c, Len(m.h))
  <2>1. \A s \in DOMAIN all : Pointer(all[s], Len(m.h))
    BY <1>2, <1>7 DEF Cell
  <2> HIDE DEF o, p
  <2> QED
    BY <1>2, <1>3, <1>5, <2>1, CellWith
<1>10. Holds([m.h EXCEPT ![a] = c], D \ {b})
  <2>1. \A i \in DOMAIN c.slots :
          \/ i \in DOMAIN m.h[a].slots /\ from[i] = <<a, i>> /\ c.slots[i] = m.h[a].slots[i]
          \/ \E j \in DOMAIN m.h[b].slots : from[i] = <<b, j>> /\ c.slots[i] = m.h[b].slots[j]
    BY <1>3, <1>7
  <2>2. \A i, j \in DOMAIN c.slots : from[i] = from[j] => i = j
    BY <1>3, <1>8
  <2>3. c.live = m.h[a].live
    BY <1>3
  <2> HIDE DEF o, p
  <2> QED
    BY <1>9, <2>1, <2>2, <2>3, MoveHolds
<1>11. DOMAIN [m EXCEPT !.h[a] = c] = {"h", "bad"} /\ [m EXCEPT !.h[a] = c].h = [m.h EXCEPT ![a] = c]
  OBVIOUS
<1> QED
  BY <1>1, <1>10, <1>11 DEF Keeps

\* A number that is overwritten.
LEMMA InPlaceKeeps ==
    ASSUME Ready, NEW x, NEW y, Good(Mem, x), x.type # "STRING"
    PROVE  Keeps(InPlace(x, y), Owners)
<1> DEFINE val == <<Op, heap[x.data].val, heap[y.data].val>>
<1>1. InPlace(x, y).h = [heap EXCEPT ![x.data].val = val] /\ DOMAIN InPlace(x, y) = {"h", "bad"}
  BY DEF InPlace, Mem
<1>2. heap[x.data].kind # "STRING" /\ Holds(heap, Owners)
  BY MemIs DEF Good, Ready
<1> HIDE DEF val
<1>3. Holds([heap EXCEPT ![x.data].val = val], Owners)
  BY <1>2, ValHolds
<1> QED
  BY <1>1, <1>3 DEF Keeps

\* What op_add reads of a string or a number is a string.
LEMMA TextList ==
    ASSUME Ready, NEW v, Good(Mem, v)
    PROVE  List(Text(v))
<1>1. CASE v.type = "STRING"
  <2>1. Heaped(heap) /\ v.data \in DOMAIN heap /\ heap[v.data].kind = "STRING"
    BY <1>1, MemIs DEF Ready, Holds, Good
  <2> QED
    BY <1>1, <2>1 DEF Heaped, Cell, Text
<1>2. CASE v.type # "STRING"
  <2> DEFINE w == Shown(heap[v.data].val)
  <2>1. Text(v) = <<w>>
    BY <1>2 DEF Text
  <2> HIDE DEF w
  <2>2. <<w>> \in Seq({w})
    OBVIOUS
  <2> QED
    BY <2>1, <2>2, ListOf
<1> QED
  BY <1>1, <1>2

\* Every binary operator but two cases of ADD overwrites the left number.
LEMMA OperatorCases ==
    ASSUME NEW x, NEW y, Readable(x, y), Takes(x, y), Op \in Binary,
           NEW r, r = IF Op = "ADD" THEN op_add(x, y) ELSE [m |-> InPlace(x, y), v1 |-> x, v2 |-> y]
    PROVE  \/ r = [m |-> InPlace(x, y), v1 |-> x, v2 |-> y] /\ x.type = "DOUBLE"
           \/ Op = "ADD" /\ {x.type, y.type} # {"DOUBLE"}
<1>1. CASE Op = "ADD"
  BY <1>1 DEF op_add
<1>2. CASE Op \in {"AND", "OR", "POW", "MOD"}
  <2>1. x.type = y.type /\ "DOUBLE" \in {x.type, y.type} /\ Op # "ADD"
    BY <1>2 DEF Readable, Takes
  <2> QED
    BY <2>1
<1>3. CASE Op \in {"SUB", "MUL", "DIV"}
  <2>1. {x.type, y.type} = {"DOUBLE"} /\ Op # "ADD"
    BY <1>3 DEF Takes
  <2> QED
    BY <2>1
<1> QED
  BY <1>1, <1>2, <1>3 DEF Binary

\* What an operator makes of its operands: once the right one is freed, the
\* left one has data of its own.
LEMMA Combined ==
    ASSUME Ready, NEW x, Struct(x), x.data \in Owners \cup {0}, NEW y, Struct(y), y.data \in Owners \cup {0},
           x.data # 0 => x.data # y.data, Readable(x, y), Takes(x, y), Op \in Binary,
           NEW E, E \subseteq Owners, x.data \notin E, y.data \notin E,
           NEW r, r = IF Op = "ADD" THEN op_add(x, y) ELSE [m |-> InPlace(x, y), v1 |-> x, v2 |-> y]
    PROVE  /\ Keeps(Free(r.m, <<r.v2>>), E \cup Data(r.v1))
           /\ Struct(r.v1) /\ Struct(r.v2) /\ r.v1.data \notin E
           /\ ~Free(r.m, <<r.v2>>).bad /\ Heaped(r.m.h)
<1>1. /\ Good(Mem, x) /\ Good(Mem, y) /\ x.data \in DOMAIN heap /\ y.data \in DOMAIN heap
      /\ heap[x.data].kind = x.type /\ heap[y.data].kind = y.type
  BY MemIs DEF Readable, Good
<1>2. 0 \notin DOMAIN heap
  <2>1. DOMAIN heap = 1 .. Len(heap) /\ Len(heap) \in Nat
    BY ListType DEF Ready, Holds, Heaped
  <2> QED
    BY <2>1
<1>3. x.data \in Owners /\ y.data \in Owners /\ x.data # y.data /\ x.data # 0
  BY <1>1, <1>2
<1>4. CASE r = [m |-> InPlace(x, y), v1 |-> x, v2 |-> y] /\ x.type = "DOUBLE"
  <2>1. Keeps(InPlace(x, y), Owners) /\ ~InPlace(x, y).bad
    BY <1>1, <1>4, InPlaceKeeps DEF InPlace, Mem
  <2>2. E \cup Data(x) \subseteq Owners /\ y.data \notin E \cup Data(x)
    BY <1>3 DEF Data
  <2>3. Keeps(Free(InPlace(x, y), <<y>>), E \cup Data(x)) /\ ~Free(InPlace(x, y), <<y>>).bad
    BY <2>1, <2>2, FreeOne
  <2>4. r.m = InPlace(x, y) /\ r.v1 = x /\ r.v2 = y
    BY <1>4
  <2>5. Heaped(r.m.h)
    BY <2>1, <2>4 DEF Keeps, Holds
  <2> QED
    BY <2>3, <2>4, <2>5
<1>5. CASE Op = "ADD" /\ {x.type, y.type} # {"DOUBLE"} /\ x.type = "ARRAY"
  <2> DEFINE w == [y EXCEPT !.data = 0]
  <2>1. r.m = Join(Mem, x.data, y.data) /\ r.v1 = x /\ r.v2 = w
    BY <1>5 DEF op_add
  <2>2. Struct(w) /\ w.data = 0
    BY DEF Struct
  <2> HIDE DEF w
  <2>3. y.type = "ARRAY"
    BY <1>5 DEF Takes
  <2>4. Keeps(r.m, Owners \ {y.data}) /\ ~r.m.bad
    <3>1. Holds(Mem.h, Owners) /\ DOMAIN Mem = {"h", "bad"} /\ Mem.h = heap /\ ~Mem.bad
      BY MemIs DEF Ready
    <3>2. Keeps(r.m, Owners \ {y.data}) \/ r.m.bad
      BY <1>1, <1>3, <1>5, <2>1, <2>3, <3>1, JoinHolds
    <3>3. r.m.bad = FALSE
      BY <2>1 DEF Join, Mem
    <3> QED
      BY <3>2, <3>3
  <2>5. E \cup Data(x) \subseteq Owners \ {y.data} /\ w.data \notin E \cup Data(x) /\ w.data \in (Owners \ {y.data}) \cup {0}
    BY <1>3, <2>2, MemKeeps DEF Data
  <2>6. Heaped(r.m.h)
    BY <2>4 DEF Keeps, Holds
  <2> QED
    BY <2>1, <2>2, <2>4, <2>5, <2>6, FreeOne
<1>6. CASE Op = "ADD" /\ {x.type, y.type} # {"DOUBLE"} /\ x.type # "ARRAY"
  <2> DEFINE w == [x EXCEPT !.type = "STRING", !.data = Len(heap) + 1]
             m == Free(Mem, <<x>>)
             text == Text(x) \o Text(y)
             D == Owners \ {x.data}
  <2>1. r.m = Allocate(m, <<Scalar("STRING", text)>>) /\ r.v1 = w /\ r.v2 = y
    BY <1>6 DEF op_add
  <2>2. Struct(w) /\ w.data = Len(heap) + 1
    BY DEF Struct
  <2>3. List(text)
    BY <1>1, TextList, ListJoin
  <2> HIDE DEF w, text
  <2>4. Keeps(m, D) /\ ~m.bad /\ Len(m.h) = Len(heap)
    <3>1. Keeps(m, D) /\ ~m.bad
      BY MemKeeps, MemIs, FreeOne
    <3>2. Mem.h = heap /\ Holds(heap, Owners)
      BY MemIs DEF Ready
    <3>3. \A i \in DOMAIN <<x>> : <<x>>[i].data \in Owners \cup {0} /\ <<x>>[i].data \notin D
      <4>1. DOMAIN <<x>> = {1} /\ <<x>>[1] = x
        OBVIOUS
      <4> QED
        BY <4>1
    <3>4. D \subseteq Owners
      OBVIOUS
    <3> HIDE DEF D
    <3>5. Len(m.h) = Len(heap)
      BY <3>2, <3>3, <3>4, FreeHolds
    <3> QED
      BY <3>1, <3>5
  <2> HIDE DEF m
  <2>5. Keeps(r.m, D \cup {Len(heap) + 1}) /\ ~r.m.bad
    <3>1. r.m.bad = m.bad
      BY <2>1, <2>4 DEF Allocate, Keeps
    <3> QED
      BY <2>1, <2>3, <2>4, <3>1, ScalarKeeps
  <2>6. /\ E \cup Data(w) \subseteq D \cup {Len(heap) + 1} /\ y.data \in (D \cup {Len(heap) + 1}) \cup {0}
        /\ y.data \notin E \cup Data(w) /\ w.data \notin E
    BY <1>3, <2>2, MemKeeps DEF Data
  <2>7. Heaped(r.m.h)
    BY <2>5 DEF Keeps, Holds
  <2> HIDE DEF D
  <2> QED
    BY <2>1, <2>2, <2>5, <2>6, <2>7, FreeOne
<1>7. \/ r = [m |-> InPlace(x, y), v1 |-> x, v2 |-> y] /\ x.type = "DOUBLE"
      \/ Op = "ADD" /\ {x.type, y.type} # {"DOUBLE"}
  BY OperatorCases
<1> QED
  BY <1>3, <1>4, <1>5, <1>6, <1>7

\* The binary operators: the left operand's entry goes back with the result,
\* the right one is freed.
LEMMA ArithmeticOwns ==
    ASSUME Ready, Supplied, Arithmetic
    PROVE  OInv'
<1> DEFINE x == Pop(1)
           y == Pop(0)
           r == IF Op = "ADD" THEN op_add(x, y) ELSE [m |-> InPlace(x, y), v1 |-> x, v2 |-> y]
           e == [stack[Len(stack) - 1] EXCEPT !.v = r.v1]
           m == Free(r.m, <<r.v2>>)
           E == Stacked(Rest(2)) \cup Named(variables)
<1>1. todo # <<>> /\ status = "run" /\ Op \in Binary
  BY DEF Arithmetic, At, Op
<1>2. \/ OInv'
      \/ status' = "ub"
      \/ /\ Takes(x, y) /\ Readable(x, y) /\ stack' = Append(Rest(2), e)
         /\ v2' = r.v2 /\ Done(m) /\ UNCHANGED table
  <2>1. \/ Error(2)
        \/ status' = "ub"
        \/ /\ Takes(x, y) /\ Readable(x, y) /\ stack' = Append(Rest(2), e)
           /\ v2' = r.v2 /\ Done(m) /\ UNCHANGED table
    BY DEF Arithmetic, Undefined
  <2>2. Error(2) => OInv'
    BY <1>1, Fails DEF Arity, Binary, Comparisons, Unary
  <2> QED
    BY <2>1, <2>2
<1>3. Arity = 2
  BY <1>1 DEF Arity, Binary, Unary
<1>4. /\ OnStack(Rest(2)) /\ Stacked(Rest(2)) \subseteq Stacked(stack)
      /\ Struct(x) /\ Struct(y) /\ Entry(stack[Len(stack) - 1])
      /\ x.data \in Owners \cup {0} /\ x.data \notin E
      /\ y.data \in Owners \cup {0} /\ y.data \notin E
      /\ y.data # 0 => y.data # x.data
  BY <1>1, <1>3, Takes2 DEF Owners
<1>5. E \subseteq Owners /\ (x.data # 0 => x.data # y.data)
  BY <1>4 DEF Owners
<1> HIDE DEF x, y
<1>6. CASE Takes(x, y) /\ Readable(x, y)
  <2> HIDE DEF E
  <2>1. r = IF Op = "ADD" THEN op_add(x, y) ELSE [m |-> InPlace(x, y), v1 |-> x, v2 |-> y]
    OBVIOUS
  <2> HIDE DEF r
  <2>2. Keeps(m, E \cup Data(r.v1)) /\ Struct(r.v1) /\ Struct(r.v2) /\ r.v1.data \notin E
    BY <1>1, <1>4, <1>5, <1>6, <2>1, Combined
  <2> HIDE DEF m
  <2>3. Entry(e) /\ e.v = r.v1
    BY <1>4, <2>2 DEF Entry
  <2> HIDE DEF e
  <2>4. v2' = r.v2 => Struct(v2')
    BY <2>2
  <2>5. ~m.bad => Holds(m.h, E \cup Data(e.v)) /\ Entry(e) /\ e.v.data \notin E
    BY <2>2, <2>3 DEF Keeps
  <2>6. CASE stack' = Append(Rest(2), e) /\ v2' = r.v2 /\ Done(m) /\ UNCHANGED table
    BY <1>1, <1>4, <2>4, <2>5, <2>6, PushStep DEF E
  <2> QED
    BY <1>2, <2>6, Halts
<1> HIDE DEF r, e, m, E
<1> QED
  BY <1>2, <1>6, Halts

\* A comparison gives a number of its own, both operands are freed.
LEMMA CompareOwns ==
    ASSUME Ready, Supplied, Compare
    PROVE  OInv'
<1> DEFINE x == Pop(1)
           y == Pop(0)
           unset == "UNSET" \in {x.type, y.type}
           term == IF unset THEN Lit(IF Op = "CMP" THEN 0 ELSE 1)
                   ELSE <<Op, heap[x.data].val, heap[y.data].val>>
           e == Direct(Fresh(Mem, "DOUBLE"))
           m == Free(Number(Mem, term), <<x, y>>)
           E == Stacked(Rest(2)) \cup Named(variables)
           n == Len(heap) + 1
<1>1. todo # <<>> /\ status = "run" /\ Op \in Comparisons
  BY DEF Compare, At, Op
<1>2. \/ OInv'
      \/ status' = "ub"
      \/ stack' = Append(Rest(2), e) /\ v2' = y /\ Done(m) /\ UNCHANGED table
  <2>1. \/ Error(2)
        \/ status' = "ub"
        \/ stack' = Append(Rest(2), e) /\ v2' = y /\ Done(m) /\ UNCHANGED table
    BY DEF Compare, Undefined
  <2>2. Error(2) => OInv'
    BY <1>1, Fails DEF Arity, Binary, Comparisons, Unary
  <2> QED
    BY <2>1, <2>2
<1>3. Arity = 2
  BY <1>1 DEF Arity, Comparisons, Binary, Unary
<1>4. /\ OnStack(Rest(2)) /\ Stacked(Rest(2)) \subseteq Stacked(stack)
      /\ Struct(x) /\ Struct(y)
      /\ x.data \in Owners \cup {0} /\ x.data \notin E
      /\ y.data \in Owners \cup {0} /\ y.data \notin E
  BY <1>1, <1>3, Takes2 DEF Owners
<1>5. E \subseteq Owners
  BY <1>4 DEF Owners
<1> HIDE DEF x, y, term
<1>6. Keeps(Number(Mem, term), Owners \cup {n})
  BY MemKeeps, ScalarKeeps DEF Number
<1>7. x.data # n /\ y.data # n /\ n # 0 /\ n \notin E
  BY <1>4, <1>5, MemKeeps
<1> HIDE DEF E, n
<1>8. Keeps(m, E \cup {n})
  <2>1. /\ E \cup {n} \subseteq Owners \cup {n}
        /\ x.data \in (Owners \cup {n}) \cup {0} /\ x.data \notin E \cup {n}
        /\ y.data \in (Owners \cup {n}) \cup {0} /\ y.data \notin E \cup {n}
    BY <1>4, <1>5, <1>7
  <2> QED
    BY <1>6, <2>1, FreeTwo
<1>9. Entry(e) /\ e.v.data = n
  BY FreshType, EntryType DEF n
<1> HIDE DEF m, e
<1>10. ~m.bad => Holds(m.h, E \cup Data(e.v)) /\ Entry(e) /\ e.v.data \notin E
  <2>1. Data(e.v) = {n}
    BY <1>7, <1>9 DEF Data
  <2> QED
    BY <1>7, <1>8, <1>9, <2>1 DEF Keeps
<1>11. CASE stack' = Append(Rest(2), e) /\ v2' = y /\ Done(m) /\ UNCHANGED table
  BY <1>1, <1>4, <1>10, <1>11, PushStep DEF E
<1> QED
  BY <1>2, <1>11, Halts

\* The unary operators write to the operand and, ++ and --, to the variable it
\* was copied from; no pointer changes.
LEMMA ChangeOwns ==
    ASSUME Ready, Supplied, Change
    PROVE  OInv'
<1> DEFINE v == Pop(0)
           new == IF v.type = "STRING" THEN Reverse(heap[v.data].val) ELSE <<Op, heap[v.data].val>>
           also == IF Target(v) = None THEN v ELSE variables[Target(v)]
           g == [heap EXCEPT ![v.data].val = new]
           f == [g EXCEPT ![also.data].val = new]
           m == [Mem EXCEPT !.h = [@ EXCEPT ![v.data].val = new, ![also.data].val = new]]
<1>1. todo # <<>> /\ status = "run"
  BY DEF Change, At
<1>2. \/ OInv'
      \/ status' = "ub"
      \/ /\ Good(Mem, v) /\ Good(Mem, also) /\ heap[also.data].kind = v.type
         /\ Done(m) /\ UNCHANGED <<table, stack, v2>>
  <2>1. \/ Error(0)
        \/ status' = "ub"
        \/ /\ Good(Mem, v) /\ Good(Mem, also) /\ heap[also.data].kind = v.type
           /\ Done(m) /\ UNCHANGED <<table, stack, v2>>
    BY DEF Change, Undefined
  <2>2. Error(0) => OInv'
    BY <1>1, Fails
  <2> QED
    BY <2>1, <2>2
<1>3. CASE Good(Mem, v) /\ Good(Mem, also) /\ heap[also.data].kind = v.type
  <2>1. v.data \in DOMAIN heap /\ heap[v.data].kind = v.type /\ Heaped(heap) /\ Holds(heap, Owners)
    BY <1>3, MemIs DEF Good, Ready, Holds
  <2>2. v.type = "STRING" => List(new)
    <3>1. v.type = "STRING" => List(heap[v.data].val)
      BY <2>1 DEF Heaped, Cell
    <3>2. ASSUME NEW s, List(s) PROVE List(Reverse(s))
      <4>1. Reverse(s) = [i \in 1 .. Len(s) |-> Reverse(s)[i]] /\ Len(s) \in Nat
        BY <3>2, ListType DEF Reverse
      <4> QED
        BY <4>1, ListOn
    <3> QED
      BY <3>1, <3>2
  <2> HIDE DEF v, new, also
  <2>3. m.h = f /\ DOMAIN m = {"h", "bad"} /\ ~m.bad
    BY DEF Mem
  <2>4. Holds(g, Owners)
    BY <2>1, <2>2, ValHolds
  <2>5. also.data \in DOMAIN g /\ g[also.data].kind = "STRING" => List(new)
    <3>1. also.data \in DOMAIN g => also.data \in DOMAIN heap
      OBVIOUS
    <3>2. also.data \in DOMAIN heap => heap[also.data].kind = g[also.data].kind
      <4>1. v.data \in DOMAIN heap /\ "kind" \in DOMAIN heap[v.data]
        BY <2>1 DEF Heaped, Cell, Shaped
      <4> QED
        BY <4>1
    <3> QED
      BY <1>3, <2>2, <3>1, <3>2
  <2> HIDE DEF g, m
  <2>6. Holds(f, Owners)
    BY <2>4, <2>5, ValHolds
  <2>7. Keeps(m, Owners)
    BY <2>3, <2>6 DEF Keeps
  <2>8. OnStack(stack) /\ Struct(v2) /\ Owners = Stacked(stack) \cup Named(variables)
    BY DEF Ready, Owners
  <2>9. CASE Done(m) /\ UNCHANGED <<table, stack, v2>>
    BY <1>1, <2>7, <2>8, <2>9, PopStep
  <2> QED
    BY <1>2, <2>9, Halts
<1> HIDE DEF v, new, also, g, f, m
<1> QED
  BY <1>2, <1>3, Halts

\* A function of a cocoon: its arguments are freed, the result is its own.
LEMMA XCallOwns ==
    ASSUME Ready, Supplied, XCall
    PROVE  OInv'
<1> DEFINE n == Head(todo).n
           args == [i \in 1 .. n |-> stack[Len(stack) - n + i].v]
           made == Allocate(Mem, <<Scalar(Literal.type, Literal.val)>>)
           e == Tagged(Fresh(Mem, Literal.type))
           m == Free(made, args)
           E == Stacked(Rest(n)) \cup Named(variables)
           a == Len(heap) + 1
<1>1. todo # <<>> /\ status = "run" /\ Op = "XCALL"
  BY DEF XCall, At, Op
<1>2. \/ stack' = Append(Rest(n), e) /\ v2' = v2 /\ Done(m) /\ UNCHANGED table
      \/ /\ status' = "error" /\ stack' = Rest(n) /\ heap' = Free(Mem, args).h
         /\ UNCHANGED <<todo, table, v2>>
  BY DEF XCall
<1>3. n \in 0 .. Len(stack)
  BY <1>1 DEF Supplied, Arity, Binary, Comparisons, Unary
<1>4. /\ OnStack(Rest(n)) /\ Stacked(Rest(n)) \subseteq Stacked(stack)
      /\ \A i \in 0 .. n - 1 :
           Pop(i).data \in Stacked(stack) \cup {0} /\ Pop(i).data \notin Stacked(Rest(n)) /\ Pop(i).data \notin Named(variables)
  BY <1>3, OperandsTaken
<1>5. Len(stack) \in Nat /\ Struct(v2)
  BY ListType DEF Ready, OnStack
<1> HIDE DEF n
<1>6. \A i \in DOMAIN args : args[i].data \in Stacked(stack) \cup {0} /\ args[i].data \notin E
  <2> SUFFICES ASSUME NEW i \in 1 .. n
               PROVE  args[i].data \in Stacked(stack) \cup {0} /\ args[i].data \notin E
    OBVIOUS
  <2>1. n - i \in 0 .. n - 1 /\ Len(stack) - n + i = Len(stack) - (n - i)
    BY <1>3, <1>5
  <2>2. args[i] = Pop(n - i)
    BY <2>1 DEF Pop
  <2> HIDE DEF args
  <2> QED
    BY <1>4, <2>1, <2>2
<1>7. Literal.type # "ARRAY" /\ (Literal.type = "STRING" => List(Literal.val))
  <2>1. TreeInstruction(Head(todo))
    BY <1>1, NextInstruction
  <2> QED
    BY <1>1, <2>1 DEF TreeInstruction, Op, Literal
<1>8. Keeps(made, Owners \cup {a})
  BY <1>7, MemKeeps, ScalarKeeps
<1>9. a # 0 /\ a \notin Owners /\ E \subseteq Owners
  BY <1>4, MemKeeps DEF Owners
<1> HIDE DEF args, made, a, E
<1>10. Keeps(m, E \cup {a})
  <2>1. /\ E \cup {a} \subseteq Owners \cup {a}
        /\ \A i \in DOMAIN args : args[i].data \in (Owners \cup {a}) \cup {0} /\ args[i].data \notin E \cup {a}
    BY <1>6, <1>9 DEF Owners
  <2> QED
    BY <1>8, <2>1, FreeKeeps
<1>11. Entry(e) /\ e.v.data = a
  BY FreshType, EntryType DEF a
<1> HIDE DEF m, e
<1>12. ~m.bad => Holds(m.h, E \cup Data(e.v)) /\ Entry(e) /\ e.v.data \notin E
  <2>1. Data(e.v) = {a}
    BY <1>9, <1>11 DEF Data
  <2> QED
    BY <1>9, <1>10, <1>11, <2>1 DEF Keeps
<1>13. CASE stack' = Append(Rest(n), e) /\ v2' = v2 /\ Done(m) /\ UNCHANGED table
  BY <1>1, <1>4, <1>5, <1>12, <1>13, PushStep DEF E
<1>14. CASE /\ status' = "error" /\ stack' = Rest(n) /\ heap' = Free(Mem, args).h
            /\ UNCHANGED <<todo, table, v2>>
  <2>1. E \subseteq Owners
    BY <1>4 DEF E, Owners
  <2>2. \A i \in DOMAIN args : args[i].data \in Owners \cup {0} /\ args[i].data \notin E
    BY <1>6 DEF Owners
  <2>3. Holds(Free(Mem, args).h, E)
    BY <2>1, <2>2, MemIs, FreeHolds DEF Ready
  <2>4. variables' = variables /\ chain' = chain /\ Owners' = E
    BY <1>14 DEF table, Owners, E
  <2>5. Holds(heap', Owners')
    BY <1>14, <2>3, <2>4
  <2>6. Stacked(stack') \cap Named(variables) = {}
    BY <1>4, <1>14, MemKeeps
  <2> QED
    BY <1>4, <1>14, <2>4, <2>5, <2>6 DEF OInv, Ready
<1> QED
  BY <1>2, <1>13, <1>14

-----------------------------------------------------------------------------
(* Blocks.                                                                  *)

\* REVERSE_STACK turns the arguments round; CALL leaves the stack alone.
LEMMA ReverseCallOwn ==
    ASSUME Ready, Supplied, ReverseStack \/ Call
    PROVE  OInv'
<1>1. todo # <<>> /\ status = "run" /\ UNCHANGED <<table, v2>> /\ Done(Mem) /\ Struct(v2) /\ OnStack(stack)
  BY DEF ReverseStack, Call, At, Ready
<1>2. OnStack(stack') /\ Stacked(stack') \subseteq Stacked(stack)
  <2>1. CASE ReverseStack
    <3> DEFINE n == Head(todo).n
    <3>1. Op = "REVERSE_STACK" /\ stack' = Rest(n) \o Reverse(SubSeq(stack, Len(stack) - n + 1, Len(stack)))
      BY <2>1 DEF ReverseStack, At, Op
    <3>2. n \in 0 .. Len(stack)
      BY <1>1, <3>1 DEF Supplied, Arity, Binary, Comparisons, Unary
    <3> HIDE DEF n
    <3> QED
      BY <1>1, <3>1, <3>2, Turned DEF Rest
  <2>2. CASE Call
    BY <1>1, <2>2 DEF Call
  <2> QED
    BY <2>1, <2>2
<1>3. Stacked(stack') \cup Named(variables) \subseteq Owners
  BY <1>2 DEF Owners
<1>4. Keeps(Mem, Stacked(stack') \cup Named(variables))
  BY <1>3, MemKeeps, KeepsLess
<1> QED
  BY <1>1, <1>2, <1>4, PopStep

\* PARAM: the name gets a copy of the argument, whose own data are nobody's.
LEMMA ParamOwns ==
    ASSUME Ready, Supplied, Param
    PROVE  OInv'
<1> DEFINE c == op_copy(Mem, Old(Name), Pop(0))
           E == Stacked(Rest(1)) \cup (Named(variables) \ {Old(Name).data}) \cup Data(c.v)
<1>1. todo # <<>> /\ status = "run" /\ Struct(v2)
  BY DEF Param, At, Ready
<1>2. \/ OInv'
      \/ status' = "ub"
      \/ /\ stack # <<>> /\ chain' = Added(Name) /\ variables' = With(Name, c.v)
         /\ stack' = Rest(1) /\ v2' = v2 /\ Done(c.m)
  <2>1. \/ Error(0)
        \/ status' = "ub"
        \/ /\ stack # <<>> /\ chain' = Added(Name) /\ variables' = With(Name, c.v)
           /\ stack' = Rest(1) /\ v2' = v2 /\ Done(c.m)
    BY DEF Param, Undefined
  <2>2. Error(0) => OInv'
    BY <1>1, Fails
  <2> QED
    BY <2>1, <2>2
<1>3. CASE stack # <<>>
  <2>1. 1 \in 0 .. Len(stack)
    <3>1. stack \in Seq(Range(stack)) /\ Len(stack) \in Nat
      BY DEF Ready, OnStack, List
    <3> QED
      BY <1>3, <3>1
  <2>2. /\ OnStack(Rest(1)) /\ Stacked(Rest(1)) \subseteq Stacked(stack) /\ Struct(Pop(0))
        /\ Pop(0).data \in Stacked(stack) \cup {0}
    BY <2>1, OperandsTaken
  <2>3. /\ Keeps(c.m, (Owners \ {Old(Name).data}) \cup Data(c.v))
        /\ Struct(c.v) /\ c.v.data \notin Owners \ {Old(Name).data}
    BY <2>2, CopyInto
  <2>4. Old(Name).data \notin Stacked(stack)
    BY OldType
  <2> HIDE DEF c
  <2>5. E \subseteq (Owners \ {Old(Name).data}) \cup Data(c.v)
    BY <2>2, <2>4 DEF Owners
  <2>6. Keeps(c.m, E)
    BY <2>3, <2>5, KeepsLess
  <2> QED
    BY <1>1, <1>2, <2>2, <2>3, <2>6, Halts, CopyStep DEF E
<1> HIDE DEF c, E
<1> QED
  BY <1>2, <1>3, Halts

\* PARAMX: the name gets a copy of the argument or of the default, both of
\* which are freed.
LEMMA ParamDefaultOwns ==
    ASSUME Ready, Supplied, ParamDefault
    PROVE  OInv'
<1> DEFINE arg == IF Len(stack) > 1 THEN Pop(1) ELSE Zeroed
           b == IF arg.type # "UNSET" /\ param_count > 0 THEN arg ELSE Pop(0)
           c == op_copy(Mem, Old(Name), b)
           n == Min({2, Len(stack)})
           m == Free(c.m, <<Pop(0), arg>>)
           E == Stacked(Rest(n)) \cup (Named(variables) \ {Old(Name).data}) \cup Data(c.v)
           F == (Owners \ {Old(Name).data}) \cup Data(c.v)
<1>1. todo # <<>> /\ status = "run" /\ Op = "PARAMX"
  BY DEF ParamDefault, At, Op
<1>2. /\ chain' = Added(Name) /\ variables' = With(Name, c.v) /\ stack' = Rest(n) /\ v2' = arg
      /\ Done(m)
  BY DEF ParamDefault
<1>3. 1 \in 0 .. Len(stack) /\ Len(stack) \in Nat
  <2>1. Len(stack) \in Nat
    BY ListType DEF Ready, OnStack
  <2> QED
    BY <1>1, <2>1 DEF Supplied, Arity
<1>4. n = IF Len(stack) > 1 THEN 2 ELSE 1
  <2>1. CASE Len(stack) > 1
    BY <1>3, <2>1 DEF Min
  <2>2. CASE ~(Len(stack) > 1)
    <3>1. \A k \in Nat : 1 \in 0 .. k /\ ~(k > 1) => k = 1
      OBVIOUS
    <3>2. Len(stack) = 1
      BY <1>3, <2>2, <3>1
    <3> QED
      BY <2>2, <3>2 DEF Min
  <2> QED
    BY <2>1, <2>2
<1>5. /\ OnStack(Rest(n)) /\ Stacked(Rest(n)) \subseteq Stacked(stack)
      /\ \A v \in {Pop(0), arg} :
           /\ Struct(v) /\ v.data \in Stacked(stack) \cup {0}
           /\ v.data \notin Stacked(Rest(n)) /\ v.data \notin Named(variables)
  <2>1. n \in 0 .. Len(stack) /\ n \in {1, 2}
    BY <1>3, <1>4
  <2>2. 0 \in 0 .. n - 1 /\ (Len(stack) > 1 => 1 \in 0 .. n - 1)
    BY <1>4, <2>1
  <2> HIDE DEF n
  <2>3. /\ OnStack(Rest(n)) /\ Stacked(Rest(n)) \subseteq Stacked(stack)
        /\ \A i \in 0 .. n - 1 :
             /\ Struct(Pop(i)) /\ Pop(i).data \in Stacked(stack) \cup {0}
             /\ Pop(i).data \notin Stacked(Rest(n)) /\ Pop(i).data \notin Named(variables)
    BY <2>1, OperandsTaken
  <2>4. /\ Struct(Zeroed) /\ Zeroed.data \in Stacked(stack) \cup {0}
        /\ Zeroed.data \notin Stacked(Rest(n)) /\ Zeroed.data \notin Named(variables)
    BY <2>3, ZeroedType, MemKeeps
  <2> QED
    BY <2>2, <2>3, <2>4
<1> HIDE DEF arg, n
<1>6. Struct(b) /\ b.data \in Stacked(stack) \cup {0}
  BY <1>5
<1> HIDE DEF b
<1>7. Keeps(c.m, F) /\ Struct(c.v) /\ c.v.data \notin Owners \ {Old(Name).data}
  BY <1>6, CopyInto
<1>8. Old(Name).data \notin Stacked(stack) /\ 0 \notin Stacked(stack) /\ 0 \notin Named(variables)
  BY OldType, MemKeeps
<1> HIDE DEF c
<1>9. /\ E \subseteq F
      /\ \A v \in {Pop(0), arg} : v.data \in F \cup {0} /\ v.data \notin E
  <2>1. Stacked(stack) \subseteq F /\ Data(c.v) = {c.v.data} \ {0}
    BY <1>8 DEF Owners, Data
  <2>2. c.v.data \notin Stacked(stack)
    BY <1>7, <1>8 DEF Owners
  <2>3. E \subseteq F
    BY <1>5, <2>1 DEF Owners
  <2> QED
    BY <1>5, <2>1, <2>2, <2>3
<1> HIDE DEF F
<1>10. Keeps(m, E)
  BY <1>7, <1>9, FreeTwo
<1>11. Struct(v2')
  BY <1>2, <1>5
<1> HIDE DEF m
<1> QED
  BY <1>1, <1>2, <1>5, <1>7, <1>10, <1>11, CopyStep DEF E

\* RETURN: of the entries of its level only the result stays.
LEMMA ReturnOwns ==
    ASSUME Ready, Return
    PROVE  OInv'
<1>1. todo # <<>> /\ Struct(v2) /\ v2' = v2 /\ UNCHANGED table /\ OnStack(stack)
  BY DEF Return, At, Ready
<1>2. CASE stack = <<>>
  <2> DEFINE e == Direct(Fresh(Mem, "DOUBLE"))
             m == Number(Mem, Lit(0))
             a == Len(heap) + 1
  <2>1. stack' = Append(stack, e) /\ Done(m)
    BY <1>2 DEF Return
  <2>2. Keeps(m, Owners \cup {a})
    BY MemKeeps, ScalarKeeps DEF Number
  <2>3. Entry(e) /\ e.v.data = a /\ a # 0 /\ a \notin Owners
    BY FreshType, EntryType, MemKeeps
  <2> HIDE DEF a, e, m
  <2>4. Data(e.v) = {a}
    BY <2>3 DEF Data
  <2>5. ~m.bad => Holds(m.h, Owners \cup Data(e.v)) /\ Entry(e) /\ e.v.data \notin Owners
    BY <2>2, <2>3, <2>4 DEF Keeps
  <2>6. Stacked(stack) \cup Named(variables) \subseteq Owners
    BY DEF Owners
  <2> QED
    BY <1>1, <2>1, <2>5, <2>6, PushStep
<1>3. CASE stack # <<>>
  <2> DEFINE e == [stack[Len(stack)] EXCEPT !.v.ref = None]
             s == Cleared(Rest(1))
             m == Free(Mem, Garbage(Rest(1)))
             E == Stacked(s) \cup Named(variables)
             F == E \cup Data(e.v)
  <2>1. stack' = Append(s, e) /\ Done(m)
    BY <1>3 DEF Return
  <2>2. 1 \in 0 .. Len(stack) /\ Len(stack) - 0 = Len(stack)
    <3>1. stack \in Seq(Range(stack)) /\ Len(stack) \in Nat
      BY <1>1 DEF OnStack, List
    <3> QED
      BY <1>3, <3>1
  <2>3. /\ OnStack(Rest(1)) /\ Stacked(Rest(1)) \subseteq Stacked(stack) /\ Entry(stack[Len(stack)])
        /\ Pop(0) = stack[Len(stack)].v /\ Pop(0).data \in Stacked(stack) \cup {0}
        /\ Pop(0).data \notin Stacked(Rest(1)) /\ Pop(0).data \notin Named(variables)
    <3>1. /\ OnStack(Rest(1)) /\ Stacked(Rest(1)) \subseteq Stacked(stack)
          /\ Entry(stack[Len(stack) - 0])
          /\ Pop(0).data \in Stacked(stack) \cup {0}
          /\ Pop(0).data \notin Stacked(Rest(1)) /\ Pop(0).data \notin Named(variables)
      BY <2>2, OperandsTaken
    <3> QED
      BY <2>2, <3>1 DEF Pop
  <2>4. Entry(e) /\ e.v.data = Pop(0).data
    BY <2>3 DEF Entry, Struct
  <2> HIDE DEF e
  <2>5. /\ OnStack(s) /\ Stacked(s) \subseteq Stacked(Rest(1))
        /\ \A i \in DOMAIN Garbage(Rest(1)) :
             /\ Garbage(Rest(1))[i].data \in Stacked(Rest(1)) \cup {0}
             /\ Garbage(Rest(1))[i].data \notin Stacked(s)
    BY <2>3, ClearedOff
  <2> HIDE DEF s
  <2>6. /\ F \subseteq Owners
        /\ \A i \in DOMAIN Garbage(Rest(1)) :
             Garbage(Rest(1))[i].data \in Owners \cup {0} /\ Garbage(Rest(1))[i].data \notin F
    <3>1. Stacked(stack) \cap Named(variables) = {} /\ 0 \notin Stacked(stack) /\ 0 \notin Named(variables)
      BY MemKeeps
    <3>2. Data(e.v) = {Pop(0).data} \ {0} /\ 0 \notin Stacked(s)
      BY <2>3, <2>4, <2>5, <3>1 DEF Data
    <3> QED
      BY <2>3, <2>5, <3>1, <3>2 DEF Owners
  <2> HIDE DEF F
  <2>7. Keeps(m, F)
    BY <2>6, MemKeeps, FreeKeeps
  <2> HIDE DEF m, E
  <2>8. e.v.data \notin E
    BY <2>3, <2>4, <2>5 DEF E
  <2>9. ~m.bad => Holds(m.h, E \cup Data(e.v)) /\ Entry(e) /\ e.v.data \notin E
    BY <2>4, <2>7, <2>8 DEF Keeps, F
  <2>10. Stacked(s) \subseteq Stacked(stack) /\ Stacked(s) \cup Named(variables) \subseteq E
    BY <2>3, <2>5 DEF E
  <2> QED
    BY <1>1, <2>1, <2>5, <2>9, <2>10, PushStep
<1> QED
  BY <1>2, <1>3

\* BLOCK_END: the entries of its level are freed, the result is a number.
LEMMA EndBlockOwns ==
    ASSUME Ready, EndBlock
    PROVE  OInv'
<1> DEFINE e == Tagged(Fresh(Mem, "DOUBLE"))
           a == Len(heap) + 1
           s == Cleared(stack)
           m == Free(Number(Mem, Lit(0)), Garbage(stack))
           E == Stacked(s) \cup Named(variables)
<1>1. todo # <<>> /\ Struct(v2) /\ v2' = v2 /\ UNCHANGED table /\ OnStack(stack)
      /\ stack' = Append(s, e) /\ Done(m)
  BY DEF EndBlock, At, Ready
<1>2. /\ OnStack(s) /\ Stacked(s) \subseteq Stacked(stack)
      /\ \A i \in DOMAIN Garbage(stack) :
           /\ Garbage(stack)[i].data \in Stacked(stack) \cup {0}
           /\ Garbage(stack)[i].data \notin Stacked(s)
  BY <1>1, ClearedOff
<1>3. Keeps(Number(Mem, Lit(0)), Owners \cup {a})
  BY MemKeeps, ScalarKeeps DEF Number
<1>4. Entry(e) /\ e.v.data = a /\ a # 0 /\ a \notin Owners
  BY FreshType, EntryType, MemKeeps
<1> HIDE DEF a, e, s
<1>5. /\ E \cup {a} \subseteq Owners \cup {a}
      /\ \A i \in DOMAIN Garbage(stack) :
           Garbage(stack)[i].data \in (Owners \cup {a}) \cup {0} /\ Garbage(stack)[i].data \notin E \cup {a}
  BY <1>2, <1>4, MemKeeps DEF Owners
<1> HIDE DEF E
<1>6. Keeps(m, E \cup {a})
  BY <1>3, <1>5, FreeKeeps
<1>7. Data(e.v) = {a} /\ a \notin E
  BY <1>2, <1>4 DEF Data, E, Owners
<1> HIDE DEF m
<1>8. ~m.bad => Holds(m.h, E \cup Data(e.v)) /\ Entry(e) /\ e.v.data \notin E
  BY <1>4, <1>6, <1>7 DEF Keeps
<1> QED
  BY <1>1, <1>2, <1>8, PushStep DEF E

-----------------------------------------------------------------------------
(* The whole.                                                               *)

\* The next statement is read, or the program ends.
LEMMA EndsOwn ==
    ASSUME Ready, TreeLiterals, NextStatement \/ Finish \/ Stop \/ Ended \/ UNCHANGED vars
    PROVE  OInv'
<1>1. CASE NextStatement
  <2>1. TreeCode(todo')
    BY <1>1 DEF NextStatement, TreeLiterals
  <2>2. UNCHANGED <<heap, table, stack, v2>>
    BY <1>1 DEF NextStatement
  <2> QED
    BY <2>1, <2>2 DEF OInv, Ready, Owners, table
<1>2. CASE Finish
  <2>1. /\ heap' = Free(Mem, Garbage(stack)).h /\ stack' = Cleared(stack)
        /\ UNCHANGED <<todo, table, v2>>
    BY <1>2 DEF Finish
  <2>2. OnStack(stack)
    BY DEF Ready
  <2>3. /\ OnStack(Cleared(stack)) /\ Stacked(Cleared(stack)) \subseteq Stacked(stack)
        /\ \A i \in DOMAIN Garbage(stack) :
             /\ Garbage(stack)[i].data \in Stacked(stack) \cup {0}
             /\ Garbage(stack)[i].data \notin Stacked(Cleared(stack))
    BY <2>2, ClearedOff
  <2> DEFINE E == Stacked(Cleared(stack)) \cup Named(variables)
  <2>4. /\ E \subseteq Owners
        /\ \A i \in DOMAIN Garbage(stack) : Garbage(stack)[i].data \in Owners \cup {0} /\ Garbage(stack)[i].data \notin E
    BY <2>3, MemKeeps DEF Owners
  <2>5. variables' = variables /\ chain' = chain /\ Owners' = E
    BY <2>1 DEF table, Owners
  <2> HIDE DEF E
  <2>6. Holds(Free(Mem, Garbage(stack)).h, E)
    BY <2>4, MemIs, FreeHolds DEF Ready
  <2>7. Holds(heap', Owners')
    BY <2>1, <2>5, <2>6
  <2>8. Stacked(stack') \cap Named(variables) = {}
    BY <2>1, <2>3, MemKeeps
  <2> QED
    BY <2>1, <2>3, <2>5, <2>7, <2>8 DEF OInv, Ready
<1>3. CASE Stop
  <2>1. status' \in {"ub", "stopped"}
    BY <1>3 DEF Stop
  <2> QED
    BY <2>1, Halts
<1>4. CASE Ended \/ UNCHANGED vars
  <2>1. UNCHANGED vars
    BY <1>4 DEF Ended
  <2> QED
    BY <2>1 DEF vars, OInv, Ready, Owners, table
<1> QED
  BY <1>1, <1>2, <1>3, <1>4

\* After an error or the end nothing happens but larva_stop.
LEMMA NoneRuns ==
    ASSUME status # "run", [Next]_vars
    PROVE  UNCHANGED vars \/ Stop
<1>1. CASE UNCHANGED vars \/ Ended
  BY <1>1 DEF Ended
<1>2. CASE ~(UNCHANGED vars \/ Ended \/ Stop)
  <2>1. status = "run"
    BY <1>2 DEF Next, AsVar, AsConstant, Show, ClearStack, Declare, DeclareWith, Assign, SetElem,
       AddElem, AccessIndex, AccessPath, AccessFails, Arithmetic, Compare, Change, XCall, ReverseStack,
       Call, Param, ParamDefault, Return, EndBlock, NextStatement, Finish, At
  <2> QED
    BY <2>1
<1> QED
  BY <1>1, <1>2

\* Every step keeps the invariant.
LEMMA StepOwns ==
    ASSUME OInv, TreeLiterals, Supplied, CleanPath, [Next]_vars
    PROVE  OInv'
<1>1. CASE status # "run"
  <2>1. CASE UNCHANGED vars
    BY <2>1 DEF vars, OInv, Ready, Owners, table
  <2>2. CASE Stop
    <3>1. status' \in {"ub", "stopped"}
      BY <2>2 DEF Stop
    <3> QED
      BY <3>1, Halts
  <2> QED
    BY <1>1, <2>1, <2>2, NoneRuns
<1>2. CASE status = "run"
  <2>1. Ready
    BY <1>2 DEF OInv
  <2>2. CASE AsVar \/ AsConstant \/ Show \/ ClearStack \/ Declare \/ DeclareWith \/ Assign
    BY <2>1, <2>2, AsVarOwns, AsConstantOwns, TakersOwn, VariablesOwn
  <2>3. CASE SetElem \/ AddElem \/ AccessIndex \/ AccessPath \/ AccessFails
    BY <2>1, <2>3, SetElemOwns, AddElemOwns, AccessIndexOwns, AccessPathOwns, AccessFailsOwns
  <2>4. CASE Arithmetic \/ Compare \/ Change \/ XCall
    BY <2>1, <2>4, ArithmeticOwns, CompareOwns, ChangeOwns, XCallOwns
  <2>5. CASE ReverseStack \/ Call \/ Param \/ ParamDefault \/ Return \/ EndBlock
    BY <2>1, <2>5, ReverseCallOwn, ParamOwns, ParamDefaultOwns, ReturnOwns, EndBlockOwns
  <2>6. CASE NextStatement \/ Finish \/ Stop \/ Ended \/ UNCHANGED vars
    BY <2>1, <2>6, EndsOwn
  <2> QED
    BY <2>2, <2>3, <2>4, <2>5, <2>6 DEF Next
<1> QED
  BY <1>1, <1>2

\* Nothing is owned at the beginning.
LEMMA InitOwns ==
    ASSUME TreeLiterals, Init
    PROVE  OInv
<1>1. <<>> \in Seq({}) /\ DOMAIN <<>> = {} /\ Len(<<>>) = 0
  OBVIOUS
<1>2. List(<<>>)
  BY <1>1, ListOf
<1>3. OnStack(stack) /\ InTable(variables) /\ Stacked(stack) = {} /\ Named(variables) = {}
  BY <1>1, <1>2 DEF Init, OnStack, InTable, Stacked, Named
<1>4. Holds(heap, {})
  <2>1. Heaped(heap)
    BY <1>1, <1>2 DEF Init, Heaped
  <2>2. Owned(heap, {}, {})
    BY DEF Owned
  <2> QED
    BY <2>1, <2>2 DEF Holds
<1>5. Struct(v2) /\ TreeCode(todo)
  BY DEF Init, TreeLiterals
<1>6. /\ List(chain) /\ Range(chain) \subseteq DOMAIN variables
      /\ \A i, j \in DOMAIN chain : chain[i] = chain[j] => i = j
  BY <1>1, <1>2 DEF Init, Range
<1> QED
  BY <1>3, <1>4, <1>5, <1>6 DEF OInv, Ready, Owners

\* Data that have one owner each: what two variables or operands lead to is
\* apart, and not freed.
LEMMA ReadyApart ==
    ASSUME Ready
    PROVE  \A r \in Roots :
             /\ \A a \in DataOf(Mem, RootVar(r)) : heap[a].live
             /\ \A q \in Roots \ {r} : DataOf(Mem, RootVar(r)) \cap DataOf(Mem, RootVar(q)) = {}
<1>1. Mem.h = heap /\ Heaped(heap)
  BY MemIs DEF Ready, Holds
<1>2. PICK K : Owned(heap, K, Owners)
  BY DEF Ready, Holds
<1>3. \A r \in Roots : RootVar(r).data \in Owners \cup {0}
  BY DEF Roots, RootVar, Owners, Stacked, Named
<1>4. \A r, q \in Roots : RootVar(r).data = RootVar(q).data /\ RootVar(r).data # 0 => r = q
  <2> SUFFICES ASSUME NEW r \in Roots, NEW q \in Roots, RootVar(r).data = RootVar(q).data, RootVar(r).data # 0
               PROVE  r = q
    OBVIOUS
  <2>1. /\ InTable(variables) /\ OnStack(stack) /\ Stacked(stack) \cap Named(variables) = {}
    BY DEF Ready
  <2>2. ASSUME NEW p \in Roots
        PROVE  \/ \E n \in DOMAIN variables : p = <<"var", n>> /\ RootVar(p) = variables[n]
               \/ \E i \in DOMAIN stack : p = <<"stack", i>> /\ RootVar(p) = stack[i].v
    BY <2>2 DEF Roots, RootVar
  <2>3. CASE \E n \in DOMAIN variables : r = <<"var", n>> /\ RootVar(r) = variables[n]
    <3>1. RootVar(r).data \in Named(variables)
      BY <2>3 DEF Named
    <3>2. ~ \E i \in DOMAIN stack : q = <<"stack", i>> /\ RootVar(q) = stack[i].v
      BY <2>1, <3>1 DEF Stacked
    <3> QED
      BY <2>1, <2>2, <2>3, <3>2 DEF InTable
  <2>4. CASE \E i \in DOMAIN stack : r = <<"stack", i>> /\ RootVar(r) = stack[i].v
    <3>1. RootVar(r).data \in Stacked(stack)
      BY <2>4 DEF Stacked
    <3>2. ~ \E n \in DOMAIN variables : q = <<"var", n>> /\ RootVar(q) = variables[n]
      BY <2>1, <3>1 DEF Named
    <3> QED
      BY <2>1, <2>2, <2>4, <3>2 DEF OnStack
  <2> QED
    BY <2>2, <2>3, <2>4
<1> SUFFICES ASSUME NEW r \in Roots
             PROVE  /\ \A a \in DataOf(Mem, RootVar(r)) : heap[a].live
                    /\ \A q \in Roots \ {r} : DataOf(Mem, RootVar(r)) \cap DataOf(Mem, RootVar(q)) = {}
  OBVIOUS
<1>5. \A p \in Roots : DataOf(Mem, RootVar(p)) = IF RootVar(p).data = 0 THEN {} ELSE Reach(heap, RootVar(p).data)
  BY <1>1 DEF DataOf
<1>6. ASSUME NEW a \in DataOf(Mem, RootVar(r))
      PROVE  heap[a].live
  <2>1. RootVar(r).data \in Owners /\ a \in Reach(heap, RootVar(r).data)
    BY <1>3, <1>5, <1>6
  <2>2. RootVar(r).data \in K
    BY <1>2, <2>1 DEF Owned
  <2>3. a \in K
    BY <1>1, <1>2, <2>1, <2>2, ReachOwned
  <2> QED
    BY <1>2, <2>3 DEF Owned
<1>7. ASSUME NEW q \in Roots \ {r}
      PROVE  DataOf(Mem, RootVar(r)) \cap DataOf(Mem, RootVar(q)) = {}
  <2>1. CASE RootVar(r).data = 0 \/ RootVar(q).data = 0
    BY <1>5, <2>1
  <2>2. CASE RootVar(r).data # 0 /\ RootVar(q).data # 0
    <3>1. RootVar(r).data \in Owners /\ RootVar(q).data \in Owners /\ RootVar(r).data # RootVar(q).data
      BY <1>3, <1>4, <2>2
    <3>2. Reach(heap, RootVar(r).data) \cap Reach(heap, RootVar(q).data) = {}
      BY <1>1, <1>2, <3>1, Apart
    <3> QED
      BY <1>5, <2>2, <3>2
  <2> QED
    BY <2>1, <2>2
<1> QED
  BY <1>6, <1>7

\* No two variables or operands ever lead to the same datum, and none to one
\* that was freed, while a program runs whose instructions find their operands
\* and whose paths find v2 without data: what op_copy, var_unset, SET,
\* SET_ELEM, ADD_ELEM and array + array do to the pointers.
THEOREM OneOwnerHolds ==
    ASSUME TreeLiterals
    PROVE  Spec /\ []Supplied /\ []CleanPath => []OneOwner
<1>1. Init => OInv
  BY InitOwns
<1>2. OInv /\ Supplied /\ CleanPath /\ [Next]_vars => OInv'
  BY StepOwns
<1>3. OInv => OneOwner
  BY ReadyApart DEF OInv, OneOwner
<1> QED
  BY <1>1, <1>2, <1>3, PTL DEF Spec

-----------------------------------------------------------------------------
(* What is freed.                                                           *)

\* The entries that stack_clear frees own what they lead to.
LEMMA GarbageOwned ==
    ASSUME NEW s, OnStack(s)
    PROVE  /\ \A i \in DOMAIN Garbage(s) : Garbage(s)[i].data \in Stacked(s) \cup {0}
           /\ \A i, j \in DOMAIN Garbage(s) :
                Garbage(s)[i].data = Garbage(s)[j].data /\ Garbage(s)[i].data # 0 => i = j
<1>1. Kept(s) \in 0 .. Len(s) /\ Len(s) \in Nat /\ DOMAIN s = 1 .. Len(s)
  <2> DEFINE T == {0} \cup {i \in DOMAIN s : s[i].level < gl_level}
  <2>1. Len(s) \in Nat /\ DOMAIN s = 1 .. Len(s)
    BY ListType DEF OnStack
  <2>2. T \in SUBSET (0 .. Len(s)) /\ T # {}
    BY <2>1
  <2> HIDE DEF T
  <2>3. Max(T) \in 0 .. Len(s)
    BY <2>1, <2>2, GreatestExists
  <2> QED
    BY <2>1, <2>3 DEF Kept, T
<1> DEFINE k == Kept(s)
           gs == Garbage(s)
<1>2. gs = [i \in 1 .. Len(s) - k |-> s[k + i].v]
  BY DEF Garbage
<1> HIDE DEF k, gs
<1>3. \A i \in 1 .. Len(s) - k : i \in Nat /\ k + i \in DOMAIN s /\ k \in Nat
  BY <1>1 DEF k
<1>4. DOMAIN gs = 1 .. Len(s) - k /\ \A i \in DOMAIN gs : gs[i] = s[k + i].v /\ k + i \in DOMAIN s
  BY <1>2, <1>3
<1>5. ASSUME NEW i \in DOMAIN gs, NEW j \in DOMAIN gs, gs[i].data = gs[j].data, gs[i].data # 0
      PROVE  i = j
  <2>1. k + i = k + j
    BY <1>4, <1>5 DEF OnStack
  <2> QED
    BY <1>3, <1>4, <2>1
<1>6. \A i \in DOMAIN gs : gs[i].data \in Stacked(s) \cup {0}
  BY <1>4 DEF Stacked
<1> QED
  BY <1>5, <1>6 DEF gs

\* PRINT, CLEAR_STACK, RETURN and BLOCK_END.
LEMMA TakenDefined ==
    ASSUME Ready, Supplied, Show \/ ClearStack \/ Return \/ EndBlock
    PROVE  status' # "ub"
<1>1. todo # <<>> /\ status = "run" /\ OnStack(stack)
  BY DEF Show, ClearStack, Return, EndBlock, At, Ready
<1>2. ASSUME NEW m, Done(m), ~m.bad
      PROVE  status' # "ub"
  BY <1>2 DEF Done
<1>3. CASE Show
  <2>1. Arity = 1
    BY <1>3 DEF Show, At, Arity, Op
  <2>2. Pop(0).data \in Owners \cup {0}
    BY <1>1, <2>1, Takes1 DEF Owners
  <2>3. ~Free(Mem, <<Pop(0)>>).bad
    <3>1. {} \subseteq Owners
      OBVIOUS
    <3> QED
      BY <2>2, <3>1, MemKeeps, MemIs, FreeOne
  <2> QED
    BY <1>2, <1>3, <2>3 DEF Show
<1>4. ASSUME NEW m, Keeps(m, Stacked(stack)), ~m.bad, NEW s, OnStack(s), Stacked(s) \subseteq Stacked(stack)
      PROVE  ~Free(m, Garbage(s)).bad
  <2> DEFINE vs == Garbage(s)
  <2>1. \A i \in DOMAIN vs : vs[i].data \in Stacked(stack) \cup {0}
    BY <1>4, GarbageOwned
  <2>2. \A i, j \in DOMAIN vs : vs[i].data = vs[j].data /\ vs[i].data # 0 => i = j
    BY <1>4, GarbageOwned
  <2> HIDE DEF vs
  <2>3. ~Free(m, vs).bad
    BY <1>4, <2>1, <2>2, FreeDefined DEF Keeps
  <2> QED
    BY <2>3 DEF vs
<1>5. Keeps(Mem, Stacked(stack)) /\ ~Mem.bad
  BY MemKeeps, MemIs, KeepsLess DEF Owners
<1>6. Keeps(Number(Mem, Lit(0)), Stacked(stack)) /\ ~Number(Mem, Lit(0)).bad
  <2>1. Keeps(Number(Mem, Lit(0)), Stacked(stack) \cup {Len(Mem.h) + 1})
    BY <1>5, ScalarKeeps DEF Number
  <2>2. Stacked(stack) \subseteq Stacked(stack) \cup {Len(Mem.h) + 1}
    OBVIOUS
  <2>3. Number(Mem, Lit(0)).bad = Mem.bad
    BY MemIs DEF Number, Allocate
  <2> QED
    BY <1>5, <2>1, <2>2, <2>3, KeepsLess
<1>7. CASE ClearStack
  <2>1. ~Free(Mem, Garbage(stack)).bad
    BY <1>1, <1>4, <1>5
  <2> QED
    BY <1>2, <1>7, <2>1 DEF ClearStack
<1>8. CASE EndBlock
  <2>1. ~Free(Number(Mem, Lit(0)), Garbage(stack)).bad
    BY <1>1, <1>4, <1>6
  <2> QED
    BY <1>2, <1>8, <2>1 DEF EndBlock
<1>9. CASE Return
  <2>1. CASE stack = <<>>
    BY <1>2, <1>6, <1>9, <2>1 DEF Return
  <2>2. CASE stack # <<>>
    <3>1. 1 \in 0 .. Len(stack)
      <4>1. stack \in Seq(Range(stack)) /\ Len(stack) \in Nat
        BY <1>1 DEF OnStack, List
      <4> QED
        BY <2>2, <4>1
    <3>2. OnStack(Rest(1)) /\ Stacked(Rest(1)) \subseteq Stacked(stack)
      BY <3>1, OperandsTaken
    <3>3. ~Free(Mem, Garbage(Rest(1))).bad
      BY <1>4, <1>5, <3>2
    <3> QED
      BY <1>2, <1>9, <2>2, <3>3 DEF Return
  <2> QED
    BY <2>1, <2>2
<1> QED
  BY <1>3, <1>7, <1>8, <1>9

\* The operators that free an operand, and the functions of cocoons.
LEMMA OperatorsDefined ==
    ASSUME Ready, Supplied, XCall \/ ((Arithmetic \/ Compare) /\ todo' # todo)
    PROVE  status' # "ub"
<1>1. todo # <<>> /\ status = "run"
  BY DEF XCall, Arithmetic, Compare, At
<1>2. ASSUME NEW m, Done(m), ~m.bad
      PROVE  status' # "ub"
  BY <1>2 DEF Done
<1>3. CASE Arithmetic /\ todo' # todo
  <2> DEFINE x == Pop(1)
             y == Pop(0)
             r == IF Op = "ADD" THEN op_add(x, y) ELSE [m |-> InPlace(x, y), v1 |-> x, v2 |-> y]
  <2>1. Op \in Binary /\ Takes(x, y) /\ Readable(x, y) /\ Done(Free(r.m, <<r.v2>>))
    BY <1>3 DEF Arithmetic, At, Op, Error, Undefined
  <2>2. Arity = 2
    BY <2>1 DEF Arity, Binary, Unary
  <2>3. /\ Struct(x) /\ Struct(y)
        /\ x.data \in Owners \cup {0} /\ y.data \in Owners \cup {0}
        /\ x.data # 0 => x.data # y.data
    BY <1>1, <2>2, Takes2 DEF Owners
  <2> HIDE DEF x, y
  <2>4. r = IF Op = "ADD" THEN op_add(x, y) ELSE [m |-> InPlace(x, y), v1 |-> x, v2 |-> y]
    OBVIOUS
  <2> HIDE DEF r
  <2>5. ~Free(r.m, <<r.v2>>).bad
    <3> DEFINE E == {}
    <3>1. E \subseteq Owners /\ x.data \notin E /\ y.data \notin E
      OBVIOUS
    <3> HIDE DEF E
    <3>2. Ready
      OBVIOUS
    <3> QED
      BY <2>1, <2>3, <2>4, <3>1, <3>2, Combined
  <2> QED
    BY <1>2, <2>1, <2>5
<1>4. CASE Compare /\ todo' # todo
  <2> DEFINE x == Pop(1)
             y == Pop(0)
             unset == "UNSET" \in {x.type, y.type}
             term == IF unset THEN Lit(IF Op = "CMP" THEN 0 ELSE 1)
                     ELSE <<Op, heap[x.data].val, heap[y.data].val>>
             m == Number(Mem, term)
  <2>1. Op \in Comparisons /\ Done(Free(m, <<x, y>>))
    BY <1>4 DEF Compare, At, Op, Error, Undefined
  <2>2. Arity = 2
    BY <2>1 DEF Arity, Comparisons, Binary, Unary
  <2>3. /\ x.data \in Owners \cup {0} /\ y.data \in Owners \cup {0}
        /\ x.data # 0 => x.data # y.data
    BY <1>1, <2>2, Takes2 DEF Owners
  <2> HIDE DEF x, y, term
  <2>4. Keeps(m, Owners \cup {Len(heap) + 1}) /\ ~m.bad
    <3>1. m.bad = Mem.bad
      BY MemIs DEF Number, Allocate
    <3> QED
      BY <3>1, MemIs, MemKeeps, ScalarKeeps DEF Number
  <2> HIDE DEF m
  <2>5. ~Free(m, <<x, y>>).bad
    <3> DEFINE D == Owners \cup {Len(heap) + 1}
               E == {}
    <3>1. E \subseteq D /\ x.data \notin E /\ y.data \notin E /\ x.data \in D \cup {0} /\ y.data \in D \cup {0}
      BY <2>3
    <3>2. Keeps(m, D)
      BY <2>4
    <3> HIDE DEF D, E
    <3> QED
      BY <2>3, <2>4, <3>1, <3>2, FreeTwo
  <2> QED
    BY <1>2, <2>1, <2>5
<1>5. CASE XCall
  <2> DEFINE n == Head(todo).n
             args == [i \in 1 .. n |-> stack[Len(stack) - n + i].v]
             made == Allocate(Mem, <<Scalar(Literal.type, Literal.val)>>)
             a == Len(heap) + 1
  <2>1. Op = "XCALL" /\ (status' = "error" \/ Done(Free(made, args)))
    BY <1>5 DEF XCall, At, Op
  <2>2. n \in 0 .. Len(stack) /\ Len(stack) \in Nat
    <3>1. n \in 0 .. Len(stack)
      BY <1>1, <2>1 DEF Supplied, Arity, Binary, Comparisons, Unary
    <3> QED
      BY <3>1, ListType DEF Ready, OnStack
  <2> HIDE DEF n
  <2>3. \A i \in 1 .. n : /\ n - i \in 0 .. n - 1 /\ args[i] = Pop(n - i) /\ n \in Nat /\ i \in Nat
    <3> SUFFICES ASSUME NEW i \in 1 .. n
                 PROVE  n - i \in 0 .. n - 1 /\ args[i] = Pop(n - i) /\ n \in Nat /\ i \in Nat
      OBVIOUS
    <3>1. n - i \in 0 .. n - 1 /\ Len(stack) - n + i = Len(stack) - (n - i) /\ n \in Nat /\ i \in Nat
      BY <2>2
    <3> QED
      BY <3>1 DEF Pop
  <2>4. /\ \A i \in 0 .. n - 1 : Pop(i).data \in Stacked(stack) \cup {0}
        /\ \A i, j \in 0 .. n - 1 : Pop(i).data = Pop(j).data /\ Pop(i).data # 0 => i = j
    BY <2>2, OperandsTaken
  <2>5. DOMAIN args = 1 .. n
    OBVIOUS
  <2> HIDE DEF args
  <2>6. \A i \in DOMAIN args : args[i].data \in (Owners \cup {a}) \cup {0}
    BY <2>3, <2>4, <2>5 DEF Owners
  <2>7. \A i, j \in DOMAIN args : args[i].data = args[j].data /\ args[i].data # 0 => i = j
    <3> SUFFICES ASSUME NEW i \in 1 .. n, NEW j \in 1 .. n, args[i].data = args[j].data, args[i].data # 0
                 PROVE  i = j
      BY <2>5
    <3>1. n - i = n - j
      BY <2>3, <2>4
    <3> QED
      BY <2>3, <3>1
  <2>8. Keeps(made, Owners \cup {a}) /\ ~made.bad
    <3>1. Literal.type # "ARRAY" /\ (Literal.type = "STRING" => List(Literal.val))
      <4>1. TreeInstruction(Head(todo))
        BY <1>1, NextInstruction
      <4> QED
        BY <2>1, <4>1 DEF TreeInstruction, Op, Literal
    <3>2. made.bad = Mem.bad
      BY MemIs DEF Allocate
    <3> QED
      BY <3>1, <3>2, MemIs, MemKeeps, ScalarKeeps
  <2> HIDE DEF made, a
  <2>9. ~Free(made, args).bad
    BY <2>6, <2>7, <2>8, FreeDefined DEF Keeps
  <2> QED
    BY <1>2, <2>1, <2>9
<1> QED
  BY <1>3, <1>4, <1>5

\* The end of the program and larva_stop.
LEMMA EndDefined ==
    ASSUME Ready, Finish \/ Stop
    PROVE  status' # "ub"
<1>1. CASE Finish
  <2> DEFINE vs == Garbage(stack)
  <2>1. OnStack(stack)
    BY DEF Ready
  <2>2. /\ \A i \in DOMAIN vs : vs[i].data \in Owners \cup {0}
        /\ \A i, j \in DOMAIN vs : vs[i].data = vs[j].data /\ vs[i].data # 0 => i = j
    BY <2>1, GarbageOwned DEF Owners
  <2> HIDE DEF vs
  <2>3. ~Free(Mem, vs).bad
    BY <2>2, MemIs, FreeDefined DEF Ready
  <2> QED
    BY <1>1, <2>3 DEF Finish, vs
<1>2. CASE Stop
  <2> DEFINE vs == [i \in DOMAIN chain |-> variables[chain[i]]]
  <2>1. /\ InTable(variables) /\ Range(chain) \subseteq DOMAIN variables
        /\ \A i, j \in DOMAIN chain : chain[i] = chain[j] => i = j
    BY DEF Ready
  <2>2. \A i \in DOMAIN chain : chain[i] \in DOMAIN variables
    BY <2>1 DEF Range
  <2>3. DOMAIN vs = DOMAIN chain /\ \A i \in DOMAIN vs : vs[i] = variables[chain[i]]
    OBVIOUS
  <2> HIDE DEF vs
  <2>4. /\ \A i \in DOMAIN vs : vs[i].data \in Owners \cup {0}
        /\ \A i, j \in DOMAIN vs : vs[i].data = vs[j].data /\ vs[i].data # 0 => i = j
    BY <2>1, <2>2, <2>3 DEF InTable, Named, Owners
  <2>5. ~Free(Mem, vs).bad
    BY <2>4, MemIs, FreeDefined DEF Ready
  <2> QED
    BY <1>2, <2>5 DEF Stop, vs
<1> QED
  BY <1>1, <1>2

\* What the instructions that free, the end of the program and larva_stop find
\* is allocated and freed once, in every program whose instructions find their
\* operands and whose paths find v2 without data.
THEOREM NothingFreedTwiceHolds ==
    ASSUME TreeLiterals
    PROVE  Spec /\ []Supplied /\ []CleanPath => NothingFreedTwice
<1>1. Init => OInv
  BY InitOwns
<1>2. OInv /\ Supplied /\ CleanPath /\ [Next]_vars => OInv'
  BY StepOwns
<1>3. ASSUME OInv, Supplied, Frees
      PROVE  status' # "ub"
  <2>1. status \in {"run", "done", "error"}
    BY <1>3 DEF Frees, Show, ClearStack, XCall, Return, EndBlock, Finish, Stop, Arithmetic, Compare, At
  <2>2. Ready
    BY <1>3, <2>1 DEF OInv
  <2> QED
    BY <1>3, <2>2, TakenDefined, OperatorsDefined, EndDefined DEF Frees
<1>4. OInv /\ Supplied /\ [Next]_vars => [Frees => status' # "ub"]_vars
  BY <1>3
<1> QED
  BY <1>1, <1>2, <1>4, PTL DEF Spec, NothingFreedTwice

-----------------------------------------------------------------------------
(* Supplied, from the text of a program.                                    *)

\* The tag of an entry of which the text of the program says nothing.
Unknown == -1

\* The last entries of the stack s have the tags o, as far as these are known.
Matches(s, o) ==
    /\ o \in Seq(Int) /\ Len(o) <= Len(s)
    /\ \A i \in 1 .. Len(o) : o[i] = Unknown \/ s[Len(s) - Len(o) + i].level = o[i]

\* All but the last n entries.
Off(s, n) == SubSeq(s, 1, Len(s) - n)

\* stack_clear at level l leaves r of the entries o, at least.
Clears(o, l, r) ==
    \/ r = <<>>
    \/ \E k \in 1 .. Len(o) :
         /\ o[k] # Unknown /\ o[k] < l /\ \A i \in k + 1 .. Len(o) : o[i] >= l
         /\ r = SubSeq(o, 1, k)

\* As Arity, of an instruction x.
Needs(x) ==
    IF x.op \in {"PRINT", "VARX", "ACCESS", "ADD_ELEM", "PARAMX"} \cup Unary THEN 1
    ELSE IF x.op \in {"SET", "SET_ELEM"} \cup Binary \cup Comparisons THEN 2
    ELSE IF x.op \in {"XCALL", "REVERSE_STACK"} THEN x.n
    ELSE 0

\* The instruction x, executed at level l, makes r of the entries o.
Leaves(x, l, o, r) ==
    \/ x.op \in {"AS_VAR", "AS_DOUBLE", "AS_VOID"} /\ r = Append(o, 0)
    \/ x.op \in {"AS_STRING", "FROM_JSON", "MICROTIME"} /\ r = Append(o, l)
    \/ x.op \in {"VAR", "CALL"} \cup Unary /\ r = o
    \/ x.op \in {"PRINT", "VARX", "SET"} \cup Binary /\ r = Off(o, 1)
    \/ x.op = "ACCESS" /\ r = Append(Off(o, 1), IF l = 0 THEN 0 ELSE Unknown)
    \/ x.op = "ADD_ELEM" /\ r = Append(Off(o, 1), l)
    \/ x.op = "SET_ELEM" /\ r = Append(Off(o, 2), l)
    \/ x.op \in Comparisons /\ r = Append(Off(o, 2), 0)
    \/ x.op = "XCALL" /\ r = Append(Off(o, x.n), l)
    \/ x.op = "REVERSE_STACK" /\ r = Off(o, x.n) \o Reverse(SubSeq(o, Len(o) - x.n + 1, Len(o)))
    \/ x.op = "PARAM" /\ r = IF o = <<>> THEN <<>> ELSE Off(o, 1)
    \/ x.op = "PARAMX" /\ r = IF Len(o) = 1 THEN <<>> ELSE Off(o, 2)
    \/ x.op = "CLEAR_STACK" /\ Clears(o, l, r)
    \/ x.op = "RETURN" /\ o = <<>> /\ r = <<>>
    \/ x.op = "RETURN" /\ o # <<>> /\ \E c : Clears(Off(o, 1), l, c) /\ r = Append(c, o[Len(o)])
    \/ x.op = "BLOCK_END" /\ \E c : Clears(o, l, c) /\ r = Append(c, l)

\* The level after the instruction x.
LevelAfter(x, l) ==
    IF x.op = "CALL" THEN l + 1 ELSE IF x.op \in {"RETURN", "BLOCK_END"} THEN l - 1 ELSE l

\* Before every instruction of the code there is a level and a list of entries
\* that it finds, and that it makes those before the next of: the statement has
\* put enough on the stack for each of its instructions, whatever lies below,
\* and ends at level 0.
Fed(code, l, o) ==
    \E ls, os :
      /\ ls[1] = l /\ os[1] = o /\ ls[Len(code) + 1] = 0
      /\ \A i \in 1 .. Len(code) :
           /\ ls[i] \in Levels /\ Needs(code[i]) \in 0 .. Len(os[i])
           /\ ls[i + 1] = LevelAfter(code[i], ls[i])
           /\ Leaves(code[i], ls[i], os[i], os[i + 1])

\* The programs whose statements feed their instructions.
FedPrograms == \A code \in {Prologue} \cup Statements : List(code) /\ Fed(code, 0, <<>>)

\* The invariant: the rest of the statement is fed with what is on the stack.
FInv == status = "run" => List(stack) /\ List(todo) /\ \E o : Matches(stack, o) /\ Fed(todo, gl_level, o)

\* Entries taken off.
LEMMA MatchOff ==
    ASSUME NEW s, List(s), NEW o, Matches(s, o), NEW n \in 0 .. Len(o)
    PROVE  List(Off(s, n)) /\ Matches(Off(s, n), Off(o, n))
<1> DEFINE t == Off(s, n)
           p == Off(o, n)
<1>1. o \in Seq(Int) /\ Len(o) \in Nat /\ Len(s) \in Nat /\ Len(o) <= Len(s)
  BY ListType DEF Matches
<1>2. Len(s) - n \in 0 .. Len(s) /\ Len(o) - n \in 0 .. Len(o) /\ n \in Nat
  BY <1>1
<1>3. List(t) /\ Len(t) = Len(s) - n /\ \A i \in 1 .. Len(s) - n : t[i] = s[i]
  BY <1>2, Lowest DEF Off
<1>4. p \in Seq(Int) /\ Len(p) = Len(o) - n /\ \A i \in 1 .. Len(o) - n : p[i] = o[i]
  BY <1>1, <1>2 DEF Off
<1> HIDE DEF t, p
<1>5. \A i \in 1 .. Len(p) : p[i] = Unknown \/ t[Len(t) - Len(p) + i].level = p[i]
  <2> SUFFICES ASSUME NEW i \in 1 .. Len(p)
               PROVE  p[i] = Unknown \/ t[Len(t) - Len(p) + i].level = p[i]
    OBVIOUS
  <2>1. i \in 1 .. Len(o) /\ i \in 1 .. Len(o) - n
    BY <1>1, <1>2, <1>4
  <2>2. Len(t) - Len(p) + i = Len(s) - Len(o) + i /\ Len(s) - Len(o) + i \in 1 .. Len(s) - n
    BY <1>1, <1>2, <1>3, <1>4, <2>1
  <2>3. t[Len(s) - Len(o) + i] = s[Len(s) - Len(o) + i] /\ p[i] = o[i]
    BY <1>3, <1>4, <2>1, <2>2
  <2>4. o[i] = Unknown \/ s[Len(s) - Len(o) + i].level = o[i]
    BY <2>1 DEF Matches
  <2> QED
    BY <2>2, <2>3, <2>4
<1>6. Len(p) <= Len(t)
  BY <1>1, <1>2, <1>3, <1>4
<1> QED
  BY <1>3, <1>4, <1>5, <1>6 DEF Matches, t, p

\* An entry put on.
LEMMA MatchOn ==
    ASSUME NEW s, List(s), NEW o, Matches(s, o), NEW e, NEW k \in Int, k = Unknown \/ e.level = k
    PROVE  List(Append(s, e)) /\ Matches(Append(s, e), Append(o, k))
<1> DEFINE t == Append(s, e)
           p == Append(o, k)
           T == Range(s) \cup {e}
<1>1. o \in Seq(Int) /\ Len(o) \in Nat /\ Len(s) \in Nat /\ Len(o) <= Len(s)
  BY ListType DEF Matches
<1>2. s \in Seq(T) /\ e \in T
  BY DEF List
<1> HIDE DEF T
<1>3. List(t) /\ Len(t) = Len(s) + 1 /\ t[Len(s) + 1] = e /\ \A i \in 1 .. Len(s) : t[i] = s[i]
  BY <1>1, <1>2, ListAppend
<1>4. p \in Seq(Int) /\ Len(p) = Len(o) + 1 /\ p[Len(o) + 1] = k /\ \A i \in 1 .. Len(o) : p[i] = o[i]
  BY <1>1
<1> HIDE DEF t, p
<1>5. \A i \in 1 .. Len(p) : p[i] = Unknown \/ t[Len(t) - Len(p) + i].level = p[i]
  <2> SUFFICES ASSUME NEW i \in 1 .. Len(p)
               PROVE  p[i] = Unknown \/ t[Len(t) - Len(p) + i].level = p[i]
    OBVIOUS
  <2>1. CASE i = Len(o) + 1
    <3>1. Len(t) - Len(p) + i = Len(s) + 1
      BY <1>1, <1>3, <1>4, <2>1
    <3> QED
      BY <1>3, <1>4, <2>1, <3>1
  <2>2. CASE i # Len(o) + 1
    <3>1. i \in 1 .. Len(o)
      BY <1>1, <1>4, <2>2
    <3>2. Len(t) - Len(p) + i = Len(s) - Len(o) + i /\ Len(s) - Len(o) + i \in 1 .. Len(s)
      BY <1>1, <1>3, <1>4, <3>1
    <3>3. t[Len(s) - Len(o) + i] = s[Len(s) - Len(o) + i] /\ p[i] = o[i]
      BY <1>3, <1>4, <3>1, <3>2
    <3>4. o[i] = Unknown \/ s[Len(s) - Len(o) + i].level = o[i]
      BY <3>1 DEF Matches
    <3> QED
      BY <3>2, <3>3, <3>4
  <2> QED
    BY <2>1, <2>2
<1>6. Len(p) <= Len(t)
  BY <1>1, <1>3, <1>4
<1> QED
  BY <1>3, <1>4, <1>5, <1>6 DEF Matches, t, p

\* Nothing is known of a stack.
LEMMA MatchNone ==
    ASSUME NEW s, List(s)
    PROVE  Matches(s, <<>>)
<1>1. Len(s) \in Nat
  BY ListType
<1> QED
  BY <1>1 DEF Matches

\* Where stack_clear stops.
LEMMA KeptType ==
    ASSUME NEW s, List(s)
    PROVE  /\ Kept(s) \in 0 .. Len(s)
           /\ Kept(s) = 0 \/ s[Kept(s)].level < gl_level
           /\ \A i \in 1 .. Len(s) : s[i].level < gl_level => i <= Kept(s)
           /\ List(Cleared(s))
<1> DEFINE T == {0} \cup {i \in DOMAIN s : s[i].level < gl_level}
           k == Kept(s)
<1>1. Len(s) \in Nat /\ DOMAIN s = 1 .. Len(s)
  BY ListType
<1>2. T \in SUBSET (0 .. Len(s)) /\ T # {} /\ k = Max(T)
  BY <1>1 DEF Kept
<1>3. k \in T /\ \A i \in T : i <= k
  <2>1. \A i \in T : i \in Nat
    BY <1>1
  <2> HIDE DEF T, k
  <2>2. k \in T /\ \A i \in T : k >= i
    BY <1>1, <1>2, GreatestExists
  <2>3. k \in Nat
    BY <2>1, <2>2
  <2> QED
    BY <2>1, <2>2, <2>3
<1>4. k \in 0 .. Len(s)
  BY <1>2, <1>3
<1>5. List(Cleared(s))
  BY <1>4, Lowest DEF Cleared, k
<1> QED
  BY <1>1, <1>3, <1>4, <1>5 DEF k

\* The stack cleared.
LEMMA MatchClear ==
    ASSUME NEW s, List(s), NEW o, Matches(s, o), gl_level \in Nat, NEW r, Clears(o, gl_level, r)
    PROVE  List(Cleared(s)) /\ Matches(Cleared(s), r)
<1>1. List(Cleared(s))
  BY KeptType
<1>2. CASE r = <<>>
  BY <1>1, <1>2, MatchNone
<1>3. CASE r # <<>>
  <2>1. PICK k \in 1 .. Len(o) :
          /\ o[k] # Unknown /\ o[k] < gl_level /\ \A i \in k + 1 .. Len(o) : o[i] >= gl_level
          /\ r = SubSeq(o, 1, k)
    BY <1>3 DEF Clears
  <2>2. o \in Seq(Int) /\ Len(o) \in Nat /\ Len(s) \in Nat /\ Len(o) <= Len(s) /\ k \in Nat
    BY ListType DEF Matches
  <2> DEFINE d == Len(s) - Len(o)
  <2>3. d \in Nat /\ d + k \in 1 .. Len(s) /\ Len(o) - k \in 0 .. Len(o)
    BY <2>1, <2>2
  <2>4. \A i \in 1 .. Len(o) : o[i] \in Int /\ (o[i] = Unknown \/ s[d + i].level = o[i])
    BY <2>2 DEF Matches
  <2>5. \A i \in k + 1 .. Len(o) : i \in 1 .. Len(o) /\ ~(s[d + i].level < gl_level)
    <3> SUFFICES ASSUME NEW i \in k + 1 .. Len(o)
                 PROVE  i \in 1 .. Len(o) /\ ~(s[d + i].level < gl_level)
      OBVIOUS
    <3>1. i \in 1 .. Len(o) /\ o[i] >= gl_level
      BY <2>1, <2>2
    <3>2. o[i] \in Int /\ o[i] # Unknown
      BY <2>4, <3>1 DEF Unknown
    <3>3. ~(o[i] < gl_level)
      BY <3>1, <3>2
    <3> QED
      BY <2>4, <3>1, <3>2, <3>3
  <2>6. s[d + k].level < gl_level
    BY <2>1, <2>4
  <2> HIDE DEF d
  <2>7. Kept(s) = d + k
    <3> DEFINE q == Kept(s)
    <3>1. /\ q \in 0 .. Len(s) /\ (q = 0 \/ s[q].level < gl_level)
          /\ \A i \in 1 .. Len(s) : s[i].level < gl_level => i <= q
      BY KeptType
    <3> HIDE DEF q
    <3>2. q >= d + k /\ q # 0
      BY <2>3, <2>6, <3>1
    <3>3. ASSUME q > d + k PROVE FALSE
      <4>1. q - d \in k + 1 .. Len(o) /\ d + (q - d) = q
        BY <2>2, <2>3, <3>1, <3>3 DEF d
      <4>2. ~(s[d + (q - d)].level < gl_level)
        BY <2>5, <4>1
      <4> QED
        BY <3>1, <3>2, <4>1, <4>2
    <3>4. q \in Nat /\ d + k \in Nat
      BY <2>2, <2>3, <3>1
    <3>5. q = d + k
      BY <3>2, <3>3, <3>4
    <3> QED
      BY <3>5 DEF q
  <2> DEFINE n == Len(o) - k
  <2>8. n \in 0 .. Len(o) /\ Len(s) - n = d + k /\ Len(o) - n = k
    BY <2>2, <2>3 DEF d
  <2>9. Cleared(s) = Off(s, n) /\ r = Off(o, n)
    BY <2>1, <2>7, <2>8 DEF Cleared, Off
  <2> HIDE DEF n
  <2> QED
    BY <2>8, <2>9, MatchOff
<1> QED
  BY <1>2, <1>3

\* The last entries exchanged.
LEMMA MatchTurn ==
    ASSUME NEW s, List(s), NEW o, Matches(s, o), NEW n \in 0 .. Len(o)
    PROVE  LET t == Off(s, n) \o Reverse(SubSeq(s, Len(s) - n + 1, Len(s)))
               p == Off(o, n) \o Reverse(SubSeq(o, Len(o) - n + 1, Len(o)))
           IN  List(t) /\ Matches(t, p)
<1>1. o \in Seq(Int) /\ Len(o) \in Nat /\ Len(s) \in Nat /\ Len(o) <= Len(s) /\ n \in Nat
  BY ListType DEF Matches
<1>2. ASSUME NEW q, List(q), n \in 0 .. Len(q)
      PROVE  LET back == Reverse(SubSeq(q, Len(q) - n + 1, Len(q)))
                 w == Off(q, n) \o back
             IN  /\ List(w) /\ Len(w) = Len(q)
                 /\ \A i \in 1 .. Len(q) : w[i] = IF i <= Len(q) - n THEN q[i] ELSE q[2 * Len(q) - n + 1 - i]
  <2> DEFINE k == Len(q) - n
             low == SubSeq(q, 1, k)
             top == SubSeq(q, k + 1, Len(q))
             back == Reverse(top)
             w == low \o back
  <2>1. Len(q) \in Nat /\ k \in 0 .. Len(q) /\ Len(q) - k = n
    BY <1>1, <1>2, ListType
  <2>2. /\ List(low) /\ Len(low) = k /\ \A i \in 1 .. k : low[i] = q[i]
    BY <1>2, <2>1, Lowest
  <2>3. Len(top) = n /\ \A i \in 1 .. n : top[i] = q[k + i]
    <3> DEFINE T == Range(q)
    <3>1. q \in Seq(T)
      BY <1>2 DEF List
    <3> HIDE DEF T
    <3> QED
      BY <1>1, <2>1, <3>1
  <2> HIDE DEF top, low
  <2>4. back = [i \in 1 .. n |-> top[n - i + 1]]
    BY <2>3 DEF Reverse
  <2>5. List(back) /\ Len(back) = n /\ \A i \in 1 .. n : back[i] = q[k + (n - i + 1)]
    <3>1. back = [i \in 1 .. n |-> back[i]]
      BY <2>4
    <3>2. \A i \in 1 .. n : n - i + 1 \in 1 .. n
      BY <1>1
    <3> QED
      BY <1>1, <2>3, <2>4, <3>1, <3>2, ListOn
  <2> HIDE DEF back
  <2>6. /\ List(w) /\ Len(w) = k + n
        /\ \A i \in DOMAIN w : w[i] = IF i <= k THEN low[i] ELSE back[i - k]
    <3>1. /\ List(w) /\ Len(w) = Len(low) + Len(back)
          /\ \A i \in DOMAIN w : w[i] = IF i <= Len(low) THEN low[i] ELSE back[i - Len(low)]
      BY <2>2, <2>5, ListJoin
    <3> HIDE DEF w, k
    <3> QED
      BY <2>2, <2>5, <3>1
  <2> HIDE DEF w
  <2>7. DOMAIN w = 1 .. Len(q) /\ Len(w) = Len(q)
    <3>1. DOMAIN w = 1 .. Len(w)
      BY <2>6, ListType
    <3> QED
      BY <2>1, <2>6, <3>1
  <2>8. \A i \in 1 .. Len(q) : w[i] = IF i <= k THEN q[i] ELSE q[2 * Len(q) - n + 1 - i]
    <3> TAKE i \in 1 .. Len(q)
    <3>1. CASE i <= k
      <4>1. i \in 1 .. k
        BY <2>1, <3>1
      <4> QED
        BY <2>2, <2>6, <2>7, <3>1, <4>1
    <3>2. CASE ~(i <= k)
      <4>1. i - k \in 1 .. n /\ k + (n - (i - k) + 1) = 2 * Len(q) - n + 1 - i
        BY <1>1, <2>1, <3>2
      <4>2. back[i - k] = q[2 * Len(q) - n + 1 - i]
        BY <2>5, <4>1
      <4> QED
        BY <2>6, <2>7, <3>2, <4>2
    <3> QED
      BY <3>1, <3>2
  <2> QED
    BY <2>6, <2>7, <2>8 DEF w, back, top, low, Off
<1> DEFINE t == Off(s, n) \o Reverse(SubSeq(s, Len(s) - n + 1, Len(s)))
           p == Off(o, n) \o Reverse(SubSeq(o, Len(o) - n + 1, Len(o)))
<1>3. /\ List(t) /\ Len(t) = Len(s)
      /\ \A i \in 1 .. Len(s) : t[i] = IF i <= Len(s) - n THEN s[i] ELSE s[2 * Len(s) - n + 1 - i]
  <2>1. n \in 0 .. Len(s)
    BY <1>1
  <2> QED
    BY <1>2, <2>1
<1>4. /\ List(p) /\ Len(p) = Len(o)
      /\ \A i \in 1 .. Len(o) : p[i] = IF i <= Len(o) - n THEN o[i] ELSE o[2 * Len(o) - n + 1 - i]
  <2>1. List(o)
    BY <1>1, ListOf
  <2> QED
    BY <1>2, <2>1
<1> HIDE DEF t, p
<1>5. p \in Seq(Int)
  <2>1. \A i \in 1 .. Len(o) : ~(i <= Len(o) - n) => 2 * Len(o) - n + 1 - i \in 1 .. Len(o)
    BY <1>1
  <2>2. \A i \in 1 .. Len(o) : o[i] \in Int
    BY <1>1
  <2>3. \A i \in 1 .. Len(o) : p[i] \in Int
    BY <1>4, <2>1, <2>2
  <2>4. p = [i \in 1 .. Len(o) |-> p[i]]
    BY <1>4, ListType
  <2> QED
    BY <1>1, <2>3, <2>4
<1>6. \A i \in 1 .. Len(o) : p[i] = Unknown \/ t[Len(s) - Len(o) + i].level = p[i]
  <2> TAKE i \in 1 .. Len(o)
  <2> DEFINE d == Len(s) - Len(o)
  <2>1. d + i \in 1 .. Len(s) /\ (d + i <= Len(s) - n <=> i <= Len(o) - n)
    BY <1>1
  <2>2. CASE i <= Len(o) - n
    <3>1. p[i] = o[i] /\ t[d + i] = s[d + i]
      BY <1>3, <1>4, <2>1, <2>2
    <3> QED
      BY <3>1 DEF Matches
  <2>3. CASE ~(i <= Len(o) - n)
    <3> DEFINE j == 2 * Len(o) - n + 1 - i
    <3>1. j \in 1 .. Len(o) /\ d + j = 2 * Len(s) - n + 1 - (d + i)
      BY <1>1, <2>3
    <3>2. p[i] = o[j] /\ t[d + i] = s[d + j]
      BY <1>3, <1>4, <2>1, <2>3, <3>1
    <3> HIDE DEF j
    <3> QED
      BY <3>1, <3>2 DEF Matches
  <2> QED
    BY <2>2, <2>3
<1>7. Matches(t, p)
  BY <1>1, <1>3, <1>4, <1>5, <1>6 DEF Matches
<1> QED
  BY <1>3, <1>7 DEF t, p

\* What the first instruction leaves feeds the others.
LEMMA FedNext ==
    ASSUME NEW code, List(code), code # <<>>, NEW l, NEW o, Fed(code, l, o)
    PROVE  /\ l \in Levels /\ Needs(Head(code)) \in 0 .. Len(o) /\ List(Tail(code))
           /\ \E r : Leaves(Head(code), l, o, r) /\ Fed(Tail(code), LevelAfter(Head(code), l), r)
<1>1. PICK ls, os :
        /\ ls[1] = l /\ os[1] = o /\ ls[Len(code) + 1] = 0
        /\ \A i \in 1 .. Len(code) :
             /\ ls[i] \in Levels /\ Needs(code[i]) \in 0 .. Len(os[i])
             /\ ls[i + 1] = LevelAfter(code[i], ls[i])
             /\ Leaves(code[i], ls[i], os[i], os[i + 1])
  BY DEF Fed
<1> DEFINE n == Len(code)
           t == Tail(code)
<1>2. /\ n \in Nat /\ n >= 1 /\ List(t) /\ Len(t) = n - 1 /\ Head(code) = code[1]
      /\ \A i \in 1 .. n - 1 : t[i] = code[i + 1]
  <2>1. code \in Seq(Range(code))
    BY DEF List
  <2> DEFINE T == Range(code)
  <2>2. n \in Nat /\ n >= 1 /\ Len(t) = n - 1 /\ Head(code) = code[1] /\ \A i \in 1 .. n - 1 : t[i] = code[i + 1]
    BY <2>1
  <2> QED
    BY <2>2, ListTail
<1>3. /\ l \in Levels /\ Needs(Head(code)) \in 0 .. Len(o)
      /\ ls[2] = LevelAfter(Head(code), l) /\ Leaves(Head(code), l, o, os[2])
  <2>1. 1 \in 1 .. n /\ 1 + 1 = 2
    BY <1>2
  <2> QED
    BY <1>1, <1>2, <2>1
<1>4. Fed(t, ls[2], os[2])
  <2> DEFINE ms == [i \in 1 .. n |-> ls[i + 1]]
             ps == [i \in 1 .. n |-> os[i + 1]]
  <2>1. ms[1] = ls[2] /\ ps[1] = os[2] /\ ms[Len(t) + 1] = 0
    BY <1>1, <1>2
  <2>2. \A i \in 1 .. Len(t) :
          /\ i + 1 \in 1 .. n /\ ms[i] = ls[i + 1] /\ ps[i] = os[i + 1]
          /\ ms[i + 1] = ls[(i + 1) + 1] /\ ps[i + 1] = os[(i + 1) + 1] /\ t[i] = code[i + 1]
    BY <1>2
  <2> HIDE DEF ms, ps, t
  <2>3. \A i \in 1 .. Len(t) :
          /\ ms[i] \in Levels /\ Needs(t[i]) \in 0 .. Len(ps[i])
          /\ ms[i + 1] = LevelAfter(t[i], ms[i])
          /\ Leaves(t[i], ms[i], ps[i], ps[i + 1])
    <3> TAKE i \in 1 .. Len(t)
    <3>1. /\ ls[i + 1] \in Levels /\ Needs(code[i + 1]) \in 0 .. Len(os[i + 1])
          /\ ls[(i + 1) + 1] = LevelAfter(code[i + 1], ls[i + 1])
          /\ Leaves(code[i + 1], ls[i + 1], os[i + 1], os[(i + 1) + 1])
      BY <1>1, <2>2
    <3> QED
      BY <2>2, <3>1
  <2> QED
    BY <2>1, <2>3 DEF Fed
<1> QED
  BY <1>2, <1>3, <1>4

\* What an instruction leaves on the stack, from what Leaves says of it.
Left(o, r) == List(stack') /\ Matches(stack', r) /\ gl_level' = LevelAfter(Head(todo), gl_level)

\* The instruction runs with the entries it needs.
Starts(o, r) ==
    /\ List(stack) /\ Matches(stack, o) /\ gl_level \in Nat
    /\ Needs(Head(todo)) \in 0 .. Len(o) /\ Leaves(Head(todo), gl_level, o, r)
    /\ status' = "run"

\* An instruction that takes n entries and puts none on.
LEMMA LeftOff ==
    ASSUME NEW o, NEW r, Starts(o, r), NEW n \in 0 .. Len(o), r = Off(o, n), stack' = Rest(n)
    PROVE  List(stack') /\ Matches(stack', r)
  BY MatchOff DEF Starts, Rest, Off

\* An instruction that takes n entries and puts one on.
LEMMA LeftOn ==
    ASSUME NEW o, NEW r, Starts(o, r), NEW n \in 0 .. Len(o), NEW k \in Int, r = Append(Off(o, n), k),
           NEW e, k = Unknown \/ e.level = k, stack' = Append(Rest(n), e)
    PROVE  List(stack') /\ Matches(stack', r)
<1>1. List(Off(stack, n)) /\ Matches(Off(stack, n), Off(o, n))
  BY MatchOff DEF Starts
<1>2. Rest(n) = Off(stack, n)
  BY DEF Rest, Off
<1> QED
  BY <1>1, <1>2, MatchOn

\* Instructions that push.
LEMMA PushLeft ==
    ASSUME NEW o, NEW r, Starts(o, r), AsVar \/ AsConstant
    PROVE  Left(o, r)
<1>1. Op \in {"AS_VAR", "AS_DOUBLE", "AS_STRING", "FROM_JSON", "AS_VOID", "MICROTIME"} /\ gl_level' = gl_level
  <2>1. CASE AsVar
    BY <2>1 DEF AsVar, At, Op, Error, Starts, control
  <2>2. CASE AsConstant
    BY <2>2 DEF AsConstant, At, Op, control
  <2> QED
    BY <2>1, <2>2
<1> DEFINE k == IF Op \in {"AS_VAR", "AS_DOUBLE", "AS_VOID"} THEN 0 ELSE gl_level
<1>2. r = Append(o, k) /\ k \in Int
  BY <1>1 DEF Starts, Leaves, Op, Unary, Binary, Comparisons
<1>3. \E e : stack' = Append(stack, e) /\ e.level = k
  <2>1. CASE AsVar
    BY <2>1 DEF AsVar, At, Op, Error, Starts, Direct
  <2>2. CASE AsConstant
    BY <2>2 DEF AsConstant, At, Op, Direct, Tagged
  <2> QED
    BY <2>1, <2>2
<1> HIDE DEF k
<1>4. List(stack') /\ Matches(stack', r)
  BY <1>2, <1>3, MatchOn DEF Starts
<1> QED
  BY <1>1, <1>4 DEF Left, LevelAfter, Op

\* Instructions that only take operands off.
LEMMA TakeLeft ==
    ASSUME NEW o, NEW r, Starts(o, r), Show \/ DeclareWith \/ Assign
    PROVE  Left(o, r)
<1>1. /\ Op \in {"PRINT", "VARX", "SET"} /\ gl_level' = gl_level /\ stack' = Rest(1)
  <2>1. CASE Show
    BY <2>1 DEF Show, At, Op, control
  <2>2. CASE DeclareWith
    BY <2>2 DEF DeclareWith, At, Op, control
  <2>3. CASE Assign
    BY <2>3 DEF Assign, At, Op, control, Error, Starts
  <2> QED
    BY <2>1, <2>2, <2>3
<1>2. r = Off(o, 1)
  BY <1>1 DEF Starts, Leaves, Op, Unary, Binary, Comparisons
<1>3. 1 \in 0 .. Len(o)
  <2>1. o \in Seq(Int) /\ Needs(Head(todo)) >= 1
    BY <1>1 DEF Starts, Matches, Needs, Op, Binary, Comparisons, Unary
  <2> QED
    BY <2>1 DEF Starts
<1> QED
  BY <1>1, <1>2, <1>3, LeftOff DEF Left, LevelAfter, Op

\* Instructions that leave the stack alone.
LEMMA SameLeft ==
    ASSUME NEW o, NEW r, Starts(o, r), Declare \/ Change \/ Call
    PROVE  Left(o, r)
<1>1. Op \in {"VAR", "CALL"} \cup Unary /\ stack' = stack /\ gl_level' = IF Op = "CALL" THEN gl_level + 1 ELSE gl_level
  <2>1. CASE Declare
    BY <2>1 DEF Declare, At, Op, control
  <2>2. CASE Change
    BY <2>2 DEF Change, At, Op, control, Error, Starts, Undefined, Unary
  <2>3. CASE Call
    BY <2>3 DEF Call, At, Op
  <2> QED
    BY <2>1, <2>2, <2>3
<1>2. r = o
  BY <1>1 DEF Starts, Leaves, Op, Unary, Binary, Comparisons
<1> QED
  BY <1>1, <1>2 DEF Left, LevelAfter, Op, Starts, Unary

\* Instructions on elements.
LEMMA ElementLeft ==
    ASSUME NEW o, NEW r, Starts(o, r), SetElem \/ AddElem \/ AccessIndex \/ AccessPath
    PROVE  Left(o, r)
<1> DEFINE n == IF Op = "SET_ELEM" THEN 2 ELSE 1
           k == IF Op = "ACCESS" /\ gl_level # 0 THEN Unknown ELSE gl_level
<1>1. /\ Op \in {"SET_ELEM", "ADD_ELEM", "ACCESS"} /\ gl_level' = gl_level
      /\ \E e : stack' = Append(Rest(n), e) /\ (k = Unknown \/ e.level = k)
  <2>1. CASE SetElem
    BY <2>1 DEF SetElem, At, Op, control, Error, Starts, Tagged
  <2>2. CASE AddElem
    BY <2>2 DEF AddElem, At, Op, control, Error, Undefined, Starts, Tagged
  <2>3. CASE AccessIndex
    <3>1. /\ Op = "ACCESS" /\ gl_level' = gl_level
          /\ \E b, w : stack' = Append(Rest(1), IF b THEN Tagged(w) ELSE Direct(Zeroed))
      BY <2>3 DEF AccessIndex, At, Op, control, Undefined, Starts
    <3>2. PICK b, w : stack' = Append(Rest(1), IF b THEN Tagged(w) ELSE Direct(Zeroed))
      BY <3>1
    <3> DEFINE e == IF b THEN Tagged(w) ELSE Direct(Zeroed)
    <3>3. k = Unknown \/ e.level = k
      BY <3>1 DEF Tagged, Direct
    <3>4. n = 1
      BY <3>1
    <3> QED
      BY <3>1, <3>2, <3>3, <3>4
  <2>4. CASE AccessPath
    BY <2>4 DEF AccessPath, At, Op, control, Undefined, Starts, Tagged
  <2> QED
    BY <2>1, <2>2, <2>3, <2>4
<1>2. r = Append(Off(o, n), k) /\ k \in Int
  <2>1. CASE Op = "ACCESS"
    BY <2>1 DEF Starts, Leaves, Op, Unary, Binary, Comparisons, Unknown
  <2>2. CASE Op = "ADD_ELEM"
    BY <2>2 DEF Starts, Leaves, Op, Unary, Binary, Comparisons
  <2>3. CASE Op = "SET_ELEM"
    BY <2>3 DEF Starts, Leaves, Op, Unary, Binary, Comparisons
  <2> QED
    BY <1>1, <2>1, <2>2, <2>3
<1>3. n \in 0 .. Len(o)
  <2>1. o \in Seq(Int) /\ Needs(Head(todo)) = n
    BY <1>1 DEF Starts, Matches, Needs, Op, Binary, Comparisons, Unary
  <2> QED
    BY <2>1 DEF Starts
<1>4. LevelAfter(Head(todo), gl_level) = gl_level
  BY <1>1 DEF LevelAfter, Op
<1> HIDE DEF n, k
<1> QED
  BY <1>1, <1>2, <1>3, <1>4, LeftOn DEF Left

\* Operators and cocoons' functions.
LEMMA OperatorLeft ==
    ASSUME NEW o, NEW r, Starts(o, r), Arithmetic \/ Compare \/ XCall
    PROVE  Left(o, r)
<1>1. CASE Arithmetic
  <2> DEFINE e == stack[Len(stack) - 1]
             k == o[Len(o) - 1]
  <2>1. Op \in Binary /\ gl_level' = gl_level /\ \E v : stack' = Append(Rest(2), [e EXCEPT !.v = v])
    BY <1>1 DEF Arithmetic, At, Op, control, Error, Undefined, Starts
  <2>2. r = Off(o, 1) /\ Needs(Head(todo)) = 2 /\ LevelAfter(Head(todo), gl_level) = gl_level
    BY <2>1 DEF Starts, Leaves, Needs, LevelAfter, Op, Unary, Binary, Comparisons
  <2>3. /\ o \in Seq(Int) /\ Len(o) \in Nat /\ 2 \in 0 .. Len(o) /\ Len(stack) \in Nat /\ Len(o) <= Len(stack)
        /\ \A i \in 1 .. Len(o) : o[i] = Unknown \/ stack[Len(stack) - Len(o) + i].level = o[i]
    BY <2>2, ListType DEF Starts, Matches
  <2>4. k \in Int /\ (k = Unknown \/ e.level = k) /\ Off(o, 1) = Append(Off(o, 2), k)
    <3>1. Len(o) - 1 \in 1 .. Len(o) /\ Len(stack) - Len(o) + (Len(o) - 1) = Len(stack) - 1
      BY <2>3
    <3>2. k \in Int /\ (k = Unknown \/ e.level = k)
      BY <2>3, <3>1
    <3>3. Off(o, 1) = Append(Off(o, 2), k)
      <4> DEFINE a == Off(o, 1)
                 c == Off(o, 2)
                 b == Append(c, k)
                 n == Len(o) - 1
      <4>1. n \in Nat /\ n - 1 \in Nat /\ Len(o) - 2 = n - 1
        BY <2>3
      <4>2. a \in Seq(Int) /\ Len(a) = n /\ \A i \in 1 .. n : a[i] = o[i]
        BY <2>3 DEF Off
      <4>3. c \in Seq(Int) /\ Len(c) = n - 1 /\ \A i \in 1 .. n - 1 : c[i] = o[i]
        BY <2>3, <4>1 DEF Off
      <4>4. k = o[n]
        OBVIOUS
      <4> HIDE DEF a, c, n, k
      <4>5. b \in Seq(Int) /\ Len(b) = n /\ b[n] = k /\ \A i \in 1 .. n - 1 : b[i] = c[i]
        BY <3>2, <4>1, <4>3
      <4>6. \A i \in 1 .. n : i = n \/ i \in 1 .. n - 1
        BY <4>1
      <4> HIDE DEF b
      <4>7. \A i \in 1 .. n : a[i] = b[i]
        BY <4>2, <4>3, <4>4, <4>5, <4>6
      <4>8. a = [i \in 1 .. n |-> a[i]] /\ b = [i \in 1 .. n |-> b[i]]
        BY <4>2, <4>5
      <4>9. a = b
        BY <4>7, <4>8
      <4> QED
        BY <4>9 DEF a, b, c
    <3> QED
      BY <3>2, <3>3
  <2> HIDE DEF k, e
  <2>5. PICK v : stack' = Append(Rest(2), [e EXCEPT !.v = v])
    BY <2>1
  <2>6. k = Unknown \/ [e EXCEPT !.v = v].level = k
    <3>1. List(stack) /\ Len(stack) - 1 \in 1 .. Len(stack)
      BY <2>3 DEF Starts
    <3> QED
      BY <2>4
  <2>7. List(stack') /\ Matches(stack', r)
    BY <2>2, <2>3, <2>4, <2>5, <2>6, LeftOn
  <2> QED
    BY <2>1, <2>2, <2>7 DEF Left
<1>2. CASE Compare
  <2>1. Op \in Comparisons /\ gl_level' = gl_level /\ \E v : stack' = Append(Rest(2), Direct(v))
    BY <1>2 DEF Compare, At, Op, control, Error, Undefined, Starts
  <2>2. r = Append(Off(o, 2), 0) /\ Needs(Head(todo)) = 2 /\ LevelAfter(Head(todo), gl_level) = gl_level
    BY <2>1 DEF Starts, Leaves, Needs, LevelAfter, Op, Unary, Binary, Comparisons
  <2> DEFINE k == 0
  <2>3. 2 \in 0 .. Len(o) /\ k \in Int /\ \A v : Direct(v).level = k
    BY <2>2 DEF Starts, Direct
  <2>4. r = Append(Off(o, 2), k)
    BY <2>2
  <2> HIDE DEF k
  <2>5. List(stack') /\ Matches(stack', r)
    BY <2>1, <2>3, <2>4, LeftOn
  <2> QED
    BY <2>1, <2>2, <2>5 DEF Left
<1>3. CASE XCall
  <2> DEFINE n == Head(todo).n
  <2>1. Op = "XCALL" /\ gl_level' = gl_level /\ \E v : stack' = Append(Rest(n), Tagged(v))
    BY <1>3 DEF XCall, At, Op, control, Starts
  <2>2. r = Append(Off(o, n), gl_level) /\ Needs(Head(todo)) = n /\ LevelAfter(Head(todo), gl_level) = gl_level
    BY <2>1 DEF Starts, Leaves, Needs, LevelAfter, Op, Unary, Binary, Comparisons
  <2> HIDE DEF n
  <2>3. n \in 0 .. Len(o) /\ gl_level \in Int /\ \A v : Tagged(v).level = gl_level
    BY <2>2 DEF Starts, Tagged
  <2>4. List(stack') /\ Matches(stack', r)
    BY <2>1, <2>2, <2>3, LeftOn
  <2> QED
    BY <2>1, <2>2, <2>4 DEF Left
<1> QED
  BY <1>1, <1>2, <1>3

\* Parameters.
LEMMA ParamLeft ==
    ASSUME NEW o, NEW r, Starts(o, r), Param \/ ParamDefault \/ ReverseStack
    PROVE  Left(o, r)
<1>0. o \in Seq(Int) /\ Len(o) \in Nat /\ Len(stack) \in Nat /\ Len(o) <= Len(stack) /\ List(stack)
  BY ListType DEF Starts, Matches
<1>1. CASE Param
  <2>1. Op = "PARAM" /\ gl_level' = gl_level /\ stack # <<>> /\ stack' = Rest(1)
    BY <1>1 DEF Param, At, Op, Error, Undefined, Starts
  <2>2. r = (IF o = <<>> THEN <<>> ELSE Off(o, 1)) /\ LevelAfter(Head(todo), gl_level) = gl_level
    BY <2>1 DEF Starts, Leaves, LevelAfter, Op, Unary, Binary, Comparisons
  <2>3. CASE o = <<>>
    <3>1. Len(stack) # 0
      BY <1>0, <2>1 DEF List
    <3>2. Len(stack) - 1 \in 0 .. Len(stack)
      BY <1>0, <3>1
    <3>3. List(stack')
      BY <1>0, <2>1, <3>2, Lowest DEF Rest
    <3> QED
      BY <2>1, <2>2, <2>3, <3>3, MatchNone DEF Left
  <2>4. CASE o # <<>>
    <3>1. 1 \in 0 .. Len(o)
      BY <1>0, <2>4
    <3> QED
      BY <2>1, <2>2, <2>4, <3>1, LeftOff DEF Left
  <2> QED
    BY <2>3, <2>4
<1>2. CASE ParamDefault
  <2> DEFINE n == Min({2, Len(stack)})
  <2>1. Op = "PARAMX" /\ gl_level' = gl_level /\ stack' = Rest(n)
    BY <1>2 DEF ParamDefault, At, Op
  <2>2. /\ r = (IF Len(o) = 1 THEN <<>> ELSE Off(o, 2)) /\ LevelAfter(Head(todo), gl_level) = gl_level
        /\ Needs(Head(todo)) = 1
    BY <2>1 DEF Starts, Leaves, LevelAfter, Needs, Op, Unary, Binary, Comparisons
  <2>3. Len(o) >= 1 /\ Len(stack) >= 1
    BY <1>0, <2>2 DEF Starts
  <2>4. n = IF Len(stack) > 1 THEN 2 ELSE 1
    <3>1. CASE Len(stack) > 1
      BY <1>0, <3>1 DEF Min
    <3>2. CASE ~(Len(stack) > 1)
      <4>1. \A k \in Nat : k >= 1 /\ ~(k > 1) => k = 1
        OBVIOUS
      <4>2. Len(stack) = 1
        BY <1>0, <2>3, <3>2, <4>1
      <4> QED
        BY <3>2, <4>2 DEF Min
    <3> QED
      BY <3>1, <3>2
  <2> HIDE DEF n
  <2>5. CASE Len(o) = 1
    <3>1. Len(stack) - n \in 0 .. Len(stack)
      BY <1>0, <2>3, <2>4
    <3>2. List(stack')
      BY <1>0, <2>1, <3>1, Lowest DEF Rest
    <3> QED
      BY <2>1, <2>2, <2>5, <3>2, MatchNone DEF Left
  <2>6. CASE Len(o) # 1
    <3>1. \A k \in Nat : k >= 1 /\ k # 1 => 2 \in 0 .. k /\ k > 1
      OBVIOUS
    <3>2. \A k, j \in Nat : k > 1 /\ k <= j => j > 1
      OBVIOUS
    <3>3. 2 \in 0 .. Len(o) /\ n = 2
      BY <1>0, <2>3, <2>4, <2>6, <3>1, <3>2
    <3> QED
      BY <2>1, <2>2, <2>6, <3>3, LeftOff DEF Left
  <2> QED
    BY <2>5, <2>6
<1>3. CASE ReverseStack
  <2> DEFINE n == Head(todo).n
  <2>1. /\ Op = "REVERSE_STACK" /\ gl_level' = gl_level
        /\ stack' = Rest(n) \o Reverse(SubSeq(stack, Len(stack) - n + 1, Len(stack)))
    BY <1>3 DEF ReverseStack, At, Op
  <2>2. /\ r = Off(o, n) \o Reverse(SubSeq(o, Len(o) - n + 1, Len(o)))
        /\ LevelAfter(Head(todo), gl_level) = gl_level
        /\ Needs(Head(todo)) = n
    BY <2>1 DEF Starts, Leaves, LevelAfter, Needs, Op, Unary, Binary, Comparisons
  <2> HIDE DEF n
  <2>3. n \in 0 .. Len(o)
    BY <2>2 DEF Starts
  <2>4. Rest(n) = Off(stack, n)
    BY DEF Rest, Off
  <2>5. List(stack') /\ Matches(stack', r)
    BY <2>1, <2>2, <2>3, <2>4, MatchTurn DEF Starts
  <2> QED
    BY <2>1, <2>2, <2>5 DEF Left
<1> QED
  BY <1>1, <1>2, <1>3

\* Blocks' ends.
LEMMA EndLeft ==
    ASSUME NEW o, NEW r, Starts(o, r), ClearStack \/ Return \/ EndBlock
    PROVE  Left(o, r)
<1>0. o \in Seq(Int) /\ Len(o) \in Nat /\ Len(stack) \in Nat /\ Len(o) <= Len(stack) /\ List(stack)
  BY ListType DEF Starts, Matches
<1>1. CASE ClearStack
  <2>1. Op = "CLEAR_STACK" /\ gl_level' = gl_level /\ stack' = Cleared(stack)
    BY <1>1 DEF ClearStack, At, Op, control
  <2>2. Clears(o, gl_level, r) /\ LevelAfter(Head(todo), gl_level) = gl_level
    BY <2>1 DEF Starts, Leaves, LevelAfter, Op, Unary, Binary, Comparisons
  <2> QED
    BY <2>1, <2>2, MatchClear DEF Left, Starts
<1>2. CASE Return
  <2>1. Op = "RETURN" /\ gl_level' = gl_level - 1
    BY <1>2 DEF Return, At, Op
  <2>2. /\ LevelAfter(Head(todo), gl_level) = gl_level - 1
        /\ \/ o = <<>> /\ r = <<>>
           \/ o # <<>> /\ \E c : Clears(Off(o, 1), gl_level, c) /\ r = Append(c, o[Len(o)])
    BY <2>1 DEF Starts, Leaves, LevelAfter, Op, Unary, Binary, Comparisons
  <2>3. CASE stack = <<>>
    <3>1. Len(stack) = 0
      BY <2>3
    <3>2. o = <<>>
      BY <1>0, <3>1
    <3>3. List(stack')
      <4>1. \E e : stack' = Append(stack, e)
        BY <1>2, <2>3 DEF Return
      <4> QED
        BY <1>0, <4>1, ListAppend
    <3> QED
      BY <2>1, <2>2, <3>2, <3>3, MatchNone DEF Left
  <2>4. CASE stack # <<>>
    <3> DEFINE e == [stack[Len(stack)] EXCEPT !.v.ref = None]
    <3>1. stack' = Append(Cleared(Rest(1)), e)
      BY <1>2, <2>4 DEF Return
    <3>2. e.level = stack[Len(stack)].level
      OBVIOUS
    <3> HIDE DEF e
    <3>3. List(Rest(1))
      <4>1. Len(stack) # 0
        BY <1>0, <2>4 DEF List
      <4>2. Len(stack) - 1 \in 0 .. Len(stack)
        BY <1>0, <4>1
      <4> QED
        BY <1>0, <4>2, Lowest DEF Rest
    <3>4. CASE o = <<>>
      <4>1. List(stack')
        BY <3>1, <3>3, KeptType, ListAppend
      <4> QED
        BY <2>1, <2>2, <3>4, <4>1, MatchNone DEF Left
    <3>5. CASE o # <<>>
      <4> DEFINE k == o[Len(o)]
      <4>1. PICK c : Clears(Off(o, 1), gl_level, c) /\ r = Append(c, k)
        BY <2>2, <3>5
      <4>2. 1 \in 0 .. Len(o) /\ Len(o) \in 1 .. Len(o) /\ Len(stack) - Len(o) + Len(o) = Len(stack)
        BY <1>0, <3>5
      <4>3. k \in Int /\ (k = Unknown \/ e.level = k)
        BY <1>0, <3>2, <4>2 DEF Starts, Matches
      <4>4. Matches(Rest(1), Off(o, 1))
        <5>1. Rest(1) = Off(stack, 1)
          BY DEF Rest, Off
        <5> QED
          BY <4>2, <5>1, MatchOff DEF Starts
      <4> HIDE DEF k
      <4>5. List(Cleared(Rest(1))) /\ Matches(Cleared(Rest(1)), c)
        BY <3>3, <4>1, <4>4, MatchClear DEF Starts
      <4>6. List(stack') /\ Matches(stack', r)
        BY <3>1, <4>1, <4>3, <4>5, MatchOn
      <4> QED
        BY <2>1, <2>2, <4>6 DEF Left
    <3> QED
      BY <3>4, <3>5
  <2> QED
    BY <2>3, <2>4
<1>3. CASE EndBlock
  <2>1. Op = "BLOCK_END" /\ gl_level' = gl_level - 1 /\ \E v : stack' = Append(Cleared(stack), Tagged(v))
    BY <1>3 DEF EndBlock, At, Op
  <2>2. /\ LevelAfter(Head(todo), gl_level) = gl_level - 1
        /\ \E c : Clears(o, gl_level, c) /\ r = Append(c, gl_level)
    BY <2>1 DEF Starts, Leaves, LevelAfter, Op, Unary, Binary, Comparisons
  <2>3. PICK c : Clears(o, gl_level, c) /\ r = Append(c, gl_level)
    BY <2>2
  <2>4. List(Cleared(stack)) /\ Matches(Cleared(stack), c)
    BY <2>3, MatchClear DEF Starts
  <2>5. gl_level \in Int /\ \A v : Tagged(v).level = gl_level
    BY DEF Starts, Tagged
  <2>6. List(stack') /\ Matches(stack', r)
    BY <2>1, <2>3, <2>4, <2>5, MatchOn
  <2> QED
    BY <2>1, <2>2, <2>6 DEF Left
<1> QED
  BY <1>1, <1>2, <1>3

\* No instruction takes more than it finds.
LEMMA StepFed ==
    ASSUME FedPrograms, FInv, [Next]_vars
    PROVE  FInv'
<1> SUFFICES ASSUME status' = "run" PROVE FInv'
  BY DEF FInv
<1>1. CASE UNCHANGED vars
  BY <1>1 DEF vars, FInv, control
<1>2. CASE ~UNCHANGED vars
  <2>1. status = "run"
    <3>1. CASE status # "run"
      <4>1. Stop
        BY <1>2, <3>1, NoneRuns
      <4> QED
        BY <4>1 DEF Stop
    <3> QED
      BY <3>1
  <2>2. PICK o : Matches(stack, o) /\ Fed(todo, gl_level, o)
    BY <2>1 DEF FInv
  <2>3. List(stack) /\ List(todo)
    BY <2>1 DEF FInv
  <2>4. CASE todo = <<>>
    <3>1. NextStatement
      BY <1>2, <2>1, <2>4 DEF Next, AsVar, AsConstant, Show, ClearStack, Declare, DeclareWith, Assign, SetElem,
         AddElem, AccessIndex, AccessPath, AccessFails, Arithmetic, Compare, Change, XCall, ReverseStack,
         Call, Param, ParamDefault, Return, EndBlock, Finish, Stop, Ended, At
    <3>2. stack' = stack /\ gl_level' = gl_level /\ todo' \in Statements
      BY <3>1 DEF NextStatement, control
    <3>3. gl_level = 0
      BY <2>2, <2>4 DEF Fed
    <3>4. List(todo') /\ Fed(todo', gl_level', <<>>)
      BY <3>2, <3>3 DEF FedPrograms
    <3>5. Matches(stack', <<>>)
      BY <2>3, <3>2, MatchNone
    <3> QED
      BY <2>3, <3>2, <3>4, <3>5 DEF FInv
  <2>5. CASE todo # <<>>
    <3>1. /\ gl_level \in Levels /\ Needs(Head(todo)) \in 0 .. Len(o) /\ List(Tail(todo))
          /\ \E r : Leaves(Head(todo), gl_level, o, r) /\ Fed(Tail(todo), LevelAfter(Head(todo), gl_level), r)
      BY <2>2, <2>3, <2>5, FedNext
    <3>2. PICK r : Leaves(Head(todo), gl_level, o, r) /\ Fed(Tail(todo), LevelAfter(Head(todo), gl_level), r)
      BY <3>1
    <3>3. Starts(o, r)
      BY <2>2, <2>3, <3>1, <3>2 DEF Starts, Levels
    <3>4. ~NextStatement /\ ~Finish /\ ~Stop /\ ~Ended /\ ~AccessFails
      BY <1>2, <2>1, <2>5 DEF NextStatement, Finish, Stop, Ended, AccessFails, Error
    <3>5. Left(o, r)
      BY <1>2, <3>3, <3>4, PushLeft, TakeLeft, SameLeft, ElementLeft, OperatorLeft, ParamLeft, EndLeft DEF Next
    <3>6. todo' = Tail(todo)
      BY <1>2, <3>4 DEF Next, AsVar, AsConstant, Show, ClearStack, Declare, DeclareWith, Assign, SetElem,
         AddElem, AccessIndex, AccessPath, Arithmetic, Compare, Change, XCall, ReverseStack,
         Call, Param, ParamDefault, Return, EndBlock, Done, Error, Undefined
    <3> QED
      BY <3>1, <3>2, <3>5, <3>6 DEF FInv, Left
  <2> QED
    BY <2>4, <2>5
<1> QED
  BY <1>1, <1>2

\* The prologue is fed.
LEMMA InitFed ==
    ASSUME FedPrograms, Init
    PROVE  FInv
<1>1. stack = <<>> /\ gl_level = 0 /\ List(todo) /\ Fed(todo, 0, <<>>)
  BY DEF Init, FedPrograms
<1>2. List(stack)
  BY <1>1 DEF List
<1> QED
  BY <1>1, <1>2, MatchNone DEF FInv

\* In every program that puts enough on the stack for its instructions, level
\* by level, neither stack_clear nor the end of a block takes an operand away
\* that an instruction still needs.
THEOREM SuppliedHolds ==
    ASSUME FedPrograms
    PROVE  Spec => []Supplied
<1>1. Init => FInv
  BY InitFed
<1>2. FInv /\ [Next]_vars => FInv'
  BY StepFed
<1>3. FInv => Supplied
  <2> SUFFICES ASSUME FInv, status = "run", todo # <<>> PROVE Arity \in 0 .. Len(stack)
    BY DEF Supplied
  <2>1. PICK o : Matches(stack, o) /\ Fed(todo, gl_level, o)
    BY DEF FInv
  <2>2. Needs(Head(todo)) \in 0 .. Len(o)
    BY <2>1, FedNext DEF FInv
  <2>3. Arity = Needs(Head(todo))
    BY DEF Arity, Needs, Op
  <2>4. Len(o) \in Nat /\ Len(stack) \in Nat /\ Len(o) <= Len(stack)
    BY <2>1, ListType DEF FInv, Matches
  <2> QED
    BY <2>2, <2>3, <2>4
<1> QED
  BY <1>1, <1>2, <1>3, PTL DEF Spec

\* In a program that feeds its instructions, no two variables or operands lead
\* to the same datum and what is freed is allocated and freed once, as long as
\* the access paths find v2 without data.
THEOREM FedOneOwner ==
    ASSUME TreeLiterals, FedPrograms
    PROVE  Spec /\ []CleanPath => []OneOwner /\ NothingFreedTwice
<1>1. Spec => []Supplied
  BY SuppliedHolds
<1>2. Spec /\ []Supplied /\ []CleanPath => []OneOwner
  BY OneOwnerHolds
<1>3. Spec /\ []Supplied /\ []CleanPath => NothingFreedTwice
  BY NothingFreedTwiceHolds
<1> QED
  BY <1>1, <1>2, <1>3, PTL

-----------------------------------------------------------------------------
(* Types: what a var says of its data.                                      *)

Types == {"UNSET", "DOUBLE", "STRING", "ARRAY", "MAP"}

\* A var whose data, if it has any, are of its type, and whose reference is to
\* one of the names.
Agrees(h, names, v) ==
    /\ v \in [type : Types, data : 0 .. Len(h), ref : names \cup {None}]
    /\ v.data # 0 => h[v.data].kind = v.type

\* A slot: a NULL among the vars of an array, or such a var.
Slot(h, names, v) == v = Hole \/ Agrees(h, names, v)

Agreeing(h, names) == \A a \in DOMAIN h : \A s \in DOMAIN h[a].slots : Slot(h, names, h[a].slots[s])

\* g has the data of h, and perhaps more.
Grows(h, g) ==
    /\ Len(h) \in Nat /\ Len(g) \in Nat /\ Len(h) <= Len(g)
    /\ \A a \in 1 .. Len(h) : g[a].kind = h[a].kind

\* Types stay right when data and names are added.
LEMMA AgreesMore ==
    ASSUME NEW h, NEW g, Grows(h, g), NEW names, NEW more, names \subseteq more
    PROVE  \A v : (Agrees(h, names, v) => Agrees(g, more, v)) /\ (Slot(h, names, v) => Slot(g, more, v))
<1>1. ASSUME NEW v, Agrees(h, names, v)
      PROVE  Agrees(g, more, v)
  <2>1. v.data \in 0 .. Len(h) /\ v.data \in 0 .. Len(g)
    BY <1>1 DEF Agrees, Grows
  <2>2. v.data # 0 => v.data \in 1 .. Len(h)
    BY <2>1 DEF Grows
  <2>3. v.data # 0 => g[v.data].kind = v.type
    BY <1>1, <2>2 DEF Agrees, Grows
  <2>4. v \in [type : Types, data : 0 .. Len(g), ref : more \cup {None}]
    BY <1>1, <2>1 DEF Agrees
  <2> QED
    BY <2>3, <2>4 DEF Agrees
<1> QED
  BY <1>1 DEF Slot

\* What grows twice, or not at all, grows.
LEMMA GrowsOn ==
    ASSUME NEW f, NEW g, NEW h, Grows(f, g), Grows(g, h)
    PROVE  Grows(f, h)
<1>1. \A a \in 1 .. Len(f) : a \in 1 .. Len(g)
  BY DEF Grows
<1> QED
  BY <1>1 DEF Grows

\* A heap grows to itself.
LEMMA GrowsSame ==
    ASSUME NEW h, Heaped(h)
    PROVE  Grows(h, h)
  BY ListType DEF Heaped, Grows

\* A heap with other contents, and the same kinds and slots.
LEMMA AlikeAgrees ==
    ASSUME NEW h, Heaped(h), NEW names, Agreeing(h, names), NEW g, List(g), DOMAIN g = DOMAIN h,
           \A a \in DOMAIN h : g[a].kind = h[a].kind /\ g[a].slots = h[a].slots
    PROVE  Agreeing(g, names) /\ Grows(h, g) /\ Len(g) = Len(h)
<1>1. Len(h) \in Nat /\ Len(g) \in Nat /\ DOMAIN h = 1 .. Len(h) /\ DOMAIN g = 1 .. Len(g)
  BY ListType DEF Heaped
<1>2. Len(g) = Len(h)
  BY <1>1
<1>3. Grows(h, g)
  BY <1>1, <1>2 DEF Grows
<1>4. \A v : Slot(h, names, v) => Slot(g, names, v)
  BY <1>3, AgreesMore
<1> QED
  BY <1>2, <1>3, <1>4 DEF Agreeing

\* The content of a datum.
LEMMA ValAgrees ==
    ASSUME NEW h, Heaped(h), NEW names, Agreeing(h, names), NEW a, NEW x
    PROVE  LET g == [h EXCEPT ![a].val = x]
           IN  Agreeing(g, names) /\ Grows(h, g)
<1> DEFINE g == [h EXCEPT ![a].val = x]
<1>1. g = [b \in DOMAIN h |-> g[b]] /\ DOMAIN g = DOMAIN h
  OBVIOUS
<1>2. \A b \in DOMAIN h : g[b].kind = h[b].kind /\ g[b].slots = h[b].slots
  BY DEF Heaped, Cell, Shaped
<1> HIDE DEF g
<1>3. List(g)
  BY <1>1, ListSame DEF Heaped
<1> QED
  BY <1>1, <1>2, <1>3, AlikeAgrees DEF g

\* var_unset.
LEMMA FreeAgrees ==
    ASSUME NEW m, Heaped(m.h), NEW names, Agreeing(m.h, names), NEW vs
    PROVE  LET g == Free(m, vs).h
           IN  Agreeing(g, names) /\ Grows(m.h, g) /\ Heaped(g) /\ Len(g) = Len(m.h)
<1> DEFINE gone == UNION {DataOf(m, vs[i]) : i \in DOMAIN vs}
           l(a) == m.h[a].live /\ a \notin gone
           g == [a \in DOMAIN m.h |-> [m.h[a] EXCEPT !.live = l(a)]]
<1>1. Free(m, vs).h = g
  BY DEF Free
<1>2. \A a \in DOMAIN m.h : m.h[a].live \in BOOLEAN
  BY DEF Heaped, Cell
<1>3. \A a \in DOMAIN m.h : l(a) \in BOOLEAN
  BY <1>2
<1> HIDE DEF gone, l
<1>4. g = [a \in DOMAIN m.h |-> g[a]] /\ DOMAIN g = DOMAIN m.h
  OBVIOUS
<1>5. \A a \in DOMAIN m.h : Cell(g[a], Len(m.h)) /\ g[a].kind = m.h[a].kind /\ g[a].slots = m.h[a].slots
  <2> TAKE a \in DOMAIN m.h
  <2>1. Cell(m.h[a], Len(m.h)) /\ g[a] = [m.h[a] EXCEPT !.live = l(a)]
    BY DEF Heaped
  <2> HIDE DEF g
  <2>2. Shaped(g[a]) /\ g[a].live = l(a) /\ g[a].kind = m.h[a].kind /\ g[a].val = m.h[a].val
        /\ g[a].slots = m.h[a].slots
    BY <2>1 DEF Cell, Shaped
  <2> QED
    BY <1>3, <2>1, <2>2 DEF Cell
<1> HIDE DEF g
<1>6. List(g) /\ Len(g) = Len(m.h)
  BY <1>4, ListSame DEF Heaped
<1>7. Heaped(g)
  BY <1>4, <1>5, <1>6 DEF Heaped
<1>8. Agreeing(g, names) /\ Grows(m.h, g)
  BY <1>4, <1>5, <1>6, AlikeAgrees
<1> QED
  BY <1>1, <1>6, <1>7, <1>8

\* One datum changed.
LEMMA WithAgrees ==
    ASSUME NEW h, Heaped(h), NEW names, Agreeing(h, names), NEW a, NEW o,
           a \in DOMAIN h => /\ o.kind = h[a].kind
                             /\ \A s \in DOMAIN o.slots : Slot(h, names, o.slots[s])
    PROVE  LET g == [h EXCEPT ![a] = o]
           IN  Agreeing(g, names) /\ Grows(h, g)
<1> DEFINE g == [h EXCEPT ![a] = o]
<1>1. g = [b \in DOMAIN h |-> g[b]] /\ DOMAIN g = DOMAIN h
      /\ \A b \in DOMAIN h : g[b] = IF b = a THEN o ELSE h[b]
  OBVIOUS
<1> HIDE DEF g
<1>2. List(g) /\ Len(g) = Len(h)
  BY <1>1, ListSame DEF Heaped
<1>3. Len(h) \in Nat /\ DOMAIN h = 1 .. Len(h)
  BY ListType DEF Heaped
<1>4. Grows(h, g)
  BY <1>1, <1>2, <1>3 DEF Grows
<1>5. \A v : Slot(h, names, v) => Slot(g, names, v)
  BY <1>4, AgreesMore
<1>6. Agreeing(g, names)
  BY <1>1, <1>5 DEF Agreeing
<1> QED
  BY <1>4, <1>6 DEF g

\* What is allocated: the fragment's pointers are moved with it.
LEMMA AllocateAgrees ==
    ASSUME NEW m, "h" \in DOMAIN m, Heaped(m.h), NEW names, Agreeing(m.h, names),
           NEW f, List(f), Agreeing(f, names), \A i \in DOMAIN f : Cell(f[i], Len(f))
    PROVE  LET g == Allocate(m, f).h
           IN  /\ Agreeing(g, names) /\ Grows(m.h, g) /\ Len(g) = Len(m.h) + Len(f)
               /\ \A i \in DOMAIN f : g[Len(m.h) + i].kind = f[i].kind
<1> DEFINE n == Len(m.h)
           slots(i) == [s \in DOMAIN f[i].slots |->
                          IF f[i].slots[s].data = 0 THEN f[i].slots[s]
                          ELSE [f[i].slots[s] EXCEPT !.data = f[i].slots[s].data + n]]
           new == [i \in DOMAIN f |-> [f[i] EXCEPT !.slots = slots(i)]]
           g == m.h \o new
<1>1. Allocate(m, f).h = g
  BY DEF Allocate, Moved
<1>2. /\ List(m.h) /\ n \in Nat /\ DOMAIN m.h = 1 .. n
      /\ Len(f) \in Nat /\ DOMAIN f = 1 .. Len(f)
  BY ListType DEF Heaped
<1> HIDE DEF n
<1>3. \A i \in DOMAIN f : new[i].slots = slots(i) /\ new[i].kind = f[i].kind /\ DOMAIN slots(i) = DOMAIN f[i].slots
  BY DEF Cell, Shaped
<1>4. DOMAIN new = DOMAIN f /\ new = [i \in DOMAIN f |-> new[i]]
  OBVIOUS
<1>5. \A i \in DOMAIN f : \A s \in DOMAIN f[i].slots :
        slots(i)[s] = IF f[i].slots[s].data = 0 THEN f[i].slots[s]
                      ELSE [f[i].slots[s] EXCEPT !.data = f[i].slots[s].data + n]
  OBVIOUS
<1> HIDE DEF new, slots
<1>6. List(new) /\ Len(new) = Len(f)
  BY <1>4, ListSame
<1>7. /\ List(g) /\ Len(g) = n + Len(f)
      /\ \A i \in DOMAIN g : g[i] = IF i <= n THEN m.h[i] ELSE new[i - n]
  BY <1>2, <1>6, ListJoin DEF n
<1> HIDE DEF g
<1>8. DOMAIN g = 1 .. n + Len(f)
  BY <1>7, ListType
<1>9. /\ \A a \in 1 .. n : a \in DOMAIN g /\ g[a] = m.h[a]
      /\ \A i \in DOMAIN f : n + i \in DOMAIN g /\ g[n + i] = new[i]
      /\ \A a \in DOMAIN g : a \in 1 .. n \/ \E i \in DOMAIN f : a = n + i
  <2>1. \A i \in DOMAIN f : n + i \in DOMAIN g /\ ~(n + i <= n) /\ n + i - n = i
    BY <1>2, <1>8
  <2>2. \A a \in DOMAIN g : a \in 1 .. n \/ (a - n \in DOMAIN f /\ a = n + (a - n))
    BY <1>2, <1>8
  <2> QED
    BY <1>2, <1>7, <1>8, <2>1, <2>2
<1>10. Grows(m.h, g)
  BY <1>2, <1>7, <1>9 DEF Grows, n
<1>11. \A v : Slot(m.h, names, v) => Slot(g, names, v)
  BY <1>10, AgreesMore
<1>12. \A i \in DOMAIN f : \A s \in DOMAIN f[i].slots : Slot(g, names, slots(i)[s])
  <2> TAKE i \in DOMAIN f
  <2> TAKE s \in DOMAIN f[i].slots
  <2> DEFINE w == f[i].slots[s]
             x == slots(i)[s]
  <2>1. Slot(f, names, w)
    BY DEF Agreeing
  <2>2. x = IF w.data = 0 THEN w ELSE [w EXCEPT !.data = w.data + n]
    BY <1>5
  <2> SUFFICES Slot(g, names, x)
    OBVIOUS
  <2> HIDE DEF w, x
  <2>3. CASE w = Hole
    BY <2>2, <2>3 DEF Slot, Hole, Var
  <2>4. CASE Agrees(f, names, w) /\ w.data = 0
    <3>1. x = w /\ 0 \in 0 .. Len(g)
      BY <1>2, <1>7, <2>2, <2>4
    <3> QED
      BY <2>4, <3>1 DEF Slot, Agrees
  <2>5. CASE Agrees(f, names, w) /\ w.data # 0
    <3> DEFINE p == w.data
    <3>1. w \in [type : Types, data : 0 .. Len(f), ref : names \cup {None}] /\ f[p].kind = w.type
      BY <2>5 DEF Agrees
    <3>2. p \in DOMAIN f
      BY <1>2, <2>5, <3>1
    <3>3. n + p \in DOMAIN g /\ g[n + p].kind = w.type /\ p + n = n + p /\ n + p \in 0 .. Len(g)
      BY <1>2, <1>3, <1>7, <1>8, <1>9, <3>1, <3>2
    <3>4. x = [w EXCEPT !.data = n + p]
      BY <2>2, <2>5, <3>3
    <3> HIDE DEF p
    <3>5. x \in [type : Types, data : 0 .. Len(g), ref : names \cup {None}] /\ x.data = n + p /\ x.type = w.type
      BY <3>1, <3>3, <3>4
    <3> QED
      BY <3>3, <3>5 DEF Slot, Agrees
  <2> QED
    BY <2>1, <2>3, <2>4, <2>5 DEF Slot
<1>13. Agreeing(g, names)
  <2> SUFFICES ASSUME NEW a \in DOMAIN g, NEW s \in DOMAIN g[a].slots
               PROVE  Slot(g, names, g[a].slots[s])
    BY DEF Agreeing
  <2>1. CASE a \in 1 .. n
    BY <1>2, <1>9, <1>11, <2>1 DEF Agreeing
  <2>2. CASE \E i \in DOMAIN f : a = n + i
    BY <1>3, <1>9, <1>12, <2>2
  <2> QED
    BY <1>9, <2>1, <2>2
<1> QED
  BY <1>1, <1>3, <1>7, <1>9, <1>10, <1>13 DEF n

\* A var that is moved with its data.
LEMMA AgreesMoved ==
    ASSUME NEW h, NEW g, NEW names, NEW v, Agrees(h, names, v), NEW p \in 1 .. Len(g), Len(g) \in Nat,
           g[p].kind = v.type, NEW w, w = [v EXCEPT !.data = p]
    PROVE  Agrees(g, names, w)
<1>1. p \in 0 .. Len(g) /\ p # 0
  OBVIOUS
<1>2. v \in [type : Types, data : 0 .. Len(h), ref : names \cup {None}]
  BY DEF Agrees
<1>3. w \in [type : Types, data : 0 .. Len(g), ref : names \cup {None}] /\ w.data = p /\ w.type = v.type
  BY <1>1, <1>2
<1> QED
  BY <1>3 DEF Agrees

\* A clone.
LEMMA CloneAgrees ==
    ASSUME NEW m, DOMAIN m = {"h", "bad"}, Heaped(m.h), NEW names, Agreeing(m.h, names),
           NEW v, v.data \in DOMAIN m.h
    PROVE  LET g == Clone(m, v).h
           IN  /\ Agreeing(g, names) /\ Grows(m.h, g)
               /\ Len(m.h) + 1 \in 1 .. Len(g) /\ g[Len(m.h) + 1].kind = m.h[v.data].kind
<1>1. PICK order, copies : Copies(m, v, order, copies)
  BY CloneCopies
<1>2. /\ Clone(m, v).h = Allocate(m, copies).h
      /\ List(copies) /\ Len(copies) \in Nat /\ DOMAIN copies = 1 .. Len(copies)
      /\ 1 \in DOMAIN copies /\ order[1] = v.data
  BY <1>1 DEF Copies
<1>3. \A i \in DOMAIN copies : order[i] \in DOMAIN m.h
  <2>1. Reach(m.h, v.data) \in SUBSET DOMAIN m.h
    BY ReachLeast
  <2> QED
    BY <1>1, <2>1 DEF Copies
<1>4. \A i \in DOMAIN copies : Cell(copies[i], Len(copies)) /\ copies[i].kind = m.h[order[i]].kind
  BY <1>1 DEF Copies
<1>5. Agreeing(copies, names)
  <2> SUFFICES ASSUME NEW i \in DOMAIN copies, NEW s \in DOMAIN copies[i].slots
               PROVE  Slot(copies, names, copies[i].slots[s])
    BY DEF Agreeing
  <2> DEFINE w == m.h[order[i]].slots[s]
             x == copies[i].slots[s]
  <2>1. /\ s \in DOMAIN m.h[order[i]].slots
        /\ \/ w.data = 0 /\ x = w
           \/ \E j \in DOMAIN copies : order[j] = w.data /\ x = [w EXCEPT !.data = j]
    BY <1>1 DEF Copies
  <2>2. Slot(m.h, names, w)
    BY <1>3, <2>1 DEF Agreeing
  <2> SUFFICES Slot(copies, names, x)
    OBVIOUS
  <2> HIDE DEF w, x
  <2>3. CASE w.data = 0 /\ x = w
    <3>1. 0 \in 0 .. Len(copies)
      BY <1>2
    <3> QED
      BY <2>2, <2>3, <3>1 DEF Slot, Agrees
  <2>4. CASE \E j \in DOMAIN copies : order[j] = w.data /\ x = [w EXCEPT !.data = j]
    <3>1. PICK j \in DOMAIN copies : order[j] = w.data /\ x = [w EXCEPT !.data = j]
      BY <2>4
    <3>2. w.data \in DOMAIN m.h /\ 0 \notin DOMAIN m.h
      BY <1>3, <3>1, ListType DEF Heaped
    <3>3. Agrees(m.h, names, w) /\ w.data # 0
      BY <2>2, <3>2 DEF Slot, Hole, Var
    <3>4. copies[j].kind = w.type
      BY <1>4, <3>1, <3>3 DEF Agrees
    <3>5. j \in 1 .. Len(copies)
      BY <1>2
    <3> QED
      BY <1>2, <3>1, <3>3, <3>4, <3>5, AgreesMoved DEF Slot
  <2> QED
    BY <2>1, <2>3, <2>4
<1>6. LET g == Allocate(m, copies).h
      IN  /\ Agreeing(g, names) /\ Grows(m.h, g) /\ Len(g) = Len(m.h) + Len(copies)
          /\ \A i \in DOMAIN copies : g[Len(m.h) + i].kind = copies[i].kind
  BY <1>2, <1>4, <1>5, AllocateAgrees
<1>7. Len(m.h) \in Nat
  BY ListType DEF Heaped
<1> QED
  BY <1>2, <1>4, <1>6, <1>7

\* A clone that a var of its type gets.
LEMMA CloneGiven ==
    ASSUME NEW m, Heaped(m.h), NEW names, NEW k, DOMAIN k = {"h", "bad"}, Heaped(k.h), Agreeing(k.h, names),
           Grows(m.h, k.h), Len(k.h) = Len(m.h),
           NEW b, Agrees(m.h, names, b), b.data # 0,
           NEW c, c.m = Clone(k, b), c.v.data = Len(m.h) + 1, c.v.type = b.type,
           c.v \in [type : Types, data : Nat, ref : names \cup {None}]
    PROVE  Agreeing(c.m.h, names) /\ Grows(m.h, c.m.h) /\ Agrees(c.m.h, names, c.v)
<1> DEFINE p == Len(m.h) + 1
<1>1. b.data \in DOMAIN m.h /\ m.h[b.data].kind = b.type
  BY ListType DEF Agrees, Heaped
<1>2. b.data \in DOMAIN k.h /\ k.h[b.data].kind = b.type
  BY <1>1, ListType DEF Heaped, Grows
<1>3. /\ Agreeing(c.m.h, names) /\ Grows(k.h, c.m.h)
      /\ p \in 1 .. Len(c.m.h) /\ c.m.h[p].kind = b.type
  <2>1. LET g == Clone(k, b).h
        IN  /\ Agreeing(g, names) /\ Grows(k.h, g)
            /\ Len(k.h) + 1 \in 1 .. Len(g) /\ g[Len(k.h) + 1].kind = k.h[b.data].kind
    BY <1>2, CloneAgrees
  <2> QED
    BY <1>2, <2>1
<1>4. Grows(m.h, c.m.h) /\ Len(c.m.h) \in Nat
  BY <1>3, GrowsOn DEF Grows
<1> HIDE DEF p
<1>5. c.v.data = p
  BY DEF p
<1>6. p \in 0 .. Len(c.m.h)
  BY <1>3, <1>4
<1>7. c.v \in [type : Types, data : 0 .. Len(c.m.h), ref : names \cup {None}]
  BY <1>5, <1>6
<1>8. Agrees(c.m.h, names, c.v)
  BY <1>3, <1>5, <1>7 DEF Agrees
<1> QED
  BY <1>3, <1>4, <1>8

\* op_copy: what it gives has the type of its data.
LEMMA CopyAgrees ==
    ASSUME NEW m, DOMAIN m = {"h", "bad"}, Heaped(m.h), NEW names, Agreeing(m.h, names),
           NEW a, a.data = 0 \/ Agrees(m.h, names, a), NEW b, Agrees(m.h, names, b)
    PROVE  LET c == op_copy(m, a, b)
           IN  Agreeing(c.m.h, names) /\ Grows(m.h, c.m.h) /\ Agrees(c.m.h, names, c.v)
<1> DEFINE c == op_copy(m, a, b)
           n == Len(m.h)
           F == Free(m, <<a>>)
<1> SUFFICES Agreeing(c.m.h, names) /\ Grows(m.h, c.m.h) /\ Agrees(c.m.h, names, c.v)
  OBVIOUS
<1>1. n \in Nat /\ DOMAIN m.h = 1 .. n
  BY ListType DEF Heaped
<1>2. CASE b.data = 0
  <2>1. c.m = m /\ c.v = b
    BY <1>2 DEF op_copy
  <2> QED
    BY <2>1, GrowsSame
<1>3. CASE b.data # 0
  <2>1. b.data \in DOMAIN m.h /\ m.h[b.data].kind = b.type
    BY <1>1, <1>3 DEF Agrees
  <2>3. CASE a.data = 0
    <3>1. c.m = Clone(m, b) /\ c.v = [b EXCEPT !.data = n + 1]
      BY <1>3, <2>3 DEF op_copy
    <3> HIDE DEF c
    <3>2. c.v.data = n + 1 /\ c.v.type = b.type /\ c.v \in [type : Types, data : Nat, ref : names \cup {None}]
      BY <1>1, <3>1 DEF Agrees
    <3>3. c.m = Clone(m, b)
      BY <3>1
    <3> HIDE DEF n
    <3>4. c.v.data = Len(m.h) + 1 /\ c.v.type = b.type
      BY <3>2 DEF n
    <3>5. c.v \in [type : Types, data : Nat, ref : names \cup {None}]
      BY <3>2
    <3>6. Grows(m.h, m.h)
      BY GrowsSame
    <3> QED
      BY <1>3, <3>3, <3>4, <3>5, <3>6, CloneGiven
  <2>4. CASE a.data # 0 /\ SameSize(m, a, b) /\ a.type \in Composite
    <3>1. c.m = Clone(m, b) /\ c.v = [a EXCEPT !.data = n + 1] /\ a.type = b.type
      BY <1>3, <2>4 DEF op_copy, SameSize
    <3> HIDE DEF c
    <3>2. c.v.data = n + 1 /\ c.v.type = b.type /\ c.v \in [type : Types, data : Nat, ref : names \cup {None}]
      BY <1>1, <2>4, <3>1 DEF Agrees
    <3>3. c.m = Clone(m, b)
      BY <3>1
    <3> HIDE DEF n
    <3>4. c.v.data = Len(m.h) + 1 /\ c.v.type = b.type
      BY <3>2 DEF n
    <3>5. c.v \in [type : Types, data : Nat, ref : names \cup {None}]
      BY <3>2
    <3>6. Grows(m.h, m.h)
      BY GrowsSame
    <3> QED
      BY <1>3, <3>3, <3>4, <3>5, <3>6, CloneGiven
  <2>5. CASE a.data # 0 /\ SameSize(m, a, b) /\ a.type \notin Composite
    <3>1. c.m.h = [m.h EXCEPT ![a.data].val = m.h[b.data].val] /\ c.v = a
      BY <1>3, <2>5 DEF op_copy
    <3> HIDE DEF c
    <3>2. Agreeing(c.m.h, names) /\ Grows(m.h, c.m.h)
      BY <3>1, ValAgrees
    <3> QED
      BY <2>5, <3>1, <3>2, AgreesMore, Zenon
  <2>6. CASE a.data # 0 /\ ~SameSize(m, a, b)
    <3>1. c.m = Clone(F, b) /\ c.v = [b EXCEPT !.data = n + 1]
      BY <1>3, <2>6 DEF op_copy
    <3>2. Agreeing(F.h, names) /\ Grows(m.h, F.h) /\ Heaped(F.h) /\ Len(F.h) = n
      BY FreeAgrees
    <3>3. DOMAIN F = {"h", "bad"}
      BY DEF Free
    <3> HIDE DEF c, F
    <3>4. c.v.data = n + 1 /\ c.v.type = b.type /\ c.v \in [type : Types, data : Nat, ref : names \cup {None}]
      BY <1>1, <3>1 DEF Agrees
    <3>5. c.m = Clone(F, b)
      BY <3>1
    <3> HIDE DEF n
    <3>6. c.v.data = Len(m.h) + 1 /\ c.v.type = b.type /\ Len(F.h) = Len(m.h)
      BY <3>2, <3>4 DEF n
    <3>7. c.v \in [type : Types, data : Nat, ref : names \cup {None}]
      BY <3>4
    <3> QED
      BY <1>3, <3>2, <3>3, <3>5, <3>6, <3>7, CloneGiven
  <2> QED
    BY <2>3, <2>4, <2>5, <2>6
<1> QED
  BY <1>2, <1>3

\* array_push.
LEMMA PushAgrees ==
    ASSUME NEW m, DOMAIN m = {"h", "bad"}, Heaped(m.h), NEW names, Agreeing(m.h, names),
           NEW a \in DOMAIN m.h, m.h[a].kind = "ARRAY", NEW v, Slot(m.h, names, v)
    PROVE  LET g == array_push(m, a, v).h
           IN  Agreeing(g, names) /\ Grows(m.h, g)
<1> DEFINE o == m.h[a]
           new == IF o.max_size < MinArray THEN 2 * MinArray ELSE 2 * o.max_size
           t == Append(o.slots, v)
           c == IF Len(o.slots) >= o.max_size
                THEN [o EXCEPT !.slots = t, !.max_size = new, !.cap = new]
                ELSE [o EXCEPT !.slots = t]
<1>1. array_push(m, a, v).h = [m.h EXCEPT ![a] = c]
  BY DEF array_push
<1>2. Cell(o, Len(m.h)) /\ List(o.slots)
  BY DEF Heaped, Cell
<1> HIDE DEF new
<1>3. c.kind = o.kind /\ c.slots = t
  BY <1>2 DEF Cell, Shaped
<1> HIDE DEF c
<1>4. /\ DOMAIN t = 1 .. Len(o.slots) + 1 /\ Len(o.slots) \in Nat /\ DOMAIN o.slots = 1 .. Len(o.slots)
  BY <1>2, ListAppend, ListType
<1>5. t[Len(o.slots) + 1] = v /\ \A i \in DOMAIN o.slots : t[i] = o.slots[i]
  <2> DEFINE T == Range(o.slots) \cup {v}
  <2>1. o.slots \in Seq(T) /\ v \in T
    BY <1>2 DEF List
  <2> HIDE DEF T
  <2> QED
    BY <2>1
<1> HIDE DEF t
<1>6. \A i \in DOMAIN t : i = Len(o.slots) + 1 \/ i \in DOMAIN o.slots
  BY <1>4
<1>7. \A s \in DOMAIN c.slots : Slot(m.h, names, c.slots[s])
  BY <1>3, <1>5, <1>6 DEF Agreeing
<1> HIDE DEF o
<1>8. c.kind = m.h[a].kind
  BY <1>3 DEF o
<1> QED
  BY <1>1, <1>7, <1>8, WithAgrees

\* array_set_elem.
LEMMA SetElemAgrees ==
    ASSUME NEW m, DOMAIN m = {"h", "bad"}, Heaped(m.h), NEW names, Agreeing(m.h, names),
           NEW a \in DOMAIN m.h, m.h[a].kind = "ARRAY", NEW index \in Nat, NEW w, Slot(m.h, names, w)
    PROVE  LET g == array_set_elem(m, a, index, w).h
           IN  Agreeing(g, names) /\ Grows(m.h, g)
<1> DEFINE o == m.h[a]
           new == Max({index + 1, 2 * o.max_size})
           long == [i \in 1 .. index + 1 |->
                      IF i = index + 1 THEN w ELSE IF i <= Len(o.slots) THEN o.slots[i] ELSE Hole]
           set == [o.slots EXCEPT ![index + 1] = w]
           c == IF index < Len(o.slots) THEN [o EXCEPT !.slots = set]
                ELSE IF index < o.max_size THEN [o EXCEPT !.slots = long]
                ELSE [o EXCEPT !.slots = long, !.max_size = new, !.cap = new]
           t == IF index < Len(o.slots) THEN set ELSE long
<1>1. array_set_elem(m, a, index, w).h = [m.h EXCEPT ![a] = c]
  BY DEF array_set_elem
<1>2. Cell(o, Len(m.h))
  BY DEF Heaped
<1> HIDE DEF new, long, set
<1>3. c.kind = o.kind /\ c.slots = t
  BY <1>2 DEF Cell, Shaped
<1> HIDE DEF c
<1>4. Len(o.slots) \in Nat /\ DOMAIN o.slots = 1 .. Len(o.slots)
  BY <1>2, ListType DEF Cell
<1>5. \A i \in DOMAIN t : t[i] \in {w, Hole} \/ (i \in DOMAIN o.slots /\ t[i] = o.slots[i])
  <2>1. \A i \in DOMAIN set : i \in DOMAIN o.slots /\ (set[i] = w \/ set[i] = o.slots[i])
    BY DEF set
  <2>2. \A i \in DOMAIN long : i \in 1 .. index + 1
          /\ (long[i] = w \/ long[i] = Hole \/ (i <= Len(o.slots) /\ long[i] = o.slots[i]))
    BY DEF long
  <2>3. \A i \in 1 .. index + 1 : i <= Len(o.slots) => i \in DOMAIN o.slots
    BY <1>4
  <2> QED
    BY <2>1, <2>2, <2>3
<1> HIDE DEF t
<1>6. \A s \in DOMAIN c.slots : Slot(m.h, names, c.slots[s])
  <2>1. Slot(m.h, names, Hole)
    BY DEF Slot
  <2> QED
    BY <1>3, <1>5, <2>1 DEF Agreeing
<1> HIDE DEF o
<1>7. c.kind = m.h[a].kind
  BY <1>3 DEF o
<1> QED
  BY <1>1, <1>6, <1>7, WithAgrees

\* map_add.
LEMMA MapAddAgrees ==
    ASSUME NEW m, DOMAIN m = {"h", "bad"}, Heaped(m.h), NEW names, Agreeing(m.h, names),
           NEW a \in DOMAIN m.h, NEW key, NEW v, Slot(m.h, names, v)
    PROVE  LET g == map_add(m, a, key, v).h
           IN  Agreeing(g, names) /\ Grows(m.h, g)
<1> DEFINE o == m.h[a]
           t == [k \in DOMAIN o.slots \cup {key} |-> IF k = key THEN v ELSE o.slots[k]]
           c == [o EXCEPT !.slots = t]
<1>1. CASE key \in DOMAIN o.slots
  <2>1. map_add(m, a, key, v) = m
    BY <1>1 DEF map_add
  <2> QED
    BY <2>1, GrowsSame
<1>2. CASE key \notin DOMAIN o.slots
  <2>1. Cell(o, Len(m.h))
    BY DEF Heaped
  <2>2. map_add(m, a, key, v).h = [m.h EXCEPT ![a] = c]
    BY <1>2, <2>1 DEF map_add, Cell, Shaped
  <2>3. \A i \in DOMAIN t : t[i] = v \/ (i \in DOMAIN o.slots /\ t[i] = o.slots[i])
    OBVIOUS
  <2> HIDE DEF t
  <2>4. c.kind = o.kind /\ c.slots = t
    BY <2>1 DEF Cell, Shaped
  <2> HIDE DEF c
  <2>5. \A s \in DOMAIN c.slots : Slot(m.h, names, c.slots[s])
    BY <2>3, <2>4 DEF Agreeing
  <2> HIDE DEF o
  <2>6. c.kind = m.h[a].kind
    BY <2>4 DEF o
  <2> QED
    BY <2>2, <2>5, <2>6, WithAgrees
<1> QED
  BY <1>1, <1>2

\* An element that a path led to is set.
LEMMA StoredAgrees ==
    ASSUME NEW m, DOMAIN m = {"h", "bad"}, Heaped(m.h), NEW names, Agreeing(m.h, names),
           NEW at, at.a \in DOMAIN m.h, NEW v, Slot(m.h, names, v)
    PROVE  LET g == Stored(m, at, v).h
           IN  Agreeing(g, names) /\ Grows(m.h, g)
<1> DEFINE o == m.h[at.a]
           t == [o.slots EXCEPT ![at.slot] = v]
           c == [o EXCEPT !.slots = t]
<1>1. Cell(o, Len(m.h))
  BY DEF Heaped
<1>2. Stored(m, at, v).h = [m.h EXCEPT ![at.a] = c]
  BY <1>1 DEF Stored, Cell, Shaped
<1>3. \A i \in DOMAIN t : t[i] = v \/ (i \in DOMAIN o.slots /\ t[i] = o.slots[i])
  OBVIOUS
<1> HIDE DEF t
<1>4. c.kind = o.kind /\ c.slots = t
  BY <1>1 DEF Cell, Shaped
<1> HIDE DEF c
<1>5. \A s \in DOMAIN c.slots : Slot(m.h, names, c.slots[s])
  BY <1>3, <1>4 DEF Agreeing
<1> HIDE DEF o
<1>6. c.kind = m.h[at.a].kind
  BY <1>4 DEF o
<1> QED
  BY <1>2, <1>5, <1>6, WithAgrees

\* array + array.
LEMMA JoinAgrees ==
    ASSUME NEW m, DOMAIN m = {"h", "bad"}, Heaped(m.h), NEW names, Agreeing(m.h, names),
           NEW a \in DOMAIN m.h, NEW b \in DOMAIN m.h, m.h[a].kind = "ARRAY", m.h[b].kind = "ARRAY"
    PROVE  LET g == Join(m, a, b).h
           IN  Agreeing(g, names) /\ Grows(m.h, g)
<1> DEFINE o == m.h[a]
           q == m.h[b]
           t == o.slots \o q.slots
           c == IF o.max_size < Len(t) THEN [o EXCEPT !.slots = t, !.max_size = Len(t), !.cap = Len(t)]
                ELSE [o EXCEPT !.slots = t]
<1>1. Join(m, a, b).h = [m.h EXCEPT ![a] = c]
  BY DEF Join
<1>2. Cell(o, Len(m.h)) /\ List(o.slots) /\ List(q.slots)
  BY DEF Heaped, Cell
<1>3. c.kind = o.kind /\ c.slots = t
  BY <1>2 DEF Cell, Shaped
<1> HIDE DEF c
<1>4. /\ List(t) /\ Len(t) = Len(o.slots) + Len(q.slots)
      /\ \A i \in DOMAIN t : t[i] = IF i <= Len(o.slots) THEN o.slots[i] ELSE q.slots[i - Len(o.slots)]
  BY <1>2, ListJoin
<1>5. /\ Len(o.slots) \in Nat /\ Len(q.slots) \in Nat
      /\ DOMAIN o.slots = 1 .. Len(o.slots) /\ DOMAIN q.slots = 1 .. Len(q.slots)
  BY <1>2, ListType
<1>6. DOMAIN t = 1 .. Len(o.slots) + Len(q.slots)
  BY <1>4, ListType
<1> HIDE DEF t
<1>7. \A i \in DOMAIN t : \/ i \in DOMAIN o.slots /\ t[i] = o.slots[i]
                          \/ i - Len(o.slots) \in DOMAIN q.slots /\ t[i] = q.slots[i - Len(o.slots)]
  <2> DEFINE n == Len(o.slots)
             k == Len(q.slots)
  <2>1. \A i \in DOMAIN t : IF i <= n THEN i \in DOMAIN o.slots ELSE i - n \in DOMAIN q.slots
    <3>1. n \in Nat /\ k \in Nat /\ DOMAIN o.slots = 1 .. n /\ DOMAIN q.slots = 1 .. k /\ DOMAIN t = 1 .. n + k
      BY <1>5, <1>6
    <3> HIDE DEF n, k
    <3>2. \A i \in 1 .. n + k : IF i <= n THEN i \in 1 .. n ELSE i - n \in 1 .. k
      BY <3>1
    <3> QED
      BY <3>1, <3>2
  <2> QED
    BY <1>4, <2>1
<1>8. \A s \in DOMAIN c.slots : Slot(m.h, names, c.slots[s])
  BY <1>3, <1>7 DEF Agreeing
<1> HIDE DEF o, q
<1>9. c.kind = m.h[a].kind
  BY <1>3 DEF o
<1> QED
  BY <1>1, <1>8, <1>9, WithAgrees

-----------------------------------------------------------------------------
(* Types of the variables and operands.                                     *)

\* Literals with the types of values.
TypedInstruction(x) ==
    /\ x.op = "FROM_JSON" => Agreeing(x.lit, {}) /\ (x.lit # <<>> => x.lit[1].kind \in Types)
    /\ x.op = "XCALL" => x.lit.type \in Types
TypedCode(code) == \A i \in DOMAIN code : TypedInstruction(code[i])
TypedLiterals == TypedCode(Prologue) /\ \A code \in Statements : TypedCode(code)

Names == DOMAIN variables

\* Every var, of an operand, a variable or an element, has data of its type.
Typed ==
    /\ Names = Range(chain)
    /\ \A i \in DOMAIN stack : Agrees(heap, Names, stack[i].v)
    /\ \A n \in Names : Agrees(heap, Names, variables[n])
    /\ Agreeing(heap, Names)
    /\ TypedCode(todo)

\* The invariant, until the program has stopped or crashed.
TInv == status \in {"run", "done", "error"} => Typed

\* Entries whose vars are on the stack.
Picked(s) == \A i \in DOMAIN s : \E j \in DOMAIN stack : s[i].v = stack[j].v

\* The next instruction, and those after it.
LEMMA TypedNext ==
    ASSUME Ready, Typed, todo # <<>>
    PROVE  TypedInstruction(Head(todo)) /\ TypedCode(Tail(todo))
<1>1. List(todo) /\ \A i \in DOMAIN todo : TypedInstruction(todo[i])
  BY DEF Ready, TreeCode, Typed, TypedCode
<1>2. /\ 1 \in DOMAIN todo
      /\ \A i \in DOMAIN Tail(todo) : i + 1 \in DOMAIN todo /\ Tail(todo)[i] = todo[i + 1]
  BY <1>1, ListTail
<1>3. Head(todo) = todo[1]
  BY <1>1 DEF List
<1> QED
  BY <1>1, <1>2, <1>3 DEF TypedCode

\* An instruction keeps the types when what it leaves has them.
LEMMA TypedStep ==
    ASSUME Ready, Typed, todo # <<>>, NEW m, Done(m), Names \subseteq Names', Names' = Range(chain'),
           ~m.bad => /\ Agreeing(m.h, Names) /\ Grows(heap, m.h)
                     /\ \A i \in DOMAIN stack' : \/ \E j \in DOMAIN stack : stack'[i].v = stack[j].v
                                                 \/ Agrees(m.h, Names', stack'[i].v)
                     /\ \A n \in Names' : \/ n \in Names /\ variables'[n] = variables[n]
                                          \/ Agrees(m.h, Names', variables'[n])
    PROVE  TInv'
<1> SUFFICES ASSUME status' # "ub" PROVE Typed'
  BY DEF TInv
<1>1. ~m.bad /\ heap' = m.h /\ todo' = Tail(todo)
  BY DEF Done
<1>2. \A v : Agrees(heap, Names, v) => Agrees(m.h, Names', v)
  BY <1>1, AgreesMore
<1>3. Agreeing(m.h, Names')
  <2>1. Grows(m.h, m.h)
    BY <1>1 DEF Grows
  <2>2. \A v : Slot(m.h, Names, v) => Slot(m.h, Names', v)
    BY <2>1, AgreesMore
  <2> QED
    BY <1>1, <2>2 DEF Agreeing
<1>4. \A i \in DOMAIN stack' : Agrees(m.h, Names', stack'[i].v)
  BY <1>1, <1>2 DEF Typed
<1>5. \A n \in Names' : Agrees(m.h, Names', variables'[n])
  BY <1>1, <1>2 DEF Typed
<1>6. TypedCode(todo')
  BY <1>1, TypedNext
<1> QED
  BY <1>1, <1>3, <1>4, <1>5, <1>6 DEF Typed

\* An entry pushed after operands were taken.
LEMMA PushTyped ==
    ASSUME Ready, Typed, todo # <<>>, NEW m, Done(m), UNCHANGED table,
           NEW s, List(s), Picked(s), NEW e, stack' = Append(s, e),
           ~m.bad => Agreeing(m.h, Names) /\ Grows(heap, m.h) /\ Agrees(m.h, Names, e.v)
    PROVE  TInv'
<1>1. Names' = Names /\ variables' = variables /\ Names' = Range(chain')
  BY DEF Names, Typed, table
<1>2. \A i \in DOMAIN stack' : stack'[i] = e \/ (i \in DOMAIN s /\ stack'[i] = s[i])
  <2> DEFINE T == Range(s) \cup {e}
  <2>1. s \in Seq(T) /\ e \in T /\ Len(s) \in Nat /\ DOMAIN s = 1 .. Len(s)
    BY ListType DEF List
  <2> HIDE DEF T
  <2> QED
    BY <2>1
<1>3. ~m.bad => \A i \in DOMAIN stack' : \/ \E j \in DOMAIN stack : stack'[i].v = stack[j].v
                                         \/ Agrees(m.h, Names', stack'[i].v)
  BY <1>1, <1>2 DEF Picked
<1> QED
  BY <1>1, <1>3, TypedStep

\* Operands taken, and no entry pushed.
LEMMA PopTyped ==
    ASSUME Ready, Typed, todo # <<>>, NEW m, Done(m), UNCHANGED table, Picked(stack'),
           ~m.bad => Agreeing(m.h, Names) /\ Grows(heap, m.h)
    PROVE  TInv'
<1>1. Names' = Names /\ variables' = variables /\ Names' = Range(chain')
  BY DEF Names, Typed, table
<1> QED
  BY <1>1, TypedStep DEF Picked

\* A name that gets another var, and operands taken.
LEMMA NameTyped ==
    ASSUME Ready, Typed, todo # <<>>, NEW m, Done(m), NEW name, NEW v,
           chain' = Added(name) \/ (chain' = chain /\ name \in Names), variables' = With(name, v), Picked(stack'),
           ~m.bad => Agreeing(m.h, Names) /\ Grows(heap, m.h) /\ Agrees(m.h, Names, v)
    PROVE  TInv'
<1>1. Names' = Names \cup {name} /\ \A n \in Names' : variables'[n] = IF n = name THEN v ELSE variables[n]
  BY DEF Names, With
<1>2. Range(chain') = Range(chain) \cup {name}
  <2>1. CASE chain' = chain /\ name \in Names
    BY <2>1 DEF Typed
  <2>2. CASE chain' = Added(name) /\ name \in Range(chain)
    BY <2>2 DEF Added
  <2>3. CASE chain' = Added(name) /\ name \notin Range(chain)
    <3>1. chain' = <<name>> \o chain /\ List(chain)
      BY <2>3 DEF Added, Ready
    <3>2. <<name>> \in Seq({name}) /\ Len(<<name>>) = 1 /\ <<name>>[1] = name
      OBVIOUS
    <3>3. List(<<name>>)
      BY <3>2, ListOf
    <3>4. /\ List(chain')
          /\ \A i \in DOMAIN chain' : chain'[i] = IF i <= 1 THEN <<name>>[i] ELSE chain[i - 1]
          /\ Len(chain') = 1 + Len(chain)
      BY <3>1, <3>2, <3>3, ListJoin
    <3>5. /\ Len(chain) \in Nat /\ DOMAIN chain = 1 .. Len(chain) /\ DOMAIN chain' = 1 .. 1 + Len(chain)
      BY <3>1, <3>4, ListType
    <3>6. \A i \in DOMAIN chain' : i = 1 \/ (~(i <= 1) /\ i - 1 \in DOMAIN chain)
      BY <3>5
    <3>7. 1 \in DOMAIN chain' /\ \A i \in DOMAIN chain : i + 1 \in DOMAIN chain' /\ ~(i + 1 <= 1) /\ i + 1 - 1 = i
      BY <3>5
    <3>8. chain'[1] = name /\ \A i \in DOMAIN chain : chain'[i + 1] = chain[i]
      BY <3>2, <3>4, <3>7
    <3>9. \A i \in DOMAIN chain' : chain'[i] \in Range(chain) \cup {name}
      BY <3>2, <3>4, <3>6 DEF Range
    <3> QED
      BY <3>7, <3>8, <3>9 DEF Range
  <2> QED
    BY <2>1, <2>2, <2>3
<1>3. Names \subseteq Names' /\ Names' = Range(chain')
  BY <1>1, <1>2 DEF Typed
<1>4. ~m.bad => Agrees(m.h, Names', v)
  <2>1. ~m.bad => Grows(m.h, m.h)
    BY DEF Grows
  <2> QED
    BY <1>3, <2>1, AgreesMore
<1>5. ~m.bad => \A n \in Names' : \/ n \in Names /\ variables'[n] = variables[n]
                                  \/ Agrees(m.h, Names', variables'[n])
  BY <1>1, <1>4
<1> QED
  BY <1>3, <1>5, TypedStep DEF Picked

\* Operands, and what is left.
LEMMA TypedOperands ==
    ASSUME Ready, Typed, NEW n \in 0 .. Len(stack)
    PROVE  /\ List(Rest(n)) /\ Picked(Rest(n))
           /\ \A i \in 0 .. n - 1 : Agrees(heap, Names, Pop(i))
<1> DEFINE k == Len(stack) - n
<1>1. List(stack) /\ Len(stack) \in Nat /\ k \in 0 .. Len(stack) /\ Rest(n) = SubSeq(stack, 1, k)
  BY ListType DEF Ready, OnStack, Rest
<1> HIDE DEF k
<1>2. List(Rest(n)) /\ DOMAIN Rest(n) = 1 .. k /\ \A i \in 1 .. k : Rest(n)[i] = stack[i] /\ i \in DOMAIN stack
  BY <1>1, Lowest
<1>3. Picked(Rest(n))
  BY <1>2 DEF Picked
<1>4. \A i \in 0 .. n - 1 : Len(stack) - i \in DOMAIN stack
  BY OperandsTaken
<1> QED
  BY <1>2, <1>3, <1>4 DEF Typed, Pop

\* The stack cleared.
LEMMA TypedCleared ==
    ASSUME NEW s, List(s), Picked(s)
    PROVE  List(Cleared(s)) /\ Picked(Cleared(s))
<1>1. Kept(s) \in 0 .. Len(s)
  BY KeptType
<1> DEFINE k == Kept(s)
<1>2. Cleared(s) = SubSeq(s, 1, k) /\ k \in 0 .. Len(s)
  BY <1>1 DEF Cleared
<1> HIDE DEF k
<1>3. List(Cleared(s)) /\ DOMAIN Cleared(s) = 1 .. k /\ \A i \in 1 .. k : Cleared(s)[i] = s[i] /\ i \in DOMAIN s
  BY <1>2, Lowest
<1> QED
  BY <1>3 DEF Picked

\* runtime_error.
LEMMA ErrorTyped ==
    ASSUME Ready, Typed, Supplied, status = "run", todo # <<>>, NEW n \in Nat, n = 0 \/ n <= Arity, Error(n)
    PROVE  TInv'
<1>1. n \in 0 .. Len(stack)
  <2>1. Arity \in 0 .. Len(stack) /\ Len(stack) \in Nat
    BY ListType DEF Supplied, Ready, OnStack
  <2> HIDE DEF Arity
  <2> QED
    BY <2>1
<1>2. Picked(Rest(n))
  BY <1>1, TypedOperands
<1>3. stack' = Rest(n) /\ UNCHANGED <<todo, heap, table>>
  BY DEF Error
<1>4. \A i \in DOMAIN stack' : Agrees(heap, Names, stack'[i].v)
  BY <1>2, <1>3 DEF Picked, Typed
<1> QED
  BY <1>3, <1>4 DEF TInv, Typed, Names, table

\* What ends the run, well or not.
LEMMA TypedHalts ==
    ASSUME status' \in {"ub", "stopped"}
    PROVE  TInv'
  BY DEF TInv

\* The memory an instruction starts from.
LEMMA TypedMem ==
    ASSUME Ready, Typed
    PROVE  /\ Mem.h = heap /\ DOMAIN Mem = {"h", "bad"} /\ Heaped(Mem.h)
           /\ Agreeing(Mem.h, Names) /\ Grows(heap, Mem.h) /\ Len(heap) \in Nat
<1>1. Mem.h = heap /\ DOMAIN Mem = {"h", "bad"} /\ Heaped(heap)
  BY MemIs DEF Ready, Holds
<1>2. Grows(heap, heap)
  BY <1>1, GrowsSame
<1> QED
  BY <1>1, <1>2 DEF Typed, Grows

\* A var given another reference.
LEMMA RefAgrees ==
    ASSUME NEW h, NEW names, NEW v, Agrees(h, names, v), NEW ref \in names \cup {None}
    PROVE  Agrees(h, names, [v EXCEPT !.ref = ref])
<1> DEFINE w == [v EXCEPT !.ref = ref]
<1>1. v \in [type : Types, data : 0 .. Len(h), ref : names \cup {None}]
  BY DEF Agrees
<1>2. w \in [type : Types, data : 0 .. Len(h), ref : names \cup {None}] /\ w.data = v.data /\ w.type = v.type
  BY <1>1
<1> HIDE DEF w
<1>3. Agrees(h, names, w)
  BY <1>2 DEF Agrees
<1> QED
  BY <1>3 DEF w

\* The struct for UNSET, and what VAR gives a name.
LEMMA EmptyAgrees ==
    ASSUME NEW h, Len(h) \in Nat, NEW names, NEW type \in Types
    PROVE  Agrees(h, names, Var(type, 0, None)) /\ Agrees(h, names, Zeroed)
<1>1. 0 \in 0 .. Len(h) /\ "UNSET" \in Types
  BY DEF Types
<1> QED
  BY <1>1 DEF Agrees, Var, Zeroed

\* The var a name has.
LEMMA OldAgrees ==
    ASSUME Ready, Typed, NEW name
    PROVE  Agrees(heap, Names, Old(name))
<1>1. "STRING" \in Types /\ Len(heap) \in Nat
  BY TypedMem DEF Types
<1> QED
  BY <1>1, EmptyAgrees DEF Old, Typed, Names

\* Vars freed.
LEMMA TypedFree ==
    ASSUME NEW m, Heaped(m.h), Agreeing(m.h, Names), Grows(heap, m.h), NEW vs
    PROVE  LET g == Free(m, vs).h
           IN  /\ Heaped(g) /\ Agreeing(g, Names) /\ Grows(heap, g)
               /\ \A v : Agrees(m.h, Names, v) => Agrees(g, Names, v)
<1> DEFINE g == Free(m, vs).h
<1>1. Agreeing(g, Names) /\ Grows(m.h, g) /\ Heaped(g)
  BY FreeAgrees
<1> HIDE DEF g
<1>2. Grows(heap, g)
  BY <1>1, GrowsOn
<1>3. \A v : Agrees(m.h, Names, v) => Agrees(g, Names, v)
  BY <1>1, AgreesMore
<1> QED
  BY <1>1, <1>2, <1>3 DEF g

\* A fragment allocated, and a var for it.
LEMMA TypedTree ==
    ASSUME NEW m, "h" \in DOMAIN m, Heaped(m.h), Agreeing(m.h, Names), Grows(heap, m.h),
           NEW f, Tree(f), Agreeing(f, {})
    PROVE  LET g == Allocate(m, f).h
           IN  /\ Agreeing(g, Names) /\ Grows(heap, g) /\ Grows(m.h, g)
               /\ f # <<>> /\ f[1].kind \in Types => Agrees(g, Names, Fresh(m, f[1].kind))
<1> DEFINE g == Allocate(m, f).h
<1>1. List(f) /\ \A i \in DOMAIN f : Cell(f[i], Len(f))
  BY DEF Tree
<1>2. Agreeing(f, Names)
  <2>1. Grows(f, f)
    BY <1>1, ListType DEF Grows
  <2>2. \A v : Slot(f, {}, v) => Slot(f, Names, v)
    BY <2>1, AgreesMore
  <2> QED
    BY <2>2 DEF Agreeing
<1>3. /\ Agreeing(g, Names) /\ Grows(m.h, g) /\ Len(g) = Len(m.h) + Len(f)
      /\ \A i \in DOMAIN f : g[Len(m.h) + i].kind = f[i].kind
  BY <1>1, <1>2, AllocateAgrees
<1> HIDE DEF g
<1>4. Grows(heap, g)
  BY <1>3, GrowsOn
<1>5. ASSUME f # <<>>, f[1].kind \in Types
      PROVE  Agrees(g, Names, Fresh(m, f[1].kind))
  <2>1. Len(f) \in Nat /\ DOMAIN f = 1 .. Len(f) /\ Len(m.h) \in Nat
    BY <1>1, <1>3, ListType DEF Grows
  <2>2. Len(f) # 0
    <3>1. f \in Seq(Range(f))
      BY <1>1 DEF List
    <3> QED
      BY <1>5, <3>1
  <2>3. 1 \in DOMAIN f
    BY <2>1, <2>2
  <2> DEFINE p == Len(m.h) + 1
  <2>4. g[p].kind = f[1].kind /\ p \in 0 .. Len(g)
    BY <1>3, <2>1, <2>3
  <2>5. Fresh(m, f[1].kind) = [type |-> f[1].kind, data |-> p, ref |-> None]
    BY DEF Fresh, Var
  <2> HIDE DEF p
  <2> QED
    BY <1>5, <2>4, <2>5 DEF Agrees
<1> QED
  BY <1>3, <1>4, <1>5 DEF g

\* A number or a string allocated.
LEMMA TypedScalar ==
    ASSUME NEW m, "h" \in DOMAIN m, Heaped(m.h), Agreeing(m.h, Names), Grows(heap, m.h),
           NEW kind \in Types \ {"ARRAY"}, NEW val, kind = "STRING" => List(val)
    PROVE  LET g == Allocate(m, <<Scalar(kind, val)>>).h
           IN  /\ Agreeing(g, Names) /\ Grows(heap, g) /\ Grows(m.h, g)
               /\ Agrees(g, Names, Fresh(m, kind))
<1> DEFINE o == Scalar(kind, val)
           f == <<o>>
<1>1. o.kind = kind /\ DOMAIN o.slots = {}
  BY DEF Scalar, Object
<1>2. Tree(f)
  BY ScalarTree
<1> HIDE DEF o
<1>3. DOMAIN f = {1} /\ f[1] = o /\ f # <<>>
  OBVIOUS
<1>4. Agreeing(f, {})
  BY <1>1, <1>3 DEF Agreeing
<1> HIDE DEF f
<1>5. LET g == Allocate(m, f).h
      IN  /\ Agreeing(g, Names) /\ Grows(heap, g) /\ Grows(m.h, g)
          /\ f # <<>> /\ f[1].kind \in Types => Agrees(g, Names, Fresh(m, f[1].kind))
  BY <1>2, <1>4, TypedTree
<1> QED
  BY <1>1, <1>3, <1>5 DEF f, o

\* The same, by an instruction that starts with it.
LEMMA ScalarTyped ==
    ASSUME Ready, Typed, NEW kind \in Types \ {"ARRAY"}, NEW val, kind = "STRING" => List(val)
    PROVE  LET g == Allocate(Mem, <<Scalar(kind, val)>>).h
           IN  Heaped(g) /\ Agreeing(g, Names) /\ Grows(heap, g) /\ Agrees(g, Names, Fresh(Mem, kind))
<1> DEFINE g == Allocate(Mem, <<Scalar(kind, val)>>).h
<1>1. Heaped(g)
  <2>1. Keeps(Allocate(Mem, <<Scalar(kind, val)>>), Owners \cup {Len(Mem.h) + 1})
    BY MemKeeps, ScalarKeeps
  <2>2. ~Allocate(Mem, <<Scalar(kind, val)>>).bad
    BY DEF Allocate, Mem
  <2> QED
    BY <2>1, <2>2 DEF Keeps, Holds
<1>2. Agreeing(g, Names) /\ Grows(heap, g) /\ Agrees(g, Names, Fresh(Mem, kind))
  BY TypedMem, TypedScalar
<1> QED
  BY <1>1, <1>2

\* A number that an instruction starts with.
LEMMA NumberTyped ==
    ASSUME Ready, Typed, NEW term
    PROVE  LET g == Number(Mem, term).h
           IN  Heaped(g) /\ Agreeing(g, Names) /\ Grows(heap, g) /\ Agrees(g, Names, Fresh(Mem, "DOUBLE"))
<1>1. "DOUBLE" \in Types \ {"ARRAY"} /\ "DOUBLE" # "STRING"
  BY DEF Types
<1> QED
  BY <1>1, ScalarTyped DEF Number

\* AS_VAR.
LEMMA AsVarTyped ==
    ASSUME Ready, Typed, Supplied, AsVar
    PROVE  TInv'
<1> DEFINE name == var_lookup_2(Name)
           c == op_copy(Mem, Zeroed, variables[name])
           e == Direct([c.v EXCEPT !.ref = name])
<1>1. todo # <<>> /\ status = "run"
  BY DEF AsVar, At
<1>2. \/ Error(0)
      \/ name # None /\ stack' = Append(stack, e) /\ Done(c.m) /\ UNCHANGED table
  BY DEF AsVar
<1>3. CASE Error(0)
  BY <1>1, <1>3, ErrorTyped
<1>4. CASE name # None /\ stack' = Append(stack, e) /\ Done(c.m) /\ UNCHANGED table
  <2>1. name \in Names
    BY <1>4, LookupType DEF Names
  <2>2. Agrees(Mem.h, Names, variables[name]) /\ Zeroed.data = 0
    BY <2>1, TypedMem, ZeroedType DEF Typed
  <2> HIDE DEF name
  <2>3. Agreeing(c.m.h, Names) /\ Grows(heap, c.m.h) /\ Agrees(c.m.h, Names, c.v)
    BY <2>2, TypedMem, CopyAgrees
  <2> HIDE DEF c
  <2>4. Agrees(c.m.h, Names, e.v)
    BY <2>1, <2>3, RefAgrees DEF Direct
  <2> HIDE DEF e
  <2>5. List(stack) /\ Picked(stack)
    BY DEF Ready, OnStack, Picked
  <2> QED
    BY <1>1, <1>4, <2>3, <2>4, <2>5, PushTyped
<1> QED
  BY <1>2, <1>3, <1>4

\* The constants.
LEMMA AsConstantTyped ==
    ASSUME Ready, Typed, AsConstant
    PROVE  TInv'
<1> DEFINE fragment == CASE Op = "AS_DOUBLE" -> <<Scalar("DOUBLE", Literal)>>
                         [] Op = "MICROTIME" -> <<Scalar("DOUBLE", <<"time">>)>>
                         [] Op = "AS_STRING" -> <<Scalar("STRING", Literal)>>
                         [] Op = "FROM_JSON" -> Literal
                         [] Op = "AS_VOID" -> <<>>
           v == IF fragment = <<>> THEN Zeroed ELSE Fresh(Mem, fragment[1].kind)
           e == IF Op \in {"AS_DOUBLE", "AS_VOID"} THEN Direct(v) ELSE Tagged(v)
           m == Allocate(Mem, fragment)
<1>1. /\ Op \in {"AS_DOUBLE", "AS_STRING", "FROM_JSON", "AS_VOID", "MICROTIME"}
      /\ todo # <<>> /\ stack' = Append(stack, e)
      /\ Done(m) /\ UNCHANGED table
  BY DEF AsConstant, At, Op
<1>2. TreeInstruction(Head(todo)) /\ TypedInstruction(Head(todo))
  BY <1>1, NextInstruction, TypedNext
<1>3. Tree(fragment) /\ Agreeing(fragment, {}) /\ (fragment # <<>> => fragment[1].kind \in Types)
  <2>1. ASSUME NEW kind \in {"DOUBLE", "STRING"}, NEW val, kind = "STRING" => List(val),
               NEW f, f = <<Scalar(kind, val)>>
        PROVE  Tree(f) /\ Agreeing(f, {}) /\ f[1].kind \in Types
    <3> DEFINE o == Scalar(kind, val)
    <3>1. Tree(f)
      BY <2>1, ScalarTree
    <3>2. o.kind = kind /\ DOMAIN o.slots = {}
      BY DEF Scalar, Object
    <3>3. DOMAIN f = {1} /\ f[1] = o
      BY <2>1
    <3> HIDE DEF o
    <3> QED
      BY <3>1, <3>2, <3>3 DEF Agreeing, Types
  <2>2. CASE fragment = <<>>
    <3>1. <<>> \in Seq({}) /\ DOMAIN <<>> = {}
      OBVIOUS
    <3> QED
      BY <2>2, <3>1, ListOf DEF Tree, Agreeing
  <2>3. CASE Op = "AS_DOUBLE"
    BY <2>1, <2>3
  <2>4. CASE Op = "MICROTIME"
    BY <2>1, <2>4
  <2>5. CASE Op = "AS_STRING"
    <3>1. List(Literal)
      BY <1>2, <2>5 DEF TreeInstruction, Op, Literal
    <3> QED
      BY <2>1, <2>5, <3>1
  <2>6. CASE Op = "FROM_JSON"
    <3>1. Tree(Literal) /\ Agreeing(Literal, {}) /\ (Literal # <<>> => Literal[1].kind \in Types)
      BY <1>2, <2>6 DEF TreeInstruction, TypedInstruction, Op, Literal
    <3> QED
      BY <2>6, <3>1
  <2>7. CASE Op = "AS_VOID"
    BY <2>2, <2>7
  <2> QED
    BY <1>1, <2>3, <2>4, <2>5, <2>6, <2>7
<1> HIDE DEF fragment
<1>4. /\ Agreeing(m.h, Names) /\ Grows(heap, m.h)
      /\ fragment # <<>> => Agrees(m.h, Names, Fresh(Mem, fragment[1].kind))
  BY <1>3, TypedMem, TypedTree
<1> HIDE DEF m
<1>5. Agrees(m.h, Names, v)
  <2>1. Len(m.h) \in Nat /\ "UNSET" \in Types
    BY <1>4 DEF Grows, Types
  <2> QED
    BY <1>4, <2>1, EmptyAgrees
<1> HIDE DEF v
<1>6. e.v = v
  BY DEF Direct, Tagged
<1> HIDE DEF e
<1>7. List(stack) /\ Picked(stack)
  BY DEF Ready, OnStack, Picked
<1> QED
  BY <1>1, <1>4, <1>5, <1>6, <1>7, PushTyped

\* PRINT, CLEAR_STACK, REVERSE_STACK and CALL.
LEMMA TakersTyped ==
    ASSUME Ready, Typed, Supplied, Show \/ ClearStack \/ ReverseStack \/ Call
    PROVE  TInv'
<1>1. todo # <<>> /\ UNCHANGED table /\ status = "run" /\ List(stack) /\ Picked(stack)
  BY DEF Show, ClearStack, ReverseStack, Call, At, Ready, OnStack, Picked
<1>2. \A vs : Agreeing(Free(Mem, vs).h, Names) /\ Grows(heap, Free(Mem, vs).h)
  BY TypedMem, TypedFree
<1>3. CASE Show
  <2>1. 1 \in 0 .. Len(stack)
    BY <1>1, <1>3 DEF Supplied, Arity, Show, At, Op
  <2>2. stack' = Rest(1) /\ Done(Free(Mem, <<Pop(0)>>))
    BY <1>3 DEF Show
  <2>3. Picked(stack')
    BY <2>1, <2>2, TypedOperands
  <2> QED
    BY <1>1, <1>2, <2>2, <2>3, PopTyped
<1>4. CASE ClearStack
  <2>1. stack' = Cleared(stack) /\ Done(Free(Mem, Garbage(stack)))
    BY <1>4 DEF ClearStack
  <2>2. Picked(stack')
    BY <1>1, <2>1, TypedCleared
  <2> QED
    BY <1>1, <1>2, <2>1, <2>2, PopTyped
<1>5. CASE ReverseStack
  <2> DEFINE n == Head(todo).n
             t == Rest(n) \o Reverse(SubSeq(stack, Len(stack) - n + 1, Len(stack)))
  <2>1. Op = "REVERSE_STACK" /\ stack' = t /\ Done(Mem)
    BY <1>5 DEF ReverseStack, At, Op
  <2>2. n \in 0 .. Len(stack) /\ OnStack(stack)
    BY <1>1, <2>1 DEF Supplied, Arity, Binary, Comparisons, Unary, Ready
  <2> HIDE DEF n
  <2>3. \A i \in DOMAIN t : \E j \in DOMAIN stack : t[i] = stack[j]
    BY <2>2, Turned DEF Rest
  <2> HIDE DEF t
  <2>4. Picked(stack')
    BY <2>1, <2>3 DEF Picked
  <2> QED
    BY <1>1, <2>1, <2>4, TypedMem, PopTyped
<1>6. CASE Call
  <2>1. stack' = stack /\ Done(Mem)
    BY <1>6 DEF Call
  <2> QED
    BY <1>1, <2>1, TypedMem, PopTyped
<1> QED
  BY <1>3, <1>4, <1>5, <1>6

\* VAR, VARX and SET.
LEMMA VariablesTyped ==
    ASSUME Ready, Typed, Supplied, Declare \/ DeclareWith \/ Assign
    PROVE  TInv'
<1>1. todo # <<>> /\ status = "run" /\ Picked(stack)
  BY DEF Declare, DeclareWith, Assign, At, Picked
<1>2. CASE Declare
  <2>1. chain' = Added(Name) /\ variables' = With(Name, Old(Name)) /\ stack' = stack /\ Done(Mem)
    BY <1>2 DEF Declare
  <2>2. Agrees(Mem.h, Names, Old(Name))
    BY OldAgrees, TypedMem
  <2>3. Picked(stack')
    BY <1>1, <2>1
  <2> QED
    BY <1>1, <2>1, <2>2, <2>3, TypedMem, NameTyped
<1>3. CASE DeclareWith
  <2> DEFINE v1 == [Pop(0) EXCEPT !.ref = None]
             c == op_copy(Mem, Old(Name), v1)
             m == Free(c.m, <<v1>>)
  <2>1. chain' = Added(Name) /\ variables' = With(Name, c.v) /\ stack' = Rest(1) /\ Done(m)
    BY <1>3 DEF DeclareWith
  <2>2. 1 \in 0 .. Len(stack)
    BY <1>1, <1>3 DEF Supplied, Arity, DeclareWith, At, Op
  <2>3. Struct(Pop(0)) /\ Pop(0).data \in Stacked(stack) \cup {0}
    BY <2>2, OperandsTaken
  <2>4. Struct(v1) /\ v1.data = Pop(0).data
    BY <2>3 DEF Struct
  <2>5. Picked(Rest(1)) /\ Agrees(heap, Names, Pop(0))
    <3>1. 0 \in 0 .. 1 - 1
      OBVIOUS
    <3> QED
      BY <2>2, <3>1, TypedOperands
  <2>6. Agrees(Mem.h, Names, v1) /\ Agrees(Mem.h, Names, Old(Name))
    BY <2>5, RefAgrees, OldAgrees, TypedMem
  <2> HIDE DEF v1
  <2>7. Keeps(c.m, (Owners \ {Old(Name).data}) \cup Data(c.v))
    BY <2>3, <2>4, CopyInto
  <2>8. Agreeing(c.m.h, Names) /\ Grows(heap, c.m.h) /\ Agrees(c.m.h, Names, c.v)
    BY <2>6, TypedMem, CopyAgrees
  <2> HIDE DEF c
  <2>9. ~m.bad => Agreeing(m.h, Names) /\ Grows(heap, m.h) /\ Agrees(m.h, Names, c.v)
    <3>1. ~m.bad => ~c.m.bad
      BY DEF Free
    <3>2. ~m.bad => Heaped(c.m.h)
      BY <2>7, <3>1 DEF Keeps, Holds
    <3> QED
      BY <2>8, <3>2, TypedFree
  <2> HIDE DEF m
  <2>10. Picked(stack')
    BY <2>1, <2>5
  <2> QED
    BY <1>1, <2>1, <2>9, <2>10, NameTyped
<1>4. CASE Assign
  <2> DEFINE ref == Pop(1).ref
             v == [Pop(0) EXCEPT !.ref = variables[ref].ref]
  <2>1. \/ Error(1)
        \/ /\ ref # None /\ variables' = With(ref, v) /\ chain' = chain
           /\ stack' = Rest(1) /\ Done(Mem)
    BY <1>4 DEF Assign
  <2>2. Op = "SET"
    BY <1>4 DEF Assign, At, Op
  <2>3. Error(1) => TInv'
    BY <1>1, <2>2, ErrorTyped DEF Arity, Binary, Comparisons, Unary
  <2>4. 2 \in 0 .. Len(stack) /\ 1 \in 0 .. Len(stack)
    <3>1. 2 \in 0 .. Len(stack) /\ Len(stack) \in Nat
      BY <1>1, <2>2, ListType DEF Supplied, Arity, Binary, Comparisons, Unary, Ready, OnStack
    <3> QED
      BY <3>1
  <2>5. Picked(Rest(1)) /\ Agrees(heap, Names, Pop(0)) /\ Agrees(heap, Names, Pop(1))
    <3>1. 0 \in 0 .. 2 - 1 /\ 1 \in 0 .. 2 - 1
      OBVIOUS
    <3> QED
      BY <2>4, <3>1, TypedOperands
  <2>6. CASE ref # None /\ variables' = With(ref, v) /\ chain' = chain /\ stack' = Rest(1) /\ Done(Mem)
    <3>1. ref \in Names
      BY <2>5, <2>6 DEF Agrees
    <3>2. variables[ref].ref \in Names \cup {None}
      BY <3>1 DEF Typed, Agrees
    <3>3. Agrees(Mem.h, Names, v)
      BY <2>5, <3>2, RefAgrees, TypedMem
    <3> HIDE DEF ref, v
    <3>4. Picked(stack')
      BY <2>5, <2>6
    <3> QED
      BY <1>1, <2>6, <3>1, <3>3, <3>4, TypedMem, NameTyped
  <2> HIDE DEF ref, v
  <2> QED
    BY <2>1, <2>3, <2>6
<1> QED
  BY <1>2, <1>3, <1>4

\* SET_ELEM: the element has the operand's type.
LEMMA ElementAgrees ==
    ASSUME Ready, Typed, NEW t, NEW index, NEW v, Agrees(heap, Names, v)
    PROVE  LET m == ElementSet(t, index, v)
           IN  ~m.bad => Agreeing(m.h, Names) /\ Grows(heap, m.h)
<1> DEFINE m == ElementSet(t, index, v)
<1> SUFFICES ~m.bad => Agreeing(m.h, Names) /\ Grows(heap, m.h)
  OBVIOUS
<1>1. Mem.h = heap /\ DOMAIN Mem = {"h", "bad"} /\ Heaped(heap) /\ Agreeing(heap, Names)
  BY TypedMem
<1>2. Spoilt(Mem, TRUE).bad
  BY <1>1 DEF Spoilt
<1>3. Slot(heap, Names, v)
  BY DEF Slot
<1>4. CASE ~Good(Mem, index)
  BY <1>2, <1>4 DEF ElementSet
<1>5. CASE Good(Mem, index) /\ index.type = "STRING"
  <2> DEFINE path == heap[index.data].val
             at == var_apath(Mem, t, path)
  <2>1. List(path)
    BY <1>1, <1>5 DEF Good, Heaped, Cell
  <2>2. Within(Mem.h, t, at)
    BY <1>1, <2>1, PathWithin
  <2>3. m = CASE at.how = "slot" -> Stored(Mem, at, v)
              [] at.how = "null" /\ Good(Mem, t) /\ t.type = "MAP" ->
                   map_add(Mem, t.data, Tokens(path)[1], v)
              [] OTHER -> Spoilt(Mem, TRUE)
    BY <1>5 DEF ElementSet
  <2> HIDE DEF path, at, m
  <2>4. CASE at.how = "slot"
    <3>1. at.a \in DOMAIN heap
      <4>1. t.data \in DOMAIN heap /\ at.a \in Reach(heap, t.data)
        BY <1>1, <2>2, <2>4 DEF Within, Found
      <4> QED
        BY <1>1, <4>1, ReachLeast
    <3>2. m = Stored(Mem, at, v)
      BY <2>3, <2>4
    <3> QED
      BY <1>1, <1>3, <3>1, <3>2, StoredAgrees
  <2>5. CASE at.how = "null" /\ Good(Mem, t) /\ t.type = "MAP"
    <3>1. t.data \in DOMAIN heap
      BY <1>1, <2>5 DEF Good
    <3>2. m = map_add(Mem, t.data, Tokens(path)[1], v)
      BY <2>3, <2>5
    <3> QED
      BY <1>1, <1>3, <3>1, <3>2, MapAddAgrees
  <2>6. CASE at.how # "slot" /\ ~(at.how = "null" /\ Good(Mem, t) /\ t.type = "MAP")
    BY <1>2, <2>3, <2>6
  <2> QED
    BY <2>4, <2>5, <2>6
<1>6. CASE Good(Mem, index) /\ index.type # "STRING"
  <2> DEFINE i == heap[index.data].val[2]
             slots == heap[t.data].slots
             w == [v EXCEPT !.ref = slots[i + 1].ref]
  <2>1. \/ m = Spoilt(Mem, TRUE)
        \/ /\ Good(Mem, t) /\ t.type = "ARRAY" /\ i \in Nat
           /\ \/ i < Len(slots) /\ slots[i + 1] # Hole /\ m = array_set_elem(Mem, t.data, i, w)
              \/ m = array_set_elem(Mem, t.data, i, v)
    BY <1>6 DEF ElementSet
  <2> HIDE DEF i, m
  <2>2. CASE Good(Mem, t) /\ t.type = "ARRAY" /\ i \in Nat
    <3>1. t.data \in DOMAIN heap /\ heap[t.data].kind = "ARRAY"
      BY <1>1, <2>2 DEF Good
    <3>2. ASSUME i < Len(slots), slots[i + 1] # Hole
          PROVE  Slot(heap, Names, w)
      <4>1. List(slots)
        BY <1>1, <3>1 DEF Heaped, Cell
      <4>2. i + 1 \in DOMAIN slots
        <5>1. DOMAIN slots = 1 .. Len(slots) /\ Len(slots) \in Nat
          BY <4>1, ListType
        <5> HIDE DEF slots
        <5> QED
          BY <2>2, <3>2, <5>1
      <4>3. Slot(heap, Names, slots[i + 1])
        BY <1>1, <3>1, <4>2 DEF Agreeing
      <4>4. slots[i + 1].ref \in Names \cup {None}
        BY <3>2, <4>3 DEF Slot, Agrees
      <4> QED
        BY <4>4, RefAgrees DEF Slot
    <3> HIDE DEF w, slots
    <3>3. \A x : Slot(heap, Names, x) =>
            Agreeing(array_set_elem(Mem, t.data, i, x).h, Names) /\ Grows(heap, array_set_elem(Mem, t.data, i, x).h)
      BY <1>1, <2>2, <3>1, SetElemAgrees
    <3> QED
      BY <1>2, <1>3, <2>1, <3>2, <3>3
  <2> QED
    BY <1>2, <2>1, <2>2
<1> QED
  BY <1>4, <1>5, <1>6

\* The copy that SET_ELEM and ADD_ELEM push.
LEMMA PlacedAgrees ==
    ASSUME NEW m, NEW D, NEW v, Placed(m, D, v), ~m.bad => Agreeing(m.h, Names) /\ Grows(heap, m.h),
           Agrees(heap, Names, v)
    PROVE  LET c == op_copy(m, Zeroed, v)
           IN  ~c.m.bad => Agreeing(c.m.h, Names) /\ Grows(heap, c.m.h) /\ Agrees(c.m.h, Names, c.v)
<1> DEFINE c == op_copy(m, Zeroed, v)
<1>1. Zeroed.data = 0 /\ DOMAIN m = {"h", "bad"}
  BY ZeroedType DEF Placed
<1>2. CASE m.bad
  <2>1. c.m \in {m, Clone(m, v)}
    BY <1>1 DEF op_copy
  <2>2. Clone(m, v).bad
    BY <1>1, <1>2 DEF Clone, Spoilt, Allocate
  <2> HIDE DEF c
  <2>3. c.m.bad
    BY <1>2, <2>1, <2>2
  <2> QED
    BY <2>3 DEF c
<1>3. CASE ~m.bad
  <2>1. Heaped(m.h)
    BY <1>3 DEF Placed, Holds
  <2>2. Agrees(m.h, Names, v)
    BY <1>3, AgreesMore
  <2>3. Agreeing(c.m.h, Names) /\ Grows(m.h, c.m.h) /\ Agrees(c.m.h, Names, c.v)
    BY <1>1, <1>3, <2>1, <2>2, CopyAgrees
  <2> HIDE DEF c
  <2>4. Grows(heap, c.m.h)
    BY <1>3, <2>3, GrowsOn
  <2> QED
    BY <2>3, <2>4 DEF c
<1> QED
  BY <1>2, <1>3

\* SET_ELEM.
LEMMA SetElemTyped ==
    ASSUME Ready, Typed, Supplied, SetElem
    PROVE  TInv'
<1> DEFINE name == var_lookup_2(Name)
           t == variables[name]
           v == Pop(0)
           m == ElementSet(t, Pop(1), v)
           c == op_copy(m, Zeroed, v)
           e == Tagged(c.v)
<1>1. todo # <<>> /\ status = "run" /\ Op = "SET_ELEM"
  BY DEF SetElem, At, Op
<1>2. Arity = 2
  BY <1>1 DEF Arity, Binary, Comparisons, Unary
<1>3. \/ Error(2)
      \/ name # None /\ stack' = Append(Rest(2), e) /\ Done(c.m) /\ UNCHANGED table
  BY DEF SetElem
<1>4. CASE Error(2)
  BY <1>1, <1>2, <1>4, ErrorTyped
<1>5. CASE name # None /\ stack' = Append(Rest(2), e) /\ Done(c.m) /\ UNCHANGED table
  <2>1. name \in DOMAIN variables
    BY <1>5, LookupType
  <2>2. t.data \in Named(variables) \cup {0}
    BY <2>1 DEF Named
  <2>3. /\ Struct(v) /\ v.data \in Stacked(stack) \cup {0} /\ v.data \notin Named(variables)
        /\ 2 \in 0 .. Len(stack)
    BY <1>1, <1>2, Takes2
  <2>4. t.data \in Owners \cup {0} /\ v.data \in Owners \cup {0} /\ (v.data # 0 => v.data # t.data)
    BY <2>2, <2>3, MemKeeps DEF Owners
  <2>5. List(Rest(2)) /\ Picked(Rest(2)) /\ Agrees(heap, Names, v)
    <3>1. 0 \in 0 .. 2 - 1
      OBVIOUS
    <3> QED
      BY <2>3, <3>1, TypedOperands
  <2> HIDE DEF name, t, v
  <2>6. Placed(m, Owners, v)
    BY <2>3, <2>4, ElementPlaced DEF Ready
  <2>7. ~m.bad => Agreeing(m.h, Names) /\ Grows(heap, m.h)
    BY <2>5, ElementAgrees
  <2> HIDE DEF m
  <2>8. ~c.m.bad => Agreeing(c.m.h, Names) /\ Grows(heap, c.m.h) /\ Agrees(c.m.h, Names, c.v)
    BY <2>5, <2>6, <2>7, PlacedAgrees
  <2> HIDE DEF c
  <2>9. e.v = c.v
    BY DEF Tagged
  <2> HIDE DEF e
  <2> QED
    BY <1>1, <1>5, <2>5, <2>8, <2>9, PushTyped
<1> HIDE DEF name, t, v, m, c, e
<1> QED
  BY <1>3, <1>4, <1>5

\* ADD_ELEM.
LEMMA AddElemTyped ==
    ASSUME Ready, Typed, Supplied, AddElem
    PROVE  TInv'
<1> DEFINE name == var_lookup_2(Name)
           t == variables[name]
           v == Pop(0)
           m == array_push(Mem, t.data, v)
           c == op_copy(m, Zeroed, v)
           e == Tagged(c.v)
<1>1. todo # <<>> /\ status = "run" /\ Op = "ADD_ELEM"
  BY DEF AddElem, At, Op
<1>2. Arity = 1
  BY <1>1 DEF Arity
<1>3. \/ Error(1)
      \/ status' = "ub"
      \/ /\ name # None /\ t.type = "ARRAY" /\ Good(Mem, t)
         /\ stack' = Append(Rest(1), e) /\ Done(c.m) /\ UNCHANGED table
  BY DEF AddElem, Undefined
<1>4. CASE Error(1)
  BY <1>1, <1>2, <1>4, ErrorTyped
<1>5. CASE /\ name # None /\ t.type = "ARRAY" /\ Good(Mem, t)
           /\ stack' = Append(Rest(1), e) /\ Done(c.m) /\ UNCHANGED table
  <2>1. name \in DOMAIN variables
    BY <1>5, LookupType
  <2>2. t.data \in DOMAIN heap /\ heap[t.data].kind = "ARRAY"
    BY <1>5, MemIs DEF Good
  <2>3. t.data \in Named(variables)
    <3>1. 0 \notin DOMAIN heap
      <4>1. DOMAIN heap = 1 .. Len(heap) /\ Len(heap) \in Nat
        BY ListType DEF Ready, Holds, Heaped
      <4> QED
        BY <4>1
    <3> QED
      BY <2>1, <2>2, <3>1 DEF Named
  <2>4. Struct(v) /\ v.data \in Stacked(stack) \cup {0} /\ v.data \notin Named(variables) /\ 1 \in 0 .. Len(stack)
    BY <1>1, <1>2, Takes1
  <2>5. t.data \in Owners /\ v.data \in Owners \cup {0} /\ v.data # t.data
    BY <2>3, <2>4, MemKeeps DEF Owners
  <2>6. List(Rest(1)) /\ Picked(Rest(1)) /\ Agrees(heap, Names, v)
    <3>1. 0 \in 0 .. 1 - 1
      OBVIOUS
    <3> QED
      BY <2>4, <3>1, TypedOperands
  <2>7. Holds(Mem.h, Owners) /\ DOMAIN Mem = {"h", "bad"} /\ Mem.h[t.data].kind = "ARRAY" /\ t.data \in DOMAIN Mem.h
    BY <2>2, MemIs DEF Ready
  <2>8. Slot(Mem.h, Names, v)
    BY <2>6, MemIs DEF Slot
  <2> HIDE DEF name, t, v
  <2>9. Placed(m, Owners, v)
    BY <2>4, <2>5, <2>7, PushPlaced
  <2>10. ~m.bad => Agreeing(m.h, Names) /\ Grows(heap, m.h)
    BY <2>7, <2>8, TypedMem, PushAgrees
  <2> HIDE DEF m
  <2>11. ~c.m.bad => Agreeing(c.m.h, Names) /\ Grows(heap, c.m.h) /\ Agrees(c.m.h, Names, c.v)
    BY <2>6, <2>9, <2>10, PlacedAgrees
  <2> HIDE DEF c
  <2>12. e.v = c.v
    BY DEF Tagged
  <2> HIDE DEF e
  <2> QED
    BY <1>1, <1>5, <2>6, <2>11, <2>12, PushTyped
<1> HIDE DEF name, t, v, m, c, e
<1> QED
  BY <1>3, <1>4, <1>5, TypedHalts

\* ACCESS by an index, and by what is no index.
LEMMA AccessIndexTyped ==
    ASSUME Ready, Typed, Supplied, AccessIndex \/ AccessFails
    PROVE  TInv'
<1> DEFINE t == variables[var_lookup_2(Name)]
           i == heap[Pop(0).data].val[2] + 1
           b == heap[t.data].slots[i]
           a == [v2 EXCEPT !.data = 0]
           found == i \in DOMAIN heap[t.data].slots /\ b # Hole
           c == op_copy(Mem, a, b)
           e == IF found THEN Tagged(c.v) ELSE Direct(Zeroed)
           m == IF found THEN c.m ELSE Mem
<1>1. todo # <<>> /\ status = "run" /\ Op = "ACCESS"
  BY DEF AccessIndex, AccessFails, At, Op
<1>2. Arity = 1
  BY <1>1 DEF Arity
<1>3. \/ Error(1)
      \/ status' = "ub"
      \/ Good(Mem, t) /\ stack' = Append(Rest(1), e) /\ Done(m) /\ UNCHANGED table
  BY DEF AccessIndex, AccessFails, Undefined
<1>4. CASE Error(1)
  BY <1>1, <1>2, <1>4, ErrorTyped
<1>5. CASE Good(Mem, t) /\ stack' = Append(Rest(1), e) /\ Done(m) /\ UNCHANGED table
  <2>1. List(Rest(1)) /\ Picked(Rest(1))
    BY <1>1, <1>2, Takes1, TypedOperands
  <2>2. t.data \in DOMAIN heap
    BY <1>5, MemIs DEF Good
  <2>3. a.data = 0
    BY DEF Ready, Struct
  <2>4. found => Agrees(Mem.h, Names, b)
    BY <2>2, TypedMem DEF Agreeing, Slot
  <2> HIDE DEF t, i, a, b
  <2>5. CASE found
    <3>1. Agreeing(c.m.h, Names) /\ Grows(heap, c.m.h) /\ Agrees(c.m.h, Names, c.v)
      BY <2>3, <2>4, <2>5, TypedMem, CopyAgrees
    <3> HIDE DEF c
    <3>2. e.v = c.v /\ m = c.m
      BY <2>5 DEF Tagged
    <3> HIDE DEF found, e, m
    <3> QED
      BY <1>1, <1>5, <2>1, <3>1, <3>2, PushTyped
  <2>6. CASE ~found
    <3>1. e.v = Zeroed /\ m = Mem
      BY <2>6 DEF Direct
    <3>2. Agrees(Mem.h, Names, Zeroed)
      BY TypedMem, EmptyAgrees DEF Types
    <3> HIDE DEF found, e, m
    <3> QED
      BY <1>1, <1>5, <2>1, <3>1, <3>2, TypedMem, PushTyped
  <2> QED
    BY <2>5, <2>6
<1> HIDE DEF t, i, b, a, found, c, e, m
<1> QED
  BY <1>3, <1>4, <1>5, TypedHalts

\* ACCESS by a path.
LEMMA AccessPathTyped ==
    ASSUME Ready, Typed, Supplied, CleanPath, AccessPath
    PROVE  TInv'
<1> DEFINE t == variables[var_lookup_2(Name)]
           at == var_apath(Mem, t, heap[Pop(0).data].val)
           c == IF at.how = "null" THEN [m |-> Mem, v |-> Zeroed] ELSE op_copy(Mem, v2, at.v)
           e == Tagged(c.v)
<1>1. /\ todo # <<>> /\ status = "run" /\ Op = "ACCESS" /\ var_lookup_2(Name) # None
      /\ At({"ACCESS"}) /\ Pop(0).type = "STRING"
  BY DEF AccessPath, At, Op
<1>2. Arity = 1
  BY <1>1 DEF Arity
<1>3. \/ status' = "ub"
      \/ /\ Good(Mem, Pop(0)) /\ at.how # "wild" /\ stack' = Append(Rest(1), e)
         /\ Done(c.m) /\ UNCHANGED table
  BY DEF AccessPath, Undefined
<1>4. CASE /\ Good(Mem, Pop(0)) /\ at.how # "wild" /\ stack' = Append(Rest(1), e)
           /\ Done(c.m) /\ UNCHANGED table
  <2>1. List(Rest(1)) /\ Picked(Rest(1))
    BY <1>1, <1>2, Takes1, TypedOperands
  <2>2. at.how # "null" => v2.data = 0
    BY <1>1, <1>4 DEF CleanPath
  <2>3. var_lookup_2(Name) \in DOMAIN variables
    BY <1>1, LookupType
  <2>4. Agrees(heap, Names, t)
    BY <2>3 DEF Typed, Names
  <2>5. Heaped(heap) /\ Mem.h = heap /\ Agreeing(heap, Names)
    BY TypedMem
  <2>6. List(heap[Pop(0).data].val)
    BY <1>1, <1>4, <2>5 DEF Good, Heaped, Cell
  <2>7. Within(heap, t, at) /\ (at.how \in {"variable", "slot"} => at.v # Hole)
    <3> DEFINE path == heap[Pop(0).data].val
    <3>1. Within(heap, t, var_apath(Mem, t, path))
      BY <2>5, <2>6, PathWithin
    <3>2. at.how = "slot" => at.v # Hole
      <4> DEFINE tokens == Tokens(path)
                 start == [Nowhere EXCEPT !.how = "variable", !.v = t]
                 reached == CHOOSE r : r = [i \in 0 .. Len(tokens) |->
                                              IF i = 0 THEN start ELSE Further(Mem, r[i - 1], tokens[i])]
                 end == reached[Len(tokens)]
      <4>1. at = IF end.how = "slot" /\ end.v = Hole THEN Nowhere ELSE end
        BY DEF var_apath
      <4> HIDE DEF at, end
      <4> QED
        BY <4>1 DEF Nowhere
    <3>3. t # Hole
      BY <2>4 DEF Agrees, Types, Hole, Var
    <3>4. at.how \in {"variable", "slot"} => at.v # Hole
      BY <3>1, <3>2, <3>3 DEF Within
    <3> QED
      BY <3>1, <3>4
  <2> HIDE DEF t, at
  <2>8. at.how # "null" => Agrees(heap, Names, at.v)
    <3>1. CASE at.how = "variable"
      BY <2>4, <2>7, <3>1 DEF Within
    <3>2. CASE at.how = "slot"
      <4>1. /\ t.data \in DOMAIN heap
            /\ at.a \in Reach(heap, t.data) /\ at.slot \in DOMAIN heap[at.a].slots
            /\ at.v = heap[at.a].slots[at.slot]
        BY <2>7, <3>2 DEF Within, Found
      <4>2. at.a \in DOMAIN heap
        BY <2>5, <4>1, ReachLeast
      <4>3. Slot(heap, Names, heap[at.a].slots[at.slot])
        BY <2>5, <4>1, <4>2 DEF Agreeing
      <4>4. at.v # Hole
        BY <2>7, <3>2
      <4> QED
        BY <4>1, <4>3, <4>4 DEF Slot
    <3> QED
      BY <1>4, <2>7, <3>1, <3>2 DEF Within
  <2>9. Agreeing(c.m.h, Names) /\ Grows(heap, c.m.h) /\ Agrees(c.m.h, Names, c.v)
    <3>1. CASE at.how = "null"
      <4>1. c.m = Mem /\ c.v = Zeroed
        BY <3>1
      <4>2. Agrees(Mem.h, Names, Zeroed)
        BY TypedMem, EmptyAgrees DEF Types
      <4> HIDE DEF c
      <4> QED
        BY <4>1, <4>2, TypedMem
    <3>2. CASE at.how # "null"
      <4>1. c = op_copy(Mem, v2, at.v)
        BY <3>2
      <4> HIDE DEF c
      <4> QED
        BY <2>2, <2>5, <2>8, <3>2, <4>1, TypedMem, CopyAgrees
    <3> QED
      BY <3>1, <3>2
  <2> HIDE DEF c
  <2>10. e.v = c.v
    BY DEF Tagged
  <2> HIDE DEF e
  <2> QED
    BY <1>1, <1>4, <2>1, <2>9, <2>10, PushTyped
<1> HIDE DEF t, at, c, e
<1> QED
  BY <1>3, <1>4, TypedHalts

\* What an operator makes of its operands has the type it says.
LEMMA CombinedAgrees ==
    ASSUME Ready, Typed, NEW x, Agrees(heap, Names, x), NEW y, Readable(x, y), Takes(x, y), Op \in Binary,
           NEW r, r = IF Op = "ADD" THEN op_add(x, y) ELSE [m |-> InPlace(x, y), v1 |-> x, v2 |-> y]
    PROVE  Agreeing(r.m.h, Names) /\ Grows(heap, r.m.h) /\ Agrees(r.m.h, Names, r.v1)
<1>1. /\ Good(Mem, x) /\ Good(Mem, y) /\ x.data \in DOMAIN heap /\ y.data \in DOMAIN heap
      /\ heap[x.data].kind = x.type /\ heap[y.data].kind = y.type
  BY MemIs DEF Readable, Good
<1>2. Mem.h = heap /\ DOMAIN Mem = {"h", "bad"} /\ Heaped(heap) /\ Agreeing(heap, Names) /\ Len(heap) \in Nat
  BY TypedMem
<1>3. CASE r = [m |-> InPlace(x, y), v1 |-> x, v2 |-> y]
  <2> DEFINE val == <<Op, heap[x.data].val, heap[y.data].val>>
             g == [heap EXCEPT ![x.data].val = val]
  <2>1. InPlace(x, y).h = g
    BY DEF InPlace, Mem
  <2>2. r.m = InPlace(x, y) /\ r.v1 = x
    BY <1>3
  <2> HIDE DEF val
  <2>3. Agreeing(g, Names) /\ Grows(heap, g)
    BY <1>2, ValAgrees
  <2> HIDE DEF g
  <2> QED
    BY <2>1, <2>2, <2>3, AgreesMore
<1>4. CASE Op = "ADD" /\ {x.type, y.type} # {"DOUBLE"} /\ x.type = "ARRAY"
  <2>1. r.m = Join(Mem, x.data, y.data) /\ r.v1 = x
    BY <1>4 DEF op_add
  <2>2. y.type = "ARRAY"
    BY <1>4 DEF Takes
  <2>3. Agreeing(r.m.h, Names) /\ Grows(heap, r.m.h)
    BY <1>1, <1>2, <1>4, <2>1, <2>2, JoinAgrees
  <2> QED
    BY <2>1, <2>3, AgreesMore
<1>5. CASE Op = "ADD" /\ {x.type, y.type} # {"DOUBLE"} /\ x.type # "ARRAY"
  <2> DEFINE w == [x EXCEPT !.type = "STRING", !.data = Len(heap) + 1]
             m == Free(Mem, <<x>>)
             text == Text(x) \o Text(y)
             f == Fresh(m, "STRING")
  <2>1. r.m = Allocate(m, <<Scalar("STRING", text)>>) /\ r.v1 = w
    BY <1>5 DEF op_add
  <2>2. List(text)
    BY <1>1, TextList, ListJoin
  <2> HIDE DEF text
  <2>3. "h" \in DOMAIN m
    BY DEF Free
  <2>4. Heaped(m.h) /\ Agreeing(m.h, Names) /\ Grows(heap, m.h) /\ Len(m.h) = Len(heap)
    BY <1>2, FreeAgrees
  <2> HIDE DEF m
  <2>5. Agreeing(r.m.h, Names) /\ Grows(heap, r.m.h) /\ Agrees(r.m.h, Names, f)
    <3>1. "STRING" \in Types \ {"ARRAY"}
      BY DEF Types
    <3> QED
      BY <2>1, <2>2, <2>3, <2>4, <3>1, TypedScalar
  <2>6. f.type = "STRING" /\ f.data = Len(heap) + 1
    BY <2>4 DEF Fresh, Var
  <2> HIDE DEF f
  <2>7. w \in [type : {"STRING"}, data : {Len(heap) + 1}, ref : Names \cup {None}]
    BY DEF Agrees
  <2> HIDE DEF w
  <2>8. w.type = f.type /\ w.data = f.data /\ w \in [type : Types, data : 0 .. Len(r.m.h), ref : Names \cup {None}]
    BY <2>5, <2>6, <2>7 DEF Agrees
  <2>9. Agrees(r.m.h, Names, w)
    BY <2>5, <2>8 DEF Agrees
  <2> QED
    BY <2>1, <2>5, <2>9
<1> QED
  BY <1>3, <1>4, <1>5, OperatorCases

\* The binary operators.
LEMMA ArithmeticTyped ==
    ASSUME Ready, Typed, Supplied, Arithmetic
    PROVE  TInv'
<1> DEFINE x == Pop(1)
           y == Pop(0)
           r == IF Op = "ADD" THEN op_add(x, y) ELSE [m |-> InPlace(x, y), v1 |-> x, v2 |-> y]
           e == [stack[Len(stack) - 1] EXCEPT !.v = r.v1]
           m == Free(r.m, <<r.v2>>)
           E == {}
<1>1. todo # <<>> /\ status = "run" /\ Op \in Binary
  BY DEF Arithmetic, At, Op
<1>2. Arity = 2
  BY <1>1 DEF Arity, Binary, Unary
<1>3. \/ Error(2)
      \/ status' = "ub"
      \/ Takes(x, y) /\ Readable(x, y) /\ stack' = Append(Rest(2), e) /\ Done(m) /\ UNCHANGED table
  BY DEF Arithmetic, Undefined
<1>4. CASE Error(2)
  BY <1>1, <1>2, <1>4, ErrorTyped
<1>5. CASE Takes(x, y) /\ Readable(x, y) /\ stack' = Append(Rest(2), e) /\ Done(m) /\ UNCHANGED table
  <2>1. /\ Struct(x) /\ Struct(y) /\ Entry(stack[Len(stack) - 1]) /\ 2 \in 0 .. Len(stack)
        /\ x.data \in Owners \cup {0} /\ y.data \in Owners \cup {0} /\ (x.data # 0 => x.data # y.data)
    BY <1>1, <1>2, Takes2 DEF Owners
  <2>2. List(Rest(2)) /\ Picked(Rest(2)) /\ Agrees(heap, Names, x)
    <3>1. 1 \in 0 .. 2 - 1
      OBVIOUS
    <3> QED
      BY <2>1, <3>1, TypedOperands
  <2>3. \A z : z.data \notin {}
    OBVIOUS
  <2> HIDE DEF x, y
  <2>4. r = IF Op = "ADD" THEN op_add(x, y) ELSE [m |-> InPlace(x, y), v1 |-> x, v2 |-> y]
    OBVIOUS
  <2> HIDE DEF r
  <2>5. Heaped(r.m.h)
    <3>1. E \subseteq Owners /\ x.data \notin E /\ y.data \notin E
      OBVIOUS
    <3> HIDE DEF E
    <3> QED
      BY <1>1, <1>5, <2>1, <2>4, <3>1, Combined
  <2>6. Agreeing(r.m.h, Names) /\ Grows(heap, r.m.h) /\ Agrees(r.m.h, Names, r.v1)
    BY <1>1, <1>5, <2>2, <2>4, CombinedAgrees
  <2>7. Agreeing(m.h, Names) /\ Grows(heap, m.h) /\ Agrees(m.h, Names, r.v1)
    BY <2>5, <2>6, TypedFree
  <2>8. e.v = r.v1
    BY <2>1 DEF Entry
  <2> HIDE DEF e, m
  <2> QED
    BY <1>1, <1>5, <2>2, <2>7, <2>8, PushTyped
<1> HIDE DEF x, y, r, e, m
<1> QED
  BY <1>3, <1>4, <1>5, TypedHalts

\* The comparisons.
LEMMA CompareTyped ==
    ASSUME Ready, Typed, Supplied, Compare
    PROVE  TInv'
<1> DEFINE x == Pop(1)
           y == Pop(0)
           unset == "UNSET" \in {x.type, y.type}
           term == IF unset THEN Lit(IF Op = "CMP" THEN 0 ELSE 1)
                   ELSE <<Op, heap[x.data].val, heap[y.data].val>>
           e == Direct(Fresh(Mem, "DOUBLE"))
           m == Free(Number(Mem, term), <<x, y>>)
<1>1. todo # <<>> /\ status = "run" /\ Op \in Comparisons
  BY DEF Compare, At, Op
<1>2. Arity = 2
  BY <1>1 DEF Arity, Comparisons, Binary, Unary
<1>3. \/ Error(2)
      \/ status' = "ub"
      \/ stack' = Append(Rest(2), e) /\ Done(m) /\ UNCHANGED table
  BY DEF Compare, Undefined
<1>4. CASE Error(2)
  BY <1>1, <1>2, <1>4, ErrorTyped
<1> HIDE DEF x, y, term
<1>5. CASE stack' = Append(Rest(2), e) /\ Done(m) /\ UNCHANGED table
  <2>1. List(Rest(2)) /\ Picked(Rest(2))
    BY <1>1, <1>2, Takes2, TypedOperands
  <2>2. /\ Heaped(Number(Mem, term).h)
        /\ Agreeing(Number(Mem, term).h, Names) /\ Grows(heap, Number(Mem, term).h)
        /\ Agrees(Number(Mem, term).h, Names, Fresh(Mem, "DOUBLE"))
    BY NumberTyped
  <2>3. Agreeing(m.h, Names) /\ Grows(heap, m.h) /\ Agrees(m.h, Names, Fresh(Mem, "DOUBLE"))
    BY <2>2, TypedFree
  <2>4. e.v = Fresh(Mem, "DOUBLE")
    BY DEF Direct
  <2> HIDE DEF e, m
  <2> QED
    BY <1>1, <1>5, <2>1, <2>3, <2>4, PushTyped
<1> HIDE DEF e, m
<1> QED
  BY <1>3, <1>4, <1>5, TypedHalts

\* The unary operators.
LEMMA ChangeTyped ==
    ASSUME Ready, Typed, Supplied, Change
    PROVE  TInv'
<1> DEFINE v == Pop(0)
           new == IF v.type = "STRING" THEN Reverse(heap[v.data].val) ELSE <<Op, heap[v.data].val>>
           also == IF Target(v) = None THEN v ELSE variables[Target(v)]
           g == [heap EXCEPT ![v.data].val = new]
           f == [g EXCEPT ![also.data].val = new]
           m == [Mem EXCEPT !.h = [@ EXCEPT ![v.data].val = new, ![also.data].val = new]]
<1>1. todo # <<>> /\ status = "run"
  BY DEF Change, At
<1>2. \/ Error(0)
      \/ status' = "ub"
      \/ Done(m) /\ UNCHANGED <<table, stack>>
  BY DEF Change, Undefined
<1>3. CASE Error(0)
  BY <1>1, <1>3, ErrorTyped
<1>4. CASE Done(m) /\ UNCHANGED <<table, stack>>
  <2>1. Heaped(heap) /\ Agreeing(heap, Names)
    BY TypedMem
  <2> HIDE DEF v, new, also
  <2>2. m.h = f
    BY DEF Mem
  <2>3. f = [b \in DOMAIN heap |-> f[b]] /\ DOMAIN f = DOMAIN heap
    OBVIOUS
  <2>4. \A b \in DOMAIN heap : f[b].kind = heap[b].kind /\ f[b].slots = heap[b].slots
    <3>1. \A b \in DOMAIN heap : g[b].kind = heap[b].kind /\ g[b].slots = heap[b].slots
                                 /\ DOMAIN g[b] = DOMAIN heap[b]
      BY <2>1 DEF Heaped, Cell, Shaped
    <3>2. \A b \in DOMAIN heap : "kind" \in DOMAIN heap[b] /\ "slots" \in DOMAIN heap[b]
      BY <2>1 DEF Heaped, Cell, Shaped
    <3>3. DOMAIN g = DOMAIN heap
      OBVIOUS
    <3> HIDE DEF g
    <3>4. \A b \in DOMAIN heap : f[b].kind = g[b].kind /\ f[b].slots = g[b].slots
      BY <3>1, <3>2, <3>3
    <3> QED
      BY <3>1, <3>4
  <2> HIDE DEF g, f, m
  <2>5. List(f)
    BY <2>1, <2>3, ListSame DEF Heaped
  <2>6. Agreeing(f, Names) /\ Grows(heap, f)
    BY <2>1, <2>3, <2>4, <2>5, AlikeAgrees
  <2>7. Picked(stack') /\ UNCHANGED table
    BY <1>4 DEF Picked
  <2> QED
    BY <1>1, <1>4, <2>2, <2>6, <2>7, PopTyped
<1> HIDE DEF v, new, also, g, f, m
<1> QED
  BY <1>2, <1>3, <1>4, TypedHalts

\* A function of a cocoon.
LEMMA XCallTyped ==
    ASSUME Ready, Typed, Supplied, XCall
    PROVE  TInv'
<1> DEFINE n == Head(todo).n
           args == [i \in 1 .. n |-> stack[Len(stack) - n + i].v]
           made == Allocate(Mem, <<Scalar(Literal.type, Literal.val)>>)
           e == Tagged(Fresh(Mem, Literal.type))
           m == Free(made, args)
<1>1. todo # <<>> /\ status = "run" /\ Op = "XCALL"
  BY DEF XCall, At, Op
<1>2. \/ stack' = Append(Rest(n), e) /\ Done(m) /\ UNCHANGED table
      \/ /\ status' = "error" /\ stack' = Rest(n) /\ heap' = Free(Mem, args).h
         /\ UNCHANGED <<todo, table>>
  BY DEF XCall
<1>3. n \in 0 .. Len(stack)
  BY <1>1 DEF Supplied, Arity, Binary, Comparisons, Unary
<1> HIDE DEF n
<1>4. List(Rest(n)) /\ Picked(Rest(n))
  BY <1>3, TypedOperands
<1>5. Literal.type \in Types \ {"ARRAY"} /\ (Literal.type = "STRING" => List(Literal.val))
  <2>1. TreeInstruction(Head(todo)) /\ TypedInstruction(Head(todo))
    BY <1>1, NextInstruction, TypedNext
  <2> QED
    BY <1>1, <2>1 DEF TreeInstruction, TypedInstruction, Op, Literal
<1>6. /\ Heaped(made.h) /\ Agreeing(made.h, Names) /\ Grows(heap, made.h)
      /\ Agrees(made.h, Names, Fresh(Mem, Literal.type))
  BY <1>5, ScalarTyped
<1> HIDE DEF made, args
<1>7. Agreeing(m.h, Names) /\ Grows(heap, m.h) /\ Agrees(m.h, Names, Fresh(Mem, Literal.type))
  BY <1>6, TypedFree
<1>8. e.v = Fresh(Mem, Literal.type)
  BY DEF Tagged
<1> HIDE DEF e, m
<1>9. CASE stack' = Append(Rest(n), e) /\ Done(m) /\ UNCHANGED table
  BY <1>1, <1>4, <1>7, <1>8, <1>9, PushTyped
<1>10. CASE /\ status' = "error" /\ stack' = Rest(n) /\ heap' = Free(Mem, args).h
            /\ UNCHANGED <<todo, table>>
  <2>1. Agreeing(heap', Names) /\ \A v : Agrees(heap, Names, v) => Agrees(heap', Names, v)
    BY <1>10, TypedMem, TypedFree
  <2>2. \A i \in DOMAIN stack' : Agrees(heap', Names, stack'[i].v)
    BY <1>4, <1>10, <2>1 DEF Picked, Typed
  <2>3. \A k \in Names : Agrees(heap', Names, variables[k])
    BY <2>1 DEF Typed
  <2>4. Names' = Names /\ variables' = variables /\ chain' = chain /\ todo' = todo
    BY <1>10 DEF Names, table
  <2> QED
    BY <2>1, <2>2, <2>3, <2>4 DEF TInv, Typed
<1> QED
  BY <1>2, <1>9, <1>10

\* PARAM.
LEMMA ParamTyped ==
    ASSUME Ready, Typed, Supplied, Param
    PROVE  TInv'
<1> DEFINE c == op_copy(Mem, Old(Name), Pop(0))
<1>1. todo # <<>> /\ status = "run"
  BY DEF Param, At
<1>2. \/ Error(0)
      \/ status' = "ub"
      \/ /\ stack # <<>> /\ chain' = Added(Name) /\ variables' = With(Name, c.v)
         /\ stack' = Rest(1) /\ Done(c.m)
  BY DEF Param, Undefined
<1>3. Error(0) => TInv'
  BY <1>1, ErrorTyped
<1>4. CASE /\ stack # <<>> /\ chain' = Added(Name) /\ variables' = With(Name, c.v)
           /\ stack' = Rest(1) /\ Done(c.m)
  <2>1. 1 \in 0 .. Len(stack)
    <3>1. stack \in Seq(Range(stack)) /\ Len(stack) \in Nat
      BY DEF Ready, OnStack, List
    <3> QED
      BY <1>4, <3>1
  <2>2. Picked(stack') /\ Agrees(Mem.h, Names, Pop(0)) /\ Agrees(Mem.h, Names, Old(Name))
    <3>1. 0 \in 0 .. 1 - 1
      OBVIOUS
    <3> QED
      BY <1>4, <2>1, <3>1, TypedOperands, OldAgrees, TypedMem
  <2>3. Agreeing(c.m.h, Names) /\ Grows(heap, c.m.h) /\ Agrees(c.m.h, Names, c.v)
    BY <2>2, TypedMem, CopyAgrees
  <2> HIDE DEF c
  <2> QED
    BY <1>1, <1>4, <2>2, <2>3, NameTyped
<1> HIDE DEF c
<1> QED
  BY <1>2, <1>3, <1>4, TypedHalts

\* PARAMX.
LEMMA ParamDefaultTyped ==
    ASSUME Ready, Typed, Supplied, ParamDefault
    PROVE  TInv'
<1> DEFINE arg == IF Len(stack) > 1 THEN Pop(1) ELSE Zeroed
           b == IF arg.type # "UNSET" /\ param_count > 0 THEN arg ELSE Pop(0)
           c == op_copy(Mem, Old(Name), b)
           n == Min({2, Len(stack)})
           m == Free(c.m, <<Pop(0), arg>>)
<1>1. todo # <<>> /\ status = "run" /\ Op = "PARAMX"
  BY DEF ParamDefault, At, Op
<1>2. chain' = Added(Name) /\ variables' = With(Name, c.v) /\ stack' = Rest(n) /\ Done(m)
  BY DEF ParamDefault
<1>3. 1 \in 0 .. Len(stack) /\ Len(stack) \in Nat
  <2>1. Len(stack) \in Nat
    BY ListType DEF Ready, OnStack
  <2> QED
    BY <1>1, <2>1 DEF Supplied, Arity
<1>4. n = IF Len(stack) > 1 THEN 2 ELSE 1
  <2>1. CASE Len(stack) > 1
    BY <1>3, <2>1 DEF Min
  <2>2. CASE ~(Len(stack) > 1)
    <3>1. \A k \in Nat : 1 \in 0 .. k /\ ~(k > 1) => k = 1
      OBVIOUS
    <3>2. Len(stack) = 1
      BY <1>3, <2>2, <3>1
    <3> QED
      BY <2>2, <3>2 DEF Min
  <2> QED
    BY <2>1, <2>2
<1>5. /\ Picked(Rest(n))
      /\ \A v \in {Pop(0), arg} :
           Struct(v) /\ v.data \in Stacked(stack) \cup {0} /\ Agrees(heap, Names, v)
  <2>1. n \in 0 .. Len(stack) /\ n \in {1, 2}
    BY <1>3, <1>4
  <2>2. 0 \in 0 .. n - 1 /\ (Len(stack) > 1 => 1 \in 0 .. n - 1)
    BY <1>4, <2>1
  <2> HIDE DEF n
  <2>3. \A i \in 0 .. n - 1 : Struct(Pop(i)) /\ Pop(i).data \in Stacked(stack) \cup {0}
    BY <2>1, OperandsTaken
  <2>4. Picked(Rest(n)) /\ \A i \in 0 .. n - 1 : Agrees(heap, Names, Pop(i))
    BY <2>1, TypedOperands
  <2>5. Struct(Zeroed) /\ Zeroed.data \in Stacked(stack) \cup {0} /\ Agrees(heap, Names, Zeroed)
    <3>1. "UNSET" \in Types
      BY DEF Types
    <3> QED
      BY <3>1, ZeroedType, TypedMem, EmptyAgrees
  <2> QED
    BY <2>2, <2>3, <2>4, <2>5
<1> HIDE DEF arg, n
<1>6. Struct(b) /\ b.data \in Stacked(stack) \cup {0} /\ Agrees(Mem.h, Names, b)
  BY <1>5, TypedMem
<1>7. Agrees(Mem.h, Names, Old(Name))
  BY OldAgrees, TypedMem
<1> HIDE DEF b
<1>8. Keeps(c.m, (Owners \ {Old(Name).data}) \cup Data(c.v))
  BY <1>6, CopyInto
<1>9. Agreeing(c.m.h, Names) /\ Grows(heap, c.m.h) /\ Agrees(c.m.h, Names, c.v)
  BY <1>6, <1>7, TypedMem, CopyAgrees
<1> HIDE DEF c
<1>10. ~m.bad => Agreeing(m.h, Names) /\ Grows(heap, m.h) /\ Agrees(m.h, Names, c.v)
  <2>1. ~m.bad => ~c.m.bad
    BY DEF Free
  <2>2. ~m.bad => Heaped(c.m.h)
    BY <1>8, <2>1 DEF Keeps, Holds
  <2> QED
    BY <1>9, <2>2, TypedFree
<1> HIDE DEF m
<1> QED
  BY <1>1, <1>2, <1>5, <1>10, NameTyped

\* RETURN and BLOCK_END.
LEMMA BlocksTyped ==
    ASSUME Ready, Typed, Return \/ EndBlock
    PROVE  TInv'
<1> DEFINE f == Fresh(Mem, "DOUBLE")
           N == Number(Mem, Lit(0))
<1>1. todo # <<>> /\ UNCHANGED table /\ List(stack) /\ Picked(stack)
  BY DEF Return, EndBlock, At, Ready, OnStack, Picked
<1>2. Heaped(N.h) /\ Agreeing(N.h, Names) /\ Grows(heap, N.h) /\ Agrees(N.h, Names, f)
  BY NumberTyped
<1>3. CASE Return /\ stack = <<>>
  <2> DEFINE e == Direct(f)
  <2>1. stack' = Append(stack, e) /\ Done(N)
    BY <1>3 DEF Return
  <2>2. e.v = f
    BY DEF Direct
  <2> HIDE DEF e, f, N
  <2> QED
    BY <1>1, <1>2, <2>1, <2>2, PushTyped
<1>4. CASE Return /\ stack # <<>>
  <2> DEFINE e == [stack[Len(stack)] EXCEPT !.v.ref = None]
             w == [stack[Len(stack)].v EXCEPT !.ref = None]
             s == Cleared(Rest(1))
             m == Free(Mem, Garbage(Rest(1)))
  <2>1. stack' = Append(s, e) /\ Done(m)
    BY <1>4 DEF Return
  <2>2. 1 \in 0 .. Len(stack) /\ Len(stack) - 0 = Len(stack) /\ Len(stack) \in DOMAIN stack
    <3>1. stack \in Seq(Range(stack)) /\ Len(stack) \in Nat
      BY <1>1 DEF List
    <3> QED
      BY <1>4, <3>1
  <2>3. List(s) /\ Picked(s)
    BY <2>2, TypedOperands, TypedCleared
  <2>4. Agrees(heap, Names, w)
    BY <2>2, RefAgrees DEF Typed
  <2>5. e.v = w
    <3>1. Entry(stack[Len(stack)])
      BY <2>2 DEF Ready, OnStack
    <3> QED
      BY <3>1 DEF Entry
  <2>6. Agreeing(m.h, Names) /\ Grows(heap, m.h) /\ Agrees(m.h, Names, w)
    BY <2>4, TypedMem, TypedFree
  <2> HIDE DEF e, w, s, m
  <2> QED
    BY <1>1, <2>1, <2>3, <2>5, <2>6, PushTyped
<1>5. CASE EndBlock
  <2> DEFINE e == Tagged(f)
             s == Cleared(stack)
             m == Free(N, Garbage(stack))
  <2>1. stack' = Append(s, e) /\ Done(m)
    BY <1>5 DEF EndBlock
  <2>2. List(s) /\ Picked(s)
    BY <1>1, TypedCleared
  <2>3. e.v = f
    BY DEF Tagged
  <2> HIDE DEF e, s, f, N
  <2>4. Agreeing(m.h, Names) /\ Grows(heap, m.h) /\ Agrees(m.h, Names, f)
    BY <1>2, TypedFree
  <2> HIDE DEF m
  <2> QED
    BY <1>1, <2>1, <2>2, <2>3, <2>4, PushTyped
<1> QED
  BY <1>3, <1>4, <1>5

\* The next statement is read, or the program ends.
LEMMA EndsTyped ==
    ASSUME Ready, Typed, TypedLiterals, NextStatement \/ Finish \/ Stop \/ Ended \/ UNCHANGED vars
    PROVE  TInv'
<1>1. CASE NextStatement
  <2>1. TypedCode(todo')
    BY <1>1 DEF NextStatement, TypedLiterals
  <2>2. UNCHANGED <<heap, table, stack>>
    BY <1>1 DEF NextStatement
  <2> QED
    BY <2>1, <2>2 DEF TInv, Typed, Names, table
<1>2. CASE Finish
  <2>1. /\ heap' = Free(Mem, Garbage(stack)).h /\ stack' = Cleared(stack) /\ UNCHANGED <<todo, table>>
    BY <1>2 DEF Finish
  <2>2. Picked(stack')
    BY <2>1, TypedCleared DEF Ready, OnStack, Picked
  <2>3. Agreeing(heap', Names) /\ \A v : Agrees(heap, Names, v) => Agrees(heap', Names, v)
    BY <2>1, TypedMem, TypedFree
  <2>4. \A i \in DOMAIN stack' : Agrees(heap', Names, stack'[i].v)
    BY <2>2, <2>3 DEF Picked, Typed
  <2>5. \A k \in Names : Agrees(heap', Names, variables[k])
    BY <2>3 DEF Typed
  <2>6. Names' = Names /\ variables' = variables /\ chain' = chain /\ todo' = todo
    BY <2>1 DEF Names, table
  <2> QED
    BY <2>3, <2>4, <2>5, <2>6 DEF TInv, Typed
<1>3. CASE Stop
  <2>1. status' \in {"ub", "stopped"}
    BY <1>3 DEF Stop
  <2> QED
    BY <2>1, TypedHalts
<1>4. CASE Ended \/ UNCHANGED vars
  <2>1. UNCHANGED vars
    BY <1>4 DEF Ended
  <2> QED
    BY <2>1 DEF vars, TInv, Typed, Names, table
<1> QED
  BY <1>1, <1>2, <1>3, <1>4

\* Every step keeps the types.
LEMMA StepTyped ==
    ASSUME OInv, TInv, TypedLiterals, Supplied, CleanPath, [Next]_vars
    PROVE  TInv'
<1>1. CASE status # "run"
  <2>1. CASE UNCHANGED vars
    BY <2>1 DEF vars, TInv, Typed, Names, table
  <2>2. CASE Stop
    <3>1. status' \in {"ub", "stopped"}
      BY <2>2 DEF Stop
    <3> QED
      BY <3>1, TypedHalts
  <2> QED
    BY <1>1, <2>1, <2>2, NoneRuns
<1>2. CASE status = "run"
  <2>1. Ready /\ Typed
    BY <1>2 DEF OInv, TInv
  <2>2. CASE AsVar \/ AsConstant \/ Show \/ ClearStack \/ ReverseStack \/ Call
    BY <2>1, <2>2, AsVarTyped, AsConstantTyped, TakersTyped
  <2>3. CASE Declare \/ DeclareWith \/ Assign
    BY <2>1, <2>3, VariablesTyped
  <2>4. CASE SetElem \/ AddElem \/ AccessIndex \/ AccessPath \/ AccessFails
    BY <2>1, <2>4, SetElemTyped, AddElemTyped, AccessIndexTyped, AccessPathTyped
  <2>5. CASE Arithmetic \/ Compare \/ Change \/ XCall
    BY <2>1, <2>5, ArithmeticTyped, CompareTyped, ChangeTyped, XCallTyped
  <2>6. CASE Param \/ ParamDefault \/ Return \/ EndBlock
    BY <2>1, <2>6, ParamTyped, ParamDefaultTyped, BlocksTyped
  <2>7. CASE NextStatement \/ Finish \/ Stop \/ Ended \/ UNCHANGED vars
    BY <2>1, <2>7, EndsTyped
  <2> QED
    BY <2>2, <2>3, <2>4, <2>5, <2>6, <2>7 DEF Next
<1> QED
  BY <1>1, <1>2

\* There are no vars at the beginning.
LEMMA InitTyped ==
    ASSUME TypedLiterals, Init
    PROVE  TInv
<1>1. DOMAIN <<>> = {}
  OBVIOUS
<1>2. stack = <<>> /\ variables = <<>> /\ chain = <<>> /\ heap = <<>> /\ TypedCode(todo)
  BY DEF Init, TypedLiterals
<1>3. Names = {} /\ Range(chain) = {}
  BY <1>1, <1>2 DEF Names, Range
<1>4. Agreeing(heap, Names)
  BY <1>1, <1>2 DEF Agreeing
<1> QED
  BY <1>1, <1>2, <1>3, <1>4 DEF TInv, Typed

\* Vars with the right types lead to data of these types that are not freed.
LEMMA TypedReads ==
    ASSUME Ready, Typed
    PROVE  \A r \in Roots :
             \A w \in {RootVar(r)} \cup UNION {Range(heap[a].slots) : a \in DataOf(Mem, RootVar(r))} :
                 w.data = 0 \/ Good(Mem, w)
<1>1. Mem.h = heap /\ Heaped(heap) /\ Agreeing(heap, Names) /\ DOMAIN heap = 1 .. Len(heap) /\ Len(heap) \in Nat
  BY TypedMem, ListType DEF Heaped
<1>2. PICK K : Owned(heap, K, Owners)
  BY DEF Ready, Holds
<1> SUFFICES ASSUME NEW r \in Roots,
                    NEW w \in {RootVar(r)} \cup UNION {Range(heap[a].slots) : a \in DataOf(Mem, RootVar(r))},
                    w.data # 0
             PROVE  Good(Mem, w)
  OBVIOUS
<1>3. RootVar(r).data \in Owners \cup {0} /\ Agrees(heap, Names, RootVar(r))
  BY DEF Roots, RootVar, Owners, Stacked, Named, Names, Typed
<1>4. DataOf(Mem, RootVar(r)) = IF RootVar(r).data = 0 THEN {} ELSE Reach(heap, RootVar(r).data)
  BY <1>1 DEF DataOf
<1>5. ASSUME Agrees(heap, Names, w), w.data \in K
      PROVE  Good(Mem, w)
  <2>1. w.data \in DOMAIN heap /\ heap[w.data].kind = w.type
    BY <1>1, <1>5 DEF Agrees
  <2>2. heap[w.data].live
    BY <1>2, <1>5 DEF Owned
  <2> QED
    BY <1>1, <2>1, <2>2 DEF Good
<1>6. CASE w = RootVar(r)
  <2>1. w.data \in K
    BY <1>2, <1>3, <1>6 DEF Owned
  <2> QED
    BY <1>3, <1>5, <1>6, <2>1
<1>7. CASE w # RootVar(r)
  <2>1. PICK a \in DataOf(Mem, RootVar(r)) : w \in Range(heap[a].slots)
    BY <1>7
  <2>2. RootVar(r).data \in Owners /\ RootVar(r).data \in K /\ a \in Reach(heap, RootVar(r).data)
    BY <1>2, <1>3, <1>4, <2>1 DEF Owned
  <2>3. a \in K
    BY <1>1, <1>2, <2>2, ReachOwned
  <2>4. PICK s \in DOMAIN heap[a].slots : w = heap[a].slots[s]
    BY <2>1 DEF Range
  <2>5. a \in DOMAIN heap
    BY <1>2, <2>3 DEF Owned
  <2>6. w # Hole /\ Agrees(heap, Names, w)
    <3>1. Slot(heap, Names, w)
      BY <1>1, <2>4, <2>5 DEF Agreeing
    <3> QED
      BY <3>1 DEF Slot, Hole, Var
  <2>7. w.data \in K
    <3>1. w.data \in Children(heap[a])
      BY <2>1 DEF Children
    <3> QED
      BY <1>2, <2>3, <3>1 DEF Owned
  <2> QED
    BY <1>5, <2>6, <2>7
<1> QED
  BY <1>6, <1>7

\* Every var that a variable or an operand is or leads to has no data, or data
\* that are allocated and of its type, in programs whose literals have the
\* types of values and that feed their instructions, as long as the access
\* paths find v2 without data: op_copy, op_add and the moves of structs keep
\* type and data together.
THEOREM TypesAgreeHolds ==
    ASSUME TreeLiterals, TypedLiterals, FedPrograms
    PROVE  Spec /\ []CleanPath => []TypesAgree
<1>1. Init => OInv /\ TInv
  BY InitOwns, InitTyped
<1>2. OInv /\ TInv /\ Supplied /\ CleanPath /\ [Next]_vars => OInv' /\ TInv'
  BY StepOwns, StepTyped
<1>3. OInv /\ TInv => TypesAgree
  BY TypedReads DEF OInv, TInv, TypesAgree
<1>4. Spec => []Supplied
  BY SuppliedHolds
<1> QED
  BY <1>1, <1>2, <1>3, <1>4, PTL DEF Spec

-----------------------------------------------------------------------------
(* The shape of the state.                                                  *)

\* Entries whose tags are levels.
Leveled(s) == List(s) /\ \A i \in DOMAIN s : s[i].level \in Levels

\* The invariant about the counters, until an instruction is undefined.
LInv ==
    status # "ub" =>
        /\ left \in 0 .. MaxStatements /\ gl_level \in Levels /\ param_count \in Int
        /\ status \in {"run", "done", "error", "stopped"}
        /\ status # "stopped" => Leveled(stack)
        /\ status = "stopped" => chain = <<>> /\ variables = <<>>

\* Entries taken off.
LEMMA LeveledOff ==
    ASSUME Leveled(stack), NEW n \in 0 .. Len(stack)
    PROVE  Leveled(Rest(n))
<1>1. Len(stack) \in Nat
  BY ListType DEF Leveled
<1>2. Len(stack) - n \in 0 .. Len(stack)
  BY <1>1
<1> QED
  BY <1>2, Lowest DEF Leveled, Rest

\* The stack cleared.
LEMMA LeveledCleared ==
    ASSUME NEW s, Leveled(s)
    PROVE  Leveled(Cleared(s))
<1>1. Kept(s) \in 0 .. Len(s)
  BY KeptType DEF Leveled
<1> QED
  BY <1>1, Lowest DEF Leveled, Cleared

\* An entry pushed.
LEMMA LeveledOn ==
    ASSUME NEW s, Leveled(s), NEW e, e.level \in Levels
    PROVE  Leveled(Append(s, e))
<1> DEFINE T == Range(s) \cup {e}
           t == Append(s, e)
<1>1. s \in Seq(T) /\ e \in T /\ Len(s) \in Nat /\ DOMAIN s = 1 .. Len(s)
  BY ListType DEF Leveled, List
<1> HIDE DEF T
<1>2. t \in Seq(T) /\ \A i \in DOMAIN t : t[i] = e \/ (i \in DOMAIN s /\ t[i] = s[i])
  BY <1>1
<1> HIDE DEF t
<1>3. List(t)
  BY <1>2, ListOf
<1> QED
  BY <1>2, <1>3 DEF Leveled, t

\* Entries of either tag.
LEMMA TagType ==
    ASSUME gl_level \in Levels
    PROVE  \A v : Tagged(v).level \in Levels /\ Direct(v).level \in Levels
  BY DEF Tagged, Direct, Levels

\* runtime_error.
LEMMA ErrorLeveled ==
    ASSUME Supplied, status = "run", todo # <<>>, Leveled(stack), NEW n \in Nat, n = 0 \/ n <= Arity, Error(n)
    PROVE  Leveled(stack')
<1>1. n \in 0 .. Len(stack)
  <2>1. Arity \in 0 .. Len(stack) /\ Len(stack) \in Nat
    BY ListType DEF Supplied, Leveled
  <2> HIDE DEF Arity
  <2> QED
    BY <2>1
<1> QED
  BY <1>1, LeveledOff DEF Error

\* Instructions that push, and those that leave the stack alone.
LEMMA PushLeveled ==
    ASSUME Supplied, Leveled(stack), gl_level \in Levels, status' # "ub",
           AsVar \/ AsConstant \/ Declare \/ Change \/ Call \/ NextStatement \/ Stop \/ Ended \/ UNCHANGED vars
    PROVE  Leveled(stack')
<1>1. CASE AsVar
  <2>1. Error(0) \/ \E v : stack' = Append(stack, Direct(v))
    BY <1>1 DEF AsVar
  <2>2. status = "run" /\ todo # <<>>
    BY <1>1 DEF AsVar, At
  <2> QED
    BY <2>1, <2>2, LeveledOn, TagType, ErrorLeveled
<1>2. CASE AsConstant
  <2>1. \E v : stack' = Append(stack, Direct(v)) \/ stack' = Append(stack, Tagged(v))
    BY <1>2 DEF AsConstant
  <2> QED
    BY <2>1, LeveledOn, TagType
<1>3. CASE Change
  <2>1. Error(0) \/ stack' = stack
    BY <1>3 DEF Change, Undefined
  <2>2. status = "run" /\ todo # <<>>
    BY <1>3 DEF Change, At
  <2> QED
    BY <2>1, <2>2, ErrorLeveled
<1>4. CASE Declare \/ Call \/ NextStatement \/ Stop \/ Ended \/ UNCHANGED vars
  <2>1. stack' = stack
    BY <1>4 DEF Declare, Call, NextStatement, Stop, Ended, vars
  <2> QED
    BY <2>1
<1> QED
  BY <1>1, <1>2, <1>3, <1>4

\* Instructions that take one operand.
LEMMA TakeLeveled ==
    ASSUME Supplied, Leveled(stack), gl_level \in Levels, status' # "ub",
           Show \/ DeclareWith \/ Assign \/ AddElem \/ AccessIndex \/ AccessPath \/ AccessFails \/ Param
    PROVE  Leveled(stack')
<1>1. status = "run" /\ todo # <<>> /\ Len(stack) \in Nat /\ DOMAIN stack = 1 .. Len(stack)
  BY ListType DEF Show, DeclareWith, Assign, AddElem, AccessIndex, AccessPath, AccessFails, Param, At, Leveled
<1>2. \/ Error(1) /\ Op # "PARAM"
      \/ Error(0)
      \/ stack' = Rest(1) /\ (Op # "PARAM" \/ stack # <<>>)
      \/ Op # "PARAM" /\ \E v : stack' = Append(Rest(1), Direct(v)) \/ stack' = Append(Rest(1), Tagged(v))
  <2>1. CASE Show \/ DeclareWith \/ Assign
    BY <2>1 DEF Show, DeclareWith, Assign, At, Op
  <2>2. CASE AddElem
    BY <2>2 DEF AddElem, At, Op, Undefined
  <2>3. CASE AccessIndex
    BY <2>3 DEF AccessIndex, At, Op, Undefined
  <2>4. CASE AccessPath
    BY <2>4 DEF AccessPath, At, Op, Undefined
  <2>5. CASE AccessFails
    BY <2>5 DEF AccessFails, At, Op
  <2>6. CASE Param
    BY <2>6 DEF Param, Undefined
  <2> QED
    BY <2>1, <2>2, <2>3, <2>4, <2>5, <2>6
<1>3. Op = "PARAM" \/ 1 <= Arity
  <2>1. Op \in {"PRINT", "VARX", "ACCESS", "ADD_ELEM", "SET", "PARAM"}
    BY DEF Show, DeclareWith, Assign, AddElem, AccessIndex, AccessPath, AccessFails, Param, At, Op
  <2>2. Op \in {"PRINT", "VARX", "ACCESS", "ADD_ELEM"} => Arity = 1
    BY DEF Arity
  <2>3. Op = "SET" => Arity = 2
    BY DEF Arity, Unary
  <2> QED
    BY <2>1, <2>2, <2>3
<1>4. (Op # "PARAM" \/ stack # <<>>) => 1 \in 0 .. Len(stack)
  <2>1. CASE Op # "PARAM"
    <3>1. Arity \in 0 .. Len(stack) /\ 1 <= Arity
      BY <1>1, <1>3, <2>1 DEF Supplied
    <3> HIDE DEF Arity
    <3> QED
      BY <1>1, <3>1
  <2>2. CASE stack # <<>>
    <3>1. stack \in Seq(Range(stack))
      BY DEF Leveled, List
    <3> QED
      BY <1>1, <2>2, <3>1
  <2> QED
    BY <2>1, <2>2
<1>5. (Op # "PARAM" \/ stack # <<>>) => Leveled(Rest(1))
  BY <1>4, LeveledOff
<1> QED
  BY <1>1, <1>2, <1>3, <1>5, LeveledOn, TagType, ErrorLeveled

\* Instructions that take more.
LEMMA OperatorLeveled ==
    ASSUME Supplied, Leveled(stack), gl_level \in Levels, status' # "ub",
           SetElem \/ Arithmetic \/ Compare \/ XCall
    PROVE  Leveled(stack')
<1>1. status = "run" /\ todo # <<>> /\ Len(stack) \in Nat /\ DOMAIN stack = 1 .. Len(stack)
  BY ListType DEF SetElem, Arithmetic, Compare, XCall, At, Leveled
<1> DEFINE n == Arity
           under == stack[Len(stack) - 1]
<1>2. n \in 0 .. Len(stack) /\ n \in Nat /\ Leveled(Rest(n))
  BY <1>1, LeveledOff DEF Supplied
<1>3. CASE SetElem \/ Compare \/ XCall
  <2>1. Op = "XCALL" => n = Head(todo).n
    BY DEF Arity, Binary, Comparisons, Unary
  <2>2. Op = "SET_ELEM" \/ Op \in Comparisons => n = 2
    BY DEF Arity, Binary, Comparisons, Unary
  <2>3. CASE SetElem
    <3>1. Op = "SET_ELEM" /\ (Error(2) \/ \E v : stack' = Append(Rest(2), Tagged(v)))
      BY <2>3 DEF SetElem, At, Op
    <3> HIDE DEF n
    <3>2. n = 2 /\ n = Arity
      BY <2>2, <3>1 DEF n
    <3>3. CASE Error(2)
      BY <1>1, <3>2, <3>3, ErrorLeveled
    <3>4. CASE \E v : stack' = Append(Rest(2), Tagged(v))
      BY <1>2, <3>2, <3>4, LeveledOn, TagType
    <3> QED
      BY <3>1, <3>3, <3>4
  <2>4. CASE Compare
    <3>1. Op \in Comparisons /\ (Error(2) \/ \E v : stack' = Append(Rest(2), Direct(v)))
      BY <2>4 DEF Compare, At, Op, Undefined
    <3> HIDE DEF n
    <3>2. n = 2 /\ n = Arity
      BY <2>2, <3>1 DEF n
    <3>3. CASE Error(2)
      BY <1>1, <3>2, <3>3, ErrorLeveled
    <3>4. CASE \E v : stack' = Append(Rest(2), Direct(v))
      BY <1>2, <3>2, <3>4, LeveledOn, TagType
    <3> QED
      BY <3>1, <3>3, <3>4
  <2>5. CASE XCall
    <3>1. /\ Op = "XCALL"
          /\ stack' = Rest(Head(todo).n) \/ \E v : stack' = Append(Rest(Head(todo).n), Tagged(v))
      BY <2>5 DEF XCall, At, Op
    <3> HIDE DEF n
    <3> QED
      BY <1>2, <2>1, <3>1, LeveledOn, TagType
  <2> QED
    BY <1>3, <2>3, <2>4, <2>5
<1>4. CASE Arithmetic
  <2>1. Op \in Binary /\ (Error(2) \/ \E v : stack' = Append(Rest(2), [under EXCEPT !.v = v]))
    BY <1>4 DEF Arithmetic, At, Op, Undefined
  <2>2. n = 2 /\ n = Arity
    BY <2>1 DEF Arity, Binary, Comparisons, Unary
  <2> HIDE DEF n
  <2>3. Len(stack) - 1 \in DOMAIN stack
    BY <1>1, <1>2, <2>2
  <2>4. under.level \in Levels
    BY <2>3 DEF Leveled
  <2>5. ASSUME NEW v
        PROVE  [under EXCEPT !.v = v].level = under.level
    OBVIOUS
  <2> HIDE DEF under
  <2>6. CASE Error(2)
    BY <1>1, <1>2, <2>2, <2>6, ErrorLeveled
  <2>7. CASE \E v : stack' = Append(Rest(2), [under EXCEPT !.v = v])
    <3>1. PICK v : stack' = Append(Rest(2), [under EXCEPT !.v = v])
      BY <2>7
    <3> DEFINE e == [under EXCEPT !.v = v]
    <3>2. e.level \in Levels
      BY <2>4
    <3> HIDE DEF e
    <3> QED
      BY <1>2, <2>2, <3>1, <3>2, LeveledOn DEF e
  <2> QED
    BY <2>1, <2>6, <2>7
<1> QED
  BY <1>3, <1>4

\* Instructions that clear the stack or turn it round.
LEMMA BlockLeveled ==
    ASSUME OInv, Supplied, Leveled(stack), gl_level \in Levels, status' # "ub",
           ClearStack \/ ReverseStack \/ ParamDefault \/ Return \/ EndBlock \/ Finish
    PROVE  Leveled(stack')
<1>1. status = "run" /\ Len(stack) \in Nat /\ DOMAIN stack = 1 .. Len(stack)
  BY ListType DEF ClearStack, ReverseStack, ParamDefault, Return, EndBlock, Finish, At, Leveled
<1>2. CASE ClearStack \/ Finish
  <2>1. stack' = Cleared(stack)
    BY <1>2 DEF ClearStack, Finish
  <2> QED
    BY <2>1, LeveledCleared
<1>3. CASE EndBlock
  <2>1. \E v : stack' = Append(Cleared(stack), Tagged(v))
    BY <1>3 DEF EndBlock
  <2> QED
    BY <2>1, LeveledCleared, LeveledOn, TagType
<1>4. CASE ReverseStack
  <2> DEFINE n == Head(todo).n
             t == Rest(n) \o Reverse(SubSeq(stack, Len(stack) - n + 1, Len(stack)))
  <2>1. Op = "REVERSE_STACK" /\ stack' = t /\ todo # <<>>
    BY <1>4 DEF ReverseStack, At, Op
  <2>2. n \in 0 .. Len(stack)
    BY <1>1, <2>1 DEF Supplied, Arity, Binary, Comparisons, Unary
  <2> HIDE DEF n
  <2>3. List(t) /\ \A i \in DOMAIN t : \E j \in DOMAIN stack : t[i] = stack[j]
    <3>1. OnStack(stack)
      BY <1>1 DEF OInv, Ready
    <3> QED
      BY <2>2, <3>1, Turned DEF Rest, OnStack
  <2> HIDE DEF t
  <2> QED
    BY <2>1, <2>3 DEF Leveled
<1>5. CASE ParamDefault
  <2>1. Op = "PARAMX" /\ todo # <<>> /\ stack' = Rest(Min({2, Len(stack)}))
    BY <1>5 DEF ParamDefault, At, Op
  <2>2. Min({2, Len(stack)}) \in 0 .. Len(stack)
    <3>1. 1 \in 0 .. Len(stack)
      BY <1>1, <2>1 DEF Supplied, Arity
    <3>2. CASE Len(stack) > 1
      BY <1>1, <3>2 DEF Min
    <3>3. CASE ~(Len(stack) > 1)
      <4>1. \A k \in Nat : 1 \in 0 .. k /\ ~(k > 1) => k = 1
        OBVIOUS
      <4>2. Len(stack) = 1
        BY <1>1, <3>1, <3>3, <4>1
      <4> QED
        BY <4>2 DEF Min
    <3> QED
      BY <3>2, <3>3
  <2> QED
    BY <2>1, <2>2, LeveledOff
<1>6. CASE Return
  <2> DEFINE e == [stack[Len(stack)] EXCEPT !.v.ref = None]
  <2>1. CASE stack = <<>>
    <3>1. \E v : stack' = Append(stack, Direct(v))
      BY <1>6, <2>1 DEF Return
    <3> QED
      BY <3>1, LeveledOn, TagType
  <2>2. CASE stack # <<>>
    <3>1. stack' = Append(Cleared(Rest(1)), e)
      BY <1>6, <2>2 DEF Return
    <3>2. 1 \in 0 .. Len(stack) /\ Len(stack) \in DOMAIN stack
      <4>1. stack \in Seq(Range(stack))
        BY DEF Leveled, List
      <4> QED
        BY <1>1, <2>2, <4>1
    <3>3. stack[Len(stack)].level \in Levels
      BY <3>2 DEF Leveled
    <3>4. e.level = stack[Len(stack)].level
      OBVIOUS
    <3> HIDE DEF e
    <3> QED
      BY <3>1, <3>2, <3>3, <3>4, LeveledOff, LeveledCleared, LeveledOn
  <2> QED
    BY <2>1, <2>2
<1> QED
  BY <1>2, <1>3, <1>4, <1>5, <1>6

\* What becomes of the counters and of the table when a run stops.
LEMMA Quits ==
    ASSUME Next, ~UNCHANGED vars, status' \notin {"run", "ub"}
    PROVE  /\ UNCHANGED <<left, control>> /\ status' \in {"done", "error", "stopped"}
           /\ status' = "stopped" => chain' = <<>> /\ variables' = <<>>
<1>1. CASE AsVar \/ AsConstant \/ Show \/ ClearStack \/ Declare \/ DeclareWith \/ Assign
  BY <1>1 DEF AsVar, AsConstant, Show, ClearStack, Declare, DeclareWith, Assign, Done, Error
<1>2. CASE SetElem \/ AddElem \/ AccessIndex \/ AccessPath \/ AccessFails
  BY <1>2 DEF SetElem, AddElem, AccessIndex, AccessPath, AccessFails, Done, Error, Undefined
<1>3. CASE Arithmetic \/ Compare \/ Change \/ XCall
  BY <1>3 DEF Arithmetic, Compare, Change, XCall, Done, Error, Undefined
<1>4. CASE ReverseStack \/ Call \/ Param \/ ParamDefault \/ Return \/ EndBlock
  BY <1>4 DEF ReverseStack, Call, Param, ParamDefault, Return, EndBlock, Done, Error, Undefined
<1>5. CASE NextStatement \/ Finish \/ Stop
  BY <1>5 DEF NextStatement, Finish, Stop
<1> QED
  BY <1>1, <1>2, <1>3, <1>4, <1>5 DEF Next, Ended

\* The counters while the program runs.
LEMMA RunsOn ==
    ASSUME Supplied, List(stack), left \in 0 .. MaxStatements, MaxStatements \in Nat, param_count \in Int,
           [Next]_vars, status' = "run"
    PROVE  left' \in 0 .. MaxStatements /\ param_count' \in Int
<1>1. CASE NextStatement
  <2>1. left > 0 /\ left' = left - 1 /\ param_count' = param_count
    BY <1>1 DEF NextStatement, control
  <2> QED
    BY <2>1
<1>2. CASE ~NextStatement
  <2>1. left' = left
    <3>1. CASE AsVar \/ AsConstant \/ Show \/ ClearStack \/ Declare \/ DeclareWith \/ Assign
      BY <3>1 DEF AsVar, AsConstant, Show, ClearStack, Declare, DeclareWith, Assign, Done, Error
    <3>2. CASE SetElem \/ AddElem \/ AccessIndex \/ AccessPath \/ AccessFails
      BY <3>2 DEF SetElem, AddElem, AccessIndex, AccessPath, AccessFails, Done, Error, Undefined
    <3>3. CASE Arithmetic \/ Compare \/ Change \/ XCall
      BY <3>3 DEF Arithmetic, Compare, Change, XCall, Done, Error, Undefined
    <3>4. CASE ReverseStack \/ Call \/ Param \/ ParamDefault \/ Return \/ EndBlock
      BY <3>4 DEF ReverseStack, Call, Param, ParamDefault, Return, EndBlock, Done, Error, Undefined
    <3>5. CASE Finish \/ Stop \/ Ended \/ UNCHANGED vars
      BY <3>5 DEF Finish, Stop, Ended, vars
    <3> QED
      BY <1>2, <3>1, <3>2, <3>3, <3>4, <3>5 DEF Next
  <2>2. param_count' \in Int
    <3>1. CASE AsVar \/ AsConstant \/ Show \/ ClearStack \/ Declare \/ DeclareWith \/ Assign
      BY <3>1 DEF AsVar, AsConstant, Show, ClearStack, Declare, DeclareWith, Assign, Error, control
    <3>2. CASE SetElem \/ AddElem \/ AccessIndex \/ AccessPath \/ AccessFails
      BY <3>2 DEF SetElem, AddElem, AccessIndex, AccessPath, AccessFails, Error, Undefined, control
    <3>3. CASE Arithmetic \/ Compare \/ Change \/ XCall
      BY <3>3 DEF Arithmetic, Compare, Change, XCall, Error, Undefined, control
    <3>4. CASE Call \/ Param \/ ParamDefault \/ Return \/ EndBlock
      BY <3>4 DEF Call, Param, ParamDefault, Return, EndBlock, Error, Undefined, control
    <3>5. CASE Finish \/ Stop \/ Ended \/ UNCHANGED vars
      BY <3>5 DEF Finish, Stop, Ended, vars, control
    <3>6. CASE ReverseStack
      <4>1. Op = "REVERSE_STACK" /\ status = "run" /\ todo # <<>> /\ param_count' = Head(todo).n
        BY <3>6 DEF ReverseStack, At, Op
      <4>2. Head(todo).n \in 0 .. Len(stack) /\ Len(stack) \in Nat
        BY <4>1, ListType DEF Supplied, Arity, Binary, Comparisons, Unary
      <4> QED
        BY <4>1, <4>2
    <3> QED
      BY <1>2, <3>1, <3>2, <3>3, <3>4, <3>5, <3>6 DEF Next
  <2> QED
    BY <2>1, <2>2
<1> QED
  BY <1>1, <1>2

\* Every step keeps the counters and the tags.
LEMMA StepLeveled ==
    ASSUME LInv, FInv, FInv', OInv, Supplied, MaxStatements \in Nat, [Next]_vars
    PROVE  LInv'
<1> SUFFICES ASSUME status' # "ub" PROVE LInv'
  BY DEF LInv
<1>1. CASE UNCHANGED vars
  BY <1>1 DEF vars, LInv, Leveled
<1>2. CASE ~UNCHANGED vars
  <2>1. status # "ub" /\ status # "stopped"
    <3>1. status = "run" \/ Stop
      BY <1>2, NoneRuns
    <3> QED
      BY <3>1 DEF Stop
  <2>2. /\ left \in 0 .. MaxStatements /\ gl_level \in Levels /\ param_count \in Int
        /\ Leveled(stack) /\ List(stack)
    BY <2>1 DEF LInv, Leveled
  <2>3. Leveled(stack')
    BY <2>2, PushLeveled, TakeLeveled, OperatorLeveled, BlockLeveled DEF Next
  <2>4. CASE status' = "run"
    <3>1. gl_level' \in Levels
      <4>1. PICK o : Fed(todo', gl_level', o) /\ List(todo')
        BY <2>4 DEF FInv
      <4>2. PICK ls, os : /\ ls[1] = gl_level' /\ ls[Len(todo') + 1] = 0
                          /\ \A i \in 1 .. Len(todo') : ls[i] \in Levels
        BY <4>1 DEF Fed
      <4>3. Len(todo') \in Nat
        BY <4>1, ListType
      <4>4. CASE Len(todo') = 0
        <5>1. 0 + 1 = 1 /\ 0 \in Levels
          BY DEF Levels
        <5>2. ls[0 + 1] = 0
          BY <4>2, <4>4
        <5> QED
          BY <4>2, <5>1, <5>2
      <4>5. CASE Len(todo') # 0
        <5>1. 1 \in 1 .. Len(todo')
          BY <4>3, <4>5
        <5> QED
          BY <4>2, <5>1
      <4> QED
        BY <4>4, <4>5
    <3> QED
      BY <2>2, <2>3, <2>4, <3>1, RunsOn DEF LInv
  <2>5. CASE status' # "run"
    <3>1. /\ left' = left /\ gl_level' = gl_level /\ param_count' = param_count
          /\ status' \in {"done", "error", "stopped"}
          /\ status' = "stopped" => chain' = <<>> /\ variables' = <<>>
      BY <1>2, <2>5, Quits DEF control
    <3> QED
      BY <2>2, <2>3, <3>1 DEF LInv
  <2> QED
    BY <2>4, <2>5
<1> QED
  BY <1>1, <1>2

\* A chain without a name twice is as long as there are names in it.
LEMMA ChainLength ==
    ASSUME NEW s, List(s), \A i, j \in DOMAIN s : s[i] = s[j] => i = j
    PROVE  Len(s) = Cardinality(Range(s))
<1> DEFINE n == Len(s)
           R == Range(s)
<1>1. n \in Nat /\ DOMAIN s = 1 .. n /\ s \in Seq(R)
  BY ListType DEF List
<1>2. IsFiniteSet(1 .. n) /\ Cardinality(1 .. n) = n
  BY <1>1, FS_Interval
<1>3. s \in Bijection(1 .. n, R)
  <2>1. s \in [1 .. n -> R]
    BY <1>1
  <2>2. IsInjective(s)
    BY DEF IsInjective
  <2>3. \A t \in R : \E i \in 1 .. n : s[i] = t
    BY <1>1 DEF Range
  <2> HIDE DEF R
  <2> QED
    BY <2>1, <2>2, <2>3 DEF Bijection, Injection, Surjection
<1>4. ExistsBijection(1 .. n, R)
  BY <1>3 DEF ExistsBijection
<1> HIDE DEF n, R
<1>5. Cardinality(R) = n
  BY <1>2, <1>4, FS_Bijection
<1> QED
  BY <1>5 DEF n, R

\* The invariants give the state its shape.
LEMMA Shape ==
    ASSUME OInv, TInv, LInv, Defined
    PROVE  TypeOK
<1>1. CASE status = "stopped"
  <2>1. Range(<<>>) = {} /\ DOMAIN <<>> = {} /\ Cardinality({}) = 0 /\ Len(<<>>) = 0
    BY FS_EmptySet DEF Range
  <2> QED
    BY <1>1, <2>1 DEF LInv, TypeOK
<1>2. CASE status # "stopped"
  <2>1. Ready /\ Typed /\ status \in {"run", "done", "error"}
    BY <1>2 DEF OInv, TInv, LInv, Defined
  <2>2. \A v : Agrees(heap, Names, v) => v \in Structs
    BY DEF Agrees, Types, Structs, Names
  <2>3. Len(chain) = Cardinality(Range(chain))
    BY <2>1, ChainLength DEF Ready
  <2>4. \A n \in DOMAIN variables : variables[n] \in Structs
    BY <2>1, <2>2 DEF Typed, Names
  <2>5. \A i \in DOMAIN stack : stack[i].v \in Structs /\ stack[i].level \in Levels
    BY <1>2, <2>1, <2>2 DEF Typed, LInv, Defined, Leveled
  <2>6. \A a \in DOMAIN heap : \A w \in Range(heap[a].slots) : w = Hole \/ w \in Structs
    BY <2>1, <2>2 DEF Typed, Agreeing, Slot, Range
  <2> QED
    BY <2>1, <2>3, <2>4, <2>5, <2>6 DEF TypeOK, LInv, Typed, Names
<1> QED
  BY <1>1, <1>2

\* The state has the shape the code gives it, as long as no instruction was
\* undefined: data are addresses that were allocated, references are to
\* variables that exist, the chain has each name once and gl_level stays a
\* BYTE, in programs that feed their instructions and whose literals have the
\* types of values, when the access paths find v2 without data.
THEOREM TypeCorrect ==
    ASSUME TreeLiterals, TypedLiterals, FedPrograms, MaxStatements \in Nat
    PROVE  Spec /\ []CleanPath => [](Defined => TypeOK)
<1>1. Init => OInv /\ TInv /\ LInv
  <2> SUFFICES ASSUME Init PROVE LInv
    BY InitOwns, InitTyped
  <2>1. DOMAIN <<>> = {} /\ List(<<>>)
    BY DEF List
  <2> QED
    BY <2>1 DEF Init, LInv, Leveled, Levels
<1>2. Init => FInv
  BY InitFed
<1>3. OInv /\ TInv /\ LInv /\ FInv /\ FInv' /\ Supplied /\ CleanPath /\ [Next]_vars => OInv' /\ TInv' /\ LInv'
  BY StepOwns, StepTyped, StepLeveled
<1>4. FInv /\ [Next]_vars => FInv'
  BY StepFed
<1>5. OInv /\ TInv /\ LInv => (Defined => TypeOK)
  BY Shape
<1>6. Spec => []Supplied
  BY SuppliedHolds
<1> QED
  BY <1>1, <1>2, <1>3, <1>4, <1>5, <1>6, PTL DEF Spec
=============================================================================

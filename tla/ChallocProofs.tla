---------------------------- MODULE ChallocProofs ----------------------------
(***************************************************************************)
(* Challoc for every size of the allocators, every bound on memory and     *)
(* every set of malloc'ed doubles.                                         *)
(***************************************************************************)
EXTENDS Challoc, TLAPS

USE NChunksAssumption, MaxAllocatorsAssumption

\* The chunks of the allocators in the list, and the malloc'ed doubles.
Known == ((1 .. len) \X Slots) \cup Foreign

\* Every address in circulation is a known one.
Confined ==
    /\ live \subseteq Known
    /\ \A a \in 1 .. len : \A i \in Slots : i < cur[a] => chunks[a][i] \in Known

\* Without a pool there is no list, and before larva_init no double either.
NoPoolNoList ==
    /\ status \in {"none", "null"} => len = 0
    /\ status = "none" => live = {} /\ held = 0

\* The inductive invariant.
IInv == TypeOK /\ NoPoolNoList /\ Confined /\ NoAlias /\ Conservation

(* The six variables keep their types: in particular no stack pointer of   *)
(* challoc.c leaves 0 .. n_chunks before an overrun is reported.            *)
LEMMA TypeStep == TypeOK /\ NoPoolNoList /\ [Next]_vars => TypeOK' /\ NoPoolNoList'
<1> SUFFICES ASSUME TypeOK, NoPoolNoList, [Next]_vars
             PROVE  TypeOK' /\ NoPoolNoList'
    OBVIOUS
<1> USE DEF TypeOK, NoPoolNoList, Allocators, Slots, Addr, Own, Take, Give
<1>1. CASE Chcreate
    BY <1>1 DEF Chcreate, FreshChunks
<1>2. CASE ChcreateFails
    BY <1>2 DEF ChcreateFails
<1>3. CASE ChallocReuse
    BY <1>3 DEF ChallocReuse, FirstWithChunk
<1>4. CASE ChallocGrow
    BY <1>4 DEF ChallocGrow, FreshChunks
<1>5. CASE ChallocNoMemory
    BY <1>5 DEF ChallocNoMemory
<1>6. CASE MallocDouble
    BY <1>6 DEF MallocDouble
<1>7. CASE ChfreeEmptyRoot
    BY <1>7 DEF ChfreeEmptyRoot, PushAt
<1>8. CASE ChfreeRoot
    BY <1>8 DEF ChfreeRoot, PushAt
<1>9. CASE ChfreeOverrun
    BY <1>9 DEF ChfreeOverrun
<1>10. CASE ChfreeNull
    BY <1>10 DEF ChfreeNull
<1>11. CASE Chdestroy
    BY <1>11 DEF Chdestroy
<1>12. CASE UNCHANGED vars
    BY <1>12 DEF vars
<1> QED
    BY <1>1, <1>2, <1>3, <1>4, <1>5, <1>6, <1>7, <1>8, <1>9, <1>10, <1>11, <1>12
       DEF Next, Halted

(* Every reachable state of the allocator is well typed.                    *)
THEOREM TypeCorrect == Spec => []TypeOK
<1>1. Init => TypeOK /\ NoPoolNoList
    BY DEF Init, TypeOK, NoPoolNoList, Allocators, Slots, Addr, Own
<1>2. QED
    BY <1>1, TypeStep, PTL DEF Spec

-----------------------------------------------------------------------------
\* An address that leaves a stack for the interpreter was on no other entry.
LEMMA TakeStep ==
    ASSUME IInv, ChallocReuse
    PROVE  Confined' /\ NoAlias' /\ Conservation'
<1> USE DEF IInv, TypeOK, Allocators, Slots
<1>1. PICK a \in Allocators :
          /\ a \in 1 .. len
          /\ cur[a] > 0
          /\ cur' = [cur EXCEPT ![a] = @ - 1]
          /\ live' = live \cup {chunks[a][cur[a] - 1]}
    BY DEF ChallocReuse, FirstWithChunk, Take
<1>2. len' = len /\ chunks' = chunks /\ status' = status /\ Known' = Known
    BY DEF ChallocReuse, Known
<1> DEFINE top == cur[a] - 1
<1>3. top \in Slots /\ top < cur[a] /\ cur'[a] = top
    BY <1>1
<1>4. \A b \in 1 .. len : \A i \in Slots : i < cur'[b] => i < cur[b] /\ ~(b = a /\ i = top)
    BY <1>1, <1>3
<1>5. Confined'
    BY <1>1, <1>2, <1>3, <1>4 DEF Confined
<1>6. NoAlias'
    <2>1. \A b \in 1 .. len : \A i \in Slots : i < cur'[b] => chunks[b][i] \notin live'
        BY <1>1, <1>3, <1>4 DEF NoAlias
    <2>2. QED
        BY <1>2, <1>4, <2>1 DEF NoAlias
<1>7. Conservation'
    <2> SUFFICES ASSUME status = "ready", NEW p \in (1 .. len) \X Slots, p \notin live'
                 PROVE  p \in Stacked'
        BY <1>2 DEF Conservation
    <2>1. p \in live \cup Stacked /\ p \notin live
        BY <1>1 DEF Conservation
    <2>2. PICK b \in 1 .. len, j \in Slots : j < cur[b] /\ chunks[b][j] = p
        BY <2>1 DEF Stacked
    <2>3. ~(b = a /\ j = top)
        BY <1>1, <2>2
    <2>4. j < cur'[b]
        BY <1>1, <2>2, <2>3
    <2>5. QED
        BY <1>2, <2>1, <2>2, <2>4 DEF Stacked, Addr, Own
<1>8. QED
    BY <1>5, <1>6, <1>7

\* The chunks of an appended allocator are nowhere in circulation yet.
LEMMA GrowStep ==
    ASSUME IInv, ChallocGrow
    PROVE  Confined' /\ NoAlias' /\ Conservation'
<1> USE DEF IInv, TypeOK, Allocators, Slots
<1> DEFINE n == len + 1
<1>1. /\ len' = n /\ n \in 1 .. MaxAllocators /\ len \in Nat
      /\ \A a \in 1 .. len : cur'[a] = 0
      /\ cur'[n] = NChunks - 1
      /\ chunks'[n] = [i \in Slots |-> <<n, i>>]
      /\ live' = live \cup {<<n, NChunks - 1>>}
    BY DEF ChallocGrow, Exhausted, FreshChunks, Take
<1>2. \A a \in 1 .. len', i \in Slots : i < cur'[a] => a = n /\ chunks'[a][i] = <<n, i>>
    BY <1>1
<1>3. ASSUME NEW i \in Slots
      PROVE  <<n, i>> \notin live
    <2>1. <<n, i>> \in Nat \X Nat
        BY <1>1
    <2>2. <<n, i>> \notin Foreign
        BY <2>1, ForeignAssumption
    <2>3. <<n, i>> \notin (1 .. len) \X Slots
        BY <1>1
    <2>4. QED
        BY <2>2, <2>3 DEF Confined, Known
<1>4. Confined'
    BY <1>1, <1>2 DEF Confined, Known
<1>5. NoAlias'
    <2>1. \A i \in Slots : i < cur'[n] => <<n, i>> \notin live'
        BY <1>1, <1>3
    <2> HIDE DEF IInv, TypeOK
    <2>2. \A a \in 1 .. len' : \A i \in Slots : i < cur'[a] => chunks'[a][i] \notin live'
        BY <1>2, <2>1
    <2>3. \A a, b \in 1 .. len' : \A i, j \in Slots :
             i < cur'[a] /\ j < cur'[b] /\ chunks'[a][i] = chunks'[b][j] => a = b /\ i = j
        BY <1>2
    <2>4. QED
        BY <2>2, <2>3 DEF NoAlias
<1>6. Conservation'
    <2> SUFFICES ASSUME NEW a \in 1 .. n, NEW i \in Slots
                 PROVE  <<a, i>> \in live' \cup Stacked'
        <3> HIDE DEF IInv, TypeOK
        <3>1. (1 .. n) \X Slots \subseteq live' \cup Stacked'
            OBVIOUS
        <3>2. QED
            BY <1>1, <3>1 DEF Conservation
    <2>1. CASE a = n /\ i = NChunks - 1
        BY <1>1, <2>1
    <2>2. CASE a = n /\ i # NChunks - 1
        <3>1. i < cur'[n] /\ chunks'[n][i] = <<a, i>>
            BY <1>1, <2>2
        <3>2. <<a, i>> \in Addr /\ n \in 1 .. len'
            BY <1>1 DEF Addr, Own
        <3>3. QED
            BY <3>1, <3>2 DEF Stacked
    <2>3. CASE a # n
        <3>1. a \in 1 .. len /\ status = "ready" /\ Stacked = {}
            BY <1>1, <2>3 DEF ChallocGrow, Exhausted, Stacked
        <3>2. QED
            BY <1>1, <3>1 DEF Conservation
    <2>4. QED
        BY <2>1, <2>2, <2>3
<1>7. QED
    BY <1>4, <1>5, <1>6

\* A returned address goes on top of one stack that has room for it.
LEMMA GiveStep ==
    ASSUME IInv, ChfreeEmptyRoot \/ ChfreeRoot
    PROVE  Confined' /\ NoAlias' /\ Conservation'
<1> USE DEF IInv, TypeOK, Allocators, Slots
<1>1. PICK p \in live, a \in 1 .. len :
          /\ cur[a] < NChunks
          /\ chunks' = [chunks EXCEPT ![a][cur[a]] = p]
          /\ cur' = [cur EXCEPT ![a] = @ + 1]
          /\ live' = live \ {p}
    <2>1. CASE ChfreeEmptyRoot
        BY <2>1 DEF ChfreeEmptyRoot, PushAt, Give
    <2>2. CASE ChfreeRoot
        <3>1. 1 \in 1 .. len
            BY <2>2 DEF ChfreeRoot
        <3>2. QED
            BY <2>2, <3>1 DEF ChfreeRoot, PushAt, Give
    <2>3. QED
        BY <2>1, <2>2
<1>2. len' = len /\ status = "ready" /\ Known' = Known
    BY DEF ChfreeEmptyRoot, ChfreeRoot, Known
<1> DEFINE top == cur[a]
<1>3. top \in Slots /\ chunks'[a][top] = p /\ cur'[a] = top + 1 /\ a \in Allocators
    BY <1>1
<1>4. \A b \in 1 .. len, i \in Slots :
          /\ i < cur'[b] <=> i < cur[b] \/ (b = a /\ i = top)
          /\ i < cur[b] => chunks'[b][i] = chunks[b][i]
    BY <1>1, <1>3
<1>5. Confined'
    BY <1>1, <1>2, <1>3, <1>4 DEF Confined
<1>6. NoAlias'
    <2>1. \A b \in 1 .. len, i \in Slots : i < cur[b] => chunks[b][i] # p /\ chunks[b][i] \notin live
        BY <1>1 DEF NoAlias
    <2>2. ASSUME NEW b \in 1 .. len, NEW c \in 1 .. len, NEW i \in Slots, NEW j \in Slots,
                 i < cur'[b], j < cur'[c], chunks'[b][i] = chunks'[c][j]
          PROVE  b = c /\ i = j
        <3> NoAlias
            OBVIOUS
        <3> HIDE DEF IInv, TypeOK
        <3>1. CASE i < cur[b] /\ j < cur[c]
            BY <1>4, <2>2, <3>1 DEF NoAlias
        <3>2. CASE i < cur[b] /\ ~(j < cur[c])
            BY <1>3, <1>4, <2>1, <2>2, <3>2
        <3>3. CASE ~(i < cur[b]) /\ j < cur[c]
            BY <1>3, <1>4, <2>1, <2>2, <3>3
        <3>4. CASE ~(i < cur[b]) /\ ~(j < cur[c])
            BY <1>4, <2>2, <3>4
        <3>5. QED
            BY <3>1, <3>2, <3>3, <3>4
    <2>3. ASSUME NEW b \in 1 .. len, NEW i \in Slots, i < cur'[b]
          PROVE  chunks'[b][i] \notin live'
        BY <1>1, <1>3, <1>4, <2>1, <2>3
    <2>4. QED
        BY <1>2, <2>2, <2>3 DEF NoAlias
<1>7. Conservation'
    <2> SUFFICES ASSUME NEW q \in (1 .. len) \X Slots, q \notin live'
                 PROVE  q \in Stacked'
        BY <1>2 DEF Conservation
    <2>1. q \in Addr
        BY DEF Addr, Own
    <2>2. CASE q = p
        BY <1>2, <1>3, <1>4, <2>1, <2>2 DEF Stacked
    <2>3. CASE q # p
        <3>1. q \in Stacked
            BY <1>1, <1>2, <2>3 DEF Conservation
        <3>2. PICK b \in 1 .. len, j \in Slots : j < cur[b] /\ chunks[b][j] = q
            BY <3>1 DEF Stacked
        <3>3. j < cur'[b] /\ chunks'[b][j] = q
            BY <1>4, <3>2
        <3>4. QED
            BY <1>2, <2>1, <3>3 DEF Stacked
    <2>4. QED
        BY <2>2, <2>3
<1>8. QED
    BY <1>5, <1>6, <1>7

(* The invariant is inductive: one step per operation of challoc.c.         *)
LEMMA InvariantStep == IInv /\ [Next]_vars => IInv'
<1> SUFFICES ASSUME IInv, [Next]_vars
             PROVE  Confined' /\ NoAlias' /\ Conservation'
    BY TypeStep DEF IInv
<1>1. CASE Chcreate
    <2>1. /\ len' = 1 /\ live' = {}
          /\ chunks'[1] = [i \in Slots |-> <<1, i>>] /\ cur'[1] = NChunks
        BY <1>1 DEF Chcreate, FreshChunks, IInv, TypeOK, NoPoolNoList, Allocators
    <2>2. \A i \in Slots : <<1, i>> \in Stacked'
        BY <2>1 DEF Stacked, Addr, Own, Allocators, Slots
    <2>3. QED
        BY <2>1, <2>2 DEF Confined, NoAlias, Conservation, Known, Slots
<1>2. CASE ChcreateFails \/ ChallocNoMemory \/ ChfreeNull \/ UNCHANGED vars
    BY <1>2 DEF ChcreateFails, ChallocNoMemory, ChfreeNull, vars, IInv, Confined, NoAlias,
                Conservation, Known, Stacked
<1>3. CASE ChallocReuse
    BY <1>3, TakeStep
<1>4. CASE ChallocGrow
    BY <1>4, GrowStep
<1>5. CASE MallocDouble
    <2>1. PICK p \in Foreign \ (live \cup Stacked) : live' = live \cup {p}
        BY <1>5 DEF MallocDouble, Take
    <2>2. UNCHANGED <<status, len, cur, chunks>>
        BY <1>5 DEF MallocDouble
    <2>3. Stacked' = Stacked /\ Known' = Known /\ p \in Known
        BY <2>2 DEF Stacked, Known
    <2>4. \A a \in 1 .. len, i \in Slots : i < cur[a] => chunks[a][i] # p
        BY <2>1 DEF Stacked, Addr
    <2>5. QED
        BY <2>1, <2>2, <2>3, <2>4 DEF IInv, Confined, NoAlias, Conservation
<1>6. CASE ChfreeEmptyRoot \/ ChfreeRoot
    BY <1>6, GiveStep
<1>7. CASE ChfreeOverrun
    BY <1>7 DEF ChfreeOverrun, Give, IInv, Confined, NoAlias, Conservation, Known
<1>8. CASE Chdestroy
    BY <1>8 DEF Chdestroy, Confined, NoAlias, Conservation
<1>9. QED
    BY <1>1, <1>2, <1>3, <1>4, <1>5, <1>6, <1>7, <1>8 DEF Next, Halted

LEMMA InvariantInit == Init => IInv
BY DEF Init, IInv, TypeOK, NoPoolNoList, Confined, NoAlias, Conservation, Known,
       Allocators, Slots, Addr, Own

LEMMA Invariant == Spec => []IInv
BY InvariantInit, InvariantStep, PTL DEF Spec

(* challoc never hands out a double that is in use, and no address is on    *)
(* two free stacks, whatever the sizes and whatever malloc'ed doubles are   *)
(* returned to the pool.                                                    *)
THEOREM NoAliasHolds == Spec => []NoAlias
BY Invariant, PTL DEF IInv

(* No chunk of the pool is ever lost.                                       *)
THEOREM ConservationHolds == Spec => []Conservation
BY Invariant, PTL DEF IInv

(* An allocator is appended only when every chunk of the list is in use.    *)
THEOREM GrowthHolds == Spec => GrowsOnlyWhenAllInUse
<1>1. IInv /\ [Next]_vars => [len > 0 /\ len' > len => (1 .. len) \X Slots \subseteq live]_vars
    <2> SUFFICES ASSUME IInv, Next, len > 0, len' > len
                 PROVE  (1 .. len) \X Slots \subseteq live
        OBVIOUS
    <2>1. ChallocGrow
        BY DEF Next, Chcreate, ChcreateFails, ChallocReuse, ChallocNoMemory, MallocDouble,
               ChfreeEmptyRoot, ChfreeRoot, ChfreeOverrun, ChfreeNull, Chdestroy, Halted,
               vars, IInv, TypeOK, NoPoolNoList
    <2>2. status = "ready" /\ Stacked = {}
        BY <2>1 DEF ChallocGrow, Exhausted, Stacked, Slots
    <2>3. QED
        BY <2>2 DEF IInv, Conservation
<1>2. QED
    BY <1>1, Invariant, PTL DEF Spec, GrowsOnlyWhenAllInUse

(* Every step of challoc.c is a step of the pool challoc.h describes, or    *)
(* one the pool does not see.                                               *)
THEOREM Refinement == Spec => ImplementsPool
<1>1. Init => Pool!Init
    BY DEF Init, Pool!Init
<1>2. IInv /\ [Next]_vars => [Pool!Next]_(Pool!vars)
    <2> SUFFICES ASSUME IInv, [Next]_vars
                 PROVE  Pool!Next \/ UNCHANGED Pool!vars
        OBVIOUS
    <2> USE DEF Pool!Next, Pool!vars, IInv
    <2>1. CASE Chcreate \/ ChcreateFails
        BY <2>1 DEF Chcreate, ChcreateFails, Pool!Create
    <2>2. CASE ChallocReuse
        <3>1. PICK a \in 1 .. len : cur[a] > 0 /\ Take(chunks[a][cur[a] - 1])
            BY <2>2 DEF ChallocReuse, FirstWithChunk
        <3>2. cur[a] - 1 \in Slots /\ cur[a] - 1 < cur[a] /\ a \in Allocators
            BY <3>1 DEF TypeOK, Allocators, Slots
        <3>3. Pool!Acquire(chunks[a][cur[a] - 1])
            BY <2>2, <3>1, <3>2 DEF Pool!Acquire, ChallocReuse, Take, NoAlias
        <3>4. chunks[a][cur[a] - 1] \in Addr
            BY <3>2 DEF TypeOK
        <3>5. QED
            BY <3>3, <3>4
    <2>3. CASE ChallocGrow
        <3>1. <<len + 1, NChunks - 1>> \in Addr
            BY <2>3 DEF ChallocGrow, Addr, Own, Allocators, Slots, TypeOK
        <3>2. <<len + 1, NChunks - 1>> \notin live
            BY ForeignAssumption DEF Confined, Known, TypeOK, Slots
        <3>3. Pool!Acquire(<<len + 1, NChunks - 1>>)
            BY <2>3, <3>2 DEF Pool!Acquire, ChallocGrow, Take
        <3>4. QED
            BY <3>1, <3>3
    <2>4. CASE MallocDouble
        BY <2>4 DEF MallocDouble, Take, Pool!Acquire, Addr
    <2>5. CASE ChfreeEmptyRoot \/ ChfreeRoot \/ ChfreeOverrun
        <3>1. PICK p \in live : Give(p)
            BY <2>5 DEF ChfreeEmptyRoot, ChfreeRoot, ChfreeOverrun
        <3>2. (status # "none") /\ (status' # "none")
            BY <2>5 DEF ChfreeEmptyRoot, ChfreeRoot, ChfreeOverrun
        <3>3. Pool!Release(p) /\ p \in Addr
            BY <3>1, <3>2 DEF Pool!Release, Give, TypeOK
        <3>4. QED
            BY <3>3
    <2>6. CASE ChallocNoMemory \/ ChfreeNull \/ UNCHANGED vars
        BY <2>6 DEF ChallocNoMemory, ChfreeNull, vars
    <2>7. CASE Chdestroy
        BY <2>7 DEF Chdestroy, Pool!Destroy
    <2>8. QED
        BY <2>1, <2>2, <2>3, <2>4, <2>5, <2>6, <2>7 DEF Next, Halted
<1>3. QED
    BY <1>1, <1>2, Invariant, PTL DEF Spec, ImplementsPool, Pool!Spec
=============================================================================

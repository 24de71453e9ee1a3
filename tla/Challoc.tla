------------------------------- MODULE Challoc -------------------------------
(***************************************************************************)
(* The chunk allocator of core/challoc.c, the pool every Leaf number lives *)
(* in (env->pool_of_doubles), driven as the interpreter drives it:         *)
(* larva_init creates the pool, var.c and operator.c take and return       *)
(* doubles, larva_stop destroys it.                                        *)
(*                                                                         *)
(* An allocator is a stack of addresses of free chunks; allocators form a  *)
(* list whose head (number 1) is the root.  op_copy (operator.c:50) takes  *)
(* doubles from malloc, yet var_unset (var.c:395) returns every double to  *)
(* the pool, so addresses the pool never carved reach chfree: Foreign.     *)
(***************************************************************************)
EXTENDS Integers, FiniteSets

CONSTANTS
    NChunks,        \* n_chunks: POOL_OF_DOUBLES_SIZE chunks per allocator
    MaxAllocators,  \* bound: memory holds this many allocators, then malloc fails
    Foreign         \* addresses malloc gives to op_copy

ASSUME NChunksAssumption == NChunks \in Nat \ {0}
ASSUME MaxAllocatorsAssumption == MaxAllocators \in Nat \ {0}
ASSUME ForeignAssumption == Foreign \cap (Nat \X Nat) = {}

Allocators == 1 .. MaxAllocators
Slots == 0 .. NChunks - 1
Own == Allocators \X Slots      \* &memory[slot * chunk_size] of an allocator
Addr == Own \cup Foreign

VARIABLES
    status,   \* none: no pool, null: chcreate failed, ready,
              \* fault: the process is dead (assert or NULL dereference),
              \* overrun: chfree wrote past chunks[]
    len,      \* allocators in the list
    cur,      \* current_chunk of each allocator: its stack pointer
    chunks,   \* the stack of each allocator
    live,     \* the doubles the interpreter holds
    held      \* history: doubles handed out less doubles returned

vars == <<status, len, cur, chunks, live, held>>

\* The addresses on the free stacks of the list.
Stacked ==
    {p \in Addr : \E a \in 1 .. len, i \in Slots : i < cur[a] /\ chunks[a][i] = p}

TypeOK ==
    /\ status \in {"none", "null", "ready", "fault", "overrun"}
    /\ len \in 0 .. MaxAllocators
    /\ cur \in [Allocators -> 0 .. NChunks]
    /\ chunks \in [Allocators -> [Slots -> Addr]]
    /\ live \subseteq Addr
    /\ held \in Int
    /\ status \in {"ready", "overrun"} => len > 0

Init ==
    /\ status = "none"
    /\ len = 0
    /\ cur = [a \in Allocators |-> 0]
    /\ chunks = [a \in Allocators |-> [i \in Slots |-> <<a, i>>]]
    /\ live = {}
    /\ held = 0

-----------------------------------------------------------------------------
\* The interpreter gets, or gives back, the double at p.
Take(p) == live' = live \cup {p} /\ held' = held + 1
Give(p) == p \in live /\ live' = live \ {p} /\ held' = held - 1

(* Seeded faults: forms of the operations below with a plausible mistake,   *)
(* for checking that the properties notice it.                              *)

\* challoc forgets to move the stack pointer.
ChallocKeepsChunk ==
    /\ status = "ready"
    /\ \E a \in 1 .. len : cur[a] > 0 /\ Take(chunks[a][cur[a] - 1])
    /\ UNCHANGED <<status, len, cur, chunks>>

\* The search looks at the root only.
ExhaustedRootOnly == cur[1] = 0

\* chfree stores the address and forgets to count it.
PushAtUncounted(a, p) ==
    /\ chunks' = [chunks EXCEPT ![a][cur[a]] = p]
    /\ UNCHANGED cur

\* The root is taken for full one chunk late.
ChfreeRootOffByOne ==
    /\ status = "ready"
    /\ cur[1] > 0
    /\ \E p \in live :
         /\ cur' = [cur EXCEPT ![1] = @ + 1]
         /\ Give(p)
    /\ UNCHANGED <<status, len, chunks>>

\* chcreate forgets "* chunk_size" and pushes the first chunk every time.
FreshChunksUnscaled(a) == [chunks EXCEPT ![a] = [i \in Slots |-> <<a, 0>>]]

-----------------------------------------------------------------------------
\* What chcreate leaves in allocator a: every chunk on its stack.
FreshChunks(a) == [chunks EXCEPT ![a] = [i \in Slots |-> <<a, i>>]]

\* larva_init creates the root.
Chcreate ==
    /\ status = "none"
    /\ status' = "ready"
    /\ len' = 1
    /\ cur' = [cur EXCEPT ![1] = NChunks]
    /\ chunks' = FreshChunks(1)
    /\ UNCHANGED <<live, held>>

\* malloc or calloc fails in larva_init: pool_of_doubles is NULL, unchecked.
\* When the first calloc fails, s->chunks is read after s was freed.
ChcreateFails ==
    /\ status = "none"
    /\ status' \in {"null", "fault"}
    /\ UNCHANGED <<len, cur, chunks, live, held>>

\* get_first_allocator_with_free_chunk finds nothing in the list,
Exhausted == \A a \in 1 .. len : cur[a] = 0

\* or finds a, the first with a free chunk ...
FirstWithChunk(a) ==
    /\ a \in 1 .. len
    /\ cur[a] > 0
    /\ \A b \in 1 .. a - 1 : cur[b] = 0

\* ... and challoc pops its stack.
ChallocReuse ==
    /\ status = "ready"
    /\ \E a \in Allocators :
         /\ FirstWithChunk(a)
         /\ cur' = [cur EXCEPT ![a] = @ - 1]
         /\ Take(chunks[a][cur[a] - 1])
    /\ UNCHANGED <<status, len, chunks>>

\* Every stack is empty: an allocator is appended, and its last chunk handed out.
ChallocGrow ==
    /\ status = "ready"
    /\ Exhausted
    /\ len < MaxAllocators
    /\ len' = len + 1
    /\ cur' = [cur EXCEPT ![len + 1] = NChunks - 1]
    /\ chunks' = FreshChunks(len + 1)
    /\ Take(<<len + 1, NChunks - 1>>)
    /\ UNCHANGED status

\* chcreate fails in the append: challoc dereferences the NULL it returned.
\* Without a root, the search meets assert(0).
ChallocNoMemory ==
    /\ \/ status = "ready" /\ Exhausted
       \/ status = "null"
    /\ status' = "fault"
    /\ UNCHANGED <<len, cur, chunks, live, held>>

\* op_copy takes a double from malloc: an address nobody holds and nobody
\* gave back to malloc (chfree never does).
MallocDouble ==
    /\ status \in {"ready", "null"}
    /\ \E p \in Foreign \ (live \cup Stacked) : Take(p)
    /\ UNCHANGED <<status, len, cur, chunks>>

PushAt(a, p) ==
    /\ chunks' = [chunks EXCEPT ![a][cur[a]] = p]
    /\ cur' = [cur EXCEPT ![a] = @ + 1]

\* chfree with an empty root: push_chunk_to_first_free_stack.
ChfreeEmptyRoot ==
    /\ status = "ready"
    /\ cur[1] = 0
    /\ \E p \in live, a \in 1 .. len :
         /\ cur[a] < NChunks
         /\ \A b \in 1 .. a - 1 : cur[b] = NChunks
         /\ PushAt(a, p)
         /\ Give(p)
    /\ UNCHANGED <<status, len>>

\* chfree otherwise: always the root's stack.
ChfreeRoot ==
    /\ status = "ready"
    /\ cur[1] > 0
    /\ cur[1] < NChunks
    /\ \E p \in live : PushAt(1, p) /\ Give(p)
    /\ UNCHANGED <<status, len>>

\* The root's stack is full and nothing checks it: chunks[n_chunks] is written,
\* past the end of the calloc'ed array.  What follows is undefined.
ChfreeOverrun ==
    /\ status = "ready"
    /\ cur[1] = NChunks
    /\ \E p \in live : Give(p)
    /\ status' = "overrun"
    /\ UNCHANGED <<len, cur, chunks>>

\* A malloc'ed double is returned to a pool that was never created.
ChfreeNull ==
    /\ status = "null"
    /\ live # {}
    /\ status' = "fault"
    /\ UNCHANGED <<len, cur, chunks, live, held>>

\* larva_stop: the list is freed and env->pool_of_doubles is NULL.
Chdestroy ==
    /\ status \in {"ready", "null"}
    /\ status' = "none"
    /\ len' = 0
    /\ cur' = [a \in Allocators |-> 0]
    /\ live' = {}
    /\ held' = 0
    /\ UNCHANGED chunks

\* After a fault or an overrun nothing is said of the process.
Halted == status \in {"fault", "overrun"} /\ UNCHANGED vars

Next ==
    \/ Chcreate \/ ChcreateFails
    \/ ChallocReuse \/ ChallocGrow \/ ChallocNoMemory
    \/ MallocDouble
    \/ ChfreeEmptyRoot \/ ChfreeRoot \/ ChfreeOverrun \/ ChfreeNull
    \/ Chdestroy \/ Halted

Spec == Init /\ [][Next]_vars

-----------------------------------------------------------------------------
(* No double belongs to two owners: an address is on at most one free stack *)
(* entry, and never on a stack while the interpreter holds it, so challoc   *)
(* cannot hand out a double that is in use (challoc.c:64-82).               *)
NoAlias ==
    /\ \A a, b \in 1 .. len : \A i, j \in Slots :
         i < cur[a] /\ j < cur[b] /\ chunks[a][i] = chunks[b][j] => a = b /\ i = j
    /\ \A a \in 1 .. len : \A i \in Slots : i < cur[a] => chunks[a][i] \notin live

(* No chunk is lost: whatever the order of challoc, growth and chfree, each *)
(* chunk carved by an allocator of the list is held or can be handed out.   *)
Conservation ==
    status = "ready" => (1 .. len) \X Slots \subseteq live \cup Stacked

(* The list grows only for want: get_first_allocator_with_free_chunk        *)
(* appends an allocator only when every chunk of the list is in use.        *)
GrowsOnlyWhenAllInUse ==
    [][len > 0 /\ len' > len => (1 .. len) \X Slots \subseteq live]_vars

(* challoc.c implements the pool challoc.h describes, up to the first write *)
(* past chunks[] or death of the process.                                   *)
Pool == INSTANCE PoolSpec WITH open <- status # "none"
ImplementsPool == Pool!Spec
=============================================================================

------------------------------ MODULE PoolSpec ------------------------------
(***************************************************************************)
(* What challoc.h promises of a pool of same-sized objects, with nothing   *)
(* of how it is done: an object handed out is not in anybody's hands, and  *)
(* destroying the pool invalidates every object.                           *)
(***************************************************************************)
EXTENDS Integers

CONSTANT Addr           \* the addresses an object may have

VARIABLES open,         \* a pool exists
          live,         \* the objects in the hands of the interpreter
          held          \* how many times one was handed out and not returned

vars == <<open, live, held>>

Init == open = FALSE /\ live = {} /\ held = 0

\* larva_init creates the pool of a request.
Create == ~open /\ open' = TRUE /\ UNCHANGED <<live, held>>

\* An object is handed out: to nobody else.
Acquire(p) ==
    /\ open
    /\ p \notin live
    /\ live' = live \cup {p}
    /\ held' = held + 1
    /\ UNCHANGED open

\* The holder gives an object back.
Release(p) ==
    /\ open
    /\ p \in live
    /\ live' = live \ {p}
    /\ held' = held - 1
    /\ UNCHANGED open

\* larva_stop: "all objects allocated by this ChunkAllocator become invalid".
Destroy == open /\ open' = FALSE /\ live' = {} /\ held' = 0

Next == Create \/ Destroy \/ \E p \in Addr : Acquire(p) \/ Release(p)

Spec == Init /\ [][Next]_vars
=============================================================================

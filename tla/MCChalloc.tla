------------------------------ MODULE MCChalloc ------------------------------
(***************************************************************************)
(* Challoc on a root of two chunks that may be extended twice, with one    *)
(* malloc'ed double in circulation.                                        *)
(***************************************************************************)
EXTENDS Challoc

=============================================================================

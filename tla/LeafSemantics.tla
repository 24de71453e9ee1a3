---------------------------- MODULE LeafSemantics ----------------------------
(***************************************************************************)
(* What the language promises of the flow of control (docs/index.html,     *)
(* "Statements" and "Blocks"), on the structure of the program alone: a    *)
(* false condition passes control behind the statement's block, a loop     *)
(* goes back to its condition, an else belongs to the last if before it, a *)
(* call enters the block that carries its full name and return goes back   *)
(* to where the innermost block was called.                                *)
(***************************************************************************)
EXTENDS Integers, Sequences, FiniteSets, FiniteSetsExt

VARIABLES
    prog,    \* the program, in the instructions of larva_digest
    pc,      \* the next instruction
    ctx,     \* the open statements and calls, the innermost last
    ifs,     \* how the last if turned out, among the statements of the program
             \* and of each member of ctx: none, taken or refused
    known,   \* positions of the block definitions met so far
    state    \* "run" or "stopped"

vars == <<prog, pc, ctx, ifs, known, state>>

Count(op, a, b) == Cardinality({k \in a .. b : prog[k].op = op})

\* The position behind the block that opens at or after q.
Behind(q) ==
    1 + Min({e \in q .. Len(prog) :
               /\ prog[e].op = "BLOCK_END"
               /\ Count("BLOCK_START", q, e) = Count("BLOCK_END", q, e)})

\* The definitions around position d, outermost first, give its full name.
Path(d) ==
    LET around == {k \in 1 .. d : prog[k].op = "BLOCK_DEF" /\ (k = d \/ d < Behind(k + 1))}
        nth(i) == CHOOSE k \in around : Cardinality({j \in around : j <= k}) = i
    IN  [i \in 1 .. Cardinality(around) |-> prog[nth(i)].name[1]]

At(op) == state = "run" /\ pc <= Len(prog) /\ prog[pc].op = op

\* An else belongs to the last if before it, which "may not stick together"
\* with it, and is passed over if that was taken.  Without one, nothing is said.
Landing(q, outcome) ==
    IF q <= Len(prog) /\ prog[q].op = "ELSE"
    THEN {p \in {q, Behind(q + 1)} :
            CASE outcome = "taken" -> p # q [] outcome = "refused" -> p = q [] OTHER -> TRUE}
    ELSE {q}

Goto(q) == pc' \in Landing(q, ifs'[Len(ifs')]) /\ UNCHANGED <<prog, known, state>>

Enter(kind, ret) ==
    /\ ctx' = Append(ctx, [kind |-> kind, ret |-> ret])
    /\ ifs' = Append(ifs, "none")

Innermost == ctx[Len(ctx)]

\* Everything from the n-th open statement or call on is left.
LeaveFrom(n) ==
    /\ ctx' = SubSeq(ctx, 1, n - 1)
    /\ ifs' = SubSeq(ifs, 1, n)

Leave == LeaveFrom(Len(ctx))

Init ==
    /\ pc = 1
    /\ ctx = <<>>
    /\ ifs = <<"none">>
    /\ known = {}
    /\ state = "run"

Control == {"BLOCK_DEF", "CALL", "RETURN", "BLOCK_END", "WHILE", "IF", "ELSE", "CEIT"}

Plain ==
    /\ \E op \in {prog[k].op : k \in DOMAIN prog} \ Control : At(op)
    /\ UNCHANGED <<ctx, ifs>>
    /\ Goto(pc + 1)

\* A definition makes its block known and is otherwise passed over.
Define ==
    /\ At("BLOCK_DEF")
    /\ known' = known \cup {pc}
    /\ pc' = Behind(pc + 1)
    /\ UNCHANGED <<prog, ctx, ifs, state>>

Call ==
    /\ At("CALL")
    /\ Enter("RUN_BLOCK", pc + 1)
    /\ \E d \in known : Path(d) = prog[pc].name /\ Goto(d + 1)

\* "return - returns on the previous level": of the innermost call.
Return ==
    /\ At("RETURN")
    /\ LET calls == {k \in DOMAIN ctx : ctx[k].kind = "RUN_BLOCK"} IN
       IF calls = {} THEN UNCHANGED <<ctx, ifs>> /\ Goto(pc + 1)
       ELSE LeaveFrom(Max(calls)) /\ Goto(ctx[Max(calls)].ret)

While == At("WHILE") /\ Enter("RUN_WHILE", pc) /\ Goto(pc + 1)
If == At("IF") /\ Enter("RUN_IF", 0) /\ Goto(pc + 1)
Else == At("ELSE") /\ Enter("RUN_ELSE", 0) /\ Goto(pc + 1)

ConditionTrue ==
    /\ At("CEIT")
    /\ ifs' = [ifs EXCEPT ![Len(ctx)] = IF Innermost.kind = "RUN_IF" THEN "taken" ELSE @]
    /\ Goto(pc + 1)
    /\ UNCHANGED ctx

ConditionFalse ==
    /\ At("CEIT")
    /\ ctx' = SubSeq(ctx, 1, Len(ctx) - 1)
    /\ ifs' = [SubSeq(ifs, 1, Len(ctx)) EXCEPT
                 ![Len(ctx)] = IF Innermost.kind = "RUN_IF" THEN "refused" ELSE @]
    /\ Goto(Behind(pc + 1))

End ==
    /\ At("BLOCK_END")
    /\ Leave
    /\ Goto(IF Innermost.kind \in {"RUN_WHILE", "RUN_BLOCK"} THEN Innermost.ret ELSE pc + 1)

\* The program ends, or an operation fails.
Stop ==
    /\ state = "run"
    /\ state' = "stopped"
    /\ UNCHANGED <<prog, pc, ctx, ifs, known>>

Next ==
    \/ Plain \/ Define \/ Call \/ Return \/ While \/ If \/ Else
    \/ ConditionTrue \/ ConditionFalse \/ End \/ Stop

Spec == Init /\ [][Next]_vars
=============================================================================

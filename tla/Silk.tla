-------------------------------- MODULE Silk --------------------------------
(***************************************************************************)
(* The byte-code interpreter, larva_silk (core/larva_silk.c), with its     *)
(* operand stack (core/stack.c) and the table of defined blocks            *)
(* (core/block.c).                                                         *)
(*                                                                         *)
(* An instruction with its operands is one cell of prog: positions count   *)
(* instructions, not bytes.  Values are left out: an operand is its level  *)
(* tag (var.level), a condition may be true or false, and an operation     *)
(* that may raise runtime_error may do so.  A block name is the sequence   *)
(* of its dot-separated parts; <<>> stands for a NULL block.               *)
(***************************************************************************)
EXTENDS Integers, Sequences, FiniteSets, SequencesExt

CONSTANTS
    Programs,    \* the byte-codes larva_digest may have produced
    StackSize,   \* BOMBYX_STACK_SIZE
    ByteMod      \* values of a BYTE and entries of run_flag and ret_point

Levels == 0 .. ByteMod - 1
Flags == {"none", "RUN_IF", "RUN_ELSE", "RUN_WHILE", "RUN_BLOCK"}
Outcomes == {"none", "taken", "refused"}

\* What the instructions that only compute do to the operand stack: how many
\* operands stack_pop takes, whether the entry below them is then used in
\* place, and what may be pushed: nothing, a value stack_push tags with the
\* current level, one stored directly with tag 0, or the left operand again.
Effect == [
    AS_VAR     |-> [pops |-> 0, inPlace |-> FALSE, pushes |-> {"direct"}],
    AS_DOUBLE  |-> [pops |-> 0, inPlace |-> FALSE, pushes |-> {"direct"}],
    AS_VOID    |-> [pops |-> 0, inPlace |-> FALSE, pushes |-> {"direct"}],
    AS_STRING  |-> [pops |-> 0, inPlace |-> FALSE, pushes |-> {"tagged"}],
    FROM_JSON  |-> [pops |-> 0, inPlace |-> FALSE, pushes |-> {"tagged"}],
    MICROTIME  |-> [pops |-> 0, inPlace |-> FALSE, pushes |-> {"tagged"}],
    COMPARE    |-> [pops |-> 2, inPlace |-> FALSE, pushes |-> {"direct"}],
    ARITHMETIC |-> [pops |-> 2, inPlace |-> FALSE, pushes |-> {"operand"}],
    UNARY      |-> [pops |-> 0, inPlace |-> TRUE,  pushes |-> {"nothing"}],
    SET        |-> [pops |-> 1, inPlace |-> TRUE,  pushes |-> {"nothing"}],
    SET_ELEM   |-> [pops |-> 2, inPlace |-> FALSE, pushes |-> {"tagged"}],
    ADD_ELEM   |-> [pops |-> 1, inPlace |-> FALSE, pushes |-> {"tagged"}],
    ACCESS     |-> [pops |-> 1, inPlace |-> FALSE, pushes |-> {"tagged", "direct"}],
    PRINT      |-> [pops |-> 1, inPlace |-> FALSE, pushes |-> {"nothing"}],
    VAR        |-> [pops |-> 0, inPlace |-> FALSE, pushes |-> {"nothing"}],
    VARX       |-> [pops |-> 1, inPlace |-> FALSE, pushes |-> {"nothing"}]]

\* Instructions whose handler has a runtime_error of its own.
Fallible == {"AS_VAR", "FROM_JSON", "COMPARE", "ARITHMETIC", "UNARY", "SET", "SET_ELEM",
             "ADD_ELEM", "ACCESS", "VARX", "PARAM", "XCALL", "CEIT"}

Ops == DOMAIN Effect \cup
    {"IDLE", "XCALL", "REVERSE_STACK", "CLEAR_STACK", "PARAM", "PARAMX", "CALL",
     "RETURN", "BLOCK_DEF", "SKIP", "BLOCK_START", "BLOCK_END", "WHILE", "IF",
     "ELSE", "CEIT"}

Instr == [op : Ops, name : Seq(STRING), n : Nat]

ASSUME ProgramsAssumption == Programs \subseteq Seq(Instr)
ASSUME StackSizeAssumption == StackSize \in Nat \ {0}
ASSUME ByteModAssumption == ByteMod \in Nat \ {0, 1}

VARIABLES
    prog,          \* the byte-code as digested
    patched,       \* BLOCK_DEFs that were overwritten by IDLEs and a SKIP
    pos,           \* bc_pos
    skip_mode,     \* passing over code without executing it
    level,         \* blocks open since skip_mode was entered
    def_mode,      \* skip_mode was entered by a definition
    gl_level,      \* current nesting level
    run_flag,      \* what opened each level
    ret_point,     \* where each level returns to
    this_block,    \* "the block you are in"
    parent_block,  \* "used during block definition"
    blocks,        \* env->blocks
    stack,         \* bc_stack: the level tags, the top last
    param_count,   \* arguments not taken yet; below zero kept at -1
    status,        \* run, done, error (larva_error), empty ("Pop failed."), ub,
                   \* crash (NULL parent_block), hang
    frameBase,     \* history: operands below a call's arguments, per level: the
                   \* caller's own, and all, with what statements before it left
    lastIf         \* history: how the last if among the statements of each level
                   \* turned out

historyVars == <<frameBase, lastIf>>
levelVars == <<gl_level, run_flag, ret_point, historyVars>>
skipVars == <<skip_mode, level, def_mode>>
blockVars == <<patched, this_block, parent_block, blocks>>
vars == <<prog, pos, stack, param_count, status, levelVars, skipVars, blockVars>>

TypeOK ==
    /\ prog \in Programs
    /\ patched \subseteq 1 .. Len(prog)
    /\ pos \in Nat \ {0}
    /\ skip_mode \in BOOLEAN /\ def_mode \in BOOLEAN
    /\ level \in Levels /\ gl_level \in Levels
    /\ run_flag \in [Levels -> Flags]
    /\ ret_point \in [Levels -> Nat \ {0}]
    /\ frameBase \in [Levels -> [own : Nat, all : Int]]
    /\ lastIf \in [Levels -> Outcomes]
    /\ this_block \in Seq(STRING) /\ parent_block \in Seq(STRING)
    /\ DOMAIN blocks \subseteq Seq(STRING)
    /\ \A b \in DOMAIN blocks : blocks[b] \in [pos : Nat \ {0}, parent : Seq(STRING)]
    /\ stack \in Seq(Levels) /\ Len(stack) <= StackSize
    /\ param_count \in Nat \cup {-1}
    /\ status \in {"run", "done", "error", "empty", "ub", "crash", "hang"}

\* run_flag and ret_point hold what the previous run of this env left.
Init ==
    /\ prog \in Programs
    /\ patched = {}
    /\ pos = 1
    /\ skip_mode = FALSE /\ level = 0 /\ def_mode = FALSE
    /\ gl_level = 0
    /\ \E f \in Flags : run_flag = [l \in Levels |-> IF l = 0 THEN "none" ELSE f]
    /\ ret_point = [l \in Levels |-> 1]
    /\ frameBase = [l \in Levels |-> [own |-> 0, all |-> 0]]
    /\ lastIf = [l \in Levels |-> "none"]
    /\ this_block = <<>> /\ parent_block = <<>>
    /\ blocks = <<>>
    /\ stack = <<>>
    /\ param_count = 0
    /\ status = "run"

-----------------------------------------------------------------------------
Idle == [op |-> "IDLE", name |-> <<>>, n |-> 0]
Skip == [op |-> "SKIP", name |-> <<>>, n |-> 0]

\* The instruction at pos, as patched so far.
Here == IF pos \in patched THEN Skip ELSE prog[pos]

(* Seeded fault: the handler of REVERSE_STACK does not look at skip_mode.   *)
ExecutingReverse(op) ==
    /\ status = "run"
    /\ pos <= Len(prog)
    /\ Here.op = op
    /\ ~skip_mode \/ op \in {"BLOCK_START", "BLOCK_END", "ADD_ELEM", "REVERSE_STACK"}

\* larva_silk is about to execute an instruction op.
Executing(op) ==
    /\ status = "run"
    /\ pos <= Len(prog)
    /\ Here.op = op
    /\ ~skip_mode \/ op \in {"BLOCK_START", "BLOCK_END", "ADD_ELEM"}

(* Seeded fault: nesting is not cut down to a BYTE.                         *)
IncUnbounded(b) == b + 1

Inc(b) == (b + 1) % ByteMod
Dec(b) == (b + ByteMod - 1) % ByteMod

\* What remains when n operands are gone.
Below(n) == SubSeq(stack, 1, Len(stack) - n)

\* stack_clear at level l: drop operands down to the first of a lower level.
Cleared(s, l) == SubSeq(s, 1, Max({0} \cup {k \in 1 .. Len(s) : s[k] < l}))

\* larva_error and runtime_error leave the interpreter by longjmp or exit.
Stop(how) ==
    /\ status' = how
    /\ UNCHANGED <<prog, pos, stack, param_count, levelVars, skipVars, blockVars>>

\* An instruction that only works on operands is done.
Operands(s) ==
    /\ stack' = s
    /\ pos' = pos + 1
    /\ UNCHANGED <<prog, status, levelVars, skipVars, blockVars>>

\* skip_mode passes over everything that opens or closes no block, except
\* ADD_ELEM, whose handler does not look at skip_mode.
PassOver ==
    /\ status = "run" /\ pos <= Len(prog)
    /\ skip_mode
    /\ Here.op \notin {"BLOCK_START", "BLOCK_END", "ADD_ELEM"}
    /\ pos' = pos + 1
    /\ UNCHANGED <<prog, stack, param_count, status, levelVars, skipVars, blockVars>>

\* The end of the byte-code: the last stack_clear.
Finish ==
    /\ status = "run" /\ pos > Len(prog)
    /\ status' = "done"
    /\ stack' = Cleared(stack, gl_level)
    /\ UNCHANGED <<prog, pos, param_count, levelVars, skipVars, blockVars>>

-----------------------------------------------------------------------------
(* Instructions on operands.                                                *)

\* The operands an instruction works on before it can fail otherwise.
Needs(op) ==
    CASE op \in DOMAIN Effect -> Effect[op].pops + (IF Effect[op].inPlace THEN 1 ELSE 0)
      [] op = "CEIT" -> 1
      [] OTHER -> 0

RuntimeError ==
    /\ \E op \in Fallible : Executing(op) /\ Len(stack) >= Needs(op)
    /\ Stop("error")

\* The operands an instruction leaves when it pushes so.
Pushed(e, push) ==
    LET rest == Below(e.pops)
    IN  CASE push = "nothing" -> rest
          [] push = "direct"  -> Append(rest, 0)
          [] push = "tagged"  -> Append(rest, gl_level)
          [] push = "operand" -> Append(rest, stack[Len(rest) + 1])

Compute ==
    \E op \in DOMAIN Effect : \E push \in Effect[op].pushes :
        LET e == Effect[op] IN
        /\ Executing(op)
        /\ Len(stack) >= Needs(op)
        /\ Len(Pushed(e, push)) <= StackSize
        /\ Operands(Pushed(e, push))
        /\ UNCHANGED param_count

\* stack_pop on an empty stack is an error; an entry used in place is not
\* checked for.
Underflow ==
    \E op \in DOMAIN Effect :
        /\ Executing(op)
        /\ \/ Len(stack) < Effect[op].pops /\ Stop("empty")
           \/ Effect[op].inPlace /\ Len(stack) = Effect[op].pops /\ Stop("ub")

\* stack_push on a full stack is an error; a direct store is not checked.
Overflow ==
    \E op \in DOMAIN Effect :
        /\ Executing(op)
        /\ Effect[op].pops = 0 /\ Len(stack) = StackSize
        /\ \/ "tagged" \in Effect[op].pushes /\ Stop("error")
           \/ "direct" \in Effect[op].pushes /\ Stop("ub")

\* A cocoon function is called on the n topmost operands, which are unset,
\* and its result is pushed.
XCall ==
    /\ Executing("XCALL")
    /\ Here.n <= Len(stack)
    /\ Len(stack) - Here.n < StackSize
    /\ Operands(Append(Below(Here.n), gl_level))
    /\ UNCHANGED param_count

\* It is not checked that n operands are there; stack_push checks for room.
XCallFails ==
    /\ Executing("XCALL")
    /\ \/ Here.n > Len(stack) /\ Stop("ub")
       \/ Here.n = 0 /\ Len(stack) = StackSize /\ Stop("error")

\* The arguments of a call are turned round and counted.
ReverseStack ==
    /\ Executing("REVERSE_STACK")
    /\ Here.n <= Len(stack)
    /\ Operands(Below(Here.n) \o Reverse(SubSeq(stack, Len(stack) - Here.n + 1, Len(stack))))
    /\ param_count' = Here.n

ReverseOutside ==
    /\ Executing("REVERSE_STACK")
    /\ Here.n > Len(stack)
    /\ Stop("ub")

ClearStack ==
    /\ Executing("CLEAR_STACK")
    /\ Operands(Cleared(stack, gl_level))
    /\ UNCHANGED param_count

CountDown == param_count' = IF param_count > 0 THEN param_count - 1 ELSE -1

\* A parameter without a default takes an argument off the stack, unchecked.
Param ==
    /\ Executing("PARAM")
    /\ param_count # 0
    /\ stack # <<>>
    /\ Operands(Below(1))
    /\ CountDown

ParamFails ==
    /\ Executing("PARAM")
    /\ \/ param_count = 0 /\ Stop("error")
       \/ param_count # 0 /\ stack = <<>> /\ Stop("ub")

\* A parameter with a default pops the default, which the code before it has
\* pushed, and, if there is one, the operand below it, argument or not.
ParamX ==
    /\ Executing("PARAMX")
    /\ IF stack = <<>> THEN Stop("empty")
       ELSE Operands(Below(IF Len(stack) = 1 THEN 1 ELSE 2)) /\ CountDown

IdleStep == Executing("IDLE") /\ Operands(stack) /\ UNCHANGED param_count

-----------------------------------------------------------------------------
(* Blocks: definition, call, return.                                        *)

(* Seeded fault: a definition is not overwritten in the byte-code.          *)
BlockDefUnpatched ==
    /\ Executing("BLOCK_DEF")
    /\ LET name == this_block \o Here.name
       IN  /\ parent_block' = name
           /\ blocks' = [b \in DOMAIN blocks \cup {name} |->
                            IF b = name THEN [pos |-> pos + 1, parent |-> this_block] ELSE blocks[b]]
    /\ skip_mode' = TRUE /\ def_mode' = TRUE
    /\ pos' = pos + 1
    /\ UNCHANGED <<prog, patched, this_block, stack, param_count, status, level, levelVars>>

\* block_add refuses a name it has: parent_block becomes NULL.
BlockDef ==
    /\ Executing("BLOCK_DEF")
    /\ LET name == this_block \o Here.name
           new == [pos |-> pos + 1, parent |-> this_block]
       IN  IF name \in DOMAIN blocks
           THEN parent_block' = <<>> /\ UNCHANGED blocks
           ELSE /\ parent_block' = name
                /\ blocks' = [b \in DOMAIN blocks \cup {name} |->
                                 IF b = name THEN new ELSE blocks[b]]
    /\ patched' = patched \cup {pos}
    /\ skip_mode' = TRUE /\ def_mode' = TRUE
    /\ pos' = pos + 1
    /\ UNCHANGED <<prog, this_block, stack, param_count, status, level, levelVars>>

\* A definition met again.
SkipStep ==
    /\ Executing("SKIP")
    /\ skip_mode' = TRUE
    /\ pos' = pos + 1
    /\ UNCHANGED <<prog, stack, param_count, status, level, def_mode, levelVars, blockVars>>

Open(flag, ret) ==
    /\ gl_level' = Inc(gl_level)
    /\ run_flag' = [run_flag EXCEPT ![Inc(gl_level)] = flag]
    /\ ret_point' = [ret_point EXCEPT ![Inc(gl_level)] = ret]
    /\ lastIf' = [lastIf EXCEPT ![Inc(gl_level)] = "none"]

\* larva_digest puts the number of arguments before a CALL.
Arguments == IF pos > 1 THEN prog[pos - 1].n ELSE 0

Call ==
    /\ Executing("CALL")
    /\ Here.name \in DOMAIN blocks
    /\ this_block' = Here.name
    /\ Open("RUN_BLOCK", pos + 1)
    /\ frameBase' = [frameBase EXCEPT ![Inc(gl_level)] =
           [own |-> Len(Cleared(Below(Arguments), Inc(gl_level))), all |-> Len(stack) - Arguments]]
    /\ pos' = blocks[Here.name].pos
    /\ UNCHANGED <<prog, stack, param_count, status, skipVars, patched, parent_block, blocks>>

UnknownBlock ==
    /\ Executing("CALL")
    /\ Here.name \notin DOMAIN blocks
    /\ Stop("error")

\* The value RETURN leaves on the stack: the top operand keeps its tag.
Returned ==
    IF stack = <<>> THEN <<0>>
    ELSE Append(Cleared(Below(1), gl_level), stack[Len(stack)])

\* RETURN from a level a call opened.
ReturnFromBlock ==
    /\ Executing("RETURN")
    /\ run_flag[gl_level] = "RUN_BLOCK"
    /\ stack' = Returned
    /\ pos' = ret_point[gl_level]
    /\ gl_level' = Dec(gl_level)
    /\ UNCHANGED <<prog, param_count, status, run_flag, ret_point, historyVars, skipVars, blockVars>>

\* RETURN from a statement's level leaves level after level until one that
\* nothing opened (level 0), whatever calls are on the way.
UnwindSteps ==
    {d \in Levels : run_flag[(gl_level + ByteMod - d) % ByteMod] = "none"}

ReturnFromStatement ==
    /\ Executing("RETURN")
    /\ run_flag[gl_level] # "RUN_BLOCK"
    /\ UnwindSteps # {}
    /\ LET d == Min(UnwindSteps)
           last == (gl_level + ByteMod - d + 1) % ByteMod
       IN  /\ gl_level' = (gl_level + ByteMod - d) % ByteMod
           /\ pos' = IF d = 0 THEN pos + 1 ELSE ret_point[last]
    /\ stack' = Returned
    /\ UNCHANGED <<prog, param_count, status, run_flag, ret_point, historyVars, skipVars, blockVars>>

\* Calls nested ByteMod deep have overwritten level 0: the loop never ends.
ReturnHangs ==
    /\ Executing("RETURN")
    /\ run_flag[gl_level] # "RUN_BLOCK"
    /\ UnwindSteps = {}
    /\ Stop("hang")

(* Seeded fault: blocks inside code that is passed over are not counted.    *)
BlockStartUncounted ==
    /\ Executing("BLOCK_START")
    /\ pos' = pos + 1
    /\ UNCHANGED <<prog, stack, param_count, status, skipVars, levelVars, blockVars>>

BlockStart ==
    /\ Executing("BLOCK_START")
    /\ level' = IF skip_mode THEN Inc(level) ELSE level
    /\ pos' = pos + 1
    /\ UNCHANGED <<prog, stack, param_count, status, skip_mode, def_mode, levelVars, blockVars>>

-----------------------------------------------------------------------------
(* The end of a block.                                                      *)

\* The first BLOCK_END after a definition leaves def_mode.
LeaveDefinition ==
    /\ def_mode' = FALSE
    /\ parent_block' = IF def_mode THEN blocks[parent_block].parent ELSE parent_block

BlockEndNullParent ==
    /\ Executing("BLOCK_END")
    /\ def_mode /\ parent_block = <<>>
    /\ Stop("crash")

Ending == Executing("BLOCK_END") /\ ~(def_mode /\ parent_block = <<>>) /\ LeaveDefinition

BlockEndSkipped ==
    /\ Ending
    /\ skip_mode
    /\ level' = Dec(level)
    /\ skip_mode' = (Dec(level) # 0)
    /\ pos' = pos + 1
    /\ UNCHANGED <<prog, stack, param_count, status, levelVars, patched, this_block, blocks>>

\* The level is left first, the garbage cleared after.
BlockEndOfStatement ==
    /\ Ending
    /\ ~skip_mode /\ run_flag[gl_level] # "RUN_BLOCK"
    /\ pos' = IF run_flag[gl_level] = "RUN_WHILE" THEN ret_point[gl_level] ELSE pos + 1
    /\ gl_level' = Dec(gl_level)
    /\ stack' = Cleared(stack, Dec(gl_level))
    /\ UNCHANGED <<prog, param_count, status, run_flag, ret_point, historyVars, skip_mode, level,
                   patched, this_block, blocks>>

(* Seeded faults: the end of a block forgets the result, or the garbage.    *)
BlockEndNoResult ==
    /\ Ending
    /\ ~skip_mode /\ run_flag[gl_level] = "RUN_BLOCK"
    /\ stack' = Cleared(stack, gl_level)
    /\ pos' = ret_point[gl_level]
    /\ gl_level' = Dec(gl_level)
    /\ UNCHANGED <<prog, status, param_count, run_flag, ret_point, historyVars, skip_mode, level,
                   patched, this_block, blocks>>

BlockEndUncleared ==
    /\ Ending
    /\ ~skip_mode /\ run_flag[gl_level] = "RUN_BLOCK"
    /\ Len(stack) < StackSize
    /\ stack' = Append(stack, gl_level)
    /\ pos' = ret_point[gl_level]
    /\ gl_level' = Dec(gl_level)
    /\ UNCHANGED <<prog, status, param_count, run_flag, ret_point, historyVars, skip_mode, level,
                   patched, this_block, blocks>>

\* A block that ends without RETURN returns 0.
BlockEndOfBlock ==
    /\ Ending
    /\ ~skip_mode /\ run_flag[gl_level] = "RUN_BLOCK"
    /\ IF Len(Cleared(stack, gl_level)) = StackSize
       THEN status' = "error" /\ UNCHANGED <<stack, pos, gl_level>>
       ELSE /\ stack' = Append(Cleared(stack, gl_level), gl_level)
            /\ pos' = ret_point[gl_level]
            /\ gl_level' = Dec(gl_level)
            /\ UNCHANGED status
    /\ UNCHANGED <<prog, param_count, run_flag, ret_point, historyVars, skip_mode, level,
                   patched, this_block, blocks>>

-----------------------------------------------------------------------------
(* Statements.                                                              *)

(* Seeded fault: a loop goes back behind its WHILE.                         *)
WhilePast ==
    /\ Executing("WHILE")
    /\ Open("RUN_WHILE", pos + 1)
    /\ pos' = pos + 1
    /\ UNCHANGED <<prog, stack, param_count, status, frameBase, skipVars, blockVars>>

While ==
    /\ Executing("WHILE")
    /\ Open("RUN_WHILE", pos)
    /\ pos' = pos + 1
    /\ UNCHANGED <<prog, stack, param_count, status, frameBase, skipVars, blockVars>>

If ==
    /\ Executing("IF")
    /\ Open("RUN_IF", ret_point[Inc(gl_level)])
    /\ pos' = pos + 1
    /\ UNCHANGED <<prog, stack, param_count, status, frameBase, skipVars, blockVars>>

\* Whether the if before was taken is read off the flag of the level above,
\* which whatever ran at that level last has left.
Else ==
    /\ Executing("ELSE")
    /\ pos' = pos + 1
    /\ IF run_flag[Inc(gl_level)] = "RUN_IF"
       THEN skip_mode' = TRUE /\ UNCHANGED <<gl_level, lastIf>>
       ELSE /\ gl_level' = Inc(gl_level)
            /\ lastIf' = [lastIf EXCEPT ![Inc(gl_level)] = "none"]
            /\ UNCHANGED skip_mode
    /\ UNCHANGED <<prog, stack, param_count, status, run_flag, ret_point, frameBase, level, def_mode,
                   blockVars>>

\* History: an if, as opposed to a while, has turned out so.
Decide(outcome) ==
    lastIf' = IF run_flag[gl_level] = "RUN_IF"
              THEN [lastIf EXCEPT ![Dec(gl_level)] = outcome] ELSE lastIf

\* "Compare and Execute If True".
CeitTrue ==
    /\ Executing("CEIT")
    /\ stack # <<>>
    /\ stack' = Below(1)
    /\ pos' = pos + 1
    /\ Decide("taken")
    /\ UNCHANGED <<prog, param_count, status, gl_level, run_flag, ret_point, frameBase, skipVars,
                   blockVars>>

CeitFalse ==
    /\ Executing("CEIT")
    /\ stack # <<>>
    /\ stack' = Below(1)
    /\ skip_mode' = TRUE
    /\ pos' = pos + 1
    /\ gl_level' = IF run_flag[gl_level] \in {"RUN_IF", "RUN_WHILE"} THEN Dec(gl_level) ELSE gl_level
    /\ run_flag' = IF run_flag[gl_level] = "RUN_IF"
                   THEN [run_flag EXCEPT ![gl_level] = "RUN_ELSE"] ELSE run_flag
    /\ Decide("refused")
    /\ UNCHANGED <<prog, param_count, status, ret_point, frameBase, level, def_mode, blockVars>>

CeitUnderflow == Executing("CEIT") /\ stack = <<>> /\ Stop("empty")

Halted == status # "run" /\ UNCHANGED vars

Step ==
    \/ PassOver \/ Finish \/ RuntimeError
    \/ Compute \/ Underflow \/ Overflow \/ XCall \/ XCallFails
    \/ ReverseStack \/ ReverseOutside \/ ClearStack
    \/ Param \/ ParamFails \/ ParamX \/ IdleStep
    \/ BlockDef \/ SkipStep \/ Call \/ UnknownBlock
    \/ ReturnFromBlock \/ ReturnFromStatement \/ ReturnHangs
    \/ BlockStart \/ BlockEndNullParent \/ BlockEndSkipped
    \/ BlockEndOfStatement \/ BlockEndOfBlock
    \/ While \/ If \/ Else \/ CeitTrue \/ CeitFalse \/ CeitUnderflow

Next == Step \/ Halted

Spec == Init /\ [][Next]_vars

\* The interpreter is one thread that never waits.
FairSpec == Spec /\ WF_vars(Step)

-----------------------------------------------------------------------------
(* What the abstract program counter is while silk passes over code: the    *)
(* position where it will resume.                                           *)
Opened(a, b) == Cardinality({k \in a .. b : prog[k].op = "BLOCK_START"})
Closed(a, b) == Cardinality({k \in a .. b : prog[k].op = "BLOCK_END"})

Resume(q, open) ==
    LET ends == {e \in q .. Len(prog) :
                   prog[e].op = "BLOCK_END" /\ open + Opened(q, e) = Closed(q, e)}
    IN  IF ends = {} THEN Len(prog) + 1 ELSE Min(ends) + 1

ElseOfTaken ==
    /\ pos <= Len(prog) /\ Here.op = "ELSE"
    /\ run_flag[Inc(gl_level)] = "RUN_IF"

Leaf == INSTANCE LeafSemantics WITH
    pc <- IF skip_mode THEN Resume(pos, level)
          ELSE IF ElseOfTaken THEN Resume(pos + 1, 0)
          ELSE pos,
    ctx <- [l \in 1 .. gl_level |->
              [kind |-> run_flag[l],
               ret |-> IF run_flag[l] \in {"RUN_WHILE", "RUN_BLOCK"} THEN ret_point[l] ELSE 0]],
    ifs <- [l \in 1 .. gl_level + 1 |-> lastIf[l - 1]],
    known <- patched,
    state <- IF status = "run" THEN "run" ELSE "stopped"

(* Levels, flags, return points, skipping and self-patching together give   *)
(* the structured control flow of the language: every step of larva_silk is *)
(* a step of LeafSemantics or none (larva_silk.c:274-298, 367-561).         *)
ImplementsLeaf == Leaf!Spec

(* A block that was defined is entered right behind its patched definition, *)
(* bears that definition's name last, and is the only block entered there:  *)
(* re-running the code around a definition defines nothing twice.           *)
BlockTable ==
    /\ \A b \in DOMAIN blocks :
         LET d == blocks[b].pos - 1 IN
         /\ d \in patched
         /\ prog[d].op = "BLOCK_DEF"
         /\ b = blocks[b].parent \o prog[d].name
    /\ \A b, c \in DOMAIN blocks : blocks[b].pos = blocks[c].pos => b = c

(* Whichever way a block is left, the caller has its own operands, one      *)
(* result on top and no garbage of the block: the level tags are "used to   *)
(* clear garbage from this level" (var.h:26, stack.c:27,                    *)
(* larva_silk.c:436-445, 478-513).                                          *)
CallLeavesOneResult ==
    [][ gl_level' < gl_level /\ run_flag[gl_level' + 1] = "RUN_BLOCK" /\ status' = "run"
          => LET base == frameBase[gl_level' + 1]
             IN  base.own < Len(stack') /\ Len(stack') <= base.all + 1 ]_vars

(* Code that is passed over has no effect: it neither touches the operands  *)
(* nor fails (larva_silk.c:375, "all these will be skipped if you're in a   *)
(* block just being defined").                                              *)
SkippedCodeIsInert ==
    [][ skip_mode => UNCHANGED <<stack, param_count>> /\ status' \in {"run", "done"} ]_vars

(* An operand that the compiled code counts on is on the stack, and         *)
(* larva_silk never works outside its arrays, dereferences a NULL           *)
(* parent_block or loops inside RETURN.                                     *)
NoUndefined == status \notin {"empty", "ub", "crash", "hang"}

(* Passing over code always ends, before the byte-code does: a definition   *)
(* or a false condition does not swallow the rest of the program.           *)
SkipEnds == skip_mode ~> ~skip_mode
=============================================================================

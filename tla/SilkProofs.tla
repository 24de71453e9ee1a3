------------------------------ MODULE SilkProofs ------------------------------
(***************************************************************************)
(* Silk for every byte-code, every stack size and every width of a level   *)
(* counter: the types of the state and the soundness of the block table.   *)
(***************************************************************************)
EXTENDS Silk, WellFoundedInduction, TLAPS

\* A well-founded relation that contains < gives every set of naturals a
\* least member.
LEMMA LeastOf ==
    ASSUME NEW R, IsWellFoundedOn(R, Nat),
           \A x, y \in Nat : y < x => <<y, x>> \in R,
           NEW T \in SUBSET Nat, T # {}
    PROVE  \E x \in T : \A y \in T : x <= y
<1>1. PICK x \in T : \A y \in T : ~ (<<y, x>> \in R)
    BY WFMin, Zenon
<1>2. ASSUME NEW y \in T PROVE x <= y
    <2>1. x \in Nat /\ y \in Nat
        OBVIOUS
    <2>2. ~ (y < x)
        BY <1>1, <2>1, Zenon
    <2> QED
        BY <2>1, <2>2
<1> QED
    BY <1>2

\* Min is the least member of a nonempty set of naturals.
LEMMA LeastExists ==
    ASSUME NEW T \in SUBSET Nat, T # {}
    PROVE  Min(T) \in T /\ \A y \in T : Min(T) <= y
<1>1. \A x, y \in Nat : y < x => <<y, x>> \in OpToRel(<, Nat)
    BY DEF OpToRel
<1>2. \E x \in T : \A y \in T : x <= y
    BY <1>1, NatLessThanWellFounded, LeastOf, Zenon
<1> QED
    BY <1>2 DEF Min

\* Max is the greatest member of a nonempty set of naturals with a bound.
LEMMA GreatestExists ==
    ASSUME NEW n \in Nat, NEW T \in SUBSET (0 .. n), T # {}
    PROVE  Max(T) \in T /\ \A y \in T : Max(T) >= y
<1> DEFINE U == {n - k : k \in T}
<1>1. U \in SUBSET Nat /\ U # {}
    OBVIOUS
<1>2. Min(U) \in U /\ \A y \in U : Min(U) <= y
    <2> HIDE DEF U
    <2> QED BY <1>1, LeastExists
<1>3. PICK x \in T : Min(U) = n - x
    BY <1>2
<1>4. \A y \in T : n - x <= n - y
    BY <1>2, <1>3
<1>5. \A y \in T : x >= y
    BY <1>4
<1> QED
    BY <1>5 DEF Max

\* stack_pop leaves operands, as many fewer as were taken.
LEMMA BelowType ==
    ASSUME stack \in Seq(Levels), NEW n \in Nat, n <= Len(stack)
    PROVE  Below(n) \in Seq(Levels) /\ Len(Below(n)) = Len(stack) - n
  BY DEF Below

\* BCO_REVERSE_STACK keeps operands and their number.
LEMMA ReverseType ==
    ASSUME NEW s \in Seq(Levels)
    PROVE  Reverse(s) \in Seq(Levels) /\ Len(Reverse(s)) = Len(s)
<1>1. \A i \in 1 .. Len(s) : s[(Len(s) - i) + 1] \in Levels
    OBVIOUS
<1> QED
    BY <1>1 DEF Reverse

\* stack_clear leaves operands, and adds none.
LEMMA ClearedType ==
    ASSUME NEW s \in Seq(Levels), NEW l \in Levels
    PROVE  Cleared(s, l) \in Seq(Levels) /\ Len(Cleared(s, l)) <= Len(s)
<1> DEFINE T == {0} \cup {k \in 1 .. Len(s) : s[k] < l}
<1>1. Len(s) \in Nat /\ T \in SUBSET (0 .. Len(s)) /\ T # {}
    OBVIOUS
<1>2. Cleared(s, l) = SubSeq(s, 1, Max(T))
    BY DEF Cleared
<1> HIDE DEF T
<1>3. Max(T) \in T
    BY <1>1, GreatestExists
<1>4. Max(T) \in 0 .. Len(s)
    BY <1>1, <1>3
<1>5. PICK m \in 0 .. Len(s) : m = Max(T)
    BY <1>4
<1>6. SubSeq(s, 1, m) \in Seq(Levels) /\ Len(SubSeq(s, 1, m)) = m
    OBVIOUS
<1> QED
    BY <1>2, <1>5, <1>6

\* The instruction about to be executed is one of the program.
LEMMA ExecutingType ==
    ASSUME TypeOK, NEW op, Executing(op)
    PROVE  /\ status = "run" /\ pos \in 1 .. Len(prog)
           /\ Here \in Instr /\ Here.op = op
<1>1. prog \in Seq(Instr) /\ pos \in 1 .. Len(prog)
    BY ProgramsAssumption DEF TypeOK, Executing
<1>2. prog[pos] \in Instr
    BY <1>1
<1>3. Skip \in Instr
    BY DEF Skip, Instr, Ops
<1> QED
    BY <1>1, <1>2, <1>3 DEF Executing, Here

\* BCO_RETURN leaves operands that fit the stack.
LEMMA ReturnedType ==
    ASSUME TypeOK
    PROVE  Returned \in Seq(Levels) /\ Len(Returned) <= StackSize
<1> USE StackSizeAssumption, ByteModAssumption
<1>1. CASE stack = <<>>
    BY <1>1 DEF Returned, Levels
<1>2. CASE stack # <<>>
    <2>1. stack \in Seq(Levels) /\ Len(stack) \in 1 .. StackSize /\ gl_level \in Levels
        BY <1>2 DEF TypeOK
    <2>2. Below(1) \in Seq(Levels) /\ Len(Below(1)) = Len(stack) - 1
        BY <2>1, BelowType
    <2>3. Cleared(Below(1), gl_level) \in Seq(Levels)
          /\ Len(Cleared(Below(1), gl_level)) <= Len(stack) - 1
        BY <2>1, <2>2, ClearedType
    <2>4. stack[Len(stack)] \in Levels
        BY <2>1
    <2> QED
        BY <1>2, <2>1, <2>3, <2>4 DEF Returned
<1> QED
    BY <1>1, <1>2

\* What an instruction pushes is an operand.
LEMMA PushedType ==
    ASSUME TypeOK, NEW op \in DOMAIN Effect, NEW push \in Effect[op].pushes,
           Len(stack) >= Needs(op)
    PROVE  Pushed(Effect[op], push) \in Seq(Levels)
<1> USE ByteModAssumption
<1>1. stack \in Seq(Levels) /\ gl_level \in Levels /\ 0 \in Levels
    BY DEF TypeOK, Levels
<1>2. /\ Effect[op].pops \in 0 .. 2
      /\ push \in {"nothing", "direct", "tagged", "operand"}
      /\ push = "operand" => Effect[op].pops = 2
      /\ Len(stack) >= Effect[op].pops
    BY DEF Effect, Needs
<1>3. /\ Below(Effect[op].pops) \in Seq(Levels)
      /\ Len(Below(Effect[op].pops)) = Len(stack) - Effect[op].pops
    <2>1. Effect[op].pops \in Nat /\ Effect[op].pops <= Len(stack)
        BY <1>1, <1>2
    <2> QED
        BY <1>1, <2>1, BelowType, Zenon
<1>4. push = "operand" => stack[Len(Below(Effect[op].pops)) + 1] \in Levels
    BY <1>1, <1>2, <1>3
<1> QED
    BY <1>1, <1>2, <1>3, <1>4 DEF Pushed

-----------------------------------------------------------------------------
\* While a definition is passed over, its block is in the table.
DefinitionKnown == def_mode /\ parent_block # <<>> => parent_block \in DOMAIN blocks

TInv == TypeOK /\ DefinitionKnown

\* The actions that change operands, counters and status only.
LEMMA OperandsStep ==
    ASSUME TInv, NEW s \in Seq(Levels), Len(s) <= StackSize, Operands(s),
           param_count' \in Nat \cup {-1}
    PROVE  TInv'
  BY DEF TInv, TypeOK, DefinitionKnown, Operands, levelVars, historyVars, skipVars, blockVars

\* larva_error and runtime_error change nothing but the status.
LEMMA StopStep ==
    ASSUME TInv, NEW how \in {"error", "empty", "ub", "crash", "hang"}, Stop(how)
    PROVE  TInv'
  BY DEF TInv, TypeOK, DefinitionKnown, Stop, levelVars, historyVars, skipVars, blockVars

\* The actions that open a level of a statement.
LEMMA OpenStep ==
    ASSUME TInv, gl_level' \in Levels, pos' \in Nat \ {0},
           run_flag' \in [Levels -> Flags], ret_point' \in [Levels -> Nat \ {0}],
           lastIf' \in [Levels -> Outcomes],
           UNCHANGED <<prog, stack, param_count, status, frameBase>>,
           UNCHANGED <<skip_mode, level, def_mode, patched, this_block, parent_block, blocks>>
    PROVE  TInv'
<1>1. TypeOK'
    BY DEF TInv, TypeOK
<1>2. DefinitionKnown'
    BY DEF TInv, DefinitionKnown
<1> QED
    BY <1>1, <1>2 DEF TInv

\* A BYTE stays a BYTE when it is counted up or down.
LEMMA WrapType ==
    ASSUME NEW b \in Levels
    PROVE  Inc(b) \in Levels /\ Dec(b) \in Levels
  BY ByteModAssumption DEF Levels, Inc, Dec

\* Every step of larva_silk keeps the types.
LEMMA TypeStep == TInv /\ [Next]_vars => TInv'
<1> SUFFICES ASSUME TInv, [Next]_vars
             PROVE  TInv'
    OBVIOUS
<1> USE StackSizeAssumption, ByteModAssumption
<1>t. /\ TypeOK /\ DefinitionKnown
      /\ stack \in Seq(Levels) /\ Len(stack) \in Nat /\ Len(stack) <= StackSize
      /\ gl_level \in Levels /\ level \in Levels
      /\ param_count \in Nat \cup {-1}
    BY DEF TInv, TypeOK
<1>c. /\ Cleared(stack, gl_level) \in Seq(Levels)
      /\ Len(Cleared(stack, gl_level)) <= Len(stack)
      /\ Len(Cleared(stack, gl_level)) \in Nat
    BY <1>t, ClearedType
<1>w. Inc(gl_level) \in Levels /\ Dec(gl_level) \in Levels /\ Inc(level) \in Levels
      /\ Dec(level) \in Levels
    BY <1>t, WrapType
<1>e. ASSUME Ending PROVE def_mode' = FALSE /\ parent_block' \in Seq(STRING)
    BY <1>t, <1>e DEF Ending, LeaveDefinition, TypeOK, DefinitionKnown
<1>d. ASSUME NEW o \in Outcomes, Decide(o) PROVE lastIf' \in [Levels -> Outcomes]
    BY <1>t, <1>w, <1>d DEF Decide, TypeOK
<1>1. CASE PassOver
    <2>1. Operands(stack) /\ UNCHANGED param_count
        BY <1>1 DEF PassOver, Operands
    <2> QED
        BY <1>t, <2>1, OperandsStep
<1>2. CASE Finish
    BY <1>2, <1>c, <1>t DEF Finish, TInv, TypeOK, DefinitionKnown, levelVars, historyVars, skipVars, blockVars
<1>3. CASE RuntimeError
    BY <1>3, StopStep DEF RuntimeError
<1>4. CASE Compute
    <2>1. PICK op \in DOMAIN Effect : \E push \in Effect[op].pushes :
              /\ Len(stack) >= Needs(op)
              /\ Len(Pushed(Effect[op], push)) <= StackSize
              /\ Operands(Pushed(Effect[op], push))
              /\ UNCHANGED param_count
        BY <1>4 DEF Compute
    <2>2. PICK push \in Effect[op].pushes :
              /\ Len(stack) >= Needs(op)
              /\ Len(Pushed(Effect[op], push)) <= StackSize
              /\ Operands(Pushed(Effect[op], push))
              /\ UNCHANGED param_count
        BY <2>1
    <2>3. Pushed(Effect[op], push) \in Seq(Levels)
        BY <1>t, <2>2, PushedType
    <2> QED
        BY <1>t, <2>2, <2>3, OperandsStep
<1>5. CASE Underflow
    BY <1>5, StopStep DEF Underflow
<1>6. CASE Overflow
    BY <1>6, StopStep DEF Overflow
<1>7. CASE XCall
    <2>1. Here \in Instr
        BY <1>7, <1>t, ExecutingType DEF XCall
    <2>2. Here.n \in Nat /\ Here.n <= Len(stack) /\ Len(stack) - Here.n < StackSize
        BY <1>7, <2>1 DEF XCall, Instr
    <2>3. Below(Here.n) \in Seq(Levels) /\ Len(Below(Here.n)) = Len(stack) - Here.n
        BY <1>t, <2>2, BelowType
    <2>4. Append(Below(Here.n), gl_level) \in Seq(Levels)
          /\ Len(Append(Below(Here.n), gl_level)) <= StackSize
        BY <1>t, <2>2, <2>3
    <2> QED
        BY <1>7, <1>t, <2>4, OperandsStep DEF XCall
<1>8. CASE XCallFails
    BY <1>8, StopStep DEF XCallFails
<1>9. CASE ReverseStack
    <2>1. Here \in Instr
        BY <1>9, <1>t, ExecutingType DEF ReverseStack
    <2>2. Here.n \in Nat /\ Here.n <= Len(stack)
        BY <1>9, <2>1 DEF ReverseStack, Instr
    <2> DEFINE args == SubSeq(stack, Len(stack) - Here.n + 1, Len(stack))
    <2>3. Below(Here.n) \in Seq(Levels) /\ Len(Below(Here.n)) = Len(stack) - Here.n
        BY <1>t, <2>2, BelowType
    <2>4. args \in Seq(Levels) /\ Len(args) = Here.n
        BY <1>t, <2>2
    <2>5. Reverse(args) \in Seq(Levels) /\ Len(Reverse(args)) = Here.n
        <3> HIDE DEF args
        <3> QED BY <2>4, ReverseType
    <2>6. Below(Here.n) \o Reverse(args) \in Seq(Levels)
          /\ Len(Below(Here.n) \o Reverse(args)) = Len(stack)
        BY <1>t, <2>2, <2>3, <2>5
    <2>7. Operands(Below(Here.n) \o Reverse(args)) /\ param_count' = Here.n
        BY <1>9 DEF ReverseStack
    <2> HIDE DEF args
    <2> QED
        BY <1>t, <2>2, <2>6, <2>7, OperandsStep
<1>10. CASE ReverseOutside
    BY <1>10, StopStep DEF ReverseOutside
<1>11. CASE ClearStack
    BY <1>11, <1>c, <1>t, OperandsStep DEF ClearStack
<1>12. CASE Param
    BY <1>12, <1>t, BelowType, OperandsStep DEF Param, CountDown
<1>13. CASE ParamFails
    BY <1>13, StopStep DEF ParamFails
<1>14. CASE ParamX
    <2>1. CASE stack = <<>>
        BY <1>14, <2>1, StopStep DEF ParamX
    <2>2. CASE stack # <<>>
        <3> DEFINE n == IF Len(stack) = 1 THEN 1 ELSE 2
        <3>0. Len(stack) >= 1
            BY <1>t, <2>2
        <3>1. n \in Nat /\ n <= Len(stack)
            BY <1>t, <3>0
        <3>2. Operands(Below(n)) /\ CountDown
            BY <1>14, <2>2 DEF ParamX
        <3> HIDE DEF n
        <3>3. Below(n) \in Seq(Levels) /\ Len(Below(n)) <= StackSize
            BY <1>t, <3>1, BelowType
        <3>4. param_count' \in Nat \cup {-1}
            BY <1>t, <3>2 DEF CountDown
        <3> QED
            BY <3>2, <3>3, <3>4, OperandsStep
    <2> QED
        BY <2>1, <2>2
<1>15. CASE IdleStep
    BY <1>15, <1>t, OperandsStep DEF IdleStep
<1>16. CASE BlockDef
    <2>1. Here \in Instr /\ pos \in 1 .. Len(prog)
        BY <1>16, <1>t, ExecutingType DEF BlockDef
    <2> DEFINE name == this_block \o Here.name
               new == [pos |-> pos + 1, parent |-> this_block]
    <2>2. name \in Seq(STRING) /\ new \in [pos : Nat \ {0}, parent : Seq(STRING)]
        BY <1>t, <2>1 DEF Instr, TypeOK
    <2>3. /\ patched' = patched \cup {pos}
          /\ def_mode' = TRUE /\ skip_mode' = TRUE /\ pos' = pos + 1
          /\ UNCHANGED <<prog, this_block, stack, param_count, status, level>>
          /\ UNCHANGED <<gl_level, run_flag, ret_point, frameBase, lastIf>>
        BY <1>16 DEF BlockDef, levelVars, historyVars
    <2>4. CASE name \in DOMAIN blocks
        <3>1. parent_block' = <<>> /\ blocks' = blocks
            BY <1>16, <2>4 DEF BlockDef
        <3> QED
            BY <1>t, <2>1, <2>3, <3>1 DEF TInv, TypeOK, DefinitionKnown
    <2>5. CASE name \notin DOMAIN blocks
        <3>1. /\ parent_block' = name
              /\ blocks' = [b \in DOMAIN blocks \cup {name} |-> IF b = name THEN new ELSE blocks[b]]
            BY <1>16, <2>5 DEF BlockDef
        <3> HIDE DEF name, new
        <3>2. /\ DOMAIN blocks' \subseteq Seq(STRING)
              /\ \A b \in DOMAIN blocks' : blocks'[b] \in [pos : Nat \ {0}, parent : Seq(STRING)]
              /\ parent_block' \in DOMAIN blocks'
            BY <1>t, <2>2, <3>1 DEF TypeOK
        <3>3. parent_block' \in Seq(STRING)
            BY <2>2, <3>1
        <3> QED
            BY <1>t, <2>1, <2>3, <3>2, <3>3 DEF TInv, TypeOK, DefinitionKnown
    <2> QED
        BY <2>4, <2>5
<1>17. CASE SkipStep
    BY <1>17 DEF SkipStep, TInv, TypeOK, DefinitionKnown, levelVars, historyVars, blockVars
<1>18. CASE Call
    <2>1. pos \in 1 .. Len(prog) /\ Here \in Instr
        BY <1>18, <1>t, ExecutingType DEF Call
    <2>2. Arguments \in Nat
        <3>1. prog \in Seq(Instr)
            BY <1>t, ProgramsAssumption DEF TypeOK
        <3>2. pos > 1 => prog[pos - 1] \in Instr
            BY <2>1, <3>1
        <3> QED
            BY <2>1, <3>2 DEF Arguments, Instr
    <2>3. Below(Arguments) \in Seq(Levels)
        BY <1>t, <2>2 DEF Below
    <2>4. Cleared(Below(Arguments), Inc(gl_level)) \in Seq(Levels)
        BY <1>w, <2>3, ClearedType
    <2>5. Len(Cleared(Below(Arguments), Inc(gl_level))) \in Nat /\ Len(stack) - Arguments \in Int
        BY <1>t, <2>2, <2>4
    <2>6. frameBase' \in [Levels -> [own : Nat, all : Int]]
        BY <1>18, <1>t, <1>w, <2>5 DEF Call, TypeOK
    <2>7. run_flag' \in [Levels -> Flags]
        BY <1>18, <1>t, <1>w DEF Call, Open, TypeOK, Flags
    <2>8. ret_point' \in [Levels -> Nat \ {0}]
        <3>1. ret_point' = [ret_point EXCEPT ![Inc(gl_level)] = pos + 1]
            BY <1>18 DEF Call, Open
        <3>2. pos + 1 \in Nat \ {0} /\ ret_point \in [Levels -> Nat \ {0}]
            BY <1>t DEF TypeOK
        <3> QED
            BY <1>w, <3>1, <3>2
    <2>9. this_block' \in Seq(STRING) /\ pos' \in Nat \ {0}
        BY <1>18, <1>t DEF Call, TypeOK
    <2>10. /\ gl_level' \in Levels
           /\ UNCHANGED <<prog, stack, param_count, status, patched, parent_block, blocks>>
           /\ UNCHANGED <<skip_mode, level, def_mode>>
        BY <1>18, <1>w DEF Call, Open, skipVars
    <2>11. lastIf' \in [Levels -> Outcomes]
        BY <1>18, <1>t, <1>w DEF Call, Open, TypeOK, Outcomes
    <2> QED
        BY <1>t, <2>6, <2>7, <2>8, <2>9, <2>10, <2>11 DEF TInv, TypeOK, DefinitionKnown
<1>19. CASE UnknownBlock
    BY <1>19, StopStep DEF UnknownBlock
<1>20. CASE ReturnFromBlock
    <2>1. pos' \in Nat \ {0}
        BY <1>20, <1>t DEF ReturnFromBlock, TypeOK
    <2>2. stack' \in Seq(Levels) /\ Len(stack') <= StackSize
        BY <1>20, <1>t, ReturnedType DEF ReturnFromBlock
    <2>3. /\ gl_level' \in Levels
          /\ UNCHANGED <<prog, param_count, status, run_flag, ret_point, frameBase, lastIf>>
          /\ UNCHANGED <<skip_mode, level, def_mode, patched, this_block, parent_block, blocks>>
        BY <1>20, <1>w DEF ReturnFromBlock, historyVars, skipVars, blockVars
    <2> QED
        BY <1>t, <2>1, <2>2, <2>3 DEF TInv, TypeOK, DefinitionKnown
<1>21. CASE ReturnFromStatement
    <2> DEFINE d == Min(UnwindSteps)
    <2>1. UnwindSteps \in SUBSET Nat /\ UnwindSteps # {} /\ UnwindSteps \subseteq Levels
        BY <1>21 DEF ReturnFromStatement, UnwindSteps, Levels
    <2>2. d \in Levels
        BY <2>1, LeastExists
    <2>3. /\ (gl_level + ByteMod - d) % ByteMod \in Levels
          /\ (gl_level + ByteMod - d + 1) % ByteMod \in Levels
        <3> HIDE DEF d
        <3> QED BY <1>t, <2>2 DEF Levels
    <2>4. /\ gl_level' = (gl_level + ByteMod - d) % ByteMod
          /\ pos' = IF d = 0 THEN pos + 1 ELSE ret_point[(gl_level + ByteMod - d + 1) % ByteMod]
        BY <1>21 DEF ReturnFromStatement
    <2> HIDE DEF d
    <2>5. gl_level' \in Levels /\ pos' \in Nat \ {0}
        BY <1>t, <2>3, <2>4 DEF TypeOK
    <2>6. stack' \in Seq(Levels) /\ Len(stack') <= StackSize
        BY <1>21, <1>t, ReturnedType DEF ReturnFromStatement
    <2>7. /\ UNCHANGED <<prog, param_count, status, run_flag, ret_point, frameBase, lastIf>>
          /\ UNCHANGED <<skip_mode, level, def_mode, patched, this_block, parent_block, blocks>>
        BY <1>21 DEF ReturnFromStatement, historyVars, skipVars, blockVars
    <2> QED
        BY <1>t, <2>5, <2>6, <2>7 DEF TInv, TypeOK, DefinitionKnown
<1>22. CASE ReturnHangs
    BY <1>22, StopStep DEF ReturnHangs
<1>23. CASE BlockStart
    <2>1. /\ level' \in Levels /\ pos' = pos + 1
          /\ UNCHANGED <<prog, stack, param_count, status, skip_mode, def_mode>>
          /\ UNCHANGED <<gl_level, run_flag, ret_point, frameBase, lastIf>>
          /\ UNCHANGED <<patched, this_block, parent_block, blocks>>
        BY <1>23, <1>t, <1>w DEF BlockStart, levelVars, historyVars, blockVars
    <2> QED
        BY <1>t, <2>1 DEF TInv, TypeOK, DefinitionKnown
<1>24. CASE BlockEndNullParent
    BY <1>24, StopStep DEF BlockEndNullParent
<1>25. CASE BlockEndSkipped
    <2>1. Ending
        BY <1>25 DEF BlockEndSkipped
    <2>2. /\ level' \in Levels /\ skip_mode' \in BOOLEAN /\ pos' = pos + 1
          /\ UNCHANGED <<prog, stack, param_count, status, patched, this_block, blocks>>
          /\ UNCHANGED <<gl_level, run_flag, ret_point, frameBase, lastIf>>
        BY <1>25, <1>w DEF BlockEndSkipped, levelVars, historyVars
    <2> QED
        BY <1>t, <1>e, <2>1, <2>2 DEF TInv, TypeOK, DefinitionKnown
<1>26. CASE BlockEndOfStatement
    <2>1. Ending
        BY <1>26 DEF BlockEndOfStatement
    <2>2. stack' \in Seq(Levels) /\ Len(stack') <= StackSize
        <3>1. /\ Cleared(stack, Dec(gl_level)) \in Seq(Levels)
              /\ Len(Cleared(stack, Dec(gl_level))) <= Len(stack)
            BY <1>t, <1>w, ClearedType
        <3> QED
            BY <1>26, <1>t, <3>1 DEF BlockEndOfStatement
    <2>3. gl_level' \in Levels /\ pos' \in Nat \ {0}
        BY <1>26, <1>t, <1>w DEF BlockEndOfStatement, TypeOK
    <2>4. UNCHANGED <<prog, param_count, status, run_flag, ret_point, frameBase, lastIf, skip_mode, level,
                      patched, this_block, blocks>>
        BY <1>26 DEF BlockEndOfStatement, historyVars
    <2> QED
        BY <1>t, <1>e, <2>1, <2>2, <2>3, <2>4 DEF TInv, TypeOK, DefinitionKnown
<1>27. CASE BlockEndOfBlock
    <2>1. Ending
        BY <1>27 DEF BlockEndOfBlock
    <2>2. UNCHANGED <<prog, param_count, run_flag, ret_point, frameBase, lastIf, skip_mode, level,
                      patched, this_block, blocks>>
        BY <1>27 DEF BlockEndOfBlock, historyVars
    <2>3. CASE Len(Cleared(stack, gl_level)) = StackSize
        <3>1. status' = "error" /\ UNCHANGED <<stack, pos, gl_level>>
            BY <1>27, <2>3 DEF BlockEndOfBlock
        <3> QED
            BY <1>t, <1>e, <2>1, <2>2, <3>1 DEF TInv, TypeOK, DefinitionKnown
    <2>4. CASE Len(Cleared(stack, gl_level)) # StackSize
        <3>1. /\ stack' = Append(Cleared(stack, gl_level), gl_level)
              /\ pos' = ret_point[gl_level]
              /\ gl_level' = Dec(gl_level)
              /\ status' = status
            BY <1>27, <2>4 DEF BlockEndOfBlock
        <3>2. stack' \in Seq(Levels) /\ Len(stack') <= StackSize
            BY <1>t, <1>c, <2>4, <3>1
        <3>3. gl_level' \in Levels /\ pos' \in Nat \ {0}
            BY <1>t, <1>w, <3>1 DEF TypeOK
        <3> QED
            BY <1>t, <1>e, <2>1, <2>2, <3>1, <3>2, <3>3 DEF TInv, TypeOK, DefinitionKnown
    <2> QED
        BY <2>3, <2>4
<1>28. CASE While
    <2>1. run_flag' \in [Levels -> Flags]
        BY <1>28, <1>t, <1>w DEF While, Open, TypeOK, Flags
    <2>2. ret_point' \in [Levels -> Nat \ {0}]
        BY <1>28, <1>t, <1>w DEF While, Open, TypeOK
    <2>3. /\ gl_level' \in Levels
          /\ UNCHANGED <<prog, stack, param_count, status, frameBase>>
          /\ UNCHANGED <<skip_mode, level, def_mode, patched, this_block, parent_block, blocks>>
        BY <1>28, <1>w DEF While, Open, skipVars, blockVars
    <2>4. lastIf' \in [Levels -> Outcomes]
        BY <1>28, <1>t, <1>w DEF While, Open, TypeOK, Outcomes
    <2>5. pos' \in Nat \ {0}
        BY <1>28, <1>t DEF While, TypeOK
    <2> QED
        BY <2>1, <2>2, <2>3, <2>4, <2>5, OpenStep
<1>29. CASE If
    <2>1. run_flag' \in [Levels -> Flags]
        BY <1>29, <1>t, <1>w DEF If, Open, TypeOK, Flags
    <2>2. ret_point' \in [Levels -> Nat \ {0}]
        BY <1>29, <1>t, <1>w DEF If, Open, TypeOK
    <2>3. /\ gl_level' \in Levels
          /\ UNCHANGED <<prog, stack, param_count, status, frameBase>>
          /\ UNCHANGED <<skip_mode, level, def_mode, patched, this_block, parent_block, blocks>>
        BY <1>29, <1>w DEF If, Open, skipVars, blockVars
    <2>4. lastIf' \in [Levels -> Outcomes]
        BY <1>29, <1>t, <1>w DEF If, Open, TypeOK, Outcomes
    <2>5. pos' \in Nat \ {0}
        BY <1>29, <1>t DEF If, TypeOK
    <2> QED
        BY <2>1, <2>2, <2>3, <2>4, <2>5, OpenStep
<1>30. CASE Else
    <2>1. /\ gl_level' \in Levels /\ skip_mode' \in BOOLEAN /\ pos' = pos + 1
          /\ UNCHANGED <<prog, stack, param_count, status, run_flag, ret_point, frameBase>>
          /\ UNCHANGED <<level, def_mode, patched, this_block, parent_block, blocks>>
        BY <1>30, <1>t, <1>w DEF Else, blockVars, TypeOK
    <2>2. lastIf' \in [Levels -> Outcomes]
        BY <1>30, <1>t, <1>w DEF Else, TypeOK, Outcomes
    <2>3. DefinitionKnown'
        BY <2>1 DEF TInv, DefinitionKnown
    <2>4. pos' \in Nat \ {0}
        BY <1>t, <2>1 DEF TypeOK
    <2>5. TypeOK'
        BY <1>t, <2>1, <2>2, <2>4, Zenon DEF TypeOK
    <2> QED
        BY <2>3, <2>5 DEF TInv
<1>31. CASE CeitTrue
    <2>1. stack' \in Seq(Levels) /\ Len(stack') <= StackSize
        BY <1>31, <1>t, BelowType DEF CeitTrue
    <2>2. lastIf' \in [Levels -> Outcomes]
        BY <1>31, <1>d DEF CeitTrue, Outcomes
    <2>3. /\ pos' = pos + 1
          /\ UNCHANGED <<prog, param_count, status, gl_level, run_flag, ret_point, frameBase>>
          /\ UNCHANGED <<skip_mode, level, def_mode, patched, this_block, parent_block, blocks>>
        BY <1>31 DEF CeitTrue, skipVars, blockVars
    <2>4. DefinitionKnown'
        BY <1>t, <2>3 DEF DefinitionKnown
    <2>5. pos' \in Nat \ {0}
        BY <1>t, <2>3 DEF TypeOK
    <2>6. TypeOK'
        BY <1>t, <2>1, <2>2, <2>3, <2>5, Zenon DEF TypeOK
    <2> QED
        BY <2>4, <2>6 DEF TInv
<1>32. CASE CeitFalse
    <2>1. stack' \in Seq(Levels) /\ Len(stack') <= StackSize
        BY <1>32, <1>t, BelowType DEF CeitFalse
    <2>2. run_flag' \in [Levels -> Flags]
        BY <1>32, <1>t DEF CeitFalse, TypeOK, Flags
    <2>3. /\ gl_level' \in Levels /\ skip_mode' = TRUE /\ pos' = pos + 1
          /\ UNCHANGED <<prog, param_count, status, ret_point, frameBase>>
          /\ UNCHANGED <<level, def_mode, patched, this_block, parent_block, blocks>>
        BY <1>32, <1>t, <1>w DEF CeitFalse, blockVars
    <2>4. lastIf' \in [Levels -> Outcomes]
        BY <1>32, <1>d DEF CeitFalse, Outcomes
    <2>5. DefinitionKnown'
        BY <1>t, <2>3 DEF DefinitionKnown
    <2>6. pos' \in Nat \ {0} /\ skip_mode' \in BOOLEAN
        BY <1>t, <2>3 DEF TypeOK
    <2>7. TypeOK'
        BY <1>t, <2>1, <2>2, <2>3, <2>4, <2>6, Zenon DEF TypeOK
    <2> QED
        BY <2>5, <2>7 DEF TInv
<1>33. CASE CeitUnderflow
    BY <1>33, StopStep DEF CeitUnderflow
<1>34. CASE UNCHANGED vars
    BY <1>34 DEF vars, TInv, TypeOK, DefinitionKnown, levelVars, historyVars, skipVars, blockVars
<1> QED
    BY <1>1, <1>2, <1>3, <1>4, <1>5, <1>6, <1>7, <1>8, <1>9, <1>10, <1>11, <1>12, <1>13,
       <1>14, <1>15, <1>16, <1>17, <1>18, <1>19, <1>20, <1>21, <1>22, <1>23, <1>24, <1>25,
       <1>26, <1>27, <1>28, <1>29, <1>30, <1>31, <1>32, <1>33, <1>34 DEF Next, Step, Halted

\* They hold when larva_silk starts.
LEMMA TypeInit == Init => TInv
<1> SUFFICES ASSUME Init PROVE TInv
    OBVIOUS
<1>1. 0 \in Levels
    BY ByteModAssumption DEF Levels
<1>2. run_flag \in [Levels -> Flags]
    BY DEF Init, Flags
<1>3. DOMAIN blocks = {}
    BY DEF Init
<1>4. stack \in Seq(Levels) /\ Len(stack) = 0
    BY DEF Init
<1> QED
    BY <1>1, <1>2, <1>3, <1>4, StackSizeAssumption DEF Init, TInv, TypeOK, DefinitionKnown

\* So they always hold.
LEMMA TypeInvariant == Spec => []TInv
<1> QED
    BY TypeInit, TypeStep, PTL DEF Spec

(* larva_silk keeps its state within its types for every byte-code:         *)
(* whatever the nesting, gl_level and level stay indices of run_flag and    *)
(* ret_point, bc_stack never holds more than BOMBYX_STACK_SIZE operands,    *)
(* and parent_block, where it is used, names a block of the table.          *)
THEOREM TypeCorrect == Spec => []TypeOK
<1>1. TInv => TypeOK
    BY DEF TInv
<1> QED
    BY <1>1, TypeInvariant, PTL

-----------------------------------------------------------------------------
\* Only a definition changes the program or the table of blocks.
LEMMA OnlyBlockDef ==
    ASSUME [Next]_vars, ~ BlockDef
    PROVE  UNCHANGED <<prog, patched, blocks>>
<1> USE DEF blockVars
<1>1. ASSUME NEW how, Stop(how) PROVE UNCHANGED <<prog, patched, blocks>>
    BY <1>1 DEF Stop
<1>2. ASSUME NEW s, Operands(s) PROVE UNCHANGED <<prog, patched, blocks>>
    BY <1>2 DEF Operands
<1>3. CASE RuntimeError \/ Underflow \/ Overflow \/ XCallFails \/ ReverseOutside \/ ParamFails
           \/ UnknownBlock \/ ReturnHangs \/ BlockEndNullParent \/ CeitUnderflow
    BY <1>1, <1>3
       DEF RuntimeError, Underflow, Overflow, XCallFails, ReverseOutside, ParamFails,
           UnknownBlock, ReturnHangs, BlockEndNullParent, CeitUnderflow
<1>4. CASE Compute \/ XCall \/ ReverseStack \/ ClearStack \/ Param \/ ParamX \/ IdleStep
    BY <1>1, <1>2, <1>4
       DEF Compute, XCall, ReverseStack, ClearStack, Param, ParamX, IdleStep
<1>5. CASE PassOver \/ Finish \/ SkipStep \/ Call \/ ReturnFromBlock \/ ReturnFromStatement
    BY <1>5 DEF PassOver, Finish, SkipStep, Call, ReturnFromBlock, ReturnFromStatement
<1>6. CASE BlockStart \/ BlockEndSkipped \/ BlockEndOfStatement \/ BlockEndOfBlock
    BY <1>6 DEF BlockStart, BlockEndSkipped, BlockEndOfStatement, BlockEndOfBlock
<1>7. CASE While \/ If \/ Else \/ CeitTrue \/ CeitFalse
    BY <1>7 DEF While, If, Else, CeitTrue, CeitFalse
<1>8. CASE UNCHANGED vars
    BY <1>8 DEF vars
<1> QED
    BY <1>3, <1>4, <1>5, <1>6, <1>7, <1>8 DEF Next, Step, Halted

\* Every step keeps the table of blocks sound; only BCO_BLOCK_DEF extends it.
LEMMA BlockTableStep == TInv /\ BlockTable /\ [Next]_vars => BlockTable'
<1> SUFFICES ASSUME TInv, BlockTable, [Next]_vars
             PROVE  BlockTable'
    OBVIOUS
<1>1. CASE ~ BlockDef
    BY <1>1, OnlyBlockDef DEF BlockTable
<1>2. CASE BlockDef
    <2>1. Here \in Instr /\ pos \in 1 .. Len(prog) /\ Here.op = "BLOCK_DEF"
        BY <1>2, ExecutingType DEF BlockDef, TInv
    <2>2. pos \notin patched /\ Here = prog[pos]
        BY <2>1 DEF Here, Skip
    <2> DEFINE name == this_block \o Here.name
               new == [pos |-> pos + 1, parent |-> this_block]
    <2>3. patched' = patched \cup {pos} /\ prog' = prog
        BY <1>2 DEF BlockDef
    <2>4. CASE name \in DOMAIN blocks
        <3>1. blocks' = blocks
            BY <1>2, <2>4 DEF BlockDef
        <3> QED
            BY <2>3, <3>1 DEF BlockTable
    <2>5. CASE name \notin DOMAIN blocks
        <3>1. blocks' = [b \in DOMAIN blocks \cup {name} |-> IF b = name THEN new ELSE blocks[b]]
            BY <1>2, <2>5 DEF BlockDef
        <3>2. new.pos = pos + 1 /\ name = new.parent \o prog[pos].name
            BY <2>2
        <3> HIDE DEF name, new
        <3>3. DOMAIN blocks' = DOMAIN blocks \cup {name}
            BY <3>1
        <3>4. /\ blocks'[name] = new
              /\ \A b \in DOMAIN blocks : blocks'[b] = blocks[b]
            BY <2>5, <3>1
        <3>5. new.pos - 1 = pos
            BY <2>1, <3>2
        <3>6. \A b \in DOMAIN blocks' :
                 /\ blocks'[b].pos - 1 \in patched'
                 /\ prog'[blocks'[b].pos - 1].op = "BLOCK_DEF"
                 /\ b = blocks'[b].parent \o prog'[blocks'[b].pos - 1].name
            BY <2>1, <2>2, <2>3, <3>2, <3>3, <3>4, <3>5 DEF BlockTable
        <3>7. \A b \in DOMAIN blocks : blocks[b].pos # new.pos
            BY <2>2, <3>5 DEF BlockTable
        <3>8. \A b, c \in DOMAIN blocks' : blocks'[b].pos = blocks'[c].pos => b = c
            BY <3>3, <3>4, <3>7 DEF BlockTable
        <3> QED
            BY <3>6, <3>8 DEF BlockTable
    <2> QED
        BY <2>4, <2>5
<1> QED
    BY <1>1, <1>2

(* The table of blocks is sound for every byte-code: a block is entered     *)
(* right behind its own patched definition and no two blocks share an       *)
(* entry, because a definition that was executed is overwritten in place    *)
(* (larva_silk.c:391-395) and cannot run again.                             *)
THEOREM BlockTableHolds == Spec => []BlockTable
<1>1. Init => BlockTable
    BY DEF Init, BlockTable
<1> QED
    BY <1>1, TypeInvariant, BlockTableStep, PTL DEF Spec
=============================================================================

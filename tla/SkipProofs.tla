----------------------------- MODULE SkipProofs -----------------------------
(***************************************************************************)
(* Silk passing over code: for every program whose blocks are nested, the  *)
(* code of a definition or of a branch not taken is passed over, and none  *)
(* behind it, without an effect.                                           *)
(***************************************************************************)
EXTENDS SilkProofs

-----------------------------------------------------------------------------
(* Programs as the compiler nests them.                                     *)

\* The instructions that set skip_mode.
Skippers == {"BLOCK_DEF", "SKIP", "CEIT", "ELSE"}

\* d counts the blocks around each instruction: fewer than a BYTE can count,
\* none at the end.  What sets skip_mode has a block behind it.
Nested(p, d) ==
    /\ d[Len(p) + 1] = 0
    /\ \A i \in 1 .. Len(p) :
         /\ d[i + 1] = CASE p[i].op = "BLOCK_START" -> d[i] + 1
                         [] p[i].op = "BLOCK_END" -> d[i] - 1
                         [] OTHER -> d[i]
         /\ p[i].op \in Skippers => i < Len(p) /\ p[i + 1].op = "BLOCK_START"

Depths(p) == [1 .. Len(p) + 1 -> Levels]
Depth(p) == CHOOSE d \in Depths(p) : Nested(p, d)
Structured == \A p \in Programs : \E d \in Depths(p) : Nested(p, d)

\* Elements are added outside of all blocks only: inside, ADD_ELEM is executed
\* even when it is passed over.
NoAddInBlocks ==
    \A p \in Programs : \A i \in 1 .. Len(p) : p[i].op = "ADD_ELEM" => Depth(p)[i] = 0

\* No name is given to two blocks, wherever they are defined.
DistinctBlocks ==
    \A p \in Programs : \A i, j \in 1 .. Len(p) :
        p[i].op = "BLOCK_DEF" /\ p[j].op = "BLOCK_DEF" =>
            /\ Len(p[i].name) = 1
            /\ p[i].name[1] = p[j].name[1] => i = j

-----------------------------------------------------------------------------
(* The invariant: what is open since skip_mode was set is no more than what *)
(* is open in the program, and as long as nothing is open a block begins.   *)

Passing ==
    skip_mode =>
        /\ pos <= Len(prog)
        /\ level <= Depth(prog)[pos]
        /\ level = 0 => prog[pos].op = "BLOCK_START"

SInv ==
    /\ \A i \in patched : prog[i].op = "BLOCK_DEF"
    /\ ~skip_mode => level = 0
    /\ def_mode => skip_mode
    /\ Passing

\* The depth at an instruction and behind it.
LEMMA DepthType ==
    ASSUME Structured, TypeOK, pos <= Len(prog)
    PROVE  /\ prog \in Seq(Instr) /\ pos \in 1 .. Len(prog)
           /\ Depth(prog)[pos] \in Levels /\ Depth(prog)[pos + 1] \in Levels
           /\ Depth(prog)[Len(prog) + 1] = 0
           /\ Depth(prog)[pos + 1] = CASE prog[pos].op = "BLOCK_START" -> Depth(prog)[pos] + 1
                                       [] prog[pos].op = "BLOCK_END" -> Depth(prog)[pos] - 1
                                       [] OTHER -> Depth(prog)[pos]
           /\ prog[pos].op \in Skippers => pos < Len(prog) /\ prog[pos + 1].op = "BLOCK_START"
<1>1. prog \in Programs /\ prog \in Seq(Instr) /\ pos \in 1 .. Len(prog)
  BY ProgramsAssumption DEF TypeOK
<1> DEFINE d == Depth(prog)
<1>2. d \in Depths(prog) /\ Nested(prog, d)
  BY <1>1 DEF Depth, Structured
<1> HIDE DEF d
<1>3. d[pos] \in Levels /\ d[pos + 1] \in Levels
  BY <1>1, <1>2 DEF Depths
<1>4. d[Len(prog) + 1] = 0
  BY <1>2 DEF Nested
<1>5. /\ d[pos + 1] = CASE prog[pos].op = "BLOCK_START" -> d[pos] + 1
                        [] prog[pos].op = "BLOCK_END" -> d[pos] - 1
                        [] OTHER -> d[pos]
      /\ prog[pos].op \in Skippers => pos < Len(prog) /\ prog[pos + 1].op = "BLOCK_START"
  BY <1>1, <1>2 DEF Nested
<1> QED
  BY <1>1, <1>3, <1>4, <1>5 DEF d

\* An instruction that opens and closes nothing is the same patched or not.
LEMMA HereSame ==
    ASSUME SInv, TypeOK, pos <= Len(prog)
    PROVE  /\ Here.op = IF pos \in patched THEN "SKIP" ELSE prog[pos].op
           /\ pos \in patched => prog[pos].op = "BLOCK_DEF"
  BY DEF SInv, Here, Skip

\* Steps that leave the modes as they are.
LEMMA Quiet ==
    ASSUME Structured, TypeOK, SInv, UNCHANGED <<prog, patched, skip_mode, level, def_mode>>,
           \/ ~skip_mode
           \/ pos' = pos
           \/ pos' = pos + 1 /\ Here.op \notin {"BLOCK_START", "BLOCK_END"}
    PROVE  SInv'
<1>1. CASE ~skip_mode \/ pos' = pos
  BY <1>1 DEF SInv, Passing
<1>2. CASE skip_mode /\ pos' = pos + 1 /\ Here.op \notin {"BLOCK_START", "BLOCK_END"}
  <2>1. pos <= Len(prog) /\ level <= Depth(prog)[pos] /\ level # 0
    BY <1>2, HereSame DEF SInv, Passing
  <2>2. Depth(prog)[pos + 1] = Depth(prog)[pos] /\ Depth(prog)[Len(prog) + 1] = 0
    BY <1>2, <2>1, HereSame, DepthType
  <2>3. pos \in Nat /\ Len(prog) \in Nat /\ level \in Nat /\ Depth(prog)[pos] \in Nat
    <3>1. prog \in Seq(Instr) /\ pos \in 1 .. Len(prog) /\ Depth(prog)[pos] \in Levels
      BY <2>1, DepthType, Zenon
    <3>2. level \in Levels
      BY DEF TypeOK
    <3>3. Levels \subseteq Nat
      BY ByteModAssumption DEF Levels
    <3>4. pos \in Nat /\ Len(prog) \in Nat
      BY <3>1
    <3> QED
      BY <3>1, <3>2, <3>3, <3>4, Zenon
  <2>4. pos + 1 <= Len(prog)
    BY <2>1, <2>2, <2>3
  <2> QED
    BY <1>2, <2>1, <2>2, <2>4 DEF SInv, Passing
<1> QED
  BY <1>1, <1>2

\* Steps that set skip_mode.
LEMMA Enter ==
    ASSUME Structured, TypeOK, SInv, ~skip_mode, pos <= Len(prog), prog[pos].op \in Skippers,
           UNCHANGED <<prog, level>>, skip_mode', pos' = pos + 1,
           \A i \in patched' : prog[i].op = "BLOCK_DEF"
    PROVE  SInv'
<1>1. level = 0 /\ pos < Len(prog) /\ prog[pos + 1].op = "BLOCK_START"
  BY DepthType DEF SInv
<1>2. Depth(prog)[pos + 1] \in Levels /\ pos \in Nat /\ Len(prog) \in Nat
  BY DepthType
<1>3. 0 <= Depth(prog)[pos + 1] /\ pos + 1 <= Len(prog)
  BY <1>1, <1>2, ByteModAssumption DEF Levels
<1> QED
  BY <1>1, <1>3 DEF SInv, Passing

\* A block begins inside the code that is passed over.
LEMMA StartInside ==
    ASSUME Structured, TypeOK, SInv, skip_mode, BlockStart
    PROVE  SInv'
<1>1. pos <= Len(prog) /\ prog[pos].op = "BLOCK_START" /\ level <= Depth(prog)[pos]
  BY HereSame DEF BlockStart, Executing, SInv, Passing
<1>2. /\ Depth(prog)[pos + 1] = Depth(prog)[pos] + 1 /\ Depth(prog)[Len(prog) + 1] = 0
      /\ Depth(prog)[pos] \in Levels /\ Depth(prog)[pos + 1] \in Levels
      /\ pos \in Nat /\ Len(prog) \in Nat
  BY <1>1, DepthType
<1> DEFINE d == Depth(prog)[pos]
           e == Depth(prog)[pos + 1]
<1>t. level \in Levels
  BY DEF TypeOK
<1> HIDE DEF d, e
<1>d. level <= d /\ d \in Levels /\ e \in Levels /\ e = d + 1
  BY <1>1, <1>2 DEF d, e
<1>3. level \in Nat /\ level + 1 <= ByteMod - 1 /\ level + 1 <= Depth(prog)[pos + 1]
  <2>1. level \in Nat /\ level + 1 <= ByteMod - 1 /\ level + 1 <= e
    BY <1>t, <1>d, ByteModAssumption DEF Levels
  <2> QED
    BY <2>1 DEF e
<1>4. Inc(level) = level + 1
  BY <1>3, ByteModAssumption DEF Inc
<1>5. pos # Len(prog)
  BY <1>2, <1>3
<1>6. /\ level' = level + 1 /\ pos' = pos + 1
      /\ UNCHANGED <<prog, patched, skip_mode, def_mode>>
  BY <1>4 DEF BlockStart, blockVars
<1> QED
  BY <1>1, <1>2, <1>3, <1>5, <1>6 DEF SInv, Passing

\* A block ends there, or the code that is passed over does.
LEMMA EndInside ==
    ASSUME Structured, TypeOK, SInv, BlockEndSkipped
    PROVE  SInv'
<1>1. /\ pos <= Len(prog) /\ prog[pos].op = "BLOCK_END" /\ level <= Depth(prog)[pos]
      /\ level # 0 /\ skip_mode
  BY HereSame DEF BlockEndSkipped, Ending, Executing, SInv, Passing
<1>2. /\ Depth(prog)[pos + 1] = Depth(prog)[pos] - 1 /\ Depth(prog)[Len(prog) + 1] = 0
      /\ Depth(prog)[pos] \in Levels /\ Depth(prog)[pos + 1] \in Levels
      /\ pos \in Nat /\ Len(prog) \in Nat
  BY <1>1, DepthType
<1> DEFINE d == Depth(prog)[pos]
           e == Depth(prog)[pos + 1]
<1>t. level \in Levels
  BY DEF TypeOK
<1> HIDE DEF d, e
<1>d. level <= d /\ d \in Levels /\ e \in Levels /\ e = d - 1
  BY <1>1, <1>2 DEF d, e
<1>3. level \in Nat /\ level - 1 <= Depth(prog)[pos + 1] /\ level - 1 \in 0 .. ByteMod - 1
  <2>1. level \in Nat /\ level - 1 <= e /\ level - 1 \in 0 .. ByteMod - 1
    BY <1>1, <1>t, <1>d, ByteModAssumption DEF Levels
  <2> QED
    BY <2>1 DEF e
<1>4. Dec(level) = level - 1
  BY <1>3, ByteModAssumption DEF Dec
<1>5. /\ level' = level - 1 /\ skip_mode' = (level - 1 # 0) /\ pos' = pos + 1 /\ def_mode' = FALSE
      /\ UNCHANGED <<prog, patched>>
  BY <1>4 DEF BlockEndSkipped, Ending, LeaveDefinition
<1>6. level - 1 # 0 => pos + 1 <= Len(prog)
  BY <1>1, <1>2, <1>3
<1>7. \A i \in patched' : prog'[i].op = "BLOCK_DEF"
  BY <1>5 DEF SInv
<1>8. Passing'
  BY <1>3, <1>5, <1>6 DEF Passing
<1> QED
  BY <1>5, <1>7, <1>8 DEF SInv

\* Every step keeps the invariant.
LEMMA SkipStepInv == Structured /\ TypeOK /\ SInv /\ [Next]_vars => SInv'
<1> SUFFICES ASSUME Structured, TypeOK, SInv, [Next]_vars
             PROVE  SInv'
  OBVIOUS
<1> USE DEF skipVars, blockVars
<1>s. ASSUME NEW how, Stop(how) PROVE SInv'
  BY <1>s, Quiet DEF Stop
<1>o. ASSUME NEW s, NEW op, op \notin {"BLOCK_START", "BLOCK_END"}, Executing(op), Operands(s) PROVE SInv'
  BY <1>o, Quiet DEF Operands, Executing
<1>1. CASE PassOver
  BY <1>1, Quiet DEF PassOver
<1>2. CASE Finish
  BY <1>2, Quiet DEF Finish
<1>3. CASE RuntimeError \/ Underflow \/ Overflow \/ XCallFails \/ ReverseOutside \/ ParamFails
           \/ UnknownBlock \/ ReturnHangs \/ BlockEndNullParent \/ CeitUnderflow
  BY <1>3, <1>s
     DEF RuntimeError, Underflow, Overflow, XCallFails, ReverseOutside, ParamFails,
         UnknownBlock, ReturnHangs, BlockEndNullParent, CeitUnderflow
<1>4. CASE Compute
  <2>1. DOMAIN Effect \cap {"BLOCK_START", "BLOCK_END"} = {}
    BY DEF Effect
  <2> QED
    BY <1>4, <1>o, <2>1 DEF Compute
<1>5. CASE XCall \/ ReverseStack \/ ClearStack \/ Param \/ IdleStep
  BY <1>5, <1>o DEF XCall, ReverseStack, ClearStack, Param, IdleStep
<1>6. CASE ParamX
  BY <1>6, <1>o, <1>s DEF ParamX
<1>7. CASE Call \/ ReturnFromBlock \/ ReturnFromStatement \/ While \/ If \/ CeitTrue
  BY <1>7, Quiet DEF Call, ReturnFromBlock, ReturnFromStatement, While, If, CeitTrue, Executing
<1>8. CASE BlockEndOfStatement \/ BlockEndOfBlock
  <2>1. /\ ~skip_mode /\ def_mode' = FALSE
        /\ UNCHANGED <<prog, patched, skip_mode, level>>
    BY <1>8 DEF BlockEndOfStatement, BlockEndOfBlock, Ending, LeaveDefinition
  <2>2. def_mode = FALSE
    BY <2>1 DEF SInv, TypeOK
  <2> QED
    BY <2>1, <2>2, Quiet
<1>9. CASE BlockDef
  <2>1. ~skip_mode /\ pos <= Len(prog) /\ Here.op = "BLOCK_DEF"
    BY <1>9 DEF BlockDef, Executing
  <2>2. prog[pos].op = "BLOCK_DEF"
    BY <2>1, HereSame
  <2>3. /\ UNCHANGED <<prog, level>> /\ skip_mode' /\ pos' = pos + 1 /\ patched' = patched \cup {pos}
    BY <1>9 DEF BlockDef
  <2>4. \A i \in patched' : prog[i].op = "BLOCK_DEF"
    BY <2>2, <2>3 DEF SInv
  <2>5. prog[pos].op \in Skippers
    BY <2>2 DEF Skippers
  <2> QED
    BY <2>1, <2>3, <2>4, <2>5, Enter
<1>10. CASE SkipStep
  <2>1. /\ ~skip_mode /\ pos <= Len(prog) /\ Here.op = "SKIP"
        /\ UNCHANGED <<prog, patched, level>> /\ skip_mode' /\ pos' = pos + 1
    BY <1>10 DEF SkipStep, Executing
  <2>2. prog[pos].op \in Skippers
    BY <2>1, HereSame DEF Skippers
  <2> QED
    BY <2>1, <2>2, Enter DEF SInv
<1>11. CASE CeitFalse
  <2>1. /\ ~skip_mode /\ pos <= Len(prog) /\ Here.op = "CEIT"
        /\ UNCHANGED <<prog, patched, level>> /\ skip_mode' /\ pos' = pos + 1
    BY <1>11 DEF CeitFalse, Executing
  <2>2. prog[pos].op \in Skippers
    BY <2>1, HereSame DEF Skippers
  <2> QED
    BY <2>1, <2>2, Enter DEF SInv
<1>12. CASE Else
  <2>1. /\ ~skip_mode /\ pos <= Len(prog) /\ Here.op = "ELSE"
        /\ UNCHANGED <<prog, patched, level, def_mode>> /\ pos' = pos + 1
        /\ skip_mode' \/ UNCHANGED skip_mode
    BY <1>12 DEF Else, Executing
  <2>2. prog[pos].op \in Skippers
    BY <2>1, HereSame DEF Skippers
  <2> QED
    BY <2>1, <2>2, Enter, Quiet DEF SInv
<1>13. CASE BlockStart
  <2>1. CASE ~skip_mode
    BY <1>13, <2>1, Quiet DEF BlockStart
  <2>2. CASE skip_mode
    BY <1>13, <2>2, StartInside
  <2> QED
    BY <2>1, <2>2
<1>14. CASE BlockEndSkipped
  BY <1>14, EndInside
<1>15. CASE UNCHANGED vars
  BY <1>15, Quiet DEF vars
<1> QED
  BY <1>1, <1>2, <1>3, <1>4, <1>5, <1>6, <1>7, <1>8, <1>9, <1>10, <1>11, <1>12, <1>13, <1>14, <1>15
     DEF Next, Step, Halted

\* So it always holds.
LEMMA SkipInvariant ==
    ASSUME Structured
    PROVE  Spec => [](TInv /\ SInv)
<1>1. Init => SInv
  BY DEF Init, SInv, Passing
<1>2. TInv /\ SInv /\ [Next]_vars => SInv'
  BY SkipStepInv DEF TInv
<1> QED
  BY <1>1, <1>2, TypeInvariant, PTL DEF Spec

\* A definition or a branch not taken does not swallow the rest of the program:
\* skip_mode is left before the byte-code ends.  This is what SkipEnds promises
\* but for the progress of larva_silk.
THEOREM SkipStaysInside ==
    ASSUME Structured
    PROVE  Spec => [](skip_mode => pos <= Len(prog))
<1>1. SInv => (skip_mode => pos <= Len(prog))
  BY DEF SInv, Passing
<1> QED
  BY <1>1, SkipInvariant, PTL

-----------------------------------------------------------------------------
(* The block whose definition is passed over has a name.                    *)

DefinitionNamed == def_mode => parent_block # <<>>

\* What two sequences joined are.
LEMMA JoinLen ==
    ASSUME NEW T, NEW s \in Seq(T), NEW u \in Seq(T)
    PROVE  Len(s \o u) = Len(s) + Len(u) /\ Len(s) \in Nat
  OBVIOUS

LEMMA JoinElem ==
    ASSUME NEW T, NEW s \in Seq(T), NEW u \in Seq(T), NEW i \in 1 .. Len(u)
    PROVE  (s \o u)[Len(s) + i] = u[i]
  OBVIOUS

\* A name of one block, and the last name of a path.
Single(u) == Len(u) = 1
LastName(w) == w[Len(w)]

\* A name that is joined to others comes last.
LEMMA JoinEnds ==
    ASSUME NEW T, NEW s \in Seq(T), NEW u \in Seq(T), Single(u)
    PROVE  LastName(s \o u) = LastName(u)
<1>1. Len(s \o u) = Len(s) + Len(u)
  BY JoinLen, Zenon
<1>2. Len(u) \in 1 .. Len(u)
  BY DEF Single
<1>3. (s \o u)[Len(s) + Len(u)] = u[Len(u)]
  BY <1>2, JoinElem, Zenon
<1> QED
  BY <1>1, <1>3, Zenon DEF LastName

\* Of the steps that are no definition none names or unnames the block.
LEMMA OnlyDefinitionNames ==
    ASSUME [Next]_vars, ~BlockDef
    PROVE  def_mode' = FALSE \/ UNCHANGED <<def_mode, parent_block>>
<1> USE DEF skipVars, blockVars
<1>1. ASSUME NEW how, Stop(how) PROVE UNCHANGED <<def_mode, parent_block>>
  BY <1>1 DEF Stop
<1>2. ASSUME NEW s, Operands(s) PROVE UNCHANGED <<def_mode, parent_block>>
  BY <1>2 DEF Operands
<1>3. CASE RuntimeError \/ Underflow \/ Overflow \/ XCallFails \/ ReverseOutside \/ ParamFails
           \/ UnknownBlock \/ ReturnHangs \/ BlockEndNullParent \/ CeitUnderflow
  BY <1>1, <1>3
     DEF RuntimeError, Underflow, Overflow, XCallFails, ReverseOutside, ParamFails,
         UnknownBlock, ReturnHangs, BlockEndNullParent, CeitUnderflow
<1>4. CASE Compute \/ XCall \/ ReverseStack \/ ClearStack \/ Param \/ ParamX \/ IdleStep
  BY <1>1, <1>2, <1>4
     DEF Compute, XCall, ReverseStack, ClearStack, Param, ParamX, IdleStep
<1>5. CASE PassOver \/ Finish \/ SkipStep \/ Call \/ ReturnFromBlock \/ ReturnFromStatement
  BY <1>5 DEF PassOver, Finish, SkipStep, Call, ReturnFromBlock, ReturnFromStatement
<1>6. CASE BlockStart \/ BlockEndSkipped \/ BlockEndOfStatement \/ BlockEndOfBlock
  BY <1>6 DEF BlockStart, BlockEndSkipped, BlockEndOfStatement, BlockEndOfBlock, Ending, LeaveDefinition
<1>7. CASE While \/ If \/ Else \/ CeitTrue \/ CeitFalse
  BY <1>7 DEF While, If, Else, CeitTrue, CeitFalse
<1>8. CASE UNCHANGED vars
  BY <1>8 DEF vars
<1> QED
  BY <1>3, <1>4, <1>5, <1>6, <1>7, <1>8 DEF Next, Step, Halted

\* block_add never refuses: the name it is given ends as no other definition's.
LEMMA NamedStep ==
    ASSUME DistinctBlocks, TInv, BlockTable, SInv, DefinitionNamed, [Next]_vars
    PROVE  DefinitionNamed'
<1>1. CASE ~BlockDef
  BY <1>1, OnlyDefinitionNames DEF DefinitionNamed
<1>2. CASE BlockDef
  <2> DEFINE name == this_block \o Here.name
  <2>1. /\ prog \in Programs /\ prog \in Seq(Instr) /\ pos \in 1 .. Len(prog)
        /\ Here.op = "BLOCK_DEF" /\ Here \in Instr /\ this_block \in Seq(STRING)
    BY <1>2, ExecutingType, ProgramsAssumption DEF BlockDef, TInv, TypeOK
  <2>2. pos \notin patched /\ Here = prog[pos]
    BY <2>1 DEF Here, Skip
  <2>3. Here.name \in Seq(STRING) /\ Len(Here.name) = 1
    BY <2>1, <2>2 DEF DistinctBlocks, Instr
  <2>4. name # <<>>
    <3>1. Len(name) = Len(this_block) + Len(Here.name) /\ Len(this_block) \in Nat
      BY <2>1, <2>3, JoinLen, Zenon
    <3> HIDE DEF name
    <3> QED
      BY <2>3, <3>1
  <2>5. name \notin DOMAIN blocks
    <3> SUFFICES ASSUME name \in DOMAIN blocks PROVE FALSE
      OBVIOUS
    <3> DEFINE i == blocks[name].pos - 1
               parent == blocks[name].parent
    <3>1. i \in patched /\ prog[i].op = "BLOCK_DEF" /\ name = parent \o prog[i].name
      BY DEF BlockTable
    <3>2. parent \in Seq(STRING)
      BY DEF TInv, TypeOK
    <3>3. i \in 1 .. Len(prog)
      BY <3>1 DEF TInv, TypeOK
    <3>4. prog[i] \in Instr
      BY <2>1, <3>3
    <3> HIDE DEF i, parent
    <3>5. prog[i].name \in Seq(STRING) /\ Len(prog[i].name) = 1
      BY <2>1, <3>1, <3>3, <3>4 DEF DistinctBlocks, Instr
    <3> DEFINE new == Here.name
               old == prog[i].name
    <3>6. /\ new \in Seq(STRING) /\ old \in Seq(STRING) /\ Single(new) /\ Single(old)
          /\ this_block \o new = parent \o old
      BY <2>1, <2>3, <3>1, <3>5 DEF Single
    <3>7. LastName(new) = new[1] /\ LastName(old) = old[1]
      BY <3>6 DEF Single, LastName
    <3> HIDE DEF new, old
    <3>8. LastName(this_block \o new) = LastName(new)
      BY <2>1, <3>6, JoinEnds, Zenon
    <3>9. LastName(parent \o old) = LastName(old)
      BY <3>2, <3>6, JoinEnds, Zenon
    <3>10. new[1] = old[1]
      BY <3>6, <3>7, <3>8, <3>9, Zenon
    <3>11. i = pos
      BY <2>1, <2>2, <3>1, <3>3, <3>10 DEF DistinctBlocks, new, old
    <3> QED
      BY <2>2, <3>1, <3>11
  <2>6. parent_block' = name
    BY <1>2, <2>5 DEF BlockDef
  <2> QED
    BY <2>4, <2>6 DEF DefinitionNamed
<1> QED
  BY <1>1, <1>2

\* A step that is made while code is passed over.
LEMMA InertStep ==
    ASSUME Structured, NoAddInBlocks, TInv, SInv, DefinitionNamed, [Next]_vars, skip_mode,
           ~UNCHANGED vars
    PROVE  UNCHANGED <<stack, param_count>> /\ status' \in {"run", "done"}
<1>1. /\ prog \in Programs /\ pos \in 1 .. Len(prog) /\ TypeOK /\ level \in Nat
      /\ pos <= Len(prog) /\ Depth(prog)[pos] \in Nat
  <2>1. pos <= Len(prog) /\ TypeOK
    BY DEF TInv, SInv, Passing
  <2>2. pos \in 1 .. Len(prog) /\ Depth(prog)[pos] \in Levels
    BY <2>1, DepthType
  <2>3. level \in Levels /\ prog \in Programs
    BY <2>1 DEF TypeOK
  <2> QED
    BY <2>1, <2>2, <2>3, ByteModAssumption DEF Levels
<1>2. Here.op # "ADD_ELEM"
  <2> SUFFICES ASSUME Here.op = "ADD_ELEM" PROVE FALSE
    OBVIOUS
  <2>1. prog[pos].op = "ADD_ELEM"
    BY <1>1, HereSame
  <2>2. Depth(prog)[pos] = 0 /\ level # 0 /\ level <= Depth(prog)[pos]
    BY <1>1, <2>1 DEF NoAddInBlocks, SInv, Passing
  <2> QED
    BY <1>1, <2>2
<1>3. ASSUME NEW op, Executing(op) PROVE op \in {"BLOCK_START", "BLOCK_END"} /\ status = "run"
  BY <1>2, <1>3 DEF Executing
<1>4. CASE PassOver
  BY <1>4 DEF PassOver
<1>5. CASE Finish
  BY <1>1, <1>5 DEF Finish
<1>6. ~RuntimeError /\ ~Compute /\ ~Underflow /\ ~Overflow
  BY <1>3 DEF RuntimeError, Compute, Underflow, Overflow, Fallible, Effect
<1>7. /\ ~XCall /\ ~XCallFails /\ ~ReverseStack /\ ~ReverseOutside /\ ~ClearStack /\ ~Param
      /\ ~ParamFails /\ ~ParamX /\ ~IdleStep
  BY <1>3 DEF XCall, XCallFails, ReverseStack, ReverseOutside, ClearStack, Param, ParamFails, ParamX,
     IdleStep
<1>8. /\ ~BlockDef /\ ~SkipStep /\ ~Call /\ ~UnknownBlock /\ ~ReturnFromBlock
      /\ ~ReturnFromStatement /\ ~ReturnHangs
  BY <1>3 DEF BlockDef, SkipStep, Call, UnknownBlock, ReturnFromBlock, ReturnFromStatement, ReturnHangs
<1>9. ~While /\ ~If
  BY <1>3 DEF While, If
<1>15. ~CeitTrue /\ ~CeitUnderflow
  BY <1>3 DEF CeitTrue, CeitUnderflow
<1>16. ~Else
  <2>1. ~Executing("ELSE")
    BY <1>3
  <2> QED
    BY <2>1 DEF Else
<1>14. ~CeitFalse
  BY <1>3 DEF CeitFalse
<1>10. ~BlockEndNullParent /\ ~BlockEndOfStatement /\ ~BlockEndOfBlock
  BY DEF BlockEndNullParent, BlockEndOfStatement, BlockEndOfBlock, DefinitionNamed
<1>11. CASE BlockStart
  BY <1>3, <1>11 DEF BlockStart
<1>12. CASE BlockEndSkipped
  BY <1>3, <1>12 DEF BlockEndSkipped, Ending
<1>13. ~Halted
  BY DEF Halted
<1> QED
  BY <1>4, <1>5, <1>6, <1>7, <1>8, <1>9, <1>10, <1>11, <1>12, <1>13, <1>14, <1>15, <1>16 DEF Next, Step

\* Code that is passed over has no effect and does not fail, in every program
\* whose blocks are nested, have names of their own and add no element to an
\* array: with ADD_ELEM inside a block its definition already executes it, with a
\* name given twice the end of the second definition follows NULL.
THEOREM SkippedCodeHolds ==
    ASSUME Structured, NoAddInBlocks, DistinctBlocks
    PROVE  Spec => SkippedCodeIsInert
<1>1. Init => DefinitionNamed
  BY DEF Init, DefinitionNamed
<1>2. TInv /\ BlockTable /\ SInv /\ DefinitionNamed /\ [Next]_vars => DefinitionNamed'
  BY NamedStep
<1>3. TInv /\ SInv /\ DefinitionNamed /\ [Next]_vars =>
        [skip_mode => UNCHANGED <<stack, param_count>> /\ status' \in {"run", "done"}]_vars
  BY InertStep
<1> QED
  BY <1>1, <1>2, <1>3, SkipInvariant, BlockTableHolds, PTL DEF Spec, SkippedCodeIsInert
=============================================================================

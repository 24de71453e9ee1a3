------------------------------- MODULE Store --------------------------------
(***************************************************************************)
(* What the documentation promises of variables: a variable holds a value, *)
(* an operand is a value, and an operation changes the one variable it     *)
(* names.  Values have no addresses here, so nothing can be shared, freed  *)
(* too early or written past its end.  The code runs one level of calls in *)
(* line: a body stands where it is called.                                 *)
(***************************************************************************)
EXTENDS Operands, FiniteSetsExt

CONSTANTS
    Prologue,       \* the statements every program starts with
    Statements,     \* the statements that may follow
    MaxStatements   \* how many of them do

VARIABLES
    todo,           \* instructions of the current statement not executed yet
    left,           \* statements that may still follow
    env,            \* the value of each variable
    stk,            \* operands, the top last: value and level tag
    gl_level,       \* calls entered
    param_count,    \* arguments not taken yet
    out,            \* what print showed
    status          \* run, done, error (runtime_error) or stopped

vars == <<todo, left, env, stk, gl_level, param_count, out, status>>
control == <<gl_level, param_count>>

Init ==
    /\ todo = Prologue /\ left = MaxStatements
    /\ env = <<>> /\ stk = <<>> /\ out = <<>>
    /\ gl_level = 0 /\ param_count = 0
    /\ status = "run"

-----------------------------------------------------------------------------
At(op) == status = "run" /\ todo # <<>> /\ Head(todo).op \in op
Name == Head(todo).name
Arg(i) == stk[Len(stk) - i].v           \* Arg(0) is the top
Drop(n) == SubSeq(stk, 1, Len(stk) - n)
Tagged(v) == [v |-> v, level |-> gl_level]
Direct(v) == [v |-> v, level |-> 0]
Go == todo' = Tail(todo) /\ status' = "run" /\ UNCHANGED left

With(name, v) == [n \in DOMAIN env \cup {name} |-> IF n = name THEN v ELSE env[n]]

\* Taking the entries above those of outer levels off the stack.
Cleared(s) == SubSeq(s, 1, Max({0} \cup {i \in DOMAIN s : s[i].level < gl_level}))

Fail ==
    /\ status' = "error" /\ stk' = <<>>
    /\ UNCHANGED <<todo, left, env, out, control>>

-----------------------------------------------------------------------------
(* The values of operators, and of elements.                                *)

Numbers(x, y) == x.type = "DOUBLE" /\ y.type = "DOUBLE"
Strings(x, y) == x.type = "STRING" /\ y.type = "STRING"

Defined(op, x, y) ==
    \/ Numbers(x, y)
    \/ op \in {"ADD", "CMP", "CMP_NOT", "MORE", "LESS"} /\ Strings(x, y)
    \/ op = "ADD" /\ {x.type, y.type} \in {{"STRING", "DOUBLE"}, {"ARRAY"}}
    \/ op \in {"CMP", "CMP_NOT"} /\ "UNSET" \in {x.type, y.type}

Applied(op, x, y) ==
    IF op = "ADD" /\ x.type = "ARRAY"
    THEN Composed("ARRAY", x.slots \o y.slots)
    ELSE IF op = "ADD" /\ ~Numbers(x, y)
    THEN LET Text(v) == IF v.type = "STRING" THEN v.val ELSE <<Shown(v.val)>>
         IN  Plain("STRING", Text(x) \o Text(y))
    ELSE IF "UNSET" \in {x.type, y.type}
    THEN Plain("DOUBLE", Lit(IF op = "CMP" THEN 0 ELSE 1))
    ELSE Plain("DOUBLE", <<op, x.val, y.val>>)

\* The value at a path, Unset when there is none.
SlotOf(v, token) == IF v.type = "ARRAY" THEN IndexOf(token) + 1 ELSE token
Step(v, token) ==
    IF /\ v.type \in Composite /\ (v.type = "ARRAY" => IsIndex(token))
       /\ SlotOf(v, token) \in DOMAIN v.slots
    THEN v.slots[SlotOf(v, token)] ELSE Unset

Element(v, index) ==
    IF index.type = "DOUBLE"
    THEN LET i == index.val[2] + 1
         IN  IF i \in DOMAIN v.slots /\ v.slots[i].type # "HOLE" THEN v.slots[i] ELSE Unset
    ELSE FoldLeft(Step, v, Tokens(index.val))

\* A map or array with w in a slot: the slots an array lacks before it are holes.
Put(v, slot, w) ==
    IF v.type = "ARRAY"
    THEN Composed("ARRAY", [i \in 1 .. Max({Len(v.slots), slot}) |->
                              IF i = slot THEN w
                              ELSE IF i <= Len(v.slots) THEN v.slots[i] ELSE Plain("HOLE", <<>>)])
    ELSE Composed("MAP", [k \in DOMAIN v.slots \cup {slot} |-> IF k = slot THEN w ELSE v.slots[k]])

WithElement(v, index, w) ==
    IF index.type = "DOUBLE" THEN Put(v, index.val[2] + 1, w)
    ELSE LET path == Tokens(index.val)
             At_(n) == FoldLeft(Step, v, SubSeq(path, 1, n))
             New[n \in 0 .. Len(path)] ==
                 IF n = Len(path) THEN w ELSE Put(At_(n), SlotOf(At_(n), path[n + 1]), New[n + 1])
         IN  New[0]

-----------------------------------------------------------------------------
(* Instructions.                                                            *)

PushVariable ==
    /\ At({"AS_VAR"})
    /\ IF Name \in DOMAIN env
       THEN Go /\ stk' = Append(stk, Direct(env[Name])) /\ UNCHANGED <<env, out, control>>
       ELSE Fail

PushConstant ==
    /\ At({"AS_DOUBLE", "AS_STRING", "FROM_JSON", "AS_VOID", "MICROTIME"})
    /\ LET op == Head(todo).op
           lit == Head(todo).lit
       IN  stk' = Append(stk,
             CASE op = "AS_DOUBLE" -> Direct(Plain("DOUBLE", lit))
               [] op = "MICROTIME" -> Tagged(Plain("DOUBLE", <<"time">>))
               [] op = "AS_STRING" -> Tagged(Plain("STRING", lit))
               [] op = "AS_VOID" -> Direct(Unset)
               [] op = "FROM_JSON" -> Tagged(ValueOf(lit, Var(lit[1].kind, 1, None))))
    /\ Go /\ UNCHANGED <<env, out, control>>

Declare ==
    /\ At({"VAR"})
    /\ env' = IF Name \in DOMAIN env THEN env ELSE With(Name, Null)
    /\ Go /\ UNCHANGED <<stk, out, control>>

DeclareWith ==
    /\ At({"VARX"})
    /\ env' = With(Name, Arg(0)) /\ stk' = Drop(1)
    /\ Go /\ UNCHANGED <<out, control>>

\* The left operand stays, with the value it had.
Assign ==
    /\ At({"SET"})
    /\ IF Name = None THEN Fail
       ELSE Go /\ env' = With(Name, Arg(0)) /\ stk' = Drop(1) /\ UNCHANGED <<out, control>>

AssignElement ==
    /\ At({"SET_ELEM"})
    /\ IF Name \in DOMAIN env /\ Arg(1).type \in {"DOUBLE", "STRING"}
       THEN /\ env' = With(Name, WithElement(env[Name], Arg(1), Arg(0)))
            /\ stk' = Append(Drop(2), Tagged(Arg(0)))
            /\ Go /\ UNCHANGED <<out, control>>
       ELSE Fail

AppendElement ==
    /\ At({"ADD_ELEM"})
    /\ IF Name \in DOMAIN env /\ env[Name].type = "ARRAY"
       THEN /\ env' = With(Name, Put(env[Name], Len(env[Name].slots) + 1, Arg(0)))
            /\ stk' = Append(Drop(1), Tagged(Arg(0)))
            /\ Go /\ UNCHANGED <<out, control>>
       ELSE Fail

ReadElement ==
    /\ At({"ACCESS"})
    /\ IF Name \in DOMAIN env /\ Arg(0).type \in {"DOUBLE", "STRING"}
       THEN LET v == Element(env[Name], Arg(0))
            IN  /\ stk' = Append(Drop(1), IF v = Unset /\ Arg(0).type = "DOUBLE"
                                          THEN Direct(v) ELSE Tagged(v))
                /\ Go /\ UNCHANGED <<env, out, control>>
       ELSE Fail

Combine ==
    /\ At(Binary \cup Comparisons)
    /\ IF Defined(Head(todo).op, Arg(1), Arg(0))
       THEN LET r == Applied(Head(todo).op, Arg(1), Arg(0))
            IN  /\ stk' = Append(Drop(2), IF Head(todo).op \in Comparisons THEN Direct(r)
                                          ELSE [v |-> r, level |-> stk[Len(stk) - 1].level])
                /\ Go /\ UNCHANGED <<env, out, control>>
       ELSE Fail

Change ==
    /\ At(Unary)
    /\ LET op == Head(todo).op
           new == IF Arg(0).type = "STRING" THEN Plain("STRING", Reverse(Arg(0).val))
                  ELSE Plain("DOUBLE", <<op, Arg(0).val>>)
       IN  IF Arg(0).type \in {"DOUBLE"} \cup (IF op = "UNARY_MINUS" THEN {"STRING"} ELSE {})
           THEN /\ stk' = [stk EXCEPT ![Len(stk)].v = new]
                /\ env' = IF op \in {"INCR", "DECR"} /\ Name # None THEN With(Name, new) ELSE env
                /\ Go /\ UNCHANGED <<out, control>>
           ELSE Fail

Show ==
    /\ At({"PRINT"})
    /\ out' = Append(out, Arg(0)) /\ stk' = Drop(1)
    /\ Go /\ UNCHANGED <<env, control>>

ClearStack ==
    /\ At({"CLEAR_STACK"})
    /\ stk' = Cleared(stk)
    /\ Go /\ UNCHANGED <<env, out, control>>

\* A cocoon function gives a value, or fails.
CocoonCall ==
    /\ At({"XCALL"})
    /\ \/ /\ stk' = Append(Drop(Head(todo).n), Tagged(Head(todo).lit))
          /\ Go /\ UNCHANGED <<env, out, control>>
       \/ Fail

-----------------------------------------------------------------------------
(* Blocks.                                                                  *)

ReverseStack ==
    /\ At({"REVERSE_STACK"})
    /\ LET n == Head(todo).n
       IN  /\ stk' = Drop(n) \o Reverse(SubSeq(stk, Len(stk) - n + 1, Len(stk)))
           /\ param_count' = n
    /\ Go /\ UNCHANGED <<env, out, gl_level>>

Call ==
    /\ At({"CALL"})
    /\ gl_level' = gl_level + 1
    /\ Go /\ UNCHANGED <<env, stk, out, param_count>>

Param ==
    /\ At({"PARAM"})
    /\ IF param_count = 0 THEN Fail
       ELSE /\ env' = With(Name, Arg(0)) /\ stk' = Drop(1)
            /\ param_count' = param_count - 1
            /\ Go /\ UNCHANGED <<out, gl_level>>

\* The default is on top of the arguments.
ParamDefault ==
    /\ At({"PARAMX"})
    /\ LET given == Len(stk) > 1 /\ Arg(1).type # "UNSET" /\ param_count > 0
       IN  env' = With(Name, IF given THEN Arg(1) ELSE Arg(0))
    /\ stk' = Drop(Min({2, Len(stk)}))
    /\ param_count' = param_count - 1
    /\ Go /\ UNCHANGED <<out, gl_level>>

Return ==
    /\ At({"RETURN"})
    /\ stk' = IF stk = <<>> THEN <<Direct(Plain("DOUBLE", Lit(0)))>>
              ELSE Append(Cleared(Drop(1)), stk[Len(stk)])
    /\ gl_level' = gl_level - 1
    /\ Go /\ UNCHANGED <<env, out, param_count>>

EndBlock ==
    /\ At({"BLOCK_END"})
    /\ stk' = Append(Cleared(stk), Tagged(Plain("DOUBLE", Lit(0))))
    /\ gl_level' = gl_level - 1
    /\ Go /\ UNCHANGED <<env, out, param_count>>

-----------------------------------------------------------------------------
NextStatement ==
    /\ status = "run" /\ todo = <<>> /\ left > 0
    /\ todo' \in Statements
    /\ left' = left - 1
    /\ UNCHANGED <<env, stk, out, control, status>>

Finish ==
    /\ status = "run" /\ todo = <<>>
    /\ status' = "done" /\ stk' = <<>>
    /\ UNCHANGED <<todo, left, env, out, control>>

Stop ==
    /\ status \in {"done", "error"}
    /\ status' = "stopped" /\ env' = <<>>
    /\ UNCHANGED <<todo, left, stk, out, control>>

Next ==
    \/ PushVariable \/ PushConstant \/ Declare \/ DeclareWith \/ Assign
    \/ AssignElement \/ AppendElement \/ ReadElement \/ Combine \/ Change
    \/ Show \/ ClearStack \/ CocoonCall \/ ReverseStack \/ Call \/ Param
    \/ ParamDefault \/ Return \/ EndBlock \/ NextStatement \/ Finish \/ Stop

Spec == Init /\ [][Next]_vars
=============================================================================

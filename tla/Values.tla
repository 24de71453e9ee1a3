------------------------------- MODULE Values -------------------------------
(***************************************************************************)
(* Variables and operands as larva_silk (core/larva_silk.c) handles them:  *)
(* structs whose data point into a heap, copied by op_copy, moved by       *)
(* assignment of the struct, freed by var_unset.  Silk models the control; *)
(* here the code is a sequence of statements, a called block's body stands *)
(* in line between CALL and RETURN or BLOCK_END, and data are what counts. *)
(*                                                                         *)
(* The variable table is a chain, newest first, that var_lookup_2 searches *)
(* by comparing only the length of the name looked for.                    *)
(***************************************************************************)
EXTENDS Heap

CONSTANTS
    Prologue, Statements, MaxStatements,    \* as in Store
    Shadows,        \* <<n, m>>: m is longer, starts with n and has n's bucket
    Leftovers       \* what v2 may hold before it is first assigned

VARIABLES
    todo, left, out,
    heap,           \* every datum ever allocated
    chain,          \* env->vars: the names, in the order of the chain
    variables,      \* the var of each name
    stack,          \* bc_stack: var and level tag, the top last
    v2,             \* register of larva_silk, kept from one instruction to the next
    gl_level, param_count,
    status          \* run, done, error, stopped, or ub: undefined behaviour

vars == <<todo, left, out, heap, chain, variables, stack, v2, gl_level, param_count, status>>
control == <<gl_level, param_count>>
table == <<chain, variables>>

Levels == 0 .. 255      \* gl_level is a BYTE

Structs ==
    [type : {"UNSET", "DOUBLE", "STRING", "ARRAY", "MAP"}, data : 0 .. Len(heap),
     ref : DOMAIN variables \cup {None}]

\* The state has the shape the code gives it: data are addresses that were
\* allocated, references are to variables that exist.
TypeOK ==
    /\ left \in 0 .. MaxStatements
    /\ DOMAIN variables = Range(chain) /\ Len(chain) = Cardinality(Range(chain))
    /\ \A n \in DOMAIN variables : variables[n] \in Structs
    /\ status # "stopped" =>
        /\ \A i \in DOMAIN stack : stack[i].v \in Structs /\ stack[i].level \in Levels
        /\ \A a \in DOMAIN heap : \A w \in Range(heap[a].slots) : w = Hole \/ w \in Structs
    /\ gl_level \in Levels /\ param_count \in Int
    /\ status \in {"run", "done", "error", "stopped", "ub"}

Init ==
    /\ todo = Prologue /\ left = MaxStatements /\ out = <<>>
    /\ heap = <<>> /\ chain = <<>> /\ variables = <<>> /\ stack = <<>>
    /\ v2 \in Leftovers
    /\ gl_level = 0 /\ param_count = 0
    /\ status = "run"

-----------------------------------------------------------------------------
(* Helpers.                                                                 *)

At(ops) == status = "run" /\ todo # <<>> /\ Head(todo).op \in ops
Op == Head(todo).op
Name == Head(todo).name
Literal == Head(todo).lit
Mem == [h |-> heap, bad |-> FALSE]

Pop(i) == stack[Len(stack) - i].v       \* Pop(0) is the top
Rest(n) == SubSeq(stack, 1, Len(stack) - n)
Tagged(v) == [v |-> v, level |-> gl_level]
Direct(v) == [v |-> v, level |-> 0]
Number(m, term) == Allocate(m, <<Scalar("DOUBLE", term)>>)

\* The instruction ends with this memory.
Done(m) ==
    /\ heap' = m.h
    /\ status' = IF m.bad THEN "ub" ELSE "run"
    /\ todo' = Tail(todo)
    /\ UNCHANGED left

\* runtime_error: n operands were taken off before.
Error(n) ==
    /\ status' = "error" /\ stack' = Rest(n)
    /\ UNCHANGED <<todo, left, out, heap, table, v2, control>>

\* Following a pointer that is none.
Undefined ==
    /\ status' = "ub"
    /\ UNCHANGED <<todo, left, out, heap, table, stack, v2, control>>

\* Seeded fault: the chain is searched from its oldest entry.
OldestMatch(name) ==
    LET match == {i \in DOMAIN chain : chain[i] = name \/ <<name, chain[i]>> \in Shadows}
    IN  IF match = {} THEN None ELSE chain[Max(match)]

var_lookup_2(name) ==
    LET match == {i \in DOMAIN chain : chain[i] = name \/ <<name, chain[i]>> \in Shadows}
    IN  IF match = {} THEN None ELSE chain[Min(match)]

\* Seeded fault: a name that exists is inserted again.
AddedAgain(name) == <<name>> \o chain

\* var_add: a name that exists keeps its var.
Added(name) == IF name \in Range(chain) THEN chain ELSE <<name>> \o chain
Old(name) == IF name \in DOMAIN variables THEN variables[name] ELSE Var("STRING", 0, None)
With(name, v) == [n \in DOMAIN variables \cup {name} |-> IF n = name THEN v ELSE variables[n]]

\* stack_clear: entries of this level, from the top.
Kept(s) == Max({0} \cup {i \in DOMAIN s : s[i].level < gl_level})
Cleared(s) == SubSeq(s, 1, Kept(s))
Garbage(s) == [i \in 1 .. Len(s) - Kept(s) |-> s[Kept(s) + i].v]

-----------------------------------------------------------------------------
(* Operands.                                                                *)

\* The copy refers to the variable it was made from.
AsVar ==
    /\ At({"AS_VAR"})
    /\ LET name == var_lookup_2(Name)
       IN  IF name = None THEN Error(0)
           ELSE LET c == op_copy(Mem, Zeroed, variables[name])
                IN  /\ stack' = Append(stack, Direct([c.v EXCEPT !.ref = name]))
                    /\ Done(c.m) /\ UNCHANGED <<out, table, v2, control>>

AsConstant ==
    /\ At({"AS_DOUBLE", "AS_STRING", "FROM_JSON", "AS_VOID", "MICROTIME"})
    /\ LET fragment == CASE Op = "AS_DOUBLE" -> <<Scalar("DOUBLE", Literal)>>
                         [] Op = "MICROTIME" -> <<Scalar("DOUBLE", <<"time">>)>>
                         [] Op = "AS_STRING" -> <<Scalar("STRING", Literal)>>
                         [] Op = "FROM_JSON" -> Literal
                         [] Op = "AS_VOID" -> <<>>
           v == IF fragment = <<>> THEN Zeroed ELSE Fresh(Mem, fragment[1].kind)
       IN  /\ stack' = Append(stack, IF Op \in {"AS_DOUBLE", "AS_VOID"} THEN Direct(v) ELSE Tagged(v))
           /\ Done(Allocate(Mem, fragment))
    /\ UNCHANGED <<out, table, v2, control>>

Show ==
    /\ At({"PRINT"})
    /\ out' = Append(out, ValueOf(heap, Pop(0)))
    /\ stack' = Rest(1)
    /\ Done(Free(Mem, <<Pop(0)>>))
    /\ UNCHANGED <<table, v2, control>>

\* Seeded fault: entries are freed and stay on the stack.
ClearStackKeeps ==
    /\ At({"CLEAR_STACK"})
    /\ Done(Free(Mem, Garbage(stack)))
    /\ UNCHANGED <<out, table, stack, v2, control>>

ClearStack ==
    /\ At({"CLEAR_STACK"})
    /\ stack' = Cleared(stack)
    /\ Done(Free(Mem, Garbage(stack)))
    /\ UNCHANGED <<out, table, v2, control>>

-----------------------------------------------------------------------------
(* Variables.                                                               *)

Declare ==
    /\ At({"VAR"})
    /\ chain' = Added(Name) /\ variables' = With(Name, Old(Name))
    /\ Done(Mem) /\ UNCHANGED <<out, stack, v2, control>>

\* var_sync copies and the operand is freed.
DeclareWith ==
    /\ At({"VARX"})
    /\ LET v1 == [Pop(0) EXCEPT !.ref = None]
           c == op_copy(Mem, Old(Name), v1)
       IN  /\ chain' = Added(Name) /\ variables' = With(Name, c.v)
           /\ stack' = Rest(1)
           /\ Done(Free(c.m, <<v1>>))
    /\ UNCHANGED <<out, v2, control>>

\* op_assign: the variable takes over the operand's data; its own are lost.
Assign ==
    /\ At({"SET"})
    /\ LET ref == Pop(1).ref
       IN  IF ref = None THEN Error(1)
           ELSE /\ variables' = With(ref, [Pop(0) EXCEPT !.ref = variables[ref].ref])
                /\ v2' = Pop(0)
                /\ stack' = Rest(1)
                /\ Done(Mem) /\ UNCHANGED <<out, chain, control>>

-----------------------------------------------------------------------------
(* Elements.                                                                *)

Stored(m, at, v) == [m EXCEPT !.h[at.a].slots[at.slot] = v]

\* What SET_ELEM makes of the memory; bad when it follows a pointer that is
\* none, or makes an unsigned index of a number that has none.  An element of
\* an array keeps its reference, one that is set for the first time or reached
\* by a path gets the operand's.
ElementSet(t, index, v) ==
    IF ~Good(Mem, index) THEN Spoilt(Mem, TRUE)
    ELSE IF index.type = "STRING"
    THEN LET path == heap[index.data].val
             at == var_apath(Mem, t, path)
         IN  CASE at.how = "slot" -> Stored(Mem, at, v)
               [] at.how = "null" /\ Good(Mem, t) /\ t.type = "MAP" ->
                    map_add(Mem, t.data, Tokens(path)[1], v)
               [] OTHER -> Spoilt(Mem, TRUE)
    ELSE LET i == heap[index.data].val[2]
         IN  IF ~Good(Mem, t) \/ t.type # "ARRAY" \/ i \notin Nat THEN Spoilt(Mem, TRUE)
             ELSE LET slots == heap[t.data].slots
                  IN  IF i < Len(slots) /\ slots[i + 1] # Hole
                      THEN array_set_elem(Mem, t.data, i, [v EXCEPT !.ref = slots[i + 1].ref])
                      ELSE array_set_elem(Mem, t.data, i, v)

\* Seeded fault: the operand itself is pushed again, not a copy.
SetElemShared ==
    /\ At({"SET_ELEM"})
    /\ LET name == var_lookup_2(Name)
       IN  IF name = None \/ Pop(1).type \notin {"STRING", "DOUBLE"} THEN Error(2)
           ELSE /\ stack' = Append(Rest(2), Tagged(Pop(0)))
                /\ v2' = Pop(0)
                /\ Done(ElementSet(variables[name], Pop(1), Pop(0)))
                /\ UNCHANGED <<out, table, control>>

SetElem ==
    /\ At({"SET_ELEM"})
    /\ LET name == var_lookup_2(Name)
       IN  IF name = None \/ Pop(1).type \notin {"STRING", "DOUBLE"} THEN Error(2)
           ELSE LET c == op_copy(ElementSet(variables[name], Pop(1), Pop(0)), Zeroed, Pop(0))
                IN  /\ stack' = Append(Rest(2), Tagged(c.v))
                    /\ v2' = Pop(0)
                    /\ Done(c.m) /\ UNCHANGED <<out, table, control>>

AddElem ==
    /\ At({"ADD_ELEM"})
    /\ LET name == var_lookup_2(Name)
       IN  IF name = None \/ variables[name].type # "ARRAY" THEN Error(1)
           ELSE LET t == variables[name]
                    c == op_copy(array_push(Mem, t.data, Pop(0)), Zeroed, Pop(0))
                IN  IF ~Good(Mem, t) THEN Undefined
                    ELSE /\ stack' = Append(Rest(1), Tagged(c.v))
                         /\ v2' = c.v
                         /\ Done(c.m) /\ UNCHANGED <<out, table, control>>

\* Seeded fault: v2 keeps its data when there is no such element.
AccessIndexKeeps ==
    /\ At({"ACCESS"}) /\ Pop(0).type = "DOUBLE" /\ var_lookup_2(Name) # None
    /\ LET t == variables[var_lookup_2(Name)]
           i == heap[Pop(0).data].val[2] + 1
       IN  IF ~Good(Mem, Pop(0)) \/ ~Good(Mem, t) \/ t.type # "ARRAY" THEN Undefined
           ELSE LET found == i \in DOMAIN heap[t.data].slots /\ heap[t.data].slots[i] # Hole
                    c == op_copy(Mem, [v2 EXCEPT !.data = 0], heap[t.data].slots[i])
                IN  /\ stack' = Append(Rest(1), IF found THEN Tagged(c.v) ELSE Direct(Zeroed))
                    /\ v2' = IF found THEN c.v ELSE v2
                    /\ Done(IF found THEN c.m ELSE Mem)
                    /\ UNCHANGED <<out, table, control>>

\* An index of an array: data of v2 is cleared before the element is copied.
AccessIndex ==
    /\ At({"ACCESS"}) /\ Pop(0).type = "DOUBLE" /\ var_lookup_2(Name) # None
    /\ LET t == variables[var_lookup_2(Name)]
           i == heap[Pop(0).data].val[2] + 1
       IN  IF ~Good(Mem, Pop(0)) \/ ~Good(Mem, t) \/ t.type # "ARRAY" THEN Undefined
           ELSE LET found == i \in DOMAIN heap[t.data].slots /\ heap[t.data].slots[i] # Hole
                    c == op_copy(Mem, [v2 EXCEPT !.data = 0], heap[t.data].slots[i])
                IN  /\ stack' = Append(Rest(1), IF found THEN Tagged(c.v) ELSE Direct(Zeroed))
                    /\ v2' = IF found THEN c.v ELSE [v2 EXCEPT !.data = 0]
                    /\ Done(IF found THEN c.m ELSE Mem)
                    /\ UNCHANGED <<out, table, control>>

\* A path: the element is copied into v2 as the last instruction left it.
AccessPath ==
    /\ At({"ACCESS"}) /\ Pop(0).type = "STRING" /\ var_lookup_2(Name) # None
    /\ LET t == variables[var_lookup_2(Name)]
           at == var_apath(Mem, t, heap[Pop(0).data].val)
           c == IF at.how = "null" THEN [m |-> Mem, v |-> Zeroed] ELSE op_copy(Mem, v2, at.v)
       IN  IF ~Good(Mem, Pop(0)) \/ at.how = "wild" THEN Undefined
           ELSE /\ stack' = Append(Rest(1), Tagged(c.v))
                /\ v2' = c.v
                /\ Done(c.m) /\ UNCHANGED <<out, table, control>>

AccessFails ==
    /\ At({"ACCESS"})
    /\ var_lookup_2(Name) = None \/ Pop(0).type \notin {"DOUBLE", "STRING"}
    /\ Error(1)

-----------------------------------------------------------------------------
(* Operators.                                                               *)

\* Which operand types an operator takes.  Four of them are content with one
\* number and then read the other operand as one.
Takes(x, y) ==
    CASE Op \in {"AND", "OR", "POW", "MOD"} -> "DOUBLE" \in {x.type, y.type}
      [] Op = "ADD" -> \/ {x.type, y.type} \subseteq {"STRING", "DOUBLE"}
                       \/ {x.type, y.type} = {"ARRAY"}
      [] Op \in {"CMP", "CMP_NOT"} -> \/ {x.type, y.type} \in {{"DOUBLE"}, {"STRING"}}
                                      \/ "UNSET" \in {x.type, y.type}
      [] Op \in {"MORE", "LESS"} -> {x.type, y.type} \in {{"DOUBLE"}, {"STRING"}}
      [] OTHER -> {x.type, y.type} = {"DOUBLE"}

\* Operands whose data the operator reads as what they are.
Readable(x, y) ==
    /\ Good(Mem, x) /\ Good(Mem, y)
    /\ Op \in {"AND", "OR", "POW", "MOD"} => x.type = y.type

Text(v) == IF v.type = "STRING" THEN heap[v.data].val ELSE <<Shown(heap[v.data].val)>>

InPlace(x, y) ==
    [Mem EXCEPT !.h[x.data].val = <<Op, heap[x.data].val, heap[y.data].val>>]

\* Seeded fault: the right array keeps the elements it gave away.
JoinedTwice(x, y) ==
    IF {x.type, y.type} = {"DOUBLE"} THEN [m |-> InPlace(x, y), v1 |-> x, v2 |-> y]
    ELSE IF x.type = "ARRAY" THEN [m |-> Join(Mem, x.data, y.data), v1 |-> x, v2 |-> y]
    ELSE [m |-> Allocate(Free(Mem, <<x>>), <<Scalar("STRING", Text(x) \o Text(y))>>),
          v1 |-> [x EXCEPT !.type = "STRING", !.data = Len(heap) + 1], v2 |-> y]

\* Seeded fault: the text of a number and a string is still called a number.
AddedAsNumber(x, y) ==
    IF {x.type, y.type} = {"DOUBLE"} THEN [m |-> InPlace(x, y), v1 |-> x, v2 |-> y]
    ELSE IF x.type = "ARRAY" THEN [m |-> Join(Mem, x.data, y.data), v1 |-> x, v2 |-> [y EXCEPT !.data = 0]]
    ELSE [m |-> Allocate(Free(Mem, <<x>>), <<Scalar("STRING", Text(x) \o Text(y))>>),
          v1 |-> [x EXCEPT !.data = Len(heap) + 1], v2 |-> y]

\* Numbers are added in place, strings are reallocated, an array takes over the
\* elements of the other.
op_add(x, y) ==
    IF {x.type, y.type} = {"DOUBLE"} THEN [m |-> InPlace(x, y), v1 |-> x, v2 |-> y]
    ELSE IF x.type = "ARRAY" THEN [m |-> Join(Mem, x.data, y.data), v1 |-> x, v2 |-> [y EXCEPT !.data = 0]]
    ELSE [m |-> Allocate(Free(Mem, <<x>>), <<Scalar("STRING", Text(x) \o Text(y))>>),
          v1 |-> [x EXCEPT !.type = "STRING", !.data = Len(heap) + 1], v2 |-> y]

\* v1 goes back with its tag and reference, v2 is freed.
Arithmetic ==
    /\ At(Binary)
    /\ IF ~Takes(Pop(1), Pop(0)) THEN Error(2)
       ELSE IF ~Readable(Pop(1), Pop(0)) THEN Undefined
       ELSE LET r == IF Op = "ADD" THEN op_add(Pop(1), Pop(0))
                     ELSE [m |-> InPlace(Pop(1), Pop(0)), v1 |-> Pop(1), v2 |-> Pop(0)]
            IN  /\ stack' = Append(Rest(2), [stack[Len(stack) - 1] EXCEPT !.v = r.v1])
                /\ v2' = r.v2
                /\ Done(Free(r.m, <<r.v2>>)) /\ UNCHANGED <<out, table, control>>

\* var_cmp and the others; the result is a number of its own.
Compare ==
    /\ At(Comparisons)
    /\ LET x == Pop(1)
           y == Pop(0)
           unset == "UNSET" \in {x.type, y.type}
           term == IF unset THEN Lit(IF Op = "CMP" THEN 0 ELSE 1)
                   ELSE <<Op, heap[x.data].val, heap[y.data].val>>
       IN  IF ~Takes(x, y) THEN Error(2)
           ELSE IF ~unset /\ ~Readable(x, y) THEN Undefined
           ELSE /\ stack' = Append(Rest(2), Direct(Fresh(Mem, "DOUBLE")))
                /\ v2' = y
                /\ Done(Free(Number(Mem, term), <<x, y>>)) /\ UNCHANGED <<out, table, control>>

\* The variable a ++ or -- also changes.
Target(v) == IF Op \in {"INCR", "DECR"} THEN v.ref ELSE None

Change ==
    /\ At(Unary)
    /\ LET v == Pop(0)
           new == IF v.type = "STRING" THEN Reverse(heap[v.data].val) ELSE <<Op, heap[v.data].val>>
           also == IF Target(v) = None THEN v ELSE variables[Target(v)]
       IN  IF ~(v.type = "DOUBLE" \/ (Op = "UNARY_MINUS" /\ v.type = "STRING")) THEN Error(0)
           ELSE IF ~Good(Mem, v) \/ ~Good(Mem, also) \/ heap[also.data].kind # v.type THEN Undefined
           ELSE /\ Done([Mem EXCEPT !.h = [@ EXCEPT ![v.data].val = new, ![also.data].val = new]])
                /\ UNCHANGED <<out, table, stack, v2, control>>

\* A cocoon function makes a value of its own; its arguments are freed.
XCall ==
    /\ At({"XCALL"})
    /\ LET args == [i \in 1 .. Head(todo).n |-> stack[Len(stack) - Head(todo).n + i].v]
           made == Allocate(Mem, <<Scalar(Literal.type, Literal.val)>>)
       IN  \/ /\ stack' = Append(Rest(Head(todo).n), Tagged(Fresh(Mem, Literal.type)))
              /\ Done(Free(made, args)) /\ UNCHANGED <<out, table, v2, control>>
           \/ /\ status' = "error" /\ stack' = Rest(Head(todo).n)
              /\ heap' = Free(Mem, args).h
              /\ UNCHANGED <<todo, left, out, table, v2, control>>

-----------------------------------------------------------------------------
(* Blocks.                                                                  *)

\* op_swap exchanges whole structs.
ReverseStack ==
    /\ At({"REVERSE_STACK"})
    /\ LET n == Head(todo).n
       IN  /\ stack' = Rest(n) \o Reverse(SubSeq(stack, Len(stack) - n + 1, Len(stack)))
           /\ param_count' = n
    /\ Done(Mem) /\ UNCHANGED <<out, table, v2, gl_level>>

Call ==
    /\ At({"CALL"})
    /\ gl_level' = gl_level + 1
    /\ Done(Mem) /\ UNCHANGED <<out, table, stack, v2, param_count>>

\* The argument is copied and not freed.
Param ==
    /\ At({"PARAM"})
    /\ IF param_count = 0 THEN Error(0)
       ELSE IF stack = <<>> THEN Undefined
       ELSE LET c == op_copy(Mem, Old(Name), Pop(0))
            IN  /\ chain' = Added(Name) /\ variables' = With(Name, c.v)
                /\ stack' = Rest(1)
                /\ param_count' = param_count - 1
                /\ Done(c.m) /\ UNCHANGED <<out, v2, gl_level>>

ParamDefault ==
    /\ At({"PARAMX"})
    /\ LET arg == IF Len(stack) > 1 THEN Pop(1) ELSE Zeroed
           given == arg.type # "UNSET" /\ param_count > 0
           c == op_copy(Mem, Old(Name), IF given THEN arg ELSE Pop(0))
       IN  /\ chain' = Added(Name) /\ variables' = With(Name, c.v)
           /\ stack' = Rest(Min({2, Len(stack)}))
           /\ v2' = arg
           /\ param_count' = param_count - 1
           /\ Done(Free(c.m, <<Pop(0), arg>>))
    /\ UNCHANGED <<out, gl_level>>

\* Seeded fault: the result is taken off and not put back.
ReturnNothing ==
    /\ At({"RETURN"})
    /\ LET below == SubSeq(stack, 1, Max({0, Len(stack) - 1}))
       IN  stack' = Cleared(below) /\ Done(Free(Mem, Garbage(below)))
    /\ gl_level' = gl_level - 1
    /\ UNCHANGED <<out, table, v2, param_count>>

Return ==
    /\ At({"RETURN"})
    /\ IF stack = <<>>
       THEN /\ stack' = <<Direct(Fresh(Mem, "DOUBLE"))>>
            /\ Done(Number(Mem, Lit(0)))
       ELSE /\ stack' = Append(Cleared(Rest(1)), [stack[Len(stack)] EXCEPT !.v.ref = None])
            /\ Done(Free(Mem, Garbage(Rest(1))))
    /\ gl_level' = gl_level - 1
    /\ UNCHANGED <<out, table, v2, param_count>>

EndBlock ==
    /\ At({"BLOCK_END"})
    /\ stack' = Append(Cleared(stack), Tagged(Fresh(Mem, "DOUBLE")))
    /\ gl_level' = gl_level - 1
    /\ Done(Free(Number(Mem, Lit(0)), Garbage(stack)))
    /\ UNCHANGED <<out, table, v2, param_count>>

-----------------------------------------------------------------------------
NextStatement ==
    /\ status = "run" /\ todo = <<>> /\ left > 0
    /\ todo' \in Statements
    /\ left' = left - 1
    /\ UNCHANGED <<out, heap, table, stack, v2, control, status>>

Finish ==
    /\ status = "run" /\ todo = <<>>
    /\ LET m == Free(Mem, Garbage(stack))
       IN  /\ heap' = m.h /\ status' = IF m.bad THEN "ub" ELSE "done"
           /\ stack' = Cleared(stack)
    /\ UNCHANGED <<todo, left, out, table, v2, control>>

\* larva_stop frees the variables after a run and after an error.
Stop ==
    /\ status \in {"done", "error"}
    /\ LET m == Free(Mem, [i \in DOMAIN chain |-> variables[chain[i]]])
       IN  heap' = m.h /\ status' = IF m.bad THEN "ub" ELSE "stopped"
    /\ chain' = <<>> /\ variables' = <<>>
    /\ UNCHANGED <<todo, left, out, stack, v2, control>>

\* Nothing follows.
Ended == status \in {"stopped", "ub"} /\ UNCHANGED vars

Next ==
    \/ AsVar \/ AsConstant \/ Show \/ ClearStack \/ Declare \/ DeclareWith \/ Assign
    \/ SetElem \/ AddElem \/ AccessIndex \/ AccessPath \/ AccessFails
    \/ Arithmetic \/ Compare \/ Change \/ XCall
    \/ ReverseStack \/ Call \/ Param \/ ParamDefault \/ Return \/ EndBlock
    \/ NextStatement \/ Finish \/ Stop \/ Ended

Spec == Init /\ [][Next]_vars

-----------------------------------------------------------------------------
(* Properties.                                                              *)

Roots == {<<"var", n>> : n \in DOMAIN variables} \cup {<<"stack", i>> : i \in DOMAIN stack}
RootVar(r) == IF r[1] = "var" THEN variables[r[2]] ELSE stack[r[2]].v

\* While a program runs, every datum that a variable or an operand leads to is
\* allocated and belongs to that one alone: nothing that op_copy, the moves of
\* SET, SET_ELEM, ADD_ELEM and array + array, or var_unset leave behind is
\* shared or freed under its owner.
OneOwner ==
    status = "run" =>
        \A r \in Roots :
            /\ \A a \in DataOf(Mem, RootVar(r)) : heap[a].live
            /\ \A q \in Roots \ {r} : DataOf(Mem, RootVar(r)) \cap DataOf(Mem, RootVar(q)) = {}

\* Every var that a variable or an operand is or leads to has no data, or data
\* that are allocated and of the type it says: op_copy, which may keep the type
\* or the data of what it writes to, op_add and the moves of structs keep the
\* two together, so that whoever looks at the type and for NULL may read.
TypesAgree ==
    status = "run" =>
        \A r \in Roots :
            \A w \in {RootVar(r)} \cup UNION {Range(heap[a].slots) : a \in DataOf(Mem, RootVar(r))} :
                w.data = 0 \/ Good(Mem, w)

\* The operands that an instruction takes.
Arity ==
    IF Op \in {"PRINT", "VARX", "ACCESS", "ADD_ELEM", "PARAMX"} \cup Unary THEN 1
    ELSE IF Op \in {"SET", "SET_ELEM"} \cup Binary \cup Comparisons THEN 2
    ELSE IF Op \in {"XCALL", "REVERSE_STACK"} THEN Head(todo).n
    ELSE 0

\* What the instructions before it, and the blocks they called, left on the
\* stack is enough for every instruction: neither does stack_pop ever find the
\* stack empty, nor is an entry below the first one read.
Supplied == status = "run" /\ todo # <<>> => Arity \in 0 .. Len(stack)

\* When a path leads ACCESS to an element, v2 has no data: op_copy would
\* overwrite or free what the instruction before left there and pushed, too.
CleanPath ==
    At({"ACCESS"}) /\ Pop(0).type = "STRING" /\ Good(Mem, Pop(0)) /\ var_lookup_2(Name) # None =>
        \/ v2.data = 0
        \/ var_apath(Mem, variables[var_lookup_2(Name)], heap[Pop(0).data].val).how \in {"null", "wild"}

\* The instructions that free operands, results or variables and, to do so,
\* need not know the types of the values.
Frees ==
    \/ Show \/ ClearStack \/ XCall \/ Return \/ EndBlock \/ Finish \/ Stop
    \/ (Arithmetic \/ Compare) /\ todo' # todo

\* What they free is still allocated, and they free nothing twice: var_unset,
\* stack_clear, the end of a block and larva_stop, after a run or an error.
NothingFreedTwice == [][Frees => status' # "ub"]_vars

\* An array never has more elements than vars has room for: array_push,
\* array_set_elem, array_clone and array + array keep size within what was
\* allocated.
ElementsFit ==
    \A a \in DOMAIN heap : heap[a].kind = "ARRAY" => Len(heap[a].slots) <= heap[a].cap

\* No instruction uses or frees a datum that was freed before, follows a
\* pointer that is none, or reads an operand as a type it has not.
Defined == status # "ub"

\* The pointers implement values: with each var replaced by the value it leads
\* to, every instruction does what Store says of it, so that an operation
\* changes the variable it names and no other.
S == INSTANCE Store WITH
    env <- [n \in DOMAIN variables |-> ValueOf(heap, variables[n])],
    stk <- IF status = "run"
           THEN [i \in DOMAIN stack |-> [v |-> ValueOf(heap, stack[i].v), level |-> stack[i].level]]
           ELSE <<>>

ImplementsStore == S!Spec
=============================================================================

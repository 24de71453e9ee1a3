------------------------------ MODULE Bytecode ------------------------------
(***************************************************************************)
(* The byte layout of compiled code (core/bytecode.h, core/bytecode.c) and *)
(* how the interpreter reads it back (the operand reads of                 *)
(* core/larva_silk.c, once for an instruction it executes and once for one *)
(* it passes over).  An instruction is                                     *)
(*   [op, name, n]: its opcode, its tokens or literal, its count.          *)
(* A byte is a number, an opcode's that of bytecode.h.                     *)
(***************************************************************************)
EXTENDS Integers, Sequences, SequencesExt

CONSTANTS
    BcInitial,      \* BC_INITIAL_SIZE
    BcGrow,         \* BC_GROW_SIZE
    DoubleSize,     \* sizeof(double)
    MaxToken,       \* PARSER_MAX_TOKEN_SIZE, in cells
    Alphabet        \* the characters of names and literals, in code order

ASSUME BytecodeAssumption ==
    /\ BcGrow \in Nat \ {0} /\ BcInitial \in Nat /\ BcGrow <= BcInitial
    /\ DoubleSize \in Nat \ {0} /\ DoubleSize <= BcGrow
    /\ MaxToken \in Nat \ {0} /\ MaxToken <= 256 /\ MaxToken + 1 <= BcGrow
    /\ Alphabet \in Seq(STRING)

Instr(op, name, n) == [op |-> op, name |-> name, n |-> n]

Numbered(first, ops) == [first |-> first, ops |-> ops]

\* The numbers of bytecode.h, in runs.
Opcodes ==
    {Numbered(0, <<"IDLE", "VAR", "VARX", "AS_STRING", "AS_DOUBLE", "AS_VAR", "CALL", "BLOCK_DEF",
                   "BLOCK_START", "BLOCK_END", "REVERSE_STACK", "PARAM", "PARAMX", "ACCESS",
                   "FROM_JSON", "XCALL", "SET_ELEM", "ADD_ELEM">>),
     Numbered(32, <<"SET">>),
     Numbered(35, <<"ADD", "SUB", "MUL", "DIV", "POW", "MOD", "INCR", "DECR", "UNARY_MINUS", "INVERT",
                    "CMP", "CMP_NOT", "AND", "OR", "LESS", "LESS_EQ", "MORE", "MORE_EQ">>),
     Numbered(60, <<"IF", "ELSE", "WHILE", "RETURN", "CLEAR_STACK", "CEIT", "SKIP">>),
     Numbered(200, <<"PRINT", "MICROTIME", "SWAP", "AS_VOID">>)}

Opcode(op) ==
    LET run == CHOOSE r \in Opcodes : op \in ToSet(r.ops)
    IN  run.first - 1 + (CHOOSE i \in DOMAIN run.ops : run.ops[i] = op)

\* A byte that is no opcode is no case of the switch: like an IDLE.
OpOf(byte) ==
    LET runs == {r \in Opcodes : byte \in r.first .. r.first + Len(r.ops) - 1}
    IN  IF runs = {} THEN "IDLE" ELSE LET run == CHOOSE r \in runs : TRUE IN run.ops[byte - run.first + 1]

IsSkippable(byte) == byte >= 32

WithToken == {"VAR", "VARX", "AS_VAR", "CALL", "BLOCK_DEF", "PARAM", "PARAMX", "ACCESS", "SET_ELEM", "ADD_ELEM"}
WithString == {"AS_STRING", "FROM_JSON"}
WithOperand == WithToken \cup WithString \cup {"AS_DOUBLE", "REVERSE_STACK", "XCALL"}
Bare == (UNION {ToSet(r.ops) : r \in Opcodes}) \ WithOperand

-----------------------------------------------------------------------------
(* Writing.  A buffer is [bytes, length]: what has been stored and the room *)
(* that was allocated for it; bc_pos is the number of bytes.                *)

Byte(c) == 96 + (CHOOSE i \in DOMAIN Alphabet : Alphabet[i] = c)
Bytes(cs) == [i \in DOMAIN cs |-> Byte(cs[i])]

bc_init == [bytes |-> <<>>, length |-> BcInitial]

bc_grow(b) == [b EXCEPT !.length = @ + BcGrow]

\* The room asked for is subtracted from an unsigned length: when it exceeds
\* the length the difference is huge and the buffer does not grow.
Roomy(b, size) ==
    IF b.length >= size /\ Len(b.bytes) >= b.length - size THEN bc_grow(b) ELSE b

Store(b, bytes) == [b EXCEPT !.bytes = @ \o bytes]

bc_add_cmd(b, cmd) == Store(Roomy(b, 0), <<cmd>>)

bc_add_token(b, token) == Store(Roomy(b, Len(token) + 1), <<Len(token) % 256>> \o Bytes(token))

bc_add_double(b, digits) ==
    Store(Roomy(b, DoubleSize), Bytes(digits) \o [i \in 1 .. DoubleSize - Len(digits) |-> 0])

Word(n) == <<n % 256, n \div 256>>

bc_add_string(b, str) ==
    LET size == Len(str) % 65536
    IN  Store(Roomy(b, size + 2), Word(size) \o Bytes(SubSeq(str, 1, size)))

\* Seeded fault: the function's name in front of the cocoon's.
EmitXCallSwapped(c, x) == bc_add_cmd(bc_add_token(bc_add_token(c, x.name[2]), x.name[1]), x.n)

EmitXCall(c, x) == bc_add_cmd(bc_add_token(bc_add_token(c, x.name[1]), x.name[2]), x.n)

\* The calls the compiler makes for one instruction.  A call of a block has
\* its count of arguments in front, an IDLE when there are none.
Emit(b, x) ==
    LET c == bc_add_cmd(b, Opcode(x.op))
    IN  CASE x.op \in WithToken -> bc_add_token(c, x.name)
          [] x.op \in WithString -> bc_add_string(c, x.name)
          [] x.op = "AS_DOUBLE" -> bc_add_double(c, x.name)
          [] x.op = "REVERSE_STACK" -> bc_add_cmd(c, x.n)
          [] x.op = "XCALL" -> EmitXCall(c, x)
          [] OTHER -> c

bc_ready(b) == [bytes |-> Append(b.bytes, 0), length |-> Len(b.bytes) + 1]

-----------------------------------------------------------------------------
(* Reading, at a position counted from zero.                                *)

At(bytes, p) == bytes[p + 1]
Chars(bytes, p, size) == [i \in 1 .. size |-> Alphabet[At(bytes, p + i - 1) - 96]]
\* The bytes of a double, as the digits it was made of.
DigitsAt(bytes, p) ==
    [d \in {i \in 1 .. DoubleSize : At(bytes, p + i - 1) # 0} |-> Alphabet[At(bytes, p + d - 1) - 96]]
Size16(bytes, p) == At(bytes, p) + 256 * At(bytes, p + 1)

OpAt(bytes, p) == OpOf(At(bytes, p))

\* An instruction that is executed: what is read, and where bc_pos is left.
Fetch(bytes, p) ==
    LET op == OpAt(bytes, p)
        size == At(bytes, p + 1)
    IN  CASE op \in WithToken ->
                 [x |-> Instr(op, Chars(bytes, p + 2, size), 0), next |-> p + 2 + size]
          [] op \in WithString ->
                 LET size16 == Size16(bytes, p + 1)
                 IN  [x |-> Instr(op, Chars(bytes, p + 3, size16), 0), next |-> p + 3 + size16]
          [] op = "AS_DOUBLE" ->
                 [x |-> Instr(op, DigitsAt(bytes, p + 1), 0), next |-> p + 1 + DoubleSize]
          [] op = "REVERSE_STACK" -> [x |-> Instr(op, <<>>, size), next |-> p + 2]
          [] op = "XCALL" ->
                 LET size2 == At(bytes, p + 2 + size)
                     argc == p + 3 + size + size2
                 IN  [x |-> Instr(op, <<Chars(bytes, p + 2, size), Chars(bytes, p + 3 + size, size2)>>,
                                  At(bytes, argc)),
                      next |-> argc + 1]
          [] OTHER -> [x |-> Instr(op, <<>>, 0), next |-> p + 1]

\* Seeded fault: passing over a call of a cocoon forgets its count.
PassXCallUncounted(bytes, p) ==
    LET size == At(bytes, p + 1) IN p + 3 + size + At(bytes, p + 2 + size)

PassXCall(bytes, p) ==
    LET size == At(bytes, p + 1) IN p + 3 + size + At(bytes, p + 2 + size) + 1

\* An instruction that is passed over (skip_mode).
PassOver(bytes, p) ==
    IF IsSkippable(At(bytes, p)) THEN p + 1
    ELSE LET op == OpAt(bytes, p)
         IN  CASE op \in WithToken -> p + 2 + At(bytes, p + 1)
               [] op \in WithString -> p + 3 + Size16(bytes, p + 1)
               [] op = "AS_DOUBLE" -> p + 1 + DoubleSize
               [] op = "REVERSE_STACK" -> p + 2
               [] op = "XCALL" -> PassXCall(bytes, p)
               [] OTHER -> p + 1

\* Defining a block overwrites the definition: the opcode, the size and all
\* of the name but its last character with IDLE, that one with SKIP.
Overwrite(bytes, from, to) ==
    [i \in DOMAIN bytes |->
        IF i - 1 \in from .. to - 2 THEN Opcode("IDLE")
        ELSE IF i = to THEN Opcode("SKIP") ELSE bytes[i]]
=============================================================================

------------------------------ MODULE Emission ------------------------------
(***************************************************************************)
(* The byte-code from the compiler to the interpreter: larva_digest and    *)
(* the parser hand instructions to the bc_add_ calls one by one, bc_ready  *)
(* closes the buffer (core/bytecode.c), and larva_silk reads it: every     *)
(* instruction once executed, with definitions overwritten, and once       *)
(* passed over.                                                            *)
(*                                                                         *)
(* Which instructions a text stands for is left open here; Compiler says   *)
(* it, and implements this module's specification.                         *)
(***************************************************************************)
EXTENDS Bytecode

VARIABLES
    stage,              \* "chew", "init", "digest", "declare", "fetch", "pass", "done",
                        \* "error" (larva_error) or "undefined"
    pending,            \* instructions the statement being read has still to emit
    bc,                 \* the byte-code buffer
    emitted,            \* history: the instructions emitted so far
    bc_pos, decoded, starts     \* reading it back: position, what was read, where each began

buffer == <<bc, emitted>>
reading == <<bc_pos, decoded, starts>>
emission == <<stage, pending, buffer, reading>>

-----------------------------------------------------------------------------
(* What is emitted: operands that the bytes in front of them can count.     *)

Texts == Seq(ToSet(Alphabet))

Tokens == {t \in Texts : Len(t) < MaxToken}

\* Seeded fault: the buffer's last byte is not kept for the terminating zero.
TooLongByOne(token) == Len(token) > MaxToken

\* larva_read_token refuses a token that does not fit its buffer.
TooLong(token) == Len(token) >= MaxToken

Instructions ==
    [op : WithToken \cup {"AS_STRING"}, name : Tokens, n : {0}]
    \cup [op : {"FROM_JSON"}, name : Texts, n : {0}]
    \cup [op : {"AS_DOUBLE"}, name : {d \in Texts : Len(d) <= DoubleSize}, n : {0}]
    \cup [op : {"REVERSE_STACK"}, name : {<<>>}, n : 0 .. 255]
    \cup [op : {"XCALL"}, name : Tokens \X Tokens, n : 0 .. 255]
    \cup [op : Bare, name : {<<>>}, n : {0}]

-----------------------------------------------------------------------------
Compiling == {"chew", "init", "digest", "declare"}

EmissionInit ==
    /\ stage = "chew" /\ pending = <<>>
    /\ bc = bc_init /\ emitted = <<>>
    /\ bc_pos = 0 /\ decoded = <<>> /\ starts = {}

\* The compiler reads on, or gives up.
ReadStatement ==
    /\ stage \in Compiling /\ pending = <<>>
    /\ stage' \in Compiling \cup {"error", "undefined"}
    /\ stage' # "undefined" => pending' \in Seq(Instructions)
    /\ UNCHANGED <<buffer, reading>>

\* The instructions go to the buffer one after the other.
EmitNext ==
    /\ stage \in {"digest", "declare"} /\ pending # <<>>
    /\ bc' = Emit(bc, Head(pending))
    /\ emitted' = Append(emitted, Head(pending))
    /\ pending' = Tail(pending)
    /\ UNCHANGED <<stage, reading>>

Ready ==
    /\ stage = "digest" /\ pending = <<>>
    /\ stage' = "fetch"
    /\ bc' = bc_ready(bc)
    /\ UNCHANGED <<pending, emitted, reading>>

\* Executing: a block's definition is overwritten when it is executed.
FetchNext ==
    /\ stage = "fetch" /\ bc_pos < bc.length
    /\ \E f \in {Fetch(bc.bytes, bc_pos)} : LET defining == f.x.op = "BLOCK_DEF" IN
           /\ decoded' = Append(decoded, f.x)
           /\ starts' = starts \cup (IF defining THEN bc_pos .. f.next - 1 ELSE {bc_pos})
           /\ bc_pos' = f.next
           /\ bc' = IF defining THEN [bc EXCEPT !.bytes = Overwrite(@, bc_pos, f.next)] ELSE bc
    /\ UNCHANGED <<stage, pending, emitted>>

Again ==
    /\ stage = "fetch" /\ bc_pos >= bc.length
    /\ stage' = "pass"
    /\ bc_pos' = 0
    /\ UNCHANGED <<pending, buffer, decoded, starts>>

PassNext ==
    /\ stage = "pass"
    /\ IF bc_pos < bc.length
       THEN bc_pos' = PassOver(bc.bytes, bc_pos) /\ UNCHANGED stage
       ELSE stage' = "done" /\ UNCHANGED bc_pos
    /\ UNCHANGED <<pending, buffer, decoded, starts>>

EmissionNext == ReadStatement \/ EmitNext \/ Ready \/ FetchNext \/ Again \/ PassNext

EmissionSpec == EmissionInit /\ [][EmissionNext]_emission

-----------------------------------------------------------------------------
(* Properties.                                                              *)

\* Every bc_add_ call finds or makes the room it stores into.
BufferFits == Len(bc.bytes) <= bc.length

\* One growth of the buffer is enough for any literal still to be emitted: a
\* JSON literal, whose length the compiler does not limit, is the only one that
\* can be longer (bytecode.c:48 grows once, by BC_GROW_SIZE).
ShortLiterals ==
    stage \in {"digest", "declare"} =>
        \A n \in DOMAIN pending : pending[n].op = "FROM_JSON" => Len(pending[n].name) + 2 <= BcGrow

\* The two bytes in front of a literal can count it.
Counted(x) == x.op = "FROM_JSON" => Len(x.name) < 65536

\* What larva_silk fetches, one instruction behind the other, are the
\* instructions that were emitted, in their order and with their operands,
\* however many there are; the last is the zero byte that bc_ready adds.  Only a
\* literal whose length does not fit 16 bits is cut.
ReadBack ==
    stage \in {"pass", "done"} =>
        /\ Len(decoded) = Len(emitted) + 1
        /\ \A n \in 1 .. Len(emitted) : Counted(emitted[n]) => decoded[n] = emitted[n]
        /\ decoded[Len(decoded)] = Instr("IDLE", <<>>, 0)

\* Code that is passed over is left exactly where it would be left when it is
\* executed, before and after definitions have been overwritten: bc_pos never
\* stands inside an instruction.
OnBoundary == stage = "pass" => bc_pos \in starts \cup {bc.length}
=============================================================================

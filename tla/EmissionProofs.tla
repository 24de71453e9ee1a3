--------------------------- MODULE EmissionProofs ---------------------------
(***************************************************************************)
(* Proofs about Emission, for every alphabet, every size of the buffer and *)
(* every sequence of instructions.                                         *)
(***************************************************************************)
EXTENDS Emission, TLAPS

-----------------------------------------------------------------------------
(* Opcodes.                                                                 *)

Ops == UNION {ToSet(r.ops) : r \in Opcodes}

\* Each run of opcodes is a sequence of names, and no byte belongs to two runs.
LEMMA RunsDisjoint ==
    /\ \A r \in Opcodes : r.first \in Nat /\ Len(r.ops) \in Nat /\ DOMAIN r.ops = 1 .. Len(r.ops)
    /\ \A r, s \in Opcodes : \A byte \in Nat :
         byte \in r.first .. r.first + Len(r.ops) - 1 /\ byte \in s.first .. s.first + Len(s.ops) - 1 => r = s
  BY DEF Opcodes, Numbered

\* The byte that stands for an opcode is read as that opcode.
LEMMA OpcodeInverse ==
    ASSUME NEW op \in Ops
    PROVE  Opcode(op) \in Nat /\ OpOf(Opcode(op)) = op
<1> DEFINE run == CHOOSE r \in Opcodes : op \in ToSet(r.ops)
           i == CHOOSE j \in DOMAIN run.ops : run.ops[j] = op
           byte == run.first - 1 + i
<1>1. run \in Opcodes /\ op \in ToSet(run.ops)
  BY DEF Ops
<1>2. i \in DOMAIN run.ops /\ run.ops[i] = op
  BY <1>1 DEF ToSet
<1> HIDE DEF run, i
<1>3. byte \in Nat /\ byte \in run.first .. run.first + Len(run.ops) - 1
  BY <1>1, <1>2, RunsDisjoint
<1>4. {r \in Opcodes : byte \in r.first .. r.first + Len(r.ops) - 1} = {run}
  BY <1>1, <1>3, RunsDisjoint
<1>5. Opcode(op) = byte
  BY DEF Opcode, run, i
<1>6. OpOf(byte) = run.ops[byte - run.first + 1]
  BY <1>4 DEF OpOf
<1>7. byte - run.first + 1 = i
  BY <1>1, <1>2, RunsDisjoint
<1> QED
  BY <1>2, <1>3, <1>5, <1>6, <1>7

\* Bytes that IsSkippable accepts stand for no opcode with operands, so that
\* passing over one byte passes over the instruction.
LEMMA SkippableBare ==
    ASSUME NEW byte \in Nat, byte >= 32
    PROVE  OpOf(byte) \notin WithOperand
<1> DEFINE runs == {r \in Opcodes : byte \in r.first .. r.first + Len(r.ops) - 1}
           run == CHOOSE r \in runs : TRUE
<1>1. CASE runs = {}
  BY <1>1 DEF OpOf, WithOperand, WithToken, WithString
<1>2. CASE runs # {}
  <2>1. run \in runs
    BY <1>2
  <2> HIDE DEF run
  <2>2. OpOf(byte) = run.ops[byte - run.first + 1]
    BY <1>2 DEF OpOf, run
  <2>3. run \in Opcodes /\ run.first # 0
    <3>1. \A r \in Opcodes : r.first = 0 => Len(r.ops) = 18
      BY DEF Opcodes, Numbered
    <3>2. run \in Opcodes /\ byte \in run.first .. run.first + Len(run.ops) - 1
      BY <2>1
    <3>3. CASE run.first = 0
      <4>1. byte \in 0 .. 0 + 18 - 1
        BY <3>1, <3>2, <3>3
      <4> QED
        BY <4>1
    <3> QED
      BY <3>2, <3>3
  <2>4. byte - run.first + 1 \in DOMAIN run.ops
    BY <2>1, RunsDisjoint
  <2>5. \A r \in Opcodes : r.first # 0 => \A j \in DOMAIN r.ops : r.ops[j] \notin WithOperand
    BY DEF Opcodes, Numbered, WithOperand, WithToken, WithString
  <2> QED
    BY <2>2, <2>3, <2>4, <2>5
<1> QED
  BY <1>1, <1>2

-----------------------------------------------------------------------------
(* Reading.                                                                 *)

\* Code that is passed over is left where it would be left when executed: for
\* every sequence of bytes and every position in it, the two readings of
\* larva_silk agree.
THEOREM PassAsFetch ==
    ASSUME NEW bytes \in Seq(Nat), NEW p \in 0 .. Len(bytes) - 1
    PROVE  PassOver(bytes, p) = Fetch(bytes, p).next
<1>1. At(bytes, p) \in Nat
  BY DEF At
<1>2. CASE IsSkippable(At(bytes, p))
  <2>1. OpAt(bytes, p) \notin WithOperand
    BY <1>1, <1>2, SkippableBare DEF OpAt, IsSkippable
  <2> QED
    BY <1>2, <2>1 DEF PassOver, Fetch, WithOperand
<1>3. CASE ~IsSkippable(At(bytes, p))
  <2>1. CASE OpAt(bytes, p) \in WithToken
    BY <1>3, <2>1 DEF PassOver, Fetch, WithToken, WithString
  <2>2. CASE OpAt(bytes, p) \in WithString
    BY <1>3, <2>2 DEF PassOver, Fetch, WithToken, WithString
  <2>3. CASE OpAt(bytes, p) = "AS_DOUBLE"
    BY <1>3, <2>3 DEF PassOver, Fetch, WithToken, WithString
  <2>4. CASE OpAt(bytes, p) = "REVERSE_STACK"
    BY <1>3, <2>4 DEF PassOver, Fetch, WithToken, WithString
  <2>5. CASE OpAt(bytes, p) = "XCALL"
    BY <1>3, <2>5 DEF PassOver, Fetch, PassXCall, WithToken, WithString
  <2>6. CASE OpAt(bytes, p) \notin WithOperand
    BY <1>3, <2>6 DEF PassOver, Fetch, WithOperand
  <2> QED
    BY <2>1, <2>2, <2>3, <2>4, <2>5, <2>6 DEF WithOperand
<1> QED
  BY <1>2, <1>3

\* The instruction at p ends before q, and so do the bytes that count its
\* operands.
Inside(bytes, p, q) ==
    /\ q \in p + 1 .. Len(bytes)
    /\ Fetch(bytes, p).next = q
    /\ OpAt(bytes, p) \in WithOperand \ {"AS_DOUBLE"} => p + 2 <= q
    /\ OpAt(bytes, p) \in WithString => p + 3 <= q
    /\ OpAt(bytes, p) = "XCALL" => p + 3 + At(bytes, p + 1) <= q

\* What Chars reads depends on the bytes it reads.
LEMMA CharsLocal ==
    ASSUME NEW bytes, NEW other, NEW p \in Nat, NEW size \in Nat,
           \A i \in p + 1 .. p + size : other[i] = bytes[i]
    PROVE  Chars(other, p, size) = Chars(bytes, p, size)
<1>1. \A i \in 1 .. size : At(other, p + i - 1) = At(bytes, p + i - 1)
  <2> TAKE i \in 1 .. size
  <2>1. p + i - 1 + 1 \in p + 1 .. p + size
    OBVIOUS
  <2> QED
    BY <2>1 DEF At
<1> QED
  BY <1>1 DEF Chars

\* An instruction is read from its own bytes alone: two codes that agree from
\* its first byte to its last give the same instruction.
LEMMA FetchLocal ==
    ASSUME NEW bytes \in Seq(Nat), NEW other \in Seq(Nat), NEW p \in Nat, NEW q \in Nat,
           Inside(bytes, p, q), q <= Len(other),
           \A i \in p + 1 .. q : other[i] = bytes[i]
    PROVE  Inside(other, p, q) /\ Fetch(other, p) = Fetch(bytes, p)
<1> DEFINE op == OpAt(bytes, p)
           size == At(bytes, p + 1)
<1>1. q \in p + 1 .. Len(bytes) /\ Fetch(bytes, p).next = q
  BY DEF Inside
<1>2. OpAt(other, p) = op
  BY <1>1 DEF OpAt, At
<1>3. op \in WithOperand \ {"AS_DOUBLE"} => /\ p + 2 <= q /\ size \in Nat /\ At(other, p + 1) = size
  BY <1>1 DEF Inside, At
<1>4. SUFFICES Fetch(other, p) = Fetch(bytes, p)
  BY <1>1, <1>2, <1>3, <1>4 DEF Inside, WithOperand
<1>5. CASE op \in WithToken
  <2>1. q = p + 2 + size
    BY <1>1, <1>5 DEF Fetch, WithToken, WithString
  <2>2. size \in Nat /\ At(other, p + 1) = size
    BY <1>3, <1>5 DEF WithOperand, WithToken
  <2> HIDE DEF size
  <2>3. Chars(other, p + 2, size) = Chars(bytes, p + 2, size)
    BY <2>1, <2>2, CharsLocal
  <2> QED
    BY <1>2, <1>5, <2>2, <2>3 DEF Fetch, size, WithToken, WithString
<1>6. CASE op \in WithString
  <2> DEFINE size16 == Size16(bytes, p + 1)
  <2>1. p + 3 <= q
    BY <1>6 DEF Inside
  <2>2. size16 \in Nat /\ Size16(other, p + 1) = size16
    <3>1. /\ At(bytes, p + 1) \in Nat /\ At(other, p + 1) = At(bytes, p + 1)
          /\ At(bytes, p + 1 + 1) \in Nat /\ At(other, p + 1 + 1) = At(bytes, p + 1 + 1)
      BY <1>1, <2>1 DEF At
    <3> QED
      BY <3>1 DEF Size16
  <2>3. q = p + 3 + size16
    BY <1>1, <1>6 DEF Fetch, WithToken, WithString
  <2> HIDE DEF size16
  <2>4. Chars(other, p + 3, size16) = Chars(bytes, p + 3, size16)
    BY <2>2, <2>3, CharsLocal
  <2> QED
    BY <1>2, <1>6, <2>2, <2>4 DEF Fetch, size16, WithToken, WithString
<1>7. CASE op = "AS_DOUBLE"
  <2>1. q = p + 1 + DoubleSize
    BY <1>1, <1>7 DEF Fetch, WithToken, WithString
  <2>2. \A d \in 1 .. DoubleSize : At(other, p + 1 + d - 1) = At(bytes, p + 1 + d - 1)
    BY <1>1, <2>1, BytecodeAssumption DEF At
  <2>3. DigitsAt(other, p + 1) = DigitsAt(bytes, p + 1)
    BY <2>2 DEF DigitsAt
  <2> QED
    BY <1>2, <1>7, <2>3 DEF Fetch, WithToken, WithString
<1>8. CASE op = "REVERSE_STACK"
  BY <1>2, <1>3, <1>8 DEF Fetch, WithToken, WithString, WithOperand
<1>9. CASE op = "XCALL"
  <2> DEFINE size2 == At(bytes, p + 2 + size)
  <2>1. size \in Nat /\ At(other, p + 1) = size /\ p + 3 + size <= q
    BY <1>3, <1>9 DEF Inside, WithOperand
  <2> HIDE DEF size
  <2>2. size2 \in Nat /\ At(other, p + 2 + size) = size2
    BY <1>1, <2>1 DEF At
  <2>3. q = p + 3 + size + size2 + 1
    BY <1>1, <1>9 DEF Fetch, size, WithToken, WithString
  <2> HIDE DEF size2
  <2>4. Chars(other, p + 2, size) = Chars(bytes, p + 2, size)
    BY <2>1, <2>2, <2>3, CharsLocal
  <2>5. Chars(other, p + 3 + size, size2) = Chars(bytes, p + 3 + size, size2)
    BY <2>1, <2>2, <2>3, CharsLocal
  <2>6. At(other, p + 3 + size + size2) = At(bytes, p + 3 + size + size2)
    BY <1>1, <2>1, <2>2, <2>3 DEF At
  <2> QED
    BY <1>2, <1>9, <2>1, <2>2, <2>4, <2>5, <2>6 DEF Fetch, size, size2, WithToken, WithString
<1>10. CASE op \notin WithOperand
  BY <1>2, <1>10 DEF Fetch, WithOperand
<1> QED
  BY <1>5, <1>6, <1>7, <1>8, <1>9, <1>10 DEF WithOperand

-----------------------------------------------------------------------------
(* Writing.                                                                 *)

Buffers == [bytes : Seq(Nat), length : Nat]

\* The buffer holds what was stored, and is no smaller than bc_init made it.
Fits(b) == Len(b.bytes) <= b.length /\ BcInitial <= b.length

\* t begins with s.
Agree(s, t) == Len(s) <= Len(t) /\ \A i \in 1 .. Len(s) : t[i] = s[i]

\* Asking for room makes room: the buffer grows at most once, which is enough
\* for anything that is not longer than BC_GROW_SIZE.
LEMMA RoomMade ==
    ASSUME NEW b \in Buffers, NEW size \in Nat
    PROVE  /\ Roomy(b, size) \in Buffers /\ Roomy(b, size).bytes = b.bytes
           /\ Fits(b) /\ size <= BcGrow =>
                /\ BcInitial <= Roomy(b, size).length
                /\ Len(b.bytes) + size <= Roomy(b, size).length
                /\ Len(b.bytes) < Roomy(b, size).length
<1>1. BcGrow \in Nat \ {0} /\ BcInitial \in Nat /\ BcGrow <= BcInitial
  BY BytecodeAssumption
<1>2. b.bytes \in Seq(Nat) /\ b.length \in Nat /\ Len(b.bytes) \in Nat
  BY DEF Buffers
<1>3. CASE b.length >= size /\ Len(b.bytes) >= b.length - size
  <2>1. Roomy(b, size) = [b EXCEPT !.length = @ + BcGrow]
    BY <1>3 DEF Roomy, bc_grow
  <2>2. Roomy(b, size).bytes = b.bytes /\ Roomy(b, size).length = b.length + BcGrow
    BY <2>1 DEF Buffers
  <2>3. Roomy(b, size) \in Buffers
    BY <1>1, <1>2, <2>1 DEF Buffers
  <2>4. PICK n, length \in Nat : n = Len(b.bytes) /\ length = b.length
    BY <1>2
  <2>5. BcInitial <= length /\ n <= length /\ size <= BcGrow =>
          BcInitial <= length + BcGrow /\ n + size <= length + BcGrow /\ n < length + BcGrow
    BY <1>1
  <2> QED
    BY <2>2, <2>3, <2>4, <2>5 DEF Fits
<1>4. CASE ~(b.length >= size /\ Len(b.bytes) >= b.length - size)
  <2>1. Roomy(b, size) = b
    BY <1>4 DEF Roomy
  <2> QED
    BY <1>1, <1>2, <1>4, <2>1 DEF Fits
<1> QED
  BY <1>3, <1>4

\* Storing appends, and keeps everything before.
LEMMA Stored ==
    ASSUME NEW b \in Buffers, NEW t \in Seq(Nat)
    PROVE  /\ Store(b, t) \in Buffers /\ Store(b, t).length = b.length
           /\ Len(Store(b, t).bytes) = Len(b.bytes) + Len(t)
           /\ Agree(b.bytes, Store(b, t).bytes)
           /\ \A i \in 1 .. Len(t) : At(Store(b, t).bytes, Len(b.bytes) + i - 1) = t[i]
<1>1. b.bytes \in Seq(Nat) /\ Len(b.bytes) \in Nat /\ Len(t) \in Nat
  BY DEF Buffers
<1>2. Store(b, t) = [b EXCEPT !.bytes = b.bytes \o t]
  BY DEF Store
<1>3. Store(b, t).bytes = b.bytes \o t /\ Store(b, t).length = b.length /\ Store(b, t) \in Buffers
  <2>1. PICK u : u = b.bytes \o t
    OBVIOUS
  <2>2. u \in Seq(Nat)
    BY <1>1, <2>1
  <2> QED
    BY <1>2, <2>1, <2>2 DEF Buffers
<1>4. \A i \in 1 .. Len(t) : At(b.bytes \o t, Len(b.bytes) + i - 1) = t[i]
  <2> TAKE i \in 1 .. Len(t)
  <2>1. Len(b.bytes) + i - 1 + 1 = Len(b.bytes) + i
    BY <1>1
  <2> QED
    BY <1>1, <2>1 DEF At
<1>5. Len(b.bytes \o t) = Len(b.bytes) + Len(t) /\ Agree(b.bytes, b.bytes \o t)
  BY <1>1 DEF Agree
<1> QED
  BY <1>3, <1>4, <1>5

\* The bytes of a text of the alphabet are its cells', and no byte is zero.
LEMMA BytesOfText ==
    ASSUME NEW cs \in Texts
    PROVE  /\ Bytes(cs) \in Seq(Nat) /\ Len(Bytes(cs)) = Len(cs)
           /\ \A i \in 1 .. Len(cs) : Bytes(cs)[i] # 0 /\ Alphabet[Bytes(cs)[i] - 96] = cs[i]
<1>1. cs \in Seq(ToSet(Alphabet)) /\ Alphabet \in Seq(STRING)
  BY BytecodeAssumption DEF Texts
<1>2. \A c \in ToSet(Alphabet) : Byte(c) \in Nat /\ Byte(c) # 0 /\ Alphabet[Byte(c) - 96] = c
  <2> TAKE c \in ToSet(Alphabet)
  <2> DEFINE k == CHOOSE i \in DOMAIN Alphabet : Alphabet[i] = c
  <2>1. k \in DOMAIN Alphabet /\ Alphabet[k] = c
    BY DEF ToSet
  <2>2. k \in Nat
    BY <1>1, <2>1
  <2>3. Byte(c) = 96 + k
    BY DEF Byte
  <2> HIDE DEF k
  <2>4. 96 + k - 96 = k
    BY <2>2
  <2> QED
    BY <2>1, <2>2, <2>3, <2>4
<1>3. DOMAIN cs = 1 .. Len(cs) /\ \A i \in 1 .. Len(cs) : cs[i] \in ToSet(Alphabet)
  BY <1>1
<1> QED
  BY <1>1, <1>2, <1>3 DEF Bytes

\* c is b with size more bytes.
Grown(b, c, size) ==
    c \in Buffers /\ Len(c.bytes) = Len(b.bytes) + size /\ Agree(b.bytes, c.bytes)

\* What every bc_add_ call does: it asks for room and stores.
LEMMA Added ==
    ASSUME NEW b \in Buffers, NEW size \in Nat, NEW t \in Seq(Nat), NEW c, c = Store(Roomy(b, size), t)
    PROVE  /\ Grown(b, c, Len(t))
           /\ \A i \in 1 .. Len(t) : At(c.bytes, Len(b.bytes) + i - 1) = t[i]
           /\ Fits(b) /\ size <= BcGrow /\ Len(t) <= (IF size = 0 THEN 1 ELSE size) => Fits(c)
<1>1. PICK r \in Buffers :
        /\ r = Roomy(b, size) /\ r.bytes = b.bytes
        /\ Fits(b) /\ size <= BcGrow =>
             BcInitial <= r.length /\ Len(b.bytes) + size <= r.length /\ Len(b.bytes) < r.length
  BY RoomMade
<1>2. /\ c \in Buffers /\ c.length = r.length
      /\ Len(c.bytes) = Len(r.bytes) + Len(t)
      /\ Agree(r.bytes, c.bytes)
      /\ \A i \in 1 .. Len(t) : At(c.bytes, Len(r.bytes) + i - 1) = t[i]
  BY <1>1, Stored
<1>3. Len(b.bytes) \in Nat /\ Len(t) \in Nat /\ r.length \in Nat
  BY DEF Buffers
<1> QED
  BY <1>1, <1>2, <1>3 DEF Grown, Fits

\* bc_add_cmd: one byte.
LEMMA AddCmd ==
    ASSUME NEW b \in Buffers, NEW cmd \in Nat, NEW c, c = bc_add_cmd(b, cmd)
    PROVE  /\ Grown(b, c, 1) /\ At(c.bytes, Len(b.bytes)) = cmd
           /\ Fits(b) => Fits(c)
<1>0. <<cmd>> \in Seq(Nat) /\ Len(<<cmd>>) = 1 /\ <<cmd>>[1] = cmd
  OBVIOUS
<1>1. PICK t \in Seq(Nat) : t = <<cmd>> /\ Len(t) = 1 /\ t[1] = cmd
  BY <1>0, Zenon
<1>2. c = Store(Roomy(b, 0), t) /\ 0 <= BcGrow
  BY <1>1, BytecodeAssumption DEF bc_add_cmd
<1>3. /\ Grown(b, c, Len(t)) /\ \A i \in 1 .. Len(t) : At(c.bytes, Len(b.bytes) + i - 1) = t[i]
      /\ Fits(b) /\ Len(t) <= 1 => Fits(c)
  BY <1>2, Added
<1>4. Len(b.bytes) + 1 - 1 = Len(b.bytes)
  BY DEF Buffers
<1> QED
  BY <1>1, <1>3, <1>4

\* bc_add_token: the length and the characters, which are read back.
LEMMA AddToken ==
    ASSUME NEW b \in Buffers, NEW token \in Tokens, NEW c, c = bc_add_token(b, token)
    PROVE  /\ Len(token) \in Nat
           /\ Grown(b, c, 1 + Len(token)) /\ At(c.bytes, Len(b.bytes)) = Len(token)
           /\ Chars(c.bytes, Len(b.bytes) + 1, Len(token)) = token
           /\ Fits(b) => Fits(c)
<1> DEFINE size == Len(token)
           p == Len(b.bytes)
           t == <<size % 256>> \o Bytes(token)
<1>1. token \in Texts /\ size \in Nat /\ size < MaxToken /\ p \in Nat
  BY DEF Tokens, Texts, Buffers
<1>2. size % 256 = size /\ size + 1 <= BcGrow
  BY <1>1, BytecodeAssumption
<1>3. /\ Bytes(token) \in Seq(Nat) /\ Len(Bytes(token)) = size
      /\ \A i \in 1 .. size : Alphabet[Bytes(token)[i] - 96] = token[i]
  BY <1>1, BytesOfText
<1>4. /\ t \in Seq(Nat) /\ Len(t) = 1 + size /\ t[1] = size
      /\ \A i \in 1 .. size : t[i + 1] = Bytes(token)[i]
  <2>1. PICK u \in Seq(Nat) : u = Bytes(token) /\ Len(u) = size
    BY <1>3
  <2>2. /\ <<size>> \o u \in Seq(Nat) /\ Len(<<size>> \o u) = 1 + size /\ (<<size>> \o u)[1] = size
        /\ \A i \in 1 .. size : (<<size>> \o u)[i + 1] = u[i]
    BY <1>1, <2>1
  <2> QED
    BY <1>2, <2>1, <2>2
<1>5. c = Store(Roomy(b, size + 1), t)
  BY DEF bc_add_token
<1> HIDE DEF t
<1>6. /\ Grown(b, c, 1 + size) /\ (Fits(b) => Fits(c))
      /\ \A i \in 1 .. 1 + size : At(c.bytes, p + i - 1) = t[i]
  BY <1>1, <1>2, <1>4, <1>5, Added
<1>7. At(c.bytes, p) = size
  <2>1. p + 1 - 1 = p /\ 1 \in 1 .. 1 + size
    BY <1>1
  <2> QED
    BY <1>4, <1>6, <2>1
<1>8. \A i \in 1 .. size : Alphabet[At(c.bytes, p + 1 + i - 1) - 96] = token[i]
  <2> TAKE i \in 1 .. size
  <2>1. i + 1 \in 1 .. 1 + size /\ p + (i + 1) - 1 = p + 1 + i - 1
    BY <1>1
  <2> QED
    BY <1>3, <1>4, <1>6, <2>1
<1>9. Chars(c.bytes, p + 1, size) = token
  <2>1. token = [i \in 1 .. size |-> token[i]]
    BY <1>1 DEF Texts
  <2> QED
    BY <1>8, <2>1 DEF Chars
<1> QED
  BY <1>1, <1>6, <1>7, <1>9

\* A text in a code: position p has the first of its bytes.
LEMMA TextAt ==
    ASSUME NEW bytes, NEW p \in Nat, NEW cs \in Texts,
           \A i \in 1 .. Len(cs) : At(bytes, p + i - 1) = Bytes(cs)[i]
    PROVE  Chars(bytes, p, Len(cs)) = cs
<1>1. \A i \in 1 .. Len(cs) : Alphabet[At(bytes, p + i - 1) - 96] = cs[i]
  BY BytesOfText
<1>2. cs = [i \in 1 .. Len(cs) |-> cs[i]]
  BY DEF Texts
<1> QED
  BY <1>1, <1>2 DEF Chars

\* A text with a length of two bytes in front, both of which are read back.
LEMMA AddText ==
    ASSUME NEW b \in Buffers, NEW cs \in Texts, NEW c,
           c = Store(Roomy(b, Len(cs) + 2), Word(Len(cs)) \o Bytes(cs))
    PROVE  /\ Grown(b, c, 2 + Len(cs)) /\ Size16(c.bytes, Len(b.bytes)) = Len(cs)
           /\ Chars(c.bytes, Len(b.bytes) + 2, Len(cs)) = cs
           /\ Fits(b) /\ Len(cs) + 2 <= BcGrow => Fits(c)
<1>1. PICK size \in Nat : size = Len(cs)
  BY DEF Texts
<1>2. PICK p \in Nat : p = Len(b.bytes)
  BY DEF Buffers
<1>3. PICK lo \in Nat : lo = size % 256
  BY <1>1
<1>4. PICK hi \in Nat : hi = size \div 256
  BY <1>1
<1>5. lo + 256 * hi = size
  BY <1>3, <1>4
<1>6. PICK u \in Seq(Nat) : u = Bytes(cs) /\ Len(u) = size
  BY <1>1, BytesOfText
<1>7. PICK t : t = <<lo, hi>> \o u
  OBVIOUS
<1>8. /\ t \in Seq(Nat) /\ Len(t) = 2 + size /\ t[1] = lo /\ t[2] = hi
      /\ \A i \in 1 .. size : t[i + 2] = u[i]
  BY <1>6, <1>7
<1>9. c = Store(Roomy(b, size + 2), t)
  <2>1. Word(size) = <<lo, hi>>
    BY <1>3, <1>4 DEF Word
  <2> QED
    BY <1>1, <1>6, <1>7, <2>1
<1>10. /\ Grown(b, c, 2 + size) /\ (Fits(b) /\ size + 2 <= BcGrow => Fits(c))
       /\ \A i \in 1 .. 2 + size : At(c.bytes, p + i - 1) = t[i]
  <2>1. size + 2 \in Nat /\ size + 2 # 0 /\ Len(t) = size + 2 /\ Len(t) <= size + 2
    BY <1>8
  <2>2. PICK room \in Nat : room = size + 2
    BY <2>1
  <2>3. t \in Seq(Nat) /\ c = Store(Roomy(b, room), t)
    BY <1>8, <1>9, <2>2
  <2>4. /\ Grown(b, c, Len(t)) /\ \A i \in 1 .. Len(t) : At(c.bytes, Len(b.bytes) + i - 1) = t[i]
        /\ Fits(b) /\ room <= BcGrow /\ Len(t) <= (IF room = 0 THEN 1 ELSE room) => Fits(c)
    BY ONLY <2>3, Added, b \in Buffers, room \in Nat
  <2>5. Fits(b) /\ size + 2 <= BcGrow => Fits(c)
    BY <2>1, <2>2, <2>4
  <2>6. Len(t) = 2 + size
    BY <1>8
  <2> QED
    BY <1>2, <2>4, <2>5, <2>6, Zenon
<1>11. Size16(c.bytes, p) = size
  <2>1. p + 1 - 1 = p /\ p + 2 - 1 = p + 1 /\ 1 \in 1 .. 2 + size /\ 2 \in 1 .. 2 + size
    OBVIOUS
  <2>2. At(c.bytes, p) = lo /\ At(c.bytes, p + 1) = hi
    BY <1>8, <1>10, <2>1
  <2> QED
    BY <1>5, <2>2 DEF Size16
<1>12. \A i \in 1 .. size : At(c.bytes, p + 2 + i - 1) = u[i]
  <2> TAKE i \in 1 .. size
  <2>1. i + 2 \in 1 .. 2 + size /\ p + (i + 2) - 1 = p + 2 + i - 1
    OBVIOUS
  <2> QED
    BY <1>8, <1>10, <2>1
<1>13. Chars(c.bytes, p + 2, size) = cs
  <2>1. p + 2 \in Nat /\ \A i \in 1 .. Len(cs) : At(c.bytes, (p + 2) + i - 1) = Bytes(cs)[i]
    <3>1. p + 2 \in Nat
      OBVIOUS
    <3> QED
      BY <1>1, <1>6, <1>12, <3>1, Zenon
  <2>2. Chars(c.bytes, p + 2, Len(cs)) = cs
    BY ONLY <2>1, TextAt, cs \in Texts
  <2> QED
    BY <1>1, <2>2
<1> QED
  BY <1>1, <1>2, <1>10, <1>11, <1>13

\* bc_add_string: the length in two bytes, and as many characters.
LEMMA AddString ==
    ASSUME NEW b \in Buffers, NEW str \in Texts, NEW c, c = bc_add_string(b, str),
           NEW size \in Nat, size = Len(str) % 65536
    PROVE  /\ Grown(b, c, 2 + size) /\ Size16(c.bytes, Len(b.bytes)) = size
           /\ Len(str) < 65536 => Chars(c.bytes, Len(b.bytes) + 2, size) = str
           /\ Fits(b) /\ Len(str) + 2 <= BcGrow => Fits(c)
<1>1. str \in Seq(ToSet(Alphabet)) /\ Len(str) \in Nat
  BY DEF Texts
<1>3. size <= Len(str) /\ (Len(str) < 65536 => size = Len(str))
  BY <1>1
<1> DEFINE cs == SubSeq(str, 1, size)
<1>5. cs \in Texts /\ Len(cs) = size /\ (Len(str) < 65536 => cs = str)
  BY <1>1, <1>3 DEF Texts
<1>6. c = Store(Roomy(b, Len(cs) + 2), Word(Len(cs)) \o Bytes(cs))
  <2>1. bc_add_string(b, str) = Store(Roomy(b, size + 2), Word(size) \o Bytes(cs))
    BY DEF bc_add_string
  <2> HIDE DEF cs
  <2> QED
    BY <1>5, <2>1
<1> HIDE DEF cs
<1>7. /\ Grown(b, c, 2 + size) /\ Size16(c.bytes, Len(b.bytes)) = size
      /\ Chars(c.bytes, Len(b.bytes) + 2, size) = cs
      /\ Fits(b) /\ size + 2 <= BcGrow => Fits(c)
  BY <1>5, <1>6, AddText
<1>8. Len(str) + 2 <= BcGrow => size + 2 <= BcGrow
  BY <1>1, <1>3, BytecodeAssumption
<1> QED
  BY <1>5, <1>7, <1>8

\* bc_add_double: as many bytes as a double has, and its digits are read back.
LEMMA AddDouble ==
    ASSUME NEW b \in Buffers, NEW digits \in Texts, Len(digits) <= DoubleSize,
           NEW c, c = bc_add_double(b, digits)
    PROVE  /\ Grown(b, c, DoubleSize) /\ DigitsAt(c.bytes, Len(b.bytes)) = digits
           /\ Fits(b) => Fits(c)
<1>1. DoubleSize \in Nat \ {0} /\ DoubleSize <= BcGrow
  BY BytecodeAssumption
<1>2. PICK p \in Nat : p = Len(b.bytes)
  BY DEF Buffers
<1>3. PICK n \in Nat : n = Len(digits)
  BY DEF Texts
<1>4. PICK u \in Seq(Nat) :
        /\ u = Bytes(digits) /\ Len(u) = n
        /\ \A i \in 1 .. n : u[i] # 0 /\ Alphabet[u[i] - 96] = digits[i]
  BY <1>3, BytesOfText
<1>5. PICK z : z = [i \in 1 .. DoubleSize - n |-> 0]
  OBVIOUS
<1>6. z \in Seq(Nat) /\ Len(z) = DoubleSize - n /\ \A i \in 1 .. DoubleSize - n : z[i] = 0
  BY <1>1, <1>3, <1>5
<1>7. PICK t : t = u \o z
  OBVIOUS
<1>8. /\ t \in Seq(Nat) /\ Len(t) = DoubleSize
      /\ \A i \in 1 .. n : t[i] = u[i]
      /\ \A i \in n + 1 .. DoubleSize : t[i] = 0
  BY <1>1, <1>3, <1>4, <1>6, <1>7
<1>9. c = Store(Roomy(b, DoubleSize), t)
  BY <1>3, <1>4, <1>5, <1>7 DEF bc_add_double
<1>10. /\ Grown(b, c, DoubleSize) /\ (Fits(b) => Fits(c))
       /\ \A i \in 1 .. DoubleSize : At(c.bytes, p + i - 1) = t[i]
  BY <1>1, <1>2, <1>8, <1>9, Added
<1>11. {i \in 1 .. DoubleSize : At(c.bytes, p + i - 1) # 0} = 1 .. n
  <2>1. \A i \in 1 .. DoubleSize : At(c.bytes, p + i - 1) # 0 <=> i \in 1 .. n
    <3> TAKE i \in 1 .. DoubleSize
    <3>1. CASE i \in 1 .. n
      BY <1>4, <1>8, <1>10, <3>1
    <3>2. CASE i \notin 1 .. n
      <4>1. i \in n + 1 .. DoubleSize
        BY <1>1, <3>2
      <4> QED
        BY <1>8, <1>10, <3>2, <4>1
    <3> QED
      BY <3>1, <3>2
  <2>2. 1 .. n \subseteq 1 .. DoubleSize
    BY <1>1, <1>3
  <2> QED
    BY <2>1, <2>2
<1>12. \A i \in 1 .. n : Alphabet[At(c.bytes, p + i - 1) - 96] = digits[i]
  <2> TAKE i \in 1 .. n
  <2>1. i \in 1 .. DoubleSize
    BY <1>1, <1>3
  <2> QED
    BY <1>4, <1>8, <1>10, <2>1
<1>13. digits = [i \in 1 .. n |-> digits[i]]
  BY <1>3 DEF Texts
<1> QED
  BY <1>2, <1>10, <1>11, <1>12, <1>13 DEF DigitsAt

\* The opcodes with operands have numbers.
LEMMA OperandOps == WithOperand \subseteq Ops
<1> DEFINE run == Numbered(0, <<"IDLE", "VAR", "VARX", "AS_STRING", "AS_DOUBLE", "AS_VAR", "CALL", "BLOCK_DEF",
                   "BLOCK_START", "BLOCK_END", "REVERSE_STACK", "PARAM", "PARAMX", "ACCESS",
                   "FROM_JSON", "XCALL", "SET_ELEM", "ADD_ELEM">>)
<1>1. run \in Opcodes
  BY DEF Opcodes
<1>2. ASSUME NEW op \in WithOperand PROVE \E i \in DOMAIN run.ops : run.ops[i] = op
  BY DEF WithOperand, WithToken, WithString, Numbered
<1>3. ASSUME NEW op \in WithOperand PROVE op \in ToSet(run.ops)
  <2> HIDE DEF run
  <2> QED
    BY <1>2 DEF ToSet
<1> QED
  BY <1>1, <1>3 DEF Ops

\* The forms of an instruction.
LEMMA InstructionForms ==
    ASSUME NEW x \in Instructions
    PROVE  /\ x.op \in Ops
           /\ x = Instr(x.op, x.name, x.n)
           /\ x.op \in WithToken => x.name \in Tokens /\ x.n = 0
           /\ x.op \in WithString => x.name \in Texts /\ x.n = 0
           /\ x.op = "AS_STRING" => x.name \in Tokens
           /\ x.op = "AS_DOUBLE" => x.name \in Texts /\ Len(x.name) <= DoubleSize /\ x.n = 0
           /\ x.op = "REVERSE_STACK" => x.name = <<>> /\ x.n \in Nat
           /\ x.op = "XCALL" =>
                /\ x.name[1] \in Tokens /\ x.name[2] \in Tokens /\ x.name = <<x.name[1], x.name[2]>>
                /\ x.n \in Nat
           /\ x.op \notin WithOperand => x.name = <<>> /\ x.n = 0
<1>1. x.op \in Ops /\ x = Instr(x.op, x.name, x.n)
  <2>1. x.op \in WithOperand \cup Bare /\ x = Instr(x.op, x.name, x.n)
    BY DEF Instructions, WithOperand, WithString, Instr
  <2> QED
    BY <2>1, OperandOps DEF Bare, Ops
<1>2. x.op \notin WithOperand => x.name = <<>> /\ x.n = 0
  BY DEF Instructions, WithOperand, WithString
<1>3. x.op \in WithOperand => x.op \notin Bare
  BY DEF Bare
<1>4. x.op \in WithToken => x.name \in Tokens /\ x.n = 0
  BY <1>3 DEF Instructions, WithOperand, WithString, WithToken
<1>5. x.op \in WithString => x.name \in Texts /\ x.n = 0
  BY <1>3 DEF Instructions, WithOperand, WithString, WithToken, Tokens
<1>6. x.op = "AS_STRING" => x.name \in Tokens
  BY <1>3 DEF Instructions, WithOperand, WithString, WithToken
<1>7. x.op = "AS_DOUBLE" => x.name \in Texts /\ Len(x.name) <= DoubleSize /\ x.n = 0
  BY <1>3 DEF Instructions, WithOperand, WithString, WithToken
<1>8. x.op = "REVERSE_STACK" => x.name = <<>> /\ x.n \in Nat
  <2>1. x.op = "REVERSE_STACK" => x.name = <<>> /\ x.n \in 0 .. 255
    BY <1>3 DEF Instructions, WithOperand, WithString, WithToken
  <2>2. 0 .. 255 \subseteq Nat
    OBVIOUS
  <2> QED
    BY <2>1, <2>2, Zenon
<1>9. x.op = "XCALL" =>
        /\ x.name[1] \in Tokens /\ x.name[2] \in Tokens /\ x.name = <<x.name[1], x.name[2]>>
        /\ x.n \in Nat
  <2>1. x.op = "XCALL" => x.name \in Tokens \X Tokens /\ x.n \in 0 .. 255
    BY <1>3 DEF Instructions, WithOperand, WithString, WithToken
  <2> QED
    BY <2>1
<1> QED
  BY <1>1, <1>2, <1>4, <1>5, <1>6, <1>7, <1>8, <1>9

\* Beginning with is transitive, and a code that goes on is read alike.
LEMMA AgreeTransitive ==
    ASSUME NEW r \in Seq(Nat), NEW s \in Seq(Nat), NEW t \in Seq(Nat), Agree(r, s), Agree(s, t)
    PROVE  Agree(r, t)
<1>1. Len(r) \in Nat /\ Len(s) \in Nat /\ Len(t) \in Nat /\ Len(r) <= Len(s) /\ Len(s) <= Len(t)
  BY DEF Agree
<1>2. ASSUME NEW i \in 1 .. Len(r) PROVE t[i] = r[i]
  <2>1. i \in 1 .. Len(s)
    BY <1>1
  <2> QED
    BY <2>1 DEF Agree
<1> QED
  BY <1>1, <1>2 DEF Agree

\* A byte of s is that byte of every t that begins with s.
LEMMA AgreeAt ==
    ASSUME NEW s \in Seq(Nat), NEW t \in Seq(Nat), Agree(s, t), NEW p \in 0 .. Len(s) - 1
    PROVE  At(t, p) = At(s, p) /\ At(t, p) \in Nat
  BY DEF Agree, At

\* Characters of s are those of every t that begins with s.
LEMMA AgreeChars ==
    ASSUME NEW s \in Seq(Nat), NEW t \in Seq(Nat), Agree(s, t), NEW p \in Nat, NEW size \in Nat, p + size <= Len(s)
    PROVE  Chars(t, p, size) = Chars(s, p, size)
<1>1. \A i \in p + 1 .. p + size : t[i] = s[i]
  BY DEF Agree
<1> QED
  BY <1>1, CharsLocal

\* Emitting an instruction changes nothing before it, and what is read where
\* it begins is that instruction, up to the end of the code.
LEMMA Emitted ==
    ASSUME NEW b \in Buffers, NEW x \in Instructions, NEW d, d = Emit(b, x)
    PROVE  /\ d \in Buffers /\ Agree(b.bytes, d.bytes)
           /\ Inside(d.bytes, Len(b.bytes), Len(d.bytes))
           /\ Counted(x) => Fetch(d.bytes, Len(b.bytes)).x = x
           /\ Fits(b) /\ (x.op = "FROM_JSON" => Len(x.name) + 2 <= BcGrow) => Fits(d)
<1>1. PICK p \in Nat : p = Len(b.bytes)
  BY DEF Buffers
<1>2. PICK c : c = bc_add_cmd(b, Opcode(x.op))
  OBVIOUS
<1>3. /\ Opcode(x.op) \in Nat /\ OpOf(Opcode(x.op)) = x.op
      /\ x = Instr(x.op, x.name, x.n)
  BY InstructionForms, OpcodeInverse
<1>4. /\ Grown(b, c, 1) /\ At(c.bytes, p) = Opcode(x.op)
      /\ Fits(b) => Fits(c)
  BY <1>1, <1>2, <1>3, AddCmd
<1>5. /\ b.bytes \in Seq(Nat) /\ c \in Buffers /\ c.bytes \in Seq(Nat) /\ Len(c.bytes) = p + 1
      /\ Agree(b.bytes, c.bytes)
  BY <1>1, <1>4 DEF Grown, Buffers
\* Whatever follows the opcode, the opcode is read.
<1>6. ASSUME d \in Buffers, Agree(c.bytes, d.bytes)
      PROVE  /\ OpAt(d.bytes, p) = x.op /\ Agree(b.bytes, d.bytes)
             /\ d.bytes \in Seq(Nat) /\ Len(d.bytes) \in Nat /\ p + 1 <= Len(d.bytes)
  <2>1. d.bytes \in Seq(Nat)
    BY <1>6 DEF Buffers
  <2>2. p \in 0 .. Len(c.bytes) - 1
    BY <1>5
  <2>3. At(d.bytes, p) = At(c.bytes, p)
    BY <1>5, <1>6, <2>1, <2>2, AgreeAt
  <2>4. Agree(b.bytes, d.bytes)
    BY <1>5, <1>6, <2>1, AgreeTransitive
  <2> QED
    BY <1>3, <1>4, <1>5, <1>6, <2>1, <2>3, <2>4 DEF OpAt, Agree
<1>7. CASE x.op \in WithToken
  <2>1. d = bc_add_token(c, x.name) /\ x.name \in Tokens /\ x.n = 0 /\ x.op # "FROM_JSON"
    BY <1>2, <1>7, InstructionForms DEF Emit, WithToken, WithString
  <2>2. PICK size \in Nat :
          /\ size = Len(x.name)
          /\ Grown(c, d, 1 + size) /\ At(d.bytes, p + 1) = size
          /\ Chars(d.bytes, p + 1 + 1, size) = x.name
          /\ Fits(c) => Fits(d)
    <3>1. PICK token \in Tokens : token = x.name
      BY <2>1
    <3>2. d = bc_add_token(c, token)
      BY <2>1, <3>1
    <3>3. /\ Len(token) \in Nat
          /\ Grown(c, d, 1 + Len(token)) /\ At(d.bytes, Len(c.bytes)) = Len(token)
          /\ Chars(d.bytes, Len(c.bytes) + 1, Len(token)) = token
          /\ Fits(c) => Fits(d)
      BY <1>5, <3>2, AddToken
    <3> QED
      BY <1>5, <3>1, <3>3
  <2>3. Len(d.bytes) = p + 2 + size /\ d \in Buffers /\ Agree(c.bytes, d.bytes) /\ p + 1 + 1 = p + 2
    <3>1. Len(d.bytes) = Len(c.bytes) + (1 + size) /\ d \in Buffers /\ Agree(c.bytes, d.bytes)
      BY <2>2 DEF Grown
    <3> QED
      BY <1>5, <3>1
  <2>4. Fetch(d.bytes, p) = [x |-> Instr(x.op, x.name, 0), next |-> p + 2 + size]
    BY <1>6, <1>7, <2>2, <2>3 DEF Fetch, WithToken, WithString
  <2> QED
    <3>1. /\ OpAt(d.bytes, p) = x.op /\ Agree(b.bytes, d.bytes) /\ x.op \notin WithString /\ x.op # "XCALL"
      BY <1>6, <1>7, <2>3 DEF WithToken, WithString
    <3>2. Inside(d.bytes, p, Len(d.bytes))
      BY <2>3, <2>4, <3>1 DEF Inside
    <3>3. Fetch(d.bytes, p).x = x
      BY <1>3, <2>1, <2>4
    <3> QED
      BY <1>1, <1>4, <2>2, <2>3, <3>1, <3>2, <3>3
<1>8. CASE x.op \in WithString
  <2>1. d = bc_add_string(c, x.name) /\ x.name \in Texts /\ x.n = 0 /\ Len(x.name) \in Nat
    BY <1>2, <1>8, InstructionForms DEF Emit, WithToken, WithString, Texts
  <2>2. PICK size \in Nat :
          /\ Grown(c, d, 2 + size) /\ Size16(d.bytes, p + 1) = size
          /\ Len(x.name) < 65536 => Chars(d.bytes, p + 1 + 2, size) = x.name
          /\ Fits(c) /\ Len(x.name) + 2 <= BcGrow => Fits(d)
    <3>1. PICK str \in Texts : str = x.name
      BY <2>1
    <3>2. d = bc_add_string(c, str)
      BY <2>1, <3>1
    <3>3. PICK size \in Nat : size = Len(str) % 65536
      BY DEF Texts
    <3>4. /\ Grown(c, d, 2 + size) /\ Size16(d.bytes, Len(c.bytes)) = size
          /\ Len(str) < 65536 => Chars(d.bytes, Len(c.bytes) + 2, size) = str
          /\ Fits(c) /\ Len(str) + 2 <= BcGrow => Fits(d)
      BY <1>5, <3>2, <3>3, AddString
    <3> QED
      BY <1>5, <3>1, <3>4
  <2>3. Len(d.bytes) = p + 3 + size /\ d \in Buffers /\ Agree(c.bytes, d.bytes) /\ p + 1 + 2 = p + 3
    <3>1. Len(d.bytes) = Len(c.bytes) + (2 + size) /\ d \in Buffers /\ Agree(c.bytes, d.bytes)
      BY <2>2 DEF Grown
    <3> QED
      BY <1>5, <3>1
  <2>4. /\ OpAt(d.bytes, p) = x.op /\ Agree(b.bytes, d.bytes) /\ x.op # "XCALL"
    BY <1>6, <1>8, <2>3 DEF WithString
  <2>5. Fetch(d.bytes, p) = [x |-> Instr(x.op, Chars(d.bytes, p + 3, size), 0), next |-> p + 3 + size]
    BY <1>8, <2>2, <2>4 DEF Fetch, WithToken, WithString
  <2>6. Inside(d.bytes, p, Len(d.bytes))
    BY <2>3, <2>4, <2>5 DEF Inside
  \* A text between quotes has been in the token buffer, only a JSON literal has not.
  <2>7. x.op = "AS_STRING" => Len(x.name) < 65536 /\ Len(x.name) + 2 <= BcGrow
    BY <2>1, InstructionForms, BytecodeAssumption DEF Tokens
  <2>8. Counted(x) => Fetch(d.bytes, p).x = x
    BY <1>3, <1>8, <2>1, <2>2, <2>3, <2>5, <2>7 DEF Counted, WithString
  <2>9. Fits(b) /\ (x.op = "FROM_JSON" => Len(x.name) + 2 <= BcGrow) => Fits(d)
    BY <1>4, <1>8, <2>2, <2>7 DEF WithString
  <2> QED
    BY <1>1, <2>3, <2>4, <2>6, <2>8, <2>9
<1>9. CASE x.op = "AS_DOUBLE"
  <2>1. d = bc_add_double(c, x.name) /\ x.name \in Texts /\ Len(x.name) <= DoubleSize /\ x.n = 0
    BY <1>2, <1>9, InstructionForms DEF Emit, WithToken, WithString
  <2>2. Grown(c, d, DoubleSize) /\ DigitsAt(d.bytes, p + 1) = x.name /\ (Fits(c) => Fits(d))
    BY <1>5, <2>1, AddDouble
  <2>3. /\ Len(d.bytes) = p + 1 + DoubleSize /\ d \in Buffers /\ Agree(c.bytes, d.bytes)
        /\ DoubleSize \in Nat
    BY <1>5, <2>2, BytecodeAssumption DEF Grown
  <2>4. OpAt(d.bytes, p) = x.op /\ Agree(b.bytes, d.bytes)
    BY <1>6, <2>3
  <2>5. Fetch(d.bytes, p) = [x |-> Instr(x.op, x.name, 0), next |-> p + 1 + DoubleSize]
    BY <1>9, <2>2, <2>4 DEF Fetch, WithToken, WithString
  <2>6. Inside(d.bytes, p, Len(d.bytes))
    BY <1>9, <2>3, <2>4, <2>5 DEF Inside, WithString
  <2>7. Fetch(d.bytes, p).x = x
    BY <1>3, <2>1, <2>5
  <2> QED
    BY <1>1, <1>4, <2>2, <2>3, <2>4, <2>6, <2>7
<1>10. CASE x.op = "REVERSE_STACK"
  <2>1. d = bc_add_cmd(c, x.n) /\ x.name = <<>> /\ x.n \in Nat
    BY <1>2, <1>10, InstructionForms DEF Emit, WithToken, WithString
  <2>2. Grown(c, d, 1) /\ At(d.bytes, p + 1) = x.n /\ (Fits(c) => Fits(d))
    BY <1>5, <2>1, AddCmd
  <2>3. Len(d.bytes) = p + 2 /\ d \in Buffers /\ Agree(c.bytes, d.bytes)
    BY <1>5, <2>2 DEF Grown
  <2>4. OpAt(d.bytes, p) = x.op /\ Agree(b.bytes, d.bytes)
    BY <1>6, <2>3
  <2>5. Fetch(d.bytes, p) = [x |-> Instr(x.op, <<>>, x.n), next |-> p + 2]
    BY <1>10, <2>2, <2>4 DEF Fetch, WithToken, WithString
  <2>6. Inside(d.bytes, p, Len(d.bytes))
    BY <1>10, <2>3, <2>4, <2>5 DEF Inside, WithString
  <2>7. Fetch(d.bytes, p).x = x
    BY <1>3, <2>1, <2>5
  <2> QED
    BY <1>1, <1>4, <1>10, <2>2, <2>3, <2>4, <2>6, <2>7
<1>11. CASE x.op = "XCALL"
  <2>1. PICK e : e = bc_add_token(c, x.name[1])
    OBVIOUS
  <2>2. PICK f : f = bc_add_token(e, x.name[2])
    OBVIOUS
  <2>3. /\ d = bc_add_cmd(f, x.n) /\ x.n \in Nat
        /\ x.name[1] \in Tokens /\ x.name[2] \in Tokens /\ x.name = <<x.name[1], x.name[2]>>
    BY <1>2, <1>11, <2>1, <2>2, InstructionForms DEF Emit, EmitXCall, WithToken, WithString
  <2>4. PICK size \in Nat :
          /\ Grown(c, e, 1 + size) /\ At(e.bytes, p + 1) = size
          /\ Chars(e.bytes, p + 1 + 1, size) = x.name[1]
          /\ Fits(c) => Fits(e)
    <3>1. PICK token \in Tokens : token = x.name[1]
      BY <2>3
    <3>2. e = bc_add_token(c, token)
      BY <2>1, <3>1
    <3>3. /\ Len(token) \in Nat
          /\ Grown(c, e, 1 + Len(token)) /\ At(e.bytes, Len(c.bytes)) = Len(token)
          /\ Chars(e.bytes, Len(c.bytes) + 1, Len(token)) = token
          /\ Fits(c) => Fits(e)
      BY <1>5, <3>2, AddToken
    <3> QED
      BY <1>5, <3>1, <3>3
  <2>5. Len(e.bytes) = p + 2 + size /\ e \in Buffers /\ e.bytes \in Seq(Nat) /\ Agree(c.bytes, e.bytes)
    <3>1. Len(e.bytes) = Len(c.bytes) + (1 + size) /\ e \in Buffers /\ Agree(c.bytes, e.bytes)
      BY <2>4 DEF Grown
    <3> QED
      BY <1>5, <3>1 DEF Buffers
  <2>6. PICK size2 \in Nat :
          /\ Grown(e, f, 1 + size2) /\ At(f.bytes, p + 2 + size) = size2
          /\ Chars(f.bytes, p + 2 + size + 1, size2) = x.name[2]
          /\ Fits(e) => Fits(f)
    <3>1. PICK token \in Tokens : token = x.name[2]
      BY <2>3
    <3>2. f = bc_add_token(e, token)
      BY <2>2, <3>1
    <3>3. /\ Len(token) \in Nat
          /\ Grown(e, f, 1 + Len(token)) /\ At(f.bytes, Len(e.bytes)) = Len(token)
          /\ Chars(f.bytes, Len(e.bytes) + 1, Len(token)) = token
          /\ Fits(e) => Fits(f)
      BY <2>5, <3>2, AddToken
    <3> QED
      BY <2>5, <3>1, <3>3
  <2>7. Len(f.bytes) = p + 3 + size + size2 /\ f \in Buffers /\ f.bytes \in Seq(Nat) /\ Agree(e.bytes, f.bytes)
    <3>1. Len(f.bytes) = Len(e.bytes) + (1 + size2) /\ f \in Buffers /\ Agree(e.bytes, f.bytes)
      BY <2>6 DEF Grown
    <3> QED
      BY <2>5, <3>1 DEF Buffers
  <2>8. Grown(f, d, 1) /\ At(d.bytes, p + 3 + size + size2) = x.n /\ (Fits(f) => Fits(d))
    BY <2>3, <2>7, AddCmd
  <2>9. /\ Len(d.bytes) = p + 3 + size + size2 + 1 /\ d \in Buffers /\ d.bytes \in Seq(Nat)
        /\ Agree(f.bytes, d.bytes)
    BY <2>7, <2>8 DEF Grown, Buffers
  <2>10. Agree(e.bytes, d.bytes) /\ Agree(c.bytes, d.bytes)
    BY <1>5, <2>5, <2>7, <2>9, AgreeTransitive
  <2>11. OpAt(d.bytes, p) = x.op /\ Agree(b.bytes, d.bytes)
    BY <1>6, <2>9, <2>10
  <2>12. At(d.bytes, p + 1) = size
    <3>1. p + 1 \in 0 .. Len(e.bytes) - 1
      BY <2>5
    <3> QED
      BY <2>4, <2>5, <2>9, <2>10, <3>1, AgreeAt
  <2>13. At(d.bytes, p + 2 + size) = size2
    <3>1. p + 2 + size \in 0 .. Len(f.bytes) - 1
      BY <2>7
    <3> QED
      BY <2>6, <2>7, <2>9, <3>1, AgreeAt
  <2>14. Chars(d.bytes, p + 2, size) = x.name[1]
    <3>1. p + 1 + 1 = p + 2 /\ p + 2 \in Nat /\ (p + 2) + size <= Len(e.bytes)
      BY <2>5
    <3> QED
      BY <2>4, <2>5, <2>9, <2>10, <3>1, AgreeChars
  <2>15. Chars(d.bytes, p + 3 + size, size2) = x.name[2]
    <3>1. p + 2 + size + 1 = p + 3 + size /\ p + 3 + size \in Nat /\ (p + 3 + size) + size2 <= Len(f.bytes)
      BY <2>7
    <3> QED
      BY <2>6, <2>7, <2>9, <3>1, AgreeChars
  <2>16. Fetch(d.bytes, p) = [x |-> Instr(x.op, <<x.name[1], x.name[2]>>, x.n),
                              next |-> p + 3 + size + size2 + 1]
    BY <1>11, <2>8, <2>11, <2>12, <2>13, <2>14, <2>15 DEF Fetch, WithToken, WithString
  <2>17. Inside(d.bytes, p, Len(d.bytes))
    BY <1>11, <2>9, <2>11, <2>12, <2>16 DEF Inside, WithString
  <2>18. Fetch(d.bytes, p).x = x
    BY <1>3, <2>3, <2>16
  <2> QED
    BY <1>1, <1>4, <1>11, <2>4, <2>6, <2>8, <2>9, <2>11, <2>17, <2>18
<1>12. CASE x.op \notin WithOperand
  <2>1. d = c /\ x.name = <<>> /\ x.n = 0
    BY <1>2, <1>12, InstructionForms DEF Emit, WithOperand
  <2>2. Len(d.bytes) = p + 1 /\ d \in Buffers /\ Agree(c.bytes, d.bytes)
    BY <1>5, <2>1 DEF Agree
  <2>3. OpAt(d.bytes, p) = x.op /\ Agree(b.bytes, d.bytes)
    BY <1>6, <2>2
  <2>4. Fetch(d.bytes, p) = [x |-> Instr(x.op, <<>>, 0), next |-> p + 1]
    BY <1>12, <2>3 DEF Fetch, WithOperand
  <2>5. Inside(d.bytes, p, Len(d.bytes))
    BY <1>12, <2>2, <2>3, <2>4 DEF Inside, WithOperand
  <2>6. Fetch(d.bytes, p).x = x
    BY <1>3, <2>1, <2>4
  <2> QED
    BY <1>1, <1>4, <2>1, <2>2, <2>3, <2>5, <2>6
<1> QED
  BY <1>7, <1>8, <1>9, <1>10, <1>11, <1>12 DEF WithOperand

-----------------------------------------------------------------------------
(* The invariant.  A code of many instructions is laid out by a function    *)
(* `at' from their numbers to the positions where they begin.               *)

Layout(bytes, xs, at) ==
    /\ at \in [1 .. Len(xs) + 1 -> Nat]
    /\ at[1] = 0 /\ at[Len(xs) + 1] = Len(bytes)
    /\ \A m, n \in 1 .. Len(xs) + 1 : m < n => at[m] < at[n]

\* From p to q the code holds the instruction x.
Holds(bytes, x, p, q) == Inside(bytes, p, q) /\ (Counted(x) => Fetch(bytes, p).x = x)

\* The instructions from the m-th on are where `at' says.
HoldsFrom(m, bytes, xs, at) ==
    Layout(bytes, xs, at) /\ \A n \in m .. Len(xs) : Holds(bytes, xs[n], at[n], at[n + 1])

\* bc_ready closes the code with a zero byte.
Idle == Instr("IDLE", <<>>, 0)
Whole == Append(emitted, Idle)

\* From every position of a set, passing over the instruction leads to another or to the end.
Linked(from, bytes, end) ==
    \A p \in from : p \in Nat /\ \E q \in from \cup {end} : q \in Nat /\ q <= end /\ Inside(bytes, p, q)

Writing ==
    /\ pending \in Seq(Instructions)
    /\ bc_pos = 0 /\ decoded = <<>> /\ starts = {}
    /\ \E at : HoldsFrom(1, bc.bytes, emitted, at)

Reading ==
    /\ bc.length = Len(bc.bytes)
    /\ \E S : decoded \in Seq(S)
    /\ Len(decoded) <= Len(Whole)
    /\ \A n \in 1 .. Len(decoded) : Counted(Whole[n]) => decoded[n] = Whole[n]
    /\ \E at : bc_pos = at[Len(decoded) + 1] /\ HoldsFrom(Len(decoded) + 1, bc.bytes, Whole, at)
    /\ Linked(starts, bc.bytes, bc_pos) /\ 0 \in starts \cup {bc_pos}

Passing ==
    /\ bc.length = Len(bc.bytes)
    /\ bc_pos \in starts \cup {bc.length}
    /\ Linked(starts, bc.bytes, bc.length)

IInv ==
    /\ bc \in Buffers /\ emitted \in Seq(Instructions)
    /\ stage \in Compiling => Writing
    /\ stage = "fetch" => Reading
    /\ stage = "pass" => Passing
    /\ ReadBack

-----------------------------------------------------------------------------
\* The zero byte at the end is an instruction of its own.
LEMMA IdleInstruction ==
    /\ Idle \in Instructions /\ Counted(Idle)
    /\ OpOf(0) = "IDLE"
    /\ {"IDLE", "SKIP"} \subseteq Ops /\ Opcode("IDLE") \in Nat /\ Opcode("SKIP") \in Nat
    /\ OpOf(Opcode("IDLE")) = "IDLE" /\ OpOf(Opcode("SKIP")) = "SKIP"
<1>1. {"IDLE", "SKIP"} \subseteq Ops
  <2>1. ASSUME NEW r \in Opcodes, NEW i \in DOMAIN r.ops PROVE r.ops[i] \in Ops
    BY DEF Ops, ToSet
  <2>2. \E r \in Opcodes : \E i \in DOMAIN r.ops : r.ops[i] = "IDLE"
    <3>1. PICK r \in Opcodes : r.first = 0 /\ 1 \in DOMAIN r.ops /\ r.ops[1] = "IDLE"
      BY DEF Opcodes, Numbered
    <3> QED
      BY <3>1
  <2>3. \E r \in Opcodes : \E i \in DOMAIN r.ops : r.ops[i] = "SKIP"
    <3>1. PICK r \in Opcodes : r.first = 60 /\ 7 \in DOMAIN r.ops /\ r.ops[7] = "SKIP"
      BY DEF Opcodes, Numbered
    <3> QED
      BY <3>1
  <2> QED
    BY <2>1, <2>2, <2>3
<1>2. Idle \in Instructions /\ Counted(Idle)
  <2>1. "IDLE" \in Bare
    BY <1>1 DEF Bare, Ops, WithOperand, WithToken, WithString
  <2> QED
    BY <2>1 DEF Instructions, Idle, Instr, Counted
<1>3. OpOf(0) = "IDLE"
  <2> DEFINE runs == {r \in Opcodes : 0 \in r.first .. r.first + Len(r.ops) - 1}
             run == CHOOSE r \in runs : TRUE
  <2>1. PICK r \in Opcodes : r.first = 0 /\ r.ops[1] = "IDLE"
    BY DEF Opcodes, Numbered
  <2>2. r \in runs
    <3>1. \A s \in Opcodes : s.first = 0 => Len(s.ops) = 18
      BY DEF Opcodes, Numbered
    <3> QED
      BY <2>1, <3>1
  <2>3. run \in runs
    BY <2>2
  <2> HIDE DEF run
  <2>4. run.first = 0 /\ run.ops[1] = "IDLE"
    <3>1. run \in Opcodes /\ 0 \in run.first .. run.first + Len(run.ops) - 1
      BY <2>3
    <3>2. run.first = 0
      BY <3>1, RunsDisjoint
    <3>3. \A s \in Opcodes : s.first = 0 => s.ops[1] = "IDLE"
      BY DEF Opcodes, Numbered
    <3> QED
      BY <3>1, <3>2, <3>3
  <2>5. OpOf(0) = run.ops[0 - run.first + 1]
    BY <2>2 DEF OpOf, run
  <2>6. 0 - run.first + 1 = 1
    BY <2>4
  <2> QED
    BY <2>4, <2>5, <2>6
<1> QED
  BY <1>1, <1>2, <1>3, OpcodeInverse

\* What the code holds depends on the bytes it holds it in.
LEMMA HoldsLocal ==
    ASSUME NEW bytes \in Seq(Nat), NEW other \in Seq(Nat), NEW x, NEW p \in Nat, NEW q \in Nat,
           Holds(bytes, x, p, q), q <= Len(other),
           \A i \in p + 1 .. q : other[i] = bytes[i]
    PROVE  Holds(other, x, p, q)
<1>1. Inside(other, p, q) /\ Fetch(other, p) = Fetch(bytes, p)
  BY FetchLocal DEF Holds
<1> QED
  BY <1>1 DEF Holds

\* One more instruction behind the code.
LEMMA ExtendLayout ==
    ASSUME NEW bytes \in Seq(Nat), NEW other \in Seq(Nat), Agree(bytes, other),
           NEW xs \in Seq(Instructions), NEW x, NEW at, HoldsFrom(1, bytes, xs, at),
           Holds(other, x, Len(bytes), Len(other))
    PROVE  \E new : HoldsFrom(1, other, Append(xs, x), new)
<1>1. PICK k \in Nat : k = Len(xs)
  OBVIOUS
<1>2. PICK ys : ys = Append(xs, x)
  OBVIOUS
<1>3. Len(ys) = k + 1 /\ ys[k + 1] = x /\ \A n \in 1 .. k : ys[n] = xs[n]
  BY <1>1, <1>2
<1>4. /\ at \in [1 .. k + 1 -> Nat] /\ at[1] = 0 /\ at[k + 1] = Len(bytes)
      /\ \A m, n \in 1 .. k + 1 : m < n => at[m] < at[n]
      /\ \A n \in 1 .. k : Holds(bytes, xs[n], at[n], at[n + 1])
  BY <1>1 DEF HoldsFrom, Layout
<1>5. Len(bytes) \in Nat /\ Len(other) \in Nat /\ Len(bytes) < Len(other)
  BY DEF Holds, Inside
<1>6. \A n \in 1 .. k + 1 : at[n] <= Len(bytes)
  BY <1>4, <1>5
<1>7. PICK new : new = [n \in 1 .. k + 2 |-> IF n = k + 2 THEN Len(other) ELSE at[n]]
  OBVIOUS
<1>8. new[k + 2] = Len(other) /\ \A n \in 1 .. k + 1 : new[n] = at[n]
  BY <1>7
<1>9. new \in [1 .. (k + 1) + 1 -> Nat]
  BY <1>4, <1>5, <1>7
<1>10. \A m, n \in 1 .. (k + 1) + 1 : m < n => new[m] < new[n]
  <2> SUFFICES ASSUME NEW m \in 1 .. k + 2, NEW n \in 1 .. k + 2, m < n
               PROVE  new[m] < new[n]
    OBVIOUS
  <2>1. m \in 1 .. k + 1 /\ new[m] = at[m] /\ at[m] \in Nat /\ at[m] <= Len(bytes)
    BY <1>4, <1>6, <1>8
  <2>2. CASE n = k + 2
    BY <1>5, <1>8, <2>1, <2>2
  <2>3. CASE n # k + 2
    BY <1>4, <1>8, <2>1, <2>3
  <2> QED
    BY <2>2, <2>3
<1>11. Layout(other, ys, new)
  BY <1>3, <1>4, <1>8, <1>9, <1>10 DEF Layout
<1>12. ASSUME NEW n \in 1 .. k + 1
       PROVE  Holds(other, ys[n], new[n], new[n + 1])
  <2>1. CASE n = k + 1
    <3>1. new[n] = Len(bytes) /\ new[n + 1] = Len(other) /\ ys[n] = x
      BY <1>3, <1>4, <1>8, <2>1
    <3> QED
      BY <3>1
  <2>2. CASE n # k + 1
    <3>1. /\ n \in 1 .. k /\ n + 1 \in 1 .. k + 1
          /\ new[n] = at[n] /\ new[n + 1] = at[n + 1] /\ ys[n] = xs[n]
      BY <1>3, <1>8, <2>2
    <3>2. at[n] \in Nat /\ at[n + 1] \in Nat /\ at[n + 1] <= Len(bytes)
      BY <1>4, <1>6, <3>1
    <3>3. \A i \in at[n] + 1 .. at[n + 1] : other[i] = bytes[i]
      BY <1>5, <3>2 DEF Agree
    <3>4. at[n + 1] <= Len(other)
      BY <1>5, <3>2
    <3>5. Holds(bytes, xs[n], at[n], at[n + 1])
      BY <1>4, <3>1
    <3>6. Holds(other, xs[n], at[n], at[n + 1])
      BY <3>2, <3>3, <3>4, <3>5, HoldsLocal
    <3> QED
      BY <3>1, <3>6
  <2> QED
    BY <2>1, <2>2
<1> QED
  BY <1>2, <1>3, <1>11, <1>12 DEF HoldsFrom

\* A definition that was executed is a row of one-byte instructions, and the
\* code around it is as it was.
LEMMA Overwritten ==
    ASSUME NEW bytes \in Seq(Nat), NEW p \in Nat, NEW q \in p + 1 .. Len(bytes),
           NEW other, other = Overwrite(bytes, p, q)
    PROVE  /\ other \in Seq(Nat) /\ Len(other) = Len(bytes)
           /\ \A i \in 1 .. Len(bytes) : i <= p \/ i > q => other[i] = bytes[i]
           /\ \A s \in p .. q - 1 : Inside(other, s, s + 1)
<1>1. /\ Opcode("IDLE") \in Nat /\ Opcode("SKIP") \in Nat
      /\ OpOf(Opcode("IDLE")) = "IDLE" /\ OpOf(Opcode("SKIP")) = "SKIP"
  BY IdleInstruction
<1>2. \A i \in 1 .. Len(bytes) :
        /\ other[i] = IF i - 1 \in p .. q - 2 THEN Opcode("IDLE") ELSE IF i = q THEN Opcode("SKIP") ELSE bytes[i]
        /\ other[i] \in Nat
  BY <1>1 DEF Overwrite
<1>3. other \in Seq(Nat) /\ Len(other) = Len(bytes)
  <2>1. other = [i \in 1 .. Len(bytes) |-> other[i]]
    <3>1. DOMAIN bytes = 1 .. Len(bytes)
      OBVIOUS
    <3> QED
      BY <3>1 DEF Overwrite
  <2>2. [i \in 1 .. Len(bytes) |-> other[i]] \in [1 .. Len(bytes) -> Nat]
    BY <1>2, Zenon
  <2>3. other \in [1 .. Len(bytes) -> Nat]
    BY <2>1, <2>2, Zenon
  <2> QED
    BY <2>3
<1>4. \A i \in 1 .. Len(bytes) : i <= p \/ i > q => other[i] = bytes[i]
  BY <1>2
<1>5. ASSUME NEW s \in p .. q - 1
      PROVE  Inside(other, s, s + 1)
  <2>1. At(other, s) = Opcode("IDLE") \/ At(other, s) = Opcode("SKIP")
    BY <1>2 DEF At
  <2>2. OpAt(other, s) \notin WithOperand
    BY <1>1, <2>1 DEF OpAt, WithOperand, WithToken, WithString
  <2>3. Fetch(other, s).next = s + 1
    BY <2>2 DEF Fetch, WithOperand
  <2> QED
    BY <1>3, <2>2, <2>3 DEF Inside, WithOperand
<1> QED
  BY <1>3, <1>4, <1>5

-----------------------------------------------------------------------------
(* The invariant holds.                                                     *)

\* bc_init's empty buffer holds no instruction.
LEMMA IInvInit ==
    EmissionInit => IInv
<1> SUFFICES ASSUME EmissionInit PROVE IInv
  OBVIOUS
<1>1. bc.bytes = <<>> /\ bc \in Buffers
  BY BytecodeAssumption DEF EmissionInit, bc_init, Buffers
<1>2. PICK at : at = [n \in 1 .. 1 |-> 0]
  OBVIOUS
<1>3. HoldsFrom(1, bc.bytes, emitted, at)
  <2>1. Len(emitted) = 0 /\ Len(bc.bytes) = 0
    BY <1>1 DEF EmissionInit
  <2>2. at \in [1 .. 0 + 1 -> Nat] /\ at[1] = 0
    BY <1>2
  <2> QED
    BY <2>1, <2>2 DEF HoldsFrom, Layout
<1> QED
  BY <1>1, <1>3 DEF EmissionInit, IInv, Writing, ReadBack, Compiling

\* The compiler reads on: the buffer is left alone.
LEMMA ReadStatementStep ==
    IInv /\ ReadStatement => IInv'
  BY DEF IInv, ReadStatement, Writing, Compiling, HoldsFrom, Layout, Holds, ReadBack, buffer, reading

\* An instruction is added behind the others.
LEMMA EmitNextStep ==
    IInv /\ EmitNext => IInv'
<1> SUFFICES ASSUME IInv, EmitNext PROVE IInv'
  OBVIOUS
<1>1. stage \in Compiling /\ Writing /\ bc \in Buffers /\ bc.bytes \in Seq(Nat) /\ emitted \in Seq(Instructions)
  BY DEF IInv, EmitNext, Compiling, Buffers
<1>2. PICK x \in Instructions : x = Head(pending) /\ pending' \in Seq(Instructions)
  BY <1>1 DEF EmitNext, Writing
<1>3. bc' = Emit(bc, x) /\ emitted' = Append(emitted, x) /\ UNCHANGED <<stage, reading>>
  BY <1>2 DEF EmitNext
<1>4. /\ bc' \in Buffers /\ bc'.bytes \in Seq(Nat) /\ Agree(bc.bytes, bc'.bytes)
      /\ Holds(bc'.bytes, x, Len(bc.bytes), Len(bc'.bytes))
  BY <1>1, <1>3, Emitted DEF Holds, Buffers
<1>5. PICK at : HoldsFrom(1, bc.bytes, emitted, at)
  BY <1>1 DEF Writing
<1>6. \E new : HoldsFrom(1, bc'.bytes, Append(emitted, x), new)
  BY <1>1, <1>4, <1>5, ExtendLayout
<1>7. Writing'
  BY <1>1, <1>2, <1>3, <1>6 DEF Writing, reading
<1> QED
  BY <1>1, <1>3, <1>4, <1>7 DEF IInv, ReadBack, Compiling

\* bc_ready adds the zero byte, and reading begins at the first instruction.
LEMMA ReadyStep ==
    IInv /\ Ready => IInv'
<1> SUFFICES ASSUME IInv, Ready PROVE IInv'
  OBVIOUS
<1>1. stage \in Compiling /\ Writing /\ bc \in Buffers /\ bc.bytes \in Seq(Nat) /\ emitted \in Seq(Instructions)
  BY DEF IInv, Ready, Compiling, Buffers
<1>2. PICK bytes \in Seq(Nat) : bytes = bc.bytes
  BY <1>1
<1>3. PICK other : other = Append(bytes, 0)
  OBVIOUS
<1>4. bc' = [bytes |-> other, length |-> Len(bytes) + 1]
  BY <1>2, <1>3 DEF Ready, bc_ready
<1>5. /\ other \in Seq(Nat) /\ Len(other) = Len(bytes) + 1 /\ other[Len(bytes) + 1] = 0
      /\ Agree(bytes, other)
  BY <1>3 DEF Agree
<1>6. bc' \in Buffers /\ bc'.bytes = other /\ bc'.length = Len(other)
  BY <1>4, <1>5 DEF Buffers
<1>7. Holds(other, Idle, Len(bytes), Len(other))
  <2>1. OpAt(other, Len(bytes)) = "IDLE"
    BY <1>5, IdleInstruction DEF OpAt, At
  <2>2. Fetch(other, Len(bytes)) = [x |-> Instr("IDLE", <<>>, 0), next |-> Len(bytes) + 1]
    BY <2>1 DEF Fetch, WithToken, WithString
  <2> QED
    BY <1>5, <2>1, <2>2 DEF Holds, Inside, Idle, WithOperand, WithToken, WithString
<1>8. PICK at : HoldsFrom(1, bytes, emitted, at)
  BY <1>1, <1>2 DEF Writing
<1>9. PICK new : HoldsFrom(1, other, Whole, new)
  BY <1>1, <1>5, <1>7, <1>8, ExtendLayout DEF Whole
<1>10. decoded' = <<>> /\ bc_pos' = 0 /\ starts' = {} /\ emitted' = emitted /\ stage' = "fetch" /\ Whole' = Whole
  BY <1>1 DEF Ready, Writing, reading, Whole
<1>11. Reading'
  <2>1. Len(decoded') = 0 /\ decoded' \in Seq({}) /\ Len(Whole) \in Nat
    BY <1>1, <1>10 DEF Whole
  <2>2. new[1] = 0
    BY <1>9 DEF HoldsFrom, Layout
  <2>3. Linked(starts', other, bc_pos')
    BY <1>10 DEF Linked
  <2> QED
    BY <1>6, <1>9, <1>10, <2>1, <2>2, <2>3 DEF Reading
<1> QED
  BY <1>1, <1>6, <1>10, <1>11 DEF IInv, ReadBack, Compiling

\* Where an instruction was read, its successor begins behind it; where it was
\* a definition, each of the bytes it became has its successor.
LEMMA LinkedOn ==
    ASSUME NEW bytes \in Seq(Nat), NEW other \in Seq(Nat), NEW p \in Nat, NEW q \in Nat, NEW from, NEW more,
           Linked(from, bytes, p), p < q, q <= Len(other),
           \A i \in 1 .. p : other[i] = bytes[i],
           (more = {p} /\ Inside(other, p, q)) \/ (more = p .. q - 1 /\ \A s \in p .. q - 1 : Inside(other, s, s + 1))
    PROVE  Linked(from \cup more, other, q)
<1> SUFFICES ASSUME NEW s \in from \cup more
             PROVE  s \in Nat /\ \E r \in from \cup more \cup {q} : r \in Nat /\ r <= q /\ Inside(other, s, r)
  BY DEF Linked
<1>1. p \in more
  OBVIOUS
<1>2. CASE s \in from
  <2>1. PICK r \in from \cup {p} : s \in Nat /\ r \in Nat /\ r <= p /\ Inside(bytes, s, r)
    BY <1>2 DEF Linked
  <2>2. r <= Len(other) /\ r <= q /\ \A i \in s + 1 .. r : other[i] = bytes[i]
    BY <2>1
  <2>3. Inside(other, s, r)
    BY <2>1, <2>2, FetchLocal
  <2> QED
    BY <1>1, <2>1, <2>2, <2>3
<1>3. CASE more = {p} /\ Inside(other, p, q) /\ s \in more
  BY <1>3
<1>4. CASE more = p .. q - 1 /\ (\A t \in p .. q - 1 : Inside(other, t, t + 1)) /\ s \in more
  <2>1. s \in p .. q - 1 /\ s \in Nat /\ s + 1 \in more \cup {q} /\ s + 1 \in Nat /\ s + 1 <= q /\ Inside(other, s, s + 1)
    BY <1>4
  <2> QED
    BY <2>1
<1> QED
  BY <1>2, <1>3, <1>4

\* An instruction is fetched: it is the one that was emitted, and bc_pos is
\* left at the next.
LEMMA FetchNextStep ==
    IInv /\ FetchNext => IInv'
<1> SUFFICES ASSUME IInv, FetchNext PROVE IInv'
  OBVIOUS
<1>1. stage = "fetch" /\ Reading /\ bc \in Buffers /\ bc.bytes \in Seq(Nat) /\ emitted \in Seq(Instructions)
  BY DEF IInv, FetchNext, Buffers
<1>2. PICK bytes \in Seq(Nat) : bytes = bc.bytes /\ bc = [bytes |-> bytes, length |-> Len(bytes)]
  BY <1>1 DEF Reading, Buffers
<1>3. PICK k \in Nat : k = Len(Whole)
  BY <1>1 DEF Whole
<1>4. PICK S : decoded \in Seq(S)
  BY <1>1 DEF Reading
<1>5. PICK m \in Nat : m = Len(decoded) /\ m <= k
  BY <1>1, <1>3, <1>4 DEF Reading
<1>6. PICK at : bc_pos = at[m + 1] /\ HoldsFrom(m + 1, bytes, Whole, at)
  BY <1>1, <1>2, <1>5 DEF Reading
<1>7. /\ at \in [1 .. k + 1 -> Nat] /\ at[1] = 0 /\ at[k + 1] = Len(bytes)
      /\ \A i, j \in 1 .. k + 1 : i < j => at[i] < at[j]
      /\ \A n \in m + 1 .. k : Holds(bytes, Whole[n], at[n], at[n + 1])
  BY <1>3, <1>6 DEF HoldsFrom, Layout
<1>8. PICK p \in Nat : p = bc_pos
  BY <1>5, <1>6, <1>7
<1>9. p < Len(bytes) /\ m + 1 \in 1 .. k /\ m + 2 \in 1 .. k + 1
  <2>1. p < Len(bytes)
    BY <1>2, <1>8 DEF FetchNext
  <2>2. m # k
    BY <1>6, <1>7, <1>8, <2>1
  <2> QED
    BY <1>5, <2>1, <2>2
<1>10. PICK q \in Nat : q = at[m + 2]
  BY <1>7, <1>9
<1>11. Holds(bytes, Whole[m + 1], p, q)
  <2>1. Holds(bytes, Whole[m + 1], at[m + 1], at[(m + 1) + 1])
    BY <1>7, <1>9
  <2>2. (m + 1) + 1 = m + 2
    OBVIOUS
  <2> QED
    BY <1>6, <1>8, <1>10, <2>1, <2>2
<1>12. PICK f : f = Fetch(bytes, p)
  OBVIOUS
<1>13. /\ f.next = q /\ q \in p + 1 .. Len(bytes) /\ Inside(bytes, p, q)
       /\ Counted(Whole[m + 1]) => f.x = Whole[m + 1]
  BY <1>11, <1>12 DEF Holds, Inside
<1>14. PICK defining \in BOOLEAN : defining = (f.x.op = "BLOCK_DEF")
  OBVIOUS
<1>15. /\ decoded' = Append(decoded, f.x) /\ bc_pos' = q
       /\ starts' = starts \cup (IF defining THEN p .. q - 1 ELSE {p})
       /\ bc' = IF defining THEN [bc EXCEPT !.bytes = Overwrite(bytes, p, q)] ELSE bc
       /\ stage' = "fetch" /\ emitted' = emitted /\ Whole' = Whole
  BY <1>1, <1>2, <1>8, <1>12, <1>13, <1>14 DEF FetchNext, Whole
<1>16. PICK other : other = IF defining THEN Overwrite(bytes, p, q) ELSE bytes
  OBVIOUS
<1>17. PICK more : more = IF defining THEN p .. q - 1 ELSE {p}
  OBVIOUS
<1>18. /\ other \in Seq(Nat) /\ Len(other) = Len(bytes)
       /\ \A i \in 1 .. Len(bytes) : i <= p \/ i > q => other[i] = bytes[i]
       /\ (more = {p} /\ Inside(other, p, q)) \/ (more = p .. q - 1 /\ \A s \in p .. q - 1 : Inside(other, s, s + 1))
  <2>1. CASE defining
    <3>1. other = Overwrite(bytes, p, q) /\ more = p .. q - 1
      BY <1>16, <1>17, <2>1
    <3> QED
      BY <1>13, <3>1, Overwritten
  <2>2. CASE ~defining
    <3>1. other = bytes /\ more = {p}
      BY <1>16, <1>17, <2>2
    <3> QED
      BY <1>13, <3>1
  <2> QED
    BY <2>1, <2>2
<1>19. bc' = [bytes |-> other, length |-> Len(bytes)] /\ starts' = starts \cup more
  BY <1>2, <1>15, <1>16, <1>17
<1>20. Linked(starts', other, q) /\ 0 \in starts' \cup {q}
  <2>1. Linked(starts, bytes, p) /\ 0 \in starts \cup {p}
    BY <1>1, <1>2, <1>8 DEF Reading
  <2>2. p < q /\ q <= Len(other) /\ \A i \in 1 .. p : other[i] = bytes[i]
    <3>1. p < q /\ q <= Len(bytes) /\ \A i \in 1 .. p : i \in 1 .. Len(bytes) /\ i <= p
      BY <1>13
    <3> QED
      BY <1>18, <3>1
  <2>3. Linked(starts \cup more, other, q)
    BY <1>18, <2>1, <2>2, LinkedOn
  <2>4. p \in more
    BY <1>13, <1>18
  <2> QED
    BY <1>19, <2>1, <2>3, <2>4
<1>21. HoldsFrom(m + 2, other, Whole, at)
  <2>1. Layout(other, Whole, at)
    BY <1>6, <1>18 DEF HoldsFrom, Layout
  <2>2. ASSUME NEW n \in m + 2 .. k
        PROVE  Holds(other, Whole[n], at[n], at[n + 1])
    <3>1. n \in m + 1 .. k /\ n \in 1 .. k + 1 /\ n + 1 \in 1 .. k + 1
      BY <1>9
    <3>2. at[n] \in Nat /\ at[n + 1] \in Nat /\ q <= at[n] /\ at[n + 1] <= Len(bytes)
      <4>1. at[n] \in Nat /\ at[n + 1] \in Nat
        BY <1>7, <3>1
      <4>2. m + 2 = n \/ at[m + 2] < at[n]
        <5>1. m + 2 <= n
          OBVIOUS
        <5> QED
          BY <1>7, <1>9, <3>1, <5>1
      <4>3. n + 1 = k + 1 \/ at[n + 1] < at[k + 1]
        BY <1>7, <3>1
      <4>4. q <= at[n]
        BY <1>10, <4>1, <4>2
      <4>5. at[n + 1] <= Len(bytes)
        <5>1. at[k + 1] = Len(bytes) /\ Len(bytes) \in Nat
          BY <1>7
        <5> QED
          BY <3>1, <4>1, <4>3, <5>1
      <4> QED
        BY <4>1, <4>4, <4>5
    <3>3. \A i \in at[n] + 1 .. at[n + 1] : other[i] = bytes[i]
      <4>1. \A i \in at[n] + 1 .. at[n + 1] : i \in 1 .. Len(bytes) /\ i > q
        BY <3>2
      <4> QED
        BY <1>18, <4>1
    <3>4. Holds(bytes, Whole[n], at[n], at[n + 1])
      BY <1>7, <3>1
    <3> QED
      BY <1>18, <3>2, <3>3, <3>4, HoldsLocal
  <2> QED
    BY <1>3, <2>1, <2>2 DEF HoldsFrom
<1>22. /\ \E T : decoded' \in Seq(T)
       /\ Len(decoded') = m + 1
       /\ \A n \in 1 .. m + 1 : Counted(Whole[n]) => decoded'[n] = Whole[n]
  <2>1. PICK T : T = S \cup {f.x}
    OBVIOUS
  <2>2. decoded \in Seq(T) /\ f.x \in T
    BY <1>4, <2>1
  <2>3. decoded' \in Seq(T) /\ Len(decoded') = m + 1
    BY <1>5, <1>15, <2>2
  <2>4. decoded'[m + 1] = f.x /\ \A n \in 1 .. m : decoded'[n] = decoded[n]
    BY <1>5, <1>15, <2>2
  <2>5. \A n \in 1 .. m : Counted(Whole[n]) => decoded[n] = Whole[n]
    BY <1>1, <1>5 DEF Reading
  <2>6. ASSUME NEW n \in 1 .. m + 1, Counted(Whole[n])
        PROVE  decoded'[n] = Whole[n]
    <3>1. CASE n = m + 1
      BY <1>13, <2>4, <2>6, <3>1
    <3>2. CASE n # m + 1
      <4>1. n \in 1 .. m
        BY <3>2
      <4> QED
        BY <2>4, <2>5, <2>6, <4>1
    <3> QED
      BY <3>1, <3>2
  <2> QED
    BY <2>3, <2>6
<1>23. Reading'
  <2>1. Len(decoded') + 1 = m + 2 /\ Len(decoded') <= Len(Whole)
    BY <1>3, <1>9, <1>22
  <2>2. bc'.bytes = other /\ bc'.length = Len(other)
    BY <1>18, <1>19
  <2> QED
    BY <1>10, <1>15, <1>20, <1>21, <1>22, <2>1, <2>2 DEF Reading
<1>24. bc' \in Buffers
  BY <1>18, <1>19 DEF Buffers
<1> QED
  BY <1>1, <1>15, <1>23, <1>24 DEF IInv, ReadBack, Compiling

\* The end of the code: as many instructions have been read as were emitted,
\* and passing over them begins at the first again.
LEMMA AgainStep ==
    IInv /\ Again => IInv'
<1> SUFFICES ASSUME IInv, Again PROVE IInv'
  OBVIOUS
<1>1. stage = "fetch" /\ Reading /\ bc \in Buffers /\ bc.bytes \in Seq(Nat) /\ emitted \in Seq(Instructions)
  BY DEF IInv, Again, Buffers
<1>2. /\ stage' = "pass" /\ bc_pos' = 0 /\ bc' = bc /\ emitted' = emitted /\ decoded' = decoded
      /\ starts' = starts
  BY DEF Again, buffer
<1>3. PICK k \in Nat : k = Len(emitted) /\ Len(Whole) = k + 1
  BY <1>1 DEF Whole
<1>4. Whole[k + 1] = Idle /\ \A n \in 1 .. k : Whole[n] = emitted[n]
  BY <1>1, <1>3 DEF Whole
<1>5. PICK m \in Nat : m = Len(decoded) /\ m <= k + 1
  BY <1>1, <1>3 DEF Reading
<1>6. PICK at : bc_pos = at[m + 1] /\ Layout(bc.bytes, Whole, at)
  BY <1>1, <1>5 DEF Reading, HoldsFrom
<1>7. /\ at \in [1 .. (k + 1) + 1 -> Nat] /\ at[(k + 1) + 1] = Len(bc.bytes)
      /\ \A i, j \in 1 .. (k + 1) + 1 : i < j => at[i] < at[j]
  BY <1>3, <1>6 DEF Layout
<1>8. bc_pos \in Nat /\ Len(bc.bytes) \in Nat /\ bc.length = Len(bc.bytes) /\ bc_pos >= Len(bc.bytes)
  BY <1>1, <1>5, <1>6, <1>7 DEF Again, Reading
<1>9. m = k + 1 /\ bc_pos = bc.length
  <2>1. m + 1 \in 1 .. (k + 1) + 1 /\ (k + 1) + 1 \in 1 .. (k + 1) + 1
    BY <1>5
  <2>2. ~(m + 1 < (k + 1) + 1)
    <3> SUFFICES ASSUME m + 1 < (k + 1) + 1 PROVE FALSE
      OBVIOUS
    <3>1. at[m + 1] < at[(k + 1) + 1]
      BY <1>7, <2>1
    <3> QED
      BY <1>6, <1>7, <1>8, <3>1
  <2>3. m = k + 1
    BY <1>5, <2>2
  <2> QED
    BY <1>6, <1>7, <1>8, <2>3
<1>10. ReadBack'
  <2>1. \A n \in 1 .. k + 1 : Counted(Whole[n]) => decoded[n] = Whole[n]
    BY <1>1, <1>5, <1>9 DEF Reading
  <2>2. decoded[k + 1] = Idle
    <3>1. Counted(Whole[k + 1]) /\ k + 1 \in 1 .. k + 1
      BY <1>4, IdleInstruction
    <3> QED
      BY <1>4, <2>1, <3>1
  <2>3. \A n \in 1 .. k : Counted(emitted[n]) => decoded[n] = emitted[n]
    BY <1>4, <2>1
  <2> QED
    BY <1>2, <1>3, <1>5, <1>9, <2>2, <2>3 DEF ReadBack, Idle
<1>11. Passing'
  BY <1>1, <1>2, <1>9 DEF Passing, Reading
<1> QED
  BY <1>1, <1>2, <1>10, <1>11 DEF IInv, Compiling

\* Passing over an instruction leads from a start to a start, or to the end.
LEMMA PassNextStep ==
    IInv /\ PassNext => IInv'
<1> SUFFICES ASSUME IInv, PassNext PROVE IInv'
  OBVIOUS
<1>1. stage = "pass" /\ Passing /\ bc \in Buffers /\ bc.bytes \in Seq(Nat)
  BY DEF IInv, PassNext, Buffers
<1>2. UNCHANGED <<bc, emitted, decoded, starts>> /\ stage' \in {"pass", "done"}
  BY <1>1 DEF PassNext, buffer
<1>3. ReadBack' /\ bc' \in Buffers /\ emitted' \in Seq(Instructions)
  BY <1>1, <1>2 DEF IInv, ReadBack
<1>4. stage' = "pass" => Passing'
  <2> SUFFICES ASSUME stage' = "pass" PROVE bc_pos' \in starts \cup {bc.length}
    BY <1>1, <1>2 DEF Passing
  <2>1. bc_pos < bc.length /\ bc_pos' = PassOver(bc.bytes, bc_pos)
    BY DEF PassNext
  <2>2. bc.length = Len(bc.bytes) /\ bc_pos \in starts
    BY <1>1, <2>1 DEF Passing, Buffers
  <2>3. PICK q \in starts \cup {bc.length} : bc_pos \in Nat /\ Inside(bc.bytes, bc_pos, q)
    BY <1>1, <2>2 DEF Passing, Linked
  <2>4. bc_pos \in 0 .. Len(bc.bytes) - 1
    BY <1>1, <2>1, <2>2, <2>3
  <2>5. PassOver(bc.bytes, bc_pos) = Fetch(bc.bytes, bc_pos).next
    BY <1>1, <2>4, PassAsFetch
  <2> QED
    BY <2>1, <2>3, <2>5 DEF Inside
<1> QED
  BY <1>2, <1>3, <1>4 DEF IInv, Compiling

\* Every step keeps the invariant.
LEMMA IInvNext ==
    IInv /\ [EmissionNext]_emission => IInv'
<1>1. IInv /\ UNCHANGED emission => IInv'
  BY DEF IInv, emission, buffer, reading, Writing, Reading, Passing, Whole, ReadBack
<1> QED
  BY <1>1, ReadStatementStep, EmitNextStep, ReadyStep, FetchNextStep, AgainStep, PassNextStep DEF EmissionNext

\* The invariant holds in every reachable state.
LEMMA IInvHolds ==
    EmissionSpec => []IInv
  BY IInvInit, IInvNext, PTL DEF EmissionSpec

\* What larva_silk fetches are the instructions the compiler emitted, in their
\* order and with their operands, whatever the instructions and however many.
THEOREM ReadBackHolds == EmissionSpec => []ReadBack
<1>1. IInv => ReadBack
  BY DEF IInv
<1> QED
  BY <1>1, IInvHolds, PTL

\* Code that is passed over is left at a position where an instruction was
\* fetched, or a byte of an overwritten definition, or at the end of the code.
THEOREM OnBoundaryHolds == EmissionSpec => []OnBoundary
<1>1. IInv => OnBoundary
  BY DEF IInv, Passing, OnBoundary
<1> QED
  BY <1>1, IInvHolds, PTL

-----------------------------------------------------------------------------
(* The room in the buffer.                                                  *)

FInv == BufferFits /\ (stage \in Compiling => Fits(bc))

\* No step writes behind the buffer, given that one growth is enough for the
\* literals it emits.
LEMMA FInvNext ==
    IInv /\ IInv' /\ ShortLiterals /\ FInv /\ [EmissionNext]_emission => FInv'
<1> SUFFICES ASSUME IInv, IInv', ShortLiterals, FInv, [EmissionNext]_emission
             PROVE  FInv'
  OBVIOUS
<1>1. CASE ReadStatement \/ UNCHANGED emission \/ Again \/ PassNext
  BY <1>1 DEF FInv, BufferFits, Fits, ReadStatement, Again, PassNext, emission, buffer, Compiling
<1>2. CASE EmitNext
  <2>1. stage \in {"digest", "declare"} /\ stage \in Compiling /\ bc \in Buffers /\ pending \in Seq(Instructions)
    BY <1>2 DEF EmitNext, IInv, Writing, Compiling
  <2>2. PICK x \in Instructions : x = pending[1] /\ bc' = Emit(bc, x) /\ 1 \in DOMAIN pending
    BY <1>2, <2>1 DEF EmitNext
  <2>3. x.op = "FROM_JSON" => Len(x.name) + 2 <= BcGrow
    BY <2>1, <2>2 DEF ShortLiterals
  <2>4. Fits(bc')
    BY <2>1, <2>2, <2>3, Emitted DEF FInv
  <2> QED
    BY <2>4 DEF FInv, Fits, BufferFits
<1>3. CASE Ready \/ FetchNext
  <2>1. stage' = "fetch"
    BY <1>3 DEF Ready, FetchNext
  <2>2. bc' \in Buffers /\ bc'.length = Len(bc'.bytes)
    BY <2>1 DEF IInv, Reading
  <2>3. Len(bc'.bytes) <= bc'.length
    BY <2>2 DEF Buffers
  <2> QED
    BY <2>1, <2>3 DEF FInv, BufferFits, Compiling
<1> QED
  BY <1>1, <1>2, <1>3 DEF EmissionNext

\* No bc_add_ call stores behind the room that was allocated, as long as no
\* JSON literal is longer than what one growth adds.
THEOREM BufferFitsHolds == EmissionSpec /\ []ShortLiterals => []BufferFits
<1>1. EmissionInit => FInv
  BY BytecodeAssumption DEF EmissionInit, bc_init, FInv, BufferFits, Fits
<1>2. FInv => BufferFits
  BY DEF FInv
<1> QED
  BY <1>1, <1>2, FInvNext, IInvHolds, PTL DEF EmissionSpec
=============================================================================

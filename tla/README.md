# Bombyx in TLA+

Bombyx is an experimental scripting language ("Leaf") for web pages: a compiler
to byte-code, an interpreter of it, and a multi-threaded FastCGI server around
both. This directory models its core in TLA+, checks the models with TLC and
proves their main invariants with TLAPS.

## 1. The system

| Component | Source | State | Operations | Modules |
|---|---|---|---|---|
| chunk allocator | `core/challoc.c` | a list of allocators, each a stack of free chunks | `chcreate`, `challoc`, `chfree`, `chdestroy` | `Challoc`, `PoolSpec` |
| byte-code interpreter | `core/larva_silk.c`, `stack.c`, `block.c` | position, nesting levels with flags and return points, skip and definition modes, operand stack, block table, the byte-code itself (it patches definitions) | one handler per instruction | `Silk`, `LeafSemantics` |
| compiler | `core/larva.c`, `expression.c`, `bytecode.c` | text and position, byte-code buffer | `larva_chew`, `larva_init`, `larva_digest`, `parse`, `bc_*` | `Compiler`, `Parser`, `LeafText`, `Emission`, `Bytecode`; `Digest` for `MCSilk` |
| values and operators | `core/var.c`, `operator.c` | tagged values, symbol table, registers | `op_*`, `var_*` | `Values`, `Heap`, `Operands`, `Store` |
| arrays and maps | `core/array.c`, `map.c` | growing vectors, hash tables | push, set, clone, delete | `Heap` |
| web server | `web.c` | two mutexes, the working directory, one environment per thread | the loop of `thread()` | `WebServer` |
| cocoon loading | `core/cocoon.c` | table of loaded libraries | `use`, calls with `::` | `WebServer`, `Compiler` |
| web cocoon | `cocoons/web/web.c` | the request, the response | `render`, `cookie`, `fromGet`, `fromPost`, `fromJson` | `WebServer` (shared state), `Cocoons` (values) |
| text, json cocoons | `cocoons/text`, `cocoons/json`, `core/sys.c` | none | `replace`, `trim`, `length`, `split`, `from` | `CString`, `Cocoons` |
| db cocoon | `cocoons/db/db.c` | a connection and its results | `connect`, `query`, `fetchRow`, `row` | `Db` |
| console version | `console.c` | none of its own | one program | not modelled |

How they interact. `thread()` accepts a request, reads the Leaf file, notes the
working directory and changes it, and then calls, one after the other,
`larva_init` (which creates the tables and the pool of doubles and runs `use` and
`include`), `larva_digest`, `larva_silk` and `larva_stop`. Any error comes back by
`longjmp` to the `setjmp` before them. The interpreter takes every number from the
chunk allocator and calls functions of cocoons, which write to the same response
and change the same working directory. The threads share the mutexes, the working
directory and `var_echo_level`, and nothing else.

What is hard here:

* control flow is encoded in three arrays indexed by a wrapping byte, two modes
  and a self-modifying program, with no structure the code could check itself by;
* operands are cleaned up by level tags that only some of the stores carry;
* the working directory belongs to the process, the requests to threads;
* errors re-enter a request through `longjmp` at any point;
* data are shared and moved by assigning structs, and freed by whoever comes last;
* the compiler makes passes over text it rewrites while it counts its length;
* the allocator's free stacks are filled by whoever returns a double, in any
  order, including doubles it never handed out.

`PROJECT.json` lists these as hazards, each at its line, with the properties that
would notice it going wrong.

## 2. Modules

### `Challoc` (with `PoolSpec`)

An allocator is its stack pointer (`cur`) and its stack (`chunks`) of addresses
`<<allocator, slot>>`; `len` allocators are linked. `live` is the set of doubles
the interpreter holds and `held` counts them as the calls do, so that a chunk
handed out twice shows as a difference between the two. One action per path of
each function:

| Action | Code |
|---|---|
| `Chcreate`, `ChcreateFails` | `chcreate` from `larva_init`; out of memory |
| `ChallocReuse` | `challoc`, a chunk found in the first allocator that has one |
| `ChallocGrow`, `ChallocNoMemory` | `challoc`, all empty: the list is extended, or that fails |
| `MallocDouble` | `op_copy` takes a double from `malloc` (operator.c:50) |
| `ChfreeEmptyRoot` | `chfree`, root empty: the first stack with room |
| `ChfreeRoot`, `ChfreeOverrun` | `chfree`, root not empty: its stack, full or not |
| `ChfreeNull` | `chfree` without a pool |
| `Chdestroy` | `larva_stop` |

`chclear` is not modelled because it is not part of the program: only `web.c`
defines `BOMBYX_WEB`, and the core's files, where it is tested, are compiled
without it.

`PoolSpec` is what challoc.h promises: an object handed out is in nobody's hands.
`ImplementsPool` says `Challoc` implements it with `open <- status # "none"`. Up
to the first overrun, that is: the model stops there, since the write past the
array makes everything after it undefined.

### `Silk`, `LeafSemantics`, `Digest`

A cell of `prog` is an instruction with its operands; positions count
instructions. The variables are those of `larva_silk` and of `bombyx_env_t`, by
their names. Three things are abstracted:

* *values*: an operand is its level tag; a condition is true or false by choice;
  an instruction that has a `runtime_error` may raise it;
* *the instructions that only compute*: the table `Effect` says how many operands
  each pops, whether it uses the one below in place, and how it pushes: through
  `stack_push` (checked, tagged with the level), directly (unchecked, tag 0), or
  the left operand again. `Compute`, `Underflow` and `Overflow` interpret it;
* *block names*: a sequence of parts, `<<>>` for NULL.

`frameBase` and `lastIf` are history variables: what was on the stack below a
call's arguments, and how the last `if` among the statements of a level turned
out. No guard reads them.

A `BLOCK_DEF` that was executed is in `patched` and reads as `SKIP` from then on.
The byte bounds are `ByteMod` (values of `gl_level` and `level`, entries of
`run_flag` and `ret_point`: 256 in the code) and `StackSize` (256).

`LeafSemantics` is the control flow of the language without any of that: a
program counter, the open statements and calls, the outcome of the last `if` in
each, and the definitions met. `ImplementsLeaf` maps to it: the abstract counter
is `bc_pos`, except while code is passed over, when it is the position where the
interpreter will resume; the open statements are levels `1 .. gl_level`. While
skipping, the detailed steps are stuttering steps of the abstract machine.

`Digest` gives, in a table, for each form of the language, the instructions `larva_digest`
and the expression parser emit for it. `MCSilk` builds its programs with it, so
the interpreter only ever runs what the compiler can produce.

### `Values`, `Heap`, `Operands`, `Store`

`Silk` knows control and no data; `Values` knows data and little control: it runs
statements one after the other, with the body of a called block in line. A
variable or an operand is the struct of `var.h`: type, data, reference. Data are
addresses into `heap`, an address being used once, so that whatever happens to a
datum after it was freed is seen. `Heap` has the functions that work on it under
their names (`op_copy`, `array_push`, `array_set_elem`, `map_add`, `var_apath`);
an array has both the `max_size` it records and the room that was really
allocated. `v2` is a variable because the interpreter's register keeps its value
from one instruction to the next; before it is first assigned it may hold
anything. Numbers are terms (`<<"ADD", x, y>>`), so that equal numbers are the
same computation.

`Store` is what the documentation promises: variables and operands hold values,
and an operation changes the variable it names. `ImplementsStore` maps every var
to the value its data lead to. A freed datum has the value `Freed` and a slot
never set the value `HOLE`, neither of which `Store` ever produces.

### `Compiler`, `Parser`, `LeafText`, `Emission`, `Bytecode`

A text is a sequence of cells, one for each character or keyword that the passes
tell apart. `Compiler` has `larva_chew` one character at a time, `larva_init`'s
search for `include` and `use` with the splicing of included text and one action
per statement of `larva_digest`. `Parser` has one operator per function of `expression.c`
and returns the position, the instructions, whether it failed and whether a name or
literal was stored behind the end of its token. `Bytecode` has
the encoding, and the two ways of decoding: an instruction is executed (`Fetch`)
or passed over (`PassOver`), and a definition is overwritten (`Overwrite`).

`Emission` is the state machine around the buffer: instructions are added one by
one (`EmitNext`), `bc_ready` closes the buffer (`Ready`), and the code is read back
both ways, executed with its definitions overwritten (`FetchNext`) and then passed
over (`PassNext`). `emitted` is a history variable. By itself it accepts any
instructions whose operands are of the kinds the calls are made with; which ones a
text stands for is said by `Compiler`, which has these actions in its own
next-state relation and implements `EmissionSpec` (`ImplementsEmission`). The
split is what makes the byte layout provable: the grammar is recursive, `Emission`
and `Bytecode` are not.

`LeafText` is the reference: programs as trees, how each is written with as few
brackets as the levels of the grammar allow, and what it means. The documentation
lists the operators without a precedence; the levels are those of the parser's
functions, stated once more and independently of how they call each other. An operand
with a sign is always in brackets. A program carries its fate: it compiles, it is
refused, or nothing is promised.

### `CString`, `Vars`, `Db`, `Cocoons`

`CString` has the string functions (`trim`, `str_replace`, the word-wise
`cp_strlen_utf8`, and `strstr` and `strtok_r` from outside), `Cocoons` the functions
scripts call, by their names. One behaviour is one call with one input, or a script
that uses the database. A result `ERROR` is a `cocoon_error`, `CRASH` a NULL
followed, `UNDEFINED` a read outside a buffer. `render_` here is what it puts out;
what it does to the working directory is in `WebServer`.

`Db` is the state machine of a database connection: the connection is `link` (none, ready, or in use by a result not read to its end)
and `lost` (the server has gone, which the client notices only when it asks).
Steps of `Cocoons` are steps of `Db` or leave its variables alone. `Vars` has the
values both pass to the interpreter.

### `WebServer`

One record per thread (`env`), with the place in `thread()`, `larva_init` or
`render_` the thread is at, its request, its tables, its error flag and what it
has put out (headers, the blank line, text). `cwd` is the process's working
directory; a path is the sequence of its parts. Steps are cut where threads can
see each other: at locks, at `getcwd` and `chdir`, at opening files. A request
lists what its program does: `use` and `include` lines, then `print`, `cookie`
and `render` statements.

`dirname` is external (libc); `DirnameModifies` says whether it cuts its argument
in place, as glibc's does, which matters because `thread()` and `render_` both
apply it to the same `LEAF_FILENAME`.

A file that a program includes or renders stands beside every Leaf file and
nowhere else; the cocoons are in `Home`.

## 3. Runs

| Run | Checks | Result |
|---|---|---|
| `challoc` | `TypeOK`, `NoAlias`, `Conservation`, `GrowsOnlyWhenAllInUse`, `ImplementsPool` | hold, 1 644 states |
| `silk_leaf` | `NoUndefined`, `ImplementsLeaf`, `CallLeavesOneResult`, `SkippedCodeIsInert`, `SkipEnds` | hold, 83 783 states |
| `silk_any` | `TypeOK`, `BlockTable` | hold, 3 135 states |
| `values` | `TypeOK`, `Supplied`, `CleanPath`, `OneOwner`, `TypesAgree`, `ElementsFit`, `Defined`, `ImplementsStore`, `NothingFreedTwice` | hold, 197 617 states |
| `compiler` | `TypeOK`, `InBounds`, `CompiledAsWritten`, `CocoonsLoaded`, `OnBoundary`, `ReadBack`, `Compiles`, `ImplementsEmission` | hold, 297 676 states |
| `cocoons` | `TextAsDefined`, `PairsFound`, `TemplateFilled`, `PathsAgree`, `InSync`, `RowsInOrder` | hold, 29 496 states |
| `web` | `TypeOK`, `Framed`, `FreedOnce`, `Answered` | hold, 156 387 states |
| `silk_return` | `ImplementsLeaf` | violated |
| `values_access` | `ImplementsStore` | violated |
| `values_push` | `ElementsFit` | violated |
| `compiler_comment` | `CompiledAsWritten` | violated |
| `web_files` | `FilesBesideLeaf` | violated |

Run one with `tlc -config <cfg> <module>`, as `PROJECT.json` pairs them. Deadlock
is checked in `challoc`, `silk_*`, `values` and `web`: a program that has ended and a
server whose threads have all gone stutter explicitly. It is not in `compiler`,
where `Compiles` says the same, nor in `cocoons`, where a script may stop anywhere.

**Bounds.** `challoc`: two chunks per allocator and three allocators are the
fewest for which the list grows twice, the first allocator with room is neither
the root nor the last, and a stack holds two entries to confuse; one foreign
double is enough to return one more than was carved. `silk_leaf`: six operands
and six levels, more than any of the programs needs (four deep, four operands),
so neither bound decides a result. `silk_any`: four of each, less than the
programs need, so that the stack fills and the level wraps. Loops and recursion
are unbounded in both: conditions may turn out either way every time, and state
repeats. `web`: two threads are what a race needs; requests come for ever; the
four kinds of request are one that does not exist, the documentation's example,
one without cocoons and one that tries a header after the body.

`values`: three statements after a prologue that declares two
numbers, an array and a map; each statement may be any of 32, so every pair of
operations occurs with any third before, between or behind them. `MIN_ARRAY_SIZE`
is 2, so that arrays grow within them. `compiler`: the buffer starts with 9 bytes
and grows by 8 (25000 and 10000 in the code), so that every instruction meets the
limit at some place; literals and names of up to five cells, with 6 where the code
has 256. `cocoons`: strings of up to five to seven cells over the characters that
matter to each function, words of two bytes, up to three queries on a connection.

**The statements of `values`** are the forms the compiler emits, one by one and
in sequences. They avoid what `values_access` shows, an access by key after an
instruction that left a value in `v2`: such accesses stand behind one by an index
that does not exist, which clears it. They also avoid a path to a map's missing
key, which follows NULL (var.c:286), a string or array as an operand of `^`, `%`,
`&&` or `||` (operator.c:212), and `++` of an array's element that was copied from
a variable (operator.c:288). `xs` is declared before `x`: in the other order
`var_lookup_2` takes one for the other when they share a bucket. An array literal
has no element or at least `MIN_ARRAY_SIZE`; `values_push` shows what happens with
one in between. At most one operand of an operator is a call (section 4). They are,
on the other hand, such programs as the theorems about `Values` speak of: literals are
trees with room and the types of values, every statement puts enough on the stack for
its instructions, and `CleanPath` is checked.

**The programs of `compiler`** are every operator over every operator, every
statement, every pair of statements, one include with and without `use` inside, and
programs that are refused. In these, comments stand on lines of their own, and included
files have no `use` in their first line, where the search does not see it.

For the others nothing is promised but that they stay in their buffers, unless they are
one of the cases that `InBounds` names (`LongName`, `Unended`, `OpenEnd`,
`OpenCondition`): two includes, names and texts in quotes as long as the token, a last
line without a newline or eaten by a comment, a `use` in the first line of an included
file, and every text of up to three cells (out of 18) or four (out of 10) and a
newline. The last are more than 15 000 and mostly no programs at all; all four
cases occur among them and the rest.

**The programs of `silk_leaf`** (233, each with five leftovers in `run_flag`)
follow the documentation's examples: blocks defined before use, else behind its
if or one statement later, calls in every position (statement, argument,
condition, operand, return value), blocks within blocks, parameters with and
without default. They avoid what section 4 lists: a return inside a
statement of a block another block calls, a call between if and else, an
assignment in a nested loop or a block, an append inside a block. `silk_any` adds
those and more that compile (duplicate definitions, missing arguments, statements
used as values, unbounded recursion), so that every action fires, and checks what
holds for all.

**Fairness.** `silk_leaf` assumes weak fairness of `Step`: the interpreter is one
thread that never waits. `compiler` assumes it of `Next`, for the same reason.
`web` assumes weak fairness of `Serve(t)` for each
thread: a thread with a request runs on. Nothing is assumed of clients: waiting in
`accept` may last for ever, and so may waiting for `setup_mutex`, for which
pthreads promise no order; `Answered` therefore starts once the lock is had.

## 4. Where the code and its documentation part

Shown by a violated run:

1. `array_clone` allocates what the original's `max_size` says and records
   `MAX(size, MIN_ARRAY_SIZE)` (array.c:92). A literal's array is made with room for
   its elements only, so that a variable declared with 1 to 99 elements claims room
   for 100; its first push is stored past the allocation. (`values_push`)
2. `return` inside an `if` or `while` leaves every call, not one
   (larva_silk.c:503). (`silk_return`)
3. `a['k']` is copied into the register `v2` with whatever it points to: what the
   instructions before it left there, here the element that was assigned last, is
   overwritten or freed (larva_silk.c:243). (`values_access`)
4. A comment behind a statement takes the newline with it, and the next line
   becomes part of the statement (larva.c:136). (`compiler_comment`)
5. `use` changes the directory that the `include` after it, and `render`, look in
   (cocoon.c:87). (`web_files`)

In the models, reached by the runs that pass, and excluded from a property only
where this section says so:

* `chfree` looks for room only when the root is *empty*; with the root full and the
  pool grown it writes past `chunks[]` (challoc.c:81). POOL_OF_DOUBLES_SIZE is 1024,
  so a program needs that many live numbers (`ChfreeOverrun`; `challoc`);
* a JSON literal of more than 9998 bytes is stored behind the byte-code buffer when
  less than that is free, because the buffer grows once and by 10000
  (bytecode.c:48, 59), and one of 65536 bytes or more is cut by its 16-bit length
  (bytecode.c:47). Every other operand has gone through a buffer of 256 bytes. The
  theorem `BufferFitsHolds` has the first as its hypothesis, `ReadBack` the second;
  the literals of `compiler` are short;
* a call between a taken `if` and its `else` overwrites the flag `else` reads, and
  both branches run (larva_silk.c:535; `silk_any`);
* the level is left before its garbage is cleared, and direct stores have no
  level: a loop that assigns, inside an `if`, fills the stack and stores past
  its end (larva_silk.c:453, 182; `silk_any`);
* what a called block leaves keeps the block's level when it ends without `return`, or
  returns a literal: the next call in the same expression, as in `h(a) + h(b)`, takes
  it for its own garbage and frees it, and the operator takes whatever an earlier
  statement left below, or finds the stack empty (larva_silk.c:444, stack.c:28);
  `Supplied` is checked without such expressions;
* `a[] = b` in a block is executed while the block is defined (larva_silk.c:143;
  `silk_any`);
* `use` looks in the directory an earlier request of any thread changed to
  (web.c:126; `web`);
* after an `include`, `code_length` is short by one (larva.c:91), so that a second one
  moves one byte too few (larva.c:83) and the zero at the end is lost, which the comment
  above says is "moved to the very end": `larva_digest` reads on behind the buffer. So it
  does when the file does not end with a newline, when a condition has no closing
  bracket, and when `block` or `var` is the last word (larva.c:369) (`compiler`,
  `InBounds`);
* a comment that is still open at the end of a file is searched one or two characters
  behind the text (larva.c:134, 136); whatever is there, cleaning ends, so the model
  leaves the read out;
* a name or literal of 256 characters or more in an expression is stored behind the end
  of the parser's token (expression.c:149, 276; `compiler`, `InBounds`);
* `a[i] == b` does not compile, since any `=` behind the bracket is taken for an
  assignment (expression.c:351). A sign behind an operator is a decrement or an
  increment of the term: `x * -y` is compiled to `DECR`, `MUL` and `1 - -x` to `DECR`,
  `SUB`, because the sign is compared with itself (expression.c:480). Both are among
  the programs of `compiler`, with what the code makes of them;
* `replace` of an empty text finds it everywhere and never ends (sys.c:100). The
  model's result is then `HANGS` (`cocoons`); `TextAsDefined` speaks of results that
  are texts;
* `render` takes the last letter of a name that has no blank before `}}`, crashes
  on `}}` without `{{`, keeps the length of an unknown name for the next one and,
  without a second argument, reads one that was not given (web.c:79-99);
  `TemplateFilled` is about templates whose braces all belong to known variables
  followed by a blank. A value that holds its own placeholder is replaced for
  ever; no such value is among the inputs;
* `cookie` finds only the first cookie, since the names of the others start with the
  blank behind the semicolon, and crashes when there is no cookie at all
  (web.c:160); `PairsFound` is stated about names as they stand in the text;
* `fromPost` returns the whole body, where docs/cocoons.html:28 says "gets a value
  of POST key" (web.c:357);
* `true`, `false` and `null` inside a document are lost when it is converted as a
  whole (var.c:305); `PathsAgree` says that is the only difference;
* the loss of the database server looks like the end of the rows (db.c:111), and a
  query without a result gives a NULL that `fetchRow` follows (db.c:109).

`Framed` excludes responses of programs that failed from one conjunct: error
texts do not start the body (larva.c:449), so they may stand among the headers.

## 5. Proofs

`ChallocProofs` proves, for every `NChunks`, `MaxAllocators` and `Foreign`
(assuming the first two positive and the malloc'ed addresses none of the pool's):

* `TypeCorrect`, `NoAliasHolds`, `ConservationHolds`: `Spec => []TypeOK`,
  `[]NoAlias`, `[]Conservation`;
* `GrowthHolds`: the action property `GrowsOnlyWhenAllInUse`;
* `Refinement`: `Spec => Pool!Spec`.

The inductive invariant is `IInv == TypeOK /\ NoPoolNoList /\ Confined /\ NoAlias
/\ Conservation`. `NoAlias` alone is not inductive: a fresh allocator's chunks
must be known to be on no stack and in nobody's hands yet, which is `Confined`
(every address in circulation belongs to a linked allocator or to malloc).
`TakeStep`, `GrowStep` and `GiveStep` carry the argument: whichever stack an
address goes to or comes from, it moves between `live` and exactly one entry.
Growth needs `Conservation` as well: if every stack is empty, all chunks are live.

`SilkProofs` proves, for every program, stack size and level bound:

* `TypeCorrect`: `Spec => []TypeOK`, by `TInv == TypeOK /\ DefinitionKnown`. The
  strengthening is needed at `BLOCK_END`, which follows `parent_block->parent`:
  while a definition is passed over, its block is in the table;
* `BlockTableHolds`: `Spec => []BlockTable`. Only `BlockDef` changes the table or
  the patches; it executes an instruction that is not patched yet, so no earlier
  block is entered behind it.

What `Min` and `Max` of a set of naturals are is proved from the well-foundedness
of `<` (`LeastOf`, `LeastExists`, `GreatestExists`).

`SkipProofs` proves, for every program in which blocks are nested fewer than
`ByteMod` deep and `skip_mode` is only set in front of one (`Structured`):

* `SkipStaysInside`: `Spec => [](skip_mode => pos <= Len(prog))`. Code that is passed
  over ends before the byte-code does; this is the safety half of `SkipEnds`;
* `SkippedCodeHolds`: `Spec => SkippedCodeIsInert`, if moreover no block contains
  `ADD_ELEM` (`NoAddInBlocks`) and no name is given to two blocks (`DistinctBlocks`).
  All programs of `silk_leaf` are of this kind.

`level` alone says nothing, as it is a byte that may wrap; the invariant `SInv` relates
it to the program: what has been opened since `skip_mode` was set is at most the depth
of nesting at `pos`, and as long as nothing has been opened `BLOCK_START` comes next.
The hypotheses are where the code relies on its input: larva_silk executes `ADD_ELEM`
also while it passes over the block, and `block_add` refuses a second block of a name,
after which the end of its definition follows the `parent` of NULL. `DistinctBlocks` is
more than the code needs (two blocks may contain blocks of the same name), but it is
what can be said of a program without running it.

`WebServerProofs` proves, for every set of threads, requests and files:

* `TypeCorrect`: `Spec => []TypeOK`, which says that the thread at a place between a
  lock and its unlock is the one that holds the mutex;
* `FramedHolds`: `Spec => []Framed`. While a request is served, `Response` says how
  far its output has come: before the separator only headers (or, after an error,
  texts), with the body not yet noted as started; behind it only text. `Framed`
  itself speaks of threads that are idle again, so it is not inductive;
* `FreedOnceHolds`: the action property `FreedOnce`. `Life` ties the place in
  `thread()` to the tables and to the error flag: wherever a longjmp may start from,
  and at either call of larva_stop, the tables are live.

The invariant is `IInv == TypeOK /\ \A t : Response(env[t]) /\ Life(env[t])`. Both
parts are about one thread's record, so a step of another thread keeps them: the
proof is one lemma per step of one thread.

`DbProofs` proves, for every set of queries and results:

* `InSyncHolds`: `DbSpec => []InSync`. The invariant adds `OneOpen`, which names the
  one result that may be unread, and that it was opened by `query`: the result that
  `row_` opens is closed in the same call;
* `RowsInOrderHolds`: `DbSpec => []RowsInOrder`. `AllFetched` counts: what has been
  handed over of a result is exactly the rows in front of its cursor.

`EmissionProofs` proves, for every alphabet, every size of the buffer and every
sequence of instructions of any length:

* `PassAsFetch`: for every sequence of bytes, compiled or not, the two switches of
  `larva_silk` agree on where an instruction ends. The shortcut for bytes from 32 on
  is right because no opcode with operands has such a number (`SkippableBare`);
* `ReadBackHolds`: `EmissionSpec => []ReadBack`, what is fetched is what was emitted;
* `OnBoundaryHolds`: `EmissionSpec => []OnBoundary`, also after definitions have been
  overwritten;
* `BufferFitsHolds`: `EmissionSpec /\ []ShortLiterals => []BufferFits`. The hypothesis
  is the one the code leaves unchecked (section 4).

They assume of the constants what the code's have (`BytecodeAssumption`): the first
allocation is at least one growth, a growth is at least a double and a token with
its length byte, and a token's length fits a byte. What goes in front of the
invariant is a lemma for each `bc_add_` call (`AddCmd`, `AddToken`, `AddString`,
`AddDouble`: what was there stays, what is read at the old end is the operand) and,
from them, `Emitted` for a whole instruction. `FetchLocal` says that an instruction
is read from its own bytes alone, so that neither later instructions nor an
overwritten definition elsewhere change it. The invariant then needs no induction
over the code: a function `at` gives the position of each instruction (`HoldsFrom`),
`EmitNext` extends it by one (`ExtendLayout`), `FetchNext` advances along it, and the
set of positions fetched so far stays closed under passing over (`Linked`): from each
of them one arrives at another, or at the end. `OnBoundary` follows from that, and
`ReadBack` from having reached the end of `at`. The theorems carry over to the
compiler's own specification by `ImplementsEmission`, which TLC checks.

`ValuesProofs` proves, for every `MIN_ARRAY_SIZE` and every sequence of statements:

* `ElementsFitHolds`: `Spec => [](Defined => ElementsFit)`, for programs whose array
  literals have room for their elements and for `MIN_ARRAY_SIZE` (`SizedLiterals`).
  The statements of `values` are such programs; the one of `values_push` is not.

`ElementsFit` compares the elements with what was allocated, and no operation does:
`array_push` and `array_set_elem` compare them with `max_size`. So the invariant is
`Fits`: elements within `max_size`, `max_size` within the allocation. `array_clone`
breaks even that, since it records `MAX(size, MIN_ARRAY_SIZE)` and allocates the
original's `max_size`, unless no array ever claims less than `MIN_ARRAY_SIZE`; this
is the third part of `Fits`, which every other operation keeps and `json_to_array`
does not establish. There is one lemma for each function of `Heap` (`PushMemory`,
`SetElemMemory`, `JoinMemory`, `CloneMemory`, `CopyMemory`, ...): a memory in which
all arrays fit is one afterwards, and each instruction is a composition of them.
What an undefined step leaves (status `ub`) can be any memory, hence `Defined`.

`OwnerProofs` proves, for every sequence of statements whose literals are trees
(`TreeLiterals`: what json_to_map and json_to_array build is one), however deep values
are nested:

* `OneOwnerHolds`: `Spec /\ []Supplied /\ []CleanPath => []OneOwner`;
* `NothingFreedTwiceHolds`: with the same hypotheses, the action property
  `NothingFreedTwice`;
* `SuppliedHolds`: `Spec => []Supplied`, for programs that put enough on the stack for
  their instructions (`FedPrograms`), whatever their literals. So the two theorems
  above hold for such programs with `[]CleanPath` alone (`FedOneOwner`);
* `TypesAgreeHolds`: `Spec /\ []CleanPath => []TypesAgree`, for such programs, if
  literals have the types of values (`TypedLiterals`);
* `TypeCorrect`: `Spec /\ []CleanPath => [](Defined => TypeOK)`, for the same programs
  and every `MaxStatements`.

`OneOwner` speaks of what variables and operands lead to, and so does not survive a
step: to free an operand safely, a datum must also be known not to be pointed to from
inside another value. The invariant `OInv` (with `Ready`) therefore speaks of pointers,
one at a time. The *owners* are the data of the stack's entries and of the table's
variables, no two of which are equal; `Holds` adds a set `K` of live data, closed under
pointers, in which every datum is in one slot of one datum only and no owner is in any.
That no datum is reached from two owners is then a lemma (`Apart`), as is that nothing
reaches itself (`NoCycle`); both are by the least counterexample on the way from the
root. `Reach` itself is a recursive function over sets: `ReachHull` shows that it is the
least set closed under pointers, which is all that the other lemmas use. There is one
lemma for what each function of `Heap` does to a heap and its owners (`FreeHolds`,
`CloneHolds`, `CopyHolds`, `MoveHolds`, `PushPlaced`, `JoinHolds`, ...), some for the
stack and the table, and one for each instruction. `TLC` checks `OInv` too, with the
union of what the owners reach as `K`, on all states of `values`.

`Supplied` is about the text of a program, but not about one instruction: `stack_clear`,
RETURN and BLOCK_END take away whatever carries the tag of the level, and some
instructions tag what they push while others do not. A statement is `Fed` if each of
its instructions can be annotated with a level, at most 255, and with the tags of
entries that are sure to be on top of the stack in front of it, as `Leaves` says of each
instruction; a tag may be unknown, and what is not sure is left out. The invariant
`FInv` is that the rest of the statement is fed with what the stack really holds.
Every statement of `values` is `Fed`; `h(a) + h(b)` (section 4) is not, since the first
result has the tag that the second call clears.

`TypesAgree` and `TypeOK` need to know of every var, not only of those that are reached,
that its data have its type: a freed array's slots are still vars of the heap. The
invariant `TInv` (with `Typed`) says so of the stack, the table and every slot of every
datum, and that a reference is to a name of the table; TLC checks it on all states of
`values`. Since nobody removes a datum or
a name, and no function changes a datum's kind (`Grows`), what has been true of a var
stays true (`AgreesMore`), so that each instruction only has to answer for the vars it
writes: there is again a lemma for each function of `Heap` (`CopyAgrees`, `PushAgrees`,
`MapAddAgrees`, `JoinAgrees`, ...) and for each group of instructions. `op_copy` is where
it could fail, as it keeps the data it finds when the sizes match. `TypesAgree` follows
with `OInv`, by which what is reached is not freed (`TypedReads`). For `TypeOK` the
invariant `LInv` adds the counters and tags: `gl_level` is a level because the rest of
the statement is fed at it. `Defined` is there because an undefined step may leave
anything.

What remains as hypothesis about the run is `CleanPath`: `v2` is without data when a
path is copied into it, where the code does not look. `values` checks it, and programs
that compile can violate it: that is `values_access`, where `OneOwner` itself breaks.

Only model-checked: liveness (`SkipEnds`, `Answered`, `Compiles`), which needs
fairness and `ENABLED`; `ImplementsLeaf`, whose mapping counts brackets, and
`NoUndefined` and `CallLeavesOneResult`, which hold for compiled programs and not for
every byte-code, and depend on what each fragment leaves on the stack, so that a proof
would go by induction over the program's structure; what `Compiler` and `Cocoons` add to `Emission` and `Db`, which
reach recursive operators (a grammar, a search that starts over), `ImplementsEmission`
among them; and the other properties of `Values`: `CleanPath` and `Defined`
hold for the statements of section 3 and not for all, and `ImplementsStore` compares
values down to the depth `Nesting`.

## 6. Not modelled

* `console.c`: options around one larva_init, larva_digest, larva_silk, larva_stop.
* `debugger.c` and `get_file_contents`: dumps and reading, without state.
* `session` of the web cocoon: unfinished, it reads and writes through a pointer
  that is never set. `secret`: bcrypt's. `get` and `post`: empty.
* Arithmetic on doubles, and how values are put out (`var_echo`'s layout).
* The `VAR_POINTER` branches of `op_copy` and `var_unset` (operator.c:33, var.c:398):
  only the db cocoon makes such values, and `Db` models the connection and the result
  they stand for, not their copies.
* The hash of the tables: a table is one chain, which is the case where a lookup
  can go wrong.
* Vendored code. Of the repository's C lines three quarters are other people's:
  the MySQL client's headers under `cocoons/db/include` (18 700 lines), jansson
  and crypt_blowfish. Bombyx' own are about 6 400 with headers, and the models
  stand for some 4 100 of them; most of the rest are declarations, comments
  and the parts above.

## 7. Plan

1. `Defined` of `Values`: what has to be said of a program's operands, paths and
   indices for no instruction to be undefined, on top of `TypesAgreeHolds`.
2. `trim`, which is not recursive, against its definition.

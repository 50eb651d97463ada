# A verification project for llvm-downgrade

llvm-downgrade reads an LLVM module (bitcode or textual IR of the host LLVM) and
writes it as the bitcode of an older release: 5.0, 7.0, 14.0, 18.0 or 20.0. It
is a C library (`include/llvm-downgrade.h`), a command-line tool on top of it,
and, per target, a *module rewriter* that changes what the old release cannot
express, a *value enumerator* that numbers everything the records refer to, and
a *bitcode writer*. This directory holds TLA+ modules translated from that
source, TLC configurations that check them on small instances, and theorems
checked by TLAPS.

## 1. The system

```
 caller threads --LLVMDGDowngrade--> lib/llvm-downgrade.cpp   (APILock)
   |  argv, files                      | parseIR (external: LLVM)
 tools/llvm-downgrade.c                | prepareModule        src/ModuleRewriterNN.cpp
                                       |   PointerRewriter::run  src/PointerRewriter.cpp (5.0, 7.0, 14.0)
                                       | WriteBitcodeNNToFile src/BitcodeWriterNN.cpp
                                       |   buildPointerMap, orderedPointerTypes
                                       |   ValueEnumerator    src/ValueEnumeratorNN.cpp
                                       v
                             LLVMDGMemoryBuffer, owned by the caller
```

| component | state | operations | talks to | hard behaviour | what makes it correct |
|---|---|---|---|---|---|
| C API, `lib/llvm-downgrade.cpp` | the process-wide mutex; per call a context and its Module; heap buffers and messages | `LLVMDGDowngrade`, the two dispose functions | host threads; parser; rewriters and writers under the lock; exceptions out of them | concurrent callers, early returns and exceptions under a lock, ownership across an error, a fatal error that ends the process | calls are serialized, the lock is always given back, every output is explained by the caller's own arguments, one owner per buffer |
| driver, `tools/llvm-downgrade.c` | position in argv, options, the growing buffer, the files | scan, `readAll`, the API call, writing | C library, the API | a failure of every libc call, buffer boundaries, input = output | the whole input is read, no file changes before success, status 0 means the output is on the device |
| pointer rewriter, `PointerRewriter.cpp` | the IR of a function, the pointer map | six passes of `run`, `buildPointerMap`, `orderedPointerTypes` | rewriters, writers (through the map) | passes that see each other's insertions, phis, forward references, cyclic initializers | what the writer emits type-checks in typed-pointer LLVM and computes the same |
| module preparation, `ModuleRewriterNN.cpp` | the function list, names, calls, flags, attributes, records | one pass each for freeze, fneg, lifetime, alignment arguments, names, flags, attributes, records | PointerRewriter, API (rejections) | loops that change the list they walk, name collisions, failure in the middle | the target's reader recognizes every intrinsic; what is dropped is a hint |
| value enumerator, `ValueEnumeratorNN.cpp` | `Types`/`TypeMap`, `Values`/`ValueMap`, the cast slots, the marks | the constructor, `incorporateFunction`, `purgeFunction` | pointer map (types), writer (IDs) | recursion over a DAG, a sort of numbered things, state left by one function for the next | numbers are those the reader counts; a number written is never changed |
| its metadata half | `MDs`, `MetadataMap` with function tags, strings, per-function ranges | `EnumerateMetadata`, `organizeMetadata`, `incorporateFunctionMetadata` | writer | one worklist for a cyclic graph, function-local nodes that become shared | each node is numbered once, in a range every user can see |
| bitcode writers, `BitcodeWriterNN.cpp`: the order of things | the bit stream, back-patched positions, the instruction counter | one block per kind of record | enumerator, pointer map | offsets filled in later, relative operand numbers, forward references | a legacy reader gets the module back |
| the same five files: the records | the last type, the last location, the instruction counter, abbreviations | `writeInstruction`, `writeConstants`, `writeTypeTable`, `writeModuleInfo`, debug locations and records | enumerator, pointer map | codes, fields and flags that each release added, moved or never had; short forms that leave fields out; abbreviations with no room | the reader of *that* release understands each record, or the writer says it cannot write it |
| attributes: `EnumerateAttributes`, `encodeAttributeNN` | groups, lists | counting, then writing | enumerator's types | what a release does not know is left out of three tables that must agree | each list says what the release has of it |
| metadata records | the abbreviations, the index and its placeholder | one write function per kind of node, strings and their blob, names, attachments | metadata half of the enumerator | a reader that jumps by the index instead of walking | the reader gets each node, by itself and by the index |
| error reporting, `DowngradeError.h` | none | `reportError` throws | API | unwinding through the writer | see C API |

Not part of the program: `test/`, `ci/`, the build files. `LegacyOpts` holds the
command-line options LLVM would register, all at their defaults.

## 2. Modules

| module | models | lines of the source |
|---|---|---|
| `DowngradeTypes` | requests, documents, reasons for an error | shared by the next two |
| `DowngradeService` | the *abstract specification* of the API: a call is answered atomically, by a buffer of its own or an error its request explains | the comment over `LLVMDGDowngrade` |
| `DowngradeApi` | the API as the code runs it | `LLVMDGDowngrade`, `fail`, dispose |
| `DowngradeCli` | the command-line driver | `readAll`, `main` |
| `PointerRewriter` | the passes of `run`, `buildPointerMap`, `orderedPointerTypes` | `PointerRewriter.cpp:330-790` |
| `TypedModule` | what typed-pointer LLVM requires of the result (types, dominance, placement) and what it computes | external: the legacy verifier, plus the writers' use of the map |
| `PrepareModule` | `prepareModule` of all five targets up to the pointer rewriter | `ModuleRewriterNN.cpp`, the intrinsic passes of `PointerRewriter.cpp` |
| `ValueEnumerator` | types and values, for each target | `ValueEnumerator140.cpp` and its four siblings, told apart where they differ |
| `BitcodeWriter` | the records of types, globals, constants and instructions, in their order; offsets | `BitcodeWriter140.cpp`, and its siblings where they reject |
| `LegacyReader` | the old release's reader, counting for itself, and what the writer owes it | external |
| `MetadataEnumerator` | metadata, its function tags and ranges | `ValueEnumerator200.cpp` |
| `Records` | what a record is, and what the five writers share | the constants every writer takes from the enumerator |
| `Writer50` `70` `140` `180` `200` | constants, instructions, debug locations and records, abbreviations | `writeConstants`, `writeInstruction` and what they call, of each file |
| `Tables50` .. `Tables200` | types, globals, attributes | `writeTypeTable`, `writeModuleInfo`, `writeAttribute*Table`, `EnumerateAttributes` |
| `Debug50` .. `Debug200` | metadata | the `writeDI*` functions, `writeModuleMetadata`, `writeFunctionMetadata` and the attachments |
| `RecordReader`, `TableReader`, `NodeReader` | what a release takes the numbers of a record for, and what it can hold at all | external |
| `RecordWriter` | one record after the other, with what writer and reader remember in between | the loops that call the above |
| `DowngradeApiProofs`, `DowngradeCliProofs`, `PrepareModuleProofs`, `ValueEnumeratorProofs`, `MetadataEnumeratorProofs`, `PointerRewriterProofs`, `RecordProofs` | theorems, section 4 | |
| `SequenceLemmas` | what removing from a sequence and flattening one do, for the proofs | |
| `MC*` | instances | |

How they compose: `DowngradeApi` INSTANCEs `DowngradeService` under the
refinement mapping `phaseBar`; `TypedModule` EXTENDS `PointerRewriter` and states
the properties of its result; the constants `Malformed` and `Unsupported` of the
API stand for the parser and for the rejections that `PrepareModule` and
`PointerRewriter` model (`failed`, step `"error"`). The value types and demotions
`PointerRewriter` produces are why `ValueEnumerator`'s instances have a
pointer-typed constant expression in a body only for 20.0, which it does not
rewrite. `BitcodeWriter` EXTENDS `ValueEnumerator`: the enumerator's actions are
steps of the writer (`Enumerate`), before the first record and again inside each
function. `LegacyReader` EXTENDS `BitcodeWriter` and reads the finished stream.

The records are a second model of the same files, at another grain. `BitcodeWriter`
has the numbers, positions and order of a whole module with few kinds of records;
`RecordWriter` has every kind of record of all five releases with the numbers given.
`WriterNN`, `TablesNN` and `DebugNN` have no state: each is the pure part of one
`BitcodeWriterNN.cpp`. A later release's module holds what differs and delegates the
rest to its predecessor's by name, as the files themselves were copied from one
another. The readers are a chain of EXTENDS (`Records`, `RecordReader`,
`TableReader`, `NodeReader`), at whose end `RecordWriter` INSTANCEs the fifteen
writer modules.

### C API

A caller is a thread of the host program, with the two variables it passes
(`outBitcode`, `outMessage`, garbage between calls) and the results it keeps.
`Call` is the code up to the lock; `Acquire`, `Parse`, `Write`, `HandOver`,
`ParseError` are the guarded block; `Reject`, `Throw` unwind out of it (the guard
is destroyed *before* the handler runs `fail`, which the model keeps: `Fail` runs
unlocked, `ParseError` locked); `Fatal` is an LLVM assertion or
`report_fatal_error`. An allocation is a free handle; a failed `malloc` in
`fail` leaves the message null.

### Command-line driver

One action per branch of the scan, then one per phase. A file is a size and what
it holds. Files are opened, read, truncated, written and closed by separate
steps, each with the failures libc can report.

### Pointer rewriter

A module is its globals, function signatures with their pointee information,
constants, and one function body. A pass collects its slots first, exactly as the
code copies its worklists, and inserts simultaneously; the inserted casts are
named after their slot. `Rewritten` is the builder: before the user, at the end of
the incoming block for a phi, after the definition. `buildPointerMap` produces a
*set* of facts, so that two different types for one value (an assertion in the
code) are visible as two facts. `TypedModule` then plays the legacy reader:
`Typed(v)` is what the value is written as, and each instruction's rule says what
the old verifier requires.

### Module preparation

A module is the list of functions (with address spaces, widths and names), the
calls of them, chains of freezes and negations, module flags, attributes and debug
records. `Passes(target)` lists the passes of a target in the order of its
`prepareModule`; `turn` is the one that runs. Passes whose loop changes the list it
walks are one action per iteration: `cursor` is the iterator, the function that is
visited next, and has moved on (`After`) before the body runs, as the code's
`make_early_inc_range` does; `loopDone` is the test that ends the loop. Names are a
base, a mangling and the number `setName` appends on a collision. `Verified` says
which modules there are: what the verifier lets through, with the parameters that
this release's intrinsics have and the names it asks for (`Modern`), each given once.

### Value enumerator

The recursive functions `EnumerateType`, `EnumerateValue` and
`EnumerateOperandType` are the frames of an explicit stack, one action per call
and per return, because their early returns depend on tables the nested calls
change. The constructor's loops are phases; `Incorporate` .. `purgeFunction` are
run once for each function in turn, as the writer does. `Complete` is the writer's
constructor, which enumerates the typed pointers of the pointer map before any
record is written.

### Metadata enumerator

The walk of `EnumerateMetadata` is already iterative in the code; an action visits
one operand or leaves one node. `dropFunctionFromMetadata` is a closure over tagged
metadata. `organizeMetadata` is one action (it touches nothing else on its way); its
sort is given by the place of each element, the number of those that precede it.
`EnumerateFunctionLocal` is one element of the two vectors that
`incorporateFunction` collects.

### Bitcode writer

The stream is a sequence of items: records and the entries and exits of blocks,
each with the position at which it begins (a record is one unit long, a block
begins and ends with a word, as `EnterSubblock` and `ExitBlock` align it). An
action of `BitcodeWriter` is a part of `write()`: the type table, the globals with
the placeholder for the symbol table's offset, the module's constants, then for
each function `BeginFunction` (its position goes into `FunctionToBitcodeIndex`),
`WriteFunctionConstants`, one `WriteInstruction` for each instruction, `EndFunction`
(names, attachments, `purgeFunction`), and last the symbol table, which fills in
the offsets. `Fields` says of each kind of instruction which operand is written
relative with its type, relative, signed, absolute, or as a type; `PushValue` is
modulo the width of `unsigned`. What a record holds beside numbers stands in its
`name`. An input the writer reports an error for ends in the stage `"rejected"`.

The reader of `LegacyReader` takes every number from the stream, and reads one item
a step; the layout of an item it takes from the item's name, which stands for the
code of the record. It counts types, values and instructions as it meets them; `Layout` is its
own idea of the fields of an instruction. Values it does not have yet are looked
up at the end of the block, and must then have the type that was announced.

### Records

A behaviour of `RecordWriter` is one *section* of the bitcode of one release: types,
the module's globals, attributes, metadata, a function's body, or constants. An item
(a type, an instruction, a node ...) is a record whose fields are named for what they
hold. An action writes an item (`records`, the numbers and the abbreviation used) and
the reader of the release follows at once (`got`). `writer` and `reader` hold what
each side remembers from one item to the next: `InstID`, the last debug location, the
type of the constants, the name that waits for its struct. A writer that calls
`reportError` writes no record, and the section ends.

The reader knows its own release only: `RecordReader` describes a record by its
fields, so that one that is too short, too long or of an unknown code is malformed.
What a property compares `got` with is `InRelease`, `TypeIn`, `ModuleIn`,
`AttributesIn`, `ConstantIn`, `NodeIn`: the item as that release *can* have it, with
every loss named (a flag, an alignment, a field that was added later). An unnamed
loss, or a value in the wrong field, is a violation.

Attributes are written in two steps, as in the code: the lists are enumerated one by
one (`Enumerated`, which leaves out a group of which nothing can be said), then the
two tables are written from the result. A metadata block is written whole, with the
placeholder of the index, the differences in it and the named metadata; the reader
reads it a second time by jumping.

## 3. Runs

| run | instance | question |
|---|---|---|
| `api` | two threads, two handles, three documents, five requests: one that can succeed, with and without a message pointer, a parse error, a rejection by the writer, a null pointer with a target that was not built | what calls return, own and leave behind; `Implements`: the abstract service; and that a waiting call returns. No request of this instance is refused for its version alone or for a null output pointer: there only the theorem `Refinement` speaks |
| `cli` | every argv of up to three of 11 words, and five complete ones; sizes 1, 3, 4, 8 against buffers 2, 4, 8 and a SIZE_MAX of 9 | the driver |
| `pointer_rewriter` | 4,550 bodies: an entry, a left and a merge block in two layouts, every instruction kind over every kind of pointer, a phi of the results, a variable with an array of block addresses | the rewritten body and the map |
| `phi_edges`, `invoke`, `landing_pad` | bodies with a doubled edge, an invoke, a clause | violations, section 6 |
| `prepare` | every target times lists of up to three intrinsics, with and without calls, with each chain and flag list | the prepared module |
| `address_spaces` | intrinsics outside address space 0 | violation, section 6 |
| `writer` | 400 modules: a structure that points to globals, block addresses, cast slots, constants in metadata; two functions whose first body has every way to write an operand, with operands before it, after it and itself; five targets; with and without a Mach-O wrapper; what each target rejects | the numbering, and the stream read back |
| `metadata` | 8,352 modules: graphs of two uniqued and two distinct nodes with cycles, roots in the module and two functions, locals and a DIArgList | tags, ranges and order |
| `records` | five releases, six sections: every kind of instruction, constant, type, attribute and metadata node with its flags and optional fields one by one; globals that each differ from the usual one in one thing; every way to touch memory | what the reader of the release makes of each record |
| `constant_gep` | the same instance | violation, section 6 |

What the properties say (`TypeOK` of the API is the one type invariant that is a
property of a run: it is where handles and garbage could mix):

* **API.** `Serialized`: never two loaded modules. `ReturnContract`: status,
  buffer and message of a returned call agree with its request. `Ownership`: each
  live buffer or message is reachable from exactly one caller. `KeptStable`: only
  its disposal changes a kept buffer. `UncontendedReturn`: every path out releases
  the mutex, so a waiting call returns once the others stay out. `Implements`:
  `DowngradeService` is refined.
* **Driver.** `ReadsWholeInput`: what the API is given is the whole file, also one
  that fills a buffer exactly. `FilesKeptUntilResult`: no file changes before a
  call has succeeded. `ExitContract`: everything is freed, and status 0 means the
  output is complete on the device. `Terminates`.
* **Pointer rewriter.** `WellTyped`: every rule of the typed verifier, for bodies
  and for global initializers; `MapSound`: the assertions of `buildPointerMap`, one
  type for each value, every type enumerated before the type table is written;
  `Placement`: where casts may stand (dominance, phis, terminators);
  `ForwardRefsOpaque`: only opaque-typed values are used before their definition is
  read; `MeaningKept`: without the casts it is the old body.
* **Preparation.** `ReaderKnows`: each intrinsic has the spelling and the number
  of parameters of the target release; `CallsMatch`: no call dangles or
  promises more alignment than before; `MeaningKept`: what computes computes the
  same, and only hints are dropped; `RejectsExactly`: rejected iff a documented
  reason holds of the *input*, whatever earlier passes did; `Terminates`.
* **Enumerator.** `TypeTable`: no type twice, parts first. `Numbering`: Values and
  ValueMap are inverse, cast slots included. `ReaderNumbering`: globals, arguments,
  constants and instructions have the numbers the reader counts.
  `EverythingNumbered`: whatever a record of a function names has a number.
  `PoolsOrdered`: integers first, one run per type. `AggregatesBridged`: each
  pointer an aggregate names has its bitcast's slot. And two action properties:
  `TypesFrozen` (the type table is written before functions are) and
  `NumbersFrozen` (module numbers survive every function).
* **Writer.** `ReadBack`: the reader, which counts for itself, gets back every
  global, constant, instruction, type, name, debug location and attachment, and
  every forward reference has the type that was announced for it. `FoundByOffset`:
  the patched offsets lead to the symbol table and to the bodies.
* **Metadata.** `MetadataNumbering`: MDs and MetadataMap are inverse through the
  walk, the sort and every purge. `Visible` (`TagsExact`, `Resolvable`): a function
  owns exactly what only it reaches, compared with plain reachability from the
  roots, and nothing written refers to another function's metadata. `ReaderOrder`
  (`StringsFirst`, `PostOrder`): what the comment in `EnumerateMetadata` promises
  the reader.
* **Records.** `TablesReadBack`: every type as it was, under its own name; every
  global with its own name, section, partition and type, in whichever form it was
  written. `AttributesReadBack`: every list says what the release has of it, no more
  and no less, and of memory the least that allows everything the function does.
  `FunctionReadsBack`: every instruction, with the count of values on both sides, its
  own location and its debug records. `ConstantsReadBack`: every constant with its
  type, whatever type was set last. `MetadataReadsBack`: every node, by itself, in
  its block and by the index. In all of them an item is rejected only for a reason its
  release gives. `AbbreviationsFit`: no number outgrows the abbreviation it is written
  with. `TooAligned`, `NodeGap` and `KnownGap` name the three exceptions, section 6.

Bounds, and why they are enough. Two callers: every property is about one call or
a pair of them; two handles let one keep a buffer while the other call makes its own,
and let both run out of memory. The
driver's sizes lie below, on and above each doubling. The pointer rewriter has no
interaction between more than two instructions and the block of a phi; the
instance has all pairs of (first, second) use kinds that share a value. Intrinsic
lists of three have a function before, at and after the one that changes the list.
Two functions are the least that show what one leaves for the next. `unsigned` is
64 numbers wide in the writer's instance, more than the values it has and few
enough for a wrapped number to be told from a small one; a word is three units, so
that positions need every amount of padding. For the records,
`Width` is 2^20, an `uint64_t` has 256 numbers and a `char` 256, so that the least
integer and a byte with its highest bit set occur; the types of values repeat, so
that every operand occurs before and after its user; one record is enough to get an
index (`IndexThreshold` 1; LLVM sets 25). The records of a section do not depend on
each other but through `writer` and `reader`, so the instance lets any item follow
any other, and needs no longer modules. `LastInst` caps `InstID` there: 12 numbers, a
round and a half of the eight types, so that each is defined by an instruction and
awaited by an earlier one. No other counter is capped: the behaviours of the other
instances are finite of themselves, but the API's, which is bounded by its handles.

Fairness. `DowngradeApi` assumes that a thread inside a call keeps running (weak
fairness of `Step(c)` per caller) and nothing of the mutex: `std::mutex` is not
fair, so a waiter's return is claimed only when the others stay out. The caller's
own steps (`Call`, `Take`, `Dispose`) have none. `DowngradeCli` and
`PrepareModule` are sequential programs: weak fairness of `Next` says that they
are not stopped from outside. The other modules claim no liveness. Every run sets
`CHECK_DEADLOCK FALSE` because its system may stop: the process ends or a fatal
error ends it, callers need not call again, a module is rewritten once.

## 4. Proofs

`DowngradeApiProofs` proves, for every set of callers, handles, documents,
versions, targets and requests that meets the assumptions of `DowngradeTypes`:

| theorem | statement |
|---|---|
| `TypeCorrect` | `Spec => []TypeOK` |
| `CallsSerialized` | `Spec => []Serialized` |
| `ReturnsCorrect` | `Spec => []ReturnContract` |
| `OwnershipCorrect` | `Spec => []Ownership` |
| `KeptBuffersStable` | `Spec => KeptStable` |
| `Refinement` | `Spec => Implements` |

The argument. `ReturnContract` and `Ownership` are not inductive: that a returned
call is right depends on what its earlier steps checked, and that a disposal frees
nobody else's buffer on who holds the lock and what the outputs are while a call
is under way. `IInv` adds `LockInv` (the lock and the program counters tell the
same story, and a module is loaded only under the lock), `PathInv` (what has been
checked on the way to a location), `OutputInv` (outputs that were given are null
until the call returns and garbage between calls) and `MessageInv` (no message is
held twice). One lemma per conjunct shows it preserved, one step per action;
`Invariance` combines them with PTL. `Refinement` uses `IInv`: `HandOver` maps to
`SSucceed` because `PathInv` makes the request servable, each failing path to
`SFail` because `error` is in `Reasons`; steps up to the answer stutter.

`DowngradeCliProofs` proves, for every command line, every set of files of any size,
every first capacity and every SIZE_MAX, `Spec => []ReadsWholeInput`
(`WholeInputRead`), `Spec => []ExitContract` (`ExitsClean`) and
`Spec => FilesKeptUntilResult` (`FilesKept`). `IInv` is `TypeInv`; `Untouched` (up to
the call no file has changed); `BufferInv` (the buffer is never overrun and holds the
whole input behind `readAll`); `HeldInv` (which of input, result and message `main`
holds at each location); and `OutputInv` (what the output file holds while it is
written). One lemma, `Invariance`, one step per action.

`ValueEnumeratorProofs` proves, for every module that meets `UnitsAssumption` and
`NestingAssumption`:

| theorem | statement |
|---|---|
| `TypeTableCorrect` | `Spec => []TypeTable` |
| `NumberingCorrect` | `Spec => []Numbering` |
| `ModuleNumbersKept` | `Spec => NumbersFrozen` |

`TypeTable` needs `PartsInTable`: at each frame of the explicit stack, the parts the
frame has walked past are in the table or called further up. `NumberingInv`
adds four conjuncts to `Numbering`. `TypeInv` and `ValuesTyped` are the types of the
variables.
`OpenValues`: a value whose parts are being enumerated has no number yet. This is where
`NestingAssumption` comes in: the constants of a module nest, so a value is no part of
its own parts, and the frame that finally numbers it still finds it without one.
`ModuleSlots`: the slots reserved for bitcasts come after the sort of the module's
constants and before what a function adds and sorts, so no sort moves one. The sort
of `OptimizeConstants` keeps values and their numbers inverse because a permutation of
a range hits each place once (`FS_Injection`).
`NumbersFrozen` follows because every action of a function's walk appends or, in
`purgeFunction`, cuts back to the module's length.

Three more theorems about what the numbers are *of* also need `ScopesAssumption`: the
globals are different values, and so are the arguments and instructions of a
function, of which nothing outside is made and which no other body uses.

| theorem | statement | inductive invariant |
|---|---|---|
| `ReaderNumberingCorrect` | `Spec => []ReaderNumbering` | `ScopesInv` |
| `EverythingNumberedCorrect` | `Spec => []EverythingNumbered` | `CallsInv` |
| `PoolsOrderedCorrect` | `Spec => []PoolsOrdered` | `PoolsInv` |

Each invariant contains the one before, from `NumberingInv` on. `ReaderNumbering` speaks
of a finished list of globals, arguments or instructions; `ListedInOrder` is the same
in the middle of a loop: the values so far are the items so far, the one that
is being enumerated excepted (`Pending`), and an item to come has no number. That
nothing inside an activation can number the next item is `LoopsInv`: the three
listing loops call one value and then types only, every other loop calls nothing that is
inside of a function. `LocalsScoped` is what makes the second function's list begin
afresh. `EverythingNumbered` speaks of bodies whose two loops are over;
`CallsSettled` says of an unfinished one that each call it needs is settled by the
tables, or still to be made, or at the bottom of the stack, and `FirstCalled` that an
activation that has begun has its type in the table or right above it. `PoolsOrdered` is what
the sort establishes; `ModulePool` and `FunctionPool` keep it: the module's constants
end below the bitcast slots, and a function adds and sorts beyond both.

These inductive invariants were checked by TLC on the instance of `writer` before they
were proved.

The last two are about what the constructor has met when it is done:

| theorem | statement | inductive invariant |
|---|---|---|
| `TypesFrozenCorrect` | `Spec => TypesFrozen` | `FrozenInv` |
| `AggregatesBridgedCorrect` | `Spec => [](~DataGap => AggregatesBridged)` | `BridgesInv` |

`TypesFrozen` holds because two walks that look different meet the same types: the
constructor's over the operands of each body, which knows operands without numbering
them, and `incorporateFunction`'s, which numbers them. Nothing but the whole history of
the first says what is in the table when the second begins. `ChildrenSettled` follows
an activation: what it has called for is settled with all its parts (`DeepIn`), but for
the call right above it; so one that ends has settled all of them (`EndSettlesDeep`),
and a value with a number has them (`ValuesWhole`). `LoopAsked`, `GlobalsAsked` and
`BodiesAsked` follow the loops, from one iteration to all functions. Then `AllQuiet`:
once the constructor is done, each call that is to be made or under way is for something
whose every type is in the table. What is a part of what is the recursive function
`MadeOf`; `MadeOfUnfolds` proves its equation, from the least set closed under operands.
Four assumptions say what the walks rely on without checking it. `ConstantsAssumption`:
only a getelementptr expression has a source type. `ArgumentsAssumption`: the
attributes of an argument are in the list of its function. `CasesAssumption`: the type of
a case value is that of the condition, and a shuffle mask is made of numbers.
`DemotedAssumption`: up to 14.0 a body has no pointer expression left, and no aggregate
that points somewhere, since `demotePointerConstants` (`PointerRewriter.cpp:107`) has run.
Without the last, `TypesFrozen` would not hold of 5.0 and 7.0, whose walk over operands
does not look for source types.

`AggregatesBridged` joins three facts. `ValueOrigins`: a constant with a number is part of
an initializer, an aliasee, the data of a function, metadata, or a body (`ComesFrom` says the same
of a call). `CastsReserved`: the loop for bitcasts ends when all that initializers reach
have a slot. `CastsLast`: no value of the module comes after such a slot, whatever the
functions add, sort and purge. `DataGap` excepts the aggregates that initializers do not
reach, section 6.

The last section of `ValueEnumeratorProofs` lifts the eight theorems to the composition: `WritingEnumerates`
is `RSpec => Spec` (every step of writer and reader is a step of the enumerator or
leaves its variables alone), and `WrittenTypeTable`, `WrittenNumbers`,
`WrittenNumbersKept`, `WrittenReaderNumbering`, `WrittenEverythingNumbered`,
`WrittenPoolsOrdered`, `WrittenTypesFrozen` and `WrittenAggregatesBridged` state the
eight properties for `RSpec`, the specification that the run `writer` checks.

`MetadataEnumeratorProofs` proves, for every graph of metadata, cyclic ones included, and
every list of roots:

| theorem | statement | inductive invariant |
|---|---|---|
| `MetadataNumberingCorrect` | `Spec => []MetadataNumbering` | `NumberingInv` |
| `VisibleCorrect` | `Spec => []Visible` | `VisibleInv` |
| `ReaderOrderCorrect` | `Spec => []ReaderOrder` | `OrderedInv` |

Each invariant contains the one before. `NumberingInv` is `TypeInv`, `WalkInv` and
`FunctionsInv`. `WalkInv`, while the constructor walks: list and map are inverse
(`Matching`), but for nodes that wait for their number, each of which is on the worklist
or delayed, in one place only (`Waiting`); so a node that is left has no number yet, and
when the worklist is empty nothing waits. `organizeMetadata` then moves everything: its
sort is a permutation because `Precedes` is a strict total order on numbered things, so
that the places are different numbers up to the length, and all are taken. It establishes
`FunctionsInv`: the module's metadata and each function's stand in a range of their
own, numbered from the range's base on, and no function but those still to come and
the one that is there has any metadata left in the map. For the constants of an argument
list it needs `ListsAssumption`: the constructor has met them with the function.

`Visible` says what the tags are for: a function keeps exactly what nothing else
reaches, and nothing that is written refers to another function's metadata. While the
walk goes on a tag is only right as far as it goes, which is `TagsInv`: a tagged node is
reached from its function and an untagged one from the module or from two (`Justified`);
a node that has been left finds its operands with its own tag or none (`Sees`); and all
that waits has the tag of the walk under way (`OwnAll`). That last part is what makes
`dropFunctionFromMetadata` right, which stops at nodes without a number: a node that
waits can lose its tag only to a walk of another function, and there is none. When the
last walk ends, `Justified`, `Sees` and the tags of the roots make the tags exact
(`TagsBecomeExact`), and `SeesInv` keeps that while functions come and go; a list comes
after its parts because the two vectors of `incorporateFunction` are read one after the
other (`LocalsOrdered`).

`ReaderOrder` is about the order of what is written. `OrderInv` has it for uniqued nodes:
a node that has been left stands behind its uniqued operands, or is on a cycle with
them (`Left`), since above a uniqued node the worklist has only uniqued ones that it
leads to (`Stacked`), the distinct ones being delayed; the sort keeps that within the
module and within each function (`Preceded`), and between the two `Visible` decides.
`StringsInv` counts the strings at the head of each range (`StringsPlaced`).

`Closure` and the lists of locals are recursive functions. What is proved of them
(`ClosureClosed`, `ClosureLeast`, `FlattenedMembers`, `LocalsOrdered`) goes by induction
over a set of numbers (`AllNumbers`), from the fact that a set of numbers has a least
member (`WFMin`); a closure ends because `Metadata` is finite.

`PrepareModuleProofs` proves, for every module that meets `UnitsAssumption` and for all
five targets:

| theorem | statement |
|---|---|
| `PreparationInvariant` | `Spec => []PreparationInv` |
| `RejectsExactlyCorrect` | `Spec => []RejectsExactly` |
| `CallsMatchCorrect` | `Spec => []CallsMatch` |
| `OnlyHintsDroppedCorrect` | `Spec => []OnlyHintsDropped` |
| `UsesInvariant` | `Spec => []UsesInv` |
| `MeaningKeptCorrect` | `Spec => []MeaningKept` |
| `ReaderKnowsCorrect` | `Spec => [](~SpaceGap => ReaderKnows)` |

These properties speak of the end, and a loop that erases, appends and renames
while it walks is in between. `PreparationInv` has for it `FunctionsInv` (the list is
the parsed one without lifetime markers, each function as it was or rebuilt, no two
from the same one), `CallsInv` (each call is a parsed one that calls what its function
has become, with the alignment computed from its own), `CursorInv` (the iterator is
a place of the list, or its end, and what stands before it has been visited: the
removals and the copies at the end of the list do not disturb that) and `LoopsInv` (no
later pass undoes what an earlier loop has done to every function), `FlagsInv`,
`CheckInv` and `HintsInv` for the passes without a loop. `RejectsExactly` needs all of
them: a pass rejects by what it finds, and the property is about the parsed module.

The instructions have an invariant of their own, `UsesInv`, since no other pass touches
them. `MeaningKept` joins `OnlyHintsDropped`, about what is gone, with `UsesIntact`, about
what each instruction that is left computes with. That is a recursive function through
the whole list of instructions (`ValueOf`), and each removal and each replacement changes
the list. So the proof goes by a table again: `Table` says what each value stands for
(itself, its operand or the negation of its operand), `Ordered` that each freeze, fneg and
subtraction ranks behind the one it takes, which makes the table the one that
`ValueOf` computes (`ValuesAre`). `RewritesMean` is the step: taking an
instruction out, or putting the subtraction in, and redirecting its uses leaves a table
that gives the values left what they stood for, and the ranks right; a
subtraction gets the rank of its fneg, under a name that was free (`NamesFree`). What a
redirected use then stands for is what it did, also where its operand is redirected
later, and where the folded constant was in use before. The
pieces of the meaning are the same but for an empty one (`FlattenWithout`). `Gone` says
that the passes over freezes and fnegs, once over, have left none, and that the second
makes no freeze. `ChainsAssumption` gives the first table and the first order.

`ReaderKnows` does not hold of every module: finding 4. `SpaceGap` says which ones are
excepted, and no more than the finding does: those with a pointer outside address space
0 in one of the intrinsics whose mangling the renaming takes away without a look at the
space. For all others the question is whether `setName` ever meets a taken name.
`AllNamed` keeps what the answer needs: a function is called what it was parsed with, or
what the target calls it, and then with the space looked at. So a taken name would be
that of the same intrinsic with the same spaces and width (`SpelledApart`, from
`MangledApart`: a mangling tells them, spelled with typed pointers or opaque ones), hence
the name of two parsed functions (`NameFree`).

`PointerRewriterProofs` proves, for every module that meets `ModulesAssumption`,
`PlacementAssumption` and `TypesAssumption`:

| theorem | statement |
|---|---|
| `RewriterCorrect` | `Spec => []RewriterInv` |
| `MapSoundCorrect` | `Spec => []MapSound` |
| `PlacementCorrect` | `Spec => []Placement` |
| `ForwardRefsCorrect` | `Spec => []ForwardRefsOpaque` |
| `SlotsTypedCorrect` | `Spec => [](GlobalsTyped /\ SlotsTyped)` |
| `WellTypedCorrect` | `Spec => [](~Invoking => WellTyped)` |
| `MeaningKeptCorrect` | `Spec => []MeaningKept` |

`MapSound` is what `buildPointerMap` asserts and its caller relies on: what the map
types is a cast that a pass made for that use, no value gets two types, and each type
has been enumerated. Why that is so is spread over six passes, each of which rewrites
the body and relies on what the ones before it left. `RewriterInv` says what that is:
`Names` (no two instructions have the same name, and a name tells which pass made the
instruction, for which user and operand), `Operands` (each operand is an instruction or
one of the module's values), and the bridges, which hold from their pass on, so that
no later pass spoils them: `GlobalsBridged` (only casts and calls use a global),
`OperandsBridged` (each operand the map will type has a cast of its own, and the result
of a getelementptr or an alloca is used by its cast only) and `CallsBridged` (the
same for arguments of calls with typed parameters); `MapInv` is the map. TLC checked
them on the instance of `pointer_rewriter` first.

A pass is proved in two steps. What `Rewritten` does to a body is settled for every
body and every insertion (`RewrittenInstrs`, `CastPass`, `ExpansionInstrs`): its code is
put together by flattening sequences, which is recursive, and goes by induction over
the pieces (`ConcatsExist`, `FlattenConcats`, `RangeFlatten`), as the constant that
`demote` expands goes over its depth (`ConstantsRanked`). Then one lemma per pass
(`DemoteStep`, `GlobalsStep`, `BlocksStep`, `OperandsStep`, `CallsStep`, `ArgsStep`)
shows that it establishes its bridges and keeps the earlier ones; a call pass must not
take the cast of a typed operand away, for instance, and does not, since a call that
uses a function is by then a direct call of it (`CallsDirect`). `MapIsFunction` follows
because every fact has one of eight sources (`Entries`), which name their values
apart (`Keys`), and within a source the name gives the type (`KeysType`).

`Placement` is about the order of a block, of which `RewriterInv` says nothing: each cast
stands after what it casts and before the use it was made for, on every path (for an
operand of a phi, at the end of the edge's block); phis stay first, the terminator last,
and nothing follows it. The inductive invariant is
`PlacedInv`: `RewriterInv`, `PhisInv` (the passes leave a phi and its edges in step),
`Placement` itself, and `CastsNear`, of which below. `CodeFits` says what a pass may insert: ordinary instructions, no
phi and no terminator, whose operands are global, made earlier in the same piece, or
the operand they stand in for; that each pass inserts no more is one lemma per pass
(the `...Placed` lemmas), and `demote`, which expands a constant into nested casts, needs the
order of the expansion. `Layout` says where the pieces of a rewritten block are, and so
that what stood before a use still does (`Carried`, `CarriedToEnd`), what was inserted
reaches the use it was inserted for (`InsertedReaches`), and a cast after a definition
what that definition reached (`NewReaches`).

`WellTyped` says that a legacy verifier accepts the types of the result, and it does not
hold of every module: finding 2. `Invoking` says of which ones the finding is, those with
an `invoke`, and `SlotsTyped` is what is left of them: every operand but those of the
`invoke`s. A cast passes for whatever the map makes of it, so the argument is about what
the map leaves alone. `TypedInv` says that no pass changes the type that a value had while
pointers were opaque, nor what LLVM's own verifier wants of an operand (`BaseTyped`), that
a cast serves the operand it is named after and no other (`CastsOwned`), and, in the
manner of the bridges of `RewriterInv`, that only casts and calls use what else the map
retypes: the results of calls, blocks and arguments (`ResultsBridged`, `BlocksBridged`,
`ArgsBridged`). At the end an operand of which a legacy verifier wants more than LLVM's
does is one the map types so (`PointerSlotTyped`, `CalleeTyped`, `ArgumentTyped`), and any
other is not in the map at all (`OtherTyped`, by the eight sources of an entry). For a
global it is a matter of `GlobalValueType`, which follows the initializers with the set of
globals it has seen: what it finds does not depend on that set, unless it is a cycle
(`DerivedAnyway`, by induction over the globals not yet seen), and then the map is never
built (`Acyclic`).

`ForwardRefsOpaque` needs one thing more of the order of a block: a cast made for an
instruction stands in the instruction's own block, ahead of it, and what an appended cast
casts is as near (`CastsNear`, carried along with `Placement`). A typed pointer that an
instruction gives is used by its cast alone, or is such a cast (`RetypedNear`); so it has
been read, in whichever order the blocks are laid out.

`MeaningKept` says that the passes insert and do nothing else: without what they
inserted, and with the casts seen through, each block is the parsed one. Seeing through a
chain of casts is a recursive function of the whole body (`Meaning`), and every pass
changes that body. `MeansInv` keeps a table of what each defined value stands for
instead: itself if it was parsed, its constant if it was materialized, and what its
operand stands for if it is a cast (`Sees`); together with the order in which every parsed
instruction is found again in its block, its operands standing for what they were
(`Keeps`). Each pass extends the table (`CastPassMeans` for the passes that insert casts,
`DemoteMeans` for the one that expands constants). Such a table is the function
that `Meaning` computes because a cast ranks behind what it casts (`MeaningIs`), and the
pieces that are left of a block come to the parsed block (`SinglesFlatten`).

`ModulesAssumption` is what LLVM's verifier has made sure of: constants nest, names are
different, an instruction has the operands its opcode needs and they exist.
`PlacementAssumption` is the rest of it that matters here: in the body that is parsed,
definitions dominate uses, and blocks have the shape of blocks. `TypesAssumption` is what
it has checked of types: each operand has the one its instruction or constant wants, where
all pointers are one type, and what has a pointee is a pointer.

`RecordProofs` proves that four encodings are undone by the reader, for every width and
not only for the numbers of the instance. `OperandReadBack`: relative operands modulo
`Width`, for which the reader takes a type exactly if the writer wrote one, also when
the difference wraps. `IncomingReadBack`: the signed operands of a phi.
`NumberReadBack`: `rotateSign`. `IntegerReadBack`: `emitSignedInt64`, the least integer
included, which is written as the number 1.

The assumptions: `TargetsAssumption`, `DocsAssumption`, `RequestsAssumption`,
`DistinctAssumption` (`DowngradeTypes`), evaluated by TLC in the run `api`;
`CapacityAssumption`, `ArgvAssumption`, `FilesAssumption` (`DowngradeCli`) in `cli`;
`UnitsAssumption` and `ChainsAssumption` (`PrepareModule`) in `prepare`; `UnitsAssumption`,
`NestingAssumption`, `ScopesAssumption`, `ConstantsAssumption`, `ArgumentsAssumption`,
`DemotedAssumption`, `CasesAssumption`, `InputsAssumption`, `SizesAssumption` in
`writer`; `UnitsAssumption`, `NullAssumption`, `ListsAssumption`,
`GraphAssumption` (`MetadataEnumerator`) in `metadata`; `ModulesAssumption`
(`PointerRewriter`), `PlacementAssumption` and `TypesAssumption` (`TypedModule`) in
`pointer_rewriter`; `WidthAssumption` (`Records`) in `records`.
They say what the parser and the verifier of the host release guarantee (that a freeze
is not its own operand, part of `ChainsAssumption`, only of code that can be reached);
`DemotedAssumption` says what the pass before the enumerator does.

Only model-checked: the liveness of the API, the driver and the preparation (the prover
does not do fairness); `ReadBack` and `FoundByOffset`, for which the stream is computed by
folds and would need induction over what is written; and what a record as a whole is read
as (the properties of `RecordWriter`), where the modules of the five releases decide by
cases over codes and fields: each case is a computation, which TLC does for every
kind of record.

## 5. Hazards

`PROJECT.json` lists, by line, what is hard to test here and the properties that
would catch it. Two have no property: the destructor's assertion that an exception in
a writer runs into (`BitcodeWriter140.cpp:4812`; whether it is compiled in is a matter
of the build, and the models end where the exception is thrown), and reading the
parameter type of a variadic argument (`PointerRewriter.cpp:541`; no variadic calls in
the instance). A third is covered in part: chains of freezes
(`ModuleRewriter50.cpp:39`) have no freeze that is its own operand.

## 6. Where the code does not do what it says

Each is a run with `expect: violation`.

1. **`phi_edges`** (`PhiEntriesAgree`, `PointerRewriter.cpp:364`). A phi with two
   entries for one predecessor gets a cast of its own for each, so the entries
   no longer agree.
2. **`invoke`** (`WellTyped`, `:486`, `:539`, `:684`, `:719`). The call passes
   look at `CallInst` only; the 14.0 writer emits invokes, whose opaque callee or
   typed parameters are left as they were.
3. **`landing_pad`** (`LandingPadIntact`, `:387`). A clause naming a global is
   replaced by an instruction in front of the landingpad.
4. **`address_spaces`** (`ReaderKnows`, `:893`). Intrinsics on a pointer outside
   address space 0 are given a name that takes a pointer to address space 0, where
   `ModuleRewriter180.cpp` would reject them.

5. **`constant_gep`** (`ElementAddressesReadBack`, `BitcodeWriter180.cpp:2846`). A
   constant getelementptr that is not inbounds is written with the code `CE_GEP` of
   the newest LLVM, which numbers it anew and gives it a flags operand; 18.0 knows the
   form without flags under its old number only and reads undef.
   `ConstantsReadBack` excepts it (`KnownGap`).

Seen while modelling; the properties named leave these cases out, and no run
expects them:

* A `DIModule` at 5.0 and 7.0 is written with seven fields (`BitcodeWriter50.cpp:1859`,
  `BitcodeWriter70.cpp:1903`) where those readers want six (`NodeGap`).
* A `DISubrange` at 5.0 (`BitcodeWriter50.cpp:1578`) with a constant count and no
  explicit lower bound, as every C array has, is written with the count 0; the comment
  at :1581 speaks of variable-length arrays only (`NodeGap`).
* Alignments above 2^29, which 5.0 and 7.0 do not have, are written all the same; that
  of an alloca from 2^31 on spills into the `inalloca` bit (`BitcodeWriter50.cpp:3004`)
  (`TooAligned`).
* The SHA256 checksum of a `DIFile` is written for 5.0 and 7.0, which do not know it
  (`BitcodeWriter50.cpp:1705`, `BitcodeWriter70.cpp:1742`). The instance writes the
  kind as a number and does not say which numbers a release has.
* `writeValueAsMetadata` at 5.0 and 7.0 (`BitcodeWriter50.cpp:1483`,
  `BitcodeWriter70.cpp:1526`) names the typed pointer of the value's own type and not
  the one of the pointer map, as 14.0 does (`BitcodeWriter140.cpp:1636`); that type need
  not be in the table.
* Nodes of kinds that 5.0 and 7.0 do not have reach `llvm_unreachable`
  (`BitcodeWriter50.cpp:2097`, `BitcodeWriter70.cpp:2154`), and a `DIArgList` up to
  14.0 a cast that does not hold (`BitcodeWriter140.cpp:2372`; its `writeDIArgList`,
  :2082, is never called), where other limits are reported (`NodeOccurs`).
* Calls, selects and phis of a struct (up to 18.0) or of an array (5.0, 7.0) with
  fast-math flags are written with flags that those readers reject on such types. No
  such instruction is in the instance.
* The address space of an alloca is not written up to 14.0; the reader takes the data
  layout's (`Dropped`).
* The loop that reserves bitcast slots starts from the initializers of variables
  (`ValueEnumerator140.cpp:529`), while aliasees, resolvers, the data of functions and
  the constants in metadata are enumerated too (:420 to :450). A struct of pointers in prefix data has no slots, and
  `BitcodeWriter140.cpp:2806` rejects it, which the same struct in a variable is not
  (`DataGap`).
* A call of a variadic function with a retyped parameter (`sret`, say) reads
  `getParamType` for its variadic arguments too, past the parameters the type has
  (`PointerRewriter.cpp:541`). The instance has no variadic calls.

## 7. Not modelled, and why

* The parser, the legacy readers and the C library are external: what the code
  assumes of them is in constants or in nondeterministic choices.
* In `PointerRewriter`: one address space, no variadic calls, no debug intrinsics; an
  aggregate that is indexed is an array, whose elements have one type.
* In `ValueEnumerator`: basic-block numbers, comdats, instruction IDs; the mask of
  a shufflevector constant, which LLVM keeps apart from the operands; the early
  return of `OptimizeConstants` and use-list orders, which need
  `ShouldPreserveUseListOrder`, that no entry point of this library sets; the types
  inside of attributes, release by release; the constants that only metadata of a
  function or of its body refers to, which the walk over bodies enumerates
  (`ValueEnumerator140.cpp:457` to :513). Those of named metadata and of the globals'
  metadata are in the model, in the order the instance gives.
* In `MetadataEnumerator`: the order in which the constructor meets the roots is given
  by the instance.
* `PrepareModule` has no freeze that is its own operand, nor freezes and fnegs in a ring,
  which LLVM accepts in code that cannot be reached: it asserts on replacing a value by
  itself.
* In `BitcodeWriter`: the blocks of attributes, metadata and strings stand for one
  empty block each, since `RecordWriter` has their contents; basic-block numbers and
  variadic arguments. An attachment is written with the instruction or the function it
  belongs to, and what is attached is in `Debug50` to `Debug200`. `LegacyReader` takes the
  layout of a record (which numbers are types, which relative values) from the
  instruction the record is for, since that is what opcode and types say; the
  numbers in it come from the stream. A pointer used before it is written occurs in the
  instances of 18.0 and 20.0 only: the pointer rewriter, which runs first for the
  others, leaves such a pointer to a cast in front of its user
  (`ForwardRefsOpaque`).
* In `RecordWriter`: the abbreviations of value symbol tables (`writeBlockInfo`'s first
  four), operand bundles with metadata inputs (20.0 only), `BLOCKADDR_USERS`, the blob
  of the symbol table, which `llvm::irsymtab` makes. A string's size is counted in the
  words of the model. Values, types and nodes come with their numbers; that these are
  the right ones is what `writer` and `metadata` are about.
* Dead code: constant expressions of select and fneg, `writeDIArgList` at 14.0. Up to
  14.0 every constant expression of pointers is rejected, so that the records the
  writers have for them are not reached.
* The summary and ThinLTO index writers are dead code here (`Index` is null).

## 8. What is left

1. `ReadBack` for every module: that `InstID` is the reader's count, and that positions
   are aligned.
2. A freeze that is its own operand, in a build of LLVM without assertions.
3. Basic-block numbers, variadic arguments, and the destructor of the writer.
4. The use-list orders: only when an entry point asks for them.

# A TLA+ model of moonglass-runner

`moonglass-runner` is a conformance runner. A test harness starts it, writes one
tab-separated request line per test vector to its standard input, and reads one
answer line, `pass|fail <bucket> <detail>`, from its standard output. The
vectors themselves (pre-state, inputs, expected post-state) are files the
request names. The consensus client under test, `moonglass-core`, is linked in.

What is at stake is the honesty of the answers. A false `pass` hides a consensus
bug, a false `fail` blames the client for the harness's mistakes, and a missing
or shifted answer spoils every case that follows. That is what the models state
and check.

## 1. Inventory

| Component | Source | State it keeps | Operations | Module |
|---|---|---|---|---|
| main loop, dispatch | `src/main.rs` | the line being answered; nothing from case to case | check the invocation, take a line, `respond`, `catch_unwind`, write and flush the answer, end | `Main`, `Session` |
| wire protocol | `src/protocol.rs` | none | `CaseRequest::parse`, `SszStaticRequest::parse`, `split_fields`, `Verdict::line` | `Protocol` (fields), `Framing` and `Wire` (characters) |
| prologue, epilogue | `src/runner.rs` | the `BeaconState` of the case | `decode_pre`, `read_input`, `finish` | `Runner` |
| verdict table | `src/verdict.rs` | none | `classify`, `byte_diff_detail` | `Verdict`, `Octets` |
| operations | `src/operations.rs` | the result of the operation | BLS gate, handler table, apply the first input | `Operations` |
| epoch_processing | `src/epoch.rs` | the result of the phase | handler table, run the phase | `Epoch` |
| sanity, finality, random | `src/blocks.rs` | position in the inputs, result | gates, shape, arity, blocks one after the other, slot advance | `Blocks` |
| ssz_static | `src/ssz_static.rs` | none | container table, read, `decode_root`, round trip, root, `hex_string` | `SszStatic`, `Octets` |
| harness | external | the cases sent and answered, the files | send, receive, close a pipe, remove a file, kill, blame, respawn | in `Main`, `Session` and `Wire`; what it wants in `Census` |
| moonglass-core | external | the `BeaconState` | decode, encode, transition | in `Runner`, `Blocks`, `SszStatic` |
| presets, build | `src/main.rs`, `Cargo.toml` | the binaries built | features, required features, `compile_error!` guards, the preset argument | `Build` |

**How they interact.** Everything is a synchronous call in one thread: `main`
calls `respond`, which parses the line and calls one runner; a runner calls
`decode_pre`, then moonglass-core, then `finish`, which calls `classify`. The
files are shared with the harness, and every file is read at a moment of its
own, so the harness can act between any two reads. A panic anywhere below
`respond` is caught in `main` and answered `bug`. Requests and answers travel
through two pipes, which buffer; an answer has no name, so that its place in the
stream alone says which case it belongs to.

**What is hard.**

* *Order.* A gate (malformed line, unknown handler, BLS setting, number of
  inputs) must precede every read, or the answer to an unserved request depends
  on the files it names. Inputs must be applied in wire order, each once.
* *Failure half-way.* The transition can fail at block k of n, decoding can
  panic, serializing the post-state can fail after a success, the expected post
  may be unreadable. Which bucket each of these lands in decides who is blamed.
* *Files that go away* between two reads of one case. A missing post must never
  be taken for the post of an invalid vector, which has none.
* *Numbers.* The slots blob is a minimal big-endian number; the advance is
  bounded by the preset; pre slot + advance may leave the u64.
* *One process, many cases.* Nothing of a case may reach the next one, a panic
  included.
* *Two processes, two pipes.* Several lines may be on their way; an answer may be
  in a buffer when its process dies; the process may die of a case, be killed or
  end because of a line it cannot read; the harness may end first, even in the
  middle of a line. Each of these may shift, lose or double an answer.
* *Text.* Details carry paths and other crates' error texts into a line whose
  only structure is tabs and line feeds.

The full list, each at its line, is `hazards` in `PROJECT.json`.

**What makes each component correct.**

* main: every line taken is answered; the answer depends on this case only; an
  answer is passed on before the next line is taken; nobody left to listen, or
  nothing more to read, ends the process.
* protocol: a field that is absent is absent; a malformed line is not run.
* runner and verdict: the answer is the honest one - `ok` and `reject` only when
  the client agrees with the vector, `bug` only when neither is to blame - and a
  valid vector is never answered as an invalid one.
* operations, epoch, blocks: gates before reads; every input applied once, in
  order; nothing done to a state whose transition failed.
* blocks, slots: the slot only grows, by 1 .. 2 * SLOTS_PER_HISTORICAL_ROOT.
* ssz_static: read before the root is decoded; a match needs the round trip and
  the root; the root is the one the field denotes.
* build: a binary holds the preset it is named after.

## 2. The models

```
Verdict   Protocol
     \     /     \
      Runner      Contract          (abstract: one honest answer per case)
     /  |  \   \      |
Operations Epoch Blocks SszStatic   |
     \  |  /   /      |
       Main           |
         \           /
         Properties     Recursion
         /       \       /
     MCMain     NumberProofs
                    |
                MainProofs
                    |
               ContractProofs

Contract              Census       (abstract: each case entered once, in order)
    \                  /
   Session             /
        \             /
       SessionProperties          Framing      Octets       Build
        /           \                |            |           |
   MCSession    SessionProofs       Wire       MCOctets       |
                                   /    \         |           |
                              MCWire WireProofs OctetsProofs BuildProofs
```

`OctetsProofs` and `WireProofs` take `Recursion` as well.

`Main` and `Session` share `Contract`: `Main` is checked and proved to implement
it, and `Session` is built from its actions. So `Session` need not know how an answer
comes about, and what it shows of answers holds of those of `Main`.

A state-transition case walks through the control points of `pc`:

| `pc` | where the program is | actions |
|---|---|---|
| `boot` | start of `main` | `Boot` |
| `idle` | waiting in `lines()` | `TakeLine`, `StdinEnds` |
| `respond` | `respond`, `dispatch_parsed` | `Respond` |
| `operations`, `epoch_processing`, `blocks` | entry of that runner's `run` | `OperationsRoute`, `EpochRoute`, `BlocksRoute` |
| `ssz_static` | `ssz_static::run` | `SszRun` |
| `decode_pre` | `runner::decode_pre` | `DecodePre` |
| `apply` | the runner's own work on the state | `OperationsApply`, `EpochApply`, `ApplyBlock`, `BlocksApplied`, `ApplySlots` |
| `finish` | `runner::finish` | `Finish` |
| `write` | `writeln!` and `flush` in `main` | `WriteVerdict` |
| `exit0`, `exit2` | end of the program | none |

Each action reads at most one file, because the harness may act between two
reads; apart from that an action runs to the next control point. The gates are
one action: they touch nothing the harness can change. The variables are the
locals of the program: `req` (the parsed request), `state`, `next` (the loop
index of `apply_blocks`), `result`, `verdict`. `None` is a local that is not
live. `reads` is history: the paths opened for the case, in order. `case` and
`gone` are the world: the line, the contents of the files, what moonglass-core
will do, and the files removed so far.

**How the data is abstracted.**

* A *line* is the tuple of its fields; a field is a text. `Numeral` gives the
  texts that Rust parses as unsigned integers and their values. The inputs field
  is the sequence of its comma-separated pieces, so that the empty field is
  `<<"">>`, as `split` yields. The empty line, which `main` skips, is `<<>>`; a
  line of carriage returns only is not empty where `main` looks at it, comes out
  of the trimming as `<<"">>` and is answered as an unknown verb. The root field of an ssz_static line is the
  number of its digits, whether all are hexadecimal, and the root.
* A *file* is what it decodes to: a state, an operation, a block, a slots blob,
  a container, something that decodes to nothing (`junk`), something whose
  decoding panics (`bomb`), or nothing readable (`missing`).
* A *BeaconState* is its slot and the sequence of inputs applied to it, `None`
  for one applied half-way. Two states are equal when the same inputs were
  applied in the same order from the same start: that makes "in wire order, each
  once" observable in the comparison with the expected post.
* *moonglass-core* accepts, rejects or panics. Of a block it is also known that
  its slot must be later than the state's.
* A *detail* is the constant prefix that tells its cause.
* A *byte* has `ByteBase` values and a word `WordBytes` bytes; the slots blob is
  decoded byte by byte, and the sum that leaves the word is refused.

The backstop in `apply_slots` (`src/blocks.rs`) that answers `bug` unless there
is exactly one input cannot be reached after the arity gate of `run`; the model
keeps the gate, and the proof that the gate was passed (`Gated` below) is the
proof that the backstop is dead.

**`Contract`** is the abstract specification, written without control points: a
harness asks, files may vanish, one reply comes, and it is the honest verdict
of the case or, when a file the line names has been removed, `bug`. The honest
verdict is defined afresh: the table of coverage, what each runner should
conclude from the files, and for the slot advance the number the blob
*represents* rather than the decoder's loop. `Properties` instantiates it with
a refinement mapping (`asked`, `answer` and `open` are read off `case`,
`verdict` and `pc`) and `ImplementsContract` says `Main` implements it. Where a
row of its tables takes precedence over another, the choice is a chain of IFs: of
two arms of a CASE that both apply, TLA+ does not say which is meant.

**`Session`** is the loop of `main` between its pipes. Its runner takes a step of
`Contract` together with what that step does to the pipes:

| Action | Code |
|---|---|
| `SkipBlank`, `TakeLine` | the next line of `lines()`; an empty one is passed over |
| `ReadError` | a line that is not UTF-8 is an error of `lines()`: `break` |
| `EndOfInput` | `lines()` ends |
| `Reply` | the verdict of `respond`, or of a caught panic |
| `Write`, `Flush` | `writeln!` into the buffer of standard output, then `flush` |
| `WriteFails` | either fails because nobody listens: `break` |
| `Returns` | `main` returns after a `break` or at the end of its input, and the library passes on what is still buffered, if anybody listens |
| `Die` | abort, stack overflow, out of memory: what `catch_unwind` does not catch |
| `Spill` | external: the library may pass on what it buffers at any time |
| `Kill` | external: the process is killed at any point |

The rest is the harness, of which the repository says that it drives the runner
line by line and respawns it (`src/main.rs:110`). It is modelled as any client of
such a protocol has to be: it sends ahead as far as it likes, takes the next
answer for that of the first case that waits for one, reads all a runner has
said before it draws conclusions from its end, then blames the first case that
waits, tries it again up to `MaxTries` times, gives it up as `Lost`, and sends
what followed it again. It may also close standard input when all is sent, or
close both pipes at any point. The runner's input buffer and the pipe before it
are one variable, because both are lost with the process. `kills` and `wasted`
are history.

**`Census`** is what the two programs are for: the worklist is gone through in
order, each case gets one entry that is never revised, and unless the harness
gives up every case gets one. Which entries a case may have is its parameter; in
`SessionProperties` that is the answer `Contract` promises and, for a case that
ends its process, `Lost`.

**`Framing`** and **`Wire`** go down to characters. `Framing` has `split_fields`
and `Verdict::line` as operators; `Wire` puts them between two streams that are
read one character at a time, by `lines()` on one side and by a reader of text
lines on the other. A line may be ended in three ways, the last one need not be
ended at all, and the harness may end in the middle of one. A text that no
property looks into, such as a bucket, is one character.

**`Octets`** has `hex_string`, `decode_root` and `byte_diff_detail` as operators
on bytes and characters, for roots of any length. `from_str_radix` is modelled
as what it is, a parser that takes a sign.

**`Build`** has `cargo build` with any choice of features, the two binaries with
their required features, the `compile_error!` guards and `COMPILED_PRESET`, and
runners that are started from what the builds left behind.

## 3. The properties

| Property | What it says |
|---|---|
| `TypeOK` | types, and which locals are live where: a case keeps nothing of the one before |
| `RoutedBeforeIo` | once a file has been opened, the request is well formed, supported, served and consistent |
| `ReadsInWireOrder` | pre, then the inputs in order, then the post; the post only after all inputs unless the transition failed |
| `FirstFileBlamedFirst` | when the file that is opened first was never there, the answer is its read error, whatever else is wrong with the case: its root, its inputs, its post |
| `AcceptedMeansAllApplied` | a blocks case that ended well applied every input, once, in order, in strictly increasing slots |
| `OnTrack` | the inductive invariant of a case under way: the state and the files opened are those of the inputs taken so far, the result is the contract's outcome, the verdict one it allows |
| `ErroredStateIsFinal` | after a failed transition nothing is decoded into, applied to or compared with the half-changed state |
| `AdvanceBounded` | the slot never moves back or past the word, and a slots case moves it by a sane amount |
| `BucketsAsDocumented` | each runner answers only what the status table of the repository's `README.md` lists for it, and `reject` and `accept-invalid` only for a vector without post |
| `ImplementsContract` | refinement of `Contract` |
| `EveryCaseAnswered` | every line taken is answered |
| `Paired` | every answer is entered for its own case, whatever happened to the processes and to other lines |
| `OnlyTheGuiltyLost` | a case that was served, or could have been, is not given up for another |
| `DeafStops` | a runner nobody listens to begins at most one more case |
| `NoOrphan` | once its input is closed, the process ends |
| `ImplementsCensus` | refinement of `Census`: entries in order, once, unrevised, and all of them |
| `IInv` (`Session`) | the inductive invariant of a session (section 5) |
| `RequestsReadBack` | every request is taken once, in order and field by field as meant; what is left of a line that was cut off is refused unless only its last field was cut |
| `AnswersReadBack` | every answer is heard as one line of three fields, with its verdict and with all of its detail but the breaks |
| `RequestsInStep` | the lines on their way to the runner that are not empty are the requests it has not taken yet, whole and in order; of an input that was cut off, the last is the beginning of one |
| `AnswersInStep` | the lines on their way to the harness are the answers it has not heard yet, whole and in order |
| `RootFaithful` | a field decodes to a root exactly when it denotes that root |
| `FirstDiffIsFirst` | the position reported is where two byte strings stop agreeing |
| `OtherBinaryKept` | a build writes only the binary named after the one preset it enables |
| `IInv` (`Build`) | a binary that exists holds the preset it is named after, and only such binaries are due |
| `ServesAsAsked` | a runner that serves is of the preset it was asked for and named after |

Five more properties state what the documentation says and the code does not
do; see section 6.

## 4. The runs

`tlc -config X.cfg M`. Those of `MCMain` have a byte of 2 values and a word of 4
bytes (u64 = 0 .. 15) and `SlotsPerHistoricalRoot = 2` (advances of 1 .. 4 are
sane). They come first:

| Run | Cases | Distinct states | What it shows |
|---|---|---|---|
| `routing` (`Routing.cfg`) | 350: every handler of every runner, every way a line is malformed, unsupported, unserved, inconsistent or empty | 5,647 | which lines reach the file system, and what the others answer |
| `single` (`Single.cfg`) | 3,190: an operation, a phase or a container, against every way each file can be missing, junk, panicking, rejected or different | 144,514 | one transition per case: order of reads, honest verdict, an answer for every line |
| `sequences` (`Sequences.cfg`) | 5,154: up to two blocks in every order and twice the same; every blob of up to five bytes from both ends of the word | 110,702 | all-or-nothing block sequences, slot advances, the half-changed state |

The others:

| Run | Module | Instance | Distinct states | What it shows |
|---|---|---|---|---|
| `faults` (`Faults.cfg`) | `MCSession` | five cases, the second not UTF-8, the fourth lethal; up to 3 on their way, 2 lines in a pipe, 2 tries, 2 kills | 2,329 | pairing, blame, end of the process and completion of the census under every fault at once |
| `wire` (`Wire.cfg`) | `MCWire` | two lines in either direction; 24 requests of three fields with carriage returns in them, 86 answers with every detail of up to 3 characters | 306,222 | framing in both directions |
| `octets` (`Octets.cfg`) | `MCOctets` | roots of 2 bytes, every field of up to 7 characters out of two digits, the letters of the prefix, a capital and a sign; byte strings of up to 4 | 336,883 | roots and first difference |
| `build` (`Build.cfg`) | `Build` | both presets, one fork too many | 102 | names and presets of binaries |

Between them every action, and every disjunct of every action, is taken.

**Bounds, and why they are enough.** *Cases*: each family is the product of the
values its code branches on; no branch looks at two cases, so one family at a
time is enough, while every run still answers case after case in any order,
which is what would show a local left over. *Two blocks* are the fewest that can
be swapped, doubled or half-applied, and the loop keeps nothing but the state
and its index. *Five bytes* are one more than a word of four, *two values per
byte* are the fewest with a leading zero and an order of significance, and slots
0, 12 and 15 are the two ends of the word and the last slot from which an
advance of 3 still fits. `MaxVanish` files
are removed under one case: 2 in `single`, whose cases have up to three files,
1 elsewhere, 0 in the runs for section 6, where the harness is blameless.
`Numeral` holds the numbers around the limits that matter: 255 and 256 around
the u8 of `bls_setting`, and 256 beyond the small word.

*Session*: five cases are enough for two deadly ones with clean ones before,
between and after; two lines in a pipe and three cases on their way are the
fewest at which a pipe can be full while another answer is in the buffer and
another line waits. Two tries are the fewest that can be told from one, and two
kills the fewest for which a clean case may be given up; `OnlyTheGuiltyLost` says
that one is not enough. *Wire*: two lines are the fewest of which one can be
shifted or cut into by the other; a run looks at one stream at a time, which is
sound because the two share no variable. *Octets*: with a root of two bytes a
field of four digits may itself begin with `0x`, and seven characters are one
more than the longest root.

`CHECK_DEADLOCK FALSE` is stated because the program really ends (`exit0`,
`exit2`; a session when it is completed or given up; `Wire` and `Octets` at
their bounds). In `build` deadlock is checked. There is no symmetry:
texts are strings and each path has a role.

**Fairness.** `single` uses `Main`'s `FairSpec`, which adds `WF_vars(Work)`: the
program is one thread that takes its next step whenever it has one, and waits
for nothing but its next line. `TakeLine`, `StdinEnds` and `Vanish` belong to
the harness and get no fairness. That a call of moonglass-core returns is part
of the abstraction.

`faults` uses `Session`'s `FairSpec`: weak fairness of the runner as a whole,
which again is one thread that only ever waits for input and for room in the
pipe, and of the harness's `Send`, `Receive`, `Blame` and `Respawn` one by one,
since completing the census is the harness's own purpose: one that stops is the
`Abandon` of the model, after which nothing is promised but `NoOrphan`. `Spill`
has no fairness - nothing makes the library pass on what was not flushed - and
neither has `HangUp`, `Abandon` or `Kill`. Weak fairness is enough: no step of
either side is disabled again by the other before it is taken, except by a kill
or by giving up.

Each property has a mutant in `PROJECT.json`: a plausible slip in the code - a
dropped gate, the last input for the first, the lenient reading of a missing
post, a panic not caught, a state kept for the next case, the
root decoded before the read, a loop that goes on after a
failure, a blob read in the wrong byte order, a `flush` left out, an empty line answered, a
tab left in a detail, a sign taken for a digit - under which TLC finds the property
violated. The variants stand next to the definitions they alter.

## 5. The proofs

All of them are checked by TLAPS, for every value of the constants that the
named assumptions allow. TLC evaluates each assumption on the runs.

**The gates and the state** (`MainProofs`), for every set of cases:

* `Invariance`: `Spec => []IInv`, with the inductive invariant
  `IInv == TypeOK /\ Gated`;
* `TypeCorrect`: `Spec => []TypeOK`;
* `GatesBeforeIo`: `Spec => []RoutedBeforeIo`;
* `ErrorsAreFinal`: `Spec => ErroredStateIsFinal`;
* `AdvancesStaySane`: `Spec => AdvanceBounded`.

*Assumptions.* `WordAssumption` (a byte has at least two values, a word at least
one byte, numerals denote naturals), `CasesAssumption` (a case has the shape of
`CaseOK`: texts in the fields, files among `Contents`; `None` is no case, result,
verdict or answer), `PresetAssumption` and `MainAssumption`.

*The argument.* `RoutedBeforeIo` alone is not inductive: at `decode_pre`, say,
nothing in it tells that the gates were passed, so the next read could break it.
`Gated` adds what the control point knows: between the entry of a runner and
`finish` the request in memory is the parse of this case's line; at a runner's
entry the label is the one dispatch gives this line; from `decode_pre` on, the
line is `Runnable`. Preservation needs `TypeOK`, by which `reads` is still
empty wherever the gates have not been passed. The proof of `TypeOK` has one
lemma per action, that of `Gated` one per group of actions: those that route,
those that run, ssz_static. The two action properties follow from `IInv` and the
definition of the step; `AdvanceBounded` also uses that an accepted block is
later than the state, and that `Runnable` gives a slots case exactly one input.

**The contract** (`ContractProofs`), from the same assumptions, for any number of
blocks, any files and any number of them that vanish:

* `KeptOnTrack`: `Spec => []OnTrack`;
* `OpenedInWireOrder`: `Spec => []ReadsInWireOrder`;
* `NoBlockSkipped`: `Spec => []AcceptedMeansAllApplied`;
* `FirstFileBlamed`: `Spec => []FirstFileBlamedFirst`;
* `AnswersAsDocumented`: `Spec => []BucketsAsDocumented`;
* `ContractImplemented`: `Spec => ImplementsContract`; `Contract` states no
  fairness, so this is all of it.

*The argument.* `ReadsInWireOrder` and `AcceptedMeansAllApplied` look at the
files and the state once the loop is over, so the invariant must say what holds
within it. `OnTrack` does, by control point: `AppliedSoFar` (at `apply`: the
client took each of the inputs before `next`, the state is the one they lead to,
and `reads` is the beginning of the wire order up to there), `Concluded` (at
`finish`: the result is the outcome that `Contract` determines from the request
and the files, and the state of a success is the one it determines) and
`AnsweredHonestly` (at `write`: the verdict is in `Contract`'s `Allowed`). It is
inductive relative to `IInv`, with one lemma per action. Where `Contract` says in
one formula what a whole sequence of blocks leads to, the lemmas about
`ApplyBlock` and `BlocksApplied` show that the first block that is not taken, or
the end of the inputs, settles it.

The refinement then maps each step: `Boot` is `Close` when the invocation is
refused and a stutter otherwise, `StdinEnds` is `Close`, `TakeLine` is `Ask`, the
harness's `Vanish` is `Vanish`; a step that comes to `write` is `Reply`, and
`OnTrack` after it says that the reply is allowed; `WriteVerdict` is `Deliver`,
or `Lose` when nobody listens; every other step stutters. `FirstFileBlamedFirst`
is inductive relative to `IInv` and `OnTrack`: a request that is answered at a
gate is not `Runnable`, and one that comes to `apply` had its pre-state.
`BucketsAsDocumented` follows from `IInv` and `OnTrack`, since every answer the
contract allows for a runner is in that runner's row of the repository's table.

**The slots blob** (`NumberProofs`). `SlotsDecoded`: a blob represents n - in the
sense of `Contract`: the digits of n in base `ByteBase`, as few as possible -
exactly when `decode_slots_count` accepts it and returns n, for any base and any
length of the word. The loop works modulo the word; along the bytes the
accumulator is n divided by the power of the base that is still to come, so that
nothing is shifted out.

**Roots and byte strings** (`OctetsProofs`), from `OctetsAssumption` (a root has at
least one byte):

* `RootsReadAsWritten`: `Spec => []RootFaithful`, for roots and fields of any
  length over any alphabet. A field that is taken has 2n digits after the one
  optional prefix, whose values are the halves of the bytes that `hex_string`
  writes again. Conversely a text that in lower case is a root's has a digit
  wherever that has one, and `x`, which is none, can only be the prefix's. The
  lemma about `hex_string` is that the two digits of byte k stand at 2k - 1 and
  2k.
* `DiffWhereTheyPart`: `Spec => []FirstDiffIsFirst`, for any two byte strings.

**The lines as characters** (`WireProofs`), for fields and details of any length
over any alphabet, any width and any number of lines.

*The answers*: `AnswersKeepStep` (`Spec => []AnswersInStep`) and
`AnswersReadAsSaid` (`Spec => []AnswersReadBack`). Writer and reader share nothing
but characters, so the invariant splits what has been read of a line together
with what is on its way at the line feeds: the pieces are the answers not yet
heard, and an empty one. It is inductive by two facts about splitting: characters
that are no separators lengthen the last piece (`SplitTail`), and at a separator
the pieces before and behind come apart (`SplitCut`). Three more are about one
answer: `JoinThree` (its line), `FlattenType` (its detail holds no break) and
`FlattenKeepsInk` (nothing else of it is lost, by induction on the detail:
`FlattenAppend`).

*The requests*: `RequestsKeepStep` (`Spec => []RequestsInStep`) and
`RequestsTakenAsAsked` (`Spec => []RequestsReadBack`). The invariant splits what has
been read with what is on its way in the same manner, but looks at those pieces
that are not empty, since empty lines may follow a request and are skipped: each
is a request not yet taken, with or without a carriage return, and of an input
that was cut off the last may be the beginning of one. `RequestsReadBack` is not
inductive: nothing in it says what a line that is still on its way reads as. The
lemmas are that splitting undoes joining (`SplitJoin`), that what is trimmed is
never part of a request (`TrimEndKeeps`, for which the last field must not end in
a carriage return), and, for the cut, that the pieces of a beginning are those of
the whole but for the last (`SplitBegins`): a line that was cut off has too few
fields, or all of them and a shorter last one (`RequestCut`).

*Assumptions*: `WireAssumption` - the harness keeps separators out of its fields,
and a bucket, which is a word of the program text (`src/protocol.rs`), holds no
break; of a detail nothing is assumed.

**Builds** (`BuildProofs`), for any set of forks a user may ask for:
`BuildInvariance` (`Spec => []IInv`), `RunnersServeAsAsked` and
`BuildsKeepTheOther`. A runner has the preset of its binary at the time it was
started, so `IInv` must speak of the binaries, and of what the build under way
may still make: in a build that compiles exactly one preset is enabled, and
`required-features` leaves it only the binary of that name. `BuildAssumption`
says that `Missing`, which stands for no binary, is not a preset.

*Induction over data.* The induction theorems of the library take a predicate,
which the provers cannot be given. `Recursion` has what stands in for them:
`Least` (a set of naturals that is not empty has a least element), `UpTo`
(induction over the set of the numbers that are as wanted) and `Recursive` (a
function defined by recursion over 0 .. n exists). The powers of the base, the
accumulator of the blob, the pairs of digits and the pieces of a line go by these,
and `Growing` in `WireProofs` is induction over the beginnings of a sequence.

**The session.** `SessionProofs` proves, for every worklist, every fate of its cases, every
length of the pipes, every number of tries and kills:

* `SessionInvariance`: `Spec => []IInv`;
* `AnswersPaired`, `GuiltyLost`, `DeafRunnerStops`: the three safety properties;
* `SessionIsACensus`: `Spec => Ledger!Spec`, the safety part of
  `ImplementsCensus`.

*Assumptions.* `SessionAssumption` (the worklist is a sequence of cases, none of
them an empty line, each with one of three fates; the bounds are numbers) and `LostAssumption` (`Lost` is
not an answer); TLC evaluates both. What `Contract` promises for a case is never
expanded, so the proofs hold for any table of verdicts.

*The argument.* `Paired` speaks of the ledger only and is far from inductive.
`InFlight` adds all that is on its way: with `Begun` the number of cases whose
answer has been made or is being made, the case in the process is number
`Begun`, the lines in the input pipe are those after it up to `sent`, and the
answers in the output buffer and the output pipe are those before it down to the
ledger. Each action moves one of these by one place or empties the process, one
lemma each. `Blameless` carries the blame: `tries` never exceeds `kills` for a
clean case, because a process that ended while the next unheard case is clean
was killed. For that `InFlight` must say that the unheard case *is* the one the
process had, which holds because every answer is flushed before the next line.
`LastCase` says what a runner without a listener can still hold.

*Only model-checked*: the liveness properties `EveryCaseAnswered`, `NoOrphan` and
the liveness part of `ImplementsCensus`, since liveness under fairness is outside
what the prover handles; and the five properties of section 6, which the code
violates.

## 6. Where documentation and code disagree

Each is a run that must find its property violated.

* `operation_inputs` (`OperationInputs.cfg`): an `operations` request with no
  input file is run on an empty byte string, so the decoder's refusal counts as
  a rejection by the client, and `pass reject` is the answer when no post is
  named; with several inputs the others are ignored. `src/blocks.rs:150` calls
  an inconsistent request a bug to be caught before reads, and
  `src/protocol.rs:38` gives operations tests one input.
* `bug_bucket` (`BugBucket.cfg`): when the client cannot serialize the
  post-state it accepted, the answer is `bug`, although
  `.gemini/styleguide.md:15` reserves it for violations by the harness;
  `ssz_static` answers `reject-valid` for the same failure.
* `dash_inputs` (`DashInputs.cfg`): `src/protocol.rs:2` says `-` marks an absent
  field, but an inputs field of `-` is one path named `-`.
* `misordered_blocks` (`MisorderedBlocks.cfg`): `src/blocks.rs:89` says "a
  mis-ordered sequence can't pass silently", because an out-of-order block is
  rejected. For a vector without post a rejection is `pass reject`, also when the
  client would have taken the same blocks in their order.
* `garbled_line` (`GarbledLine.cfg`): a request line that is not UTF-8 is an error
  of `lines()`, which ends the process with exit code 0 and without an answer
  (`src/main.rs:111`), while `README.md:12` has one response line for each case
  and `README.md:28` counts malformed lines among the causes of `bug`.

`Contract` and `Session` take the code's side on these points, so that the
refinements tell apart everything else.

## 7. What is not modelled, and the plan

Not modelled: the inside of moonglass-core; how many slots a transition
processes (one step here, although a block far in the future costs as many as it
skips); the wording of details, which `Wire` treats as any text; standard error,
where panics are reported as well; a write to the pipe that is passed on in part
(`Session` has whole lines, `Wire` cuts requests but not answers); read errors
other than text that is not UTF-8; files whose contents change rather than
vanish, and, in `Session`, files that vanish at all.

Modules written, in order: `Verdict`, `Protocol`, `Runner`, `Operations`,
`Epoch`, `Blocks`, `SszStatic`, `Main`, `Contract`, `Properties`, `MCMain`,
`MainProofs`, `Census`, `Session`, `SessionProperties`, `MCSession`,
`SessionProofs`, `Framing`, `Wire`, `MCWire`, `Octets`, `MCOctets`, `Build`,
`BuildProofs`, `Recursion`, `NumberProofs`, `ContractProofs`, `OctetsProofs`,
`WireProofs`.

To come: answers that are passed on in part when the runner dies, so that the
harness hears the beginning of a line; `AnswersInStep` then needs the case of a
line that was cut off, which `RequestsInStep` has.

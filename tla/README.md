# A verification of Frinet

Frinet records the execution of a program (registers, reads and writes of every
instruction), turns the text trace into a database of packed R-trees, and answers
three questions about it inside IDA: what did memory hold at a time, when did a
register hold a value, and where and when do bytes match a pattern.

This directory holds TLA+ modules translated from the Rust sources of the
database, from the tracer and from the front end, the TLC runs that check them, and
TLAPS proofs that most of what the runs check holds for every value of the constants.
`PROJECT.json` maps every definition to the lines it stands for; paths below are relative
to `crates/` unless they say otherwise.

## 1. The system

| Component | Source | State | Operations | Hard part |
|---|---|---|---|---|
| Tracer | `tracer/trace.py`, `trace.js`, `trace_*.c` | a buffer per thread; the files written so far | log an instruction, flush on leave, on an exception, at an end address; append a chunk | threads, exceptions, chunks cut in a line |
| Tenet parser | `index/src/parser/tenet.rs` | clock, start of the token | one token at a time | the clock ticks before the last token of a line |
| Event normalisation | `index/src/pass.rs` | `curr_time`, an open leaf per register | register, memory and slide events; the end | several events at one time; two ends of the trace |
| Disjoint memory pass | `index/src/disjoint.rs`, `db/src/memory.rs` | open leaves keyed by first address, emitted leaves | `push_memory_write`, `finish` | overlapping writes cut leaves in pieces; reads are deduplicated |
| Zones | `index/src/pass/scout.rs`, `hilbert_partition.rs` | zones with a padded range and a count | insert a leaf, merge, look up | merges move indices; counts are used by later passes |
| Index build | `index/src/lib.rs`, `pass/fill.rs`, `layout.rs`, `storage.rs` | the data section and its memo, buffers and tasks per partition, the mapped file | three passes, parallel tasks, header, levels, nodes, truncate | schedules of tasks, two computations of one layout, bytes cut after they were stored, a kill between two writes |
| Hilbert keys | `index/src/hilbert_spec.rs` | none | key and partition key of a leaf | the order of the partitions must be that of the keys |
| Packed R-tree | `db/src/rtree.rs`, `db.rs`, `index/src/lib.rs` | levels of nodes over sorted leaves | build, slice | two computations of one shape |
| Readers | `db/src/query.rs`, `nearest_neighbor.rs`, `register.rs` | a stack of iterators and a position; a heap | `next`, `nearest_neighbor` | shifts of the position, order of the heap |
| Fetch | `db/src/db.rs` | the array filled so far, a range of times | `fetch_at` over several zones | offsets, the range a caller may cache |
| Pattern search | `db/src/search.rs` | channels, collected chains, chain tasks | scan leaves, collect, connect | workers and collectors, forks, matches over several leaves |
| Regular expressions | `regex/src/*` | NFA, DFA | build, determinise, run | subset construction |
| Python bindings | `python-bindings/src/*` | none of their own | snapshot of all registers, reads and writes of memory | bounds of the next and previous change |
| Front end | `frontend/*.py` | the open database, the time, observers, windows, the line a time is typed in, the bars of the timeline | open, close, set time, edit, search, select | observers that outlive their window; windows of a trace that is closed; a time that is clamped to the current one |
| Command line, fuzz target, benches | `cli`, `fuzz`, `db/benches` | none | drivers | none |

How they interact. The tracer appends text to a file per thread. `build_index`
parses that file three times, each time through the same normalisation: the scout
pass counts leaves per zone and register, the partition pass counts them per
Hilbert partition, the fill pass stores them. What the first two counted is the
room the third fills, so the three must see the same leaves and find the same zone
for each. The database is then a read-only mapped file, opened by the command line
or by the Python bindings, and read by queries without any lock. The front end holds one
open database and a time; its windows read both when they are told that the time has
changed, or when they are painted. Within a build
and within a search, threads share state through slices handed to tasks and
through channels.

What makes each part correct is stated by the properties in section 4. Everything
in the code that a test would hardly reach is listed under `hazards` in
`PROJECT.json`, each with the properties about it.

## 2. Modules

```
MemNode ── DisjointPass ── NormalizePass ──refines── RegisterHistory
   │            └── IndexedMemory ──refines── MemoryHistory
   ├── Zones
MemLeaves ──┬── Fetch
            └── Search ──────────────┐
HirToNfa ── Determinize ─────────────┴── RegexSearch
RTree ──┬── RTreeReader
        ├── Hilbert ──┐
        └── Layout ───┴── IndexBuild
Tracer
Frontend
```

| Module | What it models | Correspondence |
|---|---|---|
| `MemNode` | `IRange`, `MemNode::fragment_by` | a rectangle of addresses and times is a record; the fragments are a set |
| `MemoryHistory` | abstract: the byte at every address and time | what a trace shows; no code |
| `DisjointPass` | `DisjointPass` | `temporaries` is the `BTreeMap` as a function from first address; `leaves` are the emitted ones; `Push` is `push_memory_write` with its early returns, `Finish` is `finish` |
| `IndexedMemory` | both, on the same accesses | `Push` and `Access` together |
| `RegisterHistory` | abstract: the value of each register at every time | |
| `NormalizePass` | parser clock and `parse_and_normalize_events` | one action per kind of token, `EndOfTrace`; composes `DisjointPass` |
| `Zones` | `insert_node_into_zones` and the lookups after it | one action per leaf, with the whole merge loop |
| `Hilbert` | `hilbert_spec.rs` | the widths of a key, a time and a partition are parameters; `XyToH` is the crate `fast_hilbert`, from the definition of the curve |
| `Layout` | `layout.rs` | `Requests` is the order of the sections, `Ends` the running position of `LayoutBuilder`; `Views` are the ranges of the storage, `CanBeViewed` what splitting and casting them asserts; in bytes, with the sizes of `flat.rs` |
| `IndexBuild` | `build_index` from the events every pass sees to the truncated file, and `Db::from_aligned_slice` of what is there | composes `Hilbert`, `Layout` and `RTree`; the file is a function from byte positions; `FillAccess` and `FillLeaf` for an event of the fill pass, `MainStep` for the main thread, `RunTask` for a worker, `Kill` |
| `RTree` | levels and nodes | `Levels` is what the scout pass places, `NodesOver` what the last pass writes |
| `RTreeReader` | `QueryIter`, `MultiQueryIter`, `nearest_neighbor`, and the requests made through them: `RegIntersects`, `MemIntersects`, `leaf_at`, previous, next, first and last | a register is one tree, memory a tree per zone, and `zones` the places of the trees yet to be read; one action per branch of the loop of `next`, one per popped item, one per zone; `PrevTime` and `NextTime` are the register snapshot |
| `MemLeaves` | the leaves a reader finds | disjoint rectangles with bytes |
| `Search` | `search_hir` after its pattern is compiled, `search_in_zone` | the zones one after the other; a worker per leaf, two collectors, a bag of chain tasks |
| `RegexSearch` | `search_hir` | composes `Determinize` and `Search`: the DFA that is searched is the one that was compiled, and results are compared with the words of the pattern |
| `Fetch` | `fetch_at` over a list of zones | one action per leaf found |
| `HirToNfa` | `hir_to_nfa` | a pattern is a tree of records; the links and the counter are built by recursion over it, as in the code. Also the reference: the words a pattern stands for |
| `Determinize` | `determine_and_minimize_nfa`, `execute_dfa` | `call` holds the locals of `determine_nfa`; `Take`, `Explore` and `Follow` are its three loops, `Return` its end |
| `Tracer` | `trace.js`, the C callouts, `on_message` of `trace.py` | a callout is two actions, `LogLine` and `EndOfCallout`, because the exception handler may run in between; `OnEnter`, `OnLeave`, `OnException`, `Stop`; `OnMessage` is the host |
| `Frontend` | `Ctx`, `Db`, the windows of the plugin and the two bars of the timeline | one action per handler, which Qt's one thread runs to its end; painting is an action of its own, and so is Enter in the line of the registers (`EditTime`), where the time is typed |

The theorems about a module are in the module of that name followed by `Proofs`, which
extends it. `NormalizePassProofs` begins with those about `MemNode`, `DisjointPass` and
`IndexedMemory`, in this order, on which those about `NormalizePass` rest; `RTreeProofs` comes before
`RTreeReaderProofs` and before `IndexBuildProofs`, which also proves what it needs of `Hilbert` and
`Layout`.

Definitions named `...Late`, `...Strict`, `...Twice` and the like, each with a comment
that begins "A mutated", are plausible bugs. They are never used by a
specification; `PROJECT.json` pairs each with the property that catches it.

What is abstracted. A byte or a word is a model value. In `IndexBuild` the trace is what
every pass sees of it: the bytes of each access and, after it, the leaves that are cut
from them, as `DisjointPass` and `Zones` establish for their part (`WellCut`, `Dense` and
`Covered` say what is taken from there). An item of the file stands at its first byte, and
the metadata are one item. In `Tracer` an instruction is
what `transform` stores of it (where it lies, the registers it writes, whether it
has a memory operand, whether it branches to a register) and a trace is a sequence
of items; the address, size and bytes of an access are not told apart. It follows
`trace_arm64.c`; `trace_x64.c` differs in its operands and is covered only where
both agree. The text of a trace is its tokens; a malformed token panics in
the parser and produces no state. In `Frontend` a window is its kind and the trace it was
opened for, with the time of what it shows; the line of the registers is apart, since the user types into it, and what is
being typed is in no state before Enter; the position of the mouse is one of a few
pixels. IDA and Qt are modelled from their use: `Close` destroys the widget without calling
the `close()` of its class, so observers are never unregistered, and drawing on a
destroyed widget raises. Logging and progress are left out.

## 3. Runs

All bounds are constants of the instances.

| Run | Bounds | What it shows |
|---|---|---|
| `indexed_memory` | 3 addresses, 3 times, accesses of up to 3 bytes, 2 byte values | every sequence of reads and writes: leaves are disjoint, past ones are final, and the leaves answer exactly what was observed |
| `normalize` | 1 address, 3 times, 2 registers, 2 words | every sequence of tokens, several per line |
| `memory_end` | as `normalize` | finding 1 |
| `zones` | 10 addresses, padding 2, 4 leaves of up to 3 bytes | every order of insertion |
| `index_build` | 8 times, 16 keys, 4 partitions, 2 trees of each kind; up to 3 leaves scattered over all trees, 4 memory leaves of one key, up to 5 leaves in a tree (nodes of two), or two accesses of up to 4 bytes cut up to twice; 1 byte is inlined | every schedule of tasks and a kill at every step |
| `read_buffers` | as `index_build` | finding 2 |
| `rtree_reader` | registers: node orders 1 and 2, up to 17 leaves, up to 3 levels of nodes; memory: 1 to 3 zones of writes or reads in either order | every query, snapshot and search, at every time, for several sets of keys |
| `search` | 12 patterns over 3 bytes, words of up to 5; three of them in 7 layouts of up to 4 leaves with all fillings with 2 bytes and in two zones, the others in one layout with 3 bytes | every order in which the hash sets give states and symbols; every interleaving of workers, collectors and chain tasks |
| `fetch` | 5 layouts, alone and with a second zone; every range and time | every order of leaves inside a zone |
| `valid_range` | as `fetch` | finding 3 |
| `tracer` | 2 threads, 1 register of 2 values, a flush at 4 items; three workloads of up to 5 callouts, 2 entries and 1 exception; 4 sets of options | every interleaving of threads, exceptions, the end and the host |
| `frontend` | 2 traces, of three times and of one, opened at most twice; bars of 2 pixels and a mouse one pixel above to two below; selections up to 1 outside the trace; times from 0 to one after the last, and text that is no number | every order of opening, closing, jumps, edits, painting, clicks and drags |

Why the bounds are enough. Three addresses and three times are what it takes for a
write to cut a leaf on both sides and for a piece to be cut again; three bytes let
an access cover several leaves and holes. One address is enough in `normalize`,
because cuts between addresses are the subject of the run before; three times allow
an event before, at and after another. In `zones`, four leaves give three zones and a leaf
that joins them in either order of indices. In `index_build`, three leaves reach two
tasks at once, two leaves of one partition in either order and two read zones; five leaves
in a tree of nodes of two give two levels, the last group of each partial; an access of four
bytes cut twice goes from the data section to the inlined bytes, and two accesses with the
same bytes share them. With sixteen keys over four partitions the
curve turns inside the partitions. In
`rtree_reader`, order 1 alone hides an error: a group of two always ends at an odd
place, so that forgetting one shift cannot be seen; order 2 with 7 and 17 leaves
has partial groups at each level. Three zones of memory are what it takes for the best answer to
be in the middle one. The layouts of `search` were chosen so that a
pattern forks, restarts, meets a byte unknown at first, and crosses three leaves.
Its patterns are those of `regex/tests/match.rs`, the three
whose searches differ most, and ones with nested loops, loops of nothing, classes of code
points that share a first byte, and a class of nothing; their minimal DFAs have at most six
states, and words of five bytes tell these apart. In `tracer` a
flush at four items cuts lines at every item, five callouts are an instruction,
a call, code outside the module, a return and one more instruction, and each
workload leaves out the kinds of instruction that do not matter to its question. In
`frontend` two opens give the second trace observers and windows of the first; a trace
of one instant is the one the timeline cannot draw; each bar can be pressed at its top and
middle, and a drag may end outside it on either side; times before, in and after the trace are
asked for at its first, middle and last time.

Layouts of `search` and `fetch` are ones `DisjointPass` can leave: an address, once
known, stays known to the end.

Fairness. `IndexBuild` assumes that the main thread continues and that some task of the pool is run
when one waits (rayon promises both); the kill is not fair. `RegexSearch` and
`RTreeReader` assume that some enabled step is taken: the compiler and the readers are
sequential, and a search is a scope whose threads all run to their end. The other
specifications state safety only; in particular the user of the front end need not do
anything.

## 4. Properties

Memory. `LeavesDisjoint`, `EmittedLeavesArePast` and `LookupIsComplete` are what
the comments of `disjoint.rs` rely on; `AnswersHistory` is what they are for: at
every address and time the leaves have the byte of the last access, or none before
the first. `ReadsAreAnswered` adds that a read that was deduplicated still finds its
bytes.

Registers. `SlotsAreFull` is the `expect` at the end of the trace, `OneLeafAtATime`
and `RefinesRegisterHistory` say that `value_at` answers the last value written at or
before the time, also when a line writes a register twice.

Zones and build. `ZonesStayApart`, `EveryLeafHasItsZone`, `CountsAreWhatIsFound`: the counts of the first pass stay true of the zones the last pass
finds. `TasksFitTheirSlots`, `LeavesAreSorted`, `BuildEnds`:
whatever the schedule, each slice is filled once, and the leaves of a tree are in the order
of the Hilbert curve though each partition was sorted alone, which holds only because the
partition key is the beginning of the key. `WhatOpensReadsBack` reads the file with the
code of `Db`: whenever the writer was killed, a tree of a file that opens is empty or has
all its leaves, and each write leaf has the bytes that were traced, through
deduplication, cutting and inlining; when the build has ended each tree is the one
its leaves make, and the file ends where its data do. `TypeOK` says that no panic of the
passes but finding 2 is reached, the views of the layout included.

Readers. `QueryIsExact`: a query of a register or of memory returns exactly the leaves
that match, zone after zone; `NearestIsNearest`: previous, next, first and last are the
nearest of all zones; both rest on `TypeOK`, which includes that the slices nest and the
assertion at `query.rs:94`, and on `HeapCoversMatches`. `SnapshotFindsTheChanges`: the
steps a register offers lead to the nearest change. `ReadsEnd`.

Fetch and search. `FetchIsWhatMemoryHeld`, `CompleteAnswerStaysValid`;
`EveryResultIsAMatch`, `EveryMatchEndIsFound`, `NothingTwice`, `SearchEnds`.
`EveryMatchEndIsFound` is about ends on purpose: runs that reach the end of a leaf in
one state are merged (`search.rs:353`), so of several starts of one end only the
first need be reported.

The results of a search are compared with the words of the pattern, not with its DFA, so
that `EveryResultIsAMatch` and `EveryMatchEndIsFound` are about the compiler and the search
together.

Patterns. `AcceptsThePattern` compares `execute_dfa` on every haystack with the words
of the pattern; `IsMinimal` is the doc comment of `determine_and_minimize_nfa`; the
DFA is deterministic with one initial state at every step (`TypeOK`).

Tracer. `FileIsTheLog`: what is in the file of a thread, followed by the chunks on
their way and the buffer, is what the thread logged, in order, and commas stand
exactly between the items of a line. `RegistersAreReplayed`: whoever reads the trace
up to an instruction knows the registers, through calls into code that is not traced
and through entries before. It excepts what the tracer cannot see, and says so: a
register that an instruction changes without an operand for it, and a register
that became zero between two entries, because a new `CModule` compares with zeros
(`trace_arm64.c:614`). On x64 it would need one more exception: `call_instruction` is
always 0 there (`trace_x64.c:595`), so with `--exclude` what an excluded call changed is
not logged. A buffer that the exception handler frees under its writer
is undefined behaviour; the model lets it be sent or lost.

Front end. `WhatIsShownIsCurrent`: every window on the screen is of the trace that is open,
is one that the next close will close, and shows the current time or is about to be
painted; what is left in the line of the registers after Enter, and until the time
changes, is the current time or one that is clamped to it (`LineFollowsTheTime`); the local bar is there just while the global one has a selection, with its bounds.
It holds although observers are never unregistered, because `set_time` catches
what each of them raises.

## 5. Findings

1. `KnownUntilTheEnd` (`index/src/pass.rs:115`). Memory leaves end at the last memory
   access, register leaves at the last event. If the trace goes on with register
   events, memory is unknown there, though it was known before.
2. `NoPanic` (`index/src/pass/fill.rs:42`). The buffers of the read zones are
   made per write zone. A trace with more read zones than write zones panics. Reads
   at 0 and at 200 GB with a write at 100 GB are such a trace: the write joins the write
   zones through the padding, and the read zones stay apart.
3. `NoUpdateInsideTheRange` (`db/src/db.rs:167`). The range of times a fetch says it
   is valid for is narrowed by the leaves it found; a byte that is still unknown
   narrows nothing. The range of a complete answer is right
   (`CompleteAnswerStaysValid`).

Seen while modelling, and stated by the code alone, so that no document is
contradicted:

- A build killed after its metadata were written leaves a file that opens, with trees that
  are empty or whose nodes are zero; queries of it find nothing (`lib.rs:62`).
- A trace of one instant divides by zero in the timeline (`timeline_widget.py:114`):
  its time is never drawn.
- Selections that are dragged past the end of a bar are not clamped to the trace.
- A click in the local bar ends no selection, since `on_local_selection` always
  invalidates it; only the global bar hides the local one.
- The line of the registers may keep a time that is not the current one. A time typed beyond
  an end of the trace while the current time is at that end is clamped to the current time;
  `set_time` returns before it tells any observer (`core.py:173`), and the line is not
  written again (`register_widget.py:154`): with times 1 to 3 and the current time 3, typing 4
  leaves 4. `line = db.time` is therefore no invariant; `LineFollowsTheTime` says how far the two may differ.
- `on_time_edit` (`register_widget.py:149`) uses `new_time` unassigned when the text is
  no number: the line is written again, and the handler raises.
- The snapshot of a register offers the first time of that register as the next change for a time after
  the end of the trace (`registers.rs:80`). The widgets never ask for one.

## 6. Proofs

Checked by TLAPS for every value of the constants. No theorem bounds the number of
accesses, leaves, nodes, levels or zones but where a constant of the module does.

| Module | Theorems | What they say |
|---|---|---|
| `NormalizePassProofs`, about `MemNode` | `FragmentsInsideSelf`, `FragmentsDisjoint`, `FragmentsCover` | what `fragment_by` returns lies inside the first rectangle and outside the second, never overlaps, and covers the rest |
| the same, about `DisjointPass` | `Invariance`, `TypeCorrectness`, `DisjointLeaves`, `EmittedArePast`, `CompleteLookup` | the leaves of memory never overlap, and each lookup finds what it should |
| the same, about `IndexedMemory` | `Refinement`, `LeavesAnswerHistory` | the pass implements `MemoryHistory` |
| the same, about `NormalizePass` | `DrivesThePass`, `NormalizeInvariance`, `NormalizeTypeCorrectness`, `NoEmptySlot`, `RegisterLeavesApart`, `ReadsFindTheirBytes`, `RegisterRefinement` | a run of the event pass is a run of the memory pass, and the registers implement `RegisterHistory` |
| `ZonesProofs` | `ZonesTypeCorrectness`, `ZonesNeverMeet`, `LeavesFindTheirZone`, `ZonesCountTheirLeaves` | zones stay apart, and count the leaves that are found in them |
| `IndexBuildProofs` | `TasksFit`, `ViewsCanBeTaken`, `BuildTypes` | every task has as many leaves as its part of the file, which nobody else writes, and a build stops on nothing but a missing buffer |
| the same, about `Hilbert` and the file | `EarlierPartition`, `BuildSorts` | the leaves are in the file in the order of the curve |
| the same, about opening what was built | `BuildReadsBack` | whenever the writer was killed, what opens has all the leaves of its trees, with their bytes, and what was finished is whole |
| `RTreeProofs` | `TreesAreSound` | the tree that is written is the one that is read |
| `RTreeReaderProofs` | `ReaderTypeCorrectness`, `QueriesAreExact`, `HeapCoversWhatMatches`, `SearchesFindTheNearest`, `SnapshotsFindTheChanges` | what is read is what was asked for |
| `FetchProofs` | `FetchTypeCorrectness`, `FetchReadsMemory`, `CompleteAnswersStay` | a fetch returns what memory held, and for how long |
| `FrontendProofs` | `FrontendTypeCorrectness`, `FrontendShowsWhatIsCurrent` | windows follow the open trace and its time, the line of the registers up to clamping |
| `TracerProofs` | `TracerTypeCorrectness`, `FilesAreTheLog`, `ReadersKnowTheRegisters` | the file of a thread is what it logged, and whoever reads the log knows the registers |

### Assumptions

Each is named in the module that declares the constants it is about, and evaluated by TLC
in the runs above it.

- `DisjointPass`: `Addr` is `0..AddrMax` and `Time` is `0..TimeMax` for natural bounds,
  `MaxLen` is natural, `Unknown` is no byte and `NoLeaf` no leaf. `NormalizePass`: `NoLeaf` is
  no register leaf either (`None` of an `Option`).
- `Zones`: the bounds are natural and the padding is even, as that of the code (2^37) is.
- `RTree`: keys and times start at 0 and have a greatest one. A power of two is a recursive
  function (`Pow2`), since the provers know nothing of `^`.
- `Hilbert`: the widths are natural, those of a time and of a partition key are at most that of
  a key, and keys and times fit in their widths.
- `IndexBuild`, `TracesAssumption`: the order of the nodes is one that `build_index` accepts,
  the metadata, a JSON object, is not empty, and traces are sequences of events as the passes
  before emit them (`Dense`, `Covered`, `WellCut`). `NoneAssumption`: `None`, which stands for
  the zeros of what has not been written, is neither a leaf nor the header of a tree. A header
  that was written is never all zeros, its order being from 1 to 16; a leaf may be, and the
  model keeps the two apart.
- `RTreeReader`: `NoneAssumption`, and `DatabasesAssumption`: a database has trees that were
  built (`TreeOf` of some leaves) of leaves that are well formed, and the leaves of a register
  hold exactly one value at each time of its life, as `RegisterLeavesApart` and
  `RegisterRefinement` establish for what the event pass emits.
- `Fetch`: the bounds are natural, and no two leaves of a database cover the same byte at the
  same time, as `DisjointLeaves` establishes for what the memory pass emits.
- `Frontend`: the bars have a height, the bounds are natural, a trace has a first and a last
  time, and `None` is neither a selection nor a trace.
- `Tracer`: threads and registers are finite sets, and no register has one of the keys the
  trace uses for something else (the pc, a memory access, the slide, the end of a line).

### Memory

The inductive invariant of `DisjointPass` is `TypeOK /\ Keyed /\ EmittedLeavesArePast /\
LeavesDisjoint`. None of its parts is inductive alone. `LeavesDisjoint` after a write
needs every open leaf the write overlaps to have been found; the lookup finds them
all only if open leaves are disjoint and stored under their first address
(`Keyed`); the emitted leaves are out of the write's way because they are past. The
argument is in three steps:

1. `AllLeavesAfterReplace`: after a write the leaves are those it did not touch, the
   fragments of those it did, and the new one. The time of the write is not before
   `current_time`, so a fragment is either over before it, and emitted, or stays open.
2. Disjointness follows from the three facts about fragments.
3. `ReplaceValues`, `DuplicateValues`, `FinishValues`: the values the leaves answer
   change exactly as `MemoryHistory!Access` and `Close` say. For a cut leaf this needs
   that the slice of its bytes stays aligned with its addresses, and for a
   deduplicated read that the comparison covers every address of the range.

### Events and registers

`DrivesThePass` makes every theorem about the memory pass one about the composition: a memory
event is a `Push`, at a time that never goes back because the clock of the parser does not.
For the registers the invariant (`RegInv`) adds to the properties that a name has one slot
(`NamesDistinct`), that what was emitted for a register ends before its open leaf starts and
that there is an open leaf until the end (`EmittedEndBeforeOpen`), and that the memory pass is
never ahead of the events nor these of the parser (`ClocksAgree`); without the last, a
leaf that is closed might end after the trace. `ReadsFindTheirBytes` also needs that an access that was
read is past (`ReadsArePast`): what comes later changes only what is answered later.

### Zones

`Sound` says that zones are apart and that some assignment of the leaves to zones puts every
leaf in a zone that contains it and that counts just the leaves assigned to it. The
assignment is there because the state in the middle of the merge loop has no other
invariant: zones overlap then, and a leaf may lie in several. Each merge removes a
zone, so that as many merges as there are zones leave none in conflict (`MergeEnds`); zones that
are not in conflict are more than the padding apart (`ConflictIsNear`), and once they are, the
assignment can only be what `find_zone_containing_addr_range` finds (`ApartFinds`).

### Trees and their readers

The levels and the nodes are recursive functions of numbers and sequences. That such a
function exists is `Recursion`; what it computes is shown by taking the least input for
which it is wrong (`Least`, `Induction`). `TreesAreSound` is what follows for the tree: each node bounds
exactly the leaves its place says are under it, so that the slices that the scout pass
reserved are those the last pass fills. Everything after is about a `Readable` tree, one in
which the leaf `k` lies under the node `Up(t, l, k)` of the level `l`.

The inductive invariant of the readers has three parts. `ZonesInv` is about the trees to be
read. `SearchInv`: every item of the heap bounds what is under it, each leaf that matches is
under just one item, and the answer is the nearest of the trees that were searched.
`QueryInv`: the iterators that are open nest (`Nested`), each over the children of the node
before the place of the one above, and what was found is what is wanted of the trees and
leaves the iterators have left behind (`FoundInv`). `Nested` is what carries the query from one
level to the next: the place of a query is only right as long as each iterator starts where the one above
says.

### Build

*The layout.* A build takes all its views of the file at once and panics if two overlap or one is
not aligned. `PlannedApart` says that it never does: a section ends before the next starts
(`EndsRise`, `SectionsApart`), the partitions of a tree follow one another by the sums of the counts
before (`RoomsAdd`), and all lie behind the header. Which view is which is `ViewsAreApart`. That
the scout pass reserves as many nodes as the last pass writes is `NodesCounted`.

*The fill pass.* A task copies its leaves with `copy_from_slice`, into a slice whose length was
counted by the pass before: `TasksFit` says that these agree, and that the slice is touched once.
The inductive invariant (`FillInv`) has four parts. `Waiting`: the buffer of a partition holds
as many leaves as were seen so far, or none once all are seen. `Handed`: a task has as many leaves as
its partition, and is the only one for it. `Unwritten`: what still waits, in a buffer or in
a task, has not been written; this is what the bytes of accesses, the other tasks and the
rest of the build must keep, and they do because the views never overlap. `InOrder`: every task
has run before the header is written. A partition is never empty in a task, since a leaf is
what spawns it.

*The file.* `BuildInv` adds what is in the buffers, and so in the file. A buffer holds
exactly the leaves of its partition that were seen (`Gathered`), and a task all of them
(`Carried`), where "exactly" is a list of them without repetition (`Lists`, `Holds`). A task sorts
and writes them: sorting by key is a permutation whose keys ascend (`SourcesAre`, `SortedIs`). What
nobody awaits any more is in the file in that order (`Filled`), and stays there because every
other step writes elsewhere (`StoreKeeps`). The rest is what keeps a build from stopping:
`Recorded`, the accesses that were met; `DataFits`, the data section has used no more than the bytes
of the accesses so far, which is less than was counted for it; `Inside`, nothing is written past the
end. `BuildTypes` follows, and with it that only a missing buffer stops a build.

*The order.* Partitions are sorted one by one, and no one sorts the whole tree. That it is sorted
all the same is a fact about the curve: of two places whose first bits differ, the order is that
of the first bits (`CurveBegins`), and a partition key is the key of the first bits
(`PartitionBegins`), so that a leaf of an earlier partition has no larger key (`EarlierPartition`). With
`Filled` for each partition, and the partitions one after the other (`TreeWritten`, `TreeRead`), the
tree is sorted (`TreeSorted`, `BuildSorts`).

*Reading back.* `BuildReadsBack` needs two invariants next to `BuildInv`. `TreesInv` says what the
file is phase by phase: where the lists, the levels and the nodes of a kind are to be there is
nothing until the phase that writes them, and what is to be there afterwards (`TreesHold`, `NodesHold`);
the header is the one of the phase (`HeaderHolds`), so that nothing opens before the leaves are complete.
Each step touches some sections only (`Touches`), and sections never overlap (`SpotsAre`). `BytesInv` says
what the leaves stand for: where the bytes of each access are (`DataHeld`), what the memo of the
deduplication finds (`MemoHeld`), and that every leaf in a buffer, in a task or in the file is
a leaf of its tree packed with bytes that stand for it (`IsLeaf`). That a cut keeps this, whether the bytes
stay in the data section or become short enough to be inlined, is `CutHolds`; that any number of cuts
do, `CutsHold`. What a step stores in the data section goes behind what is used, so that everything stored
before stands (`DataGrows`, `StoredStays`). When the build has ended, the data section is cut at
what is used and the file with it; no other section is behind it (`SectionRecord`).

### Fetch

`FInv`: the leaves still to come are in the stack of the zones, and the array is what those
given so far say (`ArrayInv`), with the count of what is filled equal to the number of
places filled. This needs the leaves of the database to be apart: otherwise a byte could be
filled twice and the count would be wrong. `TimesInv` keeps the range of times inside the life of each
leaf given.

### Front end

`WindowsInv` adds to `WhatIsShownIsCurrent` the history of the windows. `set_time` reaches a
window only if it is an observer and its widget is alive; a destroyed one stays an observer,
so that the invariant says it is of this trace or an earlier one, and none of the windows a new trace
brings up is already destroyed. For the line, the same fact says that every change of the time rewrites it
while its window is on the screen, a time of the trace is clamped to itself (`TimesOfTheTraceStay`), and
`EditTime` leaves what was typed only where `ClampTime` takes it to the current time. `BarsInv` says that a drag over the local bar keeps it on
the screen.

### Tracer

What FlattenSeq does with the chunks of a thread (`FlattenConcat`) comes from an induction over
numbers (`NatIsInductive`). A step of the process, of whichever thread, only adds
what it logs behind what the host has not taken (`Adds`); sending a buffer moves items and adds none
(`AddsSent`), and the exception handler sends each buffer once (`FlushedIs`) unless it drops it. The host's part of
the invariant, `HostInv`, says that for each thread some `body` has been taken: the file is the
slide and `Lines(body)`, `midline_break` has the thread just when `body` ends in the middle of
a line, and `body` with what is on its way is the log. That last part is needed by the
next chunk: its first comma is right only because `midline_break` remembers how the
last chunk that was not empty ended (`LinesOfTwo`).

For the registers, `RegistersInv` says what a thread compares them with at its next callout.
If it lists the operands of the instruction (`dump_all_regs` is 0), these are the registers of the last
callout; otherwise it is the snapshot. Either way, each says what a reader of the log knows
(`Known`), or zero, but for registers that changed without an operand. This is not
inductive alone: after a branch to a register, or a line outside the module, the
registers of the last callout are not what was logged, so the invariant also says that
operands are only ever listed after an instruction of the module that does not branch to
a register. What a line adds to a log (`KnownAfterLine`) then carries it from one callout to the
next.

### Model-checked only

- The properties of `RegexSearch`. The patterns are trees, and
  `HirToNfa` is written with `RECURSIVE` operators over them, in which no proof can be checked.
- Liveness (`BuildEnds`, `ReadsEnd`, `SearchEnds`).

## 7. Not modelled

The slow tracer is a second implementation of the callouts in JavaScript. Of the front end,
what a window draws beside the time, the keys, and the breakpoints and selections of the memory
window are user interface code; of the Python bindings, the leaked mapping that outlives its
readers. The command line parses arguments, prints progress and calls `build_index` and
`search`. Loading is modelled for the files a build may leave behind, and not for
files damaged in another way. The text of a trace (hex digits, UTF-8), look-around in a
pattern, which panics, and the graph printed by `dot.rs` have no model. `Time` does not wrap
in the models. A write to the mapped file is atomic between two kills.

## 8. Plan

Done, in this order: disjoint pass and its abstract memory; normalisation; zones;
index build; R-tree and its readers; search; fetch; the proofs of section 6; the
tracer; patterns and their DFAs; the search of compiled patterns; readers over zones and
the register snapshot; the layout, the data section, the Hilbert keys and reading back what
was built; the front end; the proofs about events, zones, readers, fetches, the front
end, the tracer and the build.

Next:

1. The operands of x64 in `Tracer`.
2. Patterns without `RECURSIVE` operators, so that `RegexSearch` can be reasoned about.

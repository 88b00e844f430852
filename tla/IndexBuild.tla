----------------------------- MODULE IndexBuild -----------------------------
(***************************************************************************)
(* build_index (crates/index/src/lib.rs) after the trace has been cut into *)
(* leaves: the passes that count them, the fill pass that stores the bytes *)
(* of the accesses and whose tasks sort the partitions in parallel         *)
(* (pass/fill.rs), and the order in which the file is written              *)
(* (storage.rs, layout.rs).  The process may be killed at any step, and    *)
(* what it leaves behind may be opened (Db::from_aligned_slice).           *)
(***************************************************************************)
EXTENDS Hilbert, Layout

CONSTANTS MaxTrees,    \* bound: zones per kind, or registers
          NodeOrder,   \* node_size_order
          InlineSize,  \* bytes that fit in packed_data, 8 in the code
          Metadata,    \* length of the metadata, a JSON object: never empty
          Traces,      \* bound: the traces that are indexed, sequences of events
          None

\* What every pass sees in the same order: the bytes of an access, and the
\* leaves.  A write leaf is what is left of an access after some cuts; the
\* others have none.
Tree == Kind \X (1..MaxTrees)
Access(bytes) == [of |-> "access", bytes |-> bytes]
Leaf(tree, node, access, cuts) ==
  [of |-> "leaf", tree |-> tree, node |-> node, access |-> access, cuts |-> cuts]

Event == [of : {"access"}, bytes : Seq(Nat)]
           \cup [of : {"leaf"}, tree : Tree,
                 node : {n \in Node : n.time_min <= n.time_max /\ n.key_min <= n.key_max},
                 access : Nat, cuts : Seq(Nat \X Nat)]

\* The places of the leaves of a tree.
LeavesOf(events, tree) == {i \in DOMAIN events : events[i].of = "leaf" /\ events[i].tree = tree}

\* The bytes a leaf stands for.
CutBytes(bytes, cut) == SubSeq(bytes, cut[1] + 1, Len(bytes) - cut[2])
BytesOf(events, leaf) == FoldLeft(CutBytes, events[leaf.access].bytes, leaf.cuts)

\* The zones and registers found by the scout pass are numbered from 1.
Dense(events) ==
  \A t \in Tree : LeavesOf(events, t) # {} => \A i \in 1..t[2] : LeavesOf(events, <<t[1], i>>) # {}

\* What is read is also in a write leaf, and no leaf is long enough to reach
\* into two read zones.
Covered(events) ==
  Cardinality({i \in 1..MaxTrees : LeavesOf(events, <<"read", i>>) # {}})
    <= Cardinality({i \in DOMAIN events : events[i].of = "leaf" /\ events[i].tree[1] = "write"})

\* A leaf comes after its access and has a byte for each of its addresses.
WellCut(events) ==
  \A i \in DOMAIN events :
    events[i].of = "leaf" /\ events[i].tree[1] = "write" =>
      /\ events[i].access \in 1..(i - 1) /\ events[events[i].access].of = "access"
      /\ Len(BytesOf(events, events[i]))
           = events[i].node.key_max - events[i].node.key_min + 1

ASSUME TracesAssumption ==
  /\ NodeOrder \in Order /\ InlineSize \in Nat /\ Metadata \in Nat \ {0} /\ MaxTrees \in Nat
  /\ \A t \in Traces : t \in Seq(Event) /\ Dense(t) /\ Covered(t) /\ WellCut(t)

Section == [start : Nat, end : Nat]

\* What has not been written is neither a leaf nor the header of a tree.
ASSUME NoneAssumption ==
  /\ None \notin [node : Node]
  /\ None \notin [node : Node, packed_data : [bytes : Seq(Nat), offset : Nat]]
  /\ None \notin [order : Order, leaves : Section, nodes : Section, levels : Section]

VARIABLES trace,      \* the events, in the order every pass emits them
          phase,      \* how far build_index is
          pos,        \* events the fill pass has handled
          scout,      \* what the scout pass counted
          room,       \* tree, partition -> leaves counted by the partition pass
          layout,     \* where everything is in the file
          dedup,      \* DataDedup: the bytes used, and where what is stored
          data,       \* access -> its bytes, inlined or in the data section
          buffers,    \* tree, partition -> leaves waiting in the fill pass
          tasks,      \* spawned tasks that have not run
          size,       \* size of the file
          file,       \* position -> what has been written there; the rest is zero
          alive       \* the process has not been killed

plan == <<trace, scout, room, layout>>
filling == <<pos, dedup, data, buffers, tasks>>
vars == <<plan, phase, filling, size, file, alive>>

-----------------------------------------------------------------------------
(* The scout and the partition pass *)

\* The room that an event asks of the data section, by its place from 0: the
\* bytes of an access that is too long to be inlined.
Bytes(events) ==
  [i \in 0..(Len(events) - 1) |->
     LET e == events[i + 1]
     IN  IF e.of = "access" /\ Len(e.bytes) > InlineSize THEN Len(e.bytes) ELSE 0]

\* scout_pass: the trees, the leaves of each, and the room for the data.
ScoutPass(events) ==
  [metadata |-> Metadata, order |-> NodeOrder, data |-> SumTo(Bytes(events), Len(events)),
   count |-> [k \in Kind |-> Cardinality({i \in 1..MaxTrees : LeavesOf(events, <<k, i>>) # {}})],
   leaves |-> [t \in Tree |-> Cardinality(LeavesOf(events, t))]]

BboxOf(events, tree) == Bbox({events[i].node : i \in LeavesOf(events, tree)})
PartOf(events, leaf) == HilbertPartitionKey(leaf.node, BboxOf(events, leaf.tree))

\* hilbert_partition_pass: how many leaves each partition of a tree has.
LeavesIn(events, tree, part) == {i \in LeavesOf(events, tree) : PartOf(events, events[i]) = part}
Partitions(events) == [t \in Tree |-> [p \in Part |-> Cardinality(LeavesIn(events, t, p))]]

\* The passes over the trace that come before the file, and the layout.
Init ==
  /\ trace \in Traces
  /\ scout = ScoutPass(trace)
  /\ room = Partitions(trace)
  /\ layout = BuildStorageLayout(scout)
  /\ phase = "allocate" /\ pos = 0
  /\ dedup = [used |-> 0, memo |-> {}] /\ data = <<>>
  /\ buffers = [t \in Tree |-> [p \in Part |-> <<>>]]
  /\ tasks = {}
  /\ size = 0 /\ file = <<>>
  /\ alive = TRUE

Step(from, to) == alive /\ phase = from /\ phase' = to /\ UNCHANGED <<trace, alive>>

\* The file is allocated, and the fill pass takes the views it writes through.
Allocate ==
  /\ Step("allocate", IF CanBeViewed(Views(layout, scout, room), layout.size)
                      THEN "fill" ELSE "failed")
  /\ size' = layout.size
  /\ UNCHANGED <<plan, filling, file>>

-----------------------------------------------------------------------------
(* The fill pass *)

\* The items of a type, one after the other from a position on.
ItemsAt(start, type, items) ==
  [p \in {start + (i - 1) * Size[type] : i \in DOMAIN items} |->
     items[((p - start) \div Size[type]) + 1]]

\* Items are stored in the file over what was there.
Store(items) ==
  file' = [p \in DOMAIN file \cup DOMAIN items |-> IF p \in DOMAIN items THEN items[p] ELSE file[p]]
StoreAll(stored) ==
  file' = [p \in DOMAIN file \cup UNION {DOMAIN items : items \in stored} |->
             IF \E items \in stored : p \in DOMAIN items
             THEN (CHOOSE items \in stored : p \in DOMAIN items)[p] ELSE file[p]]

At(p) == IF p \in DOMAIN file THEN file[p] ELSE None
ReadSection(section, type) ==
  [i \in 1..((section.end - section.start) \div Size[type]) |->
     At(section.start + (i - 1) * Size[type])]

DataSection == layout.at[<<"data">>]
Stored(offset, len) ==
  LET start == DataSection.start + offset
  IN  ReadSection([start |-> start, end |-> start + len], "byte")

Inline(bytes) == [inline |-> TRUE, bytes |-> bytes, offset |-> 0, len |-> Len(bytes)]
Outline(offset, len) == [inline |-> FALSE, bytes |-> <<>>, offset |-> offset, len |-> len]

\* A mutated Cut that keeps the offset of what is cut on the left.
CutAtTheEnd(d, cut) ==
  LET len == d.len - cut[1] - cut[2]
  IN  IF d.inline THEN Inline(SubSeq(d.bytes, 1, len))
      ELSE IF len <= InlineSize THEN Inline(Stored(d.offset, len))
                                ELSE Outline(d.offset, len)

\* MaybeInlined::cut: what becomes short enough is inlined.
Cut(d, cut) ==
  LET len == d.len - cut[1] - cut[2]
  IN  IF d.inline THEN Inline(SubSeq(d.bytes, cut[1] + 1, cut[1] + len))
      ELSE IF len <= InlineSize THEN Inline(Stored(d.offset + cut[1], len))
                                ELSE Outline(d.offset + cut[1], len)

\* packed_data: the inlined bytes, with zeros after them, or the offset.
Packed(d) == [bytes |-> [i \in 1..InlineSize |-> IF i \in DOMAIN d.bytes THEN d.bytes[i] ELSE 0],
              offset |-> d.offset]

\* The bytes of the access that is met are these from now on.
Known(bytes) ==
  data' = [i \in DOMAIN data \cup {pos + 1} |-> IF i = pos + 1 THEN bytes ELSE data[i]]

\* DataDedup::insert: what is stored already is found in the memo, what is
\* not goes to the rest of the section, which panics when it is too short.
Insert(bytes) ==
  \/ \E m \in dedup.memo :
       /\ m.bytes = bytes
       /\ Known(Outline(m.offset, Len(bytes)))
       /\ UNCHANGED <<dedup, file, phase>>
  \/ /\ \A m \in dedup.memo : m.bytes # bytes
     /\ IF dedup.used + Len(bytes) <= DataSection.end - DataSection.start
        THEN /\ Store(ItemsAt(DataSection.start + dedup.used, "byte", bytes))
             /\ Known(Outline(dedup.used, Len(bytes)))
             /\ dedup' = [used |-> dedup.used + Len(bytes),
                          memo |-> dedup.memo \cup {[bytes |-> bytes, offset |-> dedup.used]}]
             /\ UNCHANGED phase
        ELSE phase' = "failed" /\ UNCHANGED <<dedup, data, file>>

Filling == alive /\ phase = "fill" /\ pos < Len(trace)

\* The fill pass meets an access.
FillAccess ==
  /\ Filling /\ trace[pos + 1].of = "access"
  /\ pos' = pos + 1
  /\ LET bytes == trace[pos + 1].bytes
     IN  \/ /\ Len(bytes) <= InlineSize
            /\ Known(Inline(bytes))
            /\ UNCHANGED <<dedup, file, phase>>
         \/ /\ Len(bytes) > InlineSize
            /\ Insert(bytes)
  /\ UNCHANGED <<plan, buffers, tasks, size, alive>>

\* The buffers exist per write zone for writes and for reads alike.
HasBuffer(tree) == CASE tree[1] = "write"    -> TRUE
                     [] tree[1] = "read"     -> tree[2] <= scout.count["write"]
                     [] tree[1] = "register" -> TRUE

\* A leaf as it is stored.
Flat(leaf) ==
  IF leaf.tree[1] = "write"
  THEN [node |-> leaf.node, packed_data |-> Packed(FoldLeft(Cut, data[leaf.access], leaf.cuts))]
  ELSE [node |-> leaf.node]

Spawned(tree, part, leaves) == [tree |-> tree, part |-> part, leaves |-> leaves]

\* A mutated PushLeafIntoPartition that spawns one leaf too early.
PushLeafEarly(tree, part, leaf) ==
  LET filled == Append(buffers[tree][part], leaf)
  IN  IF Len(filled) + 1 >= room[tree][part]
      THEN /\ tasks' = tasks \cup {Spawned(tree, part, filled)}
           /\ buffers' = [buffers EXCEPT ![tree][part] = <<>>]
      ELSE /\ buffers' = [buffers EXCEPT ![tree][part] = filled]
           /\ UNCHANGED tasks

\* A mutated PushLeafIntoPartition that waits for one leaf too many.
PushLeafLate(tree, part, leaf) ==
  /\ buffers' = [buffers EXCEPT ![tree][part] = Append(@, leaf)]
  /\ UNCHANGED tasks

\* push_leaf_into_partition: the leaf that completes a partition hands the
\* whole buffer to a task.
PushLeafIntoPartition(tree, part, leaf) ==
  LET filled == Append(buffers[tree][part], leaf)
  IN  \/ /\ Len(filled) = room[tree][part]
         /\ tasks' = tasks \cup {Spawned(tree, part, filled)}
         /\ buffers' = [buffers EXCEPT ![tree][part] = <<>>]
      \/ /\ Len(filled) # room[tree][part]
         /\ buffers' = [buffers EXCEPT ![tree][part] = filled]
         /\ UNCHANGED tasks

\* The fill pass meets a leaf; indexing past the last buffer panics.
FillLeaf ==
  /\ Filling /\ trace[pos + 1].of = "leaf"
  /\ LET leaf == trace[pos + 1]
     IN  \/ /\ HasBuffer(leaf.tree)
            /\ pos' = pos + 1
            /\ PushLeafIntoPartition(leaf.tree, PartOf(trace, leaf), Flat(leaf))
            /\ UNCHANGED phase
         \/ /\ ~HasBuffer(leaf.tree)
            /\ phase' = "unwinding"
            /\ UNCHANGED <<pos, buffers, tasks>>
  /\ UNCHANGED <<plan, dedup, data, size, file, alive>>

\* A worker has sorted the leaves of a partition and copies them to their view.
CopyLeaves(task, leaves) ==
  \E sorted \in {leaves} :
    Store(ItemsAt(PartitionView(layout, task.tree, room[task.tree], task.part).start,
                  task.tree[1], sorted))

\* sort_by_cached_key is stable: before a leaf are those with a smaller key, and
\* those with the same key that came before it.
Sorted(task) ==
  LET leaves == task.leaves
      bbox == BboxOf(trace, task.tree)
      key == [i \in DOMAIN leaves |-> HilbertKey(leaves[i].node, bbox)]
      before(i) == {j \in DOMAIN leaves : key[j] < key[i] \/ (key[j] = key[i] /\ j < i)}
  IN  [i \in DOMAIN leaves |->
         leaves[CHOOSE j \in DOMAIN leaves : Cardinality(before(j)) = i - 1]]

\* A mutated RunTask that copies the leaves in the order they came in.
RunTaskUnsorted(task) ==
  /\ alive /\ tasks' = tasks \ {task}
  /\ CopyLeaves(task, task.leaves)
  /\ UNCHANGED <<plan, phase, pos, dedup, data, buffers, size, alive>>

\* A mutated RunTask that is left in the queue.
RunTaskAgain(task) ==
  /\ alive
  /\ CopyLeaves(task, Sorted(task))
  /\ UNCHANGED <<plan, phase, filling, size, alive>>

\* A worker of the pool runs a task.
RunTask(task) ==
  /\ alive /\ tasks' = tasks \ {task}
  /\ CopyLeaves(task, Sorted(task))
  /\ UNCHANGED <<plan, phase, pos, dedup, data, buffers, size, alive>>

\* rayon's scope ends when every task has run; then the write buffers are
\* asserted to be empty.
EndOfScope ==
  /\ pos = Len(trace) /\ tasks = {}
  /\ Step("fill", IF \A t \in Tree, p \in Part : t[1] = "write" => buffers[t][p] = <<>>
                  THEN "header" ELSE "failed")
  /\ UNCHANGED <<plan, filling, size, file>>

\* A panic in the scope also waits for the tasks before it goes on.
Unwind == /\ tasks = {}
          /\ Step("unwinding", "panicked")
          /\ UNCHANGED <<plan, filling, size, file>>

-----------------------------------------------------------------------------
(* The rest of the file *)

\* A step that only writes to the file.
Write(from, to, start, type, items) ==
  /\ Step(from, to)
  /\ Store(ItemsAt(start, type, items))
  /\ UNCHANGED <<plan, filling, size>>

Header == [at |-> [name \in {<<"metadata">>, <<"data">>}
                            \cup ({"headers", "bboxes"} \X Kind) |-> layout.at[name]]]

WriteHeader == Write("header", "metadata", 0, "header", <<Header>>)

\* The metadata are one item here.
WriteMetadata ==
  Write("metadata", "write trees", layout.at[<<"metadata">>].start, "byte", <<"metadata">>)

TreeHeader(tree) ==
  [order |-> scout.order, leaves |-> layout.at[<<"leaves", tree>>],
   nodes |-> layout.at[<<"nodes", tree>>], levels |-> layout.at[<<"levels", tree>>]]

\* write_rtree_bboxes_and_levels, for the trees of a kind.
WriteTrees(kind, from, to) ==
  LET trees == TreesOf(scout, kind)
      headers == ItemsAt(layout.at[<<"headers", kind>>].start, "tree",
                         [i \in DOMAIN trees |-> TreeHeader(trees[i])])
      bboxes == ItemsAt(layout.at[<<"bboxes", kind>>].start, "node",
                        [i \in DOMAIN trees |-> BboxOf(trace, trees[i])])
      levels(t) == ItemsAt(layout.at[<<"levels", t>>].start, "level", LevelsOf(scout, t))
  IN  /\ Step(from, to)
      /\ \E stored \in {{headers, bboxes} \cup {levels(t) : t \in Range(trees)}} : StoreAll(stored)
      /\ UNCHANGED <<plan, filling, size>>

Unused == scout.data - dedup.used

TruncateData ==
  Write("data", "register nodes", 0, "header",
        <<[file[0] EXCEPT !.at[<<"data">>].end = @ - Unused]>>)

\* build_intermediate_nodes_from_sorted_leaves, of the leaves in the file.
NodesOf(tree) ==
  LET leaves == ReadSection(layout.at[<<"leaves", tree>>], tree[1])
  IN  NodesOver(scout.order)[[i \in DOMAIN leaves |-> leaves[i].node]]

\* compute_and_write_rtrees_nodes, for the trees of a kind.
WriteNodes(kind, from, to) ==
  /\ Step(from, to)
  /\ \E nodes \in {[t \in Range(TreesOf(scout, kind)) |-> NodesOf(t)]} :
       StoreAll({ItemsAt(layout.at[<<"nodes", t>>].start, "node", nodes[t]) : t \in DOMAIN nodes})
  /\ UNCHANGED <<plan, filling, size>>

Truncate ==
  /\ Step("truncate", "done")
  /\ size' = layout.size - Unused
  /\ UNCHANGED <<plan, filling, file>>

\* The process is killed.  The file keeps what was stored through the mapping.
Kill == /\ alive /\ phase \notin {"done", "panicked", "failed"}
        /\ alive' = FALSE
        /\ UNCHANGED <<plan, phase, filling, size, file>>

MainStep == \/ Allocate \/ FillAccess \/ FillLeaf \/ EndOfScope \/ Unwind
            \/ WriteHeader \/ WriteMetadata
            \/ WriteTrees("write", "write trees", "read trees")
            \/ WriteTrees("read", "read trees", "register trees")
            \/ WriteTrees("register", "register trees", "data")
            \/ TruncateData
            \/ WriteNodes("register", "register nodes", "write nodes")
            \/ WriteNodes("write", "write nodes", "read nodes")
            \/ WriteNodes("read", "read nodes", "truncate")
            \/ Truncate

Next == MainStep \/ (\E task \in tasks : RunTask(task)) \/ Kill

\* The main thread keeps going, and some worker of the pool runs any task.
Spec == /\ Init /\ [][Next]_vars
        /\ WF_vars(MainStep)
        /\ WF_vars(\E task \in tasks : RunTask(task))

-----------------------------------------------------------------------------
(* Opening what is in the file *)

\* from_aligned_slice: the magic number is the header's first field, and the
\* metadata is parsed with unwrap().
Opens == file # <<>> /\ At(0) # None /\ At(At(0).at[<<"metadata">>].start) # None

\* read_rtree_list.  A header that is still zero is that of an empty tree.
OpenedHeader(tree) ==
  ReadSection(At(0).at[<<"headers", tree[1]>>], "tree")[tree[2]]

OpenedTree(tree) ==
  LET h == OpenedHeader(tree)
  IN  [order |-> h.order, leaves |-> ReadSection(h.leaves, tree[1]),
       nodes |-> ReadSection(h.nodes, "node"), levels |-> ReadSection(h.levels, "level"),
       bbox |-> ReadSection(At(0).at[<<"bboxes", tree[1]>>], "node")[tree[2]]]

\* mem_leaf_data: the length of a leaf says where its bytes are.
MemLeafData(leaf) ==
  LET len == leaf.node.key_max - leaf.node.key_min + 1
      start == At(0).at[<<"data">>].start + leaf.packed_data.offset
  IN  IF len <= InlineSize THEN SubSeq(leaf.packed_data.bytes, 1, len)
                           ELSE ReadSection([start |-> start, end |-> start + len], "byte")

-----------------------------------------------------------------------------
(* Properties *)

\* The state is well formed, no step panics but on a missing buffer, and a
\* buffer never holds as many leaves as its partition, since the last one
\* hands the buffer over (fill.rs:160-173).
TypeOK ==
  /\ phase \in {"allocate", "fill", "unwinding", "panicked", "header", "metadata", "write trees",
                "read trees", "register trees", "data", "register nodes", "write nodes",
                "read nodes", "truncate", "done"}
  /\ pos \in 0..Len(trace)
  /\ DOMAIN data \subseteq {i \in 1..pos : trace[i].of = "access"}
  /\ \A t \in Tree, p \in Part : buffers[t][p] # <<>> => Len(buffers[t][p]) < room[t][p]
  /\ \A task \in tasks : task.tree \in Tree /\ task.part \in Part
  /\ file # <<>> => DOMAIN file \subseteq 0..(layout.size - 1)

\* A task has exactly as many leaves as its part of the file has room for
\* (copy_from_slice panics otherwise), and no one else has written it.
TasksFitTheirSlots ==
  \A task \in tasks :
    LET view == PartitionView(layout, task.tree, room[task.tree], task.part)
    IN  /\ Len(task.leaves) = room[task.tree][task.part]
        /\ DOMAIN file \cap view.start..(view.end - 1) = {}
        /\ \A other \in tasks : other.tree = task.tree /\ other.part = task.part => other = task

AfterFill == phase \notin {"allocate", "fill", "unwinding", "panicked"}

LeavesInFile(tree) == ReadSection(layout.at[<<"leaves", tree>>], tree[1])

\* After the fill pass the leaves of a tree are in the order of the Hilbert
\* curve ("leaves must be sorted at this point", lib.rs:129), however its
\* partitions were scheduled, and are those of the trace.
LeavesAreSorted ==
  AfterFill => \A t \in AllTrees(scout) :
    \A leaves \in {LeavesInFile(t)} : \A bbox \in {BboxOf(trace, t)} :
      /\ \A a, b \in DOMAIN leaves :
           a < b => HilbertKey(leaves[a].node, bbox) <= HilbertKey(leaves[b].node, bbox)
      /\ \A i \in LeavesOf(trace, t) :
           Cardinality({a \in DOMAIN leaves : leaves[a].node = trace[i].node})
             = Cardinality({j \in LeavesOf(trace, t) : trace[j].node = trace[i].node})

\* A write leaf that is found has the bytes it stands for.
HasItsBytes(tree, leaf) ==
  tree[1] = "write" =>
    \E i \in LeavesOf(trace, tree) :
      trace[i].node = leaf.node /\ BytesOf(trace, trace[i]) = MemLeafData(leaf)

\* The trees of the trace whose header has been written.
OpenedTrees == {t \in AllTrees(scout) : OpenedHeader(t) # None}

\* A tree has all its leaves with their bytes, but perhaps no nodes yet.
HasItsLeaves(t, tree) ==
  /\ Len(tree.leaves) = Cardinality(LeavesOf(trace, t))
  /\ \A leaf \in Range(tree.leaves) : leaf # None /\ HasItsBytes(t, leaf)

\* A tree is the one its leaves make.
IsWhole(tree) ==
  \A leaves \in {[i \in DOMAIN tree.leaves |-> tree.leaves[i].node]} :
    [tree EXCEPT !.leaves = leaves] = TreeOf(NodeOrder, leaves)

\* What opens reads back.  Whenever the writer was killed, the data section is
\* inside the file, and a tree is empty or has all its leaves with their
\* bytes; when the build has ended every tree is whole, and the file ends
\* where its data do.
WhatOpensReadsBack ==
  Opens =>
    /\ At(0).at[<<"data">>].end <= size
    /\ \A t \in OpenedTrees : \A tree \in {OpenedTree(t)} : HasItsLeaves(t, tree)
    /\ phase = "done" =>
         /\ size = At(0).at[<<"data">>].end
         /\ OpenedTrees = AllTrees(scout)
         /\ \A t \in OpenedTrees : \A tree \in {OpenedTree(t)} : IsWhole(tree)

\* The build ends.
BuildEnds == <>(~alive \/ phase \in {"done", "panicked"})

\* No step of the fill pass panics on a trace.
NoPanic == phase # "unwinding"
=============================================================================

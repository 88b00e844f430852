------------------------------- MODULE RTree --------------------------------
(***************************************************************************)
(* The packed R-tree of a register or of a memory zone as the file stores  *)
(* it: the leaves, the bounding boxes of the groups above them, and where  *)
(* each level starts (crates/index/src/pass/scout.rs,                      *)
(* crates/index/src/lib.rs, crates/db/src/rtree.rs).                       *)
(*                                                                         *)
(* Two passes that never meet must agree here: the scout pass counts the   *)
(* nodes and places the levels knowing only the number of leaves, and the  *)
(* last pass writes the nodes knowing only the sorted leaves.              *)
(***************************************************************************)
EXTENDS Integers, Sequences, SequencesExt, FiniteSetsExt

CONSTANTS Time,  \* bound: times of the trace
          Key    \* bound: values of registers, or addresses of memory

ASSUME RTreeAssumption ==
  /\ Max(Time) \in Nat /\ Time = 0..Max(Time)
  /\ Max(Key) \in Nat /\ Key = 0..Max(Key)

\* 2^n, written so that it can be reasoned about.
Pow2[n \in Nat] == IF n = 0 THEN 1 ELSE 2 * Pow2[n - 1]

\* A node has up to 2^order children; build_index asserts the bounds.
Order == 1..16
NodeSize(order) == Pow2[order]

\* A leaf is a rectangle, as a node is.  RegLeaf: the register has the value
\* key_min = key_max; MemWriteLeaf: the addresses from key_min to key_max hold
\* their bytes; MemReadLeaf: they were read at time_min = time_max.
Node == [time_min : Time, time_max : Time, key_min : Key, key_max : Key]

\* extends_to_contain, over a whole group.
Bbox(nodes) == [time_min |-> Min({n.time_min : n \in nodes}),
                time_max |-> Max({n.time_max : n \in nodes}),
                key_min  |-> Min({n.key_min : n \in nodes}),
                key_max  |-> Max({n.key_max : n \in nodes})]

\* Groups needed for n items.
Groups(order, n) == (n + (NodeSize(order) - 1)) \div NodeSize(order)

-----------------------------------------------------------------------------
(* The scout pass *)

\* The sizes of the levels over n items, the parents of the items first.
LevelSizes(order) ==
  LET sizes[n \in Nat] == IF n <= NodeSize(order) THEN <<>>
                          ELSE <<Groups(order, n)>> \o sizes[Groups(order, n)]
  IN  sizes

\* Where each level starts: after those that were counted before it.
OffsetOf(sizes) ==
  LET offset[i \in 1..Len(sizes)] == IF i = 1 THEN 0 ELSE offset[i - 1] + sizes[i - 1]
  IN  offset

\* A mutated Levels that leaves the parents of the leaves first.
LevelsUnreversed(order, n) ==
  LET sizes == LevelSizes(order)[n]
  IN  [i \in DOMAIN sizes |-> [offset |-> OffsetOf(sizes)[i], size |-> sizes[i]]]

\* compute_node_count_and_levels: the levels, the root level first.
Levels(order, n) ==
  LET sizes == LevelSizes(order)[n]
  IN  Reverse([i \in DOMAIN sizes |-> [offset |-> OffsetOf(sizes)[i], size |-> sizes[i]]])

-----------------------------------------------------------------------------
(* The last pass *)

Group(order, s, i) ==
  SubSeq(s, (i - 1) * NodeSize(order) + 1, Min({i * NodeSize(order), Len(s)}))

\* The level over some items: a node for each group of them.
LevelOver(order, below) ==
  [i \in 1..Groups(order, Len(below)) |-> Bbox(Range(Group(order, below, i)))]

\* build_intermediate_nodes_from_sorted_leaves: the nodes of every level in
\* the order they are written, until a level fits in one group.
NodesOver(order) ==
  LET nodes[below \in Seq(Node)] ==
        IF Len(below) <= NodeSize(order) THEN <<>>
        ELSE LevelOver(order, below) \o nodes[LevelOver(order, below)]
  IN  nodes

\* The tree of a sequence of leaves.
TreeOf(order, leaves) ==
  [order |-> order, leaves |-> leaves, nodes |-> NodesOver(order)[leaves],
   levels |-> Levels(order, Len(leaves)), bbox |-> Bbox(Range(leaves))]

-----------------------------------------------------------------------------
(* What a reader sees *)

Depth(tree) == Len(tree.levels)

\* read_rtree_list: the slice of the nodes that is level l, 0 for the root.
NodeLevel(tree, l) ==
  LET level == tree.levels[l + 1]
  IN  SubSeq(tree.nodes, level.offset + 1, level.offset + level.size)

\* The items of level l, the leaves being the level after the last one.
Items(tree, l) == IF l < Depth(tree) THEN NodeLevel(tree, l) ELSE tree.leaves

\* How many leaves a full node has under it, by its height above the leaves.
Widths(order) ==
  LET width[height \in Nat] == IF height = 0 THEN 1 ELSE NodeSize(order) * width[height - 1]
  IN  width

\* The places of the leaves under item i (from 0) of level l.
LeavesUnder(tree, l, i) ==
  LET width == Widths(tree.order)[Depth(tree) - l]
  IN  {k \in 0..(Len(tree.leaves) - 1) : k \div width = i}

\* The first level fits in one node, as nearest_neighbor asserts, and every node
\* a reader reaches is the bounding box of exactly the leaves under it.
NodesBoundTheirLeaves(tree) ==
  /\ Len(Items(tree, 0)) <= NodeSize(tree.order)
  /\ \A l \in 0..(Depth(tree) - 1) :
       /\ Len(NodeLevel(tree, l)) = tree.levels[l + 1].size
       /\ UNION {LeavesUnder(tree, l, i) : i \in 0..(tree.levels[l + 1].size - 1)}
            = 0..(Len(tree.leaves) - 1)
       /\ \A i \in 0..(tree.levels[l + 1].size - 1) :
            /\ LeavesUnder(tree, l, i) # {}
            /\ NodeLevel(tree, l)[i + 1]
                 = Bbox({tree.leaves[k + 1] : k \in LeavesUnder(tree, l, i)})
=============================================================================

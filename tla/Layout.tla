------------------------------- MODULE Layout -------------------------------
(***************************************************************************)
(* Where everything is in the file (crates/index/src/layout.rs), in bytes: *)
(* the sections build_storage_layout places from the counts of the scout   *)
(* pass, and the ranges build_storage_view_mut splits the storage into     *)
(* from the counts of the partition pass.                                  *)
(***************************************************************************)
EXTENDS RTree, FiniteSets, TLC

Kind == {"write", "read", "register"}

\* The sum of the first n values of a function, from 0.
SumTo(f, n) ==
  LET sum[i \in 0..n] == IF i = 0 THEN 0 ELSE sum[i - 1] + f[i - 1]
  IN  sum[n]

\* mem::size_of and mem::align_of the types of flat.rs; leaves are named by
\* their kind, and MemReadLeaf is packed.
Size == [header |-> 144, byte |-> 1, tree |-> 56, level |-> 16, node |-> 24,
         write |-> 32, read |-> 20, register |-> 16]
Alignment(type) == IF type \in {"byte", "read"} THEN 1 ELSE 8

NextMultiple(pos, align) == ((pos + (align - 1)) \div align) * align

-----------------------------------------------------------------------------
(* build_storage_layout *)

\* What the scout pass knows: the trees of each kind, the leaves of each tree,
\* the length of the metadata, and the bytes to reserve for data.
TreesOf(scout, kind) == [i \in 1..scout.count[kind] |-> <<kind, i>>]
AllTrees(scout) == UNION {Range(TreesOf(scout, k)) : k \in Kind}

Request(name, type, count) == [name |-> name, type |-> type, count |-> count]

ListHeaders(scout, kind) ==
  <<Request(<<"headers", kind>>, "tree", scout.count[kind]),
    Request(<<"bboxes", kind>>, "node", scout.count[kind])>>

NodeCount(levels) == SumTo([i \in 0..(Len(levels) - 1) |-> levels[i + 1].size], Len(levels))

LevelsOf(scout, tree) == Levels(scout.order, scout.leaves[tree])

TreeLevels(scout, kind) ==
  [i \in 1..scout.count[kind] |->
     Request(<<"levels", <<kind, i>>>>, "level", Len(LevelsOf(scout, <<kind, i>>)))]

\* The nodes of a tree, then its leaves.
NodesAndLeaves(scout, kind) ==
  [i \in 1..(2 * scout.count[kind]) |->
     LET tree == <<kind, (i + 1) \div 2>>
     IN  IF i % 2 = 1 THEN Request(<<"nodes", tree>>, "node", NodeCount(LevelsOf(scout, tree)))
                      ELSE Request(<<"leaves", tree>>, kind, scout.leaves[tree])]

\* The data come last: they are truncated when it is known how many are used.
Requests(scout) ==
  LET ForKinds(requests(_, _)) ==
        requests(scout, "write") \o requests(scout, "read") \o requests(scout, "register")
  IN  <<Request(<<"metadata">>, "byte", scout.metadata)>>
        \o ForKinds(ListHeaders) \o ForKinds(TreeLevels) \o ForKinds(NodesAndLeaves)
        \o <<Request(<<"data">>, "byte", scout.data)>>

\* LayoutBuilder::section: each section is aligned for its type after the one
\* before it, and the first one after the header.
Ends(requests) ==
  LET end[i \in 0..Len(requests)] ==
        IF i = 0 THEN Size["header"]
        ELSE LET r == requests[i]
             IN  NextMultiple(end[i - 1], Alignment(r.type)) + r.count * Size[r.type]
  IN  end

BuildStorageLayout(scout) ==
  LET requests == Requests(scout)
      end == [i \in 0..Len(requests) |-> Ends(requests)[i]]
      index == [name \in {r.name : r \in Range(requests)} |->
                  CHOOSE i \in DOMAIN requests : requests[i].name = name]
  IN  [size |-> end[Len(requests)],
       at |-> [name \in DOMAIN index |->
                 LET r == requests[index[name]]
                 IN  [start |-> end[index[name]] - r.count * Size[r.type],
                      end   |-> end[index[name]]]]]

-----------------------------------------------------------------------------
(* build_storage_view_mut *)

View(of, type, start, end) == [of |-> of, type |-> type, start |-> start, end |-> end]

SectionView(layout, name, type) == View(name, type, layout.at[name].start, layout.at[name].end)

\* push_rtree_list_storage_ranges: the leaves of partition p of a tree, which
\* follow those of the partitions before it; room is the leaves of each.
PartitionView(layout, tree, room, p) ==
  LET start == layout.at[<<"leaves", tree>>].start + SumTo(room, p) * Size[tree[1]]
  IN  View(<<"leaves", tree, p>>, tree[1], start, start + room[p] * Size[tree[1]])

TreeViews(layout, tree, room) ==
  {SectionView(layout, <<"levels", tree>>, "level")}
    \cup {PartitionView(layout, tree, room, p) : p \in DOMAIN room}

KindViews(layout, kind) ==
  {SectionView(layout, <<"headers", kind>>, "tree"), SectionView(layout, <<"bboxes", kind>>, "node")}

\* Every range that is asked for; room is the leaves of each partition of each tree.
Views(layout, scout, room) ==
  {View(<<"header">>, "header", 0, Size["header"]),
   SectionView(layout, <<"metadata">>, "byte"), SectionView(layout, <<"data">>, "byte")}
    \cup (UNION {KindViews(layout, k) : k \in Kind})
    \cup (UNION {TreeViews(layout, t, room[t]) : t \in AllTrees(scout)})

\* storage_disjoint_views cuts the views off the end of the storage, the last
\* one first, and mut_from_bytes casts them; either panics where this fails.
CanBeViewed(views, size) ==
  LET some == {v \in views : v.start < v.end}
  IN  /\ \A v \in some : /\ v.end <= size
                         /\ v.start % Alignment(v.type) = 0
                         /\ (v.end - v.start) % Size[v.type] = 0
      /\ \A v, w \in some : v = w \/ v.end <= w.start \/ w.end <= v.start
=============================================================================

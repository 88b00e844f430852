----------------------------- MODULE RTreeReader ----------------------------
(***************************************************************************)
(* How packed R-trees are read.  QueryIter walks a tree in order and keeps *)
(* its place with shifts of one number (crates/db/src/query.rs);           *)
(* nearest_neighbor is a best-first search on a heap                       *)
(* (crates/db/src/nearest_neighbor.rs).  A register is one tree            *)
(* (crates/db/src/register.rs); the reads or the writes of memory are a    *)
(* tree per zone, read one after the other: the last first by              *)
(* MultiQueryIter (crates/db/src/db.rs), the first first by prev_mem_write *)
(* and the like (crates/db/src/memory.rs).  Indexes of items count from 0, *)
(* as in the source.                                                       *)
(***************************************************************************)
EXTENDS RTree, FiniteSets

CONSTANTS Databases,  \* bound: what is read: of a register or of memory, its
                      \* trees, and the sets of keys that searches look for
          None        \* no iterator, no answer

ASSUME NoneAssumption == None \notin Time \cup [start : Nat, end : Nat, next : Nat]

VARIABLES db,           \* what is read
          request,      \* what is asked
          status,       \* "new", "zones" between two trees, "running", "done"
          zones,        \* the places of the trees yet to be read
          zone,         \* the place of the tree that is read
          level_iters,  \* QueryIter: an iterator per level that is open
          leaf_iter,    \* QueryIter: the iterator over leaves, or None
          pos,          \* QueryIter: its place in the level that is open
          found,        \* the leaves returned so far: their trees and places
          heap,         \* nearest_neighbor: the nodes and leaves to visit
          answer        \* the best time found so far, or None

vars == <<db, request, status, zones, zone, level_iters, leaf_iter, pos, found, heap, answer>>
queryVars == <<level_iters, leaf_iter, pos, found>>
nearestVars == <<heap, answer>>

tree == db.trees[zone]

-----------------------------------------------------------------------------
(* Requests *)

Holds(r, t) == r[1] <= t /\ t <= r[2]
Disjoint(r, s) == r[2] < s[1] \/ r[1] > s[2]
TimeRange(item) == <<item.time_min, item.time_max>>
KeyRange(item) == <<item.key_min, item.key_max>>

\* The places, from 1, of the leaves of a tree that hold at a time.
HoldingAt(read, t) == {k \in DOMAIN read.leaves : Holds(TimeRange(read.leaves[k]), t)}

\* The trees are those of some leaves, as the build makes them, and a register
\* is one tree: it has one value at each time of its bounding box.
ASSUME DatabasesAssumption ==
  \A d \in Databases :
    /\ d.of \in {"register", "memory"} /\ d.keys \subseteq SUBSET Key
    /\ d.trees \in Seq(Range(d.trees)) /\ d.trees # <<>>
    /\ \A t \in Range(d.trees) :
         /\ t = TreeOf(t.order, t.leaves)
         /\ t.order \in Order /\ t.leaves \in Seq(Node) /\ t.leaves # <<>>
         /\ \A l \in Range(t.leaves) : l.time_min <= l.time_max /\ l.key_min <= l.key_max
    /\ d.of = "register" =>
         /\ Len(d.trees) = 1
         /\ \A time \in d.trees[1].bbox.time_min..d.trees[1].bbox.time_max :
              \E k \in DOMAIN d.trees[1].leaves : HoldingAt(d.trees[1], time) = {k}

\* IRange::min_distance
MinDistance(r, t) == CASE t < r[1] -> r[1] - t [] r[2] < t -> t - r[2] [] OTHER -> 0

\* match_range, and match_scalar of a register's value, of the ranges, scalars and
\* lists that implement DimMatcher.
Matches(keys, item) == \E k \in keys : Holds(KeyRange(item), k)

\* The times worth asking about: up to one after the last leaf.
LastTime(read) == Max({t.bbox.time_max : t \in Range(read.trees)})
Times(read) == {t \in Time : t <= LastTime(read) + 1}

Ranges(read) == {p \in Times(read) \X Times(read) : p[1] <= p[2]}

\* RegIntersects, and leaf_at for the snapshot of a register at the current time,
\* which is one of the trace.
RegisterQueries(read) ==
  [kind : {"query"}, range : Ranges(read), keys : {Key}]
    \cup [kind : {"value_at"}, range : {<<t, t>> : t \in 0..LastTime(read)}, keys : {Key}]

\* MemIntersects, as memory_reads and memory_writes ask for one time.
MemoryQueries(read) == [kind : {"query"}, range : Ranges(read), keys : read.keys]

\* prev_time_with, next_time_with, first_time_with and last_time_with.
RegisterSearches(read) ==
  [kind : {"prev", "next"}, time : Times(read), keys : read.keys]
    \cup [kind : {"first", "last"}, time : {LastTime(read)}, keys : read.keys]

\* prev_mem_write, next_mem_write, prev_mem_read and next_mem_read.
MemorySearches(read) == [kind : {"prev", "next"}, time : Times(read), keys : read.keys]

Requests(read) == IF read.of = "register" THEN RegisterQueries(read) \cup RegisterSearches(read)
                  ELSE MemoryQueries(read) \cup MemorySearches(read)

IsQuery == request.kind \in {"query", "value_at"}

Init ==
  /\ db \in Databases
  /\ request \in Requests(db)
  /\ status = "new" /\ zones = {} /\ zone = 1
  /\ level_iters = <<>> /\ leaf_iter = None /\ pos = 0 /\ found = <<>>
  /\ heap = {} /\ answer = None

-----------------------------------------------------------------------------
(* The trees, one after the other *)

\* The filters of a query, on nodes and on leaves.
FilterNode(item) ==
  /\ ~Disjoint(request.range, TimeRange(item))
  /\ Matches(request.keys, item)

\* The trees that are read: of memory, those whose bounding box has something.
Worth(i) ==
  \/ db.of = "register"
  \/ IsQuery /\ FilterNode(db.trees[i].bbox)
  \/ ~IsQuery /\ Matches(request.keys, db.trees[i].bbox)

\* MultiQueryIter::new, and the iterator of prev_mem_write and the like.
NewRequest ==
  /\ status = "new"
  /\ status' = "zones"
  /\ zones' = {i \in DOMAIN db.trees : Worth(i)}
  /\ UNCHANGED <<db, request, zone, queryVars, nearestVars>>

EndOfZones ==
  /\ status = "zones" /\ zones = {}
  /\ status' = "done"
  /\ UNCHANGED <<db, request, zones, zone, queryVars, nearestVars>>

-----------------------------------------------------------------------------
(* QueryIter *)

\* An iterator over part of a level.
Iter(start, end) == [start |-> start, end |-> end, next |-> start]

GroupSize == NodeSize(tree.order)
Shl(n) == n * GroupSize
Shr(n) == n \div GroupSize

\* QueryIter::new, of the zone on top of the stack, the last one.
NewQuery ==
  /\ status = "zones" /\ IsQuery /\ zones # {}
  /\ status' = "running"
  /\ zone' = Max(zones) /\ zones' = zones \ {Max(zones)}
  /\ LET next == db.trees[Max(zones)]
     IN  IF Depth(next) > 0
         THEN level_iters' = <<Iter(0, Len(NodeLevel(next, 0)))>> /\ UNCHANGED leaf_iter
         ELSE leaf_iter' = Iter(0, Len(next.leaves)) /\ UNCHANGED level_iters
  /\ UNCHANGED <<db, request, pos, found, nearestVars>>

\* A leaf is looked at, and returned when it matches; leaf_at takes the first.
NextLeaf ==
  /\ status = "running" /\ leaf_iter # None /\ leaf_iter.next < leaf_iter.end
  /\ leaf_iter' = [leaf_iter EXCEPT !.next = @ + 1]
  /\ IF FilterNode(tree.leaves[leaf_iter.next + 1])
     THEN /\ found' = Append(found, <<zone, leaf_iter.next>>)
          /\ status' = IF request.kind = "value_at" THEN "done" ELSE status
     ELSE UNCHANGED <<found, status>>
  /\ UNCHANGED <<db, request, zones, zone, level_iters, pos, nearestVars>>

\* A mutated Ascend that forgets to erase the index of the child.
AscendOnly == pos' = Shr(pos)

\* Back to the level above: its place without the index of the child.
Ascend == pos' = Shl(Shr(Shr(pos)))

EndOfLeaves ==
  /\ status = "running" /\ leaf_iter # None /\ leaf_iter.next >= leaf_iter.end
  /\ leaf_iter' = None
  /\ Ascend
  /\ UNCHANGED <<db, request, status, zones, zone, level_iters, found, nearestVars>>

\* The iterator over the children that start at `start` in a level, fewer in
\* the last group.
Children(start, level) == Iter(start, Min({start + GroupSize, Len(Items(tree, level))}))

\* A node is looked at, and its children opened when it may hold a match.
NextNode ==
  /\ status = "running" /\ leaf_iter = None /\ level_iters # <<>>
  /\ LET iter == Last(level_iters)
         node == Items(tree, Len(level_iters) - 1)[iter.next + 1]
         advanced == [level_iters EXCEPT ![Len(level_iters)].next = @ + 1]
     IN  /\ iter.next < iter.end
         /\ \/ /\ ~FilterNode(node)
               /\ level_iters' = advanced
               /\ UNCHANGED <<pos, leaf_iter>>
            \/ /\ FilterNode(node)
               /\ pos' = Shl(pos + (iter.next - iter.start))
               /\ IF Len(level_iters) < Depth(tree)
                  THEN level_iters' = Append(advanced, Children(pos', Len(level_iters)))
                       /\ UNCHANGED leaf_iter
                  ELSE level_iters' = advanced /\ leaf_iter' = Children(pos', Depth(tree))
  /\ UNCHANGED <<db, request, status, zones, zone, found, nearestVars>>

\* A mutated EndOfLevel that leaves the iterator in the stack.
EndOfLevelOpen ==
  /\ status = "running" /\ leaf_iter = None /\ level_iters # <<>>
  /\ Last(level_iters).next >= Last(level_iters).end
  /\ Ascend
  /\ UNCHANGED <<db, request, status, zones, zone, level_iters, leaf_iter, found, nearestVars>>

EndOfLevel ==
  /\ status = "running" /\ leaf_iter = None /\ level_iters # <<>>
  /\ Last(level_iters).next >= Last(level_iters).end
  /\ level_iters' = Front(level_iters)
  /\ Ascend
  /\ UNCHANGED <<db, request, status, zones, zone, leaf_iter, found, nearestVars>>

\* The zone gives nothing more, and is popped.
EndOfQuery ==
  /\ status = "running" /\ IsQuery
  /\ leaf_iter = None /\ level_iters = <<>>
  /\ status' = "zones"
  /\ UNCHANGED <<db, request, zones, zone, queryVars, nearestVars>>

-----------------------------------------------------------------------------
(* nearest_neighbor *)

\* The times to look in, in a set that is empty when there are none
\* (checked_sub, checked_add), and the time to be near to.
SearchRange ==
  CASE request.kind = "prev" -> {<<Min(Time), request.time - 1>>} \ {<<Min(Time), Min(Time) - 1>>}
    [] request.kind = "next" -> {<<request.time + 1, Max(Time)>>} \ {<<Max(Time) + 1, Max(Time)>>}
    [] OTHER -> {TimeRange(db.trees[1].bbox)}

Target ==
  CASE request.kind = "first" -> db.trees[1].bbox.time_min
    [] request.kind = "last" -> db.trees[1].bbox.time_max
    [] OTHER -> request.time

\* What to enter, and what to return.
NodeMatches(node) == /\ \E range \in SearchRange : ~Disjoint(range, TimeRange(node))
                     /\ Matches(request.keys, node)
LeafMatches(leaf) == /\ \E range \in SearchRange : Holds(range, leaf.time_min)
                     /\ Matches(request.keys, leaf)

NodeKey(node) == MinDistance(TimeRange(node), Target)
LeafKey(leaf) == MinDistance(<<leaf.time_min, leaf.time_min>>, Target)

\* A mutated Visit that starts one place too far.
VisitNext(read, level, start) ==
  LET items == Items(read, level)
      places == (start + 1)..(Min({start + NodeSize(read.order), Len(items)}) - 1)
  IN  IF level < Depth(read)
      THEN {[level |-> level, idx |-> i, key |-> NodeKey(items[i + 1])] :
              i \in {j \in places : NodeMatches(items[j + 1])}}
      ELSE {[level |-> level, idx |-> i, key |-> LeafKey(items[i + 1])] :
              i \in {j \in places : LeafMatches(items[j + 1])}}

\* visit_nodes and visit_leaves: what goes into the heap of the group that
\* starts at `start` in a level.
Visit(read, level, start) ==
  LET items == Items(read, level)
      places == start..(Min({start + NodeSize(read.order), Len(items)}) - 1)
  IN  IF level < Depth(read)
      THEN {[level |-> level, idx |-> i, key |-> NodeKey(items[i + 1])] :
              i \in {j \in places : NodeMatches(items[j + 1])}}
      ELSE {[level |-> level, idx |-> i, key |-> LeafKey(items[i + 1])] :
              i \in {j \in places : LeafMatches(items[j + 1])}}

NewSearch ==
  /\ status = "zones" /\ ~IsQuery /\ zones # {}
  /\ zone' = Min(zones) /\ zones' = zones \ {Min(zones)}
  /\ IF SearchRange = {} THEN UNCHANGED <<status, heap>>
     ELSE status' = "running" /\ heap' = Visit(db.trees[Min(zones)], 0, 0)
  /\ UNCHANGED <<db, request, queryVars, answer>>

\* A mutated First that takes any leaf before a node, however near.
FirstDeep(item) == \A other \in heap : item.level >= other.level

\* Item::ord_key: the least key, then the deepest level.  Items that compare
\* equal come out of the heap in any order.
First(item) == \A other \in heap : \/ item.key < other.key
                                   \/ item.key = other.key /\ item.level >= other.level

\* max() of the zones that came before, min() of those that come after.
Best(times) == IF request.kind \in {"prev", "last"} THEN Max(times) ELSE Min(times)

Pop ==
  /\ status = "running" /\ ~IsQuery
  /\ \E item \in heap :
       /\ First(item)
       /\ \/ /\ item.level < Depth(tree)
             /\ heap' = (heap \ {item}) \cup Visit(tree, item.level + 1, Shl(item.idx))
             /\ UNCHANGED <<status, answer>>
          \/ /\ item.level = Depth(tree)
             /\ answer' = Best(({answer} \ {None}) \cup {tree.leaves[item.idx + 1].time_min})
             /\ status' = "zones"
             /\ heap' = {}
  /\ UNCHANGED <<db, request, zones, zone, queryVars>>

EndOfSearch ==
  /\ status = "running" /\ ~IsQuery /\ heap = {}
  /\ status' = "zones"
  /\ UNCHANGED <<db, request, zones, zone, queryVars, nearestVars>>

Next == \/ NewRequest \/ EndOfZones
        \/ NewQuery \/ NextLeaf \/ EndOfLeaves \/ NextNode \/ EndOfLevel \/ EndOfQuery
        \/ NewSearch \/ Pop \/ EndOfSearch

Spec == Init /\ [][Next]_vars /\ WF_vars(Next)

-----------------------------------------------------------------------------
(* The snapshot of a register (crates/python-bindings/src/registers.rs) *)

FoundLeaves == {db.trees[f[1]].leaves[f[2] + 1] : f \in Range(found)}

\* compute_one_register_snapshot: the times at which the user may look for the
\* previous and the next value.
PrevTime ==
  LET before == {leaf \in FoundLeaves : leaf.time_min > 0}
  IN  IF before = {} THEN None ELSE (CHOOSE leaf \in before : TRUE).time_min - 1

\* A mutated NextTime that takes the end of the register's leaves for one more change.
NextTimeAtEnd ==
  IF found = <<>> THEN tree.bbox.time_min
  ELSE LET after == {leaf \in FoundLeaves : leaf.time_max <= tree.bbox.time_max}
       IN  IF after = {} THEN None ELSE (CHOOSE leaf \in after : TRUE).time_max + 1

NextTime ==
  IF found = <<>> THEN tree.bbox.time_min
  ELSE LET after == {leaf \in FoundLeaves : leaf.time_max < tree.bbox.time_max}
       IN  IF after = {} THEN None ELSE (CHOOSE leaf \in after : TRUE).time_max + 1

-----------------------------------------------------------------------------
(* Properties *)

Place == 0..Max({Len(t.leaves) : t \in Range(db.trees)})
IterType == [start : Place, end : Place, next : Place]

Open == level_iters \o (IF leaf_iter = None THEN <<>> ELSE <<leaf_iter>>)

\* The slices a query takes are slices of their level (a slice with its start
\* after its end panics), and the one that is open is the children of the
\* node the level above has just left.
IteratorsNest ==
  /\ Range(Open) \subseteq IterType
  /\ \A i \in 1..Len(Open) :
       /\ Open[i].start <= Open[i].next /\ Open[i].next <= Open[i].end
       /\ i = 1 => Open[i].start = 0
       /\ i > 1 => Open[i].start = Shl(Open[i - 1].next - 1)

\* The state is well formed.  A reader finds in the file the bounding box of
\* exactly the leaves under each node: the scout pass, which places the levels,
\* and the last pass, which writes the nodes, agree.  The iterators of a query
\* nest, and the one number it goes by is the start of the slice that is open, and
\* 0 when none is: assert_eq!(self.pos, 0) never fails (query.rs:94).
TypeOK ==
  /\ \A t \in Range(db.trees) : NodesBoundTheirLeaves(t)
  /\ status \in {"new", "zones", "running", "done"} /\ zone \in DOMAIN db.trees
  /\ Len(level_iters) <= Depth(tree)
  /\ answer \in Time \cup {None}
  /\ heap \subseteq [level : 0..Depth(tree), idx : Place, key : Nat]
  /\ IteratorsNest
  /\ pos = IF Open = <<>> THEN 0 ELSE Last(Open).start

\* The leaves that match a query, by tree and place, and their order.
Wanted == {f \in UNION {{i} \X (0..(Len(db.trees[i].leaves) - 1)) : i \in DOMAIN db.trees} :
             FilterNode(db.trees[f[1]].leaves[f[2] + 1])}
Before(f, g) == f[1] > g[1] \/ (f[1] = g[1] /\ f[2] < g[2])

\* A query returns every leaf that matches, of whatever zone, once, zone after
\* zone and in the order of the leaves, and nothing else; leaf_at returns the
\* first of them.
QueryIsExact ==
  IsQuery =>
    /\ \A i, j \in DOMAIN found : i < j => Before(found[i], found[j])
    /\ Range(found) \subseteq Wanted
    /\ \A f \in Wanted, g \in Range(found) : Before(f, g) => f \in Range(found)
    /\ status = "done" => IF request.kind = "query" THEN Range(found) = Wanted
                          ELSE Len(found) = IF Wanted = {} THEN 0 ELSE 1

Matching(read) == {i \in 0..(Len(read.leaves) - 1) : LeafMatches(read.leaves[i + 1])}

\* While a search runs, every leaf that matches is under exactly one item of
\* the heap, whose key is no more than the leaf's own distance.
HeapCoversMatches ==
  (status = "running" /\ ~IsQuery) =>
    \A k \in Matching(tree) : \E item \in heap :
      /\ k \in LeavesUnder(tree, item.level, item.idx)
      /\ item.key <= LeafKey(tree.leaves[k + 1])
      /\ \A other \in heap \ {item} : k \notin LeavesUnder(tree, other.level, other.idx)

\* prev is the last time before the one asked about at which the register was
\* given, or the memory of any zone was accessed at, a key that is wanted; next
\* is the first time after it, first and last those of all, and nothing is
\* returned only when there is none.
NearestIsNearest ==
  (status = "done" /\ ~IsQuery) =>
    LET all == UNION {{t.leaves[k].time_min : k \in DOMAIN t.leaves} : t \in Range(db.trees)}
        wanted == {u \in all :
                     /\ \E t \in Range(db.trees) : \E k \in DOMAIN t.leaves :
                          t.leaves[k].time_min = u /\ Matches(request.keys, t.leaves[k])
                     /\ request.kind = "prev" => u < request.time
                     /\ request.kind = "next" => u > request.time}
    IN  CASE wanted = {} -> answer = None
          [] wanted # {} /\ request.kind \in {"prev", "last"} -> answer = Max(wanted)
          [] wanted # {} /\ request.kind \in {"next", "first"} -> answer = Min(wanted)

\* The user who steps to the previous or to the next change of a register
\* gets to the nearest time at which another leaf holds, or none does, and is
\* offered no step only when there is no such time.
SnapshotFindsTheChanges ==
  (status = "done" /\ request.kind = "value_at") =>
    LET now == request.range[1]
        later == {t \in (now + 1)..tree.bbox.time_max : HoldingAt(tree, t) # HoldingAt(tree, now)}
        earlier == {t \in 0..(now - 1) : HoldingAt(tree, t) # HoldingAt(tree, now)}
    IN  /\ NextTime = IF later = {} THEN None ELSE Min(later)
        /\ PrevTime = IF earlier = {} THEN None ELSE Max(earlier)

\* Every read ends.
ReadsEnd == <>(status = "done")
=============================================================================

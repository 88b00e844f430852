------------------------- MODULE RTreeReaderProofs --------------------------
(***************************************************************************)
(* What is read of the trees is what is asked for, of all databases whose  *)
(* trees were built: a query gives all that matches, and a search what is  *)
(* nearest.  Readers are proved about Readable trees alone.                *)
(***************************************************************************)
EXTENDS RTreeReader, RTreeProofs

-----------------------------------------------------------------------------
(* What is asked, of what *)

\* What the first state says, and no step changes.
Asked == db \in Databases /\ request \in Requests(db)

\* The trees that are read can be read, and the ranges of their leaves are not empty.
LEMMA TreesAre ==
  ASSUME NEW d \in Databases
  PROVE  /\ Len(d.trees) \in Nat /\ Len(d.trees) > 0 /\ DOMAIN d.trees = 1..Len(d.trees)
         /\ d.of \in {"register", "memory"} /\ d.keys \subseteq SUBSET Key
         /\ d.of = "register" => Len(d.trees) = 1
         /\ \A i \in DOMAIN d.trees :
              LET t == d.trees[i]
              IN  /\ Readable(t) /\ NodesBoundTheirLeaves(t)
                  /\ \A k \in 0..(Len(t.leaves) - 1) :
                       /\ t.leaves[k + 1].time_min <= t.leaves[k + 1].time_max
                       /\ t.leaves[k + 1].key_min <= t.leaves[k + 1].key_max
<1>1. /\ d.of \in {"register", "memory"} /\ d.keys \subseteq SUBSET Key
      /\ d.trees \in Seq(Range(d.trees)) /\ d.trees # <<>>
      /\ d.of = "register" => Len(d.trees) = 1
      /\ \A t \in Range(d.trees) :
           /\ t = TreeOf(t.order, t.leaves)
           /\ t.order \in Order /\ t.leaves \in Seq(Node) /\ t.leaves # <<>>
           /\ \A l \in Range(t.leaves) : l.time_min <= l.time_max /\ l.key_min <= l.key_max
  BY DatabasesAssumption
<1>2. Len(d.trees) \in Nat /\ Len(d.trees) > 0 /\ DOMAIN d.trees = 1..Len(d.trees)
  <2> DEFINE S == Range(d.trees)
             s == d.trees
  <2>1. s \in Seq(S) /\ s # <<>>
    BY <1>1
  <2> HIDE DEF S, s
  <2>2. Len(s) \in Nat /\ Len(s) > 0 /\ DOMAIN s = 1..Len(s)
    BY <2>1
  <2>. QED  BY <2>2 DEF s
<1>3. ASSUME NEW i \in DOMAIN d.trees
      PROVE  LET t == d.trees[i]
             IN  /\ Readable(t) /\ NodesBoundTheirLeaves(t)
                 /\ \A k \in 0..(Len(t.leaves) - 1) :
                      /\ t.leaves[k + 1].time_min <= t.leaves[k + 1].time_max
                      /\ t.leaves[k + 1].key_min <= t.leaves[k + 1].key_max
  <2> DEFINE t == d.trees[i]
  <2>1. t \in Range(d.trees)
    BY DEF Range
  <2>2. /\ t = TreeOf(t.order, t.leaves)
        /\ t.order \in Order /\ t.leaves \in Seq(Node) /\ t.leaves # <<>>
        /\ \A l \in Range(t.leaves) : l.time_min <= l.time_max /\ l.key_min <= l.key_max
    BY <1>1, <2>1
  <2> HIDE DEF t
  <2>3. Readable(t)
    BY <2>2, BuiltIsReadable
  <2>4. NodesBoundTheirLeaves(TreeOf(t.order, t.leaves))
    BY <2>2, TreesAreSound
  <2>5. NodesBoundTheirLeaves(t)
    BY <2>2, <2>4, Zenon
  <2>6. \A k \in 0..(Len(t.leaves) - 1) : t.leaves[k + 1] \in Range(t.leaves)
    <3>1. \A k \in 0..(Len(t.leaves) - 1) : k + 1 \in DOMAIN t.leaves
      BY <2>2
    <3>. QED  BY <3>1 DEF Range
  <2>. QED  BY <2>2, <2>3, <2>5, <2>6 DEF t
<1>. QED  BY <1>1, <1>2, <1>3

\* The last time of the leaves is a time.
LEMMA LastTimeIs ==
  ASSUME NEW d \in Databases
  PROVE  /\ LastTime(d) \in Time
         /\ d.of = "register" => LastTime(d) = d.trees[1].bbox.time_max
<1> DEFINE T == {t.bbox.time_max : t \in Range(d.trees)}
<1>1. \A i \in DOMAIN d.trees : d.trees[i].bbox \in Node /\ d.trees[i].bbox.time_max \in Time
  <2> TAKE i \in DOMAIN d.trees
  <2>1. Readable(d.trees[i])
    BY TreesAre
  <2>2. d.trees[i].bbox \in Node
    BY <2>1 DEF Readable, IsBbox
  <2>. QED  BY <2>2, NodeFields
<1>2. \A x : x \in T <=> \E i \in DOMAIN d.trees : x = d.trees[i].bbox.time_max
  BY DEF Range
<1>3. DOMAIN d.trees = 1..Len(d.trees) /\ Len(d.trees) \in Nat /\ Len(d.trees) > 0
      /\ (d.of = "register" => Len(d.trees) = 1)
  BY TreesAre
<1>4. LastTime(d) = Max(T)
  BY DEF LastTime
<1> HIDE DEF T
<1>5. T \subseteq Time /\ T # {}
  <2>1. 1 \in DOMAIN d.trees
    BY <1>3
  <2>. QED  BY <1>1, <1>2, <2>1
<1>6. Max(T) \in T
  BY <1>5, MaxIs, RTreeAssumption
<1>7. d.of = "register" => \A x \in T : x = d.trees[1].bbox.time_max
  BY <1>2, <1>3
<1>. QED  BY <1>4, <1>5, <1>6, <1>7

\* What a query asks.
LEMMA QueryAsks ==
  ASSUME Asked, IsQuery
  PROVE  /\ request.kind \in {"query", "value_at"} /\ request.keys \subseteq Key
         /\ request.range[1] \in Time /\ request.range[2] \in Time
         /\ request.kind = "value_at" =>
              /\ db.of = "register" /\ request.keys = Key
              /\ request.range[2] = request.range[1]
              /\ request.range[1] <= LastTime(db)
<1>1. db \in Databases /\ request \in Requests(db)
  BY DEF Asked
<1>2. LastTime(db) \in Time /\ LastTime(db) \in Nat
  BY <1>1, LastTimeIs, RTreeAssumption
<1>3. db.keys \subseteq SUBSET Key
  BY <1>1, TreesAre
<1>4. Ranges(db) \subseteq Time \X Time
  BY DEF Ranges, Times
<1>5. \A t \in 0..LastTime(db) : t \in Time /\ t <= LastTime(db)
  BY <1>2, RTreeAssumption
<1>6. CASE db.of = "register"
  <2>1. request \in RegisterQueries(db) \cup RegisterSearches(db)
    BY <1>1, <1>6 DEF Requests
  <2>2. request \notin RegisterSearches(db)
    BY DEF RegisterSearches, IsQuery
  <2>3. \/ request \in [kind : {"query"}, range : Ranges(db), keys : {Key}]
        \/ request \in [kind : {"value_at"}, range : {<<t, t>> : t \in 0..LastTime(db)}, keys : {Key}]
    BY <2>1, <2>2 DEF RegisterQueries
  <2>4. CASE request \in [kind : {"query"}, range : Ranges(db), keys : {Key}]
    BY <1>4, <2>4
  <2>5. CASE request \in [kind : {"value_at"}, range : {<<t, t>> : t \in 0..LastTime(db)}, keys : {Key}]
    <3>1. request.kind = "value_at" /\ request.keys = Key
      BY <2>5
    <3>2. PICK t \in 0..LastTime(db) : request.range = <<t, t>>
      BY <2>5
    <3>. QED  BY <1>5, <1>6, <3>1, <3>2
  <2>. QED  BY <2>3, <2>4, <2>5
<1>7. CASE db.of # "register"
  <2>1. request \in MemoryQueries(db) \cup MemorySearches(db)
    BY <1>1, <1>7 DEF Requests
  <2>2. request \notin MemorySearches(db)
    BY DEF MemorySearches, IsQuery
  <2>3. request \in [kind : {"query"}, range : Ranges(db), keys : db.keys]
    BY <2>1, <2>2 DEF MemoryQueries
  <2>. QED  BY <1>3, <1>4, <2>3
<1>. QED  BY <1>6, <1>7

\* What a search asks.
LEMMA SearchAsks ==
  ASSUME Asked, ~ IsQuery
  PROVE  /\ request.kind \in {"prev", "next", "first", "last"} /\ request.keys \subseteq Key
         /\ request.kind \in {"prev", "next"} => request.time \in Time
         /\ request.kind \in {"first", "last"} => db.of = "register"
<1>1. db \in Databases /\ request \in Requests(db)
  BY DEF Asked
<1>2. db.keys \subseteq SUBSET Key
  BY <1>1, TreesAre
<1>3. Times(db) \subseteq Time
  BY DEF Times
<1>4. CASE db.of = "register"
  <2>1. request \in RegisterQueries(db) \cup RegisterSearches(db)
    BY <1>1, <1>4 DEF Requests
  <2>2. request \notin RegisterQueries(db)
    BY DEF RegisterQueries, IsQuery
  <2>3. \/ request \in [kind : {"prev", "next"}, time : Times(db), keys : db.keys]
        \/ request \in [kind : {"first", "last"}, time : {LastTime(db)}, keys : db.keys]
    BY <2>1, <2>2 DEF RegisterSearches
  <2>. QED  BY <1>2, <1>3, <1>4, <2>3
<1>5. CASE db.of # "register"
  <2>1. request \in MemoryQueries(db) \cup MemorySearches(db)
    BY <1>1, <1>5 DEF Requests
  <2>2. request \notin MemoryQueries(db)
    BY DEF MemoryQueries, IsQuery
  <2>3. request \in [kind : {"prev", "next"}, time : Times(db), keys : db.keys]
    BY <2>1, <2>2 DEF MemorySearches
  <2>. QED  BY <1>2, <1>3, <2>3
<1>. QED  BY <1>4, <1>5

-----------------------------------------------------------------------------
(* Filters and distances *)

\* A rectangle around one with a key that is wanted has it too.
LEMMA MatchesAround ==
  ASSUME NEW keys \in SUBSET Key, NEW a \in Node, NEW b \in Node, Around(a, b), Matches(keys, b)
  PROVE  Matches(keys, a)
<1>1. PICK k \in keys : b.key_min <= k /\ k <= b.key_max
  BY DEF Matches, Holds, KeyRange
<1>2. k \in Nat
  BY RTreeAssumption
<1>3. a.key_min <= k /\ k <= a.key_max
  BY <1>1, <1>2, NodeFields DEF Around
<1>. QED  BY <1>3 DEF Matches, Holds, KeyRange

\* A query enters what is around a leaf that it returns.
LEMMA FilterAround ==
  ASSUME Asked, IsQuery, NEW a \in Node, NEW b \in Node, Around(a, b), FilterNode(b)
  PROVE  FilterNode(a)
<1>1. request.keys \in SUBSET Key /\ request.range[1] \in Nat /\ request.range[2] \in Nat
  BY QueryAsks, RTreeAssumption
<1>2. Matches(request.keys, a)
  BY <1>1, MatchesAround DEF FilterNode
<1>3. ~ (request.range[2] < b.time_min \/ request.range[1] > b.time_max)
  BY DEF FilterNode, Disjoint, TimeRange
<1>4. ~ (request.range[2] < a.time_min \/ request.range[1] > a.time_max)
  BY <1>1, <1>3, NodeFields DEF Around
<1>. QED  BY <1>2, <1>4 DEF FilterNode, Disjoint, TimeRange

\* The times to look in, and the time to be near to, are numbers.
LEMMA SearchRangeIs ==
  ASSUME Asked, ~ IsQuery
  PROVE  /\ \A r \in SearchRange : r[1] \in Int /\ r[2] \in Int
         /\ Target \in Nat
<1>1. db \in Databases
  BY DEF Asked
<1>2. Min(Time) \in Nat /\ Max(Time) \in Nat
  <2>1. Time \subseteq Nat /\ Time # {}
    BY RTreeAssumption
  <2>. QED  BY <2>1, MinIs, RTreeAssumption
<1>3. db.trees[1].bbox \in Node
  <2>1. 1 \in DOMAIN db.trees
    BY <1>1, TreesAre
  <2>. QED  BY <1>1, <2>1, TreesAre DEF Readable, IsBbox
<1>4. TimeRange(db.trees[1].bbox)[1] \in Nat /\ TimeRange(db.trees[1].bbox)[2] \in Nat
  BY <1>3, NodeFields DEF TimeRange
<1>5. db.trees[1].bbox.time_min \in Nat /\ db.trees[1].bbox.time_max \in Nat
  BY <1>3, NodeFields
<1>6. request.kind \in {"prev", "next", "first", "last"}
  BY SearchAsks
<1>7. CASE request.kind \in {"prev", "next"}
  <2>1. request.time \in Nat
    BY <1>7, SearchAsks, RTreeAssumption
  <2>. QED  BY <1>2, <1>7, <2>1 DEF SearchRange, Target
<1>8. CASE request.kind \in {"first", "last"}
  BY <1>4, <1>5, <1>8 DEF SearchRange, Target
<1>. QED  BY <1>6, <1>7, <1>8

\* A search enters what is around a leaf that it returns.
LEMMA NodeMatchesAround ==
  ASSUME Asked, ~ IsQuery, NEW a \in Node, NEW b \in Node, Around(a, b), b.time_min <= b.time_max,
         LeafMatches(b)
  PROVE  NodeMatches(a)
<1>1. request.keys \in SUBSET Key
  BY SearchAsks
<1>2. Matches(request.keys, a)
  BY <1>1, MatchesAround DEF LeafMatches
<1>3. PICK r \in SearchRange : r[1] <= b.time_min /\ b.time_min <= r[2]
  BY DEF LeafMatches, Holds
<1>4. r[1] \in Int /\ r[2] \in Int
  BY SearchRangeIs
<1>5. ~ (r[2] < a.time_min \/ r[1] > a.time_max)
  BY <1>3, <1>4, NodeFields DEF Around
<1>6. \E range \in SearchRange : ~ Disjoint(range, TimeRange(a))
  BY <1>3, <1>5 DEF Disjoint, TimeRange
<1>. QED  BY <1>2, <1>6 DEF NodeMatches

\* No leaf is nearer than what is around it.
LEMMA KeyAround ==
  ASSUME Asked, ~ IsQuery, NEW a \in Node, NEW b \in Node, Around(a, b), b.time_min <= b.time_max
  PROVE  NodeKey(a) \in Nat /\ LeafKey(b) \in Nat /\ NodeKey(a) <= LeafKey(b)
<1>1. Target \in Nat
  BY SearchRangeIs
<1> DEFINE t == Target
           p == a.time_min
           q == a.time_max
           u == b.time_min
           v == b.time_max
<1>2. p \in Nat /\ q \in Nat /\ u \in Nat /\ v \in Nat
  BY NodeFields
<1>3. p <= u /\ u <= v /\ v <= q
  BY DEF Around
<1>4. NodeKey(a) = CASE t < p -> p - t [] q < t -> t - q [] OTHER -> 0
  BY DEF NodeKey, MinDistance, TimeRange
<1>5. LeafKey(b) = CASE t < u -> u - t [] u < t -> t - u [] OTHER -> 0
  BY DEF LeafKey, MinDistance
<1>6. t \in Nat
  BY <1>1
<1> HIDE DEF t, p, q, u, v
<1>. QED  BY <1>2, <1>3, <1>4, <1>5, <1>6

\* The leaf that is nearest, of those that match, is the last one that matches
\* when the search is for a time before, and the first one otherwise.
LEMMA NearestIs ==
  ASSUME Asked, ~ IsQuery, NEW i \in DOMAIN db.trees,
         NEW j \in 0..(Len(db.trees[i].leaves) - 1), NEW k \in 0..(Len(db.trees[i].leaves) - 1),
         LeafMatches(db.trees[i].leaves[j + 1]), LeafMatches(db.trees[i].leaves[k + 1]),
         LeafKey(db.trees[i].leaves[j + 1]) <= LeafKey(db.trees[i].leaves[k + 1])
  PROVE  IF request.kind \in {"prev", "last"}
         THEN db.trees[i].leaves[k + 1].time_min <= db.trees[i].leaves[j + 1].time_min
         ELSE db.trees[i].leaves[j + 1].time_min <= db.trees[i].leaves[k + 1].time_min
<1> DEFINE a == db.trees[i].leaves[j + 1]
           b == db.trees[i].leaves[k + 1]
           t == Target
           u == a.time_min
           v == b.time_min
           box == db.trees[i].bbox
<1>1. db \in Databases
  BY DEF Asked
<1>2. Readable(db.trees[i])
  BY <1>1, TreesAre
<1>3. a \in Node /\ b \in Node /\ box \in Node /\ Around(box, a) /\ Around(box, b)
  BY <1>2, NodesHoldLeaves
<1>4. u <= a.time_max /\ v <= b.time_max
  BY <1>1, TreesAre
<1>5. u \in Nat /\ v \in Nat /\ a.time_max \in Nat /\ b.time_max \in Nat /\ box.time_min \in Nat /\ box.time_max \in Nat
  BY <1>3, NodeFields
<1>6. box.time_min <= u /\ u <= box.time_max /\ box.time_min <= v /\ v <= box.time_max
  <2>1. /\ box.time_min <= u /\ a.time_max <= box.time_max
        /\ box.time_min <= v /\ b.time_max <= box.time_max
    <3> HIDE DEF a, b, box
    <3>. QED  BY <1>3 DEF Around
  <2> DEFINE ue == a.time_max
             ve == b.time_max
             be == box.time_max
  <2>2. u <= be /\ v <= be
    <3>1. u <= ue /\ v <= ve /\ ue <= be /\ ve <= be
      BY <1>4, <2>1
    <3>2. u \in Nat /\ v \in Nat /\ ue \in Nat /\ ve \in Nat /\ be \in Nat
      BY <1>5
    <3> HIDE DEF u, v, ue, ve, be
    <3>. QED  BY <3>1, <3>2
  <2>. QED  BY <2>1, <2>2
<1>7. /\ LeafKey(a) = CASE t < u -> u - t [] u < t -> t - u [] OTHER -> 0
      /\ LeafKey(b) = CASE t < v -> v - t [] v < t -> t - v [] OTHER -> 0
  BY DEF LeafKey, MinDistance
<1>8. t \in Nat
  BY SearchRangeIs
<1>9. LeafKey(a) <= LeafKey(b) /\ LeafMatches(a) /\ LeafMatches(b)
  OBVIOUS
<1>10. request.kind \in {"prev", "next", "first", "last"}
  BY SearchAsks
<1> HIDE DEF a, b
<1>11. /\ \E r \in SearchRange : r[1] <= u /\ u <= r[2]
       /\ \E r \in SearchRange : r[1] <= v /\ v <= r[2]
  BY <1>9 DEF LeafMatches, Holds
<1>12. IF request.kind \in {"prev", "last"} THEN u <= t /\ v <= t ELSE t <= u /\ t <= v
  <2>1. CASE request.kind = "prev"
    <3>1. request.time \in Nat /\ t = request.time
      BY <2>1, SearchAsks, RTreeAssumption DEF Target
    <3>2. \A r \in SearchRange : r[2] = request.time - 1
      BY <2>1 DEF SearchRange
    <3> DEFINE e == request.time - 1
    <3> HIDE DEF t, u, v, e
    <3>3. u <= e /\ v <= e
      BY <1>11, <3>2, Zenon DEF e
    <3>4. e \in Int /\ e <= t /\ u \in Int /\ v \in Int /\ t \in Int
      BY <1>5, <3>1 DEF e
    <3>5. u <= t /\ v <= t
      BY <3>3, <3>4
    <3>. QED  BY <2>1, <3>5
  <2>2. CASE request.kind = "next"
    <3>1. request.time \in Nat /\ t = request.time
      BY <2>2, SearchAsks, RTreeAssumption DEF Target
    <3>2. \A r \in SearchRange : r[1] = request.time + 1
      BY <2>2 DEF SearchRange
    <3> DEFINE e == request.time + 1
    <3> HIDE DEF t, u, v, e
    <3>3. e <= u /\ e <= v
      BY <1>11, <3>2, Zenon DEF e
    <3>4. e \in Int /\ t <= e /\ u \in Int /\ v \in Int /\ t \in Int
      BY <1>5, <3>1 DEF e
    <3>5. t <= u /\ t <= v
      BY <3>3, <3>4
    <3>6. request.kind \notin {"prev", "last"}
      BY <2>2
    <3>. QED  BY <3>5, <3>6
  <2>3. CASE request.kind \in {"first", "last"}
    <3>1. i = 1
      <4>1. db.of = "register"
        BY <2>3, SearchAsks
      <4>. QED  BY <1>1, <4>1, TreesAre
    <3>2. t = IF request.kind = "first" THEN box.time_min ELSE box.time_max
      BY <2>3, <3>1 DEF Target
    <3> HIDE DEF t, u, v, box
    <3>. QED  BY <1>6, <2>3, <3>2
  <2>. QED  BY <1>10, <2>1, <2>2, <2>3
<1> HIDE DEF t, u, v, box
<1>13. IF request.kind \in {"prev", "last"} THEN v <= u ELSE u <= v
  <2>1. CASE request.kind \in {"prev", "last"}
    <3>1. u <= t /\ v <= t
      BY <1>12, <2>1
    <3>2. LeafKey(a) = t - u /\ LeafKey(b) = t - v
      BY <1>5, <1>7, <1>8, <3>1
    <3>3. v <= u
      BY <1>5, <1>8, <1>9, <3>2
    <3>. QED  BY <2>1, <3>3
  <2>2. CASE request.kind \notin {"prev", "last"}
    <3>1. t <= u /\ t <= v
      BY <1>12, <2>2
    <3>2. LeafKey(a) = u - t /\ LeafKey(b) = v - t
      BY <1>5, <1>7, <1>8, <3>1
    <3>3. u <= v
      BY <1>5, <1>8, <1>9, <3>2
    <3>. QED  BY <2>2, <3>3
  <2>. QED  BY <2>1, <2>2
<1>. QED  BY <1>13 DEF a, b, u, v

-----------------------------------------------------------------------------
(* The heap of a search *)

\* The lesser of two numbers.
LEMMA MinOfTwo ==
  ASSUME NEW a \in Nat, NEW b \in Nat
  PROVE  Min({a, b}) \in Nat /\ Min({a, b}) = IF a <= b THEN a ELSE b
<1>1. {a, b} \subseteq Nat /\ {a, b} # {}
  OBVIOUS
<1>2. Min({a, b}) \in {a, b} /\ \A y \in {a, b} : Min({a, b}) <= y
  BY <1>1, MinIs
<1> DEFINE m == Min({a, b})
<1> HIDE DEF m
<1>3. (m = a \/ m = b) /\ m <= a /\ m <= b
  BY <1>2 DEF m
<1>4. m \in Nat /\ m = IF a <= b THEN a ELSE b
  BY <1>3
<1>. QED  BY <1>4 DEF m

\* An item of the heap is a node, or a leaf that matches, with its distance.
HeapItem(t, item) ==
  /\ item.level \in 0..Depth(t) /\ item.idx \in 0..(Len(Items(t, item.level)) - 1)
  /\ item = [level |-> item.level, idx |-> item.idx, key |-> item.key]
  /\ item.level < Depth(t) => item.key = NodeKey(Items(t, item.level)[item.idx + 1])
  /\ item.level = Depth(t) => /\ item.key = LeafKey(Items(t, item.level)[item.idx + 1])
                              /\ LeafMatches(Items(t, item.level)[item.idx + 1])

\* A leaf is under an item.
IsUnder(t, item, k) == Up(t, item.level, k) = item.idx

\* The heap of a search: no leaf is under two of its items, and those that match
\* are under one.
HeapInv(t, items) ==
  /\ \A item \in items : HeapItem(t, item)
  /\ \A k \in Matching(t) : \E item \in items : IsUnder(t, item, k)
  /\ \A a, b \in items : a # b => \A k \in 0..(Len(t.leaves) - 1) : ~ (IsUnder(t, a, k) /\ IsUnder(t, b, k))

\* What goes into the heap of a group.
LEMMA VisitIs ==
  ASSUME Asked, ~ IsQuery, NEW z \in DOMAIN db.trees,
         NEW level \in 0..Depth(db.trees[z]), NEW start \in Nat
  PROVE  LET t == db.trees[z]
             w == NodeSize(t.order)
             new == Visit(t, level, start)
         IN  /\ \A item \in new : /\ HeapItem(t, item) /\ item.level = level
                                  /\ start <= item.idx /\ item.idx < start + w
             /\ \A k \in Matching(t) :
                  start <= Up(t, level, k) /\ Up(t, level, k) < start + w =>
                    \E item \in new : IsUnder(t, item, k)
             /\ \A a, b \in new : a # b => a.idx # b.idx
<1> DEFINE t == db.trees[z]
           w == NodeSize(t.order)
           new == Visit(t, level, start)
           items == Items(t, level)
           places == start..(Min({start + w, Len(items)}) - 1)
           Node1(i) == [level |-> level, idx |-> i, key |-> NodeKey(items[i + 1])]
           Leaf1(i) == [level |-> level, idx |-> i, key |-> LeafKey(items[i + 1])]
<1>1. db \in Databases /\ Readable(t)
  BY TreesAre DEF Asked
<1>2. w \in Nat /\ w >= 2 /\ Depth(t) \in Nat /\ level \in Nat /\ level <= Depth(t)
  BY <1>1, NodeSizeIs DEF Readable
<1>3. items \in Seq(Node)
  BY <1>1 DEF Readable
<1>4. Len(items) \in Nat
  BY <1>3
<1>5. \A k \in 0..(Len(t.leaves) - 1) : Up(t, level, k) \in 0..(Len(items) - 1)
  BY <1>1 DEF Readable
<1>6. new = IF level < Depth(t) THEN {Node1(i) : i \in {j \in places : NodeMatches(items[j + 1])}}
            ELSE {Leaf1(i) : i \in {j \in places : LeafMatches(items[j + 1])}}
  BY DEF Visit
<1>7. \A k \in Matching(t) : k \in 0..(Len(t.leaves) - 1) /\ LeafMatches(t.leaves[k + 1])
  BY DEF Matching
<1>8. \A k \in 0..(Len(t.leaves) - 1) :
        /\ t.leaves[k + 1] \in Node /\ t.leaves[k + 1].time_min <= t.leaves[k + 1].time_max
        /\ items[Up(t, level, k) + 1] \in Node /\ Around(items[Up(t, level, k) + 1], t.leaves[k + 1])
  BY <1>1, TreesAre, NodesHoldLeaves
<1>9. level = Depth(t) => items = t.leaves /\ \A k \in 0..(Len(t.leaves) - 1) : Up(t, level, k) = k
  BY <1>1 DEF Readable
<1> HIDE DEF t, w, items, new
<1>10. \A i \in Nat : i \in places <=> start <= i /\ i < start + w /\ i < Len(items)
  <2> DEFINE m == Min({start + w, Len(items)})
  <2>1. start + w \in Nat
    BY <1>2
  <2>2. m \in Nat /\ m = IF start + w <= Len(items) THEN start + w ELSE Len(items)
    BY <1>4, <2>1, MinOfTwo
  <2> HIDE DEF m
  <2>3. \A i \in Nat : i \in start..(m - 1) <=> start <= i /\ i < start + w /\ i < Len(items)
    BY <1>2, <1>4, <2>2
  <2>. QED  BY <2>3 DEF m
<1>11. \A i \in places : i \in Nat
  OBVIOUS
<1> HIDE DEF places
<1>12. \A i : /\ Node1(i).level = level /\ Node1(i).idx = i /\ Node1(i).key = NodeKey(items[i + 1])
              /\ Leaf1(i).level = level /\ Leaf1(i).idx = i /\ Leaf1(i).key = LeafKey(items[i + 1])
  OBVIOUS
<1>13. CASE level < Depth(t)
  <2>1. new = {Node1(i) : i \in {j \in places : NodeMatches(items[j + 1])}}
    BY <1>6, <1>13
  <2>2. \A item \in new : \E i \in places : item = Node1(i)
    BY <2>1
  <2>3. \A i \in places : NodeMatches(items[i + 1]) => Node1(i) \in new
    BY <2>1
  <2>4. \A i \in places : Node1(i) = [level |-> Node1(i).level, idx |-> Node1(i).idx, key |-> Node1(i).key]
    OBVIOUS
  <2> HIDE DEF Node1
  <2>5. ASSUME NEW i \in places
        PROVE  HeapItem(t, Node1(i)) /\ Node1(i).level = level /\ start <= Node1(i).idx /\ Node1(i).idx < start + w
    <3>1. start <= i /\ i < start + w /\ i < Len(items) /\ i \in Nat
      BY <1>10, <1>11
    <3>2. level # Depth(t) /\ i \in 0..(Len(items) - 1)
      BY <1>2, <1>4, <1>13, <3>1
    <3>3. Node1(i).level = level /\ Node1(i).idx = i /\ Node1(i).key = NodeKey(items[i + 1])
      BY <1>12
    <3>4. HeapItem(t, Node1(i))
      <4> DEFINE x == Node1(i)
      <4>1. x.level = level /\ x.idx = i /\ x.key = NodeKey(items[i + 1])
        BY <3>3
      <4>2. x = [level |-> x.level, idx |-> x.idx, key |-> x.key]
        BY <2>4
      <4> HIDE DEF x
      <4>3. Items(t, x.level) = items
        BY <4>1 DEF items
      <4>4. x.level \in 0..Depth(t) /\ x.level # Depth(t)
        BY <1>2, <3>2, <4>1
      <4>5. x.idx \in 0..(Len(Items(t, x.level)) - 1) /\ x.key = NodeKey(Items(t, x.level)[x.idx + 1])
        BY <3>2, <4>1, <4>3
      <4>6. HeapItem(t, x)
        BY <4>2, <4>4, <4>5, Zenon DEF HeapItem
      <4>. QED  BY <4>6 DEF x
    <3>. QED  BY <3>1, <3>3, <3>4
  <2>6. \A item \in new : HeapItem(t, item) /\ item.level = level /\ start <= item.idx /\ item.idx < start + w
    BY <2>2, <2>5
  <2>7. ASSUME NEW k \in Matching(t), start <= Up(t, level, k), Up(t, level, k) < start + w
        PROVE  \E item \in new : IsUnder(t, item, k)
    <3> DEFINE i == Up(t, level, k)
    <3>1. k \in 0..(Len(t.leaves) - 1) /\ LeafMatches(t.leaves[k + 1])
      BY <1>7
    <3>2. i \in Nat /\ i < Len(items)
      BY <1>4, <1>5, <3>1
    <3>3. i \in places
      BY <1>10, <2>7, <3>2
    <3>4. NodeMatches(items[i + 1])
      BY <1>8, <3>1, NodeMatchesAround
    <3>5. Node1(i) \in new
      BY <2>3, <3>3, <3>4
    <3>6. IsUnder(t, Node1(i), k)
      BY <1>12 DEF IsUnder
    <3>. QED  BY <3>5, <3>6
  <2>8. \A a, b \in new : a # b => a.idx # b.idx
    BY <1>12, <2>2
  <2>. QED  BY <2>6, <2>7, <2>8 DEF t, w, new
<1>14. CASE level = Depth(t)
  <2>1. new = {Leaf1(i) : i \in {j \in places : LeafMatches(items[j + 1])}}
    BY <1>2, <1>6, <1>14
  <2>2. \A item \in new : \E i \in places : item = Leaf1(i) /\ LeafMatches(items[i + 1])
    BY <2>1
  <2>3. \A i \in places : LeafMatches(items[i + 1]) => Leaf1(i) \in new
    BY <2>1
  <2>4. \A i \in places : Leaf1(i) = [level |-> Leaf1(i).level, idx |-> Leaf1(i).idx, key |-> Leaf1(i).key]
    OBVIOUS
  <2> HIDE DEF Leaf1
  <2>5. ASSUME NEW i \in places, LeafMatches(items[i + 1])
        PROVE  HeapItem(t, Leaf1(i)) /\ Leaf1(i).level = level /\ start <= Leaf1(i).idx /\ Leaf1(i).idx < start + w
    <3>1. start <= i /\ i < start + w /\ i < Len(items) /\ i \in Nat
      BY <1>10, <1>11
    <3>2. ~ (level < Depth(t)) /\ i \in 0..(Len(items) - 1)
      BY <1>2, <1>4, <1>14, <3>1
    <3>. QED  BY <1>12, <1>14, <2>4, <2>5, <3>1, <3>2 DEF HeapItem, items
  <2>6. \A item \in new : HeapItem(t, item) /\ item.level = level /\ start <= item.idx /\ item.idx < start + w
    BY <2>2, <2>5
  <2>7. ASSUME NEW k \in Matching(t), start <= Up(t, level, k), Up(t, level, k) < start + w
        PROVE  \E item \in new : IsUnder(t, item, k)
    <3>1. k \in 0..(Len(t.leaves) - 1) /\ LeafMatches(t.leaves[k + 1])
      BY <1>7
    <3>2. Up(t, level, k) = k /\ items = t.leaves
      BY <1>9, <1>14, <3>1
    <3>3. k \in Nat /\ k < Len(items)
      BY <1>4, <3>1, <3>2
    <3>4. k \in places
      BY <1>10, <2>7, <3>2, <3>3
    <3>5. Leaf1(k) \in new
      BY <2>3, <3>1, <3>2, <3>4
    <3>6. IsUnder(t, Leaf1(k), k)
      BY <1>12, <3>2 DEF IsUnder
    <3>. QED  BY <3>5, <3>6
  <2>8. \A a, b \in new : a # b => a.idx # b.idx
    BY <1>12, <2>2
  <2>. QED  BY <2>6, <2>7, <2>8 DEF t, w, new
<1>. QED  BY <1>2, <1>13, <1>14

\* The search of a tree starts with the root.
LEMMA HeapStarts ==
  ASSUME Asked, ~ IsQuery, NEW z \in DOMAIN db.trees
  PROVE  HeapInv(db.trees[z], Visit(db.trees[z], 0, 0))
<1> DEFINE t == db.trees[z]
           w == NodeSize(t.order)
           new == Visit(t, 0, 0)
<1>1. db \in Databases /\ Readable(t)
  BY TreesAre DEF Asked
<1>2. /\ w \in Nat /\ Depth(t) \in Nat /\ Len(Items(t, 0)) <= w /\ Items(t, 0) \in Seq(Node)
  BY <1>1, NodeSizeIs DEF Readable
<1>3. 0 \in 0..Depth(t)
  BY <1>2
<1>4. \A k \in 0..(Len(t.leaves) - 1) : Up(t, 0, k) \in 0..(Len(Items(t, 0)) - 1)
  BY <1>1, <1>3 DEF Readable
<1>5. Len(Items(t, 0)) \in Nat
  BY <1>2
<1>6. \A k \in 0..(Len(t.leaves) - 1) : 0 <= Up(t, 0, k) /\ Up(t, 0, k) < 0 + w
  BY <1>2, <1>4, <1>5
<1>7. /\ \A item \in new : HeapItem(t, item) /\ item.level = 0
      /\ \A k \in Matching(t) :
           0 <= Up(t, 0, k) /\ Up(t, 0, k) < 0 + w => \E item \in new : IsUnder(t, item, k)
      /\ \A a, b \in new : a # b => a.idx # b.idx
  BY <1>3, VisitIs
<1>8. \A k \in Matching(t) : k \in 0..(Len(t.leaves) - 1)
  BY DEF Matching
<1> HIDE DEF t, w, new
<1>9. \A k \in Matching(t) : \E item \in new : IsUnder(t, item, k)
  BY <1>6, <1>7, <1>8
<1>10. \A a, b \in new : a # b => \A k \in 0..(Len(t.leaves) - 1) : ~ (IsUnder(t, a, k) /\ IsUnder(t, b, k))
  BY <1>7 DEF IsUnder
<1>11. HeapInv(t, new)
  BY <1>7, <1>9, <1>10 DEF HeapInv
<1>. QED  BY <1>11 DEF t, new

\* A node is replaced by its children.
LEMMA HeapGoesOn ==
  ASSUME Asked, ~ IsQuery, NEW z \in DOMAIN db.trees, NEW items, HeapInv(db.trees[z], items),
         NEW item \in items, item.level < Depth(db.trees[z])
  PROVE  HeapInv(db.trees[z], (items \ {item})
                   \cup Visit(db.trees[z], item.level + 1, item.idx * NodeSize(db.trees[z].order)))
<1> DEFINE t == db.trees[z]
           w == NodeSize(t.order)
           l == item.level
           i == item.idx
           new == Visit(t, l + 1, i * w)
           all == (items \ {item}) \cup new
           n == Len(t.leaves)
<1>1. db \in Databases /\ Readable(t)
  BY TreesAre DEF Asked
<1>2. /\ \A a \in items : HeapItem(t, a)
      /\ \A k \in Matching(t) : \E a \in items : IsUnder(t, a, k)
      /\ \A a, b \in items : a # b => \A k \in 0..(n - 1) : ~ (IsUnder(t, a, k) /\ IsUnder(t, b, k))
  BY DEF HeapInv
<1>3. l \in 0..(Depth(t) - 1) /\ i \in 0..(Len(Items(t, l)) - 1) /\ l + 1 \in 0..Depth(t)
  <2>1. HeapItem(t, item) /\ l < Depth(t) /\ Depth(t) \in Nat
    BY <1>1, <1>2 DEF Readable
  <2> HIDE DEF t
  <2>2. l \in 0..Depth(t) /\ i \in 0..(Len(Items(t, l)) - 1)
    BY <2>1 DEF HeapItem
  <2>. QED  BY <2>1, <2>2
<1>4. /\ w \in Nat /\ w >= 2 /\ i * w \in Nat
      /\ \A k \in 0..(n - 1) : Up(t, l, k) = Up(t, l + 1, k) \div w
  BY <1>1, <1>3, ChildrenAre
<1>5. /\ \A a \in new : HeapItem(t, a) /\ a.level = l + 1 /\ i * w <= a.idx /\ a.idx < i * w + w
      /\ \A k \in Matching(t) :
           i * w <= Up(t, l + 1, k) /\ Up(t, l + 1, k) < i * w + w => \E a \in new : IsUnder(t, a, k)
      /\ \A a, b \in new : a # b => a.idx # b.idx
  <2> DEFINE level == l + 1
             start == i * w
  <2>1. level \in 0..Depth(db.trees[z]) /\ start \in Nat
    BY <1>3, <1>4
  <2> HIDE DEF level, start
  <2>2. /\ \A a \in Visit(t, level, start) :
             HeapItem(t, a) /\ a.level = level /\ start <= a.idx /\ a.idx < start + w
        /\ \A k \in Matching(t) :
             start <= Up(t, level, k) /\ Up(t, level, k) < start + w =>
               \E a \in Visit(t, level, start) : IsUnder(t, a, k)
        /\ \A a, b \in Visit(t, level, start) : a # b => a.idx # b.idx
    BY <2>1, VisitIs
  <2>. QED  BY <2>2, Zenon DEF level, start
<1>6. \A k \in Matching(t) : k \in 0..(n - 1)
  BY DEF Matching
<1>7. \A k \in 0..(n - 1) : Up(t, l + 1, k) \in Nat
  <2> DEFINE level == l + 1
  <2>1. level \in 0..Depth(t)
    BY <1>3
  <2>2. \A h \in 0..Depth(t), k \in 0..(n - 1) : Up(t, h, k) \in 0..(Len(Items(t, h)) - 1)
    BY <1>1 DEF Readable
  <2> HIDE DEF level, t, n
  <2>3. \A k \in 0..(n - 1) : Up(t, level, k) \in 0..(Len(Items(t, level)) - 1)
    BY <2>1, <2>2, Zenon
  <2>4. \A k \in 0..(n - 1) : Up(t, level, k) \in Nat
    BY <2>3
  <2>. QED  BY <2>4 DEF level
<1>8. i \in Nat
  BY <1>3
<1>9. l \in Nat
  BY <1>3
<1> HIDE DEF t, w, l, i, new, n
<1>10. \A k \in 0..(n - 1) : Up(t, l, k) = i <=> i * w <= Up(t, l + 1, k) /\ Up(t, l + 1, k) < i * w + w
  <2> TAKE k \in 0..(n - 1)
  <2> DEFINE u == Up(t, l + 1, k)
  <2>1. u \in Nat /\ Up(t, l, k) = u \div w
    BY <1>4, <1>7
  <2> HIDE DEF u
  <2>2. u \div w = i <=> i * w <= u /\ u < (i + 1) * w
    BY <1>4, <1>8, <2>1, QuotientIs
  <2>3. (i + 1) * w = i * w + w
    BY <1>4, <1>8
  <2>. QED  BY <2>1, <2>2, <2>3 DEF u
<1>11. \A k \in 0..(n - 1) : IsUnder(t, item, k) <=> Up(t, l, k) = i
  BY DEF IsUnder, l, i
<1>12. \A a \in new : \A k \in 0..(n - 1) : IsUnder(t, a, k) => IsUnder(t, item, k)
  <2> TAKE a \in new
  <2> TAKE k \in 0..(n - 1)
  <2>1. SUFFICES ASSUME IsUnder(t, a, k) PROVE Up(t, l, k) = i
    BY <1>11
  <2>2. Up(t, l + 1, k) = a.idx
    BY <1>5, <2>1 DEF IsUnder
  <2>. QED  BY <1>5, <1>10, <2>2
<1>13. \A k \in Matching(t) : \E a \in all : IsUnder(t, a, k)
  <2> TAKE k \in Matching(t)
  <2>1. PICK a \in items : IsUnder(t, a, k)
    BY <1>2
  <2>2. CASE a = item
    <3>1. \E b \in new : IsUnder(t, b, k)
      BY <1>5, <1>6, <1>10, <1>11, <2>1, <2>2
    <3>. QED  BY <3>1
  <2>3. CASE a # item
    BY <2>1, <2>3
  <2>. QED  BY <2>2, <2>3
<1>14. ASSUME NEW a \in all, NEW b \in all, a # b, NEW k \in 0..(n - 1), IsUnder(t, a, k), IsUnder(t, b, k)
       PROVE  FALSE
  <2>1. CASE a \in items \ {item} /\ b \in items \ {item}
    BY <1>2, <1>14, <2>1
  <2>2. CASE a \in new /\ b \in new
    BY <1>5, <1>14, <2>2 DEF IsUnder
  <2>3. CASE a \in new /\ b \in items \ {item}
    BY <1>2, <1>12, <1>14, <2>3
  <2>4. CASE a \in items \ {item} /\ b \in new
    BY <1>2, <1>12, <1>14, <2>4
  <2>. QED  BY <2>1, <2>2, <2>3, <2>4
<1>15. \A a \in all : HeapItem(t, a)
  BY <1>2, <1>5
<1> HIDE DEF all
<1>16. HeapInv(t, all)
  BY <1>13, <1>14, <1>15 DEF HeapInv, n
<1>. QED  BY <1>16 DEF t, w, l, i, new, all

\* No leaf is nearer than the item of the heap that it is under.
LEMMA NoNearer ==
  ASSUME Asked, ~ IsQuery, NEW z \in DOMAIN db.trees, NEW a, HeapItem(db.trees[z], a),
         NEW k \in 0..(Len(db.trees[z].leaves) - 1), IsUnder(db.trees[z], a, k)
  PROVE  LET leaf == db.trees[z].leaves[k + 1]
         IN  a.key \in Nat /\ LeafKey(leaf) \in Nat /\ a.key <= LeafKey(leaf)
<1> DEFINE t == db.trees[z]
           around == Items(t, a.level)[a.idx + 1]
           leaf == t.leaves[k + 1]
<1>1. Readable(t) /\ leaf.time_min <= leaf.time_max
  BY TreesAre DEF Asked
<1>2. a.level \in 0..Depth(t) /\ a.idx = Up(t, a.level, k)
  BY DEF HeapItem, IsUnder
<1>3. around \in Node /\ leaf \in Node /\ Around(around, leaf)
  BY <1>1, <1>2, NodesHoldLeaves
<1>4. NodeKey(around) \in Nat /\ LeafKey(leaf) \in Nat /\ NodeKey(around) <= LeafKey(leaf)
  BY <1>1, <1>3, KeyAround
<1>5. CASE a.level < Depth(t)
  BY <1>4, <1>5 DEF HeapItem
<1>6. CASE a.level = Depth(t)
  <2>1. Items(t, Depth(t)) = t.leaves /\ Up(t, Depth(t), k) = k
    BY <1>1 DEF Readable
  <2>2. around = leaf
    BY <1>2, <1>6, <2>1
  <2>3. a.key = LeafKey(leaf)
    BY <1>6, <2>2 DEF HeapItem
  <2>. QED  BY <1>4, <2>3
<1>7. a.level < Depth(t) \/ a.level = Depth(t)
  BY <1>1, <1>2 DEF Readable
<1>. QED  BY <1>5, <1>6, <1>7

\* A leaf that comes out first is the nearest of those that match.
LEMMA FirstIsNearest ==
  ASSUME Asked, ~ IsQuery, NEW z \in DOMAIN db.trees, HeapInv(db.trees[z], heap),
         NEW item \in heap, First(item), item.level = Depth(db.trees[z])
  PROVE  /\ item.idx \in Matching(db.trees[z])
         /\ \A k \in Matching(db.trees[z]) :
              LeafKey(db.trees[z].leaves[item.idx + 1]) <= LeafKey(db.trees[z].leaves[k + 1])
<1> DEFINE t == db.trees[z]
           n == Len(t.leaves)
<1>1. db \in Databases /\ Readable(t)
  BY TreesAre DEF Asked
<1>2. \A k \in 0..(n - 1) : t.leaves[k + 1].time_min <= t.leaves[k + 1].time_max
  BY <1>1, TreesAre
<1>3. /\ \A a \in heap : HeapItem(t, a)
      /\ \A k \in Matching(t) : \E a \in heap : IsUnder(t, a, k)
  BY DEF HeapInv
<1>4. Items(t, Depth(t)) = t.leaves /\ \A k \in 0..(n - 1) : Up(t, Depth(t), k) = k
  BY <1>1 DEF Readable
<1>5. item.level = Depth(t)
  OBVIOUS
<1> HIDE DEF t
<1>6. \A k : k \in Matching(t) <=> k \in 0..(n - 1) /\ LeafMatches(t.leaves[k + 1])
  BY DEF Matching
<1>7. item.idx \in 0..(n - 1) /\ item.key = LeafKey(t.leaves[item.idx + 1]) /\ LeafMatches(t.leaves[item.idx + 1])
  BY <1>3, <1>4, <1>5 DEF HeapItem
<1>8. \A a \in heap : \A k \in 0..(n - 1) : IsUnder(t, a, k) =>
        a.key \in Nat /\ LeafKey(t.leaves[k + 1]) \in Nat /\ a.key <= LeafKey(t.leaves[k + 1])
  BY <1>3, NoNearer DEF t
<1>9. IsUnder(t, item, item.idx)
  BY <1>4, <1>5, <1>7 DEF IsUnder
<1>10. ASSUME NEW k \in Matching(t)
       PROVE  LeafKey(t.leaves[item.idx + 1]) <= LeafKey(t.leaves[k + 1])
  <2>1. PICK a \in heap : IsUnder(t, a, k)
    BY <1>3
  <2>2. a.key \in Nat /\ LeafKey(t.leaves[k + 1]) \in Nat /\ a.key <= LeafKey(t.leaves[k + 1])
    BY <1>6, <1>8, <2>1
  <2>3. item.key < a.key \/ item.key = a.key
    BY DEF First
  <2>4. item.key \in Nat
    BY <1>7, <1>8, <1>9
  <2>. QED  BY <1>7, <2>2, <2>3, <2>4
<1>. QED  BY <1>6, <1>7, <1>10 DEF t

-----------------------------------------------------------------------------
(* The trees are read one after the other *)

\* Which trees are left: those yet to be read do not have the one that is read.
ZonesInv ==
  /\ Asked
  /\ status \in {"new", "zones", "running", "done"}
  /\ zones \subseteq DOMAIN db.trees /\ zone \in DOMAIN db.trees
  /\ status = "new" => zones = {}
  /\ status = "running" => zone \notin zones
  /\ status = "done" /\ request.kind # "value_at" => zones = {}

\* The first and the last of the trees yet to be read.
LEMMA ZonesHave ==
  ASSUME ZonesInv, zones # {}
  PROVE  /\ Min(zones) \in zones /\ Max(zones) \in zones
         /\ \A i \in zones : i \in Nat /\ Min(zones) <= i /\ i <= Max(zones)
<1> DEFINE n == Len(db.trees)
<1>1. db \in Databases /\ zones \subseteq DOMAIN db.trees
  BY DEF ZonesInv, Asked
<1>2. n \in Nat /\ DOMAIN db.trees = 1..n
  BY <1>1, TreesAre
<1> HIDE DEF n
<1>3. zones \subseteq Nat /\ zones \subseteq 0..n
  BY <1>1, <1>2
<1>. QED  BY <1>2, <1>3, MinIs, MaxIs

\* Nothing else is asked of anything else.
LEMMA AskedNext == ASSUME Asked, [Next]_vars PROVE db' = db /\ request' = request /\ Asked'
<1>1. db' = db /\ request' = request
  BY DEF Next, vars, NewRequest, EndOfZones, NewQuery, NextLeaf, EndOfLeaves, NextNode, EndOfLevel,
         EndOfQuery, NewSearch, Pop, EndOfSearch
<1>. QED  BY <1>1 DEF Asked, Requests, RegisterQueries, RegisterSearches, MemoryQueries,
              MemorySearches, Ranges, Times, LastTime

\* No tree is read at first.
LEMMA ZonesInitInv == Init => ZonesInv
<1> SUFFICES ASSUME Init PROVE ZonesInv
  OBVIOUS
<1>1. Asked
  BY DEF Init, Asked
<1>2. 1 \in DOMAIN db.trees
  BY <1>1, TreesAre DEF Asked
<1>. QED  BY <1>1, <1>2 DEF Init, ZonesInv

\* A step opens a tree that is left, or stays with the one that is read.
LEMMA ZonesKeepInv == ZonesInv /\ [Next]_vars => ZonesInv'
<1> SUFFICES ASSUME ZonesInv, [Next]_vars PROVE ZonesInv'
  OBVIOUS
<1>1. Asked /\ Asked' /\ db' = db /\ request' = request
  BY AskedNext DEF ZonesInv
<1>2. CASE NewRequest
  BY <1>1, <1>2 DEF NewRequest, ZonesInv
<1>3. CASE EndOfZones
  BY <1>1, <1>3 DEF EndOfZones, ZonesInv
<1>4. CASE NewQuery
  <2>1. Max(zones) \in zones
    BY <1>4, ZonesHave DEF NewQuery
  <2>2. zone' = Max(zones) /\ zones' = zones \ {Max(zones)} /\ status' = "running"
    BY <1>4 DEF NewQuery
  <2>. QED  BY <1>1, <2>1, <2>2 DEF ZonesInv
<1>5. CASE NextLeaf
  BY <1>1, <1>5 DEF NextLeaf, ZonesInv
<1>6. CASE EndOfLeaves
  BY <1>1, <1>6 DEF EndOfLeaves, ZonesInv
<1>7. CASE NextNode
  BY <1>1, <1>7 DEF NextNode, ZonesInv
<1>8. CASE EndOfLevel
  BY <1>1, <1>8 DEF EndOfLevel, ZonesInv
<1>9. CASE EndOfQuery
  BY <1>1, <1>9 DEF EndOfQuery, ZonesInv
<1>10. CASE NewSearch
  <2>1. Min(zones) \in zones
    BY <1>10, ZonesHave DEF NewSearch
  <2>2. zone' = Min(zones) /\ zones' = zones \ {Min(zones)} /\ status' \in {"zones", "running"}
    BY <1>10 DEF NewSearch
  <2>. QED  BY <1>1, <2>1, <2>2 DEF ZonesInv
<1>11. CASE Pop
  <2>1. zone' = zone /\ zones' = zones /\ status' \in {"zones", "running"} /\ status = "running"
    BY <1>11 DEF Pop
  <2>. QED  BY <1>1, <2>1 DEF ZonesInv
<1>12. CASE EndOfSearch
  BY <1>1, <1>12 DEF EndOfSearch, ZonesInv
<1>13. CASE UNCHANGED vars
  BY <1>1, <1>13 DEF vars, ZonesInv
<1>. QED  BY <1>2, <1>3, <1>4, <1>5, <1>6, <1>7, <1>8, <1>9, <1>10, <1>11, <1>12, <1>13 DEF Next

-----------------------------------------------------------------------------
(* Searches *)

\* The trees that a search is through with.
Searched == {i \in DOMAIN db.trees : i \notin zones /\ ~ (status = "running" /\ i = zone)}

\* The answer is one of what was found, and the nearest.
AnswerInv ==
  /\ answer \in Time \cup {None}
  /\ status = "new" => answer = None
  /\ answer # None => \E i \in DOMAIN db.trees : \E k \in Matching(db.trees[i]) :
                        answer = db.trees[i].leaves[k + 1].time_min
  /\ status # "new" =>
       \A i \in Searched : \A k \in Matching(db.trees[i]) :
         /\ answer # None
         /\ IF request.kind \in {"prev", "last"} THEN db.trees[i].leaves[k + 1].time_min <= answer
                                                ELSE answer <= db.trees[i].leaves[k + 1].time_min

\* A search goes by its heap and its answer alone.
SearchInv ==
  ~ IsQuery =>
    /\ level_iters = <<>> /\ leaf_iter = None /\ pos = 0 /\ found = <<>>
    /\ status = "running" => HeapInv(tree, heap)
    /\ status # "running" => heap = {}
    /\ AnswerInv

\* What matches, and how near it is, does not change.
LEMMA SearchSame ==
  ASSUME db' = db, request' = request
  PROVE  /\ \A t : Matching(t)' = Matching(t)
         /\ \A t, h : HeapInv(t, h)' <=> HeapInv(t, h)
         /\ IsQuery' <=> IsQuery
<1>1. SearchRange' = SearchRange /\ Target' = Target
  BY DEF SearchRange, Target
<1>2. \A x : /\ LeafMatches(x)' <=> LeafMatches(x)
             /\ NodeKey(x)' = NodeKey(x) /\ LeafKey(x)' = LeafKey(x)
  BY <1>1 DEF LeafMatches, NodeKey, LeafKey
<1>3. \A t : Matching(t)' = Matching(t)
  BY <1>2 DEF Matching
<1>4. \A t, x : HeapItem(t, x)' <=> HeapItem(t, x)
  BY <1>2 DEF HeapItem
<1>5. \A t, h : HeapInv(t, h)' <=> HeapInv(t, h)
  BY <1>3, <1>4 DEF HeapInv
<1>. QED  BY <1>3, <1>5 DEF IsQuery

\* Whether the heap is as it should be depends on nothing else.
LEMMA HeapInvNext ==
  ASSUME db' = db, request' = request, NEW t, tree' = t, HeapInv(t, heap')
  PROVE  HeapInv(tree, heap)'
<1>1. SearchRange' = SearchRange /\ Target' = Target
  BY DEF SearchRange, Target
<1>. QED  BY <1>1 DEF HeapInv, HeapItem, Matching, LeafMatches, NodeKey, LeafKey

\* A leaf that matches is one of the tree's, at a time.
LEMMA MatchingIs ==
  ASSUME Asked, NEW i \in DOMAIN db.trees, NEW k \in Matching(db.trees[i])
  PROVE  /\ k \in 0..(Len(db.trees[i].leaves) - 1) /\ LeafMatches(db.trees[i].leaves[k + 1])
         /\ db.trees[i].leaves[k + 1].time_min \in Time
<1>1. k \in 0..(Len(db.trees[i].leaves) - 1) /\ LeafMatches(db.trees[i].leaves[k + 1])
  BY DEF Matching
<1>2. Readable(db.trees[i])
  BY TreesAre DEF Asked
<1>3. db.trees[i].leaves[k + 1] \in Node
  BY <1>1, <1>2, NodesHoldLeaves
<1>. QED  BY <1>1, <1>3, NodeFields

\* No search has begun at first.
LEMMA SearchInitInv == Init => SearchInv
BY DEF Init, SearchInv, AnswerInv

\* A tree that is passed over has nothing that matches.
LEMMA NotWorthIt ==
  ASSUME Asked, ~ IsQuery, NEW i \in DOMAIN db.trees, ~ Worth(i)
  PROVE  Matching(db.trees[i]) = {}
<1> SUFFICES ASSUME NEW k \in Matching(db.trees[i]) PROVE FALSE
  OBVIOUS
<1>1. k \in 0..(Len(db.trees[i].leaves) - 1) /\ LeafMatches(db.trees[i].leaves[k + 1])
  BY MatchingIs
<1>2. Readable(db.trees[i])
  BY TreesAre DEF Asked
<1>3. /\ db.trees[i].bbox \in Node /\ db.trees[i].leaves[k + 1] \in Node
      /\ Around(db.trees[i].bbox, db.trees[i].leaves[k + 1])
  BY <1>1, <1>2, NodesHoldLeaves
<1>4. request.keys \in SUBSET Key
  BY SearchAsks
<1>5. Matches(request.keys, db.trees[i].bbox)
  BY <1>1, <1>3, <1>4, MatchesAround DEF LeafMatches
<1>. QED  BY <1>5 DEF Worth

\* An item that comes out of the heap is replaced by what is under it, or is the
\* nearest of its tree and an answer no worse than the one before.
LEMMA SearchKeepsInv == ZonesInv /\ SearchInv /\ [Next]_vars => SearchInv'
<1> SUFFICES ASSUME ZonesInv, SearchInv, [Next]_vars, ~ IsQuery PROVE SearchInv'
  <2>1. ASSUME ZonesInv, [Next]_vars, IsQuery PROVE SearchInv'
    <3>1. IsQuery'
      BY <2>1, AskedNext, SearchSame DEF ZonesInv
    <3>. QED  BY <3>1 DEF SearchInv
  <2>. QED  BY <2>1
<1>1. Asked /\ Asked' /\ db' = db /\ request' = request /\ db \in Databases
  BY AskedNext DEF ZonesInv, Asked
<1>2. /\ \A t : Matching(t)' = Matching(t)
      /\ \A t, h : HeapInv(t, h)' <=> HeapInv(t, h)
      /\ ~ IsQuery'
  BY <1>1, SearchSame
<1>3. /\ level_iters = <<>> /\ leaf_iter = None /\ pos = 0 /\ found = <<>>
      /\ status = "running" => HeapInv(tree, heap)
      /\ status # "running" => heap = {}
      /\ AnswerInv
  BY DEF SearchInv
<1>4. zones \subseteq DOMAIN db.trees /\ zone \in DOMAIN db.trees
  BY DEF ZonesInv
<1>5. CASE NewRequest
  <2>1. /\ status' = "zones" /\ zones' = {i \in DOMAIN db.trees : Worth(i)} /\ status = "new"
        /\ UNCHANGED <<queryVars, nearestVars>>
    BY <1>5 DEF NewRequest
  <2>2. UNCHANGED <<level_iters, leaf_iter, pos, found, heap, answer>>
    BY <2>1 DEF queryVars, nearestVars
  <2>3. answer = None
    BY <1>3, <2>1 DEF AnswerInv
  <2>4. \A i \in Searched' : i \in DOMAIN db.trees /\ ~ Worth(i)
    BY <1>1, <2>1 DEF Searched
  <2>5. \A i \in Searched' : Matching(db.trees[i]) = {}
    BY <1>1, <2>4, NotWorthIt
  <2>6. AnswerInv'
    BY <1>1, <1>2, <1>3, <2>1, <2>2, <2>3, <2>5 DEF AnswerInv
  <2>. QED  BY <1>3, <2>1, <2>2, <2>6 DEF SearchInv
<1>6. CASE EndOfZones
  <2>1. status = "zones" /\ status' = "done" /\ UNCHANGED <<zones, zone, queryVars, nearestVars>>
    BY <1>6 DEF EndOfZones
  <2>2. UNCHANGED <<level_iters, leaf_iter, pos, found, heap, answer>>
    BY <2>1 DEF queryVars, nearestVars
  <2>3. Searched' = Searched
    BY <1>1, <2>1 DEF Searched
  <2>4. AnswerInv'
    BY <1>1, <1>2, <1>3, <2>1, <2>2, <2>3 DEF AnswerInv
  <2>. QED  BY <1>3, <2>1, <2>2, <2>4 DEF SearchInv
<1>7. CASE NewSearch
  <2>1. /\ status = "zones" /\ zone' = Min(zones) /\ zones' = zones \ {Min(zones)} /\ zones # {}
        /\ UNCHANGED <<queryVars, answer>>
        /\ IF SearchRange = {} THEN UNCHANGED <<status, heap>>
           ELSE status' = "running" /\ heap' = Visit(db.trees[Min(zones)], 0, 0)
    BY <1>7 DEF NewSearch
  <2>2. UNCHANGED <<level_iters, leaf_iter, pos, found>>
    BY <2>1 DEF queryVars
  <2>3. Min(zones) \in zones /\ Min(zones) \in DOMAIN db.trees
    BY <1>4, <2>1, ZonesHave
  <2>4. CASE SearchRange = {}
    <3>1. \A t : Matching(t) = {}
      BY <2>4 DEF Matching, LeafMatches
    <3>2. UNCHANGED <<status, heap>>
      BY <2>1, <2>4
    <3>3. AnswerInv'
      BY <1>1, <1>2, <1>3, <2>1, <3>1, <3>2 DEF AnswerInv
    <3>. QED  BY <1>3, <2>1, <2>2, <3>2, <3>3 DEF SearchInv
  <2>5. CASE SearchRange # {}
    <3>1. status' = "running" /\ heap' = Visit(db.trees[zone'], 0, 0)
      BY <2>1, <2>5
    <3>2. tree' = db.trees[zone']
      BY <1>1 DEF tree
    <3>3. HeapInv(db.trees[zone'], heap')
      BY <1>1, <2>1, <2>3, <3>1, HeapStarts
    <3>4. HeapInv(tree, heap)'
      BY <1>1, <3>2, <3>3, HeapInvNext
    <3>5. Searched' \subseteq Searched
      BY <1>1, <2>1, <3>1 DEF Searched
    <3>6. AnswerInv'
      BY <1>1, <1>2, <1>3, <2>1, <3>1, <3>5 DEF AnswerInv
    <3>. QED  BY <1>3, <2>2, <3>1, <3>4, <3>6 DEF SearchInv
  <2>. QED  BY <2>4, <2>5
<1>8. CASE Pop
  <2>1. /\ status = "running" /\ zone' = zone /\ zones' = zones
        /\ UNCHANGED queryVars
    BY <1>8 DEF Pop
  <2>2. UNCHANGED <<level_iters, leaf_iter, pos, found>>
    BY <2>1 DEF queryVars
  <2>3. PICK item \in heap :
          /\ First(item)
          /\ \/ /\ item.level < Depth(tree)
                /\ heap' = (heap \ {item}) \cup Visit(tree, item.level + 1, Shl(item.idx))
                /\ UNCHANGED <<status, answer>>
             \/ /\ item.level = Depth(tree)
                /\ answer' = Best(({answer} \ {None}) \cup {tree.leaves[item.idx + 1].time_min})
                /\ status' = "zones"
                /\ heap' = {}
    BY <1>8 DEF Pop
  <2>4. HeapInv(db.trees[zone], heap)
    BY <1>3, <2>1 DEF tree
  <2>5. CASE item.level < Depth(tree)
    <3>1. heap' = (heap \ {item}) \cup Visit(tree, item.level + 1, Shl(item.idx)) /\ UNCHANGED <<status, answer>>
      <4>1. Depth(tree) \in Nat
        BY <1>1, <1>4, TreesAre DEF Readable, tree
      <4>. QED  BY <2>3, <2>5, <4>1
    <3>2. HeapInv(db.trees[zone], heap')
      <4>1. heap' = (heap \ {item}) \cup Visit(db.trees[zone], item.level + 1, item.idx * NodeSize(db.trees[zone].order))
        BY <3>1 DEF tree, Shl, GroupSize
      <4>2. HeapInv(db.trees[zone], (heap \ {item})
                \cup Visit(db.trees[zone], item.level + 1, item.idx * NodeSize(db.trees[zone].order)))
        BY <1>1, <1>4, <2>4, <2>5, HeapGoesOn DEF tree
      <4>. QED  BY <4>1, <4>2
    <3>3. tree' = db.trees[zone]
      BY <1>1, <2>1 DEF tree
    <3>4. HeapInv(tree, heap)'
      BY <1>1, <3>2, <3>3, HeapInvNext
    <3>5. Searched' = Searched
      BY <1>1, <2>1, <3>1 DEF Searched
    <3>6. AnswerInv'
      BY <1>1, <1>2, <1>3, <2>1, <3>1, <3>5 DEF AnswerInv
    <3>. QED  BY <1>3, <2>1, <2>2, <3>1, <3>4, <3>6 DEF SearchInv
  <2>6. CASE item.level = Depth(tree)
    <3> DEFINE u == db.trees[zone].leaves[item.idx + 1].time_min
               times == ({answer} \ {None}) \cup {u}
    <3>1. answer' = Best(times) /\ status' = "zones" /\ heap' = {}
      <4>1. Depth(tree) \in Nat
        BY <1>1, <1>4, TreesAre DEF Readable, tree
      <4>. QED  BY <2>3, <2>6, <4>1 DEF tree
    <3>2. /\ item.idx \in Matching(db.trees[zone])
          /\ \A k \in Matching(db.trees[zone]) :
               LeafKey(db.trees[zone].leaves[item.idx + 1]) <= LeafKey(db.trees[zone].leaves[k + 1])
      BY <1>1, <1>4, <2>3, <2>4, <2>6, FirstIsNearest DEF tree
    <3>3. u \in Time
      BY <1>1, <1>4, <3>2, MatchingIs
    <3>4. \A k \in Matching(db.trees[zone]) :
            IF request.kind \in {"prev", "last"} THEN db.trees[zone].leaves[k + 1].time_min <= u
                                                 ELSE u <= db.trees[zone].leaves[k + 1].time_min
      <4> TAKE k \in Matching(db.trees[zone])
      <4>1. /\ k \in 0..(Len(db.trees[zone].leaves) - 1) /\ LeafMatches(db.trees[zone].leaves[k + 1])
            /\ item.idx \in 0..(Len(db.trees[zone].leaves) - 1)
            /\ LeafMatches(db.trees[zone].leaves[item.idx + 1])
        BY <1>1, <1>4, <3>2, MatchingIs
      <4>. QED  BY <1>1, <1>4, <3>2, <4>1, NearestIs
    <3>5. answer \in Time \cup {None}
      BY <1>3 DEF AnswerInv
    <3>6. times \subseteq Time /\ u \in times /\ (answer # None => answer \in times)
      BY <3>3, <3>5
    <3>7. \A x \in times : x = u \/ (x = answer /\ answer # None)
      OBVIOUS
    <3> HIDE DEF u, times
    <3>8. /\ answer' \in times
          /\ \A x \in times : IF request.kind \in {"prev", "last"} THEN x <= answer' ELSE answer' <= x
      <4>1. times # {} /\ times \subseteq Nat /\ times \subseteq 0..Max(Time) /\ Max(Time) \in Nat
        BY <3>6, RTreeAssumption
      <4>2. Max(times) \in times /\ \A x \in times : x <= Max(times)
        BY <4>1, MaxIs
      <4>3. Min(times) \in times /\ \A x \in times : Min(times) <= x
        BY <4>1, MinIs
      <4>. QED  BY <3>1, <4>2, <4>3 DEF Best
    <3>9. answer' \in Time /\ answer' # None
      BY <3>6, <3>8, NoneAssumption
    <3>10. \E i \in DOMAIN db.trees : \E k \in Matching(db.trees[i]) :
             answer' = db.trees[i].leaves[k + 1].time_min
      <4>1. CASE answer' = u
        BY <1>4, <3>2, <4>1 DEF u
      <4>2. CASE answer' = answer /\ answer # None
        BY <1>3, <4>2 DEF AnswerInv
      <4>. QED  BY <3>7, <3>8, <4>1, <4>2
    <3>11. \A i \in Searched' : i = zone \/ i \in Searched
      BY <1>1, <2>1, <3>1 DEF Searched
    <3>12. ASSUME NEW i \in Searched', NEW k \in Matching(db.trees[i])
           PROVE  IF request.kind \in {"prev", "last"} THEN db.trees[i].leaves[k + 1].time_min <= answer'
                                                       ELSE answer' <= db.trees[i].leaves[k + 1].time_min
      <4> DEFINE v == db.trees[i].leaves[k + 1].time_min
      <4>1. i \in DOMAIN db.trees
        BY <1>1 DEF Searched
      <4>2. v \in Time
        BY <1>1, <4>1, MatchingIs
      <4>3. Time \subseteq Nat
        BY RTreeAssumption
      <4>4. \E x \in times : IF request.kind \in {"prev", "last"} THEN v <= x ELSE x <= v
        <5>1. CASE i = zone
          BY <3>4, <3>6, <5>1
        <5>2. CASE i \in Searched
          <6>1. answer # None /\ IF request.kind \in {"prev", "last"} THEN v <= answer ELSE answer <= v
            BY <1>3, <2>1, <5>2 DEF AnswerInv
          <6>. QED  BY <3>6, <6>1
        <5>. QED  BY <3>11, <5>1, <5>2
      <4> HIDE DEF v
      <4>5. IF request.kind \in {"prev", "last"} THEN v <= answer' ELSE answer' <= v
        <5>1. PICK x \in times : IF request.kind \in {"prev", "last"} THEN v <= x ELSE x <= v
          BY <4>4
        <5>2. x \in Nat /\ v \in Nat /\ answer' \in Nat
          BY <3>6, <3>9, <4>2, <4>3
        <5>3. IF request.kind \in {"prev", "last"} THEN x <= answer' ELSE answer' <= x
          BY <3>8
        <5>. QED  BY <5>1, <5>2, <5>3
      <4>. QED  BY <4>5 DEF v
    <3>13. AnswerInv'
      BY <1>1, <1>2, <3>1, <3>9, <3>10, <3>12 DEF AnswerInv
    <3>. QED  BY <1>3, <2>2, <3>1, <3>13 DEF SearchInv
  <2>. QED  BY <2>3, <2>5, <2>6
<1>9. CASE EndOfSearch
  <2>1. status = "running" /\ heap = {} /\ status' = "zones" /\ UNCHANGED <<zones, zone, queryVars, nearestVars>>
    BY <1>9 DEF EndOfSearch
  <2>2. UNCHANGED <<level_iters, leaf_iter, pos, found, heap, answer>>
    BY <2>1 DEF queryVars, nearestVars
  <2>3. Matching(db.trees[zone]) = {}
    BY <1>3, <2>1 DEF HeapInv, tree
  <2>4. \A i \in Searched' : i = zone \/ i \in Searched
    BY <1>1, <2>1 DEF Searched
  <2>5. AnswerInv'
    BY <1>1, <1>2, <1>3, <2>1, <2>2, <2>3, <2>4 DEF AnswerInv
  <2>. QED  BY <2>1, <1>3, <2>2, <2>5 DEF SearchInv
<1>10. CASE NewQuery
  BY <1>10 DEF NewQuery
<1>11. CASE NextLeaf
  BY <1>3, <1>11 DEF NextLeaf
<1>12. CASE EndOfLeaves
  BY <1>3, <1>12 DEF EndOfLeaves
<1>13. CASE NextNode
  BY <1>3, <1>13 DEF NextNode
<1>14. CASE EndOfLevel
  BY <1>3, <1>14 DEF EndOfLevel
<1>15. CASE EndOfQuery
  BY <1>15 DEF EndOfQuery
<1>16. CASE UNCHANGED vars
  <2>1. /\ status' = status /\ zones' = zones /\ zone' = zone /\ heap' = heap /\ answer' = answer
        /\ UNCHANGED <<level_iters, leaf_iter, pos, found>>
    BY <1>16 DEF vars
  <2>2. Searched' = Searched
    BY <1>1, <2>1 DEF Searched
  <2>3. AnswerInv'
    BY <1>1, <1>2, <1>3, <2>1, <2>2 DEF AnswerInv
  <2>4. status = "running" => HeapInv(tree, heap)'
    <3>1. tree' = tree
      BY <1>1, <2>1 DEF tree
    <3>. QED  BY <1>1, <1>3, <2>1, <3>1, HeapInvNext
  <2>. QED  BY <1>3, <2>1, <2>3, <2>4 DEF SearchInv
<1>. QED  BY <1>5, <1>6, <1>7, <1>8, <1>9, <1>10, <1>11, <1>12, <1>13, <1>14, <1>15, <1>16 DEF Next

\* While a search runs, every leaf that matches is under one item of the heap.
LEMMA HeapCovers == ZonesInv /\ SearchInv => HeapCoversMatches
<1> SUFFICES ASSUME ZonesInv, SearchInv, status = "running", ~ IsQuery, NEW k \in Matching(tree)
             PROVE  \E item \in heap :
                      /\ k \in LeavesUnder(tree, item.level, item.idx)
                      /\ item.key <= LeafKey(tree.leaves[k + 1])
                      /\ \A other \in heap \ {item} : k \notin LeavesUnder(tree, other.level, other.idx)
  BY DEF HeapCoversMatches
<1>1. Asked /\ zone \in DOMAIN db.trees /\ tree = db.trees[zone]
  BY DEF ZonesInv, tree
<1>2. HeapInv(tree, heap)
  BY DEF SearchInv
<1>3. k \in 0..(Len(tree.leaves) - 1)
  BY DEF Matching
<1>4. PICK item \in heap : IsUnder(tree, item, k)
  BY <1>2 DEF HeapInv
<1>5. \A a : k \in LeavesUnder(tree, a.level, a.idx) <=> IsUnder(tree, a, k)
  BY <1>3 DEF LeavesUnder, IsUnder, Up
<1>6. HeapItem(tree, item)
  BY <1>2 DEF HeapInv
<1>7. item.key <= LeafKey(tree.leaves[k + 1])
  BY <1>1, <1>3, <1>4, <1>6, NoNearer
<1>8. \A other \in heap \ {item} : ~ IsUnder(tree, other, k)
  BY <1>2, <1>3, <1>4 DEF HeapInv
<1>. QED  BY <1>4, <1>5, <1>7, <1>8

\* A leaf matches when it has a key that is wanted and is on the side of the time
\* asked about that is wanted.
LEMMA LeafMatchesIs ==
  ASSUME Asked, ~ IsQuery, NEW i \in DOMAIN db.trees, NEW k \in 0..(Len(db.trees[i].leaves) - 1)
  PROVE  LET leaf == db.trees[i].leaves[k + 1]
         IN  LeafMatches(leaf) <=> /\ Matches(request.keys, leaf)
                                   /\ request.kind = "prev" => leaf.time_min < request.time
                                   /\ request.kind = "next" => leaf.time_min > request.time
<1> DEFINE leaf == db.trees[i].leaves[k + 1]
           u == leaf.time_min
           box == db.trees[i].bbox
<1>1. db \in Databases /\ Readable(db.trees[i]) /\ leaf.time_min <= leaf.time_max
  BY TreesAre DEF Asked
<1>2. leaf \in Node /\ box \in Node /\ Around(box, leaf)
  BY <1>1, NodesHoldLeaves
<1>3. u \in Time /\ u \in Nat /\ leaf.time_max \in Nat /\ box.time_min \in Nat /\ box.time_max \in Nat
  BY <1>2, NodeFields
<1>4. request.kind \in {"prev", "next", "first", "last"}
  BY SearchAsks
<1>5. Min(Time) = 0
  <2>1. Time \in SUBSET Nat /\ 0 \in Time /\ \A y \in Time : 0 <= y
    BY RTreeAssumption
  <2>. QED  BY <2>1, Extremes
<1> DEFINE last == Max(Time)
<1>6. last \in Nat /\ u <= last
  BY <1>3, RTreeAssumption
<1> HIDE DEF last
<1> DEFINE InRange == \E r \in SearchRange : r[1] <= u /\ u <= r[2]
<1>7. LeafMatches(leaf) <=> InRange /\ Matches(request.keys, leaf)
  BY DEF LeafMatches, Holds
<1>8. CASE request.kind = "prev"
  <2>1. request.time \in Nat
    BY <1>8, SearchAsks, RTreeAssumption
  <2>2. SearchRange = {<<0, request.time - 1>>} \ {<<0, 0 - 1>>}
    BY <1>5, <1>8 DEF SearchRange
  <2>3. \A r : r \in SearchRange <=> r = <<0, request.time - 1>> /\ request.time # 0
    <3>1. <<0, request.time - 1>> = <<0, 0 - 1>> <=> request.time = 0
      BY <2>1
    <3>. QED  BY <2>2, <3>1
  <2> DEFINE p == <<0, request.time - 1>>
  <2>5. p[1] = 0 /\ p[2] = request.time - 1 /\ \A r : r \in SearchRange <=> r = p /\ request.time # 0
    BY <2>3
  <2> HIDE DEF leaf, u, p
  <2>6. InRange <=> request.time # 0 /\ p[1] <= u /\ u <= p[2]
    BY <2>5
  <2>4. InRange <=> u < request.time
    BY <1>3, <2>1, <2>5, <2>6
  <2>. QED  BY <1>7, <1>8, <2>4 DEF leaf, u
<1>9. CASE request.kind = "next"
  <2>1. request.time \in Nat
    BY <1>9, SearchAsks, RTreeAssumption
  <2>2. SearchRange = {<<request.time + 1, last>>} \ {<<last + 1, last>>}
    BY <1>9 DEF SearchRange, last
  <2>3. \A r : r \in SearchRange <=> r = <<request.time + 1, last>> /\ request.time # last
    <3>1. <<request.time + 1, last>> = <<last + 1, last>> <=> request.time = last
      BY <1>6, <2>1
    <3>. QED  BY <2>2, <3>1
  <2> DEFINE p == <<request.time + 1, last>>
  <2>5. p[1] = request.time + 1 /\ p[2] = last /\ \A r : r \in SearchRange <=> r = p /\ request.time # last
    BY <2>3
  <2> HIDE DEF leaf, u, p
  <2>6. InRange <=> request.time # last /\ p[1] <= u /\ u <= p[2]
    BY <2>5
  <2>4. InRange <=> u > request.time
    BY <1>3, <1>6, <2>1, <2>5, <2>6
  <2>. QED  BY <1>7, <1>9, <2>4 DEF leaf, u
<1>10. CASE request.kind \in {"first", "last"}
  <2>1. i = 1
    <3>1. db.of = "register"
      BY <1>10, SearchAsks
    <3>. QED  BY <1>1, <3>1, TreesAre
  <2>2. SearchRange = {<<box.time_min, box.time_max>>}
    BY <1>10, <2>1 DEF SearchRange, TimeRange
  <2>3. box.time_min <= u /\ u <= box.time_max
    BY <1>1, <1>2, <1>3 DEF Around
  <2>4. InRange
    BY <2>2, <2>3
  <2>. QED  BY <1>7, <1>10, <2>4
<1>. QED  BY <1>4, <1>8, <1>9, <1>10

\* What a search returns is the nearest time there is.
LEMMA AnswerIsNearest == ZonesInv /\ SearchInv => NearestIsNearest
<1> SUFFICES ASSUME ZonesInv, SearchInv, status = "done", ~ IsQuery PROVE NearestIsNearest
  BY DEF NearestIsNearest
<1> DEFINE all == UNION {{t.leaves[k].time_min : k \in DOMAIN t.leaves} : t \in Range(db.trees)}
           wanted == {u \in all :
                        /\ \E t \in Range(db.trees) : \E k \in DOMAIN t.leaves :
                             t.leaves[k].time_min = u /\ Matches(request.keys, t.leaves[k])
                        /\ request.kind = "prev" => u < request.time
                        /\ request.kind = "next" => u > request.time}
           Has(u) == \E i \in DOMAIN db.trees : \E k \in Matching(db.trees[i]) :
                       u = db.trees[i].leaves[k + 1].time_min
<1>1. Asked /\ db \in Databases
  BY DEF ZonesInv, Asked
<1>2. request.kind \in {"prev", "next", "first", "last"}
  BY <1>1, SearchAsks
<1>3. zones = {}
  BY <1>2 DEF ZonesInv
<1>4. AnswerInv
  BY DEF SearchInv
<1>5. Searched = DOMAIN db.trees
  BY <1>3 DEF Searched
<1>6. \A t : t \in Range(db.trees) <=> \E i \in DOMAIN db.trees : t = db.trees[i]
  BY DEF Range
<1>7. ASSUME NEW i \in DOMAIN db.trees
      PROVE  /\ \A k \in DOMAIN db.trees[i].leaves : k - 1 \in 0..(Len(db.trees[i].leaves) - 1) /\ (k - 1) + 1 = k
             /\ \A k \in 0..(Len(db.trees[i].leaves) - 1) : k + 1 \in DOMAIN db.trees[i].leaves
  <2> DEFINE s == db.trees[i].leaves
  <2>1. s \in Seq(Node)
    BY <1>1, TreesAre DEF Readable
  <2> HIDE DEF s
  <2>2. DOMAIN s = 1..Len(s) /\ Len(s) \in Nat
    BY <2>1
  <2>3. \A k \in DOMAIN s : k - 1 \in 0..(Len(s) - 1) /\ (k - 1) + 1 = k
    BY <2>2
  <2>4. \A k \in 0..(Len(s) - 1) : k + 1 \in DOMAIN s
    BY <2>2
  <2>. QED  BY <2>3, <2>4 DEF s
<1>8. \A u : Has(u) => u \in Time
  BY <1>1, MatchingIs
<1>9. ASSUME NEW u, Has(u)
      PROVE  u \in wanted
  <2>0. PICK i \in DOMAIN db.trees : \E k \in Matching(db.trees[i]) : u = db.trees[i].leaves[k + 1].time_min
    BY <1>9
  <2>1. PICK k \in Matching(db.trees[i]) : u = db.trees[i].leaves[k + 1].time_min
    BY <2>0
  <2> DEFINE t == db.trees[i]
             j == k + 1
  <2>2. k \in 0..(Len(t.leaves) - 1) /\ LeafMatches(t.leaves[j])
    BY <1>1, <2>1, MatchingIs
  <2>3. /\ Matches(request.keys, t.leaves[j])
        /\ request.kind = "prev" => u < request.time
        /\ request.kind = "next" => u > request.time
    BY <1>1, <2>1, <2>2, LeafMatchesIs
  <2>4. j \in DOMAIN t.leaves /\ t \in Range(db.trees)
    BY <1>6, <1>7, <2>2
  <2>5. t.leaves[j].time_min = u
    BY <2>1
  <2> HIDE DEF t, j
  <2>6. u \in all
    BY <2>4, <2>5
  <2> HIDE DEF all
  <2>. QED  BY <2>3, <2>4, <2>5, <2>6
<1>10. ASSUME NEW u \in wanted
       PROVE  Has(u)
  <2>1. PICK t \in Range(db.trees) : \E k \in DOMAIN t.leaves :
          t.leaves[k].time_min = u /\ Matches(request.keys, t.leaves[k])
    BY <1>10
  <2>2. PICK k \in DOMAIN t.leaves : t.leaves[k].time_min = u /\ Matches(request.keys, t.leaves[k])
    BY <2>1
  <2>3. PICK i \in DOMAIN db.trees : t = db.trees[i]
    BY <1>6
  <2>4. /\ request.kind = "prev" => u < request.time
        /\ request.kind = "next" => u > request.time
    BY <1>10
  <2>5. k - 1 \in 0..(Len(t.leaves) - 1) /\ (k - 1) + 1 = k
    BY <1>7, <2>3
  <2> DEFINE j == k - 1
  <2> HIDE DEF j
  <2>6. j \in 0..(Len(db.trees[i].leaves) - 1) /\ db.trees[i].leaves[j + 1] = t.leaves[k]
    BY <2>3, <2>5 DEF j
  <2>7. LeafMatches(db.trees[i].leaves[j + 1])
    BY <1>1, <2>2, <2>4, <2>6, LeafMatchesIs
  <2>8. j \in Matching(db.trees[i])
    BY <2>6, <2>7 DEF Matching
  <2>. QED  BY <2>2, <2>6, <2>8
<1>11. NearestIsNearest <=> CASE wanted = {} -> answer = None
                              [] wanted # {} /\ request.kind \in {"prev", "last"} -> answer = Max(wanted)
                              [] wanted # {} /\ request.kind \in {"next", "first"} -> answer = Min(wanted)
  BY DEF NearestIsNearest
<1> HIDE DEF all, wanted
<1>12. answer # None => Has(answer)
  BY <1>4 DEF AnswerInv
<1>13. \A u : Has(u) => /\ answer # None
                        /\ IF request.kind \in {"prev", "last"} THEN u <= answer ELSE answer <= u
  BY <1>4, <1>5 DEF AnswerInv
<1> HIDE DEF Has
<1>14. wanted \in SUBSET Nat
  <2>1. Time \subseteq Nat
    BY RTreeAssumption
  <2>. QED  BY <1>8, <1>10, <2>1
<1>15. CASE wanted = {}
  BY <1>9, <1>11, <1>12, <1>15
<1>16. CASE wanted # {}
  <2>1. answer # None /\ answer \in wanted
    BY <1>9, <1>10, <1>12, <1>13, <1>16
  <2>2. CASE request.kind \in {"prev", "last"}
    <3>1. answer = Max(wanted)
      BY <1>10, <1>13, <1>14, <2>1, <2>2, Extremes
    <3>. QED  BY <1>11, <1>16, <2>2, <3>1
  <2>3. CASE request.kind \in {"next", "first"}
    <3>1. answer = Min(wanted)
      BY <1>10, <1>13, <1>14, <2>1, <2>3, Extremes
    <3>. QED  BY <1>11, <1>16, <2>3, <3>1
  <2>. QED  BY <1>2, <2>2, <2>3
<1>. QED  BY <1>15, <1>16

-----------------------------------------------------------------------------
(* Queries *)

\* The iterators, over any places.
Iters == [start : Nat, end : Nat, next : Nat]

\* An iterator that is open is over all of the first level, or over the children
\* of the node that the iterator above it has just left.
OpenAt(t, open, i) ==
  /\ open[i].start <= open[i].next /\ open[i].next <= open[i].end
  /\ i = 1 => open[i].start = 0 /\ open[i].end = Len(Items(t, 0))
  /\ i > 1 => /\ open[i - 1].start < open[i - 1].next
              /\ open[i].start = (open[i - 1].next - 1) * NodeSize(t.order)
              /\ open[i].end = Min({open[i].start + NodeSize(t.order), Len(Items(t, i - 1))})

\* The iterators that are open nest, and the place is where the last one starts.
Nested(t, open, p) ==
  /\ open \in Seq(Iters) /\ Len(open) <= Depth(t) + 1
  /\ \A i \in 1..Len(open) : OpenAt(t, open, i)
  /\ p = IF open = <<>> THEN 0 ELSE open[Len(open)].start

\* What the iterators have left behind: the leaves that are under what the last
\* of them is through with, or under what comes before; all when none is open.
Behind(t, open, k) == open # <<>> => Up(t, Len(open) - 1, k) < open[Len(open)].next

\* An iterator is over a part of its level that is no longer than a node.
LEMMA SliceIs ==
  ASSUME NEW t, Readable(t), NEW open, NEW p, Nested(t, open, p), NEW i \in 1..Len(open)
  PROVE  /\ open[i] \in Iters
         /\ open[i].start \in Nat /\ open[i].end \in Nat /\ open[i].next \in Nat
         /\ i - 1 \in 0..Depth(t) /\ Len(Items(t, i - 1)) \in Nat
         /\ open[i].start <= open[i].next /\ open[i].next <= open[i].end
         /\ open[i].end <= Len(Items(t, i - 1)) /\ open[i].end <= open[i].start + NodeSize(t.order)
<1> DEFINE w == NodeSize(t.order)
           o == open[i]
           size == Len(Items(t, i - 1))
<1>1. open \in Seq(Iters) /\ OpenAt(t, open, i) /\ Len(open) \in Nat /\ Len(open) <= Depth(t) + 1
  BY DEF Nested
<1>2. w \in Nat /\ w >= 2 /\ Depth(t) \in Nat /\ Len(Items(t, 0)) <= w
  BY NodeSizeIs DEF Readable
<1>3. o \in Iters /\ o.start \in Nat /\ o.end \in Nat /\ o.next \in Nat
  <2>1. open[i] \in Iters
    BY <1>1
  <2>. QED  BY <2>1 DEF Iters
<1>4. i - 1 \in 0..Depth(t)
  BY <1>1, <1>2
<1> DEFINE l == i - 1
<1>5. Items(t, l) \in Seq(Node) /\ Items(t, 0) \in Seq(Node)
  <2>1. \A h \in 0..Depth(t) : Items(t, h) \in Seq(Node)
    BY DEF Readable
  <2>2. 0 \in 0..Depth(t)
    BY <1>2
  <2> HIDE DEF l
  <2>3. l \in 0..Depth(t)
    BY <1>4 DEF l
  <2>. QED  BY <2>1, <2>2, <2>3
<1>6. size \in Nat /\ Len(Items(t, 0)) \in Nat
  BY <1>5
<1>7. o.start <= o.next /\ o.next <= o.end
  BY <1>1 DEF OpenAt
<1>8. o.end <= size /\ o.end <= o.start + w
  <2>1. CASE i = 1
    <3>1. size = Len(Items(t, 0)) /\ o.end = Len(Items(t, 0)) /\ o.start = 0
      BY <1>1, <2>1 DEF OpenAt
    <3>. QED  BY <1>2, <1>3, <1>6, <3>1
  <2>2. CASE i > 1
    <3>1. o.end = Min({o.start + w, size})
      BY <1>1, <2>2 DEF OpenAt
    <3> DEFINE a == o.start + w
    <3>2. a \in Nat
      BY <1>2, <1>3
    <3> HIDE DEF o, size, w, a
    <3>3. o.end = IF a <= size THEN a ELSE size
      BY <1>6, <3>1, <3>2, MinOfTwo DEF a
    <3>. QED  BY <1>6, <3>2, <3>3 DEF a
  <2>. QED  BY <2>1, <2>2
<1>. QED  BY <1>3, <1>4, <1>6, <1>7, <1>8

\* The last iterator goes on to the next of its items, whose leaves it leaves behind.
LEMMA Advanced ==
  ASSUME NEW t, Readable(t), NEW open, NEW p, Nested(t, open, p), open # <<>>,
         open[Len(open)].next < open[Len(open)].end,
         NEW new \in Seq(Iters), Len(new) = Len(open),
         \A i \in 1..(Len(open) - 1) : new[i] = open[i],
         new[Len(open)] = [open[Len(open)] EXCEPT !.next = @ + 1]
  PROVE  /\ Nested(t, new, p) /\ new # <<>> /\ new[Len(new)].start < new[Len(new)].next
         /\ new[Len(new)].next = open[Len(open)].next + 1
         /\ \A k \in 0..(Len(t.leaves) - 1) :
              Behind(t, new, k) <=> Behind(t, open, k) \/ Up(t, Len(open) - 1, k) = open[Len(open)].next
<1> DEFINE n == Len(open)
<1>1. open \in Seq(Iters) /\ n \in Nat /\ n \in 1..n /\ n <= Depth(t) + 1
  BY DEF Nested
<1>2. /\ open[n] \in Iters /\ open[n].start \in Nat /\ open[n].next \in Nat /\ n - 1 \in 0..Depth(t)
      /\ open[n].start <= open[n].next /\ open[n].end \in Nat
  BY <1>1, SliceIs
<1>3. new[n].start = open[n].start /\ new[n].end = open[n].end /\ new[n].next = open[n].next + 1
  BY <1>2 DEF Iters
<1>4. ASSUME NEW i \in 1..n
      PROVE  OpenAt(t, new, i)
  <2>1. OpenAt(t, open, i)
    BY DEF Nested
  <2>5. i # n => i \in 1..(n - 1)
    BY <1>1
  <2>6. i > 1 => i - 1 \in 1..(n - 1)
    BY <1>1
  <2>7. open[n].next + 1 <= open[n].end
    BY <1>2
  <2>8. \A j \in 1..(n - 1) : new[j] = open[j]
    OBVIOUS
  <2> HIDE DEF n
  <2>2. new[i].start = open[i].start /\ new[i].end = open[i].end
    BY <1>3, <2>5, <2>8
  <2>3. i > 1 => new[i - 1] = open[i - 1]
    BY <2>6, <2>8
  <2>4. new[i].start <= new[i].next /\ new[i].next <= new[i].end
    <3>1. CASE i = n
      BY <1>2, <1>3, <2>7, <3>1
    <3>2. CASE i # n
      <4>1. new[i] = open[i]
        BY <2>5, <2>8, <3>2
      <4>. QED  BY <2>1, <4>1 DEF OpenAt
    <3>. QED  BY <3>1, <3>2
  <2>. QED  BY <2>1, <2>2, <2>3, <2>4 DEF OpenAt
<1>5. new # <<>>
  BY <1>1
<1>6. Nested(t, new, p)
  BY <1>1, <1>3, <1>4, <1>5 DEF Nested
<1>7. ASSUME NEW k \in 0..(Len(t.leaves) - 1)
      PROVE  Behind(t, new, k) <=> Behind(t, open, k) \/ Up(t, n - 1, k) = open[n].next
  <2> DEFINE u == Up(t, n - 1, k)
             l == n - 1
  <2>1. u \in Nat
    <3>1. \A h \in 0..Depth(t), j \in 0..(Len(t.leaves) - 1) : Up(t, h, j) \in 0..(Len(Items(t, h)) - 1)
      BY DEF Readable
    <3> HIDE DEF l
    <3>2. Up(t, l, k) \in 0..(Len(Items(t, l)) - 1)
      BY <1>2, <3>1 DEF l
    <3>. QED  BY <3>2 DEF l
  <2>2. Behind(t, new, k) <=> u < open[n].next + 1
    BY <1>3, <1>5 DEF Behind
  <2>3. Behind(t, open, k) <=> u < open[n].next
    BY DEF Behind
  <2> HIDE DEF u, n
  <2>. QED  BY <1>2, <2>1, <2>2, <2>3 DEF u
<1>. QED  BY <1>2, <1>3, <1>5, <1>6, <1>7

\* new is open with its last iterator, the n-th, one item further.
Advances(t, open, new, p, n) ==
  /\ Readable(t) /\ Nested(t, open, p) /\ open # <<>> /\ n = Len(open)
  /\ open[n].next < open[n].end
  /\ new \in Seq(Iters) /\ Len(new) = n
  /\ \A i \in 1..(n - 1) : new[i] = open[i]
  /\ new[n] = [open[n] EXCEPT !.next = @ + 1]

\* Advanced, in the words of the definition above.
LEMMA AdvancedBy ==
  ASSUME NEW t, NEW open, NEW new, NEW p, NEW n, Advances(t, open, new, p, n)
  PROVE  /\ Nested(t, new, p) /\ new # <<>> /\ new[n].start < new[n].next
         /\ new[n].next = open[n].next + 1
         /\ \A k \in 0..(Len(t.leaves) - 1) :
              Behind(t, new, k) <=> Behind(t, open, k) \/ Up(t, n - 1, k) = open[n].next
<1>1. /\ Readable(t) /\ Nested(t, open, p) /\ open # <<>> /\ n = Len(open)
      /\ open[Len(open)].next < open[Len(open)].end
      /\ new \in Seq(Iters) /\ Len(new) = Len(open)
      /\ \A i \in 1..(Len(open) - 1) : new[i] = open[i]
      /\ new[Len(open)] = [open[Len(open)] EXCEPT !.next = @ + 1]
  BY Zenon DEF Advances
<1>2. /\ Nested(t, new, p) /\ new # <<>> /\ new[Len(new)].start < new[Len(new)].next
      /\ new[Len(new)].next = open[Len(open)].next + 1
      /\ \A k \in 0..(Len(t.leaves) - 1) :
           Behind(t, new, k) <=> Behind(t, open, k) \/ Up(t, Len(open) - 1, k) = open[Len(open)].next
  BY <1>1, Advanced
<1>. QED  BY <1>1, <1>2, Zenon

\* The children of the node that the last iterator has just left are opened: what
\* is behind is what was behind before that node.
LEMMA Opened ==
  ASSUME NEW t, Readable(t), NEW open, NEW p, Nested(t, open, p), open # <<>>,
         open[Len(open)].start < open[Len(open)].next, Len(open) <= Depth(t),
         NEW q, q = (open[Len(open)].next - 1) * NodeSize(t.order),
         NEW iter, iter = Iter(q, Min({q + NodeSize(t.order), Len(Items(t, Len(open)))}))
  PROVE  /\ Nested(t, Append(open, iter), q) /\ iter \in Iters
         /\ \A k \in 0..(Len(t.leaves) - 1) :
              Behind(t, Append(open, iter), k) <=> Up(t, Len(open) - 1, k) < open[Len(open)].next - 1
<1> DEFINE n == Len(open)
           w == NodeSize(t.order)
           new == Append(open, iter)
           size == Len(Items(t, n))
           a == open[n].next - 1
<1>1. open \in Seq(Iters) /\ n \in Nat /\ n \in 1..n /\ n <= Depth(t) /\ Depth(t) \in Nat
  BY DEF Nested, Readable
<1>2. /\ open[n].start \in Nat /\ open[n].next \in Nat /\ open[n].next <= open[n].end
      /\ open[n].end \in Nat /\ open[n].end <= Len(Items(t, n - 1))
  BY <1>1, SliceIs
<1>3. a \in Nat /\ n - 1 \in 0..(Depth(t) - 1) /\ (n - 1) + 1 = n
  BY <1>1, <1>2
<1>4. a \in 0..(Len(Items(t, n - 1)) - 1)
  <2> DEFINE above == Len(Items(t, n - 1))
  <2>1. above \in Nat
    BY <1>1, SliceIs
  <2>2. a < open[n].next
    BY <1>2
  <2> HIDE DEF above, a, n
  <2>3. a < above
    BY <1>2, <1>3, <2>1, <2>2 DEF above
  <2>. QED  BY <1>3, <2>1, <2>3 DEF above
<1>5. /\ size \in Nat /\ w \in Nat /\ w >= 2 /\ q \in Nat /\ q < size
      /\ \A k \in 0..(Len(t.leaves) - 1) : Up(t, n - 1, k) = Up(t, n, k) \div w
  <2> DEFINE l == n - 1
  <2>1. l \in 0..(Depth(t) - 1) /\ a \in 0..(Len(Items(t, l)) - 1) /\ l + 1 = n
    BY <1>3, <1>4
  <2> HIDE DEF l, n, a
  <2>2. /\ Len(Items(t, l + 1)) \in Nat /\ w \in Nat /\ w >= 2 /\ a * w \in Nat
        /\ a * w < Len(Items(t, l + 1))
        /\ \A k \in 0..(Len(t.leaves) - 1) : Up(t, l, k) = Up(t, l + 1, k) \div w
    BY <2>1, ChildrenAre, Zenon
  <2>. QED  BY <2>1, <2>2 DEF l, a, n
<1> DEFINE b == q + w
<1>6. Min({b, size}) \in Nat /\ q <= Min({b, size})
  <2>1. b \in Nat
    BY <1>5
  <2> HIDE DEF b, size, w
  <2>2. Min({b, size}) \in Nat /\ Min({b, size}) = IF b <= size THEN b ELSE size
    BY <1>5, <2>1, MinOfTwo
  <2>. QED  BY <1>5, <2>1, <2>2 DEF b
<1>7. iter = [start |-> q, end |-> Min({b, size}), next |-> q]
  BY DEF Iter
<1>8. iter \in Iters /\ iter.start = q /\ iter.next = q /\ iter.end = Min({b, size})
  <2> HIDE DEF b, size
  <2>. QED  BY <1>5, <1>6, <1>7 DEF Iters
<1>9. /\ new \in Seq(Iters) /\ Len(new) = n + 1 /\ new[n + 1] = iter /\ new # <<>>
      /\ \A i \in 1..n : new[i] = open[i]
  BY <1>1, <1>8
<1> HIDE DEF new
<1>10. ASSUME NEW i \in 1..(n + 1)
       PROVE  OpenAt(t, new, i)
  <2>1. CASE i = n + 1
    <3>1. i - 1 = n /\ i > 1 /\ i # 1
      BY <1>1, <2>1
    <3>2. new[i] = iter /\ new[i - 1] = open[n]
      BY <1>1, <1>9, <2>1, <3>1
    <3>3. q <= iter.end
      BY <1>6, <1>8
    <3>4. /\ new[i].start = q /\ new[i].next = q /\ new[i].end = Min({q + w, Len(Items(t, i - 1))})
          /\ new[i - 1].next = open[n].next /\ new[i - 1].start < new[i - 1].next
      <4> HIDE DEF n
      <4>. QED  BY <1>8, <3>1, <3>2 DEF n
    <3>5. q \in Nat /\ new[i].start = (new[i - 1].next - 1) * w
      BY <1>5, <3>4
    <3>6. new[i].start <= new[i].next /\ new[i].next <= new[i].end
      BY <3>2, <3>3, <3>4, <3>5
    <3>. QED  BY <3>1, <3>4, <3>5, <3>6, Zenon DEF OpenAt
  <2>2. CASE i \in 1..n
    <3>1. OpenAt(t, open, i)
      BY <2>2 DEF Nested
    <3>2. new[i] = open[i]
      BY <1>9, <2>2
    <3>3. i > 1 => new[i - 1] = open[i - 1]
      <4>1. i > 1 => i - 1 \in 1..n
        BY <1>1, <2>2
      <4>. QED  BY <1>9, <4>1
    <3>. QED  BY <3>1, <3>2, <3>3 DEF OpenAt
  <2>. QED  BY <1>1, <2>1, <2>2
<1>11. Nested(t, new, q)
  BY <1>1, <1>8, <1>9, <1>10 DEF Nested
<1>12. ASSUME NEW k \in 0..(Len(t.leaves) - 1)
       PROVE  Behind(t, new, k) <=> Up(t, n - 1, k) < a
  <2> DEFINE u == Up(t, n, k)
  <2>1. u \in Nat
    <3>1. \A h \in 0..Depth(t), j \in 0..(Len(t.leaves) - 1) : Up(t, h, j) \in 0..(Len(Items(t, h)) - 1)
      BY DEF Readable
    <3> HIDE DEF n
    <3>2. Up(t, n, k) \in 0..(Len(Items(t, n)) - 1)
      BY <1>1, <3>1
    <3>. QED  BY <3>2
  <2>2. Behind(t, new, k) <=> u < q
    <3>1. (n + 1) - 1 = n
      BY <1>1
    <3> HIDE DEF n
    <3>. QED  BY <1>8, <1>9, <3>1 DEF Behind
  <2>3. Up(t, n - 1, k) = u \div w
    BY <1>5
  <2>4. q = a * w
    OBVIOUS
  <2> HIDE DEF u, w, a
  <2>6. w \in Nat /\ w > 0
    BY <1>5
  <2>5. u \div w < a <=> u < a * w
    BY <1>3, <2>1, <2>6, QuotientBelow
  <2>. QED  BY <2>2, <2>3, <2>4, <2>5
<1>. QED  BY <1>8, <1>11, <1>12 DEF new

\* The last iterator is through with its items and is closed: what is behind
\* stays so.  The place of the one above is that of the last without the index of
\* its node and without the index of the node above.
LEMMA Closed ==
  ASSUME NEW t, Readable(t), NEW open, NEW p, Nested(t, open, p), open # <<>>,
         open[Len(open)].next >= open[Len(open)].end,
         NEW new \in Seq(Iters), Len(new) = Len(open) - 1,
         \A i \in 1..(Len(open) - 1) : new[i] = open[i],
         NEW q, q = ((p \div NodeSize(t.order)) \div NodeSize(t.order)) * NodeSize(t.order)
  PROVE  /\ Nested(t, new, q)
         /\ \A k \in 0..(Len(t.leaves) - 1) : Behind(t, new, k) <=> Behind(t, open, k)
<1> DEFINE n == Len(open)
           w == NodeSize(t.order)
<1>1. open \in Seq(Iters) /\ n \in Nat /\ n \in 1..n /\ n <= Depth(t) + 1 /\ Depth(t) \in Nat
  BY DEF Nested, Readable
<1>2. /\ open[n].start \in Nat /\ open[n].next \in Nat /\ open[n].end \in Nat
      /\ open[n].next = open[n].end /\ open[n].end <= Len(Items(t, n - 1))
  BY <1>1, SliceIs
<1>3. w \in Nat /\ w >= 2
  BY NodeSizeIs DEF Readable
<1>4. p = open[n].start /\ OpenAt(t, open, n)
  BY <1>1 DEF Nested
<1>5. \A l \in 0..Depth(t), k \in 0..(Len(t.leaves) - 1) : Up(t, l, k) \in 0..(Len(Items(t, l)) - 1)
  BY DEF Readable
<1>6. n - 1 \in 0..Depth(t) /\ Len(Items(t, n - 1)) \in Nat
  BY <1>1, SliceIs
<1>7. \A i \in 1..(n - 1) : OpenAt(t, new, i)
  <2> SUFFICES ASSUME NEW i \in 1..(n - 1) PROVE OpenAt(t, new, i)
    OBVIOUS
  <2>1. i \in 1..n /\ new[i] = open[i]
    BY <1>1
  <2>2. i > 1 => i - 1 \in 1..(n - 1)
    BY <1>1
  <2>3. i > 1 => new[i - 1] = open[i - 1]
    BY <2>2
  <2>4. OpenAt(t, open, i)
    BY <2>1 DEF Nested
  <2>. QED  BY <2>1, <2>3, <2>4 DEF OpenAt
<1>8. CASE n = 1
  <2>1. new = <<>>
    BY <1>8
  <2>2. p = 0
    BY <1>4, <1>8 DEF OpenAt
  <2>3. q = 0
    <3> HIDE DEF w
    <3>1. (0 \div w) \div w = 0
      BY <1>3
    <3>. QED  BY <1>3, <2>2, <3>1 DEF w
  <2>4. Nested(t, new, q)
    BY <1>1, <1>7, <1>8, <2>1, <2>3 DEF Nested
  <2>5. ASSUME NEW k \in 0..(Len(t.leaves) - 1)
        PROVE  Behind(t, open, k)
    <3> DEFINE u == Up(t, 0, k)
    <3>1. u \in 0..(Len(Items(t, 0)) - 1)
      <4>1. 0 \in 0..Depth(t)
        BY <1>1
      <4>. QED  BY <1>5, <4>1
    <3>2. open[n].end = Len(Items(t, 0)) /\ n - 1 = 0
      BY <1>4, <1>8 DEF OpenAt
    <3> HIDE DEF n
    <3>3. Behind(t, open, k) <=> u < open[n].next
      BY <3>2 DEF Behind, n
    <3> HIDE DEF u
    <3>. QED  BY <1>2, <3>1, <3>2, <3>3
  <2>. QED  BY <2>1, <2>4, <2>5 DEF Behind
<1>9. CASE n > 1
  <2> DEFINE m == n - 1
             up == open[m]
             a == up.next - 1
  <2>1. m \in 1..n /\ m \in 1..(n - 1) /\ m \in Nat /\ m > 0 /\ m + 1 = n
    BY <1>1, <1>9
  <2>2. Len(new) = m /\ new[m] = up /\ new # <<>>
    BY <2>1
  <2>3. /\ up.start \in Nat /\ up.end \in Nat /\ up.next \in Nat
        /\ m - 1 \in 0..Depth(t) /\ Len(Items(t, m - 1)) \in Nat
        /\ up.next <= up.end /\ up.end <= Len(Items(t, m - 1)) /\ up.end <= up.start + w
    <3> HIDE DEF m
    <3>. QED  BY <2>1, SliceIs
  <2>4. /\ up.start < up.next /\ open[n].start = a * w
        /\ open[n].end = Min({open[n].start + w, Len(Items(t, m))})
    BY <1>4, <1>9 DEF OpenAt
  <2>5. a \in Nat /\ up.start <= a /\ a < up.start + w /\ a < Len(Items(t, m - 1))
    <3> DEFINE size == Len(Items(t, m - 1))
               first == up.start
               last == up.end
               next == up.next
    <3>1. first < next
      BY <2>4
    <3>2. /\ first \in Nat /\ last \in Nat /\ next \in Nat /\ size \in Nat
          /\ next <= last /\ last <= size /\ last <= first + w
      BY <2>3
    <3> HIDE DEF m, w, up, size, first, last, next
    <3>3. next - 1 \in Nat /\ first <= next - 1 /\ next - 1 < first + w /\ next - 1 < size
      BY <1>3, <3>1, <3>2
    <3>. QED  BY <3>3 DEF size, first, next
  <2>6. \E c \in Nat : up.start = c * w
    <3>1. CASE m = 1
      <4>1. up.start = 0
        <5>1. OpenAt(t, open, m)
          BY <2>1 DEF Nested
        <5>. QED  BY <3>1, <5>1 DEF OpenAt
      <4>2. 0 * w = 0
        BY <1>3
      <4>. QED  BY <4>1, <4>2
    <3>2. CASE m > 1
      <4> DEFINE c == open[m - 1].next - 1
      <4>1. OpenAt(t, open, m)
        BY <2>1 DEF Nested
      <4>2. up.start = c * w /\ open[m - 1].start < open[m - 1].next
        BY <3>2, <4>1 DEF OpenAt
      <4>3. m - 1 \in 1..n
        BY <1>1, <2>1, <3>2
      <4>4. open[m - 1].start \in Nat /\ open[m - 1].next \in Nat
        <5> DEFINE j == m - 1
        <5> HIDE DEF j
        <5>1. open[j].start \in Nat /\ open[j].next \in Nat
          BY <4>3, SliceIs DEF j
        <5>. QED  BY <5>1 DEF j
      <4>5. c \in Nat
        <5> DEFINE s == open[m - 1].start
                   e == open[m - 1].next
        <5>1. s \in Nat /\ e \in Nat /\ s < e
          BY <4>2, <4>4
        <5> HIDE DEF s, e
        <5>2. e - 1 \in Nat
          BY <5>1
        <5>. QED  BY <5>2 DEF e
      <4> HIDE DEF c
      <4>. QED  BY <4>2, <4>5
    <3>. QED  BY <2>1, <3>1, <3>2
  <2>7. PICK c \in Nat : up.start = c * w
    BY <2>6
  <2> HIDE DEF m, up, a, w, n
  <2>8. q = up.start
    <3>1. p = a * w
      BY <1>4, <2>4
    <3>2. (a * w) \div w = a
      <4>1. a * w \in Nat /\ a * w < (a + 1) * w
        BY <1>3, <2>5
      <4>. QED  BY <1>3, <2>5, <4>1, QuotientIs
    <3>3. a \div w = c
      <4>1. (c + 1) * w = c * w + w
        BY <1>3
      <4>2. c * w <= a /\ a < (c + 1) * w
        BY <1>3, <2>3, <2>5, <2>7, <4>1
      <4>3. w > 0
        BY <1>3
      <4>. QED  BY <1>3, <2>5, <4>2, <4>3, QuotientIs
    <3>. QED  BY <2>7, <3>1, <3>2, <3>3 DEF w
  <2>9. Nested(t, new, q)
    <3>1. Len(new) <= Depth(t) + 1
      BY <1>1, <2>1, <2>2
    <3>2. \A i \in 1..Len(new) : OpenAt(t, new, i)
      BY <1>7, <2>1, <2>2
    <3>. QED  BY <2>2, <2>8, <3>1, <3>2 DEF Nested
  <2>10. ASSUME NEW k \in 0..(Len(t.leaves) - 1)
         PROVE  Behind(t, new, k) <=> Behind(t, open, k)
    <3> DEFINE u == Up(t, m, k)
               v == Up(t, m - 1, k)
               size == Len(Items(t, m))
    <3>1. m \in 0..Depth(t) /\ m = n - 1
      BY <1>1, <2>1
    <3>2. u \in Nat /\ u < size /\ size \in Nat
      <4>1. u \in 0..(size - 1)
        BY <1>5, <3>1
      <4>2. size \in Nat
        BY <1>6, <3>1
      <4> HIDE DEF size, u
      <4>. QED  BY <4>1, <4>2
    <3>3. v = u \div w
      <4> DEFINE l == m - 1
      <4>1. l \in 0..(Depth(t) - 1) /\ l + 1 = m
        BY <1>1, <2>1, <3>1
      <4> HIDE DEF l
      <4>2. Up(t, l, k) = Up(t, l + 1, k) \div w
        BY <4>1 DEF Readable, w
      <4>. QED  BY <4>1, <4>2 DEF l
    <3>4. Behind(t, open, k) <=> u < open[n].next
      BY <3>1 DEF Behind, n
    <3>5. Behind(t, new, k) <=> v < up.next
      BY <2>2 DEF Behind
    <3> DEFINE b == open[n].start + w
    <3>6. b = (a + 1) * w /\ b \in Nat
      BY <1>2, <1>3, <2>4, <2>5
    <3> HIDE DEF u, v, size, b
    <3>7. open[n].next = IF b <= size THEN b ELSE size
      <4>1. open[n].next = Min({b, size})
        BY <1>2, <2>4 DEF b, size
      <4>. QED  BY <3>2, <3>6, <4>1, MinOfTwo
    <3>8. u \div w < a + 1 <=> u < (a + 1) * w
      <4>1. a + 1 \in Nat /\ w > 0
        BY <1>3, <2>5
      <4>. QED  BY <1>3, <3>2, <4>1, QuotientBelow
    <3>9. up.next = a + 1
      BY <2>3 DEF a
    <3>. QED  BY <3>2, <3>3, <3>4, <3>5, <3>6, <3>7, <3>8, <3>9
  <2>. QED  BY <2>9, <2>10
<1>. QED  BY <1>1, <1>8, <1>9

\* The iterators of a query are iterators.
IterTyped == level_iters \in Seq(Iters) /\ leaf_iter \in Iters \cup {None}

\* What is open, the leaves that are looked at the last.
LEMMA OpenIs ==
  IterTyped => /\ leaf_iter = None => Open = level_iters
               /\ leaf_iter # None => Open = Append(level_iters, leaf_iter)
               /\ Open \in Seq(Iters)
<1> SUFFICES ASSUME IterTyped
             PROVE  /\ leaf_iter = None => Open = level_iters
                    /\ leaf_iter # None => Open = Append(level_iters, leaf_iter)
                    /\ Open \in Seq(Iters)
  OBVIOUS
<1>1. level_iters \in Seq(Iters) /\ (leaf_iter # None => leaf_iter \in Iters)
  BY DEF IterTyped
<1>2. leaf_iter = None => Open = level_iters
  BY <1>1 DEF Open
<1>3. leaf_iter # None => Open = Append(level_iters, leaf_iter)
  BY <1>1 DEF Open
<1>4. Open \in Seq(Iters)
  BY <1>1, <1>2, <1>3
<1>. QED  BY <1>2, <1>3, <1>4

\* And of the step's outcome.
LEMMA OpenIsNext ==
  IterTyped' => (/\ leaf_iter = None => Open = level_iters
                 /\ leaf_iter # None => Open = Append(level_iters, leaf_iter)
                 /\ Open \in Seq(Iters))'
BY OpenIs, PTL

\* The place of a query, and its iterators.
PlaceInv ==
  /\ IterTyped
  /\ Len(level_iters) <= Depth(tree)
  /\ leaf_iter # None => Len(level_iters) = Depth(tree)
  /\ status \in {"new", "zones"} => level_iters = <<>> /\ leaf_iter = None
  /\ Nested(tree, Open, pos)

\* A leaf that the query is through with.
Passed(f) == status # "new" /\ f[1] \notin zones /\ (f[1] = zone => Behind(tree, Open, f[2]))

\* What was found is what matches of what the query is through with.
FoundInv ==
  /\ found \in Seq(Wanted)
  /\ \A i, j \in DOMAIN found : i < j => Before(found[i], found[j])
  /\ \A f \in Wanted : f \in Range(found) <=> Passed(f)
  /\ \A f \in Range(found) : \A i \in zones : i < f[1]
  /\ Open # <<>> => /\ \A f \in Range(found) : zone <= f[1]
                    /\ \A i \in zones : i < zone
  /\ request.kind = "query" /\ status = "done" => Open = <<>>
  /\ request.kind = "value_at" /\ status # "done" => found = <<>>
  /\ request.kind = "value_at" /\ status = "done" =>
       Len(found) <= 1 /\ (found = <<>> => zones = {} /\ Open = <<>>)

\* A query goes by its iterators and what it found alone.
QueryInv == IsQuery => heap = {} /\ answer = None /\ PlaceInv /\ FoundInv

\* What is read in a step is what was read before it.
LEMMA TreeSame ==
  ASSUME db' = db, request' = request
  PROVE  /\ Wanted' = Wanted /\ (IsQuery' <=> IsQuery)
         /\ \A f, g : Before(f, g)' <=> Before(f, g)
         /\ zone' = zone => tree' = tree
BY DEF Wanted, IsQuery, FilterNode, Before, tree

\* A leaf that matches is one of a tree.
LEMMA WantedIs ==
  ASSUME Asked, NEW f
  PROVE  f \in Wanted <=> /\ f = <<f[1], f[2]>> /\ f[1] \in DOMAIN db.trees
                          /\ f[2] \in 0..(Len(db.trees[f[1]].leaves) - 1)
                          /\ FilterNode(db.trees[f[1]].leaves[f[2] + 1])
<1> DEFINE leavesOf(i) == 0..(Len(db.trees[i].leaves) - 1)
           all == UNION {{i} \X leavesOf(i) : i \in DOMAIN db.trees}
<1>1. f \in Wanted <=> f \in all /\ FilterNode(db.trees[f[1]].leaves[f[2] + 1])
  BY DEF Wanted
<1>2. f \in all <=> \E i \in DOMAIN db.trees : f \in {i} \X leavesOf(i)
  BY Zenon
<1> HIDE DEF leavesOf
<1>3. \A i : f \in {i} \X leavesOf(i) <=> f = <<f[1], f[2]>> /\ f[1] = i /\ f[2] \in leavesOf(i)
  OBVIOUS
<1>4. f \in all <=> f = <<f[1], f[2]>> /\ f[1] \in DOMAIN db.trees /\ f[2] \in leavesOf(f[1])
  BY <1>2, <1>3
<1>. QED  BY <1>1, <1>4 DEF leavesOf

\* A step that leaves no leaf behind that matches finds none.
LEMMA FoundKept ==
  ASSUME Asked, db' = db, request' = request, FoundInv,
         status = "running", status' \in {"running", "zones"},
         UNCHANGED <<zones, zone, found>>, Open = <<>> => Open' = <<>>,
         \A k \in 0..(Len(tree.leaves) - 1) :
           FilterNode(tree.leaves[k + 1]) => (Behind(tree, Open', k) <=> Behind(tree, Open, k))
  PROVE  FoundInv'
<1>1. /\ Wanted' = Wanted /\ tree' = tree
      /\ \A f, g : Before(f, g)' <=> Before(f, g)
  BY TreeSame
<1>2. \A f \in Wanted : Passed(f)' <=> Passed(f)
  <2> SUFFICES ASSUME NEW f \in Wanted PROVE Passed(f)' <=> Passed(f)
    OBVIOUS
  <2>1. f[1] = zone => f[2] \in 0..(Len(tree.leaves) - 1) /\ FilterNode(tree.leaves[f[2] + 1])
    BY WantedIs DEF tree
  <2>2. f[1] = zone => (Behind(tree, Open', f[2]) <=> Behind(tree, Open, f[2]))
    BY <2>1
  <2>3. Passed(f)' <=> status' # "new" /\ f[1] \notin zones /\ (f[1] = zone => Behind(tree, Open', f[2]))
    BY <1>1 DEF Passed
  <2>. QED  BY <2>2, <2>3 DEF Passed
<1>. QED  BY <1>1, <1>2 DEF FoundInv

\* A leaf is looked at.
LEMMA NextLeafKeeps ==
  ASSUME ZonesInv, ZonesInv', IsQuery, PlaceInv, FoundInv, db' = db, request' = request, NextLeaf
  PROVE  PlaceInv' /\ FoundInv'
<1> DEFINE n == Len(Open)
           k == leaf_iter.next
<1>1. /\ Asked /\ db \in Databases /\ zone \in DOMAIN db.trees /\ tree = db.trees[zone]
      /\ zone \notin zones
  BY DEF ZonesInv, Asked, tree, NextLeaf
<1>2. Readable(tree)
  BY <1>1, TreesAre
<1>3. /\ status = "running" /\ leaf_iter # None /\ leaf_iter.next < leaf_iter.end
      /\ leaf_iter' = [leaf_iter EXCEPT !.next = @ + 1]
      /\ UNCHANGED <<zones, zone, level_iters, pos>>
  BY DEF NextLeaf
<1>4. /\ IterTyped /\ leaf_iter \in Iters /\ level_iters \in Seq(Iters)
      /\ Len(level_iters) = Depth(tree) /\ Nested(tree, Open, pos)
  BY <1>3 DEF PlaceInv, IterTyped
<1>5. leaf_iter' \in Iters /\ leaf_iter' # None
  <2>1. leaf_iter' \in Iters
    <3> DEFINE x == leaf_iter.next + 1
    <3>1. x \in Nat
      BY <1>4 DEF Iters
    <3>2. leaf_iter' = [leaf_iter EXCEPT !.next = x]
      BY <1>3
    <3> HIDE DEF x
    <3>. QED  BY <1>4, <3>1, <3>2 DEF Iters
  <2>. QED  BY <2>1, NoneAssumption DEF Iters
<1>6. IterTyped'
  BY <1>3, <1>4, <1>5 DEF IterTyped
<1>7. Open = Append(level_iters, leaf_iter) /\ Open' = Append(level_iters, leaf_iter') /\ Open' \in Seq(Iters)
  BY <1>3, <1>4, <1>5, <1>6, OpenIs, OpenIsNext
<1>8. tree' = tree
  BY <1>3, TreeSame
<1>9. /\ Open # <<>> /\ n = Depth(tree) + 1 /\ n \in Nat /\ Open[n] = leaf_iter /\ Len(Open') = n
      /\ Open'[n] = leaf_iter' /\ \A i \in 1..(n - 1) : Open'[i] = Open[i]
  BY <1>4, <1>5, <1>7
<1>10. /\ Nested(tree, Open', pos) /\ Open' # <<>>
       /\ \A j \in 0..(Len(tree.leaves) - 1) :
            Behind(tree, Open', j) <=> Behind(tree, Open, j) \/ Up(tree, Depth(tree), j) = k
  <2> DEFINE new == Open'
             open == Open
  <2>1. /\ open[n].next < open[n].end /\ new[n] = [open[n] EXCEPT !.next = @ + 1]
        /\ n - 1 = Depth(tree) /\ open[n].next = k
    BY <1>2, <1>3, <1>9 DEF Readable
  <2>2. new \in Seq(Iters) /\ Len(new) = Len(open) /\ open # <<>> /\ Nested(tree, open, pos)
    BY <1>4, <1>7, <1>9
  <2>3. \A i \in 1..(n - 1) : new[i] = open[i]
    BY <1>9
  <2> HIDE DEF new, open
  <2>4. n = Len(open)
    BY DEF open
  <2> HIDE DEF n, k
  <2>5. /\ Nested(tree, new, pos) /\ new # <<>>
        /\ \A j \in 0..(Len(tree.leaves) - 1) :
             Behind(tree, new, j) <=> Behind(tree, open, j) \/ Up(tree, n - 1, j) = open[n].next
    <3>1. Advances(tree, open, new, pos, n)
      BY <1>2, <2>1, <2>2, <2>3, <2>4, Zenon DEF Advances
    <3>. QED  BY <3>1, AdvancedBy
  <2>. QED  BY <2>1, <2>5 DEF new, open
<1>11. \A j \in 0..(Len(tree.leaves) - 1) :
         /\ Up(tree, Depth(tree), j) = j
         /\ Behind(tree, Open', j) <=> Behind(tree, Open, j) \/ j = k
  BY <1>2, <1>10 DEF Readable
<1>12. k \in 0..(Len(tree.leaves) - 1) /\ ~ Behind(tree, Open, k)
  <2>1. /\ n \in 1..Len(Open) /\ n - 1 = Depth(tree)
    BY <1>2, <1>9 DEF Readable
  <2>2. Items(tree, n - 1) = tree.leaves
    BY <1>2, <2>1 DEF Readable
  <2>3. /\ Open[n].next \in Nat /\ Open[n].end \in Nat /\ Open[n].end <= Len(Items(tree, n - 1))
        /\ Len(Items(tree, n - 1)) \in Nat
    <3> DEFINE open == Open
    <3> HIDE DEF open, n
    <3>1. Nested(tree, open, pos) /\ n \in 1..Len(open)
      BY <1>4, <2>1 DEF open
    <3>2. /\ open[n].next \in Nat /\ open[n].end \in Nat /\ open[n].end <= Len(Items(tree, n - 1))
          /\ Len(Items(tree, n - 1)) \in Nat
      BY <1>2, <3>1, SliceIs
    <3>. QED  BY <3>2 DEF open
  <2>4. k \in 0..(Len(tree.leaves) - 1)
    BY <1>3, <1>9, <2>2, <2>3
  <2>5. Up(tree, Depth(tree), k) = k
    BY <1>11, <2>4
  <2>6. ~ Behind(tree, Open, k)
    BY <1>9, <2>1, <2>3, <2>5 DEF Behind
  <2>. QED  BY <2>4, <2>6
<1>13. status' \in {"running", "done"}
  BY <1>3 DEF NextLeaf
<1>14. PlaceInv'
  BY <1>3, <1>4, <1>5, <1>6, <1>8, <1>10, <1>13 DEF PlaceInv
<1>15. CASE ~ FilterNode(tree.leaves[k + 1])
  <2>1. found' = found /\ status' = status
    BY <1>15 DEF NextLeaf
  <2>2. FoundInv'
    <3>1. \A j \in 0..(Len(tree.leaves) - 1) :
            FilterNode(tree.leaves[j + 1]) => (Behind(tree, Open', j) <=> Behind(tree, Open, j))
      BY <1>11, <1>15
    <3>. QED  BY <1>1, <1>3, <1>9, <2>1, <3>1, FoundKept
  <2>. QED  BY <1>14, <2>2
<1>16. CASE FilterNode(tree.leaves[k + 1])
  <2> DEFINE f == <<zone, k>>
  <2>1. found' = Append(found, f) /\ status' = IF request.kind = "value_at" THEN "done" ELSE "running"
    BY <1>3, <1>16 DEF NextLeaf
  <2>2. f \in Wanted /\ f[1] = zone /\ f[2] = k /\ f[1] \in Nat /\ f[2] \in Nat
    <3>1. f[1] = zone /\ f[2] = k /\ f = <<f[1], f[2]>>
      OBVIOUS
    <3> HIDE DEF f, k
    <3>2. f \in Wanted
      BY <1>1, <1>12, <1>16, <3>1, WantedIs
    <3>3. zone \in Nat
      BY <1>1, TreesAre
    <3>. QED  BY <1>12, <3>1, <3>2, <3>3
  <2>3. /\ Wanted' = Wanted /\ (IsQuery' <=> IsQuery)
        /\ \A g, h : Before(g, h)' <=> Before(g, h)
    BY TreeSame
  <2>4. \A g \in Wanted : Passed(g)' <=> Passed(g) \/ g = f
    <3> SUFFICES ASSUME NEW g \in Wanted PROVE Passed(g)' <=> Passed(g) \/ g = f
      OBVIOUS
    <3>1. Passed(g)' <=> g[1] \notin zones /\ (g[1] = zone => Behind(tree, Open', g[2]))
      BY <1>3, <1>8, <1>13 DEF Passed
    <3>2. Passed(g) <=> g[1] \notin zones /\ (g[1] = zone => Behind(tree, Open, g[2]))
      BY <1>3 DEF Passed
    <3>3. g = <<g[1], g[2]>> /\ (g[1] = zone => g[2] \in 0..(Len(tree.leaves) - 1))
      BY <1>1, WantedIs
    <3>4. g = f <=> g[1] = zone /\ g[2] = k
      BY <3>3
    <3> HIDE DEF f, k
    <3>. QED  BY <1>1, <1>11, <3>1, <3>2, <3>3, <3>4
  <2>5. found \in Seq(Wanted) /\ Len(found) \in Nat /\ \A i \in DOMAIN found : found[i] \in Range(found)
    BY DEF FoundInv, Range
  <2>6. \A g \in Range(found) : g \in Wanted /\ Before(g, f) /\ Passed(g)
    <3> SUFFICES ASSUME NEW g \in Range(found) PROVE g \in Wanted /\ Before(g, f) /\ Passed(g)
      OBVIOUS
    <3>1. g \in Wanted
      BY <2>5 DEF Range
    <3>2. Passed(g)
      BY <3>1 DEF FoundInv
    <3>3. zone <= g[1]
      BY <1>9 DEF FoundInv
    <3>4. g[1] \in Nat /\ (g[1] = zone => g[2] \in 0..(Len(tree.leaves) - 1))
      <4>1. g[1] \in DOMAIN db.trees /\ g[2] \in 0..(Len(db.trees[g[1]].leaves) - 1)
        BY <1>1, <3>1, WantedIs
      <4>2. g[1] \in Nat
        BY <1>1, <4>1, TreesAre
      <4>. QED  BY <1>1, <4>1, <4>2
    <3>5. g[1] = zone => g[2] < k
      <4> HAVE g[1] = zone
      <4>1. Behind(tree, Open, g[2]) /\ Up(tree, Depth(tree), g[2]) = g[2]
        BY <1>11, <3>2, <3>4 DEF Passed
      <4>2. n - 1 = Depth(tree)
        BY <1>2, <1>9 DEF Readable
      <4>3. Up(tree, Depth(tree), g[2]) < k
        BY <1>9, <4>1, <4>2 DEF Behind
      <4>. QED  BY <4>1, <4>3
    <3>6. g[1] > zone \/ (g[1] = zone /\ g[2] < k)
      BY <2>2, <3>3, <3>4, <3>5
    <3>. QED  BY <2>2, <3>1, <3>2, <3>6 DEF Before
  <2> HIDE DEF f, k, n
  <2>7. /\ found' \in Seq(Wanted) /\ Len(found') = Len(found) + 1 /\ DOMAIN found' = 1..(Len(found) + 1)
        /\ DOMAIN found = 1..Len(found)
        /\ found'[Len(found) + 1] = f /\ \A i \in 1..Len(found) : found'[i] = found[i]
    BY <2>1, <2>2, <2>5
  <2>8. \A g : g \in Range(found') <=> g \in Range(found) \/ g = f
    <3>1. \A g : g \in Range(found') <=> \E i \in 1..(Len(found) + 1) : g = found'[i]
      BY <2>7 DEF Range
    <3>2. \A g : g \in Range(found) <=> \E i \in 1..Len(found) : g = found[i]
      BY <2>7 DEF Range
    <3>3. \A i : i \in 1..(Len(found) + 1) <=> i \in 1..Len(found) \/ i = Len(found) + 1
      BY <2>5
    <3> DEFINE m == Len(found) + 1
    <3> HIDE DEF m
    <3>4. \A g : (\E i \in 1..m : g = found'[i]) <=> (\E i \in 1..Len(found) : g = found'[i]) \/ g = found'[m]
      BY <3>3, Zenon DEF m
    <3>5. \A g : (\E i \in 1..Len(found) : g = found'[i]) <=> (\E i \in 1..Len(found) : g = found[i])
      BY <2>7, Zenon
    <3>6. found'[m] = f
      BY <2>7 DEF m
    <3>7. \A g : g \in Range(found') <=> \E i \in 1..m : g = found'[i]
      BY <3>1 DEF m
    <3>8. ASSUME NEW g
          PROVE  g \in Range(found') <=> g \in Range(found) \/ g = f
      <4>1. g \in Range(found') <=> (\E i \in 1..Len(found) : g = found'[i]) \/ g = found'[m]
        BY <3>4, <3>7
      <4>2. g \in Range(found') <=> (\E i \in 1..Len(found) : g = found[i]) \/ g = f
        BY <3>5, <3>6, <4>1
      <4>. QED  BY <3>2, <4>2
    <3>. QED  BY <3>8
  <2>9. \A i, j \in DOMAIN found' : i < j => Before(found'[i], found'[j])
    <3> SUFFICES ASSUME NEW i \in DOMAIN found', NEW j \in DOMAIN found', i < j
                 PROVE  Before(found'[i], found'[j])
      OBVIOUS
    <3>1. i \in 1..Len(found) /\ (j \in 1..Len(found) \/ j = Len(found) + 1)
      BY <2>5, <2>7
    <3>2. found'[i] = found[i] /\ found[i] \in Range(found)
      BY <2>5, <2>7, <3>1
    <3>3. CASE j \in 1..Len(found)
      <4>1. found'[j] = found[j]
        BY <2>7, <3>3
      <4>2. Before(found[i], found[j])
        BY <2>7, <3>1, <3>3 DEF FoundInv
      <4>. QED  BY <3>2, <4>1, <4>2
    <3>4. CASE j = Len(found) + 1
      BY <2>6, <2>7, <3>2, <3>4
    <3>. QED  BY <3>1, <3>3, <3>4
  <2>10. \A g \in Wanted : g \in Range(found') <=> Passed(g)'
    BY <2>4, <2>8 DEF FoundInv
  <2>11. /\ \A g \in Range(found') : \A i \in zones : i < g[1]
         /\ \A g \in Range(found') : zone <= g[1]
         /\ \A i \in zones : i < zone
    <3>1. /\ \A g \in Range(found) : \A i \in zones : i < g[1]
          /\ \A g \in Range(found) : zone <= g[1]
          /\ \A i \in zones : i < zone
      BY <1>9 DEF FoundInv
    <3>2. zone <= zone
      BY <2>2
    <3>. QED  BY <2>2, <2>8, <3>1, <3>2
  <2>12. request.kind = "value_at" => Len(found') <= 1 /\ found' # <<>>
    <3>1. request.kind = "value_at" => found = <<>>
      BY <1>3 DEF FoundInv
    <3>2. request.kind = "value_at" => Len(found) = 0
      BY <3>1
    <3>3. found' # <<>>
      BY <2>5, <2>7
    <3>. QED  BY <2>7, <3>2, <3>3
  <2>13. FoundInv'
    BY <1>3, <2>1, <2>3, <2>7, <2>9, <2>10, <2>11, <2>12 DEF FoundInv
  <2>. QED  BY <1>14, <2>13
<1>. QED  BY <1>15, <1>16

\* A slice that is done is closed, of the leaves or of a level of nodes.
LEMMA CloseKeeps ==
  ASSUME ZonesInv, IsQuery, PlaceInv, FoundInv, db' = db, request' = request,
         EndOfLeaves \/ EndOfLevel
  PROVE  PlaceInv' /\ FoundInv'
<1> DEFINE n == Len(Open)
<1>1. /\ Asked /\ db \in Databases /\ zone \in DOMAIN db.trees /\ tree = db.trees[zone]
  BY DEF ZonesInv, Asked, tree
<1>2. Readable(tree)
  BY <1>1, TreesAre
<1>3. /\ status = "running" /\ UNCHANGED <<status, zones, zone, found>> /\ tree' = tree
      /\ pos' = ((pos \div NodeSize(tree.order)) \div NodeSize(tree.order)) * NodeSize(tree.order)
  BY TreeSame DEF EndOfLeaves, EndOfLevel, Ascend, Shl, Shr, GroupSize
<1>4. IterTyped /\ level_iters \in Seq(Iters) /\ Nested(tree, Open, pos) /\ Len(level_iters) <= Depth(tree)
  BY DEF PlaceInv, IterTyped
<1>5. /\ Open # <<>> /\ n \in Nat /\ Open[n].next >= Open[n].end
      /\ IterTyped' /\ leaf_iter' = None /\ Len(level_iters') <= Depth(tree)
      /\ Open' \in Seq(Iters) /\ Len(Open') = n - 1 /\ \A i \in 1..(n - 1) : Open'[i] = Open[i]
  <2>1. CASE EndOfLeaves
    <3>1. leaf_iter # None /\ leaf_iter.next >= leaf_iter.end /\ leaf_iter' = None /\ level_iters' = level_iters
      BY <2>1 DEF EndOfLeaves
    <3>2. leaf_iter \in Iters /\ IterTyped'
      BY <1>4, <3>1 DEF IterTyped
    <3>3. Open = Append(level_iters, leaf_iter) /\ Open' = level_iters
      BY <1>4, <3>1, <3>2, OpenIs, OpenIsNext
    <3>. QED  BY <1>4, <3>1, <3>2, <3>3
  <2>2. CASE EndOfLevel
    <3>1. /\ leaf_iter = None /\ level_iters # <<>> /\ Last(level_iters).next >= Last(level_iters).end
          /\ level_iters' = Front(level_iters) /\ leaf_iter' = leaf_iter
      BY <2>2 DEF EndOfLevel
    <3> DEFINE m == Len(level_iters) - 1
    <3>2. level_iters' = SubSeq(level_iters, 1, m) /\ m \in Nat /\ Len(level_iters) = m + 1
      BY <1>4, <3>1 DEF Front
    <3> HIDE DEF m
    <3>3. /\ level_iters' \in Seq(Iters) /\ Len(level_iters') = m
          /\ \A i \in 1..m : level_iters'[i] = level_iters[i]
      BY <1>4, <3>2
    <3>4. IterTyped'
      BY <3>1, <3>3 DEF IterTyped
    <3>5. Open = level_iters /\ Open' = level_iters'
      BY <1>4, <3>1, <3>4, OpenIs, OpenIsNext
    <3>6. Depth(tree) \in Nat
      BY <1>2 DEF Readable
    <3>7. Open[n].next >= Open[n].end
      BY <3>1, <3>5 DEF Last
    <3>8. n = m + 1 /\ n - 1 = m /\ m <= Depth(tree)
      BY <1>4, <3>2, <3>5, <3>6
    <3>. QED  BY <3>1, <3>2, <3>3, <3>4, <3>5, <3>7, <3>8
  <2>. QED  BY <2>1, <2>2
<1>6. /\ Nested(tree, Open', pos')
      /\ \A k \in 0..(Len(tree.leaves) - 1) : Behind(tree, Open', k) <=> Behind(tree, Open, k)
  <2> DEFINE open == Open
             new == Open'
  <2> HIDE DEF open, new
  <2>1. /\ open # <<>> /\ open[Len(open)].next >= open[Len(open)].end /\ Nested(tree, open, pos)
        /\ new \in Seq(Iters) /\ Len(new) = Len(open) - 1 /\ \A i \in 1..(Len(open) - 1) : new[i] = open[i]
    BY <1>4, <1>5 DEF open, new
  <2>2. /\ Nested(tree, new, pos')
        /\ \A k \in 0..(Len(tree.leaves) - 1) : Behind(tree, new, k) <=> Behind(tree, open, k)
    BY <1>2, <1>3, <2>1, Closed
  <2>. QED  BY <2>2 DEF open, new
<1>7. PlaceInv'
  BY <1>3, <1>5, <1>6 DEF PlaceInv
<1>8. FoundInv'
  BY <1>1, <1>3, <1>5, <1>6, FoundKept
<1>. QED  BY <1>7, <1>8

\* A node is looked at, and left or entered.
LEMMA NextNodeKeeps ==
  ASSUME ZonesInv, IsQuery, PlaceInv, FoundInv, db' = db, request' = request, NextNode
  PROVE  PlaceInv' /\ FoundInv'
<1> DEFINE n == Len(level_iters)
           iter == level_iters[n]
           w == NodeSize(tree.order)
           advanced == [level_iters EXCEPT ![n].next = @ + 1]
           node == Items(tree, n - 1)[iter.next + 1]
<1>1. /\ Asked /\ db \in Databases /\ zone \in DOMAIN db.trees /\ tree = db.trees[zone]
  BY DEF ZonesInv, Asked, tree
<1>2. Readable(tree) /\ Depth(tree) \in Nat
  <2>1. Readable(tree)
    BY <1>1, TreesAre
  <2>. QED  BY <2>1 DEF Readable
<1>3. /\ status = "running" /\ UNCHANGED <<status, zones, zone, found>> /\ tree' = tree
      /\ leaf_iter = None /\ level_iters # <<>> /\ iter.next < iter.end
  BY TreeSame DEF NextNode, Last
<1>4. /\ IterTyped /\ level_iters \in Seq(Iters) /\ Nested(tree, Open, pos) /\ Open = level_iters
      /\ n \in Nat /\ n \in 1..n /\ n <= Depth(tree)
  BY <1>3, OpenIs DEF PlaceInv, IterTyped
<1>5. /\ iter \in Iters /\ iter.start \in Nat /\ iter.next \in Nat /\ iter.end \in Nat /\ iter.start <= iter.next
      /\ iter.end <= Len(Items(tree, n - 1)) /\ Len(Items(tree, n - 1)) \in Nat /\ n - 1 \in 0..Depth(tree)
  BY <1>2, <1>4, SliceIs
<1>6. /\ advanced \in Seq(Iters) /\ Len(advanced) = n
      /\ \A i \in 1..(n - 1) : advanced[i] = level_iters[i]
      /\ advanced[n] = [iter EXCEPT !.next = @ + 1]
  <2>1. [iter EXCEPT !.next = @ + 1] \in Iters
    BY <1>5 DEF Iters
  <2>2. advanced = [level_iters EXCEPT ![n] = [iter EXCEPT !.next = @ + 1]]
    BY <1>4
  <2> DEFINE it == [iter EXCEPT !.next = @ + 1]
  <2> HIDE DEF iter, advanced, it
  <2>3. advanced = [level_iters EXCEPT ![n] = it] /\ it \in Iters
    BY <2>1, <2>2 DEF it
  <2>4. advanced \in Seq(Iters) /\ Len(advanced) = n /\ advanced[n] = it
    BY <1>4, <2>3
  <2>5. \A i \in 1..(n - 1) : advanced[i] = level_iters[i]
    BY <1>4, <2>3
  <2>. QED  BY <2>4, <2>5 DEF it
<1>7. /\ Nested(tree, advanced, pos) /\ advanced # <<>> /\ advanced[n].start < advanced[n].next
      /\ advanced[n].next = iter.next + 1
      /\ \A k \in 0..(Len(tree.leaves) - 1) :
           Behind(tree, advanced, k) <=> Behind(tree, Open, k) \/ Up(tree, n - 1, k) = iter.next
  <2> DEFINE new == advanced
             open == Open
  <2>1. open # <<>> /\ open[n] = iter /\ Len(open) = n /\ Nested(tree, open, pos)
    BY <1>3, <1>4
  <2>2. \A i \in 1..(n - 1) : new[i] = open[i]
    BY <1>4, <1>6
  <2> HIDE DEF open
  <2>3. open[n].next < open[n].end /\ new[n] = [open[n] EXCEPT !.next = @ + 1]
    BY <1>3, <1>6, <2>1, Zenon
  <2>4. new \in Seq(Iters) /\ Len(new) = Len(open)
    BY <1>6, <2>1
  <2> HIDE DEF new, advanced, iter, n
  <2>5. /\ Nested(tree, new, pos) /\ new # <<>> /\ new[n].start < new[n].next
        /\ new[n].next = open[n].next + 1
        /\ \A k \in 0..(Len(tree.leaves) - 1) :
             Behind(tree, new, k) <=> Behind(tree, open, k) \/ Up(tree, n - 1, k) = open[n].next
    <3>1. Advances(tree, open, new, pos, n)
      BY <1>2, <2>1, <2>2, <2>3, <2>4, Zenon DEF Advances
    <3>. QED  BY <3>1, AdvancedBy
  <2>. QED  BY <2>1, <2>5 DEF new, open
<1>8. ASSUME NEW k \in 0..(Len(tree.leaves) - 1), Up(tree, n - 1, k) = iter.next, FilterNode(tree.leaves[k + 1])
      PROVE  FilterNode(node)
  <2> DEFINE l == n - 1
  <2>1. l \in 0..Depth(tree)
    BY <1>5
  <2> HIDE DEF l
  <2>2. /\ tree.leaves[k + 1] \in Node
        /\ Items(tree, l)[Up(tree, l, k) + 1] \in Node
        /\ Around(Items(tree, l)[Up(tree, l, k) + 1], tree.leaves[k + 1])
    BY <1>2, <2>1, NodesHoldLeaves
  <2>3. Items(tree, l)[Up(tree, l, k) + 1] = node
    BY <1>8 DEF l
  <2> HIDE DEF node
  <2>. QED  BY <1>1, <1>8, <2>2, <2>3, FilterAround
<1>9. CASE ~ FilterNode(node)
  <2>1. level_iters' = advanced /\ pos' = pos /\ leaf_iter' = leaf_iter
    BY <1>9 DEF NextNode, Last
  <2> HIDE DEF advanced, node
  <2>2. IterTyped'
    BY <1>3, <1>6, <2>1 DEF IterTyped
  <2>3. Open' = advanced
    BY <1>3, <2>1, <2>2, OpenIsNext
  <2>4. PlaceInv'
    BY <1>3, <1>4, <1>6, <1>7, <2>1, <2>2, <2>3 DEF PlaceInv
  <2>5. \A k \in 0..(Len(tree.leaves) - 1) :
          FilterNode(tree.leaves[k + 1]) => (Behind(tree, Open', k) <=> Behind(tree, Open, k))
    BY <1>7, <1>8, <1>9, <2>3
  <2>6. FoundInv'
    BY <1>1, <1>3, <1>4, <2>5, FoundKept
  <2>. QED  BY <2>4, <2>6
<1>10. CASE FilterNode(node)
  <2> DEFINE q == (advanced[n].next - 1) * w
             opened == Iter(q, Min({q + w, Len(Items(tree, n))}))
  <2>1. pos = iter.start
    BY <1>3, <1>4 DEF Nested
  <2>2. pos' = q
    <3>1. pos' = (pos + (iter.next - iter.start)) * w
      BY <1>10 DEF NextNode, Last, Shl, GroupSize
    <3>2. pos + (iter.next - iter.start) = advanced[n].next - 1
      <4> HIDE DEF iter, advanced
      <4>. QED  BY <1>5, <1>7, <2>1
    <3> HIDE DEF iter, advanced
    <3>. QED  BY <3>1, <3>2
  <2>3. /\ Nested(tree, Append(advanced, opened), q) /\ opened \in Iters
        /\ \A k \in 0..(Len(tree.leaves) - 1) :
             Behind(tree, Append(advanced, opened), k) <=> Up(tree, n - 1, k) < advanced[n].next - 1
    <3> HIDE DEF advanced, q
    <3>1. q = (advanced[Len(advanced)].next - 1) * NodeSize(tree.order) /\ Len(advanced) = n
      BY <1>6 DEF q
    <3>2. opened = Iter(q, Min({q + NodeSize(tree.order), Len(Items(tree, Len(advanced)))}))
      BY <1>6
    <3>3. advanced[Len(advanced)].start < advanced[Len(advanced)].next /\ Len(advanced) <= Depth(tree)
      BY <1>4, <1>6, <1>7
    <3> HIDE DEF opened
    <3>. QED  BY <1>2, <1>6, <1>7, <3>1, <3>2, <3>3, Opened
  <2>4. \/ n < Depth(tree) /\ level_iters' = Append(advanced, opened) /\ leaf_iter' = None
        \/ n = Depth(tree) /\ level_iters' = advanced /\ leaf_iter' = opened
    <3>1. \/ n < Depth(tree) /\ level_iters' = Append(advanced, Children(pos', n)) /\ leaf_iter' = leaf_iter
          \/ ~ (n < Depth(tree)) /\ level_iters' = advanced /\ leaf_iter' = Children(pos', Depth(tree))
      BY <1>10 DEF NextNode, Last
    <3>2. \A l : Children(pos', l) = Iter(q, Min({q + w, Len(Items(tree, l))}))
      BY <2>2 DEF Children, GroupSize
    <3>3. ~ (n < Depth(tree)) => n = Depth(tree)
      BY <1>2, <1>4
    <3>4. Children(pos', n) = opened
      BY <3>2
    <3>5. ~ (n < Depth(tree)) => Children(pos', Depth(tree)) = opened
      BY <3>3, <3>4
    <3>6. leaf_iter = None
      BY <1>3
    <3> HIDE DEF q, advanced, w, opened
    <3>7. CASE n < Depth(tree)
      BY <3>1, <3>4, <3>6, <3>7, Zenon
    <3>8. CASE ~ (n < Depth(tree))
      BY <3>1, <3>3, <3>5, <3>8, Zenon
    <3>. QED  BY <3>7, <3>8
  <2> HIDE DEF opened, advanced, q, node
  <2>5. opened # None
    BY <2>3, NoneAssumption DEF Iters
  <2>6. IterTyped' /\ Open' = Append(advanced, opened) /\ Open' # <<>>
    <3>0. advanced \in Seq(Iters) /\ opened \in Iters /\ Append(advanced, opened) \in Seq(Iters)
      BY <1>6, <2>3
    <3>1. IterTyped'
      BY <2>4, <3>0 DEF IterTyped
    <3>2. Open' = Append(advanced, opened)
      BY <2>4, <2>5, <3>1, OpenIsNext
    <3>. QED  BY <1>6, <2>3, <3>1, <3>2
  <2>7. /\ Len(level_iters') <= Depth(tree)
        /\ leaf_iter' # None => Len(level_iters') = Depth(tree)
    <3>1. Len(Append(advanced, opened)) = n + 1
      BY <1>6, <2>3
    <3>. QED  BY <1>2, <1>4, <1>6, <2>4, <3>1
  <2>8. PlaceInv'
    BY <1>3, <2>2, <2>3, <2>6, <2>7 DEF PlaceInv
  <2>9. \A k \in 0..(Len(tree.leaves) - 1) : Behind(tree, Open', k) <=> Behind(tree, Open, k)
    <3>1. advanced[n].next - 1 = iter.next
      <4> HIDE DEF iter
      <4>. QED  BY <1>5, <1>7
    <3>2. \A k : Behind(tree, Open, k) <=> Up(tree, n - 1, k) < iter.next
      BY <1>3, <1>4 DEF Behind
    <3>. QED  BY <2>3, <2>6, <3>1, <3>2
  <2>10. FoundInv'
    BY <1>1, <1>3, <1>4, <2>9, FoundKept
  <2>. QED  BY <2>8, <2>10
<1>. QED  BY <1>9, <1>10

\* A tree that is passed over has nothing that a query wants.
LEMMA NotAsked ==
  ASSUME Asked, IsQuery, NEW f \in Wanted
  PROVE  Worth(f[1])
<1>1. /\ db \in Databases /\ f[1] \in DOMAIN db.trees /\ f[2] \in 0..(Len(db.trees[f[1]].leaves) - 1)
      /\ FilterNode(db.trees[f[1]].leaves[f[2] + 1])
  BY WantedIs DEF Asked
<1> DEFINE t == db.trees[f[1]]
           k == f[2]
<1>2. Readable(t)
  BY <1>1, TreesAre
<1>3. t.leaves[k + 1] \in Node /\ t.bbox \in Node /\ Around(t.bbox, t.leaves[k + 1])
  <2> HIDE DEF t, k
  <2>1. k \in 0..(Len(t.leaves) - 1)
    BY <1>1 DEF t, k
  <2>. QED  BY <1>2, <2>1, NodesHoldLeaves
<1>4. FilterNode(t.bbox)
  BY <1>1, <1>3, FilterAround
<1>. QED  BY <1>4 DEF Worth

\* A tree is opened: nothing of it is behind.
LEMMA NewQueryKeeps ==
  ASSUME ZonesInv, PlaceInv, FoundInv, db' = db, request' = request, NewQuery
  PROVE  PlaceInv' /\ FoundInv'
<1> DEFINE z == Max(zones)
           next == db.trees[z]
           size == Len(Items(next, 0))
           first == Iter(0, size)
<1>1. /\ Asked /\ db \in Databases /\ z \in zones /\ z \in DOMAIN db.trees
      /\ \A i \in zones : i \in Nat /\ i <= z
  <2>1. zones # {}
    BY DEF NewQuery
  <2>2. Max(zones) \in zones /\ \A i \in zones : i \in Nat /\ i <= Max(zones)
    BY <2>1, ZonesHave
  <2>. QED  BY <2>2 DEF ZonesInv, Asked
<1>2. /\ status = "zones" /\ status' = "running" /\ zone' = z /\ zones' = zones \ {z}
      /\ pos' = pos /\ found' = found /\ IsQuery
  BY DEF NewQuery
<1> HIDE DEF z
<1>3. Readable(next)
  BY <1>1, TreesAre
<1>4. Items(next, 0) \in Seq(Node) /\ Depth(next) \in Nat /\ Items(next, Depth(next)) = next.leaves
  <2>1. Depth(next) \in Nat /\ (\A l \in 0..Depth(next) : Items(next, l) \in Seq(Node))
        /\ Items(next, Depth(next)) = next.leaves
    BY <1>3 DEF Readable
  <2>2. 0 \in 0..Depth(next)
    BY <2>1
  <2>. QED  BY <2>1, <2>2
<1>5. first \in Iters /\ first.start = 0 /\ first.next = 0 /\ first.end = size /\ size \in Nat
  <2>1. size \in Nat
    BY <1>4
  <2> HIDE DEF size
  <2>. QED  BY <2>1 DEF Iter, Iters
<1>6. first # None
  BY <1>5, NoneAssumption DEF Iters
<1>7. level_iters = <<>> /\ leaf_iter = None /\ pos = 0 /\ Open = <<>>
  <2>1. level_iters = <<>> /\ leaf_iter = None
    BY <1>2 DEF PlaceInv
  <2>2. Open = <<>>
    BY <2>1, OpenIs DEF PlaceInv
  <2>. QED  BY <2>1, <2>2 DEF PlaceInv, Nested
<1>8. \/ Depth(next) > 0 /\ level_iters' = <<first>> /\ leaf_iter' = None
      \/ Depth(next) = 0 /\ level_iters' = <<>> /\ leaf_iter' = first
  <2>1. \/ Depth(next) > 0 /\ level_iters' = <<Iter(0, Len(NodeLevel(next, 0)))>> /\ leaf_iter' = leaf_iter
        \/ ~ (Depth(next) > 0) /\ level_iters' = level_iters /\ leaf_iter' = Iter(0, Len(next.leaves))
    BY DEF NewQuery, z
  <2>2. Depth(next) > 0 => Items(next, 0) = NodeLevel(next, 0)
    BY DEF Items
  <2>3. ~ (Depth(next) > 0) => Depth(next) = 0 /\ Items(next, 0) = next.leaves
    BY <1>4
  <2>. QED  BY <1>7, <2>1, <2>2, <2>3
<1> HIDE DEF first
<1>9. IterTyped' /\ Open' = <<first>> /\ Len(level_iters') <= Depth(next)
      /\ (leaf_iter' # None => Len(level_iters') = Depth(next))
  <2>1. /\ <<first>> \in Seq(Iters) /\ Len(<<first>>) = 1
        /\ <<>> \in Seq(Iters) /\ Len(<<>>) = 0 /\ Append(<<>>, first) = <<first>>
    BY <1>5
  <2>2. first \in Iters
    BY <1>5
  <2>3. CASE Depth(next) > 0 /\ level_iters' = <<first>> /\ leaf_iter' = None
    <3>1. IterTyped'
      BY <2>1, <2>3 DEF IterTyped
    <3>2. Open' = <<first>>
      BY <2>3, <3>1, OpenIsNext
    <3>3. Len(level_iters') <= Depth(next)
      BY <1>4, <2>1, <2>3
    <3>. QED  BY <2>3, <3>1, <3>2, <3>3
  <2>4. CASE Depth(next) = 0 /\ level_iters' = <<>> /\ leaf_iter' = first
    <3>1. IterTyped'
      BY <2>1, <2>2, <2>4 DEF IterTyped
    <3>2. Open' = <<first>>
      BY <1>6, <2>1, <2>4, <3>1, OpenIsNext
    <3>3. Len(level_iters') = Depth(next)
      BY <2>1, <2>4
    <3>4. Len(level_iters') <= Depth(next)
      BY <1>4, <3>3
    <3>. QED  BY <3>1, <3>2, <3>3, <3>4
  <2>. QED  BY <1>8, <2>3, <2>4
<1>10. tree' = next
  BY <1>2 DEF tree
<1>11. Nested(next, <<first>>, 0)
  <2> DEFINE one == <<first>>
  <2>1. one \in Seq(Iters) /\ Len(one) = 1 /\ one[1] = first /\ one # <<>>
    BY <1>5
  <2> HIDE DEF one
  <2>2. OpenAt(next, one, 1)
    BY <1>5, <2>1 DEF OpenAt
  <2>3. \A i \in 1..Len(one) : i = 1
    BY <2>1
  <2>4. Nested(next, one, 0)
    BY <1>4, <1>5, <2>1, <2>2, <2>3 DEF Nested
  <2>. QED  BY <2>4 DEF one
<1>12. PlaceInv'
  BY <1>2, <1>7, <1>9, <1>10, <1>11 DEF PlaceInv
<1>13. /\ Wanted' = Wanted /\ \A f, g : Before(f, g)' <=> Before(f, g)
  BY TreeSame
<1>14. \A f \in Wanted : Passed(f)' <=> Passed(f)
  <2> SUFFICES ASSUME NEW f \in Wanted PROVE Passed(f)' <=> Passed(f)
    OBVIOUS
  <2>1. Passed(f)' <=> f[1] \notin zones \ {z} /\ (f[1] = z => Behind(next, <<first>>, f[2]))
    BY <1>2, <1>9, <1>10 DEF Passed
  <2>2. Passed(f) <=> f[1] \notin zones
    BY <1>2, <1>7 DEF Passed, Behind
  <2>3. f[1] = z => ~ Behind(next, <<first>>, f[2])
    <3> HAVE f[1] = z
    <3> DEFINE k == f[2]
               u == Up(next, 0, k)
    <3>1. k \in 0..(Len(next.leaves) - 1)
      BY <1>1, WantedIs
    <3>2. u \in Nat
      <4>1. \A l \in 0..Depth(next), j \in 0..(Len(next.leaves) - 1) : Up(next, l, j) \in 0..(Len(Items(next, l)) - 1)
        BY <1>3 DEF Readable
      <4>2. 0 \in 0..Depth(next)
        BY <1>4
      <4> DEFINE items == Len(Items(next, 0))
      <4> HIDE DEF k, u, items
      <4>3. u \in 0..(items - 1)
        BY <3>1, <4>1, <4>2, Zenon DEF u, items
      <4>. QED  BY <4>3
    <3>3. Behind(next, <<first>>, k) <=> u < 0
      <4> DEFINE one == <<first>>
      <4>1. Len(one) = 1 /\ one[1] = first /\ one # <<>>
        BY <1>5
      <4> HIDE DEF one
      <4>2. Behind(next, one, k) <=> u < 0
        BY <1>5, <4>1 DEF Behind
      <4>. QED  BY <4>2 DEF one
    <3>. QED  BY <3>2, <3>3
  <2>. QED  BY <1>1, <2>1, <2>2, <2>3
<1>15. \A f \in Range(found) : \A i \in zones : i < f[1]
  BY DEF FoundInv
<1>16. /\ \A f \in Range(found) : \A i \in zones \ {z} : i < f[1]
       /\ \A f \in Range(found) : z <= f[1]
       /\ \A i \in zones \ {z} : i < z
  <2>1. ASSUME NEW f \in Range(found)
        PROVE  z <= f[1]
    <3>1. f \in Wanted
      BY DEF FoundInv, Range
    <3>2. f[1] \in Nat /\ z < f[1]
      BY <1>1, <1>15, <3>1, WantedIs, TreesAre
    <3>. QED  BY <1>1, <3>2
  <2>2. \A i \in zones \ {z} : i < z
    BY <1>1
  <2>. QED  BY <1>15, <2>1, <2>2
<1>17. FoundInv'
  BY <1>2, <1>13, <1>14, <1>16 DEF FoundInv
<1>. QED  BY <1>12, <1>17

\* Nothing is open and nothing found at first.
LEMMA QueryInitInv == Init => QueryInv
<1> SUFFICES ASSUME Init, IsQuery PROVE QueryInv
  BY DEF QueryInv
<1>1. /\ status = "new" /\ level_iters = <<>> /\ leaf_iter = None /\ pos = 0 /\ found = <<>>
      /\ heap = {} /\ answer = None /\ zones = {}
  BY DEF Init
<1>2. Asked /\ db \in Databases /\ tree = db.trees[zone] /\ zone \in DOMAIN db.trees
  BY ZonesInitInv DEF ZonesInv, Asked, tree
<1>3. Depth(tree) \in Nat
  <2>1. Readable(tree)
    BY <1>2, TreesAre
  <2>. QED  BY <2>1 DEF Readable
<1>4. IterTyped
  BY <1>1 DEF IterTyped
<1>5. Open = <<>>
  BY <1>1, <1>4, OpenIs
<1>6. Nested(tree, <<>>, 0)
  BY <1>3 DEF Nested
<1>7. PlaceInv
  BY <1>1, <1>3, <1>4, <1>5, <1>6 DEF PlaceInv
<1>8. Range(found) = {}
  BY <1>1 DEF Range
<1>9. \A f \in Wanted : ~ Passed(f)
  BY <1>1 DEF Passed
<1>10. FoundInv
  BY <1>1, <1>5, <1>8, <1>9 DEF FoundInv
<1>. QED  BY <1>1, <1>7, <1>10 DEF QueryInv

\* A step of a query leaves behind exactly what it looked at.
LEMMA QueryKeepsInv == ZonesInv /\ QueryInv /\ [Next]_vars => QueryInv'
<1> SUFFICES ASSUME ZonesInv, QueryInv, [Next]_vars, IsQuery PROVE QueryInv'
  <2>1. ASSUME ZonesInv, [Next]_vars PROVE IsQuery' <=> IsQuery
    BY <2>1, AskedNext, TreeSame DEF ZonesInv
  <2>. QED  BY <2>1 DEF QueryInv
<1>1. Asked /\ db' = db /\ request' = request /\ ZonesInv'
  BY AskedNext, ZonesKeepInv DEF ZonesInv
<1>2. heap = {} /\ answer = None /\ PlaceInv /\ FoundInv
  BY DEF QueryInv
<1>3. /\ Wanted' = Wanted /\ (IsQuery' <=> IsQuery)
      /\ \A f, g : Before(f, g)' <=> Before(f, g)
      /\ zone' = zone => tree' = tree
  BY <1>1, TreeSame
<1>4. SUFFICES heap' = {} /\ answer' = None /\ PlaceInv' /\ FoundInv'
  BY DEF QueryInv
<1>5. CASE NewRequest
  <2>1. /\ status = "new" /\ status' = "zones" /\ zones' = {i \in DOMAIN db.trees : Worth(i)}
        /\ UNCHANGED <<zone, level_iters, leaf_iter, pos, found, heap, answer>>
    BY <1>5 DEF NewRequest, queryVars, nearestVars
  <2>2. Open' = Open /\ Open = <<>> /\ level_iters = <<>> /\ leaf_iter = None
    <3>1. level_iters = <<>> /\ leaf_iter = None
      BY <1>2, <2>1 DEF PlaceInv
    <3>2. Open = <<>>
      BY <1>2, <3>1, OpenIs DEF PlaceInv
    <3>. QED  BY <2>1, <3>1, <3>2 DEF Open
  <2>3. PlaceInv'
    BY <1>2, <1>3, <2>1, <2>2 DEF PlaceInv, IterTyped
  <2>4. Range(found) = {} /\ found = <<>>
    <3>1. ASSUME NEW f \in Range(found) PROVE FALSE
      <4>1. f \in Wanted
        BY <1>2 DEF FoundInv, Range
      <4>. QED  BY <1>2, <2>1, <4>1 DEF FoundInv, Passed
    <3>2. found = <<>>
      <4>1. found \in Seq(Wanted)
        BY <1>2 DEF FoundInv
      <4>2. found # <<>> => 1 \in DOMAIN found
        BY <4>1
      <4>. QED  BY <3>1, <4>2 DEF Range
    <3>. QED  BY <3>1, <3>2
  <2>5. \A f \in Wanted : ~ Passed(f)'
    <3> SUFFICES ASSUME NEW f \in Wanted PROVE ~ Passed(f)'
      OBVIOUS
    <3>1. f[1] \in zones'
      BY <1>1, <2>1, NotAsked, WantedIs
    <3>. QED  BY <3>1 DEF Passed
  <2>6. FoundInv'
    BY <1>1, <1>2, <1>3, <2>1, <2>2, <2>4, <2>5 DEF FoundInv
  <2>. QED  BY <1>2, <2>1, <2>3, <2>6
<1>6. CASE EndOfZones
  <2>1. /\ status = "zones" /\ zones = {} /\ status' = "done"
        /\ UNCHANGED <<zones, zone, level_iters, leaf_iter, pos, found, heap, answer>>
    BY <1>6 DEF EndOfZones, queryVars, nearestVars
  <2>2. Open' = Open /\ Open = <<>> /\ level_iters = <<>> /\ leaf_iter = None
    <3>1. level_iters = <<>> /\ leaf_iter = None
      BY <1>2, <2>1 DEF PlaceInv
    <3>2. Open = <<>>
      BY <1>2, <3>1, OpenIs DEF PlaceInv
    <3>. QED  BY <2>1, <3>1, <3>2 DEF Open
  <2>3. PlaceInv'
    BY <1>2, <1>3, <2>1, <2>2 DEF PlaceInv, IterTyped
  <2>4. \A f \in Wanted : Passed(f)' <=> Passed(f)
    BY <1>3, <2>1, <2>2 DEF Passed
  <2>5. request.kind = "value_at" => Len(found) <= 1
    <3>1. request.kind = "value_at" => found = <<>>
      BY <1>2, <2>1 DEF FoundInv
    <3>. QED  BY <3>1
  <2>6. FoundInv'
    BY <1>1, <1>2, <1>3, <2>1, <2>2, <2>4, <2>5 DEF FoundInv
  <2>. QED  BY <1>2, <2>1, <2>3, <2>6
<1>7. CASE NewQuery
  BY <1>1, <1>2, <1>7, NewQueryKeeps DEF NewQuery, nearestVars
<1>8. CASE NextLeaf
  BY <1>1, <1>2, <1>8, NextLeafKeeps DEF NextLeaf, nearestVars
<1>9. CASE EndOfLeaves
  BY <1>1, <1>2, <1>9, CloseKeeps DEF EndOfLeaves, nearestVars
<1>10. CASE NextNode
  BY <1>1, <1>2, <1>10, NextNodeKeeps DEF NextNode, nearestVars
<1>11. CASE EndOfLevel
  BY <1>1, <1>2, <1>11, CloseKeeps DEF EndOfLevel, nearestVars
<1>12. CASE EndOfQuery
  <2>1. /\ status = "running" /\ leaf_iter = None /\ level_iters = <<>> /\ status' = "zones"
        /\ UNCHANGED <<zones, zone, level_iters, leaf_iter, pos, found, heap, answer>>
    BY <1>12 DEF EndOfQuery, queryVars, nearestVars
  <2>2. Open' = Open
    BY <2>1 DEF Open
  <2>3. PlaceInv'
    BY <1>2, <1>3, <2>1, <2>2 DEF PlaceInv, IterTyped
  <2>4. FoundInv'
    BY <1>1, <1>2, <2>1, <2>2, FoundKept
  <2>. QED  BY <1>2, <2>1, <2>3, <2>4
<1>13. CASE NewSearch
  BY <1>13 DEF NewSearch
<1>14. CASE Pop
  BY <1>14 DEF Pop
<1>15. CASE EndOfSearch
  BY <1>15 DEF EndOfSearch
<1>16. CASE UNCHANGED vars
  <2>1. UNCHANGED <<status, zones, zone, level_iters, leaf_iter, pos, found, heap, answer>>
    BY <1>16 DEF vars
  <2>2. Open' = Open
    BY <2>1 DEF Open
  <2>3. PlaceInv'
    BY <1>2, <1>3, <2>1, <2>2 DEF PlaceInv, IterTyped
  <2>4. \A f : Passed(f)' <=> Passed(f)
    BY <1>3, <2>1, <2>2 DEF Passed
  <2>5. FoundInv'
    BY <1>1, <1>2, <1>3, <2>1, <2>2, <2>4 DEF FoundInv
  <2>. QED  BY <1>2, <2>1, <2>3, <2>5
<1>. QED  BY <1>5, <1>6, <1>7, <1>8, <1>9, <1>10, <1>11, <1>12, <1>13, <1>14, <1>15, <1>16 DEF Next

\* Of two leaves, the first is under a node that is no later.
LEMMA UpAscends ==
  ASSUME NEW t, Readable(t), NEW l \in 0..Depth(t),
         NEW j \in 0..(Len(t.leaves) - 1), NEW k \in 0..(Len(t.leaves) - 1), j <= k
  PROVE  /\ Up(t, l, j) \in Nat /\ Up(t, l, k) \in Nat
         /\ Up(t, l, j) <= Up(t, l, k) /\ Up(t, l, k) <= k
<1> DEFINE v == Widths(t.order)[Depth(t) - l]
<1>1. t.order \in Order /\ Depth(t) \in Nat
  BY DEF Readable
<1>2. v \in Nat /\ v > 0
  <2> DEFINE h == Depth(t) - l
  <2>1. h \in Nat
    BY <1>1
  <2> HIDE DEF h
  <2>2. Widths(t.order)[h] \in Nat /\ Widths(t.order)[h] > 0
    BY <1>1, <2>1, WidthsAre
  <2>. QED  BY <2>2 DEF h
<1> HIDE DEF v
<1>3. j \in Nat /\ k \in Nat
  OBVIOUS
<1> DEFINE q == j \div v
           r == k \div v
<1>4. q \in Nat /\ q * v <= j /\ r \in Nat /\ r * v <= k /\ k < (r + 1) * v
  BY <1>2, <1>3, QuotientIs
<1>5. q < r + 1
  <2>1. j < (r + 1) * v
    <3> DEFINE m == (r + 1) * v
    <3>1. m \in Nat
      BY <1>2, <1>4
    <3>2. k < m
      BY <1>4
    <3> HIDE DEF m
    <3>3. j < m
      BY <1>3, <3>1, <3>2
    <3>. QED  BY <3>3 DEF m
  <2>2. r + 1 \in Nat
    BY <1>4
  <2> DEFINE m == r + 1
  <2> HIDE DEF m
  <2>3. j \div v < m <=> j < m * v
    BY <1>2, <1>3, <2>2, QuotientBelow DEF m
  <2>. QED  BY <2>1, <2>3 DEF m
<1>6. r <= r * v
  BY <1>2, <1>4
<1>7. q <= r /\ r <= k
  <2> DEFINE m == r * v
  <2>1. m \in Nat /\ m <= k /\ r <= m
    BY <1>2, <1>4, <1>6
  <2> HIDE DEF q, r, m
  <2>. QED  BY <1>3, <1>4, <1>5, <2>1
<1>. QED  BY <1>4, <1>7 DEF Up, v

\* What was found is what matches of what comes first, and at the end all of it.
LEMMA FoundIsExact == ZonesInv /\ QueryInv => QueryIsExact
<1> SUFFICES ASSUME ZonesInv, QueryInv, IsQuery PROVE QueryIsExact
  BY DEF QueryIsExact
<1>1. Asked /\ db \in Databases /\ zone \in DOMAIN db.trees /\ tree = db.trees[zone]
  BY DEF ZonesInv, Asked, tree
<1>2. Readable(tree)
  BY <1>1, TreesAre
<1>3. PlaceInv /\ FoundInv
  BY DEF QueryInv
<1>4. \A i, j \in DOMAIN found : i < j => Before(found[i], found[j])
  BY <1>3 DEF FoundInv
<1>5. found \in Seq(Wanted) /\ Range(found) \subseteq Wanted
  <2>1. found \in Seq(Wanted)
    BY <1>3 DEF FoundInv
  <2>. QED  BY <2>1 DEF Range
<1>6. ASSUME NEW f \in Wanted, NEW g \in Range(found), Before(f, g)
      PROVE  f \in Range(found)
  <2>1. /\ f[1] \in DOMAIN db.trees /\ f[2] \in 0..(Len(db.trees[f[1]].leaves) - 1)
        /\ g[1] \in DOMAIN db.trees /\ g[2] \in 0..(Len(db.trees[g[1]].leaves) - 1)
    BY <1>1, <1>5, WantedIs
  <2>2. f[1] \in Nat /\ g[1] \in Nat /\ zone \in Nat /\ zones \subseteq Nat
    BY <1>1, <2>1, TreesAre DEF ZonesInv
  <2>3. Passed(g)
    BY <1>3, <1>5 DEF FoundInv
  <2>4. f[1] > g[1] \/ (f[1] = g[1] /\ f[2] < g[2])
    BY <1>6 DEF Before
  <2>5. f[1] \notin zones
    <3>1. \A i \in zones : i < g[1]
      BY <1>3 DEF FoundInv
    <3>. QED  BY <2>2, <2>4, <3>1
  <2>6. f[1] = zone => Behind(tree, Open, f[2])
    <3>1. SUFFICES ASSUME f[1] = zone, Open # <<>> PROVE Up(tree, Len(Open) - 1, f[2]) < Open[Len(Open)].next
      BY DEF Behind
    <3>2. zone <= g[1]
      BY <1>3, <3>1 DEF FoundInv
    <3>3. g[1] = zone /\ f[2] < g[2]
      BY <2>2, <2>4, <3>1, <3>2
    <3>4. Up(tree, Len(Open) - 1, g[2]) < Open[Len(Open)].next
      BY <2>3, <3>1, <3>3 DEF Passed, Behind
    <3> DEFINE n == Len(Open)
               l == n - 1
               open == Open
    <3>5. n \in 1..Len(open) /\ Nested(tree, open, pos)
      BY <1>3, <3>1, OpenIs DEF PlaceInv
    <3> HIDE DEF n, open
    <3>6. open[n].next \in Nat /\ l \in 0..Depth(tree)
      BY <1>2, <3>5, SliceIs
    <3> HIDE DEF l
    <3>7. f[2] \in 0..(Len(tree.leaves) - 1) /\ g[2] \in 0..(Len(tree.leaves) - 1) /\ f[2] <= g[2]
      BY <1>1, <2>1, <3>1, <3>3
    <3>8. Up(tree, l, f[2]) \in Nat /\ Up(tree, l, g[2]) \in Nat /\ Up(tree, l, f[2]) <= Up(tree, l, g[2])
      BY <1>2, <3>6, <3>7, UpAscends
    <3>9. Up(tree, l, g[2]) < open[n].next
      BY <3>4 DEF l, n, open
    <3>10. Up(tree, l, f[2]) < open[n].next
      BY <3>6, <3>8, <3>9
    <3>. QED  BY <3>10 DEF l, n, open
  <2>7. Passed(f)
    BY <2>3, <2>5, <2>6 DEF Passed
  <2>. QED  BY <1>3, <2>7 DEF FoundInv
<1>7. ASSUME status = "done"
      PROVE  IF request.kind = "query" THEN Range(found) = Wanted
             ELSE Len(found) = IF Wanted = {} THEN 0 ELSE 1
  <2>1. ASSUME zones = {}, Open = <<>>
        PROVE  Range(found) = Wanted
    <3>1. \A f \in Wanted : Passed(f)
      BY <1>7, <2>1 DEF Passed, Behind
    <3>. QED  BY <1>3, <1>5, <3>1 DEF FoundInv
  <2>2. CASE request.kind = "query"
    <3>1. zones = {} /\ Open = <<>>
      BY <1>3, <1>7, <2>2 DEF ZonesInv, FoundInv
    <3>. QED  BY <2>1, <2>2, <3>1
  <2>3. CASE request.kind = "value_at"
    <3>1. Len(found) <= 1 /\ (found = <<>> => zones = {} /\ Open = <<>>)
      BY <1>3, <1>7, <2>3 DEF FoundInv
    <3>2. CASE found = <<>>
      <4>1. Range(found) = Wanted
        BY <2>1, <3>1, <3>2
      <4>2. Wanted = {}
        BY <3>2, <4>1 DEF Range
      <4>. QED  BY <2>3, <3>2, <4>2
    <3>3. CASE found # <<>>
      <4>1. Len(found) = 1
        <5>1. found \in Seq(Wanted)
          BY <1>5
        <5>2. Len(found) \in Nat /\ Len(found) # 0
          BY <3>3, <5>1
        <5>3. Len(found) <= 1
          BY <3>1
        <5> DEFINE m == Len(found)
        <5>4. m \in Nat /\ m # 0 /\ m <= 1
          BY <5>2, <5>3, Zenon
        <5> HIDE DEF m
        <5>5. m = 1
          BY <5>4
        <5>. QED  BY <5>5 DEF m
      <4>2. 1 \in DOMAIN found
        BY <1>5, <4>1
      <4>3. found[1] \in Wanted
        BY <1>5, <4>2
      <4>. QED  BY <2>3, <4>1, <4>3
    <3>. QED  BY <3>2, <3>3
  <2>. QED  BY <2>2, <2>3 DEF IsQuery
<1>. QED  BY <1>4, <1>5, <1>6, <1>7 DEF QueryIsExact

\* Finitely many numbers have a bound.
LEMMA Bounded ==
  ASSUME NEW n \in Nat, NEW f \in [1..n -> Nat]
  PROVE  \E b \in Nat : \A i \in 1..n : f[i] <= b
<1> DEFINE BoundedUpTo(m) == \E b \in Nat : \A i \in 1..n : i <= m => f[i] <= b
           T == {m \in Nat : BoundedUpTo(m)}
<1>1. 0 \in T
  OBVIOUS
<1>2. ASSUME NEW m \in Nat, m \in T
      PROVE  m + 1 \in T
  <2>1. PICK b \in Nat : \A i \in 1..n : i <= m => f[i] <= b
    BY <1>2
  <2>2. CASE m + 1 \in 1..n
    <3> DEFINE c == b + f[m + 1]
    <3>1. c \in Nat /\ b <= c /\ f[m + 1] <= c
      BY <2>2
    <3> HIDE DEF c
    <3>2. ASSUME NEW i \in 1..n, i <= m + 1
          PROVE  f[i] <= c
      <4>1. CASE i = m + 1
        BY <3>1, <4>1
      <4>2. CASE i # m + 1
        <5>1. i <= m /\ f[i] \in Nat
          BY <1>2, <3>2, <4>2
        <5>2. f[i] <= b
          BY <2>1, <5>1
        <5>. QED  BY <3>1, <5>1, <5>2
      <4>. QED  BY <4>1, <4>2
    <3>. QED  BY <3>1, <3>2
  <2>3. CASE m + 1 \notin 1..n
    <3>1. \A i \in 1..n : i <= m + 1 => i <= m
      <4>1. \A i \in 1..n : i # m + 1
        BY <2>3
      <4>. QED  BY <4>1
    <3>2. \A i \in 1..n : i <= m + 1 => f[i] <= b
      BY <2>1, <3>1
    <3>. QED  BY <3>2
  <2>. QED  BY <2>2, <2>3
<1> HIDE DEF T
<1>3. n \in T
  BY <1>1, <1>2, Induction
<1>. QED  BY <1>3 DEF T

\* No level has more items than there are leaves.
LEMMA LevelsNarrow ==
  ASSUME NEW t, Readable(t), NEW l \in 0..Depth(t)
  PROVE  Len(Items(t, l)) \in Nat /\ Len(Items(t, l)) <= Len(t.leaves)
<1> DEFINE m == Len(Items(t, l))
           n == Len(t.leaves)
<1>1. m \in Nat /\ n \in Nat /\ Depth(t) \in Nat /\ Items(t, Depth(t)) = t.leaves
  BY DEF Readable
<1>2. CASE l = Depth(t)
  BY <1>1, <1>2
<1>3. CASE l < Depth(t)
  <2>1. CASE m = 0
    BY <1>1, <2>1
  <2>2. CASE m > 0
    <3> DEFINE i == m - 1
    <3>1. i \in 0..(m - 1) /\ l \in 0..(Depth(t) - 1)
      BY <1>1, <1>3, <2>2
    <3>2. {k \in 0..(n - 1) : Up(t, l, k) = i} # {}
      <4> HIDE DEF i
      <4>. QED  BY <3>1 DEF Readable
    <3>3. PICK k \in 0..(n - 1) : Up(t, l, k) = i
      BY <3>2
    <3>4. Up(t, l, k) <= k
      BY <1>1, UpAscends
    <3>5. i <= k
      BY <3>3, <3>4
    <3> HIDE DEF m, n
    <3>. QED  BY <1>1, <3>3, <3>5 DEF m, n
  <2>. QED  BY <1>1, <2>1, <2>2
<1>. QED  BY <1>1, <1>2, <1>3

\* The places are those of the leaves and of the nodes, of every tree.
LEMMA PlacesAre ==
  ASSUME Asked
  PROVE  \E m \in Nat : /\ Place = 0..m
                        /\ \A i \in DOMAIN db.trees : \A l \in 0..Depth(db.trees[i]) :
                             Len(Items(db.trees[i], l)) <= m
<1> DEFINE n == Len(db.trees)
           lens == [i \in 1..n |-> Len(db.trees[i].leaves)]
           all == {Len(t.leaves) : t \in Range(db.trees)}
           m == Max(all)
<1>1. db \in Databases /\ n \in Nat /\ n > 0 /\ DOMAIN db.trees = 1..n
  BY TreesAre DEF Asked
<1>2. \A i \in 1..n : Readable(db.trees[i])
  BY <1>1, TreesAre
<1>3. \A i \in 1..n : Len(db.trees[i].leaves) \in Nat
  BY <1>2 DEF Readable
<1>4. lens \in [1..n -> Nat] /\ \A i \in 1..n : lens[i] = Len(db.trees[i].leaves)
  BY <1>3
<1>5. PICK b \in Nat : \A i \in 1..n : lens[i] <= b
  <2> HIDE DEF lens, n
  <2>. QED  BY <1>1, <1>4, Bounded
<1>6. /\ \A x \in all : \E i \in 1..n : x = lens[i]
      /\ \A i \in 1..n : lens[i] \in all
  BY <1>1, <1>4 DEF Range
<1> HIDE DEF lens, all
<1>7. all \subseteq 0..b /\ all # {}
  <2>1. \A x \in all : x \in 0..b
    BY <1>4, <1>5, <1>6
  <2>2. 1 \in 1..n
    BY <1>1
  <2>. QED  BY <1>6, <2>1, <2>2
<1>8. m \in all /\ \A x \in all : x <= m
  BY <1>7, MaxIs
<1>9. m \in Nat /\ Place = 0..m
  BY <1>7, <1>8 DEF Place, all
<1> HIDE DEF m
<1>10. ASSUME NEW i \in DOMAIN db.trees, NEW l \in 0..Depth(db.trees[i])
       PROVE  Len(Items(db.trees[i], l)) <= m
  <2> DEFINE t == db.trees[i]
  <2>1. Readable(t) /\ lens[i] = Len(t.leaves) /\ lens[i] <= m /\ Len(t.leaves) \in Nat
    BY <1>1, <1>2, <1>3, <1>4, <1>6, <1>8
  <2> HIDE DEF t
  <2>2. l \in 0..Depth(t)
    BY DEF t
  <2>3. Len(Items(t, l)) \in Nat /\ Len(Items(t, l)) <= Len(t.leaves)
    BY <2>1, <2>2, LevelsNarrow
  <2>4. Len(Items(t, l)) <= m
    BY <1>9, <2>1, <2>3
  <2>. QED  BY <2>4 DEF t
<1>. QED  BY <1>9, <1>10

\* The state is well formed.
LEMMA StateIsTyped == ZonesInv /\ SearchInv /\ QueryInv => TypeOK
<1> SUFFICES ASSUME ZonesInv, SearchInv, QueryInv PROVE TypeOK
  OBVIOUS
<1>1. Asked /\ db \in Databases /\ zone \in DOMAIN db.trees /\ tree = db.trees[zone]
  BY DEF ZonesInv, Asked, tree
<1>2. Readable(tree) /\ \A t \in Range(db.trees) : NodesBoundTheirLeaves(t)
  BY <1>1, TreesAre DEF Range
<1>3. Depth(tree) \in Nat
  BY <1>2 DEF Readable
<1>4. PICK m \in Nat : Place = 0..m /\ \A i \in DOMAIN db.trees : \A l \in 0..Depth(db.trees[i]) :
                                          Len(Items(db.trees[i], l)) <= m
  BY <1>1, PlacesAre
<1>5. /\ IterTyped /\ Len(level_iters) <= Depth(tree) /\ Nested(tree, Open, pos)
      /\ answer \in Time \cup {None}
  <2>1. CASE IsQuery
    BY <2>1 DEF QueryInv, PlaceInv
  <2>2. CASE ~ IsQuery
    <3>1. level_iters = <<>> /\ leaf_iter = None /\ pos = 0 /\ AnswerInv
      BY <2>2 DEF SearchInv
    <3>2. IterTyped
      BY <3>1 DEF IterTyped
    <3>3. Open = <<>>
      BY <3>1, <3>2, OpenIs
    <3>4. Nested(tree, <<>>, 0)
      BY <1>3 DEF Nested
    <3>. QED  BY <1>3, <3>1, <3>2, <3>3, <3>4 DEF AnswerInv
  <2>. QED  BY <2>1, <2>2
<1>6. heap \subseteq [level : 0..Depth(tree), idx : Place, key : Nat]
  <2> SUFFICES ASSUME NEW item \in heap PROVE item \in [level : 0..Depth(tree), idx : Place, key : Nat]
    OBVIOUS
  <2>1. ~ IsQuery /\ HeapInv(tree, heap)
    BY DEF SearchInv, QueryInv
  <2>2. HeapItem(tree, item)
    BY <2>1 DEF HeapInv
  <2> DEFINE l == item.level
             i == item.idx
             n == Len(tree.leaves)
  <2>3. /\ l \in 0..Depth(tree) /\ i \in 0..(Len(Items(tree, l)) - 1)
        /\ item = [level |-> l, idx |-> i, key |-> item.key]
    BY <2>2 DEF HeapItem
  <2> HIDE DEF l, i
  <2>4. i \in Place
    <3>1. Len(Items(tree, l)) \in Nat /\ Len(Items(tree, l)) <= m
      BY <1>1, <1>2, <1>4, <2>3, LevelsNarrow
    <3>. QED  BY <1>4, <2>3, <3>1
  <2>5. \E k \in 0..(n - 1) : Up(tree, l, k) = i
    <3>1. CASE l = Depth(tree)
      <4>1. i \in 0..(n - 1)
        BY <1>2, <2>3, <3>1 DEF Readable
      <4>2. Up(tree, l, i) = i
        BY <1>2, <3>1, <4>1 DEF Readable
      <4>. QED  BY <4>1, <4>2
    <3>2. CASE l \in 0..(Depth(tree) - 1)
      <4>1. {k \in 0..(n - 1) : Up(tree, l, k) = i} # {}
        BY <1>2, <2>3, <3>2 DEF Readable
      <4>. QED  BY <4>1
    <3>. QED  BY <1>3, <2>3, <3>1, <3>2
  <2>6. PICK k \in 0..(n - 1) : Up(tree, l, k) = i
    BY <2>5
  <2>7. item.key \in Nat
    <3>1. IsUnder(tree, item, k)
      BY <2>6 DEF IsUnder, l, i
    <3>. QED  BY <1>1, <2>1, <2>2, <3>1, NoNearer
  <2>. QED  BY <2>3, <2>4, <2>7
<1>7. IteratorsNest /\ pos = IF Open = <<>> THEN 0 ELSE Last(Open).start
  <2> DEFINE open == Open
  <2>1. Nested(tree, open, pos)
    BY <1>5
  <2> HIDE DEF open
  <2>2. ASSUME NEW i \in 1..Len(open)
        PROVE  /\ open[i] \in IterType
               /\ open[i].start <= open[i].next /\ open[i].next <= open[i].end
    <3>1. /\ open[i] \in Iters
          /\ open[i].start \in Nat /\ open[i].end \in Nat /\ open[i].next \in Nat
          /\ i - 1 \in 0..Depth(tree) /\ Len(Items(tree, i - 1)) \in Nat
          /\ open[i].start <= open[i].next /\ open[i].next <= open[i].end
          /\ open[i].end <= Len(Items(tree, i - 1))
      BY <1>2, <2>1, SliceIs
    <3>2. Len(Items(tree, i - 1)) <= m
      BY <1>1, <1>4, <3>1
    <3>3. open[i].start \in Place /\ open[i].end \in Place /\ open[i].next \in Place
      <4> DEFINE o == open[i]
                 size == Len(Items(tree, i - 1))
      <4>1. /\ o.start \in Nat /\ o.end \in Nat /\ o.next \in Nat /\ size \in Nat
            /\ o.start <= o.next /\ o.next <= o.end /\ o.end <= size /\ size <= m
        BY <3>1, <3>2
      <4> HIDE DEF o, size
      <4>2. o.start \in Place /\ o.end \in Place /\ o.next \in Place
        BY <1>4, <4>1
      <4>. QED  BY <4>2 DEF o
    <3>. QED  BY <3>1, <3>3 DEF Iters, IterType
  <2>3. \A i \in 1..Len(open) : OpenAt(tree, open, i) /\ open \in Seq(Iters)
    BY <2>1 DEF Nested
  <2>4. Range(open) \subseteq IterType
    <3>1. open \in Seq(Iters)
      BY <2>1 DEF Nested
    <3>2. DOMAIN open = 1..Len(open)
      BY <3>1
    <3>. QED  BY <2>2, <3>2 DEF Range
  <2>5. \A i \in 1..Len(open) : /\ i = 1 => open[i].start = 0
                                /\ i > 1 => open[i].start = Shl(open[i - 1].next - 1)
    BY <2>3 DEF OpenAt, Shl, GroupSize
  <2>6. IteratorsNest
    BY <2>2, <2>4, <2>5 DEF IteratorsNest, open
  <2>7. pos = IF open = <<>> THEN 0 ELSE Last(open).start
    BY <2>1 DEF Nested, Last
  <2>. QED  BY <2>6, <2>7 DEF open
<1>8. status \in {"new", "zones", "running", "done"}
  BY DEF ZonesInv
<1>. QED  BY <1>1, <1>2, <1>5, <1>6, <1>7, <1>8 DEF TypeOK

\* Of a singleton there is one to choose.
LEMMA ChosenOne ==
  ASSUME NEW x
  PROVE  (CHOOSE y \in {x} : TRUE) = x
OBVIOUS

\* What leaf_at looks for: the one leaf that holds at the time, or none.
LEMMA SnapshotAsks ==
  ASSUME ZonesInv, QueryInv, status = "done", request.kind = "value_at"
  PROVE  LET now == request.range[1]
             leaves == tree.leaves
         IN  /\ db \in Databases /\ tree = db.trees[1] /\ db.of = "register" /\ Readable(tree)
             /\ now \in Nat /\ now <= tree.bbox.time_max
             /\ found = <<>> => HoldingAt(tree, now) = {}
             /\ found # <<>> =>
                  \E k \in HoldingAt(tree, now) : FoundLeaves = {leaves[k]}
             /\ found = <<>> => FoundLeaves = {}
<1> DEFINE now == request.range[1]
<1>1. Asked /\ db \in Databases /\ zone \in DOMAIN db.trees /\ tree = db.trees[zone] /\ IsQuery
  BY DEF ZonesInv, Asked, tree, IsQuery
<1>2. /\ request.keys = Key /\ now \in Time /\ request.range[2] = now /\ now <= LastTime(db)
      /\ db.of = "register"
  BY <1>1, QueryAsks
<1>3. zone = 1 /\ DOMAIN db.trees = {1} /\ tree = db.trees[1] /\ Readable(tree)
  <2>1. DOMAIN db.trees = 1..1
    BY <1>1, <1>2, TreesAre
  <2>2. zone = 1 /\ DOMAIN db.trees = {1}
    BY <1>1, <2>1
  <2>. QED  BY <1>1, <2>2, TreesAre
<1>4. LastTime(db) = tree.bbox.time_max
  BY <1>1, <1>2, <1>3, LastTimeIs
<1>5. now \in Nat
  BY <1>2, RTreeAssumption
<1>6. tree.leaves \in Seq(Node) /\ Len(tree.leaves) \in Nat /\ DOMAIN tree.leaves = 1..Len(tree.leaves)
  BY <1>3 DEF Readable
<1>7. ASSUME NEW k \in 0..(Len(tree.leaves) - 1)
      PROVE  FilterNode(tree.leaves[k + 1]) <=> Holds(TimeRange(tree.leaves[k + 1]), now)
  <2> DEFINE leaf == tree.leaves[k + 1]
  <2>1. leaf \in Node /\ leaf.key_min <= leaf.key_max
    BY <1>1, <1>3, NodesHoldLeaves, TreesAre
  <2> HIDE DEF leaf
  <2>2. /\ leaf.time_min \in Nat /\ leaf.time_max \in Nat /\ leaf.key_min \in Nat
        /\ leaf.key_min \in Key
    BY <2>1, NodeFields
  <2>3. Matches(request.keys, leaf)
    <3>1. Holds(KeyRange(leaf), leaf.key_min)
      BY <2>1, <2>2 DEF Holds, KeyRange
    <3>. QED  BY <1>2, <2>2, <3>1 DEF Matches
  <2>4. Disjoint(request.range, TimeRange(leaf)) <=> now < leaf.time_min \/ now > leaf.time_max
    BY <1>2 DEF Disjoint, TimeRange
  <2>5. Holds(TimeRange(leaf), now) <=> leaf.time_min <= now /\ now <= leaf.time_max
    BY DEF Holds, TimeRange
  <2> HIDE DEF now
  <2>6. FilterNode(leaf) <=> Holds(TimeRange(leaf), now)
    BY <1>5, <2>2, <2>3, <2>4, <2>5 DEF FilterNode
  <2>. QED  BY <2>6 DEF leaf
<1> HIDE DEF now
<1>8. \A f : f \in Wanted <=> f = <<f[1], f[2]>> /\ f[1] = 1 /\ f[2] \in 0..(Len(tree.leaves) - 1)
                              /\ f[2] + 1 \in HoldingAt(tree, now)
  <2> SUFFICES ASSUME NEW f
               PROVE  f \in Wanted <=> f = <<f[1], f[2]>> /\ f[1] = 1 /\ f[2] \in 0..(Len(tree.leaves) - 1)
                                       /\ f[2] + 1 \in HoldingAt(tree, now)
    OBVIOUS
  <2>1. f \in Wanted <=> /\ f = <<f[1], f[2]>> /\ f[1] \in DOMAIN db.trees
                         /\ f[2] \in 0..(Len(db.trees[f[1]].leaves) - 1)
                         /\ FilterNode(db.trees[f[1]].leaves[f[2] + 1])
    BY <1>1, WantedIs
  <2>2. f \in Wanted <=> /\ f = <<f[1], f[2]>> /\ f[1] = 1 /\ f[2] \in 0..(Len(tree.leaves) - 1)
                         /\ FilterNode(tree.leaves[f[2] + 1])
    BY <1>3, <2>1
  <2>3. f[2] \in 0..(Len(tree.leaves) - 1) =>
          (FilterNode(tree.leaves[f[2] + 1]) <=> f[2] + 1 \in HoldingAt(tree, now))
    <3> HAVE f[2] \in 0..(Len(tree.leaves) - 1)
    <3>1. FilterNode(tree.leaves[f[2] + 1]) <=> Holds(TimeRange(tree.leaves[f[2] + 1]), now)
      BY <1>7
    <3>2. f[2] + 1 \in DOMAIN tree.leaves
      BY <1>6
    <3>. QED  BY <3>1, <3>2 DEF HoldingAt
  <2>. QED  BY <2>2, <2>3
<1>9. found \in Seq(Wanted) /\ Len(found) = IF Wanted = {} THEN 0 ELSE 1
  <2>1. found \in Seq(Wanted)
    BY <1>1 DEF QueryInv, FoundInv
  <2>2. QueryIsExact /\ request.kind # "query"
    BY FoundIsExact
  <2>3. Len(found) = IF Wanted = {} THEN 0 ELSE 1
    BY <1>1, <2>2, Zenon DEF QueryIsExact
  <2>. QED  BY <2>1, <2>3
<1>10. CASE found = <<>>
  <2>1. Wanted = {}
    <3>1. Len(found) = 0
      BY <1>10
    <3>. QED  BY <1>9, <3>1
  <2>2. HoldingAt(tree, now) = {}
    <3> SUFFICES ASSUME NEW k \in HoldingAt(tree, now) PROVE FALSE
      OBVIOUS
    <3> DEFINE j == k - 1
               f == <<1, j>>
    <3>1. k \in DOMAIN tree.leaves
      BY DEF HoldingAt
    <3>2. j \in 0..(Len(tree.leaves) - 1) /\ j + 1 = k
      BY <1>6, <3>1
    <3> HIDE DEF j
    <3>3. f[1] = 1 /\ f[2] = j /\ f = <<f[1], f[2]>>
      OBVIOUS
    <3> HIDE DEF f
    <3>4. f \in Wanted
      BY <1>8, <3>2, <3>3
    <3>. QED  BY <2>1, <3>4
  <2>3. FoundLeaves = {}
    BY <1>10 DEF FoundLeaves, Range
  <2>. QED  BY <1>1, <1>2, <1>3, <1>4, <1>5, <1>10, <2>2, <2>3 DEF now
<1>11. CASE found # <<>>
  <2> DEFINE f == found[1]
             k == f[2] + 1
  <2>1. Len(found) = 1 /\ DOMAIN found = {1}
    <3>4. found \in Seq(Wanted)
      BY <1>9
    <3>1. Len(found) # 0 /\ DOMAIN found = 1..Len(found)
      BY <1>11, <3>4
    <3>2. Len(found) = 1
      BY <1>9, <3>1
    <3>3. 1..1 = {1}
      OBVIOUS
    <3>. QED  BY <3>1, <3>2, <3>3
  <2>2. f \in Wanted
    BY <1>9, <2>1
  <2>3. k \in HoldingAt(tree, now) /\ f[1] = 1
    <3> HIDE DEF f
    <3>. QED  BY <1>8, <2>2
  <2>4. Range(found) = {f}
    BY <2>1 DEF Range
  <2>5. FoundLeaves = {tree.leaves[k]}
    <3>1. FoundLeaves = {db.trees[f[1]].leaves[k]}
      <4> HIDE DEF f
      <4>. QED  BY <2>4 DEF FoundLeaves
    <3>. QED  BY <1>3, <2>3, <3>1
  <2> HIDE DEF k
  <2>. QED  BY <1>1, <1>2, <1>3, <1>4, <1>5, <1>11, <2>3, <2>5 DEF now
<1>. QED  BY <1>10, <1>11

\* A user who follows a register steps to where it changes.
LEMMA SnapshotIsExact == ZonesInv /\ QueryInv => SnapshotFindsTheChanges
<1> SUFFICES ASSUME ZonesInv, QueryInv, status = "done", request.kind = "value_at"
             PROVE  SnapshotFindsTheChanges
  BY DEF SnapshotFindsTheChanges
<1> DEFINE now == request.range[1]
           leaves == tree.leaves
           first == tree.bbox.time_min
           last == tree.bbox.time_max
           At(t) == HoldingAt(tree, t)
           later == {t \in (now + 1)..last : At(t) # At(now)}
           earlier == {t \in 0..(now - 1) : At(t) # At(now)}
<1>1. /\ db \in Databases /\ tree = db.trees[1] /\ db.of = "register" /\ Readable(tree)
      /\ now \in Nat /\ now <= last
      /\ found = <<>> => At(now) = {}
      /\ found # <<>> => \E k \in At(now) : FoundLeaves = {leaves[k]}
      /\ found = <<>> => FoundLeaves = {}
  BY SnapshotAsks
<1>2. \A t \in first..last : \E k \in DOMAIN leaves : At(t) = {k}
  BY <1>1, DatabasesAssumption
<1>3. first \in Nat /\ last \in Nat /\ last \in Time /\ first \in Time
  <2>1. tree.bbox \in Node
    BY <1>1 DEF Readable, IsBbox
  <2>. QED  BY <2>1, NodeFields
<1>4. leaves \in Seq(Node) /\ DOMAIN leaves = 1..Len(leaves) /\ Len(leaves) \in Nat /\ Len(leaves) > 0
  BY <1>1 DEF Readable
<1>5. ASSUME NEW k \in DOMAIN leaves
      PROVE  /\ leaves[k].time_min \in Nat /\ leaves[k].time_max \in Nat
             /\ leaves[k].time_min <= leaves[k].time_max
             /\ first <= leaves[k].time_min /\ leaves[k].time_max <= last
             /\ \A t : k \in At(t) <=> leaves[k].time_min <= t /\ t <= leaves[k].time_max
  <2> DEFINE j == k - 1
  <2>1. j \in 0..(Len(leaves) - 1) /\ j + 1 = k
    BY <1>4
  <2> HIDE DEF j
  <2>2. /\ leaves[j + 1] \in Node /\ Around(tree.bbox, leaves[j + 1])
    BY <1>1, <2>1, NodesHoldLeaves
  <2>3. leaves[j + 1].time_min <= leaves[j + 1].time_max
    <3>1. 1 \in DOMAIN db.trees
      BY <1>1, TreesAre
    <3>. QED  BY <1>1, <2>1, <3>1, TreesAre
  <2>4. leaves[k].time_min \in Nat /\ leaves[k].time_max \in Nat
    BY <2>1, <2>2, NodeFields
  <2>5. \A t : k \in At(t) <=> leaves[k].time_min <= t /\ t <= leaves[k].time_max
    BY DEF HoldingAt, Holds, TimeRange
  <2>6. /\ leaves[k].time_min <= leaves[k].time_max
        /\ first <= leaves[k].time_min /\ leaves[k].time_max <= last
    BY <2>1, <2>2, <2>3 DEF Around
  <2>. QED  BY <2>4, <2>5, <2>6
<1>6. \A t : At(t) \subseteq DOMAIN leaves
  BY DEF HoldingAt
<1>7. SnapshotFindsTheChanges <=> /\ NextTime = IF later = {} THEN None ELSE Min(later)
                                  /\ PrevTime = IF earlier = {} THEN None ELSE Max(earlier)
  BY DEF SnapshotFindsTheChanges
<1>8. /\ \A t : t \in later <=> t \in (now + 1)..last /\ At(t) # At(now)
      /\ \A t : t \in earlier <=> t \in 0..(now - 1) /\ At(t) # At(now)
      /\ later \in SUBSET Nat /\ earlier \in SUBSET Nat
  <2>1. (now + 1)..last \subseteq Nat /\ 0..(now - 1) \subseteq Nat
    BY <1>1
  <2> HIDE DEF now, last, At
  <2>. QED  BY <2>1
<1> HIDE DEF later, earlier, now, leaves, last, first, At
<1>9. CASE found = <<>>
  <2>1. At(now) = {} /\ FoundLeaves = {}
    BY <1>1, <1>9
  <2>2. now < first
    <3>1. now \notin first..last
      BY <1>2, <2>1
    <3>. QED  BY <1>1, <1>3, <3>1
  <2>3. \A t \in Nat : t < first => At(t) = {}
    <3> SUFFICES ASSUME NEW t \in Nat, t < first, NEW k \in At(t) PROVE FALSE
      OBVIOUS
    <3>1. k \in DOMAIN leaves
      BY <1>6
    <3> DEFINE a == leaves[k].time_min
    <3>2. a \in Nat /\ first <= a /\ a <= t
      BY <1>5, <3>1
    <3> HIDE DEF a
    <3>. QED  BY <1>3, <3>2
  <2>4. first <= last
    <3>1. 1 \in DOMAIN leaves
      BY <1>4
    <3> DEFINE a == leaves[1].time_min
               b == leaves[1].time_max
    <3>2. a \in Nat /\ b \in Nat /\ first <= a /\ a <= b /\ b <= last
      BY <1>5, <3>1
    <3> HIDE DEF a, b
    <3>. QED  BY <1>3, <3>2
  <2>5. NextTime = first
    BY <1>9 DEF NextTime, first
  <2>6. PrevTime = None
    BY <2>1 DEF PrevTime
  <2>7. first \in later /\ \A t \in later : first <= t
    <3>1. first \in (now + 1)..last /\ first \in first..last
      BY <1>1, <1>3, <2>2, <2>4
    <3>2. At(first) # {}
      BY <1>2, <3>1
    <3>3. \A t \in later : first <= t
      <4> SUFFICES ASSUME NEW t \in later, t < first PROVE FALSE
        <5>1. \A t \in later : t \in Nat
          BY <1>8
        <5>. QED  BY <1>3, <5>1
      <4>1. t \in Nat /\ At(t) # At(now)
        BY <1>8
      <4>. QED  BY <2>1, <2>3, <4>1
    <3>. QED  BY <1>8, <2>1, <3>1, <3>2, <3>3
  <2>8. Min(later) = first
    BY <1>8, <2>7, Extremes
  <2>9. earlier = {}
    <3> SUFFICES ASSUME NEW t \in earlier PROVE FALSE
      OBVIOUS
    <3>1. t \in 0..(now - 1) /\ At(t) # At(now)
      BY <1>8
    <3>2. t \in Nat /\ t < first
      BY <1>1, <1>3, <2>2, <3>1
    <3>. QED  BY <2>1, <2>3, <3>1, <3>2
  <2>. QED  BY <1>7, <2>5, <2>6, <2>7, <2>8, <2>9
<1>10. CASE found # <<>>
  <2>1. PICK k \in At(now) : FoundLeaves = {leaves[k]}
    BY <1>1, <1>10
  <2> DEFINE a == leaves[k].time_min
             b == leaves[k].time_max
  <2>2. /\ k \in DOMAIN leaves /\ a \in Nat /\ b \in Nat /\ first <= a /\ b <= last
        /\ a <= now /\ now <= b
        /\ \A t : k \in At(t) <=> a <= t /\ t <= b
    BY <1>5, <1>6
  <2> HIDE DEF a, b
  <2>3. \A t \in a..b : At(t) = {k}
    <3> SUFFICES ASSUME NEW t \in a..b PROVE At(t) = {k}
      OBVIOUS
    <3>1. t \in first..last
      BY <1>3, <2>2
    <3>2. k \in At(t)
      BY <2>2
    <3>. QED  BY <1>2, <3>1, <3>2
  <2>4. At(now) = {k}
    BY <1>1, <2>2, <2>3
  <2>5. \A t \in Nat : At(t) # At(now) => t < a \/ t > b
    BY <2>2, <2>3, <2>4
  <2>6. NextTime = IF b < last THEN b + 1 ELSE None
    <3> DEFINE after == {leaf \in FoundLeaves : leaf.time_max < tree.bbox.time_max}
    <3>1. NextTime = IF after = {} THEN None ELSE (CHOOSE leaf \in after : TRUE).time_max + 1
      BY <1>10 DEF NextTime
    <3>2. CASE b < last
      <4>1. after = {leaves[k]}
        BY <2>1, <3>2 DEF b, last
      <4> HIDE DEF after
      <4>2. (CHOOSE leaf \in after : TRUE) = leaves[k]
        BY <4>1, ChosenOne
      <4>3. (CHOOSE leaf \in after : TRUE).time_max = b
        BY <4>2 DEF b
      <4>. QED  BY <3>1, <3>2, <4>1, <4>3
    <3>3. CASE ~ (b < last)
      <4>1. after = {}
        BY <2>1, <3>3 DEF b, last
      <4> HIDE DEF after
      <4>. QED  BY <3>1, <3>3, <4>1
    <3>. QED  BY <3>2, <3>3
  <2>7. PrevTime = IF a > 0 THEN a - 1 ELSE None
    <3> DEFINE before == {leaf \in FoundLeaves : leaf.time_min > 0}
    <3>1. PrevTime = IF before = {} THEN None ELSE (CHOOSE leaf \in before : TRUE).time_min - 1
      BY DEF PrevTime
    <3>2. CASE a > 0
      <4>1. before = {leaves[k]}
        BY <2>1, <3>2 DEF a
      <4> HIDE DEF before
      <4>2. (CHOOSE leaf \in before : TRUE) = leaves[k]
        BY <4>1, ChosenOne
      <4>3. (CHOOSE leaf \in before : TRUE).time_min = a
        BY <4>2 DEF a
      <4>. QED  BY <3>1, <3>2, <4>1, <4>3
    <3>3. CASE ~ (a > 0)
      <4>1. before = {}
        BY <2>1, <3>3 DEF a
      <4> HIDE DEF before
      <4>. QED  BY <3>1, <3>3, <4>1
    <3>. QED  BY <3>2, <3>3
  <2>8. NextTime = IF later = {} THEN None ELSE Min(later)
    <3>1. \A t \in later : t \in Nat /\ t > b /\ t <= last
      <4> SUFFICES ASSUME NEW t \in later PROVE t \in Nat /\ t > b /\ t <= last
        OBVIOUS
      <4>1. t \in (now + 1)..last /\ At(t) # At(now)
        BY <1>8
      <4>2. t \in Nat /\ now < t /\ t <= last
        BY <1>1, <1>3, <4>1
      <4>. QED  BY <1>1, <2>2, <2>5, <4>1, <4>2
    <3>2. CASE b < last
      <4> DEFINE n == b + 1
      <4>1. n \in Nat /\ n \in (now + 1)..last /\ n > b
        BY <1>1, <1>3, <2>2, <3>2
      <4> HIDE DEF n
      <4>2. k \notin At(n)
        BY <2>2, <4>1
      <4>3. n \in later
        BY <1>8, <2>4, <4>1, <4>2
      <4>4. \A t \in later : n <= t
        BY <2>2, <3>1 DEF n
      <4>5. Min(later) = n
        BY <1>8, <4>3, <4>4, Extremes
      <4>. QED  BY <2>6, <3>2, <4>3, <4>5 DEF n
    <3>3. CASE ~ (b < last)
      <4>1. later = {}
        BY <1>3, <2>2, <3>1, <3>3
      <4>. QED  BY <2>6, <3>3, <4>1
    <3>. QED  BY <3>2, <3>3
  <2>9. PrevTime = IF earlier = {} THEN None ELSE Max(earlier)
    <3>1. \A t \in earlier : t \in Nat /\ t < a
      <4> SUFFICES ASSUME NEW t \in earlier PROVE t \in Nat /\ t < a
        OBVIOUS
      <4>1. t \in 0..(now - 1) /\ At(t) # At(now)
        BY <1>8
      <4>2. t \in Nat /\ t < now
        BY <1>1, <4>1
      <4>. QED  BY <1>1, <2>2, <2>5, <4>1, <4>2
    <3>2. CASE a > 0
      <4> DEFINE n == a - 1
      <4>1. n \in Nat /\ n \in 0..(now - 1) /\ n < a
        BY <1>1, <2>2, <3>2
      <4> HIDE DEF n
      <4>2. k \notin At(n)
        BY <2>2, <4>1
      <4>3. n \in earlier
        BY <1>8, <2>4, <4>1, <4>2
      <4>4. \A t \in earlier : t <= n
        BY <2>2, <3>1 DEF n
      <4>5. Max(earlier) = n
        BY <1>8, <4>3, <4>4, Extremes
      <4>. QED  BY <2>7, <3>2, <4>3, <4>5 DEF n
    <3>3. CASE ~ (a > 0)
      <4>1. earlier = {}
        BY <2>2, <3>1, <3>3
      <4>. QED  BY <2>7, <3>3, <4>1
    <3>. QED  BY <3>2, <3>3
  <2>. QED  BY <1>7, <2>8, <2>9
<1>. QED  BY <1>9, <1>10

-----------------------------------------------------------------------------
(* The theorems *)

\* The inductive invariant: what is asked and which trees are left; of a search,
\* its heap and its answer; of a query, its iterators and what it found.
IInv == ZonesInv /\ SearchInv /\ QueryInv

\* Every step keeps the invariant.
LEMMA Invariance == Spec => []IInv
<1>1. Init => IInv
  BY ZonesInitInv, SearchInitInv, QueryInitInv DEF IInv
<1>2. IInv /\ [Next]_vars => IInv'
  BY ZonesKeepInv, SearchKeepsInv, QueryKeepsInv DEF IInv
<1>. QED  BY <1>1, <1>2, PTL DEF Spec

\* The state is well formed: in particular the iterators of a query nest, and its
\* place is 0 when none is open, as the assertion of QueryIter::next says
\* (crates/db/src/query.rs:94).
THEOREM ReaderTypeCorrectness == Spec => []TypeOK
<1>1. IInv => TypeOK
  BY StateIsTyped DEF IInv
<1>. QED  BY <1>1, Invariance, PTL

\* A query returns what matches, each leaf once and in order, whatever the trees
\* (QueryIter of crates/db/src/query.rs, MultiQueryIter of crates/db/src/db.rs).
THEOREM QueriesAreExact == Spec => []QueryIsExact
<1>1. IInv => QueryIsExact
  BY FoundIsExact DEF IInv
<1>. QED  BY <1>1, Invariance, PTL

\* The heap of a search has everything that matches under it, at no more than its
\* distance (crates/db/src/nearest_neighbor.rs).
THEOREM HeapCoversWhatMatches == Spec => []HeapCoversMatches
<1>1. IInv => HeapCoversMatches
  BY HeapCovers DEF IInv
<1>. QED  BY <1>1, Invariance, PTL

\* A search returns the nearest time, of a register and of all zones of memory
\* (crates/db/src/nearest_neighbor.rs, crates/db/src/memory.rs).
THEOREM SearchesFindTheNearest == Spec => []NearestIsNearest
<1>1. IInv => NearestIsNearest
  BY AnswerIsNearest DEF IInv
<1>. QED  BY <1>1, Invariance, PTL

\* The steps that the snapshot of a register offers are to its changes
\* (crates/python-bindings/src/registers.rs).
THEOREM SnapshotsFindTheChanges == Spec => []SnapshotFindsTheChanges
<1>1. IInv => SnapshotFindsTheChanges
  BY SnapshotIsExact DEF IInv
<1>. QED  BY <1>1, Invariance, PTL
=============================================================================

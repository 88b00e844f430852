------------------------------- MODULE Fetch --------------------------------
(***************************************************************************)
(* Db::fetch_at (crates/db/src/db.rs): the bytes of an address range at a  *)
(* time, put together from the leaves of every zone that intersect it, in  *)
(* the order the zones and their trees happen to give them.                *)
(***************************************************************************)
EXTENDS MemLeaves, FiniteSets, FiniteSetsExt, SequencesExt

CONSTANTS Databases,  \* bound: the databases read, sequences of zones
          LastAddr,   \* bound: the last address asked about
          LastTime,   \* bound: the last time asked about
          TimeMax,    \* Time::MAX
          Default     \* a byte that was not filled

ASSUME FetchAssumption ==
  /\ LastAddr \in Nat /\ LastTime \in Nat /\ TimeMax \in Nat /\ LastTime <= TimeMax

\* What the passes over a trace leave in a database: leaves that have bytes and
\* a life, no two of which cover the same byte at the same time.
ASSUME DatabasesAssumption ==
  \A d \in Databases :
    /\ d \in Seq(SUBSET UNION Range(d))
    /\ \A l \in UNION Range(d) :
         /\ l.addr_min \in Nat
         /\ l.bytes \in Seq(Range(l.bytes)) /\ l.bytes # <<>> /\ Default \notin Range(l.bytes)
         /\ l.time_min \in 0..TimeMax /\ l.time_max \in 0..TimeMax /\ l.time_min <= l.time_max
    /\ \A i, j \in DOMAIN d : \A l \in d[i], m \in d[j] :
         \/ i = j /\ l = m
         \/ Addrs(l) \cap Addrs(m) = {}
         \/ l.time_max < m.time_min \/ m.time_max < l.time_min

VARIABLES db,          \* the write zones, each a set of leaves
          query,       \* what is asked: the address range and the time
          zones,       \* MultiQueryIter: the leaves the zones have yet to give
          array, time_start, time_end, fill_count,
          phase        \* "new", "filling", "done"

vars == <<db, query, zones, array, time_start, time_end, fill_count, phase>>

Leaves == UNION Range(db)
QueryRange == query.addr_min..query.addr_max
TotalSize == Cardinality(QueryRange)

Init ==
  /\ db \in Databases
  /\ query \in [addr_min : 0..LastAddr, addr_max : 0..LastAddr, time : 0..LastTime]
  /\ query.addr_min <= query.addr_max
  /\ zones = <<>>
  /\ array = <<>> /\ time_start = 0 /\ time_end = TimeMax /\ fill_count = 0
  /\ phase = "new"

\* MemIntersects on a leaf.
Intersects(leaf) ==
  /\ leaf.addr_min <= query.addr_max /\ query.addr_min <= AddrMax(leaf)
  /\ leaf.time_min <= query.time /\ query.time <= leaf.time_max

\* MemIntersects on the bounding box of a zone.
IntersectsBbox(zone) ==
  /\ \E l, m \in zone : l.addr_min <= query.addr_max /\ query.addr_min <= AddrMax(m)
  /\ \E l, m \in zone : l.time_min <= query.time /\ query.time <= m.time_max

\* MultiQueryIter::new: a query on every zone; one whose bounding box does not
\* intersect gives nothing.
NewFetch ==
  /\ phase = "new"
  /\ phase' = "filling"
  /\ array' = [i \in 1..TotalSize |-> Default]
  /\ zones' = [i \in DOMAIN db |->
                 IF IntersectsBbox(db[i]) THEN {l \in db[i] : Intersects(l)} ELSE {}]
  /\ UNCHANGED <<db, query, time_start, time_end, fill_count>>

\* A mutated CopySize that copies all of the leaf from the offset on.
CopyWhole(leaf, out_off, node_off) == Len(leaf.bytes) - node_off

\* The bytes a leaf gives: no more than the array has room for.
CopySize(leaf, out_off, node_off) == Min({TotalSize - out_off, Len(leaf.bytes) - node_off})

\* A mutated Narrow that only looks at when the bytes were written.
NarrowStart(leaf) ==
  /\ time_start' = Max({time_start, leaf.time_min})
  /\ UNCHANGED time_end

\* The times for which the answer holds.
Narrow(leaf) ==
  /\ time_start' = Max({time_start, leaf.time_min})
  /\ time_end' = Min({time_end, leaf.time_max})

\* A mutated Offsets that copies from the start of the leaf.
OffsetsFromStart(leaf) ==
  [out |-> Max({0, leaf.addr_min - query.addr_min}), node |-> 0]

\* Where the leaf goes in the array, and where the array starts in the leaf.
Offsets(leaf) ==
  [out |-> Max({0, leaf.addr_min - query.addr_min}), node |-> Max({0, query.addr_min - leaf.addr_min})]

\* The next leaf of the zone that is on top.
NextLeaf ==
  /\ phase = "filling" /\ zones # <<>>
  /\ \E leaf \in Last(zones) :
       LET off == Offsets(leaf)
           size == CopySize(leaf, off.out, off.node)
       IN  /\ array' = [i \in 1..Max({Len(array), off.out + size}) |->
                          IF i \in (off.out + 1)..(off.out + size)
                          THEN leaf.bytes[(i - off.out) + off.node] ELSE array[i]]
           /\ fill_count' = fill_count + size
           /\ Narrow(leaf)
           /\ zones' = [zones EXCEPT ![Len(zones)] = @ \ {leaf}]
  /\ UNCHANGED <<db, query, phase>>

EndOfZone ==
  /\ phase = "filling" /\ zones # <<>> /\ Last(zones) = {}
  /\ zones' = Front(zones)
  /\ UNCHANGED <<db, query, array, time_start, time_end, fill_count, phase>>

EndOfFetch ==
  /\ phase = "filling" /\ zones = <<>>
  /\ phase' = "done"
  /\ UNCHANGED <<db, query, zones, array, time_start, time_end, fill_count>>

Next == NewFetch \/ NextLeaf \/ EndOfZone \/ EndOfFetch

Spec == Init /\ [][Next]_vars

IsComplete == fill_count = TotalSize
ValidTimeRange == time_start..time_end

-----------------------------------------------------------------------------
(* Properties *)

\* The state is well formed; no byte of the array is filled twice, so that
\* debug_assert!(fill_count <= total_size) holds (db.rs:186).
TypeOK ==
  /\ phase \in {"new", "filling", "done"}
  /\ phase # "new" => Len(array) = TotalSize
  /\ fill_count = Cardinality({i \in DOMAIN array : array[i] # Default})
  /\ time_start \in 0..TimeMax /\ time_end \in 0..TimeMax

\* The answer is what was in memory at that time, byte by byte, and complete
\* exactly when every byte was known, whatever zones and leaves it came from.
FetchIsWhatMemoryHeld ==
  phase = "done" =>
    /\ \A i \in 1..TotalSize :
         LET held == ByteAt(Leaves, (query.addr_min + i) - 1, query.time)
         IN  IF held = {} THEN array[i] = Default ELSE held = {array[i]}
    /\ IsComplete <=> \A a \in QueryRange : ByteAt(Leaves, a, query.time) # {}

\* A complete answer is good for the whole range of times it comes with: a
\* reader that keeps it for those times shows what was in memory.
CompleteAnswerStaysValid ==
  (phase = "done" /\ IsComplete) =>
    /\ query.time \in ValidTimeRange
    /\ \A t \in ValidTimeRange \cap (0..LastTime), i \in 1..TotalSize :
         ByteAt(Leaves, (query.addr_min + i) - 1, t) = {array[i]}

\* "This time range span between the previous and the next memory update
\* affecting the requested address range" (db.rs:440): no byte of the range
\* becomes known or changes inside it.
NoUpdateInsideTheRange ==
  phase = "done" =>
    \A t \in ValidTimeRange \cap (0..LastTime), a \in QueryRange :
      ByteAt(Leaves, a, t) = ByteAt(Leaves, a, query.time)
=============================================================================

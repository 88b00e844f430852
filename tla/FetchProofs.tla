---------------------------- MODULE FetchProofs -----------------------------
(***************************************************************************)
(* A fetch gives back what was in memory, whatever the zones, the leaves   *)
(* and the order in which they come, and says for how long it was there.   *)
(*                                                                         *)
(* At any moment of a fetch the array is what the leaves given so far say, *)
(* and the leaves still to come are in the stack of the zones: that is the *)
(* inductive invariant.  It needs the leaves of a database to be apart     *)
(* (DatabasesAssumption): then no byte is filled twice, which makes the    *)
(* count of the bytes filled the number of those that are known.           *)
(***************************************************************************)
EXTENDS Fetch, FiniteSetTheorems, TLAPS

\* The leaves a fetch should give, those it still has to give, and the others.
Hits == {l \in Leaves : Intersects(l)}
Pending == UNION {zones[i] : i \in DOMAIN zones}
Given == Hits \ Pending

\* The address of a place of the array, and the byte a leaf has for it.
Addr(i) == (query.addr_min + i) - 1
ByteOf(l, i) == l.bytes[(Addr(i) - l.addr_min) + 1]

\* The places that are filled.
FilledIn(arr) == {i \in DOMAIN arr : arr[i] # Default}

\* What is asked for.
QueryInv ==
  /\ db \in Databases
  /\ query \in [addr_min : 0..LastAddr, addr_max : 0..LastAddr, time : 0..LastTime]
  /\ query.addr_min <= query.addr_max

\* Every zone is to give leaves of the answer that no other zone gives.
ZonesInv ==
  /\ zones \in Seq(SUBSET Hits)
  /\ \A i, j \in DOMAIN zones : i # j => zones[i] \cap zones[j] = {}

\* The array holds the bytes of the leaves given, and no other.
ArrayInv ==
  /\ array = [i \in 1..TotalSize |-> array[i]]
  /\ \A i \in 1..TotalSize :
       /\ array[i] # Default => \E l \in Given : Addr(i) \in Addrs(l)
       /\ \A l \in Given : Addr(i) \in Addrs(l) => array[i] = ByteOf(l, i)
  /\ fill_count = Cardinality(FilledIn(array))

\* The times of the answer are times of each of the leaves given.
TimesInv ==
  /\ time_start \in 0..query.time /\ time_end \in query.time..TimeMax
  /\ \A l \in Given : l.time_min <= time_start /\ time_end <= l.time_max

\* The inductive invariant, by the phase of the fetch.
FInv ==
  /\ QueryInv
  /\ phase \in {"new", "filling", "done"}
  /\ phase = "new" => /\ array = <<>> /\ fill_count = 0 /\ zones = <<>>
                      /\ time_start = 0 /\ time_end = TimeMax
  /\ phase # "new" => ZonesInv /\ ArrayInv /\ TimesInv
  /\ phase = "done" => zones = <<>>

-----------------------------------------------------------------------------
(* Operators *)

\* min and max of two numbers.
LEMMA MinMaxOfTwo ==
  ASSUME NEW a \in Int, NEW b \in Int
  PROVE  /\ Min({a, b}) = IF a <= b THEN a ELSE b
         /\ Max({a, b}) = IF a <= b THEN b ELSE a
<1>1. ASSUME NEW x \in {a, b}, \A y \in {a, b} : x <= y
      PROVE  x = IF a <= b THEN a ELSE b
  BY <1>1
<1>2. ASSUME NEW x \in {a, b}, \A y \in {a, b} : x >= y
      PROVE  x = IF a <= b THEN b ELSE a
  BY <1>2
<1>3. /\ \E x \in {a, b} : \A y \in {a, b} : x <= y
      /\ \E x \in {a, b} : \A y \in {a, b} : x >= y
  <2>1. CASE a <= b
    BY <2>1
  <2>2. CASE b <= a
    BY <2>2
  <2>. QED  BY <2>1, <2>2
<1>4. Min({a, b}) \in {a, b} /\ \A y \in {a, b} : Min({a, b}) <= y
  BY <1>3 DEF Min
<1>5. Max({a, b}) \in {a, b} /\ \A y \in {a, b} : Max({a, b}) >= y
  BY <1>3 DEF Max
<1>. QED  BY <1>1, <1>2, <1>4, <1>5

\* The array has a place for every byte of the range.
LEMMA TotalSizeIs ==
  ASSUME QueryInv
  PROVE  /\ TotalSize = (query.addr_max - query.addr_min) + 1 /\ TotalSize \in Nat \ {0}
         /\ query.addr_min \in Nat /\ query.addr_max \in Nat /\ query.time \in Nat
         /\ query.time <= TimeMax /\ query.addr_min <= query.addr_max
<1>1. /\ query.addr_min \in 0..LastAddr /\ query.addr_max \in 0..LastAddr
      /\ query.time \in 0..LastTime /\ query.addr_min <= query.addr_max
  BY DEF QueryInv
<1> DEFINE low == query.addr_min
           high == query.addr_max
<1>2. low \in Nat /\ high \in Nat /\ low <= high /\ query.time \in Nat /\ query.time <= TimeMax
  BY <1>1, FetchAssumption
<1> HIDE DEF low, high
<1>3. Cardinality(low..high) = (high - low) + 1
  BY <1>2, FS_Interval
<1>. QED  BY <1>2, <1>3 DEF low, high, TotalSize, QueryRange

\* A leaf of the database has bytes and a life.
LEMMA LeavesAreLeaves ==
  ASSUME QueryInv, NEW l \in Leaves
  PROVE  /\ l.addr_min \in Nat /\ l.bytes \in Seq(Range(l.bytes)) /\ Len(l.bytes) \in Nat \ {0}
         /\ \A k \in 1..Len(l.bytes) : l.bytes[k] # Default
         /\ AddrMax(l) = (l.addr_min + Len(l.bytes)) - 1
         /\ Addrs(l) = l.addr_min..AddrMax(l)
         /\ l.time_min \in 0..TimeMax /\ l.time_max \in 0..TimeMax /\ l.time_min <= l.time_max
<1>1. /\ l.addr_min \in Nat
      /\ l.bytes \in Seq(Range(l.bytes)) /\ l.bytes # <<>> /\ Default \notin Range(l.bytes)
      /\ l.time_min \in 0..TimeMax /\ l.time_max \in 0..TimeMax /\ l.time_min <= l.time_max
  BY DatabasesAssumption DEF QueryInv, Leaves
<1>2. Len(l.bytes) \in Nat \ {0}
  BY <1>1
<1>3. \A k \in 1..Len(l.bytes) : l.bytes[k] \in Range(l.bytes)
  BY <1>1 DEF Range
<1>. QED  BY <1>1, <1>2, <1>3 DEF AddrMax, Addrs

\* Two leaves that hold a byte of one address at one time are one leaf.
LEMMA LeavesAreApart ==
  ASSUME QueryInv, NEW l \in Leaves, NEW m \in Leaves, NEW a \in Int, NEW t \in Int,
         a \in Addrs(l), a \in Addrs(m), t \in l.time_min..l.time_max, t \in m.time_min..m.time_max
  PROVE  l = m
<1>1. db \in Databases
  BY DEF QueryInv
<1>2. PICK i \in DOMAIN db : l \in db[i]
  BY DEF Leaves, Range
<1>3. PICK j \in DOMAIN db : m \in db[j]
  BY DEF Leaves, Range
<1>4. \/ i = j /\ l = m
      \/ Addrs(l) \cap Addrs(m) = {}
      \/ l.time_max < m.time_min \/ m.time_max < l.time_min
  BY <1>1, <1>2, <1>3, DatabasesAssumption
<1>5. /\ l.time_min \in Int /\ l.time_max \in Int /\ m.time_min \in Int /\ m.time_max \in Int
  BY LeavesAreLeaves
<1>. QED  BY <1>4, <1>5

\* A leaf that holds a byte of the range at the time is one of the answer.
LEMMA HitsAreThoseWithABytes ==
  ASSUME QueryInv, NEW l \in Leaves, NEW i \in 1..TotalSize
  PROVE  /\ Addr(i) \in query.addr_min..query.addr_max /\ Addr(i) \in Int
         /\ (Addr(i) \in Addrs(l) /\ query.time \in l.time_min..l.time_max) => l \in Hits
         /\ Addr(i) \in Addrs(l) => /\ (Addr(i) - l.addr_min) + 1 \in 1..Len(l.bytes)
                                    /\ ByteOf(l, i) # Default
<1> DEFINE a == Addr(i)
<1>1. a \in query.addr_min..query.addr_max /\ a \in Int
  BY TotalSizeIs DEF Addr
<1> HIDE DEF a
<1>2. ASSUME a \in Addrs(l), query.time \in l.time_min..l.time_max
      PROVE  Intersects(l)
  <2> DEFINE low == l.addr_min
             high == AddrMax(l)
             first == query.addr_min
             last == query.addr_max
  <2>1. /\ low \in Int /\ high \in Int /\ Addrs(l) = low..high
    <3> DEFINE n == Len(l.bytes)
    <3>1. low \in Nat /\ n \in Nat /\ high = (low + n) - 1 /\ Addrs(l) = low..high
      BY LeavesAreLeaves
    <3> HIDE DEF low, high, n
    <3>. QED  BY <3>1
  <2>2. first \in Int /\ last \in Int /\ a \in first..last
    BY <1>1, TotalSizeIs
  <2>3. low <= last /\ first <= high
    <3> HIDE DEF low, high, first, last
    <3>. QED  BY <1>1, <1>2, <2>1, <2>2
  <2>4. l.time_min <= query.time /\ query.time <= l.time_max
    BY <1>2
  <2>. QED  BY <2>3, <2>4 DEF Intersects
<1>3. ASSUME a \in Addrs(l)
      PROVE  (a - l.addr_min) + 1 \in 1..Len(l.bytes)
  <2> DEFINE low == l.addr_min
             high == AddrMax(l)
             n == Len(l.bytes)
  <2>1. low \in Nat /\ n \in Nat /\ high = (low + n) - 1 /\ a \in low..high
    BY <1>3, LeavesAreLeaves
  <2> HIDE DEF low, high, n
  <2>2. (a - low) + 1 \in 1..n
    BY <1>1, <2>1
  <2>. QED  BY <2>2 DEF low, n
<1>4. ASSUME a \in Addrs(l)
      PROVE  l.bytes[(a - l.addr_min) + 1] # Default
  <2>1. \A k \in 1..Len(l.bytes) : l.bytes[k] # Default
    BY LeavesAreLeaves
  <2>. QED  BY <1>3, <1>4, <2>1, Zenon
<1>. QED  BY <1>1, <1>2, <1>3, <1>4 DEF a, ByteOf, Hits

\* What a function on 1..n is when it is a sequence.
LEMMA IsSequence ==
  ASSUME NEW S, NEW n \in Nat, NEW f \in [1..n -> S]
  PROVE  f \in Seq(S) /\ Len(f) = n
  OBVIOUS

\* Where a leaf goes, and how much of it: its bytes that are in the range.
LEMMA CopyIsTheOverlap ==
  ASSUME QueryInv, NEW l \in Hits
  PROVE  LET off == Offsets(l)
             size == CopySize(l, off.out, off.node)
         IN  /\ off.out \in Nat /\ off.node \in Nat /\ size \in Nat
             /\ off.out + size <= TotalSize
             /\ \A i \in 1..TotalSize :
                  /\ i \in (off.out + 1)..(off.out + size) <=> Addr(i) \in Addrs(l)
                  /\ (i - off.out) + off.node = (Addr(i) - l.addr_min) + 1
<1> DEFINE low == query.addr_min
           high == query.addr_max
           first == l.addr_min
           len == Len(l.bytes)
           after == first - low
           before == low - first
           out == Max({0, after})
           node == Max({0, before})
           size == Min({TotalSize - out, len - node})
<1>1. /\ low \in Nat /\ high \in Nat /\ first \in Nat /\ len \in Nat \ {0}
      /\ TotalSize = (high - low) + 1 /\ low <= high
      /\ first <= high /\ low <= (first + len) - 1
      /\ Addrs(l) = first..((first + len) - 1)
  BY TotalSizeIs, LeavesAreLeaves DEF Hits, Intersects
<1>2. /\ Offsets(l) = [out |-> out, node |-> node]
      /\ CopySize(l, out, node) = size
  BY DEF Offsets, CopySize
<1>3. \A i : Addr(i) = (low + i) - 1
  BY DEF Addr
<1> HIDE DEF low, high, first, len
<1>4. after \in Int /\ before \in Int
  BY <1>1
<1> HIDE DEF after, before
<1>5. /\ out = IF 0 <= after THEN after ELSE 0
      /\ node = IF 0 <= before THEN before ELSE 0
  BY <1>4, MinMaxOfTwo
<1> HIDE DEF out, node
<1>6. out = IF 0 <= first - low THEN first - low ELSE 0
  BY <1>5 DEF after
<1>7. node = IF 0 <= low - first THEN low - first ELSE 0
  BY <1>5 DEF before
<1>8. out \in Nat /\ node \in Nat /\ TotalSize - out \in Int /\ len - node \in Int
  BY <1>1, <1>6, <1>7
<1>9. size = IF TotalSize - out <= len - node THEN TotalSize - out ELSE len - node
  BY <1>8, MinMaxOfTwo
<1> HIDE DEF size
<1>10. size \in Nat /\ out + size <= TotalSize
  BY <1>1, <1>6, <1>7, <1>8, <1>9
<1>11. ASSUME NEW i \in 1..TotalSize
      PROVE  /\ i \in (out + 1)..(out + size) <=> (low + i) - 1 \in Addrs(l)
             /\ (i - out) + node = (((low + i) - 1) - first) + 1
  <2>1. i \in Int /\ 1 <= i /\ i <= TotalSize
    BY <1>1
  <2>2. (i - out) + node = (((low + i) - 1) - first) + 1
    BY <1>1, <1>6, <1>7, <2>1
  <2>3. i \in (out + 1)..(out + size) <=> out + 1 <= i /\ i <= out + size
    BY <1>8, <1>10, <2>1
  <2>4. (low + i) - 1 \in Addrs(l) <=> first <= (low + i) - 1 /\ (low + i) - 1 <= (first + len) - 1
    BY <1>1, <2>1
  <2>5. out + 1 <= i <=> first <= (low + i) - 1
    BY <1>1, <1>6, <2>1
  <2>6. i <= out + size <=> (low + i) - 1 <= (first + len) - 1
    BY <1>1, <1>6, <1>7, <1>9, <2>1
  <2>. QED  BY <2>2, <2>3, <2>4, <2>5, <2>6
<1>. QED  BY <1>2, <1>3, <1>8, <1>10, <1>11 DEF first

-----------------------------------------------------------------------------
(* The steps *)

\* While a fetch runs the database and the question stay what they are.
LEMMA SameQuestion ==
  ASSUME QueryInv, UNCHANGED <<db, query>>
  PROVE  /\ QueryInv' /\ Hits' = Hits /\ TotalSize' = TotalSize
         /\ \A i : Addr(i)' = Addr(i)
         /\ \A l, i : ByteOf(l, i)' = ByteOf(l, i)
<1>1. QueryInv'
  BY DEF QueryInv
<1>2. Hits' = Hits
  BY DEF Hits, Leaves, Intersects
<1>3. TotalSize' = TotalSize
  BY DEF TotalSize, QueryRange
<1>. QED  BY <1>1, <1>2, <1>3 DEF Addr, ByteOf

\* A fetch that has not begun keeps its invariant.
LEMMA FetchInitInv == Init => FInv
<1> SUFFICES ASSUME Init PROVE FInv
  OBVIOUS
<1>1. QueryInv
  BY DEF Init, QueryInv
<1>. QED  BY <1>1 DEF Init, FInv

\* A zone whose bounding box does not meet the question has no leaf that does.
LEMMA NewFetchKeeps ==
  ASSUME FInv, NewFetch
  PROVE  FInv'
<1>1. /\ QueryInv /\ phase' = "filling" /\ UNCHANGED <<db, query, time_start, time_end, fill_count>>
      /\ array' = [i \in 1..TotalSize |-> Default]
      /\ zones' = [i \in DOMAIN db |->
                     IF IntersectsBbox(db[i]) THEN {l \in db[i] : Intersects(l)} ELSE {}]
      /\ fill_count = 0 /\ time_start = 0 /\ time_end = TimeMax
  BY DEF FInv, NewFetch
<1>2. /\ QueryInv' /\ Hits' = Hits /\ TotalSize' = TotalSize
      /\ \A i : Addr(i)' = Addr(i)
      /\ \A l, i : ByteOf(l, i)' = ByteOf(l, i)
  BY <1>1, SameQuestion
<1>3. db \in Seq(SUBSET UNION Range(db)) /\ db \in Databases
  BY <1>1, DatabasesAssumption DEF QueryInv
<1>4. DOMAIN db = 1..Len(db) /\ Len(db) \in Nat
  BY <1>3
<1>5. \A i \in DOMAIN db : zones'[i] = {l \in db[i] : Intersects(l)}
  <2>1. \A i \in DOMAIN db : \A l \in db[i] : Intersects(l) => IntersectsBbox(db[i])
    BY DEF Intersects, IntersectsBbox
  <2>. QED  BY <1>1, <2>1
<1>6. \A i \in DOMAIN db : zones'[i] \in SUBSET Hits
  <2>1. \A i \in DOMAIN db : db[i] \subseteq Leaves
    BY DEF Leaves, Range
  <2>. QED  BY <1>5, <2>1 DEF Hits
<1>7. DOMAIN zones' = DOMAIN db
  BY <1>1
<1>8. zones' \in Seq(SUBSET Hits)
  <2>1. zones' = [i \in 1..Len(db) |-> zones'[i]]
    BY <1>1, <1>4, <1>7
  <2>2. zones' \in [1..Len(db) -> SUBSET Hits]
    BY <1>4, <1>6, <2>1
  <2>. QED  BY <1>4, <2>2, IsSequence
<1>9. \A i, j \in DOMAIN zones' : i # j => zones'[i] \cap zones'[j] = {}
  <2>1. SUFFICES ASSUME NEW i \in DOMAIN db, NEW j \in DOMAIN db, i # j,
                        NEW l, l \in db[i], l \in db[j]
                 PROVE  FALSE
    BY <1>5, <1>7
  <2>2. \/ Addrs(l) \cap Addrs(l) = {}
        \/ l.time_max < l.time_min
    BY <1>3, <2>1, DatabasesAssumption
  <2>3. l \in Leaves
    BY <2>1 DEF Leaves, Range
  <2>4. l.time_max \in Int /\ l.time_min \in Int /\ l.time_min <= l.time_max
    BY <1>1, <2>3, LeavesAreLeaves
  <2>5. l.addr_min \in Addrs(l)
    BY <1>1, <2>3, LeavesAreLeaves
  <2>. QED  BY <2>2, <2>4, <2>5
<1>10. Given' = {}
  <2>1. ASSUME NEW l \in Hits
        PROVE  \E i \in DOMAIN zones' : l \in zones'[i]
    <3>1. PICK i \in DOMAIN db : l \in db[i]
      BY DEF Hits, Leaves, Range
    <3>. QED  BY <1>5, <1>7, <3>1 DEF Hits
  <2>2. Hits \subseteq Pending'
    BY <2>1 DEF Pending
  <2>. QED  BY <1>2, <2>2 DEF Given
<1>11. ZonesInv'
  BY <1>2, <1>8, <1>9 DEF ZonesInv
<1>12. ArrayInv'
  <2>1. DOMAIN array' = 1..TotalSize /\ \A i \in 1..TotalSize : array'[i] = Default
    BY <1>1
  <2>2. FilledIn(array') = {}
    BY <2>1 DEF FilledIn
  <2>3. fill_count' = Cardinality(FilledIn(array'))
    BY <1>1, <2>2, FS_EmptySet
  <2>4. array' = [i \in 1..TotalSize |-> array'[i]]
    BY <1>1
  <2>. QED  BY <1>2, <1>10, <2>1, <2>3, <2>4 DEF ArrayInv, FilledIn
<1>13. TimesInv'
  BY <1>1, <1>2, <1>10, TotalSizeIs, FetchAssumption DEF TimesInv
<1>. QED  BY <1>1, <1>2, <1>11, <1>12, <1>13 DEF FInv

\* A leaf is given: its bytes of the range are there, where no byte was.
LEMMA NextLeafKeeps ==
  ASSUME FInv, NextLeaf
  PROVE  FInv'
<1> DEFINE n == Len(zones)
<1>1. /\ QueryInv /\ ZonesInv /\ ArrayInv /\ TimesInv
      /\ phase = "filling" /\ zones # <<>> /\ UNCHANGED <<db, query, phase>>
  BY DEF FInv, NextLeaf
<1>2. /\ QueryInv' /\ Hits' = Hits /\ TotalSize' = TotalSize
      /\ \A i : Addr(i)' = Addr(i)
      /\ \A l, i : ByteOf(l, i)' = ByteOf(l, i)
  BY <1>1, SameQuestion
<1>3. zones \in Seq(SUBSET Hits) /\ n \in Nat /\ n > 0 /\ DOMAIN zones = 1..n /\ n \in DOMAIN zones
  BY <1>1 DEF ZonesInv
<1>4. PICK leaf \in zones[n] :
        LET off == Offsets(leaf)
            size == CopySize(leaf, off.out, off.node)
        IN  /\ array' = [i \in 1..Max({Len(array), off.out + size}) |->
                           IF i \in (off.out + 1)..(off.out + size)
                           THEN leaf.bytes[(i - off.out) + off.node] ELSE array[i]]
            /\ fill_count' = fill_count + size
            /\ Narrow(leaf)
            /\ zones' = [zones EXCEPT ![Len(zones)] = @ \ {leaf}]
  BY DEF NextLeaf, Last
<1> DEFINE out == Offsets(leaf).out
           node == Offsets(leaf).node
           size == CopySize(leaf, out, node)
<1>5. /\ array' = [i \in 1..Max({Len(array), out + size}) |->
                     IF i \in (out + 1)..(out + size) THEN leaf.bytes[(i - out) + node] ELSE array[i]]
      /\ fill_count' = fill_count + size
      /\ time_start' = Max({time_start, leaf.time_min})
      /\ time_end' = Min({time_end, leaf.time_max})
      /\ zones' = [zones EXCEPT ![n] = zones[n] \ {leaf}]
  BY <1>4 DEF Narrow
<1>6. leaf \in Hits /\ leaf \in Leaves
  BY <1>3 DEF Hits
<1>7. /\ out \in Nat /\ node \in Nat /\ size \in Nat /\ out + size <= TotalSize
      /\ \A i \in 1..TotalSize : /\ i \in (out + 1)..(out + size) <=> Addr(i) \in Addrs(leaf)
                                 /\ (i - out) + node = (Addr(i) - leaf.addr_min) + 1
  BY <1>1, <1>6, CopyIsTheOverlap
<1> HIDE DEF n, out, node, size
<1>8. TotalSize \in Nat /\ TotalSize > 0
  BY <1>1, TotalSizeIs
<1>9. Len(array) = TotalSize /\ DOMAIN array = 1..TotalSize
  <2>1. array \in [1..TotalSize -> {array[i] : i \in 1..TotalSize}]
    BY <1>1 DEF ArrayInv
  <2>. QED  BY <1>8, <2>1, IsSequence
<1>10. Max({Len(array), out + size}) = TotalSize
  <2> DEFINE used == out + size
  <2>1. used \in Int /\ used <= TotalSize
    BY <1>7
  <2> HIDE DEF used
  <2>2. Max({TotalSize, used}) = TotalSize
    BY <1>8, <2>1, MinMaxOfTwo
  <2>. QED  BY <1>9, <2>2 DEF used
<1>11. /\ DOMAIN array' = 1..TotalSize /\ array' = [i \in 1..TotalSize |-> array'[i]]
       /\ \A i \in 1..TotalSize :
            array'[i] = IF Addr(i) \in Addrs(leaf) THEN ByteOf(leaf, i) ELSE array[i]
  <2>1. array' = [i \in 1..TotalSize |->
                    IF i \in (out + 1)..(out + size) THEN leaf.bytes[(i - out) + node] ELSE array[i]]
    BY <1>5, <1>10
  <2>2. \A i \in 1..TotalSize :
          array'[i] = IF Addr(i) \in Addrs(leaf)
                      THEN leaf.bytes[(Addr(i) - leaf.addr_min) + 1] ELSE array[i]
    BY <1>7, <2>1
  <2>. QED  BY <2>1, <2>2 DEF ByteOf
<1>12. /\ DOMAIN zones' = 1..n
       /\ \A i \in 1..n : zones'[i] = IF i = n THEN zones[n] \ {leaf} ELSE zones[i]
       /\ zones' = [i \in 1..n |-> zones'[i]]
  BY <1>3, <1>5
<1>13. ZonesInv'
  <2>1. \A i \in 1..n : zones[i] \in SUBSET Hits
    BY <1>3
  <2>2. zones' \in [1..n -> SUBSET Hits]
    BY <1>12, <2>1
  <2>3. zones' \in Seq(SUBSET Hits)
    BY <1>3, <2>2, IsSequence
  <2>4. \A i, j \in 1..n : i # j => zones'[i] \cap zones'[j] = {}
    BY <1>1, <1>3, <1>12 DEF ZonesInv
  <2>. QED  BY <1>2, <1>12, <2>3, <2>4 DEF ZonesInv
<1>14. Given' = Given \cup {leaf} /\ leaf \notin Given
  <2>1. \A l : l \in Pending <=> \E i \in 1..n : l \in zones[i]
    BY <1>3 DEF Pending
  <2>2. \A l : l \in Pending' <=> \E i \in 1..n : l \in zones'[i]
    BY <1>12 DEF Pending
  <2>3. \A i \in 1..n : leaf \in zones[i] => i = n
    BY <1>1, <1>3, <1>4 DEF ZonesInv, n
  <2>4. \A l : l \in Pending' <=> l \in Pending /\ l # leaf
    BY <1>12, <2>1, <2>2, <2>3
  <2>5. leaf \in Pending
    BY <1>3, <1>4, <2>1 DEF n
  <2>. QED  BY <1>2, <1>6, <2>4, <2>5 DEF Given
<1>15. \A i \in 1..TotalSize : \A l \in Given :
         Addr(i) \in Addrs(l) => Addr(i) \notin Addrs(leaf)
  <2>1. SUFFICES ASSUME NEW i \in 1..TotalSize, NEW l \in Given,
                        Addr(i) \in Addrs(l), Addr(i) \in Addrs(leaf)
                 PROVE  l = leaf
    BY <1>14
  <2>2. l \in Leaves /\ Intersects(l) /\ Intersects(leaf)
    BY <1>6 DEF Given, Hits
  <2>3. query.time \in l.time_min..l.time_max /\ query.time \in leaf.time_min..leaf.time_max
    BY <1>1, <1>6, <2>2, TotalSizeIs, LeavesAreLeaves DEF Intersects
  <2>4. Addr(i) \in Int /\ query.time \in Int
    BY <1>1, <1>6, HitsAreThoseWithABytes, TotalSizeIs
  <2>. QED  BY <1>1, <1>6, <2>1, <2>2, <2>3, <2>4, LeavesAreApart

<1> DEFINE copied == (out + 1)..(out + size)
<1>16. /\ FilledIn(array') = FilledIn(array) \cup copied
       /\ FilledIn(array) \cap copied = {}
  <2>1. copied \subseteq 1..TotalSize
    BY <1>7, <1>8
  <2>2. \A i \in 1..TotalSize : i \in copied <=> Addr(i) \in Addrs(leaf)
    BY <1>7
  <2> HIDE DEF copied
  <2>3. \A i \in copied : ByteOf(leaf, i) # Default
    BY <1>1, <1>6, <2>1, <2>2, HitsAreThoseWithABytes
  <2>4. \A i \in 1..TotalSize : array[i] # Default => \E l \in Given : Addr(i) \in Addrs(l)
    BY <1>1 DEF ArrayInv
  <2>5. \A i \in copied : array[i] = Default
    BY <1>15, <2>1, <2>2, <2>4
  <2>6. \A i \in 1..TotalSize : array'[i] # Default <=> array[i] # Default \/ i \in copied
    BY <1>11, <2>2, <2>3
  <2>. QED  BY <1>9, <1>11, <2>1, <2>5, <2>6 DEF FilledIn
<1>17. fill_count' = Cardinality(FilledIn(array'))
  <2>1. IsFiniteSet(FilledIn(array))
    <3>1. FilledIn(array) \in SUBSET (1..TotalSize)
      BY <1>9 DEF FilledIn
    <3>2. 1 \in Int /\ TotalSize \in Int
      BY <1>8
    <3>3. IsFiniteSet(1..TotalSize)
      BY <3>2, FS_Interval
    <3>. QED  BY <3>1, <3>3, FS_Subset
  <2>2. IsFiniteSet(copied) /\ Cardinality(copied) = size
    <3> DEFINE first == out + 1
               last == out + size
    <3>1. first \in Int /\ last \in Int /\ first <= last + 1 /\ (last - first) + 1 = size
      BY <1>7
    <3> HIDE DEF first, last
    <3>2. /\ IsFiniteSet(first..last)
          /\ Cardinality(first..last) = IF first > last THEN 0 ELSE last - first + 1
      BY <3>1, FS_Interval
    <3>3. Cardinality(first..last) = size
      BY <3>1, <3>2
    <3>. QED  BY <3>2, <3>3 DEF first, last
  <2> HIDE DEF copied
  <2>3. Cardinality(FilledIn(array) \cup copied)
          = Cardinality(FilledIn(array)) + Cardinality(copied) - Cardinality({})
    BY <1>16, <2>1, <2>2, FS_Union
  <2>4. Cardinality({}) = 0 /\ Cardinality(FilledIn(array)) \in Nat
    BY <2>1, FS_EmptySet, FS_CardinalityType
  <2>5. fill_count = Cardinality(FilledIn(array))
    BY <1>1 DEF ArrayInv
  <2>6. Cardinality(FilledIn(array')) = Cardinality(FilledIn(array)) + size
    BY <1>7, <1>16, <2>2, <2>3, <2>4
  <2>7. fill_count' = fill_count + size
    BY <1>5
  <2>. QED  BY <2>5, <2>6, <2>7
<1>18. ArrayInv'
  <2>1. \A i \in 1..TotalSize : array'[i] # Default => \E l \in Given' : Addr(i) \in Addrs(l)
    BY <1>1, <1>11, <1>14 DEF ArrayInv
  <2>2. \A i \in 1..TotalSize : \A l \in Given' : Addr(i) \in Addrs(l) => array'[i] = ByteOf(l, i)
    BY <1>1, <1>11, <1>14, <1>15 DEF ArrayInv
  <2>3. \A i : Addr(i)' = Addr(i)
    BY <1>2
  <2>4. \A l, i : ByteOf(l, i)' = ByteOf(l, i)
    BY <1>2
  <2>5. \A l : Addrs(l)' = Addrs(l)
    OBVIOUS
  <2>. QED  BY <1>2, <1>11, <1>17, <2>1, <2>2, <2>3, <2>4 DEF ArrayInv, FilledIn
<1>19. TimesInv'
  <2>1. /\ leaf.time_min \in Int /\ leaf.time_max \in Int /\ 0 <= leaf.time_min
        /\ leaf.time_max <= TimeMax
        /\ leaf.time_min <= query.time /\ query.time <= leaf.time_max
    BY <1>1, <1>6, FetchAssumption, LeavesAreLeaves DEF Hits, Intersects
  <2>2. /\ time_start \in 0..query.time /\ time_end \in query.time..TimeMax
        /\ \A l \in Given : l.time_min <= time_start /\ time_end <= l.time_max
    BY <1>1 DEF TimesInv
  <2>3. query.time \in Nat /\ TimeMax \in Nat /\ time_start \in Int /\ time_end \in Int
    BY <1>1, <2>2, TotalSizeIs, FetchAssumption
  <2>4. /\ time_start' = IF time_start <= leaf.time_min THEN leaf.time_min ELSE time_start
        /\ time_end' = IF time_end <= leaf.time_max THEN time_end ELSE leaf.time_max
    <3> DEFINE from == leaf.time_min
               to == leaf.time_max
    <3>1. from \in Int /\ to \in Int /\ time_start' = Max({time_start, from})
          /\ time_end' = Min({time_end, to})
      BY <1>5, <2>1
    <3> HIDE DEF from, to
    <3>2. /\ time_start' = IF time_start <= from THEN from ELSE time_start
          /\ time_end' = IF time_end <= to THEN time_end ELSE to
      BY <2>3, <3>1, MinMaxOfTwo
    <3>. QED  BY <3>2 DEF from, to
  <2>5. \A l \in Given : l.time_min \in Int /\ l.time_max \in Int
    BY <1>1, LeavesAreLeaves DEF Given, Hits
  <2>6. time_start' \in 0..query.time /\ time_end' \in query.time..TimeMax
    BY <2>1, <2>2, <2>3, <2>4
  <2>7. \A l \in Given : l.time_min <= time_start' /\ time_end' <= l.time_max
    BY <2>1, <2>2, <2>3, <2>4, <2>5
  <2>8. leaf.time_min <= time_start' /\ time_end' <= leaf.time_max
    BY <2>1, <2>3, <2>4
  <2>. QED  BY <1>1, <1>14, <2>6, <2>7, <2>8 DEF TimesInv
<1>. QED  BY <1>1, <1>2, <1>13, <1>18, <1>19 DEF FInv

\* A zone that has given all its leaves is left.
LEMMA EndOfZoneKeeps ==
  ASSUME FInv, EndOfZone
  PROVE  FInv'
<1> DEFINE n == Len(zones)
<1>1. /\ QueryInv /\ ZonesInv /\ ArrayInv /\ TimesInv
      /\ phase = "filling" /\ zones # <<>> /\ zones[n] = {}
      /\ zones' = [i \in 1..(n - 1) |-> zones[i]]
      /\ UNCHANGED <<db, query, array, time_start, time_end, fill_count, phase>>
  BY DEF FInv, EndOfZone, Last, Front
<1>2. /\ QueryInv' /\ Hits' = Hits /\ TotalSize' = TotalSize
      /\ \A i : Addr(i)' = Addr(i)
      /\ \A l, i : ByteOf(l, i)' = ByteOf(l, i)
  BY <1>1, SameQuestion
<1>3. /\ zones \in Seq(SUBSET Hits) /\ n \in Nat /\ n > 0 /\ n - 1 \in Nat
      /\ DOMAIN zones = 1..n
      /\ \A i \in 1..n : zones[i] \in SUBSET Hits
  BY <1>1 DEF ZonesInv
<1> HIDE DEF n
<1>4. DOMAIN zones' = 1..(n - 1) /\ \A i \in 1..(n - 1) : zones'[i] = zones[i] /\ i \in 1..n
  BY <1>1, <1>3
<1>5. zones' \in Seq(SUBSET Hits)
  <2>1. zones' \in [1..(n - 1) -> SUBSET Hits]
    BY <1>1, <1>3, <1>4
  <2>. QED  BY <1>3, <2>1, IsSequence
<1>6. ZonesInv'
  BY <1>1, <1>2, <1>3, <1>4, <1>5 DEF ZonesInv
<1>7. Pending' = Pending
  <2>1. \A i \in 1..n : i = n \/ i \in 1..(n - 1)
    BY <1>3
  <2>. QED  BY <1>1, <1>3, <1>4, <2>1 DEF Pending
<1>8. Given' = Given
  BY <1>2, <1>7 DEF Given
<1>9. ArrayInv'
  BY <1>1, <1>2, <1>8 DEF ArrayInv, FilledIn
<1>10. TimesInv'
  BY <1>1, <1>8 DEF TimesInv
<1>. QED  BY <1>1, <1>2, <1>6, <1>9, <1>10 DEF FInv

\* Every step of a fetch keeps its invariant.
LEMMA FetchKeepsInv == FInv /\ [Next]_vars => FInv'
<1> SUFFICES ASSUME FInv, [Next]_vars PROVE FInv'
  OBVIOUS
<1>1. CASE NewFetch
  BY <1>1, NewFetchKeeps
<1>2. CASE NextLeaf
  BY <1>2, NextLeafKeeps
<1>3. CASE EndOfZone
  BY <1>3, EndOfZoneKeeps
<1>4. CASE EndOfFetch \/ UNCHANGED vars
  <2>1. UNCHANGED <<db, query, zones, array, time_start, time_end, fill_count>>
    BY <1>4 DEF EndOfFetch, vars
  <2>2. /\ QueryInv' /\ Hits' = Hits /\ TotalSize' = TotalSize
        /\ \A i : Addr(i)' = Addr(i)
        /\ \A l, i : ByteOf(l, i)' = ByteOf(l, i)
    BY <2>1, SameQuestion DEF FInv
  <2>3. Given' = Given
    BY <2>1, <2>2 DEF Given, Pending
  <2>4. ZonesInv => ZonesInv'
    BY <2>1, <2>2 DEF ZonesInv
  <2>5. ArrayInv => ArrayInv'
    BY <2>1, <2>2, <2>3 DEF ArrayInv, FilledIn
  <2>6. TimesInv => TimesInv'
    BY <2>1, <2>3 DEF TimesInv
  <2>. QED  BY <1>4, <2>1, <2>2, <2>4, <2>5, <2>6 DEF FInv, EndOfFetch, vars
<1>. QED  BY <1>1, <1>2, <1>3, <1>4 DEF Next

\* The invariant holds of every state of a fetch.
LEMMA FetchInvariance == Spec => []FInv
BY FetchInitInv, FetchKeepsInv, PTL DEF Spec

-----------------------------------------------------------------------------
(* The theorems *)

\* The state is well formed, and no byte of the array is filled twice: the count
\* that fetch_at keeps never passes the size of what it was asked for.
THEOREM FetchTypeCorrectness == Spec => []TypeOK
<1>1. FInv => TypeOK
  <2> SUFFICES ASSUME FInv PROVE TypeOK
    OBVIOUS
  <2>1. CASE phase = "new"
    <3>1. array = <<>> /\ fill_count = 0 /\ time_start = 0 /\ time_end = TimeMax
      BY <2>1 DEF FInv
    <3>2. {i \in DOMAIN array : array[i] # Default} = {}
      BY <3>1
    <3>3. fill_count = Cardinality({i \in DOMAIN array : array[i] # Default})
      BY <3>1, <3>2, FS_EmptySet
    <3>. QED  BY <2>1, <3>1, <3>3, FetchAssumption DEF TypeOK
  <2>2. CASE phase # "new"
    <3>1. QueryInv /\ ArrayInv /\ TimesInv /\ phase \in {"new", "filling", "done"}
      BY <2>2 DEF FInv
    <3>2. TotalSize \in Nat
      BY <3>1, TotalSizeIs
    <3>3. Len(array) = TotalSize
      <4>1. array \in [1..TotalSize -> {array[i] : i \in 1..TotalSize}]
        BY <3>1 DEF ArrayInv
      <4>. QED  BY <3>2, <4>1, IsSequence
    <3>4. time_start \in 0..TimeMax /\ time_end \in 0..TimeMax
      BY <3>1, TotalSizeIs, FetchAssumption DEF TimesInv
    <3>5. fill_count = Cardinality({i \in DOMAIN array : array[i] # Default})
      BY <3>1 DEF ArrayInv, FilledIn
    <3>. QED  BY <3>1, <3>3, <3>4, <3>5 DEF TypeOK
  <2>. QED  BY <2>1, <2>2
<1>. QED  BY <1>1, FetchInvariance, PTL

\* In a finished fetch every leaf of the answer was given, a byte of the array is
\* that of the one leaf that covers it, and the count tells whether all are known.
LEMMA DoneIs ==
  ASSUME FInv, phase = "done"
  PROVE  /\ QueryInv /\ Given = Hits
         /\ \A i \in 1..TotalSize : \A l \in Leaves :
              (Addr(i) \in Addrs(l) /\ query.time \in l.time_min..l.time_max)
                => l \in Hits /\ array[i] = ByteOf(l, i) /\ array[i] # Default
         /\ \A i \in 1..TotalSize : array[i] # Default =>
              \E l \in Hits : Addr(i) \in Addrs(l) /\ query.time \in l.time_min..l.time_max
         /\ IsComplete <=> \A i \in 1..TotalSize : array[i] # Default
<1>1. QueryInv /\ zones = <<>> /\ ArrayInv
  BY DEF FInv
<1>2. Given = Hits
  BY <1>1 DEF Given, Pending
<1>3. ASSUME NEW i \in 1..TotalSize, NEW l \in Leaves, Addr(i) \in Addrs(l),
             query.time \in l.time_min..l.time_max
      PROVE  l \in Hits /\ array[i] = ByteOf(l, i) /\ array[i] # Default
  <2>1. l \in Hits /\ ByteOf(l, i) # Default
    BY <1>1, <1>3, HitsAreThoseWithABytes
  <2>. QED  BY <1>1, <1>2, <1>3, <2>1 DEF ArrayInv
<1>4. ASSUME NEW i \in 1..TotalSize, array[i] # Default
      PROVE  \E l \in Hits : Addr(i) \in Addrs(l) /\ query.time \in l.time_min..l.time_max
  <2>1. PICK l \in Hits : Addr(i) \in Addrs(l)
    BY <1>1, <1>2, <1>4 DEF ArrayInv
  <2>2. query.time \in l.time_min..l.time_max
    BY <1>1, LeavesAreLeaves, TotalSizeIs DEF Hits, Intersects
  <2>. QED  BY <2>1, <2>2
<1>5. IsComplete <=> \A i \in 1..TotalSize : array[i] # Default
  <2>1. TotalSize \in Nat /\ 1 \in Int /\ TotalSize \in Int
    BY <1>1, TotalSizeIs
  <2>2. IsFiniteSet(1..TotalSize) /\ Cardinality(1..TotalSize) = TotalSize
    <3>1. /\ IsFiniteSet(1..TotalSize)
          /\ Cardinality(1..TotalSize) = IF 1 > TotalSize THEN 0 ELSE TotalSize - 1 + 1
      BY <2>1, FS_Interval
    <3>. QED  BY <2>1, <3>1
  <2>3. DOMAIN array = 1..TotalSize
    BY <1>1 DEF ArrayInv
  <2>4. FilledIn(array) \in SUBSET (1..TotalSize)
    BY <2>3 DEF FilledIn
  <2>5. Cardinality(1..TotalSize) = Cardinality(FilledIn(array)) => FilledIn(array) = 1..TotalSize
    BY <2>2, <2>4, FS_Subset
  <2>6. FilledIn(array) = 1..TotalSize <=> \A i \in 1..TotalSize : array[i] # Default
    BY <2>3 DEF FilledIn
  <2>7. IsComplete <=> Cardinality(FilledIn(array)) = TotalSize
    BY <1>1 DEF ArrayInv, IsComplete
  <2>. QED  BY <2>2, <2>5, <2>6, <2>7
<1>. QED  BY <1>1, <1>2, <1>3, <1>4, <1>5

\* The addresses of the range are those of the places of the array.
LEMMA AddressesAreThoseOfTheArray ==
  ASSUME QueryInv
  PROVE  \A a \in QueryRange : \E i \in 1..TotalSize : a = Addr(i)
<1>1. SUFFICES ASSUME NEW a \in QueryRange
               PROVE  \E i \in 1..TotalSize : a = Addr(i)
  OBVIOUS
<1> DEFINE i == (a - query.addr_min) + 1
<1>2. i \in 1..TotalSize /\ a = (query.addr_min + i) - 1
  BY TotalSizeIs DEF QueryRange
<1> HIDE DEF i
<1>. QED  BY <1>2 DEF Addr

\* The answer is what was in memory at the time asked about, byte by byte, and it
\* is complete exactly when every byte was known.
THEOREM FetchReadsMemory == Spec => []FetchIsWhatMemoryHeld
<1>1. FInv => FetchIsWhatMemoryHeld
  <2> DEFINE Held(a) == ByteAt(Leaves, a, query.time)
  <2> SUFFICES ASSUME FInv, phase = "done"
               PROVE  /\ \A i \in 1..TotalSize : IF Held(Addr(i)) = {} THEN array[i] = Default
                                                   ELSE Held(Addr(i)) = {array[i]}
                      /\ IsComplete <=> \A a \in QueryRange : Held(a) # {}
    BY DEF FetchIsWhatMemoryHeld, Addr
  <2>1. /\ QueryInv /\ Given = Hits
        /\ \A i \in 1..TotalSize : \A l \in Leaves :
             (Addr(i) \in Addrs(l) /\ query.time \in l.time_min..l.time_max)
               => l \in Hits /\ array[i] = ByteOf(l, i) /\ array[i] # Default
        /\ \A i \in 1..TotalSize : array[i] # Default =>
             \E l \in Hits : Addr(i) \in Addrs(l) /\ query.time \in l.time_min..l.time_max
        /\ IsComplete <=> \A i \in 1..TotalSize : array[i] # Default
    BY DoneIs
  <2>2. \A i \in 1..TotalSize :
          /\ array[i] # Default => Held(Addr(i)) = {array[i]}
          /\ array[i] = Default => Held(Addr(i)) = {}
    <3>1. ASSUME NEW i \in 1..TotalSize
          PROVE  \A b : b \in Held(Addr(i)) <=>
                   \E l \in Leaves : /\ Addr(i) \in Addrs(l)
                                     /\ query.time \in l.time_min..l.time_max
                                     /\ b = ByteOf(l, i)
      BY DEF ByteAt, Covering, ByteOf
    <3> HIDE DEF Held
    <3>2. Hits \subseteq Leaves
      BY DEF Hits
    <3>. QED  BY <2>1, <3>1, <3>2
  <2> HIDE DEF Held
  <2>3. \A i \in 1..TotalSize : IF Held(Addr(i)) = {} THEN array[i] = Default
                                                      ELSE Held(Addr(i)) = {array[i]}
    BY <2>2
  <2>4. (\A a \in QueryRange : Held(a) # {}) <=> \A i \in 1..TotalSize : Held(Addr(i)) # {}
    <3>1. \A i \in 1..TotalSize : Addr(i) \in QueryRange
      BY <2>1, TotalSizeIs DEF Addr, QueryRange
    <3>. QED  BY <2>1, <3>1, AddressesAreThoseOfTheArray
  <2>5. IsComplete <=> \A a \in QueryRange : Held(a) # {}
    BY <2>1, <2>2, <2>4
  <2>. QED  BY <2>3, <2>5
<1>. QED  BY <1>1, FetchInvariance, PTL

\* A complete answer is what was in memory at every time of its range.
THEOREM CompleteAnswersStay == Spec => []CompleteAnswerStaysValid
<1>1. FInv => CompleteAnswerStaysValid
  <2> SUFFICES ASSUME FInv, phase = "done", IsComplete
               PROVE  /\ query.time \in ValidTimeRange
                      /\ \A t \in ValidTimeRange \cap (0..LastTime), i \in 1..TotalSize :
                           ByteAt(Leaves, Addr(i), t) = {array[i]}
    BY DEF CompleteAnswerStaysValid, Addr
  <2>1. /\ QueryInv /\ Given = Hits /\ TimesInv
        /\ \A i \in 1..TotalSize : \A l \in Leaves :
             (Addr(i) \in Addrs(l) /\ query.time \in l.time_min..l.time_max)
               => array[i] = ByteOf(l, i)
        /\ \A i \in 1..TotalSize :
             \E l \in Hits : Addr(i) \in Addrs(l) /\ query.time \in l.time_min..l.time_max
    BY DoneIs DEF FInv
  <2>2. /\ time_start \in Int /\ time_end \in Int /\ query.time \in Int
        /\ time_start <= query.time /\ query.time <= time_end
    BY <2>1, TotalSizeIs, FetchAssumption DEF TimesInv
  <2>3. query.time \in ValidTimeRange
    BY <2>2 DEF ValidTimeRange
  <2>4. ASSUME NEW t \in ValidTimeRange \cap (0..LastTime), NEW i \in 1..TotalSize
        PROVE  ByteAt(Leaves, Addr(i), t) = {array[i]}
    <3>1. PICK l \in Hits : Addr(i) \in Addrs(l) /\ query.time \in l.time_min..l.time_max
      BY <2>1
    <3>2. l \in Leaves /\ l.time_min <= time_start /\ time_end <= l.time_max
      BY <2>1 DEF Hits, TimesInv
    <3>3. l.time_min \in Int /\ l.time_max \in Int
      BY <2>1, <3>2, LeavesAreLeaves
    <3>4. t \in Int /\ t \in l.time_min..l.time_max
      BY <2>2, <3>2, <3>3, FetchAssumption DEF ValidTimeRange
    <3>5. Addr(i) \in Int
      BY <2>1, <3>2, HitsAreThoseWithABytes
    <3>6. \A m \in Leaves : Addr(i) \in Addrs(m) /\ t \in m.time_min..m.time_max => m = l
      BY <2>1, <3>1, <3>2, <3>4, <3>5, LeavesAreApart
    <3>7. Covering(Leaves, Addr(i), t) = {l}
      BY <3>1, <3>2, <3>4, <3>6 DEF Covering
    <3>8. array[i] = ByteOf(l, i)
      BY <2>1, <3>1, <3>2
    <3>. QED  BY <3>7, <3>8 DEF ByteAt, ByteOf
  <2>. QED  BY <2>3, <2>4
<1>. QED  BY <1>1, FetchInvariance, PTL
=============================================================================

------------------------ MODULE NormalizePassProofs ------------------------
(***************************************************************************)
(* From the events of a trace to its leaves, for every address space,      *)
(* clock, set of registers and of words: the leaves of memory never        *)
(* overlap and answer the history of the memory, and the register leaves   *)
(* answer the history of the registers.                                    *)
(*                                                                         *)
(* The proofs are about MemNode and DisjointPass, then IndexedMemory, then *)
(* NormalizePass; the argument of each part is at its start.               *)
(***************************************************************************)
EXTENDS NormalizePass, IndexedMemory, FiniteSetTheorems, TLAPS

-----------------------------------------------------------------------------
(***************************************************************************)
(* For every address space, clock and alphabet of bytes: the leaves of     *)
(* DisjointPass never overlap.                                             *)
(*                                                                         *)
(* The argument.  A Push that is not deduplicated replaces every leaf l by *)
(* the pieces of l outside the rectangle of the new leaf, and adds the new *)
(* leaf (AllLeavesAfterReplace).  Leaves outside that rectangle, which     *)
(* includes every emitted leaf, are left whole, so replacing only what the *)
(* map lookup returns is enough; that lookup is complete because open      *)
(* leaves are disjoint.  Disjointness of the pieces and what they cover    *)
(* come from the facts about fragment_by, which are first.                 *)
(***************************************************************************)

-----------------------------------------------------------------------------
(* Facts about fragment_by for every pair of rectangles: together with     *)
(* what `other` covers, the fragments tile `self`.                         *)

Node == [addr_min : Int, addr_max : Int, time_min : Int, time_max : Int]

NonEmpty(n) == n.addr_min <= n.addr_max /\ n.time_min <= n.time_max

Inside(n, m) == /\ m.addr_min <= n.addr_min /\ n.addr_max <= m.addr_max
                /\ m.time_min <= n.time_min /\ n.time_max <= m.time_max

\* The four fragments two overlapping rectangles can leave.
LEMMA FragmentShape ==
  ASSUME NEW self \in Node, NEW other \in Node,
         ~NodeDisjoint(self, other),
         NEW f \in FragmentBy(self, other)
  PROVE  LET floor == Larger(other.addr_min, self.addr_min)
             ceil  == Smaller(other.addr_max, self.addr_max)
         IN  \/ /\ other.addr_min > self.addr_min
                /\ f = MemNode(self.addr_min, other.addr_min - 1, self.time_min, self.time_max)
             \/ /\ other.addr_max < self.addr_max
                /\ f = MemNode(other.addr_max + 1, self.addr_max, self.time_min, self.time_max)
             \/ /\ other.time_min > self.time_min
                /\ f = MemNode(floor, ceil, self.time_min, other.time_min - 1)
             \/ /\ other.time_max < self.time_max
                /\ f = MemNode(floor, ceil, other.time_max + 1, self.time_max)
BY Zenon DEF FragmentBy

\* A fragment is a non-empty rectangle inside `self` and outside `other`
\* (the debug assertions of push_memory_write, disjoint.rs:140-147).
THEOREM FragmentsInsideSelf ==
  ASSUME NEW self \in Node, NonEmpty(self),
         NEW other \in Node, NonEmpty(other),
         NEW f \in FragmentBy(self, other)
  PROVE  /\ f \in Node
         /\ NonEmpty(f)
         /\ Inside(f, self)
         /\ NodeDisjoint(f, other)
<1>1. CASE NodeDisjoint(self, other)
  BY <1>1 DEF FragmentBy, NonEmpty, Inside, Node
<1>2. CASE ~NodeDisjoint(self, other)
  BY <1>2, FragmentShape DEF NonEmpty, Inside, Node, NodeDisjoint, RangeDisjoint, AddrRange,
              TimeRange, MemNode, Larger, Smaller
<1>. QED  BY <1>1, <1>2

\* Two different fragments never overlap.
THEOREM FragmentsDisjoint ==
  ASSUME NEW self \in Node, NonEmpty(self),
         NEW other \in Node, NonEmpty(other),
         NEW f \in FragmentBy(self, other), NEW g \in FragmentBy(self, other),
         f # g
  PROVE  NodeDisjoint(f, g)
<1>1. CASE NodeDisjoint(self, other)
  BY <1>1 DEF FragmentBy
<1>2. CASE ~NodeDisjoint(self, other)
  BY <1>2, FragmentShape DEF NonEmpty, Node, NodeDisjoint, RangeDisjoint, AddrRange, TimeRange,
              MemNode, Larger, Smaller
<1>. QED  BY <1>1, <1>2

\* Nothing of `self` outside `other` is lost.
THEOREM FragmentsCover ==
  ASSUME NEW self \in Node, NonEmpty(self),
         NEW other \in Node, NonEmpty(other),
         NEW t \in Int, NEW a \in Int,
         Covers(self, t, a), ~Covers(other, t, a)
  PROVE  \E f \in FragmentBy(self, other) : Covers(f, t, a)
<1>1. CASE NodeDisjoint(self, other)
  BY <1>1 DEF FragmentBy
<1>2. CASE ~NodeDisjoint(self, other)
  <2>1. CASE a < other.addr_min
    <3> DEFINE left == MemNode(self.addr_min, other.addr_min - 1, self.time_min, self.time_max)
    <3>1. left \in FragmentBy(self, other)
      BY <1>2, <2>1 DEF FragmentBy, Node, Covers, RangeContains, AddrRange
    <3>2. Covers(left, t, a)
      BY <2>1 DEF Covers, RangeContains, AddrRange, TimeRange, Node, MemNode
    <3>. QED  BY <3>1, <3>2
  <2>2. CASE a > other.addr_max
    <3> DEFINE right == MemNode(other.addr_max + 1, self.addr_max, self.time_min, self.time_max)
    <3>1. right \in FragmentBy(self, other)
      BY <1>2, <2>2 DEF FragmentBy, Node, Covers, RangeContains, AddrRange
    <3>2. Covers(right, t, a)
      BY <2>2 DEF Covers, RangeContains, AddrRange, TimeRange, Node, MemNode
    <3>. QED  BY <3>1, <3>2
  <2>3. CASE other.addr_min <= a /\ a <= other.addr_max
    <3> DEFINE floor == Larger(other.addr_min, self.addr_min)
               ceil  == Smaller(other.addr_max, self.addr_max)
    <3>1. t < other.time_min \/ t > other.time_max
      BY <2>3 DEF Covers, RangeContains, AddrRange, TimeRange, Node, MemNode
    <3>2. CASE t < other.time_min
      <4> DEFINE before == MemNode(floor, ceil, self.time_min, other.time_min - 1)
      <4>1. before \in FragmentBy(self, other)
        BY <1>2, <3>2 DEF FragmentBy, Node, Covers, RangeContains, TimeRange
      <4>2. Covers(before, t, a)
        BY <2>3, <3>2 DEF Covers, RangeContains, AddrRange, TimeRange, Node, MemNode, Larger,
               Smaller
      <4>. QED  BY <4>1, <4>2
    <3>3. CASE t > other.time_max
      <4> DEFINE after == MemNode(floor, ceil, other.time_max + 1, self.time_max)
      <4>1. after \in FragmentBy(self, other)
        BY <1>2, <3>3 DEF FragmentBy, Node, Covers, RangeContains, TimeRange
      <4>2. Covers(after, t, a)
        BY <2>3, <3>3 DEF Covers, RangeContains, AddrRange, TimeRange, Node, MemNode, Larger,
               Smaller
      <4>. QED  BY <4>1, <4>2
    <3>. QED  BY <3>1, <3>2, <3>3
  <2>. QED  BY <2>1, <2>2, <2>3 DEF Node
<1>. QED  BY <1>1, <1>2

\* Disjointness of rectangles is inherited by what lies inside them.
THEOREM InsideDisjoint ==
  ASSUME NEW n \in Node, NEW m \in Node, NEW f \in Node, NEW g \in Node,
         NonEmpty(f), NonEmpty(g),
         Inside(f, n), Inside(g, m), NodeDisjoint(n, m)
  PROVE  NodeDisjoint(f, g)
BY DEF Node, NonEmpty, Inside, NodeDisjoint, RangeDisjoint, AddrRange, TimeRange

-----------------------------------------------------------------------------
(* The invariant *)

Inv == TypeOK /\ Keyed /\ EmittedLeavesArePast /\ LeavesDisjoint

GoodLeaf(l) == /\ l \in Leaf
               /\ l.addr_min <= l.addr_max
               /\ l.time_min <= l.time_max
               /\ l.bytes \in [0..(l.addr_max - l.addr_min) -> Byte]

NodeOf(l) == MemNode(l.addr_min, l.addr_max, l.time_min, l.time_max)

\* What remains of leaf l inside f.
Part(l, f) ==
  [addr_min |-> f.addr_min, addr_max |-> f.addr_max,
   time_min |-> f.time_min, time_max |-> f.time_max,
   bytes |-> Slice(l.bytes, f.addr_min - l.addr_min, f.addr_max - f.addr_min + 1)]

\* What remains of leaf l outside the rectangle r.
Pieces(l, r) == IF NodeDisjoint(l, r) THEN {l}
                ELSE {Part(l, f) : f \in FragmentBy(NodeOf(l), r)}

-----------------------------------------------------------------------------
(* Pieces *)

\* A leaf spans a non-empty rectangle.
LEMMA NodeOfLeaf ==
  ASSUME NEW l, GoodLeaf(l)
  PROVE  NodeOf(l) \in Node /\ NonEmpty(NodeOf(l))
BY ConstantsAssumption DEF GoodLeaf, Leaf, NodeOf, MemNode, Node, NonEmpty, Addr, Time

\* A slice has the length asked for, and the bytes from `from` on.
LEMMA SliceBytes ==
  ASSUME NEW m \in Int, NEW bytes \in [0..m -> Byte],
         NEW from \in Nat, NEW n \in Nat, from + n <= m
  PROVE  /\ Slice(bytes, from, n + 1) \in [0..n -> Byte]
         /\ \A i \in 0..n : Slice(bytes, from, n + 1)[i] = bytes[from + i]
<1>1. n + 1 - 1 = n
  OBVIOUS
<1>2. \A i \in 0..n : from + i \in 0..m
  OBVIOUS
<1>. QED  BY <1>1, <1>2 DEF Slice

\* The part of a leaf inside a rectangle of it is a leaf, spans that
\* rectangle, and holds the same byte at every address.
LEMMA PartOfLeaf ==
  ASSUME NEW l, GoodLeaf(l),
         NEW f \in Node, NonEmpty(f), Inside(f, NodeOf(l))
  PROVE  /\ GoodLeaf(Part(l, f))
         /\ NodeOf(Part(l, f)) = f
         /\ \A a \in f.addr_min..f.addr_max :
              Part(l, f).bytes[a - f.addr_min] = l.bytes[a - l.addr_min]
<1>. DEFINE p == Part(l, f)
<1>1. /\ f.addr_min \in Addr /\ f.addr_max \in Addr
      /\ f.time_min \in Time /\ f.time_max \in Time
      /\ l.addr_min \in Addr /\ l.addr_max \in Addr
      /\ l.addr_min <= f.addr_min /\ f.addr_min <= f.addr_max /\ f.addr_max <= l.addr_max
      /\ f.time_min <= f.time_max
  BY ConstantsAssumption
     DEF GoodLeaf, Leaf, NodeOf, MemNode, Node, NonEmpty, Inside, Addr, Time
<1>3. /\ p.bytes \in [0..(f.addr_max - f.addr_min) -> Byte]
      /\ \A i \in 0..(f.addr_max - f.addr_min) :
           p.bytes[i] = l.bytes[f.addr_min - l.addr_min + i]
  <2> DEFINE m    == l.addr_max - l.addr_min
             from == f.addr_min - l.addr_min
             n    == f.addr_max - f.addr_min
  <2>1. m \in Int /\ from \in Nat /\ n \in Nat /\ from + n <= m
    BY <1>1, ConstantsAssumption DEF Addr
  <2>2. l.bytes \in [0..m -> Byte]
    BY DEF GoodLeaf
  <2>3. p.bytes = Slice(l.bytes, from, n + 1)
    BY DEF Part
  <2> HIDE DEF m, from, n
  <2>4. /\ Slice(l.bytes, from, n + 1) \in [0..n -> Byte]
        /\ \A i \in 0..n : Slice(l.bytes, from, n + 1)[i] = l.bytes[from + i]
    BY <2>1, <2>2, SliceBytes
  <2>5. /\ p.bytes \in [0..n -> Byte]
        /\ \A i \in 0..n : p.bytes[i] = l.bytes[from + i]
    BY <2>3, <2>4
  <2>. QED  BY <2>5 DEF from, n
<1>4. f.addr_max - f.addr_min \in Addr
  BY <1>1, ConstantsAssumption DEF Addr
<1>5. p.bytes \in Bytes
  BY <1>3, <1>4 DEF Bytes
<1>6. p \in Leaf
  BY <1>1, <1>5 DEF Leaf, Part
<1>7. GoodLeaf(p)
  BY <1>1, <1>3, <1>6 DEF GoodLeaf, Part
<1>8. NodeOf(p) = f
  BY DEF NodeOf, MemNode, Node, Part
<1>9. ASSUME NEW a \in f.addr_min..f.addr_max
      PROVE  p.bytes[a - f.addr_min] = l.bytes[a - l.addr_min]
  <2>1. /\ a - f.addr_min \in 0..(f.addr_max - f.addr_min)
        /\ f.addr_min - l.addr_min + (a - f.addr_min) = a - l.addr_min
    BY <1>1, ConstantsAssumption DEF Addr
  <2>. QED  BY <1>3, <2>1
<1>. QED  BY <1>7, <1>8, <1>9

\* A piece of a leaf is a leaf, lies inside it and outside r, and holds the
\* same bytes.
LEMMA PieceOfLeaf ==
  ASSUME NEW l, GoodLeaf(l),
         NEW r \in Node, NonEmpty(r),
         NEW p \in Pieces(l, r)
  PROVE  /\ GoodLeaf(p)
         /\ Inside(NodeOf(p), NodeOf(l))
         /\ NodeDisjoint(p, r)
         /\ \A a \in p.addr_min..p.addr_max :
              p.bytes[a - p.addr_min] = l.bytes[a - l.addr_min]
<1>1. CASE NodeDisjoint(l, r)
  BY <1>1, ConstantsAssumption DEF Pieces, GoodLeaf, Leaf, Inside, NodeOf, MemNode, Addr, Time
<1>2. CASE ~NodeDisjoint(l, r)
  <2>1. PICK f \in FragmentBy(NodeOf(l), r) : p = Part(l, f)
    BY <1>2 DEF Pieces
  <2>2. /\ f \in Node /\ NonEmpty(f)
        /\ Inside(f, NodeOf(l)) /\ NodeDisjoint(f, r)
    BY NodeOfLeaf, FragmentsInsideSelf
  <2>3. GoodLeaf(p) /\ NodeOf(p) = f
    BY <2>1, <2>2, PartOfLeaf
  <2>4. /\ p.addr_min = f.addr_min /\ p.addr_max = f.addr_max
        /\ p.time_min = f.time_min /\ p.time_max = f.time_max
    BY <2>1 DEF Part
  <2>5. NodeDisjoint(p, r)
    BY <2>2, <2>4 DEF NodeDisjoint, AddrRange, TimeRange
  <2>. QED  BY <2>1, <2>2, <2>3, <2>4, <2>5, PartOfLeaf
<1>. QED  BY <1>1, <1>2

\* Two pieces of one leaf are disjoint.
LEMMA PiecesDisjoint ==
  ASSUME NEW l, GoodLeaf(l),
         NEW r \in Node, NonEmpty(r),
         NEW p \in Pieces(l, r), NEW q \in Pieces(l, r), p # q
  PROVE  NodeDisjoint(p, q)
<1>1. ~NodeDisjoint(l, r)
  BY DEF Pieces
<1>2. PICK f \in FragmentBy(NodeOf(l), r) : p = Part(l, f)
  BY <1>1 DEF Pieces
<1>3. PICK g \in FragmentBy(NodeOf(l), r) : q = Part(l, g)
  BY <1>1 DEF Pieces
<1>4. NodeDisjoint(f, g)
  BY <1>2, <1>3, NodeOfLeaf, FragmentsDisjoint
<1>. QED  BY <1>2, <1>3, <1>4 DEF Part, NodeDisjoint, AddrRange, TimeRange

\* What a leaf covers outside r, one of its pieces covers.
LEMMA PiecesCover ==
  ASSUME NEW l, GoodLeaf(l),
         NEW r \in Node, NonEmpty(r),
         NEW t \in Int, NEW a \in Int, Covers(l, t, a), ~Covers(r, t, a)
  PROVE  \E p \in Pieces(l, r) : Covers(p, t, a)
<1>1. CASE NodeDisjoint(l, r)
  BY <1>1 DEF Pieces
<1>2. CASE ~NodeDisjoint(l, r)
  <2>1. Covers(NodeOf(l), t, a)
    BY DEF Covers, NodeOf, MemNode, AddrRange, TimeRange
  <2>2. PICK f \in FragmentBy(NodeOf(l), r) : Covers(f, t, a)
    BY <2>1, NodeOfLeaf, FragmentsCover
  <2>3. Covers(Part(l, f), t, a)
    BY <2>2 DEF Covers, Part, AddrRange, TimeRange
  <2>. QED  BY <1>2, <2>3 DEF Pieces
<1>. QED  BY <1>1, <1>2

\* Pieces of two disjoint leaves are disjoint.
LEMMA PiecesApart ==
  ASSUME NEW l, GoodLeaf(l), NEW m, GoodLeaf(m), NodeDisjoint(l, m),
         NEW r \in Node, NonEmpty(r),
         NEW p \in Pieces(l, r), NEW q \in Pieces(m, r)
  PROVE  NodeDisjoint(p, q)
<1>1. /\ GoodLeaf(p) /\ Inside(NodeOf(p), NodeOf(l))
      /\ GoodLeaf(q) /\ Inside(NodeOf(q), NodeOf(m))
  BY PieceOfLeaf
<1>2. NodeDisjoint(NodeOf(l), NodeOf(m))
  BY DEF NodeDisjoint, NodeOf, MemNode, AddrRange, TimeRange
<1>3. NodeDisjoint(NodeOf(p), NodeOf(q))
  BY <1>1, <1>2, NodeOfLeaf, InsideDisjoint
<1>. QED  BY <1>3 DEF NodeDisjoint, NodeOf, MemNode, AddrRange, TimeRange

-----------------------------------------------------------------------------
(* The map *)

OpenLeaf(k) == Complete(temporaries[k], TimeMax)

\* An open leaf, seen as a leaf that lasts until Time::MAX.
LEMMA OpenLeafFields ==
  ASSUME NEW k
  PROVE  /\ OpenLeaf(k).addr_min = temporaries[k].addr_min
         /\ OpenLeaf(k).addr_max = temporaries[k].addr_max
         /\ OpenLeaf(k).time_min = temporaries[k].time_min
         /\ OpenLeaf(k).time_max = TimeMax
         /\ OpenLeaf(k).bytes = temporaries[k].bytes
BY DEF OpenLeaf, Complete

\* What the invariant says of open and emitted leaves alike.
LEMMA InvLeaves ==
  ASSUME Inv
  PROVE  /\ \A l \in AllLeaves : GoodLeaf(l)
         /\ \A k \in Open : /\ OpenLeaf(k) \in AllLeaves
                            /\ temporaries[k] \in TemporaryLeaf
                            /\ temporaries[k].addr_min = k
                            /\ k <= temporaries[k].addr_max
                            /\ temporaries[k].addr_max \in Addr
                            /\ temporaries[k].time_min \in Time
                            /\ temporaries[k].time_min <= current_time
<1>1. ASSUME NEW k \in Open
      PROVE  /\ OpenLeaf(k) \in AllLeaves
             /\ temporaries[k] \in TemporaryLeaf
             /\ temporaries[k].addr_min = k
             /\ k <= temporaries[k].addr_max
             /\ temporaries[k].addr_max \in Addr
             /\ temporaries[k].time_min \in Time
             /\ temporaries[k].time_min <= current_time
  BY DEF Inv, TypeOK, Keyed, Open, AllLeaves, OpenLeaf, TemporaryLeaf
<1>2. ASSUME NEW k \in Open
      PROVE  GoodLeaf(OpenLeaf(k))
  <2>1. OpenLeaf(k) \in Leaf
    <3>1. /\ temporaries[k].addr_min \in Addr /\ temporaries[k].addr_max \in Addr
          /\ temporaries[k].time_min \in Time /\ temporaries[k].bytes \in Bytes
      BY <1>1 DEF TemporaryLeaf
    <3>2. TimeMax \in Time
      BY ConstantsAssumption DEF Time
    <3>. QED  BY <3>1, <3>2 DEF OpenLeaf, Complete, Leaf
  <2>2. temporaries[k].time_min <= TimeMax
    BY <1>1, ConstantsAssumption DEF Time
  <2>3. OpenLeaf(k).bytes \in [0..(OpenLeaf(k).addr_max - OpenLeaf(k).addr_min) -> Byte]
    BY <1>1 DEF Inv, TypeOK
  <2>. QED  BY <1>1, <2>1, <2>2, <2>3, OpenLeafFields DEF GoodLeaf
<1>3. ASSUME NEW l \in leaves
      PROVE  GoodLeaf(l)
  BY DEF GoodLeaf, Inv, TypeOK, EmittedLeavesArePast, AllLeaves
<1>. QED  BY <1>1, <1>2, <1>3 DEF AllLeaves, OpenLeaf

\* Two open leaves never share an address.
LEMMA OpenLeavesApart ==
  ASSUME Inv, NEW j \in Open, NEW k \in Open, j < k
  PROVE  temporaries[j].addr_max < k
<1>1. OpenLeaf(j) # OpenLeaf(k)
  BY InvLeaves, ConstantsAssumption DEF OpenLeaf, Complete, Open, Addr
<1>2. NodeDisjoint(OpenLeaf(j), OpenLeaf(k))
  BY <1>1, InvLeaves DEF Inv, LeavesDisjoint, PairwiseDisjoint
<1>3. /\ j \in Int /\ k \in Int
      /\ temporaries[j].addr_min = j /\ temporaries[k].addr_min = k
      /\ temporaries[j].addr_max \in Int /\ temporaries[k].addr_max \in Int
      /\ temporaries[j].time_min \in 0..TimeMax /\ temporaries[k].time_min \in 0..TimeMax
      /\ k <= temporaries[k].addr_max
  BY InvLeaves, ConstantsAssumption DEF Open, Addr, Time
<1>. QED  BY <1>2, <1>3, OpenLeafFields, ConstantsAssumption
          DEF NodeDisjoint, RangeDisjoint, AddrRange, TimeRange

\* LookupIsComplete: looking one entry back finds every overlapping leaf.
LEMMA Lookup ==
  ASSUME Inv, NEW first \in Addr, NEW last \in Addr, first <= last
  PROVE  LET query == [min |-> first, max |-> last]
         IN  InRange(query) = {k \in Open : ~RangeDisjoint(AddrRange(temporaries[k]), query)}
<1> DEFINE query == [min |-> first, max |-> last]
           overlapping == {k \in Open : ~RangeDisjoint(AddrRange(temporaries[k]), query)}
<1>1. ASSUME NEW k \in InRange(query)
      PROVE  k \in overlapping
  BY InvLeaves, ConstantsAssumption
     DEF InRange, IsLastBefore, Open, RangeDisjoint, AddrRange, Addr
<1>2. ASSUME NEW k \in overlapping
      PROVE  k \in InRange(query)
  <2>1. k \in Addr /\ k <= last /\ first <= temporaries[k].addr_max
    BY InvLeaves, ConstantsAssumption DEF RangeDisjoint, AddrRange, Open, Addr
  <2>2. CASE first <= k
    BY <2>1, <2>2 DEF InRange
  <2>3. CASE k < first
    <3>1. ASSUME NEW j \in Open, j < first, k < j
          PROVE  FALSE
      BY <2>1, <3>1, OpenLeavesApart, InvLeaves, ConstantsAssumption DEF Open, Addr
    <3>2. IsLastBefore(k, first)
      BY <2>3, <3>1, ConstantsAssumption DEF IsLastBefore, Open, Addr
    <3>. QED  BY <2>1, <3>2 DEF InRange
  <2>. QED  BY <2>1, <2>2, <2>3, ConstantsAssumption DEF Addr
<1>. QED  BY <1>1, <1>2

-----------------------------------------------------------------------------
(* A Push that replaces *)

\* A new leaf as Push builds it.
NewLeaf(new) == /\ new \in TemporaryLeaf
                /\ new.addr_min <= new.addr_max
                /\ new.bytes \in [0..(new.addr_max - new.addr_min) -> Byte]
                /\ ~finished
                /\ current_time <= new.time_min

\* The rectangle of a new leaf is not empty.
LEMMA NewRect ==
  ASSUME NEW new, NewLeaf(new)
  PROVE  /\ Rect(new, TimeMax) \in Node
         /\ NonEmpty(Rect(new, TimeMax))
         /\ new \in TemporaryLeaf /\ new # NoLeaf
         /\ new.addr_min \in Addr /\ new.addr_max \in Addr /\ new.time_min \in Time
         /\ AddrRange(new) = [min |-> new.addr_min, max |-> new.addr_max]
BY ConstantsAssumption, NoLeafAssumption
   DEF NewLeaf, TemporaryLeaf, Rect, MemNode, Node, NonEmpty, AddrRange, Addr, Time

\* The lookup returns the open leaves the new leaf overlaps; the emitted
\* leaves it never overlaps.
LEMMA Overlapped ==
  ASSUME Inv, NEW new, NewLeaf(new)
  PROVE  LET r == Rect(new, TimeMax)
         IN  /\ \A k \in Open : k \in InRange(AddrRange(new)) <=> ~NodeDisjoint(OpenLeaf(k), r)
             /\ InRange(AddrRange(new)) \subseteq Open
             /\ \A l \in leaves : NodeDisjoint(l, r)
<1> DEFINE r == Rect(new, TimeMax)
<1>1. InRange(AddrRange(new))
        = {k \in Open : ~RangeDisjoint(AddrRange(temporaries[k]), AddrRange(new))}
  <2>1. new.addr_min <= new.addr_max
    BY DEF NewLeaf
  <2>. QED  BY <2>1, NewRect, Lookup
<1>2. ASSUME NEW k \in Open
      PROVE  ~RangeDisjoint(TimeRange(OpenLeaf(k)), TimeRange(r))
  <2>1. temporaries[k].time_min \in 0..TimeMax /\ new.time_min \in 0..TimeMax
    BY InvLeaves, NewRect DEF Time
  <2>. QED  BY <2>1, OpenLeafFields, ConstantsAssumption
            DEF RangeDisjoint, TimeRange, Rect, MemNode
<1>3. ASSUME NEW k \in Open
      PROVE  /\ AddrRange(OpenLeaf(k)) = AddrRange(temporaries[k])
             /\ AddrRange(r) = AddrRange(new)
  BY DEF AddrRange, OpenLeaf, Complete, Rect, MemNode
<1>4. ASSUME NEW l \in leaves
      PROVE  NodeDisjoint(l, r)
  BY NewRect, ConstantsAssumption
     DEF Inv, TypeOK, EmittedLeavesArePast, NewLeaf, Leaf, NodeDisjoint, RangeDisjoint,
         TimeRange, Rect, MemNode, Time
<1>. QED  BY <1>1, <1>2, <1>3, <1>4 DEF NodeDisjoint

\* mask_with_bbox keeps the part of the leaf inside the fragment.
LEMMA MaskIsPart ==
  ASSUME Inv, NEW k \in Open, NEW f \in Node
  PROVE  Complete(MaskWithBBox(temporaries[k], f), f.time_max) = Part(OpenLeaf(k), f)
<1>1. /\ temporaries[k].addr_min \in Int /\ temporaries[k].addr_max \in Int
      /\ f.addr_min \in Int /\ f.addr_max \in Int
  BY InvLeaves, ConstantsAssumption DEF Open, Addr, Node
<1>2. temporaries[k].addr_max - temporaries[k].addr_min + 1
        - (f.addr_min - temporaries[k].addr_min) - (temporaries[k].addr_max - f.addr_max)
        = f.addr_max - f.addr_min + 1
  BY <1>1
<1>3. MaskWithBBox(temporaries[k], f).bytes = Part(OpenLeaf(k), f).bytes
  <2> DEFINE from == f.addr_min - temporaries[k].addr_min
  <2>1. MaskWithBBox(temporaries[k], f).bytes
          = Slice(temporaries[k].bytes, from,
                  temporaries[k].addr_max - temporaries[k].addr_min + 1
                    - from - (temporaries[k].addr_max - f.addr_max))
    BY <1>1, SMT DEF MaskWithBBox
  <2>2. Part(OpenLeaf(k), f).bytes
          = Slice(temporaries[k].bytes, from, f.addr_max - f.addr_min + 1)
    BY OpenLeafFields DEF Part
  <2>. QED  BY <1>2, <2>1, <2>2
<1>. QED  BY <1>3 DEF Complete, MaskWithBBox, Part

\* The fragments the new leaf leaves of an overlapped one: those that stay
\* open are what sticks out on the left, under the old key, and what sticks
\* out on the right, under the address after the new leaf.
LEMMA FragmentsOfOpen ==
  ASSUME Inv, NEW new, NewLeaf(new),
         NEW k \in InRange(AddrRange(new)),
         NEW f \in Fragments(k, Rect(new, TimeMax))
  PROVE  /\ k \in Open
         /\ Fragments(k, Rect(new, TimeMax)) = FragmentBy(NodeOf(OpenLeaf(k)), Rect(new, TimeMax))
         /\ f \in Node /\ NonEmpty(f) /\ Inside(f, NodeOf(OpenLeaf(k)))
         /\ NodeDisjoint(f, Rect(new, TimeMax))
         /\ f.time_max = TimeMax =>
              \/ f.addr_min = k /\ f.addr_max < new.addr_min
              \/ f.addr_min = new.addr_max + 1 /\ f.addr_max = temporaries[k].addr_max
         /\ f.time_max # TimeMax => f.time_max = new.time_min - 1
         /\ f.time_min = temporaries[k].time_min
<1> DEFINE r == Rect(new, TimeMax)
           self == NodeOf(OpenLeaf(k))
<1>1. k \in Open /\ ~NodeDisjoint(OpenLeaf(k), r)
  BY Overlapped
<1>2. Rect(temporaries[k], TimeMax) = self
  BY OpenLeafFields DEF Rect, NodeOf
<1>3. Fragments(k, r) = FragmentBy(self, r) /\ f \in FragmentBy(self, r)
  BY <1>2 DEF Fragments
<1>4. self \in Node /\ NonEmpty(self) /\ r \in Node /\ NonEmpty(r)
  BY <1>1, InvLeaves, NodeOfLeaf, NewRect
<1>5. f \in Node /\ NonEmpty(f) /\ Inside(f, self) /\ NodeDisjoint(f, r)
  BY <1>3, <1>4, FragmentsInsideSelf
<1>6. ~NodeDisjoint(self, r)
  BY <1>1 DEF NodeDisjoint, NodeOf, MemNode, AddrRange, TimeRange
<1>7. /\ self.addr_min = k /\ self.addr_max = temporaries[k].addr_max
      /\ self.time_min = temporaries[k].time_min /\ self.time_max = TimeMax
      /\ r.addr_min = new.addr_min /\ r.addr_max = new.addr_max
      /\ r.time_min = new.time_min /\ r.time_max = TimeMax
  BY <1>1, InvLeaves, OpenLeafFields DEF NodeOf, Rect, MemNode
<1>8. new.time_min \in 0..TimeMax /\ new.addr_min \in Int /\ new.addr_max \in Int /\ k \in Int
  BY <1>1, NewRect, ConstantsAssumption DEF Open, Addr, Time
<1> HIDE DEF self, r
<1>9. \/ f = MemNode(self.addr_min, r.addr_min - 1, self.time_min, self.time_max)
      \/ f = MemNode(r.addr_max + 1, self.addr_max, self.time_min, self.time_max)
      \/ f = MemNode(Larger(r.addr_min, self.addr_min), Smaller(r.addr_max, self.addr_max),
                     self.time_min, r.time_min - 1)
      \/ r.time_max < self.time_max
  BY <1>3, <1>4, <1>6, FragmentShape
<1>10. ~(r.time_max < self.time_max) /\ r.time_min - 1 # TimeMax
  BY <1>7, <1>8, ConstantsAssumption
<1>11. /\ f.time_max = TimeMax =>
            \/ f.addr_min = k /\ f.addr_max < new.addr_min
            \/ f.addr_min = new.addr_max + 1 /\ f.addr_max = temporaries[k].addr_max
       /\ f.time_max # TimeMax => f.time_max = new.time_min - 1
       /\ f.time_min = temporaries[k].time_min
  BY <1>7, <1>8, <1>9, <1>10 DEF MemNode
<1>. QED  BY <1>1, <1>3, <1>5, <1>11 DEF self, r

\* The open leaves that Replace adds, besides the new one.
LEMMA AddedLeaves ==
  ASSUME Inv, NEW new, NewLeaf(new),
         NEW g \in StillOpen(AddrRange(new), Rect(new, TimeMax))
  PROVE  \E k \in InRange(AddrRange(new)) : \E f \in Fragments(k, Rect(new, TimeMax)) :
           /\ f.time_max = TimeMax
           /\ g = MaskWithBBox(temporaries[k], f)
           /\ Complete(g, TimeMax) = Part(OpenLeaf(k), f)
           /\ g.addr_min = f.addr_min
           /\ g.addr_min \in Addr
           /\ g.addr_min # new.addr_min
           /\ g # NoLeaf
           /\ \A j \in Open : j = g.addr_min => j \in InRange(AddrRange(new))
<1> DEFINE r == Rect(new, TimeMax)
           range == AddrRange(new)
<1>0. PICK k \in InRange(range) : \E f \in Fragments(k, r) :
        f.time_max = TimeMax /\ g = MaskWithBBox(temporaries[k], f)
  BY DEF StillOpen
<1>1. PICK f \in Fragments(k, r) :
        f.time_max = TimeMax /\ g = MaskWithBBox(temporaries[k], f)
  BY <1>0
<1>2. /\ k \in Open /\ f \in Node /\ NonEmpty(f) /\ Inside(f, NodeOf(OpenLeaf(k)))
      /\ NodeDisjoint(f, r)
      /\ \/ f.addr_min = k /\ f.addr_max < new.addr_min
         \/ f.addr_min = new.addr_max + 1 /\ f.addr_max = temporaries[k].addr_max
  BY <1>1, FragmentsOfOpen
<1>3. Complete(g, TimeMax) = Part(OpenLeaf(k), f)
  BY <1>1, <1>2, MaskIsPart
<1>4. GoodLeaf(Complete(g, TimeMax))
  BY <1>2, <1>3, InvLeaves, PartOfLeaf
<1>5. g.addr_min = f.addr_min /\ Complete(g, TimeMax).addr_min = g.addr_min
  BY <1>1 DEF MaskWithBBox, Complete
<1>6. g.addr_min \in Addr
  BY <1>4, <1>5 DEF GoodLeaf, Leaf
<1>7. /\ new.addr_min \in Int /\ new.addr_max \in Int /\ new.addr_min <= new.addr_max
      /\ k \in Int /\ k <= f.addr_max /\ f.addr_min \in Int /\ f.addr_max \in Int
      /\ f.addr_min <= f.addr_max
  <2>1. /\ new.addr_min \in Int /\ new.addr_max \in Int /\ new.addr_min <= new.addr_max
    BY NewRect, ConstantsAssumption DEF NewLeaf, Addr
  <2>2. k \in Int /\ NodeOf(OpenLeaf(k)).addr_min = k
    BY <1>2, OpenLeafFields, InvLeaves, ConstantsAssumption DEF Open, Addr, NodeOf, MemNode
  <2>3. /\ f.addr_min \in Int /\ f.addr_max \in Int /\ f.addr_min <= f.addr_max
    BY <1>2, ConstantsAssumption DEF Node, NonEmpty, Addr
  <2>4. k <= f.addr_max
    <3>1. k <= f.addr_min
      BY <1>2, <2>2 DEF Inside
    <3>. QED  BY <2>2, <2>3, <3>1
  <2>. QED  BY <2>1, <2>2, <2>3, <2>4
<1>8. g.addr_min # new.addr_min
  BY <1>2, <1>5, <1>7
<1>9. g \in TemporaryLeaf
  BY <1>1, <1>4 DEF MaskWithBBox, Complete, GoodLeaf, Leaf, TemporaryLeaf
<1>10. ASSUME NEW j \in Open, j = g.addr_min
       PROVE  j \in InRange(range)
  <2>1. CASE f.addr_min = k
    BY <1>5, <1>10, <2>1
  <2>2. CASE f.addr_min = new.addr_max + 1 /\ f.addr_max = temporaries[k].addr_max
    <3>1. j = k
      <4>1. SUFFICES ASSUME k # j PROVE FALSE
        OBVIOUS
      <4>2. k <= f.addr_min /\ f.addr_min <= temporaries[k].addr_max
        BY <1>2, <2>2, <1>7, InvLeaves, OpenLeafFields DEF Inside, NodeOf, MemNode
      <4>3. k < j
        BY <1>5, <1>7, <1>10, <4>1, <4>2
      <4>4. temporaries[k].addr_max < j
        BY <1>2, <4>3, OpenLeavesApart
      <4>. QED  BY <1>5, <1>7, <1>10, <2>2, <4>2, <4>4
    <3>. QED  BY <3>1
  <2>. QED  BY <1>2, <2>1, <2>2
<1>. QED  BY <1>1, <1>3, <1>5, <1>6, <1>8, <1>9, <1>10, NoLeafAssumption

\* No two added leaves compete for a key of the map.
LEMMA AddedUnique ==
  ASSUME Inv, NEW new, NewLeaf(new),
         NEW g \in StillOpen(AddrRange(new), Rect(new, TimeMax)),
         NEW h \in StillOpen(AddrRange(new), Rect(new, TimeMax)),
         g.addr_min = h.addr_min
  PROVE  g = h
<1> DEFINE r == Rect(new, TimeMax)
           range == AddrRange(new)
<1>1. PICK k \in InRange(range) : \E f \in Fragments(k, r) :
        f.time_max = TimeMax /\ g = MaskWithBBox(temporaries[k], f) /\ g.addr_min = f.addr_min
  BY AddedLeaves
<1>2. PICK f \in Fragments(k, r) :
        f.time_max = TimeMax /\ g = MaskWithBBox(temporaries[k], f) /\ g.addr_min = f.addr_min
  BY <1>1
<1>3. PICK j \in InRange(range) : \E e \in Fragments(j, r) :
        e.time_max = TimeMax /\ h = MaskWithBBox(temporaries[j], e) /\ h.addr_min = e.addr_min
  BY AddedLeaves
<1>4. PICK e \in Fragments(j, r) :
        e.time_max = TimeMax /\ h = MaskWithBBox(temporaries[j], e) /\ h.addr_min = e.addr_min
  BY <1>3
<1>5. /\ k \in Open /\ f \in Node /\ NonEmpty(f) /\ Inside(f, NodeOf(OpenLeaf(k)))
      /\ Fragments(k, r) = FragmentBy(NodeOf(OpenLeaf(k)), r)
  BY FragmentsOfOpen
<1>6. j \in Open /\ e \in Node /\ NonEmpty(e) /\ Inside(e, NodeOf(OpenLeaf(j)))
  BY FragmentsOfOpen
<1>7. /\ k <= f.addr_min /\ f.addr_min <= f.addr_max /\ f.addr_max <= temporaries[k].addr_max
      /\ j <= e.addr_min /\ e.addr_min <= e.addr_max /\ e.addr_max <= temporaries[j].addr_max
      /\ k \in Int /\ j \in Int /\ f.addr_min \in Int /\ f.addr_min = e.addr_min
      /\ temporaries[k].addr_max \in Int /\ temporaries[j].addr_max \in Int
      /\ f.addr_max \in Int /\ e.addr_max \in Int
  BY <1>2, <1>4, <1>5, <1>6, InvLeaves, OpenLeafFields, ConstantsAssumption
     DEF Node, NonEmpty, Inside, NodeOf, MemNode, Open, Addr
<1>8. k = j
  <2>1. ~(k < j)
    BY <1>5, <1>6, <1>7, OpenLeavesApart
  <2>2. ~(j < k)
    BY <1>5, <1>6, <1>7, OpenLeavesApart
  <2>. QED  BY <1>7, <2>1, <2>2
<1>9. f = e
  <2>1. ~NodeDisjoint(f, e)
    BY <1>2, <1>4, <1>5, <1>6, <1>7
       DEF NodeDisjoint, RangeDisjoint, AddrRange, TimeRange, Node, NonEmpty
  <2>2. NodeOf(OpenLeaf(k)) \in Node /\ NonEmpty(NodeOf(OpenLeaf(k))) /\ r \in Node /\ NonEmpty(r)
    BY <1>5, InvLeaves, NodeOfLeaf, NewRect
  <2>. QED  BY <1>5, <1>8, <2>1, <2>2, FragmentsDisjoint
<1>. QED  BY <1>2, <1>4, <1>8, <1>9

\* The map after Replace, entry by entry.
LEMMA NewMap ==
  ASSUME Inv, NEW new, NewLeaf(new), Replace(new)
  PROVE  LET added == StillOpen(AddrRange(new), Rect(new, TimeMax))
         IN  /\ temporaries'[new.addr_min] = new
             /\ \A g \in added : temporaries'[g.addr_min] = g
             /\ \A a \in Addr : \/ a = new.addr_min
                                \/ temporaries'[a] \in added /\ temporaries'[a].addr_min = a
                                \/ temporaries'[a] = NoLeaf
                                \/ temporaries'[a] = temporaries[a] /\ a \notin InRange(AddrRange(new))
             /\ \A k \in Open \ InRange(AddrRange(new)) : temporaries'[k] = temporaries[k]
<1> DEFINE r == Rect(new, TimeMax)
           range == AddrRange(new)
           added == StillOpen(range, r)
           removed == ToRemove(range, r)
<1>1. temporaries' = [a \in Addr |->
           IF a = new.addr_min THEN new
           ELSE IF \E f \in added : f.addr_min = a
                THEN CHOOSE f \in added : f.addr_min = a
           ELSE IF a \in removed THEN NoLeaf
           ELSE temporaries[a]]
  BY DEF Replace
<1>2. new.addr_min \in Addr
  BY NewRect
<1>3. \A g \in added : /\ g.addr_min \in Addr /\ g.addr_min # new.addr_min
                       /\ \A j \in Open : j = g.addr_min => j \in InRange(range)
  BY AddedLeaves
<1>4. \A g, h \in added : g.addr_min = h.addr_min => g = h
  BY AddedUnique
<1>5. \A k \in InRange(range) :
        k \in removed \/ \E g \in added : g.addr_min = k
  <2> SUFFICES ASSUME NEW k \in InRange(range), k \notin removed
               PROVE  \E g \in added : g.addr_min = k
    OBVIOUS
  <2>1. PICK f \in Fragments(k, r) : f.time_max = TimeMax /\ f.addr_min = temporaries[k].addr_min
    BY DEF ToRemove
  <2>2. MaskWithBBox(temporaries[k], f) \in added
    BY <2>1 DEF StillOpen
  <2>3. MaskWithBBox(temporaries[k], f).addr_min = f.addr_min
    BY DEF MaskWithBBox
  <2>4. temporaries[k].addr_min = k
    BY FragmentsOfOpen, InvLeaves
  <2>. QED  BY <2>1, <2>2, <2>3, <2>4
<1>6. removed \subseteq InRange(range)
  BY DEF ToRemove
<1> HIDE DEF added, removed, range, r
<1>7. temporaries'[new.addr_min] = new
  BY <1>1, <1>2
<1>8. ASSUME NEW g \in added
      PROVE  temporaries'[g.addr_min] = g
  <2>1. temporaries'[g.addr_min] = CHOOSE f \in added : f.addr_min = g.addr_min
    BY <1>1, <1>3
  <2>. QED  BY <1>4, <2>1
<1>9. ASSUME NEW a \in Addr
      PROVE  \/ a = new.addr_min
             \/ temporaries'[a] \in added /\ temporaries'[a].addr_min = a
             \/ temporaries'[a] = NoLeaf
             \/ temporaries'[a] = temporaries[a] /\ a \notin InRange(range)
  <2>1. CASE \E f \in added : f.addr_min = a
    BY <1>8, <2>1
  <2>2. CASE ~ \E f \in added : f.addr_min = a
    BY <1>1, <1>5, <2>2
  <2>. QED  BY <2>1, <2>2
<1>10. ASSUME NEW k \in Open \ InRange(range)
       PROVE  temporaries'[k] = temporaries[k]
  <2>1. k # new.addr_min
    <3>1. ~RangeDisjoint(AddrRange(temporaries[new.addr_min]), AddrRange(new))
          \/ new.addr_min \notin Open
      BY NewRect, InvLeaves, ConstantsAssumption
         DEF NewLeaf, RangeDisjoint, AddrRange, Open, Addr
    <3>2. \/ new.addr_min \notin Open
          \/ new.addr_min \in InRange(AddrRange(new))
      BY <3>1, NewRect, Lookup DEF NewLeaf
    <3>. QED  BY <3>2 DEF range
  <2>2. k \in Addr
    BY DEF Open
  <2>. QED  BY <1>1, <1>3, <1>6, <2>1, <2>2
<1>. QED  BY <1>7, <1>8, <1>9, <1>10 DEF added, range, r

\* The step: every leaf is replaced by its pieces outside the new leaf, and
\* the new leaf is added.
LEMMA AllLeavesAfterReplace ==
  ASSUME Inv, NEW new, NewLeaf(new), Replace(new)
  PROVE  AllLeaves' = (UNION {Pieces(l, Rect(new, TimeMax)) : l \in AllLeaves})
                        \cup {Complete(new, TimeMax)}
<1> DEFINE r == Rect(new, TimeMax)
           range == AddrRange(new)
           added == StillOpen(range, r)
           cut == UNION {Pieces(l, r) : l \in AllLeaves}
<1>1. AllLeaves' = leaves' \cup {Complete(temporaries'[k], TimeMax) : k \in Open'}
  BY DEF AllLeaves
<1>2. leaves' = leaves \cup Ended(range, r)
  BY DEF Replace
<1>3. Open' = {k \in Addr : temporaries'[k] # NoLeaf}
  BY DEF Open
<1>4. /\ \A k \in Open : k \in InRange(range) <=> ~NodeDisjoint(OpenLeaf(k), r)
      /\ InRange(range) \subseteq Open
      /\ \A l \in leaves : NodeDisjoint(l, r)
  BY Overlapped
<1>5. \A k \in Open : OpenLeaf(k) \in AllLeaves
  BY InvLeaves
<1>6. \A l \in leaves : l \in AllLeaves /\ Pieces(l, r) = {l}
  BY <1>4 DEF AllLeaves, Pieces
<1>7. \A k \in Open \ InRange(range) : Pieces(OpenLeaf(k), r) = {OpenLeaf(k)}
  BY <1>4 DEF Pieces
<1>8. \A k \in InRange(range) :
        Pieces(OpenLeaf(k), r) = {Part(OpenLeaf(k), f) : f \in Fragments(k, r)}
  <2> TAKE k \in InRange(range)
  <2>1. ~NodeDisjoint(OpenLeaf(k), r)
    BY <1>4
  <2>2. Rect(temporaries[k], TimeMax) = NodeOf(OpenLeaf(k))
    BY OpenLeafFields DEF Rect, NodeOf
  <2>. QED  BY <2>1, <2>2 DEF Pieces, Fragments
<1>9. \A k \in InRange(range) : \A f \in Fragments(k, r) :
        Complete(MaskWithBBox(temporaries[k], f), f.time_max) = Part(OpenLeaf(k), f)
  BY FragmentsOfOpen, MaskIsPart
<1>10. \A g \in added : \E k \in InRange(range) : \E f \in Fragments(k, r) :
         Complete(g, TimeMax) = Part(OpenLeaf(k), f)
  BY AddedLeaves
<1>11. ASSUME NEW p \in AllLeaves'
       PROVE  p \in cut \cup {Complete(new, TimeMax)}
  <2>1. CASE p \in leaves
    BY <1>6, <2>1
  <2>2. CASE p \in Ended(range, r)
    <3>1. PICK k \in InRange(range) : \E f \in Fragments(k, r) :
            p = Complete(MaskWithBBox(temporaries[k], f), f.time_max)
      BY <2>2 DEF Ended
    <3>. QED  BY <1>4, <1>5, <1>8, <1>9, <3>1
  <2>3. ASSUME NEW a \in Open', p = Complete(temporaries'[a], TimeMax)
        PROVE  p \in cut \cup {Complete(new, TimeMax)}
    <3>1. a \in Addr /\ temporaries'[a] # NoLeaf
      BY <1>3
    <3>2. CASE a = new.addr_min
      BY <2>3, <3>2, NewMap
    <3>3. CASE temporaries'[a] \in added
      BY <1>4, <1>5, <1>8, <1>10, <2>3, <3>3
    <3>4. CASE temporaries'[a] = temporaries[a] /\ a \notin InRange(range)
      <4>1. a \in Open /\ p = OpenLeaf(a)
        BY <2>3, <3>1, <3>4 DEF Open, OpenLeaf
      <4>. QED  BY <1>5, <1>7, <3>4, <4>1
    <3>. QED  BY <3>1, <3>2, <3>3, <3>4, NewMap
  <2>. QED  BY <1>1, <1>2, <2>1, <2>2, <2>3
<1>12. Complete(new, TimeMax) \in AllLeaves'
  <2>1. new.addr_min \in Open' /\ temporaries'[new.addr_min] = new
    BY <1>3, NewRect, NewMap
  <2>. QED  BY <1>1, <2>1
<1>13. ASSUME NEW l \in AllLeaves, NEW p \in Pieces(l, r)
       PROVE  p \in AllLeaves'
  <2>1. CASE l \in leaves
    BY <1>1, <1>2, <1>6, <2>1
  <2>2. ASSUME NEW k \in Open, l = OpenLeaf(k)
        PROVE  p \in AllLeaves'
    <3>1. CASE k \notin InRange(range)
      <4>1. temporaries'[k] = temporaries[k] /\ k \in Open'
        BY <1>3, <3>1, NewMap DEF Open
      <4>. QED  BY <1>1, <1>7, <2>2, <3>1, <4>1 DEF OpenLeaf
    <3>2. CASE k \in InRange(range)
      <4>1. PICK f \in Fragments(k, r) : p = Part(OpenLeaf(k), f)
        BY <1>8, <2>2, <3>2
      <4>2. p = Complete(MaskWithBBox(temporaries[k], f), f.time_max)
        BY <1>9, <3>2, <4>1
      <4>3. CASE f.time_max = TimeMax
        <5> DEFINE g == MaskWithBBox(temporaries[k], f)
        <5>1. g \in added
          BY <3>2, <4>3 DEF StillOpen
        <5>2. g.addr_min \in Addr /\ g # NoLeaf
          BY <5>1, AddedLeaves
        <5>3. temporaries'[g.addr_min] = g
          BY <5>1, NewMap
        <5> HIDE DEF g
        <5>4. g.addr_min \in Open'
          BY <1>3, <5>2, <5>3
        <5>5. Complete(temporaries'[g.addr_min], TimeMax) = p
          BY <4>2, <4>3, <5>3 DEF g
        <5>. QED  BY <1>1, <5>4, <5>5
      <4>4. CASE f.time_max # TimeMax
        <5>1. p \in Ended(range, r)
          BY <3>2, <4>2, <4>4 DEF Ended
        <5>. QED  BY <1>1, <1>2, <5>1
      <4>. QED  BY <4>3, <4>4
    <3>. QED  BY <3>1, <3>2
  <2>. QED  BY <2>1, <2>2 DEF AllLeaves, OpenLeaf
<1>. QED  BY <1>11, <1>12, <1>13


\* A new leaf, seen as lasting until Time::MAX, is a leaf.
LEMMA NewLeafGood ==
  ASSUME NEW new, NewLeaf(new)
  PROVE  /\ GoodLeaf(Complete(new, TimeMax))
         /\ NodeOf(Complete(new, TimeMax)) = Rect(new, TimeMax)
<1>1. /\ new.addr_min \in Addr /\ new.addr_max \in Addr
      /\ new.time_min \in Time /\ new.bytes \in Bytes
  BY DEF NewLeaf, TemporaryLeaf
<1>2. TimeMax \in Time /\ new.time_min <= TimeMax
  BY <1>1, ConstantsAssumption DEF Time
<1>. QED  BY <1>1, <1>2 DEF NewLeaf, GoodLeaf, Complete, Leaf, NodeOf, Rect, MemNode

\* Replace keeps every leaf well formed and the leaves disjoint.
LEMMA ReplaceKeepsLeaves ==
  ASSUME Inv, NEW new, NewLeaf(new), Replace(new)
  PROVE  (\A l \in AllLeaves' : GoodLeaf(l)) /\ LeavesDisjoint'
<1> DEFINE r == Rect(new, TimeMax)
           newest == Complete(new, TimeMax)
<1>1. /\ r \in Node /\ NonEmpty(r)
      /\ GoodLeaf(newest) /\ NodeOf(newest) = r
  BY NewRect, NewLeafGood
<1>2. AllLeaves' = (UNION {Pieces(l, r) : l \in AllLeaves}) \cup {newest}
  BY AllLeavesAfterReplace
<1>3. \A l \in AllLeaves : GoodLeaf(l)
  BY InvLeaves
<1>4. \A n \in AllLeaves, m \in AllLeaves : n = m \/ NodeDisjoint(n, m)
  BY DEF Inv, LeavesDisjoint, PairwiseDisjoint
<1> HIDE DEF r, newest
<1>5. ASSUME NEW l \in AllLeaves, NEW p \in Pieces(l, r)
      PROVE  GoodLeaf(p) /\ NodeDisjoint(p, r)
  BY <1>1, <1>3, PieceOfLeaf
<1>6. ASSUME NEW l \in AllLeaves, NEW p \in Pieces(l, r)
      PROVE  NodeDisjoint(p, newest) /\ NodeDisjoint(newest, p)
  <2>1. /\ newest.addr_min = r.addr_min /\ newest.addr_max = r.addr_max
        /\ newest.time_min = r.time_min /\ newest.time_max = r.time_max
    BY <1>1 DEF NodeOf, MemNode
  <2>2. /\ p.addr_min \in Int /\ p.addr_max \in Int /\ p.time_min \in Int /\ p.time_max \in Int
        /\ r.addr_min \in Int /\ r.addr_max \in Int /\ r.time_min \in Int /\ r.time_max \in Int
    BY <1>1, <1>5, ConstantsAssumption DEF GoodLeaf, Leaf, Addr, Time, Node
  <2>. QED  BY <1>5, <2>1, <2>2 DEF NodeDisjoint, RangeDisjoint, AddrRange, TimeRange
<1>7. ASSUME NEW l \in AllLeaves, NEW p \in Pieces(l, r),
             NEW m \in AllLeaves, NEW q \in Pieces(m, r), p # q
      PROVE  NodeDisjoint(p, q)
  <2>1. CASE l = m
    BY <1>1, <1>3, <1>7, <2>1, PiecesDisjoint
  <2>2. CASE l # m
    BY <1>1, <1>3, <1>4, <2>2, PiecesApart
  <2>. QED  BY <2>1, <2>2
<1>8. \A l \in AllLeaves' : GoodLeaf(l)
  BY <1>1, <1>2, <1>5
<1>9. ASSUME NEW p \in AllLeaves', NEW q \in AllLeaves', p # q
      PROVE  NodeDisjoint(p, q)
  BY <1>2, <1>6, <1>7, <1>9
<1>10. LeavesDisjoint'
  BY <1>9 DEF LeavesDisjoint, PairwiseDisjoint
<1>. QED  BY <1>8, <1>10

\* Replace keeps the invariant when the clock moves to the new leaf.
LEMMA ReplaceKeepsInv ==
  ASSUME Inv, NEW new, NewLeaf(new), Replace(new),
         current_time' = new.time_min, UNCHANGED finished
  PROVE  Inv'
<1> DEFINE r == Rect(new, TimeMax)
           range == AddrRange(new)
           added == StillOpen(range, r)
<1>1. (\A l \in AllLeaves' : GoodLeaf(l)) /\ LeavesDisjoint'
  BY ReplaceKeepsLeaves
<1>2. /\ AllLeaves' = leaves' \cup {Complete(temporaries'[k], TimeMax) : k \in Open'}
      /\ Open' = {k \in Addr : temporaries'[k] # NoLeaf}
  BY DEF AllLeaves, Open
<1>3. DOMAIN temporaries' = Addr /\ temporaries' = [a \in Addr |-> temporaries'[a]]
  BY DEF Replace
<1>4. \A k \in Open' : temporaries'[k].addr_min = k
  <2> TAKE k \in Open'
  <2>1. k \in Addr /\ temporaries'[k] # NoLeaf
    BY <1>2
  <2>2. \/ k = new.addr_min
        \/ temporaries'[k].addr_min = k
        \/ temporaries'[k] = temporaries[k]
    BY <2>1, NewMap
  <2>3. CASE k = new.addr_min
    BY <2>3, NewMap
  <2>4. CASE temporaries'[k] = temporaries[k]
    BY <2>1, <2>4, InvLeaves DEF Open
  <2>. QED  BY <2>2, <2>3, <2>4
<1>5. ASSUME NEW k \in Open'
      PROVE  /\ temporaries'[k] \in TemporaryLeaf
             /\ temporaries'[k].addr_min <= temporaries'[k].addr_max
             /\ temporaries'[k].time_min <= new.time_min
  <2>1. k \in Addr /\ temporaries'[k] # NoLeaf
    BY <1>2
  <2>2. GoodLeaf(Complete(temporaries'[k], TimeMax))
    BY <1>1, <1>2
  <2>3. temporaries'[k].addr_min <= temporaries'[k].addr_max
    BY <2>2 DEF GoodLeaf, Complete
  <2>4. CASE k = new.addr_min
    BY <2>4, <2>3, NewMap, NewRect, ConstantsAssumption DEF Time
  <2>5. CASE temporaries'[k] = temporaries[k]
    BY <2>1, <2>3, <2>5, InvLeaves, NewRect, ConstantsAssumption
       DEF Open, NewLeaf, Time, Inv, TypeOK
  <2>6. CASE temporaries'[k] \in added
    <3>1. PICK j \in InRange(range) : \E f \in Fragments(j, r) :
            f.time_max = TimeMax /\ temporaries'[k] = MaskWithBBox(temporaries[j], f)
      BY <2>6 DEF StillOpen
    <3>2. PICK f \in Fragments(j, r) :
            f.time_max = TimeMax /\ temporaries'[k] = MaskWithBBox(temporaries[j], f)
      BY <3>1
    <3>3. temporaries'[k] \in TemporaryLeaf
      BY <2>2, <3>2 DEF GoodLeaf, Leaf, Complete, MaskWithBBox, TemporaryLeaf
    <3>4. j \in Open /\ f.time_min = temporaries[j].time_min
      BY <3>2, FragmentsOfOpen
    <3>5. temporaries'[k].time_min = temporaries[j].time_min
      BY <3>2, <3>4 DEF MaskWithBBox
    <3>. QED  BY <2>3, <3>3, <3>4, <3>5, InvLeaves, NewRect, ConstantsAssumption
              DEF NewLeaf, Time, Inv, TypeOK
  <2>. QED  BY <2>1, <2>4, <2>5, <2>6, NewMap
<1>6. \A l \in leaves' : l.time_max < new.time_min
  <2>1. leaves' = leaves \cup Ended(range, r)
    BY DEF Replace
  <2>2. ASSUME NEW l \in leaves
        PROVE  l.time_max < new.time_min
    BY ConstantsAssumption, NewRect
       DEF Inv, TypeOK, EmittedLeavesArePast, NewLeaf, Leaf, Time
  <2>3. ASSUME NEW l \in Ended(range, r)
        PROVE  l.time_max < new.time_min
    <3>1. PICK k \in InRange(range) : \E f \in Fragments(k, r) :
            f.time_max # TimeMax /\ l = Complete(MaskWithBBox(temporaries[k], f), f.time_max)
      BY <2>3 DEF Ended
    <3>2. PICK f \in Fragments(k, r) :
            f.time_max # TimeMax /\ l = Complete(MaskWithBBox(temporaries[k], f), f.time_max)
      BY <3>1
    <3>3. f.time_max = new.time_min - 1
      BY <3>2, FragmentsOfOpen
    <3>4. l.time_max = f.time_max
      BY <3>2 DEF Complete
    <3>. QED  BY <3>3, <3>4, NewRect, ConstantsAssumption DEF Time
  <2>. QED  BY <2>1, <2>2, <2>3
<1>7. \A l \in leaves' : GoodLeaf(l)
  BY <1>1, <1>2
<1>8. TypeOK'
  <2>1. temporaries' \in [Addr -> TemporaryLeaf \cup {NoLeaf}]
    BY <1>2, <1>3, <1>5
  <2>2. leaves' \subseteq Leaf
    BY <1>7 DEF GoodLeaf
  <2>3. current_time' \in Time /\ finished' \in BOOLEAN
    BY NewRect DEF Inv, TypeOK
  <2>. QED  BY <1>1, <2>1, <2>2, <2>3 DEF TypeOK, GoodLeaf
<1>9. Keyed'
  BY <1>4, <1>5 DEF Keyed
<1>10. EmittedLeavesArePast'
  <2>1. ASSUME NEW l \in leaves'
        PROVE  /\ l.addr_min <= l.addr_max /\ l.time_min <= l.time_max
               /\ l.time_max <= current_time' /\ l.time_max < current_time'
    <3>1. l.time_max \in Int /\ new.time_min \in Int
      BY <1>7, NewRect, ConstantsAssumption DEF GoodLeaf, Leaf, Time
    <3>. QED  BY <1>6, <1>7, <3>1 DEF GoodLeaf
  <2>. QED  BY <2>1 DEF EmittedLeavesArePast
<1>. QED  BY <1>1, <1>8, <1>9, <1>10 DEF Inv

-----------------------------------------------------------------------------
(* The invariant *)

\* The arguments Push may be called with, and the leaf it opens.
PushArgs(at, addr, len, bytes) ==
  /\ at \in Time /\ addr \in Addr /\ len \in 1..MaxLen /\ addr + len - 1 \in Addr
  /\ bytes \in [0..(len - 1) -> Byte]

PushLeaf(at, addr, len, bytes) ==
  [addr_min |-> FromStartLen(addr, len).min, addr_max |-> FromStartLen(addr, len).max,
   time_min |-> at, bytes |-> bytes]

\* A Push that is allowed to run opens a leaf as ReplaceKeepsInv expects.
LEMMA PushLeafIsNew ==
  ASSUME Inv, NEW at, NEW addr, NEW len, NEW bytes, PushArgs(at, addr, len, bytes),
         ~finished, current_time <= at
  PROVE  /\ NewLeaf(PushLeaf(at, addr, len, bytes))
         /\ FromStartLen(addr, len) = [min |-> addr, max |-> addr + len - 1]
<1> DEFINE new == PushLeaf(at, addr, len, bytes)
<1>1. /\ addr \in Int /\ len \in Int /\ len >= 1
      /\ addr + (len - 1) = addr + len - 1 /\ addr + len - 1 \in Addr
      /\ len - 1 \in Addr
  BY ConstantsAssumption DEF PushArgs, Addr
<1>2. FromStartLen(addr, len) = [min |-> addr, max |-> addr + len - 1]
  BY <1>1 DEF FromStartLen
<1>3. /\ new.addr_min = addr /\ new.addr_max = addr + len - 1
      /\ new.time_min = at /\ new.bytes = bytes
  BY <1>2 DEF PushLeaf
<1>4. bytes \in Bytes
  BY <1>1 DEF PushArgs, Bytes
<1>5. new \in TemporaryLeaf
  BY <1>1, <1>2, <1>4 DEF PushArgs, PushLeaf, TemporaryLeaf
<1>6. addr + len - 1 - addr = len - 1 /\ addr <= addr + len - 1
  BY <1>1
<1> HIDE DEF new
<1>7. new.bytes \in [0..(new.addr_max - new.addr_min) -> Byte]
  <2>1. new.addr_max - new.addr_min = len - 1
    BY <1>1, <1>3
  <2>2. bytes \in [0..(len - 1) -> Byte]
    BY DEF PushArgs
  <2>. QED  BY <1>3, <2>1, <2>2
<1>8. new.addr_min <= new.addr_max /\ current_time <= new.time_min
  BY <1>1, <1>3
<1>. QED  BY <1>2, <1>5, <1>7, <1>8 DEF NewLeaf, new

\* push_memory_write keeps the invariant, deduplicated or not.
LEMMA PushKeepsInv ==
  ASSUME Inv, NEW at, NEW addr, NEW len, NEW bytes, PushArgs(at, addr, len, bytes),
         NEW can_dedup, Push(at, addr, len, bytes, can_dedup)
  PROVE  Inv'
<1>1. /\ ~finished /\ current_time <= at /\ current_time' = at /\ UNCHANGED finished
  BY DEF Push
<1>2. at \in Time
  BY DEF PushArgs
<1>3. CASE UNCHANGED <<temporaries, leaves>>
  <2>1. /\ Open' = Open /\ AllLeaves' = AllLeaves
    BY <1>3 DEF Open, AllLeaves, Complete
  <2>2. TypeOK'
    BY <1>1, <1>2, <1>3, <2>1 DEF Inv, TypeOK
  <2>3. current_time \in Int /\ at \in Int
    BY <1>2, ConstantsAssumption DEF Inv, TypeOK, Time
  <2>4. \A k \in Open : temporaries[k].time_min \in Int
    BY InvLeaves, ConstantsAssumption DEF Time
  <2>5. \A l \in leaves : l.time_max \in Int
    BY ConstantsAssumption DEF Inv, TypeOK, Leaf, Time
  <2>6. Keyed'
    BY <1>1, <1>3, <2>1, <2>3, <2>4 DEF Inv, Keyed
  <2>7. EmittedLeavesArePast'
    BY <1>1, <1>3, <2>3, <2>5 DEF Inv, EmittedLeavesArePast
  <2>8. LeavesDisjoint'
    BY <2>1 DEF Inv, LeavesDisjoint
  <2>. QED  BY <2>2, <2>6, <2>7, <2>8 DEF Inv
<1>4. CASE Replace(PushLeaf(at, addr, len, bytes))
  <2>1. PushLeaf(at, addr, len, bytes).time_min = at
    BY DEF PushLeaf
  <2>. QED  BY <1>1, <1>4, <2>1, PushLeafIsNew, ReplaceKeepsInv
<1>. QED  BY <1>3, <1>4 DEF Push, PushLeaf

\* finish keeps the invariant: closing every open leaf at the last access
\* makes none of them overlap.
LEMMA FinishKeepsInv ==
  ASSUME Inv, Finish
  PROVE  Inv' /\ \A l \in AllLeaves' : GoodLeaf(l)
<1> DEFINE closing(k) == Complete(temporaries[k], current_time)
<1>1. /\ finished' /\ current_time' = current_time
      /\ leaves' = leaves \cup {closing(k) : k \in Open}
      /\ temporaries' = [a \in Addr |-> NoLeaf]
  BY DEF Finish
<1>2. Open' = {} /\ AllLeaves' = leaves'
  <2>1. Open' = {}
    BY <1>1 DEF Open
  <2>. QED  BY <2>1 DEF AllLeaves
<1>3. ASSUME NEW k \in Open
      PROVE  /\ GoodLeaf(closing(k)) /\ closing(k).time_max = current_time
             /\ Inside(NodeOf(closing(k)), NodeOf(OpenLeaf(k)))
  <2>1. /\ temporaries[k].addr_min \in Addr /\ temporaries[k].addr_max \in Addr
        /\ temporaries[k].time_min \in Time /\ temporaries[k].bytes \in Bytes
        /\ temporaries[k].time_min <= current_time /\ current_time \in Time
        /\ temporaries[k].addr_min <= temporaries[k].addr_max
    BY InvLeaves DEF TemporaryLeaf, Inv, TypeOK
  <2>2. temporaries[k].bytes \in [0..(temporaries[k].addr_max - temporaries[k].addr_min) -> Byte]
    <3>1. GoodLeaf(OpenLeaf(k))
      BY InvLeaves
    <3>. QED  BY <3>1, OpenLeafFields DEF GoodLeaf
  <2>3. GoodLeaf(closing(k))
    BY <2>1, <2>2 DEF GoodLeaf, Leaf, Complete
  <2>4. current_time <= TimeMax /\ TimeMax \in Int
    BY <2>1, ConstantsAssumption DEF Time
  <2>. QED  BY <2>1, <2>3, <2>4, OpenLeafFields, ConstantsAssumption
            DEF Inside, NodeOf, MemNode, Complete, Addr, Time
<1>4. \A l \in AllLeaves' : GoodLeaf(l)
  BY <1>1, <1>2, <1>3, InvLeaves DEF AllLeaves
<1>5. ASSUME NEW p \in AllLeaves'
      PROVE  \E l \in AllLeaves : /\ Inside(NodeOf(p), NodeOf(l))
                                  /\ p = l \/ \E k \in Open : l = OpenLeaf(k) /\ p = closing(k)
  <2>1. CASE p \in leaves
    <3>1. GoodLeaf(p) /\ p \in AllLeaves
      BY <2>1, InvLeaves DEF AllLeaves
    <3>2. Inside(NodeOf(p), NodeOf(p))
      BY <3>1, NodeOfLeaf DEF Inside, Node
    <3>. QED  BY <3>1, <3>2
  <2>2. CASE \E k \in Open : p = closing(k)
    BY <1>3, <2>2, InvLeaves
  <2>. QED  BY <1>1, <1>2, <2>1, <2>2
<1>6. ASSUME NEW p \in AllLeaves', NEW q \in AllLeaves', p # q
      PROVE  NodeDisjoint(p, q)
  <2>1. PICK l \in AllLeaves : /\ Inside(NodeOf(p), NodeOf(l))
                               /\ p = l \/ \E k \in Open : l = OpenLeaf(k) /\ p = closing(k)
    BY <1>5
  <2>2. PICK m \in AllLeaves : /\ Inside(NodeOf(q), NodeOf(m))
                               /\ q = m \/ \E k \in Open : m = OpenLeaf(k) /\ q = closing(k)
    BY <1>5
  <2>3. CASE l # m
    <3>1. NodeDisjoint(l, m)
      BY <2>3 DEF Inv, LeavesDisjoint, PairwiseDisjoint
    <3>2. NodeDisjoint(NodeOf(l), NodeOf(m))
      BY <3>1 DEF NodeDisjoint, NodeOf, MemNode, AddrRange, TimeRange
    <3>3. NodeDisjoint(NodeOf(p), NodeOf(q))
      BY <1>4, <2>1, <2>2, <3>2, InvLeaves, NodeOfLeaf, InsideDisjoint
    <3>. QED  BY <3>3 DEF NodeDisjoint, NodeOf, MemNode, AddrRange, TimeRange
  <2>4. CASE l = m
    <3>1. ASSUME NEW k \in Open, OpenLeaf(k) \in leaves'
          PROVE  OpenLeaf(k) = closing(k)
      <4>1. OpenLeaf(k).time_max = TimeMax
        BY OpenLeafFields
      <4>2. OpenLeaf(k).time_max <= current_time
        BY <1>1, <1>3, <3>1, ConstantsAssumption
           DEF Inv, TypeOK, EmittedLeavesArePast, Time
      <4>3. current_time = TimeMax
        BY <4>1, <4>2, ConstantsAssumption DEF Inv, TypeOK, Time
      <4>. QED  BY <4>3 DEF OpenLeaf
    <3>2. ASSUME NEW j \in Open, NEW k \in Open, OpenLeaf(j) = OpenLeaf(k)
          PROVE  closing(j) = closing(k)
      BY <3>2, OpenLeafFields, InvLeaves
    <3>. QED  BY <1>2, <1>6, <2>1, <2>2, <2>4, <3>1, <3>2
  <2>. QED  BY <2>3, <2>4
<1>7. LeavesDisjoint'
  BY <1>6 DEF LeavesDisjoint, PairwiseDisjoint
<1>8. TypeOK'
  <2>1. temporaries' \in [Addr -> TemporaryLeaf \cup {NoLeaf}]
    BY <1>1
  <2>2. leaves' \subseteq Leaf
    BY <1>2, <1>4 DEF GoodLeaf
  <2>3. current_time' \in Time /\ finished' \in BOOLEAN
    BY <1>1 DEF Inv, TypeOK, Finish
  <2>. QED  BY <1>4, <2>1, <2>2, <2>3 DEF TypeOK, GoodLeaf
<1>9. Keyed'
  BY <1>2 DEF Keyed
<1>10. EmittedLeavesArePast'
  <2>1. ASSUME NEW l \in leaves'
        PROVE  l.time_max <= current_time
    BY <1>1, <1>3, ConstantsAssumption, <2>1
       DEF Inv, TypeOK, EmittedLeavesArePast, Time
  <2>. QED  BY <1>1, <1>2, <1>4, <2>1 DEF EmittedLeavesArePast, GoodLeaf
<1>. QED  BY <1>4, <1>7, <1>8, <1>9, <1>10 DEF Inv

\* The empty pass satisfies the invariant.
LEMMA InitInv == Init => Inv
<1> SUFFICES ASSUME Init PROVE Inv
  OBVIOUS
<1>1. Open = {} /\ leaves = {}
  BY DEF Init, Open
<1>2. AllLeaves = {}
  BY <1>1 DEF AllLeaves
<1>3. TypeOK
  <2>1. temporaries \in [Addr -> TemporaryLeaf \cup {NoLeaf}]
    BY DEF Init
  <2>2. current_time \in Time
    BY ConstantsAssumption DEF Init, Time
  <2>3. finished \in BOOLEAN
    BY Zenon DEF Init
  <2>. QED  BY <1>1, <1>2, <2>1, <2>2, <2>3 DEF TypeOK
<1>4. Keyed /\ EmittedLeavesArePast
  BY <1>1 DEF Keyed, EmittedLeavesArePast
<1>5. LeavesDisjoint
  BY <1>2 DEF LeavesDisjoint, PairwiseDisjoint
<1>. QED  BY <1>3, <1>4, <1>5 DEF Inv

\* Every step keeps the invariant.
LEMMA NextKeepsInv == Inv /\ [Next]_vars => Inv'
<1> SUFFICES ASSUME Inv, [Next]_vars PROVE Inv'
  OBVIOUS
<1>1. ASSUME NEW at \in Time, NEW addr \in Addr, NEW len \in 1..MaxLen,
             addr + len - 1 \in Addr,
             NEW bytes \in [0..(len - 1) -> Byte], NEW can_dedup \in BOOLEAN,
             Push(at, addr, len, bytes, can_dedup)
      PROVE  Inv'
  BY <1>1, PushKeepsInv DEF PushArgs
<1>2. CASE Finish
  BY <1>2, FinishKeepsInv
<1>3. CASE UNCHANGED vars
  BY <1>3 DEF vars, Inv, TypeOK, Keyed, EmittedLeavesArePast, LeavesDisjoint, AllLeaves, Open,
              Complete
<1>. QED  BY <1>1, <1>2, <1>3 DEF Next

\* For every run of DisjointPass: its state is well typed, every entry of
\* the map is found under its first address, emitted leaves are past, and no
\* two leaves overlap.
THEOREM Invariance == Spec => []Inv
BY InitInv, NextKeepsInv, PTL DEF Spec

\* For every run: the map and the leaves are well typed, with one byte per
\* address of every leaf.
THEOREM TypeCorrectness == Spec => []TypeOK
<1>1. Inv => TypeOK
  BY DEF Inv
<1>. QED  BY <1>1, Invariance, PTL

\* For every run: no two leaves, open or emitted, share an address at a time
\* (the "Disjoint leaves" of disjoint.rs:9).
THEOREM DisjointLeaves == Spec => []LeavesDisjoint
<1>1. Inv => LeavesDisjoint
  BY DEF Inv
<1>. QED  BY <1>1, Invariance, PTL

\* For every run: what has been emitted is over before the next access.
THEOREM EmittedArePast == Spec => []EmittedLeavesArePast
<1>1. Inv => EmittedLeavesArePast
  BY DEF Inv
<1>. QED  BY <1>1, Invariance, PTL

\* For every run and every range: iter_temporaries_in_range misses no open
\* leaf that overlaps the range, and returns no other.
THEOREM CompleteLookup == Spec => []LookupIsComplete
<1>1. Inv => LookupIsComplete
  BY Lookup DEF LookupIsComplete
<1>. QED  BY <1>1, Invariance, PTL

-----------------------------------------------------------------------------
(***************************************************************************)
(* For every address space, clock and alphabet of bytes: the leaves answer *)
(* the history of the memory.                                              *)
(*                                                                         *)
(* The argument.  Leaves are disjoint, so a leaf that covers an address at *)
(* a time gives the value there (ValueOf).  A Push that replaces overlays  *)
(* its bytes on the values: inside its rectangle the new leaf answers,     *)
(* outside it a piece of the leaf that answered before, with the same byte *)
(* (ReplaceValues).  A deduplicated Push finds the bytes already there     *)
(* (DuplicateValues), and finish forgets what is after the last access     *)
(* (FinishValues).  Those are the steps of MemoryHistory (Refinement).     *)
(***************************************************************************)

\* Among disjoint leaves, a leaf that covers an address at a time gives its
\* value.
LEMMA ValueOf ==
  ASSUME NEW S, \A l \in S : GoodLeaf(l), PairwiseDisjoint(S),
         NEW l \in S, NEW t \in Int, NEW a \in Int, Covers(l, t, a)
  PROVE  Value(S, t, a) = l.bytes[a - l.addr_min]
<1>1. ASSUME NEW m \in S, Covers(m, t, a)
      PROVE  m = l
  <2>1. /\ m.addr_min \in Int /\ m.addr_max \in Int /\ m.time_min \in Int /\ m.time_max \in Int
        /\ l.addr_min \in Int /\ l.addr_max \in Int /\ l.time_min \in Int /\ l.time_max \in Int
    BY ConstantsAssumption DEF GoodLeaf, Leaf, Addr, Time
  <2>2. ~NodeDisjoint(m, l)
    BY <1>1, <2>1 DEF Covers, NodeDisjoint, RangeDisjoint, RangeContains, AddrRange, TimeRange
  <2>. QED  BY <2>2 DEF PairwiseDisjoint
<1>2. (CHOOSE m \in S : Covers(m, t, a)) = l
  BY <1>1
<1>. QED  BY <1>2 DEF Value

\* Where no leaf reaches, the value is unknown.
LEMMA NoValue ==
  ASSUME NEW S, NEW t, NEW a, \A l \in S : ~Covers(l, t, a)
  PROVE  Value(S, t, a) = Unknown
BY DEF Value

\* A leaf covers what a leaf inside it covers.
LEMMA InsideCovers ==
  ASSUME NEW p, GoodLeaf(p), NEW l, GoodLeaf(l), Inside(NodeOf(p), NodeOf(l)),
         NEW t \in Int, NEW a \in Int, Covers(p, t, a)
  PROVE  Covers(l, t, a)
BY ConstantsAssumption
   DEF GoodLeaf, Leaf, Addr, Time, Inside, NodeOf, MemNode, Covers, RangeContains,
       AddrRange, TimeRange

\* Replace overlays the bytes of the new leaf, from its time on, and changes
\* no other value.
LEMMA ReplaceValues ==
  ASSUME Inv, NEW new, NewLeaf(new), Replace(new), NEW t \in Time, NEW a \in Addr
  PROVE  Value(AllLeaves', t, a)
           = IF t >= new.time_min /\ new.addr_min <= a /\ a <= new.addr_max
             THEN new.bytes[a - new.addr_min]
             ELSE Value(AllLeaves, t, a)
<1> DEFINE r == Rect(new, TimeMax)
           newest == Complete(new, TimeMax)
<1>1. /\ r \in Node /\ NonEmpty(r) /\ GoodLeaf(newest) /\ NodeOf(newest) = r
  BY NewRect, NewLeafGood
<1>2. AllLeaves' = (UNION {Pieces(l, r) : l \in AllLeaves}) \cup {newest}
  BY AllLeavesAfterReplace
<1>3. /\ \A l \in AllLeaves : GoodLeaf(l)
      /\ PairwiseDisjoint(AllLeaves)
  BY InvLeaves DEF Inv, LeavesDisjoint
<1>4. /\ \A l \in AllLeaves' : GoodLeaf(l)
      /\ PairwiseDisjoint(AllLeaves')
  BY ReplaceKeepsLeaves DEF LeavesDisjoint
<1>5. t \in Int /\ a \in Int /\ t <= TimeMax
  BY ConstantsAssumption DEF Time, Addr
<1>6. Covers(r, t, a) <=> t >= new.time_min /\ new.addr_min <= a /\ a <= new.addr_max
  BY <1>5, NewRect, ConstantsAssumption
     DEF Covers, RangeContains, AddrRange, TimeRange, Rect, MemNode, Time, Addr
<1>7. Covers(newest, t, a) <=> Covers(r, t, a)
  BY DEF Covers, RangeContains, AddrRange, TimeRange, Rect, MemNode, Complete
<1>8. newest.bytes = new.bytes /\ newest.addr_min = new.addr_min
  BY DEF Complete
<1> HIDE DEF r, newest
<1>9. CASE Covers(r, t, a)
  <2>1. Value(AllLeaves', t, a) = newest.bytes[a - newest.addr_min]
    <3>1. newest \in AllLeaves'
      BY <1>2
    <3>. QED  BY <1>4, <1>5, <1>7, <1>9, <3>1, ValueOf
  <2>. QED  BY <1>6, <1>8, <1>9, <2>1
<1>10. CASE ~Covers(r, t, a)
  <2>1. Value(AllLeaves', t, a) = Value(AllLeaves, t, a)
    <3>1. ASSUME NEW l \in AllLeaves, Covers(l, t, a)
          PROVE  Value(AllLeaves', t, a) = Value(AllLeaves, t, a)
      <4>1. PICK p \in Pieces(l, r) : Covers(p, t, a)
        BY <1>1, <1>3, <1>5, <1>10, <3>1, PiecesCover
      <4>2. p \in AllLeaves'
        BY <1>2
      <4>3. /\ GoodLeaf(p)
            /\ \A b \in p.addr_min..p.addr_max : p.bytes[b - p.addr_min] = l.bytes[b - l.addr_min]
        BY <1>1, <1>3, PieceOfLeaf
      <4>4. a \in p.addr_min..p.addr_max
        BY <1>5, <4>1, <4>3, ConstantsAssumption
           DEF Covers, RangeContains, AddrRange, GoodLeaf, Leaf, Addr
      <4>5. Value(AllLeaves', t, a) = p.bytes[a - p.addr_min]
        BY <1>4, <1>5, <4>1, <4>2, ValueOf
      <4>6. Value(AllLeaves, t, a) = l.bytes[a - l.addr_min]
        BY <1>3, <1>5, <3>1, ValueOf
      <4>. QED  BY <4>3, <4>4, <4>5, <4>6
    <3>2. CASE \A l \in AllLeaves : ~Covers(l, t, a)
      <4>1. ASSUME NEW p \in AllLeaves'
            PROVE  ~Covers(p, t, a)
        <5>1. CASE p = newest
          BY <1>7, <1>10, <5>1
        <5>2. ASSUME NEW l \in AllLeaves, p \in Pieces(l, r)
              PROVE  ~Covers(p, t, a)
          <6>1. GoodLeaf(p) /\ GoodLeaf(l) /\ Inside(NodeOf(p), NodeOf(l))
            BY <1>1, <1>3, <5>2, PieceOfLeaf
          <6>. QED  BY <1>5, <3>2, <6>1, InsideCovers
        <5>. QED  BY <1>2, <5>1, <5>2
      <4>. QED  BY <3>2, <4>1, NoValue
    <3>. QED  BY <3>1, <3>2
  <2>. QED  BY <1>6, <1>10, <2>1
<1>. QED  BY <1>9, <1>10

\* A deduplicated access finds its bytes already in the leaves.
LEMMA DuplicateValues ==
  ASSUME Inv, NEW at \in Time, NEW first \in Addr, NEW last \in Addr, NEW bytes,
         current_time <= at, first <= last,
         IsDuplicateWrite([min |-> first, max |-> last], bytes),
         NEW t \in Time, t >= at, NEW a \in first..last
  PROVE  Value(AllLeaves, t, a) = bytes[a - first]
<1> DEFINE range == [min |-> first, max |-> last]
<1>1. PICK k \in InRange(range) :
        /\ RangeContains(AddrRange(temporaries[k]), a)
        /\ temporaries[k].bytes[a - temporaries[k].addr_min] = bytes[a - first]
  BY DEF IsDuplicateWrite
<1>2. k \in Open
  BY DEF InRange
<1>3. /\ \A l \in AllLeaves : GoodLeaf(l)
      /\ PairwiseDisjoint(AllLeaves)
      /\ OpenLeaf(k) \in AllLeaves
  BY <1>2, InvLeaves DEF Inv, LeavesDisjoint
<1>4. t \in Int /\ a \in Int
  BY ConstantsAssumption DEF Time, Addr
<1>5. temporaries[k].time_min <= t /\ t <= TimeMax
  BY <1>2, InvLeaves, ConstantsAssumption DEF Time, Inv, TypeOK
<1>6. Covers(OpenLeaf(k), t, a)
  BY <1>1, <1>5, OpenLeafFields DEF Covers, RangeContains, AddrRange, TimeRange
<1>7. Value(AllLeaves, t, a) = OpenLeaf(k).bytes[a - OpenLeaf(k).addr_min]
  BY <1>3, <1>4, <1>6, ValueOf
<1>. QED  BY <1>1, <1>7, OpenLeafFields

\* finish keeps the values up to the last access, and only those.
LEMMA FinishValues ==
  ASSUME Inv, Finish, NEW t \in Time, NEW a \in Addr
  PROVE  Value(AllLeaves', t, a)
           = IF t <= current_time THEN Value(AllLeaves, t, a) ELSE Unknown
<1> DEFINE closing(k) == Complete(temporaries[k], current_time)
<1>1. Inv' /\ \A l \in AllLeaves' : GoodLeaf(l)
  BY FinishKeepsInv
<1>2. /\ \A l \in AllLeaves : GoodLeaf(l)
      /\ PairwiseDisjoint(AllLeaves)
      /\ \A l \in AllLeaves' : GoodLeaf(l)
      /\ PairwiseDisjoint(AllLeaves')
  BY <1>1, InvLeaves DEF Inv, LeavesDisjoint
<1>3. AllLeaves' = leaves \cup {closing(k) : k \in Open}
  <2>1. Open' = {}
    BY DEF Finish, Open
  <2>. QED  BY <2>1 DEF AllLeaves, Finish
<1>4. t \in Int /\ a \in Int /\ t <= TimeMax /\ current_time \in Int /\ current_time <= TimeMax
  BY ConstantsAssumption DEF Time, Addr, Inv, TypeOK
<1>5. ASSUME NEW k \in Open
      PROVE  /\ Covers(closing(k), t, a) <=> Covers(OpenLeaf(k), t, a) /\ t <= current_time
             /\ closing(k).bytes = OpenLeaf(k).bytes
             /\ closing(k).addr_min = OpenLeaf(k).addr_min
             /\ OpenLeaf(k) \in AllLeaves
  <2>1. temporaries[k].time_min \in Int
    BY InvLeaves, ConstantsAssumption DEF Time
  <2>. QED  BY <1>4, <2>1, InvLeaves
            DEF Covers, RangeContains, AddrRange, TimeRange, OpenLeaf, Complete
<1>6. ASSUME NEW l \in leaves, Covers(l, t, a)
      PROVE  t <= current_time
  BY <1>4, <1>6, ConstantsAssumption
     DEF Inv, TypeOK, EmittedLeavesArePast, Leaf, Time, Covers, RangeContains, TimeRange
<1> HIDE DEF closing
<1>7. CASE t <= current_time
  <2>1. CASE \E l \in AllLeaves : Covers(l, t, a)
    <3>1. PICK l \in AllLeaves : Covers(l, t, a)
      BY <2>1
    <3>2. Value(AllLeaves, t, a) = l.bytes[a - l.addr_min]
      BY <1>2, <1>4, <3>1, ValueOf
    <3>3. \E p \in AllLeaves' : /\ Covers(p, t, a)
                                /\ p.bytes = l.bytes /\ p.addr_min = l.addr_min
      BY <1>3, <1>5, <1>7, <3>1 DEF AllLeaves, OpenLeaf
    <3>4. PICK p \in AllLeaves' : /\ Covers(p, t, a)
                                  /\ p.bytes = l.bytes /\ p.addr_min = l.addr_min
      BY <3>3
    <3>5. Value(AllLeaves', t, a) = p.bytes[a - p.addr_min]
      BY <1>2, <1>4, <3>4, ValueOf
    <3>. QED  BY <1>7, <3>2, <3>4, <3>5
  <2>2. CASE \A l \in AllLeaves : ~Covers(l, t, a)
    <3>1. \A p \in AllLeaves' : ~Covers(p, t, a)
      BY <1>3, <1>5, <2>2 DEF AllLeaves
    <3>. QED  BY <1>7, <2>2, <3>1, NoValue
  <2>. QED  BY <2>1, <2>2
<1>8. CASE ~(t <= current_time)
  <2>1. \A p \in AllLeaves' : ~Covers(p, t, a)
    BY <1>3, <1>5, <1>6, <1>8
  <2>. QED  BY <1>8, <2>1, NoValue
<1>. QED  BY <1>7, <1>8

-----------------------------------------------------------------------------
(* Refinement: each step of DisjointPass is a step of MemoryHistory *)

\* The values of the next state are those its leaves give.
LEMMA NextValues == Values' = [t \in Time |-> [a \in Addr |-> Value(AllLeaves', t, a)]]
BY DEF Values, Value

\* The empty pass is the empty history.
LEMMA RefinesInit ==
  ASSUME Init
  PROVE  Refined!Init
<1>1. AllLeaves = {}
  <2>1. Open = {} /\ leaves = {}
    BY DEF Init, Open
  <2>. QED  BY <2>1 DEF AllLeaves
<1>2. \A t \in Time, a \in Addr : Value(AllLeaves, t, a) = Unknown
  BY <1>1, NoValue
<1>3. current_time = 0 /\ finished = FALSE
  BY DEF Init
<1>. QED  BY <1>2, <1>3 DEF Refined!Init, Values

\* push_memory_write is an access of the history, deduplicated or not.
LEMMA RefinesPush ==
  ASSUME Inv,
         NEW at, NEW addr, NEW len, NEW bytes, PushArgs(at, addr, len, bytes),
         NEW can_dedup, Push(at, addr, len, bytes, can_dedup)
  PROVE  Refined!Access(at, addr, addr + len - 1, bytes)
<1> DEFINE last == addr + len - 1
           overlay(t, a) == IF t >= at /\ addr <= a /\ a <= last
                            THEN bytes[a - addr] ELSE Values[t][a]
<1>1. /\ ~finished /\ current_time <= at /\ current_time' = at /\ UNCHANGED finished
      /\ at \in Time /\ addr \in Addr /\ last \in Addr /\ addr <= last
  BY ConstantsAssumption DEF Push, PushArgs, Addr
<1>2. /\ NewLeaf(PushLeaf(at, addr, len, bytes))
      /\ FromStartLen(addr, len) = [min |-> addr, max |-> last]
  BY <1>1, PushLeafIsNew
<1>3. \A s \in Time, a \in Addr : Values[s][a] = Value(AllLeaves, s, a)
  BY DEF Values
<1>4. ASSUME NEW t \in Time, NEW a \in Addr
      PROVE  Value(AllLeaves', t, a) = overlay(t, a)
  <2>1. CASE Replace(PushLeaf(at, addr, len, bytes))
    <3>1. /\ PushLeaf(at, addr, len, bytes).addr_min = addr
          /\ PushLeaf(at, addr, len, bytes).addr_max = last
          /\ PushLeaf(at, addr, len, bytes).time_min = at
          /\ PushLeaf(at, addr, len, bytes).bytes = bytes
      BY <1>2 DEF PushLeaf
    <3>. QED  BY <1>2, <1>3, <2>1, <3>1, ReplaceValues
  <2>2. CASE /\ IsDuplicateWrite([min |-> addr, max |-> last], bytes)
             /\ UNCHANGED <<temporaries, leaves>>
    <3>1. AllLeaves' = AllLeaves
      BY <2>2 DEF AllLeaves, Open, Complete
    <3>2. CASE t >= at /\ addr <= a /\ a <= last
      <4>1. a \in addr..last
        BY <1>1, <3>2, ConstantsAssumption DEF Addr
      <4> HIDE DEF last
      <4>2. Value(AllLeaves, t, a) = bytes[a - addr]
        BY <1>1, <2>2, <3>2, <4>1, DuplicateValues
      <4>. QED  BY <3>1, <3>2, <4>2
    <3>3. CASE ~(t >= at /\ addr <= a /\ a <= last)
      BY <1>3, <3>1, <3>3
    <3>. QED  BY <3>2, <3>3
  <2>. QED  BY <1>1, <1>2, <2>1, <2>2 DEF Push, PushLeaf
<1> HIDE DEF overlay
<1>5. Values' = [t \in Time |-> [a \in Addr |-> overlay(t, a)]]
  BY <1>4, NextValues
<1>. QED  BY <1>1, <1>5 DEF Refined!Access, overlay

\* finish is the end of the history.
LEMMA RefinesFinish ==
  ASSUME Inv, Finish
  PROVE  Refined!Close
<1>1. \A s \in Time, a \in Addr : Values[s][a] = Value(AllLeaves, s, a)
  BY DEF Values
<1>2. \A s \in Time, a \in Addr :
        Value(AllLeaves', s, a) = IF s <= current_time THEN Values[s][a] ELSE Unknown
  BY <1>1, FinishValues
<1>3. Values' = [s \in Time |-> [a \in Addr |->
                   IF s <= current_time THEN Values[s][a] ELSE Unknown]]
  BY <1>2, NextValues
<1>. QED  BY <1>3 DEF Refined!Close, Finish

\* The detailed specification implements the abstract one: read through the
\* leaves, every run of DisjointPass is a run of MemoryHistory.
THEOREM Refinement == Spec => Refined!Spec
<1>1. Init => Refined!Init
  BY RefinesInit
<1>2. Inv /\ [Next]_vars => [Refined!Next]_(Refined!vars)
  <2> SUFFICES ASSUME Inv, [Next]_vars
               PROVE  Refined!Next \/ UNCHANGED Refined!vars
    OBVIOUS
  <2>1. ASSUME NEW at \in Time, NEW addr \in Addr, NEW len \in 1..MaxLen,
               addr + len - 1 \in Addr,
               NEW bytes \in [0..(len - 1) -> Byte], NEW can_dedup \in BOOLEAN,
               Push(at, addr, len, bytes, can_dedup)
        PROVE  Refined!Next
    <3>1. Refined!Access(at, addr, addr + len - 1, bytes)
      BY <2>1, RefinesPush DEF PushArgs
    <3>2. (addr + len - 1) - addr = len - 1 /\ addr <= addr + len - 1
      BY <2>1, ConstantsAssumption DEF Addr
    <3>3. bytes \in [0..((addr + len - 1) - addr) -> Byte]
      BY <2>1, <3>2
    <3>4. \E t \in Time, first, last \in Addr :
            \E value \in [0..(last - first) -> Byte] : Refined!Access(t, first, last, value)
      <4>1. addr + len - 1 \in Addr
        BY <2>1
      <4>2. WITNESS at \in Time, addr \in Addr, (addr + len - 1) \in Addr
      <4>3. WITNESS bytes \in [0..((addr + len - 1) - addr) -> Byte]
      <4>. QED  BY <3>1
    <3>. QED  BY <3>4 DEF Refined!Next
  <2>2. CASE Finish
    BY <2>2, RefinesFinish DEF Refined!Next
  <2>3. CASE UNCHANGED vars
    <3>1. UNCHANGED <<temporaries, leaves, current_time, finished>>
      BY <2>3 DEF vars
    <3>2. AllLeaves' = AllLeaves
      BY <3>1 DEF AllLeaves, Open, Complete
    <3>. QED  BY <3>1, <3>2 DEF Refined!vars, Values, Value
  <2>. QED  BY <2>1, <2>2, <2>3 DEF Next
<1>. QED  BY <1>1, <1>2, Invariance, PTL DEF Spec, Refined!Spec

-----------------------------------------------------------------------------
(* The same, for the history kept beside the leaves *)

\* For every run: the leaves answer, for every address and time, the byte
\* the accesses of the trace showed there.
THEOREM LeavesAnswerHistory == IndexedSpec => []AnswersHistory
<1>1. IndexedInit => Inv /\ AnswersHistory
  BY InitInv, RefinesInit DEF IndexedInit, AnswersHistory, History!Init, Refined!Init
<1>2. Inv /\ AnswersHistory /\ [IndexedNext]_IndexedVars => (Inv /\ AnswersHistory)'
  <2> SUFFICES ASSUME Inv, AnswersHistory, [IndexedNext]_IndexedVars
               PROVE  Inv' /\ AnswersHistory'
    OBVIOUS
  <2>1. ASSUME NEW at \in Time, NEW addr \in Addr, NEW len \in 1..MaxLen,
               addr + len - 1 \in Addr,
               NEW bytes \in [0..(len - 1) -> Byte], NEW can_dedup \in BOOLEAN,
               IndexedPush(at, addr, len, bytes, can_dedup)
        PROVE  Inv' /\ AnswersHistory'
    <3>1. PushArgs(at, addr, len, bytes) /\ Push(at, addr, len, bytes, can_dedup)
      BY <2>1 DEF PushArgs, IndexedPush
    <3>2. Refined!Access(at, addr, addr + len - 1, bytes)
      BY <3>1, RefinesPush
    <3>3. AnswersHistory'
      BY <2>1, <3>2 DEF AnswersHistory, IndexedPush, History!Access, Refined!Access
    <3>. QED  BY <3>1, <3>3, PushKeepsInv
  <2>2. CASE IndexedFinish
    <3>1. Finish /\ Refined!Close
      BY <2>2, RefinesFinish DEF IndexedFinish
    <3>2. AnswersHistory'
      BY <2>2, <3>1 DEF AnswersHistory, IndexedFinish, History!Close, Refined!Close
    <3>. QED  BY <3>1, <3>2, FinishKeepsInv
  <2>3. CASE UNCHANGED IndexedVars
    <3>1. UNCHANGED <<temporaries, leaves, current_time, finished, hist>>
      BY <2>3 DEF IndexedVars
    <3>2. Inv'
      BY <3>1, NextKeepsInv DEF vars
    <3>3. AllLeaves' = AllLeaves
      BY <3>1 DEF AllLeaves, Open, Complete
    <3>. QED  BY <3>1, <3>2, <3>3 DEF AnswersHistory, Values, Value
  <2>. QED  BY <2>1, <2>2, <2>3 DEF IndexedNext
<1>. QED  BY <1>1, <1>2, PTL DEF IndexedSpec

-----------------------------------------------------------------------------
(***************************************************************************)
(* For every address space, clock, set of registers and of words: the      *)
(* event pass drives DisjointPass by its rules, and the register leaves    *)
(* answer the history of the registers.                                    *)
(*                                                                         *)
(* The argument.  Every memory event is a Push at a time that never goes   *)
(* back, and every other event leaves the memory pass alone, so a run of   *)
(* the event pass is a run of DisjointPass (DrivesThePass) and all that is *)
(* proved of one holds of the other.  For the registers, names are mapped  *)
(* to distinct slots, the slot of a name holds the one open leaf of that   *)
(* register, and each leaf emitted earlier ends before the open one starts *)
(* (RegInv).  A register event therefore changes the value of its own      *)
(* register from its time on and no other (RegisterValues), and the end of *)
(* the trace forgets what is after the last event (CloseValues).           *)
(***************************************************************************)

\* Two slots never have the same name.
NamesDistinct ==
  \A i, j \in DOMAIN reg_name_mapping : reg_name_mapping[i] = reg_name_mapping[j] => i = j

\* finish has taken every open leaf.
ClosedAtTheEnd == finished => last_reg_leaves = <<>>

\* What was emitted for a register ends before its open leaf starts, and there
\* is an open leaf as long as the trace lasts.
EmittedEndBeforeOpen ==
  \A l \in reg_leaves :
    /\ l.time_min <= l.time_max /\ l.time_max <= curr_time
    /\ ~finished => \E i \in DOMAIN last_reg_leaves :
                      last_reg_leaves[i].reg = l.reg /\ l.time_max < last_reg_leaves[i].time_min

\* Two emitted leaves of a register do not overlap in time.
EmittedApart ==
  \A l, m \in reg_leaves :
    l = m \/ l.reg # m.reg \/ l.time_max < m.time_min \/ m.time_max < l.time_min

\* The memory pass is never ahead of the events, nor the events of the parser.
ClocksAgree == current_time <= curr_time /\ curr_time <= time

\* The accesses that were read are in the past of the memory pass.
ReadsArePast == \A r \in read_leaves : r.time <= current_time

\* The part of the invariant that is about the clocks and the registers.
RegInv == /\ NormalizeTypeOK /\ SlotsAreFull
          /\ NamesDistinct /\ ClosedAtTheEnd /\ EmittedEndBeforeOpen /\ EmittedApart
          /\ ClocksAgree

\* The inductive invariant: that of the memory pass, the registers, and the reads.
NormalizeInv == Inv /\ RegInv /\ ReadsArePast /\ ReadsAreAnswered

-----------------------------------------------------------------------------
(* The event pass drives the memory pass *)

\* Every step of the event pass is a step of the memory pass, or leaves it
\* alone.
LEMMA DrivesStep ==
  ASSUME NormalizeNext
  PROVE  Next \/ UNCHANGED vars
<1>1. ASSUME NEW sep \in Separator, NEW name \in Reg, NEW value \in Word,
             Register(sep, name, value)
      PROVE  UNCHANGED vars
  BY <1>1 DEF Register
<1>2. ASSUME NEW sep \in Separator, NEW slide \in Slide, AslrSlide(sep, slide)
      PROVE  UNCHANGED vars
  BY <1>2 DEF AslrSlide
<1>3. ASSUME NEW sep \in Separator, NEW addr \in Addr, NEW len \in 1..MaxLen,
             NEW mode \in Mode, addr + len - 1 \in Addr,
             NEW bytes \in [0..(len - 1) -> Byte], Memory(sep, addr, len, bytes, mode)
      PROVE  Next
  <2>1. PICK t \in Time : t = time'
    BY <1>3 DEF Memory, Timed
  <2>2. Push(t, addr, len, bytes, mode = "Read")
    BY <1>3, <2>1 DEF Memory
  <2>3. PICK dedup \in BOOLEAN : dedup = (mode = "Read")
    OBVIOUS
  <2>4. Push(t, addr, len, bytes, dedup)
    BY <2>2, <2>3
  <2>. QED  BY <1>3, <2>4 DEF Next
<1>4. CASE EndOfTrace
  BY <1>4 DEF EndOfTrace, Next
<1>. QED  BY <1>1, <1>2, <1>3, <1>4 DEF NormalizeNext

\* For every run: what the event pass makes of the memory is a run of
\* DisjointPass, so that its theorems hold in the composition.
THEOREM DrivesThePass == NormalizeSpec => Spec
<1>1. NormalizeInit => Init
  BY DEF NormalizeInit
<1>2. [NormalizeNext]_normalizeVars => [Next]_vars
  BY DrivesStep DEF normalizeVars, vars
<1>. QED  BY <1>1, <1>2, PTL DEF NormalizeSpec, Spec

-----------------------------------------------------------------------------
(* What a register event does to the two vectors *)

\* The slot of the name is the last one, when the name is new, or the one it
\* had; the vectors keep all the others.
SlotOf(i, name) ==
  /\ i \in 1..Len(reg_name_mapping)' /\ reg_name_mapping'[i] = name
  /\ \A j \in 1..Len(reg_name_mapping)' : j # i =>
       j \in 1..Len(reg_name_mapping) /\ reg_name_mapping'[j] = reg_name_mapping[j]
  /\ \/ /\ i = Len(reg_name_mapping) + 1 /\ Len(reg_name_mapping)' = i
        /\ \A j \in 1..Len(reg_name_mapping) : reg_name_mapping[j] # name
     \/ /\ i \in 1..Len(reg_name_mapping) /\ UNCHANGED reg_name_mapping

\* What push_register leaves behind, whichever of its branches it took.
PushedAt(i, name, value) ==
  /\ SlotOf(i, name)
  /\ last_reg_leaves' \in Seq(RegLeaf)
  /\ Len(last_reg_leaves)' = Len(reg_name_mapping)'
  /\ last_reg_leaves'[i] = OpenReg(name, value, time')
  /\ \A j \in 1..Len(reg_name_mapping) : j # i => last_reg_leaves'[j] = last_reg_leaves[j]
  /\ \/ /\ i = Len(reg_name_mapping) + 1
        /\ UNCHANGED reg_leaves
     \/ /\ i \in 1..Len(reg_name_mapping) /\ last_reg_leaves[i].time_min = time'
        /\ UNCHANGED reg_leaves
     \/ /\ i \in 1..Len(reg_name_mapping) /\ last_reg_leaves[i].time_min < time'
        /\ reg_leaves' = reg_leaves \cup {CloseBefore(last_reg_leaves[i], time')}

\* While the trace lasts, the slots are the names.
LEMMA SlotsFollowNames ==
  ASSUME RegInv
  PROVE  /\ reg_name_mapping \in Seq(Reg) /\ Len(reg_name_mapping) \in Nat
         /\ DOMAIN reg_name_mapping = 1..Len(reg_name_mapping)
         /\ last_reg_leaves \in Seq(RegLeaf) /\ Len(last_reg_leaves) \in Nat
         /\ DOMAIN last_reg_leaves = 1..Len(last_reg_leaves)
         /\ \A i \in 1..Len(last_reg_leaves) :
              /\ last_reg_leaves[i] \in RegLeaf
              /\ last_reg_leaves[i].reg = reg_name_mapping[i]
              /\ last_reg_leaves[i].time_min = last_reg_leaves[i].time_max
              /\ last_reg_leaves[i].time_min <= curr_time
              /\ last_reg_leaves[i].time_min \in Int
         /\ ~finished => Len(last_reg_leaves) = Len(reg_name_mapping)
<1>1. /\ reg_name_mapping \in Seq(Reg)
      /\ last_reg_leaves \in Seq(RegLeaf \cup {NoLeaf})
      /\ SlotsAreFull
  BY DEF RegInv, NormalizeTypeOK
<1>2. \A i \in 1..Len(last_reg_leaves) : last_reg_leaves[i] \in RegLeaf
  BY <1>1 DEF SlotsAreFull
<1>3. last_reg_leaves \in Seq(RegLeaf)
  BY <1>1, <1>2
<1>4. \A i \in 1..Len(last_reg_leaves) : last_reg_leaves[i].time_min \in Int
  BY <1>2, ConstantsAssumption DEF RegLeaf, Time
<1>. QED  BY <1>1, <1>2, <1>3, <1>4 DEF SlotsAreFull

\* map_reg_name finds the slot of the name, or adds one.
LEMMA MappingOf ==
  ASSUME RegInv, NEW name \in Reg, reg_name_mapping' = MapRegName(name)
  PROVE  /\ reg_name_mapping' \in Seq(Reg)
         /\ SlotOf(IndexOf(MapRegName(name), name), name)
<1> DEFINE m == MapRegName(name)
           i == IndexOf(m, name)
<1>1. reg_name_mapping \in Seq(Reg) /\ Len(reg_name_mapping) \in Nat
  BY SlotsFollowNames
<1>2. CASE Contains(reg_name_mapping, name)
  <2>1. m = reg_name_mapping
    BY <1>2 DEF MapRegName
  <2>2. \E k \in 1..Len(m) : m[k] = name
    BY <1>2, <2>1 DEF Contains
  <2>3. i \in 1..Len(m) /\ m[i] = name
    BY <2>2 DEF IndexOf
  <2>. QED  BY <1>1, <2>1, <2>3 DEF SlotOf
<1>3. CASE ~Contains(reg_name_mapping, name)
  <2>1. m = Append(reg_name_mapping, name)
    BY <1>3 DEF MapRegName
  <2>2. \A j \in 1..Len(reg_name_mapping) : reg_name_mapping[j] # name
    BY <1>3 DEF Contains
  <2>3. /\ m \in Seq(Reg) /\ Len(m) = Len(reg_name_mapping) + 1
        /\ m[Len(reg_name_mapping) + 1] = name
        /\ \A j \in 1..Len(reg_name_mapping) : m[j] = reg_name_mapping[j]
    BY <1>1, <2>1
  <2>4. i \in 1..Len(m) /\ m[i] = name
    BY <1>1, <2>3 DEF IndexOf
  <2>5. i = Len(reg_name_mapping) + 1
    BY <1>1, <2>2, <2>3, <2>4
  <2>. QED  BY <1>1, <2>2, <2>3, <2>5 DEF SlotOf
<1>. QED  BY <1>2, <1>3

\* A value that is given to a register goes to the one slot of its name.
LEMMA RegisterPushes ==
  ASSUME RegInv, ~finished, NEW name \in Reg, NEW value \in Word,
         time' \in Time, curr_time <= time', PushRegister(name, value)
  PROVE  /\ reg_name_mapping' \in Seq(Reg)
         /\ \E i \in 1..Len(reg_name_mapping)' : PushedAt(i, name, value)
<1> DEFINE n == Len(reg_name_mapping)
           i == IndexOf(MapRegName(name), name)
           slots == Resize(last_reg_leaves, i)
           new == OpenReg(name, value, time')
<1>1. reg_name_mapping' = MapRegName(name)
  BY DEF PushRegister
<1>0. \/ /\ slots[i] # NoLeaf /\ slots[i].time_min = time' /\ slots[i].time_max = time'
         /\ last_reg_leaves' = [slots EXCEPT ![i].value = value]
         /\ UNCHANGED reg_leaves
      \/ /\ slots[i] = NoLeaf
         /\ last_reg_leaves' = [slots EXCEPT ![i] = new]
         /\ UNCHANGED reg_leaves
      \/ /\ slots[i] # NoLeaf /\ ~(slots[i].time_min = time' /\ slots[i].time_max = time')
         /\ reg_leaves' = reg_leaves \cup {CloseBefore(slots[i], time')}
         /\ last_reg_leaves' = [slots EXCEPT ![i] = new]
  BY DEF PushRegister
<1>2. reg_name_mapping' \in Seq(Reg) /\ SlotOf(i, name)
  BY <1>1, MappingOf
<1> HIDE DEF i
<1>3. /\ n \in Nat /\ i \in 1..(n + 1) /\ Len(reg_name_mapping)' \in Nat
      /\ last_reg_leaves \in Seq(RegLeaf) /\ Len(last_reg_leaves) = n
      /\ \A j \in 1..n : /\ last_reg_leaves[j] \in RegLeaf /\ last_reg_leaves[j] # NoLeaf
                         /\ last_reg_leaves[j].reg = reg_name_mapping[j]
                         /\ last_reg_leaves[j].time_min = last_reg_leaves[j].time_max
                         /\ last_reg_leaves[j].time_min <= curr_time
  <2>1. /\ n \in Nat /\ last_reg_leaves \in Seq(RegLeaf) /\ Len(last_reg_leaves) = n
        /\ \A j \in 1..n : /\ last_reg_leaves[j] \in RegLeaf
                           /\ last_reg_leaves[j].reg = reg_name_mapping[j]
                           /\ last_reg_leaves[j].time_min = last_reg_leaves[j].time_max
                           /\ last_reg_leaves[j].time_min <= curr_time
    BY SlotsFollowNames
  <2>2. \A j \in 1..n : last_reg_leaves[j] # NoLeaf
    BY <2>1, NoRegLeafAssumption
  <2>3. i \in 1..(n + 1) /\ Len(reg_name_mapping)' \in Nat
    <3>1. Len(reg_name_mapping') \in Nat
      BY <1>2
    <3>. QED  BY <1>2, <2>1, <3>1 DEF SlotOf
  <2>. QED  BY <2>1, <2>2, <2>3
<1>4. /\ slots = [j \in 1..Len(reg_name_mapping)' |-> IF j <= n THEN last_reg_leaves[j] ELSE NoLeaf]
      /\ i <= n => slots = last_reg_leaves
  <2>1. \/ i = n + 1 /\ Len(reg_name_mapping)' = i
        \/ i \in 1..n /\ Len(reg_name_mapping)' = n
    BY <1>2 DEF SlotOf
  <2>2. CASE i = n + 1
    BY <1>3, <2>1, <2>2 DEF Resize
  <2>3. CASE i \in 1..n /\ Len(reg_name_mapping)' = n
    <3>1. last_reg_leaves = [j \in 1..n |-> last_reg_leaves[j]]
      BY <1>3
    <3>2. slots = last_reg_leaves
      BY <1>3, <2>3 DEF Resize
    <3>3. \A j \in 1..n : j <= n
      BY <1>3
    <3>. QED  BY <2>3, <3>1, <3>2, <3>3
  <2>. QED  BY <2>1, <2>2, <2>3
<1>5. new \in RegLeaf
  BY DEF OpenReg, RegLeaf
<1>6. \/ /\ i \in 1..n /\ last_reg_leaves[i].time_min = time'
         /\ last_reg_leaves' = [slots EXCEPT ![i].value = value]
         /\ UNCHANGED reg_leaves
      \/ /\ i = n + 1
         /\ last_reg_leaves' = [slots EXCEPT ![i] = new]
         /\ UNCHANGED reg_leaves
      \/ /\ i \in 1..n /\ last_reg_leaves[i].time_min < time'
         /\ reg_leaves' = reg_leaves \cup {CloseBefore(last_reg_leaves[i], time')}
         /\ last_reg_leaves' = [slots EXCEPT ![i] = new]
  <2>1. CASE i = n + 1
    <3>1. slots[i] = NoLeaf
      <4>1. n + 1 = Len(reg_name_mapping)'
        BY <1>2, <1>3, <2>1 DEF SlotOf
      <4>2. n + 1 \in 1..Len(reg_name_mapping)' /\ ~(n + 1 <= n)
        BY <1>3, <4>1
      <4> HIDE DEF n
      <4>. QED  BY <1>4, <2>1, <4>2
    <3> HIDE DEF slots, new
    <3>. QED  BY <1>0, <2>1, <3>1, Zenon
  <2>2. CASE i \in 1..n
    <3> DEFINE last == last_reg_leaves[i]
    <3>1. slots[i] = last /\ last # NoLeaf
      BY <1>3, <1>4, <2>2
    <3>2. last.time_min = last.time_max
      BY <1>3, <2>2
    <3>3. last.time_min < time' \/ last.time_min = time'
      <4> DEFINE t == last.time_min
                 u == time'
      <4>1. t \in Int /\ u \in Int /\ curr_time \in Int /\ t <= curr_time /\ curr_time <= u
        BY <1>3, <2>2, ConstantsAssumption DEF RegLeaf, Time, RegInv, NormalizeTypeOK
      <4> HIDE DEF t, u
      <4>2. t < u \/ t = u
        BY <4>1
      <4>. QED  BY <4>2 DEF t, u
    <3> HIDE DEF slots, new
    <3>4. CASE last.time_min = time'
      BY <1>0, <2>2, <3>1, <3>2, <3>4, Zenon
    <3>5. CASE last.time_min # time'
      BY <1>0, <2>2, <3>1, <3>3, <3>5, Zenon
    <3>. QED  BY <3>4, <3>5
  <2>. QED  BY <1>3, <2>1, <2>2
<1>7. ASSUME i \in 1..n, last_reg_leaves[i].time_min = time'
      PROVE  [last_reg_leaves[i] EXCEPT !.value = value] = new
  <2>1. /\ last_reg_leaves[i] \in RegLeaf
        /\ last_reg_leaves[i].reg = name
        /\ last_reg_leaves[i].time_max = time'
    BY <1>2, <1>3, <1>7 DEF SlotOf
  <2>. QED  BY <1>7, <2>1 DEF RegLeaf, OpenReg
<1>8. last_reg_leaves' = [slots EXCEPT ![i] = new]
  <2>1. CASE i \in 1..n /\ last_reg_leaves[i].time_min = time'
    <3>1. slots[i] = last_reg_leaves[i] /\ i \in DOMAIN slots
      BY <1>2, <1>3, <1>4, <2>1 DEF SlotOf
    <3>. QED  BY <1>3, <1>6, <1>7, <2>1, <3>1
  <2>2. CASE ~(i \in 1..n /\ last_reg_leaves[i].time_min = time')
    BY <1>6, <2>2
  <2>. QED  BY <2>1, <2>2
<1>9. last_reg_leaves' = [j \in 1..Len(reg_name_mapping)' |-> IF j = i THEN new ELSE last_reg_leaves[j]]
  <2> DEFINE m == Len(reg_name_mapping)'
  <2>1. /\ i \in 1..m
        /\ \A j \in 1..m : j # i => j <= n
    BY <1>2, <1>3 DEF SlotOf
  <2>2. slots = [j \in 1..m |-> IF j <= n THEN last_reg_leaves[j] ELSE NoLeaf]
    BY <1>4
  <2> HIDE DEF slots, new, n, m
  <2>3. DOMAIN slots = 1..m /\ \A j \in 1..m : j # i => slots[j] = last_reg_leaves[j]
    BY <2>1, <2>2
  <2>4. last_reg_leaves' = [j \in 1..m |-> IF j = i THEN new ELSE slots[j]]
    BY <1>8, <2>1, <2>3
  <2>5. \A j \in 1..m : (IF j = i THEN new ELSE slots[j]) = IF j = i THEN new ELSE last_reg_leaves[j]
    BY <2>3
  <2>. QED  BY <2>4, <2>5 DEF m
<1>10. last_reg_leaves' \in Seq(RegLeaf) /\ Len(last_reg_leaves)' = Len(reg_name_mapping)'
  <2>1. \A j \in 1..Len(reg_name_mapping)' : (IF j = i THEN new ELSE last_reg_leaves[j]) \in RegLeaf
    BY <1>2, <1>3, <1>5 DEF SlotOf
  <2> HIDE DEF new
  <2>. QED  BY <1>3, <1>9, <2>1
<1>11. PushedAt(i, name, value)
  <2>1. /\ last_reg_leaves'[i] = new
        /\ \A j \in 1..n : j # i => last_reg_leaves'[j] = last_reg_leaves[j]
    BY <1>2, <1>3, <1>9 DEF SlotOf
  <2> HIDE DEF slots
  <2>. QED  BY <1>2, <1>6, <1>10, <2>1 DEF PushedAt
<1>. QED  BY <1>2, <1>11 DEF SlotOf

-----------------------------------------------------------------------------
(* The registers *)

\* The clocks at a timed event.
LEMMA TimedClocks ==
  ASSUME RegInv, Inv, NEW sep \in Separator, Timed(sep)
  PROVE  /\ ~finished /\ time' \in Time /\ curr_time' = time'
         /\ curr_time <= time' /\ current_time <= time'
         /\ curr_time \in Int /\ time' \in Int /\ current_time \in Int
<1>1. time \in Int /\ curr_time \in Int /\ current_time \in Int
  BY ConstantsAssumption DEF RegInv, NormalizeTypeOK, Inv, TypeOK, Time
<1>2. time' \in Time /\ time' \in Int /\ time <= time'
  BY <1>1, ConstantsAssumption DEF Timed, TimeAfter, Time
<1>. QED  BY <1>1, <1>2 DEF Timed, RegInv, ClocksAgree

\* What leaves the memory pass alone leaves its leaves alone.
LEMMA MemoryAlone ==
  ASSUME Inv, UNCHANGED vars
  PROVE  /\ Inv' /\ AllLeaves' = AllLeaves
         /\ UNCHANGED <<leaves, current_time, finished>>
<1>1. UNCHANGED <<temporaries, leaves, current_time, finished>>
  BY DEF vars
<1>. QED  BY <1>1, NextKeepsInv DEF vars, AllLeaves, Open, Complete

\* A register event keeps the invariant.
LEMMA RegisterKeepsRegInv ==
  ASSUME Inv, RegInv, NEW sep \in Separator, NEW name \in Reg, NEW value \in Word,
         Register(sep, name, value)
  PROVE  RegInv'
<1> DEFINE new == OpenReg(name, value, time')
           n == Len(reg_name_mapping)
<1>1. /\ Timed(sep) /\ PushRegister(name, value)
      /\ UNCHANGED <<read_leaves, alsr_slide>> /\ UNCHANGED vars
  BY DEF Register
<1>2. /\ ~finished /\ time' \in Time /\ curr_time' = time'
      /\ curr_time <= time' /\ current_time <= time'
      /\ curr_time \in Int /\ time' \in Int /\ current_time \in Int
  BY <1>1, TimedClocks
<1>3. Inv' /\ UNCHANGED <<current_time, finished>>
  BY <1>1, MemoryAlone
<1>4. PICK i \in 1..Len(reg_name_mapping)' : PushedAt(i, name, value)
  BY <1>1, <1>2, RegisterPushes
<1>5. reg_name_mapping' \in Seq(Reg)
  BY <1>1, <1>2, RegisterPushes
<1>6. /\ n \in Nat /\ Len(last_reg_leaves) = n
      /\ DOMAIN last_reg_leaves = 1..n /\ DOMAIN reg_name_mapping = 1..n
      /\ \A j \in 1..n : /\ last_reg_leaves[j] \in RegLeaf
                         /\ last_reg_leaves[j].reg = reg_name_mapping[j]
                         /\ last_reg_leaves[j].time_min = last_reg_leaves[j].time_max
                         /\ last_reg_leaves[j].time_min <= curr_time
  BY <1>2, SlotsFollowNames
<1>7. /\ new \in RegLeaf /\ new # NoLeaf /\ new.reg = name
      /\ new.time_min = time' /\ new.time_max = time'
  BY <1>2, NoRegLeafAssumption DEF OpenReg, RegLeaf
<1>8. SlotOf(i, name)
  BY <1>4 DEF PushedAt
<1>9. /\ last_reg_leaves' \in Seq(RegLeaf)
      /\ DOMAIN last_reg_leaves' = 1..Len(reg_name_mapping)'
      /\ DOMAIN reg_name_mapping' = 1..Len(reg_name_mapping)'
      /\ Len(last_reg_leaves') = Len(reg_name_mapping)'
  BY <1>4, <1>5 DEF PushedAt
<1>10. \A j \in 1..Len(reg_name_mapping)' :
         \/ j = i /\ last_reg_leaves'[j] = new
         \/ j # i /\ j \in 1..n /\ last_reg_leaves'[j] = last_reg_leaves[j]
                  /\ reg_name_mapping'[j] = reg_name_mapping[j]
  BY <1>4, <1>8 DEF PushedAt, SlotOf
<1>11. reg_name_mapping'[i] = name
  BY <1>8 DEF SlotOf
<1> HIDE DEF new
<1>12. SlotsAreFull'
  <2>1. ASSUME NEW j \in 1..Len(reg_name_mapping)'
        PROVE  /\ last_reg_leaves'[j] # NoLeaf
               /\ last_reg_leaves'[j].reg = reg_name_mapping'[j]
               /\ last_reg_leaves'[j].time_min = last_reg_leaves'[j].time_max
               /\ last_reg_leaves'[j].time_min <= curr_time'
    <3>1. CASE j = i
      BY <1>2, <1>7, <1>10, <1>11, <3>1
    <3>2. CASE j # i
      <4>1. /\ j \in 1..n /\ last_reg_leaves'[j] = last_reg_leaves[j]
            /\ reg_name_mapping'[j] = reg_name_mapping[j]
        BY <1>10, <3>2
      <4>2. last_reg_leaves[j].time_min \in Int
        BY <1>6, <4>1, ConstantsAssumption DEF RegLeaf, Time
      <4>. QED  BY <1>2, <1>6, <4>1, <4>2, NoRegLeafAssumption
    <3>. QED  BY <3>1, <3>2
  <2>. QED  BY <1>9, <2>1 DEF SlotsAreFull
<1>13. NamesDistinct'
  <2>1. NamesDistinct
    BY DEF RegInv
  <2>2. \A j \in 1..n : j # i => reg_name_mapping[j] # name
    <3>1. CASE i \in 1..n /\ UNCHANGED reg_name_mapping
      BY <1>6, <1>11, <2>1, <3>1 DEF NamesDistinct
    <3>2. CASE \A j \in 1..n : reg_name_mapping[j] # name
      BY <3>2
    <3>. QED  BY <1>8, <3>1, <3>2 DEF SlotOf
  <2>3. \A j, k \in 1..Len(reg_name_mapping)' :
          reg_name_mapping'[j] = reg_name_mapping'[k] => j = k
    BY <1>6, <1>10, <1>11, <2>1, <2>2 DEF NamesDistinct
  <2>. QED  BY <1>9, <2>3 DEF NamesDistinct
<1>14. \A l \in reg_leaves :
         /\ l \in RegLeaf /\ l.time_min \in Int /\ l.time_max \in Int
         /\ l.time_min <= l.time_max /\ l.time_max <= curr_time
         /\ \E j \in 1..n : last_reg_leaves[j].reg = l.reg /\ l.time_max < last_reg_leaves[j].time_min
  BY <1>2, <1>6, ConstantsAssumption
     DEF RegInv, NormalizeTypeOK, EmittedEndBeforeOpen, RegLeaf, Time
<1>15. \A j \in 1..n : /\ last_reg_leaves[j].time_min \in Int
                       /\ last_reg_leaves[j].reg = name => j = i /\ i \in 1..n
  <2>1. \A j \in 1..n : last_reg_leaves[j].time_min \in Int
    BY <1>6, ConstantsAssumption DEF RegLeaf, Time
  <2>2. ASSUME NEW j \in 1..n, last_reg_leaves[j].reg = name
        PROVE  j = i
    <3>1. reg_name_mapping[j] = name
      BY <1>6, <2>2
    <3>2. i \in 1..n /\ reg_name_mapping[i] = name
      BY <1>8, <3>1 DEF SlotOf
    <3>. QED  BY <1>6, <3>1, <3>2 DEF RegInv, NamesDistinct
  <2>. QED  BY <2>1, <2>2
<1> DEFINE closed == CloseBefore(last_reg_leaves[i], time')
<1>16. ASSUME i \in 1..n, last_reg_leaves[i].time_min < time'
       PROVE  /\ closed \in RegLeaf /\ closed.reg = name
              /\ closed.time_min = last_reg_leaves[i].time_min /\ closed.time_max = time' - 1
              /\ closed.time_min <= closed.time_max
  <2>1. last_reg_leaves[i] \in RegLeaf /\ last_reg_leaves[i].time_min \in Time
    BY <1>6, <1>16 DEF RegLeaf
  <2>2. time' - 1 \in Time /\ last_reg_leaves[i].time_min <= time' - 1
    BY <1>2, <1>16, <2>1, ConstantsAssumption DEF Time
  <2>3. last_reg_leaves[i].reg = name
    BY <1>6, <1>8, <1>16 DEF SlotOf
  <2>. QED  BY <2>1, <2>2, <2>3 DEF CloseBefore, RegLeaf
<1> HIDE DEF closed
<1>17. \/ UNCHANGED reg_leaves /\ i = n + 1
       \/ UNCHANGED reg_leaves /\ i \in 1..n /\ last_reg_leaves[i].time_min = time'
       \/ /\ i \in 1..n /\ last_reg_leaves[i].time_min < time'
          /\ reg_leaves' = reg_leaves \cup {closed}
  BY <1>4 DEF PushedAt, closed
<1>18. reg_leaves' \subseteq RegLeaf
  BY <1>14, <1>16, <1>17
<1>19. EmittedEndBeforeOpen'
  <2>1. ASSUME NEW l \in reg_leaves
        PROVE  \E j \in 1..Len(reg_name_mapping)' :
                 last_reg_leaves'[j].reg = l.reg /\ l.time_max < last_reg_leaves'[j].time_min
    <3>1. PICK j \in 1..n : last_reg_leaves[j].reg = l.reg /\ l.time_max < last_reg_leaves[j].time_min
      BY <1>14
    <3>2. CASE j = i
      <4>1. last_reg_leaves[i].reg = name
        BY <1>6, <1>8, <1>11, <3>2 DEF SlotOf
      <4>2. last_reg_leaves[i].time_min <= curr_time /\ last_reg_leaves[i].time_min \in Int
        BY <1>6, <1>15, <3>2
      <4>3. l.time_max < new.time_min /\ new.reg = l.reg
        BY <1>2, <1>7, <1>14, <3>1, <3>2, <4>1, <4>2
      <4>. QED  BY <1>10, <4>3
    <3>3. CASE j # i
      <4>1. j \in 1..Len(reg_name_mapping)'
        BY <1>6, <1>8 DEF SlotOf
      <4>. QED  BY <1>10, <3>1, <3>3, <4>1
    <3>. QED  BY <3>2, <3>3
  <2>2. ASSUME i \in 1..n, last_reg_leaves[i].time_min < time'
        PROVE  closed.reg = last_reg_leaves'[i].reg /\ closed.time_max < last_reg_leaves'[i].time_min
    BY <1>2, <1>7, <1>10, <1>16, <2>2
  <2>3. ASSUME NEW l \in reg_leaves'
        PROVE  /\ l.time_min <= l.time_max /\ l.time_max <= curr_time'
               /\ \E j \in 1..Len(reg_name_mapping)' :
                    last_reg_leaves'[j].reg = l.reg /\ l.time_max < last_reg_leaves'[j].time_min
    <3>1. CASE l \in reg_leaves
      BY <1>2, <1>14, <2>1, <3>1
    <3>2. CASE /\ i \in 1..n /\ last_reg_leaves[i].time_min < time' /\ l = closed
      BY <1>2, <1>16, <2>2, <3>2
    <3>. QED  BY <1>17, <3>1, <3>2
  <2>. QED  BY <1>9, <2>3 DEF EmittedEndBeforeOpen
<1>20. EmittedApart'
  <2>1. EmittedApart
    BY DEF RegInv
  <2>2. ASSUME i \in 1..n, last_reg_leaves[i].time_min < time', NEW l \in reg_leaves
        PROVE  l.reg # closed.reg \/ l.time_max < closed.time_min
    BY <1>14, <1>15, <1>16, <2>2
  <2>. QED  BY <1>17, <2>1, <2>2 DEF EmittedApart
<1>21. NormalizeTypeOK'
  <2>1. last_reg_leaves' \in Seq(RegLeaf \cup {NoLeaf})
    BY <1>9
  <2>2. TypeOK'
    BY <1>3 DEF Inv
  <2>. QED  BY <1>1, <1>2, <1>5, <1>18, <2>1, <2>2 DEF NormalizeTypeOK, RegInv
<1>22. ClosedAtTheEnd' /\ ClocksAgree'
  BY <1>2, <1>3 DEF ClosedAtTheEnd, ClocksAgree
<1>. QED  BY <1>12, <1>13, <1>19, <1>20, <1>21, <1>22 DEF RegInv

\* What leaves the registers alone keeps the invariant, if it keeps the clocks
\* in order.
LEMMA RegistersAlone ==
  ASSUME RegInv, Inv', UNCHANGED <<reg_name_mapping, last_reg_leaves, reg_leaves, finished>>,
         time' \in Time, curr_time' \in Time, curr_time <= curr_time', ClocksAgree',
         read_leaves' \subseteq [addr_min : Addr, addr_max : Addr, time : Time],
         alsr_slide' \subseteq Slide
  PROVE  RegInv'
<1>1. TypeOK'
  BY DEF Inv
<1>2. NormalizeTypeOK'
  BY <1>1 DEF RegInv, NormalizeTypeOK
<1>3. /\ curr_time \in Int /\ curr_time' \in Int
      /\ \A l \in reg_leaves : l.time_max \in Int
  BY ConstantsAssumption DEF RegInv, NormalizeTypeOK, Time, RegLeaf
<1>4. /\ \A i \in 1..Len(last_reg_leaves) : /\ last_reg_leaves[i] \in RegLeaf
                                           /\ last_reg_leaves[i].time_min \in Int
      /\ DOMAIN last_reg_leaves = 1..Len(last_reg_leaves)
  BY SlotsFollowNames
<1>5. SlotsAreFull'
  <2>1. SlotsAreFull
    BY DEF RegInv
  <2>2. \A i \in DOMAIN last_reg_leaves : last_reg_leaves[i].time_min <= curr_time'
    BY <1>3, <1>4, <2>1 DEF SlotsAreFull
  <2>. QED  BY <2>1, <2>2 DEF SlotsAreFull
<1>6. NamesDistinct' /\ ClosedAtTheEnd' /\ EmittedApart'
  BY DEF RegInv, NamesDistinct, ClosedAtTheEnd, EmittedApart
<1>7. EmittedEndBeforeOpen'
  BY <1>3 DEF RegInv, EmittedEndBeforeOpen
<1>. QED  BY <1>2, <1>5, <1>6, <1>7 DEF RegInv

\* A memory event keeps the invariant.
LEMMA MemoryKeepsRegInv ==
  ASSUME Inv, RegInv, ReadsArePast,
         NEW sep \in Separator, NEW addr \in Addr, NEW len \in 1..MaxLen, NEW mode \in Mode,
         addr + len - 1 \in Addr, NEW bytes \in [0..(len - 1) -> Byte],
         Memory(sep, addr, len, bytes, mode)
  PROVE  /\ Inv' /\ RegInv' /\ ReadsArePast'
         /\ PushArgs(time', addr, len, bytes) /\ Push(time', addr, len, bytes, mode = "Read")
<1>1. /\ Timed(sep) /\ Push(time', addr, len, bytes, mode = "Read")
      /\ UNCHANGED <<reg_name_mapping, last_reg_leaves, reg_leaves, alsr_slide>>
      /\ current_time' = time' /\ UNCHANGED finished
  BY DEF Memory, regVars, Push
<1>2. /\ time' \in Time /\ curr_time' = time' /\ curr_time <= time' /\ current_time <= time'
      /\ time' \in Int /\ current_time \in Int
  BY <1>1, TimedClocks
<1>3. PushArgs(time', addr, len, bytes)
  BY <1>2 DEF PushArgs
<1>4. Inv'
  BY <1>1, <1>3, PushKeepsInv
<1>5. \A r \in read_leaves' : r \in read_leaves \/ (r.time = time' /\ r \in [addr_min : Addr, addr_max : Addr, time : Time])
  BY <1>2 DEF Memory
<1>6. \A r \in read_leaves : r \in [addr_min : Addr, addr_max : Addr, time : Time]
                             /\ r.time <= current_time /\ r.time \in Int
  BY ConstantsAssumption DEF ReadsArePast, RegInv, NormalizeTypeOK, Time
<1>7. ReadsArePast'
  BY <1>1, <1>2, <1>5, <1>6 DEF ReadsArePast
<1>8. ClocksAgree'
  BY <1>1, <1>2 DEF ClocksAgree
<1>9. RegInv'
  BY <1>1, <1>2, <1>4, <1>5, <1>6, <1>8, RegistersAlone DEF RegInv, NormalizeTypeOK
<1>. QED  BY <1>1, <1>3, <1>4, <1>7, <1>9

\* A slide token keeps the invariant.
LEMMA SlideKeepsRegInv ==
  ASSUME Inv, RegInv, NEW sep \in Separator, NEW slide \in Slide, AslrSlide(sep, slide)
  PROVE  RegInv'
<1>1. /\ UNCHANGED vars /\ UNCHANGED <<reg_name_mapping, last_reg_leaves, reg_leaves, read_leaves>>
      /\ curr_time' = curr_time /\ time' = TimeAfter(sep) /\ time' \in Time
      /\ alsr_slide' = {slide}
  BY DEF AslrSlide, regVars
<1>2. Inv' /\ UNCHANGED <<current_time, finished>>
  BY <1>1, MemoryAlone
<1>3. time \in Int /\ curr_time \in Int /\ curr_time \in Time
  BY ConstantsAssumption DEF RegInv, NormalizeTypeOK, Time
<1>4. time <= time'
  BY <1>1, <1>3 DEF TimeAfter
<1>5. ClocksAgree'
  BY <1>1, <1>2, <1>3, <1>4, ConstantsAssumption DEF RegInv, ClocksAgree, Time
<1>. QED  BY <1>1, <1>2, <1>3, <1>5, RegistersAlone DEF RegInv, NormalizeTypeOK

\* The leaves the end of the trace emits are the open ones.
LEMMA ClosedLeaves ==
  ASSUME RegInv, ~finished, CloseRegisters,
         NEW l \in reg_leaves' \ reg_leaves
  PROVE  \E i \in 1..Len(last_reg_leaves) :
           /\ l = [last_reg_leaves[i] EXCEPT !.time_max = curr_time]
           /\ l \in RegLeaf /\ l.reg = last_reg_leaves[i].reg
           /\ l.value = last_reg_leaves[i].value
           /\ l.time_min = last_reg_leaves[i].time_min /\ l.time_max = curr_time
           /\ l.time_min \in Int /\ l.time_min <= curr_time
<1>1. PICK i \in 1..Len(last_reg_leaves) : l = [last_reg_leaves[i] EXCEPT !.time_max = curr_time]
  BY SlotsFollowNames DEF CloseRegisters
<1>2. last_reg_leaves[i] \in RegLeaf /\ last_reg_leaves[i].time_min <= curr_time
  BY SlotsFollowNames
<1>3. curr_time \in Time
  BY DEF RegInv, NormalizeTypeOK
<1> DEFINE open == last_reg_leaves[i]
<1>4. open \in RegLeaf /\ open.time_min <= curr_time
  BY <1>2
<1> HIDE DEF open
<1>5. l = [open EXCEPT !.time_max = curr_time]
  BY <1>1 DEF open
<1>6. /\ l \in RegLeaf /\ l.reg = open.reg /\ l.value = open.value
      /\ l.time_min = open.time_min /\ l.time_max = curr_time
  BY <1>3, <1>4, <1>5 DEF RegLeaf
<1>7. open.time_min \in Int
  BY <1>4, ConstantsAssumption DEF RegLeaf, Time
<1>8. /\ l = [open EXCEPT !.time_max = curr_time]
      /\ l \in RegLeaf /\ l.reg = open.reg
      /\ l.value = open.value
      /\ l.time_min = open.time_min /\ l.time_max = curr_time
      /\ l.time_min \in Int /\ l.time_min <= curr_time
  BY <1>4, <1>5, <1>6, <1>7
<1>. QED  BY <1>8 DEF open

\* The end of the trace keeps the invariant: the open leaves of different
\* registers become emitted leaves of different registers.
LEMMA EndKeepsRegInv ==
  ASSUME Inv, RegInv, EndOfTrace
  PROVE  Inv' /\ RegInv'
<1>1. /\ Finish /\ CloseRegisters /\ last_reg_leaves' = <<>> /\ finished' = TRUE
      /\ ~finished /\ UNCHANGED current_time
      /\ UNCHANGED <<time, curr_time, reg_name_mapping, read_leaves, alsr_slide>>
  BY DEF EndOfTrace, Finish
<1>2. Inv'
  BY <1>1, FinishKeepsInv
<1>3. /\ curr_time \in Int
      /\ \A l \in reg_leaves : l \in RegLeaf /\ l.time_min \in Int /\ l.time_max \in Int
                               /\ l.time_min <= l.time_max /\ l.time_max <= curr_time
  BY ConstantsAssumption DEF RegInv, NormalizeTypeOK, EmittedEndBeforeOpen, RegLeaf, Time
<1>4. NormalizeTypeOK'
  <2>1. TypeOK'
    BY <1>2 DEF Inv
  <2>2. reg_leaves' \subseteq RegLeaf
    BY <1>1, <1>3, ClosedLeaves
  <2>. QED  BY <1>1, <2>1, <2>2 DEF NormalizeTypeOK, RegInv
<1>5. SlotsAreFull' /\ NamesDistinct' /\ ClosedAtTheEnd' /\ ClocksAgree'
  BY <1>1 DEF SlotsAreFull, NamesDistinct, ClosedAtTheEnd, ClocksAgree, RegInv
<1>6. EmittedEndBeforeOpen'
  <2>1. \A l \in reg_leaves' : l.time_min <= l.time_max /\ l.time_max <= curr_time
    BY <1>1, <1>3, ClosedLeaves
  <2>. QED  BY <1>1, <2>1 DEF EmittedEndBeforeOpen
<1>7. EmittedApart'
  <2> DEFINE apart(l, m) == l.reg # m.reg \/ l.time_max < m.time_min \/ m.time_max < l.time_min
  <2>1. ASSUME NEW l \in reg_leaves, NEW m \in reg_leaves' \ reg_leaves
        PROVE  apart(l, m) /\ apart(m, l)
    <3>1. PICK i \in 1..Len(last_reg_leaves) :
            m.reg = last_reg_leaves[i].reg /\ m.time_min = last_reg_leaves[i].time_min
      BY <1>1, <2>1, ClosedLeaves
    <3>2. PICK j \in 1..Len(last_reg_leaves) :
            last_reg_leaves[j].reg = l.reg /\ l.time_max < last_reg_leaves[j].time_min
      BY <1>1, SlotsFollowNames DEF RegInv, EmittedEndBeforeOpen
    <3>3. last_reg_leaves[i].reg = last_reg_leaves[j].reg => i = j
      BY <1>1, SlotsFollowNames DEF RegInv, NamesDistinct
    <3>. QED  BY <3>1, <3>2, <3>3
  <2>2. ASSUME NEW l \in reg_leaves' \ reg_leaves, NEW m \in reg_leaves' \ reg_leaves, l # m
        PROVE  l.reg # m.reg
    <3>1. PICK i \in 1..Len(last_reg_leaves) :
            /\ l = [last_reg_leaves[i] EXCEPT !.time_max = curr_time]
            /\ l.reg = last_reg_leaves[i].reg
      BY <1>1, <2>2, ClosedLeaves
    <3>2. PICK j \in 1..Len(last_reg_leaves) :
            /\ m = [last_reg_leaves[j] EXCEPT !.time_max = curr_time]
            /\ m.reg = last_reg_leaves[j].reg
      BY <1>1, <2>2, ClosedLeaves
    <3>3. last_reg_leaves[i].reg = last_reg_leaves[j].reg => i = j
      BY <1>1, SlotsFollowNames DEF RegInv, NamesDistinct
    <3>. QED  BY <2>2, <3>1, <3>2, <3>3
  <2>3. EmittedApart
    BY DEF RegInv
  <2>. QED  BY <2>1, <2>2, <2>3 DEF EmittedApart
<1>. QED  BY <1>2, <1>4, <1>5, <1>6, <1>7 DEF RegInv

-----------------------------------------------------------------------------
(* The values of the registers *)

\* A leaf that gives a register its value at a time was emitted, or is open.
LEMMA LeafAtIs ==
  ASSUME NEW r, NEW t, NEW l
  PROVE  l \in LeafAt(r, t) <=>
           /\ l.reg = r /\ l.time_min <= t
           /\ \/ l \in reg_leaves /\ t <= l.time_max
              \/ \E i \in DOMAIN last_reg_leaves : l = last_reg_leaves[i]
BY DEF LeafAt, Range

\* There is at most one.
LEMMA OneLeaf ==
  RegInv => \A r \in Reg, t \in Time : \A l, m \in LeafAt(r, t) : l = m
<1> SUFFICES ASSUME RegInv, NEW r \in Reg, NEW t \in Time,
                    NEW l \in LeafAt(r, t), NEW m \in LeafAt(r, t)
             PROVE  l = m
  OBVIOUS
<1>0. DOMAIN last_reg_leaves = 1..Len(last_reg_leaves)
  BY SlotsFollowNames
<1>1. /\ l.reg = r /\ l.time_min <= t
      /\ \/ l \in reg_leaves /\ t <= l.time_max
         \/ \E i \in 1..Len(last_reg_leaves) : l = last_reg_leaves[i]
  BY <1>0, LeafAtIs
<1>2. /\ m.reg = r /\ m.time_min <= t
      /\ \/ m \in reg_leaves /\ t <= m.time_max
         \/ \E i \in 1..Len(last_reg_leaves) : m = last_reg_leaves[i]
  BY <1>0, LeafAtIs
<1>3. t \in Int /\ \A k \in reg_leaves : k.time_min \in Int /\ k.time_max \in Int
  BY ConstantsAssumption DEF RegInv, NormalizeTypeOK, RegLeaf, Time
<1>4. ASSUME NEW i \in 1..Len(last_reg_leaves), NEW j \in 1..Len(last_reg_leaves),
             last_reg_leaves[i].reg = last_reg_leaves[j].reg
      PROVE  i = j
  <2>1. ~finished
    BY <1>4 DEF RegInv, ClosedAtTheEnd
  <2>2. i \in DOMAIN reg_name_mapping /\ j \in DOMAIN reg_name_mapping
    BY <2>1, SlotsFollowNames
  <2>3. reg_name_mapping[i] = reg_name_mapping[j]
    BY <1>4, SlotsFollowNames
  <2>. QED  BY <2>2, <2>3 DEF RegInv, NamesDistinct
<1>5. ASSUME NEW k \in reg_leaves, t <= k.time_max, k.reg = r,
             NEW i \in 1..Len(last_reg_leaves), last_reg_leaves[i].reg = r,
             last_reg_leaves[i].time_min <= t
      PROVE  FALSE
  <2>1. ~finished
    BY <1>5 DEF RegInv, ClosedAtTheEnd
  <2>2. PICK j \in 1..Len(last_reg_leaves) :
          last_reg_leaves[j].reg = k.reg /\ k.time_max < last_reg_leaves[j].time_min
    BY <2>1, SlotsFollowNames DEF RegInv, EmittedEndBeforeOpen
  <2>3. last_reg_leaves[i].time_min \in Int
    BY SlotsFollowNames
  <2>. QED  BY <1>3, <1>4, <1>5, <2>2, <2>3
<1>6. CASE l \in reg_leaves /\ t <= l.time_max /\ m \in reg_leaves /\ t <= m.time_max
  BY <1>1, <1>2, <1>3, <1>6 DEF RegInv, EmittedApart
<1>. QED  BY <1>1, <1>2, <1>4, <1>5, <1>6

\* So it gives the value.
LEMMA RegValueOf ==
  RegInv => \A r \in Reg, t \in Time : \A l \in LeafAt(r, t) : RegValue(r, t) = l.value
BY OneLeaf DEF RegValue

\* The same of what a step comes to.
LEMMA RegValueOfNext ==
  RegInv' => (\A r \in Reg, t \in Time : \A l \in LeafAt(r, t) : RegValue(r, t) = l.value)'
BY RegValueOf, PTL

\* The leaves of a register at a time, after a step.
LEMMA LeafAtIsNext ==
  ASSUME NEW r, NEW t, NEW l
  PROVE  l \in LeafAt(r, t)' <=>
           /\ l.reg = r /\ l.time_min <= t
           /\ \/ l \in reg_leaves' /\ t <= l.time_max
              \/ \E i \in DOMAIN last_reg_leaves' : l = last_reg_leaves'[i]
BY DEF LeafAt, Range

\* Two sets of leaves with the same values, or both empty, answer alike.
LEMMA SameValue ==
  ASSUME RegInv, RegInv', NEW r \in Reg, NEW t \in Time,
         \A l \in LeafAt(r, t) : \E p \in LeafAt(r, t)' : p.value = l.value,
         LeafAt(r, t)' # {} => LeafAt(r, t) # {}
  PROVE  RegValue(r, t)' = RegValue(r, t)
<1>1. CASE LeafAt(r, t) = {}
  <2>1. LeafAt(r, t)' = {}
    BY <1>1
  <2>. QED  BY <1>1, <2>1 DEF RegValue
<1>2. ASSUME NEW l \in LeafAt(r, t)
      PROVE  RegValue(r, t)' = RegValue(r, t)
  <2>1. PICK p \in LeafAt(r, t)' : p.value = l.value
    OBVIOUS
  <2>2. RegValue(r, t)' = p.value
    BY RegValueOfNext
  <2>3. RegValue(r, t) = l.value
    BY RegValueOf
  <2>. QED  BY <2>1, <2>2, <2>3
<1>. QED  BY <1>1, <1>2

\* A register event gives its register the value from its time on, and
\* changes no other value.
LEMMA RegisterValues ==
  ASSUME Inv, RegInv, NEW sep \in Separator, NEW name \in Reg, NEW value \in Word,
         Register(sep, name, value), NEW r \in Reg, NEW t \in Time
  PROVE  RegValue(r, t)' = IF r = name /\ t >= time' THEN value ELSE RegValue(r, t)
<1> DEFINE new == OpenReg(name, value, time')
           n == Len(reg_name_mapping)
<1>1. Timed(sep) /\ PushRegister(name, value)
  BY DEF Register
<1>2. ~finished /\ time' \in Time /\ time' \in Int /\ curr_time <= time'
  BY <1>1, TimedClocks
<1>3. RegInv'
  BY RegisterKeepsRegInv
<1>4. PICK i \in 1..Len(reg_name_mapping)' : PushedAt(i, name, value)
  BY <1>1, <1>2, RegisterPushes
<1>5. /\ n \in Nat /\ Len(last_reg_leaves) = n /\ DOMAIN last_reg_leaves = 1..n
      /\ \A j \in 1..n : /\ last_reg_leaves[j] \in RegLeaf
                         /\ last_reg_leaves[j].reg = reg_name_mapping[j]
                         /\ last_reg_leaves[j].time_min \in Int
  BY <1>2, SlotsFollowNames
<1>6. /\ new.reg = name /\ new.value = value /\ new.time_min = time'
  BY DEF OpenReg
<1>7. /\ DOMAIN last_reg_leaves' = 1..Len(reg_name_mapping)'
      /\ last_reg_leaves'[i] = new
      /\ 1..n \subseteq 1..Len(reg_name_mapping)'
      /\ \A j \in 1..Len(reg_name_mapping)' : j # i =>
           j \in 1..n /\ last_reg_leaves'[j] = last_reg_leaves[j]
  <2>1. DOMAIN last_reg_leaves' = 1..Len(reg_name_mapping)'
    BY <1>4 DEF PushedAt
  <2>2. 1..n \subseteq 1..Len(reg_name_mapping)'
    BY <1>4, <1>5 DEF PushedAt, SlotOf
  <2>. QED  BY <1>4, <2>1, <2>2 DEF PushedAt, SlotOf
<1>8. t \in Int
  BY ConstantsAssumption DEF Time
<1> HIDE DEF new
<1>9. CASE r = name /\ t >= time'
  <2>1. new \in LeafAt(r, t)'
    BY <1>2, <1>6, <1>7, <1>8, <1>9, LeafAtIsNext
  <2>2. RegValue(r, t)' = new.value
    BY <1>3, <2>1, RegValueOfNext
  <2>. QED  BY <1>6, <1>9, <2>2
<1>10. CASE r = name => t < time'
  <2> DEFINE closed == CloseBefore(last_reg_leaves[i], time')
  <2>1. \/ UNCHANGED reg_leaves
        \/ i \in 1..n /\ reg_leaves' = reg_leaves \cup {closed}
    BY <1>4 DEF PushedAt
  <2>2. ASSUME i \in 1..n
        PROVE  /\ last_reg_leaves[i].reg = name
               /\ closed.reg = name /\ closed.value = last_reg_leaves[i].value
               /\ closed.time_min = last_reg_leaves[i].time_min
               /\ closed.time_max = time' - 1
               /\ \/ last_reg_leaves[i].time_min = time'
                  \/ reg_leaves' = reg_leaves \cup {closed}
    <3>1. last_reg_leaves[i] \in RegLeaf /\ last_reg_leaves[i].reg = name
      BY <1>4, <1>5, <2>2 DEF PushedAt, SlotOf
    <3>2. \/ last_reg_leaves[i].time_min = time'
          \/ reg_leaves' = reg_leaves \cup {closed}
      BY <1>4, <1>5, <2>2 DEF PushedAt
    <3>. QED  BY <3>1, <3>2 DEF CloseBefore, RegLeaf
  <2> HIDE DEF closed
  <2>3. ASSUME NEW l \in LeafAt(r, t)
        PROVE  \E p \in LeafAt(r, t)' : p.value = l.value
    <3>1. l.reg = r /\ l.time_min <= t
      BY LeafAtIs
    <3>2. CASE l \in reg_leaves /\ t <= l.time_max
      <4>1. l \in reg_leaves'
        BY <2>1, <3>2
      <4>2. l \in LeafAt(r, t)'
        BY <3>1, <3>2, <4>1, LeafAtIsNext
      <4>. QED  BY <4>2
    <3>3. ASSUME NEW j \in 1..n, l = last_reg_leaves[j], j # i
          PROVE  l \in LeafAt(r, t)'
      <4>1. j \in DOMAIN last_reg_leaves' /\ l = last_reg_leaves'[j]
        BY <1>7, <3>3
      <4>. QED  BY <3>1, <4>1, LeafAtIsNext
    <3>4. ASSUME i \in 1..n, l = last_reg_leaves[i]
          PROVE  closed \in LeafAt(r, t)' /\ closed.value = l.value
      <4>1. /\ closed.reg = r /\ closed.time_min <= t /\ closed.value = l.value
            /\ l.reg = name /\ closed.time_max = time' - 1
        BY <2>2, <3>1, <3>4
      <4>2. t < time' /\ l.time_min < time' /\ t <= closed.time_max
        BY <1>2, <1>5, <1>8, <1>10, <3>1, <3>4, <4>1
      <4>3. closed \in reg_leaves'
        BY <1>2, <1>5, <2>2, <3>4, <4>2
      <4>. QED  BY <4>1, <4>2, <4>3, LeafAtIsNext
    <3>5. \/ l \in reg_leaves /\ t <= l.time_max
          \/ \E j \in 1..n : l = last_reg_leaves[j]
      BY <1>5, LeafAtIs
    <3>. QED  BY <3>2, <3>3, <3>4, <3>5
  <2>4. ASSUME NEW p \in LeafAt(r, t)'
        PROVE  LeafAt(r, t) # {}
    <3>1. p.reg = r /\ p.time_min <= t
      BY LeafAtIsNext
    <3>2. CASE p \in reg_leaves /\ t <= p.time_max
      <4>1. p \in LeafAt(r, t)
        BY <3>1, <3>2, LeafAtIs
      <4>. QED  BY <4>1
    <3>3. CASE i \in 1..n /\ p = closed
      <4>1. last_reg_leaves[i] \in LeafAt(r, t)
        BY <1>5, <2>2, <3>1, <3>3, LeafAtIs
      <4>. QED  BY <4>1
    <3>4. ASSUME NEW j \in 1..Len(reg_name_mapping)', p = last_reg_leaves'[j]
          PROVE  LeafAt(r, t) # {}
      <4>1. j # i
        BY <1>2, <1>6, <1>7, <1>8, <1>10, <3>1, <3>4
      <4>2. j \in 1..n /\ p = last_reg_leaves[j]
        BY <1>7, <3>4, <4>1
      <4>3. p \in LeafAt(r, t)
        BY <1>5, <3>1, <4>2, LeafAtIs
      <4>. QED  BY <4>3
    <3>5. \/ p \in reg_leaves' /\ t <= p.time_max
          \/ \E j \in 1..Len(reg_name_mapping)' : p = last_reg_leaves'[j]
      BY <1>7, LeafAtIsNext
    <3>. QED  BY <2>1, <3>2, <3>3, <3>4, <3>5
  <2>5. RegValue(r, t)' = RegValue(r, t)
    BY <1>3, <2>3, <2>4, SameValue
  <2>. QED  BY <1>2, <1>8, <1>10, <2>5
<1>. QED  BY <1>2, <1>8, <1>9, <1>10

\* What leaves the vectors alone leaves the values alone.
LEMMA SameRegisters ==
  ASSUME UNCHANGED <<reg_leaves, last_reg_leaves>>, NEW r, NEW t
  PROVE  RegValue(r, t)' = RegValue(r, t)
<1>1. LeafAt(r, t)' = LeafAt(r, t)
  BY DEF LeafAt, Range
<1>. QED  BY <1>1 DEF RegValue

\* The end of the trace keeps the values up to the last event, and only those.
LEMMA CloseValues ==
  ASSUME Inv, RegInv, EndOfTrace, NEW r \in Reg, NEW t \in Time
  PROVE  RegValue(r, t)' = IF t <= curr_time THEN RegValue(r, t) ELSE Unknown
<1>1. /\ ~finished /\ CloseRegisters /\ last_reg_leaves' = <<>> /\ curr_time' = curr_time
  BY DEF EndOfTrace, Finish
<1>2. RegInv'
  BY EndKeepsRegInv
<1>3. t \in Int /\ curr_time \in Int
  BY ConstantsAssumption DEF RegInv, NormalizeTypeOK, Time
<1>4. DOMAIN last_reg_leaves' = {} /\ DOMAIN last_reg_leaves = 1..Len(last_reg_leaves)
  BY <1>1, SlotsFollowNames
<1>5. CASE t <= curr_time
  <2>1. ASSUME NEW l \in LeafAt(r, t)
        PROVE  \E p \in LeafAt(r, t)' : p.value = l.value
    <3>1. l.reg = r /\ l.time_min <= t
      BY LeafAtIs
    <3>2. CASE l \in reg_leaves /\ t <= l.time_max
      <4>1. l \in reg_leaves'
        BY <1>1, <3>2 DEF CloseRegisters
      <4>2. l \in LeafAt(r, t)'
        BY <3>1, <3>2, <4>1, LeafAtIsNext
      <4>. QED  BY <4>2
    <3>3. ASSUME NEW i \in 1..Len(last_reg_leaves), l = last_reg_leaves[i]
          PROVE  \E p \in LeafAt(r, t)' : p.value = l.value
      <4> DEFINE p == [l EXCEPT !.time_max = curr_time]
      <4>1. p \in reg_leaves'
        BY <1>1, <1>4, <3>3 DEF CloseRegisters
      <4>2. l \in RegLeaf
        BY <3>3, SlotsFollowNames
      <4>3. /\ p.reg = l.reg /\ p.value = l.value /\ p.time_min = l.time_min
            /\ p.time_max = curr_time
        BY <4>2 DEF RegLeaf
      <4> HIDE DEF p
      <4>4. p \in LeafAt(r, t)'
        BY <1>5, <3>1, <4>1, <4>3, LeafAtIsNext
      <4>. QED  BY <4>3, <4>4
    <3>4. \/ l \in reg_leaves /\ t <= l.time_max
          \/ \E j \in 1..Len(last_reg_leaves) : l = last_reg_leaves[j]
      BY <1>4, LeafAtIs
    <3>. QED  BY <3>2, <3>3, <3>4
  <2>2. ASSUME NEW p \in LeafAt(r, t)'
        PROVE  LeafAt(r, t) # {}
    <3>1. p.reg = r /\ p.time_min <= t /\ p \in reg_leaves' /\ t <= p.time_max
      BY <1>4, LeafAtIsNext
    <3>2. CASE p \in reg_leaves
      <4>1. p \in LeafAt(r, t)
        BY <3>1, <3>2, LeafAtIs
      <4>. QED  BY <4>1
    <3>3. CASE p \notin reg_leaves
      <4>1. PICK i \in 1..Len(last_reg_leaves) :
              p.reg = last_reg_leaves[i].reg /\ p.time_min = last_reg_leaves[i].time_min
        BY <1>1, <3>1, <3>3, ClosedLeaves
      <4>2. last_reg_leaves[i] \in LeafAt(r, t)
        BY <1>4, <3>1, <4>1, LeafAtIs
      <4>. QED  BY <4>2
    <3>. QED  BY <3>2, <3>3
  <2>3. RegValue(r, t)' = RegValue(r, t)
    BY <1>2, <2>1, <2>2, SameValue
  <2>. QED  BY <1>5, <2>3
<1>6. CASE ~(t <= curr_time)
  <2>1. ASSUME NEW p \in LeafAt(r, t)'
        PROVE  FALSE
    <3>1. p \in reg_leaves' /\ t <= p.time_max
      BY <1>4, LeafAtIsNext
    <3>2. p.time_max <= curr_time /\ p.time_max \in Int
      BY <1>1, <1>2, <3>1, ConstantsAssumption
         DEF RegInv, NormalizeTypeOK, EmittedEndBeforeOpen, RegLeaf, Time
    <3>. QED  BY <1>3, <1>6, <3>1, <3>2
  <2>2. LeafAt(r, t)' = {}
    BY <2>1
  <2>. QED  BY <1>6, <2>2 DEF RegValue
<1>. QED  BY <1>5, <1>6

-----------------------------------------------------------------------------
(* The invariant *)

\* A memory event answers what it read, and takes no byte away.
LEMMA MemoryKeepsAnswers ==
  ASSUME Inv, RegInv, ReadsArePast, ReadsAreAnswered,
         NEW sep \in Separator, NEW addr \in Addr, NEW len \in 1..MaxLen, NEW mode \in Mode,
         addr + len - 1 \in Addr, NEW bytes \in [0..(len - 1) -> Byte],
         Memory(sep, addr, len, bytes, mode)
  PROVE  ReadsAreAnswered'
<1> DEFINE last == addr + len - 1
<1>1. /\ PushArgs(time', addr, len, bytes) /\ Push(time', addr, len, bytes, mode = "Read")
      /\ time' \in Time
  BY MemoryKeepsRegInv DEF Memory, Timed
<1>2. Refined!Access(time', addr, last, bytes)
  BY <1>1, RefinesPush
<1>3. /\ addr \in Int /\ last \in Int /\ last - addr = len - 1
      /\ addr \in Addr /\ last \in Addr
  BY ConstantsAssumption DEF Addr
<1>4. \A a \in addr..last : bytes[a - addr] # Unknown
  <2>1. \A a \in addr..last : a - addr \in 0..(len - 1)
    BY <1>3
  <2>. QED  BY <2>1, ConstantsAssumption
<1> HIDE DEF last
<1>5. ASSUME NEW t \in Time, NEW a \in Addr
      PROVE  Value(AllLeaves', t, a) = IF t >= time' /\ addr <= a /\ a <= last
                                       THEN bytes[a - addr] ELSE Value(AllLeaves, t, a)
  <2>1. Values'[t][a] = IF t >= time' /\ addr <= a /\ a <= last
                        THEN bytes[a - addr] ELSE Values[t][a]
    BY <1>2 DEF Refined!Access
  <2>2. Values'[t][a] = Value(AllLeaves', t, a)
    BY NextValues
  <2>3. Values[t][a] = Value(AllLeaves, t, a)
    BY DEF Values
  <2>. QED  BY <2>1, <2>2, <2>3
<1>6. ASSUME NEW r \in read_leaves, NEW a \in r.addr_min..r.addr_max
      PROVE  Value(AllLeaves', r.time, a) # Unknown
  <2>1. r \in [addr_min : Addr, addr_max : Addr, time : Time]
    BY DEF RegInv, NormalizeTypeOK
  <2>2. r.time \in Time /\ a \in Addr /\ a \in Int
    BY <2>1, ConstantsAssumption DEF Addr
  <2>3. Value(AllLeaves, r.time, a) # Unknown
    BY DEF ReadsAreAnswered
  <2>. QED  BY <1>3, <1>4, <1>5, <2>2, <2>3
<1>7. ASSUME NEW a \in addr..last
      PROVE  Value(AllLeaves', time', a) # Unknown
  <2>1. a \in Addr /\ a \in Int /\ addr <= a /\ a <= last
    BY <1>3, <1>7, ConstantsAssumption DEF Addr
  <2>2. time' >= time'
    BY <1>1, ConstantsAssumption DEF Time
  <2>. QED  BY <1>1, <1>4, <1>5, <2>1, <2>2
<1>8. \A r \in read_leaves' :
        r \in read_leaves \/ r = [addr_min |-> addr, addr_max |-> last, time |-> time']
  BY DEF Memory, last
<1>9. \A r \in read_leaves' : \A a \in r.addr_min..r.addr_max : Value(AllLeaves', r.time, a) # Unknown
  BY <1>6, <1>7, <1>8
<1>. QED  BY <1>9 DEF ReadsAreAnswered, Value

\* Nor does the end of the trace: what was read was read before it.
LEMMA EndKeepsAnswers ==
  ASSUME Inv, RegInv, ReadsArePast, ReadsAreAnswered, EndOfTrace
  PROVE  ReadsAreAnswered' /\ ReadsArePast'
<1>1. Finish /\ UNCHANGED <<read_leaves, current_time>>
  BY DEF EndOfTrace, Finish
<1>2. ASSUME NEW r \in read_leaves, NEW a \in r.addr_min..r.addr_max
      PROVE  Value(AllLeaves', r.time, a) # Unknown
  <2>1. r \in [addr_min : Addr, addr_max : Addr, time : Time]
    BY DEF RegInv, NormalizeTypeOK
  <2>2. r.time \in Time /\ a \in Addr
    BY <2>1, ConstantsAssumption DEF Addr
  <2>3. r.time <= current_time
    BY DEF ReadsArePast
  <2>. QED  BY <1>1, <2>2, <2>3, FinishValues DEF ReadsAreAnswered
<1>. QED  BY <1>1, <1>2 DEF ReadsAreAnswered, ReadsArePast, Value

\* Nothing is open or emitted at first.
LEMMA NormalizeInitInv == NormalizeInit => NormalizeInv
<1> SUFFICES ASSUME NormalizeInit PROVE NormalizeInv
  OBVIOUS
<1>1. /\ Init /\ time = 0 /\ curr_time = 0 /\ reg_name_mapping = <<>>
      /\ last_reg_leaves = <<>> /\ reg_leaves = {} /\ read_leaves = {} /\ alsr_slide = {}
  BY DEF NormalizeInit
<1>2. Inv /\ TypeOK /\ current_time = 0 /\ finished = FALSE
  BY <1>1, InitInv DEF Init, Inv
<1>3. 0 \in Time
  BY ConstantsAssumption DEF Time
<1>4. NormalizeTypeOK
  BY <1>1, <1>2, <1>3 DEF NormalizeTypeOK
<1>5. SlotsAreFull /\ NamesDistinct /\ ClosedAtTheEnd /\ EmittedEndBeforeOpen /\ EmittedApart
  BY <1>1, <1>2
     DEF SlotsAreFull, NamesDistinct, ClosedAtTheEnd, EmittedEndBeforeOpen, EmittedApart
<1>6. ClocksAgree /\ ReadsArePast /\ ReadsAreAnswered
  BY <1>1, <1>2 DEF ClocksAgree, ReadsArePast, ReadsAreAnswered
<1>. QED  BY <1>2, <1>4, <1>5, <1>6 DEF NormalizeInv, RegInv

\* Every token of a line, its end and the end of the trace keep the invariant.
LEMMA NormalizeKeepsInv == NormalizeInv /\ [NormalizeNext]_normalizeVars => NormalizeInv'
<1> SUFFICES ASSUME NormalizeInv, [NormalizeNext]_normalizeVars PROVE NormalizeInv'
  OBVIOUS
<1>0. Inv /\ RegInv /\ ReadsArePast /\ ReadsAreAnswered
  BY DEF NormalizeInv
<1>1. ASSUME UNCHANGED vars, UNCHANGED read_leaves
      PROVE  Inv' /\ ReadsArePast' /\ ReadsAreAnswered'
  <2>1. Inv' /\ AllLeaves' = AllLeaves /\ UNCHANGED current_time
    BY <1>0, <1>1, MemoryAlone
  <2>. QED  BY <1>0, <1>1, <2>1 DEF ReadsArePast, ReadsAreAnswered, Value
<1>2. ASSUME NEW sep \in Separator, NEW name \in Reg, NEW value \in Word,
             Register(sep, name, value)
      PROVE  NormalizeInv'
  <2>1. UNCHANGED vars /\ UNCHANGED read_leaves
    BY <1>2 DEF Register
  <2>. QED  BY <1>0, <1>1, <1>2, <2>1, RegisterKeepsRegInv DEF NormalizeInv
<1>3. ASSUME NEW sep \in Separator, NEW slide \in Slide, AslrSlide(sep, slide)
      PROVE  NormalizeInv'
  <2>1. UNCHANGED vars /\ UNCHANGED read_leaves
    BY <1>3 DEF AslrSlide
  <2>. QED  BY <1>0, <1>1, <1>3, <2>1, SlideKeepsRegInv DEF NormalizeInv
<1>4. ASSUME NEW sep \in Separator, NEW addr \in Addr, NEW len \in 1..MaxLen,
             NEW mode \in Mode, addr + len - 1 \in Addr,
             NEW bytes \in [0..(len - 1) -> Byte], Memory(sep, addr, len, bytes, mode)
      PROVE  NormalizeInv'
  BY <1>0, <1>4, MemoryKeepsRegInv, MemoryKeepsAnswers DEF NormalizeInv
<1>5. CASE EndOfTrace
  BY <1>0, <1>5, EndKeepsRegInv, EndKeepsAnswers DEF NormalizeInv
<1>6. CASE UNCHANGED normalizeVars
  <2>1. /\ UNCHANGED vars
        /\ UNCHANGED <<time, curr_time, reg_name_mapping, last_reg_leaves, reg_leaves,
                       read_leaves, alsr_slide>>
    BY <1>6 DEF normalizeVars, regVars
  <2>2. Inv' /\ UNCHANGED <<current_time, finished>>
    BY <1>0, <2>1, MemoryAlone
  <2>3. ClocksAgree' /\ curr_time <= curr_time'
    BY <1>0, <2>1, <2>2, ConstantsAssumption DEF RegInv, NormalizeTypeOK, ClocksAgree, Time
  <2>4. RegInv'
    BY <1>0, <2>1, <2>2, <2>3, RegistersAlone DEF RegInv, NormalizeTypeOK
  <2>. QED  BY <1>1, <2>1, <2>4 DEF NormalizeInv
<1>. QED  BY <1>2, <1>3, <1>4, <1>5, <1>6 DEF NormalizeNext

\* For every trace the inductive invariant holds of parse_and_normalize_events
\* (crates/index/src/pass.rs) at every token.
THEOREM NormalizeInvariance == NormalizeSpec => []NormalizeInv
BY NormalizeInitInv, NormalizeKeepsInv, PTL DEF NormalizeSpec

-----------------------------------------------------------------------------
(* What it gives *)

\* For every run: names, leaves and clocks are well typed; every leaf the pass
\* emits, for memory or for a register, ends at a time of the trace.
THEOREM NormalizeTypeCorrectness == NormalizeSpec => []NormalizeTypeOK
<1>1. NormalizeInv => NormalizeTypeOK
  BY DEF NormalizeInv, RegInv
<1>. QED  BY <1>1, NormalizeInvariance, PTL

\* For every run: the slot of a register that appeared is never empty
\* ("must be some at this point", pass.rs).
THEOREM NoEmptySlot == NormalizeSpec => []SlotsAreFull
<1>1. NormalizeInv => SlotsAreFull
  BY DEF NormalizeInv, RegInv
<1>. QED  BY <1>1, NormalizeInvariance, PTL

\* For every run: no two leaves of a register share a time.
THEOREM RegisterLeavesApart == NormalizeSpec => []OneLeafAtATime
<1>1. NormalizeInv => OneLeafAtATime
  <2> SUFFICES ASSUME NormalizeInv, NEW r \in Reg, NEW t \in Time
               PROVE  Cardinality(LeafAt(r, t)) <= 1
    BY DEF OneLeafAtATime
  <2>1. \A l, m \in LeafAt(r, t) : l = m
    BY OneLeaf DEF NormalizeInv
  <2>2. CASE LeafAt(r, t) = {}
    BY <2>2, FS_EmptySet
  <2>3. ASSUME NEW l \in LeafAt(r, t)
        PROVE  Cardinality(LeafAt(r, t)) <= 1
    <3>1. LeafAt(r, t) = {l}
      BY <2>1
    <3>. QED  BY <3>1, FS_Singleton
  <2>. QED  BY <2>2, <2>3
<1>. QED  BY <1>1, NormalizeInvariance, PTL

\* For every run: the memory leaves know every byte that was read, when it was
\* read, whether the read was deduplicated or not and whatever came after it.
THEOREM ReadsFindTheirBytes == NormalizeSpec => []ReadsAreAnswered
<1>1. NormalizeInv => ReadsAreAnswered
  BY DEF NormalizeInv
<1>. QED  BY <1>1, NormalizeInvariance, PTL

\* For every run: value_at, read off the register leaves, gives the last value
\* written at or before the time, up to the last event of the trace.
THEOREM RegisterRefinement == NormalizeSpec => RefinesRegisterHistory
<1> DEFINE values == [r \in Reg |-> [t \in Time |-> RegValue(r, t)]]
<1>1. NormalizeInit => Registers!Init
  <2> SUFFICES ASSUME NormalizeInit PROVE Registers!Init
    OBVIOUS
  <2>1. reg_leaves = {} /\ last_reg_leaves = <<>> /\ curr_time = 0 /\ finished = FALSE
    BY DEF NormalizeInit, Init
  <2>2. \A r \in Reg, t \in Time : LeafAt(r, t) = {}
    BY <2>1 DEF LeafAt, Range
  <2>3. \A r \in Reg, t \in Time : RegValue(r, t) = Unknown
    BY <2>2 DEF RegValue
  <2>. QED  BY <2>1, <2>3 DEF Registers!Init
<1>2. NormalizeInv /\ [NormalizeNext]_normalizeVars => [Registers!Next]_(Registers!vars)
  <2> SUFFICES ASSUME NormalizeInv, [NormalizeNext]_normalizeVars
               PROVE  Registers!Next \/ UNCHANGED Registers!vars
    OBVIOUS
  <2>0. Inv /\ RegInv
    BY DEF NormalizeInv
  <2>1. values' = [r \in Reg |-> [t \in Time |-> RegValue(r, t)']]
    BY DEF RegValue, LeafAt
  <2>2. ASSUME NEW sep \in Separator, NEW name \in Reg, NEW value \in Word,
               Register(sep, name, value)
        PROVE  Registers!Next
    <3>1. PICK t \in Time : t = time'
      BY <2>2 DEF Register, Timed
    <3>2. ~finished /\ curr_time <= t /\ curr_time' = t
      BY <2>0, <2>2, <3>1, TimedClocks DEF Register
    <3>3. UNCHANGED finished
      BY <2>2 DEF Register, vars
    <3>4. \A r \in Reg, s \in Time :
            RegValue(r, s)' = IF r = name /\ s >= t THEN value ELSE RegValue(r, s)
      BY <2>0, <2>2, <3>1, RegisterValues
    <3>5. values' = [values EXCEPT ![name] = [s \in Time |-> IF s >= t THEN value ELSE values[name][s]]]
      BY <2>1, <3>4
    <3>6. Registers!Write(name, t, value)
      BY <3>2, <3>3, <3>5 DEF Registers!Write
    <3>. QED  BY <3>6 DEF Registers!Next
  <2>3. ASSUME NEW sep \in Separator, NEW slide \in Slide, AslrSlide(sep, slide)
        PROVE  UNCHANGED Registers!vars
    <3>1. UNCHANGED <<curr_time, finished, reg_leaves, last_reg_leaves>>
      BY <2>3 DEF AslrSlide, regVars, vars
    <3>2. values' = values
      BY <2>1, <3>1, SameRegisters
    <3>. QED  BY <3>1, <3>2 DEF Registers!vars
  <2>4. ASSUME NEW sep \in Separator, NEW addr \in Addr, NEW len \in 1..MaxLen,
               NEW mode \in Mode, addr + len - 1 \in Addr,
               NEW bytes \in [0..(len - 1) -> Byte], Memory(sep, addr, len, bytes, mode)
        PROVE  Registers!Next
    <3>1. PICK t \in Time : t = time'
      BY <2>4 DEF Memory, Timed
    <3>2. ~finished /\ curr_time <= t /\ curr_time' = t
      BY <2>0, <2>4, <3>1, TimedClocks DEF Memory
    <3>3. UNCHANGED <<finished, reg_leaves, last_reg_leaves>>
      BY <2>4 DEF Memory, Push, regVars
    <3>4. values' = values
      BY <2>1, <3>3, SameRegisters
    <3>5. Registers!Other(t)
      BY <3>2, <3>3, <3>4 DEF Registers!Other
    <3>. QED  BY <3>5 DEF Registers!Next
  <2>5. CASE EndOfTrace
    <3>1. ~finished /\ finished' = TRUE /\ UNCHANGED curr_time
      BY <2>5 DEF EndOfTrace, Finish
    <3>2. \A r \in Reg, s \in Time :
            RegValue(r, s)' = IF s <= curr_time THEN RegValue(r, s) ELSE Unknown
      BY <2>0, <2>5, CloseValues
    <3>3. values' = [r \in Reg |-> [s \in Time |-> IF s <= curr_time THEN values[r][s] ELSE Unknown]]
      BY <2>1, <3>2
    <3>4. Registers!Close
      BY <3>1, <3>3 DEF Registers!Close
    <3>. QED  BY <3>4 DEF Registers!Next
  <2>6. CASE UNCHANGED normalizeVars
    <3>1. UNCHANGED <<curr_time, finished, reg_leaves, last_reg_leaves>>
      BY <2>6 DEF normalizeVars, regVars, vars
    <3>2. values' = values
      BY <2>1, <3>1, SameRegisters
    <3>. QED  BY <3>1, <3>2 DEF Registers!vars
  <2>. QED  BY <2>2, <2>3, <2>4, <2>5, <2>6 DEF NormalizeNext
<1>. QED  BY <1>1, <1>2, NormalizeInvariance, PTL
          DEF NormalizeSpec, RefinesRegisterHistory, Registers!Spec
=============================================================================

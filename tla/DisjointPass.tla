---------------------------- MODULE DisjointPass ----------------------------
(***************************************************************************)
(* DisjointPass (crates/index/src/disjoint.rs) turns the memory accesses   *)
(* of a trace, in time order, into leaves: rectangles of addresses x times *)
(* over which the bytes do not change.  Leaves whose end is not known yet  *)
(* are kept in a BTreeMap keyed by their first address; a new access cuts  *)
(* the ones it overlaps and emits what came before it.                     *)
(***************************************************************************)
EXTENDS MemNode, FiniteSets

CONSTANTS AddrMax,  \* the largest address
          TimeMax,  \* Time::MAX
          MaxLen,   \* bound: the longest access of the trace
          Byte,     \* the byte values
          Unknown,  \* the byte of an address nothing has touched
          NoLeaf    \* an absent entry of the map

ASSUME ConstantsAssumption ==
  /\ AddrMax \in Nat
  /\ TimeMax \in Nat
  /\ MaxLen \in Nat
  /\ Unknown \notin Byte

Addr == 0..AddrMax
Time == 0..TimeMax

VARIABLES temporaries,   \* first address -> the open leaf there, or NoLeaf
          leaves,        \* the leaves emitted so far
          current_time,  \* the time of the last access
          finished       \* finish() has consumed the pass

vars == <<temporaries, leaves, current_time, finished>>

-----------------------------------------------------------------------------
(* Open leaves.  `bytes` is indexed from 0, as the slices of the code are;  *)
(* it stands for both the bytes and the data of a TemporaryLeaf, which are  *)
(* always cut alike.                                                        *)

Bytes == UNION {[0..n -> Byte] : n \in Addr}

TemporaryLeaf == [addr_min : Addr, addr_max : Addr, time_min : Time, bytes : Bytes]

Leaf == [addr_min : Addr, addr_max : Addr, time_min : Time, time_max : Time,
         bytes : Bytes]

ASSUME NoLeafAssumption == NoLeaf \notin TemporaryLeaf

Rect(tmp, time_max) == MemNode(tmp.addr_min, tmp.addr_max, tmp.time_min, time_max)

Complete(tmp, time_max) ==
  [addr_min |-> tmp.addr_min, addr_max |-> tmp.addr_max,
   time_min |-> tmp.time_min, time_max |-> time_max, bytes |-> tmp.bytes]

\* &bytes[from..][..count]
Slice(bytes, from, count) == [i \in 0..(count - 1) |-> bytes[from + i]]

\* A mutated MaskWithBBox that cuts the length right but keeps the first
\* bytes of the leaf instead of those at the fragment.
MaskFromTheLeft(tmp, bbox) ==
  [addr_min |-> bbox.addr_min, addr_max |-> bbox.addr_max,
   time_min |-> bbox.time_min,
   bytes |-> Slice(tmp.bytes, 0, bbox.addr_max - bbox.addr_min + 1)]

\* A mutated MaskWithBBox that forgets to cut the bytes.
MaskUncut(tmp, bbox) ==
  [addr_min |-> bbox.addr_min, addr_max |-> bbox.addr_max,
   time_min |-> bbox.time_min, bytes |-> tmp.bytes]

\* mask_with_bbox: the part of an open leaf inside bbox.
MaskWithBBox(tmp, bbox) ==
  LET len       == tmp.addr_max - tmp.addr_min + 1
      cut_left  == bbox.addr_min - tmp.addr_min
      cut_right == tmp.addr_max - bbox.addr_max
  IN  [addr_min |-> bbox.addr_min, addr_max |-> bbox.addr_max,
       time_min |-> bbox.time_min,
       bytes |-> Slice(tmp.bytes, cut_left, len - cut_left - cut_right)]

-----------------------------------------------------------------------------
(* The map *)

Open == {k \in Addr : temporaries[k] # NoLeaf}

\* k is the last key before a (temporaries.range(..a).next_back()).
IsLastBefore(k, a) == /\ k \in Open /\ k < a
                      /\ \A j \in Open : j < a => j <= k

\* A mutated InRange: a leaf that ends exactly on the first address asked
\* for is not seen.
InRangeStrict(query) ==
  {k \in Open : \/ query.min <= k /\ k <= query.max
                \/ IsLastBefore(k, query.min) /\ query.min < temporaries[k].addr_max}

\* iter_temporaries_in_range: the entries whose key lies in the range, and
\* the one before it when that one reaches into the range.
InRange(query) ==
  {k \in Open : \/ query.min <= k /\ k <= query.max
                \/ IsLastBefore(k, query.min) /\ query.min <= temporaries[k].addr_max}

\* A mutated IsDuplicateWrite that compares known bytes only.
IsDuplicateWhereKnown(range, bytes) ==
  \A a \in range.min..range.max : \A k \in InRange(range) :
    LET tmp == temporaries[k]
    IN  RangeContains(AddrRange(tmp), a) =>
          tmp.bytes[a - tmp.addr_min] = bytes[a - range.min]

\* is_duplicate_write: every byte of the access is known, and equal.
IsDuplicateWrite(range, bytes) ==
  \A a \in range.min..range.max : \E k \in InRange(range) :
    LET tmp == temporaries[k]
    IN  /\ RangeContains(AddrRange(tmp), a)
        /\ tmp.bytes[a - tmp.addr_min] = bytes[a - range.min]

-----------------------------------------------------------------------------
(* The two operations *)

Init == /\ temporaries = [a \in Addr |-> NoLeaf]
        /\ leaves = {}
        /\ current_time = 0
        /\ finished = FALSE

\* The fragments that rect leaves of the open leaf k.
Fragments(k, rect) == FragmentBy(Rect(temporaries[k], TimeMax), rect)

\* to_add: the fragments that stay open.
StillOpen(range, rect) ==
  UNION {{MaskWithBBox(temporaries[k], f) :
            f \in {g \in Fragments(k, rect) : g.time_max = TimeMax}} : k \in InRange(range)}

\* The fragments whose end is now known.
Ended(range, rect) ==
  UNION {{Complete(MaskWithBBox(temporaries[k], f), f.time_max) :
            f \in {g \in Fragments(k, rect) : g.time_max # TimeMax}} : k \in InRange(range)}

\* to_remove: the overlapped leaves no fragment will replace under their key.
ToRemove(range, rect) ==
  {k \in InRange(range) :
     ~ \E f \in Fragments(k, rect) : f.time_max = TimeMax /\ f.addr_min = temporaries[k].addr_min}

\* A mutated Replace that never removes a leaf that was overwritten from its
\* first byte on.
ReplaceKeeping(new) ==
  LET range == AddrRange(new)
      rect  == Rect(new, TimeMax)
      added == StillOpen(range, rect)
  IN  /\ temporaries' = [a \in Addr |->
           IF a = new.addr_min THEN new
           ELSE IF \E f \in added : f.addr_min = a
                THEN CHOOSE f \in added : f.addr_min = a
           ELSE temporaries[a]]
      /\ leaves' = leaves \cup Ended(range, rect)

\* Cut every open leaf that `new` overlaps, then open `new`.
Replace(new) ==
  LET range == AddrRange(new)
      rect  == Rect(new, TimeMax)
      added == StillOpen(range, rect)
  IN  /\ temporaries' = [a \in Addr |->
           IF a = new.addr_min THEN new
           ELSE IF \E f \in added : f.addr_min = a
                THEN CHOOSE f \in added : f.addr_min = a
           ELSE IF a \in ToRemove(range, rect) THEN NoLeaf
           ELSE temporaries[a]]
      /\ leaves' = leaves \cup Ended(range, rect)

\* push_memory_write.  A read may be deduplicated, a write may not.
Push(time, addr, len, bytes, can_dedup) ==
  LET range == FromStartLen(addr, len)
  IN  /\ ~finished
      /\ current_time <= time
      /\ current_time' = time
      /\ UNCHANGED finished
      /\ \/ /\ can_dedup /\ IsDuplicateWrite(range, bytes)
            /\ UNCHANGED <<temporaries, leaves>>
         \/ /\ ~(can_dedup /\ IsDuplicateWrite(range, bytes))
            /\ Replace([addr_min |-> range.min, addr_max |-> range.max,
                        time_min |-> time, bytes |-> bytes])

\* finish: every open leaf ends at the time of the last access.
Finish ==
  /\ ~finished
  /\ finished' = TRUE
  /\ leaves' = leaves \cup {Complete(temporaries[k], current_time) : k \in Open}
  /\ temporaries' = [a \in Addr |-> NoLeaf]
  /\ UNCHANGED current_time

\* The accesses a trace may contain: not empty, inside the address space.
Next == \/ \E time \in Time, addr \in Addr, len \in 1..MaxLen :
             /\ addr + len - 1 \in Addr
             /\ \E bytes \in [0..(len - 1) -> Byte], can_dedup \in BOOLEAN :
                  Push(time, addr, len, bytes, can_dedup)
        \/ Finish

Spec == Init /\ [][Next]_vars

-----------------------------------------------------------------------------
(* Properties *)

\* Every leaf with its bytes, an open one lasting until Time::MAX.
AllLeaves == leaves \cup {Complete(temporaries[k], TimeMax) : k \in Open}

\* The map holds open leaves, and every leaf, open or emitted, has one byte
\* per address (the slices of mask_with_bbox are cut to the node they go to).
TypeOK == /\ temporaries \in [Addr -> TemporaryLeaf \cup {NoLeaf}]
          /\ leaves \subseteq Leaf
          /\ current_time \in Time
          /\ finished \in BOOLEAN
          /\ \A l \in AllLeaves : l.bytes \in [0..(l.addr_max - l.addr_min) -> Byte]

\* An entry of the map is found under its own first address, and is not
\* empty.
Keyed == \A k \in Open : /\ temporaries[k].addr_min = k
                         /\ k <= temporaries[k].addr_max
                         /\ temporaries[k].time_min <= current_time

\* A leaf emitted before the end lies entirely in the past of every access
\* still to come, so no later access can contradict it.
EmittedLeavesArePast ==
  \A l \in leaves : /\ l.addr_min <= l.addr_max
                    /\ l.time_min <= l.time_max
                    /\ l.time_max <= current_time
                    /\ finished \/ l.time_max < current_time

\* "Disjoint leaves": no two leaves, open or emitted, share an address at a
\* time, so a byte at a time has at most one value.
LeavesDisjoint == PairwiseDisjoint(AllLeaves)

\* Looking one entry back from the first address of an access finds every
\* open leaf the access overlaps (iter_temporaries_in_range).
LookupIsComplete ==
  \A first, last \in Addr :
    LET query == [min |-> first, max |-> last]
    IN  first <= last =>
          InRange(query) = {k \in Open : ~RangeDisjoint(AddrRange(temporaries[k]), query)}

\* The byte the leaves S give for address a at time t.
Value(S, t, a) ==
  IF \E l \in S : Covers(l, t, a)
  THEN LET l == CHOOSE l \in S : Covers(l, t, a) IN l.bytes[a - l.addr_min]
  ELSE Unknown

Values == LET S == AllLeaves IN [t \in Time |-> [a \in Addr |-> Value(S, t, a)]]
=============================================================================

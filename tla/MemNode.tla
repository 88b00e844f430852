------------------------------ MODULE MemNode ------------------------------
(***************************************************************************)
(* Inclusive ranges (crates/db/src/irange.rs) and the address x time       *)
(* rectangles built from them (MemNode, crates/db/src/memory.rs).  A range *)
(* is a record [min, max]; a node is a record with addr_min, addr_max,     *)
(* time_min and time_max.  Every operator is pure, and none is recursive.  *)
(***************************************************************************)
EXTENDS Integers

Smaller(x, y) == IF x <= y THEN x ELSE y
Larger(x, y)  == IF x >= y THEN x ELSE y

-----------------------------------------------------------------------------
(* IRange *)

RangeDisjoint(r, s) == r.max < s.min \/ r.min > s.max

RangeContains(r, v) == r.min <= v /\ v <= r.max

FromStartLen(start, len) == [min |-> start, max |-> start + (len - 1)]

-----------------------------------------------------------------------------
(* MemNode *)

MemNode(addr_min, addr_max, time_min, time_max) ==
  [addr_min |-> addr_min, addr_max |-> addr_max,
   time_min |-> time_min, time_max |-> time_max]

AddrRange(n) == [min |-> n.addr_min, max |-> n.addr_max]
TimeRange(n) == [min |-> n.time_min, max |-> n.time_max]

NodeDisjoint(n, m) == \/ RangeDisjoint(AddrRange(n), AddrRange(m))
                      \/ RangeDisjoint(TimeRange(n), TimeRange(m))

\* A mutated FragmentBy: what comes before `other` ends when `other` starts
\* instead of just before.
FragmentByLate(self, other) ==
  IF NodeDisjoint(self, other) \/ other.time_min <= self.time_min THEN {self}
  ELSE {MemNode(Larger(other.addr_min, self.addr_min), Smaller(other.addr_max, self.addr_max),
                self.time_min, other.time_min)}

\* The parts of `self` outside `other`: what sticks out on the left and on
\* the right over the whole life of `self`, and, between the two, what comes
\* before and after `other`.
FragmentBy(self, other) ==
  LET floor  == Larger(other.addr_min, self.addr_min)
      ceil   == Smaller(other.addr_max, self.addr_max)
      left   == IF other.addr_min > self.addr_min
                THEN {MemNode(self.addr_min, other.addr_min - 1, self.time_min, self.time_max)}
                ELSE {}
      right  == IF other.addr_max < self.addr_max
                THEN {MemNode(other.addr_max + 1, self.addr_max, self.time_min, self.time_max)}
                ELSE {}
      before == IF other.time_min > self.time_min
                THEN {MemNode(floor, ceil, self.time_min, other.time_min - 1)}
                ELSE {}
      after  == IF other.time_max < self.time_max
                THEN {MemNode(floor, ceil, other.time_max + 1, self.time_max)}
                ELSE {}
  IN  IF NodeDisjoint(self, other) THEN {self}
      ELSE left \cup right \cup before \cup after

\* Address a at time t lies inside n.
Covers(n, t, a) == /\ RangeContains(AddrRange(n), a)
                   /\ RangeContains(TimeRange(n), t)

PairwiseDisjoint(S) == \A n, m \in S : n = m \/ NodeDisjoint(n, m)
=============================================================================

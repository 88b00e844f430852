------------------------------- MODULE Zones -------------------------------
(***************************************************************************)
(* Zones of the address space (crates/index/src/pass/scout.rs).  The scout *)
(* pass groups memory leaves into zones that stay ZONE_MIN_PADDING apart,  *)
(* and counts the leaves of each; the two later passes look every leaf up  *)
(* again with find_zone_containing_addr_range, and rely on finding each    *)
(* leaf in the zone that counted it.                                       *)
(***************************************************************************)
EXTENDS MemNode, Sequences, SequencesExt

CONSTANTS AddrMax,     \* Addr::MAX
          Padding,     \* ZONE_MIN_PADDING, an even number of addresses
          MaxLen,      \* bound: the longest leaf
          MaxLeaves    \* bound: the leaves of a trace

ASSUME ZonesAssumption == /\ AddrMax \in Nat /\ MaxLen \in Nat /\ MaxLeaves \in Nat
                          /\ Padding \in Nat /\ Padding % 2 = 0

Addr == 0..AddrMax

Ranges == {r \in [min : Addr, max : Addr] : r.min <= r.max /\ r.max - r.min < MaxLen}

VARIABLES zones,     \* Vec<RTreeScout>: a bounding range and a leaf count each
          inserted   \* range -> how many leaves have it (the trace so far)

zoneVars == <<zones, inserted>>

-----------------------------------------------------------------------------
(* Zones *)

BBox(zone) == [min |-> zone.min, max |-> zone.max]

\* saturating_sub and saturating_add
Padded(zone, padding) == [min |-> Larger(0, zone.min - padding),
                          max |-> Smaller(AddrMax, zone.max + padding)]

PaddedAddrRange(zone) == Padded(zone, Padding)
HalfPaddedAddrRange(zone) == Padded(zone, Padding \div 2)

ExtendsToContain(zone, range, count) ==
  [min |-> Smaller(zone.min, range.min), max |-> Larger(zone.max, range.max),
   leaf_count |-> zone.leaf_count + count]

\* Vec::swap_remove: the last element takes the place of the removed one.
SwapRemove(zs, j) ==
  Front([k \in DOMAIN zs |-> IF k = j THEN Last(zs) ELSE zs[k]])

Conflict(zs, i, j) ==
  i < j /\ ~RangeDisjoint(HalfPaddedAddrRange(zs[i]), HalfPaddedAddrRange(zs[j]))

\* The first pair in the order of the two nested loops.
FirstConflict(zs) ==
  LET i == Min({k \in DOMAIN zs : \E j \in DOMAIN zs : Conflict(zs, k, j)})
      j == Min({k \in DOMAIN zs : Conflict(zs, i, k)})
  IN  <<i, j>>

HasConflict(zs) == \E i, j \in DOMAIN zs : Conflict(zs, i, j)

\* A mutated MergeFirst that forgets to add the leaves of the zone it absorbs.
MergeFirstUncounted(zs) ==
  LET p == FirstConflict(zs)
  IN  [SwapRemove(zs, p[2]) EXCEPT ![p[1]] = ExtendsToContain(@, BBox(zs[p[2]]), 0)]

\* A mutated MergeFirst that absorbs the second zone without removing it.
MergeFirstInPlace(zs) ==
  LET p == FirstConflict(zs)
  IN  [zs EXCEPT ![p[1]] = ExtendsToContain(@, BBox(zs[p[2]]), zs[p[2]].leaf_count)]

\* A mutated MergeFirst that removes the second zone before its range is taken.
MergeFirstDropping(zs) == SwapRemove(zs, FirstConflict(zs)[2])

MergeFirst(zs) ==
  LET p == FirstConflict(zs)
  IN  [SwapRemove(zs, p[2]) EXCEPT
         ![p[1]] = ExtendsToContain(@, BBox(zs[p[2]]), zs[p[2]].leaf_count)]

\* Merge until no conflict is left; each merge removes a zone.
MergeConflicts(zs) ==
  LET after[n \in 0..Len(zs)] ==
        IF n = 0 THEN zs
        ELSE IF HasConflict(after[n - 1]) THEN MergeFirst(after[n - 1]) ELSE after[n - 1]
  IN  after[Len(zs)]

\* The zones whose padded range meets the leaf.
Near(range) == {i \in DOMAIN zones : ~RangeDisjoint(PaddedAddrRange(zones[i]), range)}

\* A mutated InsertNodeIntoZones that never merges.
InsertWithoutMerge(range) ==
  zones' = IF Near(range) = {} THEN Append(zones, [min |-> range.min, max |-> range.max, leaf_count |-> 1])
           ELSE LET first == Min(Near(range))
                IN  [zones EXCEPT ![first] = ExtendsToContain(@, range, 1)]

\* insert_node_into_zones
InsertNodeIntoZones(range) ==
  LET first == Min(Near(range))
      grown == [zones EXCEPT ![first] = ExtendsToContain(@, range, 1)]
  IN  \/ /\ Near(range) = {}
         /\ zones' = Append(zones, [min |-> range.min, max |-> range.max, leaf_count |-> 1])
      \/ /\ Cardinality(Near(range)) = 1
         /\ zones' = grown
      \/ /\ Cardinality(Near(range)) > 1
         /\ zones' = MergeConflicts(grown)

\* find_zone_containing_addr_range: the first zone the leaf touches.
FindZone(range) == Min({i \in DOMAIN zones : ~RangeDisjoint(BBox(zones[i]), range)})

-----------------------------------------------------------------------------

ZonesInit == zones = <<>> /\ inserted = [r \in Ranges |-> 0]

LeavesOf(S) == FoldFunctionOnSet(+, 0, inserted, S)

Insert(range) ==
  /\ LeavesOf(Ranges) < MaxLeaves
  /\ InsertNodeIntoZones(range)
  /\ inserted' = [inserted EXCEPT ![range] = @ + 1]

ZonesNext == \E range \in Ranges : Insert(range)

ZonesSpec == ZonesInit /\ [][ZonesNext]_zoneVars

-----------------------------------------------------------------------------
(* Properties *)

\* A zone has a non-empty range and counts at least one leaf; merging zones
\* never counts more leaves than the trace has.
ZonesTypeOK ==
  /\ zones \in Seq({z \in [min : Addr, max : Addr, leaf_count : 1..MaxLeaves] : z.min <= z.max})
  /\ inserted \in [Ranges -> 0..MaxLeaves]

Seen == {r \in Ranges : inserted[r] > 0}

\* "Minimal address padding between zones": two zones are more than Padding
\* apart, whatever the order the leaves came in.
ZonesStayApart ==
  \A i, j \in DOMAIN zones : i # j =>
    zones[i].max + Padding < zones[j].min \/ zones[j].max + Padding < zones[i].min

\* Every leaf of the trace lies in exactly one zone, entirely: the lookups
\* of the later passes neither fail nor depend on the order of the zones.
EveryLeafHasItsZone ==
  \A r \in Seen : \E i \in DOMAIN zones :
    /\ zones[i].min <= r.min /\ r.max <= zones[i].max
    /\ \A j \in DOMAIN zones : j # i => RangeDisjoint(BBox(zones[j]), r)

\* The leaves the later passes put in a zone are as many as the scout pass
\* counted there, which is the room the layout reserved.
CountsAreWhatIsFound ==
  \A i \in DOMAIN zones :
    zones[i].leaf_count =
      LeavesOf({r \in Seen : FindZone(r) = i})
=============================================================================

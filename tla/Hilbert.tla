------------------------------ MODULE Hilbert -------------------------------
(***************************************************************************)
(* The keys the leaves of a tree are sorted by                             *)
(* (crates/index/src/hilbert_spec.rs): the centre of a leaf, spread over   *)
(* all the bits of a coordinate, and its place on the Hilbert curve.  The  *)
(* partition of a leaf is its place on the curve of the highest bits only. *)
(*                                                                         *)
(* The curve itself is the crate fast_hilbert, from how it is used.        *)
(***************************************************************************)
EXTENDS RTree

CONSTANTS KeyBits,   \* width of an address or a value, 64 in the code
          TimeBits,  \* width of a time, 32 in the code
          PartBits   \* BITS_PER_DIM, 4 in the code

ASSUME HilbertAssumption ==
  /\ KeyBits \in Nat /\ TimeBits \in 1..KeyBits /\ PartBits \in 1..KeyBits
  /\ Key \subseteq 0..(Pow2[KeyBits] - 1) /\ Time \subseteq 0..(Pow2[TimeBits] - 1)

\* The partitions, in the order of the curve.
Part == 0..(Pow2[PartBits] * Pow2[PartBits] - 1)

\* span_bits: the bits that hold every value from 0 to max - min.
SpanBits(min, max) ==
  CHOOSE b \in 1..KeyBits : max - min < Pow2[b] /\ (b > 1 => max - min >= Pow2[b - 1])

Midpoint(min, max) == (min + max) \div 2

ShiftLeft(x, n, width) == (x * Pow2[n]) % Pow2[width]

\* mem_hilbert_coordinates and reg_hilbert_coordinates, which differ in what
\* the first coordinate is.  Times are spread over the width of a key.
Coordinates(node, bbox) ==
  LET key  == Midpoint(node.key_min, node.key_max) - bbox.key_min
      time == Midpoint(node.time_min, node.time_max) - bbox.time_min
  IN  <<ShiftLeft(key, KeyBits - SpanBits(bbox.key_min, bbox.key_max), KeyBits),
        ShiftLeft(time, TimeBits - SpanBits(bbox.time_min, bbox.time_max), TimeBits)
          * Pow2[KeyBits - TimeBits]>>

\* xy2h of fast_hilbert: the quadrant the highest bits are in, then the curve
\* inside it, which is turned in the first and the last quadrant.
Quadrants(half, curve) ==
  [c \in Nat \X Nat |->
     LET low(z) == z % half
         flip(z) == (half - 1) - low(z)
     IN  CASE c[1] < half /\ c[2] < half   -> curve[<<low(c[2]), low(c[1])>>]
           [] c[1] < half /\ c[2] >= half  -> half * half + curve[<<low(c[1]), low(c[2])>>]
           [] c[1] >= half /\ c[2] >= half -> 2 * half * half + curve[<<low(c[1]), low(c[2])>>]
           [] c[1] >= half /\ c[2] < half  -> 3 * half * half + curve[<<flip(c[2]), flip(c[1])>>]]

XyToH[order \in Nat] ==
  IF order = 0 THEN [c \in Nat \X Nat |-> 0] ELSE Quadrants(Pow2[order - 1], XyToH[order - 1])

HilbertKey(node, bbox) == XyToH[KeyBits][Coordinates(node, bbox)]

\* hilbert_partition_key: of the highest bits of both coordinates.
HilbertPartitionKey(node, bbox) ==
  LET c == Coordinates(node, bbox)
      high(z) == z \div Pow2[KeyBits - PartBits]
  IN  XyToH[PartBits][<<high(c[1]), high(c[2])>>]
=============================================================================

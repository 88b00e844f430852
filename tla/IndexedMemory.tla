--------------------------- MODULE IndexedMemory ---------------------------
(***************************************************************************)
(* DisjointPass run side by side with MemoryHistory on the same accesses:  *)
(* every Push is also the abstract Access of the same bytes at the same    *)
(* place, and finish is the end of the trace.  What the leaves answer can  *)
(* then be compared with what the traced program observed.                 *)
(***************************************************************************)
EXTENDS DisjointPass

VARIABLE hist   \* time -> address -> the byte in memory there and then

History == INSTANCE MemoryHistory WITH now <- current_time, closed <- finished

\* The same promise read off the leaves: Spec => Refined!Spec is proved in
\* NormalizePassProofs.
Refined == INSTANCE MemoryHistory WITH hist <- Values, now <- current_time, closed <- finished

IndexedVars == <<temporaries, leaves, current_time, finished, hist>>

IndexedInit == Init /\ History!Init

IndexedPush(time, addr, len, bytes, can_dedup) ==
  /\ Push(time, addr, len, bytes, can_dedup)
  /\ History!Access(time, addr, addr + len - 1, bytes)

IndexedFinish == Finish /\ History!Close

IndexedNext ==
  \/ \E time \in Time, addr \in Addr, len \in 1..MaxLen :
       /\ addr + len - 1 \in Addr
       /\ \E bytes \in [0..(len - 1) -> Byte], can_dedup \in BOOLEAN :
            IndexedPush(time, addr, len, bytes, can_dedup)
  \/ IndexedFinish

IndexedSpec == IndexedInit /\ [][IndexedNext]_IndexedVars

-----------------------------------------------------------------------------
(* Properties *)

\* The leaves answer, for every address and time, the byte the accesses of
\* the trace showed there: cutting, emitting, replacing and deduplicating
\* leaves loses and invents nothing.
AnswersHistory == hist = Values
=============================================================================

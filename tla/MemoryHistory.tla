--------------------------- MODULE MemoryHistory ---------------------------
(***************************************************************************)
(* What a memory index promises, whatever its leaves look like: for every  *)
(* time and address, the byte the traced program could observe there, or   *)
(* Unknown when no access has touched that address yet.                    *)
(***************************************************************************)
EXTENDS Integers

CONSTANTS Addr,     \* the addresses
          Time,     \* the times
          Byte,     \* the byte values
          Unknown   \* the value of an address nothing has touched

VARIABLES hist,     \* time -> address -> the byte in memory there and then
          now,      \* the time of the last access
          closed    \* the trace has ended

vars == <<hist, now, closed>>

Init == /\ hist = [t \in Time |-> [a \in Addr |-> Unknown]]
        /\ now = 0
        /\ closed = FALSE

\* An access at time t shows that the bytes of [first .. last] are `value`
\* from t on, until a later access says otherwise.
Access(t, first, last, value) ==
  /\ ~closed
  /\ now <= t /\ first <= last
  /\ now' = t
  /\ hist' = [s \in Time |-> [a \in Addr |->
                IF s >= t /\ first <= a /\ a <= last
                THEN value[a - first] ELSE hist[s][a]]]
  /\ UNCHANGED closed

\* The end of the trace: nothing is claimed after the last access.
Close ==
  /\ ~closed
  /\ hist' = [s \in Time |-> [a \in Addr |->
                IF s <= now THEN hist[s][a] ELSE Unknown]]
  /\ closed' = TRUE
  /\ UNCHANGED now

Next == \/ \E t \in Time, first, last \in Addr :
             \E value \in [0..(last - first) -> Byte] : Access(t, first, last, value)
        \/ Close

Spec == Init /\ [][Next]_vars
=============================================================================

-------------------------- MODULE RegisterHistory --------------------------
(***************************************************************************)
(* What a register index promises: for every time, the last value written  *)
(* to the register at or before it, and Unknown before the first write     *)
(* (RTree::value_at, crates/db/src/register.rs).                           *)
(***************************************************************************)
EXTENDS Integers

CONSTANTS Reg, Time, Word, Unknown

VARIABLES hist,     \* register -> time -> its value then
          now,      \* the time of the last event of the trace
          closed    \* the trace has ended

vars == <<hist, now, closed>>

Init == /\ hist = [r \in Reg |-> [t \in Time |-> Unknown]]
        /\ now = 0
        /\ closed = FALSE

Write(r, t, v) ==
  /\ ~closed /\ now <= t
  /\ hist' = [hist EXCEPT ![r] = [s \in Time |-> IF s >= t THEN v ELSE hist[r][s]]]
  /\ now' = t
  /\ UNCHANGED closed

\* An event of the trace that is not about registers.
Other(t) ==
  /\ ~closed /\ now <= t
  /\ now' = t
  /\ UNCHANGED <<hist, closed>>

\* Nothing is claimed after the last event of the trace, whatever it is.
Close ==
  /\ ~closed
  /\ hist' = [r \in Reg |-> [s \in Time |-> IF s <= now THEN hist[r][s] ELSE Unknown]]
  /\ closed' = TRUE
  /\ UNCHANGED now

Next == \/ \E r \in Reg, t \in Time, v \in Word : Write(r, t, v)
        \/ \E t \in Time : Other(t)
        \/ Close

Spec == Init /\ [][Next]_vars
=============================================================================

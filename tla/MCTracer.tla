------------------------------ MODULE MCTracer ------------------------------
EXTENDS Tracer, TLC

CONSTANTS t1, t2

Insn(inside, writes, mem, call, addr) ==
  [inside |-> inside, writes |-> writes, mem |-> mem, call |-> call, addr |-> addr]

Write == Insn(TRUE, Reg, FALSE, FALSE, "other")
Store == Insn(TRUE, {}, TRUE, FALSE, "other")
Call  == Insn(TRUE, {}, FALSE, TRUE, "other")
Nop   == Insn(TRUE, {}, FALSE, FALSE, "other")
FlushAddr == Insn(TRUE, {}, FALSE, FALSE, "flush")
EndAddr   == Insn(TRUE, {}, FALSE, FALSE, "end")
Outside      == Insn(FALSE, {}, FALSE, FALSE, "other")
StoreOutside == Insn(FALSE, {}, TRUE, FALSE, "other")

Workload(kinds, length1, length2, ents, excs) ==
  [insns |-> kinds, lengths |-> (t1 :> length1 @@ t2 :> length2),
   entries |-> ents, exceptions |-> excs]

\* Registers, through calls and code outside; chunks that break lines, with
\* the addresses of -F and -E; two threads and an exception.
MCWorkloads == {Workload({Write, Call, Nop, Outside}, 5, 0, 2, 0),
                Workload({Store, FlushAddr, EndAddr, StoreOutside}, 3, 0, 2, 1),
                Workload({Store, StoreOutside}, 2, 1, 2, 1)}

\* -m; -e; -E; and every module traced.
Option(exclude, once, end_addr, all) ==
  [exclude |-> exclude, once |-> once, end_addr |-> end_addr, all |-> all]

MCOptions == {Option(FALSE, FALSE, FALSE, FALSE), Option(TRUE, TRUE, FALSE, FALSE),
              Option(FALSE, TRUE, TRUE, FALSE), Option(FALSE, FALSE, FALSE, TRUE)}
=============================================================================

------------------------------- MODULE Tracer -------------------------------
(***************************************************************************)
(* The tracer: what runs in the traced process (tracer/trace.js and the C  *)
(* callouts, as in trace_arm64.c) and the host that receives the trace of  *)
(* each thread and writes it to a file (tracer/trace.py).                  *)
(*                                                                         *)
(* A trace is a sequence of items: a register or the pc with its value, a  *)
(* memory access, or the end of a line.  The process sends every item but  *)
(* the end of a line with a comma before it; the host takes the comma away *)
(* at the start of a line.                                                 *)
(***************************************************************************)
EXTENDS Integers, Sequences, SequencesExt, FiniteSets, FiniteSetsExt

CONSTANTS Thread,         \* the threads of the traced process
          Reg,            \* the registers that have a name in the trace
          Word, Zero,     \* their values; a CModule starts with registers at Zero
          Options,        \* the options the tracer may be started with
          FlushSize,      \* TRACE_FLUSH_SIZE, in items
          Workloads       \* bound: what the traced process may do

\* An instruction as transform() describes it: in the traced module; the
\* registers its operands write; one with a memory operand; a branch to a
\* register (call_instruction); at one of the addresses given on the command
\* line.
InsnType == [inside : BOOLEAN, writes : SUBSET Reg, mem : BOOLEAN, call : BOOLEAN,
             addr : {"end", "flush", "other"}]

OptionType == [exclude : BOOLEAN, once : BOOLEAN, end_addr : BOOLEAN, all : BOOLEAN]

\* The instructions a process is made of, how many of them each thread may run,
\* how often the hooked function is entered, and how many exceptions there are.
\* enable_regs is off outside the traced module: no register is listed there.
WorkloadType == [insns : SUBSET {i \in InsnType : ~i.inside => i.writes = {}},
                 lengths : [Thread -> Nat], entries : Nat, exceptions : Nat]

ASSUME TracerAssumption ==
  /\ IsFiniteSet(Thread) /\ IsFiniteSet(Reg)
  /\ Reg \cap {"pc", "mem", "newline", "slide"} = {}
  /\ Zero \in Word
  /\ \A w \in Workloads : w \in WorkloadType
  /\ Options \subseteq OptionType
  /\ FlushSize \in Nat \ {0}

Cpu == [Reg -> Word]
NoInsn == [inside |-> FALSE, writes |-> {}, mem |-> FALSE, call |-> FALSE, addr |-> "none"]

VARIABLES
  (* the traced process *)
  options, workload, alive,
  hooked,      \* the interceptor is attached
  threadIds,   \* threads that are traced
  flushs,      \* threads whose buffer the exception handler flushes
  pc,          \* thread -> not followed, between two callouts, or inside one
  cpu,         \* thread -> its registers at its last callout
  at,          \* thread -> the instruction of its last callout
  state,       \* thread -> the state of its CModule
  insns,       \* thread -> its callouts so far
  entries, exceptions,
  (* the host *)
  queue,       \* messages that have not been handled
  seen_tids, midline_break, file,
  (* history *)
  logged,      \* thread -> every item ever logged
  implicit,    \* thread -> registers changed by an instruction without being listed
  lost         \* threads that lost a buffer to a race with the exception handler

processVars == <<options, workload, alive, hooked, threadIds, flushs, pc, cpu, at, state,
                 insns, entries, exceptions>>
hostVars == <<queue, seen_tids, midline_break, file>>
history == <<logged, implicit, lost>>
vars == <<processVars, hostVars, history>>

-----------------------------------------------------------------------------

NewLine == <<"newline", Zero>>
Item(key, value) == <<key, value>>

\* init(): no last instruction, and everything is to be dumped.
NewState == [last |-> NoInsn, last_pc |-> 0, dump_all_regs |-> 2,
             old_cpu_ctx |-> [r \in Reg |-> Zero], trace |-> <<>>]

Init ==
  /\ options \in Options /\ workload \in Workloads /\ alive = TRUE /\ hooked = TRUE
  /\ threadIds = {} /\ flushs = {}
  /\ pc = [t \in Thread |-> "out"]
  /\ cpu = [t \in Thread |-> [r \in Reg |-> Zero]]
  /\ at = [t \in Thread |-> NoInsn]
  /\ state = [t \in Thread |-> NewState]
  /\ insns = [t \in Thread |-> 0] /\ entries = 0 /\ exceptions = 0
  /\ queue = <<>> /\ seen_tids = {} /\ midline_break = {}
  /\ file = [t \in Thread |-> <<>>]
  /\ logged = [t \in Thread |-> <<>>]
  /\ implicit = [t \in Thread |-> {}] /\ lost = {}

Message(t, items) == [tid |-> t, data |-> items]

-----------------------------------------------------------------------------
(* The traced process *)

\* onEnter: a thread that is already traced is left alone; the others get a
\* CModule of their own.
OnEnter(t) ==
  /\ alive /\ hooked /\ entries < workload.entries /\ insns[t] < workload.lengths[t]
  /\ pc[t] = "out" /\ t \notin threadIds
  /\ threadIds' = threadIds \cup {t}
  /\ flushs' = flushs \cup {t}
  /\ state' = [state EXCEPT ![t] = NewState]
  /\ pc' = [pc EXCEPT ![t] = "run"]
  /\ implicit' = [implicit EXCEPT ![t] = {}]
  /\ entries' = entries + 1
  /\ UNCHANGED <<options, workload, alive, hooked, cpu, at, insns, exceptions, hostVars, logged, lost>>

\* The values of a set of registers, as items in some order.
Values(registers, regs) ==
  [i \in 1..Cardinality(regs) |-> Item(SetToSeq(regs)[i], registers[SetToSeq(regs)[i]])]

Changed(registers, since) == {r \in Reg : registers[r] # since[r]}

\* What the callout of the next instruction logs of the last one, up to the
\* end of its line.
LineOf(s, registers) ==
  (IF ~s.last.inside THEN <<>>
   ELSE <<Item("pc", s.last_pc)>>
          \o Values(registers, IF s.dump_all_regs = 0 THEN s.last.writes
                               ELSE Changed(registers, s.old_cpu_ctx)))
    \o (IF s.last.mem THEN <<Item("mem", s.last_pc)>> ELSE <<>>)

\* Registers the last instruction changed although no operand said so.  What
\* runs outside the module, or behind a branch to a register, may change any.
Hidden(t, registers) ==
  LET last == state[t].last
  IN  IF last.inside /\ ~last.call THEN Changed(registers, cpu[t]) \ last.writes ELSE {}

\* on_insn begins: the registers are those the last instruction left, and its
\* line is logged.  Excluded modules are not followed.
LogLine(t, insn, registers) ==
  /\ alive /\ pc[t] = "run" /\ insns[t] < workload.lengths[t]
  /\ options.exclude \/ options.all => insn.inside
  /\ LET line == LineOf(state[t], registers)
     IN  /\ state' = [state EXCEPT ![t].trace = @ \o line,
                                   ![t].dump_all_regs = IF state[t].last.inside THEN 0 ELSE @]
         /\ logged' = [logged EXCEPT ![t] = @ \o line]
  /\ implicit' = [implicit EXCEPT ![t] = @ \cup Hidden(t, registers)]
  /\ cpu' = [cpu EXCEPT ![t] = registers]
  /\ at' = [at EXCEPT ![t] = insn]
  /\ pc' = [pc EXCEPT ![t] = "insn"]
  /\ insns' = [insns EXCEPT ![t] = @ + 1]
  /\ UNCHANGED <<options, workload, alive, hooked, threadIds, flushs, entries, exceptions, hostVars, lost>>

\* A mutated Context that takes a new snapshot at every instruction outside.
ContextOfLast(s, insn, registers) ==
  CASE ~insn.inside -> [s EXCEPT !.dump_all_regs = 2, !.old_cpu_ctx = registers]
    [] s.dump_all_regs < 2 /\ insn.inside /\ insn.call ->
         [s EXCEPT !.dump_all_regs = 1, !.old_cpu_ctx = registers]
    [] OTHER -> s

\* The trace context phase: a snapshot of the registers is taken when the
\* thread leaves the module, and at a branch to a register.
Context(s, insn, registers) ==
  CASE s.dump_all_regs < 2 /\ ~insn.inside ->
         [s EXCEPT !.dump_all_regs = 2, !.old_cpu_ctx = registers]
    [] s.dump_all_regs < 2 /\ insn.inside /\ insn.call ->
         [s EXCEPT !.dump_all_regs = 1, !.old_cpu_ctx = registers]
    [] OTHER -> s

\* on_insn ends: the end of the line, the context of this instruction, and the
\* trace flush phase.  At the end address the thread is no longer followed;
\* the flushes that find the buffer empty send what the host ignores, and are
\* left out.
EndOfCallout(t) ==
  /\ alive /\ pc[t] = "insn"
  /\ LET s == state[t]
         end == IF s.last.inside THEN <<NewLine>> ELSE <<>>
         trace == s.trace \o end
         next == [Context(s, at[t], cpu[t]) EXCEPT !.last = at[t], !.last_pc = insns[t]]
         ends == options.end_addr /\ at[t].addr = "end"
         flushes == Len(trace) >= FlushSize \/ ends \/ at[t].addr = "flush"
     IN  /\ state' = [state EXCEPT ![t] = [next EXCEPT !.trace = IF flushes THEN <<>> ELSE trace]]
         /\ queue' = IF flushes THEN Append(queue, Message(t, trace)) ELSE queue
         /\ logged' = [logged EXCEPT ![t] = @ \o end]
         /\ pc' = [pc EXCEPT ![t] = IF ends THEN "out" ELSE "run"]
  /\ UNCHANGED <<options, workload, alive, hooked, threadIds, flushs, cpu, at, insns, entries, exceptions,
                 seen_tids, midline_break, file, implicit, lost>>

\* A mutated OnLeave that leaves what is in the buffer behind.
OnLeaveUnflushed(t) ==
  /\ alive /\ pc[t] = "run" /\ ~options.end_addr
  /\ threadIds' = threadIds \ {t}
  /\ flushs' = flushs \ {t}
  /\ pc' = [pc EXCEPT ![t] = "out"]
  /\ hooked' = (hooked /\ ~options.once)
  /\ UNCHANGED <<options, workload, alive, cpu, at, state, insns, entries, exceptions, hostVars, history>>

\* onLeave: the thread is no longer followed and its buffer is flushed.
OnLeave(t) ==
  /\ alive /\ pc[t] = "run" /\ ~options.end_addr
  /\ threadIds' = threadIds \ {t}
  /\ flushs' = flushs \ {t}
  /\ pc' = [pc EXCEPT ![t] = "out"]
  /\ queue' = Append(queue, Message(t, state[t].trace))
  /\ state' = [state EXCEPT ![t].trace = <<>>]
  /\ hooked' = (hooked /\ ~options.once)
  /\ UNCHANGED <<options, workload, alive, cpu, at, insns, entries, exceptions,
                 seen_tids, midline_break, file, history>>

\* The exception handler flushes every buffer.  A thread that is inside a
\* callout may be using the buffer that is freed: it is sent or it is lost.
OnException ==
  /\ alive /\ exceptions < workload.exceptions
  /\ exceptions' = exceptions + 1
  /\ \E dropped \in SUBSET {t \in flushs : pc[t] = "insn" /\ state[t].trace # <<>>} :
       LET sent == SetToSeq(flushs \ dropped)
       IN  /\ queue' = queue \o [i \in DOMAIN sent |-> Message(sent[i], state[sent[i]].trace)]
           /\ state' = [t \in Thread |-> IF t \in flushs THEN [state[t] EXCEPT !.trace = <<>>]
                                         ELSE state[t]]
           /\ lost' = lost \cup dropped
  /\ UNCHANGED <<options, workload, alive, hooked, threadIds, flushs, pc, cpu, at, insns, entries,
                 seen_tids, midline_break, file, logged, implicit>>

\* end() unfollows every thread and flushes no buffer; a process that dies
\* does no more.
Stop ==
  /\ alive /\ alive' = FALSE
  /\ UNCHANGED <<options, workload, hooked, threadIds, flushs, pc, cpu, at, state, insns, entries,
                 exceptions, hostVars, history>>

-----------------------------------------------------------------------------
(* The host *)

\* An item in a file: with a comma before it, or not.
Written(item, comma) == [key |-> item[1], value |-> item[2], comma |-> comma]

\* A mutated Stitch that takes the first comma away even in the middle of a line.
StitchAlways(data, midline) ==
  [i \in DOMAIN data |->
     Written(data[i], data[i] # NewLine /\ i > 1 /\ data[i - 1] # NewLine)]

\* The commas at the start of a line are taken away, but not the first of a
\* chunk that goes on with the line of the chunk before.
Stitch(data, midline) ==
  [i \in DOMAIN data |->
     Written(data[i], /\ data[i] # NewLine
                      /\ IF i = 1 THEN midline ELSE data[i - 1] # NewLine)]

Slide == IF options.all THEN <<>>
         ELSE <<Written(Item("slide", Zero), FALSE), Written(NewLine, FALSE)>>

\* on_message: an empty chunk is ignored; the first of a thread comes after the
\* slide, when that is known.
OnMessage ==
  /\ queue # <<>>
  /\ queue' = Tail(queue)
  /\ LET tid == Head(queue).tid
         data == Head(queue).data
         header == IF tid \in seen_tids THEN <<>> ELSE Slide
     IN  \/ /\ data = <<>>
            /\ UNCHANGED <<seen_tids, midline_break, file>>
         \/ /\ data # <<>>
            /\ file' = [file EXCEPT ![tid] = @ \o header \o Stitch(data, tid \in midline_break)]
            /\ seen_tids' = seen_tids \cup {tid}
            /\ midline_break' = IF Last(data) = NewLine THEN midline_break \ {tid}
                                ELSE midline_break \cup {tid}
  /\ UNCHANGED <<processVars, history>>

Next ==
  \/ \E t \in Thread :
       \/ OnEnter(t) \/ EndOfCallout(t) \/ OnLeave(t)
       \/ \E insn \in workload.insns, registers \in Cpu : LogLine(t, insn, registers)
  \/ OnException \/ Stop \/ OnMessage

Spec == Init /\ [][Next]_vars

-----------------------------------------------------------------------------
(* Properties *)

\* The state is well formed; a thread that is not followed has no buffer
\* that would wait for ever, and one that is followed is in the handler's list.
TypeOK ==
  /\ pc \in [Thread -> {"out", "run", "insn"}] /\ cpu \in [Thread -> Cpu]
  /\ flushs \subseteq threadIds /\ threadIds \subseteq Thread
  /\ midline_break \subseteq seen_tids
  /\ \A t \in Thread :
       /\ state[t].dump_all_regs \in 0..2
       /\ Len(state[t].trace) < FlushSize \/ pc[t] = "insn"
       /\ pc[t] = "out" => state[t].trace = <<>>
       /\ pc[t] # "out" => t \in flushs

\* What the messages that were not handled yet have of a thread.
OnTheWay(messages, t) ==
  FlattenSeq([i \in DOMAIN messages |-> IF messages[i].tid = t THEN messages[i].data ELSE <<>>])

\* The file of a thread is what was logged of it so far, in order, whatever
\* chunks it came in: commas stand exactly between the items of a line, and
\* only a race with the exception handler loses any.
FileIsTheLog ==
  \A t \in Thread :
    LET lines == file[t]
        items == [i \in DOMAIN lines |-> <<lines[i].key, lines[i].value>>]
        header == Len(Slide)
        body == IF lines = <<>> THEN <<>> ELSE SubSeq(items, header + 1, Len(items))
        sent == body \o OnTheWay(queue, t)
        ends == {0} \cup {i \in DOMAIN items : items[i] = NewLine}
    IN  /\ \A i \in DOMAIN lines : lines[i].comma <=> items[i] # NewLine /\ (i - 1) \notin ends
        /\ t \notin lost => sent \o state[t].trace = logged[t]
        /\ Cardinality({i \in DOMAIN items : items[i][1] = "slide"}) = IF lines = <<>> \/ options.all THEN 0 ELSE 1

\* What a reader of the trace takes a register to hold after its last line.
Replay(t, r) ==
  LET shown == {i \in DOMAIN logged[t] : logged[t][i][1] = r}
  IN  IF shown = {} THEN Zero ELSE logged[t][Max(shown)][2]

\* When the line of an instruction is logged, a reader of the trace knows the
\* registers it left: through calls that leave the module, returns, and other
\* traces of the thread before.  The exceptions are a register that some
\* instruction changed without an operand that says so, and one that is zero.
RegistersAreReplayed ==
  \A t \in Thread :
    (pc[t] = "insn" /\ state[t].last.inside) =>
      \A r \in Reg \ implicit[t] : cpu[t][r] \in {Zero, Replay(t, r)}
=============================================================================

--------------------------- MODULE NormalizePass ---------------------------
(***************************************************************************)
(* parse_and_normalize_events (crates/index/src/pass.rs) over the Tenet    *)
(* parser (crates/index/src/parser/tenet.rs).  The parser turns a trace    *)
(* into events and their times; memory events go to DisjointPass, register *)
(* events become leaves here.  The trace is a series of tokens, each ended *)
(* by a separator: a comma, or the end of a line, which is one tick.       *)
(***************************************************************************)
EXTENDS DisjointPass, Sequences, SequencesExt

CONSTANTS Reg,     \* register names
          Word     \* register values

VARIABLES time,             \* the parser's clock
          curr_time,        \* the time of the last timed event
          reg_name_mapping, \* register names by index, in order of appearance
          last_reg_leaves,  \* index -> the open leaf of the register, or NoLeaf
          reg_leaves,       \* register leaves emitted so far
          read_leaves,      \* memory read leaves emitted so far
          alsr_slide        \* the slide of the last `slide` token, if any

regVars == <<reg_name_mapping, last_reg_leaves, reg_leaves>>
normalizeVars == <<vars, time, curr_time, regVars, read_leaves, alsr_slide>>

Separator == {"comma", "newline"}
Mode == {"Read", "Write", "ReadWrite"}
Slide == {"slide"}   \* one slide is enough: it is stored and never compared

RegLeaf == [reg : Reg, value : Word, time_min : Time, time_max : Time]

ASSUME NoRegLeafAssumption == NoLeaf \notin RegLeaf

\* The token's end is reached: the last token of a line is already on the
\* next tick when its event is emitted.
TimeAfter(sep) == IF sep = "newline" THEN time + 1 ELSE time

NormalizeInit ==
  /\ Init
  /\ time = 0 /\ curr_time = 0
  /\ reg_name_mapping = <<>>
  /\ last_reg_leaves = <<>>
  /\ reg_leaves = {} /\ read_leaves = {}
  /\ alsr_slide = {}

\* A timed event is emitted at the parser's time.
Timed(sep) == /\ ~finished
              /\ TimeAfter(sep) \in Time   \* bound: the trace has at most TimeMax lines
              /\ time' = TimeAfter(sep)
              /\ curr_time' = time'

-----------------------------------------------------------------------------
(* Registers *)

\* The index of a register, a new one on its first appearance.
MapRegName(name) ==
  IF Contains(reg_name_mapping, name) THEN reg_name_mapping
  ELSE Append(reg_name_mapping, name)

IndexOf(mapping, name) == CHOOSE i \in 1..Len(mapping) : mapping[i] = name

\* A mutated Resize that makes the vector exactly as long as the index asked
\* for, which forgets the registers behind it.
ResizeExactly(slots, len) == [i \in 1..len |-> IF i <= Len(slots) THEN slots[i] ELSE NoLeaf]

\* last_reg_leaves.resize(required_len, None), when it is shorter.
Resize(slots, len) ==
  IF Len(slots) < len
  THEN [i \in 1..len |-> IF i <= Len(slots) THEN slots[i] ELSE NoLeaf]
  ELSE slots

OpenReg(name, value, t) == [reg |-> name, value |-> value, time_min |-> t, time_max |-> t]

\* A mutated CloseBefore that lets the old leaf reach into the new one.
CloseWith(leaf, t) == [leaf EXCEPT !.time_max = t]

\* The leaf ends one tick before its successor starts.
CloseBefore(leaf, t) == [leaf EXCEPT !.time_max = t - 1]

\* A mutated PushRegister: a second write at the same time closes the first
\* one like any other, one tick before it starts.
PushRegisterTwice(name, value) ==
  LET mapping == MapRegName(name)
      i       == IndexOf(mapping, name)
      slots   == Resize(last_reg_leaves, i)
  IN  /\ reg_name_mapping' = mapping
      /\ last_reg_leaves' = [slots EXCEPT ![i] = OpenReg(name, value, time')]
      /\ reg_leaves' = IF slots[i] = NoLeaf THEN reg_leaves
                       ELSE reg_leaves \cup {CloseBefore(slots[i], time')}

\* A register event at time'.  Of several writes at the same time the last
\* one is kept; otherwise the open leaf ends one tick before.
PushRegister(name, value) ==
  LET mapping == MapRegName(name)
      i       == IndexOf(mapping, name)
      slots   == Resize(last_reg_leaves, i)
      last    == slots[i]
  IN  /\ reg_name_mapping' = mapping
      /\ \/ /\ last # NoLeaf /\ last.time_min = time' /\ last.time_max = time'
            /\ last_reg_leaves' = [slots EXCEPT ![i].value = value]
            /\ UNCHANGED reg_leaves
         \/ /\ last = NoLeaf
            /\ last_reg_leaves' = [slots EXCEPT ![i] = OpenReg(name, value, time')]
            /\ UNCHANGED reg_leaves
         \/ /\ last # NoLeaf /\ ~(last.time_min = time' /\ last.time_max = time')
            /\ reg_leaves' = reg_leaves \cup {CloseBefore(last, time')}
            /\ last_reg_leaves' = [slots EXCEPT ![i] = OpenReg(name, value, time')]

Register(sep, name, value) ==
  /\ Timed(sep)
  /\ PushRegister(name, value)
  /\ UNCHANGED <<vars, read_leaves, alsr_slide>>

-----------------------------------------------------------------------------
(* Memory, slide and the end of the trace *)

\* A memory event.  A pure read goes through the same pass as a write, only
\* it may be deduplicated; every read also becomes a read leaf.
Memory(sep, addr, len, bytes, mode) ==
  /\ Timed(sep)
  /\ Push(time', addr, len, bytes, mode = "Read")
  /\ read_leaves' = IF mode \in {"Read", "ReadWrite"}
                    THEN read_leaves \cup {[addr_min |-> addr, addr_max |-> addr + len - 1,
                                            time |-> time']}
                    ELSE read_leaves
  /\ UNCHANGED <<regVars, alsr_slide>>

\* A slide token is not a timed event: the clock ticks, curr_time does not.
AslrSlide(sep, slide) ==
  /\ ~finished
  /\ TimeAfter(sep) \in Time
  /\ time' = TimeAfter(sep)
  /\ alsr_slide' = {slide}
  /\ UNCHANGED <<vars, curr_time, regVars, read_leaves>>

\* A mutated CloseRegisters that ends registers where memory ends.
CloseRegistersWithMemory ==
  reg_leaves' = reg_leaves \cup
    {[last_reg_leaves[i] EXCEPT !.time_max = current_time] : i \in DOMAIN last_reg_leaves}

\* Every open register leaf ends at the time of the last event.
CloseRegisters ==
  reg_leaves' = reg_leaves \cup
    {[last_reg_leaves[i] EXCEPT !.time_max = curr_time] : i \in DOMAIN last_reg_leaves}

EndOfTrace ==
  /\ Finish
  /\ CloseRegisters
  /\ last_reg_leaves' = <<>>
  /\ UNCHANGED <<time, curr_time, reg_name_mapping, read_leaves, alsr_slide>>

NormalizeNext ==
  \/ \E sep \in Separator :
       \/ \E name \in Reg, value \in Word : Register(sep, name, value)
       \/ \E slide \in Slide : AslrSlide(sep, slide)
       \/ \E addr \in Addr, len \in 1..MaxLen, mode \in Mode :
            /\ addr + len - 1 \in Addr
            /\ \E bytes \in [0..(len - 1) -> Byte] : Memory(sep, addr, len, bytes, mode)
  \/ EndOfTrace

NormalizeSpec == NormalizeInit /\ [][NormalizeNext]_normalizeVars

-----------------------------------------------------------------------------
(* Properties *)

\* The two vectors of the pass hold names and register leaves; every time
\* recorded, the end of an emitted leaf included, is a time of the trace.
NormalizeTypeOK ==
  /\ TypeOK
  /\ time \in Time /\ curr_time \in Time
  /\ reg_name_mapping \in Seq(Reg)
  /\ last_reg_leaves \in Seq(RegLeaf \cup {NoLeaf})
  /\ reg_leaves \subseteq RegLeaf
  /\ read_leaves \subseteq [addr_min : Addr, addr_max : Addr, time : Time]
  /\ alsr_slide \subseteq Slide

\* Every register that appeared has an open leaf, in the slot of its own
\* name, so closing the registers never meets an empty slot ("must be some
\* at this point"); and no assertion on leaf times can fail.
SlotsAreFull ==
  /\ ~finished => Len(last_reg_leaves) = Len(reg_name_mapping)
  /\ \A i \in DOMAIN last_reg_leaves :
       /\ last_reg_leaves[i] # NoLeaf
       /\ last_reg_leaves[i].reg = reg_name_mapping[i]
       /\ last_reg_leaves[i].time_min = last_reg_leaves[i].time_max
       /\ last_reg_leaves[i].time_min <= curr_time

\* The leaf of a register at a time: its emitted leaves, and the open one,
\* which lasts.
LeafAt(r, t) ==
  {l \in reg_leaves : l.reg = r /\ l.time_min <= t /\ t <= l.time_max}
    \cup {l \in Range(last_reg_leaves) : l.reg = r /\ l.time_min <= t}

RegValue(r, t) ==
  IF LeafAt(r, t) = {} THEN Unknown ELSE (CHOOSE l \in LeafAt(r, t) : TRUE).value

\* At a time a register has at most one leaf, so value_at does not depend on
\* which leaf the tree walk meets first.
OneLeafAtATime == \A r \in Reg, t \in Time : Cardinality(LeafAt(r, t)) <= 1

Registers ==
  INSTANCE RegisterHistory WITH
    hist <- [r \in Reg |-> [t \in Time |-> RegValue(r, t)]],
    now <- curr_time, closed <- finished

\* value_at answers the last write at or before the time, up to the last
\* event of the trace: every step of the pass is a step of RegisterHistory.
RefinesRegisterHistory == Registers!Spec

\* Every read finds, in the memory leaves, a byte for each address it read
\* at the time it read it.
ReadsAreAnswered ==
  \A r \in read_leaves : \A a \in r.addr_min..r.addr_max : Value(AllLeaves, r.time, a) # Unknown

\* "is_complete: false if at least one address has no value"
\* (crates/db/src/db.rs:446): an address that has a value keeps having one
\* until the end of the trace.
KnownUntilTheEnd ==
  finished => \A a \in Addr : Value(AllLeaves, current_time, a) # Unknown
                                => Value(AllLeaves, curr_time, a) # Unknown
=============================================================================

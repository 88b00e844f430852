---------------------------- MODULE TracerProofs ----------------------------
(***************************************************************************)
(* Whatever the threads of the traced process do, and whenever they stop:  *)
(* what is in the file of a thread, followed by what is on its way and     *)
(* what is in the buffer of the thread, is what the thread logged.         *)
(*                                                                         *)
(* The argument.  A file is fixed by the items that the host has taken     *)
(* (Lines): the slide is before them, and a comma stands before an item    *)
(* that follows another of its line.  That a chunk that goes on with a     *)
(* line begins with a comma is what midline_break is for (LinesOfTwo).     *)
(* The process only ever moves items from a buffer to the queue, or adds   *)
(* new ones behind (Adds); only the exception handler may lose any, and    *)
(* only of a thread inside a callout.                                      *)
(*                                                                         *)
(* A reader of the log knows the registers because what a thread compares  *)
(* its registers with is what the log says of them (Comparable).           *)
(***************************************************************************)
EXTENDS Tracer, SequenceTheorems, FiniteSetTheorems, NaturalsInduction, TLAPS

-----------------------------------------------------------------------------
(* What a process logs *)

LogItem == (({"pc", "mem"} \cup Reg) \X (Word \cup Nat)) \cup {NewLine}

Dump == 0..2

CModule == [last : InsnType \cup {NoInsn}, last_pc : Nat, dump_all_regs : Dump,
            old_cpu_ctx : Cpu, trace : Seq(LogItem)]

Chunk == [tid : Thread, data : Seq(LogItem)]

\* The items of a thread that the host has not taken.
Unwritten(t) == OnTheWay(queue, t) \o state[t].trace

\* The traced process: a buffer that is full is sent before the next callout,
\* and the handler knows every thread that has one.
ProcessInv ==
  /\ options \in Options /\ workload \in Workloads
  /\ pc \in [Thread -> {"out", "run", "insn"}] /\ cpu \in [Thread -> Cpu]
  /\ at \in [Thread -> InsnType \cup {NoInsn}] /\ insns \in [Thread -> Nat]
  /\ state \in [Thread -> CModule]
  /\ flushs \subseteq threadIds /\ threadIds \subseteq Thread
  /\ queue \in Seq(Chunk) /\ logged \in [Thread -> Seq(LogItem)]
  /\ \A t \in Thread :
       /\ Len(state[t].trace) < FlushSize \/ pc[t] = "insn"
       /\ pc[t] = "out" => state[t].trace = <<>>
       /\ pc[t] # "out" => t \in flushs

\* The items the host has taken, as they stand in the file.
Lines(body) ==
  [i \in DOMAIN body |->
     Written(body[i], body[i] # NewLine /\ i # 1 /\ body[i - 1] # NewLine)]

Midline(body) == body # <<>> /\ body[Len(body)] # NewLine

\* The host has taken body of a thread.
Holds(t, body) ==
  /\ file[t] = IF body = <<>> THEN <<>> ELSE Slide \o Lines(body)
  /\ t \in seen_tids <=> body # <<>>
  /\ t \in midline_break <=> Midline(body)
  /\ t \notin lost => body \o Unwritten(t) = logged[t]

HostInv ==
  /\ file = [t \in Thread |-> file[t]]
  /\ seen_tids \subseteq Thread /\ midline_break \subseteq seen_tids
  /\ \A t \in Thread : \E body \in Seq(LogItem) : Holds(t, body)

\* The inductive invariant.
TInv == ProcessInv /\ HostInv

-----------------------------------------------------------------------------
(* Sequences *)

\* A set of numbers that has 0 and the successor of each of its members has
\* them all.
LEMMA NatIsInductive ==
  ASSUME NEW T, 0 \in T, \A n \in Nat : n \in T => n + 1 \in T
  PROVE  Nat \subseteq T
<1> DEFINE R == {ss \in Nat \X Nat : ss[1] < ss[2]}
<1>1. IsWellFoundedOn(R, Nat)
  BY NatLessThanWellFounded, Zenon DEF OpToRel
<1> SUFFICES ASSUME Nat \ T # {} PROVE FALSE
  OBVIOUS
<1>2. PICK m \in Nat \ T : \A y \in Nat \ T : ~ (<<y, m>> \in R)
  <2> DEFINE U == Nat \ T
  <2>1. U \subseteq Nat /\ U # {}
    OBVIOUS
  <2> HIDE DEF R, U
  <2>2. \E m \in U : \A y \in U : ~ (<<y, m>> \in R)
    BY <1>1, <2>1, WFMin
  <2>. QED  BY <2>2 DEF U
<1>3. \A y \in Nat \ T : ~ (y < m)
  BY <1>2
<1>4. m # 0 /\ m - 1 \in Nat /\ m - 1 \notin Nat \ T
  BY <1>3
<1>5. (m - 1) + 1 = m
  OBVIOUS
<1>. QED  BY <1>4, <1>5

\* Three sequences one after the other.
LEMMA ThreeInARow ==
  ASSUME NEW S
  PROVE  \A a, b, c \in Seq(S) : (a \o b) \o c = a \o (b \o c)
BY ConcatAssociative

\* A recursion over the places of a list of sequences defines a function.
LEMMA FlattenExists ==
  ASSUME NEW S, NEW ss \in Seq(Seq(S))
  PROVE  \E f : f = [i \in 1..Len(ss) |-> IF i = 1 THEN ss[i] ELSE f[i - 1] \o ss[i]]
<1> DEFINE Is(f, n) == f = [i \in 1..n |-> IF i = 1 THEN ss[i] ELSE f[i - 1] \o ss[i]]
           T == {n \in Nat : \E f : Is(f, n)}
<1>1. 0 \in T
  <2> DEFINE g == [i \in 1..0 |-> <<>>]
  <2>1. Is(g, 0)
    OBVIOUS
  <2>. QED  BY <2>1
<1>2. ASSUME NEW n \in Nat, n \in T
      PROVE  n + 1 \in T
  <2>1. PICK f : Is(f, n)
    BY <1>2
  <2> DEFINE g == [i \in 1..(n + 1) |-> IF i <= n THEN f[i]
                                        ELSE IF i = 1 THEN ss[i] ELSE f[i - 1] \o ss[i]]
  <2>2. \A i \in 1..(n + 1) : g[i] = IF i = 1 THEN ss[i] ELSE g[i - 1] \o ss[i]
    <3> SUFFICES ASSUME NEW i \in 1..(n + 1)
                 PROVE  g[i] = IF i = 1 THEN ss[i] ELSE g[i - 1] \o ss[i]
      OBVIOUS
    <3>1. i # 1 => i - 1 \in 1..n /\ i - 1 \in 1..(n + 1) /\ i - 1 <= n
      OBVIOUS
    <3>2. i # 1 => g[i - 1] = f[i - 1]
      BY <3>1
    <3>3. CASE i <= n
      <4>1. i \in 1..n /\ g[i] = f[i]
        BY <3>3
      <4>2. f[i] = IF i = 1 THEN ss[i] ELSE f[i - 1] \o ss[i]
        BY <2>1, <4>1
      <4>. QED  BY <3>2, <4>1, <4>2
    <3>4. CASE ~ (i <= n)
      <4>1. g[i] = IF i = 1 THEN ss[i] ELSE f[i - 1] \o ss[i]
        BY <3>4
      <4>. QED  BY <3>2, <4>1
    <3>. QED  BY <3>3, <3>4
  <2>3. g = [i \in 1..(n + 1) |-> g[i]]
    OBVIOUS
  <2> HIDE DEF g
  <2>4. Is(g, n + 1)
    BY <2>2, <2>3
  <2>5. \E h : Is(h, n + 1)
    BY <2>4, Zenon
  <2> HIDE DEF Is
  <2>. QED  BY <2>5
<1>3. Len(ss) \in Nat
  OBVIOUS
<1> HIDE DEF T
<1>4. Len(ss) \in T
  BY <1>1, <1>2, <1>3, NatIsInductive
<1>. QED  BY <1>4 DEF T

\* What FlattenSeq is: nothing for an empty list, and what its function says.
LEMMA FlattenIs ==
  ASSUME NEW S, NEW ss \in Seq(Seq(S))
  PROVE  \E f : /\ f = [i \in 1..Len(ss) |-> IF i = 1 THEN ss[i] ELSE f[i - 1] \o ss[i]]
                /\ FlattenSeq(ss) = IF ss = <<>> THEN <<>> ELSE f[Len(ss)]
<1> DEFINE Is(f) == f = [i \in 1..Len(ss) |-> IF i = 1 THEN ss[i] ELSE f[i - 1] \o ss[i]]
           g == CHOOSE f : Is(f)
<1>1. Is(g)
  <2>1. \E f : Is(f)
    BY FlattenExists
  <2>. QED  BY <2>1, Zenon
<1>2. ss = <<>> <=> Len(ss) = 0
  OBVIOUS
<1>3. FlattenSeq(ss) = IF Len(ss) = 0 THEN ss ELSE g[Len(ss)]
  BY Zenon DEF FlattenSeq
<1> HIDE DEF g
<1>. QED  BY <1>1, <1>2, <1>3, Zenon

\* A list with one more sequence.
LEMMA FlattenAppend ==
  ASSUME NEW S, NEW ss \in Seq(Seq(S)), NEW s \in Seq(S), FlattenSeq(ss) \in Seq(S)
  PROVE  FlattenSeq(Append(ss, s)) = FlattenSeq(ss) \o s
<1> DEFINE n == Len(ss)
           more == Append(ss, s)
           Is(f, l) == f = [i \in 1..Len(l) |-> IF i = 1 THEN l[i] ELSE f[i - 1] \o l[i]]
<1>1. /\ n \in Nat /\ more \in Seq(Seq(S)) /\ Len(more) = n + 1 /\ more # <<>>
      /\ more[n + 1] = s /\ \A i \in 1..n : more[i] = ss[i]
      /\ ss = <<>> <=> n = 0
  <2>1. n \in Nat /\ (ss = <<>> <=> n = 0)
    OBVIOUS
  <2>2. more \in Seq(Seq(S)) /\ Len(more) = n + 1 /\ more # <<>>
    BY AppendProperties
  <2>3. more[n + 1] = s /\ \A i \in 1..n : more[i] = ss[i]
    BY AppendProperties
  <2>. QED  BY <2>1, <2>2, <2>3
<1>2. PICK f : Is(f, ss) /\ FlattenSeq(ss) = IF ss = <<>> THEN <<>> ELSE f[n]
  BY FlattenIs
<1> HIDE DEF more
<1>3. PICK g : Is(g, more) /\ FlattenSeq(more) = IF more = <<>> THEN <<>> ELSE g[n + 1]
  <2>1. \E g : Is(g, more) /\ FlattenSeq(more) = IF more = <<>> THEN <<>> ELSE g[Len(more)]
    BY <1>1, FlattenIs, Zenon
  <2>2. Len(more) = n + 1
    BY <1>1
  <2> HIDE DEF Is
  <2>. QED  BY <2>1, <2>2, Zenon
<1> DEFINE T == {k \in Nat : k + 1 <= n => f[k + 1] = g[k + 1]}
<1>4. \A i \in 1..n : /\ f[i] = IF i = 1 THEN ss[i] ELSE f[i - 1] \o ss[i]
                      /\ g[i] = IF i = 1 THEN ss[i] ELSE g[i - 1] \o ss[i]
  <2>1. \A i \in 1..n : i \in 1..Len(more)
    BY <1>1
  <2>2. \A i \in 1..Len(more) : g[i] = IF i = 1 THEN more[i] ELSE g[i - 1] \o more[i]
    BY <1>3
  <2>. QED  BY <1>1, <1>2, <2>1, <2>2
<1>5. 0 \in T
  BY <1>4
<1>6. ASSUME NEW k \in Nat, k \in T
      PROVE  k + 1 \in T
  <2> SUFFICES ASSUME (k + 1) + 1 <= n PROVE f[(k + 1) + 1] = g[(k + 1) + 1]
    OBVIOUS
  <2> DEFINE i == (k + 1) + 1
  <2>1. i \in 1..n /\ i # 1 /\ i - 1 = k + 1 /\ k + 1 <= n
    BY <1>1
  <2>2. f[k + 1] = g[k + 1]
    BY <1>6, <2>1
  <2> HIDE DEF i
  <2>3. f[i] = f[i - 1] \o ss[i] /\ g[i] = g[i - 1] \o ss[i]
    BY <1>4, <2>1
  <2>4. f[i] = g[i]
    BY <2>1, <2>2, <2>3
  <2>. QED  BY <2>4 DEF i
<1>7. n > 0 => f[n] = g[n]
  <2> HIDE DEF T
  <2>1. Nat \subseteq T
    BY <1>5, <1>6, NatIsInductive
  <2> USE DEF T
  <2>2. n \in Nat
    BY <1>1
  <2> HIDE DEF n
  <2>3. n > 0 => n - 1 \in Nat /\ (n - 1) + 1 = n /\ n <= n
    BY <2>2
  <2>4. n > 0 => n - 1 \in T
    BY <2>1, <2>3
  <2>. QED  BY <2>3, <2>4
<1>8. g[n + 1] = IF n + 1 = 1 THEN s ELSE g[n] \o s
  <2>1. n + 1 \in 1..Len(more) /\ (n + 1) - 1 = n
    BY <1>1
  <2>2. g[n + 1] = IF n + 1 = 1 THEN more[n + 1] ELSE g[(n + 1) - 1] \o more[n + 1]
    BY <1>3, <2>1
  <2>. QED  BY <1>1, <2>1, <2>2
<1>9. CASE n = 0
  <2>1. FlattenSeq(ss) = <<>> /\ FlattenSeq(more) = s
    BY <1>1, <1>2, <1>3, <1>8, <1>9
  <2>2. <<>> \o s = s
    OBVIOUS
  <2>. QED  BY <2>1, <2>2 DEF more
<1>10. CASE n # 0
  <2>1. FlattenSeq(ss) = f[n]
    BY <1>1, <1>2, <1>10
  <2>2. n > 0 /\ n + 1 # 1
    BY <1>1, <1>10
  <2>3. FlattenSeq(more) = g[n] \o s
    BY <1>1, <1>3, <1>8, <2>2
  <2>4. f[n] = g[n]
    BY <1>7, <2>2
  <2>. QED  BY <2>1, <2>3, <2>4 DEF more
<1>. QED  BY <1>9, <1>10

\* What is flattened is a sequence, and nothing of nothing.
LEMMA FlattenType ==
  ASSUME NEW S
  PROVE  /\ FlattenSeq(<<>>) = <<>>
         /\ \A ss \in Seq(Seq(S)) : FlattenSeq(ss) \in Seq(S)
<1>1. FlattenSeq(<<>>) = <<>>
  <2>1. <<>> \in Seq(Seq(S))
    OBVIOUS
  <2>. QED  BY <2>1, FlattenIs
<1> DEFINE T == {n \in Nat : \A ss \in Seq(Seq(S)) : Len(ss) = n => FlattenSeq(ss) \in Seq(S)}
<1>2. 0 \in T
  <2>1. \A ss \in Seq(Seq(S)) : Len(ss) = 0 => ss = <<>>
    OBVIOUS
  <2>2. <<>> \in Seq(S)
    OBVIOUS
  <2>. QED  BY <1>1, <2>1, <2>2
<1>3. ASSUME NEW n \in Nat, n \in T
      PROVE  n + 1 \in T
  <2> SUFFICES ASSUME NEW ss \in Seq(Seq(S)), Len(ss) = n + 1
               PROVE  FlattenSeq(ss) \in Seq(S)
    OBVIOUS
  <2> DEFINE front == SubSeq(ss, 1, n)
             s == ss[n + 1]
  <2>1. front \in Seq(Seq(S)) /\ Len(front) = n /\ s \in Seq(S) /\ ss = Append(front, s)
    OBVIOUS
  <2> HIDE DEF front, s
  <2>2. FlattenSeq(front) \in Seq(S)
    BY <1>3, <2>1
  <2>3. FlattenSeq(ss) = FlattenSeq(front) \o s
    BY <2>1, <2>2, FlattenAppend
  <2>. QED  BY <2>1, <2>2, <2>3
<1> HIDE DEF T
<1>4. Nat \subseteq T
  BY <1>2, <1>3, NatIsInductive
<1> USE DEF T
<1>. QED  BY <1>1, <1>4

\* Two lists one after the other.
LEMMA FlattenConcat ==
  ASSUME NEW S, NEW ss \in Seq(Seq(S))
  PROVE  \A rr \in Seq(Seq(S)) : FlattenSeq(ss \o rr) = FlattenSeq(ss) \o FlattenSeq(rr)
<1> DEFINE F(l) == FlattenSeq(l)
           T == {n \in Nat : \A rr \in Seq(Seq(S)) : Len(rr) = n => F(ss \o rr) = F(ss) \o F(rr)}
<1>0. \A a, b, c \in Seq(S) : (a \o b) \o c = a \o (b \o c)
  BY ThreeInARow
<1>1. F(<<>>) = <<>> /\ \A l \in Seq(Seq(S)) : F(l) \in Seq(S)
  <2>1. F(<<>>) = <<>>
    BY FlattenType
  <2>2. \A l \in Seq(Seq(S)) : F(l) \in Seq(S)
    BY FlattenType
  <2>. QED  BY <2>1, <2>2
<1>2. 0 \in T
  <2>1. \A rr \in Seq(Seq(S)) : Len(rr) = 0 => rr = <<>> /\ ss \o rr = ss
    OBVIOUS
  <2>2. F(ss) \o <<>> = F(ss)
    BY <1>1
  <2> HIDE DEF F
  <2>. QED  BY <1>1, <2>1, <2>2
<1>3. ASSUME NEW n \in Nat, n \in T
      PROVE  n + 1 \in T
  <2> SUFFICES ASSUME NEW rr \in Seq(Seq(S)), Len(rr) = n + 1
               PROVE  F(ss \o rr) = F(ss) \o F(rr)
    OBVIOUS
  <2> DEFINE front == SubSeq(rr, 1, n)
             s == rr[n + 1]
  <2>1. front \in Seq(Seq(S)) /\ Len(front) = n /\ s \in Seq(S) /\ rr = Append(front, s)
    OBVIOUS
  <2> HIDE DEF front, s
  <2>2. ss \o front \in Seq(Seq(S)) /\ ss \o rr = Append(ss \o front, s)
    BY <2>1
  <2>3. F(ss \o front) = F(ss) \o F(front)
    BY <1>3, <2>1
  <2>4. F(rr) = F(front) \o s
    BY <1>1, <2>1, FlattenAppend
  <2>5. F(ss \o rr) = F(ss \o front) \o s
    BY <1>1, <2>1, <2>2, FlattenAppend
  <2>6. F(ss) \in Seq(S) /\ F(front) \in Seq(S)
    BY <1>1, <2>1
  <2> HIDE DEF F
  <2>7. (F(ss) \o F(front)) \o s = F(ss) \o (F(front) \o s)
    <3> DEFINE x == F(ss)
               y == F(front)
    <3>1. x \in Seq(S) /\ y \in Seq(S) /\ s \in Seq(S)
      BY <2>1, <2>6
    <3> HIDE DEF x, y
    <3> HIDE DEF T
    <3>2. (x \o y) \o s = x \o (y \o s)
      BY <1>0, <3>1
    <3>. QED  BY <3>2 DEF x, y
  <2>. QED  BY <2>3, <2>4, <2>5, <2>7
<1> HIDE DEF T
<1>4. Nat \subseteq T
  BY <1>2, <1>3, NatIsInductive
<1> USE DEF T
<1>. QED  BY <1>4

-----------------------------------------------------------------------------
(* Messages *)

Data(m, t) == IF m.tid = t THEN m.data ELSE <<>>

Parts(q, t) == [i \in DOMAIN q |-> Data(q[i], t)]

\* What the messages have of a thread, message by message.
LEMMA WayIs ==
  ASSUME NEW q \in Seq(Chunk), NEW t
  PROVE  /\ Parts(q, t) \in Seq(Seq(LogItem)) /\ Len(Parts(q, t)) = Len(q)
         /\ OnTheWay(q, t) = FlattenSeq(Parts(q, t))
         /\ OnTheWay(q, t) \in Seq(LogItem)
<1>1. \A i \in 1..Len(q) : Data(q[i], t) \in Seq(LogItem)
  <2>1. \A i \in 1..Len(q) : q[i] \in Chunk
    OBVIOUS
  <2>2. <<>> \in Seq(LogItem)
    OBVIOUS
  <2>. QED  BY <2>1, <2>2 DEF Chunk, Data
<1>2. Len(q) \in Nat /\ DOMAIN q = 1..Len(q)
  OBVIOUS
<1>3. Parts(q, t) \in Seq(Seq(LogItem)) /\ Len(Parts(q, t)) = Len(q)
  <2> DEFINE p == [i \in 1..Len(q) |-> Data(q[i], t)]
  <2>1. p \in [1..Len(q) -> Seq(LogItem)]
    BY <1>1
  <2> HIDE DEF p
  <2>2. p \in Seq(Seq(LogItem)) /\ Len(p) = Len(q)
    BY <1>2, <2>1, IsASeq
  <2>3. Parts(q, t) = p
    BY <1>2 DEF Parts, p
  <2>. QED  BY <2>2, <2>3
<1>4. OnTheWay(q, t) = FlattenSeq(Parts(q, t))
  BY DEF OnTheWay, Parts, Data
<1>. QED  BY <1>3, <1>4, FlattenType

\* Messages one after the other.
LEMMA WayOfTwo ==
  ASSUME NEW q \in Seq(Chunk), NEW r \in Seq(Chunk), NEW t
  PROVE  OnTheWay(q \o r, t) = OnTheWay(q, t) \o OnTheWay(r, t)
<1>1. q \o r \in Seq(Chunk) /\ Len(q \o r) = Len(q) + Len(r)
  OBVIOUS
<1>2. /\ Parts(q, t) \in Seq(Seq(LogItem)) /\ Len(Parts(q, t)) = Len(q)
      /\ Parts(r, t) \in Seq(Seq(LogItem)) /\ Len(Parts(r, t)) = Len(r)
      /\ Parts(q \o r, t) \in Seq(Seq(LogItem)) /\ Len(Parts(q \o r, t)) = Len(q \o r)
  BY <1>1, WayIs
<1>3. Parts(q \o r, t) = Parts(q, t) \o Parts(r, t)
  <2> DEFINE a == Parts(q, t)
             b == Parts(r, t)
             c == Parts(q \o r, t)
  <2>1. \A i \in 1..Len(q) : a[i] = Data(q[i], t) /\ c[i] = Data(q[i], t)
    BY <1>1 DEF Parts
  <2>2. \A i \in 1..Len(r) : b[i] = Data(r[i], t) /\ c[Len(q) + i] = Data(r[i], t)
    BY <1>1 DEF Parts
  <2> HIDE DEF a, b, c
  <2>3. a \o b \in Seq(Seq(LogItem)) /\ Len(a \o b) = Len(q) + Len(r)
    <3>1. a \in Seq(Seq(LogItem)) /\ Len(a) = Len(q) /\ b \in Seq(Seq(LogItem)) /\ Len(b) = Len(r)
      BY <1>2 DEF a, b
    <3> DEFINE S == Seq(LogItem)
    <3> HIDE DEF S
    <3>2. a \in Seq(S) /\ b \in Seq(S)
      BY <3>1 DEF S
    <3>3. a \o b \in Seq(S) /\ Len(a \o b) = Len(a) + Len(b)
      BY <3>2, ConcatProperties
    <3>. QED  BY <3>1, <3>3 DEF S
  <2>4. \A i \in 1..(Len(q) + Len(r)) : c[i] = (a \o b)[i]
    <3> SUFFICES ASSUME NEW i \in 1..(Len(q) + Len(r)) PROVE c[i] = (a \o b)[i]
      OBVIOUS
    <3>1. a \in Seq(Seq(LogItem)) /\ Len(a) = Len(q) /\ b \in Seq(Seq(LogItem)) /\ Len(b) = Len(r)
      BY <1>2 DEF a, b
    <3>2. CASE i <= Len(q)
      <4>1. i \in 1..Len(q)
        BY <3>2
      <4>2. (a \o b)[i] = a[i]
        BY <3>1, <4>1
      <4>. QED  BY <2>1, <4>1, <4>2
    <3>3. CASE ~ (i <= Len(q))
      <4> DEFINE j == i - Len(q)
      <4>1. j \in 1..Len(r) /\ i = Len(q) + j
        BY <3>3
      <4>2. (a \o b)[i] = b[j]
        BY <3>1, <3>3, ConcatProperties
      <4> HIDE DEF j
      <4>. QED  BY <2>2, <4>1, <4>2
    <3>. QED  BY <3>2, <3>3
  <2>5. c \in Seq(Seq(LogItem)) /\ Len(c) = Len(q) + Len(r)
    BY <1>1, <1>2 DEF c
  <2>6. c = a \o b
    BY <2>3, <2>4, <2>5, SeqEqual
  <2>. QED  BY <2>6 DEF a, b, c
<1>4. FlattenSeq(Parts(q, t) \o Parts(r, t)) = FlattenSeq(Parts(q, t)) \o FlattenSeq(Parts(r, t))
  BY <1>2, FlattenConcat
<1>5. /\ OnTheWay(q, t) = FlattenSeq(Parts(q, t)) /\ OnTheWay(r, t) = FlattenSeq(Parts(r, t))
      /\ OnTheWay(q \o r, t) = FlattenSeq(Parts(q \o r, t))
  BY <1>1, WayIs
<1>. QED  BY <1>3, <1>4, <1>5

\* One message.
LEMMA WayOfOne ==
  ASSUME NEW m \in Chunk, NEW t
  PROVE  OnTheWay(<<m>>, t) = Data(m, t)
<1> DEFINE q == <<m>>
           d == Data(m, t)
<1>1. q \in Seq(Chunk) /\ DOMAIN q = {1} /\ q[1] = m
  OBVIOUS
<1>2. d \in Seq(LogItem)
  BY DEF Chunk, Data
<1> HIDE DEF d
<1>3. Parts(q, t) = Append(<<>>, d)
  <2>1. Parts(q, t) = [i \in {1} |-> d]
    BY <1>1 DEF Parts, d
  <2>2. Append(<<>>, d) = [i \in {1} |-> d]
    OBVIOUS
  <2>. QED  BY <2>1, <2>2
<1>4. FlattenSeq(Append(<<>>, d)) = FlattenSeq(<<>>) \o d
  <2>1. <<>> \in Seq(Seq(LogItem))
    OBVIOUS
  <2>2. FlattenSeq(<<>>) \in Seq(LogItem)
    BY <2>1, FlattenType
  <2>. QED  BY <1>2, <2>1, <2>2, FlattenAppend
<1>5. FlattenSeq(<<>>) \o d = d
  BY <1>2, FlattenType
<1>6. OnTheWay(q, t) = FlattenSeq(Parts(q, t))
  BY <1>1, WayIs
<1> HIDE DEF q
<1>7. OnTheWay(q, t) = d
  BY <1>3, <1>4, <1>5, <1>6
<1>. QED  BY <1>7 DEF q, d

\* Messages of other threads have nothing of this one.
LEMMA WayOfOthers ==
  ASSUME NEW t
  PROVE  \A q \in Seq(Chunk) : (\A i \in 1..Len(q) : q[i].tid # t) => OnTheWay(q, t) = <<>>
<1> DEFINE Others(q) == \A i \in 1..Len(q) : q[i].tid # t
           T == {n \in Nat : \A q \in Seq(Chunk) : Len(q) = n /\ Others(q) => OnTheWay(q, t) = <<>>}
<1>1. 0 \in T
  <2> SUFFICES ASSUME NEW q \in Seq(Chunk), Len(q) = 0 PROVE OnTheWay(q, t) = <<>>
    OBVIOUS
  <2>1. OnTheWay(q, t) = FlattenSeq(Parts(q, t)) /\ Parts(q, t) \in Seq(Seq(LogItem)) /\ Len(Parts(q, t)) = 0
    BY WayIs
  <2> DEFINE p == Parts(q, t)
  <2> HIDE DEF p
  <2>2. p \in Seq(Seq(LogItem)) /\ Len(p) = 0
    BY <2>1 DEF p
  <2>3. p = <<>>
    BY <2>2
  <2>. QED  BY <2>1, <2>3, FlattenType DEF p
<1>2. ASSUME NEW n \in Nat, n \in T
      PROVE  n + 1 \in T
  <2> SUFFICES ASSUME NEW q \in Seq(Chunk), Len(q) = n + 1, Others(q)
               PROVE  OnTheWay(q, t) = <<>>
    OBVIOUS
  <2> DEFINE front == SubSeq(q, 1, n)
             m == q[n + 1]
  <2>1. /\ front \in Seq(Chunk) /\ Len(front) = n /\ m \in Chunk /\ m.tid # t
        /\ q = front \o <<m>> /\ <<m>> \in Seq(Chunk)
    OBVIOUS
  <2>2. Others(front)
    OBVIOUS
  <2> HIDE DEF front, m, Others
  <2>3. OnTheWay(front, t) = <<>>
    BY <1>2, <2>1, <2>2
  <2>4. OnTheWay(<<m>>, t) = <<>>
    BY <2>1, WayOfOne DEF Data
  <2>5. OnTheWay(q, t) = OnTheWay(front, t) \o OnTheWay(<<m>>, t)
    <3> DEFINE one == <<m>>
    <3>1. front \in Seq(Chunk) /\ one \in Seq(Chunk) /\ q = front \o one
      BY <2>1
    <3> HIDE DEF one
    <3>2. OnTheWay(front \o one, t) = OnTheWay(front, t) \o OnTheWay(one, t)
      BY <3>1, WayOfTwo
    <3>. QED  BY <3>1, <3>2 DEF one
  <2>6. <<>> \o <<>> = <<>>
    OBVIOUS
  <2>. QED  BY <2>3, <2>4, <2>5, <2>6
<1> HIDE DEF T
<1>3. Nat \subseteq T
  BY <1>1, <1>2, NatIsInductive
<1>4. \A q \in Seq(Chunk) : Len(q) \in T
  BY <1>3
<1> USE DEF T
<1>. QED  BY <1>4

\* Messages of which one is of this thread have what that one has.
LEMMA WayOfSole ==
  ASSUME NEW t, NEW q \in Seq(Chunk), NEW k \in 1..Len(q), q[k].tid = t,
         \A i \in 1..Len(q) : i # k => q[i].tid # t
  PROVE  OnTheWay(q, t) = q[k].data
<1> DEFINE n == Len(q)
           front == SubSeq(q, 1, k - 1)
           rest == SubSeq(q, k + 1, n)
           m == q[k]
<1>1. n \in Nat /\ k \in Nat /\ 1 <= k /\ k <= n
  OBVIOUS
<1>2. front \in Seq(Chunk) /\ Len(front) = k - 1 /\ \A i \in 1..(k - 1) : front[i] = q[i]
  OBVIOUS
<1>3. rest \in Seq(Chunk) /\ Len(rest) = n - k /\ \A i \in 1..(n - k) : rest[i] = q[k + i]
  OBVIOUS
<1>4. m \in Chunk /\ <<m>> \in Seq(Chunk)
  OBVIOUS
<1>5. q = (front \o <<m>>) \o rest
  <2> HIDE DEF front, rest, m, n
  <2>1. front \o <<m>> \in Seq(Chunk) /\ Len(front \o <<m>>) = k /\ (front \o <<m>>)[k] = m
        /\ \A i \in 1..(k - 1) : (front \o <<m>>)[i] = front[i]
    <3>1. front \in Seq(Chunk) /\ Len(front) = k - 1 /\ k \in Nat /\ 1 <= k
      BY <1>1, <1>2
    <3>2. front \o <<m>> = Append(front, m)
      BY <1>4, <3>1, AppendIsConcat
    <3>3. Append(front, m) \in Seq(Chunk) /\ Len(Append(front, m)) = k
      BY <1>4, <3>1, AppendProperties
    <3>4. Append(front, m)[k] = m
      BY <1>4, <3>1, AppendProperties
    <3>5. \A i \in 1..(k - 1) : Append(front, m)[i] = front[i]
      BY <1>4, <3>1, AppendProperties
    <3>. QED  BY <3>2, <3>3, <3>4, <3>5
  <2> DEFINE ab == front \o <<m>>
  <2> HIDE DEF ab
  <2>2. ab \in Seq(Chunk) /\ Len(ab) = k
    BY <2>1 DEF ab
  <2>3. /\ ab \o rest \in Seq(Chunk) /\ Len(ab \o rest) = n
        /\ \A i \in 1..k : (ab \o rest)[i] = ab[i]
        /\ \A i \in (k + 1)..n : (ab \o rest)[i] = rest[i - k]
    <3>1. k + (n - k) = n
      BY <1>1
    <3>2. ab \o rest \in Seq(Chunk) /\ Len(ab \o rest) = n
      <4>1. ab \o rest \in Seq(Chunk) /\ Len(ab \o rest) = Len(ab) + Len(rest)
        BY <1>3, <2>2, ConcatProperties
      <4>2. Len(ab) + Len(rest) = n
        BY <1>1, <1>3, <2>2, <3>1
      <4>. QED  BY <4>1, <4>2
    <3>3. \A i \in 1..n : (ab \o rest)[i] = IF i <= k THEN ab[i] ELSE rest[i - k]
      <4>1. \A i \in 1..(Len(ab) + Len(rest)) :
              (ab \o rest)[i] = IF i <= Len(ab) THEN ab[i] ELSE rest[i - Len(ab)]
        <5>1. ab \in Seq(Chunk) /\ rest \in Seq(Chunk)
          BY <1>3, <2>2
        <5> DEFINE S == Chunk
        <5> HIDE DEF S
        <5>2. ab \in Seq(S) /\ rest \in Seq(S)
          BY <5>1 DEF S
        <5>. QED  BY <5>2, ConcatProperties
      <4>2. Len(ab) = k /\ Len(rest) = n - k
        BY <1>3, <2>2
      <4>. QED  BY <3>1, <4>1, <4>2
    <3>4. \A i \in 1..k : i \in 1..n /\ i <= k
      BY <1>1
    <3>5. \A i \in (k + 1)..n : i \in 1..n /\ ~ (i <= k)
      BY <1>1
    <3>. QED  BY <3>2, <3>3, <3>4, <3>5
  <2>4. \A i \in 1..n : (ab \o rest)[i] = q[i]
    <3> SUFFICES ASSUME NEW i \in 1..n PROVE (ab \o rest)[i] = q[i]
      OBVIOUS
    <3>1. CASE i < k
      <4>1. i \in 1..k /\ i \in 1..(k - 1)
        BY <1>1, <3>1
      <4>. QED  BY <1>2, <2>1, <2>3, <4>1 DEF ab
    <3>2. CASE i = k
      BY <1>1, <2>1, <2>3, <3>2 DEF ab, m
    <3>3. CASE i > k
      <4> DEFINE j == i - k
      <4>1. i \in (k + 1)..n /\ j \in 1..(n - k) /\ k + j = i
        BY <1>1, <3>3
      <4>2. (ab \o rest)[i] = rest[j]
        BY <2>3, <4>1
      <4> HIDE DEF j
      <4>3. rest[j] = q[k + j]
        BY <1>3, <4>1
      <4>4. q[k + j] = q[i]
        BY <4>1, Zenon
      <4>. QED  BY <4>2, <4>3, <4>4, Zenon
    <3>4. i < k \/ i = k \/ i > k
      BY <1>1
    <3>. QED  BY <3>1, <3>2, <3>3, <3>4, Zenon
  <2>5. q \in Seq(Chunk) /\ Len(q) = n
    BY DEF n
  <2>6. q = ab \o rest
    BY <2>3, <2>4, <2>5, SeqEqual
  <2>. QED  BY <2>6 DEF ab
<1>6. OnTheWay(front, t) = <<>>
  <2>1. \A i \in 1..Len(front) : front[i].tid # t
    <3>1. \A i \in 1..(k - 1) : i \in 1..n /\ i # k
      BY <1>1
    <3>. QED  BY <1>2, <3>1
  <2> HIDE DEF front
  <2>. QED  BY <1>2, <2>1, WayOfOthers
<1>7. OnTheWay(rest, t) = <<>>
  <2>1. \A i \in 1..Len(rest) : rest[i].tid # t
    <3>1. \A i \in 1..(n - k) : k + i \in 1..n /\ k + i # k
      BY <1>1
    <3>. QED  BY <1>3, <3>1
  <2> HIDE DEF rest
  <2>. QED  BY <1>3, <2>1, WayOfOthers
<1>8. OnTheWay(<<m>>, t) = m.data /\ m.data \in Seq(LogItem)
  BY <1>4, WayOfOne DEF Data, Chunk
<1> HIDE DEF front, rest, m, n
<1>9. front \o <<m>> \in Seq(Chunk)
  BY <1>2, <1>4
<1>10. OnTheWay(q, t) = (OnTheWay(front, t) \o OnTheWay(<<m>>, t)) \o OnTheWay(rest, t)
  <2>1. OnTheWay(front \o <<m>>, t) = OnTheWay(front, t) \o OnTheWay(<<m>>, t)
    BY <1>2, <1>4, WayOfTwo
  <2> DEFINE fm == front \o <<m>>
  <2> HIDE DEF fm
  <2>2. OnTheWay(fm \o rest, t) = OnTheWay(fm, t) \o OnTheWay(rest, t)
    <3>1. fm \in Seq(Chunk)
      BY <1>9 DEF fm
    <3>. QED  BY <1>3, <3>1, WayOfTwo
  <2>. QED  BY <1>5, <2>1, <2>2 DEF fm
<1>11. (<<>> \o m.data) \o <<>> = m.data
  BY <1>8
<1>12. OnTheWay(q, t) = m.data
  BY <1>6, <1>7, <1>8, <1>10, <1>11
<1>. QED  BY <1>12 DEF m

-----------------------------------------------------------------------------
(* Items *)

\* SetToSeq gives each member of a finite set one place.
LEMMA SetToSeqIs ==
  ASSUME NEW S, IsFiniteSet(S)
  PROVE  /\ Cardinality(S) \in Nat
         /\ SetToSeq(S) \in [1..Cardinality(S) -> S] /\ SetToSeq(S) \in Seq(S)
         /\ Len(SetToSeq(S)) = Cardinality(S)
         /\ \A i, j \in 1..Cardinality(S) : SetToSeq(S)[i] = SetToSeq(S)[j] => i = j
         /\ \A x \in S : \E i \in 1..Cardinality(S) : SetToSeq(S)[i] = x
<1> DEFINE n == Cardinality(S)
           D == 1..n
           f == SetToSeq(S)
<1>1. n \in Nat /\ ExistsBijection(D, S)
  BY FS_CardinalityType
<1>2. f \in [D -> S] /\ IsInjective(f)
  <2>1. \E g \in [D -> S] : IsInjective(g)
    <3> HIDE DEF D
    <3>. QED  BY <1>1 DEF ExistsBijection, Bijection, Injection
  <2>2. f = CHOOSE g \in [D -> S] : IsInjective(g)
    BY DEF SetToSeq
  <2> HIDE DEF f, D
  <2>. QED  BY <2>1, <2>2
<1>3. IsFiniteSet(D) /\ Cardinality(D) = n
  <2>1. Cardinality(1..n) = IF 1 > n THEN 0 ELSE n - 1 + 1
    BY <1>1, FS_Interval
  <2>2. IsFiniteSet(1..n)
    BY <1>1, FS_Interval
  <2>. QED  BY <1>1, <2>1, <2>2
<1> HIDE DEF f, D
<1>4. f \in Injection(D, S)
  BY <1>2 DEF Injection
<1>5. f \in Surjection(D, S)
  BY <1>3, <1>4, FS_Injection
<1>6. \A x \in S : \E i \in D : f[i] = x
  BY <1>5 DEF Surjection
<1>7. \A i, j \in D : f[i] = f[j] => i = j
  BY <1>2 DEF IsInjective
<1>8. f \in Seq(S) /\ Len(f) = n
  BY <1>1, <1>2 DEF D
<1>. QED  BY <1>1, <1>2, <1>6, <1>7, <1>8 DEF f, D

\* The items that show a set of registers.
LEMMA ValuesType ==
  ASSUME NEW registers \in Cpu, NEW regs \in SUBSET Reg
  PROVE  Values(registers, regs) \in Seq(LogItem)
<1>1. IsFiniteSet(regs)
  BY TracerAssumption, FS_Subset
<1>2. \A r \in Reg : Item(r, registers[r]) \in LogItem
  BY DEF Item, LogItem, Cpu
<1> DEFINE f == SetToSeq(regs)
           n == Cardinality(regs)
<1>3. n \in Nat /\ \A i \in 1..n : f[i] \in Reg
  BY <1>1, SetToSeqIs
<1> HIDE DEF f, n
<1>4. \A i \in 1..n : Item(f[i], registers[f[i]]) \in LogItem
  BY <1>2, <1>3
<1> DEFINE v == [i \in 1..n |-> Item(f[i], registers[f[i]])]
<1>5. v \in [1..n -> LogItem]
  BY <1>4
<1> HIDE DEF v
<1>6. v \in Seq(LogItem)
  BY <1>3, <1>5
<1>7. Values(registers, regs) = v
  BY DEF Values, v, f, n
<1>. QED  BY <1>6, <1>7

\* The items of a line.
LEMMA LineType ==
  ASSUME NEW s \in CModule, NEW registers \in Cpu
  PROVE  LineOf(s, registers) \in Seq(LogItem)
<1>1. /\ s.last \in InsnType \cup {NoInsn} /\ s.last_pc \in Nat /\ s.old_cpu_ctx \in Cpu
  BY DEF CModule
<1>2. Item("pc", s.last_pc) \in LogItem /\ Item("mem", s.last_pc) \in LogItem
  BY <1>1 DEF Item, LogItem
<1>4. s.last.inside => s.last.writes \subseteq Reg
  BY <1>1 DEF InsnType, NoInsn
<1> DEFINE regs == IF s.dump_all_regs = 0 THEN s.last.writes ELSE Changed(registers, s.old_cpu_ctx)
           vals == Values(registers, regs)
           pcs == IF ~s.last.inside THEN <<>> ELSE <<Item("pc", s.last_pc)>> \o vals
           mems == IF s.last.mem THEN <<Item("mem", s.last_pc)>> ELSE <<>>
<1>6. s.last.inside => vals \in Seq(LogItem)
  <2>1. s.last.inside => regs \subseteq Reg
    BY <1>4 DEF Changed
  <2> HIDE DEF regs
  <2>. QED  BY <2>1, ValuesType
<1>7. <<>> \in Seq(LogItem) /\ <<Item("pc", s.last_pc)>> \in Seq(LogItem) /\ <<Item("mem", s.last_pc)>> \in Seq(LogItem)
  <2> DEFINE a == Item("pc", s.last_pc)
             b == Item("mem", s.last_pc)
  <2>1. a \in LogItem /\ b \in LogItem
    BY <1>2
  <2> HIDE DEF a, b
  <2>2. <<>> \in Seq(LogItem) /\ <<a>> \in Seq(LogItem) /\ <<b>> \in Seq(LogItem)
    BY <2>1
  <2>. QED  BY <2>2 DEF a, b
<1>8. LineOf(s, registers) = pcs \o mems
  BY DEF LineOf
<1>9. pcs \in Seq(LogItem) /\ mems \in Seq(LogItem)
  <2> HIDE DEF vals
  <2>1. CASE s.last.inside
    <3>1. <<Item("pc", s.last_pc)>> \o vals \in Seq(LogItem)
      BY <1>6, <1>7, <2>1, ConcatProperties
    <3>. QED  BY <1>7, <3>1
  <2>2. CASE ~s.last.inside
    BY <1>7, <2>2
  <2>. QED  BY <2>1, <2>2
<1> HIDE DEF pcs, mems
<1>. QED  BY <1>8, <1>9, ConcatProperties

-----------------------------------------------------------------------------
(* The traced process *)

\* What a step logs of a thread is added behind what the host has not taken.
Adds(t) ==
  \E new \in Seq(LogItem) : /\ Unwritten(t)' = Unwritten(t) \o new
                            /\ logged'[t] = logged[t] \o new

\* The host sees nothing of a step of the process but its messages.
HostSees == /\ UNCHANGED <<options, seen_tids, midline_break, file>>
            /\ lost \subseteq lost'
            /\ \A t \in Thread \ lost' : Adds(t)

\* Items one after the other.
LEMMA Associative ==
  \A a, b, c \in Seq(LogItem) : (a \o b) \o c = a \o (b \o c)
BY ThreeInARow

\* Items and more items are items.
LEMMA ConcatItems ==
  \A a, b \in Seq(LogItem) : a \o b \in Seq(LogItem)
BY ConcatProperties

\* Where the items of a thread are before and after a step.
LEMMA AddsIs ==
  ASSUME ProcessInv, NEW t \in Thread, NEW sent \in Seq(Chunk), NEW new \in Seq(LogItem),
         queue' = queue \o sent, state'[t].trace \in Seq(LogItem),
         OnTheWay(sent, t) \o state'[t].trace = state[t].trace \o new,
         logged'[t] = logged[t] \o new
  PROVE  Adds(t)
<1> DEFINE a == OnTheWay(queue, t)
           b == OnTheWay(sent, t)
           c == state'[t].trace
           d == state[t].trace
<1>1. queue \in Seq(Chunk) /\ d \in Seq(LogItem)
  BY DEF ProcessInv, CModule
<1>2. a \in Seq(LogItem) /\ b \in Seq(LogItem) /\ c \in Seq(LogItem)
  BY <1>1, WayIs
<1>3. OnTheWay(queue', t) = a \o b
  BY <1>1, WayOfTwo
<1>4. Unwritten(t)' = (a \o b) \o c
  BY <1>3 DEF Unwritten
<1>5. Unwritten(t) = a \o d
  BY DEF Unwritten
<1>6. b \o c = d \o new
  OBVIOUS
<1> HIDE DEF a, b, c, d
<1>7. (a \o b) \o c = a \o (b \o c) /\ (a \o d) \o new = a \o (d \o new)
  <2>1. (a \o b) \o c = a \o (b \o c)
    BY <1>2, Associative, Zenon
  <2>2. (a \o d) \o new = a \o (d \o new)
    <3>1. a \in Seq(LogItem) /\ d \in Seq(LogItem) /\ new \in Seq(LogItem)
      BY <1>1, <1>2
    <3>. QED  BY <3>1, Associative, Zenon
  <2>. QED  BY <2>1, <2>2
<1>8. Unwritten(t)' = Unwritten(t) \o new
  BY <1>4, <1>5, <1>6, <1>7
<1>. QED  BY <1>8 DEF Adds

\* A step that sends and logs nothing and leaves the buffer of a thread alone.
LEMMA AddsNothing ==
  ASSUME ProcessInv, NEW t \in Thread, queue' = queue, logged'[t] = logged[t],
         state'[t].trace = state[t].trace
  PROVE  Adds(t)
<1>1. queue \in Seq(Chunk) /\ state[t].trace \in Seq(LogItem) /\ logged[t] \in Seq(LogItem)
  BY DEF ProcessInv, CModule
<1>2. <<>> \in Seq(Chunk) /\ <<>> \in Seq(LogItem)
  OBVIOUS
<1>3. queue' = queue \o <<>> /\ logged'[t] = logged[t] \o <<>>
  BY <1>1
<1>4. OnTheWay(<<>>, t) = <<>>
  <2>1. \A i \in 1..Len(<<>>) : <<>>[i].tid # t
    OBVIOUS
  <2>. QED  BY <1>2, <2>1, WayOfOthers
<1>5. <<>> \o state'[t].trace = state[t].trace \o <<>>
  BY <1>1
<1>. QED  BY <1>1, <1>2, <1>3, <1>4, <1>5, AddsIs

\* A message with the items of a buffer, perhaps after one more, empties it.
LEMMA AddsSent ==
  ASSUME ProcessInv, NEW t \in Thread, NEW new \in Seq(LogItem), NEW u \in Thread,
         queue' = Append(queue, Message(t, state[t].trace \o new)),
         u = t => state'[u].trace = <<>> /\ logged'[u] = logged[u] \o new,
         u # t => state'[u].trace = state[u].trace /\ logged'[u] = logged[u]
  PROVE  queue' \in Seq(Chunk) /\ Adds(u)
<1> DEFINE m == Message(t, state[t].trace \o new)
<1>1. queue \in Seq(Chunk) /\ state[u].trace \in Seq(LogItem) /\ logged[u] \in Seq(LogItem)
      /\ state[t].trace \in Seq(LogItem)
  BY DEF ProcessInv, CModule
<1>2. m \in Chunk /\ m.tid = t /\ m.data = state[t].trace \o new
  <2>1. state[t].trace \o new \in Seq(LogItem)
    BY <1>1, ConcatProperties
  <2>. QED  BY <2>1 DEF Message, Chunk
<1> HIDE DEF m
<1>3. queue' = queue \o <<m>> /\ <<m>> \in Seq(Chunk) /\ queue' \in Seq(Chunk)
  <2>1. queue' = Append(queue, m)
    BY DEF m
  <2>2. Append(queue, m) = queue \o <<m>>
    BY <1>1, <1>2, AppendIsConcat
  <2>3. Append(queue, m) \in Seq(Chunk)
    BY <1>1, <1>2, AppendProperties
  <2>4. <<m>> \in Seq(Chunk)
    BY <1>2
  <2>. QED  BY <2>1, <2>2, <2>3, <2>4
<1>4. OnTheWay(<<m>>, u) = Data(m, u)
  BY <1>2, WayOfOne
<1>5. <<>> \in Seq(LogItem)
  OBVIOUS
<1>6. CASE u = t
  <2>1. OnTheWay(<<m>>, u) = state[u].trace \o new
    BY <1>2, <1>4, <1>6 DEF Data
  <2>2. (state[u].trace \o new) \o <<>> = state[u].trace \o new
    BY <1>1
  <2>3. OnTheWay(<<m>>, u) \o state'[u].trace = state[u].trace \o new
    BY <1>6, <2>1, <2>2
  <2>. QED  BY <1>3, <1>5, <1>6, <2>3, AddsIs
<1>7. CASE u # t
  <2>1. OnTheWay(<<m>>, u) = <<>>
    BY <1>2, <1>4, <1>7 DEF Data
  <2>2. <<>> \o state'[u].trace = state[u].trace \o <<>>
    BY <1>1, <1>7
  <2>3. logged'[u] = logged[u] \o <<>>
    BY <1>1, <1>7
  <2>. QED  BY <1>1, <1>3, <1>5, <1>7, <2>1, <2>2, <2>3, AddsIs
<1>. QED  BY <1>6, <1>7

\* A new module has an empty buffer.
LEMMA NewStateType == NewState \in CModule /\ NewState.trace = <<>>
<1>1. [r \in Reg |-> Zero] \in Cpu
  BY TracerAssumption DEF Cpu
<1>2. <<>> \in Seq(LogItem)
  OBVIOUS
<1>. QED  BY <1>1, <1>2 DEF NewState, CModule, Dump

\* onEnter.
LEMMA EnterKeeps ==
  ASSUME ProcessInv, NEW t \in Thread, OnEnter(t)
  PROVE  ProcessInv' /\ HostSees
<1>1. \A u \in Thread : state'[u] = IF u = t THEN NewState ELSE state[u]
  BY DEF OnEnter, ProcessInv
<1>2. state[t].trace = <<>> /\ NewState.trace = <<>> /\ NewState \in CModule
  BY NewStateType DEF OnEnter, ProcessInv
<1>3. \A u \in Thread : state'[u].trace = state[u].trace
  BY <1>1, <1>2
<1>4. state' \in [Thread -> CModule]
  BY <1>2 DEF OnEnter, ProcessInv
<1>5. \A u \in Thread : Adds(u)
  BY <1>3, AddsNothing DEF OnEnter, hostVars
<1>6. ProcessInv'
  BY <1>3, <1>4 DEF OnEnter, ProcessInv, hostVars
<1>. QED  BY <1>5, <1>6 DEF OnEnter, HostSees, hostVars

\* on_insn begins.
LEMMA LogLineKeeps ==
  ASSUME ProcessInv, NEW t \in Thread, NEW insn \in workload.insns, NEW registers \in Cpu,
         LogLine(t, insn, registers)
  PROVE  ProcessInv' /\ HostSees
<1> DEFINE line == LineOf(state[t], registers)
           after == [state[t] EXCEPT !.trace = @ \o line,
                                     !.dump_all_regs = IF state[t].last.inside THEN 0 ELSE @]
<1>1. /\ state[t] \in CModule /\ state[t].trace \in Seq(LogItem) /\ logged[t] \in Seq(LogItem)
      /\ queue \in Seq(Chunk)
  BY DEF ProcessInv, CModule
<1>2. line \in Seq(LogItem)
  BY <1>1, LineType
<1>3. insn \in InsnType
  BY TracerAssumption DEF ProcessInv, WorkloadType
<1>4. /\ \A u \in Thread : state'[u] = IF u = t THEN after ELSE state[u]
      /\ logged' = [logged EXCEPT ![t] = @ \o line]
      /\ state' = [u \in Thread |-> state'[u]]
  BY DEF LogLine, ProcessInv
<1> HIDE DEF line
<1>5. state[t].trace \o line \in Seq(LogItem) /\ logged[t] \o line \in Seq(LogItem)
  BY <1>1, <1>2, ConcatProperties
<1>6. after \in CModule /\ after.trace = state[t].trace \o line
  <2> DEFINE s == state[t]
             d == IF s.last.inside THEN 0 ELSE s.dump_all_regs
             trace == s.trace \o line
  <2>1. s \in CModule /\ trace \in Seq(LogItem)
    BY <1>1, <1>5
  <2>2. after = [s EXCEPT !.trace = trace, !.dump_all_regs = d]
    OBVIOUS
  <2>3. d \in Dump
    <3>0. 0 \in Dump
      BY DEF Dump
    <3>1. s.dump_all_regs \in Dump
      BY <1>1 DEF CModule
    <3>. QED  BY <3>0, <3>1
  <2> HIDE DEF after, s, d, trace
  <2>4. after = [last |-> s.last, last_pc |-> s.last_pc, dump_all_regs |-> d,
                 old_cpu_ctx |-> s.old_cpu_ctx, trace |-> trace]
    BY <2>1, <2>2 DEF CModule
  <2>5. after.trace = trace
    BY <2>4
  <2>6. /\ s.last \in InsnType \cup {NoInsn} /\ s.last_pc \in Nat /\ s.old_cpu_ctx \in Cpu
    BY <2>1 DEF CModule
  <2>7. after \in CModule
    BY <2>1, <2>3, <2>4, <2>6 DEF CModule
  <2>. QED  BY <2>5, <2>7 DEF trace, s
<1> HIDE DEF after
<1>7. state' \in [Thread -> CModule]
  BY <1>4, <1>6 DEF ProcessInv
<1>8. logged' \in [Thread -> Seq(LogItem)]
  BY <1>4, <1>5 DEF ProcessInv
<1>9. ASSUME NEW u \in Thread
      PROVE  Adds(u)
  <2>1. CASE u # t
    <3>1. state'[u] = state[u] /\ logged'[u] = logged[u] /\ queue' = queue
      BY <1>4, <2>1 DEF ProcessInv, LogLine, hostVars
    <3>. QED  BY <3>1, AddsNothing
  <2>2. CASE u = t
    <3>1. state'[u].trace = state[u].trace \o line /\ logged'[u] = logged[u] \o line /\ queue' = queue
      BY <1>4, <1>6, <2>2 DEF ProcessInv, LogLine, hostVars
    <3>2. queue' = queue \o <<>> /\ <<>> \in Seq(Chunk)
      BY <1>1, <3>1
    <3>3. OnTheWay(<<>>, u) = <<>>
      <4>1. \A i \in 1..Len(<<>>) : <<>>[i].tid # u
        OBVIOUS
      <4>. QED  BY <3>2, <4>1, WayOfOthers
    <3>4. <<>> \o state'[u].trace = state[u].trace \o line
      BY <1>5, <2>2, <3>1
    <3>. QED  BY <1>2, <1>5, <2>2, <3>1, <3>2, <3>3, <3>4, AddsIs
  <2>. QED  BY <2>1, <2>2
<1>10. ProcessInv'
  <2>1. \A u \in Thread : u # t => state'[u] = state[u] /\ pc'[u] = pc[u]
    BY <1>4 DEF ProcessInv, LogLine
  <2>2. pc'[t] = "insn" /\ pc[t] = "run" /\ flushs' = flushs
    BY DEF ProcessInv, LogLine
  <2>3. \A u \in Thread :
          /\ Len(state'[u].trace) < FlushSize \/ pc'[u] = "insn"
          /\ pc'[u] = "out" => state'[u].trace = <<>>
          /\ pc'[u] # "out" => u \in flushs'
    BY <2>1, <2>2 DEF ProcessInv
  <2>4. /\ pc' \in [Thread -> {"out", "run", "insn"}] /\ cpu' \in [Thread -> Cpu]
        /\ at' \in [Thread -> InsnType \cup {NoInsn}] /\ insns' \in [Thread -> Nat]
    BY <1>3 DEF ProcessInv, LogLine
  <2>. QED  BY <1>7, <1>8, <2>3, <2>4 DEF ProcessInv, LogLine, hostVars
<1>. QED  BY <1>9, <1>10 DEF LogLine, HostSees, hostVars

\* What a callout leaves of its module.
LEMMA ContextType ==
  ASSUME NEW s \in CModule, NEW insn, NEW registers \in Cpu
  PROVE  Context(s, insn, registers) \in CModule
<1>1. ASSUME NEW d \in Dump
      PROVE  [s EXCEPT !.dump_all_regs = d, !.old_cpu_ctx = registers] \in CModule
  BY DEF CModule
<1>2. 1 \in Dump /\ 2 \in Dump
  BY DEF Dump
<1>3. /\ [s EXCEPT !.dump_all_regs = 1, !.old_cpu_ctx = registers] \in CModule
      /\ [s EXCEPT !.dump_all_regs = 2, !.old_cpu_ctx = registers] \in CModule
  BY <1>1, <1>2
<1>. QED  BY <1>3 DEF Context

\* on_insn ends.
LEMMA EndOfCalloutKeeps ==
  ASSUME ProcessInv, NEW t \in Thread, EndOfCallout(t)
  PROVE  ProcessInv' /\ HostSees
<1> DEFINE s == state[t]
           end == IF s.last.inside THEN <<NewLine>> ELSE <<>>
           trace == s.trace \o end
           next == [Context(s, at[t], cpu[t]) EXCEPT !.last = at[t], !.last_pc = insns[t]]
           ends == options.end_addr /\ at[t].addr = "end"
           flushes == Len(trace) >= FlushSize \/ ends \/ at[t].addr = "flush"
           after == [next EXCEPT !.trace = IF flushes THEN <<>> ELSE trace]
<1>1. /\ s \in CModule /\ s.trace \in Seq(LogItem) /\ logged[t] \in Seq(LogItem)
      /\ cpu[t] \in Cpu /\ at[t] \in InsnType \cup {NoInsn} /\ insns[t] \in Nat
      /\ queue \in Seq(Chunk)
  BY DEF ProcessInv, CModule
<1>2. end \in Seq(LogItem)
  <2> DEFINE n == NewLine
  <2>1. n \in LogItem
    BY DEF LogItem
  <2> HIDE DEF n
  <2>2. <<n>> \in Seq(LogItem) /\ <<>> \in Seq(LogItem)
    BY <2>1
  <2>. QED  BY <2>2 DEF n
<1>3. /\ state' = [state EXCEPT ![t] = after]
      /\ queue' = IF flushes THEN Append(queue, Message(t, trace)) ELSE queue
      /\ logged' = [logged EXCEPT ![t] = @ \o end]
      /\ pc' = [pc EXCEPT ![t] = IF ends THEN "out" ELSE "run"]
      /\ pc[t] = "insn"
  BY DEF EndOfCallout
<1> HIDE DEF end
<1>4. trace \in Seq(LogItem) /\ logged[t] \o end \in Seq(LogItem)
  BY <1>1, <1>2, ConcatProperties
<1>5. next \in CModule
  <2> DEFINE c == Context(s, at[t], cpu[t])
  <2>1. c \in CModule
    BY <1>1, ContextType
  <2> HIDE DEF c
  <2>2. [c EXCEPT !.last = at[t], !.last_pc = insns[t]] \in CModule
    BY <1>1, <2>1 DEF CModule
  <2>. QED  BY <2>2 DEF c
<1> HIDE DEF next
<1>6. after \in CModule /\ after.trace = IF flushes THEN <<>> ELSE trace
  <2>1. <<>> \in Seq(LogItem)
    OBVIOUS
  <2> HIDE DEF trace, flushes
  <2>. QED  BY <1>4, <1>5, <2>1 DEF CModule
<1>7. ends => flushes
  OBVIOUS
<1>8. ~flushes => Len(trace) < FlushSize
  BY <1>4, TracerAssumption
<1> HIDE DEF after, flushes, ends
<1>9. state' \in [Thread -> CModule] /\ logged' \in [Thread -> Seq(LogItem)]
  BY <1>3, <1>4, <1>6 DEF ProcessInv
<1>10. state'[t] = after /\ logged'[t] = logged[t] \o end
       /\ \A u \in Thread : u # t => state'[u] = state[u] /\ logged'[u] = logged[u] /\ pc'[u] = pc[u]
  BY <1>3 DEF ProcessInv
<1>11. ASSUME NEW u \in Thread
       PROVE  Adds(u) /\ queue' \in Seq(Chunk)
  <2>1. CASE flushes
    <3>1. queue' = Append(queue, Message(t, state[t].trace \o end))
      BY <1>3, <2>1
    <3>2. u = t => state'[u].trace = <<>> /\ logged'[u] = logged[u] \o end
      BY <1>6, <1>10, <2>1
    <3>3. u # t => state'[u].trace = state[u].trace /\ logged'[u] = logged[u]
      BY <1>10
    <3>. QED  BY <1>2, <3>1, <3>2, <3>3, AddsSent
  <2>2. CASE ~flushes /\ u = t
    <3>1. state'[u].trace = state[u].trace \o end /\ logged'[u] = logged[u] \o end /\ queue' = queue
      BY <1>3, <1>6, <1>10, <2>2
    <3>2. queue' = queue \o <<>> /\ <<>> \in Seq(Chunk)
      BY <1>1, <3>1
    <3>3. OnTheWay(<<>>, u) = <<>>
      <4>1. \A i \in 1..Len(<<>>) : <<>>[i].tid # u
        OBVIOUS
      <4>. QED  BY <3>2, <4>1, WayOfOthers
    <3>4. <<>> \o state'[u].trace = state[u].trace \o end /\ state'[u].trace \in Seq(LogItem)
      BY <1>4, <2>2, <3>1
    <3>5. Adds(u)
      BY <1>2, <3>1, <3>2, <3>3, <3>4, AddsIs
    <3>. QED  BY <1>1, <3>1, <3>5
  <2>3. CASE ~flushes /\ u # t
    <3>1. queue' = queue /\ logged'[u] = logged[u] /\ state'[u].trace = state[u].trace
      BY <1>3, <1>10, <2>3
    <3>. QED  BY <1>1, <3>1, AddsNothing
  <2>. QED  BY <2>1, <2>2, <2>3
<1>12. ProcessInv'
  <2>1. queue' \in Seq(Chunk)
    BY <1>11
  <2>2. flushs' = flushs /\ t \in flushs
    BY <1>3 DEF EndOfCallout, ProcessInv
  <2>3. /\ Len(state'[t].trace) < FlushSize
        /\ pc'[t] = "out" => state'[t].trace = <<>>
    <3>1. Len(<<>>) < FlushSize
      BY TracerAssumption
    <3>2. pc'[t] = "out" => ends
      BY <1>3 DEF ProcessInv
    <3>. QED  BY <1>6, <1>7, <1>8, <1>10, <3>1, <3>2
  <2>4. \A u \in Thread :
          /\ Len(state'[u].trace) < FlushSize \/ pc'[u] = "insn"
          /\ pc'[u] = "out" => state'[u].trace = <<>>
          /\ pc'[u] # "out" => u \in flushs'
    BY <1>10, <2>2, <2>3 DEF ProcessInv
  <2>5. pc' \in [Thread -> {"out", "run", "insn"}]
    BY <1>3 DEF ProcessInv
  <2>. QED  BY <1>9, <2>1, <2>4, <2>5 DEF EndOfCallout, ProcessInv
<1>. QED  BY <1>11, <1>12 DEF EndOfCallout, HostSees

\* A buffer that was sent is empty.
LEMMA EmptiedType ==
  \A s \in CModule : [s EXCEPT !.trace = <<>>] \in CModule /\ [s EXCEPT !.trace = <<>>].trace = <<>>
<1>1. <<>> \in Seq(LogItem)
  OBVIOUS
<1>. QED  BY <1>1 DEF CModule

\* onLeave.
LEMMA LeaveKeeps ==
  ASSUME ProcessInv, NEW t \in Thread, OnLeave(t)
  PROVE  ProcessInv' /\ HostSees
<1>1. state[t] \in CModule /\ state[t].trace \in Seq(LogItem) /\ logged[t] \in Seq(LogItem)
  BY DEF ProcessInv, CModule
<1>2. /\ \A u \in Thread : state'[u] = IF u = t THEN [state[t] EXCEPT !.trace = <<>>] ELSE state[u]
      /\ state' = [u \in Thread |-> state'[u]]
  BY DEF OnLeave, ProcessInv
<1>3. state' \in [Thread -> CModule] /\ state'[t].trace = <<>>
  <2>1. [state[t] EXCEPT !.trace = <<>>] \in CModule /\ [state[t] EXCEPT !.trace = <<>>].trace = <<>>
    BY <1>1, EmptiedType
  <2>. QED  BY <1>2, <2>1 DEF ProcessInv
<1>4. /\ queue' = Append(queue, Message(t, state[t].trace)) /\ logged' = logged
      /\ flushs' = flushs \ {t} /\ threadIds' = threadIds \ {t} /\ pc' = [pc EXCEPT ![t] = "out"]
  BY DEF OnLeave, history
<1>5. ASSUME NEW u \in Thread
      PROVE  queue' \in Seq(Chunk) /\ Adds(u)
  <2>1. <<>> \in Seq(LogItem) /\ state[t].trace \o <<>> = state[t].trace
    BY <1>1
  <2>2. queue' = Append(queue, Message(t, state[t].trace \o <<>>))
    BY <1>4, <2>1
  <2>3. logged'[u] = logged[u] \o <<>> /\ logged'[u] = logged[u]
    <3>1. logged[u] \in Seq(LogItem)
      BY DEF ProcessInv
    <3>. QED  BY <1>4, <3>1
  <2>4. u = t => state'[u].trace = <<>> /\ logged'[u] = logged[u] \o <<>>
    BY <1>3, <2>3
  <2>5. u # t => state'[u].trace = state[u].trace /\ logged'[u] = logged[u]
    BY <1>2, <2>3
  <2>. QED  BY <2>1, <2>2, <2>4, <2>5, AddsSent
<1>6. ProcessInv'
  <2>1. \A u \in Thread : u # t => state'[u] = state[u] /\ pc'[u] = pc[u]
    BY <1>2, <1>4 DEF ProcessInv
  <2>2. Len(<<>>) < FlushSize
    BY TracerAssumption
  <2>3. pc'[t] = "out"
    BY <1>4 DEF ProcessInv
  <2>4. \A u \in Thread :
          /\ Len(state'[u].trace) < FlushSize \/ pc'[u] = "insn"
          /\ pc'[u] = "out" => state'[u].trace = <<>>
          /\ pc'[u] # "out" => u \in flushs'
    BY <1>3, <1>4, <2>1, <2>2, <2>3 DEF ProcessInv
  <2>5. queue' \in Seq(Chunk)
    BY <1>5
  <2>6. flushs' \subseteq threadIds' /\ threadIds' \subseteq Thread
    BY <1>4 DEF ProcessInv
  <2>7. pc' \in [Thread -> {"out", "run", "insn"}]
    BY <1>4 DEF ProcessInv
  <2>. QED  BY <1>3, <1>4, <2>4, <2>5, <2>6, <2>7 DEF OnLeave, ProcessInv
<1>. QED  BY <1>5, <1>6 DEF OnLeave, HostSees, history

\* The messages of the exception handler: one for each buffer it has.
LEMMA FlushedIs ==
  ASSUME ProcessInv, NEW kept, kept \subseteq Thread, NEW messages,
         messages = [i \in DOMAIN SetToSeq(kept) |-> Message(SetToSeq(kept)[i], state[SetToSeq(kept)[i]].trace)]
  PROVE  /\ messages \in Seq(Chunk)
         /\ \A t \in Thread : OnTheWay(messages, t) = IF t \in kept THEN state[t].trace ELSE <<>>
<1> DEFINE n == Cardinality(kept)
           l == SetToSeq(kept)
<1>1. IsFiniteSet(kept)
  BY TracerAssumption, FS_Subset
<1>2. /\ n \in Nat /\ l \in [1..n -> kept]
      /\ \A i, j \in 1..n : l[i] = l[j] => i = j
      /\ \A x \in kept : \E i \in 1..n : l[i] = x
  BY <1>1, SetToSeqIs
<1> HIDE DEF n, l
<1>3. messages = [i \in 1..n |-> Message(l[i], state[l[i]].trace)]
  BY <1>2 DEF l
<1>4. \A i \in 1..n : /\ l[i] \in kept /\ messages[i] \in Chunk
                      /\ messages[i].tid = l[i] /\ messages[i].data = state[l[i]].trace
  <2> SUFFICES ASSUME NEW i \in 1..n
               PROVE  /\ l[i] \in kept /\ messages[i] \in Chunk
                      /\ messages[i].tid = l[i] /\ messages[i].data = state[l[i]].trace
    OBVIOUS
  <2> DEFINE t == l[i]
             trace == state[t].trace
  <2>1. t \in kept /\ t \in Thread
    BY <1>2
  <2>2. trace \in Seq(LogItem)
    BY <2>1 DEF ProcessInv, CModule
  <2>3. messages[i] = Message(t, trace)
    BY <1>3
  <2> HIDE DEF t, trace
  <2>4. messages[i] \in Chunk /\ messages[i].tid = t /\ messages[i].data = trace
    BY <2>1, <2>2, <2>3 DEF Message, Chunk
  <2>. QED  BY <2>1, <2>4 DEF t, trace
<1>5. messages \in [1..n -> Chunk]
  BY <1>3, <1>4
<1>6. messages \in Seq(Chunk) /\ Len(messages) = n
  BY <1>2, <1>5, IsASeq
<1>7. ASSUME NEW t \in Thread, t \in kept
      PROVE  OnTheWay(messages, t) = state[t].trace
  <2>1. PICK k \in 1..n : l[k] = t
    BY <1>2, <1>7
  <2>2. k \in 1..Len(messages) /\ messages[k].tid = t /\ messages[k].data = state[t].trace
    BY <1>4, <1>6, <2>1
  <2>3. \A i \in 1..Len(messages) : i # k => messages[i].tid # t
    BY <1>2, <1>4, <1>6, <2>1
  <2>4. OnTheWay(messages, t) = messages[k].data
    BY <1>6, <2>2, <2>3, WayOfSole
  <2>. QED  BY <2>2, <2>4
<1>8. ASSUME NEW t \in Thread, t \notin kept
      PROVE  OnTheWay(messages, t) = <<>>
  <2>1. \A i \in 1..Len(messages) : messages[i].tid # t
    BY <1>4, <1>6, <1>8
  <2>. QED  BY <1>6, <2>1, WayOfOthers
<1>. QED  BY <1>6, <1>7, <1>8

\* The exception handler.
LEMMA ExceptionKeeps ==
  ASSUME ProcessInv, OnException
  PROVE  ProcessInv' /\ HostSees
<1>1. PICK dropped \in SUBSET {t \in flushs : pc[t] = "insn" /\ state[t].trace # <<>>} :
        LET sent == SetToSeq(flushs \ dropped)
        IN  /\ queue' = queue \o [i \in DOMAIN sent |-> Message(sent[i], state[sent[i]].trace)]
            /\ state' = [t \in Thread |-> IF t \in flushs THEN [state[t] EXCEPT !.trace = <<>>]
                                          ELSE state[t]]
            /\ lost' = lost \cup dropped
  BY DEF OnException
<1> DEFINE kept == flushs \ dropped
           messages == [i \in DOMAIN SetToSeq(kept) |->
                          Message(SetToSeq(kept)[i], state[SetToSeq(kept)[i]].trace)]
<1>2. queue' = queue \o messages /\ kept \subseteq Thread /\ kept \subseteq flushs
  BY <1>1 DEF ProcessInv
<1>3. /\ messages \in Seq(Chunk)
      /\ \A t \in Thread : OnTheWay(messages, t) = IF t \in kept THEN state[t].trace ELSE <<>>
  <2> HIDE DEF kept
  <2>. QED  BY <1>2, FlushedIs
<1>4. queue \in Seq(Chunk)
  BY DEF ProcessInv
<1> HIDE DEF messages
<1>5. queue' \in Seq(Chunk)
  BY <1>2, <1>3, <1>4, ConcatProperties
<1>6. \A t \in Thread : state[t] \in CModule /\ state[t].trace \in Seq(LogItem) /\ logged[t] \in Seq(LogItem)
  BY DEF ProcessInv, CModule
<1>7. \A t \in Thread : /\ state'[t] \in CModule
                        /\ state'[t].trace = IF t \in flushs THEN <<>> ELSE state[t].trace
  BY <1>1, <1>6, EmptiedType
<1>8. state' \in [Thread -> CModule]
  <2>1. state' = [t \in Thread |-> state'[t]]
    BY <1>1
  <2>. QED  BY <1>7, <2>1
<1>9. logged' = logged /\ pc' = pc /\ flushs' = flushs /\ lost' = lost \cup dropped
  BY <1>1 DEF OnException
<1>10. ASSUME NEW t \in Thread, t \notin lost'
       PROVE  Adds(t)
  <2>1. t \in flushs => t \in kept
    BY <1>9, <1>10
  <2>2. <<>> \in Seq(LogItem) /\ logged[t] \o <<>> = logged[t]
    <3>1. logged[t] \in Seq(LogItem)
      BY <1>6
    <3>. QED  BY <3>1
  <2>3. logged'[t] = logged[t] \o <<>>
    BY <1>9, <2>2
  <2>4. OnTheWay(messages, t) \o state'[t].trace = state[t].trace \o <<>>
    <3>1. CASE t \in flushs
      BY <1>3, <1>7, <2>1, <3>1
    <3>2. CASE t \notin flushs
      <4>1. OnTheWay(messages, t) = <<>> /\ state'[t].trace = state[t].trace
        BY <1>2, <1>3, <1>7, <3>2
      <4>2. state[t].trace \in Seq(LogItem)
        BY <1>6
      <4>3. <<>> \o state[t].trace = state[t].trace /\ state[t].trace \o <<>> = state[t].trace
        BY <4>2
      <4>. QED  BY <4>1, <4>3
    <3>. QED  BY <3>1, <3>2
  <2>5. state'[t].trace \in Seq(LogItem)
    BY <1>6, <1>7, <2>2
  <2>. QED  BY <1>2, <1>3, <2>2, <2>3, <2>4, <2>5, AddsIs
<1>11. ProcessInv'
  <2>1. Len(<<>>) < FlushSize
    BY TracerAssumption
  <2>2. \A t \in Thread :
          /\ Len(state'[t].trace) < FlushSize \/ pc'[t] = "insn"
          /\ pc'[t] = "out" => state'[t].trace = <<>>
          /\ pc'[t] # "out" => t \in flushs'
    BY <1>7, <1>9, <2>1 DEF ProcessInv
  <2>. QED  BY <1>5, <1>8, <1>9, <2>2 DEF OnException, ProcessInv
<1>. QED  BY <1>9, <1>10, <1>11 DEF OnException, HostSees

\* The process stops, or another module of the model moves.
LEMMA StopKeeps ==
  ASSUME ProcessInv, Stop \/ UNCHANGED vars
  PROVE  ProcessInv' /\ HostSees
<1>1. /\ UNCHANGED <<options, workload, hooked, threadIds, flushs, pc, cpu, at, state, insns, entries,
                     exceptions>>
      /\ UNCHANGED hostVars /\ UNCHANGED history
  BY DEF Stop, vars, processVars
<1>2. \A t \in Thread : Adds(t)
  BY <1>1, AddsNothing DEF hostVars, history
<1>3. ProcessInv'
  BY <1>1 DEF ProcessInv, hostVars, history
<1>. QED  BY <1>1, <1>2, <1>3 DEF HostSees, hostVars, history

\* Every step but that of the host.
LEMMA ProcessStep ==
  ASSUME ProcessInv, [Next]_vars, ~OnMessage
  PROVE  ProcessInv' /\ HostSees
<1>1. CASE \E t \in Thread : OnEnter(t)
  BY <1>1, EnterKeeps
<1>2. CASE \E t \in Thread : EndOfCallout(t)
  BY <1>2, EndOfCalloutKeeps
<1>3. CASE \E t \in Thread : OnLeave(t)
  BY <1>3, LeaveKeeps
<1>4. CASE \E t \in Thread : \E insn \in workload.insns, registers \in Cpu : LogLine(t, insn, registers)
  BY <1>4, LogLineKeeps
<1>5. CASE OnException
  BY <1>5, ExceptionKeeps
<1>6. CASE Stop \/ UNCHANGED vars
  BY <1>6, StopKeeps
<1>. QED  BY <1>1, <1>2, <1>3, <1>4, <1>5, <1>6 DEF Next

-----------------------------------------------------------------------------
(* The host *)

FileItem == [key : {"slide", "newline", "pc", "mem"} \cup Reg, value : Word \cup Nat, comma : BOOLEAN]

\* What the host writes of items.
LEMMA LinesType ==
  /\ \A body \in Seq(LogItem) : Lines(body) \in Seq(FileItem) /\ Len(Lines(body)) = Len(body)
  /\ \A data \in Seq(LogItem), midline \in BOOLEAN :
       Stitch(data, midline) \in Seq(FileItem) /\ Len(Stitch(data, midline)) = Len(data)
  /\ Slide \in Seq(FileItem)
<1>1. \A item \in LogItem, comma \in BOOLEAN : Written(item, comma) \in FileItem
  BY TracerAssumption DEF LogItem, NewLine, Written, FileItem
<1>2. ASSUME NEW body \in Seq(LogItem)
      PROVE  Lines(body) \in Seq(FileItem) /\ Len(Lines(body)) = Len(body)
  <2> DEFINE c == [i \in 1..Len(body) |-> body[i] # NewLine /\ i # 1 /\ body[i - 1] # NewLine]
             f == [i \in 1..Len(body) |-> Written(body[i], c[i])]
  <2>1. \A i \in 1..Len(body) : body[i] \in LogItem /\ c[i] \in BOOLEAN
    OBVIOUS
  <2>2. Len(body) \in Nat /\ DOMAIN body = 1..Len(body)
    OBVIOUS
  <2>3. Lines(body) = f
    BY <2>2 DEF Lines
  <2> HIDE DEF c
  <2>4. f \in [1..Len(body) -> FileItem]
    BY <1>1, <2>1
  <2> HIDE DEF f
  <2>. QED  BY <2>2, <2>3, <2>4, IsASeq
<1>3. ASSUME NEW data \in Seq(LogItem), NEW midline \in BOOLEAN
      PROVE  Stitch(data, midline) \in Seq(FileItem) /\ Len(Stitch(data, midline)) = Len(data)
  <2> DEFINE c == [i \in 1..Len(data) |-> /\ data[i] # NewLine
                                          /\ IF i = 1 THEN midline ELSE data[i - 1] # NewLine]
             f == [i \in 1..Len(data) |-> Written(data[i], c[i])]
  <2>1. \A i \in 1..Len(data) : data[i] \in LogItem /\ c[i] \in BOOLEAN
    OBVIOUS
  <2>2. Len(data) \in Nat /\ DOMAIN data = 1..Len(data)
    OBVIOUS
  <2>3. Stitch(data, midline) = f
    BY <2>2 DEF Stitch
  <2> HIDE DEF c
  <2>4. f \in [1..Len(data) -> FileItem]
    BY <1>1, <2>1
  <2> HIDE DEF f
  <2>. QED  BY <2>2, <2>3, <2>4, IsASeq
<1>4. Slide \in Seq(FileItem)
  <2> DEFINE a == Written(Item("slide", Zero), FALSE)
             b == Written(NewLine, FALSE)
  <2>1. a \in FileItem /\ b \in FileItem
    BY TracerAssumption DEF Written, Item, NewLine, FileItem
  <2>2. Slide = IF options.all THEN <<>> ELSE <<a, b>>
    BY DEF Slide
  <2> HIDE DEF a, b
  <2>3. <<>> \in Seq(FileItem) /\ <<a, b>> \in Seq(FileItem)
    BY <2>1
  <2>. QED  BY <2>2, <2>3
<1>. QED  BY <1>2, <1>3, <1>4

\* A chunk behind what the host has taken: whether it begins with a comma is
\* whether the last one ended in the middle of a line.
LEMMA LinesOfTwo ==
  ASSUME NEW body \in Seq(LogItem), NEW data \in Seq(LogItem)
  PROVE  Lines(body \o data) = Lines(body) \o Stitch(data, Midline(body))
<1> DEFINE n == Len(body)
           k == Len(data)
           both == body \o data
           a == Lines(body)
           b == Stitch(data, Midline(body))
<1>1. n \in Nat /\ k \in Nat /\ DOMAIN body = 1..n /\ DOMAIN data = 1..k
      /\ both \in Seq(LogItem) /\ Len(both) = n + k /\ DOMAIN both = 1..(n + k)
      /\ (body = <<>> <=> n = 0)
  OBVIOUS
<1>2. /\ \A i \in 1..n : both[i] = body[i]
      /\ \A i \in 1..k : both[n + i] = data[i]
  BY ConcatProperties
<1>3. Midline(body) \in BOOLEAN
  BY DEF Midline
<1>4. a \in Seq(FileItem) /\ Len(a) = n /\ b \in Seq(FileItem) /\ Len(b) = k
      /\ Lines(both) \in Seq(FileItem) /\ Len(Lines(both)) = n + k
  BY <1>1, <1>3, LinesType
<1>5. /\ \A i \in 1..n : a[i] = Written(body[i], body[i] # NewLine /\ i # 1 /\ body[i - 1] # NewLine)
      /\ \A i \in 1..k : b[i] = Written(data[i], /\ data[i] # NewLine
                                                 /\ IF i = 1 THEN Midline(body) ELSE data[i - 1] # NewLine)
      /\ \A i \in 1..(n + k) : Lines(both)[i] = Written(both[i], both[i] # NewLine /\ i # 1 /\ both[i - 1] # NewLine)
  BY <1>1 DEF Lines, Stitch
<1>6. n # 0 => body[n] = both[n]
  BY <1>1, <1>2
<1>7. Midline(body) <=> n # 0 /\ both[n] # NewLine
  BY <1>1, <1>6 DEF Midline
<1> HIDE DEF both, a, b, n, k
<1>8. \A i \in 1..n : Lines(both)[i] = a[i]
  <2> SUFFICES ASSUME NEW i \in 1..n PROVE Lines(both)[i] = a[i]
    OBVIOUS
  <2>1. i \in 1..(n + k) /\ (i # 1 => i - 1 \in 1..n)
    BY <1>1
  <2>2. both[i] = body[i] /\ (i # 1 => both[i - 1] = body[i - 1])
    BY <1>2, <2>1
  <2>3. (both[i] # NewLine /\ i # 1 /\ both[i - 1] # NewLine)
        = (body[i] # NewLine /\ i # 1 /\ body[i - 1] # NewLine)
    BY <2>2
  <2>4. /\ a[i] = Written(body[i], body[i] # NewLine /\ i # 1 /\ body[i - 1] # NewLine)
        /\ Lines(both)[i] = Written(both[i], both[i] # NewLine /\ i # 1 /\ both[i - 1] # NewLine)
    BY <1>5, <2>1
  <2>. QED  BY <2>2, <2>3, <2>4, Zenon
<1>9. \A i \in 1..k : Lines(both)[n + i] = b[i]
  <2> SUFFICES ASSUME NEW i \in 1..k PROVE Lines(both)[n + i] = b[i]
    OBVIOUS
  <2>1. n + i \in 1..(n + k) /\ (i # 1 => i - 1 \in 1..k /\ (n + i) - 1 = n + (i - 1))
        /\ (i = 1 => (n + i) - 1 = n) /\ (n + i = 1 <=> i = 1 /\ n = 0)
    BY <1>1
  <2>2. both[n + i] = data[i] /\ (i # 1 => both[(n + i) - 1] = data[i - 1])
        /\ (i = 1 => both[(n + i) - 1] = both[n])
    BY <1>2, <2>1
  <2>3. (both[n + i] # NewLine /\ n + i # 1 /\ both[(n + i) - 1] # NewLine)
        = (data[i] # NewLine /\ IF i = 1 THEN Midline(body) ELSE data[i - 1] # NewLine)
    <3>1. CASE i = 1
      <4>1. both[(n + i) - 1] = both[n] /\ (n + i # 1 <=> n # 0)
        BY <2>1, <2>2, <3>1
      <4>. QED  BY <1>7, <2>2, <3>1, <4>1
    <3>2. CASE i # 1
      BY <2>1, <2>2, <3>2
    <3>. QED  BY <3>1, <3>2
  <2>4. /\ b[i] = Written(data[i], /\ data[i] # NewLine
                                   /\ IF i = 1 THEN Midline(body) ELSE data[i - 1] # NewLine)
        /\ Lines(both)[n + i] = Written(both[n + i], both[n + i] # NewLine /\ n + i # 1
                                                     /\ both[(n + i) - 1] # NewLine)
    BY <1>5, <2>1
  <2>. QED  BY <2>2, <2>3, <2>4, Zenon
<1>10. a \o b \in Seq(FileItem) /\ Len(a \o b) = n + k
       /\ (\A i \in 1..n : (a \o b)[i] = a[i]) /\ \A i \in 1..k : (a \o b)[n + i] = b[i]
  <2> DEFINE S == FileItem
  <2> HIDE DEF S
  <2>1. a \in Seq(S) /\ b \in Seq(S) /\ Len(a) = n /\ Len(b) = k /\ n \in Nat /\ k \in Nat
    BY <1>1, <1>4 DEF S
  <2>2. a \o b \in Seq(S) /\ Len(a \o b) = n + k
    BY <2>1, ConcatProperties
  <2>3. \A i \in 1..n : (a \o b)[i] = a[i]
    BY <2>1, ConcatProperties
  <2>4. \A i \in 1..k : (a \o b)[n + i] = b[i]
    BY <2>1, ConcatProperties
  <2>. QED  BY <2>2, <2>3, <2>4 DEF S
<1>11. \A i \in 1..(n + k) : Lines(both)[i] = (a \o b)[i]
  <2> SUFFICES ASSUME NEW i \in 1..(n + k) PROVE Lines(both)[i] = (a \o b)[i]
    OBVIOUS
  <2>1. i \in 1..n \/ (i - n \in 1..k /\ n + (i - n) = i)
    BY <1>1
  <2>2. CASE i \in 1..n
    BY <1>8, <1>10, <2>2
  <2>3. CASE i - n \in 1..k /\ n + (i - n) = i
    <3>1. Lines(both)[n + (i - n)] = b[i - n] /\ (a \o b)[n + (i - n)] = b[i - n]
      BY <1>9, <1>10, <2>3
    <3>. QED  BY <2>3, <3>1
  <2>. QED  BY <2>1, <2>2, <2>3
<1>12. Lines(both) = a \o b
  BY <1>4, <1>10, <1>11, SeqEqual
<1>. QED  BY <1>12 DEF both, a, b

\* A step of the process leaves what the host has taken as it is.
LEMMA HostKeeps ==
  ASSUME ProcessInv, HostInv, HostSees
  PROVE  HostInv'
<1>1. /\ file' = file /\ seen_tids' = seen_tids /\ midline_break' = midline_break /\ Slide' = Slide
      /\ lost \subseteq lost'
  BY DEF HostSees, Slide
<1>2. ASSUME NEW t \in Thread
      PROVE  \E body \in Seq(LogItem) : Holds(t, body)'
  <2>1. PICK body \in Seq(LogItem) : Holds(t, body)
    BY DEF HostInv
  <2>2. ASSUME t \notin lost'
        PROVE  body \o Unwritten(t)' = logged'[t]
    <3>1. t \notin lost /\ t \in Thread \ lost'
      BY <1>1, <2>2
    <3>2. PICK new \in Seq(LogItem) : /\ Unwritten(t)' = Unwritten(t) \o new
                                      /\ logged'[t] = logged[t] \o new
      BY <3>1 DEF HostSees, Adds
    <3>3. body \o Unwritten(t) = logged[t]
      BY <2>1, <3>1 DEF Holds
    <3>4. Unwritten(t) \in Seq(LogItem)
      <4>1. queue \in Seq(Chunk) /\ state[t].trace \in Seq(LogItem)
        BY DEF ProcessInv, CModule
      <4>2. OnTheWay(queue, t) \in Seq(LogItem)
        BY <4>1, WayIs
      <4>. QED  BY <4>1, <4>2, ConcatItems DEF Unwritten
    <3>5. body \o (Unwritten(t) \o new) = (body \o Unwritten(t)) \o new
      <4> DEFINE u == Unwritten(t)
      <4>1. u \in Seq(LogItem)
        BY <3>4
      <4> HIDE DEF u
      <4>2. body \o (u \o new) = (body \o u) \o new
        BY <4>1, Associative, Zenon
      <4>. QED  BY <4>2 DEF u
    <3>. QED  BY <3>2, <3>3, <3>5
  <2>3. Holds(t, body)'
    BY <1>1, <2>1, <2>2 DEF Holds
  <2>. QED  BY <2>3
<1>3. /\ file' = [t \in Thread |-> file'[t]]
      /\ seen_tids' \subseteq Thread /\ midline_break' \subseteq seen_tids'
  BY <1>1 DEF HostInv
<1>. QED  BY <1>2, <1>3 DEF HostInv

\* The last of a list.
LEMMA LastIs ==
  ASSUME NEW body \in Seq(LogItem), NEW data \in Seq(LogItem), data # <<>>
  PROVE  /\ body \o data \in Seq(LogItem) /\ body \o data # <<>>
         /\ Midline(body \o data) <=> Last(data) # NewLine
<1> DEFINE n == Len(body)
           k == Len(data)
<1>1. n \in Nat /\ k \in Nat /\ k # 0 /\ body \o data \in Seq(LogItem) /\ Len(body \o data) = n + k
  OBVIOUS
<1>2. body \o data # <<>>
  BY <1>1
<1>3. (body \o data)[n + k] = data[k]
  <2>1. k \in 1..k
    BY <1>1
  <2>. QED  BY <1>1, <2>1, ConcatProperties
<1>4. Last(data) = data[k]
  BY DEF Last
<1>. QED  BY <1>1, <1>2, <1>3, <1>4 DEF Midline

\* The first message and the others.
LEMMA QueueIs ==
  ASSUME NEW q \in Seq(Chunk), q # <<>>
  PROVE  /\ Head(q) \in Chunk /\ Tail(q) \in Seq(Chunk)
         /\ \A t \in Thread : OnTheWay(q, t) = Data(Head(q), t) \o OnTheWay(Tail(q), t)
<1>1. Head(q) \in Chunk /\ Tail(q) \in Seq(Chunk) /\ q = <<Head(q)>> \o Tail(q)
  OBVIOUS
<1> DEFINE h == Head(q)
           r == Tail(q)
<1> HIDE DEF h, r
<1>2. h \in Chunk /\ r \in Seq(Chunk) /\ q = <<h>> \o r /\ <<h>> \in Seq(Chunk)
  BY <1>1 DEF h, r
<1>3. ASSUME NEW t \in Thread
      PROVE  OnTheWay(q, t) = Data(h, t) \o OnTheWay(r, t)
  <2>1. OnTheWay(<<h>>, t) = Data(h, t)
    BY <1>2, WayOfOne
  <2>2. OnTheWay(<<h>> \o r, t) = OnTheWay(<<h>>, t) \o OnTheWay(r, t)
    <3> DEFINE one == <<h>>
    <3>1. one \in Seq(Chunk) /\ r \in Seq(Chunk)
      BY <1>2
    <3> HIDE DEF one
    <3>2. OnTheWay(one \o r, t) = OnTheWay(one, t) \o OnTheWay(r, t)
      BY <3>1, WayOfTwo
    <3>. QED  BY <3>2 DEF one
  <2>. QED  BY <1>2, <2>1, <2>2, Zenon
<1>. QED  BY <1>1, <1>3 DEF h, r

\* What the host writes for a chunk of a thread.
LEMMA HostWrites ==
  ASSUME NEW t \in Thread, NEW body \in Seq(LogItem), Holds(t, body), NEW data \in Seq(LogItem), data # <<>>
  PROVE  file[t] \o (IF t \in seen_tids THEN <<>> ELSE Slide) \o Stitch(data, t \in midline_break)
           = Slide \o Lines(body \o data)
<1> DEFINE new == Stitch(data, Midline(body))
           lines == Lines(body)
           slide == Slide
<1>1. new \in Seq(FileItem) /\ lines \in Seq(FileItem) /\ slide \in Seq(FileItem)
  <2>1. Midline(body) \in BOOLEAN
    BY DEF Midline
  <2>. QED  BY <2>1, LinesType
<1>2. (t \in midline_break) = Midline(body)
  BY DEF Holds, Midline
<1>3. Stitch(data, t \in midline_break) = new
  BY <1>2
<1>4. Lines(body \o data) = lines \o new
  BY LinesOfTwo
<1>5. file[t] = IF body = <<>> THEN <<>> ELSE slide \o lines
  BY DEF Holds
<1>6. t \in seen_tids <=> body # <<>>
  BY DEF Holds
<1>7. body = <<>> => lines = <<>>
  <2>1. body = <<>> => Len(lines) = 0
    BY LinesType
  <2> HIDE DEF lines
  <2>. QED  BY <1>1, <2>1
<1> HIDE DEF new, lines, slide
<1> DEFINE Items == Seq(FileItem)
<1>8. /\ \A a \in Items : <<>> \o a = a /\ a \o <<>> = a
      /\ \A a, b \in Items : a \o b \in Items
      /\ \A a, b, c \in Items : (a \o b) \o c = a \o (b \o c)
  <2> DEFINE S == FileItem
  <2>1. \A a \in Seq(S) : <<>> \o a = a /\ a \o <<>> = a
    OBVIOUS
  <2>2. \A a, b \in Seq(S) : a \o b \in Seq(S)
    OBVIOUS
  <2>3. \A a, b, c \in Seq(S) : (a \o b) \o c = a \o (b \o c)
    <3> HIDE DEF S
    <3>. QED  BY ThreeInARow
  <2>. QED  BY <2>1, <2>2, <2>3, Zenon
<1>1a. new \in Items /\ lines \in Items /\ slide \in Items
  BY <1>1
<1> HIDE DEF Items
<1>9. /\ (slide \o lines) \o new = slide \o (lines \o new)
      /\ <<>> \o slide = slide /\ (slide \o lines) \o <<>> = slide \o lines /\ <<>> \o new = new
  BY <1>1a, <1>8, Zenon
<1>10. CASE body = <<>>
  <2>1. file[t] \o (IF t \in seen_tids THEN <<>> ELSE slide) \o new = slide \o new
    BY <1>5, <1>6, <1>9, <1>10
  <2>2. lines \o new = new
    BY <1>7, <1>9, <1>10
  <2>. QED  BY <1>3, <1>4, <2>1, <2>2 DEF slide
<1>11. CASE body # <<>>
  <2>1. file[t] \o (IF t \in seen_tids THEN <<>> ELSE slide) \o new = (slide \o lines) \o new
    BY <1>5, <1>6, <1>9, <1>11
  <2>. QED  BY <1>3, <1>4, <1>9, <2>1 DEF slide
<1>. QED  BY <1>10, <1>11

\* The host handles a message.
LEMMA MessageKeeps ==
  ASSUME TInv, OnMessage
  PROVE  TInv'
<1>0. PICK m : m = Head(queue)
  OBVIOUS
<1> DEFINE tid == m.tid
           data == m.data
<1>1. /\ queue \in Seq(Chunk) /\ queue # <<>> /\ queue' = Tail(queue)
      /\ UNCHANGED processVars /\ UNCHANGED history
  BY DEF OnMessage, TInv, ProcessInv
<1>2. /\ tid \in Thread /\ data \in Seq(LogItem) /\ Tail(queue) \in Seq(Chunk)
      /\ \A t \in Thread : OnTheWay(queue, t) = Data(m, t) \o OnTheWay(queue', t)
  <2>1. /\ m \in Chunk /\ Tail(queue) \in Seq(Chunk)
        /\ \A t \in Thread : OnTheWay(queue, t) = Data(m, t) \o OnTheWay(Tail(queue), t)
    BY <1>0, <1>1, QueueIs
  <2>. QED  BY <1>1, <2>1 DEF Chunk
<1>3. ProcessInv'
  BY <1>1, <1>2 DEF TInv, ProcessInv, processVars, history
<1>4. \A t \in Thread : Data(m, t) = IF t = tid THEN data ELSE <<>>
  BY DEF Data
<1>5. /\ \A t \in Thread : /\ OnTheWay(queue', t) \in Seq(LogItem)
                           /\ state[t].trace \in Seq(LogItem)
      /\ state' = state /\ logged' = logged /\ lost' = lost /\ Slide' = Slide
  <2>1. queue' \in Seq(Chunk)
    BY <1>1, <1>2
  <2>2. \A t \in Thread : OnTheWay(queue', t) \in Seq(LogItem)
    BY <2>1, WayIs
  <2>. QED  BY <1>1, <2>2 DEF TInv, ProcessInv, CModule, processVars, history, Slide
<1>6. \/ data = <<>> /\ UNCHANGED <<seen_tids, midline_break, file>>
      \/ /\ data # <<>>
         /\ file' = [file EXCEPT ![tid] = @ \o (IF tid \in seen_tids THEN <<>> ELSE Slide)
                                            \o Stitch(data, tid \in midline_break)]
         /\ seen_tids' = seen_tids \cup {tid}
         /\ midline_break' = IF Last(data) = NewLine THEN midline_break \ {tid}
                             ELSE midline_break \cup {tid}
  BY <1>0 DEF OnMessage
<1> HIDE DEF tid, data
\* What is on the way: a chunk less.
<1>7. ASSUME NEW t \in Thread, NEW body \in Seq(LogItem)
      PROVE  body \o Unwritten(t) = (body \o (IF t = tid THEN data ELSE <<>>)) \o Unwritten(t)'
  <2> DEFINE d == IF t = tid THEN data ELSE <<>>
             w == OnTheWay(queue', t)
             trace == state[t].trace
  <2>1. d \in Seq(LogItem) /\ w \in Seq(LogItem) /\ trace \in Seq(LogItem)
    <3>1. <<>> \in Seq(LogItem)
      OBVIOUS
    <3>. QED  BY <1>2, <1>5, <3>1
  <2>2. Unwritten(t) = (d \o w) \o trace
    BY <1>2, <1>4 DEF Unwritten
  <2>3. Unwritten(t)' = w \o trace
    BY <1>5 DEF Unwritten
  <2> HIDE DEF d, w, trace
  <2>4. (d \o w) \o trace = d \o (w \o trace) /\ w \o trace \in Seq(LogItem)
    <3>1. (d \o w) \o trace = d \o (w \o trace)
      BY <2>1, Associative, Zenon
    <3>2. w \o trace \in Seq(LogItem)
      BY <2>1, ConcatItems, Zenon
    <3>. QED  BY <3>1, <3>2
  <2> DEFINE r == w \o trace
  <2>5. r \in Seq(LogItem)
    BY <2>4
  <2> HIDE DEF r
  <2>6. body \o (d \o r) = (body \o d) \o r
    BY <2>1, <2>5, Associative, Zenon
  <2>. QED  BY <2>2, <2>3, <2>4, <2>6 DEF r, d
<1>8. ASSUME NEW t \in Thread, NEW body \in Seq(LogItem), Holds(t, body), t # tid \/ data = <<>>
      PROVE  Holds(t, body)'
  <2>1. file'[t] = file[t] /\ (t \in seen_tids' <=> t \in seen_tids)
        /\ (t \in midline_break' <=> t \in midline_break)
    BY <1>2, <1>6, <1>8 DEF TInv, HostInv
  <2>2. body \o (IF t = tid THEN data ELSE <<>>) = body
    BY <1>8
  <2>3. body \o Unwritten(t) = body \o Unwritten(t)'
    BY <1>7, <2>2
  <2>. QED  BY <1>5, <1>8, <2>1, <2>3 DEF Holds
<1>9. ASSUME NEW body \in Seq(LogItem), Holds(tid, body), data # <<>>
      PROVE  body \o data \in Seq(LogItem) /\ Holds(tid, body \o data)'
  <2>1. /\ body \o data \in Seq(LogItem) /\ body \o data # <<>>
        /\ Midline(body \o data) <=> Last(data) # NewLine
    BY <1>2, <1>9, LastIs
  <2>2. file'[tid] = Slide \o Lines(body \o data)
    <3>1. file'[tid] = file[tid] \o (IF tid \in seen_tids THEN <<>> ELSE Slide)
                         \o Stitch(data, tid \in midline_break)
      BY <1>2, <1>6, <1>9 DEF TInv, HostInv
    <3>. QED  BY <1>2, <1>9, <3>1, HostWrites
  <2>3. tid \in seen_tids' /\ (tid \in midline_break' <=> Last(data) # NewLine)
    BY <1>6, <1>9
  <2>4. body \o Unwritten(tid) = (body \o data) \o Unwritten(tid)'
    BY <1>2, <1>7
  <2>5. tid \notin lost' => (body \o data) \o Unwritten(tid)' = logged'[tid]
    BY <1>5, <1>9, <2>4 DEF Holds
  <2>. QED  BY <1>5, <2>1, <2>2, <2>3, <2>5 DEF Holds
<1>10. ASSUME NEW t \in Thread
       PROVE  \E body \in Seq(LogItem) : Holds(t, body)'
  <2>1. PICK body \in Seq(LogItem) : Holds(t, body)
    BY DEF TInv, HostInv
  <2>2. CASE t # tid \/ data = <<>>
    BY <1>8, <2>1, <2>2
  <2>3. CASE t = tid /\ data # <<>>
    BY <1>9, <2>1, <2>3
  <2>. QED  BY <2>2, <2>3
<1>11. /\ file' = [t \in Thread |-> file'[t]]
       /\ seen_tids' \subseteq Thread /\ midline_break' \subseteq seen_tids'
  BY <1>2, <1>6 DEF TInv, HostInv
<1>. QED  BY <1>3, <1>10, <1>11 DEF TInv, HostInv

-----------------------------------------------------------------------------
(* The invariant, and what follows from it *)

LEMMA Initially == Init => TInv
<1> SUFFICES ASSUME Init PROVE TInv
  OBVIOUS
<1>1. /\ NewState \in CModule /\ NewState.trace = <<>> /\ [r \in Reg |-> Zero] \in Cpu
      /\ <<>> \in Seq(Chunk) /\ <<>> \in Seq(LogItem)
  <2>1. [r \in Reg |-> Zero] \in Cpu
    BY TracerAssumption DEF Cpu
  <2>2. <<>> \in Seq(Chunk) /\ <<>> \in Seq(LogItem)
    OBVIOUS
  <2>. QED  BY <2>1, <2>2, NewStateType
<1>2. Len(<<>>) < FlushSize
  BY TracerAssumption
<1>3. ProcessInv
  <2>1. \A t \in Thread : state[t] = NewState /\ pc[t] = "out"
    BY DEF Init
  <2>2. state \in [Thread -> CModule]
    BY <1>1 DEF Init
  <2>3. \A t \in Thread : /\ Len(state[t].trace) < FlushSize \/ pc[t] = "insn"
                          /\ pc[t] = "out" => state[t].trace = <<>>
                          /\ pc[t] # "out" => t \in flushs
    BY <1>1, <1>2, <2>1
  <2>4. /\ pc \in [Thread -> {"out", "run", "insn"}] /\ cpu \in [Thread -> Cpu]
        /\ at \in [Thread -> InsnType \cup {NoInsn}] /\ insns \in [Thread -> Nat]
    BY <1>1 DEF Init
  <2>5. logged \in [Thread -> Seq(LogItem)] /\ queue \in Seq(Chunk)
    BY <1>1 DEF Init
  <2>. QED  BY <2>2, <2>3, <2>4, <2>5 DEF Init, ProcessInv
<1>4. ASSUME NEW t \in Thread
      PROVE  Holds(t, <<>>)
  <2>1. \A i \in 1..Len(<<>>) : <<>>[i].tid # t
    OBVIOUS
  <2>2. OnTheWay(<<>>, t) = <<>>
    BY <1>1, <2>1, WayOfOthers
  <2>3. Unwritten(t) = <<>>
    BY <1>1, <2>2 DEF Unwritten, Init
  <2>4. ~Midline(<<>>)
    BY DEF Midline
  <2>. QED  BY <2>3, <2>4 DEF Init, Holds
<1>5. HostInv
  BY <1>1, <1>4 DEF Init, HostInv
<1>. QED  BY <1>3, <1>5 DEF TInv

LEMMA Invariance == Spec => []TInv
<1>1. TInv /\ [Next]_vars => TInv'
  BY ProcessStep, HostKeeps, MessageKeeps DEF TInv
<1>. QED  BY Initially, <1>1, PTL DEF Spec

\* What is in the file of a thread, item by item.
LEMMA FileIs ==
  ASSUME TInv, NEW t \in Thread, NEW body \in Seq(LogItem), Holds(t, body), body # <<>>
  PROVE  /\ file[t] = Slide \o Lines(body) /\ file[t] # <<>>
         /\ DOMAIN file[t] = 1..(Len(Slide) + Len(body))
         /\ Len(Slide) \in {0, 2} /\ (Len(Slide) = 0 <=> options.all)
         /\ Len(Slide) = 2 => /\ file[t][1] = Written(Item("slide", Zero), FALSE)
                              /\ file[t][2] = Written(NewLine, FALSE)
         /\ \A i \in 1..Len(body) :
              file[t][Len(Slide) + i] = Written(body[i], body[i] # NewLine /\ i # 1 /\ body[i - 1] # NewLine)
<1> DEFINE slide == Slide
           h == Len(slide)
           n == Len(body)
           a == Written(Item("slide", Zero), FALSE)
           b == Written(NewLine, FALSE)
           lines == Lines(body)
<1>1. slide \in Seq(FileItem) /\ lines \in Seq(FileItem) /\ Len(lines) = n
  BY LinesType
<1>2. slide = IF options.all THEN <<>> ELSE <<a, b>>
  BY DEF Slide
<1>3. \A i \in 1..n : lines[i] = Written(body[i], body[i] # NewLine /\ i # 1 /\ body[i - 1] # NewLine)
  BY DEF Lines
<1>4. file[t] = slide \o lines
  BY DEF Holds
<1>5. n \in Nat /\ n # 0
  OBVIOUS
<1> HIDE DEF slide, a, b, n, lines
<1>6. h \in {0, 2} /\ (h = 0 <=> options.all) /\ (h = 2 => slide[1] = a /\ slide[2] = b)
  BY <1>2
<1> DEFINE S == FileItem
<1> HIDE DEF h, S
<1>7. slide \in Seq(S) /\ lines \in Seq(S) /\ Len(slide) = h /\ Len(lines) = n /\ h \in Nat
  BY <1>1, <1>6 DEF S, h
<1>8. slide \o lines \in Seq(S) /\ Len(slide \o lines) = h + n
  BY <1>7, ConcatProperties
<1>9. \A i \in 1..n : (slide \o lines)[h + i] = lines[i]
  BY <1>5, <1>7, ConcatProperties
<1>10. \A i \in 1..h : (slide \o lines)[i] = slide[i]
  BY <1>5, <1>7, ConcatProperties
<1>11. DOMAIN file[t] = 1..(h + n)
  BY <1>4, <1>8
<1>12. file[t] # <<>>
  <2>1. 1 \in 1..(h + n)
    BY <1>5, <1>7
  <2>2. DOMAIN <<>> = {}
    OBVIOUS
  <2>. QED  BY <1>11, <2>1, <2>2, Zenon
<1>13. h = 2 => file[t][1] = a /\ file[t][2] = b
  <2>1. h = 2 => 1 \in 1..h /\ 2 \in 1..h
    OBVIOUS
  <2>. QED  BY <1>4, <1>6, <1>10, <2>1
<1>14. \A i \in 1..n : file[t][h + i] = Written(body[i], body[i] # NewLine /\ i # 1 /\ body[i - 1] # NewLine)
  BY <1>3, <1>4, <1>9
<1>15. file[t] = Slide \o Lines(body)
  BY <1>4 DEF slide, lines
<1>. QED  BY <1>6, <1>11, <1>12, <1>13, <1>14, <1>15 DEF h, slide, n, a, b

LEMMA TInvTypeOK == TInv => TypeOK
<1> SUFFICES ASSUME TInv PROVE TypeOK
  OBVIOUS
<1>1. \A t \in Thread : state[t].dump_all_regs \in 0..2
  <2>1. \A t \in Thread : state[t].dump_all_regs \in Dump
    BY DEF TInv, ProcessInv, CModule
  <2>. QED  BY <2>1 DEF Dump
<1>. QED  BY <1>1 DEF TypeOK, TInv, ProcessInv, HostInv

LEMMA TInvFileIsTheLog == TInv => FileIsTheLog
<1> SUFFICES ASSUME TInv, NEW t \in Thread
             PROVE  LET lines == file[t]
                        items == [i \in DOMAIN lines |-> <<lines[i].key, lines[i].value>>]
                        header == Len(Slide)
                        body == IF lines = <<>> THEN <<>> ELSE SubSeq(items, header + 1, Len(items))
                        sent == body \o OnTheWay(queue, t)
                        ends == {0} \cup {i \in DOMAIN items : items[i] = NewLine}
                    IN  /\ \A i \in DOMAIN lines : lines[i].comma <=> items[i] # NewLine /\ (i - 1) \notin ends
                        /\ t \notin lost => sent \o state[t].trace = logged[t]
                        /\ Cardinality({i \in DOMAIN items : items[i][1] = "slide"})
                             = IF lines = <<>> \/ options.all THEN 0 ELSE 1
  BY DEF FileIsTheLog
<1> DEFINE lines == file[t]
           items == [i \in DOMAIN lines |-> <<lines[i].key, lines[i].value>>]
           header == Len(Slide)
           found == IF lines = <<>> THEN <<>> ELSE SubSeq(items, header + 1, Len(items))
           ends == {0} \cup {i \in DOMAIN items : items[i] = NewLine}
           slides == {i \in DOMAIN items : items[i][1] = "slide"}
<1>1. PICK body \in Seq(LogItem) : Holds(t, body)
  BY DEF TInv, HostInv
<1>2. ASSUME found = body
      PROVE  t \notin lost => (found \o OnTheWay(queue, t)) \o state[t].trace = logged[t]
  <2> DEFINE w == OnTheWay(queue, t)
             trace == state[t].trace
  <2>1. w \in Seq(LogItem) /\ trace \in Seq(LogItem)
    <3>1. queue \in Seq(Chunk) /\ trace \in Seq(LogItem)
      BY DEF TInv, ProcessInv, CModule
    <3>. QED  BY <3>1, WayIs
  <2>2. t \notin lost => body \o (w \o trace) = logged[t]
    BY <1>1 DEF Holds, Unwritten
  <2> HIDE DEF w, trace, found
  <2>3. (body \o w) \o trace = body \o (w \o trace)
    BY <2>1, Associative, Zenon
  <2>. QED  BY <1>2, <2>2, <2>3 DEF w, trace
<1>3. CASE body = <<>>
  <2>1. lines = <<>>
    BY <1>1, <1>3 DEF Holds
  <2>2. DOMAIN lines = {} /\ found = body
    BY <1>3, <2>1
  <2>3. slides = {}
    BY <2>2
  <2>4. Cardinality(slides) = 0
    BY <2>3, FS_EmptySet
  <2>5. \A i \in DOMAIN lines : lines[i].comma <=> items[i] # NewLine /\ (i - 1) \notin ends
    BY <2>2
  <2> HIDE DEF ends, slides, found
  <2>6. t \notin lost => (found \o OnTheWay(queue, t)) \o state[t].trace = logged[t]
    BY <1>2, <2>2
  <2>. QED  BY <2>1, <2>4, <2>5, <2>6 DEF found, ends, slides
<1>4. CASE body # <<>>
  <2> DEFINE n == Len(body)
             c(i) == body[i] # NewLine /\ i # 1 /\ body[i - 1] # NewLine
  <2>1. /\ lines # <<>> /\ DOMAIN lines = 1..(header + n)
        /\ header \in {0, 2} /\ (header = 0 <=> options.all)
        /\ header = 2 => /\ lines[1] = Written(Item("slide", Zero), FALSE)
                         /\ lines[2] = Written(NewLine, FALSE)
        /\ \A i \in 1..n : lines[header + i] = Written(body[i], c(i))
    BY <1>1, <1>4, FileIs
  <2>2. n \in Nat /\ n # 0 /\ header \in Nat /\ \A i \in 1..n : body[i] \in LogItem
    BY <1>4, <2>1
  <2> HIDE DEF header, lines, n
  <2>3. \A i \in 1..n : /\ header + i \in DOMAIN lines
                        /\ lines[header + i].key = body[i][1] /\ lines[header + i].value = body[i][2]
                        /\ lines[header + i].comma = c(i)
    <3> SUFFICES ASSUME NEW i \in 1..n
                 PROVE  /\ header + i \in DOMAIN lines
                        /\ lines[header + i].key = body[i][1] /\ lines[header + i].value = body[i][2]
                        /\ lines[header + i].comma = c(i)
      OBVIOUS
    <3>1. header + i \in DOMAIN lines
      BY <2>1, <2>2
    <3> DEFINE comma == c(i)
               item == body[i]
    <3>2. lines[header + i] = Written(item, comma)
      BY <2>1
    <3> HIDE DEF comma, item
    <3>3. /\ lines[header + i].key = item[1] /\ lines[header + i].value = item[2]
          /\ lines[header + i].comma = comma
      BY <3>2 DEF Written
    <3>. QED  BY <3>1, <3>3 DEF comma, item
  <2>4. \A item \in LogItem : item = <<item[1], item[2]>> /\ item[1] # "slide"
    BY TracerAssumption DEF LogItem, NewLine
  <2>5. \A i \in 1..n : items[header + i] = body[i]
    <3> SUFFICES ASSUME NEW i \in 1..n PROVE items[header + i] = body[i]
      OBVIOUS
    <3>1. items[header + i] = <<lines[header + i].key, lines[header + i].value>>
      BY <2>3
    <3>2. body[i] = <<body[i][1], body[i][2]>>
      BY <2>2, <2>4
    <3>. QED  BY <2>3, <3>1, <3>2
  <2>6. header = 2 => /\ items[1] = <<"slide", Zero>> /\ items[2] = NewLine
                      /\ lines[1].comma = FALSE /\ lines[2].comma = FALSE
    <3>1. header = 2 => 1 \in DOMAIN lines /\ 2 \in DOMAIN lines
      BY <2>1, <2>2
    <3>2. header = 2 => /\ lines[1].key = "slide" /\ lines[1].value = Zero /\ lines[1].comma = FALSE
                        /\ lines[2].key = "newline" /\ lines[2].value = Zero /\ lines[2].comma = FALSE
      BY <2>1 DEF Written, Item, NewLine
    <3>. QED  BY <3>1, <3>2 DEF NewLine
  <2>7. DOMAIN items = 1..(header + n)
    BY <2>1
  <2> HIDE DEF items
  <2>8. found = body
    <3>1. items \in Seq(LogItem \cup {<<"slide", Zero>>}) /\ Len(items) = header + n
      <4>1. \A i \in 1..(header + n) : items[i] \in LogItem \cup {<<"slide", Zero>>}
        <5> SUFFICES ASSUME NEW i \in 1..(header + n) PROVE items[i] \in LogItem \cup {<<"slide", Zero>>}
          OBVIOUS
        <5>1. (i - header \in 1..n /\ header + (i - header) = i) \/ (header = 2 /\ i \in {1, 2})
          BY <2>1, <2>2
        <5>2. CASE i - header \in 1..n /\ header + (i - header) = i
          <6>1. items[header + (i - header)] = body[i - header] /\ body[i - header] \in LogItem
            BY <2>2, <2>5, <5>2
          <6>. QED  BY <5>2, <6>1
        <5>3. CASE header = 2 /\ i \in {1, 2}
          <6>1. NewLine \in LogItem
            BY DEF LogItem
          <6>. QED  BY <2>6, <5>3, <6>1
        <5>. QED  BY <5>1, <5>2, <5>3
      <4> DEFINE T == LogItem \cup {<<"slide", Zero>>}
                 k == header + n
      <4>2. k \in Nat /\ DOMAIN items = 1..k /\ \A i \in 1..k : items[i] \in T
        BY <2>2, <2>7, <4>1
      <4>3. items = [i \in 1..k |-> items[i]]
        BY <2>7 DEF items
      <4> HIDE DEF T, k
      <4>4. items \in [1..k -> T]
        BY <4>2, <4>3
      <4>5. items \in Seq(T) /\ Len(items) = k
        BY <4>2, <4>4, IsASeq
      <4>. QED  BY <4>5 DEF T, k
    <3> DEFINE T == LogItem \cup {<<"slide", Zero>>}
               rest == SubSeq(items, header + 1, header + n)
    <3>2. body \in Seq(T)
      OBVIOUS
    <3>3. items \in Seq(T) /\ Len(items) = header + n
      BY <3>1
    <3> HIDE DEF T
    <3>4. rest \in Seq(T) /\ Len(rest) = n /\ \A i \in 1..n : rest[i] = items[header + i]
      BY <2>2, <3>3
    <3>5. rest = body
      <4>1. Len(body) = n
        BY DEF n
      <4> HIDE DEF rest
      <4>. QED  BY <2>5, <3>2, <3>4, <4>1, SeqEqual
    <3>. QED  BY <2>1, <3>3, <3>5
  <2>9. ASSUME NEW i \in DOMAIN lines
        PROVE  lines[i].comma <=> items[i] # NewLine /\ (i - 1) \notin ends
    <3> DEFINE j == i - header
           InSlide == header = 2 /\ i \in {1, 2}
           IsFirst == j = 1 /\ ((header = 0 /\ i = 1) \/ (header = 2 /\ i = 3))
           Follows == /\ j \in 1..n /\ j # 1 /\ j - 1 \in 1..n /\ header + j = i
                      /\ header + (j - 1) = i - 1 /\ i - 1 \in 1..(header + n) /\ i - 1 # 0
           G == lines[i].comma <=> items[i] # NewLine /\ (i - 1) \notin ends
    <3>1. InSlide \/ IsFirst \/ Follows
      <4>1. i \in 1..(header + n) /\ header \in {0, 2} /\ n \in Nat
        BY <2>1, <2>2
      <4>2. i <= header => InSlide
        <5>1. i >= 1 /\ i \in Int /\ (header = 0 \/ header = 2)
          BY <4>1
        <5>2. i <= header => header = 2
          BY <5>1
        <5>3. i <= header => i = 1 \/ i = 2
          BY <5>1
        <5>. QED  BY <5>2, <5>3
      <4>3. i = header + 1 => IsFirst
        <5>1. header = 0 \/ header = 2
          BY <4>1
        <5>2. header = 0 /\ i = header + 1 => j = 1 /\ i = 1
          OBVIOUS
        <5>3. header = 2 /\ i = header + 1 => j = 1 /\ i = 3
          OBVIOUS
        <5> HIDE DEF j
        <5>. QED  BY <5>1, <5>2, <5>3, Zenon
      <4>4. i > header + 1 => Follows
        BY <4>1
      <4>5. i <= header \/ i = header + 1 \/ i > header + 1
        BY <4>1
      <4> HIDE DEF InSlide, IsFirst, Follows
      <4>. QED  BY <4>2, <4>3, <4>4, <4>5, Zenon
    <3>2. ASSUME InSlide PROVE G
      <4>1. 0 \in ends
        OBVIOUS
      <4>. QED  BY <2>6, <3>2, <4>1
    <3>3. ASSUME IsFirst PROVE G
      <4>1. 1 \in 1..n /\ header + 1 = i
        BY <2>2, <3>3
      <4>2. lines[i].comma = c(1)
        BY <2>3, <4>1
      <4>3. i - 1 \in ends
        <5>1. CASE i = 1
          BY <5>1
        <5>2. CASE header = 2 /\ i = 3
          <6>1. 2 \in DOMAIN items /\ items[2] = NewLine
            BY <2>2, <2>6, <2>7, <5>2
          <6>. QED  BY <5>2, <6>1
        <5>. QED  BY <3>3, <5>1, <5>2
      <4>. QED  BY <4>2, <4>3
    <3>4. ASSUME Follows PROVE G
      <4> HIDE DEF j
      <4>1. lines[i].comma = (body[j] # NewLine /\ j # 1 /\ body[j - 1] # NewLine)
        BY <2>3, <3>4
      <4>2. items[i] = body[j] /\ items[i - 1] = body[j - 1]
        BY <2>5, <3>4
      <4>3. i - 1 \in ends <=> body[j - 1] = NewLine
        BY <2>7, <3>4, <4>2
      <4> HIDE DEF ends
      <4>4. lines[i].comma <=> body[j] # NewLine /\ body[j - 1] # NewLine
        <5> DEFINE x == body[j]
                   y == body[j - 1]
                   z == lines[i].comma
        <5>1. z = (x # NewLine /\ j # 1 /\ y # NewLine) /\ j # 1
          BY <3>4, <4>1
        <5> HIDE DEF x, y, z
        <5>2. z <=> x # NewLine /\ y # NewLine
          BY <5>1
        <5>. QED  BY <5>2 DEF x, y, z
      <4>. QED  BY <4>2, <4>3, <4>4, Zenon
    <3> HIDE DEF InSlide, IsFirst, Follows, G
    <3>5. G
      BY <3>1, <3>2, <3>3, <3>4
    <3>. QED  BY <3>5 DEF G
  <2>10. Cardinality(slides) = IF options.all THEN 0 ELSE 1
    <3>1. ASSUME NEW i \in 1..(header + n)
          PROVE  items[i][1] = "slide" <=> header = 2 /\ i = 1
      <4>1. (i - header \in 1..n /\ header + (i - header) = i /\ ~(header = 2 /\ i = 1))
            \/ (header = 2 /\ i \in {1, 2})
        BY <2>1, <2>2
      <4>2. CASE i - header \in 1..n /\ header + (i - header) = i /\ ~(header = 2 /\ i = 1)
        <5>1. items[header + (i - header)] = body[i - header] /\ body[i - header] \in LogItem
          BY <2>2, <2>5, <4>2
        <5>2. items[i] \in LogItem
          BY <4>2, <5>1
        <5>. QED  BY <2>4, <4>2, <5>2
      <4>3. CASE header = 2 /\ i \in {1, 2}
        <5>1. NewLine[1] # "slide"
          BY DEF NewLine
        <5>. QED  BY <2>6, <4>3, <5>1
      <4>. QED  BY <4>1, <4>2, <4>3
    <3>2. slides = IF options.all THEN {} ELSE {1}
      <4>1. 1 \in 1..(header + n)
        BY <2>2
      <4>. QED  BY <2>1, <2>7, <3>1, <4>1
    <3> HIDE DEF slides
    <3>. QED  BY <3>2, FS_EmptySet, FS_Singleton
  <2>11. t \notin lost => (found \o OnTheWay(queue, t)) \o state[t].trace = logged[t]
    BY <1>2, <2>8
  <2> HIDE DEF ends, slides, found
  <2>. QED  BY <2>1, <2>9, <2>10, <2>11 DEF found, ends, slides, header, lines, items
<1>. QED  BY <1>3, <1>4

-----------------------------------------------------------------------------
(* What a reader of the trace knows *)

\* What a log says at its end of a register.
Known(log, r) ==
  LET shown == {i \in DOMAIN log : log[i][1] = r}
  IN  IF shown = {} THEN Zero ELSE log[Max(shown)][2]

\* A set of numbers with a bound that is not empty has a greatest.
LEMMA Greatest ==
  ASSUME NEW n \in Nat, NEW T \in SUBSET (1..n), T # {}
  PROVE  \E x \in T : \A y \in T : y <= x
<1> DEFINE R == {ss \in Nat \X Nat : ss[1] < ss[2]}
           U == {n - y : y \in T}
<1>1. IsWellFoundedOn(R, Nat)
  BY NatLessThanWellFounded, Zenon DEF OpToRel
<1>2. U \subseteq Nat /\ U # {}
  <2>1. \A y \in T : n - y \in Nat
    OBVIOUS
  <2>. QED  BY <2>1
<1>3. PICK u \in U : \A v \in U : ~ (<<v, u>> \in R)
  <2> HIDE DEF R, U
  <2>. QED  BY <1>1, <1>2, WFMin
<1>4. PICK x \in T : u = n - x
  BY <1>3
<1>5. ASSUME NEW y \in T
      PROVE  y <= x
  <2>1. n - y \in U
    OBVIOUS
  <2>2. ~ (n - y < n - x)
    BY <1>2, <1>3, <1>4, <2>1
  <2>3. x \in Int /\ y \in Int
    OBVIOUS
  <2>. QED  BY <2>2, <2>3
<1>. QED  BY <1>5

\* A log says of a register what the last of its items says.
LEMMA LastShown ==
  ASSUME NEW log \in Seq(LogItem), NEW r, NEW k \in 1..Len(log), log[k][1] = r,
         \A i \in 1..Len(log) : log[i][1] = r => i <= k
  PROVE  Known(log, r) = log[k][2]
<1> DEFINE shown == {i \in DOMAIN log : log[i][1] = r}
<1>1. k \in shown /\ shown \subseteq Int /\ \A i \in shown : i <= k
  OBVIOUS
<1>2. Known(log, r) = log[Max(shown)][2]
  BY <1>1 DEF Known
<1> HIDE DEF shown
<1>3. Max(shown) = k
  <2>1. Max(shown) \in shown /\ \A i \in shown : Max(shown) >= i
    BY <1>1 DEF Max
  <2> DEFINE last == Max(shown)
  <2> HIDE DEF last
  <2>2. last \in shown /\ last >= k
    BY <1>1, <2>1 DEF last
  <2>3. last \in Int /\ k \in Int /\ last <= k
    BY <1>1, <2>2
  <2>4. last = k
    BY <2>2, <2>3
  <2>. QED  BY <2>4 DEF last
<1>. QED  BY <1>2, <1>3

\* A register that a log shows has a last item.
LEMMA ShownLast ==
  ASSUME NEW log \in Seq(LogItem), NEW r, \E i \in 1..Len(log) : log[i][1] = r
  PROVE  \E k \in 1..Len(log) : log[k][1] = r /\ \A i \in 1..Len(log) : log[i][1] = r => i <= k
<1> DEFINE T == {i \in 1..Len(log) : log[i][1] = r}
<1>1. T \in SUBSET (1..Len(log)) /\ T # {} /\ Len(log) \in Nat
  OBVIOUS
<1>2. PICK k \in T : \A i \in T : i <= k
  <2> HIDE DEF T
  <2>. QED  BY <1>1, Greatest
<1>. QED  BY <1>2

\* What a log says of a register after more items: what they say, or what it
\* said before when they do not show the register.
LEMMA KnownAfter ==
  ASSUME NEW log \in Seq(LogItem), NEW line \in Seq(LogItem), NEW r
  PROVE  /\ (\A i \in 1..Len(line) : line[i][1] # r) => Known(log \o line, r) = Known(log, r)
         /\ \A v : (\E i \in 1..Len(line) : line[i][1] = r)
                   /\ (\A i \in 1..Len(line) : line[i][1] = r => line[i][2] = v)
                   => Known(log \o line, r) = v
<1> DEFINE all == log \o line
           m == Len(log)
           n == Len(line)
<1>1. /\ m \in Nat /\ n \in Nat /\ all \in Seq(LogItem) /\ Len(all) = m + n
      /\ \A i \in 1..(m + n) : all[i] = IF i <= m THEN log[i] ELSE line[i - m]
  BY ConcatProperties
<1> HIDE DEF all
<1>2. /\ \A i \in 1..m : i \in 1..(m + n) /\ all[i] = log[i]
      /\ \A i \in 1..n : m + i \in 1..(m + n) /\ all[m + i] = line[i]
      /\ \A i \in 1..(m + n) : i \in 1..m \/ (i - m \in 1..n /\ i = m + (i - m))
  <2> HIDE DEF m, n
  <2>1. ASSUME NEW i \in 1..m
        PROVE  i \in 1..(m + n) /\ all[i] = log[i]
    BY <1>1
  <2>2. ASSUME NEW i \in 1..n
        PROVE  m + i \in 1..(m + n) /\ all[m + i] = line[i]
    <3>1. m + i \in 1..(m + n) /\ ~ (m + i <= m) /\ (m + i) - m = i
      BY <1>1
    <3>. QED  BY <1>1, <3>1
  <2>3. \A i \in 1..(m + n) : i \in 1..m \/ (i - m \in 1..n /\ i = m + (i - m))
    BY <1>1
  <2>. QED  BY <2>1, <2>2, <2>3
<1>3. ASSUME \A i \in 1..n : line[i][1] # r
      PROVE  Known(all, r) = Known(log, r)
  <2>1. \A i \in 1..(m + n) : all[i][1] = r => i \in 1..m /\ log[i][1] = r
    <3> HIDE DEF m, n
    <3>. QED  BY <1>2, <1>3
  <2>2. CASE \E i \in 1..m : log[i][1] = r
    <3>1. PICK k \in 1..m : log[k][1] = r /\ \A i \in 1..m : log[i][1] = r => i <= k
      BY <2>2, ShownLast
    <3>2. Known(log, r) = log[k][2]
      BY <3>1, LastShown
    <3>3. k \in 1..Len(all) /\ all[k] = log[k] /\ \A i \in 1..Len(all) : all[i][1] = r => i <= k
      BY <1>1, <1>2, <2>1, <3>1
    <3>4. Known(all, r) = all[k][2]
      BY <1>1, <3>1, <3>3, LastShown
    <3>. QED  BY <3>2, <3>3, <3>4
  <2>3. CASE ~ \E i \in 1..m : log[i][1] = r
    <3>1. Known(log, r) = Zero
      BY <2>3 DEF Known
    <3>2. ~ \E i \in 1..Len(all) : all[i][1] = r
      BY <1>1, <2>1, <2>3
    <3>3. Known(all, r) = Zero
      BY <1>1, <3>2 DEF Known
    <3>. QED  BY <3>1, <3>3
  <2>. QED  BY <2>2, <2>3
<1>4. ASSUME NEW v, \E i \in 1..n : line[i][1] = r,
             \A i \in 1..n : line[i][1] = r => line[i][2] = v
      PROVE  Known(all, r) = v
  <2>1. PICK k \in 1..n : line[k][1] = r /\ \A i \in 1..n : line[i][1] = r => i <= k
    BY <1>4, ShownLast
  <2>2. m + k \in 1..(m + n) /\ all[m + k] = line[k] /\ line[k][2] = v
    BY <1>2, <1>4, <2>1
  <2>3. ASSUME NEW i \in 1..(m + n), all[i][1] = r
        PROVE  i <= m + k
    <3> HIDE DEF m, n
    <3>1. CASE i \in 1..m
      BY <1>1, <3>1
    <3>2. CASE i - m \in 1..n /\ i = m + (i - m)
      <4>1. line[i - m][1] = r
        BY <1>2, <2>3, <3>2
      <4>2. i - m <= k
        BY <2>1, <3>2, <4>1
      <4>. QED  BY <1>1, <4>2
    <3>. QED  BY <1>2, <3>1, <3>2
  <2>4. Known(all, r) = all[m + k][2]
    <3> DEFINE j == m + k
    <3>1. j \in 1..Len(all) /\ all[j][1] = r /\ \A i \in 1..Len(all) : all[i][1] = r => i <= j
      BY <1>1, <2>1, <2>2, <2>3
    <3> HIDE DEF j
    <3>2. Known(all, r) = all[j][2]
      BY <1>1, <3>1, LastShown
    <3>. QED  BY <3>2 DEF j
  <2>. QED  BY <2>2, <2>4, Zenon
<1>. QED  BY <1>3, <1>4 DEF all

\* An item that is not about a register says nothing of one.
LEMMA KnownAfterOther ==
  ASSUME NEW log \in Seq(LogItem), NEW item \in LogItem, NEW r, item[1] # r
  PROVE  Known(log \o <<item>>, r) = Known(log, r)
<1>1. <<item>> \in Seq(LogItem) /\ \A i \in 1..Len(<<item>>) : <<item>>[i][1] # r
  OBVIOUS
<1>. QED  BY <1>1, KnownAfter

\* The registers that are shown have the values they are shown with; the log
\* says of the others what it did.
LEMMA KnownAfterValues ==
  ASSUME NEW log \in Seq(LogItem), NEW registers \in Cpu, NEW regs \in SUBSET Reg, NEW r \in Reg
  PROVE  Known(log \o Values(registers, regs), r) = IF r \in regs THEN registers[r] ELSE Known(log, r)
<1> DEFINE line == Values(registers, regs)
           f == SetToSeq(regs)
           n == Cardinality(regs)
<1>1. IsFiniteSet(regs)
  BY TracerAssumption, FS_Subset
<1>2. /\ n \in Nat /\ \A i \in 1..n : f[i] \in regs
      /\ \A x \in regs : \E i \in 1..n : f[i] = x
  BY <1>1, SetToSeqIs
<1>3. line \in Seq(LogItem)
  BY ValuesType
<1> HIDE DEF f, n
<1>4. line = [i \in 1..n |-> Item(f[i], registers[f[i]])]
  BY DEF Values, f, n
<1> HIDE DEF line
<1>5. Len(line) = n /\ \A i \in 1..n : line[i][1] = f[i] /\ line[i][2] = registers[f[i]]
  <2>1. Len(line) = n
    BY <1>2, <1>4
  <2>2. \A i \in 1..n : line[i] = <<f[i], registers[f[i]]>>
    BY <1>4 DEF Item
  <2>. QED  BY <2>1, <2>2
<1>6. CASE r \in regs
  <2>1. \E i \in 1..Len(line) : line[i][1] = r
    BY <1>2, <1>5, <1>6
  <2>2. \A i \in 1..Len(line) : line[i][1] = r => line[i][2] = registers[r]
    BY <1>5
  <2>3. Known(log \o line, r) = registers[r]
    <3> DEFINE w == registers[r]
    <3>1. \A i \in 1..Len(line) : line[i][1] = r => line[i][2] = w
      BY <2>2
    <3> HIDE DEF w
    <3>2. Known(log \o line, r) = w
      BY <1>3, <2>1, <3>1, KnownAfter
    <3>. QED  BY <3>2 DEF w
  <2>. QED  BY <1>6, <2>3 DEF line
<1>7. CASE r \notin regs
  <2>1. \A i \in 1..Len(line) : line[i][1] # r
    BY <1>2, <1>5, <1>7
  <2>2. Known(log \o line, r) = Known(log, r)
    BY <1>3, <2>1, KnownAfter
  <2>. QED  BY <1>7, <2>2 DEF line
<1>. QED  BY <1>6, <1>7

\* The registers that the line of the last instruction shows.
Shown(s, registers) ==
  IF ~s.last.inside THEN {}
  ELSE IF s.dump_all_regs = 0 THEN s.last.writes ELSE Changed(registers, s.old_cpu_ctx)

\* What a log says of a register after a line.
LEMMA KnownAfterLine ==
  ASSUME NEW log \in Seq(LogItem), NEW s \in CModule, NEW registers \in Cpu, NEW r \in Reg
  PROVE  Known(log \o LineOf(s, registers), r) =
           IF r \in Shown(s, registers) THEN registers[r] ELSE Known(log, r)
<1> DEFINE a == Item("pc", s.last_pc)
           b == Item("mem", s.last_pc)
           regs == IF s.dump_all_regs = 0 THEN s.last.writes ELSE Changed(registers, s.old_cpu_ctx)
           v == Values(registers, regs)
           mem == IF s.last.mem THEN <<b>> ELSE <<>>
<1>1. a \in LogItem /\ b \in LogItem /\ a[1] # r /\ b[1] # r
  <2>1. s.last_pc \in Nat /\ r \notin {"pc", "mem"}
    BY TracerAssumption DEF CModule
  <2>. QED  BY <2>1 DEF Item, LogItem
<1>2. s.last.inside => regs \in SUBSET Reg
  <2>1. s.last \in InsnType \cup {NoInsn}
    BY DEF CModule
  <2>. QED  BY <2>1 DEF InsnType, NoInsn, Changed
<1> HIDE DEF a, b
<1>3. <<>> \in Seq(LogItem) /\ <<a>> \in Seq(LogItem) /\ <<b>> \in Seq(LogItem)
  BY <1>1
<1>4. mem \in Seq(LogItem)
  BY <1>3
<1>5. ASSUME NEW l \in Seq(LogItem)
      PROVE  Known(l \o mem, r) = Known(l, r)
  <2>1. CASE s.last.mem
    BY <1>1, <2>1, KnownAfterOther
  <2>2. CASE ~s.last.mem
    BY <2>2
  <2>. QED  BY <2>1, <2>2
<1>6. CASE ~s.last.inside
  <2>1. LineOf(s, registers) = <<>> \o mem
    BY <1>6 DEF LineOf, b
  <2> HIDE DEF mem
  <2>2. LineOf(s, registers) = mem
    BY <1>4, <2>1
  <2>. QED  BY <1>5, <1>6, <2>2 DEF Shown
<1>7. CASE s.last.inside
  <2>1. LineOf(s, registers) = (<<a>> \o v) \o mem
    BY <1>7 DEF LineOf, a, b
  <2>2. v \in Seq(LogItem)
    BY <1>2, <1>7, ValuesType
  <2>3. Known((log \o <<a>>) \o v, r) = IF r \in regs THEN registers[r] ELSE Known(log \o <<a>>, r)
    <3> DEFINE l == log \o <<a>>
    <3> HIDE DEF regs
    <3>1. l \in Seq(LogItem) /\ regs \in SUBSET Reg
      BY <1>2, <1>3, <1>7, ConcatItems
    <3> HIDE DEF l
    <3>2. Known(l \o Values(registers, regs), r) = IF r \in regs THEN registers[r] ELSE Known(l, r)
      BY <3>1, KnownAfterValues
    <3>. QED  BY <3>2, Zenon DEF l
  <2>4. Known(log \o <<a>>, r) = Known(log, r)
    BY <1>1, KnownAfterOther
  <2> DEFINE c == <<a>>
  <2> HIDE DEF c, v, mem, regs
  <2>5. c \in Seq(LogItem)
    BY <1>3 DEF c
  <2>6. log \o ((c \o v) \o mem) = ((log \o c) \o v) \o mem /\ (log \o c) \o v \in Seq(LogItem)
    <3>1. (c \o v) \in Seq(LogItem) /\ log \o c \in Seq(LogItem)
      BY <2>2, <2>5, ConcatItems
    <3>2. (log \o c) \o v \in Seq(LogItem)
      BY <2>2, <3>1, ConcatItems
    <3>3. log \o ((c \o v) \o mem) = (log \o (c \o v)) \o mem
      <4> DEFINE cv == c \o v
      <4> HIDE DEF cv
      <4>1. (log \o cv) \o mem = log \o (cv \o mem)
        BY <1>4, <3>1, Associative, Zenon DEF cv
      <4>. QED  BY <4>1, Zenon DEF cv
    <3>4. log \o (c \o v) = (log \o c) \o v
      BY <2>2, <2>5, Associative
    <3>. QED  BY <3>2, <3>3, <3>4, Zenon
  <2>7. Known(((log \o c) \o v) \o mem, r) = Known((log \o c) \o v, r)
    BY <1>5, <2>6
  <2>8. Known(log \o LineOf(s, registers), r) = IF r \in regs THEN registers[r] ELSE Known(log, r)
    BY <2>1, <2>3, <2>4, <2>6, <2>7, Zenon DEF c
  <2>9. Shown(s, registers) = regs
    BY <1>7 DEF Shown, regs
  <2>. QED  BY <2>8, <2>9
<1>. QED  BY <1>6, <1>7

\* What a thread compares its registers with says what the log does, or zero:
\* the registers of the last callout when it lists operands, the snapshot when
\* it looks for changes.  Operands are listed when the last instruction was in
\* the module; after a branch to a register they never are.
Comparable(t) ==
  LET s == state[t]
      d == s.dump_all_regs
  IN  /\ \A r \in Reg \ implicit[t] :
           IF d = 0 THEN cpu[t][r] \in {Zero, Known(logged[t], r)}
           ELSE s.old_cpu_ctx[r] \in {Zero, Known(logged[t], r)}
      /\ pc[t] = "insn" => d = IF s.last.inside THEN 0 ELSE 2
      /\ pc[t] = "run" => IF s.last.inside THEN s.last.call => d # 0 ELSE d = 2

RegistersInv == implicit \in [Thread -> SUBSET Reg] /\ \A t \in Thread : Comparable(t)

\* A step that leaves what a thread compares alone, and at most unfollows it.
LEMMA ComparableStays ==
  ASSUME NEW t \in Thread, Comparable(t),
         implicit'[t] = implicit[t], cpu'[t] = cpu[t], logged'[t] = logged[t],
         state'[t].dump_all_regs = state[t].dump_all_regs,
         state'[t].old_cpu_ctx = state[t].old_cpu_ctx, state'[t].last = state[t].last,
         pc'[t] \in {pc[t], "out"}
  PROVE  Comparable(t)'
BY DEF Comparable

\* onEnter: a new module compares with zeros, and looks for changes.
LEMMA EnterCompares ==
  ASSUME ProcessInv, RegistersInv, NEW t \in Thread, OnEnter(t)
  PROVE  RegistersInv'
<1>1. /\ state' = [state EXCEPT ![t] = NewState] /\ pc' = [pc EXCEPT ![t] = "run"]
      /\ implicit' = [implicit EXCEPT ![t] = {}] /\ cpu' = cpu /\ logged' = logged
  BY DEF OnEnter
<1>2. Comparable(t)'
  <2>1. state'[t] = NewState /\ pc'[t] = "run"
    BY <1>1 DEF ProcessInv
  <2>2. /\ NewState.dump_all_regs = 2 /\ ~NewState.last.inside
        /\ \A r \in Reg : NewState.old_cpu_ctx[r] = Zero
    BY DEF NewState, NoInsn
  <2>. QED  BY <2>1, <2>2 DEF Comparable
<1>3. ASSUME NEW u \in Thread, u # t
      PROVE  Comparable(u)'
  <2>1. state'[u] = state[u] /\ pc'[u] = pc[u] /\ implicit'[u] = implicit[u]
    BY <1>1, <1>3 DEF ProcessInv, RegistersInv
  <2>. QED  BY <1>1, <2>1, ComparableStays DEF RegistersInv
<1>4. implicit' \in [Thread -> SUBSET Reg]
  BY <1>1 DEF RegistersInv
<1>. QED  BY <1>2, <1>3, <1>4 DEF RegistersInv

\* on_insn begins: the log says of the registers what they are.
LEMMA LogLineCompares ==
  ASSUME ProcessInv, RegistersInv, NEW t \in Thread, NEW insn, NEW registers \in Cpu,
         LogLine(t, insn, registers)
  PROVE  RegistersInv'
<1> DEFINE s == state[t]
           line == LineOf(s, registers)
           after == [s EXCEPT !.trace = @ \o line, !.dump_all_regs = IF s.last.inside THEN 0 ELSE @]
<1>1. /\ state' = [state EXCEPT ![t] = after] /\ pc' = [pc EXCEPT ![t] = "insn"] /\ pc[t] = "run"
      /\ implicit' = [implicit EXCEPT ![t] = @ \cup Hidden(t, registers)]
      /\ cpu' = [cpu EXCEPT ![t] = registers] /\ logged' = [logged EXCEPT ![t] = @ \o line]
  BY DEF LogLine
<1>2. s \in CModule /\ cpu[t] \in Cpu /\ logged[t] \in Seq(LogItem)
  BY DEF ProcessInv
<1>3. /\ after.dump_all_regs = (IF s.last.inside THEN 0 ELSE s.dump_all_regs)
      /\ after.old_cpu_ctx = s.old_cpu_ctx /\ after.last = s.last
  <2> HIDE DEF line
  <2>. QED  BY <1>2 DEF CModule
<1>4. Hidden(t, registers) \in SUBSET Reg
  BY DEF Hidden, Changed
<1>5. Comparable(t)
  BY DEF RegistersInv
<1> HIDE DEF after
<1>6. /\ state'[t] = after /\ pc'[t] = "insn" /\ cpu'[t] = registers
      /\ implicit'[t] = implicit[t] \cup Hidden(t, registers) /\ logged'[t] = logged[t] \o line
  BY <1>1 DEF ProcessInv, RegistersInv
<1>7. \A r \in Reg : Known(logged'[t], r) = IF r \in Shown(s, registers) THEN registers[r]
                                            ELSE Known(logged[t], r)
  BY <1>2, <1>6, KnownAfterLine
<1> HIDE DEF line
<1>8. ASSUME s.last.inside
      PROVE  Comparable(t)'
  <2>1. ASSUME NEW r \in Reg \ implicit'[t]
        PROVE  registers[r] \in {Zero, Known(logged'[t], r)}
    <3>1. r \in Reg /\ r \notin implicit[t] /\ r \notin Hidden(t, registers)
      BY <1>6, <2>1
    <3>2. CASE r \in Shown(s, registers)
      BY <1>7, <3>1, <3>2
    <3>3. CASE r \notin Shown(s, registers) /\ s.dump_all_regs = 0
      <4>1. r \notin s.last.writes /\ ~s.last.call
        BY <1>1, <1>5, <1>8, <3>3 DEF Shown, Comparable
      <4>2. registers[r] = cpu[t][r]
        BY <1>8, <3>1, <4>1 DEF Hidden, Changed
      <4>3. cpu[t][r] \in {Zero, Known(logged[t], r)}
        BY <1>5, <3>1, <3>3 DEF Comparable
      <4>. QED  BY <1>7, <3>1, <3>3, <4>2, <4>3
    <3>4. CASE r \notin Shown(s, registers) /\ s.dump_all_regs # 0
      <4>1. registers[r] = s.old_cpu_ctx[r]
        BY <1>8, <3>1, <3>4 DEF Shown, Changed
      <4>2. s.old_cpu_ctx[r] \in {Zero, Known(logged[t], r)}
        BY <1>5, <3>1, <3>4 DEF Comparable
      <4>. QED  BY <1>7, <3>1, <3>4, <4>1, <4>2
    <3>. QED  BY <3>2, <3>3, <3>4
  <2>. QED  BY <1>3, <1>6, <1>8, <2>1 DEF Comparable
<1>9. ASSUME ~s.last.inside
      PROVE  Comparable(t)'
  <2>1. s.dump_all_regs = 2
    BY <1>1, <1>5, <1>9 DEF Comparable
  <2>2. \A r \in Reg : Known(logged'[t], r) = Known(logged[t], r)
    BY <1>7, <1>9 DEF Shown
  <2>3. \A r \in Reg \ implicit[t] : s.old_cpu_ctx[r] \in {Zero, Known(logged[t], r)}
    BY <1>5, <2>1 DEF Comparable
  <2>4. \A r \in Reg \ implicit'[t] : after.old_cpu_ctx[r] \in {Zero, Known(logged'[t], r)}
    BY <1>3, <1>6, <2>2, <2>3
  <2>. QED  BY <1>3, <1>6, <1>9, <2>1, <2>4 DEF Comparable
<1>10. ASSUME NEW u \in Thread, u # t
       PROVE  Comparable(u)'
  <2>1. /\ state'[u] = state[u] /\ pc'[u] = pc[u] /\ implicit'[u] = implicit[u]
        /\ cpu'[u] = cpu[u] /\ logged'[u] = logged[u]
    BY <1>1, <1>10 DEF ProcessInv, RegistersInv
  <2>. QED  BY <2>1, ComparableStays DEF RegistersInv
<1>11. implicit' \in [Thread -> SUBSET Reg]
  BY <1>1, <1>4 DEF RegistersInv
<1>. QED  BY <1>8, <1>9, <1>10, <1>11 DEF RegistersInv

\* What the trace context phase leaves of the snapshot.
LEMMA ContextIs ==
  ASSUME NEW s \in CModule, NEW insn, NEW registers \in Cpu
  PROVE  LET c == Context(s, insn, registers)
             taken == s.dump_all_regs < 2 /\ (~insn.inside \/ insn.call)
         IN  /\ c.dump_all_regs = IF ~taken THEN s.dump_all_regs ELSE IF insn.inside THEN 1 ELSE 2
             /\ c.old_cpu_ctx = IF taken THEN registers ELSE s.old_cpu_ctx
BY DEF Context, CModule

\* on_insn ends: a snapshot is taken of the registers that the log has.
LEMMA EndOfCalloutCompares ==
  ASSUME ProcessInv, RegistersInv, NEW t \in Thread, EndOfCallout(t)
  PROVE  RegistersInv'
<1> DEFINE s == state[t]
           end == IF s.last.inside THEN <<NewLine>> ELSE <<>>
           trace == s.trace \o end
           context == Context(s, at[t], cpu[t])
           next == [context EXCEPT !.last = at[t], !.last_pc = insns[t]]
           ends == options.end_addr /\ at[t].addr = "end"
           flushes == Len(trace) >= FlushSize \/ ends \/ at[t].addr = "flush"
           after == [next EXCEPT !.trace = IF flushes THEN <<>> ELSE trace]
           taken == s.dump_all_regs < 2 /\ (~at[t].inside \/ at[t].call)
<1>1. /\ state' = [state EXCEPT ![t] = after] /\ pc' = [pc EXCEPT ![t] = IF ends THEN "out" ELSE "run"]
      /\ pc[t] = "insn" /\ implicit' = implicit /\ cpu' = cpu
      /\ logged' = [logged EXCEPT ![t] = @ \o end]
  BY DEF EndOfCallout
<1>2. /\ s \in CModule /\ cpu[t] \in Cpu /\ logged[t] \in Seq(LogItem)
      /\ at[t] \in InsnType \cup {NoInsn} /\ insns[t] \in Nat
  BY DEF ProcessInv
<1>3. context \in CModule
  BY <1>2, ContextType
<1>4. /\ context.dump_all_regs = (IF ~taken THEN s.dump_all_regs ELSE IF at[t].inside THEN 1 ELSE 2)
      /\ context.old_cpu_ctx = (IF taken THEN cpu[t] ELSE s.old_cpu_ctx)
  BY <1>2, ContextIs
<1> HIDE DEF context, flushes, trace
<1>5. /\ after.dump_all_regs = context.dump_all_regs /\ after.old_cpu_ctx = context.old_cpu_ctx
      /\ after.last = at[t]
  BY <1>3 DEF CModule
<1> HIDE DEF after, ends
<1>6. /\ state'[t] = after /\ pc'[t] \in {"run", "out"} /\ logged'[t] = logged[t] \o end
  BY <1>1 DEF ProcessInv
<1>7. Comparable(t) /\ s.dump_all_regs = IF s.last.inside THEN 0 ELSE 2
  BY <1>1 DEF RegistersInv, Comparable
<1>8. \A r \in Reg : Known(logged'[t], r) = Known(logged[t], r)
  <2>1. NewLine \in LogItem /\ \A r \in Reg : NewLine[1] # r
    BY TracerAssumption DEF LogItem, NewLine
  <2>2. \A r \in Reg : Known(logged[t] \o <<NewLine>>, r) = Known(logged[t], r)
    <3> DEFINE item == NewLine
    <3> HIDE DEF item
    <3>1. \A r \in Reg : Known(logged[t] \o <<item>>, r) = Known(logged[t], r)
      BY <1>2, <2>1, KnownAfterOther DEF item
    <3>. QED  BY <3>1 DEF item
  <2>3. logged[t] \o <<>> = logged[t]
    BY <1>2
  <2>. QED  BY <1>6, <2>2, <2>3
<1>9. Comparable(t)'
  <2>1. ASSUME NEW r \in Reg \ implicit[t]
        PROVE  IF context.dump_all_regs = 0 THEN cpu[t][r] \in {Zero, Known(logged[t], r)}
               ELSE context.old_cpu_ctx[r] \in {Zero, Known(logged[t], r)}
    <3>1. IF s.dump_all_regs = 0 THEN cpu[t][r] \in {Zero, Known(logged[t], r)}
          ELSE s.old_cpu_ctx[r] \in {Zero, Known(logged[t], r)}
      BY <1>7 DEF Comparable
    <3>2. CASE taken
      <4>1. s.dump_all_regs = 0 /\ context.dump_all_regs # 0 /\ context.old_cpu_ctx = cpu[t]
        BY <1>4, <1>7, <3>2
      <4>. QED  BY <3>1, <4>1
    <3>3. CASE ~taken
      BY <1>4, <3>1, <3>3
    <3>. QED  BY <3>2, <3>3
  <2>2. IF at[t].inside THEN at[t].call => context.dump_all_regs # 0 ELSE context.dump_all_regs = 2
    BY <1>4, <1>7
  <2>3. \A r \in Reg \ implicit'[t] :
          IF after.dump_all_regs = 0 THEN cpu'[t][r] \in {Zero, Known(logged'[t], r)}
          ELSE after.old_cpu_ctx[r] \in {Zero, Known(logged'[t], r)}
    BY <1>1, <1>5, <1>8, <2>1
  <2>. QED  BY <1>5, <1>6, <2>2, <2>3 DEF Comparable
<1>10. ASSUME NEW u \in Thread, u # t
       PROVE  Comparable(u)'
  <2>1. state'[u] = state[u] /\ pc'[u] = pc[u] /\ logged'[u] = logged[u]
    BY <1>1, <1>10 DEF ProcessInv
  <2>. QED  BY <1>1, <2>1, ComparableStays DEF RegistersInv
<1>. QED  BY <1>1, <1>9, <1>10 DEF RegistersInv

\* The other steps compare nothing.
LEMMA OthersCompare ==
  ASSUME ProcessInv, RegistersInv,
         (\E t \in Thread : OnLeave(t)) \/ OnException \/ Stop \/ OnMessage \/ UNCHANGED vars
  PROVE  RegistersInv'
<1>1. implicit' = implicit /\ cpu' = cpu /\ logged' = logged
  BY DEF OnLeave, OnException, Stop, OnMessage, vars, processVars, history
<1>2. \A u \in Thread : state[u] \in CModule
  BY DEF ProcessInv
<1>3. \A s \in CModule : LET e == [s EXCEPT !.trace = <<>>]
                         IN  /\ e.dump_all_regs = s.dump_all_regs /\ e.old_cpu_ctx = s.old_cpu_ctx
                             /\ e.last = s.last
  BY DEF CModule
<1>4. ASSUME NEW u \in Thread
      PROVE  pc'[u] \in {pc[u], "out"} /\ state'[u] \in {state[u], [state[u] EXCEPT !.trace = <<>>]}
  <2>1. CASE \E t \in Thread : OnLeave(t)
    <3>1. PICK t \in Thread : /\ pc' = [pc EXCEPT ![t] = "out"]
                              /\ state' = [state EXCEPT ![t] = [state[t] EXCEPT !.trace = <<>>]]
      BY <2>1 DEF OnLeave
    <3>2. pc'[u] = (IF u = t THEN "out" ELSE pc[u])
      BY <3>1 DEF ProcessInv
    <3>3. state'[u] = (IF u = t THEN [state[u] EXCEPT !.trace = <<>>] ELSE state[u])
      BY <3>1 DEF ProcessInv
    <3>. QED  BY <3>2, <3>3, Zenon
  <2>2. CASE OnException
    BY <2>2 DEF OnException, ProcessInv
  <2>3. CASE Stop \/ OnMessage \/ UNCHANGED vars
    BY <2>3 DEF Stop, OnMessage, vars, processVars
  <2>. QED  BY <2>1, <2>2, <2>3
<1>5. \A u \in Thread : /\ state'[u].dump_all_regs = state[u].dump_all_regs
                        /\ state'[u].old_cpu_ctx = state[u].old_cpu_ctx /\ state'[u].last = state[u].last
  BY <1>2, <1>3, <1>4
<1>6. \A u \in Thread : Comparable(u)'
  BY <1>1, <1>4, <1>5, ComparableStays DEF RegistersInv
<1>. QED  BY <1>1, <1>6 DEF RegistersInv

LEMMA RegistersInvariance == Spec => []RegistersInv
<1>1. Init => RegistersInv
  <2> SUFFICES ASSUME Init
               PROVE  RegistersInv
    OBVIOUS
  <2>1. implicit \in [Thread -> SUBSET Reg]
    BY DEF Init
  <2>2. /\ NewState.dump_all_regs = 2 /\ \A r \in Reg : NewState.old_cpu_ctx[r] = Zero
    BY DEF NewState
  <2>3. \A t \in Thread : state[t] = NewState /\ pc[t] = "out"
    BY DEF Init
  <2>. QED  BY <2>1, <2>2, <2>3 DEF RegistersInv, Comparable
<1>2. ASSUME TInv, RegistersInv, [Next]_vars
      PROVE  RegistersInv'
  <2>1. ProcessInv
    BY <1>2 DEF TInv
  <2>2. CASE \E t \in Thread : OnEnter(t)
    BY <1>2, <2>1, <2>2, EnterCompares
  <2>3. CASE \E t \in Thread : \E insn \in workload.insns, registers \in Cpu : LogLine(t, insn, registers)
    BY <1>2, <2>1, <2>3, LogLineCompares
  <2>4. CASE \E t \in Thread : EndOfCallout(t)
    BY <1>2, <2>1, <2>4, EndOfCalloutCompares
  <2>5. CASE (\E t \in Thread : OnLeave(t)) \/ OnException \/ Stop \/ OnMessage \/ UNCHANGED vars
    BY <1>2, <2>1, <2>5, OthersCompare
  <2>. QED  BY <1>2, <2>2, <2>3, <2>4, <2>5 DEF Next
<1>3. TInv /\ RegistersInv /\ [Next]_vars => RegistersInv'
  BY <1>2
<1>. QED  BY Invariance, <1>1, <1>3, PTL DEF Spec

\* When the line of an instruction is logged the thread has just listed its
\* operands: its registers are what it compares.
LEMMA RegistersInvReplayed == RegistersInv => RegistersAreReplayed
<1> SUFFICES ASSUME RegistersInv, NEW t \in Thread, pc[t] = "insn", state[t].last.inside,
                    NEW r \in Reg \ implicit[t]
             PROVE  cpu[t][r] \in {Zero, Replay(t, r)}
  BY DEF RegistersAreReplayed
<1>1. Replay(t, r) = Known(logged[t], r)
  BY Zenon DEF Replay, Known
<1>2. cpu[t][r] \in {Zero, Known(logged[t], r)}
  BY DEF RegistersInv, Comparable
<1>. QED  BY <1>1, <1>2

-----------------------------------------------------------------------------
(* Theorems *)

\* The trace callouts are well formed: a buffer of a thread that is between
\* two callouts has room left, a thread that is not followed has none that
\* would wait for ever, and one that is followed is known to the exception
\* handler.
THEOREM TracerTypeCorrectness == Spec => []TypeOK
BY Invariance, TInvTypeOK, PTL

\* The file of a thread is what was logged of it, in order, whatever chunks it
\* came in and whenever the process died: with the chunks that are on their
\* way and the buffer it is the whole log, unless the exception handler raced
\* with a callout of the thread; commas stand exactly between the items of a
\* line; and the slide is in the file once.
THEOREM FilesAreTheLog == Spec => []FileIsTheLog
BY Invariance, TInvFileIsTheLog, PTL

\* Whenever the line of an instruction has been logged, a reader of the trace
\* knows every register that the instruction left, through calls that leave the
\* module, returns, and traces of the thread before this one: but a register
\* that some instruction changed without an operand that says so, and one that
\* is zero.
THEOREM ReadersKnowTheRegisters == Spec => []RegistersAreReplayed
BY RegistersInvariance, RegistersInvReplayed, PTL
=============================================================================

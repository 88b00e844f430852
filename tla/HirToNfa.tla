------------------------------ MODULE HirToNfa ------------------------------
(***************************************************************************)
(* The automata of the regex crate, and the NFA of a pattern               *)
(* (regex/src/hir_to_nfa.rs).  States are numbers from 1 on, as a counter  *)
(* gives them; an automaton is its initial and accepting states and its    *)
(* links.  A pattern is a tree of records:                                 *)
(*   [kind |-> "empty"], [kind |-> "literal", bytes], [kind |-> "bytes",   *)
(*   class], [kind |-> "unicode", points], [kind |-> "capture", sub],      *)
(*   [kind |-> "concat", subs], [kind |-> "alternation", subs] and         *)
(*   [kind |-> "repetition", sub, min, max], where max may be Unbounded.   *)
(***************************************************************************)
EXTENDS Integers, Sequences, SequencesExt, FiniteSets

CONSTANTS Epsilon,     \* the symbol of a link that reads nothing
          Unbounded    \* a repetition without maximum

Link(from, to, symbol) == [from |-> from, to |-> to, symbol |-> symbol]

Invert(automaton) ==
  [initial |-> automaton.accept, accept |-> automaton.initial,
   links   |-> {Link(l.to, l.from, l.symbol) : l \in automaton.links}]

\* The links of a class of code points: a point goes on from the states of the
\* point before it as far as their bytes agree.
LinkCodePoint(b, bytes, start, end) ==
  LET common == Len(LongestCommonPrefix({b.bytes, bytes}))
      states == SubSeq(b.states, 1, common)
                  \o [i \in 1..(Len(bytes) - common) |-> (b.counter + i) - 1]
      State(i) == IF i = 0 THEN start ELSE states[i]
  IN  [counter |-> (b.counter + Len(bytes)) - common, bytes |-> bytes, states |-> states,
       links   |-> b.links \cup {Link(State(i - 1), State(i), bytes[i]) : i \in (common + 1)..Len(bytes)}
                           \cup {Link(State(Len(bytes)), end, Epsilon)}]

\* Adds a pattern to the counter and links of nfa: a new start and a new end,
\* and what lies between.  `prev` is the state reached so far.
RECURSIVE RecHirToNfa(_, _)
RecHirToNfa(hir, nfa) ==
  LET start == nfa.counter
      end   == nfa.counter + 1
      open  == [counter |-> nfa.counter + 2, links |-> nfa.links, prev |-> start]
      ToEnd(b) == [b EXCEPT !.links = @ \cup {Link(b.prev, end, Epsilon)}]
      Then(b, sub) ==
        LET item == RecHirToNfa(sub, b)
        IN  [counter |-> item.counter, prev |-> item.end,
             links   |-> item.links \cup {Link(b.prev, item.start, Epsilon)}]
      Byte(b, byte) ==
        [counter |-> b.counter + 1, prev |-> b.counter,
         links   |-> b.links \cup {Link(b.prev, b.counter, byte)}]
      Branch(b, sub) == [ToEnd(Then(b, sub)) EXCEPT !.prev = start]
      Times(Op(_, _), n, b) == FoldLeft(Op, b, [i \in 1..n |-> hir.sub])
      Loop(b) ==
        LET item == RecHirToNfa(hir.sub, b)
        IN  [b EXCEPT !.counter = item.counter,
                      !.links = item.links \cup {Link(b.prev, item.start, Epsilon),
                                                 Link(item.end, item.start, Epsilon),
                                                 Link(item.end, end, Epsilon)}]
      Optional(b, sub) == Then(ToEnd(b), sub)
      built ==
        CASE hir.kind = "empty"       -> ToEnd(open)
          [] hir.kind = "literal"     -> ToEnd(FoldLeft(Byte, open, hir.bytes))
          [] hir.kind = "bytes"       ->
               [open EXCEPT !.links = @ \cup {Link(start, end, byte) : byte \in hir.class}]
          [] hir.kind = "unicode"     ->
               FoldLeft(LAMBDA b, bytes : LinkCodePoint(b, bytes, start, end),
                        [counter |-> open.counter, links |-> open.links, bytes |-> <<>>, states |-> <<>>],
                        hir.points)
          [] hir.kind = "repetition"  ->
               LET least == Times(Then, hir.min, open)
               IN  ToEnd(IF hir.max = Unbounded THEN Loop(least)
                         ELSE Times(Optional, hir.max - hir.min, least))
          [] hir.kind = "capture"     -> ToEnd(Then(open, hir.sub))
          [] hir.kind = "concat"      -> ToEnd(FoldLeft(Then, open, hir.subs))
          [] hir.kind = "alternation" -> FoldLeft(Branch, open, hir.subs)
  IN  [counter |-> built.counter, links |-> built.links, start |-> start, end |-> end]

NfaOf(hir) ==
  LET pair == RecHirToNfa(hir, [counter |-> 1, links |-> {}])
  IN  [initial |-> {pair.start}, accept |-> {pair.end}, links |-> pair.links]

-----------------------------------------------------------------------------
(* Reference *)

Concatenated(A, B, n) == {w \in {a \o b : a \in A, b \in B} : Len(w) <= n}

\* The words of at most n bytes that a pattern stands for.
RECURSIVE Language(_, _)
Language(hir, n) ==
  LET All(subs) == FoldLeft(LAMBDA A, sub : Concatenated(A, Language(sub, n), n), {<<>>}, subs)
      Power(A, k) == FoldLeft(LAMBDA P, B : Concatenated(P, B, n), {<<>>}, [i \in 1..k |-> A])
  IN  {w \in CASE hir.kind = "empty"       -> {<<>>}
               [] hir.kind = "literal"     -> {hir.bytes}
               [] hir.kind = "bytes"       -> {<<byte>> : byte \in hir.class}
               [] hir.kind = "unicode"     -> {hir.points[i] : i \in DOMAIN hir.points}
               [] hir.kind = "repetition"  ->
                    LET item == Language(hir.sub, n)
                        more == item \cup {<<>>}
                    IN  Concatenated(Power(item, hir.min),
                                     Power(more, IF hir.max = Unbounded THEN n ELSE hir.max - hir.min), n)
               [] hir.kind = "capture"     -> Language(hir.sub, n)
               [] hir.kind = "concat"      -> All(hir.subs)
               [] hir.kind = "alternation" -> UNION {Language(hir.subs[i], n) : i \in DOMAIN hir.subs}
       : Len(w) <= n}
=============================================================================

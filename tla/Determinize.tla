---------------------------- MODULE Determinize -----------------------------
(***************************************************************************)
(* The minimal DFA of a pattern (regex/src/determine.rs): the NFA is       *)
(* inverted and determined, and the DFA that comes out of it is inverted   *)
(* and determined once more.  determine_nfa explores sets of states of the *)
(* NFA from a list of work; the order in which its hash sets give them, and *)
(* the symbols of one set, is any.                                         *)
(***************************************************************************)
EXTENDS HirToNfa, Functions

CONSTANTS Hirs,        \* bound: the patterns
          Alphabet,    \* bound: the bytes they are made of
          MaxWord      \* bound: the length of the words they are tried on

VARIABLES
  hir, round,  \* the pattern; 1 and 2, the two calls of determine_nfa, and 3
  call         \* the locals of determine_nfa:
               \*   nfa, what is determined, and dfa, what it becomes;
               \*   counter, state_mapping;
               \*   to_explore, explored, and taken, what is left of the sets
               \*   the outer loop took from to_explore;
               \*   from and to_by_symbol, the set that is explored and its
               \*   links yet to be added

vars == <<hir, round, call>>

-----------------------------------------------------------------------------

\* A mutated NormalizeMultiState that follows a single epsilon link.
NormalizeOnce(automaton, states) ==
  states \cup {l.to : l \in {l \in automaton.links : l.from \in states /\ l.symbol = Epsilon}}

\* The states reached from a set of states without reading.
NormalizeMultiState(automaton, states) ==
  LET Close[reached \in SUBSET Nat] ==
        LET next == {l.to : l \in {l \in automaton.links : l.from \in reached /\ l.symbol = Epsilon}}
        IN  IF next \subseteq reached THEN reached ELSE Close[reached \cup next]
  IN  Close[states]

\* Where the links of a set of states lead to, by symbol.
ToBySymbol(automaton, states) ==
  LET links == {l \in automaton.links : l.from \in states /\ l.symbol # Epsilon}
  IN  [symbol \in {l.symbol : l \in links} |-> {l.to : l \in {k \in links : k.symbol = symbol}}]

\* A mutated MultistateToDfa that gives a set of states a new number each time.
MultistateToDfaAnew(mapping, next, states) == [mapping |-> (states :> next) @@ mapping, counter |-> next + 1]

\* multistate_to_dfa: a set of states keeps the number it has, or gets the next.
MultistateToDfa(mapping, next, states) ==
  IF states \in DOMAIN mapping THEN [mapping |-> mapping, counter |-> next]
  ELSE [mapping |-> mapping @@ (states :> next), counter |-> next + 1]

\* The accepting states: the numbers of the sets that have one.
Accepting(automaton, mapping) ==
  {mapping[m] : m \in {m \in DOMAIN mapping : m \cap automaton.accept # {}}}

\* determine_nfa begins: the initial set is numbered, and is all there is to
\* explore.
Determine(automaton) ==
  LET initial == NormalizeMultiState(automaton, automaton.initial)
      mapping == initial :> 1
  IN  [nfa |-> automaton, counter |-> 2, state_mapping |-> mapping,
       dfa |-> [initial |-> {1}, accept |-> Accepting(automaton, mapping), links |-> {}],
       to_explore |-> {initial}, explored |-> {initial}, taken |-> {},
       from |-> {}, to_by_symbol |-> <<>>]

\* A mutated Init that determines the NFA once and does not minimize.
InitOnce == hir \in Hirs /\ round = 2 /\ call = Determine(NfaOf(hir))

Init == hir \in Hirs /\ round = 1 /\ call = Determine(Invert(NfaOf(hir)))

Idle == DOMAIN call.to_by_symbol = {}

\* The outer loop takes the sets found since it last did.
Take ==
  /\ round < 3 /\ Idle /\ call.taken = {} /\ call.to_explore # {}
  /\ call' = [call EXCEPT !.taken = call.to_explore, !.to_explore = {}]
  /\ UNCHANGED <<hir, round>>

\* One of them, and its links by symbol.
Explore ==
  /\ Idle
  /\ \E m \in call.taken :
       call' = [call EXCEPT !.from = m, !.taken = @ \ {m}, !.to_by_symbol = ToBySymbol(call.nfa, m)]
  /\ UNCHANGED <<hir, round>>

\* One symbol: the set it leads to is numbered and linked, and explored later
\* unless it has been found before.
Follow(symbol) ==
  /\ LET to == NormalizeMultiState(call.nfa, call.to_by_symbol[symbol])
         numbered == MultistateToDfa(call.state_mapping, call.counter, to)
         link == Link(call.state_mapping[call.from], numbered.mapping[to], symbol)
     IN  call' = [call EXCEPT
           !.counter = numbered.counter, !.state_mapping = numbered.mapping,
           !.dfa = [@ EXCEPT !.accept = @ \cup Accepting(call.nfa, numbered.mapping),
                             !.links = @ \cup {link}],
           !.explored = @ \cup {to},
           !.to_explore = @ \cup ({to} \ call.explored),
           !.to_by_symbol = Restrict(@, DOMAIN @ \ {symbol})]
  /\ UNCHANGED <<hir, round>>

\* determine_nfa returns: the first DFA is inverted and determined in turn.
Return ==
  /\ round < 3 /\ Idle /\ call.taken = {} /\ call.to_explore = {}
  /\ round' = round + 1
  /\ call' = IF round = 1 THEN Determine(Invert(call.dfa)) ELSE call
  /\ UNCHANGED hir

Next == Take \/ Explore \/ (\E symbol \in DOMAIN call.to_by_symbol : Follow(symbol)) \/ Return

Spec == Init /\ [][Next]_vars

-----------------------------------------------------------------------------

\* execute_dfa: the length of the first prefix that is accepted, in a set, or
\* nothing.  The state moves along the first link with the next byte.
ExecuteDfa(automaton, haystack) ==
  LET Run[i \in 0..Len(haystack), s \in Nat] ==
        LET next == {l.to : l \in {l \in automaton.links : l.from = s /\ l.symbol = haystack[i + 1]}}
        IN  IF s \in automaton.accept THEN {i}
            ELSE IF i = Len(haystack) \/ next = {} THEN {}
            ELSE Run[i + 1, CHOOSE n \in next : TRUE]
  IN  UNION {Run[0, s] : s \in automaton.initial}

(* Properties *)

States(automaton) ==
  automaton.initial \cup automaton.accept \cup UNION {{l.from, l.to} : l \in automaton.links}

\* The numbers are those the counter gave, one for each set of states; a set is
\* left out by nobody and listed twice by nobody; the DFA is deterministic at
\* every step and has the one initial state that initial_state asserts.
TypeOK ==
  /\ Range(call.state_mapping) = 1..(call.counter - 1) /\ IsInjective(call.state_mapping)
  /\ call.explored = DOMAIN call.state_mapping
  /\ call.to_explore \cup call.taken \subseteq call.explored /\ call.to_explore \cap call.taken = {}
  /\ Cardinality(call.dfa.initial) = 1 /\ States(call.dfa) \subseteq 1..(call.counter - 1)
  /\ \A k, l \in call.dfa.links : k.from = l.from /\ k.symbol = l.symbol => k = l

\* The DFA finds in a haystack what the pattern stands for: the first prefix
\* that is one of its words, and nothing when no prefix is.
AcceptsThePattern ==
  round = 3 =>
    LET words == Language(hir, MaxWord)
    IN  \A haystack \in BoundedSeq(Alphabet, MaxWord) :
          LET matches == {i \in 0..Len(haystack) : SubSeq(haystack, 1, i) \in words}
          IN  ExecuteDfa(call.dfa, haystack) = {i \in matches : \A j \in matches : i <= j}

\* "Create minimal DFA": no two states of it accept the same words, and a state
\* that accepts none is the only one.
IsMinimal ==
  round = 3 =>
    LET Step(states, byte) == {l.to : l \in {l \in call.dfa.links : l.from \in states /\ l.symbol = byte}}
        Accepted(s) == {w \in BoundedSeq(Alphabet, MaxWord) : FoldLeft(Step, {s}, w) \cap call.dfa.accept # {}}
    IN  /\ \A s, t \in States(call.dfa) : Accepted(s) = Accepted(t) => s = t
        /\ \A s \in States(call.dfa) : Accepted(s) = {} => States(call.dfa) = {s}
=============================================================================

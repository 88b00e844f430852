---------------------------- MODULE RegexSearch -----------------------------
(***************************************************************************)
(* search_hir (crates/db/src/search.rs): the pattern is compiled to a      *)
(* minimal DFA (crates/regex) and the DFA is searched in every zone.  Each *)
(* part is checked where they meet: what is found is what the pattern      *)
(* stands for, not only what its DFA accepts.                              *)
(***************************************************************************)
EXTENDS HirToNfa, FiniteSets, Bags

CONSTANTS Hirs, Alphabet, MaxWord,    \* bounds of Determinize
          Jobs,                       \* bound: the patterns and where they are searched
          NoDfa, Tip                  \* of Search

VARIABLES hir, round, call,   \* the compiler
          db, dfa, zone, found, phase, todo, sender, channel, collector,
          chain_starts, ordered_chains, tasks, results   \* the search

C == INSTANCE Determinize
S == INSTANCE Search

compilerVars == <<hir, round, call>>
searchVars == <<db, dfa, zone, found, phase, todo, sender, channel, collector,
                chain_starts, ordered_chains, tasks, results>>
vars == <<compilerVars, searchVars>>

ASSUME PatternsAssumption == Epsilon \notin Alphabet /\ MaxWord \in Nat

\* No memory is longer than the words that patterns are compared on.
ASSUME JobsAssumption ==
  \A job \in Jobs : /\ job.hir \in Hirs
                    /\ \A leaves \in Range(job.db) :
                         Cardinality(UNION {S!Addrs(l) : l \in leaves}) <= MaxWord

Init == C!Init /\ S!Init

\* The links of the DFA by state and symbol.
TransitionTable(automaton) ==
  [key \in {<<l.from, l.symbol>> : l \in automaton.links} |->
     (CHOOSE l \in automaton.links : <<l.from, l.symbol>> = key).to]

\* search_hir has compiled the pattern and goes on to the database.
Compiled ==
  /\ round = 3 /\ phase = "compile"
  /\ \E state \in call.dfa.initial, job \in {j \in Jobs : j.hir = hir} :
       S!Begin([initial |-> state, accept |-> call.dfa.accept, table |-> TransitionTable(call.dfa)],
               job.db)
  /\ UNCHANGED compilerVars

Next == \/ C!Next /\ UNCHANGED searchVars
        \/ Compiled
        \/ S!Next /\ UNCHANGED compilerVars

\* Every loop goes on; threads of a scope and tasks of the pool run until they end.
Spec == Init /\ [][Next]_vars /\ WF_vars(Next)

-----------------------------------------------------------------------------
(* What is in memory *)

Leaves == UNION Range(db)

\* The bytes in memory from an address on, up to the first that is unknown.
Memory(addr, time) ==
  LET From[a \in Nat] ==
        IF S!ByteAt(Leaves, a, time) = {} THEN <<>>
        ELSE <<CHOOSE b \in S!ByteAt(Leaves, a, time) : TRUE>> \o From[a + 1]
  IN  From[addr]

\* The words of the patterns.
Words == [h \in Hirs |-> Language(h, MaxWord)]

\* The first address at which a word that begins at an address ends, as a set;
\* nothing for a pattern that stands for the empty word.
EndOfMatch(addr, time) ==
  LET memory == Memory(addr, time)
      ends == {n \in 0..Len(memory) : SubSeq(memory, 1, n) \in Words[hir]}
  IN  {(addr + n) - 1 : n \in {m \in ends \ {0} : \A k \in ends : m <= k}}

-----------------------------------------------------------------------------
(* Properties *)

\* The state of both parts is well formed: of the compiler (Determinize) and of
\* the search (Search).
TypeOK == (phase = "compile" => C!TypeOK) /\ S!TypeOK

\* The DFA that is searched finds what the pattern stands for (Determinize).
AcceptsThePattern == phase = "compile" => C!AcceptsThePattern

\* No DFA with fewer states does (Determinize).
IsMinimal == phase = "compile" => C!IsMinimal

\* No match is reported twice (Search).
NothingTwice == S!NothingTwice

\* Every result is a match for as long as it says: at every one of its times
\* the bytes in memory from its first address on are a word of the pattern, and
\* its last address is where the first such word ends.
EveryResultIsAMatch ==
  \A r \in S!Results : \A t \in r.time_min..r.time_max : EndOfMatch(r.addr_min, t) = {r.addr_max}

\* Whatever order leaves, messages and tasks were handled in, wherever at
\* some time a word of the pattern ends, a result that ends there covers that time.
EveryMatchEndIsFound ==
  phase = "done" =>
    \A t \in S!Times(Leaves), a \in UNION {S!Addrs(l) : l \in Leaves} : \A e \in EndOfMatch(a, t) :
      \E r \in S!Results : r.addr_max = e /\ t \in r.time_min..r.time_max

\* Compiling and searching end.
SearchEnds == <>(phase = "done")
=============================================================================

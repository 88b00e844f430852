------------------------------- MODULE Search -------------------------------
(***************************************************************************)
(* The search of a DFA in the memory zones, one after the other            *)
(* (crates/db/src/search.rs).  RegexSearch composes it with the compiler   *)
(* that makes the DFA of a pattern.                                        *)
(*                                                                         *)
(* A zone is a set of disjoint leaves, each some bytes at some addresses   *)
(* for some time.  A match may lie across leaves, and the leaves next to   *)
(* each other change at different times.  The search runs the DFA over     *)
(* every leaf alone, in parallel, from the initial state at every byte and *)
(* from every other state at the first byte; it then joins these partial   *)
(* runs into chains, a task per chain, forking where a chain can go on in  *)
(* several leaves.                                                         *)
(***************************************************************************)
EXTENDS MemLeaves, FiniteSets, FiniteSetsExt, Functions, Bags

CONSTANTS NoDfa,  \* the pattern has not been compiled
          Tip     \* where a run that reached an accepting state goes

VARIABLES db,          \* the write zones, a sequence of sets of leaves
          dfa,         \* the DFA, or NoDfa
          zone,        \* how many zones have been searched or are being searched
          found,       \* the results of the zones that have been searched
          todo,        \* leaves no worker has run yet
          sender,      \* the scan still holds the senders of its channels
          channel,     \* per kind, the messages that are not received
          collector,   \* per kind, the thread that receives is running
          chain_starts, ordered_chains,   \* what the threads received
          tasks,       \* chain tasks, a bag of halves
          results,     \* the channel of results
          phase        \* "compile", "scan", "join", "results", "done"

zoneVars == <<todo, sender, channel, collector, chain_starts, ordered_chains, tasks, results>>
vars == <<db, dfa, zone, found, phase, zoneVars>>

Kind == {"starts", "chains"}

-----------------------------------------------------------------------------
(* The DFA *)

\* The states the transition table mentions, but the initial and the accepting.
NonSpecialStates ==
  ({key[1] : key \in DOMAIN dfa.table} \cup Range(dfa.table)) \ (dfa.accept \cup {dfa.initial})

\* execute_dfa on bytes[from..]: the handle and the index of the last byte
\* read, as a set that is empty when the run fails.
ExecuteDfa(bytes, from, state) ==
  LET Run[i \in from..Len(bytes), s \in {dfa.initial} \cup NonSpecialStates] ==
        LET next == dfa.table[s, bytes[i]]
        IN  IF <<s, bytes[i]>> \notin DOMAIN dfa.table THEN {}
            ELSE IF next \in dfa.accept THEN {[to |-> Tip, idx |-> i]}
            ELSE IF i = Len(bytes) THEN {[to |-> next, idx |-> i]}
            ELSE Run[i + 1, next]
  IN  Run[from, state]

-----------------------------------------------------------------------------
(* The scan of one leaf *)

\* A run over bytes first..last of a leaf (ChainHalf).
Half(to, first, last, leaf) ==
  [to |-> to, addr_min |-> (leaf.addr_min + first) - 1, addr_max |-> (leaf.addr_min + last) - 1,
   time_min |-> leaf.time_min, time_max |-> leaf.time_max]

\* The runs from the initial state at every byte.
Runs(leaf) == UNION {{[start |-> i, end |-> e] : e \in ExecuteDfa(leaf.bytes, i, dfa.initial)} :
                       i \in DOMAIN leaf.bytes}

\* A mutated ChainStarts that keeps one of the runs that end alike also when
\* they have matched.
ChainStartsTips(leaf) ==
  {Half(r.end.to, r.start, r.end.idx, leaf) :
     r \in {q \in Runs(leaf) : \A o \in Runs(leaf) : o.end.to = q.end.to => q.start <= o.start}}

\* Of the runs that end in the same state at the end of the leaf only the
\* first is kept.
ChainStarts(leaf) ==
  {Half(r.end.to, r.start, r.end.idx, leaf) :
     r \in {q \in Runs(leaf) : q.end.to # Tip =>
              \A o \in Runs(leaf) : o.end.to = q.end.to => q.start <= o.start}}

\* The runs over the leaf from every other state a run may come in with.
Chains(leaf) ==
  UNION {{[from |-> state, half |-> Half(e.to, 1, e.idx, leaf)] :
            e \in ExecuteDfa(leaf.bytes, 1, state)} : state \in NonSpecialStates}

-----------------------------------------------------------------------------
(* Joining *)

\* A mutated Connect that keeps the times of the first half.
ConnectAnyTime(half, other) ==
  {[half EXCEPT !.to = other.to, !.addr_max = other.addr_max]}

\* A mutated Connect that joins halves that are never in memory together.
ConnectNever(half, other) ==
  {[to |-> other.to, addr_min |-> half.addr_min, addr_max |-> other.addr_max,
    time_min |-> Max({half.time_min, other.time_min}),
    time_max |-> Min({half.time_max, other.time_max})]}

\* ChainHalf::connect: nothing when the two are never in memory together.
Connect(half, other) ==
  {h \in {[to |-> other.to, addr_min |-> half.addr_min, addr_max |-> other.addr_max,
            time_min |-> Max({half.time_min, other.time_min}),
            time_max |-> Min({half.time_max, other.time_max})]} : h.time_min <= h.time_max}

\* The chains that go on at the next address from the state the half ends in.
Continuations(half) ==
  UNION {Connect(half, c.half) :
           c \in {d \in ordered_chains : d.from = half.to /\ d.half.addr_min = half.addr_max + 1}}

-----------------------------------------------------------------------------

Init ==
  /\ db = <<>> /\ dfa = NoDfa
  /\ zone = 0 /\ found = EmptyBag
  /\ phase = "compile"
  /\ todo = {} /\ sender = TRUE
  /\ channel = [k \in Kind |-> {}] /\ collector = [k \in Kind |-> TRUE]
  /\ chain_starts = {} /\ ordered_chains = {}
  /\ tasks = EmptyBag /\ results = EmptyBag

\* search_in_zone is called on the next zone, with locals of its own, or there
\* is none left.
NextZone ==
  /\ \/ zone < Len(db') /\ phase' = "scan" /\ todo' = db'[zone + 1]
     \/ zone = Len(db') /\ phase' = "done" /\ todo' = {}
  /\ zone' = zone + 1 /\ sender' = TRUE
  /\ channel' = [k \in Kind |-> {}] /\ collector' = [k \in Kind |-> TRUE]
  /\ chain_starts' = {} /\ ordered_chains' = {}
  /\ tasks' = EmptyBag /\ results' = EmptyBag

\* search_hir has the DFA of the pattern, and searches the database it was
\* called with.  A DFA that accepts the empty word finds nothing.
Begin(compiled, database) ==
  /\ dfa' = compiled /\ db' = database
  /\ \/ compiled.initial \notin compiled.accept /\ NextZone
     \/ compiled.initial \in compiled.accept /\ phase' = "done" /\ UNCHANGED <<zone, zoneVars>>
  /\ UNCHANGED found

\* A worker runs one leaf and sends what it found, if anything.
PartialSearch(leaf) ==
  /\ leaf \in todo
  /\ todo' = todo \ {leaf}
  /\ channel' = [starts |-> channel.starts \cup ({ChainStarts(leaf)} \ {{}}),
                 chains |-> channel.chains \cup ({Chains(leaf)} \ {{}})]
  /\ UNCHANGED <<db, dfa, zone, found, phase, sender, collector, chain_starts, ordered_chains,
                 tasks, results>>

\* A mutated EndOfScan that keeps the senders.
EndOfScanHolding ==
  /\ phase = "scan" /\ todo = {}
  /\ phase' = "join"
  /\ UNCHANGED <<db, dfa, zone, found, zoneVars>>

\* Every leaf has been run, and the closure drops its senders.
EndOfScan ==
  /\ phase = "scan" /\ todo = {}
  /\ phase' = "join" /\ sender' = FALSE
  /\ UNCHANGED <<db, dfa, zone, found, todo, channel, collector, chain_starts, ordered_chains,
                 tasks, results>>

\* The two threads that receive.
Receive(kind) ==
  /\ collector[kind]
  /\ \E message \in channel[kind] :
       /\ channel' = [channel EXCEPT ![kind] = @ \ {message}]
       /\ IF kind = "starts"
          THEN chain_starts' = chain_starts \cup message /\ UNCHANGED ordered_chains
          ELSE ordered_chains' = ordered_chains \cup message /\ UNCHANGED chain_starts
  /\ UNCHANGED <<db, dfa, zone, found, phase, todo, sender, collector, tasks, results>>

\* A thread ends when its channel is empty and has no sender left.
Disconnect(kind) ==
  /\ collector[kind] /\ channel[kind] = {} /\ ~sender
  /\ collector' = [collector EXCEPT ![kind] = FALSE]
  /\ UNCHANGED <<db, dfa, zone, found, phase, todo, sender, channel, chain_starts, ordered_chains,
                 tasks, results>>

\* The scope joins both threads; a task is spawned for every chain start.
Join ==
  /\ phase = "join" /\ \A kind \in Kind : ~collector[kind]
  /\ tasks' = SetToBag(chain_starts)
  /\ phase' = "results"
  /\ UNCHANGED <<db, dfa, zone, found, todo, sender, channel, collector, chain_starts,
                 ordered_chains, results>>

\* A turn of chain_task: a result, the end of the chain, or the next leaves,
\* the first in this task and a new task for each of the others.
ChainTask(half) ==
  /\ BagIn(half, tasks)
  /\ IF half.to = Tip
     THEN /\ results' = results (+) SetToBag({half})
          /\ tasks' = tasks (-) SetToBag({half})
     ELSE /\ tasks' = (tasks (-) SetToBag({half})) (+) SetToBag(Continuations(half))
          /\ UNCHANGED results
  /\ UNCHANGED <<db, dfa, zone, found, phase, todo, sender, channel, collector, chain_starts,
                 ordered_chains>>

\* The sender is dropped, the results of the zone are collected, and the search
\* goes on to the next zone.
Collect ==
  /\ phase = "results" /\ tasks = EmptyBag
  /\ found' = found (+) results
  /\ UNCHANGED <<db, dfa>>
  /\ NextZone

Next == \/ \E leaf \in todo : PartialSearch(leaf)
        \/ EndOfScan \/ Join \/ Collect
        \/ \E kind \in Kind : Receive(kind) \/ Disconnect(kind)
        \/ \E half \in BagToSet(tasks) : ChainTask(half)

-----------------------------------------------------------------------------
(* Properties *)

Results == BagToSet(found (+) results)

\* The state is well formed; the range of times of a half is never empty
\* (IRange::new asserts it).
TypeOK ==
  /\ zone \in 0..(Len(db) + 1) /\ sender \in BOOLEAN /\ collector \in [Kind -> BOOLEAN]
  /\ phase \in {"compile", "scan", "join", "results", "done"}
  /\ IsABag(tasks) /\ IsABag(results) /\ IsABag(found)
  /\ \A half \in BagToSet(tasks) : half.to \in NonSpecialStates \cup {Tip, dfa.initial}
  /\ \A half \in BagToSet(tasks) \cup Results :
       half.addr_min <= half.addr_max /\ half.time_min <= half.time_max

\* No two results, and no two tasks, are about the same bytes at one time.
NothingTwice ==
  \A bag \in {tasks, found (+) results} : \A h \in BagToSet(bag) :
    /\ bag[h] = 1
    /\ \A g \in BagToSet(bag) \ {h} :
         g.addr_min = h.addr_min => g.time_max < h.time_min \/ h.time_max < g.time_min
=============================================================================

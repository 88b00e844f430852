--------------------------- MODULE MCRTreeReader ----------------------------
EXTENDS RTreeReader

Leaf(time_min, time_max, key_min, key_max) ==
  [time_min |-> time_min, time_max |-> time_max, key_min |-> key_min, key_max |-> key_max]

-----------------------------------------------------------------------------
(* Registers *)

\* Leaves of one unit of time from a first time on, in the order of a permutation,
\* with the given values.
Arrange(perm, values, first) ==
  [i \in DOMAIN perm |-> Leaf(perm[i] + (first - 1), perm[i] + (first - 1), values[i], values[i])]

Perms(n) == {p \in [1..n -> 1..n] : IsInjective(p)}
Few(n) == {[i \in 1..n |-> IF i \in {a, b} THEN 1 ELSE 0] : a, b \in 1..n}

\* In order, reversed, and interleaved.
SomePerms(n) == {[i \in 1..n |-> i], [i \in 1..n |-> (n + 1) - i],
                 [i \in 1..n |-> ((i * 4) % n) + 1]}

Register(order, leaves) == [of |-> "register", trees |-> <<TreeOf(order, leaves)>>, keys |-> {{1}}]

Of(order, perms, values) == {Register(order, Arrange(p, v, 1)) : p \in perms, v \in values}

\* Nodes of two children: no level of nodes, one, two (every order of the
\* leaves) and three.  Nodes of four children: one level and two; with two
\* children a group ends as soon as its place is odd, and a query that kept
\* the index of a child would never show it.  Leaves from time 0 on, and of
\* more than one unit of time.
Registers ==
  (UNION {Of(1, Perms(n), [1..n -> {0, 1}]) : n \in 1..3})
    \cup Of(1, Perms(4), Few(4)) \cup Of(1, Perms(5), {[i \in 1..5 |-> IF i = 3 THEN 1 ELSE 0]})
    \cup Of(1, SomePerms(9), Few(9))
    \cup Of(2, SomePerms(7), Few(7))
    \cup Of(2, SomePerms(17), {[i \in 1..17 |-> IF i \in {6, 15} THEN 1 ELSE 0]})
    \cup {Register(1, Arrange(p, <<1, 0, 1>>, 0)) : p \in Perms(3)}
    \cup {Register(1, <<Leaf(1, 3, 0, 0), Leaf(4, 4, 1, 1), Leaf(5, 8, 0, 0)>>),
          Register(1, <<Leaf(0, 1, 1, 1), Leaf(4, 6, 0, 0), Leaf(2, 3, 1, 1)>>)}

-----------------------------------------------------------------------------
(* Memory *)

\* The leaves of a zone in some orders.
Orders(leaves) == {[i \in DOMAIN leaves |-> leaves[p[i]]] : p \in SomePerms(Len(leaves)) \cap Perms(Len(leaves))}

\* Writes: an address that is written again, one that never changes, a long
\* leaf that is cut; and a zone above it, or two.
LowWrites == {<<Leaf(0, 1, 0, 2), Leaf(2, 5, 0, 0), Leaf(2, 3, 1, 1), Leaf(4, 5, 1, 1), Leaf(2, 5, 2, 2)>>,
              <<Leaf(1, 5, 1, 2)>>}
HighWrites == {<<Leaf(0, 2, 5, 6), Leaf(3, 5, 5, 6)>>, <<Leaf(3, 3, 6, 6), Leaf(4, 5, 6, 6), Leaf(1, 5, 5, 5)>>}

\* Reads, some of them at one time.
LowReads == {<<Leaf(1, 1, 0, 1), Leaf(3, 3, 0, 0), Leaf(3, 3, 1, 2)>>}
HighReads == {<<Leaf(3, 3, 5, 6)>>, <<Leaf(0, 0, 6, 6), Leaf(5, 5, 5, 6), Leaf(2, 2, 6, 6)>>}

Memory(of) ==
  [of |-> "memory", trees |-> [i \in DOMAIN of |-> TreeOf(1, of[i])],
   keys |-> {0..0, 1..2, 2..5, 3..4, 5..6}]

Zoned(low, high) ==
  UNION {UNION {{Memory(<<l, h>>), Memory(<<h, l>>), Memory(<<l>>)} :
                  l \in Orders(ls), h \in Orders(hs)} : ls \in low, hs \in high}

Memories == Zoned(LowWrites, HighWrites) \cup Zoned(LowReads, HighReads)
              \cup {Memory(<<l, h, <<Leaf(2, 5, 3, 3)>>>>) : l \in LowWrites, h \in HighWrites}

MCTime == 0..17
MCKey == 0..6

MCDatabases == Registers \cup Memories
=============================================================================

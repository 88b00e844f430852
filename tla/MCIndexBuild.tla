---------------------------- MODULE MCIndexBuild ----------------------------
EXTENDS IndexBuild

MCTime == 0..7
MCKey == 0..15

Real(traces) == {t \in traces : Dense(t) /\ Covered(t) /\ WellCut(t)}

Point(key, time) == [time_min |-> time, time_max |-> time, key_min |-> key, key_max |-> key]
Long(key, len) == [time_min |-> 2, time_max |-> 4, key_min |-> key, key_max |-> key + (len - 1)]

\* A leaf of the first access, which has one byte.
First(tree, node) == Leaf(tree, node, 1, <<>>)
After(access, leaves) == {<<Access(access)>> \o l : l \in leaves}

\* Up to three leaves anywhere, two of them in one partition in either order.
Scattered ==
  After(<<1>>, BoundedSeq({First(t, n) : t \in Tree, n \in {Point(0, 0), Point(1, 1), Point(12, 6)}}, 3))

\* Four memory leaves in one place, with two leaves in one write zone and one
\* in each of two read zones.
Together == After(<<1>>, [1..4 -> {First(t, Point(3, 3)) : t \in {"write", "read"} \X (1..MaxTrees)}])

\* Trees with one and two levels of nodes, in some orders of the leaves.
Points == <<Point(0, 7), Point(9, 0), Point(4, 3), Point(15, 5), Point(2, 2)>>
Orders(n) == {[i \in 1..n |-> ((i * k + j) % n) + 1] : k \in {1, n - 1}, j \in 0..(n - 1)}
InTree(tree, n) == {[i \in 1..n |-> First(tree, Points[o[i]])] : o \in Orders(n)}
Tall == After(<<1>>, UNION {InTree(<<"write", 1>>, n) \cup InTree(<<"register", 1>>, n) : n \in 3..5})
          \cup After(<<1>>, {w \o r : w \in InTree(<<"write", 1>>, 1), r \in InTree(<<"read", 1>>, 4)})

\* Two accesses of up to three bytes, and two leaves that are cut from them.
Some == {<<0>>, <<0, 1>>, <<1, 0>>, <<0, 1, 1>>, <<1, 0, 1, 1>>}
Cuts == {<<>>, <<<<1, 0>>>>, <<<<0, 1>>>>, <<<<1, 1>>>>, <<<<1, 0>>, <<0, 1>>>>}
Stretch(bytes, cuts) == Len(FoldLeft(CutBytes, bytes, cuts))
Shared ==
  {<<Access(a), Access(b),
     Leaf(<<"write", 1>>, Long(0, Stretch(a, c)), 1, c),
     Leaf(<<"write", 1>>, Long(8, Stretch(IF of = 1 THEN a ELSE b, d)), of, d)>> :
       a \in Some, b \in Some, c \in Cuts, d \in Cuts, of \in 1..2}

MCTraces == Real(Scattered \cup Together \cup Tall \cup {t \in Shared : \A i \in 3..4 : t[i].node.key_max >= t[i].node.key_min})
=============================================================================

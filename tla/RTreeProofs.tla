----------------------------- MODULE RTreeProofs ----------------------------
(***************************************************************************)
(* For every node size and all leaves: the tree that the build writes is   *)
(* the one a reader expects.                                               *)
(*                                                                         *)
(* The tree is defined by recursions over numbers and over sequences;      *)
(* that they define a function at all is Recursion, and what they compute  *)
(* is shown by taking the least input for which it is wrong (Induction,    *)
(* AllFit).  A reader needs only to know that a tree is Readable.          *)
(***************************************************************************)
EXTENDS RTree, FiniteSets, SequenceTheorems, FiniteSetTheorems, NaturalsInduction, TLAPS

-----------------------------------------------------------------------------
(* Natural numbers *)

\* A set of naturals that is not empty has a least element.
LEMMA Least ==
  ASSUME NEW T, T \subseteq Nat, T # {}
  PROVE  \E x \in T : \A y \in T : x <= y
<1> DEFINE R == {ss \in Nat \X Nat : ss[1] < ss[2]}
<1>1. IsWellFoundedOn(R, Nat)
  BY NatLessThanWellFounded, Zenon DEF OpToRel
<1>2. PICK x \in T : \A y \in T : ~ (<<y, x>> \in R)
  <2> HIDE DEF R
  <2>. QED  BY <1>1, WFMin
<1>3. \A y \in T : ~ (y < x)
  BY <1>2
<1>. QED  BY <1>3

\* The least element is the one that Min chooses.
LEMMA MinIs ==
  ASSUME NEW T, T \subseteq Nat, T # {}
  PROVE  Min(T) \in T /\ \A y \in T : Min(T) <= y
BY Least DEF Min

\* A set of naturals with a bound has a greatest element, the one Max chooses.
LEMMA MaxIs ==
  ASSUME NEW n \in Nat, NEW T, T \subseteq 0..n, T # {}
  PROVE  Max(T) \in T /\ \A y \in T : y <= Max(T)
<1> DEFINE U == {n - y : y \in T}
<1>1. U \subseteq Nat /\ U # {}
  <2>1. \A y \in T : n - y \in Nat
    OBVIOUS
  <2>. QED  BY <2>1
<1>2. PICK u \in U : \A v \in U : u <= v
  <2> HIDE DEF U
  <2>. QED  BY <1>1, Least
<1>3. PICK x \in T : u = n - x
  BY <1>2
<1>4. \A y \in T : x >= y
  <2>1. \A y \in T : n - y \in U
    OBVIOUS
  <2>2. \A y \in T : n - x <= n - y
    BY <1>2, <1>3, <2>1
  <2>3. \A y \in T : y \in Int
    OBVIOUS
  <2>. QED  BY <2>2, <2>3
<1>5. Max(T) \in T /\ \A y \in T : Max(T) >= y
  BY <1>4 DEF Max
<1>6. T \subseteq Int
  OBVIOUS
<1>. QED  BY <1>5, <1>6

\* A number of a set that is below, or above, the others is its least, or its greatest.
LEMMA Extremes ==
  ASSUME NEW T \in SUBSET Nat, NEW x \in T
  PROVE  /\ (\A y \in T : x <= y) => Min(T) = x
         /\ (\A y \in T : y <= x) => Max(T) = x
<1>1. ASSUME \A y \in T : x <= y
      PROVE  Min(T) = x
  <2>1. Min(T) \in T /\ \A y \in T : Min(T) <= y
    BY MinIs
  <2> DEFINE m == Min(T)
  <2>2. m \in Nat /\ m <= x /\ x <= m
    BY <1>1, <2>1
  <2> HIDE DEF m
  <2>3. m = x
    BY <2>2
  <2>. QED  BY <2>3 DEF m
<1>2. ASSUME \A y \in T : y <= x
      PROVE  Max(T) = x
  <2>1. T \subseteq 0..x
    BY <1>2
  <2>2. Max(T) \in T /\ \A y \in T : y <= Max(T)
    BY <2>1, MaxIs
  <2> DEFINE m == Max(T)
  <2>3. m \in Nat /\ m <= x /\ x <= m
    BY <1>2, <2>2
  <2> HIDE DEF m
  <2>4. m = x
    BY <2>3
  <2>. QED  BY <2>4 DEF m
<1>. QED  BY <1>1, <1>2

\* A set that has 0 and the successor of each of its members has them all.
LEMMA Induction ==
  ASSUME NEW T, 0 \in T, \A n \in Nat : n \in T => n + 1 \in T
  PROVE  Nat \subseteq T
<1> SUFFICES ASSUME Nat \ T # {} PROVE FALSE
  OBVIOUS
<1>1. PICK m \in Nat \ T : \A y \in Nat \ T : m <= y
  BY Least
<1>2. m # 0 /\ m - 1 \in Nat /\ m - 1 \notin Nat \ T
  BY <1>1
<1>3. (m - 1) + 1 = m
  BY <1>1
<1>. QED  BY <1>1, <1>2, <1>3

\* What a quotient is.
LEMMA QuotientIs ==
  ASSUME NEW k \in Nat, NEW w \in Nat, w > 0, NEW q \in Nat
  PROVE  /\ k \div w \in Nat
         /\ k \div w = q <=> q * w <= k /\ k < (q + 1) * w
OBVIOUS

\* A quotient is below a bound just when the number is below its multiple.
LEMMA QuotientBelow ==
  ASSUME NEW k \in Nat, NEW w \in Nat, w > 0, NEW m \in Nat
  PROVE  k \div w < m <=> k < m * w
OBVIOUS

\* Two divisions are one.
LEMMA QuotientOfQuotient ==
  ASSUME NEW k \in Nat, NEW v \in Nat, v > 0, NEW w \in Nat, w > 0
  PROVE  (k \div v) \div w = k \div (v * w)
OBVIOUS

\* The items of a part of a sequence.
LEMMA SubSeqIs ==
  ASSUME NEW S, NEW s \in Seq(S), NEW p \in 1..Len(s), NEW q \in 1..Len(s)
  PROVE  SubSeq(s, p, q) = [j \in 1..(q - p + 1) |-> s[p + j - 1]]
OBVIOUS

-----------------------------------------------------------------------------
(* Recursive functions *)

\* A recursion over S that measures less at each call, and stops on T.
Measured(S, V, mu, T, pred, base, comb) ==
  /\ mu \in [S -> Nat] /\ T \in SUBSET S /\ pred \in [S -> S]
  /\ base \in [S -> V] /\ comb \in [S \X V -> V]
  /\ \A x \in S \ T : mu[pred[x]] < mu[x]

\* A function that is what the recursion says.
Unfolds(f, S, V, T, pred, base, comb) ==
  /\ f \in [S -> V]
  /\ \A x \in S : f[x] = IF x \in T THEN base[x] ELSE comb[<<x, f[pred[x]]>>]

\* There is a function whose value at x is base[x] on T, and otherwise made
\* from x and the value at one x that measures less.
LEMMA Recursion ==
  ASSUME NEW S, NEW V, NEW mu, NEW T, NEW pred, NEW base, NEW comb,
         Measured(S, V, mu, T, pred, base, comb)
  PROVE  \E f : Unfolds(f, S, V, T, pred, base, comb)
<1>0. /\ mu \in [S -> Nat] /\ T \in SUBSET S /\ pred \in [S -> S]
      /\ base \in [S -> V] /\ comb \in [S \X V -> V]
      /\ \A x \in S \ T : mu[pred[x]] < mu[x]
  BY DEF Measured
<1> DEFINE Upto(m) == {x \in S : mu[x] <= m}
           Is(f, x) == f[x] = IF x \in T THEN base[x] ELSE comb[<<x, f[pred[x]]>>]
           Good(f, m) == f \in [Upto(m) -> V] /\ \A x \in Upto(m) : Is(f, x)
           Have == {m \in Nat : \E f : Good(f, m)}
<1>1. \A x \in S : mu[x] \in Nat /\ pred[x] \in S /\ base[x] \in V
  BY <1>0
<1>2. \A x \in S, v \in V : comb[<<x, v>>] \in V
  BY <1>0
<1>3. 0 \in Have
  <2> DEFINE f == [x \in Upto(0) |-> base[x]]
  <2>1. \A x \in Upto(0) : x \in T
    BY <1>0, <1>1
  <2>2. \A x \in Upto(0) : f[x] = base[x]
    OBVIOUS
  <2>3. f \in [Upto(0) -> V]
    BY <1>1
  <2>4. Good(f, 0)
    BY <2>1, <2>2, <2>3
  <2>. QED  BY <2>4
<1>4. ASSUME NEW n \in Nat, n \in Have
      PROVE  n + 1 \in Have
  <2>1. PICK g : Good(g, n)
    BY <1>4
  <2> DEFINE f == [x \in Upto(n + 1) |->
                     IF x \in Upto(n) THEN g[x]
                     ELSE IF x \in T THEN base[x] ELSE comb[<<x, g[pred[x]]>>]]
  <2>2. \A x \in Upto(n) : x \in Upto(n + 1)
    BY <1>1
  <2>3. \A x \in Upto(n + 1) : x \notin T => pred[x] \in Upto(n)
    BY <1>0, <1>1
  <2>4. \A x \in Upto(n) : g[x] \in V
    BY <2>1
  <2>5. f \in [Upto(n + 1) -> V]
    <3>1. \A x \in Upto(n + 1) : f[x] \in V
      BY <1>1, <1>2, <2>3, <2>4
    <3>. QED  BY <3>1
  <2>6. \A x \in Upto(n) : f[x] = g[x]
    BY <2>2
  <2>7. \A x \in Upto(n + 1) : Is(f, x)
    <3>1. ASSUME NEW x \in Upto(n)
          PROVE  Is(f, x)
      <4>1. Is(g, x) /\ x \in Upto(n + 1) /\ f[x] = g[x]
        BY <2>1, <2>2, <2>6
      <4>2. x \notin T => f[pred[x]] = g[pred[x]]
        BY <2>3, <2>6, <4>1
      <4> HIDE DEF f
      <4>. QED  BY <4>1, <4>2
    <3>2. ASSUME NEW x \in Upto(n + 1), x \notin Upto(n)
          PROVE  Is(f, x)
      <4>1. f[x] = IF x \in T THEN base[x] ELSE comb[<<x, g[pred[x]]>>]
        BY <3>2
      <4>2. x \notin T => f[pred[x]] = g[pred[x]]
        BY <2>3, <2>6
      <4> HIDE DEF f
      <4>. QED  BY <4>1, <4>2
    <3>. QED  BY <3>1, <3>2
  <2> HIDE DEF f, Upto, Is
  <2>8. Good(f, n + 1)
    BY <2>5, <2>7
  <2>. QED  BY <2>8
<1>5. \A m \in Nat : \E f : Good(f, m)
  <2>1. Nat \subseteq Have
    <3> HIDE DEF Have
    <3>. QED  BY <1>3, <1>4, Induction
  <2>. QED  BY <2>1
<1>6. ASSUME NEW m \in Nat, NEW k \in Nat, NEW f, NEW g, Good(f, m), Good(g, k),
             NEW x \in Upto(m) \cap Upto(k)
      PROVE  f[x] = g[x]
  <2> DEFINE Bad == {mu[y] : y \in {z \in Upto(m) \cap Upto(k) : f[z] # g[z]}}
  <2>1. SUFFICES ASSUME Bad # {} PROVE FALSE
    OBVIOUS
  <2>2. Bad \subseteq Nat
    BY <1>1
  <2>3. PICK b \in Bad : \A c \in Bad : b <= c
    <3> HIDE DEF Bad
    <3>. QED  BY <2>1, <2>2, Least
  <2>4. PICK y \in Upto(m) \cap Upto(k) : f[y] # g[y] /\ b = mu[y]
    BY <2>3
  <2>5. Is(f, y) /\ Is(g, y)
    BY <1>6, <2>4
  <2>6. y \notin T /\ f[pred[y]] # g[pred[y]]
    BY <2>4, <2>5
  <2>7. pred[y] \in Upto(m) \cap Upto(k) /\ mu[pred[y]] < mu[y]
    BY <1>0, <1>1, <2>4, <2>6
  <2>8. mu[pred[y]] \in Bad
    BY <2>6, <2>7
  <2>9. mu[y] \in Nat /\ mu[pred[y]] \in Nat
    BY <1>1, <2>4
  <2> HIDE DEF Bad
  <2>. QED  BY <2>3, <2>4, <2>7, <2>8, <2>9
<1> DEFINE Chosen(m) == CHOOSE f : Good(f, m)
           F == [x \in S |-> Chosen(mu[x])[x]]
<1> HIDE DEF Upto, Good
<1>7. \A m \in Nat : Good(Chosen(m), m)
  BY <1>5
<1>8. \A x \in S : x \in Upto(mu[x])
  BY <1>1 DEF Upto
<1>9. \A x \in S : Chosen(mu[x])[x] \in V
  BY <1>1, <1>7, <1>8 DEF Good
<1>10. F \in [S -> V]
  BY <1>9
<1>11. ASSUME NEW x \in S
       PROVE  F[x] = IF x \in T THEN base[x] ELSE comb[<<x, F[pred[x]]>>]
  <2>1. F[x] = Chosen(mu[x])[x] /\ F[pred[x]] = Chosen(mu[pred[x]])[pred[x]]
    BY <1>1
  <2> HIDE DEF F, Chosen
  <2>2. Chosen(mu[x])[x] = IF x \in T THEN base[x] ELSE comb[<<x, Chosen(mu[x])[pred[x]]>>]
    BY <1>1, <1>7, <1>8 DEF Good
  <2>3. x \notin T => Chosen(mu[x])[pred[x]] = Chosen(mu[pred[x]])[pred[x]]
    <3>1. x \notin T => pred[x] \in Upto(mu[x]) \cap Upto(mu[pred[x]])
      BY <1>0, <1>1 DEF Upto
    <3>2. mu[x] \in Nat /\ mu[pred[x]] \in Nat
      BY <1>1
    <3>. QED  BY <1>6, <1>7, <3>1, <3>2
  <2>. QED  BY <2>1, <2>2, <2>3
<1> HIDE DEF F
<1>. QED  BY <1>10, <1>11 DEF Unfolds

-----------------------------------------------------------------------------
(* Bounding boxes *)

\* What a bounding box is, without the minimum and the maximum of a set.
IsBbox(box, nodes) ==
  /\ box \in Node
  /\ \A n \in nodes : /\ box.time_min <= n.time_min /\ n.time_max <= box.time_max
                      /\ box.key_min <= n.key_min /\ n.key_max <= box.key_max
  /\ \E n \in nodes : box.time_min = n.time_min
  /\ \E n \in nodes : box.time_max = n.time_max
  /\ \E n \in nodes : box.key_min = n.key_min
  /\ \E n \in nodes : box.key_max = n.key_max

\* The fields of a node are numbers.
LEMMA NodeFields ==
  ASSUME NEW n \in Node
  PROVE  /\ n.time_min \in Nat /\ n.time_max \in Nat /\ n.key_min \in Nat /\ n.key_max \in Nat
         /\ n.time_min \in Time /\ n.time_max \in Time /\ n.key_min \in Key /\ n.key_max \in Key
<1>1. /\ n.time_min \in Time /\ n.time_max \in Time /\ n.key_min \in Key /\ n.key_max \in Key
  BY DEF Node
<1>2. Time \subseteq Nat /\ Key \subseteq Nat
  BY RTreeAssumption
<1>. QED  BY <1>1, <1>2

\* The rectangle of the minima and the maxima is the bounding box.
LEMMA BboxIs ==
  ASSUME NEW nodes \in SUBSET Node, nodes # {}
  PROVE  IsBbox(Bbox(nodes), nodes)
<1> DEFINE A == {n.time_min : n \in nodes}
           B == {n.time_max : n \in nodes}
           C == {n.key_min : n \in nodes}
           D == {n.key_max : n \in nodes}
<1>1. A \subseteq Time /\ B \subseteq Time /\ C \subseteq Key /\ D \subseteq Key
  BY DEF Node
<1>2. A # {} /\ B # {} /\ C # {} /\ D # {}
  OBVIOUS
<1>3. Time \subseteq Nat /\ Key \subseteq Nat
  BY RTreeAssumption
<1>4. Bbox(nodes) = [time_min |-> Min(A), time_max |-> Max(B), key_min |-> Min(C), key_max |-> Max(D)]
  BY Zenon DEF Bbox
<1>5. \A n \in nodes : n.time_min \in A /\ n.time_max \in B /\ n.key_min \in C /\ n.key_max \in D
  OBVIOUS
<1>6. /\ \A a \in A : \E n \in nodes : a = n.time_min
      /\ \A b \in B : \E n \in nodes : b = n.time_max
      /\ \A c \in C : \E n \in nodes : c = n.key_min
      /\ \A d \in D : \E n \in nodes : d = n.key_max
  OBVIOUS
<1> HIDE DEF A, B, C, D
<1>7. Min(A) \in A /\ \A a \in A : Min(A) <= a
  BY <1>1, <1>2, <1>3, MinIs
<1>8. Max(B) \in B /\ \A b \in B : b <= Max(B)
  BY <1>1, <1>2, MaxIs, RTreeAssumption
<1>9. Min(C) \in C /\ \A c \in C : Min(C) <= c
  BY <1>1, <1>2, <1>3, MinIs
<1>10. Max(D) \in D /\ \A d \in D : d <= Max(D)
  BY <1>1, <1>2, MaxIs, RTreeAssumption
<1> DEFINE a == Min(A)
           b == Max(B)
           c == Min(C)
           d == Max(D)
<1>11. a \in Time /\ b \in Time /\ c \in Key /\ d \in Key
  BY <1>1, <1>7, <1>8, <1>9, <1>10
<1> HIDE DEF a, b, c, d
<1>12. /\ Bbox(nodes) = [time_min |-> a, time_max |-> b, key_min |-> c, key_max |-> d]
       /\ Bbox(nodes) \in Node
  BY <1>4, <1>11 DEF Node, a, b, c, d
<1>13. Bbox(nodes).time_min = a /\ Bbox(nodes).time_max = b /\ Bbox(nodes).key_min = c /\ Bbox(nodes).key_max = d
  BY <1>12
<1>14. \A n \in nodes : /\ a <= n.time_min /\ n.time_max <= b
                        /\ c <= n.key_min /\ n.key_max <= d
  BY <1>5, <1>7, <1>8, <1>9, <1>10 DEF a, b, c, d
<1>15. /\ \E n \in nodes : a = n.time_min
       /\ \E n \in nodes : b = n.time_max
       /\ \E n \in nodes : c = n.key_min
       /\ \E n \in nodes : d = n.key_max
  BY <1>6, <1>7, <1>8, <1>9, <1>10 DEF a, b, c, d
<1>. QED  BY <1>12, <1>13, <1>14, <1>15 DEF IsBbox

\* There is one bounding box.
LEMMA BboxUnique ==
  ASSUME NEW nodes \in SUBSET Node, NEW a, NEW b, IsBbox(a, nodes), IsBbox(b, nodes)
  PROVE  a = b
<1>1. a \in Node /\ b \in Node
  BY DEF IsBbox
<1>2. \A n \in nodes : n.time_min \in Nat /\ n.time_max \in Nat /\ n.key_min \in Nat /\ n.key_max \in Nat
  BY NodeFields
<1>3. a.time_min = b.time_min /\ a.time_max = b.time_max
  BY <1>1, <1>2, NodeFields DEF IsBbox
<1>4. a.key_min = b.key_min /\ a.key_max = b.key_max
  BY <1>1, <1>2, NodeFields DEF IsBbox
<1>. QED  BY <1>1, <1>3, <1>4 DEF Node

\* The nodes are in groups, one or more of them, and each has its bounding box.
Boxed(J, G, boxes, nodes) ==
  /\ J # {} /\ \A j \in J : G[j] # {} /\ G[j] \in SUBSET Node
  /\ \A n : n \in nodes <=> \E j \in J : n \in G[j]
  /\ \A b : b \in boxes <=> \E j \in J : b = Bbox(G[j])

\* The bounding box of bounding boxes is that of all that is in them.
LEMMA BboxOfBboxes ==
  ASSUME NEW J, NEW G, NEW boxes, NEW all, Boxed(J, G, boxes, all)
  PROVE  Bbox(boxes) = Bbox(all)
<1>0. /\ J # {} /\ \A j \in J : G[j] # {} /\ G[j] \in SUBSET Node
      /\ \A n : n \in all <=> \E j \in J : n \in G[j]
      /\ \A b : b \in boxes <=> \E j \in J : b = Bbox(G[j])
      /\ all \in SUBSET Node
  BY DEF Boxed
<1>1. \A j \in J : IsBbox(Bbox(G[j]), G[j])
  BY <1>0, BboxIs
<1>2. \A j \in J : Bbox(G[j]) \in Node
  BY <1>1 DEF IsBbox
<1>3. boxes \in SUBSET Node /\ boxes # {}
  BY <1>0, <1>2
<1> DEFINE box == Bbox(boxes)
<1>4. /\ \A j \in J : Bbox(G[j]) \in boxes
      /\ \A n \in boxes : \E j \in J : n = Bbox(G[j])
  BY <1>0
<1>5. IsBbox(box, boxes)
  BY <1>3, BboxIs
<1>6. /\ \A n \in all : \E j \in J : n \in G[j]
      /\ \A j \in J : \A n \in G[j] : n \in all
  BY <1>0
<1> HIDE DEF box
<1>7. box \in Node
  BY <1>5 DEF IsBbox
<1>8. \A n \in all : /\ box.time_min <= n.time_min /\ n.time_max <= box.time_max
                     /\ box.key_min <= n.key_min /\ n.key_max <= box.key_max
  <2> TAKE n \in all
  <2>1. PICK j \in J : n \in G[j]
    BY <1>6
  <2> DEFINE c == Bbox(G[j])
  <2>2. /\ c.time_min <= n.time_min /\ n.time_max <= c.time_max
        /\ c.key_min <= n.key_min /\ n.key_max <= c.key_max
    BY <1>1, <2>1 DEF IsBbox
  <2>3. c \in boxes /\ c \in Node
    BY <1>2, <1>4
  <2> HIDE DEF c
  <2>4. /\ box.time_min <= c.time_min /\ c.time_max <= box.time_max
        /\ box.key_min <= c.key_min /\ c.key_max <= box.key_max
    BY <1>5, <2>3 DEF IsBbox
  <2>5. n \in Node
    BY <1>0
  <2>. QED  BY <1>7, <2>2, <2>3, <2>4, <2>5, NodeFields
<1>9. /\ \E n \in all : box.time_min = n.time_min
      /\ \E n \in all : box.time_max = n.time_max
      /\ \E n \in all : box.key_min = n.key_min
      /\ \E n \in all : box.key_max = n.key_max
  <2>1. \E n \in all : box.time_min = n.time_min
    <3>1. PICK c \in boxes : box.time_min = c.time_min
      BY <1>5 DEF IsBbox
    <3>2. PICK j \in J : c = Bbox(G[j])
      BY <1>4
    <3>3. \E n \in G[j] : Bbox(G[j]).time_min = n.time_min
      BY <1>1 DEF IsBbox
    <3>. QED  BY <1>6, <3>1, <3>2, <3>3
  <2>2. \E n \in all : box.time_max = n.time_max
    <3>1. PICK c \in boxes : box.time_max = c.time_max
      BY <1>5 DEF IsBbox
    <3>2. PICK j \in J : c = Bbox(G[j])
      BY <1>4
    <3>3. \E n \in G[j] : Bbox(G[j]).time_max = n.time_max
      BY <1>1 DEF IsBbox
    <3>. QED  BY <1>6, <3>1, <3>2, <3>3
  <2>3. \E n \in all : box.key_min = n.key_min
    <3>1. PICK c \in boxes : box.key_min = c.key_min
      BY <1>5 DEF IsBbox
    <3>2. PICK j \in J : c = Bbox(G[j])
      BY <1>4
    <3>3. \E n \in G[j] : Bbox(G[j]).key_min = n.key_min
      BY <1>1 DEF IsBbox
    <3>. QED  BY <1>6, <3>1, <3>2, <3>3
  <2>4. \E n \in all : box.key_max = n.key_max
    <3>1. PICK c \in boxes : box.key_max = c.key_max
      BY <1>5 DEF IsBbox
    <3>2. PICK j \in J : c = Bbox(G[j])
      BY <1>4
    <3>3. \E n \in G[j] : Bbox(G[j]).key_max = n.key_max
      BY <1>1 DEF IsBbox
    <3>. QED  BY <1>6, <3>1, <3>2, <3>3
  <2>. QED  BY <2>1, <2>2, <2>3, <2>4
<1>10. IsBbox(box, all)
  BY <1>7, <1>8, <1>9 DEF IsBbox
<1>11. all # {}
  BY <1>0, <1>6
<1>12. IsBbox(Bbox(all), all)
  BY <1>0, <1>11, BboxIs
<1>13. box = Bbox(all)
  BY <1>0, <1>10, <1>12, BboxUnique
<1>. QED  BY <1>13 DEF box

-----------------------------------------------------------------------------
(* Powers of 2 *)

LEMMA Pow2Is ==
  /\ Pow2[0] = 1
  /\ \A n \in Nat : Pow2[n] \in Nat /\ Pow2[n] > 0 /\ Pow2[n + 1] = 2 * Pow2[n]
<1> DEFINE T == {0}
           mu == [n \in Nat |-> n]
           pred == [n \in Nat |-> IF n = 0 THEN 0 ELSE n - 1]
           base == [n \in Nat |-> 1]
           comb == [p \in Nat \X Nat |-> 2 * p[2]]
           Def(f) == f = [n \in Nat |-> IF n = 0 THEN 1 ELSE 2 * f[n - 1]]
<1>1. PICK f \in [Nat -> Nat] : \A n \in Nat : f[n] = IF n \in T THEN base[n] ELSE comb[<<n, f[pred[n]]>>]
  <2>1. mu \in [Nat -> Nat] /\ T \in SUBSET Nat /\ pred \in [Nat -> Nat] /\ base \in [Nat -> Nat]
    OBVIOUS
  <2>2. comb \in [Nat \X Nat -> Nat]
    OBVIOUS
  <2>3. \A n \in Nat \ T : mu[pred[n]] < mu[n]
    OBVIOUS
  <2> HIDE DEF T, mu, pred, base, comb
  <2>4. Measured(Nat, Nat, mu, T, pred, base, comb)
    BY <2>1, <2>2, <2>3 DEF Measured
  <2>5. \E f : Unfolds(f, Nat, Nat, T, pred, base, comb)
    BY <2>4, Recursion, Zenon
  <2>. QED  BY <2>5 DEF Unfolds
<1>2. \A n \in Nat : f[n] = IF n = 0 THEN 1 ELSE 2 * f[n - 1]
  <2> TAKE n \in Nat
  <2>1. n # 0 => pred[n] = n - 1 /\ n - 1 \in Nat
    OBVIOUS
  <2>2. n # 0 => comb[<<n, f[n - 1]>>] = 2 * f[n - 1]
    <3>1. n # 0 => <<n, f[n - 1]>> \in Nat \X Nat
      BY <1>1, <2>1
    <3>. QED  BY <3>1
  <2>3. base[n] = 1
    OBVIOUS
  <2> HIDE DEF pred, base, comb
  <2>. QED  BY <1>1, <2>1, <2>2, <2>3
<1>3. Def(f)
  BY <1>1, <1>2
<1>4. Def(Pow2)
  <2>1. Pow2 = CHOOSE g : Def(g)
    BY DEF Pow2
  <2> HIDE DEF Def
  <2>. QED  BY <1>3, <2>1
<1>5. \A n \in Nat : Pow2[n] = IF n = 0 THEN 1 ELSE 2 * Pow2[n - 1]
  BY <1>4
<1> HIDE DEF Def
<1>6. Pow2[0] = 1 /\ \A n \in Nat : Pow2[n + 1] = 2 * Pow2[n]
  <2>1. \A n \in Nat : n + 1 \in Nat /\ n + 1 # 0 /\ (n + 1) - 1 = n
    OBVIOUS
  <2>. QED  BY <1>5, <2>1
<1>7. \A n \in Nat : Pow2[n] \in Nat /\ Pow2[n] > 0
  <2> DEFINE Have == {n \in Nat : Pow2[n] \in Nat /\ Pow2[n] > 0}
  <2>1. 0 \in Have
    BY <1>6
  <2>2. \A n \in Nat : n \in Have => n + 1 \in Have
    BY <1>6
  <2>3. Nat \subseteq Have
    <3> HIDE DEF Have
    <3>. QED  BY <2>1, <2>2, Induction
  <2>. QED  BY <2>3
<1>. QED  BY <1>6, <1>7

-----------------------------------------------------------------------------
(* Groups and widths *)

\* A node has two children or more.
LEMMA NodeSizeIs ==
  ASSUME NEW order \in Order
  PROVE  NodeSize(order) \in Nat /\ NodeSize(order) >= 2
<1>1. order \in Nat /\ order - 1 \in Nat /\ order = (order - 1) + 1
  BY DEF Order
<1>2. Pow2[order] = 2 * Pow2[order - 1] /\ Pow2[order - 1] \in Nat /\ Pow2[order - 1] > 0
  BY <1>1, Pow2Is
<1>. QED  BY <1>2 DEF NodeSize

\* The groups of n items are those that its items are in, and fewer than the items.
LEMMA GroupsAre ==
  ASSUME NEW order \in Order, NEW n \in Nat
  PROVE  /\ Groups(order, n) \in Nat
         /\ n <= Groups(order, n) * NodeSize(order)
         /\ Groups(order, n) * NodeSize(order) < n + NodeSize(order)
         /\ n > NodeSize(order) => Groups(order, n) > 1 /\ Groups(order, n) < n
<1> DEFINE w == NodeSize(order)
           g == Groups(order, n)
<1>1. w \in Nat /\ w >= 2
  BY NodeSizeIs
<1>2. g = (n + (w - 1)) \div w
  BY DEF Groups
<1> HIDE DEF w, g
<1>3. g \in Nat /\ g * w <= n + (w - 1) /\ n + (w - 1) < (g + 1) * w
  BY <1>1, <1>2
<1>4. (g + 1) * w = g * w + w /\ g * w \in Nat
  BY <1>1, <1>3
<1>5. n <= g * w /\ g * w < n + w
  BY <1>1, <1>3, <1>4
<1>6. ASSUME n > w
      PROVE  g > 1 /\ g < n
  <2>1. g > 1
    <3>1. g = 0 => g * w = 0
      BY <1>1
    <3>2. g = 1 => g * w = w
      BY <1>1
    <3>. QED  BY <1>1, <1>3, <1>5, <1>6, <3>1, <3>2
  <2>2. g < n
    <3>1. SUFFICES ASSUME g >= n PROVE FALSE
      BY <1>3
    <3>2. g * w >= g * 2
      BY <1>1, <1>3
    <3>3. g * w >= n * w
      BY <1>1, <1>3, <3>1
    <3>4. n * w >= n + w
      <4>1. n * w = (n - 1) * w + w
        BY <1>1
      <4>2. (n - 1) * w >= (n - 1) * 2
        BY <1>1, <1>6
      <4>. QED  BY <1>1, <1>6, <4>1, <4>2
    <3>. QED  BY <1>1, <1>3, <1>5, <1>6, <3>3, <3>4
  <2>. QED  BY <2>1, <2>2
<1>. QED  BY <1>3, <1>5, <1>6 DEF w, g

\* A node has under it, per level, so many times more.
LEMMA WidthsAre ==
  ASSUME NEW order \in Order
  PROVE  /\ Widths(order)[0] = 1
         /\ \A h \in Nat : /\ Widths(order)[h] \in Nat /\ Widths(order)[h] > 0
                           /\ Widths(order)[h + 1] = NodeSize(order) * Widths(order)[h]
<1> DEFINE w == NodeSize(order)
           T == {0}
           mu == [n \in Nat |-> n]
           pred == [n \in Nat |-> IF n = 0 THEN 0 ELSE n - 1]
           base == [n \in Nat |-> 1]
           comb == [p \in Nat \X Nat |-> w * p[2]]
           W == Widths(order)
           Def(f) == f = [n \in Nat |-> IF n = 0 THEN 1 ELSE w * f[n - 1]]
<1>1. w \in Nat /\ w >= 2
  BY NodeSizeIs
<1>2. PICK f \in [Nat -> Nat] : \A n \in Nat : f[n] = IF n \in T THEN base[n] ELSE comb[<<n, f[pred[n]]>>]
  <2>1. mu \in [Nat -> Nat] /\ T \in SUBSET Nat /\ pred \in [Nat -> Nat] /\ base \in [Nat -> Nat]
    OBVIOUS
  <2>2. comb \in [Nat \X Nat -> Nat]
    <3> HIDE DEF w
    <3>. QED  BY <1>1
  <2>3. \A n \in Nat \ T : mu[pred[n]] < mu[n]
    OBVIOUS
  <2> HIDE DEF T, mu, pred, base, comb
  <2>4. Measured(Nat, Nat, mu, T, pred, base, comb)
    BY <2>1, <2>2, <2>3 DEF Measured
  <2>5. \E f : Unfolds(f, Nat, Nat, T, pred, base, comb)
    BY <2>4, Recursion, Zenon
  <2>. QED  BY <2>5 DEF Unfolds
<1>3. \A n \in Nat : f[n] = IF n = 0 THEN 1 ELSE w * f[n - 1]
  <2> TAKE n \in Nat
  <2>1. n # 0 => pred[n] = n - 1 /\ n - 1 \in Nat
    OBVIOUS
  <2>2. n # 0 => comb[<<n, f[n - 1]>>] = w * f[n - 1]
    <3>1. n # 0 => <<n, f[n - 1]>> \in Nat \X Nat
      BY <1>2, <2>1
    <3> HIDE DEF w
    <3>. QED  BY <3>1
  <2>3. base[n] = 1
    OBVIOUS
  <2> HIDE DEF w, pred, base, comb
  <2>. QED  BY <1>2, <2>1, <2>2, <2>3
<1>4. Def(f)
  <2> HIDE DEF w
  <2>. QED  BY <1>2, <1>3
<1>5. Def(W)
  <2>1. W = CHOOSE g : Def(g)
    BY DEF Widths
  <2> HIDE DEF Def, W
  <2>. QED  BY <1>4, <2>1
<1>6. \A n \in Nat : W[n] = IF n = 0 THEN 1 ELSE w * W[n - 1]
  <2> HIDE DEF w, W
  <2>. QED  BY <1>5
<1> HIDE DEF w, W, Def
<1>7. W[0] = 1 /\ \A h \in Nat : W[h + 1] = w * W[h]
  <2>1. \A h \in Nat : h + 1 \in Nat /\ h + 1 # 0 /\ (h + 1) - 1 = h
    OBVIOUS
  <2>. QED  BY <1>6, <2>1
<1>8. \A h \in Nat : W[h] \in Nat /\ W[h] > 0
  <2> DEFINE Have == {h \in Nat : W[h] \in Nat /\ W[h] > 0}
  <2>1. 0 \in Have
    BY <1>7
  <2>2. \A h \in Nat : h \in Have => h + 1 \in Have
    BY <1>1, <1>7
  <2>3. Nat \subseteq Have
    <3> HIDE DEF Have
    <3>. QED  BY <2>1, <2>2, Induction
  <2>. QED  BY <2>3
<1>. QED  BY <1>7, <1>8 DEF w, W

\* The level above n items, when they do not fit in a node, and the levels above that.
LEMMA LevelSizesAre ==
  ASSUME NEW order \in Order
  PROVE  \A n \in Nat :
           /\ LevelSizes(order)[n] \in Seq(Nat)
           /\ n <= NodeSize(order) => LevelSizes(order)[n] = <<>>
           /\ n > NodeSize(order) =>
                LevelSizes(order)[n] = <<Groups(order, n)>> \o LevelSizes(order)[Groups(order, n)]
<1> DEFINE w == NodeSize(order)
           G(n) == Groups(order, n)
           T == {n \in Nat : n <= w}
           mu == [n \in Nat |-> n]
           pred == [n \in Nat |-> G(n)]
           base == [n \in Nat |-> <<>>]
           comb == [p \in Nat \X Seq(Nat) |-> <<G(p[1])>> \o p[2]]
           L == LevelSizes(order)
           Def(f) == f = [n \in Nat |-> IF n <= w THEN <<>> ELSE <<G(n)>> \o f[G(n)]]
<1>1. w \in Nat /\ w >= 2
  BY NodeSizeIs
<1>2. \A n \in Nat : G(n) \in Nat /\ (n > w => G(n) < n)
  BY GroupsAre
<1> HIDE DEF w, G
<1>3. PICK f \in [Nat -> Seq(Nat)] : \A n \in Nat : f[n] = IF n \in T THEN base[n] ELSE comb[<<n, f[pred[n]]>>]
  <2>1. mu \in [Nat -> Nat] /\ T \in SUBSET Nat /\ pred \in [Nat -> Nat] /\ base \in [Nat -> Seq(Nat)]
    BY <1>2
  <2>2. comb \in [Nat \X Seq(Nat) -> Seq(Nat)]
    <3>1. \A p \in Nat \X Seq(Nat) : <<G(p[1])>> \o p[2] \in Seq(Nat)
      BY <1>2
    <3>. QED  BY <3>1
  <2>3. \A n \in Nat \ T : mu[pred[n]] < mu[n]
    BY <1>1, <1>2
  <2> HIDE DEF T, mu, pred, base, comb
  <2>4. Measured(Nat, Seq(Nat), mu, T, pred, base, comb)
    BY <2>1, <2>2, <2>3 DEF Measured
  <2>5. \E f : Unfolds(f, Nat, Seq(Nat), T, pred, base, comb)
    BY <2>4, Recursion, Zenon
  <2>. QED  BY <2>5 DEF Unfolds
<1>4. \A n \in Nat : f[n] = IF n <= w THEN <<>> ELSE <<G(n)>> \o f[G(n)]
  <2> TAKE n \in Nat
  <2>1. pred[n] = G(n) /\ base[n] = <<>>
    OBVIOUS
  <2>2. <<n, f[G(n)]>> \in Nat \X Seq(Nat)
    BY <1>2, <1>3
  <2>3. comb[<<n, f[G(n)]>>] = <<G(n)>> \o f[G(n)]
    BY <2>2
  <2>4. n \in T <=> n <= w
    OBVIOUS
  <2> HIDE DEF T, pred, base, comb
  <2>. QED  BY <1>3, <2>1, <2>3, <2>4
<1>5. Def(f)
  BY <1>3, <1>4
<1>6. Def(L)
  <2>1. L = CHOOSE g : Def(g)
    BY DEF LevelSizes, w, G
  <2> HIDE DEF Def, L
  <2>. QED  BY <1>5, <2>1
<1> HIDE DEF L
<1>7. \A n \in Nat : n <= w => L[n] = <<>>
  BY <1>6, Zenon
<1>8. \A n \in Nat : ~ (n <= w) => L[n] = <<G(n)>> \o L[G(n)]
  BY <1>6, Zenon
<1>9. \A n \in Nat : L[n] \in Seq(Nat)
  <2> DEFINE Bad == {n \in Nat : L[n] \notin Seq(Nat)}
  <2>1. SUFFICES ASSUME Bad # {} PROVE FALSE
    OBVIOUS
  <2>2. PICK b \in Bad : \A c \in Bad : b <= c
    <3>1. Bad \subseteq Nat
      OBVIOUS
    <3> HIDE DEF Bad
    <3>. QED  BY <2>1, <3>1, Least
  <2>3. b \in Nat /\ L[b] \notin Seq(Nat)
    OBVIOUS
  <2>4. <<>> \in Seq(Nat)
    OBVIOUS
  <2>5. b > w
    <3>1. ~ (b <= w)
      BY <1>7, <2>3, <2>4, Zenon
    <3> HIDE DEF Bad
    <3>. QED  BY <1>1, <2>3, <3>1
  <2>6. G(b) \in Nat /\ G(b) < b
    BY <1>2, <2>3, <2>5
  <2>7. G(b) \notin Bad
    <3> HIDE DEF Bad
    <3>. QED  BY <2>2, <2>3, <2>6
  <2>8. L[G(b)] \in Seq(Nat)
    BY <2>6, <2>7, Zenon
  <2>9. L[b] = <<G(b)>> \o L[G(b)]
    <3>1. ~ (b <= w)
      <4> HIDE DEF Bad
      <4>. QED  BY <1>1, <2>3, <2>5
    <3>. QED  BY <1>8, <2>3, <3>1, Zenon
  <2>10. <<G(b)>> \in Seq(Nat)
    BY <2>6
  <2>11. L[b] \in Seq(Nat)
    BY <2>8, <2>9, <2>10
  <2>. QED  BY <2>3, <2>11
<1>10. \A n \in Nat : n > w => ~ (n <= w)
  BY <1>1
<1>. QED  BY <1>7, <1>8, <1>9, <1>10 DEF w, G, L

\* Where each level starts: after the one before it.
LEMMA OffsetsAre ==
  ASSUME NEW sizes \in Seq(Nat)
  PROVE  /\ OffsetOf(sizes) \in [1..Len(sizes) -> Nat]
         /\ Len(sizes) > 0 => OffsetOf(sizes)[1] = 0
         /\ \A i \in 1..Len(sizes) : i > 1 => OffsetOf(sizes)[i] = OffsetOf(sizes)[i - 1] + sizes[i - 1]
<1> DEFINE S == 1..Len(sizes)
           T == {i \in S : i = 1}
           mu == [i \in S |-> i]
           pred == [i \in S |-> IF i = 1 THEN 1 ELSE i - 1]
           base == [i \in S |-> 0]
           comb == [p \in S \X Nat |-> IF p[1] = 1 THEN 0 ELSE p[2] + sizes[p[1] - 1]]
           O == OffsetOf(sizes)
           Def(f) == f = [i \in S |-> IF i = 1 THEN 0 ELSE f[i - 1] + sizes[i - 1]]
<1>1. \A i \in S : i \in Nat /\ sizes[i] \in Nat /\ (i # 1 => i - 1 \in S)
  OBVIOUS
<1>2. PICK f \in [S -> Nat] : \A i \in S : f[i] = IF i \in T THEN base[i] ELSE comb[<<i, f[pred[i]]>>]
  <2>1. mu \in [S -> Nat] /\ T \in SUBSET S /\ pred \in [S -> S] /\ base \in [S -> Nat]
    BY <1>1
  <2>2. comb \in [S \X Nat -> Nat]
    <3>1. \A p \in S \X Nat : p[1] # 1 => p[2] + sizes[p[1] - 1] \in Nat
      BY <1>1
    <3>. QED  BY <3>1
  <2>3. \A i \in S \ T : mu[pred[i]] < mu[i]
    BY <1>1
  <2> HIDE DEF S, T, mu, pred, base, comb
  <2>4. Measured(S, Nat, mu, T, pred, base, comb)
    BY <2>1, <2>2, <2>3 DEF Measured
  <2>5. \E f : Unfolds(f, S, Nat, T, pred, base, comb)
    BY <2>4, Recursion, Zenon
  <2>. QED  BY <2>5 DEF Unfolds
<1>3. \A i \in S : f[i] = IF i = 1 THEN 0 ELSE f[i - 1] + sizes[i - 1]
  <2> TAKE i \in S
  <2>1. base[i] = 0 /\ (i \in T <=> i = 1)
    OBVIOUS
  <2>2. i # 1 => pred[i] = i - 1 /\ i - 1 \in S
    OBVIOUS
  <2>3. i # 1 => comb[<<i, f[i - 1]>>] = f[i - 1] + sizes[i - 1]
    <3>1. i # 1 => <<i, f[i - 1]>> \in S \X Nat
      BY <1>2, <2>2
    <3> HIDE DEF S
    <3>. QED  BY <3>1
  <2> HIDE DEF S, T, pred, base, comb
  <2>. QED  BY <1>2, <2>1, <2>2, <2>3
<1>4. Def(f)
  <2> HIDE DEF S
  <2>. QED  BY <1>2, <1>3
<1>5. Def(O)
  <2>1. O = CHOOSE g : Def(g)
    BY DEF OffsetOf
  <2> HIDE DEF Def, O
  <2>. QED  BY <1>4, <2>1
<1> HIDE DEF O
<1>6. \A i \in S : O[i] = IF i = 1 THEN 0 ELSE O[i - 1] + sizes[i - 1]
  <2> HIDE DEF S
  <2>. QED  BY <1>5
<1>7. \A i \in S : O[i] \in Nat
  <2> DEFINE Bad == {i \in S : O[i] \notin Nat}
  <2>1. SUFFICES ASSUME Bad # {} PROVE FALSE
    OBVIOUS
  <2>2. PICK b \in Bad : \A c \in Bad : b <= c
    <3>1. Bad \subseteq Nat
      OBVIOUS
    <3> HIDE DEF Bad
    <3>. QED  BY <2>1, <3>1, Least
  <2>3. b # 1 /\ b - 1 \in S
    BY <1>6, <1>1
  <2>4. b - 1 \notin Bad
    BY <2>2, <2>3
  <2>5. O[b - 1] \in Nat /\ sizes[b - 1] \in Nat
    BY <1>1, <2>3, <2>4
  <2>. QED  BY <1>6, <2>3, <2>5
<1>8. O = [i \in S |-> IF i = 1 THEN 0 ELSE O[i - 1] + sizes[i - 1]]
  BY <1>5
<1>9. O \in [S -> Nat]
  <2> HIDE DEF S
  <2>1. DOMAIN O = S /\ O = [i \in S |-> O[i]]
    BY <1>6, <1>8
  <2>. QED  BY <1>7, <2>1
<1>. QED  BY <1>1, <1>6, <1>9 DEF O

\* The offsets behind a first level are those of the others, moved by its size.
LEMMA OffsetsBehind ==
  ASSUME NEW g \in Nat, NEW rest \in Seq(Nat)
  PROVE  LET sizes == <<g>> \o rest
         IN  /\ sizes \in Seq(Nat) /\ Len(sizes) = Len(rest) + 1 /\ sizes[1] = g
             /\ OffsetOf(sizes)[1] = 0
             /\ \A h \in 1..Len(rest) : /\ sizes[h + 1] = rest[h]
                                        /\ OffsetOf(sizes)[h + 1] = g + OffsetOf(rest)[h]
<1> DEFINE sizes == <<g>> \o rest
<1>1. /\ sizes \in Seq(Nat) /\ Len(sizes) = Len(rest) + 1 /\ sizes[1] = g
      /\ \A h \in 1..Len(rest) : sizes[h + 1] = rest[h]
  OBVIOUS
<1> HIDE DEF sizes
<1> DEFINE D == Len(rest)
           O == OffsetOf(sizes)
           P == OffsetOf(rest)
<1>2. D \in Nat
  OBVIOUS
<1>3. /\ O[1] = 0
      /\ \A i \in 1..(D + 1) : i > 1 => O[i] = O[i - 1] + sizes[i - 1]
  <2>1. Len(sizes) = D + 1 /\ Len(sizes) > 0
    BY <1>1
  <2>2. /\ O[1] = 0
        /\ \A i \in 1..Len(sizes) : i > 1 => O[i] = O[i - 1] + sizes[i - 1]
    <3>1. sizes \in Seq(Nat)
      BY <1>1
    <3> HIDE DEF D
    <3>. QED  BY <2>1, <3>1, OffsetsAre
  <2> HIDE DEF O, D
  <2>3. 1..Len(sizes) = 1..(D + 1)
    BY <2>1, Zenon
  <2>. QED  BY <2>2, <2>3, Zenon
<1>4. /\ D > 0 => P[1] = 0
      /\ \A i \in 1..D : P[i] \in Nat /\ (i > 1 => P[i] = P[i - 1] + rest[i - 1])
  BY OffsetsAre
<1> HIDE DEF D, O, P
<1>5. \A h \in 1..D : sizes[h + 1] = rest[h] /\ rest[h] \in Nat
  <2>1. \A h \in 1..D : rest[h] \in Nat
    BY DEF D
  <2>2. \A h \in 1..D : sizes[h + 1] = rest[h]
    BY <1>1, Zenon DEF D
  <2>. QED  BY <2>1, <2>2
<1> DEFINE Have == {h \in Nat : h + 1 \in 1..D => O[h + 2] = g + P[h + 1]}
<1>6. 0 \in Have
  <2>1. SUFFICES ASSUME 1 \in 1..D PROVE O[2] = g + P[1]
    OBVIOUS
  <2>2. 2 \in 1..(D + 1) /\ 2 > 1 /\ 2 - 1 = 1 /\ D > 0
    BY <1>2, <2>1
  <2>3. O[2] = O[1] + sizes[1]
    BY <1>3, <2>2
  <2>. QED  BY <1>1, <1>3, <1>4, <2>2, <2>3
<1>7. ASSUME NEW h \in Nat, h \in Have
      PROVE  h + 1 \in Have
  <2>1. SUFFICES ASSUME (h + 1) + 1 \in 1..D PROVE O[(h + 1) + 2] = g + P[(h + 1) + 1]
    OBVIOUS
  <2> DEFINE i == h + 1
  <2>2. i \in 1..D /\ i + 1 \in 1..D /\ i + 2 \in 1..(D + 1) /\ h + 2 = i + 1
    BY <1>2, <2>1
  <2>3. O[i + 1] = g + P[i]
    BY <1>7, <2>2
  <2>4. (i + 2) - 1 = i + 1 /\ (i + 1) - 1 = i /\ i + 2 > 1 /\ i + 1 > 1
    BY <2>2
  <2> HIDE DEF i
  <2>5. O[i + 2] = O[i + 1] + sizes[i + 1]
    BY <1>3, <2>2, <2>4
  <2>6. P[i + 1] = P[i] + rest[i] /\ sizes[i + 1] = rest[i]
    BY <1>4, <1>5, <2>2, <2>4
  <2>7. O[i + 2] = g + P[i + 1]
    BY <1>4, <1>5, <2>2, <2>3, <2>5, <2>6
  <2>. QED  BY <2>7 DEF i
<1>8. Nat \subseteq Have
  <2> HIDE DEF Have
  <2>. QED  BY <1>6, <1>7, Induction
<1>9. \A h \in 1..D : O[h + 1] = g + P[h]
  <2> TAKE h \in 1..D
  <2>1. h - 1 \in Have
    <3>1. h - 1 \in Nat
      BY <1>2
    <3> HIDE DEF Have
    <3>. QED  BY <1>8, <3>1
  <2>2. (h - 1) + 1 = h /\ (h - 1) + 2 = h + 1
    BY <1>2
  <2>. QED  BY <2>1, <2>2
<1>. QED  BY <1>1, <1>3, <1>9 DEF D, O, P, sizes

\* A function on 1..n is a sequence of length n.
LEMMA IsSequence ==
  ASSUME NEW S, NEW n \in Nat, NEW f \in [1..n -> S]
  PROVE  f \in Seq(S) /\ Len(f) = n
OBVIOUS

\* The level above some nodes has the bounding box of each group of them.
LEMMA LevelOverIs ==
  ASSUME NEW order \in Order, NEW below \in Seq(Node)
  PROVE  LET n == Len(below)
             above == LevelOver(order, below)
             In(i) == {below[k + 1] : k \in {j \in 0..(n - 1) : j \div NodeSize(order) = i}}
         IN  /\ above \in Seq(Node) /\ Len(above) = Groups(order, n)
             /\ \A i \in 0..(Groups(order, n) - 1) : above[i + 1] = Bbox(In(i)) /\ In(i) # {}
<1> DEFINE n == Len(below)
           above == LevelOver(order, below)
           w == NodeSize(order)
           g == Groups(order, n)
           Places(i) == {j \in 0..(n - 1) : j \div w = i}
           In(i) == {below[k + 1] : k \in Places(i)}
<1>1. w \in Nat /\ w >= 2 /\ n \in Nat
  BY NodeSizeIs
<1>2. g \in Nat /\ n <= g * w /\ g * w < n + w
  BY GroupsAre
<1>3. DOMAIN below = 1..n /\ \A k \in 0..(n - 1) : k + 1 \in 1..n /\ below[k + 1] \in Node
  OBVIOUS
<1>4. above = [i \in 1..g |-> Bbox(Range(Group(order, below, i)))]
  BY DEF LevelOver
<1> HIDE DEF n, w, g, above
<1>5. ASSUME NEW i \in 0..(g - 1)
      PROVE  /\ Range(Group(order, below, i + 1)) = In(i)
             /\ In(i) # {} /\ In(i) \subseteq Node
  <2> DEFINE a == i * w
             b == Min({(i + 1) * w, n})
             s == Group(order, below, i + 1)
  <2>1. a \in Nat /\ a < n /\ (i + 1) * w = a + w /\ (i + 1) * w \in Nat /\ (i + 1) - 1 = i
    <3>1. i \in Nat /\ i + 1 <= g
      BY <1>2
    <3>2. (i + 1) * w <= g * w
      BY <1>1, <1>2, <3>1
    <3>3. (i + 1) * w = i * w + w /\ i * w \in Nat
      BY <1>1, <3>1
    <3>4. a < n
      BY <1>1, <1>2, <3>2, <3>3
    <3>. QED  BY <1>1, <3>1, <3>3, <3>4
  <2>2. b \in Nat /\ b > a /\ b <= n /\ b <= a + w /\ (b = n \/ b = a + w)
    <3>1. {(i + 1) * w, n} \subseteq Nat /\ {(i + 1) * w, n} # {}
      BY <1>1, <2>1
    <3> DEFINE T == {(i + 1) * w, n}
    <3>2. (i + 1) * w \in T /\ n \in T /\ \A t \in T : t = (i + 1) * w \/ t = n
      OBVIOUS
    <3>3. b = Min(T)
      OBVIOUS
    <3> HIDE DEF T, b, a
    <3>4. b \in T /\ b <= (i + 1) * w /\ b <= n
      BY <3>1, <3>2, <3>3, MinIs DEF T
    <3>. QED  BY <1>1, <2>1, <3>2, <3>4
  <2>3. s = SubSeq(below, a + 1, b)
    BY <2>1 DEF Group, n, w
  <2> HIDE DEF a, b, s
  <2>4. a + 1 \in 1..n /\ b \in 1..n
    BY <1>1, <2>1, <2>2
  <2>5. s = [j \in 1..(b - a) |-> below[a + j]]
    <3>1. a + 1 \in Nat /\ b \in Nat
      BY <1>1, <2>1, <2>2
    <3>2. s = [j \in 1..(b - (a + 1) + 1) |-> below[(a + 1) + j - 1]]
      <4> DEFINE p == a + 1
      <4>1. s = SubSeq(below, p, b) /\ p \in 1..Len(below) /\ b \in 1..Len(below)
        BY <2>3, <2>4, Zenon DEF n
      <4> HIDE DEF p
      <4>2. s = [j \in 1..(b - p + 1) |-> below[p + j - 1]]
        BY <4>1, SubSeqIs
      <4>. QED  BY <4>2 DEF p
    <3>3. b - (a + 1) + 1 = b - a /\ \A j \in 1..(b - a) : (a + 1) + j - 1 = a + j
      BY <2>1, <2>2
    <3>. QED  BY <3>2, <3>3
  <2>6. Range(s) = {below[a + j] : j \in 1..(b - a)}
    BY <2>5 DEF Range
  <2>7. \A k \in 0..(n - 1) : k \div w = i <=> a <= k /\ k < b
    <3> TAKE k \in 0..(n - 1)
    <3>1. k \div w = i <=> a <= k /\ k < (i + 1) * w
      BY <1>1, QuotientIs DEF a
    <3>. QED  BY <1>1, <2>1, <2>2, <3>1
  <2>8. \A k \in Places(i) : k - a \in 1..(b - a) \/ k = a
    BY <1>1, <2>1, <2>2, <2>7
  <2>9. In(i) = {below[a + j] : j \in 1..(b - a)}
    <3>1. ASSUME NEW k \in Places(i)
          PROVE  \E j \in 1..(b - a) : k + 1 = a + j
      <4>1. (k - a) + 1 \in 1..(b - a) /\ k + 1 = a + ((k - a) + 1)
        BY <1>1, <2>1, <2>2, <2>7
      <4>. QED  BY <4>1
    <3>2. ASSUME NEW j \in 1..(b - a)
          PROVE  \E k \in Places(i) : k + 1 = a + j
      <4>1. a + j - 1 \in 0..(n - 1) /\ a <= a + j - 1 /\ a + j - 1 < b /\ (a + j - 1) + 1 = a + j
        BY <1>1, <2>1, <2>2
      <4>2. a + j - 1 \in Places(i)
        BY <2>7, <4>1
      <4>. QED  BY <4>1, <4>2
    <3> HIDE DEF Places
    <3>. QED  BY <3>1, <3>2
  <2>10. a \in Places(i)
    BY <1>1, <2>1, <2>2, <2>7
  <2>11. In(i) # {}
    BY <2>10
  <2>12. In(i) \subseteq Node
    BY <1>3
  <2> HIDE DEF In
  <2>. QED  BY <2>6, <2>9, <2>11, <2>12 DEF s
<1>6. \A i \in 0..(g - 1) : above[i + 1] = Bbox(In(i))
  <2> TAKE i \in 0..(g - 1)
  <2>1. i + 1 \in 1..g
    BY <1>2
  <2> HIDE DEF In
  <2>. QED  BY <1>4, <1>5, <2>1
<1>7. \A i \in 0..(g - 1) : above[i + 1] \in Node
  <2> HIDE DEF In
  <2>. QED  BY <1>5, <1>6, BboxIs DEF IsBbox
<1>8. above \in Seq(Node) /\ Len(above) = g
  <2>1. \A i \in 1..g : i - 1 \in 0..(g - 1) /\ (i - 1) + 1 = i
    BY <1>2
  <2>2. \A i \in 1..g : above[i] \in Node
    BY <1>7, <2>1
  <2>3. above \in [1..g -> Node]
    BY <1>4, <2>2
  <2>. QED  BY <1>2, <2>3, IsSequence
<1>. QED  BY <1>5, <1>6, <1>8 DEF n, w, g, above, In, Places

\* The nodes over some items are the level above them, when they do not fit in
\* a node, and the nodes over that.
LEMMA NodesOverAre ==
  ASSUME NEW order \in Order
  PROVE  \A below \in Seq(Node) :
           /\ NodesOver(order)[below] \in Seq(Node)
           /\ Len(below) <= NodeSize(order) => NodesOver(order)[below] = <<>>
           /\ Len(below) > NodeSize(order) =>
                NodesOver(order)[below]
                  = LevelOver(order, below) \o NodesOver(order)[LevelOver(order, below)]
<1> DEFINE w == NodeSize(order)
           A(below) == LevelOver(order, below)
           S == Seq(Node)
           T == {below \in S : Len(below) <= w}
           mu == [below \in S |-> Len(below)]
           pred == [below \in S |-> A(below)]
           base == [below \in S |-> <<>>]
           comb == [p \in S \X S |-> A(p[1]) \o p[2]]
           N == NodesOver(order)
           Def(f) == f = [below \in S |-> IF Len(below) <= w THEN <<>> ELSE A(below) \o f[A(below)]]
<1>1. w \in Nat /\ w >= 2
  BY NodeSizeIs
<1>2. \A below \in S : A(below) \in S /\ (Len(below) > w => Len(A(below)) < Len(below))
  <2> TAKE below \in S
  <2>1. A(below) \in S /\ Len(A(below)) = Groups(order, Len(below))
    BY LevelOverIs
  <2>2. Len(below) \in Nat
    OBVIOUS
  <2>. QED  BY <2>1, <2>2, GroupsAre
<1>3. Def(N) <=> N = [below \in S |-> IF Len(below) <= w THEN <<>> ELSE A(below) \o N[A(below)]]
  OBVIOUS
<1>4. N = CHOOSE g : Def(g)
  BY DEF NodesOver
<1> HIDE DEF w, A, N
<1>5. PICK f : /\ f \in [S -> S]
               /\ \A below \in S : f[below] = IF below \in T THEN base[below] ELSE comb[<<below, f[pred[below]]>>]
  <2>1. mu \in [S -> Nat] /\ T \in SUBSET S /\ pred \in [S -> S] /\ base \in [S -> S]
    BY <1>2
  <2>2. comb \in [S \X S -> S]
    <3>1. \A p \in S \X S : A(p[1]) \o p[2] \in S
      BY <1>2
    <3> HIDE DEF S
    <3>. QED  BY <3>1
  <2>3. \A below \in S \ T : mu[pred[below]] < mu[below]
    <3> TAKE below \in S \ T
    <3>1. Len(below) \in Nat /\ ~ (Len(below) <= w)
      OBVIOUS
    <3>2. Len(below) > w
      BY <1>1, <3>1
    <3>3. A(below) \in S /\ Len(A(below)) < Len(below)
      BY <1>2, <3>2
    <3>4. pred[below] = A(below) /\ mu[A(below)] = Len(A(below)) /\ mu[below] = Len(below)
      BY <3>3
    <3> HIDE DEF pred, mu
    <3>. QED  BY <3>3, <3>4
  <2> HIDE DEF S, T, mu, pred, base, comb
  <2>4. Measured(S, S, mu, T, pred, base, comb)
    BY <2>1, <2>2, <2>3 DEF Measured
  <2>5. \E f : Unfolds(f, S, S, T, pred, base, comb)
    BY <2>4, Recursion, Zenon
  <2>. QED  BY <2>5 DEF Unfolds
<1>6. \A below \in S : f[below] = IF Len(below) <= w THEN <<>> ELSE A(below) \o f[A(below)]
  <2> TAKE below \in S
  <2>1. pred[below] = A(below) /\ base[below] = <<>> /\ (below \in T <=> Len(below) <= w)
    OBVIOUS
  <2>2. <<below, f[A(below)]>> \in S \X S
    BY <1>2, <1>5
  <2>3. comb[<<below, f[A(below)]>>] = A(below) \o f[A(below)]
    <3> HIDE DEF S
    <3>. QED  BY <2>2
  <2> HIDE DEF S, T, pred, base, comb
  <2>. QED  BY <1>5, <2>1, <2>3
<1>7. Def(f)
  <2> HIDE DEF S
  <2>. QED  BY <1>5, <1>6
<1>8. Def(N)
  <2> HIDE DEF Def
  <2>. QED  BY <1>4, <1>7
<1>9. \A below \in S : N[below] = IF Len(below) <= w THEN <<>> ELSE A(below) \o N[A(below)]
  <2> HIDE DEF S
  <2>. QED  BY <1>8
<1>10. \A below \in S : Len(below) \in Nat
  OBVIOUS
<1>11. <<>> \in S
  OBVIOUS
<1>12. \A s, t \in S : s \o t \in S
  OBVIOUS
<1> HIDE DEF S, Def
<1>13. \A below \in S : Len(below) <= w => N[below] = <<>>
  BY <1>9, Zenon
<1>14. \A below \in S : Len(below) > w => N[below] = A(below) \o N[A(below)]
  <2>1. \A below \in S : Len(below) > w => ~ (Len(below) <= w)
    BY <1>1, <1>10
  <2>. QED  BY <1>9, <2>1, Zenon
<1>15. \A below \in S : N[below] \in S
  <2> DEFINE Have == {m \in Nat : \A below \in S : Len(below) <= m => N[below] \in S}
  <2>1. 0 \in Have
    <3>1. \A below \in S : Len(below) <= 0 => Len(below) <= w
      BY <1>1, <1>10
    <3>2. \A below \in S : Len(below) <= 0 => N[below] \in S
      BY <1>11, <1>13, <3>1
    <3>. QED  BY <3>2
  <2>2. ASSUME NEW m \in Nat, m \in Have
        PROVE  m + 1 \in Have
    <3>1. SUFFICES ASSUME NEW below \in S, Len(below) <= m + 1 PROVE N[below] \in S
      OBVIOUS
    <3>2. CASE Len(below) <= w
      BY <1>11, <1>13, <3>2
    <3>3. CASE Len(below) > w
      <4>1. A(below) \in S /\ Len(A(below)) < Len(below) /\ Len(A(below)) \in Nat
        BY <1>2, <1>10, <3>3
      <4>2. Len(A(below)) <= m
        BY <1>10, <3>1, <4>1
      <4>3. N[A(below)] \in S
        BY <2>2, <4>1, <4>2
      <4>. QED  BY <1>12, <1>14, <3>3, <4>1, <4>3
    <3>. QED  BY <1>1, <1>10, <3>2, <3>3
  <2>3. Nat \subseteq Have
    <3> HIDE DEF Have
    <3>. QED  BY <2>1, <2>2, Induction
  <2>4. \A below \in S : Len(below) \in Have
    <3> HIDE DEF Have
    <3>. QED  BY <1>10, <2>3
  <2>5. \A below \in S : Len(below) <= Len(below)
    BY <1>10
  <2>. QED  BY <2>4, <2>5
<1>. QED  BY <1>13, <1>14, <1>15 DEF w, A, N, S

-----------------------------------------------------------------------------
(* The scout pass and the last pass agree *)

\* The places from 0, of n items, that are under node i at a height above them.
Under(order, n, h, i) == {k \in 0..(n - 1) : k \div Widths(order)[h] = i}

\* The levels that are counted over some items are those that are written: each
\* is long enough for all the items, and each of its nodes is where its offset
\* says and the bounding box of the items under it; the last has one group.
Fits(order, below) ==
  LET n == Len(below)
      sizes == LevelSizes(order)[n]
      nodes == NodesOver(order)[below]
      top == Len(sizes)
  IN  /\ top = 0 => n <= NodeSize(order)
      /\ top > 0 => sizes[top] <= NodeSize(order)
      /\ \A h \in 1..top :
           /\ OffsetOf(sizes)[h] \in Nat
           /\ OffsetOf(sizes)[h] + sizes[h] <= Len(nodes)
           /\ \A k \in 0..(n - 1) : k \div Widths(order)[h] < sizes[h]
           /\ \A i \in 0..(sizes[h] - 1) :
                /\ Under(order, n, h, i) # {}
                /\ nodes[OffsetOf(sizes)[h] + i + 1]
                     = Bbox({below[k + 1] : k \in Under(order, n, h, i)})

\* What is over few items fits: there is no level.
LEMMA FewFit ==
  ASSUME NEW order \in Order, NEW below \in Seq(Node), Len(below) <= NodeSize(order)
  PROVE  Fits(order, below)
<1>1. Len(below) \in Nat
  OBVIOUS
<1>2. LevelSizes(order)[Len(below)] = <<>>
  BY <1>1, LevelSizesAre
<1>3. Len(LevelSizes(order)[Len(below)]) = 0
  BY <1>2
<1>4. 1..0 = {} /\ ~ (0 > 0)
  OBVIOUS
<1>. QED  BY <1>3, <1>4, Zenon DEF Fits

\* If what is over a level fits, then so does what is over the items under it.
LEMMA FitsBelow ==
  ASSUME NEW order \in Order, NEW below \in Seq(Node), Len(below) > NodeSize(order),
         Fits(order, LevelOver(order, below))
  PROVE  Fits(order, below)
<1> DEFINE w == NodeSize(order)
           W == Widths(order)
           n == Len(below)
           g == Groups(order, n)
           above == LevelOver(order, below)
           rest == LevelSizes(order)[g]
           sizes == LevelSizes(order)[n]
           O == OffsetOf(sizes)
           P == OffsetOf(rest)
           over == NodesOver(order)[above]
           nodes == NodesOver(order)[below]
           D == Len(rest)
           In(i) == {below[k + 1] : k \in {j \in 0..(n - 1) : j \div w = i}}
<1>1. w \in Nat /\ w >= 2 /\ n \in Nat /\ n > w
  BY NodeSizeIs
<1>2. g \in Nat /\ n <= g * w /\ g * w < n + w
  BY GroupsAre, <1>1
<1>3. /\ W[0] = 1
      /\ \A h \in Nat : W[h] \in Nat /\ W[h] > 0 /\ W[h + 1] = w * W[h]
  BY WidthsAre
<1>4. above \in Seq(Node) /\ Len(above) = g
  BY LevelOverIs
<1>5. \A i \in 0..(g - 1) : above[i + 1] = Bbox(In(i)) /\ In(i) # {} /\ In(i) \subseteq Node
  <2>1. \A i \in 0..(g - 1) : above[i + 1] = Bbox(In(i)) /\ In(i) # {}
    BY LevelOverIs
  <2>2. \A k \in 0..(n - 1) : below[k + 1] \in Node
    OBVIOUS
  <2>. QED  BY <2>1, <2>2
<1>6. rest \in Seq(Nat) /\ sizes = <<g>> \o rest
  BY <1>1, <1>2, LevelSizesAre
<1>7. over \in Seq(Node) /\ nodes = above \o over
  BY <1>4, NodesOverAre
<1>8. /\ D \in Nat /\ Len(sizes) = D + 1 /\ sizes[1] = g /\ O[1] = 0
      /\ \A h \in 1..D : sizes[h + 1] = rest[h] /\ O[h + 1] = g + P[h]
  <2>1. D \in Nat
    BY <1>6
  <2> HIDE DEF g, rest, sizes
  <2>. QED  BY <1>2, <1>6, <2>1, OffsetsBehind
<1>9. /\ Len(nodes) = g + Len(over) /\ Len(over) \in Nat
      /\ \A i \in 1..g : nodes[i] = above[i]
      /\ \A i \in 1..Len(over) : nodes[g + i] = over[i]
  <2> HIDE DEF nodes, over, above, g
  <2>1. nodes = above \o over /\ above \in Seq(Node) /\ over \in Seq(Node) /\ Len(above) = g
    BY <1>4, <1>7
  <2>2. Len(over) \in Nat
    BY <2>1, LenProperties
  <2>3. /\ Len(nodes) = Len(above) + Len(over)
        /\ \A i \in 1..(Len(above) + Len(over)) :
             nodes[i] = IF i <= Len(above) THEN above[i] ELSE over[i - Len(above)]
    BY <2>1, ConcatProperties
  <2>4. ASSUME NEW i \in 1..g
        PROVE  nodes[i] = above[i]
    BY <1>2, <2>1, <2>2, <2>3
  <2>5. ASSUME NEW i \in 1..Len(over)
        PROVE  nodes[g + i] = over[i]
    <3>1. g + i \in 1..(g + Len(over)) /\ ~(g + i <= g) /\ (g + i) - g = i
      BY <1>2, <2>2
    <3>. QED  BY <2>1, <2>3, <3>1
  <2>. QED  BY <2>1, <2>2, <2>3, <2>4, <2>5
<1>10. /\ D = 0 => g <= w
       /\ D > 0 => rest[D] <= w
       /\ \A h \in 1..D :
            /\ P[h] \in Nat
            /\ P[h] + rest[h] <= Len(over)
            /\ \A k \in 0..(g - 1) : k \div W[h] < rest[h]
            /\ \A i \in 0..(rest[h] - 1) :
                 /\ Under(order, g, h, i) # {}
                 /\ over[P[h] + i + 1] = Bbox({above[k + 1] : k \in Under(order, g, h, i)})
  <2> HIDE DEF g, w
  <2>. QED  BY <1>4 DEF Fits, w
<1>11. \A h \in 1..D : rest[h] \in Nat
  BY <1>6
<1>12. \A k \in 0..(n - 1) : below[k + 1] \in Node
  OBVIOUS
<1> DEFINE Goal == /\ Len(sizes) = 0 => n <= w
                   /\ Len(sizes) > 0 => sizes[Len(sizes)] <= w
                   /\ \A h \in 1..Len(sizes) :
                        /\ O[h] \in Nat
                        /\ O[h] + sizes[h] <= Len(nodes)
                        /\ \A k \in 0..(n - 1) : k \div W[h] < sizes[h]
                        /\ \A i \in 0..(sizes[h] - 1) :
                             /\ Under(order, n, h, i) # {}
                             /\ nodes[O[h] + i + 1] = Bbox({below[k + 1] : k \in Under(order, n, h, i)})
<1>13. Goal => Fits(order, below)
  BY DEF Fits
<1>14. \A h, m, i : Under(order, m, h, i) = {k \in 0..(m - 1) : k \div W[h] = i}
  BY DEF Under
<1> HIDE DEF w, W, n, g, above, rest, sizes, O, P, over, nodes, D
<1>15. sizes[Len(sizes)] <= w
  <2>1. CASE D = 0
    BY <1>8, <1>10, <2>1
  <2>2. CASE D > 0
    BY <1>8, <1>10, <2>2
  <2>. QED  BY <1>8, <2>1, <2>2
<1>16. /\ O[1] \in Nat
       /\ O[1] + sizes[1] <= Len(nodes)
       /\ \A k \in 0..(n - 1) : k \div W[1] < sizes[1]
       /\ \A i \in 0..(sizes[1] - 1) :
            /\ Under(order, n, 1, i) # {}
            /\ nodes[O[1] + i + 1] = Bbox({below[k + 1] : k \in Under(order, n, 1, i)})
  <2>1. W[1] = w
    <3>1. W[0 + 1] = w * W[0] /\ 0 + 1 = 1 /\ W[0] = 1
      BY <1>3
    <3>2. w * 1 = w
      BY <1>1
    <3>. QED  BY <3>1, <3>2
  <2>2. \A k \in 0..(n - 1) : k \div w < g
    <3> TAKE k \in 0..(n - 1)
    <3>1. k \in Nat /\ k < g * w
      BY <1>1, <1>2
    <3>. QED  BY <1>1, <1>2, <3>1, QuotientBelow
  <2>3. ASSUME NEW i \in 0..(g - 1)
        PROVE  /\ Under(order, n, 1, i) # {}
               /\ nodes[O[1] + i + 1] = Bbox({below[k + 1] : k \in Under(order, n, 1, i)})
    <3>1. Under(order, n, 1, i) = {j \in 0..(n - 1) : j \div w = i}
      BY <1>14, <2>1
    <3>2. In(i) = {below[k + 1] : k \in Under(order, n, 1, i)}
      BY <3>1
    <3>3. Under(order, n, 1, i) # {}
      BY <1>5, <3>2
    <3>4. O[1] + i + 1 = i + 1 /\ i + 1 \in 1..g
      BY <1>2, <1>8
    <3> HIDE DEF In
    <3>. QED  BY <1>5, <1>9, <3>2, <3>3, <3>4
  <2>4. O[1] \in Nat /\ O[1] + g <= Len(nodes)
    BY <1>2, <1>8, <1>9
  <2>. QED  BY <1>8, <2>1, <2>2, <2>3, <2>4, Zenon
<1>17. ASSUME NEW h \in 1..D
       PROVE  /\ O[h + 1] \in Nat
              /\ O[h + 1] + sizes[h + 1] <= Len(nodes)
              /\ \A k \in 0..(n - 1) : k \div W[h + 1] < sizes[h + 1]
              /\ \A i \in 0..(sizes[h + 1] - 1) :
                   /\ Under(order, n, h + 1, i) # {}
                   /\ nodes[O[h + 1] + i + 1] = Bbox({below[k + 1] : k \in Under(order, n, h + 1, i)})
  <2>0. h \in Nat
    BY <1>8
  <2>1. W[h] \in Nat /\ W[h] > 0 /\ W[h + 1] = w * W[h]
    BY <1>3, <2>0
  <2>9. /\ P[h] \in Nat
        /\ P[h] + rest[h] <= Len(over)
        /\ \A k \in 0..(g - 1) : k \div W[h] < rest[h]
        /\ \A i \in 0..(rest[h] - 1) :
             /\ Under(order, g, h, i) # {}
             /\ over[P[h] + i + 1] = Bbox({above[k + 1] : k \in Under(order, g, h, i)})
    BY <1>10, Zenon
  <2>10. sizes[h + 1] = rest[h] /\ O[h + 1] = g + P[h] /\ rest[h] \in Nat
    BY <1>8, <1>11
  <2>2. \A k \in 0..(n - 1) : /\ k \div w \in 0..(g - 1)
                              /\ k \div W[h + 1] = (k \div w) \div W[h]
    <3> TAKE k \in 0..(n - 1)
    <3>1. k \in Nat /\ k < g * w
      BY <1>1, <1>2
    <3>2. k \div w \in Nat /\ k \div w < g
      BY <1>1, <1>2, <3>1, QuotientBelow
    <3>3. k \div W[h + 1] = (k \div w) \div W[h]
      <4> DEFINE v == W[h]
      <4>1. k \in Nat /\ w \in Nat /\ w > 0 /\ v \in Nat /\ v > 0 /\ W[h + 1] = w * v
        BY <1>1, <2>1, <3>1
      <4> HIDE DEF v, w
      <4>2. (k \div w) \div v = k \div (w * v)
        BY <4>1, QuotientOfQuotient
      <4>3. k \div W[h + 1] = (k \div w) \div v
        BY <4>1, <4>2
      <4>. QED  BY <4>3 DEF v
    <3> DEFINE q == k \div w
    <3>4. q \in 0..(g - 1)
      <4> HIDE DEF q, g
      <4>1. q \in Nat /\ q < g
        BY <3>2 DEF q
      <4>. QED  BY <1>2, <4>1
    <3> HIDE DEF q, g, n
    <3>. QED  BY <3>3, <3>4 DEF q
  <2>3. O[h + 1] \in Nat /\ O[h + 1] + sizes[h + 1] <= Len(nodes)
    BY <1>2, <1>9, <2>9, <2>10
  <2>4. \A k \in 0..(n - 1) : k \div W[h + 1] < sizes[h + 1]
    BY <2>2, <2>9, <2>10
  <2>5. ASSUME NEW i \in 0..(sizes[h + 1] - 1)
        PROVE  /\ Under(order, n, h + 1, i) # {}
               /\ nodes[O[h + 1] + i + 1] = Bbox({below[k + 1] : k \in Under(order, n, h + 1, i)})
    <3> DEFINE J == Under(order, g, h, i)
               U == Under(order, n, h + 1, i)
               all == {below[k + 1] : k \in U}
               G == [j \in J |-> In(j)]
    <3>1. i \in 0..(rest[h] - 1)
      BY <2>10
    <3>2. J # {} /\ J = {k \in 0..(g - 1) : k \div W[h] = i}
      <4>1. J # {}
        BY <2>9, <3>1
      <4>2. J = {k \in 0..(g - 1) : k \div W[h] = i}
        BY <1>14
      <4>. QED  BY <4>1, <4>2
    <3>3. U = {k \in 0..(n - 1) : (k \div w) \div W[h] = i}
      BY <1>14, <2>2
    <3>4. \A k \in 0..(n - 1) : k \in U <=> k \div w \in J
      BY <2>2, <3>2, <3>3
    <3>5. J \subseteq 0..(g - 1) /\ U \subseteq 0..(n - 1)
      BY <3>2, <3>3
    <3> HIDE DEF J, U
    <3>6. U # {}
      <4>1. PICK j \in J : TRUE
        BY <3>2
      <4>2. In(j) # {}
        <5> HIDE DEF In
        <5>. QED  BY <1>5, <3>5
      <4>3. PICK k \in 0..(n - 1) : k \div w = j
        BY <4>2
      <4>. QED  BY <3>4, <4>3
    <3>7. \A j \in J : G[j] = In(j) /\ In(j) # {} /\ In(j) \in SUBSET Node
      <4> HIDE DEF In
      <4>. QED  BY <1>5, <3>5
    <3>8. \A x : x \in all <=> \E j \in J : x \in G[j]
      <4>1. \A x : x \in all <=> \E j \in J : x \in In(j)
        <5>1. \A x \in all : \E j \in J : x \in In(j)
          <6> TAKE x \in all
          <6>1. PICK k \in U : x = below[k + 1]
            OBVIOUS
          <6>2. k \div w \in J /\ k \in 0..(n - 1)
            BY <3>4, <3>5
          <6>. QED  BY <6>1, <6>2
        <5>2. \A j \in J : \A x \in In(j) : x \in all
          <6> TAKE j \in J
          <6> TAKE x \in In(j)
          <6>1. PICK k \in 0..(n - 1) : k \div w = j /\ x = below[k + 1]
            OBVIOUS
          <6>2. k \in U
            BY <3>4, <6>1
          <6>. QED  BY <6>1, <6>2
        <5> HIDE DEF In, all
        <5>. QED  BY <5>1, <5>2
      <4>2. \A j \in J : G[j] = In(j)
        BY <3>7
      <4> HIDE DEF G, In, all
      <4>. QED  BY <4>1, <4>2
    <3>10. \A j \in J : G[j] # {} /\ G[j] \in SUBSET Node
      <4> HIDE DEF In, G
      <4>. QED  BY <3>7
    <3> DEFINE boxes == {above[k + 1] : k \in J}
    <3>11. \A b : b \in boxes <=> \E j \in J : b = Bbox(G[j])
      <4>1. \A j \in J : above[j + 1] = Bbox(G[j])
        <5> HIDE DEF In, G
        <5>. QED  BY <1>5, <3>5, <3>7
      <4> HIDE DEF G
      <4>. QED  BY <4>1
    <3> HIDE DEF In, G, all, boxes
    <3>12. Bbox(boxes) = Bbox(all)
      <4>1. Boxed(J, G, boxes, all)
        <5>1. J # {}
          BY <3>2, Zenon
        <5>2. \A x : x \in all <=> \E j \in J : x \in G[j]
          BY <3>8, Zenon
        <5>3. /\ J # {} /\ \A j \in J : G[j] # {} /\ G[j] \in SUBSET Node
              /\ \A x : x \in all <=> \E j \in J : x \in G[j]
              /\ \A b : b \in boxes <=> \E j \in J : b = Bbox(G[j])
          BY <3>10, <3>11, <5>1, <5>2
        <5>. QED  BY <5>3 DEF Boxed
      <4>. QED  BY <4>1, BboxOfBboxes, Zenon
    <3>13. over[P[h] + i + 1] = Bbox(boxes)
      <4>1. over[P[h] + i + 1] = Bbox({above[k + 1] : k \in J})
        BY <2>9, <3>1, Zenon DEF J
      <4>. QED  BY <4>1, Zenon DEF boxes
    <3>14. nodes[O[h + 1] + i + 1] = over[P[h] + i + 1]
      <4>1. O[h + 1] = g + P[h] /\ P[h] + i + 1 \in 1..Len(over)
        BY <1>9, <2>9, <2>10, <3>1
      <4>2. O[h + 1] + i + 1 = g + (P[h] + i + 1)
        BY <1>2, <2>9, <3>1, <4>1
      <4>. QED  BY <1>9, <4>1, <4>2
    <3>15. nodes[O[h + 1] + i + 1] = Bbox(all)
      BY <3>12, <3>13, <3>14
    <3>. QED  BY <3>6, <3>15 DEF all, U
  <2>. QED  BY <2>3, <2>4, <2>5
<1>18. \A h \in 1..Len(sizes) : h = 1 \/ \E m \in 1..D : h = m + 1
  <2> TAKE h \in 1..Len(sizes)
  <2>1. h # 1 => h - 1 \in 1..D /\ h = (h - 1) + 1
    BY <1>8
  <2>. QED  BY <2>1
<1>19. Goal
  <2>1. \A h \in 1..Len(sizes) :
          /\ O[h] \in Nat
          /\ O[h] + sizes[h] <= Len(nodes)
          /\ \A k \in 0..(n - 1) : k \div W[h] < sizes[h]
          /\ \A i \in 0..(sizes[h] - 1) :
               /\ Under(order, n, h, i) # {}
               /\ nodes[O[h] + i + 1] = Bbox({below[k + 1] : k \in Under(order, n, h, i)})
    <3> TAKE h \in 1..Len(sizes)
    <3>1. CASE h = 1
      BY <1>16, <3>1, Zenon
    <3>2. CASE \E m \in 1..D : h = m + 1
      BY <1>17, <3>2, Zenon
    <3>. QED  BY <1>18, <3>1, <3>2
  <2>2. Len(sizes) # 0
    BY <1>8
  <2>. QED  BY <1>15, <2>1, <2>2
<1>. QED  BY <1>13, <1>19

\* Whatever is over some items fits.
LEMMA AllFit ==
  ASSUME NEW order \in Order
  PROVE  \A below \in Seq(Node) : Fits(order, below)
<1> DEFINE Have == {m \in Nat : \A below \in Seq(Node) : Len(below) <= m => Fits(order, below)}
           A(below) == LevelOver(order, below)
           w == NodeSize(order)
<1>1. w \in Nat /\ w >= 2
  BY NodeSizeIs
<1>2. \A below \in Seq(Node) : Len(below) \in Nat
  OBVIOUS
<1>3. 0 \in Have
  <2>1. ASSUME NEW below \in Seq(Node), Len(below) <= 0
        PROVE  Fits(order, below)
    <3>1. Len(below) <= w
      BY <1>1, <1>2, <2>1
    <3>. QED  BY <3>1, FewFit
  <2>. QED  BY <2>1
<1>4. ASSUME NEW m \in Nat, m \in Have
      PROVE  m + 1 \in Have
  <2>1. ASSUME NEW below \in Seq(Node), Len(below) <= m + 1
        PROVE  Fits(order, below)
    <3>1. CASE Len(below) <= w
      BY <3>1, FewFit
    <3>2. CASE Len(below) > w
      <4>1. A(below) \in Seq(Node) /\ Len(A(below)) = Groups(order, Len(below))
        BY LevelOverIs
      <4>2. Groups(order, Len(below)) \in Nat /\ Groups(order, Len(below)) < Len(below)
        BY <1>2, <3>2, GroupsAre
      <4>3. Len(A(below)) <= m
        <5> HIDE DEF A
        <5>. QED  BY <1>2, <2>1, <4>1, <4>2
      <4>4. Fits(order, A(below))
        <5> HIDE DEF A
        <5>. QED  BY <1>4, <4>1, <4>3
      <4>. QED  BY <3>2, <4>4, FitsBelow
    <3>. QED  BY <1>1, <1>2, <3>1, <3>2
  <2>. QED  BY <2>1
<1>5. Nat \subseteq Have
  <2> HIDE DEF Have
  <2>. QED  BY <1>3, <1>4, Induction
<1>6. \A below \in Seq(Node) : Len(below) \in Have
  <2> HIDE DEF Have
  <2>. QED  BY <1>2, <1>5
<1>7. \A below \in Seq(Node) : Len(below) <= Len(below)
  BY <1>2
<1>. QED  BY <1>6, <1>7

\* The levels of a tree are those that were counted, the last first.
LEMMA LevelsAre ==
  ASSUME NEW order \in Order, NEW n \in Nat
  PROVE  LET sizes == LevelSizes(order)[n]
             top == Len(sizes)
         IN  /\ top \in Nat /\ sizes \in [1..top -> Nat] /\ Len(Levels(order, n)) = top
             /\ \A l \in 0..(top - 1) :
                  Levels(order, n)[l + 1] = [offset |-> OffsetOf(sizes)[top - l], size |-> sizes[top - l]]
<1> DEFINE sizes == LevelSizes(order)[n]
           top == Len(sizes)
           S == [offset : Nat, size : Nat]
           placed == [i \in DOMAIN sizes |-> [offset |-> OffsetOf(sizes)[i], size |-> sizes[i]]]
           R == [i \in 1..top |-> placed[(top - i) + 1]]
<1>1. sizes \in Seq(Nat)
  BY LevelSizesAre
<1>2. top \in Nat /\ DOMAIN sizes = 1..top /\ sizes \in [1..top -> Nat]
  BY <1>1
<1>3. OffsetOf(sizes) \in [1..top -> Nat]
  BY <1>1, OffsetsAre
<1>4. Levels(order, n) = Reverse(placed)
  BY DEF Levels
<1> HIDE DEF sizes, top
<1>5. placed \in [1..top -> S]
  BY <1>2, <1>3
<1>6. placed \in Seq(S) /\ Len(placed) = top
  <2> HIDE DEF placed, S
  <2>. QED  BY <1>2, <1>5, IsSequence
<1>7. Reverse(placed) = R
  <2> HIDE DEF placed
  <2>. QED  BY <1>6 DEF Reverse
<1>8. \A i \in 1..top : (top - i) + 1 \in 1..top
  BY <1>2
<1>9. R \in [1..top -> S]
  <2> HIDE DEF placed, S
  <2>. QED  BY <1>5, <1>8
<1>10. Len(R) = top
  <2> HIDE DEF R, S
  <2>. QED  BY <1>2, <1>9, IsSequence
<1>11. ASSUME NEW l \in 0..(top - 1)
       PROVE  R[l + 1] = [offset |-> OffsetOf(sizes)[top - l], size |-> sizes[top - l]]
  <2>1. l + 1 \in 1..top /\ (top - (l + 1)) + 1 = top - l /\ top - l \in 1..top
    BY <1>2
  <2>2. R[l + 1] = placed[top - l]
    <3> HIDE DEF placed
    <3>. QED  BY <2>1
  <2>3. top - l \in DOMAIN sizes
    BY <1>2, <2>1
  <2>. QED  BY <2>2, <2>3
<1> HIDE DEF R, placed, S
<1>. QED  BY <1>2, <1>4, <1>7, <1>10, <1>11 DEF sizes, top

\* The node of a level, or the leaf, from 0, that is above a leaf.
Up(t, l, k) == k \div Widths(t.order)[Depth(t) - l]

\* What a reader counts on: the root fits in a node, each leaf has a node above it
\* in each level, under the one of the level before, and each node has a leaf and
\* is the bounding box of its leaves.
Readable(t) ==
  LET n == Len(t.leaves)
  IN  /\ t.order \in Order /\ t.leaves \in Seq(Node) /\ n > 0
      /\ Depth(t) \in Nat /\ Len(Items(t, 0)) <= NodeSize(t.order)
      /\ Items(t, Depth(t)) = t.leaves
      /\ IsBbox(t.bbox, Range(t.leaves))
      /\ \A l \in 0..Depth(t) : Items(t, l) \in Seq(Node)
      /\ \A l \in 0..Depth(t), k \in 0..(n - 1) : Up(t, l, k) \in 0..(Len(Items(t, l)) - 1)
      /\ \A k \in 0..(n - 1) : Up(t, Depth(t), k) = k
      /\ \A l \in 0..(Depth(t) - 1), k \in 0..(n - 1) :
           Up(t, l, k) = Up(t, l + 1, k) \div NodeSize(t.order)
      /\ \A l \in 0..(Depth(t) - 1) : \A i \in 0..(Len(Items(t, l)) - 1) :
           /\ {k \in 0..(n - 1) : Up(t, l, k) = i} # {}
           /\ Items(t, l)[i + 1] = Bbox({t.leaves[k + 1] : k \in {j \in 0..(n - 1) : Up(t, l, j) = i}})

\* A tree that is built is one that can be read.
LEMMA BuiltIsReadable ==
  ASSUME NEW order \in Order, NEW leaves \in Seq(Node), leaves # <<>>,
         NEW t, t = TreeOf(order, leaves)
  PROVE  Readable(t) /\ \A l \in 0..(Depth(t) - 1) : Len(NodeLevel(t, l)) = t.levels[l + 1].size
<1> DEFINE n == Len(leaves)
           w == NodeSize(order)
           W == Widths(order)
           sizes == LevelSizes(order)[n]
           O == OffsetOf(sizes)
           nodes == NodesOver(order)[leaves]
           top == Len(sizes)
           Item(l) == Items(t, l)
           Level(l) == NodeLevel(t, l)
<1>1. /\ t.order = order /\ t.leaves = leaves /\ t.nodes = nodes
      /\ t.levels = Levels(order, n) /\ t.bbox = Bbox(Range(leaves))
  BY DEF TreeOf
<1>2. n \in Nat /\ n > 0 /\ w \in Nat /\ w >= 2
  BY NodeSizeIs
<1>3. /\ top \in Nat /\ sizes \in [1..top -> Nat] /\ Depth(t) = top
      /\ \A l \in 0..(top - 1) : t.levels[l + 1] = [offset |-> O[top - l], size |-> sizes[top - l]]
  <2>1. Depth(t) = Len(Levels(order, n))
    BY <1>1 DEF Depth
  <2> HIDE DEF n
  <2>. QED  BY <1>1, <1>2, <2>1, LevelsAre
<1>4. nodes \in Seq(Node)
  BY NodesOverAre
<1>5. /\ W[0] = 1
      /\ \A h \in Nat : W[h] \in Nat /\ W[h] > 0 /\ W[h + 1] = w * W[h]
  BY WidthsAre
<1>6. /\ top = 0 => n <= w
      /\ top > 0 => sizes[top] <= w
      /\ \A h \in 1..top :
           /\ O[h] \in Nat
           /\ O[h] + sizes[h] <= Len(nodes)
           /\ \A k \in 0..(n - 1) : k \div W[h] < sizes[h]
           /\ \A i \in 0..(sizes[h] - 1) :
                /\ Under(order, n, h, i) # {}
                /\ nodes[O[h] + i + 1] = Bbox({leaves[k + 1] : k \in Under(order, n, h, i)})
  BY AllFit DEF Fits
<1>7. \A h, i : Under(order, n, h, i) = {k \in 0..(n - 1) : k \div W[h] = i}
  BY DEF Under
<1>8. \A l, k : Up(t, l, k) = k \div W[top - l]
  BY <1>1, <1>3 DEF Up
<1>9. \A l \in 0..(top - 1) : Item(l) = Level(l)
  BY <1>3 DEF Items
<1>10. Item(top) = leaves
  BY <1>1, <1>3 DEF Items
<1>11. \A l \in 0..(top - 1) : Level(l) = SubSeq(nodes, t.levels[l + 1].offset + 1, t.levels[l + 1].offset + t.levels[l + 1].size)
  BY <1>1, <1>3 DEF NodeLevel
<1>12. IsBbox(t.bbox, Range(leaves))
  <2>1. DOMAIN leaves = 1..n
    OBVIOUS
  <2>2. Range(leaves) \in SUBSET Node
    BY <2>1 DEF Range
  <2>3. leaves[1] \in Range(leaves)
    BY <1>2, <2>1 DEF Range
  <2>. QED  BY <1>1, <2>2, <2>3, BboxIs
<1> HIDE DEF n, w, W, sizes, O, nodes, top, Item, Level
<1>13. ASSUME NEW l \in 0..(top - 1)
       PROVE  /\ sizes[top - l] \in Nat /\ sizes[top - l] > 0
              /\ Level(l) \in Seq(Node) /\ Len(Level(l)) = sizes[top - l]
              /\ t.levels[l + 1].size = sizes[top - l]
              /\ \A i \in 0..(sizes[top - l] - 1) : Level(l)[i + 1] = nodes[O[top - l] + i + 1]
  <2> DEFINE h == top - l
             o == O[h]
             s == sizes[h]
  <2>1. h \in 1..top
    BY <1>3
  <2>2. s \in Nat /\ o \in Nat /\ o + s <= Len(nodes) /\ Len(nodes) \in Nat
    BY <1>3, <1>4, <1>6, <2>1
  <2>3. 0 \div W[h] < s
    BY <1>2, <1>6, <2>1
  <2>4. s > 0
    <3>1. h \in Nat
      BY <2>1
    <3> HIDE DEF h, s
    <3>2. 0 \div W[h] \in Nat
      BY <1>5, <3>1, QuotientIs
    <3>. QED  BY <2>2, <2>3, <3>2
  <2>5. t.levels[l + 1].offset = o /\ t.levels[l + 1].size = s
    <3>1. t.levels[l + 1] = [offset |-> o, size |-> s]
      BY <1>3, Zenon
    <3> HIDE DEF o, s
    <3>. QED  BY <3>1
  <2>6. Level(l) = SubSeq(nodes, o + 1, o + s)
    BY <1>11, <2>5
  <2> HIDE DEF h, o, s
  <2>7. SubSeq(nodes, o + 1, o + s) = [j \in 1..s |-> nodes[o + j]]
    <3>1. SubSeq(nodes, o + 1, o + s) = [j \in 1..(o + s - (o + 1) + 1) |-> nodes[(o + 1) + j - 1]]
      BY <1>4, <2>2
    <3>2. o + s - (o + 1) + 1 = s /\ \A j \in 1..s : (o + 1) + j - 1 = o + j
      BY <2>2
    <3>. QED  BY <3>1, <3>2
  <2>8. \A j \in 1..s : nodes[o + j] \in Node
    <3>1. DOMAIN nodes = 1..Len(nodes) /\ \A j \in 1..Len(nodes) : nodes[j] \in Node
      BY <1>4
    <3>2. \A j \in 1..s : o + j \in 1..Len(nodes)
      BY <2>2
    <3>. QED  BY <3>1, <3>2
  <2>9. Level(l) \in [1..s -> Node]
    BY <2>6, <2>7, <2>8
  <2>10. Level(l) \in Seq(Node) /\ Len(Level(l)) = s
    BY <2>2, <2>9, IsSequence
  <2>11. \A i \in 0..(s - 1) : Level(l)[i + 1] = nodes[o + i + 1]
    <3> TAKE i \in 0..(s - 1)
    <3>1. i + 1 \in 1..s /\ o + (i + 1) = o + i + 1
      BY <2>2
    <3>2. Level(l)[i + 1] = nodes[o + (i + 1)]
      BY <2>6, <2>7, <3>1
    <3>. QED  BY <3>1, <3>2
  <2>. QED  BY <2>2, <2>4, <2>5, <2>10, <2>11 DEF h, o, s
<1>14. \A l \in 0..top : Item(l) \in Seq(Node)
  <2>1. \A l \in 0..top : l = top \/ l \in 0..(top - 1)
    BY <1>3
  <2>. QED  BY <1>9, <1>10, <1>13, <2>1
<1>15. \A k \in 0..(n - 1) : Up(t, top, k) = k
  <2> TAKE k \in 0..(n - 1)
  <2>1. top - top = 0 /\ k \div 1 = k
    BY <1>2, <1>3
  <2>. QED  BY <1>5, <1>8, <2>1
<1>16. ASSUME NEW l \in 0..top, NEW k \in 0..(n - 1)
       PROVE  Up(t, l, k) \in 0..(Len(Item(l)) - 1)
  <2>1. CASE l = top
    BY <1>2, <1>10, <1>15, <2>1 DEF n
  <2>2. CASE l \in 0..(top - 1)
    <3>1. top - l \in 1..top /\ top - l \in Nat /\ k \in Nat
      BY <1>2, <1>3, <2>2
    <3>2. Len(Item(l)) = sizes[top - l] /\ sizes[top - l] \in Nat
      BY <1>9, <1>13, <2>2
    <3>3. k \div W[top - l] < sizes[top - l]
      BY <1>6, <3>1
    <3>4. k \div W[top - l] \in Nat
      BY <1>5, <3>1, QuotientIs
    <3>. QED  BY <1>8, <3>2, <3>3, <3>4
  <2>. QED  BY <1>3, <2>1, <2>2
<1>17. ASSUME NEW l \in 0..(top - 1), NEW k \in 0..(n - 1)
       PROVE  Up(t, l, k) = Up(t, l + 1, k) \div w
  <2> DEFINE h == top - (l + 1)
  <2>1. h \in Nat /\ top - l = h + 1 /\ k \in Nat
    BY <1>2, <1>3
  <2>2. Up(t, l, k) = k \div W[h + 1] /\ Up(t, l + 1, k) = k \div W[h]
    BY <1>8, <2>1
  <2> HIDE DEF h
  <2>3. W[h] \in Nat /\ W[h] > 0 /\ W[h + 1] = w * W[h]
    BY <1>5, <2>1
  <2>4. w * W[h] = W[h] * w
    BY <1>2, <2>3
  <2>5. (k \div W[h]) \div w = k \div (W[h] * w)
    <3> DEFINE v == W[h]
    <3>1. k \in Nat /\ w \in Nat /\ w > 0 /\ v \in Nat /\ v > 0
      BY <1>2, <2>1, <2>3
    <3> HIDE DEF v
    <3>2. (k \div v) \div w = k \div (v * w)
      BY <3>1, QuotientOfQuotient
    <3>. QED  BY <3>2 DEF v
  <2>. QED  BY <2>2, <2>3, <2>4, <2>5
<1>18. ASSUME NEW l \in 0..(top - 1), NEW i \in 0..(Len(Item(l)) - 1)
       PROVE  LET below == {j \in 0..(n - 1) : Up(t, l, j) = i}
              IN  below # {} /\ Item(l)[i + 1] = Bbox({leaves[k + 1] : k \in below})
  <2> DEFINE below == {j \in 0..(n - 1) : Up(t, l, j) = i}
  <2>1. top - l \in 1..top
    BY <1>3
  <2>2. i \in 0..(sizes[top - l] - 1) /\ Item(l)[i + 1] = nodes[O[top - l] + i + 1]
    BY <1>9, <1>13
  <2>3. below = Under(order, n, top - l, i)
    BY <1>7, <1>8
  <2> HIDE DEF below
  <2>4. /\ Under(order, n, top - l, i) # {}
        /\ nodes[O[top - l] + i + 1] = Bbox({leaves[k + 1] : k \in Under(order, n, top - l, i)})
    BY <1>6, <2>1, <2>2
  <2>. QED  BY <2>2, <2>3, <2>4 DEF below
<1>19. Len(Item(0)) <= w
  <2>1. CASE top = 0
    BY <1>6, <1>10, <2>1 DEF n
  <2>2. CASE top > 0
    <3>1. 0 \in 0..(top - 1) /\ top - 0 = top
      BY <1>3, <2>2
    <3>. QED  BY <1>6, <1>9, <1>13, <2>2, <3>1
  <2>. QED  BY <1>3, <2>1, <2>2
<1>20. Readable(t)
  <2>1. t.order \in Order /\ t.leaves \in Seq(Node) /\ n > 0 /\ n = Len(t.leaves)
    BY <1>1, <1>2 DEF n
  <2>2. Depth(t) \in Nat /\ Len(Items(t, 0)) <= NodeSize(t.order) /\ Items(t, Depth(t)) = t.leaves
    BY <1>1, <1>3, <1>10, <1>19 DEF Item, w
  <2>3. IsBbox(t.bbox, Range(t.leaves))
    BY <1>1, <1>12
  <2>4. \A l \in 0..Depth(t) : Items(t, l) \in Seq(Node)
    BY <1>3, <1>14 DEF Item
  <2>5. \A l \in 0..Depth(t), k \in 0..(n - 1) : Up(t, l, k) \in 0..(Len(Items(t, l)) - 1)
    BY <1>3, <1>16 DEF Item
  <2>6. \A k \in 0..(n - 1) : Up(t, Depth(t), k) = k
    BY <1>3, <1>15
  <2>7. \A l \in 0..(Depth(t) - 1), k \in 0..(n - 1) :
          Up(t, l, k) = Up(t, l + 1, k) \div NodeSize(t.order)
    BY <1>1, <1>3, <1>17 DEF w
  <2>8. \A l \in 0..(Depth(t) - 1) : \A i \in 0..(Len(Items(t, l)) - 1) :
          /\ {k \in 0..(n - 1) : Up(t, l, k) = i} # {}
          /\ Items(t, l)[i + 1] = Bbox({t.leaves[k + 1] : k \in {j \in 0..(n - 1) : Up(t, l, j) = i}})
    <3>1. TAKE l \in 0..(Depth(t) - 1)
    <3>2. TAKE i \in 0..(Len(Items(t, l)) - 1)
    <3>3. l \in 0..(top - 1) /\ i \in 0..(Len(Item(l)) - 1)
      BY <1>3 DEF Item
    <3> DEFINE under == {j \in 0..(n - 1) : Up(t, l, j) = i}
    <3>4. under # {} /\ Item(l)[i + 1] = Bbox({leaves[k + 1] : k \in under})
      BY <1>18, <3>3, Zenon
    <3>5. Item(l) = Items(t, l)
      BY DEF Item
    <3> HIDE DEF under
    <3>6. Items(t, l)[i + 1] = Bbox({t.leaves[k + 1] : k \in under})
      BY <1>1, <3>4, <3>5
    <3>. QED  BY <3>4, <3>6 DEF under
  <2> DEFINE Placed(m) ==
        /\ \A l \in 0..Depth(t), k \in 0..(m - 1) : Up(t, l, k) \in 0..(Len(Items(t, l)) - 1)
        /\ \A k \in 0..(m - 1) : Up(t, Depth(t), k) = k
        /\ \A l \in 0..(Depth(t) - 1), k \in 0..(m - 1) :
             Up(t, l, k) = Up(t, l + 1, k) \div NodeSize(t.order)
        /\ \A l \in 0..(Depth(t) - 1) : \A i \in 0..(Len(Items(t, l)) - 1) :
             /\ {k \in 0..(m - 1) : Up(t, l, k) = i} # {}
             /\ Items(t, l)[i + 1] = Bbox({t.leaves[k + 1] : k \in {j \in 0..(m - 1) : Up(t, l, j) = i}})
  <2>9. Placed(n)
    BY <2>5, <2>6, <2>7, <2>8, Zenon
  <2>10. Placed(Len(t.leaves))
    <3> HIDE DEF Placed
    <3>. QED  BY <2>1, <2>9, Zenon
  <2>11. Len(t.leaves) > 0
    BY <2>1, Zenon
  <2>. QED  BY <2>1, <2>2, <2>3, <2>4, <2>10, <2>11, Zenon DEF Readable
<1>21. \A l \in 0..(Depth(t) - 1) : Len(NodeLevel(t, l)) = t.levels[l + 1].size
  <2> TAKE l \in 0..(Depth(t) - 1)
  <2>1. l \in 0..(top - 1)
    BY <1>3, Zenon
  <2>2. Len(Level(l)) = t.levels[l + 1].size
    BY <1>13, <2>1, Zenon
  <2>. QED  BY <2>2 DEF Level
<1>. QED  BY <1>20, <1>21

\* What the scout pass counts and what the last pass writes agree: every node a
\* reader finds through the levels is the bounding box of exactly the leaves that
\* its place says are under it, and the levels end where one node is enough
\* (crates/index/src/pass/scout.rs:209-233, crates/index/src/lib.rs:160-190).
THEOREM TreesAreSound ==
  ASSUME NEW order \in Order, NEW leaves \in Seq(Node), leaves # <<>>
  PROVE  NodesBoundTheirLeaves(TreeOf(order, leaves))
<1> DEFINE t == TreeOf(order, leaves)
           n == Len(t.leaves)
<1>1. Readable(t) /\ \A l \in 0..(Depth(t) - 1) : Len(NodeLevel(t, l)) = t.levels[l + 1].size
  BY BuiltIsReadable, Zenon
<1> HIDE DEF t
<1>2. /\ n \in Nat /\ n > 0 /\ Depth(t) \in Nat /\ Len(Items(t, 0)) <= NodeSize(t.order)
      /\ \A l \in 0..Depth(t) : Items(t, l) \in Seq(Node)
      /\ \A l \in 0..Depth(t), k \in 0..(n - 1) : Up(t, l, k) \in 0..(Len(Items(t, l)) - 1)
  BY <1>1 DEF Readable
<1>3. \A l \in 0..(Depth(t) - 1) : \A i \in 0..(Len(Items(t, l)) - 1) :
        /\ {k \in 0..(n - 1) : Up(t, l, k) = i} # {}
        /\ Items(t, l)[i + 1] = Bbox({t.leaves[k + 1] : k \in {j \in 0..(n - 1) : Up(t, l, j) = i}})
  BY <1>1, Zenon DEF Readable
<1>4. \A l \in 0..(Depth(t) - 1) : Items(t, l) = NodeLevel(t, l) /\ l \in 0..Depth(t)
  BY <1>2 DEF Items
<1>5. \A l, i : LeavesUnder(t, l, i) = {k \in 0..(n - 1) : Up(t, l, k) = i}
  BY DEF LeavesUnder, Up
<1>6. ASSUME NEW l \in 0..(Depth(t) - 1)
      PROVE  /\ Len(NodeLevel(t, l)) = t.levels[l + 1].size
             /\ UNION {LeavesUnder(t, l, i) : i \in 0..(t.levels[l + 1].size - 1)} = 0..(n - 1)
             /\ \A i \in 0..(t.levels[l + 1].size - 1) :
                  /\ LeavesUnder(t, l, i) # {}
                  /\ NodeLevel(t, l)[i + 1] = Bbox({t.leaves[k + 1] : k \in LeavesUnder(t, l, i)})
  <2> DEFINE size == t.levels[l + 1].size
  <2>1. Len(NodeLevel(t, l)) = size /\ Items(t, l) = NodeLevel(t, l) /\ l \in 0..Depth(t)
    BY <1>1, <1>4
  <2> HIDE DEF size
  <2>2. \A k \in 0..(n - 1) : Up(t, l, k) \in 0..(size - 1)
    BY <1>2, <2>1
  <2>3. \A k \in 0..(n - 1) : k \in LeavesUnder(t, l, Up(t, l, k))
    BY <1>5
  <2>4. \A i : LeavesUnder(t, l, i) \subseteq 0..(n - 1)
    BY <1>5
  <2>5. UNION {LeavesUnder(t, l, i) : i \in 0..(size - 1)} = 0..(n - 1)
    BY <2>2, <2>3, <2>4
  <2>6. \A i \in 0..(size - 1) :
          /\ LeavesUnder(t, l, i) # {}
          /\ NodeLevel(t, l)[i + 1] = Bbox({t.leaves[k + 1] : k \in LeavesUnder(t, l, i)})
    <3> TAKE i \in 0..(size - 1)
    <3> DEFINE under == {k \in 0..(n - 1) : Up(t, l, k) = i}
    <3>1. under # {} /\ Items(t, l)[i + 1] = Bbox({t.leaves[k + 1] : k \in under})
      <4>1. i \in 0..(Len(Items(t, l)) - 1)
        BY <2>1
      <4>. QED  BY <1>3, <4>1, Zenon
    <3>2. under = LeavesUnder(t, l, i)
      BY <1>5
    <3> HIDE DEF under
    <3>. QED  BY <2>1, <3>1, <3>2
  <2>. QED  BY <2>1, <2>5, <2>6 DEF size
<1>7. NodesBoundTheirLeaves(t)
  BY <1>2, <1>6 DEF NodesBoundTheirLeaves
<1>. QED  BY <1>7 DEF t

-----------------------------------------------------------------------------
(* What a reader makes of a tree *)

\* A rectangle holds another.
Around(a, b) == /\ a.time_min <= b.time_min /\ b.time_max <= a.time_max
                /\ a.key_min <= b.key_min /\ b.key_max <= a.key_max

\* A leaf is in the bounding box of the tree, and in every node above it.
LEMMA NodesHoldLeaves ==
  ASSUME NEW t, Readable(t), NEW k \in 0..(Len(t.leaves) - 1)
  PROVE  /\ t.leaves[k + 1] \in Node /\ t.bbox \in Node /\ Around(t.bbox, t.leaves[k + 1])
         /\ \A l \in 0..Depth(t) : /\ Items(t, l)[Up(t, l, k) + 1] \in Node
                                   /\ Around(Items(t, l)[Up(t, l, k) + 1], t.leaves[k + 1])
<1> DEFINE n == Len(t.leaves)
           leaf == t.leaves[k + 1]
<1>1. /\ t.leaves \in Seq(Node) /\ n \in Nat /\ Depth(t) \in Nat
      /\ Items(t, Depth(t)) = t.leaves /\ IsBbox(t.bbox, Range(t.leaves))
      /\ \A l \in 0..Depth(t) : Items(t, l) \in Seq(Node)
  BY DEF Readable
<1>2. \A l \in 0..Depth(t), j \in 0..(n - 1) : Up(t, l, j) \in 0..(Len(Items(t, l)) - 1)
  BY DEF Readable
<1>3. \A j \in 0..(n - 1) : Up(t, Depth(t), j) = j
  BY DEF Readable
<1>4. \A l \in 0..(Depth(t) - 1) : \A i \in 0..(Len(Items(t, l)) - 1) :
        Items(t, l)[i + 1] = Bbox({t.leaves[j + 1] : j \in {jj \in 0..(n - 1) : Up(t, l, jj) = i}})
  BY Zenon DEF Readable
<1>5. \A j \in 0..(n - 1) : j + 1 \in DOMAIN t.leaves /\ t.leaves[j + 1] \in Node
  BY <1>1
<1>6. leaf \in Node /\ leaf \in Range(t.leaves)
  BY <1>5 DEF Range
<1>7. t.bbox \in Node /\ Around(t.bbox, leaf)
  BY <1>1, <1>6 DEF IsBbox, Around
<1>8. ASSUME NEW l \in 0..(Depth(t) - 1)
      PROVE  /\ Items(t, l)[Up(t, l, k) + 1] \in Node
             /\ Around(Items(t, l)[Up(t, l, k) + 1], leaf)
  <2> DEFINE i == Up(t, l, k)
             under == {j \in 0..(n - 1) : Up(t, l, j) = i}
             all == {t.leaves[j + 1] : j \in under}
  <2>1. i \in 0..(Len(Items(t, l)) - 1)
    <3>1. l \in 0..Depth(t)
      BY <1>1
    <3>. QED  BY <1>2, <3>1
  <2>2. Items(t, l)[i + 1] = Bbox(all)
    BY <1>4, <2>1, Zenon
  <2>3. k \in under /\ under \subseteq 0..(n - 1)
    OBVIOUS
  <2>4. leaf \in all /\ all \in SUBSET Node
    <3> HIDE DEF under
    <3>. QED  BY <1>5, <2>3
  <2> HIDE DEF all
  <2>5. IsBbox(Bbox(all), all)
    BY <2>4, BboxIs
  <2> HIDE DEF leaf, i
  <2>. QED  BY <2>2, <2>4, <2>5 DEF IsBbox, Around, i
<1>9. \A l \in 0..Depth(t) : l = Depth(t) \/ l \in 0..(Depth(t) - 1)
  BY <1>1
<1>10. Items(t, Depth(t))[Up(t, Depth(t), k) + 1] = leaf
  BY <1>1, <1>3
<1>11. Around(leaf, leaf)
  BY <1>6, NodeFields DEF Around
<1>. QED  BY <1>6, <1>7, <1>8, <1>9, <1>10, <1>11

\* The items under an item are those whose place is a multiple of its own and what
\* is left of a group; of each level there is a leaf, so there is one at least.
LEMMA ChildrenAre ==
  ASSUME NEW t, Readable(t), NEW l \in 0..(Depth(t) - 1), NEW i \in 0..(Len(Items(t, l)) - 1)
  PROVE  LET w == NodeSize(t.order)
             size == Len(Items(t, l + 1))
         IN  /\ size \in Nat /\ w \in Nat /\ w >= 2 /\ i * w \in Nat /\ i * w < size
             /\ \A k \in 0..(Len(t.leaves) - 1) : Up(t, l, k) = Up(t, l + 1, k) \div w
<1> DEFINE n == Len(t.leaves)
           w == NodeSize(t.order)
           size == Len(Items(t, l + 1))
<1>1. /\ w \in Nat /\ w >= 2 /\ Depth(t) \in Nat /\ n \in Nat
  BY NodeSizeIs DEF Readable
<1>2. l + 1 \in 0..Depth(t)
  BY <1>1
<1>3. size \in Nat
  BY <1>2 DEF Readable
<1>4. \A k \in 0..(n - 1) : Up(t, l, k) = Up(t, l + 1, k) \div w
  BY DEF Readable
<1>5. \A k \in 0..(n - 1) : Up(t, l + 1, k) \in 0..(size - 1)
  BY <1>2 DEF Readable
<1>6. {k \in 0..(n - 1) : Up(t, l, k) = i} # {}
  BY DEF Readable
<1>7. PICK k \in 0..(n - 1) : Up(t, l, k) = i
  BY <1>6
<1> DEFINE u == Up(t, l + 1, k)
<1>8. u \div w = i /\ u \in Nat /\ u < size
  BY <1>3, <1>4, <1>5, <1>7
<1>9. i \in Nat
  BY <1>7, <1>8, <1>1, <1>4
<1> HIDE DEF u, w, size
<1>10. i * w <= u /\ i * w \in Nat
  BY <1>1, <1>8, <1>9, QuotientIs
<1>. QED  BY <1>1, <1>3, <1>4, <1>8, <1>10 DEF w, size
=============================================================================

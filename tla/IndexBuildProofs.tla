-------------------------- MODULE IndexBuildProofs --------------------------
(***************************************************************************)
(* What IndexBuild promises, for every trace and every order of the        *)
(* workers: first what the curve, the layout and the passes that count     *)
(* give, then the invariant of the fill pass and that of the whole build.  *)
(***************************************************************************)
EXTENDS IndexBuild, RTreeProofs

-----------------------------------------------------------------------------
(* Powers and sums *)

\* A power of a sum is the product of the powers.
LEMMA Pow2Sum ==
  ASSUME NEW m \in Nat, NEW n \in Nat
  PROVE  Pow2[m + n] = Pow2[m] * Pow2[n]
<1> DEFINE Have == {k \in Nat : Pow2[m + k] = Pow2[m] * Pow2[k]}
<1>1. 0 \in Have
  BY Pow2Is
<1>2. ASSUME NEW k \in Nat, k \in Have
      PROVE  k + 1 \in Have
  <2> DEFINE a == Pow2[m]
             b == Pow2[k]
             c == Pow2[m + k]
  <2>1. /\ a \in Nat /\ b \in Nat /\ c \in Nat /\ c = a * b
        /\ Pow2[k + 1] = 2 * b /\ Pow2[(m + k) + 1] = 2 * c
    BY <1>2, Pow2Is
  <2>2. (m + k) + 1 = m + (k + 1)
    OBVIOUS
  <2> HIDE DEF a, b, c
  <2>3. 2 * c = a * (2 * b)
    BY <2>1
  <2>4. Pow2[m + (k + 1)] = a * Pow2[k + 1]
    BY <2>1, <2>2, <2>3
  <2>. QED  BY <2>4 DEF a
<1>3. Nat \subseteq Have
  <2> HIDE DEF Have
  <2>. QED  BY <1>1, <1>2, Induction
<1>. QED  BY <1>3

\* A function that sums up the first n values of f.
Sums(sum, f, n) ==
  /\ sum \in [0..n -> Nat] /\ sum[0] = 0
  /\ \A i \in 0..(n - 1) : sum[i + 1] = sum[i] + f[i]

\* Such partial sums exist, and SumTo is the last of them.
LEMMA SumExists ==
  ASSUME NEW n \in Nat, NEW f, \A i \in 0..(n - 1) : f[i] \in Nat
  PROVE  \E sum : Sums(sum, f, n) /\ SumTo(f, n) = sum[n]
<1> DEFINE S == 0..n
           T == {i \in S : i = 0}
           mu == [i \in S |-> i]
           pred == [i \in S |-> IF i = 0 THEN 0 ELSE i - 1]
           base == [i \in S |-> 0]
           comb == [p \in S \X Nat |-> IF p[1] = 0 THEN 0 ELSE p[2] + f[p[1] - 1]]
           Def(g) == g = [i \in S |-> IF i = 0 THEN 0 ELSE g[i - 1] + f[i - 1]]
           O == CHOOSE g : Def(g)
<1>1. \A i \in S : i \in Nat /\ (i # 0 => i - 1 \in S /\ i - 1 \in 0..(n - 1) /\ f[i - 1] \in Nat)
  OBVIOUS
<1>2. PICK g \in [S -> Nat] : \A i \in S : g[i] = IF i \in T THEN base[i] ELSE comb[<<i, g[pred[i]]>>]
  <2>1. mu \in [S -> Nat] /\ T \in SUBSET S /\ pred \in [S -> S] /\ base \in [S -> Nat]
    BY <1>1
  <2>2. comb \in [S \X Nat -> Nat]
    <3>1. \A p \in S \X Nat : p[1] # 0 => p[2] + f[p[1] - 1] \in Nat
      BY <1>1
    <3>. QED  BY <3>1
  <2>3. \A i \in S \ T : mu[pred[i]] < mu[i]
    BY <1>1
  <2> HIDE DEF S, T, mu, pred, base, comb
  <2>4. Measured(S, Nat, mu, T, pred, base, comb)
    BY <2>1, <2>2, <2>3 DEF Measured
  <2>5. \E g : Unfolds(g, S, Nat, T, pred, base, comb)
    BY <2>4, Recursion, Zenon
  <2>. QED  BY <2>5 DEF Unfolds
<1>3. \A i \in S : g[i] = IF i = 0 THEN 0 ELSE g[i - 1] + f[i - 1]
  <2> TAKE i \in S
  <2>1. base[i] = 0 /\ (i \in T <=> i = 0)
    OBVIOUS
  <2>2. i # 0 => pred[i] = i - 1 /\ i - 1 \in S
    BY <1>1
  <2>3. i # 0 => comb[<<i, g[i - 1]>>] = g[i - 1] + f[i - 1]
    <3>1. i # 0 => <<i, g[i - 1]>> \in S \X Nat
      BY <1>2, <2>2
    <3> HIDE DEF S
    <3>. QED  BY <3>1
  <2> HIDE DEF S, T, pred, base, comb
  <2>. QED  BY <1>2, <2>1, <2>2, <2>3
<1>4. Def(g)
  <2> HIDE DEF S
  <2>. QED  BY <1>2, <1>3
<1>5. Def(O)
  <2> HIDE DEF Def
  <2>. QED  BY <1>4
<1>6. SumTo(f, n) = O[n]
  BY DEF SumTo
<1> HIDE DEF O
<1>7. \A i \in S : O[i] = IF i = 0 THEN 0 ELSE O[i - 1] + f[i - 1]
  <2> HIDE DEF S
  <2>. QED  BY <1>5
<1>8. \A i \in 0..(n - 1) : i + 1 \in S /\ i + 1 # 0 /\ (i + 1) - 1 = i
  OBVIOUS
<1>9. O[0] = 0 /\ \A i \in 0..(n - 1) : O[i + 1] = O[i] + f[i]
  <2>1. 0 \in S
    OBVIOUS
  <2> HIDE DEF S
  <2>. QED  BY <1>7, <1>8, <2>1
<1>10. \A i \in S : O[i] \in Nat
  <2> DEFINE Have == {i \in Nat : i \in S => O[i] \in Nat}
  <2>1. 0 \in Have
    BY <1>9
  <2>2. ASSUME NEW i \in Nat, i \in Have
        PROVE  i + 1 \in Have
    <3>1. i + 1 \in S => i \in S /\ i \in 0..(n - 1)
      OBVIOUS
    <3>2. i + 1 \in S => O[i] \in Nat /\ f[i] \in Nat
      BY <2>2, <3>1
    <3>. QED  BY <1>9, <3>1, <3>2
  <2>3. Nat \subseteq Have
    <3> HIDE DEF Have
    <3>. QED  BY <2>1, <2>2, Induction
  <2>. QED  BY <1>1, <2>3
<1>11. O \in [S -> Nat]
  <2> HIDE DEF S
  <2>1. DOMAIN O = S /\ O = [i \in S |-> O[i]]
    BY <1>5, <1>7
  <2>. QED  BY <1>10, <2>1
<1>. QED  BY <1>6, <1>9, <1>11, Zenon DEF Sums

\* The sum of the first values grows by the next one.
LEMMA SumsAre ==
  ASSUME NEW n \in Nat, NEW f, \A i \in 0..(n - 1) : f[i] \in Nat
  PROVE  /\ SumTo(f, 0) = 0
         /\ \A m \in 0..n : SumTo(f, m) \in Nat
         /\ \A m \in 0..(n - 1) : SumTo(f, m + 1) = SumTo(f, m) + f[m]
         /\ \A m \in 0..n : \A k \in 0..m : SumTo(f, k) <= SumTo(f, m)
<1>1. PICK sum : Sums(sum, f, n)
  BY SumExists
<1>2. ASSUME NEW m \in 0..n
      PROVE  SumTo(f, m) = sum[m]
  <2>1. m \in Nat /\ \A i \in 0..(m - 1) : f[i] \in Nat /\ i \in 0..(n - 1)
    OBVIOUS
  <2>2. PICK own : Sums(own, f, m) /\ SumTo(f, m) = own[m]
    BY <2>1, SumExists
  <2> DEFINE Have == {i \in Nat : i \in 0..m => own[i] = sum[i]}
  <2>3. 0 \in Have
    BY <1>1, <2>2 DEF Sums
  <2>4. ASSUME NEW i \in Nat, i \in Have
        PROVE  i + 1 \in Have
    <3>1. i + 1 \in 0..m => i \in 0..m /\ i \in 0..(m - 1) /\ i \in 0..(n - 1)
      OBVIOUS
    <3>2. i + 1 \in 0..m => own[i] = sum[i] /\ own[i + 1] = own[i] + f[i] /\ sum[i + 1] = sum[i] + f[i]
      BY <1>1, <2>2, <2>4, <3>1 DEF Sums
    <3>. QED  BY <3>2
  <2>5. Nat \subseteq Have
    <3> HIDE DEF Have
    <3>. QED  BY <2>3, <2>4, Induction
  <2>. QED  BY <2>1, <2>2, <2>5
<1>3. SumTo(f, 0) = 0
  BY <1>1, <1>2 DEF Sums
<1>4. \A m \in 0..n : SumTo(f, m) \in Nat
  BY <1>1, <1>2 DEF Sums
<1>5. \A m \in 0..(n - 1) : SumTo(f, m + 1) = SumTo(f, m) + f[m]
  <2> TAKE m \in 0..(n - 1)
  <2>1. m \in 0..n /\ m + 1 \in 0..n
    OBVIOUS
  <2>. QED  BY <1>1, <1>2, <2>1 DEF Sums
<1>6. ASSUME NEW m \in 0..n, NEW k \in 0..m
      PROVE  SumTo(f, k) <= SumTo(f, m)
  <2> DEFINE Have == {d \in Nat : k + d \in 0..n => SumTo(f, k) <= SumTo(f, k + d)}
  <2>1. k \in Nat /\ k \in 0..n
    OBVIOUS
  <2>2. 0 \in Have
    BY <1>4, <2>1
  <2>3. ASSUME NEW d \in Nat, d \in Have
        PROVE  d + 1 \in Have
    <3>1. k + (d + 1) \in 0..n => k + d \in 0..n /\ k + d \in 0..(n - 1) /\ k + (d + 1) = (k + d) + 1
      BY <2>1
    <3> SUFFICES ASSUME k + (d + 1) \in 0..n
                 PROVE  SumTo(f, k) <= SumTo(f, k + (d + 1))
      OBVIOUS
    <3>2. SumTo(f, k + (d + 1)) = SumTo(f, k + d) + f[k + d]
      BY <1>5, <3>1
    <3>3. SumTo(f, k) \in Nat /\ SumTo(f, k + d) \in Nat /\ f[k + d] \in Nat
      BY <1>4, <2>1, <3>1
    <3>4. SumTo(f, k) <= SumTo(f, k + d)
      BY <2>3, <3>1
    <3>. QED  BY <3>2, <3>3, <3>4
  <2>4. Nat \subseteq Have
    <3> HIDE DEF Have
    <3>. QED  BY <2>2, <2>3, Induction
  <2>5. m - k \in Nat /\ k + (m - k) = m
    OBVIOUS
  <2>. QED  BY <2>4, <2>5
<1>. QED  BY <1>3, <1>4, <1>5, <1>6

-----------------------------------------------------------------------------
(* The layout *)

Type == {"header", "byte", "tree", "level", "node", "write", "read", "register"}

\* What is stored has a size that keeps what follows aligned.
LEMMA SizeIs ==
  ASSUME NEW type \in Type
  PROVE  /\ Size[type] \in Nat /\ Size[type] > 0
         /\ Alignment(type) \in {1, 8} /\ Size[type] % Alignment(type) = 0
BY DEF Type, Size, Alignment

\* The next multiple is at most an alignment away.
LEMMA NextMultipleIs ==
  ASSUME NEW p \in Nat, NEW align \in {1, 8}
  PROVE  NextMultiple(p, align) \in Nat /\ NextMultiple(p, align) >= p
         /\ NextMultiple(p, align) % align = 0
<1>1. CASE align = 1
  BY <1>1 DEF NextMultiple
<1>2. CASE align = 8
  BY <1>2 DEF NextMultiple
<1>. QED  BY <1>1, <1>2

\* A sequence of requests for sections.
Asked(requests) ==
  \A i \in 1..Len(requests) : requests[i].type \in Type /\ requests[i].count \in Nat

\* Where a section starts, behind the one that ends at a place.
StartAfter(p, r) == NextMultiple(p, Alignment(r.type))

\* Sections come one behind the other.
LEMMA EndsAre ==
  ASSUME NEW requests, Len(requests) \in Nat, Asked(requests)
  PROVE  LET end == Ends(requests)
             n == Len(requests)
         IN  /\ end[0] = Size["header"]
             /\ \A i \in 0..n : end[i] \in Nat
             /\ \A i \in 1..n : end[i] = StartAfter(end[i - 1], requests[i])
                                           + requests[i].count * Size[requests[i].type]
<1> DEFINE n == Len(requests)
           S == 0..n
           T == {i \in S : i = 0}
           h == Size["header"]
           Next1(p, i) == StartAfter(p, requests[i]) + requests[i].count * Size[requests[i].type]
           mu == [i \in S |-> i]
           pred == [i \in S |-> IF i = 0 THEN 0 ELSE i - 1]
           base == [i \in S |-> h]
           comb == [p \in S \X Nat |-> IF p[1] = 0 THEN 0 ELSE Next1(p[2], p[1])]
           Def(g) == g = [i \in S |-> IF i = 0 THEN h ELSE Next1(g[i - 1], i)]
           O == Ends(requests)
<1>1. \A i \in S : i \in Nat /\ (i # 0 => i - 1 \in S /\ i \in 1..n)
  OBVIOUS
<1>2. \A p \in Nat, i \in 1..n : Next1(p, i) \in Nat
  <2> TAKE p \in Nat, i \in 1..n
  <2>1. requests[i].type \in Type /\ requests[i].count \in Nat
    BY DEF Asked
  <2> DEFINE a == StartAfter(p, requests[i])
             b == requests[i].count
             c == Size[requests[i].type]
  <2>2. a \in Nat
    BY <2>1, SizeIs, NextMultipleIs DEF StartAfter
  <2>3. b \in Nat /\ c \in Nat
    BY <2>1, SizeIs
  <2> HIDE DEF a, b, c
  <2>4. a + b * c \in Nat
    BY <2>2, <2>3
  <2>. QED  BY <2>4 DEF a, b, c
<1>3. h \in Nat
  BY SizeIs DEF Type
<1> HIDE DEF Next1, h
<1>4. PICK g \in [S -> Nat] : \A i \in S : g[i] = IF i \in T THEN base[i] ELSE comb[<<i, g[pred[i]]>>]
  <2>1. mu \in [S -> Nat] /\ T \in SUBSET S /\ pred \in [S -> S] /\ base \in [S -> Nat]
    BY <1>1, <1>3
  <2>2. comb \in [S \X Nat -> Nat]
    <3>1. \A p \in S \X Nat : p[1] # 0 => Next1(p[2], p[1]) \in Nat
      BY <1>1, <1>2
    <3>. QED  BY <3>1
  <2>3. \A i \in S \ T : mu[pred[i]] < mu[i]
    BY <1>1
  <2> HIDE DEF S, T, mu, pred, base, comb
  <2>4. Measured(S, Nat, mu, T, pred, base, comb)
    BY <2>1, <2>2, <2>3 DEF Measured
  <2>5. \E g : Unfolds(g, S, Nat, T, pred, base, comb)
    BY <2>4, Recursion, Zenon
  <2>. QED  BY <2>5 DEF Unfolds
<1>5. \A i \in S : g[i] = IF i = 0 THEN h ELSE Next1(g[i - 1], i)
  <2> TAKE i \in S
  <2>1. base[i] = h /\ (i \in T <=> i = 0)
    OBVIOUS
  <2>2. i # 0 => pred[i] = i - 1 /\ i - 1 \in S
    BY <1>1
  <2>3. i # 0 => comb[<<i, g[i - 1]>>] = Next1(g[i - 1], i)
    <3>1. i # 0 => <<i, g[i - 1]>> \in S \X Nat
      BY <1>4, <2>2
    <3> HIDE DEF S
    <3>. QED  BY <3>1
  <2> HIDE DEF S, T, pred, base, comb
  <2>. QED  BY <1>4, <2>1, <2>2, <2>3
<1>6. Def(g)
  <2> HIDE DEF S
  <2>. QED  BY <1>4, <1>5
<1>7. Def(O)
  <2>1. O = CHOOSE f : Def(f)
    BY Zenon DEF Ends, Next1, StartAfter, h
  <2> HIDE DEF Def, O
  <2>. QED  BY <1>6, <2>1
<1> HIDE DEF O
<1>8. \A i \in S : O[i] = IF i = 0 THEN h ELSE Next1(O[i - 1], i)
  <2> HIDE DEF S
  <2>. QED  BY <1>7
<1>9. O[0] = h /\ \A i \in 1..n : O[i] = Next1(O[i - 1], i)
  <2>1. 0 \in S /\ \A i \in 1..n : i \in S /\ i # 0
    OBVIOUS
  <2> HIDE DEF S, n
  <2>. QED  BY <1>8, <2>1
<1>10. \A i \in S : O[i] \in Nat
  <2> DEFINE Have == {i \in Nat : i \in S => O[i] \in Nat}
  <2>1. 0 \in Have
    BY <1>3, <1>9
  <2>2. ASSUME NEW i \in Nat, i \in Have
        PROVE  i + 1 \in Have
    <3>1. i + 1 \in S => i \in S /\ i + 1 \in 1..n /\ (i + 1) - 1 = i
      OBVIOUS
    <3>2. i + 1 \in S => O[i] \in Nat /\ O[i + 1] = Next1(O[i], i + 1)
      BY <1>9, <2>2, <3>1
    <3>3. i + 1 \in S => Next1(O[i], i + 1) \in Nat
      BY <1>2, <3>1, <3>2, Zenon
    <3>4. i + 1 \in S => O[i + 1] \in Nat
      BY <3>2, <3>3, Zenon
    <3>. QED  BY <3>4
  <2>3. Nat \subseteq Have
    <3> HIDE DEF Have
    <3>. QED  BY <2>1, <2>2, Induction
  <2>. QED  BY <1>1, <2>3
<1>. QED  BY <1>9, <1>10, Zenon DEF O, Next1, h

\* What the scout pass may have found.
Scouted(sc) ==
  /\ sc.metadata \in Nat /\ sc.order \in Order /\ sc.data \in Nat
  /\ \A k \in Kind : sc.count[k] \in Nat
  /\ \A k \in Kind : \A i \in 1..sc.count[k] : sc.leaves[<<k, i>>] \in Nat

TreesIn(sc, k) == {<<k, i>> : i \in 1..sc.count[k]}

HeadersOf(sc, k) == Request(<<"headers", k>>, "tree", sc.count[k])
BboxesOf(sc, k) == Request(<<"bboxes", k>>, "node", sc.count[k])
LevelsRequest(sc, t) == Request(<<"levels", t>>, "level", Len(LevelsOf(sc, t)))
NodesRequest(sc, t) == Request(<<"nodes", t>>, "node", NodeCount(LevelsOf(sc, t)))
LeavesRequest(sc, t) == Request(<<"leaves", t>>, t[1], sc.leaves[t])
MetadataRequest(sc) == Request(<<"metadata">>, "byte", sc.metadata)
DataRequest(sc) == Request(<<"data">>, "byte", sc.data)

\* Everything that is asked for.
WantedOf(sc, k) ==
  {HeadersOf(sc, k), BboxesOf(sc, k)}
    \cup {LevelsRequest(sc, t) : t \in TreesIn(sc, k)}
    \cup {NodesRequest(sc, t) : t \in TreesIn(sc, k)}
    \cup {LeavesRequest(sc, t) : t \in TreesIn(sc, k)}

Wanted(sc) == {MetadataRequest(sc), DataRequest(sc)} \cup UNION {WantedOf(sc, k) : k \in Kind}

\* The levels of a tree have a number, and so have their nodes.
LEMMA LevelsCount ==
  ASSUME NEW sc, Scouted(sc), NEW k \in Kind, NEW i \in 1..sc.count[k]
  PROVE  LET t == <<k, i>>
         IN  Len(LevelsOf(sc, t)) \in Nat /\ NodeCount(LevelsOf(sc, t)) \in Nat
<1> DEFINE t == <<k, i>>
           n == sc.leaves[t]
           levels == Levels(sc.order, n)
           sizes == LevelSizes(sc.order)[n]
           top == Len(sizes)
           f == [j \in 0..(Len(levels) - 1) |-> levels[j + 1].size]
<1>1. sc.order \in Order /\ n \in Nat
  BY DEF Scouted
<1>2. LevelsOf(sc, t) = levels
  BY DEF LevelsOf
<1>3. /\ top \in Nat /\ sizes \in [1..top -> Nat] /\ Len(levels) = top
      /\ \A l \in 0..(top - 1) : levels[l + 1] = [offset |-> OffsetOf(sizes)[top - l], size |-> sizes[top - l]]
  <2> HIDE DEF n
  <2>. QED  BY <1>1, LevelsAre
<1> HIDE DEF levels, sizes, top
<1>4. \A l \in 0..(top - 1) : f[l] \in Nat
  <2> TAKE l \in 0..(top - 1)
  <2>1. top - l \in 1..top
    BY <1>3
  <2>2. f[l] = levels[l + 1].size
    BY <1>3
  <2>3. levels[l + 1].size = sizes[top - l]
    <3>1. levels[l + 1] = [offset |-> OffsetOf(sizes)[top - l], size |-> sizes[top - l]]
      BY <1>3, Zenon
    <3>2. ASSUME NEW x, NEW a, NEW b, x = [offset |-> a, size |-> b]
          PROVE  x.size = b
      BY <3>2
    <3>. QED  BY <3>1, <3>2
  <2>. QED  BY <1>3, <2>1, <2>2, <2>3
<1>5. NodeCount(levels) = SumTo(f, top)
  BY <1>3 DEF NodeCount
<1>6. SumTo(f, top) \in Nat
  <2>1. top \in 0..top
    BY <1>3
  <2> HIDE DEF f
  <2>. QED  BY <1>3, <1>4, <2>1, SumsAre
<1> HIDE DEF t
<1>7. Len(LevelsOf(sc, t)) \in Nat /\ NodeCount(LevelsOf(sc, t)) \in Nat
  BY <1>2, <1>3, <1>5, <1>6
<1>. QED  BY <1>7 DEF t

\* What is asked for has a type and a number.
LEMMA WantedTyped ==
  ASSUME NEW sc, Scouted(sc), NEW r \in Wanted(sc)
  PROVE  r.type \in Type /\ r.count \in Nat
<1>1. CASE r \in {MetadataRequest(sc), DataRequest(sc)}
  BY <1>1 DEF MetadataRequest, DataRequest, Request, Type, Scouted
<1>2. CASE \E k \in Kind : r \in WantedOf(sc, k)
  <2>1. PICK k \in Kind : r \in WantedOf(sc, k)
    BY <1>2
  <2>2. k \in Type
    BY DEF Kind, Type
  <2>3. CASE r \in {HeadersOf(sc, k), BboxesOf(sc, k)}
    BY <2>3 DEF HeadersOf, BboxesOf, Request, Type, Scouted
  <2>4. CASE \E i \in 1..sc.count[k] : r \in {LevelsRequest(sc, <<k, i>>), NodesRequest(sc, <<k, i>>)}
    <3>1. PICK i \in 1..sc.count[k] : r \in {LevelsRequest(sc, <<k, i>>), NodesRequest(sc, <<k, i>>)}
      BY <2>4
    <3> DEFINE t == <<k, i>>
    <3>2. Len(LevelsOf(sc, t)) \in Nat /\ NodeCount(LevelsOf(sc, t)) \in Nat
      BY LevelsCount
    <3> HIDE DEF t
    <3>. QED  BY <3>1, <3>2 DEF LevelsRequest, NodesRequest, Request, Type, t
  <2>5. CASE \E i \in 1..sc.count[k] : r = LeavesRequest(sc, <<k, i>>)
    BY <2>2, <2>5 DEF LeavesRequest, Request, Scouted
  <2>. QED  BY <2>1, <2>3, <2>4, <2>5 DEF WantedOf, TreesIn
<1>. QED  BY <1>1, <1>2 DEF Wanted

\* What is in two sequences is in the one made of both.
LEMMA JoinedAre ==
  ASSUME NEW S, NEW s \in Seq(S), NEW t \in Seq(S)
  PROVE  s \o t \in Seq(S) /\ Range(s \o t) = Range(s) \cup Range(t)
<1> DEFINE m == Len(s)
           n == Len(t)
           both == s \o t
<1>1. m \in Nat /\ n \in Nat /\ DOMAIN s = 1..m /\ DOMAIN t = 1..n
  OBVIOUS
<1>2. /\ both \in Seq(S) /\ Len(both) = m + n
      /\ \A i \in 1..(m + n) : both[i] = IF i <= m THEN s[i] ELSE t[i - m]
  BY ConcatProperties
<1>3. DOMAIN both = 1..(m + n)
  BY <1>2
<1> HIDE DEF m, n, both
<1>4. \A i \in 1..m : i \in 1..(m + n) /\ both[i] = s[i]
  BY <1>1, <1>2
<1>5. \A i \in 1..n : i + m \in 1..(m + n) /\ both[i + m] = t[i]
  BY <1>1, <1>2
<1>6. \A i \in 1..(m + n) : i \in 1..m \/ (i - m \in 1..n /\ both[i] = t[i - m])
  BY <1>1, <1>2
<1>7. Range(both) \subseteq Range(s) \cup Range(t)
  <2>1. ASSUME NEW i \in 1..(m + n)
        PROVE  both[i] \in Range(s) \cup Range(t)
    BY <1>1, <1>4, <1>6, Zenon DEF Range
  <2>. QED  BY <1>3, <2>1, Zenon DEF Range
<1>8. Range(s) \cup Range(t) \subseteq Range(both)
  BY <1>1, <1>3, <1>4, <1>5, Zenon DEF Range
<1>. QED  BY <1>2, <1>7, <1>8 DEF both

\* A sequence that lists what a function gives.
LEMMA ListedAre ==
  ASSUME NEW S, NEW n \in Nat, NEW f, f \in [1..n -> S]
  PROVE  f \in Seq(S) /\ Range(f) = {f[i] : i \in 1..n}
<1>1. f \in Seq(S)
  BY IsSequence
<1>2. DOMAIN f = 1..n
  OBVIOUS
<1>. QED  BY <1>1, <1>2, Zenon DEF Range

\* Two requests for the lists of a kind.
LEMMA HeadersListed ==
  ASSUME NEW sc, NEW k
  PROVE  /\ ListHeaders(sc, k) \in Seq({HeadersOf(sc, k), BboxesOf(sc, k)})
         /\ Range(ListHeaders(sc, k)) = {HeadersOf(sc, k), BboxesOf(sc, k)}
<1> DEFINE a == HeadersOf(sc, k)
           b == BboxesOf(sc, k)
<1>1. ListHeaders(sc, k) = <<a, b>>
  BY DEF ListHeaders, HeadersOf, BboxesOf
<1> HIDE DEF a, b
<1>2. <<a, b>> \in Seq({a, b}) /\ Range(<<a, b>>) = {a, b}
  <2>1. <<a, b>> \in Seq({a, b}) /\ DOMAIN <<a, b>> = 1..2 /\ <<a, b>>[1] = a /\ <<a, b>>[2] = b
    OBVIOUS
  <2>2. 1 \in 1..2 /\ 2 \in 1..2 /\ \A i \in 1..2 : i = 1 \/ i = 2
    OBVIOUS
  <2> DEFINE s == <<a, b>>
  <2>3. s \in Seq({a, b}) /\ DOMAIN s = 1..2 /\ s[1] = a /\ s[2] = b
    BY <2>1
  <2> HIDE DEF s
  <2>4. Range(s) = {a, b}
    BY <2>2, <2>3 DEF Range
  <2>. QED  BY <2>3, <2>4 DEF s
<1>. QED  BY <1>1, <1>2 DEF a, b

\* A request for the levels of each tree of a kind.
LEMMA LevelsListed ==
  ASSUME NEW sc, NEW k, sc.count[k] \in Nat
  PROVE  LET all == {LevelsRequest(sc, t) : t \in TreesIn(sc, k)}
         IN  TreeLevels(sc, k) \in Seq(all) /\ Range(TreeLevels(sc, k)) = all
<1> DEFINE all == {LevelsRequest(sc, t) : t \in TreesIn(sc, k)}
           n == sc.count[k]
           f == TreeLevels(sc, k)
<1>1. f = [i \in 1..n |-> LevelsRequest(sc, <<k, i>>)]
  BY Zenon DEF TreeLevels, LevelsRequest
<1>2. all = {LevelsRequest(sc, <<k, i>>) : i \in 1..n}
  BY DEF TreesIn
<1> HIDE DEF all, n, f
<1>3. f \in [1..n -> all] /\ all = {f[i] : i \in 1..n}
  <2>1. \A i \in 1..n : f[i] = LevelsRequest(sc, <<k, i>>)
    BY <1>1
  <2>2. \A i \in 1..n : f[i] \in all
    BY <1>2, <2>1, Zenon
  <2>3. all = {f[i] : i \in 1..n}
    BY <1>2, <2>1, Zenon
  <2>. QED  BY <1>1, <2>2, <2>3
<1>4. f \in Seq(all) /\ Range(f) = all
  <2>1. n \in Nat
    BY DEF n
  <2>. QED  BY <1>3, <2>1, ListedAre
<1>. QED  BY <1>4 DEF all, f

\* A request for the nodes and one for the leaves of each tree of a kind.
LEMMA NodesListed ==
  ASSUME NEW sc, NEW k, sc.count[k] \in Nat
  PROVE  LET all == {NodesRequest(sc, t) : t \in TreesIn(sc, k)}
                      \cup {LeavesRequest(sc, t) : t \in TreesIn(sc, k)}
         IN  NodesAndLeaves(sc, k) \in Seq(all) /\ Range(NodesAndLeaves(sc, k)) = all
<1> DEFINE all == {NodesRequest(sc, t) : t \in TreesIn(sc, k)}
                    \cup {LeavesRequest(sc, t) : t \in TreesIn(sc, k)}
           n == sc.count[k]
           f == NodesAndLeaves(sc, k)
           a(i) == NodesRequest(sc, <<k, i>>)
           b(i) == LeavesRequest(sc, <<k, i>>)
<1>1. f = [i \in 1..(2 * n) |-> IF i % 2 = 1 THEN a((i + 1) \div 2) ELSE b((i + 1) \div 2)]
  <2>1. \A i : b(i) = Request(<<"leaves", <<k, i>>>>, k, sc.leaves[<<k, i>>])
    <3> TAKE i
    <3>1. <<k, i>>[1] = k
      OBVIOUS
    <3>. QED  BY <3>1, Zenon DEF LeavesRequest
  <2> HIDE DEF b
  <2>. QED  BY <2>1, Zenon DEF NodesAndLeaves, NodesRequest
<1>2. all = {a(i) : i \in 1..n} \cup {b(i) : i \in 1..n}
  <2> HIDE DEF n
  <2>1. TreesIn(sc, k) = {<<k, i>> : i \in 1..n}
    BY Zenon DEF TreesIn, n
  <2>. QED  BY <2>1, Zenon
<1>3. n \in Nat
  OBVIOUS
<1> HIDE DEF all, n, f, a, b
<1>4. \A i \in 1..(2 * n) : (i + 1) \div 2 \in 1..n
  BY <1>3
<1>5. \A i \in 1..n : /\ 2 * i - 1 \in 1..(2 * n) /\ (2 * i - 1) % 2 = 1 /\ ((2 * i - 1) + 1) \div 2 = i
                      /\ 2 * i \in 1..(2 * n) /\ (2 * i) % 2 # 1 /\ (2 * i + 1) \div 2 = i
  BY <1>3
<1>6. \A i \in 1..(2 * n) : f[i] = IF i % 2 = 1 THEN a((i + 1) \div 2) ELSE b((i + 1) \div 2)
  BY <1>1
<1>7. \A i \in 1..n : f[2 * i - 1] = a(i) /\ f[2 * i] = b(i)
  <2> TAKE i \in 1..n
  <2> DEFINE x == 2 * i - 1
             y == 2 * i
  <2>1. x \in 1..(2 * n) /\ x % 2 = 1 /\ (x + 1) \div 2 = i
    BY <1>5
  <2>2. y \in 1..(2 * n) /\ y % 2 # 1 /\ (y + 1) \div 2 = i
    BY <1>5
  <2> HIDE DEF x, y
  <2>3. f[x] = a(i) /\ f[y] = b(i)
    BY <1>6, <2>1, <2>2
  <2>. QED  BY <2>3 DEF x, y
<1>8. \A i \in 1..(2 * n) : f[i] \in all
  BY <1>2, <1>4, <1>6, Zenon
<1>9. all \subseteq {f[i] : i \in 1..(2 * n)}
  BY <1>2, <1>5, <1>7, Zenon
<1>10. f \in [1..(2 * n) -> all] /\ all = {f[i] : i \in 1..(2 * n)}
  <2>1. DOMAIN f = 1..(2 * n) /\ f = [i \in 1..(2 * n) |-> f[i]]
    BY <1>1
  <2>2. f \in [1..(2 * n) -> all]
    BY <1>8, <2>1, Zenon
  <2>3. all = {f[i] : i \in 1..(2 * n)}
    BY <1>8, <1>9, Zenon
  <2>. QED  BY <2>2, <2>3
<1>11. f \in Seq(all) /\ Range(f) = all
  <2>1. 2 * n \in Nat
    BY <1>3
  <2>. QED  BY <1>10, <2>1, ListedAre
<1>. QED  BY <1>11 DEF all, f

\* A sequence of three parts.
LEMMA ThreeJoined ==
  ASSUME NEW S, NEW a \in Seq(S), NEW b \in Seq(S), NEW c \in Seq(S)
  PROVE  a \o b \o c \in Seq(S) /\ Range(a \o b \o c) = Range(a) \cup Range(b) \cup Range(c)
<1>1. a \o b \in Seq(S) /\ Range(a \o b) = Range(a) \cup Range(b)
  BY JoinedAre
<1> DEFINE ab == a \o b
<1>2. ab \in Seq(S)
  BY <1>1
<1> HIDE DEF ab
<1>3. ab \o c \in Seq(S) /\ Range(ab \o c) = Range(ab) \cup Range(c)
  BY <1>2, JoinedAre
<1>. QED  BY <1>1, <1>3, Zenon DEF ab

\* A sequence in a set is one in a larger set.
LEMMA WiderSeq ==
  ASSUME NEW S, NEW T, S \subseteq T, NEW s \in Seq(S)
  PROVE  s \in Seq(T)
<1>1. DOMAIN s = 1..Len(s) /\ Len(s) \in Nat /\ \A i \in 1..Len(s) : s[i] \in S
  OBVIOUS
<1>2. s \in [1..Len(s) -> T]
  <2>1. s = [i \in 1..Len(s) |-> s[i]]
    BY <1>1
  <2>. QED  BY <1>1, <2>1
<1>. QED  BY <1>1, <1>2, IsSequence

\* A sequence of one item.
LEMMA OneListed ==
  ASSUME NEW S, NEW x \in S
  PROVE  <<x>> \in Seq(S) /\ Range(<<x>>) = {x}
<1> DEFINE s == <<x>>
<1>1. s \in Seq(S) /\ DOMAIN s = 1..1 /\ s[1] = x
  OBVIOUS
<1> HIDE DEF s
<1>2. Range(s) = {x}
  <2>1. 1 \in 1..1 /\ \A i \in 1..1 : i = 1
    OBVIOUS
  <2>. QED  BY <1>1, <2>1 DEF Range
<1>. QED  BY <1>1, <1>2 DEF s

\* Everything that is wanted is asked for, and nothing else.
LEMMA RequestsAre ==
  ASSUME NEW sc, Scouted(sc)
  PROVE  /\ Requests(sc) \in Seq(Wanted(sc)) /\ Range(Requests(sc)) = Wanted(sc)
         /\ Asked(Requests(sc))
         /\ \A i \in 1..Len(Requests(sc)) : Requests(sc)[i] = DataRequest(sc) => i = Len(Requests(sc))
<1> DEFINE W == Wanted(sc)
           m == MetadataRequest(sc)
           d == DataRequest(sc)
           H(k) == {HeadersOf(sc, k), BboxesOf(sc, k)}
           L(k) == {LevelsRequest(sc, t) : t \in TreesIn(sc, k)}
           N(k) == {NodesRequest(sc, t) : t \in TreesIn(sc, k)}
                     \cup {LeavesRequest(sc, t) : t \in TreesIn(sc, k)}
           a == ListHeaders(sc, "write") \o ListHeaders(sc, "read") \o ListHeaders(sc, "register")
           b == TreeLevels(sc, "write") \o TreeLevels(sc, "read") \o TreeLevels(sc, "register")
           c == NodesAndLeaves(sc, "write") \o NodesAndLeaves(sc, "read")
                  \o NodesAndLeaves(sc, "register")
<1>1. W = {m, d} \cup UNION {H(k) \cup L(k) \cup N(k) : k \in Kind}
  <2>1. \A k : WantedOf(sc, k) = H(k) \cup L(k) \cup N(k)
    BY Zenon DEF WantedOf
  <2>. QED  BY <2>1, Zenon DEF Wanted
<1>2. Kind = {"write", "read", "register"}
  BY DEF Kind
<1>3. \A k \in Kind : sc.count[k] \in Nat
  BY DEF Scouted
<1>4. \A k \in Kind : ListHeaders(sc, k) \in Seq(H(k)) /\ Range(ListHeaders(sc, k)) = H(k)
  BY HeadersListed
<1>5. \A k \in Kind : TreeLevels(sc, k) \in Seq(L(k)) /\ Range(TreeLevels(sc, k)) = L(k)
  BY <1>3, LevelsListed
<1>6. \A k \in Kind : NodesAndLeaves(sc, k) \in Seq(N(k)) /\ Range(NodesAndLeaves(sc, k)) = N(k)
  BY <1>3, NodesListed
<1>7. Requests(sc) = <<m>> \o a \o b \o c \o <<d>>
  BY Zenon DEF Requests, MetadataRequest, DataRequest
<1>17. d # m /\ \A k \in Kind : d \notin H(k) /\ d \notin L(k) /\ d \notin N(k)
  <2>1. d.name[1] = "data" /\ m.name[1] = "metadata"
    BY DEF DataRequest, MetadataRequest, Request
  <2>2. \A k : HeadersOf(sc, k).name[1] = "headers" /\ BboxesOf(sc, k).name[1] = "bboxes"
    BY DEF HeadersOf, BboxesOf, Request
  <2>3. \A t : LevelsRequest(sc, t).name[1] = "levels"
    BY DEF LevelsRequest, Request
  <2>4. \A t : NodesRequest(sc, t).name[1] = "nodes" /\ LeavesRequest(sc, t).name[1] = "leaves"
    BY DEF NodesRequest, LeavesRequest, Request
  <2> HIDE DEF d, m
  <2>. QED  BY <2>1, <2>2, <2>3, <2>4
<1> HIDE DEF W, m, d, H, L, N
<1>8. m \in W /\ d \in W /\ \A k \in Kind : H(k) \subseteq W /\ L(k) \subseteq W /\ N(k) \subseteq W
  <2>1. m \in W /\ d \in W
    BY <1>1
  <2>2. ASSUME NEW k \in Kind
        PROVE  H(k) \subseteq W /\ L(k) \subseteq W /\ N(k) \subseteq W
    <3> DEFINE all == H(k) \cup L(k) \cup N(k)
    <3>1. \A x \in all : x \in UNION {H(j) \cup L(j) \cup N(j) : j \in Kind}
      OBVIOUS
    <3>2. all \subseteq W
      <4> HIDE DEF all
      <4>. QED  BY <1>1, <3>1
    <3>. QED  BY <3>2
  <2>. QED  BY <2>1, <2>2, Zenon
<1>9. \A k \in Kind : /\ ListHeaders(sc, k) \in Seq(W) /\ TreeLevels(sc, k) \in Seq(W)
                      /\ NodesAndLeaves(sc, k) \in Seq(W)
  BY <1>4, <1>5, <1>6, <1>8, WiderSeq
<1>10. /\ a \in Seq(W) /\ Range(a) = H("write") \cup H("read") \cup H("register")
       /\ b \in Seq(W) /\ Range(b) = L("write") \cup L("read") \cup L("register")
       /\ c \in Seq(W) /\ Range(c) = N("write") \cup N("read") \cup N("register")
  <2>1. "write" \in Kind /\ "read" \in Kind /\ "register" \in Kind
    BY <1>2
  <2>2. a \in Seq(W) /\ Range(a) = H("write") \cup H("read") \cup H("register")
    BY <1>4, <1>9, <2>1, ThreeJoined
  <2>3. b \in Seq(W) /\ Range(b) = L("write") \cup L("read") \cup L("register")
    BY <1>5, <1>9, <2>1, ThreeJoined
  <2>4. c \in Seq(W) /\ Range(c) = N("write") \cup N("read") \cup N("register")
    BY <1>6, <1>9, <2>1, ThreeJoined
  <2>. QED  BY <2>2, <2>3, <2>4
<1>11. <<m>> \in Seq(W) /\ Range(<<m>>) = {m} /\ <<d>> \in Seq(W) /\ Range(<<d>>) = {d}
  BY <1>8, OneListed
<1> HIDE DEF a, b, c
<1> DEFINE x == <<m>> \o a \o b
           y == x \o c \o <<d>>
<1>12. x \in Seq(W) /\ Range(x) = {m} \cup Range(a) \cup Range(b)
  <2> DEFINE s == <<m>>
  <2>1. s \in Seq(W) /\ Range(s) = {m}
    BY <1>11
  <2> HIDE DEF s
  <2>2. s \o a \o b \in Seq(W) /\ Range(s \o a \o b) = {m} \cup Range(a) \cup Range(b)
    BY <1>10, <2>1, ThreeJoined
  <2>. QED  BY <2>2 DEF s
<1> HIDE DEF x
<1>13. y \in Seq(W) /\ Range(y) = Range(x) \cup Range(c) \cup {d}
  <2> DEFINE s == <<d>>
  <2>1. s \in Seq(W) /\ Range(s) = {d}
    BY <1>11
  <2> HIDE DEF s
  <2>2. x \o c \o s \in Seq(W) /\ Range(x \o c \o s) = Range(x) \cup Range(c) \cup {d}
    BY <1>10, <1>12, <2>1, ThreeJoined
  <2>. QED  BY <2>2 DEF s
<1>14. Requests(sc) = y
  BY <1>7, Zenon DEF x
<1>18. \A i \in 1..Len(y) : y[i] = d => i = Len(y)
  <2> DEFINE z == x \o c
             l == Len(z)
             s == <<d>>
  <2>1. z \in Seq(W) /\ Range(z) = Range(x) \cup Range(c)
    BY <1>10, <1>12, JoinedAre
  <2>2. s \in Seq(W) /\ Len(s) = 1
    BY <1>11
  <2>3. d \notin Range(z)
    BY <1>2, <1>10, <1>12, <1>17, <2>1
  <2> HIDE DEF z, s
  <2>4. l \in Nat /\ DOMAIN z = 1..l
    BY <2>1
  <2>5. Len(z \o s) = l + 1 /\ \A i \in 1..(l + 1) : i <= l => (z \o s)[i] = z[i]
    BY <2>1, <2>2, <2>4, ConcatProperties
  <2>6. \A i \in 1..l : z[i] # d
    BY <2>3, <2>4 DEF Range
  <2> HIDE DEF l
  <2>7. ASSUME NEW i \in 1..(l + 1), i # l + 1
        PROVE  (z \o s)[i] # d
    <3>1. i \in 1..l /\ i <= l
      BY <2>4, <2>7
    <3>. QED  BY <2>5, <2>6, <3>1
  <2>8. y = z \o s
    BY DEF z, s
  <2>. QED  BY <2>5, <2>7, <2>8
<1> HIDE DEF y
<1>15. Range(y) = W
  <2>1. W = {m, d} \cup (H("write") \cup L("write") \cup N("write"))
              \cup (H("read") \cup L("read") \cup N("read"))
              \cup (H("register") \cup L("register") \cup N("register"))
    BY <1>1, <1>2
  <2>. QED  BY <1>10, <1>12, <1>13, <2>1
<1>16. Asked(y)
  <2>1. \A i \in 1..Len(y) : y[i] \in W
    BY <1>13
  <2>. QED  BY <2>1, WantedTyped DEF W, Asked
<1>. QED  BY <1>13, <1>14, <1>15, <1>16, <1>18 DEF W, d

\* A section does not end before the sections in front of it.
LEMMA EndsRise ==
  ASSUME NEW requests, Len(requests) \in Nat, Asked(requests)
  PROVE  \A j \in 0..Len(requests) : \A i \in 0..j : Ends(requests)[i] <= Ends(requests)[j]
<1> DEFINE n == Len(requests)
           end == Ends(requests)
           Have == {j \in Nat : j <= n => \A i \in 0..j : end[i] <= end[j]}
<1>1. /\ \A i \in 0..n : end[i] \in Nat
      /\ \A i \in 1..n : end[i] = StartAfter(end[i - 1], requests[i])
                                    + requests[i].count * Size[requests[i].type]
  BY EndsAre
<1> HIDE DEF end
<1>2. 0 \in Have
  BY <1>1
<1>3. ASSUME NEW j \in Nat, j \in Have
      PROVE  j + 1 \in Have
  <2> SUFFICES ASSUME j + 1 <= n
               PROVE  \A i \in 0..(j + 1) : end[i] <= end[j + 1]
    OBVIOUS
  <2>1. j \in 0..n /\ j + 1 \in 1..n /\ (j + 1) - 1 = j /\ j <= n
    OBVIOUS
  <2> DEFINE q == requests[j + 1]
             a == StartAfter(end[j], q)
             b == q.count
             c == Size[q.type]
             bc == b * c
  <2>2. q.type \in Type /\ q.count \in Nat
    BY <2>1 DEF Asked
  <2>3. a \in Nat /\ a >= end[j]
    BY <1>1, <2>1, <2>2, SizeIs, NextMultipleIs DEF StartAfter
  <2>4. bc \in Nat
    <3>1. b \in Nat /\ c \in Nat
      BY <2>2, SizeIs
    <3> HIDE DEF b, c
    <3>. QED  BY <3>1
  <2>5. end[j + 1] = a + bc
    BY <1>1, <2>1
  <2> HIDE DEF a, bc
  <2>6. end[j] \in Nat /\ end[j] <= end[j + 1] /\ end[j + 1] \in Nat
    BY <1>1, <2>1, <2>3, <2>4, <2>5
  <2>7. \A i \in 0..j : end[i] <= end[j] /\ end[i] \in Nat
    BY <1>1, <1>3, <2>1
  <2>. QED  BY <2>6, <2>7
<1>4. Nat \subseteq Have
  <2> HIDE DEF Have
  <2>. QED  BY <1>2, <1>3, Induction
<1>. QED  BY <1>4 DEF end

\* The section that has a name.
Named(sc, name) ==
  CASE name[1] = "metadata" -> MetadataRequest(sc)
    [] name[1] = "data"     -> DataRequest(sc)
    [] name[1] = "headers"  -> HeadersOf(sc, name[2])
    [] name[1] = "bboxes"   -> BboxesOf(sc, name[2])
    [] name[1] = "levels"   -> LevelsRequest(sc, name[2])
    [] name[1] = "nodes"    -> NodesRequest(sc, name[2])
    [] name[1] = "leaves"   -> LeavesRequest(sc, name[2])

\* Nothing else that is asked for has the same name.
LEMMA NamesAre ==
  ASSUME NEW sc, NEW r \in Wanted(sc)
  PROVE  r = Named(sc, r.name)
<1>1. CASE r = MetadataRequest(sc)
  <2>1. r.name = <<"metadata">>
    BY <1>1 DEF MetadataRequest, Request
  <2>2. r.name[1] = "metadata"
    BY <2>1
  <2>. QED  BY <1>1, <2>2 DEF Named
<1>2. CASE r = DataRequest(sc)
  <2>1. r.name = <<"data">>
    BY <1>2 DEF DataRequest, Request
  <2>2. r.name[1] = "data"
    BY <2>1
  <2>. QED  BY <1>2, <2>2 DEF Named
<1>3. ASSUME NEW k, r = HeadersOf(sc, k)
      PROVE  r = Named(sc, r.name)
  <2>1. r.name = <<"headers", k>>
    BY <1>3 DEF HeadersOf, Request
  <2>2. r.name[1] = "headers" /\ r.name[2] = k
    BY <2>1
  <2>. QED  BY <1>3, <2>2 DEF Named
<1>4. ASSUME NEW k, r = BboxesOf(sc, k)
      PROVE  r = Named(sc, r.name)
  <2>1. r.name = <<"bboxes", k>>
    BY <1>4 DEF BboxesOf, Request
  <2>2. r.name[1] = "bboxes" /\ r.name[2] = k
    BY <2>1
  <2>. QED  BY <1>4, <2>2 DEF Named
<1>5. ASSUME NEW t, r = LevelsRequest(sc, t)
      PROVE  r = Named(sc, r.name)
  <2>1. r.name = <<"levels", t>>
    BY <1>5 DEF LevelsRequest, Request
  <2>2. r.name[1] = "levels" /\ r.name[2] = t
    BY <2>1
  <2>. QED  BY <1>5, <2>2 DEF Named
<1>6. ASSUME NEW t, r = NodesRequest(sc, t)
      PROVE  r = Named(sc, r.name)
  <2>1. r.name = <<"nodes", t>>
    BY <1>6 DEF NodesRequest, Request
  <2>2. r.name[1] = "nodes" /\ r.name[2] = t
    BY <2>1
  <2>. QED  BY <1>6, <2>2 DEF Named
<1>7. ASSUME NEW t, r = LeavesRequest(sc, t)
      PROVE  r = Named(sc, r.name)
  <2>1. r.name = <<"leaves", t>>
    BY <1>7 DEF LeavesRequest, Request
  <2>2. r.name[1] = "leaves" /\ r.name[2] = t
    BY <2>1
  <2>. QED  BY <1>7, <2>2 DEF Named
<1>8. \/ r = MetadataRequest(sc) \/ r = DataRequest(sc)
      \/ \E k : r = HeadersOf(sc, k) \/ r = BboxesOf(sc, k)
      \/ \E t : r = LevelsRequest(sc, t) \/ r = NodesRequest(sc, t) \/ r = LeavesRequest(sc, t)
  BY DEF Wanted, WantedOf
<1>. QED  BY <1>1, <1>2, <1>3, <1>4, <1>5, <1>6, <1>7, <1>8

\* Where a section is are two places.
IsSection(s) == s = [start |-> s.start, end |-> s.end]

\* Where the section of a request is: behind the one before it.
LEMMA SectionPlaced ==
  ASSUME NEW sc, Scouted(sc), NEW r \in Wanted(sc)
  PROVE  LET requests == Requests(sc)
             end == Ends(requests)
             section == BuildStorageLayout(sc).at[r.name]
         IN  \E i \in 1..Len(requests) :
               /\ requests[i] = r
               /\ section.start = StartAfter(end[i - 1], r) /\ section.end = end[i]
               /\ section.start \in Nat /\ r.count * Size[r.type] \in Nat
               /\ section.end = section.start + r.count * Size[r.type]
               /\ IsSection(section)
<1> DEFINE requests == Requests(sc)
           n == Len(requests)
           ends == Ends(requests)
           end == [i \in 0..n |-> ends[i]]
           names == {q.name : q \in Range(requests)}
           index == [name \in names |-> CHOOSE i \in DOMAIN requests : requests[i].name = name]
           at == [name \in DOMAIN index |->
                    LET q == requests[index[name]]
                    IN  [start |-> end[index[name]] - q.count * Size[q.type],
                         end   |-> end[index[name]]]]
           L == [size |-> end[n], at |-> at]
<1>1. BuildStorageLayout(sc) = L
  BY Zenon DEF BuildStorageLayout
<1>2. /\ requests \in Seq(Wanted(sc)) /\ Range(requests) = Wanted(sc) /\ Asked(requests)
      /\ n \in Nat /\ DOMAIN requests = 1..n
  BY RequestsAre
<1>3. /\ \A i \in 0..n : ends[i] \in Nat
      /\ \A i \in 1..n : ends[i] = StartAfter(ends[i - 1], requests[i])
                                     + requests[i].count * Size[requests[i].type]
  <2> HIDE DEF requests
  <2>. QED  BY <1>2, EndsAre
<1>4. r.name \in names /\ DOMAIN at = names
  BY <1>2
<1> DEFINE i == index[r.name]
<1>5. i \in 1..n /\ i \in 0..n /\ i - 1 \in 0..n /\ requests[i] = r
  <2>1. PICK j \in DOMAIN requests : requests[j] = r
    BY <1>2, Zenon DEF Range
  <2>2. i = CHOOSE j2 \in DOMAIN requests : requests[j2].name = r.name
    BY <1>4
  <2> HIDE DEF requests, i
  <2>3. i \in DOMAIN requests /\ requests[i].name = r.name
    BY <2>1, <2>2
  <2>4. requests[i] \in Wanted(sc)
    BY <1>2, <2>3
  <2>5. requests[i] = r
    BY <2>3, <2>4, NamesAre
  <2>. QED  BY <1>2, <2>3, <2>5
<1>6. at[r.name] = [start |-> end[i] - requests[i].count * Size[requests[i].type], end |-> end[i]]
  <2> HIDE DEF end, requests, n
  <2>. QED  BY <1>4, Zenon
<1>7. end[i] = ends[i]
  BY <1>5
<1> DEFINE a == StartAfter(ends[i - 1], r)
           b == r.count
           c == Size[r.type]
           e == ends[i]
<1>8. a \in Nat /\ b \in Nat /\ c \in Nat /\ e = a + b * c
  <2> DEFINE p == ends[i - 1]
  <2>1. r.type \in Type /\ r.count \in Nat
    BY WantedTyped
  <2>2. p \in Nat
    BY <1>3, <1>5
  <2>3. e = StartAfter(p, r) + r.count * Size[r.type]
    <3> HIDE DEF requests, ends, i, n
    <3>. QED  BY <1>3, <1>5
  <2> HIDE DEF p, requests, ends
  <2>4. a \in Nat
    BY <2>1, <2>2, SizeIs, NextMultipleIs DEF StartAfter, p
  <2>5. b \in Nat /\ c \in Nat
    BY <2>1, SizeIs
  <2>. QED  BY <2>3, <2>4, <2>5 DEF p
<1>9. at[r.name] = [start |-> e - b * c, end |-> e]
  <2> HIDE DEF end, requests, n, i, at, ends
  <2>. QED  BY <1>5, <1>6, <1>7, Zenon
<1> DEFINE bc == b * c
           s == at[r.name]
<1>10. bc \in Nat
  <2> HIDE DEF b, c
  <2>. QED  BY <1>8
<1>11. s = [start |-> e - bc, end |-> e] /\ e = a + bc
  BY <1>8, <1>9, Zenon
<1>12. BuildStorageLayout(sc).at[r.name] = s
  BY <1>1
<1> HIDE DEF bc, s, a, e, at
<1>13. /\ s.start = a /\ s.end = e /\ s.end = s.start + bc
       /\ IsSection(s)
  BY <1>8, <1>10, <1>11 DEF IsSection
<1>. QED  BY <1>5, <1>8, <1>10, <1>12, <1>13 DEF bc, a, e

\* Every section that is wanted has a place in the file, behind the header,
\* aligned and long enough.
LEMMA SectionsAre ==
  ASSUME NEW sc, Scouted(sc), NEW r \in Wanted(sc)
  PROVE  LET layouts == BuildStorageLayout(sc)
             section == layouts.at[r.name]
         IN  /\ section.start \in Nat /\ section.end \in Nat /\ section.start <= section.end
             /\ section.end = section.start + r.count * Size[r.type] /\ r.count * Size[r.type] \in Nat
             /\ Size["header"] \in Nat /\ Size["header"] <= section.start
             /\ layouts.size \in Nat /\ section.end <= layouts.size
             /\ section.start % Alignment(r.type) = 0
<1> DEFINE requests == Requests(sc)
           n == Len(requests)
           end == Ends(requests)
           section == BuildStorageLayout(sc).at[r.name]
           bc == r.count * Size[r.type]
<1>1. PICK i \in 1..n :
        /\ requests[i] = r
        /\ section.start = StartAfter(end[i - 1], r) /\ section.end = end[i]
        /\ section.start \in Nat /\ bc \in Nat
        /\ section.end = section.start + bc
  BY SectionPlaced
<1>2. n \in Nat /\ Asked(requests)
  BY RequestsAre
<1>3. BuildStorageLayout(sc).size = end[n]
  <2>1. n \in 0..n
    BY <1>2
  <2>. QED  BY <2>1 DEF BuildStorageLayout
<1> HIDE DEF section, bc
<1>4. /\ end[0] = Size["header"] /\ \A j \in 0..n : end[j] \in Nat
  BY <1>2, EndsAre
<1>5. \A j \in 0..n : \A k \in 0..j : end[k] <= end[j]
  BY <1>2, EndsRise
<1> HIDE DEF requests, end, n
<1>6. i - 1 \in 0..n /\ i \in 0..n /\ n \in 0..n /\ 0 \in 0..(i - 1) /\ i \in 0..n
  BY <1>2
<1>7. r.type \in Type
  BY WantedTyped
<1>8. end[i - 1] \in Nat /\ end[0] <= end[i - 1] /\ end[i] <= end[n] /\ end[n] \in Nat /\ end[0] \in Nat
  BY <1>4, <1>5, <1>6
<1>9. section.start >= end[i - 1] /\ section.start % Alignment(r.type) = 0
  BY <1>1, <1>7, <1>8, SizeIs, NextMultipleIs DEF StartAfter
<1>10. /\ section.start \in Nat /\ section.end \in Nat /\ section.start <= section.end
       /\ section.end = section.start + bc /\ bc \in Nat
  BY <1>1
<1>11. Size["header"] \in Nat /\ Size["header"] <= section.start
  BY <1>4, <1>8, <1>9, <1>10
<1>12. BuildStorageLayout(sc).size \in Nat /\ section.end <= BuildStorageLayout(sc).size
  BY <1>1, <1>3, <1>8
<1>. QED  BY <1>9, <1>10, <1>11, <1>12 DEF section, bc

\* Two sections are apart.
LEMMA SectionsApart ==
  ASSUME NEW sc, Scouted(sc), NEW r \in Wanted(sc), NEW q \in Wanted(sc), r # q
  PROVE  LET a == BuildStorageLayout(sc).at[r.name]
             b == BuildStorageLayout(sc).at[q.name]
         IN  a.end <= b.start \/ b.end <= a.start
<1> DEFINE requests == Requests(sc)
           n == Len(requests)
           end == Ends(requests)
           At1(x) == BuildStorageLayout(sc).at[x.name]
<1>1. n \in Nat /\ Asked(requests)
  BY RequestsAre
<1>2. /\ \A j \in 0..n : end[j] \in Nat
      /\ \A j \in 0..n : \A k \in 0..j : end[k] <= end[j]
  BY <1>1, EndsAre, EndsRise
<1>3. ASSUME NEW x \in Wanted(sc)
      PROVE  \E i \in 1..n : requests[i] = x /\ At1(x).start >= end[i - 1] /\ At1(x).start \in Nat /\ At1(x).end = end[i]
  <2> DEFINE s == At1(x)
             bc == x.count * Size[x.type]
  <2>1. PICK i \in 1..n :
          /\ requests[i] = x
          /\ s.start = StartAfter(end[i - 1], x) /\ s.end = end[i]
          /\ s.start \in Nat /\ bc \in Nat
          /\ s.end = s.start + bc
    BY SectionPlaced
  <2> HIDE DEF s, end, n, requests
  <2>2. x.type \in Type /\ i - 1 \in 0..n
    BY <1>1, WantedTyped
  <2>3. s.start >= end[i - 1]
    BY <1>2, <2>1, <2>2, SizeIs, NextMultipleIs DEF StartAfter
  <2>. QED  BY <2>1, <2>3 DEF s
<1>4. PICK i \in 1..n : requests[i] = r /\ At1(r).start >= end[i - 1] /\ At1(r).start \in Nat /\ At1(r).end = end[i]
  BY <1>3
<1>5. PICK j \in 1..n : requests[j] = q /\ At1(q).start >= end[j - 1] /\ At1(q).start \in Nat /\ At1(q).end = end[j]
  BY <1>3
<1> HIDE DEF requests, n, end, At1
<1>6. i # j
  BY <1>4, <1>5
<1>7. CASE i < j
  <2>1. i \in 0..(j - 1) /\ j - 1 \in 0..n /\ i \in 0..n
    BY <1>1, <1>7
  <2>2. end[i] <= end[j - 1] /\ end[j - 1] \in Nat /\ end[i] \in Nat
    BY <1>2, <2>1
  <2>3. At1(r).end <= At1(q).start
    BY <1>4, <1>5, <2>2
  <2>. QED  BY <2>3 DEF At1
<1>8. CASE j < i
  <2>1. j \in 0..(i - 1) /\ i - 1 \in 0..n /\ j \in 0..n
    BY <1>1, <1>8
  <2>2. end[j] <= end[i - 1] /\ end[i - 1] \in Nat /\ end[j] \in Nat
    BY <1>2, <2>1
  <2>3. At1(q).end <= At1(r).start
    BY <1>4, <1>5, <2>2
  <2>. QED  BY <2>3 DEF At1
<1>. QED  BY <1>1, <1>6, <1>7, <1>8

-----------------------------------------------------------------------------
(* The partition of a leaf *)

\* One step of the curve is a number for every place, below four times as much.
LEMMA QuadrantsAre ==
  ASSUME NEW half \in Nat, half > 0, NEW curve \in [Nat \X Nat -> Nat]
  PROVE  /\ Quadrants(half, curve) \in [Nat \X Nat -> Nat]
         /\ \A m \in Nat : m = half * half /\ (\A c \in Nat \X Nat : curve[c] < m)
              => \A c \in Nat \X Nat : Quadrants(half, curve)[c] < 4 * m
<1> DEFINE low(z) == z % half
           flip(z) == (half - 1) - low(z)
           q == Quadrants(half, curve)
           hh == half * half
<1>1. \A z \in Nat : low(z) \in Nat /\ flip(z) \in Nat
  OBVIOUS
<1>2. hh \in Nat
  OBVIOUS
<1>3. ASSUME NEW c \in Nat \X Nat
      PROVE  /\ q[c] \in Nat
             /\ \E d \in Nat \X Nat : q[c] <= 3 * hh + curve[d]
  <2> DEFINE a == c[1]
             b == c[2]
  <2>1. a \in Nat /\ b \in Nat
    OBVIOUS
  <2>2. q[c] = CASE a < half /\ b < half   -> curve[<<low(b), low(a)>>]
                 [] a < half /\ b >= half  -> half * half + curve[<<low(a), low(b)>>]
                 [] a >= half /\ b >= half -> 2 * half * half + curve[<<low(a), low(b)>>]
                 [] a >= half /\ b < half  -> 3 * half * half + curve[<<flip(b), flip(a)>>]
    BY DEF Quadrants
  <2>3. 2 * half * half = 2 * hh /\ 3 * half * half = 3 * hh
    OBVIOUS
  <2>4. PICK d \in Nat \X Nat : \/ q[c] = curve[d] \/ q[c] = hh + curve[d]
                               \/ q[c] = 2 * hh + curve[d] \/ q[c] = 3 * hh + curve[d]
    <3>1. <<low(b), low(a)>> \in Nat \X Nat /\ <<low(a), low(b)>> \in Nat \X Nat
          /\ <<flip(b), flip(a)>> \in Nat \X Nat
      BY <1>1, <2>1
    <3>2. (a < half \/ a >= half) /\ (b < half \/ b >= half)
      BY <2>1
    <3> DEFINE x == <<low(b), low(a)>>
               y == <<low(a), low(b)>>
               z == <<flip(b), flip(a)>>
    <3>3. q[c] = CASE a < half /\ b < half   -> curve[x]
                   [] a < half /\ b >= half  -> hh + curve[y]
                   [] a >= half /\ b >= half -> 2 * hh + curve[y]
                   [] a >= half /\ b < half  -> 3 * hh + curve[z]
      BY <2>2, <2>3, Zenon
    <3> HIDE DEF x, y, z, a, b, q, hh
    <3>4. q[c] \in {curve[x], hh + curve[y], 2 * hh + curve[y], 3 * hh + curve[z]}
      <4>1. CASE a < half /\ b < half
        BY <2>1, <3>3, <4>1
      <4>2. CASE a < half /\ b >= half
        BY <2>1, <3>3, <4>2
      <4>3. CASE a >= half /\ b >= half
        BY <2>1, <3>3, <4>3
      <4>4. CASE a >= half /\ b < half
        BY <2>1, <3>3, <4>4
      <4>. QED  BY <3>2, <4>1, <4>2, <4>3, <4>4
    <3>. QED  BY <3>1, <3>4 DEF x, y, z
  <2>5. curve[d] \in Nat
    OBVIOUS
  <2> HIDE DEF q, hh, a, b, low, flip
  <2>. QED  BY <1>2, <2>4, <2>5
<1>4. q \in [Nat \X Nat -> Nat]
  <2>1. q = [c \in Nat \X Nat |-> q[c]]
    BY DEF Quadrants
  <2> HIDE DEF q
  <2>. QED  BY <1>3, <2>1
<1>5. ASSUME NEW m \in Nat, m = half * half, \A c \in Nat \X Nat : curve[c] < m
      PROVE  \A c \in Nat \X Nat : q[c] < 4 * m
  <2> TAKE c \in Nat \X Nat
  <2>1. m = hh
    BY <1>5
  <2> HIDE DEF q, hh
  <2>2. PICK d \in Nat \X Nat : q[c] <= 3 * hh + curve[d]
    BY <1>3
  <2>3. curve[d] < m /\ curve[d] \in Nat /\ q[c] \in Nat
    BY <1>3, <1>5
  <2>. QED  BY <2>1, <2>2, <2>3
<1>. QED  BY <1>4, <1>5 DEF q

\* The curve of an order has a place for every pair of coordinates.
LEMMA CurveIs ==
  /\ \A n \in Nat : XyToH[n] \in [Nat \X Nat -> Nat]
  /\ \A c \in Nat \X Nat : XyToH[0][c] = 0
  /\ \A n \in Nat : XyToH[n + 1] = Quadrants(Pow2[n], XyToH[n])
<1> DEFINE V == [Nat \X Nat -> Nat]
           zero == [c \in Nat \X Nat |-> 0]
           T == {0}
           mu == [n \in Nat |-> n]
           pred == [n \in Nat |-> IF n = 0 THEN 0 ELSE n - 1]
           base == [n \in Nat |-> zero]
           comb == [p \in Nat \X V |-> IF p[1] = 0 THEN zero ELSE Quadrants(Pow2[p[1] - 1], p[2])]
           Def(f) == f = [order \in Nat |-> IF order = 0 THEN zero ELSE Quadrants(Pow2[order - 1], f[order - 1])]
<1>0. zero \in V
  OBVIOUS
<1>1. PICK f \in [Nat -> V] : \A n \in Nat : f[n] = IF n \in T THEN base[n] ELSE comb[<<n, f[pred[n]]>>]
  <2>1. mu \in [Nat -> Nat] /\ T \in SUBSET Nat /\ pred \in [Nat -> Nat]
    OBVIOUS
  <2>2. base \in [Nat -> V]
    <3> HIDE DEF zero, V
    <3>. QED  BY <1>0
  <2>3. comb \in [Nat \X V -> V]
    <3>1. ASSUME NEW p \in Nat \X V, p[1] # 0
          PROVE  Quadrants(Pow2[p[1] - 1], p[2]) \in V
      <4>1. p[1] - 1 \in Nat /\ p[2] \in V
        BY <3>1
      <4>2. Pow2[p[1] - 1] \in Nat /\ Pow2[p[1] - 1] > 0
        BY <4>1, Pow2Is
      <4>. QED  BY <4>1, <4>2, QuadrantsAre
    <3> HIDE DEF zero, V
    <3>. QED  BY <1>0, <3>1
  <2>4. \A n \in Nat \ T : mu[pred[n]] < mu[n]
    OBVIOUS
  <2> HIDE DEF T, mu, pred, base, comb, V
  <2>5. Measured(Nat, V, mu, T, pred, base, comb)
    BY <2>1, <2>2, <2>3, <2>4 DEF Measured
  <2>6. \E f : Unfolds(f, Nat, V, T, pred, base, comb)
    BY <2>5, Recursion, Zenon
  <2>. QED  BY <2>6 DEF Unfolds
<1> HIDE DEF zero, V
<1>2. \A n \in Nat : f[n] = IF n = 0 THEN zero ELSE Quadrants(Pow2[n - 1], f[n - 1])
  <2> TAKE n \in Nat
  <2>1. n # 0 => pred[n] = n - 1 /\ n - 1 \in Nat
    OBVIOUS
  <2>2. n # 0 => comb[<<n, f[n - 1]>>] = Quadrants(Pow2[n - 1], f[n - 1])
    <3>1. n # 0 => <<n, f[n - 1]>> \in Nat \X V
      BY <1>1, <2>1
    <3>. QED  BY <3>1
  <2>3. base[n] = zero /\ (n \in T <=> n = 0)
    OBVIOUS
  <2> HIDE DEF T, pred, base, comb
  <2>. QED  BY <1>1, <2>1, <2>2, <2>3
<1>3. Def(f)
  BY <1>1, <1>2
<1>4. Def(XyToH)
  <2>1. XyToH = CHOOSE g : Def(g)
    BY Zenon DEF XyToH, zero
  <2> HIDE DEF Def
  <2>. QED  BY <1>3, <2>1
<1>5. \A n \in Nat : XyToH[n] = IF n = 0 THEN zero ELSE Quadrants(Pow2[n - 1], XyToH[n - 1])
  BY <1>4
<1> HIDE DEF Def
<1>6. XyToH[0] = zero /\ \A n \in Nat : XyToH[n + 1] = Quadrants(Pow2[n], XyToH[n])
  <2>1. \A n \in Nat : n + 1 \in Nat /\ n + 1 # 0 /\ (n + 1) - 1 = n
    OBVIOUS
  <2>. QED  BY <1>5, <2>1
<1>7. \A n \in Nat : XyToH[n] \in V
  <2> DEFINE Have == {n \in Nat : XyToH[n] \in V}
  <2>1. 0 \in Have
    BY <1>0, <1>6
  <2>2. ASSUME NEW n \in Nat, n \in Have
        PROVE  n + 1 \in Have
    <3>1. XyToH[n] \in V /\ Pow2[n] \in Nat /\ Pow2[n] > 0
      BY <2>2, Pow2Is
    <3>2. Quadrants(Pow2[n], XyToH[n]) \in V
      BY <3>1, QuadrantsAre DEF V
    <3>. QED  BY <1>6, <3>2
  <2>3. Nat \subseteq Have
    <3> HIDE DEF Have
    <3>. QED  BY <2>1, <2>2, Induction
  <2>. QED  BY <2>3
<1>8. \A c \in Nat \X Nat : XyToH[0][c] = 0
  BY <1>6 DEF zero
<1>. QED  BY <1>6, <1>7, <1>8 DEF V

\* The places of the curve of an order are those of the square it fills.
LEMMA CurveBelow ==
  ASSUME NEW n \in Nat, NEW c \in Nat \X Nat
  PROVE  XyToH[n][c] \in 0..(Pow2[n] * Pow2[n] - 1)
<1> DEFINE Have == {m \in Nat : \A d \in Nat \X Nat : XyToH[m][d] < Pow2[m] * Pow2[m]}
<1>1. 0 \in Have
  BY CurveIs, Pow2Is
<1>2. ASSUME NEW m \in Nat, m \in Have
      PROVE  m + 1 \in Have
  <2> DEFINE h == Pow2[m]
             curve == XyToH[m]
             hh == h * h
             next == XyToH[m + 1]
  <2>1. h \in Nat /\ h > 0 /\ Pow2[m + 1] = 2 * h
    BY Pow2Is
  <2>2. curve \in [Nat \X Nat -> Nat] /\ next = Quadrants(h, curve)
    BY CurveIs
  <2>3. \A d \in Nat \X Nat : curve[d] < hh
    BY <1>2
  <2> HIDE DEF h, curve, next
  <2>4. hh \in Nat
    BY <2>1
  <2>5. \A d \in Nat \X Nat : next[d] < 4 * hh
    <3>1. hh = h * h
      OBVIOUS
    <3> HIDE DEF hh
    <3>2. hh = h * h /\ (\A d \in Nat \X Nat : curve[d] < hh)
             => \A d \in Nat \X Nat : Quadrants(h, curve)[d] < 4 * hh
      BY <2>1, <2>2, <2>4, QuadrantsAre
    <3>. QED  BY <2>2, <2>3, <3>1, <3>2
  <2>6. (2 * h) * (2 * h) = 4 * hh
    BY <2>1
  <2>7. Pow2[m + 1] * Pow2[m + 1] = 4 * hh
    BY <2>1, <2>6
  <2> HIDE DEF hh
  <2>. QED  BY <2>5, <2>7 DEF next
<1>3. Nat \subseteq Have
  <2> HIDE DEF Have
  <2>. QED  BY <1>1, <1>2, Induction
<1>4. XyToH[n][c] \in Nat
  BY CurveIs
<1>5. XyToH[n][c] < Pow2[n] * Pow2[n]
  BY <1>3
<1> DEFINE x == XyToH[n][c]
           p == Pow2[n] * Pow2[n]
<1>6. p \in Nat
  <2>1. Pow2[n] \in Nat
    BY Pow2Is
  <2>. QED  BY <2>1
<1> HIDE DEF x, p
<1>7. x \in 0..(p - 1)
  BY <1>4, <1>5, <1>6 DEF x, p
<1>. QED  BY <1>7 DEF x, p

\* A larger power is not below a smaller one.
LEMMA Pow2Grows ==
  ASSUME NEW m \in Nat, NEW n \in Nat, m <= n
  PROVE  Pow2[m] <= Pow2[n]
<1> DEFINE d == n - m
           a == Pow2[m]
           b == Pow2[d]
<1>1. d \in Nat /\ m + d = n
  OBVIOUS
<1>2. Pow2[m + d] = a * b /\ a \in Nat /\ b \in Nat /\ b > 0
  <2> HIDE DEF d
  <2>. QED  BY <1>1, Pow2Sum, Pow2Is
<1>3. Pow2[n] = a * b
  <2> HIDE DEF d, a, b
  <2>. QED  BY <1>1, <1>2
<1> HIDE DEF a, b, d
<1>4. a <= a * b
  BY <1>2
<1>. QED  BY <1>3, <1>4 DEF a

\* A span that fits in some bits takes no more than them.
LEMMA SpanBitsAre ==
  ASSUME NEW bits \in 1..KeyBits, NEW low \in Nat, NEW high \in Nat, high - low < Pow2[bits]
  PROVE  SpanBits(low, high) \in 1..bits
<1> DEFINE s == SpanBits(low, high)
           d == high - low
           T == {b \in Nat : b \in 1..bits /\ d < Pow2[b]}
<1>0. KeyBits \in Nat /\ bits \in Nat /\ bits >= 1 /\ bits <= KeyBits
  BY HilbertAssumption
<1>1. d \in Int /\ d < Pow2[bits]
  OBVIOUS
<1>2. s = CHOOSE b \in 1..KeyBits : d < Pow2[b] /\ (b > 1 => d >= Pow2[b - 1])
  BY Zenon DEF SpanBits
<1> HIDE DEF d, s
<1>3. PICK b \in T : \A c \in T : b <= c
  <2>1. bits \in T /\ T \subseteq Nat
    BY <1>0, <1>1
  <2> HIDE DEF T
  <2>. QED  BY <2>1, Least
<1>4. b \in 1..KeyBits /\ d < Pow2[b] /\ (b > 1 => d >= Pow2[b - 1])
  <2>1. b \in 1..KeyBits /\ d < Pow2[b]
    BY <1>0, <1>3
  <2>2. ASSUME b > 1
        PROVE  d >= Pow2[b - 1]
    <3>1. b - 1 \in Nat /\ b - 1 \in 1..bits /\ ~(b <= b - 1)
      BY <1>0, <1>3, <2>2
    <3>2. b - 1 \notin T
      <4> HIDE DEF T
      <4>. QED  BY <1>3, <3>1
    <3>3. ~(d < Pow2[b - 1])
      BY <3>1, <3>2
    <3>4. Pow2[b - 1] \in Nat
      BY <3>1, Pow2Is
    <3>. QED  BY <1>1, <3>3, <3>4
  <2>. QED  BY <2>1, <2>2
<1>5. s \in 1..KeyBits /\ d < Pow2[s] /\ (s > 1 => d >= Pow2[s - 1])
  <2> HIDE DEF T
  <2>. QED  BY <1>2, <1>4
<1>6. ASSUME s > bits
      PROVE  FALSE
  <2>1. s > 1 /\ s - 1 \in Nat /\ bits <= s - 1
    BY <1>0, <1>5, <1>6
  <2>2. Pow2[bits] <= Pow2[s - 1] /\ Pow2[bits] \in Nat /\ Pow2[s - 1] \in Nat
    BY <1>0, <2>1, Pow2Grows, Pow2Is
  <2>3. d >= Pow2[s - 1]
    BY <1>5, <2>1
  <2>. QED  BY <1>1, <2>2, <2>3
<1>7. s \in 1..bits
  BY <1>0, <1>5, <1>6
<1>. QED  BY <1>7 DEF s

\* A value that is shifted keeps to its width.
LEMMA ShiftedIs ==
  ASSUME NEW x \in Int, NEW n \in Nat, NEW width \in Nat
  PROVE  ShiftLeft(x, n, width) \in Nat
<1> DEFINE p == Pow2[n]
           w == Pow2[width]
           y == x * p
<1>1. p \in Nat /\ w \in Nat /\ w > 0
  BY Pow2Is
<1> HIDE DEF p, w
<1>2. y \in Int
  BY <1>1
<1> HIDE DEF y
<1>3. y % w \in Nat
  BY <1>1, <1>2
<1>. QED  BY <1>3 DEF ShiftLeft, y, p, w

\* A leaf has coordinates on the curve.
LEMMA CoordinatesAre ==
  ASSUME NEW node \in Node, NEW bbox \in Node
  PROVE  Coordinates(node, bbox)[1] \in Nat /\ Coordinates(node, bbox)[2] \in Nat
<1> DEFINE key == Midpoint(node.key_min, node.key_max) - bbox.key_min
           time == Midpoint(node.time_min, node.time_max) - bbox.time_min
           s == SpanBits(bbox.key_min, bbox.key_max)
           t == SpanBits(bbox.time_min, bbox.time_max)
           x == ShiftLeft(key, KeyBits - s, KeyBits)
           y == ShiftLeft(time, TimeBits - t, TimeBits)
           p == Pow2[KeyBits - TimeBits]
<1>1. /\ KeyBits \in Nat /\ TimeBits \in 1..KeyBits /\ TimeBits \in Nat /\ KeyBits >= 1
      /\ Key \subseteq 0..(Pow2[KeyBits] - 1) /\ Time \subseteq 0..(Pow2[TimeBits] - 1)
  BY HilbertAssumption
<1>2. /\ node.key_min \in Nat /\ node.key_max \in Nat /\ node.time_min \in Nat /\ node.time_max \in Nat
      /\ bbox.key_min \in Nat /\ bbox.key_max \in Nat /\ bbox.time_min \in Nat /\ bbox.time_max \in Nat
      /\ bbox.key_max \in Key /\ bbox.time_max \in Time
  BY NodeFields
<1>3. key \in Int /\ time \in Int
  BY <1>2 DEF Midpoint
<1>4. Pow2[KeyBits] \in Nat /\ Pow2[TimeBits] \in Nat /\ p \in Nat
  <2>1. KeyBits - TimeBits \in Nat
    BY <1>1
  <2>. QED  BY <1>1, <2>1, Pow2Is
<1>5. s \in 1..KeyBits
  <2>1. bbox.key_max - bbox.key_min < Pow2[KeyBits]
    BY <1>1, <1>2, <1>4
  <2>2. KeyBits \in 1..KeyBits
    BY <1>1
  <2>. QED  BY <1>2, <2>1, <2>2, SpanBitsAre
<1>6. t \in 1..TimeBits
  <2>1. bbox.time_max - bbox.time_min < Pow2[TimeBits]
    BY <1>1, <1>2, <1>4
  <2>. QED  BY <1>1, <1>2, <2>1, SpanBitsAre
<1>7. KeyBits - s \in Nat /\ TimeBits - t \in Nat
  <2> HIDE DEF s, t
  <2>. QED  BY <1>1, <1>5, <1>6
<1> HIDE DEF key, time, s, t
<1>8. x \in Nat /\ y \in Nat
  BY <1>1, <1>3, <1>7, ShiftedIs
<1>9. Coordinates(node, bbox) = <<x, y * p>>
  BY Zenon DEF Coordinates, key, time, s, t
<1> HIDE DEF x, y, p
<1>10. y * p \in Nat
  BY <1>4, <1>8
<1>. QED  BY <1>8, <1>9, <1>10

\* A leaf is in one of the partitions.
LEMMA PartitionKeyIs ==
  ASSUME NEW node \in Node, NEW bbox \in Node
  PROVE  HilbertPartitionKey(node, bbox) \in Part
<1> DEFINE a == Coordinates(node, bbox)[1]
           b == Coordinates(node, bbox)[2]
           p == Pow2[KeyBits - PartBits]
           c == <<a \div p, b \div p>>
<1>1. a \in Nat /\ b \in Nat
  BY CoordinatesAre
<1>2. KeyBits - PartBits \in Nat /\ PartBits \in Nat
  BY HilbertAssumption
<1>3. p \in Nat /\ p > 0
  BY <1>2, Pow2Is
<1>4. HilbertPartitionKey(node, bbox) = XyToH[PartBits][c]
  BY Zenon DEF HilbertPartitionKey
<1> HIDE DEF a, b, p
<1>5. c \in Nat \X Nat
  BY <1>1, <1>3
<1> HIDE DEF c
<1>. QED  BY <1>2, <1>4, <1>5, CurveBelow DEF Part

\* What is left after whole multiples.
LEMMA RemainderIs ==
  ASSUME NEW w \in Nat, w > 0, NEW q \in Nat, NEW r \in Nat, r < w, NEW m \in Nat, m = q * w
  PROVE  (m + r) % w = r
<1> DEFINE a == m + r
<1>1. a \in Nat /\ a = m + r
  OBVIOUS
<1> HIDE DEF a
<1>2. a % w = r
  BY <1>1
<1>. QED  BY <1>2 DEF a

\* A place inside a quadrant, one bit coarser.
LEMMA HalvesAre ==
  ASSUME NEW half \in Nat, half > 0, NEW a \in Nat
  PROVE  /\ (a < 2 * half <=> a \div 2 < half)
         /\ (a % (2 * half)) \div 2 = (a \div 2) % half
         /\ ((2 * half - 1) - (a % (2 * half))) \div 2 = (half - 1) - ((a \div 2) % half)
<1> DEFINE w == 2 * half
           q == a \div w
           r == a % w
           s == r \div 2
           b == r % 2
<1>1. q \in Nat /\ r \in Nat /\ r < w /\ a = w * q + r
  <2>1. w \in Nat /\ w > 0
    OBVIOUS
  <2> HIDE DEF w
  <2>. QED  BY <2>1
<1>2. s \in Nat /\ b \in {0, 1} /\ r = 2 * s + b /\ w = 2 * half
  <2> HIDE DEF r
  <2>. QED  BY <1>1
<1> HIDE DEF w, q, r, s, b
<1>3. s < half /\ r \div 2 = s
  BY <1>1, <1>2
<1> DEFINE m == q * half
<1>4. m \in Nat /\ w * q = 2 * m
  BY <1>1, <1>2
<1>5. a \div 2 = m + s
  <2> HIDE DEF m
  <2>. QED  BY <1>1, <1>2, <1>4
<1>6. (m + s) % half = s
  <2>1. m = q * half
    OBVIOUS
  <2> HIDE DEF m
  <2>. QED  BY <1>1, <1>2, <1>3, <1>4, <2>1, RemainderIs
<1>7. a < w <=> a \div 2 < half
  BY <1>2
<1>8. ((w - 1) - r) \div 2 = (half - 1) - s
  <2>1. CASE b = 0
    <3>1. (w - 1) - r = 2 * ((half - 1) - s) + 1 /\ (half - 1) - s \in Nat
      BY <1>2, <1>3, <2>1
    <3> DEFINE f == (half - 1) - s
    <3> HIDE DEF f
    <3>2. f \in Nat /\ (w - 1) - r = 2 * f + 1
      BY <3>1 DEF f
    <3>3. (2 * f + 1) \div 2 = f
      BY <3>2
    <3>. QED  BY <3>2, <3>3 DEF f
  <2>2. CASE b = 1
    <3>1. (w - 1) - r = 2 * ((half - 1) - s) /\ (half - 1) - s \in Nat
      BY <1>2, <1>3, <2>2
    <3> DEFINE f == (half - 1) - s
    <3> HIDE DEF f
    <3>2. f \in Nat /\ (w - 1) - r = 2 * f
      BY <3>1 DEF f
    <3>3. (2 * f) \div 2 = f
      BY <3>2
    <3>. QED  BY <3>2, <3>3 DEF f
  <2>. QED  BY <1>2, <2>1, <2>2
<1>. QED  BY <1>3, <1>5, <1>6, <1>7, <1>8 DEF w, r

\* One step of the curve, looked at one bit coarser.
LEMMA QuadrantsHalve ==
  ASSUME NEW half \in Nat, half > 0,
         NEW fine \in [Nat \X Nat -> Nat], NEW coarse \in [Nat \X Nat -> Nat],
         \A a, b \in Nat : fine[<<a, b>>] \div 4 = coarse[<<a \div 2, b \div 2>>]
  PROVE  \A a, b \in Nat :
           Quadrants(2 * half, fine)[<<a, b>>] \div 4 = Quadrants(half, coarse)[<<a \div 2, b \div 2>>]
<1> SUFFICES ASSUME NEW a \in Nat, NEW b \in Nat
             PROVE  Quadrants(2 * half, fine)[<<a, b>>] \div 4
                      = Quadrants(half, coarse)[<<a \div 2, b \div 2>>]
  OBVIOUS
<1> DEFINE w == 2 * half
           la == a % w
           lb == b % w
           fa == (w - 1) - la
           fb == (w - 1) - lb
           c == a \div 2
           d == b \div 2
           lc == c % half
           ld == d % half
           fc == (half - 1) - lc
           fd == (half - 1) - ld
           hh == half * half
           left == Quadrants(w, fine)[<<a, b>>]
           right == Quadrants(half, coarse)[<<c, d>>]
<1>1. /\ la \in Nat /\ lb \in Nat /\ fa \in Nat /\ fb \in Nat /\ c \in Nat /\ d \in Nat
      /\ lc \in Nat /\ ld \in Nat /\ fc \in Nat /\ fd \in Nat /\ hh \in Nat /\ w \in Nat
  <2>1. w \in Nat /\ w > 0 /\ hh \in Nat
    OBVIOUS
  <2>2. la \in Nat /\ lb \in Nat /\ fa \in Nat /\ fb \in Nat
    <3> HIDE DEF w
    <3>. QED  BY <2>1
  <2>3. c \in Nat /\ d \in Nat
    OBVIOUS
  <2>4. lc \in Nat /\ ld \in Nat /\ fc \in Nat /\ fd \in Nat
    <3> HIDE DEF c, d
    <3>. QED  BY <2>3
  <2>. QED  BY <2>1, <2>2, <2>3, <2>4
<1>2. /\ (a < w <=> c < half) /\ la \div 2 = lc /\ fa \div 2 = fc
      /\ (b < w <=> d < half) /\ lb \div 2 = ld /\ fb \div 2 = fd
  BY HalvesAre
<1>3. left = CASE a < w /\ b < w   -> fine[<<lb, la>>]
               [] a < w /\ b >= w  -> w * w + fine[<<la, lb>>]
               [] a >= w /\ b >= w -> 2 * w * w + fine[<<la, lb>>]
               [] a >= w /\ b < w  -> 3 * w * w + fine[<<fb, fa>>]
  <2> HIDE DEF w
  <2>. QED  BY DEF Quadrants
<1>4. right = CASE c < half /\ d < half   -> coarse[<<ld, lc>>]
                [] c < half /\ d >= half  -> half * half + coarse[<<lc, ld>>]
                [] c >= half /\ d >= half -> 2 * half * half + coarse[<<lc, ld>>]
                [] c >= half /\ d < half  -> 3 * half * half + coarse[<<fd, fc>>]
  <2> HIDE DEF c, d
  <2>. QED  BY <1>1 DEF Quadrants
<1>5. /\ w * w = 4 * hh /\ 2 * w * w = 4 * (2 * hh) /\ 3 * w * w = 4 * (3 * hh)
      /\ 2 * half * half = 2 * hh /\ 3 * half * half = 3 * hh
  OBVIOUS
<1> DEFINE x == fine[<<lb, la>>]
           y == fine[<<la, lb>>]
           z == fine[<<fb, fa>>]
           p == coarse[<<ld, lc>>]
           q == coarse[<<lc, ld>>]
           r == coarse[<<fd, fc>>]
<1> HIDE DEF la, lb, fa, fb, c, d, lc, ld, fc, fd
<1>6. /\ x \in Nat /\ y \in Nat /\ z \in Nat /\ x \div 4 = p /\ y \div 4 = q /\ z \div 4 = r
  BY <1>1, <1>2
<1>7. left = CASE a < w /\ b < w   -> x
               [] a < w /\ b >= w  -> 4 * hh + y
               [] a >= w /\ b >= w -> 4 * (2 * hh) + y
               [] a >= w /\ b < w  -> 4 * (3 * hh) + z
  BY <1>3, <1>5, Zenon
<1>8. right = CASE c < half /\ d < half   -> p
                [] c < half /\ d >= half  -> hh + q
                [] c >= half /\ d >= half -> 2 * hh + q
                [] c >= half /\ d < half  -> 3 * hh + r
  BY <1>4, <1>5, Zenon
<1> HIDE DEF left, right, x, y, z, p, q, r, hh, w
<1>9. left \div 4 = right
  <2>1. \A m, v \in Nat : (4 * m + v) \div 4 = m + (v \div 4)
    OBVIOUS
  <2>2. hh \in Nat /\ 2 * hh \in Nat /\ 3 * hh \in Nat
    BY <1>1
  <2>3. /\ (4 * hh + y) \div 4 = hh + q /\ (4 * (2 * hh) + y) \div 4 = 2 * hh + q
        /\ (4 * (3 * hh) + z) \div 4 = 3 * hh + r
    BY <1>6, <2>1, <2>2
  <2>4. /\ (a >= w <=> ~(a < w)) /\ (b >= w <=> ~(b < w))
        /\ (c >= half <=> ~(c < half)) /\ (d >= half <=> ~(d < half))
    BY <1>1
  <2>5. CASE a < w /\ b < w
    <3>1. left = x /\ right = p
      BY <1>2, <1>7, <1>8, <2>4, <2>5
    <3>. QED  BY <1>6, <3>1
  <2>6. CASE a < w /\ ~(b < w)
    <3>1. left = 4 * hh + y /\ right = hh + q
      BY <1>2, <1>7, <1>8, <2>4, <2>6
    <3>. QED  BY <2>3, <3>1
  <2>7. CASE ~(a < w) /\ ~(b < w)
    <3>1. left = 4 * (2 * hh) + y /\ right = 2 * hh + q
      BY <1>2, <1>7, <1>8, <2>4, <2>7
    <3>. QED  BY <2>3, <3>1
  <2>8. CASE ~(a < w) /\ b < w
    <3>1. left = 4 * (3 * hh) + z /\ right = 3 * hh + r
      BY <1>2, <1>7, <1>8, <2>4, <2>8
    <3>. QED  BY <2>3, <3>1
  <2>. QED  BY <2>5, <2>6, <2>7, <2>8
<1>. QED  BY <1>9 DEF left, right, w, c, d

\* The place on the curve of the higher bits is the beginning of the place.
LEMMA CurveHalves ==
  \A n \in Nat : \A a, b \in Nat : XyToH[n + 1][<<a, b>>] \div 4 = XyToH[n][<<a \div 2, b \div 2>>]
<1> DEFINE Have == {n \in Nat : \A a, b \in Nat :
                      XyToH[n + 1][<<a, b>>] \div 4 = XyToH[n][<<a \div 2, b \div 2>>]}
<1>1. 0 \in Have
  <2> SUFFICES ASSUME NEW a \in Nat, NEW b \in Nat
               PROVE  XyToH[0 + 1][<<a, b>>] \div 4 = XyToH[0][<<a \div 2, b \div 2>>]
    OBVIOUS
  <2>1. XyToH[0][<<a \div 2, b \div 2>>] = 0
    <3>1. <<a \div 2, b \div 2>> \in Nat \X Nat
      OBVIOUS
    <3>. QED  BY <3>1, CurveIs, Zenon
  <2>2. XyToH[1][<<a, b>>] \in 0..3
    <3>1. Pow2[1] = 2
      <4>1. Pow2[0 + 1] = 2 * Pow2[0] /\ Pow2[0] = 1
        BY Pow2Is
      <4>. QED  BY <4>1
    <3>2. XyToH[1][<<a, b>>] \in 0..(Pow2[1] * Pow2[1] - 1)
      BY CurveBelow
    <3>. QED  BY <3>1, <3>2
  <2> DEFINE x == XyToH[1][<<a, b>>]
  <2>3. x \div 4 = 0
    <3> HIDE DEF x
    <3>. QED  BY <2>2 DEF x
  <2>. QED  BY <2>1, <2>3
<1>2. ASSUME NEW n \in Nat, n \in Have
      PROVE  n + 1 \in Have
  <2> DEFINE half == Pow2[n]
             fine == XyToH[n + 1]
             coarse == XyToH[n]
  <2>1. half \in Nat /\ half > 0 /\ Pow2[n + 1] = 2 * half
    BY Pow2Is
  <2>2. fine \in [Nat \X Nat -> Nat] /\ coarse \in [Nat \X Nat -> Nat]
    BY CurveIs
  <2>3. /\ XyToH[(n + 1) + 1] = Quadrants(Pow2[n + 1], fine)
        /\ XyToH[n + 1] = Quadrants(half, coarse)
    BY CurveIs
  <2>4. \A a, b \in Nat : fine[<<a, b>>] \div 4 = coarse[<<a \div 2, b \div 2>>]
    BY <1>2
  <2> HIDE DEF half, fine, coarse
  <2>5. \A a, b \in Nat :
          Quadrants(2 * half, fine)[<<a, b>>] \div 4 = Quadrants(half, coarse)[<<a \div 2, b \div 2>>]
    <3> HIDE DEF Have
    <3>1. half \in Nat /\ half > 0
      BY <2>1
    <3>. QED  BY <3>1, <2>2, <2>4, QuadrantsHalve, ZenonT(40)
  <2>6. \A a, b \in Nat : XyToH[(n + 1) + 1][<<a, b>>] \div 4 = XyToH[n + 1][<<a \div 2, b \div 2>>]
    <3>1. XyToH[(n + 1) + 1] = Quadrants(2 * half, fine)
      BY <2>1, <2>3
    <3>. QED  BY <3>1, <2>3, <2>5, Zenon
  <2>. QED  BY <2>6
<1>3. Nat \subseteq Have
  <2> HIDE DEF Have
  <2>. QED  BY <1>1, <1>2, Induction
<1>. QED  BY <1>3

\* The curve over fewer bits is the beginning of the curve over more
\* (hilbert_spec.rs:147-155), by how many more there are.
LEMMA CurveBegins ==
  ASSUME NEW n \in Nat
  PROVE  \A d \in Nat : \A a, b \in Nat :
           XyToH[n + d][<<a, b>>] \div (Pow2[d] * Pow2[d]) = XyToH[n][<<a \div Pow2[d], b \div Pow2[d]>>]
<1> DEFINE Have == {d \in Nat : \A a, b \in Nat :
             XyToH[n + d][<<a, b>>] \div (Pow2[d] * Pow2[d]) = XyToH[n][<<a \div Pow2[d], b \div Pow2[d]>>]}
<1>1. 0 \in Have
  <2> SUFFICES ASSUME NEW a \in Nat, NEW b \in Nat
               PROVE  XyToH[n + 0][<<a, b>>] \div (Pow2[0] * Pow2[0])
                        = XyToH[n][<<a \div Pow2[0], b \div Pow2[0]>>]
    OBVIOUS
  <2>1. Pow2[0] = 1 /\ n + 0 = n
    BY Pow2Is
  <2>2. XyToH[n][<<a, b>>] \in Nat
    <3>1. <<a, b>> \in Nat \X Nat
      OBVIOUS
    <3>. QED  BY <3>1, CurveIs
  <2> DEFINE x == XyToH[n][<<a, b>>]
  <2>3. x \div (1 * 1) = x /\ a \div 1 = a /\ b \div 1 = b
    <3> HIDE DEF x
    <3>. QED  BY <2>2 DEF x
  <2>. QED  BY <2>1, <2>3
<1>2. ASSUME NEW d \in Nat, d \in Have
      PROVE  d + 1 \in Have
  <2> SUFFICES ASSUME NEW a \in Nat, NEW b \in Nat
               PROVE  XyToH[n + (d + 1)][<<a, b>>] \div (Pow2[d + 1] * Pow2[d + 1])
                        = XyToH[n][<<a \div Pow2[d + 1], b \div Pow2[d + 1]>>]
    OBVIOUS
  <2> DEFINE w == Pow2[d]
             ww == w * w
             x == XyToH[(n + d) + 1][<<a, b>>]
             e == a \div 2
             f == b \div 2
  <2>1. w \in Nat /\ w > 0 /\ Pow2[d + 1] = 2 * w
    BY Pow2Is
  <2>2. x \in Nat /\ e \in Nat /\ f \in Nat /\ n + (d + 1) = (n + d) + 1
    <3>1. <<a, b>> \in Nat \X Nat /\ (n + d) + 1 \in Nat
      OBVIOUS
    <3>2. x \in Nat
      BY <3>1, CurveIs
    <3>. QED  BY <3>2
  <2>3. x \div 4 = XyToH[n + d][<<e, f>>]
    BY CurveHalves
  <2>4. XyToH[n + d][<<e, f>>] \div ww = XyToH[n][<<e \div w, f \div w>>]
    BY <1>2, <2>2
  <2> HIDE DEF w, x
  <2>5. ww \in Nat /\ ww > 0 /\ (2 * w) * (2 * w) = 4 * ww
    BY <2>1
  <2> HIDE DEF ww
  <2>6. (x \div 4) \div ww = x \div (4 * ww)
    BY <2>2, <2>5, QuotientOfQuotient
  <2>7. e \div w = a \div (2 * w) /\ f \div w = b \div (2 * w)
    BY <2>1, QuotientOfQuotient
  <2>8. x \div ((2 * w) * (2 * w)) = XyToH[n][<<a \div (2 * w), b \div (2 * w)>>]
    <3> HIDE DEF e, f
    <3>. QED  BY <2>3, <2>4, <2>5, <2>6, <2>7
  <2>. QED  BY <2>1, <2>2, <2>8 DEF x
<1>3. Nat \subseteq Have
  <2> HIDE DEF Have
  <2>. QED  BY <1>1, <1>2, Induction
<1>. QED  BY <1>3

\* The partition of a leaf is the beginning of its key.
LEMMA PartitionBegins ==
  ASSUME NEW node \in Node, NEW bbox \in Node
  PROVE  LET w == Pow2[KeyBits - PartBits]
         IN  /\ HilbertKey(node, bbox) \in Nat /\ w * w \in Nat /\ w * w > 0
             /\ HilbertPartitionKey(node, bbox) = HilbertKey(node, bbox) \div (w * w)
<1> DEFINE d == KeyBits - PartBits
           w == Pow2[d]
           c == Coordinates(node, bbox)
           a == c[1]
           b == c[2]
<1>1. /\ PartBits \in Nat /\ d \in Nat /\ KeyBits \in Nat /\ PartBits + d = KeyBits
  BY HilbertAssumption
<1>2. a \in Nat /\ b \in Nat /\ c = <<a, b>>
  <2>1. a \in Nat /\ b \in Nat
    BY CoordinatesAre
  <2>2. c = <<a, b>>
    BY DEF Coordinates
  <2>. QED  BY <2>1, <2>2
<1> HIDE DEF c, d, a, b
<1>3. w \in Nat /\ w > 0
  BY <1>1, Pow2Is
<1>4. w * w \in Nat /\ w * w > 0
  <2> HIDE DEF w
  <2>. QED  BY <1>3
<1>5. HilbertKey(node, bbox) = XyToH[PartBits + d][<<a, b>>]
  BY <1>1, <1>2 DEF HilbertKey, c
<1>6. HilbertPartitionKey(node, bbox) = XyToH[PartBits][<<a \div w, b \div w>>]
  BY DEF HilbertPartitionKey, c, d, a, b
<1>7. XyToH[PartBits + d][<<a, b>>] \div (w * w) = XyToH[PartBits][<<a \div w, b \div w>>]
  BY <1>1, <1>2, CurveBegins
<1>8. XyToH[PartBits + d][<<a, b>>] \in Nat
  <2>1. <<a, b>> \in Nat \X Nat /\ PartBits + d \in Nat
    BY <1>1, <1>2
  <2>. QED  BY <2>1, CurveIs
<1>. QED  BY <1>4, <1>5, <1>6, <1>7, <1>8 DEF w, d

\* A leaf of an earlier partition does not have a larger key, so partitions that
\* are sorted make a sorted tree one after the other (hilbert_spec.rs:147-155,
\* fill.rs:160-173).
THEOREM EarlierPartition ==
  ASSUME NEW node \in Node, NEW other \in Node, NEW bbox \in Node,
         HilbertPartitionKey(node, bbox) < HilbertPartitionKey(other, bbox)
  PROVE  HilbertKey(node, bbox) <= HilbertKey(other, bbox)
<1> DEFINE w == Pow2[KeyBits - PartBits]
           m == w * w
           a == HilbertKey(node, bbox)
           b == HilbertKey(other, bbox)
<1>1. a \in Nat /\ b \in Nat /\ m \in Nat /\ m > 0
  BY PartitionBegins
<1>2. HilbertPartitionKey(node, bbox) = a \div m /\ HilbertPartitionKey(other, bbox) = b \div m
  BY PartitionBegins
<1> HIDE DEF a, b, m
<1>3. a \div m < b \div m
  BY <1>2
<1>4. ~(b < a)
  <2> SUFFICES ASSUME b < a PROVE FALSE
    OBVIOUS
  <2> DEFINE q == b \div m
             r == a \div m
             s == (r + 1) * m
             u == q * m
  <2>1. q \in Nat /\ r \in Nat /\ q * m <= b /\ a < (r + 1) * m
    BY <1>1, QuotientIs
  <2>2. r + 1 <= q
    <3> HIDE DEF q, r
    <3>. QED  BY <1>3, <2>1 DEF q, r
  <2> HIDE DEF q, r
  <2>3. (r + 1) * m <= q * m
    BY <1>1, <2>1, <2>2
  <2>4. s \in Nat /\ u \in Nat
    BY <1>1, <2>1
  <2> HIDE DEF s, u
  <2>. QED  BY <1>1, <2>1, <2>3, <2>4 DEF s, u
<1>. QED  BY <1>1, <1>4 DEF a, b

-----------------------------------------------------------------------------
(* The passes before the file *)

\* What a trace has at its places.
LEMMA LeafIs ==
  ASSUME NEW events \in Traces, NEW i \in 1..Len(events), events[i].of = "leaf"
  PROVE  /\ events[i].tree \in Tree /\ events[i].node \in Node
         /\ PartOf(events, events[i]) \in Part
         /\ i \in LeavesIn(events, events[i].tree, PartOf(events, events[i]))
<1> DEFINE e == events[i]
           at == LeavesOf(events, e.tree)
           nodes == {events[j].node : j \in at}
<1>1. events \in Seq(Event) /\ DOMAIN events = 1..Len(events)
  BY TracesAssumption
<1>2. ASSUME NEW j \in 1..Len(events), events[j].of = "leaf"
      PROVE  events[j].tree \in Tree /\ events[j].node \in Node
  BY <1>1, <1>2 DEF Event
<1>3. i \in at /\ \A j \in at : j \in 1..Len(events) /\ events[j].of = "leaf"
  BY <1>1 DEF LeavesOf
<1>4. nodes \in SUBSET Node /\ nodes # {}
  BY <1>2, <1>3
<1>5. Bbox(nodes) \in Node
  <2> HIDE DEF nodes
  <2>. QED  BY <1>4, BboxIs DEF IsBbox
<1>6. PartOf(events, e) = HilbertPartitionKey(e.node, Bbox(nodes))
  BY Zenon DEF PartOf, BboxOf
<1>7. e.tree \in Tree /\ e.node \in Node
  BY <1>2
<1>8. PartOf(events, e) \in Part
  <2> HIDE DEF e, nodes
  <2>. QED  BY <1>5, <1>6, <1>7, PartitionKeyIs
<1>9. i \in LeavesIn(events, e.tree, PartOf(events, e))
  BY <1>3 DEF LeavesIn
<1>. QED  BY <1>7, <1>8, <1>9

\* The leaves of a tree are a finite number, and so are those of its partitions.
LEMMA LeavesCount ==
  ASSUME NEW events \in Traces, NEW tree, NEW part
  PROVE  /\ IsFiniteSet(LeavesOf(events, tree)) /\ Cardinality(LeavesOf(events, tree)) \in Nat
         /\ IsFiniteSet(LeavesIn(events, tree, part)) /\ Cardinality(LeavesIn(events, tree, part)) \in Nat
         /\ LeavesIn(events, tree, part) \subseteq 1..Len(events)
<1>1. DOMAIN events = 1..Len(events) /\ Len(events) \in Nat
  BY TracesAssumption
<1>2. IsFiniteSet(1..Len(events))
  BY <1>1, FS_Interval
<1>3. LeavesOf(events, tree) \subseteq 1..Len(events) /\ LeavesIn(events, tree, part) \subseteq 1..Len(events)
  BY <1>1 DEF LeavesOf, LeavesIn
<1>4. IsFiniteSet(LeavesOf(events, tree)) /\ IsFiniteSet(LeavesIn(events, tree, part))
  BY <1>2, <1>3, FS_Subset
<1>. QED  BY <1>3, <1>4, FS_CardinalityType

\* The trees of a kind are counted to the last one that has a leaf.
LEMMA TreesAreCounted ==
  ASSUME NEW events \in Traces
  PROVE  /\ \A k \in Kind : ScoutPass(events).count[k] \in 0..MaxTrees
         /\ \A i \in 1..Len(events) : events[i].of = "leaf" =>
              \E k \in Kind : events[i].tree \in TreesIn(ScoutPass(events), k)
<1> DEFINE S(k) == {j \in 1..MaxTrees : LeavesOf(events, <<k, j>>) # {}}
           c == ScoutPass(events).count
<1>1. MaxTrees \in Nat /\ Dense(events) /\ DOMAIN events = 1..Len(events)
  BY TracesAssumption
<1>2. IsFiniteSet(1..MaxTrees) /\ Cardinality(1..MaxTrees) = MaxTrees
  BY <1>1, FS_Interval
<1>3. \A k : /\ IsFiniteSet(S(k)) /\ Cardinality(S(k)) \in Nat /\ Cardinality(S(k)) <= MaxTrees
  <2> TAKE k
  <2>1. S(k) \subseteq 1..MaxTrees
    OBVIOUS
  <2> HIDE DEF S
  <2>. QED  BY <1>2, <2>1, FS_Subset, FS_CardinalityType
<1>4. \A k \in Kind : c[k] = Cardinality(S(k))
  <2>1. c = [k \in Kind |-> Cardinality(S(k))]
    BY DEF ScoutPass
  <2> HIDE DEF c, S
  <2>. QED  BY <2>1
<1>5. \A k \in Kind : c[k] \in 0..MaxTrees
  <2> HIDE DEF c, S
  <2>. QED  BY <1>1, <1>3, <1>4
<1>6. ASSUME NEW i \in 1..Len(events), events[i].of = "leaf"
      PROVE  \E k \in Kind : events[i].tree \in TreesIn(ScoutPass(events), k)
  <2> DEFINE t == events[i].tree
  <2>1. t \in Tree /\ i \in LeavesOf(events, t)
    BY <1>1, <1>6, LeafIs DEF LeavesOf
  <2>2. PICK k \in Kind, j \in 1..MaxTrees : t = <<k, j>>
    BY <2>1 DEF Tree
  <2>3. \A l \in 1..j : LeavesOf(events, <<k, l>>) # {}
    <3>1. LeavesOf(events, t) # {}
      BY <2>1
    <3>2. \A l \in 1..t[2] : LeavesOf(events, <<t[1], l>>) # {}
      <4> HIDE DEF t
      <4>. QED  BY <1>1, <2>1, <3>1 DEF Dense
    <3>3. t[1] = k /\ t[2] = j
      BY <2>2
    <3> HIDE DEF t
    <3>. QED  BY <3>2, <3>3
  <2>4. j \in Nat /\ j <= MaxTrees /\ 1..j \subseteq S(k)
    BY <1>1, <2>2, <2>3
  <2>5. Cardinality(1..j) = j
    BY <2>2, <2>4, FS_Interval
  <2>6. j <= c[k]
    <3> HIDE DEF S, c
    <3>. QED  BY <1>3, <1>4, <2>4, <2>5, FS_Subset
  <2>7. j \in 1..c[k]
    <3> HIDE DEF c
    <3>. QED  BY <1>5, <2>2, <2>6
  <2>. QED  BY <2>2, <2>7 DEF TreesIn
<1>. QED  BY <1>5, <1>6 DEF c

\* What an access asks for is a number.
LEMMA BytesAre ==
  ASSUME NEW events \in Traces
  PROVE  /\ \A i \in 0..(Len(events) - 1) : Bytes(events)[i] \in Nat
         /\ \A i \in 1..Len(events) : events[i].of = "access" =>
              /\ events[i].bytes \in Seq(Nat)
              /\ Len(events[i].bytes) > InlineSize => Bytes(events)[i - 1] = Len(events[i].bytes)
<1>1. events \in Seq(Event) /\ Len(events) \in Nat /\ DOMAIN events = 1..Len(events)
  BY TracesAssumption
<1>2. ASSUME NEW i \in 1..Len(events), events[i].of = "access"
      PROVE  events[i].bytes \in Seq(Nat) /\ Len(events[i].bytes) \in Nat
  <2>1. events[i] \in Event
    BY <1>1
  <2>2. events[i] \in [of : {"access"}, bytes : Seq(Nat)]
    BY <1>2, <2>1 DEF Event
  <2>3. events[i].bytes \in Seq(Nat)
    BY <2>2
  <2>. QED  BY <2>3
<1>3. ASSUME NEW i \in 0..(Len(events) - 1)
      PROVE  Bytes(events)[i] = IF events[i + 1].of = "access" /\ Len(events[i + 1].bytes) > InlineSize
                                THEN Len(events[i + 1].bytes) ELSE 0
  BY DEF Bytes
<1>4. ASSUME NEW i \in 0..(Len(events) - 1)
      PROVE  Bytes(events)[i] \in Nat
  <2>1. i + 1 \in 1..Len(events)
    BY <1>1
  <2>. QED  BY <1>2, <1>3, <2>1
<1>5. ASSUME NEW i \in 1..Len(events), events[i].of = "access", Len(events[i].bytes) > InlineSize
      PROVE  Bytes(events)[i - 1] = Len(events[i].bytes)
  <2>1. i - 1 \in 0..(Len(events) - 1) /\ (i - 1) + 1 = i
    BY <1>1
  <2>. QED  BY <1>3, <1>5, <2>1
<1>. QED  BY <1>2, <1>4, <1>5

\* The scout pass knows what a layout needs.
LEMMA ScoutPassIs ==
  ASSUME NEW events \in Traces
  PROVE  Scouted(ScoutPass(events))
<1> DEFINE sc == ScoutPass(events)
           n == Len(events)
           f == Bytes(events)
<1>1. NodeOrder \in Order /\ Metadata \in Nat /\ MaxTrees \in Nat /\ n \in Nat
  BY TracesAssumption
<1>2. sc.metadata = Metadata /\ sc.order = NodeOrder /\ sc.data = SumTo(f, n)
  BY DEF ScoutPass
<1>3. SumTo(f, n) \in Nat
  <2>1. \A i \in 0..(n - 1) : f[i] \in Nat
    BY BytesAre
  <2>2. n \in 0..n
    BY <1>1
  <2> HIDE DEF f, n
  <2>. QED  BY <1>1, <2>1, <2>2, SumsAre
<1>4. \A k \in Kind : sc.count[k] \in Nat /\ \A i \in 1..sc.count[k] : i \in 1..MaxTrees
  <2> TAKE k \in Kind
  <2>1. sc.count[k] \in 0..MaxTrees
    BY TreesAreCounted
  <2> HIDE DEF sc
  <2>. QED  BY <1>1, <2>1
<1>5. \A t \in Tree : sc.leaves[t] = Cardinality(LeavesOf(events, t))
  BY DEF ScoutPass
<1>6. \A k \in Kind : \A i \in 1..sc.count[k] : sc.leaves[<<k, i>>] \in Nat
  <2> TAKE k \in Kind
  <2> HIDE DEF sc
  <2> TAKE i \in 1..sc.count[k]
  <2> DEFINE t == <<k, i>>
  <2>1. t \in Tree
    BY <1>4 DEF Tree
  <2> HIDE DEF t
  <2>2. sc.leaves[t] \in Nat
    BY <1>5, <2>1, LeavesCount
  <2>. QED  BY <2>2 DEF t
<1> HIDE DEF sc, f, n
<1>7. Scouted(sc)
  BY <1>1, <1>2, <1>3, <1>4, <1>6 DEF Scouted
<1>. QED  BY <1>7 DEF sc

\* The partition pass counts the leaves of every partition.
LEMMA PartitionsAre ==
  ASSUME NEW events \in Traces, NEW t \in Tree, NEW p \in Part
  PROVE  /\ Partitions(events)[t][p] = Cardinality(LeavesIn(events, t, p))
         /\ Partitions(events)[t][p] \in Nat
         /\ DOMAIN Partitions(events)[t] = Part
<1>1. Partitions(events)[t] = [q \in Part |-> Cardinality(LeavesIn(events, t, q))]
  BY Zenon DEF Partitions
<1>2. Partitions(events)[t][p] = Cardinality(LeavesIn(events, t, p)) /\ DOMAIN Partitions(events)[t] = Part
  BY <1>1
<1>. QED  BY <1>2, LeavesCount

-----------------------------------------------------------------------------
(* The views of the file *)

\* What has been planned before the file is allocated.
Planned ==
  /\ trace \in Traces /\ scout = ScoutPass(trace) /\ room = Partitions(trace)
  /\ layout = BuildStorageLayout(scout)
  /\ pos \in 0..Len(trace)

\* A tree that has been counted, and the view of one of its partitions.
Counted(t) == \E k \in Kind : t \in TreesIn(scout, k)
ViewOf(t, p) == PartitionView(layout, t, room[t], p)
Places(view) == view.start..(view.end - 1)

\* A tree that is counted is a tree, of a kind that has a size.
LEMMA CountedIs ==
  ASSUME Planned, NEW t, Counted(t)
  PROVE  /\ t \in Tree /\ t[1] \in Kind /\ t[1] \in Type /\ t \in TreesIn(scout, t[1])
         /\ t \in AllTrees(scout)
<1>0. PICK k \in Kind : t \in TreesIn(scout, k)
  BY DEF Counted
<1>1. PICK i \in 1..scout.count[k] : t = <<k, i>>
  BY <1>0 DEF TreesIn
<1>2. scout.count[k] \in 0..MaxTrees /\ MaxTrees \in Nat
  BY TreesAreCounted, TracesAssumption DEF Planned
<1>3. i \in 1..MaxTrees
  BY <1>2
<1>4. t \in Tree /\ t[1] = k /\ k \in Type
  BY <1>1, <1>3 DEF Tree, Kind, Type
<1>6. t \in Range(TreesOf(scout, k))
  <2> DEFINE s == TreesOf(scout, k)
  <2>1. i \in DOMAIN s /\ s[i] = t
    BY <1>1 DEF TreesOf
  <2> HIDE DEF s
  <2>2. t \in Range(s)
    BY <2>1, Zenon DEF Range
  <2>. QED  BY <2>2 DEF s
<1>. QED  BY <1>0, <1>4, <1>6, Zenon DEF AllTrees

\* A partition has a place in the file, as long as its leaves.
LEMMA ViewIs ==
  ASSUME Planned, NEW t, Counted(t), NEW p \in Part
  PROVE  LET view == ViewOf(t, p)
         IN  /\ view.of = <<"leaves", t, p>>
             /\ view.start \in Nat /\ view.end \in Nat /\ Size[t[1]] \in Nat /\ Size[t[1]] > 0
             /\ view.end = view.start + room[t][p] * Size[t[1]]
             /\ room[t][p] \in Nat
<1> DEFINE r == LeavesRequest(scout, t)
           section == layout.at[<<"leaves", t>>]
           s == section.start
           q == SumTo(room[t], p)
           z == Size[t[1]]
           n == room[t][p]
           view == ViewOf(t, p)
<1>1. t \in Tree /\ t[1] \in Kind /\ t[1] \in Type /\ t \in TreesIn(scout, t[1])
  BY CountedIs
<1>2. s \in Nat
  <2>1. Scouted(scout)
    BY ScoutPassIs DEF Planned
  <2>2. r \in Wanted(scout)
    <3>1. r \in WantedOf(scout, t[1])
      BY <1>1 DEF WantedOf
    <3> HIDE DEF r
    <3>. QED  BY <1>1, <3>1, Zenon DEF Wanted
  <2>3. r.name = <<"leaves", t>>
    BY DEF LeavesRequest, Request
  <2>4. layout = BuildStorageLayout(scout)
    BY DEF Planned
  <2> HIDE DEF r
  <2>. QED  BY <2>1, <2>2, <2>3, <2>4, SectionsAre
<1>3. q \in Nat
  <2>1. Pow2[PartBits] \in Nat
    BY HilbertAssumption, Pow2Is
  <2>2. Pow2[PartBits] * Pow2[PartBits] \in Nat
    BY <2>1
  <2>3. p \in Nat /\ \A i \in 0..(p - 1) : i \in Part
    BY <2>2 DEF Part
  <2>4. \A i \in 0..(p - 1) : room[t][i] \in Nat
    BY <1>1, <2>3, PartitionsAre DEF Planned
  <2>5. p \in 0..p
    BY <2>3
  <2>. QED  BY <2>3, <2>4, <2>5, SumsAre
<1>4. z \in Nat /\ z > 0
  BY <1>1, SizeIs
<1>5. n \in Nat
  BY <1>1, PartitionsAre DEF Planned
<1>6. view = [of |-> <<"leaves", t, p>>, type |-> t[1], start |-> s + q * z, end |-> (s + q * z) + n * z]
  BY Zenon DEF ViewOf, PartitionView, View
<1> HIDE DEF s, q, z, n
<1>7. q * z \in Nat /\ n * z \in Nat
  BY <1>3, <1>4, <1>5
<1> DEFINE a == s + q * z
           b == n * z
<1>8. a \in Nat /\ b \in Nat
  BY <1>2, <1>7
<1>9. view.of = <<"leaves", t, p>> /\ view.start = a /\ view.end = a + b
  BY <1>6
<1> HIDE DEF view, a
<1>10. view.start \in Nat /\ view.end \in Nat /\ view.end = view.start + n * z
  BY <1>8, <1>9
<1>. QED  BY <1>4, <1>5, <1>9, <1>10 DEF view, n, z

\* The data section has a place in the file.
LEMMA DataSectionIs ==
  ASSUME Planned
  PROVE  DataSection.start \in Nat /\ DataSection.end \in Nat /\ DataSection.start <= DataSection.end
<1> DEFINE r == DataRequest(scout)
<1>1. Scouted(scout)
  BY ScoutPassIs DEF Planned
<1>2. r \in Wanted(scout)
  BY Zenon DEF Wanted
<1>3. r.name = <<"data">>
  BY DEF DataRequest, Request
<1>4. layout = BuildStorageLayout(scout)
  BY DEF Planned
<1> HIDE DEF r
<1>. QED  BY <1>1, <1>2, <1>3, <1>4, SectionsAre DEF DataSection

\* The data section is viewed, and each partition of each tree.
LEMMA ViewsAre ==
  ASSUME NEW l, NEW sc, NEW rm
  PROVE  /\ SectionView(l, <<"data">>, "byte") \in Views(l, sc, rm)
         /\ \A t \in AllTrees(sc) : \A p \in DOMAIN rm[t] :
              PartitionView(l, t, rm[t], p) \in Views(l, sc, rm)
<1> DEFINE all == UNION {TreeViews(l, t, rm[t]) : t \in AllTrees(sc)}
<1>1. SectionView(l, <<"data">>, "byte") \in Views(l, sc, rm)
  BY DEF Views
<1>2. all \subseteq Views(l, sc, rm)
  BY Zenon DEF Views
<1>3. ASSUME NEW u \in AllTrees(sc), NEW p \in DOMAIN rm[u]
      PROVE  PartitionView(l, u, rm[u], p) \in all
  <2>1. PartitionView(l, u, rm[u], p) \in TreeViews(l, u, rm[u])
    BY DEF TreeViews
  <2>. QED  BY <2>1
<1> HIDE DEF all
<1>. QED  BY <1>1, <1>2, <1>3

\* What the fill pass writes through is apart.
Apart == CanBeViewed(Views(layout, scout, room), layout.size)

\* The views of two partitions have no place in common, nor with the data.
LEMMA ViewsAreApart ==
  ASSUME Planned, Apart, NEW t, Counted(t), NEW p \in Part
  PROVE  /\ \A u, q : Counted(u) /\ q \in Part /\ (u # t \/ q # p) =>
              Places(ViewOf(t, p)) \cap Places(ViewOf(u, q)) = {}
         /\ DataSection.start..(DataSection.end - 1) \cap Places(ViewOf(t, p)) = {}
<1> DEFINE views == Views(layout, scout, room)
           v == ViewOf(t, p)
<1>1. ASSUME NEW u, NEW q, Counted(u), q \in Part
      PROVE  ViewOf(u, q) \in views
  <2>1. u \in Tree /\ u \in AllTrees(scout)
    BY <1>1, CountedIs
  <2>2. q \in DOMAIN room[u]
    BY <1>1, <2>1, PartitionsAre DEF Planned
  <2>. QED  BY <2>1, <2>2, ViewsAre DEF ViewOf
<1>2. SectionView(layout, <<"data">>, "byte") \in views
  BY ViewsAre
<1>3. \A x, y \in views : x.start < x.end /\ y.start < y.end => x = y \/ x.end <= y.start \/ y.end <= x.start
  BY DEF Apart, CanBeViewed
<1>4. v \in views /\ v.of = <<"leaves", t, p>> /\ v.start \in Nat /\ v.end \in Nat
  BY <1>1, ViewIs
<1>5. ASSUME NEW w \in views, w.start \in Nat, w.end \in Nat, w.of # v.of
      PROVE  Places(v) \cap Places(w) = {}
  <2>1. w # v
    BY <1>5
  <2> HIDE DEF v, views
  <2>. QED  BY <1>3, <1>4, <1>5, <2>1 DEF Places
<1>6. ASSUME NEW u, NEW q, Counted(u), q \in Part, u # t \/ q # p
      PROVE  Places(v) \cap Places(ViewOf(u, q)) = {}
  <2> DEFINE w == ViewOf(u, q)
  <2>1. w \in views /\ w.of = <<"leaves", u, q>> /\ w.start \in Nat /\ w.end \in Nat
    BY <1>1, <1>6, ViewIs
  <2>2. <<"leaves", u, q>> # <<"leaves", t, p>>
    BY <1>6
  <2> HIDE DEF w, v, views
  <2>3. w.of # v.of
    BY <1>4, <2>1, <2>2
  <2>4. Places(v) \cap Places(w) = {}
    BY <1>5, <2>1, <2>3
  <2>. QED  BY <2>4 DEF w
<1>7. DataSection.start..(DataSection.end - 1) \cap Places(v) = {}
  <2> DEFINE w == SectionView(layout, <<"data">>, "byte")
  <2>1. w.of = <<"data">> /\ w.start = DataSection.start /\ w.end = DataSection.end
    BY DEF SectionView, View, DataSection
  <2>2. <<"data">> # <<"leaves", t, p>>
    OBVIOUS
  <2>3. w \in views /\ w.start \in Nat /\ w.end \in Nat
    BY <1>2, <2>1, DataSectionIs
  <2> HIDE DEF w, v, views
  <2>4. w.of # v.of
    BY <1>4, <2>1, <2>2
  <2>5. Places(v) \cap Places(w) = {}
    BY <1>5, <2>3, <2>4
  <2>. QED  BY <2>1, <2>5 DEF Places
<1>. QED  BY <1>6, <1>7 DEF v

\* How many partitions there are.
Parts == Pow2[PartBits] * Pow2[PartBits]

\* The leaves of the partitions before one.
Before(t, p) == {i \in LeavesOf(trace, t) : PartOf(trace, trace[i]) < p}

\* The partitions are numbered from 0.
LEMMA PartsAre ==
  /\ Parts \in Nat /\ Part = 0..(Parts - 1) /\ \A p \in Part : p \in Nat /\ p + 1 \in 0..Parts
  /\ \A p \in 0..(Parts - 1) : p \in Part
<1>1. Pow2[PartBits] \in Nat
  BY HilbertAssumption, Pow2Is
<1>2. Parts \in Nat
  BY <1>1 DEF Parts
<1>3. Part = 0..(Parts - 1)
  BY DEF Part, Parts
<1>. QED  BY <1>2, <1>3

\* A leaf is in one partition, and in the tree that it names.
LEMMA BeforeAre ==
  ASSUME trace \in Traces, NEW t \in Tree
  PROVE  /\ Before(t, 0) = {} /\ Before(t, Parts) = LeavesOf(trace, t)
         /\ \A p \in Nat : /\ Before(t, p + 1) = Before(t, p) \cup LeavesIn(trace, t, p)
                           /\ Before(t, p) \cap LeavesIn(trace, t, p) = {}
<1>1. \A i \in LeavesOf(trace, t) : PartOf(trace, trace[i]) \in 0..(Parts - 1)
  <2> TAKE i \in LeavesOf(trace, t)
  <2>1. i \in 1..Len(trace) /\ trace[i].of = "leaf"
    <3>1. trace \in Seq(Event)
      BY TracesAssumption
    <3>. QED  BY <3>1 DEF LeavesOf
  <2>2. PartOf(trace, trace[i]) \in Part
    BY <2>1, LeafIs
  <2>. QED  BY <2>2, PartsAre
<1>2. Before(t, 0) = {}
  BY <1>1 DEF Before
<1>3. Before(t, Parts) = LeavesOf(trace, t)
  BY <1>1, PartsAre DEF Before
<1>4. ASSUME NEW p \in Nat
      PROVE  /\ Before(t, p + 1) = Before(t, p) \cup LeavesIn(trace, t, p)
             /\ Before(t, p) \cap LeavesIn(trace, t, p) = {}
  <2>1. \A i \in LeavesOf(trace, t) :
          /\ PartOf(trace, trace[i]) < p + 1 <=> PartOf(trace, trace[i]) < p \/ PartOf(trace, trace[i]) = p
          /\ ~(PartOf(trace, trace[i]) < p /\ PartOf(trace, trace[i]) = p)
    <3> TAKE i \in LeavesOf(trace, t)
    <3> DEFINE x == PartOf(trace, trace[i])
    <3>1. x \in Nat
      BY <1>1
    <3> HIDE DEF x
    <3>2. (x < p + 1 <=> x < p \/ x = p) /\ ~(x < p /\ x = p)
      BY <3>1
    <3>. QED  BY <3>2 DEF x
  <2>. QED  BY <2>1 DEF Before, LeavesIn
<1>. QED  BY <1>2, <1>3, <1>4

\* The rooms of a tree add up to its leaves.
LEMMA RoomsAdd ==
  ASSUME Planned, NEW t \in Tree
  PROVE  /\ \A p \in 0..Parts : SumTo(room[t], p) \in Nat /\ SumTo(room[t], p) = Cardinality(Before(t, p))
         /\ \A p \in Part : SumTo(room[t], p) + room[t][p] = SumTo(room[t], p + 1)
         /\ \A p \in 0..Parts : SumTo(room[t], p) <= scout.leaves[t]
         /\ SumTo(room[t], Parts) = scout.leaves[t]
<1> DEFINE f == room[t]
           Have == {p \in Nat : p <= Parts => SumTo(f, p) = Cardinality(Before(t, p))}
<1>1. \A p \in Part : f[p] \in Nat /\ f[p] = Cardinality(LeavesIn(trace, t, p))
  BY PartitionsAre DEF Planned
<1>2. Parts \in Nat /\ \A p \in 0..(Parts - 1) : p \in Part
  BY PartsAre
<1> HIDE DEF f
<1>3. /\ SumTo(f, 0) = 0
      /\ \A p \in 0..Parts : SumTo(f, p) \in Nat
      /\ \A p \in 0..(Parts - 1) : SumTo(f, p + 1) = SumTo(f, p) + f[p]
      /\ \A p \in 0..Parts : \A k \in 0..p : SumTo(f, k) <= SumTo(f, p)
  <2>1. \A p \in 0..(Parts - 1) : f[p] \in Nat
    BY <1>1, <1>2
  <2>. QED  BY <1>2, <2>1, SumsAre
<1>4. trace \in Traces
  BY DEF Planned
<1>5. IsFiniteSet(LeavesOf(trace, t)) /\ Cardinality(LeavesOf(trace, t)) \in Nat
  BY <1>4, LeavesCount
<1>6. \A p : IsFiniteSet(Before(t, p))
  <2> TAKE p
  <2>1. Before(t, p) \subseteq LeavesOf(trace, t)
    BY DEF Before
  <2>. QED  BY <1>5, <2>1, FS_Subset
<1>7. 0 \in Have
  BY <1>3, <1>4, BeforeAre, FS_EmptySet
<1>8. ASSUME NEW p \in Nat, p \in Have
      PROVE  p + 1 \in Have
  <2> SUFFICES ASSUME p + 1 <= Parts
               PROVE  SumTo(f, p + 1) = Cardinality(Before(t, p + 1))
    OBVIOUS
  <2>1. p \in 0..(Parts - 1) /\ p \in Part /\ p <= Parts
    BY <1>2
  <2>2. SumTo(f, p + 1) = Cardinality(Before(t, p)) + Cardinality(LeavesIn(trace, t, p))
    BY <1>1, <1>3, <1>8, <2>1
  <2> DEFINE A == Before(t, p)
             B == LeavesIn(trace, t, p)
  <2>3. Before(t, p + 1) = A \cup B /\ A \cap B = {}
    BY <1>4, BeforeAre
  <2>4. IsFiniteSet(A) /\ IsFiniteSet(B)
    BY <1>4, <1>6, LeavesCount
  <2> HIDE DEF A, B
  <2>5. Cardinality(A \cup B) = Cardinality(A) + Cardinality(B)
    <3>1. Cardinality(A \cup B) = Cardinality(A) + Cardinality(B) - Cardinality(A \cap B)
      BY <2>4, FS_Union
    <3>2. Cardinality(A) \in Nat /\ Cardinality(B) \in Nat /\ Cardinality(A \cap B) = 0
      BY <2>3, <2>4, FS_CardinalityType, FS_EmptySet
    <3>. QED  BY <3>1, <3>2
  <2>. QED  BY <2>2, <2>3, <2>5 DEF A, B
<1>9. Nat \subseteq Have
  <2> HIDE DEF Have
  <2>. QED  BY <1>7, <1>8, Induction
<1>10. \A p \in 0..Parts : SumTo(f, p) \in Nat /\ SumTo(f, p) = Cardinality(Before(t, p))
  BY <1>2, <1>3, <1>9
<1>11. scout.leaves[t] = Cardinality(LeavesOf(trace, t))
  BY DEF Planned, ScoutPass
<1>12. SumTo(f, Parts) = scout.leaves[t] /\ Parts \in 0..Parts
  BY <1>2, <1>4, <1>10, <1>11, BeforeAre
<1>13. \A p \in 0..Parts : SumTo(f, p) <= scout.leaves[t]
  BY <1>3, <1>12
<1>14. \A p \in Part : SumTo(f, p) + f[p] = SumTo(f, p + 1)
  BY <1>3, PartsAre
<1>. QED  BY <1>10, <1>12, <1>13, <1>14 DEF f

\* What is asked for of a tree is wanted.
LEMMA TreeWants ==
  ASSUME Planned
  PROVE  /\ Scouted(scout) /\ layout = BuildStorageLayout(scout)
         /\ MetadataRequest(scout) \in Wanted(scout) /\ DataRequest(scout) \in Wanted(scout)
         /\ \A k \in Kind : HeadersOf(scout, k) \in Wanted(scout) /\ BboxesOf(scout, k) \in Wanted(scout)
         /\ \A t : Counted(t) => /\ LevelsRequest(scout, t) \in Wanted(scout)
                                 /\ NodesRequest(scout, t) \in Wanted(scout)
                                 /\ LeavesRequest(scout, t) \in Wanted(scout)
<1>1. Scouted(scout) /\ layout = BuildStorageLayout(scout)
  BY ScoutPassIs DEF Planned
<1>2. MetadataRequest(scout) \in Wanted(scout) /\ DataRequest(scout) \in Wanted(scout)
  BY Zenon DEF Wanted
<1>3. \A k \in Kind : WantedOf(scout, k) \subseteq Wanted(scout)
  <2> TAKE k \in Kind
  <2> DEFINE all == UNION {WantedOf(scout, j) : j \in Kind}
  <2>1. WantedOf(scout, k) \subseteq all
    OBVIOUS
  <2>2. all \subseteq Wanted(scout)
    <3> DEFINE m == MetadataRequest(scout)
               d == DataRequest(scout)
    <3>1. Wanted(scout) = {m, d} \cup all
      BY Zenon DEF Wanted
    <3> HIDE DEF all, m, d
    <3>. QED  BY <3>1
  <2> HIDE DEF all
  <2>. QED  BY <2>1, <2>2
<1>4. \A k \in Kind : HeadersOf(scout, k) \in Wanted(scout) /\ BboxesOf(scout, k) \in Wanted(scout)
  <2> TAKE k \in Kind
  <2>1. HeadersOf(scout, k) \in WantedOf(scout, k) /\ BboxesOf(scout, k) \in WantedOf(scout, k)
    BY Zenon DEF WantedOf
  <2>. QED  BY <1>3, <2>1
<1>5. ASSUME NEW t, Counted(t)
      PROVE  /\ LevelsRequest(scout, t) \in Wanted(scout)
             /\ NodesRequest(scout, t) \in Wanted(scout)
             /\ LeavesRequest(scout, t) \in Wanted(scout)
  <2>1. PICK k \in Kind : t \in TreesIn(scout, k)
    BY <1>5 DEF Counted
  <2>2. /\ LevelsRequest(scout, t) \in WantedOf(scout, k)
        /\ NodesRequest(scout, t) \in WantedOf(scout, k)
        /\ LeavesRequest(scout, t) \in WantedOf(scout, k)
    BY <2>1, Zenon DEF WantedOf
  <2>. QED  BY <1>3, <2>2
<1>. QED  BY <1>1, <1>2, <1>4, <1>5

\* The view of a partition is inside the leaves of its tree.
LEMMA PartitionIn ==
  ASSUME Planned, NEW t, Counted(t), NEW p \in Part
  PROVE  LET view == ViewOf(t, p)
             section == layout.at[<<"leaves", t>>]
         IN  /\ view.type = t[1]
             /\ section.start \in Nat /\ section.end \in Nat
             /\ SumTo(room[t], p) \in Nat
             /\ view.start = section.start + SumTo(room[t], p) * Size[t[1]]
             /\ section.start <= view.start /\ view.end <= section.end
             /\ view.start % Alignment(t[1]) = 0
             /\ (view.end - view.start) % Size[t[1]] = 0
             /\ \A q \in Part : q < p => ViewOf(t, q).end <= view.start
<1> DEFINE r == LeavesRequest(scout, t)
           section == layout.at[<<"leaves", t>>]
           s == section.start
           z == Size[t[1]]
           sum(q) == SumTo(room[t], q)
           n(q) == room[t][q]
           m == scout.leaves[t]
           view(q) == ViewOf(t, q)
<1>1. t \in Tree /\ t[1] \in Kind /\ t[1] \in Type
  BY CountedIs
<1>2. r \in Wanted(scout) /\ r.name = <<"leaves", t>> /\ r.type = t[1] /\ r.count = m
  BY TreeWants DEF LeavesRequest, Request
<1>3. /\ s \in Nat /\ section.end \in Nat /\ section.end = s + m * z /\ s % Alignment(t[1]) = 0
  <2>1. Scouted(scout) /\ layout = BuildStorageLayout(scout)
    BY TreeWants
  <2> HIDE DEF r, z, m
  <2>. QED  BY <1>2, <2>1, SectionsAre DEF z
<1>4. ASSUME NEW q \in Part
      PROVE  /\ view(q).start = s + sum(q) * z /\ view(q).end = (s + sum(q) * z) + n(q) * z
             /\ view(q).type = t[1]
  <2>1. view(q) = [of |-> <<"leaves", t, q>>, type |-> t[1], start |-> s + sum(q) * z,
                   end |-> (s + sum(q) * z) + n(q) * z]
    BY Zenon DEF ViewOf, PartitionView, View
  <2> HIDE DEF view, s, z, sum, n
  <2>. QED  BY <2>1
<1>5. /\ m \in Nat /\ p + 1 \in 0..Parts
      /\ \A q \in Part : /\ sum(q) \in Nat /\ n(q) \in Nat /\ sum(q) + n(q) <= m
                         /\ sum(q + 1) = sum(q) + n(q)
  <2>1. \A q \in Part : n(q) \in Nat
    BY <1>1, PartitionsAre DEF Planned
  <2>2. Parts \in 0..Parts /\ \A q \in Part : q \in 0..Parts /\ q + 1 \in 0..Parts
    BY PartsAre
  <2>3. \A q \in 0..Parts : sum(q) \in Nat /\ sum(q) <= m
    BY <1>1, RoomsAdd
  <2>4. \A q \in Part : sum(q) + n(q) = sum(q + 1)
    BY <1>1, RoomsAdd
  <2>5. m = sum(Parts)
    BY <1>1, RoomsAdd
  <2> HIDE DEF sum, n, m
  <2>. QED  BY <2>1, <2>2, <2>3, <2>4, <2>5
<1>6. \A q \in Part : q < p => sum(q) + n(q) <= sum(p)
  <2> TAKE q \in Part
  <2> HAVE q < p
  <2>1. p \in Nat /\ q \in Nat /\ q + 1 \in 0..p /\ Parts \in Nat /\ p \in 0..Parts
    BY PartsAre
  <2>2. \A j \in 0..p : sum(j) <= sum(p)
    <3>1. \A i \in 0..(p - 1) : room[t][i] \in Nat
      <4>1. \A i \in 0..(p - 1) : i \in Part
        BY <2>1, PartsAre
      <4>. QED  BY <1>5, <4>1
    <3>2. p \in 0..p
      BY <2>1
    <3>. QED  BY <2>1, <3>1, <3>2, SumsAre
  <2>. QED  BY <1>5, <2>1, <2>2
<1>7. z \in {32, 20, 16} /\ (t[1] = "write" => z = 32) /\ (t[1] = "read" => z = 20)
      /\ (t[1] = "register" => z = 16) /\ t[1] \in {"write", "read", "register"}
      /\ Alignment(t[1]) = IF t[1] = "read" THEN 1 ELSE 8
  <2>1. t[1] \in {"write", "read", "register"}
    BY <1>1 DEF Kind
  <2>. QED  BY <2>1 DEF Size, Alignment
<1>8. \A a, b \in Nat : a <= b => a * z <= b * z
  <2> TAKE a, b \in Nat
  <2> HIDE DEF z
  <2>. QED  BY <1>7
<1>9. \A a, b \in Nat : (a + b) * z = a * z + b * z /\ a * z \in Nat
  <2> TAKE a, b \in Nat
  <2> HIDE DEF z
  <2>. QED  BY <1>7
<1> HIDE DEF s, z, sum, n, m, view, r, section
<1>10. \A q \in Part : view(q).end = s + (sum(q) + n(q)) * z /\ view(q).start = s + sum(q) * z
  <2> TAKE q \in Part
  <2> DEFINE a == sum(q) * z
             b == n(q) * z
  <2>1. sum(q) \in Nat /\ n(q) \in Nat
    BY <1>5
  <2>2. (sum(q) + n(q)) * z = a + b /\ a \in Nat /\ b \in Nat
    BY <1>9, <2>1
  <2> HIDE DEF a, b
  <2>3. view(q).end = (s + a) + b /\ view(q).start = s + a
    BY <1>4 DEF a, b
  <2>. QED  BY <1>3, <2>2, <2>3 DEF a
<1>11. view(p).end <= section.end
  <2> DEFINE a == (sum(p) + n(p)) * z
             b == m * z
  <2>1. sum(p) + n(p) \in Nat /\ m \in Nat /\ sum(p) + n(p) <= m
    BY <1>5
  <2>2. a \in Nat /\ b \in Nat /\ a <= b
    BY <1>8, <1>9, <2>1
  <2> HIDE DEF a, b
  <2>3. view(p).end = s + a /\ section.end = s + b
    BY <1>3, <1>10 DEF a, b
  <2>. QED  BY <1>3, <2>2, <2>3
<1>12. \A q \in Part : q < p => view(q).end <= view(p).start
  <2> TAKE q \in Part
  <2> HAVE q < p
  <2> DEFINE a == (sum(q) + n(q)) * z
             b == sum(p) * z
  <2>1. sum(q) + n(q) \in Nat /\ sum(p) \in Nat /\ sum(q) + n(q) <= sum(p)
    BY <1>5, <1>6
  <2>2. a \in Nat /\ b \in Nat /\ a <= b
    BY <1>8, <1>9, <2>1
  <2> HIDE DEF a, b
  <2>3. view(q).end = s + a /\ view(p).start = s + b
    BY <1>10 DEF a, b
  <2>. QED  BY <1>3, <2>2, <2>3
<1>13. /\ view(p).start % Alignment(t[1]) = 0 /\ (view(p).end - view(p).start) % z = 0
       /\ s <= view(p).start
  <2> DEFINE a == sum(p)
             b == n(p)
             v == view(p).start
             w == view(p).end
  <2>1. a \in Nat /\ b \in Nat /\ v = s + a * z /\ w = s + (a + b) * z /\ s \in Nat
    BY <1>3, <1>5, <1>10
  <2> HIDE DEF a, b, v, w
  <2>2. CASE t[1] = "write"
    <3>1. z = 32 /\ Alignment(t[1]) = 8 /\ s % 8 = 0
      BY <1>3, <1>7, <2>2
    <3>2. v = s + 32 * a /\ w = s + 32 * a + 32 * b
      BY <2>1, <3>1
    <3>3. v % 8 = 0 /\ (w - v) % 32 = 0 /\ s <= v
      BY <2>1, <3>1, <3>2
    <3>. QED  BY <3>1, <3>3 DEF v, w
  <2>3. CASE t[1] = "register"
    <3>1. z = 16 /\ Alignment(t[1]) = 8 /\ s % 8 = 0
      BY <1>3, <1>7, <2>3
    <3>2. v = s + 16 * a /\ w = s + 16 * a + 16 * b
      BY <2>1, <3>1
    <3>3. v % 8 = 0 /\ (w - v) % 16 = 0 /\ s <= v
      BY <2>1, <3>1, <3>2
    <3>. QED  BY <3>1, <3>3 DEF v, w
  <2>4. CASE t[1] = "read"
    <3>1. z = 20 /\ Alignment(t[1]) = 1
      BY <1>7, <2>4
    <3>2. v = s + 20 * a /\ w = s + 20 * a + 20 * b
      BY <2>1, <3>1
    <3>3. v % 1 = 0 /\ (w - v) % 20 = 0 /\ s <= v
      BY <2>1, <3>2
    <3>. QED  BY <3>1, <3>3 DEF v, w
  <2>. QED  BY <1>7, <2>2, <2>3, <2>4
<1>. QED  BY <1>3, <1>4, <1>5, <1>10, <1>11, <1>12, <1>13 DEF view, s, z, sum, section

\* The view of a section that is written as a whole.
WholeView(r) == SectionView(layout, r.name, r.type)

\* A view is in the section that was asked for it.
InSection(v, r) ==
  \/ r.name[1] # "leaves" /\ v = WholeView(r)
  \/ \E t, p : Counted(t) /\ p \in Part /\ r = LeavesRequest(scout, t) /\ v = ViewOf(t, p)

\* Every view but that of the header is in a section that was asked for.
LEMMA ViewsPlaced ==
  ASSUME Planned, NEW v \in Views(layout, scout, room)
  PROVE  \/ v = View(<<"header">>, "header", 0, Size["header"])
         \/ \E r \in Wanted(scout) : InSection(v, r)
<1> DEFINE h == View(<<"header">>, "header", 0, Size["header"])
           m == SectionView(layout, <<"metadata">>, "byte")
           d == SectionView(layout, <<"data">>, "byte")
           kinds == UNION {KindViews(layout, k) : k \in Kind}
           trees == UNION {TreeViews(layout, t, room[t]) : t \in AllTrees(scout)}
<1>1. Views(layout, scout, room) = ({h, m, d} \cup kinds) \cup trees
  BY Zenon DEF Views
<1>2. CASE v = m
  <2> DEFINE r == MetadataRequest(scout)
  <2>1. r.name = <<"metadata">> /\ r.type = "byte" /\ r \in Wanted(scout)
    BY TreeWants DEF MetadataRequest, Request
  <2> HIDE DEF r
  <2>2. v = WholeView(r)
    BY <1>2, <2>1, Zenon DEF WholeView
  <2>3. r.name[1] # "leaves"
    BY <2>1
  <2>. QED  BY <2>1, <2>2, <2>3 DEF InSection
<1>3. CASE v = d
  <2> DEFINE r == DataRequest(scout)
  <2>1. r.name = <<"data">> /\ r.type = "byte" /\ r \in Wanted(scout)
    BY TreeWants DEF DataRequest, Request
  <2> HIDE DEF r
  <2>2. v = WholeView(r)
    BY <1>3, <2>1, Zenon DEF WholeView
  <2>3. r.name[1] # "leaves"
    BY <2>1
  <2>. QED  BY <2>1, <2>2, <2>3 DEF InSection
<1>4. ASSUME NEW k \in Kind, v \in KindViews(layout, k)
      PROVE  \E r \in Wanted(scout) : InSection(v, r)
  <2>1. CASE v = SectionView(layout, <<"headers", k>>, "tree")
    <3> DEFINE r == HeadersOf(scout, k)
    <3>1. r.name = <<"headers", k>> /\ r.type = "tree" /\ r \in Wanted(scout)
      BY TreeWants DEF HeadersOf, Request
    <3> HIDE DEF r
    <3>2. v = WholeView(r)
      BY <2>1, <3>1, Zenon DEF WholeView
    <3>3. r.name[1] # "leaves"
      BY <3>1
    <3>. QED  BY <3>1, <3>2, <3>3 DEF InSection
  <2>2. CASE v = SectionView(layout, <<"bboxes", k>>, "node")
    <3> DEFINE r == BboxesOf(scout, k)
    <3>1. r.name = <<"bboxes", k>> /\ r.type = "node" /\ r \in Wanted(scout)
      BY TreeWants DEF BboxesOf, Request
    <3> HIDE DEF r
    <3>2. v = WholeView(r)
      BY <2>2, <3>1, Zenon DEF WholeView
    <3>3. r.name[1] # "leaves"
      BY <3>1
    <3>. QED  BY <3>1, <3>2, <3>3 DEF InSection
  <2>. QED  BY <1>4, <2>1, <2>2, Zenon DEF KindViews
<1>5. ASSUME NEW t \in AllTrees(scout), v \in TreeViews(layout, t, room[t])
      PROVE  \E r \in Wanted(scout) : InSection(v, r)
  <2>1. PICK k \in Kind : t \in Range(TreesOf(scout, k))
    BY <1>5, Zenon DEF AllTrees
  <2>2. Counted(t)
    <3> DEFINE s == TreesOf(scout, k)
    <3>1. PICK i \in DOMAIN s : t = s[i]
      BY <2>1, Zenon DEF Range
    <3>2. i \in 1..scout.count[k] /\ t = <<k, i>>
      BY <3>1 DEF TreesOf
    <3>. QED  BY <3>2 DEF Counted, TreesIn
  <2>3. CASE v = SectionView(layout, <<"levels", t>>, "level")
    <3> DEFINE r == LevelsRequest(scout, t)
    <3>1. r.name = <<"levels", t>> /\ r.type = "level" /\ r \in Wanted(scout)
      BY <2>2, TreeWants DEF LevelsRequest, Request
    <3> HIDE DEF r
    <3>2. v = WholeView(r)
      BY <2>3, <3>1, Zenon DEF WholeView
    <3>3. r.name[1] # "leaves"
      BY <3>1
    <3>. QED  BY <3>1, <3>2, <3>3 DEF InSection
  <2>4. ASSUME NEW p \in DOMAIN room[t], v = PartitionView(layout, t, room[t], p)
        PROVE  \E r \in Wanted(scout) : InSection(v, r)
    <3>1. t \in Tree /\ LeavesRequest(scout, t) \in Wanted(scout)
      BY <2>2, CountedIs, TreeWants
    <3>2. \A q \in Part : DOMAIN room[t] = Part
      BY <3>1, PartitionsAre DEF Planned
    <3>3. room[t] = [q \in Part |-> Cardinality(LeavesIn(trace, t, q))]
      BY <3>1, Zenon DEF Planned, Partitions
    <3>4. p \in Part
      BY <2>4, <3>3
    <3>. QED  BY <2>2, <2>4, <3>1, <3>4, Zenon DEF InSection, ViewOf
  <2>. QED  BY <1>5, <2>3, <2>4, Zenon DEF TreeViews
<1>6. v \in kinds => \E k \in Kind : v \in KindViews(layout, k)
  OBVIOUS
<1>7. v \in trees => \E t \in AllTrees(scout) : v \in TreeViews(layout, t, room[t])
  OBVIOUS
<1>8. v = h \/ v = m \/ v = d \/ v \in kinds \/ v \in trees
  <2> HIDE DEF h, m, d, kinds, trees
  <2>. QED  BY <1>1
<1>9. v = m \/ v = d => v = h \/ \E r \in Wanted(scout) : InSection(v, r)
  <2> HIDE DEF m, d
  <2>. QED  BY <1>2, <1>3
<1> HIDE DEF h, m, d, kinds, trees
<1>. QED  BY <1>4, <1>5, <1>6, <1>7, <1>8, <1>9 DEF h

\* A view is inside its section, aligned, and has room for a number of items.
LEMMA InSectionIs ==
  ASSUME Planned, NEW r \in Wanted(scout), NEW v, InSection(v, r)
  PROVE  LET section == layout.at[r.name]
         IN  /\ section.start \in Nat /\ section.end \in Nat /\ section.end <= layout.size
             /\ layout.size \in Nat /\ Size["header"] \in Nat /\ Size["header"] <= section.start
             /\ v.start \in Nat /\ v.end \in Nat
             /\ section.start <= v.start /\ v.end <= section.end
             /\ v.start % Alignment(v.type) = 0 /\ (v.end - v.start) % Size[v.type] = 0
<1> DEFINE section == layout.at[r.name]
<1>1. /\ section.start \in Nat /\ section.end \in Nat /\ section.start <= section.end
      /\ section.end = section.start + r.count * Size[r.type] /\ r.count * Size[r.type] \in Nat
      /\ Size["header"] \in Nat /\ Size["header"] <= section.start
      /\ layout.size \in Nat /\ section.end <= layout.size
      /\ section.start % Alignment(r.type) = 0
  <2>1. Scouted(scout) /\ layout = BuildStorageLayout(scout)
    BY TreeWants
  <2>. QED  BY <2>1, SectionsAre
<1>2. CASE v = WholeView(r)
  <2>1. v.type = r.type /\ v.start = section.start /\ v.end = section.end
    BY <1>2 DEF WholeView, SectionView, View
  <2>2. (section.end - section.start) % Size[r.type] = 0
    <3> DEFINE q == r.count
               w == Size[r.type]
               m == q * w
               a == section.start
               b == section.end
    <3>1. q \in Nat /\ w \in Nat /\ w > 0
      <4>1. r.type \in Type /\ r.count \in Nat
        BY TreeWants, WantedTyped
      <4>. QED  BY <4>1, SizeIs
    <3>2. m \in Nat /\ a \in Nat /\ b = a + m
      BY <1>1
    <3>3. m = q * w
      OBVIOUS
    <3> HIDE DEF q, w, m, a, b
    <3>4. (m + 0) % w = 0
      BY <3>1, <3>2, <3>3, RemainderIs
    <3>5. b - a = m + 0
      BY <3>2
    <3>. QED  BY <3>4, <3>5 DEF a, b, w
  <2> HIDE DEF section
  <2>. QED  BY <1>1, <2>1, <2>2 DEF section
<1>3. ASSUME NEW t, NEW p, Counted(t), p \in Part, r = LeavesRequest(scout, t), v = ViewOf(t, p)
      PROVE  /\ v.start \in Nat /\ v.end \in Nat
             /\ section.start <= v.start /\ v.end <= section.end
             /\ v.start % Alignment(v.type) = 0 /\ (v.end - v.start) % Size[v.type] = 0
  <2>1. r.name = <<"leaves", t>>
    BY <1>3 DEF LeavesRequest, Request
  <2>2. v.start \in Nat /\ v.end \in Nat
    BY <1>3, ViewIs
  <2>3. /\ v.type = t[1] /\ layout.at[<<"leaves", t>>].start <= v.start
        /\ v.end <= layout.at[<<"leaves", t>>].end
        /\ v.start % Alignment(t[1]) = 0 /\ (v.end - v.start) % Size[t[1]] = 0
    BY <1>3, PartitionIn
  <2>. QED  BY <2>1, <2>2, <2>3
<1>4. CASE \E t, p : Counted(t) /\ p \in Part /\ r = LeavesRequest(scout, t) /\ v = ViewOf(t, p)
  <2> HIDE DEF section
  <2>. QED  BY <1>1, <1>3, <1>4 DEF section
<1>5. CASE v = WholeView(r)
  BY <1>2, <1>5
<1>. QED  BY <1>4, <1>5 DEF InSection

\* A view is behind the header.
LEMMA BehindHeader ==
  ASSUME Planned, NEW v, NEW r \in Wanted(scout), InSection(v, r)
  PROVE  Size["header"] \in Nat /\ Size["header"] <= v.start
<1> DEFINE s == layout.at[r.name]
<1>1. /\ Size["header"] \in Nat /\ Size["header"] <= s.start /\ s.start \in Nat
      /\ v.start \in Nat /\ s.start <= v.start
  BY InSectionIs
<1> HIDE DEF s
<1>. QED  BY <1>1

\* Two views are apart.
LEMMA InSectionsApart ==
  ASSUME Planned, NEW v, NEW r \in Wanted(scout), InSection(v, r),
         NEW w, NEW q \in Wanted(scout), InSection(w, q), v # w
  PROVE  v.end <= w.start \/ w.end <= v.start
<1>0. Scouted(scout) /\ layout = BuildStorageLayout(scout)
  BY TreeWants
<1> DEFINE a == layout.at[r.name]
           b == layout.at[q.name]
<1>1. /\ a.start \in Nat /\ a.end \in Nat /\ v.start \in Nat /\ v.end \in Nat
      /\ a.start <= v.start /\ v.end <= a.end
      /\ b.start \in Nat /\ b.end \in Nat /\ w.start \in Nat /\ w.end \in Nat
      /\ b.start <= w.start /\ w.end <= b.end
  BY InSectionIs
<1>2. CASE r # q
  <2>1. a.end <= b.start \/ b.end <= a.start
    BY <1>0, <1>2, SectionsApart
  <2> HIDE DEF a, b
  <2>. QED  BY <1>1, <2>1
<1>3. CASE r = q
  <2>1. ASSUME NEW t, LeavesRequest(scout, t) = r
        PROVE  r.name[1] = "leaves" /\ r.name[2] = t
    BY <2>1 DEF LeavesRequest, Request
  <2>2. r.name[1] = "leaves"
    BY <1>3, <2>1 DEF InSection
  <2>3. PICK t, p : Counted(t) /\ p \in Part /\ r = LeavesRequest(scout, t) /\ v = ViewOf(t, p)
    BY <2>2 DEF InSection
  <2>4. PICK u, o : Counted(u) /\ o \in Part /\ q = LeavesRequest(scout, u) /\ w = ViewOf(u, o)
    BY <1>3, <2>2 DEF InSection
  <2>5. u = t
    <3>1. r.name[2] = t
      BY <2>1, <2>3
    <3>2. LeavesRequest(scout, u) = r
      BY <1>3, <2>4
    <3>3. r.name[2] = u
      BY <2>1, <3>2
    <3>. QED  BY <3>1, <3>3
  <2>6. o # p
    BY <2>3, <2>4, <2>5
  <2>7. p \in Nat /\ o \in Nat
    BY <2>3, <2>4, PartsAre
  <2>8. CASE p < o
    <3>1. ViewOf(t, p).end <= ViewOf(t, o).start
      BY <2>3, <2>4, <2>8, PartitionIn
    <3>. QED  BY <2>3, <2>4, <2>5, <3>1
  <2>9. CASE o < p
    <3>1. ViewOf(t, o).end <= ViewOf(t, p).start
      BY <2>3, <2>4, <2>9, PartitionIn
    <3>. QED  BY <2>3, <2>4, <2>5, <3>1
  <2>. QED  BY <2>6, <2>7, <2>8, <2>9
<1>. QED  BY <1>2, <1>3

\* storage_disjoint_views never panics.
LEMMA PlannedApart == Planned => Apart
<1> SUFFICES ASSUME Planned PROVE Apart
  OBVIOUS
<1> DEFINE views == Views(layout, scout, room)
           h == View(<<"header">>, "header", 0, Size["header"])
           z == layout.size
<1>1. \A v \in views : v = h \/ \E r \in Wanted(scout) : InSection(v, r)
  BY ViewsPlaced
<1>2. Scouted(scout) /\ layout = BuildStorageLayout(scout)
  BY TreeWants
<1>3. h.start = 0 /\ h.end = Size["header"] /\ h.type = "header" /\ Size["header"] \in Nat /\ Size["header"] > 0
  <2>1. "header" \in Type
    BY DEF Type
  <2>. QED  BY <2>1, SizeIs DEF View
<1>4. /\ h.end <= z /\ h.start % Alignment(h.type) = 0 /\ (h.end - h.start) % Size[h.type] = 0
  <2> DEFINE r == MetadataRequest(scout)
             s == layout.at[r.name]
  <2>1. /\ s.start \in Nat /\ s.end \in Nat /\ s.start <= s.end /\ Size["header"] <= s.start
        /\ z \in Nat /\ s.end <= z
    <3>1. r \in Wanted(scout)
      BY TreeWants
    <3> HIDE DEF r
    <3>. QED  BY <1>2, <3>1, SectionsAre
  <2>2. h.end <= z
    <3> HIDE DEF s, z, h
    <3>. QED  BY <1>3, <2>1
  <2>3. 0 % Alignment("header") = 0 /\ (Size["header"] - 0) % Size["header"] = 0
    BY DEF Alignment, Size
  <2> HIDE DEF h
  <2>. QED  BY <1>3, <2>2, <2>3
<1>5. ASSUME NEW v \in views
      PROVE  v.end <= z /\ v.start % Alignment(v.type) = 0 /\ (v.end - v.start) % Size[v.type] = 0
  <2>1. CASE v = h
    BY <1>4, <2>1
  <2>2. ASSUME NEW r \in Wanted(scout), InSection(v, r)
        PROVE  v.end <= z /\ v.start % Alignment(v.type) = 0 /\ (v.end - v.start) % Size[v.type] = 0
    <3> DEFINE s == layout.at[r.name]
    <3>1. /\ s.end \in Nat /\ s.end <= z /\ z \in Nat /\ v.end \in Nat /\ v.end <= s.end
          /\ v.start % Alignment(v.type) = 0 /\ (v.end - v.start) % Size[v.type] = 0
      BY <2>2, InSectionIs
    <3>2. v.end <= z
      <4> HIDE DEF s, z
      <4>. QED  BY <3>1
    <3>. QED  BY <3>1, <3>2
  <2> HIDE DEF h, z, views
  <2>. QED  BY <1>1, <2>1, <2>2
<1>6. ASSUME NEW v, NEW r \in Wanted(scout), InSection(v, r)
      PROVE  h.end <= v.start
  <2> HIDE DEF h
  <2>. QED  BY <1>3, <1>6, BehindHeader
<1>7. ASSUME NEW v, NEW r \in Wanted(scout), InSection(v, r),
             NEW w, NEW q \in Wanted(scout), InSection(w, q), v # w
      PROVE  v.end <= w.start \/ w.end <= v.start
  BY <1>7, InSectionsApart
<1>8. \A v, w \in views : v = w \/ v.end <= w.start \/ w.end <= v.start
  <2> SUFFICES ASSUME NEW v \in views, NEW w \in views, v # w
               PROVE  v.end <= w.start \/ w.end <= v.start
    OBVIOUS
  <2> HIDE DEF views, h
  <2>1. CASE v = h
    <3>1. PICK q \in Wanted(scout) : InSection(w, q)
      BY <1>1, <2>1
    <3>2. h.end <= w.start
      BY <1>6, <3>1
    <3>. QED  BY <2>1, <3>2
  <2>2. CASE w = h
    <3>1. PICK q \in Wanted(scout) : InSection(v, q)
      BY <1>1, <2>2
    <3>2. h.end <= v.start
      BY <1>6, <3>1
    <3>. QED  BY <2>2, <3>2
  <2>3. CASE v # h /\ w # h
    <3>1. PICK r \in Wanted(scout) : InSection(v, r)
      BY <1>1, <2>3
    <3>2. PICK q \in Wanted(scout) : InSection(w, q)
      BY <1>1, <2>3
    <3>. QED  BY <1>7, <3>1, <3>2
  <2>. QED  BY <2>1, <2>2, <2>3
<1> HIDE DEF views, h, z
<1>9. CanBeViewed(views, z)
  BY <1>5, <1>8 DEF CanBeViewed
<1>. QED  BY <1>9 DEF Apart, views, z

\* The places of items that are stored.
LEMMA StoredIn ==
  ASSUME NEW start \in Nat, NEW type \in Type, NEW items, NEW n \in Nat, DOMAIN items = 1..n
  PROVE  DOMAIN ItemsAt(start, type, items) \subseteq start..(start + n * Size[type] - 1)
<1> DEFINE z == Size[type]
<1>1. z \in Nat /\ z > 0
  BY SizeIs
<1>2. DOMAIN ItemsAt(start, type, items) = {start + (i - 1) * z : i \in 1..n}
  BY DEF ItemsAt
<1> HIDE DEF z
<1>3. ASSUME NEW i \in 1..n
      PROVE  start + (i - 1) * z \in start..(start + n * z - 1)
  <2> DEFINE a == (i - 1) * z
             b == n * z
  <2>1. a \in Nat /\ b \in Nat /\ a + z <= b
    <3>1. i - 1 \in Nat /\ i <= n
      OBVIOUS
    <3>2. a + z = i * z
      BY <1>1, <3>1
    <3>3. i * z <= n * z
      BY <1>1, <3>1
    <3>4. a \in Nat /\ b \in Nat
      BY <1>1, <3>1
    <3>. QED  BY <3>2, <3>3, <3>4
  <2> HIDE DEF a, b
  <2>2. start + a \in start..(start + b - 1)
    BY <1>1, <2>1
  <2>. QED  BY <2>2 DEF a, b
<1>. QED  BY <1>2, <1>3 DEF z

-----------------------------------------------------------------------------
(* What the fill pass has seen *)

IsSeq(s) == \E S : s \in Seq(S)

\* A sequence with one more item.
LEMMA AppendedIs ==
  ASSUME NEW s, IsSeq(s), NEW e
  PROVE  /\ IsSeq(Append(s, e)) /\ Len(s) \in Nat /\ Len(Append(s, e)) = Len(s) + 1
         /\ IsSeq(<<>>) /\ Len(<<>>) = 0 /\ DOMAIN s = 1..Len(s)
<1>1. PICK S : s \in Seq(S)
  BY DEF IsSeq
<1> DEFINE T == S \cup {e}
<1>2. s \in Seq(T)
  <2>1. S \subseteq T
    OBVIOUS
  <2> HIDE DEF T
  <2>. QED  BY <1>1, <2>1, WiderSeq
<1>3. e \in T
  OBVIOUS
<1> HIDE DEF T
<1>4. Append(s, e) \in Seq(T) /\ Len(s) \in Nat /\ Len(Append(s, e)) = Len(s) + 1 /\ DOMAIN s = 1..Len(s)
  BY <1>2, <1>3
<1>5. <<>> \in Seq(T) /\ Len(<<>>) = 0
  OBVIOUS
<1>. QED  BY <1>4, <1>5, Zenon DEF IsSeq

\* The leaves of a partition among the first n events.
SeenAt(n, t, p) == {i \in LeavesIn(trace, t, p) : i <= n}
AllSeen(t, p) == SeenAt(pos, t, p) = LeavesIn(trace, t, p)

\* What has been seen of a partition is a part of its leaves.
LEMMA SeenAre ==
  ASSUME trace \in Traces, NEW n, NEW t, NEW p
  PROVE  /\ IsFiniteSet(SeenAt(n, t, p)) /\ Cardinality(SeenAt(n, t, p)) \in Nat
         /\ SeenAt(n, t, p) \subseteq LeavesIn(trace, t, p)
         /\ Cardinality(SeenAt(n, t, p)) = Cardinality(LeavesIn(trace, t, p))
              <=> SeenAt(n, t, p) = LeavesIn(trace, t, p)
<1>1. SeenAt(n, t, p) \subseteq LeavesIn(trace, t, p)
  BY DEF SeenAt
<1>2. IsFiniteSet(LeavesIn(trace, t, p))
  BY LeavesCount
<1>. QED  BY <1>1, <1>2, FS_Subset, FS_CardinalityType

\* An event that is no leaf changes nothing, a leaf only what its partition has.
LEMMA SeenGrow ==
  ASSUME trace \in Traces, NEW n \in 0..(Len(trace) - 1)
  PROVE  LET e == trace[n + 1]
             part == PartOf(trace, e)
         IN  /\ e.of # "leaf" => \A t, p : SeenAt(n + 1, t, p) = SeenAt(n, t, p)
             /\ e.of = "leaf" =>
                  /\ n + 1 \in LeavesIn(trace, e.tree, part) /\ n + 1 \notin SeenAt(n, e.tree, part)
                  /\ SeenAt(n + 1, e.tree, part) = SeenAt(n, e.tree, part) \cup {n + 1}
                  /\ \A t, p : t # e.tree \/ p # part => SeenAt(n + 1, t, p) = SeenAt(n, t, p)
<1> DEFINE e == trace[n + 1]
           part == PartOf(trace, e)
<1>1. n \in Nat /\ n + 1 \in 1..Len(trace) /\ n < n + 1
  <2>1. Len(trace) \in Nat
    BY TracesAssumption
  <2>. QED  BY <2>1
<1>2. \A t, p : \A i \in LeavesIn(trace, t, p) : i \in Nat
  <2> TAKE t, p
  <2>1. LeavesIn(trace, t, p) \subseteq 1..Len(trace)
    BY LeavesCount
  <2>. QED  BY <2>1
<1>3. ASSUME NEW t, NEW p
      PROVE  /\ SeenAt(n, t, p) \subseteq SeenAt(n + 1, t, p)
             /\ SeenAt(n + 1, t, p) \subseteq SeenAt(n, t, p) \cup {n + 1}
             /\ n + 1 \notin SeenAt(n, t, p)
             /\ n + 1 \in SeenAt(n + 1, t, p) <=> n + 1 \in LeavesIn(trace, t, p)
  <2>1. \A i \in LeavesIn(trace, t, p) : i \in Nat
    BY <1>2
  <2>2. \A i \in Nat : (i <= n => i <= n + 1) /\ (i <= n + 1 => i <= n \/ i = n + 1)
    BY <1>1
  <2>3. n + 1 <= n + 1 /\ ~(n + 1 <= n)
    BY <1>1
  <2>. QED  BY <2>1, <2>2, <2>3 DEF SeenAt
<1>4. \A t, p : n + 1 \in LeavesIn(trace, t, p) => e.of = "leaf" /\ e.tree = t /\ part = p
  BY DEF LeavesIn, LeavesOf
<1>5. e.of = "leaf" => n + 1 \in LeavesIn(trace, e.tree, part)
  BY <1>1, LeafIs
<1> HIDE DEF e, part
<1>6. ASSUME NEW t, NEW p, n + 1 \notin LeavesIn(trace, t, p)
      PROVE  SeenAt(n + 1, t, p) = SeenAt(n, t, p)
  BY <1>3, <1>6
<1>7. /\ e.of # "leaf" => \A t, p : SeenAt(n + 1, t, p) = SeenAt(n, t, p)
      /\ e.of = "leaf" => \A t, p : t # e.tree \/ p # part => SeenAt(n + 1, t, p) = SeenAt(n, t, p)
  BY <1>4, <1>6, Zenon
<1>8. e.of = "leaf" =>
        /\ n + 1 \in LeavesIn(trace, e.tree, part) /\ n + 1 \notin SeenAt(n, e.tree, part)
        /\ SeenAt(n + 1, e.tree, part) = SeenAt(n, e.tree, part) \cup {n + 1}
  <2>1. e.of = "leaf" => n + 1 \in SeenAt(n + 1, e.tree, part)
    BY <1>3, <1>5
  <2>. QED  BY <1>3, <1>5, <2>1
<1>. QED  BY <1>7, <1>8 DEF e, part

-----------------------------------------------------------------------------
(* The invariant of the fill pass *)

\* A buffer has the leaves of its partition that have been seen, until the
\* last one is.
Waiting ==
  /\ DOMAIN buffers = Tree /\ \A t \in Tree : DOMAIN buffers[t] = Part
  /\ \A t \in Tree, p \in Part :
       /\ IsSeq(buffers[t][p])
       /\ Len(buffers[t][p]) = IF AllSeen(t, p) THEN 0 ELSE Cardinality(SeenAt(pos, t, p))

\* A task has all the leaves of its partition.
Handed ==
  \A task \in tasks :
    /\ Counted(task.tree) /\ task.part \in Part
    /\ AllSeen(task.tree, task.part)
    /\ IsSeq(task.leaves) /\ Len(task.leaves) = room[task.tree][task.part]
    /\ \A other \in tasks : other.tree = task.tree /\ other.part = task.part => other = task

\* Nobody has written where the leaves that are seen, or handed over, will go.
Awaited(t, p) == ~AllSeen(t, p) \/ \E task \in tasks : task.tree = t /\ task.part = p
Unwritten ==
  \A t, p : Counted(t) /\ p \in Part /\ Awaited(t, p) => DOMAIN file \cap Places(ViewOf(t, p)) = {}

\* Every task has run before the rest of the file is written.
InOrder ==
  phase \notin {"allocate", "fill", "unwinding", "panicked", "failed"} => pos = Len(trace) /\ tasks = {}

FillInv == /\ Planned /\ Waiting /\ Handed /\ Unwritten /\ InOrder
           /\ dedup.used \in Nat

\* It holds before the file is allocated.
LEMMA FillInvInit == Init => FillInv
<1> SUFFICES ASSUME Init PROVE FillInv
  OBVIOUS
<1>1. trace \in Traces /\ Len(trace) \in Nat
  BY TracesAssumption DEF Init
<1>2. Planned
  BY <1>1 DEF Init, Planned
<1>3. \A t, p : SeenAt(pos, t, p) = {}
  <2> TAKE t, p
  <2>1. LeavesIn(trace, t, p) \subseteq 1..Len(trace)
    BY <1>1, LeavesCount
  <2>. QED  BY <1>1, <2>1 DEF Init, SeenAt
<1>4. Waiting
  <2>1. DOMAIN buffers = Tree /\ \A t \in Tree : DOMAIN buffers[t] = Part
    BY DEF Init
  <2>2. ASSUME NEW t \in Tree, NEW p \in Part
        PROVE  /\ IsSeq(buffers[t][p])
               /\ Len(buffers[t][p]) = IF AllSeen(t, p) THEN 0 ELSE Cardinality(SeenAt(pos, t, p))
    <3>1. buffers[t][p] = <<>>
      BY DEF Init
    <3>2. Cardinality(SeenAt(pos, t, p)) = 0
      BY <1>3, FS_EmptySet
    <3>3. <<>> \in Seq({}) /\ Len(<<>>) = 0
      OBVIOUS
    <3>. QED  BY <3>1, <3>2, <3>3 DEF IsSeq
  <2>. QED  BY <2>1, <2>2 DEF Waiting
<1>5. tasks = {} /\ DOMAIN file = {} /\ phase = "allocate" /\ dedup.used = 0
  BY DEF Init
<1>. QED  BY <1>2, <1>4, <1>5 DEF FillInv, Handed, Unwritten, InOrder

\* A step that keeps the plan and what has been handed over keeps the
\* invariant, if it writes to the file only when every task has run.
LEMMA QuietStep ==
  ASSUME FillInv, UNCHANGED <<plan, filling>>,
         file' = file \/ (pos = Len(trace) /\ tasks = {}), InOrder'
  PROVE  FillInv'
<1>1. /\ UNCHANGED <<trace, scout, room, layout>> /\ UNCHANGED <<pos, dedup, buffers, tasks>>
  BY DEF plan, filling
<1>2. Planned' /\ Waiting' /\ Handed' /\ dedup'.used \in Nat
  <2>1. Planned'
    BY <1>1 DEF FillInv, Planned
  <2>2. \A t, p : SeenAt(pos, t, p)' = SeenAt(pos, t, p)
    BY <1>1 DEF SeenAt
  <2>3. \A t, p : AllSeen(t, p)' <=> AllSeen(t, p)
    BY <1>1, <2>2 DEF AllSeen
  <2>4. Waiting'
    BY <1>1, <2>2, <2>3 DEF FillInv, Waiting
  <2>5. \A t : Counted(t)' = Counted(t)
    BY <1>1 DEF Counted
  <2>6. Handed'
    BY <1>1, <2>3, <2>5 DEF FillInv, Handed
  <2>. QED  BY <1>1, <2>1, <2>4, <2>6 DEF FillInv
<1>3. Unwritten'
  <2>1. CASE file' = file
    BY <1>1, <2>1 DEF FillInv, Unwritten, Awaited, AllSeen, SeenAt, Counted, ViewOf
  <2>2. CASE pos = Len(trace) /\ tasks = {}
    <3>1. ASSUME NEW t, NEW p
          PROVE  ~Awaited(t, p)'
      <4>1. LeavesIn(trace, t, p) \subseteq 1..Len(trace)
        BY LeavesCount DEF FillInv, Planned
      <4>2. AllSeen(t, p)
        BY <2>2, <4>1 DEF AllSeen, SeenAt
      <4>. QED  BY <1>1, <2>2, <4>2 DEF Awaited, AllSeen, SeenAt
    <3>. QED  BY <3>1 DEF Unwritten
  <2>. QED  BY <2>1, <2>2
<1>. QED  BY <1>2, <1>3 DEF FillInv

\* What is kept when a step has seen nothing new.
LEMMA KeptStep ==
  ASSUME FillInv, UNCHANGED plan, pos' \in 0..Len(trace), UNCHANGED <<buffers, tasks>>,
         \A t, p : SeenAt(pos', t, p) = SeenAt(pos, t, p)
  PROVE  /\ Planned' /\ Waiting' /\ Handed'
         /\ \A t, p : AllSeen(t, p)' <=> AllSeen(t, p)
         /\ \A t, p : Counted(t)' = Counted(t) /\ ViewOf(t, p)' = ViewOf(t, p)
         /\ \A t, p : Awaited(t, p)' <=> Awaited(t, p)
<1>1. UNCHANGED <<trace, scout, room, layout>>
  BY DEF plan
<1>2. \A t, p : SeenAt(pos, t, p)' = SeenAt(pos, t, p)
  BY <1>1 DEF SeenAt
<1>3. \A t, p : AllSeen(t, p)' <=> AllSeen(t, p)
  BY <1>1, <1>2 DEF AllSeen
<1>4. Planned'
  BY <1>1 DEF FillInv, Planned
<1>5. \A t, p : Counted(t)' = Counted(t) /\ ViewOf(t, p)' = ViewOf(t, p)
  BY <1>1 DEF Counted, ViewOf
<1>6. Waiting'
  BY <1>2, <1>3 DEF FillInv, Waiting
<1>7. Handed'
  BY <1>1, <1>3, <1>5 DEF FillInv, Handed
<1>8. \A t, p : Awaited(t, p)' <=> Awaited(t, p)
  BY <1>3 DEF Awaited
<1>. QED  BY <1>3, <1>4, <1>5, <1>6, <1>7, <1>8

\* The fill pass writes the bytes of an access to the data section.
LEMMA AccessStep ==
  ASSUME FillInv, FillAccess
  PROVE  FillInv'
<1> DEFINE bytes == trace[pos + 1].bytes
<1>1. /\ phase = "fill" /\ pos < Len(trace) /\ trace[pos + 1].of = "access" /\ pos' = pos + 1
      /\ UNCHANGED plan /\ UNCHANGED <<buffers, tasks>>
  BY DEF FillAccess, Filling
<1>2. trace \in Traces /\ pos \in Nat /\ Len(trace) \in Nat /\ pos \in 0..Len(trace) /\ Planned
  BY TracesAssumption DEF FillInv, Planned
<1>3. pos \in 0..(Len(trace) - 1) /\ pos' \in 0..Len(trace) /\ pos + 1 \in 1..Len(trace)
  BY <1>1, <1>2
<1>4. \A t, p : SeenAt(pos', t, p) = SeenAt(pos, t, p)
  BY <1>1, <1>2, <1>3, SeenGrow
<1>5. /\ Planned' /\ Waiting' /\ Handed'
      /\ \A t, p : Counted(t)' = Counted(t) /\ ViewOf(t, p)' = ViewOf(t, p)
      /\ \A t, p : Awaited(t, p)' <=> Awaited(t, p)
  BY <1>1, <1>3, <1>4, KeptStep
<1>6. bytes \in Seq(Nat)
  BY <1>1, <1>2, <1>3, BytesAre
<1>7. /\ phase' \in {"fill", "failed"} /\ dedup'.used \in Nat
      /\ DOMAIN file' \subseteq DOMAIN file \cup DataSection.start..(DataSection.end - 1)
  <2>1. CASE UNCHANGED <<dedup, file, phase>>
    BY <1>1, <2>1 DEF FillInv
  <2>2. CASE phase' = "failed" /\ UNCHANGED <<dedup, data, file>>
    BY <2>2 DEF FillInv
  <2>3. CASE /\ dedup.used + Len(bytes) <= DataSection.end - DataSection.start
             /\ Store(ItemsAt(DataSection.start + dedup.used, "byte", bytes))
             /\ dedup' = [used |-> dedup.used + Len(bytes),
                          memo |-> dedup.memo \cup {[bytes |-> bytes, offset |-> dedup.used]}]
             /\ UNCHANGED phase
    <3> DEFINE start == DataSection.start + dedup.used
               n == Len(bytes)
               items == ItemsAt(start, "byte", bytes)
    <3>1. /\ DataSection.start \in Nat /\ DataSection.end \in Nat /\ dedup.used \in Nat
          /\ n \in Nat /\ DOMAIN bytes = 1..n
      BY <1>2, <1>6, DataSectionIs DEF FillInv
    <3>2. start \in Nat /\ start >= DataSection.start /\ start + n <= DataSection.end
      <4> HIDE DEF n
      <4>. QED  BY <2>3, <3>1 DEF n
    <3>3. dedup'.used \in Nat
      <4>1. dedup'.used = dedup.used + n
        BY <2>3
      <4>. QED  BY <3>1, <4>1
    <3>4. DOMAIN file' = DOMAIN file \cup DOMAIN items
      BY <2>3 DEF Store
    <3> HIDE DEF start, n
    <3>5. DOMAIN items \subseteq start..(start + n * Size["byte"] - 1)
      <4>1. "byte" \in Type
        BY DEF Type
      <4> HIDE DEF bytes
      <4>. QED  BY <3>1, <3>2, <4>1, StoredIn
    <3>6. n * Size["byte"] = n
      BY <3>1 DEF Size
    <3> HIDE DEF items
    <3>7. DOMAIN items \subseteq DataSection.start..(DataSection.end - 1)
      BY <3>1, <3>2, <3>5, <3>6
    <3>. QED  BY <1>1, <2>3, <3>3, <3>4, <3>7
  <2>. QED  BY <2>1, <2>2, <2>3 DEF FillAccess, Insert
<1>8. Apart
  BY <1>2, PlannedApart
<1>9. Unwritten'
  <2> SUFFICES ASSUME NEW t, NEW p, Counted(t), p \in Part, Awaited(t, p)
               PROVE  DOMAIN file' \cap Places(ViewOf(t, p)) = {}
    BY <1>5 DEF Unwritten, Places
  <2>1. DOMAIN file \cap Places(ViewOf(t, p)) = {}
    BY DEF FillInv, Unwritten
  <2>2. DataSection.start..(DataSection.end - 1) \cap Places(ViewOf(t, p)) = {}
    BY <1>2, <1>8, ViewsAreApart
  <2> DEFINE a == Places(ViewOf(t, p))
             b == DataSection.start..(DataSection.end - 1)
  <2> HIDE DEF a, b
  <2>. QED  BY <1>7, <2>1, <2>2 DEF a, b
<1>10. InOrder'
  BY <1>7 DEF InOrder
<1>. QED  BY <1>5, <1>7, <1>9, <1>10 DEF FillInv

\* One buffer is replaced.
LEMMA ReplacedIs ==
  ASSUME NEW b, DOMAIN b = Tree, \A t \in Tree : DOMAIN b[t] = Part,
         NEW t \in Tree, NEW p \in Part, NEW s, NEW c, c = [b EXCEPT ![t][p] = s]
  PROVE  /\ DOMAIN c = Tree /\ \A u \in Tree : DOMAIN c[u] = Part
         /\ c[t][p] = s
         /\ \A u \in Tree, q \in Part : u # t \/ q # p => c[u][q] = b[u][q]
<1>1. DOMAIN c = Tree /\ c[t] = [b[t] EXCEPT ![p] = s] /\ \A u \in Tree : u # t => c[u] = b[u]
  OBVIOUS
<1>2. DOMAIN c[t] = Part /\ c[t][p] = s /\ \A q \in Part : q # p => c[t][q] = b[t][q]
  BY <1>1
<1>. QED  BY <1>1, <1>2

\* The fill pass puts a leaf into its buffer, or hands the buffer over.
LEMMA LeafStep ==
  ASSUME FillInv, FillLeaf,
         NEW t, t = trace[pos + 1].tree, NEW p, p = PartOf(trace, trace[pos + 1])
  PROVE  FillInv'
<1> DEFINE e == trace[pos + 1]
           leaf == Flat(e)
           filled == Append(buffers[t][p], leaf)
           n == Cardinality(SeenAt(pos, t, p))
           all == LeavesIn(trace, t, p)
           new == Spawned(t, p, filled)
<1>1. /\ phase = "fill" /\ pos < Len(trace) /\ e.of = "leaf" /\ UNCHANGED <<plan, dedup, data, file>>
  BY DEF FillLeaf, Filling
<1>2. CASE phase' = "unwinding" /\ UNCHANGED <<pos, buffers, tasks>>
  <2>1. UNCHANGED <<plan, filling>> /\ UNCHANGED file
    BY <1>1, <1>2 DEF filling
  <2>2. InOrder'
    BY <1>2 DEF InOrder
  <2>. QED  BY <2>1, <2>2, QuietStep
<1>3. CASE /\ pos' = pos + 1 /\ UNCHANGED phase
           /\ \/ /\ Len(filled) = room[t][p] /\ tasks' = tasks \cup {new}
                 /\ buffers' = [buffers EXCEPT ![t][p] = <<>>]
              \/ /\ Len(filled) # room[t][p] /\ buffers' = [buffers EXCEPT ![t][p] = filled]
                 /\ UNCHANGED tasks
  <2>1. trace \in Traces /\ pos \in Nat /\ Len(trace) \in Nat /\ pos \in 0..Len(trace) /\ Planned
    BY TracesAssumption DEF FillInv, Planned
  <2>2. pos \in 0..(Len(trace) - 1) /\ pos' \in 0..Len(trace) /\ pos + 1 \in 1..Len(trace)
    BY <1>1, <1>3, <2>1
  <2>3. /\ pos + 1 \in all /\ pos + 1 \notin SeenAt(pos, t, p)
        /\ SeenAt(pos', t, p) = SeenAt(pos, t, p) \cup {pos + 1}
        /\ \A u, q : u # t \/ q # p => SeenAt(pos', u, q) = SeenAt(pos, u, q)
    <3> DEFINE u0 == trace[pos + 1].tree
               q0 == PartOf(trace, trace[pos + 1])
    <3>1. /\ pos + 1 \in LeavesIn(trace, u0, q0) /\ pos + 1 \notin SeenAt(pos, u0, q0)
          /\ SeenAt(pos + 1, u0, q0) = SeenAt(pos, u0, q0) \cup {pos + 1}
          /\ \A u, q : u # u0 \/ q # q0 => SeenAt(pos + 1, u, q) = SeenAt(pos, u, q)
      BY <1>1, <2>1, <2>2, SeenGrow
    <3>2. u0 = t /\ q0 = p /\ pos' = pos + 1
      BY <1>3
    <3> HIDE DEF u0, q0
    <3>. QED  BY <3>1, <3>2
  <2>4. t \in Tree /\ p \in Part /\ Counted(t)
    BY <1>1, <2>1, <2>2, LeafIs, TreesAreCounted DEF Planned, Counted
  <2>5. UNCHANGED <<trace, scout, room, layout>>
    BY <1>1 DEF plan
  <2>6. Planned'
    BY <2>2, <2>5 DEF FillInv, Planned
  <2> HIDE DEF leaf
  <2>7. /\ n \in Nat /\ Cardinality(SeenAt(pos', t, p)) = n + 1
        /\ room[t][p] = Cardinality(all)
        /\ (n + 1 = room[t][p] <=> SeenAt(pos', t, p) = all)
    <3>1. IsFiniteSet(SeenAt(pos, t, p)) /\ n \in Nat
      BY <2>1, SeenAre
    <3>2. Cardinality(SeenAt(pos', t, p)) = n + 1
      <4> DEFINE x == pos + 1
                 S == SeenAt(pos, t, p)
      <4>1. Cardinality(S \cup {x}) = Cardinality(S) + 1
        <5>1. IsFiniteSet(S) /\ x \notin S
          BY <2>3, <3>1
        <5> HIDE DEF x, S
        <5>. QED  BY <5>1, FS_AddElement
      <4>. QED  BY <2>3, <4>1
    <3>3. room[t][p] = Cardinality(all)
      BY <2>1, <2>4, PartitionsAre DEF Planned
    <3>4. Cardinality(SeenAt(pos', t, p)) = Cardinality(all) <=> SeenAt(pos', t, p) = all
      BY <2>1, SeenAre
    <3> HIDE DEF n, all
    <3>. QED  BY <3>1, <3>2, <3>3, <3>4
  <2>8. /\ ~AllSeen(t, p) /\ (AllSeen(t, p)' <=> n + 1 = room[t][p])
        /\ \A u, q : u # t \/ q # p => (AllSeen(u, q)' <=> AllSeen(u, q))
        /\ \A u, q : SeenAt(pos, u, q)' = SeenAt(pos', u, q)
    <3>1. \A u, q : SeenAt(pos, u, q)' = SeenAt(pos', u, q)
      BY <2>5 DEF SeenAt
    <3>2. \A u, q : AllSeen(u, q)' <=> SeenAt(pos', u, q) = LeavesIn(trace, u, q)
      BY <2>5, <3>1 DEF AllSeen
    <3>3. ~AllSeen(t, p)
      BY <2>3 DEF AllSeen
    <3>4. AllSeen(t, p)' <=> n + 1 = room[t][p]
      BY <2>7, <3>2
    <3>5. \A u, q : u # t \/ q # p => (AllSeen(u, q)' <=> AllSeen(u, q))
      BY <2>3, <3>2 DEF AllSeen
    <3>. QED  BY <3>1, <3>3, <3>4, <3>5
  <2>9. /\ IsSeq(filled) /\ Len(filled) = n + 1 /\ IsSeq(<<>>) /\ Len(<<>>) = 0
    <3>1. IsSeq(buffers[t][p]) /\ Len(buffers[t][p]) = n
      BY <2>4, <2>8 DEF FillInv, Waiting
    <3>2. /\ IsSeq(filled) /\ Len(filled) = Len(buffers[t][p]) + 1 /\ IsSeq(<<>>) /\ Len(<<>>) = 0
      BY <3>1, AppendedIs
    <3>. QED  BY <3>1, <3>2
  <2> HIDE DEF filled, n, all
  <2>10. \A task \in tasks : task.tree # t \/ task.part # p
    BY <2>8 DEF FillInv, Handed
  <2>11. Waiting'
    <3> DEFINE s == IF n + 1 = room[t][p] THEN <<>> ELSE filled
    <3>1. buffers' = [buffers EXCEPT ![t][p] = s]
      BY <1>3, <2>9
    <3>2. IsSeq(s) /\ Len(s) = IF AllSeen(t, p)' THEN 0 ELSE n + 1
      BY <2>8, <2>9
    <3>3. DOMAIN buffers = Tree /\ \A u \in Tree : DOMAIN buffers[u] = Part
      BY DEF FillInv, Waiting
    <3> HIDE DEF s
    <3>4. /\ DOMAIN buffers' = Tree /\ \A u \in Tree : DOMAIN buffers'[u] = Part
          /\ buffers'[t][p] = s
          /\ \A u \in Tree, q \in Part : u # t \/ q # p => buffers'[u][q] = buffers[u][q]
      BY <2>4, <3>1, <3>3, ReplacedIs
    <3>5. ASSUME NEW u \in Tree, NEW q \in Part
          PROVE  /\ IsSeq(buffers'[u][q])
                 /\ Len(buffers'[u][q]) = IF AllSeen(u, q)' THEN 0 ELSE Cardinality(SeenAt(pos, u, q)')
      <4>1. CASE u = t /\ q = p
        BY <2>7, <2>8, <3>2, <3>4, <4>1
      <4>2. CASE u # t \/ q # p
        <5>1. buffers'[u][q] = buffers[u][q] /\ (AllSeen(u, q)' <=> AllSeen(u, q))
              /\ SeenAt(pos, u, q)' = SeenAt(pos, u, q)
          BY <2>3, <2>8, <3>4, <4>2
        <5>. QED  BY <5>1 DEF FillInv, Waiting
      <4>. QED  BY <4>1, <4>2
    <3>. QED  BY <3>4, <3>5 DEF Waiting
  <2>12. new.tree = t /\ new.part = p /\ new.leaves = filled
    BY DEF Spawned
  <2> HIDE DEF new
  <2>13. \A task \in tasks' : task \in tasks \/ (task = new /\ n + 1 = room[t][p])
    BY <1>3, <2>9
  <2>14. \A u : Counted(u)' = Counted(u)
    BY <2>5 DEF Counted
  <2>15. Handed'
    <3> SUFFICES ASSUME NEW task \in tasks'
                 PROVE  /\ Counted(task.tree) /\ task.part \in Part
                        /\ AllSeen(task.tree, task.part)'
                        /\ IsSeq(task.leaves) /\ Len(task.leaves) = room[task.tree][task.part]
                        /\ \A other \in tasks' :
                             other.tree = task.tree /\ other.part = task.part => other = task
      BY <2>5, <2>14 DEF Handed
    <3>1. CASE task \in tasks
      <4>1. /\ Counted(task.tree) /\ task.part \in Part /\ AllSeen(task.tree, task.part)
            /\ IsSeq(task.leaves) /\ Len(task.leaves) = room[task.tree][task.part]
            /\ \A other \in tasks : other.tree = task.tree /\ other.part = task.part => other = task
        BY <3>1 DEF FillInv, Handed
      <4>2. AllSeen(task.tree, task.part)'
        BY <2>8, <2>10, <3>1, <4>1
      <4>3. \A other \in tasks' : other.tree = task.tree /\ other.part = task.part => other = task
        BY <2>10, <2>12, <2>13, <3>1, <4>1
      <4>. QED  BY <4>1, <4>2, <4>3
    <3>2. CASE task = new /\ n + 1 = room[t][p]
      <4>1. AllSeen(task.tree, task.part)'
        BY <2>8, <2>12, <3>2
      <4>2. \A other \in tasks' : other.tree = task.tree /\ other.part = task.part => other = task
        BY <2>10, <2>12, <2>13, <3>2
      <4>. QED  BY <2>4, <2>9, <2>12, <3>2, <4>1, <4>2
    <3>. QED  BY <2>13, <3>1, <3>2
  <2>16. Unwritten'
    <3>1. \A u, q : ViewOf(u, q)' = ViewOf(u, q)
      BY <2>5 DEF ViewOf
    <3>2. ASSUME NEW u, NEW q, Awaited(u, q)'
          PROVE  Awaited(u, q)
      <4>1. CASE u = t /\ q = p
        BY <2>8, <4>1 DEF Awaited
      <4>2. CASE u # t \/ q # p
        <5>1. AllSeen(u, q)' <=> AllSeen(u, q)
          BY <2>8, <4>2
        <5>2. \A task \in tasks' : task.tree = u /\ task.part = q => task \in tasks
          BY <2>12, <2>13, <4>2
        <5>. QED  BY <3>2, <5>1, <5>2 DEF Awaited
      <4>. QED  BY <4>1, <4>2
    <3>. QED  BY <1>1, <2>14, <3>1, <3>2 DEF FillInv, Unwritten
  <2>17. InOrder'
    BY <1>1, <1>3 DEF InOrder
  <2>. QED  BY <1>1, <2>6, <2>11, <2>15, <2>16, <2>17 DEF FillInv
<1>. QED  BY <1>2, <1>3 DEF FillLeaf, PushLeafIntoPartition

\* A worker writes the leaves of its task to the view of their partition.
LEMMA TaskStep ==
  ASSUME FillInv, NEW task \in tasks, RunTask(task)
  PROVE  FillInv'
<1> DEFINE t == task.tree
           p == task.part
           n == Len(task.leaves)
           view == ViewOf(t, p)
           items == ItemsAt(view.start, t[1], Sorted(task))
<1>1. /\ tasks' = tasks \ {task} /\ UNCHANGED <<plan, phase, pos, dedup, data, buffers>>
      /\ Store(items)
  BY DEF RunTask, CopyLeaves, ViewOf
<1>2. UNCHANGED <<trace, scout, room, layout>>
  BY <1>1 DEF plan
<1>3. Planned /\ Apart
  BY PlannedApart DEF FillInv
<1>4. /\ Counted(t) /\ p \in Part /\ AllSeen(t, p)
      /\ IsSeq(task.leaves) /\ n = room[t][p]
      /\ \A other \in tasks : other.tree = t /\ other.part = p => other = task
  BY DEF FillInv, Handed
<1>5. n \in Nat /\ DOMAIN Sorted(task) = 1..n
  <2>1. n \in Nat /\ DOMAIN task.leaves = 1..n
    BY <1>4, AppendedIs
  <2>. QED  BY <2>1 DEF Sorted
<1>6. /\ view.start \in Nat /\ view.end \in Nat /\ Size[t[1]] \in Nat
      /\ view.end = view.start + n * Size[t[1]] /\ t[1] \in Type
  BY <1>3, <1>4, ViewIs, CountedIs
<1>7. DOMAIN items \subseteq Places(view)
  <2>1. DOMAIN items \subseteq view.start..(view.start + n * Size[t[1]] - 1)
    <3> HIDE DEF view, n
    <3>. QED  BY <1>5, <1>6, StoredIn
  <2> DEFINE m == n * Size[t[1]]
  <2>2. view.end = view.start + m /\ view.start \in Nat /\ m \in Nat
    BY <1>5, <1>6
  <2> HIDE DEF view, items, m
  <2>3. DOMAIN items \subseteq view.start..(view.start + m - 1)
    BY <2>1 DEF m
  <2>. QED  BY <2>2, <2>3 DEF Places
<1>8. DOMAIN file' = DOMAIN file \cup DOMAIN items
  <2> HIDE DEF items
  <2>. QED  BY <1>1 DEF Store
<1>9. \A u, q : (AllSeen(u, q)' <=> AllSeen(u, q)) /\ SeenAt(pos, u, q)' = SeenAt(pos, u, q)
  BY <1>1, <1>2 DEF AllSeen, SeenAt
<1>10. \A u, q : Counted(u)' = Counted(u) /\ ViewOf(u, q)' = ViewOf(u, q)
  BY <1>2 DEF Counted, ViewOf
<1>11. Planned' /\ Waiting' /\ Handed' /\ dedup'.used \in Nat
  <2>1. Planned'
    BY <1>1, <1>2 DEF FillInv, Planned
  <2>2. Waiting'
    BY <1>1, <1>9 DEF FillInv, Waiting
  <2>3. Handed'
    BY <1>1, <1>2, <1>9, <1>10 DEF FillInv, Handed
  <2>. QED  BY <1>1, <2>1, <2>2, <2>3 DEF FillInv
<1>12. Unwritten'
  <2> SUFFICES ASSUME NEW u, NEW q, Counted(u), q \in Part, Awaited(u, q)'
               PROVE  DOMAIN file' \cap Places(ViewOf(u, q)) = {}
    BY <1>10 DEF Unwritten, Places
  <2>1. Awaited(u, q)
    BY <1>1, <1>9 DEF Awaited
  <2>2. DOMAIN file \cap Places(ViewOf(u, q)) = {}
    BY <2>1 DEF FillInv, Unwritten
  <2>3. u # t \/ q # p
    BY <1>1, <1>4, <1>9 DEF Awaited
  <2>4. Places(view) \cap Places(ViewOf(u, q)) = {}
    BY <1>3, <1>4, <2>3, ViewsAreApart
  <2> DEFINE a == Places(ViewOf(u, q))
             b == Places(view)
  <2> HIDE DEF a, b, items
  <2>. QED  BY <1>7, <1>8, <2>2, <2>4 DEF a, b
<1>13. InOrder'
  <2>1. tasks # {}
    OBVIOUS
  <2>. QED  BY <1>1, <2>1 DEF FillInv, InOrder
<1>. QED  BY <1>11, <1>12, <1>13 DEF FillInv

\* Every step keeps the invariant.
LEMMA FillInvNext == FillInv /\ [Next]_vars => FillInv'
<1> SUFFICES ASSUME FillInv, [Next]_vars PROVE FillInv'
  OBVIOUS
<1>1. CASE UNCHANGED vars
  <2>1. UNCHANGED <<plan, filling>> /\ file' = file /\ phase' = phase
    BY <1>1 DEF vars
  <2>2. InOrder'
    BY <2>1 DEF FillInv, InOrder, plan, filling
  <2>. QED  BY <2>1, <2>2, QuietStep
<1>2. ASSUME FillAccess
      PROVE  FillInv'
  BY <1>2, AccessStep
<1>3. ASSUME FillLeaf
      PROVE  FillInv'
  BY <1>3, LeafStep
<1>4. ASSUME NEW task \in tasks, RunTask(task)
      PROVE  FillInv'
  BY <1>4, TaskStep
<1>5. ASSUME Allocate
      PROVE  FillInv'
  <2>1. phase' \in {"fill", "failed"} /\ UNCHANGED <<plan, filling, file>>
    BY <1>5 DEF Allocate, Step
  <2>2. InOrder'
    BY <2>1 DEF InOrder
  <2>. QED  BY <2>1, <2>2, QuietStep
<1>6. ASSUME EndOfScope \/ Unwind
      PROVE  FillInv'
  <2>1. /\ tasks = {} /\ UNCHANGED <<plan, filling, file>>
        /\ phase' \in {"header", "failed", "panicked"} /\ (phase' = "header" => pos = Len(trace))
    BY <1>6 DEF EndOfScope, Unwind, Step
  <2>2. tasks' = {} /\ pos' = pos /\ trace' = trace
    BY <2>1 DEF plan, filling
  <2>3. InOrder'
    BY <2>1, <2>2 DEF InOrder
  <2>. QED  BY <2>1, <2>3, QuietStep
<1>7. ASSUME Kill
      PROVE  FillInv'
  <2>1. UNCHANGED <<plan, phase, filling, file>>
    BY <1>7 DEF Kill
  <2>2. InOrder'
    BY <2>1 DEF FillInv, InOrder, plan, filling
  <2>. QED  BY <2>1, <2>2, QuietStep
<1>8. ASSUME UNCHANGED <<plan, filling>>,
             phase \notin {"allocate", "fill", "unwinding", "panicked", "failed"},
             phase' \notin {"allocate", "fill", "unwinding", "panicked", "failed"}
      PROVE  FillInv'
  <2>1. pos = Len(trace) /\ tasks = {}
    BY <1>8 DEF FillInv, InOrder
  <2>2. tasks' = {} /\ pos' = pos /\ trace' = trace
    BY <1>8, <2>1 DEF plan, filling
  <2>3. InOrder'
    BY <1>8, <2>1, <2>2 DEF InOrder
  <2>. QED  BY <1>8, <2>1, <2>3, QuietStep
<1>9. ASSUME \/ WriteHeader \/ WriteMetadata \/ TruncateData \/ Truncate
      PROVE  FillInv'
  <2>1. ASSUME NEW from, NEW to, NEW start, NEW type, NEW items, Write(from, to, start, type, items)
        PROVE  UNCHANGED <<plan, filling>> /\ phase = from /\ phase' = to
    BY <2>1, Zenon DEF Write, Step
  <2>2. CASE WriteHeader
    <3>1. UNCHANGED <<plan, filling>> /\ phase = "header" /\ phase' = "metadata"
      BY <2>1, <2>2, Zenon DEF WriteHeader
    <3>. QED  BY <1>8, <3>1
  <2>3. CASE WriteMetadata
    <3>1. UNCHANGED <<plan, filling>> /\ phase = "metadata" /\ phase' = "write trees"
      BY <2>1, <2>3, Zenon DEF WriteMetadata
    <3>. QED  BY <1>8, <3>1
  <2>4. CASE TruncateData
    <3>1. UNCHANGED <<plan, filling>> /\ phase = "data" /\ phase' = "register nodes"
      BY <2>1, <2>4, Zenon DEF TruncateData
    <3>. QED  BY <1>8, <3>1
  <2>5. CASE Truncate
    <3>1. UNCHANGED <<plan, filling>> /\ phase = "truncate" /\ phase' = "done"
      BY <2>5, Zenon DEF Truncate, Step
    <3>. QED  BY <1>8, <3>1
  <2>. QED  BY <1>9, <2>2, <2>3, <2>4, <2>5
<1>10. ASSUME NEW k, NEW from, NEW to, WriteTrees(k, from, to) \/ WriteNodes(k, from, to)
       PROVE  UNCHANGED <<plan, filling>> /\ phase = from /\ phase' = to
  BY <1>10, Zenon DEF WriteTrees, WriteNodes, Step
<1>11. ASSUME \/ WriteTrees("write", "write trees", "read trees")
              \/ WriteTrees("read", "read trees", "register trees")
              \/ WriteTrees("register", "register trees", "data")
              \/ WriteNodes("register", "register nodes", "write nodes")
              \/ WriteNodes("write", "write nodes", "read nodes")
              \/ WriteNodes("read", "read nodes", "truncate")
       PROVE  FillInv'
  <2>1. CASE WriteTrees("write", "write trees", "read trees")
    <3>1. UNCHANGED <<plan, filling>> /\ phase = "write trees" /\ phase' = "read trees"
      BY <1>10, <2>1, Zenon
    <3>. QED  BY <1>8, <3>1
  <2>2. CASE WriteTrees("read", "read trees", "register trees")
    <3>1. UNCHANGED <<plan, filling>> /\ phase = "read trees" /\ phase' = "register trees"
      BY <1>10, <2>2, Zenon
    <3>. QED  BY <1>8, <3>1
  <2>3. CASE WriteTrees("register", "register trees", "data")
    <3>1. UNCHANGED <<plan, filling>> /\ phase = "register trees" /\ phase' = "data"
      BY <1>10, <2>3, Zenon
    <3>. QED  BY <1>8, <3>1
  <2>4. CASE WriteNodes("register", "register nodes", "write nodes")
    <3>1. UNCHANGED <<plan, filling>> /\ phase = "register nodes" /\ phase' = "write nodes"
      BY <1>10, <2>4, Zenon
    <3>. QED  BY <1>8, <3>1
  <2>5. CASE WriteNodes("write", "write nodes", "read nodes")
    <3>1. UNCHANGED <<plan, filling>> /\ phase = "write nodes" /\ phase' = "read nodes"
      BY <1>10, <2>5, Zenon
    <3>. QED  BY <1>8, <3>1
  <2>6. CASE WriteNodes("read", "read nodes", "truncate")
    <3>1. UNCHANGED <<plan, filling>> /\ phase = "read nodes" /\ phase' = "truncate"
      BY <1>10, <2>6, Zenon
    <3>. QED  BY <1>8, <3>1
  <2>. QED  BY <1>11, <2>1, <2>2, <2>3, <2>4, <2>5, <2>6
<1>12. ASSUME MainStep
       PROVE  FillInv'
  BY <1>2, <1>3, <1>5, <1>6, <1>9, <1>11, <1>12 DEF MainStep
<1>. QED  BY <1>1, <1>4, <1>7, <1>12 DEF Next

\* A task that fits.
LEMMA FillInvImplies == FillInv => TasksFitTheirSlots
<1> SUFFICES ASSUME FillInv, NEW task \in tasks
             PROVE  LET view == PartitionView(layout, task.tree, room[task.tree], task.part)
                    IN  /\ Len(task.leaves) = room[task.tree][task.part]
                        /\ DOMAIN file \cap view.start..(view.end - 1) = {}
                        /\ \A other \in tasks :
                             other.tree = task.tree /\ other.part = task.part => other = task
  BY Zenon DEF TasksFitTheirSlots
<1>1. /\ Counted(task.tree) /\ task.part \in Part /\ Len(task.leaves) = room[task.tree][task.part]
      /\ \A other \in tasks : other.tree = task.tree /\ other.part = task.part => other = task
  BY DEF FillInv, Handed
<1>2. DOMAIN file \cap Places(ViewOf(task.tree, task.part)) = {}
  BY <1>1 DEF FillInv, Unwritten, Awaited
<1>. QED  BY <1>1, <1>2 DEF Places, ViewOf

\* However the workers are scheduled, and whatever the trace is, each task has
\* exactly the leaves its part of the file has room for, and no one has written
\* there before it (fill.rs:160-173, copy_from_slice).
THEOREM TasksFit == Spec => []TasksFitTheirSlots
<1>. QED  BY FillInvInit, FillInvNext, FillInvImplies, PTL DEF Spec

\* Whatever the trace is, everything that is written has a place of its own in
\* the file, aligned for its type, so storage_disjoint_views does not panic
\* (layout.rs:189-203, 268-294).
THEOREM ViewsCanBeTaken == Spec => []Apart
<1>1. FillInv => Apart
  BY PlannedApart DEF FillInv
<1>. QED  BY FillInvInit, FillInvNext, <1>1, PTL DEF Spec

-----------------------------------------------------------------------------
(* Sets that are listed, and sorted *)

\* A function from the numbers up to n that has every member of S once.
Lists(g, n, S) ==
  /\ g \in [1..n -> S]
  /\ \A i, j \in 1..n : g[i] = g[j] => i = j
  /\ \A x \in S : \E i \in 1..n : g[i] = x

\* One list after another.
Joined(g, n, h, m) == [i \in 1..(n + m) |-> IF i <= n THEN g[i] ELSE h[i - n]]

\* Two lists of different things are one list of both.
LEMMA ListsJoin ==
  ASSUME NEW n \in Nat, NEW m \in Nat, NEW S, NEW T, S \cap T = {},
         NEW g, Lists(g, n, S), NEW h, Lists(h, m, T)
  PROVE  Lists(Joined(g, n, h, m), n + m, S \cup T)
<1> DEFINE f == Joined(g, n, h, m)
<1>1. \A i \in 1..(n + m) : \/ i \in 1..n /\ f[i] = g[i] /\ f[i] \in S
                            \/ i - n \in 1..m /\ f[i] = h[i - n] /\ f[i] \in T /\ i \notin 1..n
  <2> TAKE i \in 1..(n + m)
  <2>1. f[i] = IF i <= n THEN g[i] ELSE h[i - n]
    BY DEF Joined
  <2>2. (i <= n => i \in 1..n) /\ (~(i <= n) => i - n \in 1..m /\ i \notin 1..n)
    OBVIOUS
  <2> HIDE DEF f
  <2>. QED  BY <2>1, <2>2 DEF Lists
<1>2. f \in [1..(n + m) -> S \cup T]
  <2>1. f = [i \in 1..(n + m) |-> f[i]]
    BY DEF Joined
  <2> HIDE DEF f
  <2>. QED  BY <1>1, <2>1
<1>3. ASSUME NEW i \in 1..(n + m), NEW j \in 1..(n + m), f[i] = f[j]
      PROVE  i = j
  <2> HIDE DEF f
  <2>1. CASE i \in 1..n
    <3>1. f[i] \in S /\ f[i] = g[i]
      BY <1>1, <2>1
    <3>2. f[j] \notin T
      BY <1>3, <3>1
    <3>3. j \in 1..n /\ f[j] = g[j]
      BY <1>1, <3>2
    <3>. QED  BY <1>3, <2>1, <3>1, <3>3 DEF Lists
  <2>2. CASE i \notin 1..n
    <3>1. i - n \in 1..m /\ f[i] = h[i - n] /\ f[i] \in T
      BY <1>1, <2>2
    <3>2. f[j] \notin S
      BY <1>3, <3>1
    <3>3. j - n \in 1..m /\ f[j] = h[j - n]
      BY <1>1, <3>2
    <3>4. i - n = j - n
      BY <1>3, <3>1, <3>3 DEF Lists
    <3>. QED  BY <3>4
  <2>. QED  BY <2>1, <2>2
<1>4. ASSUME NEW x \in S \cup T
      PROVE  \E i \in 1..(n + m) : f[i] = x
  <2>1. CASE x \in S
    <3>1. PICK i \in 1..n : g[i] = x
      BY <2>1 DEF Lists
    <3>2. i \in 1..(n + m) /\ i <= n
      OBVIOUS
    <3>3. f[i] = x
      BY <3>1, <3>2 DEF Joined
    <3>. QED  BY <3>2, <3>3
  <2>2. CASE x \in T
    <3>1. PICK i \in 1..m : h[i] = x
      BY <2>2 DEF Lists
    <3>2. n + i \in 1..(n + m) /\ ~(n + i <= n) /\ (n + i) - n = i
      OBVIOUS
    <3>3. f[n + i] = x
      BY <3>1, <3>2 DEF Joined
    <3>. QED  BY <3>2, <3>3
  <2>. QED  BY <2>1, <2>2
<1> HIDE DEF f
<1>5. Lists(f, n + m, S \cup T)
  BY <1>2, <1>3, <1>4 DEF Lists
<1>. QED  BY <1>5 DEF f

\* A list that is permuted has the same members.
LEMMA ListsThrough ==
  ASSUME NEW n \in Nat, NEW S, NEW g, Lists(g, n, S), NEW s, Lists(s, n, 1..n)
  PROVE  Lists([i \in 1..n |-> g[s[i]]], n, S)
<1> DEFINE f == [i \in 1..n |-> g[s[i]]]
<1>1. \A i \in 1..n : s[i] \in 1..n /\ f[i] = g[s[i]]
  BY DEF Lists
<1>2. f \in [1..n -> S]
  BY <1>1 DEF Lists
<1> HIDE DEF f
<1>3. \A i, j \in 1..n : f[i] = f[j] => i = j
  BY <1>1 DEF Lists
<1>4. ASSUME NEW x \in S
      PROVE  \E i \in 1..n : f[i] = x
  <2>1. PICK j \in 1..n : g[j] = x
    BY DEF Lists
  <2>2. PICK i \in 1..n : s[i] = j
    BY DEF Lists
  <2>. QED  BY <1>1, <2>1, <2>2
<1>5. Lists(f, n, S)
  BY <1>2, <1>3, <1>4 DEF Lists
<1>. QED  BY <1>5 DEF f

\* A list has as many places for some of its members as there are of them.
LEMMA ListsCount ==
  ASSUME NEW n \in Nat, NEW S, NEW g, Lists(g, n, S), NEW A \in SUBSET S
  PROVE  Cardinality({i \in 1..n : g[i] \in A}) = Cardinality(A)
<1> DEFINE D == {i \in 1..n : g[i] \in A}
           h == [i \in D |-> g[i]]
<1>1. IsFiniteSet(D)
  <2>1. IsFiniteSet(1..n) /\ D \subseteq 1..n
    BY FS_Interval
  <2> HIDE DEF D
  <2>. QED  BY <2>1, FS_Subset
<1>2. h \in [D -> A]
  OBVIOUS
<1>3. \A i, j \in D : h[i] = h[j] => i = j
  BY DEF Lists
<1>4. \A x \in A : \E i \in D : h[i] = x
  <2> TAKE x \in A
  <2>1. PICK i \in 1..n : g[i] = x
    BY DEF Lists
  <2>2. i \in D /\ h[i] = x
    BY <2>1
  <2>. QED  BY <2>2
<1> HIDE DEF D, h
<1>5. h \in Bijection(D, A)
  BY <1>2, <1>3, <1>4 DEF Bijection, Injection, Surjection, IsInjective
<1>6. ExistsBijection(D, A)
  BY <1>5 DEF ExistsBijection
<1>7. Cardinality(A) = Cardinality(D)
  BY <1>1, <1>6, FS_Bijection
<1>. QED  BY <1>7 DEF D

\* The places that a stable sort puts before one, and where it takes the i-th from.
Precedes(key, j, i) == key[j] < key[i] \/ (key[j] = key[i] /\ j < i)
Preceding(key, n, i) == {j \in 1..n : Precedes(key, j, i)}
Source(key, n) == [i \in 1..n |-> CHOOSE j \in 1..n : Cardinality(Preceding(key, n, j)) = i - 1]

\* A stable sort takes every place once, the smallest keys first.
LEMMA SourcesAre ==
  ASSUME NEW n \in Nat, NEW key, \A i \in 1..n : key[i] \in Nat
  PROVE  /\ Lists(Source(key, n), n, 1..n)
         /\ \A i, j \in 1..n : i < j => key[Source(key, n)[i]] <= key[Source(key, n)[j]]
<1> DEFINE D == 1..n
           R == 0..(n - 1)
           set(i) == Preceding(key, n, i)
           rank == [i \in D |-> Cardinality(set(i))]
           s == Source(key, n)
<1>1. IsFiniteSet(D) /\ Cardinality(D) = n /\ IsFiniteSet(R) /\ Cardinality(R) = n
  BY FS_Interval
<1>2. ASSUME NEW i \in D
      PROVE  /\ set(i) \subseteq D /\ i \notin set(i) /\ IsFiniteSet(set(i)) /\ Cardinality(set(i)) \in R
  <2>1. set(i) \subseteq D
    BY DEF Preceding
  <2>2. i \notin set(i)
    BY DEF Preceding, Precedes
  <2> DEFINE A == set(i)
  <2> HIDE DEF D, A
  <2>3. IsFiniteSet(A) /\ A \subseteq D /\ i \in D /\ i \notin A
    BY <1>1, <2>1, <2>2, FS_Subset DEF A
  <2>4. Cardinality(A \cup {i}) = Cardinality(A) + 1 /\ Cardinality(A) \in Nat /\ IsFiniteSet(A \cup {i})
    BY <2>3, FS_AddElement, FS_CardinalityType
  <2>5. A \cup {i} \subseteq D
    BY <2>3
  <2>6. Cardinality(A \cup {i}) <= Cardinality(D)
    BY <1>1, <2>5, FS_Subset
  <2>. QED  BY <1>1, <2>3, <2>4, <2>6 DEF A
<1>3. ASSUME NEW i \in D, NEW j \in D, Precedes(key, i, j)
      PROVE  Cardinality(set(i)) < Cardinality(set(j))
  <2>1. \A k \in D : Precedes(key, k, i) => Precedes(key, k, j)
    BY <1>3 DEF Precedes
  <2>2. set(i) \subseteq set(j) /\ i \in set(j) /\ i \notin set(i)
    BY <1>2, <1>3, <2>1 DEF Preceding
  <2> DEFINE A == set(i)
             B == set(j)
  <2>3. IsFiniteSet(A) /\ IsFiniteSet(B)
    BY <1>2
  <2> HIDE DEF A, B
  <2>4. A \subseteq B /\ A # B
    BY <2>2 DEF A, B
  <2>5. Cardinality(A) <= Cardinality(B) /\ Cardinality(A) # Cardinality(B)
    BY <2>3, <2>4, FS_Subset
  <2>6. Cardinality(A) \in Nat /\ Cardinality(B) \in Nat
    BY <2>3, FS_CardinalityType
  <2>. QED  BY <2>5, <2>6 DEF A, B
<1>4. \A i, j \in D : i = j \/ Precedes(key, i, j) \/ Precedes(key, j, i)
  BY DEF Precedes
<1>5. rank \in [D -> R] /\ \A i \in D : rank[i] = Cardinality(set(i)) /\ rank[i] \in R
  <2> HIDE DEF set, R
  <2>. QED  BY <1>2
<1> HIDE DEF rank, set
<1>6. \A i, j \in D : Precedes(key, i, j) => rank[i] < rank[j]
  BY <1>3, <1>5
<1>7. \A i, j \in D : rank[i] = rank[j] => i = j
  <2> TAKE i, j \in D
  <2>1. rank[i] \in Nat /\ rank[j] \in Nat
    BY <1>5
  <2>. QED  BY <1>4, <1>6, <2>1
<1>8. \A x \in R : \E i \in D : rank[i] = x
  <2> HIDE DEF D, R
  <2>1. rank \in Injection(D, R)
    BY <1>5, <1>7 DEF Injection, IsInjective
  <2>2. rank \in Surjection(D, R)
    BY <1>1, <2>1, FS_Injection
  <2>. QED  BY <2>2 DEF Surjection
<1>9. \A i \in D : s[i] \in D /\ rank[s[i]] = i - 1
  <2> TAKE i \in D
  <2>1. i - 1 \in R
    OBVIOUS
  <2>2. \E j \in D : Cardinality(set(j)) = i - 1
    <3>1. PICK j \in D : rank[j] = i - 1
      BY <1>8, <2>1
    <3>. QED  BY <1>5, <3>1
  <2>3. s[i] = CHOOSE j \in D : Cardinality(set(j)) = i - 1
    BY Zenon DEF Source, set
  <2> HIDE DEF s, D
  <2>4. s[i] \in D /\ Cardinality(set(s[i])) = i - 1
    BY <2>2, <2>3
  <2>. QED  BY <1>5, <2>4
<1>10. s \in [D -> D]
  <2>1. s = [i \in D |-> s[i]]
    BY DEF Source
  <2> HIDE DEF s
  <2>. QED  BY <1>9, <2>1
<1> HIDE DEF s
<1>11. \A i, j \in D : s[i] = s[j] => i = j
  <2> TAKE i, j \in D
  <2> HAVE s[i] = s[j]
  <2>1. i - 1 = j - 1
    BY <1>9
  <2>. QED  BY <2>1
<1>12. \A x \in D : \E i \in D : s[i] = x
  <2> TAKE x \in D
  <2>1. rank[x] \in R
    BY <1>5
  <2>2. rank[x] + 1 \in D /\ (rank[x] + 1) - 1 = rank[x]
    BY <2>1
  <2>3. s[rank[x] + 1] = x
    BY <1>7, <1>9, <2>2
  <2>. QED  BY <2>2, <2>3
<1>13. \A i, j \in D : i < j => key[s[i]] <= key[s[j]]
  <2> TAKE i, j \in D
  <2> HAVE i < j
  <2>1. s[i] \in D /\ s[j] \in D /\ rank[s[i]] = i - 1 /\ rank[s[j]] = j - 1
    BY <1>9
  <2>2. ~Precedes(key, s[j], s[i])
    <3>1. ~(rank[s[j]] < rank[s[i]])
      BY <2>1
    <3>. QED  BY <1>6, <2>1, <3>1
  <2>3. key[s[i]] \in Nat /\ key[s[j]] \in Nat
    BY <2>1
  <2>. QED  BY <2>2, <2>3 DEF Precedes
<1>. QED  BY <1>10, <1>11, <1>12, <1>13 DEF s, Lists

\* The key by which a leaf of a tree is sorted.
KeyOf(t, i) == HilbertKey(trace[i].node, BboxOf(trace, t))
Ascending(g, n, t) == \A i, j \in 1..n : i < j => KeyOf(t, g[i]) <= KeyOf(t, g[j])

\* The items of a sequence have the rectangles of some leaves.
HoldsAt(s, g, n) == \A i \in 1..n : s[i].node = trace[g[i]].node
Holds(s, S) == IsSeq(s) /\ \E g : Lists(g, Len(s), S) /\ HoldsAt(s, g, Len(s))

\* A leaf is a rectangle, and has a place on the curve of its tree.
LEMMA KeyIs ==
  ASSUME trace \in Traces, NEW t, NEW i \in LeavesOf(trace, t)
  PROVE  /\ trace[i].node \in Node /\ BboxOf(trace, t) \in Node
         /\ KeyOf(t, i) \in Nat
         /\ PartOf(trace, trace[i]) = HilbertPartitionKey(trace[i].node, BboxOf(trace, t))
<1> DEFINE nodes == {trace[j].node : j \in LeavesOf(trace, t)}
<1>1. DOMAIN trace = 1..Len(trace)
  BY TracesAssumption
<1>2. \A j \in LeavesOf(trace, t) : j \in 1..Len(trace) /\ trace[j].of = "leaf" /\ trace[j].tree = t
  BY <1>1 DEF LeavesOf
<1>3. \A j \in LeavesOf(trace, t) : trace[j].node \in Node
  BY <1>2, LeafIs
<1>4. nodes \in SUBSET Node /\ nodes # {}
  BY <1>3
<1>5. Bbox(nodes) \in Node
  <2> HIDE DEF nodes
  <2>. QED  BY <1>4, BboxIs DEF IsBbox
<1>6. BboxOf(trace, t) \in Node
  BY <1>5, Zenon DEF BboxOf
<1>7. KeyOf(t, i) \in Nat
  BY <1>3, <1>6, PartitionBegins DEF KeyOf
<1>8. PartOf(trace, trace[i]) = HilbertPartitionKey(trace[i].node, BboxOf(trace, t))
  BY <1>2, Zenon DEF PartOf
<1>. QED  BY <1>3, <1>6, <1>7, <1>8

\* What a task writes are its leaves in the order of their keys.
LEMMA SortedIs ==
  ASSUME trace \in Traces, NEW task, NEW S \in SUBSET LeavesOf(trace, task.tree),
         Holds(task.leaves, S)
  PROVE  LET n == Len(task.leaves)
         IN  /\ n \in Nat /\ DOMAIN Sorted(task) = 1..n
             /\ \E g : Lists(g, n, S) /\ Ascending(g, n, task.tree) /\ HoldsAt(Sorted(task), g, n)
             /\ \A i \in 1..n : \E a \in DOMAIN task.leaves : Sorted(task)[i] = task.leaves[a]
<1> DEFINE leaves == task.leaves
           n == Len(leaves)
           t == task.tree
           bbox == BboxOf(trace, t)
           key == [i \in 1..n |-> HilbertKey(leaves[i].node, bbox)]
           s == Source(key, n)
<1>1. n \in Nat /\ DOMAIN leaves = 1..n
  BY AppendedIs DEF Holds
<1>2. PICK h : Lists(h, n, S) /\ HoldsAt(leaves, h, n)
  BY DEF Holds
<1>3. Sorted(task) = [i \in 1..n |-> leaves[s[i]]]
  <2> DEFINE D == DOMAIN leaves
             k1 == [i \in D |-> HilbertKey(leaves[i].node, bbox)]
             before(i) == {j \in D : k1[j] < k1[i] \/ (k1[j] = k1[i] /\ j < i)}
  <2>1. Sorted(task) = [i \in D |-> leaves[CHOOSE j \in D : Cardinality(before(j)) = i - 1]]
    BY Zenon DEF Sorted
  <2>2. D = 1..n
    BY <1>1
  <2>3. k1 = key
    BY <2>2
  <2>4. \A i : before(i) = Preceding(key, n, i)
    <3> HIDE DEF D, key, k1
    <3>. QED  BY <2>2, <2>3 DEF Preceding, Precedes
  <2> HIDE DEF D, before
  <2>5. \A i \in 1..n : s[i] = CHOOSE j \in 1..n : Cardinality(before(j)) = i - 1
    <3> HIDE DEF key
    <3>. QED  BY <2>4 DEF Source
  <2> HIDE DEF s, n
  <2> DEFINE at(i) == CHOOSE j \in 1..n : Cardinality(before(j)) = i - 1
  <2>6. Sorted(task) = [i \in 1..n |-> leaves[at(i)]]
    BY <2>1, <2>2, Zenon
  <2>7. \A i \in 1..n : s[i] = at(i)
    BY <2>5, Zenon
  <2> HIDE DEF at
  <2>. QED  BY <2>6, <2>7
<1>4. \A i \in 1..n : h[i] \in LeavesOf(trace, t) /\ key[i] = KeyOf(t, h[i]) /\ key[i] \in Nat
  <2> TAKE i \in 1..n
  <2>1. h[i] \in LeavesOf(trace, t) /\ leaves[i].node = trace[h[i]].node
    BY <1>2 DEF Lists, HoldsAt
  <2>2. key[i] = HilbertKey(leaves[i].node, bbox)
    OBVIOUS
  <2>3. key[i] = KeyOf(t, h[i])
    BY <2>1, <2>2 DEF KeyOf
  <2> HIDE DEF key
  <2>. QED  BY <2>1, <2>3, KeyIs
<1> DEFINE g == [i \in 1..n |-> h[s[i]]]
<1> HIDE DEF key, t
<1>5. Lists(s, n, 1..n) /\ \A i, j \in 1..n : i < j => key[s[i]] <= key[s[j]]
  BY <1>1, <1>4, SourcesAre
<1>6. \A i \in 1..n : s[i] \in 1..n
  BY <1>5 DEF Lists
<1> HIDE DEF s, n
<1>7. Lists(g, n, S)
  BY <1>1, <1>2, <1>5, ListsThrough DEF n
<1>8. \A i \in 1..n : g[i] = h[s[i]] /\ KeyOf(t, g[i]) = key[s[i]]
  BY <1>4, <1>6
<1>9. Ascending(g, n, t)
  BY <1>5, <1>8 DEF Ascending
<1>10. HoldsAt(Sorted(task), g, n)
  <2>1. \A i \in 1..n : Sorted(task)[i] = leaves[s[i]]
    BY <1>3
  <2>2. \A i \in 1..n : leaves[s[i]].node = trace[h[s[i]]].node
    BY <1>2, <1>6 DEF HoldsAt
  <2>. QED  BY <1>8, <2>1, <2>2 DEF HoldsAt
<1>11. DOMAIN Sorted(task) = 1..n
  BY <1>3
<1>12. \A i \in 1..n : \E a \in DOMAIN leaves : Sorted(task)[i] = leaves[a]
  <2>1. DOMAIN leaves = 1..n
    BY <1>1 DEF n
  <2> HIDE DEF leaves
  <2>. QED  BY <1>3, <1>6, <2>1
<1>. QED  BY <1>1, <1>7, <1>9, <1>10, <1>11, <1>12 DEF t, n

\* A sequence with one more item keeps the others.
LEMMA AppendAt ==
  ASSUME NEW s, IsSeq(s), NEW e
  PROVE  /\ \A i \in 1..Len(s) : Append(s, e)[i] = s[i]
         /\ Append(s, e)[Len(s) + 1] = e
<1>1. PICK S : s \in Seq(S)
  BY DEF IsSeq
<1> DEFINE T == S \cup {e}
<1>2. s \in Seq(T)
  <2>1. S \subseteq T
    OBVIOUS
  <2> HIDE DEF T
  <2>. QED  BY <1>1, <2>1, WiderSeq
<1>3. e \in T
  OBVIOUS
<1> HIDE DEF T
<1>. QED  BY <1>2, <1>3

\* One more leaf.
LEMMA HoldsMore ==
  ASSUME NEW s, NEW S, Holds(s, S), NEW x, x \notin S, NEW e, e.node = trace[x].node
  PROVE  Holds(Append(s, e), S \cup {x})
<1> DEFINE n == Len(s)
           more == Append(s, e)
           one == [i \in 1..1 |-> x]
<1>1. /\ IsSeq(more) /\ n \in Nat /\ Len(more) = n + 1 /\ DOMAIN s = 1..n
  BY AppendedIs DEF Holds
<1>2. PICK g : Lists(g, n, S) /\ HoldsAt(s, g, n)
  BY DEF Holds
<1>3. Lists(one, 1, {x})
  BY DEF Lists
<1> DEFINE f == Joined(g, n, one, 1)
<1>4. Lists(f, n + 1, S \cup {x})
  <2> HIDE DEF one, f
  <2>. QED  BY <1>1, <1>2, <1>3, ListsJoin DEF f
<1>5. HoldsAt(more, f, n + 1)
  <2>1. ASSUME NEW i \in 1..(n + 1)
        PROVE  more[i].node = trace[f[i]].node
    <3>1. CASE i <= n
      <4>1. i \in 1..n /\ f[i] = g[i]
        BY <1>1, <3>1 DEF Joined
      <4>2. more[i] = s[i]
        BY <4>1, AppendAt DEF Holds
      <4>. QED  BY <1>2, <4>1, <4>2 DEF HoldsAt
    <3>2. CASE ~(i <= n)
      <4>1. i = n + 1
        BY <1>1, <3>2
      <4>2. f[i] = x
        BY <1>1, <3>2, <4>1 DEF Joined
      <4>3. more[i] = e
        BY <4>1, AppendAt DEF Holds
      <4>. QED  BY <4>2, <4>3
    <3>. QED  BY <3>1, <3>2
  <2>. QED  BY <2>1 DEF HoldsAt
<1>. QED  BY <1>1, <1>4, <1>5 DEF Holds

-----------------------------------------------------------------------------
(* The leaves in the file *)

\* Places in the file where no leaf is.
Elsewhere(D) ==
  /\ D \subseteq 0..(layout.size - 1)
  /\ \A t, p : Counted(t) /\ p \in Part => D \cap Places(ViewOf(t, p)) = {}

\* A leaf of a view is in the section of its tree.
LEMMA LeavesPlaced ==
  ASSUME Planned, NEW t, Counted(t), NEW p \in Part
  PROVE  /\ LeavesRequest(scout, t) \in Wanted(scout)
         /\ InSection(ViewOf(t, p), LeavesRequest(scout, t))
<1>1. LeavesRequest(scout, t) \in Wanted(scout)
  BY TreeWants
<1>. QED  BY <1>1, Zenon DEF InSection

\* What is written into the section of something else is elsewhere.
LEMMA WholeElsewhere ==
  ASSUME Planned, NEW r \in Wanted(scout), r.name[1] # "leaves"
  PROVE  Elsewhere(layout.at[r.name].start..(layout.at[r.name].end - 1))
<1> DEFINE w == WholeView(r)
           s == layout.at[r.name]
<1>1. InSection(w, r) /\ w.start = s.start /\ w.end = s.end
  BY DEF InSection, WholeView, SectionView, View
<1>2. s.start \in Nat /\ s.end \in Nat /\ s.end <= layout.size /\ layout.size \in Nat
  BY <1>1, InSectionIs
<1>3. ASSUME NEW t, NEW p, Counted(t), p \in Part
      PROVE  (s.start..(s.end - 1)) \cap Places(ViewOf(t, p)) = {}
  <2> DEFINE v == ViewOf(t, p)
             q == LeavesRequest(scout, t)
  <2>1. q \in Wanted(scout) /\ InSection(v, q)
    BY <1>3, LeavesPlaced
  <2>2. v.start \in Nat /\ v.end \in Nat
    BY <1>3, ViewIs
  <2>3. v # w
    <3>1. v.of = <<"leaves", t, p>>
      BY <1>3, ViewIs
    <3>2. w.of = r.name
      BY DEF WholeView, SectionView, View
    <3> HIDE DEF v, w
    <3>. QED  BY <3>1, <3>2
  <2> HIDE DEF v, w, q, s
  <2>4. v.end <= w.start \/ w.end <= v.start
    BY <1>1, <2>1, <2>3, InSectionsApart
  <2>5. (s.start..(s.end - 1)) \cap (v.start..(v.end - 1)) = {}
    BY <1>1, <1>2, <2>2, <2>4
  <2>. QED  BY <2>5 DEF Places, v
<1>4. s.start..(s.end - 1) \subseteq 0..(layout.size - 1)
  <2> HIDE DEF s
  <2>. QED  BY <1>2
<1> HIDE DEF s
<1>5. Elsewhere(s.start..(s.end - 1))
  BY <1>3, <1>4 DEF Elsewhere
<1>. QED  BY <1>5 DEF s

\* So is the header.
LEMMA HeaderElsewhere ==
  ASSUME Planned
  PROVE  Size["header"] \in Nat /\ Elsewhere(0..(Size["header"] - 1))
<1> DEFINE r == MetadataRequest(scout)
           w == WholeView(r)
           h == Size["header"]
           z == layout.size
<1>1. r \in Wanted(scout) /\ r.name[1] # "leaves"
  <2>1. r.name = <<"metadata">>
    BY DEF MetadataRequest, Request
  <2> HIDE DEF r
  <2>. QED  BY <2>1, TreeWants DEF r
<1>2. InSection(w, r)
  BY <1>1 DEF InSection
<1>3. h \in Nat /\ h <= w.start
  BY <1>1, <1>2, BehindHeader
<1>4. w.start \in Nat /\ z \in Nat /\ h <= z
  <2> DEFINE s == layout.at[r.name]
  <2>1. /\ s.start \in Nat /\ s.end \in Nat /\ s.end <= z /\ z \in Nat
        /\ h \in Nat /\ h <= s.start /\ w.start \in Nat /\ w.end \in Nat
        /\ s.start <= w.start /\ w.end <= s.end
    BY <1>1, <1>2, InSectionIs
  <2>2. s.start <= s.end
    BY <1>1, TreeWants, SectionsAre
  <2> HIDE DEF s, h, z, w
  <2>. QED  BY <2>1, <2>2
<1>5. ASSUME NEW t, NEW p, Counted(t), p \in Part
      PROVE  (0..(h - 1)) \cap Places(ViewOf(t, p)) = {}
  <2> DEFINE v == ViewOf(t, p)
             q == LeavesRequest(scout, t)
  <2>1. q \in Wanted(scout) /\ InSection(v, q)
    BY <1>5, LeavesPlaced
  <2>2. v.start \in Nat /\ v.end \in Nat
    BY <1>5, ViewIs
  <2> HIDE DEF v, q
  <2>3. h <= v.start
    BY <2>1, BehindHeader
  <2> HIDE DEF h
  <2>4. (0..(h - 1)) \cap (v.start..(v.end - 1)) = {}
    BY <1>3, <2>2, <2>3
  <2>. QED  BY <2>4 DEF Places, v
<1>6. 0..(h - 1) \subseteq 0..(z - 1)
  <2> HIDE DEF h, z
  <2>. QED  BY <1>3, <1>4
<1> HIDE DEF h, z
<1>7. Elsewhere(0..(h - 1))
  BY <1>5, <1>6 DEF Elsewhere, z
<1>. QED  BY <1>3, <1>7 DEF h

\* Items that fit into such a section are elsewhere.
LEMMA ItemsElsewhere ==
  ASSUME Planned, NEW r \in Wanted(scout), r.name[1] # "leaves",
         NEW items, NEW n \in Nat, DOMAIN items = 1..n, n <= r.count
  PROVE  Elsewhere(DOMAIN ItemsAt(layout.at[r.name].start, r.type, items))
<1> DEFINE s == layout.at[r.name]
           a == s.start
           w == Size[r.type]
           m == r.count
           D == DOMAIN ItemsAt(a, r.type, items)
<1>1. r.type \in Type /\ m \in Nat
  BY TreeWants, WantedTyped
<1>2. w \in Nat /\ w > 0
  BY <1>1, SizeIs
<1>3. a \in Nat /\ s.end = a + m * w
  BY TreeWants, SectionsAre
<1>4. D \subseteq a..(a + n * w - 1)
  <2> HIDE DEF s
  <2>. QED  BY <1>1, <1>3, StoredIn
<1> DEFINE nw == n * w
           mw == m * w
<1>5. nw \in Nat /\ mw \in Nat /\ nw <= mw
  <2>1. n <= m
    OBVIOUS
  <2> HIDE DEF m, w
  <2>. QED  BY <1>1, <1>2, <2>1
<1>6. D \subseteq a..(a + nw - 1) /\ s.end = a + mw
  BY <1>3, <1>4
<1> HIDE DEF nw, mw, D, w, m, a
<1>7. D \subseteq a..(s.end - 1)
  BY <1>3, <1>5, <1>6
<1>8. Elsewhere(a..(s.end - 1))
  BY WholeElsewhere DEF a
<1>9. Elsewhere(D)
  BY <1>7, <1>8 DEF Elsewhere
<1>. QED  BY <1>9 DEF D, a

\* The place of a leaf of a partition.
SlotOf(t, p, i) == ViewOf(t, p).start + (i - 1) * Size[t[1]]

\* It is inside its view, and in the file.
LEMMA SlotIs ==
  ASSUME Planned, NEW t, Counted(t), NEW p \in Part
  PROVE  /\ \A i \in 1..room[t][p] : SlotOf(t, p, i) \in Places(ViewOf(t, p))
         /\ Places(ViewOf(t, p)) \subseteq 0..(layout.size - 1)
<1> DEFINE v == ViewOf(t, p)
           n == room[t][p]
           w == Size[t[1]]
<1>1. /\ v.start \in Nat /\ v.end \in Nat /\ w \in Nat /\ w > 0 /\ v.end = v.start + n * w /\ n \in Nat
  BY ViewIs
<1>2. ASSUME NEW i \in 1..n
      PROVE  SlotOf(t, p, i) \in Places(v)
  <2> DEFINE a == (i - 1) * w
             b == n * w
  <2>1. i \in Nat /\ i - 1 \in Nat /\ i <= n
    BY <1>1
  <2>2. a \in Nat /\ b \in Nat /\ a + w <= b
    <3> HIDE DEF w, n
    <3>1. a + w = i * w
      BY <1>1, <2>1
    <3>2. i * w <= b
      BY <1>1, <2>1
    <3>3. a \in Nat /\ b \in Nat
      BY <1>1, <2>1
    <3>. QED  BY <3>1, <3>2, <3>3
  <2>3. SlotOf(t, p, i) = v.start + a /\ v.end = v.start + b
    BY <1>1 DEF SlotOf
  <2> HIDE DEF a, b, v, w
  <2>. QED  BY <1>1, <2>2, <2>3 DEF Places
<1>3. Places(v) \subseteq 0..(layout.size - 1)
  <2> DEFINE r == LeavesRequest(scout, t)
             s == layout.at[r.name]
             z == layout.size
  <2>1. s.end \in Nat /\ s.end <= z /\ z \in Nat /\ v.end <= s.end
    <3> HIDE DEF r, v, s, z
    <3>1. r \in Wanted(scout) /\ InSection(v, r)
      BY LeavesPlaced DEF r, v
    <3>. QED  BY <3>1, InSectionIs DEF s, z
  <2> HIDE DEF s, z, v
  <2>2. v.start..(v.end - 1) \subseteq 0..(z - 1)
    BY <1>1, <2>1
  <2>. QED  BY <2>2 DEF Places, z
<1>. QED  BY <1>2, <1>3 DEF v, n

\* A partition that has been written has its leaves, in order.
FileHolds(t, p) ==
  \E g : /\ Lists(g, room[t][p], LeavesIn(trace, t, p)) /\ Ascending(g, room[t][p], t)
         /\ \A i \in 1..room[t][p] :
              SlotOf(t, p, i) \in DOMAIN file /\ file[SlotOf(t, p, i)].node = trace[g[i]].node

\* The place of a leaf of a tree.
PlaceOf(t, i) == layout.at[<<"leaves", t>>].start + (i - 1) * Size[t[1]]

\* The leaves of a partition come after those of the partitions before it.
LEMMA SlotPlaced ==
  ASSUME Planned, NEW t, Counted(t), NEW p \in Part
  PROVE  /\ SumTo(room[t], p) \in Nat /\ room[t][p] \in Nat
         /\ \A i \in 1..room[t][p] : PlaceOf(t, SumTo(room[t], p) + i) = SlotOf(t, p, i)
<1> DEFINE s == layout.at[<<"leaves", t>>].start
           a == SumTo(room[t], p)
           w == Size[t[1]]
           v == ViewOf(t, p).start
<1>1. s \in Nat /\ a \in Nat /\ v = s + a * w
  BY PartitionIn
<1>2. w \in Nat /\ room[t][p] \in Nat
  BY ViewIs
<1>3. ASSUME NEW i \in 1..room[t][p]
      PROVE  PlaceOf(t, a + i) = SlotOf(t, p, i)
  <2> DEFINE b == i - 1
             x == a * w
             y == b * w
  <2>1. b \in Nat /\ (a + i) - 1 = a + b
    BY <1>1, <1>2
  <2>2. (a + b) * w = x + y /\ x \in Nat /\ y \in Nat
    <3> HIDE DEF a, b, w
    <3>. QED  BY <1>1, <1>2, <2>1
  <2>3. PlaceOf(t, a + i) = s + (a + b) * w
    <3>1. PlaceOf(t, a + i) = s + ((a + i) - 1) * w
      BY DEF PlaceOf
    <3> HIDE DEF s, a, w, b
    <3>. QED  BY <2>1, <3>1
  <2>4. SlotOf(t, p, i) = v + y
    BY DEF SlotOf
  <2> HIDE DEF s, v, x, y
  <2>5. s + (x + y) = v + y
    BY <1>1, <2>2 DEF x
  <2>. QED  BY <2>2, <2>3, <2>4, <2>5
<1>. QED  BY <1>1, <1>2, <1>3

\* When every partition of a tree has been written, its leaves are in order.
LEMMA TreeWritten ==
  ASSUME Planned, NEW t, Counted(t), \A p \in Part : FileHolds(t, p)
  PROVE  /\ scout.leaves[t] \in Nat
         /\ \E g : /\ Lists(g, scout.leaves[t], LeavesOf(trace, t)) /\ Ascending(g, scout.leaves[t], t)
                   /\ \A i \in 1..scout.leaves[t] :
                        PlaceOf(t, i) \in DOMAIN file /\ file[PlaceOf(t, i)].node = trace[g[i]].node
<1> DEFINE sum(p) == SumTo(room[t], p)
           Good(g, p) ==
             /\ Lists(g, sum(p), Before(t, p)) /\ Ascending(g, sum(p), t)
             /\ \A i \in 1..sum(p) :
                  PlaceOf(t, i) \in DOMAIN file /\ file[PlaceOf(t, i)].node = trace[g[i]].node
           Have == {p \in Nat : p <= Parts => \E g : Good(g, p)}
<1>1. t \in Tree /\ trace \in Traces
  BY CountedIs DEF Planned
<1>2. /\ \A p \in 0..Parts : sum(p) \in Nat
      /\ \A p \in Part : sum(p) + room[t][p] = sum(p + 1)
      /\ sum(Parts) = scout.leaves[t] /\ sum(0) = 0
  <2>1. sum(0) = 0
    <3>1. Parts \in Nat /\ 0 \in 0..Parts
      BY PartsAre
    <3>2. sum(0) = Cardinality(Before(t, 0)) /\ Before(t, 0) = {}
      BY <1>1, <3>1, RoomsAdd, BeforeAre
    <3>. QED  BY <3>2, FS_EmptySet
  <2>. QED  BY <1>1, <2>1, RoomsAdd
<1>3. /\ Before(t, 0) = {} /\ Before(t, Parts) = LeavesOf(trace, t)
      /\ \A p \in Nat : /\ Before(t, p + 1) = Before(t, p) \cup LeavesIn(trace, t, p)
                        /\ Before(t, p) \cap LeavesIn(trace, t, p) = {}
  BY <1>1, BeforeAre
<1> HIDE DEF sum
<1>4. 0 \in Have
  <2> DEFINE g == [i \in 1..0 |-> 0]
  <2>1. 1..0 = {}
    OBVIOUS
  <2>2. Lists(g, 0, {})
    BY <2>1 DEF Lists
  <2>3. Ascending(g, 0, t)
    BY <2>1 DEF Ascending
  <2> HIDE DEF g
  <2>4. Good(g, 0)
    BY <1>2, <1>3, <2>1, <2>2, <2>3
  <2>. QED  BY <2>4
<1>5. ASSUME NEW p \in Nat, p \in Have
      PROVE  p + 1 \in Have
  <2> SUFFICES ASSUME p + 1 <= Parts
               PROVE  \E f : Good(f, p + 1)
    OBVIOUS
  <2>1. p \in 0..(Parts - 1) /\ p \in Part /\ p <= Parts /\ p \in 0..Parts
    BY PartsAre
  <2>2. PICK g : Good(g, p)
    BY <1>5, <2>1
  <2> DEFINE n == sum(p)
             m == room[t][p]
             A == Before(t, p)
             B == LeavesIn(trace, t, p)
  <2>3. PICK h : /\ Lists(h, m, B) /\ Ascending(h, m, t)
                 /\ \A i \in 1..m :
                      SlotOf(t, p, i) \in DOMAIN file /\ file[SlotOf(t, p, i)].node = trace[h[i]].node
    BY <2>1 DEF FileHolds
  <2>4. /\ n \in Nat /\ m \in Nat /\ sum(p + 1) = n + m
        /\ \A i \in 1..m : PlaceOf(t, n + i) = SlotOf(t, p, i)
    BY <1>2, <2>1, SlotPlaced DEF sum
  <2>5. A \cap B = {} /\ Before(t, p + 1) = A \cup B
    BY <1>3
  <2> DEFINE f == Joined(g, n, h, m)
  <2>6. \A x \in A, y \in B : KeyOf(t, x) <= KeyOf(t, y)
    <3> TAKE x \in A, y \in B
    <3>1. x \in LeavesOf(trace, t) /\ PartOf(trace, trace[x]) < p
      BY DEF Before
    <3>2. y \in LeavesOf(trace, t) /\ PartOf(trace, trace[y]) = p
      BY DEF LeavesIn
    <3> DEFINE box == BboxOf(trace, t)
               u == trace[x].node
               v == trace[y].node
    <3>3. /\ u \in Node /\ v \in Node /\ box \in Node
          /\ PartOf(trace, trace[x]) = HilbertPartitionKey(u, box)
          /\ PartOf(trace, trace[y]) = HilbertPartitionKey(v, box)
      BY <1>1, <3>1, <3>2, KeyIs
    <3> HIDE DEF box, u, v
    <3>4. HilbertPartitionKey(u, box) < HilbertPartitionKey(v, box)
      BY <3>1, <3>2, <3>3
    <3>5. HilbertKey(u, box) <= HilbertKey(v, box)
      BY <3>3, <3>4, EarlierPartition
    <3>. QED  BY <3>5 DEF KeyOf, u, v, box
  <2> HIDE DEF n, m, A, B
  <2>7. Lists(f, n + m, A \cup B)
    <3>1. Lists(g, n, A)
      BY <2>2 DEF n, A
    <3>. QED  BY <2>3, <2>4, <2>5, <3>1, ListsJoin
  <2>8. \A i \in 1..(n + m) : \/ i \in 1..n /\ f[i] = g[i] /\ g[i] \in A
                              \/ i \notin 1..n /\ i - n \in 1..m /\ f[i] = h[i - n] /\ h[i - n] \in B
    <3> TAKE i \in 1..(n + m)
    <3>1. f[i] = IF i <= n THEN g[i] ELSE h[i - n]
      BY DEF Joined
    <3>2. (i <= n => i \in 1..n) /\ (~(i <= n) => i - n \in 1..m /\ i \notin 1..n)
      BY <2>4
    <3>3. Lists(g, n, A)
      BY <2>2 DEF n, A
    <3> HIDE DEF f
    <3>. QED  BY <2>3, <3>1, <3>2, <3>3 DEF Lists
  <2> HIDE DEF f
  <2>9. Ascending(f, n + m, t)
    <3> SUFFICES ASSUME NEW i \in 1..(n + m), NEW j \in 1..(n + m), i < j
                 PROVE  KeyOf(t, f[i]) <= KeyOf(t, f[j])
      BY DEF Ascending
    <3>1. CASE j \in 1..n
      <4>1. i \in 1..n
        BY <2>4, <3>1
      <4>2. f[i] = g[i] /\ f[j] = g[j]
        BY <2>8, <3>1, <4>1
      <4>3. Ascending(g, n, t)
        BY <2>2 DEF n
      <4>. QED  BY <3>1, <4>1, <4>2, <4>3 DEF Ascending
    <3>2. CASE j \notin 1..n /\ i \in 1..n
      <4>1. f[i] = g[i] /\ g[i] \in A /\ f[j] = h[j - n] /\ h[j - n] \in B
        BY <2>8, <3>2
      <4>. QED  BY <2>6, <4>1
    <3>3. CASE j \notin 1..n /\ i \notin 1..n
      <4>1. /\ i - n \in 1..m /\ j - n \in 1..m /\ f[i] = h[i - n] /\ f[j] = h[j - n]
        BY <2>8, <3>3
      <4>2. i - n < j - n
        BY <2>4
      <4>. QED  BY <2>3, <4>1, <4>2 DEF Ascending
    <3>. QED  BY <3>1, <3>2, <3>3
  <2>10. ASSUME NEW i \in 1..(n + m)
         PROVE  PlaceOf(t, i) \in DOMAIN file /\ file[PlaceOf(t, i)].node = trace[f[i]].node
    <3>1. CASE i \in 1..n
      <4>1. f[i] = g[i]
        BY <2>8, <3>1
      <4>. QED  BY <2>2, <3>1, <4>1 DEF n
    <3>2. CASE i \notin 1..n
      <4>1. i - n \in 1..m /\ f[i] = h[i - n]
        BY <2>8, <3>2
      <4>2. n + (i - n) = i
        BY <2>4
      <4>3. PlaceOf(t, i) = SlotOf(t, p, i - n)
        BY <2>4, <4>1, <4>2
      <4>. QED  BY <2>3, <4>1, <4>3
    <3>. QED  BY <3>1, <3>2
  <2>11. Good(f, p + 1)
    <3>1. Lists(f, sum(p + 1), Before(t, p + 1))
      BY <2>4, <2>5, <2>7
    <3>2. Ascending(f, sum(p + 1), t)
      BY <2>4, <2>9
    <3>3. \A i \in 1..sum(p + 1) :
            PlaceOf(t, i) \in DOMAIN file /\ file[PlaceOf(t, i)].node = trace[f[i]].node
      BY <2>4, <2>10
    <3>. QED  BY <3>1, <3>2, <3>3
  <2>. QED  BY <2>11
<1>6. Nat \subseteq Have
  <2> HIDE DEF Have
  <2>. QED  BY <1>4, <1>5, Induction
<1>7. \E g : Good(g, Parts)
  <2>1. Parts \in Nat /\ Parts <= Parts
    BY PartsAre
  <2>2. Parts \in Have
    BY <1>6, <2>1
  <2>. QED  BY <2>1, <2>2
<1>8. sum(Parts) \in Nat
  <2>1. Parts \in 0..Parts
    BY PartsAre
  <2>. QED  BY <1>2, <2>1
<1>. QED  BY <1>2, <1>3, <1>7, <1>8

\* A multiple divided by what it is a multiple of.
LEMMA MultipleIs ==
  ASSUME NEW n \in Nat, NEW w \in Nat, w > 0
  PROVE  n * w \in Nat /\ (n * w) \div w = n
<1> DEFINE m == n * w
<1>1. m \in Nat
  OBVIOUS
<1>2. m \div w = n
  OBVIOUS
<1>. QED  BY <1>1, <1>2

\* What is read of such a tree.
LEMMA TreeRead ==
  ASSUME Planned, NEW t, Counted(t), \A p \in Part : FileHolds(t, p)
  PROVE  LET n == scout.leaves[t]
         IN  /\ n \in Nat /\ DOMAIN LeavesInFile(t) = 1..n
             /\ \E g : /\ Lists(g, n, LeavesOf(trace, t)) /\ Ascending(g, n, t)
                       /\ HoldsAt(LeavesInFile(t), g, n)
<1> DEFINE n == scout.leaves[t]
           r == LeavesRequest(scout, t)
           s == layout.at[<<"leaves", t>>]
           w == Size[t[1]]
<1>1. n \in Nat
  BY TreeWritten
<1>2. PICK g : /\ Lists(g, n, LeavesOf(trace, t)) /\ Ascending(g, n, t)
               /\ \A i \in 1..n : PlaceOf(t, i) \in DOMAIN file /\ file[PlaceOf(t, i)].node = trace[g[i]].node
  BY TreeWritten
<1>3. LeavesInFile(t) = [i \in 1..((s.end - s.start) \div w) |-> At(s.start + (i - 1) * w)]
  BY Zenon DEF LeavesInFile, ReadSection
<1>4. (s.end - s.start) \div w = n
  <2>1. r.name = <<"leaves", t>> /\ r.type = t[1] /\ r.count = n /\ r \in Wanted(scout)
    BY TreeWants DEF LeavesRequest, Request
  <2>2. s.start \in Nat /\ s.end = s.start + n * w
    <3> HIDE DEF r, n
    <3>. QED  BY <2>1, TreeWants, SectionsAre
  <2>3. w \in Nat /\ w > 0
    BY CountedIs, SizeIs
  <2> DEFINE m == n * w
             a == s.start
  <2> HIDE DEF w, n
  <2>4. m \in Nat /\ m \div w = n
    BY <1>1, <2>3, MultipleIs
  <2>5. (s.end - s.start) = m
    <3>1. s.end = a + m /\ a \in Nat
      BY <2>2
    <3> HIDE DEF m, a
    <3>2. (a + m) - a = m
      BY <2>4, <3>1
    <3>. QED  BY <3>1, <3>2 DEF a
  <2>. QED  BY <2>4, <2>5
<1>5. \A i \in 1..n : LeavesInFile(t)[i] = At(PlaceOf(t, i))
  BY <1>3, <1>4 DEF PlaceOf
<1>6. \A i \in 1..n : LeavesInFile(t)[i].node = trace[g[i]].node
  BY <1>2, <1>5 DEF At
<1>7. DOMAIN LeavesInFile(t) = 1..n
  BY <1>3, <1>4
<1>. QED  BY <1>1, <1>2, <1>6, <1>7 DEF HoldsAt

\* A tree that is counted, by its place in the list of its kind.
LEMMA AllAreCounted ==
  ASSUME NEW k \in Kind, NEW t \in Range(TreesOf(scout, k))
  PROVE  Counted(t)
<1> DEFINE s == TreesOf(scout, k)
<1>1. PICK i \in DOMAIN s : t = s[i]
  BY Zenon DEF Range
<1>2. i \in 1..scout.count[k] /\ t = <<k, i>>
  BY <1>1 DEF TreesOf
<1>. QED  BY <1>2 DEF Counted, TreesIn

\* The leaves of such a tree are sorted, and they are those of the trace.
LEMMA TreeSorted ==
  ASSUME Planned, NEW t, Counted(t), \A p \in Part : FileHolds(t, p)
  PROVE  LET leaves == LeavesInFile(t)
             bbox == BboxOf(trace, t)
         IN  /\ \A a, b \in DOMAIN leaves :
                  a < b => HilbertKey(leaves[a].node, bbox) <= HilbertKey(leaves[b].node, bbox)
             /\ \A i \in LeavesOf(trace, t) :
                  Cardinality({a \in DOMAIN leaves : leaves[a].node = trace[i].node})
                    = Cardinality({j \in LeavesOf(trace, t) : trace[j].node = trace[i].node})
<1> DEFINE n == scout.leaves[t]
           leaves == LeavesInFile(t)
           bbox == BboxOf(trace, t)
           L == LeavesOf(trace, t)
<1>1. n \in Nat /\ DOMAIN leaves = 1..n
  BY TreeRead
<1>2. PICK g : Lists(g, n, L) /\ Ascending(g, n, t) /\ HoldsAt(leaves, g, n)
  BY TreeRead
<1> HIDE DEF n, leaves
<1>3. ASSUME NEW a \in 1..n, NEW b \in 1..n, a < b
      PROVE  HilbertKey(leaves[a].node, bbox) <= HilbertKey(leaves[b].node, bbox)
  <2>1. KeyOf(t, g[a]) <= KeyOf(t, g[b])
    BY <1>2, <1>3 DEF Ascending
  <2>2. leaves[a].node = trace[g[a]].node /\ leaves[b].node = trace[g[b]].node
    BY <1>2 DEF HoldsAt
  <2>. QED  BY <2>1, <2>2 DEF KeyOf
<1>4. ASSUME NEW i \in L
      PROVE  Cardinality({a \in 1..n : leaves[a].node = trace[i].node})
               = Cardinality({j \in L : trace[j].node = trace[i].node})
  <2> DEFINE A == {j \in L : trace[j].node = trace[i].node}
  <2> HIDE DEF L
  <2>1. A \in SUBSET L
    OBVIOUS
  <2>2. \A a \in 1..n : g[a] \in A <=> leaves[a].node = trace[i].node
    BY <1>2 DEF Lists, HoldsAt
  <2>3. {a \in 1..n : g[a] \in A} = {a \in 1..n : leaves[a].node = trace[i].node}
    BY <2>2
  <2> HIDE DEF A
  <2>4. Cardinality({a \in 1..n : g[a] \in A}) = Cardinality(A)
    BY <1>1, <1>2, <2>1, ListsCount
  <2>. QED  BY <2>3, <2>4 DEF A
<1>. QED  BY <1>1, <1>3, <1>4 DEF leaves

\* A sum depends only on what is summed up.
LEMMA SumSame ==
  ASSUME NEW n \in Nat, NEW f, NEW g, \A i \in 0..(n - 1) : f[i] \in Nat /\ g[i] = f[i]
  PROVE  SumTo(f, n) = SumTo(g, n)
<1> DEFINE Have == {i \in Nat : i <= n => SumTo(f, i) = SumTo(g, i)}
<1>1. /\ SumTo(f, 0) = 0 /\ \A i \in 0..(n - 1) : SumTo(f, i + 1) = SumTo(f, i) + f[i]
  BY SumsAre
<1>2. /\ SumTo(g, 0) = 0 /\ \A i \in 0..(n - 1) : SumTo(g, i + 1) = SumTo(g, i) + g[i]
  <2>1. \A i \in 0..(n - 1) : g[i] \in Nat
    OBVIOUS
  <2>. QED  BY <2>1, SumsAre
<1>3. 0 \in Have
  BY <1>1, <1>2
<1>4. ASSUME NEW i \in Nat, i \in Have
      PROVE  i + 1 \in Have
  <2> SUFFICES ASSUME i + 1 <= n
               PROVE  SumTo(f, i + 1) = SumTo(g, i + 1)
    OBVIOUS
  <2>1. i \in 0..(n - 1) /\ i <= n
    OBVIOUS
  <2>. QED  BY <1>1, <1>2, <1>4, <2>1
<1>5. Nat \subseteq Have
  <2> HIDE DEF Have
  <2>. QED  BY <1>3, <1>4, Induction
<1>. QED  BY <1>5

\* The sizes of the levels, the root first.
SizesOf(order, n) ==
  [l \in 0..(Len(Levels(order, n)) - 1) |-> Levels(order, n)[l + 1].size]

\* They are those that the scout pass has found, the other way around, and add
\* up to the nodes that are planned.
LEMMA SizesAre ==
  ASSUME NEW order \in Order, NEW n \in Nat
  PROVE  LET sizes == LevelSizes(order)[n]
             top == Len(sizes)
         IN  /\ sizes \in Seq(Nat) /\ top \in Nat
             /\ NodeCount(Levels(order, n)) = SumTo(SizesOf(order, n), top)
             /\ \A l \in 0..(top - 1) : SizesOf(order, n)[l] = sizes[top - l] /\ SizesOf(order, n)[l] \in Nat
<1> DEFINE sizes == LevelSizes(order)[n]
           top == Len(sizes)
           levels == Levels(order, n)
           f == SizesOf(order, n)
<1>1. sizes \in Seq(Nat)
  BY LevelSizesAre
<1>2. /\ top \in Nat /\ sizes \in [1..top -> Nat] /\ Len(levels) = top
      /\ \A l \in 0..(top - 1) : levels[l + 1] = [offset |-> OffsetOf(sizes)[top - l], size |-> sizes[top - l]]
  BY LevelsAre
<1>3. NodeCount(levels) = SumTo(f, top)
  BY <1>2, Zenon DEF NodeCount, SizesOf
<1>4. \A l \in 0..(top - 1) : f[l] = levels[l + 1].size
  BY <1>2 DEF SizesOf
<1> HIDE DEF sizes, top, levels, f
<1>5. ASSUME NEW l \in 0..(top - 1)
      PROVE  f[l] = sizes[top - l] /\ f[l] \in Nat
  <2>1. top - l \in 1..top
    BY <1>2
  <2>2. levels[l + 1].size = sizes[top - l]
    <3>1. levels[l + 1] = [offset |-> OffsetOf(sizes)[top - l], size |-> sizes[top - l]]
      BY <1>2, Zenon
    <3>2. ASSUME NEW x, NEW a, NEW b, x = [offset |-> a, size |-> b]
          PROVE  x.size = b
      BY <3>2
    <3>. QED  BY <3>1, <3>2
  <2>. QED  BY <1>2, <1>4, <2>1, <2>2
<1>. QED  BY <1>1, <1>2, <1>3, <1>5 DEF sizes, top, levels, f

\* As many nodes are written as the scout pass counted.
LEMMA NodesCounted ==
  ASSUME NEW order \in Order
  PROVE  \A below \in Seq(Node) :
           Len(NodesOver(order)[below]) = NodeCount(Levels(order, Len(below)))
<1> DEFINE w == NodeSize(order)
           Good(below) == Len(NodesOver(order)[below]) = NodeCount(Levels(order, Len(below)))
           Have == {m \in Nat : \A below \in Seq(Node) : Len(below) <= m => Good(below)}
<1>1. w \in Nat /\ w >= 2
  BY NodeSizeIs
<1>2. \A below \in Seq(Node) : Len(below) \in Nat
  OBVIOUS
<1>3. ASSUME NEW below \in Seq(Node), Len(below) <= w
      PROVE  Good(below)
  <2> DEFINE n == Len(below)
  <2>1. n \in Nat
    OBVIOUS
  <2>2. NodesOver(order)[below] = <<>>
    BY <1>3, NodesOverAre
  <2>3. LevelSizes(order)[n] = <<>>
    BY <1>3, <2>1, LevelSizesAre
  <2> DEFINE c == NodeCount(Levels(order, n))
             f == SizesOf(order, n)
  <2> HIDE DEF n
  <2>4. c = SumTo(f, 0)
    <3>1. Len(LevelSizes(order)[n]) = 0
      BY <2>3
    <3>. QED  BY <2>1, <3>1, SizesAre
  <2>5. SumTo(f, 0) = 0
    <3>1. \A i \in 0..(0 - 1) : f[i] \in Nat
      OBVIOUS
    <3> HIDE DEF f
    <3>. QED  BY <3>1, SumsAre
  <2>6. Len(NodesOver(order)[below]) = 0
    BY <2>2
  <2>. QED  BY <2>4, <2>5, <2>6 DEF n
<1>4. ASSUME NEW below \in Seq(Node), Len(below) > w, Good(LevelOver(order, below))
      PROVE  Good(below)
  <2> DEFINE n == Len(below)
             above == LevelOver(order, below)
             g == Groups(order, n)
             sn == LevelSizes(order)[n]
             sg == LevelSizes(order)[g]
             fn == SizesOf(order, n)
             fg == SizesOf(order, g)
             top == Len(sg)
             rest == NodesOver(order)[above]
  <2>1. n \in Nat /\ g \in Nat /\ above \in Seq(Node) /\ Len(above) = g
    <3>1. n \in Nat
      OBVIOUS
    <3>2. above \in Seq(Node) /\ Len(above) = g
      BY <1>1, <1>4, LevelOverIs
    <3>. QED  BY <3>1, <3>2
  <2>2. NodesOver(order)[below] = above \o rest /\ rest \in Seq(Node)
    BY <1>4, <2>1, NodesOverAre
  <2>3. sn = <<g>> \o sg
    BY <1>4, <2>1, LevelSizesAre
  <2>4. Len(rest) = NodeCount(Levels(order, g))
    BY <1>4, <2>1
  <2>5. /\ sg \in Seq(Nat) /\ top \in Nat
        /\ NodeCount(Levels(order, g)) = SumTo(fg, top)
        /\ \A l \in 0..(top - 1) : fg[l] = sg[top - l] /\ fg[l] \in Nat
    <3> HIDE DEF g
    <3>. QED  BY <2>1, SizesAre
  <2>6. /\ NodeCount(Levels(order, n)) = SumTo(fn, Len(sn))
        /\ \A l \in 0..(Len(sn) - 1) : fn[l] = sn[Len(sn) - l] /\ fn[l] \in Nat
    <3> HIDE DEF n
    <3>. QED  BY <2>1, SizesAre
  <2> HIDE DEF n, above, g, sn, sg, fn, fg, top, rest
  <2>7. Len(sn) = top + 1 /\ sn[1] = g /\ \A i \in 1..top : sn[i + 1] = sg[i]
    <3>1. sn = <<g>> \o sg /\ sg \in Seq(Nat) /\ top = Len(sg) /\ <<g>> \in Seq(Nat)
      BY <2>1, <2>3, <2>5 DEF top
    <3>. QED  BY <3>1
  <2>8. \A l \in 0..(top - 1) : fn[l] = fg[l] /\ fg[l] \in Nat
    <3> TAKE l \in 0..(top - 1)
    <3>1. l \in 0..(Len(sn) - 1) /\ top - l \in 1..top /\ Len(sn) - l = (top - l) + 1
      BY <2>5, <2>7
    <3>2. fn[l] = sn[(top - l) + 1]
      BY <2>6, <3>1
    <3>. QED  BY <2>5, <2>7, <3>1, <3>2
  <2>9. SumTo(fn, top) = SumTo(fg, top)
    BY <2>5, <2>8, SumSame
  <2>10. SumTo(fn, top + 1) = SumTo(fn, top) + g
    <3>1. \A i \in 0..((top + 1) - 1) : fn[i] \in Nat
      BY <2>5, <2>6, <2>7
    <3>2. top \in 0..((top + 1) - 1) /\ top + 1 \in Nat
      BY <2>5
    <3>3. SumTo(fn, top + 1) = SumTo(fn, top) + fn[top]
      BY <3>1, <3>2, SumsAre
    <3>4. fn[top] = g
      <4>1. top \in 0..(Len(sn) - 1) /\ Len(sn) - top = 1
        BY <2>5, <2>7
      <4>. QED  BY <2>6, <2>7, <4>1
    <3>. QED  BY <3>3, <3>4
  <2>11. NodeCount(Levels(order, n)) = SumTo(fn, top) + g
    BY <2>6, <2>7, <2>10
  <2>12. Len(NodesOver(order)[below]) = Len(above) + Len(rest)
    <3>1. rest \in Seq(Node) /\ above \in Seq(Node)
      BY <2>1, <2>2
    <3>2. Len(above \o rest) = Len(above) + Len(rest)
      BY <3>1
    <3>3. NodesOver(order)[below] = above \o rest
      BY <2>2, Zenon
    <3>. QED  BY <3>2, <3>3, Zenon
  <2>13. Len(rest) \in Nat /\ Len(rest) = SumTo(fn, top)
    BY <2>2, <2>4, <2>5, <2>9
  <2>. QED  BY <2>1, <2>11, <2>12, <2>13 DEF n
<1>5. 0 \in Have
  <2> HIDE DEF Good
  <2>1. \A below \in Seq(Node) : Len(below) <= 0 => Len(below) <= w
    BY <1>1, <1>2
  <2>. QED  BY <1>3, <2>1
<1>6. ASSUME NEW m \in Nat, m \in Have
      PROVE  m + 1 \in Have
  <2> SUFFICES ASSUME NEW below \in Seq(Node), Len(below) <= m + 1
               PROVE  Good(below)
    OBVIOUS
  <2>1. CASE Len(below) <= w
    BY <1>3, <2>1
  <2>2. CASE Len(below) > w
    <3> DEFINE above == LevelOver(order, below)
    <3>1. above \in Seq(Node) /\ Len(above) = Groups(order, Len(below))
      BY LevelOverIs
    <3>2. Groups(order, Len(below)) \in Nat /\ Groups(order, Len(below)) < Len(below)
      BY <1>2, <2>2, GroupsAre
    <3> HIDE DEF above, Good
    <3>3. Len(above) <= m
      BY <1>2, <3>1, <3>2
    <3>4. Good(above)
      BY <1>6, <3>1, <3>3
    <3>. QED  BY <1>4, <2>2, <3>4 DEF above
  <2> HIDE DEF Good
  <2>. QED  BY <1>1, <1>2, <2>1, <2>2
<1>7. Nat \subseteq Have
  <2> HIDE DEF Have
  <2>. QED  BY <1>5, <1>6, Induction
<1> HIDE DEF Good
<1>8. \A below \in Seq(Node) : Len(below) \in Have /\ Len(below) <= Len(below)
  <2>1. \A below \in Seq(Node) : Len(below) <= Len(below)
    BY <1>2
  <2> HIDE DEF Have
  <2>. QED  BY <1>2, <1>7, <2>1
<1>9. \A below \in Seq(Node) : Good(below)
  BY <1>8
<1>. QED  BY <1>9 DEF Good

-----------------------------------------------------------------------------
(* The invariant of a build *)

\* A buffer has the leaves of its partition that have been seen.
Gathered ==
  \A t \in Tree, p \in Part : ~AllSeen(t, p) => Holds(buffers[t][p], SeenAt(pos, t, p))

\* A task has the leaves of its partition.
Carried == \A task \in tasks : Holds(task.leaves, LeavesIn(trace, task.tree, task.part))

\* The partitions that nobody will write any more are in the file, in order.
Filled == \A t, p : Counted(t) /\ p \in Part /\ ~Awaited(t, p) => FileHolds(t, p)

\* What is known of the accesses that have been met.
Recorded == DOMAIN data \subseteq {i \in 1..pos : trace[i].of = "access"}

\* The data section has room for the accesses to come.
DataFits == dedup.used <= SumTo(Bytes(trace), pos)

\* Nothing is written past the end of the file.
Inside == DOMAIN file \subseteq 0..(layout.size - 1)

\* How far a build can be; it never fails but on a missing buffer.
Phase == {"allocate", "fill", "unwinding", "panicked", "header", "metadata", "write trees",
          "read trees", "register trees", "data", "register nodes", "write nodes",
          "read nodes", "truncate", "done"}

\* What a build has done of its plan.
BuildInv == /\ FillInv /\ Gathered /\ Carried /\ Filled /\ Recorded /\ DataFits /\ Inside
            /\ phase \in Phase

\* It holds before the file is allocated.
LEMMA BuildInvInit == Init => BuildInv
<1> SUFFICES ASSUME Init PROVE BuildInv
  OBVIOUS
<1>1. FillInv /\ trace \in Traces /\ Planned
  BY FillInvInit DEF FillInv, Planned
<1>2. \A t, p : LeavesIn(trace, t, p) \subseteq 1..Len(trace) /\ SeenAt(pos, t, p) = {}
  <2> TAKE t, p
  <2>1. LeavesIn(trace, t, p) \subseteq 1..Len(trace) /\ Len(trace) \in Nat
    BY <1>1, LeavesCount, TracesAssumption
  <2>. QED  BY <2>1 DEF Init, SeenAt
<1>3. Holds(<<>>, {})
  <2> DEFINE g == [i \in 1..0 |-> 0]
             s == <<>>
  <2>1. Len(s) = 0 /\ s \in Seq({}) /\ 1..0 = {}
    OBVIOUS
  <2> HIDE DEF s
  <2>2. Lists(g, 0, {}) /\ HoldsAt(s, g, 0)
    BY <2>1 DEF Lists, HoldsAt
  <2> HIDE DEF g
  <2>3. Holds(s, {})
    BY <2>1, <2>2 DEF Holds, IsSeq
  <2>. QED  BY <2>3 DEF s
<1>4. Gathered
  <2> SUFFICES ASSUME NEW t \in Tree, NEW p \in Part PROVE Holds(buffers[t][p], SeenAt(pos, t, p))
    BY DEF Gathered
  <2>1. buffers[t][p] = <<>>
    BY DEF Init
  <2>. QED  BY <1>2, <1>3, <2>1, Zenon
<1>5. Filled
  <2> SUFFICES ASSUME NEW t, NEW p, Counted(t), p \in Part, ~Awaited(t, p) PROVE FileHolds(t, p)
    BY DEF Filled
  <2>1. LeavesIn(trace, t, p) = {}
    BY <1>2 DEF Awaited, AllSeen
  <2>2. room[t][p] = 0
    <3>1. room[t][p] = Cardinality(LeavesIn(trace, t, p))
      BY <1>1, CountedIs, PartitionsAre DEF Planned
    <3>. QED  BY <2>1, <3>1, FS_EmptySet
  <2> DEFINE g == [i \in 1..0 |-> 0]
  <2>3. Lists(g, 0, {}) /\ Ascending(g, 0, t)
    BY DEF Lists, Ascending
  <2> HIDE DEF g
  <2>. QED  BY <2>1, <2>2, <2>3 DEF FileHolds
<1>6. DataFits
  <2>1. \A i \in 0..(0 - 1) : Bytes(trace)[i] \in Nat
    OBVIOUS
  <2>2. SumTo(Bytes(trace), 0) = 0
    <3> DEFINE f == Bytes(trace)
    <3> HIDE DEF f
    <3>. QED  BY <2>1, SumsAre DEF f
  <2>3. dedup.used = 0 /\ pos = 0
    BY DEF Init
  <2>. QED  BY <2>2, <2>3 DEF DataFits
<1>7. /\ DOMAIN file = {} /\ DOMAIN data = {} /\ tasks = {} /\ phase = "allocate"
  BY DEF Init
<1>. QED  BY <1>1, <1>4, <1>5, <1>6, <1>7 DEF BuildInv, Carried, Recorded, Inside, Phase

\* A step that leaves the leaves in the file as they are.
LeavesKept ==
  \A t, p : Counted(t) /\ p \in Part =>
    \A q \in DOMAIN file \cap Places(ViewOf(t, p)) : q \in DOMAIN file' /\ file'[q] = file[q]

\* Such a step keeps what has been written of the leaves.
LEMMA KeptIsHeld ==
  ASSUME Planned, UNCHANGED plan, LeavesKept,
         NEW t, Counted(t), NEW p \in Part, FileHolds(t, p)
  PROVE  FileHolds(t, p)'
<1>1. trace' = trace /\ room' = room /\ layout' = layout
  BY DEF plan
<1>2. PICK g : /\ Lists(g, room[t][p], LeavesIn(trace, t, p)) /\ Ascending(g, room[t][p], t)
               /\ \A i \in 1..room[t][p] :
                    SlotOf(t, p, i) \in DOMAIN file /\ file[SlotOf(t, p, i)].node = trace[g[i]].node
  BY DEF FileHolds
<1>3. \A i : SlotOf(t, p, i)' = SlotOf(t, p, i)
  BY <1>1 DEF SlotOf, ViewOf
<1>4. ASSUME NEW i \in 1..room[t][p]
      PROVE  /\ SlotOf(t, p, i) \in DOMAIN file'
             /\ file'[SlotOf(t, p, i)].node = trace[g[i]].node
  <2>1. SlotOf(t, p, i) \in Places(ViewOf(t, p))
    BY SlotIs
  <2>2. SlotOf(t, p, i) \in DOMAIN file' /\ file'[SlotOf(t, p, i)] = file[SlotOf(t, p, i)]
    <3> DEFINE q == SlotOf(t, p, i)
    <3>1. q \in DOMAIN file \cap Places(ViewOf(t, p))
      BY <1>2, <2>1
    <3> HIDE DEF q
    <3>. QED  BY <3>1 DEF LeavesKept, q
  <2>. QED  BY <1>2, <2>2
<1>5. Ascending(g, room[t][p], t)'
  BY <1>1, <1>2 DEF Ascending, KeyOf
<1>6. \A i \in 1..room'[t][p] :
        SlotOf(t, p, i)' \in DOMAIN file' /\ file'[SlotOf(t, p, i)'].node = trace'[g[i]].node
  BY <1>1, <1>3, <1>4
<1>7. Lists(g, room'[t][p], LeavesIn(trace', t, p))
  BY <1>1, <1>2
<1>. QED  BY <1>5, <1>6, <1>7 DEF FileHolds

\* So the partitions that have been written stay written.
LEMMA FilledKept ==
  ASSUME Planned, Filled, UNCHANGED plan, LeavesKept,
         \A t, p : Awaited(t, p) => Awaited(t, p)'
  PROVE  Filled'
<1>1. \A t : Counted(t)' = Counted(t)
  BY DEF Counted, plan
<1> SUFFICES ASSUME NEW t, NEW p, Counted(t), p \in Part, ~Awaited(t, p)'
             PROVE  FileHolds(t, p)'
  BY <1>1 DEF Filled
<1>2. FileHolds(t, p)
  BY DEF Filled
<1>. QED  BY <1>2, KeptIsHeld

\* What is written elsewhere leaves the leaves as they are, and is inside the file.
LEMMA StoreKeeps ==
  ASSUME NEW items, Store(items), Elsewhere(DOMAIN items), Inside
  PROVE  LeavesKept /\ DOMAIN file' \subseteq 0..(layout.size - 1)
<1>1. DOMAIN file' = DOMAIN file \cup DOMAIN items
  BY DEF Store
<1>2. \A q \in DOMAIN file : q \notin DOMAIN items => file'[q] = file[q]
  BY DEF Store
<1>. QED  BY <1>1, <1>2 DEF LeavesKept, Elsewhere, Inside

\* So does what is written at once to several places.
LEMMA StoreAllKeeps ==
  ASSUME NEW stored, StoreAll(stored), \A items \in stored : Elsewhere(DOMAIN items), Inside
  PROVE  LeavesKept /\ DOMAIN file' \subseteq 0..(layout.size - 1)
<1> DEFINE all == UNION {DOMAIN items : items \in stored}
<1>1. \A q : q \in all <=> \E items \in stored : q \in DOMAIN items
  OBVIOUS
<1>2. /\ DOMAIN file' = DOMAIN file \cup all
      /\ \A q \in DOMAIN file : (~ \E items \in stored : q \in DOMAIN items) => file'[q] = file[q]
  BY DEF StoreAll
<1> HIDE DEF all
<1>3. all \subseteq 0..(layout.size - 1)
  BY <1>1 DEF Elsewhere
<1>4. \A t, p : Counted(t) /\ p \in Part => all \cap Places(ViewOf(t, p)) = {}
  BY <1>1 DEF Elsewhere
<1>. QED  BY <1>1, <1>2, <1>3, <1>4 DEF LeavesKept, Inside

\* A step that keeps what has been handed over keeps the rest, if it leaves
\* the leaves in the file as they are.
LEMMA QuietBuild ==
  ASSUME BuildInv, FillInv', UNCHANGED <<plan, filling>>, LeavesKept,
         DOMAIN file' \subseteq 0..(layout.size - 1), phase' \in Phase
  PROVE  BuildInv'
<1>1. /\ trace' = trace /\ room' = room /\ layout' = layout /\ scout' = scout
      /\ pos' = pos /\ dedup' = dedup /\ data' = data /\ buffers' = buffers /\ tasks' = tasks
  BY DEF plan, filling
<1>2. \A t, p : SeenAt(pos, t, p)' = SeenAt(pos, t, p)
  BY <1>1 DEF SeenAt
<1>3. \A t, p : AllSeen(t, p)' <=> AllSeen(t, p)
  BY <1>1, <1>2 DEF AllSeen
<1>4. \A s, S : Holds(s, S)' <=> Holds(s, S)
  BY <1>1 DEF Holds, HoldsAt
<1>5. Gathered'
  BY <1>1, <1>2, <1>3, <1>4 DEF BuildInv, Gathered
<1>6. Carried'
  BY <1>1, <1>4 DEF BuildInv, Carried
<1>7. Filled'
  <2>1. \A t, p : Awaited(t, p) => Awaited(t, p)'
    BY <1>1, <1>3 DEF Awaited
  <2>. QED  BY <2>1, FilledKept DEF BuildInv, FillInv
<1>8. Recorded' /\ DataFits' /\ Inside'
  BY <1>1 DEF BuildInv, Recorded, DataFits, Inside
<1>. QED  BY <1>5, <1>6, <1>7, <1>8 DEF BuildInv

\* What the data section holds of the events that are met fits, and so does
\* what comes next.
LEMMA RoomForData ==
  ASSUME Planned, DataFits, dedup.used \in Nat, pos < Len(trace)
  PROVE  LET f == Bytes(trace)
         IN  /\ f[pos] \in Nat /\ SumTo(f, pos) \in Nat
             /\ SumTo(f, pos + 1) = SumTo(f, pos) + f[pos]
             /\ dedup.used + f[pos] <= DataSection.end - DataSection.start
<1> DEFINE f == Bytes(trace)
           n == Len(trace)
           a == DataSection.start
           b == DataSection.end
<1>1. trace \in Traces /\ n \in Nat /\ pos \in 0..n /\ \A i \in 0..(n - 1) : f[i] \in Nat
  BY BytesAre, TracesAssumption DEF Planned
<1>2. pos \in 0..(n - 1) /\ pos + 1 \in 0..n /\ pos \in 0..n /\ n \in 0..n
  BY <1>1
<1>3. /\ SumTo(f, pos) \in Nat /\ SumTo(f, n) \in Nat
      /\ SumTo(f, pos + 1) = SumTo(f, pos) + f[pos] /\ SumTo(f, pos + 1) <= SumTo(f, n)
  <2> HIDE DEF f, n
  <2>. QED  BY <1>1, <1>2, SumsAre
<1>4. b = a + SumTo(f, n) /\ a \in Nat /\ b \in Nat
  <2> DEFINE r == DataRequest(scout)
  <2>1. r.name = <<"data">> /\ r.count = scout.data /\ r.type = "byte"
    BY DEF DataRequest, Request
  <2>2. scout.data = SumTo(f, n)
    BY DEF Planned, ScoutPass
  <2>3. /\ layout.at[r.name].start \in Nat /\ layout.at[r.name].end \in Nat
        /\ layout.at[r.name].end = layout.at[r.name].start + r.count * Size[r.type]
    BY TreeWants, SectionsAre
  <2>4. Size["byte"] = 1
    BY DEF Size
  <2>5. b = a + SumTo(f, n) * 1 /\ a \in Nat /\ b \in Nat
    <3> HIDE DEF r, f, n
    <3>. QED  BY <2>1, <2>2, <2>3, <2>4 DEF DataSection
  <2> HIDE DEF a, b, f, n
  <2>. QED  BY <1>3, <2>5
<1>5. dedup.used <= SumTo(f, pos)
  BY DEF DataFits
<1>6. f[pos] \in Nat
  BY <1>1, <1>2
<1>7. dedup.used + f[pos] <= b - a
  <2> HIDE DEF f, n, a, b
  <2>. QED  BY <1>3, <1>4, <1>5, <1>6
<1>. QED  BY <1>3, <1>6, <1>7

\* What an access of the fill pass does to the data section.
LEMMA AccessIs ==
  ASSUME BuildInv, FillAccess
  PROVE  /\ phase' = phase
         /\ dedup'.used <= dedup.used + Bytes(trace)[pos]
         /\ DOMAIN data' = DOMAIN data \cup {pos + 1}
         /\ \/ file' = file
            \/ \E items : Store(items) /\ Elsewhere(DOMAIN items)
<1> DEFINE bytes == trace[pos + 1].bytes
           n == Len(bytes)
           more == Bytes(trace)[pos]
           items == ItemsAt(DataSection.start + dedup.used, "byte", bytes)
<1>1. /\ pos < Len(trace) /\ trace[pos + 1].of = "access"
      /\ Planned /\ DataFits /\ dedup.used \in Nat
  BY DEF FillAccess, Filling, BuildInv, FillInv
<1>2. /\ more \in Nat /\ dedup.used + more <= DataSection.end - DataSection.start
  BY <1>1, RoomForData
<1>3. bytes \in Seq(Nat) /\ n \in Nat /\ DOMAIN bytes = 1..n /\ (n > InlineSize => more = n)
  <2>1. trace \in Traces /\ pos + 1 \in 1..Len(trace) /\ (pos + 1) - 1 = pos
    BY <1>1, TracesAssumption DEF Planned
  <2>2. bytes \in Seq(Nat) /\ (n > InlineSize => Bytes(trace)[(pos + 1) - 1] = n)
    BY <1>1, <2>1, BytesAre
  <2>. QED  BY <2>1, <2>2
<1>4. \A d : Known(d) => DOMAIN data' = DOMAIN data \cup {pos + 1}
  BY DEF Known
<1>5. CASE Known(Inline(bytes)) /\ UNCHANGED <<dedup, file, phase>>
  <2> HIDE DEF more
  <2>1. DOMAIN data' = DOMAIN data \cup {pos + 1} /\ dedup' = dedup /\ file' = file /\ phase' = phase
    BY <1>4, <1>5
  <2>. QED  BY <1>1, <1>2, <2>1 DEF more
<1>6. ASSUME NEW m \in dedup.memo, Known(Outline(m.offset, Len(bytes))), UNCHANGED <<dedup, file, phase>>
      PROVE  /\ phase' = phase /\ dedup'.used <= dedup.used + more
             /\ DOMAIN data' = DOMAIN data \cup {pos + 1} /\ file' = file
  <2> HIDE DEF more
  <2>1. DOMAIN data' = DOMAIN data \cup {pos + 1} /\ dedup' = dedup /\ file' = file /\ phase' = phase
    BY <1>4, <1>6
  <2>. QED  BY <1>1, <1>2, <2>1
<1>7. CASE /\ n > InlineSize
           /\ IF dedup.used + Len(bytes) <= DataSection.end - DataSection.start
              THEN /\ Store(items)
                   /\ Known(Outline(dedup.used, Len(bytes)))
                   /\ dedup' = [used |-> dedup.used + Len(bytes),
                                memo |-> dedup.memo \cup {[bytes |-> bytes, offset |-> dedup.used]}]
                   /\ UNCHANGED phase
              ELSE phase' = "failed" /\ UNCHANGED <<dedup, data, file>>
  <2>1. dedup.used + n <= DataSection.end - DataSection.start
    <3> HIDE DEF more, n
    <3>. QED  BY <1>2, <1>3, <1>7
  <2>2. /\ Store(items) /\ Known(Outline(dedup.used, n)) /\ phase' = phase
        /\ dedup'.used = dedup.used + n
    BY <1>7, <2>1
  <2> DEFINE start == DataSection.start + dedup.used
  <2>3. /\ DataSection.start \in Nat /\ DataSection.end \in Nat /\ start \in Nat
        /\ start >= DataSection.start /\ start + n <= DataSection.end
    <3>1. DataSection.start \in Nat /\ DataSection.end \in Nat
      BY <1>1, DataSectionIs
    <3> HIDE DEF n
    <3>. QED  BY <1>1, <1>3, <2>1, <3>1
  <2>4. DOMAIN items \subseteq start..(start + n * Size["byte"] - 1)
    <3>1. "byte" \in Type
      BY DEF Type
    <3> HIDE DEF start, bytes, n
    <3>. QED  BY <1>3, <2>3, <3>1, StoredIn DEF start
  <2>5. n * Size["byte"] = n
    BY <1>3 DEF Size
  <2>6. Elsewhere(DataSection.start..(DataSection.end - 1))
    <3> DEFINE r == DataRequest(scout)
    <3>1. r \in Wanted(scout) /\ r.name = <<"data">> /\ r.name[1] # "leaves"
      BY <1>1, TreeWants DEF DataRequest, Request
    <3> HIDE DEF r
    <3>2. Elsewhere(layout.at[r.name].start..(layout.at[r.name].end - 1))
      BY <1>1, <3>1, WholeElsewhere
    <3>. QED  BY <3>1, <3>2 DEF DataSection
  <2>7. Elsewhere(DOMAIN items)
    <3> DEFINE all == DataSection.start..(DataSection.end - 1)
    <3>1. DOMAIN items \subseteq all
      <4> HIDE DEF items, start, n
      <4>. QED  BY <1>3, <2>3, <2>4, <2>5
    <3>2. Elsewhere(all)
      BY <2>6
    <3> HIDE DEF all, items
    <3>. QED  BY <3>1, <3>2 DEF Elsewhere
  <2>8. dedup'.used <= dedup.used + more
    <3> HIDE DEF more, n
    <3>. QED  BY <1>1, <1>3, <1>7, <2>2
  <2>. QED  BY <1>4, <2>2, <2>7, <2>8
<1>8. (n > InlineSize /\ Insert(bytes)) \/ (Known(Inline(bytes)) /\ UNCHANGED <<dedup, file, phase>>)
  BY DEF FillAccess
<1>9. CASE n > InlineSize /\ Insert(bytes)
  <2>1. \/ \E m \in dedup.memo : Known(Outline(m.offset, Len(bytes))) /\ UNCHANGED <<dedup, file, phase>>
        \/ IF dedup.used + Len(bytes) <= DataSection.end - DataSection.start
           THEN /\ Store(items)
                /\ Known(Outline(dedup.used, Len(bytes)))
                /\ dedup' = [used |-> dedup.used + Len(bytes),
                             memo |-> dedup.memo \cup {[bytes |-> bytes, offset |-> dedup.used]}]
                /\ UNCHANGED phase
           ELSE phase' = "failed" /\ UNCHANGED <<dedup, data, file>>
    BY <1>9, Zenon DEF Insert
  <2>. QED  BY <1>6, <1>7, <1>9, <2>1
<1>. QED  BY <1>5, <1>8, <1>9

\* The fill pass meets an access.
LEMMA AccessBuild ==
  ASSUME BuildInv, FillInv', FillAccess
  PROVE  BuildInv'
<1>1. /\ phase = "fill" /\ pos < Len(trace) /\ trace[pos + 1].of = "access" /\ pos' = pos + 1
      /\ UNCHANGED plan /\ UNCHANGED <<buffers, tasks>>
  BY DEF FillAccess, Filling
<1>2. trace' = trace /\ room' = room /\ layout' = layout /\ scout' = scout
  BY <1>1 DEF plan
<1>3. /\ trace \in Traces /\ pos \in Nat /\ Len(trace) \in Nat /\ pos \in 0..(Len(trace) - 1)
      /\ Planned /\ DataFits /\ dedup.used \in Nat
  BY <1>1, TracesAssumption DEF BuildInv, FillInv, Planned
<1>4. \A t, p : SeenAt(pos + 1, t, p) = SeenAt(pos, t, p)
  BY <1>1, <1>3, SeenGrow
<1>5. \A t, p : SeenAt(pos, t, p)' = SeenAt(pos, t, p)
  BY <1>1, <1>2, <1>4 DEF SeenAt
<1>6. \A t, p : AllSeen(t, p)' <=> AllSeen(t, p)
  BY <1>2, <1>5 DEF AllSeen
<1>7. \A s, S : Holds(s, S)' <=> Holds(s, S)
  BY <1>2 DEF Holds, HoldsAt
<1>8. Gathered'
  BY <1>1, <1>2, <1>5, <1>6, <1>7 DEF BuildInv, Gathered
<1>9. Carried'
  BY <1>1, <1>2, <1>7 DEF BuildInv, Carried
<1>10. /\ phase' = phase
       /\ dedup'.used <= dedup.used + Bytes(trace)[pos]
       /\ DOMAIN data' = DOMAIN data \cup {pos + 1}
       /\ \/ file' = file
          \/ \E items : Store(items) /\ Elsewhere(DOMAIN items)
  BY AccessIs
<1>11. LeavesKept /\ DOMAIN file' \subseteq 0..(layout.size - 1)
  <2>1. CASE file' = file
    BY <2>1 DEF LeavesKept, BuildInv, Inside
  <2>2. ASSUME NEW items, Store(items), Elsewhere(DOMAIN items)
        PROVE  LeavesKept /\ DOMAIN file' \subseteq 0..(layout.size - 1)
    BY <2>2, StoreKeeps DEF BuildInv
  <2>. QED  BY <1>10, <2>1, <2>2
<1>12. Filled'
  <2>1. \A t, p : Awaited(t, p) => Awaited(t, p)'
    BY <1>1, <1>6 DEF Awaited
  <2>. QED  BY <1>1, <1>3, <1>11, <2>1, FilledKept DEF BuildInv
<1>13. Recorded'
  <2>1. DOMAIN data \subseteq {i \in 1..pos : trace[i].of = "access"}
    BY DEF BuildInv, Recorded
  <2>2. pos + 1 \in 1..(pos + 1) /\ 1..pos \subseteq 1..(pos + 1)
    BY <1>3
  <2>3. DOMAIN data' \subseteq {i \in 1..(pos + 1) : trace[i].of = "access"}
    BY <1>1, <1>10, <2>1, <2>2
  <2>. QED  BY <1>1, <1>2, <2>3 DEF Recorded
<1>14. DataFits'
  <2> DEFINE f == Bytes(trace)
             u == dedup'.used
             s == SumTo(f, pos)
  <2>1. f[pos] \in Nat /\ s \in Nat /\ SumTo(f, pos + 1) = s + f[pos]
    BY <1>1, <1>3, RoomForData
  <2>2. dedup.used <= s
    BY <1>3 DEF DataFits
  <2>3. u \in Nat
    BY DEF FillInv
  <2>4. u <= SumTo(f, pos + 1)
    <3> HIDE DEF f, u, s
    <3>1. u <= dedup.used + f[pos]
      BY <1>10 DEF f, u
    <3>. QED  BY <1>3, <2>1, <2>2, <2>3, <3>1
  <2>. QED  BY <1>1, <1>2, <2>4 DEF DataFits
<1>15. Inside' /\ phase' \in Phase
  BY <1>2, <1>10, <1>11 DEF Inside, BuildInv
<1>. QED  BY <1>8, <1>9, <1>12, <1>13, <1>14, <1>15 DEF BuildInv

\* The fill pass meets a leaf.
LEMMA LeafBuild ==
  ASSUME BuildInv, FillInv', FillLeaf,
         NEW t, t = trace[pos + 1].tree, NEW p, p = PartOf(trace, trace[pos + 1])
  PROVE  BuildInv'
<1> DEFINE e == trace[pos + 1]
           leaf == Flat(e)
           filled == Append(buffers[t][p], leaf)
           new == Spawned(t, p, filled)
<1>1. /\ phase = "fill" /\ pos < Len(trace) /\ e.of = "leaf" /\ UNCHANGED <<plan, dedup, data, file>>
  BY DEF FillLeaf, Filling
<1>2. LeavesKept /\ DOMAIN file' \subseteq 0..(layout.size - 1)
  BY <1>1 DEF LeavesKept, BuildInv, Inside
<1>3. CASE phase' = "unwinding" /\ UNCHANGED <<pos, buffers, tasks>>
  <2>1. UNCHANGED <<plan, filling>>
    BY <1>1, <1>3 DEF filling
  <2>2. phase' \in Phase
    BY <1>3 DEF Phase
  <2>. QED  BY <1>2, <2>1, <2>2, QuietBuild
<1>4. CASE /\ pos' = pos + 1 /\ UNCHANGED phase
           /\ \/ /\ tasks' = tasks \cup {new} /\ buffers' = [buffers EXCEPT ![t][p] = <<>>]
              \/ /\ buffers' = [buffers EXCEPT ![t][p] = filled] /\ UNCHANGED tasks
  <2>1. trace' = trace /\ room' = room /\ layout' = layout /\ scout' = scout
    BY <1>1 DEF plan
  <2>2. /\ trace \in Traces /\ pos \in Nat /\ Len(trace) \in Nat /\ pos \in 0..(Len(trace) - 1)
        /\ pos + 1 \in 1..Len(trace) /\ Planned /\ dedup.used \in Nat
    BY <1>1, TracesAssumption DEF BuildInv, FillInv, Planned
  <2>3. t \in Tree /\ p \in Part
    BY <1>1, <2>2, LeafIs
  <2>4. /\ pos + 1 \in LeavesIn(trace, t, p) /\ pos + 1 \notin SeenAt(pos, t, p)
        /\ SeenAt(pos + 1, t, p) = SeenAt(pos, t, p) \cup {pos + 1}
        /\ \A u, q : u # t \/ q # p => SeenAt(pos + 1, u, q) = SeenAt(pos, u, q)
    <3> DEFINE u0 == trace[pos + 1].tree
               q0 == PartOf(trace, trace[pos + 1])
    <3>1. /\ pos + 1 \in LeavesIn(trace, u0, q0) /\ pos + 1 \notin SeenAt(pos, u0, q0)
          /\ SeenAt(pos + 1, u0, q0) = SeenAt(pos, u0, q0) \cup {pos + 1}
          /\ \A u, q : u # u0 \/ q # q0 => SeenAt(pos + 1, u, q) = SeenAt(pos, u, q)
      BY <1>1, <2>2, SeenGrow
    <3>2. u0 = t /\ q0 = p
      OBVIOUS
    <3> HIDE DEF u0, q0
    <3>. QED  BY <3>1, <3>2
  <2>5. \A u, q : SeenAt(pos, u, q)' = SeenAt(pos + 1, u, q)
    BY <1>4, <2>1 DEF SeenAt
  <2>6. /\ ~AllSeen(t, p)
        /\ \A u, q : u # t \/ q # p => (AllSeen(u, q)' <=> AllSeen(u, q))
    BY <2>1, <2>4, <2>5 DEF AllSeen
  <2>7. \A s, S : Holds(s, S)' <=> Holds(s, S)
    BY <2>1 DEF Holds, HoldsAt
  <2>8. Holds(filled, SeenAt(pos, t, p)')
    <3>1. Holds(buffers[t][p], SeenAt(pos, t, p))
      BY <2>3, <2>6 DEF BuildInv, Gathered
    <3>2. leaf.node = trace[pos + 1].node
      BY DEF Flat
    <3> DEFINE S == SeenAt(pos, t, p)
               x == pos + 1
               s == buffers[t][p]
    <3>3. S' = S \cup {x} /\ x \notin S
      BY <2>4, <2>5
    <3> HIDE DEF S, x, s, leaf
    <3>4. Holds(Append(s, leaf), S \cup {x})
      BY <3>1, <3>2, <3>3, HoldsMore DEF S, x, s
    <3>. QED  BY <3>3, <3>4, Zenon DEF S, s
  <2> HIDE DEF leaf
  <2>9. /\ buffers'[t][p] = IF tasks' = tasks \cup {new} /\ buffers' = [buffers EXCEPT ![t][p] = <<>>]
                            THEN <<>> ELSE filled
        /\ \A u \in Tree, q \in Part : u # t \/ q # p => buffers'[u][q] = buffers[u][q]
    <3> DEFINE s == IF tasks' = tasks \cup {new} /\ buffers' = [buffers EXCEPT ![t][p] = <<>>]
                    THEN <<>> ELSE filled
    <3>1. buffers' = [buffers EXCEPT ![t][p] = s]
      BY <1>4, Zenon
    <3>2. DOMAIN buffers = Tree /\ \A u \in Tree : DOMAIN buffers[u] = Part
      BY DEF BuildInv, FillInv, Waiting
    <3> HIDE DEF s
    <3>3. /\ buffers'[t][p] = s
          /\ \A u \in Tree, q \in Part : u # t \/ q # p => buffers'[u][q] = buffers[u][q]
      BY <2>3, <3>1, <3>2, ReplacedIs
    <3>. QED  BY <3>3 DEF s
  <2>10. Len(filled) > 0 /\ Len(<<>>) = 0
    <3>1. IsSeq(buffers[t][p])
      BY <2>3 DEF BuildInv, FillInv, Waiting
    <3> DEFINE s == buffers[t][p]
    <3> HIDE DEF s, leaf
    <3>2. Len(s) \in Nat /\ Len(Append(s, leaf)) = Len(s) + 1
      BY <3>1, AppendedIs DEF s
    <3>3. Len(Append(s, leaf)) > 0
      BY <3>2
    <3>. QED  BY <3>3 DEF s
  <2>11. Len(buffers'[t][p]) = IF AllSeen(t, p)' THEN 0 ELSE Cardinality(SeenAt(pos, t, p)')
    BY <2>3 DEF FillInv, Waiting
  <2>12. ~AllSeen(t, p)' => buffers'[t][p] = filled
    <3> SUFFICES ASSUME ~AllSeen(t, p)', buffers'[t][p] = <<>> PROVE FALSE
      BY <2>9
    <3> DEFINE S == SeenAt(pos, t, p)'
    <3>1. IsFiniteSet(S) /\ pos + 1 \in S
      <4>1. IsFiniteSet(SeenAt(pos + 1, t, p))
        BY <2>2, SeenAre
      <4>. QED  BY <2>4, <2>5, <4>1
    <3>2. Cardinality(S) = 0
      BY <2>10, <2>11
    <3> HIDE DEF S
    <3>. QED  BY <3>1, <3>2, FS_EmptySet
  <2>13. AllSeen(t, p)' => new \in tasks'
    <3> SUFFICES ASSUME AllSeen(t, p)', new \notin tasks' PROVE FALSE
      OBVIOUS
    <3>1. buffers'[t][p] = filled
      BY <2>9
    <3>. QED  BY <2>10, <2>11, <3>1
  <2>14. new.tree = t /\ new.part = p /\ new.leaves = filled
    BY DEF Spawned
  <2> HIDE DEF new, filled
  <2>15. Gathered'
    <3> SUFFICES ASSUME NEW u \in Tree, NEW q \in Part, ~AllSeen(u, q)'
                 PROVE  Holds(buffers[u][q], SeenAt(pos, u, q))'
      BY DEF Gathered
    <3>1. CASE u = t /\ q = p
      BY <2>7, <2>8, <2>12, <3>1
    <3>2. CASE u # t \/ q # p
      <4>1. buffers'[u][q] = buffers[u][q] /\ SeenAt(pos, u, q)' = SeenAt(pos, u, q)
        BY <2>4, <2>5, <2>9, <3>2
      <4>2. Holds(buffers[u][q], SeenAt(pos, u, q))
        BY <2>6, <3>2 DEF BuildInv, Gathered
      <4>. QED  BY <2>7, <4>1, <4>2
    <3>. QED  BY <3>1, <3>2
  <2>16. \A task \in tasks' : task \in tasks \/ task = new
    BY <1>4
  <2>17. Carried'
    <3> SUFFICES ASSUME NEW task \in tasks'
                 PROVE  Holds(task.leaves, LeavesIn(trace, task.tree, task.part))
      BY <2>1, <2>7 DEF Carried
    <3>1. CASE task \in tasks
      BY <3>1 DEF BuildInv, Carried
    <3>2. CASE task = new
      <4>1. AllSeen(t, p)'
        BY <2>14, <3>2 DEF FillInv, Handed
      <4>2. SeenAt(pos, t, p)' = LeavesIn(trace, t, p)
        BY <2>1, <4>1 DEF AllSeen
      <4>. QED  BY <2>8, <2>14, <3>2, <4>2
    <3>. QED  BY <2>16, <3>1, <3>2
  <2>18. Filled'
    <3>1. ASSUME NEW u, NEW q, Awaited(u, q)
          PROVE  Awaited(u, q)'
      <4>1. CASE u = t /\ q = p
        BY <2>13, <2>14, <4>1 DEF Awaited
      <4>2. CASE u # t \/ q # p
        <5>1. tasks \subseteq tasks'
          BY <1>4
        <5>2. AllSeen(u, q)' <=> AllSeen(u, q)
          BY <2>6, <4>2
        <5>. QED  BY <3>1, <5>1, <5>2 DEF Awaited
      <4>. QED  BY <4>1, <4>2
    <3>. QED  BY <1>1, <1>2, <2>2, <3>1, FilledKept DEF BuildInv
  <2>19. Recorded'
    <3>1. 1..pos \subseteq 1..(pos + 1)
      BY <2>2
    <3>2. DOMAIN data \subseteq {i \in 1..(pos + 1) : trace[i].of = "access"}
      BY <3>1 DEF BuildInv, Recorded
    <3>. QED  BY <1>1, <1>4, <2>1, <3>2 DEF Recorded
  <2>20. DataFits'
    <3> DEFINE f == Bytes(trace)
               s == SumTo(f, pos)
    <3>1. f[pos] \in Nat /\ s \in Nat /\ SumTo(f, pos + 1) = s + f[pos] /\ dedup.used <= s
      BY <1>1, <2>2, RoomForData DEF BuildInv, DataFits
    <3>2. dedup.used <= SumTo(f, pos + 1)
      <4> HIDE DEF f, s
      <4>. QED  BY <2>2, <3>1
    <3>. QED  BY <1>1, <1>4, <2>1, <3>2 DEF DataFits
  <2>21. Inside' /\ phase' \in Phase
    BY <1>2, <1>4, <2>1 DEF BuildInv, Inside
  <2>. QED  BY <2>15, <2>17, <2>18, <2>19, <2>20, <2>21 DEF BuildInv
<1>. QED  BY <1>3, <1>4 DEF FillLeaf, PushLeafIntoPartition

\* An item is where it has been stored.
LEMMA ItemStored ==
  ASSUME NEW start \in Nat, NEW type \in Type, NEW n \in Nat,
         NEW items, DOMAIN items = 1..n, NEW i \in 1..n, NEW q, q = start + (i - 1) * Size[type]
  PROVE  q \in DOMAIN ItemsAt(start, type, items) /\ ItemsAt(start, type, items)[q] = items[i]
<1> DEFINE w == Size[type]
           a == (i - 1) * w
<1>1. w \in Nat /\ w > 0
  BY SizeIs
<1>2. i - 1 \in Nat /\ (i - 1) + 1 = i
  OBVIOUS
<1>3. a \in Nat /\ a \div w = i - 1
  <2> DEFINE b == i - 1
  <2> HIDE DEF w, b
  <2>1. b * w \in Nat /\ (b * w) \div w = b
    BY <1>1, <1>2, MultipleIs DEF b
  <2>. QED  BY <2>1 DEF b
<1>4. q - start = a
  <2>1. q = start + a
    OBVIOUS
  <2> HIDE DEF a
  <2>. QED  BY <1>3, <2>1
<1>5. ((q - start) \div w) + 1 = i
  <2>1. (q - start) \div w = i - 1
    BY <1>3, <1>4
  <2> HIDE DEF w
  <2>. QED  BY <1>2, <2>1
<1>6. q \in {start + (j - 1) * Size[type] : j \in DOMAIN items}
  OBVIOUS
<1>7. q \in DOMAIN ItemsAt(start, type, items)
  BY <1>6 DEF ItemsAt
<1>8. ItemsAt(start, type, items)[q] = items[((q - start) \div Size[type]) + 1]
  BY <1>6, Zenon DEF ItemsAt
<1>. QED  BY <1>5, <1>7, <1>8

\* A worker copies the leaves it has sorted.
LEMMA TaskBuild ==
  ASSUME BuildInv, FillInv', NEW task \in tasks, RunTask(task)
  PROVE  BuildInv'
<1> DEFINE t == task.tree
           p == task.part
           n == Len(task.leaves)
           view == ViewOf(t, p)
           items == ItemsAt(view.start, t[1], Sorted(task))
<1>1. /\ tasks' = tasks \ {task} /\ UNCHANGED <<plan, phase, pos, dedup, data, buffers>>
      /\ Store(items)
  BY DEF RunTask, CopyLeaves, ViewOf
<1>2. trace' = trace /\ room' = room /\ layout' = layout /\ scout' = scout
  BY <1>1 DEF plan
<1>3. Planned /\ Counted(t) /\ p \in Part /\ n = room[t][p] /\ trace \in Traces
      /\ \A other \in tasks : other.tree = t /\ other.part = p => other = task
  BY DEF BuildInv, FillInv, Handed, Planned
<1>4. /\ n \in Nat /\ DOMAIN Sorted(task) = 1..n
      /\ \E g : Lists(g, n, LeavesIn(trace, t, p)) /\ Ascending(g, n, t) /\ HoldsAt(Sorted(task), g, n)
  <2>1. Holds(task.leaves, LeavesIn(trace, t, p))
    BY DEF BuildInv, Carried
  <2>2. LeavesIn(trace, t, p) \in SUBSET LeavesOf(trace, task.tree)
    BY DEF LeavesIn
  <2>. QED  BY <1>3, <2>1, <2>2, SortedIs
<1>5. /\ view.start \in Nat /\ view.end \in Nat /\ Size[t[1]] \in Nat /\ t[1] \in Type
      /\ view.end = view.start + n * Size[t[1]]
  BY <1>3, ViewIs, CountedIs
<1>6. DOMAIN items \subseteq Places(view)
  <2>1. DOMAIN items \subseteq view.start..(view.start + n * Size[t[1]] - 1)
    <3> HIDE DEF view, n
    <3>. QED  BY <1>4, <1>5, StoredIn
  <2> DEFINE m == n * Size[t[1]]
  <2>2. view.end = view.start + m /\ view.start \in Nat /\ m \in Nat
    BY <1>4, <1>5
  <2> HIDE DEF view, items, m
  <2>3. DOMAIN items \subseteq view.start..(view.start + m - 1)
    BY <2>1 DEF m
  <2>. QED  BY <2>2, <2>3 DEF Places
<1>7. /\ DOMAIN file' = DOMAIN file \cup DOMAIN items
      /\ \A q \in DOMAIN items : file'[q] = items[q]
      /\ \A q \in DOMAIN file : q \notin DOMAIN items => file'[q] = file[q]
  <2> HIDE DEF items
  <2>. QED  BY <1>1 DEF Store
<1>8. Apart
  BY <1>3, PlannedApart
<1>9. LeavesKept
  <2> SUFFICES ASSUME NEW u, NEW r, Counted(u), r \in Part, NEW q \in DOMAIN file \cap Places(ViewOf(u, r))
               PROVE  q \in DOMAIN file' /\ file'[q] = file[q]
    BY DEF LeavesKept
  <2>1. CASE u = t /\ r = p
    <3>1. Awaited(t, p)
      BY DEF Awaited
    <3>2. DOMAIN file \cap Places(ViewOf(t, p)) = {}
      BY <1>3, <3>1 DEF BuildInv, FillInv, Unwritten
    <3>. QED  BY <2>1, <3>2
  <2>2. CASE u # t \/ r # p
    <3>1. Places(view) \cap Places(ViewOf(u, r)) = {}
      BY <1>3, <1>8, <2>2, ViewsAreApart
    <3>2. q \notin DOMAIN items
      <4> HIDE DEF view, items
      <4>. QED  BY <1>6, <3>1
    <3>. QED  BY <1>7, <3>2
  <2>. QED  BY <2>1, <2>2
<1>10. Inside'
  <2>1. Places(view) \subseteq 0..(layout.size - 1)
    BY <1>3, SlotIs
  <2> HIDE DEF view, items
  <2>2. DOMAIN file' \subseteq 0..(layout.size - 1)
    BY <1>6, <1>7, <2>1 DEF BuildInv, Inside
  <2>. QED  BY <1>2, <2>2 DEF Inside
<1>11. \A u, q : (AllSeen(u, q)' <=> AllSeen(u, q)) /\ SeenAt(pos, u, q)' = SeenAt(pos, u, q)
  BY <1>1, <1>2 DEF AllSeen, SeenAt
<1>12. \A s, S : Holds(s, S)' <=> Holds(s, S)
  BY <1>2 DEF Holds, HoldsAt
<1>13. Gathered' /\ Carried'
  BY <1>1, <1>2, <1>11, <1>12 DEF BuildInv, Gathered, Carried
<1>14. \A u, q : Counted(u)' = Counted(u) /\ ViewOf(u, q)' = ViewOf(u, q)
  BY <1>2 DEF Counted, ViewOf
<1>15. FileHolds(t, p)'
  <2>1. PICK g : Lists(g, n, LeavesIn(trace, t, p)) /\ Ascending(g, n, t) /\ HoldsAt(Sorted(task), g, n)
    BY <1>4
  <2>2. ASSUME NEW i \in 1..n
        PROVE  SlotOf(t, p, i) \in DOMAIN file' /\ file'[SlotOf(t, p, i)].node = trace[g[i]].node
    <3>1. SlotOf(t, p, i) = view.start + (i - 1) * Size[t[1]]
      BY DEF SlotOf
    <3>2. SlotOf(t, p, i) \in DOMAIN items /\ items[SlotOf(t, p, i)] = Sorted(task)[i]
      <4> DEFINE a == view.start
                 type == t[1]
                 x == Sorted(task)
                 q == SlotOf(t, p, i)
      <4>1. q = a + (i - 1) * Size[type] /\ i \in 1..n
        BY <3>1
      <4>2. a \in Nat /\ type \in Type /\ DOMAIN x = 1..n /\ n \in Nat
        BY <1>4, <1>5
      <4> HIDE DEF a, type, x, n, q
      <4>3. q \in DOMAIN ItemsAt(a, type, x) /\ ItemsAt(a, type, x)[q] = x[i]
        BY <4>1, <4>2, ItemStored
      <4>. QED  BY <4>3 DEF a, type, x, q
    <3>3. Sorted(task)[i].node = trace[g[i]].node
      BY <2>1 DEF HoldsAt
    <3> HIDE DEF items
    <3>. QED  BY <1>7, <3>2, <3>3
  <2>3. Ascending(g, room[t][p], t)'
    BY <1>2, <1>3, <2>1 DEF Ascending, KeyOf
  <2>4. \A i : SlotOf(t, p, i)' = SlotOf(t, p, i)
    BY <1>2 DEF SlotOf, ViewOf
  <2>5. Lists(g, room'[t][p], LeavesIn(trace', t, p))
    BY <1>2, <1>3, <2>1
  <2>6. \A i \in 1..room'[t][p] :
          SlotOf(t, p, i)' \in DOMAIN file' /\ file'[SlotOf(t, p, i)'].node = trace'[g[i]].node
    BY <1>2, <1>3, <2>2, <2>4
  <2>. QED  BY <2>3, <2>5, <2>6 DEF FileHolds
<1>16. Filled'
  <2> SUFFICES ASSUME NEW u, NEW q, Counted(u), q \in Part, ~Awaited(u, q)'
               PROVE  FileHolds(u, q)'
    BY <1>14 DEF Filled
  <2>1. CASE u = t /\ q = p
    BY <1>15, <2>1
  <2>2. CASE u # t \/ q # p
    <3>1. ~Awaited(u, q)
      BY <1>1, <1>11, <2>2 DEF Awaited
    <3>2. FileHolds(u, q)
      BY <3>1 DEF BuildInv, Filled
    <3>. QED  BY <1>1, <1>3, <1>9, <3>2, KeptIsHeld
  <2>. QED  BY <2>1, <2>2
<1>17. Recorded' /\ DataFits' /\ phase' \in Phase
  BY <1>1, <1>2 DEF BuildInv, Recorded, DataFits
<1>. QED  BY <1>10, <1>13, <1>16, <1>17 DEF BuildInv

\* The levels of a tree are a sequence.
LEMMA LevelsListing ==
  ASSUME NEW order \in Order, NEW n \in Nat
  PROVE  DOMAIN Levels(order, n) = 1..Len(Levels(order, n)) /\ Len(Levels(order, n)) \in Nat
<1> DEFINE sizes == LevelSizes(order)[n]
           top == Len(sizes)
           placed == [i \in DOMAIN sizes |-> [offset |-> OffsetOf(sizes)[i], size |-> sizes[i]]]
<1>1. top \in Nat /\ Len(Levels(order, n)) = top /\ DOMAIN sizes = 1..top
  BY LevelsAre
<1>2. Levels(order, n) = Reverse(placed)
  BY DEF Levels
<1> HIDE DEF sizes, top
<1>3. DOMAIN placed = 1..top
  BY <1>1
<1> HIDE DEF placed
<1>4. Len(placed) = top
  BY <1>1, <1>3
<1>5. DOMAIN Reverse(placed) = 1..Len(placed)
  BY DEF Reverse
<1>. QED  BY <1>1, <1>2, <1>4, <1>5

\* The nodes over the leaves in the file are as many as were planned.
LEMMA NodesFit ==
  ASSUME Planned, NEW t, Counted(t), \A p \in Part : FileHolds(t, p)
  PROVE  /\ Len(NodesOf(t)) \in Nat /\ DOMAIN NodesOf(t) = 1..Len(NodesOf(t))
         /\ Len(NodesOf(t)) = NodesRequest(scout, t).count /\ NodesOf(t) \in Seq(Node)
<1> DEFINE n == scout.leaves[t]
           leaves == LeavesInFile(t)
           below == [i \in DOMAIN leaves |-> leaves[i].node]
           order == scout.order
<1>1. n \in Nat /\ DOMAIN leaves = 1..n
  BY TreeRead
<1>2. PICK g : Lists(g, n, LeavesOf(trace, t)) /\ HoldsAt(leaves, g, n)
  BY TreeRead
<1>3. order \in Order /\ trace \in Traces
  BY TreeWants DEF Scouted, Planned
<1> HIDE DEF n, leaves
<1>4. \A i \in 1..n : leaves[i].node \in Node
  <2> TAKE i \in 1..n
  <2>1. g[i] \in LeavesOf(trace, t) /\ leaves[i].node = trace[g[i]].node
    BY <1>2 DEF Lists, HoldsAt
  <2>. QED  BY <1>3, <2>1, KeyIs
<1>5. below \in [1..n -> Node]
  BY <1>1, <1>4
<1> HIDE DEF below
<1>6. below \in Seq(Node) /\ Len(below) = n
  BY <1>1, <1>5, IsSequence
<1>7. NodesOf(t) = NodesOver(order)[below]
  BY DEF NodesOf, below, leaves, LeavesInFile
<1>8. NodesOf(t) \in Seq(Node)
  <2> HIDE DEF order
  <2>. QED  BY <1>3, <1>6, <1>7, NodesOverAre
<1>9. Len(NodesOf(t)) = NodeCount(Levels(order, n))
  <2> HIDE DEF order
  <2>. QED  BY <1>3, <1>6, <1>7, NodesCounted
<1>10. NodesRequest(scout, t).count = NodeCount(Levels(order, n))
  BY DEF NodesRequest, Request, LevelsOf, n
<1>. QED  BY <1>8, <1>9, <1>10

\* After the fill pass every partition has been written.
LEMMA AllFilled ==
  ASSUME BuildInv, phase \notin {"allocate", "fill", "unwinding", "panicked"}, NEW t, Counted(t)
  PROVE  \A p \in Part : FileHolds(t, p)
<1>1. pos = Len(trace) /\ tasks = {} /\ trace \in Traces
  BY DEF BuildInv, FillInv, InOrder, Planned, Phase
<1> TAKE p \in Part
<1>2. LeavesIn(trace, t, p) \subseteq 1..Len(trace)
  BY <1>1, LeavesCount
<1>3. AllSeen(t, p)
  BY <1>1, <1>2 DEF AllSeen, SeenAt
<1>4. ~Awaited(t, p)
  BY <1>1, <1>3 DEF Awaited
<1>. QED  BY <1>4 DEF BuildInv, Filled

\* A step that only writes to the file, where there are no leaves.
LEMMA WriteBuild ==
  ASSUME BuildInv, FillInv', NEW from, NEW to \in Phase, NEW start, NEW type, NEW items,
         Write(from, to, start, type, items), Elsewhere(DOMAIN ItemsAt(start, type, items))
  PROVE  BuildInv'
<1> DEFINE stored == ItemsAt(start, type, items)
<1>1. phase' = to /\ UNCHANGED <<plan, filling>> /\ Store(stored)
  BY Zenon DEF Write, Step
<1>2. Elsewhere(DOMAIN stored)
  OBVIOUS
<1> HIDE DEF stored
<1>3. LeavesKept /\ DOMAIN file' \subseteq 0..(layout.size - 1)
  BY <1>1, <1>2, StoreKeeps DEF BuildInv
<1>. QED  BY <1>1, <1>3, QuietBuild

\* The header has a place of its own.
LEMMA HeaderStored ==
  ASSUME Planned, NEW x
  PROVE  Elsewhere(DOMAIN ItemsAt(0, "header", <<x>>))
<1> DEFINE s == <<x>>
           h == Size["header"]
           D == DOMAIN ItemsAt(0, "header", s)
<1>1. DOMAIN s = 1..1
  OBVIOUS
<1>2. "header" \in Type
  BY DEF Type
<1> HIDE DEF s
<1>3. D \subseteq 0..(0 + 1 * Size["header"] - 1)
  BY <1>1, <1>2, StoredIn
<1>4. h \in Nat /\ Elsewhere(0..(h - 1))
  BY HeaderElsewhere
<1>5. D \subseteq 0..(h - 1)
  <2>1. D \subseteq 0..(0 + 1 * h - 1)
    BY <1>3
  <2>2. 0 + 1 * h - 1 = h - 1
    <3> HIDE DEF h
    <3>. QED  BY <1>4
  <2> HIDE DEF D, h
  <2>. QED  BY <2>1, <2>2
<1> HIDE DEF D, h
<1>6. Elsewhere(D)
  BY <1>4, <1>5 DEF Elsewhere
<1>. QED  BY <1>6 DEF D, s

\* The header, and what the data have not used.
LEMMA HeaderBuild ==
  ASSUME BuildInv, FillInv', WriteHeader \/ TruncateData
  PROVE  BuildInv'
<1>1. ASSUME NEW from, NEW to \in Phase, NEW x, Write(from, to, 0, "header", <<x>>)
      PROVE  BuildInv'
  <2>1. Elsewhere(DOMAIN ItemsAt(0, "header", <<x>>))
    BY HeaderStored DEF BuildInv, FillInv
  <2>. QED  BY <1>1, <2>1, WriteBuild
<1>2. "metadata" \in Phase /\ "register nodes" \in Phase
  BY DEF Phase
<1>3. CASE WriteHeader
  <2>1. \E x : Write("header", "metadata", 0, "header", <<x>>)
    BY <1>3, Zenon DEF WriteHeader
  <2>. QED  BY <1>1, <1>2, <2>1
<1>4. CASE TruncateData
  <2>1. \E x : Write("data", "register nodes", 0, "header", <<x>>)
    BY <1>4, Zenon DEF TruncateData
  <2>. QED  BY <1>1, <1>2, <2>1
<1>. QED  BY <1>3, <1>4

\* The metadata are not empty, and have room in their section.
LEMMA MetadataBuild ==
  ASSUME BuildInv, FillInv', WriteMetadata
  PROVE  BuildInv'
<1> DEFINE r == MetadataRequest(scout)
           items == <<"metadata">>
<1>1. r.name = <<"metadata">> /\ r.type = "byte" /\ r.count = Metadata
  BY DEF MetadataRequest, Request, BuildInv, FillInv, Planned, ScoutPass
<1>2. Planned /\ r \in Wanted(scout) /\ r.name[1] # "leaves"
  BY <1>1, TreeWants DEF BuildInv, FillInv
<1>3. DOMAIN items = 1..1 /\ 1 <= r.count
  BY <1>1, TracesAssumption
<1> HIDE DEF r, items
<1>4. Elsewhere(DOMAIN ItemsAt(layout.at[r.name].start, r.type, items))
  BY <1>2, <1>3, ItemsElsewhere
<1>5. Write("metadata", "write trees", layout.at[r.name].start, r.type, items)
  BY <1>1, Zenon DEF WriteMetadata, items
<1>6. "write trees" \in Phase
  BY DEF Phase
<1>. QED  BY <1>4, <1>5, <1>6, WriteBuild

\* The headers, the bounding boxes and the levels of the trees of a kind.
LEMMA TreesBuild ==
  ASSUME BuildInv, FillInv', NEW k \in Kind, NEW from, NEW to \in Phase, WriteTrees(k, from, to)
  PROVE  BuildInv'
<1> DEFINE trees == TreesOf(scout, k)
           headers == [i \in DOMAIN trees |-> TreeHeader(trees[i])]
           bboxes == [i \in DOMAIN trees |-> BboxOf(trace, trees[i])]
           HeadersAt == ItemsAt(layout.at[<<"headers", k>>].start, "tree", headers)
           BboxesAt == ItemsAt(layout.at[<<"bboxes", k>>].start, "node", bboxes)
           LevelsAt(t) == ItemsAt(layout.at[<<"levels", t>>].start, "level", LevelsOf(scout, t))
           all == {HeadersAt, BboxesAt} \cup {LevelsAt(t) : t \in Range(trees)}
<1>1. phase' = to /\ UNCHANGED <<plan, filling>> /\ StoreAll(all)
  <2>1. Step(from, to) /\ UNCHANGED <<plan, filling, size>> /\ \E stored \in {all} : StoreAll(stored)
    BY Zenon DEF WriteTrees
  <2>2. phase' = to
    BY <2>1, Zenon DEF Step
  <2> HIDE DEF all
  <2>. QED  BY <2>1, <2>2
<1>2. Planned /\ scout.count[k] \in Nat
  BY TreeWants DEF BuildInv, FillInv, Scouted
<1>3. DOMAIN trees = 1..scout.count[k]
  BY DEF TreesOf
<1>4. Elsewhere(DOMAIN HeadersAt)
  <2> DEFINE r == HeadersOf(scout, k)
  <2>1. r.name = <<"headers", k>> /\ r.type = "tree" /\ r.count = scout.count[k]
    BY DEF HeadersOf, Request
  <2>2. r \in Wanted(scout) /\ r.name[1] # "leaves"
    BY <1>2, <2>1, TreeWants
  <2>3. DOMAIN headers = 1..scout.count[k] /\ scout.count[k] <= r.count
    BY <1>2, <1>3, <2>1
  <2> HIDE DEF r, headers, trees
  <2>4. Elsewhere(DOMAIN ItemsAt(layout.at[r.name].start, r.type, headers))
    BY <1>2, <2>2, <2>3, ItemsElsewhere
  <2>. QED  BY <2>1, <2>4
<1>5. Elsewhere(DOMAIN BboxesAt)
  <2> DEFINE r == BboxesOf(scout, k)
  <2>1. r.name = <<"bboxes", k>> /\ r.type = "node" /\ r.count = scout.count[k]
    BY DEF BboxesOf, Request
  <2>2. r \in Wanted(scout) /\ r.name[1] # "leaves"
    BY <1>2, <2>1, TreeWants
  <2>3. DOMAIN bboxes = 1..scout.count[k] /\ scout.count[k] <= r.count
    BY <1>2, <1>3, <2>1
  <2> HIDE DEF r, bboxes, trees
  <2>4. Elsewhere(DOMAIN ItemsAt(layout.at[r.name].start, r.type, bboxes))
    BY <1>2, <2>2, <2>3, ItemsElsewhere
  <2>. QED  BY <2>1, <2>4
<1>6. ASSUME NEW t \in Range(trees)
      PROVE  Elsewhere(DOMAIN LevelsAt(t))
  <2> DEFINE r == LevelsRequest(scout, t)
             levels == LevelsOf(scout, t)
             n == Len(levels)
  <2>1. Counted(t)
    BY AllAreCounted
  <2>2. r.name = <<"levels", t>> /\ r.type = "level" /\ r.count = n
    BY DEF LevelsRequest, Request
  <2>3. r \in Wanted(scout) /\ r.name[1] # "leaves"
    BY <1>2, <2>1, <2>2, TreeWants
  <2>4. n \in Nat /\ DOMAIN levels = 1..n
    <3>1. scout.order \in Order /\ scout.leaves[t] \in Nat
      <4>1. scout.order \in Order
        BY <1>2, TreeWants DEF Scouted
      <4>2. scout.leaves[t] \in Nat
        BY <1>2, <2>1, TreeWants DEF Scouted, Counted, TreesIn
      <4>. QED  BY <4>1, <4>2
    <3>. QED  BY <3>1, LevelsListing DEF LevelsOf
  <2>5. n <= r.count
    <3> HIDE DEF n, r
    <3>. QED  BY <2>2, <2>4
  <2> HIDE DEF r, levels, n
  <2>6. Elsewhere(DOMAIN ItemsAt(layout.at[r.name].start, r.type, levels))
    BY <1>2, <2>3, <2>4, <2>5, ItemsElsewhere
  <2>. QED  BY <2>2, <2>6 DEF levels
<1>7. \A items \in all : Elsewhere(DOMAIN items)
  <2> HIDE DEF HeadersAt, BboxesAt, LevelsAt, trees
  <2>. QED  BY <1>4, <1>5, <1>6
<1> HIDE DEF all
<1>8. LeavesKept /\ DOMAIN file' \subseteq 0..(layout.size - 1)
  BY <1>1, <1>7, StoreAllKeeps DEF BuildInv
<1>. QED  BY <1>1, <1>8, QuietBuild

\* The nodes over the leaves of the trees of a kind.
LEMMA NodesBuild ==
  ASSUME BuildInv, FillInv', NEW k \in Kind, NEW to \in Phase, NEW from,
         from \notin {"allocate", "fill", "unwinding", "panicked"}, WriteNodes(k, from, to)
  PROVE  BuildInv'
<1> DEFINE trees == Range(TreesOf(scout, k))
           nodes == [t \in trees |-> NodesOf(t)]
           NodesAt(t) == ItemsAt(layout.at[<<"nodes", t>>].start, "node", NodesOf(t))
           all == {ItemsAt(layout.at[<<"nodes", t>>].start, "node", nodes[t]) : t \in DOMAIN nodes}
<1>1. phase = from /\ phase' = to /\ UNCHANGED <<plan, filling>> /\ StoreAll(all)
  <2>1. /\ Step(from, to) /\ UNCHANGED <<plan, filling, size>>
        /\ \E ns \in {nodes} :
             StoreAll({ItemsAt(layout.at[<<"nodes", t>>].start, "node", ns[t]) : t \in DOMAIN ns})
    BY Zenon DEF WriteNodes
  <2>2. phase = from /\ phase' = to
    BY <2>1, Zenon DEF Step
  <2>3. StoreAll(all)
    <3> HIDE DEF nodes
    <3>. QED  BY <2>1
  <2>. QED  BY <2>1, <2>2, <2>3
<1>2. Planned
  BY DEF BuildInv, FillInv
<1>3. ASSUME NEW t \in trees
      PROVE  Elsewhere(DOMAIN NodesAt(t))
  <2> DEFINE r == NodesRequest(scout, t)
             items == NodesOf(t)
             n == Len(items)
  <2>1. Counted(t)
    BY AllAreCounted
  <2>2. r.name = <<"nodes", t>> /\ r.type = "node"
    BY DEF NodesRequest, Request
  <2>3. r \in Wanted(scout) /\ r.name[1] # "leaves"
    BY <1>2, <2>1, <2>2, TreeWants
  <2>4. n \in Nat /\ DOMAIN items = 1..n /\ n = r.count
    <3>1. \A p \in Part : FileHolds(t, p)
      BY <1>1, <2>1, AllFilled
    <3>. QED  BY <1>2, <2>1, <3>1, NodesFit
  <2> HIDE DEF r, items, n
  <2>5. n <= r.count
    BY <2>4
  <2>6. Elsewhere(DOMAIN ItemsAt(layout.at[r.name].start, r.type, items))
    BY <1>2, <2>3, <2>4, <2>5, ItemsElsewhere
  <2>. QED  BY <2>2, <2>6 DEF items
<1>4. ASSUME NEW items \in all
      PROVE  Elsewhere(DOMAIN items)
  <2>1. PICK t \in trees : items = NodesAt(t)
    OBVIOUS
  <2>. QED  BY <1>3, <2>1
<1> HIDE DEF all
<1>5. LeavesKept /\ DOMAIN file' \subseteq 0..(layout.size - 1)
  BY <1>1, <1>4, StoreAllKeeps DEF BuildInv
<1>. QED  BY <1>1, <1>5, QuietBuild

\* What a build has done of its plan is kept by every step.
LEMMA BuildInvNext == BuildInv /\ [Next]_vars => BuildInv'
<1> SUFFICES ASSUME BuildInv, [Next]_vars PROVE BuildInv'
  OBVIOUS
<1>1. FillInv'
  BY FillInvNext DEF BuildInv
<1>2. ASSUME UNCHANGED <<plan, filling, file>>, phase' \in Phase
      PROVE  BuildInv'
  <2>1. LeavesKept /\ DOMAIN file' \subseteq 0..(layout.size - 1)
    BY <1>2 DEF LeavesKept, BuildInv, Inside
  <2>. QED  BY <1>1, <1>2, <2>1, QuietBuild
<1>3. CASE UNCHANGED vars
  <2>1. UNCHANGED <<plan, filling, file>> /\ phase' = phase
    BY <1>3 DEF vars
  <2>. QED  BY <1>2, <2>1 DEF BuildInv
<1>4. ASSUME FillAccess
      PROVE  BuildInv'
  BY <1>1, <1>4, AccessBuild
<1>5. ASSUME FillLeaf
      PROVE  BuildInv'
  BY <1>1, <1>5, LeafBuild
<1>6. ASSUME NEW task \in tasks, RunTask(task)
      PROVE  BuildInv'
  BY <1>1, <1>6, TaskBuild
<1>7. ASSUME Allocate
      PROVE  BuildInv'
  <2>1. Apart
    BY PlannedApart DEF BuildInv, FillInv
  <2>2. phase' = "fill" /\ UNCHANGED <<plan, filling, file>>
    BY <1>7, <2>1 DEF Allocate, Step, Apart
  <2>3. phase' \in Phase
    BY <2>2 DEF Phase
  <2>. QED  BY <1>2, <2>2, <2>3
<1>8. ASSUME EndOfScope
      PROVE  BuildInv'
  <2>1. pos = Len(trace) /\ UNCHANGED <<plan, filling, file>>
    BY <1>8 DEF EndOfScope
  <2>2. \A t \in Tree, p \in Part : buffers[t][p] = <<>>
    <3> TAKE t \in Tree, p \in Part
    <3>1. LeavesIn(trace, t, p) \subseteq 1..Len(trace)
      BY LeavesCount DEF BuildInv, FillInv, Planned
    <3>2. AllSeen(t, p)
      BY <2>1, <3>1 DEF AllSeen, SeenAt
    <3>3. IsSeq(buffers[t][p]) /\ Len(buffers[t][p]) = 0
      BY <3>2 DEF BuildInv, FillInv, Waiting
    <3> DEFINE s == buffers[t][p]
    <3>4. PICK S : s \in Seq(S)
      BY <3>3 DEF IsSeq
    <3>5. Len(s) = 0
      BY <3>3
    <3> HIDE DEF s
    <3>6. s = <<>>
      BY <3>4, <3>5
    <3>. QED  BY <3>6 DEF s
  <2>3. phase' = "header"
    BY <1>8, <2>2 DEF EndOfScope, Step
  <2>4. phase' \in Phase
    BY <2>3 DEF Phase
  <2>. QED  BY <1>2, <2>1, <2>4
<1>9. ASSUME Unwind
      PROVE  BuildInv'
  <2>1. UNCHANGED <<plan, filling, file>> /\ phase' = "panicked"
    BY <1>9 DEF Unwind, Step
  <2>2. phase' \in Phase
    BY <2>1 DEF Phase
  <2>. QED  BY <1>2, <2>1, <2>2
<1>10. ASSUME Truncate
       PROVE  BuildInv'
  <2>1. UNCHANGED <<plan, filling, file>> /\ phase' = "done"
    BY <1>10 DEF Truncate, Step
  <2>2. phase' \in Phase
    BY <2>1 DEF Phase
  <2>. QED  BY <1>2, <2>1, <2>2
<1>11. ASSUME Kill
       PROVE  BuildInv'
  <2>1. UNCHANGED <<plan, filling, file>> /\ phase' = phase
    BY <1>11 DEF Kill
  <2>. QED  BY <1>2, <2>1 DEF BuildInv
<1>12. ASSUME WriteHeader \/ TruncateData
       PROVE  BuildInv'
  BY <1>1, <1>12, HeaderBuild
<1>13. ASSUME WriteMetadata
       PROVE  BuildInv'
  BY <1>1, <1>13, MetadataBuild
<1>14. ASSUME NEW k \in Kind, NEW from, NEW to \in Phase, WriteTrees(k, from, to)
       PROVE  BuildInv'
  BY <1>1, <1>14, TreesBuild
<1>15. ASSUME NEW k \in Kind, NEW from \in Phase, NEW to \in Phase,
              from \notin {"allocate", "fill", "unwinding", "panicked"}, WriteNodes(k, from, to)
       PROVE  BuildInv'
  BY <1>1, <1>15, NodesBuild
<1>16. /\ "write" \in Kind /\ "read" \in Kind /\ "register" \in Kind
       /\ "read trees" \in Phase /\ "register trees" \in Phase /\ "data" \in Phase
       /\ \A x \in {"register nodes", "write nodes", "read nodes", "truncate"} :
            x \in Phase /\ x \notin {"allocate", "fill", "unwinding", "panicked"}
  BY DEF Kind, Phase
<1>17. ASSUME \/ WriteTrees("write", "write trees", "read trees")
              \/ WriteTrees("read", "read trees", "register trees")
              \/ WriteTrees("register", "register trees", "data")
       PROVE  BuildInv'
  <2>1. CASE WriteTrees("write", "write trees", "read trees")
    BY <1>14, <1>16, <2>1
  <2>2. CASE WriteTrees("read", "read trees", "register trees")
    BY <1>14, <1>16, <2>2
  <2>3. CASE WriteTrees("register", "register trees", "data")
    BY <1>14, <1>16, <2>3
  <2>. QED  BY <1>17, <2>1, <2>2, <2>3
<1>18. ASSUME \/ WriteNodes("register", "register nodes", "write nodes")
              \/ WriteNodes("write", "write nodes", "read nodes")
              \/ WriteNodes("read", "read nodes", "truncate")
       PROVE  BuildInv'
  <2>1. CASE WriteNodes("register", "register nodes", "write nodes")
    BY <1>15, <1>16, <2>1
  <2>2. CASE WriteNodes("write", "write nodes", "read nodes")
    BY <1>15, <1>16, <2>2
  <2>3. CASE WriteNodes("read", "read nodes", "truncate")
    BY <1>15, <1>16, <2>3
  <2>. QED  BY <1>18, <2>1, <2>2, <2>3
<1>19. ASSUME MainStep
       PROVE  BuildInv'
  BY <1>4, <1>5, <1>7, <1>8, <1>9, <1>10, <1>12, <1>13, <1>17, <1>18, <1>19 DEF MainStep
<1>. QED  BY <1>3, <1>6, <1>11, <1>19 DEF Next

\* A build that has done so is well formed.
LEMMA BuildInvTypes == BuildInv => TypeOK
<1> SUFFICES ASSUME BuildInv PROVE TypeOK
  OBVIOUS
<1>1. pos \in 0..Len(trace) /\ trace \in Traces /\ room = Partitions(trace)
  BY DEF BuildInv, FillInv, Planned
<1>2. ASSUME NEW t \in Tree, NEW p \in Part, buffers[t][p] # <<>>
      PROVE  Len(buffers[t][p]) < room[t][p]
  <2> DEFINE s == buffers[t][p]
             n == Cardinality(SeenAt(pos, t, p))
             m == Cardinality(LeavesIn(trace, t, p))
  <2>1. IsSeq(s) /\ Len(s) = IF AllSeen(t, p) THEN 0 ELSE n
    BY DEF BuildInv, FillInv, Waiting
  <2>2. Len(s) # 0
    <3>1. PICK S : s \in Seq(S)
      BY <2>1 DEF IsSeq
    <3>2. s # <<>>
      BY <1>2
    <3> HIDE DEF s
    <3>. QED  BY <3>1, <3>2
  <2>3. ~AllSeen(t, p) /\ Len(s) = n
    BY <2>1, <2>2
  <2>4. n \in Nat /\ m \in Nat /\ n # m /\ SeenAt(pos, t, p) \subseteq LeavesIn(trace, t, p)
    BY <1>1, <2>3, SeenAre, LeavesCount DEF AllSeen
  <2>5. n <= m
    BY <1>1, <2>4, LeavesCount, FS_Subset
  <2>6. room[t][p] = m
    BY <1>1, PartitionsAre
  <2> HIDE DEF n, m
  <2>. QED  BY <2>3, <2>4, <2>5, <2>6
<1>3. \A task \in tasks : task.tree \in Tree /\ task.part \in Part
  BY CountedIs DEF BuildInv, FillInv, Handed
<1>. QED  BY <1>1, <1>2, <1>3 DEF TypeOK, BuildInv, Phase, Recorded, Inside

\* And its leaves are sorted.
LEMMA BuildInvSorts == BuildInv => LeavesAreSorted
<1> SUFFICES ASSUME BuildInv, AfterFill, NEW t \in AllTrees(scout)
             PROVE  \A leaves \in {LeavesInFile(t)} : \A bbox \in {BboxOf(trace, t)} :
                      /\ \A a, b \in DOMAIN leaves :
                           a < b => HilbertKey(leaves[a].node, bbox) <= HilbertKey(leaves[b].node, bbox)
                      /\ \A i \in LeavesOf(trace, t) :
                           Cardinality({a \in DOMAIN leaves : leaves[a].node = trace[i].node})
                             = Cardinality({j \in LeavesOf(trace, t) : trace[j].node = trace[i].node})
  BY Zenon DEF LeavesAreSorted
<1>1. Counted(t)
  <2>1. PICK k \in Kind : t \in Range(TreesOf(scout, k))
    BY Zenon DEF AllTrees
  <2>. QED  BY <2>1, AllAreCounted
<1>2. \A p \in Part : FileHolds(t, p)
  BY <1>1, AllFilled DEF AfterFill
<1> DEFINE leaves == LeavesInFile(t)
           bbox == BboxOf(trace, t)
<1>3. /\ \A a, b \in DOMAIN leaves :
           a < b => HilbertKey(leaves[a].node, bbox) <= HilbertKey(leaves[b].node, bbox)
      /\ \A i \in LeavesOf(trace, t) :
           Cardinality({a \in DOMAIN leaves : leaves[a].node = trace[i].node})
             = Cardinality({j \in LeavesOf(trace, t) : trace[j].node = trace[i].node})
  <2>1. Planned
    BY DEF BuildInv, FillInv
  <2>. QED  BY <1>1, <1>2, <2>1, TreeSorted
<1> HIDE DEF leaves, bbox
<1>. QED  BY <1>3 DEF leaves, bbox

\* No step of a build panics but on a missing buffer, whatever the trace is and
\* however the workers are scheduled: the views can be taken, the data section
\* has room for every access, and the buffers are empty when the scope ends
\* (fill.rs:131-136, 160-173, layout.rs:268-294).
THEOREM BuildTypes == Spec => []TypeOK
<1>. QED  BY BuildInvInit, BuildInvNext, BuildInvTypes, PTL DEF Spec

\* However the workers are scheduled, the leaves of every tree are those of the
\* trace, in the order of the curve, from the end of the fill pass on (lib.rs:129).
THEOREM BuildSorts == Spec => []LeavesAreSorted
<1>. QED  BY BuildInvInit, BuildInvNext, BuildInvSorts, PTL DEF Spec

\* The greatest of some numbers.
LEMMA TopIs ==
  ASSUME NEW S, S \subseteq Nat, NEW k \in S, \A x \in S : x <= k
  PROVE  Max(S) = k
<1> DEFINE Top(m) == m \in S /\ \A x \in S : m >= x
<1>1. Top(k)
  OBVIOUS
<1>2. \A m : Top(m) => m = k
  OBVIOUS
<1>3. Max(S) = CHOOSE m : Top(m)
  BY DEF Max
<1> HIDE DEF Top
<1>4. Top(CHOOSE m : Top(m))
  BY <1>1, Zenon
<1>. QED  BY <1>2, <1>3, <1>4

\* A fold over the places of a sequence, as the fold of the cuts defines it: of
\* the bytes, and of where they are.
FoldsBytes(f, b, cuts, n) ==
  f = [s \in SUBSET (1..n) |->
         IF s = {} THEN b ELSE CutBytes(f[s \ {Max(s)}], cuts[Max(s)])]
FoldsData(f, d, cuts, n) ==
  f = [s \in SUBSET (1..n) |->
         IF s = {} THEN d ELSE Cut(f[s \ {Max(s)}], cuts[Max(s)])]

\* Such folds exist.
LEMMA FoldsBytesExist ==
  ASSUME NEW b, NEW cuts
  PROVE  \A n \in Nat : \E f : FoldsBytes(f, b, cuts, n)
<1> DEFINE Have == {n \in Nat : \E f : FoldsBytes(f, b, cuts, n)}
<1>1. 0 \in Have
  <2> DEFINE f == [s \in SUBSET (1..0) |-> b]
  <2>1. \A s \in SUBSET (1..0) : s = {}
    OBVIOUS
  <2>2. FoldsBytes(f, b, cuts, 0)
    BY <2>1 DEF FoldsBytes
  <2>. QED  BY <2>2
<1>2. ASSUME NEW n \in Nat, n \in Have
      PROVE  n + 1 \in Have
  <2>1. PICK f : FoldsBytes(f, b, cuts, n)
    BY <1>2
  <2> DEFINE m == n + 1
             g == [s \in SUBSET (1..m) |-> IF m \in s THEN CutBytes(f[s \ {m}], cuts[m]) ELSE f[s]]
  <2>2. \A s \in SUBSET (1..n) : f[s] = IF s = {} THEN b ELSE CutBytes(f[s \ {Max(s)}], cuts[Max(s)])
    BY <2>1, Zenon DEF FoldsBytes
  <2>3. \A s \in SUBSET (1..n) : s \in SUBSET (1..m) /\ m \notin s
    OBVIOUS
  <2>4. \A s \in SUBSET (1..n) : g[s] = f[s]
    BY <2>3
  <2>5. ASSUME NEW s \in SUBSET (1..m)
        PROVE  g[s] = IF s = {} THEN b ELSE CutBytes(g[s \ {Max(s)}], cuts[Max(s)])
    <3>1. CASE m \in s
      <4>1. Max(s) = m
        <5>1. s \subseteq Nat /\ \A x \in s : x <= m
          OBVIOUS
        <5>. QED  BY <3>1, <5>1, TopIs
      <4>2. s \ {m} \in SUBSET (1..n)
        OBVIOUS
      <4>3. g[s] = CutBytes(f[s \ {m}], cuts[m])
        BY <3>1
      <4>4. g[s \ {m}] = f[s \ {m}]
        BY <2>4, <4>2
      <4> HIDE DEF g
      <4>. QED  BY <3>1, <4>1, <4>3, <4>4
    <3>2. CASE m \notin s
      <4>1. s \in SUBSET (1..n)
        BY <3>2
      <4>2. s \ {Max(s)} \in SUBSET (1..n)
        BY <4>1
      <4>3. g[s] = f[s] /\ g[s \ {Max(s)}] = f[s \ {Max(s)}]
        BY <2>4, <4>1, <4>2
      <4> HIDE DEF g
      <4>. QED  BY <2>2, <4>1, <4>3
    <3>. QED  BY <3>1, <3>2
  <2>6. g = [s \in SUBSET (1..m) |-> IF s = {} THEN b ELSE CutBytes(g[s \ {Max(s)}], cuts[Max(s)])]
    <3>1. g = [s \in SUBSET (1..m) |-> g[s]]
      OBVIOUS
    <3> HIDE DEF g, m
    <3>. QED  BY <2>5, <3>1
  <2>7. FoldsBytes(g, b, cuts, m)
    <3> HIDE DEF g
    <3>. QED  BY <2>6 DEF FoldsBytes
  <2>. QED  BY <2>7
<1>3. Nat \subseteq Have
  <2> HIDE DEF Have
  <2>. QED  BY <1>1, <1>2, Induction
<1>. QED  BY <1>3

\* The same for the fold of where the bytes are.
LEMMA FoldsDataExist ==
  ASSUME NEW d, NEW cuts
  PROVE  \A n \in Nat : \E f : FoldsData(f, d, cuts, n)
<1> DEFINE Have == {n \in Nat : \E f : FoldsData(f, d, cuts, n)}
<1>1. 0 \in Have
  <2> DEFINE f == [s \in SUBSET (1..0) |-> d]
  <2>1. \A s \in SUBSET (1..0) : s = {}
    OBVIOUS
  <2>2. FoldsData(f, d, cuts, 0)
    BY <2>1 DEF FoldsData
  <2>. QED  BY <2>2
<1>2. ASSUME NEW n \in Nat, n \in Have
      PROVE  n + 1 \in Have
  <2>1. PICK f : FoldsData(f, d, cuts, n)
    BY <1>2
  <2> DEFINE m == n + 1
             g == [s \in SUBSET (1..m) |-> IF m \in s THEN Cut(f[s \ {m}], cuts[m]) ELSE f[s]]
  <2>2. \A s \in SUBSET (1..n) : f[s] = IF s = {} THEN d ELSE Cut(f[s \ {Max(s)}], cuts[Max(s)])
    BY <2>1, Zenon DEF FoldsData
  <2>3. \A s \in SUBSET (1..n) : s \in SUBSET (1..m) /\ m \notin s
    OBVIOUS
  <2>4. \A s \in SUBSET (1..n) : g[s] = f[s]
    BY <2>3
  <2>5. ASSUME NEW s \in SUBSET (1..m)
        PROVE  g[s] = IF s = {} THEN d ELSE Cut(g[s \ {Max(s)}], cuts[Max(s)])
    <3>1. CASE m \in s
      <4>1. Max(s) = m
        <5>1. s \subseteq Nat /\ \A x \in s : x <= m
          OBVIOUS
        <5>. QED  BY <3>1, <5>1, TopIs
      <4>2. s \ {m} \in SUBSET (1..n)
        OBVIOUS
      <4>3. g[s] = Cut(f[s \ {m}], cuts[m])
        BY <3>1
      <4>4. g[s \ {m}] = f[s \ {m}]
        BY <2>4, <4>2
      <4> HIDE DEF g
      <4>. QED  BY <3>1, <4>1, <4>3, <4>4
    <3>2. CASE m \notin s
      <4>1. s \in SUBSET (1..n)
        BY <3>2
      <4>2. s \ {Max(s)} \in SUBSET (1..n)
        BY <4>1
      <4>3. g[s] = f[s] /\ g[s \ {Max(s)}] = f[s \ {Max(s)}]
        BY <2>4, <4>1, <4>2
      <4> HIDE DEF g
      <4>. QED  BY <2>2, <4>1, <4>3
    <3>. QED  BY <3>1, <3>2
  <2>6. g = [s \in SUBSET (1..m) |-> IF s = {} THEN d ELSE Cut(g[s \ {Max(s)}], cuts[Max(s)])]
    <3>1. g = [s \in SUBSET (1..m) |-> g[s]]
      OBVIOUS
    <3> HIDE DEF g, m
    <3>. QED  BY <2>5, <3>1
  <2>7. FoldsData(g, d, cuts, m)
    <3> HIDE DEF g
    <3>. QED  BY <2>6 DEF FoldsData
  <2>. QED  BY <2>7
<1>3. Nat \subseteq Have
  <2> HIDE DEF Have
  <2>. QED  BY <1>1, <1>2, Induction
<1>. QED  BY <1>3

\* What all the cuts of a leaf make of where its bytes are, and of its bytes.
CutDown(d, cuts) == FoldLeft(Cut, d, cuts)
BytesLeft(bytes, cuts) == FoldLeft(CutBytes, bytes, cuts)

\* What has been cut i times, from the first cut to the last.
CutOneByOne(v, w, d, b, cuts, n) ==
  /\ v[0] = d /\ \A i \in 0..(n - 1) : v[i + 1] = Cut(v[i], cuts[i + 1])
  /\ w[0] = b /\ \A i \in 0..(n - 1) : w[i + 1] = CutBytes(w[i], cuts[i + 1])
  /\ CutDown(d, cuts) = v[n] /\ BytesLeft(b, cuts) = w[n]

\* The folds of the cuts take them one by one, the bytes and where they are alike.
LEMMA CutsAre ==
  ASSUME NEW d, NEW b, NEW n \in Nat, NEW cuts, DOMAIN cuts = 1..n
  PROVE  \E v, w : CutOneByOne(v, w, d, b, cuts, n)
<1> DEFINE f == CHOOSE h : FoldsData(h, d, cuts, n)
           g == CHOOSE h : FoldsBytes(h, b, cuts, n)
<1>1. FoldsData(f, d, cuts, n)
  <2>1. \E h : FoldsData(h, d, cuts, n)
    BY FoldsDataExist
  <2>. QED  BY <2>1, Zenon
<1>2. FoldsBytes(g, b, cuts, n)
  <2>1. \E h : FoldsBytes(h, b, cuts, n)
    BY FoldsBytesExist
  <2>. QED  BY <2>1, Zenon
<1>3. CutDown(d, cuts) = f[1..n]
  <2>1. CutDown(d, cuts) = (CHOOSE h : FoldsData(h, d, cuts, n))[1..n]
    BY Zenon DEF CutDown, FoldLeft, MapThenFoldSet, FoldsData
  <2>. QED  BY <2>1
<1>4. BytesLeft(b, cuts) = g[1..n]
  <2>1. BytesLeft(b, cuts) = (CHOOSE h : FoldsBytes(h, b, cuts, n))[1..n]
    BY Zenon DEF BytesLeft, FoldLeft, MapThenFoldSet, FoldsBytes
  <2>. QED  BY <2>1
<1> HIDE DEF f, g
<1>5. /\ \A s \in SUBSET (1..n) : f[s] = IF s = {} THEN d ELSE Cut(f[s \ {Max(s)}], cuts[Max(s)])
      /\ \A s \in SUBSET (1..n) : g[s] = IF s = {} THEN b ELSE CutBytes(g[s \ {Max(s)}], cuts[Max(s)])
  BY <1>1, <1>2, Zenon DEF FoldsData, FoldsBytes
<1> DEFINE v == [i \in 0..n |-> f[1..i]]
           w == [i \in 0..n |-> g[1..i]]
<1>6. v[0] = d /\ w[0] = b
  <2>1. 0 \in 0..n /\ 1..0 = {} /\ {} \in SUBSET (1..n)
    OBVIOUS
  <2>. QED  BY <1>5, <2>1
<1>7. ASSUME NEW i \in 0..(n - 1)
      PROVE  v[i + 1] = Cut(v[i], cuts[i + 1]) /\ w[i + 1] = CutBytes(w[i], cuts[i + 1])
  <2> DEFINE s == 1..(i + 1)
  <2>1. i \in 0..n /\ i + 1 \in 0..n /\ s \in SUBSET (1..n) /\ s # {} /\ i + 1 \in s
    <3>1. i \in Nat /\ i + 1 \in 1..n
      OBVIOUS
    <3>2. i + 1 \in s /\ \A x \in s : x \in 1..n
      BY <3>1
    <3>3. i \in 0..n /\ i + 1 \in 0..n
      OBVIOUS
    <3> HIDE DEF s
    <3>. QED  BY <3>2, <3>3
  <2>2. Max(s) = i + 1
    <3>1. s \subseteq Nat /\ \A x \in s : x <= i + 1
      OBVIOUS
    <3> HIDE DEF s
    <3>. QED  BY <2>1, <3>1, TopIs
  <2>3. s \ {i + 1} = 1..i
    OBVIOUS
  <2>4. v[i + 1] = f[s] /\ v[i] = f[1..i] /\ w[i + 1] = g[s] /\ w[i] = g[1..i]
    BY <2>1
  <2> HIDE DEF s, v, w
  <2>. QED  BY <1>5, <2>1, <2>2, <2>3, <2>4
<1>8. v[n] = f[1..n] /\ w[n] = g[1..n]
  OBVIOUS
<1> HIDE DEF v, w
<1>. QED  BY <1>3, <1>4, <1>6, <1>7, <1>8 DEF CutOneByOne

\* The data section has some bytes at an offset, in the part that is used.
StoredAt(offset, bytes) ==
  /\ bytes \in Seq(Nat) /\ offset \in Nat /\ offset + Len(bytes) <= dedup.used
  /\ \A j \in 1..Len(bytes) : At(DataSection.start + offset + (j - 1)) = bytes[j]

\* Where the bytes of an access, or what is left of them, are.
StandsFor(d, bytes) ==
  \/ Len(bytes) <= InlineSize /\ d = Inline(bytes)
  \/ /\ Len(bytes) > InlineSize
     /\ \E offset \in Nat : d = Outline(offset, Len(bytes)) /\ StoredAt(offset, bytes)

\* The bytes that a cut leaves.
LEMMA CutBytesAre ==
  ASSUME NEW bytes \in Seq(Nat), NEW cut \in Nat \X Nat
  PROVE  LET rest == Len(bytes) - cut[1] - cut[2]
         IN  /\ rest \in Int /\ CutBytes(bytes, cut) \in Seq(Nat)
             /\ Len(CutBytes(bytes, cut)) = IF rest > 0 THEN rest ELSE 0
             /\ \A j \in 1..Len(CutBytes(bytes, cut)) :
                  j + cut[1] \in 1..Len(bytes) /\ CutBytes(bytes, cut)[j] = bytes[j + cut[1]]
             /\ CutBytes(bytes, cut) = [j \in 1..rest |-> bytes[j + cut[1]]]
             /\ SubSeq(bytes, cut[1] + 1, cut[1] + rest) = CutBytes(bytes, cut)
<1> DEFINE n == Len(bytes)
           a == cut[1]
           c == cut[2]
           rest == n - a - c
           left == SubSeq(bytes, a + 1, n - c)
<1>1. a \in Nat /\ c \in Nat /\ n \in Nat
  OBVIOUS
<1>2. CutBytes(bytes, cut) = left
  BY DEF CutBytes
<1> HIDE DEF a, c
<1>3. rest \in Int /\ a + rest = n - c
  BY <1>1
<1>4. left = [j \in 1..rest |-> bytes[j + a]]
  <2>1. left = [j \in 1..(1 + (n - c) - (a + 1)) |-> bytes[j + (a + 1) - 1]]
    BY <1>1
  <2>2. 1 + (n - c) - (a + 1) = rest
    BY <1>1
  <2>3. \A j \in Int : j + (a + 1) - 1 = j + a
    BY <1>1
  <2>. QED  BY <2>1, <2>2, <2>3
<1>5. \A j \in 1..rest : j + a \in 1..n
  BY <1>1
<1>6. DOMAIN bytes = 1..n /\ \A j \in 1..n : bytes[j] \in Nat
  OBVIOUS
<1> DEFINE m == IF rest > 0 THEN rest ELSE 0
<1>7. m \in Nat /\ 1..rest = 1..m
  BY <1>3
<1>8. left \in [1..m -> Nat]
  <2> HIDE DEF left, n, rest, m
  <2>. QED  BY <1>4, <1>5, <1>6, <1>7
<1>9. left \in Seq(Nat) /\ Len(left) = m
  <2> HIDE DEF left, m
  <2>. QED  BY <1>7, <1>8, IsSequence
<1>10. \A j \in 1..m : j + a \in 1..n /\ left[j] = bytes[j + a]
  <2> HIDE DEF left, n, rest, m
  <2>. QED  BY <1>4, <1>5, <1>7
<1>11. SubSeq(bytes, a + 1, a + rest) = left
  BY <1>3
<1> HIDE DEF left, rest, m
<1>. QED  BY <1>2, <1>3, <1>4, <1>9, <1>10, <1>11 DEF rest, m, a, c

\* What is read of the data section is what is stored there.
LEMMA StoredIs ==
  ASSUME NEW start \in Nat, NEW len \in Int
  PROVE  ReadSection([start |-> start, end |-> start + len], "byte")
           = [i \in 1..len |-> At(start + (i - 1))]
<1> DEFINE section == [start |-> start, end |-> start + len]
           n == (section.end - section.start) \div Size["byte"]
<1>1. Size["byte"] = 1
  BY DEF Size
<1>2. section.start = start /\ section.end = start + len
  OBVIOUS
<1>3. ReadSection(section, "byte") = [i \in 1..n |-> At(section.start + (i - 1) * Size["byte"])]
  BY Zenon DEF ReadSection
<1>4. n = len
  <2>1. n = (start + len - start) \div 1
    BY <1>1, <1>2
  <2>2. start + len - start = len
    OBVIOUS
  <2>3. \A x \in Int : x \div 1 = x
    OBVIOUS
  <2>. QED  BY <2>1, <2>2, <2>3
<1>5. \A i \in Int : section.start + (i - 1) * Size["byte"] = start + (i - 1)
  <2>1. \A i \in Int : (i - 1) * 1 = i - 1
    OBVIOUS
  <2> HIDE DEF section
  <2>. QED  BY <1>1, <1>2, <2>1
<1> HIDE DEF section, n
<1>6. ReadSection(section, "byte") = [i \in 1..len |-> At(start + (i - 1))]
  BY <1>3, <1>4, <1>5
<1>. QED  BY <1>6 DEF section

\* A cut moves to where the rest of the bytes are, or takes them along when
\* they have become few (flat.rs, MaybeInlined::cut).
LEMMA CutHolds ==
  ASSUME DataSection.start \in Nat, InlineSize \in Nat, dedup.used \in Nat,
         NEW bytes \in Seq(Nat), NEW d, StandsFor(d, bytes), NEW cut \in Nat \X Nat
  PROVE  CutBytes(bytes, cut) \in Seq(Nat) /\ StandsFor(Cut(d, cut), CutBytes(bytes, cut))
<1> DEFINE n == Len(bytes)
           a == cut[1]
           c == cut[2]
           rest == n - a - c
           left == CutBytes(bytes, cut)
           s == DataSection.start
<1>1. a \in Nat /\ c \in Nat /\ n \in Nat /\ s \in Nat
  OBVIOUS
<1>2. /\ rest \in Int /\ left \in Seq(Nat) /\ Len(left) = IF rest > 0 THEN rest ELSE 0
      /\ \A j \in 1..Len(left) : j + a \in 1..n /\ left[j] = bytes[j + a]
      /\ left = [j \in 1..rest |-> bytes[j + a]]
      /\ SubSeq(bytes, a + 1, a + rest) = left
  BY CutBytesAre
<1>3. CASE n <= InlineSize /\ d = Inline(bytes)
  <2>1. d.inline /\ d.bytes = bytes /\ d.len = n
    BY <1>3 DEF Inline
  <2>2. Cut(d, cut) = Inline(SubSeq(d.bytes, a + 1, a + (d.len - a - c)))
    BY <2>1, Zenon DEF Cut
  <2>3. Cut(d, cut) = Inline(left)
    BY <1>2, <2>1, <2>2
  <2>4. Len(left) <= InlineSize
    <3> HIDE DEF left, n, a, c
    <3>. QED  BY <1>1, <1>2, <1>3
  <2>. QED  BY <1>2, <2>3, <2>4 DEF StandsFor
<1>4. ASSUME n > InlineSize, NEW o \in Nat, d = Outline(o, n), StoredAt(o, bytes)
      PROVE  StandsFor(Cut(d, cut), left)
  <2>1. ~d.inline /\ d.offset = o /\ d.len = n
    BY <1>4 DEF Outline
  <2>2. Cut(d, cut) = IF rest <= InlineSize THEN Inline(Stored(o + a, rest)) ELSE Outline(o + a, rest)
    <3>1. Cut(d, cut) = IF d.len - a - c <= InlineSize THEN Inline(Stored(d.offset + a, d.len - a - c))
                        ELSE Outline(d.offset + a, d.len - a - c)
      BY <2>1, Zenon DEF Cut
    <3> HIDE DEF a, c, n
    <3>. QED  BY <2>1, <3>1
  <2>3. \A j \in 1..n : At(s + o + (j - 1)) = bytes[j]
    BY <1>4 DEF StoredAt
  <2>4. o + n <= dedup.used
    BY <1>4 DEF StoredAt
  <2> HIDE DEF left, n, a, c, rest, s
  <2>5. CASE rest <= InlineSize
    <3>1. Stored(o + a, rest) = [i \in 1..rest |-> At((s + (o + a)) + (i - 1))]
      <4> DEFINE start == s + (o + a)
      <4>1. start \in Nat
        BY <1>1
      <4>2. Stored(o + a, rest) = ReadSection([start |-> start, end |-> start + rest], "byte")
        BY Zenon DEF Stored, s
      <4> HIDE DEF start
      <4>3. Stored(o + a, rest) = [i \in 1..rest |-> At(start + (i - 1))]
        BY <1>2, <4>1, <4>2, StoredIs
      <4>. QED  BY <4>3 DEF start
    <3>2. \A i \in 1..rest : At((s + (o + a)) + (i - 1)) = bytes[i + a]
      <4> TAKE i \in 1..rest
      <4>1. i \in 1..Len(left)
        BY <1>2
      <4>2. i + a \in 1..n
        BY <1>2, <4>1
      <4>3. (s + (o + a)) + (i - 1) = s + o + ((i + a) - 1)
        BY <1>1, <1>2
      <4>. QED  BY <2>3, <4>2, <4>3
    <3>3. Stored(o + a, rest) = left
      BY <1>2, <3>1, <3>2
    <3>4. Len(left) <= InlineSize
      BY <1>2, <2>5
    <3>. QED  BY <2>2, <2>5, <3>3, <3>4 DEF StandsFor
  <2>6. CASE rest > InlineSize
    <3>1. Len(left) = rest /\ rest > 0
      BY <1>2, <2>6
    <3>2. o + a \in Nat /\ (o + a) + rest <= dedup.used
      BY <1>1, <2>4, <2>6, <3>1 DEF rest
    <3>3. \A j \in 1..rest : At(s + (o + a) + (j - 1)) = left[j]
      <4> TAKE j \in 1..rest
      <4>1. j + a \in 1..n /\ left[j] = bytes[j + a]
        BY <1>2, <3>1
      <4>2. s + (o + a) + (j - 1) = s + o + ((j + a) - 1)
        BY <1>1, <1>2
      <4>3. At(s + o + ((j + a) - 1)) = bytes[j + a]
        BY <2>3, <4>1
      <4>. QED  BY <4>1, <4>2, <4>3
    <3>4. StoredAt(o + a, left)
      BY <1>2, <3>1, <3>2, <3>3 DEF StoredAt, s
    <3>5. Cut(d, cut) = Outline(o + a, Len(left)) /\ Len(left) > InlineSize
      BY <2>2, <2>6, <3>1
    <3>. QED  BY <3>2, <3>4, <3>5 DEF StandsFor
  <2>. QED  BY <1>2, <2>5, <2>6
<1>. QED  BY <1>2, <1>3, <1>4 DEF StandsFor

\* So do all the cuts of a leaf, one after another.
LEMMA CutsHold ==
  ASSUME DataSection.start \in Nat, InlineSize \in Nat, dedup.used \in Nat,
         NEW bytes \in Seq(Nat), NEW d, StandsFor(d, bytes), NEW cuts \in Seq(Nat \X Nat)
  PROVE  /\ BytesLeft(bytes, cuts) \in Seq(Nat)
         /\ StandsFor(CutDown(d, cuts), BytesLeft(bytes, cuts))
<1> DEFINE n == Len(cuts)
<1>1. n \in Nat /\ DOMAIN cuts = 1..n /\ \A i \in 1..n : cuts[i] \in Nat \X Nat
  OBVIOUS
<1> HIDE DEF n
<1>2. PICK v, w : CutOneByOne(v, w, d, bytes, cuts, n)
  <2>1. \E v, w : CutOneByOne(v, w, d, bytes, cuts, n)
    BY <1>1, CutsAre
  <2>. QED  BY <2>1, Zenon
<1> DEFINE Have == {i \in Nat : i <= n => w[i] \in Seq(Nat) /\ StandsFor(v[i], w[i])}
<1>3. 0 \in Have
  BY <1>2 DEF CutOneByOne
<1>4. ASSUME NEW i \in Nat, i \in Have
      PROVE  i + 1 \in Have
  <2> SUFFICES ASSUME i + 1 <= n
               PROVE  w[i + 1] \in Seq(Nat) /\ StandsFor(v[i + 1], w[i + 1])
    OBVIOUS
  <2>1. i \in 0..(n - 1) /\ i + 1 \in 1..n /\ i <= n
    BY <1>1
  <2>2. w[i] \in Seq(Nat) /\ StandsFor(v[i], w[i])
    BY <1>4, <2>1
  <2>3. v[i + 1] = Cut(v[i], cuts[i + 1]) /\ w[i + 1] = CutBytes(w[i], cuts[i + 1])
    BY <1>2, <2>1 DEF CutOneByOne
  <2>4. cuts[i + 1] \in Nat \X Nat
    BY <1>1, <2>1
  <2>5. CutBytes(w[i], cuts[i + 1]) \in Seq(Nat) /\ StandsFor(Cut(v[i], cuts[i + 1]), CutBytes(w[i], cuts[i + 1]))
    BY <2>2, <2>4, CutHolds
  <2>. QED  BY <2>3, <2>5
<1>5. Nat \subseteq Have
  <2> HIDE DEF Have
  <2>. QED  BY <1>3, <1>4, Induction
<1>6. w[n] \in Seq(Nat) /\ StandsFor(v[n], w[n])
  <2>1. n \in Have /\ n <= n
    BY <1>1, <1>5
  <2>. QED  BY <2>1
<1>. QED  BY <1>2, <1>6 DEF CutOneByOne

-----------------------------------------------------------------------------
(* What a step writes, section by section *)

\* The places of a section, and the place of an item in it.
PlacesOf(r) == layout.at[r.name].start..(layout.at[r.name].end - 1)
Spot(r, i) == layout.at[r.name].start + (i - 1) * Size[r.type]

\* The items of a section are in places of its own, and behind the header.
LEMMA SpotsAre ==
  ASSUME Planned, NEW r \in Wanted(scout)
  PROVE  /\ r.count \in Nat /\ 0 \notin PlacesOf(r)
         /\ \A i \in 1..r.count : Spot(r, i) \in PlacesOf(r)
         /\ \A q \in Wanted(scout) : q # r => PlacesOf(q) \cap PlacesOf(r) = {}
<1> DEFINE s == layout.at[r.name]
           a == s.start
           w == Size[r.type]
           m == r.count
<1>1. r.type \in Type /\ m \in Nat
  BY TreeWants, WantedTyped
<1>2. w \in Nat /\ w > 0
  BY <1>1, SizeIs
<1>3. /\ a \in Nat /\ s.end \in Nat /\ s.end = a + m * w /\ m * w \in Nat
      /\ Size["header"] \in Nat /\ Size["header"] <= a
  BY TreeWants, SectionsAre
<1>4. Size["header"] > 0
  BY DEF Size
<1>5. 0 \notin PlacesOf(r)
  <2> HIDE DEF s
  <2>1. 0 \notin a..(s.end - 1)
    BY <1>3, <1>4
  <2>. QED  BY <2>1 DEF PlacesOf, s
<1>6. ASSUME NEW i \in 1..m
      PROVE  Spot(r, i) \in PlacesOf(r)
  <2> DEFINE x == (i - 1) * w
             y == m * w
  <2>1. i \in Nat /\ i - 1 \in Nat /\ i <= m
    BY <1>1
  <2>2. x \in Nat /\ y \in Nat /\ x + w <= y
    <3> HIDE DEF w, m
    <3>1. x + w = i * w
      BY <1>2, <2>1
    <3>2. i * w <= y
      BY <1>1, <1>2, <2>1
    <3>3. x \in Nat /\ y \in Nat
      BY <1>1, <1>2, <2>1
    <3>. QED  BY <3>1, <3>2, <3>3
  <2>3. Spot(r, i) = a + x /\ s.end = a + y
    BY <1>3 DEF Spot
  <2> HIDE DEF x, y, s, w, a
  <2>4. Spot(r, i) \in a..(s.end - 1)
    BY <1>2, <1>3, <2>2, <2>3
  <2>. QED  BY <2>4 DEF PlacesOf, s, a
<1>7. ASSUME NEW q \in Wanted(scout), q # r
      PROVE  PlacesOf(q) \cap PlacesOf(r) = {}
  <2> DEFINE c == layout.at[q.name]
  <2>1. c.start \in Nat /\ c.end \in Nat
    BY TreeWants, SectionsAre
  <2>2. c.end <= s.start \/ s.end <= c.start
    BY <1>7, TreeWants, SectionsApart
  <2> HIDE DEF c, s
  <2>3. (c.start..(c.end - 1)) \cap (s.start..(s.end - 1)) = {}
    BY <1>3, <2>1, <2>2
  <2>. QED  BY <2>3 DEF PlacesOf, c, s
<1>. QED  BY <1>1, <1>5, <1>6, <1>7

\* What is read of a section are the items at its places.
LEMMA SectionRead ==
  ASSUME Planned, NEW r \in Wanted(scout)
  PROVE  ReadSection(layout.at[r.name], r.type) = [i \in 1..r.count |-> At(Spot(r, i))]
<1> DEFINE s == layout.at[r.name]
           w == Size[r.type]
           m == r.count
<1>1. r.type \in Type /\ m \in Nat
  BY TreeWants, WantedTyped
<1>2. w \in Nat /\ w > 0
  BY <1>1, SizeIs
<1>3. s.start \in Nat /\ s.end = s.start + m * w
  BY TreeWants, SectionsAre
<1>4. ReadSection(s, r.type)
        = [i \in 1..((s.end - s.start) \div w) |-> At(s.start + (i - 1) * w)]
  BY Zenon DEF ReadSection
<1>5. (s.end - s.start) \div w = m
  <2> DEFINE x == m * w
  <2>1. x \in Nat /\ x \div w = m
    <3> HIDE DEF m, w
    <3>. QED  BY <1>1, <1>2, MultipleIs DEF x
  <2>2. s.end = s.start + x
    BY <1>3
  <2> HIDE DEF x, s
  <2>3. s.end - s.start = x
    BY <1>3, <2>1, <2>2
  <2>. QED  BY <2>1, <2>3
<1>6. \A i : Spot(r, i) = s.start + (i - 1) * w
  BY DEF Spot
<1> HIDE DEF s, w, m
<1>. QED  BY <1>4, <1>5, <1>6 DEF s, m

\* Items that are written to a section, from its start.
ItemsOf(r, items) == ItemsAt(layout.at[r.name].start, r.type, items)

\* They are in the places of the section.
LEMMA ItemsAre ==
  ASSUME Planned, NEW r \in Wanted(scout), NEW items, NEW n \in Nat, DOMAIN items = 1..n, n <= r.count
  PROVE  /\ DOMAIN ItemsOf(r, items) \subseteq PlacesOf(r)
         /\ \A i \in 1..n : /\ Spot(r, i) \in DOMAIN ItemsOf(r, items)
                            /\ ItemsOf(r, items)[Spot(r, i)] = items[i]
<1> DEFINE s == layout.at[r.name]
           a == s.start
           w == Size[r.type]
           m == r.count
           D == DOMAIN ItemsOf(r, items)
<1>1. r.type \in Type /\ m \in Nat
  BY TreeWants, WantedTyped
<1>2. w \in Nat /\ w > 0
  BY <1>1, SizeIs
<1>3. a \in Nat /\ s.end = a + m * w
  BY TreeWants, SectionsAre
<1>4. D \subseteq a..(a + n * w - 1)
  <2> HIDE DEF s
  <2>. QED  BY <1>1, <1>3, StoredIn DEF ItemsOf, s
<1> DEFINE nw == n * w
           mw == m * w
<1>5. nw \in Nat /\ mw \in Nat /\ nw <= mw
  <2>1. n <= m
    OBVIOUS
  <2> HIDE DEF m, w
  <2>. QED  BY <1>1, <1>2, <2>1
<1>6. D \subseteq a..(a + nw - 1) /\ s.end = a + mw
  BY <1>3, <1>4
<1>7. ASSUME NEW i \in 1..n
      PROVE  Spot(r, i) \in DOMAIN ItemsOf(r, items) /\ ItemsOf(r, items)[Spot(r, i)] = items[i]
  <2> HIDE DEF s
  <2>1. Spot(r, i) = a + (i - 1) * Size[r.type]
    BY DEF Spot, s
  <2>. QED  BY <1>1, <1>3, <2>1, ItemStored DEF ItemsOf, s
<1> HIDE DEF nw, mw, D, w, m, a
<1>8. D \subseteq a..(s.end - 1)
  BY <1>3, <1>5, <1>6
<1>. QED  BY <1>7, <1>8 DEF PlacesOf, D, a

\* What is at some places stays there.
Kept(S) ==
  \A q \in S : /\ q \in DOMAIN file' <=> q \in DOMAIN file
               /\ q \in DOMAIN file => file'[q] = file[q]

\* What is at a place after a step.
NextAt(q) == IF q \in DOMAIN file' THEN file'[q] ELSE None

\* What is kept is read as before.
LEMMA KeptAt ==
  ASSUME NEW S, Kept(S), NEW q \in S
  PROVE  NextAt(q) = At(q)
BY DEF Kept, At, NextAt

\* Writing some items leaves the other places alone.
LEMMA StoreIs ==
  ASSUME NEW items, Store(items)
  PROVE  /\ \A S : S \cap DOMAIN items = {} => Kept(S)
         /\ DOMAIN file' = DOMAIN file \cup DOMAIN items
         /\ \A q \in DOMAIN items : file'[q] = items[q] /\ NextAt(q) = items[q]
<1>1. DOMAIN file' = DOMAIN file \cup DOMAIN items
  BY DEF Store
<1>2. \A q \in DOMAIN file : q \notin DOMAIN items => file'[q] = file[q]
  BY DEF Store
<1>3. \A q \in DOMAIN items : file'[q] = items[q]
  BY DEF Store
<1>4. \A q \in DOMAIN items : NextAt(q) = items[q]
  BY <1>1, <1>3 DEF NextAt
<1>. QED  BY <1>1, <1>2, <1>3, <1>4 DEF Kept

\* Writing several lots of items leaves the other places alone, and where
\* only one lot goes its items are.
LEMMA StoreAllIs ==
  ASSUME NEW stored, StoreAll(stored)
  PROVE  /\ \A S : (\A items \in stored : S \cap DOMAIN items = {}) => Kept(S)
         /\ \A items \in stored : \A q \in DOMAIN items :
              (\A other \in stored : q \in DOMAIN other => other = items) => NextAt(q) = items[q]
<1> DEFINE all == UNION {DOMAIN items : items \in stored}
<1>1. \A q : q \in all <=> \E items \in stored : q \in DOMAIN items
  OBVIOUS
<1>2. /\ DOMAIN file' = DOMAIN file \cup all
      /\ \A q \in DOMAIN file : (~ \E items \in stored : q \in DOMAIN items) => file'[q] = file[q]
  BY DEF StoreAll
<1>3. ASSUME NEW items \in stored, NEW q \in DOMAIN items,
             \A other \in stored : q \in DOMAIN other => other = items
      PROVE  NextAt(q) = items[q]
  <2> DEFINE one == CHOOSE other \in stored : q \in DOMAIN other
  <2>1. one \in stored /\ q \in DOMAIN one
    BY Zenon
  <2>2. one = items
    BY <1>3, <2>1
  <2>3. q \in DOMAIN file' /\ file'[q] = one[q]
    <3>1. q \in DOMAIN file'
      BY <1>1, <1>2
    <3>2. file'[q] = IF \E other \in stored : q \in DOMAIN other THEN one[q] ELSE file[q]
      BY <1>1, Zenon DEF StoreAll
    <3>. QED  BY <3>1, <3>2
  <2>. QED  BY <2>2, <2>3 DEF NextAt
<1>4. ASSUME NEW S, \A items \in stored : S \cap DOMAIN items = {}
      PROVE  Kept(S)
  <2>1. \A q \in S : q \notin all
    BY <1>1, <1>4
  <2> HIDE DEF all
  <2>. QED  BY <1>1, <1>2, <2>1 DEF Kept
<1>. QED  BY <1>3, <1>4

\* A step writes in some sections only.
Touches(W) == \A r \in Wanted(scout) : r \notin W => Kept(PlacesOf(r))

\* The sections that hold the trees of a kind, and their nodes.
TreeSections(k) ==
  {HeadersOf(scout, k), BboxesOf(scout, k)} \cup {LevelsRequest(scout, t) : t \in TreesIn(scout, k)}
NodeSections(k) == {NodesRequest(scout, t) : t \in TreesIn(scout, k)}

\* What is written to a section.
Contents(r) ==
  CASE r.name[1] = "headers" -> [i \in 1..scout.count[r.name[2]] |-> TreeHeader(<<r.name[2], i>>)]
    [] r.name[1] = "bboxes"  -> [i \in 1..scout.count[r.name[2]] |-> BboxOf(trace, <<r.name[2], i>>)]
    [] r.name[1] = "levels"  -> LevelsOf(scout, r.name[2])
    [] r.name[1] = "nodes"   -> NodesOf(r.name[2])

\* The contents of each section, by its request.
LEMMA ContentsAre ==
  /\ \A k : Contents(HeadersOf(scout, k)) = [i \in 1..scout.count[k] |-> TreeHeader(<<k, i>>)]
  /\ \A k : Contents(BboxesOf(scout, k)) = [i \in 1..scout.count[k] |-> BboxOf(trace, <<k, i>>)]
  /\ \A t : Contents(LevelsRequest(scout, t)) = LevelsOf(scout, t)
  /\ \A t : Contents(NodesRequest(scout, t)) = NodesOf(t)
<1>1. ASSUME NEW k
      PROVE  Contents(HeadersOf(scout, k)) = [i \in 1..scout.count[k] |-> TreeHeader(<<k, i>>)]
  <2>1. HeadersOf(scout, k).name[1] = "headers" /\ HeadersOf(scout, k).name[2] = k
    BY DEF HeadersOf, Request
  <2>. QED  BY <2>1 DEF Contents
<1>2. ASSUME NEW k
      PROVE  Contents(BboxesOf(scout, k)) = [i \in 1..scout.count[k] |-> BboxOf(trace, <<k, i>>)]
  <2>1. BboxesOf(scout, k).name[1] = "bboxes" /\ BboxesOf(scout, k).name[2] = k
    BY DEF BboxesOf, Request
  <2>. QED  BY <2>1 DEF Contents
<1>3. ASSUME NEW t
      PROVE  Contents(LevelsRequest(scout, t)) = LevelsOf(scout, t)
  <2>1. LevelsRequest(scout, t).name[1] = "levels" /\ LevelsRequest(scout, t).name[2] = t
    BY DEF LevelsRequest, Request
  <2>. QED  BY <2>1 DEF Contents
<1>4. ASSUME NEW t
      PROVE  Contents(NodesRequest(scout, t)) = NodesOf(t)
  <2>1. NodesRequest(scout, t).name[1] = "nodes" /\ NodesRequest(scout, t).name[2] = t
    BY DEF NodesRequest, Request
  <2>. QED  BY <2>1 DEF Contents
<1>. QED  BY <1>1, <1>2, <1>3, <1>4

\* The kind of the trees a section is of.
KindOf(r) == IF r.name[1] \in {"headers", "bboxes"} THEN r.name[2] ELSE r.name[2][1]

\* These sections are sections of the file, each of one kind, and others than
\* those of the metadata, the leaves and the data.
LEMMA TreeSectionsAre ==
  ASSUME Planned, NEW k \in Kind
  PROVE  /\ TreeSections(k) \subseteq Wanted(scout) /\ NodeSections(k) \subseteq Wanted(scout)
         /\ \A r \in TreeSections(k) : r.name[1] \in {"headers", "bboxes", "levels"} /\ KindOf(r) = k
         /\ \A r \in NodeSections(k) : r.name[1] = "nodes" /\ KindOf(r) = k
         /\ MetadataRequest(scout).name[1] = "metadata" /\ DataRequest(scout).name[1] = "data"
         /\ \A t : LeavesRequest(scout, t).name[1] = "leaves"
<1>1. /\ MetadataRequest(scout).name[1] = "metadata" /\ DataRequest(scout).name[1] = "data"
      /\ \A t : LeavesRequest(scout, t).name[1] = "leaves"
  BY DEF MetadataRequest, DataRequest, LeavesRequest, Request
<1>2. \A t \in TreesIn(scout, k) : Counted(t) /\ t[1] = k
  BY DEF Counted, TreesIn
<1>3. ASSUME NEW r \in TreeSections(k)
      PROVE  r \in Wanted(scout) /\ r.name[1] \in {"headers", "bboxes", "levels"} /\ KindOf(r) = k
  <2>1. CASE r = HeadersOf(scout, k)
    <3>1. r.name[1] = "headers" /\ r.name[2] = k
      BY <2>1 DEF HeadersOf, Request
    <3>. QED  BY <2>1, <3>1, TreeWants DEF KindOf
  <2>2. CASE r = BboxesOf(scout, k)
    <3>1. r.name[1] = "bboxes" /\ r.name[2] = k
      BY <2>2 DEF BboxesOf, Request
    <3>. QED  BY <2>2, <3>1, TreeWants DEF KindOf
  <2>3. ASSUME NEW t \in TreesIn(scout, k), r = LevelsRequest(scout, t)
        PROVE  r \in Wanted(scout) /\ r.name[1] = "levels" /\ KindOf(r) = k
    <3>1. r.name[1] = "levels" /\ r.name[2] = t
      BY <2>3 DEF LevelsRequest, Request
    <3>2. r \in Wanted(scout)
      BY <1>2, <2>3, TreeWants
    <3>. QED  BY <1>2, <3>1, <3>2 DEF KindOf
  <2>. QED  BY <2>1, <2>2, <2>3 DEF TreeSections
<1>4. ASSUME NEW r \in NodeSections(k)
      PROVE  r \in Wanted(scout) /\ r.name[1] = "nodes" /\ KindOf(r) = k
  <2>1. PICK t \in TreesIn(scout, k) : r = NodesRequest(scout, t)
    BY DEF NodeSections
  <2>2. r.name[1] = "nodes" /\ r.name[2] = t
    BY <2>1 DEF NodesRequest, Request
  <2>3. r \in Wanted(scout)
    BY <1>2, <2>1, TreeWants
  <2>. QED  BY <1>2, <2>2, <2>3 DEF KindOf
<1>. QED  BY <1>1, <1>3, <1>4

\* What is written to a section fills it.
LEMMA TreesFitTheirSections ==
  ASSUME Planned, NEW k \in Kind, NEW r \in TreeSections(k)
  PROVE  DOMAIN Contents(r) = 1..r.count
<1>1. CASE r = HeadersOf(scout, k)
  <2>1. r.count = scout.count[k]
    BY <1>1 DEF HeadersOf, Request
  <2>. QED  BY <1>1, <2>1, ContentsAre
<1>2. CASE r = BboxesOf(scout, k)
  <2>1. r.count = scout.count[k]
    BY <1>2 DEF BboxesOf, Request
  <2>. QED  BY <1>2, <2>1, ContentsAre
<1>3. ASSUME NEW t \in TreesIn(scout, k), r = LevelsRequest(scout, t)
      PROVE  DOMAIN Contents(r) = 1..r.count
  <2>1. scout.order \in Order /\ scout.leaves[t] \in Nat
    <3>1. Scouted(scout)
      BY TreeWants
    <3>. QED  BY <3>1 DEF Scouted, TreesIn
  <2>2. DOMAIN LevelsOf(scout, t) = 1..Len(LevelsOf(scout, t))
    BY <2>1, LevelsListing DEF LevelsOf
  <2>3. r.count = Len(LevelsOf(scout, t))
    BY <1>3 DEF LevelsRequest, Request
  <2>. QED  BY <1>3, <2>2, <2>3, ContentsAre
<1>. QED  BY <1>1, <1>2, <1>3 DEF TreeSections

\* Writing some sections writes what they are to hold, and nothing else.
LEMMA SectionsWritten ==
  ASSUME Planned, NEW W \in SUBSET Wanted(scout), \A r \in W : DOMAIN Contents(r) = 1..r.count,
         StoreAll({ItemsOf(r, Contents(r)) : r \in W})
  PROVE  /\ Touches(W) /\ Kept({0})
         /\ \A r \in W : \A i \in 1..r.count : NextAt(Spot(r, i)) = Contents(r)[i]
<1> DEFINE all == {ItemsOf(r, Contents(r)) : r \in W}
<1>1. ASSUME NEW r \in W
      PROVE  /\ r.count \in Nat /\ 0 \notin PlacesOf(r)
             /\ \A q \in Wanted(scout) : q # r => PlacesOf(q) \cap PlacesOf(r) = {}
             /\ DOMAIN ItemsOf(r, Contents(r)) \subseteq PlacesOf(r)
             /\ \A i \in 1..r.count : /\ Spot(r, i) \in DOMAIN ItemsOf(r, Contents(r))
                                      /\ ItemsOf(r, Contents(r))[Spot(r, i)] = Contents(r)[i]
  <2>1. /\ r.count \in Nat /\ 0 \notin PlacesOf(r)
        /\ \A q \in Wanted(scout) : q # r => PlacesOf(q) \cap PlacesOf(r) = {}
    BY SpotsAre
  <2> DEFINE items == Contents(r)
             n == r.count
  <2>2. DOMAIN items = 1..n /\ n \in Nat /\ r \in Wanted(scout)
    BY <2>1
  <2>3. n <= r.count
    BY <2>1
  <2> HIDE DEF items, n
  <2>4. /\ DOMAIN ItemsOf(r, items) \subseteq PlacesOf(r)
        /\ \A i \in 1..n : /\ Spot(r, i) \in DOMAIN ItemsOf(r, items)
                           /\ ItemsOf(r, items)[Spot(r, i)] = items[i]
    BY <2>2, <2>3, ItemsAre
  <2>. QED  BY <2>1, <2>4 DEF items, n
<1>2. \A r \in W : ItemsOf(r, Contents(r)) \in all
  OBVIOUS
<1>3. \A items \in all : \E r \in W : items = ItemsOf(r, Contents(r))
  OBVIOUS
<1>4. StoreAll(all)
  OBVIOUS
<1> HIDE DEF all
<1>5. /\ \A S : (\A items \in all : S \cap DOMAIN items = {}) => Kept(S)
      /\ \A items \in all : \A q \in DOMAIN items :
           (\A other \in all : q \in DOMAIN other => other = items) => NextAt(q) = items[q]
  BY <1>4, StoreAllIs
<1>6. ASSUME NEW r \in Wanted(scout), r \notin W
      PROVE  Kept(PlacesOf(r))
  <2>1. ASSUME NEW items \in all
        PROVE  PlacesOf(r) \cap DOMAIN items = {}
    <3>1. PICK s \in W : items = ItemsOf(s, Contents(s))
      BY <1>3
    <3>2. PlacesOf(r) \cap PlacesOf(s) = {} /\ DOMAIN items \subseteq PlacesOf(s)
      BY <1>1, <1>6, <3>1
    <3>. QED  BY <3>2
  <2>. QED  BY <1>5, <2>1
<1>7. Kept({0})
  <2>1. ASSUME NEW items \in all
        PROVE  {0} \cap DOMAIN items = {}
    <3>1. PICK s \in W : items = ItemsOf(s, Contents(s))
      BY <1>3
    <3>2. 0 \notin PlacesOf(s) /\ DOMAIN items \subseteq PlacesOf(s)
      BY <1>1, <3>1
    <3>. QED  BY <3>2
  <2>. QED  BY <1>5, <2>1
<1>8. ASSUME NEW r \in W, NEW i \in 1..r.count
      PROVE  NextAt(Spot(r, i)) = Contents(r)[i]
  <2> DEFINE items == ItemsOf(r, Contents(r))
             q == Spot(r, i)
  <2>1. items \in all /\ q \in DOMAIN items /\ items[q] = Contents(r)[i] /\ q \in PlacesOf(r)
    BY <1>1, <1>2, <1>8
  <2>2. ASSUME NEW other \in all, q \in DOMAIN other
        PROVE  other = items
    <3>1. PICK s \in W : other = ItemsOf(s, Contents(s))
      BY <1>3
    <3>2. q \in PlacesOf(s)
      BY <1>1, <2>2, <3>1
    <3>3. s = r
      BY <1>1, <2>1, <3>2
    <3>. QED  BY <3>1, <3>3
  <2> HIDE DEF items, q
  <2>3. NextAt(q) = items[q]
    BY <1>5, <2>1, <2>2
  <2>. QED  BY <2>1, <2>3 DEF q
<1>. QED  BY <1>6, <1>7, <1>8 DEF Touches

\* The header, at the start of the file.
LEMMA HeaderWritten ==
  ASSUME Planned, NEW from, NEW to, NEW x, Write(from, to, 0, "header", <<x>>)
  PROVE  /\ phase = from /\ phase' = to /\ UNCHANGED <<plan, filling, size>>
         /\ Touches({}) /\ 0 \in DOMAIN file' /\ file'[0] = x
<1> DEFINE s == <<x>>
           h == Size["header"]
           items == ItemsAt(0, "header", s)
<1>1. phase = from /\ phase' = to /\ UNCHANGED <<plan, filling, size>> /\ Store(items)
  BY Zenon DEF Write, Step
<1>2. DOMAIN s = 1..1 /\ s[1] = x /\ 1 \in 1..1
  OBVIOUS
<1>3. "header" \in Type /\ h \in Nat /\ h > 0
  BY DEF Type, Size
<1> HIDE DEF s
<1>4. DOMAIN items \subseteq 0..(h - 1)
  <2>1. DOMAIN items \subseteq 0..(0 + 1 * Size["header"] - 1)
    BY <1>2, <1>3, StoredIn
  <2>2. 0 + 1 * h - 1 = h - 1
    <3> HIDE DEF h
    <3>. QED  BY <1>3
  <2>. QED  BY <2>1, <2>2, Zenon
<1>5. 0 \in DOMAIN items /\ items[0] = x
  <2>1. 0 = 0 + (1 - 1) * Size["header"]
    <3>1. 0 = 0 + (1 - 1) * h
      <4> HIDE DEF h
      <4>. QED  BY <1>3
    <3>. QED  BY <3>1
  <2>2. 0 \in DOMAIN ItemsAt(0, "header", s) /\ ItemsAt(0, "header", s)[0] = s[1]
    <3> DEFINE z == 0
               one == 1
               type == "header"
    <3>1. z \in Nat /\ one \in Nat /\ one \in 1..one /\ z = z + (one - 1) * Size[type]
      BY <2>1
    <3>2. DOMAIN s = 1..one /\ type \in Type
      BY <1>2, <1>3
    <3> HIDE DEF z, one, type
    <3>3. z \in DOMAIN ItemsAt(z, type, s) /\ ItemsAt(z, type, s)[z] = s[one]
      BY <3>1, <3>2, ItemStored
    <3>. QED  BY <3>3 DEF z, one, type
  <2>. QED  BY <1>2, <2>2
<1> HIDE DEF items, h
<1>6. /\ \A S : S \cap DOMAIN items = {} => Kept(S)
      /\ DOMAIN file' = DOMAIN file \cup DOMAIN items
      /\ \A q \in DOMAIN items : file'[q] = items[q]
  BY <1>1, StoreIs
<1>7. ASSUME NEW r \in Wanted(scout)
      PROVE  Kept(PlacesOf(r))
  <2> DEFINE a == layout.at[r.name].start
             b == layout.at[r.name].end
  <2>1. a \in Nat /\ b \in Nat /\ h <= a
    BY TreeWants, SectionsAre DEF h
  <2> HIDE DEF a, b
  <2>2. (a..(b - 1)) \cap (0..(h - 1)) = {}
    BY <1>3, <2>1
  <2>3. PlacesOf(r) \cap DOMAIN items = {}
    BY <1>4, <2>2 DEF PlacesOf, a, b
  <2>. QED  BY <1>6, <2>3
<1>. QED  BY <1>1, <1>5, <1>6, <1>7 DEF Touches

\* The metadata.
LEMMA MetadataWritten ==
  ASSUME Planned, WriteMetadata
  PROVE  /\ phase = "metadata" /\ phase' = "write trees" /\ UNCHANGED <<plan, filling, size>>
         /\ Touches({MetadataRequest(scout)}) /\ Kept({0})
<1> DEFINE r == MetadataRequest(scout)
           items == <<"metadata">>
           stored == ItemsOf(r, items)
<1>1. r.name = <<"metadata">> /\ r.type = "byte" /\ r.count = Metadata
  BY DEF MetadataRequest, Request, Planned, ScoutPass
<1>2. r \in Wanted(scout)
  BY TreeWants
<1>3. DOMAIN items = 1..1 /\ 1 <= r.count /\ 1 \in Nat
  BY <1>1, TracesAssumption
<1> HIDE DEF items
<1>4. /\ phase = "metadata" /\ phase' = "write trees" /\ UNCHANGED <<plan, filling, size>>
      /\ Store(ItemsAt(layout.at[<<"metadata">>].start, "byte", items))
  BY Zenon DEF WriteMetadata, Write, Step, items
<1>5. Store(stored)
  <2> HIDE DEF r
  <2>. QED  BY <1>1, <1>4, Zenon DEF ItemsOf
<1> HIDE DEF r
<1>6. DOMAIN stored \subseteq PlacesOf(r)
  BY <1>2, <1>3, ItemsAre
<1> HIDE DEF stored
<1>7. \A S : S \cap DOMAIN stored = {} => Kept(S)
  BY <1>5, StoreIs
<1>8. 0 \notin PlacesOf(r) /\ \A q \in Wanted(scout) : q # r => PlacesOf(q) \cap PlacesOf(r) = {}
  BY <1>2, SpotsAre
<1>9. Kept({0})
  <2>1. {0} \cap DOMAIN stored = {}
    BY <1>6, <1>8
  <2>. QED  BY <1>7, <2>1
<1>10. Touches({r})
  <2> SUFFICES ASSUME NEW q \in Wanted(scout), q # r PROVE Kept(PlacesOf(q))
    BY DEF Touches
  <2>1. PlacesOf(q) \cap DOMAIN stored = {}
    BY <1>6, <1>8
  <2>. QED  BY <1>7, <2>1
<1>. QED  BY <1>4, <1>9, <1>10 DEF r

\* The trees of a kind.
LEMMA TreesAreWritten ==
  ASSUME Planned, NEW k \in Kind, NEW from, NEW to, WriteTrees(k, from, to)
  PROVE  /\ phase = from /\ phase' = to /\ UNCHANGED <<plan, filling, size>>
         /\ Touches(TreeSections(k)) /\ Kept({0})
         /\ \A r \in TreeSections(k) : \A i \in 1..r.count : NextAt(Spot(r, i)) = Contents(r)[i]
<1> DEFINE trees == TreesOf(scout, k)
           n == scout.count[k]
           headers == [i \in DOMAIN trees |-> TreeHeader(trees[i])]
           bboxes == [i \in DOMAIN trees |-> BboxOf(trace, trees[i])]
           HeadersAt == ItemsAt(layout.at[<<"headers", k>>].start, "tree", headers)
           BboxesAt == ItemsAt(layout.at[<<"bboxes", k>>].start, "node", bboxes)
           LevelsAt(t) == ItemsAt(layout.at[<<"levels", t>>].start, "level", LevelsOf(scout, t))
           all == {HeadersAt, BboxesAt} \cup {LevelsAt(t) : t \in Range(trees)}
<1>1. phase = from /\ phase' = to /\ UNCHANGED <<plan, filling, size>> /\ StoreAll(all)
  <2>1. Step(from, to) /\ UNCHANGED <<plan, filling, size>> /\ \E stored \in {all} : StoreAll(stored)
    BY Zenon DEF WriteTrees
  <2>2. phase = from /\ phase' = to
    BY <2>1, Zenon DEF Step
  <2> HIDE DEF all
  <2>. QED  BY <2>1, <2>2
<1>2. n \in Nat
  BY TreeWants DEF Scouted
<1>3. DOMAIN trees = 1..n /\ \A i \in 1..n : trees[i] = <<k, i>>
  BY DEF TreesOf
<1>4. Range(trees) = TreesIn(scout, k)
  BY DEF TreesOf, TreesIn, Range
<1>5. HeadersAt = ItemsOf(HeadersOf(scout, k), Contents(HeadersOf(scout, k)))
  <2> DEFINE r == HeadersOf(scout, k)
  <2>1. r.name = <<"headers", k>> /\ r.type = "tree"
    BY DEF HeadersOf, Request
  <2>2. headers = Contents(r)
    <3>1. headers = [i \in 1..n |-> TreeHeader(<<k, i>>)]
      <4> HIDE DEF trees, n
      <4>. QED  BY <1>3
    <3>. QED  BY <3>1, ContentsAre
  <2> HIDE DEF headers, r
  <2>. QED  BY <2>1, <2>2 DEF ItemsOf, r
<1>6. BboxesAt = ItemsOf(BboxesOf(scout, k), Contents(BboxesOf(scout, k)))
  <2> DEFINE r == BboxesOf(scout, k)
  <2>1. r.name = <<"bboxes", k>> /\ r.type = "node"
    BY DEF BboxesOf, Request
  <2>2. bboxes = Contents(r)
    <3>1. bboxes = [i \in 1..n |-> BboxOf(trace, <<k, i>>)]
      <4> HIDE DEF trees, n
      <4>. QED  BY <1>3
    <3>. QED  BY <3>1, ContentsAre
  <2> HIDE DEF bboxes, r
  <2>. QED  BY <2>1, <2>2 DEF ItemsOf, r
<1>7. ASSUME NEW t
      PROVE  LevelsAt(t) = ItemsOf(LevelsRequest(scout, t), Contents(LevelsRequest(scout, t)))
  <2> DEFINE r == LevelsRequest(scout, t)
  <2>1. r.name = <<"levels", t>> /\ r.type = "level"
    BY DEF LevelsRequest, Request
  <2>2. LevelsOf(scout, t) = Contents(r)
    BY ContentsAre
  <2> HIDE DEF r
  <2>. QED  BY <2>1, <2>2 DEF ItemsOf, r
<1> DEFINE W == TreeSections(k)
<1>8. all = {ItemsOf(r, Contents(r)) : r \in W}
  <2> HIDE DEF HeadersAt, BboxesAt, LevelsAt, trees
  <2>1. all = {HeadersAt, BboxesAt} \cup {LevelsAt(t) : t \in TreesIn(scout, k)}
    BY <1>4
  <2>2. ASSUME NEW x \in all
        PROVE  \E r \in W : x = ItemsOf(r, Contents(r))
    <3>1. CASE x = HeadersAt
      <4>1. HeadersOf(scout, k) \in W
        BY DEF TreeSections
      <4>. QED  BY <1>5, <3>1, <4>1
    <3>2. CASE x = BboxesAt
      <4>1. BboxesOf(scout, k) \in W
        BY DEF TreeSections
      <4>. QED  BY <1>6, <3>2, <4>1
    <3>3. ASSUME NEW t \in TreesIn(scout, k), x = LevelsAt(t)
          PROVE  \E r \in W : x = ItemsOf(r, Contents(r))
      <4>1. LevelsRequest(scout, t) \in W
        BY DEF TreeSections
      <4>. QED  BY <1>7, <3>3, <4>1
    <3> HIDE DEF W
    <3>. QED  BY <2>1, <3>1, <3>2, <3>3
  <2>3. ASSUME NEW r \in W
        PROVE  ItemsOf(r, Contents(r)) \in all
    <3>1. CASE r = HeadersOf(scout, k)
      BY <1>5, <3>1
    <3>2. CASE r = BboxesOf(scout, k)
      BY <1>6, <3>2
    <3>3. ASSUME NEW t \in TreesIn(scout, k), r = LevelsRequest(scout, t)
          PROVE  ItemsOf(r, Contents(r)) \in all
      <4>1. LevelsAt(t) \in all
        BY <2>1
      <4> HIDE DEF all
      <4>. QED  BY <1>7, <3>3, <4>1
    <3> HIDE DEF all
    <3>. QED  BY <3>1, <3>2, <3>3 DEF TreeSections
  <2> HIDE DEF W, all
  <2>. QED  BY <2>2, <2>3
<1>9. W \in SUBSET Wanted(scout) /\ \A r \in W : DOMAIN Contents(r) = 1..r.count
  <2>1. W \subseteq Wanted(scout)
    BY TreeSectionsAre
  <2>. QED  BY <2>1, TreesFitTheirSections
<1> HIDE DEF W, all
<1>10. StoreAll({ItemsOf(r, Contents(r)) : r \in W})
  BY <1>1, <1>8, Zenon
<1>11. /\ Touches(W) /\ Kept({0})
       /\ \A r \in W : \A i \in 1..r.count : NextAt(Spot(r, i)) = Contents(r)[i]
  BY <1>9, <1>10, SectionsWritten
<1>. QED  BY <1>1, <1>11 DEF W

\* The nodes of the trees of a kind.
LEMMA NodesAreWritten ==
  ASSUME Planned, NEW k \in Kind, NEW from, NEW to, WriteNodes(k, from, to),
         \A t : Counted(t) => \A p \in Part : FileHolds(t, p)
  PROVE  /\ phase = from /\ phase' = to /\ UNCHANGED <<plan, filling, size>>
         /\ Touches(NodeSections(k)) /\ Kept({0})
         /\ \A r \in NodeSections(k) : \A i \in 1..r.count : NextAt(Spot(r, i)) = Contents(r)[i]
<1> DEFINE trees == Range(TreesOf(scout, k))
           nodes == [t \in trees |-> NodesOf(t)]
           NodesAt(t) == ItemsAt(layout.at[<<"nodes", t>>].start, "node", NodesOf(t))
           all == {ItemsAt(layout.at[<<"nodes", t>>].start, "node", nodes[t]) : t \in DOMAIN nodes}
           W == NodeSections(k)
<1>1. phase = from /\ phase' = to /\ UNCHANGED <<plan, filling, size>> /\ StoreAll(all)
  <2>1. /\ Step(from, to) /\ UNCHANGED <<plan, filling, size>>
        /\ \E ns \in {nodes} :
             StoreAll({ItemsAt(layout.at[<<"nodes", t>>].start, "node", ns[t]) : t \in DOMAIN ns})
    BY Zenon DEF WriteNodes
  <2>2. phase = from /\ phase' = to
    BY <2>1, Zenon DEF Step
  <2>3. StoreAll(all)
    <3> HIDE DEF nodes
    <3>. QED  BY <2>1
  <2>. QED  BY <2>1, <2>2, <2>3
<1>2. trees = TreesIn(scout, k)
  BY DEF TreesOf, TreesIn, Range
<1>3. all = {NodesAt(t) : t \in TreesIn(scout, k)}
  <2> HIDE DEF trees
  <2>1. DOMAIN nodes = trees /\ \A t \in trees : nodes[t] = NodesOf(t)
    OBVIOUS
  <2> HIDE DEF nodes
  <2>. QED  BY <1>2, <2>1
<1>4. ASSUME NEW t
      PROVE  NodesAt(t) = ItemsOf(NodesRequest(scout, t), Contents(NodesRequest(scout, t)))
  <2> DEFINE r == NodesRequest(scout, t)
  <2>1. r.name = <<"nodes", t>> /\ r.type = "node"
    BY DEF NodesRequest, Request
  <2>2. NodesOf(t) = Contents(r)
    BY ContentsAre
  <2> HIDE DEF r
  <2>. QED  BY <2>1, <2>2 DEF ItemsOf, r
<1>5. all = {ItemsOf(r, Contents(r)) : r \in W}
  <2> HIDE DEF NodesAt, all
  <2>1. W = {NodesRequest(scout, t) : t \in TreesIn(scout, k)}
    BY DEF NodeSections
  <2> HIDE DEF W
  <2>2. \A r \in W : ItemsOf(r, Contents(r)) \in all
    <3> TAKE r \in W
    <3>1. PICK t \in TreesIn(scout, k) : r = NodesRequest(scout, t)
      BY <2>1
    <3>. QED  BY <1>3, <1>4, <3>1
  <2>3. \A x \in all : \E r \in W : x = ItemsOf(r, Contents(r))
    <3> TAKE x \in all
    <3>1. PICK t \in TreesIn(scout, k) : x = NodesAt(t)
      BY <1>3
    <3>2. NodesRequest(scout, t) \in W
      BY <2>1
    <3>. QED  BY <1>4, <3>1, <3>2
  <2>. QED  BY <2>2, <2>3
<1>6. W \subseteq Wanted(scout)
  BY TreeSectionsAre
<1>7. ASSUME NEW r \in W
      PROVE  DOMAIN Contents(r) = 1..r.count
  <2>1. PICK t \in TreesIn(scout, k) : r = NodesRequest(scout, t)
    BY DEF NodeSections
  <2>2. Counted(t)
    BY DEF Counted
  <2>3. \A p \in Part : FileHolds(t, p)
    BY <2>2
  <2>4. DOMAIN NodesOf(t) = 1..Len(NodesOf(t)) /\ Len(NodesOf(t)) = NodesRequest(scout, t).count
    BY <2>2, <2>3, NodesFit
  <2>. QED  BY <2>1, <2>4, ContentsAre
<1> HIDE DEF W, all
<1>8. StoreAll({ItemsOf(r, Contents(r)) : r \in W})
  BY <1>1, <1>5, Zenon
<1>9. /\ Touches(W) /\ Kept({0})
      /\ \A r \in W : \A i \in 1..r.count : NextAt(Spot(r, i)) = Contents(r)[i]
  BY <1>6, <1>7, <1>8, SectionsWritten
<1>. QED  BY <1>1, <1>9 DEF W

\* What an access of the fill pass does, once it is known that there is room.
LEMMA AccessWrites ==
  ASSUME BuildInv, FillAccess
  PROVE  LET bytes == trace[pos + 1].bytes
             n == Len(bytes)
         IN  /\ bytes \in Seq(Nat) /\ n \in Nat /\ DOMAIN bytes = 1..n
             /\ phase = "fill" /\ phase' = phase /\ UNCHANGED plan /\ size' = size
             /\ \/ n <= InlineSize /\ Known(Inline(bytes)) /\ UNCHANGED <<dedup, file>>
                \/ /\ n > InlineSize /\ UNCHANGED <<dedup, file>>
                   /\ \E m \in dedup.memo : m.bytes = bytes /\ Known(Outline(m.offset, n))
                \/ /\ n > InlineSize /\ dedup.used + n <= DataSection.end - DataSection.start
                   /\ Store(ItemsAt(DataSection.start + dedup.used, "byte", bytes))
                   /\ Known(Outline(dedup.used, n))
                   /\ dedup' = [used |-> dedup.used + n,
                                memo |-> dedup.memo \cup {[bytes |-> bytes, offset |-> dedup.used]}]
<1> DEFINE bytes == trace[pos + 1].bytes
           n == Len(bytes)
           more == Bytes(trace)[pos]
           room1 == DataSection.end - DataSection.start
           Room == dedup.used + n <= room1
           Same == UNCHANGED <<dedup, file>>
           Stores == /\ Store(ItemsAt(DataSection.start + dedup.used, "byte", bytes))
                     /\ Known(Outline(dedup.used, n))
                     /\ dedup' = [used |-> dedup.used + n,
                                  memo |-> dedup.memo \cup {[bytes |-> bytes, offset |-> dedup.used]}]
           Found == \E m \in dedup.memo : m.bytes = bytes /\ Known(Outline(m.offset, n))
<1>1. /\ pos < Len(trace) /\ trace[pos + 1].of = "access" /\ phase = "fill" /\ UNCHANGED plan /\ size' = size
      /\ Planned /\ DataFits /\ dedup.used \in Nat
  BY DEF FillAccess, Filling, BuildInv, FillInv
<1>2. more \in Nat /\ dedup.used + more <= room1
  BY <1>1, RoomForData
<1>3. bytes \in Seq(Nat) /\ n \in Nat /\ DOMAIN bytes = 1..n /\ (n > InlineSize => more = n)
  <2>1. trace \in Traces /\ pos + 1 \in 1..Len(trace) /\ (pos + 1) - 1 = pos
    BY <1>1, TracesAssumption DEF Planned
  <2>2. bytes \in Seq(Nat) /\ (n > InlineSize => Bytes(trace)[(pos + 1) - 1] = n)
    BY <1>1, <2>1, BytesAre
  <2>. QED  BY <2>1, <2>2
<1>4. n > InlineSize => Room
  <2> HIDE DEF n, more, room1
  <2>. QED  BY <1>2, <1>3
<1>5. \/ n <= InlineSize /\ Known(Inline(bytes)) /\ UNCHANGED <<dedup, file, phase>>
      \/ n > InlineSize /\ Insert(bytes)
  BY DEF FillAccess
<1>6. Insert(bytes) =>
        \/ Found /\ UNCHANGED <<dedup, file, phase>>
        \/ IF Room THEN Stores /\ UNCHANGED phase
                   ELSE phase' = "failed" /\ UNCHANGED <<dedup, data, file>>
  BY Zenon DEF Insert
<1> HIDE DEF n, bytes, Room, Stores, Found
<1>7. /\ phase' = phase
      /\ \/ n <= InlineSize /\ Known(Inline(bytes)) /\ Same
         \/ n > InlineSize /\ Same /\ Found
         \/ n > InlineSize /\ Room /\ Stores
  BY <1>4, <1>5, <1>6
<1>8. /\ bytes \in Seq(Nat) /\ n \in Nat /\ DOMAIN bytes = 1..n
      /\ phase = "fill" /\ phase' = phase /\ UNCHANGED plan /\ size' = size
      /\ \/ n <= InlineSize /\ Known(Inline(bytes)) /\ Same
         \/ n > InlineSize /\ Same /\ Found
         \/ n > InlineSize /\ Room /\ Stores
  BY <1>1, <1>3, <1>7
<1>. QED  BY <1>8, Zenon DEF n, bytes, Room, Stores, Found

\* The places of the data.
LEMMA DataPlaces ==
  ASSUME Planned
  PROVE  /\ DataRequest(scout) \in Wanted(scout)
         /\ PlacesOf(DataRequest(scout)) = DataSection.start..(DataSection.end - 1)
         /\ DataSection.start \in Nat /\ DataSection.end \in Nat /\ scout.data \in Nat
         /\ DataSection.end = DataSection.start + scout.data
<1> DEFINE r == DataRequest(scout)
<1>1. r.name = <<"data">> /\ r.count = scout.data /\ r.type = "byte"
  BY DEF DataRequest, Request
<1>2. r \in Wanted(scout) /\ scout.data \in Nat
  BY TreeWants DEF Scouted
<1>3. /\ layout.at[r.name].start \in Nat /\ layout.at[r.name].end \in Nat
      /\ layout.at[r.name].end = layout.at[r.name].start + r.count * Size[r.type]
  BY <1>2, TreeWants, SectionsAre
<1>4. Size["byte"] = 1 /\ scout.data * 1 = scout.data
  BY <1>2 DEF Size
<1> HIDE DEF r
<1>5. PlacesOf(r) = DataSection.start..(DataSection.end - 1)
  BY <1>1 DEF PlacesOf, DataSection
<1>6. /\ DataSection.start \in Nat /\ DataSection.end \in Nat
      /\ DataSection.end = DataSection.start + scout.data
  BY <1>1, <1>3, <1>4 DEF DataSection
<1>. QED  BY <1>2, <1>5, <1>6 DEF r

\* What has been used of them.
LEMMA UsedFits ==
  ASSUME BuildInv
  PROVE  dedup.used \in Nat /\ dedup.used <= scout.data
<1> DEFINE f == Bytes(trace)
           n == Len(trace)
<1>1. /\ trace \in Traces /\ n \in Nat /\ pos \in 0..n /\ \A i \in 0..(n - 1) : f[i] \in Nat
      /\ dedup.used \in Nat /\ dedup.used <= SumTo(f, pos) /\ scout.data = SumTo(f, n)
  BY BytesAre, TracesAssumption DEF BuildInv, FillInv, Planned, DataFits, ScoutPass
<1>2. n \in 0..n
  BY <1>1
<1> HIDE DEF f, n
<1>3. SumTo(f, pos) \in Nat /\ SumTo(f, n) \in Nat /\ SumTo(f, pos) <= SumTo(f, n)
  BY <1>1, <1>2, SumsAre
<1>. QED  BY <1>1, <1>3

\* An access writes to the data, behind what is used of them.
LEMMA AccessTouches ==
  ASSUME BuildInv, FillAccess
  PROVE  /\ Touches({DataRequest(scout)}) /\ Kept({0})
         /\ Kept(DataSection.start..(DataSection.start + dedup.used - 1))
<1> DEFINE bytes == trace[pos + 1].bytes
           n == Len(bytes)
           r == DataRequest(scout)
           a == DataSection.start
           u == dedup.used
           items == ItemsAt(a + u, "byte", bytes)
<1>1. Planned /\ u \in Nat
  BY DEF BuildInv, FillInv
<1>2. /\ r \in Wanted(scout) /\ PlacesOf(r) = a..(DataSection.end - 1)
      /\ a \in Nat /\ DataSection.end \in Nat
  BY <1>1, DataPlaces
<1>3. CASE file' = file
  <2>1. \A S : Kept(S)
    BY <1>3 DEF Kept
  <2>. QED  BY <2>1 DEF Touches
<1>4. CASE u + n <= DataSection.end - a /\ Store(items)
  <2>1. n \in Nat /\ DOMAIN bytes = 1..n
    BY AccessWrites
  <2>2. DOMAIN items \subseteq (a + u)..(a + u + n - 1)
    <3> DEFINE start == a + u
               type == "byte"
    <3>1. start \in Nat /\ type \in Type
      BY <1>1, <1>2 DEF Type
    <3> HIDE DEF start, bytes, n, type
    <3>2. DOMAIN ItemsAt(start, type, bytes) \subseteq start..(start + n * Size[type] - 1)
      BY <2>1, <3>1, StoredIn
    <3>3. n * Size[type] = n
      BY <2>1 DEF Size, type
    <3>. QED  BY <3>2, <3>3 DEF start, type
  <2>3. \A S : S \cap DOMAIN items = {} => Kept(S)
    BY <1>4, StoreIs
  <2>4. DOMAIN items \subseteq PlacesOf(r) /\ DOMAIN items \cap (a..(a + u - 1)) = {}
    <3>1. (a + u)..(a + u + n - 1) \subseteq PlacesOf(r)
      <4> HIDE DEF n, u, a, r
      <4>. QED  BY <1>1, <1>2, <1>4, <2>1
    <3>2. ((a + u)..(a + u + n - 1)) \cap (a..(a + u - 1)) = {}
      <4> HIDE DEF n, u, a
      <4>. QED  BY <1>1, <1>2, <2>1
    <3> HIDE DEF items, r, a, u
    <3>. QED  BY <2>2, <3>1, <3>2
  <2>5. 0 \notin PlacesOf(r) /\ \A q \in Wanted(scout) : q # r => PlacesOf(q) \cap PlacesOf(r) = {}
    BY <1>1, <1>2, SpotsAre
  <2> HIDE DEF items, r, a, u
  <2>6. {0} \cap DOMAIN items = {} /\ (a..(a + u - 1)) \cap DOMAIN items = {}
    BY <2>4, <2>5
  <2>7. \A q \in Wanted(scout) : q # r => PlacesOf(q) \cap DOMAIN items = {}
    BY <2>4, <2>5
  <2>. QED  BY <2>3, <2>6, <2>7 DEF Touches, r, a, u
<1>5. file' = file \/ (u + n <= DataSection.end - a /\ Store(items))
  BY AccessWrites
<1>. QED  BY <1>3, <1>4, <1>5

\* A worker writes leaves of its task to the leaves of the tree.
LEMMA TaskTouches ==
  ASSUME BuildInv, NEW task \in tasks, RunTask(task)
  PROVE  /\ Touches({LeavesRequest(scout, task.tree)}) /\ Kept({0})
         /\ \A q \in DOMAIN file' :
              \/ q \in DOMAIN file /\ file'[q] = file[q]
              \/ /\ q \in PlacesOf(LeavesRequest(scout, task.tree))
                 /\ \E a \in DOMAIN task.leaves : file'[q] = task.leaves[a]
<1> DEFINE t == task.tree
           p == task.part
           n == Len(task.leaves)
           view == ViewOf(t, p)
           sorted == Sorted(task)
           items == ItemsAt(view.start, t[1], sorted)
           r == LeavesRequest(scout, t)
<1>1. Store(items)
  BY DEF RunTask, CopyLeaves, ViewOf
<1>2. Planned /\ Counted(t) /\ p \in Part /\ n = room[t][p] /\ trace \in Traces
  BY DEF BuildInv, FillInv, Handed, Planned
<1>3. /\ n \in Nat /\ DOMAIN sorted = 1..n
      /\ \A i \in 1..n : \E a \in DOMAIN task.leaves : sorted[i] = task.leaves[a]
  <2>1. Holds(task.leaves, LeavesIn(trace, t, p))
    BY DEF BuildInv, Carried
  <2>2. LeavesIn(trace, t, p) \in SUBSET LeavesOf(trace, task.tree)
    BY DEF LeavesIn
  <2>. QED  BY <1>2, <2>1, <2>2, SortedIs
<1>4. /\ view.start \in Nat /\ view.end \in Nat /\ Size[t[1]] \in Nat /\ t[1] \in Type
      /\ view.end = view.start + n * Size[t[1]]
  BY <1>2, ViewIs, CountedIs
<1>5. DOMAIN items \subseteq PlacesOf(r)
  <2>1. DOMAIN items \subseteq view.start..(view.start + n * Size[t[1]] - 1)
    <3> HIDE DEF view, n, sorted
    <3>. QED  BY <1>3, <1>4, StoredIn
  <2>2. r.name = <<"leaves", t>>
    BY DEF LeavesRequest, Request
  <2> DEFINE s == layout.at[<<"leaves", t>>]
  <2>3. s.start \in Nat /\ s.end \in Nat /\ s.start <= view.start /\ view.end <= s.end
    BY <1>2, PartitionIn
  <2> DEFINE m == n * Size[t[1]]
  <2>4. view.end = view.start + m /\ m \in Nat
    BY <1>3, <1>4
  <2> HIDE DEF view, items, m, s
  <2>5. DOMAIN items \subseteq view.start..(view.start + m - 1)
    BY <2>1 DEF m
  <2>6. view.start..(view.start + m - 1) \subseteq s.start..(s.end - 1)
    BY <1>4, <2>3, <2>4
  <2> HIDE DEF r
  <2>. QED  BY <2>2, <2>5, <2>6 DEF PlacesOf, s
<1>6. r \in Wanted(scout)
  BY <1>2, TreeWants
<1>7. 0 \notin PlacesOf(r) /\ \A q \in Wanted(scout) : q # r => PlacesOf(q) \cap PlacesOf(r) = {}
  BY <1>2, <1>6, SpotsAre
<1>8. ASSUME NEW q \in DOMAIN items
      PROVE  \E a \in DOMAIN task.leaves : items[q] = task.leaves[a]
  <2>1. PICK i \in DOMAIN sorted : q = view.start + (i - 1) * Size[t[1]]
    BY DEF ItemsAt
  <2>2. i \in 1..n
    BY <1>3, <2>1
  <2> HIDE DEF view, sorted, n
  <2>3. items[q] = sorted[i]
    BY <1>3, <1>4, <2>1, <2>2, ItemStored
  <2>. QED  BY <1>3, <2>2, <2>3
<1> HIDE DEF items, r
<1>9. /\ \A S : S \cap DOMAIN items = {} => Kept(S)
      /\ DOMAIN file' = DOMAIN file \cup DOMAIN items
      /\ \A q \in DOMAIN items : file'[q] = items[q]
  BY <1>1, StoreIs
<1>10. \A q \in Wanted(scout) : q # r => PlacesOf(q) \cap DOMAIN items = {}
  BY <1>5, <1>7
<1>11. {0} \cap DOMAIN items = {}
  BY <1>5, <1>7
<1>12. ASSUME NEW q \in DOMAIN file', q \notin DOMAIN items
       PROVE  q \in DOMAIN file /\ file'[q] = file[q]
  <2>1. {q} \cap DOMAIN items = {}
    BY <1>12
  <2>2. Kept({q})
    BY <1>9, <2>1
  <2>. QED  BY <1>9, <1>12, <2>2 DEF Kept
<1>13. \A q \in DOMAIN file' :
         \/ q \in DOMAIN file /\ file'[q] = file[q]
         \/ /\ q \in PlacesOf(r)
            /\ \E a \in DOMAIN task.leaves : file'[q] = task.leaves[a]
  BY <1>5, <1>8, <1>9, <1>12
<1>. QED  BY <1>9, <1>10, <1>11, <1>13 DEF Touches, r

-----------------------------------------------------------------------------
(* What the file is, phase by phase *)

\* The phases in which there is no header yet, in which the data section has
\* been shortened, and in which the trees of a kind have been written, and
\* their nodes.
Headless == {"allocate", "fill", "unwinding", "panicked", "header"}
Shortened == {"register nodes", "write nodes", "read nodes", "truncate", "done"}
PlacedIn(k) == Shortened \cup {"data"} \cup (IF k = "register" THEN {} ELSE {"register trees"})
                 \cup (IF k = "write" THEN {"read trees"} ELSE {})
BuiltIn(k) == {"truncate", "done"} \cup (IF k = "read" THEN {} ELSE {"read nodes"})
                \cup (IF k = "register" THEN {"write nodes"} ELSE {})

\* The header once the data section has been shortened.
ShortHeader == [Header EXCEPT !.at[<<"data">>].end = @ - Unused]

\* The trees and their nodes are in their sections from the phase that writes
\* them on, nothing is there before, and the header and the size are those of
\* the phase.
TreesHold ==
  \A k \in Kind : \A r \in TreeSections(k) : \A i \in 1..r.count :
    At(Spot(r, i)) = IF phase \in PlacedIn(k) THEN Contents(r)[i] ELSE None
NodesHold ==
  \A k \in Kind : phase \in BuiltIn(k) =>
    \A r \in NodeSections(k) : \A i \in 1..r.count : At(Spot(r, i)) = Contents(r)[i]
HeaderHolds ==
  IF phase \in Headless THEN At(0) = None
  ELSE 0 \in DOMAIN file /\ file[0] = IF phase \in Shortened THEN ShortHeader ELSE Header
SizeHolds == size = IF phase = "allocate" THEN 0
                    ELSE IF phase = "done" THEN layout.size - Unused ELSE layout.size

TreesInv == TreesHold /\ NodesHold /\ HeaderHolds /\ SizeHolds

\* It holds before the file is allocated: nothing is written.
LEMMA TreesInvInit == Init => TreesInv
<1> SUFFICES ASSUME Init PROVE TreesInv
  OBVIOUS
<1>1. file = <<>> /\ phase = "allocate" /\ size = 0
  BY DEF Init
<1>2. \A q : At(q) = None
  BY <1>1 DEF At
<1>3. \A k : phase \notin PlacedIn(k) /\ phase \notin BuiltIn(k)
  BY <1>1 DEF PlacedIn, BuiltIn, Shortened
<1>4. phase \in Headless
  BY <1>1 DEF Headless
<1>. QED  BY <1>1, <1>2, <1>3, <1>4 DEF TreesInv, TreesHold, NodesHold, HeaderHolds, SizeHolds

\* What nodes a tree should have depends on its leaves in the file.
LEMMA NodesKept ==
  ASSUME Planned, UNCHANGED plan, NEW t, Counted(t), Kept(PlacesOf(LeavesRequest(scout, t)))
  PROVE  NodesOf(t)' = NodesOf(t)
<1> DEFINE r == LeavesRequest(scout, t)
           s == layout.at[<<"leaves", t>>]
           w == Size[t[1]]
           n == (s.end - s.start) \div w
           now == [i \in 1..n |-> At(s.start + (i - 1) * w)]
           next == [i \in 1..n |-> NextAt(s.start + (i - 1) * w)]
           read == ReadSection(s, t[1])
<1>1. scout' = scout /\ layout' = layout
  BY DEF plan
<1>2. r.name = <<"leaves", t>> /\ r.type = t[1]
  BY DEF LeavesRequest, Request
<1>3. r \in Wanted(scout)
  BY TreeWants
<1>4. read = now
  BY Zenon DEF ReadSection
<1>5. read' = next
  <2>1. \A q : At(q)' = NextAt(q)
    BY DEF At, NextAt
  <2>2. read' = [i \in 1..n |-> NextAt(s.start + (i - 1) * w)]
    BY <1>1 DEF ReadSection, At, NextAt
  <2>. QED  BY <2>2
<1>6. now = [i \in 1..r.count |-> At(Spot(r, i))]
  <2>1. ReadSection(layout.at[r.name], r.type) = [i \in 1..r.count |-> At(Spot(r, i))]
    BY <1>3, SectionRead
  <2> HIDE DEF r, now
  <2>. QED  BY <1>2, <1>4, <2>1
<1>7. 1..n = 1..r.count
  <2>1. DOMAIN now = 1..n
    OBVIOUS
  <2> HIDE DEF now, n, r
  <2>. QED  BY <1>6, <2>1
<1>8. \A i \in 1..n : NextAt(s.start + (i - 1) * w) = At(s.start + (i - 1) * w)
  <2> TAKE i \in 1..n
  <2>1. Spot(r, i) = s.start + (i - 1) * w
    <3> HIDE DEF r, n
    <3>. QED  BY <1>2 DEF Spot
  <2>2. i \in 1..r.count
    <3> HIDE DEF n, r
    <3>. QED  BY <1>7
  <2>3. Spot(r, i) \in PlacesOf(r)
    <3> HIDE DEF n, r
    <3>. QED  BY <1>3, <2>2, SpotsAre
  <2> DEFINE q == Spot(r, i)
  <2>4. NextAt(q) = At(q)
    <3> HIDE DEF q
    <3>. QED  BY <2>3, KeptAt DEF q
  <2>. QED  BY <2>1, <2>4
<1> HIDE DEF n
<1>9. next = now
  BY <1>8
<1>10. read' = read
  <2> HIDE DEF read, next, now
  <2>. QED  BY <1>4, <1>5, <1>9
<1>11. NodesOf(t) = NodesOver(scout.order)[[i \in DOMAIN read |-> read[i].node]]
  BY DEF NodesOf
<1>12. NodesOf(t)' = NodesOver(scout'.order)[[i \in DOMAIN read' |-> read'[i].node]]
  BY DEF NodesOf
<1> HIDE DEF read
<1>. QED  BY <1>1, <1>10, <1>11, <1>12

\* A step that keeps a section or writes what it is to hold.
Fills(W) == \A r \in W : \A i \in 1..r.count : NextAt(Spot(r, i)) = Contents(r)[i]

\* Such a step leaves the sections of the trees as the phase it leads to says.
LEMMA SectionsStep ==
  ASSUME Planned, TreesInv, UNCHANGED plan, NEW W, Touches(W),
         \A k \in Kind :
           \/ TreeSections(k) \cap W = {} /\ (phase' \in PlacedIn(k) <=> phase \in PlacedIn(k))
           \/ phase' \in PlacedIn(k) /\ Fills(TreeSections(k)),
         \A k \in Kind : phase' \in BuiltIn(k) =>
           /\ \A t : LeavesRequest(scout, t) \notin W
           /\ \/ NodeSections(k) \cap W = {} /\ phase \in BuiltIn(k)
              \/ Fills(NodeSections(k))
  PROVE  TreesHold' /\ NodesHold'
<1>1. scout' = scout /\ layout' = layout /\ trace' = trace
  BY DEF plan
<1>2. \A k : TreeSections(k)' = TreeSections(k) /\ NodeSections(k)' = NodeSections(k)
  BY <1>1 DEF TreeSections, NodeSections
<1>3. \A r, i : Spot(r, i)' = Spot(r, i) /\ At(Spot(r, i))' = NextAt(Spot(r, i))
  BY <1>1 DEF Spot, At, NextAt
<1>4. \A k : PlacedIn(k)' = PlacedIn(k) /\ BuiltIn(k)' = BuiltIn(k)
  BY DEF PlacedIn, BuiltIn, Shortened
<1>5. ASSUME NEW r \in Wanted(scout), r \notin W, NEW i \in 1..r.count
      PROVE  NextAt(Spot(r, i)) = At(Spot(r, i))
  <2> DEFINE q == Spot(r, i)
  <2>1. q \in PlacesOf(r) /\ Kept(PlacesOf(r))
    BY <1>5, SpotsAre DEF Touches
  <2> HIDE DEF q
  <2>2. NextAt(q) = At(q)
    BY <2>1, KeptAt
  <2>. QED  BY <2>2 DEF q
<1>6. \A k \in Kind : \A r \in TreeSections(k) : Contents(r)' = Contents(r)
  <2> TAKE k \in Kind
  <2> TAKE r \in TreeSections(k)
  <2>1. r.name[1] \in {"headers", "bboxes", "levels"}
    BY TreeSectionsAre
  <2>2. \A t : TreeHeader(t)' = TreeHeader(t)
    BY <1>1 DEF TreeHeader
  <2>3. CASE r.name[1] = "headers"
    BY <1>1, <2>2, <2>3 DEF Contents
  <2>4. CASE r.name[1] = "bboxes"
    BY <1>1, <2>4 DEF Contents
  <2>5. CASE r.name[1] = "levels"
    BY <1>1, <2>5 DEF Contents
  <2>. QED  BY <2>1, <2>3, <2>4, <2>5
<1>7. ASSUME NEW k \in Kind, NEW r \in TreeSections(k), NEW i \in 1..r.count
      PROVE  NextAt(Spot(r, i)) = IF phase' \in PlacedIn(k) THEN Contents(r)[i] ELSE None
  <2>1. CASE TreeSections(k) \cap W = {} /\ (phase' \in PlacedIn(k) <=> phase \in PlacedIn(k))
    <3>1. r \in Wanted(scout) /\ r \notin W
      BY <2>1, TreeSectionsAre
    <3>2. NextAt(Spot(r, i)) = At(Spot(r, i))
      BY <1>5, <1>7, <3>1
    <3>3. At(Spot(r, i)) = IF phase \in PlacedIn(k) THEN Contents(r)[i] ELSE None
      BY <1>7 DEF TreesInv, TreesHold
    <3>. QED  BY <2>1, <3>2, <3>3
  <2>2. CASE phase' \in PlacedIn(k) /\ Fills(TreeSections(k))
    BY <1>7, <2>2 DEF Fills
  <2>. QED  BY <2>1, <2>2
<1>8. TreesHold'
  <2>1. \A k \in Kind : \A r \in TreeSections(k)' : \A i \in 1..r.count :
          At(Spot(r, i))' = IF phase' \in PlacedIn(k)' THEN Contents(r)'[i] ELSE None
    BY <1>2, <1>3, <1>4, <1>6, <1>7
  <2>. QED  BY <2>1 DEF TreesHold
<1>9. ASSUME NEW k \in Kind, phase' \in BuiltIn(k), NEW r \in NodeSections(k), NEW i \in 1..r.count
      PROVE  At(Spot(r, i))' = Contents(r)'[i]
  <2>1. PICK t \in TreesIn(scout, k) : r = NodesRequest(scout, t)
    BY DEF NodeSections
  <2>2. Counted(t)
    BY DEF Counted
  <2>3. LeavesRequest(scout, t) \in Wanted(scout) /\ LeavesRequest(scout, t) \notin W
    BY <1>9, <2>2, TreeWants
  <2>4. NodesOf(t)' = NodesOf(t)
    <3>1. Kept(PlacesOf(LeavesRequest(scout, t)))
      BY <2>3 DEF Touches
    <3>. QED  BY <2>2, <3>1, NodesKept
  <2>5. Contents(r)' = Contents(r)
    <3>1. r.name[1] = "nodes" /\ r.name[2] = t
      BY <2>1 DEF NodesRequest, Request
    <3>2. Contents(r)' = NodesOf(t)' /\ Contents(r) = NodesOf(t)
      BY <3>1 DEF Contents
    <3>. QED  BY <2>4, <3>2
  <2>6. NextAt(Spot(r, i)) = Contents(r)[i]
    <3>1. CASE NodeSections(k) \cap W = {} /\ phase \in BuiltIn(k)
      <4>1. r \in Wanted(scout) /\ r \notin W
        BY <1>9, <3>1, TreeSectionsAre
      <4>2. NextAt(Spot(r, i)) = At(Spot(r, i))
        BY <1>5, <1>9, <4>1
      <4>3. At(Spot(r, i)) = Contents(r)[i]
        BY <1>9, <3>1 DEF TreesInv, NodesHold
      <4>. QED  BY <4>2, <4>3
    <3>2. CASE Fills(NodeSections(k))
      BY <1>9, <3>2 DEF Fills
    <3>. QED  BY <1>9, <3>1, <3>2
  <2>. QED  BY <1>3, <2>5, <2>6
<1>10. NodesHold'
  <2>1. \A k \in Kind : phase' \in BuiltIn(k)' =>
          \A r \in NodeSections(k)' : \A i \in 1..r.count : At(Spot(r, i))' = Contents(r)'[i]
    BY <1>2, <1>4, <1>9
  <2>. QED  BY <2>1 DEF NodesHold
<1>. QED  BY <1>8, <1>10

\* A step between phases in which the same has been written.
SameStage ==
  /\ \A k \in Kind : /\ phase' \in PlacedIn(k) <=> phase \in PlacedIn(k)
                     /\ phase' \in BuiltIn(k) <=> phase \in BuiltIn(k)
  /\ phase' \in Headless <=> phase \in Headless
  /\ phase' \in Shortened <=> phase \in Shortened

\* The header stays in a step that does not write it.
LEMMA HeaderKept ==
  ASSUME TreesInv, UNCHANGED plan, Kept({0}),
         phase' \in Headless <=> phase \in Headless, phase' \in Shortened <=> phase \in Shortened,
         phase \in Shortened => dedup' = dedup
  PROVE  HeaderHolds'
<1>1. scout' = scout /\ layout' = layout
  BY DEF plan
<1>2. At(0)' = At(0)
  BY KeptAt DEF At, NextAt
<1>3. 0 \in DOMAIN file => 0 \in DOMAIN file' /\ file'[0] = file[0]
  BY DEF Kept
<1>4. Header' = Header
  BY <1>1 DEF Header
<1>5. phase \in Shortened => ShortHeader' = ShortHeader
  <2>1. dedup' = dedup => Unused' = Unused
    BY <1>1 DEF Unused
  <2>. QED  BY <1>4, <2>1 DEF ShortHeader
<1>6. Headless' = Headless /\ Shortened' = Shortened
  BY DEF Headless, Shortened
<1>. QED  BY <1>2, <1>3, <1>4, <1>5, <1>6 DEF TreesInv, HeaderHolds

\* A step that writes neither trees nor nodes keeps what the file is.
LEMMA StageKept ==
  ASSUME Planned, TreesInv, UNCHANGED plan, NEW W, Touches(W), Kept({0}), SameStage,
         \A r \in W : r.name[1] \in {"metadata", "data", "leaves"},
         phase \in Shortened => dedup' = dedup /\ \A t : LeavesRequest(scout, t) \notin W
  PROVE  TreesHold' /\ NodesHold' /\ HeaderHolds'
<1>1. HeaderHolds'
  BY HeaderKept DEF SameStage
<1>2. \A k \in Kind : TreeSections(k) \cap W = {} /\ NodeSections(k) \cap W = {}
  <2> TAKE k \in Kind
  <2>1. /\ \A r \in TreeSections(k) : r.name[1] \in {"headers", "bboxes", "levels"}
        /\ \A r \in NodeSections(k) : r.name[1] = "nodes"
    BY TreeSectionsAre
  <2>. QED  BY <2>1
<1>3. \A k : phase \in BuiltIn(k) => phase \in Shortened
  BY DEF BuiltIn, Shortened
<1>4. \A k \in Kind :
        \/ TreeSections(k) \cap W = {} /\ (phase' \in PlacedIn(k) <=> phase \in PlacedIn(k))
        \/ phase' \in PlacedIn(k) /\ Fills(TreeSections(k))
  BY <1>2 DEF SameStage
<1>5. \A k \in Kind : phase' \in BuiltIn(k) =>
        /\ \A t : LeavesRequest(scout, t) \notin W
        /\ \/ NodeSections(k) \cap W = {} /\ phase \in BuiltIn(k)
           \/ Fills(NodeSections(k))
  BY <1>2, <1>3 DEF SameStage
<1>6. TreesHold' /\ NodesHold'
  BY <1>4, <1>5, SectionsStep
<1>. QED  BY <1>1, <1>6

\* A step that writes nothing.
LEMMA StillTrees ==
  ASSUME Planned, TreesInv, UNCHANGED <<plan, dedup, file>>, SameStage, SizeHolds'
  PROVE  TreesInv'
<1>1. \A S : Kept(S)
  BY DEF Kept
<1>2. Touches({})
  BY <1>1 DEF Touches
<1>3. Kept({0})
  BY <1>1
<1>4. TreesHold' /\ NodesHold' /\ HeaderHolds'
  <2>1. UNCHANGED plan /\ dedup' = dedup
    OBVIOUS
  <2>. QED  BY <1>2, <1>3, <2>1, StageKept
<1>. QED  BY <1>4 DEF TreesInv

\* A step that neither allocates nor truncates keeps the size.
LEMMA SizeKept ==
  ASSUME TreesInv, UNCHANGED <<plan, size>>, phase # "allocate", phase # "done",
         phase' # "allocate", phase' # "done"
  PROVE  SizeHolds'
<1>1. layout' = layout /\ size' = size
  BY DEF plan
<1>. QED  BY <1>1 DEF TreesInv, SizeHolds

\* Every step keeps what the file is, phase by phase.
LEMMA TreesInvNext == BuildInv /\ TreesInv /\ [Next]_vars => TreesInv'
<1> SUFFICES ASSUME BuildInv, TreesInv, [Next]_vars PROVE TreesInv'
  OBVIOUS
<1>1. Planned
  BY DEF BuildInv, FillInv
<1>2. CASE UNCHANGED vars
  <2>1. UNCHANGED <<plan, dedup, file>> /\ phase' = phase /\ size' = size
    BY <1>2 DEF vars, filling
  <2>2. SameStage
    BY <2>1 DEF SameStage, PlacedIn, BuiltIn, Headless, Shortened
  <2>3. SizeHolds'
    BY <2>1 DEF TreesInv, SizeHolds, Unused, plan
  <2>. QED  BY <1>1, <2>1, <2>2, <2>3, StillTrees
<1>3. CASE Kill
  <2>1. UNCHANGED <<plan, dedup, file>> /\ phase' = phase /\ size' = size
    BY <1>3 DEF Kill, filling
  <2>2. SameStage
    BY <2>1 DEF SameStage, PlacedIn, BuiltIn, Headless, Shortened
  <2>3. SizeHolds'
    BY <2>1 DEF TreesInv, SizeHolds, Unused, plan
  <2>. QED  BY <1>1, <2>1, <2>2, <2>3, StillTrees
<1>4. CASE Allocate
  <2>1. Apart
    BY <1>1, PlannedApart
  <2>2. UNCHANGED <<plan, dedup, file>> /\ phase = "allocate" /\ phase' = "fill" /\ size' = layout.size
    BY <1>4, <2>1 DEF Allocate, Step, Apart, filling
  <2>3. SameStage
    BY <2>2 DEF SameStage, PlacedIn, BuiltIn, Headless, Shortened
  <2>4. SizeHolds'
    BY <2>2 DEF SizeHolds, plan
  <2>. QED  BY <1>1, <2>2, <2>3, <2>4, StillTrees
<1>5. CASE FillLeaf
  <2>1. /\ UNCHANGED <<plan, dedup, file>> /\ phase = "fill" /\ phase' \in {"fill", "unwinding"}
        /\ size' = size
    BY <1>5 DEF FillLeaf, Filling
  <2>2. SameStage
    BY <2>1 DEF SameStage, PlacedIn, BuiltIn, Headless, Shortened
  <2>3. SizeHolds'
    BY <2>1, SizeKept
  <2>. QED  BY <1>1, <2>1, <2>2, <2>3, StillTrees
<1>6. CASE EndOfScope \/ Unwind
  <2>1. BuildInv'
    BY BuildInvNext
  <2>2. /\ UNCHANGED <<plan, dedup, file>> /\ size' = size
        /\ \/ phase = "fill" /\ phase' \in {"header", "failed"}
           \/ phase = "unwinding" /\ phase' = "panicked"
    BY <1>6 DEF EndOfScope, Unwind, Step, filling
  <2>3. phase' \in Phase
    BY <2>1 DEF BuildInv
  <2>4. \/ phase = "fill" /\ phase' = "header"
        \/ phase = "unwinding" /\ phase' = "panicked"
    BY <2>2, <2>3 DEF Phase
  <2>5. SameStage
    BY <2>4 DEF SameStage, PlacedIn, BuiltIn, Headless, Shortened
  <2>6. SizeHolds'
    BY <2>2, <2>4, SizeKept
  <2>. QED  BY <1>1, <2>2, <2>5, <2>6, StillTrees
<1>7. CASE Truncate
  <2>1. /\ UNCHANGED <<plan, dedup, file>> /\ phase = "truncate" /\ phase' = "done"
        /\ size' = layout.size - Unused
    BY <1>7 DEF Truncate, Step, filling
  <2>2. SameStage
    BY <2>1 DEF SameStage, PlacedIn, BuiltIn, Headless, Shortened
  <2>3. SizeHolds'
    BY <2>1 DEF SizeHolds, Unused, plan
  <2>. QED  BY <1>1, <2>1, <2>2, <2>3, StillTrees
<1>8. CASE FillAccess
  <2>1. phase = "fill" /\ phase' = phase /\ UNCHANGED plan /\ size' = size
    BY <1>8, AccessWrites
  <2>2. Touches({DataRequest(scout)}) /\ Kept({0})
    BY <1>8, AccessTouches
  <2>3. SameStage /\ phase \notin Shortened
    BY <2>1 DEF SameStage, PlacedIn, BuiltIn, Headless, Shortened
  <2>4. \A r \in {DataRequest(scout)} : r.name[1] \in {"metadata", "data", "leaves"}
    BY DEF DataRequest, Request
  <2>5. TreesHold' /\ NodesHold' /\ HeaderHolds'
    BY <1>1, <2>1, <2>2, <2>3, <2>4, StageKept
  <2>6. SizeHolds'
    BY <2>1, SizeKept
  <2>. QED  BY <2>5, <2>6 DEF TreesInv
<1>9. ASSUME NEW task \in tasks, RunTask(task)
      PROVE  TreesInv'
  <2>1. phase' = phase /\ UNCHANGED plan /\ dedup' = dedup /\ size' = size
    BY <1>9 DEF RunTask
  <2>2. Touches({LeavesRequest(scout, task.tree)}) /\ Kept({0})
    BY <1>9, TaskTouches
  <2>3. phase \in {"allocate", "fill", "unwinding", "panicked"}
    BY DEF BuildInv, FillInv, InOrder, Phase
  <2>4. SameStage /\ phase \notin Shortened
    BY <2>1, <2>3 DEF SameStage, PlacedIn, BuiltIn, Headless, Shortened
  <2>5. \A r \in {LeavesRequest(scout, task.tree)} : r.name[1] \in {"metadata", "data", "leaves"}
    BY DEF LeavesRequest, Request
  <2>6. TreesHold' /\ NodesHold' /\ HeaderHolds'
    BY <1>1, <2>1, <2>2, <2>4, <2>5, StageKept
  <2>7. SizeHolds'
    BY <2>1 DEF TreesInv, SizeHolds, Unused, plan
  <2>. QED  BY <2>6, <2>7 DEF TreesInv
<1>10. CASE WriteMetadata
  <2>1. /\ phase = "metadata" /\ phase' = "write trees" /\ UNCHANGED <<plan, filling, size>>
        /\ Touches({MetadataRequest(scout)}) /\ Kept({0})
    BY <1>1, <1>10, MetadataWritten
  <2>2. SameStage /\ phase \notin Shortened /\ UNCHANGED plan
    BY <2>1 DEF SameStage, PlacedIn, BuiltIn, Headless, Shortened
  <2>3. \A r \in {MetadataRequest(scout)} : r.name[1] \in {"metadata", "data", "leaves"}
    BY DEF MetadataRequest, Request
  <2>4. TreesHold' /\ NodesHold' /\ HeaderHolds'
    BY <1>1, <2>1, <2>2, <2>3, StageKept
  <2>5. SizeHolds'
    BY <2>1, SizeKept
  <2>. QED  BY <2>4, <2>5 DEF TreesInv
<1>11. ASSUME NEW from, NEW to, NEW x, Write(from, to, 0, "header", <<x>>),
              \/ from = "header" /\ to = "metadata" /\ x = Header
              \/ from = "data" /\ to = "register nodes" /\ x = ShortHeader
       PROVE  TreesInv'
  <2>1. /\ phase = from /\ phase' = to /\ UNCHANGED <<plan, filling, size>>
        /\ Touches({}) /\ 0 \in DOMAIN file' /\ file'[0] = x
    BY <1>1, <1>11, HeaderWritten
  <2>2. scout' = scout /\ layout' = layout /\ dedup' = dedup /\ UNCHANGED plan
    BY <2>1 DEF plan, filling
  <2>3. \A k \in Kind : /\ phase' \in PlacedIn(k) <=> phase \in PlacedIn(k)
                        /\ phase' \notin BuiltIn(k)
    BY <1>11, <2>1 DEF PlacedIn, BuiltIn, Shortened
  <2>4. TreesHold' /\ NodesHold'
    <3>1. \A k \in Kind :
            \/ TreeSections(k) \cap {} = {} /\ (phase' \in PlacedIn(k) <=> phase \in PlacedIn(k))
            \/ phase' \in PlacedIn(k) /\ Fills(TreeSections(k))
      BY <2>3
    <3>. QED  BY <1>1, <2>1, <2>2, <2>3, <3>1, SectionsStep
  <2>5. phase' \notin Headless /\ x = IF phase' \in Shortened THEN ShortHeader ELSE Header
    BY <1>11, <2>1 DEF Headless, Shortened
  <2>6. Header' = Header /\ ShortHeader' = ShortHeader
    BY <2>2 DEF Header, ShortHeader, Unused
  <2>7. HeaderHolds'
    <3>1. Headless' = Headless /\ Shortened' = Shortened
      BY DEF Headless, Shortened
    <3>. QED  BY <2>1, <2>5, <2>6, <3>1 DEF HeaderHolds
  <2>8. SizeHolds'
    BY <1>11, <2>1, SizeKept
  <2>. QED  BY <2>4, <2>7, <2>8 DEF TreesInv
<1>12. CASE WriteHeader
  BY <1>11, <1>12, Zenon DEF WriteHeader
<1>13. CASE TruncateData
  <2>1. Write("data", "register nodes", 0, "header", <<[file[0] EXCEPT !.at[<<"data">>].end = @ - Unused]>>)
    BY <1>13, Zenon DEF TruncateData
  <2>2. phase = "data"
    BY <2>1, Zenon DEF Write, Step
  <2>3. file[0] = Header
    BY <2>2 DEF TreesInv, HeaderHolds, Headless, Shortened
  <2>4. Write("data", "register nodes", 0, "header", <<ShortHeader>>)
    BY <2>1, <2>3, Zenon DEF ShortHeader
  <2>. QED  BY <1>11, <2>4, Zenon
<1>14. ASSUME NEW k \in Kind, NEW from, NEW to, WriteTrees(k, from, to),
              \/ k = "write" /\ from = "write trees" /\ to = "read trees"
              \/ k = "read" /\ from = "read trees" /\ to = "register trees"
              \/ k = "register" /\ from = "register trees" /\ to = "data"
       PROVE  TreesInv'
  <2>1. /\ phase = from /\ phase' = to /\ UNCHANGED <<plan, filling, size>>
        /\ Touches(TreeSections(k)) /\ Kept({0}) /\ Fills(TreeSections(k))
    BY <1>1, <1>14, TreesAreWritten DEF Fills
  <2>2. UNCHANGED plan
    BY <2>1
  <2>3. /\ phase' \in PlacedIn(k)
        /\ \A j \in Kind : j # k => (phase' \in PlacedIn(j) <=> phase \in PlacedIn(j))
        /\ \A j \in Kind : phase' \notin BuiltIn(j)
        /\ phase \notin Headless /\ phase' \notin Headless
        /\ phase \notin Shortened /\ phase' \notin Shortened
    BY <1>14, <2>1 DEF PlacedIn, BuiltIn, Headless, Shortened, Kind
  <2>4. TreesHold' /\ NodesHold'
    <3>1. \A j \in Kind :
            \/ TreeSections(j) \cap TreeSections(k) = {} /\ (phase' \in PlacedIn(j) <=> phase \in PlacedIn(j))
            \/ phase' \in PlacedIn(j) /\ Fills(TreeSections(j))
      <4> TAKE j \in Kind
      <4>1. CASE j = k
        BY <2>1, <2>3, <4>1
      <4>2. CASE j # k
        <5>1. (\A r \in TreeSections(j) : KindOf(r) = j) /\ (\A r \in TreeSections(k) : KindOf(r) = k)
          BY <1>1, TreeSectionsAre
        <5>. QED  BY <2>3, <4>2, <5>1
      <4>. QED  BY <4>1, <4>2
    <3>. QED  BY <1>1, <2>1, <2>2, <2>3, <3>1, SectionsStep
  <2>5. HeaderHolds'
    BY <2>1, <2>2, <2>3, HeaderKept
  <2>6. SizeHolds'
    BY <1>14, <2>1, SizeKept
  <2>. QED  BY <2>4, <2>5, <2>6 DEF TreesInv
<1>15. ASSUME NEW k \in Kind, NEW from, NEW to, WriteNodes(k, from, to),
              \/ k = "register" /\ from = "register nodes" /\ to = "write nodes"
              \/ k = "write" /\ from = "write nodes" /\ to = "read nodes"
              \/ k = "read" /\ from = "read nodes" /\ to = "truncate"
       PROVE  TreesInv'
  <2>1. phase = from /\ phase \notin {"allocate", "fill", "unwinding", "panicked"}
    <3>1. phase = from
      BY <1>15, Zenon DEF WriteNodes, Step
    <3>. QED  BY <1>15, <3>1
  <2>2. \A t : Counted(t) => \A p \in Part : FileHolds(t, p)
    BY <2>1, AllFilled
  <2>3. /\ phase = from /\ phase' = to /\ UNCHANGED <<plan, filling, size>>
        /\ Touches(NodeSections(k)) /\ Kept({0}) /\ Fills(NodeSections(k))
    BY <1>1, <1>15, <2>2, NodesAreWritten DEF Fills
  <2>4. UNCHANGED plan /\ dedup' = dedup
    BY <2>3 DEF filling
  <2>5. /\ \A j \in Kind : phase' \in PlacedIn(j) <=> phase \in PlacedIn(j)
        /\ \A j \in Kind : j # k /\ phase' \in BuiltIn(j) => phase \in BuiltIn(j)
        /\ phase \notin Headless /\ phase' \notin Headless
        /\ phase \in Shortened /\ phase' \in Shortened
    BY <1>15, <2>3 DEF PlacedIn, BuiltIn, Headless, Shortened, Kind
  <2>6. ASSUME NEW j \in Kind
        PROVE  /\ TreeSections(j) \cap NodeSections(k) = {}
               /\ j # k => NodeSections(j) \cap NodeSections(k) = {}
    <3>1. /\ \A r \in TreeSections(j) : r.name[1] # "nodes"
          /\ \A r \in NodeSections(j) : KindOf(r) = j
          /\ \A r \in NodeSections(k) : KindOf(r) = k /\ r.name[1] = "nodes"
      BY <1>1, TreeSectionsAre
    <3>. QED  BY <3>1
  <2>7. TreesHold' /\ NodesHold'
    <3>1. \A j \in Kind :
            \/ TreeSections(j) \cap NodeSections(k) = {} /\ (phase' \in PlacedIn(j) <=> phase \in PlacedIn(j))
            \/ phase' \in PlacedIn(j) /\ Fills(TreeSections(j))
      BY <2>5, <2>6
    <3>2. \A j \in Kind : phase' \in BuiltIn(j) =>
            /\ \A t : LeavesRequest(scout, t) \notin NodeSections(k)
            /\ \/ NodeSections(j) \cap NodeSections(k) = {} /\ phase \in BuiltIn(j)
               \/ Fills(NodeSections(j))
      <4> TAKE j \in Kind
      <4>1. \A t : LeavesRequest(scout, t) \notin NodeSections(k)
        <5>1. (\A r \in NodeSections(k) : r.name[1] = "nodes") /\ \A t : LeavesRequest(scout, t).name[1] = "leaves"
          BY <1>1, TreeSectionsAre
        <5>. QED  BY <5>1
      <4>. QED  BY <2>3, <2>5, <2>6, <4>1
    <3>. QED  BY <1>1, <2>3, <2>4, <3>1, <3>2, SectionsStep
  <2>8. HeaderHolds'
    BY <2>3, <2>4, <2>5, HeaderKept
  <2>9. SizeHolds'
    BY <1>15, <2>3, SizeKept
  <2>. QED  BY <2>7, <2>8, <2>9 DEF TreesInv
<1>16. /\ "write" \in Kind /\ "read" \in Kind /\ "register" \in Kind
  BY DEF Kind
<1>17. ASSUME \/ WriteTrees("write", "write trees", "read trees")
              \/ WriteTrees("read", "read trees", "register trees")
              \/ WriteTrees("register", "register trees", "data")
       PROVE  TreesInv'
  BY <1>14, <1>16, <1>17, Zenon
<1>18. ASSUME \/ WriteNodes("register", "register nodes", "write nodes")
              \/ WriteNodes("write", "write nodes", "read nodes")
              \/ WriteNodes("read", "read nodes", "truncate")
       PROVE  TreesInv'
  BY <1>15, <1>16, <1>18, Zenon
<1>19. ASSUME MainStep
       PROVE  TreesInv'
  BY <1>4, <1>5, <1>6, <1>7, <1>8, <1>10, <1>12, <1>13, <1>17, <1>18, <1>19 DEF MainStep
<1>. QED  BY <1>2, <1>3, <1>9, <1>19 DEF Next

-----------------------------------------------------------------------------
(* What the leaves stand for *)

\* A leaf of a tree, as it is stored.
IsLeaf(t, x) ==
  \E i \in LeavesOf(trace, t) :
    \/ t[1] # "write" /\ x = [node |-> trace[i].node]
    \/ /\ t[1] = "write"
       /\ \E d : /\ StandsFor(d, BytesOf(trace, trace[i]))
                 /\ x = [node |-> trace[i].node, packed_data |-> Packed(d)]

\* The accesses that have been met are known, with their bytes.
Met == DOMAIN data = {i \in 1..pos : trace[i].of = "access"}
DataHeld == \A a \in DOMAIN data : StandsFor(data[a], trace[a].bytes)

\* What is memorized is in the data section.
MemoHeld == \A m \in dedup.memo : StoredAt(m.offset, m.bytes)

\* The leaves that wait, that have been handed over, and that are in the file
\* are leaves of the tree.
BuffersHeld ==
  \A t \in Tree, p \in Part : \A a \in DOMAIN buffers[t][p] : IsLeaf(t, buffers[t][p][a])
TasksHeld == \A task \in tasks : \A a \in DOMAIN task.leaves : IsLeaf(task.tree, task.leaves[a])
LeavesHeld ==
  \A t : Counted(t) =>
    \A q \in PlacesOf(LeavesRequest(scout, t)) : q \in DOMAIN file => IsLeaf(t, file[q])

\* All of it.
BytesInv == Met /\ DataHeld /\ MemoHeld /\ BuffersHeld /\ TasksHeld /\ LeavesHeld

\* It holds before the file is allocated.
LEMMA BytesInvInit == Init => BytesInv
<1> SUFFICES ASSUME Init PROVE BytesInv
  OBVIOUS
<1>1. /\ DOMAIN data = {} /\ pos = 0 /\ dedup.memo = {} /\ tasks = {} /\ DOMAIN file = {}
      /\ \A t \in Tree, p \in Part : DOMAIN buffers[t][p] = {}
  BY DEF Init
<1>2. 1..0 = {}
  OBVIOUS
<1>3. Met
  BY <1>1, <1>2 DEF Met
<1>. QED  BY <1>1, <1>3 DEF BytesInv, DataHeld, MemoHeld, BuffersHeld, TasksHeld, LeavesHeld

\* A step that keeps what is used of the data section.
DataGrows ==
  /\ UNCHANGED plan /\ DataSection.start \in Nat
  /\ dedup.used \in Nat /\ dedup'.used \in Nat /\ dedup.used <= dedup'.used
  /\ Kept(DataSection.start..(DataSection.start + dedup.used - 1))

\* What is stored there stays there, and what stands for it still does.
LEMMA StoredStays ==
  ASSUME DataGrows, NEW o, NEW bytes, StoredAt(o, bytes)
  PROVE  StoredAt(o, bytes)'
<1> DEFINE a == DataSection.start
           n == Len(bytes)
           u == dedup.used
           v == dedup'.used
<1>1. a \in Nat /\ u \in Nat /\ v \in Nat /\ u <= v /\ Kept(a..(a + u - 1))
  BY DEF DataGrows
<1>2. bytes \in Seq(Nat) /\ n \in Nat /\ o \in Nat /\ o + n <= u
  BY DEF StoredAt
<1>3. DataSection' = DataSection
  BY DEF DataGrows, plan, DataSection
<1>4. ASSUME NEW j \in 1..n
      PROVE  NextAt(a + o + (j - 1)) = bytes[j]
  <2> DEFINE q == a + o + (j - 1)
  <2>1. q \in a..(a + u - 1)
    <3> HIDE DEF a, n, u
    <3>. QED  BY <1>1, <1>2
  <2>2. At(q) = bytes[j]
    BY DEF StoredAt
  <2> HIDE DEF q, a, n, u
  <2>3. NextAt(q) = At(q)
    BY <1>1, <2>1, KeptAt
  <2>. QED  BY <2>2, <2>3 DEF q
<1>5. \A q : At(q)' = NextAt(q)
  BY DEF At, NextAt
<1>6. o + n <= v
  <2> HIDE DEF n, u, v
  <2>. QED  BY <1>1, <1>2
<1>7. \A j \in 1..n : At(a + o + (j - 1))' = bytes[j]
  <2>1. \A j : At(a + o + (j - 1))' = NextAt(a + o + (j - 1))
    BY <1>3 DEF At, NextAt
  <2>. QED  BY <1>4, <2>1
<1>. QED  BY <1>2, <1>3, <1>6, <1>7 DEF StoredAt

\* What stands for some bytes still does.
LEMMA StandsStill ==
  ASSUME DataGrows, NEW d, NEW bytes, StandsFor(d, bytes)
  PROVE  StandsFor(d, bytes)'
<1>1. CASE Len(bytes) <= InlineSize /\ d = Inline(bytes)
  BY <1>1 DEF StandsFor
<1>2. ASSUME Len(bytes) > InlineSize, NEW o \in Nat, d = Outline(o, Len(bytes)), StoredAt(o, bytes)
      PROVE  StandsFor(d, bytes)'
  <2>1. StoredAt(o, bytes)'
    BY <1>2, StoredStays
  <2>. QED  BY <1>2, <2>1 DEF StandsFor
<1>. QED  BY <1>1, <1>2 DEF StandsFor

\* A leaf that is stored is still a leaf of its tree.
LEMMA LeafStays ==
  ASSUME DataGrows, NEW t, NEW x, IsLeaf(t, x)
  PROVE  IsLeaf(t, x)'
<1>1. trace' = trace
  BY DEF DataGrows, plan
<1>2. PICK i \in LeavesOf(trace, t) :
        \/ t[1] # "write" /\ x = [node |-> trace[i].node]
        \/ /\ t[1] = "write"
           /\ \E d : /\ StandsFor(d, BytesOf(trace, trace[i]))
                     /\ x = [node |-> trace[i].node, packed_data |-> Packed(d)]
  BY DEF IsLeaf
<1>3. i \in LeavesOf(trace, t)'
  BY <1>1
<1>4. CASE t[1] # "write" /\ x = [node |-> trace[i].node]
  BY <1>1, <1>3, <1>4 DEF IsLeaf
<1>5. ASSUME t[1] = "write", NEW d, StandsFor(d, BytesOf(trace, trace[i])),
             x = [node |-> trace[i].node, packed_data |-> Packed(d)]
      PROVE  IsLeaf(t, x)'
  <2> DEFINE bytes == BytesOf(trace, trace[i])
  <2>1. bytes' = bytes
    BY <1>1
  <2>2. StandsFor(d, bytes)'
    <3>1. \A b : StandsFor(d, b) => StandsFor(d, b)'
      BY StandsStill
    <3>2. StandsFor(d, bytes)
      BY <1>5
    <3> HIDE DEF bytes
    <3>. QED  BY <2>1, <3>1, <3>2
  <2>. QED  BY <1>1, <1>3, <1>5, <2>2 DEF IsLeaf
<1>. QED  BY <1>2, <1>4, <1>5

\* What is used of the data section is kept by a step that does not write there.
LEMMA UsedKept ==
  ASSUME BuildInv, UNCHANGED <<plan, dedup>>, NEW W, Touches(W), DataRequest(scout) \notin W
  PROVE  DataGrows
<1> DEFINE a == DataSection.start
           u == dedup.used
           r == DataRequest(scout)
<1>1. Planned
  BY DEF BuildInv, FillInv
<1>2. /\ r \in Wanted(scout) /\ PlacesOf(r) = a..(DataSection.end - 1)
      /\ a \in Nat /\ scout.data \in Nat /\ DataSection.end = a + scout.data
  BY <1>1, DataPlaces
<1>3. u \in Nat /\ u <= scout.data
  BY UsedFits
<1>4. dedup'.used = u
  OBVIOUS
<1>5. Kept(PlacesOf(r))
  BY <1>2 DEF Touches
<1> HIDE DEF a, u, r
<1>6. a..(a + u - 1) \subseteq PlacesOf(r)
  BY <1>2, <1>3
<1>7. Kept(a..(a + u - 1))
  BY <1>5, <1>6 DEF Kept
<1>. QED  BY <1>2, <1>3, <1>4, <1>7 DEF DataGrows, a, u

\* The sections of the leaves are apart from the data, and from each other.
LEMMA LeavesApart ==
  ASSUME Planned
  PROVE  /\ \A t : LeavesRequest(scout, t) # DataRequest(scout)
         /\ \A s, t : LeavesRequest(scout, s) = LeavesRequest(scout, t) => s = t
<1>1. /\ \A t : LeavesRequest(scout, t).name = <<"leaves", t>>
      /\ DataRequest(scout).name = <<"data">>
  BY DEF LeavesRequest, DataRequest, Request
<1>2. \A s, t : <<"leaves", s>> = <<"leaves", t>> => s = t
  OBVIOUS
<1>3. \A t : <<"leaves", t>> # <<"data">>
  OBVIOUS
<1>. QED  BY <1>1, <1>2, <1>3

\* The leaves in the file stay leaves when their sections are not written.
LEMMA LeavesStay ==
  ASSUME Planned, BytesInv, DataGrows, NEW W, Touches(W), \A t : LeavesRequest(scout, t) \notin W
  PROVE  LeavesHeld'
<1>1. scout' = scout /\ layout' = layout
  BY DEF DataGrows, plan
<1>2. \A t : /\ Counted(t)' <=> Counted(t)
             /\ LeavesRequest(scout, t)' = LeavesRequest(scout, t)
             /\ PlacesOf(LeavesRequest(scout, t))' = PlacesOf(LeavesRequest(scout, t))
  BY <1>1 DEF Counted, PlacesOf
<1>3. ASSUME NEW t, Counted(t), NEW q \in PlacesOf(LeavesRequest(scout, t)), q \in DOMAIN file'
      PROVE  IsLeaf(t, file[q])'
  <2>1. LeavesRequest(scout, t) \in Wanted(scout)
    BY <1>3, TreeWants
  <2>2. q \in DOMAIN file /\ file'[q] = file[q]
    BY <1>3, <2>1 DEF Touches, Kept
  <2>3. IsLeaf(t, file[q])
    BY <1>3, <2>2 DEF BytesInv, LeavesHeld
  <2>4. \A x : IsLeaf(t, x) => IsLeaf(t, x)'
    BY LeafStays
  <2>. QED  BY <2>2, <2>3, <2>4
<1>. QED  BY <1>2, <1>3 DEF LeavesHeld

\* A step that writes neither leaves nor data.
LEMMA QuietBytes ==
  ASSUME BuildInv, BytesInv, UNCHANGED <<plan, filling>>, NEW W, Touches(W),
         DataRequest(scout) \notin W, \A t : LeavesRequest(scout, t) \notin W
  PROVE  BytesInv'
<1>1. Planned
  BY DEF BuildInv, FillInv
<1>2. /\ trace' = trace /\ pos' = pos /\ dedup' = dedup /\ data' = data
      /\ buffers' = buffers /\ tasks' = tasks
  BY DEF plan, filling
<1>3. DataGrows
  BY <1>2, UsedKept
<1>4. LeavesHeld'
  BY <1>1, <1>3, LeavesStay
<1>5. /\ \A d, b : StandsFor(d, b) => StandsFor(d, b)'
      /\ \A o, b : StoredAt(o, b) => StoredAt(o, b)'
      /\ \A t, x : IsLeaf(t, x) => IsLeaf(t, x)'
  BY <1>3, StandsStill, StoredStays, LeafStays
<1>6. Met' /\ DataHeld'
  BY <1>2, <1>5 DEF BytesInv, Met, DataHeld
<1>7. MemoHeld'
  BY <1>2, <1>5 DEF BytesInv, MemoHeld
<1>8. BuffersHeld' /\ TasksHeld'
  BY <1>2, <1>5 DEF BytesInv, BuffersHeld, TasksHeld
<1>. QED  BY <1>4, <1>6, <1>7, <1>8 DEF BytesInv

\* What has just been stored behind what was used.
LEMMA StoredNext ==
  ASSUME DataSection.start \in Nat, layout' = layout, NEW o \in Nat, NEW bytes \in Seq(Nat),
         dedup'.used = o + Len(bytes), Store(ItemsAt(DataSection.start + o, "byte", bytes))
  PROVE  StoredAt(o, bytes)'
<1> DEFINE n == Len(bytes)
           start == DataSection.start + o
           type == "byte"
           all == ItemsAt(start, type, bytes)
<1>1. start \in Nat /\ type \in Type /\ Size[type] = 1 /\ n \in Nat /\ DOMAIN bytes = 1..n /\ Store(all)
  BY DEF Type, Size
<1> HIDE DEF n, start, type
<1>2. ASSUME NEW j \in 1..n
      PROVE  NextAt(start + (j - 1)) = bytes[j]
  <2> DEFINE q == start + (j - 1)
  <2>1. q = start + (j - 1) * Size[type]
    <3>1. (j - 1) * 1 = j - 1
      BY <1>1
    <3>. QED  BY <1>1, <3>1
  <2> HIDE DEF q
  <2>2. q \in DOMAIN all /\ all[q] = bytes[j]
    BY <1>1, <2>1, ItemStored
  <2> HIDE DEF all
  <2>3. NextAt(q) = all[q]
    BY <1>1, <2>2, StoreIs
  <2>. QED  BY <2>2, <2>3 DEF q
<1>3. DataSection' = DataSection
  BY DEF DataSection
<1>4. \A j \in 1..n : At(DataSection.start + o + (j - 1))' = bytes[j]
  <2>1. \A j : At(DataSection.start + o + (j - 1))' = NextAt(DataSection.start + o + (j - 1))
    BY <1>3 DEF At, NextAt
  <2>. QED  BY <1>2, <2>1 DEF start
<1>. QED  BY <1>1, <1>3, <1>4 DEF StoredAt, n

\* An access is stored, or found.
LEMMA AccessBytes ==
  ASSUME BuildInv, BytesInv, FillAccess
  PROVE  BytesInv'
<1> SUFFICES ASSUME NEW u, u = dedup.used, NEW bytes, bytes = trace[pos + 1].bytes,
                    NEW p, p = pos + 1
             PROVE  BytesInv'
  OBVIOUS
<1> DEFINE n == Len(bytes)
           a == DataSection.start
           fresh == [bytes |-> bytes, offset |-> u]
<1>1. /\ Planned /\ u \in Nat /\ pos \in Nat /\ trace[p].of = "access" /\ pos' = p
      /\ UNCHANGED plan /\ trace' = trace /\ layout' = layout /\ buffers' = buffers /\ tasks' = tasks
  <2>1. Planned /\ u \in Nat
    BY DEF BuildInv, FillInv
  <2>2. pos \in Nat
    BY <2>1, TracesAssumption DEF Planned
  <2>. QED  BY <2>1, <2>2 DEF FillAccess, plan
<1> DEFINE Old == UNCHANGED <<dedup, file>>
           New == /\ Store(ItemsAt(a + u, "byte", bytes))
                  /\ dedup' = [used |-> u + n, memo |-> dedup.memo \cup {fresh}]
<1>2. /\ bytes \in Seq(Nat) /\ n \in Nat /\ DOMAIN bytes = 1..n
      /\ \/ n <= InlineSize /\ Known(Inline(bytes)) /\ Old
         \/ n > InlineSize /\ Old /\ \E m \in dedup.memo : m.bytes = bytes /\ Known(Outline(m.offset, n))
         \/ n > InlineSize /\ New /\ Known(Outline(u, n))
  BY AccessWrites, Zenon
<1>3. a \in Nat
  BY <1>1, DataPlaces
<1>4. Touches({DataRequest(scout)}) /\ Kept(a..(a + u - 1))
  BY AccessTouches
<1>5. DataGrows
  <2>1. dedup' = dedup \/ dedup' = [used |-> u + n, memo |-> dedup.memo \cup {fresh}]
    BY <1>2
  <2>2. dedup'.used = u \/ dedup'.used = u + n
    BY <2>1
  <2>3. dedup'.used \in Nat /\ u <= dedup'.used
    <3> HIDE DEF n
    <3>. QED  BY <1>1, <1>2, <2>2
  <2>. QED  BY <1>1, <1>3, <1>4, <2>3 DEF DataGrows
<1>6. /\ \A d, b : StandsFor(d, b) => StandsFor(d, b)'
      /\ \A o, b : StoredAt(o, b) => StoredAt(o, b)'
      /\ \A t, x : IsLeaf(t, x) => IsLeaf(t, x)'
  BY <1>5, StandsStill, StoredStays, LeafStays
<1>7. LeavesHeld'
  <2>1. \A t : LeavesRequest(scout, t) \notin {DataRequest(scout)}
    BY <1>1, LeavesApart
  <2>. QED  BY <1>1, <1>4, <1>5, <2>1, LeavesStay
<1>8. BuffersHeld' /\ TasksHeld'
  BY <1>1, <1>6 DEF BytesInv, BuffersHeld, TasksHeld
<1>9. New => StoredAt(u, bytes)'
  <2> SUFFICES ASSUME New PROVE StoredAt(u, bytes)'
    OBVIOUS
  <2>1. dedup'.used = u + Len(bytes)
    OBVIOUS
  <2>. QED  BY <1>1, <1>2, <1>3, <2>1, StoredNext
<1>10. MemoHeld'
  <2>1. \A m \in dedup.memo : StoredAt(m.offset, m.bytes)
    BY DEF BytesInv, MemoHeld
  <2>2. CASE Old
    BY <1>6, <2>1, <2>2 DEF MemoHeld
  <2>3. CASE New
    <3>1. dedup'.memo = dedup.memo \cup {fresh} /\ fresh.offset = u /\ fresh.bytes = bytes
      BY <2>3
    <3> HIDE DEF fresh
    <3>. QED  BY <1>6, <1>9, <2>1, <2>3, <3>1 DEF MemoHeld
  <2>. QED  BY <1>2, <2>2, <2>3
<1>11. PICK d : Known(d) /\ StandsFor(d, bytes)'
  <2>1. CASE n <= InlineSize /\ Known(Inline(bytes))
    <3>1. StandsFor(Inline(bytes), bytes)'
      BY <2>1 DEF StandsFor
    <3>. QED  BY <2>1, <3>1
  <2>2. ASSUME NEW m \in dedup.memo, n > InlineSize, m.bytes = bytes, Known(Outline(m.offset, n))
        PROVE  \E d : Known(d) /\ StandsFor(d, bytes)'
    <3>1. StoredAt(m.offset, bytes) /\ StoredAt(m.offset, bytes)'
      <4>1. StoredAt(m.offset, bytes)
        BY <2>2 DEF BytesInv, MemoHeld
      <4>. QED  BY <1>6, <4>1
    <3>2. m.offset \in Nat
      BY <3>1 DEF StoredAt
    <3> DEFINE d == Outline(m.offset, n)
    <3>3. StandsFor(d, bytes)'
      BY <2>2, <3>1, <3>2 DEF StandsFor
    <3>. QED  BY <2>2, <3>3
  <2>3. CASE n > InlineSize /\ New /\ Known(Outline(u, n))
    <3>1. StandsFor(Outline(u, n), bytes)'
      BY <1>1, <1>9, <2>3 DEF StandsFor
    <3>. QED  BY <2>3, <3>1
  <2>. QED  BY <1>2, <2>1, <2>2, <2>3
<1>12. data' = [i \in DOMAIN data \cup {p} |-> IF i = p THEN d ELSE data[i]]
  BY <1>11 DEF Known
<1>13. Met'
  <2>1. DOMAIN data' = DOMAIN data \cup {p}
    BY <1>12
  <2>2. DOMAIN data = {i \in 1..pos : trace[i].of = "access"}
    BY DEF BytesInv, Met
  <2>3. 1..p = 1..pos \cup {p}
    BY <1>1
  <2>4. DOMAIN data' = {i \in 1..p : trace[i].of = "access"}
    BY <1>1, <2>1, <2>2, <2>3
  <2>. QED  BY <1>1, <2>4 DEF Met
<1>14. DataHeld'
  <2> SUFFICES ASSUME NEW i \in DOMAIN data'
               PROVE  StandsFor(data[i], trace[i].bytes)'
    BY DEF DataHeld
  <2>1. CASE i = p
    <3>1. data'[i] = d /\ trace'[i].bytes = bytes
      BY <1>1, <1>12, <2>1
    <3>. QED  BY <1>11, <3>1
  <2>2. CASE i # p
    <3>1. i \in DOMAIN data /\ data'[i] = data[i] /\ trace'[i].bytes = trace[i].bytes
      BY <1>1, <1>12, <2>2
    <3>2. StandsFor(data[i], trace[i].bytes)
      BY <3>1 DEF BytesInv, DataHeld
    <3>. QED  BY <1>6, <3>1, <3>2
  <2>. QED  BY <2>1, <2>2
<1>. QED  BY <1>7, <1>8, <1>10, <1>13, <1>14 DEF BytesInv

\* What is stored for a leaf of the trace.
LEMMA FlatIs ==
  ASSUME Planned, BytesInv, dedup.used \in Nat, pos + 1 \in 1..Len(trace), trace[pos + 1].of = "leaf"
  PROVE  IsLeaf(trace[pos + 1].tree, Flat(trace[pos + 1]))
<1> DEFINE p == pos + 1
           leaf == trace[p]
           t == leaf.tree
           bytes == trace[leaf.access].bytes
           d == data[leaf.access]
<1>1. /\ trace \in Traces /\ DOMAIN trace = 1..Len(trace) /\ leaf \in Event /\ WellCut(trace)
      /\ InlineSize \in Nat /\ pos \in Nat /\ p - 1 = pos
  BY TracesAssumption DEF Planned
<1>2. p \in LeavesOf(trace, t)
  BY <1>1 DEF LeavesOf
<1>3. CASE t[1] # "write"
  <2>1. Flat(leaf) = [node |-> leaf.node]
    BY <1>3 DEF Flat
  <2>. QED  BY <1>2, <1>3, <2>1 DEF IsLeaf
<1>4. CASE t[1] = "write"
  <2>1. leaf.access \in 1..(p - 1) /\ trace[leaf.access].of = "access" /\ leaf.cuts \in Seq(Nat \X Nat)
    <3>1. leaf.access \in 1..(p - 1) /\ trace[leaf.access].of = "access"
      BY <1>1, <1>4 DEF WellCut
    <3>2. leaf.cuts \in Seq(Nat \X Nat)
      BY <1>1 DEF Event
    <3>. QED  BY <3>1, <3>2
  <2>2. leaf.access \in DOMAIN data
    BY <1>1, <2>1 DEF BytesInv, Met
  <2>3. StandsFor(d, bytes)
    BY <2>2 DEF BytesInv, DataHeld
  <2>4. bytes \in Seq(Nat)
    <3>1. leaf.access \in 1..Len(trace)
      BY <1>1, <2>1
    <3>. QED  BY <1>1, <2>1, <3>1, BytesAre
  <2>5. DataSection.start \in Nat
    BY DataPlaces
  <2> DEFINE cuts == leaf.cuts
  <2>6. StandsFor(CutDown(d, cuts), BytesLeft(bytes, cuts))
    <3>1. cuts \in Seq(Nat \X Nat)
      BY <2>1
    <3> HIDE DEF d, cuts, bytes
    <3>. QED  BY <1>1, <2>3, <2>4, <2>5, <3>1, CutsHold
  <2>7. BytesOf(trace, leaf) = BytesLeft(bytes, cuts)
    BY Zenon DEF BytesOf, BytesLeft
  <2>8. Flat(leaf) = [node |-> leaf.node, packed_data |-> Packed(CutDown(d, cuts))]
    BY <1>4, Zenon DEF Flat, CutDown
  <2> HIDE DEF d, cuts, bytes
  <2>9. \E e : /\ StandsFor(e, BytesOf(trace, leaf))
               /\ Flat(leaf) = [node |-> leaf.node, packed_data |-> Packed(e)]
    BY <2>6, <2>7, <2>8, Zenon
  <2>. QED  BY <1>2, <1>4, <2>9, Zenon DEF IsLeaf
<1>. QED  BY <1>3, <1>4

\* The fill pass meets a leaf.
LEMMA LeafBytes ==
  ASSUME BuildInv, BytesInv, FillLeaf,
         NEW t, t = trace[pos + 1].tree, NEW p, p = PartOf(trace, trace[pos + 1])
  PROVE  BytesInv'
<1> DEFINE e == trace[pos + 1]
           leaf == Flat(e)
           filled == Append(buffers[t][p], leaf)
           new == Spawned(t, p, filled)
<1>1. /\ phase = "fill" /\ pos < Len(trace) /\ e.of = "leaf" /\ UNCHANGED <<plan, dedup, data, file>>
  BY DEF FillLeaf, Filling
<1>2. trace' = trace /\ dedup' = dedup /\ data' = data
  BY <1>1 DEF plan
<1>3. /\ Planned /\ pos \in Nat /\ pos + 1 \in 1..Len(trace) /\ dedup.used \in Nat /\ trace \in Traces
  <2>1. Planned /\ dedup.used \in Nat
    BY DEF BuildInv, FillInv
  <2>2. trace \in Traces /\ Len(trace) \in Nat /\ pos \in Nat
    BY <2>1, TracesAssumption DEF Planned
  <2>. QED  BY <1>1, <2>1, <2>2
<1>4. Touches({})
  BY <1>1 DEF Touches, Kept
<1>5. CASE phase' = "unwinding" /\ UNCHANGED <<pos, buffers, tasks>>
  <2>1. UNCHANGED <<plan, filling>>
    BY <1>1, <1>5 DEF filling
  <2>. QED  BY <1>4, <2>1, QuietBytes
<1>6. CASE /\ pos' = pos + 1
           /\ \/ /\ tasks' = tasks \cup {new} /\ buffers' = [buffers EXCEPT ![t][p] = <<>>]
              \/ /\ buffers' = [buffers EXCEPT ![t][p] = filled] /\ UNCHANGED tasks
  <2>1. t \in Tree /\ p \in Part
    BY <1>1, <1>3, LeafIs
  <2>2. DataGrows
    BY <1>1, <1>4, UsedKept
  <2>3. /\ \A d, b : StandsFor(d, b) => StandsFor(d, b)'
        /\ \A o, b : StoredAt(o, b) => StoredAt(o, b)'
        /\ \A u, x : IsLeaf(u, x) => IsLeaf(u, x)'
    BY <2>2, StandsStill, StoredStays, LeafStays
  <2>4. LeavesHeld'
    BY <1>3, <1>4, <2>2, LeavesStay
  <2>5. Met'
    <3>1. 1..(pos + 1) = 1..pos \cup {pos + 1}
      BY <1>3
    <3>2. e.of # "access"
      BY <1>1
    <3>3. {i \in 1..(pos + 1) : trace[i].of = "access"} = {i \in 1..pos : trace[i].of = "access"}
      BY <3>1, <3>2
    <3>. QED  BY <1>2, <1>6, <3>3 DEF BytesInv, Met
  <2>6. DataHeld' /\ MemoHeld'
    BY <1>2, <2>3 DEF BytesInv, DataHeld, MemoHeld
  <2>7. IsSeq(buffers[t][p]) /\ DOMAIN buffers = Tree /\ \A u \in Tree : DOMAIN buffers[u] = Part
    BY <2>1 DEF BuildInv, FillInv, Waiting
  <2>8. \A a \in DOMAIN filled : IsLeaf(t, filled[a])
    <3> DEFINE s == buffers[t][p]
    <3>1. IsLeaf(t, leaf)
      BY <1>1, <1>3, FlatIs
    <3>2. \A a \in DOMAIN s : IsLeaf(t, s[a])
      BY <2>1 DEF BytesInv, BuffersHeld
    <3>3. IsSeq(s)
      BY <2>7
    <3> HIDE DEF leaf, s
    <3> DEFINE n == Len(s)
    <3>4. n \in Nat /\ DOMAIN s = 1..n /\ DOMAIN Append(s, leaf) = 1..(n + 1)
      BY <3>3, AppendedIs
    <3>5. (\A i \in 1..n : Append(s, leaf)[i] = s[i]) /\ Append(s, leaf)[n + 1] = leaf
      BY <3>3, AppendAt
    <3> DEFINE all == Append(s, leaf)
    <3> HIDE DEF n, all
    <3>6. \A a \in 1..(n + 1) : IsLeaf(t, all[a])
      <4> TAKE a \in 1..(n + 1)
      <4>1. a \in 1..n \/ a = n + 1
        BY <3>4
      <4>. QED  BY <3>1, <3>2, <3>4, <3>5, <4>1 DEF all
    <3>. QED  BY <3>4, <3>6 DEF all, s
  <2> HIDE DEF filled
  <2>9. /\ buffers'[t][p] = <<>> \/ buffers'[t][p] = filled
        /\ \A u \in Tree, q \in Part : u # t \/ q # p => buffers'[u][q] = buffers[u][q]
    <3>1. ASSUME NEW s, buffers' = [buffers EXCEPT ![t][p] = s]
          PROVE  /\ buffers'[t][p] = s
                 /\ \A u \in Tree, q \in Part : u # t \/ q # p => buffers'[u][q] = buffers[u][q]
      BY <2>1, <2>7, <3>1, ReplacedIs
    <3>. QED  BY <1>6, <3>1
  <2>10. BuffersHeld'
    <3> SUFFICES ASSUME NEW u \in Tree, NEW q \in Part, NEW a \in DOMAIN buffers'[u][q]
                 PROVE  IsLeaf(u, buffers[u][q][a])'
      BY DEF BuffersHeld
    <3>1. CASE u = t /\ q = p
      <4>1. buffers'[u][q] # <<>>
        BY DOMAIN <<>> = {}
      <4>2. buffers'[u][q] = filled
        BY <2>9, <3>1, <4>1
      <4>. QED  BY <2>3, <2>8, <3>1, <4>2
    <3>2. CASE u # t \/ q # p
      <4>1. buffers'[u][q] = buffers[u][q]
        BY <2>9, <3>2
      <4>2. IsLeaf(u, buffers[u][q][a])
        BY <4>1 DEF BytesInv, BuffersHeld
      <4>. QED  BY <2>3, <4>1, <4>2
    <3>. QED  BY <3>1, <3>2
  <2>11. TasksHeld'
    <3> SUFFICES ASSUME NEW task \in tasks', NEW a \in DOMAIN task.leaves
                 PROVE  IsLeaf(task.tree, task.leaves[a])'
      BY DEF TasksHeld
    <3>1. new.tree = t /\ new.leaves = filled
      BY DEF Spawned
    <3> HIDE DEF new
    <3>2. task \in tasks \/ task = new
      BY <1>6
    <3>3. IsLeaf(task.tree, task.leaves[a])
      BY <2>8, <3>1, <3>2 DEF BytesInv, TasksHeld
    <3>. QED  BY <2>3, <3>3
  <2>. QED  BY <2>4, <2>5, <2>6, <2>10, <2>11 DEF BytesInv
<1>. QED  BY <1>5, <1>6 DEF FillLeaf, PushLeafIntoPartition

\* A worker copies the leaves it has sorted.
LEMMA TaskBytes ==
  ASSUME BuildInv, BytesInv, NEW task \in tasks, RunTask(task)
  PROVE  BytesInv'
<1> DEFINE r == LeavesRequest(scout, task.tree)
<1>1. /\ UNCHANGED <<plan, dedup>> /\ trace' = trace /\ scout' = scout /\ layout' = layout
      /\ pos' = pos /\ dedup' = dedup /\ data' = data /\ buffers' = buffers /\ tasks' = tasks \ {task}
  BY DEF RunTask, plan
<1>2. Planned /\ Counted(task.tree)
  BY DEF BuildInv, FillInv, Handed
<1>3. /\ Touches({r})
      /\ \A q \in DOMAIN file' :
           \/ q \in DOMAIN file /\ file'[q] = file[q]
           \/ q \in PlacesOf(r) /\ \E a \in DOMAIN task.leaves : file'[q] = task.leaves[a]
  BY TaskTouches
<1>4. DataGrows
  <2>1. DataRequest(scout) \notin {r}
    BY <1>2, LeavesApart
  <2> HIDE DEF r
  <2>. QED  BY <1>1, <1>3, <2>1, UsedKept
<1>5. /\ \A d, b : StandsFor(d, b) => StandsFor(d, b)'
      /\ \A o, b : StoredAt(o, b) => StoredAt(o, b)'
      /\ \A t, x : IsLeaf(t, x) => IsLeaf(t, x)'
  BY <1>4, StandsStill, StoredStays, LeafStays
<1>6. Met' /\ DataHeld'
  BY <1>1, <1>5 DEF BytesInv, Met, DataHeld
<1>7. MemoHeld'
  BY <1>1, <1>5 DEF BytesInv, MemoHeld
<1>8. BuffersHeld' /\ TasksHeld'
  BY <1>1, <1>5 DEF BytesInv, BuffersHeld, TasksHeld
<1>9. \A t : /\ Counted(t)' <=> Counted(t)
             /\ PlacesOf(LeavesRequest(scout, t))' = PlacesOf(LeavesRequest(scout, t))
  BY <1>1 DEF Counted, PlacesOf
<1>10. ASSUME NEW t, Counted(t), NEW q \in PlacesOf(LeavesRequest(scout, t)), q \in DOMAIN file'
       PROVE  IsLeaf(t, file[q])'
  <2> DEFINE s == LeavesRequest(scout, t)
  <2>1. CASE q \in DOMAIN file /\ file'[q] = file[q]
    <3>1. IsLeaf(t, file[q])
      BY <1>10, <2>1 DEF BytesInv, LeavesHeld
    <3>. QED  BY <1>5, <2>1, <3>1
  <2>2. ASSUME q \in PlacesOf(r), NEW a \in DOMAIN task.leaves, file'[q] = task.leaves[a]
        PROVE  IsLeaf(t, file[q])'
    <3>1. s \in Wanted(scout) /\ r \in Wanted(scout)
      BY <1>2, <1>10, TreeWants
    <3>2. s # r => PlacesOf(s) \cap PlacesOf(r) = {}
      <4> HIDE DEF s, r
      <4>. QED  BY <1>2, <3>1, SpotsAre
    <3>3. s = r
      <4> HIDE DEF r
      <4>. QED  BY <1>10, <2>2, <3>2
    <3>4. t = task.tree
      BY <1>2, <3>3, LeavesApart
    <3>5. IsLeaf(t, task.leaves[a])
      BY <3>4 DEF BytesInv, TasksHeld
    <3>. QED  BY <1>5, <2>2, <3>5
  <2>. QED  BY <1>3, <1>10, <2>1, <2>2
<1>11. LeavesHeld'
  BY <1>9, <1>10 DEF LeavesHeld
<1>. QED  BY <1>6, <1>7, <1>8, <1>11 DEF BytesInv

\* Every step keeps what the leaves stand for.
LEMMA BytesInvNext == BuildInv /\ BytesInv /\ [Next]_vars => BytesInv'
<1> SUFFICES ASSUME BuildInv, BytesInv, [Next]_vars PROVE BytesInv'
  OBVIOUS
<1>1. Planned
  BY DEF BuildInv, FillInv
<1>2. /\ MetadataRequest(scout).name = <<"metadata">> /\ DataRequest(scout).name = <<"data">>
      /\ \A t : LeavesRequest(scout, t).name[1] = "leaves"
  BY DEF MetadataRequest, DataRequest, LeavesRequest, Request
<1>3. /\ MetadataRequest(scout).name[1] = "metadata" /\ DataRequest(scout).name[1] = "data"
      /\ \A t : LeavesRequest(scout, t).name[1] = "leaves"
  BY <1>2
<1>4. ASSUME UNCHANGED <<plan, filling>>, NEW W, Touches(W),
             \A r \in W : r.name[1] # "data" /\ r.name[1] # "leaves"
      PROVE  BytesInv'
  <2>1. DataRequest(scout) \notin W /\ \A t : LeavesRequest(scout, t) \notin W
    BY <1>3, <1>4
  <2>. QED  BY <1>4, <2>1, QuietBytes
<1>5. ASSUME UNCHANGED <<plan, filling, file>>
      PROVE  BytesInv'
  <2>1. Touches({}) /\ UNCHANGED <<plan, filling>>
    BY <1>5 DEF Touches, Kept
  <2>. QED  BY <1>4, <2>1
<1>6. CASE UNCHANGED vars
  BY <1>5, <1>6 DEF vars
<1>7. CASE Kill \/ Allocate \/ EndOfScope \/ Unwind \/ Truncate
  BY <1>5, <1>7 DEF Kill, Allocate, EndOfScope, Unwind, Truncate
<1>8. CASE FillAccess
  BY <1>8, AccessBytes
<1>9. CASE FillLeaf
  BY <1>9, LeafBytes
<1>10. ASSUME NEW task \in tasks, RunTask(task)
       PROVE  BytesInv'
  BY <1>10, TaskBytes
<1>11. CASE WriteMetadata
  <2>1. UNCHANGED <<plan, filling>> /\ Touches({MetadataRequest(scout)})
    BY <1>1, <1>11, MetadataWritten
  <2>2. \A r \in {MetadataRequest(scout)} : r.name[1] # "data" /\ r.name[1] # "leaves"
    BY <1>3
  <2>. QED  BY <1>4, <2>1, <2>2
<1>12. ASSUME NEW from, NEW to, NEW x, Write(from, to, 0, "header", <<x>>)
       PROVE  BytesInv'
  <2>1. UNCHANGED <<plan, filling>> /\ Touches({})
    BY <1>1, <1>12, HeaderWritten
  <2>. QED  BY <1>4, <2>1
<1>13. CASE WriteHeader \/ TruncateData
  BY <1>12, <1>13, Zenon DEF WriteHeader, TruncateData
<1>14. ASSUME NEW k \in Kind, NEW from, NEW to, WriteTrees(k, from, to)
       PROVE  BytesInv'
  <2>1. UNCHANGED <<plan, filling>> /\ Touches(TreeSections(k))
    BY <1>1, <1>14, TreesAreWritten
  <2>2. \A r \in TreeSections(k) : r.name[1] # "data" /\ r.name[1] # "leaves"
    <3>1. \A r \in TreeSections(k) : r.name[1] \in {"headers", "bboxes", "levels"}
      BY <1>1, TreeSectionsAre
    <3>. QED  BY <3>1
  <2>. QED  BY <1>4, <2>1, <2>2
<1>15. ASSUME NEW k \in Kind, NEW from, NEW to, WriteNodes(k, from, to),
              from \notin {"allocate", "fill", "unwinding", "panicked"}
       PROVE  BytesInv'
  <2>1. phase = from
    BY <1>15, Zenon DEF WriteNodes, Step
  <2>2. \A t : Counted(t) => \A p \in Part : FileHolds(t, p)
    <3>1. phase \notin {"allocate", "fill", "unwinding", "panicked"}
      BY <1>15, <2>1
    <3>. QED  BY <3>1, AllFilled
  <2>3. UNCHANGED <<plan, filling>> /\ Touches(NodeSections(k))
    BY <1>1, <1>15, <2>2, NodesAreWritten
  <2>4. \A r \in NodeSections(k) : r.name[1] # "data" /\ r.name[1] # "leaves"
    <3>1. \A r \in NodeSections(k) : r.name[1] = "nodes"
      BY <1>1, TreeSectionsAre
    <3>. QED  BY <3>1
  <2>. QED  BY <1>4, <2>3, <2>4
<1>16. /\ "write" \in Kind /\ "read" \in Kind /\ "register" \in Kind
       /\ \A from \in {"register nodes", "write nodes", "read nodes"} :
            from \notin {"allocate", "fill", "unwinding", "panicked"}
  BY DEF Kind
<1>17. ASSUME \/ WriteTrees("write", "write trees", "read trees")
              \/ WriteTrees("read", "read trees", "register trees")
              \/ WriteTrees("register", "register trees", "data")
       PROVE  BytesInv'
  BY <1>14, <1>16, <1>17, Zenon
<1>18. ASSUME \/ WriteNodes("register", "register nodes", "write nodes")
              \/ WriteNodes("write", "write nodes", "read nodes")
              \/ WriteNodes("read", "read nodes", "truncate")
       PROVE  BytesInv'
  <2>1. /\ "register nodes" \in {"register nodes", "write nodes", "read nodes"}
        /\ "write nodes" \in {"register nodes", "write nodes", "read nodes"}
        /\ "read nodes" \in {"register nodes", "write nodes", "read nodes"}
    OBVIOUS
  <2>. QED  BY <1>15, <1>16, <1>18, <2>1, Zenon
<1>. QED  BY <1>6, <1>7, <1>8, <1>9, <1>10, <1>11, <1>13, <1>17, <1>18 DEF Next, MainStep

-----------------------------------------------------------------------------
(* What opens *)

\* The places of a section are a record, and the file ends with the data.
LEMMA SectionRecord ==
  ASSUME Planned
  PROVE  /\ \A r \in Wanted(scout) :
              layout.at[r.name] = [start |-> layout.at[r.name].start, end |-> layout.at[r.name].end]
         /\ layout.size = DataSection.end
<1> DEFINE requests == Requests(scout)
           n == Len(requests)
<1>1. Scouted(scout) /\ layout = BuildStorageLayout(scout) /\ DataRequest(scout) \in Wanted(scout)
  BY TreeWants
<1>2. ASSUME NEW r \in Wanted(scout)
      PROVE  /\ IsSection(layout.at[r.name])
             /\ \E i \in 1..n : requests[i] = r /\ layout.at[r.name].end = Ends(requests)[i]
  BY <1>1, SectionPlaced
<1>3. n \in Nat /\ \A i \in 1..n : requests[i] = DataRequest(scout) => i = n
  BY <1>1, RequestsAre
<1>4. layout.size = Ends(requests)[n]
  BY <1>1, <1>3 DEF BuildStorageLayout
<1>5. DataRequest(scout).name = <<"data">>
  BY DEF DataRequest, Request
<1> HIDE DEF requests, n
<1>6. layout.at[<<"data">>].end = Ends(requests)[n]
  <2>1. PICK i \in 1..n : requests[i] = DataRequest(scout)
                          /\ layout.at[DataRequest(scout).name].end = Ends(requests)[i]
    BY <1>1, <1>2
  <2>. QED  BY <1>3, <1>5, <2>1
<1>. QED  BY <1>2, <1>4, <1>6 DEF DataSection, IsSection

\* What the header says of the sections.
LEMMA HeadersAre ==
  ASSUME Planned, NEW h \in {Header, ShortHeader}
  PROVE  /\ h.at[<<"metadata">>] = layout.at[<<"metadata">>]
         /\ \A k \in Kind : /\ h.at[<<"headers", k>>] = layout.at[<<"headers", k>>]
                            /\ h.at[<<"bboxes", k>>] = layout.at[<<"bboxes", k>>]
         /\ h.at[<<"data">>].start = DataSection.start
         /\ Header.at[<<"data">>].end = DataSection.end
         /\ ShortHeader.at[<<"data">>].end = DataSection.end - Unused
<1> DEFINE D == {<<"metadata">>, <<"data">>} \cup ({"headers", "bboxes"} \X Kind)
           at == [name \in D |-> layout.at[name]]
           d == <<"data">>
           s == layout.at[d]
           short == [at EXCEPT ![d] = [at[d] EXCEPT !.end = at[d].end - Unused]]
<1>1. Header = [at |-> at]
  BY DEF Header
<1>2. ShortHeader.at = short
  <2>1. ShortHeader
          = [Header EXCEPT !.at = [Header.at EXCEPT ![d] = [Header.at[d] EXCEPT !.end = @ - Unused]]]
    BY DEF ShortHeader
  <2> HIDE DEF at, D, d
  <2>. QED  BY <1>1, <2>1
<1>3. s = [start |-> DataSection.start, end |-> DataSection.end]
  <2>1. DataRequest(scout).name = d
    BY DEF DataRequest, Request
  <2>. QED  BY <2>1, DataPlaces, SectionRecord DEF DataSection
<1>4. d \in D /\ \A name \in D : at[name] = layout.at[name]
  OBVIOUS
<1>5. \A name \in D : name # d => short[name] = layout.at[name]
  BY <1>4
<1>6. short[d].start = DataSection.start /\ short[d].end = DataSection.end - Unused
  <2>1. short[d] = [s EXCEPT !.end = s.end - Unused]
    BY <1>4
  <2> HIDE DEF s
  <2>. QED  BY <1>3, <2>1
<1>7. /\ <<"metadata">> \in D /\ <<"metadata">> # d
      /\ \A k \in Kind : /\ <<"headers", k>> \in D /\ <<"bboxes", k>> \in D
                         /\ <<"headers", k>> # d /\ <<"bboxes", k>> # d
  OBVIOUS
<1> HIDE DEF D, at, d, short
<1>8. \A name \in D : name # d => h.at[name] = layout.at[name]
  <2>1. CASE h = Header
    BY <1>1, <1>4, <2>1
  <2>2. CASE h = ShortHeader
    BY <1>2, <1>5, <2>2
  <2>. QED  BY <2>1, <2>2
<1>9. h.at[d].start = DataSection.start
  <2>1. CASE h = Header
    BY <1>1, <1>3, <1>4, <2>1 DEF s
  <2>2. CASE h = ShortHeader
    BY <1>2, <1>6, <2>2
  <2>. QED  BY <2>1, <2>2
<1>10. Header.at[d].end = DataSection.end /\ ShortHeader.at[d].end = DataSection.end - Unused
  BY <1>1, <1>2, <1>3, <1>4, <1>6 DEF s
<1>11. h.at[<<"metadata">>] = layout.at[<<"metadata">>]
  BY <1>7, <1>8
<1>12. \A k \in Kind : /\ h.at[<<"headers", k>>] = layout.at[<<"headers", k>>]
                       /\ h.at[<<"bboxes", k>>] = layout.at[<<"bboxes", k>>]
  BY <1>7, <1>8
<1>. QED  BY <1>9, <1>10, <1>11, <1>12 DEF d

\* What opens has a header, and then the fill pass is over.
LEMMA OpenedIs ==
  ASSUME BuildInv, TreesInv, Opens
  PROVE  /\ Planned /\ phase \notin Headless /\ pos = Len(trace)
         /\ 0 \in DOMAIN file /\ At(0) = file[0]
         /\ At(0) = IF phase \in Shortened THEN ShortHeader ELSE Header
         /\ \A t : Counted(t) => \A p \in Part : FileHolds(t, p)
<1>1. At(0) # None
  BY DEF Opens
<1>2. /\ phase \notin Headless /\ 0 \in DOMAIN file
      /\ file[0] = IF phase \in Shortened THEN ShortHeader ELSE Header
  BY <1>1 DEF TreesInv, HeaderHolds
<1>3. At(0) = file[0]
  BY <1>2 DEF At
<1>4. Planned /\ phase \notin {"allocate", "fill", "unwinding", "panicked"} /\ pos = Len(trace)
  BY <1>2 DEF BuildInv, FillInv, InOrder, Headless, Phase
<1>5. \A t : Counted(t) => \A p \in Part : FileHolds(t, p)
  BY <1>4, AllFilled
<1>. QED  BY <1>2, <1>3, <1>4, <1>5

\* The bytes of a leaf of the trace.
LEMMA BytesOfIs ==
  ASSUME Planned, BytesInv, dedup.used \in Nat, pos = Len(trace), NEW i \in DOMAIN trace,
         trace[i].of = "leaf", trace[i].tree[1] = "write"
  PROVE  /\ BytesOf(trace, trace[i]) \in Seq(Nat)
         /\ Len(BytesOf(trace, trace[i])) = trace[i].node.key_max - trace[i].node.key_min + 1
<1> DEFINE leaf == trace[i]
           bytes == trace[leaf.access].bytes
           d == data[leaf.access]
           cuts == leaf.cuts
<1>1. /\ trace \in Traces /\ DOMAIN trace = 1..Len(trace) /\ leaf \in Event /\ WellCut(trace)
      /\ InlineSize \in Nat /\ i \in 1..Len(trace) /\ Len(trace) \in Nat
  BY TracesAssumption DEF Planned
<1>2. /\ leaf.access \in 1..(i - 1) /\ trace[leaf.access].of = "access"
      /\ Len(BytesOf(trace, leaf)) = leaf.node.key_max - leaf.node.key_min + 1
  BY <1>1 DEF WellCut
<1>3. leaf.access \in 1..Len(trace)
  BY <1>1, <1>2
<1>4. cuts \in Seq(Nat \X Nat)
  BY <1>1 DEF Event
<1>5. bytes \in Seq(Nat)
  BY <1>1, <1>2, <1>3, BytesAre
<1>6. StandsFor(d, bytes)
  <2>1. leaf.access \in DOMAIN data
    BY <1>2, <1>3 DEF BytesInv, Met
  <2>. QED  BY <2>1 DEF BytesInv, DataHeld
<1>7. BytesOf(trace, leaf) = BytesLeft(bytes, cuts)
  BY Zenon DEF BytesOf, BytesLeft
<1>8. DataSection.start \in Nat
  BY DataPlaces
<1>9. BytesLeft(bytes, cuts) \in Seq(Nat)
  <2> HIDE DEF d, cuts, bytes
  <2>. QED  BY <1>1, <1>4, <1>5, <1>6, <1>8, CutsHold
<1> HIDE DEF bytes, cuts
<1>. QED  BY <1>2, <1>7, <1>9

\* What is packed for some bytes.
LEMMA PackedIs ==
  ASSUME Planned, NEW bytes \in Seq(Nat), NEW d, StandsFor(d, bytes)
  PROVE  /\ Packed(d) \in [bytes : Seq(Nat), offset : Nat]
         /\ Len(bytes) <= InlineSize => SubSeq(Packed(d).bytes, 1, Len(bytes)) = bytes
         /\ Len(bytes) > InlineSize => StoredAt(Packed(d).offset, bytes)
<1> DEFINE n == Len(bytes)
           pad == [i \in 1..InlineSize |-> IF i \in DOMAIN d.bytes THEN d.bytes[i] ELSE 0]
<1>1. n \in Nat /\ DOMAIN bytes = 1..n /\ bytes \in [1..n -> Nat] /\ InlineSize \in Nat
  BY TracesAssumption
<1>2. Packed(d) = [bytes |-> pad, offset |-> d.offset]
  BY DEF Packed
<1>3. CASE n <= InlineSize /\ d = Inline(bytes)
  <2>1. d.bytes = bytes /\ d.offset = 0
    BY <1>3 DEF Inline
  <2>2. pad \in [1..InlineSize -> Nat] /\ \A i \in 1..n : pad[i] = bytes[i]
    BY <1>1, <1>3, <2>1
  <2> HIDE DEF pad, n
  <2>3. pad \in Seq(Nat) /\ Len(pad) = InlineSize
    BY <1>1, <2>2, IsSequence
  <2> DEFINE sub == SubSeq(pad, 1, n)
  <2>4. sub = [i \in 1..n |-> pad[i]]
    <3>1. sub = [i \in 1..(1 + n - 1) |-> pad[i + 1 - 1]]
      BY <1>1
    <3>2. 1 + n - 1 = n /\ \A i \in 1..n : i + 1 - 1 = i
      BY <1>1
    <3> HIDE DEF sub
    <3>. QED  BY <3>1, <3>2
  <2> HIDE DEF sub
  <2>5. sub = bytes
    BY <1>1, <2>2, <2>4
  <2>. QED  BY <1>2, <1>3, <2>1, <2>3, <2>5 DEF sub, n
<1>4. ASSUME n > InlineSize, NEW o \in Nat, d = Outline(o, n), StoredAt(o, bytes)
      PROVE  Packed(d) \in [bytes : Seq(Nat), offset : Nat] /\ StoredAt(Packed(d).offset, bytes)
  <2>1. d.bytes = <<>> /\ d.offset = o
    BY <1>4 DEF Outline
  <2>2. pad \in [1..InlineSize -> Nat]
    BY <2>1
  <2> HIDE DEF pad, n
  <2>3. pad \in Seq(Nat)
    BY <1>1, <2>2, IsSequence
  <2>. QED  BY <1>2, <1>4, <2>1, <2>3
<1> HIDE DEF n
<1>5. (n <= InlineSize /\ d = Inline(bytes))
        \/ (n > InlineSize /\ \E o \in Nat : d = Outline(o, n) /\ StoredAt(o, bytes))
  BY Zenon DEF StandsFor, n
<1>6. ~(n <= InlineSize /\ n > InlineSize)
  BY <1>1
<1>. QED  BY <1>3, <1>4, <1>5, <1>6 DEF n

\* A leaf in the file is there, and has the bytes it stands for.
LEMMA LeafOpens ==
  ASSUME Planned, BytesInv, dedup.used \in Nat, pos = Len(trace),
         At(0).at[<<"data">>].start = DataSection.start, NEW t, NEW x, IsLeaf(t, x)
  PROVE  x # None /\ HasItsBytes(t, x)
<1>1. PICK i \in LeavesOf(trace, t) :
        \/ t[1] # "write" /\ x = [node |-> trace[i].node]
        \/ /\ t[1] = "write"
           /\ \E d : /\ StandsFor(d, BytesOf(trace, trace[i]))
                     /\ x = [node |-> trace[i].node, packed_data |-> Packed(d)]
  BY DEF IsLeaf
<1>2. /\ trace[i].node \in Node /\ i \in DOMAIN trace /\ trace[i].of = "leaf" /\ trace[i].tree = t
      /\ DOMAIN trace = 1..Len(trace) /\ trace \in Traces /\ InlineSize \in Nat
  BY KeyIs, TracesAssumption DEF LeavesOf, Planned
<1>3. CASE t[1] # "write" /\ x = [node |-> trace[i].node]
  BY <1>2, <1>3, NoneAssumption DEF HasItsBytes
<1>4. ASSUME t[1] = "write", NEW d, StandsFor(d, BytesOf(trace, trace[i])),
             x = [node |-> trace[i].node, packed_data |-> Packed(d)]
      PROVE  x # None /\ HasItsBytes(t, x)
  <2> DEFINE bytes == BytesOf(trace, trace[i])
             n == Len(bytes)
             a == DataSection.start
             o == Packed(d).offset
             len == x.node.key_max - x.node.key_min + 1
             start == At(0).at[<<"data">>].start + x.packed_data.offset
  <2>1. bytes \in Seq(Nat) /\ n = trace[i].node.key_max - trace[i].node.key_min + 1
    BY <1>2, <1>4, BytesOfIs
  <2>2. StandsFor(d, bytes)
    BY <1>4
  <2> HIDE DEF bytes
  <2>3. /\ Packed(d) \in [bytes : Seq(Nat), offset : Nat]
        /\ n <= InlineSize => SubSeq(Packed(d).bytes, 1, n) = bytes
        /\ n > InlineSize => StoredAt(o, bytes)
    BY <2>1, <2>2, PackedIs
  <2>4. x.node = trace[i].node /\ x.packed_data = Packed(d) /\ len = n /\ start = a + o
    BY <1>4, <2>1
  <2>5. x # None
    <3> DEFINE pd == Packed(d)
               D == [bytes : Seq(Nat), offset : Nat]
    <3>1. pd \in D /\ trace[i].node \in Node /\ x = [node |-> trace[i].node, packed_data |-> pd]
      BY <1>2, <1>4, <2>3
    <3>2. None \notin [node : Node, packed_data : D]
      BY NoneAssumption
    <3> HIDE DEF pd, D
    <3>. QED  BY <3>1, <3>2
  <2>6. n \in Nat /\ a \in Nat /\ o \in Nat /\ bytes = [j \in 1..n |-> bytes[j]]
    <3>1. n \in Nat /\ bytes = [j \in 1..n |-> bytes[j]]
      BY <2>1
    <3>2. a \in Nat
      BY DataPlaces
    <3>3. o \in Nat
      BY <2>3
    <3>. QED  BY <3>1, <3>2, <3>3
  <2> HIDE DEF n, a, o, len, start
  <2>7. n > InlineSize => ReadSection([start |-> start, end |-> start + n], "byte") = bytes
    <3> SUFFICES ASSUME n > InlineSize
                 PROVE  ReadSection([start |-> start, end |-> start + n], "byte") = bytes
      OBVIOUS
    <3>1. start \in Nat
      BY <2>4, <2>6
    <3>2. ReadSection([start |-> start, end |-> start + n], "byte") = [j \in 1..n |-> At(start + (j - 1))]
      BY <2>6, <3>1, StoredIs
    <3>3. \A j \in 1..n : At(start + (j - 1)) = bytes[j]
      BY <2>3, <2>4 DEF StoredAt, n, a
    <3>. QED  BY <2>6, <3>2, <3>3
  <2>8. MemLeafData(x) = IF n <= InlineSize THEN SubSeq(Packed(d).bytes, 1, n)
                         ELSE ReadSection([start |-> start, end |-> start + n], "byte")
    <3>1. MemLeafData(x) = IF len <= InlineSize THEN SubSeq(x.packed_data.bytes, 1, len)
                           ELSE ReadSection([start |-> start, end |-> start + len], "byte")
      BY Zenon DEF MemLeafData, len, start
    <3>. QED  BY <2>4, <3>1, Zenon
  <2>9. MemLeafData(x) = bytes
    <3>1. CASE n <= InlineSize
      BY <2>3, <2>8, <3>1
    <3>2. CASE n > InlineSize
      BY <2>6, <2>7, <2>8, <3>2, <1>2
    <3>. QED  BY <1>2, <2>6, <3>1, <3>2
  <2>10. HasItsBytes(t, x)
    BY <2>4, <2>9 DEF HasItsBytes, bytes
  <2>. QED  BY <2>5, <2>10
<1>. QED  BY <1>1, <1>3, <1>4

\* The leaves of a tree in the file, with the order the trace has them in.
LEMMA LeavesOpen ==
  ASSUME Planned, BytesInv, NEW t, Counted(t), \A p \in Part : FileHolds(t, p)
  PROVE  LET s == LeavesInFile(t)
             n == scout.leaves[t]
         IN  /\ n \in Nat /\ DOMAIN s = 1..n /\ Len(s) = n /\ n = Cardinality(LeavesOf(trace, t))
             /\ \A x \in Range(s) : IsLeaf(t, x)
<1> DEFINE s == LeavesInFile(t)
           n == scout.leaves[t]
           r == LeavesRequest(scout, t)
<1>1. n \in Nat /\ \A i \in 1..n : PlaceOf(t, i) \in DOMAIN file
  BY TreeWritten
<1>2. r \in Wanted(scout) /\ r.name = <<"leaves", t>> /\ r.type = t[1] /\ r.count = n
  BY TreeWants DEF LeavesRequest, Request
<1>3. s = [i \in 1..n |-> At(Spot(r, i))]
  <2>1. s = ReadSection(layout.at[r.name], r.type)
    BY <1>2, Zenon DEF LeavesInFile
  <2> HIDE DEF s, r, n
  <2>2. s = [i \in 1..r.count |-> At(Spot(r, i))]
    BY <1>2, <2>1, SectionRead
  <2>. QED  BY <1>2, <2>2
<1>4. \A i \in 1..n : Spot(r, i) = PlaceOf(t, i) /\ Spot(r, i) \in PlacesOf(r)
  <2> HIDE DEF r, n
  <2>1. \A i \in 1..r.count : Spot(r, i) \in PlacesOf(r)
    BY <1>2, SpotsAre
  <2>2. \A i : Spot(r, i) = PlaceOf(t, i)
    BY <1>2 DEF Spot, PlaceOf
  <2>. QED  BY <1>2, <2>1, <2>2
<1>5. \A q \in PlacesOf(r) : q \in DOMAIN file => IsLeaf(t, file[q])
  BY DEF BytesInv, LeavesHeld
<1> HIDE DEF s, n, r
<1>6. ASSUME NEW i \in 1..n
      PROVE  IsLeaf(t, s[i])
  <2> DEFINE q == Spot(r, i)
  <2>1. q \in PlacesOf(r) /\ q \in DOMAIN file
    BY <1>1, <1>4
  <2>2. s[i] = At(q)
    BY <1>3
  <2> HIDE DEF q
  <2>3. At(q) = file[q]
    BY <2>1 DEF At
  <2>. QED  BY <1>5, <2>1, <2>2, <2>3
<1>7. DOMAIN s = 1..n /\ Len(s) = n
  <2> DEFINE S == {At(Spot(r, i)) : i \in 1..n}
  <2>1. s \in [1..n -> S]
    BY <1>3
  <2> HIDE DEF S
  <2>. QED  BY <1>1, <2>1, IsSequence
<1>8. \A x \in Range(s) : IsLeaf(t, x)
  BY <1>6, <1>7, Zenon DEF Range
<1>9. n = Cardinality(LeavesOf(trace, t))
  <2>1. t \in Tree /\ scout = ScoutPass(trace)
    BY CountedIs DEF Planned
  <2>. QED  BY <2>1 DEF ScoutPass, n
<1>. QED  BY <1>1, <1>7, <1>8, <1>9 DEF s, n

\* What is read where the header says a tree is.
LEMMA HeaderOpens ==
  ASSUME Planned, TreesInv, NEW k \in Kind, NEW i \in 1..scout.count[k], NEW t, t = <<k, i>>,
         At(0).at[<<"headers", k>>] = layout.at[<<"headers", k>>],
         At(0).at[<<"bboxes", k>>] = layout.at[<<"bboxes", k>>]
  PROVE  /\ OpenedHeader(t) = IF phase \in PlacedIn(k) THEN TreeHeader(t) ELSE None
         /\ ReadSection(At(0).at[<<"bboxes", k>>], "node")[i]
              = IF phase \in PlacedIn(k) THEN BboxOf(trace, t) ELSE None
<1> DEFINE h == HeadersOf(scout, k)
           b == BboxesOf(scout, k)
<1>1. /\ h.name = <<"headers", k>> /\ h.type = "tree" /\ h.count = scout.count[k]
      /\ b.name = <<"bboxes", k>> /\ b.type = "node" /\ b.count = scout.count[k]
  BY DEF HeadersOf, BboxesOf, Request
<1>2. /\ h \in Wanted(scout) /\ b \in Wanted(scout)
      /\ h \in TreeSections(k) /\ b \in TreeSections(k)
  BY TreeWants DEF TreeSections
<1>3. Contents(h)[i] = TreeHeader(t) /\ Contents(b)[i] = BboxOf(trace, t)
  BY ContentsAre
<1>4. t[1] = k /\ t[2] = i
  OBVIOUS
<1> HIDE DEF h, b
<1>5. /\ At(Spot(h, i)) = IF phase \in PlacedIn(k) THEN TreeHeader(t) ELSE None
      /\ At(Spot(b, i)) = IF phase \in PlacedIn(k) THEN BboxOf(trace, t) ELSE None
  BY <1>1, <1>2, <1>3 DEF TreesInv, TreesHold
<1>6. /\ ReadSection(layout.at[h.name], h.type) = [j \in 1..h.count |-> At(Spot(h, j))]
      /\ ReadSection(layout.at[b.name], b.type) = [j \in 1..b.count |-> At(Spot(b, j))]
  BY <1>2, SectionRead
<1>7. OpenedHeader(t) = ReadSection(layout.at[h.name], h.type)[i]
  BY <1>1, <1>4 DEF OpenedHeader
<1>8. ReadSection(At(0).at[<<"bboxes", k>>], "node") = ReadSection(layout.at[b.name], b.type)
  BY <1>1
<1>. QED  BY <1>1, <1>5, <1>6, <1>7, <1>8

\* The header of a tree is not nothing.
LEMMA HeaderIsThere ==
  ASSUME Planned, NEW t, Counted(t)
  PROVE  TreeHeader(t) # None
<1> DEFINE a == layout.at[<<"leaves", t>>]
           b == layout.at[<<"nodes", t>>]
           c == layout.at[<<"levels", t>>]
<1>1. /\ LeavesRequest(scout, t).name = <<"leaves", t>> /\ NodesRequest(scout, t).name = <<"nodes", t>>
      /\ LevelsRequest(scout, t).name = <<"levels", t>>
  BY DEF LeavesRequest, NodesRequest, LevelsRequest, Request
<1>2. \A r \in Wanted(scout) : layout.at[r.name] \in Section
  <2> TAKE r \in Wanted(scout)
  <2> DEFINE s == layout.at[r.name]
  <2>1. s.start \in Nat /\ s.end \in Nat
    BY TreeWants, SectionsAre
  <2>2. s = [start |-> s.start, end |-> s.end]
    BY SectionRecord
  <2> HIDE DEF s
  <2>3. s \in Section
    BY <2>1, <2>2 DEF Section
  <2>. QED  BY <2>3 DEF s
<1>3. a \in Section /\ b \in Section /\ c \in Section
  BY <1>1, <1>2, TreeWants
<1>4. scout.order \in Order
  BY TreeWants DEF Scouted
<1>5. TreeHeader(t) = [order |-> scout.order, leaves |-> a, nodes |-> b, levels |-> c]
  BY DEF TreeHeader
<1> HIDE DEF a, b, c
<1>. QED  BY <1>3, <1>4, <1>5, NoneAssumption

\* A tree that is opened has its header, and is counted.
LEMMA OpenedTreeIs ==
  ASSUME BuildInv, TreesInv, Opens, NEW t \in AllTrees(scout)
  PROVE  /\ Counted(t) /\ t[1] \in Kind
         /\ t \in OpenedTrees <=> phase \in PlacedIn(t[1])
         /\ t \in OpenedTrees =>
              OpenedTree(t) = [order |-> scout.order, leaves |-> LeavesInFile(t),
                               nodes |-> ReadSection(layout.at[<<"nodes", t>>], "node"),
                               levels |-> ReadSection(layout.at[<<"levels", t>>], "level"),
                               bbox |-> BboxOf(trace, t)]
<1>1. PICK k \in Kind : t \in Range(TreesOf(scout, k))
  BY Zenon DEF AllTrees
<1>2. Counted(t)
  BY <1>1, AllAreCounted
<1>3. PICK i \in 1..scout.count[k] : t = <<k, i>>
  <2> DEFINE s == TreesOf(scout, k)
  <2>1. PICK j \in DOMAIN s : t = s[j]
    BY <1>1, Zenon DEF Range
  <2>. QED  BY <2>1 DEF TreesOf
<1>4. t[1] = k /\ t[2] = i
  BY <1>3
<1>5. /\ Planned
      /\ At(0).at[<<"headers", k>>] = layout.at[<<"headers", k>>]
      /\ At(0).at[<<"bboxes", k>>] = layout.at[<<"bboxes", k>>]
  <2>1. Planned /\ At(0) \in {Header, ShortHeader}
    BY OpenedIs
  <2> DEFINE h == At(0)
  <2> HIDE DEF h
  <2>2. h \in {Header, ShortHeader}
    BY <2>1 DEF h
  <2>3. h.at[<<"headers", k>>] = layout.at[<<"headers", k>>] /\ h.at[<<"bboxes", k>>] = layout.at[<<"bboxes", k>>]
    BY <2>1, <2>2, HeadersAre
  <2>. QED  BY <2>1, <2>3 DEF h
<1>6. /\ OpenedHeader(t) = IF phase \in PlacedIn(k) THEN TreeHeader(t) ELSE None
      /\ ReadSection(At(0).at[<<"bboxes", k>>], "node")[i]
           = IF phase \in PlacedIn(k) THEN BboxOf(trace, t) ELSE None
  BY <1>3, <1>5, HeaderOpens
<1>7. TreeHeader(t) # None
  BY <1>2, <1>5, HeaderIsThere
<1>8. t \in OpenedTrees <=> phase \in PlacedIn(k)
  <2>1. t \in OpenedTrees <=> OpenedHeader(t) # None
    BY Zenon DEF OpenedTrees
  <2>. QED  BY <1>6, <1>7, <2>1
<1>9. ASSUME t \in OpenedTrees
      PROVE  OpenedTree(t) = [order |-> scout.order, leaves |-> LeavesInFile(t),
                              nodes |-> ReadSection(layout.at[<<"nodes", t>>], "node"),
                              levels |-> ReadSection(layout.at[<<"levels", t>>], "level"),
                              bbox |-> BboxOf(trace, t)]
  <2> DEFINE g == OpenedHeader(t)
             box == ReadSection(At(0).at[<<"bboxes", t[1]>>], "node")[t[2]]
  <2>1. g = TreeHeader(t) /\ box = BboxOf(trace, t)
    BY <1>4, <1>6, <1>8, <1>9
  <2>2. OpenedTree(t) = [order |-> g.order, leaves |-> ReadSection(g.leaves, t[1]),
                         nodes |-> ReadSection(g.nodes, "node"), levels |-> ReadSection(g.levels, "level"),
                         bbox |-> box]
    BY Zenon DEF OpenedTree
  <2> HIDE DEF g, box
  <2>3. /\ g.order = scout.order /\ g.leaves = layout.at[<<"leaves", t>>]
        /\ g.nodes = layout.at[<<"nodes", t>>] /\ g.levels = layout.at[<<"levels", t>>]
    BY <2>1 DEF TreeHeader
  <2>4. ReadSection(g.leaves, t[1]) = LeavesInFile(t)
    BY <2>3, Zenon DEF LeavesInFile
  <2>. QED  BY <2>1, <2>2, <2>3, <2>4, Zenon
<1>. QED  BY <1>2, <1>4, <1>8, <1>9

\* When the build has ended, a tree that is opened is the one its leaves make.
LEMMA TreeIsWhole ==
  ASSUME BuildInv, TreesInv, phase = "done", NEW t, Counted(t), \A p \in Part : FileHolds(t, p),
         NEW tree,
         tree = [order |-> scout.order, leaves |-> LeavesInFile(t),
                 nodes |-> ReadSection(layout.at[<<"nodes", t>>], "node"),
                 levels |-> ReadSection(layout.at[<<"levels", t>>], "level"),
                 bbox |-> BboxOf(trace, t)]
  PROVE  IsWhole(tree)
<1> DEFINE s == LeavesInFile(t)
           n == scout.leaves[t]
           k == t[1]
           order == scout.order
           nr == NodesRequest(scout, t)
           lr == LevelsRequest(scout, t)
           below == [i \in DOMAIN s |-> s[i].node]
<1>1. Planned /\ k \in Kind /\ t \in TreesIn(scout, k) /\ trace \in Traces
  BY CountedIs DEF BuildInv, FillInv, Planned
<1>2. PICK g : Lists(g, n, LeavesOf(trace, t)) /\ HoldsAt(s, g, n)
  BY <1>1, TreeRead
<1>3. n \in Nat /\ DOMAIN s = 1..n
  BY <1>1, TreeRead
<1>4. order = NodeOrder /\ order \in Order
  BY <1>1, TreeWants DEF Planned, ScoutPass, Scouted
<1>5. phase \in PlacedIn(k) /\ phase \in BuiltIn(k)
  BY DEF PlacedIn, BuiltIn, Shortened
<1>6. /\ nr.name = <<"nodes", t>> /\ nr.type = "node" /\ nr \in Wanted(scout) /\ nr \in NodeSections(k)
      /\ lr.name = <<"levels", t>> /\ lr.type = "level" /\ lr \in Wanted(scout) /\ lr \in TreeSections(k)
      /\ lr.count = Len(LevelsOf(scout, t))
  BY <1>1, TreeWants DEF NodesRequest, LevelsRequest, Request, NodeSections, TreeSections
<1>7. Contents(nr) = NodesOf(t) /\ Contents(lr) = LevelsOf(scout, t)
  BY ContentsAre
<1>8. /\ NodesOf(t) \in Seq(Node) /\ Len(NodesOf(t)) = nr.count
      /\ NodesOf(t) = NodesOver(order)[below]
  <2>1. NodesOf(t) = NodesOver(order)[below]
    BY Zenon DEF NodesOf, LeavesInFile
  <2>. QED  BY <1>1, <2>1, NodesFit
<1>9. /\ LevelsOf(scout, t) = Levels(order, n) /\ DOMAIN Levels(order, n) = 1..Len(Levels(order, n))
      /\ Levels(order, n) = [i \in 1..Len(Levels(order, n)) |-> Levels(order, n)[i]]
  <2> DEFINE l == Levels(order, n)
  <2>1. DOMAIN l = 1..Len(l)
    BY <1>3, <1>4, LevelsListing
  <2>2. l = [i \in DOMAIN l |-> l[i]]
    <3> DEFINE sizes == LevelSizes(order)[n]
               placed == [i \in DOMAIN sizes |-> [offset |-> OffsetOf(sizes)[i], size |-> sizes[i]]]
    <3>1. l = Reverse(placed)
      BY Zenon DEF Levels
    <3> HIDE DEF l, placed
    <3>. QED  BY <3>1 DEF Reverse
  <2> HIDE DEF l
  <2>3. l = [i \in 1..Len(l) |-> l[i]]
    BY <2>1, <2>2
  <2>. QED  BY <2>1, <2>3 DEF l, LevelsOf
<1> HIDE DEF s, n, order, nr, lr
<1>10. ReadSection(layout.at[nr.name], nr.type) = NodesOf(t)
  <2>1. ReadSection(layout.at[nr.name], nr.type) = [i \in 1..nr.count |-> At(Spot(nr, i))]
    BY <1>1, <1>6, SectionRead
  <2>2. \A i \in 1..nr.count : At(Spot(nr, i)) = NodesOf(t)[i]
    BY <1>1, <1>5, <1>6, <1>7 DEF TreesInv, NodesHold
  <2>3. NodesOf(t) = [i \in 1..nr.count |-> NodesOf(t)[i]]
    <3> DEFINE m == NodesOf(t)
    <3> HIDE DEF m
    <3>1. m \in Seq(Node)
      BY <1>8 DEF m
    <3>2. m = [i \in 1..Len(m) |-> m[i]]
      BY <3>1
    <3>. QED  BY <1>8, <3>2 DEF m
  <2>. QED  BY <2>1, <2>2, <2>3
<1>11. ReadSection(layout.at[lr.name], lr.type) = Levels(order, n)
  <2> DEFINE l == Levels(order, n)
  <2> HIDE DEF l
  <2>1. ReadSection(layout.at[lr.name], lr.type) = [i \in 1..lr.count |-> At(Spot(lr, i))]
    BY <1>1, <1>6, SectionRead
  <2>2. \A i \in 1..lr.count : At(Spot(lr, i)) = l[i]
    BY <1>1, <1>5, <1>6, <1>7, <1>9 DEF TreesInv, TreesHold, l
  <2>3. l = [i \in 1..lr.count |-> l[i]]
    BY <1>6, <1>9 DEF l
  <2>4. ReadSection(layout.at[lr.name], lr.type) = l
    BY <2>1, <2>2, <2>3
  <2>. QED  BY <2>4 DEF l
<1>12. \A i \in 1..n : /\ g[i] \in LeavesOf(trace, t) /\ s[i].node = trace[g[i]].node
                       /\ s[i].node \in Node
  <2> TAKE i \in 1..n
  <2>1. g[i] \in LeavesOf(trace, t) /\ s[i].node = trace[g[i]].node
    BY <1>2 DEF Lists, HoldsAt
  <2>. QED  BY <1>1, <2>1, KeyIs
<1>13. below \in [1..n -> Node] /\ \A i \in 1..n : below[i] = s[i].node
  BY <1>3, <1>12
<1>14. Bbox(Range(below)) = BboxOf(trace, t)
  <2> DEFINE nodes == {trace[i].node : i \in LeavesOf(trace, t)}
  <2>1. Range(below) = {below[i] : i \in 1..n}
    BY <1>13, Zenon DEF Range
  <2>2. \A x \in LeavesOf(trace, t) : \E i \in 1..n : g[i] = x
    BY <1>2 DEF Lists
  <2>3. \A i \in 1..n : below[i] = trace[g[i]].node
    BY <1>12, <1>13
  <2> HIDE DEF below
  <2>4. Range(below) = nodes
    BY <1>12, <2>1, <2>2, <2>3
  <2>. QED  BY <2>4, Zenon DEF BboxOf
<1>15. Len(below) = n
  <2> HIDE DEF below
  <2>. QED  BY <1>3, <1>13, IsSequence
<1>16. [i \in DOMAIN tree.leaves |-> tree.leaves[i].node] = below
  BY DEF s
<1>17. tree = [order |-> order, leaves |-> s, nodes |-> NodesOf(t), levels |-> Levels(order, n),
               bbox |-> BboxOf(trace, t)]
  BY <1>6, <1>10, <1>11 DEF s, order
<1>18. TreeOf(NodeOrder, below)
         = [order |-> order, leaves |-> below, nodes |-> NodesOf(t), levels |-> Levels(order, n),
            bbox |-> BboxOf(trace, t)]
  <2> HIDE DEF below
  <2>. QED  BY <1>4, <1>8, <1>14, <1>15, Zenon DEF TreeOf
<1>19. [tree EXCEPT !.leaves = below] = TreeOf(NodeOrder, below)
  <2> HIDE DEF below
  <2>. QED  BY <1>17, <1>18
<1> HIDE DEF below
<1>. QED  BY <1>16, <1>19 DEF IsWhole

\* The data section is inside the file, which ends with it when the build has ended.
LEMMA DataInside ==
  ASSUME BuildInv, TreesInv, Opens
  PROVE  /\ At(0).at[<<"data">>].start = DataSection.start
         /\ At(0).at[<<"data">>].end <= size
         /\ phase = "done" => size = At(0).at[<<"data">>].end
<1> DEFINE h == At(0)
           e == h.at[<<"data">>].end
           u == Unused
<1>1. /\ Planned /\ phase \notin Headless /\ h = IF phase \in Shortened THEN ShortHeader ELSE Header
      /\ h \in {Header, ShortHeader}
  BY OpenedIs
<1>2. u \in Nat
  BY UsedFits, <1>1, TreeWants DEF Unused, Scouted
<1>3. DataSection.end \in Nat /\ layout.size = DataSection.end
  BY <1>1, DataPlaces, SectionRecord
<1> HIDE DEF h
<1>4. /\ h.at[<<"data">>].start = DataSection.start
      /\ Header.at[<<"data">>].end = DataSection.end
      /\ ShortHeader.at[<<"data">>].end = DataSection.end - u
  BY <1>1, HeadersAre
<1>6. size = IF phase = "done" THEN layout.size - u ELSE layout.size
  BY <1>1 DEF TreesInv, SizeHolds, Headless
<1>7. phase = "done" => e = DataSection.end - u
  BY <1>1, <1>4 DEF Shortened
<1>8. e = DataSection.end \/ e = DataSection.end - u
  BY <1>1, <1>4
<1> HIDE DEF e, u
<1>9. e <= size /\ (phase = "done" => size = e)
  BY <1>2, <1>3, <1>6, <1>7, <1>8
<1>. QED  BY <1>4, <1>9 DEF e, h

\* What opens reads back.
LEMMA InvReadsBack == BuildInv /\ TreesInv /\ BytesInv => WhatOpensReadsBack
<1> SUFFICES ASSUME BuildInv, TreesInv, BytesInv, Opens
             PROVE  /\ At(0).at[<<"data">>].end <= size
                    /\ \A t \in OpenedTrees : \A tree \in {OpenedTree(t)} : HasItsLeaves(t, tree)
                    /\ phase = "done" =>
                         /\ size = At(0).at[<<"data">>].end
                         /\ OpenedTrees = AllTrees(scout)
                         /\ \A t \in OpenedTrees : \A tree \in {OpenedTree(t)} : IsWhole(tree)
  BY Zenon DEF WhatOpensReadsBack
<1>1. /\ Planned /\ pos = Len(trace) /\ \A t : Counted(t) => \A p \in Part : FileHolds(t, p)
  BY OpenedIs
<1>2. /\ At(0).at[<<"data">>].start = DataSection.start /\ At(0).at[<<"data">>].end <= size
      /\ phase = "done" => size = At(0).at[<<"data">>].end
  BY DataInside
<1>3. dedup.used \in Nat
  BY DEF BuildInv, FillInv
<1>4. OpenedTrees \subseteq AllTrees(scout)
  BY DEF OpenedTrees
<1>5. ASSUME NEW t \in OpenedTrees
      PROVE  HasItsLeaves(t, OpenedTree(t))
  <2> DEFINE tree == OpenedTree(t)
             s == LeavesInFile(t)
  <2>1. Counted(t) /\ tree.leaves = s
    <3>1. t \in AllTrees(scout)
      BY <1>4
    <3>2. /\ Counted(t)
          /\ tree = [order |-> scout.order, leaves |-> s,
                     nodes |-> ReadSection(layout.at[<<"nodes", t>>], "node"),
                     levels |-> ReadSection(layout.at[<<"levels", t>>], "level"),
                     bbox |-> BboxOf(trace, t)]
      BY <3>1, OpenedTreeIs
    <3> HIDE DEF tree, s
    <3>. QED  BY <3>2
  <2>2. Len(s) = Cardinality(LeavesOf(trace, t)) /\ \A x \in Range(s) : IsLeaf(t, x)
    BY <1>1, <2>1, LeavesOpen
  <2>3. \A x \in Range(s) : x # None /\ HasItsBytes(t, x)
    <3> HIDE DEF s
    <3>. QED  BY <1>1, <1>2, <1>3, <2>2, LeafOpens
  <2> HIDE DEF tree, s
  <2>4. HasItsLeaves(t, tree)
    BY <2>1, <2>2, <2>3, Zenon DEF HasItsLeaves
  <2>. QED  BY <2>4 DEF tree
<1>6. ASSUME phase = "done"
      PROVE  OpenedTrees = AllTrees(scout)
  <2>1. ASSUME NEW t \in AllTrees(scout)
        PROVE  t \in OpenedTrees
    <3>1. phase \in PlacedIn(t[1])
      BY <1>6 DEF PlacedIn, Shortened
    <3>. QED  BY <3>1, OpenedTreeIs
  <2>. QED  BY <1>4, <2>1
<1>7. ASSUME phase = "done", NEW t \in OpenedTrees
      PROVE  IsWhole(OpenedTree(t))
  <2> DEFINE tree == OpenedTree(t)
  <2>1. /\ Counted(t)
        /\ tree = [order |-> scout.order, leaves |-> LeavesInFile(t),
                   nodes |-> ReadSection(layout.at[<<"nodes", t>>], "node"),
                   levels |-> ReadSection(layout.at[<<"levels", t>>], "level"),
                   bbox |-> BboxOf(trace, t)]
    BY <1>4, OpenedTreeIs
  <2>2. \A p \in Part : FileHolds(t, p)
    BY <1>1, <2>1
  <2> HIDE DEF tree
  <2>3. IsWhole(tree)
    BY <1>7, <2>1, <2>2, TreeIsWhole
  <2>. QED  BY <2>3 DEF tree
<1>. QED  BY <1>2, <1>5, <1>6, <1>7

\* Whatever step build_index (lib.rs) was killed at, a file that opens
\* (Db::from_aligned_slice, db.rs) has its data section inside the file, and each
\* of its trees is empty or has all its leaves with the bytes of the trace; when
\* the build has ended the trees are whole and the file ends with its data
\* (storage.rs).  For every trace and every number of zones and registers.
THEOREM BuildReadsBack == Spec => []WhatOpensReadsBack
<1> DEFINE Inv == BuildInv /\ TreesInv /\ BytesInv
<1>1. Init => Inv
  BY BuildInvInit, TreesInvInit, BytesInvInit
<1>2. Inv /\ [Next]_vars => Inv'
  BY BuildInvNext, TreesInvNext, BytesInvNext
<1>3. Inv => WhatOpensReadsBack
  BY InvReadsBack
<1>. QED  BY <1>1, <1>2, <1>3, PTL DEF Spec
=============================================================================

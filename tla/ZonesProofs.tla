---------------------------- MODULE ZonesProofs ----------------------------
(***************************************************************************)
(* For every address space, padding and trace: the zones of the scout pass *)
(* stay apart, and every leaf is found in the zone that counted it.        *)
(*                                                                         *)
(* The argument.  Each merge removes a zone, so as many merges as there    *)
(* are zones leave no conflict (MergeEnds), and two zones that are not in  *)
(* conflict are more than the padding apart (ConflictIsNear).  While zones *)
(* are merged they may overlap, and a leaf may lie in several: what is     *)
(* kept is that SOME assignment of the leaves to zones puts every leaf in  *)
(* a zone that contains it and that counts exactly the leaves assigned to  *)
(* it (Assigns).  Once the zones are apart that assignment can only be     *)
(* find_zone_containing_addr_range (ApartFinds).                           *)
(***************************************************************************)
EXTENDS Zones, FiniteSetTheorems, NaturalsInduction, TLAPS

-----------------------------------------------------------------------------
(* Natural numbers *)

\* A set of naturals that is not empty has a least element.
LEMMA Least ==
  ASSUME NEW T, T \subseteq Nat, T # {}
  PROVE  \E x \in T : \A y \in T : x <= y
<1> DEFINE R == {ss \in Nat \X Nat : ss[1] < ss[2]}
<1>1. IsWellFoundedOn(R, Nat)
  BY NatLessThanWellFounded, Zenon DEF OpToRel
<1>2. PICK x \in T : \A y \in T : ~ (<<y, x>> \in R)
  <2> HIDE DEF R
  <2>. QED  BY <1>1, WFMin
<1>3. \A y \in T : ~ (y < x)
  BY <1>2
<1>. QED  BY <1>3

\* The least element is the one that Min chooses.
LEMMA MinIs ==
  ASSUME NEW T, T \subseteq Nat, T # {}
  PROVE  Min(T) \in T /\ \A y \in T : Min(T) <= y
BY Least DEF Min

\* A set that has 0 and the successor of each of its members has them all.
LEMMA Induction ==
  ASSUME NEW T, 0 \in T, \A n \in Nat : n \in T => n + 1 \in T
  PROVE  Nat \subseteq T
<1> SUFFICES ASSUME Nat \ T # {} PROVE FALSE
  OBVIOUS
<1>1. PICK m \in Nat \ T : \A y \in Nat \ T : m <= y
  BY Least
<1>2. m # 0 /\ m - 1 \in Nat /\ m - 1 \notin Nat \ T
  BY <1>1
<1>3. (m - 1) + 1 = m
  BY <1>1
<1>. QED  BY <1>1, <1>2, <1>3

-----------------------------------------------------------------------------
(* Sums over finite sets of ranges *)

\* LeavesOf, for any function.
Total(f, S) == FoldFunctionOnSet(+, 0, f, S)

\* One step of the fold over s.
SumStep(g, f, s) ==
  IF s = {} THEN 0 ELSE f[CHOOSE x \in s : TRUE] + g[s \ {CHOOSE x \in s : TRUE}]

\* g is the fold, over the subsets of S.
SumOn(g, f, S) == g = [s \in SUBSET S |-> SumStep(g, f, s)]

\* The fold of the library is a function chosen to satisfy that equation.
LEMMA TotalIsChosen ==
  ASSUME NEW f, NEW S
  PROVE  Total(f, S) = (CHOOSE g : SumOn(g, f, S))[S]
BY DEF Total, SumOn, SumStep, FoldFunctionOnSet, MapThenFoldSet

\* A set without the element that the fold takes first.
Rest(s) == s \ {CHOOSE x \in s : TRUE}

\* It has one element less.
LEMMA RestIsSmaller ==
  ASSUME NEW S, IsFiniteSet(S), NEW s \in SUBSET S, s # {}
  PROVE  /\ IsFiniteSet(s) /\ Rest(s) \in SUBSET S /\ IsFiniteSet(Rest(s))
         /\ (CHOOSE x \in s : TRUE) \in s
         /\ Cardinality(s) \in Nat \ {0} /\ Cardinality(Rest(s)) = Cardinality(s) - 1
<1>1. IsFiniteSet(s)
  BY FS_Subset
<1>2. (CHOOSE x \in s : TRUE) \in s
  OBVIOUS
<1>3. Cardinality(s) \in Nat /\ Cardinality(s) # 0
  BY <1>1, FS_CardinalityType, FS_EmptySet
<1>4. IsFiniteSet(Rest(s)) /\ Cardinality(Rest(s)) = Cardinality(s) - 1
  BY <1>1, <1>2, FS_RemoveElement DEF Rest
<1>5. Rest(s) \in SUBSET S
  BY DEF Rest
<1>. QED  BY <1>1, <1>2, <1>3, <1>4, <1>5

\* The fold is defined: it is a function that satisfies its equation.
LEMMA SumExists ==
  ASSUME NEW S, IsFiniteSet(S), NEW f
  PROVE  \E g : SumOn(g, f, S)
<1> DEFINE UpTo(n) == {s \in SUBSET S : Cardinality(s) <= n}
           SumTo(g, n) == g = [s \in UpTo(n) |-> SumStep(g, f, s)]
           T == {n \in Nat : \E g : SumTo(g, n)}
<1>1. 0 \in T
  <2> DEFINE g == [s \in UpTo(0) |-> 0]
  <2>1. \A s \in UpTo(0) : s = {}
    BY RestIsSmaller
  <2>2. SumTo(g, 0)
    BY <2>1 DEF SumStep
  <2>. QED  BY <2>2
<1>2. ASSUME NEW n \in Nat, n \in T
      PROVE  n + 1 \in T
  <2>1. PICK g : SumTo(g, n)
    BY <1>2
  <2> DEFINE h == [s \in UpTo(n + 1) |-> SumStep(g, f, s)]
  <2>2. ASSUME NEW s \in UpTo(n + 1), s # {}
        PROVE  Rest(s) \in UpTo(n) /\ Rest(s) \in UpTo(n + 1) /\ Cardinality(s) \in Nat
    BY <2>2, RestIsSmaller
  <2>3. ASSUME NEW s \in UpTo(n)
        PROVE  s \in UpTo(n + 1) /\ h[s] = g[s]
    <3>1. s \in UpTo(n + 1)
      BY <2>3, FS_CardinalityType, FS_Subset
    <3>. QED  BY <2>1, <3>1
  <2>4. ASSUME NEW s \in UpTo(n + 1)
        PROVE  SumStep(h, f, s) = SumStep(g, f, s)
    <3>1. CASE s = {}
      BY <3>1 DEF SumStep
    <3>2. CASE s # {}
      <4>1. h[Rest(s)] = g[Rest(s)]
        BY <2>2, <2>3, <3>2
      <4> HIDE DEF h
      <4>. QED  BY <3>2, <4>1 DEF SumStep, Rest
    <3>. QED  BY <3>1, <3>2
  <2>5. SumTo(h, n + 1)
    BY <2>4
  <2> HIDE DEF h, SumTo
  <2>6. \E k : SumTo(k, n + 1)
    BY <2>5
  <2>. QED  BY <2>6
<1>3. Nat \subseteq T
  <2> HIDE DEF T
  <2>. QED  BY <1>1, <1>2, Induction
<1>4. Cardinality(S) \in Nat
  BY FS_CardinalityType
<1>5. PICK g : SumTo(g, Cardinality(S))
  BY <1>3, <1>4
<1>6. UpTo(Cardinality(S)) = SUBSET S
  BY FS_Subset
<1>. QED  BY <1>5, <1>6 DEF SumOn

\* Any two functions that satisfy the equation agree, on any sets.
LEMMA SumUnique ==
  ASSUME NEW S, IsFiniteSet(S), NEW U, IsFiniteSet(U), NEW f, NEW g, NEW h,
         SumOn(g, f, S), SumOn(h, f, U)
  PROVE  \A s \in SUBSET S : s \in SUBSET U => g[s] = h[s]
<1> DEFINE T == {n \in Nat : \A s \in SUBSET S : s \in SUBSET U /\ Cardinality(s) = n => g[s] = h[s]}
<1>0. /\ \A s \in SUBSET S : g[s] = SumStep(g, f, s)
      /\ \A s \in SUBSET U : h[s] = SumStep(h, f, s)
  BY DEF SumOn
<1>1. 0 \in T
  <2>1. \A s \in SUBSET S : Cardinality(s) = 0 => s = {}
    BY RestIsSmaller
  <2>2. {} \in SUBSET U /\ {} \in SUBSET S
    OBVIOUS
  <2>3. g[{}] = h[{}]
    BY <1>0, <2>2 DEF SumStep
  <2>. QED  BY <2>1, <2>3
<1>2. ASSUME NEW n \in Nat, n \in T
      PROVE  n + 1 \in T
  <2>1. ASSUME NEW s \in SUBSET S, s \in SUBSET U, Cardinality(s) = n + 1
        PROVE  g[s] = h[s]
    <3>1. s # {}
      BY <2>1, FS_EmptySet
    <3>2. /\ Rest(s) \in SUBSET S /\ Rest(s) \in SUBSET U /\ Cardinality(Rest(s)) = n
      <4>1. Rest(s) \in SUBSET S /\ Rest(s) \in SUBSET U
        BY <2>1 DEF Rest
      <4>2. Cardinality(Rest(s)) = (n + 1) - 1
        BY <2>1, <3>1, RestIsSmaller
      <4>. QED  BY <4>1, <4>2
    <3>3. g[Rest(s)] = h[Rest(s)]
      BY <1>2, <3>2
    <3>4. SumStep(g, f, s) = SumStep(h, f, s)
      BY <3>1, <3>3 DEF SumStep, Rest
    <3>. QED  BY <1>0, <2>1, <3>4
  <2>. QED  BY <2>1
<1>3. Nat \subseteq T
  <2> HIDE DEF T
  <2>. QED  BY <1>1, <1>2, Induction
<1>4. ASSUME NEW s \in SUBSET S, s \in SUBSET U
      PROVE  g[s] = h[s]
  <2>1. Cardinality(s) \in Nat
    BY FS_Subset, FS_CardinalityType
  <2>2. Cardinality(s) \in T
    BY <1>3, <2>1
  <2>. QED  BY <1>4, <2>2
<1>. QED  BY <1>4

\* The equation of the total: the empty set has none, and the element taken
\* first adds to the total of the others.
LEMMA TotalStep ==
  ASSUME NEW f, NEW S, IsFiniteSet(S)
  PROVE  Total(f, S) = IF S = {} THEN 0 ELSE f[CHOOSE x \in S : TRUE] + Total(f, Rest(S))
<1> DEFINE g == CHOOSE g : SumOn(g, f, S)
<1>1. SumOn(g, f, S)
  BY SumExists
<1>2. Total(f, S) = g[S]
  BY TotalIsChosen
<1>3. g[S] = SumStep(g, f, S)
  BY <1>1 DEF SumOn
<1>4. ASSUME S # {}
      PROVE  g[Rest(S)] = Total(f, Rest(S))
  <2> DEFINE h == CHOOSE h : SumOn(h, f, Rest(S))
  <2>1. IsFiniteSet(Rest(S)) /\ Rest(S) \in SUBSET S
    BY <1>4, RestIsSmaller
  <2>2. SumOn(h, f, Rest(S))
    BY <2>1, SumExists
  <2>3. Total(f, Rest(S)) = h[Rest(S)]
    BY TotalIsChosen
  <2> HIDE DEF g, h
  <2>4. g[Rest(S)] = h[Rest(S)]
    BY <1>1, <2>1, <2>2, SumUnique
  <2>. QED  BY <2>3, <2>4
<1> HIDE DEF g
<1>. QED  BY <1>2, <1>3, <1>4 DEF SumStep, Rest

\* Whichever element is taken: the order of the fold does not matter.
LEMMA TotalRemove ==
  ASSUME NEW S, IsFiniteSet(S), NEW f \in [S -> Nat]
  PROVE  \A s \in SUBSET S :
           /\ Total(f, s) \in Nat
           /\ \A x \in s : Total(f, s) = f[x] + Total(f, s \ {x})
<1> DEFINE P(s) == /\ Total(f, s) \in Nat
                   /\ \A x \in s : Total(f, s) = f[x] + Total(f, s \ {x})
           T == {n \in Nat : \A s \in SUBSET S : Cardinality(s) <= n => P(s)}
<1>0. \A s \in SUBSET S : IsFiniteSet(s) /\ Cardinality(s) \in Nat
  BY FS_Subset, FS_CardinalityType
<1>1. 0 \in T
  <2>1. \A s \in SUBSET S : Cardinality(s) <= 0 => s = {}
    BY RestIsSmaller
  <2>2. Total(f, {}) = 0
    BY TotalStep, FS_EmptySet
  <2>3. P({})
    BY <2>2
  <2> HIDE DEF P
  <2>. QED  BY <2>1, <2>3
<1>2. ASSUME NEW n \in Nat, n \in T
      PROVE  n + 1 \in T
  <2>1. ASSUME NEW s \in SUBSET S, Cardinality(s) = n + 1
        PROVE  P(s)
    <3> DEFINE c == CHOOSE x \in s : TRUE
    <3>1. s # {} /\ c \in s
      BY <2>1, FS_EmptySet
    <3>2. Total(f, s) = f[c] + Total(f, s \ {c})
      BY <1>0, <3>1, TotalStep DEF Rest
    <3> HIDE DEF c
    <3>3. ASSUME NEW x \in s
          PROVE  /\ s \ {x} \in SUBSET S /\ f[x] \in Nat
                 /\ Total(f, s \ {x}) \in Nat
                 /\ \A y \in s \ {x} : Total(f, s \ {x}) = f[y] + Total(f, (s \ {x}) \ {y})
      <4>1. s \ {x} \in SUBSET S /\ Cardinality(s \ {x}) = n
        BY <1>0, <2>1, <3>3, FS_RemoveElement
      <4>. QED  BY <1>2, <4>1
    <3>4. Total(f, s) \in Nat
      BY <3>1, <3>2, <3>3
    <3>5. ASSUME NEW x \in s, x # c
          PROVE  Total(f, s) = f[x] + Total(f, s \ {x})
      <4> DEFINE both == (s \ {c}) \ {x}
      <4>1. (s \ {x}) \ {c} = both
        OBVIOUS
      <4>2. Total(f, s \ {c}) = f[x] + Total(f, both)
        BY <3>1, <3>3, <3>5
      <4>3. Total(f, s \ {x}) = f[c] + Total(f, both)
        BY <3>1, <3>3, <3>5, <4>1
      <4>4. Total(f, both) \in Nat
        <5>1. both \in SUBSET S /\ Cardinality(both) <= n
          <6>1. Cardinality(s \ {c}) = n /\ IsFiniteSet(s \ {c})
            BY <1>0, <2>1, <3>1, FS_RemoveElement
          <6>2. Cardinality(both) = n - 1
            BY <3>5, <6>1, FS_RemoveElement
          <6>. QED  BY <6>2
        <5>. QED  BY <1>2, <5>1
      <4>. QED  BY <3>1, <3>2, <3>3, <4>2, <4>3, <4>4
    <3>. QED  BY <3>1, <3>2, <3>4, <3>5
  <2>2. ASSUME NEW s \in SUBSET S, Cardinality(s) <= n + 1
        PROVE  P(s)
    <3>1. Cardinality(s) <= n \/ Cardinality(s) = n + 1
      BY <1>0, <2>2
    <3>. QED  BY <1>2, <2>1, <3>1
  <2> HIDE DEF P
  <2>. QED  BY <2>2
<1>3. Nat \subseteq T
  <2> HIDE DEF T
  <2>. QED  BY <1>1, <1>2, Induction
<1>4. ASSUME NEW s \in SUBSET S
      PROVE  P(s)
  <2>1. Cardinality(s) \in T
    BY <1>0, <1>3
  <2>. QED  BY <2>1
<1>. QED  BY <1>4

\* A family of subsets that has the empty set, and a set whenever it has that
\* set without one of its elements, has every subset.
LEMMA SubsetInduction ==
  ASSUME NEW S, IsFiniteSet(S), NEW F, {} \in F,
         \A s \in SUBSET S : \A x \in s : s \ {x} \in F => s \in F
  PROVE  SUBSET S \subseteq F
<1> DEFINE T == {n \in Nat : \A s \in SUBSET S : Cardinality(s) = n => s \in F}
<1>0. \A s \in SUBSET S : IsFiniteSet(s) /\ Cardinality(s) \in Nat
  BY FS_Subset, FS_CardinalityType
<1>1. 0 \in T
  <2>1. \A s \in SUBSET S : Cardinality(s) = 0 => s = {}
    BY RestIsSmaller
  <2>. QED  BY <2>1
<1>2. ASSUME NEW n \in Nat, n \in T
      PROVE  n + 1 \in T
  <2>1. ASSUME NEW s \in SUBSET S, Cardinality(s) = n + 1
        PROVE  s \in F
    <3>1. s # {}
      <4>1. Cardinality(s) # 0
        BY <2>1
      <4>. QED  BY <4>1, FS_EmptySet
    <3>2. PICK x \in s : TRUE
      BY <3>1
    <3>3. Cardinality(s \ {x}) = (n + 1) - 1
      BY <1>0, <2>1, FS_RemoveElement
    <3>4. s \ {x} \in F
      BY <1>2, <3>3
    <3>. QED  BY <3>4
  <2>. QED  BY <2>1
<1>3. Nat \subseteq T
  <2> HIDE DEF T
  <2>. QED  BY <1>1, <1>2, Induction
<1>. QED  BY <1>0, <1>3

\* Nothing adds up to nothing.
LEMMA TotalEmpty == \A f : Total(f, {}) = 0
BY TotalStep, FS_EmptySet

\* The total of a set depends on the function only there.
LEMMA TotalAgree ==
  ASSUME NEW S, IsFiniteSet(S), NEW f \in [S -> Nat], NEW g \in [S -> Nat],
         NEW s \in SUBSET S, \A x \in s : f[x] = g[x]
  PROVE  Total(f, s) = Total(g, s)
<1> DEFINE F == {t \in SUBSET S : (\A x \in t : f[x] = g[x]) => Total(f, t) = Total(g, t)}
<1>1. {} \in F
  BY TotalEmpty
<1>2. ASSUME NEW t \in SUBSET S, NEW x \in t, t \ {x} \in F
      PROVE  t \in F
  <2>1. Total(f, t) = f[x] + Total(f, t \ {x}) /\ Total(g, t) = g[x] + Total(g, t \ {x})
    BY TotalRemove
  <2>. QED  BY <1>2, <2>1
<1>3. SUBSET S \subseteq F
  <2> HIDE DEF F
  <2>. QED  BY <1>1, <1>2, SubsetInduction
<1>. QED  BY <1>3

\* Totals of sets without a common element add up.
LEMMA TotalUnion ==
  ASSUME NEW S, IsFiniteSet(S), NEW f \in [S -> Nat],
         NEW a \in SUBSET S, NEW b \in SUBSET S, a \cap b = {}
  PROVE  Total(f, a \cup b) = Total(f, a) + Total(f, b)
<1> DEFINE F == {t \in SUBSET S : a \cap t = {} => Total(f, a \cup t) = Total(f, a) + Total(f, t)}
<1>0. \A t \in SUBSET S : Total(f, t) \in Nat
  BY TotalRemove
<1>1. {} \in F
  <2>1. a \cup {} = a
    OBVIOUS
  <2>. QED  BY <1>0, <2>1, TotalEmpty
<1>2. ASSUME NEW t \in SUBSET S, NEW x \in t, t \ {x} \in F
      PROVE  t \in F
  <2> SUFFICES ASSUME a \cap t = {}
               PROVE  Total(f, a \cup t) = Total(f, a) + Total(f, t)
    OBVIOUS
  <2>1. (a \cup t) \ {x} = a \cup (t \ {x})
    OBVIOUS
  <2>2. Total(f, t) = f[x] + Total(f, t \ {x})
    BY TotalRemove
  <2>3. Total(f, a \cup t) = f[x] + Total(f, a \cup (t \ {x}))
    <3>1. a \cup t \in SUBSET S /\ x \in a \cup t
      OBVIOUS
    <3>. QED  BY <2>1, <3>1, TotalRemove
  <2>4. Total(f, a \cup (t \ {x})) = Total(f, a) + Total(f, t \ {x})
    BY <1>2
  <2>5. f[x] \in Nat /\ Total(f, a) \in Nat /\ Total(f, t \ {x}) \in Nat
    BY <1>0
  <2>. QED  BY <2>2, <2>3, <2>4, <2>5
<1>3. SUBSET S \subseteq F
  <2> HIDE DEF F
  <2>. QED  BY <1>1, <1>2, SubsetInduction
<1>. QED  BY <1>3

\* A set has at least the total of its parts, and of its elements.
LEMMA TotalMonotone ==
  ASSUME NEW S, IsFiniteSet(S), NEW f \in [S -> Nat],
         NEW a \in SUBSET S, NEW b \in SUBSET S, a \subseteq b
  PROVE  /\ Total(f, a) <= Total(f, b)
         /\ \A x \in a : f[x] <= Total(f, b)
<1>0. \A t \in SUBSET S : Total(f, t) \in Nat
  BY TotalRemove
<1>1. Total(f, b) = Total(f, a) + Total(f, b \ a)
  <2>1. a \cup (b \ a) = b /\ a \cap (b \ a) = {} /\ b \ a \in SUBSET S
    OBVIOUS
  <2>2. Total(f, a \cup (b \ a)) = Total(f, a) + Total(f, b \ a)
    BY <2>1, TotalUnion
  <2>. QED  BY <2>1, <2>2
<1>2. Total(f, a) \in Nat /\ Total(f, b \ a) \in Nat
  BY <1>0
<1>3. ASSUME NEW x \in a
      PROVE  f[x] <= Total(f, b)
  <2>1. Total(f, b) = f[x] + Total(f, b \ {x})
    BY TotalRemove
  <2>2. f[x] \in Nat /\ Total(f, b \ {x}) \in Nat
    BY <1>0
  <2>. QED  BY <2>1, <2>2
<1>. QED  BY <1>1, <1>2, <1>3

\* An element that counts nothing adds nothing.
LEMMA TotalWithNothing ==
  ASSUME NEW S, IsFiniteSet(S), NEW f \in [S -> Nat], NEW s \in SUBSET S, NEW x \in S, f[x] = 0
  PROVE  Total(f, s \cup {x}) = Total(f, s)
<1>1. CASE x \in s
  <2>1. s \cup {x} = s
    BY <1>1
  <2>. QED  BY <2>1
<1>2. CASE x \notin s
  <2> DEFINE t == s \cup {x}
  <2>1. t \in SUBSET S /\ x \in t
    OBVIOUS
  <2>2. t \ {x} = s
    BY <1>2
  <2> HIDE DEF t
  <2>3. Total(f, t) = f[x] + Total(f, t \ {x})
    BY <2>1, TotalRemove
  <2>4. Total(f, t \ {x}) = Total(f, s) /\ Total(f, s) \in Nat
    BY <2>2, TotalRemove
  <2>5. Total(f, t) = Total(f, s)
    BY <2>3, <2>4
  <2>. QED  BY <2>5 DEF t
<1>. QED  BY <1>1, <1>2

\* Counting an element once more adds one to the sets that have it.
LEMMA TotalOneMore ==
  ASSUME NEW S, IsFiniteSet(S), NEW f \in [S -> Nat], NEW x \in S, NEW s \in SUBSET S
  PROVE  Total([f EXCEPT ![x] = @ + 1], s) = IF x \in s THEN Total(f, s) + 1 ELSE Total(f, s)
<1> DEFINE g == [f EXCEPT ![x] = @ + 1]
<1>1. /\ g \in [S -> Nat] /\ g[x] = f[x] + 1 /\ f[x] \in Nat
      /\ \A y \in S : y # x => g[y] = f[y]
  OBVIOUS
<1> HIDE DEF g
<1>2. Total(g, s \ {x}) = Total(f, s \ {x})
  BY <1>1, TotalAgree
<1>3. CASE x \in s
  <2>1. Total(g, s) = g[x] + Total(g, s \ {x}) /\ Total(f, s) = f[x] + Total(f, s \ {x})
    BY <1>1, <1>3, TotalRemove
  <2>2. Total(f, s \ {x}) \in Nat
    BY TotalRemove
  <2>3. Total(g, s) = Total(f, s) + 1
    BY <1>1, <1>2, <2>1, <2>2
  <2>. QED  BY <1>3, <2>3 DEF g
<1>4. CASE x \notin s
  <2>1. s \ {x} = s
    BY <1>4
  <2>2. Total(g, s) = Total(f, s)
    BY <1>2, <2>1
  <2>. QED  BY <1>4, <2>2 DEF g
<1>. QED  BY <1>3, <1>4

-----------------------------------------------------------------------------
(* Zones that are apart *)

\* A zone is around some leaves.
Zone == {z \in [min : Addr, max : Addr, leaf_count : Nat \ {0}] : z.min <= z.max}

\* More than the padding between them.
Apart(y, z) == y.max + Padding < z.min \/ z.max + Padding < y.min

\* No two zones are near.
ZonesApart(zs) == \A i, j \in DOMAIN zs : i # j => Apart(zs[i], zs[j])

\* Two zones are in conflict when they are not apart: half of the padding on
\* each side is all of it, and what saturates at the ends of the address
\* space changes nothing.
LEMMA HalvesMeet ==
  ASSUME NEW y \in Zone, NEW z \in Zone
  PROVE  RangeDisjoint(HalfPaddedAddrRange(y), HalfPaddedAddrRange(z)) <=> Apart(y, z)
<1> DEFINE half == Padding \div 2
<1>1. half \in Nat /\ half + half = Padding /\ AddrMax \in Nat
  BY ZonesAssumption
<1>2. /\ y.min \in Nat /\ y.max \in Nat /\ z.min \in Nat /\ z.max \in Nat
      /\ y.min <= y.max /\ z.min <= z.max /\ y.max <= AddrMax /\ z.max <= AddrMax
  BY ZonesAssumption DEF Zone, Addr
<1> HIDE DEF half
<1>3. \A v, w \in Nat : v <= AddrMax /\ w <= AddrMax =>
        (Smaller(AddrMax, v + half) < Larger(0, w - half) <=> v + Padding < w)
  BY <1>1 DEF Smaller, Larger
<1>4. RangeDisjoint(HalfPaddedAddrRange(y), HalfPaddedAddrRange(z))
        <=> \/ Smaller(AddrMax, y.max + half) < Larger(0, z.min - half)
            \/ Larger(0, y.min - half) > Smaller(AddrMax, z.max + half)
  BY DEF RangeDisjoint, HalfPaddedAddrRange, Padded, half
<1>5. \A v, w \in Nat : v <= AddrMax /\ w <= AddrMax =>
        (Larger(0, w - half) > Smaller(AddrMax, v + half) <=> v + Padding < w)
  BY <1>1 DEF Smaller, Larger
<1>6. y.min <= AddrMax /\ z.min <= AddrMax
  BY <1>1, <1>2
<1>. QED  BY <1>2, <1>3, <1>4, <1>5, <1>6 DEF Apart

\* A zone is near a leaf when the two are not apart.
LEMMA PaddingMeets ==
  ASSUME NEW z \in Zone, NEW r \in Ranges
  PROVE  RangeDisjoint(PaddedAddrRange(z), r) <=> Apart(z, r)
<1>1. /\ z.min \in Nat /\ z.max \in Nat /\ r.min \in Nat /\ r.max \in Nat
      /\ z.min <= z.max /\ r.min <= r.max /\ z.max <= AddrMax /\ r.max <= AddrMax
      /\ AddrMax \in Nat /\ Padding \in Nat
  BY ZonesAssumption DEF Zone, Addr, Ranges
<1>2. RangeDisjoint(PaddedAddrRange(z), r)
        <=> \/ Smaller(AddrMax, z.max + Padding) < r.min
            \/ Larger(0, z.min - Padding) > r.max
  BY DEF RangeDisjoint, PaddedAddrRange, Padded
<1>3. Smaller(AddrMax, z.max + Padding) < r.min <=> z.max + Padding < r.min
  BY <1>1 DEF Smaller
<1>4. Larger(0, z.min - Padding) > r.max <=> r.max + Padding < z.min
  BY <1>1 DEF Larger
<1>. QED  BY <1>2, <1>3, <1>4 DEF Apart

\* Without a conflict the zones are apart.
LEMMA NoConflictIsApart ==
  ASSUME NEW zs \in Seq(Zone)
  PROVE  HasConflict(zs) <=> ~ ZonesApart(zs)
<1>1. DOMAIN zs \subseteq Nat /\ \A i \in DOMAIN zs : zs[i] \in Zone
  OBVIOUS
<1>2. \A i, j \in DOMAIN zs : Conflict(zs, i, j) <=> i < j /\ ~ Apart(zs[i], zs[j])
  BY <1>1, HalvesMeet DEF Conflict
<1>3. \A i, j \in DOMAIN zs : Apart(zs[i], zs[j]) <=> Apart(zs[j], zs[i])
  BY DEF Apart
<1>. QED  BY <1>1, <1>2, <1>3 DEF HasConflict, ZonesApart

\* A zone that takes in a range and some leaves is a zone that contains both.
LEMMA ExtendedIsAZone ==
  ASSUME NEW z \in Zone, NEW r, r.min \in Addr, r.max \in Addr, NEW count \in Nat
  PROVE  LET y == ExtendsToContain(z, r, count)
         IN  /\ y \in Zone /\ y.leaf_count = z.leaf_count + count
             /\ y.min = Smaller(z.min, r.min) /\ y.max = Larger(z.max, r.max)
<1> DEFINE lo == Smaller(z.min, r.min)
           hi == Larger(z.max, r.max)
           sum == z.leaf_count + count
<1>1. z.min \in Addr /\ z.max \in Addr /\ z.min <= z.max /\ z.leaf_count \in Nat \ {0}
  BY DEF Zone
<1>2. \A a \in Addr : a \in Nat
  BY ZonesAssumption DEF Addr
<1>3. lo \in Addr /\ hi \in Addr /\ lo <= hi
  BY <1>1, <1>2 DEF Smaller, Larger
<1>4. sum \in Nat \ {0}
  BY <1>1
<1> HIDE DEF lo, hi, sum
<1>5. ExtendsToContain(z, r, count) = [min |-> lo, max |-> hi, leaf_count |-> sum]
  BY DEF ExtendsToContain, lo, hi, sum
<1>6. [min |-> lo, max |-> hi, leaf_count |-> sum] \in Zone
  BY <1>3, <1>4 DEF Zone
<1>. QED  BY <1>5, <1>6 DEF lo, hi, sum

\* A function over 1..n is a sequence of length n.
LEMMA IsSequence ==
  ASSUME NEW S, NEW n \in Nat, NEW s \in [1..n -> S]
  PROVE  s \in Seq(S) /\ Len(s) = n
OBVIOUS

\* The pair that is merged is a pair of zones in conflict.
LEMMA FirstConflictIsOne ==
  ASSUME NEW zs \in Seq(Zone), HasConflict(zs)
  PROVE  /\ FirstConflict(zs)[1] \in 1..(Len(zs) - 1) /\ FirstConflict(zs)[2] \in 1..Len(zs)
         /\ FirstConflict(zs)[1] < FirstConflict(zs)[2]
<1> DEFINE I == {k \in DOMAIN zs : \E j \in DOMAIN zs : Conflict(zs, k, j)}
           i == Min(I)
           J == {k \in DOMAIN zs : Conflict(zs, i, k)}
           j == Min(J)
<1>1. DOMAIN zs = 1..Len(zs) /\ Len(zs) \in Nat
  OBVIOUS
<1>2. i \in I
  <2>1. I # {} /\ I \subseteq Nat
    BY <1>1 DEF HasConflict
  <2>. QED  BY <2>1, MinIs
<1>3. j \in J
  <2> HIDE DEF i
  <2>1. J # {} /\ J \subseteq Nat
    BY <1>1, <1>2
  <2>. QED  BY <2>1, MinIs
<1>4. FirstConflict(zs) = <<i, j>>
  BY DEF FirstConflict
<1>5. i \in DOMAIN zs /\ j \in DOMAIN zs /\ i < j
  BY <1>2, <1>3 DEF Conflict
<1> HIDE DEF i, j
<1>. QED  BY <1>1, <1>4, <1>5

\* A merge keeps every other zone: the last one takes the place of the zone
\* that was absorbed.
LEMMA MergeFirstIs ==
  ASSUME NEW zs \in Seq(Zone), HasConflict(zs)
  PROVE  LET i == FirstConflict(zs)[1]
             j == FirstConflict(zs)[2]
             n == Len(zs)
         IN  /\ MergeFirst(zs) \in Seq(Zone)
             /\ Len(MergeFirst(zs)) = n - 1
             /\ MergeFirst(zs)[i] = ExtendsToContain(zs[i], BBox(zs[j]), zs[j].leaf_count)
             /\ \A k \in 1..(n - 1) :
                  k # i => MergeFirst(zs)[k] = IF k = j THEN zs[n] ELSE zs[k]
<1> DEFINE i == FirstConflict(zs)[1]
           j == FirstConflict(zs)[2]
           n == Len(zs)
           z == ExtendsToContain(zs[i], BBox(zs[j]), zs[j].leaf_count)
           all == [k \in DOMAIN zs |-> IF k = j THEN zs[n] ELSE zs[k]]
           kept == SwapRemove(zs, j)
<1>1. i \in 1..(n - 1) /\ j \in 1..n /\ i < j /\ n \in Nat /\ DOMAIN zs = 1..n
  BY FirstConflictIsOne
<1>2. MergeFirst(zs) = [kept EXCEPT ![i] = ExtendsToContain(@, BBox(zs[j]), zs[j].leaf_count)]
  BY DEF MergeFirst
<1> HIDE DEF i, j
<1>3. all \in Seq(Zone) /\ Len(all) = n
  <2>1. \A k \in 1..n : zs[k] \in Zone
    OBVIOUS
  <2>2. all \in [1..n -> Zone]
    BY <1>1, <2>1
  <2>. QED  BY <1>1, <2>2
<1>4. kept = SubSeq(all, 1, n - 1)
  BY <1>3 DEF SwapRemove, Front, Last
<1>5. kept \in Seq(Zone) /\ Len(kept) = n - 1
      /\ \A k \in 1..(n - 1) : kept[k] = IF k = j THEN zs[n] ELSE zs[k]
  <2> HIDE DEF kept
  <2>1. \A k \in 1..(n - 1) : all[k] = IF k = j THEN zs[n] ELSE zs[k]
    BY <1>1
  <2>2. all \in [1..n -> Zone]
    BY <1>3
  <2> HIDE DEF all
  <2>3. kept = [k \in 1..(n - 1) |-> all[k]]
    BY <1>1, <1>3, <1>4
  <2>4. kept \in [1..(n - 1) -> Zone] /\ n - 1 \in Nat
    BY <1>1, <2>2, <2>3
  <2>. QED  BY <2>1, <2>3, <2>4
<1>6. kept[i] = zs[i]
  BY <1>1, <1>5
<1>7. z \in Zone
  <2>1. zs[i] \in Zone /\ zs[j] \in Zone
    BY <1>1
  <2>2. /\ BBox(zs[j]).min \in Addr /\ BBox(zs[j]).max \in Addr
        /\ zs[j].leaf_count \in Nat
    BY <2>1 DEF BBox, Zone
  <2>. QED  BY <2>1, <2>2, ExtendedIsAZone
<1> HIDE DEF kept, z
<1>8. MergeFirst(zs) = [kept EXCEPT ![i] = z]
  BY <1>1, <1>2, <1>5, <1>6 DEF z
<1>9. kept \in [1..(n - 1) -> Zone] /\ DOMAIN kept = 1..(n - 1)
  BY <1>1, <1>5
<1>10. /\ MergeFirst(zs) \in [1..(n - 1) -> Zone] /\ MergeFirst(zs)[i] = z
       /\ \A k \in 1..(n - 1) : k # i => MergeFirst(zs)[k] = kept[k]
  BY <1>1, <1>7, <1>8, <1>9
<1>11. MergeFirst(zs) \in Seq(Zone) /\ Len(MergeFirst(zs)) = n - 1
  <2>1. n - 1 \in Nat
    BY <1>1
  <2>. QED  BY <1>10, <2>1, IsSequence
<1>. QED  BY <1>5, <1>10, <1>11 DEF i, j, z

-----------------------------------------------------------------------------
(* The merge loop *)

\* One round of the loop.
Merged(zs) == IF HasConflict(zs) THEN MergeFirst(zs) ELSE zs

\* after is the list of zones after each of the first n rounds.
Rounds(after, zs, n) ==
  after = [k \in 0..n |-> IF k = 0 THEN zs ELSE Merged(after[k - 1])]

\* MergeConflicts takes the last of as many rounds as there are zones.
LEMMA MergeConflictsIs ==
  ASSUME NEW zs
  PROVE  MergeConflicts(zs) = (CHOOSE after : Rounds(after, zs, Len(zs)))[Len(zs)]
BY DEF MergeConflicts, Rounds, Merged

\* The rounds are defined, however many there are.
LEMMA RoundsExist ==
  ASSUME NEW zs, NEW n \in Nat
  PROVE  \E after : Rounds(after, zs, n)
<1> DEFINE T == {m \in Nat : \E after : Rounds(after, zs, m)}
<1>1. 0 \in T
  <2> DEFINE g == [k \in 0..0 |-> zs]
  <2>1. Rounds(g, zs, 0)
    BY DEF Rounds
  <2>. QED  BY <2>1
<1>2. ASSUME NEW m \in Nat, m \in T
      PROVE  m + 1 \in T
  <2>1. PICK g : Rounds(g, zs, m)
    BY <1>2
  <2> DEFINE h == [k \in 0..(m + 1) |-> IF k = 0 THEN zs ELSE Merged(g[k - 1])]
  <2>2. ASSUME NEW k \in 0..m
        PROVE  h[k] = g[k]
    <3>1. g[k] = IF k = 0 THEN zs ELSE Merged(g[k - 1])
      BY <2>1 DEF Rounds
    <3>. QED  BY <3>1
  <2>3. ASSUME NEW k \in 0..(m + 1), k # 0
        PROVE  h[k - 1] = g[k - 1]
    <3>1. k - 1 \in 0..m
      BY <2>3
    <3> HIDE DEF h
    <3>. QED  BY <2>2, <3>1
  <2>4. h = [k \in 0..(m + 1) |-> IF k = 0 THEN zs ELSE Merged(h[k - 1])]
    BY <2>3
  <2> HIDE DEF h
  <2>5. Rounds(h, zs, m + 1)
    BY <2>4 DEF Rounds
  <2>. QED  BY <2>5
<1>3. Nat \subseteq T
  <2> HIDE DEF T
  <2>. QED  BY <1>1, <1>2, Induction
<1>. QED  BY <1>3

\* A set of lists of zones that every merge stays in has the merged list; and
\* the loop ends without a conflict, since each round that finds one removes
\* a zone.
LEMMA MergeEnds ==
  ASSUME NEW Q, Q \subseteq Seq(Zone), NEW zs \in Q,
         \A s \in Q : HasConflict(s) => MergeFirst(s) \in Q
  PROVE  MergeConflicts(zs) \in Q /\ ~ HasConflict(MergeConflicts(zs))
<1> DEFINE n == Len(zs)
           after == CHOOSE after : Rounds(after, zs, n)
           T == {k \in Nat : k <= n => /\ after[k] \in Q
                                       /\ ~ HasConflict(after[k]) \/ Len(after[k]) = n - k}
<1>1. n \in Nat
  OBVIOUS
<1>2. Rounds(after, zs, n)
  BY <1>1, RoundsExist
<1>3. MergeConflicts(zs) = after[n]
  BY MergeConflictsIs
<1> HIDE DEF after
<1>4. 0 \in T
  <2>1. after[0] = zs
    BY <1>1, <1>2 DEF Rounds
  <2>. QED  BY <1>1, <2>1
<1>5. ASSUME NEW k \in Nat, k \in T
      PROVE  k + 1 \in T
  <2> SUFFICES ASSUME k + 1 <= n
               PROVE  /\ after[k + 1] \in Q
                      /\ ~ HasConflict(after[k + 1]) \/ Len(after[k + 1]) = n - (k + 1)
    OBVIOUS
  <2>1. /\ after[k] \in Q
        /\ ~ HasConflict(after[k]) \/ Len(after[k]) = n - k
    BY <1>1, <1>5
  <2>2. after[k + 1] = Merged(after[k])
    <3>1. k + 1 \in 0..n /\ k + 1 # 0 /\ (k + 1) - 1 = k
      BY <1>1
    <3>. QED  BY <1>2, <3>1 DEF Rounds
  <2>3. CASE HasConflict(after[k])
    <3>1. after[k + 1] = MergeFirst(after[k])
      BY <2>2, <2>3 DEF Merged
    <3>2. Len(MergeFirst(after[k])) = Len(after[k]) - 1
      BY <2>1, <2>3, MergeFirstIs
    <3>3. Len(after[k + 1]) = n - (k + 1)
      BY <1>1, <2>1, <2>3, <3>1, <3>2
    <3>. QED  BY <2>1, <2>3, <3>1, <3>3
  <2>4. CASE ~ HasConflict(after[k])
    BY <2>1, <2>2, <2>4 DEF Merged
  <2>. QED  BY <2>3, <2>4
<1>6. n \in T
  <2> HIDE DEF T, n
  <2>. QED  BY <1>1, <1>4, <1>5, Induction
<1>7. after[n] \in Q /\ (~ HasConflict(after[n]) \/ Len(after[n]) = 0)
  BY <1>1, <1>6
<1>8. ~ HasConflict(after[n])
  <2>1. SUFFICES ASSUME Len(after[n]) = 0
                 PROVE  DOMAIN after[n] = {}
    BY <1>7 DEF HasConflict
  <2>2. after[n] \in Seq(Zone)
    BY <1>7
  <2> HIDE DEF n
  <2>. QED  BY <2>1, <2>2
<1>. QED  BY <1>3, <1>7, <1>8

-----------------------------------------------------------------------------
(* Leaves assigned to zones *)

\* The ranges of the leaves that were inserted.
SeenIn(f) == {r \in Ranges : f[r] > 0}

\* The leaves that own assigns to zone i.
HeldBy(own, f, i) == {r \in SeenIn(f) : own[r] = i}

\* own assigns every leaf to a zone around it, that counts those leaves.
Assigned(own, zs, f) ==
  /\ own \in [SeenIn(f) -> DOMAIN zs]
  /\ \A r \in SeenIn(f) : zs[own[r]].min <= r.min /\ r.max <= zs[own[r]].max
  /\ \A i \in DOMAIN zs : zs[i].leaf_count = Total(f, HeldBy(own, f, i))

\* Every leaf can be assigned to a zone.
Assigns(zs, f) == \E own : Assigned(own, zs, f)

\* There are finitely many ranges, so their leaves can be summed.
LEMMA RangesAreFinite == IsFiniteSet(Ranges)
<1> DEFINE g == [r \in Ranges |-> <<r.min, r.max>>]
<1>1. IsFiniteSet(Addr \X Addr)
  <2>1. IsFiniteSet(Addr)
    BY ZonesAssumption, FS_Interval DEF Addr
  <2>. QED  BY <2>1, FS_Product
<1>2. g \in Injection(Ranges, Addr \X Addr)
  <2>1. \A r \in Ranges : r = [min |-> r.min, max |-> r.max] /\ r.min \in Addr /\ r.max \in Addr
    BY DEF Ranges
  <2>2. g \in [Ranges -> Addr \X Addr]
    BY <2>1
  <2>3. ASSUME NEW r \in Ranges, NEW s \in Ranges, g[r] = g[s]
        PROVE  r = s
    <3>1. r.min = s.min /\ r.max = s.max
      BY <2>3
    <3>. QED  BY <2>1, <3>1
  <2> HIDE DEF g
  <2>. QED  BY <2>2, <2>3 DEF Injection, IsInjective
<1> HIDE DEF g
<1>. QED  BY <1>1, <1>2, FS_Injection

\* What is inside one of two intervals is inside the interval around both.
LEMMA HullHolds ==
  ASSUME NEW a \in Nat, NEW b \in Nat, NEW c \in Nat, NEW d \in Nat, NEW lo \in Nat, NEW hi \in Nat,
         (a <= lo /\ hi <= b) \/ (c <= lo /\ hi <= d)
  PROVE  Smaller(a, c) <= lo /\ hi <= Larger(b, d)
<1>1. Smaller(a, c) \in Nat /\ Smaller(a, c) <= a /\ Smaller(a, c) <= c
  BY DEF Smaller
<1>2. Larger(b, d) \in Nat /\ b <= Larger(b, d) /\ d <= Larger(b, d)
  BY DEF Larger
<1>3. CASE a <= lo /\ hi <= b
  BY <1>1, <1>2, <1>3
<1>4. CASE c <= lo /\ hi <= d
  BY <1>1, <1>2, <1>4
<1>. QED  BY <1>3, <1>4

\* An interval that a range is inside keeps whatever is apart from it away
\* from the range.
LEMMA InsideKeepsAway ==
  ASSUME NEW a \in Nat, NEW b \in Nat, NEW c \in Nat, NEW d \in Nat, NEW lo \in Nat, NEW hi \in Nat,
         NEW pad \in Nat, a <= lo, hi <= b, b + pad < c \/ d + pad < a
  PROVE  hi + pad < c \/ d + pad < lo
<1>1. CASE b + pad < c
  BY <1>1
<1>2. CASE d + pad < a
  BY <1>2
<1>. QED  BY <1>1, <1>2

\* Every zone of a merge holds the leaves it held, or took them over: the
\* zone that absorbs another takes its leaves, and the leaves of the last
\* zone follow it to its new place.
LEMMA MergeKeepsLeaves ==
  ASSUME NEW zs \in Seq(Zone), HasConflict(zs), NEW f \in [Ranges -> Nat], Assigns(zs, f)
  PROVE  Assigns(MergeFirst(zs), f)
<1> DEFINE i == FirstConflict(zs)[1]
           j == FirstConflict(zs)[2]
           n == Len(zs)
           ys == MergeFirst(zs)
<1>1. i \in 1..(n - 1) /\ j \in 1..n /\ i < j /\ n \in Nat /\ DOMAIN zs = 1..n
  BY FirstConflictIsOne
<1>2. /\ DOMAIN ys = 1..(n - 1)
      /\ ys[i] = ExtendsToContain(zs[i], BBox(zs[j]), zs[j].leaf_count)
      /\ \A k \in 1..(n - 1) : k # i => ys[k] = IF k = j THEN zs[n] ELSE zs[k]
  <2>1. ys \in Seq(Zone) /\ Len(ys) = n - 1
    BY MergeFirstIs
  <2>2. DOMAIN ys = 1..(n - 1)
    BY <2>1
  <2>. QED  BY <2>2, MergeFirstIs
<1> HIDE DEF i, j, ys
<1>3. zs[i] \in Zone /\ zs[j] \in Zone
  BY <1>1
<1>4. /\ ys[i].leaf_count = zs[i].leaf_count + zs[j].leaf_count
      /\ ys[i].min = Smaller(zs[i].min, zs[j].min) /\ ys[i].max = Larger(zs[i].max, zs[j].max)
  BY <1>2 DEF ExtendsToContain, BBox
<1>5. PICK own : Assigned(own, zs, f)
  BY DEF Assigns
<1> DEFINE now == [r \in SeenIn(f) |-> IF own[r] = j THEN i ELSE IF own[r] = n THEN j ELSE own[r]]
<1>6. \A r \in SeenIn(f) :
        /\ own[r] \in 1..n /\ r.min \in Nat /\ r.max \in Nat
        /\ zs[own[r]].min <= r.min /\ r.max <= zs[own[r]].max
        /\ now[r] = IF own[r] = j THEN i ELSE IF own[r] = n THEN j ELSE own[r]
        /\ now[r] \in 1..(n - 1)
  <2>1. \A r \in SeenIn(f) : r.min \in Nat /\ r.max \in Nat
    BY ZonesAssumption DEF SeenIn, Ranges, Addr
  <2>2. \A r \in SeenIn(f) : /\ own[r] \in 1..n
                             /\ zs[own[r]].min <= r.min /\ r.max <= zs[own[r]].max
    BY <1>1, <1>5 DEF Assigned
  <2>3. \A r \in SeenIn(f) : now[r] \in 1..(n - 1)
    BY <1>1, <2>2
  <2>. QED  BY <2>1, <2>2, <2>3
<1>7. now \in [SeenIn(f) -> DOMAIN ys]
  <2>1. DOMAIN now = SeenIn(f)
    OBVIOUS
  <2>2. now = [r \in SeenIn(f) |-> now[r]]
    OBVIOUS
  <2> HIDE DEF now
  <2>. QED  BY <1>2, <1>6, <2>2
<1> HIDE DEF now
<1>8. ASSUME NEW r \in SeenIn(f)
      PROVE  ys[now[r]].min <= r.min /\ r.max <= ys[now[r]].max
  <2>1. CASE now[r] = i
    <3>1. own[r] = i \/ own[r] = j
      BY <1>1, <1>6, <2>1
    <3>2. /\ zs[i].min \in Nat /\ zs[j].min \in Nat /\ zs[i].max \in Nat /\ zs[j].max \in Nat
      BY <1>3, ZonesAssumption DEF Zone, Addr
    <3>3. /\ r.min \in Nat /\ r.max \in Nat
          /\ zs[own[r]].min <= r.min /\ r.max <= zs[own[r]].max
      BY <1>6
    <3>4. \/ zs[i].min <= r.min /\ r.max <= zs[i].max
          \/ zs[j].min <= r.min /\ r.max <= zs[j].max
      BY <3>1, <3>3, Zenon
    <3>5. /\ Smaller(zs[i].min, zs[j].min) <= r.min
          /\ r.max <= Larger(zs[i].max, zs[j].max)
      BY <3>2, <3>3, <3>4, HullHolds
    <3>. QED  BY <1>4, <2>1, <3>5, Zenon
  <2>2. CASE now[r] # i
    <3>1. ys[now[r]] = zs[own[r]]
      BY <1>1, <1>2, <1>6, <2>2
    <3>. QED  BY <1>6, <3>1
  <2>. QED  BY <2>1, <2>2
<1>9. \A k \in 1..n : HeldBy(own, f, k) \in SUBSET Ranges
  BY DEF HeldBy, SeenIn
<1>10. ASSUME NEW k \in DOMAIN ys
       PROVE  ys[k].leaf_count = Total(f, HeldBy(now, f, k))
  <2>1. k \in 1..(n - 1)
    BY <1>2
  <2>2. \A l \in 1..n : zs[l].leaf_count = Total(f, HeldBy(own, f, l))
    BY <1>1, <1>5 DEF Assigned
  <2>3. CASE k = i
    <3>1. HeldBy(now, f, i) = HeldBy(own, f, i) \cup HeldBy(own, f, j)
      BY <1>1, <1>6 DEF HeldBy
    <3>2. HeldBy(own, f, i) \cap HeldBy(own, f, j) = {}
      BY <1>1 DEF HeldBy
    <3>3. i \in 1..n
      BY <1>1
    <3>4. Total(f, HeldBy(now, f, i)) = Total(f, HeldBy(own, f, i)) + Total(f, HeldBy(own, f, j))
      BY <1>1, <1>9, <3>1, <3>2, <3>3, RangesAreFinite, TotalUnion
    <3>. QED  BY <1>1, <1>4, <2>2, <2>3, <3>3, <3>4
  <2>4. CASE k # i /\ k = j
    <3>1. HeldBy(now, f, j) = HeldBy(own, f, n)
      BY <1>1, <1>6, <2>1, <2>4 DEF HeldBy
    <3>2. n \in 1..n /\ ys[k] = zs[n]
      BY <1>1, <1>2, <2>1, <2>4
    <3>. QED  BY <2>2, <2>4, <3>1, <3>2
  <2>5. CASE k # i /\ k # j
    <3>1. HeldBy(now, f, k) = HeldBy(own, f, k)
      BY <1>1, <1>6, <2>1, <2>5 DEF HeldBy
    <3>2. k \in 1..n /\ ys[k] = zs[k]
      BY <1>1, <1>2, <2>1, <2>5
    <3>. QED  BY <2>2, <3>1, <3>2
  <2>. QED  BY <2>3, <2>4, <2>5
<1>11. Assigned(now, ys, f)
  BY <1>7, <1>8, <1>10 DEF Assigned
<1>. QED  BY <1>11 DEF Assigns, ys

-----------------------------------------------------------------------------
(* One more leaf *)

\* The zones ys are zs, with zone i extended to contain the leaf r.
Grown(ys, zs, i, r) == ys = [zs EXCEPT ![i] = ExtendsToContain(@, r, 1)]

\* A leaf added to a zone that is made to contain it is assigned to that zone.
LEMMA GrowKeepsLeaves ==
  ASSUME NEW zs \in Seq(Zone), NEW f \in [Ranges -> Nat], NEW own, Assigned(own, zs, f),
         NEW r \in Ranges, NEW i \in DOMAIN zs, r \in SeenIn(f) => own[r] = i,
         NEW ys, Grown(ys, zs, i, r)
  PROVE  LET g == [f EXCEPT ![r] = @ + 1]
         IN  ys \in Seq(Zone) /\ Len(ys) = Len(zs) /\ g \in [Ranges -> Nat] /\ Assigns(ys, g)
<1> DEFINE y == ExtendsToContain(zs[i], r, 1)
           g == [f EXCEPT ![r] = @ + 1]
           now == [s \in SeenIn(g) |-> IF s = r THEN i ELSE own[s]]
<1>1. /\ DOMAIN zs = 1..Len(zs) /\ Len(zs) \in Nat /\ zs \in [1..Len(zs) -> Zone]
      /\ zs[i] \in Zone
  OBVIOUS
<1>2. /\ y \in Zone /\ y.leaf_count = zs[i].leaf_count + 1
      /\ y.min = Smaller(zs[i].min, r.min) /\ y.max = Larger(zs[i].max, r.max)
  <2>1. r.min \in Addr /\ r.max \in Addr
    BY DEF Ranges
  <2>. QED  BY <1>1, <2>1, ExtendedIsAZone
<1>3. ys = [zs EXCEPT ![i] = y]
  BY <1>1 DEF Grown
<1> HIDE DEF y
<1>4. /\ ys \in [1..Len(zs) -> Zone] /\ ys[i] = y /\ DOMAIN ys = DOMAIN zs
      /\ \A k \in DOMAIN zs : k # i => ys[k] = zs[k]
  BY <1>1, <1>2, <1>3
<1>5. g \in [Ranges -> Nat] /\ g[r] = f[r] + 1 /\ f[r] \in Nat
      /\ \A s \in Ranges : s # r => g[s] = f[s]
  OBVIOUS
<1>6. \A a \in SUBSET Ranges : Total(g, a) = IF r \in a THEN Total(f, a) + 1 ELSE Total(f, a)
  BY RangesAreFinite, TotalOneMore
<1>7. \A s \in SeenIn(g) : now[s] = IF s = r THEN i ELSE own[s]
  OBVIOUS
<1>8. ys \in Seq(Zone) /\ Len(ys) = Len(zs)
  BY <1>1, <1>4, IsSequence
<1> HIDE DEF g
<1>9. SeenIn(g) = SeenIn(f) \cup {r} /\ r \in SeenIn(g)
  BY <1>5 DEF SeenIn
<1>10. /\ own \in [SeenIn(f) -> DOMAIN zs]
       /\ \A s \in SeenIn(f) : zs[own[s]].min <= s.min /\ s.max <= zs[own[s]].max
       /\ \A k \in DOMAIN zs : zs[k].leaf_count = Total(f, HeldBy(own, f, k))
  BY DEF Assigned
<1>11. now \in [SeenIn(g) -> DOMAIN ys]
  BY <1>4, <1>9, <1>10
<1> HIDE DEF now
<1>12. /\ zs[i].min \in Nat /\ zs[i].max \in Nat /\ r.min \in Nat /\ r.max \in Nat
  BY <1>1, ZonesAssumption DEF Zone, Ranges, Addr
<1>13. ASSUME NEW s \in SeenIn(g)
       PROVE  ys[now[s]].min <= s.min /\ s.max <= ys[now[s]].max
  <2>1. CASE s = r
    <3>1. now[s] = i /\ ys[i] = y
      BY <1>4, <1>7, <2>1
    <3>2. r.min <= r.min /\ r.max <= r.max
      BY <1>12
    <3>3. Smaller(zs[i].min, r.min) <= r.min /\ r.max <= Larger(zs[i].max, r.max)
      BY <1>12, <3>2, HullHolds
    <3>. QED  BY <1>2, <2>1, <3>1, <3>3, Zenon
  <2>2. CASE s # r
    <3>1. s \in SeenIn(f) /\ now[s] = own[s] /\ own[s] \in DOMAIN zs
      BY <1>7, <1>9, <1>10, <2>2
    <3>2. zs[own[s]].min <= s.min /\ s.max <= zs[own[s]].max
      BY <1>10, <3>1
    <3>3. s.min \in Nat /\ s.max \in Nat
      BY ZonesAssumption DEF SeenIn, Ranges, Addr
    <3>4. CASE own[s] = i
      <4>1. zs[i].min <= s.min /\ s.max <= zs[i].max
        BY <3>2, <3>4, Zenon
      <4>2. Smaller(zs[i].min, r.min) <= s.min /\ s.max <= Larger(zs[i].max, r.max)
        BY <1>12, <3>3, <4>1, HullHolds
      <4>3. ys[now[s]] = y
        BY <1>4, <3>1, <3>4
      <4>. QED  BY <1>2, <4>2, <4>3, Zenon
    <3>5. CASE own[s] # i
      BY <1>4, <3>1, <3>2, <3>5
    <3>. QED  BY <3>4, <3>5
  <2>. QED  BY <2>1, <2>2
<1>14. ASSUME NEW k \in DOMAIN ys
       PROVE  ys[k].leaf_count = Total(g, HeldBy(now, g, k))
  <2>1. HeldBy(own, f, k) \in SUBSET Ranges /\ HeldBy(now, g, k) \in SUBSET Ranges
    BY DEF HeldBy, SeenIn
  <2>2. zs[k].leaf_count = Total(f, HeldBy(own, f, k)) /\ k \in DOMAIN zs
    BY <1>4, <1>10
  <2>3. CASE k = i
    <3>1. HeldBy(now, g, i) = HeldBy(own, f, i) \cup {r}
      BY <1>7, <1>9 DEF HeldBy
    <3>2. Total(f, HeldBy(own, f, i) \cup {r}) = Total(f, HeldBy(own, f, i))
      <4>1. CASE r \in SeenIn(f)
        <5>1. HeldBy(own, f, i) \cup {r} = HeldBy(own, f, i)
          BY <4>1 DEF HeldBy
        <5>. QED  BY <5>1
      <4>2. CASE r \notin SeenIn(f)
        <5>1. f[r] = 0
          BY <1>5, <4>2 DEF SeenIn
        <5>. QED  BY <2>1, <2>3, <5>1, RangesAreFinite, TotalWithNothing
      <4>. QED  BY <4>1, <4>2
    <3>3. Total(g, HeldBy(now, g, i)) = Total(f, HeldBy(now, g, i)) + 1
      BY <1>6, <2>1, <2>3, <3>1
    <3>. QED  BY <1>2, <1>4, <2>2, <2>3, <3>1, <3>2, <3>3
  <2>4. CASE k # i
    <3>1. HeldBy(now, g, k) = HeldBy(own, f, k) /\ r \notin HeldBy(now, g, k)
      BY <1>7, <1>9, <2>4 DEF HeldBy
    <3>2. Total(g, HeldBy(now, g, k)) = Total(f, HeldBy(own, f, k))
      BY <1>6, <2>1, <3>1
    <3>. QED  BY <1>4, <2>2, <2>4, <3>2
  <2>. QED  BY <2>3, <2>4
<1>15. Assigned(now, ys, g)
  BY <1>11, <1>13, <1>14 DEF Assigned
<1>16. Assigns(ys, g)
  BY <1>15 DEF Assigns
<1>. QED  BY <1>5, <1>8, <1>16 DEF g

\* A leaf that no zone is near opens a zone of its own.
LEMMA AppendKeepsLeaves ==
  ASSUME NEW zs \in Seq(Zone), NEW f \in [Ranges -> Nat], NEW own, Assigned(own, zs, f),
         NEW r \in Ranges, r \notin SeenIn(f)
  PROVE  LET z  == [min |-> r.min, max |-> r.max, leaf_count |-> 1]
             ys == Append(zs, z)
             g  == [f EXCEPT ![r] = @ + 1]
         IN  z \in Zone /\ ys \in Seq(Zone) /\ g \in [Ranges -> Nat] /\ Assigns(ys, g)
<1> DEFINE z == [min |-> r.min, max |-> r.max, leaf_count |-> 1]
           ys == Append(zs, z)
           g == [f EXCEPT ![r] = @ + 1]
           n == Len(zs)
           now == [s \in SeenIn(g) |-> IF s = r THEN n + 1 ELSE own[s]]
<1>1. z \in Zone /\ z.min = r.min /\ z.max = r.max /\ z.leaf_count = 1
  BY DEF Zone, Ranges
<1> HIDE DEF z
<1>2. /\ DOMAIN zs = 1..n /\ n \in Nat /\ DOMAIN ys = 1..(n + 1)
      /\ ys \in Seq(Zone) /\ ys[n + 1] = z /\ \A k \in 1..n : ys[k] = zs[k]
  BY <1>1
<1>3. g \in [Ranges -> Nat] /\ f[r] \in Nat /\ g[r] = f[r] + 1
      /\ \A s \in Ranges : s # r => g[s] = f[s]
  OBVIOUS
<1>4. \A a \in SUBSET Ranges : Total(g, a) = IF r \in a THEN Total(f, a) + 1 ELSE Total(f, a)
  BY RangesAreFinite, TotalOneMore
<1>5. \A s \in SeenIn(g) : now[s] = IF s = r THEN n + 1 ELSE own[s]
  OBVIOUS
<1> HIDE DEF ys, g
<1>6. SeenIn(g) = SeenIn(f) \cup {r} /\ r \in SeenIn(g) /\ f[r] = 0
  BY <1>3 DEF SeenIn
<1>7. /\ own \in [SeenIn(f) -> DOMAIN zs]
      /\ \A s \in SeenIn(f) : zs[own[s]].min <= s.min /\ s.max <= zs[own[s]].max
      /\ \A k \in DOMAIN zs : zs[k].leaf_count = Total(f, HeldBy(own, f, k))
  BY DEF Assigned
<1>8. now \in [SeenIn(g) -> DOMAIN ys]
  BY <1>2, <1>6, <1>7
<1> HIDE DEF now, n
<1>9. ASSUME NEW s \in SeenIn(g)
      PROVE  ys[now[s]].min <= s.min /\ s.max <= ys[now[s]].max
  <2>1. s.min \in Nat /\ s.max \in Nat
    BY ZonesAssumption DEF SeenIn, Ranges, Addr
  <2>2. CASE s = r
    BY <1>1, <1>2, <1>5, <2>1, <2>2
  <2>3. CASE s # r
    <3>1. s \in SeenIn(f) /\ now[s] = own[s] /\ own[s] \in DOMAIN zs
      BY <1>5, <1>6, <1>7, <2>3
    <3>. QED  BY <1>2, <1>7, <3>1
  <2>. QED  BY <2>2, <2>3
<1>10. ASSUME NEW k \in DOMAIN ys
       PROVE  ys[k].leaf_count = Total(g, HeldBy(now, g, k))
  <2>1. HeldBy(now, g, k) \in SUBSET Ranges
    BY DEF HeldBy, SeenIn
  <2>2. CASE k = n + 1
    <3>1. HeldBy(now, g, k) = {r}
      <4>1. \A s \in SeenIn(f) : own[s] # n + 1
        BY <1>2, <1>7
      <4>. QED  BY <1>5, <1>6, <2>2, <4>1 DEF HeldBy
    <3>2. Total(f, {r}) = 0
      <4>1. Total(f, {} \cup {r}) = Total(f, {})
        BY <1>6, RangesAreFinite, TotalWithNothing
      <4>2. {} \cup {r} = {r}
        OBVIOUS
      <4>. QED  BY <4>1, <4>2, TotalEmpty
    <3>3. Total(g, {r}) = 1
      BY <1>4, <3>2
    <3>. QED  BY <1>1, <1>2, <2>2, <3>1, <3>3
  <2>3. CASE k # n + 1
    <3>1. k \in DOMAIN zs /\ k # n + 1
      BY <1>2, <2>3
    <3>2. HeldBy(now, g, k) = HeldBy(own, f, k) /\ r \notin HeldBy(now, g, k)
      BY <1>5, <1>6, <3>1 DEF HeldBy
    <3>. QED  BY <1>2, <1>4, <1>7, <2>1, <3>1, <3>2
  <2>. QED  BY <2>2, <2>3
<1>11. Assigned(now, ys, g)
  BY <1>8, <1>9, <1>10 DEF Assigned
<1>12. Assigns(ys, g)
  BY <1>11 DEF Assigns
<1>. QED  BY <1>1, <1>2, <1>3, <1>12 DEF ys, g, z

-----------------------------------------------------------------------------
(* The inductive invariant *)

\* Zones that are apart, and an assignment of every leaf to one of them.
Sound(zs, f) ==
  /\ zs \in Seq(Zone)
  /\ f \in [Ranges -> Nat]
  /\ Total(f, Ranges) <= MaxLeaves
  /\ ZonesApart(zs)
  /\ Assigns(zs, f)

\* The inductive invariant: the zones are apart and count their leaves.
ZInv == Sound(zones, inserted)

\* The zones near a leaf, by the distance alone.
LEMMA NearIs ==
  ASSUME zones \in Seq(Zone), NEW r \in Ranges
  PROVE  /\ Near(r) = {i \in DOMAIN zones : ~ Apart(zones[i], r)}
         /\ IsFiniteSet(Near(r)) /\ Near(r) \subseteq DOMAIN zones /\ Near(r) \subseteq Nat
         /\ DOMAIN zones = 1..Len(zones) /\ Len(zones) \in Nat
<1>1. DOMAIN zones = 1..Len(zones) /\ Len(zones) \in Nat
  OBVIOUS
<1>2. \A i \in DOMAIN zones : zones[i] \in Zone
  OBVIOUS
<1>3. Near(r) = {i \in DOMAIN zones : ~ Apart(zones[i], r)}
  BY <1>2, PaddingMeets DEF Near
<1>4. Near(r) \subseteq DOMAIN zones
  BY <1>3
<1>5. IsFiniteSet(DOMAIN zones)
  BY <1>1, FS_Interval
<1>6. IsFiniteSet(Near(r))
  BY <1>4, <1>5, FS_Subset
<1>7. Near(r) \subseteq Nat
  BY <1>1, <1>4
<1>. QED  BY <1>1, <1>3, <1>4, <1>6, <1>7

\* When zones are apart, a leaf inside one of them is near that one only.
LEMMA InsideIsApart ==
  ASSUME NEW zs \in Seq(Zone), ZonesApart(zs), NEW r \in Ranges, NEW i \in DOMAIN zs,
         zs[i].min <= r.min, r.max <= zs[i].max
  PROVE  /\ ~ Apart(zs[i], r) /\ ~ RangeDisjoint(BBox(zs[i]), r)
         /\ \A j \in DOMAIN zs : j # i => Apart(zs[j], r) /\ RangeDisjoint(BBox(zs[j]), r)
<1>1. \A j \in DOMAIN zs : zs[j].min \in Nat /\ zs[j].max \in Nat /\ zs[j].min <= zs[j].max
  <2>1. \A j \in DOMAIN zs : zs[j] \in Zone
    OBVIOUS
  <2>2. \A z \in Zone : z.min \in Nat /\ z.max \in Nat /\ z.min <= z.max
    BY ZonesAssumption DEF Zone, Addr
  <2>. QED  BY <2>1, <2>2
<1>2. r.min \in Nat /\ r.max \in Nat /\ r.min <= r.max /\ Padding \in Nat
  BY ZonesAssumption DEF Ranges, Addr
<1>3. ~ Apart(zs[i], r) /\ ~ RangeDisjoint(BBox(zs[i]), r)
  BY <1>1, <1>2 DEF Apart, RangeDisjoint, BBox
<1>4. ASSUME NEW j \in DOMAIN zs, j # i
      PROVE  Apart(zs[j], r) /\ RangeDisjoint(BBox(zs[j]), r)
  <2>1. Apart(zs[i], zs[j])
    BY <1>4 DEF ZonesApart
  <2>2. zs[j].min \in Nat /\ zs[j].max \in Nat /\ zs[i].min \in Nat /\ zs[i].max \in Nat
    BY <1>1
  <2> DEFINE c == zs[j].min
             d == zs[j].max
             lo == r.min
             hi == r.max
  <2>3. hi + Padding < c \/ d + Padding < lo
    <3> DEFINE a == zs[i].min
               b == zs[i].max
    <3>1. b + Padding < c \/ d + Padding < a
      BY <2>1 DEF Apart
    <3>2. /\ a \in Nat /\ b \in Nat /\ c \in Nat /\ d \in Nat /\ lo \in Nat /\ hi \in Nat
          /\ Padding \in Nat /\ a <= lo /\ hi <= b
      BY <1>2, <2>2
    <3> HIDE DEF a, b, c, d, lo, hi
    <3>. QED  BY <3>1, <3>2, InsideKeepsAway
  <2>4. c \in Nat /\ d \in Nat /\ lo \in Nat /\ hi \in Nat
    BY <1>2, <2>2
  <2>5. d < lo \/ c > hi
    <3> HIDE DEF c, d, lo, hi
    <3>1. Padding \in Nat
      BY <1>2
    <3>2. \A x, y \in Nat : x + Padding < y => x < y /\ y > x
      BY <3>1
    <3>. QED  BY <2>3, <2>4, <3>2
  <2>6. Apart(zs[j], r)
    BY <2>3 DEF Apart
  <2>7. RangeDisjoint(BBox(zs[j]), r)
    BY <2>5 DEF RangeDisjoint, BBox
  <2>. QED  BY <2>6, <2>7
<1>. QED  BY <1>3, <1>4

\* The first zone that a leaf touches is the one it is assigned to.
LEMMA FindsItsZone ==
  ASSUME zones \in Seq(Zone), ZonesApart(zones), NEW own, Assigned(own, zones, inserted),
         NEW r \in SeenIn(inserted)
  PROVE  FindZone(r) = own[r]
<1>1. own[r] \in DOMAIN zones /\ zones[own[r]].min <= r.min /\ r.max <= zones[own[r]].max
  BY DEF Assigned
<1>2. r \in Ranges
  BY DEF SeenIn
<1> DEFINE touched == {i \in DOMAIN zones : ~ RangeDisjoint(BBox(zones[i]), r)}
<1>3. touched = {own[r]}
  BY <1>1, <1>2, InsideIsApart
<1>4. own[r] \in Nat
  <2>1. DOMAIN zones \subseteq Nat
    BY <1>2, NearIs
  <2>. QED  BY <1>1, <2>1
<1>5. Min({own[r]}) = own[r]
  <2>1. {own[r]} \subseteq Nat /\ {own[r]} # {}
    BY <1>4
  <2>. QED  BY <2>1, MinIs
<1>. QED  BY <1>3, <1>5 DEF FindZone

\* A zone that grows to contain a leaf near it stays apart from the zones
\* that the leaf is not near.
LEMMA GrownStaysApart ==
  ASSUME NEW y \in Zone, NEW z \in Zone, NEW r \in Ranges,
         ~ Apart(y, r), Apart(y, z), Apart(z, r)
  PROVE  Apart(ExtendsToContain(y, r, 1), z) /\ Apart(z, ExtendsToContain(y, r, 1))
<1>1. /\ y.min \in Nat /\ y.max \in Nat /\ z.min \in Nat /\ z.max \in Nat
      /\ r.min \in Nat /\ r.max \in Nat /\ Padding \in Nat
      /\ y.min <= y.max /\ z.min <= z.max /\ r.min <= r.max
  BY ZonesAssumption DEF Zone, Ranges, Addr
<1>2. /\ ExtendsToContain(y, r, 1).min = Smaller(y.min, r.min)
      /\ ExtendsToContain(y, r, 1).max = Larger(y.max, r.max)
  BY DEF ExtendsToContain
<1>3. \/ Larger(y.max, r.max) + Padding < z.min
      \/ z.max + Padding < Smaller(y.min, r.min)
  BY <1>1 DEF Apart, Larger, Smaller
<1>. QED  BY <1>2, <1>3 DEF Apart

\* No leaf, no zone.
LEMMA ZonesInitInv == ZonesInit => ZInv
<1> SUFFICES ASSUME ZonesInit PROVE ZInv
  OBVIOUS
<1>1. zones = <<>> /\ inserted = [r \in Ranges |-> 0] /\ DOMAIN zones = {} /\ zones \in Seq(Zone)
  BY DEF ZonesInit
<1>2. inserted \in [Ranges -> Nat] /\ SeenIn(inserted) = {}
  BY <1>1 DEF SeenIn
<1>3. Total(inserted, Ranges) <= MaxLeaves
  <2> DEFINE F == {s \in SUBSET Ranges : Total(inserted, s) = 0}
  <2>1. {} \in F
    BY TotalEmpty
  <2>2. ASSUME NEW s \in SUBSET Ranges, NEW x \in s, s \ {x} \in F
        PROVE  s \in F
    <3>1. Total(inserted, s) = inserted[x] + Total(inserted, s \ {x})
      BY <1>2, RangesAreFinite, TotalRemove
    <3>2. inserted[x] = 0
      BY <1>1
    <3>. QED  BY <2>2, <3>1, <3>2
  <2>3. SUBSET Ranges \subseteq F
    <3> HIDE DEF F
    <3>. QED  BY <2>1, <2>2, RangesAreFinite, SubsetInduction
  <2>. QED  BY <2>3, ZonesAssumption
<1>4. Assigned(<<>>, zones, inserted)
  BY <1>1, <1>2 DEF Assigned
<1>5. Assigns(zones, inserted)
  BY <1>4 DEF Assigns
<1>6. ZonesApart(zones)
  BY <1>1 DEF ZonesApart
<1>. QED  BY <1>1, <1>2, <1>3, <1>5, <1>6 DEF ZInv, Sound

\* A leaf that the trace has room for keeps the zones sound, whether it opens
\* a zone, extends one or makes zones merge.
LEMMA InsertKeepsInv ==
  ASSUME ZInv, NEW range \in Ranges, Insert(range)
  PROVE  ZInv'
<1> DEFINE first == Min(Near(range))
           g == [inserted EXCEPT ![range] = @ + 1]
           z == [min |-> range.min, max |-> range.max, leaf_count |-> 1]
           grown == [zones EXCEPT ![first] = ExtendsToContain(@, range, 1)]
<1>1. /\ zones \in Seq(Zone) /\ inserted \in [Ranges -> Nat]
      /\ Total(inserted, Ranges) <= MaxLeaves
      /\ ZonesApart(zones) /\ Assigns(zones, inserted)
  BY DEF ZInv, Sound
<1>2. /\ Near(range) = {i \in DOMAIN zones : ~ Apart(zones[i], range)}
      /\ IsFiniteSet(Near(range)) /\ Near(range) \subseteq DOMAIN zones /\ Near(range) \subseteq Nat
      /\ DOMAIN zones = 1..Len(zones) /\ Len(zones) \in Nat
  BY <1>1, NearIs
<1>3. PICK own : Assigned(own, zones, inserted)
  BY <1>1 DEF Assigns
<1>4. ASSUME range \in SeenIn(inserted)
      PROVE  Near(range) = {own[range]}
  <2>1. /\ own[range] \in DOMAIN zones
        /\ zones[own[range]].min <= range.min /\ range.max <= zones[own[range]].max
    BY <1>3, <1>4 DEF Assigned
  <2>. QED  BY <1>1, <1>2, <2>1, InsideIsApart
<1>5. Total(g, Ranges) <= MaxLeaves
  <2>1. Total(inserted, Ranges) < MaxLeaves
    BY DEF Insert, LeavesOf, Total
  <2>2. Total(g, Ranges) = Total(inserted, Ranges) + 1
    BY <1>1, RangesAreFinite, TotalOneMore
  <2>3. Total(inserted, Ranges) \in Nat
    BY <1>1, RangesAreFinite, TotalRemove
  <2> HIDE DEF g
  <2>. QED  BY <2>1, <2>2, <2>3, ZonesAssumption
<1>6. inserted' = g
  BY DEF Insert
<1>7. CASE Near(range) = {} /\ zones' = Append(zones, z)
  <2> DEFINE ys == Append(zones, z)
  <2>1. range \notin SeenIn(inserted)
    BY <1>4, <1>7
  <2>2. z \in Zone /\ ys \in Seq(Zone) /\ g \in [Ranges -> Nat] /\ Assigns(ys, g)
    BY <1>1, <1>3, <2>1, AppendKeepsLeaves
  <2>3. z.min = range.min /\ z.max = range.max
    OBVIOUS
  <2> HIDE DEF z, g
  <2>4. \A i \in DOMAIN zones : Apart(zones[i], z) /\ Apart(z, zones[i])
    BY <1>2, <1>7, <2>3 DEF Apart
  <2>5. /\ DOMAIN ys = 1..(Len(zones) + 1) /\ ys[Len(zones) + 1] = z
        /\ \A i \in 1..Len(zones) : ys[i] = zones[i]
    BY <1>1, <1>2, <2>2
  <2> HIDE DEF ys
  <2>6. ZonesApart(ys)
    <3> SUFFICES ASSUME NEW i \in DOMAIN ys, NEW j \in DOMAIN ys, i # j
                 PROVE  Apart(ys[i], ys[j])
      BY DEF ZonesApart
    <3>1. /\ i = Len(zones) + 1 \/ i \in DOMAIN zones
          /\ j = Len(zones) + 1 \/ j \in DOMAIN zones
      BY <1>2, <2>5
    <3>2. CASE i = Len(zones) + 1
      BY <1>2, <2>4, <2>5, <3>1, <3>2
    <3>3. CASE j = Len(zones) + 1
      BY <1>2, <2>4, <2>5, <3>1, <3>3
    <3>4. CASE i \in DOMAIN zones /\ j \in DOMAIN zones
      BY <1>1, <1>2, <2>5, <3>4 DEF ZonesApart
    <3>. QED  BY <3>1, <3>2, <3>3, <3>4
  <2>7. Sound(ys, g)
    BY <1>5, <2>2, <2>6 DEF Sound
  <2>8. zones' = ys
    BY <1>7 DEF ys
  <2>. QED  BY <1>6, <2>7, <2>8 DEF ZInv
<1>8. ASSUME Near(range) # {}
      PROVE  /\ first \in Near(range) /\ first \in DOMAIN zones
             /\ grown \in Seq(Zone) /\ Len(grown) = Len(zones)
             /\ g \in [Ranges -> Nat] /\ Assigns(grown, g)
  <2>1. first \in Near(range)
    BY <1>2, <1>8, MinIs
  <2>2. first \in DOMAIN zones
    BY <1>2, <2>1
  <2>3. range \in SeenIn(inserted) => own[range] = first
    BY <1>4, <2>1
  <2> HIDE DEF first
  <2>4. zones \in Seq(Zone) /\ inserted \in [Ranges -> Nat]
    BY <1>1
  <2>5. Grown(grown, zones, first, range)
    BY DEF Grown
  <2> HIDE DEF grown
  <2>6. /\ grown \in Seq(Zone) /\ Len(grown) = Len(zones)
        /\ g \in [Ranges -> Nat] /\ Assigns(grown, g)
    <3>1. \A i \in DOMAIN zones : \A ys :
            (range \in SeenIn(inserted) => own[range] = i) /\ Grown(ys, zones, i, range)
              => ys \in Seq(Zone) /\ Len(ys) = Len(zones) /\ g \in [Ranges -> Nat] /\ Assigns(ys, g)
      BY <1>3, <2>4, GrowKeepsLeaves
    <3>. QED  BY <2>2, <2>3, <2>5, <3>1
  <2>. QED  BY <2>1, <2>2, <2>6
<1>9. CASE Cardinality(Near(range)) = 1 /\ zones' = grown
  <2>1. PICK x : Near(range) = {x}
    BY <1>2, <1>9, FS_Singleton
  <2>2. /\ first \in Near(range) /\ first \in DOMAIN zones
        /\ grown \in Seq(Zone) /\ g \in [Ranges -> Nat] /\ Assigns(grown, g)
        /\ DOMAIN grown = DOMAIN zones
    BY <1>8, <2>1
  <2>3. grown[first] = ExtendsToContain(zones[first], range, 1)
    BY <2>2
  <2>4. \A i \in DOMAIN zones : i # first => grown[i] = zones[i]
    OBVIOUS
  <2> HIDE DEF first, grown, g
  <2>5. \A i \in DOMAIN zones : i # first => Apart(zones[i], range)
    BY <1>2, <2>1, <2>2
  <2>6. \A i \in DOMAIN zones : zones[i] \in Zone
    BY <1>1
  <2>7. \A i \in DOMAIN zones : i # first => /\ Apart(grown[first], zones[i])
                                             /\ Apart(zones[i], grown[first])
    <3>1. ~ Apart(zones[first], range)
      BY <1>2, <2>2
    <3>2. \A i \in DOMAIN zones : i # first => Apart(zones[first], zones[i])
      BY <1>1, <2>2 DEF ZonesApart
    <3>. QED  BY <2>2, <2>3, <2>5, <2>6, <3>1, <3>2, GrownStaysApart
  <2>8. ZonesApart(grown)
    BY <1>1, <2>2, <2>4, <2>7 DEF ZonesApart
  <2>9. Sound(grown, g)
    BY <1>5, <2>2, <2>8 DEF Sound
  <2>. QED  BY <1>6, <1>9, <2>9 DEF ZInv
<1>10. CASE Cardinality(Near(range)) > 1 /\ zones' = MergeConflicts(grown)
  <2> DEFINE Q == {s \in Seq(Zone) : Assigns(s, g)}
  <2>1. Near(range) # {}
    BY <1>10, FS_EmptySet
  <2>2. grown \in Q /\ g \in [Ranges -> Nat]
    BY <1>8, <2>1
  <2> HIDE DEF first, grown, g
  <2>3. \A s \in Q : HasConflict(s) => MergeFirst(s) \in Q
    BY <2>2, MergeFirstIs, MergeKeepsLeaves
  <2>4. MergeConflicts(grown) \in Q /\ ~ HasConflict(MergeConflicts(grown))
    <3>1. Q \subseteq Seq(Zone)
      OBVIOUS
    <3> HIDE DEF Q
    <3>. QED  BY <2>2, <2>3, <3>1, MergeEnds
  <2>5. MergeConflicts(grown) \in Seq(Zone) /\ Assigns(MergeConflicts(grown), g)
    BY <2>4
  <2>6. ZonesApart(MergeConflicts(grown))
    BY <2>4, <2>5, NoConflictIsApart
  <2>7. Sound(MergeConflicts(grown), g)
    BY <1>5, <2>2, <2>5, <2>6 DEF Sound
  <2>. QED  BY <1>6, <1>10, <2>7 DEF ZInv
<1>. QED  BY <1>7, <1>9, <1>10 DEF Insert, InsertNodeIntoZones

\* The zones of every reachable state are sound.
LEMMA ZonesInvariance == ZonesSpec => []ZInv
<1>1. ZInv /\ [ZonesNext]_zoneVars => ZInv'
  <2> SUFFICES ASSUME ZInv, [ZonesNext]_zoneVars PROVE ZInv'
    OBVIOUS
  <2>1. CASE ZonesNext
    BY <2>1, InsertKeepsInv DEF ZonesNext
  <2>2. CASE UNCHANGED zoneVars
    BY <2>2 DEF ZInv, zoneVars
  <2>. QED  BY <2>1, <2>2
<1>. QED  BY <1>1, ZonesInitInv, PTL DEF ZonesSpec

-----------------------------------------------------------------------------
(* What the invariant gives *)

\* In every reachable state the zones have non-empty ranges and counts
\* between one and the leaves of the trace.
THEOREM ZonesTypeCorrectness == ZonesSpec => []ZonesTypeOK
<1>1. ZInv => ZonesTypeOK
  <2> SUFFICES ASSUME ZInv PROVE ZonesTypeOK
    OBVIOUS
  <2>1. /\ zones \in Seq(Zone) /\ inserted \in [Ranges -> Nat]
        /\ Total(inserted, Ranges) <= MaxLeaves
        /\ Assigns(zones, inserted)
    BY DEF ZInv, Sound
  <2>2. PICK own : Assigned(own, zones, inserted)
    BY <2>1 DEF Assigns
  <2>3. \A s \in SUBSET Ranges : Total(inserted, s) \in Nat
    BY <2>1, RangesAreFinite, TotalRemove
  <2>4. \A s \in SUBSET Ranges : Total(inserted, s) <= MaxLeaves
    <3> SUFFICES ASSUME NEW s \in SUBSET Ranges
                 PROVE  Total(inserted, s) <= MaxLeaves
      OBVIOUS
    <3>1. Total(inserted, s) <= Total(inserted, Ranges)
      BY <2>1, RangesAreFinite, TotalMonotone
    <3>. QED  BY <2>1, <2>3, <3>1, ZonesAssumption
  <2>5. inserted \in [Ranges -> 0..MaxLeaves]
    <3>1. \A r \in Ranges : inserted[r] <= Total(inserted, Ranges)
      BY <2>1, RangesAreFinite, TotalMonotone
    <3>2. Total(inserted, Ranges) \in Nat /\ MaxLeaves \in Nat
      BY <2>3, ZonesAssumption
    <3>3. \A r \in Ranges : inserted[r] \in 0..MaxLeaves
      BY <2>1, <3>1, <3>2
    <3>. QED  BY <2>1, <3>3
  <2> DEFINE Kind == {z \in [min : Addr, max : Addr, leaf_count : 1..MaxLeaves] : z.min <= z.max}
  <2>6. \A i \in DOMAIN zones : zones[i] \in Kind
    <3> SUFFICES ASSUME NEW i \in DOMAIN zones PROVE zones[i] \in Kind
      OBVIOUS
    <3>1. zones[i] \in Zone
      BY <2>1
    <3>2. zones[i].leaf_count = Total(inserted, HeldBy(own, inserted, i))
      BY <2>2 DEF Assigned
    <3>3. zones[i].leaf_count <= MaxLeaves
      <4>1. HeldBy(own, inserted, i) \in SUBSET Ranges
        BY DEF HeldBy, SeenIn
      <4>. QED  BY <2>4, <3>2, <4>1
    <3>4. zones[i].leaf_count \in 1..MaxLeaves
      BY <3>1, <3>3, ZonesAssumption DEF Zone
    <3>. QED  BY <3>1, <3>4 DEF Zone
  <2> HIDE DEF Kind
  <2>7. zones \in Seq(Kind)
    <3>1. DOMAIN zones = 1..Len(zones) /\ Len(zones) \in Nat /\ zones = [i \in 1..Len(zones) |-> zones[i]]
      BY <2>1
    <3>2. zones \in [1..Len(zones) -> Kind]
      BY <2>6, <3>1
    <3>. QED  BY <3>1, <3>2, IsSequence
  <2>. QED  BY <2>5, <2>7 DEF ZonesTypeOK, Kind
<1>. QED  BY <1>1, ZonesInvariance, PTL

\* Zones stay more than the padding apart in every reachable state, whatever
\* the leaves and their order: one merge loop is enough after each leaf.
THEOREM ZonesNeverMeet == ZonesSpec => []ZonesStayApart
<1>1. ZInv => ZonesStayApart
  BY DEF ZInv, Sound, ZonesApart, Apart, ZonesStayApart
<1>. QED  BY <1>1, ZonesInvariance, PTL

\* Every leaf of the trace lies inside one zone and touches no other, in
\* every reachable state: the lookups of the later passes cannot fail.
THEOREM LeavesFindTheirZone == ZonesSpec => []EveryLeafHasItsZone
<1>1. ZInv => EveryLeafHasItsZone
  <2> SUFFICES ASSUME ZInv, NEW r \in Seen
               PROVE  \E i \in DOMAIN zones :
                        /\ zones[i].min <= r.min /\ r.max <= zones[i].max
                        /\ \A j \in DOMAIN zones : j # i => RangeDisjoint(BBox(zones[j]), r)
    BY DEF EveryLeafHasItsZone
  <2>1. zones \in Seq(Zone) /\ ZonesApart(zones) /\ Assigns(zones, inserted)
    BY DEF ZInv, Sound
  <2>2. PICK own : Assigned(own, zones, inserted)
    BY <2>1 DEF Assigns
  <2>3. r \in SeenIn(inserted) /\ r \in Ranges
    BY DEF Seen, SeenIn
  <2>4. own[r] \in DOMAIN zones /\ zones[own[r]].min <= r.min /\ r.max <= zones[own[r]].max
    BY <2>2, <2>3 DEF Assigned
  <2>5. \A j \in DOMAIN zones : j # own[r] => RangeDisjoint(BBox(zones[j]), r)
    BY <2>1, <2>3, <2>4, InsideIsApart
  <2>. QED  BY <2>4, <2>5
<1>. QED  BY <1>1, ZonesInvariance, PTL

\* In every reachable state each zone counts exactly the leaves that the later
\* passes look up there: the room that the layout reserves is the room used.
THEOREM ZonesCountTheirLeaves == ZonesSpec => []CountsAreWhatIsFound
<1>1. ZInv => CountsAreWhatIsFound
  <2> SUFFICES ASSUME ZInv, NEW i \in DOMAIN zones
               PROVE  zones[i].leaf_count = LeavesOf({r \in Seen : FindZone(r) = i})
    BY DEF CountsAreWhatIsFound
  <2>1. zones \in Seq(Zone) /\ ZonesApart(zones) /\ Assigns(zones, inserted)
    BY DEF ZInv, Sound
  <2>2. PICK own : Assigned(own, zones, inserted)
    BY <2>1 DEF Assigns
  <2>3. Seen = SeenIn(inserted)
    BY DEF Seen, SeenIn
  <2>4. \A r \in SeenIn(inserted) : FindZone(r) = own[r]
    BY <2>1, <2>2, FindsItsZone
  <2>5. {r \in Seen : FindZone(r) = i} = HeldBy(own, inserted, i)
    BY <2>3, <2>4 DEF HeldBy
  <2>6. zones[i].leaf_count = Total(inserted, HeldBy(own, inserted, i))
    BY <2>2 DEF Assigned
  <2>7. LeavesOf(HeldBy(own, inserted, i)) = Total(inserted, HeldBy(own, inserted, i))
    BY DEF LeavesOf, Total
  <2>. QED  BY <2>5, <2>6, <2>7
<1>. QED  BY <1>1, ZonesInvariance, PTL
=============================================================================

------------------------ MODULE CalculationsProofs ------------------------
(***************************************************************************)
(* Proofs about calculations: the loops, sorts and sums they are made of,    *)
(* then plans and clips, then trends, rivals, briefs and reports.           *)
(***************************************************************************)
EXTENDS Drafting, Insights, FiniteSetTheorems, SequenceTheorems, WellFoundedInduction, TLAPS

----------------------------------------------------------------------------
(* Folds over lists: what the loops of a draft take over.                   *)

\* A set of numbers has a least one.
LEMMA LeastNumber ==
  ASSUME NEW T, T \subseteq Nat, T # {}
  PROVE  \E x \in T : \A y \in T : x <= y
<1>1. PICK x \in T : \A y \in T : ~(<<y, x>> \in OpToRel(<, Nat))
  BY NatLessThanWellFounded, WFMin, Zenon
<1>2. \A y \in Nat : \A z \in Nat : y < z => <<y, z>> \in OpToRel(<, Nat)
  BY Zenon DEF OpToRel
<1>3. \A y \in T : ~(y < x)
  BY <1>1, <1>2, Zenon
<1> QED
  BY <1>3

\* What is true of 0 and goes on from each number to the next is true up to n.
LEMMA UpTo ==
  ASSUME NEW n \in Nat, NEW T, 0 \in T,
         \A k \in 1 .. n : k - 1 \in T => k \in T
  PROVE  0 .. n \subseteq T
<1> SUFFICES ASSUME NEW m \in 0 .. n, m \notin T PROVE FALSE
  OBVIOUS
<1> DEFINE U == {k \in 0 .. n : k \notin T}
<1>1. PICK k \in U : \A y \in U : k <= y
  <2>1. U \subseteq Nat /\ U # {}
    OBVIOUS
  <2> QED
    BY <2>1, LeastNumber
<1>2. k # 0 /\ k - 1 \in 0 .. n /\ ~(k <= k - 1)
  BY <1>1
<1> QED
  BY <1>1, <1>2

LEMMA GreatestIsMax ==
  ASSUME NEW S \in SUBSET Int, NEW m \in S, \A y \in S : m >= y
  PROVE  Max(S) = m
<1>1. \A x \in S : (\A y \in S : x >= y) => x = m
  OBVIOUS
<1> QED
  BY <1>1, Zenon DEF Max

\* g[k] is what is kept of the first k elements of s.
OfBeginnings(g, s, n, good, most) ==
  /\ g[0] = <<>>
  /\ \A k \in 1 .. n :
       g[k] = IF Len(g[k - 1]) < most /\ s[k] \in good THEN Append(g[k - 1], s[k]) ELSE g[k - 1]

\* The fold ends with what is kept of all.
LEMMA KeptOfBeginnings ==
  ASSUME NEW s, NEW n \in Nat, DOMAIN s = 1 .. n, NEW good, NEW most
  PROVE  \E g : OfBeginnings(g, s, n, good, most) /\ Kept(s, good, most) = g[n]
<1> DEFINE Step(kept, e) == IF Len(kept) < most /\ e \in good THEN Append(kept, e) ELSE kept
           After(h, S) == IF S = {} THEN <<>> ELSE Step(h[S \ {Max(S)}], s[Max(S)])
           Is(h, k) == h = [S \in SUBSET (1 .. k) |-> After(h, S)]
           T == {k \in 0 .. n : \E h : Is(h, k)}
<1>1. Kept(s, good, most) = (CHOOSE h : Is(h, n))[1 .. n]
  BY DEF Kept, FoldLeft, MapThenFoldSet
<1>2. 0 \in T
  <2> DEFINE h == [S \in SUBSET (1 .. 0) |-> <<>>]
  <2>1. \A S \in SUBSET (1 .. 0) : After(h, S) = <<>>
    OBVIOUS
  <2>2. Is(h, 0)
    BY <2>1
  <2> QED
    BY <2>2
<1>3. ASSUME NEW k \in 1 .. n, k - 1 \in T
      PROVE  k \in T
  <2>1. PICK h : Is(h, k - 1)
    BY <1>3
  <2> DEFINE g == [S \in SUBSET (1 .. k) |-> IF k \in S THEN Step(h[S \ {k}], s[k]) ELSE h[S]]
  <2>2. \A S \in SUBSET (1 .. k) : \A x : k \notin S \ {x} =>
          S \ {x} \in SUBSET (1 .. k - 1) /\ g[S \ {x}] = h[S \ {x}]
    <3> SUFFICES ASSUME NEW S \in SUBSET (1 .. k), NEW x, k \notin S \ {x}
                 PROVE  S \ {x} \in SUBSET (1 .. k - 1) /\ g[S \ {x}] = h[S \ {x}]
      OBVIOUS
    <3>1. S \ {x} \in SUBSET (1 .. k) /\ S \ {x} \in SUBSET (1 .. k - 1)
      <4>1. \A y \in 1 .. k : y # k => y \in 1 .. k - 1
        OBVIOUS
      <4> HIDE DEF g
      <4>2. S \ {x} \in SUBSET (1 .. k)
        OBVIOUS
      <4> QED
        BY <4>1, <4>2
    <3>2. \A R \in SUBSET (1 .. k) : k \notin R => g[R] = h[R]
      OBVIOUS
    <3> HIDE DEF g
    <3> QED
      BY <3>1, <3>2
  <2>3. ASSUME NEW S \in SUBSET (1 .. k)
        PROVE  g[S] = After(g, S)
    <3>1. CASE k \in S
      <4>1. Max(S) = k
        <5>1. S \in SUBSET Int /\ \A y \in S : k >= y
          OBVIOUS
        <5> QED
          BY <3>1, <5>1, GreatestIsMax
      <4>2. g[S \ {k}] = h[S \ {k}]
        BY <2>2
      <4>3. g[S] = Step(h[S \ {k}], s[k])
        BY <3>1
      <4> HIDE DEF g
      <4> QED
        BY <3>1, <4>1, <4>2, <4>3
    <3>2. CASE k \notin S
      <4>1. S \in SUBSET (1 .. k - 1)
        BY <3>2
      <4>2. g[S] = h[S]
        BY <3>2
      <4>3. h[S] = After(h, S)
        BY <2>1, <4>1
      <4>4. g[S \ {Max(S)}] = h[S \ {Max(S)}]
        BY <2>2, <3>2
      <4> HIDE DEF g
      <4> QED
        BY <4>2, <4>3, <4>4
    <3> QED
      BY <3>1, <3>2
  <2>4. Is(g, k)
    <3>1. g = [S \in SUBSET (1 .. k) |-> g[S]]
      OBVIOUS
    <3> HIDE DEF g
    <3> QED
      BY <2>3, <3>1
  <2> HIDE DEF Is
  <2> QED
    BY <2>4
<1>4. n \in T
  <2> HIDE DEF T
  <2> QED
    BY <1>2, <1>3, UpTo
<1> DEFINE H == CHOOSE h : Is(h, n)
<1>5. Is(H, n)
  BY <1>4
<1>6. \A S \in SUBSET (1 .. n) : H[S] = After(H, S)
  <2> HIDE DEF H
  <2> QED
    BY <1>5
<1> DEFINE g == [k \in 0 .. n |-> H[1 .. k]]
<1>7. g[0] = <<>> /\ g[n] = Kept(s, good, most)
  <2>1. 1 .. 0 = {} /\ {} \in SUBSET (1 .. n)
    OBVIOUS
  <2>2. H[{}] = <<>>
    BY <1>6, <2>1
  <2> QED
    BY <1>1, <2>1, <2>2
<1>8. ASSUME NEW k \in 1 .. n
      PROVE  g[k] = Step(g[k - 1], s[k])
  <2>1. 1 .. k \in SUBSET (1 .. n) /\ 1 .. k # {}
    <3>1. k \in 1 .. k /\ \A y \in 1 .. k : y \in 1 .. n
      OBVIOUS
    <3> QED
      BY <3>1
  <2>2. Max(1 .. k) = k
    <3>1. 1 .. k \in SUBSET Int /\ k \in 1 .. k /\ \A y \in 1 .. k : k >= y
      OBVIOUS
    <3> QED
      BY <3>1, GreatestIsMax
  <2>3. (1 .. k) \ {k} = 1 .. (k - 1)
    OBVIOUS
  <2>4. g[k] = H[1 .. k] /\ g[k - 1] = H[1 .. (k - 1)]
    OBVIOUS
  <2> HIDE DEF H, g
  <2> QED
    BY <1>6, <2>1, <2>2, <2>3, <2>4
<1> HIDE DEF g
<1> QED
  BY <1>7, <1>8 DEF OfBeginnings

Fit(s, good) == {k \in DOMAIN s : s[k] \in good}
PlaceOf(s, good, k) == Cardinality({j \in Fit(s, good) : j <= k})

\* How many fit among the first k.
LEMMA PlacesGrow ==
  ASSUME NEW s, NEW n \in Nat, DOMAIN s = 1 .. n, NEW good
  PROVE  /\ PlaceOf(s, good, 0) = 0
         /\ \A k \in 1 .. n :
              PlaceOf(s, good, k) = IF s[k] \in good THEN PlaceOf(s, good, k - 1) + 1
                                    ELSE PlaceOf(s, good, k - 1)
         /\ \A k \in 0 .. n : PlaceOf(s, good, k) \in Nat
         /\ \A j, k \in 0 .. n : j <= k => PlaceOf(s, good, j) <= PlaceOf(s, good, k)
         /\ PlaceOf(s, good, n) = Cardinality(Fit(s, good))
<1> DEFINE F(k) == {j \in Fit(s, good) : j <= k}
<1>1. IsFiniteSet(Fit(s, good))
  <2>1. IsFiniteSet(1 .. n) /\ Fit(s, good) \in SUBSET (1 .. n)
    BY FS_Interval DEF Fit
  <2> QED
    BY <2>1, FS_Subset
<1>2. \A k : F(k) \in SUBSET Fit(s, good) /\ IsFiniteSet(F(k))
  BY <1>1, FS_Subset
<1>3. \A k : PlaceOf(s, good, k) \in Nat
  BY <1>2, FS_CardinalityType DEF PlaceOf
<1>4. PlaceOf(s, good, 0) = 0
  <2>1. F(0) = {}
    BY DEF Fit
  <2> QED
    BY <2>1, FS_EmptySet DEF PlaceOf
<1>5. ASSUME NEW k \in 1 .. n
      PROVE  PlaceOf(s, good, k) = IF s[k] \in good THEN PlaceOf(s, good, k - 1) + 1
                                   ELSE PlaceOf(s, good, k - 1)
  <2>1. CASE s[k] \in good
    <3>1. F(k) = F(k - 1) \cup {k} /\ k \notin F(k - 1)
      BY <2>1 DEF Fit
    <3>2. Cardinality(F(k - 1) \cup {k}) = Cardinality(F(k - 1)) + 1
      <4>1. \/ k \in F(k - 1)
            \/ Cardinality(F(k - 1) \cup {k}) = Cardinality(F(k - 1)) + 1
        BY <1>2, FS_AddElement, Zenon
      <4> QED
        BY <3>1, <4>1
    <3> QED
      BY <2>1, <3>1, <3>2 DEF PlaceOf
  <2>2. CASE s[k] \notin good
    <3>1. F(k) = F(k - 1)
      BY <2>2 DEF Fit
    <3> QED
      BY <2>2, <3>1 DEF PlaceOf
  <2> QED
    BY <2>1, <2>2
<1>6. ASSUME NEW j \in 0 .. n, NEW k \in 0 .. n, j <= k
      PROVE  PlaceOf(s, good, j) <= PlaceOf(s, good, k)
  <2>1. F(j) \in SUBSET F(k)
    BY <1>6 DEF Fit
  <2> QED
    BY <1>2, <2>1, FS_Subset DEF PlaceOf
<1>7. F(n) = Fit(s, good)
  BY DEF Fit
<1> QED
  BY <1>3, <1>4, <1>5, <1>6, <1>7 DEF PlaceOf

\* The loops of parsePlan and of the filter on platforms: what is kept is the first
\* elements that are good, each in its place.
LEMMA KeptAreFirst ==
  ASSUME NEW s, NEW n \in Nat, DOMAIN s = 1 .. n, NEW good, NEW most \in Nat
  PROVE  /\ Kept(s, good, most) \in Seq(good)
         /\ \A e \in ToSet(Kept(s, good, most)) : e \in ToSet(s)
         /\ Len(Kept(s, good, most)) =
              IF Cardinality(Fit(s, good)) <= most THEN Cardinality(Fit(s, good)) ELSE most
         /\ \A k \in Fit(s, good) :
              PlaceOf(s, good, k) <= Len(Kept(s, good, most)) =>
                Kept(s, good, most)[PlaceOf(s, good, k)] = s[k]
<1>1. PICK g : OfBeginnings(g, s, n, good, most) /\ Kept(s, good, most) = g[n]
  BY KeptOfBeginnings
<1> DEFINE C(k) == PlaceOf(s, good, k)
           Inv(k) == /\ g[k] \in Seq(good)
                     /\ \A m \in 1 .. Len(g[k]) : g[k][m] \in ToSet(s)
                     /\ Len(g[k]) = IF C(k) <= most THEN C(k) ELSE most
                     /\ \A j \in Fit(s, good) :
                          j <= k /\ C(j) <= Len(g[k]) => g[k][C(j)] = s[j]
           T == {k \in 0 .. n : Inv(k)}
<1>2. /\ C(0) = 0
      /\ \A k \in 0 .. n : C(k) \in Nat
      /\ C(n) = Cardinality(Fit(s, good))
  <2>1. C(0) = 0
    BY PlacesGrow
  <2>2. \A k \in 0 .. n : C(k) \in Nat
    BY PlacesGrow
  <2>3. C(n) = Cardinality(Fit(s, good))
    BY PlacesGrow
  <2> QED
    BY <2>1, <2>2, <2>3
<1>3. 0 \in T
  <2>1. ~ \E j \in Fit(s, good) : j <= 0
    BY DEF Fit
  <2>2. Inv(0)
    BY <1>1, <1>2, <2>1 DEF OfBeginnings
  <2> QED
    BY <2>2
<1>4. ASSUME NEW k \in 1 .. n, k - 1 \in T
      PROVE  k \in T
  <2>1. Inv(k - 1) /\ k - 1 \in 0 .. n /\ k \in 0 .. n
    BY <1>4
  <2>2. C(k - 1) \in Nat /\ C(k) = IF s[k] \in good THEN C(k - 1) + 1 ELSE C(k - 1)
    BY <1>2, <2>1, PlacesGrow
  <2>3. \A j \in Fit(s, good) : j <= k /\ j # k => j <= k - 1 /\ C(j) <= C(k - 1) /\ C(j) \in Nat \ {0}
    <3> SUFFICES ASSUME NEW j \in Fit(s, good), j <= k, j # k
                 PROVE  j <= k - 1 /\ C(j) <= C(k - 1) /\ C(j) \in Nat \ {0}
      OBVIOUS
    <3>1. j \in 1 .. n /\ j <= k - 1 /\ s[j] \in good
      BY DEF Fit
    <3>2. C(j) = C(j - 1) + 1 /\ C(j - 1) \in Nat
      BY <1>2, <3>1, PlacesGrow
    <3>3. C(j) <= C(k - 1)
      BY <2>1, <3>1, PlacesGrow
    <3> HIDE DEF C
    <3> QED
      BY <3>1, <3>2, <3>3
  <2>4. g[k] = IF Len(g[k - 1]) < most /\ s[k] \in good THEN Append(g[k - 1], s[k]) ELSE g[k - 1]
    BY <1>1 DEF OfBeginnings
  <2> HIDE DEF C
  <2>5. CASE Len(g[k - 1]) < most /\ s[k] \in good
    <3>1. /\ g[k] = Append(g[k - 1], s[k])
          /\ Len(g[k - 1]) = C(k - 1) /\ C(k) = C(k - 1) + 1 /\ C(k) <= most
      BY <2>1, <2>2, <2>4, <2>5
    <3>2. /\ g[k] \in Seq(good) /\ Len(g[k]) = C(k)
          /\ \A m \in 1 .. C(k - 1) : g[k][m] = g[k - 1][m]
          /\ g[k][C(k)] = s[k]
      BY <2>1, <2>2, <2>5, <3>1
    <3>3. s[k] \in ToSet(s)
      BY DEF ToSet
    <3>4. \A m \in 1 .. Len(g[k]) : g[k][m] \in ToSet(s)
      BY <2>1, <2>2, <3>1, <3>2, <3>3
    <3>5. ASSUME NEW j \in Fit(s, good), j <= k
          PROVE  g[k][C(j)] = s[j]
      <4>1. CASE j = k
        BY <3>2, <4>1
      <4>2. CASE j # k
        <5>1. C(j) \in 1 .. C(k - 1) /\ j <= k - 1
          BY <2>2, <2>3, <3>5, <4>2
        <5> QED
          BY <2>1, <3>1, <3>2, <5>1
      <4> QED
        BY <4>1, <4>2
    <3> QED
      BY <2>1, <3>1, <3>2, <3>4, <3>5
  <2>6. CASE ~(Len(g[k - 1]) < most /\ s[k] \in good)
    <3>1. g[k] = g[k - 1]
      BY <2>4, <2>6
    <3>2. CASE s[k] \notin good
      <4>1. C(k) = C(k - 1) /\ k \notin Fit(s, good)
        BY <2>2, <3>2 DEF Fit
      <4>2. \A j \in Fit(s, good) : j <= k => j <= k - 1
        BY <2>3, <4>1
      <4> QED
        BY <2>1, <3>1, <4>1, <4>2
    <3>3. CASE s[k] \in good
      <4>1. Len(g[k - 1]) = most /\ C(k) = C(k - 1) + 1 /\ most <= C(k - 1)
        BY <2>1, <2>2, <2>6, <3>3
      <4>2. ~(C(k) <= Len(g[k - 1]))
        BY <2>2, <4>1
      <4>3. \A j \in Fit(s, good) : j <= k /\ C(j) <= Len(g[k - 1]) => j <= k - 1
        BY <2>3, <4>2
      <4>4. Len(g[k]) = IF C(k) <= most THEN C(k) ELSE most
        BY <2>2, <3>1, <4>1
      <4>5. Inv(k)
        BY <2>1, <3>1, <4>3, <4>4
      <4> QED
        BY <2>1, <4>5
    <3> QED
      BY <3>2, <3>3
  <2> QED
    BY <2>5, <2>6
<1>5. Inv(n)
  <2>1. n \in T
    <3> HIDE DEF T
    <3> QED
      BY <1>3, <1>4, UpTo
  <2> QED
    BY <2>1
<1>6. \A k \in Fit(s, good) : k <= n
  BY DEF Fit
<1>7. \A e \in ToSet(g[n]) : e \in ToSet(s)
  BY <1>5 DEF ToSet
<1> QED
  BY <1>1, <1>2, <1>5, <1>6, <1>7

----------------------------------------------------------------------------
(* Sums.                                                                    *)

Some(S) == CHOOSE x \in S : TRUE

\* h[S] is the sum of f over S, one element after the other.
SumsOver(f, D, h) ==
  /\ h[{}] = 0
  /\ \A S \in SUBSET D : S # {} => h[S] = f[Some(S)] + h[S \ {Some(S)}]

\* Taking one element after the other from a finite set leaves smaller sets, and
\* the empty set in the end.
LEMMA OneByOne ==
  ASSUME NEW D, IsFiniteSet(D), NEW T, {} \in T,
         \A S \in SUBSET D : S # {} /\ S \ {Some(S)} \in T => S \in T
  PROVE  SUBSET D \subseteq T
<1> DEFINE n == Cardinality(D)
           U == {k \in 0 .. n : \A S \in SUBSET D : Cardinality(S) = k => S \in T}
<1>1. n \in Nat
  BY FS_CardinalityType
<1>2. ASSUME NEW S \in SUBSET D
      PROVE  IsFiniteSet(S) /\ Cardinality(S) \in 0 .. n
  <2>1. IsFiniteSet(S) /\ Cardinality(S) \in Nat /\ Cardinality(S) <= n
    BY FS_Subset, FS_CardinalityType
  <2> QED
    BY <1>1, <2>1
<1>3. ASSUME NEW S \in SUBSET D, S # {}
      PROVE  Cardinality(S \ {Some(S)}) = Cardinality(S) - 1
  <2>1. Some(S) \in S
    BY <1>3 DEF Some
  <2>2. \/ Some(S) \notin S
        \/ Cardinality(S \ {Some(S)}) = Cardinality(S) - 1
    BY <1>2, FS_RemoveElement, Zenon
  <2> QED
    BY <2>1, <2>2
<1>4. 0 \in U
  <2>1. \A S \in SUBSET D : Cardinality(S) = 0 => S = {}
    BY <1>2, FS_EmptySet
  <2>2. 0 \in 0 .. n
    BY <1>1
  <2> QED
    BY <2>1, <2>2
<1>5. ASSUME NEW k \in 1 .. n, k - 1 \in U
      PROVE  k \in U
  <2>1. ASSUME NEW S \in SUBSET D, Cardinality(S) = k
        PROVE  S \in T
    <3>1. S # {}
      BY <2>1, FS_EmptySet
    <3>2. S \ {Some(S)} \in SUBSET D /\ Cardinality(S \ {Some(S)}) = k - 1
      BY <1>3, <2>1, <3>1
    <3>3. S \ {Some(S)} \in T
      BY <1>5, <3>2
    <3> QED
      BY <3>1, <3>3
  <2>2. k \in 0 .. n
    BY <1>1
  <2> QED
    BY <2>1, <2>2
<1>6. 0 .. n \subseteq U
  <2> HIDE DEF U
  <2> QED
    BY <1>1, <1>4, <1>5, UpTo
<1> QED
  BY <1>2, <1>6

\* The fold behind SumFunctionOnSet, unfolded.
LEMMA SumsAreOverSubsets ==
  ASSUME NEW f, NEW D, IsFiniteSet(D)
  PROVE  \E h : SumsOver(f, D, h) /\ SumFunctionOnSet(f, D) = h[D]
<1> DEFINE n == Cardinality(D)
           After(h, S) == IF S = {} THEN 0 ELSE f[Some(S)] + h[S \ {Some(S)}]
           Is(h) == h = [S \in SUBSET D |-> After(h, S)]
           Fits(h, k) == \A S \in SUBSET D : Cardinality(S) <= k => h[S] = After(h, S)
           T == {k \in 0 .. n : \E h : h = [S \in SUBSET D |-> h[S]] /\ Fits(h, k)}
<1>1. n \in Nat /\ \A S \in SUBSET D : IsFiniteSet(S) /\ Cardinality(S) \in 0 .. n
  <2>1. n \in Nat
    BY FS_CardinalityType
  <2>2. ASSUME NEW S \in SUBSET D
        PROVE  IsFiniteSet(S) /\ Cardinality(S) \in Nat /\ Cardinality(S) <= n
    BY FS_Subset, FS_CardinalityType
  <2> QED
    BY <2>1, <2>2
<1>2. \A S \in SUBSET D : S # {} =>
        /\ Some(S) \in S /\ S \ {Some(S)} \in SUBSET D
        /\ Cardinality(S \ {Some(S)}) = Cardinality(S) - 1
  <2> SUFFICES ASSUME NEW S \in SUBSET D, S # {}
               PROVE  /\ Some(S) \in S /\ S \ {Some(S)} \in SUBSET D
                      /\ Cardinality(S \ {Some(S)}) = Cardinality(S) - 1
    OBVIOUS
  <2>1. Some(S) \in S
    BY DEF Some
  <2>2. \/ Some(S) \notin S
        \/ Cardinality(S \ {Some(S)}) = Cardinality(S) - 1
    BY <1>1, FS_RemoveElement, Zenon
  <2> QED
    BY <2>1, <2>2
<1>3. \A S \in SUBSET D : Cardinality(S) = 0 <=> S = {}
  BY <1>1, FS_EmptySet
<1> HIDE DEF n
<1>4. 0 \in T
  <2> DEFINE h == [S \in SUBSET D |-> 0]
  <2>1. \A S \in SUBSET D : Cardinality(S) <= 0 => S = {}
    BY <1>1, <1>3
  <2>2. h = [S \in SUBSET D |-> h[S]] /\ Fits(h, 0)
    BY <2>1
  <2>3. 0 \in 0 .. n
    BY <1>1
  <2> HIDE DEF h, Fits
  <2> QED
    BY <2>2, <2>3
<1>5. ASSUME NEW k \in 1 .. n, k - 1 \in T
      PROVE  k \in T
  <2>1. PICK h : h = [S \in SUBSET D |-> h[S]] /\ Fits(h, k - 1)
    BY <1>5
  <2> DEFINE g == [S \in SUBSET D |-> IF Cardinality(S) = k THEN After(h, S) ELSE h[S]]
  <2>2. \A S \in SUBSET D : S # {} /\ Cardinality(S) <= k => g[S \ {Some(S)}] = h[S \ {Some(S)}]
    BY <1>1, <1>2
  <2>3. ASSUME NEW S \in SUBSET D, Cardinality(S) <= k
        PROVE  g[S] = After(g, S)
    <3>1. CASE Cardinality(S) = k
      <4>1. g[S] = After(h, S) /\ S # {}
        BY <1>3, <3>1
      <4> HIDE DEF g
      <4> QED
        BY <2>2, <2>3, <4>1
    <3>2. CASE Cardinality(S) # k
      <4>1. g[S] = h[S] /\ Cardinality(S) <= k - 1
        BY <1>1, <2>3, <3>2
      <4>2. h[S] = After(h, S)
        BY <2>1, <4>1
      <4> HIDE DEF g
      <4> QED
        BY <2>2, <2>3, <4>1, <4>2
    <3> QED
      BY <3>1, <3>2
  <2>4. g = [S \in SUBSET D |-> g[S]]
    OBVIOUS
  <2>5. k \in 0 .. n
    BY <1>1
  <2> HIDE DEF g
  <2> QED
    BY <2>3, <2>4, <2>5
<1>6. \E h : Is(h)
  <2>1. n \in T
    <3> HIDE DEF T
    <3> QED
      BY <1>1, <1>4, <1>5, UpTo
  <2>2. PICK h : h = [S \in SUBSET D |-> h[S]] /\ Fits(h, n)
    BY <2>1
  <2>3. ASSUME NEW S \in SUBSET D
        PROVE  h[S] = After(h, S)
    <3>1. Cardinality(S) <= n
      BY <1>1
    <3> QED
      BY <2>2, <3>1
  <2>4. Is(h)
    BY <2>2, <2>3
  <2> QED
    BY <2>4
<1> DEFINE H == CHOOSE h : Is(h)
<1>7. Is(H)
  BY <1>6
<1>8. \A S \in SUBSET D : H[S] = After(H, S)
  <2> HIDE DEF H
  <2> QED
    BY <1>7
<1>9. SumFunctionOnSet(f, D) = H[D]
  BY DEF SumFunctionOnSet, FoldFunctionOnSet, MapThenFoldSet, Some
<1>10. SumsOver(f, D, H)
  <2>1. {} \in SUBSET D
    OBVIOUS
  <2> HIDE DEF H
  <2> QED
    BY <1>8, <2>1 DEF SumsOver
<1> QED
  BY <1>9, <1>10

LEMMA Quotients ==
  ASSUME NEW a \in Int, NEW b \in Nat \ {0}
  PROVE  a \div b \in Int /\ b * (a \div b) <= a /\ a < b * (a \div b) + b
  OBVIOUS

LEMMA RoundedIsNear ==
  ASSUME NEW a \in Nat, NEW d \in Nat \ {0}
  PROVE  /\ Rounded(a, d) \in Nat
         /\ 2 * (d * Rounded(a, d)) - 2 * a \in -d .. d
<1> DEFINE q == Rounded(a, d)
<1>1. 2 * a + d \in Int /\ 2 * d \in Nat \ {0}
  OBVIOUS
<1>2. q \in Int /\ (2 * d) * q <= 2 * a + d /\ 2 * a + d < (2 * d) * q + 2 * d
  BY <1>1, Quotients DEF Rounded
<1> HIDE DEF q
<1>3. (2 * d) * q = 2 * (d * q)
  BY <1>2
<1>4. d * q \in Int
  BY <1>2
<1>5. 2 * (d * q) - 2 * a \in -d .. d
  BY <1>2, <1>3, <1>4
<1>6. q \in Nat
  <2> SUFFICES ASSUME q <= -1 PROVE FALSE
    BY <1>2
  <2>1. (2 * d) * q <= -(2 * d)
    BY <1>2
  <2> QED
    BY <1>2, <2>1
<1> QED
  BY <1>5, <1>6 DEF q

LEMMA RoundedIsNatural ==
  ASSUME NEW a \in Nat, NEW d \in Nat \ {0}
  PROVE  Rounded(a, d) \in Nat
BY RoundedIsNear

\* A larger share is not shown for less.
LEMMA RoundedGrows ==
  ASSUME NEW a \in Nat, NEW b \in Nat, a <= b, NEW d \in Nat \ {0}
  PROVE  Rounded(a, d) <= Rounded(b, d)
<1> DEFINE p == Rounded(a, d)
           q == Rounded(b, d)
<1>1. 2 * a + d \in Int /\ 2 * b + d \in Int /\ 2 * d \in Nat \ {0}
  OBVIOUS
<1>2. p \in Int /\ (2 * d) * p <= 2 * a + d
  BY <1>1, Quotients DEF Rounded
<1>3. q \in Int /\ 2 * b + d < (2 * d) * q + 2 * d
  BY <1>1, Quotients DEF Rounded
<1> HIDE DEF p, q
<1> SUFFICES ASSUME q + 1 <= p PROVE FALSE
  BY <1>2, <1>3 DEF p, q
<1>4. (2 * d) * (q + 1) <= (2 * d) * p
  BY <1>2, <1>3
<1>5. (2 * d) * (q + 1) = (2 * d) * q + 2 * d
  BY <1>3
<1> QED
  BY <1>2, <1>3, <1>4, <1>5

Shares(w, n, c, r, W) == [k \in 1 .. n |-> c + Rounded(r * w[k], W)]

\* The weights of scenes add up to more than nothing.
LEMMA WeightsAddUp ==
  ASSUME NEW n \in Nat \ {0}, NEW w \in [1 .. n -> Nat \ {0}]
  PROVE  SumFunction(w) \in Nat \ {0}
<1> DEFINE D == 1 .. n
<1>1. IsFiniteSet(D) /\ DOMAIN w = D /\ D # {}
  <2>1. IsFiniteSet(1 .. n)
    BY FS_Interval
  <2>2. 1 \in 1 .. n
    OBVIOUS
  <2> QED
    BY <2>1, <2>2
<1>2. PICK s : SumsOver(w, D, s) /\ SumFunction(w) = s[D]
  BY <1>1, SumsAreOverSubsets DEF SumFunction
<1> DEFINE T == {S \in SUBSET D : s[S] \in Nat /\ (S # {} => s[S] # 0)}
<1>3. {} \in T
  BY <1>2 DEF SumsOver
<1>4. ASSUME NEW S \in SUBSET D, S # {}, S \ {Some(S)} \in T
      PROVE  S \in T
  <2>1. Some(S) \in D
    BY <1>4 DEF Some
  <2>2. s[S] = w[Some(S)] + s[S \ {Some(S)}]
    BY <1>2, <1>4 DEF SumsOver
  <2>3. w[Some(S)] \in Nat \ {0} /\ s[S \ {Some(S)}] \in Nat
    BY <1>4, <2>1
  <2> QED
    BY <2>2, <2>3
<1>5. SUBSET D \subseteq T
  <2> HIDE DEF T, D
  <2> QED
    BY <1>1, <1>3, <1>4, OneByOne
<1> QED
  BY <1>1, <1>2, <1>5

\* W times twice the difference of t, the shares, from what they should be.
Off(W, c, r, k, s, t) == 2 * (W * t) - 2 * (W * (c * k) + r * s)

LEMMA OneShareMore ==
  ASSUME NEW W \in Nat \ {0}, NEW c \in Nat, NEW r \in Nat, NEW k \in Nat, NEW s \in Nat,
         NEW t \in Int, NEW w \in Nat, NEW q \in Nat,
         Off(W, c, r, k, s, t) \in -(k * W) .. k * W, 2 * (W * q) - 2 * (r * w) \in -W .. W
  PROVE  Off(W, c, r, k + 1, w + s, (c + q) + t) \in -((k + 1) * W) .. (k + 1) * W
<1>1. W * ((c + q) + t) = W * c + W * q + W * t
  OBVIOUS
<1>2. r * (w + s) = r * w + r * s
  OBVIOUS
<1>3. c * (k + 1) = c * k + c /\ c * k \in Nat
  OBVIOUS
<1>4. W * (c * (k + 1)) = W * (c * k) + W * c
  BY <1>3
<1>5. (k + 1) * W = k * W + W
  OBVIOUS
<1>6. /\ W * c \in Int /\ W * q \in Int /\ W * t \in Int /\ r * w \in Int /\ r * s \in Int
      /\ k * W \in Int
  OBVIOUS
<1>7. W * (c * k) \in Int
  BY <1>3
<1> DEFINE Wc == W * c
           Wq == W * q
           Wt == W * t
           rw == r * w
           rs == r * s
           kW == k * W
           Wck == W * (c * k)
<1>8. Off(W, c, r, k, s, t) = 2 * Wt - 2 * (Wck + rs)
  BY DEF Off
<1>9. Off(W, c, r, k + 1, w + s, (c + q) + t) = 2 * (Wc + Wq + Wt) - 2 * ((Wck + Wc) + (rw + rs))
  BY <1>1, <1>2, <1>4 DEF Off
<1>10. 2 * Wq - 2 * rw \in -W .. W /\ 2 * Wt - 2 * (Wck + rs) \in -kW .. kW
  BY <1>8
<1>11. Wc \in Int /\ Wq \in Int /\ Wt \in Int /\ rw \in Int /\ rs \in Int /\ kW \in Int /\ Wck \in Int
  BY <1>6, <1>7
<1>12. (k + 1) * W = kW + W
  BY <1>5
<1> HIDE DEF Wc, Wq, Wt, rw, rs, kW, Wck
<1>13. 2 * (Wc + Wq + Wt) - 2 * ((Wck + Wc) + (rw + rs)) \in -(kW + W) .. kW + W
  BY <1>10, <1>11
<1> QED
  BY <1>9, <1>12, <1>13

LEMMA AllTheShares ==
  ASSUME NEW W \in Nat \ {0}, NEW m \in Nat, NEW r \in Nat, NEW n \in Nat, NEW u \in Int,
         2 * (W * u) - 2 * (W * m + r * W) \in -(n * W) .. n * W
  PROVE  2 * (u - (m + r)) \in -n .. n
<1> DEFINE off == 2 * (u - (m + r))
<1>1. W * off = 2 * (W * u) - 2 * (W * m + r * W)
  <2>1. off \in Int /\ W * off = 2 * (W * (u - (m + r)))
    OBVIOUS
  <2>2. W * (u - (m + r)) = W * u - (W * m + r * W)
    OBVIOUS
  <2>3. W * u \in Int /\ W * m \in Int /\ r * W \in Int
    OBVIOUS
  <2> HIDE DEF off
  <2> QED
    BY <2>1, <2>2, <2>3
<1>2. off \in Int /\ W * off \in -(n * W) .. n * W
  BY <1>1
<1> HIDE DEF off
<1>3. ~(off >= n + 1)
  <2> SUFFICES ASSUME off >= n + 1 PROVE FALSE
    OBVIOUS
  <2>1. W * off >= W * (n + 1) /\ W * (n + 1) = n * W + W
    BY <1>2
  <2> QED
    BY <1>2, <2>1
<1>4. ~(off <= -n - 1)
  <2> SUFFICES ASSUME off <= -n - 1 PROVE FALSE
    OBVIOUS
  <2>1. W * off <= W * (-n - 1) /\ W * (-n - 1) = -(n * W) - W
    BY <1>2
  <2> QED
    BY <1>2, <2>1
<1> QED
  BY <1>2, <1>3, <1>4 DEF off

\* The sum of rounded shares of r on top of c each is within half for each of them of
\* what is shared.
LEMMA SharesAddUp ==
  ASSUME NEW n \in Nat \ {0}, NEW w \in [1 .. n -> Nat \ {0}], NEW c \in Nat, NEW r \in Nat,
         NEW W, W = SumFunction(w)
  PROVE  /\ SumFunction(Shares(w, n, c, r, W)) \in Int
         /\ 2 * (SumFunction(Shares(w, n, c, r, W)) - (c * n + r)) \in -n .. n
<1> DEFINE D == 1 .. n
<1>1. IsFiniteSet(D) /\ Cardinality(D) = n
  <2>1. IsFiniteSet(1 .. n)
    BY FS_Interval
  <2>2. Cardinality(1 .. n) = IF 1 > n THEN 0 ELSE n - 1 + 1
    BY FS_Interval
  <2> QED
    BY <2>1, <2>2
<1>2. W \in Nat \ {0}
  BY WeightsAddUp
<1>3. DOMAIN w = D /\ DOMAIN Shares(w, n, c, r, W) = D
  BY DEF Shares
<1>4. PICK s : SumsOver(w, D, s) /\ W = s[D]
  BY <1>1, <1>3, SumsAreOverSubsets DEF SumFunction
<1>5. PICK t : SumsOver(Shares(w, n, c, r, W), D, t) /\ SumFunction(Shares(w, n, c, r, W)) = t[D]
  BY <1>1, <1>3, SumsAreOverSubsets DEF SumFunction
\* All is multiplied by the sum of the weights.
<1> DEFINE OffOf(S) == Off(W, c, r, Cardinality(S), s[S], t[S])
           T == {S \in SUBSET D :
                  /\ IsFiniteSet(S) /\ Cardinality(S) \in Nat /\ s[S] \in Nat /\ t[S] \in Int
                  /\ OffOf(S) \in -(Cardinality(S) * W) .. Cardinality(S) * W}
<1>6. {} \in T
  <2>1. s[{}] = 0 /\ t[{}] = 0
    BY <1>4, <1>5 DEF SumsOver
  <2>2. IsFiniteSet({}) /\ Cardinality({}) = 0
    BY FS_EmptySet
  <2>3. OffOf({}) = 0
    BY <1>2, <2>1, <2>2 DEF Off
  <2>4. 0 * W = 0
    BY <1>2
  <2> HIDE DEF OffOf
  <2> QED
    BY <2>1, <2>2, <2>3, <2>4
<1>7. ASSUME NEW S \in SUBSET D, S # {}, S \ {Some(S)} \in T
      PROVE  S \in T
  <2> DEFINE x == Some(S)
             R == S \ {x}
             q == Rounded(r * w[x], W)
             k == Cardinality(R)
  <2>1. x \in S /\ x \in D /\ S = R \cup {x} /\ x \notin R
    BY <1>7 DEF Some
  <2>2. /\ R \in SUBSET D /\ IsFiniteSet(R) /\ k \in Nat /\ s[R] \in Nat /\ t[R] \in Int
        /\ Off(W, c, r, k, s[R], t[R]) \in -(k * W) .. k * W
    BY <1>7
  <2>3. IsFiniteSet(S) /\ Cardinality(S) = k + 1
    <3>1. IsFiniteSet(R \cup {x}) /\ (x \in R \/ Cardinality(R \cup {x}) = k + 1)
      BY <2>2, FS_AddElement, Zenon
    <3> QED
      BY <2>1, <3>1
  <2>4. s[S] = w[x] + s[R]
    BY <1>4, <1>7 DEF SumsOver
  <2>5. t[S] = (c + q) + t[R]
    <3>1. t[S] = Shares(w, n, c, r, W)[x] + t[R]
      BY <1>5, <1>7 DEF SumsOver
    <3>2. Shares(w, n, c, r, W)[x] = c + q
      BY <2>1 DEF Shares
    <3> QED
      BY <3>1, <3>2
  <2>6. w[x] \in Nat /\ r * w[x] \in Nat
    BY <2>1
  <2>7. q \in Nat /\ 2 * (W * q) - 2 * (r * w[x]) \in -W .. W
    BY <1>2, <2>6, RoundedIsNear
  <2> HIDE DEF x, R, q, k
  <2>8. Off(W, c, r, k + 1, w[x] + s[R], (c + q) + t[R]) \in -((k + 1) * W) .. (k + 1) * W
    BY <1>2, <2>2, <2>6, <2>7, OneShareMore
  <2>9. OffOf(S) \in -(Cardinality(S) * W) .. Cardinality(S) * W
    BY <2>3, <2>4, <2>5, <2>8
  <2>10. s[S] \in Nat /\ t[S] \in Int /\ Cardinality(S) \in Nat
    <3>1. t[R] \in Int /\ q \in Int /\ c \in Int
      BY <2>2, <2>7
    <3>2. s[R] \in Nat /\ w[x] \in Nat
      BY <2>2, <2>6
    <3>3. s[S] \in Nat
      BY <2>4, <3>2
    <3>4. t[S] \in Int
      BY <2>5, <3>1
    <3>5. Cardinality(S) \in Nat
      BY <2>2, <2>3
    <3> QED
      BY <3>3, <3>4, <3>5
  <2> QED
    BY <2>3, <2>9, <2>10
<1>8. D \in T
  <2>1. D \in SUBSET D
    OBVIOUS
  <2> HIDE DEF T, D
  <2> QED
    BY <1>1, <1>6, <1>7, <2>1, OneByOne
<1>9. t[D] \in Int /\ 2 * (W * t[D]) - 2 * (W * (c * n) + r * W) \in -(n * W) .. n * W
  BY <1>1, <1>4, <1>8 DEF Off
<1>10. c * n \in Nat
  OBVIOUS
<1>11. 2 * (t[D] - (c * n + r)) \in -n .. n
  BY <1>2, <1>9, <1>10, AllTheShares
<1> QED
  BY <1>5, <1>9, <1>11

----------------------------------------------------------------------------
(* Plans and clips.                                                         *)

LEMMA LargerOfTwo ==
  ASSUME NEW a \in Int, NEW b \in Int
  PROVE  Max({a, b}) = IF a >= b THEN a ELSE b
<1> DEFINE m == IF a >= b THEN a ELSE b
<1>1. {a, b} \in SUBSET Int /\ m \in {a, b} /\ \A y \in {a, b} : m >= y
  OBVIOUS
<1> HIDE DEF m
<1>2. Max({a, b}) = m
  BY <1>1, GreatestIsMax
<1> QED
  BY <1>2 DEF m

LEMMA SmallerOfTwo ==
  ASSUME NEW a \in Int, NEW b \in Int
  PROVE  Min({a, b}) = IF a <= b THEN a ELSE b
<1> DEFINE m == IF a <= b THEN a ELSE b
<1>1. m \in {a, b} /\ \A y \in {a, b} : m <= y
  OBVIOUS
<1>2. \A x \in {a, b} : (\A y \in {a, b} : x <= y) => x = m
  OBVIOUS
<1> HIDE DEF m
<1>3. Min({a, b}) = m
  BY <1>1, <1>2, Zenon DEF Min
<1> QED
  BY <1>3 DEF m

\* clampDays: 1 to 60.
LEMMA DaysAreClamped ==
  ASSUME NEW n \in Int
  PROVE  ClampDays(n) \in 1 .. MostDays
BY SmallerOfTwo DEF ClampDays, DefaultDays, MostDays

\* The filter on platforms keeps those that were asked for and can be planned for.
LEMMA PlatformsAreSafe ==
  ASSUME NEW asked \in Seq(STRING)
  PROVE  /\ SafePlatforms(asked) \in Seq(PlanPlatforms)
         /\ asked # <<>> => \A p \in ToSet(SafePlatforms(asked)) : p \in ToSet(asked)
<1> DEFINE platforms == IF asked = <<>> THEN <<"linkedin">> ELSE asked
           n == Len(platforms)
<1>1. n \in Nat /\ DOMAIN platforms = 1 .. n
  <2>1. CASE asked = <<>>
    <3>1. platforms = <<"linkedin">>
      BY <2>1
    <3>2. Len(<<"linkedin">>) = 1 /\ DOMAIN <<"linkedin">> = 1 .. 1
      OBVIOUS
    <3> HIDE DEF platforms
    <3> QED
      BY <3>1, <3>2
  <2>2. CASE asked # <<>>
    <3>1. platforms = asked
      BY <2>2
    <3> QED
      BY <3>1
  <2> QED
    BY <2>1, <2>2
<1>2. SafePlatforms(asked) = Kept(platforms, PlanPlatforms, n)
  BY DEF SafePlatforms, AllKept
<1>3. asked # <<>> => platforms = asked
  OBVIOUS
<1> HIDE DEF platforms, n
<1>4. Kept(platforms, PlanPlatforms, n) \in Seq(PlanPlatforms)
  BY <1>1, KeptAreFirst
<1>5. \A p \in ToSet(Kept(platforms, PlanPlatforms, n)) : p \in ToSet(platforms)
  BY <1>1, KeptAreFirst
<1> QED
  BY <1>2, <1>3, <1>4, <1>5

\* parsePlan keeps the first usable entries, and nothing else.
LEMMA PlansAreFirstUsable ==
  ASSUME NEW answer \in Answers, NEW days \in Nat, NEW platforms \in Seq(PlanPlatforms)
  PROVE  LET items == ParsePlan(answer, days, platforms)
             usable == {k \in DOMAIN answer : answer[k] \in Usable(answer, days, platforms)}
             place(k) == Cardinality({j \in usable : j <= k})
         IN /\ items \in Seq(Usable(answer, days, platforms))
            /\ Len(items) = Min({Cardinality(usable), MaxItems(days, platforms)})
            /\ Len(items) <= MaxItems(days, platforms)
            /\ \A k \in usable : place(k) <= Len(items) => items[place(k)] = answer[k]
<1> DEFINE good == Usable(answer, days, platforms)
           most == MaxItems(days, platforms)
           n == Len(answer)
           items == Kept(answer, good, most)
<1>1. n \in Nat /\ DOMAIN answer = 1 .. n
  BY DraftingAssumption
<1>2. most \in Nat
  <2>1. Len(platforms) \in Nat
    OBVIOUS
  <2> QED
    BY <2>1 DEF MaxItems
<1>3. ParsePlan(answer, days, platforms) = items
  BY DEF ParsePlan
<1>4. Cardinality(Fit(answer, good)) \in Nat
  <2>1. IsFiniteSet(1 .. n) /\ Fit(answer, good) \in SUBSET (1 .. n)
    BY <1>1, FS_Interval DEF Fit
  <2> QED
    BY <2>1, FS_Subset, FS_CardinalityType
<1> HIDE DEF good, most, n, items
<1>5. items \in Seq(good)
  BY <1>1, <1>2, KeptAreFirst DEF items
<1>6. Len(items) = IF Cardinality(Fit(answer, good)) <= most THEN Cardinality(Fit(answer, good)) ELSE most
  BY <1>1, <1>2, KeptAreFirst DEF items
<1>7. \A k \in Fit(answer, good) :
        PlaceOf(answer, good, k) <= Len(items) => items[PlaceOf(answer, good, k)] = answer[k]
  BY <1>1, <1>2, KeptAreFirst DEF items
<1>8. Len(items) = Min({Cardinality(Fit(answer, good)), most}) /\ Len(items) <= most
  BY <1>2, <1>4, <1>6, SmallerOfTwo
<1> QED
  BY <1>3, <1>5, <1>7, <1>8 DEF Fit, PlaceOf, good, most

\* What the schema and the two tests of parsePlan leave.
LEMMA UsableItemsFit ==
  ASSUME NEW answer \in Answers, NEW days \in 1 .. MostDays,
         NEW platforms \in Seq(PlanPlatforms), NEW e \in Usable(answer, days, platforms)
  PROVE  /\ ScheduledAt(e) \in 0 .. Min({days, MostDays}) - 1
         /\ e.platform \in PlanPlatforms
         /\ e.platform \in ToSet(platforms)
<1>1. PICK k \in DOMAIN answer : e = answer[k]
  BY DEF Usable, ToSet
<1>2. e.whole /\ e.day <= days /\ e.platform \in ToSet(platforms)
  BY DEF Usable
<1>3. e.day \in Int
  <2> DEFINE Entries == [day : Int, platform : STRING, whole : BOOLEAN]
  <2>1. answer \in Seq(Entries)
    BY DraftingAssumption
  <2>2. answer[k] \in Entries
    <3> HIDE DEF Entries
    <3> QED
      BY <2>1
  <2> QED
    BY <1>1, <2>2
<1>4. e.day >= 1
  BY <1>1, <1>2, DraftingAssumption
<1>5. Min({days, MostDays}) = days
  BY SmallerOfTwo DEF MostDays
<1>6. e.platform \in PlanPlatforms
  BY <1>2 DEF ToSet
<1> QED
  BY <1>2, <1>3, <1>4, <1>5, <1>6 DEF ScheduledAt

\* No clip is under its floor, a longer narration is shown for as long at least, and the
\* clips add up.
LEMMA ClipsFit ==
  ASSUME NEW words \in Words, NEW target \in Int
  PROVE  LET clips == AllocateDurations(words, target)
             off == SumFunction(clips) - Max({target, MinClip * Len(words)})
         IN /\ \A k \in DOMAIN clips : clips[k] >= MinClip
            /\ \A j, k \in DOMAIN clips : words[j] <= words[k] => clips[j] <= clips[k]
            /\ 2 * off \in -Len(words) .. Len(words)
<1> DEFINE n == Len(words)
           floor == MinClip * n
           budget == Max({target, floor})
           r == budget - floor
           W == SumFunction(words)
           clips == AllocateDurations(words, target)
<1>1. n \in Nat \ {0} /\ DOMAIN words = 1 .. n /\ words \in [1 .. n -> Nat \ {0}]
  BY DraftingAssumption
<1>2. MinClip \in Nat /\ floor \in Nat
  BY <1>1 DEF MinClip
<1>3. budget \in Int /\ budget >= floor /\ r \in Nat
  BY <1>2, LargerOfTwo
<1>4. W \in Nat \ {0}
  BY <1>1, WeightsAddUp
<1>5. clips = Shares(words, n, MinClip, r, W)
  BY <1>1 DEF AllocateDurations, Shares
<1> HIDE DEF n, floor, budget, r, W, clips
<1>6. /\ SumFunction(clips) \in Int
      /\ 2 * (SumFunction(clips) - (MinClip * n + r)) \in -n .. n
  BY <1>1, <1>2, <1>3, <1>5, SharesAddUp DEF W
<1>7. MinClip * n + r = budget
  BY <1>2, <1>3 DEF floor, r
<1>8. 2 * (SumFunction(clips) - budget) \in -n .. n
  BY <1>6, <1>7
<1>9. DOMAIN clips = 1 .. n /\ \A k \in 1 .. n : clips[k] = MinClip + Rounded(r * words[k], W)
  BY <1>5 DEF Shares
<1>10. ASSUME NEW k \in 1 .. n
       PROVE  words[k] \in Nat /\ r * words[k] \in Nat /\ Rounded(r * words[k], W) \in Nat
  <2>1. words[k] \in Nat /\ r * words[k] \in Nat
    BY <1>1, <1>3
  <2> QED
    BY <1>4, <2>1, RoundedIsNear
<1>11. \A k \in DOMAIN clips : clips[k] >= MinClip
  BY <1>2, <1>9, <1>10
<1>12. ASSUME NEW j \in 1 .. n, NEW k \in 1 .. n, words[j] <= words[k]
       PROVE  clips[j] <= clips[k]
  <2>1. r * words[j] <= r * words[k]
    BY <1>3, <1>10, <1>12
  <2>2. Rounded(r * words[j], W) <= Rounded(r * words[k], W)
    BY <1>4, <1>10, <2>1, RoundedGrows
  <2> QED
    BY <1>2, <1>9, <1>10, <2>2
<1> QED
  BY <1>8, <1>9, <1>11, <1>12 DEF n, floor, budget, clips

\* Whatever is asked for and whatever a model answers: a plan is the first usable
\* entries of the answer and within what was asked for, and the clips of a video last
\* as long as what is said. (clampDays, parsePlan, generate, allocateDurations)
THEOREM DraftsAreFitting == DraftingSpec => []DraftsFit
<1>1. DraftingInit => DraftsFit
  <2> SUFFICES ASSUME DraftingInit PROVE DraftsFit
    OBVIOUS
  <2>1. ASSUME NEW p \in [days : AskedDays, platforms : AskedFor, answer : Answers], draft = [plan |-> p]
        PROVE  PlanIsFirstUsable /\ PlanFits /\ ~IsVideo
    <3> DEFINE days == ClampDays(p.days)
               platforms == SafePlatforms(p.platforms)
               items == ParsePlan(p.answer, days, platforms)
               good == Usable(p.answer, days, platforms)
    <3>1. draft.plan = p /\ ~IsVideo
      BY <2>1 DEF IsVideo
    <3>2. p.answer \in Answers /\ p.platforms \in Seq(STRING) /\ p.days \in Int
      BY DraftingAssumption
    <3>3. days \in 1 .. MostDays /\ days \in Nat
      <4>1. days \in 1 .. MostDays
        BY <3>2, DaysAreClamped
      <4> HIDE DEF days
      <4> QED
        BY <4>1 DEF MostDays
    <3>4. /\ platforms \in Seq(PlanPlatforms)
          /\ p.platforms # <<>> => \A q \in ToSet(platforms) : q \in ToSet(p.platforms)
      BY <3>2, PlatformsAreSafe
    <3> HIDE DEF days, platforms
    <3>5. PlanIsFirstUsable
      <4> DEFINE usable == {k \in DOMAIN p.answer : p.answer[k] \in good}
                 place(k) == Cardinality({j \in usable : j <= k})
                 First == /\ Len(items) = Min({Cardinality(usable), MaxItems(days, platforms)})
                          /\ \A k \in usable : place(k) <= Len(items) => items[place(k)] = p.answer[k]
      <4>1. First
        BY <3>2, <3>3, <3>4, PlansAreFirstUsable
      <4>2. First => PlanIsFirstUsable
        BY <3>1, Zenon DEF PlanIsFirstUsable, days, platforms
      <4> QED
        BY <4>1, <4>2
    <3>6. items \in Seq(good) /\ Len(items) <= days * Len(platforms)
      BY <3>2, <3>3, <3>4, PlansAreFirstUsable DEF MaxItems
    <3>7. Len(items) <= MostDays * Len(platforms)
      <4>1. Len(platforms) \in Nat /\ Len(items) \in Nat
        BY <3>4, <3>6
      <4>2. MostDays \in Nat /\ days <= MostDays
        BY <3>3 DEF MostDays
      <4>3. days * Len(platforms) <= MostDays * Len(platforms)
        BY <3>3, <4>1, <4>2
      <4>4. days * Len(platforms) \in Int /\ MostDays * Len(platforms) \in Int
        BY <3>3, <4>1, <4>2
      <4> QED
        BY <3>6, <4>1, <4>3, <4>4
    <3>8. ASSUME NEW k \in DOMAIN items
          PROVE  /\ ScheduledAt(items[k]) \in 0 .. Min({days, MostDays}) - 1
                 /\ items[k].platform \in PlanPlatforms
                 /\ p.platforms # <<>> => items[k].platform \in ToSet(p.platforms)
      <4>1. items[k] \in good
        BY <3>6
      <4> HIDE DEF items
      <4>2. /\ ScheduledAt(items[k]) \in 0 .. Min({days, MostDays}) - 1
            /\ items[k].platform \in PlanPlatforms
            /\ items[k].platform \in ToSet(platforms)
        BY <3>2, <3>3, <3>4, <4>1, UsableItemsFit
      <4> QED
        BY <3>4, <4>2
    <3> QED
      BY <3>1, <3>5, <3>7, <3>8 DEF PlanFits, days, platforms
  <2>2. ASSUME NEW v \in [words : Words, seconds : AskedSeconds, narrated : BOOLEAN], draft = [video |-> v]
        PROVE  ClipsSpanNarration /\ ~IsPlan
    <3>1. draft.video = v /\ ~IsPlan
      BY <2>2 DEF IsPlan
    <3>2. v.words \in Words /\ v.seconds \in Int
      BY DraftingAssumption
    <3>3. Runtime(v) \in Int
      <4> DEFINE m == Min({180, v.seconds})
                 t == Max({15, m})
      <4>1. m \in Int
        BY <3>2, SmallerOfTwo
      <4>2. t \in Int
        <5> HIDE DEF m
        <5> QED
          BY <4>1, LargerOfTwo
      <4>3. ClampTarget(v.seconds) = 100 * t
        BY DEF ClampTarget
      <4> HIDE DEF m, t
      <4> QED
        BY <3>2, <4>2, <4>3 DEF Runtime
    <3> QED
      BY <3>1, <3>2, <3>3, ClipsFit DEF ClipsSpanNarration
  <2>3. \/ \E p \in [days : AskedDays, platforms : AskedFor, answer : Answers] : draft = [plan |-> p]
        \/ \E v \in [words : Words, seconds : AskedSeconds, narrated : BOOLEAN] : draft = [video |-> v]
    BY DEF DraftingInit
  <2> QED
    BY <2>1, <2>2, <2>3 DEF DraftsFit, PlanIsFirstUsable, PlanFits, ClipsSpanNarration
<1>2. DraftsFit /\ [DraftingNext]_draft => DraftsFit'
  BY DEF DraftingNext, DraftsFit, PlanIsFirstUsable, PlanFits, ClipsSpanNarration, IsPlan, IsVideo
<1> QED
  BY <1>1, <1>2, PTL DEF DraftingSpec

----------------------------------------------------------------------------
(* Sorts.                                                                   *)

\* p[m] is the place in the list of what has place m when it is sorted.
Sorts(p, n, first, second) ==
  /\ p \in [1 .. n -> 1 .. n]
  /\ \A k \in 1 .. n : \E m \in 1 .. n : p[m] = k
  /\ \A i, j \in 1 .. n : i < j => p[i] # p[j] /\ Ahead(first, second, p[i], p[j])

InOrder(s, n, first, second, sorted) ==
  \E p : Sorts(p, n, first, second) /\ sorted = [m \in 1 .. n |-> s[p[m]]]

\* Nothing gets lost by a sort, and what is ahead comes first.
LEMMA SortedIsInOrder ==
  ASSUME NEW s, NEW n \in Nat, DOMAIN s = 1 .. n,
         NEW first \in [1 .. n -> Int], NEW second \in [1 .. n -> Int]
  PROVE  InOrder(s, n, first, second, Sorted(s, first, second))
<1> DEFINE D == 1 .. n
           B(k) == {j \in D : j = k \/ Ahead(first, second, j, k)}
           place(k) == Cardinality(B(k))
           q == [k \in D |-> place(k)]
           p == [m \in D |-> CHOOSE k \in D : place(k) = m]
<1>1. IsFiniteSet(D) /\ Cardinality(D) = n
  <2>1. IsFiniteSet(1 .. n)
    BY FS_Interval
  <2>2. Cardinality(1 .. n) = IF 1 > n THEN 0 ELSE n - 1 + 1
    BY FS_Interval
  <2> QED
    BY <2>1, <2>2
<1>2. ASSUME NEW k \in D
      PROVE  IsFiniteSet(B(k)) /\ place(k) \in D
  <2>1. B(k) \in SUBSET D /\ k \in B(k)
    OBVIOUS
  <2>2. IsFiniteSet(B(k)) /\ place(k) <= n /\ place(k) \in Nat
    BY <1>1, <2>1, FS_Subset, FS_CardinalityType
  <2>3. place(k) # 0
    BY <2>1, <2>2, FS_EmptySet
  <2> QED
    BY <2>2, <2>3
<1>3. \A j, k \in D : j # k => Ahead(first, second, j, k) \/ Ahead(first, second, k, j)
  BY DEF Ahead
<1>4. ASSUME NEW j \in D, NEW k \in D, j # k, Ahead(first, second, j, k)
      PROVE  place(j) < place(k)
  <2>1. B(j) \in SUBSET B(k)
    <3>1. \A i \in D : Ahead(first, second, i, j) => Ahead(first, second, i, k)
      BY <1>4 DEF Ahead
    <3> QED
      BY <1>4, <3>1
  <2>2. k \notin B(j) /\ k \in B(k)
    <3>1. ~Ahead(first, second, k, j)
      BY <1>4 DEF Ahead
    <3> QED
      BY <1>4, <3>1
  <2>3. place(j) <= place(k) /\ (place(k) = place(j) => B(k) = B(j))
    BY <1>2, <2>1, FS_Subset
  <2>4. place(j) \in D /\ place(k) \in D
    BY <1>2
  <2>5. place(k) # place(j)
    <3> HIDE DEF B
    <3> QED
      BY <2>2, <2>3
  <2> HIDE DEF place
  <2> QED
    BY <2>3, <2>4, <2>5
<1>5. \A j, k \in D : place(j) = place(k) => j = k
  <2> SUFFICES ASSUME NEW j \in D, NEW k \in D, place(j) = place(k), j # k PROVE FALSE
    OBVIOUS
  <2>1. place(j) < place(k) \/ place(k) < place(j)
    <3>1. CASE Ahead(first, second, j, k)
      BY <1>4, <3>1
    <3>2. CASE Ahead(first, second, k, j)
      BY <1>4, <3>2
    <3> QED
      BY <1>3, <3>1, <3>2
  <2>2. place(j) \in Int /\ place(k) \in Int
    <3>1. place(j) \in D /\ place(k) \in D
      BY <1>2
    <3> HIDE DEF place
    <3> QED
      BY <3>1
  <2> QED
    BY <2>1, <2>2
<1>6. \A m \in D : \E k \in D : place(k) = m
  <2>1. q \in Injection(D, D)
    BY <1>2, <1>5 DEF Injection, IsInjective
  <2>2. q \in Surjection(D, D)
    BY <1>1, <2>1, FS_Injection
  <2> HIDE DEF place
  <2>3. \A m \in D : \E k \in D : q[k] = m
    BY <2>2 DEF Surjection
  <2> QED
    BY <2>3
<1>7. \A m \in D : p[m] \in D /\ place(p[m]) = m
  <2> HIDE DEF place
  <2> QED
    BY <1>6
<1>8. Sorted(s, first, second) = [m \in D |-> s[p[m]]]
  BY DEF Sorted
<1>9. p \in [D -> D]
  <2>1. \A m \in D : (CHOOSE k \in D : place(k) = m) \in D
    <3> HIDE DEF place
    <3> QED
      BY <1>6
  <2> HIDE DEF place
  <2> QED
    BY <2>1
<1> HIDE DEF p
<1>10. ASSUME NEW k \in D
       PROVE  \E m \in D : p[m] = k
  <2>1. place(k) \in D /\ p[place(k)] \in D /\ place(p[place(k)]) = place(k)
    BY <1>2, <1>7
  <2> HIDE DEF place
  <2> QED
    BY <1>5, <2>1
<1>11. ASSUME NEW i \in D, NEW j \in D, i < j
       PROVE  p[i] # p[j] /\ Ahead(first, second, p[i], p[j])
  <2>1. p[i] \in D /\ p[j] \in D /\ place(p[i]) = i /\ place(p[j]) = j
    BY <1>7
  <2>2. p[i] # p[j]
    <3> HIDE DEF place
    <3> QED
      BY <1>11, <2>1
  <2>3. ~Ahead(first, second, p[j], p[i])
    <3> SUFFICES ASSUME Ahead(first, second, p[j], p[i]) PROVE FALSE
      OBVIOUS
    <3>1. place(p[j]) < place(p[i])
      BY <1>4, <2>1, <2>2
    <3> QED
      BY <1>11, <2>1, <3>1
  <2> QED
    BY <1>3, <2>1, <2>2, <2>3
<1> QED
  BY <1>8, <1>9, <1>10, <1>11 DEF InOrder, Sorts

----------------------------------------------------------------------------
(* Sums.                                                                    *)

Total(f, S) == SumFunctionOnSet(f, S)

\* Two ways of adding up the same numbers, in the order of Some, agree.
LEMMA SumsAreOne ==
  ASSUME NEW f, NEW D, IsFiniteSet(D), NEW g, NEW h, SumsOver(f, D, g), SumsOver(f, D, h)
  PROVE  \A S \in SUBSET D : g[S] = h[S]
<1> DEFINE T == {S \in SUBSET D : g[S] = h[S]}
<1>1. {} \in T
  BY DEF SumsOver
<1>2. ASSUME NEW S \in SUBSET D, S # {}, S \ {Some(S)} \in T
      PROVE  S \in T
  <2>1. g[S] = f[Some(S)] + g[S \ {Some(S)}]
    BY <1>2 DEF SumsOver
  <2>2. h[S] = f[Some(S)] + h[S \ {Some(S)}]
    BY <1>2 DEF SumsOver
  <2> QED
    BY <1>2, <2>1, <2>2
<1>3. SUBSET D \subseteq T
  <2> HIDE DEF T
  <2> QED
    BY <1>1, <1>2, OneByOne
<1> QED
  BY <1>3

\* A total is the sum over the subset of any larger set.
LEMMA TotalsAreSums ==
  ASSUME NEW f, NEW D, IsFiniteSet(D)
  PROVE  /\ Total(f, {}) = 0
         /\ \A S \in SUBSET D : S # {} => Total(f, S) = f[Some(S)] + Total(f, S \ {Some(S)})
<1>1. PICK h : SumsOver(f, D, h) /\ Total(f, D) = h[D]
  BY SumsAreOverSubsets DEF Total
<1>2. ASSUME NEW S \in SUBSET D
      PROVE  Total(f, S) = h[S]
  <2>1. IsFiniteSet(S)
    BY FS_Subset
  <2>2. PICK g : SumsOver(f, S, g) /\ Total(f, S) = g[S]
    BY <2>1, SumsAreOverSubsets DEF Total
  <2>3. SumsOver(f, S, h)
    BY <1>1 DEF SumsOver
  <2>4. g[S] = h[S]
    BY <2>1, <2>2, <2>3, SumsAreOne
  <2> QED
    BY <2>2, <2>4
<1>3. {} \in SUBSET D /\ \A S \in SUBSET D : S \ {Some(S)} \in SUBSET D
  OBVIOUS
<1> HIDE DEF Total
<1> QED
  BY <1>1, <1>2, <1>3 DEF SumsOver

LEMMA SmallerSets ==
  ASSUME NEW D, IsFiniteSet(D)
  PROVE  \A S \in SUBSET D :
           /\ IsFiniteSet(S) /\ Cardinality(S) \in 0 .. Cardinality(D)
           /\ \A x \in S : Cardinality(S \ {x}) = Cardinality(S) - 1 /\ Cardinality(S) > 0
<1> SUFFICES ASSUME NEW S \in SUBSET D
             PROVE  /\ IsFiniteSet(S) /\ Cardinality(S) \in 0 .. Cardinality(D)
                    /\ \A x \in S : Cardinality(S \ {x}) = Cardinality(S) - 1 /\ Cardinality(S) > 0
  OBVIOUS
<1>1. IsFiniteSet(S) /\ Cardinality(S) \in Nat /\ Cardinality(S) <= Cardinality(D)
  BY FS_Subset, FS_CardinalityType
<1>2. Cardinality(D) \in Nat
  BY FS_CardinalityType
<1>3. ASSUME NEW x \in S
      PROVE  Cardinality(S \ {x}) = Cardinality(S) - 1 /\ Cardinality(S) > 0
  <2>1. x \notin S \/ Cardinality(S \ {x}) = Cardinality(S) - 1
    BY <1>1, FS_RemoveElement, Zenon
  <2>2. Cardinality(S) # 0
    BY <1>1, FS_EmptySet
  <2> QED
    BY <1>1, <2>1, <2>2
<1> QED
  BY <1>1, <1>2, <1>3

\* The order does not matter.
LEMMA TotalsGrow ==
  ASSUME NEW D, IsFiniteSet(D), NEW f, \A x \in D : f[x] \in Int
  PROVE  /\ \A S \in SUBSET D : Total(f, S) \in Int
         /\ \A S \in SUBSET D : \A x \in D \ S : Total(f, S \cup {x}) = Total(f, S) + f[x]
<1> DEFINE n == Cardinality(D)
           Adds(S) == /\ Total(f, S) \in Int
                      /\ \A x \in D \ S : Total(f, S \cup {x}) = Total(f, S) + f[x]
           T == {k \in 0 .. n : \A S \in SUBSET D : Cardinality(S) = k => Adds(S)}
<1>1. /\ Total(f, {}) = 0
      /\ \A S \in SUBSET D : S # {} => Total(f, S) = f[Some(S)] + Total(f, S \ {Some(S)})
  BY TotalsAreSums
<1>2. \A S \in SUBSET D :
        /\ IsFiniteSet(S) /\ Cardinality(S) \in 0 .. n
        /\ \A x \in S : Cardinality(S \ {x}) = Cardinality(S) - 1 /\ Cardinality(S) > 0
  BY SmallerSets
<1>3. n \in Nat
  BY FS_CardinalityType
<1> HIDE DEF n, Total
<1>4. ASSUME NEW S \in SUBSET D, NEW x \in D \ S, Some(S \cup {x}) = x
      PROVE  Total(f, S \cup {x}) = f[x] + Total(f, S)
  <2>1. S \cup {x} \in SUBSET D /\ S \cup {x} # {} /\ (S \cup {x}) \ {x} = S
    OBVIOUS
  <2> QED
    BY <1>1, <1>4, <2>1
<1>5. 0 \in T
  <2>1. ASSUME NEW S \in SUBSET D, Cardinality(S) = 0
        PROVE  Adds(S)
    <3>1. S = {}
      BY <1>2, <2>1, FS_EmptySet
    <3>2. ASSUME NEW x \in D
          PROVE  Total(f, {} \cup {x}) = f[x] + Total(f, {})
      <4>1. Some({} \cup {x}) = x
        BY DEF Some
      <4> QED
        BY <1>4, <4>1
    <3> QED
      BY <1>1, <3>1, <3>2
  <2>2. 0 \in 0 .. n
    BY <1>3
  <2> HIDE DEF Adds
  <2> QED
    BY <2>1, <2>2
<1>6. ASSUME NEW k \in 1 .. n, k - 1 \in T
      PROVE  k \in T
  <2>1. ASSUME NEW S \in SUBSET D, Cardinality(S) = k
        PROVE  Adds(S)
    <3>1. S # {}
      BY <2>1, FS_EmptySet
    <3>2. ASSUME NEW y \in S
          PROVE  S \ {y} \in SUBSET D /\ Adds(S \ {y})
      <4>1. S \ {y} \in SUBSET D /\ Cardinality(S \ {y}) = k - 1
        BY <1>2, <2>1
      <4> HIDE DEF Adds
      <4> QED
        BY <1>6, <4>1
    <3>3. ASSUME NEW y \in S
          PROVE  Total(f, S) = Total(f, S \ {y}) + f[y] /\ Total(f, S \ {y}) \in Int
      <4>1. y \in D \ (S \ {y}) /\ (S \ {y}) \cup {y} = S
        OBVIOUS
      <4> QED
        BY <3>2, <4>1
    <3>4. Total(f, S) \in Int
      <4>1. PICK y \in S : TRUE
        BY <3>1
      <4>2. f[y] \in Int
        OBVIOUS
      <4>3. Total(f, S) = Total(f, S \ {y}) + f[y] /\ Total(f, S \ {y}) \in Int
        BY <3>3
      <4> QED
        BY <4>2, <4>3
    <3>5. ASSUME NEW x \in D \ S
          PROVE  Total(f, S \cup {x}) = Total(f, S) + f[x]
      <4> DEFINE y == Some(S \cup {x})
      <4>1. y \in S \cup {x}
        <5>1. x \in S \cup {x}
          OBVIOUS
        <5> QED
          BY <5>1 DEF Some
      <4>2. f[x] \in Int
        OBVIOUS
      <4>3. CASE y = x
        BY <1>4, <3>4, <4>2, <4>3
      <4>4. CASE y \in S
        <5>1. S \cup {x} \in SUBSET D /\ S \cup {x} # {} /\ (S \cup {x}) \ {y} = (S \ {y}) \cup {x}
          BY <4>4
        <5>2. Total(f, S \cup {x}) = f[y] + Total(f, (S \ {y}) \cup {x})
          BY <1>1, <5>1
        <5> HIDE DEF y
        <5>3. Total(f, (S \ {y}) \cup {x}) = Total(f, S \ {y}) + f[x]
          BY <3>2, <4>4
        <5>4. Total(f, S) = Total(f, S \ {y}) + f[y] /\ Total(f, S \ {y}) \in Int /\ f[y] \in Int
          BY <3>3, <4>4
        <5> QED
          BY <4>2, <5>2, <5>3, <5>4
      <4> QED
        BY <4>1, <4>3, <4>4
    <3> QED
      BY <3>4, <3>5
  <2>2. k \in 0 .. n
    BY <1>3
  <2> HIDE DEF Adds
  <2> QED
    BY <2>1, <2>2
<1>7. 0 .. n \subseteq T
  <2> HIDE DEF T
  <2> QED
    BY <1>3, <1>5, <1>6, UpTo
<1>8. \A S \in SUBSET D : Adds(S)
  <2> HIDE DEF Adds
  <2> QED
    BY <1>2, <1>7
<1> QED
  BY <1>8

LEMMA TotalOfTwo ==
  ASSUME NEW D, IsFiniteSet(D), NEW f, \A x \in D : f[x] \in Int
  PROVE  \A A, B \in SUBSET D : A \cap B = {} => Total(f, A \cup B) = Total(f, A) + Total(f, B)
<1> SUFFICES ASSUME NEW A \in SUBSET D, NEW B \in SUBSET D, A \cap B = {}
             PROVE  Total(f, A \cup B) = Total(f, A) + Total(f, B)
  OBVIOUS
<1> DEFINE T == {S \in SUBSET B : Total(f, A \cup S) = Total(f, A) + Total(f, S)}
<1>1. /\ \A S \in SUBSET D : Total(f, S) \in Int
      /\ \A S \in SUBSET D : \A x \in D \ S : Total(f, S \cup {x}) = Total(f, S) + f[x]
  BY TotalsGrow
<1>2. Total(f, {}) = 0
  BY TotalsAreSums
<1> HIDE DEF Total
<1>3. {} \in T
  <2>1. A \cup {} = A
    OBVIOUS
  <2> QED
    BY <1>1, <1>2, <2>1
<1>4. ASSUME NEW S \in SUBSET B, S # {}, S \ {Some(S)} \in T
      PROVE  S \in T
  <2> DEFINE y == Some(S)
             R == S \ {y}
  <2>1. y \in S
    BY <1>4 DEF Some
  <2>2. Total(f, A \cup R) = Total(f, A) + Total(f, R)
    BY <1>4
  <2> HIDE DEF y
  <2>3. R \in SUBSET D /\ A \cup R \in SUBSET D /\ y \in D \ R /\ y \in D \ (A \cup R)
    BY <2>1
  <2>4. S = R \cup {y} /\ A \cup S = (A \cup R) \cup {y}
    BY <2>1
  <2> HIDE DEF R
  <2>5. Total(f, S) = Total(f, R) + f[y] /\ Total(f, A \cup S) = Total(f, A \cup R) + f[y]
    BY <1>1, <2>3, <2>4
  <2>6. Total(f, A) \in Int /\ Total(f, R) \in Int /\ f[y] \in Int
    BY <1>1, <2>3
  <2> QED
    BY <2>2, <2>5, <2>6
<1>5. SUBSET B \subseteq T
  <2>1. IsFiniteSet(B)
    BY FS_Subset
  <2> HIDE DEF T
  <2> QED
    BY <1>3, <1>4, <2>1, OneByOne
<1> QED
  BY <1>5

\* How many there are is the sum of ones.
LEMMA CardinalityIsTotal ==
  ASSUME NEW D, IsFiniteSet(D), NEW f, \A x \in D : f[x] = 1
  PROVE  \A S \in SUBSET D : Total(f, S) = Cardinality(S)
<1> DEFINE T == {S \in SUBSET D : Total(f, S) = Cardinality(S)}
<1>1. /\ Total(f, {}) = 0
      /\ \A S \in SUBSET D : S # {} => Total(f, S) = f[Some(S)] + Total(f, S \ {Some(S)})
  BY TotalsAreSums
<1>2. \A S \in SUBSET D :
        /\ IsFiniteSet(S) /\ Cardinality(S) \in 0 .. Cardinality(D)
        /\ \A x \in S : Cardinality(S \ {x}) = Cardinality(S) - 1 /\ Cardinality(S) > 0
  BY SmallerSets
<1> HIDE DEF Total
<1>3. {} \in T
  BY <1>1, FS_EmptySet
<1>4. ASSUME NEW S \in SUBSET D, S # {}, S \ {Some(S)} \in T
      PROVE  S \in T
  <2>1. Some(S) \in S
    BY <1>4 DEF Some
  <2>2. Total(f, S) = 1 + Cardinality(S \ {Some(S)})
    BY <1>1, <1>4, <2>1
  <2>3. Cardinality(S \ {Some(S)}) = Cardinality(S) - 1 /\ Cardinality(S) \in Int
    BY <1>2, <2>1
  <2> QED
    BY <2>2, <2>3
<1>5. SUBSET D \subseteq T
  <2> HIDE DEF T
  <2> QED
    BY <1>3, <1>4, OneByOne
<1> QED
  BY <1>5

\* The sum of a list is that of the list without its last element, and that element.
LEMMA SumsGrow ==
  ASSUME NEW n \in Nat, NEW f, DOMAIN f = 1 .. n, \A k \in 1 .. n : f[k] \in Int
  PROVE  /\ SumFunction(f) = Total(f, 1 .. n)
         /\ Total(f, 1 .. 0) = 0
         /\ \A k \in 0 .. n : Total(f, 1 .. k) \in Int
         /\ \A k \in 1 .. n : Total(f, 1 .. k) = Total(f, 1 .. k - 1) + f[k]
<1>1. IsFiniteSet(1 .. n)
  BY FS_Interval
<1>2. /\ \A S \in SUBSET (1 .. n) : Total(f, S) \in Int
      /\ \A S \in SUBSET (1 .. n) : \A x \in (1 .. n) \ S : Total(f, S \cup {x}) = Total(f, S) + f[x]
  BY <1>1, TotalsGrow
<1>3. Total(f, {}) = 0
  BY <1>1, TotalsAreSums
<1>4. SumFunction(f) = Total(f, 1 .. n)
  BY DEF SumFunction, Total
<1> HIDE DEF Total
<1>5. 1 .. 0 = {} /\ \A k \in 0 .. n : 1 .. k \in SUBSET (1 .. n)
  OBVIOUS
<1>6. ASSUME NEW k \in 1 .. n
      PROVE  Total(f, 1 .. k) = Total(f, 1 .. k - 1) + f[k]
  <2>1. \A i \in Int : i \in 1 .. k <=> i \in 1 .. k - 1 \/ i = k
    OBVIOUS
  <2>2. 1 .. k = (1 .. k - 1) \cup {k}
    BY <2>1
  <2>3. 1 .. k - 1 \in SUBSET (1 .. n) /\ k \in (1 .. n) \ (1 .. k - 1)
    OBVIOUS
  <2> QED
    BY <1>2, <2>2, <2>3
<1> QED
  BY <1>2, <1>3, <1>4, <1>5, <1>6

\* D is divided into m parts.
Divides(part, m, D) ==
  /\ \A i \in 1 .. m : part[i] \in SUBSET D
  /\ \A x \in D : \E i \in 1 .. m : x \in part[i]
  /\ \A i, j \in 1 .. m : i # j => part[i] \cap part[j] = {}

\* What is added up by parts comes to the same.
LEMMA PartsAddUp ==
  ASSUME NEW D, IsFiniteSet(D), NEW f, \A x \in D : f[x] \in Int, NEW m \in Nat,
         NEW part, Divides(part, m, D),
         NEW g, DOMAIN g = 1 .. m, \A i \in 1 .. m : g[i] = Total(f, part[i])
  PROVE  SumFunction(g) = Total(f, D)
<1>1. \A S \in SUBSET D : Total(f, S) \in Int
  BY TotalsGrow
<1>2. \A i \in 1 .. m : g[i] \in Int
  BY <1>1 DEF Divides
<1>3. Total(f, {}) = 0
  BY TotalsAreSums
<1>4. /\ SumFunction(g) = Total(g, 1 .. m)
      /\ Total(g, 1 .. 0) = 0
      /\ \A k \in 1 .. m : Total(g, 1 .. k) = Total(g, 1 .. k - 1) + g[k]
  BY <1>2, SumsGrow
<1>5. \A A, B \in SUBSET D : A \cap B = {} => Total(f, A \cup B) = Total(f, A) + Total(f, B)
  BY TotalOfTwo
<1> DEFINE U(k) == {x \in D : \E i \in 1 .. k : x \in part[i]}
           T == {k \in 0 .. m : Total(g, 1 .. k) = Total(f, U(k))}
<1> HIDE DEF Total
<1>6. 0 \in T
  <2>1. U(0) = {} /\ 0 \in 0 .. m
    OBVIOUS
  <2> HIDE DEF U
  <2> QED
    BY <1>3, <1>4, <2>1
<1>7. ASSUME NEW k \in 1 .. m, k - 1 \in T
      PROVE  k \in T
  <2>1. Total(g, 1 .. k - 1) = Total(f, U(k - 1))
    BY <1>7
  <2>2. Total(g, 1 .. k) = Total(g, 1 .. k - 1) + g[k]
    BY <1>4
  <2>3. U(k) = U(k - 1) \cup part[k] /\ U(k - 1) \cap part[k] = {} /\ U(k - 1) \in SUBSET D
    <3>1. \A i \in 1 .. k : i = k \/ (i \in 1 .. k - 1 /\ i # k /\ i \in 1 .. m)
      OBVIOUS
    <3>2. U(k - 1) \cap part[k] = {}
      <4> SUFFICES ASSUME NEW x \in U(k - 1), x \in part[k] PROVE FALSE
        OBVIOUS
      <4>1. PICK i \in 1 .. k - 1 : x \in part[i]
        OBVIOUS
      <4>2. i \in 1 .. m /\ i # k
        OBVIOUS
      <4> QED
        BY <4>1, <4>2 DEF Divides
    <3>3. U(k) = U(k - 1) \cup part[k]
      <4>1. \A i \in 1 .. k - 1 : i \in 1 .. k
        OBVIOUS
      <4>2. part[k] \in SUBSET D /\ k \in 1 .. k
        BY DEF Divides
      <4> QED
        BY <3>1, <4>1, <4>2
    <3> QED
      BY <3>2, <3>3
  <2>4. Total(f, U(k)) = Total(f, U(k - 1)) + g[k]
    <3>1. part[k] \in SUBSET D /\ g[k] = Total(f, part[k])
      BY DEF Divides
    <3> HIDE DEF U
    <3> QED
      BY <1>5, <2>3, <3>1
  <2>5. k \in 0 .. m
    OBVIOUS
  <2> HIDE DEF U
  <2> QED
    BY <2>1, <2>2, <2>4, <2>5
<1>8. m \in T
  <2> HIDE DEF T
  <2>1. 0 .. m \subseteq T
    BY <1>6, <1>7, UpTo
  <2> QED
    BY <2>1
<1>9. U(m) = D
  BY DEF Divides
<1> QED
  BY <1>4, <1>8, <1>9

\* A sum is at least what its parts are at least, and at most what they are at most.
LEMMA TotalsAreBounded ==
  ASSUME NEW n \in Nat, NEW f, DOMAIN f = 1 .. n, \A k \in 1 .. n : f[k] \in Int, NEW a \in Int
  PROVE  /\ SumFunction(f) \in Int
         /\ (\A k \in 1 .. n : f[k] >= a) => SumFunction(f) >= n * a
         /\ (\A k \in 1 .. n : f[k] <= a) => SumFunction(f) <= n * a
<1> DEFINE Least == \A k \in 1 .. n : f[k] >= a
           Most == \A k \in 1 .. n : f[k] <= a
           T == {k \in 0 .. n : /\ Least => Total(f, 1 .. k) >= k * a
                                /\ Most => Total(f, 1 .. k) <= k * a}
<1>1. /\ SumFunction(f) = Total(f, 1 .. n)
      /\ Total(f, 1 .. 0) = 0
      /\ \A k \in 0 .. n : Total(f, 1 .. k) \in Int
      /\ \A k \in 1 .. n : Total(f, 1 .. k) = Total(f, 1 .. k - 1) + f[k]
  BY SumsGrow
<1> HIDE DEF Total
<1>2. 0 \in T
  <2>1. 0 * a = 0 /\ 0 \in 0 .. n
    OBVIOUS
  <2> HIDE DEF Least, Most
  <2> QED
    BY <1>1, <2>1
<1>3. ASSUME NEW k \in 1 .. n, k - 1 \in T
      PROVE  k \in T
  <2> DEFINE t == Total(f, 1 .. k - 1)
             x == f[k]
             ka == (k - 1) * a
  <2>1. Total(f, 1 .. k) = t + x
    BY <1>1
  <2>2. (Least => t >= ka) /\ (Most => t <= ka)
    <3> HIDE DEF Least, Most
    <3> QED
      BY <1>3
  <2>3. t \in Int /\ x \in Int
    <3>1. k - 1 \in 0 .. n
      OBVIOUS
    <3> QED
      BY <1>1, <3>1
  <2>4. (Least => x >= a) /\ (Most => x <= a)
    OBVIOUS
  <2>5. k * a = ka + a /\ ka \in Int /\ k \in 0 .. n
    OBVIOUS
  <2> HIDE DEF t, x, ka, Least, Most
  <2>6. (Least => t + x >= ka + a) /\ (Most => t + x <= ka + a)
    BY <2>2, <2>3, <2>4, <2>5
  <2> QED
    BY <2>1, <2>5, <2>6
<1>4. n \in T
  <2> HIDE DEF T
  <2>1. 0 .. n \subseteq T
    BY <1>2, <1>3, UpTo
  <2> QED
    BY <2>1
<1> HIDE DEF Least, Most
<1>5. SumFunction(f) \in Int /\ (Least => SumFunction(f) >= n * a) /\ (Most => SumFunction(f) <= n * a)
  BY <1>1, <1>4
<1> QED
  BY <1>5 DEF Least, Most

\* A finite set of numbers has a greatest.
LEMMA GreatestNumber ==
  ASSUME NEW D, IsFiniteSet(D), D # {}, D \in SUBSET Int
  PROVE  Max(D) \in D /\ \A y \in D : Max(D) >= y
<1> DEFINE T == {S \in SUBSET D : S # {} => \E m \in S : \A y \in S : m >= y}
<1>1. {} \in T
  OBVIOUS
<1>2. ASSUME NEW S \in SUBSET D, S # {}, S \ {Some(S)} \in T
      PROVE  S \in T
  <2> DEFINE x == Some(S)
             R == S \ {x}
  <2>1. x \in S
    BY <1>2 DEF Some
  <2>2. R # {} => \E m \in R : \A y \in R : m >= y
    BY <1>2
  <2> HIDE DEF x
  <2>3. \A y \in S : y \in R \/ y = x
    OBVIOUS
  <2>4. \E m \in S : \A y \in S : m >= y
    <3>1. CASE R = {}
      BY <2>1, <2>3, <3>1
    <3>2. CASE R # {}
      <4>1. PICK m \in R : \A y \in R : m >= y
        BY <2>2, <3>2
      <4>2. m \in Int /\ x \in Int /\ \A y \in R : y \in Int
        BY <2>1
      <4>3. CASE m >= x
        <5>1. \A y \in S : m >= y
          BY <2>3, <4>1, <4>3
        <5> QED
          BY <5>1
      <4>4. CASE ~(m >= x)
        <5>1. \A y \in S : x >= y
          BY <2>3, <4>1, <4>2, <4>4
        <5> QED
          BY <2>1, <5>1
      <4> QED
        BY <4>3, <4>4
    <3> QED
      BY <3>1, <3>2
  <2> QED
    BY <2>4
<1>3. D \in T
  <2>1. D \in SUBSET D
    OBVIOUS
  <2> HIDE DEF T
  <2> QED
    BY <1>1, <1>2, <2>1, OneByOne
<1>4. PICK m \in D : \A y \in D : m >= y
  BY <1>3
<1>5. Max(D) = m
  BY <1>4, GreatestIsMax
<1> QED
  BY <1>4, <1>5

----------------------------------------------------------------------------
(* Loops.                                                                   *)

\* f[k] is what a loop that starts with base has after k of its n steps, in S.
Runs(f, n, S, base, next) ==
  /\ f \in [0 .. n -> S]
  /\ f[0] = base
  /\ \A k \in 1 .. n : f[k] = next[k][f[k - 1]]

\* Loops come to their end.
LEMMA LoopsRun ==
  ASSUME NEW n \in Nat, NEW S, NEW base \in S, NEW next \in [1 .. n -> [S -> S]]
  PROVE  \E f : Runs(f, n, S, base, next)
<1> DEFINE Is(f, m) == f = [k \in 0 .. m |-> IF k = 0 THEN base ELSE next[k][f[k - 1]]]
           T == {m \in 0 .. n : \E f \in [0 .. m -> S] : Is(f, m)}
<1>1. 0 \in T
  <2> DEFINE f == [k \in 0 .. 0 |-> base]
  <2>1. f \in [0 .. 0 -> S] /\ Is(f, 0) /\ 0 \in 0 .. n
    OBVIOUS
  <2> QED
    BY <2>1
<1>2. ASSUME NEW m \in 1 .. n, m - 1 \in T
      PROVE  m \in T
  <2>1. PICK h \in [0 .. m - 1 -> S] : Is(h, m - 1)
    BY <1>2
  <2> DEFINE f == [k \in 0 .. m |-> IF k = m THEN next[m][h[m - 1]] ELSE h[k]]
  <2>2. h[m - 1] \in S /\ next[m][h[m - 1]] \in S
    <3>1. m - 1 \in 0 .. m - 1
      OBVIOUS
    <3>2. h[m - 1] \in S
      BY <3>1
    <3>3. next[m] \in [S -> S]
      OBVIOUS
    <3> QED
      BY <3>2, <3>3
  <2>3. \A k \in 0 .. m : k = m \/ k \in 0 .. m - 1
    OBVIOUS
  <2>4. f \in [0 .. m -> S]
    BY <2>2, <2>3
  <2>5. ASSUME NEW k \in 0 .. m
        PROVE  f[k] = IF k = 0 THEN base ELSE next[k][f[k - 1]]
    <3>1. CASE k = m
      <4>1. f[m] = next[m][h[m - 1]]
        OBVIOUS
      <4>2. f[m - 1] = h[m - 1]
        OBVIOUS
      <4> HIDE DEF f
      <4> QED
        BY <3>1, <4>1, <4>2
    <3>2. CASE k = 0
      <4>1. f[0] = h[0] /\ 0 \in 0 .. m - 1
        OBVIOUS
      <4>2. h[0] = base
        BY <2>1, <4>1
      <4> QED
        BY <3>2, <4>1, <4>2
    <3>3. CASE k # m /\ k # 0
      <4>1. k \in 0 .. m - 1 /\ k - 1 \in 0 .. m - 1 /\ k - 1 \in 0 .. m /\ k - 1 # m
        BY <3>3
      <4>2. f[k] = h[k] /\ f[k - 1] = h[k - 1]
        BY <3>3, <4>1
      <4>3. h[k] = next[k][h[k - 1]]
        BY <2>1, <3>3, <4>1
      <4> QED
        BY <3>3, <4>2, <4>3
    <3> QED
      BY <3>1, <3>2, <3>3
  <2>6. Is(f, m)
    BY <2>5
  <2>7. m \in 0 .. n
    OBVIOUS
  <2> HIDE DEF f, Is
  <2> QED
    BY <2>4, <2>6, <2>7
<1>3. n \in T
  <2> HIDE DEF T
  <2>1. 0 .. n \subseteq T
    BY <1>1, <1>2, UpTo
  <2> QED
    BY <2>1
<1>4. PICK f \in [0 .. n -> S] : Is(f, n)
  BY <1>3
<1>5. f[0] = base /\ \A k \in 1 .. n : f[k] = next[k][f[k - 1]]
  <2>1. 0 \in 0 .. n /\ \A k \in 1 .. n : k \in 0 .. n /\ k # 0
    OBVIOUS
  <2> QED
    BY <1>4, <2>1
<1> QED
  BY <1>5 DEF Runs

----------------------------------------------------------------------------
(* Scores of trends.                                                        *)

LEMMA ProductsGrow ==
  ASSUME NEW a \in Nat, NEW b \in Nat, a <= b, NEW c \in Nat
  PROVE  c * a <= c * b /\ c * a \in Nat /\ c * b \in Nat
OBVIOUS

Observation == [topic : Name, volume : Nat, growth : Nat]

LEMMA ClampIsBetween ==
  ASSUME NEW n \in Int, NEW low \in Int, NEW high \in Int, low <= high
  PROVE  Clamp(n, low, high) = IF n < low THEN low ELSE IF n > high THEN high ELSE n
<1> DEFINE m == Max({low, n})
<1>1. m = IF low >= n THEN low ELSE n
  BY LargerOfTwo
<1>2. Clamp(n, low, high) = Min({high, m})
  BY DEF Clamp
<1> HIDE DEF m
<1>3. Min({high, m}) = IF high <= m THEN high ELSE m
  BY <1>1, SmallerOfTwo
<1> QED
  BY <1>1, <1>2, <1>3

\* r is at least as large as o and grows at least as fast.
Matches(r, o) == o.volume <= r.volume /\ o.growth <= r.growth

\* Such a topic scores no less.
LEMMA ScoresGrow ==
  ASSUME NEW o \in Observation, NEW r \in Observation, NEW most \in Nat,
         Matches(r, o)
  PROVE  /\ ScoreOf(o, most) \in Nat /\ ScoreOf(o, most) <= 10000
         /\ ScoreOf(r, most) \in Nat /\ ScoreOf(r, most) <= 10000
         /\ ScoreOf(o, most) <= ScoreOf(r, most)
<1> DEFINE P == 3 * GrowthParts
           least == 0
           top == 10000
           momentum(g) == Clamp(GrowthParts + g, least, P)
           u == momentum(o.growth)
           v == momentum(r.growth)
           raw(w, m) == IF most = 0 THEN Rounded(4000 * m, P)
                        ELSE Rounded(6000 * P * w + 4000 * m * most, P * most)
           x == raw(o.volume, u)
           y == raw(r.volume, v)
<1>1. GrowthParts \in Nat \ {0} /\ P \in Nat \ {0}
  BY PartsAssumption DEF PartsAssumption
<1>2. /\ o.volume \in Nat /\ r.volume \in Nat
      /\ o.growth \in Nat /\ r.growth \in Nat
  BY DEF Observation
<1>3. least \in Int /\ top \in Int /\ least <= top /\ least <= P
  BY <1>1
<1>4. u \in Nat /\ v \in Nat /\ u <= v
  <2>1. GrowthParts + o.growth \in Int /\ GrowthParts + r.growth \in Int
          /\ GrowthParts + o.growth <= GrowthParts + r.growth
    BY <1>1, <1>2 DEF Matches
  <2> DEFINE g == GrowthParts + o.growth
             h == GrowthParts + r.growth
  <2>2. u = Clamp(g, least, P) /\ v = Clamp(h, least, P)
    OBVIOUS
  <2> HIDE DEF g, h, u, v, momentum, least, P
  <2>3. u \in Int /\ v \in Int /\ least <= u /\ least <= v /\ u <= v
    <3>1. g \in Int /\ h \in Int /\ g <= h
      BY <2>1 DEF g, h
    <3> QED
      BY <1>1, <1>3, <2>2, <3>1, ClampIsBetween
  <2> QED
    BY <2>3 DEF least
<1>5. ScoreOf(o, most) = Clamp(x, least, top) /\ ScoreOf(r, most) = Clamp(y, least, top)
  BY DEF ScoreOf
<1> HIDE DEF u, v, P, momentum, least, top
<1>6. x \in Nat /\ y \in Nat /\ x <= y
  <2>1. CASE most = 0
    <3> DEFINE a == 4000 * u
               b == 4000 * v
    <3>1. a \in Nat /\ b \in Nat /\ a <= b
      BY <1>4
    <3>2. x = Rounded(a, P) /\ y = Rounded(b, P)
      BY <2>1
    <3> HIDE DEF a, b, x, y
    <3> QED
      BY <1>1, <3>1, <3>2, RoundedGrows, RoundedIsNatural
  <2>2. CASE most # 0
    <3> DEFINE a == 6000 * P * o.volume
               b == 6000 * P * r.volume
               c == 4000 * u * most
               d == 4000 * v * most
               e == P * most
    <3>1. a \in Nat /\ b \in Nat /\ a <= b
      <4>1. 6000 * P \in Nat
        BY <1>1
      <4> QED
        BY <1>2, <4>1, ProductsGrow DEF Matches
    <3>2. c \in Nat /\ d \in Nat /\ c <= d
      <4>1. c = (4000 * most) * u /\ d = (4000 * most) * v /\ 4000 * most \in Nat
        BY <1>4
      <4> HIDE DEF c, d
      <4> QED
        BY <1>4, <4>1, ProductsGrow
    <3>3. e \in Nat \ {0}
      BY <1>1, <2>2
    <3>4. x = Rounded(a + c, e) /\ y = Rounded(b + d, e)
      BY <2>2
    <3> HIDE DEF a, b, c, d, e, x, y
    <3>5. a + c \in Nat /\ b + d \in Nat /\ a + c <= b + d
      BY <3>1, <3>2
    <3> QED
      BY <3>3, <3>4, <3>5, RoundedGrows, RoundedIsNatural
  <2> QED
    BY <2>1, <2>2
<1> HIDE DEF x, y, raw
<1> DEFINE s == Clamp(x, least, top)
           z == Clamp(y, least, top)
<1>7. s \in Int /\ z \in Int /\ least <= s /\ least <= z /\ s <= top /\ z <= top /\ s <= z
  <2>1. x \in Int /\ y \in Int /\ x <= y
    BY <1>6
  <2> QED
    BY <1>3, <2>1, ClampIsBetween
<1>8. ScoreOf(o, most) = s /\ ScoreOf(r, most) = z
  BY <1>5
<1> HIDE DEF s, z
<1> QED
  BY <1>3, <1>7, <1>8 DEF least, top

LEMMA ValuesAreFinite ==
  ASSUME NEW S, IsFiniteSet(S), NEW f
  PROVE  IsFiniteSet({f[x] : x \in S})
<1> DEFINE T == {f[x] : x \in S}
           g == [x \in S |-> f[x]]
<1>1. g \in Surjection(S, T)
  BY DEF Surjection
<1> QED
  BY <1>1, FS_Surjection

\* The feed's largest volume is that of no topic less.
LEMMA LargestVolume ==
  ASSUME NEW obs \in Seq(Observation)
  PROVE  LET most == Max({0} \cup {o.volume : o \in ToSet(obs)})
         IN most \in Nat /\ \A k \in 1 .. Len(obs) : obs[k].volume <= most
<1> DEFINE D == 1 .. Len(obs)
           volumes == [k \in D |-> obs[k].volume]
           V == {volumes[k] : k \in D}
           all == {0} \cup V
<1>1. D = DOMAIN obs /\ \A k \in D : obs[k] \in Observation
  OBVIOUS
<1>2. \A k \in D : volumes[k] \in Nat
  BY <1>1 DEF Observation
<1>3. IsFiniteSet(all)
  <2>1. IsFiniteSet(D)
    BY FS_Interval
  <2>2. IsFiniteSet(V)
    <3> HIDE DEF D, volumes
    <3> QED
      BY <2>1, ValuesAreFinite
  <2>3. IsFiniteSet({0})
    BY FS_Singleton
  <2> HIDE DEF V
  <2> QED
    BY <2>2, <2>3, FS_Union
<1>4. {0} \cup {o.volume : o \in ToSet(obs)} = all
  BY <1>1 DEF ToSet
<1>5. all # {} /\ all \in SUBSET Nat
  BY <1>2
<1>6. all \in SUBSET Int
  <2> HIDE DEF all
  <2> QED
    BY <1>5
<1>7. \A k \in D : volumes[k] \in all /\ obs[k].volume = volumes[k]
  OBVIOUS
<1> HIDE DEF all, volumes
<1>8. Max(all) \in all /\ \A y \in all : Max(all) >= y
  BY <1>3, <1>5, <1>6, GreatestNumber
<1>9. Max(all) \in Nat
  BY <1>5, <1>8
<1>10. \A k \in D : obs[k].volume <= Max(all)
  BY <1>2, <1>7, <1>8, <1>9
<1> QED
  BY <1>4, <1>9, <1>10

\* Trends that are sorted by their scores are in the order of volume and growth
\* where these agree.
LEMMA RankedByScore ==
  ASSUME NEW obs \in Seq(Observation)
  PROVE  LET ranked == RankTrends(obs)
         IN \A j, k \in DOMAIN ranked :
              /\ 0 <= ranked[j].score /\ ranked[j].score <= 10000
              /\ j < k /\ ranked[k].volume >= ranked[j].volume /\ ranked[k].growth >= ranked[j].growth
                   => ranked[k].score = ranked[j].score /\ ranked[k].volume = ranked[j].volume
<1> DEFINE n == Len(obs)
           D == 1 .. n
           most == Max({0} \cup {o.volume : o \in ToSet(obs)})
           signals == SignalsOf(obs)
           scores == [k \in DOMAIN signals |-> signals[k].score]
           volumes == [k \in DOMAIN signals |-> signals[k].volume]
           ranked == RankTrends(obs)
<1>1. most \in Nat /\ D = DOMAIN obs /\ n \in Nat /\ \A k \in D : obs[k] \in Observation
  BY LargestVolume
<1>2. ranked = Sorted(signals, scores, volumes)
  BY DEF RankTrends
<1>3. /\ DOMAIN signals = D
      /\ \A k \in D : /\ signals[k].volume = obs[k].volume
                      /\ signals[k].growth = obs[k].growth
                      /\ signals[k].score = ScoreOf(obs[k], most)
  <2>1. signals = [k \in D |-> [topic |-> obs[k].topic, volume |-> obs[k].volume,
                                growth |-> obs[k].growth, score |-> ScoreOf(obs[k], most)]]
    BY <1>1 DEF SignalsOf, Each
  <2> HIDE DEF signals, most
  <2> QED
    BY <2>1
<1> HIDE DEF signals, most
<1>4. \A k \in D : ScoreOf(obs[k], most) \in Nat /\ ScoreOf(obs[k], most) <= 10000
  <2> SUFFICES ASSUME NEW k \in D
               PROVE  ScoreOf(obs[k], most) \in Nat /\ ScoreOf(obs[k], most) <= 10000
    OBVIOUS
  <2> DEFINE o == obs[k]
  <2>1. o \in Observation
    BY <1>1
  <2> HIDE DEF o
  <2>2. Matches(o, o)
    <3>1. o.volume \in Int /\ o.growth \in Int
      BY <2>1 DEF Observation
    <3> QED
      BY <3>1 DEF Matches
  <2>3. ScoreOf(o, most) \in Nat /\ ScoreOf(o, most) <= 10000
    BY <1>1, <2>1, <2>2, ScoresGrow
  <2> QED
    BY <2>3 DEF o
<1>5. scores \in [D -> Int] /\ volumes \in [D -> Int]
  <2>1. \A k \in D : obs[k].volume \in Int
    BY <1>1 DEF Observation
  <2>2. \A k \in D : signals[k].score \in Int /\ signals[k].volume \in Int
    BY <1>3, <1>4, <2>1
  <2>3. DOMAIN signals = D
    BY <1>3
  <2> HIDE DEF D
  <2> QED
    BY <2>2, <2>3
<1>6. \A k \in D : scores[k] = ScoreOf(obs[k], most) /\ volumes[k] = obs[k].volume
  BY <1>3
<1> HIDE DEF scores, volumes, ranked, n
<1>7. PICK p : Sorts(p, n, scores, volumes) /\ ranked = [m \in 1 .. n |-> signals[p[m]]]
  <2>1. n \in Nat /\ DOMAIN signals = 1 .. n /\ scores \in [1 .. n -> Int] /\ volumes \in [1 .. n -> Int]
    BY <1>1, <1>3, <1>5
  <2>2. InOrder(signals, n, scores, volumes, ranked)
    BY <1>2, <2>1, SortedIsInOrder
  <2> QED
    BY <2>2 DEF InOrder
<1>8. DOMAIN ranked = D /\ \A m \in D : p[m] \in D /\ ranked[m] = signals[p[m]]
  BY <1>7 DEF Sorts
<1>9. ASSUME NEW j \in D, NEW k \in D, j < k, ranked[k].volume >= ranked[j].volume,
             ranked[k].growth >= ranked[j].growth
      PROVE  ranked[k].score = ranked[j].score /\ ranked[k].volume = ranked[j].volume
  <2> DEFINE o == obs[p[j]]
             r == obs[p[k]]
  <2>1. /\ ranked[j].volume = o.volume /\ ranked[k].volume = r.volume
        /\ ranked[j].growth = o.growth /\ ranked[k].growth = r.growth
        /\ ranked[j].score = ScoreOf(o, most) /\ ranked[k].score = ScoreOf(r, most)
    BY <1>3, <1>8
  <2>2. o \in Observation /\ r \in Observation
    BY <1>1, <1>8
  <2>3. Ahead(scores, volumes, p[j], p[k])
    BY <1>7, <1>9 DEF Sorts
  <2>4. \/ ScoreOf(o, most) > ScoreOf(r, most)
        \/ ScoreOf(o, most) = ScoreOf(r, most) /\ o.volume >= r.volume
    <3>1. /\ scores[p[j]] = ScoreOf(o, most) /\ scores[p[k]] = ScoreOf(r, most)
          /\ volumes[p[j]] = o.volume /\ volumes[p[k]] = r.volume
      BY <1>6, <1>8
    <3>2. o.volume \in Nat /\ r.volume \in Nat
      BY <2>2 DEF Observation
    <3> HIDE DEF o, r
    <3> QED
      BY <2>3, <3>1, <3>2 DEF Ahead
  <2> HIDE DEF o, r
  <2>5. Matches(r, o)
    BY <1>9, <2>1, <2>2 DEF Observation, Matches
  <2>6. /\ ScoreOf(o, most) \in Nat /\ ScoreOf(r, most) \in Nat
        /\ ScoreOf(o, most) <= ScoreOf(r, most)
    <3>1. most \in Nat
      BY <1>1
    <3>2. ScoreOf(o, most) <= ScoreOf(r, most)
      BY <2>2, <2>5, <3>1, ScoresGrow
    <3>3. ScoreOf(o, most) \in Nat /\ ScoreOf(r, most) \in Nat
      BY <1>4, <1>8 DEF o, r
    <3> QED
      BY <3>2, <3>3
  <2>7. ScoreOf(o, most) = ScoreOf(r, most) /\ o.volume = r.volume
    <3>1. o.volume \in Nat /\ r.volume \in Nat
      BY <2>2 DEF Observation
    <3> QED
      BY <2>4, <2>5, <2>6, <3>1 DEF Matches
  <2> QED
    BY <2>1, <2>7
<1>10. \A j \in D : 0 <= ranked[j].score /\ ranked[j].score <= 10000
  <2> SUFFICES ASSUME NEW j \in D PROVE 0 <= ranked[j].score /\ ranked[j].score <= 10000
    OBVIOUS
  <2> DEFINE s == ScoreOf(obs[p[j]], most)
  <2>1. ranked[j].score = s /\ s \in Nat /\ s <= 10000
    BY <1>3, <1>4, <1>8
  <2> HIDE DEF s
  <2> QED
    BY <2>1
<1>11. \A j, k \in D :
         j < k /\ ranked[k].volume >= ranked[j].volume /\ ranked[k].growth >= ranked[j].growth
           => ranked[k].score = ranked[j].score /\ ranked[k].volume = ranked[j].volume
  BY <1>9
<1> HIDE DEF D
<1> QED
  BY <1>8, <1>10, <1>11 DEF ranked

----------------------------------------------------------------------------
(* Rates of rivals.                                                         *)

LEMMA QuotientsOfNaturals ==
  ASSUME NEW a \in Nat, NEW b \in Nat \ {0}
  PROVE  a \div b \in Nat
<1> DEFINE q == a \div b
<1>1. q \in Int /\ a < b * q + b
  BY Quotients
<1> HIDE DEF q
<1> SUFFICES ASSUME q <= -1 PROVE FALSE
  BY <1>1 DEF q
<1>2. b * q <= -b
  BY <1>1
<1> QED
  BY <1>1, <1>2

LEMMA LessByFactor ==
  ASSUME NEW n \in Nat \ {0}, NEW a \in Int, NEW b \in Int
  PROVE  (n * a < n * b => a < b) /\ (n * a <= n * b => a <= b)
<1>1. a >= b => n * a >= n * b
  OBVIOUS
<1>2. a > b => n * a > n * b
  OBVIOUS
<1> QED
  BY <1>1, <1>2

MeanRate(sum, n) == Rounded(10000 * sum, RateParts * n)

\* n rates have a sum of at least x parts each, m rates one of at most y each.
Apart(s, n, t, m, x, y) == s >= n * x /\ t <= m * y

\* A mean of at least x parts is shown as no less than one of at most y, if y is no
\* more, and as more, if it is less by a ten-thousandth.
LEMMA MeansDiffer ==
  ASSUME NEW n \in Nat \ {0}, NEW m \in Nat \ {0}, NEW x \in Nat, NEW y \in Nat,
         NEW s \in Nat, NEW t \in Nat, Apart(s, n, t, m, x, y)
  PROVE  /\ MeanRate(s, n) \in Nat /\ MeanRate(t, m) \in Nat
         /\ x >= y => MeanRate(s, n) >= MeanRate(t, m)
         /\ 10000 * x >= 10000 * y + RateParts => MeanRate(s, n) > MeanRate(t, m)
<1> DEFINE R == RateParts
           c == 10000 * s
           d == 10000 * t
           e == R * n
           f == R * m
           p == Rounded(c, e)
           q == Rounded(d, f)
<1>1. R \in Nat \ {0}
  BY PartsAssumption DEF PartsAssumption
<1> HIDE DEF R
<1>2. c \in Nat /\ d \in Nat /\ e \in Nat \ {0} /\ f \in Nat \ {0}
  BY <1>1
<1>3. s >= n * x /\ t <= m * y
  BY DEF Apart
<1>4. /\ p \in Nat /\ 2 * c + e < (2 * e) * p + 2 * e
      /\ q \in Nat /\ (2 * f) * q <= 2 * d + f
  <2> HIDE DEF c, d, e, f
  <2>1. 2 * c + e \in Int /\ 2 * e \in Nat \ {0} /\ 2 * d + f \in Int /\ 2 * f \in Nat \ {0}
    BY <1>2
  <2>2. 2 * c + e < (2 * e) * p + 2 * e
    BY <2>1, Quotients DEF Rounded
  <2>3. (2 * f) * q <= 2 * d + f
    BY <2>1, Quotients DEF Rounded
  <2>4. p \in Nat /\ q \in Nat
    BY <1>2, RoundedIsNatural
  <2> HIDE DEF p, q
  <2> QED
    BY <2>2, <2>3, <2>4
<1> HIDE DEF p, q
<1>5. 20000 * x + R < 2 * (R * (p + 1))
  <2>1. n * (20000 * x + R) <= 2 * c + e
    <3>1. n * (20000 * x + R) = 20000 * (n * x) + R * n
      BY <1>1
    <3> DEFINE u == n * x
    <3>2. u \in Int /\ s >= u
      BY <1>3
    <3> HIDE DEF u
    <3>3. 20000 * u <= 2 * c
      BY <3>2
    <3> QED
      BY <1>2, <3>1, <3>2, <3>3 DEF u
  <2>2. (2 * e) * p + 2 * e = n * (2 * (R * (p + 1)))
    <3>1. (2 * (R * n)) * p + 2 * (R * n) = n * (2 * (R * (p + 1)))
      BY <1>1, <1>4
    <3> QED
      BY <3>1
  <2>3. n * (20000 * x + R) < n * (2 * (R * (p + 1)))
    <3> DEFINE a == n * (20000 * x + R)
               b == n * (2 * (R * (p + 1)))
               g == (2 * e) * p + 2 * e
    <3>1. a \in Int /\ g \in Int /\ 2 * c + e \in Int
      BY <1>1, <1>2, <1>4
    <3>2. a <= 2 * c + e /\ 2 * c + e < g /\ g = b
      BY <1>4, <2>1, <2>2
    <3> HIDE DEF a, b, c, e, g
    <3>3. a < b
      BY <3>1, <3>2
    <3> QED
      BY <3>3 DEF a, b
  <2>4. 20000 * x + R \in Int /\ 2 * (R * (p + 1)) \in Int
    BY <1>1, <1>4
  <2> DEFINE v == 20000 * x + R
             z == 2 * (R * (p + 1))
  <2> HIDE DEF v, z
  <2>5. v < z
    <3>1. v \in Int /\ z \in Int /\ n * v < n * z
      BY <2>3, <2>4 DEF v, z
    <3> QED
      BY <3>1, LessByFactor
  <2> QED
    BY <2>5 DEF v, z
<1>6. 2 * (R * q) <= 20000 * y + R
  <2>1. 2 * d + f <= m * (20000 * y + R)
    <3>1. m * (20000 * y + R) = 20000 * (m * y) + R * m
      BY <1>1
    <3> DEFINE u == m * y
    <3>2. u \in Int /\ t <= u
      BY <1>3
    <3> HIDE DEF u
    <3>3. 2 * d <= 20000 * u
      BY <3>2
    <3> QED
      BY <1>2, <3>1, <3>2, <3>3 DEF u
  <2>2. (2 * f) * q = m * (2 * (R * q))
    BY <1>1, <1>4
  <2>3. m * (2 * (R * q)) <= m * (20000 * y + R)
    <3> DEFINE a == m * (2 * (R * q))
               b == m * (20000 * y + R)
    <3>1. a \in Int /\ b \in Int /\ 2 * d + f \in Int
      BY <1>1, <1>2, <1>4
    <3>2. a <= 2 * d + f /\ 2 * d + f <= b
      BY <1>4, <2>1, <2>2
    <3> HIDE DEF a, b, d, f
    <3>3. a <= b
      BY <3>1, <3>2
    <3> QED
      BY <3>3 DEF a, b
  <2>4. 20000 * y + R \in Int /\ 2 * (R * q) \in Int
    BY <1>1, <1>4
  <2> DEFINE v == 2 * (R * q)
             z == 20000 * y + R
  <2> HIDE DEF v, z
  <2>5. v <= z
    <3>1. v \in Int /\ z \in Int /\ m * v <= m * z
      BY <2>3, <2>4 DEF v, z
    <3> QED
      BY <3>1, LessByFactor
  <2> QED
    BY <2>5 DEF v, z
<1>7. /\ R * (p + 1) = R * p + R /\ R * p \in Int /\ R * q \in Int
      /\ \A a, b \in Nat : a <= b => R * a <= R * b
  BY <1>1, <1>4
<1>8. ASSUME x >= y PROVE p >= q
  <2> SUFFICES ASSUME p + 1 <= q PROVE FALSE
    BY <1>4
  <2>1. R * (p + 1) <= R * q
    BY <1>4, <1>7
  <2> DEFINE u == R * (p + 1)
             v == R * q
  <2>2. /\ u <= v /\ u \in Int /\ v \in Int
        /\ 20000 * x + R < 2 * u /\ 2 * v <= 20000 * y + R
    BY <1>1, <1>4, <1>5, <1>6, <2>1
  <2> HIDE DEF u, v
  <2> QED
    BY <1>1, <1>8, <2>2
<1>9. ASSUME 10000 * x >= 10000 * y + R PROVE p > q
  <2> SUFFICES ASSUME p <= q PROVE FALSE
    BY <1>4
  <2>1. R * p <= R * q
    BY <1>4, <1>7
  <2> DEFINE u == R * p
             v == R * q
             w == R * (p + 1)
  <2>2. /\ u <= v /\ w = u + R /\ u \in Int /\ v \in Int /\ w \in Int
        /\ 20000 * x + R < 2 * w /\ 2 * v <= 20000 * y + R
    BY <1>1, <1>4, <1>5, <1>6, <1>7, <2>1
  <2> HIDE DEF u, v, w
  <2> QED
    BY <1>1, <1>9, <2>2
<1> QED
  BY <1>4, <1>8, <1>9 DEF p, q, c, d, e, f, R, MeanRate

LEMMA RatesAreNaturals ==
  ASSUME NEW post \in RivalPost
  PROVE  RateOf(post) \in Nat
<1> DEFINE a == RateParts * post.reactions
           b == IF post.views > 1 THEN post.views ELSE 1
<1>1. post.reactions \in Nat /\ post.views \in Nat /\ RateParts \in Nat
  BY PartsAssumption DEF PartsAssumption, RivalPost
<1>2. a \in Nat /\ b \in Nat \ {0}
  BY <1>1
<1>3. RateOf(post) = a \div b
  BY DEF RateOf
<1> HIDE DEF a, b
<1> QED
  BY <1>2, <1>3, QuotientsOfNaturals

LEMMA WiderMargins ==
  ASSUME NEW a \in Seq(RivalPost), NEW b \in Seq(RivalPost), NEW margin \in Nat \ {0},
         Outdoes(a, b, margin)
  PROVE  Outdoes(a, b, 1)
<1>1. ASSUME NEW p \in ToSet(a), NEW q \in ToSet(b)
      PROVE  10000 * RateOf(p) >= 10000 * RateOf(q) + 1
  <2>1. p \in RivalPost /\ q \in RivalPost
    BY DEF ToSet
  <2>2. RateOf(p) \in Nat /\ RateOf(q) \in Nat
    BY <2>1, RatesAreNaturals
  <2>3. 10000 * RateOf(p) >= 10000 * RateOf(q) + margin
    BY DEF Outdoes
  <2> QED
    BY <2>2, <2>3
<1> QED
  BY <1>1 DEF Outdoes

\* A channel that outdoes another shows no lower a rate, and a higher one if it does
\* by a ten-thousandth.
LEMMA BetterRates ==
  ASSUME NEW a \in Seq(RivalPost), NEW b \in Seq(RivalPost), Outdoes(a, b, 1)
  PROVE  /\ EngagementRate(a) >= EngagementRate(b)
         /\ Outdoes(a, b, RateParts) => EngagementRate(a) > EngagementRate(b)
<1> DEFINE n == Len(a)
           m == Len(b)
           f == [k \in 1 .. n |-> RateOf(a[k])]
           g == [k \in 1 .. m |-> RateOf(b[k])]
           T == {f[k] : k \in 1 .. n}
           s == SumFunction(f)
           t == SumFunction(g)
<1>0. a # <<>> /\ b # <<>>
  BY DEF Outdoes
<1>1. /\ n \in Nat \ {0} /\ m \in Nat \ {0} /\ DOMAIN a = 1 .. n /\ DOMAIN b = 1 .. m
      /\ 1 \in 1 .. n /\ 1 \in 1 .. m
  BY <1>0
<1>2. (\A k \in 1 .. n : f[k] \in Nat) /\ (\A k \in 1 .. m : g[k] \in Nat)
  BY <1>1, RatesAreNaturals
<1>3. EngagementRate(a) = MeanRate(s, n) /\ EngagementRate(b) = MeanRate(t, m)
  BY <1>0, <1>1 DEF EngagementRate, Each, MeanRate
<1>4. /\ \A j \in 1 .. n, k \in 1 .. m : 10000 * f[j] >= 10000 * g[k] + 1
      /\ Outdoes(a, b, RateParts) =>
           \A j \in 1 .. n, k \in 1 .. m : 10000 * f[j] >= 10000 * g[k] + RateParts
  <2>1. (\A j \in 1 .. n : a[j] \in ToSet(a)) /\ (\A k \in 1 .. m : b[k] \in ToSet(b))
    BY <1>1 DEF ToSet
  <2> QED
    BY <2>1 DEF Outdoes
<1>5. DOMAIN f = 1 .. n /\ DOMAIN g = 1 .. m
  OBVIOUS
<1> HIDE DEF n, m, f, g
<1>6. PICK x \in T : \A y \in T : x <= y
  <2>1. T \subseteq Nat /\ T # {}
    BY <1>1, <1>2
  <2> HIDE DEF T
  <2> QED
    BY <2>1, LeastNumber
<1>7. PICK j \in 1 .. n : x = f[j]
  BY <1>6
<1>8. x \in Nat
  BY <1>2, <1>7
<1>9. \A k \in 1 .. n : f[k] >= x
  BY <1>2, <1>6, <1>8
<1> DEFINE U == {x - g[k] : k \in 1 .. m}
<1>10. \A k \in 1 .. m : x - g[k] \in Nat
  <2> SUFFICES ASSUME NEW k \in 1 .. m PROVE x - g[k] \in Nat
    OBVIOUS
  <2>1. 10000 * x >= 10000 * g[k] + 1 /\ g[k] \in Nat
    BY <1>2, <1>4, <1>7
  <2> QED
    BY <1>8, <2>1
<1>11. PICK gap \in U : \A z \in U : gap <= z
  <2>1. U \subseteq Nat /\ U # {}
    BY <1>1, <1>10
  <2> HIDE DEF U
  <2> QED
    BY <2>1, LeastNumber
<1>12. PICK last \in 1 .. m : gap = x - g[last]
  BY <1>11
<1> DEFINE y == g[last]
<1>13. y \in Nat
  BY <1>2
<1>14. \A k \in 1 .. m : g[k] <= y
  <2> SUFFICES ASSUME NEW k \in 1 .. m PROVE g[k] <= y
    OBVIOUS
  <2>1. x - g[last] <= x - g[k] /\ g[k] \in Nat
    BY <1>2, <1>11, <1>12
  <2> QED
    BY <1>8, <1>13, <2>1
<1>15. /\ x >= y
       /\ Outdoes(a, b, RateParts) => 10000 * x >= 10000 * y + RateParts
  <2>1. x >= y
    BY <1>8, <1>10, <1>12, <1>13
  <2>2. Outdoes(a, b, RateParts) => 10000 * x >= 10000 * y + RateParts
    BY <1>4, <1>7, <1>12
  <2> QED
    BY <2>1, <2>2
<1> HIDE DEF U, y
<1>16. s \in Int /\ s >= n * x
  <2>1. n \in Nat /\ \A k \in 1 .. n : f[k] \in Int
    BY <1>1, <1>2
  <2> QED
    BY <1>5, <1>8, <1>9, <2>1, TotalsAreBounded
<1>17. t \in Int /\ t <= m * y
  <2>1. m \in Nat /\ y \in Int /\ \A k \in 1 .. m : g[k] \in Int
    BY <1>1, <1>2, <1>13
  <2> QED
    BY <1>5, <1>14, <2>1, TotalsAreBounded
<1>18. s >= 0 /\ t >= 0
  <2> DEFINE least == 0
  <2>1. n \in Nat /\ m \in Nat /\ least \in Int
    BY <1>1
  <2>2. \A k \in 1 .. n : f[k] \in Int /\ f[k] >= least
    BY <1>2
  <2>3. \A k \in 1 .. m : g[k] \in Int /\ g[k] >= least
    BY <1>2
  <2>4. n * least = 0 /\ m * least = 0
    BY <1>1
  <2> HIDE DEF least
  <2>5. s >= n * least
    BY <1>5, <2>1, <2>2, TotalsAreBounded
  <2>6. t >= m * least
    BY <1>5, <2>1, <2>3, TotalsAreBounded
  <2> HIDE DEF s, t
  <2> QED
    BY <2>4, <2>5, <2>6
<1> HIDE DEF s, t
<1>19. s \in Nat /\ t \in Nat
  BY <1>16, <1>17, <1>18
<1>20. Apart(s, n, t, m, x, y)
  BY <1>16, <1>17 DEF Apart
<1>21. /\ MeanRate(s, n) >= MeanRate(t, m)
       /\ Outdoes(a, b, RateParts) => MeanRate(s, n) > MeanRate(t, m)
  BY <1>1, <1>8, <1>19, <1>20, <1>13, <1>15, MeansDiffer
<1> QED
  BY <1>3, <1>21

LEMMA AllRatesAreNumbers ==
  ASSUME NEW posts \in Seq(RivalPost)
  PROVE  EngagementRate(posts) \in Int /\ AvgViews(posts) \in Int
<1>1. CASE posts = <<>>
  BY <1>1 DEF EngagementRate, AvgViews
<1>2. CASE posts # <<>>
  <2> DEFINE n == Len(posts)
             f == [k \in 1 .. n |-> RateOf(posts[k])]
             g == [k \in 1 .. n |-> posts[k].views]
             s == SumFunction(f)
             t == SumFunction(g)
  <2>1. n \in Nat \ {0} /\ DOMAIN posts = 1 .. n
    BY <1>2
  <2>2. (\A k \in 1 .. n : f[k] \in Int) /\ (\A k \in 1 .. n : g[k] \in Int)
    <3>1. \A k \in 1 .. n : posts[k] \in RivalPost
      OBVIOUS
    <3>2. \A k \in 1 .. n : posts[k].views \in Int
      BY <3>1 DEF RivalPost
    <3> QED
      BY <3>1, <3>2, RatesAreNaturals
  <2>3. EngagementRate(posts) = Rounded(10000 * s, RateParts * n) /\ AvgViews(posts) = Rounded(t, n)
    BY <1>2, <2>1 DEF EngagementRate, AvgViews, Each
  <2>4. DOMAIN f = 1 .. n /\ DOMAIN g = 1 .. n
    OBVIOUS
  <2> HIDE DEF f, g, n
  <2>5. s \in Int /\ t \in Int
    <3>1. n \in Nat /\ 0 \in Int
      BY <2>1
    <3> QED
      BY <2>2, <2>4, <3>1, TotalsAreBounded
  <2>6. RateParts \in Nat \ {0}
    BY PartsAssumption DEF PartsAssumption
  <2> HIDE DEF s, t
  <2> DEFINE c == 10000 * s
             d == RateParts * n
  <2>7. c \in Int /\ d \in Nat \ {0}
    BY <2>1, <2>5, <2>6
  <2> HIDE DEF c, d
  <2>8. Rounded(c, d) \in Int /\ Rounded(t, n) \in Int
    <3>1. 2 * c + d \in Int /\ 2 * d \in Nat \ {0} /\ 2 * t + n \in Int /\ 2 * n \in Nat \ {0}
      BY <2>1, <2>5, <2>7
    <3>2. (2 * c + d) \div (2 * d) \in Int
      BY <3>1, Quotients
    <3>3. (2 * t + n) \div (2 * n) \in Int
      BY <3>1, Quotients
    <3> QED
      BY <3>2, <3>3 DEF Rounded
  <2> QED
    BY <2>3, <2>8 DEF c, d
<1> QED
  BY <1>1, <1>2

\* Channels that are sorted by their rates have the better before the worse.
LEMMA RankedByRate ==
  ASSUME NEW rivals \in Seq(Seq(RivalPost)), NEW j \in DOMAIN rivals, NEW k \in DOMAIN rivals,
         Outdoes(rivals[j], rivals[k], 1)
  PROVE  LET ranked == RankByEngagement(MetricsOf(rivals))
         IN \/ \E m, n \in DOMAIN ranked : m < n /\ ranked[m].name = j /\ ranked[n].name = k
            \/ /\ EngagementRate(rivals[j]) = EngagementRate(rivals[k])
               /\ AvgViews(rivals[k]) >= AvgViews(rivals[j])
               /\ ~Outdoes(rivals[j], rivals[k], RateParts)
<1> DEFINE N == Len(rivals)
           D == 1 .. N
           metrics == MetricsOf(rivals)
           rates == [h \in DOMAIN metrics |-> metrics[h].rate]
           views == [h \in DOMAIN metrics |-> metrics[h].views]
           ranked == RankByEngagement(metrics)
<1>1. N \in Nat /\ D = DOMAIN rivals /\ \A h \in D : rivals[h] \in Seq(RivalPost)
  OBVIOUS
<1>2. /\ DOMAIN metrics = D
      /\ \A h \in D : /\ metrics[h].name = h
                      /\ metrics[h].rate = EngagementRate(rivals[h])
                      /\ metrics[h].views = AvgViews(rivals[h])
  BY <1>1 DEF ComputeMetrics, MetricsOf
<1>3. ranked = Sorted(metrics, rates, views)
  BY DEF RankByEngagement
<1> HIDE DEF metrics, ranked
<1>4. \A h \in D : metrics[h].rate \in Int /\ metrics[h].views \in Int
  <2>1. \A h \in D : EngagementRate(rivals[h]) \in Int /\ AvgViews(rivals[h]) \in Int
    BY <1>1, AllRatesAreNumbers
  <2> QED
    BY <1>2, <2>1
<1>5. rates \in [D -> Int] /\ views \in [D -> Int]
  <2>1. DOMAIN metrics = D
    BY <1>2
  <2> HIDE DEF D
  <2> QED
    BY <1>4, <2>1
<1>6. \A h \in D : rates[h] = EngagementRate(rivals[h]) /\ views[h] = AvgViews(rivals[h])
  BY <1>2
<1> HIDE DEF rates, views, N
<1>7. PICK p : Sorts(p, N, rates, views) /\ ranked = [m \in 1 .. N |-> metrics[p[m]]]
  <2>1. N \in Nat /\ DOMAIN metrics = 1 .. N /\ rates \in [1 .. N -> Int] /\ views \in [1 .. N -> Int]
    BY <1>1, <1>2, <1>5
  <2>2. InOrder(metrics, N, rates, views, ranked)
    BY <1>3, <2>1, SortedIsInOrder
  <2> QED
    BY <2>2 DEF InOrder
<1>8. DOMAIN ranked = D /\ \A m \in D : p[m] \in D /\ ranked[m].name = p[m]
  BY <1>2, <1>7 DEF Sorts
<1>9. j \in D /\ k \in D /\ rivals[j] \in Seq(RivalPost) /\ rivals[k] \in Seq(RivalPost)
  BY <1>1
<1>10. /\ rates[j] >= rates[k]
       /\ Outdoes(rivals[j], rivals[k], RateParts) => rates[j] > rates[k]
  BY <1>6, <1>9, BetterRates
<1>11. rates[j] \in Int /\ rates[k] \in Int /\ views[j] \in Int /\ views[k] \in Int
  BY <1>5, <1>9
<1>12. CASE rates[j] > rates[k] \/ views[j] > views[k]
  <2>1. PICK m \in D : p[m] = j
    BY <1>7, <1>9 DEF Sorts
  <2>2. PICK n \in D : p[n] = k
    BY <1>7, <1>9 DEF Sorts
  <2>3. ~Ahead(rates, views, k, j) /\ j # k
    BY <1>10, <1>11, <1>12 DEF Ahead
  <2>4. m < n
    <3>1. m # n
      BY <2>1, <2>2, <2>3
    <3>2. ~(n < m)
      BY <1>7, <2>1, <2>2, <2>3 DEF Sorts
    <3>3. m \in Int /\ n \in Int
      OBVIOUS
    <3> QED
      BY <3>1, <3>2, <3>3
  <2>5. ranked[m].name = j /\ ranked[n].name = k /\ DOMAIN ranked = D
    BY <1>8, <2>1, <2>2
  <2> QED
    BY <2>4, <2>5 DEF ranked, metrics
<1>13. CASE ~(rates[j] > rates[k] \/ views[j] > views[k])
  <2>1. rates[j] = rates[k] /\ views[k] >= views[j]
    BY <1>10, <1>11, <1>13
  <2> QED
    BY <1>6, <1>9, <1>10, <1>13, <2>1
<1> QED
  BY <1>12, <1>13

----------------------------------------------------------------------------
(* A client's posts.                                                        *)

LEMMA ScoresOfPosts ==
  ASSUME NEW p \in ClientPost
  PROVE  EngagementScore(p) \in Int
BY DEF EngagementScore, ClientPost

LEMMA RankedIsFalling ==
  ASSUME NEW posts \in Seq(ClientPost)
  PROVE  /\ Ranked(posts) \in Seq(ClientPost) /\ Len(Ranked(posts)) = Len(posts)
         /\ ToSet(Ranked(posts)) = ToSet(posts)
         /\ \A i, j \in 1 .. Len(posts) :
              i < j => EngagementScore(Ranked(posts)[i]) >= EngagementScore(Ranked(posts)[j])
<1> DEFINE n == Len(posts)
           D == 1 .. n
           scores == [k \in DOMAIN posts |-> EngagementScore(posts[k])]
           ranked == Ranked(posts)
<1>1. n \in Nat /\ D = DOMAIN posts /\ \A k \in D : posts[k] \in ClientPost
  OBVIOUS
<1>2. \A k \in D : EngagementScore(posts[k]) \in Int
  BY <1>1, ScoresOfPosts
<1>3. /\ scores \in [D -> Int]
      /\ \A k \in D : scores[k] = EngagementScore(posts[k])
  BY <1>1, <1>2
<1>4. ranked = Sorted(posts, scores, scores)
  BY DEF Ranked
<1> HIDE DEF scores, ranked, n
<1>5. PICK p : Sorts(p, n, scores, scores) /\ ranked = [m \in 1 .. n |-> posts[p[m]]]
  <2>1. n \in Nat /\ DOMAIN posts = 1 .. n /\ scores \in [1 .. n -> Int]
    BY <1>1, <1>3
  <2>2. InOrder(posts, n, scores, scores, ranked)
    BY <1>4, <2>1, SortedIsInOrder
  <2> QED
    BY <2>2 DEF InOrder
<1>6. /\ \A m \in D : p[m] \in D /\ ranked[m] = posts[p[m]]
      /\ \A k \in D : \E m \in D : p[m] = k
  BY <1>5 DEF Sorts
<1>7. ranked \in Seq(ClientPost) /\ Len(ranked) = n /\ DOMAIN ranked = D
  <2>1. \A m \in 1 .. n : posts[p[m]] \in ClientPost
    BY <1>1, <1>6
  <2>2. ranked \in [1 .. n -> ClientPost]
    BY <1>5, <2>1
  <2> QED
    BY <1>1, <2>2
<1>8. ToSet(ranked) = ToSet(posts)
  <2>1. ToSet(ranked) = {ranked[m] : m \in D} /\ ToSet(posts) = {posts[m] : m \in D}
    BY <1>1, <1>7 DEF ToSet
  <2> HIDE DEF D
  <2> QED
    BY <1>6, <2>1
<1>9. ASSUME NEW i \in D, NEW j \in D, i < j
      PROVE  EngagementScore(ranked[i]) >= EngagementScore(ranked[j])
  <2>1. Ahead(scores, scores, p[i], p[j])
    BY <1>5, <1>9 DEF Sorts
  <2>2. /\ scores[p[i]] = EngagementScore(ranked[i]) /\ scores[p[i]] \in Int
        /\ scores[p[j]] = EngagementScore(ranked[j]) /\ scores[p[j]] \in Int
    BY <1>3, <1>6
  <2> QED
    BY <2>1, <2>2 DEF Ahead
<1> QED
  BY <1>7, <1>8, <1>9 DEF n, ranked

\* f[k] is what is named after k posts.
NamesOf(f, ranked) ==
  /\ f \in [0 .. Len(ranked) -> Seq(Name \cup {NoName})]
  /\ f[0] = <<>>
  /\ \A k \in 1 .. Len(ranked) : f[k] = WithText(f[k - 1], ranked[k])

LEMMA TopDistinctRuns ==
  ASSUME NEW ranked \in Seq(ClientPost)
  PROVE  \E f : NamesOf(f, ranked) /\ TopDistinct(ranked) = f[Len(ranked)]
<1> DEFINE n == Len(ranked)
           S == Seq(Name \cup {NoName})
           next == [k \in 1 .. n |-> [texts \in S |-> WithText(texts, ranked[k])]]
           Is(out) == out = [k \in 0 .. n |-> IF k = 0 THEN <<>> ELSE WithText(out[k - 1], ranked[k])]
<1>1. n \in Nat /\ <<>> \in S
  OBVIOUS
<1>2. next \in [1 .. n -> [S -> S]]
  <2>1. \A k \in 1 .. n : \A texts \in S : WithText(texts, ranked[k]) \in S
    <3> SUFFICES ASSUME NEW k \in 1 .. n, NEW texts \in S PROVE WithText(texts, ranked[k]) \in S
      OBVIOUS
    <3>1. ranked[k] \in ClientPost
      OBVIOUS
    <3>2. ranked[k].text \in Name \cup {NoName}
      BY <3>1 DEF ClientPost
    <3> QED
      BY <3>2 DEF WithText
  <2> HIDE DEF S
  <2> QED
    BY <2>1
<1> HIDE DEF S
<1>3. PICK f : Runs(f, n, S, <<>>, next)
  <2> HIDE DEF next, n
  <2> QED
    BY <1>1, <1>2, LoopsRun
<1>4. f[0] = <<>> /\ \A k \in 1 .. n : f[k] = WithText(f[k - 1], ranked[k])
  <2>1. \A k \in 1 .. n : k - 1 \in 0 .. n
    BY <1>1
  <2>2. \A k \in 1 .. n : f[k - 1] \in S
    BY <1>3, <2>1 DEF Runs
  <2> HIDE DEF n
  <2>3. \A k \in 1 .. n : next[k][f[k - 1]] = WithText(f[k - 1], ranked[k])
    BY <2>2
  <2> HIDE DEF next
  <2> QED
    BY <1>3, <2>3 DEF Runs
<1>5. Is(f)
  <2>1. f = [k \in 0 .. n |-> f[k]]
    BY <1>3 DEF Runs
  <2>2. \A k \in 0 .. n : f[k] = IF k = 0 THEN <<>> ELSE WithText(f[k - 1], ranked[k])
    BY <1>1, <1>4
  <2> HIDE DEF n
  <2> QED
    BY <2>1, <2>2
<1>6. ASSUME NEW g, Is(g)
      PROVE  g[n] = f[n]
  <2> DEFINE T == {k \in 0 .. n : g[k] = f[k]}
  <2>1. 0 \in T
    BY <1>1, <1>4, <1>6
  <2>2. ASSUME NEW k \in 1 .. n, k - 1 \in T
        PROVE  k \in T
    BY <1>1, <1>4, <1>6, <2>2
  <2>3. 0 .. n \subseteq T
    <3> HIDE DEF T, n
    <3> QED
      BY <1>1, <2>1, <2>2, UpTo
  <2> QED
    BY <1>1, <2>3
<1>7. TopDistinct(ranked) = (CHOOSE out : Is(out))[n]
  BY DEF TopDistinct
<1> DEFINE g == CHOOSE out : Is(out)
<1>8. Is(g)
  <2> HIDE DEF Is
  <2> QED
    BY <1>5
<1>9. g[n] = f[n]
  <2> HIDE DEF Is, g
  <2> QED
    BY <1>6, <1>8
<1>10. TopDistinct(ranked) = f[n]
  BY <1>7, <1>9
<1> QED
  BY <1>3, <1>4, <1>10 DEF NamesOf, Runs, S

\* The texts of the first k posts are among those that are named.
Named(texts, ranked, k) == \A h \in 1 .. k : ranked[h].text \in ToSet(texts) \cup {NoName}

\* What is named after k posts: those that are named are the first that were met, and
\* one that was met is left out only where there are as many as there may be.
FirstAreNamed(texts, ranked, k) ==
  /\ texts \in Seq(Name \cup {NoName})
  /\ IsInjective(texts)
  /\ NoName \notin ToSet(texts)
  /\ Len(texts) <= TopN
  /\ \A t \in ToSet(texts) : \E i \in 1 .. k : ranked[i].text = t /\ Named(texts, ranked, i)
  /\ Len(texts) < TopN => Named(texts, ranked, k)

LEMMA NamingGoesOn ==
  ASSUME NEW texts, NEW ranked, NEW k \in Nat \ {0}, FirstAreNamed(texts, ranked, k - 1),
         ranked[k].text \in Name \cup {NoName}
  PROVE  FirstAreNamed(WithText(texts, ranked[k]), ranked, k)
<1> DEFINE x == ranked[k].text
           new == WithText(texts, ranked[k])
<1>1. /\ texts \in Seq(Name \cup {NoName})
      /\ IsInjective(texts) /\ NoName \notin ToSet(texts) /\ Len(texts) <= TopN
  BY DEF FirstAreNamed
<1>2. \A t \in ToSet(texts) : \E i \in 1 .. k - 1 : ranked[i].text = t /\ Named(texts, ranked, i)
  BY DEF FirstAreNamed
<1>3. Len(texts) < TopN => Named(texts, ranked, k - 1)
  BY DEF FirstAreNamed
<1>4. TopN \in Nat
  BY PartsAssumption DEF PartsAssumption
<1>5. (\A i \in 1 .. k - 1 : i \in 1 .. k) /\ (\A i \in 1 .. k : i = k \/ i \in 1 .. k - 1) /\ k \in 1 .. k
  OBVIOUS
<1>6. CASE x = NoName \/ x \in ToSet(texts) \/ Len(texts) >= TopN
  <2>1. new = texts
    BY <1>6 DEF WithText
  <2>2. \A t \in ToSet(texts) : \E i \in 1 .. k : ranked[i].text = t /\ Named(texts, ranked, i)
    BY <1>2, <1>5
  <2>3. Len(texts) < TopN => Named(texts, ranked, k)
    <3>1. CASE Len(texts) < TopN
      <4>1. ~(Len(texts) >= TopN)
        BY <1>1, <1>4, <3>1
      <4> QED
        BY <1>3, <1>5, <1>6, <3>1, <4>1 DEF Named
    <3> QED
      BY <3>1
  <2>4. FirstAreNamed(texts, ranked, k)
    BY <1>1, <2>2, <2>3 DEF FirstAreNamed
  <2> QED
    BY <2>1, <2>4
<1>7. CASE x # NoName /\ x \notin ToSet(texts) /\ Len(texts) < TopN
  <2>1. new = Append(texts, x)
    <3>1. ~(Len(texts) >= TopN)
      BY <1>1, <1>4, <1>7
    <3> QED
      BY <1>7, <3>1 DEF WithText
  <2> DEFINE n == Len(texts)
  <2>2. /\ n \in Nat /\ DOMAIN texts = 1 .. n
        /\ Len(new) = n + 1 /\ DOMAIN new = 1 .. n + 1
        /\ new \in Seq(Name \cup {NoName})
        /\ \A i \in 1 .. n : new[i] = texts[i]
        /\ new[n + 1] = x
    BY <1>1, <2>1
  <2>3. \A i \in 1 .. n + 1 : i \in 1 .. n \/ i = n + 1
    BY <2>2
  <2>4. ToSet(new) = ToSet(texts) \cup {x}
    <3>1. ToSet(new) = {new[i] : i \in 1 .. n + 1} /\ ToSet(texts) = {texts[i] : i \in 1 .. n}
      BY <2>2 DEF ToSet
    <3>2. \A i \in 1 .. n : i \in 1 .. n + 1
      BY <2>2
    <3>3. n + 1 \in 1 .. n + 1
      BY <2>2
    <3> HIDE DEF n, new, x
    <3>4. \A t \in ToSet(new) : t \in ToSet(texts) \/ t = x
      BY <2>2, <2>3, <3>1
    <3>5. \A t \in ToSet(texts) : t \in ToSet(new)
      BY <2>2, <3>1, <3>2
    <3>6. x \in ToSet(new)
      BY <2>2, <3>1, <3>3
    <3> QED
      BY <3>4, <3>5, <3>6
  <2>5. IsInjective(new)
    <3> SUFFICES ASSUME NEW a \in 1 .. n + 1, NEW b \in 1 .. n + 1, new[a] = new[b] PROVE a = b
      BY <2>2 DEF IsInjective
    <3>1. \A i \in 1 .. n : texts[i] # x
      BY <1>7, <2>2 DEF ToSet
    <3>2. \A i, j \in 1 .. n : texts[i] = texts[j] => i = j
      BY <1>1, <2>2 DEF IsInjective
    <3> HIDE DEF n, new, x
    <3> QED
      BY <2>2, <2>3, <3>1, <3>2
  <2>6. Len(new) <= TopN
    BY <1>4, <1>7, <2>2
  <2>7. Named(new, ranked, k)
    BY <1>3, <1>5, <1>7, <2>4 DEF Named
  <2>8. \A i \in 1 .. k - 1 : Named(texts, ranked, i) => Named(new, ranked, i)
    BY <2>4 DEF Named
  <2>9. \A t \in ToSet(new) : \E i \in 1 .. k : ranked[i].text = t /\ Named(new, ranked, i)
    <3> HIDE DEF new
    <3> QED
      BY <1>2, <1>5, <2>4, <2>7, <2>8
  <2>10. NoName \notin ToSet(new)
    BY <1>1, <1>7, <2>4
  <2>11. FirstAreNamed(new, ranked, k)
    <3> HIDE DEF new
    <3> QED
      BY <2>2, <2>5, <2>6, <2>7, <2>9, <2>10 DEF FirstAreNamed
  <2> QED
    BY <2>11
<1>8. Len(texts) \in Nat
  BY <1>1
<1> QED
  BY <1>4, <1>6, <1>7, <1>8

LEMMA NamesAreFirst ==
  ASSUME NEW ranked \in Seq(ClientPost)
  PROVE  FirstAreNamed(TopDistinct(ranked), ranked, Len(ranked))
<1> DEFINE n == Len(ranked)
<1>1. PICK f : NamesOf(f, ranked) /\ TopDistinct(ranked) = f[n]
  BY TopDistinctRuns
<1> DEFINE T == {k \in 0 .. n : FirstAreNamed(f[k], ranked, k)}
<1>2. n \in Nat /\ f[0] = <<>> /\ \A k \in 1 .. n : f[k] = WithText(f[k - 1], ranked[k])
  BY <1>1 DEF NamesOf
<1>3. \A k \in 1 .. n : ranked[k].text \in Name \cup {NoName}
  <2>1. \A k \in 1 .. n : ranked[k] \in ClientPost
    OBVIOUS
  <2> QED
    BY <2>1 DEF ClientPost
<1>4. 0 \in T
  <2>1. ToSet(<<>>) = {} /\ IsInjective(<<>>) /\ Len(<<>>) = 0
    BY DEF ToSet, IsInjective
  <2>2. <<>> \in Seq(Name \cup {NoName}) /\ 0 <= TopN /\ 1 .. 0 = {}
    BY PartsAssumption DEF PartsAssumption
  <2>3. FirstAreNamed(<<>>, ranked, 0)
    BY <2>1, <2>2 DEF FirstAreNamed, Named
  <2> QED
    BY <1>2, <2>3
<1>5. ASSUME NEW k \in 1 .. n, k - 1 \in T
      PROVE  k \in T
  <2>1. FirstAreNamed(f[k - 1], ranked, k - 1) /\ k \in Nat \ {0} /\ k \in 0 .. n
    BY <1>2, <1>5
  <2>2. FirstAreNamed(WithText(f[k - 1], ranked[k]), ranked, k)
    BY <1>3, <2>1, NamingGoesOn
  <2> QED
    BY <1>2, <2>1, <2>2
<1>6. n \in T
  <2> HIDE DEF T, n
  <2>1. 0 .. n \subseteq T
    BY <1>2, <1>4, <1>5, UpTo
  <2> QED
    BY <1>2, <2>1
<1> QED
  BY <1>1, <1>6

LEMMA BestIsAttained ==
  ASSUME NEW posts \in Seq(ClientPost), NEW t, \E q \in ToSet(posts) : q.text = t
  PROVE  /\ \E q \in ToSet(posts) : q.text = t /\ BestScore(posts, t) = EngagementScore(q)
         /\ \A q \in ToSet(posts) : q.text = t => BestScore(posts, t) >= EngagementScore(q)
<1> DEFINE D == {k \in DOMAIN posts : posts[k].text = t}
           scores == [k \in DOMAIN posts |-> EngagementScore(posts[k])]
           S == {scores[k] : k \in D}
<1>1. DOMAIN posts = 1 .. Len(posts) /\ \A k \in DOMAIN posts : posts[k] \in ClientPost
  OBVIOUS
<1>2. IsFiniteSet(S)
  <2>1. IsFiniteSet(1 .. Len(posts))
    BY FS_Interval
  <2>2. IsFiniteSet(D)
    BY <1>1, <2>1, FS_Subset
  <2> HIDE DEF D, scores
  <2> QED
    BY <2>2, ValuesAreFinite
<1>3. {EngagementScore(p) : p \in {q \in ToSet(posts) : q.text = t}} = S
  BY DEF ToSet
<1>4. S # {}
  <2>1. PICK k \in DOMAIN posts : posts[k].text = t
    BY DEF ToSet
  <2> QED
    BY <2>1
<1>5. S \in SUBSET Int
  BY <1>1, ScoresOfPosts
<1>6. BestScore(posts, t) = Max(S)
  BY <1>3 DEF BestScore
<1>7. \A y \in S : \E q \in ToSet(posts) : q.text = t /\ y = EngagementScore(q)
  BY DEF ToSet
<1>8. \A q \in ToSet(posts) : q.text = t => EngagementScore(q) \in S
  BY DEF ToSet
<1> HIDE DEF S
<1>9. Max(S) \in S /\ \A y \in S : Max(S) >= y
  BY <1>2, <1>4, <1>5, GreatestNumber
<1> QED
  BY <1>6, <1>7, <1>8, <1>9

\* The brief names the best.
LEMMA BriefOfPosts ==
  ASSUME NEW posts \in Seq(ClientPost)
  PROVE  LET named == SummarizePerformance(posts).topPillars
             left == {p.text : p \in ToSet(posts)} \ (ToSet(named) \cup {NoName})
         IN /\ IsInjective(named) /\ NoName \notin ToSet(named)
            /\ left # {} => Len(named) = TopN
            /\ \A t \in ToSet(named), u \in left : BestScore(posts, t) >= BestScore(posts, u)
<1> DEFINE named == SummarizePerformance(posts).topPillars
           left == {p.text : p \in ToSet(posts)} \ (ToSet(named) \cup {NoName})
           ranked == Ranked(posts)
           n == Len(posts)
<1>1. named = TopDistinct(ranked)
  BY DEF SummarizePerformance
<1>2. /\ ranked \in Seq(ClientPost) /\ Len(ranked) = n
      /\ ToSet(ranked) = ToSet(posts)
      /\ \A i, j \in 1 .. n : i < j => EngagementScore(ranked[i]) >= EngagementScore(ranked[j])
  BY RankedIsFalling
<1> HIDE DEF named, ranked
<1>3. FirstAreNamed(named, ranked, n)
  BY <1>1, <1>2, NamesAreFirst
<1>4. DOMAIN ranked = 1 .. n /\ (\A i \in 1 .. n : ranked[i] \in ToSet(posts) /\ ranked[i] \in ClientPost)
  <2>1. DOMAIN ranked = 1 .. n /\ \A i \in 1 .. n : ranked[i] \in ClientPost
    BY <1>2
  <2>2. \A i \in 1 .. n : ranked[i] \in ToSet(ranked)
    BY <2>1 DEF ToSet
  <2> QED
    BY <1>2, <2>1, <2>2
<1>5. \A q \in ToSet(posts) : \E i \in 1 .. n : q = ranked[i]
  BY <1>2, <1>4 DEF ToSet
<1>6. left # {} => Len(named) = TopN
  <2> SUFFICES ASSUME NEW u \in left, Len(named) # TopN PROVE FALSE
    OBVIOUS
  <2>1. PICK i \in 1 .. n : u = ranked[i].text
    BY <1>5
  <2>2. Len(named) \in Nat /\ Len(named) <= TopN /\ TopN \in Nat
    BY <1>3, PartsAssumption DEF FirstAreNamed, PartsAssumption
  <2>3. Len(named) < TopN
    BY <2>2
  <2>4. ranked[i].text \in ToSet(named) \cup {NoName}
    BY <1>3, <2>3 DEF FirstAreNamed, Named
  <2> QED
    BY <2>1, <2>4
<1>7. ASSUME NEW t \in ToSet(named), NEW u \in left
      PROVE  BestScore(posts, t) >= BestScore(posts, u)
  <2>1. PICK i \in 1 .. n : ranked[i].text = t /\ Named(named, ranked, i)
    BY <1>3 DEF FirstAreNamed
  <2>2. PICK q \in ToSet(posts) : q.text = u /\ BestScore(posts, u) = EngagementScore(q)
    <3>1. \E q \in ToSet(posts) : q.text = u
      OBVIOUS
    <3> QED
      BY <3>1, BestIsAttained
  <2>3. PICK j \in 1 .. n : q = ranked[j]
    BY <1>5
  <2>4. i < j
    <3> SUFFICES ASSUME ~(i < j) PROVE FALSE
      OBVIOUS
    <3>1. j \in 1 .. i
      OBVIOUS
    <3> QED
      BY <2>1, <2>2, <2>3, <3>1 DEF Named
  <2>5. EngagementScore(ranked[i]) >= EngagementScore(q)
    BY <1>2, <2>3, <2>4
  <2>6. BestScore(posts, t) >= EngagementScore(ranked[i])
    BY <1>4, <2>1, BestIsAttained
  <2>7. EngagementScore(ranked[i]) \in Int /\ EngagementScore(q) \in Int /\ BestScore(posts, t) \in Int
    <3>1. \E r \in ToSet(posts) : r.text = t
      BY <1>4, <2>1
    <3>2. PICK r \in ToSet(posts) : BestScore(posts, t) = EngagementScore(r)
      BY <3>1, BestIsAttained
    <3>3. r \in ClientPost /\ q \in ClientPost /\ ranked[i] \in ClientPost
      BY <1>4, <1>5
    <3> QED
      BY <3>2, <3>3, ScoresOfPosts
  <2> QED
    BY <2>2, <2>5, <2>6, <2>7
<1>8. IsInjective(named) /\ NoName \notin ToSet(named)
  BY <1>3 DEF FirstAreNamed
<1> QED
  BY <1>6, <1>7, <1>8 DEF named

----------------------------------------------------------------------------
(* Reports.                                                                 *)

LEMMA SetsAreListed ==
  ASSUME NEW S, IsFiniteSet(S)
  PROVE  /\ Cardinality(S) \in Nat
         /\ SetToSeq(S) \in [1 .. Cardinality(S) -> S]
         /\ IsInjective(SetToSeq(S))
         /\ \A x \in S : \E i \in 1 .. Cardinality(S) : SetToSeq(S)[i] = x
<1> DEFINE n == Cardinality(S)
           q == SetToSeq(S)
<1>1. n \in Nat /\ ExistsBijection(1 .. n, S)
  BY FS_CardinalityType
<1>2. \E f \in [1 .. n -> S] : IsInjective(f)
  <2> HIDE DEF n
  <2> QED
    BY <1>1 DEF ExistsBijection, Bijection, Injection
<1>3. q \in [1 .. n -> S] /\ IsInjective(q)
  BY <1>2 DEF SetToSeq
<1>4. \A x \in S : \E i \in 1 .. n : q[i] = x
  <2>1. IsFiniteSet(1 .. n) /\ Cardinality(1 .. n) = n
    <3> HIDE DEF n
    <3>1. IsFiniteSet(1 .. n)
      BY <1>1, FS_Interval
    <3>2. Cardinality(1 .. n) = IF 1 > n THEN 0 ELSE n - 1 + 1
      BY <1>1, FS_Interval
    <3> QED
      BY <1>1, <3>1, <3>2
  <2> HIDE DEF q
  <2>2. q \in Injection(1 .. n, S)
    BY <1>3 DEF Injection
  <2>3. Cardinality(1 .. n) = Cardinality(S) <=> q \in Surjection(1 .. n, S)
    BY <2>2, FS_Injection
  <2>4. q \in Surjection(1 .. n, S)
    BY <2>1, <2>3
  <2> HIDE DEF n
  <2> QED
    BY <2>4 DEF Surjection
<1> QED
  BY <1>1, <1>3, <1>4

\* The first of a list, and what is left over.
LEMMA TopIsFirst ==
  ASSUME NEW s \in Seq(ClientPost)
  PROVE  /\ Len(Top(s)) = Min({TopN, Len(s)})
         /\ Len(Top(s)) \in 0 .. Len(s)
         /\ \A i \in 1 .. Len(Top(s)) : Top(s)[i] = s[i]
         /\ DOMAIN Top(s) = 1 .. Len(Top(s))
<1> DEFINE m == Min({TopN, Len(s)})
<1>1. TopN \in Nat /\ Len(s) \in Nat
  BY PartsAssumption DEF PartsAssumption
<1>2. m \in 0 .. Len(s)
  BY <1>1, SmallerOfTwo
<1>3. Top(s) = SubSeq(s, 1, m)
  BY DEF Top
<1> HIDE DEF m
<1>4. \A i \in 1 .. m : s[i] \in ClientPost
  BY <1>2
<1>5. m \in Int /\ 1 \in Int
  BY <1>1, <1>2
<1> DEFINE t == SubSeq(s, 1, m)
<1>6. t \in Seq(ClientPost)
  BY <1>4, <1>5, SubSeqProperties
<1>7. Len(t) = IF 1 <= m THEN m - 1 + 1 ELSE 0
  BY <1>4, <1>5, SubSeqProperties
<1>8. \A i \in 1 .. m - 1 + 1 : t[i] = s[1 + i - 1]
  BY <1>4, <1>5, SubSeqProperties
<1> HIDE DEF t
<1>9. Len(t) = m
  BY <1>1, <1>2, <1>7
<1>10. \A i \in 1 .. m : t[i] = s[i]
  <2> SUFFICES ASSUME NEW i \in 1 .. m PROVE t[i] = s[i]
    OBVIOUS
  <2>1. i \in 1 .. m - 1 + 1 /\ 1 + i - 1 = i
    BY <1>5
  <2> QED
    BY <1>8, <2>1
<1>11. DOMAIN t = 1 .. Len(t)
  BY <1>6
<1>12. Top(s) = t
  BY <1>3 DEF t
<1> QED
  BY <1>2, <1>9, <1>10, <1>11, <1>12 DEF m

LEMMA ToldArePosts ==
  ASSUME NEW posts \in Seq(ClientPost)
  PROVE  Told(posts) \in Seq(ClientPost)
<1> DEFINE good == {p \in ToSet(posts) : p.text # NoName}
<1>1. good \in SUBSET ClientPost
  BY DEF ToSet
<1>2. Told(posts) = Kept(posts, good, Len(posts))
  BY DEF Told, AllKept
<1> HIDE DEF good
<1>3. DOMAIN posts = 1 .. Len(posts) /\ Len(posts) \in Nat
  OBVIOUS
<1>4. Kept(posts, good, Len(posts)) \in Seq(good)
  BY <1>3, KeptAreFirst
<1> QED
  BY <1>1, <1>2, <1>4

\* The best posts are shown.
LEMMA ShownAreBest ==
  ASSUME NEW told \in Seq(ClientPost)
  PROVE  LET shown == Top(Ranked(told))
         IN /\ Len(shown) = Min({TopN, Len(told)})
            /\ \A p \in ToSet(told) \ ToSet(shown), q \in ToSet(shown) : EngagementScore(p) <= EngagementScore(q)
<1> DEFINE ranked == Ranked(told)
           n == Len(told)
           shown == Top(ranked)
           m == Len(shown)
<1>1. /\ ranked \in Seq(ClientPost) /\ Len(ranked) = n
      /\ ToSet(ranked) = ToSet(told)
      /\ \A i, j \in 1 .. n : i < j => EngagementScore(ranked[i]) >= EngagementScore(ranked[j])
  BY RankedIsFalling
<1> HIDE DEF ranked
<1>2. /\ m = Min({TopN, n}) /\ m \in 0 .. n
      /\ \A i \in 1 .. m : shown[i] = ranked[i]
      /\ DOMAIN shown = 1 .. m
  BY <1>1, TopIsFirst
<1> HIDE DEF shown, m
<1>3. ASSUME NEW p \in ToSet(told) \ ToSet(shown), NEW q \in ToSet(shown)
      PROVE  EngagementScore(p) <= EngagementScore(q)
  <2>1. PICK i \in 1 .. n : p = ranked[i]
    <3>1. DOMAIN ranked = 1 .. n
      BY <1>1
    <3>2. ToSet(ranked) = {ranked[i] : i \in 1 .. n}
      BY <3>1 DEF ToSet
    <3>3. p \in ToSet(ranked)
      BY <1>1
    <3> QED
      BY <3>2, <3>3
  <2>2. PICK j \in 1 .. m : q = ranked[j]
    BY <1>2 DEF ToSet
  <2>3. i \notin 1 .. m
    <3> SUFFICES ASSUME i \in 1 .. m PROVE FALSE
      OBVIOUS
    <3>1. p \in ToSet(shown)
      BY <1>2, <2>1 DEF ToSet
    <3> QED
      BY <3>1
  <2>4. n \in Nat /\ j \in 1 .. n /\ j < i
    BY <1>2, <2>3
  <2>5. EngagementScore(q) >= EngagementScore(p)
    BY <1>1, <2>1, <2>2, <2>4
  <2>6. EngagementScore(q) \in Int /\ EngagementScore(p) \in Int
    <3>1. p \in ClientPost /\ q \in ClientPost
      BY <1>1, <2>1, <2>2, <2>4
    <3> QED
      BY <3>1, ScoresOfPosts
  <2> QED
    BY <2>5, <2>6
<1> QED
  BY <1>2, <1>3 DEF shown, ranked, m

\* What is rolled up of some posts are sums.
LEMMA RollupsAreSums ==
  ASSUME NEW posts \in Seq(ClientPost)
  PROVE  LET D == DOMAIN posts
             likes == [k \in D |-> posts[k].likes]
             impressions == [k \in D |-> posts[k].impressions]
             ones == [k \in D |-> 1]
         IN /\ IsFiniteSet(D)
            /\ \A k \in D : likes[k] \in Int /\ impressions[k] \in Int /\ ones[k] \in Int
            /\ \A S \in SUBSET D :
                 /\ Rollup(posts, S) = [posts |-> Total(ones, S), likes |-> Total(likes, S),
                                        impressions |-> Total(impressions, S)]
                 /\ Total(impressions, S) \in Int
<1> DEFINE D == DOMAIN posts
           likes == [k \in D |-> posts[k].likes]
           impressions == [k \in D |-> posts[k].impressions]
           ones == [k \in D |-> 1]
           n == Len(posts)
<1>1. D = 1 .. n /\ n \in Nat /\ \A k \in D : posts[k] \in ClientPost
  OBVIOUS
<1>2. IsFiniteSet(D)
  <2> HIDE DEF n
  <2>1. IsFiniteSet(1 .. n)
    BY <1>1, FS_Interval
  <2> QED
    BY <1>1, <2>1
<1>3. \A k \in D : likes[k] \in Int /\ impressions[k] \in Int /\ ones[k] \in Int
  BY <1>1 DEF ClientPost
<1>4. \A k \in D : ones[k] = 1
  OBVIOUS
<1>5. ASSUME NEW S \in SUBSET D
      PROVE  /\ Rollup(posts, S) = [posts |-> Total(ones, S), likes |-> Total(likes, S),
                                    impressions |-> Total(impressions, S)]
             /\ Total(impressions, S) \in Int
  <2>1. Rollup(posts, S) = [posts |-> Cardinality(S), likes |-> Total(likes, S),
                            impressions |-> Total(impressions, S)]
    BY DEF Rollup, Each, Total
  <2> HIDE DEF D, likes, impressions, ones
  <2>2. Total(ones, S) = Cardinality(S)
    BY <1>2, <1>4, CardinalityIsTotal
  <2>3. Total(impressions, S) \in Int
    BY <1>2, <1>3, TotalsGrow
  <2> QED
    BY <2>1, <2>2, <2>3
<1> QED
  BY <1>2, <1>3, <1>5

\* The rows of a report, one for each platform, add up to its totals.
LEMMA RowsAddUp ==
  ASSUME NEW posts \in Seq(ClientPost)
  PROVE  LET report == BuildReport(posts)
             rows == report.byPlatform
         IN report.totals = [posts |-> SumFunction(Each(rows, LAMBDA r : r.posts)),
                             likes |-> SumFunction(Each(rows, LAMBDA r : r.likes)),
                             impressions |-> SumFunction(Each(rows, LAMBDA r : r.impressions))]
<1> DEFINE D == DOMAIN posts
           likes == [k \in D |-> posts[k].likes]
           impressions == [k \in D |-> posts[k].impressions]
           ones == [k \in D |-> 1]
           names == [k \in D |-> posts[k].platform]
           U == {p.platform : p \in ToSet(posts)}
           platforms == SetToSeq(U)
           M == Cardinality(U)
           rows == [k \in DOMAIN platforms |-> Rollup(posts, OnPlatform(posts, platforms[k]))]
           sizes == [k \in DOMAIN rows |-> rows[k].impressions]
           by == Sorted(rows, sizes, sizes)
           Row(S) == [posts |-> Total(ones, S), likes |-> Total(likes, S),
                      impressions |-> Total(impressions, S)]
<1>1. /\ IsFiniteSet(D)
      /\ \A k \in D : likes[k] \in Int /\ impressions[k] \in Int /\ ones[k] \in Int
      /\ \A S \in SUBSET D : Rollup(posts, S) = Row(S) /\ Total(impressions, S) \in Int
  BY RollupsAreSums
<1>2. BuildReport(posts).totals = Rollup(posts, D) /\ BuildReport(posts).byPlatform = by
  BY DEF BuildReport, Each
<1>3. U = {names[k] : k \in D}
  BY DEF ToSet
<1>4. \A k \in D : names[k] = posts[k].platform
  OBVIOUS
<1>5. \A a : OnPlatform(posts, a) = {k \in D : names[k] = a}
  BY DEF OnPlatform
<1>6. IsFiniteSet(U)
  <2> HIDE DEF U, D, names
  <2> QED
    BY <1>1, <1>3, ValuesAreFinite
<1> HIDE DEF D, U, names, likes, impressions, ones, Row
<1>7. /\ M \in Nat
      /\ platforms \in [1 .. M -> U]
      /\ IsInjective(platforms)
      /\ \A x \in U : \E i \in 1 .. M : platforms[i] = x
  BY <1>6, SetsAreListed
<1> HIDE DEF platforms, M
<1> DEFINE places == [k \in 1 .. M |-> OnPlatform(posts, platforms[k])]
<1>8. \A k \in 1 .. M : places[k] = {x \in D : names[x] = platforms[k]} /\ places[k] \in SUBSET D
  BY <1>5
<1>9. DOMAIN rows = 1 .. M /\ \A k \in 1 .. M : rows[k] = Row(places[k])
  <2>1. DOMAIN platforms = 1 .. M
    BY <1>7
  <2>2. rows = [k \in 1 .. M |-> Rollup(posts, places[k])]
    BY <2>1
  <2>3. \A k \in 1 .. M : Rollup(posts, places[k]) = Row(places[k])
    BY <1>1, <1>8
  <2> HIDE DEF rows, places
  <2> QED
    BY <2>2, <2>3
<1>10. sizes \in [1 .. M -> Int]
  <2>1. \A k \in 1 .. M : rows[k].impressions = Total(impressions, places[k])
    BY <1>9 DEF Row
  <2>2. \A k \in 1 .. M : rows[k].impressions \in Int
    BY <1>1, <1>8, <2>1
  <2>3. DOMAIN rows = 1 .. M
    BY <1>9
  <2> HIDE DEF rows
  <2> QED
    BY <2>2, <2>3
<1> HIDE DEF rows, sizes, places
<1>11. PICK p : Sorts(p, M, sizes, sizes) /\ by = [m \in 1 .. M |-> rows[p[m]]]
  <2> HIDE DEF by
  <2>1. InOrder(rows, M, sizes, sizes, by)
    BY <1>7, <1>9, <1>10, SortedIsInOrder DEF by
  <2> QED
    BY <2>1 DEF InOrder
<1> HIDE DEF by
<1> DEFINE part == [m \in 1 .. M |-> places[p[m]]]
<1>12. /\ \A m \in 1 .. M : p[m] \in 1 .. M
       /\ \A k \in 1 .. M : \E m \in 1 .. M : p[m] = k
       /\ \A i, j \in 1 .. M : i < j => p[i] # p[j]
  BY <1>11 DEF Sorts
<1>13. \A i, j \in 1 .. M : i # j => p[i] # p[j]
  <2>1. \A i, j \in 1 .. M : i # j => i < j \/ j < i
    BY <1>7
  <2> QED
    BY <1>12, <2>1
<1>14. Divides(part, M, D)
  <2>1. \A i \in 1 .. M : part[i] = {x \in D : names[x] = platforms[p[i]]} /\ part[i] \in SUBSET D
    BY <1>8, <1>12
  <2> HIDE DEF part
  <2>2. ASSUME NEW x \in D
        PROVE  \E i \in 1 .. M : x \in part[i]
    <3>1. PICK k \in 1 .. M : platforms[k] = names[x]
      BY <1>3, <1>7
    <3>2. PICK i \in 1 .. M : p[i] = k
      BY <1>12
    <3> QED
      BY <2>1, <3>1, <3>2
  <2>3. ASSUME NEW i \in 1 .. M, NEW j \in 1 .. M, i # j
        PROVE  part[i] \cap part[j] = {}
    <3>1. p[i] # p[j] /\ p[i] \in 1 .. M /\ p[j] \in 1 .. M
      BY <1>12, <1>13, <2>3
    <3>2. platforms[p[i]] # platforms[p[j]]
      BY <1>7, <3>1 DEF IsInjective
    <3> QED
      BY <2>1, <3>2
  <2> QED
    BY <2>1, <2>2, <2>3 DEF Divides
<1>15. DOMAIN by = 1 .. M /\ \A m \in 1 .. M : by[m] = Row(part[m])
  BY <1>9, <1>11, <1>12
<1> HIDE DEF part
<1> DEFINE of(f) == [m \in 1 .. M |-> Total(f, part[m])]
<1>16. /\ Each(by, LAMBDA r : r.posts) = of(ones)
       /\ Each(by, LAMBDA r : r.likes) = of(likes)
       /\ Each(by, LAMBDA r : r.impressions) = of(impressions)
  BY <1>15 DEF Each, Row
<1>17. ASSUME NEW f, \A k \in D : f[k] \in Int
       PROVE  SumFunction(of(f)) = Total(f, D)
  <2> DEFINE g == of(f)
  <2>1. DOMAIN g = 1 .. M /\ \A m \in 1 .. M : g[m] = Total(f, part[m])
    OBVIOUS
  <2> HIDE DEF g
  <2>2. SumFunction(g) = Total(f, D)
    BY <1>1, <1>7, <1>14, <1>17, <2>1, PartsAddUp
  <2> QED
    BY <2>2 DEF g
<1>18. SumFunction(of(ones)) = Total(ones, D) /\ SumFunction(of(likes)) = Total(likes, D)
         /\ SumFunction(of(impressions)) = Total(impressions, D)
  <2> HIDE DEF of
  <2> QED
    BY <1>1, <1>17
<1>19. Rollup(posts, D) = Row(D)
  BY <1>1
<1> HIDE DEF of
<1> QED
  BY <1>2, <1>16, <1>18, <1>19 DEF Row

\* The report adds up and shows the best.
LEMMA ReportOfPosts ==
  ASSUME NEW posts \in Seq(ClientPost)
  PROVE  LET report == BuildReport(posts)
             rows == report.byPlatform
             shown == report.topPosts
             told == Told(posts)
         IN /\ report.totals = [posts |-> SumFunction(Each(rows, LAMBDA r : r.posts)),
                                likes |-> SumFunction(Each(rows, LAMBDA r : r.likes)),
                                impressions |-> SumFunction(Each(rows, LAMBDA r : r.impressions))]
            /\ Len(shown) = Min({TopN, Len(told)})
            /\ \A p \in ToSet(told) \ ToSet(shown), q \in ToSet(shown) : EngagementScore(p) <= EngagementScore(q)
<1> DEFINE shown == BuildReport(posts).topPosts
           told == Told(posts)
<1>1. shown = Top(Ranked(told))
  BY DEF BuildReport
<1>2. /\ Len(shown) = Min({TopN, Len(told)})
      /\ \A p \in ToSet(told) \ ToSet(shown), q \in ToSet(shown) : EngagementScore(p) <= EngagementScore(q)
  <2>1. told \in Seq(ClientPost)
    BY ToldArePosts
  <2> HIDE DEF told, shown
  <2> QED
    BY <1>1, <2>1, ShownAreBest
<1> QED
  BY <1>2, RowsAddUp

----------------------------------------------------------------------------
(* The feed of trends.                                                      *)

\* A filter without a limit keeps all that fits.
LEMMA AllAreKept ==
  ASSUME NEW E, NEW s \in Seq(E), NEW good
  PROVE  /\ AllKept(s, good) \in Seq(good)
         /\ ToSet(AllKept(s, good)) = ToSet(s) \cap good
<1> DEFINE n == Len(s)
           kept == Kept(s, good, n)
           place(k) == PlaceOf(s, good, k)
           c == Cardinality(Fit(s, good))
<1>1. n \in Nat /\ DOMAIN s = 1 .. n
  OBVIOUS
<1>2. AllKept(s, good) = kept
  BY DEF AllKept
<1> HIDE DEF n, kept, place, c
<1>3. kept \in Seq(good) /\ \A e \in ToSet(kept) : e \in ToSet(s)
  BY <1>1, KeptAreFirst DEF kept
<1>4. Len(kept) = IF c <= n THEN c ELSE n
  BY <1>1, KeptAreFirst DEF kept, c
<1>5. \A k \in Fit(s, good) : place(k) <= Len(kept) => kept[place(k)] = s[k]
  BY <1>1, KeptAreFirst DEF kept, place
<1>6. c \in Nat /\ c <= n
  <2>1. IsFiniteSet(1 .. n) /\ Cardinality(1 .. n) = n
    <3>1. IsFiniteSet(1 .. n)
      BY <1>1, FS_Interval
    <3>2. Cardinality(1 .. n) = IF 1 > n THEN 0 ELSE n - 1 + 1
      BY <1>1, FS_Interval
    <3> QED
      BY <1>1, <3>1, <3>2
  <2>2. Fit(s, good) \in SUBSET (1 .. n)
    BY <1>1 DEF Fit
  <2>3. IsFiniteSet(Fit(s, good)) /\ c <= Cardinality(1 .. n)
    BY <2>1, <2>2, FS_Subset DEF c
  <2>4. c \in Nat
    BY <2>3, FS_CardinalityType DEF c
  <2> QED
    BY <2>1, <2>3, <2>4
<1>7. ASSUME NEW k \in Fit(s, good)
      PROVE  s[k] \in ToSet(kept)
  <2>1. k \in 1 .. n /\ s[k] \in good /\ k \in 0 .. n /\ k - 1 \in 0 .. n /\ n \in 0 .. n /\ k <= n
    BY <1>1 DEF Fit
  <2>2. place(k) = place(k - 1) + 1
    BY <1>1, <2>1, PlacesGrow DEF place
  <2>3. place(k - 1) \in Nat
    BY <1>1, <2>1, PlacesGrow DEF place
  <2>4. place(k) <= place(n)
    BY <1>1, <2>1, PlacesGrow DEF place
  <2>5. place(n) = c
    BY <1>1, PlacesGrow DEF place, c
  <2>6. place(k) \in 1 .. Len(kept) /\ Len(kept) = c
    BY <1>4, <1>6, <2>2, <2>3, <2>4, <2>5
  <2>7. kept[place(k)] = s[k] /\ place(k) \in DOMAIN kept
    BY <1>3, <1>5, <2>6
  <2> QED
    BY <2>7 DEF ToSet
<1>8. \A e \in ToSet(kept) : e \in good
  BY <1>3 DEF ToSet
<1>9. \A e \in ToSet(s) : e \in good => e \in ToSet(kept)
  <2> SUFFICES ASSUME NEW k \in DOMAIN s, s[k] \in good PROVE s[k] \in ToSet(kept)
    BY DEF ToSet
  <2>1. k \in Fit(s, good)
    BY DEF Fit
  <2> QED
    BY <1>7, <2>1
<1> QED
  BY <1>2, <1>3, <1>8, <1>9

\* Nothing is placed below the end of its list.
LEMMA PlacesAreOfList ==
  ASSUME NEW items \in Seq(Entry), NEW k \in 1 .. Len(items)
  PROVE  PlaceIn(items, k) \in Nat /\ PlaceIn(items, k) <= Len(items)
<1> DEFINE r == items[k].rank
           n == Len(items)
<1>0. items[k] \in Entry
  OBVIOUS
<1>1. r \in Nat /\ n \in Nat
  BY <1>0 DEF Entry
<1> HIDE DEF r
<1>2. CASE r > 0 /\ r <= n
  <2>1. Min({r, n}) = r
    BY <1>1, <1>2 DEF Min
  <2> QED
    BY <1>1, <1>2, <2>1 DEF PlaceIn, r
<1>3. CASE r > n
  <2>1. Min({r, n}) = n
    BY <1>1, <1>3 DEF Min
  <2> QED
    BY <1>1, <1>3, <2>1 DEF PlaceIn, r
<1>4. CASE r = 0
  BY <1>4 DEF PlaceIn, r
<1> QED
  BY <1>1, <1>2, <1>3, <1>4

\* What a source says are observations.
LEMMA SourcesObserve ==
  ASSUME NEW items \in Seq(Entry)
  PROVE  Observations(items) \in Seq(Observation)
<1> DEFINE n == Len(items)
           all == [k \in DOMAIN items |-> [topic |-> items[k].topic, volume |-> items[k].volume,
                                           growth |-> ByPosition(n, PlaceIn(items, k))]]
           good == {o \in ToSet(all) : o.topic # NoName}
           E == [topic : Name \cup {NoName}, volume : Nat, growth : Nat]
<1>1. n \in Nat /\ DOMAIN items = 1 .. n /\ \A k \in 1 .. n : items[k] \in Entry
  OBVIOUS
<1>2. Observations(items) = AllKept(all, good)
  BY DEF Observations
<1>3. \A k \in 1 .. n : ByPosition(n, PlaceIn(items, k)) \in Nat
  <2> SUFFICES ASSUME NEW k \in 1 .. n PROVE ByPosition(n, PlaceIn(items, k)) \in Nat
    OBVIOUS
  <2> DEFINE place == PlaceIn(items, k)
             a == GrowthParts * (n - place)
             b == n - 1
  <2>0. place \in Nat /\ place <= n
    BY <1>1, PlacesAreOfList
  <2> HIDE DEF place
  <2>1. GrowthParts \in Nat
    BY PartsAssumption DEF PartsAssumption
  <2>2. CASE n > 1
    <3>1. a \in Nat /\ b \in Nat \ {0}
      BY <1>1, <2>0, <2>1, <2>2
    <3>2. ByPosition(n, place) = a \div b
      BY <2>2 DEF ByPosition
    <3> HIDE DEF a, b
    <3> QED
      BY <3>1, <3>2, QuotientsOfNaturals DEF place
  <2>3. CASE ~(n > 1)
    BY <2>1, <2>3 DEF ByPosition, place
  <2> QED
    BY <2>2, <2>3
<1>4. all \in Seq(E)
  <2>1. \A k \in 1 .. n : items[k].topic \in Name \cup {NoName} /\ items[k].volume \in Nat
    BY <1>1 DEF Entry
  <2>2. \A k \in 1 .. n : all[k] \in E
    BY <1>1, <1>3, <2>1
  <2>3. DOMAIN all = 1 .. n
    BY <1>1
  <2>4. all \in [1 .. n -> E]
    <3>1. all = [k \in DOMAIN all |-> all[k]]
      OBVIOUS
    <3> HIDE DEF all, E
    <3> QED
      BY <2>2, <2>3, <3>1
  <2> HIDE DEF all, E
  <2> QED
    BY <1>1, <2>4
<1>5. good \in SUBSET Observation
  <2> SUFFICES ASSUME NEW o \in ToSet(all), o.topic # NoName PROVE o \in Observation
    OBVIOUS
  <2> HIDE DEF all
  <2>1. o \in E
    <3> HIDE DEF E
    <3>1. \A k \in DOMAIN all : all[k] \in E
      BY <1>4
    <3> QED
      BY <3>1 DEF ToSet
  <2> QED
    BY <2>1 DEF Observation
<1> HIDE DEF all, good, E
<1>6. AllKept(all, good) \in Seq(good)
  BY <1>4, AllAreKept
<1> QED
  BY <1>2, <1>5, <1>6

\* What of it is of the niche.
LEMMA NicheOfFeed ==
  ASSUME NEW obs \in Seq(Observation), NEW niche
  PROVE  /\ OfNiche(obs, niche) \in Seq(Observation)
         /\ ToSet(OfNiche(obs, niche)) \in SUBSET ToSet(obs)
         /\ obs # <<>> => OfNiche(obs, niche) # <<>>
         /\ (\E o \in ToSet(obs) : o.topic \in niche) =>
              \A o \in ToSet(OfNiche(obs, niche)) : o.topic \in niche
<1> DEFINE good == {o \in ToSet(obs) : o.topic \in niche}
           matched == AllKept(obs, good)
<1>1. OfNiche(obs, niche) = IF matched # <<>> THEN matched ELSE obs
  BY DEF OfNiche
<1>2. good \in SUBSET Observation
  BY DEF ToSet
<1>3. (\A o \in good : o.topic \in niche) /\ good \in SUBSET ToSet(obs)
  OBVIOUS
<1>4. \A o \in ToSet(obs) : o.topic \in niche => o \in good
  OBVIOUS
<1> HIDE DEF good, matched
<1>5. matched \in Seq(good) /\ ToSet(matched) = ToSet(obs) \cap good
  BY AllAreKept DEF matched
<1>6. matched \in Seq(Observation)
  BY <1>2, <1>5
<1>7. (\E o \in ToSet(obs) : o.topic \in niche) => matched # <<>>
  <2> SUFFICES ASSUME NEW o \in ToSet(obs), o.topic \in niche, matched = <<>> PROVE FALSE
    OBVIOUS
  <2>1. o \in ToSet(matched)
    BY <1>4, <1>5
  <2> QED
    BY <2>1 DEF ToSet
<1> QED
  BY <1>1, <1>3, <1>5, <1>6, <1>7

LEMMA JoinedSets ==
  ASSUME NEW E, NEW a \in Seq(E), NEW b \in Seq(E)
  PROVE  ToSet(a \o b) = ToSet(a) \cup ToSet(b)
<1> DEFINE m == Len(a)
           n == Len(b)
           c == a \o b
<1>1. /\ m \in Nat /\ n \in Nat /\ DOMAIN a = 1 .. m /\ DOMAIN b = 1 .. n
      /\ Len(c) = m + n /\ DOMAIN c = 1 .. m + n
      /\ \A i \in 1 .. m + n : c[i] = IF i <= m THEN a[i] ELSE b[i - m]
  OBVIOUS
<1> HIDE DEF m, n, c
<1>2. \A i \in 1 .. m : i \in 1 .. m + n /\ c[i] = a[i]
  BY <1>1
<1>3. \A i \in 1 .. n : i + m \in 1 .. m + n /\ c[i + m] = b[i]
  BY <1>1
<1>4. \A i \in 1 .. m + n : (i \in 1 .. m /\ c[i] = a[i]) \/ (i - m \in 1 .. n /\ c[i] = b[i - m])
  BY <1>1
<1>5. ToSet(c) = {c[i] : i \in 1 .. m + n} /\ ToSet(a) = {a[i] : i \in 1 .. m} /\ ToSet(b) = {b[i] : i \in 1 .. n}
  BY <1>1 DEF ToSet
<1>6. \A e \in ToSet(c) : e \in ToSet(a) \/ e \in ToSet(b)
  BY <1>4, <1>5
<1>7. \A e \in ToSet(a) : e \in ToSet(c)
  BY <1>2, <1>5
<1>8. \A e \in ToSet(b) : e \in ToSet(c)
  BY <1>3, <1>5
<1> QED
  BY <1>6, <1>7, <1>8 DEF c

\* f[k] is what the first k sources say.
SaidBy(f, lists, niche) ==
  /\ f \in [0 .. Len(lists) -> Seq(Observation)]
  /\ f[0] = <<>>
  /\ \A k \in 1 .. Len(lists) : f[k] = f[k - 1] \o OfNiche(Observations(lists[k]), niche)

\* The sources that succeed are put together, then merged.
LEMMA SourcesAreJoined ==
  ASSUME NEW feeds, NEW niche, Succeeded(feeds) \in Seq(Seq(Entry))
  PROVE  \E f : /\ SaidBy(f, Succeeded(feeds), niche)
                /\ CombineSources(feeds, niche) = MergeObservations(f[Len(Succeeded(feeds))])
<1> DEFINE lists == Succeeded(feeds)
           n == Len(lists)
           S == Seq(Observation)
           told == [k \in 1 .. n |-> OfNiche(Observations(lists[k]), niche)]
           next == [k \in 1 .. n |-> [said \in S |-> said \o told[k]]]
           Is(said) == said = [k \in 0 .. n |-> IF k = 0 THEN <<>>
                                 ELSE said[k - 1] \o OfNiche(Observations(lists[k]), niche)]
<1>1. n \in Nat /\ <<>> \in S
  OBVIOUS
<1>2. \A k \in 1 .. n : told[k] \in S
  <2> SUFFICES ASSUME NEW k \in 1 .. n PROVE OfNiche(Observations(lists[k]), niche) \in S
    OBVIOUS
  <2>1. lists[k] \in Seq(Entry)
    OBVIOUS
  <2> QED
    BY <2>1, SourcesObserve, NicheOfFeed
<1>3. next \in [1 .. n -> [S -> S]]
  <2>1. \A k \in 1 .. n : \A said \in S : said \o told[k] \in S
    <3> HIDE DEF told, n
    <3> QED
      BY <1>2
  <2> HIDE DEF S, told, n
  <2> QED
    BY <2>1
<1>4. \A k \in 1 .. n : told[k] = OfNiche(Observations(lists[k]), niche)
  OBVIOUS
<1> HIDE DEF S, told, lists
<1>5. PICK f : Runs(f, n, S, <<>>, next)
  <2> HIDE DEF next, n
  <2> QED
    BY <1>1, <1>3, LoopsRun
<1>6. f[0] = <<>> /\ \A k \in 1 .. n : f[k] = f[k - 1] \o told[k]
  <2>1. \A k \in 1 .. n : k - 1 \in 0 .. n
    BY <1>1
  <2>2. \A k \in 1 .. n : f[k - 1] \in S
    BY <1>5, <2>1 DEF Runs
  <2> HIDE DEF n
  <2>3. \A k \in 1 .. n : next[k][f[k - 1]] = f[k - 1] \o told[k]
    BY <2>2
  <2> HIDE DEF next
  <2> QED
    BY <1>5, <2>3 DEF Runs
<1>7. Is(f)
  <2>1. f = [k \in 0 .. n |-> f[k]]
    BY <1>5 DEF Runs
  <2>2. \A k \in 0 .. n : f[k] = IF k = 0 THEN <<>>
                                 ELSE f[k - 1] \o OfNiche(Observations(lists[k]), niche)
    <3>1. \A k \in 0 .. n : k = 0 \/ (k # 0 /\ k \in 1 .. n)
      BY <1>1
    <3>2. \A k \in 1 .. n : f[k] = f[k - 1] \o OfNiche(Observations(lists[k]), niche)
      BY <1>4, <1>6
    <3> HIDE DEF n
    <3> QED
      BY <1>6, <3>1, <3>2
  <2> HIDE DEF n
  <2> QED
    BY <2>1, <2>2
<1>8. ASSUME NEW g, Is(g)
      PROVE  g[n] = f[n]
  <2> DEFINE T == {k \in 0 .. n : g[k] = f[k]}
  <2>1. 0 \in T
    BY <1>1, <1>6, <1>8
  <2>2. ASSUME NEW k \in 1 .. n, k - 1 \in T
        PROVE  k \in T
    <3>1. k \in 0 .. n /\ k # 0 /\ k - 1 \in 0 .. n
      BY <1>1
    <3>2. g[k - 1] = f[k - 1]
      BY <2>2
    <3> HIDE DEF n
    <3>3. g[k] = g[k - 1] \o OfNiche(Observations(lists[k]), niche)
      BY <1>8, <3>1
    <3>4. f[k] = f[k - 1] \o OfNiche(Observations(lists[k]), niche)
      BY <1>4, <1>6
    <3> QED
      BY <3>1, <3>2, <3>3, <3>4
  <2>3. 0 .. n \subseteq T
    <3> HIDE DEF T, n
    <3> QED
      BY <1>1, <2>1, <2>2, UpTo
  <2> QED
    BY <1>1, <2>3
<1>9. CombineSources(feeds, niche) = MergeObservations((CHOOSE said : Is(said))[n])
  BY DEF CombineSources, lists
<1> DEFINE g == CHOOSE said : Is(said)
<1>10. Is(g)
  <2> HIDE DEF Is
  <2> QED
    BY <1>7
<1>11. g[n] = f[n]
  <2> HIDE DEF Is, g
  <2> QED
    BY <1>8, <1>10
<1>12. CombineSources(feeds, niche) = MergeObservations(f[n])
  BY <1>9, <1>11
<1> QED
  BY <1>4, <1>5, <1>6, <1>12 DEF SaidBy, Runs, S, lists

\* Nothing that a source says gets lost.
LEMMA AllIsSaid ==
  ASSUME NEW lists \in Seq(Seq(Entry)), NEW niche, NEW f, SaidBy(f, lists, niche)
  PROVE  ToSet(f[Len(lists)]) =
           UNION {ToSet(OfNiche(l, niche)) : l \in {Observations(items) : items \in ToSet(lists)}}
<1> DEFINE n == Len(lists)
           told(k) == OfNiche(Observations(lists[k]), niche)
           T == {k \in 0 .. n : ToSet(f[k]) = UNION {ToSet(told(h)) : h \in 1 .. k}}
<1>1. n \in Nat /\ DOMAIN lists = 1 .. n
  OBVIOUS
<1>2. \A k \in 1 .. n : told(k) \in Seq(Observation)
  <2> SUFFICES ASSUME NEW k \in 1 .. n PROVE told(k) \in Seq(Observation)
    OBVIOUS
  <2>1. lists[k] \in Seq(Entry)
    OBVIOUS
  <2> QED
    BY <2>1, SourcesObserve, NicheOfFeed
<1>3. /\ f \in [0 .. n -> Seq(Observation)] /\ f[0] = <<>>
      /\ \A k \in 1 .. n : f[k] = f[k - 1] \o told(k)
  BY DEF SaidBy
<1> HIDE DEF told
<1>4. 0 \in T
  <2>1. ToSet(<<>>) = {} /\ 1 .. 0 = {}
    BY DEF ToSet
  <2> QED
    BY <1>1, <1>3, <2>1
<1>5. ASSUME NEW k \in 1 .. n, k - 1 \in T
      PROVE  k \in T
  <2>1. k \in 0 .. n /\ k - 1 \in 0 .. n /\ f[k - 1] \in Seq(Observation) /\ told(k) \in Seq(Observation)
    <3>1. k \in 0 .. n /\ k - 1 \in 0 .. n
      BY <1>1
    <3>2. told(k) \in Seq(Observation)
      BY <1>2
    <3> HIDE DEF n
    <3> QED
      BY <1>3, <3>1, <3>2
  <2>2. ToSet(f[k]) = ToSet(f[k - 1]) \cup ToSet(told(k))
    <3> DEFINE a == f[k - 1]
               b == told(k)
    <3>1. a \in Seq(Observation) /\ b \in Seq(Observation) /\ f[k] = a \o b
      BY <1>3, <2>1
    <3> HIDE DEF a, b
    <3>2. ToSet(a \o b) = ToSet(a) \cup ToSet(b)
      BY <3>1, JoinedSets
    <3> QED
      BY <3>1, <3>2 DEF a, b
  <2>3. \A h \in Int : h \in 1 .. k <=> h \in 1 .. k - 1 \/ h = k
    BY <1>1
  <2>4. UNION {ToSet(told(h)) : h \in 1 .. k} = (UNION {ToSet(told(h)) : h \in 1 .. k - 1}) \cup ToSet(told(k))
    <3>1. \A h : h \in 1 .. k <=> h \in 1 .. k - 1 \/ h = k
      BY <2>3
    <3> QED
      BY <3>1
  <2> QED
    BY <1>5, <2>1, <2>2, <2>4
<1>6. n \in T
  <2> HIDE DEF T, n
  <2>1. 0 .. n \subseteq T
    BY <1>1, <1>4, <1>5, UpTo
  <2> QED
    BY <1>1, <2>1
<1>7. UNION {ToSet(told(h)) : h \in 1 .. n} =
        UNION {ToSet(OfNiche(l, niche)) : l \in {Observations(items) : items \in ToSet(lists)}}
  <2> DEFINE said == {Observations(items) : items \in ToSet(lists)}
  <2>1. ToSet(lists) = {lists[h] : h \in 1 .. n}
    BY <1>1 DEF ToSet
  <2>2. \A h \in 1 .. n : \E l \in said : told(h) = OfNiche(l, niche)
    BY <2>1 DEF told
  <2>3. \A l \in said : \E h \in 1 .. n : told(h) = OfNiche(l, niche)
    BY <2>1 DEF told
  <2> HIDE DEF said, n
  <2>4. UNION {ToSet(told(h)) : h \in 1 .. n} = UNION {ToSet(OfNiche(l, niche)) : l \in said}
    BY <2>2, <2>3
  <2> QED
    BY <2>4 DEF said
<1> QED
  BY <1>6, <1>7

\* What is in the feed after k observations: a row for each topic, with the largest
\* volume and the largest growth of those that are of it.
Merges(feed, obs, k) ==
  /\ feed \in Seq(Observation)
  /\ \A i, j \in 1 .. Len(feed) : feed[i].topic = feed[j].topic => i = j
  /\ \A h \in 1 .. k : \E i \in 1 .. Len(feed) : feed[i].topic = obs[h].topic /\ Matches(feed[i], obs[h])
  /\ \A i \in 1 .. Len(feed) : \E h \in 1 .. k : obs[h].topic = feed[i].topic /\ obs[h].volume = feed[i].volume
  /\ \A i \in 1 .. Len(feed) : \E h \in 1 .. k : obs[h].topic = feed[i].topic /\ obs[h].growth = feed[i].growth

Raised(r, o) == [r EXCEPT !.volume = Max({@, o.volume}), !.growth = Max({@, o.growth})]

LEMMA RowsAreRaised ==
  ASSUME NEW r \in Observation, NEW o \in Observation
  PROVE  /\ Raised(r, o) \in Observation /\ Raised(r, o).topic = r.topic
         /\ Matches(Raised(r, o), r) /\ Matches(Raised(r, o), o)
         /\ Raised(r, o).volume = r.volume \/ Raised(r, o).volume = o.volume
         /\ Raised(r, o).growth = r.growth \/ Raised(r, o).growth = o.growth
<1> DEFINE v == Max({r.volume, o.volume})
           g == Max({r.growth, o.growth})
<1>1. /\ r.volume \in Nat /\ o.volume \in Nat /\ r.growth \in Nat /\ o.growth \in Nat
      /\ r.topic \in Name
  BY DEF Observation
<1>2. v = IF r.volume >= o.volume THEN r.volume ELSE o.volume
  BY <1>1, LargerOfTwo
<1>3. g = IF r.growth >= o.growth THEN r.growth ELSE o.growth
  BY <1>1, LargerOfTwo
<1>4. /\ Raised(r, o).topic = r.topic /\ Raised(r, o).volume = v /\ Raised(r, o).growth = g
      /\ Raised(r, o) = [topic |-> r.topic, volume |-> v, growth |-> g]
  <2> HIDE DEF v, g
  <2>1. Raised(r, o) = [r EXCEPT !.volume = v, !.growth = g]
    BY DEF Raised, v, g
  <2> QED
    BY <2>1 DEF Observation
<1> HIDE DEF v, g
<1>5. v \in Nat /\ g \in Nat /\ v >= r.volume /\ v >= o.volume /\ g >= r.growth /\ g >= o.growth
        /\ (v = r.volume \/ v = o.volume) /\ (g = r.growth \/ g = o.growth)
  BY <1>1, <1>2, <1>3
<1>6. Raised(r, o) \in Observation
  BY <1>1, <1>4, <1>5 DEF Observation
<1> QED
  BY <1>1, <1>4, <1>5, <1>6 DEF Matches

LEMMA MergingGoesOn ==
  ASSUME NEW feed, NEW obs, NEW k \in Nat \ {0}, Merges(feed, obs, k - 1), obs[k] \in Observation,
         \A h \in 1 .. k : obs[h] \in Observation
  PROVE  Merges(WithObservation(feed, obs[k]), obs, k)
<1> DEFINE o == obs[k]
           m == Len(feed)
           new == WithObservation(feed, o)
<1>1. /\ feed \in Seq(Observation)
      /\ \A i, j \in 1 .. m : feed[i].topic = feed[j].topic => i = j
      /\ \A h \in 1 .. k - 1 : \E i \in 1 .. m : feed[i].topic = obs[h].topic /\ Matches(feed[i], obs[h])
      /\ \A i \in 1 .. m : \E h \in 1 .. k - 1 : obs[h].topic = feed[i].topic /\ obs[h].volume = feed[i].volume
      /\ \A i \in 1 .. m : \E h \in 1 .. k - 1 : obs[h].topic = feed[i].topic /\ obs[h].growth = feed[i].growth
  BY DEF Merges
<1>2. /\ m \in Nat /\ DOMAIN feed = 1 .. m /\ \A i \in 1 .. m : feed[i] \in Observation
  BY <1>1
<1>3. /\ \A h \in 1 .. k - 1 : h \in 1 .. k
      /\ \A h \in 1 .. k : h = k \/ h \in 1 .. k - 1
      /\ k \in 1 .. k
  OBVIOUS
<1>4. CASE \E i \in 1 .. m : feed[i].topic = o.topic
  <2>1. PICK a \in 1 .. m : feed[a].topic = o.topic
    BY <1>4
  <2> DEFINE row(i) == IF feed[i].topic # o.topic THEN feed[i] ELSE Raised(feed[i], o)
  <2>2. new = [i \in 1 .. m |-> row(i)]
    BY <1>2, <1>4 DEF WithObservation, Raised
  <2>3. \A i \in 1 .. m :
          /\ row(i) \in Observation /\ row(i).topic = feed[i].topic /\ Matches(row(i), feed[i])
          /\ row(i).volume = feed[i].volume \/ (row(i).volume = o.volume /\ feed[i].topic = o.topic)
          /\ row(i).growth = feed[i].growth \/ (row(i).growth = o.growth /\ feed[i].topic = o.topic)
          /\ feed[i].topic = o.topic => Matches(row(i), o)
    <3> SUFFICES ASSUME NEW i \in 1 .. m
                 PROVE  /\ row(i) \in Observation /\ row(i).topic = feed[i].topic /\ Matches(row(i), feed[i])
                        /\ row(i).volume = feed[i].volume \/ (row(i).volume = o.volume /\ feed[i].topic = o.topic)
                        /\ row(i).growth = feed[i].growth \/ (row(i).growth = o.growth /\ feed[i].topic = o.topic)
                        /\ feed[i].topic = o.topic => Matches(row(i), o)
      OBVIOUS
    <3> DEFINE r == feed[i]
    <3>1. r \in Observation
      BY <1>2
    <3>2. Matches(r, r)
      BY <3>1 DEF Matches, Observation
    <3> HIDE DEF r, o
    <3>3. /\ Raised(r, o) \in Observation /\ Raised(r, o).topic = r.topic
          /\ Matches(Raised(r, o), r) /\ Matches(Raised(r, o), o)
          /\ Raised(r, o).volume = r.volume \/ Raised(r, o).volume = o.volume
          /\ Raised(r, o).growth = r.growth \/ Raised(r, o).growth = o.growth
      BY <3>1, RowsAreRaised DEF o
    <3>4. CASE r.topic # o.topic
      <4>1. row(i) = r
        BY <3>4 DEF r
      <4> HIDE DEF row
      <4> QED
        BY <3>1, <3>2, <3>4, <4>1 DEF r
    <3>5. CASE r.topic = o.topic
      <4>1. row(i) = Raised(r, o)
        BY <3>5 DEF r
      <4> HIDE DEF row
      <4> QED
        BY <3>3, <3>5, <4>1 DEF r
    <3> QED
      BY <3>4, <3>5
  <2> HIDE DEF row, new, m, o
  <2>4. new \in Seq(Observation) /\ Len(new) = m /\ \A i \in 1 .. m : new[i] = row(i)
    <3>1. new \in [1 .. m -> Observation]
      BY <2>2, <2>3
    <3> QED
      BY <1>2, <2>2, <3>1
  <2>5. \A i, j \in 1 .. m : new[i].topic = new[j].topic => i = j
    <3>1. \A i \in 1 .. m : new[i].topic = feed[i].topic
      BY <2>3, <2>4
    <3> QED
      BY <1>1, <3>1
  <2>6. ASSUME NEW h \in 1 .. k
        PROVE  \E i \in 1 .. m : new[i].topic = obs[h].topic /\ Matches(new[i], obs[h])
    <3>1. CASE h = k
      BY <2>1, <2>3, <2>4, <3>1 DEF o
    <3>2. CASE h \in 1 .. k - 1
      <4>1. PICK i \in 1 .. m : feed[i].topic = obs[h].topic /\ Matches(feed[i], obs[h])
        BY <1>1, <3>2
      <4>2. new[i].topic = obs[h].topic /\ new[i] \in Observation /\ feed[i] \in Observation
              /\ Matches(new[i], feed[i])
        BY <1>2, <2>3, <2>4, <4>1
      <4>3. obs[h] \in Observation
        OBVIOUS
      <4>4. Matches(new[i], obs[h])
        BY <4>1, <4>2, <4>3 DEF Matches, Observation
      <4> QED
        BY <4>2, <4>4
    <3> QED
      BY <1>3, <3>1, <3>2
  <2>7. ASSUME NEW i \in 1 .. m
        PROVE  /\ \E h \in 1 .. k : obs[h].topic = new[i].topic /\ obs[h].volume = new[i].volume
               /\ \E h \in 1 .. k : obs[h].topic = new[i].topic /\ obs[h].growth = new[i].growth
    <3>1. /\ new[i].topic = feed[i].topic
          /\ new[i].volume = feed[i].volume \/ (new[i].volume = o.volume /\ feed[i].topic = o.topic)
          /\ new[i].growth = feed[i].growth \/ (new[i].growth = o.growth /\ feed[i].topic = o.topic)
      BY <2>3, <2>4
    <3>2. \E h \in 1 .. k : obs[h].topic = new[i].topic /\ obs[h].volume = new[i].volume
      BY <1>1, <1>3, <3>1 DEF o
    <3>3. \E h \in 1 .. k : obs[h].topic = new[i].topic /\ obs[h].growth = new[i].growth
      BY <1>1, <1>3, <3>1 DEF o
    <3> QED
      BY <3>2, <3>3
  <2>8. Merges(new, obs, k)
    BY <2>4, <2>5, <2>6, <2>7 DEF Merges
  <2> QED
    BY <2>8 DEF new, o
<1>5. CASE ~ \E i \in 1 .. m : feed[i].topic = o.topic
  <2>1. new = Append(feed, o)
    BY <1>2, <1>5 DEF WithObservation
  <2> HIDE DEF o
  <2>2. /\ new \in Seq(Observation) /\ Len(new) = m + 1
        /\ \A i \in 1 .. m : new[i] = feed[i]
        /\ new[m + 1] = o
    <3>1. o \in Observation
      BY DEF o
    <3> QED
      BY <1>1, <2>1, <3>1
  <2>3. /\ \A i \in 1 .. m + 1 : i = m + 1 \/ i \in 1 .. m
        /\ \A i \in 1 .. m : i \in 1 .. m + 1
        /\ m + 1 \in 1 .. m + 1
    BY <1>2
  <2> HIDE DEF new, m
  <2>4. \A i, j \in 1 .. m + 1 : new[i].topic = new[j].topic => i = j
    <3>1. \A i \in 1 .. m : new[i].topic = feed[i].topic /\ new[i].topic # new[m + 1].topic
      BY <1>5, <2>2
    <3>2. \A i, j \in 1 .. m : new[i].topic = new[j].topic => i = j
      BY <1>1, <3>1
    <3> QED
      BY <2>3, <3>1, <3>2
  <2>5. Matches(o, o)
    BY DEF Matches, Observation, o
  <2>6. \A h \in 1 .. k : \E i \in 1 .. m + 1 : new[i].topic = obs[h].topic /\ Matches(new[i], obs[h])
    <3> SUFFICES ASSUME NEW h \in 1 .. k
                 PROVE  \E i \in 1 .. m + 1 : new[i].topic = obs[h].topic /\ Matches(new[i], obs[h])
      OBVIOUS
    <3>1. CASE h = k
      BY <2>2, <2>3, <2>5, <3>1 DEF o
    <3>2. CASE h \in 1 .. k - 1
      BY <1>1, <2>2, <2>3, <3>2
    <3> QED
      BY <1>3, <3>1, <3>2
  <2>7. ASSUME NEW i \in 1 .. m + 1
        PROVE  /\ \E h \in 1 .. k : obs[h].topic = new[i].topic /\ obs[h].volume = new[i].volume
               /\ \E h \in 1 .. k : obs[h].topic = new[i].topic /\ obs[h].growth = new[i].growth
    <3>1. CASE i = m + 1
      BY <1>3, <2>2, <3>1 DEF o
    <3>2. CASE i \in 1 .. m
      <4>1. new[i] = feed[i]
        BY <2>2, <3>2
      <4>2. \E h \in 1 .. k : obs[h].topic = new[i].topic /\ obs[h].volume = new[i].volume
        BY <1>1, <1>3, <3>2, <4>1
      <4>3. \E h \in 1 .. k : obs[h].topic = new[i].topic /\ obs[h].growth = new[i].growth
        BY <1>1, <1>3, <3>2, <4>1
      <4> QED
        BY <4>2, <4>3
    <3> QED
      BY <2>3, <3>1, <3>2
  <2>8. Merges(new, obs, k)
    BY <2>2, <2>4, <2>6, <2>7 DEF Merges
  <2> QED
    BY <2>8 DEF new, o
<1> QED
  BY <1>4, <1>5

\* f[k] is the feed after k observations.
FeedBy(f, obs) ==
  /\ f \in [0 .. Len(obs) -> Seq(Observation)]
  /\ f[0] = <<>>
  /\ \A k \in 1 .. Len(obs) : f[k] = WithObservation(f[k - 1], obs[k])

LEMMA FeedsStayTyped ==
  ASSUME NEW feed \in Seq(Observation), NEW o \in Observation
  PROVE  WithObservation(feed, o) \in Seq(Observation)
<1> DEFINE m == Len(feed)
<1>1. m \in Nat /\ DOMAIN feed = 1 .. m /\ \A i \in 1 .. m : feed[i] \in Observation
  OBVIOUS
<1>2. CASE \E i \in 1 .. m : feed[i].topic = o.topic
  <2> DEFINE row(i) == IF feed[i].topic # o.topic THEN feed[i] ELSE Raised(feed[i], o)
             new == [i \in 1 .. m |-> row(i)]
  <2>1. WithObservation(feed, o) = new
    BY <1>1, <1>2 DEF WithObservation, Raised
  <2>2. \A i \in 1 .. m : row(i) \in Observation
    BY <1>1, RowsAreRaised
  <2> HIDE DEF row, m
  <2>3. new \in [1 .. m -> Observation]
    BY <2>2
  <2>4. new \in Seq(Observation)
    BY <1>1, <2>3
  <2> QED
    BY <2>1, <2>4
<1>3. CASE ~ \E i \in 1 .. m : feed[i].topic = o.topic
  BY <1>1, <1>3 DEF WithObservation
<1> QED
  BY <1>2, <1>3

LEMMA MergingRuns ==
  ASSUME NEW obs \in Seq(Observation)
  PROVE  \E f : FeedBy(f, obs) /\ MergeObservations(obs) = f[Len(obs)]
<1> DEFINE n == Len(obs)
           S == Seq(Observation)
           next == [k \in 1 .. n |-> [feed \in S |-> WithObservation(feed, obs[k])]]
           Is(merged) == merged = [k \in 0 .. n |-> IF k = 0 THEN <<>> ELSE WithObservation(merged[k - 1], obs[k])]
<1>1. n \in Nat /\ <<>> \in S
  OBVIOUS
<1>2. next \in [1 .. n -> [S -> S]]
  <2>1. \A k \in 1 .. n : \A feed \in S : WithObservation(feed, obs[k]) \in S
    <3> SUFFICES ASSUME NEW k \in 1 .. n, NEW feed \in S PROVE WithObservation(feed, obs[k]) \in S
      OBVIOUS
    <3>1. obs[k] \in Observation
      OBVIOUS
    <3> QED
      BY <3>1, FeedsStayTyped
  <2> HIDE DEF S
  <2> QED
    BY <2>1
<1> HIDE DEF S
<1>3. PICK f : Runs(f, n, S, <<>>, next)
  <2> HIDE DEF next, n
  <2> QED
    BY <1>1, <1>2, LoopsRun
<1>4. f[0] = <<>> /\ \A k \in 1 .. n : f[k] = WithObservation(f[k - 1], obs[k])
  <2>1. \A k \in 1 .. n : k - 1 \in 0 .. n
    BY <1>1
  <2>2. \A k \in 1 .. n : f[k - 1] \in S
    BY <1>3, <2>1 DEF Runs
  <2> HIDE DEF n
  <2>3. \A k \in 1 .. n : next[k][f[k - 1]] = WithObservation(f[k - 1], obs[k])
    BY <2>2
  <2> HIDE DEF next
  <2> QED
    BY <1>3, <2>3 DEF Runs
<1>5. Is(f)
  <2>1. f = [k \in 0 .. n |-> f[k]]
    BY <1>3 DEF Runs
  <2>2. \A k \in 0 .. n : f[k] = IF k = 0 THEN <<>> ELSE WithObservation(f[k - 1], obs[k])
    BY <1>1, <1>4
  <2> HIDE DEF n
  <2> QED
    BY <2>1, <2>2
<1>6. ASSUME NEW g, Is(g)
      PROVE  g[n] = f[n]
  <2> DEFINE T == {k \in 0 .. n : g[k] = f[k]}
  <2>1. 0 \in T
    BY <1>1, <1>4, <1>6
  <2>2. ASSUME NEW k \in 1 .. n, k - 1 \in T
        PROVE  k \in T
    BY <1>1, <1>4, <1>6, <2>2
  <2>3. 0 .. n \subseteq T
    <3> HIDE DEF T, n
    <3> QED
      BY <1>1, <2>1, <2>2, UpTo
  <2> QED
    BY <1>1, <2>3
<1>7. MergeObservations(obs) = (CHOOSE merged : Is(merged))[n]
  BY DEF MergeObservations
<1> DEFINE g == CHOOSE merged : Is(merged)
<1>8. Is(g)
  <2> HIDE DEF Is
  <2> QED
    BY <1>5
<1>9. g[n] = f[n]
  <2> HIDE DEF Is, g
  <2> QED
    BY <1>6, <1>8
<1>10. MergeObservations(obs) = f[n]
  BY <1>7, <1>9
<1> QED
  BY <1>3, <1>4, <1>10 DEF FeedBy, Runs, S

LEMMA FeedIsMerged ==
  ASSUME NEW obs \in Seq(Observation)
  PROVE  Merges(MergeObservations(obs), obs, Len(obs))
<1> DEFINE n == Len(obs)
<1>1. PICK f : FeedBy(f, obs) /\ MergeObservations(obs) = f[n]
  BY MergingRuns
<1> DEFINE T == {k \in 0 .. n : Merges(f[k], obs, k)}
<1>2. n \in Nat /\ f[0] = <<>> /\ \A k \in 1 .. n : f[k] = WithObservation(f[k - 1], obs[k])
  BY <1>1 DEF FeedBy
<1>3. \A k \in 1 .. n : obs[k] \in Observation
  OBVIOUS
<1>4. 0 \in T
  <2>1. Merges(<<>>, obs, 0)
    BY DEF Merges
  <2> QED
    BY <1>2, <2>1
<1>5. ASSUME NEW k \in 1 .. n, k - 1 \in T
      PROVE  k \in T
  <2>1. Merges(f[k - 1], obs, k - 1) /\ k \in Nat \ {0} /\ k \in 0 .. n
    BY <1>2, <1>5
  <2>2. \A h \in 1 .. k : obs[h] \in Observation
    BY <1>2, <1>3
  <2>3. Merges(WithObservation(f[k - 1], obs[k]), obs, k)
    BY <1>3, <2>1, <2>2, MergingGoesOn
  <2> QED
    BY <1>2, <2>1, <2>3
<1>6. n \in T
  <2> HIDE DEF T, n
  <2>1. 0 .. n \subseteq T
    BY <1>2, <1>4, <1>5, UpTo
  <2> QED
    BY <1>2, <2>1
<1> QED
  BY <1>1, <1>6

\* What the feed has of what is said.
Strongest(feed, said) ==
  /\ \A j, k \in DOMAIN feed : feed[j].topic = feed[k].topic => j = k
  /\ {o.topic : o \in ToSet(feed)} = {o.topic : o \in said}
  /\ \A o \in ToSet(feed) :
       LET same == {s \in said : s.topic = o.topic}
       IN o.volume = Max({s.volume : s \in same}) /\ o.growth = Max({s.growth : s \in same})

LEMMA MergedIsStrongest ==
  ASSUME NEW obs \in Seq(Observation)
  PROVE  MergeObservations(obs) \in Seq(Observation) /\ Strongest(MergeObservations(obs), ToSet(obs))
<1> DEFINE feed == MergeObservations(obs)
           m == Len(feed)
           n == Len(obs)
<1>1. Merges(feed, obs, n)
  BY FeedIsMerged
<1> HIDE DEF feed
<1>2. /\ feed \in Seq(Observation) /\ m \in Nat /\ DOMAIN feed = 1 .. m
      /\ DOMAIN obs = 1 .. n /\ n \in Nat
  BY <1>1 DEF Merges
<1>3. /\ \A i \in 1 .. m : feed[i] \in Observation
      /\ \A h \in 1 .. n : obs[h] \in Observation
  BY <1>2
<1> HIDE DEF m, n
<1>4. /\ \A i, j \in 1 .. m : feed[i].topic = feed[j].topic => i = j
      /\ \A h \in 1 .. n : \E i \in 1 .. m : feed[i].topic = obs[h].topic /\ Matches(feed[i], obs[h])
      /\ \A i \in 1 .. m : \E h \in 1 .. n : obs[h].topic = feed[i].topic /\ obs[h].volume = feed[i].volume
      /\ \A i \in 1 .. m : \E h \in 1 .. n : obs[h].topic = feed[i].topic /\ obs[h].growth = feed[i].growth
  BY <1>1 DEF Merges, m, n
<1>5. ToSet(feed) = {feed[i] : i \in 1 .. m} /\ ToSet(obs) = {obs[h] : h \in 1 .. n}
  BY <1>2 DEF ToSet
<1>6. {o.topic : o \in ToSet(feed)} = {o.topic : o \in ToSet(obs)}
  <2>1. \A o \in ToSet(feed) : \E s \in ToSet(obs) : s.topic = o.topic
    BY <1>4, <1>5
  <2>2. \A s \in ToSet(obs) : \E o \in ToSet(feed) : o.topic = s.topic
    BY <1>4, <1>5
  <2> QED
    BY <2>1, <2>2
<1>7. ASSUME NEW i \in 1 .. m
      PROVE  LET same == {s \in ToSet(obs) : s.topic = feed[i].topic}
             IN feed[i].volume = Max({s.volume : s \in same}) /\ feed[i].growth = Max({s.growth : s \in same})
  <2> DEFINE same == {s \in ToSet(obs) : s.topic = feed[i].topic}
             V == {s.volume : s \in same}
             G == {s.growth : s \in same}
             v == feed[i].volume
             g == feed[i].growth
  <2>1. \A s \in same : s \in Observation /\ Matches(feed[i], s)
    <3> SUFFICES ASSUME NEW h \in 1 .. n, obs[h].topic = feed[i].topic PROVE obs[h] \in Observation /\ Matches(feed[i], obs[h])
      BY <1>5
    <3>1. PICK j \in 1 .. m : feed[j].topic = obs[h].topic /\ Matches(feed[j], obs[h])
      BY <1>4
    <3>2. i = j
      BY <1>4, <3>1
    <3> QED
      BY <1>3, <3>1, <3>2
  <2>2. (\E s \in same : s.volume = v) /\ (\E s \in same : s.growth = g)
    BY <1>4, <1>5
  <2>3. \A s \in same : s.volume \in Nat /\ s.growth \in Nat /\ s.volume <= v /\ s.growth <= g
    BY <2>1 DEF Matches, Observation
  <2>4. v \in Nat /\ g \in Nat
    BY <1>3 DEF Observation
  <2> HIDE DEF same, v, g
  <2>5. V \in SUBSET Int /\ v \in V /\ \A y \in V : v >= y
    BY <2>2, <2>3, <2>4
  <2>6. G \in SUBSET Int /\ g \in G /\ \A y \in G : g >= y
    BY <2>2, <2>3, <2>4
  <2> HIDE DEF V, G
  <2>7. Max(V) = v /\ Max(G) = g
    BY <2>5, <2>6, GreatestIsMax
  <2> QED
    BY <2>7 DEF V, G, same, v, g
<1>8. \A o \in ToSet(feed) :
        LET same == {s \in ToSet(obs) : s.topic = o.topic}
        IN o.volume = Max({s.volume : s \in same}) /\ o.growth = Max({s.growth : s \in same})
  <2> SUFFICES ASSUME NEW o \in ToSet(feed)
               PROVE  LET same == {s \in ToSet(obs) : s.topic = o.topic}
                      IN o.volume = Max({s.volume : s \in same}) /\ o.growth = Max({s.growth : s \in same})
    OBVIOUS
  <2>1. PICK i \in 1 .. m : o = feed[i]
    BY <1>5
  <2> QED
    BY <1>7, <2>1
<1>9. Strongest(feed, ToSet(obs))
  BY <1>2, <1>4, <1>6, <1>8 DEF Strongest
<1> QED
  BY <1>2, <1>9 DEF feed

LEMMA SourcesThatSucceed ==
  ASSUME NEW feeds \in Feeds
  PROVE  Succeeded(feeds) \in Seq(Seq(Entry))
<1> DEFINE E == Seq(Entry) \cup {Failed}
           good == ToSet(feeds) \ {Failed}
<1>1. feeds \in Seq(E)
  BY FeedsAssumption DEF FeedsAssumption
<1>2. good \in SUBSET Seq(Entry)
  BY <1>1 DEF ToSet
<1>3. Succeeded(feeds) = AllKept(feeds, good)
  BY DEF Succeeded
<1> HIDE DEF E, good
<1>4. AllKept(feeds, good) \in Seq(good)
  BY <1>1, AllAreKept
<1> QED
  BY <1>2, <1>3, <1>4

\* A sweep of the sources.
LEMMA FeedOfSources ==
  ASSUME NEW feeds \in Feeds, NEW niche
  PROVE  LET lists == {Observations(f) : f \in ToSet(Succeeded(feeds))}
             said == UNION {ToSet(OfNiche(l, niche)) : l \in lists}
             feed == CombineSources(feeds, niche)
         IN /\ feed \in Seq(Observation)
            /\ (\E l \in lists : l # <<>>) => feed # <<>>
            /\ Strongest(feed, said)
            /\ (\A l \in lists : \E o \in ToSet(l) : o.topic \in niche) =>
                 {o.topic : o \in ToSet(feed)} \subseteq niche
<1> DEFINE all == Succeeded(feeds)
           lists == {Observations(f) : f \in ToSet(all)}
           said == UNION {ToSet(OfNiche(l, niche)) : l \in lists}
           feed == CombineSources(feeds, niche)
<1>1. all \in Seq(Seq(Entry))
  BY SourcesThatSucceed
<1>2. PICK f : SaidBy(f, all, niche) /\ feed = MergeObservations(f[Len(all)])
  BY <1>1, SourcesAreJoined
<1> HIDE DEF all, feed
<1>3. \A l \in lists : l \in Seq(Observation)
  <2> SUFFICES ASSUME NEW k \in DOMAIN all PROVE Observations(all[k]) \in Seq(Observation)
    BY DEF ToSet
  <2>1. all[k] \in Seq(Entry)
    BY <1>1
  <2> QED
    BY <2>1, SourcesObserve
<1> HIDE DEF lists
<1> DEFINE obs == f[Len(all)]
<1>4. obs \in Seq(Observation)
  <2>1. Len(all) \in 0 .. Len(all)
    BY <1>1
  <2> QED
    BY <1>2, <2>1 DEF SaidBy
<1>5. ToSet(obs) = said
  BY <1>1, <1>2, AllIsSaid DEF lists
<1> HIDE DEF obs, said
<1>6. feed \in Seq(Observation) /\ Strongest(feed, said)
  BY <1>2, <1>4, <1>5, MergedIsStrongest DEF obs
<1>7. ASSUME NEW l \in lists, l # <<>>
      PROVE  feed # <<>>
  <2> DEFINE of == OfNiche(l, niche)
  <2>1. of \in Seq(Observation) /\ of # <<>>
    BY <1>3, <1>7, NicheOfFeed
  <2> HIDE DEF of
  <2>2. 1 \in DOMAIN of
    BY <2>1
  <2>3. of[1] \in said
    BY <2>2 DEF said, of, ToSet
  <2>4. of[1].topic \in {o.topic : o \in ToSet(feed)}
    BY <1>6, <2>3 DEF Strongest
  <2> QED
    BY <2>4 DEF ToSet
<1>8. ASSUME \A l \in lists : \E o \in ToSet(l) : o.topic \in niche
      PROVE  {o.topic : o \in ToSet(feed)} \subseteq niche
  <2>1. \A l \in lists : \A o \in ToSet(OfNiche(l, niche)) : o.topic \in niche
    <3> SUFFICES ASSUME NEW l \in lists PROVE \A o \in ToSet(OfNiche(l, niche)) : o.topic \in niche
      OBVIOUS
    <3>1. l \in Seq(Observation) /\ \E o \in ToSet(l) : o.topic \in niche
      BY <1>3, <1>8
    <3> QED
      BY <3>1, NicheOfFeed
  <2>2. \A o \in said : o.topic \in niche
    BY <2>1 DEF said
  <2>3. {o.topic : o \in said} \subseteq niche
    BY <2>2
  <2> QED
    BY <1>6, <2>3 DEF Strongest
<1> QED
  BY <1>6, <1>7, <1>8 DEF all, lists, said, feed

\* For all samples, however many posts and views they have: combineSources,
\* rankTrends, rankByEngagement, summarizePerformance and buildReport put the best
\* first and lose nothing, and rivals whose rates differ by less than the rounding of
\* competitor/metrics.ts:23 may be ranked by their views.
THEOREM BestAlwaysComesFirst == InsightsSpec => []BestComesFirst
<1>1. ASSUME InsightsInit, IsTrends
      PROVE  FeedIsStrongest /\ LargerAndFasterRanksFirst
  <2> DEFINE feeds == insight.feeds
             niche == insight.niche
             lists == {Observations(f) : f \in ToSet(Succeeded(feeds))}
             said == UNION {ToSet(OfNiche(l, niche)) : l \in lists}
             feed == CombineSources(feeds, niche)
  <2>1. feeds \in Feeds
    <3>1. CASE insight \in [feeds : Feeds, niche : Niches]
      BY <3>1
    <3>2. CASE insight \in [rivals : Channels] \cup [posts : Posts]
      <4>1. "feeds" \notin DOMAIN insight
        BY <3>2
      <4> QED
        BY <1>1, <4>1 DEF IsTrends
    <3> QED
      BY <1>1, <3>1, <3>2 DEF InsightsInit
  <2>2. FeedIsStrongest
    <3> HIDE DEF feeds, niche
    <3>1. /\ (\E l \in lists : l # <<>>) => feed # <<>>
          /\ (\A l \in lists : \E o \in ToSet(l) : o.topic \in niche) =>
               {o.topic : o \in ToSet(feed)} \subseteq niche
      BY <2>1, FeedOfSources
    <3>2. Strongest(feed, said)
      BY <2>1, FeedOfSources
    <3> HIDE DEF lists, said, feed
    <3>3. /\ \A j, k \in DOMAIN feed : feed[j].topic = feed[k].topic => j = k
          /\ {o.topic : o \in ToSet(feed)} = {o.topic : o \in said}
          /\ \A o \in ToSet(feed) :
               LET same == {s \in said : s.topic = o.topic}
               IN o.volume = Max({s.volume : s \in same}) /\ o.growth = Max({s.growth : s \in same})
      BY <3>2 DEF Strongest
    <3> QED
      BY <3>1, <3>3, Zenon DEF FeedIsStrongest, feeds, niche, lists, said, feed
  <2>3. LargerAndFasterRanksFirst
    <3> HIDE DEF feeds, niche
    <3>1. CombineSources(feeds, niche) \in Seq(Observation)
      BY <2>1, FeedOfSources
    <3> QED
      BY <3>1, RankedByScore DEF LargerAndFasterRanksFirst, feeds, niche
  <2> QED
    BY <2>2, <2>3
<1>2. ASSUME InsightsInit, IsRivals
      PROVE  BetterPostsRankFirst
  <2>1. insight.rivals \in Channels
    <3>1. CASE insight \in [rivals : Channels]
      BY <3>1
    <3>2. CASE insight \in [feeds : Feeds, niche : Niches] \cup [posts : Posts]
      <4>1. "rivals" \notin DOMAIN insight
        BY <3>2
      <4> QED
        BY <1>2, <4>1 DEF IsRivals
    <3> QED
      BY <1>2, <3>1, <3>2 DEF InsightsInit
  <2>2. insight.rivals \in Seq(Seq(RivalPost))
    BY <2>1, ChannelsAssumption DEF ChannelsAssumption
  <2>3. ASSUME NEW j \in DOMAIN insight.rivals, NEW k \in DOMAIN insight.rivals,
               Outdoes(insight.rivals[j], insight.rivals[k], RateParts)
        PROVE  Outdoes(insight.rivals[j], insight.rivals[k], 1)
    <3>1. insight.rivals[j] \in Seq(RivalPost) /\ insight.rivals[k] \in Seq(RivalPost)
      BY <2>2
    <3>2. RateParts \in Nat \ {0}
      BY PartsAssumption DEF PartsAssumption
    <3> QED
      BY <2>3, <3>1, <3>2, WiderMargins
  <2> QED
    BY <2>2, <2>3, RankedByRate DEF BetterPostsRankFirst
<1>3. ASSUME InsightsInit, IsPosts
      PROVE  BriefNamesTheBest /\ ReportAddsUp
  <2>1. insight.posts \in Posts
    <3>1. CASE insight \in [posts : Posts]
      BY <3>1
    <3>2. CASE insight \in [feeds : Feeds, niche : Niches] \cup [rivals : Channels]
      <4>1. "posts" \notin DOMAIN insight
        BY <3>2
      <4> QED
        BY <1>3, <4>1 DEF IsPosts
    <3> QED
      BY <1>3, <3>1, <3>2 DEF InsightsInit
  <2>2. insight.posts \in Seq(ClientPost)
    BY <2>1, PostsAssumption DEF PostsAssumption
  <2>3. BriefNamesTheBest
    BY <2>2, BriefOfPosts DEF BriefNamesTheBest
  <2>4. ReportAddsUp
    BY <2>2, ReportOfPosts DEF ReportAddsUp
  <2> QED
    BY <2>3, <2>4
<1>4. InsightsInit => BestComesFirst
  <2> SUFFICES ASSUME InsightsInit PROVE BestComesFirst
    OBVIOUS
  <2>1. ~IsTrends => FeedIsStrongest /\ LargerAndFasterRanksFirst
    <3>1. ~IsTrends => FeedIsStrongest
      BY Zenon DEF FeedIsStrongest
    <3>2. ~IsTrends => LargerAndFasterRanksFirst
      BY DEF LargerAndFasterRanksFirst
    <3> QED
      BY <3>1, <3>2
  <2>2. ~IsRivals => BetterPostsRankFirst
    BY Zenon DEF BetterPostsRankFirst
  <2>3. ~IsPosts => BriefNamesTheBest /\ ReportAddsUp
    BY Zenon DEF BriefNamesTheBest, ReportAddsUp
  <2> QED
    BY <1>1, <1>2, <1>3, <2>1, <2>2, <2>3 DEF BestComesFirst
<1>5. InsightsInit /\ [InsightsNext]_insight => InsightsInit'
  BY DEF InsightsInit, InsightsNext
<1> QED
  BY <1>4, <1>5, PTL DEF InsightsSpec
=============================================================================

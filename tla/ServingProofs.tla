---------------------------- MODULE ServingProofs ----------------------------
(***************************************************************************)
(* Theorems about FlagServing and the engine of Evaluation: for any trees, *)
(* segments, rules, settings and contexts, what the four evaluations of a  *)
(* flag have to do with one another and with its rules.                    *)
(***************************************************************************)
EXTENDS FlagServing, FiniteSetTheorems, WellFoundedInduction, TLAPS

-----------------------------------------------------------------------------
(* Recursion.  What a recursive function computes is a fact only once the    *)
(* function is known to exist; both are shown by a smallest counterexample.  *)

LEMMA LeastOf ==
  ASSUME NEW T \in SUBSET Nat, T # {}
  PROVE  \E x \in T : \A y \in T : x <= y
PROOF
  <1> DEFINE R == StrictSubsetOrdering(Nat)
  <1> DEFINE S == FiniteSubsetsOf(Nat)
  <1> DEFINE below == {0..(x-1) : x \in T}
  <1>1. IsWellFoundedOn(R, S)
    BY FS_StrictSubsetOrderingWellFounded
  <1>2. below \subseteq S
    <2>1. \A x \in Nat : 0..(x-1) \in SUBSET Nat /\ IsFiniteSet(0..(x-1))
      BY FS_Interval
    <2> QED BY <2>1 DEF FiniteSubsetsOf
  <1>3. below # {}
    OBVIOUS
  <1>4. PICK b \in below : \A c \in below : ~ (<<c, b>> \in R)
    <2> HIDE DEF R, S, below
    <2> QED BY <1>1, <1>2, <1>3, WFMin
  <1>5. PICK x \in T : b = 0..(x-1)
    OBVIOUS
  <1>6. ASSUME NEW y \in T, y < x PROVE FALSE
    <2>1. 0..(y-1) \in below
      OBVIOUS
    <2>2. 0..(y-1) \subseteq b /\ 0..(y-1) # b
      <3>1. y \in 0..(x-1) /\ y \notin 0..(y-1)
        BY <1>6
      <3>2. 0..(y-1) \subseteq 0..(x-1)
        BY <1>6
      <3> QED BY <3>1, <3>2, <1>5
    <2>3. 0..(y-1) \in SUBSET Nat /\ b \in SUBSET Nat
      BY <1>5
    <2>4. <<0..(y-1), b>> \in R
      BY <2>2, <2>3 DEF StrictSubsetOrdering
    <2> QED BY <2>1, <2>4, <1>4
  <1> QED BY <1>6

Descends(D, V, height, limit, G) ==
  /\ V # {}
  /\ limit \in Nat
  /\ height \in [D -> Nat]
  /\ \A x \in D : height[x] < limit
  /\ G \in [D \X [D -> V] -> V]
  /\ \A x \in D : \A g, h \in [D -> V] :
       (\A y \in D : height[y] < height[x] => g[y] = h[y]) => G[<<x, g>>] = G[<<x, h>>]

LEMMA DefinedByRecursion ==
  ASSUME NEW D, NEW V, NEW height, NEW limit, NEW G, Descends(D, V, height, limit, G)
  PROVE  \E f \in [D -> V] : \A x \in D : f[x] = G[<<x, f>>]
PROOF
  <1> USE DEF Descends
  <1> DEFINE Upto(k, f) == \A x \in D : height[x] < k => f[x] = G[<<x, f>>]
  <1> DEFINE Short == {k \in Nat : ~ \E f \in [D -> V] : Upto(k, f)}
  <1>1. Short = {}
    <2> SUFFICES ASSUME Short # {} PROVE FALSE
      OBVIOUS
    <2>1. PICK k \in Short : \A j \in Short : k <= j
      <3>1. Short \in SUBSET Nat
        OBVIOUS
      <3> QED BY <3>1, LeastOf
    <2>2. k # 0
      <3>1. PICK v \in V : TRUE
        OBVIOUS
      <3>2. [x \in D |-> v] \in [D -> V] /\ Upto(0, [x \in D |-> v])
        OBVIOUS
      <3> QED BY <3>2
    <2>3. k - 1 \in Nat /\ k - 1 \notin Short
      <3>1. k \in Nat
        OBVIOUS
      <3> HIDE DEF Short
      <3> QED BY <2>1, <2>2, <3>1
    <2>4. PICK f \in [D -> V] : Upto(k - 1, f)
      BY <2>3
    <2> DEFINE g == [x \in D |-> IF height[x] < k - 1 THEN f[x] ELSE G[<<x, f>>]]
    <2>5. g \in [D -> V]
      OBVIOUS
    <2>6. ASSUME NEW x \in D, height[x] < k PROVE g[x] = G[<<x, g>>]
      <3>1. \A y \in D : height[y] < height[x] => g[y] = f[y]
        BY <2>6, <2>1
      <3>2. G[<<x, g>>] = G[<<x, f>>]
        <4> HIDE DEF g
        <4> QED BY <3>1, <2>5
      <3>3. g[x] = G[<<x, f>>]
        BY <2>4
      <3> QED BY <3>2, <3>3
    <2>7. Upto(k, g)
      BY <2>6
    <2> HIDE DEF g
    <2>8. \E f_1 \in [D -> V] : Upto(k, f_1)
      BY <2>5, <2>7
    <2> QED BY <2>1, <2>8
  <1>2. PICK f \in [D -> V] : Upto(limit, f)
    BY <1>1
  <1> QED BY <1>2

-----------------------------------------------------------------------------
(* Distributions.                                                           *)

\* Weight adds up the weights, and the empty beginning weighs nothing.
LEMMA WeightAdds ==
  ASSUME NEW d, Len(d) \in Nat, \A j \in 1..Len(d) : d[j].weight \in Int
  PROVE  /\ Weight(d, 0) = 0 /\ \A i \in 0..Len(d) : Weight(d, i) \in Int
         /\ \A i \in 1..Len(d) : Weight(d, i) = Weight(d, i - 1) + d[i].weight
PROOF
  <1> DEFINE D == 0..Len(d)
  <1> DEFINE G == [a \in D \X [D -> Int] |-> IF a[1] = 0 THEN 0 ELSE a[2][a[1] - 1] + d[a[1]].weight]
  <1> DEFINE sums(f) == [j \in 0..Len(d) |-> IF j = 0 THEN 0 ELSE f[j - 1] + d[j].weight]
  <1> DEFINE c == CHOOSE f : f = sums(f)
  <1>1. PICK f \in [D -> Int] : \A x \in D : f[x] = G[<<x, f>>]
    <2>1. G \in [D \X [D -> Int] -> Int]
      OBVIOUS
    <2>2. ASSUME NEW x \in D, NEW g \in [D -> Int], NEW h \in [D -> Int],
                 \A y \in D : y < x => g[y] = h[y]
          PROVE  G[<<x, g>>] = G[<<x, h>>]
      <3>1. x # 0 => x - 1 \in D /\ x - 1 < x
        OBVIOUS
      <3> QED BY <3>1, <2>2
    <2> DEFINE height == [x \in D |-> x]
    <2>3. height \in [D -> Nat] /\ \A x \in D : height[x] < Len(d) + 1
      OBVIOUS
    <2>4. \A x \in D : \A g, h \in [D -> Int] :
            (\A y \in D : height[y] < height[x] => g[y] = h[y]) => G[<<x, g>>] = G[<<x, h>>]
      <3> HIDE DEF G
      <3> QED BY <2>2
    <2>5. Int # {} /\ Len(d) + 1 \in Nat
      OBVIOUS
    <2> HIDE DEF G, D, height
    <2>6. Descends(D, Int, height, Len(d) + 1, G)
      BY <2>1, <2>3, <2>4, <2>5 DEF Descends
    <2> QED BY <2>6, DefinedByRecursion
  <1>2. f = sums(f)
    BY <1>1
  <1>3. c = sums(c)
    <2> HIDE DEF sums
    <2> QED BY <1>2
  <1>4. \A i \in 0..Len(d) : Weight(d, i) = c[i]
    BY DEF Weight
  <1>5. \A j \in 0..Len(d) : c[j] = IF j = 0 THEN 0 ELSE c[j - 1] + d[j].weight
    <2> HIDE DEF c
    <2> QED BY <1>3
  <1> HIDE DEF c
  <1> DEFINE Bad == {j \in 0..Len(d) : c[j] \notin Int}
  <1>6. Bad = {}
    <2> SUFFICES ASSUME Bad # {} PROVE FALSE
      OBVIOUS
    <2>1. PICK j \in Bad : \A i \in Bad : j <= i
      <3>1. Bad \in SUBSET Nat
        OBVIOUS
      <3> HIDE DEF Bad
      <3> QED BY <3>1, LeastOf
    <2>2. j # 0 /\ j \in 0..Len(d)
      BY <1>5
    <2>3. c[j - 1] \in Int
      BY <2>1, <2>2
    <2> QED BY <2>2, <2>3, <1>5
  <1>7. ASSUME NEW i \in 1..Len(d) PROVE Weight(d, i) = Weight(d, i - 1) + d[i].weight
    <2>1. i \in 0..Len(d) /\ i - 1 \in 0..Len(d) /\ i # 0
      OBVIOUS
    <2> QED BY <1>4, <1>5, <2>1
  <1> QED BY <1>4, <1>5, <1>6, <1>7

OwnEntries == {e \in Entries : e.variation \in Own}

\* A ruleset keeps entries of the flag's own variations, and all of them when
\* there are no others.
LEMMA KnownKeepsOwn ==
  ASSUME NEW d \in Seq(Entries)
  PROVE  /\ Known(d) \in Seq(OwnEntries)
         /\ (\A i \in DOMAIN d : d[i].variation \in Own) => Known(d) = d
PROOF
  <1> DEFINE D == 0..Len(d)
  <1> DEFINE V == Seq(OwnEntries)
  <1> DEFINE G == [a \in D \X [D -> V] |->
                     IF a[1] = 0 THEN <<>>
                     ELSE IF d[a[1]].variation \in Own THEN Append(a[2][a[1] - 1], d[a[1]])
                     ELSE a[2][a[1] - 1]]
  <1> DEFINE keep(f) == [i \in 0..Len(d) |->
                           IF i = 0 THEN <<>>
                           ELSE IF d[i].variation \in Own THEN Append(f[i - 1], d[i]) ELSE f[i - 1]]
  <1> DEFINE c == CHOOSE f : f = keep(f)
  <1>0. \A i \in 1..Len(d) : d[i] \in Entries /\ (d[i].variation \in Own => d[i] \in OwnEntries)
    BY DEF OwnEntries
  <1>1. PICK f \in [D -> V] : \A x \in D : f[x] = G[<<x, f>>]
    <2>1. G \in [D \X [D -> V] -> V]
      <3> SUFFICES ASSUME NEW x \in D, NEW g \in [D -> V] PROVE G[<<x, g>>] \in V
        OBVIOUS
      <3>1. CASE x = 0
        BY <3>1
      <3>2. CASE x # 0
        <4>1. x - 1 \in D /\ x \in 1..Len(d)
          BY <3>2
        <4>2. g[x - 1] \in V
          BY <4>1
        <4>3. d[x].variation \in Own => Append(g[x - 1], d[x]) \in V
          BY <4>1, <4>2, <1>0
        <4> QED BY <3>2, <4>1, <4>2, <4>3
      <3> QED BY <3>1, <3>2
    <2>2. ASSUME NEW x \in D, NEW g \in [D -> V], NEW h \in [D -> V],
                 \A y \in D : y < x => g[y] = h[y]
          PROVE  G[<<x, g>>] = G[<<x, h>>]
      <3>1. x # 0 => x - 1 \in D /\ x - 1 < x
        OBVIOUS
      <3> QED BY <3>1, <2>2
    <2> DEFINE height == [x \in D |-> x]
    <2>3. height \in [D -> Nat] /\ \A x \in D : height[x] < Len(d) + 1
      OBVIOUS
    <2>4. \A x \in D : \A g, h \in [D -> V] :
            (\A y \in D : height[y] < height[x] => g[y] = h[y]) => G[<<x, g>>] = G[<<x, h>>]
      <3> HIDE DEF G
      <3> QED BY <2>2
    <2>5. V # {} /\ Len(d) + 1 \in Nat
      <3>1. <<>> \in V
        OBVIOUS
      <3>2. Len(d) + 1 \in Nat
        OBVIOUS
      <3> HIDE DEF V
      <3> QED BY <3>1, <3>2
    <2> HIDE DEF G, D, V, height
    <2>6. Descends(D, V, height, Len(d) + 1, G)
      BY <2>1, <2>3, <2>4, <2>5 DEF Descends
    <2> QED BY <2>6, DefinedByRecursion
  <1>2. f = keep(f)
    BY <1>1
  <1>3. c = keep(c)
    <2> HIDE DEF keep
    <2> QED BY <1>2
  <1>4. Known(d) = c[Len(d)]
    BY DEF Known
  <1>5. /\ c[0] = <<>>
        /\ \A i \in 1..Len(d) : /\ d[i].variation \in Own => c[i] = Append(c[i - 1], d[i])
                                /\ d[i].variation \notin Own => c[i] = c[i - 1]
    <2> HIDE DEF c
    <2>1. ASSUME NEW i \in 0..Len(d)
          PROVE  c[i] = IF i = 0 THEN <<>>
                        ELSE IF d[i].variation \in Own THEN Append(c[i - 1], d[i]) ELSE c[i - 1]
      BY <1>3
    <2>2. 0 \in 0..Len(d)
      OBVIOUS
    <2>3. c[0] = <<>>
      BY <2>1, <2>2
    <2>4. ASSUME NEW i \in 1..Len(d)
          PROVE  /\ d[i].variation \in Own => c[i] = Append(c[i - 1], d[i])
                 /\ d[i].variation \notin Own => c[i] = c[i - 1]
      <3>1. i \in 0..Len(d) /\ i # 0
        OBVIOUS
      <3> QED BY <3>1, <2>1
    <2> QED BY <2>3, <2>4
  <1> HIDE DEF c
  <1> DEFINE Bad == {i \in 0..Len(d) : c[i] \notin V}
  <1>6. Bad = {}
    <2> SUFFICES ASSUME Bad # {} PROVE FALSE
      OBVIOUS
    <2>1. PICK i \in Bad : \A j \in Bad : i <= j
      <3>1. Bad \in SUBSET Nat
        OBVIOUS
      <3> HIDE DEF Bad
      <3> QED BY <3>1, LeastOf
    <2>2. i # 0 /\ i \in 1..Len(d) /\ c[i] \notin V
      <3>1. <<>> \in V
        OBVIOUS
      <3> HIDE DEF V
      <3> QED BY <1>5, <3>1
    <2>3. c[i - 1] \in V
      BY <2>1, <2>2
    <2>4. d[i].variation \in Own => Append(c[i - 1], d[i]) \in V
      BY <2>2, <2>3, <1>0
    <2> HIDE DEF V
    <2> QED BY <2>2, <2>3, <2>4, <1>5
  <1> DEFINE Short == {i \in 0..Len(d) : ~ (Len(c[i]) = i /\ \A j \in 1..i : c[i][j] = d[j])}
  <1>7. ASSUME \A i \in DOMAIN d : d[i].variation \in Own PROVE Known(d) = d
    <2>1. Short = {}
      <3> SUFFICES ASSUME Short # {} PROVE FALSE
        OBVIOUS
      <3>1. PICK i \in Short : \A j \in Short : i <= j
        <4>1. Short \in SUBSET Nat
          OBVIOUS
        <4> HIDE DEF Short
        <4> QED BY <4>1, LeastOf
      <3>2. i # 0 /\ i \in 1..Len(d)
        BY <1>5
      <3>3. Len(c[i - 1]) = i - 1 /\ \A j \in 1..(i - 1) : c[i - 1][j] = d[j]
        <4>1. i - 1 \in 0..Len(d) /\ i - 1 \notin Short
          <5> HIDE DEF Short
          <5> QED BY <3>1, <3>2
        <4> QED BY <4>1
      <3>4. c[i] = Append(c[i - 1], d[i])
        BY <3>2, <1>5, <1>7
      <3>5. c[i - 1] \in Seq(OwnEntries) /\ d[i] \in OwnEntries
        <4>1. i - 1 \in 0..Len(d) /\ i \in DOMAIN d
          BY <3>2
        <4> QED BY <4>1, <3>2, <1>6, <1>7, <1>0
      <3>6. Len(c[i]) = i
        BY <3>2, <3>3, <3>4, <3>5
      <3>7. \A j \in 1..i : c[i][j] = d[j]
        BY <3>2, <3>3, <3>4, <3>5
      <3> QED BY <3>6, <3>7
    <2>2. Len(d) \in 0..Len(d)
      OBVIOUS
    <2>3. Len(c[Len(d)]) = Len(d) /\ \A j \in 1..Len(d) : c[Len(d)][j] = d[j]
      BY <2>1, <2>2
    <2>4. c[Len(d)] \in Seq(OwnEntries)
      BY <2>2, <1>6
    <2> DEFINE k == c[Len(d)]
    <2>5. k \in Seq(OwnEntries) /\ Len(k) = Len(d) /\ \A j \in 1..Len(d) : k[j] = d[j]
      BY <2>3, <2>4
    <2>6. k = d
      <3> HIDE DEF k
      <3>1. k = [j \in 1..Len(k) |-> k[j]] /\ d = [j \in 1..Len(d) |-> d[j]]
        BY <2>5
      <3> QED BY <3>1, <2>5
    <2> QED BY <2>6, <1>4
  <1> QED BY <1>4, <1>6, <1>7

\* Whatever the hash, a valid distribution has an entry whose share the bucket
\* lies in, and the entry it gives is that one: never the last for want of
\* another.
LEMMA BucketInItsShare ==
  ASSUME NEW d \in Seq(Entries), ValidDistribution(d), NEW h \in Nat
  PROVE  \E i \in DOMAIN d : /\ bucket(d, h) = d[i].variation
                              /\ Weight(d, i - 1) <= (h % Resolution) * Unit
                              /\ (h % Resolution) * Unit < Weight(d, i)
PROOF
  <1> DEFINE b == (h % Resolution) * Unit
  <1> DEFINE slot == Slot(d, h % Resolution)
  <1>1. Weight(d, 0) = 0 /\ \A i \in 0..Len(d) : Weight(d, i) \in Int
    <2>1. ASSUME NEW j \in 1..Len(d) PROVE d[j].weight \in Int
      <3>1. d[j] \in Entries
        OBVIOUS
      <3> QED BY <3>1 DEF Entries
    <2>2. Len(d) \in Nat
      OBVIOUS
    <2> QED BY <2>1, <2>2, WeightAdds
  <1>2. b \in Nat /\ b <= Whole - Unit /\ Unit = 10 /\ Whole \in Nat
    BY DEF Resolution, Unit, Whole
  <1>3. slot = {i \in 1..Len(d) : b < Weight(d, i)}
    BY DEF Slot
  <1>4. Len(d) \in slot
    <2>1. Len(d) \in 1..Len(d)
      BY DEF ValidDistribution
    <2>2. Weight(d, Len(d)) >= Whole - 1
      BY <1>2 DEF ValidDistribution
    <2> HIDE DEF b
    <2> QED BY <2>1, <2>2, <1>1, <1>2, <1>3
  <1> HIDE DEF b
  <1>5. PICK i \in slot : \A j \in slot : i <= j
    <2>1. slot \in SUBSET Nat
      BY <1>3
    <2> HIDE DEF slot
    <2> QED BY <2>1, <1>4, LeastOf
  <1> DEFINE least == CHOOSE k \in slot : \A j \in slot : k <= j
  <1>6. least \in slot /\ \A j \in slot : least <= j
    <2> HIDE DEF slot
    <2> QED BY <1>5
  <1>7. bucket(d, h) = d[least].variation
    BY <1>4 DEF bucket
  <1> HIDE DEF least, slot
  <1>8. least \in DOMAIN d /\ b < Weight(d, least)
    BY <1>3, <1>6
  <1>9. Weight(d, least - 1) <= b
    <2>1. CASE least = 1
      BY <2>1, <1>1, <1>2
    <2>2. CASE least # 1
      <3>1. least - 1 \in 1..Len(d) /\ least - 1 \notin slot
        BY <2>2, <1>3, <1>6
      <3> QED BY <3>1, <1>1, <1>2, <1>3
    <2> QED BY <2>1, <2>2
  <1> QED BY <1>7, <1>8, <1>9 DEF b

\* "When a rollout is raised, all users of the old share must stay" (ADR-007):
\* that holds for one id of a rule, whose hash stays what it was.
THEOREM WideningKeepsUsers ==
  ASSUME NEW d \in Seq(Entries), NEW e \in Seq(Entries), NEW h \in Nat,
         ValidDistribution(d), ValidDistribution(e), e[1].weight >= d[1].weight,
         (h % Resolution) * Unit < Weight(d, 1)
  PROVE  bucket(d, h) = d[1].variation /\ bucket(e, h) = e[1].variation
PROOF
  <1> DEFINE b == (h % Resolution) * Unit
  <1>1. ASSUME NEW c \in Seq(Entries), ValidDistribution(c)
        PROVE  Weight(c, 1) = c[1].weight /\ c[1].weight \in Int /\ 1 \in DOMAIN c
    <2>1. Len(c) \in Nat /\ 1 \in 1..Len(c) /\ \A j \in 1..Len(c) : c[j] \in Entries
      BY <1>1 DEF ValidDistribution
    <2>2. \A j \in 1..Len(c) : c[j].weight \in Int
      BY <2>1 DEF Entries
    <2>3. Weight(c, 0) = 0 /\ Weight(c, 1) = Weight(c, 1 - 1) + c[1].weight
      BY <2>1, <2>2, WeightAdds
    <2> QED BY <2>1, <2>2, <2>3
  <1>2. ASSUME NEW c \in Seq(Entries), ValidDistribution(c), b < Weight(c, 1)
        PROVE  bucket(c, h) = c[1].variation
    <2> DEFINE slot == Slot(c, h % Resolution)
    <2> DEFINE least == CHOOSE k \in slot : \A j \in slot : k <= j
    <2>1. 1 \in slot /\ \A j \in slot : 1 <= j
      BY <1>1, <1>2 DEF Slot
    <2>2. \A j \in slot : j \in Int
      BY DEF Slot
    <2>3. bucket(c, h) = c[least].variation
      BY <2>1 DEF bucket
    <2> HIDE DEF slot
    <2>4. least \in slot /\ least <= 1 /\ 1 <= least
      BY <2>1
    <2>5. least = 1
      <3> HIDE DEF least
      <3> QED BY <2>2, <2>4
    <2> QED BY <2>3, <2>5
  <1>3. b \in Int
    BY DEF Resolution, Unit
  <1>4. b < Weight(d, 1) /\ b < Weight(e, 1)
    <2> HIDE DEF b
    <2>1. b < Weight(d, 1)
      BY DEF b
    <2> QED BY <1>1, <1>3, <2>1
  <1> QED BY <1>2, <1>4

-----------------------------------------------------------------------------
(* What every edit keeps.                                                   *)

SettingOK ==
  setting.default \in Own \cup {NoVariation} \cup {s.default : s \in Settings}

RuleRows ==
  [id : 1..MaxRules, priority : Int, conditions : DOMAIN Tree, segment : Keys \cup {NoSegment},
   distribution : Seq(Entries)]

RulesOK ==
  /\ rules \subseteq RuleRows /\ IsFiniteSet(rules) /\ UniquePriorities(rules)
  /\ \A r \in rules : r.id \in 1..lastId

OverridesOK ==
  /\ DOMAIN overrides \subseteq Named
  /\ overrides = [c \in DOMAIN overrides |-> overrides[c]]
  /\ \A c \in DOMAIN overrides : overrides[c] \in Own

\* A segment that is saved has a valid tree.
SegmentsOK ==
  /\ DOMAIN segments \subseteq Keys
  /\ \A k \in DOMAIN segments :
       segments[k].tree \in DOMAIN Tree /\ ValidTree(Tree[segments[k].tree])

\* Rules that were checked are valid, whatever is edited after them.
CheckedOK ==
  checked =>
    \A r \in rules :
      /\ ValidDistribution(r.distribution) /\ ValidTree(Tree[r.conditions])
      /\ \A i \in DOMAIN r.distribution : r.distribution[i].variation \in Own

ServingInv ==
  /\ SettingOK
  /\ RulesOK
  /\ OverridesOK
  /\ SegmentsOK
  /\ CheckedOK
  /\ lastId \in 0..MaxRules /\ checked \in BOOLEAN

LEMMA ServingInvInit == FlagServingInit => ServingInv
PROOF
  <1> SUFFICES ASSUME FlagServingInit PROVE ServingInv
    OBVIOUS
  <1> USE DEF FlagServingInit
  <1>1. SettingOK
    BY DEF SettingOK
  <1>2. RulesOK /\ CheckedOK
    BY FS_EmptySet DEF RulesOK, CheckedOK, UniquePriorities
  <1>3. OverridesOK
    BY DEF OverridesOK
  <1>4. SegmentsOK
    BY TreeAssumption DEF SegmentsOK
  <1>5. lastId \in 0..MaxRules /\ checked \in BOOLEAN
    BY RequestsAssumption
  <1> QED BY <1>1, <1>2, <1>3, <1>4, <1>5 DEF ServingInv

\* Replacing the rules numbers the new ones within the bound.
LEMMA InsertedRows ==
  ASSUME NEW R \in RuleSets, ServingInv, UniquePriorities(R), Replace(R)
  PROVE  RulesOK' /\ lastId' \in 0..MaxRules
PROOF
  <1>1. R \subseteq RuleFields /\ IsFiniteSet(R)
    BY RequestsAssumption
  <1>2. lastId \in Nat /\ Cardinality(R) \in Nat /\ lastId + Cardinality(R) <= MaxRules /\ MaxRules \in Nat
    BY <1>1, FS_CardinalityType, RequestsAssumption DEF ServingInv, Replace
  <1> DEFINE upto(r) == {q \in R : q.priority <= r.priority}
  <1>3. ASSUME NEW r \in R
        PROVE  Cardinality(upto(r)) \in 1..Cardinality(R)
    <2>1. upto(r) \subseteq R /\ r \in upto(r)
      BY <1>1 DEF RuleFields
    <2>2. IsFiniteSet(upto(r)) /\ Cardinality(upto(r)) <= Cardinality(R)
      BY <2>1, <1>1, FS_Subset
    <2>3. Cardinality(upto(r)) \in Nat /\ Cardinality(upto(r)) # 0
      <3> HIDE DEF upto
      <3> QED BY <2>1, <2>2, FS_CardinalityType, FS_EmptySet
    <2> QED BY <2>2, <2>3, <1>2
  <1> DEFINE row(r) ==
        [id |-> lastId + Cardinality(upto(r)), priority |-> r.priority, conditions |-> r.conditions,
         segment |-> r.segment, distribution |-> r.distribution]
  <1>4. rules' = {row(r) : r \in R} /\ lastId' = lastId + Cardinality(R)
    BY DEF Replace, Inserted
  <1>5. \A r \in R : row(r) \in RuleRows /\ row(r).id \in 1..lastId' /\ row(r).priority = r.priority
    <2> SUFFICES ASSUME NEW r \in R PROVE row(r) \in RuleRows /\ row(r).id \in 1..lastId'
      OBVIOUS
    <2>1. lastId + Cardinality(upto(r)) \in 1..MaxRules /\ lastId + Cardinality(upto(r)) \in 1..lastId'
      <3> HIDE DEF upto
      <3> QED BY <1>2, <1>3, <1>4
    <2>2. r \in RuleFields
      BY <1>1
    <2> HIDE DEF upto
    <2> QED BY <2>1, <2>2 DEF RuleRows, RuleFields
  <1> HIDE DEF row
  <1>6. IsFiniteSet(rules')
    <2>1. [r \in R |-> row(r)] \in Surjection(R, rules')
      BY <1>4 DEF Surjection
    <2> QED BY <2>1, <1>1, FS_Surjection
  <1>7. UniquePriorities(rules')
    BY <1>4, <1>5 DEF UniquePriorities
  <1>8. rules' \subseteq RuleRows /\ \A r \in rules' : r.id \in 1..lastId'
    BY <1>4, <1>5
  <1>9. lastId' \in 0..MaxRules
    BY <1>2, <1>4
  <1> QED BY <1>6, <1>7, <1>8, <1>9 DEF RulesOK, RuleRows

\* Every edit keeps ServingInv.
LEMMA ServingInvNext == ServingInv /\ [FlagServingNext]_fsvars => ServingInv'
PROOF
  <1> SUFFICES ASSUME ServingInv, [FlagServingNext]_fsvars PROVE ServingInv'
    OBVIOUS
  <1> USE DEF ServingInv
  <1>a. UNCHANGED setting => SettingOK'
    BY DEF SettingOK
  <1>b. UNCHANGED <<rules, lastId>> => RulesOK'
    BY DEF RulesOK, UniquePriorities
  <1>c. UNCHANGED overrides => OverridesOK'
    BY DEF OverridesOK
  <1>d. UNCHANGED segments => SegmentsOK'
    BY DEF SegmentsOK
  <1>e. UNCHANGED <<rules, checked>> => CheckedOK'
    BY DEF CheckedOK
  <1>1. ASSUME NEW R \in RuleSets, set_targeting_rules_atomic(R) PROVE ServingInv'
    <2> USE DEF set_targeting_rules_atomic
    <2>1. Replace(R) /\ UniquePriorities(R)
      BY <1>1 DEF Accepted
    <2>2. RulesOK' /\ lastId' \in 0..MaxRules
      BY <2>1, InsertedRows
    <2>3. CheckedOK'
      <3>1. rules' = Inserted(R)
        BY <2>1 DEF Replace
      <3> SUFFICES ASSUME NEW x \in Inserted(R)
                   PROVE  /\ ValidDistribution(x.distribution) /\ ValidTree(Tree[x.conditions])
                          /\ \A i \in DOMAIN x.distribution : x.distribution[i].variation \in Own
        BY <3>1 DEF CheckedOK
      <3>2. PICK r \in R : x = [id |-> lastId + Cardinality({q \in R : q.priority <= r.priority}),
                                priority |-> r.priority, conditions |-> r.conditions,
                                segment |-> r.segment, distribution |-> r.distribution]
        BY Zenon DEF Inserted
      <3> QED BY <1>1, <3>2 DEF Accepted, OwnVariations
    <2> QED BY <1>a, <1>c, <1>d, <2>1, <2>2, <2>3, <1>1 DEF Replace
  <1>2. ASSUME NEW R \in RuleSets, ApplyRules(R) PROVE ServingInv'
    <2> USE DEF ApplyRules
    <2>1. RulesOK' /\ lastId' \in 0..MaxRules
      BY <1>2, InsertedRows
    <2>2. CheckedOK' /\ checked' \in BOOLEAN
      BY <1>2 DEF CheckedOK
    <2> QED BY <1>a, <1>c, <1>d, <2>1, <2>2, <1>2 DEF Replace
  <1>3. ASSUME NEW new \in Settings, setting' = SettingAfter(setting, new),
               UNCHANGED <<rules, overrides, segments, lastId, checked>>
        PROVE  ServingInv'
    <2>1. SettingOK'
      <3>1. setting'.default \in {setting.default, new.default}
        BY <1>3 DEF SettingAfter
      <3> QED BY <3>1 DEF SettingOK
    <2> QED BY <1>b, <1>c, <1>d, <1>e, <2>1, <1>3
  <1>4. ASSUME NEW k \in Keys, NEW t \in SegmentTrees[k], SaveSegment(k, t) PROVE ServingInv'
    <2>1. t \in DOMAIN Tree /\ ValidTree(Tree[t])
      BY <1>4, TreeAssumption DEF SaveSegment
    <2>2. SegmentsOK'
      <3>1. DOMAIN segments' = DOMAIN segments \cup {k}
        BY <1>4 DEF SaveSegment
      <3>2. ASSUME NEW q \in DOMAIN segments'
            PROVE  segments'[q].tree = IF q = k THEN t ELSE segments[q].tree
        BY <1>4, <3>1 DEF SaveSegment
      <3> QED BY <3>1, <3>2, <2>1 DEF SegmentsOK
    <2> QED BY <1>a, <1>b, <1>c, <1>e, <2>2, <1>4 DEF SaveSegment
  <1>5. ASSUME NEW k \in Keys, delete_segment(k) PROVE ServingInv'
    <2> DEFINE orphan(r) == [r EXCEPT !.segment = IF @ = k THEN NoSegment ELSE @]
    <2>1. rules' = {orphan(r) : r \in rules}
      BY <1>5 DEF delete_segment
    <2>2. ASSUME NEW r \in rules
          PROVE  /\ orphan(r) \in RuleRows
                 /\ orphan(r).id = r.id /\ orphan(r).priority = r.priority
                 /\ orphan(r).conditions = r.conditions /\ orphan(r).distribution = r.distribution
      <3>1. r \in RuleRows
        BY DEF RulesOK
      <3> QED BY <3>1 DEF RuleRows
    <2> HIDE DEF orphan
    <2>3. RulesOK'
      <3>1. IsFiniteSet(rules')
        <4>1. [r \in rules |-> orphan(r)] \in Surjection(rules, rules')
          BY <2>1 DEF Surjection
        <4> QED BY <4>1, FS_Surjection DEF RulesOK
      <3>2. UniquePriorities(rules')
        BY <2>1, <2>2 DEF RulesOK, UniquePriorities
      <3>3. rules' \subseteq RuleRows
        BY <2>1, <2>2
      <3>4. \A r \in rules' : r.id \in 1..lastId'
        BY <2>1, <2>2, <1>5 DEF RulesOK, delete_segment
      <3> QED BY <3>1, <3>2, <3>3, <3>4 DEF RulesOK, RuleRows
    <2>4. CheckedOK'
      <3>1. checked' = checked
        BY <1>5 DEF delete_segment
      <3> QED BY <2>1, <2>2, <3>1 DEF CheckedOK
    <2>5. SegmentsOK'
      <3>1. DOMAIN segments' \subseteq DOMAIN segments /\ \A q \in DOMAIN segments' : segments'[q] = segments[q]
        BY <1>5 DEF delete_segment, Without
      <3> QED BY <3>1 DEF SegmentsOK
    <2> QED BY <1>a, <1>c, <2>3, <2>4, <2>5, <1>5 DEF delete_segment
  <1>6. ASSUME NEW c \in Named, NEW v \in Own, create_individual_override(c, v) PROVE ServingInv'
    <2>1. OverridesOK'
      BY <1>6 DEF OverridesOK, create_individual_override
    <2> QED BY <1>a, <1>b, <1>d, <1>e, <2>1, <1>6 DEF create_individual_override
  <1>7. ASSUME NEW c \in Named, delete_individual_override(c) PROVE ServingInv'
    <2>1. OverridesOK'
      BY <1>7 DEF OverridesOK, delete_individual_override, Without
    <2> QED BY <1>a, <1>b, <1>d, <1>e, <2>1, <1>7 DEF delete_individual_override
  <1>8. CASE UNCHANGED fsvars
    BY <1>a, <1>b, <1>c, <1>d, <1>e, <1>8 DEF fsvars
  <1> QED
    BY <1>1, <1>2, <1>3, <1>4, <1>5, <1>6, <1>7, <1>8 DEF FlagServingNext, update_flag_setting, ApplySetting

LEMMA ServingInvAlways == FlagServingSpec => []ServingInv
PROOF
  <1> QED BY ServingInvInit, ServingInvNext, PTL DEF FlagServingSpec

\* Rows hold the names of trees, segments and variations that exist, and the ids
\* of rules stay below the last one given.
THEOREM ServingTypeCorrect == FlagServingSpec => []FlagServingTypeOK
PROOF
  <1>1. ServingInv => FlagServingTypeOK
    BY DEF ServingInv, SettingOK, RulesOK, RuleRows, OverridesOK, SegmentsOK, FlagServingTypeOK
  <1> QED BY <1>1, ServingInvAlways, PTL

\* Nobody is bucketed outside the share of the entry that is served: for every
\* hash and every distribution the rows can hold.
THEOREM SharesAreRespected == FlagServingSpec => []SharesRespected
PROOF
  <1>1. ServingInv => SharesRespected
    <2> SUFFICES ASSUME ServingInv, NEW r \in rules, ValidDistribution(Known(r.distribution)),
                        NEW x \in DOMAIN Hash
                 PROVE  \E i \in DOMAIN Known(r.distribution) :
                          /\ bucket(Known(r.distribution), Hash[x]) = Known(r.distribution)[i].variation
                          /\ Weight(Known(r.distribution), i - 1) <= (Hash[x] % Resolution) * Unit
                          /\ (Hash[x] % Resolution) * Unit < Weight(Known(r.distribution), i)
      BY DEF SharesRespected
    <2>1. r.distribution \in Seq(Entries)
      BY DEF ServingInv, RulesOK, RuleRows
    <2>2. Known(r.distribution) \in Seq(Entries)
      <3>1. OwnEntries \subseteq Entries
        BY DEF OwnEntries
      <3>2. Known(r.distribution) \in Seq(OwnEntries)
        BY <2>1, KnownKeepsOwn
      <3> QED BY <3>1, <3>2
    <2>3. Hash[x] \in Nat
      BY HashAssumption
    <2> QED BY <2>2, <2>3, BucketInItsShare
  <1> QED BY <1>1, ServingInvAlways, PTL

-----------------------------------------------------------------------------
(* One ruleset, four readers.                                               *)

\* The SDK, which knows variations by their ids, makes of a payload the ruleset
\* the API evaluates.
LEMMA ParsedIsBundle == ServingInv => Parse(Payload) = Bundle
PROOF
  <1> SUFFICES ASSUME ServingInv PROVE Parse(Payload) = Bundle
    OBVIOUS
  <1> DEFINE resolve(v) == IF v \in Own THEN v ELSE Bundle.default
  <1> DEFINE entries(d) == [i \in DOMAIN d |-> [d[i] EXCEPT !.variation = resolve(@)]]
  <1>1. ASSUME NEW d \in Seq(OwnEntries) PROVE entries(d) = d
    <2>1. ASSUME NEW i \in DOMAIN d PROVE [d[i] EXCEPT !.variation = resolve(@)] = d[i]
      <3>1. d[i] \in OwnEntries
        OBVIOUS
      <3>2. d[i] = [variation |-> d[i].variation, weight |-> d[i].weight] /\ d[i].variation \in Own
        BY <3>1 DEF OwnEntries, Entries
      <3> QED BY <3>2
    <2>2. d = [i \in DOMAIN d |-> d[i]]
      OBVIOUS
    <2> QED BY <2>1, <2>2
  <1>2. ASSUME NEW q \in Bundle.rules PROVE [q EXCEPT !.distribution = entries(@)] = q
    <2>1. PICK r \in rules : q = EngineRule(r, Tree[r.conditions])
      BY Zenon DEF Bundle, BundleOf
    <2>2. Known(r.distribution) \in Seq(OwnEntries)
      BY KnownKeepsOwn DEF ServingInv, RulesOK, RuleRows
    <2>3. q.distribution = Known(r.distribution)
      BY <2>1 DEF EngineRule
    <2>4. entries(q.distribution) = q.distribution
      BY <1>1, <2>2, <2>3
    <2> HIDE DEF entries
    <2> QED BY <2>1, <2>4 DEF EngineRule
  <1>3. {[q EXCEPT !.distribution = entries(@)] : q \in Bundle.rules} = Bundle.rules
    <2> HIDE DEF entries
    <2> QED BY <1>2
  <1>4. [c \in DOMAIN Bundle.overrides |-> resolve(Bundle.overrides[c])] = Bundle.overrides
    <2>1. Bundle.overrides = overrides
      BY DEF Bundle, BundleOf
    <2> QED BY <2>1 DEF ServingInv, OverridesOK
  <1>5. Parse(Payload) = [Bundle EXCEPT !.rules = Bundle.rules, !.overrides = Bundle.overrides]
    <2>1. Parse(Payload) =
            [Bundle EXCEPT !.rules = {[q EXCEPT !.distribution = entries(@)] : q \in Bundle.rules},
                           !.overrides = [c \in DOMAIN Bundle.overrides |-> resolve(Bundle.overrides[c])]]
      BY DEF Parse, Payload, Bundle, BundleOf
    <2> HIDE DEF entries, resolve
    <2> QED BY <1>3, <1>4, <2>1
  <1> QED BY <1>5 DEF Bundle, BundleOf

\* What an application gets from the SDK in its own process is what the API
\* would have answered, and the caller's default exactly where the API fails.
THEOREM SdkAndApiAgree == FlagServingSpec => []SdkAgrees
PROOF
  <1>1. ServingInv => SdkAgrees
    <2> SUFFICES ASSUME ServingInv, NEW raw \in Contexts
                 PROVE  IF Server(raw).reason = Raises THEN Sdk(raw).reason = "ERROR"
                        ELSE Sdk(raw) = Server(raw)
      BY DEF SdkAgrees
    <2>1. SdkContext(raw) = ServerContext(raw)
      BY DEF SdkContext, ServerContext
    <2>2. SdkEvaluate(Parse(Payload), SdkContext(raw)) = Server(raw)
      BY <2>1, ParsedIsBundle DEF SdkEvaluate, Server
    <2>3. Sdk(raw) = IF Server(raw).reason = Raises THEN Result(NoVariation, "ERROR", NoRule)
                     ELSE Server(raw)
      BY <2>2 DEF Sdk
    <2> QED BY <2>3 DEF Result
  <1> QED BY <1>1, ServingInvAlways, PTL

\* The dashboard's simulation is the API's answer, where it claims to be.
THEOREM SimulationIsTrue == FlagServingSpec => []SimulationAgrees
PROOF
  <1>1. SimulationAgrees
    <2> SUFFICES ASSUME \A r \in rules : r.segment = NoSegment,
                        NoVariation \notin {setting.default, setting.off},
                        NEW raw \in Contexts, ~ ({"userId", "targetingKey"} \subseteq Fields(raw))
                 PROVE  Simulation(raw) = Server(raw)
      BY DEF SimulationAgrees
    <2>1. SimulationContext(raw) = ServerContext(raw)
      BY DEF SimulationContext, ServerContext
    <2>2. {EngineRule(r, WithSegment(Tree[r.conditions], r.segment)) : r \in rules}
            = {EngineRule(r, Tree[r.conditions]) : r \in rules}
      <3>1. \A r \in rules : WithSegment(Tree[r.conditions], r.segment) = Tree[r.conditions]
        BY DEF WithSegment
      <3> QED BY <3>1, Zenon
    <2>3. [Bundle EXCEPT !.default = Mine(setting.default), !.off = Mine(setting.off),
                         !.rules = {EngineRule(r, WithSegment(Tree[r.conditions], r.segment)) : r \in rules}] = Bundle
      <3>1. Bundle.default = Mine(setting.default) /\ Bundle.off = Mine(setting.off)
        BY DEF Bundle, BundleOf
      <3>2. Bundle.rules = {EngineRule(r, Tree[r.conditions]) : r \in rules}
        BY DEF Bundle, BundleOf
      <3>3. [Bundle EXCEPT !.default = Bundle.default, !.off = Bundle.off, !.rules = Bundle.rules] = Bundle
        BY DEF Bundle, BundleOf
      <3> QED BY <2>2, <3>1, <3>2, <3>3
    <2> QED BY <2>1, <2>3 DEF Simulation, Server
  <1> QED BY <1>1, PTL

\* The impact analysis sees a traceable user as the API does.
LEMMA TraceableContext ==
  ASSUME NEW raw \in Contexts, Traceable(raw)
  PROVE  ImpactContext(raw, HashedKey) = ServerContext(raw)
PROOF
  <1>1. PICK name \in EventKeys :
          /\ EventKeys \cap Fields(raw) = {name} /\ ~ Falsy(raw.fields[name])
          /\ name = "targeting_key" => Fields(raw) = {name} \/ DOMAIN raw.attributes # {}
          /\ name = "targetingKey" => DOMAIN raw.attributes = {}
    BY DEF Traceable
  <1> DEFINE keys == {k \in EventKeys \cap Fields(raw) : ~ Falsy(raw.fields[k])}
  <1> DEFINE rest == [a \in Fields(raw) \ EventKeys |-> raw.fields[a]]
  <1>2. keys = {name}
    BY <1>1
  <1>3. ImpactContext(raw, HashedKey) =
          [key |-> {raw.fields[name]},
           attributes |-> IF DOMAIN raw.attributes # {} THEN raw.attributes ELSE rest]
    BY <1>2 DEF ImpactContext, EventKeys
  <1>4. CASE name = "targeting_key"
    <2>1. name \in Fields(raw)
      BY <1>1
    <2>2. ServerContext(raw) = [key |-> {raw.fields[name]}, attributes |-> raw.attributes]
      BY <1>4, <2>1 DEF ServerContext
    <2>3. DOMAIN raw.attributes = {} => rest = raw.attributes
      <3> SUFFICES ASSUME DOMAIN raw.attributes = {} PROVE rest = raw.attributes
        OBVIOUS
      <3>1. raw.attributes = [a \in {} |-> raw.attributes[a]]
        BY ContextsAssumption
      <3>2. Fields(raw) \ EventKeys = {}
        BY <1>1, <1>4
      <3> QED BY <3>1, <3>2
    <2> QED BY <1>3, <2>2, <2>3
  <1>5. CASE name = "targetingKey"
    <2>1. name \in Fields(raw) /\ "targeting_key" \notin Fields(raw)
      BY <1>1, <1>5 DEF EventKeys
    <2>2. ServerContext(raw) = [key |-> {raw.fields[name]}, attributes |-> Without(raw.fields, name)]
      BY <1>5, <2>1 DEF ServerContext, Keyed
    <2>3. Without(raw.fields, name) = rest
      <3>1. Fields(raw) \ EventKeys = DOMAIN raw.fields \ {name}
        BY <1>1 DEF Fields
      <3> QED BY <3>1 DEF Without
    <2> QED BY <1>1, <1>3, <1>5, <2>2, <2>3
  <1> QED BY <1>4, <1>5 DEF EventKeys

\* A rule of a ruleset, made of a request with some id.
Row(r, id) ==
  [id |-> id, priority |-> r.priority, tree |-> Tree[r.conditions],
   distribution |-> Known(r.distribution)]

\* The rows whose conditions do not fail to match, and the first of them.
Candidates(R, ctx, segs) == {r \in R : Matches(Tree[r.conditions], ctx, segs) # No}
Firsts(H) == {r \in H : \A q \in H : r.priority <= q.priority}

\* The rule that decides is the same under any ids.
LEMMA OneDecides ==
  ASSUME NEW rs, NEW R, NEW ctx, NEW f, UniquePriorities(R), \A r \in R : r.priority \in Int,
         rs.rules = {Row(r, f[r]) : r \in R}
  PROVE  LET D == Firsts(Candidates(R, ctx, rs.segments))
         IN  /\ D = {} => Decisive(rs, ctx) = {}
             /\ \A r \in D : D = {r} /\ Decisive(rs, ctx) = {Row(r, f[r])}
PROOF
  <1> DEFINE H == {r \in R : Matches(Tree[r.conditions], ctx, rs.segments) # No}
  <1> DEFINE D == {r \in H : \A q \in H : r.priority <= q.priority}
  <1>1. \A r \in R : Row(r, f[r]).priority = r.priority /\ Row(r, f[r]).tree = Tree[r.conditions]
    BY DEF Row
  <1>2. Hit(rs, ctx) = {Row(r, f[r]) : r \in H}
    <2> SUFFICES ASSUME NEW x PROVE x \in Hit(rs, ctx) <=> \E r \in H : x = Row(r, f[r])
      OBVIOUS
    <2> QED BY <1>1 DEF Hit
  <1>3. Decisive(rs, ctx) = {Row(r, f[r]) : r \in D}
    <2> HIDE DEF H
    <2>1. \A r \in H : r \in R
      BY DEF H
    <2> SUFFICES ASSUME NEW x PROVE x \in Decisive(rs, ctx) <=> \E r \in D : x = Row(r, f[r])
      OBVIOUS
    <2> QED BY <1>1, <1>2, <2>1 DEF Decisive
  <1>4. \A r, q \in D : r = q
    <2> SUFFICES ASSUME NEW r \in D, NEW q \in D PROVE r = q
      OBVIOUS
    <2>1. r.priority <= q.priority /\ q.priority <= r.priority
      OBVIOUS
    <2> QED BY <2>1 DEF UniquePriorities
  <1> HIDE DEF D
  <1>5. D = {} => Decisive(rs, ctx) = {}
    BY <1>3
  <1>6. \A r \in D : D = {r}
    BY <1>4
  <1>7. \A r \in D : Decisive(rs, ctx) = {Row(r, f[r])}
    BY <1>3, <1>6
  <1> QED BY <1>5, <1>6, <1>7 DEF D, Candidates, Firsts

\* Rulesets that differ in the ids of their rules decide alike, but for the
\* bucket.
LEMMA IdsDecideNothing ==
  ASSUME NEW rs, NEW qs, NEW R, NEW ctx, NEW f, NEW g,
         UniquePriorities(R), \A r \in R : r.priority \in Int,
         rs.rules = {Row(r, f[r]) : r \in R}, qs.rules = {Row(r, g[r]) : r \in R},
         rs.enabled = qs.enabled, rs.default = qs.default, rs.off = qs.off,
         rs.bucketing = qs.bucketing, rs.overrides = qs.overrides, rs.segments = qs.segments
  PROVE  Predicts(evaluate(rs, ctx), evaluate(qs, ctx))
PROOF
  <1> DEFINE D == Firsts(Candidates(R, ctx, rs.segments))
  <1> DEFINE value == BucketingValue(rs, ctx)
  <1>1. BucketingValue(qs, ctx) = value
    BY DEF BucketingValue
  <1>2. /\ D = {} => Decisive(rs, ctx) = {} /\ Decisive(qs, ctx) = {}
        /\ \A r \in D : Decisive(rs, ctx) = {Row(r, f[r])} /\ Decisive(qs, ctx) = {Row(r, g[r])}
    BY OneDecides
  <1> HIDE DEF D, value
  <1>3. CASE ~ rs.enabled \/ value \in DOMAIN rs.overrides
    <2>1. evaluate(rs, ctx) = evaluate(qs, ctx)
      BY <1>1, <1>3 DEF evaluate, value
    <2> QED BY <2>1 DEF Predicts
  <1>4. CASE rs.enabled /\ value \notin DOMAIN rs.overrides /\ D = {}
    <2>1. evaluate(rs, ctx) = evaluate(qs, ctx)
      BY <1>1, <1>2, <1>4 DEF evaluate, value
    <2> QED BY <2>1 DEF Predicts
  <1>5. ASSUME rs.enabled, value \notin DOMAIN rs.overrides, NEW r \in D
        PROVE  Predicts(evaluate(rs, ctx), evaluate(qs, ctx))
    <2> DEFINE x == Row(r, f[r])
    <2> DEFINE y == Row(r, g[r])
    <2>1. x.tree = y.tree /\ x.distribution = y.distribution
      BY DEF Row
    <2>2. /\ Decisive(rs, ctx) = {x} /\ Decisive(qs, ctx) = {y}
          /\ The({x}) = x /\ The({y}) = y /\ {x} # {} /\ {y} # {}
      BY <1>2 DEF The
    <2> HIDE DEF x, y
    <2>3. evaluate(rs, ctx) =
            IF Matches(x.tree, ctx, rs.segments) = Raises THEN Result(NoVariation, Raises, x.id)
            ELSE ByRule(x, value)
      BY <1>5, <2>2 DEF evaluate, value
    <2>4. evaluate(qs, ctx) =
            IF Matches(y.tree, ctx, qs.segments) = Raises THEN Result(NoVariation, Raises, y.id)
            ELSE ByRule(y, value)
      BY <1>1, <1>5, <2>2 DEF evaluate, value
    <2>5. Predicts(ByRule(x, value), ByRule(y, value))
      BY <2>1 DEF Predicts, ByRule, Result
    <2>6. Predicts(Result(NoVariation, Raises, x.id), Result(NoVariation, Raises, y.id))
      BY DEF Predicts, Result
    <2> QED BY <2>1, <2>3, <2>4, <2>5, <2>6
  <1> QED BY <1>3, <1>4, <1>5

\* The impact analysis of a change request tells traceable users what they will
\* get, unless it is the bucket that decides.
THEOREM ImpactIsPredicted == FlagServingSpec => []ImpactPredicts
PROOF
  <1>1. ServingInv => ImpactPredicts
    <2> SUFFICES ASSUME ServingInv PROVE ImpactPredicts
      OBVIOUS
    <2>1. ASSUME NEW R \in RuleSets, UniquePriorities(R), NEW raw \in Contexts, Traceable(raw)
          PROVE  Predicts(Impact(SimulatedRules(R), raw),
                          evaluate(BundleOf(setting, Inserted(R)), ServerContext(raw)))
      <3> DEFINE rs == SimulatedRules(R)
      <3> DEFINE qs == BundleOf(setting, Inserted(R))
      <3> DEFINE f == [r \in R |-> NoRule]
      <3> DEFINE g == [r \in R |-> lastId + Cardinality({q \in R : q.priority <= r.priority})]
      <3>1. \A r \in R : r.priority \in Int
        BY RequestsAssumption DEF RuleFields
      <3>2. rs.rules = {Row(r, f[r]) : r \in R}
        BY DEF SimulatedRules, Bundle, BundleOf, Row
      <3>3. qs.rules = {Row(r, g[r]) : r \in R}
        <4>1. qs.rules = {EngineRule(x, Tree[x.conditions]) : x \in Inserted(R)}
          BY DEF BundleOf
        <4> DEFINE row(r) == [id |-> g[r], priority |-> r.priority, conditions |-> r.conditions,
                              segment |-> r.segment, distribution |-> r.distribution]
        <4>2. Inserted(R) = {row(r) : r \in R}
          BY DEF Inserted
        <4>3. \A r \in R : EngineRule(row(r), Tree[row(r).conditions]) = Row(r, g[r])
          BY DEF EngineRule, Row
        <4> HIDE DEF row
        <4> QED BY <4>1, <4>2, <4>3
      <3>4. /\ rs.enabled = qs.enabled /\ rs.default = qs.default /\ rs.off = qs.off
            /\ rs.bucketing = qs.bucketing /\ rs.overrides = qs.overrides
            /\ rs.segments = qs.segments
        BY DEF SimulatedRules, Bundle, BundleOf
      <3> HIDE DEF rs, qs, f, g
      <3>5. Predicts(evaluate(rs, ServerContext(raw)), evaluate(qs, ServerContext(raw)))
        BY <2>1, <3>1, <3>2, <3>3, <3>4, IdsDecideNothing
      <3> QED BY <2>1, <3>5, TraceableContext DEF Impact, rs, qs
    <2>2. ASSUME NEW new \in Settings, {new.default, new.off} \subseteq Own,
                 NEW raw \in Contexts, Traceable(raw)
          PROVE  Predicts(Impact(SimulatedSetting(new), raw),
                          evaluate(BundleOf(SettingAfter(setting, new), rules), ServerContext(raw)))
      <3>1. new.default # NoVariation /\ new.off # NoVariation
        BY <2>2, VariationsAssumption DEF Own
      <3>2. SimulatedSetting(new) = BundleOf(SettingAfter(setting, new), rules)
        <4> DEFINE after == SettingAfter(setting, new)
        <4>1. /\ after.enabled = new.enabled /\ after.bucketing = new.bucketing
              /\ after.default = new.default /\ after.off = new.off
          BY <3>1 DEF SettingAfter
        <4>2. Mine(new.default) = new.default /\ Mine(new.off) = new.off
          BY <2>2 DEF Mine
        <4> HIDE DEF after
        <4>3. BundleOf(after, rules) =
                [enabled |-> new.enabled, default |-> new.default, off |-> new.off,
                 bucketing |-> new.bucketing,
                 rules |-> {EngineRule(r, Tree[r.conditions]) : r \in rules},
                 overrides |-> overrides, segments |-> SegmentsByRef]
          BY <3>1, <4>1, <4>2 DEF BundleOf
        <4>4. SimulatedSetting(new) =
                [Bundle EXCEPT !.enabled = new.enabled, !.bucketing = new.bucketing,
                               !.default = new.default, !.off = new.off]
          BY <2>2 DEF SimulatedSetting
        <4>5. SimulatedSetting(new) =
                [enabled |-> new.enabled, default |-> new.default, off |-> new.off,
                 bucketing |-> new.bucketing,
                 rules |-> {EngineRule(r, Tree[r.conditions]) : r \in rules},
                 overrides |-> overrides, segments |-> SegmentsByRef]
          BY <4>4 DEF Bundle, BundleOf
        <4> QED BY <4>3, <4>5 DEF after
      <3> QED BY <2>2, <3>2, TraceableContext DEF Impact, Predicts
    <2> QED BY <2>1, <2>2 DEF ImpactPredicts
  <1> QED BY <1>1, ServingInvAlways, PTL

-----------------------------------------------------------------------------
(* Trees.  What validates a tree and what collects its references go down it *)
(* without a bound; they have a least solution because they only ever ask    *)
(* for more of the parts.                                                    *)

LEMMA LeastSolution ==
  ASSUME NEW P, NEW F \in [SUBSET P -> SUBSET P],
         \A X, Y \in SUBSET P : X \subseteq Y => F[X] \subseteq F[Y]
  PROVE  \E L \in SUBSET P : F[L] = L
PROOF
  <1> DEFINE L == {p \in P : \A X \in SUBSET P : F[X] \subseteq X => p \in X}
  <1>1. L \in SUBSET P
    OBVIOUS
  <1>2. \A X \in SUBSET P : F[X] \subseteq X => L \subseteq X
    OBVIOUS
  <1>3. F[L] \subseteq L
    <2> SUFFICES ASSUME NEW p \in F[L], NEW X \in SUBSET P, F[X] \subseteq X PROVE p \in X
      BY <1>1
    <2>1. F[L] \subseteq F[X]
      <3> HIDE DEF L
      <3> QED BY <1>1, <1>2
    <2> HIDE DEF L
    <2> QED BY <2>1
  <1>4. L \subseteq F[L]
    <2> HIDE DEF L
    <2>1. F[L] \in SUBSET P /\ F[F[L]] \subseteq F[L]
      BY <1>1, <1>3
    <2> QED BY <1>2, <2>1
  <1> HIDE DEF L
  <1> QED BY <1>1, <1>3, <1>4

\* A valid tree is shallow enough, and so are its children.
LEMMA ValidDescends ==
  \E valid \in SUBSET (Nodes \X (1..MaxDepth + 1)) :
    /\ \A n \in Nodes : ValidTree(n) <=> <<n, 1>> \in valid
    /\ \A n \in Nodes, depth \in 1..MaxDepth + 1 :
         <<n, depth>> \in valid =>
           /\ depth <= MaxDepth
           /\ \A i \in DOMAIN n.children : <<n.children[i], depth + 1>> \in valid
PROOF
  <1> DEFINE P == Nodes \X (1..MaxDepth + 1)
  <1> DEFINE OK(f, n, depth) ==
        /\ depth <= MaxDepth
        /\ IF n.operator \in Groups \/ n.children # <<>>
           THEN /\ \A i \in DOMAIN n.conditions : f[<<n.conditions[i], depth>>]
                /\ \A i \in DOMAIN n.children : f[<<n.children[i], depth + 1>>]
           ELSE n.operator \in OPERATORS \cup {"IS_ONE_OF_SEGMENT"}
  <1> DEFINE In(X, n, depth) ==
        /\ depth <= MaxDepth
        /\ IF n.operator \in Groups \/ n.children # <<>>
           THEN /\ \A i \in DOMAIN n.conditions : <<n.conditions[i], depth>> \in X
                /\ \A i \in DOMAIN n.children : <<n.children[i], depth + 1>> \in X
           ELSE n.operator \in OPERATORS \cup {"IS_ONE_OF_SEGMENT"}
  <1> DEFINE body(f) == [p \in P |-> OK(f, p[1], p[2])]
  <1> DEFINE F == [X \in SUBSET P |-> {p \in P : In(X, p[1], p[2])}]
  <1> DEFINE c == CHOOSE f : f = body(f)
  <1>1. PICK L \in SUBSET P : F[L] = L
    <2>1. F \in [SUBSET P -> SUBSET P]
      OBVIOUS
    <2>2. ASSUME NEW X \in SUBSET P, NEW Y \in SUBSET P, X \subseteq Y PROVE F[X] \subseteq F[Y]
      <3>1. \A n, depth : In(X, n, depth) => In(Y, n, depth)
        BY <2>2
      <3> HIDE DEF In
      <3> QED BY <3>1
    <2> HIDE DEF F
    <2> QED BY <2>1, <2>2, LeastSolution
  <1> DEFINE f == [p \in P |-> p \in L]
  <1>2. f = body(f)
    <2> SUFFICES ASSUME NEW p \in P PROVE (p \in L) = OK(f, p[1], p[2])
      OBVIOUS
    <2>1. PICK n \in Nodes, depth \in 1..MaxDepth + 1 : p = <<n, depth>>
      OBVIOUS
    <2>2. (p \in L) <=> In(L, n, depth)
      <3> HIDE DEF In
      <3> QED BY <1>1, <2>1
    <2>3. ASSUME depth <= MaxDepth
          PROVE  /\ \A i \in DOMAIN n.conditions : <<n.conditions[i], depth>> \in P
                 /\ \A i \in DOMAIN n.children : <<n.children[i], depth + 1>> \in P
      BY <2>3, NodesAssumption DEF MaxDepth
    <2>4. OK(f, n, depth) <=> In(L, n, depth)
      BY <2>3
    <2>5. (p \in L) <=> OK(f, n, depth)
      <3> HIDE DEF OK, In
      <3> QED BY <2>1, <2>2, <2>4
    <2>6. p[1] = n /\ p[2] = depth
      BY <2>1
    <2> HIDE DEF f
    <2>7. (p \in L) <=> OK(f, p[1], p[2])
      BY <2>5, <2>6
    <2>8. CASE p \in L
      <3>1. (p \in L) = TRUE
        BY <2>8
      <3>2. OK(f, p[1], p[2]) = TRUE
        BY <2>7, <2>8
      <3> QED BY <3>1, <3>2
    <2>9. CASE p \notin L
      <3>1. (p \in L) = FALSE
        BY <2>9
      <3>2. OK(f, p[1], p[2]) = FALSE
        BY <2>7, <2>9
      <3> QED BY <3>1, <3>2
    <2> QED BY <2>8, <2>9
  <1>3. c = body(c)
    <2> HIDE DEF body
    <2> QED BY <1>2
  <1>4. \A n \in Nodes : ValidTree(n) = c[<<n, 1>>]
    BY DEF ValidTree
  <1> HIDE DEF c
  <1> DEFINE V == {p \in P : c[p]}
  <1>5. ASSUME NEW n \in Nodes, NEW depth \in 1..MaxDepth + 1
        PROVE  c[<<n, depth>>] = OK(c, n, depth)
    <2>1. <<n, depth>> \in P
      OBVIOUS
    <2> QED BY <1>3, <2>1
  <1> USE DEF V
  <1>6. V \in SUBSET P
    OBVIOUS
  <1>7. \A n \in Nodes : ValidTree(n) <=> <<n, 1>> \in V
    <2> SUFFICES ASSUME NEW n \in Nodes PROVE ValidTree(n) <=> <<n, 1>> \in V
      OBVIOUS
    <2>1. <<n, 1>> \in P
      BY DEF MaxDepth
    <2> QED BY <1>4, <2>1
  <1>8. ASSUME NEW n \in Nodes, NEW depth \in 1..MaxDepth + 1, <<n, depth>> \in V
        PROVE  depth <= MaxDepth /\ \A i \in DOMAIN n.children : <<n.children[i], depth + 1>> \in V
    <2>1. OK(c, n, depth)
      BY <1>5, <1>8
    <2>2. n.children # <<>> => \A i \in DOMAIN n.children : c[<<n.children[i], depth + 1>>]
      BY <2>1
    <2>3. n.children = <<>> => DOMAIN n.children = {}
      OBVIOUS
    <2>4. \A i \in DOMAIN n.children : <<n.children[i], depth + 1>> \in P
      BY <2>1, NodesAssumption DEF MaxDepth
    <2> QED BY <2>1, <2>2, <2>3, <2>4
  <1> HIDE DEF V
  <1> QED BY <1>6, <1>7, <1>8

\* The references of a node are its own and those of its parts.
LEMMA RefsCollect ==
  ASSUME NEW n \in Nodes
  PROVE  /\ n.operator = "IS_ONE_OF_SEGMENT" => n.ref \in SegmentRefs(n)
         /\ \A i \in DOMAIN n.conditions : SegmentRefs(n.conditions[i]) \subseteq SegmentRefs(n)
         /\ \A i \in DOMAIN n.children : SegmentRefs(n.children[i]) \subseteq SegmentRefs(n)
PROOF
  <1> DEFINE own(m) == IF m.operator = "IS_ONE_OF_SEGMENT" THEN {m.ref} ELSE {}
  <1> DEFINE parts(m) == Range(m.conditions) \cup Range(m.children)
  <1> DEFINE All == {m.ref : m \in Nodes}
  <1> DEFINE P == Nodes \X All
  <1> DEFINE From(X, m) ==
        {r \in All : r \in own(m) \/ \E part \in parts(m) : <<part, r>> \in X}
  <1> DEFINE F == [X \in SUBSET P |-> {p \in P : p[2] \in From(X, p[1])}]
  <1> DEFINE gather(f, m) ==
        own(m) \cup UNION {f[part] : part \in parts(m)}
  <1> DEFINE body(f) == [m \in Nodes |-> gather(f, m)]
  <1> DEFINE c == CHOOSE f : f = body(f)
  <1>0. \A g, m, r : r \in gather(g, m) <=> r \in own(m) \/ \E part \in parts(m) : r \in g[part]
    <2> HIDE DEF own, parts
    <2> QED OBVIOUS
  <1>1. PICK L \in SUBSET P : F[L] = L
    <2>1. F \in [SUBSET P -> SUBSET P]
      OBVIOUS
    <2>2. ASSUME NEW X \in SUBSET P, NEW Y \in SUBSET P, X \subseteq Y PROVE F[X] \subseteq F[Y]
      <3>1. \A m : From(X, m) \subseteq From(Y, m)
        BY <2>2
      <3> HIDE DEF From
      <3> QED BY <3>1
    <2> HIDE DEF F
    <2> QED BY <2>1, <2>2, LeastSolution
  <1> DEFINE f == [m \in Nodes |-> {r \in All : <<m, r>> \in L}]
  <1>2. f = body(f)
    <2> SUFFICES ASSUME NEW m \in Nodes PROVE {r \in All : <<m, r>> \in L} = gather(f, m)
      OBVIOUS
    <2>1. parts(m) \subseteq Nodes
      BY NodesAssumption DEF Range
    <2>2. \A r \in All : <<m, r>> \in L <=> r \in From(L, m)
      <3> SUFFICES ASSUME NEW r \in All PROVE <<m, r>> \in L <=> r \in From(L, m)
        OBVIOUS
      <3>1. <<m, r>> \in P /\ <<m, r>>[1] = m /\ <<m, r>>[2] = r
        OBVIOUS
      <3> HIDE DEF From, P
      <3> QED BY <1>1, <3>1
    <2>3. own(m) \subseteq All
      OBVIOUS
    <2>4. gather(f, m) = From(L, m)
      <3> HIDE DEF All, own, parts, P
      <3>1. \A part \in parts(m) : f[part] = {r \in All : <<part, r>> \in L}
        BY <2>1
      <3> HIDE DEF f, gather
      <3>3. \A r : r \in gather(f, m) <=> r \in From(L, m)
        <4> SUFFICES ASSUME NEW r PROVE r \in gather(f, m) <=> r \in From(L, m)
          OBVIOUS
        <4>1. r \in gather(f, m) <=> r \in own(m) \/ \E part \in parts(m) : r \in f[part]
          BY <1>0
        <4>2. r \in From(L, m) <=> r \in All /\ (r \in own(m) \/ \E part \in parts(m) : <<part, r>> \in L)
          OBVIOUS
        <4>3. \A part \in parts(m) : r \in f[part] <=> r \in All /\ <<part, r>> \in L
          BY <3>1
        <4> HIDE DEF From
        <4> QED BY <2>3, <4>1, <4>2, <4>3
      <3> HIDE DEF From
      <3> QED BY <3>3
    <2> HIDE DEF gather
    <2> QED BY <2>2, <2>4
  <1>3. c = body(c)
    <2> HIDE DEF body
    <2> QED BY <1>2
  <1>4. \A m \in Nodes : SegmentRefs(m) = c[m]
    BY DEF SegmentRefs
  <1> HIDE DEF c
  <1>5. c[n] = gather(c, n)
    <2> HIDE DEF gather
    <2> QED BY <1>3
  <1>6. \A part \in parts(n) : part \in Nodes /\ SegmentRefs(part) = c[part]
    BY <1>4, NodesAssumption DEF Range
  <1>7. SegmentRefs(n) = gather(c, n)
    BY <1>4, <1>5
  <1>8. own(n) \subseteq SegmentRefs(n) /\ \A part \in parts(n) : SegmentRefs(part) \subseteq SegmentRefs(n)
    <2> HIDE DEF gather, own, parts
    <2> QED BY <1>0, <1>6, <1>7
  <1>9. /\ \A i \in DOMAIN n.conditions : n.conditions[i] \in parts(n)
        /\ \A i \in DOMAIN n.children : n.children[i] \in parts(n)
    BY DEF Range
  <1> HIDE DEF parts
  <1> QED BY <1>8, <1>9

\* A chain is a reference and a shorter chain from a row it names.
LEMMA ChainUnfolds ==
  ASSUME NEW length \in Nat
  PROVE  \E chain :
           /\ \A t \in DOMAIN Tree : Chain(t, length) <=> t \in chain[length]
           /\ \A n \in 0..length, t \in DOMAIN Tree :
                t \in chain[n] <=>
                  \/ n = 0
                  \/ \E ref \in SegmentRefs(Tree[t]) :
                       n = 1 \/ \E k \in RowsOfRef(ref) : segments[k].tree \in chain[n - 1]
PROOF
  <1> DEFINE D == 0..length
  <1> DEFINE V == SUBSET DOMAIN Tree
  <1> DEFINE step(g, n) ==
        {t \in DOMAIN Tree :
           n = 0 \/ \E ref \in SegmentRefs(Tree[t]) :
                      n = 1 \/ \E k \in RowsOfRef(ref) : segments[k].tree \in g[n - 1]}
  <1> DEFINE G == [a \in D \X [D -> V] |-> step(a[2], a[1])]
  <1> DEFINE body(f) == [n \in 0..length |-> step(f, n)]
  <1> DEFINE c == CHOOSE f : f = body(f)
  <1>1. PICK f \in [D -> V] : \A x \in D : f[x] = G[<<x, f>>]
    <2>1. G \in [D \X [D -> V] -> V]
      OBVIOUS
    <2>2. ASSUME NEW x \in D, NEW g \in [D -> V], NEW h \in [D -> V],
                 \A y \in D : y < x => g[y] = h[y]
          PROVE  G[<<x, g>>] = G[<<x, h>>]
      <3>1. x # 0 => g[x - 1] = h[x - 1]
        BY <2>2
      <3>2. step(g, x) = step(h, x)
        BY <3>1
      <3> QED BY <3>2
    <2> DEFINE height == [x \in D |-> x]
    <2>3. height \in [D -> Nat] /\ \A x \in D : height[x] < length + 1
      OBVIOUS
    <2>4. \A x \in D : \A g, h \in [D -> V] :
            (\A y \in D : height[y] < height[x] => g[y] = h[y]) => G[<<x, g>>] = G[<<x, h>>]
      <3> HIDE DEF G
      <3> QED BY <2>2
    <2>5. V # {} /\ length + 1 \in Nat
      OBVIOUS
    <2> HIDE DEF G, D, V, height
    <2>6. Descends(D, V, height, length + 1, G)
      BY <2>1, <2>3, <2>4, <2>5 DEF Descends
    <2> QED BY <2>6, DefinedByRecursion
  <1>2. f = body(f)
    <2>1. \A x \in D : f[x] = step(f, x)
      <3> HIDE DEF step
      <3> QED BY <1>1
    <2> HIDE DEF step
    <2> QED BY <2>1
  <1>3. c = body(c)
    <2> HIDE DEF body
    <2> QED BY <1>2
  <1>4. \A t : Chain(t, length) <=> t \in c[length]
    BY DEF Chain
  <1>5. \A n \in 0..length : c[n] = step(c, n)
    <2> HIDE DEF c, step
    <2> QED BY <1>3
  <1> HIDE DEF c
  <1> QED BY <1>4, <1>5

-----------------------------------------------------------------------------
(* Matching.                                                                *)

Outcomes == {Yes, No, Raises}

\* What a group comes to when none of its parts decides.
Pass(n) == IF n.operator \in {"AND", "LIST"} THEN Yes ELSE No

\* The first outcome that is not pass decides; if there is none, all pass.
LEMMA SettleDecides ==
  ASSUME NEW a \in Seq(Outcomes), NEW b \in Seq(Outcomes), NEW pass \in Outcomes
  PROVE  LET x == Settle(a \o b, pass) IN
         /\ x \in Outcomes
         /\ x = pass => /\ \A i \in DOMAIN a : a[i] = pass
                        /\ \A i \in DOMAIN b : b[i] = pass
         /\ x # pass => \/ \E i \in DOMAIN a : a[i] = x
                        \/ \E i \in DOMAIN b : b[i] = x
PROOF
  <1> DEFINE o == a \o b
  <1> DEFINE others == {i \in DOMAIN o : o[i] # pass}
  <1> DEFINE least == CHOOSE i \in others : \A j \in others : i <= j
  <1>1. o \in Seq(Outcomes)
    OBVIOUS
  <1>2. /\ \A i \in DOMAIN a : i \in DOMAIN o /\ o[i] = a[i]
        /\ \A i \in DOMAIN b : Len(a) + i \in DOMAIN o /\ o[Len(a) + i] = b[i]
        /\ \A i \in DOMAIN o : \/ i \in DOMAIN a /\ o[i] = a[i]
                               \/ i - Len(a) \in DOMAIN b /\ o[i] = b[i - Len(a)]
    OBVIOUS
  <1>3. Settle(o, pass) = IF others = {} THEN pass ELSE o[least]
    BY DEF Settle
  <1>4. ASSUME others # {} PROVE least \in others
    <2>1. others \in SUBSET Nat
      <3>1. DOMAIN o = 1..Len(o) /\ Len(o) \in Nat
        BY <1>1
      <3> HIDE DEF o
      <3> QED BY <3>1
    <2>2. \E i \in others : \A j \in others : i <= j
      <3> HIDE DEF others
      <3> QED BY <1>4, <2>1, LeastOf
    <2> HIDE DEF others
    <2> QED BY <2>2
  <1> HIDE DEF o, least
  <1>5. CASE others = {}
    <2>1. \A i \in DOMAIN o : o[i] = pass
      BY <1>5
    <2> QED BY <1>2, <1>3, <1>5, <2>1 DEF o
  <1>6. CASE others # {}
    <2>1. least \in DOMAIN o /\ o[least] # pass
      BY <1>4, <1>6
    <2>2. Settle(o, pass) = o[least]
      BY <1>3, <1>6
    <2>3. o[least] \in Outcomes
      BY <1>1, <2>1
    <2> QED BY <1>2, <2>1, <2>2, <2>3 DEF o
  <1> QED BY <1>5, <1>6

\* A condition comes to one of the outcomes.
LEMMA ConditionTyped ==
  ASSUME NEW n \in Nodes, NEW ctx, NEW segs, \A ref \in DOMAIN segs : segs[ref] \in Nodes,
         NEW group \in [Places -> Outcomes], NEW s \in 1..MaxSegmentDepth + 1
  PROVE  match_condition(n, ctx, segs, s, group) \in Outcomes
PROOF
  <1>1. apply_operator(n.operator, Lookup(ctx, n.attribute), n.values) \in Outcomes
    BY DEF apply_operator, Outcomes
  <1>2. ASSUME ~ (s > MaxSegmentDepth), n.ref \in DOMAIN segs
        PROVE  group[<<segs[n.ref], 1, s + 1>>] \in Outcomes
    <2>1. <<segs[n.ref], 1, s + 1>> \in Places
      BY <1>2 DEF Places, MaxDepth, MaxSegmentDepth
    <2> QED BY <2>1
  <1> QED BY <1>1, <1>2 DEF match_condition, Outcomes

\* The outcome of a place is that of its parts.
Decided(group, ctx, segs, n, depth, s) ==
  LET x == group[<<n, depth, s>>]
      condition(i) == match_condition(n.conditions[i], ctx, segs, s, group)
      child(i) == group[<<n.children[i], depth + 1, s>>]
  IN  /\ depth > MaxDepth => x = Raises
      /\ depth <= MaxDepth /\ x = Pass(n) =>
           /\ \A i \in DOMAIN n.conditions : condition(i) = x
           /\ \A i \in DOMAIN n.children : child(i) = x
      /\ depth <= MaxDepth /\ x # Pass(n) =>
           \/ \E i \in DOMAIN n.conditions : condition(i) = x
           \/ \E i \in DOMAIN n.children : child(i) = x

\* The recursion ends: children are deeper, and segments deeper still.
Remaining == [p \in Places |-> (MaxSegmentDepth + 1 - p[3]) * (MaxDepth + 1) + (MaxDepth + 1 - p[2])]

LEMMA RemainingDescends ==
  /\ Remaining \in [Places -> Nat] /\ \A p \in Places : Remaining[p] < 30
  /\ \A n, m \in Nodes, depth \in 1..MaxDepth, s \in 1..MaxSegmentDepth + 1 :
       Remaining[<<m, depth + 1, s>>] < Remaining[<<n, depth, s>>]
  /\ \A n, m \in Nodes, depth \in 1..MaxDepth, s \in 1..MaxSegmentDepth :
       Remaining[<<m, 1, s + 1>>] < Remaining[<<n, depth, s>>]
PROOF
  <1> USE DEF Remaining, Places, MaxDepth, MaxSegmentDepth
  <1>1. ASSUME NEW n \in Nodes, NEW depth \in 1..6, NEW s \in 1..4
        PROVE  /\ Remaining[<<n, depth, s>>] = (4 - s) * 6 + (6 - depth)
               /\ Remaining[<<n, depth, s>>] \in Nat /\ Remaining[<<n, depth, s>>] < 30
    OBVIOUS
  <1>2. Remaining \in [Places -> Nat] /\ \A p \in Places : Remaining[p] < 30
    OBVIOUS
  <1>3. ASSUME NEW n \in Nodes, NEW m \in Nodes, NEW depth \in 1..MaxDepth, NEW s \in 1..MaxSegmentDepth + 1
        PROVE  Remaining[<<m, depth + 1, s>>] < Remaining[<<n, depth, s>>]
    OBVIOUS
  <1>4. ASSUME NEW n \in Nodes, NEW m \in Nodes, NEW depth \in 1..MaxDepth, NEW s \in 1..MaxSegmentDepth
        PROVE  Remaining[<<m, 1, s + 1>>] < Remaining[<<n, depth, s>>]
    OBVIOUS
  <1> HIDE DEF Remaining, Places, MaxDepth, MaxSegmentDepth
  <1> QED BY <1>2, <1>3, <1>4

LEMMA MatchUnfolds ==
  ASSUME NEW ctx, NEW segs, \A ref \in DOMAIN segs : segs[ref] \in Nodes
  PROVE  \E group \in [Places -> Outcomes] :
           /\ \A n : Matches(n, ctx, segs) = group[<<n, 1, 1>>]
           /\ \A n \in Nodes, depth \in 1..MaxDepth + 1, s \in 1..MaxSegmentDepth + 1 :
                Decided(group, ctx, segs, n, depth, s)
PROOF
  <1> DEFINE conditions(g, n, s) == [i \in DOMAIN n.conditions |-> match_condition(n.conditions[i], ctx, segs, s, g)]
  <1> DEFINE children(g, n, depth, s) == [i \in DOMAIN n.children |-> g[<<n.children[i], depth + 1, s>>]]
  <1> DEFINE outcome(g, n, depth, s) ==
        IF depth > MaxDepth THEN Raises
        ELSE Settle(conditions(g, n, s) \o children(g, n, depth, s),
                    IF n.operator \in {"AND", "LIST"} THEN Yes ELSE No)
  <1> DEFINE body(f) == [p \in Places |-> outcome(f, p[1], p[2], p[3])]
  <1> DEFINE G == [a \in Places \X [Places -> Outcomes] |-> outcome(a[2], a[1][1], a[1][2], a[1][3])]
  <1> DEFINE c == CHOOSE f : f = body(f)
  <1>1. ASSUME NEW g \in [Places -> Outcomes], NEW n \in Nodes,
               NEW depth \in 1..MaxDepth, NEW s \in 1..MaxSegmentDepth + 1
        PROVE  /\ conditions(g, n, s) \in Seq(Outcomes)
               /\ children(g, n, depth, s) \in Seq(Outcomes)
               /\ Pass(n) \in Outcomes
               /\ outcome(g, n, depth, s) = Settle(conditions(g, n, s) \o children(g, n, depth, s), Pass(n))
    <2>1. \A i \in DOMAIN n.conditions : match_condition(n.conditions[i], ctx, segs, s, g) \in Outcomes
      BY NodesAssumption, ConditionTyped
    <2>2. \A i \in DOMAIN n.children : g[<<n.children[i], depth + 1, s>>] \in Outcomes
      BY NodesAssumption DEF Places, MaxDepth
    <2>3. n.conditions \in Seq(Nodes) /\ n.children \in Seq(Nodes)
      BY NodesAssumption
    <2>4. conditions(g, n, s) \in Seq(Outcomes)
      BY <2>1, <2>3
    <2>5. children(g, n, depth, s) \in Seq(Outcomes)
      <3>1. Len(n.children) \in Nat /\ DOMAIN n.children = 1..Len(n.children)
        BY <2>3
      <3>2. children(g, n, depth, s) \in [1..Len(n.children) -> Outcomes]
        BY <2>2, <3>1
      <3> HIDE DEF children
      <3> QED BY <3>1, <3>2
    <2>6. Pass(n) \in Outcomes
      BY DEF Pass, Outcomes
    <2>7. outcome(g, n, depth, s) = Settle(conditions(g, n, s) \o children(g, n, depth, s), Pass(n))
      <3>1. ~ (depth > MaxDepth)
        BY DEF MaxDepth
      <3> HIDE DEF conditions, children
      <3> QED BY <3>1 DEF Pass
    <2> QED BY <2>4, <2>5, <2>6, <2>7
  <1>2. ASSUME NEW g \in [Places -> Outcomes], NEW n \in Nodes,
               NEW depth \in 1..MaxDepth + 1, NEW s \in 1..MaxSegmentDepth + 1
        PROVE  outcome(g, n, depth, s) \in Outcomes
    <2>1. CASE depth > MaxDepth
      BY <2>1 DEF Outcomes
    <2>2. CASE depth <= MaxDepth
      <3>1. depth \in 1..MaxDepth
        BY <2>2 DEF MaxDepth
      <3> HIDE DEF conditions, children, outcome
      <3> QED BY <1>1, <3>1, SettleDecides
    <2> QED BY <2>1, <2>2 DEF MaxDepth
  <1>3. ASSUME NEW g, NEW h, NEW n \in Nodes,
               NEW depth \in 1..MaxDepth + 1, NEW s \in 1..MaxSegmentDepth + 1,
               \A p \in Places : Remaining[p] < Remaining[<<n, depth, s>>] => g[p] = h[p]
        PROVE  outcome(g, n, depth, s) = outcome(h, n, depth, s)
    <2> SUFFICES ASSUME depth <= MaxDepth PROVE outcome(g, n, depth, s) = outcome(h, n, depth, s)
      BY DEF MaxDepth
    <2>1. depth \in 1..MaxDepth
      BY DEF MaxDepth
    <2>2. ASSUME NEW i \in DOMAIN n.children
          PROVE  g[<<n.children[i], depth + 1, s>>] = h[<<n.children[i], depth + 1, s>>]
      <3>1. n.children[i] \in Nodes
        BY NodesAssumption
      <3>2. <<n.children[i], depth + 1, s>> \in Places
        BY <2>1, <3>1 DEF Places, MaxDepth
      <3> QED BY <1>3, <2>1, <3>1, <3>2, RemainingDescends
    <2>3. ASSUME NEW i \in DOMAIN n.conditions
          PROVE  match_condition(n.conditions[i], ctx, segs, s, g) = match_condition(n.conditions[i], ctx, segs, s, h)
      <3> DEFINE m == n.conditions[i]
      <3>1. ASSUME ~ (s > MaxSegmentDepth), m.ref \in DOMAIN segs
            PROVE  g[<<segs[m.ref], 1, s + 1>>] = h[<<segs[m.ref], 1, s + 1>>]
        <4>1. s \in 1..MaxSegmentDepth /\ segs[m.ref] \in Nodes
          BY <3>1 DEF MaxSegmentDepth
        <4>2. <<segs[m.ref], 1, s + 1>> \in Places
          BY <4>1 DEF Places, MaxDepth, MaxSegmentDepth
        <4> HIDE DEF m
        <4> QED BY <1>3, <2>1, <4>1, <4>2, RemainingDescends
      <3> HIDE DEF m
      <3>2. match_condition(m, ctx, segs, s, g) = match_condition(m, ctx, segs, s, h)
        BY <3>1 DEF match_condition
      <3> QED BY <3>2 DEF m
    <2>4. conditions(g, n, s) = conditions(h, n, s)
      BY <2>3
    <2>5. children(g, n, depth, s) = children(h, n, depth, s)
      BY <2>2
    <2> HIDE DEF conditions, children
    <2> QED BY <2>4, <2>5
  <1>4. PICK f \in [Places -> Outcomes] : \A p \in Places : f[p] = G[<<p, f>>]
    <2>1. \A p \in Places : p[1] \in Nodes /\ p[2] \in 1..MaxDepth + 1 /\ p[3] \in 1..MaxSegmentDepth + 1
                            /\ p = <<p[1], p[2], p[3]>>
      BY DEF Places
    <2> HIDE DEF outcome
    <2>2. G \in [Places \X [Places -> Outcomes] -> Outcomes]
      BY <1>2, <2>1
    <2>3. \A p \in Places : \A g, h \in [Places -> Outcomes] :
            (\A q \in Places : Remaining[q] < Remaining[p] => g[q] = h[q]) => G[<<p, g>>] = G[<<p, h>>]
      <3> SUFFICES ASSUME NEW p \in Places, NEW g \in [Places -> Outcomes], NEW h \in [Places -> Outcomes],
                          \A q \in Places : Remaining[q] < Remaining[p] => g[q] = h[q]
                   PROVE  G[<<p, g>>] = G[<<p, h>>]
        OBVIOUS
      <3>1. outcome(g, p[1], p[2], p[3]) = outcome(h, p[1], p[2], p[3])
        BY <1>3, <2>1
      <3> QED BY <3>1
    <2>4. Outcomes # {} /\ 30 \in Nat
      BY DEF Outcomes
    <2> HIDE DEF G
    <2>5. Descends(Places, Outcomes, Remaining, 30, G)
      BY <2>2, <2>3, <2>4, RemainingDescends DEF Descends
    <2> QED BY <2>5, DefinedByRecursion
  <1>5. f = body(f)
    <2>1. \A p \in Places : f[p] = outcome(f, p[1], p[2], p[3])
      <3> HIDE DEF outcome
      <3> QED BY <1>4
    <2> HIDE DEF outcome
    <2> QED BY <2>1
  <1>6. c = body(c)
    <2> HIDE DEF body
    <2> QED BY <1>5
  <1>7. match_condition_group(ctx, segs) = c
    BY DEF match_condition_group
  <1> HIDE DEF c
  <1>8. \A p \in Places : c[p] = outcome(c, p[1], p[2], p[3])
    <2> HIDE DEF outcome
    <2> QED BY <1>6
  <1>9. ASSUME NEW p \in Places PROVE c[p] = f[p]
    <2> DEFINE T == {Remaining[q] : q \in {q \in Places : c[q] # f[q]}}
    <2> SUFFICES ASSUME T # {} PROVE FALSE
      BY <1>9
    <2>1. T \in SUBSET Nat
      BY RemainingDescends
    <2>2. PICK k \in T : \A j \in T : k <= j
      <3> HIDE DEF T
      <3> QED BY <2>1, LeastOf
    <2>3. PICK q \in Places : c[q] # f[q] /\ k = Remaining[q]
      BY <2>2
    <2>4. \A r \in Places : Remaining[r] < Remaining[q] => c[r] = f[r]
      <3>1. \A r \in Places : Remaining[r] \in Nat /\ (c[r] # f[r] => Remaining[r] \in T)
        BY RemainingDescends
      <3> HIDE DEF T
      <3> QED BY <2>2, <2>3, <3>1
    <2>5. q[1] \in Nodes /\ q[2] \in 1..MaxDepth + 1 /\ q[3] \in 1..MaxSegmentDepth + 1
          /\ q = <<q[1], q[2], q[3]>>
      BY DEF Places
    <2>6. f[q] = outcome(f, q[1], q[2], q[3])
      <3> HIDE DEF outcome
      <3> QED BY <1>5
    <2> HIDE DEF outcome, T
    <2>7. outcome(c, q[1], q[2], q[3]) = outcome(f, q[1], q[2], q[3])
      BY <1>3, <2>4, <2>5
    <2> QED BY <1>8, <2>3, <2>6, <2>7
  <1>10. c = f
    <2>1. c = [p \in Places |-> outcome(c, p[1], p[2], p[3])]
      BY <1>6
    <2>2. f = [p \in Places |-> f[p]]
      OBVIOUS
    <2> HIDE DEF outcome
    <2>3. c = [p \in Places |-> c[p]]
      BY <2>1
    <2> QED BY <1>9, <2>2, <2>3
  <1>11. ASSUME NEW n \in Nodes, NEW depth \in 1..MaxDepth + 1, NEW s \in 1..MaxSegmentDepth + 1
         PROVE  Decided(f, ctx, segs, n, depth, s)
    <2> DEFINE x == f[<<n, depth, s>>]
    <2>1. x = outcome(f, n, depth, s)
      <3>1. <<n, depth, s>> \in Places
        BY DEF Places
      <3> HIDE DEF outcome
      <3> QED BY <1>5, <3>1
    <2>2. CASE depth > MaxDepth
      <3>1. x = Raises
        BY <2>1, <2>2
      <3> HIDE DEF x
      <3> QED BY <2>2, <3>1 DEF Decided, MaxDepth, x
    <2>3. CASE depth <= MaxDepth
      <3> DEFINE a == conditions(f, n, s)
      <3> DEFINE b == children(f, n, depth, s)
      <3>1. /\ a \in Seq(Outcomes) /\ b \in Seq(Outcomes) /\ Pass(n) \in Outcomes
            /\ x = Settle(a \o b, Pass(n))
        <4>1. depth \in 1..MaxDepth
          BY <2>3 DEF MaxDepth
        <4> HIDE DEF conditions, children, outcome, x
        <4> QED BY <1>1, <2>1, <4>1
      <3>2. /\ x = Pass(n) => (\A i \in DOMAIN a : a[i] = x) /\ (\A i \in DOMAIN b : b[i] = x)
            /\ x # Pass(n) => (\E i \in DOMAIN a : a[i] = x) \/ (\E i \in DOMAIN b : b[i] = x)
        <4> HIDE DEF a, b, x
        <4> QED BY <3>1, SettleDecides
      <3>3. /\ DOMAIN a = DOMAIN n.conditions
            /\ \A i \in DOMAIN n.conditions : a[i] = match_condition(n.conditions[i], ctx, segs, s, f)
        OBVIOUS
      <3>4. /\ DOMAIN b = DOMAIN n.children
            /\ \A i \in DOMAIN n.children : b[i] = f[<<n.children[i], depth + 1, s>>]
        OBVIOUS
      <3> HIDE DEF a, b
      <3> QED BY <2>3, <3>2, <3>3, <3>4 DEF Decided, MaxDepth
    <2> QED BY <2>2, <2>3 DEF MaxDepth
  <1>12. \A n : Matches(n, ctx, segs) = f[<<n, 1, 1>>]
    BY <1>7, <1>10 DEF Matches
  <1> HIDE DEF body
  <1> QED BY <1>11, <1>12

\* The segments of a ruleset are the valid trees of rows.
LEMMA SegmentRows ==
  ASSUME SegmentsOK, NEW ref \in DOMAIN SegmentsByRef
  PROVE  /\ ref[2] \in DOMAIN segments /\ ref[2] \in RowsOfRef(ref)
         /\ segments[ref[2]].tree \in DOMAIN Tree
         /\ SegmentsByRef[ref] = Tree[segments[ref[2]].tree]
         /\ SegmentsByRef[ref] \in Nodes
         /\ ValidTree(SegmentsByRef[ref])
PROOF
  <1>1. /\ ref \in {"key", "id"} \X DOMAIN segments /\ RowsOfRef(ref) # {}
        /\ SegmentsByRef[ref] = Tree[segments[ref[2]].tree]
    BY DEF SegmentsByRef
  <1>2. ref[2] \in DOMAIN segments
    BY <1>1
  <1>3. ref[2] \in RowsOfRef(ref)
    BY <1>1 DEF RowsOfRef
  <1>4. segments[ref[2]].tree \in DOMAIN Tree /\ ValidTree(Tree[segments[ref[2]].tree])
    BY <1>2 DEF SegmentsOK
  <1>5. Tree[segments[ref[2]].tree] \in Nodes
    BY <1>4, TreeAssumption
  <1> QED BY <1>1, <1>2, <1>3, <1>4, <1>5

-----------------------------------------------------------------------------
(* What was checked can be evaluated.                                       *)

\* Nothing a plain context holds is a NaN.
LEMMA PlainValues ==
  ASSUME NEW raw \in Contexts, Plain(raw), NEW a, NEW v \in Lookup(ServerContext(raw), a)
  PROVE  ~ v.nan
PROOF
  <1>1. ASSUME NEW k \in Fields(raw) PROVE ~ raw.fields[k].nan
    BY DEF Plain
  <1>2. ASSUME NEW k \in DOMAIN raw.attributes PROVE ~ raw.attributes[k].nan
    BY DEF Plain
  <1>3. CASE "targeting_key" \in Fields(raw)
    <2>1. ServerContext(raw) = [key |-> {raw.fields["targeting_key"]}, attributes |-> raw.attributes]
      BY <1>3 DEF ServerContext
    <2> QED BY <1>1, <1>2, <1>3, <2>1 DEF Lookup
  <1>4. ASSUME NEW k \in Fields(raw), ServerContext(raw) = Keyed(raw, k) PROVE ~ v.nan
    <2>1. /\ Keyed(raw, k).key = {raw.fields[k]}
          /\ \A b \in DOMAIN Keyed(raw, k).attributes :
               b \in Fields(raw) /\ Keyed(raw, k).attributes[b] = raw.fields[b]
      BY DEF Keyed, Without, Fields
    <2> QED BY <1>1, <1>4, <2>1 DEF Lookup
  <1>5. CASE ServerContext(raw) = [key |-> {}, attributes |-> raw.fields]
    BY <1>1, <1>5 DEF Lookup, Fields
  <1> QED BY <1>3, <1>4, <1>5 DEF ServerContext

\* An operator raises only for a NaN.
LEMMA OperatorDecides ==
  ASSUME NEW raw \in Contexts, Plain(raw), PlainTrees, NEW n \in Nodes
  PROVE  apply_operator(n.operator, Lookup(ServerContext(raw), n.attribute), n.values) # Raises
PROOF
  <1> DEFINE present == Lookup(ServerContext(raw), n.attribute)
  <1>1. present # {} => The(present) \in present
    <2> HIDE DEF present
    <2> QED BY DEF The
  <1>2. present # {} => ~ The(present).nan
    BY <1>1, PlainValues
  <1>3. n.operator \in Numeric => ~ The(n.values).nan
    BY DEF PlainTrees
  <1> HIDE DEF present
  <1>4. present # {} => ~ OrdersNaN(n.operator, The(present), The(n.values))
    BY <1>2, <1>3 DEF OrdersNaN
  <1>5. apply_operator(n.operator, present, n.values) # Raises
    BY <1>4 DEF apply_operator, Yes, No, Raises
  <1> QED BY <1>5 DEF present

\* A valid tree without a long chain raises nowhere: what would raise at the
\* greatest depth hangs on a part that is not valid, or on a chain too long.
LEMMA ValidTreesDecide ==
  ASSUME SegmentsOK, PlainTrees, NEW raw \in Contexts, Plain(raw),
         NEW t \in DOMAIN Tree, ValidTree(Tree[t]), ~ Chain(t, MaxSegmentDepth + 1)
  PROVE  Matches(Tree[t], ServerContext(raw), SegmentsByRef) # Raises
PROOF
  <1> DEFINE ctx == ServerContext(raw)
  <1> DEFINE segs == SegmentsByRef
  <1>1. PICK valid \in SUBSET (Nodes \X (1..MaxDepth + 1)) :
          /\ \A n \in Nodes : ValidTree(n) <=> <<n, 1>> \in valid
          /\ \A n \in Nodes, depth \in 1..MaxDepth + 1 :
               <<n, depth>> \in valid =>
                 /\ depth <= MaxDepth
                 /\ \A i \in DOMAIN n.children : <<n.children[i], depth + 1>> \in valid
    BY ValidDescends
  <1>2. PICK chain :
          /\ \A u \in DOMAIN Tree : Chain(u, MaxSegmentDepth + 1) <=> u \in chain[MaxSegmentDepth + 1]
          /\ \A n \in 0..MaxSegmentDepth + 1, u \in DOMAIN Tree :
               u \in chain[n] <=>
                 \/ n = 0
                 \/ \E ref \in SegmentRefs(Tree[u]) :
                      n = 1 \/ \E k \in RowsOfRef(ref) : segments[k].tree \in chain[n - 1]
    <2>1. MaxSegmentDepth + 1 \in Nat
      BY DEF MaxSegmentDepth
    <2> QED BY <2>1, ChainUnfolds
  <1>3. PICK group \in [Places -> Outcomes] :
          /\ \A n : Matches(n, ctx, segs) = group[<<n, 1, 1>>]
          /\ \A n \in Nodes, depth \in 1..MaxDepth + 1, s \in 1..MaxSegmentDepth + 1 :
               Decided(group, ctx, segs, n, depth, s)
    <2>1. \A ref \in DOMAIN segs : segs[ref] \in Nodes
      BY SegmentRows
    <2> HIDE DEF segs, ctx
    <2> QED BY <2>1, MatchUnfolds
  <1> HIDE DEF segs, ctx
  <1> DEFINE Fine(n, depth, s) ==
        /\ <<n, depth>> \in valid
        /\ \E u \in DOMAIN Tree : /\ SegmentRefs(n) \subseteq SegmentRefs(Tree[u])
                                  /\ u \notin chain[MaxSegmentDepth + 2 - s]
  <1> DEFINE Bad == {p \in Places : Fine(p[1], p[2], p[3]) /\ group[p] = Raises}
  <1> DEFINE T == {Remaining[p] : p \in Bad}
  <1>4. ASSUME NEW n \in Nodes, NEW depth \in 1..MaxDepth + 1, NEW s \in 1..MaxSegmentDepth + 1,
               Fine(n, depth, s), group[<<n, depth, s>>] = Raises
        PROVE  \E p \in Bad : Remaining[p] < Remaining[<<n, depth, s>>]
    <2> SUFFICES ASSUME \A p \in Bad : ~ (Remaining[p] < Remaining[<<n, depth, s>>]) PROVE FALSE
      OBVIOUS
    <2>1. depth \in 1..MaxDepth
      <3>1. <<n, depth>> \in valid
        BY <1>4
      <3>2. depth <= MaxDepth
        BY <1>1, <3>1
      <3> QED BY <3>2 DEF MaxDepth
    <2>2. PICK u \in DOMAIN Tree : /\ SegmentRefs(n) \subseteq SegmentRefs(Tree[u])
                                   /\ u \notin chain[MaxSegmentDepth + 2 - s]
      BY <1>4
    <2>3. \/ \E i \in DOMAIN n.conditions : match_condition(n.conditions[i], ctx, segs, s, group) = Raises
          \/ \E i \in DOMAIN n.children : group[<<n.children[i], depth + 1, s>>] = Raises
      <3>1. Decided(group, ctx, segs, n, depth, s)
        BY <1>3
      <3>2. Pass(n) # Raises
        BY DEF Pass, Yes, No, Raises
      <3> QED BY <1>4, <2>1, <3>1, <3>2 DEF Decided, MaxDepth
    <2>4. ASSUME NEW i \in DOMAIN n.children, group[<<n.children[i], depth + 1, s>>] = Raises PROVE FALSE
      <3> DEFINE m == n.children[i]
      <3>1. m \in Nodes
        BY NodesAssumption
      <3>2. SegmentRefs(m) \subseteq SegmentRefs(Tree[u])
        BY <2>2, RefsCollect
      <3>3. <<m, depth + 1>> \in valid
        BY <1>1, <1>4
      <3> HIDE DEF m
      <3>4. <<m, depth + 1, s>> \in Places
        BY <2>1, <3>1 DEF Places, MaxDepth
      <3>5. Fine(m, depth + 1, s)
        BY <2>2, <3>2, <3>3
      <3>6. <<m, depth + 1, s>> \in Bad
        BY <2>4, <3>4, <3>5 DEF m
      <3>7. Remaining[<<m, depth + 1, s>>] < Remaining[<<n, depth, s>>]
        BY <2>1, <3>1, RemainingDescends
      <3> HIDE DEF Bad
      <3> QED BY <3>6, <3>7
    <2>5. ASSUME NEW i \in DOMAIN n.conditions,
                 match_condition(n.conditions[i], ctx, segs, s, group) = Raises
          PROVE  FALSE
      <3> DEFINE m == n.conditions[i]
      <3>1. m \in Nodes
        BY NodesAssumption
      <3>2. m.operator = "IS_ONE_OF_SEGMENT" => m.ref \in SegmentRefs(Tree[u])
        BY <2>2, <3>1, RefsCollect
      <3>3. apply_operator(m.operator, Lookup(ctx, m.attribute), m.values) # Raises
        BY <3>1, OperatorDecides DEF ctx
      <3>4. match_condition(m, ctx, segs, s, group) = Raises
        BY <2>5
      <3> HIDE DEF m
      <3>5. /\ m.operator = "IS_ONE_OF_SEGMENT"
            /\ \/ s > MaxSegmentDepth
               \/ s <= MaxSegmentDepth /\ m.ref \in DOMAIN segs
                  /\ group[<<segs[m.ref], 1, s + 1>>] = Raises
        BY <3>3, <3>4 DEF match_condition, No, Raises, MaxSegmentDepth
      <3>6. CASE s > MaxSegmentDepth
        <4>1. MaxSegmentDepth + 2 - s = 1 /\ 1 \in 0..MaxSegmentDepth + 1
          BY <3>6 DEF MaxSegmentDepth
        <4>2. u \in chain[1]
          BY <1>2, <3>2, <3>5, <4>1
        <4> QED BY <2>2, <4>1, <4>2
      <3>7. ASSUME s <= MaxSegmentDepth, m.ref \in DOMAIN segs,
                   group[<<segs[m.ref], 1, s + 1>>] = Raises
            PROVE  FALSE
        <4> DEFINE w == segments[m.ref[2]].tree
        <4>1. /\ m.ref[2] \in RowsOfRef(m.ref) /\ w \in DOMAIN Tree
              /\ segs[m.ref] = Tree[w] /\ Tree[w] \in Nodes /\ ValidTree(Tree[w])
          BY <3>7, SegmentRows DEF segs
        <4>2. /\ MaxSegmentDepth + 2 - s \in 0..MaxSegmentDepth + 1
              /\ MaxSegmentDepth + 2 - (s + 1) = (MaxSegmentDepth + 2 - s) - 1
              /\ s \in 1..MaxSegmentDepth /\ s + 1 \in 1..MaxSegmentDepth + 1
          BY <3>7 DEF MaxSegmentDepth
        <4>3. w \notin chain[(MaxSegmentDepth + 2 - s) - 1]
          BY <1>2, <2>2, <3>2, <3>5, <4>1, <4>2
        <4> HIDE DEF w
        <4>4. Fine(Tree[w], 1, s + 1)
          BY <1>1, <4>1, <4>2, <4>3
        <4>5. <<Tree[w], 1, s + 1>> \in Places
          BY <4>1, <4>2 DEF Places, MaxDepth
        <4>6. <<Tree[w], 1, s + 1>> \in Bad
          BY <3>7, <4>1, <4>4, <4>5
        <4>7. Remaining[<<Tree[w], 1, s + 1>>] < Remaining[<<n, depth, s>>]
          BY <2>1, <4>1, <4>2, RemainingDescends
        <4> HIDE DEF Bad
        <4> QED BY <4>6, <4>7
      <3> QED BY <3>5, <3>6, <3>7
    <2> QED BY <2>3, <2>4, <2>5
  <1>5. T = {}
    <2> SUFFICES ASSUME T # {} PROVE FALSE
      OBVIOUS
    <2>1. T \in SUBSET Nat
      BY RemainingDescends
    <2>2. PICK k \in T : \A j \in T : k <= j
      <3> HIDE DEF T
      <3> QED BY <2>1, LeastOf
    <2>3. PICK q \in Bad : k = Remaining[q]
      BY <2>2
    <2>4. /\ q[1] \in Nodes /\ q[2] \in 1..MaxDepth + 1 /\ q[3] \in 1..MaxSegmentDepth + 1
          /\ q = <<q[1], q[2], q[3]>>
      BY DEF Places
    <2>5. Fine(q[1], q[2], q[3]) /\ group[q] = Raises
      BY <2>3
    <2> HIDE DEF Fine, Bad
    <2>6. PICK p \in Bad : Remaining[p] < Remaining[q]
      BY <1>4, <2>4, <2>5
    <2>7. Remaining[p] \in T
      OBVIOUS
    <2> QED BY <2>1, <2>2, <2>3, <2>6, <2>7
  <1>6. Tree[t] \in Nodes
    BY TreeAssumption
  <1>7. <<Tree[t], 1, 1>> \in Places
    BY <1>6 DEF Places, MaxDepth, MaxSegmentDepth
  <1>8. Fine(Tree[t], 1, 1)
    <2>1. MaxSegmentDepth + 2 - 1 = MaxSegmentDepth + 1
      BY DEF MaxSegmentDepth
    <2> QED BY <1>1, <1>2, <1>6, <2>1
  <1> HIDE DEF Fine
  <1>9. group[<<Tree[t], 1, 1>>] # Raises
    BY <1>5, <1>7, <1>8
  <1> QED BY <1>3, <1>9 DEF ctx, segs

\* What set_targeting_rules_atomic and the segments accept is evaluated for
\* every plain context.
THEOREM AcceptedIsEvaluated == FlagServingSpec => []AcceptedEvaluates
PROOF
  <1>1. ServingInv => AcceptedEvaluates
    <2> SUFFICES ASSUME ServingInv, checked, ShortChains, PlainTrees, NEW raw \in Contexts, Plain(raw)
                 PROVE  Server(raw).reason # Raises
      BY DEF AcceptedEvaluates
    <2> DEFINE ctx == ServerContext(raw)
    <2> DEFINE value == BucketingValue(Bundle, ctx)
    <2>1. ASSUME NEW x \in Bundle.rules
          PROVE  Matches(x.tree, ctx, Bundle.segments) # Raises /\ ByRule(x, value).reason # Raises
      <3>1. PICK r \in rules : x = EngineRule(r, Tree[r.conditions])
        BY DEF Bundle, BundleOf
      <3>2. /\ r.conditions \in DOMAIN Tree /\ r.distribution \in Seq(Entries)
            /\ ValidDistribution(r.distribution) /\ ValidTree(Tree[r.conditions])
            /\ \A i \in DOMAIN r.distribution : r.distribution[i].variation \in Own
        BY DEF ServingInv, RulesOK, RuleRows, CheckedOK
      <3>3. Matches(Tree[r.conditions], ctx, SegmentsByRef) # Raises
        BY <3>2, ValidTreesDecide DEF ServingInv, ShortChains
      <3>4. x.tree = Tree[r.conditions] /\ x.distribution = r.distribution
        BY <3>1, <3>2, KnownKeepsOwn DEF EngineRule
      <3>5. Bundle.segments = SegmentsByRef
        BY DEF Bundle, BundleOf
      <3>6. ByRule(x, value).reason # Raises
        BY <3>2, <3>4 DEF ByRule, Result, Raises
      <3> QED BY <3>3, <3>4, <3>5, <3>6
    <2>2. \A x \in Decisive(Bundle, ctx) : x \in Bundle.rules
      BY DEF Decisive, Hit
    <2>3. Decisive(Bundle, ctx) # {} => The(Decisive(Bundle, ctx)) \in Decisive(Bundle, ctx)
      BY DEF The
    <2> HIDE DEF ctx, value
    <2> QED BY <2>1, <2>2, <2>3 DEF Server, evaluate, Result, Raises, ctx, value
  <1> QED BY <1>1, ServingInvAlways, PTL

-----------------------------------------------------------------------------
(* The rule that decides.                                                   *)

\* A condition, by what the trees of its segments are known to mean.
Meant(X, c, fuel, ctx, segs) ==
  IF c.operator = "IS_ONE_OF_SEGMENT"
  THEN fuel > 0 /\ c.ref \in DOMAIN segs /\ <<segs[c.ref], fuel - 1>> \in X
  ELSE apply_operator(c.operator, Lookup(ctx, c.attribute), c.values) = Yes

\* A tree, by what its parts and the trees of its segments are known to mean.
MeantOf(X, n, fuel, ctx, segs) ==
  IF n.operator \in {"AND", "LIST"}
  THEN /\ \A i \in DOMAIN n.conditions : Meant(X, n.conditions[i], fuel, ctx, segs)
       /\ \A i \in DOMAIN n.children : <<n.children[i], fuel>> \in X
  ELSE \/ \E i \in DOMAIN n.conditions : Meant(X, n.conditions[i], fuel, ctx, segs)
       \/ \E i \in DOMAIN n.children : <<n.children[i], fuel>> \in X

\* Means is a function, and what it says of a tree it says of its parts.
LEMMA MeansUnfolds ==
  ASSUME NEW ctx, NEW segs, \A ref \in DOMAIN segs : segs[ref] \in Nodes
  PROVE  \E X \in SUBSET (Nodes \X (0..MaxSegmentDepth)) :
           /\ \A n \in Nodes : Means(n, ctx, segs) <=> <<n, MaxSegmentDepth>> \in X
           /\ \A n \in Nodes, fuel \in 0..MaxSegmentDepth :
                <<n, fuel>> \in X <=> MeantOf(X, n, fuel, ctx, segs)
PROOF
  <1> DEFINE P == Nodes \X (0..MaxSegmentDepth)
  <1> DEFINE cond(f, c, fuel) ==
        IF c.operator = "IS_ONE_OF_SEGMENT"
        THEN fuel > 0 /\ c.ref \in DOMAIN segs /\ f[<<segs[c.ref], fuel - 1>>]
        ELSE apply_operator(c.operator, Lookup(ctx, c.attribute), c.values) = Yes
  <1> DEFINE OK(f, n, fuel) ==
        IF n.operator \in {"AND", "LIST"}
        THEN /\ \A i \in DOMAIN n.conditions : cond(f, n.conditions[i], fuel)
             /\ \A i \in DOMAIN n.children : f[<<n.children[i], fuel>>]
        ELSE \/ \E i \in DOMAIN n.conditions : cond(f, n.conditions[i], fuel)
             \/ \E i \in DOMAIN n.children : f[<<n.children[i], fuel>>]
  <1> DEFINE In(X, n, fuel) == MeantOf(X, n, fuel, ctx, segs)
  <1> DEFINE body(f) == [p \in P |-> OK(f, p[1], p[2])]
  <1> DEFINE F == [X \in SUBSET P |-> {p \in P : In(X, p[1], p[2])}]
  <1> DEFINE c == CHOOSE f : f = body(f)
  <1>1. PICK L \in SUBSET P : F[L] = L
    <2>1. F \in [SUBSET P -> SUBSET P]
      OBVIOUS
    <2>2. ASSUME NEW X \in SUBSET P, NEW Y \in SUBSET P, X \subseteq Y PROVE F[X] \subseteq F[Y]
      <3>1. \A n, fuel : Meant(X, n, fuel, ctx, segs) => Meant(Y, n, fuel, ctx, segs)
        BY <2>2 DEF Meant
      <3>2. \A n, fuel : In(X, n, fuel) => In(Y, n, fuel)
        BY <2>2, <3>1 DEF MeantOf
      <3> HIDE DEF In
      <3> QED BY <3>2
    <2> HIDE DEF F
    <2> QED BY <2>1, <2>2, LeastSolution
  <1>2. ASSUME NEW g, NEW X \in SUBSET P, \A p \in P : g[p] <=> p \in X,
               NEW n \in Nodes, NEW fuel \in 0..MaxSegmentDepth
        PROVE  OK(g, n, fuel) <=> In(X, n, fuel)
    <2>1. ASSUME NEW i \in DOMAIN n.conditions
          PROVE  cond(g, n.conditions[i], fuel) <=> Meant(X, n.conditions[i], fuel, ctx, segs)
      <3> DEFINE m == n.conditions[i]
      <3>1. fuel > 0 /\ m.ref \in DOMAIN segs => <<segs[m.ref], fuel - 1>> \in P
        BY DEF MaxSegmentDepth
      <3> HIDE DEF P, m
      <3>2. cond(g, m, fuel) <=> Meant(X, m, fuel, ctx, segs)
        BY <1>2, <3>1 DEF Meant
      <3> QED BY <3>2 DEF m
    <2>2. ASSUME NEW i \in DOMAIN n.children
          PROVE  g[<<n.children[i], fuel>>] <=> <<n.children[i], fuel>> \in X
      <3>1. <<n.children[i], fuel>> \in P
        BY NodesAssumption
      <3> HIDE DEF P
      <3> QED BY <1>2, <3>1
    <2> HIDE DEF cond
    <2> QED BY <2>1, <2>2 DEF MeantOf
  <1> DEFINE f == [p \in P |-> p \in L]
  <1>3. f = body(f)
    <2> SUFFICES ASSUME NEW p \in P PROVE (p \in L) = OK(f, p[1], p[2])
      OBVIOUS
    <2>1. p[1] \in Nodes /\ p[2] \in 0..MaxSegmentDepth
      OBVIOUS
    <2>2. \A q \in P : f[q] <=> q \in L
      OBVIOUS
    <2> HIDE DEF f
    <2>3. OK(f, p[1], p[2]) <=> In(L, p[1], p[2])
      <3> HIDE DEF OK, In, P
      <3> QED BY <1>2, <2>1, <2>2
    <2>4. (p \in L) <=> In(L, p[1], p[2])
      <3> HIDE DEF In
      <3> QED BY <1>1
    <2>5. CASE p \in L
      <3>1. (p \in L) = TRUE
        BY <2>5
      <3>2. OK(f, p[1], p[2]) = TRUE
        BY <2>3, <2>4, <2>5
      <3> QED BY <3>1, <3>2
    <2>6. CASE p \notin L
      <3>1. (p \in L) = FALSE
        BY <2>6
      <3>2. OK(f, p[1], p[2]) = FALSE
        BY <2>3, <2>4, <2>6
      <3> QED BY <3>1, <3>2
    <2> QED BY <2>5, <2>6
  <1>4. c = body(c)
    <2> HIDE DEF body
    <2> QED BY <1>3
  <1>5. \A n \in Nodes : Means(n, ctx, segs) = c[<<n, MaxSegmentDepth>>]
    BY DEF Means
  <1> HIDE DEF c
  <1> DEFINE V == {p \in P : c[p]}
  <1>6. \A p \in P : c[p] <=> p \in V
    OBVIOUS
  <1>7. ASSUME NEW n \in Nodes, NEW fuel \in 0..MaxSegmentDepth
        PROVE  <<n, fuel>> \in V <=> In(V, n, fuel)
    <2>1. <<n, fuel>> \in P
      OBVIOUS
    <2>2. c[<<n, fuel>>] = OK(c, n, fuel)
      <3>1. <<n, fuel>>[1] = n /\ <<n, fuel>>[2] = fuel
        OBVIOUS
      <3> HIDE DEF OK, P
      <3> QED BY <1>4, <2>1, <3>1
    <2>3. V \in SUBSET P
      OBVIOUS
    <2>4. OK(c, n, fuel) <=> In(V, n, fuel)
      <3> HIDE DEF OK, In, P, V
      <3> QED BY <1>2, <1>6, <2>3
    <2> HIDE DEF OK, In, P, V
    <2> QED BY <1>6, <2>1, <2>2, <2>4
  <1>8. ASSUME NEW n \in Nodes PROVE Means(n, ctx, segs) <=> <<n, MaxSegmentDepth>> \in V
    <2>1. <<n, MaxSegmentDepth>> \in P
      BY DEF MaxSegmentDepth
    <2> HIDE DEF P, V
    <2> QED BY <1>5, <1>6, <2>1
  <1>9. V \in SUBSET P
    OBVIOUS
  <1> HIDE DEF V
  <1> QED BY <1>7, <1>8, <1>9

\* Where the engine answers, it answers what the tree means.
LEMMA EngineMeans ==
  ASSUME NEW ctx, NEW segs, \A ref \in DOMAIN segs : segs[ref] \in Nodes, NEW t \in Nodes
  PROVE  /\ Matches(t, ctx, segs) \in Outcomes
         /\ Matches(t, ctx, segs) = Yes => Means(t, ctx, segs)
         /\ Matches(t, ctx, segs) = No => ~ Means(t, ctx, segs)
PROOF
  <1>1. PICK X \in SUBSET (Nodes \X (0..MaxSegmentDepth)) :
          /\ \A n \in Nodes : Means(n, ctx, segs) <=> <<n, MaxSegmentDepth>> \in X
          /\ \A n \in Nodes, fuel \in 0..MaxSegmentDepth :
               <<n, fuel>> \in X <=> MeantOf(X, n, fuel, ctx, segs)
    BY MeansUnfolds
  <1>2. PICK group \in [Places -> Outcomes] :
          /\ \A n : Matches(n, ctx, segs) = group[<<n, 1, 1>>]
          /\ \A n \in Nodes, depth \in 1..MaxDepth + 1, s \in 1..MaxSegmentDepth + 1 :
               Decided(group, ctx, segs, n, depth, s)
    BY MatchUnfolds
  <1> DEFINE Agree(x, means) == (x = Yes => means) /\ (x = No => ~ means)
  <1> DEFINE Right(n, depth, s) == Agree(group[<<n, depth, s>>], <<n, MaxSegmentDepth + 1 - s>> \in X)
  <1> DEFINE Bad == {p \in Places : ~ Right(p[1], p[2], p[3])}
  <1> DEFINE T == {Remaining[p] : p \in Bad}
  <1>3. ASSUME NEW n \in Nodes, NEW depth \in 1..MaxDepth + 1, NEW s \in 1..MaxSegmentDepth + 1,
               \A p \in Places : Remaining[p] < Remaining[<<n, depth, s>>] => Right(p[1], p[2], p[3])
        PROVE  Right(n, depth, s)
    <2> DEFINE fuel == MaxSegmentDepth + 1 - s
    <2>1. fuel \in 0..MaxSegmentDepth /\ (fuel > 0 <=> s <= MaxSegmentDepth)
          /\ fuel - 1 = MaxSegmentDepth + 1 - (s + 1)
      BY DEF MaxSegmentDepth
    <2>2. Decided(group, ctx, segs, n, depth, s)
      BY <1>2
    <2>3. CASE depth > MaxDepth
      BY <2>2, <2>3 DEF Decided, Yes, No, Raises
    <2>4. CASE depth <= MaxDepth
      <3>1. depth \in 1..MaxDepth
        BY <2>4 DEF MaxDepth
      <3>2. ASSUME NEW i \in DOMAIN n.children
            PROVE  Agree(group[<<n.children[i], depth + 1, s>>], <<n.children[i], fuel>> \in X)
        <4> DEFINE m == n.children[i]
        <4>1. m \in Nodes
          BY NodesAssumption
        <4> HIDE DEF m
        <4>2. <<m, depth + 1, s>> \in Places
          BY <3>1, <4>1 DEF Places, MaxDepth
        <4>3. Remaining[<<m, depth + 1, s>>] < Remaining[<<n, depth, s>>]
          BY <3>1, <4>1, RemainingDescends
        <4>4. Right(m, depth + 1, s)
          <5> HIDE DEF Right
          <5> QED BY <1>3, <4>2, <4>3
        <4> QED BY <4>4 DEF m
      <3>3. ASSUME NEW i \in DOMAIN n.conditions
            PROVE  Agree(match_condition(n.conditions[i], ctx, segs, s, group),
                         Meant(X, n.conditions[i], fuel, ctx, segs))
        <4> DEFINE m == n.conditions[i]
        <4> HIDE DEF m
        <4>1. CASE m.operator # "IS_ONE_OF_SEGMENT"
          <5>1. apply_operator(m.operator, Lookup(ctx, m.attribute), m.values) = No
                  => apply_operator(m.operator, Lookup(ctx, m.attribute), m.values) # Yes
            BY DEF Yes, No
          <5>2. Agree(match_condition(m, ctx, segs, s, group), Meant(X, m, fuel, ctx, segs))
            BY <4>1, <5>1 DEF match_condition, Meant
          <5> QED BY <5>2 DEF m
        <4>2. CASE m.operator = "IS_ONE_OF_SEGMENT" /\ s <= MaxSegmentDepth /\ m.ref \in DOMAIN segs
          <5> DEFINE w == segs[m.ref]
          <5>1. w \in Nodes /\ s \in 1..MaxSegmentDepth
            BY <4>2 DEF MaxSegmentDepth
          <5> HIDE DEF w
          <5>2. <<w, 1, s + 1>> \in Places
            BY <5>1 DEF Places, MaxDepth, MaxSegmentDepth
          <5>3. Remaining[<<w, 1, s + 1>>] < Remaining[<<n, depth, s>>]
            BY <3>1, <5>1, RemainingDescends
          <5>4. Right(w, 1, s + 1)
            <6> HIDE DEF Right
            <6> QED BY <1>3, <5>2, <5>3
          <5>5. match_condition(m, ctx, segs, s, group) = group[<<w, 1, s + 1>>]
            BY <4>2 DEF match_condition, w, MaxSegmentDepth
          <5>6. Meant(X, m, fuel, ctx, segs) <=> <<w, fuel - 1>> \in X
            BY <2>1, <4>2 DEF Meant, w
          <5>7. Agree(match_condition(m, ctx, segs, s, group), Meant(X, m, fuel, ctx, segs))
            BY <2>1, <5>4, <5>5, <5>6
          <5> QED BY <5>7 DEF m
        <4>3. CASE m.operator = "IS_ONE_OF_SEGMENT" /\ ~ (s <= MaxSegmentDepth /\ m.ref \in DOMAIN segs)
          <5>1. match_condition(m, ctx, segs, s, group) \in {No, Raises} /\ ~ Meant(X, m, fuel, ctx, segs)
            BY <2>1, <4>3 DEF match_condition, Meant, MaxSegmentDepth
          <5>2. Agree(match_condition(m, ctx, segs, s, group), Meant(X, m, fuel, ctx, segs))
            BY <5>1 DEF Yes, No, Raises
          <5> QED BY <5>2 DEF m
        <4> QED BY <4>1, <4>2, <4>3
      <3>4. <<n, fuel>> \in X <=> MeantOf(X, n, fuel, ctx, segs)
        BY <1>1, <2>1
      <3> DEFINE x == group[<<n, depth, s>>]
      <3>5. /\ x = Pass(n) =>
                 /\ \A i \in DOMAIN n.conditions : match_condition(n.conditions[i], ctx, segs, s, group) = x
                 /\ \A i \in DOMAIN n.children : group[<<n.children[i], depth + 1, s>>] = x
            /\ x # Pass(n) =>
                 \/ \E i \in DOMAIN n.conditions : match_condition(n.conditions[i], ctx, segs, s, group) = x
                 \/ \E i \in DOMAIN n.children : group[<<n.children[i], depth + 1, s>>] = x
        BY <2>2, <2>4 DEF Decided
      <3> HIDE DEF x, fuel
      <3>6. CASE n.operator \in {"AND", "LIST"}
        <4>1. Pass(n) = Yes /\ Yes # No
          BY <3>6 DEF Pass, Yes, No
        <4>2. Agree(x, MeantOf(X, n, fuel, ctx, segs))
          BY <3>2, <3>3, <3>5, <3>6, <4>1 DEF MeantOf
        <4> QED BY <3>4, <4>2 DEF x, fuel
      <3>7. CASE n.operator \notin {"AND", "LIST"}
        <4>1. Pass(n) = No /\ Yes # No
          BY <3>7 DEF Pass, Yes, No
        <4>2. Agree(x, MeantOf(X, n, fuel, ctx, segs))
          BY <3>2, <3>3, <3>5, <3>7, <4>1 DEF MeantOf
        <4> QED BY <3>4, <4>2 DEF x, fuel
      <3> QED BY <3>6, <3>7
    <2> QED BY <2>3, <2>4 DEF MaxDepth
  <1>4. T = {}
    <2> SUFFICES ASSUME T # {} PROVE FALSE
      OBVIOUS
    <2>1. T \in SUBSET Nat
      BY RemainingDescends
    <2>2. PICK k \in T : \A j \in T : k <= j
      <3> HIDE DEF T
      <3> QED BY <2>1, LeastOf
    <2>3. PICK q \in Bad : k = Remaining[q]
      BY <2>2
    <2>4. /\ q[1] \in Nodes /\ q[2] \in 1..MaxDepth + 1 /\ q[3] \in 1..MaxSegmentDepth + 1
          /\ q = <<q[1], q[2], q[3]>>
      BY DEF Places
    <2>5. ~ Right(q[1], q[2], q[3])
      BY <2>3
    <2>6. \A p \in Places : Remaining[p] < Remaining[q] => p \notin Bad
      <3>1. \A p \in Bad : Remaining[p] \in T
        OBVIOUS
      <3> SUFFICES ASSUME NEW p \in Places, Remaining[p] < Remaining[q], p \in Bad PROVE FALSE
        OBVIOUS
      <3>2. Remaining[p] \in T /\ Remaining[p] \in Nat /\ k \in Nat
        BY <2>1, <3>1
      <3> HIDE DEF Bad, T
      <3>3. k <= Remaining[p]
        BY <2>2, <3>2
      <3> QED BY <2>3, <3>2, <3>3
    <2>7. \A p \in Places : Remaining[p] < Remaining[q] => Right(p[1], p[2], p[3])
      <3> HIDE DEF Right
      <3> QED BY <2>6
    <2> HIDE DEF Right, Bad, T
    <2> QED BY <1>3, <2>4, <2>5, <2>7
  <1>5. <<t, 1, 1>> \in Places
    BY DEF Places, MaxDepth, MaxSegmentDepth
  <1>6. <<t, 1, 1>>[1] = t /\ <<t, 1, 1>>[2] = 1 /\ <<t, 1, 1>>[3] = 1
    OBVIOUS
  <1>7. Right(t, 1, 1)
    <2>1. Bad = {}
      <3> HIDE DEF Bad
      <3> QED BY <1>4
    <2> HIDE DEF Right
    <2> QED BY <1>5, <1>6, <2>1
  <1>8. MaxSegmentDepth + 1 - 1 = MaxSegmentDepth
    BY DEF MaxSegmentDepth
  <1> QED BY <1>1, <1>2, <1>5, <1>7, <1>8

\* A set of rules has one of the least priority.
LEMMA LeastPriority ==
  ASSUME NEW R, IsFiniteSet(R), R # {}, \A r \in R : r.priority \in Int
  PROVE  \E r \in R : \A q \in R : r.priority <= q.priority
PROOF
  <1> DEFINE up(r) == {q \in R : q.priority <= r.priority}
  <1> DEFINE T == {Cardinality(up(r)) : r \in R}
  <1>1. \A r \in R : up(r) \subseteq R /\ IsFiniteSet(up(r)) /\ Cardinality(up(r)) \in Nat
    <2>1. \A r \in R : up(r) \in SUBSET R
      OBVIOUS
    <2> HIDE DEF up
    <2> QED BY <2>1, FS_Subset, FS_CardinalityType
  <1>2. T \in SUBSET Nat /\ T # {}
    BY <1>1
  <1>3. PICK k \in T : \A j \in T : k <= j
    <2> HIDE DEF T
    <2> QED BY <1>2, LeastOf
  <1>4. PICK r \in R : k = Cardinality(up(r))
    BY <1>3
  <1>5. ASSUME NEW q \in R, ~ (r.priority <= q.priority) PROVE FALSE
    <2>1. up(q) \subseteq up(r) /\ r \in up(r) /\ r \notin up(q)
      BY <1>5
    <2>2. Cardinality(up(q)) < Cardinality(up(r))
      <3> DEFINE S == up(r)
      <3> DEFINE U == up(q)
      <3>1. U # S /\ U \subseteq S /\ IsFiniteSet(S) /\ Cardinality(S) \in Nat /\ Cardinality(U) \in Nat
        BY <1>1, <2>1
      <3> HIDE DEF S, U
      <3>2. Cardinality(U) <= Cardinality(S) /\ (Cardinality(U) = Cardinality(S) => U = S)
        BY <3>1, FS_Subset
      <3>3. Cardinality(U) < Cardinality(S)
        BY <3>1, <3>2
      <3> QED BY <3>3 DEF S, U
    <2>3. Cardinality(up(q)) \in T /\ Cardinality(up(q)) \in Nat /\ k \in Nat
      BY <1>1, <1>4
    <2> HIDE DEF T, up
    <2> QED BY <1>3, <1>4, <2>2, <2>3
  <1> QED BY <1>5

\* The rule that decides is the first whose conditions are true.
THEOREM FirstTrueRuleDecides == FlagServingSpec => []FollowsRules
PROOF
  <1>1. ServingInv => FollowsRules
    <2> SUFFICES ASSUME ServingInv, NEW raw \in Contexts
                 PROVE  LET ctx == ServerContext(raw)
                            true == {r \in rules : Means(Tree[r.conditions], ctx, SegmentsByRef)}
                            silent == ~setting.enabled \/ BucketingValue(Bundle, ctx) \in DOMAIN overrides
                        IN  Server(raw).reason # Raises =>
                              IF silent \/ true = {} THEN Server(raw).rule = NoRule
                              ELSE \E r \in true : Server(raw).rule = r.id /\ \A q \in true : r.priority <= q.priority
      BY DEF FollowsRules
    <2> DEFINE ctx == ServerContext(raw)
    <2> DEFINE match(r) == Matches(Tree[r.conditions], ctx, Bundle.segments)
    <2> DEFINE means(r) == Means(Tree[r.conditions], ctx, SegmentsByRef)
    <2> DEFINE value == BucketingValue(Bundle, ctx)
    <2> DEFINE H == Candidates(rules, ctx, Bundle.segments)
    <2> DEFINE D == Firsts(H)
    <2> DEFINE f == [r \in rules |-> r.id]
    <2>0. /\ H = {r \in rules : match(r) # No}
          /\ D = {r \in H : \A q \in H : r.priority <= q.priority}
      BY DEF Candidates, Firsts
    <2>1. /\ rules \subseteq RuleRows /\ IsFiniteSet(rules) /\ UniquePriorities(rules)
          /\ \A r \in rules : r.priority \in Int /\ r.conditions \in DOMAIN Tree
      BY DEF ServingInv, RulesOK, RuleRows
    <2>2. \A r \in rules : /\ match(r) \in {Yes, No, Raises}
                           /\ match(r) = Yes => means(r)
                           /\ match(r) = No => ~ means(r)
      <3>1. \A ref \in DOMAIN SegmentsByRef : SegmentsByRef[ref] \in Nodes
        BY SegmentRows DEF ServingInv
      <3>2. \A r \in rules : Tree[r.conditions] \in Nodes
        BY <2>1, TreeAssumption
      <3>3. Bundle.segments = SegmentsByRef
        BY DEF Bundle, BundleOf
      <3> QED BY <3>1, <3>2, <3>3, EngineMeans DEF Outcomes
    <2>3. Bundle.rules = {Row(r, f[r]) : r \in rules} /\ Bundle.segments = SegmentsByRef
          /\ Bundle.enabled = setting.enabled /\ Bundle.overrides = overrides
      BY DEF Bundle, BundleOf, EngineRule, Row
    <2>4. /\ D = {} => Decisive(Bundle, ctx) = {}
          /\ \A r \in D : D = {r} /\ Decisive(Bundle, ctx) = {Row(r, f[r])}
      <3>1. /\ UniquePriorities(rules) /\ \A r \in rules : r.priority \in Int
            /\ Bundle.rules = {Row(r, f[r]) : r \in rules} /\ Bundle.segments = SegmentsByRef
        BY <2>1, <2>3
      <3> HIDE DEF ctx, f
      <3> QED BY <3>1, OneDecides
    <2>5. H # {} => D # {}
      <3>1. IsFiniteSet(H) /\ \A r \in H : r.priority \in Int
        BY <2>0, <2>1, FS_Subset
      <3> HIDE DEF H, D
      <3> QED BY <2>0, <3>1, LeastPriority
    <2> DEFINE x(r) == Row(r, r.id)
    <2>6. \A r \in D : /\ Decisive(Bundle, ctx) = {x(r)} /\ The({x(r)}) = x(r)
                       /\ x(r).id = r.id /\ x(r).tree = Tree[r.conditions]
      <3>1. \A r \in D : Decisive(Bundle, ctx) = {x(r)}
        <4>1. \A r \in D : r \in rules
          BY <2>0
        <4>2. \A r \in D : Row(r, f[r]) = x(r)
          BY <4>1
        <4> HIDE DEF D, f, x
        <4> QED BY <2>4, <4>2
      <3> HIDE DEF D
      <3> QED BY <3>1 DEF The, Row
    <2> HIDE DEF ctx, value
    <2>7. Server(raw) = evaluate(Bundle, ctx)
      BY DEF Server, ctx
    <2>8. CASE ~ setting.enabled \/ value \in DOMAIN overrides
      <3>1. Server(raw).rule = NoRule
        BY <2>3, <2>7, <2>8 DEF evaluate, value, Result
      <3> QED BY <2>8, <3>1 DEF ctx, value
    <2>9. CASE setting.enabled /\ value \notin DOMAIN overrides /\ H = {}
      <3>1. Decisive(Bundle, ctx) = {}
        <4>1. D = {}
          BY <2>0, <2>9
        <4> HIDE DEF D
        <4> QED BY <2>4, <4>1
      <3>2. Server(raw).rule = NoRule
        BY <2>3, <2>7, <2>9, <3>1 DEF evaluate, value, Result
      <3>3. {r \in rules : means(r)} = {}
        BY <2>0, <2>2, <2>9
      <3> QED BY <2>9, <3>2, <3>3 DEF ctx, value
    <2>10. ASSUME setting.enabled, value \notin DOMAIN overrides, NEW r \in D, Server(raw).reason # Raises
           PROVE  /\ r \in {q \in rules : means(q)} /\ Server(raw).rule = r.id
                  /\ \A q \in {q \in rules : means(q)} : r.priority <= q.priority
      <3> DEFINE d == x(r)
      <3>1. /\ Decisive(Bundle, ctx) = {d} /\ The({d}) = d /\ d.id = r.id
            /\ Matches(d.tree, ctx, Bundle.segments) = match(r)
        BY <2>3, <2>6
      <3> HIDE DEF d
      <3>2. Server(raw) = IF match(r) = Raises THEN Result(NoVariation, Raises, d.id) ELSE ByRule(d, value)
        BY <2>3, <2>7, <2>10, <3>1 DEF evaluate, value
      <3>3. match(r) # Raises /\ Server(raw).rule = r.id
        BY <2>10, <3>1, <3>2 DEF Result, ByRule
      <3>4. r \in rules /\ match(r) = Yes
        BY <2>0, <2>2, <3>3
      <3>5. \A q \in rules : means(q) => q \in H
        BY <2>0, <2>2
      <3> HIDE DEF match, means, H, D
      <3> QED BY <2>0, <2>2, <3>3, <3>4, <3>5
    <2>11. CASE setting.enabled /\ value \notin DOMAIN overrides /\ H # {}
      <3>1. PICK r \in D : TRUE
        BY <2>5, <2>11
      <3> DEFINE true == {q \in rules : means(q)}
      <3>2. Server(raw).reason # Raises =>
              \E q \in true : Server(raw).rule = q.id /\ \A z \in true : q.priority <= z.priority
        <4> HIDE DEF D
        <4> QED BY <2>10, <2>11
      <3> QED BY <2>11, <3>2 DEF ctx, value
    <2> QED BY <2>8, <2>9, <2>11
  <1> QED BY <1>1, ServingInvAlways, PTL
=============================================================================

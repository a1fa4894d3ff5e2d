-------------------------- MODULE BondAudit_proofs --------------------------
(***************************************************************************)
(* Theorems about the audit as a whole, on the invariant ReplayInv of      *)
(* BondReplay_proofs, which knows how many leaves and notes there are.     *)
(*                                                                         *)
(*   - Roots: the auditor's level-by-level root is the contract's, and it  *)
(*     determines its leaves up to repeats at the end.  Both are recursive *)
(*     functions; induction is over the well-founded order of finite sets. *)
(*   - History: the served log is the contract's, call by call, and every  *)
(*     root cited was one of an earlier call.  HistoryInv is inductive.    *)
(*   - Audits: what root replay binds, and that honest parties pass.       *)
(*   - Tripwires: bond-replay tamper, which alters one thing of an audit.  *)
(***************************************************************************)
EXTENDS Tamper, BondReplay_proofs

-----------------------------------------------------------------------------
(* Natural numbers. *)

LEMMA LeastNatural ==
  ASSUME NEW S \in SUBSET Nat, S # {}
  PROVE  \E n \in S : \A m \in S : n <= m
<1> DEFINE T == {0 .. n : n \in S}
<1>1. T \subseteq FiniteSubsetsOf(Nat)
  <2>1. ASSUME NEW n \in S  PROVE 0 .. n \in FiniteSubsetsOf(Nat)
    <3>1. IsFiniteSet(0 .. n)  BY FS_Interval
    <3>2. 0 .. n \subseteq Nat  OBVIOUS
    <3>3. QED  BY <3>1, <3>2 DEF FiniteSubsetsOf
  <2>2. QED  BY <2>1
<1>2. T # {}  OBVIOUS
<1>3. PICK t \in T : \A u \in T : ~(<<u, t>> \in StrictSubsetOrdering(Nat))
  <2> HIDE DEF T
  <2>1. IsWellFoundedOn(StrictSubsetOrdering(Nat), FiniteSubsetsOf(Nat))
    BY FS_StrictSubsetOrderingWellFounded
  <2>2. QED  BY <1>1, <1>2, <2>1, WFMin
<1>4. PICK n \in S : t = 0 .. n  OBVIOUS
<1>5. ASSUME NEW m \in S, m < n  PROVE FALSE
  <2>1. 0 .. m \in T /\ 0 .. m \subseteq 0 .. n /\ 0 .. n \subseteq Nat  BY <1>5
  <2>2. n \in 0 .. n /\ ~(n \in 0 .. m)  BY <1>5
  <2> HIDE DEF T
  <2>3. <<0 .. m, t>> \in StrictSubsetOrdering(Nat)  BY <1>4, <2>1, <2>2 DEF StrictSubsetOrdering
  <2>4. QED  BY <2>1, <2>3, <1>3
<1>6. QED  BY <1>5

\* Induction, of a set of numbers.
LEMMA SetInduction ==
  ASSUME NEW S, 0 \in S, \A n \in Nat : n \in S => n + 1 \in S
  PROVE  \A n \in Nat : n \in S
<1> SUFFICES ASSUME Nat \ S # {}  PROVE FALSE
  OBVIOUS
<1>1. PICK n \in Nat \ S : \A m \in Nat \ S : n <= m  BY LeastNatural
<1>2. n - 1 \in Nat /\ (n - 1) + 1 = n  OBVIOUS
<1>3. n - 1 \in S  BY <1>1, <1>2
<1>4. QED  BY <1>2, <1>3

\* A set of k + 1 has twice the subsets of a set of k.
LEMMA PowerOfTwo ==
  ASSUME NEW k \in Nat
  PROVE  2 ^ k \in Nat \ {0} /\ 2 ^ (k + 1) = 2 * 2 ^ k
<1> DEFINE without == SUBSET (1 .. k)
           With(X) == X \cup {k + 1}
           with == {With(X) : X \in without}
           add == [X \in without |-> With(X)]
<1>1. /\ IsFiniteSet(1 .. k) /\ Cardinality(1 .. k) = k
      /\ IsFiniteSet(1 .. (k + 1)) /\ Cardinality(1 .. (k + 1)) = k + 1
  BY FS_Interval
<1>2. /\ IsFiniteSet(without) /\ Cardinality(without) = 2 ^ k
      /\ Cardinality(SUBSET (1 .. (k + 1))) = 2 ^ (k + 1)
  BY <1>1, FS_SUBSET
<1>3. SUBSET (1 .. (k + 1)) = without \cup with
  <2>1. ASSUME NEW Y \in SUBSET (1 .. (k + 1)), k + 1 \in Y  PROVE Y \in with
    <3>1. Y \ {k + 1} \in without  OBVIOUS
    <3>2. Y = With(Y \ {k + 1})  BY <2>1
    <3>3. QED  BY <3>1, <3>2
  <2>2. ASSUME NEW Y \in SUBSET (1 .. (k + 1)), k + 1 \notin Y  PROVE Y \in without
    BY <2>2
  <2>3. with \subseteq SUBSET (1 .. (k + 1)) /\ without \subseteq SUBSET (1 .. (k + 1))
    <3>1. 1 .. k \subseteq 1 .. (k + 1) /\ k + 1 \in 1 .. (k + 1)  OBVIOUS
    <3>2. \A X \in without : X \in SUBSET (1 .. (k + 1)) /\ With(X) \in SUBSET (1 .. (k + 1))
      BY <3>1
    <3>3. QED  BY <3>2
  <2> HIDE DEF with, without
  <2>4. QED  BY <2>1, <2>2, <2>3
<1>4. without \cap with = {}
  <2>1. \A X \in without : k + 1 \notin X  OBVIOUS
  <2>2. QED  BY <2>1
<1>5. add \in Bijection(without, with)
  <2>1. \A X, Y \in without : add[X] = add[Y] => X = Y
    <3>1. \A X \in without : With(X) \ {k + 1} = X  OBVIOUS
    <3>2. QED  BY <3>1
  <2>2. add \in [without -> with] /\ \A Y \in with : \E X \in without : add[X] = Y  OBVIOUS
  <2> HIDE DEF add, with, without
  <2>3. QED  BY <2>1, <2>2 DEF Bijection, Injection, Surjection, IsInjective
<1> HIDE DEF with, without, add
<1>6. IsFiniteSet(with) /\ Cardinality(with) = Cardinality(without)
  BY <1>2, <1>5, FS_Bijection DEF ExistsBijection
<1>7. Cardinality(without \cup with) = Cardinality(without) + Cardinality(with) - Cardinality(without \cap with)
  BY <1>2, <1>6, FS_Union
<1>8. Cardinality(without) \in Nat /\ Cardinality(without) # 0
  <2>1. without # {}  BY DEF without
  <2>2. QED  BY <1>2, <2>1, FS_EmptySet, FS_CardinalityType
<1>9. Cardinality(without \cup with) = Cardinality(without) + Cardinality(without)
  <2>1. Cardinality(without \cap with) = 0  BY <1>4, FS_EmptySet
  <2>2. QED  BY <1>6, <1>7, <1>8, <2>1
<1>10. 2 ^ (k + 1) = 2 ^ k + 2 ^ k /\ 2 ^ k \in Nat /\ 2 ^ k # 0  BY <1>2, <1>3, <1>8, <1>9
<1>11. QED  BY <1>10

LEMMA BelowPower ==
  ASSUME NEW n \in Nat
  PROVE  n < 2 ^ n
<1> DEFINE S == {m \in Nat : m < 2 ^ m}
<1>1. 0 \in S  OBVIOUS
<1>2. ASSUME NEW m \in Nat, m \in S  PROVE m + 1 \in S
  <2>1. 2 ^ m \in Nat /\ 2 ^ (m + 1) = 2 * 2 ^ m /\ m < 2 ^ m  BY <1>2, PowerOfTwo
  <2>2. m + 1 < 2 ^ (m + 1)  BY <2>1
  <2>3. QED  BY <2>2
<1> HIDE DEF S
<1>3. n \in S  BY <1>1, <1>2, SetInduction
<1>4. QED  BY <1>3 DEF S

LEMMA DepthFacts ==
  ASSUME NEW n \in Nat \ {0}
  PROVE  /\ Depth(n) \in 0 .. n /\ n <= 2 ^ Depth(n)
         /\ \A e \in 0 .. (Depth(n) - 1) : 2 ^ e < n
<1> DEFINE S == {d \in 0 .. n : n <= 2 ^ d}
<1>1. n \in S
  <2>1. 2 ^ n \in Nat /\ n < 2 ^ n  BY BelowPower, PowerOfTwo
  <2>2. QED  BY <2>1
<1>2. PICK d \in S : \A e \in S : d <= e
  <2>1. S \in SUBSET Nat  OBVIOUS
  <2> HIDE DEF S
  <2>2. QED  BY <1>1, <2>1, LeastNatural
<1>3. d \in 0 .. n /\ n <= 2 ^ d /\ \A e \in 0 .. (d - 1) : 2 ^ e < n
  <2>1. ASSUME NEW e \in 0 .. (d - 1)  PROVE 2 ^ e < n
    <3>1. e \notin S /\ e \in 0 .. n  BY <1>2
    <3>2. ~(n <= 2 ^ e)  BY <3>1
    <3>3. 2 ^ e \in Nat  BY PowerOfTwo
    <3>4. QED  BY <3>2, <3>3
  <2>2. QED  BY <2>1
<1>4. QED  BY <1>3 DEF Depth

-----------------------------------------------------------------------------
(* A recursive function is the CHOOSE of a fixed point: there is one.      *)

FirstLevel(leaves) == [i \in DOMAIN leaves |-> <<leaves[i]>>]

IsLevels(g, leaves) ==
  g = [k \in Nat |-> IF k = 0 THEN FirstLevel(leaves) ELSE NextLevel(g[k - 1])]

Levels(leaves) == CHOOSE g : IsLevels(g, leaves)

LEMMA LevelsExist ==
  ASSUME NEW leaves
  PROVE  IsLevels(Levels(leaves), leaves)
<1> DEFINE Up(g, n) == /\ g[0] = FirstLevel(leaves)
                       /\ \A k \in 0 .. (n - 1) : g[k + 1] = NextLevel(g[k])
           S == {n \in Nat : \E g : Up(g, n)}
           G == [n \in Nat |-> (CHOOSE g : Up(g, n))[n]]
<1>1. \A n \in Nat : n \in S
  <2>1. 0 \in S
    <3>1. Up([k \in 0 .. 0 |-> FirstLevel(leaves)], 0)  OBVIOUS
    <3>2. QED  BY <3>1
  <2>2. ASSUME NEW n \in Nat, n \in S  PROVE n + 1 \in S
    <3>1. PICK g : Up(g, n)  BY <2>2
    <3> DEFINE h == [k \in 0 .. (n + 1) |-> IF k = n + 1 THEN NextLevel(g[n]) ELSE g[k]]
    <3>2. ASSUME NEW k \in 0 .. n  PROVE h[k + 1] = NextLevel(h[k])
      <4>1. h[k] = g[k] /\ k + 1 \in 0 .. (n + 1)  OBVIOUS
      <4>2. CASE k = n  BY <4>1, <4>2
      <4>3. CASE k \in 0 .. (n - 1)  BY <4>1, <4>3, <3>1
      <4>4. QED  BY <4>2, <4>3
    <3>3. h[0] = FirstLevel(leaves)  BY <3>1
    <3>4. Up(h, n + 1)
      <4>1. (n + 1) - 1 = n  OBVIOUS
      <4> HIDE DEF h
      <4>2. QED  BY <3>2, <3>3, <4>1
    <3> HIDE DEF h, Up
    <3>5. QED  BY <3>4
  <2> HIDE DEF S
  <2>3. QED  BY <2>1, <2>2, SetInduction
<1>2. ASSUME NEW g, NEW h, NEW n \in Nat, NEW m \in Nat, Up(g, n), Up(h, m), n <= m
      PROVE  g[n] = h[n]
  <2> DEFINE Same == {k \in Nat : k <= n => g[k] = h[k]}
  <2>1. 0 \in Same  BY <1>2
  <2>2. ASSUME NEW k \in Nat, k \in Same  PROVE k + 1 \in Same
    <3>1. CASE k + 1 <= n
      <4>1. k \in 0 .. (n - 1) /\ k \in 0 .. (m - 1) /\ k <= n  BY <3>1, <1>2
      <4>2. QED  BY <4>1, <2>2, <1>2
    <3>2. QED  BY <3>1
  <2> HIDE DEF Same
  <2>3. n \in Same  BY <2>1, <2>2, SetInduction
  <2>4. QED  BY <2>3 DEF Same
<1>3. \A n \in Nat : Up(CHOOSE g : Up(g, n), n)  BY <1>1
<1>4. ASSUME NEW n \in Nat \ {0}  PROVE G[n] = NextLevel(G[n - 1])
  <2> DEFINE g == CHOOSE f : Up(f, n)
             h == CHOOSE f : Up(f, n - 1)
  <2>1. n - 1 \in Nat /\ (n - 1) + 1 = n /\ n - 1 \in 0 .. (n - 1)  OBVIOUS
  <2>2. Up(g, n) /\ Up(h, n - 1)  BY <1>3, <2>1
  <2>3. G[n] = g[n] /\ G[n - 1] = h[n - 1]  BY <2>1
  <2> HIDE DEF g, h, G
  <2>4. g[n] = NextLevel(g[n - 1])  BY <2>1, <2>2
  <2>5. g[n - 1] = h[n - 1]
    <3>1. Up(g, n - 1)  BY <2>1, <2>2
    <3> HIDE DEF Up
    <3>2. QED  BY <3>1, <2>1, <2>2, <1>2
  <2>6. QED  BY <2>3, <2>4, <2>5
<1>5. G[0] = FirstLevel(leaves)  BY <1>3
<1>6. IsLevels(G, leaves)
  <2>1. DOMAIN G = Nat  OBVIOUS
  <2>2. G = [n \in Nat |-> G[n]]  OBVIOUS
  <2> HIDE DEF G
  <2>3. \A n \in Nat : G[n] = IF n = 0 THEN FirstLevel(leaves) ELSE NextLevel(G[n - 1])
    BY <1>4, <1>5
  <2>4. QED  BY <2>2, <2>3 DEF IsLevels
<1>7. QED  BY <1>6 DEF Levels

\* A node of the next level, over a right neighbour or over itself twice.
Neighbour(n, k, i) == IF (i + 1) * 2 ^ k < n THEN i + 1 ELSE i

FirstNodes(leaves) == [i \in Nat |-> <<leaves[i + 1]>>]

NextNodes(n, k, below) == [i \in Nat |-> <<below[2 * i], below[Neighbour(n, k, 2 * i)]>>]

IsNodes(g, leaves) ==
  g = [k \in Nat |-> IF k = 0 THEN FirstNodes(leaves) ELSE NextNodes(Len(leaves), k - 1, g[k - 1])]

Nodes(leaves) == CHOOSE g : IsNodes(g, leaves)

LEMMA NodesExist ==
  ASSUME NEW leaves
  PROVE  IsNodes(Nodes(leaves), leaves)
<1> DEFINE Up(g, n) == /\ g[0] = FirstNodes(leaves)
                       /\ \A k \in 0 .. (n - 1) : g[k + 1] = NextNodes(Len(leaves), k, g[k])
           S == {n \in Nat : \E g : Up(g, n)}
           G == [n \in Nat |-> (CHOOSE g : Up(g, n))[n]]
<1>1. \A n \in Nat : n \in S
  <2>1. 0 \in S
    <3>1. Up([k \in 0 .. 0 |-> FirstNodes(leaves)], 0)  OBVIOUS
    <3>2. QED  BY <3>1
  <2>2. ASSUME NEW n \in Nat, n \in S  PROVE n + 1 \in S
    <3>1. PICK g : Up(g, n)  BY <2>2
    <3> DEFINE h == [k \in 0 .. (n + 1) |-> IF k = n + 1 THEN NextNodes(Len(leaves), n, g[n]) ELSE g[k]]
    <3>2. ASSUME NEW k \in 0 .. n  PROVE h[k + 1] = NextNodes(Len(leaves), k, h[k])
      <4>1. h[k] = g[k] /\ k + 1 \in 0 .. (n + 1)  OBVIOUS
      <4>2. CASE k = n  BY <4>1, <4>2
      <4>3. CASE k \in 0 .. (n - 1)  BY <4>1, <4>3, <3>1
      <4>4. QED  BY <4>2, <4>3
    <3>3. h[0] = FirstNodes(leaves)  BY <3>1
    <3>4. Up(h, n + 1)
      <4>1. (n + 1) - 1 = n  OBVIOUS
      <4> HIDE DEF h
      <4>2. QED  BY <3>2, <3>3, <4>1
    <3> HIDE DEF h, Up
    <3>5. QED  BY <3>4
  <2> HIDE DEF S
  <2>3. QED  BY <2>1, <2>2, SetInduction
<1>2. ASSUME NEW g, NEW h, NEW n \in Nat, NEW m \in Nat, Up(g, n), Up(h, m), n <= m
      PROVE  g[n] = h[n]
  <2> DEFINE Same == {k \in Nat : k <= n => g[k] = h[k]}
  <2>1. 0 \in Same  BY <1>2
  <2>2. ASSUME NEW k \in Nat, k \in Same  PROVE k + 1 \in Same
    <3>1. CASE k + 1 <= n
      <4>1. k \in 0 .. (n - 1) /\ k \in 0 .. (m - 1) /\ k <= n  BY <3>1, <1>2
      <4>2. QED  BY <4>1, <2>2, <1>2
    <3>2. QED  BY <3>1
  <2> HIDE DEF Same
  <2>3. n \in Same  BY <2>1, <2>2, SetInduction
  <2>4. QED  BY <2>3 DEF Same
<1>3. \A n \in Nat : Up(CHOOSE g : Up(g, n), n)  BY <1>1
<1>4. ASSUME NEW n \in Nat \ {0}  PROVE G[n] = NextNodes(Len(leaves), n - 1, G[n - 1])
  <2> DEFINE g == CHOOSE f : Up(f, n)
             h == CHOOSE f : Up(f, n - 1)
  <2>1. n - 1 \in Nat /\ (n - 1) + 1 = n /\ n - 1 \in 0 .. (n - 1)  OBVIOUS
  <2>2. Up(g, n) /\ Up(h, n - 1)  BY <1>3, <2>1
  <2>3. G[n] = g[n] /\ G[n - 1] = h[n - 1]  BY <2>1
  <2> HIDE DEF g, h, G
  <2>4. g[n] = NextNodes(Len(leaves), n - 1, g[n - 1])  BY <2>1, <2>2
  <2>5. g[n - 1] = h[n - 1]
    <3>1. Up(g, n - 1)  BY <2>1, <2>2
    <3> HIDE DEF Up
    <3>2. QED  BY <3>1, <2>1, <2>2, <1>2
  <2>6. QED  BY <2>3, <2>4, <2>5
<1>5. G[0] = FirstNodes(leaves)  BY <1>3
<1>6. IsNodes(G, leaves)
  <2>1. DOMAIN G = Nat  OBVIOUS
  <2>2. G = [n \in Nat |-> G[n]]  OBVIOUS
  <2> HIDE DEF G
  <2>3. \A n \in Nat : G[n] = IF n = 0 THEN FirstNodes(leaves) ELSE NextNodes(Len(leaves), n - 1, G[n - 1])
    BY <1>4, <1>5
  <2>4. QED  BY <2>2, <2>3 DEF IsNodes
<1>7. QED  BY <1>6 DEF Nodes

LEMMA LevelFacts ==
  ASSUME NEW leaves, NEW k \in Nat
  PROVE  /\ Levels(leaves)[0] = FirstLevel(leaves)
         /\ Levels(leaves)[k + 1] = NextLevel(Levels(leaves)[k])
         /\ Nodes(leaves)[0] = FirstNodes(leaves)
         /\ Nodes(leaves)[k + 1] = NextNodes(Len(leaves), k, Nodes(leaves)[k])
<1>1. k + 1 \in Nat /\ k + 1 # 0 /\ (k + 1) - 1 = k  OBVIOUS
<1>2. Levels(leaves)[0] = FirstLevel(leaves) /\ Levels(leaves)[k + 1] = NextLevel(Levels(leaves)[k])
  BY <1>1, LevelsExist DEF IsLevels
<1>3. /\ Nodes(leaves)[0] = FirstNodes(leaves)
      /\ Nodes(leaves)[k + 1] = NextNodes(Len(leaves), k, Nodes(leaves)[k])
  BY <1>1, NodesExist DEF IsNodes
<1>4. QED  BY <1>2, <1>3

-----------------------------------------------------------------------------
(* merkle.rs rebuilds the contract's root.                                 *)

LEMMA MappedSeq ==
  ASSUME NEW w \in Nat, NEW s, s = [i \in 1 .. w |-> s[i]]
  PROVE  Len(s) = w /\ DOMAIN s = 1 .. w
<1> DEFINE S == {s[i] : i \in 1 .. w}
<1>1. s \in [1 .. w -> S]  OBVIOUS
<1>2. s \in Seq(S)  BY <1>1, SeqDef
<1>3. QED  BY <1>1, <1>2

\* The level k of the list is the w nodes that exist there.
Holds(leaves, k, w) ==
  /\ Levels(leaves)[k] = [i \in 1 .. w |-> Nodes(leaves)[k][i - 1]]
  /\ \A j \in Nat : j < w <=> j * 2 ^ k < Len(leaves)

LEMMA LevelsAreNodes ==
  ASSUME NEW leaves, Len(leaves) \in Nat \ {0}, DOMAIN leaves = 1 .. Len(leaves), NEW k \in Nat
  PROVE  \E w \in Nat \ {0} : Holds(leaves, k, w)
<1> DEFINE n == Len(leaves)
           S == {m \in Nat : \E w \in Nat \ {0} : Holds(leaves, m, w)}
<1>1. 0 \in S
  <2>1. Levels(leaves)[0] = [i \in 1 .. n |-> <<leaves[i]>>]  BY LevelFacts DEF FirstLevel
  <2>2. Nodes(leaves)[0] = [i \in Nat |-> <<leaves[i + 1]>>]  BY LevelFacts DEF FirstNodes
  <2>3. \A i \in 1 .. n : Nodes(leaves)[0][i - 1] = <<leaves[i]>>
    <3>1. ASSUME NEW i \in 1 .. n  PROVE Nodes(leaves)[0][i - 1] = <<leaves[i]>>
      <4>1. i - 1 \in Nat /\ (i - 1) + 1 = i  OBVIOUS
      <4>2. QED  BY <2>2, <4>1
    <3>2. QED  BY <3>1
  <2>4. \A j \in Nat : j * 2 ^ 0 = j  OBVIOUS
  <2>5. Holds(leaves, 0, n)  BY <2>1, <2>3, <2>4 DEF Holds
  <2>6. QED  BY <2>5
<1>2. ASSUME NEW m \in Nat, m \in S  PROVE m + 1 \in S
  <2>1. PICK w \in Nat \ {0} : Holds(leaves, m, w)  BY <1>2
  <2> DEFINE v == (w + 1) \div 2
             below == Levels(leaves)[m]
             node == Nodes(leaves)[m]
  <2>2. v \in Nat \ {0}  OBVIOUS
  <2>3. Len(below) = w /\ \A i \in 1 .. w : below[i] = node[i - 1]
    <3>1. below = [i \in 1 .. w |-> node[i - 1]]  BY <2>1 DEF Holds
    <3> HIDE DEF below, node
    <3>2. below = [i \in 1 .. w |-> below[i]]  BY <3>1
    <3>3. QED  BY <3>1, <3>2, MappedSeq
  <2>4. Levels(leaves)[m + 1] = [i \in 1 .. v |->
          <<below[2 * i - 1], IF 2 * i <= w THEN below[2 * i] ELSE below[2 * i - 1]>>]
    <3>1. Levels(leaves)[m + 1] = NextLevel(below)  BY LevelFacts
    <3> HIDE DEF below
    <3>2. QED  BY <3>1, <2>3 DEF NextLevel
  <2>5. \A i \in Nat : Nodes(leaves)[m + 1][i] = <<node[2 * i], node[Neighbour(n, m, 2 * i)]>>
    <3>1. Nodes(leaves)[m + 1] = NextNodes(n, m, node)  BY LevelFacts
    <3> HIDE DEF node
    <3>2. QED  BY <3>1 DEF NextNodes
  <2> HIDE DEF below, node
  <2>6. ASSUME NEW i \in 1 .. v
        PROVE  <<below[2 * i - 1], IF 2 * i <= w THEN below[2 * i] ELSE below[2 * i - 1]>>
                 = Nodes(leaves)[m + 1][i - 1]
    <3>1. /\ i - 1 \in Nat /\ 2 * i - 1 \in 1 .. w /\ (2 * i - 1) - 1 = 2 * (i - 1)
          /\ 2 * (i - 1) + 1 \in Nat /\ 2 * i - 1 = 2 * (i - 1) + 1
      OBVIOUS
    <3>2. below[2 * i - 1] = node[2 * (i - 1)]  BY <3>1, <2>3
    <3>3. CASE 2 * i <= w
      <4>1. 2 * (i - 1) + 1 < w /\ 2 * i \in 1 .. w  BY <3>3
      <4>2. (2 * (i - 1) + 1) * 2 ^ m < n  BY <4>1, <3>1, <2>1 DEF Holds
      <4>3. Neighbour(n, m, 2 * (i - 1)) = 2 * i - 1  BY <4>2, <3>1 DEF Neighbour
      <4>4. below[2 * i] = node[2 * i - 1]  BY <4>1, <2>3
      <4>5. QED  BY <3>1, <3>2, <3>3, <4>3, <4>4, <2>5
    <3>4. CASE ~(2 * i <= w)
      <4>1. ~(2 * (i - 1) + 1 < w)  BY <3>4
      <4>2. ~((2 * (i - 1) + 1) * 2 ^ m < n)  BY <4>1, <3>1, <2>1 DEF Holds
      <4>3. Neighbour(n, m, 2 * (i - 1)) = 2 * (i - 1)  BY <4>2 DEF Neighbour
      <4>4. QED  BY <3>1, <3>2, <3>4, <4>3, <2>5
    <3>5. QED  BY <3>3, <3>4
  <2>7. ASSUME NEW j \in Nat  PROVE j < v <=> j * 2 ^ (m + 1) < n
    <3>1. PICK i \in Nat : i = 2 * j  OBVIOUS
    <3>2. i < w <=> i * 2 ^ m < n  BY <2>1 DEF Holds
    <3>3. i * 2 ^ m = j * 2 ^ (m + 1)
      <4>1. 2 ^ m \in Nat /\ 2 ^ (m + 1) = 2 * 2 ^ m  BY PowerOfTwo
      <4>2. QED  BY <4>1, <3>1
    <3>4. j < v <=> i < w  BY <3>1
    <3>5. QED  BY <3>2, <3>3, <3>4
  <2>8. Holds(leaves, m + 1, v)
    <3> HIDE DEF v
    <3>1. QED  BY <2>4, <2>6, <2>7 DEF Holds
  <2> HIDE DEF v
  <2>9. QED  BY <2>2, <2>8
<1> HIDE DEF S
<1>3. k \in S  BY <1>1, <1>2, SetInduction
<1>4. QED  BY <1>3 DEF S

\* buildMerkleRoot of the contract, and of merkle.rs, by their levels.
LEMMA AnchoredRootIsNode ==
  ASSUME NEW leaves
  PROVE  AnchoredRoot(leaves) = Nodes(leaves)[Depth(Len(leaves))][0]
BY DEF AnchoredRoot, Nodes, IsNodes, FirstNodes, NextNodes, Neighbour

LEMMA MerkleRootIsAnchored ==
  ASSUME NEW leaves, Len(leaves) \in Nat \ {0}, DOMAIN leaves = 1 .. Len(leaves)
  PROVE  BuildMerkleRoot(leaves) = AnchoredRoot(leaves)
<1> DEFINE n == Len(leaves)
           One(k) == Len(Levels(leaves)[k]) = 1 /\ \A j \in 0 .. (k - 1) : Len(Levels(leaves)[j]) > 1
           top == CHOOSE k \in 0 .. n : One(k)
<1>1. BuildMerkleRoot(leaves) = Levels(leaves)[top][1]
  BY DEF BuildMerkleRoot, Levels, IsLevels, FirstLevel
<1>2. ASSUME NEW k \in Nat
      PROVE  /\ Len(Levels(leaves)[k]) \in Nat \ {0}
             /\ Levels(leaves)[k][1] = Nodes(leaves)[k][0]
             /\ Len(Levels(leaves)[k]) > 1 <=> 2 ^ k < n
  <2>1. PICK w \in Nat \ {0} : Holds(leaves, k, w)  BY LevelsAreNodes
  <2>2. Levels(leaves)[k] = [i \in 1 .. w |-> Nodes(leaves)[k][i - 1]]  BY <2>1 DEF Holds
  <2>3. Levels(leaves)[k] = [i \in 1 .. w |-> Levels(leaves)[k][i]]  BY <2>2
  <2>4. Len(Levels(leaves)[k]) = w  BY <2>3, MappedSeq
  <2>5. 1 < w <=> 1 * 2 ^ k < n  BY <2>1 DEF Holds
  <2>6. 1 * 2 ^ k = 2 ^ k  BY PowerOfTwo
  <2>7. 1 \in 1 .. w /\ 1 - 1 = 0  OBVIOUS
  <2>8. QED  BY <2>2, <2>4, <2>5, <2>6, <2>7
<1>3. \A k \in Nat : 2 ^ k \in Nat  BY PowerOfTwo
<1>4. Depth(n) \in 0 .. n /\ n <= 2 ^ Depth(n) /\ \A e \in 0 .. (Depth(n) - 1) : 2 ^ e < n
  BY DepthFacts
<1>5. One(Depth(n))
  <2>1. Depth(n) \in Nat /\ ~(2 ^ Depth(n) < n)  BY <1>3, <1>4
  <2>2. Len(Levels(leaves)[Depth(n)]) = 1
    <3>1. PICK l \in Nat \ {0} : l = Len(Levels(leaves)[Depth(n)])  BY <2>1, <1>2
    <3>2. ~(l > 1)  BY <2>1, <3>1, <1>2
    <3>3. l = 1  BY <3>2
    <3>4. QED  BY <3>1, <3>3, Zenon
  <2>3. \A j \in 0 .. (Depth(n) - 1) : j \in Nat  BY <2>1
  <2>4. QED  BY <2>2, <2>3, <1>2, <1>4
<1>6. top \in 0 .. n /\ One(top)
  <2> HIDE DEF One
  <2>1. QED  BY <1>4, <1>5
<1> HIDE DEF top
<1>7. top = Depth(n)
  <2>1. ~(top < Depth(n))
    <3>1. SUFFICES ASSUME top < Depth(n)  PROVE FALSE
      OBVIOUS
    <3>2. top \in 0 .. (Depth(n) - 1) /\ top \in Nat  BY <3>1, <1>4, <1>6
    <3>3. 2 ^ top < n  BY <3>2, <1>4
    <3>4. Len(Levels(leaves)[top]) > 1  BY <3>2, <3>3, <1>2
    <3>5. QED  BY <3>4, <1>6
  <2>2. ~(Depth(n) < top)
    <3>1. SUFFICES ASSUME Depth(n) < top  PROVE FALSE
      OBVIOUS
    <3>2. Depth(n) \in 0 .. (top - 1)  BY <3>1, <1>4, <1>6
    <3>3. Len(Levels(leaves)[Depth(n)]) > 1  BY <3>2, <1>6
    <3>4. QED  BY <3>3, <1>5
  <2>3. QED  BY <2>1, <2>2, <1>4, <1>6
<1>8. Levels(leaves)[Depth(n)][1] = Nodes(leaves)[Depth(n)][0]  BY <1>2, <1>4
<1>9. QED  BY <1>1, <1>7, <1>8, AnchoredRootIsNode

-----------------------------------------------------------------------------
(* A root binds its leaves, up to repeats at the end of the list.          *)

LEMMA NodeFacts ==
  ASSUME NEW leaves, NEW k \in Nat, NEW i \in Nat
  PROVE  /\ Nodes(leaves)[0][i] = <<leaves[i + 1]>>
         /\ Nodes(leaves)[k + 1][i] =
              <<Nodes(leaves)[k][2 * i], Nodes(leaves)[k][Neighbour(Len(leaves), k, 2 * i)]>>
<1>1. Nodes(leaves)[0] = FirstNodes(leaves)  BY LevelFacts
<1>2. Nodes(leaves)[k + 1] = NextNodes(Len(leaves), k, Nodes(leaves)[k])  BY LevelFacts
<1>3. QED  BY <1>1, <1>2 DEF FirstNodes, NextNodes

LEMMA OneIsNotTwo ==
  ASSUME NEW x, NEW y, NEW z
  PROVE  <<x>> # <<y, z>>
<1>1. Len(<<x>>) = 1 /\ Len(<<y, z>>) = 2  OBVIOUS
<1>2. QED  BY <1>1

LEMMA PairsDiffer ==
  ASSUME NEW v, NEW w, NEW x, NEW y, v # x
  PROVE  <<v, w>> # <<x, y>>
<1>1. <<v, w>>[1] = v /\ <<x, y>>[1] = x  OBVIOUS
<1>2. QED  BY <1>1

LEMMA SingletonsDiffer ==
  ASSUME NEW v, NEW x, <<v>> = <<x>>
  PROVE  v = x
<1>1. <<v>>[1] = v /\ <<x>>[1] = x  OBVIOUS
<1>2. QED  BY <1>1

\* How deep a node is can be seen: a leaf's has one component, others have two.
LEMMA LowerIsAnother ==
  ASSUME NEW A, NEW B, NEW k \in Nat, NEW d \in Nat, NEW i \in Nat, NEW j \in Nat
  PROVE  Nodes(A)[k][i] # Nodes(B)[k + 1 + d][j]
<1> DEFINE S == {m \in Nat : \A e, a, b \in Nat : Nodes(A)[m][a] # Nodes(B)[m + 1 + e][b]}
<1>1. 0 \in S
  <2>1. ASSUME NEW e \in Nat, NEW a \in Nat, NEW b \in Nat
        PROVE  Nodes(A)[0][a] # Nodes(B)[0 + 1 + e][b]
    <3>1. Nodes(A)[0][a] = <<A[a + 1]>>  BY NodeFacts
    <3>2. Nodes(B)[e + 1][b] = <<Nodes(B)[e][2 * b], Nodes(B)[e][Neighbour(Len(B), e, 2 * b)]>>
      BY NodeFacts
    <3>3. 0 + 1 + e = e + 1  OBVIOUS
    <3>4. Nodes(A)[0][a] # Nodes(B)[e + 1][b]  BY <3>1, <3>2, OneIsNotTwo
    <3>5. QED  BY <3>3, <3>4
  <2>2. QED  BY <2>1
<1>2. ASSUME NEW m \in Nat, m \in S  PROVE m + 1 \in S
  <2>1. ASSUME NEW e \in Nat, NEW a \in Nat, NEW b \in Nat
        PROVE  Nodes(A)[m + 1][a] # Nodes(B)[(m + 1) + 1 + e][b]
    <3>1. PICK n \in Nat : n = m + 1 + e  OBVIOUS
    <3>2. (m + 1) + 1 + e = n + 1 /\ 2 * a \in Nat /\ 2 * b \in Nat  BY <3>1
    <3>3. /\ Nodes(A)[m + 1][a] = <<Nodes(A)[m][2 * a], Nodes(A)[m][Neighbour(Len(A), m, 2 * a)]>>
          /\ Nodes(B)[n + 1][b] = <<Nodes(B)[n][2 * b], Nodes(B)[n][Neighbour(Len(B), n, 2 * b)]>>
      BY NodeFacts
    <3>4. Nodes(A)[m][2 * a] # Nodes(B)[n][2 * b]  BY <1>2, <3>1, <3>2
    <3>5. Nodes(A)[m + 1][a] # Nodes(B)[n + 1][b]  BY <3>3, <3>4, PairsDiffer
    <3>6. QED  BY <3>2, <3>5
  <2>2. QED  BY <2>1
<1> HIDE DEF S
<1>3. k \in S  BY <1>1, <1>2, SetInduction
<1>4. QED  BY <1>3 DEF S

\* i is a position of level k, and a is the node found there.
FoundAt(n, k, i, a) == a \in 0 .. i /\ a * 2 ^ k < n /\ (i * 2 ^ k < n => a = i)

LEMMA ChildrenFound ==
  ASSUME NEW n \in Nat, NEW k \in Nat, NEW i \in Nat, NEW a \in Nat, FoundAt(n, k + 1, i, a)
  PROVE  FoundAt(n, k, 2 * i, 2 * a) /\ FoundAt(n, k, 2 * i + 1, Neighbour(n, k, 2 * a))
<1>1. PICK p \in Nat \ {0} : p = 2 ^ k /\ 2 ^ (k + 1) = 2 * p  BY PowerOfTwo
<1>2. /\ a <= i /\ (2 * a) * p < n /\ ((2 * i) * p < n => a = i)
  <2>1. a <= i /\ a * (2 * p) < n /\ (i * (2 * p) < n => a = i)  BY <1>1 DEF FoundAt
  <2>2. a * (2 * p) = (2 * a) * p /\ i * (2 * p) = (2 * i) * p  OBVIOUS
  <2>3. QED  BY <2>1, <2>2
<1>3. FoundAt(n, k, 2 * i, 2 * a)  BY <1>1, <1>2 DEF FoundAt
<1>4. FoundAt(n, k, 2 * i + 1, Neighbour(n, k, 2 * a))
  <2>1. (2 * i + 1) * p = (2 * i) * p + p /\ (2 * a + 1) * p = (2 * a) * p + p  OBVIOUS
  <2>2. (2 * i + 1) * p < n => a = i
    <3>1. (2 * i) * p \in Nat  OBVIOUS
    <3>2. QED  BY <2>1, <3>1, <1>2
  <2>3. CASE (2 * a + 1) * p < n
    <3>1. Neighbour(n, k, 2 * a) = 2 * a + 1  BY <2>3, <1>1 DEF Neighbour
    <3>2. QED  BY <3>1, <2>2, <2>3, <1>1, <1>2 DEF FoundAt
  <2>4. CASE ~((2 * a + 1) * p < n)
    <3>1. Neighbour(n, k, 2 * a) = 2 * a  BY <2>4, <1>1 DEF Neighbour
    <3>2. ~((2 * i + 1) * p < n)  BY <2>2, <2>4
    <3>3. QED  BY <3>1, <3>2, <1>1, <1>2 DEF FoundAt
  <2>5. QED  BY <2>3, <2>4
<1>5. QED  BY <1>3, <1>4

\* Where either list has a node at position i of level k, both have the same.
Agree(A, B, k) ==
  \A i \in Nat : i * 2 ^ k < Len(A) \/ i * 2 ^ k < Len(B) =>
    \E a, b \in Nat : /\ FoundAt(Len(A), k, i, a) /\ FoundAt(Len(B), k, i, b)
                      /\ Nodes(A)[k][a] = Nodes(B)[k][b]

LEMMA AgreeBelow ==
  ASSUME NEW A, NEW B, Len(A) \in Nat \ {0}, Len(B) \in Nat \ {0}, NEW k \in Nat, Agree(A, B, k + 1)
  PROVE  Agree(A, B, k)
<1> SUFFICES ASSUME NEW i \in Nat, i * 2 ^ k < Len(A) \/ i * 2 ^ k < Len(B)
             PROVE  \E a, b \in Nat : /\ FoundAt(Len(A), k, i, a) /\ FoundAt(Len(B), k, i, b)
                                      /\ Nodes(A)[k][a] = Nodes(B)[k][b]
  BY DEF Agree
<1>1. PICK p \in Nat \ {0} : p = 2 ^ k /\ 2 ^ (k + 1) = 2 * p  BY PowerOfTwo
<1>2. PICK h \in Nat : i = 2 * h \/ i = 2 * h + 1
  <2>1. i \div 2 \in Nat /\ (i = 2 * (i \div 2) \/ i = 2 * (i \div 2) + 1)  OBVIOUS
  <2>2. QED  BY <2>1
<1>3. h * (2 * p) <= i * p
  <2>1. h * (2 * p) = (2 * h) * p /\ (2 * h + 1) * p = (2 * h) * p + p  OBVIOUS
  <2>2. (2 * h) * p \in Nat  OBVIOUS
  <2>3. QED  BY <1>2, <2>1, <2>2
<1>4. h * (2 * p) < Len(A) \/ h * (2 * p) < Len(B)
  <2>1. h * (2 * p) \in Nat /\ i * p \in Nat  OBVIOUS
  <2>2. QED  BY <2>1, <1>1, <1>3
<1>5. PICK a, b \in Nat : /\ FoundAt(Len(A), k + 1, h, a) /\ FoundAt(Len(B), k + 1, h, b)
                          /\ Nodes(A)[k + 1][a] = Nodes(B)[k + 1][b]
  BY <1>1, <1>4 DEF Agree
<1>6. /\ FoundAt(Len(A), k, 2 * h, 2 * a) /\ FoundAt(Len(A), k, 2 * h + 1, Neighbour(Len(A), k, 2 * a))
      /\ FoundAt(Len(B), k, 2 * h, 2 * b) /\ FoundAt(Len(B), k, 2 * h + 1, Neighbour(Len(B), k, 2 * b))
  BY <1>5, ChildrenFound
<1>7. /\ Nodes(A)[k][2 * a] = Nodes(B)[k][2 * b]
      /\ Nodes(A)[k][Neighbour(Len(A), k, 2 * a)] = Nodes(B)[k][Neighbour(Len(B), k, 2 * b)]
  <2>1. /\ Nodes(A)[k + 1][a] = <<Nodes(A)[k][2 * a], Nodes(A)[k][Neighbour(Len(A), k, 2 * a)]>>
        /\ Nodes(B)[k + 1][b] = <<Nodes(B)[k][2 * b], Nodes(B)[k][Neighbour(Len(B), k, 2 * b)]>>
    BY NodeFacts
  <2>2. QED  BY <2>1, <1>5
<1>8. /\ 2 * a \in Nat /\ 2 * b \in Nat
      /\ Neighbour(Len(A), k, 2 * a) \in Nat /\ Neighbour(Len(B), k, 2 * b) \in Nat
  BY DEF Neighbour
<1>9. CASE i = 2 * h  BY <1>6, <1>7, <1>8, <1>9
<1>10. CASE i = 2 * h + 1  BY <1>6, <1>7, <1>8, <1>10
<1>11. QED  BY <1>2, <1>9, <1>10

LEMMA AgreeAtLeaves ==
  ASSUME NEW A, NEW B, Len(A) \in Nat \ {0}, Len(B) \in Nat \ {0}, NEW k \in Nat, Agree(A, B, k)
  PROVE  Agree(A, B, 0)
<1> DEFINE S == {m \in Nat : Agree(A, B, m) => Agree(A, B, 0)}
<1>1. 0 \in S  OBVIOUS
<1>2. ASSUME NEW m \in Nat, m \in S  PROVE m + 1 \in S
  <2>1. Agree(A, B, m + 1) => Agree(A, B, m)  BY AgreeBelow
  <2>2. QED  BY <1>2, <2>1
<1> HIDE DEF S
<1>3. k \in S  BY <1>1, <1>2, SetInduction
<1>4. QED  BY <1>3 DEF S

LEMMA EqualRootsAgree ==
  ASSUME NEW A, NEW B, Len(A) \in Nat \ {0}, Len(B) \in Nat \ {0}, AnchoredRoot(A) = AnchoredRoot(B)
  PROVE  Agree(A, B, 0)
<1>1. PICK d \in Nat : d = Depth(Len(A)) /\ Len(A) <= 2 ^ d  BY DepthFacts
<1>2. PICK e \in Nat : e = Depth(Len(B)) /\ Len(B) <= 2 ^ e  BY DepthFacts
<1>3. Nodes(A)[d][0] = Nodes(B)[e][0]  BY <1>1, <1>2, AnchoredRootIsNode
<1>4. d = e
  <2>1. ~(d < e)
    <3>1. SUFFICES ASSUME d < e  PROVE FALSE
      OBVIOUS
    <3>2. PICK x \in Nat : e = d + 1 + x
      <4>1. e - d - 1 \in Nat /\ e = d + 1 + (e - d - 1)  BY <3>1
      <4>2. QED  BY <4>1
    <3>3. Nodes(A)[d][0] # Nodes(B)[d + 1 + x][0]  BY LowerIsAnother
    <3>4. QED  BY <3>2, <3>3, <1>3
  <2>2. ~(e < d)
    <3>1. SUFFICES ASSUME e < d  PROVE FALSE
      OBVIOUS
    <3>2. PICK x \in Nat : d = e + 1 + x
      <4>1. d - e - 1 \in Nat /\ d = e + 1 + (d - e - 1)  BY <3>1
      <4>2. QED  BY <4>1
    <3>3. Nodes(B)[e][0] # Nodes(A)[e + 1 + x][0]  BY LowerIsAnother
    <3>4. QED  BY <3>2, <3>3, <1>3
  <2>3. QED  BY <2>1, <2>2
<1>5. Agree(A, B, d)
  <2>1. PICK p \in Nat \ {0} : p = 2 ^ d  BY PowerOfTwo
  <2>2. ASSUME NEW i \in Nat, i * p < Len(A) \/ i * p < Len(B)  PROVE i = 0
    <3>1. i * p < p
      <4>1. i * p \in Nat  OBVIOUS
      <4>2. QED  BY <4>1, <2>1, <2>2, <1>1, <1>2, <1>4
    <3>2. i >= 1 => i * p >= p  OBVIOUS
    <3>3. i * p \in Nat  OBVIOUS
    <3>4. QED  BY <3>1, <3>2, <3>3
  <2>3. FoundAt(Len(A), d, 0, 0) /\ FoundAt(Len(B), d, 0, 0)
    <3>1. 0 * p = 0  OBVIOUS
    <3>2. QED  BY <3>1, <2>1 DEF FoundAt
  <2>4. QED  BY <2>1, <2>2, <2>3, <1>3, <1>4 DEF Agree
<1>6. QED  BY <1>5, AgreeAtLeaves

(***************************************************************************)
(* A list with the root of the first n leaves begins with them and repeats *)
(* some of them after; it cannot be shorter.                               *)
(***************************************************************************)
LEMMA RootBinds ==
  ASSUME NEW A, Len(A) \in Nat \ {0}, NEW n \in Nat \ {0},
         AnchoredRoot(A) = AnchoredRoot(CountUp(n))
  PROVE  /\ n <= Len(A)
         /\ \A i \in 1 .. n : A[i] = i
         /\ \A i \in 1 .. Len(A) : A[i] \in 1 .. n
<1> DEFINE B == CountUp(n)
<1>1. Len(B) = n /\ \A i \in 1 .. n : B[i] = i  BY CountUpFacts
<1> HIDE DEF B
<1>2. Agree(A, B, 0)  BY <1>1, EqualRootsAgree DEF B
<1>3. ASSUME NEW i \in Nat, i < Len(A) \/ i < n
      PROVE  \E a, b \in 0 .. i : /\ a < Len(A) /\ (i < Len(A) => a = i)
                                  /\ b < n /\ (i < n => b = i)
                                  /\ A[a + 1] = b + 1
  <2>1. \A j \in Nat : j * 2 ^ 0 = j  OBVIOUS
  <2>2. PICK a, b \in Nat : /\ FoundAt(Len(A), 0, i, a) /\ FoundAt(n, 0, i, b)
                            /\ Nodes(A)[0][a] = Nodes(B)[0][b]
    BY <1>1, <1>2, <1>3, <2>1 DEF Agree
  <2>3. /\ a \in 0 .. i /\ a < Len(A) /\ (i < Len(A) => a = i)
        /\ b \in 0 .. i /\ b < n /\ (i < n => b = i)
    BY <2>1, <2>2 DEF FoundAt
  <2>4. Nodes(A)[0][a] = <<A[a + 1]>> /\ Nodes(B)[0][b] = <<B[b + 1]>>  BY NodeFacts
  <2>5. A[a + 1] = B[b + 1]
    <3>1. <<A[a + 1]>> = <<B[b + 1]>>  BY <2>2, <2>4
    <3>2. QED  BY <3>1, SingletonsDiffer
  <2>6. B[b + 1] = b + 1
    <3>1. b + 1 \in 1 .. n  BY <2>3
    <3>2. QED  BY <3>1, <1>1
  <2>7. QED  BY <2>3, <2>5, <2>6
<1>4. n <= Len(A)
  <2>1. SUFFICES ASSUME Len(A) < n  PROVE FALSE
    OBVIOUS
  <2>2. PICK c \in Nat : c = Len(A)  OBVIOUS
  <2>3. PICK a \in 0 .. c : a < c /\ A[a + 1] = c + 1  BY <2>1, <2>2, <1>3
  <2>4. a \in Nat /\ a < Len(A) /\ a < n  BY <2>1, <2>2, <2>3
  <2>5. A[a + 1] = a + 1  BY <2>4, <1>3
  <2>6. QED  BY <2>3, <2>5
<1>5. ASSUME NEW i \in 1 .. n  PROVE A[i] = i
  <2>1. PICK j \in Nat : j = i - 1  OBVIOUS
  <2>2. j < Len(A) /\ j < n /\ j + 1 = i  BY <1>4, <2>1
  <2>3. A[j + 1] = j + 1  BY <2>2, <1>3
  <2>4. QED  BY <2>2, <2>3
<1>6. ASSUME NEW i \in 1 .. Len(A)  PROVE A[i] \in 1 .. n
  <2>1. PICK j \in Nat : j = i - 1  OBVIOUS
  <2>2. j < Len(A) /\ j + 1 = i  BY <2>1
  <2>3. PICK b \in 0 .. j : b < n /\ A[j + 1] = b + 1  BY <2>2, <1>3
  <2>4. b + 1 \in 1 .. n  BY <2>3
  <2>5. QED  BY <2>2, <2>3, <2>4
<1>7. QED  BY <1>4, <1>5, <1>6

(***************************************************************************)
(* That the served log is the contract's history, call by call: on top of  *)
(* the invariant of BondReplay_proofs, which knows how many leaves and     *)
(* notes there are, this one knows whose they are.                         *)
(***************************************************************************)

-----------------------------------------------------------------------------
(* The tables, step by step. *)

\* t has the leaves of s under their calls, and those it adds under call id.
Ascribes(s, t, id) ==
  /\ \A k \in 0 .. (s.bond.leafCount - 1) : t.commitments[k].call = s.commitments[k].call
  /\ \A k \in s.bond.leafCount .. (t.bond.leafCount - 1) : t.commitments[k].call = id

LEMMA AppendAscribes ==
  ASSUME NEW s, WellFilled(s), NEW id, NEW block, NEW n \in Nat, NEW values,
         values = OnFrom(s.bond.leafCount, n)
  PROVE  LET t == AppendCommitments(s, id, values, block) IN
         Ascribes(s, t, id) /\ t.rootClaimeds = s.rootClaimeds
<1> DEFINE from == s.bond.leafCount
           rows == [k \in from .. from + Len(values) - 1 |->
                      [value |-> values[k - from + 1], call |-> id, block |-> block]]
           t == AppendCommitments(s, id, values, block)
<1>1. from \in Nat /\ Len(values) = n  BY OnFromFacts DEF WellFilled
<1>2. t = [s EXCEPT !.commitments = SaveAll(@, rows), !.bond.leafCount = from + Len(values)]
  BY DEF AppendCommitments
<1>3. /\ t.bond.leafCount = from + n /\ t.commitments = SaveAll(s.commitments, rows)
      /\ t.rootClaimeds = s.rootClaimeds
  BY <1>1, <1>2 DEF WellFilled, Shape
<1>4. DOMAIN s.commitments = 0 .. (from - 1) /\ DOMAIN rows = from .. (from + n - 1)
  BY <1>1 DEF WellFilled
<1>5. \A k \in from .. (from + n - 1) : rows[k].call = id  BY <1>1
<1> HIDE DEF t, rows
<1>6. /\ \A k \in 0 .. (from - 1) : t.commitments[k] = s.commitments[k]
      /\ \A k \in from .. (from + n - 1) : t.commitments[k] = rows[k]
  BY <1>1, <1>3, <1>4 DEF SaveAll
<1>7. t.bond.leafCount - 1 = from + n - 1  BY <1>1, <1>3
<1>8. Ascribes(s, t, id)  BY <1>5, <1>6, <1>7 DEF Ascribes
<1>9. QED  BY <1>3, <1>8 DEF t

LEMMA AscribesTransitive ==
  ASSUME NEW s, NEW t, NEW u, NEW id, WellFilled(s), WellFilled(t), WellFilled(u),
         s.bond.leafCount <= t.bond.leafCount, Ascribes(s, t, id), Ascribes(t, u, id)
  PROVE  Ascribes(s, u, id)
<1>1. s.bond.leafCount \in Nat /\ t.bond.leafCount \in Nat /\ u.bond.leafCount \in Nat
  BY DEF WellFilled
<1>2. ASSUME NEW k \in 0 .. (s.bond.leafCount - 1)  PROVE u.commitments[k].call = s.commitments[k].call
  <2>1. k \in 0 .. (t.bond.leafCount - 1)  BY <1>1
  <2>2. QED  BY <2>1 DEF Ascribes
<1>3. ASSUME NEW k \in s.bond.leafCount .. (u.bond.leafCount - 1)  PROVE u.commitments[k].call = id
  <2>1. CASE k < t.bond.leafCount
    <3>1. k \in 0 .. (t.bond.leafCount - 1) /\ k \in s.bond.leafCount .. (t.bond.leafCount - 1)
      BY <2>1, <1>1
    <3>2. QED  BY <3>1 DEF Ascribes
  <2>2. CASE ~(k < t.bond.leafCount)
    <3>1. k \in t.bond.leafCount .. (u.bond.leafCount - 1)  BY <2>2, <1>1
    <3>2. QED  BY <3>1 DEF Ascribes
  <2>3. QED  BY <2>1, <2>2
<1>4. QED  BY <1>2, <1>3 DEF Ascribes

LEMMA MarkKeeps ==
  ASSUME NEW s, WellFilled(s), NEW id, NEW values, NEW block
  PROVE  LET t == MarkNullifiers(s, id, values, block) IN
         /\ t.commitments = s.commitments /\ t.rootClaimeds = s.rootClaimeds
         /\ t.bond.leafCount = s.bond.leafCount
BY DEF MarkNullifiers, WellFilled, Shape

\* What is saved of a cited root.
Claim(id, root, block) == [root |-> root, call |-> id, block |-> block]

LEMMA ClaimKeeps ==
  ASSUME NEW s, WellFilled(s), NEW id, NEW root, NEW suffix, NEW block
  PROVE  LET t == RecordClaimedRoot(s, id, root, suffix, block) IN
         /\ t.commitments = s.commitments /\ t.bond = s.bond
         /\ t.rootClaimeds = Save(s.rootClaimeds, <<id, suffix>>, Claim(id, root, block))
BY DEF RecordClaimedRoot, Claim, WellFilled, Shape

LEMMA SpendsAndAppendsLogs ==
  ASSUME NEW s, WellFilled(s), NEW id, NEW call, NEW n \in Nat, NEW m \in Nat,
         call.commitments = OnFrom(s.bond.leafCount, n),
         call.nullifiers = OnFrom(s.bond.nullifierCount, m)
  PROVE  LET t == SpendsAndAppends(s, id, call) IN
         /\ Ascribes(s, t, id)
         /\ t.rootClaimeds = Save(s.rootClaimeds, <<id, "root">>, Claim(id, call.root, call.block))
<1> DEFINE cited == RecordClaimedRoot(s, id, call.root, "root", call.block)
           spent == MarkNullifiers(cited, id, call.nullifiers, call.block)
           all == AppendCommitments(spent, id, call.commitments, call.block)
<1>1. SpendsAndAppends(s, id, call) = all  BY DEF SpendsAndAppends
<1>2. Adds(s, cited, 0, 0, call.block)  BY ClaimAdds
<1>3. /\ cited.commitments = s.commitments /\ cited.bond = s.bond
      /\ cited.rootClaimeds = Save(s.rootClaimeds, <<id, "root">>, Claim(id, call.root, call.block))
  BY ClaimKeeps
<1> HIDE DEF cited
<1>4. WellFilled(cited)  BY <1>2 DEF Adds
<1>5. Adds(cited, spent, 0, m, call.block)  BY <1>3, <1>4, MarkAdds
<1>6. /\ spent.commitments = cited.commitments /\ spent.rootClaimeds = cited.rootClaimeds
      /\ spent.bond.leafCount = cited.bond.leafCount
  BY <1>4, MarkKeeps
<1> HIDE DEF spent
<1>7. WellFilled(spent) /\ call.commitments = OnFrom(spent.bond.leafCount, n)
  BY <1>3, <1>5, <1>6 DEF Adds
<1>8. Ascribes(spent, all, id) /\ all.rootClaimeds = spent.rootClaimeds  BY <1>7, AppendAscribes
<1> HIDE DEF all
<1>9. Ascribes(s, all, id)  BY <1>3, <1>6, <1>8 DEF Ascribes
<1>10. QED  BY <1>1, <1>3, <1>6, <1>8, <1>9

LEMMA SwapsLogs ==
  ASSUME NEW s, WellFilled(s), NEW id, NEW call,
         Len(call.legs[1]) = 4, Len(call.legs[2]) = 4,
         call.legs[1][2] = s.bond.nullifierCount + 1, call.legs[2][2] = s.bond.nullifierCount + 2,
         call.legs[1][3] = s.bond.leafCount + 1, call.legs[2][3] = s.bond.leafCount + 2
  PROVE  LET t == Swaps(s, id, call) IN
         /\ Ascribes(s, t, id)
         /\ t.rootClaimeds =
              Save(Save(s.rootClaimeds, <<id, "rootA">>, Claim(id, call.legs[1][1], call.block)),
                   <<id, "rootB">>, Claim(id, call.legs[2][1], call.block))
<1> DEFINE claim(t, leg) ==
             RecordClaimedRoot(t, id, call.legs[leg][1], <<"rootA", "rootB">>[leg], call.block)
           spend(t, leg) == MarkNullifier(claim(t, leg), id, call.legs[leg][2], call.block)
           push(t, leg) == AppendCommitment(t, id, call.legs[leg][3], call.block)
           s1 == spend(s, 1)
           s2 == spend(s1, 2)
           s3 == push(s2, 1)
           s4 == push(s3, 2)
<1>1. Swaps(s, id, call) = s4  BY DEF Swaps
<1>2. ASSUME NEW t, WellFilled(t), NEW leg \in {1, 2}, call.legs[leg][2] = t.bond.nullifierCount + 1
      PROVE  /\ WellFilled(spend(t, leg))
             /\ spend(t, leg).bond.nullifierCount = t.bond.nullifierCount + 1
             /\ spend(t, leg).bond.leafCount = t.bond.leafCount
             /\ spend(t, leg).commitments = t.commitments
             /\ spend(t, leg).rootClaimeds =
                  Save(t.rootClaimeds, <<id, <<"rootA", "rootB">>[leg]>>,
                       Claim(id, call.legs[leg][1], call.block))
  <2> DEFINE c == claim(t, leg)
  <2>1. Adds(t, c, 0, 0, call.block)  BY <1>2, ClaimAdds
  <2>2. /\ c.commitments = t.commitments /\ c.bond = t.bond
        /\ c.rootClaimeds = Save(t.rootClaimeds, <<id, <<"rootA", "rootB">>[leg]>>,
                                 Claim(id, call.legs[leg][1], call.block))
    BY <1>2, ClaimKeeps
  <2>3. spend(t, leg) = MarkNullifiers(c, id, <<call.legs[leg][2]>>, call.block)  BY DEF MarkNullifier
  <2> HIDE DEF c, spend
  <2>4. WellFilled(c) /\ t.bond.nullifierCount \in Nat  BY <1>2, <2>1 DEF Adds, WellFilled
  <2>5. <<call.legs[leg][2]>> = OnFrom(c.bond.nullifierCount, 1)  BY <1>2, <2>2, <2>4, OneOnFrom
  <2>6. Adds(c, spend(t, leg), 0, 1, call.block)  BY <2>3, <2>4, <2>5, MarkAdds
  <2>7. /\ spend(t, leg).commitments = c.commitments /\ spend(t, leg).rootClaimeds = c.rootClaimeds
        /\ spend(t, leg).bond.leafCount = c.bond.leafCount
    BY <2>3, <2>4, MarkKeeps
  <2>8. QED  BY <2>2, <2>6, <2>7 DEF Adds
<1>3. ASSUME NEW t, WellFilled(t), NEW leg \in {1, 2}, call.legs[leg][3] = t.bond.leafCount + 1
      PROVE  /\ WellFilled(push(t, leg)) /\ push(t, leg).bond.leafCount = t.bond.leafCount + 1
             /\ Ascribes(t, push(t, leg), id) /\ push(t, leg).rootClaimeds = t.rootClaimeds
  <2>1. push(t, leg) = AppendCommitments(t, id, <<call.legs[leg][3]>>, call.block)  BY DEF AppendCommitment
  <2> HIDE DEF push
  <2>2. t.bond.leafCount \in Nat  BY <1>3 DEF WellFilled
  <2>3. <<call.legs[leg][3]>> = OnFrom(t.bond.leafCount, 1)  BY <1>3, <2>2, OneOnFrom
  <2>4. Adds(t, push(t, leg), 1, 0, call.block)  BY <1>3, <2>1, <2>3, AppendAdds
  <2>5. Ascribes(t, push(t, leg), id) /\ push(t, leg).rootClaimeds = t.rootClaimeds
    BY <1>3, <2>1, <2>3, AppendAscribes
  <2>6. QED  BY <2>4, <2>5 DEF Adds
<1>4. <<"rootA", "rootB">>[1] = "rootA" /\ <<"rootA", "rootB">>[2] = "rootB"  OBVIOUS
<1> HIDE DEF spend, push
<1>5. s.bond.leafCount \in Nat /\ s.bond.nullifierCount \in Nat  BY DEF WellFilled
<1>6. /\ WellFilled(s1) /\ s1.bond.nullifierCount = s.bond.nullifierCount + 1
      /\ s1.bond.leafCount = s.bond.leafCount /\ s1.commitments = s.commitments
      /\ s1.rootClaimeds = Save(s.rootClaimeds, <<id, "rootA">>, Claim(id, call.legs[1][1], call.block))
  BY <1>2, <1>4
<1> HIDE DEF s1
<1>7. call.legs[2][2] = s1.bond.nullifierCount + 1  BY <1>5, <1>6
<1>8. /\ WellFilled(s2) /\ s2.bond.leafCount = s1.bond.leafCount /\ s2.commitments = s1.commitments
      /\ s2.rootClaimeds = Save(s1.rootClaimeds, <<id, "rootB">>, Claim(id, call.legs[2][1], call.block))
  BY <1>2, <1>4, <1>6, <1>7
<1> HIDE DEF s2
<1>9. /\ WellFilled(s3) /\ s3.bond.leafCount = s2.bond.leafCount + 1
      /\ Ascribes(s2, s3, id) /\ s3.rootClaimeds = s2.rootClaimeds
  BY <1>3, <1>6, <1>8
<1> HIDE DEF s3
<1>10. call.legs[2][3] = s3.bond.leafCount + 1  BY <1>5, <1>6, <1>8, <1>9
<1>11. WellFilled(s4) /\ Ascribes(s3, s4, id) /\ s4.rootClaimeds = s3.rootClaimeds
  BY <1>3, <1>9, <1>10
<1> HIDE DEF s4
<1>12. s2.bond.leafCount <= s3.bond.leafCount  BY <1>5, <1>6, <1>8, <1>9
<1>13. Ascribes(s2, s4, id)  BY <1>8, <1>9, <1>11, <1>12, AscribesTransitive
<1>14. Ascribes(s, s4, id)  BY <1>6, <1>8, <1>13 DEF Ascribes
<1>15. QED  BY <1>1, <1>6, <1>8, <1>9, <1>11, <1>14

-----------------------------------------------------------------------------
(* The roots cited. *)

RootsIn(table, id) == {row.root : row \in {r \in Range(table) : r.call = id}}

\* Rows are under the call they name, one of the first n.
Keyed(table, n) == \A x \in DOMAIN table : table[x].call = x[1] /\ x[1] \in 0 .. (n - 1)

\* t is the table with a row under a new key: a root cited by call id.
Cited(table, t, key, id, root) ==
  /\ DOMAIN t = DOMAIN table \cup {key}
  /\ \A x \in DOMAIN table : t[x] = table[x]
  /\ t[key].call = id
  /\ RootsIn(t, id) = RootsIn(table, id) \cup {root}
  /\ \A c : c # id => RootsIn(t, c) = RootsIn(table, c)

LEMMA RootSaved ==
  ASSUME NEW table, NEW key, key \notin DOMAIN table, NEW id, NEW root, NEW block
  PROVE  Cited(table, Save(table, key, Claim(id, root, block)), key, id, root)
<1> DEFINE row == Claim(id, root, block)
           t == Save(table, key, row)
<1>1. row.root = root /\ row.call = id  BY DEF Claim
<1> HIDE DEF row
<1>2. /\ DOMAIN t = DOMAIN table \cup {key} /\ t[key] = row
      /\ \A x \in DOMAIN table : t[x] = table[x]
  BY DEF Save, SaveAll
<1> HIDE DEF t
<1>3. Range(t) = Range(table) \cup {row}  BY <1>2 DEF Range
<1>4. RootsIn(t, id) = RootsIn(table, id) \cup {root}  BY <1>1, <1>3 DEF RootsIn
<1>5. \A c : c # id => RootsIn(t, c) = RootsIn(table, c)  BY <1>1, <1>3 DEF RootsIn
<1>6. QED  BY <1>1, <1>2, <1>4, <1>5 DEF Cited, t, row

\* What a call adds to the table.
WithClaims(table, id, call) ==
  IF call.fn = "ATOMIC_SWAP"
  THEN Save(Save(table, <<id, "rootA">>, Claim(id, call.legs[1][1], call.block)),
            <<id, "rootB">>, Claim(id, call.legs[2][1], call.block))
  ELSE IF call.fn \in {"TRANSFER", "BURN"}
       THEN Save(table, <<id, "root">>, Claim(id, call.root, call.block))
       ELSE table

LEMMA WithClaimsFacts ==
  ASSUME NEW table, NEW n \in Nat, Keyed(table, n), NEW call, call.fn \in EntryPoints
  PROVE  LET t == WithClaims(table, n, call) IN
         /\ Keyed(t, n + 1)
         /\ RootsIn(t, n) = RootsCitedBy(call)
         /\ \A c : c # n => RootsIn(t, c) = RootsIn(table, c)
<1>1. RootsIn(table, n) = {}  BY DEF RootsIn, Keyed, Range
<1>2. \A suffix : <<n, suffix>> \notin DOMAIN table  BY DEF Keyed
<1>3. \A suffix : <<n, suffix>>[1] = n  OBVIOUS
<1>4. \A x \in DOMAIN table : table[x].call = x[1] /\ x[1] \in 0 .. n  BY DEF Keyed
<1>5. n \in 0 .. n /\ (n + 1) - 1 = n  OBVIOUS
<1>6. CASE call.fn = "ATOMIC_SWAP"
  <2> DEFINE a == Save(table, <<n, "rootA">>, Claim(n, call.legs[1][1], call.block))
             b == Save(a, <<n, "rootB">>, Claim(n, call.legs[2][1], call.block))
  <2>1. WithClaims(table, n, call) = b  BY <1>6 DEF WithClaims
  <2>2. RootsCitedBy(call) = {call.legs[1][1], call.legs[2][1]}  BY <1>6 DEF RootsCitedBy
  <2>3. Cited(table, a, <<n, "rootA">>, n, call.legs[1][1])  BY <1>2, RootSaved
  <2> HIDE DEF a
  <2>4. <<n, "rootA">> # <<n, "rootB">>  OBVIOUS
  <2>5. <<n, "rootB">> \notin DOMAIN a  BY <1>2, <2>3, <2>4 DEF Cited
  <2>6. Cited(a, b, <<n, "rootB">>, n, call.legs[2][1])  BY <2>5, RootSaved
  <2> HIDE DEF b
  <2>7. Keyed(b, n + 1)
    <3>1. ASSUME NEW x \in DOMAIN b  PROVE b[x].call = x[1] /\ x[1] \in 0 .. n
      <4>1. CASE x \in DOMAIN table  BY <4>1, <1>4, <2>3, <2>6 DEF Cited
      <4>2. CASE x = <<n, "rootA">>  BY <4>2, <1>3, <1>5, <2>3, <2>6 DEF Cited
      <4>3. CASE x = <<n, "rootB">>  BY <4>3, <1>3, <1>5, <2>6 DEF Cited
      <4>4. QED  BY <4>1, <4>2, <4>3, <2>3, <2>6 DEF Cited
    <3>2. QED  BY <3>1, <1>5 DEF Keyed
  <2>8. RootsIn(b, n) = {call.legs[1][1], call.legs[2][1]}  BY <1>1, <2>3, <2>6 DEF Cited
  <2>9. \A c : c # n => RootsIn(b, c) = RootsIn(table, c)  BY <2>3, <2>6 DEF Cited
  <2>10. QED  BY <2>1, <2>2, <2>7, <2>8, <2>9
<1>7. CASE call.fn \in {"TRANSFER", "BURN"}
  <2> DEFINE a == Save(table, <<n, "root">>, Claim(n, call.root, call.block))
  <2>1. WithClaims(table, n, call) = a  BY <1>7 DEF WithClaims
  <2>2. RootsCitedBy(call) = {call.root}  BY <1>7 DEF RootsCitedBy
  <2>3. Cited(table, a, <<n, "root">>, n, call.root)  BY <1>2, RootSaved
  <2> HIDE DEF a
  <2>4. Keyed(a, n + 1)
    <3>1. ASSUME NEW x \in DOMAIN a  PROVE a[x].call = x[1] /\ x[1] \in 0 .. n
      <4>1. CASE x \in DOMAIN table  BY <4>1, <1>4, <2>3 DEF Cited
      <4>2. CASE x = <<n, "root">>  BY <4>2, <1>3, <1>5, <2>3 DEF Cited
      <4>3. QED  BY <4>1, <4>2, <2>3 DEF Cited
    <3>2. QED  BY <3>1, <1>5 DEF Keyed
  <2>5. QED  BY <1>1, <2>1, <2>2, <2>3, <2>4 DEF Cited
<1>8. CASE call.fn \in {"MINT", "MINT_BATCH"}
  <2>1. WithClaims(table, n, call) = table /\ RootsCitedBy(call) = {}
    BY <1>8 DEF WithClaims, RootsCitedBy
  <2>2. Keyed(table, n + 1)  BY <1>4, <1>5 DEF Keyed
  <2>3. QED  BY <1>1, <2>1, <2>2
<1>9. QED  BY <1>6, <1>7, <1>8 DEF EntryPoints

-----------------------------------------------------------------------------
(* A call handler's step. *)

Logs(s, t, call) ==
  /\ Ascribes(s, t, s.bond.callCount)
  /\ t.bond.callCount = s.bond.callCount + 1
  /\ \A c \in 0 .. (s.bond.callCount - 1) : t.lifecycleCalls[c] = s.lifecycleCalls[c]
  /\ t.lifecycleCalls[s.bond.callCount].fn = call.fn
  /\ t.lifecycleCalls[s.bond.callCount].leafCountAfter = t.bond.leafCount
  /\ t.rootClaimeds = WithClaims(s.rootClaimeds, s.bond.callCount, call)

LEMMA RecordLogs ==
  ASSUME NEW s, WellFilled(s), NEW fn, NEW block
  PROVE  LET t == RecordCall(s, fn, block) IN
         /\ t.commitments = s.commitments /\ t.rootClaimeds = s.rootClaimeds
         /\ t.bond.leafCount = s.bond.leafCount
         /\ \A c \in 0 .. (s.bond.callCount - 1) : t.lifecycleCalls[c] = s.lifecycleCalls[c]
         /\ t.lifecycleCalls[s.bond.callCount].fn = fn
<1> DEFINE t == RecordCall(s, fn, block)
           id == s.bond.callCount
           row == [fn |-> fn, leafCountAfter |-> s.bond.leafCount, block |-> block]
<1>1. /\ t.commitments = s.commitments /\ t.rootClaimeds = s.rootClaimeds
      /\ t.bond.leafCount = s.bond.leafCount
      /\ t.lifecycleCalls = Save(s.lifecycleCalls, id, row)
  BY DEF WellFilled, Shape, RecordCall
<1>2. row.fn = fn  OBVIOUS
<1> HIDE DEF t, row
<1>3. id \in Nat /\ DOMAIN s.lifecycleCalls = 0 .. (id - 1)  BY DEF WellFilled
<1>4. /\ \A c \in 0 .. (id - 1) : t.lifecycleCalls[c] = s.lifecycleCalls[c]
      /\ t.lifecycleCalls[id] = row
  BY <1>1, <1>3 DEF Save, SaveAll
<1>5. QED  BY <1>1, <1>2, <1>4 DEF t

LEMMA FinalizeLogs ==
  ASSUME NEW s, WellFilled(s), NEW id \in 0 .. (s.bond.callCount - 1)
  PROVE  LET t == FinalizeCall(s, id) IN
         /\ t.commitments = s.commitments /\ t.rootClaimeds = s.rootClaimeds /\ t.bond = s.bond
         /\ \A c \in 0 .. (s.bond.callCount - 1) : c # id => t.lifecycleCalls[c] = s.lifecycleCalls[c]
         /\ t.lifecycleCalls[id].fn = s.lifecycleCalls[id].fn
         /\ t.lifecycleCalls[id].leafCountAfter = s.bond.leafCount
<1> DEFINE t == FinalizeCall(s, id)
           row == [s.lifecycleCalls[id] EXCEPT !.leafCountAfter = s.bond.leafCount]
<1>1. /\ t.commitments = s.commitments /\ t.rootClaimeds = s.rootClaimeds /\ t.bond = s.bond
      /\ t.lifecycleCalls = [s.lifecycleCalls EXCEPT ![id] = row]
  BY DEF WellFilled, Shape, FinalizeCall
<1>2. /\ DOMAIN s.lifecycleCalls[id] = {"fn", "leafCountAfter", "block"}
      /\ DOMAIN s.lifecycleCalls = 0 .. (s.bond.callCount - 1)
  BY DEF WellFilled
<1>3. row.fn = s.lifecycleCalls[id].fn /\ row.leafCountAfter = s.bond.leafCount  BY <1>2
<1> HIDE DEF t, row
<1>4. \A c \in 0 .. (s.bond.callCount - 1) :
        t.lifecycleCalls[c] = IF c = id THEN row ELSE s.lifecycleCalls[c]
  BY <1>1, <1>2
<1>5. QED  BY <1>1, <1>3, <1>4 DEF t

\* What the handler's own helpers are to have done, between recording the call
\* and writing its leaf count back.
LEMMA HandlerLogs ==
  ASSUME NEW s, WellFilled(s), NEW call, NEW u, NEW n \in Nat, NEW m \in Nat,
         Adds(RecordCall(s, call.fn, call.block), u, n, m, call.block),
         Ascribes(RecordCall(s, call.fn, call.block), u, s.bond.callCount),
         u.rootClaimeds = WithClaims(s.rootClaimeds, s.bond.callCount, call)
  PROVE  Logs(s, FinalizeCall(u, s.bond.callCount), call)
<1> DEFINE r == RecordCall(s, call.fn, call.block)
           id == s.bond.callCount
           t == FinalizeCall(u, id)
<1>1. /\ r.commitments = s.commitments /\ r.bond.leafCount = s.bond.leafCount
      /\ \A c \in 0 .. (id - 1) : r.lifecycleCalls[c] = s.lifecycleCalls[c]
      /\ r.lifecycleCalls[id].fn = call.fn
  BY RecordLogs
<1>2. r.bond.callCount = id + 1 /\ id \in Nat  BY RecordFacts DEF WellFilled
<1> HIDE DEF r
<1>3. Adds(r, u, n, m, call.block) /\ Ascribes(r, u, id)  BY DEF r
<1>4. WellFilled(u) /\ u.bond.callCount = id + 1 /\ u.lifecycleCalls = r.lifecycleCalls
  BY <1>2, <1>3 DEF Adds
<1>5. id \in 0 .. (u.bond.callCount - 1) /\ u.bond.callCount - 1 = id  BY <1>2, <1>4
<1>6. /\ t.commitments = u.commitments /\ t.rootClaimeds = u.rootClaimeds /\ t.bond = u.bond
      /\ \A c \in 0 .. id : c # id => t.lifecycleCalls[c] = u.lifecycleCalls[c]
      /\ t.lifecycleCalls[id].fn = u.lifecycleCalls[id].fn
      /\ t.lifecycleCalls[id].leafCountAfter = u.bond.leafCount
  BY <1>4, <1>5, FinalizeLogs
<1> HIDE DEF t
<1>7. Ascribes(s, t, id)  BY <1>1, <1>3, <1>6 DEF Ascribes
<1>8. ASSUME NEW c \in 0 .. (id - 1)  PROVE t.lifecycleCalls[c] = s.lifecycleCalls[c]
  <2>1. c \in 0 .. id /\ c # id  BY <1>2
  <2>2. QED  BY <2>1, <1>1, <1>4, <1>6
<1>9. QED  BY <1>1, <1>4, <1>6, <1>7, <1>8 DEF Logs, t

LEMMA HandlersLog ==
  ASSUME ContractInv, GraphInv, CallHandlers
  PROVE  Logs(store, store', bondCalls[handled + 1])
<1> DEFINE call == bondCalls[handled + 1]
           id == store.bond.callCount
           n == Leaves(handled + 1) - Leaves(handled)
           m == Spent(handled + 1) - Spent(handled)
           s == RecordCall(store, call.fn, call.block)
<1>1. deployment = "calls" /\ handled < Len(bondCalls)
  BY DEF CallHandlers, HandleMint, HandleMintBatch, HandleTransfer, HandleBurn, HandleAtomicSwap, Handles
<1>2. \/ call.fn \in {"MINT", "MINT_BATCH"}
         /\ store' = FinalizeCall(AppendsOnly(s, id, call), id)
      \/ call.fn \in {"TRANSFER", "BURN"}
         /\ store' = FinalizeCall(SpendsAndAppends(s, id, call), id)
      \/ call.fn = "ATOMIC_SWAP" /\ store' = FinalizeCall(Swaps(s, id, call), id)
  BY DEF CallHandlers, HandleMint, HandleMintBatch, HandleTransfer, HandleBurn, HandleAtomicSwap, Handles
<1>3. WellFilled(store) /\ handled \in Nat /\ handled + 1 \in 1 .. Len(bondCalls) /\ handled + 1 - 1 = handled
  BY <1>1, IsSeqFacts DEF GraphInv, ContractInv
<1>4. CallInv(handled + 1)  BY <1>3 DEF ContractInv
<1>5. /\ Leaves(handled) \in Nat /\ Leaves(handled + 1) \in Nat /\ Leaves(handled) <= Leaves(handled + 1)
      /\ Spent(handled) \in Nat /\ Spent(handled + 1) \in Nat /\ Spent(handled) <= Spent(handled + 1)
  <2>1. handled \in 0 .. Len(bondCalls) /\ handled + 1 \in 0 .. Len(bondCalls) /\ handled <= handled + 1
    BY <1>3 DEF GraphInv
  <2>2. QED  BY <2>1 DEF ContractInv, ArraysInv
<1>6. n \in Nat /\ m \in Nat  BY <1>5
<1>7. /\ LeavesOf(call) = OnFrom(Leaves(handled), n) /\ SpentBy(call) = OnFrom(Spent(handled), m)
      /\ call.fn \in {"MINT", "MINT_BATCH"} => m = 0
      /\ call.fn = "ATOMIC_SWAP" => Len(call.legs[1]) = 4 /\ Len(call.legs[2]) = 4
  BY <1>3, <1>4, <1>5 DEF CallInv
<1>8. /\ WellFilled(s) /\ s.bond.leafCount = Leaves(handled) /\ s.bond.nullifierCount = Spent(handled)
  BY <1>1, <1>3, RecordFacts DEF GraphInv
<1>9. s.rootClaimeds = store.rootClaimeds  BY <1>3, RecordLogs
<1> HIDE DEF n, m, s
<1>10. PICK u : /\ Adds(s, u, n, m, call.block) /\ store' = FinalizeCall(u, id)
                /\ Ascribes(s, u, id) /\ u.rootClaimeds = WithClaims(s.rootClaimeds, id, call)
  <2>1. CASE call.fn \in {"MINT", "MINT_BATCH"} /\ store' = FinalizeCall(AppendsOnly(s, id, call), id)
    <3>1. call.commitments = OnFrom(s.bond.leafCount, n) /\ m = 0  BY <2>1, <1>7, <1>8 DEF LeavesOf
    <3>2. AppendsOnly(s, id, call) = AppendCommitments(s, id, call.commitments, call.block)
      BY DEF AppendsOnly
    <3>3. Adds(s, AppendsOnly(s, id, call), n, m, call.block)  BY <3>1, <3>2, <1>6, <1>8, AppendAdds
    <3>4. /\ Ascribes(s, AppendsOnly(s, id, call), id)
          /\ AppendsOnly(s, id, call).rootClaimeds = s.rootClaimeds
      BY <3>1, <3>2, <1>6, <1>8, AppendAscribes
    <3>5. WithClaims(s.rootClaimeds, id, call) = s.rootClaimeds  BY <2>1 DEF WithClaims
    <3>6. QED  BY <2>1, <3>3, <3>4, <3>5
  <2>2. CASE call.fn \in {"TRANSFER", "BURN"} /\ store' = FinalizeCall(SpendsAndAppends(s, id, call), id)
    <3>1. call.commitments = OnFrom(s.bond.leafCount, n) /\ call.nullifiers = OnFrom(s.bond.nullifierCount, m)
      BY <2>2, <1>7, <1>8 DEF LeavesOf, SpentBy
    <3>2. Adds(s, SpendsAndAppends(s, id, call), n, m, call.block)
      BY <3>1, <1>6, <1>8, SpendsAndAppendsAdds
    <3>3. /\ Ascribes(s, SpendsAndAppends(s, id, call), id)
          /\ SpendsAndAppends(s, id, call).rootClaimeds =
               Save(s.rootClaimeds, <<id, "root">>, Claim(id, call.root, call.block))
      BY <3>1, <1>6, <1>8, SpendsAndAppendsLogs
    <3>4. WithClaims(s.rootClaimeds, id, call) =
            Save(s.rootClaimeds, <<id, "root">>, Claim(id, call.root, call.block))
      BY <2>2 DEF WithClaims
    <3>5. QED  BY <2>2, <3>2, <3>3, <3>4
  <2>3. CASE call.fn = "ATOMIC_SWAP" /\ store' = FinalizeCall(Swaps(s, id, call), id)
    <3>1. /\ <<call.legs[1][3], call.legs[2][3]>> = OnFrom(Leaves(handled), n)
          /\ <<call.legs[1][2], call.legs[2][2]>> = OnFrom(Spent(handled), m)
      BY <2>3, <1>7 DEF LeavesOf, SpentBy
    <3>2. /\ n = 2 /\ call.legs[1][3] = Leaves(handled) + 1 /\ call.legs[2][3] = Leaves(handled) + 2
          /\ m = 2 /\ call.legs[1][2] = Spent(handled) + 1 /\ call.legs[2][2] = Spent(handled) + 2
      BY <3>1, <1>5, <1>6, PairFacts
    <3>3. Len(call.legs[1]) = 4 /\ Len(call.legs[2]) = 4  BY <2>3, <1>7
    <3>4. Adds(s, Swaps(s, id, call), n, m, call.block)  BY <3>2, <3>3, <1>8, SwapsAdds
    <3>5. /\ Ascribes(s, Swaps(s, id, call), id)
          /\ Swaps(s, id, call).rootClaimeds =
               Save(Save(s.rootClaimeds, <<id, "rootA">>, Claim(id, call.legs[1][1], call.block)),
                    <<id, "rootB">>, Claim(id, call.legs[2][1], call.block))
      BY <3>2, <3>3, <1>8, SwapsLogs
    <3>6. WithClaims(s.rootClaimeds, id, call) =
            Save(Save(s.rootClaimeds, <<id, "rootA">>, Claim(id, call.legs[1][1], call.block)),
                 <<id, "rootB">>, Claim(id, call.legs[2][1], call.block))
      BY <2>3 DEF WithClaims
    <3>7. QED  BY <2>3, <3>4, <3>5, <3>6
  <2>4. QED  BY <2>1, <2>2, <2>3, <1>2
<1>11. /\ Adds(RecordCall(store, call.fn, call.block), u, n, m, call.block)
       /\ Ascribes(RecordCall(store, call.fn, call.block), u, id)
       /\ u.rootClaimeds = WithClaims(store.rootClaimeds, id, call)
  BY <1>9, <1>10 DEF s
<1>12. Logs(store, FinalizeCall(u, id), call)  BY <1>3, <1>6, <1>11, HandlerLogs
<1>13. QED  BY <1>10, <1>12

-----------------------------------------------------------------------------
(* The invariant: each call handled is entered as it was made. *)

Entered(i) ==
  /\ store.lifecycleCalls[i - 1].fn = bondCalls[i].fn
  /\ store.lifecycleCalls[i - 1].block = bondCalls[i].block
  /\ store.lifecycleCalls[i - 1].leafCountAfter = Leaves(i)
  /\ \A k \in Leaves(i - 1) .. (Leaves(i) - 1) : store.commitments[k].call = i - 1
  /\ RootsIn(store.rootClaimeds, i - 1) = RootsCitedBy(bondCalls[i])

LogInv ==
  deployment = "calls" =>
    /\ store.bond.callCount = handled
    /\ Keyed(store.rootClaimeds, handled)
    /\ \A i \in 1 .. handled : Entered(i)

LEMMA LogStarts ==
  ASSUME Init
  PROVE  LogInv
BY DEF Init, GraphInit, EmptyStore, LogInv, Keyed

LEMMA LogKept ==
  ASSUME ContractInv, GraphInv, LogInv, UNCHANGED graphVars,
         \A i \in 1 .. Len(bondCalls) : bondCalls'[i] = bondCalls[i]
  PROVE  LogInv'
<1>1. UNCHANGED <<deployment, store, handled>>  BY DEF graphVars
<1>2. handled \in 0 .. Len(bondCalls) /\ Len(bondCalls) \in Nat
  BY IsSeqFacts DEF GraphInv, ContractInv
<1>3. \A i \in 0 .. Len(bondCalls) : Leaves(i)' = Leaves(i)  BY <1>2 DEF Leaves, LeavesAfter
<1>4. ASSUME NEW i \in 1 .. handled, Entered(i)  PROVE Entered(i)'
  <2>1. i \in 1 .. Len(bondCalls) /\ i \in 0 .. Len(bondCalls) /\ i - 1 \in 0 .. Len(bondCalls)  BY <1>2
  <2>2. bondCalls'[i] = bondCalls[i] /\ Leaves(i)' = Leaves(i) /\ Leaves(i - 1)' = Leaves(i - 1)
    BY <2>1, <1>3
  <2>3. QED  BY <2>2, <1>1, <1>4 DEF Entered
<1>5. QED  BY <1>1, <1>4 DEF LogInv

LEMMA CallsAreEntered ==
  ASSUME ContractInv, GraphInv, LogInv, CallHandlers, UNCHANGED bondVars
  PROVE  LogInv'
<1> DEFINE call == bondCalls[handled + 1]
<1>1. TookCall /\ Logs(store, store', call)  BY HandlersTakeCalls, HandlersLog
<1>2. /\ deployment = "calls" /\ deployment' = deployment /\ handled' = handled + 1
      /\ handled \in Nat /\ handled + 1 \in 1 .. Len(bondCalls) /\ Len(bondCalls) \in Nat
  BY <1>1, IsSeqFacts DEF TookCall, GraphInv, ContractInv
<1>3. store.bond.callCount = handled /\ Keyed(store.rootClaimeds, handled) /\ \A i \in 1 .. handled : Entered(i)
  BY <1>2 DEF LogInv
<1>4. /\ Ascribes(store, store', handled) /\ store'.bond.callCount = handled + 1
      /\ \A c \in 0 .. (handled - 1) : store'.lifecycleCalls[c] = store.lifecycleCalls[c]
      /\ store'.lifecycleCalls[handled].fn = call.fn
      /\ store'.lifecycleCalls[handled].leafCountAfter = store'.bond.leafCount
      /\ store'.rootClaimeds = WithClaims(store.rootClaimeds, handled, call)
  BY <1>1, <1>3 DEF Logs
<1>5. call.fn \in EntryPoints  BY <1>2 DEF ContractInv, CallInv
<1>5a. store'.lifecycleCalls[handled].block = call.block
  <2>1. call.block = metaBlock + 1
    BY DEF CallHandlers, HandleMint, HandleMintBatch, HandleTransfer, HandleBurn, HandleAtomicSwap, Handles
  <2>2. QED  BY <1>1, <1>3, <2>1 DEF TookCall, Called
<1>6. /\ Keyed(store'.rootClaimeds, handled + 1)
      /\ RootsIn(store'.rootClaimeds, handled) = RootsCitedBy(call)
      /\ \A c : c # handled => RootsIn(store'.rootClaimeds, c) = RootsIn(store.rootClaimeds, c)
  BY <1>2, <1>3, <1>4, <1>5, WithClaimsFacts
<1>7. /\ \A i \in 0 .. Len(bondCalls) : Leaves(i) \in Nat
      /\ \A i, j \in 0 .. Len(bondCalls) : i <= j => Leaves(i) <= Leaves(j)
  BY DEF ContractInv, ArraysInv
<1>8. handled \in 0 .. Len(bondCalls) /\ handled + 1 \in 0 .. Len(bondCalls)  BY <1>2
<1>9. store.bond.leafCount = Leaves(handled) /\ store'.bond.leafCount = Leaves(handled + 1)
  <2>1. store.bond.leafCount = Leaves(handled)  BY <1>2 DEF GraphInv
  <2>2. store'.bond.leafCount = store.bond.leafCount + (Leaves(handled + 1) - Leaves(handled))
    BY <1>1 DEF TookCall, Called
  <2>3. QED  BY <2>1, <2>2, <1>7, <1>8
<1>10. bondCalls' = bondCalls /\ \A i : Leaves(i)' = Leaves(i)
  BY DEF bondVars, Leaves, LeavesAfter
<1> HIDE DEF call
<1>11. ASSUME NEW i \in 1 .. (handled + 1)  PROVE Entered(i)'
  <2>1. CASE i = handled + 1
    <3>1. i - 1 = handled  BY <2>1, <1>2
    <3>2. \A k \in Leaves(i - 1) .. (Leaves(i) - 1) : store'.commitments[k].call = i - 1
      BY <2>1, <3>1, <1>4, <1>9 DEF Ascribes
    <3>3. QED  BY <2>1, <3>1, <3>2, <1>4, <1>5a, <1>6, <1>9, <1>10 DEF Entered, call
  <2>2. CASE i \in 1 .. handled
    <3>1. /\ Entered(i) /\ i - 1 \in 0 .. (handled - 1) /\ i - 1 # handled
          /\ i \in 0 .. Len(bondCalls) /\ i - 1 \in 0 .. Len(bondCalls)
      BY <2>2, <1>2, <1>3
    <3>2. Leaves(i) <= store.bond.leafCount /\ Leaves(i - 1) \in Nat /\ Leaves(i) \in Nat
      BY <2>2, <3>1, <1>7, <1>8, <1>9
    <3>3. store.bond.leafCount \in Nat  BY <1>7, <1>8, <1>9
    <3>4. \A k \in Leaves(i - 1) .. (Leaves(i) - 1) : k \in 0 .. (store.bond.leafCount - 1)
      BY <3>2, <3>3
    <3>5. \A k \in Leaves(i - 1) .. (Leaves(i) - 1) : store'.commitments[k].call = i - 1
      BY <3>1, <3>4, <1>4 DEF Ascribes, Entered
    <3>6. QED  BY <3>1, <3>5, <1>4, <1>6, <1>10 DEF Entered
  <2>3. QED  BY <2>1, <2>2, <1>2
<1>12. QED  BY <1>2, <1>4, <1>6, <1>11 DEF LogInv

LEMMA LogStep ==
  ASSUME ReplayInv, LogInv, [Next]_vars
  PROVE  LogInv'
<1>1. ContractInv /\ GraphInv  BY DEF ReplayInv
<1>2. CASE BondNext /\ UNCHANGED graphVars
  <2>1. \A i \in 1 .. Len(bondCalls) : bondCalls'[i] = bondCalls[i]  BY <1>1, <1>2, ContractStep DEF Grows
  <2>2. QED  BY <2>1, <1>1, <1>2, LogKept
<1>3. CASE UNCHANGED <<bondVars, graphVars>>
  <2>1. bondCalls' = bondCalls  BY <1>3 DEF bondVars
  <2>2. QED  BY <2>1, <1>1, <1>3, LogKept
<1>4. CASE CallHandlers /\ UNCHANGED bondVars  BY <1>1, <1>4, CallsAreEntered
<1>5. CASE FinishBlock /\ UNCHANGED bondVars
  <2>1. UNCHANGED <<deployment, store, handled, bondCalls>>  BY <1>5 DEF FinishBlock, bondVars
  <2>2. \A i : Entered(i) => Entered(i)'  BY <2>1 DEF Entered, Leaves, LeavesAfter
  <2>3. QED  BY <2>1, <2>2 DEF LogInv
<1>6. CASE HandleBlock
  <2>1. deployment' = "blocks"  BY <1>6 DEF HandleBlock
  <2>2. QED  BY <2>1 DEF LogInv
<1>7. QED
  <2>1. CASE GraphNext /\ UNCHANGED bondVars
    BY <2>1, <1>4, <1>5, <1>6 DEF GraphNext, CallHandlers
  <2>2. CASE Fetch \/ Reconcile  BY <2>2, <1>3 DEF Fetch, Reconcile
  <2>3. CASE UNCHANGED vars  BY <2>3, <1>3 DEF vars
  <2>4. QED  BY <2>1, <2>2, <2>3, <1>2 DEF Next

LEMMA CountedUp ==
  ASSUME NEW n \in Nat
  PROVE  ToSet(CountUp(n)) = 1 .. n
<1>1. DOMAIN CountUp(n) = 1 .. n /\ \A k \in 1 .. n : CountUp(n)[k] = k  BY DEF CountUp
<1>2. QED  BY <1>1 DEF ToSet

-----------------------------------------------------------------------------
(* The roots cited: every one is of the array some earlier call left. *)

RootsInv ==
  \A i \in 1 .. Len(bondCalls) :
    /\ Leaves(i) # 0
    /\ RootsCitedBy(bondCalls[i]) \subseteq KnownRootsAfter(i - 1)

LEMMA KnownRootsKept ==
  ASSUME ContractInv, Grows, NEW i \in 0 .. Len(bondCalls)
  PROVE  Leaves(i)' = Leaves(i) /\ KnownRootsAfter(i)' = KnownRootsAfter(i)
<1>1. Len(bondCalls) \in Nat  BY IsSeqFacts DEF ContractInv
<1>2. \A k \in 0 .. Len(bondCalls) : LeavesAfter(k)' = LeavesAfter(k)
  BY <1>1 DEF Grows, LeavesAfter
<1>3. \A k \in 1 .. i : LeavesAfter(k)' = LeavesAfter(k)  BY <1>1, <1>2
<1>4. \A k \in 1 .. i : AnchoredRoot(LeavesAfter(k))' = AnchoredRoot(LeavesAfter(k))
  BY <1>3 DEF AnchoredRoot
<1>5. KnownRootsAfter(i)' = KnownRootsAfter(i)  BY <1>4 DEF KnownRootsAfter
<1>6. QED  BY <1>2, <1>5 DEF Leaves

LEMMA RootsOfCall ==
  ASSUME ContractInv, RootsInv, NEW fn, NEW args, Succeeds(fn, args),
         fn = "ATOMIC_SWAP" => args.legs[1][1] \in CitableRoots /\ args.legs[2][1] \in CitableRoots,
         fn \in {"TRANSFER", "BURN"} => args.root \in CitableRoots
  PROVE  \A i \in 1 .. Len(bondCalls') :
           Leaves(i)' # 0 /\ (i = Len(bondCalls) + 1 => RootsCitedBy(bondCalls'[i]) \subseteq CitableRoots)
<1> DEFINE len == Len(bondCalls)
           call == [commitments |-> args.commitments, nullifiers |-> args.nullifiers,
                    root |-> args.root, legs |-> args.legs, fn |-> fn]
           array == LeavesAfter(len) \o LeavesOf(call)
           spent == SpentAfter(len) \o SpentBy(call)
           entry == [commitments |-> call.commitments, nullifiers |-> call.nullifiers, root |-> call.root,
                     legs |-> call.legs, fn |-> fn, block |-> head, array |-> array, spent |-> spent]
<1>1. Len(array) \in 1 .. MaxLeaves /\ bondCalls' = Append(bondCalls, entry)  BY DEF Succeeds
<1>2. entry.array = array /\ entry.fn = fn /\ entry.legs = args.legs /\ entry.root = args.root  OBVIOUS
<1>3. RootsCitedBy(entry) \subseteq CitableRoots
  BY <1>2 DEF RootsCitedBy
<1> HIDE DEF entry, array
<1>4. len \in Nat /\ Len(bondCalls') = len + 1 /\ bondCalls'[len + 1] = entry
      /\ \A i \in 1 .. len : bondCalls'[i] = bondCalls[i]
  BY <1>1, IsSeqFacts, AppendFacts DEF ContractInv
<1>5. ASSUME NEW i \in 1 .. (len + 1)  PROVE Leaves(i)' # 0
  <2>1. CASE i = len + 1
    <3>1. Leaves(i)' = Len(array)  BY <2>1, <1>2, <1>4 DEF Leaves, LeavesAfter
    <3>2. QED  BY <3>1, <1>1, BondAssumption
  <2>2. CASE i \in 1 .. len
    <3>1. Leaves(i)' = Leaves(i)  BY <2>2, <1>4 DEF Leaves, LeavesAfter
    <3>2. QED  BY <2>2, <3>1 DEF RootsInv
  <2>3. QED  BY <2>1, <2>2, <1>4
<1>6. QED  BY <1>3, <1>4, <1>5

LEMMA RootsStep ==
  ASSUME ContractInv, RootsInv, BondNext
  PROVE  RootsInv'
<1> DEFINE len == Len(bondCalls)
<1>1. Grows  BY ContractStep
<1>2. len \in Nat  BY IsSeqFacts DEF ContractInv
<1>3. \A i \in 0 .. len : Leaves(i)' = Leaves(i) /\ KnownRootsAfter(i)' = KnownRootsAfter(i)
  BY <1>1, KnownRootsKept
<1>4. CASE NextBlock
  <2>1. bondCalls' = bondCalls  BY <1>4 DEF NextBlock
  <2>2. \A i \in 1 .. len : i \in 0 .. len /\ i - 1 \in 0 .. len  BY <1>2
  <2>3. QED  BY <2>1, <2>2, <1>3 DEF RootsInv
<1>5. ASSUME NEW fn, NEW args, Succeeds(fn, args),
             fn = "ATOMIC_SWAP" => args.legs[1][1] \in CitableRoots /\ args.legs[2][1] \in CitableRoots,
             fn \in {"TRANSFER", "BURN"} => args.root \in CitableRoots
      PROVE  RootsInv'
  <2>1. \A i \in 1 .. Len(bondCalls') :
           Leaves(i)' # 0 /\ (i = len + 1 => RootsCitedBy(bondCalls'[i]) \subseteq CitableRoots)
    BY <1>5, RootsOfCall
  <2>2. Len(bondCalls') = len + 1  BY <1>5, AppendFacts DEF ContractInv, Succeeds
  <2>3. ASSUME NEW i \in 1 .. (len + 1)  PROVE RootsCitedBy(bondCalls'[i]) \subseteq KnownRootsAfter(i - 1)'
    <3>1. i - 1 \in 0 .. len  BY <1>2
    <3>2. KnownRootsAfter(i - 1)' = KnownRootsAfter(i - 1)  BY <3>1, <1>3
    <3>3. CASE i = len + 1
      <4>1. i - 1 = len  BY <3>3, <1>2
      <4>2. QED  BY <3>2, <3>3, <4>1, <2>1, <2>2 DEF CitableRoots
    <3>4. CASE i \in 1 .. len
      <4>1. bondCalls'[i] = bondCalls[i]  BY <3>4, <1>1 DEF Grows
      <4>2. QED  BY <3>2, <3>4, <4>1 DEF RootsInv
    <3>5. QED  BY <3>3, <3>4, <1>2
  <2>4. QED  BY <2>1, <2>2, <2>3 DEF RootsInv
<1>6. CASE Mint  BY <1>6, <1>5, Zenon DEF Mint
<1>7. CASE MintBatch  BY <1>7, <1>5, Zenon DEF MintBatch
<1>8. ASSUME NEW fn \in {"TRANSFER", "BURN"}, TwoInTwoOut(fn)  PROVE RootsInv'
  <2>1. PICK root \in CitableRoots :
          Succeeds(fn, [NoArgs EXCEPT !.commitments = <<FreshLeaf(1), FreshLeaf(2)>>,
                                      !.nullifiers = <<FreshNullifier(1), FreshNullifier(2)>>,
                                      !.root = root])
    BY <1>8 DEF TwoInTwoOut
  <2> DEFINE args == [NoArgs EXCEPT !.commitments = <<FreshLeaf(1), FreshLeaf(2)>>,
                                    !.nullifiers = <<FreshNullifier(1), FreshNullifier(2)>>,
                                    !.root = root]
  <2>2. args.root = root  BY DEF NoArgs
  <2> HIDE DEF args
  <2>3. fn # "ATOMIC_SWAP"  OBVIOUS
  <2>4. QED  BY <2>1, <2>2, <2>3, <1>5 DEF args
<1>9. CASE AtomicSwap
  <2>1. PICK rootA \in CitableRoots, rootB \in CitableRoots :
          Succeeds("ATOMIC_SWAP",
             [NoArgs EXCEPT !.legs = <<<<rootA, FreshNullifier(1), FreshLeaf(1), "maturity">>,
                                       <<rootB, FreshNullifier(2), FreshLeaf(2), "maturity">>>>])
    BY <1>9 DEF AtomicSwap
  <2> DEFINE args == [NoArgs EXCEPT !.legs = <<<<rootA, FreshNullifier(1), FreshLeaf(1), "maturity">>,
                                               <<rootB, FreshNullifier(2), FreshLeaf(2), "maturity">>>>]
  <2>2. args.legs[1][1] = rootA /\ args.legs[2][1] = rootB  BY DEF NoArgs
  <2> HIDE DEF args
  <2>3. "ATOMIC_SWAP" \notin {"TRANSFER", "BURN"}  OBVIOUS
  <2>4. QED  BY <2>1, <2>2, <2>3, <1>5 DEF args
<1>10. QED  BY <1>4, <1>6, <1>7, <1>8, <1>9 DEF BondNext, Transfer, Burn

LEMMA RootsKept ==
  ASSUME RootsInv, bondCalls' = bondCalls
  PROVE  RootsInv'
<1>1. \A i : LeavesAfter(i)' = LeavesAfter(i)  BY DEF LeavesAfter
<1>2. \A i : KnownRootsAfter(i)' = KnownRootsAfter(i)  BY <1>1, Zenon DEF KnownRootsAfter
<1>3. \A i : Leaves(i)' = Leaves(i)  BY <1>1, Zenon DEF Leaves
<1>4. QED  BY <1>2, <1>3 DEF RootsInv

-----------------------------------------------------------------------------
(* What is indexed in full: calls, and blocks walked. *)

HandledInv == deployment = "calls" => CallsUpTo(metaBlock) \subseteq 1 .. handled

\* Each row is of a block walked in which the log grew, and has its length then.
Walked(c) ==
  LET row == store.lifecycleCalls[c]
  IN /\ row.block \in 1 .. metaBlock
     /\ row.leafCountAfter \in 1 .. store.bond.leafCount
     /\ Kept(row.block) => row.leafCountAfter = Len(LeavesAt(row.block))

InWalkOrder(c, d) ==
  /\ store.lifecycleCalls[c].block < store.lifecycleCalls[d].block
  /\ store.lifecycleCalls[c].leafCountAfter <= store.lifecycleCalls[d].leafCountAfter

WalkedInv ==
  deployment = "blocks" =>
    /\ \A c \in 0 .. (store.bond.callCount - 1) : Walked(c)
    /\ \A c, d \in 0 .. (store.bond.callCount - 1) : c < d => InWalkOrder(c, d)

LEMMA KeptBefore ==
  ASSUME ContractInv, ContractInv', Grows, deployment' = deployment, NEW b \in Nat, b < head
  PROVE  CallsUpTo(b)' = CallsUpTo(b) /\ LeavesAt(b)' = LeavesAt(b) /\ (Kept(b)' <=> Kept(b))
<1>1. \A c \in 0 .. b : CallsUpTo(c)' = CallsUpTo(c) /\ LeavesAt(c)' = LeavesAt(c)
  <2>1. ASSUME NEW c \in 0 .. b  PROVE CallsUpTo(c)' = CallsUpTo(c) /\ LeavesAt(c)' = LeavesAt(c)
    <3>1. c \in Nat /\ c < head  BY DEF ContractInv
    <3>2. QED  BY <3>1, PastIsFixed
  <2>2. QED  BY <2>1
<1>2. \A c \in 1 .. b : c \in 0 .. b /\ c - 1 \in 0 .. b  OBVIOUS
<1>3. Kept(b)' <=> Kept(b)  BY <1>1, <1>2 DEF Kept
<1>4. QED  BY <1>1, <1>3

LEMMA IndexedKept ==
  ASSUME ContractInv, ContractInv', Grows, GraphInv, HandledInv, WalkedInv, UNCHANGED graphVars
  PROVE  HandledInv' /\ WalkedInv'
<1>1. UNCHANGED <<deployment, store, handled, metaBlock>>  BY DEF graphVars
<1>2. metaBlock \in 0 .. (head - 1) /\ head \in Nat  BY DEF GraphInv, ContractInv
<1>3. \A b \in 0 .. metaBlock : CallsUpTo(b)' = CallsUpTo(b) /\ LeavesAt(b)' = LeavesAt(b) /\ (Kept(b)' <=> Kept(b))
  <2>1. ASSUME NEW b \in 0 .. metaBlock
        PROVE  CallsUpTo(b)' = CallsUpTo(b) /\ LeavesAt(b)' = LeavesAt(b) /\ (Kept(b)' <=> Kept(b))
    <3>1. b \in Nat /\ b < head  BY <1>2
    <3>2. QED  BY <3>1, <1>1, KeptBefore
  <2>2. QED  BY <2>1
<1>4. HandledInv'
  <2>1. metaBlock \in 0 .. metaBlock  BY <1>2
  <2>2. PICK b \in 0 .. metaBlock : b = metaBlock  BY <2>1
  <2>3. CallsUpTo(b)' = CallsUpTo(b)  BY <1>3
  <2>4. CallsUpTo(metaBlock)' = CallsUpTo(metaBlock)  BY <2>2, <2>3, <1>1 DEF CallsUpTo
  <2>5. QED  BY <2>4, <1>1 DEF HandledInv
<1>5. WalkedInv'
  <2>1. ASSUME NEW c, Walked(c)  PROVE Walked(c)'
    <3>1. PICK b \in 1 .. metaBlock : b = store.lifecycleCalls[c].block  BY <2>1 DEF Walked
    <3>2. b \in 0 .. metaBlock  BY <3>1, <1>2
    <3>3. LeavesAt(b)' = LeavesAt(b) /\ (Kept(b)' <=> Kept(b))  BY <3>2, <1>3
    <3>4. store'.lifecycleCalls[c].block = b  BY <3>1, <1>1
    <3>5. LeavesAt(store.lifecycleCalls[c].block)' = LeavesAt(b) /\ (Kept(store.lifecycleCalls[c].block)' <=> Kept(b))
      BY <3>3, <3>4 DEF LeavesAt, CallsUpTo, Kept
    <3>6. QED  BY <3>1, <3>5, <2>1, <1>1 DEF Walked
  <2>2. \A c, d : InWalkOrder(c, d)' <=> InWalkOrder(c, d)  BY <1>1 DEF InWalkOrder
  <2>3. QED  BY <2>1, <2>2, <1>1 DEF WalkedInv
<1>6. QED  BY <1>4, <1>5

\* A block handler's step: nothing, or a row for the log it leaves.
WalkLogs(s, t) ==
  /\ t.bond.leafCount > s.bond.leafCount
  /\ t.bond.callCount = s.bond.callCount + 1
  /\ \A c \in 0 .. (s.bond.callCount - 1) : t.lifecycleCalls[c] = s.lifecycleCalls[c]
  /\ t.lifecycleCalls[s.bond.callCount].leafCountAfter = t.bond.leafCount

LEMMA BlockHandlerLogs ==
  ASSUME ContractInv, GraphInv, HandleBlock
  PROVE  store' = store \/ WalkLogs(store, store')
<1> DEFINE block == metaBlock + 1
           from == store.bond.leafCount
           array == LeavesAt(block)
           upTo == Min({Len(array), from + MAX_NEW_LEAVES_PER_BLOCK})
           walked == AppendCommitments(store, store.bond.callCount, SubSeq(array, from + 1, upTo), block)
           id == store.bond.callCount
<1>1. /\ deployment = "blocks"
      /\ store' = IF upTo = from THEN store
                  ELSE FinalizeCall(RecordCall(walked, "UNKNOWN", block), id)
  BY DEF HandleBlock
<1>2. WellFilled(store) /\ from \in Nat /\ id \in Nat /\ metaBlock \in Nat /\ block \in Nat /\ metaBlock <= block
  BY DEF GraphInv, WellFilled, ContractInv
<1>3. Len(array) \in Nat /\ array = CountUp(Len(array))  BY LeavesAtFacts
<1>4. from <= Len(array)
  <2>1. from <= Len(LeavesAt(metaBlock))  BY <1>1 DEF GraphInv
  <2>2. Len(LeavesAt(metaBlock)) <= Len(array)  BY <1>2, LeavesAtMonotone
  <2>3. Len(LeavesAt(metaBlock)) \in Nat  BY LeavesAtFacts
  <2>4. QED  BY <2>1, <2>2, <2>3, <1>2, <1>3
<1>5. upTo \in Nat /\ from <= upTo /\ upTo <= Len(array)
  <2>1. Len(array) \in Int /\ from + MAX_NEW_LEAVES_PER_BLOCK \in Int  BY <1>2, <1>3, WalkAssumption
  <2>2. upTo = IF Len(array) <= from + MAX_NEW_LEAVES_PER_BLOCK THEN Len(array)
               ELSE from + MAX_NEW_LEAVES_PER_BLOCK
    BY <2>1, MinOfTwo
  <2>3. QED  BY <2>2, <1>2, <1>3, <1>4, WalkAssumption
<1> HIDE DEF array, upTo
<1>6. SubSeq(array, from + 1, upTo) = OnFrom(from, upTo - from)  BY <1>2, <1>3, <1>5, SubSeqCount
<1>7. upTo - from \in Nat /\ from + (upTo - from) = upTo  BY <1>2, <1>5
<1>8. Adds(store, walked, upTo - from, 0, block)  BY <1>2, <1>6, <1>7, AppendAdds
<1>9. /\ WellFilled(walked) /\ walked.bond.leafCount = upTo
      /\ walked.bond.callCount = id /\ walked.lifecycleCalls = store.lifecycleCalls
  BY <1>7, <1>8 DEF Adds
<1> HIDE DEF walked, from, id
<1> DEFINE r == RecordCall(walked, "UNKNOWN", block)
           t == FinalizeCall(r, id)
<1>10. /\ r.bond.leafCount = upTo
       /\ \A c \in 0 .. (id - 1) : r.lifecycleCalls[c] = store.lifecycleCalls[c]
  BY <1>9, RecordLogs
<1>11. WellFilled(r) /\ r.bond.callCount = id + 1  BY <1>9, RecordFacts
<1> HIDE DEF r
<1>12. id \in 0 .. (r.bond.callCount - 1)  BY <1>2, <1>11
<1>13. /\ t.bond = r.bond
       /\ \A c \in 0 .. (r.bond.callCount - 1) : c # id => t.lifecycleCalls[c] = r.lifecycleCalls[c]
       /\ t.lifecycleCalls[id].leafCountAfter = r.bond.leafCount
  BY <1>11, <1>12, FinalizeLogs
<1> HIDE DEF t
<1>14. CASE upTo = from  BY <1>1, <1>14
<1>15. CASE upTo # from
  <2>1. store' = t  BY <1>1, <1>15 DEF t, r
  <2>2. \A c \in 0 .. (id - 1) : c \in 0 .. (r.bond.callCount - 1) /\ c # id  BY <1>2, <1>11
  <2>3. \A c \in 0 .. (id - 1) : t.lifecycleCalls[c] = store.lifecycleCalls[c]  BY <2>2, <1>10, <1>13
  <2>4. upTo > from  BY <1>2, <1>5, <1>15
  <2>5. QED  BY <2>1, <2>3, <2>4, <1>10, <1>11, <1>13 DEF WalkLogs, from, id
<1>16. QED  BY <1>14, <1>15

\* A walk that has kept up has the whole array.
LEMMA KeptUpHasAll ==
  ASSUME ContractInv, GraphInv, deployment = "blocks", Kept(metaBlock)
  PROVE  store.bond.leafCount = Len(LeavesAt(metaBlock))
<1>1. metaBlock \in Nat /\ Len(LeavesAt(metaBlock)) \in Nat /\ store.bond.leafCount \in Nat
  BY LeavesAtFacts DEF GraphInv, WellFilled, ContractInv
<1>2. VisibleAt(store.commitments, metaBlock) = 0 .. (Len(LeavesAt(metaBlock)) - 1)
  BY <1>1 DEF GraphInv, VisibleInv
<1>3. VisibleAt(store.commitments, metaBlock) = 0 .. (store.bond.leafCount - 1)
  BY <1>1 DEF VisibleAt, GraphInv, RowsInv, WellFilled
<1>4. QED  BY <1>1, <1>2, <1>3

LEMMA WalkStep ==
  ASSUME ContractInv, GraphInv, WalkedInv, HandleBlock, UNCHANGED bondVars
  PROVE  WalkedInv'
<1>0. PICK block, count : block = metaBlock + 1 /\ count = store.bond.callCount  OBVIOUS
<1>1. TookBlock  BY BlockHandlerTakes
<1>2. /\ deployment = "blocks" /\ deployment' = "blocks" /\ metaBlock' = block /\ metaBlock \in Nat
      /\ bondCalls' = bondCalls /\ WellFilled(store) /\ count \in Nat /\ store.bond.leafCount \in Nat
      /\ Len(LeavesAt(block)) \in Nat
  <2>1. /\ deployment = "blocks" /\ deployment' = "blocks" /\ metaBlock' = block
    BY <1>0, <1>1 DEF TookBlock
  <2>2. metaBlock \in Nat /\ bondCalls' = bondCalls  BY DEF GraphInv, ContractInv, bondVars
  <2>3. WellFilled(store) /\ count \in Nat /\ store.bond.leafCount \in Nat
    BY <1>0 DEF GraphInv, WellFilled
  <2>4. QED  BY <2>1, <2>2, <2>3, LeavesAtFacts
<1>3. \A b : LeavesAt(b)' = LeavesAt(b)  BY <1>2, Zenon DEF LeavesAt, LeavesAfter, CallsUpTo
<1>4. \A b : Kept(b)' <=> Kept(b)  BY <1>2, <1>3 DEF Kept
<1>5. /\ \A c \in 0 .. (count - 1) : Walked(c)
      /\ \A c, d \in 0 .. (count - 1) : c < d => InWalkOrder(c, d)
  BY <1>0, <1>2 DEF WalkedInv
<1>6. CASE store' = store
  <2>1. \A c \in 0 .. (count - 1) : Walked(c)'
    <3>1. \A b : b \in 1 .. metaBlock => b \in 1 .. block  BY <1>0, <1>2
    <3>2. QED  BY <3>1, <1>2, <1>3, <1>4, <1>5, <1>6 DEF Walked
  <2>2. \A c, d : InWalkOrder(c, d)' <=> InWalkOrder(c, d)  BY <1>6 DEF InWalkOrder
  <2>3. QED  BY <2>1, <2>2, <1>0, <1>2, <1>5, <1>6 DEF WalkedInv
<1>7. CASE store' # store
  <2>1. WalkLogs(store, store')  BY <1>7, BlockHandlerLogs
  <2>2. PICK n \in Nat :
          /\ store.bond.leafCount + n <= Len(LeavesAt(block))
          /\ n = MAX_NEW_LEAVES_PER_BLOCK \/ store.bond.leafCount + n = Len(LeavesAt(block))
          /\ Called(store, store', n, 0, block)
    BY <1>0, <1>1, <1>7 DEF TookBlock
  <2>3. /\ store'.bond.leafCount = store.bond.leafCount + n /\ store'.bond.leafCount > store.bond.leafCount
        /\ store'.bond.callCount = count + 1
        /\ store'.lifecycleCalls[count].block = block
        /\ store'.lifecycleCalls[count].leafCountAfter = store'.bond.leafCount
        /\ \A c \in 0 .. (count - 1) : store'.lifecycleCalls[c] = store.lifecycleCalls[c]
    BY <2>1, <2>2, <1>0 DEF Called, WalkLogs
  <2>4. ASSUME Kept(block)  PROVE store'.bond.leafCount = Len(LeavesAt(block))
    <3>1. Kept(metaBlock)  BY <2>4, <1>0, <1>2 DEF Kept
    <3>2. store.bond.leafCount = Len(LeavesAt(metaBlock))  BY <3>1, <1>2, KeptUpHasAll
    <3>3. Len(LeavesAt(block)) <= Len(LeavesAt(metaBlock)) + MAX_NEW_LEAVES_PER_BLOCK
      <4>1. block \in 1 .. block /\ block - 1 = metaBlock  BY <1>0, <1>2
      <4>2. QED  BY <4>1, <2>4, <1>2 DEF Kept
    <3>4. QED  BY <3>2, <3>3, <2>2, <2>3, <1>2, WalkAssumption
  <2>5. Walked(count)'
    <3>1. block \in 1 .. block  BY <1>0, <1>2
    <3>2. store'.bond.leafCount \in 1 .. store'.bond.leafCount  BY <2>3, <1>2
    <3>3. store'.lifecycleCalls[count].leafCountAfter \in 1 .. store'.bond.leafCount  BY <3>2, <2>3
    <3>4. LeavesAt(block)' = LeavesAt(block) /\ (Kept(block)' <=> Kept(block))  BY <1>3, <1>4
    <3>5. /\ LeavesAt(store.lifecycleCalls[count].block)' = LeavesAt(block)
          /\ Kept(store.lifecycleCalls[count].block)' <=> Kept(block)
      BY <3>4, <2>3 DEF LeavesAt, CallsUpTo, Kept
    <3>6. QED  BY <3>1, <3>3, <3>5, <2>3, <2>4, <1>2 DEF Walked
  <2>6. ASSUME NEW c \in 0 .. (count - 1)
        PROVE  Walked(c)' /\ InWalkOrder(c, count)'
    <3>1. Walked(c)  BY <1>5
    <3>2. store.lifecycleCalls[c].block \in 1 .. metaBlock /\ store.lifecycleCalls[c].leafCountAfter \in 1 .. store.bond.leafCount
      BY <3>1 DEF Walked
    <3>3. /\ store.lifecycleCalls[c].block \in 1 .. block /\ store.lifecycleCalls[c].block < block
          /\ store.lifecycleCalls[c].leafCountAfter \in 1 .. store'.bond.leafCount
      BY <3>2, <2>3, <1>0, <1>2
    <3>4. Walked(c)'  BY <3>1, <3>3, <2>3, <1>2, <1>3, <1>4 DEF Walked
    <3>5. InWalkOrder(c, count)'  BY <3>2, <3>3, <2>3, <1>2 DEF InWalkOrder
    <3>6. QED  BY <3>4, <3>5
  <2>7. ASSUME NEW c \in 0 .. (count - 1), NEW d \in 0 .. (count - 1), c < d  PROVE InWalkOrder(c, d)'
    BY <2>3, <2>7, <1>5 DEF InWalkOrder
  <2>8. \A c \in 0 .. ((count + 1) - 1) : c \in 0 .. (count - 1) \/ c = count  BY <1>2
  <2>9. \A c, d \in 0 .. ((count + 1) - 1) : c < d => c \in 0 .. (count - 1)  BY <1>2
    <2>10. /\ \A c \in 0 .. ((count + 1) - 1) : Walked(c)'
         /\ \A c, d \in 0 .. ((count + 1) - 1) : c < d => InWalkOrder(c, d)'
    <3>1. \A c \in 0 .. ((count + 1) - 1) : Walked(c)'  BY <2>5, <2>6, <2>8
    <3>2. ASSUME NEW c \in 0 .. ((count + 1) - 1), NEW d \in 0 .. ((count + 1) - 1), c < d
          PROVE  InWalkOrder(c, d)'
      <4>1. c \in 0 .. (count - 1)  BY <2>9, <3>2
      <4>2. CASE d \in 0 .. (count - 1)  BY <4>1, <4>2, <3>2, <2>7
      <4>3. CASE d = count  BY <4>1, <4>3, <2>6
      <4>4. QED  BY <4>2, <4>3, <2>8
    <3>3. QED  BY <3>1, <3>2
  <2>11. QED  BY <1>0, <2>3, <2>10 DEF WalkedInv
<1>8. QED  BY <1>6, <1>7

LEMMA IndexedStep ==
  ASSUME ContractInv, GraphInv, HandledInv, WalkedInv, GraphNext, UNCHANGED bondVars
  PROVE  HandledInv' /\ WalkedInv'
<1>1. bondCalls' = bondCalls  BY DEF bondVars
<1>2. \A b : CallsUpTo(b)' = CallsUpTo(b)  BY <1>1 DEF CallsUpTo
<1>3. CASE CallHandlers
  <2>1. TookCall  BY <1>3, HandlersTakeCalls
  <2>2. deployment = "calls" /\ deployment' = "calls" /\ metaBlock' = metaBlock /\ handled' = handled + 1 /\ handled \in Nat
    BY <2>1, IsSeqFacts DEF TookCall, GraphInv, ContractInv
  <2>3. 1 .. handled \subseteq 1 .. (handled + 1)  BY <2>2
  <2>4. QED  BY <2>2, <2>3, <1>2 DEF HandledInv, WalkedInv
<1>4. CASE FinishBlock
  <2>1. /\ deployment = "calls" /\ deployment' = "calls" /\ metaBlock' = metaBlock + 1 /\ handled' = handled
        /\ CallsUpTo(metaBlock + 1) = 1 .. handled
    BY <1>4 DEF FinishBlock
  <2>2. QED  BY <2>1, <1>2 DEF HandledInv, WalkedInv
<1>5. CASE HandleBlock
  <2>1. deployment' = "blocks"  BY <1>5 DEF HandleBlock
  <2>2. QED  BY <2>1, <1>5, WalkStep DEF HandledInv
<1>6. QED  BY <1>3, <1>4, <1>5 DEF GraphNext, CallHandlers

-----------------------------------------------------------------------------
(* All of it. *)

HistoryInv == ReplayInv /\ LogInv /\ RootsInv /\ HandledInv /\ WalkedInv

LEMMA HistoryStarts ==
  ASSUME Init
  PROVE  HistoryInv
<1>1. ReplayInv /\ LogInv  BY ReplayStarts, LogStarts
<1>2. /\ bondCalls = <<>> /\ store.bond.callCount = 0 /\ handled = 0
  BY DEF Init, BondInit, GraphInit, EmptyStore
<1>3. RootsInv  BY <1>2 DEF RootsInv
<1>4. HandledInv  BY <1>2 DEF HandledInv, CallsUpTo
<1>5. WalkedInv  BY <1>2 DEF WalkedInv
<1>6. QED  BY <1>1, <1>3, <1>4, <1>5 DEF HistoryInv

LEMMA HistoryStep ==
  ASSUME HistoryInv, [Next]_vars
  PROVE  HistoryInv'
<1>1. ReplayInv' /\ LogInv'  BY ReplayStep, LogStep DEF HistoryInv
<1>2. ContractInv /\ GraphInv /\ RootsInv /\ HandledInv /\ WalkedInv /\ ContractInv'
  BY <1>1 DEF HistoryInv, ReplayInv
<1>3. CASE BondNext /\ UNCHANGED graphVars
  <2>1. Grows  BY <1>2, <1>3, ContractStep
  <2>2. QED  BY <2>1, <1>1, <1>2, <1>3, RootsStep, IndexedKept DEF HistoryInv
<1>4. CASE GraphNext /\ UNCHANGED bondVars
  <2>1. RootsInv'  BY <1>2, <1>4, RootsKept DEF bondVars
  <2>2. QED  BY <2>1, <1>1, <1>2, <1>4, IndexedStep DEF HistoryInv
<1>5. CASE UNCHANGED <<bondVars, graphVars>>
  <2>1. RootsInv'  BY <1>2, <1>5, RootsKept DEF bondVars
  <2>2. Grows  BY <1>2, <1>5, IsSeqFacts DEF Grows, ContractInv, bondVars
  <2>3. QED  BY <2>1, <2>2, <1>1, <1>2, <1>5, IndexedKept DEF HistoryInv
<1>6. QED
  <2>1. CASE Fetch \/ Reconcile  BY <2>1, <1>5 DEF Fetch, Reconcile
  <2>2. CASE UNCHANGED vars  BY <2>2, <1>5 DEF vars
  <2>3. QED  BY <2>1, <2>2, <1>3, <1>4 DEF Next

\* The inductive invariant behind what follows: at every moment the tables hold
\* the contract's calls up to the block indexed, and every root the contract
\* accepted is the root of a beginning of its leaves.
THEOREM HistoryInvariance == Spec => []HistoryInv
<1>1. Init => HistoryInv  BY HistoryStarts
<1>2. HistoryInv /\ [Next]_vars => HistoryInv'  BY HistoryStep
<1>3. QED  BY <1>1, <1>2, PTL DEF Spec

-----------------------------------------------------------------------------
(* The served log. *)

LEMMA MirrorsCalls ==
  ASSUME ReplayInv, LogInv
  PROVE  LogMirrorsCalls
<1> DEFINE count == store.bond.leafCount
<1>1. /\ ContractInv /\ WellFilled(store) /\ count \in Nat
      /\ \A k \in 0 .. (count - 1) : store.commitments[k].value = k + 1
      /\ DOMAIN store.nullifiers = 1 .. store.bond.nullifierCount
  BY DEF ReplayInv, GraphInv, WellFilled
<1>2. ServedLeaves = CountUp(count)
  <2>1. \A k \in 1 .. count : store.commitments[k - 1].value = k
    <3>1. ASSUME NEW k \in 1 .. count  PROVE store.commitments[k - 1].value = k
      <4>1. k - 1 \in 0 .. (count - 1) /\ (k - 1) + 1 = k  BY <1>1
      <4>2. QED  BY <4>1, <1>1
    <3>2. QED  BY <3>1
  <2>2. QED  BY <2>1 DEF ServedLeaves, CountUp
<1>3. ASSUME deployment = "blocks"  PROVE IsPrefix(ServedLeaves, LeavesAt(metaBlock))
  <2> DEFINE n == Len(LeavesAt(metaBlock))
  <2>1. n \in Nat /\ LeavesAt(metaBlock) = CountUp(n)  BY <1>1, LeavesAtFacts
  <2>2. count <= n  BY <1>3 DEF ReplayInv, GraphInv
  <2> HIDE DEF n, count
  <2>3. /\ CountUp(count) \in Seq(Nat) /\ Len(CountUp(count)) = count
        /\ CountUp(n) \in Seq(Nat) /\ Len(CountUp(n)) = n
    BY <1>1, <2>1, CountUpFacts
  <2>4. \A i \in 1 .. count : CountUp(count)[i] = CountUp(n)[i]  BY <1>1, <2>1, <2>2 DEF CountUp
  <2>5. SubSeq(CountUp(count), 1, count) = SubSeq(CountUp(n), 1, count)
    BY <1>1, <2>1, <2>2, <2>3, <2>4
  <2>6. QED  BY <1>2, <2>1, <2>2, <2>3, <2>5 DEF IsPrefix
<1>4. ASSUME deployment = "calls"
      PROVE  /\ ServedLeaves = LeavesAfter(handled)
             /\ DOMAIN store.nullifiers = ToSet(SpentAfter(handled))
  <2>1. /\ Leaves(handled) \in Nat /\ LeavesAfter(handled) = CountUp(Leaves(handled))
        /\ Spent(handled) \in Nat /\ SpentAfter(handled) = CountUp(Spent(handled))
        /\ count = Leaves(handled) /\ store.bond.nullifierCount = Spent(handled)
    BY <1>4 DEF ReplayInv, GraphInv, ContractInv, ArraysInv
  <2>2. QED  BY <1>1, <1>2, <2>1, CountedUp
<1>5. ASSUME deployment = "calls", NEW i \in 1 .. handled
      PROVE  /\ store.lifecycleCalls[i - 1].fn = bondCalls[i].fn
             /\ ServedCountAfter(i) = Len(LeavesAfter(i))
             /\ \A k \in (Len(LeavesAfter(i - 1)) + 1) .. ServedCountAfter(i) :
                  store.commitments[k - 1].call = i - 1
             /\ ServedRoots(i - 1) = RootsCitedBy(bondCalls[i])
  <2>1. Entered(i)  BY <1>5 DEF LogInv
  <2>2. Leaves(i) \in Nat /\ Leaves(i - 1) \in Nat
    <3>1. i \in 0 .. Len(bondCalls) /\ i - 1 \in 0 .. Len(bondCalls)
      BY IsSeqFacts DEF ReplayInv, GraphInv, ContractInv
    <3>2. QED  BY <3>1 DEF ReplayInv, ContractInv, ArraysInv
  <2>3. ServedCountAfter(i) = Leaves(i)  BY <2>1 DEF Entered, ServedCountAfter
  <2>4. ASSUME NEW k \in (Leaves(i - 1) + 1) .. Leaves(i)  PROVE store.commitments[k - 1].call = i - 1
    <3>1. k - 1 \in Leaves(i - 1) .. (Leaves(i) - 1)  BY <2>2
    <3>2. QED  BY <3>1, <2>1 DEF Entered
  <2>5. ServedRoots(i - 1) = RootsCitedBy(bondCalls[i])  BY <2>1 DEF Entered, ServedRoots, RootsIn
  <2>6. QED  BY <2>1, <2>3, <2>4, <2>5 DEF Entered, Leaves
<1>6. QED  BY <1>3, <1>4, <1>5 DEF LogMirrorsCalls

LEMMA FirstLeaves ==
  ASSUME NEW n \in Nat, NEW m \in 0 .. n
  PROVE  SubSeq(CountUp(n), 1, m) = CountUp(m)
<1>1. SubSeq(CountUp(n), 0 + 1, m) = OnFrom(0, m - 0)
  <2>1. 0 \in Nat /\ m \in Nat /\ 0 <= m /\ m <= n  OBVIOUS
  <2>2. QED  BY <2>1, SubSeqCount
<1>2. OnFrom(0, m - 0) = CountUp(m)  BY DEF OnFrom, CountUp
<1>3. 0 + 1 = 1  OBVIOUS
<1>4. QED  BY <1>1, <1>2, <1>3

\* The first m leaves rebuild to what the contract anchored for them.
LEMMA RootOfFirstLeaves ==
  ASSUME NEW n \in Nat, NEW m \in 1 .. n
  PROVE  BuildMerkleRoot(SubSeq(CountUp(n), 1, m)) = AnchoredRoot(CountUp(m))
<1>1. SubSeq(CountUp(n), 1, m) = CountUp(m)  BY FirstLeaves
<1>2. CountUp(m) \in Seq(Nat) /\ Len(CountUp(m)) = m  BY CountUpFacts
<1>3. Len(CountUp(m)) \in Nat \ {0} /\ DOMAIN CountUp(m) = 1 .. Len(CountUp(m))  BY <1>2
<1>4. BuildMerkleRoot(CountUp(m)) = AnchoredRoot(CountUp(m))  BY <1>3, MerkleRootIsAnchored
<1>5. QED  BY <1>1, <1>4

LEMMA CitedAreReplayed ==
  ASSUME HistoryInv
  PROVE  CitedRootsReplayed
<1> SUFFICES ASSUME deployment = "calls", NEW i \in 1 .. handled, NEW root \in RootsCitedBy(bondCalls[i])
             PROVE  \E j \in 1 .. (i - 1) :
                      root = BuildMerkleRoot(SubSeq(ServedLeaves, 1, ServedCountAfter(j)))
  BY DEF CitedRootsReplayed
<1>1. ContractInv /\ GraphInv /\ LogInv /\ RootsInv /\ ReplayInv  BY DEF HistoryInv, ReplayInv
<1>2. handled \in 0 .. Len(bondCalls) /\ Len(bondCalls) \in Nat
  BY <1>1, IsSeqFacts DEF GraphInv, ContractInv
<1>3. root \in KnownRootsAfter(i - 1)  BY <1>1, <1>2 DEF RootsInv
<1>4. PICK j \in 1 .. (i - 1) : root = AnchoredRoot(LeavesAfter(j))  BY <1>3 DEF KnownRootsAfter
<1>5. j \in 1 .. handled /\ j \in 1 .. Len(bondCalls) /\ j \in 0 .. Len(bondCalls)
      /\ handled \in 0 .. Len(bondCalls) /\ j <= handled
  BY <1>2
<1>6. ServedLeaves = CountUp(Leaves(handled)) /\ Leaves(handled) \in Nat
  <2>1. ServedLeaves = LeavesAfter(handled)  BY <1>1, MirrorsCalls DEF LogMirrorsCalls
  <2>2. QED  BY <2>1, <1>1, <1>5 DEF ContractInv, ArraysInv
<1>7. ServedCountAfter(j) = Leaves(j)
  BY <1>1, <1>5 DEF LogInv, Entered, ServedCountAfter
<1>8. Leaves(j) \in 1 .. Leaves(handled) /\ LeavesAfter(j) = CountUp(Leaves(j))
  <2>1. Leaves(j) \in Nat /\ LeavesAfter(j) = CountUp(Leaves(j)) /\ Leaves(j) <= Leaves(handled)
    BY <1>1, <1>5 DEF ContractInv, ArraysInv
  <2>2. Leaves(j) # 0  BY <1>1, <1>5 DEF RootsInv
  <2>3. QED  BY <2>1, <2>2, <1>6
<1>9. BuildMerkleRoot(SubSeq(ServedLeaves, 1, ServedCountAfter(j))) = AnchoredRoot(LeavesAfter(j))
  BY <1>6, <1>7, <1>8, RootOfFirstLeaves
<1>10. QED  BY <1>4, <1>9

(***************************************************************************)
(* The subgraph's call handlers serve the contract's history: every leaf   *)
(* at its place and under the call that appended it, the leaf count after  *)
(* each call, every note spent and every root cited.  The block walk       *)
(* serves the beginning of the array.                                      *)
(***************************************************************************)
THEOREM LogAlwaysMirrorsCalls == Spec => []LogMirrorsCalls
<1>1. HistoryInv => LogMirrorsCalls  BY MirrorsCalls DEF HistoryInv
<1>2. QED  BY <1>1, HistoryInvariance, PTL

(***************************************************************************)
(* The served log is that history with the roots it stands for: rebuilding *)
(* it up to each earlier call (buildMerkleRoot over the mappings' rows)    *)
(* gives every root a transfer, burn or swap cited.                        *)
(***************************************************************************)
THEOREM ServedLogIsHistory == Spec => []ServedLogExact
<1>1. HistoryInv => ServedLogExact  BY MirrorsCalls, CitedAreReplayed DEF HistoryInv, ServedLogExact
<1>2. QED  BY <1>1, HistoryInvariance, PTL

-----------------------------------------------------------------------------
(* What root replay alone binds. *)

LEMMA CallsUpToAre ==
  ASSUME ContractInv, NEW b \in Nat
  PROVE  CallsUpTo(b) = 1 .. Cardinality(CallsUpTo(b)) /\ Cardinality(CallsUpTo(b)) \in 0 .. Len(bondCalls)
<1>1. Len(bondCalls) \in Nat /\ DOMAIN bondCalls = 1 .. Len(bondCalls)  BY IsSeqFacts DEF ContractInv
<1>2. CallsUpTo(b) \in SUBSET (1 .. Len(bondCalls))  BY <1>1 DEF CallsUpTo
<1>3. ASSUME NEW i \in CallsUpTo(b)  PROVE 1 .. i \subseteq CallsUpTo(b)
  <2>1. ASSUME NEW j \in 1 .. i  PROVE j \in CallsUpTo(b)
    <3>1. i \in 1 .. Len(bondCalls) /\ j \in 1 .. Len(bondCalls) /\ j <= i  BY <1>1, <1>2
    <3>2. bondCalls[j].block <= bondCalls[i].block  BY <3>1 DEF ContractInv, ArraysInv
    <3>3. bondCalls[j].block \in 1 .. head /\ bondCalls[i].block \in 1 .. head  BY <3>1 DEF ContractInv, CallInv
    <3>4. bondCalls[i].block <= b  BY DEF CallsUpTo
    <3>5. bondCalls[j].block <= b  BY <3>2, <3>3, <3>4
    <3>6. QED  BY <3>1, <3>5, <1>1 DEF CallsUpTo
  <2>2. QED  BY <2>1
<1>4. QED  BY <1>1, <1>2, <1>3, DownwardClosed

LEMMA KnownRootBinds ==
  ASSUME HistoryInv, NEW served, IsSeq(served), NEW c \in 1 .. Len(served), NEW block \in Nat,
         BuildMerkleRoot(SubSeq(served, 1, c)) \in KnownRoots(block)
  PROVE  \E i \in CallsUpTo(block) :
           /\ Leaves(i) \in 1 .. c
           /\ \A k \in 1 .. Leaves(i) : served[k] = k
           /\ \A k \in 1 .. c : served[k] \in 1 .. Leaves(i)
<1>1. PICK S : served \in Seq(S)  BY DEF IsSeq
<1>2. Len(served) \in Nat /\ c \in Nat \ {0}  BY <1>1
<1>3. PICK A : A = SubSeq(served, 1, c)  OBVIOUS
<1>4. Len(A) = c /\ DOMAIN A = 1 .. c /\ \A k \in 1 .. c : A[k] = served[k]  BY <1>1, <1>2, <1>3
<1>5. PICK i \in 1 .. Cardinality(CallsUpTo(block)) : BuildMerkleRoot(A) = AnchoredRoot(LeavesAfter(i))
  BY <1>3 DEF KnownRoots, KnownRootsAfter
<1>6. i \in CallsUpTo(block) /\ i \in 1 .. Len(bondCalls)
  <2>1. CallsUpTo(block) = 1 .. Cardinality(CallsUpTo(block)) /\ CallsUpTo(block) \subseteq 1 .. Len(bondCalls)
    BY CallsUpToAre, CallsUpToFacts DEF HistoryInv, ReplayInv
  <2>2. QED  BY <1>5, <2>1
<1>7. LeavesAfter(i) = CountUp(Leaves(i)) /\ Leaves(i) \in Nat \ {0}
  <2>1. i \in 0 .. Len(bondCalls)  BY <1>6
  <2>2. LeavesAfter(i) = CountUp(Leaves(i)) /\ Leaves(i) \in Nat
    BY <2>1 DEF HistoryInv, ReplayInv, ContractInv, ArraysInv
  <2>3. Leaves(i) # 0  BY <1>6 DEF HistoryInv, RootsInv
  <2>4. QED  BY <2>2, <2>3
<1>8. AnchoredRoot(A) = AnchoredRoot(CountUp(Leaves(i)))
  <2>1. BuildMerkleRoot(A) = AnchoredRoot(A)  BY <1>2, <1>4, MerkleRootIsAnchored
  <2>2. QED  BY <2>1, <1>5, <1>7
<1>9. /\ Leaves(i) <= c
      /\ \A k \in 1 .. Leaves(i) : A[k] = k
      /\ \A k \in 1 .. c : A[k] \in 1 .. Leaves(i)
  BY <1>2, <1>4, <1>7, <1>8, RootBinds
<1>10. \A k \in 1 .. Leaves(i) : k \in 1 .. c  BY <1>2, <1>7, <1>9
<1>11. QED  BY <1>4, <1>6, <1>7, <1>9, <1>10

(***************************************************************************)
(* reconcile without --verify-onchain: whoever tampers, a PASS binds the   *)
(* records up to each boundary whose root was rebuilt to all the leaves of *)
(* some call, followed by nothing but repeats of them.                     *)
(***************************************************************************)
THEOREM RootReplayAlwaysBinds == Spec => []RootReplayBinds
<1>1. HistoryInv => RootReplayBinds
  <2> SUFFICES ASSUME HistoryInv, report # <<>>, report[1].pass, BondAsked,
                      NEW c \in ToSet(Boundaries(bundle[1].answer, report[1].disclosure.counts))
               PROVE  \E leaves \in {LeavesAfter(i) : i \in CallsUpTo(report[1].run.block)} :
                        /\ IsPrefix(leaves, Accounted)
                        /\ \A k \in (Len(leaves) + 1) .. c : Accounted[k] \in ToSet(leaves)
    BY Zenon DEF RootReplayBinds
  <2> DEFINE answer == bundle[1].answer
             run == report[1].run
             disclosure == report[1].disclosure
             served == OrderedCommitments(answer)
             counts == Boundaries(answer, disclosure.counts)
  <2>1. ReplayInv  BY DEF HistoryInv
  <2>2. AnswerOK(answer) /\ Passes(answer, disclosure, run) /\ run.block \in Nat  BY <2>1, ReportFacts
  <2>3. run.rpc /\ ~OfAnother(answer, run)  BY DEF BondAsked, OfAnother
  <2>4. /\ AccountingOK(served, disclosure.entries)
        /\ RootHistoryOK(served, counts)
        /\ RootsKnown(RootHistory(served, counts), run.block)
    BY <2>2, <2>3, PassFacts
  <2>5. Accounted = served /\ IsSeq(served)  BY <2>2, <2>4, AccountedIsServed DEF Accounted
  <2>6. PICK k \in DOMAIN counts : counts[k] = c  BY DEF ToSet
  <2> HIDE DEF served, counts, run
  <2>7. c \in 1 .. Len(served)  BY <2>4, <2>6 DEF RootHistoryOK
  <2>8. BuildMerkleRoot(SubSeq(served, 1, c)) \in KnownRoots(run.block)
    <3>1. k \in DOMAIN RootHistory(served, counts)
          /\ RootHistory(served, counts)[k] = BuildMerkleRoot(SubSeq(served, 1, c))
      BY <2>6 DEF RootHistory
    <3>2. QED  BY <3>1, <2>4 DEF RootsKnown
  <2>9. PICK i \in CallsUpTo(run.block) :
          /\ Leaves(i) \in 1 .. c
          /\ \A j \in 1 .. Leaves(i) : served[j] = j
          /\ \A j \in 1 .. c : served[j] \in 1 .. Leaves(i)
    BY <2>2, <2>5, <2>7, <2>8, KnownRootBinds DEF run
  <2>10. PICK n \in Nat : n = Leaves(i) /\ LeavesAfter(i) = CountUp(n)
    <3>1. i \in 0 .. Len(bondCalls)  BY <2>2, CallsUpToFacts DEF ReplayInv, HistoryInv, run
    <3>2. QED  BY <3>1, <2>1 DEF ReplayInv, ContractInv, ArraysInv
  <2>11. Len(served) \in Nat /\ n \in 1 .. c /\ c \in 1 .. Len(served)  BY <2>5, <2>7, <2>9, <2>10, IsSeqFacts
  <2>12. IsPrefix(CountUp(n), served)
    <3>1. PICK S : served \in Seq(S)  BY <2>5 DEF IsSeq
    <3>2. CountUp(n) \in Seq(Nat) /\ Len(CountUp(n)) = n /\ \A j \in 1 .. n : CountUp(n)[j] = j
      BY CountUpFacts
    <3>3. \A j \in 1 .. n : served[j] = CountUp(n)[j]  BY <3>2, <2>9, <2>10
    <3>4. SubSeq(CountUp(n), 1, n) = SubSeq(served, 1, n)  BY <3>1, <3>2, <3>3, <2>11
    <3>5. QED  BY <3>2, <3>4, <2>11 DEF IsPrefix
  <2>13. \A j \in (Len(CountUp(n)) + 1) .. c : served[j] \in ToSet(CountUp(n))
    <3>1. Len(CountUp(n)) = n /\ ToSet(CountUp(n)) = 1 .. n  BY CountUpFacts, CountedUp
    <3>2. \A j \in (n + 1) .. c : j \in 1 .. c  BY <2>11
    <3>3. QED  BY <3>1, <3>2, <2>9, <2>10
  <2>14. QED  BY <2>5, <2>9, <2>10, <2>12, <2>13 DEF run
<1>2. QED  BY <1>1, HistoryInvariance, PTL

-----------------------------------------------------------------------------
(* The audit of honest parties. *)

LEMMA CallsGrow ==
  ASSUME ContractInv, NEW b \in Nat, NEW c \in Nat, b <= c
  PROVE  CallsUpTo(b) \subseteq CallsUpTo(c)
<1>1. ASSUME NEW i \in DOMAIN bondCalls  PROVE bondCalls[i].block \in Nat
  <2>1. i \in 1 .. Len(bondCalls)  BY IsSeqFacts DEF ContractInv
  <2>2. QED  BY <2>1 DEF ContractInv, CallInv
<1>2. QED  BY <1>1 DEF CallsUpTo

\* The calls served at a pin are those of its blocks.
LEMMA VisibleCalls ==
  ASSUME HistoryInv, deployment = "calls", NEW pin \in 0 .. metaBlock
  PROVE  VisibleAt(store.lifecycleCalls, pin) = 0 .. (Cardinality(CallsUpTo(pin)) - 1)
<1> DEFINE n == Cardinality(CallsUpTo(pin))
<1>1. ContractInv /\ GraphInv /\ LogInv /\ HandledInv  BY DEF HistoryInv, ReplayInv
<1>2. metaBlock \in Nat /\ pin \in Nat /\ pin <= metaBlock  BY <1>1 DEF GraphInv, ContractInv
<1>3. CallsUpTo(pin) = 1 .. n /\ n \in Nat  BY <1>1, <1>2, CallsUpToAre
<1>4. CallsUpTo(pin) \subseteq 1 .. handled  BY <1>1, <1>2, CallsGrow DEF HandledInv
<1>5. /\ handled \in Nat /\ DOMAIN store.lifecycleCalls = 0 .. (handled - 1)
      /\ \A i \in 1 .. handled : store.lifecycleCalls[i - 1].block = bondCalls[i].block /\ i \in DOMAIN bondCalls
  <2>1. handled \in 0 .. Len(bondCalls) /\ DOMAIN bondCalls = 1 .. Len(bondCalls) /\ Len(bondCalls) \in Nat
    BY <1>1, IsSeqFacts DEF GraphInv, ContractInv
  <2>2. store.bond.callCount = handled /\ \A i \in 1 .. handled : Entered(i)  BY <1>1 DEF LogInv
  <2>3. DOMAIN store.lifecycleCalls = 0 .. (store.bond.callCount - 1)  BY <1>1 DEF GraphInv, WellFilled
  <2>4. QED  BY <2>1, <2>2, <2>3 DEF Entered
<1> HIDE DEF n
<1>6. ASSUME NEW c \in 0 .. (handled - 1)
      PROVE  store.lifecycleCalls[c].block <= pin <=> c \in 0 .. (n - 1)
  <2>1. c + 1 \in 1 .. handled /\ (c + 1) - 1 = c  BY <1>5
  <2>2. store.lifecycleCalls[c].block = bondCalls[c + 1].block /\ c + 1 \in DOMAIN bondCalls  BY <2>1, <1>5
  <2>3. bondCalls[c + 1].block <= pin <=> c + 1 \in CallsUpTo(pin)  BY <2>2 DEF CallsUpTo
  <2>4. c + 1 \in 1 .. n <=> c \in 0 .. (n - 1)  BY <1>3, <2>1
  <2>5. QED  BY <2>2, <2>3, <2>4, <1>3
<1>7. 0 .. (n - 1) \subseteq 0 .. (handled - 1)
  <2>1. ASSUME NEW c \in 0 .. (n - 1)  PROVE c \in 0 .. (handled - 1)
    <3>1. c + 1 \in 1 .. n  BY <1>3
    <3>2. c + 1 \in 1 .. handled  BY <3>1, <1>3, <1>4
    <3>3. QED  BY <3>2, <1>5
  <2>2. QED  BY <2>1
<1>8. VisibleAt(store.lifecycleCalls, pin) = {c \in 0 .. (handled - 1) : store.lifecycleCalls[c].block <= pin}
  BY <1>5 DEF VisibleAt
<1>9. QED  BY <1>6, <1>7, <1>8 DEF n

\* The rows the walk serves at a pin are the first ones.
LEMMA VisibleRows ==
  ASSUME HistoryInv, deployment = "blocks", NEW pin \in 0 .. metaBlock
  PROVE  \E n \in Nat : VisibleAt(store.lifecycleCalls, pin) = 0 .. (n - 1)
<1> DEFINE count == store.bond.callCount
           C == {c \in 1 .. count : store.lifecycleCalls[c - 1].block <= pin}
<1>1. ContractInv /\ GraphInv /\ WalkedInv  BY DEF HistoryInv, ReplayInv
<1>2. metaBlock \in Nat /\ pin \in Nat /\ count \in Nat /\ DOMAIN store.lifecycleCalls = 0 .. (count - 1)
  BY <1>1 DEF GraphInv, ContractInv, WellFilled
<1>3. ASSUME NEW c \in 0 .. (count - 1), NEW d \in 0 .. (count - 1), d <= c
      PROVE  store.lifecycleCalls[c].block <= pin => store.lifecycleCalls[d].block <= pin
  <2>1. store.lifecycleCalls[c].block \in 1 .. metaBlock /\ store.lifecycleCalls[d].block \in 1 .. metaBlock
    BY <1>1 DEF WalkedInv, Walked
  <2>2. d < c => store.lifecycleCalls[d].block < store.lifecycleCalls[c].block
    BY <1>1 DEF WalkedInv, InWalkOrder
  <2>3. d = c \/ d < c  BY <1>2, <1>3
  <2>4. QED  BY <2>1, <2>2, <2>3, <1>2
<1> HIDE DEF count
<1>4. C \in SUBSET (1 .. count)  OBVIOUS
<1>5. ASSUME NEW i \in C  PROVE 1 .. i \subseteq C
  <2>1. ASSUME NEW j \in 1 .. i  PROVE j \in C
    <3>1. i - 1 \in 0 .. (count - 1) /\ j - 1 \in 0 .. (count - 1) /\ j - 1 <= i - 1 /\ j \in 1 .. count
      BY <1>2
    <3>2. QED  BY <3>1, <1>3
  <2>2. QED  BY <2>1
<1>6. PICK n \in Nat : C = 1 .. n
  <2> HIDE DEF C
  <2>1. C = 1 .. Cardinality(C) /\ Cardinality(C) \in 0 .. count  BY <1>2, <1>4, <1>5, DownwardClosed
  <2>2. QED  BY <2>1, <1>2
<1>7. ASSUME NEW c
      PROVE  c \in VisibleAt(store.lifecycleCalls, pin) <=> c \in 0 .. (n - 1)
  <2>1. c \in VisibleAt(store.lifecycleCalls, pin) <=> c \in 0 .. (count - 1) /\ store.lifecycleCalls[c].block <= pin
    BY <1>2 DEF VisibleAt
  <2>2. ASSUME c \in Int  PROVE c \in 0 .. (n - 1) <=> c \in 0 .. (count - 1) /\ store.lifecycleCalls[c].block <= pin
    <3>1. (c + 1) - 1 = c /\ (c \in 0 .. (n - 1) <=> c + 1 \in 1 .. n)
          /\ (c \in 0 .. (count - 1) <=> c + 1 \in 1 .. count)
      BY <1>2, <2>2
    <3>2. c + 1 \in C <=> c + 1 \in 1 .. count /\ store.lifecycleCalls[c].block <= pin  BY <3>1
    <3>3. QED  BY <3>1, <3>2, <1>6
  <2>3. QED  BY <2>1, <2>2
<1>8. QED  BY <1>7

\* Boundaries after calls of the pinned blocks, in order.
OfCalls(counts, pin) ==
  /\ \A k \in DOMAIN counts : \E i \in CallsUpTo(pin) : counts[k] = Leaves(i)
  /\ Monotone(counts)

LEMMA CountsOfCalls ==
  ASSUME HistoryInv, NEW pin \in 0 .. metaBlock, Kept(pin)
  PROVE  /\ OfCalls(CallCounts(pin), pin)
         /\ \E S : CallCounts(pin) \in Seq(S)
<1>1. ContractInv /\ GraphInv /\ LogInv /\ RootsInv /\ HandledInv /\ WalkedInv /\ WellFilled(store)
  BY DEF HistoryInv, ReplayInv, GraphInv
<1>2. metaBlock \in Nat /\ pin \in Nat /\ metaBlock < head /\ head \in Nat  BY <1>1 DEF GraphInv, ContractInv
<1>3. PICK n \in Nat : VisibleAt(store.lifecycleCalls, pin) = 0 .. (n - 1)
  <2>1. CASE deployment = "calls"
    <3>1. Cardinality(CallsUpTo(pin)) \in Nat  BY <1>1, CallsUpToFacts
    <3>2. QED  BY <2>1, <3>1, VisibleCalls
  <2>2. CASE deployment = "blocks"  BY <2>2, VisibleRows
  <2>3. QED  BY <2>1, <2>2, <1>1 DEF GraphInv
<1>4. CallCounts(pin) = [k \in 1 .. n |-> store.lifecycleCalls[k - 1].leafCountAfter]
  <2>1. InOrder(VisibleAt(store.lifecycleCalls, pin)) = [k \in 1 .. n |-> k - 1]  BY <1>3, InOrderOfFirst
  <2>2. QED  BY <2>1 DEF CallCounts
<1>5. \A k \in 1 .. n : /\ k - 1 \in 0 .. (store.bond.callCount - 1)
                        /\ store.lifecycleCalls[k - 1].block <= pin
  <2>1. \A k \in 1 .. n : k - 1 \in 0 .. (n - 1)  OBVIOUS
  <2>2. DOMAIN store.lifecycleCalls = 0 .. (store.bond.callCount - 1)  BY <1>1 DEF WellFilled
  <2>3. QED  BY <2>1, <2>2, <1>3 DEF VisibleAt
<1>6. ASSUME NEW k \in 1 .. n
      PROVE  \E i \in CallsUpTo(pin) : store.lifecycleCalls[k - 1].leafCountAfter = Leaves(i)
  <2>1. CASE deployment = "calls"
    <3>1. n \in Nat /\ VisibleAt(store.lifecycleCalls, pin) = 0 .. (Cardinality(CallsUpTo(pin)) - 1)
      BY <2>1, VisibleCalls
    <3>2. CallsUpTo(pin) = 1 .. Cardinality(CallsUpTo(pin)) /\ Cardinality(CallsUpTo(pin)) \in Nat
      BY <1>1, <1>2, CallsUpToAre, IsSeqFacts DEF ContractInv
    <3>3. k - 1 \in 0 .. (Cardinality(CallsUpTo(pin)) - 1)
      <4>1. k - 1 \in 0 .. (n - 1)  OBVIOUS
      <4>2. QED  BY <4>1, <3>1, <1>3
    <3>4. k \in CallsUpTo(pin)  BY <3>2, <3>3
    <3>5. Entered(k)
      <4>1. store.bond.callCount = handled /\ handled \in Nat
        BY <2>1, <1>1, IsSeqFacts DEF LogInv, GraphInv, ContractInv
      <4>2. k \in 1 .. handled  BY <4>1, <1>5
      <4>3. QED  BY <2>1, <4>2, <1>1 DEF LogInv
    <3>6. QED  BY <3>4, <3>5 DEF Entered
  <2>2. CASE deployment = "blocks"
    <3>1. PICK b : b = store.lifecycleCalls[k - 1].block  OBVIOUS
    <3>2. Walked(k - 1)  BY <2>2, <1>1, <1>5 DEF WalkedInv
    <3>3. b \in 1 .. metaBlock /\ b <= pin /\ b \in Nat  BY <3>1, <3>2, <1>2, <1>5 DEF Walked
    <3>4. Kept(b)
      <4>1. \A c \in 1 .. b : c \in 1 .. pin  BY <3>3, <1>2
      <4>2. QED  BY <4>1 DEF Kept
    <3>5. /\ store.lifecycleCalls[k - 1].leafCountAfter = Len(LeavesAt(b))
          /\ store.lifecycleCalls[k - 1].leafCountAfter # 0
      BY <3>1, <3>2, <3>4 DEF Walked
    <3>6. PICK i : i = Cardinality(CallsUpTo(b))  OBVIOUS
    <3>7. Len(LeavesAt(b)) = Leaves(i)  BY <3>6 DEF LeavesAt, Leaves
    <3>8. i \in Nat /\ CallsUpTo(b) = 1 .. i
      BY <3>3, <3>6, <1>1, CallsUpToAre, IsSeqFacts DEF ContractInv
    <3>9. i # 0
      <4>1. Leaves(0) = 0  BY DEF Leaves, LeavesAfter
      <4>2. QED  BY <4>1, <3>5, <3>7
    <3>10. i \in CallsUpTo(b)  BY <3>8, <3>9
    <3>11. i \in CallsUpTo(pin)  BY <3>3, <3>10, <1>1, <1>2, CallsGrow
    <3>12. QED  BY <3>5, <3>7, <3>11
  <2>3. QED  BY <2>1, <2>2, <1>1 DEF GraphInv
<1>7. ASSUME NEW k \in 1 .. n, NEW l \in 1 .. n, k < l
      PROVE  store.lifecycleCalls[k - 1].leafCountAfter <= store.lifecycleCalls[l - 1].leafCountAfter
  <2>1. CASE deployment = "calls"
    <3>1. store.bond.callCount = handled /\ handled \in 0 .. Len(bondCalls) /\ Len(bondCalls) \in Nat
      BY <2>1, <1>1, IsSeqFacts DEF LogInv, GraphInv, ContractInv
    <3>2. k - 1 \in 0 .. (handled - 1) /\ l - 1 \in 0 .. (handled - 1)  BY <3>1, <1>5
    <3>3. k \in 1 .. handled /\ l \in 1 .. handled /\ k \in 0 .. Len(bondCalls) /\ l \in 0 .. Len(bondCalls)
      BY <3>1, <3>2
    <3>4. Entered(k) /\ Entered(l)  BY <2>1, <3>3, <1>1 DEF LogInv
    <3>5. Leaves(k) <= Leaves(l)
      <4>1. k <= l  BY <1>7
      <4>2. QED  BY <4>1, <3>3, <1>1 DEF ContractInv, ArraysInv
    <3>6. QED  BY <3>4, <3>5 DEF Entered
  <2>2. CASE deployment = "blocks"
    <3>1. k - 1 < l - 1  BY <1>7
    <3>2. InWalkOrder(k - 1, l - 1)  BY <2>2, <3>1, <1>1, <1>5 DEF WalkedInv
    <3>3. QED  BY <3>2 DEF InWalkOrder
  <2>3. QED  BY <2>1, <2>2, <1>1 DEF GraphInv
<1>8. OfCalls(CallCounts(pin), pin)  BY <1>4, <1>6, <1>7 DEF OfCalls, Monotone
<1>9. CallCounts(pin) \in Seq({store.lifecycleCalls[k - 1].leafCountAfter : k \in 1 .. n})
  <2>1. CallCounts(pin) \in [1 .. n -> {store.lifecycleCalls[k - 1].leafCountAfter : k \in 1 .. n}]  BY <1>4
  <2>2. QED  BY <2>1, SeqDef
<1>10. QED  BY <1>8, <1>9

\* Whichever counts are taken, the served ones or the manifest's.
LEMMA HonestCounts ==
  ASSUME HistoryInv, NEW pin \in 0 .. metaBlock, Kept(pin), ParseOK(AuditAnswer(pin))
  PROVE  /\ OfCalls(Boundaries(AuditAnswer(pin), HonestDisclosure(pin).counts), pin)
         /\ Monotone(AuditAnswer(pin).counts) /\ IsSeq(AuditAnswer(pin).counts)
<1>1. ContractInv /\ pin \in Nat  BY DEF HistoryInv, ReplayInv, GraphInv, ContractInv
<1>2. AuditAnswer(pin).counts = CallCounts(pin)
  <2>1. AuditAnswer(pin).counts = FirstPage(CallCounts(pin)) /\ Len(FirstPage(CallCounts(pin))) < PAGE_LIMIT
    BY AuditAnswerParts DEF ParseOK
  <2>2. PICK S : CallCounts(pin) \in Seq(S)  BY CountsOfCalls
  <2>3. QED  BY <2>1, <2>2, FirstPageFacts
<1>3. OfCalls(AuditAnswer(pin).counts, pin)  BY <1>2, CountsOfCalls
<1>4. OfCalls(HonestDisclosure(pin).counts, pin)
  <2> DEFINE n == Cardinality(CallsUpTo(pin))
  <2>1. HonestDisclosure(pin).counts = [i \in 1 .. n |-> Leaves(i)]  BY DEF HonestDisclosure, Leaves
  <2>2. CallsUpTo(pin) = 1 .. n /\ CallsUpTo(pin) \subseteq 1 .. Len(bondCalls)
    BY <1>1, CallsUpToAre, CallsUpToFacts
  <2>3. \A i, j \in 1 .. n : i <= j => Leaves(i) <= Leaves(j)
    <3>0. Len(bondCalls) \in Nat  BY <1>1, IsSeqFacts DEF ContractInv
    <3> HIDE DEF n
    <3>1. \A i \in 1 .. n : i \in 1 .. Len(bondCalls)  BY <2>2
    <3>2. \A i \in 1 .. n : i \in 0 .. Len(bondCalls)  BY <3>0, <3>1
    <3>3. QED  BY <3>2, <1>1 DEF ContractInv, ArraysInv
  <2> HIDE DEF n
  <2>4. Monotone(HonestDisclosure(pin).counts)  BY <2>1, <2>3 DEF Monotone
  <2>5. QED  BY <2>1, <2>2, <2>4 DEF OfCalls
<1>5. IsSeq(AuditAnswer(pin).counts)
  <2>1. \E S : CallCounts(pin) \in Seq(S)  BY CountsOfCalls
  <2>2. QED  BY <1>2, <2>1 DEF IsSeq
<1>6. QED  BY <1>3, <1>4, <1>5 DEF Boundaries, OfCalls

\* What such boundaries rebuild was anchored, and is known from the pin on.
LEMMA CallBoundariesRebuild ==
  ASSUME HistoryInv, NEW pin \in Nat, NEW counts, OfCalls(counts, pin)
  PROVE  /\ RootHistoryOK(LeavesAt(pin), counts)
         /\ \A block \in Nat : block >= pin => RootsKnown(RootHistory(LeavesAt(pin), counts), block)
<1> DEFINE n == Cardinality(CallsUpTo(pin))
           N == Len(LeavesAt(pin))
<1>1. ContractInv /\ RootsInv  BY DEF HistoryInv, ReplayInv
<1>2. N \in Nat /\ LeavesAt(pin) = CountUp(N) /\ N = Leaves(n)
  BY <1>1, LeavesAtFacts DEF LeavesAt, Leaves
<1>3. CallsUpTo(pin) = 1 .. n /\ n \in 0 .. Len(bondCalls) /\ Len(bondCalls) \in Nat
  BY <1>1, CallsUpToAre, IsSeqFacts DEF ContractInv
<1> HIDE DEF n, N
<1>4. ASSUME NEW k \in DOMAIN counts
      PROVE  \E i \in CallsUpTo(pin) : /\ counts[k] = Leaves(i) /\ Leaves(i) \in 1 .. N
                                       /\ LeavesAfter(i) = CountUp(Leaves(i))
  <2>1. PICK i \in CallsUpTo(pin) : counts[k] = Leaves(i)  BY DEF OfCalls
  <2>2. i \in 1 .. Len(bondCalls) /\ i \in 0 .. Len(bondCalls) /\ n \in 0 .. Len(bondCalls) /\ i <= n
    BY <2>1, <1>3
  <2>3. Leaves(i) \in Nat /\ LeavesAfter(i) = CountUp(Leaves(i)) /\ Leaves(i) <= N
    BY <2>2, <1>1, <1>2 DEF ContractInv, ArraysInv
  <2>4. Leaves(i) # 0  BY <2>2, <1>1 DEF RootsInv
  <2>5. QED  BY <2>1, <2>3, <2>4, <1>2
<1>5. RootHistoryOK(LeavesAt(pin), counts)  BY <1>4 DEF RootHistoryOK, N
<1>6. ASSUME NEW block \in Nat, block >= pin, NEW k \in DOMAIN counts
      PROVE  BuildMerkleRoot(SubSeq(LeavesAt(pin), 1, counts[k])) \in KnownRoots(block)
  <2>1. PICK i \in CallsUpTo(pin) : /\ counts[k] = Leaves(i) /\ Leaves(i) \in 1 .. N
                                    /\ LeavesAfter(i) = CountUp(Leaves(i))
    BY <1>4
  <2>2. BuildMerkleRoot(SubSeq(LeavesAt(pin), 1, counts[k])) = AnchoredRoot(LeavesAfter(i))
    BY <2>1, <1>2, RootOfFirstLeaves
  <2>3. i \in CallsUpTo(block)  BY <2>1, <1>1, <1>6, CallsGrow
  <2>4. i \in 1 .. Cardinality(CallsUpTo(block))  BY <2>3, <1>1, CallsUpToAre
  <2>5. QED  BY <2>2, <2>4 DEF KnownRoots, KnownRootsAfter
<1>7. QED  BY <1>5, <1>6 DEF RootsKnown, RootHistory

LEMMA DownByOne ==
  ASSUME NEW n \in Nat
  PROVE  {k - 1 : k \in 1 .. n} = 0 .. (n - 1)
<1>1. \A i \in 0 .. (n - 1) : i + 1 \in 1 .. n /\ i = (i + 1) - 1  OBVIOUS
<1>2. \A k \in 1 .. n : k - 1 \in 0 .. (n - 1)  OBVIOUS
<1>3. QED  BY <1>1, <1>2

LEMMA HonestRows ==
  ASSUME ReplayInv, NEW pin \in 0 .. metaBlock, ParseOK(AuditAnswer(pin))
  PROVE  Contiguous(AuditAnswer(pin))
<1> DEFINE list == AuditAnswer(pin).commitments
<1>1. PICK n \in Nat : VisibleAt(store.commitments, pin) = 0 .. (n - 1)  BY DEF ReplayInv, GraphInv, VisibleInv
<1>2. /\ LeafRows(pin) = [k \in 1 .. n |-> [leafIndex |-> k - 1, value |-> k]]
      /\ LeafRows(pin) \in Seq(ServedRow) /\ Len(LeafRows(pin)) = n
  BY <1>1, LeafRowsFacts DEF ReplayInv
<1>3. list = LeafRows(pin)
  <2>1. list = FirstPage(LeafRows(pin)) /\ Len(list) < PAGE_LIMIT  BY AuditAnswerParts DEF ParseOK
  <2>2. QED  BY <1>2, <2>1, FirstPageFacts
<1> HIDE DEF list
<1>4. DOMAIN list = 1 .. n /\ Len(list) = n /\ \A k \in 1 .. n : list[k].leafIndex = k - 1
  <2>1. DOMAIN list = 1 .. n /\ Len(list) = n /\ \A k \in 1 .. n : list[k] = [leafIndex |-> k - 1, value |-> k]
    BY <1>2, <1>3
  <2>2. QED  BY <2>1
<1>5. Indices(AuditAnswer(pin)) = {k - 1 : k \in 1 .. n}  BY <1>4 DEF Indices, list
<1>6. {k - 1 : k \in 1 .. n} = 0 .. (n - 1)  BY DownByOne
<1>7. QED  BY <1>4, <1>5, <1>6 DEF Contiguous, list

\* The chain's side of the audit, which depends on the manifest's counts alone.
LEMMA HonestChainSide ==
  ASSUME HistoryInv, NEW pin \in 0 .. metaBlock, Kept(pin), ParseOK(AuditAnswer(pin)),
         NEW disclosure, disclosure.counts = HonestDisclosure(pin).counts,
         NEW run, run.rpc, run.block \in Nat, run.block >= pin
  PROVE  /\ Readable(AuditAnswer(pin), disclosure)
         /\ CheckOK("roots", AuditAnswer(pin), disclosure, run)
         /\ CheckOK("on chain", AuditAnswer(pin), disclosure, run)
<1> DEFINE answer == AuditAnswer(pin)
           counts == Boundaries(answer, disclosure.counts)
           served == OrderedCommitments(answer)
<1>1. ReplayInv /\ ContractInv /\ pin \in Nat  BY DEF HistoryInv, ReplayInv, GraphInv, ContractInv
<1>2. served = LeavesAt(pin)  BY <1>1, HonestLogExact
<1>3. OfCalls(counts, pin) /\ Monotone(answer.counts)  BY HonestCounts
<1>4. Contiguous(answer)  BY <1>1, HonestRows
<1> HIDE DEF counts, served, answer
<1>5. RootHistoryOK(served, counts) /\ RootsKnown(RootHistory(served, counts), run.block)
  BY <1>1, <1>2, <1>3, CallBoundariesRebuild
<1>6. Readable(answer, disclosure)  BY <1>3, <1>4, <1>5 DEF Readable, counts, served, answer
<1>7. CheckOK("roots", answer, disclosure, run)  BY <1>5 DEF CheckOK, counts, served
<1>8. CrossCheckOK(served, run.block)
  <2>1. PICK m, n \in Nat : /\ m = Len(LeavesAt(pin)) /\ LeavesAt(pin) = CountUp(m)
                            /\ n = Len(LeavesAt(run.block)) /\ LeavesAt(run.block) = CountUp(n)
    BY <1>1, LeavesAtFacts
  <2>2. m <= n  BY <2>1, <1>1, LeavesAtMonotone
  <2>3. QED  BY <2>1, <2>2, <1>2 DEF CrossCheckOK, CountUp
<1>9. CheckOK("on chain", answer, disclosure, run)  BY <1>8 DEF CheckOK, served
<1>10. QED  BY <1>6, <1>7, <1>9 DEF answer

\* The issuer's side of it.
LEMMA HonestEntries ==
  ASSUME NEW pin, NEW leaves, leaves = LeavesAt(pin)
  PROVE  LET entries == HonestDisclosure(pin).entries
         IN /\ DOMAIN entries = DOMAIN leaves
            /\ \A k \in DOMAIN leaves :
                 /\ entries[k].class = "disclosed" \/ entries[k].class = "burn-output-zero"
                 /\ DOMAIN entries[k] = {"class", "commitment", "record"}
                 /\ entries[k].commitment = leaves[k] /\ entries[k].record = leaves[k]
<1> DEFINE entries == HonestDisclosure(pin).entries
<1>1. entries = [k \in DOMAIN leaves |-> IF AppendedByBurn(k) THEN BurnOutputZero(leaves[k])
                                         ELSE Disclosed(leaves[k], leaves[k])]
  BY DEF HonestDisclosure
<1> HIDE DEF entries
<1>2. \A k \in DOMAIN leaves : entries[k] = BurnOutputZero(leaves[k]) \/ entries[k] = Disclosed(leaves[k], leaves[k])
  BY <1>1
<1>3. QED  BY <1>1, <1>2 DEF Disclosed, BurnOutputZero, entries

LEMMA HonestIssuerSide ==
  ASSUME NEW pin, NEW served, served = LeavesAt(pin)
  PROVE  LET entries == HonestDisclosure(pin).entries
         IN RecordsOK(served, entries) /\ ManifestOK(entries) /\ AccountingOK(served, entries)
BY HonestEntries DEF RecordsOK, ManifestOK, AccountingOK, Accounts, IsRecord

(***************************************************************************)
(* fetch and reconcile between honest parties: an auditor whose node has   *)
(* reached the pinned block gets a PASS, however many calls and blocks     *)
(* follow, from the call handlers and from a walk that has kept up.        *)
(***************************************************************************)
THEOREM HonestReplayAlwaysPasses == Spec => []HonestReplayPasses
<1>1. HistoryInv => HonestReplayPasses
  <2> SUFFICES ASSUME HistoryInv, report # <<>>, ServedHonestly, DisclosedHonestly, NodeCaughtUp, BondAsked,
                      WalkKeptUp
               PROVE  report[1].pass
    BY DEF HonestReplayPasses
  <2> DEFINE pin == bundle[1].pin
             answer == AuditAnswer(pin)
             disclosure == HonestDisclosure(pin)
             run == report[1].run
  <2>1. ReplayInv  BY DEF HistoryInv
  <2>2. /\ pin \in 0 .. metaBlock /\ bundle[1].answer = answer /\ ParseOK(answer)
        /\ run.block \in Nat /\ (report[1].pass <=> Passes(answer, disclosure, run))
    BY <2>1, ReportFacts DEF ServedHonestly, DisclosedHonestly
  <2>3. run.rpc /\ run.block >= pin /\ Kept(pin) /\ Asked(answer, run) = "PrivateBond"
    BY <2>2 DEF NodeCaughtUp, BondAsked, WalkKeptUp, Kept
  <2>4. /\ Readable(answer, disclosure)
        /\ CheckOK("roots", answer, disclosure, run) /\ CheckOK("on chain", answer, disclosure, run)
    BY <2>2, <2>3, HonestChainSide
  <2>5. OrderedCommitments(answer) = LeavesAt(pin)  BY <2>1, <2>2, <2>3, HonestLogExact
  <2>6. /\ CheckOK("records", answer, disclosure, run) /\ CheckOK("manifest", answer, disclosure, run)
        /\ CheckOK("accounting", answer, disclosure, run)
    BY <2>5, HonestIssuerSide DEF CheckOK
  <2>7. Opens(answer, run)  BY <2>3 DEF Opens
  <2>8. \A k \in DOMAIN Checks : Checks[k] \in {"records", "manifest", "accounting", "on chain", "roots"}
    <3>1. /\ Checks[1] = "records" /\ Checks[2] = "manifest" /\ Checks[3] = "accounting"
          /\ Checks[4] = "on chain" /\ Checks[5] = "roots"
      BY DEF Checks
    <3>2. DOMAIN Checks = 1 .. 5  BY DEF Checks
    <3> HIDE DEF answer, disclosure, run, pin
    <3>3. \A k \in 1 .. 5 : k = 1 \/ k = 2 \/ k = 3 \/ k = 4 \/ k = 5  OBVIOUS
    <3>4. QED  BY <3>1, <3>2, <3>3
  <2> HIDE DEF answer, disclosure, run
  <2>9. \A k \in DOMAIN Checks : CheckOK(Checks[k], answer, disclosure, run)  BY <2>4, <2>6, <2>8
  <2>10. QED  BY <2>2, <2>4, <2>7, <2>9 DEF Passes
<1>2. QED  BY <1>1, HistoryInvariance, PTL

-----------------------------------------------------------------------------
(* Tripwires: what `tamper' alters, and which check notices.               *)

CaughtInv == ReplayInv /\ CaughtWhereExpected

LEMMA TamperStepIsReplayStep ==
  ASSUME [TamperNext]_tamperVars
  PROVE  [Next]_vars
<1>1. CASE UNCHANGED tamperVars  BY <1>1 DEF tamperVars
<1>2. CASE RunTamper
  <2>1. UNCHANGED vars
    BY <1>2 DEF RunTamper, TripAlteredRecord, TripAlteredResponseByte, TripResignedAlteredAnchors, Ends
  <2>2. QED  BY <2>1
<1>3. CASE demo = <<>> /\ Next /\ UNCHANGED demo  BY <1>3
<1>4. QED  BY <1>1, <1>2, <1>3 DEF TamperNext

(***************************************************************************)
(* tamper works on copies: with it or without it, the chain, the index and *)
(* the two audit commands behave as BondReplay says.                       *)
(***************************************************************************)
THEOREM TamperingIsOutside == TamperSpec => Spec
<1>1. TamperInit => Init  BY DEF TamperInit
<1>2. [TamperNext]_tamperVars => [Next]_vars  BY TamperStepIsReplayStep
<1>3. QED  BY <1>1, <1>2, PTL DEF TamperSpec, Spec

\* The served values are notes, so an altered record is none of them.
LEMMA ServedValues ==
  ASSUME NEW answer, AnswerOK(answer), Contiguous(answer), NEW k \in 1 .. Len(answer.commitments)
  PROVE  OrderedCommitments(answer)[k] \in Nat
<1> DEFINE list == answer.commitments
<1>1. list \in Seq(ServedRow) /\ Len(list) \in Nat  BY DEF AnswerOK
<1>2. k - 1 \in Indices(answer)  BY <1>1 DEF Contiguous
<1>3. PICK i \in DOMAIN list : list[i].leafIndex = k - 1  BY <1>2 DEF Indices
<1>4. \A row \in ToSet(list) : row \in ServedRow  BY <1>1 DEF ToSet
<1>5. list[i] \in ToSet(list)  BY <1>3 DEF ToSet
<1> DEFINE row == CHOOSE row \in ToSet(list) : row.leafIndex = k - 1
<1>6. row \in ToSet(list)  BY <1>3, <1>5
<1>7. OrderedCommitments(answer)[k] = row.value  BY DEF OrderedCommitments
<1> HIDE DEF row
<1>8. QED  BY <1>4, <1>6, <1>7 DEF ServedRow

\* Every disclosure tampered with lists entries that have a record.
LEMMA EntriesHaveRecords ==
  ASSUME NEW disclosure,
         disclosure = HonestDisclosure(bundle[1].pin)
           \/ disclosure \in FittingDisclosures(bundle[1].pin, bundle[1].answer),
         NEW k \in DOMAIN disclosure.entries
  PROVE  "entries" \in DOMAIN disclosure /\ "record" \in DOMAIN disclosure.entries[k]
<1>1. CASE disclosure = HonestDisclosure(bundle[1].pin)
  BY <1>1 DEF HonestDisclosure, Disclosed, BurnOutputZero
<1>2. CASE disclosure \in FittingDisclosures(bundle[1].pin, bundle[1].answer)
  <2> DEFINE served == OrderedCommitments(bundle[1].answer)
  <2>1. PICK c : disclosure = [entries |-> [j \in DOMAIN served |-> Disclosed(served[j], served[j])], counts |-> c]
    BY <1>2 DEF FittingDisclosures
  <2> HIDE DEF served
  <2>2. QED  BY <2>1 DEF Disclosed
<1>3. QED  BY <1>1, <1>2

LEMMA AlteredRecordIsForeign ==
  ASSUME NEW answer, AnswerOK(answer), Contiguous(answer), NEW disclosure, NEW k \in DOMAIN disclosure.entries,
         "entries" \in DOMAIN disclosure, "record" \in DOMAIN disclosure.entries[k],
         IsRecord(disclosure.entries[k])
  PROVE  ~RecordsOK(OrderedCommitments(answer), AlterRecord(disclosure, k).entries)
<1> DEFINE entries == AlterRecord(disclosure, k).entries
<1>1. entries = [disclosure.entries EXCEPT ![k].record = Altered]  BY DEF AlterRecord
<1>2. entries[k] = [disclosure.entries[k] EXCEPT !.record = Altered] /\ k \in DOMAIN entries  BY <1>1
<1>3. entries[k].record = Altered /\ entries[k].class = disclosure.entries[k].class  BY <1>2
<1> HIDE DEF entries
<1>4. SUFFICES ASSUME RecordsOK(OrderedCommitments(answer), entries)  PROVE FALSE  BY DEF entries
<1>5. k \in DOMAIN OrderedCommitments(answer) /\ OrderedCommitments(answer)[k] = -1
  BY <1>2, <1>3, <1>4 DEF RecordsOK, IsRecord, Altered
<1>6. k \in 1 .. Len(answer.commitments)  BY <1>5 DEF OrderedCommitments
<1>7. QED  BY <1>5, <1>6, ServedValues

LEMMA RecordCaught ==
  ASSUME ReplayInv, bundle # <<>>, NEW disclosure, NEW run,
         disclosure = HonestDisclosure(bundle[1].pin)
           \/ disclosure \in FittingDisclosures(bundle[1].pin, bundle[1].answer),
         TripAlteredRecord(disclosure, run)
  PROVE  CaughtWhereExpected'
<1> DEFINE answer == bundle[1].answer
<1>1. AnswerOK(answer)  BY DEF ReplayInv, BundleInv
<1>2. PICK k \in DOMAIN disclosure.entries :
        /\ IsRecord(disclosure.entries[k])
        /\ LET altered == AlterRecord(disclosure, k)
               failed == Failures(answer, altered, run)
               readable == Readable(answer, altered)
           IN Ends("altered-record", IF ~readable THEN "error" ELSE IF failed = {} THEN "not caught" ELSE "caught",
                   IF readable THEN failed ELSE {}, TRUE, Fair(disclosure, run))
  BY DEF TripAlteredRecord
<1> DEFINE altered == AlterRecord(disclosure, k)
           failed == Failures(answer, altered, run)
           readable == Readable(answer, altered)
<1>3. ASSUME readable  PROVE "records" \in failed
  <2>1. Contiguous(answer)  BY <1>3 DEF Readable
  <2>2. "entries" \in DOMAIN disclosure /\ "record" \in DOMAIN disclosure.entries[k]  BY EntriesHaveRecords
  <2>3. ~RecordsOK(OrderedCommitments(answer), altered.entries)
    BY <1>1, <1>2, <2>1, <2>2, AlteredRecordIsForeign
  <2>4. ~CheckOK("records", answer, altered, run)  BY <2>3 DEF CheckOK
  <2>5. "records" \in ToSet(Checks)
    <3>1. 1 \in DOMAIN Checks /\ Checks[1] = "records"  BY DEF Checks
    <3>2. QED  BY <3>1 DEF ToSet
  <2>6. QED  BY <2>4, <2>5 DEF Failures
<1>4. /\ demo'[1].tripwire = "altered-record" /\ demo' # <<>>
      /\ demo'[1].outcome = (IF ~readable THEN "error" ELSE IF failed = {} THEN "not caught" ELSE "caught")
      /\ demo'[1].failed = IF readable THEN failed ELSE {}
  BY <1>2 DEF Ends
<1> HIDE DEF readable, failed
<1>5. demo'[1].outcome = "caught" => readable /\ demo'[1].failed = failed  BY <1>4
<1>6. QED  BY <1>3, <1>4, <1>5 DEF CaughtWhereExpected, ExpectedDetector

LEMMA ByteCaught ==
  ASSUME ReplayInv, bundle # <<>>, NEW disclosure, NEW run, TripAlteredResponseByte(disclosure, run)
  PROVE  CaughtWhereExpected'
<1> DEFINE answer == bundle[1].answer
           altered == [AuditBundle EXCEPT !.response = AlterOneResponseByte(@)]
           checks == OfflineChecks(altered, Domain)
<1>1. "commitments" \in DOMAIN answer  BY DEF ReplayInv, BundleInv, AnswerOK
<1>2. altered.response = [otherBytesThan |-> answer] /\ altered.attestation.responseCID = answer
  BY DEF AuditBundle, AlterOneResponseByte, Attest
<1>3. altered.response # answer
  <2>1. DOMAIN altered.response = {"otherBytesThan"}  BY <1>2
  <2>2. QED  BY <1>1, <2>1
<1> HIDE DEF altered
<1>4. "responseCID" \in DOMAIN checks /\ ~checks["responseCID"]  BY <1>2, <1>3 DEF OfflineChecks
<1>5. "responseCID" \in FailedOffline(altered)  BY <1>4 DEF FailedOffline
<1>6. demo'[1].tripwire = "altered-response-byte" /\ demo'[1].failed = FailedOffline(altered)
  BY DEF TripAlteredResponseByte, Ends, altered
<1>7. QED  BY <1>5, <1>6 DEF CaughtWhereExpected, ExpectedDetector

LEMMA ResignedCaught ==
  ASSUME NEW disclosure, NEW run, TripResignedAlteredAnchors(disclosure, run)
  PROVE  CaughtWhereExpected'
<1> DEFINE liar == ResignAlteredAnchors(AuditBundle)
           failed == Failures(liar.response, disclosure, run)
<1>1. PICK inField, reached \in BOOLEAN :
        Ends("resigned-altered-anchors", IF reached /\ "roots" \in failed THEN "caught" ELSE "error",
             IF reached THEN failed ELSE {}, inField, Fair(disclosure, run))
  BY DEF TripResignedAlteredAnchors
<1> HIDE DEF failed
<1>2. /\ demo'[1].tripwire = "resigned-altered-anchors"
      /\ demo'[1].outcome = IF reached /\ "roots" \in failed THEN "caught" ELSE "error"
      /\ demo'[1].failed = IF reached THEN failed ELSE {}
  BY <1>1 DEF Ends
<1>3. QED  BY <1>2 DEF CaughtWhereExpected, ExpectedDetector

LEMMA CaughtStep ==
  ASSUME CaughtInv, [TamperNext]_tamperVars
  PROVE  CaughtInv'
<1>1. ReplayInv'  BY TamperStepIsReplayStep, ReplayStep DEF CaughtInv
<1>2. CASE UNCHANGED demo  BY <1>1, <1>2 DEF CaughtInv, CaughtWhereExpected
<1>3. CASE RunTamper
  <2>1. PICK disclosure, run :
          /\ bundle # <<>>
          /\ \/ disclosure = HonestDisclosure(bundle[1].pin)
             \/ disclosure \in FittingDisclosures(bundle[1].pin, bundle[1].answer)
          /\ \/ TripAlteredRecord(disclosure, run)
             \/ TripAlteredResponseByte(disclosure, run)
             \/ TripResignedAlteredAnchors(disclosure, run)
    BY <1>3 DEF RunTamper
  <2>2. CaughtWhereExpected'  BY <2>1, RecordCaught, ByteCaught, ResignedCaught DEF CaughtInv
  <2>3. QED  BY <1>1, <2>2 DEF CaughtInv
<1>4. QED  BY <1>2, <1>3 DEF TamperNext, tamperVars

(***************************************************************************)
(* bond-replay tamper never reports a tripwire as caught that failed       *)
(* elsewhere than it was set to: whatever was served, and whoever fitted   *)
(* the issuer's files to it.                                               *)
(***************************************************************************)
THEOREM NeverCaughtElsewhere == TamperSpec => []CaughtWhereExpected
<1>1. TamperInit => CaughtInv  BY ReplayStarts DEF TamperInit, CaughtInv, CaughtWhereExpected
<1>2. CaughtInv /\ [TamperNext]_tamperVars => CaughtInv'  BY CaughtStep
<1>3. CaughtInv => CaughtWhereExpected  BY DEF CaughtInv
<1>4. QED  BY <1>1, <1>2, <1>3, PTL DEF TamperSpec

-----------------------------------------------------------------------------
(* Between honest parties. *)

\* What an untampered run of the command is made on.
FairFacts(pin, disclosure, run) ==
  /\ pin \in 0 .. metaBlock /\ Kept(pin) /\ ParseOK(AuditAnswer(pin)) /\ bundle[1].answer = AuditAnswer(pin)
  /\ disclosure = HonestDisclosure(pin)
  /\ run.rpc /\ run.contract = "named" /\ run.block \in Nat /\ run.block >= pin

LEMMA FairRun ==
  ASSUME ReplayInv, bundle # <<>>, NEW disclosure, NEW run \in Runs(bundle[1].answer, bundle[1].honest),
         Fair(disclosure, run), run.contract = "named", run.block = head - 1
  PROVE  FairFacts(bundle[1].pin, disclosure, run)
<1>1. PICK b : /\ bundle = <<b>> /\ b.pin \in 0 .. metaBlock /\ ParseOK(b.answer)
               /\ b.honest => b.answer = AuditAnswer(b.pin)
  BY DEF ReplayInv, BundleInv
<1>2. bundle[1] = b  BY <1>1
<1>3. head \in 1 .. MaxBlock /\ MaxBlock \in Nat /\ metaBlock \in 0 .. (head - 1)
  BY BondAssumption DEF ReplayInv, ContractInv, GraphInv
<1>4. run.block \in Nat /\ run.block >= b.pin  BY <1>1, <1>3
<1>5. Kept(b.pin)  BY <1>2 DEF Fair, WalkKeptUp, Kept
<1>6. QED  BY <1>1, <1>2, <1>4, <1>5 DEF Fair, FairFacts

LEMMA ChecksAre == ToSet(Checks) = {"records", "manifest", "accounting", "on chain", "roots"}
<1>1. /\ Checks[1] = "records" /\ Checks[2] = "manifest" /\ Checks[3] = "accounting"
      /\ Checks[4] = "on chain" /\ Checks[5] = "roots"
  BY DEF Checks
<1>2. DOMAIN Checks = 1 .. 5  BY DEF Checks
<1>3. 1 .. 5 = {1, 2, 3, 4, 5}  OBVIOUS
<1>4. ToSet(Checks) = {Checks[i] : i \in 1 .. 5}  BY <1>2 DEF ToSet
<1>5. QED  BY <1>1, <1>3, <1>4

LEMMA FairRecord ==
  ASSUME HistoryInv, NEW disclosure, NEW run, FairFacts(bundle[1].pin, disclosure, run),
         TripAlteredRecord(disclosure, run)
  PROVE  TripwiresExactInField'
<1> DEFINE pin == bundle[1].pin
           answer == bundle[1].answer
<1>1. PICK k \in DOMAIN disclosure.entries :
        /\ IsRecord(disclosure.entries[k])
        /\ LET altered == AlterRecord(disclosure, k)
               failed == Failures(answer, altered, run)
               readable == Readable(answer, altered)
           IN Ends("altered-record", IF ~readable THEN "error" ELSE IF failed = {} THEN "not caught" ELSE "caught",
                   IF readable THEN failed ELSE {}, TRUE, Fair(disclosure, run))
  BY DEF TripAlteredRecord
<1> DEFINE altered == AlterRecord(disclosure, k)
           failed == Failures(answer, altered, run)
           leaves == LeavesAt(pin)
<1>2. /\ ReplayInv /\ pin \in 0 .. metaBlock /\ Kept(pin) /\ ParseOK(answer) /\ answer = AuditAnswer(pin)
      /\ disclosure = HonestDisclosure(pin) /\ run.rpc /\ run.block \in Nat /\ run.block >= pin
  BY DEF FairFacts, HistoryInv
<1>3. leaves \in Seq(Nat) /\ OrderedCommitments(answer) = leaves
  BY <1>2, HonestLogExact, LeavesAtFacts DEF ReplayInv
<1>4. /\ k \in DOMAIN leaves /\ DOMAIN disclosure.entries = DOMAIN leaves
      /\ DOMAIN disclosure.entries[k] = {"class", "commitment", "record"}
      /\ disclosure.entries[k].commitment = leaves[k]
  <2> DEFINE entries == HonestDisclosure(pin).entries
  <2> HIDE DEF entries
  <2>1. /\ DOMAIN entries = DOMAIN leaves
        /\ \A j \in DOMAIN leaves : /\ DOMAIN entries[j] = {"class", "commitment", "record"}
                                   /\ entries[j].commitment = leaves[j]
    BY HonestEntries DEF entries
  <2>2. disclosure.entries = entries  BY <1>2 DEF entries
  <2>3. QED  BY <2>1, <2>2
<1>5. "entries" \in DOMAIN disclosure /\ "counts" \in DOMAIN disclosure  BY <1>2 DEF HonestDisclosure
<1>6. altered.counts = HonestDisclosure(pin).counts  BY <1>2, <1>5 DEF AlterRecord
<1>7. altered.entries = [disclosure.entries EXCEPT ![k].record = Altered]  BY <1>5 DEF AlterRecord
<1>8. altered.entries[k] = [disclosure.entries[k] EXCEPT !.record = Altered] /\ k \in DOMAIN altered.entries
  BY <1>1, <1>7
<1>9. /\ altered.entries[k].record = -1 /\ IsRecord(altered.entries[k])
      /\ altered.entries[k].commitment = leaves[k] /\ leaves[k] \in Nat
  <2>1. altered.entries[k].record = -1 /\ altered.entries[k].commitment = leaves[k]
        /\ altered.entries[k].class = disclosure.entries[k].class
    BY <1>4, <1>8 DEF Altered
  <2>2. leaves[k] \in Nat  BY <1>3, <1>4
  <2>3. QED  BY <1>1, <2>1, <2>2 DEF IsRecord
<1> HIDE DEF altered, leaves, answer
<1>10. leaves[k] # -1  BY <1>9
<1>11. /\ ~RecordsOK(leaves, altered.entries) /\ ~ManifestOK(altered.entries)
       /\ ~AccountingOK(leaves, altered.entries)
  BY <1>4, <1>8, <1>9, <1>10 DEF RecordsOK, ManifestOK, AccountingOK, Accounts
<1>12. /\ ~CheckOK("records", answer, altered, run) /\ ~CheckOK("manifest", answer, altered, run)
       /\ ~CheckOK("accounting", answer, altered, run)
  BY <1>3, <1>11 DEF CheckOK
<1>13. /\ Readable(answer, altered)
       /\ CheckOK("roots", answer, altered, run) /\ CheckOK("on chain", answer, altered, run)
  BY <1>2, <1>6, HonestChainSide
<1>14. failed = {"records", "manifest", "accounting"}  BY <1>12, <1>13, ChecksAre DEF Failures
<1> HIDE DEF failed
<1>15. Ends("altered-record", "caught", {"records", "manifest", "accounting"}, TRUE, Fair(disclosure, run))
  BY <1>1, <1>13, <1>14 DEF failed, altered, answer
<1>16. /\ demo'[1].tripwire = "altered-record" /\ demo'[1].outcome = "caught"
       /\ demo'[1].failed = {"records", "manifest", "accounting"}
  BY <1>15 DEF Ends
<1>17. QED  BY <1>16 DEF TripwiresExactInField

\* An attestation by a key that is one verifies over what it was made for.
LEMMA AttestedVerifies ==
  ASSUME NEW b, NEW key, key # NoAddress,
         b.attestation = Attest(Domain, key, b.deployment, b.request, b.response)
  PROVE  FailedOffline(b) = {}
<1>1. /\ b.attestation.responseCID = b.response /\ b.attestation.requestCID = b.request
      /\ b.attestation.deployment = b.deployment /\ b.attestation.signature.key = key
      /\ b.attestation.signature.over = <<Domain, b.request, b.response, b.deployment>>
  BY DEF Attest
<1>2. RecoverAllocation(Domain, b.attestation) = <<key>>  BY <1>1 DEF RecoverAllocation, Address
<1>3. RecoverAllocation(Domain, b.attestation) # <<>>  BY <1>2
<1>4. OfflineChecks(b, Domain) = [responseCID |-> TRUE, requestCID |-> TRUE, subgraphDeploymentID |-> TRUE,
                                  eip712Recovery |-> TRUE]
  BY <1>1, <1>3 DEF OfflineChecks
<1>5. QED  BY <1>4 DEF FailedOffline

LEMMA FairByte ==
  ASSUME HistoryInv, bundle # <<>>, NEW disclosure, NEW run, TripAlteredResponseByte(disclosure, run)
  PROVE  TripwiresExactInField'
<1> DEFINE answer == bundle[1].answer
           altered == [AuditBundle EXCEPT !.response = AlterOneResponseByte(@)]
           checks == OfflineChecks(altered, Domain)
<1>1. "commitments" \in DOMAIN answer  BY DEF HistoryInv, ReplayInv, BundleInv, AnswerOK
<1>2. /\ altered.response = [otherBytesThan |-> answer] /\ altered.request = bundle[1].pin
      /\ altered.deployment = Subgraph
      /\ altered.attestation = Attest(Domain, ServerKey, Subgraph, bundle[1].pin, answer)
  BY DEF AuditBundle, AlterOneResponseByte
<1>3. altered.response # answer
  <2>1. DOMAIN altered.response = {"otherBytesThan"}  BY <1>2
  <2>2. QED  BY <1>1, <2>1
<1> HIDE DEF altered
<1>4. /\ altered.attestation.responseCID = answer /\ altered.attestation.requestCID = altered.request
      /\ altered.attestation.deployment = altered.deployment
      /\ altered.attestation.signature.key = ServerKey
      /\ altered.attestation.signature.over = <<Domain, bundle[1].pin, answer, Subgraph>>
  BY <1>2 DEF Attest
<1>5. RecoverAllocation(Domain, altered.attestation) = <<ServerKey>>
  BY <1>2, <1>4, TamperAssumption DEF RecoverAllocation, Address
<1>6. RecoverAllocation(Domain, altered.attestation) # <<>>  BY <1>5
<1>7. checks = [responseCID |-> FALSE, requestCID |-> TRUE, subgraphDeploymentID |-> TRUE,
                eip712Recovery |-> TRUE]
  BY <1>2, <1>3, <1>4, <1>6 DEF OfflineChecks
<1> HIDE DEF checks
<1>8. FailedOffline(altered) = {"responseCID"}  BY <1>7 DEF FailedOffline, checks
<1>9. Ends("altered-response-byte", "caught", {"responseCID"}, TRUE, Fair(disclosure, run))
  BY <1>8 DEF TripAlteredResponseByte, altered
<1>10. /\ demo'[1].tripwire = "altered-response-byte" /\ demo'[1].outcome = "caught"
       /\ demo'[1].failed = {"responseCID"}
  BY <1>9 DEF Ends
<1>11. QED  BY <1>10 DEF TripwiresExactInField

\* What an honest answer lists.
LEMMA HonestList ==
  ASSUME ReplayInv, NEW pin \in 0 .. metaBlock, Kept(pin), ParseOK(AuditAnswer(pin)),
         NEW n, n = Len(LeavesAt(pin))
  PROVE  AuditAnswer(pin).commitments = [k \in 1 .. n |-> [leafIndex |-> k - 1, value |-> k]]
<1> DEFINE list == AuditAnswer(pin).commitments
<1>1. n \in Nat  BY LeavesAtFacts DEF ReplayInv
<1>2. VisibleAt(store.commitments, pin) = 0 .. (n - 1)  BY DEF ReplayInv, GraphInv, VisibleInv
<1>3. /\ LeafRows(pin) = [k \in 1 .. n |-> [leafIndex |-> k - 1, value |-> k]]
      /\ LeafRows(pin) \in Seq(ServedRow)
  BY <1>1, <1>2, LeafRowsFacts DEF ReplayInv
<1>4. list = FirstPage(LeafRows(pin)) /\ Len(list) < PAGE_LIMIT  BY AuditAnswerParts DEF ParseOK
<1>5. QED  BY <1>3, <1>4, FirstPageFacts

LEMMA ListIsSeq ==
  ASSUME NEW n \in Nat, NEW list, list = [k \in 1 .. n |-> list[k]]
  PROVE  IsSeq(list) /\ Len(list) = n
<1> DEFINE S == {list[k] : k \in 1 .. n}
<1>1. list \in [1 .. n -> S]  OBVIOUS
<1> HIDE DEF S
<1>2. list \in Seq(S)  BY <1>1, SeqDef
<1>3. DOMAIN list = 1 .. n  BY <1>1
<1>4. QED  BY <1>2, <1>3 DEF IsSeq

\* The first commitment is another, and nothing else.
LEMMA FirstAltered ==
  ASSUME NEW answer, "commitments" \in DOMAIN answer, NEW n \in Nat \ {0},
         answer.commitments = [k \in 1 .. n |-> [leafIndex |-> k - 1, value |-> k]]
  PROVE  LET altered == AlterServedCommitment(answer)
             served == OrderedCommitments(altered)
         IN /\ altered.counts = answer.counts /\ altered.nullifiers = answer.nullifiers
            /\ altered.roots = answer.roots /\ Len(altered.commitments) = n
            /\ Contiguous(altered)
            /\ IsSeq(served) /\ Len(served) = n /\ served[1] = -1
<1> DEFINE altered == AlterServedCommitment(answer)
           served == OrderedCommitments(altered)
           list == altered.commitments
<1>0. n \in Nat  OBVIOUS
<1>1. /\ altered.counts = answer.counts /\ altered.nullifiers = answer.nullifiers
      /\ altered.roots = answer.roots
      /\ list = [answer.commitments EXCEPT ![1].value = Altered]
  BY DEF AlterServedCommitment
<1>2. 1 \in 1 .. n  OBVIOUS
<1>3. /\ DOMAIN list = 1 .. n /\ list[1] = [leafIndex |-> 0, value |-> -1]
      /\ \A k \in 1 .. n : list[k].leafIndex = k - 1
  <2>1. DOMAIN list = 1 .. n /\ list[1] = [answer.commitments[1] EXCEPT !.value = Altered]
        /\ \A k \in 1 .. n : k # 1 => list[k] = answer.commitments[k]
    BY <1>1, <1>2
  <2>2. answer.commitments[1] = [leafIndex |-> 0, value |-> 1]  BY <1>2
  <2>3. list[1] = [leafIndex |-> 0, value |-> -1]  BY <2>1, <2>2 DEF Altered
  <2>4. QED  BY <2>1, <2>3
<1>4. list = [k \in 1 .. n |-> list[k]]  BY <1>1, <1>3
<1> HIDE DEF list
<1>5. Len(list) = n  BY <1>4, ListIsSeq
<1>6. Contiguous(altered)
  <2>1. Indices(altered) = {k - 1 : k \in 1 .. n}
    <3>1. Indices(altered) = {list[k].leafIndex : k \in DOMAIN list}  BY DEF Indices, list
    <3> HIDE DEF altered
    <3>2. \A k \in DOMAIN list : list[k].leafIndex \in {j - 1 : j \in 1 .. n}  BY <1>3
    <3>3. \A k \in 1 .. n : k - 1 \in {list[j].leafIndex : j \in DOMAIN list}
      <4>1. ASSUME NEW k \in 1 .. n  PROVE k - 1 \in {list[j].leafIndex : j \in DOMAIN list}
        <5>1. k \in DOMAIN list /\ list[k].leafIndex = k - 1  BY <1>3
        <5>2. list[k].leafIndex \in {list[j].leafIndex : j \in DOMAIN list}  BY <5>1
        <5>3. QED  BY <5>1, <5>2
      <4>2. QED  BY <4>1
    <3>4. {list[k].leafIndex : k \in DOMAIN list} = {k - 1 : k \in 1 .. n}  BY <3>2, <3>3
    <3>5. QED  BY <3>1, <3>4
  <2>2. {k - 1 : k \in 1 .. n} = 0 .. (n - 1)  BY <1>0, DownByOne
  <2>3. QED  BY <2>1, <2>2, <1>5 DEF Contiguous, list
<1>7. served = [k \in 1 .. n |-> (CHOOSE row \in ToSet(list) : row.leafIndex = k - 1).value]
  BY <1>5 DEF OrderedCommitments, list
<1>8. served[1] = -1
  <2>1. (CHOOSE row \in ToSet(list) : row.leafIndex = 1 - 1) = list[1]
    <3>1. list[1] \in ToSet(list) /\ list[1].leafIndex = 1 - 1  BY <1>2, <1>3 DEF ToSet
    <3>2. ASSUME NEW row \in ToSet(list), row.leafIndex = 1 - 1  PROVE row = list[1]
      <4>1. PICK k \in 1 .. n : row = list[k]  BY <1>3 DEF ToSet
      <4>2. k - 1 = 1 - 1  BY <1>3, <3>2, <4>1
      <4>3. k = 1  BY <4>2
      <4>4. QED  BY <4>1, <4>3
    <3>3. QED  BY <3>1, <3>2
  <2>2. QED  BY <2>1, <1>2, <1>3, <1>7
<1>9. IsSeq(served) /\ Len(served) = n
  <2> HIDE DEF served
  <2>1. served = [k \in 1 .. n |-> served[k]]  BY <1>7
  <2>2. QED  BY <2>1, <1>0, ListIsSeq
<1>10. QED  BY <1>1, <1>5, <1>6, <1>8, <1>9 DEF list

\* Leaves came with a call, whose boundary is served or in the manifest.
LEMMA BoundariesThere ==
  ASSUME HistoryInv, NEW pin \in 0 .. metaBlock, Len(LeavesAt(pin)) # 0, IsSeq(AuditAnswer(pin).counts)
  PROVE  DOMAIN Boundaries(AuditAnswer(pin), HonestDisclosure(pin).counts) # {}
<1> DEFINE n == Cardinality(CallsUpTo(pin))
           served == AuditAnswer(pin).counts
<1>1. ContractInv  BY DEF HistoryInv, ReplayInv
<1>2. n \in 0 .. Len(bondCalls) /\ Len(bondCalls) \in Nat  BY <1>1, CallsUpToFacts, IsSeqFacts DEF ContractInv
<1>3. n # 0
  <2>1. LeavesAt(pin) = LeavesAfter(n)  BY DEF LeavesAt
  <2>2. Len(LeavesAfter(0)) = 0  BY DEF LeavesAfter
  <2>3. QED  BY <2>1, <2>2
<1>4. HonestDisclosure(pin).counts = [i \in 1 .. n |-> Len(LeavesAfter(i))]  BY DEF HonestDisclosure
<1> HIDE DEF n
<1>5. DOMAIN HonestDisclosure(pin).counts # {}
  <2>1. 1 \in 1 .. n  BY <1>2, <1>3
  <2>2. QED  BY <2>1, <1>4
<1>6. CASE served = <<>>  BY <1>5, <1>6 DEF Boundaries
<1>7. CASE served # <<>>
  <2> HIDE DEF served
  <2>1. PICK S : served \in Seq(S)  BY DEF IsSeq, served
  <2>2. Len(served) # 0 /\ Len(served) \in Nat /\ DOMAIN served = 1 .. Len(served)  BY <2>1, <1>7
  <2>3. 1 \in DOMAIN served  BY <2>2
  <2>4. QED  BY <2>3, <1>7 DEF Boundaries, served
<1>8. QED  BY <1>6, <1>7

LEMMA FairResigned ==
  ASSUME HistoryInv, bundle # <<>>, NEW disclosure, NEW run, FairFacts(bundle[1].pin, disclosure, run),
         TripResignedAlteredAnchors(disclosure, run)
  PROVE  TripwiresExactInField'
<1> DEFINE pin == bundle[1].pin
           answer == bundle[1].answer
           liar == ResignAlteredAnchors(AuditBundle)
           altered == AlterServedCommitment(answer)
           served == OrderedCommitments(altered)
           counts == Boundaries(altered, disclosure.counts)
           failed == Failures(altered, disclosure, run)
           n == Len(LeavesAt(pin))
<1>1. /\ ReplayInv /\ ContractInv /\ GraphInv
      /\ pin \in 0 .. metaBlock /\ pin \in Nat /\ Kept(pin) /\ ParseOK(answer) /\ answer = AuditAnswer(pin)
      /\ disclosure = HonestDisclosure(pin) /\ run.rpc /\ run.contract = "named"
      /\ run.block \in Nat /\ run.block >= pin
  BY DEF FairFacts, HistoryInv, ReplayInv, GraphInv, ContractInv
<1>2. answer.commitments # <<>>  BY DEF TripResignedAlteredAnchors
<1>3. /\ liar.response = altered /\ liar.deployment = Subgraph /\ liar.request = pin
      /\ liar.attestation = Attest(Domain, ThrowawayKey, Subgraph, pin, altered)
  BY DEF ResignAlteredAnchors, AuditBundle
<1>4. FailedOffline(liar) = {}
  <2> HIDE DEF liar
  <2>1. liar.attestation = Attest(Domain, ThrowawayKey, liar.deployment, liar.request, liar.response)  BY <1>3
  <2>2. QED  BY <2>1, TamperAssumption, AttestedVerifies
<1>5. n \in Nat /\ LeavesAt(pin) = CountUp(n)  BY <1>1, LeavesAtFacts
<1>6. answer.commitments = [k \in 1 .. n |-> [leafIndex |-> k - 1, value |-> k]]  BY <1>1, HonestList
<1>7. n \in Nat \ {0}
  <2> HIDE DEF n
  <2>1. n # 0
    <3>1. SUFFICES ASSUME n = 0  PROVE answer.commitments = <<>>  BY <1>2
    <3>2. answer.commitments = [k \in 1 .. 0 |-> [leafIndex |-> k - 1, value |-> k]]  BY <1>6, <3>1
    <3>3. 1 .. 0 = {}  OBVIOUS
    <3>4. QED  BY <3>2, <3>3
  <2>2. QED  BY <1>5, <2>1
<1>8. "commitments" \in DOMAIN answer  BY <1>1, HonestAnswerOK DEF AnswerOK
<1>9. /\ altered.counts = answer.counts /\ altered.nullifiers = answer.nullifiers
      /\ altered.roots = answer.roots /\ Len(altered.commitments) = n
      /\ Contiguous(altered) /\ IsSeq(served) /\ Len(served) = n /\ served[1] = -1
  BY <1>6, <1>7, <1>8, FirstAltered
<1>10. Len(answer.commitments) = n
  <2>1. answer.commitments \in Seq(ServedRow)  BY <1>1, HonestAnswerOK DEF AnswerOK
  <2>2. DOMAIN answer.commitments = 1 .. n  BY <1>6
  <2>3. QED  BY <2>1, <2>2, <1>5
<1>11. ParseOK(altered)  BY <1>1, <1>9, <1>10 DEF ParseOK
<1>12. /\ OfCalls(counts, pin) /\ Monotone(altered.counts) /\ IsSeq(answer.counts)
       /\ counts = Boundaries(answer, HonestDisclosure(pin).counts)
  <2>1. counts = Boundaries(answer, HonestDisclosure(pin).counts)  BY <1>1, <1>9 DEF Boundaries
  <2>2. QED  BY <2>1, <1>1, <1>9, HonestCounts
<1>13. \A k \in DOMAIN counts : counts[k] \in 1 .. n
  BY <1>1, <1>12, CallBoundariesRebuild DEF RootHistoryOK
<1>14. Readable(altered, disclosure)
  BY <1>9, <1>11, <1>12, <1>13 DEF Readable, RootHistoryOK
<1>15. ~CheckOK("roots", altered, disclosure, run)
  <2> HIDE DEF served, counts, altered, n
  <2>1. ~OfAnother(altered, run)  BY <1>1 DEF OfAnother, Asked
  <2>2. PICK k \in DOMAIN counts : TRUE
    <3>1. DOMAIN counts # {}  BY <1>1, <1>7, <1>12, BoundariesThere DEF n
    <3>2. QED  BY <3>1
  <2>3. counts[k] \in 1 .. Len(served)  BY <1>9, <1>13
  <2>4. BuildMerkleRoot(SubSeq(served, 1, counts[k])) \notin KnownRoots(run.block)
    <3>1. SUFFICES ASSUME BuildMerkleRoot(SubSeq(served, 1, counts[k])) \in KnownRoots(run.block)  PROVE FALSE
      OBVIOUS
    <3>2. PICK i \in CallsUpTo(run.block) :
            Leaves(i) \in 1 .. counts[k] /\ \A j \in 1 .. Leaves(i) : served[j] = j
      BY <1>1, <1>9, <2>3, <3>1, KnownRootBinds
    <3>3. 1 \in 1 .. Leaves(i)
      <4>1. counts[k] \in Nat  BY <2>3
      <4>2. Leaves(i) \in Nat /\ 1 <= Leaves(i)  BY <4>1, <3>2
      <4>3. QED  BY <4>2
    <3>4. QED  BY <1>9, <3>2, <3>3
  <2>5. ~RootsKnown(RootHistory(served, counts), run.block)  BY <2>4 DEF RootsKnown, RootHistory
  <2>6. QED  BY <1>1, <2>1, <2>5 DEF CheckOK, served, counts
<1>16. ~CheckOK("accounting", altered, disclosure, run)
  <2> DEFINE entries == HonestDisclosure(pin).entries
  <2> HIDE DEF served, n, entries
  <2>1. 1 \in DOMAIN served /\ 1 \in DOMAIN LeavesAt(pin) /\ LeavesAt(pin)[1] = 1
    <3>1. 1 \in 1 .. n  BY <1>7
    <3>2. DOMAIN served = 1 .. n  BY <1>9, IsSeqFacts
    <3>3. QED  BY <3>1, <3>2, <1>5 DEF CountUp
  <2>2. entries[1].commitment = 1 /\ entries[1].record = 1
    <3>1. /\ entries[1].commitment = LeavesAt(pin)[1] /\ entries[1].record = LeavesAt(pin)[1]
      BY <2>1, HonestEntries DEF entries
    <3>2. QED  BY <2>1, <3>1
  <2>3. Accounts(entries[1]) = 1  BY <2>2 DEF Accounts
  <2>4. ~AccountingOK(served, entries)  BY <1>9, <2>1, <2>3 DEF AccountingOK
  <2>5. QED  BY <1>1, <2>4 DEF CheckOK, served, entries
<1>17. {"roots", "accounting"} \subseteq failed  BY <1>15, <1>16, ChecksAre DEF Failures
<1>18. PICK inField \in BOOLEAN :
         LET reached == FailedOffline(liar) = {} /\ run.rpc /\ inField /\ Readable(liar.response, disclosure)
         IN Ends("resigned-altered-anchors",
                 IF reached /\ "roots" \in Failures(liar.response, disclosure, run) THEN "caught" ELSE "error",
                 IF reached THEN Failures(liar.response, disclosure, run) ELSE {}, inField,
                 Fair(disclosure, run))
  BY DEF TripResignedAlteredAnchors
<1> HIDE DEF failed, altered, liar
<1>19. Ends("resigned-altered-anchors", IF inField THEN "caught" ELSE "error",
            IF inField THEN failed ELSE {}, inField, Fair(disclosure, run))
  <2>1. liar.response = altered /\ Failures(liar.response, disclosure, run) = failed  BY <1>3 DEF failed
  <2>2. CASE inField  BY <1>1, <1>4, <1>14, <1>17, <1>18, <2>1, <2>2
  <2>3. CASE ~inField  BY <1>18, <2>3
  <2>4. QED  BY <2>2, <2>3
<1>20. /\ demo'[1].tripwire = "resigned-altered-anchors" /\ demo'[1].inField = inField
       /\ demo'[1].outcome = (IF inField THEN "caught" ELSE "error")
       /\ inField => demo'[1].failed = failed
  BY <1>19 DEF Ends
<1>21. QED  BY <1>17, <1>20 DEF TripwiresExactInField

TripwireInv == HistoryInv /\ TripwiresExactInField

LEMMA TripwireStep ==
  ASSUME TripwireInv, [TamperNext]_tamperVars
  PROVE  TripwireInv'
<1>1. HistoryInv'  BY TamperStepIsReplayStep, HistoryStep DEF TripwireInv
<1>2. CASE UNCHANGED demo  BY <1>1, <1>2 DEF TripwireInv, TripwiresExactInField
<1>3. CASE RunTamper
  <2>1. PICK disclosure, run :
          /\ run \in Runs(bundle[1].answer, bundle[1].honest)
          /\ bundle # <<>> /\ run.contract = "named"
          /\ bundle[1].honest => run.block = head - 1 \/ ~run.rpc
          /\ \/ TripAlteredRecord(disclosure, run)
             \/ TripAlteredResponseByte(disclosure, run)
             \/ TripResignedAlteredAnchors(disclosure, run)
    <3> DEFINE runs == {run \in Runs(bundle[1].answer, bundle[1].honest) : run.contract = "named"}
               atHead == {run \in runs : run.rpc /\ ~run.verifyOnchain /\ run.block = head - 1}
    <3>1. PICK disclosure \in IF bundle[1].honest THEN {HonestDisclosure(bundle[1].pin)}
                              ELSE FittingDisclosures(bundle[1].pin, bundle[1].answer),
               run \in IF bundle[1].honest THEN atHead \cup {r \in runs : ~r.rpc} ELSE atHead :
            \/ TripAlteredRecord(disclosure, run)
            \/ TripAlteredResponseByte(disclosure, run)
            \/ TripResignedAlteredAnchors(disclosure, run)
      BY <1>3, Zenon DEF RunTamper
    <3>2. run \in Runs(bundle[1].answer, bundle[1].honest) /\ run.contract = "named"
          /\ (run.block = head - 1 \/ ~run.rpc)
      BY <3>1
    <3>3. bundle # <<>>  BY <1>3 DEF RunTamper
    <3>4. \/ TripAlteredRecord(disclosure, run)
          \/ TripAlteredResponseByte(disclosure, run)
          \/ TripResignedAlteredAnchors(disclosure, run)
      BY <3>1
    <3>5. QED  BY <3>2, <3>3, <3>4, Zenon
  <2>2. TripwiresExactInField'
    <3>1. CASE ~Fair(disclosure, run)
      <4>1. demo' # <<>> /\ demo'[1].fair = Fair(disclosure, run)
        <5>1. PICK tripwire, outcome, failed, inField :
                Ends(tripwire, outcome, failed, inField, Fair(disclosure, run))
          <6>1. CASE TripAlteredRecord(disclosure, run)  BY <6>1, Zenon DEF TripAlteredRecord
          <6>2. CASE TripAlteredResponseByte(disclosure, run)  BY <6>2, Zenon DEF TripAlteredResponseByte
          <6>3. CASE TripResignedAlteredAnchors(disclosure, run)  BY <6>3, Zenon DEF TripResignedAlteredAnchors
          <6>4. QED  BY <2>1, <6>1, <6>2, <6>3
        <5>2. QED  BY <5>1 DEF Ends
      <4>2. QED  BY <3>1, <4>1 DEF TripwiresExactInField
    <3>2. CASE Fair(disclosure, run)
      <4>1. run.block = head - 1  BY <2>1, <3>2 DEF Fair
      <4>2. FairFacts(bundle[1].pin, disclosure, run)
        BY <2>1, <3>2, <4>1, FairRun DEF TripwireInv, HistoryInv
      <4>3. QED  BY <2>1, <4>2, FairRecord, FairByte, FairResigned DEF TripwireInv
    <3>3. QED  BY <3>1, <3>2
  <2>3. QED  BY <1>1, <2>2 DEF TripwireInv
<1>4. QED  BY <1>2, <1>3 DEF TamperNext, tamperVars

(***************************************************************************)
(* bond-replay tamper between an honest server and an honest issuer, with  *)
(* a node: each of the three alterations is caught by the check set to     *)
(* catch it, and an altered record or byte by nothing else; of a re-signed *)
(* commitment only if with its other first digit it still is a field       *)
(* element.  If not, the run ends in an error before any root is replayed, *)
(* and the theorem says nothing of it.                                     *)
(***************************************************************************)
THEOREM TripwiresAlwaysExactInField == TamperSpec => []TripwiresExactInField
<1>1. TamperInit => TripwireInv  BY HistoryStarts DEF TamperInit, TripwireInv, TripwiresExactInField
<1>2. TripwireInv /\ [TamperNext]_tamperVars => TripwireInv'  BY TripwireStep
<1>3. TripwireInv => TripwiresExactInField  BY DEF TripwireInv
<1>4. QED  BY <1>1, <1>2, <1>3, PTL DEF TamperSpec
=============================================================================

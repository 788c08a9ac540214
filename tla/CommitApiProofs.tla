--------------------------- MODULE CommitApiProofs --------------------------
(***************************************************************************)
(* The Merkle tree and the API that serves proofs from it, for every map   *)
(* of balances and every order of leaf hashes.  The tree is built by       *)
(* recursion over its layers; what a recursive function computes is shown  *)
(* by a least counterexample (BasicFacts), once that the function exists.  *)
(***************************************************************************)
EXTENDS CommitApi, MerkleBuild, BasicFacts, FiniteSetTheorems

-----------------------------------------------------------------------------
(* Tuples and enumerations of a finite set.                                *)

\* A function with domain 1..n.
IsTuple(s, n) == s = [i \in 1..n |-> s[i]]

\* Such a function is a sequence of length n.
LEMMA TupleFacts ==
    ASSUME NEW n \in Nat, NEW s, IsTuple(s, n)
    PROVE  s \in Seq(ToSet(s)) /\ Len(s) = n /\ DOMAIN s = 1..n
  <1>1. DOMAIN s = 1..n
    BY DEF IsTuple
  <1>2. \A i \in 1..n : s[i] \in ToSet(s)
    BY <1>1 DEF ToSet
  <1>3. s \in [1..n -> ToSet(s)]
    BY <1>2 DEF IsTuple
  <1>4. s \in Seq(ToSet(s))
    BY <1>3
  <1> QED BY <1>1, <1>4

\* And a sequence is a tuple.
LEMMA SeqIsTuple ==
    ASSUME NEW S, NEW s \in Seq(S)
    PROVE  /\ Len(s) \in Nat /\ IsTuple(s, Len(s))
           /\ \A i \in 1..Len(s) : s[i] \in S
  BY DEF IsTuple

\* The sequences of SetToSeqs list the set.
LEMMA SeqsEnumerate ==
    ASSUME NEW S, IsFiniteSet(S), NEW s \in SetToSeqs(S)
    PROVE  /\ Len(s) = Cardinality(S) /\ Cardinality(S) \in Nat
           /\ ToSet(s) = S
  <1>1. Cardinality(S) \in Nat
    BY FS_CardinalityType
  <1>2. /\ s \in [1..Cardinality(S) -> S]
        /\ \A i, j \in 1..Cardinality(S) : i # j => s[i] # s[j]
    BY DEF SetToSeqs
  <1>3. s \in Seq(S) /\ Len(s) = Cardinality(S)
    BY <1>1, <1>2
  <1>4. s \in Injection(1..Cardinality(S), S)
    BY <1>2 DEF Injection, IsInjective
  <1>5. Cardinality(1..Cardinality(S)) = Cardinality(S) /\ IsFiniteSet(1..Cardinality(S))
    <2>1. 1 \in Int /\ Cardinality(S) \in Int
      BY <1>1
    <2>2. Cardinality(1..Cardinality(S)) =
              IF 1 > Cardinality(S) THEN 0 ELSE Cardinality(S) - 1 + 1
      BY <2>1, FS_Interval
    <2>3. IsFiniteSet(1..Cardinality(S))
      BY <2>1, FS_Interval
    <2> QED BY <1>1, <2>2, <2>3
  <1>6. s \in Surjection(1..Cardinality(S), S)
    BY <1>4, <1>5, FS_Injection
  <1>7. ToSet(s) = S
    <2>1. DOMAIN s = 1..Cardinality(S)
      BY <1>2
    <2>2. \A y \in S : \E i \in 1..Cardinality(S) : s[i] = y
      BY <1>6, <2>1 DEF Surjection
    <2> QED BY <1>2, <2>1, <2>2 DEF ToSet
  <1> QED BY <1>1, <1>3, <1>7

\* SetToSeq is one of them.
LEMMA SetToSeqEnumerates ==
    ASSUME NEW S, IsFiniteSet(S)
    PROVE  SetToSeq(S) \in SetToSeqs(S)
  <1>1. ExistsBijection(1..Cardinality(S), S)
    BY FS_CardinalityType
  <1>2. \E f \in [1..Cardinality(S) -> S] : IsInjective(f)
    BY <1>1 DEF ExistsBijection, Bijection, Injection
  <1>3. SetToSeq(S) \in [1..Cardinality(S) -> S] /\ IsInjective(SetToSeq(S))
    BY <1>2 DEF SetToSeq
  <1>4. \A i, j \in 1..Cardinality(S) : i # j => SetToSeq(S)[i] # SetToSeq(S)[j]
    <2>1. DOMAIN SetToSeq(S) = 1..Cardinality(S)
      BY <1>3
    <2> QED BY <1>3, <2>1 DEF IsInjective
  <1> QED BY <1>3, <1>4 DEF SetToSeqs

-----------------------------------------------------------------------------
(* sortLeaves.                                                             *)

\* A set of entries that is not empty has a first one.
LEMMA FirstExists ==
    ASSUME NEW S \in SUBSET Entries, S # {}
    PROVE  FirstOf(S) \in S
  <1> DEFINE R == {HashRank[e] : e \in S}
  <1>1. \A e \in S : HashRank[e] \in Nat
    BY RankAssumption
  <1>2. R \subseteq Nat /\ R # {}
    BY <1>1
  <1>3. PICK r \in R : \A y \in R : r <= y
    <2> HIDE DEF R
    <2> QED BY <1>2, LeastNatural
  <1>4. PICK e \in S : r = HashRank[e]
    BY <1>3
  <1>5. ASSUME NEW x \in S PROVE ~HashBefore(x, e)
    <2>1. HashRank[e] <= HashRank[x]
      BY <1>3, <1>4
    <2>2. HashRank[e] \in Nat /\ HashRank[x] \in Nat
      BY <1>1
    <2> QED BY <2>1, <2>2 DEF HashBefore
  <1>6. \E d \in S : \A x \in S : ~HashBefore(x, d)
    BY <1>5
  <1> QED BY <1>6 DEF FirstOf

\* The recursive function of firstLeaves, up to n.
IsSorting(f, S, n) ==
    f = [k \in 0..n |-> IF k = 0 THEN <<>>
                        ELSE Append(f[k - 1], FirstOf(S \ ToSet(f[k - 1])))]

LEMMA SortingExists ==
    ASSUME NEW S, NEW n \in Nat
    PROVE  \E f : IsSorting(f, S, n)
  <1> DEFINE Bad == {m \in Nat : ~\E f : IsSorting(f, S, m)}
  <1>1. SUFFICES Bad = {}
    OBVIOUS
  <1>2. SUFFICES ASSUME Bad # {} PROVE FALSE
    OBVIOUS
  <1>3. PICK m \in Bad : \A y \in Bad : m <= y
    <2>1. Bad \subseteq Nat
      OBVIOUS
    <2> HIDE DEF Bad
    <2> QED BY <1>2, <2>1, LeastNatural
  <1>4. m \in Nat
    OBVIOUS
  <1>5. PICK f : m # 0 => IsSorting(f, S, m - 1)
    <2>1. CASE m = 0
      BY <2>1
    <2>2. CASE m # 0
      <3>1. m - 1 \in Nat /\ m - 1 \notin Bad
        BY <1>3, <1>4, <2>2
      <3> QED BY <3>1
    <2> QED BY <2>1, <2>2
  <1> DEFINE g == [k \in 0..m |-> IF k = 0 THEN <<>>
                                  ELSE Append(f[k - 1], FirstOf(S \ ToSet(f[k - 1])))]
  <1>6. ASSUME NEW k \in 0..m, k # 0 PROVE g[k - 1] = f[k - 1]
    <2>1. k - 1 \in 0..m /\ k - 1 \in 0..(m - 1) /\ m # 0
      BY <1>4, <1>6
    <2> DEFINE E(j) == IF j = 0 THEN <<>>
                       ELSE Append(f[j - 1], FirstOf(S \ ToSet(f[j - 1])))
    <2>2. f = [j \in 0..(m - 1) |-> E(j)]
      BY <1>5, <2>1 DEF IsSorting
    <2>3. f[k - 1] = E(k - 1)
      <3> HIDE DEF E
      <3> QED BY <2>1, <2>2
    <2>4. g = [j \in 0..m |-> E(j)]
      OBVIOUS
    <2>5. g[k - 1] = E(k - 1)
      <3> HIDE DEF E, g
      <3> QED BY <2>1, <2>4
    <2> QED BY <2>3, <2>5
  <1>7. IsSorting(g, S, m)
    <2> DEFINE h == [k \in 0..m |-> IF k = 0 THEN <<>>
                                    ELSE Append(g[k - 1], FirstOf(S \ ToSet(g[k - 1])))]
    <2>1. ASSUME NEW k \in 0..m PROVE g[k] = h[k]
      <3>1. CASE k = 0
        BY <3>1
      <3>2. CASE k # 0
        <4>1. g[k - 1] = f[k - 1]
          BY <1>6, <3>2
        <4>2. g[k] = Append(f[k - 1], FirstOf(S \ ToSet(f[k - 1])))
          BY <3>2
        <4>3. h[k] = Append(g[k - 1], FirstOf(S \ ToSet(g[k - 1])))
          <5> HIDE DEF g
          <5> QED BY <3>2
        <4> HIDE DEF g, h
        <4> QED BY <4>1, <4>2, <4>3
      <3> QED BY <3>1, <3>2
    <2>2. g = h
      BY <2>1
    <2> HIDE DEF g
    <2> QED BY <2>2 DEF IsSorting
  <1> QED BY <1>3, <1>7

\* firstLeaves is that function.
LEMMA FirstLeavesFacts ==
    ASSUME NEW S, IsFiniteSet(S)
    PROVE  /\ firstLeaves(S)[0] = <<>>
           /\ \A k \in 1..Cardinality(S) :
                 firstLeaves(S)[k] = Append(firstLeaves(S)[k - 1],
                                            FirstOf(S \ ToSet(firstLeaves(S)[k - 1])))
  <1> DEFINE n == Cardinality(S)
             f == firstLeaves(S)
  <1>1. n \in Nat
    BY FS_CardinalityType
  <1>2. f = CHOOSE s : IsSorting(s, S, n)
    BY DEF firstLeaves, IsSorting
  <1>3. IsSorting(f, S, n)
    <2> HIDE DEF f, n
    <2> QED BY <1>1, <1>2, SortingExists
  <1> DEFINE E(k) == IF k = 0 THEN <<>> ELSE Append(f[k - 1], FirstOf(S \ ToSet(f[k - 1])))
  <1>4. f = [k \in 0..n |-> E(k)]
    <2> HIDE DEF f, n
    <2> QED BY <1>3 DEF IsSorting
  <1>5. \A k \in 0..n : f[k] = E(k)
    <2> HIDE DEF E, f, n
    <2> QED BY <1>4
  <1>6. 0 \in 0..n /\ \A k \in 1..n : k \in 0..n /\ k # 0
    <2> HIDE DEF n
    <2> QED BY <1>1
  <1> QED BY <1>5, <1>6

\* The entries in hand are distinct ones of S, so that there is a next one
\* until all are sorted.
LEMMA FirstLeavesDistinct ==
    ASSUME NEW S \in SUBSET Entries, IsFiniteSet(S)
    PROVE  \A k \in 0..Cardinality(S) :
              LET f == firstLeaves(S)[k] IN
              /\ f \in Seq(S) /\ Len(f) = k
              /\ IsFiniteSet(ToSet(f)) /\ Cardinality(ToSet(f)) = k
  <1> DEFINE n == Cardinality(S)
             F(k) == firstLeaves(S)[k]
             P(k) == /\ F(k) \in Seq(S) /\ Len(F(k)) = k
                     /\ IsFiniteSet(ToSet(F(k))) /\ Cardinality(ToSet(F(k))) = k
             Bad == {k \in Nat : k <= n /\ ~P(k)}
  <1>1. n \in Nat
    BY FS_CardinalityType
  <1>2. SUFFICES ASSUME Bad # {} PROVE FALSE
    BY <1>1
  <1>3. PICK k \in Bad : \A y \in Bad : k <= y
    <2>1. Bad \subseteq Nat
      OBVIOUS
    <2> HIDE DEF Bad
    <2> QED BY <1>2, <2>1, LeastNatural
  <1>4. k \in Nat /\ k <= n /\ ~P(k)
    OBVIOUS
  <1>5. CASE k = 0
    <2>1. F(0) = <<>>
      BY FirstLeavesFacts
    <2>2. ToSet(F(0)) = {}
      BY <2>1 DEF ToSet
    <2>3. IsFiniteSet(ToSet(F(0))) /\ Cardinality(ToSet(F(0))) = 0
      BY <2>2, FS_EmptySet
    <2>4. P(0)
      BY <2>1, <2>3
    <2> QED BY <1>4, <1>5, <2>4
  <1>6. CASE k # 0
    <2> DEFINE g == F(k - 1)
               T == ToSet(g)
               e == FirstOf(S \ T)
    <2>1. k - 1 \in Nat /\ k - 1 <= n /\ k - 1 \notin Bad
      BY <1>1, <1>3, <1>4, <1>6
    <2>2. P(k - 1)
      BY <2>1
    <2>3. g \in Seq(S) /\ Len(g) = k - 1 /\ IsFiniteSet(T) /\ Cardinality(T) = k - 1
      BY <2>2
    <2>4. F(k) = Append(g, e)
      <3>1. k \in 1..Cardinality(S)
        BY <1>1, <1>4, <1>6
      <3> QED BY <3>1, FirstLeavesFacts
    <2>5. e \in S /\ e \notin T
      <3>1. S \ T # {}
        <4>1. SUFFICES ASSUME S \subseteq T PROVE FALSE
          OBVIOUS
        <4>2. Cardinality(S) <= Cardinality(T)
          <5> HIDE DEF T
          <5> QED BY <4>1, <2>3, FS_Subset
        <4> QED BY <4>2, <2>3, <1>1, <1>4
      <3>2. FirstOf(S \ T) \in S \ T
        <4> HIDE DEF T
        <4> QED BY <3>1, FirstExists
      <3> QED BY <3>2
    <2>6. ToSet(Append(g, e)) = T \cup {e}
      <3> HIDE DEF e, g
      <3>1. DOMAIN g = 1..(k - 1) /\ DOMAIN Append(g, e) = 1..k
        BY <2>3, <2>5, <1>4
      <3>2. /\ \A i \in 1..(k - 1) : Append(g, e)[i] = g[i]
            /\ Append(g, e)[k] = e
        BY <2>3, <2>5, <1>4, AppendFacts
      <3>3. 1..k = (1..(k - 1)) \cup {k}
        BY <1>4, <1>6
      <3> QED BY <3>1, <3>2, <3>3 DEF ToSet
    <2>7. IsFiniteSet(T \cup {e}) /\ Cardinality(T \cup {e}) = k
      <3> HIDE DEF T, e
      <3>1. IsFiniteSet(T \cup {e}) /\ Cardinality(T \cup {e}) = Cardinality(T) + 1
        BY <2>3, <2>5, FS_AddElement
      <3> QED BY <3>1, <2>3, <1>4
    <2>8. Append(g, e) \in Seq(S) /\ Len(Append(g, e)) = k
      <3> HIDE DEF g, e
      <3> QED BY <2>3, <2>5, <1>4
    <2>9. P(k)
      <3> HIDE DEF g, e, T
      <3> QED BY <2>4, <2>6, <2>7, <2>8
    <2> QED BY <2>9, <1>4
  <1> QED BY <1>5, <1>6

\* sortLeaves lists the same entries, and does not depend on their order.
LEMMA SortLeavesFacts ==
    ASSUME NEW S \in SUBSET Entries, IsFiniteSet(S), NEW s \in SetToSeqs(S)
    PROVE  /\ sortLeaves(s) = firstLeaves(S)[Cardinality(S)]
           /\ sortLeaves(s) \in Seq(S) /\ Len(sortLeaves(s)) = Cardinality(S)
           /\ ToSet(sortLeaves(s)) = S
           /\ Len(s) = Cardinality(S) /\ Cardinality(S) \in Nat
  <1> DEFINE n == Cardinality(S)
             f == firstLeaves(S)[n]
  <1>1. n \in Nat /\ Len(s) = n /\ ToSet(s) = S
    BY SeqsEnumerate
  <1>2. sortLeaves(s) = f
    BY <1>1 DEF sortLeaves
  <1>3. n \in 0..n
    <2> HIDE DEF n
    <2> QED BY <1>1
  <1>4. f \in Seq(S) /\ Len(f) = n /\ Cardinality(ToSet(f)) = n
    BY <1>3, FirstLeavesDistinct
  <1>5. ToSet(f) \subseteq S
    <2> HIDE DEF f, n
    <2> QED BY <1>4 DEF ToSet
  <1>6. ToSet(f) = S
    <2> HIDE DEF f
    <2> QED BY <1>4, <1>5, FS_Subset
  <1> QED BY <1>1, <1>2, <1>4, <1>6

-----------------------------------------------------------------------------
(* The layers.                                                             *)

\* A layer has half as many nodes as the one below, an odd one counted in.
LEMMA HashLevelFacts ==
    ASSUME NEW n \in Nat, NEW hs, IsTuple(hs, n)
    PROVE  /\ (n + 1) \div 2 \in Nat
           /\ IsTuple(hashLevel(hs), (n + 1) \div 2)
           /\ Len(hashLevel(hs)) = (n + 1) \div 2
           /\ \A i \in 1..((n + 1) \div 2) :
                 hashLevel(hs)[i] = hashPair(hs[2*i - 1], IF 2*i <= n THEN hs[2*i] ELSE hs[2*i - 1])
  <1> DEFINE m == (n + 1) \div 2
             E(i) == hashPair(hs[2*i - 1], IF 2*i <= n THEN hs[2*i] ELSE hs[2*i - 1])
  <1>1. Len(hs) = n
    BY TupleFacts
  <1>2. m \in Nat
    OBVIOUS
  <1>3. hashLevel(hs) = [i \in 1..m |-> E(i)]
    BY <1>1 DEF hashLevel
  <1>4. \A i \in 1..m : hashLevel(hs)[i] = E(i)
    <2> HIDE DEF E, m
    <2> QED BY <1>3
  <1>5. IsTuple(hashLevel(hs), m)
    <2> HIDE DEF E, m
    <2> QED BY <1>3 DEF IsTuple
  <1>6. Len(hashLevel(hs)) = m
    <2> HIDE DEF m
    <2> QED BY <1>2, <1>5, TupleFacts
  <1> QED BY <1>2, <1>4, <1>5, <1>6

\* The recursive function of layersOver, up to n.
IsTower(f, hs, n) == f = [k \in 0..n |-> IF k = 0 THEN hs ELSE hashLevel(f[k - 1])]

LEMMA TowerExists ==
    ASSUME NEW hs, NEW n \in Nat
    PROVE  \E f : IsTower(f, hs, n)
  <1> DEFINE Bad == {m \in Nat : ~\E f : IsTower(f, hs, m)}
  <1>1. SUFFICES Bad = {}
    OBVIOUS
  <1>2. SUFFICES ASSUME Bad # {} PROVE FALSE
    OBVIOUS
  <1>3. PICK m \in Bad : \A y \in Bad : m <= y
    <2>1. Bad \subseteq Nat
      OBVIOUS
    <2> HIDE DEF Bad
    <2> QED BY <1>2, <2>1, LeastNatural
  <1>4. m \in Nat
    OBVIOUS
  <1>5. PICK f : m # 0 => IsTower(f, hs, m - 1)
    <2>1. CASE m = 0
      BY <2>1
    <2>2. CASE m # 0
      <3>1. m - 1 \in Nat /\ m - 1 \notin Bad
        BY <1>3, <1>4, <2>2
      <3> QED BY <3>1
    <2> QED BY <2>1, <2>2
  <1> DEFINE E(k) == IF k = 0 THEN hs ELSE hashLevel(f[k - 1])
             g == [k \in 0..m |-> E(k)]
  <1>6. ASSUME NEW k \in 0..m, k # 0 PROVE g[k - 1] = f[k - 1]
    <2>1. k - 1 \in 0..m /\ k - 1 \in 0..(m - 1) /\ m # 0
      BY <1>4, <1>6
    <2>2. f = [j \in 0..(m - 1) |-> E(j)]
      BY <1>5, <2>1 DEF IsTower
    <2> HIDE DEF E
    <2> QED BY <2>1, <2>2
  <1>7. IsTower(g, hs, m)
    <2>1. ASSUME NEW k \in 0..m PROVE g[k] = IF k = 0 THEN hs ELSE hashLevel(g[k - 1])
      BY <1>6
    <2>2. g = [k \in 0..m |-> g[k]]
      <3> HIDE DEF E
      <3> QED OBVIOUS
    <2> HIDE DEF g
    <2> QED BY <2>1, <2>2 DEF IsTower
  <1> QED BY <1>3, <1>7

LEMMA LayersFacts ==
    ASSUME NEW n \in Nat, NEW hs, IsTuple(hs, n)
    PROVE  /\ layersOver(hs)[0] = hs
           /\ \A k \in 1..n : layersOver(hs)[k] = hashLevel(layersOver(hs)[k - 1])
  <1> DEFINE f == layersOver(hs)
  <1>1. Len(hs) = n
    BY TupleFacts
  <1>2. f = CHOOSE s : IsTower(s, hs, n)
    BY <1>1 DEF layersOver, IsTower
  <1>3. IsTower(f, hs, n)
    <2> HIDE DEF f
    <2> QED BY <1>2, TowerExists
  <1> DEFINE E(k) == IF k = 0 THEN hs ELSE hashLevel(f[k - 1])
  <1>4. f = [k \in 0..n |-> E(k)]
    <2> HIDE DEF f
    <2> QED BY <1>3 DEF IsTower
  <1>5. \A k \in 0..n : f[k] = E(k)
    <2> HIDE DEF E, f
    <2> QED BY <1>4
  <1> QED BY <1>5

\* Every layer has a node, and fewer than the one below unless it has one.
LEMMA LayerLengths ==
    ASSUME NEW n \in Nat, n >= 1, NEW hs, IsTuple(hs, n)
    PROVE  \A k \in 0..n : LET L == layersOver(hs)[k] IN
              /\ Len(L) \in Nat /\ IsTuple(L, Len(L)) /\ Len(L) >= 1
              /\ Len(L) = 1 \/ Len(L) + k <= n
  <1> DEFINE L(k) == layersOver(hs)[k]
             P(k) == /\ Len(L(k)) \in Nat /\ IsTuple(L(k), Len(L(k))) /\ Len(L(k)) >= 1
                     /\ Len(L(k)) = 1 \/ Len(L(k)) + k <= n
             Bad == {k \in Nat : k <= n /\ ~P(k)}
  <1>1. SUFFICES ASSUME Bad # {} PROVE FALSE
    OBVIOUS
  <1>2. PICK k \in Bad : \A y \in Bad : k <= y
    <2>1. Bad \subseteq Nat
      OBVIOUS
    <2> HIDE DEF Bad
    <2> QED BY <1>1, <2>1, LeastNatural
  <1>3. k \in Nat /\ k <= n /\ ~P(k)
    OBVIOUS
  <1>4. CASE k = 0
    <2>1. L(0) = hs /\ Len(hs) = n
      BY LayersFacts, TupleFacts
    <2>2. P(0)
      BY <2>1
    <2> QED BY <1>3, <1>4, <2>2
  <1>5. CASE k # 0
    <2>1. k - 1 \in Nat /\ k - 1 <= n /\ k - 1 \notin Bad
      BY <1>2, <1>3, <1>5
    <2>2. P(k - 1)
      BY <2>1
    <2> DEFINE m == Len(L(k - 1))
    <2>3. L(k) = hashLevel(L(k - 1))
      <3>1. k \in 1..n
        BY <1>3, <1>5
      <3> QED BY <3>1, LayersFacts
    <2>4. m \in Nat /\ IsTuple(L(k - 1), m) /\ m >= 1 /\ (m = 1 \/ m + (k - 1) <= n)
      BY <2>2
    <2>5. /\ (m + 1) \div 2 \in Nat
          /\ IsTuple(L(k), (m + 1) \div 2)
          /\ Len(L(k)) = (m + 1) \div 2
      <3> HIDE DEF m, L
      <3> QED BY <2>3, <2>4, HashLevelFacts
    <2>6. (m + 1) \div 2 >= 1 /\ ((m + 1) \div 2 = 1 \/ (m + 1) \div 2 + k <= n)
      <3> HIDE DEF m, L
      <3> QED BY <2>4, <1>3
    <2>7. P(k)
      <3> HIDE DEF m, L
      <3> QED BY <2>5, <2>6
    <2> QED BY <1>3, <2>7
  <1> QED BY <1>4, <1>5

\* The layers of a tree over n leaf hashes: each has the parents of the one
\* below, and the last one has one node.
IsTree(layers, hs, n) ==
    /\ Len(layers) \in 1..(n + 1)
    /\ layers[1] = hs
    /\ \A k \in 1..Len(layers) : /\ Len(layers[k]) \in Nat /\ Len(layers[k]) >= 1
                                 /\ IsTuple(layers[k], Len(layers[k]))
    /\ \A k \in 1..(Len(layers) - 1) : layers[k + 1] = hashLevel(layers[k])
    /\ Len(layers[Len(layers)]) = 1

LEMMA BuildLayersFacts ==
    ASSUME NEW n \in Nat, n >= 1, NEW hs, IsTuple(hs, n)
    PROVE  IsTree(buildLayers(hs), hs, n) /\ (n >= 2 => Len(buildLayers(hs)) >= 2)
  <1> DEFINE L == layersOver(hs)
             T(k) == Len(L[k]) = 1 /\ \A j \in 0..(k - 1) : Len(L[j]) > 1
             top == CHOOSE k \in 0..n : T(k)
             B == {k \in Nat : k <= n /\ Len(L[k]) = 1}
  <1>1. Len(hs) = n
    BY TupleFacts
  <1>2. \A k \in 0..n : /\ Len(L[k]) \in Nat /\ IsTuple(L[k], Len(L[k])) /\ Len(L[k]) >= 1
                        /\ Len(L[k]) = 1 \/ Len(L[k]) + k <= n
    BY LayerLengths
  <1>3. n \in B
    <2>1. n \in 0..n
      OBVIOUS
    <2> HIDE DEF L
    <2> QED BY <1>2, <2>1
  <1>4. PICK k \in B : \A y \in B : k <= y
    <2>1. B \subseteq Nat /\ B # {}
      BY <1>3
    <2> HIDE DEF B
    <2> QED BY <2>1, LeastNatural
  <1>5. k \in 0..n /\ T(k)
    <2> HIDE DEF L
    <2>1. k \in 0..n /\ Len(L[k]) = 1
      OBVIOUS
    <2>2. ASSUME NEW j \in 0..(k - 1) PROVE Len(L[j]) > 1
      <3>1. j \in Nat /\ j < k /\ j <= n /\ j \in 0..n
        BY <2>1
      <3>2. j \notin B
        BY <3>1, <1>4, <2>1
      <3>3. Len(L[j]) # 1
        BY <3>1, <3>2
      <3>4. Len(L[j]) \in Nat /\ Len(L[j]) >= 1
        BY <3>1, <1>2
      <3>5. \A x \in Nat : x >= 1 /\ x # 1 => x > 1
        OBVIOUS
      <3> QED BY <3>3, <3>4, <3>5, Zenon
    <2> QED BY <2>1, <2>2
  <1>6. top \in 0..n /\ T(top)
    <2> HIDE DEF T
    <2> QED BY <1>5
  <1>7. buildLayers(hs) = [i \in 1..(top + 1) |-> L[i - 1]]
    BY <1>1 DEF buildLayers
  <1> HIDE DEF top, L, B
  <1> DEFINE b == buildLayers(hs)
  <1>8. top \in Nat /\ top <= n /\ top + 1 \in Nat
    BY <1>6
  <1>9. \A i \in 1..(top + 1) : b[i] = L[i - 1]
    BY <1>7
  <1>10. IsTuple(b, top + 1)
    BY <1>7, <1>9 DEF IsTuple
  <1>11. Len(b) = top + 1
    <2> HIDE DEF b
    <2> QED BY <1>8, <1>10, TupleFacts
  <1> HIDE DEF b
  <1>12. b[1] = hs
    <2>1. 1 \in 1..(top + 1)
      BY <1>8
    <2>2. L[0] = hs
      BY LayersFacts DEF L
    <2> QED BY <2>1, <2>2, <1>9
  <1>13. ASSUME NEW i \in 1..Len(b)
         PROVE  Len(b[i]) \in Nat /\ Len(b[i]) >= 1 /\ IsTuple(b[i], Len(b[i]))
    <2>1. i \in 1..(top + 1) /\ i - 1 \in 0..n
      BY <1>8, <1>11
    <2> QED BY <2>1, <1>2, <1>9
  <1>14. ASSUME NEW i \in 1..(Len(b) - 1) PROVE b[i + 1] = hashLevel(b[i])
    <2>1. i \in 1..(top + 1) /\ i + 1 \in 1..(top + 1) /\ i \in 1..n /\ (i + 1) - 1 = i
      BY <1>8, <1>11
    <2>2. L[i] = hashLevel(L[i - 1])
      BY <2>1, LayersFacts DEF L
    <2>3. b[i + 1] = L[i] /\ b[i] = L[i - 1]
      BY <2>1, <1>9
    <2> QED BY <2>2, <2>3
  <1>15. Len(b[Len(b)]) = 1
    <2>1. top + 1 \in 1..(top + 1) /\ (top + 1) - 1 = top
      BY <1>8
    <2>2. b[top + 1] = L[top]
      BY <2>1, <1>9
    <2> QED BY <2>2, <1>6, <1>11
  <1>16. Len(b) \in 1..(n + 1)
    BY <1>8, <1>11
  <1>17. n >= 2 => Len(b) >= 2
    <2>1. SUFFICES ASSUME n >= 2, top = 0 PROVE FALSE
      BY <1>8, <1>11
    <2>2. Len(L[0]) = 1 /\ L[0] = hs
      BY <2>1, <1>6, LayersFacts DEF L
    <2> QED BY <2>1, <2>2, <1>1
  <1>18. IsTree(b, hs, n)
    BY <1>12, <1>13, <1>14, <1>15, <1>16 DEF IsTree
  <1> QED BY <1>17, <1>18 DEF b

\* The tree of the entries S, in the order in which sortLeaves puts them.
LEMMA NewTreeFacts ==
    ASSUME NEW S \in SUBSET Entries, IsFiniteSet(S), NEW s \in SetToSeqs(S),
           Cardinality(S) >= 2
    PROVE  LET t == NewTree(s) n == Cardinality(S) IN
           /\ t.leaves \in Seq(S) /\ Len(t.leaves) = n /\ ToSet(t.leaves) = S
           /\ IsTree(t.layers, leafHashes(t.leaves), n) /\ Len(t.layers) >= 2
           /\ t.Root = t.layers[Len(t.layers)][1]
  <1> DEFINE n == Cardinality(S)
             leaves == sortLeaves(s)
             layers == buildLayers(leafHashes(leaves))
  <1>1. /\ leaves \in Seq(S) /\ Len(leaves) = n /\ ToSet(leaves) = S
        /\ Len(s) = n /\ n \in Nat
    BY SortLeavesFacts
  <1>2. NewTree(s) = [Root |-> layers[Len(layers)][1], leaves |-> leaves, layers |-> layers]
    <2>1. Len(s) # 0 /\ Len(s) # 1
      BY <1>1
    <2> QED BY <2>1 DEF NewTree
  <1>3. IsTuple(leafHashes(leaves), n)
    <2> HIDE DEF leaves
    <2> QED BY <1>1 DEF leafHashes, IsTuple
  <1>4. IsTree(layers, leafHashes(leaves), n) /\ Len(layers) >= 2
    <2>1. n \in Nat /\ n >= 1 /\ n >= 2
      BY <1>1
    <2> HIDE DEF n, leaves
    <2> QED BY <2>1, <1>3, BuildLayersFacts
  <1> HIDE DEF leaves, layers
  <1> QED BY <1>1, <1>2, <1>4

\* One entry is its own root; no entry has the hash of nothing.
LEMMA SmallTrees ==
    ASSUME NEW S \in SUBSET Entries, IsFiniteSet(S), NEW s \in SetToSeqs(S)
    PROVE  LET t == NewTree(s) IN
           /\ S = {} => t.Root = EmptyHash
           /\ \A e : S = {e} => t.Root = HashLeaf(e) /\ t.layers = <<>>
           /\ S # {} /\ (\A e : S # {e}) => Cardinality(S) >= 2
  <1> DEFINE n == Cardinality(S)
             leaves == sortLeaves(s)
  <1>1. /\ leaves \in Seq(S) /\ Len(leaves) = n /\ ToSet(leaves) = S
        /\ Len(s) = n /\ n \in Nat
    BY SortLeavesFacts
  <1>2. ASSUME S = {} PROVE NewTree(s).Root = EmptyHash
    <2>1. Len(s) = 0
      BY <1>1, <1>2, FS_EmptySet
    <2> QED BY <2>1 DEF NewTree
  <1>3. ASSUME NEW e, S = {e} PROVE NewTree(s).Root = HashLeaf(e) /\ NewTree(s).layers = <<>>
    <2>1. n = 1
      BY <1>3, FS_Singleton
    <2>2. leaves[1] = e
      <3>1. leaves[1] \in S
        <4>1. Len(leaves) = 1 /\ leaves \in Seq(S)
          BY <1>1, <2>1
        <4>2. 1 \in 1..Len(leaves)
          BY <4>1
        <4> HIDE DEF leaves
        <4> QED BY <4>1, <4>2, SeqIsTuple
      <3> QED BY <3>1, <1>3
    <2>3. NewTree(s) = [Root |-> HashLeaf(leaves[1]), leaves |-> leaves, layers |-> <<>>]
      <3>1. Len(s) = 1
        BY <1>1, <2>1
      <3> QED BY <3>1 DEF NewTree
    <2> HIDE DEF leaves
    <2> QED BY <2>2, <2>3
  <1>4. ASSUME S # {}, \A e : S # {e} PROVE n >= 2
    <2>1. n # 0
      BY <1>4, FS_EmptySet
    <2>2. n # 1
      BY <1>4, FS_Singleton
    <2> QED BY <1>1, <2>1, <2>2
  <1> QED BY <1>2, <1>3, <1>4

-----------------------------------------------------------------------------
(* Proofs.                                                                 *)

\* A node hashed with its sibling is its parent.
LEMMA SiblingStep ==
    ASSUME NEW n \in Nat, NEW hs, IsTuple(hs, n), NEW i \in Nat, i < n
    PROVE  /\ i \div 2 \in Nat /\ i \div 2 < (n + 1) \div 2
           /\ hashPair(hs[i + 1], sibling(hs, i)) = hashLevel(hs)[(i \div 2) + 1]
  <1> DEFINE p == i \div 2
             m == (n + 1) \div 2
  <1>1. p \in Nat /\ m \in Nat /\ p < m /\ p + 1 \in 1..m
    OBVIOUS
  <1>2. Len(hs) = n
    BY TupleFacts
  <1>3. hashLevel(hs)[p + 1] =
            hashPair(hs[2*(p + 1) - 1], IF 2*(p + 1) <= n THEN hs[2*(p + 1)] ELSE hs[2*(p + 1) - 1])
    <2>1. \A j \in 1..m : hashLevel(hs)[j] =
              hashPair(hs[2*j - 1], IF 2*j <= n THEN hs[2*j] ELSE hs[2*j - 1])
      BY HashLevelFacts
    <2> HIDE DEF p, m
    <2> QED BY <1>1, <2>1
  <1>4. CASE i % 2 = 1
    <2>1. 2*(p + 1) - 1 = i /\ 2*(p + 1) = i + 1 /\ i + 1 <= n
      BY <1>4
    <2>2. hashLevel(hs)[p + 1] = hashPair(hs[i], hs[i + 1])
      <3> HIDE DEF p
      <3> QED BY <2>1, <1>3
    <2>3. sibling(hs, i) = hs[i]
      BY <1>4 DEF sibling
    <2>4. hashPair(hs[i + 1], hs[i]) = hashPair(hs[i], hs[i + 1])
      BY DEF hashPair
    <2> QED BY <1>1, <2>2, <2>3, <2>4
  <1>5. CASE i % 2 # 1
    <2>1. 2*(p + 1) - 1 = i + 1 /\ 2*(p + 1) = i + 2
      BY <1>5
    <2>2. hashLevel(hs)[p + 1] = hashPair(hs[i + 1], IF i + 2 <= n THEN hs[i + 2] ELSE hs[i + 1])
      <3> HIDE DEF p
      <3> QED BY <2>1, <1>3
    <2>3. sibling(hs, i) = IF i + 2 <= n THEN hs[i + 2] ELSE hs[i + 1]
      <3>1. (i + 1 < n) <=> (i + 2 <= n)
        OBVIOUS
      <3> QED BY <1>2, <1>5, <3>1 DEF sibling
    <2> QED BY <1>1, <2>2, <2>3
  <1> QED BY <1>4, <1>5

\* The recursive function of ancestors.
IsPath(f, i, n) == f = [k \in 0..n |-> IF k = 0 THEN i ELSE f[k - 1] \div 2]

LEMMA PathExists ==
    ASSUME NEW i, NEW n \in Nat
    PROVE  \E f : IsPath(f, i, n)
  <1> DEFINE Bad == {m \in Nat : ~\E f : IsPath(f, i, m)}
  <1>1. SUFFICES Bad = {}
    OBVIOUS
  <1>2. SUFFICES ASSUME Bad # {} PROVE FALSE
    OBVIOUS
  <1>3. PICK m \in Bad : \A y \in Bad : m <= y
    <2>1. Bad \subseteq Nat
      OBVIOUS
    <2> HIDE DEF Bad
    <2> QED BY <1>2, <2>1, LeastNatural
  <1>4. m \in Nat
    OBVIOUS
  <1>5. PICK f : m # 0 => IsPath(f, i, m - 1)
    <2>1. CASE m = 0
      BY <2>1
    <2>2. CASE m # 0
      <3>1. m - 1 \in Nat /\ m - 1 \notin Bad
        BY <1>3, <1>4, <2>2
      <3> QED BY <3>1
    <2> QED BY <2>1, <2>2
  <1> DEFINE E(k) == IF k = 0 THEN i ELSE f[k - 1] \div 2
             g == [k \in 0..m |-> E(k)]
  <1>6. ASSUME NEW k \in 0..m, k # 0 PROVE g[k - 1] = f[k - 1]
    <2>1. k - 1 \in 0..m /\ k - 1 \in 0..(m - 1) /\ m # 0
      BY <1>4, <1>6
    <2>2. f = [j \in 0..(m - 1) |-> E(j)]
      BY <1>5, <2>1 DEF IsPath
    <2> HIDE DEF E
    <2> QED BY <2>1, <2>2
  <1>7. IsPath(g, i, m)
    <2>1. ASSUME NEW k \in 0..m PROVE g[k] = IF k = 0 THEN i ELSE g[k - 1] \div 2
      BY <1>6
    <2>2. g = [k \in 0..m |-> g[k]]
      <3> HIDE DEF E
      <3> QED OBVIOUS
    <2> HIDE DEF g
    <2> QED BY <2>1, <2>2 DEF IsPath
  <1> QED BY <1>3, <1>7

LEMMA AncestorsFacts ==
    ASSUME NEW t, NEW c, Len(t.layers) \in Nat
    PROVE  /\ ancestors(t, c)[0] = findLeaf(t, c)
           /\ \A k \in 1..Len(t.layers) : ancestors(t, c)[k] = ancestors(t, c)[k - 1] \div 2
  <1> DEFINE f == ancestors(t, c)
             n == Len(t.layers)
             i == findLeaf(t, c)
  <1>1. f = CHOOSE s : IsPath(s, i, n)
    BY DEF ancestors, IsPath
  <1>2. IsPath(f, i, n)
    <2> HIDE DEF f, i, n
    <2>1. n \in Nat
      BY DEF n
    <2> QED BY <1>1, <2>1, PathExists
  <1> DEFINE E(k) == IF k = 0 THEN i ELSE f[k - 1] \div 2
  <1>3. f = [k \in 0..n |-> E(k)]
    <2> HIDE DEF f, i, n
    <2> QED BY <1>2 DEF IsPath
  <1>4. \A k \in 0..n : f[k] = E(k)
    <2> HIDE DEF E, f, n
    <2> QED BY <1>3
  <1> QED BY <1>4

\* The recursive function of GetProof.
IsWalk(f, layers, idx, n) ==
    f = [k \in 0..n |-> IF k = 0 THEN <<>>
                        ELSE Append(f[k - 1], sibling(layers[k], idx[k - 1]))]

LEMMA WalkExists ==
    ASSUME NEW layers, NEW idx, NEW n \in Nat
    PROVE  \E f : IsWalk(f, layers, idx, n)
  <1> DEFINE Bad == {m \in Nat : ~\E f : IsWalk(f, layers, idx, m)}
  <1>1. SUFFICES Bad = {}
    OBVIOUS
  <1>2. SUFFICES ASSUME Bad # {} PROVE FALSE
    OBVIOUS
  <1>3. PICK m \in Bad : \A y \in Bad : m <= y
    <2>1. Bad \subseteq Nat
      OBVIOUS
    <2> HIDE DEF Bad
    <2> QED BY <1>2, <2>1, LeastNatural
  <1>4. m \in Nat
    OBVIOUS
  <1>5. PICK f : m # 0 => IsWalk(f, layers, idx, m - 1)
    <2>1. CASE m = 0
      BY <2>1
    <2>2. CASE m # 0
      <3>1. m - 1 \in Nat /\ m - 1 \notin Bad
        BY <1>3, <1>4, <2>2
      <3> QED BY <3>1
    <2> QED BY <2>1, <2>2
  <1> DEFINE E(k) == IF k = 0 THEN <<>> ELSE Append(f[k - 1], sibling(layers[k], idx[k - 1]))
             g == [k \in 0..m |-> E(k)]
  <1>6. ASSUME NEW k \in 0..m, k # 0 PROVE g[k - 1] = f[k - 1]
    <2>1. k - 1 \in 0..m /\ k - 1 \in 0..(m - 1) /\ m # 0
      BY <1>4, <1>6
    <2>2. f = [j \in 0..(m - 1) |-> E(j)]
      BY <1>5, <2>1 DEF IsWalk
    <2> HIDE DEF E
    <2> QED BY <2>1, <2>2
  <1>7. IsWalk(g, layers, idx, m)
    <2>1. ASSUME NEW k \in 0..m
          PROVE  g[k] = IF k = 0 THEN <<>> ELSE Append(g[k - 1], sibling(layers[k], idx[k - 1]))
      BY <1>6
    <2>2. g = [k \in 0..m |-> g[k]]
      <3> HIDE DEF E
      <3> QED OBVIOUS
    <2> HIDE DEF g
    <2> QED BY <2>1, <2>2 DEF IsWalk
  <1> QED BY <1>3, <1>7

\* A proof has one sibling for each layer below the root.
LEMMA GetProofFacts ==
    ASSUME NEW t, NEW c, Len(t.layers) \in Nat, Len(t.layers) >= 1
    PROVE  /\ Len(GetProof(t, c)) = Len(t.layers) - 1
           /\ IsTuple(GetProof(t, c), Len(t.layers) - 1)
           /\ \A k \in 1..(Len(t.layers) - 1) :
                 GetProof(t, c)[k] = sibling(t.layers[k], ancestors(t, c)[k - 1])
  <1> DEFINE n == Len(t.layers)
             idx == ancestors(t, c)
             w == CHOOSE f : IsWalk(f, t.layers, idx, n)
             X(k) == sibling(t.layers[k], idx[k - 1])
  <1>1. GetProof(t, c) = w[n - 1]
    BY DEF GetProof, IsWalk
  <1>2. IsWalk(w, t.layers, idx, n)
    <2> HIDE DEF idx
    <2> QED BY WalkExists
  <1> DEFINE E(k) == IF k = 0 THEN <<>> ELSE Append(w[k - 1], X(k))
  <1>3. w = [k \in 0..n |-> E(k)]
    <2> HIDE DEF w, idx
    <2> QED BY <1>2 DEF IsWalk
  <1>4. \A k \in 0..n : w[k] = E(k)
    <2> HIDE DEF E, w, n
    <2> QED BY <1>3
  <1> DEFINE Y == {X(k) : k \in 1..n}
             P(k) == w[k] \in Seq(Y) /\ Len(w[k]) = k /\ \A j \in 1..k : w[k][j] = X(j)
             Bad == {k \in Nat : k <= n /\ ~P(k)}
  <1>5. \A k \in 1..n : X(k) \in Y
    OBVIOUS
  <1>6. n \in Nat /\ n >= 1
    OBVIOUS
  <1>7. Bad = {}
    <2> HIDE DEF w, X, n, Y
    <2>1. SUFFICES ASSUME Bad # {} PROVE FALSE
      OBVIOUS
    <2>2. PICK k \in Bad : \A y \in Bad : k <= y
      <3>1. Bad \subseteq Nat
        OBVIOUS
      <3> HIDE DEF Bad
      <3> QED BY <2>1, <3>1, LeastNatural
    <2>3. k \in Nat /\ k <= n /\ ~P(k)
      OBVIOUS
    <2>4. CASE k = 0
      <3>1. w[0] = <<>>
        BY <1>4, <1>6
      <3>2. P(0)
        BY <3>1
      <3> QED BY <2>3, <2>4, <3>2
    <2>5. CASE k # 0
      <3>1. k - 1 \in Nat /\ k - 1 <= n /\ k - 1 \notin Bad
        BY <2>2, <2>3, <2>5, <1>6
      <3>2. P(k - 1)
        BY <3>1
      <3>3. w[k] = Append(w[k - 1], X(k)) /\ X(k) \in Y
        <4>1. k \in 0..n /\ k \in 1..n
          BY <1>6, <2>3, <2>5
        <4>2. w[k] = E(k)
          BY <4>1, <1>4
        <4> QED BY <4>1, <4>2, <1>5, <2>5
      <3>4. /\ w[k] \in Seq(Y) /\ Len(w[k]) = k
            /\ \A j \in 1..(k - 1) : w[k][j] = w[k - 1][j]
            /\ w[k][k] = X(k)
        BY <3>2, <3>3, <2>3, AppendFacts
      <3>5. P(k)
        BY <3>2, <3>4, <2>3
      <3> QED BY <3>5, <2>3
    <2> QED BY <2>4, <2>5
  <1>8. P(n - 1)
    <2>1. n - 1 \in Nat /\ n - 1 <= n
      BY <1>6
    <2> HIDE DEF P, n
    <2> QED BY <1>7, <2>1
  <1>9. IsTuple(w[n - 1], n - 1)
    <2>1. w[n - 1] \in Seq(Y) /\ Len(w[n - 1]) = n - 1
      BY <1>8
    <2> HIDE DEF w, n, Y
    <2> QED BY <2>1 DEF IsTuple
  <1> HIDE DEF w
  <1> QED BY <1>1, <1>8, <1>9

\* The recursive function of ProcessProof.
IsFold(f, x, proof, n) == f = [k \in 0..n |-> IF k = 0 THEN x ELSE hashPair(f[k - 1], proof[k])]

LEMMA FoldExists ==
    ASSUME NEW x, NEW proof, NEW n \in Nat
    PROVE  \E f : IsFold(f, x, proof, n)
  <1> DEFINE Bad == {m \in Nat : ~\E f : IsFold(f, x, proof, m)}
  <1>1. SUFFICES Bad = {}
    OBVIOUS
  <1>2. SUFFICES ASSUME Bad # {} PROVE FALSE
    OBVIOUS
  <1>3. PICK m \in Bad : \A y \in Bad : m <= y
    <2>1. Bad \subseteq Nat
      OBVIOUS
    <2> HIDE DEF Bad
    <2> QED BY <1>2, <2>1, LeastNatural
  <1>4. m \in Nat
    OBVIOUS
  <1>5. PICK f : m # 0 => IsFold(f, x, proof, m - 1)
    <2>1. CASE m = 0
      BY <2>1
    <2>2. CASE m # 0
      <3>1. m - 1 \in Nat /\ m - 1 \notin Bad
        BY <1>3, <1>4, <2>2
      <3> QED BY <3>1
    <2> QED BY <2>1, <2>2
  <1> DEFINE E(k) == IF k = 0 THEN x ELSE hashPair(f[k - 1], proof[k])
             g == [k \in 0..m |-> E(k)]
  <1>6. ASSUME NEW k \in 0..m, k # 0 PROVE g[k - 1] = f[k - 1]
    <2>1. k - 1 \in 0..m /\ k - 1 \in 0..(m - 1) /\ m # 0
      BY <1>4, <1>6
    <2>2. f = [j \in 0..(m - 1) |-> E(j)]
      BY <1>5, <2>1 DEF IsFold
    <2> HIDE DEF E
    <2> QED BY <2>1, <2>2
  <1>7. IsFold(g, x, proof, m)
    <2>1. ASSUME NEW k \in 0..m
          PROVE  g[k] = IF k = 0 THEN x ELSE hashPair(g[k - 1], proof[k])
      BY <1>6
    <2>2. g = [k \in 0..m |-> g[k]]
      <3> HIDE DEF E
      <3> QED OBVIOUS
    <2> HIDE DEF g
    <2> QED BY <2>1, <2>2 DEF IsFold
  <1> QED BY <1>3, <1>7

\* The hashes that ProcessProof goes through.
Folded(f, x, proof, n) ==
    /\ f[0] = x /\ f[n] = ProcessProof(x, proof)
    /\ \A k \in 1..n : f[k] = hashPair(f[k - 1], proof[k])

LEMMA ProcessProofFacts ==
    ASSUME NEW x, NEW n \in Nat, NEW proof, IsTuple(proof, n)
    PROVE  \E f : Folded(f, x, proof, n)
  <1> DEFINE f == CHOOSE s : IsFold(s, x, proof, n)
  <1>1. Len(proof) = n
    BY TupleFacts
  <1>2. ProcessProof(x, proof) = f[n]
    BY <1>1 DEF ProcessProof, IsFold
  <1>3. IsFold(f, x, proof, n)
    BY FoldExists
  <1> DEFINE E(k) == IF k = 0 THEN x ELSE hashPair(f[k - 1], proof[k])
  <1>4. f = [k \in 0..n |-> E(k)]
    <2> HIDE DEF f
    <2> QED BY <1>3 DEF IsFold
  <1>5. \A k \in 0..n : f[k] = E(k)
    <2> HIDE DEF E, f
    <2> QED BY <1>4
  <1>6. f[0] = x /\ \A k \in 1..n : f[k] = hashPair(f[k - 1], proof[k])
    <2> HIDE DEF f
    <2> QED BY <1>5
  <1> HIDE DEF f
  <1>7. Folded(f, x, proof, n)
    BY <1>2, <1>6 DEF Folded
  <1> QED BY <1>7

\* A pair and one of its parts give the other: hashPair is injective.
LEMMA PairInjective ==
    ASSUME NEW x, NEW y, NEW s, hashPair(x, s) = hashPair(y, s)
    PROVE  x = y
  <1>1. hashPair(x, s).pair = {x, s} /\ hashPair(y, s).pair = {y, s}
    BY DEF hashPair
  <1>2. {x, s} = {y, s}
    BY <1>1
  <1> QED BY <1>2

\* A proof leads from one hash to the root only.
LEMMA ProcessProofInjective ==
    ASSUME NEW x, NEW y, NEW n \in Nat, NEW proof, IsTuple(proof, n),
           ProcessProof(x, proof) = ProcessProof(y, proof)
    PROVE  x = y
  <1>a. PICK f : Folded(f, x, proof, n)
    BY ProcessProofFacts
  <1>b. PICK g : Folded(g, y, proof, n)
    BY ProcessProofFacts
  <1>1. /\ f[0] = x /\ f[n] = ProcessProof(x, proof)
        /\ \A k \in 1..n : f[k] = hashPair(f[k - 1], proof[k])
    BY <1>a DEF Folded
  <1>2. /\ g[0] = y /\ g[n] = ProcessProof(y, proof)
        /\ \A k \in 1..n : g[k] = hashPair(g[k - 1], proof[k])
    BY <1>b DEF Folded
  <1> DEFINE Same == {k \in Nat : k <= n /\ f[k] = g[k]}
  <1>3. n \in Same
    BY <1>1, <1>2
  <1>4. PICK k \in Same : \A j \in Same : k <= j
    <2>1. Same \subseteq Nat /\ Same # {}
      BY <1>3
    <2> HIDE DEF Same
    <2> QED BY <2>1, LeastNatural
  <1>5. k \in Nat /\ k <= n /\ f[k] = g[k]
    OBVIOUS
  <1>6. CASE k = 0
    BY <1>1, <1>2, <1>5, <1>6
  <1>7. CASE k # 0
    <2>1. k \in 1..n /\ k - 1 \in Nat /\ k - 1 <= n
      BY <1>5, <1>7
    <2>2. hashPair(f[k - 1], proof[k]) = hashPair(g[k - 1], proof[k])
      BY <2>1, <1>1, <1>2, <1>5
    <2>3. f[k - 1] = g[k - 1]
      BY <2>2, PairInjective
    <2>4. k - 1 \in Same
      BY <2>1, <2>3
    <2> QED BY <1>4, <1>5, <2>4
  <1> QED BY <1>6, <1>7

\* The proof of a leaf leads to the root.
LEMMA ProofReachesRoot ==
    ASSUME NEW n \in Nat, n >= 1, NEW t, NEW c, NEW hs, IsTuple(hs, n),
           IsTree(t.layers, hs, n), findLeaf(t, c) \in Nat, findLeaf(t, c) < n
    PROVE  ProcessProof(hs[findLeaf(t, c) + 1], GetProof(t, c)) = t.layers[Len(t.layers)][1]
  <1> DEFINE h == Len(t.layers)
             L(k) == t.layers[k]
             idx == ancestors(t, c)
             proof == GetProof(t, c)
  <1>1. /\ h \in Nat /\ h >= 1 /\ L(1) = hs /\ Len(L(h)) = 1
        /\ \A k \in 1..h : Len(L(k)) \in Nat /\ IsTuple(L(k), Len(L(k)))
        /\ \A k \in 1..(h - 1) : L(k + 1) = hashLevel(L(k))
    BY DEF IsTree
  <1>2. /\ idx[0] = findLeaf(t, c)
        /\ \A k \in 1..h : idx[k] = idx[k - 1] \div 2
    BY <1>1, AncestorsFacts
  <1>3. /\ IsTuple(proof, h - 1)
        /\ \A k \in 1..(h - 1) : proof[k] = sibling(L(k), idx[k - 1])
    BY <1>1, GetProofFacts
  <1>4. h - 1 \in Nat /\ Len(hs) = n
    BY <1>1, TupleFacts
  <1> DEFINE x == hs[findLeaf(t, c) + 1]
  <1>a. PICK f : Folded(f, x, proof, h - 1)
    <2> HIDE DEF h, proof, x
    <2> QED BY <1>3, <1>4, ProcessProofFacts
  <1>5. /\ f[0] = x /\ f[h - 1] = ProcessProof(x, proof)
        /\ \A k \in 1..(h - 1) : f[k] = hashPair(f[k - 1], proof[k])
    BY <1>a DEF Folded
  <1> DEFINE P(k) == idx[k] \in Nat /\ idx[k] < Len(L(k + 1)) /\ f[k] = L(k + 1)[idx[k] + 1]
             Bad == {k \in Nat : k <= h - 1 /\ ~P(k)}
  <1>6. Bad = {}
    <2>1. SUFFICES ASSUME Bad # {} PROVE FALSE
      OBVIOUS
    <2>2. PICK k \in Bad : \A y \in Bad : k <= y
      <3>1. Bad \subseteq Nat
        OBVIOUS
      <3> HIDE DEF Bad
      <3> QED BY <2>1, <3>1, LeastNatural
    <2>3. k \in Nat /\ k <= h - 1 /\ ~P(k)
      OBVIOUS
    <2>4. CASE k = 0
      <3>1. L(0 + 1) = hs
        BY <1>1
      <3>2. P(0)
        BY <3>1, <1>2, <1>4, <1>5
      <3> QED BY <2>3, <2>4, <3>2
    <2>5. CASE k # 0
      <3>1. k - 1 \in Nat /\ k - 1 <= h - 1 /\ k - 1 \notin Bad
        BY <2>2, <2>3, <2>5, <1>1
      <3>2. P(k - 1)
        BY <3>1
      <3>3. k \in 1..h /\ k \in 1..(h - 1) /\ k - 1 + 1 = k
        BY <1>1, <2>3, <2>5
      <3> DEFINE i == idx[k - 1]
                 m == Len(L(k))
      <3>4. i \in Nat /\ i < m /\ f[k - 1] = L(k)[i + 1]
        BY <3>2, <3>3
      <3>5. m \in Nat /\ IsTuple(L(k), m)
        BY <1>1, <3>3
      <3>6. /\ i \div 2 \in Nat /\ i \div 2 < (m + 1) \div 2
            /\ hashPair(L(k)[i + 1], sibling(L(k), i)) = hashLevel(L(k))[(i \div 2) + 1]
        <4> DEFINE l == L(k)
        <4>1. IsTuple(l, m) /\ m \in Nat /\ i \in Nat /\ i < m
          BY <3>4, <3>5
        <4> HIDE DEF i, m, l, L, h, idx, proof, P, Bad
        <4>2. /\ i \div 2 \in Nat /\ i \div 2 < (m + 1) \div 2
              /\ hashPair(l[i + 1], sibling(l, i)) = hashLevel(l)[(i \div 2) + 1]
          BY <4>1, SiblingStep
        <4> QED BY <4>2 DEF l
      <3>7. Len(hashLevel(L(k))) = (m + 1) \div 2
        <4> HIDE DEF m, L
        <4> QED BY <3>5, HashLevelFacts
      <3>8. L(k + 1) = hashLevel(L(k)) /\ idx[k] = i \div 2
        BY <1>1, <1>2, <3>3
      <3>9. f[k] = hashPair(L(k)[i + 1], sibling(L(k), i))
        <4>1. f[k] = hashPair(f[k - 1], proof[k])
          BY <1>5, <3>3
        <4>2. proof[k] = sibling(L(k), i)
          BY <1>3, <3>3
        <4> HIDE DEF i, proof, L
        <4> QED BY <4>1, <4>2, <3>4
      <3>10. P(k)
        <4> HIDE DEF i, m, L, idx
        <4> QED BY <3>6, <3>7, <3>8, <3>9
      <3> QED BY <3>10, <2>3
    <2> QED BY <2>4, <2>5
  <1>7. P(h - 1)
    <2> HIDE DEF P, h
    <2> QED BY <1>4, <1>6
  <1>8. idx[h - 1] = 0 /\ f[h - 1] = L(h)[1]
    <2>1. h - 1 + 1 = h
      BY <1>1
    <2>2. idx[h - 1] \in Nat /\ idx[h - 1] < 1 /\ f[h - 1] = L(h)[idx[h - 1] + 1]
      BY <1>1, <1>7, <2>1
    <2>3. idx[h - 1] = 0
      BY <2>2
    <2> HIDE DEF idx, h, L
    <2> QED BY <2>2, <2>3
  <1> QED BY <1>5, <1>8

-----------------------------------------------------------------------------
(* The tree of a map.                                                      *)

LEMMA EntriesOfFacts ==
    ASSUME NEW m \in BalanceMaps
    PROVE  /\ EntriesOf(m) \subseteq Entries /\ IsFiniteSet(EntriesOf(m))
           /\ Cardinality(EntriesOf(m)) <= Cardinality(ClusterIds)
           /\ Cardinality(ClusterIds) \in Nat
           /\ \A e \in EntriesOf(m) : e[1] \in DOMAIN m /\ e = <<e[1], m[e[1]]>>
           /\ \A c \in DOMAIN m : <<c, m[c]>> \in EntriesOf(m)
  <1> DEFINE S == EntriesOf(m)
  <1>1. DOMAIN m \subseteq ClusterIds /\ \A c \in DOMAIN m : m[c] \in Balances
    BY DEF BalanceMaps
  <1>2. S \subseteq Entries
    BY <1>1 DEF EntriesOf, Entries
  <1>3. IsFiniteSet(Entries)
    BY RankAssumption, FS_Product DEF Entries
  <1>4. IsFiniteSet(S)
    <2> HIDE DEF S
    <2> QED BY <1>2, <1>3, FS_Subset
  <1>5. \A e \in S : e[1] \in DOMAIN m /\ e = <<e[1], m[e[1]]>>
    BY DEF EntriesOf
  <1>6. \A c \in DOMAIN m : <<c, m[c]>> \in S
    BY DEF EntriesOf
  <1> DEFINE f == [e \in S |-> e[1]]
  <1>7. f \in Injection(S, ClusterIds)
    <2> HIDE DEF S
    <2>1. f \in [S -> ClusterIds]
      BY <1>1, <1>5
    <2>2. ASSUME NEW a \in S, NEW b \in S, f[a] = f[b] PROVE a = b
      BY <2>2, <1>5
    <2>3. IsInjective(f)
      BY <2>2 DEF IsInjective
    <2> QED BY <2>1, <2>3 DEF Injection
  <1>8. Cardinality(S) <= Cardinality(ClusterIds) /\ Cardinality(ClusterIds) \in Nat
    <2> HIDE DEF S, f
    <2> QED BY <1>7, RankAssumption, FS_Injection, FS_CardinalityType
  <1> QED BY <1>2, <1>4, <1>5, <1>6, <1>8

LEMMA LeafInjective ==
    ASSUME NEW d, NEW e, HashLeaf(d) = HashLeaf(e)
    PROVE  d = e
  <1>1. HashLeaf(d).leaf = {d} /\ HashLeaf(e).leaf = {e}
    BY DEF HashLeaf
  <1>2. {d} = {e}
    BY <1>1
  <1> QED BY <1>2

\* The proof of a cluster of the map verifies, and for its entry only.
LEMMA ProofVerifies ==
    ASSUME NEW m \in BalanceMaps, NEW s \in SetToSeqs(EntriesOf(m)), NEW c \in DOMAIN m, NEW e
    PROVE  ProcessProof(HashLeaf(e), GetProof(NewTree(s), c)) = NewTree(s).Root
               <=> e = <<c, m[c]>>
  <1> DEFINE S == EntriesOf(m)
             t == NewTree(s)
             proof == GetProof(t, c)
             own == <<c, m[c]>>
             n == Cardinality(S)
  <1>1. S \in SUBSET Entries /\ IsFiniteSet(S) /\ own \in S
    BY EntriesOfFacts
  <1>2. SUFFICES /\ ProcessProof(HashLeaf(own), proof) = t.Root
                 /\ \E h \in Nat : IsTuple(proof, h)
    <2>1. PICK h \in Nat : IsTuple(proof, h)
      BY <1>2
    <2>2. ASSUME ProcessProof(HashLeaf(e), proof) = t.Root PROVE e = own
      <3>1. ProcessProof(HashLeaf(e), proof) = ProcessProof(HashLeaf(own), proof)
        BY <1>2, <2>2
      <3>2. HashLeaf(e) = HashLeaf(own)
        <4> HIDE DEF proof, own
        <4> QED BY <2>1, <3>1, ProcessProofInjective
      <3> HIDE DEF own
      <3> QED BY <3>2, LeafInjective
    <2> HIDE DEF proof, t, own
    <2>3. ProcessProof(HashLeaf(e), proof) = t.Root <=> e = own
      BY <1>2, <2>2
    <2> QED BY <2>3 DEF proof, t, own
  <1>3. CASE S = {own}
    <2>1. t.Root = HashLeaf(own) /\ t.layers = <<>>
      <3> HIDE DEF S, own
      <3>1. s \in SetToSeqs(S)
        BY DEF S
      <3> QED BY <1>1, <1>3, <3>1, SmallTrees
    <2>2. proof = <<>>
      <3> HIDE DEF t
      <3> QED BY <2>1 DEF GetProof
    <2>3. IsTuple(<<>>, 0)
      BY DEF IsTuple
    <2>4. PICK f : Folded(f, HashLeaf(own), <<>>, 0)
      BY <2>3, ProcessProofFacts
    <2>5. ProcessProof(HashLeaf(own), <<>>) = HashLeaf(own)
      BY <2>4 DEF Folded
    <2> HIDE DEF proof, own, t
    <2> QED BY <2>1, <2>2, <2>3, <2>5
  <1>4. CASE S # {own}
    <2>1. n >= 2
      <3>1. S # {} /\ \A d : S # {d}
        BY <1>1, <1>4
      <3>2. s \in SetToSeqs(S)
        OBVIOUS
      <3> HIDE DEF S
      <3> QED BY <1>1, <3>1, <3>2, SmallTrees
    <2>2. /\ t.leaves \in Seq(S) /\ Len(t.leaves) = n /\ ToSet(t.leaves) = S
          /\ IsTree(t.layers, leafHashes(t.leaves), n) /\ Len(t.layers) >= 2
          /\ t.Root = t.layers[Len(t.layers)][1]
      BY <1>1, <2>1, NewTreeFacts
    <2> DEFINE leaves == t.leaves
               hs == leafHashes(leaves)
               i == findLeaf(t, c)
    <2>3. n \in Nat /\ n >= 1
      BY <1>1, <2>1, FS_CardinalityType
    <2> HIDE DEF t, n
    <2>4. DOMAIN leaves = 1..n
      BY <2>2
    <2>5. \E j \in DOMAIN leaves : leaves[j][1] = c
      <3>1. PICK j \in DOMAIN leaves : leaves[j] = own
        BY <1>1, <2>2 DEF ToSet
      <3> QED BY <3>1
    <2>6. i + 1 \in 1..n /\ leaves[i + 1][1] = c /\ i \in Nat /\ i < n
      <3> DEFINE j == CHOOSE j \in DOMAIN leaves : leaves[j][1] = c
      <3>1. j \in DOMAIN leaves /\ leaves[j][1] = c
        BY <2>5
      <3>2. i = j - 1
        BY DEF findLeaf
      <3> HIDE DEF j, i, leaves
      <3>3. j \in Nat /\ j >= 1 /\ j <= n
        BY <3>1, <2>4, <2>3
      <3>4. i + 1 = j /\ i \in Nat /\ i < n
        BY <3>2, <3>3, <2>3
      <3> QED BY <3>1, <3>4, <2>4
    <2>7. leaves[i + 1] = own
      <3>1. leaves[i + 1] \in S
        <4>1. leaves \in Seq(S) /\ Len(leaves) = n
          BY <2>2
        <4> HIDE DEF leaves, i
        <4> QED BY <4>1, <2>6
      <3> QED BY <3>1, <2>6, EntriesOfFacts
    <2>8. IsTuple(hs, n) /\ hs[i + 1] = HashLeaf(own)
      <3>1. hs = [j \in 1..n |-> HashLeaf(leaves[j])]
        BY <2>2 DEF leafHashes
      <3> HIDE DEF hs, leaves, i
      <3> QED BY <3>1, <2>6, <2>7 DEF IsTuple
    <2>9. ProcessProof(hs[i + 1], proof) = t.layers[Len(t.layers)][1]
      <3> HIDE DEF hs
      <3>1. IsTree(t.layers, hs, n)
        BY <2>2 DEF hs
      <3> QED BY <3>1, <2>3, <2>6, <2>8, ProofReachesRoot
    <2>10. \E h \in Nat : IsTuple(proof, h)
      <3>1. Len(t.layers) \in Nat /\ Len(t.layers) >= 1 /\ Len(t.layers) - 1 \in Nat
        <4>1. Len(t.layers) \in 1..(n + 1)
          BY <2>2 DEF IsTree
        <4> QED BY <4>1, <2>3
      <3>2. IsTuple(proof, Len(t.layers) - 1)
        BY <3>1, GetProofFacts
      <3> QED BY <3>1, <3>2
    <2> HIDE DEF hs, i, proof, own
    <2> QED BY <2>2, <2>8, <2>9, <2>10
  <1> QED BY <1>3, <1>4

\* The root of a map does not depend on the order of its iteration.
LEMMA SameRoot ==
    ASSUME NEW m \in BalanceMaps, NEW s \in SetToSeqs(EntriesOf(m)),
           NEW u \in SetToSeqs(EntriesOf(m))
    PROVE  NewTree(s) = NewTree(u)
  <1> DEFINE S == EntriesOf(m)
  <1>1. S \in SUBSET Entries /\ IsFiniteSet(S)
    BY EntriesOfFacts
  <1>2. sortLeaves(s) = sortLeaves(u) /\ Len(s) = Len(u)
    BY <1>1, SortLeavesFacts
  <1> QED BY <1>2 DEF NewTree

-----------------------------------------------------------------------------
(* Opening a root.                                                         *)

\* Leaf hashes do not open.
LEMMA OpenFlat ==
    ASSUME NEW H, \A h \in H : h.pair = {}
    PROVE  openPairs(H) = H
  <1> DEFINE O(h) == IF h.pair = {} THEN {h} ELSE h.pair
  <1>1. \A h \in H : O(h) = {h}
    OBVIOUS
  <1>2. openPairs(H) = UNION {O(h) : h \in H}
    BY DEF openPairs
  <1> HIDE DEF O
  <1> QED BY <1>1, <1>2

\* A layer opens to the layer below it.
LEMMA OpenLayer ==
    ASSUME NEW n \in Nat, NEW hs, IsTuple(hs, n)
    PROVE  openPairs(ToSet(hashLevel(hs))) = ToSet(hs)
  <1> DEFINE m == (n + 1) \div 2
             g == hashLevel(hs)
             R(i) == IF 2*i <= n THEN hs[2*i] ELSE hs[2*i - 1]
             O(h) == IF h.pair = {} THEN {h} ELSE h.pair
  <1>1. /\ m \in Nat /\ IsTuple(g, m)
        /\ \A i \in 1..m : g[i] = hashPair(hs[2*i - 1], R(i))
    BY HashLevelFacts
  <1>2. DOMAIN g = 1..m /\ DOMAIN hs = 1..n
    <2> HIDE DEF m, g
    <2> QED BY <1>1, TupleFacts
  <1>3. \A i \in 1..m : O(g[i]) = {hs[2*i - 1], R(i)}
    <2> TAKE i \in 1..m
    <2>1. g[i] = hashPair(hs[2*i - 1], R(i))
      BY <1>1
    <2>2. g[i].pair = {hs[2*i - 1], R(i)}
      <3> HIDE DEF R, g
      <3> QED BY <2>1 DEF hashPair
    <2>3. g[i].pair # {}
      <3> HIDE DEF R, g
      <3> QED BY <2>2
    <2> HIDE DEF R, g
    <2> QED BY <2>2, <2>3
  <1>4. openPairs(ToSet(g)) = UNION {O(h) : h \in ToSet(g)}
    BY DEF openPairs
  <1>5. ToSet(g) = {g[i] : i \in 1..m}
    <2> HIDE DEF g, m
    <2> QED BY <1>2 DEF ToSet
  <1>6. ASSUME NEW y \in ToSet(hs) PROVE \E h \in ToSet(g) : y \in O(h)
    <2>1. PICK j \in 1..n : y = hs[j]
      BY <1>2 DEF ToSet
    <2> DEFINE i == (j + 1) \div 2
    <2>2. i \in 1..m /\ (j = 2*i - 1 \/ (j = 2*i /\ 2*i <= n))
      OBVIOUS
    <2>3. y = hs[2*i - 1] \/ y = R(i)
      <3> HIDE DEF i
      <3> QED BY <2>1, <2>2
    <2>4. y \in O(g[i])
      <3> HIDE DEF i, R, O, m, g
      <3> QED BY <2>2, <2>3, <1>3
    <2>5. g[i] \in ToSet(g)
      <3> HIDE DEF i, m, g
      <3> QED BY <2>2, <1>5
    <2> QED BY <2>4, <2>5
  <1>7. ASSUME NEW h \in ToSet(g), NEW y \in O(h) PROVE y \in ToSet(hs)
    <2>1. PICK i \in 1..m : h = g[i]
      <3> HIDE DEF g, m
      <3> QED BY <1>5
    <2>2. y = hs[2*i - 1] \/ y = R(i)
      <3>1. O(h) = {hs[2*i - 1], R(i)}
        <4> HIDE DEF R, O, m, g
        <4> QED BY <2>1, <1>3
      <3> HIDE DEF R, O, m, g
      <3> QED BY <3>1
    <2>3. 2*i - 1 \in 1..n /\ (2*i <= n => 2*i \in 1..n)
      BY <2>1
    <2>4. hs[2*i - 1] \in ToSet(hs) /\ R(i) \in ToSet(hs)
      BY <2>3, <1>2 DEF ToSet
    <2> HIDE DEF R
    <2> QED BY <2>2, <2>4
  <1> HIDE DEF O, g, m
  <1>8. openPairs(ToSet(g)) = ToSet(hs)
    BY <1>4, <1>6, <1>7
  <1> QED BY <1>8 DEF g

\* The recursive function of Opened.
IsOpening(f, root, n) == f = [k \in 0..n |-> IF k = 0 THEN {root} ELSE openPairs(f[k - 1])]

LEMMA OpeningExists ==
    ASSUME NEW root, NEW n \in Nat
    PROVE  \E f : IsOpening(f, root, n)
  <1> DEFINE Bad == {m \in Nat : ~\E f : IsOpening(f, root, m)}
  <1>1. SUFFICES Bad = {}
    OBVIOUS
  <1>2. SUFFICES ASSUME Bad # {} PROVE FALSE
    OBVIOUS
  <1>3. PICK m \in Bad : \A y \in Bad : m <= y
    <2>1. Bad \subseteq Nat
      OBVIOUS
    <2> HIDE DEF Bad
    <2> QED BY <1>2, <2>1, LeastNatural
  <1>4. m \in Nat
    OBVIOUS
  <1>5. PICK f : m # 0 => IsOpening(f, root, m - 1)
    <2>1. CASE m = 0
      BY <2>1
    <2>2. CASE m # 0
      <3>1. m - 1 \in Nat /\ m - 1 \notin Bad
        BY <1>3, <1>4, <2>2
      <3> QED BY <3>1
    <2> QED BY <2>1, <2>2
  <1> DEFINE E(k) == IF k = 0 THEN {root} ELSE openPairs(f[k - 1])
             g == [k \in 0..m |-> E(k)]
  <1>6. ASSUME NEW k \in 0..m, k # 0 PROVE g[k - 1] = f[k - 1]
    <2>1. k - 1 \in 0..m /\ k - 1 \in 0..(m - 1) /\ m # 0
      BY <1>4, <1>6
    <2>2. f = [j \in 0..(m - 1) |-> E(j)]
      BY <1>5, <2>1 DEF IsOpening
    <2> HIDE DEF E
    <2> QED BY <2>1, <2>2
  <1>7. IsOpening(g, root, m)
    <2>1. ASSUME NEW k \in 0..m PROVE g[k] = IF k = 0 THEN {root} ELSE openPairs(g[k - 1])
      BY <1>6
    <2>2. g = [k \in 0..m |-> g[k]]
      <3> HIDE DEF E
      <3> QED OBVIOUS
    <2> HIDE DEF g
    <2> QED BY <2>1, <2>2 DEF IsOpening
  <1> QED BY <1>3, <1>7

\* The sets that Opened goes through.
OpensTo(f, root, n) ==
    /\ f[0] = {root} /\ Opened(root) = UNION {h.leaf : h \in f[n]}
    /\ \A k \in 1..n : f[k] = openPairs(f[k - 1])

LEMMA OpenedFacts ==
    ASSUME NEW root
    PROVE  \E f : OpensTo(f, root, Cardinality(ClusterIds))
  <1> DEFINE n == Cardinality(ClusterIds)
             f == CHOOSE s : IsOpening(s, root, n)
  <1>1. n \in Nat
    BY RankAssumption, FS_CardinalityType
  <1>2. Opened(root) = UNION {h.leaf : h \in f[n]}
    BY DEF Opened, IsOpening
  <1>3. IsOpening(f, root, n)
    <2> HIDE DEF n
    <2> QED BY <1>1, OpeningExists
  <1> DEFINE E(k) == IF k = 0 THEN {root} ELSE openPairs(f[k - 1])
  <1>4. f = [k \in 0..n |-> E(k)]
    <2> HIDE DEF f, n
    <2> QED BY <1>3 DEF IsOpening
  <1>5. \A k \in 0..n : f[k] = E(k)
    <2> HIDE DEF E, f, n
    <2> QED BY <1>4
  <1>6. f[0] = {root} /\ \A k \in 1..n : f[k] = openPairs(f[k - 1])
    <2> HIDE DEF f, n
    <2> QED BY <1>1, <1>5
  <1> HIDE DEF f
  <1>7. OpensTo(f, root, n)
    BY <1>2, <1>6 DEF OpensTo
  <1> QED BY <1>7

\* A root that is a leaf hash, or the hash of nothing, opens to itself.
LEMMA OpenedLeaf ==
    ASSUME NEW root, root.pair = {}
    PROVE  Opened(root) = root.leaf
  <1> DEFINE n == Cardinality(ClusterIds)
  <1>1. n \in Nat
    BY RankAssumption, FS_CardinalityType
  <1>2. PICK f : OpensTo(f, root, n)
    BY OpenedFacts
  <1>3. /\ f[0] = {root} /\ Opened(root) = UNION {h.leaf : h \in f[n]}
        /\ \A k \in 1..n : f[k] = openPairs(f[k - 1])
    BY <1>2 DEF OpensTo
  <1> HIDE DEF n
  <1> DEFINE Bad == {k \in Nat : k <= n /\ f[k] # {root}}
  <1>4. Bad = {}
    <2>1. SUFFICES ASSUME Bad # {} PROVE FALSE
      OBVIOUS
    <2>2. PICK k \in Bad : \A y \in Bad : k <= y
      <3>1. Bad \subseteq Nat
        OBVIOUS
      <3> HIDE DEF Bad
      <3> QED BY <2>1, <3>1, LeastNatural
    <2>3. k \in Nat /\ k <= n /\ f[k] # {root}
      OBVIOUS
    <2>4. k # 0
      BY <2>3, <1>3
    <2>5. k - 1 \in Nat /\ k - 1 <= n /\ k - 1 \notin Bad /\ k \in 1..n
      BY <2>2, <2>3, <2>4, <1>1
    <2>6. f[k - 1] = {root}
      BY <2>5
    <2>7. openPairs({root}) = {root}
      BY OpenFlat
    <2> QED BY <2>3, <2>5, <2>6, <2>7, <1>3
  <1>5. f[n] = {root}
    BY <1>1, <1>4
  <1> QED BY <1>3, <1>5

\* The root of a tree over leaf hashes opens to them.
LEMMA OpenedTree ==
    ASSUME NEW n \in Nat, NEW layers, NEW hs, IsTuple(hs, n), IsTree(layers, hs, n),
           n <= Cardinality(ClusterIds), \A x \in ToSet(hs) : x.pair = {}
    PROVE  Opened(layers[Len(layers)][1]) = UNION {x.leaf : x \in ToSet(hs)}
  <1> DEFINE N == Cardinality(ClusterIds)
             h == Len(layers)
             root == layers[h][1]
  <1>1. N \in Nat
    BY RankAssumption, FS_CardinalityType
  <1>2. PICK f : OpensTo(f, root, N)
    <2> HIDE DEF root
    <2> QED BY OpenedFacts
  <1>3. /\ f[0] = {root} /\ Opened(root) = UNION {x.leaf : x \in f[N]}
        /\ \A k \in 1..N : f[k] = openPairs(f[k - 1])
    BY <1>2 DEF OpensTo
  <1>4. /\ h \in Nat /\ h >= 1 /\ h <= n + 1 /\ layers[1] = hs /\ Len(layers[h]) = 1
        /\ \A k \in 1..h : Len(layers[k]) \in Nat /\ IsTuple(layers[k], Len(layers[k]))
        /\ \A k \in 1..(h - 1) : layers[k + 1] = hashLevel(layers[k])
    BY DEF IsTree
  <1>5. n <= N
    OBVIOUS
  <1> HIDE DEF N, h, root
  <1> DEFINE P(k) == f[k] = IF k <= h - 1 THEN ToSet(layers[h - k]) ELSE ToSet(hs)
             Bad == {k \in Nat : k <= N /\ ~P(k)}
  <1>6. Bad = {}
    <2>1. SUFFICES ASSUME Bad # {} PROVE FALSE
      OBVIOUS
    <2>2. PICK k \in Bad : \A y \in Bad : k <= y
      <3>1. Bad \subseteq Nat
        OBVIOUS
      <3> HIDE DEF Bad
      <3> QED BY <2>1, <3>1, LeastNatural
    <2>3. k \in Nat /\ k <= N /\ ~P(k)
      OBVIOUS
    <2>4. CASE k = 0
      <3>1. h \in 1..h /\ h - 0 = h /\ 0 <= h - 1
        BY <1>4
      <3>2. IsTuple(layers[h], 1)
        BY <1>4, <3>1
      <3>3. DOMAIN layers[h] = 1..1
        BY <3>2 DEF IsTuple
      <3>4. ToSet(layers[h]) = {layers[h][1]}
        BY <3>3 DEF ToSet
      <3>5. P(0)
        BY <3>1, <3>4, <1>3 DEF root
      <3> QED BY <2>3, <2>4, <3>5
    <2>5. CASE k # 0
      <3>1. k - 1 \in Nat /\ k - 1 <= N /\ k - 1 \notin Bad /\ k \in 1..N
        BY <2>2, <2>3, <2>5, <1>1
      <3>2. P(k - 1)
        BY <3>1
      <3>3. f[k] = openPairs(f[k - 1])
        BY <3>1, <1>3
      <3>4. CASE k <= h - 1
        <4>1. /\ h - k \in 1..(h - 1) /\ h - k \in 1..h
              /\ k - 1 <= h - 1 /\ h - (k - 1) = h - k + 1
          BY <3>4, <2>3, <2>5, <1>4
        <4> DEFINE l == layers[h - k]
        <4>2. f[k - 1] = ToSet(hashLevel(l))
          BY <4>1, <3>2, <1>4
        <4>3. Len(l) \in Nat /\ IsTuple(l, Len(l))
          BY <4>1, <1>4
        <4>4. openPairs(ToSet(hashLevel(l))) = ToSet(l)
          <5> HIDE DEF l
          <5> QED BY <4>3, OpenLayer
        <4>5. P(k)
          BY <3>3, <3>4, <4>2, <4>4
        <4> QED BY <2>3, <4>5
      <3>5. CASE ~(k <= h - 1)
        <4>1. f[k - 1] = ToSet(hs)
          <5>1. CASE k - 1 <= h - 1
            <6>1. h - (k - 1) = 1
              BY <5>1, <3>5, <2>3, <2>5, <1>4
            <6>2. f[k - 1] = ToSet(layers[h - (k - 1)])
              BY <5>1, <3>2
            <6> QED BY <6>1, <6>2, <1>4
          <5>2. CASE ~(k - 1 <= h - 1)
            BY <5>2, <3>2
          <5> QED BY <5>1, <5>2
        <4>2. openPairs(ToSet(hs)) = ToSet(hs)
          BY OpenFlat
        <4>3. P(k)
          BY <3>3, <3>5, <4>1, <4>2
        <4> QED BY <2>3, <4>3
      <3> QED BY <3>4, <3>5
    <2> QED BY <2>4, <2>5
  <1>7. P(N)
    BY <1>1, <1>6
  <1>8. f[N] = ToSet(hs)
    <2>1. CASE N <= h - 1
      <3>1. h - N = 1
        BY <2>1, <1>1, <1>4, <1>5
      <3> QED BY <2>1, <3>1, <1>4, <1>7
    <2>2. CASE ~(N <= h - 1)
      BY <2>2, <1>7
    <2> QED BY <2>1, <2>2
  <1>9. Opened(root) = UNION {x.leaf : x \in ToSet(hs)}
    BY <1>3, <1>8
  <1> QED BY <1>9 DEF root, h

\* The root of the tree of a map opens to the entries of the map.
LEMMA RootOpens ==
    ASSUME NEW m \in BalanceMaps, NEW s \in SetToSeqs(EntriesOf(m))
    PROVE  Opened(NewTree(s).Root) = EntriesOf(m)
  <1> DEFINE S == EntriesOf(m)
             t == NewTree(s)
             n == Cardinality(S)
  <1>1. /\ S \in SUBSET Entries /\ IsFiniteSet(S) /\ n <= Cardinality(ClusterIds)
        /\ s \in SetToSeqs(S)
    BY EntriesOfFacts
  <1> HIDE DEF S
  <1>2. CASE S = {}
    <2>1. t.Root = EmptyHash
      BY <1>1, <1>2, SmallTrees
    <2>2. EmptyHash.pair = {} /\ EmptyHash.leaf = {}
      BY DEF EmptyHash
    <2>3. Opened(EmptyHash) = {}
      BY <2>2, OpenedLeaf
    <2> QED BY <1>2, <2>1, <2>3 DEF S
  <1>3. CASE \E e : S = {e}
    <2>1. PICK e : S = {e}
      BY <1>3
    <2>2. t.Root = HashLeaf(e)
      BY <1>1, <2>1, SmallTrees
    <2>3. HashLeaf(e).pair = {} /\ HashLeaf(e).leaf = {e}
      BY DEF HashLeaf
    <2>4. Opened(HashLeaf(e)) = {e}
      BY <2>3, OpenedLeaf
    <2> QED BY <2>1, <2>2, <2>4 DEF S
  <1>4. CASE S # {} /\ ~\E e : S = {e}
    <2>1. n >= 2
      BY <1>1, <1>4, SmallTrees
    <2>2. /\ t.leaves \in Seq(S) /\ Len(t.leaves) = n /\ ToSet(t.leaves) = S
          /\ IsTree(t.layers, leafHashes(t.leaves), n)
          /\ t.Root = t.layers[Len(t.layers)][1]
      BY <1>1, <2>1, NewTreeFacts
    <2>3. n \in Nat
      BY <1>1, FS_CardinalityType
    <2> DEFINE leaves == t.leaves
               hs == leafHashes(leaves)
    <2>4. DOMAIN leaves = 1..n
      <3> HIDE DEF t, n
      <3> QED BY <2>2
    <2>5. hs = [j \in 1..n |-> HashLeaf(leaves[j])]
      BY <2>2 DEF leafHashes
    <2>6. IsTuple(hs, n) /\ DOMAIN hs = 1..n /\ \A j \in 1..n : hs[j] = HashLeaf(leaves[j])
      <3> HIDE DEF hs, leaves, n
      <3> QED BY <2>5 DEF IsTuple
    <2>7. ToSet(hs) = {HashLeaf(e) : e \in S}
      <3>1. ToSet(hs) = {hs[j] : j \in 1..n}
        <4> HIDE DEF hs, n
        <4> QED BY <2>6 DEF ToSet
      <3>2. S = {leaves[j] : j \in 1..n}
        <4>1. S = {leaves[j] : j \in DOMAIN leaves}
          BY <2>2 DEF ToSet
        <4> HIDE DEF leaves, n
        <4> QED BY <4>1, <2>4
      <3> HIDE DEF hs, leaves, n
      <3> QED BY <2>6, <3>1, <3>2
    <2>8. \A e : HashLeaf(e).pair = {} /\ HashLeaf(e).leaf = {e}
      BY DEF HashLeaf
    <2>9. \A x \in ToSet(hs) : x.pair = {}
      BY <2>7, <2>8
    <2>10. UNION {x.leaf : x \in ToSet(hs)} = S
      <3> HIDE DEF hs
      <3> QED BY <2>7, <2>8
    <2>11. Opened(t.layers[Len(t.layers)][1]) = UNION {x.leaf : x \in ToSet(hs)}
      <3>1. IsTree(t.layers, hs, n)
        BY <2>2
      <3>2. n <= Cardinality(ClusterIds)
        BY <1>1
      <3> HIDE DEF hs, t, n
      <3> QED BY <2>3, <2>6, <2>9, <3>1, <3>2, OpenedTree
    <2> HIDE DEF hs, t
    <2>12. Opened(t.Root) = S
      BY <2>2, <2>10, <2>11
    <2> QED BY <2>12 DEF S, t
  <1> QED BY <1>2, <1>3, <1>4

-----------------------------------------------------------------------------
(* Theorems about the tree (MerkleBuild).                                  *)

\* The tree is one of the balances, whatever the order it was built in.
TreeOfBalances ==
    /\ balances \in BalanceMaps
    /\ tree # NoTree => \E s \in SetToSeqs(EntriesOf(balances)) : tree = NewTree(s)

LEMMA TreeStep ==
    ASSUME TreeOfBalances, [Build]_treeVars
    PROVE  TreeOfBalances' /\ (tree # NoTree => tree'.Root = tree.Root)
  <1>1. CASE Build
    <2>1. PICK u \in SetToSeqs(EntriesOf(balances)) : tree' = NewTree(u)
      BY <1>1 DEF Build
    <2>2. balances' = balances /\ balances \in BalanceMaps
      BY <1>1 DEF Build, TreeOfBalances
    <2>3. TreeOfBalances'
      BY <2>1, <2>2 DEF TreeOfBalances
    <2>4. ASSUME tree # NoTree PROVE tree'.Root = tree.Root
      <3>1. PICK s \in SetToSeqs(EntriesOf(balances)) : tree = NewTree(s)
        BY <2>4 DEF TreeOfBalances
      <3>2. NewTree(s) = NewTree(u)
        BY <2>2, SameRoot
      <3> QED BY <2>1, <3>1, <3>2
    <2> QED BY <2>3, <2>4
  <1>2. CASE UNCHANGED treeVars
    <2>1. balances' = balances /\ tree' = tree
      BY <1>2 DEF treeVars
    <2> QED BY <2>1 DEF TreeOfBalances
  <1> QED BY <1>1, <1>2

LEMMA TreeInvariant == TreeSpec => []TreeOfBalances
  <1>1. TreeInit => TreeOfBalances
    BY DEF TreeInit, TreeOfBalances
  <1>2. TreeOfBalances /\ [Build]_treeVars => TreeOfBalances'
    BY TreeStep
  <1> QED BY <1>1, <1>2, PTL DEF TreeSpec

\* The root of every tree that is built opens to exactly the entries of its
\* map, so that no two maps have one root (NewTree, hashLevel).
THEOREM RootBindsBalances == TreeSpec => []RootBinds
  <1>1. TreeOfBalances => RootBinds
    <2>1. SUFFICES ASSUME TreeOfBalances, tree # NoTree
                   PROVE  Opened(tree.Root) = EntriesOf(balances)
      BY DEF RootBinds
    <2>2. balances \in BalanceMaps
      BY <2>1 DEF TreeOfBalances
    <2>3. PICK s \in SetToSeqs(EntriesOf(balances)) : tree = NewTree(s)
      BY <2>1 DEF TreeOfBalances
    <2>4. Opened(NewTree(s).Root) = EntriesOf(balances)
      BY <2>2, RootOpens
    <2> QED BY <2>3, <2>4
  <1> QED BY <1>1, TreeInvariant, PTL

\* Every proof leads to the root from the entry of its cluster and from no
\* other entry (GetProof, sibling).
THEOREM ProofsAreExact == TreeSpec => []ProofsVerify
  <1>1. TreeOfBalances => ProofsVerify
    <2>1. SUFFICES ASSUME TreeOfBalances, tree # NoTree, NEW c \in DOMAIN balances,
                          NEW e \in Entries
                   PROVE  ProcessProof(HashLeaf(e), GetProof(tree, c)) = tree.Root
                              <=> e = <<c, balances[c]>>
      BY DEF ProofsVerify
    <2>2. balances \in BalanceMaps
      BY <2>1 DEF TreeOfBalances
    <2>3. PICK s \in SetToSeqs(EntriesOf(balances)) : tree = NewTree(s)
      BY <2>1 DEF TreeOfBalances
    <2>4. ProcessProof(HashLeaf(e), GetProof(NewTree(s), c)) = NewTree(s).Root
              <=> e = <<c, balances[c]>>
      BY <2>1, <2>2, ProofVerifies
    <2> QED BY <2>3, <2>4
  <1> QED BY <1>1, TreeInvariant, PTL

\* A map has one root, however often and in whatever order the tree is built
\* from it (NewTree).
THEOREM RootOfBalances == TreeSpec => RebuildSameRoot
  <1>1. TreeOfBalances /\ [Build]_treeVars => [tree # NoTree => tree'.Root = tree.Root]_treeVars
    BY TreeStep
  <1> QED BY <1>1, TreeInvariant, PTL DEF TreeSpec, RebuildSameRoot

-----------------------------------------------------------------------------
(* Tables of oracle_commits and the neighbours of a row.                   *)

TableType == [Targets -> Commits \cup {NoRow}]

StoredIn(tab) == {s \in Targets : tab[s] # NoRow}

IsPrev(tab, t, s) == s \in StoredIn(tab) /\ s < t /\ \A u \in StoredIn(tab) : u < t => u <= s
IsNext(tab, t, s) == s \in StoredIn(tab) /\ s > t /\ \A u \in StoredIn(tab) : u > t => u >= s

PrevIn(tab, t) ==
    IF \E s \in StoredIn(tab) : s < t
    THEN CHOOSE s \in StoredIn(tab) : s < t /\ \A u \in StoredIn(tab) : u < t => u <= s
    ELSE Nothing
NextIn(tab, t) ==
    IF \E s \in StoredIn(tab) : s > t
    THEN CHOOSE s \in StoredIn(tab) : s > t /\ \A u \in StoredIn(tab) : u > t => u >= s
    ELSE Nothing

LEMMA StoredNat ==
    ASSUME NEW tab, NEW s \in StoredIn(tab)
    PROVE  s \in Nat /\ s \in Targets
  BY CommitLogAssumption DEF StoredIn

\* The row before t, when there is one.
LEMMA PrevFacts ==
    ASSUME NEW tab, NEW t \in Targets
    PROVE  /\ \A s : IsPrev(tab, t, s) => PrevIn(tab, t) = s
           /\ (\E u \in StoredIn(tab) : u < t) => IsPrev(tab, t, PrevIn(tab, t))
  <1>1. t \in Nat
    BY CommitLogAssumption
  <1>2. ASSUME NEW v \in StoredIn(tab), v < t PROVE \E s : IsPrev(tab, t, s)
    <2> DEFINE B == {s \in StoredIn(tab) : s < t}
    <2>1. B \subseteq Nat /\ B # {} /\ \A x \in B : x <= t
      BY <1>1, <1>2, StoredNat
    <2>2. PICK s \in B : \A y \in B : y <= s
      <3> HIDE DEF B
      <3> QED BY <1>1, <2>1, GreatestNatural
    <2>3. IsPrev(tab, t, s)
      BY <2>2 DEF IsPrev
    <2> QED BY <2>3
  <1>3. ASSUME NEW s, IsPrev(tab, t, s) PROVE IsPrev(tab, t, PrevIn(tab, t))
    BY <1>3 DEF IsPrev, PrevIn
  <1>4. ASSUME NEW s, IsPrev(tab, t, s) PROVE PrevIn(tab, t) = s
    <2> DEFINE p == PrevIn(tab, t)
    <2>1. IsPrev(tab, t, p)
      BY <1>3, <1>4
    <2> HIDE DEF p
    <2>2. s \in Nat /\ p \in Nat /\ s <= p /\ p <= s
      BY <1>4, <2>1, StoredNat DEF IsPrev
    <2>3. p = s
      BY <2>2
    <2> QED BY <2>3 DEF p
  <1> QED BY <1>2, <1>3, <1>4

\* The row after t, when there is one.
LEMMA NextFacts ==
    ASSUME NEW tab, NEW t \in Targets
    PROVE  /\ \A s : IsNext(tab, t, s) => NextIn(tab, t) = s
           /\ (\E u \in StoredIn(tab) : u > t) => IsNext(tab, t, NextIn(tab, t))
  <1>1. t \in Nat
    BY CommitLogAssumption
  <1>2. ASSUME NEW v \in StoredIn(tab), v > t PROVE \E s : IsNext(tab, t, s)
    <2> DEFINE B == {s \in StoredIn(tab) : s > t}
    <2>1. B \subseteq Nat /\ B # {}
      BY <1>1, <1>2, StoredNat
    <2>2. PICK s \in B : \A y \in B : s <= y
      <3> HIDE DEF B
      <3> QED BY <2>1, LeastNatural
    <2>3. ASSUME NEW u \in StoredIn(tab), u > t PROVE u >= s
      <3>1. s <= u
        BY <2>2, <2>3
      <3>2. s \in Nat /\ u \in Nat
        BY <2>2, StoredNat
      <3> QED BY <3>1, <3>2
    <2>4. IsNext(tab, t, s)
      BY <2>2, <2>3 DEF IsNext
    <2> QED BY <2>4
  <1>3. ASSUME NEW s, IsNext(tab, t, s) PROVE IsNext(tab, t, NextIn(tab, t))
    BY <1>3 DEF IsNext, NextIn
  <1>4. ASSUME NEW s, IsNext(tab, t, s) PROVE NextIn(tab, t) = s
    <2> DEFINE p == NextIn(tab, t)
    <2>1. IsNext(tab, t, p)
      BY <1>3, <1>4
    <2> HIDE DEF p
    <2>2. s \in Nat /\ p \in Nat /\ s >= p /\ p >= s
      BY <1>4, <2>1, StoredNat DEF IsNext
    <2>3. p = s
      BY <2>2
    <2> QED BY <2>3 DEF p
  <1> QED BY <1>2, <1>3, <1>4

\* What the query for the neighbours returns.
LEMMA NeighboursAre ==
    ASSUME NEW t \in Targets
    PROVE  Neighbours(t).prev = PrevIn(rows, t) /\ Neighbours(t).next = NextIn(rows, t)
  <1> DEFINE B == {s \in Stored : s < t}
             A == {s \in Stored : s > t}
  <1>1. Stored = StoredIn(rows)
    BY DEF Stored, StoredIn
  <1>2. /\ Neighbours(t).prev = IF B = {} THEN Nothing ELSE Max(B)
        /\ Neighbours(t).next = IF A = {} THEN Nothing ELSE Min(A)
    BY DEF Neighbours
  <1>3. ASSUME B # {} PROVE Neighbours(t).prev = PrevIn(rows, t)
    <2>1. IsPrev(rows, t, PrevIn(rows, t))
      BY <1>1, <1>3, PrevFacts
    <2> DEFINE p == PrevIn(rows, t)
               q == Max(B)
    <2>2. \A u \in B : p >= u
      <3> TAKE u \in B
      <3>1. u \in StoredIn(rows) /\ u < t
        BY <1>1
      <3>2. u <= p /\ p \in StoredIn(rows)
        BY <2>1, <3>1 DEF IsPrev
      <3>3. u \in Nat /\ p \in Nat
        BY <3>1, <3>2, StoredNat
      <3> HIDE DEF p
      <3> QED BY <3>2, <3>3
    <2>3. p \in B
      BY <1>1, <2>1 DEF IsPrev
    <2>4. q \in B /\ \A u \in B : q >= u
      <3> HIDE DEF B, p
      <3>1. \E x \in B : \A y \in B : x >= y
        BY <2>2, <2>3
      <3> QED BY <3>1 DEF Max
    <2>5. p \in Nat /\ q \in Nat /\ p >= q /\ q >= p
      <3>1. p >= q /\ q >= p
        <4> HIDE DEF B, p, q
        <4> QED BY <2>2, <2>3, <2>4
      <3>2. p \in StoredIn(rows) /\ q \in StoredIn(rows)
        BY <1>1, <2>3, <2>4
      <3> HIDE DEF p, q
      <3> QED BY <3>1, <3>2, StoredNat
    <2>6. p = q
      <3> HIDE DEF p, q
      <3> QED BY <2>5
    <2> QED BY <1>2, <1>3, <2>6
  <1>4. ASSUME B = {} PROVE Neighbours(t).prev = PrevIn(rows, t)
    BY <1>1, <1>2, <1>4 DEF PrevIn
  <1>5. ASSUME A # {} PROVE Neighbours(t).next = NextIn(rows, t)
    <2>1. IsNext(rows, t, NextIn(rows, t))
      BY <1>1, <1>5, NextFacts
    <2> DEFINE p == NextIn(rows, t)
               q == Min(A)
    <2>2. \A u \in A : p <= u
      <3> TAKE u \in A
      <3>1. u \in StoredIn(rows) /\ u > t
        BY <1>1
      <3>2. u >= p /\ p \in StoredIn(rows)
        BY <2>1, <3>1 DEF IsNext
      <3>3. u \in Nat /\ p \in Nat
        BY <3>1, <3>2, StoredNat
      <3> HIDE DEF p
      <3> QED BY <3>2, <3>3
    <2>3. p \in A
      BY <1>1, <2>1 DEF IsNext
    <2>4. q \in A /\ \A u \in A : q <= u
      <3> HIDE DEF A, p
      <3>1. \E x \in A : \A y \in A : x <= y
        BY <2>2, <2>3
      <3> QED BY <3>1 DEF Min
    <2>5. p \in Nat /\ q \in Nat /\ p <= q /\ q <= p
      <3>1. p <= q /\ q <= p
        <4> HIDE DEF A, p, q
        <4> QED BY <2>2, <2>3, <2>4
      <3>2. p \in StoredIn(rows) /\ q \in StoredIn(rows)
        BY <1>1, <2>3, <2>4
      <3> HIDE DEF p, q
      <3> QED BY <3>1, <3>2, StoredNat
    <2>6. p = q
      <3> HIDE DEF p, q
      <3> QED BY <2>5
    <2> QED BY <1>2, <1>5, <2>6
  <1>6. ASSUME A = {} PROVE Neighbours(t).next = NextIn(rows, t)
    BY <1>1, <1>2, <1>6 DEF NextIn
  <1> QED BY <1>3, <1>4, <1>5, <1>6

\* A row that is inserted is the last; one that is resolved keeps its block.
LEMMA TableStep ==
    ASSUME rows \in TableType, Insert \/ Resolve
    PROVE  /\ rows' \in TableType
           /\ \A s \in StoredIn(rows) : /\ s \in StoredIn(rows')
                                        /\ rows'[s].block = rows[s].block
           /\ \/ StoredIn(rows') = StoredIn(rows)
              \/ \E t \in StoredIn(rows') :
                    /\ \A s \in StoredIn(rows) : s < t
                    /\ StoredIn(rows') = StoredIn(rows) \cup {t}
                    /\ rows'[t].status = "pending"
           /\ \A s \in StoredIn(rows) : rows[s].status # "pending" => rows'[s] = rows[s]
  <1>1. Stored = StoredIn(rows)
    BY DEF Stored, StoredIn
  <1>2. CASE Insert
    <2>1. PICK t \in {u \in Targets : \A s \in Stored : s < u}, b \in Blocks :
              rows' = [rows EXCEPT ![t] = [block |-> b, root |-> RootOf[b],
                                           status |-> "pending", hash |-> FALSE]]
      BY <1>2 DEF Insert
    <2> DEFINE r == [block |-> b, root |-> RootOf[b], status |-> "pending", hash |-> FALSE]
    <2>2. t \in Targets /\ t \in Nat /\ \A s \in StoredIn(rows) : s < t
      BY <1>1, CommitLogAssumption
    <2>3. t \notin StoredIn(rows)
      BY <2>2
    <2>4. r \in Commits /\ r # NoRow /\ r.status = "pending"
      <3>1. r \in Commits
        BY DEF Commits
      <3> QED BY <3>1, CommitApiAssumption
    <2> HIDE DEF r
    <2>5. rows' = [rows EXCEPT ![t] = r]
      BY <2>1 DEF r
    <2>6. rows' \in TableType
      BY <2>4, <2>5 DEF TableType
    <2>7. rows'[t] = r /\ \A s \in Targets : s # t => rows'[s] = rows[s]
      BY <2>2, <2>5 DEF TableType
    <2>8. StoredIn(rows') = StoredIn(rows) \cup {t}
      BY <2>2, <2>4, <2>7 DEF StoredIn
    <2>9. \A s \in StoredIn(rows) : s \in StoredIn(rows') /\ rows'[s] = rows[s]
      BY <2>3, <2>7, <2>8 DEF StoredIn
    <2>10. t \in StoredIn(rows') /\ rows'[t].status = "pending"
      BY <2>4, <2>7, <2>8
    <2> QED BY <2>2, <2>6, <2>8, <2>9, <2>10
  <1>3. CASE Resolve
    <2>1. PICK t \in Targets : \E s \in {"confirmed", "failed"}, h \in BOOLEAN :
              /\ IsLast(t) /\ rows[t].status = "pending"
              /\ rows' = [rows EXCEPT ![t] = [block |-> @.block, root |-> @.root,
                                              status |-> s, hash |-> h]]
      BY <1>3 DEF Resolve
    <2>2. PICK st \in {"confirmed", "failed"}, h \in BOOLEAN :
              /\ IsLast(t) /\ rows[t].status = "pending"
              /\ rows' = [rows EXCEPT ![t] = [block |-> @.block, root |-> @.root,
                                              status |-> st, hash |-> h]]
      BY <2>1
    <2> DEFINE r == [block |-> rows[t].block, root |-> rows[t].root, status |-> st, hash |-> h]
    <2>3. t \in StoredIn(rows)
      BY <1>1, <2>2 DEF IsLast
    <2>4. rows[t] \in Commits
      BY <2>3 DEF StoredIn, TableType
    <2>5. r \in Commits
      BY <2>2, <2>4 DEF Commits
    <2>6. r # NoRow /\ r.block = rows[t].block
      BY <2>5, CommitApiAssumption
    <2>7. rows' = [rows EXCEPT ![t] = r]
      BY <2>2
    <2> HIDE DEF r
    <2>8. rows' \in TableType
      BY <2>5, <2>7 DEF TableType
    <2>9. rows'[t] = r /\ \A s \in Targets : s # t => rows'[s] = rows[s]
      BY <2>7 DEF TableType
    <2>10. StoredIn(rows') = StoredIn(rows)
      BY <2>3, <2>6, <2>9 DEF StoredIn
    <2>11. \A s \in StoredIn(rows) : /\ s \in StoredIn(rows')
                                     /\ rows'[s].block = rows[s].block
      <3> TAKE s \in StoredIn(rows)
      <3>1. CASE s = t
        BY <3>1, <2>6, <2>9, <2>10
      <3>2. CASE s # t
        BY <3>2, <2>9, <2>10 DEF StoredIn
      <3> QED BY <3>1, <3>2
    <2>12. \A s \in StoredIn(rows) : rows[s].status # "pending" => rows'[s] = rows[s]
      BY <2>2, <2>9 DEF StoredIn
    <2> QED BY <2>8, <2>10, <2>11, <2>12
  <1> QED BY <1>2, <1>3

-----------------------------------------------------------------------------
(* The inductive invariant of the API.                                     *)

Places == {"idle", "epoch", "latest", "neighbours", "tree", "info", "diff", "done"}

Requests == [kind : Kinds, epoch : Targets \cup {Nothing, Malformed},
             cluster : ClusterIds \cup {Malformed}, pc : Places]

ApiTypeOK ==
    /\ rows \in TableType /\ synced \in Nat /\ req \in Requests
    /\ prev \in Targets \cup {Nothing}
    /\ failed \in BOOLEAN

\* What the tables and the requests say of each other.
TablesKept ==
    /\ \A t \in StoredIn(rows) : rows[t].block <= synced
    /\ \E n \in Nat : \A t \in StoredIn(rows) : t <= n
    /\ req.pc # "idle" => rows \in seen
    /\ prev # Nothing => prev \in StoredIn(rows)

\* Which requests get where.
Path ==
    /\ req.pc # "done" => resp = Nothing
    /\ req.pc = "epoch" => req.epoch \in Targets
    /\ req.pc = "latest" => req.epoch = Nothing
    /\ req.pc \in {"info", "diff"} => req.kind = "full"
    /\ req.pc = "diff" => prev # Nothing

\* The row in hand was committed, for a block that is synced.
RowRead ==
    req.pc \in {"neighbours", "tree", "info", "diff"} =>
        row.block \in Blocks /\ row.block <= synced /\ row.root = RootOf[row.block]

NoneLater(tab, t) == \A s \in Targets : tab[s] # NoRow /\ s > t => tab[s].status # "confirmed"

\* Between the two queries for the latest commit its row stays as it was, and
\* the neighbours it has now it had at a moment when no later row was
\* confirmed: a row is confirmed after it was inserted.
LatestMoment ==
    req.pc = "neighbours" =>
        LET t == row.target IN
        /\ req.epoch = Nothing
        /\ t \in StoredIn(rows) /\ row = RowAt(rows, t) /\ row.status = "confirmed"
        /\ \E tab \in seen : /\ t \in StoredIn(tab) /\ row = RowAt(tab, t) /\ NoneLater(tab, t)
                             /\ PrevIn(tab, t) = PrevIn(rows, t)
                             /\ NextIn(tab, t) = NextIn(rows, t)

\* The table tab has the row and the neighbours of a response, as asked for.
MomentOf(tab, r, p, n, epoch) ==
    /\ r.target \in StoredIn(tab) /\ r = RowAt(tab, r.target)
    /\ p = PrevIn(tab, r.target) /\ n = NextIn(tab, r.target)
    /\ IF epoch # Nothing THEN r.target = epoch
       ELSE r.status = "confirmed" /\ NoneLater(tab, r.target)

ReadMoment ==
    req.pc \in {"tree", "info", "diff"} /\ ~failed =>
        \E tab \in seen : MomentOf(tab, row, prev, next, req.epoch)

InfoRead == req.pc = "diff" /\ ~failed => DOMAIN BalancesOf(row) \subseteq info

ApiInv ==
    /\ ApiTypeOK /\ TablesKept /\ Path /\ RowRead /\ LatestMoment /\ ReadMoment /\ InfoRead
    /\ ResponseOfOneMoment /\ ProofServedVerifies /\ DiffExact /\ EveryClusterDescribed

-----------------------------------------------------------------------------
(* The trees and the diffs that a response holds.                          *)

\* The leaves of a tree are entries of its map.
LEMMA LeavesAreEntries ==
    ASSUME NEW m \in BalanceMaps
    PROVE  \A i \in DOMAIN buildTree(m).leaves : buildTree(m).leaves[i][1] \in DOMAIN m
  <1> DEFINE S == EntriesOf(m)
             s == SetToSeq(S)
             t == NewTree(s)
             leaves == sortLeaves(s)
  <1>1. S \in SUBSET Entries /\ IsFiniteSet(S) /\ \A e \in S : e[1] \in DOMAIN m
    BY EntriesOfFacts
  <1>2. s \in SetToSeqs(S)
    <2> HIDE DEF S
    <2> QED BY <1>1, SetToSeqEnumerates
  <1> HIDE DEF S, s
  <1>3. leaves \in Seq(S)
    BY <1>1, <1>2, SortLeavesFacts
  <1> HIDE DEF leaves
  <1>4. t.leaves = <<>> \/ t.leaves = leaves
    BY DEF NewTree, leaves
  <1> HIDE DEF t
  <1>5. \A i \in DOMAIN t.leaves : t.leaves[i] \in S
    <2>1. CASE t.leaves = <<>>
      BY <2>1
    <2>2. CASE t.leaves = leaves
      BY <2>2, <1>3
    <2> QED BY <1>4, <2>1, <2>2
  <1>6. buildTree(m) = t
    BY DEF buildTree, t, s, S
  <1> QED BY <1>1, <1>5, <1>6

\* The stored root of a synced block is the root of the tree rebuilt for it,
\* and proofs made from that tree lead to it.
LEMMA RebuiltRoot ==
    ASSUME NEW b \in Blocks
    PROVE  /\ BalancesAt[b] \in BalanceMaps
           /\ buildTree(BalancesAt[b]).Root = RootOf[b]
           /\ \A c \in DOMAIN BalancesAt[b] :
                 ProcessProof(HashLeaf(<<c, BalancesAt[b][c]>>),
                              GetProof(buildTree(BalancesAt[b]), c)) = RootOf[b]
  <1> DEFINE m == BalancesAt[b]
             S == EntriesOf(m)
  <1>1. m \in BalanceMaps /\ buildTree(m).Root = RootOf[b]
    BY CommitApiAssumption
  <1> HIDE DEF m
  <1>2. SetToSeq(S) \in SetToSeqs(S)
    BY <1>1, EntriesOfFacts, SetToSeqEnumerates
  <1>3. buildTree(m) = NewTree(SetToSeq(S))
    BY DEF buildTree
  <1>4. ASSUME NEW c \in DOMAIN m
        PROVE  ProcessProof(HashLeaf(<<c, m[c]>>), GetProof(buildTree(m), c)) = RootOf[b]
    <2> DEFINE e == <<c, m[c]>>
    <2>1. ProcessProof(HashLeaf(e), GetProof(NewTree(SetToSeq(S)), c)) = NewTree(SetToSeq(S)).Root
      BY <1>1, <1>2, ProofVerifies
    <2> QED BY <2>1, <1>1, <1>3
  <1> QED BY <1>1, <1>4 DEF m

\* A diff turns the old balances into the new ones.
LEMMA DiffLemma ==
    ASSUME NEW old \in BalanceMaps, NEW cur \in BalanceMaps
    PROVE  EntriesOf(cur) = IF computeDiff(old, cur) = Nothing THEN EntriesOf(old)
                            ELSE Patched(old, computeDiff(old, cur))
  <1> DEFINE changed == {<<c, old[c], cur[c]>> :
                            c \in {d \in DOMAIN old \cap DOMAIN cur : old[d] # cur[d]}}
             added   == {<<c, cur[c]>> : c \in DOMAIN cur \ DOMAIN old}
             removed == {<<c, old[c]>> : c \in DOMAIN old \ DOMAIN cur}
             diff    == [changed |-> changed, added |-> added, removed |-> removed]
  <1>1. computeDiff(old, cur) =
            IF changed = {} /\ added = {} /\ removed = {} THEN Nothing ELSE diff
    BY DEF computeDiff
  <1>2. /\ DOMAIN old \subseteq ClusterIds /\ \A c \in DOMAIN old : old[c] \in Balances
        /\ DOMAIN cur \subseteq ClusterIds /\ \A c \in DOMAIN cur : cur[c] \in Balances
    BY DEF BalanceMaps
  <1>3. CASE changed = {} /\ added = {} /\ removed = {}
    <2>1. DOMAIN old = DOMAIN cur
      <3>1. \A c \in DOMAIN cur : c \notin DOMAIN old => <<c, cur[c]>> \in added
        OBVIOUS
      <3>2. \A c \in DOMAIN old : c \notin DOMAIN cur => <<c, old[c]>> \in removed
        OBVIOUS
      <3> QED BY <1>3, <3>1, <3>2
    <2>2. \A c \in DOMAIN old : old[c] = cur[c]
      <3>1. \A c \in DOMAIN old : old[c] # cur[c] => <<c, old[c], cur[c]>> \in changed
        BY <2>1
      <3> QED BY <1>3, <3>1
    <2>3. EntriesOf(cur) = EntriesOf(old)
      BY <2>1, <2>2 DEF EntriesOf
    <2> QED BY <1>1, <1>3, <2>3
  <1>4. CASE ~(changed = {} /\ added = {} /\ removed = {})
    <2>1. diff \in Diffs
      <3>1. changed \subseteq ClusterIds \X Balances \X Balances
        BY <1>2
      <3>2. added \subseteq Entries /\ removed \subseteq Entries
        BY <1>2 DEF Entries
      <3> HIDE DEF changed, added, removed
      <3> QED BY <3>1, <3>2 DEF Diffs
    <2>2. computeDiff(old, cur) = diff /\ diff # Nothing
      BY <1>1, <1>4, <2>1, CommitApiAssumption
    <2> DEFINE gone  == {e[1] : e \in removed}
               moved == {<<e[1], e[3]>> : e \in changed} \cup added
               kept  == {<<c, old[c]>> : c \in DOMAIN old \ (gone \cup {e[1] : e \in moved})}
    <2>3. Patched(old, diff) = moved \cup kept
      <3> HIDE DEF changed, added, removed
      <3> QED BY DEF Patched
    <2>4. gone = DOMAIN old \ DOMAIN cur
      <3>1. \A e \in removed : e[1] \in DOMAIN old \ DOMAIN cur
        OBVIOUS
      <3>2. \A c \in DOMAIN old \ DOMAIN cur : <<c, old[c]>> \in removed /\ <<c, old[c]>>[1] = c
        OBVIOUS
      <3> HIDE DEF removed
      <3> QED BY <3>1, <3>2
    <2>5. moved = {<<c, cur[c]>> : c \in {d \in DOMAIN cur : d \notin DOMAIN old \/ old[d] # cur[d]}}
      <3>1. {<<e[1], e[3]>> : e \in changed} =
                {<<c, cur[c]>> : c \in {d \in DOMAIN old \cap DOMAIN cur : old[d] # cur[d]}}
        <4> DEFINE D == {d \in DOMAIN old \cap DOMAIN cur : old[d] # cur[d]}
        <4>1. \A e \in changed : e[1] \in D /\ e[3] = cur[e[1]]
          OBVIOUS
        <4>2. \A c \in D : \E e \in changed : e[1] = c /\ e[3] = cur[c]
          <5> TAKE c \in D
          <5>1. <<c, old[c], cur[c]>> \in changed
            OBVIOUS
          <5> QED BY <5>1
        <4> HIDE DEF changed, D
        <4>3. {<<e[1], e[3]>> : e \in changed} = {<<c, cur[c]>> : c \in D}
          BY <4>1, <4>2
        <4> QED BY <4>3 DEF D
      <3> QED BY <3>1
    <2> DEFINE M == {d \in DOMAIN cur : d \notin DOMAIN old \/ old[d] # cur[d]}
    <2>6. {e[1] : e \in moved} = M
      <3> HIDE DEF moved
      <3>1. moved = {<<c, cur[c]>> : c \in M}
        BY <2>5
      <3> HIDE DEF M
      <3>2. \A e \in moved : e[1] \in M
        BY <3>1
      <3>3. \A c \in M : <<c, cur[c]>> \in moved /\ <<c, cur[c]>>[1] = c
        BY <3>1
      <3> QED BY <3>2, <3>3
    <2>7. DOMAIN old \ (gone \cup M) = {c \in DOMAIN old \cap DOMAIN cur : old[c] = cur[c]}
      <3> HIDE DEF gone
      <3> QED BY <2>4
    <2>8. kept = {<<c, old[c]>> : c \in {d \in DOMAIN old \cap DOMAIN cur : old[d] = cur[d]}}
      <3> HIDE DEF gone, moved
      <3>1. DOMAIN old \ (gone \cup {e[1] : e \in moved}) = {d \in DOMAIN old \cap DOMAIN cur : old[d] = cur[d]}
        BY <2>6, <2>7
      <3> QED BY <3>1
    <2>9. moved \cup kept = EntriesOf(cur)
      <3> HIDE DEF moved, kept
      <3> QED BY <2>5, <2>8 DEF EntriesOf
    <2> HIDE DEF diff, moved, kept
    <2> QED BY <2>2, <2>3, <2>9
  <1> QED BY <1>3, <1>4

\* A table with the row and neighbours of a body is one that the body describes.
LEMMA MomentInTable ==
    ASSUME NEW tab, NEW body, NEW epoch,
           MomentOf(tab, body.row, body.prev, body.next, epoch)
    PROVE  /\ InTable(tab, body.row.target, body)
           /\ IF epoch # Nothing THEN body.row.target = epoch
              ELSE /\ body.row.status = "confirmed"
                   /\ \A t \in Targets : tab[t] # NoRow /\ t > body.row.target
                         => tab[t].status # "confirmed"
  BY DEF MomentOf, InTable, StoredIn, PrevIn, NextIn, NoneLater

-----------------------------------------------------------------------------
(* The steps of the rest of the process.                                   *)

\* A request that has not begun.
LEMMA IdleStep ==
    ASSUME req' = Idle, resp' = Nothing, prev' = Nothing
    PROVE  /\ Path' /\ RowRead' /\ LatestMoment' /\ ReadMoment' /\ InfoRead'
           /\ ResponseOfOneMoment' /\ ProofServedVerifies' /\ DiffExact'
           /\ EveryClusterDescribed'
           /\ req' \in Requests
  <1>1. req'.pc = "idle"
    BY DEF Idle
  <1>2. Path' /\ RowRead' /\ LatestMoment' /\ ReadMoment' /\ InfoRead'
    BY <1>1 DEF Path, RowRead, LatestMoment, ReadMoment, InfoRead
  <1>3. ResponseOfOneMoment' /\ ProofServedVerifies' /\ DiffExact' /\ EveryClusterDescribed'
    BY DEF ResponseOfOneMoment, ProofServedVerifies, DiffExact, EveryClusterDescribed, Served
  <1>4. req' \in Requests
    BY DEF Idle, Kinds, Places, Requests
  <1> QED BY <1>2, <1>3, <1>4

LEMMA InitApiInv == ApiInit => ApiInv
  <1> SUFFICES ASSUME ApiInit PROVE ApiInv
    OBVIOUS
  <1>1. rows = [t \in Targets |-> NoRow] /\ synced = 0 /\ req = Idle /\ prev = Nothing
        /\ resp = Nothing /\ failed = FALSE
    BY DEF ApiInit, Init
  <1>2. req.pc = "idle" /\ StoredIn(rows) = {}
    BY <1>1 DEF Idle, StoredIn
  <1>3. ApiTypeOK
    BY <1>1 DEF ApiTypeOK, TableType, Idle, Kinds, Places, Requests
  <1>4. TablesKept
    BY <1>1, <1>2 DEF TablesKept
  <1>5. Path /\ RowRead /\ LatestMoment /\ ReadMoment /\ InfoRead
    BY <1>1, <1>2 DEF Path, RowRead, LatestMoment, ReadMoment, InfoRead
  <1>6. ResponseOfOneMoment /\ ProofServedVerifies /\ DiffExact /\ EveryClusterDescribed
    BY <1>1 DEF ResponseOfOneMoment, ProofServedVerifies, DiffExact, EveryClusterDescribed, Served
  <1> QED BY <1>3, <1>4, <1>5, <1>6 DEF ApiInv

\* An insert leaves the neighbours of a row that has a later one.
LEMMA NeighboursKept ==
    ASSUME NEW old, NEW new, NEW t \in Targets, NEW v,
           \A s \in StoredIn(old) : s < v, v \in Nat, t \in StoredIn(old),
           StoredIn(new) = StoredIn(old) \cup {v},
           \E s \in StoredIn(old) : s > t
    PROVE  PrevIn(new, t) = PrevIn(old, t) /\ NextIn(new, t) = NextIn(old, t)
  <1>1. t \in Nat /\ t < v /\ v > t
    BY CommitLogAssumption
  <1>2. PrevIn(new, t) = PrevIn(old, t)
    <2>1. CASE \E u \in StoredIn(old) : u < t
      <3>1. IsPrev(old, t, PrevIn(old, t))
        BY <2>1, PrevFacts
      <3> DEFINE p == PrevIn(old, t)
      <3> HIDE DEF p
      <3>2. IsPrev(old, t, p)
        BY <3>1 DEF p
      <3>3. IsPrev(new, t, p)
        BY <3>2, <1>1 DEF IsPrev
      <3>4. PrevIn(new, t) = p
        BY <3>3, PrevFacts
      <3> QED BY <3>4 DEF p
    <2>2. CASE ~\E u \in StoredIn(old) : u < t
      <3>1. ~\E u \in StoredIn(new) : u < t
        BY <2>2, <1>1
      <3> QED BY <2>2, <3>1 DEF PrevIn
    <2> QED BY <2>1, <2>2
  <1>3. NextIn(new, t) = NextIn(old, t)
    <2> DEFINE p == NextIn(old, t)
    <2>1. IsNext(old, t, p)
      BY NextFacts
    <2> HIDE DEF p
    <2>2. p \in StoredIn(old) /\ p \in Nat /\ p > t /\ p < v
      BY <2>1, StoredNat DEF IsNext
    <2>3. IsNext(new, t, p)
      <3>1. v >= p
        BY <2>2
      <3> QED BY <2>1, <3>1 DEF IsNext
    <2>4. NextIn(new, t) = p
      BY <2>3, NextFacts
    <2> QED BY <2>4 DEF p
  <1> QED BY <1>2, <1>3

\* The neighbours are those of the stored targets.
LEMMA SameStoredSameNeighbours ==
    ASSUME NEW old, NEW new, NEW t, StoredIn(new) = StoredIn(old)
    PROVE  PrevIn(new, t) = PrevIn(old, t) /\ NextIn(new, t) = NextIn(old, t)
  BY DEF PrevIn, NextIn

LEMMA OracleStep == ApiInv /\ Oracle => ApiInv'
  <1> SUFFICES ASSUME ApiInv, Oracle PROVE ApiInv'
    OBVIOUS
  <1>1. /\ synced' = synced /\ req' = req /\ row' = row /\ prev' = prev /\ next' = next
        /\ info' = info /\ resp' = resp /\ failed' = failed
        /\ seen' = IF req.pc = "idle" THEN {} ELSE seen \cup {rows'}
        /\ \A t \in Targets : rows'[t] # NoRow => rows'[t].block <= synced
    BY DEF Oracle, read
  <1>2. rows \in TableType /\ (Insert \/ Resolve)
    BY DEF Oracle, ApiInv, ApiTypeOK
  <1>3. /\ rows' \in TableType
        /\ \A s \in StoredIn(rows) : /\ s \in StoredIn(rows')
                                     /\ rows'[s].block = rows[s].block
        /\ \/ StoredIn(rows') = StoredIn(rows)
           \/ \E t \in StoredIn(rows') :
                 /\ \A s \in StoredIn(rows) : s < t
                 /\ StoredIn(rows') = StoredIn(rows) \cup {t}
                 /\ rows'[t].status = "pending"
        /\ \A s \in StoredIn(rows) : rows[s].status # "pending" => rows'[s] = rows[s]
    BY <1>2, TableStep
  <1>4. ApiTypeOK'
    BY <1>1, <1>3 DEF ApiInv, ApiTypeOK
  <1>5. TablesKept'
    <2>1. \A t \in StoredIn(rows') : rows'[t].block <= synced'
      BY <1>1 DEF StoredIn
    <2>2. req'.pc # "idle" => rows' \in seen'
      BY <1>1
    <2>3. prev' # Nothing => prev' \in StoredIn(rows')
      BY <1>1, <1>3 DEF ApiInv, TablesKept
    <2>4. \E n \in Nat : \A t \in StoredIn(rows') : t <= n
      <3>1. PICK n \in Nat : \A t \in StoredIn(rows) : t <= n
        BY DEF ApiInv, TablesKept
      <3>2. CASE StoredIn(rows') = StoredIn(rows)
        BY <3>1, <3>2
      <3>3. CASE StoredIn(rows') # StoredIn(rows)
        <4>1. PICK v \in StoredIn(rows') :
                     /\ \A s \in StoredIn(rows) : s < v
                     /\ StoredIn(rows') = StoredIn(rows) \cup {v}
          BY <1>3, <3>3
        <4>2. v \in Nat
          BY <4>1, StoredNat
        <4>3. \A s \in StoredIn(rows') : s <= v
          BY <4>1, <4>2, StoredNat
        <4> QED BY <4>2, <4>3
      <3> QED BY <3>2, <3>3
    <2> QED BY <2>1, <2>2, <2>3, <2>4 DEF TablesKept
  <1>6. Path' /\ RowRead' /\ InfoRead'
    BY <1>1 DEF ApiInv, Path, RowRead, InfoRead, BalancesOf
  <1>7. LatestMoment'
    <2>1. SUFFICES ASSUME req.pc = "neighbours" PROVE LatestMoment'
      BY <1>1 DEF LatestMoment
    <2> DEFINE t == row.target
    <2>2. /\ req.epoch = Nothing
          /\ t \in StoredIn(rows) /\ row = RowAt(rows, t) /\ row.status = "confirmed"
      BY <2>1 DEF ApiInv, LatestMoment
    <2>3. PICK tab \in seen : /\ t \in StoredIn(tab) /\ row = RowAt(tab, t) /\ NoneLater(tab, t)
                              /\ PrevIn(tab, t) = PrevIn(rows, t)
                              /\ NextIn(tab, t) = NextIn(rows, t)
      BY <2>1 DEF ApiInv, LatestMoment
    <2>4. seen' = seen \cup {rows'}
      BY <1>1, <2>1
    <2> HIDE DEF t
    <2>5. t \in StoredIn(rows') /\ row = RowAt(rows', t)
      <3>1. rows[t].status = "confirmed"
        <4>1. RowAt(rows, t).status = rows[t].status
          BY DEF RowAt
        <4> QED BY <4>1, <2>2
      <3>2. rows'[t] = rows[t]
        BY <3>1, <2>2, <1>3
      <3> QED BY <3>2, <2>2, <1>3 DEF RowAt
    <2>6. \E u \in seen' : /\ t \in StoredIn(u) /\ row = RowAt(u, t) /\ NoneLater(u, t)
                           /\ PrevIn(u, t) = PrevIn(rows', t)
                           /\ NextIn(u, t) = NextIn(rows', t)
      <3>1. CASE StoredIn(rows') = StoredIn(rows)
        <4>1. PrevIn(rows', t) = PrevIn(rows, t) /\ NextIn(rows', t) = NextIn(rows, t)
          BY <3>1, SameStoredSameNeighbours
        <4>2. tab \in seen'
          BY <2>4
        <4> QED BY <2>3, <4>1, <4>2
      <3>2. CASE StoredIn(rows') # StoredIn(rows)
        <4>1. PICK v \in StoredIn(rows') :
                     /\ \A s \in StoredIn(rows) : s < v
                     /\ StoredIn(rows') = StoredIn(rows) \cup {v}
                     /\ rows'[v].status = "pending"
          BY <1>3, <3>2
        <4>2. v \in Nat /\ v \in Targets /\ t \in Nat /\ t \in Targets
          BY <4>1, <2>2, StoredNat
        <4>3. CASE \E s \in StoredIn(rows) : s > t
          <5>1. PrevIn(rows', t) = PrevIn(rows, t) /\ NextIn(rows', t) = NextIn(rows, t)
            BY <4>1, <4>2, <4>3, <2>2, NeighboursKept
          <5>2. tab \in seen'
            BY <2>4
          <5> QED BY <2>3, <5>1, <5>2
        <4>4. CASE ~\E s \in StoredIn(rows) : s > t
          <5>1. NoneLater(rows', t)
            <6> SUFFICES ASSUME NEW s \in Targets, rows'[s] # NoRow, s > t
                         PROVE  rows'[s].status # "confirmed"
              BY DEF NoneLater
            <6>1. s \in StoredIn(rows')
              BY DEF StoredIn
            <6>2. s = v
              BY <6>1, <4>1, <4>4
            <6> QED BY <6>2, <4>1
          <5>2. rows' \in seen'
            BY <2>4
          <5> QED BY <2>5, <5>1, <5>2
        <4> QED BY <4>3, <4>4
      <3> QED BY <3>1, <3>2
    <2>7. row'.target = t
      BY <1>1 DEF t
    <2>8. LatestMoment' = (req'.pc = "neighbours" =>
              /\ req'.epoch = Nothing
              /\ row'.target \in StoredIn(rows') /\ row' = RowAt(rows', row'.target)
              /\ row'.status = "confirmed"
              /\ \E u \in seen' : /\ row'.target \in StoredIn(u) /\ row' = RowAt(u, row'.target)
                                  /\ NoneLater(u, row'.target)
                                  /\ PrevIn(u, row'.target) = PrevIn(rows', row'.target)
                                  /\ NextIn(u, row'.target) = NextIn(rows', row'.target))
      BY DEF LatestMoment
    <2> QED BY <1>1, <2>2, <2>5, <2>6, <2>7, <2>8
  <1>8. ReadMoment'
    <2>1. req.pc \in {"tree", "info", "diff"} => seen \subseteq seen'
      BY <1>1
    <2> QED BY <1>1, <2>1 DEF ApiInv, ReadMoment
  <1>9. ResponseOfOneMoment'
    <2>1. Served({"commit", "full"}) => seen \subseteq seen'
      <3>1. Served({"commit", "full"}) => req.pc # "idle"
        BY DEF Served, ApiInv, Path
      <3> QED BY <1>1, <3>1
    <2>2. Served({"commit", "full"})' = Served({"commit", "full"})
      BY <1>1 DEF Served
    <2> QED BY <1>1, <2>1, <2>2 DEF ApiInv, ResponseOfOneMoment
  <1>10. ProofServedVerifies' /\ EveryClusterDescribed'
    BY <1>1 DEF ApiInv, ProofServedVerifies, EveryClusterDescribed, Served
  <1>11. DiffExact'
    <2>1. Served({"full"})' = Served({"full"})
      BY <1>1 DEF Served
    <2>2. prev # Nothing => BalancesOf(rows'[prev]) = BalancesOf(rows[prev])
      BY <1>3 DEF ApiInv, TablesKept, BalancesOf
    <2> QED BY <1>1, <2>1, <2>2 DEF ApiInv, DiffExact
  <1> QED BY <1>4, <1>5, <1>6, <1>7, <1>8, <1>9, <1>10, <1>11 DEF ApiInv

LEMMA SyncStep == ApiInv /\ Sync => ApiInv'
  <1> SUFFICES ASSUME ApiInv, Sync PROVE ApiInv'
    OBVIOUS
  <1>1. /\ rows' = rows /\ req' = req /\ row' = row /\ prev' = prev /\ next' = next
        /\ info' = info /\ resp' = resp /\ failed' = failed /\ seen' = seen
    BY DEF Sync, read
  <1>2. synced \in Nat /\ synced' \in Nat /\ synced' > synced
    BY CommitLogAssumption DEF Sync, ApiInv, ApiTypeOK
  <1>3. ApiTypeOK'
    BY <1>1, <1>2 DEF ApiInv, ApiTypeOK
  <1>4. TablesKept'
    <2>1. ASSUME NEW t \in StoredIn(rows) PROVE rows[t].block <= synced'
      <3>1. rows[t].block \in Nat
        <4>1. rows[t] \in Commits
          BY DEF StoredIn, TableType, ApiInv, ApiTypeOK
        <4> QED BY <4>1, CommitLogAssumption DEF Commits
      <3>2. rows[t].block <= synced
        BY DEF ApiInv, TablesKept
      <3> QED BY <1>2, <3>1, <3>2
    <2> QED BY <1>1, <2>1 DEF ApiInv, TablesKept
  <1>5. Path' /\ InfoRead'
    BY <1>1 DEF ApiInv, Path, InfoRead, BalancesOf
  <1>6. RowRead'
    <2>1. SUFFICES ASSUME req.pc \in {"neighbours", "tree", "info", "diff"}
                   PROVE  row.block \in Blocks /\ row.block <= synced' /\ row.root = RootOf[row.block]
      BY <1>1 DEF RowRead
    <2>2. row.block \in Blocks /\ row.block <= synced /\ row.root = RootOf[row.block]
      BY <2>1 DEF ApiInv, RowRead
    <2>3. row.block \in Nat
      BY <2>2, CommitLogAssumption
    <2> QED BY <1>2, <2>2, <2>3
  <1>7. LatestMoment' /\ ReadMoment'
    BY <1>1 DEF ApiInv, LatestMoment, ReadMoment
  <1>8. ResponseOfOneMoment' /\ ProofServedVerifies' /\ DiffExact' /\ EveryClusterDescribed'
    BY <1>1 DEF ApiInv, ResponseOfOneMoment, ProofServedVerifies, DiffExact,
                EveryClusterDescribed, Served
  <1> QED BY <1>3, <1>4, <1>5, <1>6, <1>7, <1>8 DEF ApiInv

LEMMA FreshStep == ApiInv /\ Fresh => ApiInv'
  <1> SUFFICES ASSUME ApiInv, Fresh PROVE ApiInv'
    OBVIOUS
  <1>1. /\ rows' = [t \in Targets |-> NoRow] /\ synced' = 0 /\ req' = Idle
        /\ prev' = Nothing /\ resp' = Nothing /\ failed' = FALSE
    BY DEF Fresh, Clear
  <1>2. StoredIn(rows') = {} /\ rows' \in TableType /\ req'.pc = "idle"
    BY <1>1 DEF StoredIn, TableType, Idle
  <1>3. TablesKept'
    BY <1>1, <1>2 DEF TablesKept
  <1>4. ApiTypeOK'
    BY <1>1, <1>2, IdleStep DEF ApiTypeOK
  <1> QED BY <1>1, <1>3, <1>4, IdleStep DEF ApiInv

LEMMA DoneStep == ApiInv /\ Done => ApiInv'
  <1> SUFFICES ASSUME ApiInv, Done PROVE ApiInv'
    OBVIOUS
  <1>1. /\ rows' = rows /\ synced' = synced /\ req' = Idle
        /\ prev' = Nothing /\ resp' = Nothing /\ failed' = FALSE
    BY DEF Done
  <1>2. req'.pc = "idle"
    BY <1>1 DEF Idle
  <1>3. TablesKept'
    BY <1>1, <1>2 DEF ApiInv, TablesKept
  <1>4. ApiTypeOK'
    BY <1>1, IdleStep DEF ApiInv, ApiTypeOK
  <1> QED BY <1>1, <1>3, <1>4, IdleStep DEF ApiInv

-----------------------------------------------------------------------------
(* The steps of a request.                                                 *)

\* A request moves to another place and stays the same request.
LEMMA Moved ==
    ASSUME req \in Requests, NEW p \in Places, req' = [req EXCEPT !.pc = p]
    PROVE  /\ req' \in Requests /\ req'.pc = p
           /\ req'.kind = req.kind /\ req'.epoch = req.epoch /\ req'.cluster = req.cluster
  BY DEF Requests

\* A step that answers nothing says nothing wrong.
LEMMA Unanswered ==
    ASSUME resp' = Nothing
    PROVE  ResponseOfOneMoment' /\ ProofServedVerifies' /\ DiffExact' /\ EveryClusterDescribed'
  BY DEF ResponseOfOneMoment, ProofServedVerifies, DiffExact, EveryClusterDescribed, Served

\* A request that is over reads no more.
LEMMA AnsweredStep ==
    ASSUME req'.pc = "done"
    PROVE  Path' /\ RowRead' /\ LatestMoment' /\ ReadMoment' /\ InfoRead'
  BY DEF Path, RowRead, LatestMoment, ReadMoment, InfoRead

\* An error is the answer: it has nothing to describe.
LEMMA ErrorStep ==
    ASSUME NEW code \in {400, 404, 500}, resp' = Error(code), code = 500 => failed'
    PROVE  ResponseOfOneMoment' /\ ProofServedVerifies' /\ DiffExact' /\ EveryClusterDescribed'
  <1>1. resp'.code = code /\ code # 200
    BY DEF Error
  <1>2. \A kinds : ~Served(kinds)'
    BY <1>1 DEF Served
  <1>3. resp'.code = 500 => failed'
    BY <1>1
  <1> QED BY <1>2, <1>3 DEF ResponseOfOneMoment, ProofServedVerifies, DiffExact, EveryClusterDescribed

\* The neighbours that a query returns are stored.
LEMMA NeighbourStored ==
    ASSUME NEW tab, NEW t \in Targets
    PROVE  PrevIn(tab, t) # Nothing => PrevIn(tab, t) \in StoredIn(tab)
  BY PrevFacts DEF PrevIn, IsPrev

\* A stored row was committed, for a block that is synced.
LEMMA StoredRow ==
    ASSUME ApiInv, NEW t \in StoredIn(rows)
    PROVE  /\ RowAt(rows, t).target = t
           /\ RowAt(rows, t).block \in Blocks /\ RowAt(rows, t).block <= synced
           /\ RowAt(rows, t).root = RootOf[RowAt(rows, t).block]
           /\ RowAt(rows, t).status = rows[t].status
  <1>1. rows[t] \in Commits
    BY DEF StoredIn, TableType, ApiInv, ApiTypeOK
  <1>2. rows[t].block <= synced
    BY DEF ApiInv, TablesKept
  <1>3. rows[t].block \in Blocks /\ rows[t].root = RootOf[rows[t].block]
    BY <1>1 DEF Commits
  <1> QED BY <1>2, <1>3 DEF RowAt

\* The tables are left alone, and the neighbours too or they were just read.
LEMMA TablesStep ==
    ASSUME ApiInv, rows' = rows, synced' = synced, rows \in seen',
           prev' # Nothing => prev' \in StoredIn(rows)
    PROVE  TablesKept'
  BY DEF ApiInv, TablesKept

LEMMA ReceiveStep == ApiInv /\ Receive => ApiInv'
  <1> SUFFICES ASSUME ApiInv, Receive PROVE ApiInv'
    OBVIOUS
  <1>1. /\ rows' = rows /\ synced' = synced /\ row' = row /\ prev' = prev /\ next' = next
        /\ info' = info /\ failed' = failed /\ seen' = {rows} /\ req.pc = "idle"
    BY DEF Receive, read
  <1>2. TablesKept'
    BY <1>1, TablesStep DEF ApiInv, TablesKept
  <1>3. PICK q \in Params :
          \/ resp' = Error(400) /\ req' = Begin(q, "done")
          \/ /\ q.epoch # Malformed
             /\ req' = Begin(q, IF q.epoch = Nothing THEN "latest" ELSE "epoch")
             /\ UNCHANGED resp
    BY DEF Receive
  <1>4. \A p \in Places : /\ Begin(q, p) \in Requests
                          /\ Begin(q, p).pc = p /\ Begin(q, p).epoch = q.epoch
    BY DEF Begin, Requests, Params
  <1>5. CASE resp' = Error(400) /\ req' = Begin(q, "done")
    <2>1. req' \in Requests /\ req'.pc = "done"
      BY <1>4, <1>5 DEF Places
    <2>2. ApiTypeOK'
      BY <1>1, <2>1 DEF ApiInv, ApiTypeOK
    <2>3. ResponseOfOneMoment' /\ ProofServedVerifies' /\ DiffExact' /\ EveryClusterDescribed'
      BY <1>5, ErrorStep
    <2> QED BY <1>2, <2>1, <2>2, <2>3, AnsweredStep DEF ApiInv
  <1>6. CASE /\ q.epoch # Malformed
             /\ req' = Begin(q, IF q.epoch = Nothing THEN "latest" ELSE "epoch")
             /\ UNCHANGED resp
    <2>1. resp' = Nothing
      BY <1>1, <1>6 DEF ApiInv, Path
    <2>2. /\ req' \in Requests /\ req'.epoch = q.epoch
          /\ req'.pc = IF q.epoch = Nothing THEN "latest" ELSE "epoch"
      BY <1>4, <1>6 DEF Places
    <2>3. q.epoch # Nothing => q.epoch \in Targets
      BY <1>6 DEF Params
    <2>4. ApiTypeOK'
      BY <1>1, <2>2 DEF ApiInv, ApiTypeOK
    <2>5. Path' /\ RowRead' /\ LatestMoment' /\ ReadMoment' /\ InfoRead'
      BY <2>1, <2>2, <2>3 DEF Path, RowRead, LatestMoment, ReadMoment, InfoRead
    <2> QED BY <1>2, <2>1, <2>4, <2>5, Unanswered DEF ApiInv
  <1> QED BY <1>3, <1>5, <1>6

LEMMA ResolveFailsStep == ApiInv /\ ResolveFails => ApiInv'
  <1> SUFFICES ASSUME ApiInv, ResolveFails PROVE ApiInv'
    OBVIOUS
  <1>1. /\ rows' = rows /\ synced' = synced /\ row' = row /\ prev' = prev /\ next' = next
        /\ info' = info /\ failed' = TRUE /\ seen' = seen /\ req.pc # "idle"
        /\ resp' = Error(500) /\ req' = [req EXCEPT !.pc = "done"]
    BY DEF ResolveFails, read, Respond
  <1>2. TablesKept'
    BY <1>1, TablesStep DEF ApiInv, TablesKept
  <1>3. req' \in Requests /\ req'.pc = "done"
    BY <1>1, Moved DEF ApiInv, ApiTypeOK, Places
  <1>4. ApiTypeOK'
    BY <1>1, <1>3 DEF ApiInv, ApiTypeOK
  <1>5. ResponseOfOneMoment' /\ ProofServedVerifies' /\ DiffExact' /\ EveryClusterDescribed'
    BY <1>1, ErrorStep
  <1> QED BY <1>2, <1>3, <1>4, <1>5, AnsweredStep DEF ApiInv

LEMMA ResolveEpochStep == ApiInv /\ ResolveEpoch => ApiInv'
  <1> SUFFICES ASSUME ApiInv, ResolveEpoch PROVE ApiInv'
    OBVIOUS
  <1> DEFINE e == req.epoch
  <1>1. /\ rows' = rows /\ synced' = synced /\ failed' = failed /\ seen' = seen
        /\ req.pc = "epoch"
    BY DEF ResolveEpoch
  <1>2. e \in Targets /\ e # Nothing /\ rows \in seen /\ resp = Nothing
    BY <1>1, CommitApiAssumption DEF ApiInv, Path, TablesKept
  <1>3. CASE rows[e] = NoRow
    <2>1. /\ resp' = Error(404) /\ req' = [req EXCEPT !.pc = "done"]
          /\ row' = row /\ prev' = prev /\ next' = next /\ info' = info
      BY <1>3 DEF ResolveEpoch, Respond, read
    <2>2. TablesKept'
      BY <1>1, <1>2, <2>1, TablesStep DEF ApiInv, TablesKept
    <2>3. req' \in Requests /\ req'.pc = "done"
      BY <2>1, Moved DEF ApiInv, ApiTypeOK, Places
    <2>4. ApiTypeOK'
      BY <1>1, <2>1, <2>3 DEF ApiInv, ApiTypeOK
    <2>5. ResponseOfOneMoment' /\ ProofServedVerifies' /\ DiffExact' /\ EveryClusterDescribed'
      BY <2>1, ErrorStep
    <2> QED BY <2>2, <2>3, <2>4, <2>5, AnsweredStep DEF ApiInv
  <1>4. CASE rows[e] # NoRow
    <2>1. /\ row' = RowAt(rows, e) /\ prev' = Neighbours(e).prev /\ next' = Neighbours(e).next
          /\ req' = [req EXCEPT !.pc = "tree"] /\ info' = info /\ resp' = resp
      BY <1>4 DEF ResolveEpoch
    <2>2. e \in StoredIn(rows)
      BY <1>2, <1>4 DEF StoredIn
    <2>3. prev' = PrevIn(rows, e) /\ next' = NextIn(rows, e)
      BY <1>2, <2>1, NeighboursAre
    <2>4. prev' # Nothing => prev' \in StoredIn(rows)
      BY <1>2, <2>3, NeighbourStored
    <2>5. TablesKept'
      BY <1>1, <1>2, <2>4, TablesStep
    <2>6. req' \in Requests /\ req'.pc = "tree" /\ req'.epoch = e
      BY <2>1, Moved DEF ApiInv, ApiTypeOK, Places
    <2>7. ApiTypeOK'
      BY <1>1, <2>4, <2>6 DEF ApiInv, ApiTypeOK, StoredIn
    <2>8. /\ row'.target = e /\ row'.block \in Blocks /\ row'.block <= synced
          /\ row'.root = RootOf[row'.block]
      BY <2>1, <2>2, StoredRow
    <2>9. ReadMoment'
      <3>1. MomentOf(rows, row', prev', next', req'.epoch)
        BY <1>2, <2>1, <2>2, <2>3, <2>6, <2>8 DEF MomentOf
      <3> QED BY <1>1, <1>2, <3>1 DEF ReadMoment
    <2>10. Path' /\ RowRead' /\ LatestMoment' /\ InfoRead'
      BY <1>1, <1>2, <2>1, <2>6, <2>8 DEF Path, RowRead, LatestMoment, InfoRead
    <2> QED BY <1>2, <2>1, <2>5, <2>7, <2>9, <2>10, Unanswered DEF ApiInv
  <1> QED BY <1>3, <1>4

\* The latest commit is a confirmed row with no confirmed one after it.
LEMMA LatestIs ==
    ASSUME ApiInv, GetLatestCommit # Nothing
    PROVE  /\ GetLatestCommit \in StoredIn(rows) /\ rows[GetLatestCommit].status = "confirmed"
           /\ NoneLater(rows, GetLatestCommit)
  <1> DEFINE C == {t \in Stored : rows[t].status = "confirmed"}
             m == Max(C)
  <1>1. \A t : t \in C <=> t \in StoredIn(rows) /\ rows[t].status = "confirmed"
    BY DEF Stored, StoredIn
  <1>2. C # {} /\ GetLatestCommit = m
    BY DEF GetLatestCommit
  <1>3. PICK n \in Nat : \A t \in StoredIn(rows) : t <= n
    BY DEF ApiInv, TablesKept
  <1> HIDE DEF C, m
  <1>4. C \subseteq Nat /\ \A x \in C : x <= n
    BY <1>1, <1>3, StoredNat
  <1>5. PICK g \in C : \A y \in C : y <= g
    BY <1>2, <1>4, GreatestNatural
  <1>6. \A y \in C : g >= y
    BY <1>4, <1>5
  <1>7. m \in C /\ \A y \in C : m >= y
    BY <1>5, <1>6 DEF Max, m
  <1>8. NoneLater(rows, m)
    <2> SUFFICES ASSUME NEW s \in Targets, rows[s] # NoRow, s > m, rows[s].status = "confirmed"
                 PROVE  FALSE
      BY DEF NoneLater
    <2>1. s \in C
      BY <1>1 DEF StoredIn
    <2>2. m >= s /\ m \in Nat /\ s \in Nat
      BY <1>4, <1>7, <2>1
    <2> QED BY <2>2
  <1> QED BY <1>1, <1>2, <1>7, <1>8

LEMMA ResolveLatestStep == ApiInv /\ ResolveLatest => ApiInv'
  <1> SUFFICES ASSUME ApiInv, ResolveLatest PROVE ApiInv'
    OBVIOUS
  <1> DEFINE t == GetLatestCommit
  <1>1. /\ rows' = rows /\ synced' = synced /\ failed' = failed /\ seen' = seen
        /\ req.pc = "latest"
    BY DEF ResolveLatest
  <1>2. req.epoch = Nothing /\ rows \in seen /\ resp = Nothing
    BY <1>1 DEF ApiInv, Path, TablesKept
  <1>3. CASE t = Nothing
    <2>1. /\ resp' = Error(404) /\ req' = [req EXCEPT !.pc = "done"]
          /\ row' = row /\ prev' = prev /\ next' = next /\ info' = info
      BY <1>3 DEF ResolveLatest, Respond, read
    <2>2. TablesKept'
      BY <1>1, <1>2, <2>1, TablesStep DEF ApiInv, TablesKept
    <2>3. req' \in Requests /\ req'.pc = "done"
      BY <2>1, Moved DEF ApiInv, ApiTypeOK, Places
    <2>4. ApiTypeOK'
      BY <1>1, <2>1, <2>3 DEF ApiInv, ApiTypeOK
    <2>5. ResponseOfOneMoment' /\ ProofServedVerifies' /\ DiffExact' /\ EveryClusterDescribed'
      BY <2>1, ErrorStep
    <2> QED BY <2>2, <2>3, <2>4, <2>5, AnsweredStep DEF ApiInv
  <1>4. CASE t # Nothing
    <2>1. /\ row' = RowAt(rows, t) /\ prev' = prev /\ next' = next
          /\ req' = [req EXCEPT !.pc = "neighbours"] /\ info' = info /\ resp' = resp
      BY <1>4 DEF ResolveLatest
    <2>2. t \in StoredIn(rows) /\ rows[t].status = "confirmed" /\ NoneLater(rows, t)
      BY <1>4, LatestIs
    <2>3. TablesKept'
      BY <1>1, <1>2, <2>1, TablesStep DEF ApiInv, TablesKept
    <2>4. req' \in Requests /\ req'.pc = "neighbours" /\ req'.epoch = req.epoch
      BY <2>1, Moved DEF ApiInv, ApiTypeOK, Places
    <2>5. ApiTypeOK'
      BY <1>1, <2>1, <2>4 DEF ApiInv, ApiTypeOK
    <2> HIDE DEF t
    <2>6. /\ row'.target = t /\ row'.block \in Blocks /\ row'.block <= synced
          /\ row'.root = RootOf[row'.block] /\ row'.status = "confirmed"
      BY <2>1, <2>2, StoredRow
    <2>7. LatestMoment'
      <3>1. \E tab \in seen : /\ t \in StoredIn(tab) /\ row' = RowAt(tab, t) /\ NoneLater(tab, t)
                              /\ PrevIn(tab, t) = PrevIn(rows, t)
                              /\ NextIn(tab, t) = NextIn(rows, t)
        BY <1>2, <2>1, <2>2
      <3>2. \E tab \in seen' : /\ row'.target \in StoredIn(tab) /\ row' = RowAt(tab, row'.target)
                               /\ NoneLater(tab, row'.target)
                               /\ PrevIn(tab, row'.target) = PrevIn(rows', row'.target)
                               /\ NextIn(tab, row'.target) = NextIn(rows', row'.target)
        BY <3>1, <2>6, <1>1
      <3>3. /\ req'.epoch = Nothing /\ row'.target \in StoredIn(rows')
            /\ row' = RowAt(rows', row'.target) /\ row'.status = "confirmed"
        BY <1>1, <1>2, <2>1, <2>2, <2>4, <2>6
      <3> QED BY <3>2, <3>3 DEF LatestMoment
    <2>8. Path' /\ RowRead' /\ ReadMoment' /\ InfoRead'
      BY <1>1, <1>2, <2>1, <2>4, <2>6 DEF Path, RowRead, ReadMoment, InfoRead
    <2> QED BY <1>2, <2>1, <2>3, <2>5, <2>7, <2>8, Unanswered DEF ApiInv
  <1> QED BY <1>3, <1>4

LEMMA ResolveNeighboursStep == ApiInv /\ ResolveNeighbours => ApiInv'
  <1> SUFFICES ASSUME ApiInv, ResolveNeighbours PROVE ApiInv'
    OBVIOUS
  <1> DEFINE t == row.target
  <1>1. /\ rows' = rows /\ synced' = synced /\ row' = row /\ info' = info /\ resp' = resp
        /\ seen' = seen /\ req.pc = "neighbours" /\ req' = [req EXCEPT !.pc = "tree"]
        /\ \/ prev' = Neighbours(t).prev /\ next' = Neighbours(t).next /\ failed' = failed
           \/ failed' = TRUE /\ prev' = prev /\ next' = next
    BY DEF ResolveNeighbours
  <1>2. /\ req.epoch = Nothing /\ rows \in seen /\ resp = Nothing
        /\ t \in StoredIn(rows) /\ row = RowAt(rows, t) /\ row.status = "confirmed"
    BY <1>1 DEF ApiInv, Path, TablesKept, LatestMoment
  <1>3. PICK tab \in seen : /\ t \in StoredIn(tab) /\ row = RowAt(tab, t) /\ NoneLater(tab, t)
                            /\ PrevIn(tab, t) = PrevIn(rows, t)
                            /\ NextIn(tab, t) = NextIn(rows, t)
    BY <1>1 DEF ApiInv, LatestMoment
  <1>4. t \in Targets
    BY <1>2, StoredNat
  <1>5. Neighbours(t).prev = PrevIn(rows, t) /\ Neighbours(t).next = NextIn(rows, t)
    BY <1>4, NeighboursAre
  <1>6. prev' # Nothing => prev' \in StoredIn(rows)
    BY <1>1, <1>4, <1>5, NeighbourStored DEF ApiInv, TablesKept
  <1>7. TablesKept'
    BY <1>1, <1>2, <1>6, TablesStep
  <1>8. req' \in Requests /\ req'.pc = "tree" /\ req'.epoch = Nothing
    BY <1>1, <1>2, Moved DEF ApiInv, ApiTypeOK, Places
  <1>9. ApiTypeOK'
    <2>1. prev' \in Targets \cup {Nothing} /\ failed' \in BOOLEAN
      BY <1>1, <1>6 DEF ApiInv, ApiTypeOK, StoredIn
    <2> QED BY <1>1, <1>8, <2>1 DEF ApiInv, ApiTypeOK
  <1>10. ReadMoment'
    <2>1. SUFFICES ASSUME ~failed' PROVE ReadMoment'
      BY DEF ReadMoment
    <2>2. prev' = PrevIn(tab, t) /\ next' = NextIn(tab, t)
      BY <1>1, <1>3, <1>5, <2>1
    <2>3. MomentOf(tab, row', prev', next', req'.epoch)
      BY <1>1, <1>2, <1>3, <1>8, <2>2 DEF MomentOf
    <2> QED BY <1>1, <2>3 DEF ReadMoment
  <1>11. RowRead'
    BY <1>1 DEF ApiInv, RowRead
  <1>12. Path' /\ LatestMoment' /\ InfoRead'
    BY <1>1, <1>2, <1>8 DEF Path, LatestMoment, InfoRead
  <1> QED BY <1>1, <1>2, <1>7, <1>9, <1>10, <1>11, <1>12, Unanswered DEF ApiInv

\* A commit that is served is one that was read at one moment.
LEMMA OneMomentStep ==
    ASSUME ApiInv, req.pc \in {"tree", "info", "diff"}, ~failed' => ~failed, seen' = seen,
           req'.epoch = req.epoch,
           resp'.body.row = row, resp'.body.prev = prev, resp'.body.next = next
    PROVE  ResponseOfOneMoment'
  <1> SUFFICES ASSUME ~failed'
               PROVE  \E tab \in seen' :
                  /\ InTable(tab, resp'.body.row.target, resp'.body)
                  /\ IF req'.epoch # Nothing THEN resp'.body.row.target = req'.epoch
                     ELSE /\ resp'.body.row.status = "confirmed"
                          /\ \A t \in Targets : tab[t] # NoRow /\ t > resp'.body.row.target
                                => tab[t].status # "confirmed"
    BY DEF ResponseOfOneMoment
  <1>1. PICK tab \in seen : MomentOf(tab, row, prev, next, req.epoch)
    BY DEF ApiInv, ReadMoment
  <1>2. MomentOf(tab, resp'.body.row, resp'.body.prev, resp'.body.next, req'.epoch)
    BY <1>1
  <1> QED BY <1>2, MomentInTable

\* Only the answer to a proof request holds a proof, and only one to a full
\* request a diff and clusters.
LEMMA OtherKinds ==
    /\ (req'.kind = "proof" => ResponseOfOneMoment')
    /\ (req'.kind # "full" => DiffExact' /\ EveryClusterDescribed')
    /\ (req'.kind # "proof" /\ resp'.code # 500 => ProofServedVerifies')
  BY DEF Served, ResponseOfOneMoment, DiffExact, EveryClusterDescribed, ProofServedVerifies

\* The row in hand: the tree rebuilt for it has its root.
LEMMA RowRebuilt ==
    ASSUME ApiInv, req.pc \in {"tree", "info", "diff"}
    PROVE  /\ row.block \in Blocks /\ row.block <= synced
           /\ BalancesOf(row) \in BalanceMaps
           /\ buildTree(BalancesOf(row)).Root = row.root
           /\ row.root = RootOf[row.block]
           /\ \A c \in DOMAIN BalancesOf(row) :
                 ProcessProof(HashLeaf(<<c, BalancesOf(row)[c]>>),
                              GetProof(buildTree(BalancesOf(row)), c)) = RootOf[row.block]
  <1>1. row.block \in Blocks /\ row.block <= synced /\ row.root = RootOf[row.block]
    BY DEF ApiInv, RowRead
  <1> QED BY <1>1, RebuiltRoot DEF BalancesOf

LEMMA GetProofStep == ApiInv /\ handleGetProof => ApiInv'
  <1> SUFFICES ASSUME ApiInv, handleGetProof PROVE ApiInv'
    OBVIOUS
  <1> DEFINE t == buildTree(BalancesOf(row))
             m == BalancesOf(row)
  <1>1. /\ rows' = rows /\ synced' = synced /\ row' = row /\ prev' = prev /\ next' = next
        /\ info' = info /\ failed' = failed /\ seen' = seen
        /\ req.pc = "tree" /\ req.kind = "proof"
        /\ resp' = ProofResponse /\ req' = [req EXCEPT !.pc = "done"]
    BY DEF handleGetProof, read, Respond
  <1>2. rows \in seen
    BY <1>1 DEF ApiInv, TablesKept
  <1>3. TablesKept'
    BY <1>1, <1>2, TablesStep DEF ApiInv, TablesKept
  <1>4. /\ req' \in Requests /\ req'.pc = "done" /\ req'.kind = "proof"
        /\ req'.cluster = req.cluster
    BY <1>1, Moved DEF ApiInv, ApiTypeOK, Places
  <1>5. ApiTypeOK'
    BY <1>1, <1>4 DEF ApiInv, ApiTypeOK
  <1>6. ProofServedVerifies'
    <2>1. t.Root = row.root
      BY <1>1, RowRebuilt
    <2>2. CASE req.cluster \notin DOMAIN m
      <3>1. resp' = Error(404)
        BY <1>1, <2>1, <2>2 DEF ProofResponse
      <3> QED BY <3>1, ErrorStep
    <2>3. CASE req.cluster \in DOMAIN m
      <3>1. resp' = [code |-> 200, body |-> [row |-> row, balance |-> m[req.cluster],
                                             proof |-> GetProof(t, req.cluster)]]
        BY <1>1, <2>1, <2>3 DEF ProofResponse
      <3>2. ProcessProof(HashLeaf(<<req.cluster, m[req.cluster]>>), GetProof(t, req.cluster))
              = RootOf[row.block]
        BY <1>1, <2>3, RowRebuilt
      <3> HIDE DEF t, m
      <3>3. /\ resp'.code = 200 /\ resp'.body.row = row /\ resp'.body.balance = m[req.cluster]
            /\ resp'.body.proof = GetProof(t, req.cluster)
        BY <3>1
      <3>4. ProcessProof(HashLeaf(<<req'.cluster, resp'.body.balance>>), resp'.body.proof)
              = RootOf[resp'.body.row.block]
        BY <1>4, <3>2, <3>3
      <3> QED BY <3>3, <3>4 DEF ProofServedVerifies
    <2> QED BY <2>2, <2>3
  <1>7. ResponseOfOneMoment' /\ DiffExact' /\ EveryClusterDescribed'
    BY <1>4, OtherKinds
  <1> QED BY <1>3, <1>4, <1>5, <1>6, <1>7, AnsweredStep DEF ApiInv

LEMMA GetCommitStep == ApiInv /\ handleGetCommit => ApiInv'
  <1> SUFFICES ASSUME ApiInv, handleGetCommit PROVE ApiInv'
    OBVIOUS
  <1>1. /\ rows' = rows /\ synced' = synced /\ row' = row /\ prev' = prev /\ next' = next
        /\ info' = info /\ failed' = failed /\ seen' = seen
        /\ req.pc = "tree" /\ req.kind # "proof"
    BY DEF handleGetCommit, read
  <1>2. rows \in seen /\ resp = Nothing
    BY <1>1 DEF ApiInv, TablesKept, Path
  <1>3. TablesKept'
    BY <1>1, <1>2, TablesStep DEF ApiInv, TablesKept
  <1>4. CASE req.kind = "commit"
    <2>1. resp' = [code |-> 200, body |-> CommitBody] /\ req' = [req EXCEPT !.pc = "done"]
      BY <1>4 DEF handleGetCommit, Respond
    <2>2. /\ req' \in Requests /\ req'.pc = "done" /\ req'.kind = "commit"
          /\ req'.epoch = req.epoch
      BY <1>4, <2>1, Moved DEF ApiInv, ApiTypeOK, Places
    <2>3. ApiTypeOK'
      BY <1>1, <2>2 DEF ApiInv, ApiTypeOK
    <2>4. /\ resp'.code = 200 /\ resp'.body.row = row /\ resp'.body.prev = prev
          /\ resp'.body.next = next
      BY <2>1 DEF CommitBody
    <2>5. ResponseOfOneMoment'
      BY <1>1, <2>2, <2>4, OneMomentStep
    <2>6. ProofServedVerifies' /\ DiffExact' /\ EveryClusterDescribed'
      BY <2>2, <2>4, OtherKinds
    <2> QED BY <1>3, <2>2, <2>3, <2>5, <2>6, AnsweredStep DEF ApiInv
  <1>5. CASE req.kind # "commit"
    <2>1. req' = [req EXCEPT !.pc = "info"] /\ resp' = resp
      BY <1>1, <1>5, RowRebuilt DEF handleGetCommit
    <2>2. /\ req' \in Requests /\ req'.pc = "info" /\ req'.kind = "full"
          /\ req'.epoch = req.epoch
      <3>1. req.kind = "full"
        BY <1>1, <1>5 DEF ApiInv, ApiTypeOK, Requests, Kinds
      <3> QED BY <3>1, <2>1, Moved DEF ApiInv, ApiTypeOK, Places
    <2>3. ApiTypeOK'
      BY <1>1, <2>2 DEF ApiInv, ApiTypeOK
    <2>4. Path' /\ LatestMoment' /\ InfoRead'
      BY <1>2, <2>1, <2>2 DEF Path, LatestMoment, InfoRead
    <2>5. RowRead' /\ ReadMoment'
      BY <1>1, <2>2 DEF ApiInv, RowRead, ReadMoment
    <2> QED BY <1>2, <1>3, <2>1, <2>3, <2>4, <2>5, Unanswered DEF ApiInv
  <1> QED BY <1>4, <1>5

\* The fields of a full response.
LEMMA FullBodyFields ==
    ASSUME NEW diff, NEW body, body = FullBody(diff)
    PROVE  /\ body.row = row /\ body.prev = prev /\ body.next = next /\ body.diff = diff
           /\ body.clusters = buildTree(BalancesOf(row)).leaves
  BY DEF FullBody

\* A synced block's clusters are described.
LEMMA AllInfo ==
    ASSUME NEW b \in Blocks, b <= synced
    PROVE  DOMAIN BalancesAt[b] \subseteq GetAllClusterInfo
  BY DEF GetAllClusterInfo

LEMMA FullInfoStep == ApiInv /\ FullInfo => ApiInv'
  <1> SUFFICES ASSUME ApiInv, FullInfo PROVE ApiInv'
    OBVIOUS
  <1> DEFINE m == BalancesOf(row)
  <1>1. /\ rows' = rows /\ synced' = synced /\ row' = row /\ prev' = prev /\ next' = next
        /\ seen' = seen /\ req.pc = "info"
        /\ (info' = GetAllClusterInfo /\ failed' = failed) \/ failed' = TRUE
    BY DEF FullInfo
  <1>2. rows \in seen /\ resp = Nothing /\ req.kind = "full"
    BY <1>1 DEF ApiInv, TablesKept, Path
  <1>3. TablesKept'
    BY <1>1, <1>2, TablesStep DEF ApiInv, TablesKept
  <1>4. m \in BalanceMaps /\ (~failed' => ~failed /\ DOMAIN m \subseteq info')
    <2>1. row.block \in Blocks /\ row.block <= synced /\ m \in BalanceMaps
      BY <1>1, RowRebuilt
    <2>2. DOMAIN m \subseteq GetAllClusterInfo
      BY <2>1, AllInfo DEF BalancesOf
    <2> QED BY <1>1, <2>1, <2>2
  <1>5. CASE prev = Nothing
    <2>1. /\ resp' = [code |-> 200, body |-> FullBody(Nothing)]
          /\ req' = [req EXCEPT !.pc = "done"]
      BY <1>5 DEF FullInfo, Respond
    <2>2. /\ req' \in Requests /\ req'.pc = "done" /\ req'.kind = "full"
          /\ req'.epoch = req.epoch
      BY <1>2, <2>1, Moved DEF ApiInv, ApiTypeOK, Places
    <2>3. ApiTypeOK'
      BY <1>1, <2>2 DEF ApiInv, ApiTypeOK
    <2>4. /\ resp'.code = 200 /\ resp'.body.row = row /\ resp'.body.prev = prev
          /\ resp'.body.next = next /\ resp'.body.clusters = buildTree(m).leaves
      <3>1. resp'.code = 200 /\ resp'.body = FullBody(Nothing)
        BY <2>1
      <3> QED BY <3>1, FullBodyFields
    <2>5. ResponseOfOneMoment'
      BY <1>1, <1>4, <2>2, <2>4, OneMomentStep
    <2>6. ProofServedVerifies'
      BY <2>2, <2>4, OtherKinds
    <2>7. DiffExact'
      BY <1>1, <1>5 DEF DiffExact
    <2>8. EveryClusterDescribed'
      <3>1. \A i \in DOMAIN buildTree(m).leaves : buildTree(m).leaves[i][1] \in DOMAIN m
        BY <1>4, LeavesAreEntries
      <3>2. ~failed' => \A i \in DOMAIN resp'.body.clusters : resp'.body.clusters[i][1] \in info'
        BY <3>1, <1>4, <2>4
      <3> QED BY <3>2 DEF EveryClusterDescribed
    <2> QED BY <1>3, <2>2, <2>3, <2>5, <2>6, <2>7, <2>8, AnsweredStep DEF ApiInv
  <1>6. CASE prev # Nothing
    <2>1. req' = [req EXCEPT !.pc = "diff"] /\ resp' = resp
      BY <1>6 DEF FullInfo
    <2>2. /\ req' \in Requests /\ req'.pc = "diff" /\ req'.kind = "full"
          /\ req'.epoch = req.epoch
      BY <1>2, <2>1, Moved DEF ApiInv, ApiTypeOK, Places
    <2>3. ApiTypeOK'
      BY <1>1, <2>2 DEF ApiInv, ApiTypeOK
    <2>4. Path' /\ LatestMoment'
      BY <1>1, <1>2, <1>6, <2>1, <2>2 DEF Path, LatestMoment
    <2>5. RowRead'
      BY <1>1, <2>2 DEF ApiInv, RowRead
    <2>6. ReadMoment'
      BY <1>1, <1>4, <2>2 DEF ApiInv, ReadMoment
    <2>7. InfoRead'
      BY <1>1, <1>4 DEF InfoRead, BalancesOf
    <2> QED BY <1>2, <1>3, <2>1, <2>3, <2>4, <2>5, <2>6, <2>7, Unanswered DEF ApiInv
  <1> QED BY <1>5, <1>6

LEMMA FullDiffStep == ApiInv /\ FullDiff => ApiInv'
  <1> SUFFICES ASSUME ApiInv, FullDiff PROVE ApiInv'
    OBVIOUS
  <1> DEFINE m   == BalancesOf(row)
             old == BalancesOf(rows[prev])
  <1>1. /\ rows' = rows /\ synced' = synced /\ row' = row /\ prev' = prev /\ next' = next
        /\ info' = info /\ seen' = seen /\ req.pc = "diff" /\ req' = [req EXCEPT !.pc = "done"]
    BY DEF FullDiff, Respond, read
  <1>2. rows \in seen /\ req.kind = "full" /\ prev # Nothing /\ prev \in StoredIn(rows)
    BY <1>1 DEF ApiInv, TablesKept, Path
  <1>3. TablesKept'
    BY <1>1, <1>2, TablesStep DEF ApiInv, TablesKept
  <1>4. PICK d : /\ resp' = [code |-> 200, body |-> FullBody(d)]
                 /\ \/ d = computeDiff(old, m) /\ failed' = failed
                    \/ failed' = TRUE
    BY DEF FullDiff, Respond
  <1>5. m \in BalanceMaps /\ (~failed => DOMAIN m \subseteq info)
    BY <1>1, RowRebuilt DEF ApiInv, InfoRead
  <1>6. old \in BalanceMaps
    <2>1. rows[prev] \in Commits
      BY <1>2 DEF ApiInv, ApiTypeOK, TableType, StoredIn
    <2>2. rows[prev].block \in Blocks
      BY <2>1 DEF Commits
    <2> QED BY <2>2, RebuiltRoot DEF BalancesOf
  <1>7. /\ req' \in Requests /\ req'.pc = "done" /\ req'.kind = "full"
        /\ req'.epoch = req.epoch
    BY <1>1, <1>2, Moved DEF ApiInv, ApiTypeOK, Places
  <1>8. ApiTypeOK'
    <2>1. failed' \in BOOLEAN
      BY <1>4 DEF ApiInv, ApiTypeOK
    <2> QED BY <1>1, <1>7, <2>1 DEF ApiInv, ApiTypeOK
  <1>9. /\ resp'.code = 200 /\ resp'.body.row = row /\ resp'.body.prev = prev
        /\ resp'.body.next = next /\ resp'.body.diff = d
        /\ resp'.body.clusters = buildTree(m).leaves
    <2>1. resp'.code = 200 /\ resp'.body = FullBody(d)
      BY <1>4
    <2> QED BY <2>1, FullBodyFields
  <1>10. ~failed' => ~failed /\ d = computeDiff(old, m)
    BY <1>4
  <1>11. ResponseOfOneMoment'
    BY <1>1, <1>7, <1>9, <1>10, OneMomentStep
  <1>12. ProofServedVerifies'
    BY <1>7, <1>9, OtherKinds
  <1>13. DiffExact'
    <2> SUFFICES ASSUME ~failed' PROVE DiffExact'
      BY DEF DiffExact
    <2>1. EntriesOf(m) = IF d = Nothing THEN EntriesOf(old) ELSE Patched(old, d)
      BY <1>5, <1>6, <1>10, DiffLemma
    <2>2. BalancesOf(rows[prev])' = old /\ BalancesOf(row)' = m
      BY <1>1 DEF BalancesOf
    <2> HIDE DEF old, m
    <2>3. EntriesOf(BalancesOf(row)') = IF resp'.body.diff = Nothing
                                        THEN EntriesOf(BalancesOf(rows[prev])')
                                        ELSE Patched(BalancesOf(rows[prev])', resp'.body.diff)
      BY <1>9, <2>1, <2>2
    <2> QED BY <2>3 DEF DiffExact
  <1>14. EveryClusterDescribed'
    <2>1. \A i \in DOMAIN buildTree(m).leaves : buildTree(m).leaves[i][1] \in DOMAIN m
      BY <1>5, LeavesAreEntries
    <2>2. ~failed' => \A i \in DOMAIN resp'.body.clusters : resp'.body.clusters[i][1] \in info'
      BY <1>1, <1>5, <1>9, <1>10, <2>1
    <2> QED BY <2>2 DEF EveryClusterDescribed
  <1> QED BY <1>3, <1>7, <1>8, <1>11, <1>12, <1>13, <1>14, AnsweredStep DEF ApiInv

LEMMA ApiStep == ApiInv /\ [ApiNext]_vars => ApiInv'
  <1>1. ASSUME ApiInv, Request PROVE ApiInv'
    BY <1>1, ReceiveStep, ResolveEpochStep, ResolveLatestStep, ResolveFailsStep,
       ResolveNeighboursStep, GetProofStep, GetCommitStep, FullInfoStep, FullDiffStep, DoneStep
       DEF Request
  <1>2. ASSUME ApiInv, UNCHANGED vars PROVE ApiInv'
    <2>1. /\ rows' = rows /\ synced' = synced /\ req' = req /\ row' = row /\ prev' = prev
          /\ next' = next /\ info' = info /\ resp' = resp /\ failed' = failed /\ seen' = seen
      BY <1>2 DEF vars
    <2>2. ApiTypeOK' /\ TablesKept' /\ Path' /\ RowRead' /\ LatestMoment' /\ ReadMoment'
      BY <1>2, <2>1 DEF ApiInv, ApiTypeOK, TablesKept, Path, RowRead, LatestMoment, ReadMoment
    <2>3. InfoRead' /\ ResponseOfOneMoment' /\ ProofServedVerifies' /\ DiffExact'
          /\ EveryClusterDescribed'
      BY <1>2, <2>1 DEF ApiInv, InfoRead, ResponseOfOneMoment, ProofServedVerifies, DiffExact,
                        EveryClusterDescribed, Served, BalancesOf
    <2> QED BY <2>2, <2>3 DEF ApiInv
  <1> QED BY <1>1, <1>2, OracleStep, SyncStep, FreshStep DEF ApiNext

LEMMA ApiInvariant == ApiSpec => []ApiInv
  <1>1. ApiInit => ApiInv
    BY InitApiInv
  <1>2. ApiInv /\ [ApiNext]_vars => ApiInv'
    BY ApiStep
  <1> QED BY <1>1, <1>2, PTL DEF ApiSpec

-----------------------------------------------------------------------------
(* What a client of the API may rely on.                                   *)

\* A commit response is one moment's view of oracle_commits, although the
\* oracle writes between the queries that collect it (resolveCommit).
THEOREM ResponsesAreOfOneMoment == ApiSpec => []ResponseOfOneMoment
  <1>1. ApiInv => ResponseOfOneMoment
    BY DEF ApiInv
  <1> QED BY <1>1, ApiInvariant, PTL

\* Every stored commit can be proved from, and each proof served leads from the
\* served balance to the committed root (handleGetProof).
THEOREM ProofsServedVerify == ApiSpec => []ProofServedVerifies
  <1>1. ApiInv => ProofServedVerifies
    BY DEF ApiInv
  <1> QED BY <1>1, ApiInvariant, PTL

\* The diff of a full response is exact: applied to the balances of the
\* previous commit it gives those of the served one (computeDiff).
THEOREM DiffsAreExact == ApiSpec => []DiffExact
  <1>1. ApiInv => DiffExact
    BY DEF ApiInv
  <1> QED BY <1>1, ApiInvariant, PTL

\* Every cluster of a full response has its owner and operators
\* (GetAllClusterInfo).
THEOREM ClustersAreDescribed == ApiSpec => []EveryClusterDescribed
  <1>1. ApiInv => EveryClusterDescribed
    BY DEF ApiInv
  <1> QED BY <1>1, ApiInvariant, PTL

=============================================================================

----------------------------- MODULE BasicFacts -----------------------------
(***************************************************************************)
(* Facts about naturals and sequences that several proofs use.  A least    *)
(* element is also how the proofs of this project argue by induction: the  *)
(* least counterexample has a predecessor that is none.                    *)
(***************************************************************************)
EXTENDS Integers, Sequences, WellFoundedInduction, TLAPS

\* Every nonempty set of naturals has a least element.
LEMMA LeastNatural ==
    ASSUME NEW S, S \subseteq Nat, S # {}
    PROVE  \E x \in S : \A y \in S : x <= y
  <1> DEFINE R == {ss \in Nat \X Nat : ss[1] < ss[2]}
  <1>1. IsWellFoundedOn(OpToRel(<, Nat), Nat)
    BY NatLessThanWellFounded
  <1>2. R = OpToRel(<, Nat)
    BY DEF OpToRel
  <1>3. IsWellFoundedOn(R, Nat)
    BY <1>1, <1>2
  <1>4. \E x \in S : \A y \in S : ~(<<y, x>> \in R)
    <2> HIDE DEF R
    <2> QED BY <1>3, WFMin
  <1>5. PICK x \in S : \A y \in S : ~(<<y, x>> \in R)
    BY <1>4
  <1>6. ASSUME NEW y \in S PROVE x <= y
    <2>1. x \in Nat /\ y \in Nat
      OBVIOUS
    <2>2. y < x => <<y, x>> \in R
      BY <2>1
    <2> QED BY <2>1, <2>2, <1>5
  <1> QED BY <1>6

\* Every nonempty set of naturals with an upper bound has a greatest element.
LEMMA GreatestNatural ==
    ASSUME NEW S, S \subseteq Nat, S # {},
           NEW n \in Nat, \A x \in S : x <= n
    PROVE  \E x \in S : \A y \in S : y <= x
  <1> DEFINE D == {m \in Nat : n - m \in S}
  <1>1. D \subseteq Nat /\ D # {}
    <2>1. PICK x \in S : TRUE
      OBVIOUS
    <2>2. n - x \in Nat /\ n - (n - x) = x
      BY <2>1
    <2> QED BY <2>1, <2>2
  <1>2. PICK d \in D : \A y \in D : d <= y
    <2> HIDE DEF D
    <2> QED BY <1>1, LeastNatural
  <1>3. ASSUME NEW y \in S PROVE y <= n - d
    <2>1. y \in Nat /\ y <= n
      OBVIOUS
    <2>2. n - y \in D
      <3>1. n - (n - y) = y /\ n - y \in Nat
        BY <2>1
      <3> QED BY <3>1
    <2> QED BY <1>2, <2>1, <2>2
  <1> QED BY <1>2, <1>3

-----------------------------------------------------------------------------
(* Sequences.                                                              *)

\* What Append does.
LEMMA AppendFacts ==
    ASSUME NEW B, NEW s \in Seq(B), NEW e \in B
    PROVE  /\ Append(s, e) \in Seq(B)
           /\ Len(Append(s, e)) = Len(s) + 1
           /\ \A k \in 1..Len(s) : Append(s, e)[k] = s[k]
           /\ Append(s, e)[Len(s) + 1] = e
  OBVIOUS

\* What Head and Tail of a nonempty sequence are.
LEMMA TailFacts ==
    ASSUME NEW B, NEW s \in Seq(B), s # <<>>
    PROVE  /\ Tail(s) \in Seq(B)
           /\ Len(s) \in Nat /\ Len(s) >= 1
           /\ Len(Tail(s)) = Len(s) - 1
           /\ \A k \in 1..(Len(s) - 1) : Tail(s)[k] = s[k + 1]
           /\ Head(s) = s[1]
           /\ s[1] \in B
  OBVIOUS

=============================================================================

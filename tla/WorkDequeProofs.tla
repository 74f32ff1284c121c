-------------------------- MODULE WorkDequeProofs --------------------------
(* Front and Back pick an element of every deque that is not empty.         *)
EXTENDS WorkDeque, TLAPS, FiniteSetTheorems

\* A set of natural numbers has a least element: front() of a deque that is not
\* empty is one of its works, and the oldest.
LEMMA LeastExists ==
  ASSUME NEW S \in SUBSET Nat, S # {}
  PROVE  \E m \in S : \A v \in S : m <= v
<1>1. PICK N \in S : TRUE
  OBVIOUS
<1> DEFINE below == {n \in S : n <= N}
           initials == {0 .. n : n \in below}
           D == 0 .. N
           R == StrictSubsetOrdering(D)
<1>2. IsFiniteSet(D)
  BY FS_Interval
<1>3. IsWellFoundedOn(R, SUBSET D)
  BY <1>2, FS_StrictSubsetOrderingWellFounded, FS_FiniteSubsetsOfFinite
<1>4. initials \subseteq SUBSET D /\ initials # {}
  OBVIOUS
<1>5. PICK X \in initials : \A Y \in initials : ~(<<Y, X>> \in R)
  <2> HIDE DEF R, initials, D
  <2> QED BY <1>3, <1>4, WFMin
<1>6. PICK m \in below : X = 0 .. m
  OBVIOUS
<1>7. ASSUME NEW v \in S, v < m PROVE FALSE
  <2>1. v \in below /\ 0 .. v \in initials
    BY <1>7
  <2>2. 0 .. v # X /\ 0 .. v \subseteq X
    BY <1>6, <1>7
  <2>3. <<0 .. v, X>> \in R
    BY <2>1, <2>2, <1>4 DEF StrictSubsetOrdering
  <2> QED BY <2>1, <2>3, <1>5
<1> QED BY <1>7

\* Front is the least element of a set of works that is not empty.
LEMMA FrontProperty ==
  ASSUME NEW S \in SUBSET Nat, S # {}
  PROVE  Front(S) \in S /\ \A v \in S : Front(S) <= v
BY LeastExists DEF Front

\* A bounded set of natural numbers has a greatest element.
LEMMA BackProperty ==
  ASSUME NEW N \in Nat, NEW S \in SUBSET (0 .. N), S # {}
  PROVE  Back(S) \in S /\ \A v \in S : v <= Back(S)
<1> DEFINE mirror == {N - n : n \in S}
<1>1. mirror \in SUBSET Nat /\ mirror # {}
  <2>1. \A n \in S : N - n \in Nat /\ N - n \in mirror
    OBVIOUS
  <2> QED BY <2>1
<1>2. PICK m \in mirror : \A v \in mirror : m <= v
  <2> HIDE DEF mirror
  <2> QED BY <1>1, LeastExists
<1>3. N - m \in S /\ \A v \in S : v <= N - m
  BY <1>2
<1> QED BY <1>3 DEF Back
=============================================================================

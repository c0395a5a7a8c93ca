------------------------------ MODULE DataLemmas ------------------------------
(***************************************************************************)
(* Facts about numbers and sequences that the proofs of several components *)
(* rest on.  Induction is stated for the set of the numbers for which      *)
(* something holds: a lemma whose parameter is a set can be used by every  *)
(* backend, one whose parameter is an operator by none.                    *)
(***************************************************************************)
EXTENDS Integers, FiniteSets, SequencesExt, SequenceTheorems, FiniteSetTheorems,
        WellFoundedInduction, TLAPS

LEMMA LeastNumber ==
    ASSUME NEW T \in SUBSET Nat, T # {}
    PROVE  \E x \in T : \A y \in T : x <= y
<1>1. PICK x \in T : \A y \in T : ~ (<<y, x>> \in OpToRel(<, Nat))
  BY NatLessThanWellFounded, WFMin, Zenon
<1>2. \A y \in T : ~ (y < x)
  <2>1. ASSUME NEW y \in T, y < x PROVE <<y, x>> \in OpToRel(<, Nat)
    BY <2>1, Zenon DEF OpToRel
  <2> QED
    BY <1>1, <2>1, Zenon
<1> HIDE <1>1
<1> QED
  BY <1>2

LEMMA Induction ==
    ASSUME NEW T \in SUBSET Nat, 0 \in T, \A n \in T : n + 1 \in T
    PROVE  T = Nat
<1> SUFFICES ASSUME T # Nat PROVE FALSE
  OBVIOUS
<1>1. PICK x \in Nat \ T : \A y \in Nat \ T : x <= y
  BY LeastNumber
<1>2. x - 1 \in Nat /\ x - 1 \in T
  BY <1>1
<1> QED
  BY <1>1, <1>2

\* up to a bound
LEMMA InductionTo ==
    ASSUME NEW n \in Nat, NEW T, 0 \in T, \A i \in 0..(n - 1) : i \in T => i + 1 \in T
    PROVE  0..n \subseteq T
<1> DEFINE U == {i \in Nat : i <= n => i \in T}
<1>1. 0 \in U
  OBVIOUS
<1>2. ASSUME NEW i \in U PROVE i + 1 \in U
  <2>1. CASE i + 1 <= n
    <3>1. i \in T /\ i \in 0..(n - 1)
      BY <2>1
    <3> QED
      BY <3>1
  <2> QED
    BY <2>1
<1> HIDE DEF U
<1>3. U = Nat
  <2>1. U \in SUBSET Nat
    BY DEF U
  <2> QED
    BY <1>1, <1>2, <2>1, Induction
<1> QED
  BY <1>3 DEF U

-----------------------------------------------------------------------------
(* Sequences.                                                              *)

LEMMA FrontLast ==
    ASSUME NEW S, NEW s \in Seq(S), s # <<>>
    PROVE  /\ Front(s) \in Seq(S) /\ Len(Front(s)) = Len(s) - 1 /\ Len(s) \in Nat \ {0}
           /\ \A i \in 1..(Len(s) - 1) : Front(s)[i] = s[i]
           /\ Last(s) = s[Len(s)] /\ Last(s) \in S
<1>1. /\ Len(s) \in Nat \ {0} /\ Front(s) = SubSeq(s, 1, Len(s) - 1) /\ Last(s) = s[Len(s)]
      /\ \A i \in 1..Len(s) : s[i] \in S
  BY DEF Front, Last
<1> DEFINE n == Len(s) - 1
<1>2. n \in Nat /\ \A i \in 1..n : s[i] \in S
  BY <1>1
<1> HIDE DEF n
<1>3. /\ SubSeq(s, 1, n) \in Seq(S) /\ Len(SubSeq(s, 1, n)) = IF 1 <= n THEN n - 1 + 1 ELSE 0
      /\ \A i \in 1..(n - 1 + 1) : SubSeq(s, 1, n)[i] = s[1 + i - 1]
  <2>1. 1 \in Int /\ n \in Int
    BY <1>2
  <2> QED
    BY <1>2, <2>1, SubSeqProperties
<1>4. Len(SubSeq(s, 1, n)) = n /\ \A i \in 1..n : SubSeq(s, 1, n)[i] = s[i]
  BY <1>2, <1>3
<1> QED
  BY <1>1, <1>3, <1>4 DEF n

-----------------------------------------------------------------------------
(* Counting.                                                               *)

Places(s, M) == {i \in 1..Len(s) : s[i] \in M}

LEMMA PlacesFinite ==
    ASSUME NEW S, NEW s \in Seq(S), NEW M
    PROVE  /\ IsFiniteSet(Places(s, M)) /\ Cardinality(Places(s, M)) \in Nat
           /\ Cardinality(Places(s, M)) <= Len(s)
<1>1. Len(s) \in Nat /\ IsFiniteSet(1..Len(s)) /\ Cardinality(1..Len(s)) = Len(s)
  BY FS_Interval, LenProperties
<1>2. Places(s, M) \in SUBSET (1..Len(s))
  BY DEF Places
<1>3. IsFiniteSet(Places(s, M)) /\ Cardinality(Places(s, M)) <= Cardinality(1..Len(s))
  BY <1>1, <1>2, FS_Subset
<1> QED
  BY <1>1, <1>3, FS_CardinalityType

LEMMA CountEmpty ==
    ASSUME NEW M
    PROVE  Cardinality(Places(<<>>, M)) = 0
<1>1. Places(<<>>, M) = {}
  BY DEF Places
<1> QED
  BY <1>1, FS_EmptySet

LEMMA CountAppend ==
    ASSUME NEW S, NEW s \in Seq(S), NEW m \in S, NEW M
    PROVE  Cardinality(Places(Append(s, m), M)) =
               Cardinality(Places(s, M)) + (IF m \in M THEN 1 ELSE 0)
<1>1. /\ Len(Append(s, m)) = Len(s) + 1 /\ Len(s) \in Nat
      /\ \A i \in 1..Len(s) : Append(s, m)[i] = s[i]
      /\ Append(s, m)[Len(s) + 1] = m
  OBVIOUS
<1>2. Len(s) + 1 \notin Places(s, M)
  BY <1>1 DEF Places
<1>3. CASE m \in M
  <2>1. Places(Append(s, m), M) = Places(s, M) \cup {Len(s) + 1}
    BY <1>1, <1>3 DEF Places
  <2> QED
    BY <1>2, <1>3, <2>1, FS_AddElement, PlacesFinite
<1>4. CASE m \notin M
  <2>1. Places(Append(s, m), M) = Places(s, M)
    BY <1>1, <1>4 DEF Places
  <2> QED
    BY <1>4, <2>1, PlacesFinite
<1> QED
  BY <1>3, <1>4

LEMMA CountTail ==
    ASSUME NEW S, NEW s \in Seq(S), s # <<>>, NEW M
    PROVE  Cardinality(Places(s, M)) =
               Cardinality(Places(Tail(s), M)) + (IF Head(s) \in M THEN 1 ELSE 0)
<1>1. /\ Tail(s) \in Seq(S) /\ Len(Tail(s)) = Len(s) - 1 /\ Head(s) = s[1]
      /\ \A i \in 1..Len(Tail(s)) : Tail(s)[i] = s[i + 1]
      /\ Len(s) \in Nat \ {0}
  BY HeadTailProperties
<1> DEFINE f == [i \in Places(Tail(s), M) |-> i + 1]
           U == Places(s, M) \ {1}
<1>2. f \in Bijection(Places(Tail(s), M), U)
  <2>1. \A i \in Places(Tail(s), M) : i + 1 \in U /\ i \in Nat
    BY <1>1 DEF Places
  <2>2. \A j \in U : j - 1 \in Places(Tail(s), M) /\ (j - 1) + 1 = j
    BY <1>1 DEF Places
  <2>3. f \in Injection(Places(Tail(s), M), U)
    BY <2>1 DEF Injection, IsInjective
  <2>4. f \in Surjection(Places(Tail(s), M), U)
    BY <2>1, <2>2 DEF Surjection
  <2> QED
    BY <2>3, <2>4 DEF Bijection
<1> HIDE DEF f
<1>3. IsFiniteSet(U) /\ Cardinality(U) = Cardinality(Places(Tail(s), M))
  <2>1. IsFiniteSet(Places(Tail(s), M))
    BY <1>1, PlacesFinite
  <2>2. ExistsBijection(Places(Tail(s), M), U)
    BY <1>2 DEF ExistsBijection
  <2> HIDE DEF U
  <2> QED
    BY <2>1, <2>2, FS_Bijection
<1>4. 1 \in Places(s, M) <=> Head(s) \in M
  BY <1>1 DEF Places
<1>5. /\ IsFiniteSet(Places(s, M))
      /\ Cardinality(U) = IF 1 \in Places(s, M) THEN Cardinality(Places(s, M)) - 1
                                                ELSE Cardinality(Places(s, M))
  BY PlacesFinite, FS_RemoveElement
<1>6. Cardinality(Places(s, M)) \in Nat
  BY PlacesFinite
<1> QED
  BY <1>3, <1>4, <1>5, <1>6

=============================================================================

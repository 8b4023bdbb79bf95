-------------------------- MODULE Selections_proofs --------------------------
(***************************************************************************)
(* What the operators of Selections return, for any finite set, any order  *)
(* of it and any sequence: the facts that the proofs about the pages cite. *)
(***************************************************************************)
EXTENDS Selections, FiniteSetTheorems, SequenceTheorems, TLAPS

-----------------------------------------------------------------------------
(* Ranks: what comes later has more before it, and every number below the  *)
(* size of the set is the rank of one member.                              *)
LEMMA RankIsMonotone ==
  ASSUME NEW S, IsFiniteSet(S), NEW before, IsOrder(S, before),
         NEW x \in S, NEW y \in S, <<x, y>> \in before
  PROVE  Cardinality(Preceding(S, before, x)) < Cardinality(Preceding(S, before, y))
<1> DEFINE A == Preceding(S, before, x)
           B == Preceding(S, before, y)
<1>1. A \subseteq B /\ x \in B /\ x \notin A /\ B \subseteq S
  BY DEF IsOrder, Preceding
<1>2. IsFiniteSet(B) /\ Cardinality(B) \in Nat
  BY <1>1, FS_Subset, FS_CardinalityType
<1>3. IsFiniteSet(A) /\ Cardinality(A) <= Cardinality(B) /\ (Cardinality(B) = Cardinality(A) => B = A)
  BY <1>1, <1>2, FS_Subset
<1>4. Cardinality(A) \in Nat
  BY <1>3, FS_CardinalityType
<1> QED BY <1>1, <1>2, <1>3, <1>4

LEMMA RankBound ==
  ASSUME NEW S, IsFiniteSet(S), NEW before, IsOrder(S, before), NEW x \in S
  PROVE  Cardinality(Preceding(S, before, x)) \in 0 .. Cardinality(S) - 1
<1> DEFINE A == Preceding(S, before, x)
<1>1. A \in SUBSET (S \ {x})
  BY DEF IsOrder, Preceding
<1>2. IsFiniteSet(S \ {x}) /\ Cardinality(S \ {x}) = Cardinality(S) - 1
  BY FS_RemoveElement
<1>3. IsFiniteSet(A) /\ Cardinality(A) <= Cardinality(S) - 1
  BY <1>1, <1>2, FS_Subset
<1>4. Cardinality(A) \in Nat /\ Cardinality(S) \in Nat
  BY <1>3, FS_CardinalityType
<1> HIDE DEF A
<1>5. Cardinality(A) \in 0 .. Cardinality(S) - 1
  BY <1>3, <1>4
<1> QED BY <1>5 DEF A

\* Every position is that of one member.
LEMMA RankedMember ==
  ASSUME NEW S, IsFiniteSet(S), NEW before, IsOrder(S, before),
         NEW n \in 1 .. Cardinality(S)
  PROVE  /\ Ranked(S, before)[n] \in S
         /\ Cardinality(Preceding(S, before, Ranked(S, before)[n])) = n - 1
<1> DEFINE c == Cardinality(S)
           rank == [x \in S |-> Cardinality(Preceding(S, before, x))]
<1>1. c \in Nat
  BY FS_CardinalityType
<1>2. rank \in [S -> 0 .. c - 1]
  BY RankBound
<1>3. ASSUME NEW x \in S, NEW y \in S, rank[x] = rank[y]
      PROVE  x = y
  <2>1. ASSUME <<x, y>> \in before
        PROVE  FALSE
    BY <1>2, <1>3, <2>1, RankIsMonotone
  <2>2. ASSUME <<y, x>> \in before
        PROVE  FALSE
    BY <1>2, <1>3, <2>2, RankIsMonotone
  <2> QED BY <2>1, <2>2 DEF IsOrder
<1>4. rank \in Injection(S, 0 .. c - 1)
  BY <1>2, <1>3 DEF Injection, IsInjective
<1>5. IsFiniteSet(0 .. c - 1) /\ Cardinality(0 .. c - 1) = c
  <2>1. 0 \in Int /\ c - 1 \in Int
    BY <1>1
  <2>2. IsFiniteSet(0 .. c - 1) /\ Cardinality(0 .. c - 1) = IF 0 > c - 1 THEN 0 ELSE (c - 1) - 0 + 1
    BY <2>1, FS_Interval, Zenon
  <2> QED BY <1>1, <2>2
<1> HIDE DEF rank
<1>6. rank \in Surjection(S, 0 .. c - 1)
  BY <1>4, <1>5, FS_Injection
<1>7. n - 1 \in 0 .. c - 1
  BY <1>1
<1>8. PICK x \in S : rank[x] = n - 1
  BY <1>6, <1>7 DEF Surjection
<1>9. \E z \in S : Cardinality(Preceding(S, before, z)) = n - 1
  BY <1>8 DEF rank
<1> QED BY <1>9 DEF Ranked

(* The ranked set is a list of all its members, each once, in order.       *)
LEMMA RankedOrder ==
  ASSUME NEW S, IsFiniteSet(S), NEW before, IsOrder(S, before)
  PROVE  LET r == Ranked(S, before) IN
         /\ Cardinality(S) \in Nat
         /\ r \in [1 .. Cardinality(S) -> S] /\ r \in Seq(S) /\ Len(r) = Cardinality(S)
         /\ \A m, n \in 1 .. Cardinality(S) : m < n <=> <<r[m], r[n]>> \in before
         /\ \A m, n \in 1 .. Cardinality(S) : r[m] = r[n] => m = n
         /\ \A x \in S : \E n \in 1 .. Cardinality(S) : r[n] = x
<1> DEFINE c == Cardinality(S)
           r == Ranked(S, before)
<1>1. c \in Nat
  BY FS_CardinalityType
<1>2. \A n \in 1 .. c : r[n] \in S /\ Cardinality(Preceding(S, before, r[n])) = n - 1
  BY RankedMember
<1>3. DOMAIN r = 1 .. c /\ r = [n \in 1 .. c |-> r[n]]
  BY DEF Ranked
<1>4. r \in [1 .. c -> S]
  BY <1>2, <1>3
<1> HIDE DEF r
<1>5. r \in Seq(S) /\ Len(r) = c
  BY <1>1, <1>4
<1>6. ASSUME NEW m \in 1 .. c, NEW n \in 1 .. c, r[m] = r[n]
      PROVE  m = n
  BY <1>2, <1>6
<1>7. ASSUME NEW m \in 1 .. c, NEW n \in 1 .. c, <<r[m], r[n]>> \in before
      PROVE  m < n
  <2>1. Cardinality(Preceding(S, before, r[m])) < Cardinality(Preceding(S, before, r[n]))
    BY <1>2, <1>7, RankIsMonotone
  <2> QED BY <1>2, <2>1
<1>8. ASSUME NEW m \in 1 .. c, NEW n \in 1 .. c, m < n
      PROVE  <<r[m], r[n]>> \in before
  <2>1. r[m] # r[n]
    BY <1>6, <1>8
  <2>2. <<r[n], r[m]>> \notin before
    BY <1>7, <1>8
  <2> QED BY <1>2, <2>1, <2>2 DEF IsOrder
<1>9. ASSUME NEW x \in S
      PROVE  \E n \in 1 .. c : r[n] = x
  <2>1. r \in Injection(1 .. c, S)
    BY <1>4, <1>6 DEF Injection, IsInjective
  <2>2. IsFiniteSet(1 .. c) /\ Cardinality(1 .. c) = c
    BY <1>1, FS_Interval
  <2>3. r \in Surjection(1 .. c, S)
    BY <2>1, <2>2, FS_Injection
  <2> QED BY <2>3 DEF Surjection
<1> QED BY <1>1, <1>4, <1>5, <1>6, <1>7, <1>8, <1>9 DEF r

-----------------------------------------------------------------------------
(* Positions of a list that stay.                                          *)
LEMMA AscendingIsOrder ==
  ASSUME NEW kept \in SUBSET Int
  PROVE  IsOrder(kept, Ascending(kept))
  BY DEF IsOrder, Ascending

(* What stays of a list keeps its order, and nothing else stays.           *)
LEMMA SelectedKeeps ==
  ASSUME NEW T, NEW s \in Seq(T), NEW kept \in SUBSET (1 .. Len(s))
  PROVE  LET t == Selected(s, kept) IN
         /\ t \in Seq(T)
         /\ \E at \in [1 .. Len(t) -> kept] :
              /\ \A m, n \in 1 .. Len(t) : m < n <=> at[m] < at[n]
              /\ \A i \in kept : \E n \in 1 .. Len(t) : at[n] = i
              /\ \A n \in 1 .. Len(t) : t[n] = s[at[n]]
<1> DEFINE at == Ranked(kept, Ascending(kept))
           c == Cardinality(kept)
           t == Selected(s, kept)
<1>1. IsFiniteSet(1 .. Len(s)) /\ Len(s) \in Nat
  BY FS_Interval
<1>2. IsFiniteSet(kept) /\ kept \in SUBSET Int
  <2>1. IsFiniteSet(kept)
    BY <1>1, FS_Subset
  <2>2. 1 .. Len(s) \subseteq Int
    BY <1>1
  <2> QED BY <2>1, <2>2
<1>3. /\ c \in Nat /\ at \in [1 .. c -> kept]
      /\ \A m, n \in 1 .. c : m < n <=> <<at[m], at[n]>> \in Ascending(kept)
      /\ \A i \in kept : \E n \in 1 .. c : at[n] = i
  BY <1>2, AscendingIsOrder, RankedOrder
<1>4. t = [n \in 1 .. c |-> s[at[n]]]
  <2>1. DOMAIN at = 1 .. c
    BY <1>3
  <2> QED BY <2>1 DEF Selected
<1> HIDE DEF at, t
<1>5. \A n \in 1 .. c : s[at[n]] \in T
  <2>1. \A i \in kept : s[i] \in T
    BY <1>1, ElementOfSeq
  <2> QED BY <1>3, <2>1
<1>6. t \in Seq(T) /\ Len(t) = c
  BY <1>3, <1>4, <1>5
<1>7. \A m, n \in 1 .. c : m < n <=> at[m] < at[n]
  BY <1>3 DEF Ascending
<1>8. \A n \in 1 .. Len(t) : t[n] = s[at[n]]
  BY <1>4, <1>6
<1>9. at \in [1 .. Len(t) -> kept] /\ \A i \in kept : \E n \in 1 .. Len(t) : at[n] = i
  BY <1>3, <1>6
<1>10. \A m, n \in 1 .. Len(t) : m < n <=> at[m] < at[n]
  BY <1>6, <1>7
<1> QED BY <1>6, <1>8, <1>9, <1>10, Zenon DEF t

(* What stays is what was at a position that stays.                        *)
LEMMA SelectedMembers ==
  ASSUME NEW T, NEW s \in Seq(T), NEW kept \in SUBSET (1 .. Len(s))
  PROVE  /\ Selected(s, kept) \in Seq(T)
         /\ \A e : Contains(Selected(s, kept), e) <=> \E i \in kept : s[i] = e
<1> DEFINE t == Selected(s, kept)
<1>1. PICK at \in [1 .. Len(t) -> kept] :
         /\ \A i \in kept : \E n \in 1 .. Len(t) : at[n] = i
         /\ \A n \in 1 .. Len(t) : t[n] = s[at[n]]
  BY SelectedKeeps
<1>2. t \in Seq(T)
  BY SelectedKeeps
<1> HIDE DEF t
<1>3. ASSUME NEW e, Contains(t, e)
      PROVE  \E i \in kept : s[i] = e
  BY <1>1, <1>3 DEF Contains
<1>4. ASSUME NEW i \in kept
      PROVE  Contains(t, s[i])
  BY <1>1 DEF Contains
<1>5. \A e : Contains(t, e) <=> \E i \in kept : s[i] = e
  BY <1>3, <1>4
<1> QED BY <1>2, <1>5 DEF t

(* The first of what stays is the first that stays.                        *)
(* The first of what stays was at the first position that stays.           *)
LEMMA SelectedFirst ==
  ASSUME NEW T, NEW s \in Seq(T), NEW kept \in SUBSET (1 .. Len(s)), kept # {}
  PROVE  /\ Len(Selected(s, kept)) \in Nat \ {0}
         /\ \E i \in kept : (\A j \in kept : i <= j) /\ Selected(s, kept)[1] = s[i]
<1> DEFINE t == Selected(s, kept)
<1>1. t \in Seq(T)
  BY SelectedKeeps
<1>2. PICK at \in [1 .. Len(t) -> kept] :
         /\ \A m, n \in 1 .. Len(t) : m < n <=> at[m] < at[n]
         /\ \A i \in kept : \E n \in 1 .. Len(t) : at[n] = i
         /\ \A n \in 1 .. Len(t) : t[n] = s[at[n]]
  BY SelectedKeeps
<1> HIDE DEF t
<1>3. Len(t) \in Nat \ {0}
  <2>1. PICK j \in kept : TRUE
    OBVIOUS
  <2>2. PICK n \in 1 .. Len(t) : at[n] = j
    BY <1>2
  <2> QED BY <1>1, <2>2
<1>4. 1 \in 1 .. Len(t) /\ at[1] \in kept /\ t[1] = s[at[1]]
  <2>1. 1 \in 1 .. Len(t)
    BY <1>3
  <2> QED BY <1>2, <2>1, Zenon
<1>5. ASSUME NEW j \in kept
      PROVE  at[1] <= j
  <2>1. PICK n \in 1 .. Len(t) : at[n] = j
    BY <1>2
  <2>2. n = 1 \/ 1 < n
    BY <1>3
  <2>3. at[1] \in Int /\ at[n] \in Int
    <3>1. Len(s) \in Nat
      OBVIOUS
    <3>2. 1 .. Len(s) \subseteq Int
      BY <3>1
    <3> QED BY <1>4, <2>1, <3>2
  <2>4. 1 < n => at[1] < at[n]
    BY <1>2, <1>4, <2>1
  <2> QED BY <2>1, <2>2, <2>3, <2>4
<1> QED BY <1>3, <1>4, <1>5 DEF t
=============================================================================

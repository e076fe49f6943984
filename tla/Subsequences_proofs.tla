--------------------------- MODULE Subsequences_proofs ---------------------------
(***************************************************************************)
(* What is picked of a sequence is a subsequence of it: the lemmas about   *)
(* Pick that the proofs about the stores and the message window cite.      *)
(***************************************************************************)
EXTENDS Subsequences, FiniteSetTheorems, TLAPS

\* at says at which of the positions each element of the new list stood.
Places(s, positions, at) ==
    LET places == 1 .. Cardinality(positions)
    IN  /\ at \in [places -> positions]
        /\ \A r \in places : Pick(s, positions)[r] = s[at[r]]
        /\ \A q, r \in places : q < r => at[q] < at[r]
        /\ \A i \in positions : \E r \in places : at[r] = i

LEMMA PositionsFinite ==
  ASSUME NEW n \in Nat, NEW P \in SUBSET (1 .. n)
  PROVE  /\ IsFiniteSet(P) /\ Cardinality(P) \in 0 .. n
         /\ \A i \in P : i \in Nat
<1>1. IsFiniteSet(1 .. n) /\ Cardinality(1 .. n) = n
  <2>1. 1 \in Int /\ n \in Int
    OBVIOUS
  <2>2. IsFiniteSet(1 .. n) /\ Cardinality(1 .. n) = IF 1 > n THEN 0 ELSE n - 1 + 1
    BY <2>1, FS_Interval
  <2> QED BY <2>2
<1>2. IsFiniteSet(P) /\ Cardinality(P) <= Cardinality(1 .. n)
  BY <1>1, FS_Subset
<1>3. Cardinality(P) \in Nat
  BY <1>2, FS_CardinalityType
<1> QED BY <1>1, <1>2, <1>3

LEMMA FewerPositions ==
  ASSUME NEW P, IsFiniteSet(P), NEW Q \in SUBSET P
  PROVE  /\ IsFiniteSet(Q) /\ Cardinality(P) \in Nat
         /\ Cardinality(Q) \in 0 .. Cardinality(P)
         /\ Cardinality(Q) = Cardinality(P) => Q = P
<1>1. /\ IsFiniteSet(Q) /\ Cardinality(Q) <= Cardinality(P)
      /\ Cardinality(Q) = Cardinality(P) => Q = P
  BY FS_Subset
<1>2. Cardinality(Q) \in Nat /\ Cardinality(P) \in Nat
  BY <1>1, FS_CardinalityType
<1> QED BY <1>1, <1>2

LEMMA RankGrows ==
  ASSUME NEW n \in Nat, NEW P \in SUBSET (1 .. n), NEW i \in P, NEW k \in P, i < k
  PROVE  Rank(P, i) < Rank(P, k)
<1> DEFINE A == {j \in P : j <= i}
           B == {j \in P : j <= k}
<1>1. i \in Nat /\ k \in Nat /\ \A j \in P : j \in Nat
  BY PositionsFinite
<1>2. B \in SUBSET P /\ \A j \in A : j \in B
  BY <1>1
<1>3. k \in B /\ k \notin A
  BY <1>1
<1> HIDE DEF A, B
<1>4. B \in SUBSET (1 .. n) /\ A \in SUBSET B /\ A # B
  BY <1>2, <1>3
<1>5. /\ Cardinality(B) \in Nat /\ Cardinality(A) \in 0 .. Cardinality(B)
      /\ Cardinality(A) # Cardinality(B)
  <2>1. IsFiniteSet(B)
    BY <1>4, PositionsFinite
  <2>2. /\ Cardinality(A) \in 0 .. Cardinality(B) /\ Cardinality(B) \in Nat
        /\ Cardinality(A) = Cardinality(B) => A = B
    BY <1>4, <2>1, FewerPositions
  <2> QED BY <1>4, <2>1, <2>2
<1>6. Cardinality(A) < Cardinality(B)
  BY <1>5
<1> QED BY <1>6 DEF A, B, Rank

LEMMA RankType ==
  ASSUME NEW n \in Nat, NEW P \in SUBSET (1 .. n), NEW i \in P
  PROVE  Rank(P, i) \in 1 .. Cardinality(P)
<1> DEFINE A == {j \in P : j <= i}
<1>1. i \in Nat /\ IsFiniteSet(P)
  BY PositionsFinite
<1>5. A \in SUBSET P /\ i \in A
  BY <1>1
<1> HIDE DEF A
<1>2. IsFiniteSet(A) /\ Cardinality(A) \in 0 .. Cardinality(P) /\ Cardinality(P) \in Nat
  BY <1>1, <1>5, FewerPositions
<1>3. Cardinality(A) # 0
  BY <1>5, <1>2, FS_EmptySet
<1>4. Cardinality(A) \in 1 .. Cardinality(P)
  BY <1>2, <1>3
<1> QED BY <1>4 DEF A, Rank

\* Each place of the new list is the rank of a position: as many places as
\* positions, and no two positions of the same rank.
LEMMA RankReaches ==
  ASSUME NEW n \in Nat, NEW P \in SUBSET (1 .. n), NEW r \in 1 .. Cardinality(P)
  PROVE  \E i \in P : Rank(P, i) = r
<1> DEFINE N == 1 .. Cardinality(P)
           rank == [i \in P |-> Rank(P, i)]
<1>1. IsFiniteSet(P) /\ Cardinality(P) \in Nat /\ \A i \in P : i \in Nat
  BY PositionsFinite
<1>2. IsFiniteSet(N) /\ Cardinality(N) = Cardinality(P)
  <2>1. 1 \in Int /\ Cardinality(P) \in Int
    BY <1>1
  <2>2. IsFiniteSet(N) /\ Cardinality(N) = IF 1 > Cardinality(P) THEN 0 ELSE Cardinality(P) - 1 + 1
    BY <2>1, FS_Interval
  <2> QED BY <1>1, <2>2
<1>3. rank \in [P -> N]
  BY RankType
<1>4. \A i, k \in P : i # k => rank[i] # rank[k]
  <2> SUFFICES ASSUME NEW i \in P, NEW k \in P, i < k PROVE rank[i] # rank[k]
    BY <1>1
  <2>1. Rank(P, i) < Rank(P, k)
    BY RankGrows
  <2>2. Rank(P, i) \in 1 .. Cardinality(P) /\ Rank(P, k) \in 1 .. Cardinality(P)
    BY RankType
  <2> QED BY <2>1, <2>2
<1> HIDE DEF N, rank
<1>5. rank \in Injection(P, N)
  BY <1>3, <1>4 DEF Injection, IsInjective
<1>6. rank \in Surjection(P, N)
  BY <1>1, <1>2, <1>5, FS_Injection DEF Surjection
<1>7. r \in N
  BY DEF N
<1>8. PICK i \in P : rank[i] = r
  BY <1>6, <1>7 DEF Surjection
<1> QED BY <1>8 DEF rank

\* What is picked stands at increasing positions of the list, and every one of
\* the positions is among them.
LEMMA PickFacts ==
  ASSUME NEW n \in Nat, NEW P \in SUBSET (1 .. n), NEW s
  PROVE  /\ Cardinality(P) \in 0 .. n
         /\ DOMAIN Pick(s, P) = 1 .. Cardinality(P)
         /\ \E at : Places(s, P, at)
<1> DEFINE c == Cardinality(P)
           at == [r \in 1 .. c |-> CHOOSE i \in P : Rank(P, i) = r]
<1>1. c \in Nat /\ \A i \in P : i \in Nat
  BY PositionsFinite
<1>2. c \in 0 .. n
  BY PositionsFinite
<1>3. ASSUME NEW r \in 1 .. c PROVE at[r] \in P /\ Rank(P, at[r]) = r
  <2>1. \E i \in P : Rank(P, i) = r
    BY RankReaches
  <2> QED BY <2>1
<1>4. DOMAIN Pick(s, P) = 1 .. c /\ \A r \in 1 .. c : Pick(s, P)[r] = s[at[r]]
  BY DEF Pick
<1>5. at \in [1 .. c -> P]
  BY <1>3
<1> HIDE DEF at, c
<1>6. \A i, k \in P : i < k => Rank(P, i) < Rank(P, k)
  BY RankGrows
<1>7. ASSUME NEW q \in 1 .. c, NEW r \in 1 .. c, q < r PROVE at[q] < at[r]
  <2>1. at[q] \in P /\ at[r] \in P /\ at[q] \in Nat /\ at[r] \in Nat
    BY <1>1, <1>3
  <2>2. at[q] # at[r]
    BY <1>3, <1>7, <2>1
  <2>3. CASE at[r] < at[q]
    <3>1. r < q
      BY <1>3, <1>6, <2>3
    <3> QED BY <1>7, <2>1, <3>1
  <2> QED BY <2>1, <2>2, <2>3
<1>8. ASSUME NEW i \in P PROVE \E r \in 1 .. c : at[r] = i
  <2>1. Rank(P, i) \in 1 .. c
    BY RankType DEF c
  <2>2. at[Rank(P, i)] \in P /\ Rank(P, at[Rank(P, i)]) = Rank(P, i)
    BY <1>3, <2>1
  <2>3. i \in Nat /\ at[Rank(P, i)] \in Nat /\ Rank(P, i) \in Nat
    <3>1. i \in Nat /\ at[Rank(P, i)] \in Nat
      BY <1>1, <2>2
    <3>2. Rank(P, i) \in Nat
      BY <1>1, <2>1
    <3> QED BY <3>1, <3>2
  <2>4. ~ (at[Rank(P, i)] < i) /\ ~ (i < at[Rank(P, i)])
    BY <1>6, <2>2, <2>3
  <2> QED BY <2>1, <2>3, <2>4
<1>9. Places(s, P, at)
  BY <1>4, <1>5, <1>7, <1>8 DEF c, Places
<1> QED BY <1>2, <1>4, <1>9 DEF c

LEMMA PickSeq ==
  ASSUME NEW E, NEW s \in Seq(E), NEW n \in Nat, n = Len(s), NEW P \in SUBSET (1 .. n)
  PROVE  /\ Pick(s, P) \in Seq(E)
         /\ Len(Pick(s, P)) = Cardinality(P)
<1> DEFINE c == Cardinality(P)
           p == Pick(s, P)
<1>1. \A i \in 1 .. n : s[i] \in E
  OBVIOUS
<1>0. PICK at : Places(s, P, at)
  BY PickFacts
<1>2. at \in [1 .. c -> P] /\ \A r \in 1 .. c : p[r] = s[at[r]]
  BY <1>0 DEF Places
<1>3. c \in Nat /\ DOMAIN p = 1 .. c
  BY PickFacts
<1>4. p = [r \in 1 .. c |-> p[r]]
  BY DEF Pick
<1> HIDE DEF c, p
<1>5. \A r \in 1 .. c : p[r] \in E
  BY <1>1, <1>2
<1>6. p \in [1 .. c -> E]
  BY <1>4, <1>5
<1> QED BY <1>3, <1>6 DEF p, c

\* What stands at the positions from a + 1 to b.
LEMMA PickInterval ==
  ASSUME NEW s, NEW n \in Nat, n = Len(s), NEW a \in 0 .. n, NEW b \in a .. n
  PROVE  /\ Pick(s, a + 1 .. b) = [r \in 1 .. b - a |-> s[a + r]]
         /\ Len(Pick(s, a + 1 .. b)) = b - a
<1> DEFINE P == a + 1 .. b
<1>1. Cardinality(P) = b - a
  <2>1. a + 1 \in Int /\ b \in Int
    OBVIOUS
  <2>2. Cardinality(P) = IF a + 1 > b THEN 0 ELSE b - (a + 1) + 1
    BY <2>1, FS_Interval
  <2> QED BY <2>2
<1>2. ASSUME NEW i \in P PROVE Rank(P, i) = i - a
  <2>1. {j \in P : j <= i} = a + 1 .. i
    OBVIOUS
  <2>2. a + 1 \in Int /\ i \in Int /\ ~ (a + 1 > i)
    OBVIOUS
  <2>3. Cardinality(a + 1 .. i) = IF a + 1 > i THEN 0 ELSE i - (a + 1) + 1
    BY <2>2, FS_Interval
  <2>4. Rank(P, i) = Cardinality({j \in P : j <= i})
    BY DEF Rank
  <2>5. i - (a + 1) + 1 = i - a
    OBVIOUS
  <2>6. Rank(P, i) = Cardinality(a + 1 .. i)
    BY <2>1, <2>4, Zenon
  <2> QED BY <2>2, <2>3, <2>5, <2>6
<1>3. ASSUME NEW r \in 1 .. b - a
      PROVE  (CHOOSE i \in P : Rank(P, i) = r) = a + r
  <2>1. a + r \in P /\ Rank(P, a + r) = r
    <3>1. a + r \in P
      OBVIOUS
    <3>2. Rank(P, a + r) = a + r - a
      BY <3>1, <1>2
    <3> QED BY <3>1, <3>2
  <2>2. \A i \in P : Rank(P, i) = r => i = a + r
    BY <1>2
  <2> HIDE DEF P
  <2> QED BY <2>1, <2>2
<1>4. Pick(s, P) = [r \in 1 .. b - a |-> s[a + r]]
  <2>1. /\ DOMAIN Pick(s, P) = 1 .. b - a
        /\ Pick(s, P) = [r \in 1 .. Cardinality(P) |-> Pick(s, P)[r]]
    BY <1>1 DEF Pick
  <2>2. ASSUME NEW r \in 1 .. b - a PROVE Pick(s, P)[r] = s[a + r]
    <3>1. Pick(s, P)[r] = s[CHOOSE i \in P : Rank(P, i) = r]
      BY <1>1 DEF Pick
    <3> QED BY <3>1, <1>3, Zenon
  <2> HIDE DEF P
  <2> QED BY <1>1, <2>1, <2>2
<1>5. b - a \in Nat
  OBVIOUS
<1> QED BY <1>4, <1>5

==============================================================================

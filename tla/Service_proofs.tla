----------------------------- MODULE Service_proofs -----------------------------
(***************************************************************************)
(* Proofs about ApiServer, for any requests, answers and fault ids, any    *)
(* service files, any limits and lifetimes of the two stores; and about    *)
(* LongTerm, the knowledge beside it, for any documents, categories and    *)
(* scores, any threshold and limit.                                        *)
(***************************************************************************)
EXTENDS MC_Service, Subsequences_proofs, SequenceTheorems

------------------------------------------------------------------------------
(* A store                                                                  *)

\* One entry to an id, and none is younger than one behind it.
InOrder(rows) ==
    \A i, j \in DOMAIN rows :
        i < j => rows[i].id # rows[j].id /\ rows[i].age >= rows[j].age

Ordered(rows, I, ttl) == rows \in Seq(Entry(I, ttl)) /\ InOrder(rows)

LEMMA EntryFacts ==
  ASSUME NEW I, NEW ttl \in Nat, NEW rows, Ordered(rows, I, ttl)
  PROVE  /\ Len(rows) \in Nat /\ DOMAIN rows = 1 .. Len(rows)
         /\ \A i \in DOMAIN rows :
               /\ rows[i] \in Entry(I, ttl)
               /\ rows[i].id \in I /\ rows[i].age \in Nat /\ rows[i].age <= ttl + 1
<1>1. Len(rows) \in Nat /\ DOMAIN rows = 1 .. Len(rows)
  BY DEF Ordered
<1>2. ASSUME NEW i \in DOMAIN rows
      PROVE  rows[i] \in Entry(I, ttl)
  BY <1>1 DEF Ordered
<1>3. ASSUME NEW e \in Entry(I, ttl)
      PROVE  e.id \in I /\ e.age \in Nat /\ e.age <= ttl + 1
  BY DEF Entry
<1> QED BY <1>1, <1>2, <1>3

\* What a comprehension leaves of a store.
Picked(p, rows, P) ==
    /\ Len(p) = Cardinality(P) /\ Cardinality(P) \in 0 .. Len(rows)
    /\ \A i \in P : \E r \in DOMAIN p : p[r] = rows[i]
    /\ \A r \in DOMAIN p : \E i \in P : p[r] = rows[i]

LEMMA PickOrdered ==
  ASSUME NEW I, NEW ttl \in Nat, NEW rows, Ordered(rows, I, ttl),
         NEW P \in SUBSET (DOMAIN rows)
  PROVE  Ordered(Pick(rows, P), I, ttl) /\ Picked(Pick(rows, P), rows, P)
<1> DEFINE n == Len(rows)
           c == Cardinality(P)
           p == Pick(rows, P)
<1>1. n \in Nat /\ DOMAIN rows = 1 .. n /\ P \in SUBSET (1 .. n)
  BY EntryFacts
<1>2. p \in Seq(Entry(I, ttl)) /\ Len(p) = c
  BY <1>1, PickSeq DEF Ordered
<1>3. c \in 0 .. n /\ DOMAIN p = 1 .. c
  BY <1>1, PickFacts
<1>4. PICK at : Places(rows, P, at)
  BY <1>1, PickFacts
<1>5. /\ \A r \in 1 .. c : at[r] \in P /\ p[r] = rows[at[r]]
      /\ \A q, r \in 1 .. c : q < r => at[q] < at[r]
      /\ \A i \in P : \E r \in 1 .. c : at[r] = i
  BY <1>4 DEF Places
<1> HIDE DEF p, c, n
<1>6. InOrder(p)
  <2> SUFFICES ASSUME NEW q \in 1 .. c, NEW r \in 1 .. c, q < r
               PROVE  p[q].id # p[r].id /\ p[q].age >= p[r].age
    BY <1>3 DEF InOrder
  <2>1. at[q] \in DOMAIN rows /\ at[r] \in DOMAIN rows /\ at[q] < at[r]
    BY <1>5
  <2> QED BY <1>5, <2>1 DEF Ordered, InOrder
<1>7. \A i \in P : \E r \in DOMAIN p : p[r] = rows[i]
  <2> SUFFICES ASSUME NEW i \in P PROVE \E r \in DOMAIN p : p[r] = rows[i]
    OBVIOUS
  <2>1. PICK r \in 1 .. c : at[r] = i
    BY <1>5
  <2> QED BY <1>3, <1>5, <2>1
<1>8. \A r \in DOMAIN p : \E i \in P : p[r] = rows[i]
  BY <1>3, <1>5
<1>9. Picked(p, rows, P)
  BY <1>2, <1>3, <1>7, <1>8 DEF c, n, Picked
<1> QED BY <1>2, <1>6, <1>9 DEF p, Ordered

\* The newest entries: of those that go, max remain that are no older.
LEMMA NewestOrdered ==
  ASSUME NEW I, NEW ttl \in Nat, NEW rows, Ordered(rows, I, ttl),
         NEW max \in Nat \ {0}
  PROVE  LET newest == Newest(rows, max)
         IN  /\ Ordered(newest, I, ttl) /\ Len(newest) <= max
             /\ Len(rows) <= max => newest = rows
             /\ Ids(newest) \subseteq Ids(rows)
             /\ \A i \in DOMAIN rows : rows[i].id \notin Ids(newest) =>
                   /\ Len(newest) = max
                   /\ \A j \in DOMAIN newest : newest[j].age <= rows[i].age
<1> DEFINE n == Len(rows)
           d == n - max
           newest == Newest(rows, max)
<1>1. /\ n \in Nat /\ DOMAIN rows = 1 .. n
      /\ \A i \in 1 .. n : rows[i] \in Entry(I, ttl) /\ rows[i].age \in Nat
  BY EntryFacts
<1>2. CASE n <= max
  <2>1. newest = rows
    BY <1>1, <1>2 DEF Newest
  <2> QED BY <1>1, <1>2, <2>1 DEF Ids
<1>3. CASE n > max
  <2>1. newest = SubSeq(rows, d + 1, n) /\ d \in Nat /\ d + max = n
    BY <1>1, <1>3 DEF Newest
  <2>2. /\ newest \in Seq(Entry(I, ttl)) /\ Len(newest) = max /\ DOMAIN newest = 1 .. max
        /\ \A j \in 1 .. max : newest[j] = rows[d + j]
    BY <1>1, <1>3, <2>1
  <2> HIDE DEF newest, d, n
  <2>3. \A j \in 1 .. max : d + j \in 1 .. n
    BY <2>1, <1>1
  <2>4. InOrder(newest)
    <3> SUFFICES ASSUME NEW q \in 1 .. max, NEW r \in 1 .. max, q < r
                 PROVE  newest[q].id # newest[r].id /\ newest[q].age >= newest[r].age
      BY <2>2 DEF InOrder
    <3>1. d + q < d + r /\ d + q \in DOMAIN rows /\ d + r \in DOMAIN rows
      BY <1>1, <2>1, <2>3
    <3> QED BY <2>2, <3>1 DEF Ordered, InOrder
  <2>5. Ids(newest) \subseteq Ids(rows)
    BY <1>1, <2>2, <2>3 DEF Ids
  <2>6. ASSUME NEW i \in DOMAIN rows, rows[i].id \notin Ids(newest), NEW j \in 1 .. max
        PROVE  newest[j].age <= rows[i].age
    <3>1. i \in 1 .. n /\ i \in Nat /\ d \in Nat
      BY <1>1, <2>1
    <3>2. i <= d
      <4> SUFFICES ASSUME i > d PROVE FALSE
        BY <3>1
      <4>1. i - d \in 1 .. max /\ d + (i - d) = i
        BY <1>1, <2>1, <3>1
      <4>2. newest[i - d] = rows[i]
        BY <2>2, <4>1
      <4> QED BY <2>2, <2>6, <4>1, <4>2 DEF Ids
    <3>3. i < d + j /\ d + j \in DOMAIN rows
      BY <1>1, <2>3, <3>1, <3>2
    <3>4. rows[i].age >= rows[d + j].age
      BY <3>3 DEF Ordered, InOrder
    <3> QED BY <1>1, <2>2, <3>3, <3>4
  <2>7. max <= max /\ ~ (n <= max)
    BY <1>1, <1>3
  <2> QED BY <2>2, <2>4, <2>5, <2>6, <2>7 DEF newest, n, Ordered
<1> QED BY <1>1, <1>2, <1>3

\* What a cleanup removes was too old, or max remain that are no older.
Cleaned(clean, rows, ttl, max) ==
    /\ Len(clean) <= max /\ Ids(clean) \subseteq Ids(rows)
    /\ \A i \in DOMAIN rows : rows[i].id \notin Ids(clean) =>
          \/ rows[i].age > ttl
          \/ /\ Len(clean) = max /\ Len(rows) > max
             /\ \A j \in DOMAIN clean : clean[j].age <= rows[i].age

LEMMA CleanupOrdered ==
  ASSUME NEW I, NEW ttl \in Nat, NEW rows, Ordered(rows, I, ttl),
         NEW max \in Nat \ {0}
  PROVE  /\ Ordered(Cleanup(rows, ttl, max), I, ttl)
         /\ Cleaned(Cleanup(rows, ttl, max), rows, ttl, max)
<1> DEFINE P == {i \in DOMAIN rows : rows[i].age <= ttl}
           fresh == Pick(rows, P)
           clean == Cleanup(rows, ttl, max)
<1>1. P \in SUBSET (DOMAIN rows)
  OBVIOUS
<1> HIDE DEF P
<1>2. /\ Ordered(fresh, I, ttl) /\ Len(fresh) \in 0 .. Len(rows)
      /\ \A i \in P : \E r \in DOMAIN fresh : fresh[r] = rows[i]
      /\ \A r \in DOMAIN fresh : \E i \in P : fresh[r] = rows[i]
  <2>1. Ordered(fresh, I, ttl) /\ Picked(fresh, rows, P)
    BY <1>1, PickOrdered
  <2> QED BY <2>1 DEF Picked
<1>3. clean = Newest(fresh, max)
  BY DEF Cleanup, P
<1> HIDE DEF fresh, clean
<1>4. /\ Ordered(clean, I, ttl) /\ Len(clean) <= max
      /\ Len(fresh) <= max => clean = fresh
      /\ Ids(clean) \subseteq Ids(fresh)
      /\ \A i \in DOMAIN fresh : fresh[i].id \notin Ids(clean) =>
            /\ Len(clean) = max
            /\ \A j \in DOMAIN clean : clean[j].age <= fresh[i].age
  BY <1>2, <1>3, NewestOrdered
<1>5. Ids(fresh) \subseteq Ids(rows)
  BY <1>1, <1>2 DEF Ids
<1>6. /\ Len(rows) \in Nat
      /\ \A i \in DOMAIN rows : rows[i].age \in Nat
  BY EntryFacts
<1>7. ASSUME NEW i \in DOMAIN rows, rows[i].id \notin Ids(clean), rows[i].age <= ttl
      PROVE  /\ Len(clean) = max /\ Len(rows) > max
             /\ \A j \in DOMAIN clean : clean[j].age <= rows[i].age
  <2>1. i \in P
    BY <1>7 DEF P
  <2>2. PICK r \in DOMAIN fresh : fresh[r] = rows[i]
    BY <1>2, <2>1
  <2>3. fresh[r].id \in Ids(fresh) /\ fresh[r].id \notin Ids(clean)
    BY <1>7, <2>2 DEF Ids
  <2>4. ~ (Len(fresh) <= max)
    BY <1>4, <2>3
  <2>5. Len(rows) > max
    BY <1>2, <1>6, <2>4
  <2> QED BY <1>4, <2>2, <2>3, <2>5
<1>8. ASSUME NEW i \in DOMAIN rows, rows[i].id \notin Ids(clean)
      PROVE  \/ rows[i].age > ttl
             \/ /\ Len(clean) = max /\ Len(rows) > max
                /\ \A j \in DOMAIN clean : clean[j].age <= rows[i].age
  <2>1. rows[i].age > ttl \/ rows[i].age <= ttl
    BY <1>6
  <2> QED BY <1>7, <1>8, <2>1
<1>9. Ids(clean) \subseteq Ids(rows)
  BY <1>4, <1>5
<1>10. Cleaned(clean, rows, ttl, max)
  BY <1>4, <1>8, <1>9 DEF Cleaned
<1> QED BY <1>4, <1>10 DEF clean

\* Two stores with an entry between them, whose age is between theirs.
Between(b, new, a) ==
    /\ \A i \in DOMAIN b : b[i].id # new.id /\ b[i].age >= new.age
    /\ \A i \in DOMAIN a : a[i].id # new.id /\ a[i].age <= new.age
    /\ \A i \in DOMAIN b, j \in DOMAIN a : b[i].id # a[j].id

Joined(put, b, new, a) ==
    /\ Len(put) = Len(b) + 1 + Len(a)
    /\ \A k \in DOMAIN put : \/ put[k] = new
                             \/ \E i \in DOMAIN b : put[k] = b[i]
                             \/ \E i \in DOMAIN a : put[k] = a[i]
    /\ \E k \in DOMAIN put : put[k] = new
    /\ \A i \in DOMAIN b : \E k \in DOMAIN put : put[k] = b[i]
    /\ \A i \in DOMAIN a : \E k \in DOMAIN put : put[k] = a[i]

LEMMA JoinOrdered ==
  ASSUME NEW I, NEW ttl \in Nat, NEW new \in Entry(I, ttl),
         NEW b, Ordered(b, I, ttl), NEW a, Ordered(a, I, ttl),
         Between(b, new, a)
  PROVE  Ordered(b \o <<new>> \o a, I, ttl) /\ Joined(b \o <<new>> \o a, b, new, a)
<1> DEFINE p == Len(b)
           q == Len(a)
           c == b \o <<new>>
           put == c \o a
<1>1. /\ p \in Nat /\ DOMAIN b = 1 .. p /\ q \in Nat /\ DOMAIN a = 1 .. q
      /\ \A i \in 1 .. p : b[i].age \in Nat
      /\ \A i \in 1 .. q : a[i].age \in Nat
  BY EntryFacts
<1>2. new.age \in Nat
  BY DEF Entry
<1>3. /\ \A i, j \in 1 .. p : i < j => b[i].id # b[j].id /\ b[i].age >= b[j].age
      /\ \A i, j \in 1 .. q : i < j => a[i].id # a[j].id /\ a[i].age >= a[j].age
  BY <1>1 DEF Ordered, InOrder
<1>4. /\ c \in Seq(Entry(I, ttl)) /\ Len(c) = p + 1
      /\ \A i \in 1 .. p : c[i] = b[i]
      /\ c[p + 1] = new
  <2>1. b \in Seq(Entry(I, ttl))
    BY DEF Ordered
  <2>2. <<new>> \in Seq(Entry(I, ttl)) /\ Len(<<new>>) = 1 /\ <<new>>[1] = new
    OBVIOUS
  <2> QED BY <2>1, <2>2
<1>5. /\ put \in Seq(Entry(I, ttl)) /\ Len(put) = Len(c) + q
      /\ \A i \in 1 .. Len(c) + q : put[i] = IF i <= Len(c) THEN c[i] ELSE a[i - Len(c)]
  <2>1. a \in Seq(Entry(I, ttl))
    BY DEF Ordered
  <2> QED BY <1>4, <2>1, ConcatProperties
<1>0. /\ \A i \in DOMAIN b : b[i].id # new.id /\ b[i].age >= new.age
      /\ \A i \in DOMAIN a : a[i].id # new.id /\ a[i].age <= new.age
      /\ \A i \in DOMAIN b, j \in DOMAIN a : b[i].id # a[j].id
  BY DEF Between
<1> HIDE DEF p, q, c, put
<1>6. /\ Len(put) = p + 1 + q /\ DOMAIN put = 1 .. p + 1 + q
      /\ \A i \in 1 .. p + 1 + q : put[i] = IF i <= p + 1 THEN c[i] ELSE a[i - (p + 1)]
  BY <1>1, <1>4, <1>5
<1>7. ASSUME NEW i \in 1 .. p PROVE i \in DOMAIN put /\ put[i] = b[i]
  <2>1. i \in 1 .. p + 1 + q /\ i <= p + 1
    BY <1>1
  <2> QED BY <1>4, <1>6, <2>1
<1>8. p + 1 \in DOMAIN put /\ put[p + 1] = new
  <2>1. p + 1 \in 1 .. p + 1 + q /\ p + 1 <= p + 1
    BY <1>1
  <2> QED BY <1>4, <1>6, <2>1
<1>9. ASSUME NEW i \in 1 .. q PROVE p + 1 + i \in DOMAIN put /\ put[p + 1 + i] = a[i]
  <2> DEFINE k == p + 1 + i
  <2>1. k \in 1 .. p + 1 + q /\ ~ (k <= p + 1) /\ k - (p + 1) = i
    BY <1>1
  <2> HIDE DEF k
  <2>2. k \in DOMAIN put /\ put[k] = a[i]
    BY <1>6, <2>1
  <2> QED BY <2>2 DEF k
<1>10. ASSUME NEW k \in DOMAIN put, k > p + 1
       PROVE  \E i \in 1 .. q : k = p + 1 + i /\ put[k] = a[i]
  <2>1. k \in Nat /\ k <= p + 1 + q
    BY <1>1, <1>6
  <2>2. k - (p + 1) \in 1 .. q /\ k = p + 1 + (k - (p + 1))
    BY <1>1, <1>10, <2>1
  <2> QED BY <1>9, <2>2
<1>11. InOrder(put)
  <2> SUFFICES ASSUME NEW i \in DOMAIN put, NEW j \in DOMAIN put, i < j
               PROVE  put[i].id # put[j].id /\ put[i].age >= put[j].age
    BY DEF InOrder
  <2>0. i \in Nat /\ j \in Nat /\ i >= 1 /\ j >= 1
    BY <1>6
  <2>1. CASE j <= p
    <3>1. i \in 1 .. p /\ j \in 1 .. p
      BY <1>1, <2>0, <2>1
    <3> QED BY <1>3, <1>7, <3>1
  <2>2. CASE j = p + 1
    <3>1. i \in 1 .. p
      BY <1>1, <2>0, <2>2
    <3> QED BY <1>0, <1>1, <1>7, <1>8, <2>2, <3>1
  <2>3. CASE j > p + 1
    <3>1. PICK m \in 1 .. q : j = p + 1 + m /\ put[j] = a[m]
      BY <1>10, <2>3
    <3>2. CASE i <= p
      <4>1. i \in 1 .. p
        BY <1>1, <2>0, <3>2
      <4>2. put[i] = b[i] /\ b[i].id # a[m].id
        BY <1>0, <1>1, <1>7, <4>1
      <4>3. b[i].age >= new.age /\ new.age >= a[m].age /\ b[i].age \in Nat /\ a[m].age \in Nat
        BY <1>0, <1>1, <1>2, <4>1
      <4>4. b[i].age >= a[m].age
        BY <1>2, <4>3
      <4> QED BY <3>1, <4>2, <4>4
    <3>3. CASE i = p + 1
      BY <1>0, <1>1, <1>2, <1>8, <3>1, <3>3
    <3>4. CASE i > p + 1
      <4>1. PICK l \in 1 .. q : i = p + 1 + l /\ put[i] = a[l]
        BY <1>10, <3>4
      <4>2. l < m
        BY <1>1, <3>1, <4>1
      <4> QED BY <1>3, <3>1, <4>1, <4>2
    <3> QED BY <1>1, <2>0, <3>2, <3>3, <3>4
  <2> QED BY <1>1, <2>0, <2>1, <2>2, <2>3
<1>12. ASSUME NEW k \in DOMAIN put
       PROVE  \/ put[k] = new
              \/ \E i \in DOMAIN b : put[k] = b[i]
              \/ \E i \in DOMAIN a : put[k] = a[i]
  <2>0. k \in Nat /\ k >= 1
    BY <1>6
  <2>1. CASE k <= p
    <3>1. k \in 1 .. p
      BY <1>1, <2>0, <2>1
    <3> QED BY <1>1, <1>7, <3>1
  <2>2. CASE k = p + 1
    BY <1>8, <2>2
  <2>3. CASE k > p + 1
    BY <1>1, <1>10, <2>3
  <2> QED BY <1>1, <2>0, <2>1, <2>2, <2>3
<1>13. Ordered(put, I, ttl)
  BY <1>5, <1>11 DEF Ordered
<1>14. \A i \in DOMAIN b : \E k \in DOMAIN put : put[k] = b[i]
  BY <1>1, <1>7
<1>15. \A i \in DOMAIN a : \E k \in DOMAIN put : put[k] = a[i]
  BY <1>1, <1>9
<1>16. Len(put) = Len(b) + 1 + Len(a)
  BY <1>6 DEF p, q
<1>17. \E k \in DOMAIN put : put[k] = new
  BY <1>8
<1>18. Joined(put, b, new, a)
  BY <1>12, <1>14, <1>15, <1>16, <1>17 DEF Joined
<1> QED BY <1>13, <1>18 DEF put, c

\* The numbers of what comes before an entry and of what comes after it.
Split(n, others, before, after) ==
    /\ Cardinality(before) + Cardinality(after) = Cardinality(others)
    /\ Cardinality(others) \in 0 .. n
    /\ others # 1 .. n => Cardinality(others) < n

LEMMA SplitCount ==
  ASSUME NEW n \in Nat, NEW others \in SUBSET (1 .. n), NEW before \in SUBSET others,
         NEW after, after = others \ before
  PROVE  Split(n, others, before, after)
<1>1. before \cup after = others /\ before \cap after = {} /\ after \in SUBSET others
  OBVIOUS
<1>2. IsFiniteSet(others) /\ Cardinality(others) \in 0 .. n
  BY PositionsFinite
<1>3. IsFiniteSet(before) /\ IsFiniteSet(after)
  BY <1>1, <1>2, FS_Subset
<1>4. Cardinality(before) \in Nat /\ Cardinality(after) \in Nat
  BY <1>3, FS_CardinalityType
<1>5. Cardinality(before \cup after) =
        Cardinality(before) + Cardinality(after) - Cardinality(before \cap after)
  BY <1>3, FS_Union
<1>6. Cardinality(before \cap after) = 0
  BY <1>1, FS_EmptySet
<1>7. Cardinality(others) = Cardinality(before) + Cardinality(after) - 0
  BY <1>1, <1>5, <1>6
<1>8. IsFiniteSet(1 .. n) /\ Cardinality(1 .. n) = n
  <2>1. 1 \in Int /\ n \in Int
    OBVIOUS
  <2>2. IsFiniteSet(1 .. n) /\ Cardinality(1 .. n) = IF 1 > n THEN 0 ELSE n - 1 + 1
    BY <2>1, FS_Interval
  <2> QED BY <2>2
<1>9. Cardinality(others) = Cardinality(1 .. n) => others = 1 .. n
  BY <1>8, FewerPositions
<1> QED BY <1>2, <1>4, <1>7, <1>8, <1>9 DEF Split

\* An entry takes the place of that of its id, and the others stay.
LEMMA PutOrdered ==
  ASSUME NEW I, NEW ttl \in Nat, NEW rows, Ordered(rows, I, ttl),
         NEW new \in Entry(I, ttl)
  PROVE  LET put == Put(rows, new)
         IN  /\ Ordered(put, I, ttl) /\ Len(put) \in Nat /\ Len(put) <= Len(rows) + 1
             /\ new.id \in Ids(rows) => Len(put) <= Len(rows)
             /\ Ids(put) = Ids(rows) \cup {new.id}
             /\ \E k \in DOMAIN put : put[k] = new
             /\ \A i \in DOMAIN rows : rows[i].id # new.id =>
                   \E k \in DOMAIN put : put[k] = rows[i]
<1> DEFINE n == Len(rows)
           others == {i \in DOMAIN rows : rows[i].id # new.id}
           before == {i \in others : rows[i].age >= new.age}
           after == others \ before
           b == Pick(rows, before)
           a == Pick(rows, after)
           put == Put(rows, new)
<1>1. /\ n \in Nat /\ DOMAIN rows = 1 .. n
      /\ \A i \in DOMAIN rows : rows[i].age \in Nat
  BY EntryFacts
<1>2. before \in SUBSET (DOMAIN rows) /\ after \in SUBSET (DOMAIN rows)
  OBVIOUS
<1>3. others \in SUBSET (1 .. n) /\ before \in SUBSET others
  BY <1>1
<1>4. new.age \in Nat /\ new.id \in I
  BY DEF Entry
<1>5. /\ \A i \in before : rows[i].id # new.id /\ rows[i].age >= new.age
      /\ \A i \in after : rows[i].id # new.id /\ ~ (rows[i].age >= new.age)
      /\ \A i \in DOMAIN rows : rows[i].id # new.id => i \in before \/ i \in after
      /\ before \cap after = {}
  OBVIOUS
<1>6. new.id \in Ids(rows) => others # 1 .. n
  BY <1>1 DEF Ids
<1>7. put = b \o <<new>> \o a
  BY DEF Put
<1>8. after = others \ before
  OBVIOUS
<1> HIDE DEF others, before, after, put
<1>9. /\ Ordered(b, I, ttl) /\ Len(b) = Cardinality(before) /\ Cardinality(before) \in 0 .. n
      /\ \A i \in before : \E r \in DOMAIN b : b[r] = rows[i]
      /\ \A r \in DOMAIN b : \E i \in before : b[r] = rows[i]
  <2>1. Ordered(b, I, ttl) /\ Picked(b, rows, before)
    BY <1>2, PickOrdered
  <2> QED BY <2>1 DEF Picked
<1>10. /\ Ordered(a, I, ttl) /\ Len(a) = Cardinality(after) /\ Cardinality(after) \in 0 .. n
       /\ \A i \in after : \E r \in DOMAIN a : a[r] = rows[i]
       /\ \A r \in DOMAIN a : \E i \in after : a[r] = rows[i]
  <2>1. Ordered(a, I, ttl) /\ Picked(a, rows, after)
    BY <1>2, PickOrdered
  <2> QED BY <2>1 DEF Picked
<1> HIDE DEF a, b
<1>11. \A i \in DOMAIN b : b[i].id # new.id /\ b[i].age >= new.age
  BY <1>5, <1>9
<1>12. \A i \in DOMAIN a : a[i].id # new.id /\ a[i].age <= new.age
  <2> SUFFICES ASSUME NEW i \in DOMAIN a PROVE a[i].id # new.id /\ a[i].age <= new.age
    OBVIOUS
  <2>1. PICK k \in after : a[i] = rows[k]
    BY <1>10
  <2>2. rows[k].id # new.id /\ ~ (rows[k].age >= new.age) /\ rows[k].age \in Nat
    BY <1>1, <1>2, <1>5
  <2> QED BY <1>4, <2>1, <2>2
<1>13. \A i \in DOMAIN b, j \in DOMAIN a : b[i].id # a[j].id
  <2> SUFFICES ASSUME NEW i \in DOMAIN b, NEW j \in DOMAIN a PROVE b[i].id # a[j].id
    OBVIOUS
  <2>1. PICK k \in before : b[i] = rows[k]
    BY <1>9
  <2>2. PICK m \in after : a[j] = rows[m]
    BY <1>10
  <2>3. k \in DOMAIN rows /\ m \in DOMAIN rows /\ k # m
    BY <1>2, <1>5
  <2>4. k < m \/ m < k
    BY <1>1, <2>3
  <2>5. rows[k].id # rows[m].id
    BY <2>3, <2>4 DEF Ordered, InOrder
  <2> QED BY <2>1, <2>2, <2>5
<1>14. /\ Ordered(put, I, ttl) /\ Len(put) = Len(b) + 1 + Len(a)
       /\ \A k \in DOMAIN put : \/ put[k] = new
                                \/ \E i \in DOMAIN b : put[k] = b[i]
                                \/ \E i \in DOMAIN a : put[k] = a[i]
       /\ \E k \in DOMAIN put : put[k] = new
       /\ \A i \in DOMAIN b : \E k \in DOMAIN put : put[k] = b[i]
       /\ \A i \in DOMAIN a : \E k \in DOMAIN put : put[k] = a[i]
  <2>1. Between(b, new, a)
    BY <1>11, <1>12, <1>13 DEF Between
  <2>2. Ordered(b \o <<new>> \o a, I, ttl) /\ Joined(b \o <<new>> \o a, b, new, a)
    BY <1>9, <1>10, <2>1, JoinOrdered
  <2>3. Ordered(put, I, ttl) /\ Joined(put, b, new, a)
    BY <1>7, <2>2
  <2> QED BY <2>3 DEF Joined
<1>15. ASSUME NEW i \in DOMAIN rows, rows[i].id # new.id
       PROVE  \E k \in DOMAIN put : put[k] = rows[i]
  <2>1. CASE i \in before
    <3>1. PICK r \in DOMAIN b : b[r] = rows[i]
      BY <1>9, <2>1
    <3> QED BY <1>14, <3>1
  <2>2. CASE i \in after
    <3>1. PICK r \in DOMAIN a : a[r] = rows[i]
      BY <1>10, <2>2
    <3> QED BY <1>14, <3>1
  <2> QED BY <1>5, <1>15, <2>1, <2>2
<1>16. Ids(put) = Ids(rows) \cup {new.id}
  <2>1. ASSUME NEW k \in DOMAIN put PROVE put[k].id \in Ids(rows) \cup {new.id}
    <3>1. ASSUME NEW i \in DOMAIN b, put[k] = b[i] PROVE put[k].id \in Ids(rows)
      BY <1>2, <1>9, <3>1 DEF Ids
    <3>2. ASSUME NEW i \in DOMAIN a, put[k] = a[i] PROVE put[k].id \in Ids(rows)
      BY <1>2, <1>10, <3>2 DEF Ids
    <3> QED BY <1>14, <3>1, <3>2
  <2>2. new.id \in Ids(put)
    BY <1>14 DEF Ids
  <2>3. ASSUME NEW i \in DOMAIN rows PROVE rows[i].id \in Ids(put)
    BY <1>15, <2>2 DEF Ids
  <2> QED BY <2>1, <2>2, <2>3 DEF Ids
<1>17. Len(put) \in Nat /\ Len(put) <= n + 1 /\ (new.id \in Ids(rows) => Len(put) <= n)
  <2>0. n \in Nat
    BY <1>1
  <2>1. /\ Cardinality(before) + Cardinality(after) = Cardinality(others)
        /\ Cardinality(others) \in 0 .. n
        /\ others # 1 .. n => Cardinality(others) < n
    <3> HIDE DEF n
    <3>1. others \in SUBSET (1 .. n) /\ before \in SUBSET others
      BY <1>3
    <3>2. Split(n, others, before, after)
      BY <2>0, <3>1, <1>8, SplitCount
    <3> QED BY <3>2 DEF Split
  <2>2. Len(put) = Cardinality(before) + 1 + Cardinality(after)
    BY <1>9, <1>10, <1>14
  <2> HIDE DEF n
  <2>3. Cardinality(before) \in Nat /\ Cardinality(after) \in Nat
    BY <1>9, <1>10, <1>1 DEF n
  <2> QED BY <1>1, <1>6, <2>1, <2>2, <2>3
<1> QED BY <1>14, <1>15, <1>16, <1>17 DEF put

\* All entries age alike.
LEMMA OlderOrdered ==
  ASSUME NEW I, NEW ttl \in Nat, NEW rows, Ordered(rows, I, ttl)
  PROVE  LET older == Older(rows, ttl)
         IN  Ordered(older, I, ttl) /\ Len(older) = Len(rows) /\ Ids(older) = Ids(rows)
<1> DEFINE n == Len(rows)
           older == Older(rows, ttl)
<1>1. /\ n \in Nat /\ DOMAIN rows = 1 .. n
      /\ \A i \in 1 .. n : rows[i] \in Entry(I, ttl) /\ rows[i].age \in Nat
                           /\ rows[i].id \in I /\ rows[i].age <= ttl + 1
  BY EntryFacts
<1>2. DOMAIN older = 1 .. n /\ older = [i \in 1 .. n |-> older[i]]
  BY <1>1 DEF Older
<1>3. ASSUME NEW i \in 1 .. n
      PROVE  /\ older[i].id = rows[i].id
             /\ older[i].age = IF rows[i].age <= ttl THEN rows[i].age + 1 ELSE rows[i].age
             /\ older[i] \in Entry(I, ttl)
  <2>1. older[i] = [rows[i] EXCEPT !.age = IF @ <= ttl THEN @ + 1 ELSE @]
    BY <1>1 DEF Older
  <2> HIDE DEF older
  <2> DEFINE e == rows[i]
  <2>2. e \in Entry(I, ttl)
    BY <1>1
  <2> HIDE DEF e
  <2>3. e.age \in 0 .. ttl + 1 /\ e.id \in I
    BY <2>2 DEF Entry
  <2>4. older[i] = [e EXCEPT !.age = IF e.age <= ttl THEN e.age + 1 ELSE e.age]
    BY <2>1 DEF e
  <2>5. (IF e.age <= ttl THEN e.age + 1 ELSE e.age) \in 0 .. ttl + 1
    BY <2>3
  <2> QED BY <2>2, <2>4, <2>5 DEF Entry, e
<1> HIDE DEF older, n
<1>4. older \in Seq(Entry(I, ttl)) /\ Len(older) = n
  <2>1. older \in [1 .. n -> Entry(I, ttl)]
    BY <1>2, <1>3
  <2> QED BY <1>1, <2>1
<1>5. InOrder(older)
  <2> SUFFICES ASSUME NEW i \in 1 .. n, NEW j \in 1 .. n, i < j
               PROVE  older[i].id # older[j].id /\ older[i].age >= older[j].age
    BY <1>2 DEF InOrder
  <2>1. rows[i].id # rows[j].id /\ rows[i].age >= rows[j].age
    BY <1>1 DEF Ordered, InOrder
  <2>2. /\ older[i].age = IF rows[i].age <= ttl THEN rows[i].age + 1 ELSE rows[i].age
        /\ older[j].age = IF rows[j].age <= ttl THEN rows[j].age + 1 ELSE rows[j].age
    BY <1>3
  <2>3. rows[i].age \in Nat /\ rows[j].age \in Nat /\ rows[i].age <= ttl + 1
    BY <1>1
  <2>4. older[i].age >= older[j].age
    BY <2>1, <2>2, <2>3
  <2> QED BY <1>3, <2>1, <2>4
<1>6. Ids(older) = Ids(rows)
  BY <1>1, <1>2, <1>3 DEF Ids
<1> QED BY <1>4, <1>5, <1>6 DEF Ordered, older, n

\* One entry to an id: as many ids as entries.
LEMMA IdsCount ==
  ASSUME NEW I, NEW ttl \in Nat, NEW rows, Ordered(rows, I, ttl)
  PROVE  Cardinality(Ids(rows)) = Len(rows)
<1> DEFINE n == Len(rows)
           name == [i \in 1 .. n |-> rows[i].id]
<1>1. n \in Nat /\ DOMAIN rows = 1 .. n
  BY EntryFacts
<1>2. name \in [1 .. n -> Ids(rows)] /\ \A i \in 1 .. n : name[i] = rows[i].id
  BY <1>1 DEF Ids
<1> HIDE DEF name, n
<1>3. ASSUME NEW i \in 1 .. n, NEW j \in 1 .. n, i # j PROVE name[i] # name[j]
  <2>1. i < j \/ j < i
    BY <1>1, <1>3
  <2> QED BY <1>1, <1>2, <2>1 DEF Ordered, InOrder
<1>4. name \in Bijection(1 .. n, Ids(rows))
  <2>1. name \in Injection(1 .. n, Ids(rows))
    BY <1>2, <1>3 DEF Injection, IsInjective
  <2>2. name \in Surjection(1 .. n, Ids(rows))
    BY <1>1, <1>2 DEF Surjection, Ids
  <2> QED BY <2>1, <2>2 DEF Bijection
<1>5. ExistsBijection(1 .. n, Ids(rows))
  BY <1>4 DEF ExistsBijection
<1> QED BY <1>1, <1>5, FS_CountingElements DEF n

------------------------------------------------------------------------------
(* The server                                                               *)

\* A run that ended left its result in the store, or it has been dropped since;
\* one that was lost had an answer to its planning with a null.
Accounted ==
    \A r \in Requests :
        /\ state[r] = "stored" => faultOf[r] \in Ids(results) \cup dropped
        /\ state[r] = "lost" => "null" \in {answered[r].service, answered[r].alert}

StoresOK ==
    /\ Ordered(results, FaultIds, ResultTtl) /\ Len(results) <= ResultMax
    /\ Ordered(confirms, Operations, ConfirmTtl) /\ Len(confirms) <= ConfirmMax + 1
    /\ dropped \subseteq FaultIds

RunsOK ==
    /\ loop \in Requests \cup {"free"}
    /\ state \in [Requests -> {"none", "queued", "planned", "stamped", "stored", "answered", "lost"}]
    /\ faultOf \in [Requests -> FaultIds]
    /\ answered \in [Requests -> Answers \cup {NoAnswer}]
    /\ DOMAIN planned = Requests /\ planned = [r \in Requests |-> planned[r]]
    /\ \A r \in Requests : planned[r] # NoPlan =>
          planned[r].node.service \in {planned[r].service, "none"}
    /\ stampAge \in [Requests -> 0 .. ResultTtl]

ProcessOK ==
    /\ command \in {"serve", "handle"}
    /\ life \in {"starting", "serving", "stopping", "closing", "exited"}
    /\ agent \in BOOLEAN /\ held \in BOOLEAN
    /\ cleaner \in {"none", "running", "ended"}

ServerInv == ProcessOK /\ RunsOK /\ StoresOK /\ Accounted

LEMMA Limits ==
  /\ ResultTtl \in Nat \ {0} /\ ResultMax \in Nat \ {0}
  /\ ConfirmTtl \in Nat \ {0} /\ ConfirmMax \in Nat \ {0}
  BY ServerAssumption

LEMMA EmptyOrdered ==
  ASSUME NEW I, NEW ttl \in Nat
  PROVE  Ordered(<< >>, I, ttl) /\ Len(<< >>) = 0
  BY DEF Ordered, InOrder

LEMMA ServerInitInv == ServerInit => ServerInv
<1> SUFFICES ASSUME ServerInit PROVE ServerInv
  OBVIOUS
<1>1. StoresOK
  BY Limits, EmptyOrdered DEF ServerInit, StoresOK
<1>2. RunsOK
  BY Limits DEF ServerInit, RunsOK
<1>3. ProcessOK /\ Accounted
  BY DEF ServerInit, ProcessOK, Accounted
<1> QED BY <1>1, <1>2, <1>3 DEF ServerInv

\* What a cleanup of the results, with or without a new one, leaves of them.
LEMMA ResultsCleaned ==
  ASSUME ServerInv, NEW rows, Ordered(rows, FaultIds, ResultTtl), CleanResults(rows)
  PROVE  /\ Ordered(results', FaultIds, ResultTtl) /\ Len(results') <= ResultMax
         /\ dropped' \subseteq FaultIds
         /\ dropped \subseteq dropped' /\ Ids(rows) \subseteq Ids(results') \cup dropped'
         /\ \A i \in DOMAIN rows : rows[i].id \notin Ids(results') =>
               \/ rows[i].age > ResultTtl
               \/ /\ Len(results') = ResultMax /\ Len(rows) > ResultMax
                  /\ \A j \in DOMAIN results' : results'[j].age <= rows[i].age
<1>1. /\ results' = Cleanup(rows, ResultTtl, ResultMax)
      /\ dropped' = dropped \cup (Ids(rows) \ Ids(results'))
  BY DEF CleanResults
<1>2. ResultTtl \in Nat /\ ResultMax \in Nat \ {0}
  BY Limits
<1>3. /\ Ordered(Cleanup(rows, ResultTtl, ResultMax), FaultIds, ResultTtl)
      /\ Cleaned(Cleanup(rows, ResultTtl, ResultMax), rows, ResultTtl, ResultMax)
  BY <1>2, CleanupOrdered
<1>4. Ordered(results', FaultIds, ResultTtl) /\ Cleaned(results', rows, ResultTtl, ResultMax)
  BY <1>1, <1>3
<1>5. Ids(rows) \subseteq FaultIds
  <2>1. \A i \in DOMAIN rows : rows[i].id \in FaultIds
    BY <1>2, EntryFacts
  <2> QED BY <2>1 DEF Ids
<1>6. dropped' \subseteq FaultIds
  BY <1>1, <1>5 DEF ServerInv, StoresOK
<1>7. dropped \subseteq dropped' /\ Ids(rows) \subseteq Ids(results') \cup dropped'
  BY <1>1
<1> QED BY <1>4, <1>6, <1>7 DEF Cleaned

LEMMA PlansFit ==
  ASSUME NEW answer
  PROVE  /\ CreatePlan(answer).node.service \in {CreatePlan(answer).service, "none"}
         /\ Raises(answer) => "null" \in {answer.service, answer.alert}
<1>1. CreatePlan(answer).node.service \in {CreatePlan(answer).service, "none"}
  BY DEF CreatePlan, GetServiceNode, NoNode
<1>2. ASSUME Raises(answer) PROVE "null" \in {answer.service, answer.alert}
  <2>1. CASE answer.shape = "json"
    <3>1. /\ Infer(answer).service = answer.service /\ Infer(answer).alert = answer.alert
          /\ Infer(answer)["service"] = answer.service /\ Infer(answer)["alert"] = answer.alert
      BY <2>1 DEF Infer
    <3> QED BY <1>2, <3>1 DEF Raises, Get, Defaults
  <2>2. CASE answer.shape # "json"
    <3>1. Infer(answer)["service"] = "unknown" /\ Infer(answer)["alert"] = "unknown"
      BY <2>2 DEF Infer, Defaults
    <3> QED BY <1>2, <3>1 DEF Raises, Get, Defaults
  <2> QED BY <2>1, <2>2
<1> QED BY <1>1, <1>2

\* A request's run goes on; the stores stay.
LEMMA RunGoesOn ==
  ASSUME ServerInv, NEW r \in Requests, UNCHANGED stores,
         HandleAsync(r) \/ HandleSync(r) \/ Plan(r) \/ EndRun(r)
  PROVE  ServerInv'
<1>1. /\ UNCHANGED <<faultOf, stampAge, results, confirms, dropped>>
      /\ state[r] \notin {"stored", "lost"}
      /\ \E label \in {"queued", "lost", "planned", "answered", "stamped"} : Become(r, label)
      /\ state' \in [Requests -> {"none", "queued", "planned", "stamped", "stored", "answered", "lost"}]
      /\ loop' \in Requests \cup {"free"}
      /\ \A q \in Requests \ {r} : state'[q] = state[q]
      /\ state'[r] # "stored"
  BY DEF HandleAsync, HandleSync, Plan, EndRun, Become, stores, ServerInv, RunsOK
<1>2. StoresOK'
  BY <1>1 DEF ServerInv, StoresOK
<1>3. ProcessOK'
  BY DEF HandleAsync, HandleSync, Plan, EndRun, GetAgent, MakeAgent, process, ServerInv, ProcessOK
<1>4. RunsOK' /\ Accounted'
  <2>1. CASE Plan(r)
    <3>1. PICK answer \in Answers :
            /\ answered' = [answered EXCEPT ![r] = answer]
            /\ IF Raises(answer)
               THEN Become(r, "lost") /\ UNCHANGED planned
               ELSE Become(r, "planned") /\ planned' = [planned EXCEPT ![r] = CreatePlan(answer)]
      BY <2>1 DEF Plan
    <3>2. /\ answered' \in [Requests -> Answers \cup {NoAnswer}] /\ answered'[r] = answer
          /\ \A q \in Requests \ {r} : answered'[q] = answered[q]
      BY <3>1 DEF ServerInv, RunsOK
    <3>3. /\ DOMAIN planned' = Requests /\ planned' = [q \in Requests |-> planned'[q]]
          /\ \A q \in Requests : planned'[q] # NoPlan =>
                planned'[q].node.service \in {planned'[q].service, "none"}
      <4>1. CASE Raises(answer)
        BY <3>1, <4>1 DEF ServerInv, RunsOK
      <4>2. CASE ~ Raises(answer)
        <5>1. planned' = [planned EXCEPT ![r] = CreatePlan(answer)]
          BY <3>1, <4>2
        <5>2. /\ DOMAIN planned' = Requests /\ planned'[r] = CreatePlan(answer)
              /\ \A q \in Requests \ {r} : planned'[q] = planned[q]
          BY <5>1 DEF ServerInv, RunsOK
        <5>3. planned' = [q \in Requests |-> planned'[q]]
          BY <5>1 DEF ServerInv, RunsOK
        <5>4. ASSUME NEW q \in Requests, planned'[q] # NoPlan
              PROVE  planned'[q].node.service \in {planned'[q].service, "none"}
          <6>1. CASE q = r
            BY <5>2, <6>1, PlansFit
          <6>2. CASE q # r
            BY <5>2, <5>4, <6>2 DEF ServerInv, RunsOK
          <6> QED BY <6>1, <6>2
        <5> QED BY <5>2, <5>3, <5>4
      <4> QED BY <4>1, <4>2
    <3>4. RunsOK'
      BY <1>1, <3>2, <3>3 DEF ServerInv, RunsOK
    <3>5. state'[r] = "lost" => Raises(answer)
      BY <3>1 DEF Become, ServerInv, RunsOK
    <3>6. Accounted'
      <4> SUFFICES ASSUME NEW q \in Requests
                   PROVE  /\ state'[q] = "stored" => faultOf'[q] \in Ids(results') \cup dropped'
                          /\ state'[q] = "lost" =>
                                "null" \in {answered'[q].service, answered'[q].alert}
        BY DEF Accounted
      <4>1. CASE q = r
        BY <1>1, <3>2, <3>5, <4>1, PlansFit
      <4>2. CASE q # r
        BY <1>1, <3>2, <4>2 DEF ServerInv, Accounted
      <4> QED BY <4>1, <4>2
    <3> QED BY <3>4, <3>6
  <2>2. CASE HandleAsync(r) \/ HandleSync(r) \/ EndRun(r)
    <3>1. UNCHANGED <<answered, planned>> /\ state'[r] \notin {"stored", "lost"}
      BY <2>2 DEF HandleAsync, HandleSync, EndRun, Become, ServerInv, RunsOK
    <3>2. RunsOK'
      BY <1>1, <3>1 DEF ServerInv, RunsOK
    <3>3. Accounted'
      BY <1>1, <3>1 DEF ServerInv, Accounted
    <3> QED BY <3>2, <3>3
  <2> QED BY <2>1, <2>2
<1> QED BY <1>2, <1>3, <1>4 DEF ServerInv

\* The result of a run, as it is put into the store.
LEMMA StoredRows ==
  ASSUME ServerInv, NEW r \in Requests
  PROVE  LET new == [id |-> faultOf[r], age |-> stampAge[r]]
         IN  new \in Entry(FaultIds, ResultTtl) /\ new.id = faultOf[r] /\ new.age = stampAge[r]
<1>1. faultOf[r] \in FaultIds /\ stampAge[r] \in 0 .. ResultTtl
  BY DEF ServerInv, RunsOK
<1>2. stampAge[r] \in 0 .. ResultTtl + 1
  BY <1>1, Limits
<1> QED BY <1>1, <1>2 DEF Entry

LEMMA ResultStored ==
  ASSUME ServerInv, NEW r \in Requests, StoreResult(r)
  PROVE  ServerInv'
<1> DEFINE new == [id |-> faultOf[r], age |-> stampAge[r]]
           rows == Put(results, new)
<1>1. /\ state' = [state EXCEPT ![r] = "stored"] /\ CleanResults(rows)
      /\ stampAge' = [stampAge EXCEPT ![r] = 0]
      /\ UNCHANGED <<command, life, agent, held, cleaner, loop, faultOf, answered, planned, confirms>>
  BY DEF StoreResult, Become, process
<1>2. new \in Entry(FaultIds, ResultTtl) /\ new.id = faultOf[r]
  BY StoredRows
<1> HIDE DEF new
<1>3. Ordered(rows, FaultIds, ResultTtl) /\ Ids(rows) = Ids(results) \cup {new.id}
  BY <1>2, PutOrdered, Limits DEF ServerInv, StoresOK
<1> HIDE DEF rows
<1>4. /\ Ordered(results', FaultIds, ResultTtl) /\ Len(results') <= ResultMax
      /\ dropped' \subseteq FaultIds
      /\ dropped \subseteq dropped' /\ Ids(rows) \subseteq Ids(results') \cup dropped'
  BY <1>1, <1>3, ResultsCleaned
<1>5. StoresOK'
  BY <1>1, <1>4 DEF ServerInv, StoresOK
<1>6. RunsOK' /\ ProcessOK'
  <2>1. stampAge' \in [Requests -> 0 .. ResultTtl]
    BY <1>1, Limits DEF ServerInv, RunsOK
  <2>2. state' \in [Requests -> {"none", "queued", "planned", "stamped", "stored", "answered", "lost"}]
    BY <1>1 DEF ServerInv, RunsOK
  <2> QED BY <1>1, <2>1, <2>2 DEF ServerInv, RunsOK, ProcessOK
<1>7. Accounted'
  <2> SUFFICES ASSUME NEW q \in Requests
               PROVE  /\ state'[q] = "stored" => faultOf'[q] \in Ids(results') \cup dropped'
                      /\ state'[q] = "lost" =>
                            "null" \in {answered'[q].service, answered'[q].alert}
    BY DEF Accounted
  <2>1. CASE q = r
    <3>1. state'[q] = "stored" /\ faultOf'[q] = new.id
      BY <1>1, <1>2, <2>1 DEF ServerInv, RunsOK
    <3> QED BY <1>3, <1>4, <3>1
  <2>2. CASE q # r
    <3>1. state'[q] = state[q] /\ faultOf'[q] = faultOf[q] /\ answered'[q] = answered[q]
      BY <1>1, <2>2 DEF ServerInv, RunsOK
    <3>2. Ids(results) \cup dropped \subseteq Ids(results') \cup dropped'
      BY <1>3, <1>4
    <3> QED BY <3>1, <3>2 DEF ServerInv, Accounted
  <2> QED BY <2>1, <2>2
<1> QED BY <1>5, <1>6, <1>7 DEF ServerInv

\* The stores are cleaned or grow older; the runs stay where they are.
LEMMA StoresGoOn ==
  ASSUME ServerInv, UNCHANGED <<process, loop, state, faultOf, answered, planned>>,
         StoresOK', stampAge' \in [Requests -> 0 .. ResultTtl],
         Ids(results) \cup dropped \subseteq Ids(results') \cup dropped'
  PROVE  ServerInv'
<1>1. RunsOK' /\ ProcessOK'
  BY DEF ServerInv, RunsOK, ProcessOK, process
<1>2. Accounted'
  BY DEF ServerInv, Accounted
<1> QED BY <1>1, <1>2 DEF ServerInv

LEMMA ServerNextInv == ServerInv /\ [ServerNext]_serverVars => ServerInv'
<1> SUFFICES ASSUME ServerInv, [ServerNext]_serverVars PROVE ServerInv'
  OBVIOUS
<1>1. CASE Startup \/ Stop \/ Shutdown \/ Exit
  <2>1. UNCHANGED <<runState, stores>>
    BY <1>1 DEF Startup, Stop, Shutdown, Exit
  <2>2. ProcessOK'
    BY <1>1 DEF Startup, Stop, Shutdown, Exit, MakeAgent, ServerInv, ProcessOK
  <2>3. RunsOK' /\ StoresOK' /\ Accounted'
    BY <2>1 DEF runState, stores, ServerInv, RunsOK, StoresOK, Accounted
  <2> QED BY <2>2, <2>3 DEF ServerInv
<1>2. ASSUME NEW r \in Requests, HandleAsync(r) \/ HandleSync(r) \/ Plan(r) \/ EndRun(r)
      PROVE  ServerInv'
  <2>1. UNCHANGED stores
    BY <1>2 DEF HandleAsync, HandleSync, Plan, EndRun
  <2> QED BY <1>2, <2>1, RunGoesOn
<1>3. ASSUME NEW r \in Requests, StoreResult(r) PROVE ServerInv'
  BY <1>3, ResultStored
<1>4. CASE GetFaultStatus
  <2>1. CleanResults(results) /\ UNCHANGED <<process, runState, confirms>>
    BY <1>4 DEF GetFaultStatus
  <2>2. Ordered(results, FaultIds, ResultTtl)
    BY DEF ServerInv, StoresOK
  <2>3. /\ Ordered(results', FaultIds, ResultTtl) /\ Len(results') <= ResultMax
        /\ dropped' \subseteq FaultIds
        /\ dropped \subseteq dropped' /\ Ids(results) \subseteq Ids(results') \cup dropped'
    BY <2>1, <2>2, ResultsCleaned
  <2>4. StoresOK'
    BY <2>1, <2>3 DEF ServerInv, StoresOK
  <2>5. stampAge' \in [Requests -> 0 .. ResultTtl]
    BY <2>1 DEF runState, ServerInv, RunsOK
  <2>6. Ids(results) \cup dropped \subseteq Ids(results') \cup dropped'
    BY <2>3
  <2> QED BY <2>1, <2>4, <2>5, <2>6, StoresGoOn DEF runState
<1>5. ASSUME NEW o \in Operations, SubmitConfirmation(o) PROVE ServerInv'
  <2> DEFINE clean == Cleanup(confirms, ConfirmTtl, ConfirmMax)
             new == [id |-> o, age |-> 0]
  <2>1. /\ confirms' = Put(clean, new)
        /\ UNCHANGED <<process, runState, results, dropped>>
    BY <1>5 DEF SubmitConfirmation
  <2>2. new \in Entry(Operations, ConfirmTtl)
    BY Limits DEF Entry
  <2>3. Ordered(clean, Operations, ConfirmTtl) /\ Len(clean) <= ConfirmMax
    BY Limits, CleanupOrdered DEF ServerInv, StoresOK, Cleaned
  <2>4. Len(clean) \in Nat
    BY <2>3, Limits, EntryFacts
  <2> HIDE DEF clean, new
  <2>5. /\ Ordered(confirms', Operations, ConfirmTtl)
        /\ Len(confirms') \in Nat /\ Len(confirms') <= Len(clean) + 1
    BY <2>1, <2>2, <2>3, Limits, PutOrdered
  <2>6. Len(confirms') <= ConfirmMax + 1
    BY <2>3, <2>4, <2>5, Limits
  <2>7. StoresOK'
    BY <2>1, <2>5, <2>6 DEF ServerInv, StoresOK
  <2>8. stampAge' \in [Requests -> 0 .. ResultTtl]
    BY <2>1 DEF runState, ServerInv, RunsOK
  <2> QED BY <2>1, <2>7, <2>8, StoresGoOn DEF runState
<1>6. CASE TimePasses
  <2>1. /\ \A r \in Requests : stampAge[r] < ResultTtl
        /\ results' = Older(results, ResultTtl) /\ confirms' = Older(confirms, ConfirmTtl)
        /\ stampAge' = [r \in Requests |-> IF state[r] = "stamped" THEN stampAge[r] + 1 ELSE 0]
        /\ UNCHANGED <<process, loop, state, faultOf, answered, planned, dropped>>
    BY <1>6 DEF TimePasses
  <2>2. /\ Ordered(results', FaultIds, ResultTtl) /\ Len(results') = Len(results)
        /\ Ids(results') = Ids(results)
    BY <2>1, Limits, OlderOrdered DEF ServerInv, StoresOK
  <2>3. Ordered(confirms', Operations, ConfirmTtl) /\ Len(confirms') = Len(confirms)
    BY <2>1, Limits, OlderOrdered DEF ServerInv, StoresOK
  <2>4. StoresOK'
    BY <2>1, <2>2, <2>3 DEF ServerInv, StoresOK
  <2>5. stampAge' \in [Requests -> 0 .. ResultTtl]
    <3> SUFFICES ASSUME NEW r \in Requests
                 PROVE  (IF state[r] = "stamped" THEN stampAge[r] + 1 ELSE 0) \in 0 .. ResultTtl
      BY <2>1
    <3>1. stampAge[r] \in 0 .. ResultTtl /\ stampAge[r] < ResultTtl
      BY <2>1 DEF ServerInv, RunsOK
    <3> QED BY <3>1, Limits
  <2> QED BY <2>1, <2>2, <2>4, <2>5, StoresGoOn
<1>7. CASE UNCHANGED serverVars
  BY <1>7 DEF serverVars, process, runState, stores, ServerInv, ProcessOK, RunsOK, StoresOK, Accounted
<1> QED BY <1>1, <1>2, <1>3, <1>4, <1>5, <1>6, <1>7 DEF ServerNext, Work

LEMMA AlwaysServerInv == ServerSpec => []ServerInv
  BY ServerInitInv, ServerNextInv, PTL DEF ServerSpec

------------------------------------------------------------------------------
(* What follows                                                             *)

\* Whatever requests, decisions and cleanups come in whatever order, and
\* however long: no variable leaves its type.
THEOREM ServerTypes == ServerSpec => []ServerTypeOK
<1>1. ServerInv => ServerTypeOK
  BY DEF ServerInv, ProcessOK, RunsOK, StoresOK, Ordered, ServerTypeOK
<1> QED BY <1>1, AlwaysServerInv, PTL

\* Neither store passes its limit, the decisions by more than one, and no id has
\* two entries: for any limits and lifetimes, in whatever order results that
\* were stamped earlier are stored.
THEOREM StoresStayBounded == ServerSpec => []StoresBounded
<1>1. ServerInv => StoresBounded
  <2> SUFFICES ASSUME ServerInv PROVE StoresBounded
    OBVIOUS
  <2>1. Cardinality(Ids(results)) = Len(results)
    BY IdsCount, Limits DEF ServerInv, StoresOK
  <2>2. Cardinality(Ids(confirms)) = Len(confirms)
    BY IdsCount, Limits DEF ServerInv, StoresOK
  <2> QED BY <2>1, <2>2 DEF ServerInv, StoresOK, StoresBounded
<1> QED BY <1>1, AlwaysServerInv, PTL

\* No result is forgotten without a reason: a run that ended has its result in
\* the store or it was dropped by a cleanup, and a run that was lost had an
\* answer with a null.
THEOREM ResultsAccountedFor == ServerSpec => []ResultAccounted
<1>1. ServerInv => ResultAccounted
  BY DEF ServerInv, Accounted, ResultAccounted, Status
<1> QED BY <1>1, AlwaysServerInv, PTL

\* What a step takes from the results was too old, or as many as the limit are
\* left and none is older: a run whose result was stamped before the others'
\* and is stored after them never pushes a younger one out.
THEOREM OldResultsGoFirst == ServerSpec => DroppedWereOld
<1> DEFINE Dropping(i) ==
        results[i].id \notin Ids(results') =>
              \/ results[i].age > ResultTtl
              \/ /\ Len(results') = ResultMax
                 /\ \A j \in DOMAIN results' : results'[j].age <= results[i].age
           Step == \A i \in DOMAIN results : Dropping(i)
<1>1. ServerInv /\ [ServerNext]_serverVars => [Step]_serverVars
  <2> SUFFICES ASSUME ServerInv, ServerNext, NEW i \in DOMAIN results,
                      results[i].id \notin Ids(results')
               PROVE  \/ results[i].age > ResultTtl
                      \/ /\ Len(results') = ResultMax
                         /\ \A j \in DOMAIN results' : results'[j].age <= results[i].age
    OBVIOUS
  <2>1. Ordered(results, FaultIds, ResultTtl) /\ results[i].id \in Ids(results)
    BY DEF ServerInv, StoresOK, Ids
  <2>2. ~ UNCHANGED results
    BY <2>1
  <2>3. CASE GetFaultStatus
    BY <2>1, <2>3, ResultsCleaned DEF GetFaultStatus
  <2>4. CASE TimePasses
    <3>1. Ids(results') = Ids(results)
      BY <2>1, <2>4, Limits, OlderOrdered DEF TimePasses
    <3> QED BY <2>1, <3>1
  <2>5. ASSUME NEW r \in Requests, StoreResult(r)
        PROVE  \/ results[i].age > ResultTtl
               \/ /\ Len(results') = ResultMax
                  /\ \A j \in DOMAIN results' : results'[j].age <= results[i].age
    <3> DEFINE new == [id |-> faultOf[r], age |-> stampAge[r]]
               rows == Put(results, new)
    <3>1. CleanResults(rows)
      BY <2>5 DEF StoreResult
    <3>2. new \in Entry(FaultIds, ResultTtl) /\ new.age = stampAge[r] /\ stampAge[r] \in 0 .. ResultTtl
      BY StoredRows DEF ServerInv, RunsOK
    <3> HIDE DEF new
    <3>3. /\ Ordered(rows, FaultIds, ResultTtl) /\ Len(rows) \in Nat
          /\ new.id \in Ids(results) => Len(rows) <= Len(results)
          /\ \E k \in DOMAIN rows : rows[k] = new
          /\ \A m \in DOMAIN results : results[m].id # new.id =>
                \E k \in DOMAIN rows : rows[k] = results[m]
      BY <2>1, <3>2, Limits, PutOrdered
    <3> HIDE DEF rows
    <3>4. \A k \in DOMAIN rows : rows[k].id \notin Ids(results') =>
             \/ rows[k].age > ResultTtl
             \/ /\ Len(results') = ResultMax /\ Len(rows) > ResultMax
                /\ \A j \in DOMAIN results' : results'[j].age <= rows[k].age
      BY <3>1, <3>3, ResultsCleaned
    <3>5. CASE results[i].id # new.id
      <4>1. PICK k \in DOMAIN rows : rows[k] = results[i]
        BY <3>3, <3>5
      <4> QED BY <3>4, <4>1
    <3>6. CASE results[i].id = new.id
      <4>1. PICK k \in DOMAIN rows : rows[k] = new
        BY <3>3
      <4>2. Len(rows) <= Len(results) /\ Len(results) <= ResultMax /\ Len(results) \in Nat
        BY <2>1, <3>3, <3>6, Limits, EntryFacts DEF ServerInv, StoresOK
      <4>3. ~ (Len(rows) > ResultMax)
        BY <3>3, <4>2, Limits
      <4>4. rows[k].id \notin Ids(results')
        BY <3>6, <4>1
      <4>5. ~ (rows[k].age > ResultTtl)
        BY <3>2, <4>1, Limits
      <4> QED BY <3>4, <4>3, <4>4, <4>5
    <3> QED BY <3>5, <3>6
  <2> QED
    BY <2>2, <2>3, <2>4, <2>5
    DEF ServerNext, Work, Startup, Stop, Shutdown, Exit, HandleAsync, HandleSync, Plan, EndRun,
        SubmitConfirmation, stores, runState
<1>2. ServerSpec => [][Step]_serverVars
  <2>1. ServerSpec => [][ServerNext]_serverVars
    BY PTL DEF ServerSpec
  <2> QED BY <1>1, <2>1, AlwaysServerInv, PTL
<1> QED BY <1>2 DEF DroppedWereOld

------------------------------------------------------------------------------
(* The knowledge base                                                       *)

\* From the moment it is in the collection a lesson can be found, or was wiped
\* from it; once the agent was told, its file was written.
Kept ==
    /\ lesson \in [Lessons -> {"none", "added", "stored", "failed"}]
    /\ \A d \in Lessons :
          /\ lesson[d] \in {"added", "stored"} => Findable(d) \/ d \in wiped
          /\ lesson[d] = "stored" => d \in disk \cup removed

\* Where a document can be found, in terms of the entries.
LEMMA FindableEntry ==
  /\ \A d : Findable(d) <=> \E e \in entries : e[2] = d
  /\ \A d : Findable(d)' <=> \E e \in entries' : e[2] = d
  BY DEF Findable, EntriesOf

LEMMA KeptInit == LongTermInit => Kept
  BY DEF LongTermInit, Kept

\* A step that leaves the lessons and the files alone keeps what is kept, if
\* no lesson gets lost between entries and wiped.
LEMMA StoreKept ==
  ASSUME Kept, UNCHANGED store,
         \A d \in Lessons : Findable(d) \/ d \in wiped => Findable(d)' \/ d \in wiped'
  PROVE  Kept'
  BY DEF Kept, store

LEMMA KeptNext == Kept /\ [LongTermNext]_knowledgeVars => Kept'
<1> SUFFICES ASSUME Kept, [LongTermNext]_knowledgeVars PROVE Kept'
  OBVIOUS
<1>1. ASSUME NEW c \in Lessons, AddExperience(c) PROVE Kept'
  <2>1. CASE /\ entries' = entries \cup {<<"dynamic", c>>} /\ Reach(c, "added")
             /\ wiped' = wiped \ {c}
    <3>1. lesson' = [lesson EXCEPT ![c] = "added"] /\ UNCHANGED <<disk, removed>>
      BY <1>1, <2>1 DEF AddExperience, Reach
    <3>2. Findable(c)' /\ \A d \in Lessons : Findable(d) => Findable(d)'
      <4>1. <<"dynamic", c>> \in entries' /\ <<"dynamic", c>>[2] = c
        BY <2>1
      <4> QED BY <2>1, <4>1, FindableEntry
    <3>3. ASSUME NEW d \in Lessons
          PROVE  /\ lesson'[d] \in {"added", "stored"} => Findable(d)' \/ d \in wiped'
                 /\ lesson'[d] = "stored" => d \in disk' \cup removed'
      <4>1. CASE d = c
        BY <3>1, <3>2, <4>1 DEF Kept
      <4>2. CASE d # c
        BY <2>1, <3>1, <3>2, <4>2 DEF Kept
      <4> QED BY <4>1, <4>2
    <3> QED BY <3>1, <3>3 DEF Kept
  <2>2. CASE UNCHANGED <<entries, wiped>> /\ Reach(c, "failed")
    <3>1. lesson' = [lesson EXCEPT ![c] = "failed"] /\ UNCHANGED <<disk, removed>>
      BY <1>1, <2>2 DEF AddExperience, Reach
    <3>2. \A d \in Lessons : Findable(d)' <=> Findable(d)
      BY <2>2, FindableEntry
    <3> QED BY <2>2, <3>1, <3>2 DEF Kept
  <2> QED BY <1>1, <2>1, <2>2 DEF AddExperience
<1>2. ASSUME NEW c \in Lessons, SaveToMarkdown(c) PROVE Kept'
  <2>1. /\ lesson[c] = "added" /\ UNCHANGED <<removed, wiped>>
        /\ \A d \in Lessons : Findable(d)' <=> Findable(d)
    BY <1>2, FindableEntry DEF SaveToMarkdown
  <2>2. disk \subseteq disk'
    BY <1>2 DEF SaveToMarkdown
  <2>3. \/ lesson' = [lesson EXCEPT ![c] = "stored"] /\ c \in disk'
        \/ lesson' = [lesson EXCEPT ![c] = "failed"]
    BY <1>2 DEF SaveToMarkdown, Reach
  <2> QED BY <2>1, <2>2, <2>3 DEF Kept
<1>3. CASE BeginLoad \/ ListFiles \/ FormatContext
  <2>1. UNCHANGED <<entries, store, wiped>>
    BY <1>3 DEF BeginLoad, ListFiles, FormatContext
  <2>2. \A d \in Lessons : Findable(d)' <=> Findable(d)
    BY <2>1, FindableEntry
  <2> QED BY <2>1, <2>2, StoreKept
<1>4. CASE DeleteCollection
  <2>1. /\ entries' = entries \ EntriesOf(In(Documents, Head(toLoad)))
        /\ wiped' = wiped \cup In(Documents, Head(toLoad))
        /\ UNCHANGED store
    BY <1>4 DEF DeleteCollection
  <2>2. ASSUME NEW d \in Lessons, Findable(d), ~ Findable(d)' PROVE d \in wiped'
    <3>1. PICK e \in entries : e[2] = d
      BY <2>2, FindableEntry
    <3>2. e \notin entries'
      BY <2>2, <3>1, FindableEntry
    <3>3. e[2] \in In(Documents, Head(toLoad))
      BY <2>1, <3>2 DEF EntriesOf
    <3> QED BY <2>1, <3>1, <3>3
  <2> QED BY <2>1, <2>2, StoreKept
<1>5. CASE AddDocuments
  <2>1. /\ UNCHANGED store
        /\ \/ entries' = entries \cup ({"file"} \X listing) /\ wiped' = wiped \ listing
           \/ UNCHANGED <<entries, wiped>>
    BY <1>5 DEF AddDocuments
  <2>2. \A d \in Lessons : Findable(d) => Findable(d)'
    BY <2>1, FindableEntry
  <2>3. ASSUME NEW d \in Lessons, d \in wiped, d \notin wiped' PROVE Findable(d)'
    <3>1. <<"file", d>> \in entries'
      BY <2>1, <2>3
    <3> QED BY <3>1, FindableEntry
  <2> QED BY <2>1, <2>2, <2>3, StoreKept
<1>6. ASSUME NEW m \in Documents, WriteFile(m) \/ RemoveFile(m) PROVE Kept'
  <2>1. /\ UNCHANGED <<lesson, wiped>>
        /\ disk \cup removed \subseteq disk' \cup removed'
    BY <1>6 DEF WriteFile, RemoveFile
  <2>2. \A d \in Lessons : Findable(d)' <=> Findable(d)
    BY <1>6, FindableEntry DEF WriteFile, RemoveFile
  <2> QED BY <2>1, <2>2 DEF Kept
<1>7. CASE Restart
  <2>1. /\ lesson' = [d \in Lessons |-> IF lesson[d] = "added" THEN "failed" ELSE lesson[d]]
        /\ UNCHANGED <<disk, removed, wiped>>
        /\ \A d \in Lessons : Findable(d)' <=> Findable(d)
    BY <1>7, FindableEntry DEF Restart
  <2> QED BY <2>1 DEF Kept
<1>8. CASE UNCHANGED knowledgeVars
  <2>1. \A d \in Lessons : Findable(d)' <=> Findable(d)
    BY <1>8, FindableEntry DEF knowledgeVars
  <2> QED BY <1>8, <2>1, StoreKept DEF knowledgeVars, store
<1> QED
  BY <1>1, <1>2, <1>3, <1>4, <1>5, <1>6, <1>7, <1>8 DEF LongTermNext, Documents

\* Knowledge that the agent was told is stored lies in a file until people
\* remove it, and can be found unless a forced load deleted it and no load has
\* added it since: whatever fails, is killed or falls between the steps.
THEOREM KnowledgeIsKept == LongTermSpec => []KnowledgeSurvives
<1>1. Kept => KnowledgeSurvives
  BY DEF Kept, KnowledgeSurvives
<1> QED BY <1>1, KeptInit, KeptNext, PTL DEF LongTermSpec

------------------------------------------------------------------------------
(* Types                                                                    *)

\* Where the load is, it has a category left to do, and files of it that it has
\* read; before it has read them, none.
Loads ==
    /\ toLoad \in Seq({Categories[i] : i \in DOMAIN Categories})
    /\ loading # "idle" => toLoad # << >>
    /\ listing \subseteq Documents
    /\ loading \in {"idle", "list"} => listing = {}
    /\ loading # "idle" => \A d \in listing : CategoryOf[d] = Head(toLoad)

LEMMA LoadTypes ==
  ASSUME LongTermTypeOK, Loads, [LongTermNext]_knowledgeVars
  PROVE  Loads' /\ loading' \in {"idle", "list", "delete", "add"} /\ force' \in BOOLEAN
<1> DEFINE Names == {Categories[i] : i \in DOMAIN Categories}
<1>0. Categories \in Seq(Names) /\ Categories # << >> /\ << >> \in Seq(Names)
  BY LongTermAssumption
<1> HIDE DEF Names
<1>n. ASSUME NextCategory, loading # "idle"
      PROVE  Loads' /\ loading' \in {"idle", "list"}
  <2>1. toLoad \in Seq(Names) /\ toLoad # << >>
    BY <1>n DEF Loads, Names
  <2>2. Len(toLoad) \in Nat /\ Tail(toLoad) \in Seq(Names) /\ Len(Tail(toLoad)) = Len(toLoad) - 1
    BY <2>1, HeadTailProperties
  <2>3. ASSUME Len(toLoad) # 1 PROVE Tail(toLoad) # << >>
    <3>1. Len(Tail(toLoad)) # 0
      BY <2>2, <2>3
    <3>2. Len(<< >>) = 0
      OBVIOUS
    <3> QED BY <3>1, <3>2
  <2>4. toLoad' = Tail(toLoad) /\ listing' = {} /\ loading' = IF Len(toLoad) = 1 THEN "idle" ELSE "list"
    BY <1>n DEF NextCategory
  <2> QED BY <2>2, <2>3, <2>4 DEF Loads, Names
<1>1. ASSUME NEW c \in Lessons, AddExperience(c) \/ SaveToMarkdown(c) PROVE UNCHANGED load
  <2>1. AddExperience(c) => UNCHANGED load
    BY Zenon DEF AddExperience
  <2>2. SaveToMarkdown(c) => UNCHANGED load
    BY Zenon DEF SaveToMarkdown
  <2> QED BY <1>1, <2>1, <2>2
<1>2. CASE BeginLoad
  BY <1>0, <1>2 DEF BeginLoad, Loads, Names, LongTermTypeOK
<1>3. CASE ListFiles
  <2>1. PICK files \in SUBSET In(disk, Head(toLoad)) :
          IF files = {}
          THEN NextCategory
          ELSE /\ listing' = files
               /\ loading' = IF force THEN "delete" ELSE "add"
               /\ UNCHANGED toLoad
    BY <1>3 DEF ListFiles
  <2>2. CASE files = {}
    BY <1>3, <1>n, <2>1, <2>2 DEF ListFiles, LongTermTypeOK
  <2>3. CASE files # {}
    <3>1. \A d \in files : d \in Documents /\ CategoryOf[d] = Head(toLoad)
      BY DEF In, LongTermTypeOK
    <3> QED BY <1>3, <2>1, <2>3, <3>1 DEF ListFiles, Loads, LongTermTypeOK
  <2> QED BY <2>2, <2>3
<1>4. CASE DeleteCollection
  BY <1>4 DEF DeleteCollection, Loads, LongTermTypeOK
<1>5. CASE AddDocuments
  BY <1>5, <1>n DEF AddDocuments, LongTermTypeOK
<1>6. ASSUME NEW m \in Documents, WriteFile(m) \/ RemoveFile(m) PROVE UNCHANGED load
  BY <1>6 DEF WriteFile, RemoveFile
<1>7. CASE Restart
  BY <1>0, <1>7 DEF Restart, Loads, Names, LongTermTypeOK
<1>8. CASE FormatContext \/ UNCHANGED knowledgeVars
  <2>1. UNCHANGED load
    BY <1>8 DEF FormatContext, knowledgeVars, load
  <2> QED BY <2>1 DEF load, Loads, LongTermTypeOK
<1>9. CASE UNCHANGED load
  BY <1>9 DEF load, Loads, LongTermTypeOK
<1> QED
  BY <1>1, <1>2, <1>3, <1>4, <1>5, <1>6, <1>7, <1>8, <1>9 DEF LongTermNext, Documents

\* What a search gives of one category are at most Each of its entries.
LEMMA SearchGivesFew ==
  ASSUME LongTermTypeOK, NEW c, NEW found \in Search(c)
  PROVE  /\ IsFiniteSet(found) /\ Cardinality(found) <= Each
         /\ \A e \in found : CategoryOf[e[2]] = c
<1>1. Each \in Nat /\ TopK \in Nat
  BY LongTermAssumption DEF Each
<1>2. CASE found = {}
  BY <1>1, <1>2, FS_EmptySet
<1>3. CASE \E B \in BestEntries(EntriesOf(In(Documents, c)), Each) :
              found = {b \in B : Score[b[2]] >= Threshold}
  <2>1. PICK B \in BestEntries(EntriesOf(In(Documents, c)), Each) :
              found = {b \in B : Score[b[2]] >= Threshold}
    BY <1>3
  <2> DEFINE S == EntriesOf(In(Documents, c))
  <2>2. B \in SUBSET S /\ Cardinality(B) = IF Cardinality(S) < Each THEN Cardinality(S) ELSE Each
    BY <2>1 DEF BestEntries
  <2>3. IsFiniteSet(S) /\ Cardinality(S) \in Nat
    <3>1. IsFiniteSet({"dynamic", "file"})
      <4>1. IsFiniteSet({"dynamic"}) /\ IsFiniteSet({"file"})
        BY FS_Singleton
      <4>2. IsFiniteSet({"dynamic"} \cup {"file"})
        BY <4>1, FS_Union
      <4>3. {"dynamic", "file"} = {"dynamic"} \cup {"file"}
        OBVIOUS
      <4> QED BY <4>2, <4>3
    <3>2. IsFiniteSet(Entries)
      BY <3>1, FS_Product, LongTermAssumption DEF Entries
    <3>3. S \subseteq Entries
      BY DEF EntriesOf, LongTermTypeOK
    <3>4. IsFiniteSet(S)
      BY <3>2, <3>3, FS_Subset
    <3> QED BY <3>4, FS_CardinalityType
  <2>4. \A e \in S : CategoryOf[e[2]] = c
    BY DEF EntriesOf, In
  <2> HIDE DEF S
  <2>5. IsFiniteSet(B) /\ Cardinality(B) \in Nat /\ Cardinality(B) <= Each
    <3>1. IsFiniteSet(B)
      BY <2>2, <2>3, FS_Subset
    <3>2. Cardinality(B) \in Nat
      BY <3>1, FS_CardinalityType
    <3> QED BY <1>1, <2>2, <2>3, <3>1, <3>2
  <2>6. found \in SUBSET B
    BY <2>1
  <2>7. IsFiniteSet(found) /\ Cardinality(found) <= Cardinality(B) /\ Cardinality(found) \in Nat
    <3>1. IsFiniteSet(found) /\ Cardinality(found) <= Cardinality(B)
      BY <2>5, <2>6, FS_Subset
    <3> QED BY <3>1, FS_CardinalityType
  <2> QED BY <1>1, <2>2, <2>4, <2>5, <2>6, <2>7
<1> QED BY <1>2, <1>3 DEF Search

LEMMA GivenTypes ==
  ASSUME LongTermTypeOK, FormatContext
  PROVE  /\ given' \subseteq Entries
         /\ \A i \in DOMAIN Categories :
               Cardinality({e \in given' : CategoryOf[e[2]] = Categories[i]}) <= Each
<1>1. PICK found \in [DOMAIN Categories -> SUBSET entries] :
        /\ \A i \in DOMAIN Categories : found[i] \in Search(Categories[i])
        /\ given' = UNION {found[i] : i \in DOMAIN Categories}
  BY DEF FormatContext
<1>2. \A e : e \in given' <=> \E i \in DOMAIN Categories : e \in found[i]
  BY <1>1
<1>3. given' \subseteq Entries
  BY <1>1, <1>2 DEF LongTermTypeOK
<1>4. ASSUME NEW i \in DOMAIN Categories
      PROVE  Cardinality({e \in given' : CategoryOf[e[2]] = Categories[i]}) <= Each
  <2>1. found[i] \in Search(Categories[i])
    BY <1>1
  <2>2. IsFiniteSet(found[i]) /\ Cardinality(found[i]) <= Each
    BY <2>1, SearchGivesFew
  <2> DEFINE G == {e \in given' : CategoryOf[e[2]] = Categories[i]}
  <2>3. ASSUME NEW e \in G PROVE e \in found[i]
    <3>1. PICK j \in DOMAIN Categories : e \in found[j]
      BY <1>2
    <3>2. found[j] \in Search(Categories[j])
      BY <1>1
    <3>3. CategoryOf[e[2]] = Categories[j]
      BY <3>1, <3>2, SearchGivesFew
    <3>4. j = i
      BY <3>3, LongTermAssumption
    <3> QED BY <3>1, <3>4
  <2> HIDE DEF G
  <2>4. G \subseteq found[i]
    BY <2>3
  <2>5. Cardinality(G) <= Cardinality(found[i]) /\ IsFiniteSet(G)
    BY <2>2, <2>4, FS_Subset
  <2>6. Cardinality(G) \in Nat /\ Cardinality(found[i]) \in Nat /\ Each \in Nat
    BY <2>2, <2>5, FS_CardinalityType, LongTermAssumption DEF Each
  <2>7. Cardinality(G) <= Each
    BY <2>2, <2>5, <2>6
  <2> QED BY <2>7 DEF G
<1> QED BY <1>3, <1>4

KnowledgeInv == LongTermTypeOK /\ Loads /\ Kept

LEMMA NothingGiven ==
  Cardinality({}) <= Each
<1>1. Each \in Nat
  BY LongTermAssumption DEF Each
<1> QED BY <1>1, FS_EmptySet

LEMMA KnowledgeInit == LongTermInit => KnowledgeInv
<1> SUFFICES ASSUME LongTermInit PROVE KnowledgeInv
  OBVIOUS
<1>1. \A i \in DOMAIN Categories : {e \in given : CategoryOf[e[2]] = Categories[i]} = {}
  BY DEF LongTermInit
<1>2. LongTermTypeOK
  BY <1>1, NothingGiven DEF LongTermInit, LongTermTypeOK
<1>3. Loads
  BY DEF LongTermInit, Loads
<1> QED BY <1>2, <1>3, KeptInit DEF KnowledgeInv

LEMMA KnowledgeNext == KnowledgeInv /\ [LongTermNext]_knowledgeVars => KnowledgeInv'
<1> SUFFICES ASSUME KnowledgeInv, [LongTermNext]_knowledgeVars PROVE KnowledgeInv'
  OBVIOUS
<1>1. Loads' /\ loading' \in {"idle", "list", "delete", "add"} /\ force' \in BOOLEAN
  BY LoadTypes DEF KnowledgeInv
<1>2. Kept'
  BY KeptNext DEF KnowledgeInv
<1>3. entries' \subseteq Entries
  <2>1. \A d \in Documents : <<"dynamic", d>> \in Entries /\ <<"file", d>> \in Entries
    BY DEF Entries
  <2>2. \A c \in Lessons : c \in Documents
    BY DEF Documents
  <2>3. listing \subseteq Documents /\ entries \subseteq Entries
    BY DEF KnowledgeInv, LongTermTypeOK
  <2>4. \/ entries' \subseteq entries
        \/ \E c \in Lessons : entries' = entries \cup {<<"dynamic", c>>}
        \/ entries' = entries \cup ({"file"} \X listing)
    BY DEF LongTermNext, AddExperience, SaveToMarkdown, BeginLoad, ListFiles, DeleteCollection,
           AddDocuments, FormatContext, WriteFile, RemoveFile, Restart, knowledgeVars
  <2>5. CASE entries' \subseteq entries
    BY <2>3, <2>5
  <2>6. ASSUME NEW c \in Lessons, entries' = entries \cup {<<"dynamic", c>>}
        PROVE  entries' \subseteq Entries
    BY <2>1, <2>2, <2>3, <2>6
  <2>7. CASE entries' = entries \cup ({"file"} \X listing)
    <3>1. {"file"} \X listing \subseteq Entries
      BY <2>3 DEF Entries
    <3> QED BY <2>3, <2>7, <3>1
  <2> QED BY <2>4, <2>5, <2>6, <2>7
<1>4. disk' \subseteq Documents /\ removed' \subseteq Documents /\ wiped' \subseteq Documents
  <2>1. /\ disk \subseteq Documents /\ removed \subseteq Documents /\ wiped \subseteq Documents
        /\ Lessons \subseteq Documents /\ Manuals \subseteq Documents
        /\ \A c : In(Documents, c) \subseteq Documents
    BY DEF KnowledgeInv, LongTermTypeOK, Documents, In
  <2> QED BY <2>1 DEF LongTermNext, AddExperience, SaveToMarkdown, BeginLoad, ListFiles, DeleteCollection,
           AddDocuments, FormatContext, WriteFile, RemoveFile, Restart, knowledgeVars, store
<1>5. /\ given' \subseteq Entries
      /\ \A i \in DOMAIN Categories :
            Cardinality({e \in given' : CategoryOf[e[2]] = Categories[i]}) <= Each
  <2>1. CASE FormatContext
    BY <2>1, GivenTypes DEF KnowledgeInv
  <2>2. CASE given' = given
    BY <2>2 DEF KnowledgeInv, LongTermTypeOK
  <2>3. CASE given' = {}
    <3>1. \A i \in DOMAIN Categories : {e \in given' : CategoryOf[e[2]] = Categories[i]} = {}
      BY <2>3
    <3> QED BY <2>3, <3>1, NothingGiven
  <2> QED BY <2>1, <2>2, <2>3
        DEF LongTermNext, AddExperience, SaveToMarkdown, BeginLoad, ListFiles, DeleteCollection,
            AddDocuments, WriteFile, RemoveFile, Restart, knowledgeVars
<1>6. LongTermTypeOK'
  <2>1. (loading # "idle" => toLoad # << >> /\ listing \subseteq In(listing, Head(toLoad)))'
    BY <1>1 DEF Loads, In
  <2>2. (lesson \in [Lessons -> {"none", "added", "stored", "failed"}])'
    BY <1>2 DEF Kept
  <2>3. listing' \subseteq Documents
    BY <1>1 DEF Loads
  <2> QED BY <1>1, <1>3, <1>4, <1>5, <2>1, <2>2, <2>3 DEF LongTermTypeOK
<1> QED BY <1>1, <1>2, <1>6 DEF KnowledgeInv

\* A load has a category to do as long as it runs, and what the agent is given
\* is no more than its share of each category, however a forced load or a crash
\* falls between the steps.
THEOREM KnowledgeTypes == LongTermSpec => []LongTermTypeOK
<1>1. KnowledgeInv => LongTermTypeOK
  BY DEF KnowledgeInv
<1> QED BY <1>1, KnowledgeInit, KnowledgeNext, PTL DEF LongTermSpec

------------------------------------------------------------------------------
(* Both together                                                            *)

partVars == <<part, serverVars, knowledgeVars>>

\* All that the server and the knowledge base remember keeps its types.
THEOREM ServiceTypes == MCSpec => []ServiceTypeOK
<1>1. MCInit => ServerInv /\ KnowledgeInv
  BY ServerInitInv, KnowledgeInit DEF MCInit
<1>2. ServerInv /\ KnowledgeInv /\ [MCNext]_partVars => (ServerInv /\ KnowledgeInv)'
  <2> SUFFICES ASSUME ServerInv, KnowledgeInv, [MCNext]_partVars
               PROVE  ServerInv' /\ KnowledgeInv'
    OBVIOUS
  <2>1. [ServerNext]_serverVars /\ [LongTermNext]_knowledgeVars
    BY Zenon DEF MCNext, ServerStep, KnowledgeStep, partVars
  <2> QED BY <2>1, ServerNextInv, KnowledgeNext
<1>3. ServerInv => ServerTypeOK
  BY DEF ServerInv, ProcessOK, RunsOK, StoresOK, Ordered, ServerTypeOK
<1>4. ServerInv /\ KnowledgeInv => ServiceTypeOK
  BY <1>3 DEF KnowledgeInv, ServiceTypeOK
<1> QED BY <1>1, <1>2, <1>4, PTL DEF MCSpec, partVars

==============================================================================

------------------------- MODULE UndoRedoStack_proofs -------------------------
(***************************************************************************)
(* The invariant IInv of UndoRedoInv is inductive, for any objects,        *)
(* addresses, shapes and any bound on the time.                            *)
(***************************************************************************)
EXTENDS UndoRedoInv, FiniteSetTheorems, SequenceTheorems, TLAPS

-----------------------------------------------------------------------------
(* Counting: a set of places that goes down to 1 is an interval, and the   *)
(* places of any set can be numbered in order.                             *)
LEMMA LeastElement ==
  ASSUME NEW S \in SUBSET Nat, S # {}
  PROVE  \E n \in S : \A m \in S : n <= m
<1>1. \E n \in S : \A m \in S : ~(<<m, n>> \in OpToRel(<, Nat))
  BY NatLessThanWellFounded, WFMin, Zenon
<1>2. PICK n \in S : \A m \in S : ~(<<m, n>> \in OpToRel(<, Nat))
  BY <1>1
<1>3. ASSUME NEW m \in S PROVE n <= m
  <2>1. ~(m < n)
    BY <1>2 DEF OpToRel
  <2> QED
    BY <2>1
<1> QED
  BY <1>3

LEMMA CountPrefix ==
  ASSUME NEW n \in Nat, NEW S \in SUBSET (1 .. n), \A i \in S : \A j \in 1 .. i : j \in S
  PROVE  /\ Cardinality(S) \in 0 .. n
         /\ S = 1 .. Cardinality(S)
<1> DEFINE T == {i \in Nat : i # 0 /\ i \notin S}
<1>1. n + 1 \in T
  OBVIOUS
<1>2. PICK m \in T : \A i \in T : m <= i
  BY <1>1, LeastElement
<1>3. m \in 1 .. n + 1
  BY <1>1, <1>2
<1>4. S = 1 .. m - 1
  <2>1. ASSUME NEW i \in S PROVE i \in 1 .. m - 1
    <3>1. ~(m <= i)
      BY <1>2, <1>3
    <3> QED
      BY <3>1, <1>3
  <2>2. ASSUME NEW i \in 1 .. m - 1 PROVE i \in S
    <3>1. i \notin T
      BY <1>2, <1>3
    <3> QED
      BY <3>1, <1>3
  <2> QED
    BY <2>1, <2>2
<1>5. Cardinality(1 .. m - 1) = m - 1
  BY <1>3, FS_Interval
<1> QED
  BY <1>3, <1>4, <1>5

LEMMA EntriesFacts ==
  ASSUME NEW A, NEW s \in Seq(A), NEW I \in SUBSET DOMAIN s
  PROVE  /\ Entries(s, I) \in Seq(A)
         /\ \E f \in [DOMAIN Entries(s, I) -> I] :
              /\ \A p \in DOMAIN Entries(s, I) : Entries(s, I)[p] = s[f[p]]
              /\ \A p, q \in DOMAIN Entries(s, I) : p < q => f[p] < f[q]
              /\ \A i \in I : \E p \in DOMAIN Entries(s, I) : f[p] = i
<1> DEFINE n == Cardinality(I)
           below(i) == {j \in I : j <= i}
           rank == [i \in I |-> Cardinality(below(i))]
           place(p) == CHOOSE i \in I : Cardinality(below(i)) = p
<1>1. DOMAIN s = 1 .. Len(s) /\ Len(s) \in Nat
  OBVIOUS
<1>2. IsFiniteSet(I) /\ n \in Nat
  <2>1. IsFiniteSet(1 .. Len(s)) /\ I \subseteq 1 .. Len(s)
    BY <1>1, FS_Interval
  <2>2. IsFiniteSet(I)
    BY <2>1, FS_Subset
  <2> QED
    BY <2>2, FS_CardinalityType
<1>3. \A i \in I : IsFiniteSet(below(i)) /\ Cardinality(below(i)) \in 1 .. n
  <2>1. ASSUME NEW i \in I PROVE IsFiniteSet(below(i)) /\ Cardinality(below(i)) \in 1 .. n
    <3>1. below(i) \subseteq I /\ i \in below(i)
      BY <1>1
    <3>2. IsFiniteSet(below(i)) /\ Cardinality(below(i)) <= n
      BY <1>2, <3>1, FS_Subset
    <3>3. Cardinality(below(i)) \in Nat /\ Cardinality(below(i)) # 0
      BY <3>1, <3>2, FS_CardinalityType, FS_EmptySet
    <3> QED
      BY <1>2, <3>2, <3>3
  <2> QED
    BY <2>1
<1>4. \A i, j \in I : i < j => Cardinality(below(i)) < Cardinality(below(j))
  <2>1. ASSUME NEW i \in I, NEW j \in I, i < j
        PROVE  Cardinality(below(i)) < Cardinality(below(j))
    <3>1. below(i) \subseteq below(j) /\ j \in below(j) /\ j \notin below(i)
      BY <1>1, <2>1
    <3>0. IsFiniteSet(below(j))
      BY <1>3
    <3>2. /\ Cardinality(below(i)) <= Cardinality(below(j))
          /\ Cardinality(below(j)) = Cardinality(below(i)) => below(j) = below(i)
      <4> HIDE DEF below
      <4> QED
        BY <3>0, <3>1, FS_Subset
    <3>3. Cardinality(below(i)) # Cardinality(below(j))
      <4> HIDE DEF below
      <4> QED
        BY <3>1, <3>2
    <3>4. Cardinality(below(i)) \in Nat /\ Cardinality(below(j)) \in Nat
      <4> HIDE DEF below, n
      <4> QED
        BY <1>2, <1>3
    <3> HIDE DEF below
    <3> QED
      BY <3>2, <3>3, <3>4
  <2> QED
    BY <2>1
<1>5. rank \in Injection(I, 1 .. n)
  <2>1. rank \in [I -> 1 .. n]
    BY <1>3
  <2>2. ASSUME NEW i \in I, NEW j \in I, i # j PROVE rank[i] # rank[j]
    <3>1. i \in Nat /\ j \in Nat /\ (i < j \/ j < i)
      BY <1>1, <2>2
    <3>2. Cardinality(below(i)) \in Nat /\ Cardinality(below(j)) \in Nat
      <4> HIDE DEF below, n
      <4> QED
        BY <1>2, <1>3
    <3>3. Cardinality(below(i)) < Cardinality(below(j)) \/ Cardinality(below(j)) < Cardinality(below(i))
      BY <1>4, <3>1
    <3> HIDE DEF below
    <3> QED
      BY <3>2, <3>3
  <2> QED
    BY <2>1, <2>2 DEF Injection, IsInjective
<1>6. rank \in Surjection(I, 1 .. n)
  <2>1. IsFiniteSet(1 .. n) /\ Cardinality(1 .. n) = n
    BY <1>2, FS_Interval
  <2> HIDE DEF rank
  <2> QED
    BY <1>5, <2>1, FS_Injection
<1>7. ASSUME NEW p \in 1 .. n PROVE place(p) \in I /\ rank[place(p)] = p
  <2>1. \E i \in I : rank[i] = p
    BY <1>6 DEF Surjection
  <2>2. \E i \in I : Cardinality(below(i)) = p
    BY <2>1
  <2> HIDE DEF below
  <2>3. place(p) \in I /\ Cardinality(below(place(p))) = p
    BY <2>2
  <2> QED
    BY <2>3
<1> DEFINE f == [p \in 1 .. n |-> place(p)]
<1>8. Entries(s, I) = [p \in 1 .. n |-> s[place(p)]]
  BY DEF Entries
<1>9. \A p, q \in 1 .. n : p < q => f[p] < f[q]
  <2>1. ASSUME NEW p \in 1 .. n, NEW q \in 1 .. n, p < q PROVE place(p) < place(q)
    <3>1. place(p) \in I /\ place(q) \in I /\ Cardinality(below(place(p))) = p
          /\ Cardinality(below(place(q))) = q
      BY <1>7
    <3>2. place(p) # place(q) /\ ~(place(q) < place(p))
      <4> HIDE DEF place, below
      <4> QED
        BY <1>2, <1>4, <2>1, <3>1
    <3>3. place(p) \in Nat /\ place(q) \in Nat
      BY <1>1, <3>1
    <3> HIDE DEF place
    <3> QED
      BY <3>2, <3>3
  <2> HIDE DEF place
  <2> QED
    BY <2>1
<1>10. \A i \in I : \E p \in 1 .. n : f[p] = i
  <2>1. ASSUME NEW i \in I PROVE place(rank[i]) = i
    <3>1. rank[i] \in 1 .. n
      BY <1>3
    <3>2. place(rank[i]) \in I /\ rank[place(rank[i])] = rank[i]
      <4> HIDE DEF place, rank
      <4> QED
        BY <1>7, <3>1
    <3> HIDE DEF place, rank
    <3> QED
      BY <1>5, <3>2 DEF Injection, IsInjective
  <2>2. ASSUME NEW i \in I PROVE rank[i] \in 1 .. n
    BY <1>3
  <2> HIDE DEF place, rank
  <2> QED
    BY <2>1, <2>2
<1>11. f \in [1 .. n -> I]
  <2> HIDE DEF place
  <2> QED
    BY <1>7
<1>12. DOMAIN Entries(s, I) = 1 .. n /\ \A p \in 1 .. n : Entries(s, I)[p] = s[f[p]]
  <2> HIDE DEF place
  <2> QED
    BY <1>8
<1>13. Entries(s, I) \in Seq(A)
  <2>1. \A p \in 1 .. n : s[f[p]] \in A
    <3> HIDE DEF f
    <3> QED
      BY <1>1, <1>11
  <2>2. Entries(s, I) \in [1 .. n -> A]
    <3> HIDE DEF place
    <3> QED
      BY <1>8, <2>1
  <2> HIDE DEF n
  <2> QED
    BY <1>2, <2>2
<1> DEFINE D == DOMAIN Entries(s, I)
<1>14. D = 1 .. n
  BY <1>12
<1>15. f \in [D -> I]
  <2> HIDE DEF D, f, n
  <2> QED
    BY <1>11, <1>14
<1>16. /\ \A p \in D : Entries(s, I)[p] = s[f[p]]
       /\ \A p, q \in D : p < q => f[p] < f[q]
       /\ \A i \in I : \E p \in D : f[p] = i
  <2> HIDE DEF D, f, n
  <2> QED
    BY <1>9, <1>10, <1>12, <1>14
<1> HIDE DEF f, n
<1> QED
  BY <1>13, <1>15, <1>16

-----------------------------------------------------------------------------
(* Histories.  The entries of a history are lifetimes of a shared object   *)
(* or saved versions of a mutable object.                                  *)
Records == {Lifetimes} \cup {Saved(m) : m \in Mutables}

EndAt(x, t)   == [x EXCEPT !.e = t]
StartAt(x, t) == [x EXCEPT !.b = t]

LEMMA RecordFields ==
  ASSUME NEW A \in Records, NEW x \in A, NEW t \in Nat
  PROVE  /\ x.b \in Nat /\ x.e \in Nat
         /\ EndAt(x, t) \in A /\ EndAt(x, t).b = x.b /\ EndAt(x, t).e = t
         /\ StartAt(x, t) \in A /\ StartAt(x, t).b = t /\ StartAt(x, t).e = x.e
         /\ A # Lifetimes => EndAt(x, t).data = x.data /\ StartAt(x, t).data = x.data
<1>1. CASE A = Lifetimes
  BY <1>1 DEF Lifetimes, EndAt, StartAt
<1>2. CASE A # Lifetimes
  <2>1. PICK m \in Mutables : A = Saved(m)
    BY <1>2 DEF Records
  <2>2. x \in [b : Nat, e : Nat, data : DataOf(m)] /\ A = [b : Nat, e : Nat, data : DataOf(m)]
    BY <2>1 DEF Saved
  <2> QED
    BY <2>2 DEF EndAt, StartAt
<1> QED
  BY <1>1, <1>2

LEMMA HistoryBounds ==
  ASSUME NEW A \in Records, NEW h \in Seq(A)
  PROVE  /\ DOMAIN h = 1 .. Len(h) /\ Len(h) \in Nat
         /\ \A i \in DOMAIN h : h[i] \in A /\ h[i].b \in Nat /\ h[i].e \in Nat
<1>1. DOMAIN h = 1 .. Len(h) /\ Len(h) \in Nat /\ \A i \in DOMAIN h : h[i] \in A
  OBVIOUS
<1> QED
  BY <1>1, RecordFields

LEMMA BegunFacts ==
  ASSUME NEW A \in Records, NEW h \in Seq(A), Sorted(h), NEW t \in Nat
  PROVE  /\ Begun(h, t) \in 0 .. Len(h)
         /\ \A i \in DOMAIN h : h[i].b < t <=> i <= Begun(h, t)
<1> DEFINE S == {i \in DOMAIN h : h[i].b < t}
<1>1. /\ DOMAIN h = 1 .. Len(h) /\ Len(h) \in Nat
      /\ \A i \in DOMAIN h : h[i].b \in Nat /\ h[i].e \in Nat
  BY HistoryBounds
<1>2. S \in SUBSET (1 .. Len(h))
  BY <1>1
<1>3. \A i \in S : \A j \in 1 .. i : j \in S
  BY <1>1 DEF Sorted
<1>4. Cardinality(S) \in 0 .. Len(h) /\ S = 1 .. Cardinality(S)
  <2> HIDE DEF S
  <2> QED
    BY <1>1, <1>2, <1>3, CountPrefix
<1>5. Begun(h, t) = Cardinality(S)
  BY DEF Begun
<1>6. \A i \in DOMAIN h : h[i].b < t <=> i \in S
  OBVIOUS
<1> HIDE DEF S
<1> QED
  BY <1>1, <1>4, <1>5, <1>6

LEMMA EndedFacts ==
  ASSUME NEW A \in Records, NEW h \in Seq(A), Sorted(h), NEW t \in Nat
  PROVE  /\ Ended(h, t) \in 0 .. Len(h)
         /\ \A i \in DOMAIN h : h[i].e <= t <=> i <= Ended(h, t)
<1> DEFINE S == {i \in DOMAIN h : h[i].e <= t}
<1>1. /\ DOMAIN h = 1 .. Len(h) /\ Len(h) \in Nat
      /\ \A i \in DOMAIN h : h[i].b \in Nat /\ h[i].e \in Nat
  BY HistoryBounds
<1>2. S \in SUBSET (1 .. Len(h))
  BY <1>1
<1>3. \A i \in S : \A j \in 1 .. i : j \in S
  BY <1>1 DEF Sorted
<1>4. Cardinality(S) \in 0 .. Len(h) /\ S = 1 .. Cardinality(S)
  <2> HIDE DEF S
  <2> QED
    BY <1>1, <1>2, <1>3, CountPrefix
<1>5. Ended(h, t) = Cardinality(S)
  BY DEF Ended
<1>6. \A i \in DOMAIN h : h[i].e <= t <=> i \in S
  OBVIOUS
<1> HIDE DEF S
<1> QED
  BY <1>1, <1>4, <1>5, <1>6

(* The interval that covers a time is the one a load at that time finds.   *)
LEMMA IntervalIs ==
  ASSUME NEW A \in Records, NEW h \in Seq(A), Sorted(h), NEW t \in Nat,
         NEW i \in DOMAIN h, h[i].b <= t, t < h[i].e
  PROVE  IntervalAt(h, t) = h[i]
<1> DEFINE S == {j \in DOMAIN h : h[j].b <= t}
<1>1. /\ DOMAIN h = 1 .. Len(h) /\ Len(h) \in Nat
      /\ \A j \in DOMAIN h : h[j].b \in Nat /\ h[j].e \in Nat
  BY HistoryBounds
<1>2. S \in SUBSET (1 .. Len(h))
  BY <1>1
<1>3. \A j \in S : \A k \in 1 .. j : k \in S
  BY <1>1 DEF Sorted
<1>4. Cardinality(S) \in 0 .. Len(h) /\ S = 1 .. Cardinality(S)
  <2> HIDE DEF S
  <2> QED
    BY <1>1, <1>2, <1>3, CountPrefix
<1>5. i \in S /\ i + 1 \notin S
  BY <1>1 DEF Sorted
<1>6. Cardinality(S) = i
  <2> HIDE DEF S
  <2> QED
    BY <1>1, <1>4, <1>5
<1> QED
  BY <1>6 DEF IntervalAt

(* What a history shows at a time.                                         *)
SameAt(g, h, t) ==
  /\ DefinedAt(g, t) <=> DefinedAt(h, t)
  /\ DefinedAt(h, t) => IntervalAt(g, t).data = IntervalAt(h, t).data

LEMMA ReleaseAfterFacts ==
  ASSUME NEW A \in Records, NEW h \in Seq(A), Sorted(h), NEW t \in Nat
  PROVE  LET g == ReleaseAfter(h, t)
         IN /\ g \in Seq(A) /\ Sorted(g)
            /\ \A i \in DOMAIN g :
                 /\ i \in DOMAIN h /\ h[i].b < t
                 /\ g[i].b = h[i].b /\ g[i].e = Smaller(h[i].e, t)
                 /\ A # Lifetimes => g[i].data = h[i].data
            /\ \A i \in DOMAIN h : h[i].b < t => i \in DOMAIN g
<1> DEFINE g == ReleaseAfter(h, t)
           n == Begun(h, t)
<1>1. /\ DOMAIN h = 1 .. Len(h) /\ Len(h) \in Nat
      /\ \A i \in DOMAIN h : h[i] \in A /\ h[i].b \in Nat /\ h[i].e \in Nat
  BY HistoryBounds
<1>2. n \in 0 .. Len(h) /\ \A i \in DOMAIN h : h[i].b < t <=> i <= n
  BY BegunFacts
<1>3. g = [i \in 1 .. n |-> [h[i] EXCEPT !.e = Smaller(h[i].e, t)]]
  BY DEF ReleaseAfter
<1> HIDE DEF g, n
<1>4. ASSUME NEW i \in 1 .. n
      PROVE  /\ i \in DOMAIN h /\ h[i].b < t
             /\ g[i] \in A /\ g[i].b = h[i].b /\ g[i].e = Smaller(h[i].e, t)
             /\ A # Lifetimes => g[i].data = h[i].data
  <2>1. i \in DOMAIN h /\ h[i].b < t
    BY <1>1, <1>2
  <2>2. Smaller(h[i].e, t) \in Nat /\ h[i] \in A
    BY <1>1, <2>1 DEF Smaller
  <2> DEFINE x == h[i]
             v == Smaller(h[i].e, t)
  <2>3. g[i] = EndAt(x, v)
    BY <1>3 DEF EndAt
  <2>4. x \in A /\ v \in Nat
    BY <2>2
  <2> HIDE DEF x, v
  <2>5. /\ EndAt(x, v) \in A /\ EndAt(x, v).b = x.b /\ EndAt(x, v).e = v
        /\ A # Lifetimes => EndAt(x, v).data = x.data
    BY <2>4, RecordFields
  <2>6. /\ g[i] \in A /\ g[i].b = x.b /\ g[i].e = v
        /\ A # Lifetimes => g[i].data = x.data
    BY <2>3, <2>5
  <2> QED
    BY <2>1, <2>6 DEF x, v
<1>5. DOMAIN g = 1 .. n
  BY <1>3
<1>6. g \in Seq(A)
  <2>1. g \in [1 .. n -> A]
    BY <1>3, <1>4
  <2> QED
    BY <1>2, <2>1
<1>7. Sorted(g)
  <2>1. /\ \A i \in DOMAIN h : h[i].b < h[i].e
        /\ \A i, j \in DOMAIN h : i < j => h[i].e <= h[j].b
    BY DEF Sorted
  <2> HIDE DEF g, n
  <2>2. ASSUME NEW i \in DOMAIN g
        PROVE  /\ i \in DOMAIN h /\ g[i].b = h[i].b /\ h[i].b < t
               /\ h[i].b \in Nat /\ h[i].e \in Nat
               /\ g[i].e = IF h[i].e < t THEN h[i].e ELSE t
    BY <1>1, <1>4, <1>5, <2>2 DEF Smaller
  <2>3. \A i \in DOMAIN g : g[i].b < g[i].e
    BY <2>1, <2>2
  <2>4. ASSUME NEW i \in DOMAIN g, NEW j \in DOMAIN g, i < j PROVE g[i].e <= g[j].b
    <3>1. h[i].e <= h[j].b
      BY <2>1, <2>2, <2>4
    <3>2. g[i].e <= h[i].e
      BY <2>2
    <3>3. g[i].e \in Nat /\ g[j].b = h[j].b /\ h[j].b \in Nat /\ h[i].e \in Nat
      BY <2>2
    <3> QED
      BY <3>1, <3>2, <3>3
  <2> QED
    BY <2>3, <2>4 DEF Sorted
<1>8. \A i \in DOMAIN h : h[i].b < t => i \in DOMAIN g
  BY <1>1, <1>2, <1>5
<1> QED
  BY <1>4, <1>5, <1>6, <1>7, <1>8 DEF g

LEMMA ReleaseBeforeFacts ==
  ASSUME NEW A \in Records, NEW h \in Seq(A), Sorted(h), NEW t \in Nat
  PROVE  LET g == ReleaseBefore(h, t)
         IN /\ g \in Seq(A) /\ Sorted(g)
            /\ \A i \in DOMAIN g : \E j \in DOMAIN h :
                 /\ h[j].e > t /\ g[i].b = Larger(h[j].b, t) /\ g[i].e = h[j].e
                 /\ A # Lifetimes => g[i].data = h[j].data
            /\ \A j \in DOMAIN h : h[j].e > t => \E i \in DOMAIN g :
                 /\ g[i].b = Larger(h[j].b, t) /\ g[i].e = h[j].e
                 /\ A # Lifetimes => g[i].data = h[j].data
<1> DEFINE g == ReleaseBefore(h, t)
           n == Ended(h, t)
           kept == SubSeq(h, n + 1, Len(h))
<1>1. /\ DOMAIN h = 1 .. Len(h) /\ Len(h) \in Nat
      /\ \A i \in DOMAIN h : h[i] \in A /\ h[i].b \in Nat /\ h[i].e \in Nat
  BY HistoryBounds
<1>2. n \in 0 .. Len(h) /\ \A i \in DOMAIN h : h[i].e <= t <=> i <= n
  BY EndedFacts
<1>3. g = [i \in DOMAIN kept |-> [kept[i] EXCEPT !.b = Larger(kept[i].b, t)]]
  BY DEF ReleaseBefore
<1> HIDE DEF g, n
<1>4. kept \in Seq(A) /\ DOMAIN kept = 1 .. Len(h) - n
      /\ \A i \in 1 .. Len(h) - n : kept[i] = h[i + n]
  <2>1. \A i \in n + 1 .. Len(h) : h[i] \in A
    BY <1>1, <1>2
  <2>2. /\ kept \in Seq(A)
        /\ Len(kept) = IF n + 1 <= Len(h) THEN Len(h) - (n + 1) + 1 ELSE 0
        /\ \A i \in 1 .. Len(h) - (n + 1) + 1 : kept[i] = h[n + 1 + i - 1]
    BY <1>1, <1>2, <2>1, SubSeqProperties
  <2> HIDE DEF kept
  <2>3. DOMAIN kept = 1 .. Len(kept)
    BY <2>2
  <2> DEFINE L == Len(h)
  <2>4. L - (n + 1) + 1 = L - n /\ (n + 1 <= L \/ L - n = 0)
    <3>1. L \in Nat /\ n \in 0 .. L
      BY <1>1, <1>2
    <3> HIDE DEF L
    <3> QED
      BY <3>1
  <2>5. Len(kept) = Len(h) - n
    BY <2>2, <2>4
  <2>6. \A i \in 1 .. Len(h) - n : n + 1 + i - 1 = i + n
    BY <1>1, <1>2
  <2>7. \A i \in 1 .. Len(h) - n : kept[i] = h[i + n]
    BY <2>2, <2>4, <2>6
  <2> QED
    BY <2>2, <2>3, <2>5, <2>7
<1> HIDE DEF kept
<1>5. ASSUME NEW i \in 1 .. Len(h) - n
      PROVE  /\ i + n \in DOMAIN h /\ h[i + n].e > t
             /\ g[i] \in A /\ g[i].b = Larger(h[i + n].b, t) /\ g[i].e = h[i + n].e
             /\ A # Lifetimes => g[i].data = h[i + n].data
  <2>1. i + n \in DOMAIN h /\ h[i + n].e > t
    BY <1>1, <1>2
  <2>2. Larger(h[i + n].b, t) \in Nat /\ h[i + n] \in A
    BY <1>1, <2>1 DEF Larger
  <2> DEFINE x == h[i + n]
             v == Larger(h[i + n].b, t)
  <2>3. g[i] = StartAt(x, v)
    BY <1>3, <1>4 DEF StartAt
  <2>4. x \in A /\ v \in Nat
    BY <2>2
  <2> HIDE DEF x, v
  <2>5. /\ StartAt(x, v) \in A /\ StartAt(x, v).b = v /\ StartAt(x, v).e = x.e
        /\ A # Lifetimes => StartAt(x, v).data = x.data
    BY <2>4, RecordFields
  <2>6. /\ g[i] \in A /\ g[i].b = v /\ g[i].e = x.e
        /\ A # Lifetimes => g[i].data = x.data
    BY <2>3, <2>5
  <2> QED
    BY <2>1, <2>6 DEF x, v
<1>6. DOMAIN g = 1 .. Len(h) - n
  BY <1>3, <1>4
<1>7. g \in Seq(A)
  <2>1. g \in [1 .. Len(h) - n -> A]
    BY <1>3, <1>4, <1>5
  <2>2. Len(h) - n \in Nat
    BY <1>1, <1>2
  <2> QED
    BY <2>1, <2>2
<1>8. Sorted(g)
  <2>1. ASSUME NEW i \in DOMAIN g PROVE g[i].b < g[i].e
    <3>1. i + n \in DOMAIN h /\ h[i + n].e > t
          /\ g[i].b = Larger(h[i + n].b, t) /\ g[i].e = h[i + n].e
      BY <1>5, <1>6
    <3>2. h[i + n].b < h[i + n].e /\ h[i + n].b \in Nat /\ h[i + n].e \in Nat
      BY <1>1, <3>1 DEF Sorted
    <3> QED
      BY <3>1, <3>2 DEF Larger
  <2>2. ASSUME NEW i \in DOMAIN g, NEW j \in DOMAIN g, i < j PROVE g[i].e <= g[j].b
    <3>1. /\ i + n \in DOMAIN h /\ g[i].e = h[i + n].e
          /\ j + n \in DOMAIN h /\ g[j].b = Larger(h[j + n].b, t)
      BY <1>5, <1>6
    <3>2. i + n < j + n
      BY <1>1, <1>2, <1>6, <2>2
    <3>3. h[i + n].e <= h[j + n].b /\ h[i + n].e \in Nat /\ h[j + n].b \in Nat
      BY <1>1, <3>1, <3>2 DEF Sorted
    <3> QED
      BY <3>1, <3>3 DEF Larger
  <2> QED
    BY <2>1, <2>2 DEF Sorted
<1>9. ASSUME NEW j \in DOMAIN h, h[j].e > t PROVE j - n \in DOMAIN g /\ j = (j - n) + n
  <2>1. j \in 1 .. Len(h) /\ ~(j <= n)
    BY <1>1, <1>2, <1>9
  <2> QED
    BY <1>1, <1>2, <1>6, <2>1
<1>10. \A j \in DOMAIN h : h[j].e > t => \E i \in DOMAIN g :
         /\ g[i].b = Larger(h[j].b, t) /\ g[i].e = h[j].e
         /\ A # Lifetimes => g[i].data = h[j].data
  <2>1. ASSUME NEW j \in DOMAIN h, h[j].e > t
        PROVE /\ g[j - n].b = Larger(h[j].b, t) /\ g[j - n].e = h[j].e
              /\ A # Lifetimes => g[j - n].data = h[j].data
    BY <1>5, <1>6, <1>9, <2>1
  <2> QED
    BY <1>9, <2>1
<1>11. \A i \in DOMAIN g : \E j \in DOMAIN h :
         /\ h[j].e > t /\ g[i].b = Larger(h[j].b, t) /\ g[i].e = h[j].e
         /\ A # Lifetimes => g[i].data = h[j].data
  BY <1>5, <1>6
<1> QED
  BY <1>7, <1>8, <1>10, <1>11 DEF g

(* Two histories show the same at a time that entries of the same data     *)
(* cover, or no entry of either does.                                      *)
LEMMA SameCovered ==
  ASSUME NEW A \in Records, NEW g \in Seq(A), NEW h \in Seq(A), Sorted(g), Sorted(h),
         NEW t \in Nat,
         \A i \in DOMAIN g : g[i].b <= t /\ t < g[i].e =>
           \E j \in DOMAIN h : /\ h[j].b <= t /\ t < h[j].e
                               /\ A # Lifetimes => g[i].data = h[j].data,
         \A j \in DOMAIN h : h[j].b <= t /\ t < h[j].e =>
           \E i \in DOMAIN g : g[i].b <= t /\ t < g[i].e
  PROVE  /\ DefinedAt(g, t) <=> DefinedAt(h, t)
         /\ A # Lifetimes => SameAt(g, h, t)
<1>1. DefinedAt(g, t) <=> DefinedAt(h, t)
  BY DEF DefinedAt
<1>2. ASSUME A # Lifetimes, DefinedAt(h, t)
      PROVE  IntervalAt(g, t).data = IntervalAt(h, t).data
  <2>1. PICK i \in DOMAIN g : g[i].b <= t /\ t < g[i].e
    BY <1>1, <1>2 DEF DefinedAt
  <2>2. PICK j \in DOMAIN h : h[j].b <= t /\ t < h[j].e /\ g[i].data = h[j].data
    BY <1>2, <2>1
  <2>3. IntervalAt(g, t) = g[i] /\ IntervalAt(h, t) = h[j]
    BY <2>1, <2>2, IntervalIs
  <2> QED
    BY <2>2, <2>3
<1> QED
  BY <1>1, <1>2 DEF SameAt

LEMMA AfterSame ==
  ASSUME NEW A \in Records, NEW h \in Seq(A), Sorted(h), NEW t \in Nat, NEW u \in Nat, u < t
  PROVE  /\ DefinedAt(ReleaseAfter(h, t), u) <=> DefinedAt(h, u)
         /\ A # Lifetimes => SameAt(ReleaseAfter(h, t), h, u)
<1> DEFINE g == ReleaseAfter(h, t)
<1>1. /\ g \in Seq(A) /\ Sorted(g)
      /\ \A i \in DOMAIN g :
           /\ i \in DOMAIN h /\ h[i].b < t
           /\ g[i].b = h[i].b /\ g[i].e = Smaller(h[i].e, t)
           /\ A # Lifetimes => g[i].data = h[i].data
      /\ \A i \in DOMAIN h : h[i].b < t => i \in DOMAIN g
  BY ReleaseAfterFacts
<1>2. \A i \in DOMAIN h : h[i].b \in Nat /\ h[i].e \in Nat
  BY HistoryBounds
<1> HIDE DEF g
<1>3. \A i \in DOMAIN g : g[i].b <= u /\ u < g[i].e =>
           \E j \in DOMAIN h : /\ h[j].b <= u /\ u < h[j].e
                               /\ A # Lifetimes => g[i].data = h[j].data
  BY <1>1, <1>2 DEF Smaller
<1>4. \A j \in DOMAIN h : h[j].b <= u /\ u < h[j].e =>
           \E i \in DOMAIN g : g[i].b <= u /\ u < g[i].e
  BY <1>1, <1>2 DEF Smaller
<1>5. (DefinedAt(g, u) <=> DefinedAt(h, u)) /\ (A # Lifetimes => SameAt(g, h, u))
  BY <1>1, <1>3, <1>4, SameCovered
<1> QED
  BY <1>5 DEF g

LEMMA BeforeSame ==
  ASSUME NEW A \in Records, NEW h \in Seq(A), Sorted(h), NEW t \in Nat, NEW u \in Nat, t <= u
  PROVE  /\ DefinedAt(ReleaseBefore(h, t), u) <=> DefinedAt(h, u)
         /\ A # Lifetimes => SameAt(ReleaseBefore(h, t), h, u)
<1> DEFINE g == ReleaseBefore(h, t)
<1>1. /\ g \in Seq(A) /\ Sorted(g)
      /\ \A i \in DOMAIN g : \E j \in DOMAIN h :
           /\ h[j].e > t /\ g[i].b = Larger(h[j].b, t) /\ g[i].e = h[j].e
           /\ A # Lifetimes => g[i].data = h[j].data
      /\ \A j \in DOMAIN h : h[j].e > t => \E i \in DOMAIN g :
           /\ g[i].b = Larger(h[j].b, t) /\ g[i].e = h[j].e
           /\ A # Lifetimes => g[i].data = h[j].data
  BY ReleaseBeforeFacts
<1>2. \A i \in DOMAIN h : h[i].b \in Nat /\ h[i].e \in Nat
  BY HistoryBounds
<1> HIDE DEF g
<1>3. \A i \in DOMAIN g : g[i].b <= u /\ u < g[i].e =>
           \E j \in DOMAIN h : /\ h[j].b <= u /\ u < h[j].e
                               /\ A # Lifetimes => g[i].data = h[j].data
  <2>1. ASSUME NEW i \in DOMAIN g, g[i].b <= u, u < g[i].e
        PROVE  \E j \in DOMAIN h : /\ h[j].b <= u /\ u < h[j].e
                                   /\ A # Lifetimes => g[i].data = h[j].data
    <3>1. PICK j \in DOMAIN h :
            /\ h[j].e > t /\ g[i].b = Larger(h[j].b, t) /\ g[i].e = h[j].e
            /\ A # Lifetimes => g[i].data = h[j].data
      BY <1>1
    <3>2. h[j].b <= u /\ u < h[j].e
      BY <1>2, <2>1, <3>1 DEF Larger
    <3> QED
      BY <3>1, <3>2
  <2> QED
    BY <2>1
<1>4. \A j \in DOMAIN h : h[j].b <= u /\ u < h[j].e =>
           \E i \in DOMAIN g : g[i].b <= u /\ u < g[i].e
  <2>1. ASSUME NEW j \in DOMAIN h, h[j].b <= u, u < h[j].e
        PROVE  \E i \in DOMAIN g : g[i].b <= u /\ u < g[i].e
    <3>1. h[j].e > t
      BY <1>2, <2>1
    <3>2. PICK i \in DOMAIN g : g[i].b = Larger(h[j].b, t) /\ g[i].e = h[j].e
      BY <1>1, <3>1
    <3>3. g[i].b <= u /\ u < g[i].e
      BY <1>2, <2>1, <3>2 DEF Larger
    <3> QED
      BY <3>3
  <2> QED
    BY <2>1
<1>5. (DefinedAt(g, u) <=> DefinedAt(h, u)) /\ (A # Lifetimes => SameAt(g, h, u))
  BY <1>1, <1>3, <1>4, SameCovered
<1> QED
  BY <1>5 DEF g

(* Recording: an entry is added at the end, or the last one is extended.   *)
LEMMA AppendHistory ==
  ASSUME NEW A \in Records, NEW g \in Seq(A), Sorted(g), NEW x \in A, x.b < x.e,
         \A i \in DOMAIN g : g[i].e <= x.b
  PROVE  LET s == Append(g, x)
         IN /\ s \in Seq(A) /\ Sorted(s)
            /\ DOMAIN s = DOMAIN g \cup {Len(g) + 1} /\ s[Len(g) + 1] = x
            /\ \A i \in DOMAIN g : s[i] = g[i]
<1> DEFINE s == Append(g, x)
<1>1. DOMAIN g = 1 .. Len(g) /\ Len(g) \in Nat /\ \A i \in DOMAIN g : g[i].b \in Nat /\ g[i].e \in Nat
  BY HistoryBounds
<1>2. /\ s \in Seq(A) /\ Len(s) = Len(g) + 1 /\ s[Len(g) + 1] = x
      /\ \A i \in 1 .. Len(g) : s[i] = g[i]
  BY AppendProperties
<1> HIDE DEF s
<1>3. DOMAIN s = 1 .. Len(g) + 1
  BY <1>2
<1>4. DOMAIN s = DOMAIN g \cup {Len(g) + 1} /\ \A i \in DOMAIN g : i < Len(g) + 1
  BY <1>1, <1>3
<1>5. x.b \in Nat /\ x.e \in Nat
  BY RecordFields
<1>6. Sorted(s)
  <2>1. \A i \in DOMAIN s : s[i].b < s[i].e
    BY <1>1, <1>2, <1>4 DEF Sorted
  <2>2. \A i, j \in DOMAIN s : i < j => s[i].e <= s[j].b
    BY <1>1, <1>2, <1>4 DEF Sorted
  <2> QED
    BY <2>1, <2>2 DEF Sorted
<1>7. \A i \in DOMAIN g : s[i] = g[i]
  BY <1>1, <1>2
<1> QED
  BY <1>2, <1>4, <1>6, <1>7 DEF s

LEMMA ExtendHistory ==
  ASSUME NEW A \in Records, NEW g \in Seq(A), Sorted(g), g # <<>>, NEW now \in Nat,
         g[Len(g)].e <= now
  PROVE  LET s == ExtendEnd(g, now)
         IN /\ s \in Seq(A) /\ Sorted(s)
            /\ Len(g) \in DOMAIN g /\ DOMAIN s = DOMAIN g
            /\ s[Len(g)].b = g[Len(g)].b /\ s[Len(g)].e = now + 1
            /\ A # Lifetimes => s[Len(g)].data = g[Len(g)].data
            /\ \A i \in DOMAIN g \ {Len(g)} : s[i] = g[i]
<1> DEFINE s == ExtendEnd(g, now)
           n == Len(g)
           x == g[n]
<1>1. /\ DOMAIN g = 1 .. n /\ n \in Nat
      /\ \A i \in DOMAIN g : g[i] \in A /\ g[i].b \in Nat /\ g[i].e \in Nat
  BY HistoryBounds
<1>2. n \in DOMAIN g
  BY <1>1
<1>3. s = [g EXCEPT ![n] = EndAt(x, now + 1)]
  BY DEF ExtendEnd, EndAt
<1>4. x \in A /\ now + 1 \in Nat /\ x.e <= now /\ x.b < x.e
  BY <1>1, <1>2 DEF Sorted
<1> HIDE DEF s, n, x
<1>5. /\ EndAt(x, now + 1) \in A /\ EndAt(x, now + 1).b = x.b /\ EndAt(x, now + 1).e = now + 1
      /\ A # Lifetimes => EndAt(x, now + 1).data = x.data
  BY <1>4, RecordFields
<1>6. s \in Seq(A)
  BY <1>1, <1>2, <1>3, <1>5
<1>7. DOMAIN s = DOMAIN g
  BY <1>3
<1>8. s[n] = EndAt(x, now + 1) /\ \A i \in DOMAIN g \ {n} : s[i] = g[i]
  BY <1>2, <1>3
<1>9. s[n].b = x.b /\ s[n].e = now + 1 /\ (A # Lifetimes => s[n].data = x.data)
  BY <1>5, <1>8
<1>10. x.b \in Nat /\ x.e \in Nat
  BY <1>1, <1>2 DEF x
<1>11. /\ \A i \in DOMAIN g : g[i].b < g[i].e
       /\ \A i, j \in DOMAIN g : i < j => g[i].e <= g[j].b
  BY DEF Sorted
<1>12. \A i \in DOMAIN s : s[i].b < s[i].e
  <2>1. s[n].b < s[n].e
    BY <1>4, <1>9, <1>10
  <2> QED
    BY <1>7, <1>8, <1>11, <2>1
<1>13. ASSUME NEW i \in DOMAIN s, NEW j \in DOMAIN s, i < j PROVE s[i].e <= s[j].b
  <2>1. i # n /\ s[i] = g[i]
    BY <1>1, <1>7, <1>8, <1>13
  <2>2. s[j].b = g[j].b
    BY <1>7, <1>8, <1>9 DEF x
  <2> QED
    BY <1>7, <1>11, <1>13, <2>1, <2>2
<1>14. Sorted(s)
  BY <1>12, <1>13 DEF Sorted
<1> QED
  BY <1>2, <1>6, <1>7, <1>8, <1>9, <1>14 DEF s, n, x

-----------------------------------------------------------------------------
(* What save_mutable_object() and save_immutable_object() make of a        *)
(* history whose entries all end by the active time: nothing changes       *)
(* before that, the present is covered, and an entry that does not cover   *)
(* the present is as before and could not be extended.                     *)
LEMMA SaveMutableFacts ==
  ASSUME NEW m \in Mutables, NEW g \in Seq(Saved(m)), Sorted(g), NEW d \in DataOf(m),
         NEW a \in Nat, NEW now \in Nat, a <= now, \A i \in DOMAIN g : g[i].e <= a
  PROVE  LET s == SaveMutable(g, a, now, d)
         IN /\ s \in Seq(Saved(m)) /\ Sorted(s)
            /\ \A u \in Nat : u < a => SameAt(s, g, u)
            /\ DefinedAt(s, now) /\ IntervalAt(s, now).data = d
            /\ \A i \in DOMAIN s :
                 \/ s[i].b <= now /\ now < s[i].e /\ s[i].data = d
                 \/ \E j \in DOMAIN g : s[i] = g[j] /\ ~(g[j].e = a /\ g[j].data = d)
<1> DEFINE A == Saved(m)
           s == SaveMutable(g, a, now, d)
           n == Len(g)
           Good == /\ s \in Seq(A) /\ Sorted(s)
                   /\ \A u \in Nat : u < a => SameAt(s, g, u)
                   /\ DefinedAt(s, now) /\ IntervalAt(s, now).data = d
                   /\ \A i \in DOMAIN s :
                       \/ s[i].b <= now /\ now < s[i].e /\ s[i].data = d
                       \/ \E j \in DOMAIN g : s[i] = g[j] /\ ~(g[j].e = a /\ g[j].data = d)
<1> SUFFICES Good
  OBVIOUS
<1>0. A \in Records /\ A # Lifetimes
  <2>1. A \in Records
    BY DEF Records
  <2>2. [b |-> 0, e |-> 0, data |-> d] \in A /\ [b |-> 0, e |-> 0, data |-> d] \notin Lifetimes
    BY DEF Saved, Lifetimes
  <2> QED
    BY <2>1, <2>2
<1>1. /\ DOMAIN g = 1 .. n /\ n \in Nat
      /\ \A i \in DOMAIN g : g[i] \in A /\ g[i].b \in Nat /\ g[i].e \in Nat /\ g[i].b < g[i].e
  BY <1>0, HistoryBounds DEF Sorted
<1>2. g # <<>> => n \in DOMAIN g /\ Last(g) = g[n]
  BY <1>1 DEF Last
<1>3. \A i, j \in DOMAIN g : i < j => g[i].e <= g[j].b
  BY DEF Sorted
<1>4. ASSUME NEW c \in Nat, a <= c, c <= now, s = Append(g, [b |-> c, e |-> now + 1, data |-> d]),
             \A i \in DOMAIN g : ~(g[i].e = a /\ g[i].data = d)
      PROVE  Good
  <2> DEFINE x == [b |-> c, e |-> now + 1, data |-> d]
  <2>1. x \in A /\ x.b = c /\ x.e = now + 1 /\ x.data = d
    BY DEF Saved
  <2>2. x.b < x.e /\ \A i \in DOMAIN g : g[i].e <= x.b
    BY <1>1, <1>4, <2>1
  <2>3. s = Append(g, x)
    BY <1>4
  <2> HIDE DEF s, x, A
  <2>4. /\ s \in Seq(A) /\ Sorted(s)
        /\ DOMAIN s = DOMAIN g \cup {n + 1} /\ s[n + 1] = x
        /\ \A i \in DOMAIN g : s[i] = g[i]
    BY <1>0, <2>1, <2>2, <2>3, AppendHistory DEF A
  <2>5. ASSUME NEW u \in Nat, u < a PROVE SameAt(s, g, u)
    <3>1. \A i \in DOMAIN s : s[i].b <= u /\ u < s[i].e =>
            \E j \in DOMAIN g : g[j].b <= u /\ u < g[j].e /\ (A # Lifetimes => s[i].data = g[j].data)
      <4>1. ASSUME NEW i \in DOMAIN s, s[i].b <= u PROVE i \in DOMAIN g
        <5>1. ~(x.b <= u)
          BY <1>4, <2>1, <2>5
        <5> QED
          BY <2>4, <4>1, <5>1
      <4> QED
        BY <2>4, <4>1
    <3>2. \A j \in DOMAIN g : g[j].b <= u /\ u < g[j].e =>
            \E i \in DOMAIN s : s[i].b <= u /\ u < s[i].e
      BY <2>4
    <3> QED
      BY <1>0, <2>4, <3>1, <3>2, SameCovered DEF A
  <2>6. s[n + 1].b <= now /\ now < s[n + 1].e /\ s[n + 1].data = d /\ n + 1 \in DOMAIN s
    BY <1>4, <2>1, <2>4
  <2>7. DefinedAt(s, now)
    BY <2>6 DEF DefinedAt
  <2>8. IntervalAt(s, now) = s[n + 1]
    BY <1>0, <2>4, <2>6, IntervalIs
  <2>9. \A i \in DOMAIN s : i = n + 1 \/ (i \in DOMAIN g /\ s[i] = g[i])
    BY <2>4
  <2> QED
    BY <1>4, <2>4, <2>5, <2>6, <2>7, <2>8, <2>9
<1>5. ASSUME g # <<>>, g[n].e = a, g[n].data = d, s = ExtendEnd(g, now)
      PROVE  Good
  <2>1. n \in DOMAIN g /\ g[n].e <= now
    BY <1>2, <1>5
  <2> HIDE DEF s, A
  <2>2. /\ s \in Seq(A) /\ Sorted(s) /\ DOMAIN s = DOMAIN g
        /\ s[n].b = g[n].b /\ s[n].e = now + 1 /\ s[n].data = g[n].data
        /\ \A i \in DOMAIN g \ {n} : s[i] = g[i]
    BY <1>0, <1>5, <2>1, ExtendHistory DEF A
  <2>3. ASSUME NEW u \in Nat, u < a PROVE SameAt(s, g, u)
    <3>1. \A i \in DOMAIN s : s[i].b <= u /\ u < s[i].e =>
            \E j \in DOMAIN g : g[j].b <= u /\ u < g[j].e /\ (A # Lifetimes => s[i].data = g[j].data)
      <4>1. ASSUME NEW i \in DOMAIN s, s[i].b <= u, u < s[i].e
            PROVE  g[i].b <= u /\ u < g[i].e /\ s[i].data = g[i].data /\ i \in DOMAIN g
        <5>1. CASE i = n
          BY <1>5, <2>1, <2>2, <2>3, <4>1, <5>1
        <5>2. CASE i # n
          BY <2>2, <4>1, <5>2
        <5> QED
          BY <5>1, <5>2
      <4> QED
        BY <4>1
    <3>2. \A j \in DOMAIN g : g[j].b <= u /\ u < g[j].e =>
            \E i \in DOMAIN s : s[i].b <= u /\ u < s[i].e
      <4>1. ASSUME NEW j \in DOMAIN g, g[j].b <= u, u < g[j].e
            PROVE  s[j].b <= u /\ u < s[j].e /\ j \in DOMAIN s
        <5>1. CASE j = n
          BY <2>1, <2>2, <2>3, <4>1, <5>1
        <5>2. CASE j # n
          BY <2>2, <4>1, <5>2
        <5> QED
          BY <5>1, <5>2
      <4> QED
        BY <4>1
    <3> QED
      BY <1>0, <2>2, <3>1, <3>2, SameCovered DEF A
  <2>4. g[n].b < g[n].e /\ g[n].b \in Nat /\ g[n].e \in Nat
    BY <1>1, <2>1
  <2>5. s[n].b <= now /\ now < s[n].e /\ s[n].data = d /\ n \in DOMAIN s
    BY <1>5, <2>1, <2>2, <2>4
  <2>6. DefinedAt(s, now)
    BY <2>5 DEF DefinedAt
  <2>7. IntervalAt(s, now) = s[n]
    BY <1>0, <2>2, <2>5, IntervalIs
  <2>8. ASSUME NEW i \in DOMAIN g, i # n PROVE s[i] = g[i] /\ ~(g[i].e = a)
    <3>1. i < n /\ g[i].e <= g[n].b
      BY <1>1, <1>3, <2>1, <2>8
    <3> QED
      BY <1>1, <1>5, <2>2, <2>4, <2>8, <3>1
  <2> QED
    BY <2>2, <2>3, <2>5, <2>6, <2>7, <2>8
<1>6. CASE g = <<>> \/ Last(g).e < a
  <2>1. s = Append(g, [b |-> now, e |-> now + 1, data |-> d])
    BY <1>6 DEF SaveMutable
  <2>2. ASSUME NEW i \in DOMAIN g PROVE ~(g[i].e = a)
    <3>1. g # <<>> /\ n \in DOMAIN g /\ g[n].e < a
      BY <1>1, <1>2, <1>6, <2>2
    <3>2. i = n \/ (i < n /\ g[i].e <= g[n].b)
      BY <1>1, <1>3, <2>2, <3>1
    <3> QED
      BY <1>1, <3>1, <3>2
  <2> HIDE DEF s, A, Good
  <2> QED
    BY <1>4, <2>1, <2>2
<1>7. CASE ~(g = <<>> \/ Last(g).e < a) /\ Last(g).data = d
  <2>1. s = ExtendEnd(g, now)
    BY <1>7 DEF SaveMutable
  <2>2. g[n].e = a /\ g[n].data = d
    BY <1>1, <1>2, <1>7
  <2> HIDE DEF s, A, Good
  <2> QED
    BY <1>5, <1>7, <2>1, <2>2
<1>8. CASE ~(g = <<>> \/ Last(g).e < a) /\ Last(g).data # d
  <2>1. s = Append(g, [b |-> a, e |-> now + 1, data |-> d])
    BY <1>8 DEF SaveMutable
  <2>2. ASSUME NEW i \in DOMAIN g PROVE ~(g[i].e = a /\ g[i].data = d)
    <3>1. n \in DOMAIN g /\ g[n].data # d /\ g[n].e = a
      BY <1>1, <1>2, <1>8
    <3>2. i = n \/ (i < n /\ g[i].e <= g[n].b)
      BY <1>1, <1>3, <2>2, <3>1
    <3> QED
      BY <1>1, <3>1, <3>2
  <2> HIDE DEF s, A, Good
  <2> QED
    BY <1>4, <2>1, <2>2
<1> HIDE DEF s, A, Good
<1> QED
  BY <1>6, <1>7, <1>8

LEMMA SaveImmutableFacts ==
  ASSUME NEW g \in Seq(Lifetimes), Sorted(g),
         NEW a \in Nat, NEW now \in Nat, a <= now, \A i \in DOMAIN g : g[i].e <= a
  PROVE  LET s == SaveImmutable(g, a, now)
         IN /\ s \in Seq(Lifetimes) /\ Sorted(s)
            /\ \A u \in Nat : u < a => (DefinedAt(s, u) <=> DefinedAt(g, u))
            /\ DefinedAt(s, now)
            /\ \A i \in DOMAIN s :
                 \/ s[i].b <= now /\ now < s[i].e
                 \/ \E j \in DOMAIN g : s[i] = g[j] /\ ~(g[j].e = a)
<1> DEFINE s == SaveImmutable(g, a, now)
           n == Len(g)
           Good == /\ s \in Seq(Lifetimes) /\ Sorted(s)
                   /\ \A u \in Nat : u < a => (DefinedAt(s, u) <=> DefinedAt(g, u))
                   /\ DefinedAt(s, now)
                   /\ \A i \in DOMAIN s :
                        \/ s[i].b <= now /\ now < s[i].e
                        \/ \E j \in DOMAIN g : s[i] = g[j] /\ ~(g[j].e = a)
<1> SUFFICES Good
  OBVIOUS
<1>0. Lifetimes \in Records
  BY DEF Records
<1>1. /\ DOMAIN g = 1 .. n /\ n \in Nat
      /\ \A i \in DOMAIN g : g[i].b \in Nat /\ g[i].e \in Nat /\ g[i].b < g[i].e
  BY <1>0, HistoryBounds DEF Sorted
<1>2. g # <<>> => n \in DOMAIN g /\ Last(g) = g[n]
  BY <1>1 DEF Last
<1>3. \A i, j \in DOMAIN g : i < j => g[i].e <= g[j].b
  BY DEF Sorted
<1>6. CASE g = <<>> \/ Last(g).e < a
  <2> DEFINE x == [b |-> a, e |-> now + 1]
  <2>1. s = Append(g, x)
    BY <1>6 DEF SaveImmutable
  <2>2. \A i \in DOMAIN g : ~(g[i].e = a)
    <3>1. ASSUME NEW i \in DOMAIN g PROVE ~(g[i].e = a)
      <4>1. g # <<>> /\ n \in DOMAIN g /\ g[n].e < a
        BY <1>1, <1>2, <1>6, <3>1
      <4>2. i = n \/ (i < n /\ g[i].e <= g[n].b)
        BY <1>1, <1>3, <3>1, <4>1
      <4> QED
        BY <1>1, <4>1, <4>2
    <3> QED
      BY <3>1
  <2>3. x \in Lifetimes /\ x.b = a /\ x.e = now + 1 /\ x.b < x.e
    BY DEF Lifetimes
  <2> HIDE DEF s, x
  <2>4. /\ s \in Seq(Lifetimes) /\ Sorted(s)
        /\ DOMAIN s = DOMAIN g \cup {n + 1} /\ s[n + 1] = x
        /\ \A i \in DOMAIN g : s[i] = g[i]
    BY <1>0, <2>1, <2>3, AppendHistory
  <2>5. ASSUME NEW u \in Nat, u < a PROVE DefinedAt(s, u) <=> DefinedAt(g, u)
    <3>1. ~(x.b <= u)
      BY <2>3, <2>5
    <3> QED
      BY <2>4, <3>1 DEF DefinedAt
  <2>6. s[n + 1].b <= now /\ now < s[n + 1].e /\ n + 1 \in DOMAIN s
    BY <2>3, <2>4
  <2>7. DefinedAt(s, now)
    BY <2>6 DEF DefinedAt
  <2>9. \A i \in DOMAIN s : i = n + 1 \/ (i \in DOMAIN g /\ s[i] = g[i])
    BY <2>4
  <2> QED
    BY <2>2, <2>4, <2>5, <2>6, <2>7, <2>9
<1>7. CASE ~(g = <<>> \/ Last(g).e < a)
  <2>0. s = ExtendEnd(g, now)
    BY <1>7 DEF SaveImmutable
  <2>1. g # <<>> /\ n \in DOMAIN g /\ g[n].e = a /\ g[n].e <= now
    BY <1>1, <1>2, <1>7
  <2> HIDE DEF s
  <2>2. /\ s \in Seq(Lifetimes) /\ Sorted(s) /\ DOMAIN s = DOMAIN g
        /\ s[n].b = g[n].b /\ s[n].e = now + 1
        /\ \A i \in DOMAIN g \ {n} : s[i] = g[i]
    BY <1>0, <2>0, <2>1, ExtendHistory
  <2>4. g[n].b < g[n].e /\ g[n].b \in Nat /\ g[n].e \in Nat
    BY <1>1, <2>1
  <2>3. ASSUME NEW u \in Nat, u < a PROVE DefinedAt(s, u) <=> DefinedAt(g, u)
    <3>1. ASSUME NEW i \in DOMAIN g
          PROVE  (s[i].b <= u /\ u < s[i].e) <=> (g[i].b <= u /\ u < g[i].e)
      <4>1. CASE i = n
        BY <2>1, <2>2, <2>3, <2>4, <4>1
      <4>2. CASE i # n
        BY <2>2, <4>2
      <4> QED
        BY <4>1, <4>2
    <3> QED
      BY <2>2, <3>1 DEF DefinedAt
  <2>5. s[n].b <= now /\ now < s[n].e /\ n \in DOMAIN s
    BY <2>1, <2>2, <2>4
  <2>6. DefinedAt(s, now)
    BY <2>5 DEF DefinedAt
  <2>8. ASSUME NEW i \in DOMAIN g, i # n PROVE s[i] = g[i] /\ ~(g[i].e = a)
    <3>1. i < n /\ g[i].e <= g[n].b
      BY <1>1, <1>3, <2>1, <2>8
    <3> QED
      BY <1>1, <2>1, <2>2, <2>4, <2>8, <3>1
  <2> QED
    BY <2>2, <2>3, <2>5, <2>6, <2>8
<1> HIDE DEF s, Good
<1> QED
  BY <1>6, <1>7

(* The two steps of take_snapshot() on a history, release_after() and the  *)
(* saving, in terms of the history before them.                            *)
LEMMA RecordMutable ==
  ASSUME NEW m \in Mutables, NEW h \in Seq(Saved(m)), Sorted(h), NEW d \in DataOf(m),
         NEW a \in Nat, NEW now \in Nat, a <= now
  PROVE  LET s == SaveMutable(ReleaseAfter(h, a), a, now, d)
         IN /\ s \in Seq(Saved(m)) /\ Sorted(s)
            /\ \A u \in Nat : u < a => SameAt(s, h, u)
            /\ DefinedAt(s, now) /\ IntervalAt(s, now).data = d
            /\ \A i \in DOMAIN s :
                 \/ s[i].b <= now /\ now < s[i].e /\ s[i].data = d
                 \/ \E j \in DOMAIN h :
                      /\ s[i].b = h[j].b /\ s[i].e = Smaller(h[j].e, a) /\ s[i].data = h[j].data
                      /\ h[j].b < a /\ ~(h[j].e >= a /\ h[j].data = d)
<1> DEFINE A == Saved(m)
           g == ReleaseAfter(h, a)
           s == SaveMutable(g, a, now, d)
           Good == /\ s \in Seq(A) /\ Sorted(s)
                   /\ \A u \in Nat : u < a => SameAt(s, h, u)
                   /\ DefinedAt(s, now) /\ IntervalAt(s, now).data = d
                   /\ \A i \in DOMAIN s :
                        \/ s[i].b <= now /\ now < s[i].e /\ s[i].data = d
                        \/ \E j \in DOMAIN h :
                             /\ s[i].b = h[j].b /\ s[i].e = Smaller(h[j].e, a)
                             /\ s[i].data = h[j].data
                             /\ h[j].b < a /\ ~(h[j].e >= a /\ h[j].data = d)
<1> SUFFICES Good
  OBVIOUS
<1>0. A \in Records /\ A # Lifetimes
  <2>1. A \in Records
    BY DEF Records
  <2>2. [b |-> 0, e |-> 0, data |-> d] \in A /\ [b |-> 0, e |-> 0, data |-> d] \notin Lifetimes
    BY DEF Saved, Lifetimes
  <2> QED
    BY <2>1, <2>2
<1>1. /\ g \in Seq(A) /\ Sorted(g)
      /\ \A i \in DOMAIN g :
           /\ i \in DOMAIN h /\ h[i].b < a
           /\ g[i].b = h[i].b /\ g[i].e = Smaller(h[i].e, a)
           /\ g[i].data = h[i].data
  <2> HIDE DEF A
  <2> QED
    BY <1>0, ReleaseAfterFacts DEF A
<1>2. \A u \in Nat : u < a => SameAt(g, h, u)
  <2>1. ASSUME NEW u \in Nat, u < a PROVE SameAt(g, h, u)
    BY <1>0, <2>1, AfterSame
  <2> QED
    BY <2>1
<1>3. \A i \in DOMAIN h : h[i].b \in Nat /\ h[i].e \in Nat
  BY <1>0, HistoryBounds
<1> HIDE DEF g
<1>4. \A i \in DOMAIN g : g[i].e <= a
  BY <1>1, <1>3 DEF Smaller
<1>5. /\ s \in Seq(A) /\ Sorted(s)
      /\ \A u \in Nat : u < a => SameAt(s, g, u)
      /\ DefinedAt(s, now) /\ IntervalAt(s, now).data = d
      /\ \A i \in DOMAIN s :
           \/ s[i].b <= now /\ now < s[i].e /\ s[i].data = d
           \/ \E j \in DOMAIN g : s[i] = g[j] /\ ~(g[j].e = a /\ g[j].data = d)
  BY <1>1, <1>4, SaveMutableFacts
<1> HIDE DEF s, A
<1>6. \A u \in Nat : u < a => SameAt(s, h, u)
  BY <1>2, <1>5 DEF SameAt
<1>7. ASSUME NEW i \in DOMAIN s, ~(s[i].b <= now /\ now < s[i].e /\ s[i].data = d)
      PROVE  \E j \in DOMAIN h :
               /\ s[i].b = h[j].b /\ s[i].e = Smaller(h[j].e, a) /\ s[i].data = h[j].data
               /\ h[j].b < a /\ ~(h[j].e >= a /\ h[j].data = d)
  <2>1. PICK j \in DOMAIN g : s[i] = g[j] /\ ~(g[j].e = a /\ g[j].data = d)
    BY <1>5, <1>7
  <2>2. /\ j \in DOMAIN h /\ h[j].b < a /\ g[j].b = h[j].b /\ g[j].e = Smaller(h[j].e, a)
        /\ g[j].data = h[j].data
    BY <1>1
  <2>3. h[j].e >= a => g[j].e = a
    BY <1>3, <2>2 DEF Smaller
  <2> QED
    BY <2>1, <2>2, <2>3
<1> QED
  BY <1>5, <1>6, <1>7

LEMMA RecordImmutable ==
  ASSUME NEW h \in Seq(Lifetimes), Sorted(h), NEW a \in Nat, NEW now \in Nat, a <= now
  PROVE  LET s == SaveImmutable(ReleaseAfter(h, a), a, now)
         IN /\ s \in Seq(Lifetimes) /\ Sorted(s)
            /\ \A u \in Nat : u < a => (DefinedAt(s, u) <=> DefinedAt(h, u))
            /\ DefinedAt(s, now)
            /\ \A i \in DOMAIN s :
                 \/ s[i].b <= now /\ now < s[i].e
                 \/ \E j \in DOMAIN h :
                      /\ s[i].b = h[j].b /\ s[i].e = Smaller(h[j].e, a)
                      /\ h[j].b < a /\ ~(h[j].e >= a)
<1> DEFINE g == ReleaseAfter(h, a)
           s == SaveImmutable(g, a, now)
           Good == /\ s \in Seq(Lifetimes) /\ Sorted(s)
                   /\ \A u \in Nat : u < a => (DefinedAt(s, u) <=> DefinedAt(h, u))
                   /\ DefinedAt(s, now)
                   /\ \A i \in DOMAIN s :
                        \/ s[i].b <= now /\ now < s[i].e
                        \/ \E j \in DOMAIN h :
                             /\ s[i].b = h[j].b /\ s[i].e = Smaller(h[j].e, a)
                             /\ h[j].b < a /\ ~(h[j].e >= a)
<1> SUFFICES Good
  OBVIOUS
<1>0. Lifetimes \in Records
  BY DEF Records
<1>1. /\ g \in Seq(Lifetimes) /\ Sorted(g)
      /\ \A i \in DOMAIN g :
           /\ i \in DOMAIN h /\ h[i].b < a
           /\ g[i].b = h[i].b /\ g[i].e = Smaller(h[i].e, a)
  BY <1>0, ReleaseAfterFacts
<1>2. \A u \in Nat : u < a => (DefinedAt(g, u) <=> DefinedAt(h, u))
  <2>1. ASSUME NEW u \in Nat, u < a PROVE DefinedAt(g, u) <=> DefinedAt(h, u)
    BY <1>0, <2>1, AfterSame
  <2> QED
    BY <2>1
<1>3. \A i \in DOMAIN h : h[i].b \in Nat /\ h[i].e \in Nat
  BY <1>0, HistoryBounds
<1> HIDE DEF g
<1>4. \A i \in DOMAIN g : g[i].e <= a
  BY <1>1, <1>3 DEF Smaller
<1>5. /\ s \in Seq(Lifetimes) /\ Sorted(s)
      /\ \A u \in Nat : u < a => (DefinedAt(s, u) <=> DefinedAt(g, u))
      /\ DefinedAt(s, now)
      /\ \A i \in DOMAIN s :
           \/ s[i].b <= now /\ now < s[i].e
           \/ \E j \in DOMAIN g : s[i] = g[j] /\ ~(g[j].e = a)
  BY <1>1, <1>4, SaveImmutableFacts
<1> HIDE DEF s
<1>6. \A u \in Nat : u < a => (DefinedAt(s, u) <=> DefinedAt(h, u))
  BY <1>2, <1>5
<1>7. ASSUME NEW i \in DOMAIN s, ~(s[i].b <= now /\ now < s[i].e)
      PROVE  \E j \in DOMAIN h :
               /\ s[i].b = h[j].b /\ s[i].e = Smaller(h[j].e, a)
               /\ h[j].b < a /\ ~(h[j].e >= a)
  <2>1. PICK j \in DOMAIN g : s[i] = g[j] /\ ~(g[j].e = a)
    BY <1>5, <1>7
  <2>2. j \in DOMAIN h /\ h[j].b < a /\ g[j].b = h[j].b /\ g[j].e = Smaller(h[j].e, a)
    BY <1>1
  <2>3. h[j].e >= a => g[j].e = a
    BY <1>3, <2>2 DEF Smaller
  <2> QED
    BY <2>1, <2>2, <2>3
<1> QED
  BY <1>5, <1>6, <1>7

-----------------------------------------------------------------------------
(* Stacks.                                                                 *)
LEMMA StackFields ==
  ASSUME NEW st, StackType(st)
  PROVE  /\ \A m \in Mutables : /\ Saved(m) \in Records /\ Saved(m) # Lifetimes
                                /\ st.mutables[m] \in Seq(Saved(m)) /\ Sorted(st.mutables[m])
                                /\ DOMAIN st.mutables[m] = 1 .. Len(st.mutables[m])
                                /\ \A i \in DOMAIN st.mutables[m] :
                                     /\ st.mutables[m][i].b \in Nat /\ st.mutables[m][i].e \in Nat
                                     /\ st.mutables[m][i].data \in DataOf(m)
         /\ Lifetimes \in Records
         /\ \A id \in DOMAIN st.immutables :
              /\ st.immutables[id] \in Seq(Lifetimes) /\ Sorted(st.immutables[id])
              /\ \A i \in DOMAIN st.immutables[id] :
                   st.immutables[id][i].b \in Nat /\ st.immutables[id][i].e \in Nat
         /\ DOMAIN st.snapshots = 1 .. Len(st.snapshots) /\ Len(st.snapshots) \in Nat
         /\ \A i \in DOMAIN st.snapshots :
              /\ st.snapshots[i].time \in Nat /\ st.snapshots[i].captured \in BOOLEAN
              /\ st.snapshots[i].type \in SnapshotTypes
         /\ Times(st) \subseteq Nat
<1>1. ASSUME NEW m \in Mutables
      PROVE  /\ Saved(m) \in Records /\ Saved(m) # Lifetimes
             /\ st.mutables[m] \in Seq(Saved(m)) /\ Sorted(st.mutables[m])
             /\ DOMAIN st.mutables[m] = 1 .. Len(st.mutables[m])
             /\ \A i \in DOMAIN st.mutables[m] :
                  /\ st.mutables[m][i].b \in Nat /\ st.mutables[m][i].e \in Nat
                  /\ st.mutables[m][i].data \in DataOf(m)
  <2>1. st.mutables[m] \in Seq(Saved(m)) /\ Sorted(st.mutables[m])
    BY DEF StackType
  <2>2. Saved(m) \in Records
    BY DEF Records
  <2>3. \E d : d \in DataOf(m) \/ DataOf(m) = {}
    OBVIOUS
  <2>4. \A x \in Saved(m) : x \notin Lifetimes /\ x.data \in DataOf(m)
    BY DEF Saved, Lifetimes
  <2>5. [b |-> 0, e |-> 0] \in Lifetimes /\ [b |-> 0, e |-> 0] \notin Saved(m)
    BY DEF Saved, Lifetimes
  <2>6. /\ DOMAIN st.mutables[m] = 1 .. Len(st.mutables[m])
        /\ \A i \in DOMAIN st.mutables[m] :
             /\ st.mutables[m][i] \in Saved(m)
             /\ st.mutables[m][i].b \in Nat /\ st.mutables[m][i].e \in Nat
    BY <2>1, <2>2, HistoryBounds
  <2> QED
    BY <2>1, <2>2, <2>4, <2>5, <2>6
<1>2. Lifetimes \in Records
  BY DEF Records
<1>3. ASSUME NEW id \in DOMAIN st.immutables
      PROVE  /\ st.immutables[id] \in Seq(Lifetimes) /\ Sorted(st.immutables[id])
             /\ \A i \in DOMAIN st.immutables[id] :
                  st.immutables[id][i].b \in Nat /\ st.immutables[id][i].e \in Nat
  <2>1. st.immutables[id] \in Seq(Lifetimes) /\ Sorted(st.immutables[id])
    BY DEF StackType
  <2> QED
    BY <1>2, <2>1, HistoryBounds
<1>4. /\ DOMAIN st.snapshots = 1 .. Len(st.snapshots) /\ Len(st.snapshots) \in Nat
      /\ \A i \in DOMAIN st.snapshots :
           /\ st.snapshots[i].time \in Nat /\ st.snapshots[i].captured \in BOOLEAN
           /\ st.snapshots[i].type \in SnapshotTypes
  <2>1. st.snapshots \in Seq([time : Nat, type : SnapshotTypes, captured : BOOLEAN])
    BY DEF StackType
  <2> DEFINE ss == st.snapshots
             R  == [time : Nat, type : SnapshotTypes, captured : BOOLEAN]
  <2>2. DOMAIN ss = 1 .. Len(ss) /\ Len(ss) \in Nat /\ \A i \in DOMAIN ss : ss[i] \in R
    <3>1. ss \in Seq(R)
      BY <2>1
    <3> HIDE DEF ss, R
    <3> QED
      BY <3>1
  <2>3. \A r \in R : r.time \in Nat /\ r.captured \in BOOLEAN /\ r.type \in SnapshotTypes
    OBVIOUS
  <2> HIDE DEF R
  <2> QED
    BY <2>2, <2>3
<1>5. Times(st) \subseteq Nat
  BY <1>4 DEF Times
<1> QED
  BY <1>1, <1>2, <1>3, <1>4, <1>5

LEMMA TimesIs ==
  ASSUME NEW st, NEW t
  PROVE  t \in Times(st) <=> \E i \in DOMAIN st.snapshots :
                               st.snapshots[i].captured /\ st.snapshots[i].time = t
BY DEF Times

(* What load() finds at a time is the same in two stacks, but for hulls    *)
(* that one of them has let go.                                            *)
SameMoment(su, st, t) ==
  /\ \A m \in Mutables : SameAt(su.mutables[m], st.mutables[m], t)
  /\ \A id \in DOMAIN su.immutables : DefinedAt(su.immutables[id], t) =>
       id \in DOMAIN st.immutables /\ DefinedAt(st.immutables[id], t)
  /\ \A id \in DOMAIN st.immutables : DefinedAt(st.immutables[id], t) =>
       IF id \in DOMAIN su.immutables THEN DefinedAt(su.immutables[id], t)
                                      ELSE id.addr \in HullAddrs
  /\ \A o \in Objects : \A i \in DOMAIN st.mutables[o] :
       LET id == st.mutables[o][i].data.id
       IN id \in DOMAIN su.immutables => id \in DOMAIN st.immutables

LEMMA LoadedData ==
  ASSUME NEW st, StackType(st), NEW t \in Nat, NEW m \in Mutables, DefinedAt(st.mutables[m], t)
  PROVE  \E i \in DOMAIN st.mutables[m] :
           /\ IntervalAt(st.mutables[m], t) = st.mutables[m][i]
           /\ st.mutables[m][i].b <= t /\ t < st.mutables[m][i].e
           /\ st.mutables[m][i].data \in DataOf(m)
<1>1. PICK i \in DOMAIN st.mutables[m] : st.mutables[m][i].b <= t /\ t < st.mutables[m][i].e
  BY DEF DefinedAt
<1>2. IntervalAt(st.mutables[m], t) = st.mutables[m][i]
  BY <1>1, StackFields, IntervalIs
<1> QED
  BY <1>1, <1>2, StackFields

LEMMA ObjectFacts ==
  /\ Objects \subseteq Mutables /\ {"Model", "GLGizmosManager"} \subseteq Mutables
  /\ \A o \in Objects : DataOf(o) = [shape : Shapes, id : [addr : AddrsOf(o), at : Nat]]
  /\ DataOf("Model") = SUBSET Objects /\ DataOf("GLGizmosManager") = BOOLEAN
  /\ \A o \in Objects : AddrsOf(o) \subseteq Addrs
  /\ \A o \in Objects : \A a \in AddrsOf(o) : a \in HullAddrs => o \in Hulled
  /\ \A o \in Hulled : AddrsOf(o) = HullAddrs
  /\ Absent \notin Addrs \cup Shapes
BY StackAssumption DEF Mutables, DataOf, ObjectData, AddrsOf, Addrs

LEMMA MomentKept ==
  ASSUME NEW st, NEW su, StackType(st), StackType(su), NEW t \in Nat, SameMoment(su, st, t),
         Loadable(st, t), Recorded(st, t)
  PROVE  /\ Loadable(su, t) /\ Recorded(su, t)
         /\ ObjectsAt(su, t) = ObjectsAt(st, t)
         /\ \A o \in ObjectsAt(st, t) : o \in Objects /\ Loaded(su, o, t) = Loaded(st, o, t)
         /\ IntervalAt(su.mutables["GLGizmosManager"], t).data
              = IntervalAt(st.mutables["GLGizmosManager"], t).data
<1>1. \A m \in Mutables : SameAt(su.mutables[m], st.mutables[m], t)
  BY DEF SameMoment
<1>2. \A m \in {"Model", "GLGizmosManager"} :
        DefinedAt(st.mutables[m], t) /\ DefinedAt(su.mutables[m], t)
        /\ IntervalAt(su.mutables[m], t).data = IntervalAt(st.mutables[m], t).data
  BY <1>1, ObjectFacts DEF Loadable, SameAt
<1>3. ObjectsAt(su, t) = ObjectsAt(st, t)
  BY <1>2 DEF ObjectsAt
<1>4. ObjectsAt(st, t) \subseteq Objects
  BY <1>2, LoadedData, ObjectFacts DEF ObjectsAt
<1>5. \A o \in ObjectsAt(st, t) : DefinedAt(st.mutables[o], t)
  BY DEF Loadable
<1>6. \A o \in ObjectsAt(st, t) :
        o \in Objects /\ DefinedAt(su.mutables[o], t) /\ Loaded(su, o, t) = Loaded(st, o, t)
  BY <1>1, <1>4, <1>5, ObjectFacts DEF SameAt, Loaded
<1>7. Loadable(su, t)
  <2>1. ASSUME NEW o \in ObjectsAt(st, t)
        PROVE  LET id == Loaded(st, o, t).id
               IN IF id \in DOMAIN su.immutables THEN DefinedAt(su.immutables[id], t)
                                                 ELSE o \in Hulled
    <3> DEFINE id == Loaded(st, o, t).id
    <3>1. o \in Objects /\ o \in Mutables
      BY <1>6, ObjectFacts
    <3>2. PICK i \in DOMAIN st.mutables[o] :
             IntervalAt(st.mutables[o], t) = st.mutables[o][i] /\ st.mutables[o][i].data \in DataOf(o)
      BY <1>5, <3>1, LoadedData
    <3>3. id = st.mutables[o][i].data.id
      BY <3>2 DEF Loaded
    <3>4. id.addr \in AddrsOf(o)
      <4>1. st.mutables[o][i].data \in [shape : Shapes, id : [addr : AddrsOf(o), at : Nat]]
        BY <3>1, <3>2, ObjectFacts
      <4> QED
        BY <3>3, <4>1
    <3>5. IF id \in DOMAIN st.immutables THEN DefinedAt(st.immutables[id], t) ELSE o \in Hulled
      BY DEF Loadable
    <3>6. id \in DOMAIN su.immutables => id \in DOMAIN st.immutables
      BY <3>1, <3>3 DEF SameMoment
    <3> HIDE DEF id
    <3>7. IF id \in DOMAIN su.immutables THEN DefinedAt(su.immutables[id], t) ELSE o \in Hulled
      BY <3>1, <3>4, <3>5, <3>6, ObjectFacts DEF SameMoment
    <3> QED
      BY <3>7 DEF id
  <2> QED
    BY <1>2, <1>3, <1>6, <2>1 DEF Loadable
<1>8. Recorded(su, t)
  <2>1. ASSUME NEW o \in Objects, DefinedAt(su.mutables[o], t) PROVE o \in ObjectsAt(su, t)
    BY <1>1, <1>3, <2>1, ObjectFacts DEF SameAt, Recorded
  <2>2. ASSUME NEW id \in DOMAIN su.immutables, DefinedAt(su.immutables[id], t)
        PROVE  \E o \in ObjectsAt(su, t) : Loaded(su, o, t).id = id
    <3>1. id \in DOMAIN st.immutables /\ DefinedAt(st.immutables[id], t)
      BY <2>2 DEF SameMoment
    <3> QED
      BY <1>3, <1>6, <3>1 DEF Recorded
  <2> QED
    BY <2>1, <2>2 DEF Recorded
<1> QED
  BY <1>2, <1>3, <1>6, <1>7, <1>8

(* Operations that only let go of something: what a captured snapshot      *)
(* still listed needs stays as it is.                                      *)
DataFrom(g, h) == \A i \in DOMAIN g : \E j \in DOMAIN h : g[i].data = h[j].data

Shrunk(su, st) ==
  /\ StackType(su) /\ ListValid(su) /\ Pointers(su) /\ DataInUse(su)
  /\ su.active = st.active /\ su.current = st.current
  /\ DOMAIN su.immutables \subseteq DOMAIN st.immutables
  /\ Times(su) \subseteq Times(st)
  /\ st.active \in Times(st) => st.active \in Times(su)
  /\ \A m \in Mutables : DataFrom(su.mutables[m], st.mutables[m])
  /\ \A t \in Times(su) : SameMoment(su, st, t)

LEMMA SceneKept ==
  ASSUME NEW st, NEW su, NEW sc, NEW gz, NEW hp, StackType(st), StackType(su), NEW t \in Nat,
         SameMoment(su, st, t), Loadable(st, t), Recorded(st, t),
         DOMAIN su.immutables \subseteq DOMAIN st.immutables,
         SceneIs(st, sc, gz, hp, t)
  PROVE  SceneIs(su, sc, gz, hp, t)
<1>1. /\ ObjectsAt(su, t) = ObjectsAt(st, t)
      /\ \A o \in ObjectsAt(st, t) : Loaded(su, o, t) = Loaded(st, o, t)
      /\ IntervalAt(su.mutables["GLGizmosManager"], t).data
           = IntervalAt(st.mutables["GLGizmosManager"], t).data
  BY MomentKept
<1>2. /\ Present(sc) = ObjectsAt(st, t)
      /\ gz = IntervalAt(st.mutables["GLGizmosManager"], t).data
      /\ \A o \in Present(sc) :
           /\ hp[sc[o]] = Loaded(st, o, t).shape
           /\ Loaded(st, o, t).id \in DOMAIN st.immutables => sc[o] = Loaded(st, o, t).id.addr
  BY DEF SceneIs
<1>3. \A o \in Present(sc) :
           /\ hp[sc[o]] = Loaded(su, o, t).shape
           /\ Loaded(su, o, t).id \in DOMAIN su.immutables => sc[o] = Loaded(su, o, t).id.addr
  BY <1>1, <1>2
<1> QED
  BY <1>1, <1>2, <1>3 DEF SceneIs

LEMMA ShrunkKeeps ==
  ASSUME NEW st, NEW su, StackInv(st), Shrunk(su, st)
  PROVE  /\ StackInv(su)
         /\ \A hp : HeapHolds(st, hp) => HeapHolds(su, hp)
         /\ \A sc, gz, hp : Unchanged(st, sc, gz, hp) => Unchanged(su, sc, gz, hp)
<1>1. /\ StackType(st) /\ StackType(su) /\ Times(su) \subseteq Times(st) /\ Times(st) \subseteq Nat
      /\ DOMAIN su.immutables \subseteq DOMAIN st.immutables
  BY StackFields DEF StackInv, Shrunk
<1>2. \A o \in Objects : \A i \in DOMAIN su.mutables[o] :
        \E j \in DOMAIN st.mutables[o] : su.mutables[o][i].data = st.mutables[o][j].data
  BY ObjectFacts DEF Shrunk, DataFrom
<1>3. IdsPast(su)
  <2>1. \A id \in DOMAIN su.immutables : id.at < su.current
    BY <1>1 DEF StackInv, IdsPast, Shrunk
  <2>2. \A o \in Objects : \A i \in DOMAIN su.mutables[o] : su.mutables[o][i].data.id.at < su.current
    <3>1. ASSUME NEW o \in Objects, NEW i \in DOMAIN su.mutables[o]
          PROVE  su.mutables[o][i].data.id.at < su.current
      <4>1. PICK j \in DOMAIN st.mutables[o] : su.mutables[o][i].data = st.mutables[o][j].data
        BY <1>2
      <4>2. st.mutables[o][j].data.id.at < st.current /\ su.current = st.current
        BY DEF StackInv, IdsPast, Shrunk
      <4> QED
        BY <4>1, <4>2
    <3> QED
      BY <3>1
  <2> QED
    BY <2>1, <2>2 DEF IdsPast
<1>4. \A t \in Times(su) : Loadable(su, t) /\ Recorded(su, t)
  <2>1. ASSUME NEW t \in Times(su) PROVE Loadable(su, t) /\ Recorded(su, t)
    <3>1. t \in Nat /\ Loadable(st, t) /\ Recorded(st, t) /\ SameMoment(su, st, t)
      BY <1>1 DEF StackInv, Shrunk
    <3> QED
      BY <1>1, <3>1, MomentKept
  <2> QED
    BY <2>1
<1>5. StackInv(su)
  BY <1>3, <1>4 DEF StackInv, Shrunk
<1>6. ASSUME NEW hp, HeapHolds(st, hp) PROVE HeapHolds(su, hp)
  <2>1. \A id \in DOMAIN su.immutables : hp[id.addr] \in Shapes
    BY <1>1, <1>6 DEF HeapHolds
  <2>2. ASSUME NEW o \in Objects, NEW i \in DOMAIN su.mutables[o],
               su.mutables[o][i].data.id \in DOMAIN su.immutables
        PROVE  hp[su.mutables[o][i].data.id.addr] = su.mutables[o][i].data.shape
    <3>1. PICK j \in DOMAIN st.mutables[o] : su.mutables[o][i].data = st.mutables[o][j].data
      BY <1>2
    <3>2. st.mutables[o][j].data.id \in DOMAIN st.immutables
      BY <1>1, <2>2, <3>1
    <3> QED
      BY <1>6, <3>1, <3>2 DEF HeapHolds
  <2> QED
    BY <2>1, <2>2 DEF HeapHolds
<1>7. ASSUME NEW sc, NEW gz, NEW hp, Unchanged(st, sc, gz, hp) PROVE Unchanged(su, sc, gz, hp)
  <2>1. CASE st.active \in Times(st)
    <3>1. st.active \in Times(su) /\ su.active = st.active
      BY <2>1 DEF Shrunk
    <3>2. SceneIs(st, sc, gz, hp, st.active)
      BY <1>7, <2>1 DEF Unchanged
    <3>3. /\ st.active \in Nat /\ SameMoment(su, st, st.active)
          /\ Loadable(st, st.active) /\ Recorded(st, st.active)
      BY <1>1, <2>1, <3>1 DEF Shrunk, StackInv
    <3>4. SceneIs(su, sc, gz, hp, st.active)
      BY <1>1, <3>2, <3>3, SceneKept
    <3> QED
      BY <3>1, <3>4 DEF Unchanged
  <2>2. CASE st.active \notin Times(st)
    <3>1. \A t \in Times(st) : t < st.active
      BY <1>7, <2>2 DEF Unchanged
    <3>2. su.active \notin Times(su) /\ \A t \in Times(su) : t < su.active
      BY <1>1, <2>2, <3>1 DEF Shrunk
    <3> QED
      BY <3>2 DEF Unchanged
  <2> QED
    BY <2>1, <2>2
<1> QED
  BY <1>5, <1>6, <1>7

(* The two maps stay in step when objects without history are collected.   *)
InStep(ids, immutables) ==
  /\ DOMAIN ids = {id.addr : id \in DOMAIN immutables}
  /\ \A a \in DOMAIN ids : ids[a].addr = a /\ ids[a] \in DOMAIN immutables
  /\ \A i, j \in DOMAIN immutables : i.addr = j.addr => i = j

LEMMA CollectFields ==
  ASSUME NEW st, NEW imm,
         st = [snapshots |-> st.snapshots, mutables |-> st.mutables, immutables |-> st.immutables,
               ids |-> st.ids, active |-> st.active, current |-> st.current]
  PROVE  LET su == CollectGarbage(st, imm)
         IN /\ su = [snapshots |-> su.snapshots, mutables |-> su.mutables,
                     immutables |-> su.immutables, ids |-> su.ids,
                     active |-> su.active, current |-> su.current]
            /\ su.snapshots = st.snapshots /\ su.mutables = st.mutables
            /\ su.active = st.active /\ su.current = st.current
            /\ DOMAIN su.immutables = {id \in DOMAIN imm : imm[id] # <<>>}
            /\ \A id \in DOMAIN su.immutables : su.immutables[id] = imm[id]
            /\ DOMAIN su.ids \subseteq DOMAIN st.ids
            /\ InStep(st.ids, imm) => Pointers(su)
<1> DEFINE left == {id \in DOMAIN imm : imm[id] # <<>>}
           gone == {id.addr : id \in DOMAIN imm \ left}
           keptI == [id \in left |-> imm[id]]
           keptA == [a \in DOMAIN st.ids \ gone |-> st.ids[a]]
           su == CollectGarbage(st, imm)
<1>1. su = [st EXCEPT !.immutables = keptI, !.ids = keptA]
  BY DEF CollectGarbage
<1> HIDE DEF su, keptI, keptA
<1>2. su = [snapshots |-> st.snapshots, mutables |-> st.mutables, immutables |-> keptI,
            ids |-> keptA, active |-> st.active, current |-> st.current]
  BY <1>1
<1>3. /\ su.snapshots = st.snapshots /\ su.mutables = st.mutables /\ su.immutables = keptI
      /\ su.ids = keptA /\ su.active = st.active /\ su.current = st.current
  BY <1>2
<1>4. DOMAIN keptI = left /\ \A id \in left : keptI[id] = imm[id]
  BY DEF keptI
<1>5. DOMAIN keptA = DOMAIN st.ids \ gone /\ \A a \in DOMAIN keptA : keptA[a] = st.ids[a]
  BY DEF keptA
<1>6. ASSUME InStep(st.ids, imm) PROVE Pointers(su)
  <2>1. /\ DOMAIN st.ids = {id.addr : id \in DOMAIN imm}
        /\ \A a \in DOMAIN st.ids : st.ids[a].addr = a /\ st.ids[a] \in DOMAIN imm
        /\ \A i, j \in DOMAIN imm : i.addr = j.addr => i = j
    BY <1>6 DEF InStep
  <2>2. ASSUME NEW a \in DOMAIN keptA
        PROVE  a \in DOMAIN st.ids /\ keptA[a].addr = a /\ keptA[a] \in left
    <3>1. a \in DOMAIN st.ids /\ a \notin gone /\ keptA[a] = st.ids[a]
      BY <1>5
    <3>2. st.ids[a].addr = a /\ st.ids[a] \in DOMAIN imm
      BY <2>1, <3>1
    <3> QED
      BY <3>1, <3>2
  <2>3. ASSUME NEW id \in left PROVE id.addr \in DOMAIN keptA
    <3>1. id.addr \in DOMAIN st.ids
      BY <2>1
    <3>2. id.addr \notin gone
      BY <2>1
    <3> QED
      BY <1>5, <3>1, <3>2
  <2>4. DOMAIN keptA = {id.addr : id \in left}
    <3> HIDE DEF left
    <3> QED
      BY <2>2, <2>3
  <2>5. \A i, j \in left : i.addr = j.addr => i = j
    BY <2>1
  <2> HIDE DEF left
  <2> QED
    BY <1>3, <1>4, <2>2, <2>4, <2>5 DEF Pointers
<1>7. DOMAIN su.immutables = left /\ \A id \in DOMAIN su.immutables : su.immutables[id] = imm[id]
  BY <1>3, <1>4
<1>8. DOMAIN su.ids \subseteq DOMAIN st.ids
  BY <1>3, <1>5
<1>9. su = [snapshots |-> su.snapshots, mutables |-> su.mutables, immutables |-> su.immutables,
            ids |-> su.ids, active |-> su.active, current |-> su.current]
  BY <1>2, <1>3
<1> QED
  BY <1>3, <1>6, <1>7, <1>8, <1>9 DEF su

(* The place of a time in the list.                                        *)
LEMMA LowerBoundFacts ==
  ASSUME NEW st, StackType(st), ListValid(st), NEW t \in Nat
  PROVE  /\ LowerBound(st.snapshots, t) \in 1 .. Len(st.snapshots) + 1
         /\ \A i \in DOMAIN st.snapshots :
              st.snapshots[i].time < t <=> i < LowerBound(st.snapshots, t)
         /\ \A i \in DOMAIN st.snapshots :
              st.snapshots[i].time = t => LowerBound(st.snapshots, t) = i
<1> DEFINE ss == st.snapshots
           n == Len(ss)
           S == {i \in DOMAIN ss : ss[i].time < t}
           c == LowerBound(ss, t)
<1>1. DOMAIN ss = 1 .. n /\ n \in Nat /\ \A i \in DOMAIN ss : ss[i].time \in Nat
  BY StackFields
<1>2. \A i, j \in DOMAIN ss : i < j => ss[i].time < ss[j].time
  BY DEF ListValid
<1> HIDE DEF ss, n
<1>3. S \in SUBSET (1 .. n)
  BY <1>1
<1>4. \A i \in S : \A j \in 1 .. i : j \in S
  BY <1>1, <1>2
<1>5. c = Cardinality(S) + 1
  BY DEF LowerBound
<1>6. \A i \in DOMAIN ss : ss[i].time < t <=> i \in S
  OBVIOUS
<1>7. Cardinality(S) \in 0 .. n /\ S = 1 .. Cardinality(S)
  <2> HIDE DEF S
  <2> QED
    BY <1>1, <1>3, <1>4, CountPrefix
<1> HIDE DEF S, c
<1>8. c \in 1 .. n + 1 /\ \A i \in DOMAIN ss : ss[i].time < t <=> i < c
  BY <1>1, <1>5, <1>6, <1>7
<1>9. ASSUME NEW i \in DOMAIN ss, ss[i].time = t PROVE c = i
  <2>1. ~(i < c)
    BY <1>8, <1>9
  <2>2. ASSUME i > c PROVE FALSE
    <3>1. c \in DOMAIN ss /\ c < i
      BY <1>1, <1>8, <2>2
    <3>2. ss[c].time < t
      BY <1>2, <1>9, <3>1
    <3> QED
      BY <1>1, <1>8, <3>1, <3>2
  <2> QED
    BY <1>1, <1>8, <2>1, <2>2
<1> QED
  BY <1>8, <1>9 DEF ss, n, c

-----------------------------------------------------------------------------
(* release_least_recently_used()                                           *)
Forgotten(h, n, first) == IF n = 0 THEN h ELSE ReleaseBefore(h, first)

LEMMA ForgottenFacts ==
  ASSUME NEW A \in Records, NEW h \in Seq(A), Sorted(h), NEW n \in Nat, NEW first \in Nat
  PROVE  LET g == Forgotten(h, n, first)
         IN /\ g \in Seq(A) /\ Sorted(g)
            /\ \A u \in Nat : first <= u => /\ DefinedAt(g, u) <=> DefinedAt(h, u)
                                            /\ A # Lifetimes => SameAt(g, h, u)
            /\ \A i \in DOMAIN g : \E j \in DOMAIN h :
                 /\ A # Lifetimes => g[i].data = h[j].data
                 /\ n # 0 => first < h[j].e
                 /\ \A u \in Nat : first <= u /\ h[j].b <= u /\ u < h[j].e =>
                      g[i].b <= u /\ u < g[i].e
<1>1. CASE n = 0
  BY <1>1 DEF SameAt, Forgotten
<1>2. CASE n # 0
  <2> DEFINE g == ReleaseBefore(h, first)
  <2>1. /\ g \in Seq(A) /\ Sorted(g)
        /\ \A i \in DOMAIN g : \E j \in DOMAIN h :
             /\ h[j].e > first /\ g[i].b = Larger(h[j].b, first) /\ g[i].e = h[j].e
             /\ A # Lifetimes => g[i].data = h[j].data
    BY ReleaseBeforeFacts
  <2>2. \A i \in DOMAIN h : h[i].b \in Nat /\ h[i].e \in Nat
    BY HistoryBounds
  <2>3. \A u \in Nat : first <= u => /\ DefinedAt(g, u) <=> DefinedAt(h, u)
                                     /\ A # Lifetimes => SameAt(g, h, u)
    BY BeforeSame
  <2> HIDE DEF g
  <2>4. ASSUME NEW i \in DOMAIN g
        PROVE  \E j \in DOMAIN h :
                 /\ A # Lifetimes => g[i].data = h[j].data
                 /\ n # 0 => first < h[j].e
                 /\ \A u \in Nat : first <= u /\ h[j].b <= u /\ u < h[j].e =>
                      g[i].b <= u /\ u < g[i].e
    <3>1. PICK j \in DOMAIN h :
             /\ h[j].e > first /\ g[i].b = Larger(h[j].b, first) /\ g[i].e = h[j].e
             /\ A # Lifetimes => g[i].data = h[j].data
      BY <2>1
    <3>2. \A u \in Nat : first <= u /\ h[j].b <= u /\ u < h[j].e => g[i].b <= u /\ u < g[i].e
      BY <2>2, <3>1 DEF Larger
    <3>3. first < h[j].e
      BY <2>2, <3>1
    <3> QED
      BY <3>1, <3>2, <3>3
  <2> QED
    BY <1>2, <2>1, <2>3, <2>4 DEF g, Forgotten
<1> QED
  BY <1>1, <1>2

LEMMA ReleaseShrinks ==
  ASSUME NEW st, StackInv(st), ActiveListed(st), NEW held,
         NEW hulls \in SUBSET Releasable(st, held), NEW n \in 0 .. ActiveIndex(st) - 2
  PROVE  /\ Shrunk(ReleaseLeastRecentlyUsed(st, hulls, n), st)
         /\ ActiveListed(ReleaseLeastRecentlyUsed(st, hulls, n))
         /\ DOMAIN ReleaseLeastRecentlyUsed(st, hulls, n).mutables = Mutables
<1> DEFINE ss == st.snapshots
           first == ss[n + 1].time
           F(h) == Forgotten(h, n, first)
           imm == [id \in DOMAIN st.immutables |->
                       IF id \in hulls THEN <<>>
                       ELSE IF n = 0 THEN st.immutables[id]
                       ELSE ReleaseBefore(st.immutables[id], first)]
           mut == [m \in Mutables |->
                     IF n = 0 THEN st.mutables[m] ELSE ReleaseBefore(st.mutables[m], first)]
           cut == SubSeq(ss, n + 1, Len(ss))
           mid == [st EXCEPT !.snapshots = cut, !.mutables = mut]
           su == ReleaseLeastRecentlyUsed(st, hulls, n)
<1>1. /\ StackType(st) /\ ListValid(st) /\ Pointers(st) /\ DataInUse(st)
      /\ \A t \in Times(st) : Loadable(st, t) /\ Recorded(st, t)
  BY DEF StackInv
<1>2. su = CollectGarbage(mid, imm)
  BY DEF ReleaseLeastRecentlyUsed
<1>3. mid = [snapshots |-> cut, mutables |-> mut, immutables |-> st.immutables,
             ids |-> st.ids, active |-> st.active, current |-> st.current]
  <2>1. st = [snapshots |-> st.snapshots, mutables |-> st.mutables, immutables |-> st.immutables,
              ids |-> st.ids, active |-> st.active, current |-> st.current]
    BY <1>1 DEF StackType
  <2>2. mid = [st EXCEPT !.snapshots = cut, !.mutables = mut]
    OBVIOUS
  <2> HIDE DEF cut, mut, mid
  <2> QED
    BY <2>1, <2>2
<1> HIDE DEF mid
<1>4. /\ mid = [snapshots |-> mid.snapshots, mutables |-> mid.mutables,
               immutables |-> mid.immutables, ids |-> mid.ids,
               active |-> mid.active, current |-> mid.current]
      /\ mid.snapshots = cut /\ mid.mutables = mut /\ mid.ids = st.ids
      /\ mid.active = st.active /\ mid.current = st.current
  <2> HIDE DEF cut, mut
  <2> QED
    BY <1>3
<1>5. InStep(mid.ids, imm)
  <2>1. DOMAIN imm = DOMAIN st.immutables
    OBVIOUS
  <2> HIDE DEF imm
  <2> QED
    BY <1>1, <1>4, <2>1 DEF InStep, Pointers
<1>6. /\ su = [snapshots |-> su.snapshots, mutables |-> su.mutables,
               immutables |-> su.immutables, ids |-> su.ids,
               active |-> su.active, current |-> su.current]
      /\ su.snapshots = cut /\ su.mutables = mut
      /\ su.active = st.active /\ su.current = st.current
      /\ DOMAIN su.immutables = {id \in DOMAIN imm : imm[id] # <<>>}
      /\ \A id \in DOMAIN su.immutables : su.immutables[id] = imm[id]
      /\ DOMAIN su.ids \subseteq DOMAIN st.ids
      /\ Pointers(su)
  <2> HIDE DEF su, imm, cut, mut
  <2> QED
    BY <1>2, <1>4, <1>5, CollectFields
<1>7. PICK k \in 2 .. Len(ss) : ss[k].time = st.active
  BY DEF ActiveListed
<1>8. /\ DOMAIN ss = 1 .. Len(ss) /\ Len(ss) \in Nat
      /\ \A i \in DOMAIN ss : ss[i].time \in Nat
      /\ \A i, j \in DOMAIN ss : i < j => ss[i].time < ss[j].time
      /\ \A i \in DOMAIN ss : ss[i].captured \/ i = Len(ss)
      /\ st.active \in Nat
  BY <1>1, StackFields DEF ListValid, StackType
<1>9. ActiveIndex(st) = k
  BY <1>1, <1>7, <1>8, LowerBoundFacts DEF ActiveIndex
<1>10. n \in Nat /\ n + 2 <= k /\ k <= Len(ss) /\ n + 1 \in DOMAIN ss /\ ss[n + 1].captured
  BY <1>7, <1>8, <1>9
<1>11. first \in Nat /\ first \in Times(st)
  BY <1>8, <1>10, TimesIs
<1>12. /\ cut \in Seq([time : Nat, type : SnapshotTypes, captured : BOOLEAN])
       /\ DOMAIN cut = 1 .. Len(ss) - n /\ Len(cut) = Len(ss) - n
       /\ \A i \in 1 .. Len(ss) - n : cut[i] = ss[i + n]
  <2> DEFINE R == [time : Nat, type : SnapshotTypes, captured : BOOLEAN]
             L == Len(ss)
  <2>1. ss \in Seq(R)
    BY <1>1 DEF StackType
  <2> HIDE DEF ss, R, cut
  <2>2. \A i \in n + 1 .. L : ss[i] \in R
    BY <1>10, <2>1
  <2>3. L \in Nat /\ n \in Nat /\ n + 1 <= L
    BY <1>8, <1>10
  <2>4. /\ cut \in Seq(R)
        /\ Len(cut) = L - (n + 1) + 1
        /\ \A i \in 1 .. L - (n + 1) + 1 : cut[i] = ss[n + 1 + i - 1]
    BY <2>2, <2>3, SubSeqProperties DEF cut
  <2> HIDE DEF L
  <2>5. L - (n + 1) + 1 = L - n /\ \A i \in 1 .. L - n : n + 1 + i - 1 = i + n
    BY <2>3
  <2>6. DOMAIN cut = 1 .. Len(cut)
    BY <2>4
  <2> QED
    BY <2>4, <2>5, <2>6 DEF R, L
<1> HIDE DEF cut
<1>13. \A m \in Mutables : mut[m] = F(st.mutables[m])
  BY DEF Forgotten
<1>14. \A id \in DOMAIN su.immutables :
         /\ id \in DOMAIN st.immutables /\ id \notin hulls
         /\ su.immutables[id] = F(st.immutables[id])
  BY <1>6 DEF Forgotten
<1>15. ASSUME NEW id \in DOMAIN st.immutables, id \notin DOMAIN su.immutables
       PROVE  id \in hulls \/ F(st.immutables[id]) = <<>>
  BY <1>6, <1>15 DEF Forgotten
<1>16. ASSUME NEW m \in Mutables
       PROVE  LET g == mut[m]
                  h == st.mutables[m]
              IN /\ g \in Seq(Saved(m)) /\ Sorted(g)
                 /\ \A u \in Nat : first <= u => SameAt(g, h, u)
                 /\ \A i \in DOMAIN g : \E j \in DOMAIN h :
                      /\ g[i].data = h[j].data
                      /\ n # 0 => first < h[j].e
                      /\ \A u \in Nat : first <= u /\ h[j].b <= u /\ u < h[j].e =>
                           g[i].b <= u /\ u < g[i].e
  <2>1. /\ Saved(m) \in Records /\ Saved(m) # Lifetimes
        /\ st.mutables[m] \in Seq(Saved(m)) /\ Sorted(st.mutables[m])
    BY <1>1, StackFields
  <2> DEFINE h == st.mutables[m]
             A == Saved(m)
             g == F(h)
  <2>2. mut[m] = g
    BY <1>13
  <2>4. A \in Records /\ h \in Seq(A) /\ Sorted(h)
    BY <2>1
  <2> HIDE DEF first, h, A, mut
  <2>3. /\ g \in Seq(A) /\ Sorted(g)
        /\ \A u \in Nat : first <= u => /\ DefinedAt(g, u) <=> DefinedAt(h, u)
                                        /\ A # Lifetimes => SameAt(g, h, u)
        /\ \A i \in DOMAIN g : \E j \in DOMAIN h :
             /\ A # Lifetimes => g[i].data = h[j].data
             /\ n # 0 => first < h[j].e
             /\ \A u \in Nat : first <= u /\ h[j].b <= u /\ u < h[j].e =>
                  g[i].b <= u /\ u < g[i].e
    BY <1>10, <1>11, <2>4, ForgottenFacts
  <2> HIDE DEF g
  <2> QED
    BY <2>1, <2>2, <2>3 DEF h, A
<1>17. ASSUME NEW id \in DOMAIN st.immutables
       PROVE  LET g == F(st.immutables[id])
                  h == st.immutables[id]
              IN /\ g \in Seq(Lifetimes) /\ Sorted(g)
                 /\ \A u \in Nat : first <= u => (DefinedAt(g, u) <=> DefinedAt(h, u))
                 /\ \A i \in DOMAIN g : \E j \in DOMAIN h :
                      /\ n # 0 => first < h[j].e
                      /\ \A u \in Nat : first <= u /\ h[j].b <= u /\ u < h[j].e =>
                           g[i].b <= u /\ u < g[i].e
  <2>1. /\ Lifetimes \in Records
        /\ st.immutables[id] \in Seq(Lifetimes) /\ Sorted(st.immutables[id])
    BY <1>1, StackFields
  <2> DEFINE h == st.immutables[id]
             A == Lifetimes
             g == F(h)
  <2>4. A \in Records /\ h \in Seq(A) /\ Sorted(h)
    BY <2>1
  <2> HIDE DEF first, h, A
  <2>3. /\ g \in Seq(A) /\ Sorted(g)
        /\ \A u \in Nat : first <= u => /\ DefinedAt(g, u) <=> DefinedAt(h, u)
                                        /\ A # Lifetimes => SameAt(g, h, u)
        /\ \A i \in DOMAIN g : \E j \in DOMAIN h :
             /\ A # Lifetimes => g[i].data = h[j].data
             /\ n # 0 => first < h[j].e
             /\ \A u \in Nat : first <= u /\ h[j].b <= u /\ u < h[j].e =>
                  g[i].b <= u /\ u < g[i].e
    BY <1>10, <1>11, <2>4, ForgottenFacts
  <2> HIDE DEF g
  <2> QED
    BY <2>1, <2>3 DEF h, A, g
<1> HIDE DEF su, mut, imm, F
<1>18. \A i \in DOMAIN cut : i + n \in DOMAIN ss /\ cut[i] = ss[i + n]
  BY <1>8, <1>10, <1>12
<1>19. ListValid(su)
  <2>1. ASSUME NEW i \in DOMAIN cut, NEW j \in DOMAIN cut, i < j
        PROVE  cut[i].time < cut[j].time
    <3>1. i + n < j + n
      BY <1>10, <1>12, <2>1
    <3> QED
      BY <1>8, <1>18, <3>1
  <2>2. ASSUME NEW i \in DOMAIN cut
        PROVE  /\ cut[i].time <= st.current
               /\ ~cut[i].captured => i = Len(cut) /\ cut[i].time = st.active
    <3>1. /\ ss[i + n].time <= st.current
          /\ ~ss[i + n].captured => i + n = Len(ss) /\ ss[i + n].time = st.active
      BY <1>1, <1>18 DEF ListValid
    <3>2. i + n = Len(ss) => i = Len(cut)
      BY <1>8, <1>10, <1>12
    <3> QED
      BY <1>18, <3>1, <3>2
  <2> QED
    BY <1>6, <2>1, <2>2 DEF ListValid
<1>20. ActiveListed(su)
  <2>1. k - n \in 2 .. Len(cut) /\ cut[k - n] = ss[k]
    <3>1. k - n \in DOMAIN cut /\ k - n \in 2 .. Len(cut) /\ (k - n) + n = k
      BY <1>8, <1>10, <1>12, <1>7
    <3> QED
      BY <1>18, <3>1
  <2> QED
    BY <1>6, <1>7, <2>1 DEF ActiveListed
<1>21. \A t : t \in Times(su) <=> t \in Times(st) /\ first <= t
  <2>1. ASSUME NEW t \in Times(su) PROVE t \in Times(st) /\ first <= t
    <3>1. PICK i \in DOMAIN cut : cut[i].captured /\ cut[i].time = t
      BY <1>6, TimesIs
    <3>2. i + n \in DOMAIN ss /\ ss[i + n].captured /\ ss[i + n].time = t
      BY <1>18, <3>1
    <3>3. i + n = n + 1 \/ n + 1 < i + n
      BY <1>10, <1>12, <3>1
    <3> QED
      BY <1>8, <1>10, <3>2, <3>3, TimesIs
  <2>2. ASSUME NEW t \in Times(st), first <= t PROVE t \in Times(su)
    <3>1. PICK i \in DOMAIN ss : ss[i].captured /\ ss[i].time = t
      BY TimesIs
    <3>2. ~(i < n + 1)
      BY <1>8, <1>10, <2>2, <3>1
    <3>3. i - n \in DOMAIN cut /\ (i - n) + n = i
      BY <1>8, <1>10, <1>12, <3>2
    <3>4. cut[i - n] = ss[i]
      BY <1>18, <3>3
    <3> QED
      BY <1>6, <3>1, <3>3, <3>4, TimesIs
  <2> QED
    BY <2>1, <2>2
<1>22. StackType(su)
  <2>1. \A m \in Mutables : su.mutables[m] \in Seq(Saved(m)) /\ Sorted(su.mutables[m])
    BY <1>6, <1>16
  <2>2. \A id \in DOMAIN su.immutables :
          /\ su.immutables[id] \in Seq(Lifetimes) /\ Sorted(su.immutables[id])
          /\ id \in [addr : Addrs, at : Nat]
    BY <1>1, <1>14, <1>17 DEF StackType
  <2>3. DOMAIN su.ids \subseteq Addrs /\ su.active \in Nat /\ su.current \in Nat
        /\ su.active <= su.current
    BY <1>1, <1>6 DEF StackType
  <2>4. su.snapshots \in Seq([time : Nat, type : SnapshotTypes, captured : BOOLEAN])
    BY <1>6, <1>12
  <2>5. DOMAIN su.immutables \subseteq [addr : Addrs, at : Nat]
    BY <2>2
  <2> QED
    BY <1>6, <2>1, <2>2, <2>3, <2>4, <2>5 DEF StackType
<1>23. Times(st) \subseteq Nat /\ (n = 0 => \A t \in Times(st) : first <= t)
  <2>1. ASSUME n = 0, NEW t \in Times(st) PROVE first <= t
    <3>1. PICK i \in DOMAIN ss : ss[i].captured /\ ss[i].time = t
      BY TimesIs
    <3>2. i = 1 \/ 1 < i
      BY <1>8
    <3> QED
      BY <1>8, <1>10, <2>1, <3>1, <3>2
  <2> QED
    BY <1>1, <2>1, StackFields
<1> HIDE DEF first
<1>24. ASSUME NEW b, NEW e, NEW gb, NEW ge, \E t \in Times(st) : b <= t /\ t < e,
              b \in Nat, e \in Nat, n # 0 => first < e,
              \A u \in Nat : first <= u /\ b <= u /\ u < e => gb <= u /\ u < ge
       PROVE  \E t \in Times(su) : gb <= t /\ t < ge
  <2>1. PICK t \in Times(st) : b <= t /\ t < e
    BY <1>24
  <2>2. CASE first <= t
    BY <1>21, <1>23, <1>24, <2>1, <2>2
  <2>3. CASE ~(first <= t)
    <3>1. n # 0 /\ b <= first /\ first < e
      BY <1>11, <1>23, <1>24, <2>1, <2>3
    <3>2. gb <= first /\ first < ge
      BY <1>11, <1>24, <3>1
    <3> QED
      BY <1>11, <1>21, <3>2
  <2> QED
    BY <2>2, <2>3
<1>25. DataInUse(su)
  <2>1. ASSUME NEW m \in Mutables \ Hulled PROVE InUse(su, su.mutables[m])
    <3>1. ASSUME NEW i \in DOMAIN mut[m]
          PROVE  \E t \in Times(su) : mut[m][i].b <= t /\ t < mut[m][i].e
      <4>1. PICK j \in DOMAIN st.mutables[m] :
              /\ n # 0 => first < st.mutables[m][j].e
              /\ \A u \in Nat : first <= u /\ st.mutables[m][j].b <= u /\ u < st.mutables[m][j].e =>
                   mut[m][i].b <= u /\ u < mut[m][i].e
        BY <1>16
      <4>2. \E t \in Times(st) : st.mutables[m][j].b <= t /\ t < st.mutables[m][j].e
        BY <1>1 DEF DataInUse, InUse
      <4>3. st.mutables[m][j].b \in Nat /\ st.mutables[m][j].e \in Nat
        BY <1>1, StackFields
      <4> QED
        BY <1>24, <4>1, <4>2, <4>3
    <3> QED
      BY <1>6, <3>1 DEF InUse
  <2>2. ASSUME NEW id \in DOMAIN su.immutables PROVE InUse(su, su.immutables[id])
    <3> DEFINE g == su.immutables[id]
               h == st.immutables[id]
    <3>1. id \in DOMAIN st.immutables /\ g = F(h)
      BY <1>14
    <3>2. ASSUME NEW i \in DOMAIN g PROVE \E t \in Times(su) : g[i].b <= t /\ t < g[i].e
      <4>1. PICK j \in DOMAIN h :
              /\ n # 0 => first < h[j].e
              /\ \A u \in Nat : first <= u /\ h[j].b <= u /\ u < h[j].e =>
                   g[i].b <= u /\ u < g[i].e
        BY <1>17, <3>1
      <4>2. \E t \in Times(st) : h[j].b <= t /\ t < h[j].e
        BY <1>1, <3>1 DEF DataInUse, InUse
      <4>3. h[j].b \in Nat /\ h[j].e \in Nat
        BY <1>1, <3>1, StackFields
      <4> HIDE DEF g, h
      <4> QED
        BY <1>24, <4>1, <4>2, <4>3
    <3> QED
      BY <3>2 DEF InUse
  <2> QED
    BY <2>1, <2>2 DEF DataInUse
<1>26. ASSUME NEW t \in Times(su) PROVE SameMoment(su, st, t)
  <2>1. t \in Nat /\ first <= t
    BY <1>21, <1>23
  <2>2. \A m \in Mutables : SameAt(su.mutables[m], st.mutables[m], t)
    BY <1>6, <1>16, <2>1
  <2>3. \A id \in DOMAIN su.immutables :
          id \in DOMAIN st.immutables
          /\ (DefinedAt(su.immutables[id], t) <=> DefinedAt(st.immutables[id], t))
    BY <1>14, <1>17, <2>1
  <2>4. ASSUME NEW id \in DOMAIN st.immutables, DefinedAt(st.immutables[id], t),
               id \notin DOMAIN su.immutables
        PROVE  id.addr \in HullAddrs
    <3>1. DefinedAt(F(st.immutables[id]), t)
      BY <1>17, <2>1, <2>4
    <3>2. F(st.immutables[id]) # <<>>
      BY <3>1 DEF DefinedAt
    <3> QED
      BY <1>15, <2>4, <3>2 DEF Releasable
  <2> QED
    BY <2>2, <2>3, <2>4 DEF SameMoment
<1>27. \A m \in Mutables : DataFrom(su.mutables[m], st.mutables[m])
  BY <1>6, <1>16 DEF DataFrom
<1>28. st.active \in Times(st) => st.active \in Times(su)
  <2>1. first <= st.active
    <3>1. n + 1 < k /\ k \in DOMAIN ss
      BY <1>7, <1>8, <1>10
    <3> QED
      BY <1>7, <1>8, <1>10, <3>1 DEF first
  <2> QED
    BY <1>21, <2>1
<1>29. DOMAIN su.immutables \subseteq DOMAIN st.immutables /\ Times(su) \subseteq Times(st)
  BY <1>14, <1>21
<1>30. Shrunk(su, st)
  BY <1>6, <1>19, <1>22, <1>25, <1>26, <1>27, <1>28, <1>29 DEF Shrunk
<1>31. DOMAIN su.mutables = Mutables
  BY <1>6 DEF mut
<1> QED
  BY <1>20, <1>30, <1>31 DEF su

-----------------------------------------------------------------------------
(* reduce_noisy_snapshots()                                                *)
LEMMA EntriesOfHistory ==
  ASSUME NEW A \in Records, NEW h \in Seq(A), Sorted(h), NEW K \in SUBSET DOMAIN h
  PROVE  /\ Entries(h, K) \in Seq(A) /\ Sorted(Entries(h, K))
         /\ \A i \in DOMAIN Entries(h, K) : \E j \in K : Entries(h, K)[i] = h[j]
         /\ \A j \in K : \E i \in DOMAIN Entries(h, K) : Entries(h, K)[i] = h[j]
<1> DEFINE g == Entries(h, K)
<1>1. g \in Seq(A) /\ \E f \in [DOMAIN g -> K] :
              /\ \A p \in DOMAIN g : g[p] = h[f[p]]
              /\ \A p, q \in DOMAIN g : p < q => f[p] < f[q]
              /\ \A i \in K : \E p \in DOMAIN g : f[p] = i
  BY EntriesFacts
<1> HIDE DEF g
<1>2. PICK f \in [DOMAIN g -> K] :
              /\ \A p \in DOMAIN g : g[p] = h[f[p]]
              /\ \A p, q \in DOMAIN g : p < q => f[p] < f[q]
              /\ \A i \in K : \E p \in DOMAIN g : f[p] = i
  BY <1>1
<1>3. \A p \in DOMAIN g : f[p] \in K /\ f[p] \in DOMAIN h
  BY <1>2
<1>4. Sorted(g)
  <2>1. \A p \in DOMAIN g : g[p].b < g[p].e
    BY <1>2, <1>3 DEF Sorted
  <2>2. ASSUME NEW p \in DOMAIN g, NEW q \in DOMAIN g, p < q PROVE g[p].e <= g[q].b
    <3>1. f[p] < f[q] /\ g[p] = h[f[p]] /\ g[q] = h[f[q]]
      BY <1>2, <2>2
    <3> QED
      BY <1>3, <3>1 DEF Sorted
  <2> QED
    BY <2>1, <2>2 DEF Sorted
<1>5. \A i \in DOMAIN g : \E j \in K : g[i] = h[j]
  BY <1>2, <1>3
<1>6. \A j \in K : \E i \in DOMAIN g : g[i] = h[j]
  BY <1>2
<1> QED
  BY <1>1, <1>4, <1>5, <1>6 DEF g

Clean(ss) == {i \in DOMAIN ss : \A r \in NoisyRows(ss) : i \notin r[1] + 1 .. r[2]}

(* A row ends before the last two snapshots, and what bounds it is kept.   *)
LEMMA RowFacts ==
  ASSUME NEW ss, NEW n \in Nat, DOMAIN ss = 1 .. n, Len(ss) = n, NEW r \in NoisyRows(ss)
  PROVE  /\ r[1] \in 1 .. n /\ r[2] \in 1 .. n /\ r[1] < r[2] /\ r[2] + 1 < n
         /\ r[1] \in Clean(ss) /\ r[2] + 1 \in Clean(ss)
<1> DEFINE entry == CHOOSE i \in GizmoEntry(ss) : \A j \in GizmoEntry(ss) : j <= i
           noisy(i) == i > entry /\ i < Len(ss) - 1 /\ ss[i].type = "GizmoAction"
<1>1. ASSUME NEW q \in NoisyRows(ss)
      PROVE  /\ q[1] \in 1 .. n /\ q[2] \in 1 .. n /\ q[1] < q[2]
             /\ \A i \in q[1] .. q[2] : noisy(i)
             /\ ~noisy(q[1] - 1) /\ ~noisy(q[2] + 1)
  <2> HIDE DEF entry
  <2>1. q \in {p \in (1 .. Len(ss)) \X (1 .. Len(ss)) :
                 /\ p[1] < p[2] /\ \A i \in p[1] .. p[2] : noisy(i)
                 /\ ~noisy(p[1] - 1) /\ ~noisy(p[2] + 1)}
    BY DEF NoisyRows, entry
  <2> HIDE DEF noisy
  <2> QED
    BY <2>1
<1>2. r[2] + 1 < n
  <2>1. r[2] \in r[1] .. r[2] /\ r[2] \in Nat
    <3> HIDE DEF noisy
    <3> QED
      BY <1>1
  <2>2. noisy(r[2])
    <3> HIDE DEF noisy
    <3> QED
      BY <1>1, <2>1
  <2>3. r[2] < n - 1
    BY <2>2
  <2> QED
    BY <2>1, <2>3
<1> HIDE DEF noisy
<1>3. ASSUME NEW q \in NoisyRows(ss) PROVE r[1] \notin q[1] + 1 .. q[2]
  <2>1. SUFFICES ASSUME r[1] \in q[1] + 1 .. q[2] PROVE FALSE
    OBVIOUS
  <2>2. r[1] - 1 \in q[1] .. q[2]
    BY <1>1, <2>1
  <2> QED
    BY <1>1, <2>2
<1>4. ASSUME NEW q \in NoisyRows(ss) PROVE r[2] + 1 \notin q[1] + 1 .. q[2]
  <2>1. SUFFICES ASSUME r[2] + 1 \in q[1] + 1 .. q[2] PROVE FALSE
    OBVIOUS
  <2>2. r[2] + 1 \in q[1] .. q[2]
    BY <1>1, <2>1
  <2> QED
    BY <1>1, <2>2
<1>5. r[1] \in DOMAIN ss /\ r[2] + 1 \in DOMAIN ss
  BY <1>1, <1>2
<1> QED
  BY <1>1, <1>2, <1>3, <1>4, <1>5 DEF Clean

LEMMA ReduceShrinks ==
  ASSUME NEW st, StackInv(st), Len(st.snapshots) >= 2,
         st.snapshots[Len(st.snapshots)].time = st.active
  PROVE  /\ Shrunk(ReduceNoisySnapshots(st), st)
         /\ ActiveListed(ReduceNoisySnapshots(st))
<1> DEFINE ss == st.snapshots
           n == Len(ss)
           K(h) == {i \in DOMAIN h :
                      \A r \in NoisyRows(ss) : ~Between(h[i], ss[r[1]].time, ss[r[2] + 1].time)}
           red(h) == Entries(h, K(h))
           list == Entries(ss, Clean(ss))
           mut == [m \in Mutables |-> red(st.mutables[m])]
           imm == [id \in DOMAIN st.immutables |-> red(st.immutables[id])]
           su == ReduceNoisySnapshots(st)
<1>1. /\ StackType(st) /\ ListValid(st) /\ Pointers(st) /\ DataInUse(st)
      /\ \A t \in Times(st) : Loadable(st, t) /\ Recorded(st, t)
  BY DEF StackInv
<1>2. su = [st EXCEPT !.snapshots = list, !.mutables = mut, !.immutables = imm]
  BY DEF ReduceNoisySnapshots, WithoutNoise, Clean
<1>3. st = [snapshots |-> st.snapshots, mutables |-> st.mutables, immutables |-> st.immutables,
            ids |-> st.ids, active |-> st.active, current |-> st.current]
  BY <1>1 DEF StackType
<1>4. su = [snapshots |-> list, mutables |-> mut, immutables |-> imm,
            ids |-> st.ids, active |-> st.active, current |-> st.current]
  <2> HIDE DEF su, list, mut, imm
  <2> QED
    BY <1>2, <1>3
<1> HIDE DEF su
<1>5. /\ su.snapshots = list /\ su.mutables = mut /\ su.immutables = imm
      /\ su.ids = st.ids /\ su.active = st.active /\ su.current = st.current
  <2> HIDE DEF list, mut, imm
  <2> QED
    BY <1>4
<1>6. /\ su = [snapshots |-> su.snapshots, mutables |-> su.mutables,
               immutables |-> su.immutables, ids |-> su.ids,
               active |-> su.active, current |-> su.current]
  <2> HIDE DEF list, mut, imm
  <2> QED
    BY <1>4, <1>5
<1>7. /\ DOMAIN ss = 1 .. n /\ n \in Nat /\ n >= 2
      /\ \A i \in DOMAIN ss : ss[i].time \in Nat
      /\ \A i, j \in DOMAIN ss : i < j => ss[i].time < ss[j].time
      /\ \A i \in DOMAIN ss : ss[i].captured \/ i = n
      /\ st.active \in Nat
  BY <1>1, StackFields DEF ListValid, StackType
<1> DEFINE R == [time : Nat, type : SnapshotTypes, captured : BOOLEAN]
<1>8. ss \in Seq(R)
  BY <1>1 DEF StackType
<1>9. Clean(ss) \in SUBSET DOMAIN ss
  BY DEF Clean
<1>10. ASSUME NEW r \in NoisyRows(ss)
       PROVE  /\ r[1] \in 1 .. n /\ r[2] \in 1 .. n /\ r[1] < r[2] /\ r[2] + 1 < n
              /\ r[1] \in Clean(ss) /\ r[2] + 1 \in Clean(ss)
  BY <1>7, RowFacts
<1>11. n \in Clean(ss) /\ n - 1 \in Clean(ss)
  <2>1. ASSUME NEW r \in NoisyRows(ss) PROVE n \notin r[1] + 1 .. r[2] /\ n - 1 \notin r[1] + 1 .. r[2]
    <3> HIDE DEF ss, n
    <3> QED
      BY <1>7, <1>10
  <2>2. n \in DOMAIN ss /\ n - 1 \in DOMAIN ss
    <3> HIDE DEF ss, n
    <3> QED
      BY <1>7
  <2> QED
    BY <2>1, <2>2 DEF Clean
<1>12. list \in Seq(R) /\ \E f \in [DOMAIN list -> Clean(ss)] :
              /\ \A p \in DOMAIN list : list[p] = ss[f[p]]
              /\ \A p, q \in DOMAIN list : p < q => f[p] < f[q]
              /\ \A i \in Clean(ss) : \E p \in DOMAIN list : f[p] = i
  <2> HIDE DEF ss, R
  <2> QED
    BY <1>8, <1>9, EntriesFacts
<1> HIDE DEF list
<1>13. PICK f \in [DOMAIN list -> Clean(ss)] :
              /\ \A p \in DOMAIN list : list[p] = ss[f[p]]
              /\ \A p, q \in DOMAIN list : p < q => f[p] < f[q]
              /\ \A i \in Clean(ss) : \E p \in DOMAIN list : f[p] = i
  BY <1>12
<1>14. \A p \in DOMAIN list : f[p] \in Clean(ss) /\ f[p] \in DOMAIN ss
  BY <1>9, <1>13
<1>15. DOMAIN list = 1 .. Len(list) /\ Len(list) \in Nat
  <2> HIDE DEF R
  <2> QED
    BY <1>12
<1>16. /\ Len(list) >= 2 /\ list[Len(list)] = ss[n]
  <2> HIDE DEF ss, n
  <2>1. PICK p \in DOMAIN list : f[p] = n
    BY <1>11, <1>13
  <2>2. PICK q \in DOMAIN list : f[q] = n - 1
    BY <1>11, <1>13
  <2>3. p # q
    BY <1>7, <2>1, <2>2
  <2>4. ASSUME p # Len(list) PROVE FALSE
    <3>1. p < Len(list) /\ Len(list) \in DOMAIN list
      BY <1>15, <2>4
    <3>2. f[p] < f[Len(list)] /\ f[Len(list)] \in DOMAIN ss
      BY <1>13, <1>14, <3>1
    <3> QED
      BY <1>7, <2>1, <3>2
  <2> QED
    BY <1>13, <1>15, <2>1, <2>2, <2>3, <2>4
<1>17. ListValid(su)
  <2> HIDE DEF ss, n
  <2>1. \A p, q \in DOMAIN list : p < q => list[p].time < list[q].time
    BY <1>7, <1>13, <1>14
  <2>2. ASSUME NEW p \in DOMAIN list
        PROVE  /\ list[p].time <= st.current
               /\ ~list[p].captured => p = Len(list) /\ list[p].time = st.active
    <3>1. /\ ss[f[p]].time <= st.current
          /\ ~ss[f[p]].captured => f[p] = n /\ ss[f[p]].time = st.active
      BY <1>1, <1>14 DEF ListValid, ss, n
    <3>2. ASSUME f[p] = n PROVE p = Len(list)
      <4>1. p < Len(list) \/ p = Len(list)
        BY <1>15
      <4>2. ASSUME p < Len(list) PROVE FALSE
        <5>1. Len(list) \in DOMAIN list
          BY <1>15, <1>16
        <5>2. f[p] < f[Len(list)] /\ f[Len(list)] \in DOMAIN ss
          BY <1>13, <1>14, <4>2, <5>1
        <5> QED
          BY <1>7, <3>2, <5>2
      <4> QED
        BY <4>1, <4>2
    <3>3. list[p] = ss[f[p]]
      BY <1>13
    <3> QED
      BY <3>1, <3>2, <3>3
  <2> QED
    BY <1>5, <2>1, <2>2 DEF ListValid
<1>18. ActiveListed(su)
  <2>1. Len(list) \in 2 .. Len(list) /\ list[Len(list)].time = st.active
    BY <1>15, <1>16
  <2> QED
    BY <1>5, <2>1 DEF ActiveListed
<1>19. \A t : t \in Times(su) <=> \E i \in Clean(ss) : ss[i].captured /\ ss[i].time = t
  <2> HIDE DEF ss
  <2>1. ASSUME NEW t \in Times(su) PROVE \E i \in Clean(ss) : ss[i].captured /\ ss[i].time = t
    <3>1. PICK p \in DOMAIN list : list[p].captured /\ list[p].time = t
      BY <1>5, TimesIs
    <3> QED
      BY <1>13, <1>14, <3>1
  <2>2. ASSUME NEW i \in Clean(ss), ss[i].captured PROVE ss[i].time \in Times(su)
    <3>1. PICK p \in DOMAIN list : f[p] = i
      BY <1>13
    <3> QED
      BY <1>5, <1>13, <2>2, <3>1, TimesIs
  <2> QED
    BY <2>1, <2>2
<1>20. Times(su) \subseteq Times(st)
  BY <1>9, <1>19, TimesIs
<1>21. st.active \in Times(st) => st.active \in Times(su)
  <2>1. ASSUME st.active \in Times(st) PROVE ss[n].captured
    <3>1. PICK i \in DOMAIN ss : ss[i].captured /\ ss[i].time = st.active
      BY <2>1, TimesIs
    <3>2. i = n \/ i < n
      BY <1>7
    <3>3. n \in DOMAIN ss /\ ss[n].time = st.active
      BY <1>7
    <3> HIDE DEF ss, n
    <3> QED
      BY <1>7, <3>1, <3>2, <3>3
  <2> QED
    BY <1>11, <1>19, <2>1
(* What covers a time that is kept is kept, and so is a use of what is.    *)
<1>22. ASSUME NEW h, NEW t \in Times(su), NEW i \in DOMAIN h, h[i].b \in Nat, h[i].e \in Nat,
              h[i].b <= t, t < h[i].e
       PROVE  i \in K(h)
  <2> SUFFICES ASSUME NEW r \in NoisyRows(ss), Between(h[i], ss[r[1]].time, ss[r[2] + 1].time)
               PROVE  FALSE
    OBVIOUS
  <2>1. PICK j \in Clean(ss) : ss[j].captured /\ ss[j].time = t
    BY <1>19
  <2> HIDE DEF ss, n
  <2>2. ss[r[1]].time < h[i].b /\ h[i].e <= ss[r[2] + 1].time
    BY DEF Between
  <2>3. j \in DOMAIN ss /\ r[1] \in DOMAIN ss /\ r[2] + 1 \in DOMAIN ss
    BY <1>9, <1>10
  <2>4. ss[r[1]].time < ss[j].time /\ ss[j].time < ss[r[2] + 1].time
    BY <1>7, <1>22, <2>1, <2>2, <2>3
  <2>5. r[1] < j /\ j < r[2] + 1
    <3>1. r[1] \in Nat /\ j \in Nat /\ r[2] + 1 \in Nat
      BY <1>7, <1>10, <2>3
    <3>2. ~(j < r[1]) /\ j # r[1]
      BY <1>7, <2>3, <2>4
    <3>3. ~(r[2] + 1 < j) /\ j # r[2] + 1
      BY <1>7, <2>3, <2>4
    <3> QED
      BY <3>1, <3>2, <3>3
  <2>6. j \in r[1] + 1 .. r[2]
    BY <1>7, <1>10, <2>3, <2>5
  <2> QED
    BY <2>1, <2>6 DEF Clean
<1>23. ASSUME NEW h, NEW i \in K(h), NEW t \in Times(st), h[i].b \in Nat, h[i].e \in Nat,
              h[i].b <= t, t < h[i].e
       PROVE  \E u \in Times(su) : h[i].b <= u /\ u < h[i].e
  <2>1. PICK j \in DOMAIN ss : ss[j].captured /\ ss[j].time = t
    BY TimesIs
  <2>2. CASE j \in Clean(ss)
    BY <1>19, <1>23, <2>1, <2>2
  <2>3. CASE j \notin Clean(ss)
    <3>1. PICK r \in NoisyRows(ss) : j \in r[1] + 1 .. r[2]
      BY <2>3 DEF Clean
    <3>2. ~Between(h[i], ss[r[1]].time, ss[r[2] + 1].time)
      BY <1>23
    <3> HIDE DEF ss, n
    <3>3. /\ r[1] \in Clean(ss) /\ r[2] + 1 \in Clean(ss)
          /\ r[1] \in DOMAIN ss /\ r[2] + 1 \in DOMAIN ss /\ r[2] + 1 # n /\ r[1] # n
      BY <1>7, <1>9, <1>10
    <3>4. ss[r[1]].captured /\ ss[r[2] + 1].captured
      BY <1>7, <3>3
    <3>5. ss[r[1]].time \in Times(su) /\ ss[r[2] + 1].time \in Times(su)
      BY <1>19, <3>3, <3>4
    <3>6. r[1] < j /\ j < r[2] + 1
      BY <1>7, <1>10, <3>1
    <3>7. ss[r[1]].time < t /\ t < ss[r[2] + 1].time
      BY <1>7, <2>1, <3>3, <3>6
    <3>8. ~(h[i].b > ss[r[1]].time) \/ ~(h[i].e <= ss[r[2] + 1].time)
      BY <3>2 DEF Between
    <3>9. /\ t \in Nat /\ ss[r[1]].time \in Nat /\ ss[r[2] + 1].time \in Nat
      BY <1>7, <2>1, <3>3
    <3>10. \/ h[i].b <= ss[r[1]].time /\ ss[r[1]].time < h[i].e
           \/ h[i].b <= ss[r[2] + 1].time /\ ss[r[2] + 1].time < h[i].e
      BY <1>23, <3>7, <3>8, <3>9
    <3> QED
      BY <3>5, <3>10
  <2> QED
    BY <2>2, <2>3
<1>24. ASSUME NEW A \in Records, NEW h \in Seq(A), Sorted(h)
       PROVE  /\ red(h) \in Seq(A) /\ Sorted(red(h))
              /\ \A i \in DOMAIN red(h) : \E j \in K(h) : red(h)[i] = h[j]
              /\ \A t \in Times(su) : /\ DefinedAt(red(h), t) <=> DefinedAt(h, t)
                                      /\ A # Lifetimes => SameAt(red(h), h, t)
              /\ InUse(st, h) => InUse(su, red(h))
  <2> DEFINE g == red(h)
             J == K(h)
  <2>1. \A i \in DOMAIN h : h[i].b \in Nat /\ h[i].e \in Nat
    BY HistoryBounds
  <2>2. J \in SUBSET DOMAIN h
    OBVIOUS
  <2>3. \A t \in Times(su), i \in DOMAIN h : h[i].b <= t /\ t < h[i].e => i \in J
    BY <1>22, <2>1
  <2>4. \A t \in Times(st), i \in J : h[i].b <= t /\ t < h[i].e =>
          \E u \in Times(su) : h[i].b <= u /\ u < h[i].e
    BY <1>23, <2>1, <2>2
  <2>5. Times(su) \subseteq Nat
    BY <1>1, <1>20, StackFields
  <2>6. g = Entries(h, J)
    OBVIOUS
  <2> HIDE DEF J, g, ss
  <2>7. /\ g \in Seq(A) /\ Sorted(g)
        /\ \A i \in DOMAIN g : \E j \in J : g[i] = h[j]
        /\ \A j \in J : \E i \in DOMAIN g : g[i] = h[j]
    BY <1>24, <2>2, <2>6, EntriesOfHistory
  <2>8. ASSUME NEW t \in Times(su)
        PROVE  (DefinedAt(g, t) <=> DefinedAt(h, t)) /\ (A # Lifetimes => SameAt(g, h, t))
    <3>1. \A i \in DOMAIN g : g[i].b <= t /\ t < g[i].e =>
            \E j \in DOMAIN h : h[j].b <= t /\ t < h[j].e /\ (A # Lifetimes => g[i].data = h[j].data)
      BY <2>2, <2>7
    <3>2. \A j \in DOMAIN h : h[j].b <= t /\ t < h[j].e =>
            \E i \in DOMAIN g : g[i].b <= t /\ t < g[i].e
      BY <2>3, <2>7
    <3>3. t \in Nat
      BY <2>5
    <3> QED
      BY <1>24, <2>7, <3>1, <3>2, <3>3, SameCovered
  <2>9. ASSUME InUse(st, h) PROVE InUse(su, g)
    <3>1. ASSUME NEW i \in DOMAIN g PROVE \E u \in Times(su) : g[i].b <= u /\ u < g[i].e
      <4>1. PICK j \in J : g[i] = h[j]
        BY <2>7
      <4>2. \E t \in Times(st) : h[j].b <= t /\ t < h[j].e
        BY <2>2, <2>9 DEF InUse
      <4> QED
        BY <2>4, <4>1, <4>2
    <3> QED
      BY <3>1 DEF InUse
  <2> QED
    BY <2>7, <2>8, <2>9 DEF g, J
<1> HIDE DEF red
<1>25. \A m \in Mutables : su.mutables[m] = red(st.mutables[m])
  BY <1>5
<1>26. /\ DOMAIN su.immutables = DOMAIN st.immutables
       /\ \A id \in DOMAIN st.immutables : su.immutables[id] = red(st.immutables[id])
  BY <1>5
<1> HIDE DEF mut, imm, ss, R
<1>27. ASSUME NEW m \in Mutables
       PROVE  /\ su.mutables[m] \in Seq(Saved(m)) /\ Sorted(su.mutables[m])
              /\ DataFrom(su.mutables[m], st.mutables[m])
              /\ \A t \in Times(su) : SameAt(su.mutables[m], st.mutables[m], t)
              /\ InUse(st, st.mutables[m]) => InUse(su, su.mutables[m])
  <2> DEFINE A == Saved(m)
             h == st.mutables[m]
  <2>1. A \in Records /\ A # Lifetimes /\ h \in Seq(A) /\ Sorted(h)
    BY <1>1, StackFields
  <2> HIDE DEF A, h
  <2>2. /\ red(h) \in Seq(A) /\ Sorted(red(h))
        /\ \A i \in DOMAIN red(h) : \E j \in K(h) : red(h)[i] = h[j]
        /\ \A t \in Times(su) : SameAt(red(h), h, t)
        /\ InUse(st, h) => InUse(su, red(h))
    BY <1>24, <2>1
  <2>3. DataFrom(red(h), h)
    BY <2>2 DEF DataFrom
  <2> QED
    BY <1>25, <2>2, <2>3 DEF A, h
<1>28. ASSUME NEW id \in DOMAIN st.immutables
       PROVE  /\ su.immutables[id] \in Seq(Lifetimes) /\ Sorted(su.immutables[id])
              /\ \A t \in Times(su) :
                   DefinedAt(su.immutables[id], t) <=> DefinedAt(st.immutables[id], t)
              /\ InUse(st, st.immutables[id]) => InUse(su, su.immutables[id])
  <2> DEFINE h == st.immutables[id]
  <2>1. Lifetimes \in Records /\ h \in Seq(Lifetimes) /\ Sorted(h)
    BY <1>1, StackFields
  <2>2. su.immutables[id] = red(h)
    BY <1>26
  <2> HIDE DEF h
  <2>3. /\ red(h) \in Seq(Lifetimes) /\ Sorted(red(h))
        /\ \A t \in Times(su) : DefinedAt(red(h), t) <=> DefinedAt(h, t)
        /\ InUse(st, h) => InUse(su, red(h))
    BY <1>24, <2>1
  <2> QED
    BY <2>2, <2>3 DEF h
<1>29. StackType(su)
  <2>1. su.snapshots \in Seq([time : Nat, type : SnapshotTypes, captured : BOOLEAN])
    BY <1>5, <1>12 DEF R
  <2>2. /\ DOMAIN st.immutables \subseteq [addr : Addrs, at : Nat] /\ DOMAIN st.ids \subseteq Addrs
        /\ st.current \in Nat /\ st.active <= st.current
    BY <1>1 DEF StackType
  <2> QED
    BY <1>5, <1>6, <1>7, <1>26, <1>27, <1>28, <2>1, <2>2 DEF StackType
<1>30. DataInUse(su)
  BY <1>1, <1>26, <1>27, <1>28 DEF DataInUse
<1>31. Pointers(su)
  BY <1>1, <1>5, <1>26 DEF Pointers
<1>32. ASSUME NEW t \in Times(su) PROVE SameMoment(su, st, t)
  <2>1. \A m \in Mutables : SameAt(su.mutables[m], st.mutables[m], t)
    BY <1>27
  <2> QED
    BY <1>26, <1>28, <2>1 DEF SameMoment
<1>33. Shrunk(su, st)
  BY <1>5, <1>17, <1>20, <1>21, <1>26, <1>27, <1>29, <1>30, <1>31, <1>32 DEF Shrunk
<1> QED
  BY <1>18, <1>33 DEF su

-----------------------------------------------------------------------------
(* take_snapshot(): its parts, of the state of the program as it is.       *)
SharedNow == {scene[o] : o \in Present(scene)}
IdsNow(st) ==
  [a \in DOMAIN st.ids \cup SharedNow |->
     IF a \in DOMAIN st.ids THEN st.ids[a] ELSE [addr |-> a, at |-> st.current]]
UsedNow(st) == {IdsNow(st)[a] : a \in SharedNow}
DataNow(st, m) ==
  CASE m = "Model" -> Present(scene)
    [] m = "GLGizmosManager" -> gizmo
    [] OTHER -> [shape |-> heap[scene[m]], id |-> IdsNow(st)[scene[m]]]
SavedNow == Present(scene) \cup (Mutables \ Objects)
MutablesNow(st) ==
  [m \in Mutables |->
     IF m \in SavedNow
     THEN SaveMutable(ReleaseAfter(st.mutables[m], st.active), st.active, st.current, DataNow(st, m))
     ELSE ReleaseAfter(st.mutables[m], st.active)]
Cut(st, id) ==
  IF id \in DOMAIN st.immutables THEN ReleaseAfter(st.immutables[id], st.active) ELSE <<>>
ImmutablesNow(st) ==
  [id \in DOMAIN st.immutables \cup UsedNow(st) |->
     IF id \in UsedNow(st) THEN SaveImmutable(Cut(st, id), st.active, st.current) ELSE Cut(st, id)]
ListNow(st, type) ==
  SubSeq(st.snapshots, 1, LowerBound(st.snapshots, st.active) - 1) \o
    << [time |-> st.current, type |-> type, captured |-> TRUE],
       [time |-> st.current + 1, type |-> "Other", captured |-> FALSE] >>

LEMMA TakenFields ==
  ASSUME NEW st, StackType(st), NEW type
  PROVE  LET su == TakeSnapshot(st, type)
         IN /\ su = [snapshots |-> su.snapshots, mutables |-> su.mutables,
                     immutables |-> su.immutables, ids |-> su.ids,
                     active |-> su.active, current |-> su.current]
            /\ su.snapshots = ListNow(st, type) /\ su.mutables = MutablesNow(st)
            /\ su.active = st.current + 1 /\ su.current = st.current + 1
            /\ DOMAIN su.immutables = {id \in DOMAIN ImmutablesNow(st) : ImmutablesNow(st)[id] # <<>>}
            /\ \A id \in DOMAIN su.immutables : su.immutables[id] = ImmutablesNow(st)[id]
            /\ DOMAIN su.ids \subseteq DOMAIN IdsNow(st)
            /\ InStep(IdsNow(st), ImmutablesNow(st)) => Pointers(su)
<1> DEFINE mid == [st EXCEPT !.snapshots = ListNow(st, type), !.mutables = MutablesNow(st),
                             !.ids = IdsNow(st), !.active = st.current + 1,
                             !.current = st.current + 1]
           su == TakeSnapshot(st, type)
<1>1. su = CollectGarbage(mid, ImmutablesNow(st))
  BY DEF TakeSnapshot, ListNow, MutablesNow, IdsNow, ImmutablesNow, Cut, SavedNow, DataNow,
         UsedNow, SharedNow
<1>2. st = [snapshots |-> st.snapshots, mutables |-> st.mutables, immutables |-> st.immutables,
            ids |-> st.ids, active |-> st.active, current |-> st.current]
  BY DEF StackType
<1>3. mid = [snapshots |-> ListNow(st, type), mutables |-> MutablesNow(st),
             immutables |-> st.immutables, ids |-> IdsNow(st),
             active |-> st.current + 1, current |-> st.current + 1]
  <2> DEFINE ss == ListNow(st, type)
             mm == MutablesNow(st)
             aa == IdsNow(st)
             cc == st.current + 1
             ii == st.immutables
  <2>1. mid = [st EXCEPT !.snapshots = ss, !.mutables = mm, !.ids = aa, !.active = cc, !.current = cc]
    OBVIOUS
  <2>2. ii = st.immutables
    OBVIOUS
  <2> HIDE DEF mid, ss, mm, aa, cc, ii
  <2>3. mid = [snapshots |-> ss, mutables |-> mm, immutables |-> ii, ids |-> aa,
               active |-> cc, current |-> cc]
    BY <1>2, <2>1, <2>2
  <2> QED
    BY <2>3 DEF ss, mm, aa, cc, ii
<1> HIDE DEF mid
<1>4. /\ mid = [snapshots |-> mid.snapshots, mutables |-> mid.mutables,
                immutables |-> mid.immutables, ids |-> mid.ids,
                active |-> mid.active, current |-> mid.current]
      /\ mid.snapshots = ListNow(st, type) /\ mid.mutables = MutablesNow(st)
      /\ mid.ids = IdsNow(st) /\ mid.active = st.current + 1 /\ mid.current = st.current + 1
  BY <1>3
<1> HIDE DEF su
<1>5. /\ su = [snapshots |-> su.snapshots, mutables |-> su.mutables,
                     immutables |-> su.immutables, ids |-> su.ids,
                     active |-> su.active, current |-> su.current]
      /\ su.snapshots = mid.snapshots /\ su.mutables = mid.mutables
      /\ su.active = mid.active /\ su.current = mid.current
      /\ DOMAIN su.immutables = {id \in DOMAIN ImmutablesNow(st) : ImmutablesNow(st)[id] # <<>>}
      /\ \A id \in DOMAIN su.immutables : su.immutables[id] = ImmutablesNow(st)[id]
      /\ DOMAIN su.ids \subseteq DOMAIN mid.ids
      /\ InStep(mid.ids, ImmutablesNow(st)) => Pointers(su)
  BY <1>1, <1>4, CollectFields
<1> QED
  BY <1>4, <1>5 DEF su

LEMMA IdsNowFacts ==
  ASSUME NEW st, StackType(st), Pointers(st), IdsPast(st), SceneType(scene, gizmo, heap)
  PROVE  /\ SharedNow \subseteq Addrs
         /\ \A o \in Present(scene) : /\ o \in Objects /\ scene[o] \in SharedNow
                                      /\ scene[o] \in AddrsOf(o) /\ heap[scene[o]] \in Shapes
         /\ DOMAIN IdsNow(st) = DOMAIN st.ids \cup SharedNow
         /\ DOMAIN IdsNow(st) \subseteq Addrs
         /\ \A a \in SharedNow : /\ IdsNow(st)[a] \in UsedNow(st) /\ IdsNow(st)[a].addr = a
                                 /\ IdsNow(st)[a] \in [addr : {a}, at : Nat]
                                 /\ IdsNow(st)[a].at <= st.current
                                 /\ \A id \in DOMAIN st.immutables : id.addr = a => IdsNow(st)[a] = id
         /\ \A id \in UsedNow(st) : /\ id \in [addr : Addrs, at : Nat] /\ id.at <= st.current
                                    /\ id.addr \in SharedNow /\ id = IdsNow(st)[id.addr]
                                    /\ heap[id.addr] \in Shapes
                                    /\ id \in DOMAIN st.immutables \/ id.at = st.current
         /\ InStep(IdsNow(st), ImmutablesNow(st))
<1>1. /\ DOMAIN st.ids = {id.addr : id \in DOMAIN st.immutables}
      /\ \A a \in DOMAIN st.ids : st.ids[a].addr = a /\ st.ids[a] \in DOMAIN st.immutables
      /\ \A i, j \in DOMAIN st.immutables : i.addr = j.addr => i = j
  BY DEF Pointers
<1>2. /\ DOMAIN st.immutables \subseteq [addr : Addrs, at : Nat]
      /\ DOMAIN st.ids \subseteq Addrs /\ st.current \in Nat
      /\ \A id \in DOMAIN st.immutables : id.at < st.current
  BY DEF StackType, IdsPast
<1>3. ASSUME NEW o \in Present(scene)
      PROVE  /\ o \in Objects /\ scene[o] \in SharedNow /\ scene[o] \in AddrsOf(o)
             /\ heap[scene[o]] \in Shapes /\ scene[o] \in Addrs
  <2>1. o \in Objects /\ scene[o] # Absent /\ scene[o] \in AddrsOf(o) \cup {Absent}
        /\ heap[scene[o]] \in Shapes
    BY DEF SceneType, Present
  <2> QED
    BY <2>1, ObjectFacts DEF SharedNow
<1>4. \A a \in SharedNow : a \in Addrs /\ heap[a] \in Shapes
  BY <1>3 DEF SharedNow
<1>5. DOMAIN IdsNow(st) = DOMAIN st.ids \cup SharedNow
  BY DEF IdsNow
<1>6. ASSUME NEW a \in DOMAIN st.ids \cup SharedNow
      PROVE  /\ a \in Addrs
             /\ IdsNow(st)[a].addr = a /\ IdsNow(st)[a] \in [addr : {a}, at : Nat]
             /\ IdsNow(st)[a].at <= st.current
             /\ IdsNow(st)[a] \in DOMAIN st.immutables \/ IdsNow(st)[a].at = st.current
             /\ \A id \in DOMAIN st.immutables : id.addr = a => IdsNow(st)[a] = id
  <2>1. CASE a \in DOMAIN st.ids
    <3>1. IdsNow(st)[a] = st.ids[a]
      BY <2>1 DEF IdsNow
    <3>2. st.ids[a].addr = a /\ st.ids[a] \in DOMAIN st.immutables
      BY <1>1, <2>1
    <3> DEFINE x == st.ids[a]
    <3>3. x \in [addr : Addrs, at : Nat] /\ x.addr = a /\ x.at < st.current /\ x \in DOMAIN st.immutables
      BY <1>2, <3>2
    <3> HIDE DEF x
    <3>4. x \in [addr : {a}, at : Nat] /\ a \in Addrs
      BY <3>3
    <3>5. x.at <= st.current
      BY <1>2, <3>3
    <3>6. \A id \in DOMAIN st.immutables : id.addr = a => x = id
      BY <1>1, <3>3
    <3> QED
      BY <3>1, <3>3, <3>4, <3>5, <3>6 DEF x
  <2>2. CASE a \notin DOMAIN st.ids
    <3>1. IdsNow(st)[a] = [addr |-> a, at |-> st.current]
      BY <2>2 DEF IdsNow
    <3>2. \A id \in DOMAIN st.immutables : id.addr # a
      BY <1>1, <2>2
    <3> QED
      BY <1>2, <1>4, <2>2, <3>1, <3>2
  <2> QED
    BY <2>1, <2>2
<1>7. ASSUME NEW id \in UsedNow(st)
      PROVE  /\ id \in [addr : Addrs, at : Nat] /\ id.at <= st.current
             /\ id.addr \in SharedNow /\ id = IdsNow(st)[id.addr]
             /\ heap[id.addr] \in Shapes
             /\ id \in DOMAIN st.immutables \/ id.at = st.current
  <2>1. PICK a \in SharedNow : id = IdsNow(st)[a]
    BY DEF UsedNow
  <2>2. /\ a \in Addrs /\ id.addr = a /\ id \in [addr : {a}, at : Nat] /\ id.at <= st.current
        /\ id \in DOMAIN st.immutables \/ id.at = st.current
    BY <1>6, <2>1
  <2>3. id \in [addr : Addrs, at : Nat]
    BY <2>2
  <2> QED
    BY <1>4, <2>1, <2>2, <2>3
<1>8. InStep(IdsNow(st), ImmutablesNow(st))
  <2> DEFINE D == DOMAIN st.immutables \cup UsedNow(st)
  <2>1. DOMAIN ImmutablesNow(st) = D
    BY DEF ImmutablesNow
  <2>2. ASSUME NEW a \in DOMAIN st.ids \cup SharedNow PROVE IdsNow(st)[a] \in D
    <3>1. CASE a \in SharedNow
      BY <3>1 DEF UsedNow
    <3>2. CASE a \in DOMAIN st.ids
      BY <1>1, <3>2 DEF IdsNow
    <3> QED
      BY <3>1, <3>2
  <2>3. \A id \in D : id.addr \in DOMAIN st.ids \cup SharedNow /\ id = IdsNow(st)[id.addr]
    <3>1. ASSUME NEW id \in DOMAIN st.immutables
          PROVE  id.addr \in DOMAIN st.ids \cup SharedNow /\ id = IdsNow(st)[id.addr]
      <4>1. id.addr \in DOMAIN st.ids
        BY <1>1
      <4> QED
        BY <1>6, <4>1
    <3> QED
      BY <1>7, <3>1
  <2> HIDE DEF D
  <2>4. DOMAIN IdsNow(st) = {id.addr : id \in D}
    BY <1>5, <1>6, <2>2, <2>3
  <2>5. \A a \in DOMAIN IdsNow(st) : IdsNow(st)[a].addr = a /\ IdsNow(st)[a] \in D
    BY <1>5, <1>6, <2>2
  <2>6. \A i, j \in D : i.addr = j.addr => i = j
    BY <2>3
  <2> QED
    BY <2>1, <2>4, <2>5, <2>6 DEF InStep
<1>9. \A a \in SharedNow : IdsNow(st)[a] \in UsedNow(st)
  BY DEF UsedNow
<1>10. SharedNow \subseteq Addrs /\ DOMAIN IdsNow(st) \subseteq Addrs
  BY <1>4, <1>5, <1>6
<1> QED
  BY <1>3, <1>5, <1>6, <1>7, <1>8, <1>9, <1>10

LEMMA ImmutablesNowFacts ==
  ASSUME NEW st, StackType(st), NEW id \in DOMAIN ImmutablesNow(st)
  PROVE  LET g == ImmutablesNow(st)[id]
             a == st.active
         IN /\ id \in DOMAIN st.immutables \/ id \in UsedNow(st)
            /\ g \in Seq(Lifetimes) /\ Sorted(g)
            /\ \A u \in Nat : u < a => (DefinedAt(g, u) <=> /\ id \in DOMAIN st.immutables
                                                            /\ DefinedAt(st.immutables[id], u))
            /\ DefinedAt(g, st.current) <=> id \in UsedNow(st)
            /\ \A i \in DOMAIN g :
                 \/ id \in UsedNow(st) /\ g[i].b <= st.current /\ st.current < g[i].e
                 \/ /\ id \in DOMAIN st.immutables
                    /\ \E j \in DOMAIN st.immutables[id] :
                         LET x == st.immutables[id][j]
                         IN /\ g[i].b = x.b /\ g[i].e = Smaller(x.e, a) /\ x.b < a
                            /\ id \in UsedNow(st) => ~(x.e >= a)
<1> DEFINE a == st.active
           now == st.current
           g == ImmutablesNow(st)[id]
           h == IF id \in DOMAIN st.immutables THEN st.immutables[id] ELSE <<>>
           Good ==
            /\ id \in DOMAIN st.immutables \/ id \in UsedNow(st)
            /\ g \in Seq(Lifetimes) /\ Sorted(g)
            /\ \A u \in Nat : u < a => (DefinedAt(g, u) <=> /\ id \in DOMAIN st.immutables
                                                            /\ DefinedAt(st.immutables[id], u))
            /\ DefinedAt(g, now) <=> id \in UsedNow(st)
            /\ \A i \in DOMAIN g :
                 \/ id \in UsedNow(st) /\ g[i].b <= now /\ now < g[i].e
                 \/ /\ id \in DOMAIN st.immutables
                    /\ \E j \in DOMAIN st.immutables[id] :
                         LET x == st.immutables[id][j]
                         IN /\ g[i].b = x.b /\ g[i].e = Smaller(x.e, a) /\ x.b < a
                            /\ id \in UsedNow(st) => ~(x.e >= a)
<1> SUFFICES Good
  OBVIOUS
<1>0. a \in Nat /\ now \in Nat /\ a <= now /\ Lifetimes \in Records
  BY StackFields DEF StackType
<1>1. h \in Seq(Lifetimes) /\ Sorted(h)
  <2>1. CASE id \in DOMAIN st.immutables
    BY <2>1, StackFields
  <2>2. CASE id \notin DOMAIN st.immutables
    BY <2>2 DEF Sorted
  <2> QED
    BY <2>1, <2>2
<1>2. Cut(st, id) = ReleaseAfter(h, a)
  <2>1. CASE id \in DOMAIN st.immutables
    BY <2>1 DEF Cut
  <2>2. CASE id \notin DOMAIN st.immutables
    <3>1. h = <<>> /\ Cut(st, id) = <<>>
      BY <2>2 DEF Cut
    <3>2. ReleaseAfter(h, a) \in Seq(Lifetimes) /\ \A i \in DOMAIN ReleaseAfter(h, a) : i \in DOMAIN h
      BY <1>0, <1>1, ReleaseAfterFacts
    <3>3. DOMAIN h = {}
      BY <3>1
    <3> DEFINE r == ReleaseAfter(h, a)
    <3>4. DOMAIN r = {} /\ r \in Seq(Lifetimes)
      BY <3>2, <3>3
    <3> HIDE DEF r
    <3>5. r = <<>>
      BY <3>4
    <3> QED
      BY <3>1, <3>5 DEF r
  <2> QED
    BY <2>1, <2>2
<1>3. /\ id \in DOMAIN st.immutables \/ id \in UsedNow(st)
      /\ g = IF id \in UsedNow(st) THEN SaveImmutable(ReleaseAfter(h, a), a, now) ELSE ReleaseAfter(h, a)
  BY <1>2 DEF ImmutablesNow
<1>4. /\ id \in DOMAIN st.immutables => h = st.immutables[id]
      /\ id \notin DOMAIN st.immutables => DOMAIN h = {}
  OBVIOUS
<1> HIDE DEF h, g, a, now
<1>5. \A u : DefinedAt(h, u) <=> id \in DOMAIN st.immutables /\ DefinedAt(st.immutables[id], u)
  BY <1>4 DEF DefinedAt
<1>6. \A j \in DOMAIN h : id \in DOMAIN st.immutables /\ j \in DOMAIN st.immutables[id]
                          /\ h[j] = st.immutables[id][j]
  BY <1>4
<1>7. CASE id \in UsedNow(st)
  <2>1. g = SaveImmutable(ReleaseAfter(h, a), a, now)
    BY <1>3, <1>7
  <2>2. /\ g \in Seq(Lifetimes) /\ Sorted(g)
        /\ \A u \in Nat : u < a => (DefinedAt(g, u) <=> DefinedAt(h, u))
        /\ DefinedAt(g, now)
        /\ \A i \in DOMAIN g :
             \/ g[i].b <= now /\ now < g[i].e
             \/ \E j \in DOMAIN h :
                  /\ g[i].b = h[j].b /\ g[i].e = Smaller(h[j].e, a)
                  /\ h[j].b < a /\ ~(h[j].e >= a)
    <3> DEFINE s == SaveImmutable(ReleaseAfter(h, a), a, now)
    <3>1. /\ s \in Seq(Lifetimes) /\ Sorted(s)
          /\ \A u \in Nat : u < a => (DefinedAt(s, u) <=> DefinedAt(h, u))
          /\ DefinedAt(s, now)
          /\ \A i \in DOMAIN s :
               \/ s[i].b <= now /\ now < s[i].e
               \/ \E j \in DOMAIN h :
                    /\ s[i].b = h[j].b /\ s[i].e = Smaller(h[j].e, a)
                    /\ h[j].b < a /\ ~(h[j].e >= a)
      BY <1>0, <1>1, RecordImmutable
    <3>2. g = s
      BY <2>1
    <3> HIDE DEF s
    <3> QED
      BY <3>1, <3>2
  <2>3. ASSUME NEW i \in DOMAIN g, ~(g[i].b <= now /\ now < g[i].e)
        PROVE  /\ id \in DOMAIN st.immutables
               /\ \E j \in DOMAIN st.immutables[id] :
                    LET x == st.immutables[id][j]
                    IN /\ g[i].b = x.b /\ g[i].e = Smaller(x.e, a) /\ x.b < a
                       /\ id \in UsedNow(st) => ~(x.e >= a)
    <3>1. PICK j \in DOMAIN h : /\ g[i].b = h[j].b /\ g[i].e = Smaller(h[j].e, a)
                                /\ h[j].b < a /\ ~(h[j].e >= a)
      BY <2>2, <2>3
    <3> QED
      BY <1>6, <3>1
  <2> QED
    BY <1>3, <1>5, <1>7, <2>2, <2>3
<1>8. CASE id \notin UsedNow(st)
  <2>1. g = ReleaseAfter(h, a)
    BY <1>3, <1>8
  <2>2. /\ g \in Seq(Lifetimes) /\ Sorted(g)
        /\ \A i \in DOMAIN g :
             i \in DOMAIN h /\ h[i].b < a /\ g[i].b = h[i].b /\ g[i].e = Smaller(h[i].e, a)
    BY <1>0, <1>1, <2>1, ReleaseAfterFacts
  <2>3. \A u \in Nat : u < a => (DefinedAt(g, u) <=> DefinedAt(h, u))
    BY <1>0, <1>1, <2>1, AfterSame
  <2>4. ~DefinedAt(g, now)
    <3>1. \A i \in DOMAIN h : h[i].b \in Nat /\ h[i].e \in Nat
      BY <1>0, <1>1, HistoryBounds
    <3>2. \A i \in DOMAIN g : ~(now < g[i].e)
      BY <1>0, <2>2, <3>1 DEF Smaller
    <3> QED
      BY <3>2 DEF DefinedAt
  <2>5. ASSUME NEW i \in DOMAIN g
        PROVE  /\ id \in DOMAIN st.immutables
               /\ \E j \in DOMAIN st.immutables[id] :
                    LET x == st.immutables[id][j]
                    IN g[i].b = x.b /\ g[i].e = Smaller(x.e, a) /\ x.b < a
    BY <1>6, <2>2
  <2> QED
    BY <1>3, <1>5, <1>8, <2>2, <2>3, <2>4, <2>5
<1> QED
  BY <1>7, <1>8

LEMMA DataNowFacts ==
  ASSUME NEW st, StackType(st), Pointers(st), IdsPast(st), SceneType(scene, gizmo, heap)
  PROVE  /\ \A m \in SavedNow : m \in Mutables /\ DataNow(st, m) \in DataOf(m)
         /\ DataNow(st, "Model") = Present(scene) /\ "Model" \in SavedNow
         /\ DataNow(st, "GLGizmosManager") = gizmo /\ "GLGizmosManager" \in SavedNow
         /\ \A o \in Present(scene) :
              /\ o \in Objects /\ o \in SavedNow
              /\ DataNow(st, o) = [shape |-> heap[scene[o]], id |-> IdsNow(st)[scene[o]]]
         /\ \A o \in Objects : o \in SavedNow => o \in Present(scene)
<1>1. "Model" \notin Objects /\ "GLGizmosManager" \notin Objects /\ "Model" # "GLGizmosManager"
  BY StackAssumption
<1>2. Present(scene) \subseteq Objects /\ gizmo \in BOOLEAN
  BY DEF Present, SceneType
<1>3. DataNow(st, "Model") = Present(scene) /\ DataNow(st, "GLGizmosManager") = gizmo
  BY DEF DataNow
<1>4. \A o \in Objects :
        DataNow(st, o) = [shape |-> heap[scene[o]], id |-> IdsNow(st)[scene[o]]]
  BY <1>1 DEF DataNow
<1>5. \A m \in SavedNow : m \in Present(scene) \/ m \in {"Model", "GLGizmosManager"}
  BY DEF SavedNow, Mutables
<1>6. {"Model", "GLGizmosManager"} \subseteq SavedNow /\ Present(scene) \subseteq SavedNow
  BY <1>1 DEF SavedNow, Mutables
<1>7. \A o \in Objects : o \in SavedNow => o \in Present(scene)
  BY DEF SavedNow
<1>8. ASSUME NEW o \in Present(scene) PROVE DataNow(st, o) \in DataOf(o)
  <2>1. o \in Objects /\ scene[o] \in SharedNow /\ scene[o] \in AddrsOf(o) /\ heap[scene[o]] \in Shapes
    BY IdsNowFacts
  <2>2. IdsNow(st)[scene[o]] \in [addr : {scene[o]}, at : Nat]
    BY <2>1, IdsNowFacts
  <2>3. IdsNow(st)[scene[o]] \in [addr : AddrsOf(o), at : Nat]
    BY <2>1, <2>2
  <2>4. DataNow(st, o) \in [shape : Shapes, id : [addr : AddrsOf(o), at : Nat]]
    BY <1>4, <2>1, <2>3
  <2> QED
    BY <2>1, <2>4, ObjectFacts
<1>9. \A m \in SavedNow : m \in Mutables /\ DataNow(st, m) \in DataOf(m)
  BY <1>2, <1>3, <1>5, <1>8, ObjectFacts
<1> QED
  BY <1>2, <1>3, <1>4, <1>6, <1>7, <1>9

LEMMA MutablesNowFacts ==
  ASSUME NEW st, StackType(st), Pointers(st), IdsPast(st), SceneType(scene, gizmo, heap),
         NEW m \in Mutables
  PROVE  LET g == MutablesNow(st)[m]
             h == st.mutables[m]
             a == st.active
         IN /\ g \in Seq(Saved(m)) /\ Sorted(g)
            /\ \A u \in Nat : u < a => SameAt(g, h, u)
            /\ DefinedAt(g, st.current) <=> m \in SavedNow
            /\ m \in SavedNow => IntervalAt(g, st.current).data = DataNow(st, m)
            /\ \A i \in DOMAIN g :
                 \/ /\ m \in SavedNow /\ g[i].b <= st.current /\ st.current < g[i].e
                    /\ g[i].data = DataNow(st, m)
                 \/ \E j \in DOMAIN h :
                      /\ g[i].b = h[j].b /\ g[i].e = Smaller(h[j].e, a) /\ g[i].data = h[j].data
                      /\ h[j].b < a
                      /\ m \in SavedNow => ~(h[j].e >= a /\ h[j].data = DataNow(st, m))
<1> DEFINE a == st.active
           now == st.current
           h == st.mutables[m]
           d == DataNow(st, m)
           g == MutablesNow(st)[m]
           A == Saved(m)
           Good ==
            /\ g \in Seq(A) /\ Sorted(g)
            /\ \A u \in Nat : u < a => SameAt(g, h, u)
            /\ DefinedAt(g, now) <=> m \in SavedNow
            /\ m \in SavedNow => IntervalAt(g, now).data = d
            /\ \A i \in DOMAIN g :
                 \/ m \in SavedNow /\ g[i].b <= now /\ now < g[i].e /\ g[i].data = d
                 \/ \E j \in DOMAIN h :
                      /\ g[i].b = h[j].b /\ g[i].e = Smaller(h[j].e, a) /\ g[i].data = h[j].data
                      /\ h[j].b < a
                      /\ m \in SavedNow => ~(h[j].e >= a /\ h[j].data = d)
<1> SUFFICES Good
  OBVIOUS
<1>0. a \in Nat /\ now \in Nat /\ a <= now
  BY DEF StackType
<1>1. A \in Records /\ A # Lifetimes /\ h \in Seq(A) /\ Sorted(h)
  BY StackFields
<1>2. g = IF m \in SavedNow THEN SaveMutable(ReleaseAfter(h, a), a, now, d) ELSE ReleaseAfter(h, a)
  BY DEF MutablesNow
<1>7. CASE m \in SavedNow
  <2>1. g = SaveMutable(ReleaseAfter(h, a), a, now, d) /\ d \in DataOf(m)
    BY <1>2, <1>7, DataNowFacts
  <2> HIDE DEF g, h, a, now, d
  <2>2. /\ g \in Seq(Saved(m)) /\ Sorted(g)
        /\ \A u \in Nat : u < a => SameAt(g, h, u)
        /\ DefinedAt(g, now) /\ IntervalAt(g, now).data = d
        /\ \A i \in DOMAIN g :
             \/ g[i].b <= now /\ now < g[i].e /\ g[i].data = d
             \/ \E j \in DOMAIN h :
                  /\ g[i].b = h[j].b /\ g[i].e = Smaller(h[j].e, a) /\ g[i].data = h[j].data
                  /\ h[j].b < a /\ ~(h[j].e >= a /\ h[j].data = d)
    <3> DEFINE s == SaveMutable(ReleaseAfter(h, a), a, now, d)
    <3>1. /\ s \in Seq(Saved(m)) /\ Sorted(s)
          /\ \A u \in Nat : u < a => SameAt(s, h, u)
          /\ DefinedAt(s, now) /\ IntervalAt(s, now).data = d
          /\ \A i \in DOMAIN s :
               \/ s[i].b <= now /\ now < s[i].e /\ s[i].data = d
               \/ \E j \in DOMAIN h :
                    /\ s[i].b = h[j].b /\ s[i].e = Smaller(h[j].e, a) /\ s[i].data = h[j].data
                    /\ h[j].b < a /\ ~(h[j].e >= a /\ h[j].data = d)
      <4>1. h \in Seq(Saved(m)) /\ Sorted(h) /\ d \in DataOf(m)
        BY <1>1, <2>1
      <4> QED
        BY <1>0, <4>1, RecordMutable
    <3>2. g = s
      BY <2>1
    <3> HIDE DEF s
    <3> QED
      BY <3>1, <3>2
  <2> QED
    BY <1>7, <2>2
<1>8. CASE m \notin SavedNow
  <2>1. g = ReleaseAfter(h, a)
    BY <1>2, <1>8
  <2> HIDE DEF g, h, a, now, d, A
  <2>2. /\ g \in Seq(A) /\ Sorted(g)
        /\ \A i \in DOMAIN g :
             /\ i \in DOMAIN h /\ h[i].b < a /\ g[i].b = h[i].b /\ g[i].e = Smaller(h[i].e, a)
             /\ g[i].data = h[i].data
    BY <1>0, <1>1, <2>1, ReleaseAfterFacts
  <2>3. \A u \in Nat : u < a => SameAt(g, h, u)
    BY <1>0, <1>1, <2>1, AfterSame
  <2>4. ~DefinedAt(g, now)
    <3>1. \A i \in DOMAIN h : h[i].b \in Nat /\ h[i].e \in Nat
      BY <1>1, HistoryBounds
    <3>2. \A i \in DOMAIN g : ~(now < g[i].e)
      BY <1>0, <2>2, <3>1 DEF Smaller
    <3> QED
      BY <3>2 DEF DefinedAt
  <2> QED
    BY <1>8, <2>2, <2>3, <2>4
<1> QED
  BY <1>7, <1>8

LEMMA TakenList ==
  ASSUME NEW st, StackType(st), ListValid(st), NEW type \in SnapshotTypes
  PROVE  LET ss == st.snapshots
             c  == LowerBound(ss, st.active)
             L  == ListNow(st, type)
         IN /\ L \in Seq([time : Nat, type : SnapshotTypes, captured : BOOLEAN])
            /\ c \in 1 .. Len(ss) + 1 /\ Len(L) = c + 1 /\ DOMAIN L = 1 .. c + 1
            /\ \A i \in 1 .. c - 1 : L[i] = ss[i] /\ i \in DOMAIN ss /\ ss[i].captured
            /\ L[c].time = st.current /\ L[c].captured /\ L[c].type = type
            /\ L[c + 1].time = st.current + 1 /\ ~L[c + 1].captured
<1> DEFINE ss == st.snapshots
           c  == LowerBound(ss, st.active)
           R  == [time : Nat, type : SnapshotTypes, captured : BOOLEAN]
           x  == [time |-> st.current, type |-> type, captured |-> TRUE]
           y  == [time |-> st.current + 1, type |-> "Other", captured |-> FALSE]
           L  == ListNow(st, type)
           s1 == SubSeq(ss, 1, c - 1)
<1>1. /\ ss \in Seq(R) /\ st.active \in Nat /\ st.current \in Nat
      /\ DOMAIN ss = 1 .. Len(ss) /\ Len(ss) \in Nat
      /\ \A i \in DOMAIN ss : ss[i].time \in Nat /\ ss[i].captured \in BOOLEAN
  BY StackFields DEF StackType
<1>2. c \in 1 .. Len(ss) + 1 /\ \A i \in DOMAIN ss : ss[i].time < st.active <=> i < c
  BY <1>1, LowerBoundFacts
<1>3. x \in R /\ y \in R /\ x.time = st.current /\ x.captured /\ x.type = type
      /\ y.time = st.current + 1 /\ ~y.captured
  BY <1>1 DEF SnapshotTypes
<1>4. L = s1 \o <<x, y>>
  BY DEF ListNow
<1>5. \A i \in DOMAIN ss : ~ss[i].captured => ss[i].time = st.active
  BY DEF ListValid
<1> HIDE DEF ss, c, R, x, y, L
<1>6. \A i \in 1 .. c - 1 : i \in DOMAIN ss /\ ss[i] \in R
  BY <1>1, <1>2
<1>7. s1 \in Seq(R) /\ Len(s1) = c - 1 /\ \A i \in 1 .. c - 1 : s1[i] = ss[i]
  <2>1. /\ s1 \in Seq(R) /\ Len(s1) = IF 1 <= c - 1 THEN c - 1 - 1 + 1 ELSE 0
        /\ \A i \in 1 .. c - 1 - 1 + 1 : s1[i] = ss[1 + i - 1]
    BY <1>2, <1>6, SubSeqProperties
  <2>2. c - 1 - 1 + 1 = c - 1 /\ (1 <= c - 1 \/ c - 1 = 0) /\ \A i \in 1 .. c - 1 : 1 + i - 1 = i
    BY <1>1, <1>2
  <2> HIDE DEF s1
  <2> QED
    BY <2>1, <2>2
<1> HIDE DEF s1
<1>8. <<x, y>> \in Seq(R) /\ Len(<<x, y>>) = 2 /\ <<x, y>>[1] = x /\ <<x, y>>[2] = y
  BY <1>3
<1>9. /\ L \in Seq(R) /\ Len(L) = c + 1
      /\ \A i \in 1 .. c + 1 : L[i] = IF i <= c - 1 THEN s1[i] ELSE <<x, y>>[i - (c - 1)]
  <2> DEFINE z == <<x, y>>
  <2>1. z \in Seq(R) /\ Len(z) = 2
    BY <1>8
  <2>2. L = s1 \o z
    BY <1>4
  <2> HIDE DEF z
  <2>3. /\ L \in Seq(R) /\ Len(L) = (c - 1) + 2
        /\ \A i \in 1 .. (c - 1) + 2 : L[i] = IF i <= c - 1 THEN s1[i] ELSE z[i - (c - 1)]
    <3>1. /\ s1 \o z \in Seq(R) /\ Len(s1 \o z) = Len(s1) + Len(z)
          /\ \A i \in 1 .. Len(s1) + Len(z) :
               (s1 \o z)[i] = IF i <= Len(s1) THEN s1[i] ELSE z[i - Len(s1)]
      BY <1>7, <2>1, ConcatProperties
    <3>2. Len(s1) = c - 1
      BY <1>7
    <3> QED
      BY <2>1, <2>2, <3>1, <3>2
  <2>4. (c - 1) + 2 = c + 1
    BY <1>1, <1>2
  <2> QED
    BY <2>3, <2>4 DEF z
<1>10. DOMAIN L = 1 .. c + 1
  BY <1>9
<1>11. \A i \in 1 .. c - 1 : L[i] = ss[i]
  BY <1>1, <1>2, <1>7, <1>9
<1>12. L[c] = x /\ L[c + 1] = y
  <2>1. /\ c \in 1 .. c + 1 /\ c + 1 \in 1 .. c + 1 /\ ~(c <= c - 1) /\ ~(c + 1 <= c - 1)
        /\ c - (c - 1) = 1 /\ c + 1 - (c - 1) = 2
    BY <1>1, <1>2
  <2> DEFINE z == <<x, y>>
  <2>2. L[c] = z[1] /\ L[c + 1] = z[2]
    <3>1. \A i \in 1 .. c + 1 : L[i] = IF i <= c - 1 THEN s1[i] ELSE z[i - (c - 1)]
      BY <1>9
    <3> HIDE DEF z
    <3>2. L[c] = z[c - (c - 1)]
      BY <2>1, <3>1
    <3>3. L[c + 1] = z[c + 1 - (c - 1)]
      BY <2>1, <3>1
    <3> QED
      BY <2>1, <3>2, <3>3
  <2> QED
    BY <1>8, <2>2
<1>13. \A i \in 1 .. c - 1 : ss[i].captured
  BY <1>1, <1>2, <1>5, <1>6
<1> QED
  BY <1>2, <1>3, <1>6, <1>9, <1>10, <1>11, <1>12, <1>13 DEF ss, c, R, L

(* The stack as it is and the scene it goes with.                          *)
CanRecord(st) == StackInv(st) /\ SceneType(scene, gizmo, heap) /\ Unchanged(st, scene, gizmo, heap)

LEMMA TakenTimes ==
  ASSUME NEW st, CanRecord(st), NEW type \in SnapshotTypes
  PROVE  LET su == TakeSnapshot(st, type)
         IN /\ \A t : t \in Times(su) <=> t = st.current \/ (t \in Times(st) /\ t < st.active)
            /\ ListValid(su) /\ ActiveListed(su)
            /\ su.active \notin Times(su) /\ \A t \in Times(su) : t < su.active
<1> DEFINE su == TakeSnapshot(st, type)
           ss == st.snapshots
           c  == LowerBound(ss, st.active)
           L  == su.snapshots
<1>1. StackType(st) /\ ListValid(st)
  BY DEF CanRecord, StackInv
<1>2. /\ L = ListNow(st, type) /\ su.active = st.current + 1 /\ su.current = st.current + 1
  BY <1>1, TakenFields
<1>3. /\ DOMAIN ss = 1 .. Len(ss) /\ Len(ss) \in Nat
      /\ \A i \in DOMAIN ss : ss[i].time \in Nat
      /\ \A i, j \in DOMAIN ss : i < j => ss[i].time < ss[j].time
      /\ st.active \in Nat /\ st.current \in Nat /\ st.active <= st.current
  BY <1>1, StackFields DEF ListValid, StackType
<1>4. c \in 1 .. Len(ss) + 1 /\ \A i \in DOMAIN ss : ss[i].time < st.active <=> i < c
  BY <1>1, <1>3, LowerBoundFacts
<1>5. /\ Len(L) = c + 1 /\ DOMAIN L = 1 .. c + 1
      /\ \A i \in 1 .. c - 1 : L[i] = ss[i] /\ i \in DOMAIN ss /\ ss[i].captured
      /\ L[c].time = st.current /\ L[c].captured
      /\ L[c + 1].time = st.current + 1 /\ ~L[c + 1].captured
  BY <1>1, <1>2, TakenList
<1> HIDE DEF su, ss, c, L
<1>6. \A i \in DOMAIN L : i \in 1 .. c - 1 \/ i = c \/ i = c + 1
  BY <1>3, <1>4, <1>5
<1>7. c \in DOMAIN L /\ c + 1 \in DOMAIN L /\ c + 1 \in 2 .. Len(L)
      /\ \A i \in 1 .. c - 1 : i \in DOMAIN L /\ i < c
  BY <1>3, <1>4, <1>5
<1>8. \A t : t \in Times(su) <=> \E i \in DOMAIN L : L[i].captured /\ L[i].time = t
  BY TimesIs DEF L
<1>9. \A t : t \in Times(st) <=> \E i \in DOMAIN ss : ss[i].captured /\ ss[i].time = t
  BY TimesIs DEF ss
<1>10. ASSUME NEW t \in Times(su) PROVE t = st.current \/ (t \in Times(st) /\ t < st.active)
  <2>1. PICK i \in DOMAIN L : L[i].captured /\ L[i].time = t
    BY <1>8
  <2>2. CASE i \in 1 .. c - 1
    BY <1>4, <1>5, <1>7, <1>9, <2>1, <2>2
  <2> QED
    BY <1>5, <1>6, <2>1, <2>2
<1>11. st.current \in Times(su)
  BY <1>5, <1>7, <1>8
<1>12. ASSUME NEW t \in Times(st), t < st.active PROVE t \in Times(su)
  <2>1. PICK i \in DOMAIN ss : ss[i].captured /\ ss[i].time = t
    BY <1>9
  <2>2. i \in 1 .. c - 1
    BY <1>3, <1>4, <1>12, <2>1
  <2> QED
    BY <1>5, <1>7, <1>8, <2>1, <2>2
<1>13. ASSUME NEW i \in DOMAIN L, NEW j \in DOMAIN L, i < j PROVE L[i].time < L[j].time
  <2>1. \A k \in 1 .. c - 1 : L[k].time \in Nat /\ L[k].time < st.current
    BY <1>3, <1>4, <1>5, <1>7
  <2>2. CASE j \in 1 .. c - 1
    <3>1. i \in 1 .. c - 1
      BY <1>3, <1>4, <1>5, <1>13, <2>2
    <3> QED
      BY <1>3, <1>5, <1>13, <2>2, <3>1
  <2>3. CASE j = c
    <3>1. i \in 1 .. c - 1
      BY <1>3, <1>4, <1>5, <1>13, <2>3
    <3> QED
      BY <1>5, <2>1, <2>3, <3>1
  <2>4. CASE j = c + 1
    <3>1. i \in 1 .. c - 1 \/ i = c
      BY <1>3, <1>4, <1>6, <1>13, <2>4
    <3> QED
      BY <1>3, <1>5, <2>1, <2>4, <3>1
  <2> QED
    BY <1>6, <2>2, <2>3, <2>4
<1>14. ASSUME NEW i \in DOMAIN L
       PROVE  /\ L[i].time <= su.current
              /\ ~L[i].captured => i = Len(L) /\ L[i].time = su.active
  <2>1. CASE i \in 1 .. c - 1
    BY <1>2, <1>3, <1>4, <1>5, <1>7, <2>1
  <2> QED
    BY <1>2, <1>3, <1>5, <1>6, <2>1
<1>15. ListValid(su)
  BY <1>13, <1>14 DEF ListValid, L
<1>16. ActiveListed(su)
  BY <1>2, <1>5, <1>7 DEF ActiveListed, L
<1>17. \A t \in Times(su) : t \in Nat /\ t < su.active
  <2>1. Times(st) \subseteq Nat
    BY <1>1, StackFields
  <2> QED
    BY <1>2, <1>3, <1>10, <2>1
<1>18. su.active \notin Times(su)
  BY <1>2, <1>3, <1>17
<1> QED
  BY <1>10, <1>11, <1>12, <1>15, <1>16, <1>17, <1>18 DEF su

LEMMA TakenType ==
  ASSUME NEW st, CanRecord(st), NEW type \in SnapshotTypes
  PROVE  LET su == TakeSnapshot(st, type)
         IN /\ StackType(su) /\ Pointers(su) /\ IdsPast(su)
            /\ su.mutables = MutablesNow(st)
            /\ su.active = st.current + 1 /\ su.current = st.current + 1
            /\ \A id \in DOMAIN su.immutables :
                 /\ id \in DOMAIN ImmutablesNow(st)
                 /\ su.immutables[id] = ImmutablesNow(st)[id]
                 /\ id \in DOMAIN st.immutables \/ id.at = st.current
            /\ \A id \in DOMAIN ImmutablesNow(st), t \in Nat :
                 DefinedAt(ImmutablesNow(st)[id], t) => id \in DOMAIN su.immutables
<1> DEFINE su == TakeSnapshot(st, type)
           imm == ImmutablesNow(st)
           R == [time : Nat, type : SnapshotTypes, captured : BOOLEAN]
<1>1. /\ StackType(st) /\ ListValid(st) /\ Pointers(st) /\ IdsPast(st)
      /\ SceneType(scene, gizmo, heap)
  BY DEF CanRecord, StackInv
<1>2. /\ su = [snapshots |-> su.snapshots, mutables |-> su.mutables,
               immutables |-> su.immutables, ids |-> su.ids,
               active |-> su.active, current |-> su.current]
      /\ su.snapshots = ListNow(st, type) /\ su.mutables = MutablesNow(st)
      /\ su.active = st.current + 1 /\ su.current = st.current + 1
      /\ DOMAIN su.immutables = {id \in DOMAIN imm : imm[id] # <<>>}
      /\ \A id \in DOMAIN su.immutables : su.immutables[id] = imm[id]
      /\ DOMAIN su.ids \subseteq DOMAIN IdsNow(st)
      /\ InStep(IdsNow(st), imm) => Pointers(su)
  BY <1>1, TakenFields
<1> HIDE DEF su, imm
<1>3. InStep(IdsNow(st), imm) /\ DOMAIN IdsNow(st) \subseteq Addrs
  BY <1>1, IdsNowFacts DEF imm
<1>4. Pointers(su) /\ DOMAIN su.ids \subseteq Addrs
  BY <1>2, <1>3
<1>5. /\ DOMAIN st.immutables \subseteq [addr : Addrs, at : Nat] /\ st.current \in Nat
      /\ \A id \in DOMAIN st.immutables : id.at < st.current
      /\ \A o \in Objects : \A i \in DOMAIN st.mutables[o] : st.mutables[o][i].data.id.at < st.current
  BY <1>1 DEF StackType, IdsPast
<1>6. \A id \in DOMAIN imm : /\ imm[id] \in Seq(Lifetimes) /\ Sorted(imm[id])
                             /\ id \in DOMAIN st.immutables \/ id \in UsedNow(st)
  BY <1>1, ImmutablesNowFacts DEF imm
<1>7. \A id \in UsedNow(st) : /\ id \in [addr : Addrs, at : Nat] /\ id.at <= st.current
                              /\ id \in DOMAIN st.immutables \/ id.at = st.current
  BY <1>1, IdsNowFacts
<1>8. \A id \in DOMAIN su.immutables :
        /\ id \in DOMAIN imm /\ su.immutables[id] = imm[id] /\ id \in [addr : Addrs, at : Nat]
        /\ id.at < st.current + 1
        /\ id \in DOMAIN st.immutables \/ id.at = st.current
  <2>1. ASSUME NEW id \in DOMAIN su.immutables
        PROVE  /\ id \in [addr : Addrs, at : Nat] /\ id.at < st.current + 1
               /\ id \in DOMAIN st.immutables \/ id.at = st.current
    <3>1. id \in DOMAIN st.immutables \/ id \in UsedNow(st)
      BY <1>2, <1>6
    <3>2. /\ id \in [addr : Addrs, at : Nat] /\ id.at <= st.current
          /\ id \in DOMAIN st.immutables \/ id.at = st.current
      BY <1>5, <1>7, <3>1
    <3>3. id.at \in Nat
      BY <3>2
    <3> QED
      BY <1>5, <3>2, <3>3
  <2> QED
    BY <1>2, <2>1
<1>9. \A m \in Mutables : su.mutables[m] \in Seq(Saved(m)) /\ Sorted(su.mutables[m])
  BY <1>1, <1>2, MutablesNowFacts
<1>10. su.snapshots \in Seq(R)
  <2> DEFINE L == ListNow(st, type)
  <2>1. L \in Seq(R)
    BY <1>1, TakenList
  <2>2. su.snapshots = L
    BY <1>2
  <2> HIDE DEF L, R
  <2> QED
    BY <2>1, <2>2
<1>11. StackType(su)
  <2>1. DOMAIN su.immutables \subseteq [addr : Addrs, at : Nat]
    BY <1>8
  <2>2. \A id \in DOMAIN su.immutables : su.immutables[id] \in Seq(Lifetimes) /\ Sorted(su.immutables[id])
    BY <1>6, <1>8
  <2>3. su.active \in Nat /\ su.current \in Nat /\ su.active <= su.current
    BY <1>2, <1>5
  <2> QED
    BY <1>2, <1>4, <1>9, <1>10, <2>1, <2>2, <2>3 DEF StackType
<1>12. ASSUME NEW o \in Objects, NEW i \in DOMAIN su.mutables[o]
       PROVE  su.mutables[o][i].data.id.at < su.current
  <2> DEFINE g == MutablesNow(st)[o]
             h == st.mutables[o]
  <2>1. o \in Mutables
    BY ObjectFacts
  <2>2. \/ o \in SavedNow /\ g[i].data = DataNow(st, o)
        \/ \E j \in DOMAIN h : g[i].data = h[j].data
    BY <1>1, <1>2, <2>1, MutablesNowFacts
  <2>3. CASE o \in SavedNow /\ g[i].data = DataNow(st, o)
    <3>1. o \in Present(scene) /\ g[i].data.id = IdsNow(st)[scene[o]]
      BY <1>1, <2>3, DataNowFacts
    <3>2. g[i].data.id.at <= st.current /\ g[i].data.id.at \in Nat
      <4>1. /\ scene[o] \in SharedNow /\ IdsNow(st)[scene[o]].at <= st.current
            /\ IdsNow(st)[scene[o]] \in [addr : {scene[o]}, at : Nat]
        BY <1>1, <3>1, IdsNowFacts
      <4> QED
        BY <3>1, <4>1
    <3> QED
      BY <1>2, <1>5, <3>2
  <2>4. CASE \E j \in DOMAIN h : g[i].data = h[j].data
    <3>1. PICK j \in DOMAIN h : g[i].data = h[j].data
      BY <2>4
    <3>2. h[j].data.id.at < st.current /\ h[j].data \in DataOf(o)
      BY <1>1, <1>5, <2>1, StackFields
    <3>3. h[j].data \in [shape : Shapes, id : [addr : AddrsOf(o), at : Nat]]
      BY <3>2, ObjectFacts
    <3>4. h[j].data.id.at \in Nat
      BY <3>3
    <3> QED
      BY <1>2, <1>5, <3>1, <3>2, <3>4
  <2> QED
    BY <2>2, <2>3, <2>4
<1>13. IdsPast(su)
  BY <1>2, <1>8, <1>12 DEF IdsPast
<1>14. \A id \in DOMAIN imm, t \in Nat : DefinedAt(imm[id], t) => id \in DOMAIN su.immutables
  <2>1. ASSUME NEW id \in DOMAIN imm, NEW t \in Nat, DefinedAt(imm[id], t) PROVE imm[id] # <<>>
    BY <2>1 DEF DefinedAt
  <2> QED
    BY <1>2, <2>1
<1> QED
  BY <1>2, <1>4, <1>8, <1>11, <1>13, <1>14 DEF su, imm

(* Before the active time everything stays.                                *)
LEMMA TakenMoment ==
  ASSUME NEW st, CanRecord(st), NEW type \in SnapshotTypes, NEW t \in Nat, t < st.active
  PROVE  SameMoment(TakeSnapshot(st, type), st, t)
<1> DEFINE su == TakeSnapshot(st, type)
           imm == ImmutablesNow(st)
<1>1. /\ StackType(st) /\ Pointers(st) /\ IdsPast(st) /\ SceneType(scene, gizmo, heap)
  BY DEF CanRecord, StackInv
<1>2. /\ su.mutables = MutablesNow(st)
      /\ \A id \in DOMAIN su.immutables :
           /\ id \in DOMAIN imm /\ su.immutables[id] = imm[id]
           /\ id \in DOMAIN st.immutables \/ id.at = st.current
      /\ \A id \in DOMAIN imm, u \in Nat : DefinedAt(imm[id], u) => id \in DOMAIN su.immutables
  BY TakenType
<1> HIDE DEF su
<1>3. \A m \in Mutables : SameAt(su.mutables[m], st.mutables[m], t)
  BY <1>1, <1>2, MutablesNowFacts
<1>4. \A id \in DOMAIN imm : DefinedAt(imm[id], t) <=> /\ id \in DOMAIN st.immutables
                                                       /\ DefinedAt(st.immutables[id], t)
  BY <1>1, ImmutablesNowFacts
<1>5. \A id \in DOMAIN su.immutables : DefinedAt(su.immutables[id], t) =>
        id \in DOMAIN st.immutables /\ DefinedAt(st.immutables[id], t)
  BY <1>2, <1>4
<1>6. DOMAIN st.immutables \subseteq DOMAIN imm
  BY DEF ImmutablesNow
<1>7. \A id \in DOMAIN st.immutables : DefinedAt(st.immutables[id], t) =>
        id \in DOMAIN su.immutables /\ DefinedAt(su.immutables[id], t)
  <2> HIDE DEF imm
  <2> QED
    BY <1>2, <1>4, <1>6
<1>8. ASSUME NEW o \in Objects, NEW i \in DOMAIN st.mutables[o],
             st.mutables[o][i].data.id \in DOMAIN su.immutables
      PROVE  st.mutables[o][i].data.id \in DOMAIN st.immutables
  <2>1. st.mutables[o][i].data.id.at < st.current /\ st.current \in Nat
    BY <1>1 DEF IdsPast, StackType
  <2>2. st.mutables[o][i].data.id.at # st.current
    BY <2>1
  <2> QED
    BY <1>2, <1>8, <2>2
<1>9. SameMoment(su, st, t)
  BY <1>3, <1>5, <1>7, <1>8 DEF SameMoment
<1> QED
  BY <1>9 DEF su

(* The snapshot taken shows the scene.                                     *)
LEMMA TakenNow ==
  ASSUME NEW st, CanRecord(st), NEW type \in SnapshotTypes
  PROVE  LET su == TakeSnapshot(st, type)
         IN /\ Loadable(su, st.current) /\ Recorded(su, st.current)
            /\ SceneIs(su, scene, gizmo, heap, st.current)
<1> DEFINE su == TakeSnapshot(st, type)
           imm == ImmutablesNow(st)
           now == st.current
<1>1. /\ StackType(st) /\ Pointers(st) /\ IdsPast(st) /\ SceneType(scene, gizmo, heap) /\ now \in Nat
  BY DEF CanRecord, StackInv, StackType
<1>2. /\ su.mutables = MutablesNow(st)
      /\ \A id \in DOMAIN su.immutables : id \in DOMAIN imm /\ su.immutables[id] = imm[id]
      /\ \A id \in DOMAIN imm, u \in Nat : DefinedAt(imm[id], u) => id \in DOMAIN su.immutables
  BY TakenType
<1> HIDE DEF su
<1>3. \A m \in Mutables :
        /\ DefinedAt(su.mutables[m], now) <=> m \in SavedNow
        /\ m \in SavedNow => IntervalAt(su.mutables[m], now).data = DataNow(st, m)
  BY <1>1, <1>2, MutablesNowFacts
<1>4. \A id \in DOMAIN imm : DefinedAt(imm[id], now) <=> id \in UsedNow(st)
  BY <1>1, ImmutablesNowFacts
<1>5. /\ DataNow(st, "Model") = Present(scene) /\ "Model" \in SavedNow
      /\ DataNow(st, "GLGizmosManager") = gizmo /\ "GLGizmosManager" \in SavedNow
      /\ \A o \in Present(scene) :
           /\ o \in Objects /\ o \in SavedNow
           /\ DataNow(st, o) = [shape |-> heap[scene[o]], id |-> IdsNow(st)[scene[o]]]
      /\ \A o \in Objects : o \in SavedNow => o \in Present(scene)
  BY <1>1, DataNowFacts
<1>6. ObjectsAt(su, now) = Present(scene)
      /\ IntervalAt(su.mutables["GLGizmosManager"], now).data = gizmo
      /\ \A m \in {"Model", "GLGizmosManager"} : DefinedAt(su.mutables[m], now)
  BY <1>3, <1>5, ObjectFacts DEF ObjectsAt
<1>7. \A o \in Present(scene) :
        /\ o \in Objects /\ DefinedAt(su.mutables[o], now)
        /\ Loaded(su, o, now).shape = heap[scene[o]] /\ Loaded(su, o, now).id = IdsNow(st)[scene[o]]
  <2>1. ASSUME NEW o \in Present(scene)
        PROVE  /\ o \in Objects /\ DefinedAt(su.mutables[o], now)
               /\ Loaded(su, o, now) = [shape |-> heap[scene[o]], id |-> IdsNow(st)[scene[o]]]
    BY <1>3, <1>5, ObjectFacts DEF Loaded
  <2>2. ASSUME NEW o \in Present(scene)
        PROVE  /\ Loaded(su, o, now).shape = heap[scene[o]]
               /\ Loaded(su, o, now).id = IdsNow(st)[scene[o]]
    <3> DEFINE d == Loaded(su, o, now)
               v == heap[scene[o]]
               w == IdsNow(st)[scene[o]]
    <3>1. d = [shape |-> v, id |-> w]
      BY <2>1
    <3> HIDE DEF d, v, w
    <3>2. d.shape = v /\ d.id = w
      BY <3>1
    <3> QED
      BY <3>2 DEF d, v, w
  <2> QED
    BY <2>1, <2>2
<1>8. \A o \in Present(scene) :
        /\ IdsNow(st)[scene[o]] \in UsedNow(st) /\ IdsNow(st)[scene[o]].addr = scene[o]
  BY <1>1, IdsNowFacts
<1>9. UsedNow(st) \subseteq DOMAIN imm
  BY DEF ImmutablesNow
<1> HIDE DEF imm, now
<1>10. \A id \in UsedNow(st) : id \in DOMAIN su.immutables /\ DefinedAt(su.immutables[id], now)
  BY <1>1, <1>2, <1>4, <1>9
<1>11. Loadable(su, now)
  BY <1>6, <1>7, <1>8, <1>10 DEF Loadable
<1>12. Recorded(su, now)
  <2>1. \A o \in Objects : DefinedAt(su.mutables[o], now) => o \in ObjectsAt(su, now)
    BY <1>3, <1>5, <1>6, ObjectFacts
  <2>2. ASSUME NEW id \in DOMAIN su.immutables, DefinedAt(su.immutables[id], now)
        PROVE  \E o \in ObjectsAt(su, now) : Loaded(su, o, now).id = id
    <3>1. id \in UsedNow(st)
      BY <1>2, <1>4, <2>2
    <3>2. \E o \in Present(scene) : id = IdsNow(st)[scene[o]]
      BY <3>1 DEF UsedNow, SharedNow
    <3> QED
      BY <1>6, <1>7, <3>2
  <2> QED
    BY <2>1, <2>2 DEF Recorded
<1>13. SceneIs(su, scene, gizmo, heap, now)
  BY <1>6, <1>7, <1>8 DEF SceneIs
<1> QED
  BY <1>11, <1>12, <1>13 DEF su, now

(* What the active snapshot recorded would be recorded again now.          *)
LEMMA ActiveData ==
  ASSUME NEW st, CanRecord(st), st.active \in Times(st)
  PROVE  /\ \A m \in Mutables \ Hulled : DefinedAt(st.mutables[m], st.active) =>
              m \in SavedNow /\ IntervalAt(st.mutables[m], st.active).data = DataNow(st, m)
         /\ \A id \in DOMAIN st.immutables :
              DefinedAt(st.immutables[id], st.active) => id \in UsedNow(st)
<1> DEFINE a == st.active
<1>1. /\ StackType(st) /\ Pointers(st) /\ IdsPast(st) /\ SceneType(scene, gizmo, heap) /\ a \in Nat
      /\ Loadable(st, a) /\ Recorded(st, a) /\ SceneIs(st, scene, gizmo, heap, a)
  BY DEF CanRecord, StackInv, StackType, Unchanged
<1>2. /\ ObjectsAt(st, a) = Present(scene)
      /\ IntervalAt(st.mutables["GLGizmosManager"], a).data = gizmo
      /\ \A o \in Present(scene) :
           /\ heap[scene[o]] = Loaded(st, o, a).shape
           /\ Loaded(st, o, a).id \in DOMAIN st.immutables => scene[o] = Loaded(st, o, a).id.addr
  BY <1>1 DEF SceneIs
<1>3. /\ DataNow(st, "Model") = Present(scene) /\ "Model" \in SavedNow
      /\ DataNow(st, "GLGizmosManager") = gizmo /\ "GLGizmosManager" \in SavedNow
      /\ \A o \in Present(scene) :
           /\ o \in Objects /\ o \in SavedNow
           /\ DataNow(st, o) = [shape |-> heap[scene[o]], id |-> IdsNow(st)[scene[o]]]
  BY <1>1, DataNowFacts
<1>4. \A o \in Present(scene) : Loaded(st, o, a).id \in DOMAIN st.immutables =>
        /\ IdsNow(st)[scene[o]] = Loaded(st, o, a).id
        /\ Loaded(st, o, a).id \in UsedNow(st)
  <2>1. ASSUME NEW o \in Present(scene), Loaded(st, o, a).id \in DOMAIN st.immutables
        PROVE  /\ IdsNow(st)[scene[o]] = Loaded(st, o, a).id
               /\ Loaded(st, o, a).id \in UsedNow(st)
    <3> DEFINE id == Loaded(st, o, a).id
    <3>1. id \in DOMAIN st.immutables /\ scene[o] = id.addr
      BY <1>2, <2>1
    <3> HIDE DEF id
    <3>2. scene[o] \in SharedNow
      BY <1>1, IdsNowFacts
    <3>3. IdsNow(st)[scene[o]] \in UsedNow(st) /\ IdsNow(st)[scene[o]] = id
      BY <1>1, <3>1, <3>2, IdsNowFacts
    <3> QED
      BY <3>3 DEF id
  <2> QED
    BY <2>1
<1> HIDE DEF a
<1>5. ASSUME NEW m \in Mutables \ Hulled, DefinedAt(st.mutables[m], a)
      PROVE  m \in SavedNow /\ IntervalAt(st.mutables[m], a).data = DataNow(st, m)
  <2>1. CASE m = "Model"
    BY <1>2, <1>3, <2>1 DEF ObjectsAt
  <2>2. CASE m = "GLGizmosManager"
    BY <1>2, <1>3, <2>2
  <2>3. CASE m \in Objects
    <3> DEFINE d == IntervalAt(st.mutables[m], a).data
    <3>1. m \in Present(scene)
      BY <1>1, <1>2, <1>5, <2>3 DEF Recorded
    <3>2. d = Loaded(st, m, a)
      BY DEF Loaded
    <3>3. d \in [shape : Shapes, id : [addr : AddrsOf(m), at : Nat]]
      <4>1. d \in DataOf(m)
        BY <1>1, <1>5, LoadedData
      <4> HIDE DEF d
      <4> QED
        BY <2>3, <4>1, ObjectFacts
    <3> HIDE DEF d
    <3>4. d.id \in DOMAIN st.immutables
      BY <1>1, <1>2, <3>1, <3>2 DEF Loadable
    <3>5. d.shape = heap[scene[m]] /\ d.id = IdsNow(st)[scene[m]]
      BY <1>2, <1>4, <3>1, <3>2, <3>4
    <3>6. d = [shape |-> d.shape, id |-> d.id]
      BY <3>3
    <3>7. d = DataNow(st, m)
      BY <1>3, <3>1, <3>5, <3>6
    <3> QED
      BY <1>3, <3>1, <3>7 DEF d
  <2> QED
    BY <1>5, <2>1, <2>2, <2>3 DEF Mutables
<1>6. ASSUME NEW id \in DOMAIN st.immutables, DefinedAt(st.immutables[id], a)
      PROVE  id \in UsedNow(st)
  <2>1. PICK o \in ObjectsAt(st, a) : Loaded(st, o, a).id = id
    BY <1>1, <1>6 DEF Recorded
  <2> QED
    BY <1>2, <1>4, <1>6, <2>1
<1> QED
  BY <1>5, <1>6 DEF a

(* An interval cut at the active time is still in use, unless it was to be *)
(* extended.                                                               *)
LEMMA TakenInUse ==
  ASSUME NEW st, CanRecord(st), NEW type \in SnapshotTypes
  PROVE  DataInUse(TakeSnapshot(st, type))
<1> DEFINE su == TakeSnapshot(st, type)
           a == st.active
           now == st.current
<1>1. /\ StackType(st) /\ Pointers(st) /\ IdsPast(st) /\ SceneType(scene, gizmo, heap)
      /\ DataInUse(st) /\ a \in Nat /\ now \in Nat
      /\ a \notin Times(st) => \A t \in Times(st) : t < a
  BY DEF CanRecord, StackInv, StackType, Unchanged
<1>2. \A t : t \in Times(su) <=> t = now \/ (t \in Times(st) /\ t < a)
  BY TakenTimes
<1>3. /\ su.mutables = MutablesNow(st)
      /\ \A id \in DOMAIN su.immutables :
           id \in DOMAIN ImmutablesNow(st) /\ su.immutables[id] = ImmutablesNow(st)[id]
  BY TakenType
<1>4. Times(st) \subseteq Nat
  BY <1>1, StackFields
<1>5. a \in Times(st) =>
        /\ \A m \in Mutables \ Hulled : DefinedAt(st.mutables[m], a) =>
             m \in SavedNow /\ IntervalAt(st.mutables[m], a).data = DataNow(st, m)
        /\ \A id \in DOMAIN st.immutables :
             DefinedAt(st.immutables[id], a) => id \in UsedNow(st)
  BY ActiveData
<1> HIDE DEF su, a, now
<1>6. ASSUME NEW m \in Mutables \ Hulled, NEW i \in DOMAIN su.mutables[m]
      PROVE  \E t \in Times(su) : su.mutables[m][i].b <= t /\ t < su.mutables[m][i].e
  <2> DEFINE g == MutablesNow(st)[m]
             h == st.mutables[m]
  <2>1. \/ g[i].b <= now /\ now < g[i].e
        \/ \E j \in DOMAIN h : /\ g[i].b = h[j].b /\ g[i].e = Smaller(h[j].e, a)
                               /\ h[j].b < a
                               /\ m \in SavedNow => ~(h[j].e >= a /\ h[j].data = DataNow(st, m))
    BY <1>1, <1>3, MutablesNowFacts DEF a, now
  <2>2. CASE g[i].b <= now /\ now < g[i].e
    BY <1>2, <1>3, <2>2
  <2>3. ASSUME NEW j \in DOMAIN h, g[i].b = h[j].b, g[i].e = Smaller(h[j].e, a), h[j].b < a,
               m \in SavedNow => ~(h[j].e >= a /\ h[j].data = DataNow(st, m))
        PROVE  \E t \in Times(su) : g[i].b <= t /\ t < g[i].e
    <3>1. PICK t \in Times(st) : h[j].b <= t /\ t < h[j].e
      BY <1>1, <2>3 DEF DataInUse, InUse
    <3>2. h[j].b \in Nat /\ h[j].e \in Nat /\ t \in Nat
      BY <1>1, <1>4, <2>3, <3>1, StackFields
    <3>3. CASE t < a
      <4>1. t < Smaller(h[j].e, a)
        BY <1>1, <3>1, <3>2, <3>3 DEF Smaller
      <4> QED
        BY <1>2, <2>3, <3>1, <3>3, <4>1
    <3>4. CASE ~(t < a)
      <4>1. a \in Times(st)
        BY <1>1, <3>1, <3>4
      <4>2. h[j].b <= a /\ a < h[j].e /\ h[j].e >= a
        BY <1>1, <2>3, <3>1, <3>2, <3>4
      <4>3. DefinedAt(h, a) /\ IntervalAt(h, a) = h[j]
        <5>1. h \in Seq(Saved(m)) /\ Sorted(h) /\ Saved(m) \in Records
          BY <1>1, StackFields
        <5> HIDE DEF h
        <5>2. IntervalAt(h, a) = h[j]
          BY <1>1, <2>3, <4>2, <5>1, IntervalIs
        <5> QED
          BY <2>3, <4>2, <5>2 DEF DefinedAt
      <4>4. m \in SavedNow /\ h[j].data = DataNow(st, m)
        BY <1>5, <4>1, <4>3
      <4> QED
        BY <2>3, <4>2, <4>4
    <3> QED
      BY <3>3, <3>4
  <2> QED
    BY <1>3, <2>1, <2>2, <2>3
<1>7. ASSUME NEW id \in DOMAIN su.immutables, NEW i \in DOMAIN su.immutables[id]
      PROVE  \E t \in Times(su) : su.immutables[id][i].b <= t /\ t < su.immutables[id][i].e
  <2> DEFINE g == ImmutablesNow(st)[id]
             h == st.immutables[id]
  <2>1. \/ g[i].b <= now /\ now < g[i].e
        \/ /\ id \in DOMAIN st.immutables
           /\ \E j \in DOMAIN h : /\ g[i].b = h[j].b /\ g[i].e = Smaller(h[j].e, a)
                                  /\ h[j].b < a
                                  /\ id \in UsedNow(st) => ~(h[j].e >= a)
    BY <1>1, <1>3, ImmutablesNowFacts DEF a, now
  <2>2. CASE g[i].b <= now /\ now < g[i].e
    BY <1>2, <1>3, <2>2
  <2>3. ASSUME id \in DOMAIN st.immutables,
               NEW j \in DOMAIN h, g[i].b = h[j].b, g[i].e = Smaller(h[j].e, a), h[j].b < a,
               id \in UsedNow(st) => ~(h[j].e >= a)
        PROVE  \E t \in Times(su) : g[i].b <= t /\ t < g[i].e
    <3>1. PICK t \in Times(st) : h[j].b <= t /\ t < h[j].e
      BY <1>1, <2>3 DEF DataInUse, InUse
    <3>2. h[j].b \in Nat /\ h[j].e \in Nat /\ t \in Nat
      BY <1>1, <1>4, <2>3, <3>1, StackFields
    <3>3. CASE t < a
      <4>1. t < Smaller(h[j].e, a)
        BY <1>1, <3>1, <3>2, <3>3 DEF Smaller
      <4> QED
        BY <1>2, <2>3, <3>1, <3>3, <4>1
    <3>4. CASE ~(t < a)
      <4>1. a \in Times(st)
        BY <1>1, <3>1, <3>4
      <4>2. h[j].b <= a /\ a < h[j].e /\ h[j].e >= a
        BY <1>1, <2>3, <3>1, <3>2, <3>4
      <4>3. DefinedAt(h, a)
        BY <2>3, <4>2 DEF DefinedAt
      <4> QED
        BY <1>5, <2>3, <4>1, <4>2, <4>3
    <3> QED
      BY <3>3, <3>4
  <2> QED
    BY <1>3, <2>1, <2>2, <2>3
<1>8. DataInUse(su)
  BY <1>6, <1>7 DEF DataInUse, InUse
<1> QED
  BY <1>8 DEF su

LEMMA TakenHeap ==
  ASSUME NEW st, CanRecord(st), HeapHolds(st, heap), NEW type \in SnapshotTypes
  PROVE  HeapHolds(TakeSnapshot(st, type), heap)
<1> DEFINE su == TakeSnapshot(st, type)
<1>1. /\ StackType(st) /\ Pointers(st) /\ IdsPast(st) /\ SceneType(scene, gizmo, heap)
      /\ st.current \in Nat
  BY DEF CanRecord, StackInv, StackType
<1>2. /\ su.mutables = MutablesNow(st)
      /\ \A id \in DOMAIN su.immutables :
           id \in DOMAIN ImmutablesNow(st) /\ (id \in DOMAIN st.immutables \/ id.at = st.current)
  BY TakenType
<1> HIDE DEF su
<1>3. \A id \in DOMAIN su.immutables : heap[id.addr] \in Shapes
  <2>1. ASSUME NEW id \in DOMAIN su.immutables PROVE heap[id.addr] \in Shapes
    <3>1. id \in DOMAIN st.immutables \/ id \in UsedNow(st)
      BY <1>1, <1>2, ImmutablesNowFacts
    <3>2. CASE id \in DOMAIN st.immutables
      BY <3>2 DEF HeapHolds
    <3>3. CASE id \in UsedNow(st)
      BY <1>1, <3>3, IdsNowFacts
    <3> QED
      BY <3>1, <3>2, <3>3
  <2> QED
    BY <2>1
<1>4. ASSUME NEW o \in Objects, NEW i \in DOMAIN su.mutables[o],
             su.mutables[o][i].data.id \in DOMAIN su.immutables
      PROVE  heap[su.mutables[o][i].data.id.addr] = su.mutables[o][i].data.shape
  <2> DEFINE g == MutablesNow(st)[o]
             h == st.mutables[o]
  <2>1. \/ o \in SavedNow /\ g[i].data = DataNow(st, o)
        \/ \E j \in DOMAIN h : g[i].data = h[j].data
    <3>1. o \in Mutables
      BY ObjectFacts
    <3> QED
      BY <1>1, <1>2, <1>4, <3>1, MutablesNowFacts
  <2>2. CASE o \in SavedNow /\ g[i].data = DataNow(st, o)
    <3> DEFINE v == heap[scene[o]]
               w == IdsNow(st)[scene[o]]
    <3>1. o \in Present(scene) /\ g[i].data = [shape |-> v, id |-> w]
      BY <1>1, <2>2, DataNowFacts
    <3>2. w.addr = scene[o]
      BY <1>1, <3>1, IdsNowFacts
    <3> HIDE DEF v, w, g
    <3>3. g[i].data.shape = v /\ g[i].data.id = w
      BY <3>1
    <3> QED
      BY <1>2, <3>2, <3>3 DEF v, g
  <2>3. CASE \E j \in DOMAIN h : g[i].data = h[j].data
    <3>1. PICK j \in DOMAIN h : g[i].data = h[j].data
      BY <2>3
    <3>2. h[j].data.id.at < st.current
      BY <1>1, <3>1 DEF IdsPast
    <3>3. h[j].data.id \in DOMAIN su.immutables
      BY <1>2, <1>4, <3>1
    <3>4. h[j].data.id.at # st.current
      BY <1>1, <3>2
    <3>5. h[j].data.id \in DOMAIN st.immutables
      BY <1>2, <3>3, <3>4
    <3>6. heap[h[j].data.id.addr] = h[j].data.shape
      BY <3>1, <3>5 DEF HeapHolds
    <3> QED
      BY <1>2, <3>1, <3>6
  <2> QED
    BY <2>1, <2>2, <2>3
<1>5. HeapHolds(su, heap)
  BY <1>3, <1>4 DEF HeapHolds
<1> QED
  BY <1>5 DEF su

(* take_snapshot() keeps the invariant, whatever the program does next.    *)
LEMMA TakeKeeps ==
  ASSUME NEW st, CanRecord(st), HeapHolds(st, heap), NEW type \in SnapshotTypes
  PROVE  LET su == TakeSnapshot(st, type)
         IN /\ StackInv(su) /\ ActiveListed(su) /\ HeapHolds(su, heap)
            /\ su.active = st.current + 1 /\ su.current = st.current + 1
            /\ \A sc, gz, hp : Unchanged(su, sc, gz, hp)
            /\ Len(su.snapshots) >= 2 /\ su.snapshots[Len(su.snapshots)].time = su.active
<1> DEFINE su == TakeSnapshot(st, type)
<1>1. /\ StackType(st) /\ ListValid(st) /\ \A t \in Times(st) : Loadable(st, t) /\ Recorded(st, t)
  BY DEF CanRecord, StackInv
<1>2. /\ \A t : t \in Times(su) <=> t = st.current \/ (t \in Times(st) /\ t < st.active)
      /\ ListValid(su) /\ ActiveListed(su)
      /\ su.active \notin Times(su) /\ \A t \in Times(su) : t < su.active
  BY TakenTimes
<1>3. /\ StackType(su) /\ Pointers(su) /\ IdsPast(su)
      /\ su.active = st.current + 1 /\ su.current = st.current + 1
  BY TakenType
<1>4. DataInUse(su) /\ HeapHolds(su, heap)
  BY TakenInUse, TakenHeap
<1>5. Loadable(su, st.current) /\ Recorded(su, st.current)
  BY TakenNow
<1>6. \A t \in Nat : t < st.active => SameMoment(su, st, t)
  BY TakenMoment
<1>7. Len(su.snapshots) >= 2 /\ su.snapshots[Len(su.snapshots)].time = su.active
  <2> DEFINE L == ListNow(st, type)
             c == LowerBound(st.snapshots, st.active)
  <2>1. su.snapshots = L
    BY <1>1, TakenFields
  <2>2. c \in 1 .. Len(st.snapshots) + 1 /\ Len(L) = c + 1 /\ L[c + 1].time = st.current + 1
    BY <1>1, TakenList
  <2> HIDE DEF su, L, c
  <2> QED
    BY <1>3, <2>1, <2>2
<1> HIDE DEF su
<1>8. \A t \in Times(su) : Loadable(su, t) /\ Recorded(su, t)
  <2>1. ASSUME NEW t \in Times(st), t < st.active PROVE Loadable(su, t) /\ Recorded(su, t)
    <3>1. t \in Nat
      BY <1>1, StackFields
    <3> QED
      BY <1>1, <1>3, <1>6, <2>1, <3>1, MomentKept
  <2> QED
    BY <1>2, <1>5, <2>1
<1>9. StackInv(su)
  BY <1>2, <1>3, <1>4, <1>8 DEF StackInv
<1>10. \A sc, gz, hp : Unchanged(su, sc, gz, hp)
  BY <1>2 DEF Unchanged
<1> QED
  BY <1>2, <1>3, <1>4, <1>7, <1>9, <1>10 DEF su

LEMMA EmptyFacts ==
  /\ StackInv(EmptyStack) /\ EmptyStack.current = 0 /\ EmptyStack.active = 0
  /\ \A sc, gz, hp : HeapHolds(EmptyStack, hp) /\ Unchanged(EmptyStack, sc, gz, hp)
<1> DEFINE M == [m \in Mutables |-> <<>>]
<1>1. /\ EmptyStack = [snapshots |-> <<>>, mutables |-> M, immutables |-> <<>>, ids |-> <<>>,
                       active |-> 0, current |-> 0]
      /\ \A m \in Mutables : M[m] = <<>>
  BY DEF EmptyStack
<1> HIDE DEF M
<1>2. /\ EmptyStack.snapshots = <<>> /\ EmptyStack.mutables = M /\ EmptyStack.immutables = <<>>
      /\ EmptyStack.ids = <<>> /\ EmptyStack.active = 0 /\ EmptyStack.current = 0
  BY <1>1
<1>3. DOMAIN <<>> = {}
  OBVIOUS
<1>4. \A A : <<>> \in Seq(A)
  OBVIOUS
<1>5. Times(EmptyStack) = {}
  BY <1>2, <1>3 DEF Times
<1>6. \A o \in Objects : o \in Mutables
  BY ObjectFacts
<1>7. StackType(EmptyStack)
  <2>1. EmptyStack = [snapshots |-> EmptyStack.snapshots, mutables |-> EmptyStack.mutables,
                      immutables |-> EmptyStack.immutables, ids |-> EmptyStack.ids,
                      active |-> EmptyStack.active, current |-> EmptyStack.current]
    BY <1>1, <1>2
  <2>2. \A m \in Mutables : EmptyStack.mutables[m] \in Seq(Saved(m)) /\ Sorted(EmptyStack.mutables[m])
    BY <1>1, <1>2, <1>3, <1>4 DEF Sorted
  <2>3. DOMAIN EmptyStack.immutables = {} /\ DOMAIN EmptyStack.ids = {}
    BY <1>2, <1>3
  <2>4. EmptyStack.snapshots \in Seq([time : Nat, type : SnapshotTypes, captured : BOOLEAN])
    BY <1>2, <1>4
  <2> QED
    BY <1>2, <2>1, <2>2, <2>3, <2>4 DEF StackType
<1>8. ListValid(EmptyStack) /\ IdsPast(EmptyStack)
  BY <1>1, <1>2, <1>3, <1>6 DEF ListValid, IdsPast
<1>9. Pointers(EmptyStack)
  BY <1>2, <1>3 DEF Pointers
<1>10. DataInUse(EmptyStack)
  BY <1>1, <1>2, <1>3 DEF DataInUse, InUse
<1>11. StackInv(EmptyStack)
  BY <1>5, <1>7, <1>8, <1>9, <1>10 DEF StackInv
<1>12. \A sc, gz, hp : Unchanged(EmptyStack, sc, gz, hp)
  BY <1>5 DEF Unchanged
<1>13. \A hp : HeapHolds(EmptyStack, hp)
  BY <1>1, <1>2, <1>3, <1>6 DEF HeapHolds
<1> QED
  BY <1>2, <1>11, <1>12, <1>13

(* Every operation ends in Settle(): memory is released and freed.         *)
LEMMA SettleKeeps ==
  ASSUME NEW st, NEW held, NEW sc, NEW gz, NEW hp,
         StackInv(st), ActiveListed(st), st.current <= MaxTime + 1,
         HeapHolds(st, hp), SceneType(sc, gz, hp), Unchanged(st, sc, gz, hp),
         Settle(st, held, sc, gz, hp)
  PROVE  IInv'
<1>1. PICK hulls \in SUBSET Releasable(st, held), n \in 0 .. ActiveIndex(st) - 2 :
        /\ stack' = ReleaseLeastRecentlyUsed(st, hulls, n)
        /\ scene' = sc /\ gizmo' = gz
        /\ heap' = [a \in Addrs |-> IF a \in Live(stack', sc) THEN hp[a] ELSE Absent]
  BY DEF Settle
<1> DEFINE su == ReleaseLeastRecentlyUsed(st, hulls, n)
           h2 == heap'
<1>2. Shrunk(su, st) /\ ActiveListed(su) /\ DOMAIN su.mutables = Mutables
  BY ReleaseShrinks
<1> HIDE DEF su
<1>3. /\ StackInv(su) /\ HeapHolds(su, hp) /\ Unchanged(su, sc, gz, hp)
      /\ su.current = st.current /\ su.active = st.active
  BY <1>2, ShrunkKeeps DEF Shrunk
<1>4. /\ stack' = su /\ scene' = sc /\ gizmo' = gz
      /\ h2 = [a \in Addrs |-> IF a \in Live(su, sc) THEN hp[a] ELSE Absent]
  BY <1>1 DEF su
<1> HIDE DEF h2
<1>5. StackType(su)
  BY <1>3 DEF StackInv
<1>6. \A id \in DOMAIN su.immutables : id.addr \in Addrs /\ h2[id.addr] = hp[id.addr]
  <2>1. \A id \in DOMAIN su.immutables : id \in [addr : Addrs, at : Nat]
    BY <1>5 DEF StackType
  <2> QED
    BY <1>4, <2>1 DEF Live
<1>7. \A o \in Present(sc) : o \in Objects /\ sc[o] \in Addrs /\ h2[sc[o]] = hp[sc[o]]
  BY <1>4 DEF Live, Present, SceneType
<1>8. HeapHolds(su, h2)
  BY <1>3, <1>6 DEF HeapHolds
<1>9. SceneType(sc, gz, h2)
  <2>1. h2 \in [Addrs -> Shapes \cup {Absent}]
    BY <1>4 DEF SceneType
  <2> QED
    BY <1>7, <2>1 DEF SceneType
<1>10. Unchanged(su, sc, gz, h2)
  BY <1>3, <1>7 DEF Unchanged, SceneIs
<1>11. /\ StackInv(stack') /\ ActiveListed(stack') /\ stack'.current <= MaxTime + 1
       /\ DOMAIN stack'.mutables = Mutables
  BY <1>2, <1>3, <1>4
<1>12. /\ HeapHolds(stack', heap') /\ SceneType(scene', gizmo', heap')
       /\ Unchanged(stack', scene', gizmo', heap')
  BY <1>4, <1>8, <1>9, <1>10 DEF h2
<1> QED
  BY <1>11, <1>12 DEF IInv, StackInv, ActiveListed, HeapHolds, SceneType, Unchanged

(* load_snapshot(): a captured snapshot becomes the active one.            *)
AllCaptured(st) == \A i \in DOMAIN st.snapshots : st.snapshots[i].captured

LEMMA MoveActive ==
  ASSUME NEW st, StackInv(st), AllCaptured(st), NEW i \in 2 .. Len(st.snapshots), NEW t,
         t = st.snapshots[i].time
  PROVE  LET su == [st EXCEPT !.active = t]
         IN /\ StackInv(su) /\ ActiveListed(su)
            /\ t \in Times(st) /\ Times(su) = Times(st) /\ t \in Nat
            /\ su.mutables = st.mutables /\ su.immutables = st.immutables
            /\ su.active = t /\ su.current = st.current
<1> DEFINE su == [st EXCEPT !.active = t]
<1>1. StackType(st) /\ ListValid(st) /\ Pointers(st) /\ IdsPast(st) /\ DataInUse(st)
  BY DEF StackInv
<1>2. st = [snapshots |-> st.snapshots, mutables |-> st.mutables,
            immutables |-> st.immutables, ids |-> st.ids,
            active |-> st.active, current |-> st.current]
  BY <1>1 DEF StackType
<1>3. /\ su = [snapshots |-> st.snapshots, mutables |-> st.mutables,
               immutables |-> st.immutables, ids |-> st.ids,
               active |-> t, current |-> st.current]
  <2> DEFINE ss == st.snapshots
             mm == st.mutables
             ii == st.immutables
             dd == st.ids
             aa == st.active
             cc == st.current
  <2>1. st = [snapshots |-> ss, mutables |-> mm, immutables |-> ii, ids |-> dd,
              active |-> aa, current |-> cc]
    BY <1>2
  <2> HIDE DEF ss, mm, ii, dd, aa, cc
  <2>2. su = [snapshots |-> ss, mutables |-> mm, immutables |-> ii, ids |-> dd,
              active |-> t, current |-> cc]
    BY <2>1
  <2> QED
    BY <2>2 DEF ss, mm, ii, dd, aa, cc
<1> HIDE DEF su
<1>4. /\ su.snapshots = st.snapshots /\ su.mutables = st.mutables
      /\ su.immutables = st.immutables /\ su.ids = st.ids
      /\ su.active = t /\ su.current = st.current
  BY <1>3
<1>5. /\ DOMAIN st.snapshots = 1 .. Len(st.snapshots) /\ Len(st.snapshots) \in Nat
      /\ \A j \in DOMAIN st.snapshots : st.snapshots[j].time \in Nat
  BY <1>1, StackFields
<1>6. i \in DOMAIN st.snapshots /\ t \in Nat /\ t <= st.current
  <2>1. i \in DOMAIN st.snapshots
    BY <1>5
  <2> QED
    BY <1>1, <1>5, <2>1 DEF ListValid
<1>7. t \in Times(st) /\ Times(su) = Times(st)
  BY <1>4, <1>6, TimesIs DEF AllCaptured, Times
<1>8. StackType(su)
  BY <1>1, <1>3, <1>4, <1>6 DEF StackType
<1>9. ListValid(su)
  BY <1>1, <1>4 DEF ListValid, AllCaptured
<1>10. Pointers(su) /\ IdsPast(su)
  BY <1>1, <1>4 DEF Pointers, IdsPast
<1>11. DataInUse(su)
  BY <1>1, <1>4, <1>7 DEF DataInUse, InUse
<1>12. \A u \in Times(su) : Loadable(su, u) /\ Recorded(su, u)
  <2>1. \A u : ObjectsAt(su, u) = ObjectsAt(st, u)
    BY <1>4 DEF ObjectsAt
  <2>2. \A o, u : Loaded(su, o, u) = Loaded(st, o, u)
    BY <1>4 DEF Loaded
  <2>3. \A u \in Times(st) : Loadable(st, u) /\ Recorded(st, u)
    BY DEF StackInv
  <2>4. ASSUME NEW u \in Times(su) PROVE Loadable(su, u) /\ Recorded(su, u)
    <3>1. Loadable(st, u) /\ Recorded(st, u)
      BY <1>7, <2>3, <2>4
    <3>2. Loadable(su, u)
      BY <1>4, <2>1, <2>2, <3>1 DEF Loadable
    <3>3. Recorded(su, u)
      BY <1>4, <2>1, <2>2, <3>1 DEF Recorded
    <3> QED
      BY <3>2, <3>3
  <2> QED
    BY <2>4
<1>13. StackInv(su)
  BY <1>8, <1>9, <1>10, <1>11, <1>12 DEF StackInv
<1>14. ActiveListed(su)
  BY <1>4 DEF ActiveListed
<1> QED
  BY <1>4, <1>6, <1>7, <1>13, <1>14 DEF su

LEMMA LoadKeeps ==
  ASSUME NEW st, StackInv(st), AllCaptured(st), NEW i \in 2 .. Len(st.snapshots), NEW t,
         t = st.snapshots[i].time, st.current <= MaxTime + 1,
         HeapHolds(st, heap), SceneType(scene, gizmo, heap), LoadSnapshot(st, t)
  PROVE  IInv'
<1> DEFINE su   == [st EXCEPT !.active = t]
           lost == Missing(st, t)
           held == {id.addr : id \in DOMAIN st.immutables}
           objs == ObjectsAt(st, t)
           gz   == IntervalAt(st.mutables["GLGizmosManager"], t).data
<1>1. PICK at \in [lost -> HullAddrs \ held] :
        /\ \A o, p \in lost : at[o] = at[p] => o = p
        /\ LET sc == [o \in Objects |-> IF o \notin objs THEN Absent
                                        ELSE IF o \in lost THEN at[o] ELSE Loaded(st, o, t).id.addr]
               hp == [a \in Addrs |-> IF \E o \in lost : at[o] = a
                                      THEN Loaded(st, CHOOSE o \in lost : at[o] = a, t).shape
                                      ELSE heap[a]]
           IN Settle(su, sc, sc, gz, hp)
  BY DEF LoadSnapshot
<1> DEFINE owner(a) == CHOOSE o \in lost : at[o] = a
           sc == [o \in Objects |-> IF o \notin objs THEN Absent
                                    ELSE IF o \in lost THEN at[o] ELSE Loaded(st, o, t).id.addr]
           hp == [a \in Addrs |-> IF \E o \in lost : at[o] = a THEN Loaded(st, owner(a), t).shape
                                                               ELSE heap[a]]
<1>2. Settle(su, sc, sc, gz, hp)
  BY <1>1
<1>3. /\ StackInv(su) /\ ActiveListed(su)
      /\ t \in Times(st) /\ Times(su) = Times(st) /\ t \in Nat
      /\ su.mutables = st.mutables /\ su.immutables = st.immutables
      /\ su.active = t /\ su.current = st.current
  BY MoveActive
<1> HIDE DEF su
<1>4. StackType(st) /\ Loadable(st, t) /\ Recorded(st, t)
  BY <1>3 DEF StackInv
<1>5. objs \subseteq Objects /\ gz \in BOOLEAN
  <2> DEFINE mo == IntervalAt(st.mutables["Model"], t).data
  <2>1. mo \in DataOf("Model") /\ gz \in DataOf("GLGizmosManager")
    BY <1>3, <1>4, LoadedData, ObjectFacts DEF Loadable
  <2>2. objs = mo
    BY DEF ObjectsAt
  <2> HIDE DEF mo, gz, objs
  <2> QED
    BY <2>1, <2>2, ObjectFacts
<1>6. \A o \in objs : /\ \E j \in DOMAIN st.mutables[o] : Loaded(st, o, t) = st.mutables[o][j].data
                      /\ Loaded(st, o, t) \in [shape : Shapes, id : [addr : AddrsOf(o), at : Nat]]
  <2>1. ASSUME NEW o \in objs
        PROVE  /\ \E j \in DOMAIN st.mutables[o] : Loaded(st, o, t) = st.mutables[o][j].data
               /\ Loaded(st, o, t) \in DataOf(o)
    <3>1. o \in Mutables /\ DefinedAt(st.mutables[o], t)
      BY <1>4, <1>5, <2>1, ObjectFacts DEF Loadable
    <3> QED
      BY <1>3, <1>4, <3>1, LoadedData DEF Loaded
  <2> HIDE DEF objs
  <2> QED
    BY <1>5, <2>1, ObjectFacts
<1>7. lost = {o \in objs : Loaded(st, o, t).id \notin DOMAIN st.immutables}
  BY DEF Missing
<1>8. \A o \in lost : o \in objs /\ o \in Hulled
  BY <1>4, <1>7 DEF Loadable
<1>9. \A o \in objs : o \notin lost => Loaded(st, o, t).id \in DOMAIN st.immutables
  BY <1>7
<1> HIDE DEF lost, objs, gz
<1>10. \A o \in lost : at[o] \in HullAddrs /\ at[o] \notin held /\ at[o] \in AddrsOf(o) /\ owner(at[o]) = o
  <2>1. ASSUME NEW o \in lost PROVE owner(at[o]) = o
    <3>1. owner(at[o]) \in lost /\ at[owner(at[o])] = at[o]
      BY <2>1
    <3> HIDE DEF owner
    <3> QED
      BY <1>1, <2>1, <3>1
  <2>2. \A o \in lost : at[o] \in HullAddrs \ held
    BY <1>1
  <2> QED
    BY <1>8, <2>1, <2>2, ObjectFacts
<1> HIDE DEF owner
<1>11. \A o \in Objects : sc[o] = IF o \notin objs THEN Absent
                                  ELSE IF o \in lost THEN at[o] ELSE Loaded(st, o, t).id.addr
  OBVIOUS
<1>12. \A o \in objs : o \in Objects /\ sc[o] \in AddrsOf(o) /\ sc[o] \in Addrs /\ sc[o] # Absent
  <2>1. ASSUME NEW o \in objs PROVE sc[o] \in AddrsOf(o)
    <3>1. Loaded(st, o, t).id.addr \in AddrsOf(o)
      BY <1>6, <2>1
    <3> QED
      BY <1>5, <1>10, <1>11, <2>1, <3>1
  <2> QED
    BY <1>5, <2>1, ObjectFacts
<1>13. Present(sc) = objs
  BY <1>5, <1>11, <1>12 DEF Present
<1>14. DOMAIN sc = Objects /\ \A o \in Objects : sc[o] \in AddrsOf(o) \cup {Absent}
  BY <1>11, <1>12
<1>15. \A o \in lost : hp[at[o]] = Loaded(st, o, t).shape
  <2>1. ASSUME NEW o \in lost PROVE hp[at[o]] = Loaded(st, o, t).shape
    <3>1. at[o] \in Addrs
      BY <1>10, <2>1 DEF Addrs
    <3>2. hp[at[o]] = Loaded(st, owner(at[o]), t).shape
      BY <2>1, <3>1
    <3> QED
      BY <1>10, <2>1, <3>2
  <2> QED
    BY <2>1
<1>16. \A a \in Addrs : (\A o \in lost : at[o] # a) => hp[a] = heap[a]
  OBVIOUS
<1>17. hp = [a \in Addrs |-> hp[a]]
  OBVIOUS
<1> HIDE DEF sc, hp
<1>18. \A id \in DOMAIN st.immutables : hp[id.addr] = heap[id.addr] /\ hp[id.addr] \in Shapes
  <2>1. ASSUME NEW id \in DOMAIN st.immutables PROVE hp[id.addr] = heap[id.addr]
    <3>1. id.addr \in Addrs /\ id.addr \in held
      BY <1>4, <2>1 DEF StackType
    <3> QED
      BY <1>10, <1>16, <3>1
  <2> QED
    BY <2>1 DEF HeapHolds
<1>19. HeapHolds(su, hp)
  BY <1>3, <1>18 DEF HeapHolds
<1>20. \A o \in objs : hp[sc[o]] = Loaded(st, o, t).shape /\ hp[sc[o]] \in Shapes
  <2>1. ASSUME NEW o \in objs PROVE hp[sc[o]] = Loaded(st, o, t).shape
    <3>1. CASE o \in lost
      BY <1>5, <1>11, <1>15, <2>1, <3>1
    <3>2. CASE o \notin lost
      <4> DEFINE d == Loaded(st, o, t)
      <4>1. d.id \in DOMAIN st.immutables /\ sc[o] = d.id.addr
        BY <1>5, <1>9, <1>11, <2>1, <3>2
      <4>2. PICK j \in DOMAIN st.mutables[o] : d = st.mutables[o][j].data
        BY <1>6, <2>1
      <4>3. o \in Objects
        BY <1>5, <2>1
      <4> HIDE DEF d
      <4>4. heap[d.id.addr] = d.shape
        BY <4>1, <4>2, <4>3 DEF HeapHolds
      <4> QED
        BY <1>18, <4>1, <4>4 DEF d
    <3> QED
      BY <3>1, <3>2
  <2>2. \A o \in objs : Loaded(st, o, t).shape \in Shapes
    BY <1>6
  <2> QED
    BY <2>1, <2>2
<1>21. SceneType(sc, gz, hp)
  <2>1. sc \in [Objects -> Addrs \cup {Absent}]
    <3>1. \A o \in Objects : sc[o] \in Addrs \cup {Absent}
      BY <1>14, ObjectFacts
    <3>2. sc = [o \in Objects |-> sc[o]]
      BY DEF sc
    <3> QED
      BY <3>1, <3>2
  <2>2. \A a \in Addrs : hp[a] \in Shapes \cup {Absent}
    <3>1. ASSUME NEW a \in Addrs PROVE hp[a] \in Shapes \cup {Absent}
      <4>1. CASE \E o \in lost : at[o] = a
        BY <1>6, <1>8, <1>15, <4>1
      <4>2. CASE ~ \E o \in lost : at[o] = a
        BY <1>16, <3>1, <4>2 DEF SceneType
      <4> QED
        BY <4>1, <4>2
    <3> QED
      BY <3>1
  <2>3. hp \in [Addrs -> Shapes \cup {Absent}]
    BY <1>17, <2>2
  <2> QED
    BY <1>5, <1>13, <1>14, <1>20, <2>1, <2>3 DEF SceneType
<1>22. \A o : Loaded(su, o, t) = Loaded(st, o, t)
  BY <1>3 DEF Loaded
<1>23. ObjectsAt(su, t) = objs /\ gz = IntervalAt(su.mutables["GLGizmosManager"], t).data
  BY <1>3 DEF ObjectsAt, objs, gz
<1>24. \A o \in objs : Loaded(st, o, t).id \in DOMAIN st.immutables => sc[o] = Loaded(st, o, t).id.addr
  BY <1>5, <1>7, <1>11
<1>25. SceneIs(su, sc, gz, hp, t)
  BY <1>3, <1>13, <1>20, <1>22, <1>23, <1>24 DEF SceneIs
<1>26. Unchanged(su, sc, gz, hp)
  BY <1>3, <1>25 DEF Unchanged
<1> QED
  BY <1>2, <1>3, <1>19, <1>21, <1>26, SettleKeeps

(* The state on top, captured as a snapshot without a placeholder after it. *)
LEMMA CapturedKeeps ==
  ASSUME CanRecord(stack), HeapHolds(stack, heap)
  PROVE  /\ StackInv(Captured) /\ AllCaptured(Captured) /\ HeapHolds(Captured, heap)
         /\ Captured.current = stack.current + 1
         /\ \A i \in 2 .. ActiveIndex(stack) - 1 :
              /\ i \in 2 .. Len(Captured.snapshots)
              /\ Captured.snapshots[i] = stack.snapshots[i]
<1> DEFINE su == TakeSnapshot(stack, "Other")
           F  == Front(su.snapshots)
           L  == ListNow(stack, "Other")
           c  == ActiveIndex(stack)
           R  == [time : Nat, type : SnapshotTypes, captured : BOOLEAN]
<1>1. "Other" \in SnapshotTypes
  BY DEF SnapshotTypes
<1>2. StackType(stack) /\ ListValid(stack)
  BY DEF CanRecord, StackInv
<1>3. /\ StackInv(su) /\ HeapHolds(su, heap) /\ su.current = stack.current + 1
      /\ StackType(su) /\ ListValid(su) /\ Pointers(su) /\ IdsPast(su) /\ DataInUse(su)
      /\ \A t \in Times(su) : Loadable(su, t) /\ Recorded(su, t)
  <2>1. StackInv(su) /\ HeapHolds(su, heap) /\ su.current = stack.current + 1
    BY <1>1, TakeKeeps
  <2> HIDE DEF su
  <2> QED
    BY <2>1 DEF StackInv
<1>4. su.snapshots = L
  BY <1>2, TakenFields
<1>5. /\ c \in 1 .. Len(stack.snapshots) + 1 /\ Len(L) = c + 1 /\ DOMAIN L = 1 .. c + 1
      /\ \A i \in 1 .. c - 1 : L[i] = stack.snapshots[i] /\ stack.snapshots[i].captured
      /\ L[c].captured /\ ~L[c + 1].captured
  BY <1>1, <1>2, TakenList DEF ActiveIndex
<1>6. L \in Seq(R)
  <2>1. su.snapshots \in Seq(R)
    BY <1>3 DEF StackType
  <2> QED
    BY <1>4, <2>1
<1>7. c \in Nat /\ c >= 1
  BY <1>2, <1>5, StackFields
<1> HIDE DEF L, c, R
<1>8. F \in Seq(R) /\ Len(F) = c /\ DOMAIN F = 1 .. c /\ \A i \in 1 .. c : F[i] = L[i]
  <2>1. F = SubSeq(L, 1, c)
    <3>1. Len(L) - 1 = c
      BY <1>5, <1>7
    <3> QED
      BY <1>4, <3>1 DEF Front
  <2> HIDE DEF F
  <2>2. \A i \in 1 .. c : i \in DOMAIN L /\ L[i] \in R
    BY <1>5, <1>6, <1>7
  <2>3. /\ SubSeq(L, 1, c) \in Seq(R) /\ Len(SubSeq(L, 1, c)) = IF 1 <= c THEN c - 1 + 1 ELSE 0
        /\ \A i \in 1 .. c - 1 + 1 : SubSeq(L, 1, c)[i] = L[1 + i - 1]
    BY <1>7, <2>2, SubSeqProperties
  <2>4. c - 1 + 1 = c /\ \A i \in 1 .. c : 1 + i - 1 = i
    BY <1>7
  <2> QED
    BY <1>7, <2>1, <2>3, <2>4
<1>9. Captured = [snapshots |-> F, mutables |-> su.mutables, immutables |-> su.immutables,
                  ids |-> su.ids, active |-> su.active, current |-> su.current]
  <2> DEFINE ss == su.snapshots
             mm == su.mutables
             ii == su.immutables
             dd == su.ids
             aa == su.active
             cc == su.current
  <2>1. su = [snapshots |-> ss, mutables |-> mm, immutables |-> ii, ids |-> dd,
              active |-> aa, current |-> cc]
    BY <1>3 DEF StackType
  <2>2. Captured = [su EXCEPT !.snapshots = F]
    BY DEF Captured
  <2> HIDE DEF su, F, ss, mm, ii, dd, aa, cc
  <2>3. Captured = [snapshots |-> F, mutables |-> mm, immutables |-> ii, ids |-> dd,
                    active |-> aa, current |-> cc]
    BY <2>1, <2>2
  <2> QED
    BY <2>3 DEF ss, mm, ii, dd, aa, cc
<1> DEFINE C == Captured
<1> HIDE DEF su, F, C
<1>10. /\ C.snapshots = F /\ C.mutables = su.mutables /\ C.immutables = su.immutables
       /\ C.ids = su.ids /\ C.active = su.active /\ C.current = su.current
  BY <1>9 DEF C
<1>11. AllCaptured(C)
  <2>1. \A i \in 1 .. c : L[i].captured
    <3>1. \A i \in 1 .. c : i \in 1 .. c - 1 \/ i = c
      BY <1>7
    <3> QED
      BY <1>5, <3>1
  <2> QED
    BY <1>8, <1>10, <2>1 DEF AllCaptured
<1>12. Times(C) = Times(su)
  <2>1. \A t : t \in Times(C) <=> \E i \in DOMAIN F : F[i].captured /\ F[i].time = t
    BY <1>10, TimesIs
  <2>2. \A t : t \in Times(su) <=> \E i \in DOMAIN L : L[i].captured /\ L[i].time = t
    BY <1>4, TimesIs
  <2>3. \A i \in DOMAIN L : L[i].captured => i \in DOMAIN F /\ F[i] = L[i]
    <3>1. \A i \in DOMAIN L : i \in 1 .. c \/ i = c + 1
      BY <1>5, <1>7
    <3> QED
      BY <1>5, <1>8, <3>1
  <2>4. \A i \in DOMAIN F : i \in DOMAIN L /\ F[i] = L[i]
    BY <1>5, <1>7, <1>8
  <2>5. \A t : t \in Times(C) <=> t \in Times(su)
    BY <2>1, <2>2, <2>3, <2>4
  <2> QED
    BY <2>5
<1>13. StackType(C)
  <2>1. C = [snapshots |-> C.snapshots, mutables |-> C.mutables, immutables |-> C.immutables,
             ids |-> C.ids, active |-> C.active, current |-> C.current]
    <3>1. C = [snapshots |-> F, mutables |-> su.mutables, immutables |-> su.immutables,
               ids |-> su.ids, active |-> su.active, current |-> su.current]
      BY <1>9 DEF C
    <3> QED
      BY <1>10, <3>1
  <2>2. C.snapshots \in Seq([time : Nat, type : SnapshotTypes, captured : BOOLEAN])
    BY <1>8, <1>10 DEF R
  <2> QED
    BY <1>3, <1>10, <2>1, <2>2 DEF StackType
<1>14. ListValid(C)
  <2>1. \A i \in DOMAIN F : i \in DOMAIN L /\ F[i] = L[i]
    BY <1>5, <1>7, <1>8
  <2>2. /\ \A i, j \in DOMAIN L : i < j => L[i].time < L[j].time
        /\ \A i \in DOMAIN L : L[i].time <= su.current
    BY <1>3, <1>4 DEF ListValid
  <2>3. \A i \in DOMAIN F : F[i].captured
    BY <1>10, <1>11 DEF AllCaptured
  <2> QED
    BY <1>10, <2>1, <2>2, <2>3 DEF ListValid
<1>15. Pointers(C) /\ IdsPast(C)
  BY <1>3, <1>10 DEF Pointers, IdsPast
<1>16. DataInUse(C)
  BY <1>3, <1>10, <1>12 DEF DataInUse, InUse
<1>17. \A t \in Times(C) : Loadable(C, t) /\ Recorded(C, t)
  <2>1. \A t : ObjectsAt(C, t) = ObjectsAt(su, t)
    BY <1>10 DEF ObjectsAt
  <2>2. \A o, t : Loaded(C, o, t) = Loaded(su, o, t)
    BY <1>10 DEF Loaded
  <2>3. ASSUME NEW t \in Times(C) PROVE Loadable(C, t) /\ Recorded(C, t)
    <3>1. Loadable(su, t) /\ Recorded(su, t)
      BY <1>3, <1>12, <2>3
    <3>2. Loadable(C, t)
      BY <1>10, <2>1, <2>2, <3>1 DEF Loadable
    <3>3. Recorded(C, t)
      BY <1>10, <2>1, <2>2, <3>1 DEF Recorded
    <3> QED
      BY <3>2, <3>3
  <2> QED
    BY <2>3
<1>18. StackInv(C) /\ HeapHolds(C, heap)
  <2>1. HeapHolds(C, heap)
    BY <1>3, <1>10 DEF HeapHolds
  <2> QED
    BY <1>13, <1>14, <1>15, <1>16, <1>17, <2>1 DEF StackInv
<1>19. ASSUME NEW i \in 2 .. c - 1
       PROVE  i \in 2 .. Len(C.snapshots) /\ C.snapshots[i] = stack.snapshots[i]
  <2>1. i \in 2 .. c /\ i \in 1 .. c /\ i \in 1 .. c - 1
    BY <1>7
  <2> QED
    BY <1>5, <1>8, <1>10, <2>1
<1> QED
  BY <1>3, <1>10, <1>11, <1>18, <1>19 DEF C, c

-----------------------------------------------------------------------------
(* The operations.                                                         *)
LEMMA Recording ==
  ASSUME IInv
  PROVE  CanRecord(stack) /\ StackType(stack) /\ ListValid(stack)
BY DEF IInv, CanRecord, StackInv

(* What the program puts at an address does no harm: the address is free,  *)
(* or it holds that already.                                               *)
LEMMA PutKeeps ==
  ASSUME NEW st, StackType(st), HeapHolds(st, heap), SceneType(scene, gizmo, heap),
         NEW o \in Objects, NEW a \in AddrsOf(o) \cup {Absent}, NEW v \in Shapes,
         a # Absent => heap[a] \in {v, Absent}
  PROVE  LET sc == [scene EXCEPT ![o] = a]
             hp == IF a = Absent THEN heap ELSE [heap EXCEPT ![a] = v]
         IN HeapHolds(st, hp) /\ SceneType(sc, gizmo, hp)
<1> DEFINE sc == [scene EXCEPT ![o] = a]
           hp == IF a = Absent THEN heap ELSE [heap EXCEPT ![a] = v]
<1>1. /\ scene \in [Objects -> Addrs \cup {Absent}] /\ heap \in [Addrs -> Shapes \cup {Absent}]
      /\ \A p \in Objects : scene[p] \in AddrsOf(p) \cup {Absent}
      /\ \A p \in Present(scene) : heap[scene[p]] \in Shapes
      /\ gizmo \in BOOLEAN
  BY DEF SceneType
<1>2. a # Absent => a \in Addrs
  BY ObjectFacts
<1>3. Absent \notin Shapes /\ Absent \notin Addrs
  BY ObjectFacts
<1>4. hp \in [Addrs -> Shapes \cup {Absent}] /\ (a # Absent => hp[a] = v)
  BY <1>1, <1>2
<1>5. \A b \in Addrs : heap[b] \in Shapes => hp[b] = heap[b]
  BY <1>1, <1>2, <1>3
<1>6. sc \in [Objects -> Addrs \cup {Absent}] /\ \A p \in Objects : sc[p] = IF p = o THEN a ELSE scene[p]
  BY <1>1, <1>2
<1> HIDE DEF sc, hp
<1>7. \A p \in Objects : sc[p] \in AddrsOf(p) \cup {Absent}
  BY <1>1, <1>6
<1>8. \A p \in Present(sc) : hp[sc[p]] \in Shapes
  <2>1. ASSUME NEW p \in Present(sc) PROVE hp[sc[p]] \in Shapes
    <3>1. p \in Objects /\ sc[p] # Absent
      BY <2>1 DEF Present
    <3>2. CASE p = o
      BY <1>4, <1>6, <3>1, <3>2
    <3>3. CASE p # o
      <4>1. scene[p] = sc[p] /\ p \in Present(scene) /\ scene[p] \in Addrs
        BY <1>1, <1>6, <3>1, <3>3 DEF Present
      <4> QED
        BY <1>1, <1>5, <4>1
    <3> QED
      BY <3>2, <3>3
  <2> QED
    BY <2>1
<1>9. SceneType(sc, gizmo, hp)
  BY <1>1, <1>4, <1>6, <1>7, <1>8 DEF SceneType
<1>10. \A id \in DOMAIN st.immutables : hp[id.addr] = heap[id.addr]
  <2>1. \A id \in DOMAIN st.immutables : id.addr \in Addrs /\ heap[id.addr] \in Shapes
    BY DEF StackType, HeapHolds
  <2> QED
    BY <1>5, <2>1
<1>11. HeapHolds(st, hp)
  BY <1>10 DEF HeapHolds
<1> QED
  BY <1>9, <1>11 DEF sc, hp

LEMMA ActionKeeps ==
  ASSUME IInv, NEW type \in {"Other", "GizmoAction"}, Action(type)
  PROVE  IInv'
<1> DEFINE su == TakeSnapshot(stack, type)
<1>0. PICK o \in Objects : \E a \in AddrsOf(o) \cup {Absent}, v \in Shapes :
        /\ a # Absent => heap[a] \in {v, Absent}
        /\ Settle(su, scene, [scene EXCEPT ![o] = a], gizmo,
                  IF a = Absent THEN heap ELSE [heap EXCEPT ![a] = v])
  BY DEF Action
<1>1. PICK a \in AddrsOf(o) \cup {Absent}, v \in Shapes :
        /\ a # Absent => heap[a] \in {v, Absent}
        /\ Settle(su, scene, [scene EXCEPT ![o] = a], gizmo,
                  IF a = Absent THEN heap ELSE [heap EXCEPT ![a] = v])
  BY <1>0
<1> DEFINE sc == [scene EXCEPT ![o] = a]
           hp == IF a = Absent THEN heap ELSE [heap EXCEPT ![a] = v]
<1>2. /\ CanRecord(stack) /\ HeapHolds(stack, heap) /\ SceneType(scene, gizmo, heap)
      /\ stack.current < MaxTime /\ stack.current \in Nat /\ MaxTime \in Nat
  BY Recording, StackAssumption DEF IInv, Action, CanTake, StackType
<1>3. type \in SnapshotTypes
  BY DEF SnapshotTypes
<1>4. /\ StackInv(su) /\ ActiveListed(su) /\ HeapHolds(su, heap)
      /\ su.current = stack.current + 1
      /\ \A s, g, h : Unchanged(su, s, g, h)
  BY <1>2, <1>3, TakeKeeps
<1> HIDE DEF su
<1>5. su.current <= MaxTime + 1
  BY <1>2, <1>4
<1>6. HeapHolds(su, hp) /\ SceneType(sc, gizmo, hp)
  BY <1>1, <1>2, <1>4, PutKeeps DEF StackInv
<1>7. Settle(su, scene, sc, gizmo, hp)
  BY <1>1
<1> HIDE DEF sc, hp
<1> QED
  BY <1>4, <1>5, <1>6, <1>7, SettleKeeps

LEMMA EnterGizmoKeeps ==
  ASSUME IInv, EnterGizmo
  PROVE  IInv'
<1> DEFINE su == TakeSnapshot(stack, "EnteringGizmo")
<1>1. /\ CanRecord(stack) /\ HeapHolds(stack, heap) /\ SceneType(scene, gizmo, heap)
      /\ stack.current < MaxTime /\ stack.current \in Nat /\ MaxTime \in Nat
      /\ Settle(su, scene, scene, TRUE, heap)
  BY Recording, StackAssumption DEF IInv, EnterGizmo, CanTake, StackType
<1>2. "EnteringGizmo" \in SnapshotTypes
  BY DEF SnapshotTypes
<1>3. /\ StackInv(su) /\ ActiveListed(su) /\ HeapHolds(su, heap)
      /\ su.current = stack.current + 1
      /\ \A s, g, h : Unchanged(su, s, g, h)
  BY <1>1, <1>2, TakeKeeps
<1> HIDE DEF su
<1>4. SceneType(scene, TRUE, heap) /\ su.current <= MaxTime + 1
  BY <1>1, <1>3 DEF SceneType
<1> QED
  BY <1>1, <1>3, <1>4, SettleKeeps

LEMMA LeaveGizmoKeeps ==
  ASSUME IInv, LeaveGizmo
  PROVE  IInv'
<1> DEFINE su == TakeSnapshot(stack, "LeavingGizmoWithAction")
           sv == ReduceNoisySnapshots(su)
<1>1. /\ CanRecord(stack) /\ HeapHolds(stack, heap) /\ SceneType(scene, gizmo, heap)
      /\ stack.current < MaxTime /\ stack.current \in Nat /\ MaxTime \in Nat
      /\ Settle(sv, scene, scene, FALSE, heap)
  BY Recording, StackAssumption DEF IInv, LeaveGizmo, CanTake, StackType
<1>2. "LeavingGizmoWithAction" \in SnapshotTypes
  BY DEF SnapshotTypes
<1>3. /\ StackInv(su) /\ HeapHolds(su, heap) /\ su.current = stack.current + 1
      /\ \A s, g, h : Unchanged(su, s, g, h)
      /\ Len(su.snapshots) >= 2 /\ su.snapshots[Len(su.snapshots)].time = su.active
  BY <1>1, <1>2, TakeKeeps
<1> HIDE DEF su
<1>4. Shrunk(sv, su) /\ ActiveListed(sv)
  BY <1>3, ReduceShrinks
<1> HIDE DEF sv
<1>5. /\ StackInv(sv) /\ HeapHolds(sv, heap) /\ Unchanged(sv, scene, FALSE, heap)
      /\ sv.current = su.current
  BY <1>3, <1>4, ShrunkKeeps DEF Shrunk
<1>6. SceneType(scene, FALSE, heap) /\ sv.current <= MaxTime + 1
  BY <1>1, <1>3, <1>5 DEF SceneType
<1> QED
  BY <1>1, <1>4, <1>5, <1>6, SettleKeeps

LEMMA NewProjectKeeps ==
  ASSUME IInv, NewProject
  PROVE  IInv'
<1> DEFINE none == [o \in Objects |-> Absent]
<1>1. PICK clear \in BOOLEAN :
        Settle(TakeSnapshot(IF clear THEN EmptyStack ELSE stack, "Other"), scene, none, FALSE, heap)
  BY DEF NewProject
<1> DEFINE st == IF clear THEN EmptyStack ELSE stack
           su == TakeSnapshot(st, "Other")
<1>2. /\ CanRecord(stack) /\ HeapHolds(stack, heap) /\ SceneType(scene, gizmo, heap)
      /\ stack.current < MaxTime /\ stack.current \in Nat /\ MaxTime \in Nat
  BY Recording, StackAssumption DEF IInv, NewProject, CanTake, StackType
<1>3. CanRecord(st) /\ HeapHolds(st, heap) /\ st.current \in Nat /\ st.current <= MaxTime
  <2>1. CASE clear
    BY <1>2, <2>1, EmptyFacts DEF CanRecord
  <2>2. CASE ~clear
    BY <1>2, <2>2
  <2> QED
    BY <2>1, <2>2
<1>4. Settle(su, scene, none, FALSE, heap)
  BY <1>1
<1> HIDE DEF st
<1>5. "Other" \in SnapshotTypes
  BY DEF SnapshotTypes
<1>6. /\ StackInv(su) /\ ActiveListed(su) /\ HeapHolds(su, heap)
      /\ su.current = st.current + 1
      /\ \A s, g, h : Unchanged(su, s, g, h)
  BY <1>3, <1>5, TakeKeeps
<1> HIDE DEF su
<1>7. SceneType(none, FALSE, heap)
  <2>1. none \in [Objects -> Addrs \cup {Absent}] /\ \A o \in Objects : none[o] = Absent
    OBVIOUS
  <2> HIDE DEF none
  <2>2. Present(none) = {}
    BY <2>1 DEF Present
  <2> QED
    BY <1>2, <2>1, <2>2 DEF SceneType
<1> HIDE DEF none
<1>8. su.current <= MaxTime + 1
  BY <1>2, <1>3, <1>6
<1> QED
  BY <1>4, <1>6, <1>7, <1>8, SettleKeeps

(* Only the placeholder is not captured, and it is the active one.         *)
LEMMA OthersCaptured ==
  ASSUME NEW st, StackType(st), ListValid(st)
  PROVE  /\ ~TempSnapshotActive(st) => AllCaptured(st)
         /\ ActiveIndex(st) < Len(st.snapshots) => AllCaptured(st)
<1> DEFINE n == Len(st.snapshots)
<1>1. /\ DOMAIN st.snapshots = 1 .. n /\ n \in Nat
      /\ \A i \in DOMAIN st.snapshots :
           ~st.snapshots[i].captured => i = n /\ st.snapshots[i].time = st.active
      /\ st.active \in Nat
  BY StackFields DEF ListValid, StackType
<1>2. Last(st.snapshots) = st.snapshots[n]
  BY DEF Last
<1>3. n \in DOMAIN st.snapshots /\ st.snapshots[n].time = st.active => ActiveIndex(st) = n
  BY <1>1, LowerBoundFacts DEF ActiveIndex
<1> HIDE DEF n
<1>4. ~AllCaptured(st) => /\ TempSnapshotActive(st) /\ ActiveIndex(st) = n
  BY <1>1, <1>2, <1>3 DEF AllCaptured, TempSnapshotActive, TopmostCaptured
<1> QED
  BY <1>1, <1>4 DEF n

LEMMA UndoKeeps ==
  ASSUME IInv, UndoTo
  PROVE  IInv'
<1> DEFINE st == IF TempSnapshotActive(stack) THEN Captured ELSE stack
           c  == ActiveIndex(stack)
<1>1. PICK i \in 2 .. c - 1 : LoadSnapshot(st, stack.snapshots[i].time)
  BY DEF UndoTo
<1>2. /\ CanRecord(stack) /\ StackInv(stack) /\ StackType(stack) /\ ListValid(stack)
      /\ HeapHolds(stack, heap) /\ SceneType(scene, gizmo, heap)
      /\ stack.current <= MaxTime + 1 /\ stack.current \in Nat /\ MaxTime \in Nat
      /\ TempSnapshotActive(stack) => stack.current <= MaxTime
  BY Recording, StackAssumption DEF IInv, UndoTo, StackType
<1>3. c \in 1 .. Len(stack.snapshots) + 1 /\ Len(stack.snapshots) \in Nat
  BY <1>2, LowerBoundFacts, StackFields DEF ActiveIndex, StackType
<1>4. /\ StackInv(st) /\ AllCaptured(st) /\ HeapHolds(st, heap) /\ st.current <= MaxTime + 1
      /\ i \in 2 .. Len(st.snapshots) /\ st.snapshots[i] = stack.snapshots[i]
  <2>1. CASE TempSnapshotActive(stack)
    <3>1. st = Captured
      BY <2>1
    <3>2. /\ StackInv(Captured) /\ AllCaptured(Captured) /\ HeapHolds(Captured, heap)
          /\ Captured.current = stack.current + 1
          /\ i \in 2 .. Len(Captured.snapshots) /\ Captured.snapshots[i] = stack.snapshots[i]
      BY <1>1, <1>2, CapturedKeeps
    <3> HIDE DEF st
    <3> QED
      BY <1>2, <2>1, <3>1, <3>2
  <2>2. CASE ~TempSnapshotActive(stack)
    <3>1. st = stack
      BY <2>2
    <3>2. AllCaptured(stack)
      BY <1>2, <2>2, OthersCaptured
    <3>3. i \in 2 .. Len(stack.snapshots)
      BY <1>1, <1>3
    <3> HIDE DEF st
    <3> QED
      BY <1>2, <3>1, <3>2, <3>3
  <2> QED
    BY <2>1, <2>2
<1> HIDE DEF st
<1>5. LoadSnapshot(st, st.snapshots[i].time)
  BY <1>1, <1>4
<1> QED
  BY <1>2, <1>4, <1>5, LoadKeeps

LEMMA RedoKeeps ==
  ASSUME IInv, RedoTo
  PROVE  IInv'
<1> DEFINE c == ActiveIndex(stack)
<1>1. PICK i \in c + 1 .. Len(stack.snapshots) : LoadSnapshot(stack, stack.snapshots[i].time)
  BY DEF RedoTo
<1>2. /\ StackInv(stack) /\ StackType(stack) /\ ListValid(stack)
      /\ HeapHolds(stack, heap) /\ SceneType(scene, gizmo, heap)
      /\ stack.current <= MaxTime + 1
  BY Recording DEF IInv
<1>3. c \in 1 .. Len(stack.snapshots) + 1 /\ Len(stack.snapshots) \in Nat
  BY <1>2, LowerBoundFacts, StackFields DEF ActiveIndex, StackType
<1>4. i \in 2 .. Len(stack.snapshots) /\ c < Len(stack.snapshots)
  BY <1>1, <1>3
<1>5. AllCaptured(stack)
  BY <1>2, <1>4, OthersCaptured
<1> QED
  BY <1>1, <1>2, <1>4, <1>5, LoadKeeps

LEMMA InitEstablishes ==
  ASSUME Init
  PROVE  IInv
<1> DEFINE su == TakeSnapshot(EmptyStack, "Other")
<1>1. /\ stack = su /\ scene = [o \in Objects |-> Absent] /\ gizmo = FALSE
      /\ heap = [a \in Addrs |-> Absent]
  BY DEF Init
<1>2. SceneType(scene, gizmo, heap)
  <2>1. \A o \in Objects : scene[o] = Absent
    BY <1>1
  <2>2. Present(scene) = {}
    BY <2>1 DEF Present
  <2>3. scene \in [Objects -> Addrs \cup {Absent}] /\ heap \in [Addrs -> Shapes \cup {Absent}]
    BY <1>1
  <2> QED
    BY <1>1, <2>1, <2>2, <2>3 DEF SceneType
<1>3. CanRecord(EmptyStack) /\ HeapHolds(EmptyStack, heap) /\ EmptyStack.current = 0
  BY <1>2, EmptyFacts DEF CanRecord
<1>4. "Other" \in SnapshotTypes
  BY DEF SnapshotTypes
<1>5. /\ StackInv(su) /\ ActiveListed(su) /\ HeapHolds(su, heap) /\ su.current = 0 + 1
      /\ \A sc, gz, hp : Unchanged(su, sc, gz, hp)
  BY <1>3, <1>4, TakeKeeps
<1>6. DOMAIN su.mutables = Mutables
  <2>1. StackType(EmptyStack)
    BY EmptyFacts DEF StackInv
  <2>2. su.mutables = MutablesNow(EmptyStack)
    BY <2>1, TakenFields
  <2> HIDE DEF su
  <2> QED
    BY <2>2 DEF MutablesNow
<1> HIDE DEF su
<1>7. su.current <= MaxTime + 1
  BY <1>5, StackAssumption
<1> QED
  BY <1>1, <1>2, <1>5, <1>6, <1>7 DEF IInv

LEMMA StepKeeps ==
  ASSUME IInv, [Next]_vars
  PROVE  IInv'
<1>1. CASE \E type \in {"Other", "GizmoAction"} : Action(type)
  BY <1>1, ActionKeeps
<1>2. CASE EnterGizmo
  BY <1>2, EnterGizmoKeeps
<1>3. CASE LeaveGizmo
  BY <1>3, LeaveGizmoKeeps
<1>4. CASE NewProject
  BY <1>4, NewProjectKeeps
<1>5. CASE UndoTo
  BY <1>5, UndoKeeps
<1>6. CASE RedoTo
  BY <1>6, RedoKeeps
<1>7. CASE UNCHANGED vars
  <2>1. stack' = stack /\ scene' = scene /\ gizmo' = gizmo /\ heap' = heap
    BY <1>7 DEF vars
  <2>2. /\ StackInv(stack) /\ ActiveListed(stack) /\ DOMAIN stack.mutables = Mutables
        /\ stack.current <= MaxTime + 1 /\ HeapHolds(stack, heap)
        /\ SceneType(scene, gizmo, heap) /\ Unchanged(stack, scene, gizmo, heap)
    BY DEF IInv
  <2>3. /\ StackInv(stack') /\ ActiveListed(stack') /\ DOMAIN stack'.mutables = Mutables
        /\ stack'.current <= MaxTime + 1 /\ HeapHolds(stack', heap')
        /\ SceneType(scene', gizmo', heap') /\ Unchanged(stack', scene', gizmo', heap')
    BY <2>1, <2>2
  <2> QED
    BY <2>3 DEF IInv, StackInv, ActiveListed, HeapHolds, SceneType, Unchanged
<1> QED
  BY <1>1, <1>2, <1>3, <1>4, <1>5, <1>6, <1>7 DEF Next

(* The stack can be loaded from and recorded to, it shows the scene, and   *)
(* it holds no data and no pointer without a use, in every reachable state *)
(* of take_snapshot(), undo(), redo(), reduce_noisy_snapshots() and        *)
(* release_least_recently_used().                                          *)
THEOREM StackInvariance == Spec => []IInv
<1>1. Init => IInv
  BY InitEstablishes
<1>2. IInv /\ [Next]_vars => IInv'
  BY StepKeeps
<1> QED
  BY <1>1, <1>2, PTL DEF Spec

-----------------------------------------------------------------------------
LEMMA TypeFromInv ==
  ASSUME IInv
  PROVE  TypeOK
<1> DEFINE n == Len(stack.snapshots)
<1>1. /\ StackType(stack) /\ ListValid(stack) /\ IdsPast(stack) /\ SceneType(scene, gizmo, heap)
      /\ stack.current <= MaxTime + 1 /\ MaxTime \in Nat /\ DOMAIN stack.mutables = Mutables
  BY StackAssumption DEF IInv, StackInv
<1>2. /\ stack.active \in Nat /\ stack.current \in Nat /\ stack.active <= stack.current
      /\ DOMAIN stack.ids \subseteq Addrs /\ DOMAIN stack.immutables \subseteq [addr : Addrs, at : Nat]
      /\ \A id \in DOMAIN stack.immutables : id.at < stack.current
  BY <1>1 DEF StackType, IdsPast
<1>3. stack.snapshots \in Seq(SnapshotRecords)
  <2> DEFINE ss == stack.snapshots
             R  == [time : Nat, type : SnapshotTypes, captured : BOOLEAN]
  <2>1. ss \in Seq(R) /\ DOMAIN ss = 1 .. n /\ n \in Nat
    BY <1>1, StackFields DEF StackType
  <2>2. \A i \in DOMAIN ss : ss[i].time <= stack.current
    BY <1>1 DEF ListValid
  <2>3. ASSUME NEW i \in 1 .. n PROVE ss[i] \in SnapshotRecords
    <3> DEFINE x == ss[i]
    <3>1. x \in R /\ x.time <= stack.current
      <4> HIDE DEF R
      <4> QED
        BY <2>1, <2>2, <2>3
    <3> HIDE DEF x
    <3>2. x.time \in 0 .. MaxTime + 1
      BY <1>1, <1>2, <3>1
    <3>3. x \in SnapshotRecords
      BY <3>1, <3>2 DEF SnapshotRecords
    <3> QED
      BY <3>3 DEF x
  <2> HIDE DEF ss, R
  <2>4. ss = [i \in 1 .. n |-> ss[i]]
    BY <2>1
  <2> HIDE DEF n
  <2>5. ss \in Seq(SnapshotRecords)
    BY <2>1, <2>3, <2>4
  <2> QED
    BY <2>5 DEF ss
<1>4. DOMAIN stack.immutables \subseteq Ids
  <2>1. ASSUME NEW id \in DOMAIN stack.immutables PROVE id \in Ids
    <3>1. id \in [addr : Addrs, at : Nat] /\ id.at < stack.current
      BY <1>2, <2>1
    <3>2. id.at \in 0 .. MaxTime + 1
      BY <1>1, <1>2, <3>1
    <3> QED
      BY <3>1, <3>2 DEF Ids
  <2> QED
    BY <2>1
<1>5. {stack.active, stack.current} \subseteq 0 .. MaxTime + 1
  BY <1>1, <1>2
<1> QED
  BY <1>1, <1>2, <1>3, <1>4, <1>5 DEF TypeOK, SceneType

LEMMA CapturedTimes ==
  ASSUME NEW t
  PROVE  t \in Times(stack) <=> \E s \in CapturedSnapshots : s.time = t
<1>1. t \in Times(stack) <=> \E i \in DOMAIN stack.snapshots :
                                stack.snapshots[i].captured /\ stack.snapshots[i].time = t
  BY TimesIs
<1> QED
  BY <1>1 DEF CapturedSnapshots, Range

LEMMA PropertiesFromInv ==
  ASSUME IInv
  PROVE  SnapshotsLoadable /\ NoOrphanData /\ PointersCurrent /\ StackValid
<1>1. /\ StackType(stack) /\ ListValid(stack) /\ Pointers(stack) /\ DataInUse(stack)
      /\ \A t \in Times(stack) : Loadable(stack, t)
      /\ ActiveListed(stack)
  BY DEF IInv, StackInv
<1>2. SnapshotsLoadable
  <2>1. \A s \in CapturedSnapshots : Loadable(stack, s.time)
    BY <1>1, CapturedTimes
  <2> QED
    BY <2>1 DEF SnapshotsLoadable, Loadable
<1>3. NoOrphanData
  <2>1. \A h : InUse(stack, h) => \A i \in DOMAIN h :
          \E s \in CapturedSnapshots : h[i].b <= s.time /\ s.time < h[i].e
    BY CapturedTimes DEF InUse
  <2>2. \A m \in Mutables : Sorted(stack.mutables[m])
    BY <1>1, StackFields
  <2>3. \A id \in DOMAIN stack.immutables : Sorted(stack.immutables[id])
    BY <1>1, StackFields
  <2>4. \A m \in Mutables : /\ \A i, j \in DOMAIN stack.mutables[m] :
                                 i < j => stack.mutables[m][i].e <= stack.mutables[m][j].b
                            /\ m \notin Hulled => InUse(stack, stack.mutables[m])
    BY <1>1, <2>2 DEF Sorted, DataInUse
  <2>5. \A id \in DOMAIN stack.immutables :
          /\ \A i, j \in DOMAIN stack.immutables[id] :
               i < j => stack.immutables[id][i].e <= stack.immutables[id][j].b
          /\ InUse(stack, stack.immutables[id])
    BY <1>1, <2>3 DEF Sorted, DataInUse
  <2> QED
    BY <2>1, <2>4, <2>5 DEF NoOrphanData
<1>4. PointersCurrent
  BY <1>1 DEF Pointers, PointersCurrent
<1>5. StackValid
  <2> DEFINE n == Len(stack.snapshots)
  <2>1. PICK i \in 2 .. n : stack.snapshots[i].time = stack.active
    BY <1>1 DEF ActiveListed
  <2>2. DOMAIN stack.snapshots = 1 .. n /\ n \in Nat
    BY <1>1, StackFields
  <2>3. Last(stack.snapshots) = stack.snapshots[n]
    BY DEF Last
  <2>4. stack.active <= stack.current
    BY <1>1 DEF StackType
  <2>5. /\ \A j, k \in DOMAIN stack.snapshots : j < k => stack.snapshots[j].time < stack.snapshots[k].time
        /\ \A j \in DOMAIN stack.snapshots : /\ stack.snapshots[j].time <= stack.current
                                             /\ ~stack.snapshots[j].captured => j = n
    BY <1>1 DEF ListValid
  <2>6. StackType(stack) /\ \A j \in DOMAIN stack.snapshots : stack.snapshots[j].captured \in BOOLEAN
    BY <1>1, StackFields
  <2> HIDE DEF n
  <2>7. n \in DOMAIN stack.snapshots
    BY <2>1, <2>2
  <2>8. \A j \in 1 .. n - 1 :
          j \in DOMAIN stack.snapshots /\ j + 1 \in DOMAIN stack.snapshots /\ j < j + 1 /\ j # n
    BY <2>2
  <2>9. \A j \in 1 .. n - 1 : /\ stack.snapshots[j].captured
                              /\ stack.snapshots[j].time < stack.snapshots[j + 1].time
    BY <2>5, <2>8
  <2>10. Last(stack.snapshots).time <= stack.current
    BY <2>3, <2>5, <2>7
  <2> QED
    BY <2>1, <2>4, <2>9, <2>10 DEF StackValid, n
<1> QED
  BY <1>2, <1>3, <1>4, <1>5

(* Times, identifiers and what the program holds are of their types.       *)
THEOREM TypeCorrect == Spec => []TypeOK
  BY StackInvariance, TypeFromInv, PTL

(* No operation makes a listed snapshot that undo(), redo() or             *)
(* undo_redo_to() could not load: the assertions of load() and             *)
(* load_immutable_object() hold.                                           *)
THEOREM LoadsSucceed == Spec => []SnapshotsLoadable
  BY StackInvariance, PropertiesFromInv, PTL

(* Cutting, extending and releasing histories leaves them sorted, disjoint *)
(* and without an interval that no captured snapshot is in, except for the *)
(* data of hulled objects.                                                 *)
THEOREM NothingOrphaned == Spec => []NoOrphanData
  BY StackInvariance, PropertiesFromInv, PTL

(* A pointer of the stack's map is to a shared object the stack holds, so  *)
(* a reused address is never taken for what lived there before.            *)
THEOREM NoStalePointer == Spec => []PointersCurrent
  BY StackInvariance, PropertiesFromInv, PTL

(* valid() of the stack: the active snapshot is listed and not the first,  *)
(* times increase, only the last snapshot may be a placeholder.            *)
THEOREM AlwaysValid == Spec => []StackValid
  BY StackInvariance, PropertiesFromInv, PTL

=============================================================================

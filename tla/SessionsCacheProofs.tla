------------------------ MODULE SessionsCacheProofs ------------------------
(***************************************************************************)
(* Proofs about SessionsCache, for any number of workers, sessions, assets *)
(* and nodes, any idle time, and any overlap of the processes, deaths and  *)
(* uses of erased nodes included.                                          *)
(***************************************************************************)
EXTENDS SessionsCache, SequenceTheorems, FiniteSetTheorems, WellFoundedInduction, TLAPS

-----------------------------------------------------------------------------
(* Sequences                                                               *)

LEMMA RemoveAtProperties ==
    ASSUME NEW S, NEW q \in Seq(S), NEW k \in 1..Len(q)
    PROVE  /\ RemoveAt(q, k) \in Seq(S)
           /\ Len(RemoveAt(q, k)) = Len(q) - 1
           /\ \A j \in 1..k - 1 : RemoveAt(q, k)[j] = q[j]
           /\ \A j \in k..Len(q) - 1 : RemoveAt(q, k)[j] = q[j + 1]
  <1> DEFINE a == SubSeq(q, 1, k - 1)
             b == SubSeq(q, k + 1, Len(q))
             n == Len(q)
  <1>1. n \in Nat /\ k \in Nat /\ k >= 1 /\ k <= n
    BY LenProperties
  <1>2. \A j \in 1..n : q[j] \in S
    BY ElementOfSeq
  <1>3. \A j \in 1..k - 1 : q[j] \in S
    BY <1>1, <1>2
  <1>4. \A j \in k + 1..n : q[j] \in S
    BY <1>1, <1>2
  <1>5. /\ a \in Seq(S) /\ Len(a) = IF 1 <= k - 1 THEN k - 1 - 1 + 1 ELSE 0
        /\ \A j \in 1..k - 1 - 1 + 1 : a[j] = q[1 + j - 1]
    BY <1>1, <1>3, SubSeqProperties
  <1>6. /\ b \in Seq(S) /\ Len(b) = IF k + 1 <= n THEN n - (k + 1) + 1 ELSE 0
        /\ \A j \in 1..n - (k + 1) + 1 : b[j] = q[k + 1 + j - 1]
    BY <1>1, <1>4, SubSeqProperties
  <1>7. RemoveAt(q, k) = a \o b
    BY DEF RemoveAt
  <1> HIDE DEF a, b, n
  <1>8. Len(a) = k - 1 /\ \A j \in 1..k - 1 : a[j] = q[j]
    BY <1>1, <1>5
  <1>9. Len(b) = n - k /\ \A j \in 1..n - k : b[j] = q[k + j]
    BY <1>1, <1>6
  <1>10. /\ a \o b \in Seq(S) /\ Len(a \o b) = Len(a) + Len(b)
         /\ \A j \in 1..Len(a) + Len(b) :
               (a \o b)[j] = IF j <= Len(a) THEN a[j] ELSE b[j - Len(a)]
    BY <1>5, <1>6, ConcatProperties
  <1>11. Len(a) + Len(b) = n - 1
    BY <1>1, <1>8, <1>9
  <1>12. ASSUME NEW j \in 1..k - 1
         PROVE  (a \o b)[j] = q[j]
    <2>1. j \in 1..Len(a) + Len(b) /\ j <= Len(a)
      BY <1>1, <1>8, <1>11
    <2> QED BY <1>8, <1>10, <2>1
  <1>13. ASSUME NEW j \in k..n - 1
         PROVE  (a \o b)[j] = q[j + 1]
    <2>1. /\ j \in 1..Len(a) + Len(b) /\ ~(j <= Len(a))
          /\ j - Len(a) \in 1..n - k /\ k + (j - Len(a)) = j + 1
      BY <1>1, <1>8, <1>11
    <2>2. (a \o b)[j] = b[j - Len(a)]
      BY <1>10, <2>1
    <2> QED BY <1>9, <2>1, <2>2
  <1> QED BY <1>7, <1>10, <1>11, <1>12, <1>13 DEF n

LEMMA InsertAtProperties ==
    ASSUME NEW S, NEW q \in Seq(S), NEW k \in 1..Len(q) + 1, NEW e \in S
    PROVE  /\ InsertAt(q, k, e) \in Seq(S)
           /\ Len(InsertAt(q, k, e)) = Len(q) + 1
           /\ \A j \in 1..k - 1 : InsertAt(q, k, e)[j] = q[j]
           /\ InsertAt(q, k, e)[k] = e
           /\ \A j \in k + 1..Len(q) + 1 : InsertAt(q, k, e)[j] = q[j - 1]
  <1> DEFINE a == SubSeq(q, 1, k - 1)
             b == SubSeq(q, k, Len(q))
             c == a \o <<e>>
             n == Len(q)
  <1>1. n \in Nat /\ k \in Nat /\ k >= 1 /\ k <= n + 1
    BY LenProperties
  <1>2. \A j \in 1..n : q[j] \in S
    BY ElementOfSeq
  <1>3. \A j \in 1..k - 1 : q[j] \in S
    BY <1>1, <1>2
  <1>4. \A j \in k..n : q[j] \in S
    BY <1>1, <1>2
  <1>5. /\ a \in Seq(S) /\ Len(a) = IF 1 <= k - 1 THEN k - 1 - 1 + 1 ELSE 0
        /\ \A j \in 1..k - 1 - 1 + 1 : a[j] = q[1 + j - 1]
    BY <1>1, <1>3, SubSeqProperties
  <1>6. /\ b \in Seq(S) /\ Len(b) = IF k <= n THEN n - k + 1 ELSE 0
        /\ \A j \in 1..n - k + 1 : b[j] = q[k + j - 1]
    BY <1>1, <1>4, SubSeqProperties
  <1>7. InsertAt(q, k, e) = c \o b
    BY DEF InsertAt
  <1>8. <<e>> \in Seq(S) /\ Len(<<e>>) = 1 /\ <<e>>[1] = e
    OBVIOUS
  <1> HIDE DEF a, b, n
  <1>9. Len(a) = k - 1 /\ \A j \in 1..k - 1 : a[j] = q[j]
    BY <1>1, <1>5
  <1>10. Len(b) = n - k + 1 /\ \A j \in 1..n - k + 1 : b[j] = q[k + j - 1]
    BY <1>1, <1>6
  <1>11. /\ c \in Seq(S) /\ Len(c) = Len(a) + Len(<<e>>)
         /\ \A j \in 1..Len(a) + Len(<<e>>) :
               c[j] = IF j <= Len(a) THEN a[j] ELSE <<e>>[j - Len(a)]
    BY <1>5, <1>8, ConcatProperties
  <1> HIDE DEF c
  <1>12. Len(c) = k /\ c[k] = e /\ \A j \in 1..k - 1 : c[j] = q[j]
    <2>1. Len(a) + Len(<<e>>) = k
      BY <1>1, <1>8, <1>9
    <2>2. k \in 1..k /\ ~(k <= Len(a)) /\ k - Len(a) = 1
      BY <1>1, <1>9
    <2>3. c[k] = e
      BY <1>8, <1>11, <2>1, <2>2
    <2>4. ASSUME NEW j \in 1..k - 1 PROVE c[j] = q[j]
      BY <1>1, <1>9, <1>11, <2>1
    <2> QED BY <1>11, <2>1, <2>3, <2>4
  <1>13. /\ c \o b \in Seq(S) /\ Len(c \o b) = Len(c) + Len(b)
         /\ \A j \in 1..Len(c) + Len(b) :
               (c \o b)[j] = IF j <= Len(c) THEN c[j] ELSE b[j - Len(c)]
    <2>1. b \in Seq(S) /\ c \in Seq(S)
      BY <1>6, <1>11
    <2> QED BY ONLY <2>1, ConcatProperties
  <1>14. Len(c) + Len(b) = n + 1
    BY <1>1, <1>10, <1>12
  <1>15. ASSUME NEW j \in 1..k
         PROVE  (c \o b)[j] = c[j]
    <2>1. j \in 1..Len(c) + Len(b) /\ j <= Len(c)
      BY <1>1, <1>12, <1>14
    <2> QED BY <1>13, <2>1
  <1>16. ASSUME NEW j \in k + 1..n + 1
         PROVE  (c \o b)[j] = q[j - 1]
    <2>1. /\ j \in 1..Len(c) + Len(b) /\ ~(j <= Len(c))
          /\ j - Len(c) \in 1..n - k + 1 /\ k + (j - Len(c)) - 1 = j - 1
      BY <1>1, <1>12, <1>14
    <2>2. (c \o b)[j] = b[j - Len(c)]
      BY <1>13, <2>1
    <2> QED BY <1>10, <2>1, <2>2
  <1>17. k \in 1..k /\ \A j \in 1..k - 1 : j \in 1..k
    BY <1>1
  <1> QED BY <1>7, <1>12, <1>13, <1>14, <1>15, <1>16, <1>17 DEF n

-----------------------------------------------------------------------------
(* The index by expiration                                                 *)

InOrder(q, nd) ==
    \A j, k \in 1..Len(q) : j < k => nd[q[j]].expiration_time <= nd[q[k]].expiration_time

LEMMA Least ==
    ASSUME NEW T \in SUBSET Nat, T # {}
    PROVE  \E k \in T : \A j \in T : k <= j
  <1>1. PICK k \in T : \A j \in T : ~(<<j, k>> \in OpToRel(<, Nat))
    BY NatLessThanWellFounded, WFMin
  <1>2. ASSUME NEW j \in T PROVE k <= j
    <2>1. ~(j < k)
      BY <1>1 DEF OpToRel
    <2> QED BY <2>1
  <1> QED BY <1>2

(* A part of the index, in the order of the index, is as good an index.    *)
LEMMA PartOfIndex ==
    ASSUME NEW q \in Seq(Slot), NEW w \in Seq(Slot), IsInjective(q),
           NEW e \in [1..Len(w) -> 1..Len(q)],
           \A j \in 1..Len(w) : w[j] = q[e[j]],
           \A j, k \in 1..Len(w) : j < k => e[j] < e[k]
    PROVE  /\ IsInjective(w)
           /\ Range(w) \subseteq Range(q)
           /\ \A nd : InOrder(q, nd) => InOrder(w, nd)
  <1>1. Len(q) \in Nat /\ Len(w) \in Nat /\ DOMAIN q = 1..Len(q) /\ DOMAIN w = 1..Len(w)
    BY LenProperties
  <1>2. ASSUME NEW j \in 1..Len(w), NEW k \in 1..Len(w), w[j] = w[k]
        PROVE  j = k
    <2>1. e[j] = e[k]
      BY <1>1, <1>2, SMTT(60) DEF IsInjective
    <2>2. e[j] \in Int /\ j \in Int /\ k \in Int
      BY <1>1
    <2> QED BY <2>1, <2>2
  <1>3. IsInjective(w)
    BY <1>1, <1>2 DEF IsInjective
  <1>4. Range(w) \subseteq Range(q)
    BY <1>1 DEF Range
  <1>5. ASSUME NEW nd, InOrder(q, nd)
        PROVE  InOrder(w, nd)
    BY <1>5, SMTT(60) DEF InOrder
  <1> QED BY <1>3, <1>4, <1>5

(* erase takes one node out of the index and leaves the others in order.   *)
LEMMA EraseIndex ==
    ASSUME index \in Seq(Slot), IsInjective(index), NEW gone
    PROVE  /\ Without(gone) \in Seq(Slot)
           /\ IsInjective(Without(gone))
           /\ Range(Without(gone)) \subseteq map
           /\ map \ gone \subseteq Range(Without(gone))
           /\ (\A s, t \in map \cap gone : s = t) => Range(Without(gone)) \cap gone = {}
           /\ \A nd : InOrder(index, nd) => InOrder(Without(gone), nd)
  <1> DEFINE at == {k \in 1..Len(index) : index[k] \in gone}
  <1>1. Len(index) \in Nat /\ DOMAIN index = 1..Len(index)
    BY LenProperties
  <1>2. CASE at = {}
    <2>1. Without(gone) = index
      BY <1>2 DEF Without
    <2>2. map \cap gone = {}
      BY <1>1, <1>2 DEF map, Range
    <2> QED BY <2>1, <2>2 DEF map
  <1>3. CASE at # {}
    <2>1. PICK k \in at : Without(gone) = RemoveAt(index, k)
      BY <1>3 DEF Without
    <2>2. k \in 1..Len(index) /\ index[k] \in gone
      BY <2>1
    <2> DEFINE w == RemoveAt(index, k)
               n == Len(index)
               e == [j \in 1..n - 1 |-> IF j < k THEN j ELSE j + 1]
    <2>3. /\ w \in Seq(Slot) /\ Len(w) = n - 1
          /\ \A j \in 1..k - 1 : w[j] = index[j]
          /\ \A j \in k..n - 1 : w[j] = index[j + 1]
      BY <2>2, RemoveAtProperties
    <2> HIDE DEF w, n
    <2>4. n \in Nat /\ k \in 1..n
      BY <1>1, <2>2 DEF n
    <2>5. e \in [1..Len(w) -> 1..n]
      BY <2>3, <2>4
    <2>6. \A j \in 1..n - 1 : e[j] = IF j < k THEN j ELSE j + 1
      OBVIOUS
    <2> HIDE DEF e
    <2>7. ASSUME NEW j \in 1..Len(w) PROVE w[j] = index[e[j]]
      <3>1. j \in 1..n - 1 /\ j \in Int /\ k \in Int
        BY <2>3, <2>4
      <3>2. CASE j < k
        <4>1. j \in 1..k - 1
          BY <3>1, <3>2
        <4> QED BY <2>3, <2>6, <3>1, <3>2, <4>1
      <3>3. CASE ~(j < k)
        <4>1. j \in k..n - 1
          BY <2>4, <3>1, <3>3
        <4> QED BY <2>3, <2>6, <3>1, <3>3, <4>1
      <3> QED BY <3>2, <3>3
    <2>8. ASSUME NEW i \in 1..Len(w), NEW j \in 1..Len(w), i < j PROVE e[i] < e[j]
      BY <2>3, <2>4, <2>6, <2>8
    <2>9. /\ IsInjective(w) /\ Range(w) \subseteq Range(index)
          /\ \A nd : InOrder(index, nd) => InOrder(w, nd)
      BY <2>3, <2>5, <2>7, <2>8, PartOfIndex DEF n
    <2>10. DOMAIN w = 1..n - 1
      BY <2>3, LenProperties
    <2>11. ASSUME NEW i \in 1..n, i # k
           PROVE  index[i] \in Range(w)
      <3>1. CASE i < k
        <4>1. i \in 1..n - 1 /\ i \in 1..k - 1
          BY <2>4, <3>1
        <4> QED BY <2>3, <2>10, <4>1 DEF Range
      <3>2. CASE i > k
        <4>1. i - 1 \in 1..n - 1 /\ i - 1 \in k..n - 1 /\ i - 1 + 1 = i
          BY <2>4, <3>2
        <4>2. w[i - 1] = index[i]
          BY <2>3, <4>1
        <4> QED BY <2>10, <4>1, <4>2 DEF Range
      <3>3. i < k \/ i > k
        BY <2>4, <2>11
      <3> QED BY <3>1, <3>2, <3>3
    <2>12. map \ gone \subseteq Range(w)
      BY <1>1, <2>2, <2>11 DEF map, Range, n
    <2>13. ASSUME \A s, t \in map \cap gone : s = t
           PROVE  Range(w) \cap gone = {}
      <3>1. ASSUME NEW j \in 1..n - 1, w[j] \in gone
            PROVE  FALSE
        <4>1. e[j] \in 1..n /\ w[j] = index[e[j]]
          BY <2>3, <2>5, <2>7
        <4>2. index[e[j]] \in map /\ index[k] \in map
          BY <1>1, <2>2, <4>1 DEF map, Range, n
        <4>3. index[e[j]] = index[k]
          BY <2>2, <2>13, <3>1, <4>1, <4>2
        <4>4. e[j] = k
          BY <1>1, <2>2, <4>1, <4>3 DEF IsInjective, n
        <4> QED BY <2>4, <2>6, <4>4
      <3> QED BY <2>10, <3>1 DEF Range
    <2> QED BY <2>1, <2>3, <2>9, <2>12, <2>13 DEF w, map
  <1> QED BY <1>2, <1>3

(* upper_bound finds the one place that keeps the index in order.          *)
LEMMA UpperBound ==
    ASSUME NEW q \in Seq(Slot), node \in [Slot -> element], InOrder(q, node),
           NEW time \in Nat
    PROVE  /\ upper_bound(q, time) \in 1..Len(q) + 1
           /\ \A j \in 1..Len(q) :
                 j < upper_bound(q, time) <=> node[q[j]].expiration_time <= time
  <1> DEFINE n == Len(q)
             T == {k \in 1..n + 1 : k = n + 1 \/ node[q[k]].expiration_time > time}
  <1>1. n \in Nat /\ \A j \in 1..n : q[j] \in Slot
    BY LenProperties, ElementOfSeq
  <1>2. \A j \in 1..n : node[q[j]].expiration_time \in Int
    BY <1>1, CacheAssumption DEF element
  <1>3. T \in SUBSET Nat /\ n + 1 \in T
    BY <1>1
  <1>4. PICK k \in T : \A j \in T : k <= j
    <2> HIDE DEF T
    <2> QED BY <1>3, Least
  <1>5. k \in 1..n + 1
    OBVIOUS
  <1>6. ASSUME NEW j \in 1..n
        PROVE  j < k <=> node[q[j]].expiration_time <= time
    <2>1. CASE j < k
      <3>1. j \notin T
        BY <1>1, <1>4, <1>5, <2>1
      <3> QED BY <1>1, <1>2, <2>1, <3>1
    <2>2. CASE j = k
      BY <1>1, <1>2, <2>2
    <2>3. CASE j > k
      <3>1. k \in 1..n /\ node[q[k]].expiration_time > time
        BY <1>1, <1>5, <2>3
      <3>2. node[q[k]].expiration_time <= node[q[j]].expiration_time
        BY <2>3, <3>1 DEF InOrder
      <3> QED BY <1>1, <1>2, <1>5, <2>3, <3>1, <3>2
    <2> QED BY <1>1, <1>5, <2>1, <2>2, <2>3
  <1> HIDE DEF T
  <1>7. \E b \in 1..Len(q) + 1 : \A j \in 1..Len(q) : j < b <=> node[q[j]].expiration_time <= time
    BY <1>5, <1>6 DEF n
  <1> QED BY <1>7 DEF upper_bound

(* insert puts a node that was not in the index where it belongs.          *)
LEMMA PlacedIndex ==
    ASSUME NEW q \in Seq(Slot), IsInjective(q), node \in [Slot -> element], InOrder(q, node),
           NEW s \in Slot \ Range(q), NEW time \in Nat,
           NEW nd \in [Slot -> element], nd[s].expiration_time = time,
           \A t \in Slot \ {s} : nd[t] = node[t]
    PROVE  /\ Placed(q, s, time) \in Seq(Slot)
           /\ IsInjective(Placed(q, s, time))
           /\ Range(Placed(q, s, time)) = Range(q) \cup {s}
           /\ InOrder(Placed(q, s, time), nd)
  <1> DEFINE n == Len(q)
             b == upper_bound(q, time)
             p == Placed(q, s, time)
  <1>1. n \in Nat /\ DOMAIN q = 1..n /\ \A j \in 1..n : q[j] \in Slot
    BY LenProperties, ElementOfSeq
  <1>2. b \in 1..n + 1 /\ \A j \in 1..n : j < b <=> node[q[j]].expiration_time <= time
    BY UpperBound
  <1> HIDE DEF b
  <1>3. p = InsertAt(q, b, s)
    BY DEF Placed, b
  <1> HIDE DEF p, n
  <1>4. /\ p \in Seq(Slot) /\ Len(p) = n + 1
        /\ \A j \in 1..b - 1 : p[j] = q[j]
        /\ p[b] = s
        /\ \A j \in b + 1..n + 1 : p[j] = q[j - 1]
    <2>1. b \in 1..Len(q) + 1 /\ s \in Slot
      BY <1>2 DEF n
    <2>2. /\ InsertAt(q, b, s) \in Seq(Slot) /\ Len(InsertAt(q, b, s)) = Len(q) + 1
          /\ \A j \in 1..b - 1 : InsertAt(q, b, s)[j] = q[j]
          /\ InsertAt(q, b, s)[b] = s
          /\ \A j \in b + 1..Len(q) + 1 : InsertAt(q, b, s)[j] = q[j - 1]
      BY ONLY q \in Seq(Slot), <2>1, InsertAtProperties
    <2> QED BY <1>3, <2>2 DEF n
  <1>5. DOMAIN p = 1..n + 1
    BY <1>4, LenProperties
  <1>6. ASSUME NEW j \in 1..n + 1
        PROVE  \/ j < b /\ j \in 1..n /\ p[j] = q[j]
               \/ j = b /\ p[j] = s
               \/ j > b /\ j - 1 \in 1..n /\ p[j] = q[j - 1]
    BY <1>1, <1>2, <1>4
  <1>7. \A j \in 1..n : q[j] # s
    BY <1>1 DEF Range
  <1>8. \A i, j \in 1..n : q[i] = q[j] => i = j
    BY <1>1 DEF IsInjective
  <1>9. ASSUME NEW i \in 1..n + 1, NEW j \in 1..n + 1, p[i] = p[j]
        PROVE  i = j
    BY <1>1, <1>2, <1>6, <1>7, <1>8, <1>9
  <1>10. IsInjective(p)
    BY <1>5, <1>9 DEF IsInjective
  <1>11. Range(p) = Range(q) \cup {s}
    <2>1. Range(p) \subseteq Range(q) \cup {s}
      BY <1>1, <1>5, <1>6 DEF Range
    <2>2. s \in Range(p)
      BY <1>2, <1>4, <1>5 DEF Range
    <2>3. ASSUME NEW j \in 1..n
          PROVE  q[j] \in Range(p)
      <3>1. CASE j < b
        <4>1. j \in 1..b - 1 /\ j \in 1..n + 1
          BY <1>1, <1>2, <3>1
        <4> QED BY <1>4, <1>5, <4>1 DEF Range
      <3>2. CASE j >= b
        <4>1. j + 1 \in b + 1..n + 1 /\ j + 1 \in 1..n + 1 /\ (j + 1) - 1 = j
          BY <1>1, <1>2, <3>2
        <4>2. p[j + 1] = q[j]
          BY <1>4, <4>1
        <4> QED BY <1>5, <4>1, <4>2 DEF Range
      <3>3. j < b \/ j >= b
        BY <1>2
      <3> QED BY <3>1, <3>2, <3>3
    <2> QED BY <1>1, <2>1, <2>2, <2>3 DEF Range
  <1>12. \A j \in 1..n : /\ nd[q[j]].expiration_time = node[q[j]].expiration_time
                         /\ node[q[j]].expiration_time \in Int
    BY <1>1, <1>7, CacheAssumption DEF element
  <1>13. ASSUME NEW i \in 1..n + 1, NEW j \in 1..n + 1, i < j
         PROVE  nd[p[i]].expiration_time <= nd[p[j]].expiration_time
    <2>1. \A k, l \in 1..n : k < l => node[q[k]].expiration_time <= node[q[l]].expiration_time
      BY DEF InOrder, n
    <2>2. CASE i = b
      <3>1. j > b /\ j - 1 \in 1..n /\ p[j] = q[j - 1] /\ p[i] = s
        BY <1>1, <1>2, <1>4, <1>6, <1>13, <2>2
      <3>2. ~(j - 1 < b)
        BY <1>1, <1>2, <3>1
      <3> QED BY <1>2, <1>12, <3>1, <3>2
    <2>3. CASE j = b
      <3>1. i < b /\ i \in 1..n /\ p[i] = q[i] /\ p[j] = s
        BY <1>1, <1>2, <1>4, <1>6, <1>13, <2>3
      <3> QED BY <1>2, <1>12, <3>1
    <2>4. CASE i # b /\ j # b
      <3>1. PICK k \in 1..n : p[i] = q[k] /\ ((k = i /\ i < b) \/ (k = i - 1 /\ i > b))
        BY <1>6, <2>4
      <3>2. PICK l \in 1..n : p[j] = q[l] /\ ((l = j /\ j < b) \/ (l = j - 1 /\ j > b))
        BY <1>6, <2>4
      <3>3. k < l
        BY <1>1, <1>2, <1>13, <3>1, <3>2
      <3> QED BY <1>12, <2>1, <3>1, <3>2, <3>3
    <2> QED BY <2>2, <2>3, <2>4
  <1>14. InOrder(p, nd)
    BY <1>4, <1>13 DEF InOrder
  <1> QED BY <1>4, <1>10, <1>11, <1>14 DEF p

-----------------------------------------------------------------------------
(* The inductive invariant.  An iterator is to a node, or the end, as its  *)
(* use supposes; nothing expires later than a use of now would have it;    *)
(* and what is in the cache was added.                                     *)
IteratorsOK ==
    \A p \in Proc : /\ held[p].op = "update" => held[p].s \in Slot
                    /\ held[p].op = "clean" => held[p].s \in Slot \cup {End}

TimesOK == \A s \in Slot : node[s].expiration_time <= now + IdleTime

(* The unique index by remote, which add makes room in before it inserts.  *)
OneSessionPerRemote ==
    \A s, t \in map : RemoteOf[node[s].id] = RemoteOf[node[t].id] => s = t

CacheInv ==
    /\ CacheTypeOK
    /\ IteratorsOK
    /\ TimesOK
    /\ Open \subseteq added
    /\ OneSessionPerRemote
    /\ IndexInOrder

(* As long as the processes do not get in each other's way, an iterator is *)
(* to a node of the map; the place that clean has found is still there and *)
(* what is in front of it has expired; and what was there all the time is  *)
(* in the list or still ahead of it.                                       *)
IteratorsAreValid ==
    \A p \in Proc : held[p].op \in {"update", "list"} /\ held[p].s \in Slot => held[p].s \in map

CleanTakesExpired ==
    held[Maintenance].op = "clean"
    => /\ held[Maintenance].s \in map \cup {End}
       /\ \A k \in 1..Len(index) :
             node[index[k]].expiration_time < now \/ \E j \in 1..k : index[j] = held[Maintenance].s

ListIsComplete ==
    held[Maintenance].op = "list" /\ held[Maintenance].s # NoSlot
    => \A s \in map :
          \/ node[s].id \in list \/ node[s].id \notin since
          \/ held[Maintenance].s \in Slot /\ node[held[Maintenance].s].id <= node[s].id

AloneInv == alone => IteratorsAreValid /\ CleanTakesExpired /\ ListIsComplete

-----------------------------------------------------------------------------
(* What the operations do to the nodes of the map and to the index.        *)

IndexOK ==
    /\ index \in Seq(Slot) /\ IsInjective(index)
    /\ node \in [Slot -> element]
    /\ IndexInOrder

LEMMA IndexOKElim ==
    ASSUME IndexOK
    PROVE  /\ index \in Seq(Slot) /\ IsInjective(index)
           /\ map \subseteq Slot
           /\ InOrder(index, node)
           /\ \A s \in Slot : node[s] \in element
  BY RangeOfSeq DEF IndexOK, IndexInOrder, InOrder, map

LEMMA OldIsOne ==
    ASSUME OneSessionPerRemote, Open \subseteq Id
    PROVE  /\ \A r : \A s, t \in map \cap OfRemote(r) : s = t
           /\ \A i : \A s, t \in map \cap WithId(i) : s = t
  BY DEF OneSessionPerRemote, OfRemote, WithId

LEMMA ElementIntro ==
    ASSUME NEW i \in Id, NEW time \in Nat, time <= MaxTime + IdleTime
    PROVE  [id |-> i, expiration_time |-> time] \in element
  <1>1. time \in 0..MaxTime + IdleTime
    BY CacheAssumption
  <1> QED BY <1>1 DEF element

LEMMA EraseEffect ==
    ASSUME IndexOK, NEW gone, \A s, t \in map \cap gone : s = t,
           index' = Without(gone), UNCHANGED node
    PROVE  IndexOK' /\ map' = map \ gone
  <1>1. index \in Seq(Slot) /\ IsInjective(index) /\ InOrder(index, node)
    BY IndexOKElim
  <1>2. /\ index' \in Seq(Slot) /\ IsInjective(index')
        /\ Range(index') \subseteq map /\ map \ gone \subseteq Range(index')
        /\ Range(index') \cap gone = {}
        /\ InOrder(index', node)
    BY <1>1, EraseIndex
  <1>3. map' = map \ gone
    BY <1>2 DEF map
  <1>4. IndexInOrder'
    BY <1>2 DEF IndexInOrder, InOrder
  <1> QED BY <1>2, <1>3, <1>4 DEF IndexOK

(* A new session takes a free node, or that of the session it replaces.    *)
LEMMA AddEffect ==
    ASSUME IndexOK, now \in 0..MaxTime, NEW i \in Id, NEW old,
           \A s, t \in map \cap old : s = t,
           NEW s \in Slot, s \notin map \/ s \in old,
           Inserts(Without(old), s, i)
    PROVE  /\ IndexOK'
           /\ map' = (map \ old) \cup {s}
           /\ node'[s] = [id |-> i, expiration_time |-> now + IdleTime]
           /\ \A t \in Slot \ {s} : node'[t] = node[t]
  <1> DEFINE q == Without(old)
             time == now + IdleTime
  <1>1. index \in Seq(Slot) /\ IsInjective(index) /\ InOrder(index, node)
    BY IndexOKElim
  <1>2. node \in [Slot -> element]
    BY DEF IndexOK
  <1>3. /\ q \in Seq(Slot) /\ IsInjective(q)
        /\ Range(q) \subseteq map /\ map \ old \subseteq Range(q)
        /\ Range(q) \cap old = {}
        /\ InOrder(q, node)
    BY <1>1, EraseIndex
  <1>4. time \in Nat /\ time <= MaxTime + IdleTime
    BY CacheAssumption
  <1> HIDE DEF q, time
  <1>5. [id |-> i, expiration_time |-> time] \in element
    BY <1>4, ElementIntro
  <1>6. /\ index' = Placed(q, s, time)
        /\ node' = [node EXCEPT ![s] = [id |-> i, expiration_time |-> time]]
    BY DEF Inserts, q, time
  <1>7. /\ node' \in [Slot -> element]
        /\ node'[s] = [id |-> i, expiration_time |-> time]
        /\ \A t \in Slot \ {s} : node'[t] = node[t]
    BY <1>2, <1>5, <1>6
  <1>8. s \in Slot \ Range(q) /\ Range(q) = map \ old
    BY <1>3
  <1>9. node'[s].expiration_time = time
    BY <1>7
  <1>10. /\ index' \in Seq(Slot) /\ IsInjective(index')
         /\ Range(index') = Range(q) \cup {s} /\ InOrder(index', node')
    BY <1>2, <1>3, <1>4, <1>6, <1>7, <1>8, <1>9, PlacedIndex
  <1>11. map' = (map \ old) \cup {s}
    BY <1>8, <1>10 DEF map
  <1>12. IndexInOrder'
    BY <1>10 DEF IndexInOrder, InOrder
  <1> QED BY <1>7, <1>10, <1>11, <1>12 DEF IndexOK, time

(* A use of a node, erased or not, leaves the map as it is and the index   *)
(* in order: in place only if no later node expires sooner.                *)
LEMMA ProlongEffect ==
    ASSUME IndexOK, now \in 0..MaxTime, TimesOK, NEW s \in Slot, prolong(s)
    PROVE  /\ IndexOK'
           /\ map' = map
           /\ node'[s] = [id |-> node[s].id, expiration_time |-> now + IdleTime]
           /\ \A t \in Slot \ {s} : node'[t] = node[t]
  <1> DEFINE time == now + IdleTime
             n == Len(index)
             out_of_order == \E j \in 1..Len(index) : \E k \in 1..j :
                                index[k] = s /\ node[index[j]].expiration_time < time /\ j # k
  <1>1. /\ index \in Seq(Slot) /\ IsInjective(index) /\ InOrder(index, node)
        /\ map \subseteq Slot /\ node[s] \in element
    BY IndexOKElim
  <1>2. node \in [Slot -> element]
    BY DEF IndexOK
  <1>3. time \in Nat /\ time <= MaxTime + IdleTime /\ \A t \in Slot : node[t].expiration_time <= time
    BY CacheAssumption DEF TimesOK
  <1>4. /\ node' = [node EXCEPT ![s].expiration_time = time]
        /\ index' = IF out_of_order THEN Placed(Without({s}), s, time) ELSE index
    BY DEF prolong
  <1> HIDE DEF time
  <1>5. [node[s] EXCEPT !.expiration_time = time] = [id |-> node[s].id, expiration_time |-> time]
    BY <1>1 DEF element
  <1>6. [node[s] EXCEPT !.expiration_time = time] \in element
    <2>1. time \in 0..MaxTime + IdleTime
      BY <1>3, CacheAssumption
    <2> QED BY <1>1, <2>1 DEF element
  <1>7. /\ node' \in [Slot -> element]
        /\ node'[s] = [id |-> node[s].id, expiration_time |-> time]
        /\ \A t \in Slot \ {s} : node'[t] = node[t]
    BY <1>2, <1>4, <1>5, <1>6
  <1>8. node'[s].expiration_time = time
    BY <1>7
  <1>9. n \in Nat /\ DOMAIN index = 1..n /\ \A j \in 1..n : index[j] \in Slot
    BY <1>1, LenProperties, ElementOfSeq
  <1>10. CASE out_of_order
    <2> DEFINE q == Without({s})
    <2>1. /\ q \in Seq(Slot) /\ IsInjective(q)
          /\ Range(q) \subseteq map /\ map \ {s} \subseteq Range(q)
          /\ Range(q) \cap {s} = {}
          /\ InOrder(q, node)
      BY <1>1, EraseIndex
    <2> HIDE DEF q
    <2>2. s \in map
      <3>1. PICK j \in 1..n : \E k \in 1..j : index[k] = s
        BY <1>10
      <3>2. PICK k \in 1..j : index[k] = s
        BY <3>1
      <3>3. k \in 1..n
        BY <1>9
      <3> QED BY <1>9, <3>2, <3>3 DEF map, Range
    <2>3. index' = Placed(q, s, time)
      BY <1>4, <1>10 DEF q
    <2> HIDE DEF out_of_order
    <2>4. s \in Slot \ Range(q) /\ Range(q) = map \ {s}
      BY <2>1
    <2>5. /\ index' \in Seq(Slot) /\ IsInjective(index')
          /\ Range(index') = Range(q) \cup {s} /\ InOrder(index', node')
      BY <1>2, <1>3, <1>7, <1>8, <2>1, <2>3, <2>4, PlacedIndex
    <2>6. map' = map
      BY <2>2, <2>4, <2>5 DEF map
    <2>7. IndexInOrder'
      BY <2>5 DEF IndexInOrder, InOrder
    <2> QED BY <1>7, <2>5, <2>6, <2>7 DEF IndexOK, time
  <1>11. CASE ~out_of_order
    <2>1. index' = index
      BY <1>4, <1>11
    <2>2. \A j \in 1..n : \A k \in 1..j :
             index[k] = s /\ j # k => ~(node[index[j]].expiration_time < time)
      BY <1>11
    <2> HIDE DEF out_of_order
    <2>3. \A j \in 1..n : node[index[j]].expiration_time \in Int
      BY <1>2, <1>9, CacheAssumption DEF element
    <2>4. ASSUME NEW j \in 1..n, NEW k \in 1..n, j < k
          PROVE  node'[index[j]].expiration_time <= node'[index[k]].expiration_time
      <3>1. node[index[j]].expiration_time <= node[index[k]].expiration_time
        BY <1>1, <2>4 DEF InOrder, n
      <3>2. index[j] # index[k]
        BY <1>1, <1>9, <2>4 DEF IsInjective
      <3>3. CASE index[j] = s
        <4>1. j \in 1..k /\ k # j
          BY <1>9, <2>4
        <4>2. ~(node[index[k]].expiration_time < time)
          BY <2>2, <3>3, <4>1
        <4> QED BY <1>3, <1>7, <1>8, <1>9, <2>3, <3>2, <3>3, <4>2
      <3>4. CASE index[k] = s
        BY <1>3, <1>7, <1>8, <1>9, <2>3, <3>2, <3>4
      <3>5. CASE index[j] # s /\ index[k] # s
        BY <1>7, <1>9, <3>1, <3>5
      <3> QED BY <3>3, <3>4, <3>5
    <2>5. IndexInOrder'
      BY <2>1, <2>4 DEF IndexInOrder, n
    <2>6. map' = map
      BY <2>1 DEF map
    <2> QED BY <1>1, <1>7, <2>1, <2>5, <2>6 DEF IndexOK, time
  <1> QED BY <1>10, <1>11

(* clean erases a beginning of the index.                                  *)
LEMMA CleanEffect ==
    ASSUME IndexOK, NEW k \in 1..Len(index) + 1,
           index' = SubSeq(index, k, Len(index)), UNCHANGED node
    PROVE  /\ IndexOK'
           /\ map' = {index[j] : j \in k..Len(index)}
  <1> DEFINE n == Len(index)
             w == SubSeq(index, k, n)
             e == [j \in 1..n - k + 1 |-> k + j - 1]
  <1>1. index \in Seq(Slot) /\ IsInjective(index) /\ InOrder(index, node)
    BY IndexOKElim
  <1>2. n \in Nat /\ k \in Int /\ k >= 1 /\ k <= n + 1 /\ \A j \in 1..n : index[j] \in Slot
    BY <1>1, LenProperties, ElementOfSeq
  <1>3. \A j \in k..n : index[j] \in Slot
    BY <1>2
  <1>4. /\ w \in Seq(Slot) /\ Len(w) = IF k <= n THEN n - k + 1 ELSE 0
        /\ \A j \in 1..n - k + 1 : w[j] = index[k + j - 1]
    BY <1>2, <1>3, SubSeqProperties
  <1>5. index' = w
    OBVIOUS
  <1> HIDE DEF w, n
  <1>6. Len(w) = n - k + 1
    BY <1>2, <1>4
  <1>7. e \in [1..Len(w) -> 1..n]
    BY <1>2, <1>6
  <1>8. \A j \in 1..Len(w) : e[j] = k + j - 1
    BY <1>6
  <1> HIDE DEF e
  <1>9. \A j \in 1..Len(w) : w[j] = index[e[j]]
    BY <1>4, <1>6, <1>8
  <1>10. \A i, j \in 1..Len(w) : i < j => e[i] < e[j]
    BY <1>2, <1>6, <1>8
  <1>11. IsInjective(w) /\ InOrder(w, node)
    BY <1>1, <1>4, <1>7, <1>9, <1>10, PartOfIndex DEF n
  <1>12. DOMAIN w = 1..n - k + 1
    BY <1>4, <1>6, LenProperties
  <1>13. Range(w) = {index[j] : j \in k..n}
    <2>1. ASSUME NEW j \in 1..n - k + 1 PROVE w[j] \in {index[i] : i \in k..n}
      <3>1. k + j - 1 \in k..n
        BY <1>2
      <3> QED BY <1>4, <3>1
    <2>2. ASSUME NEW i \in k..n PROVE index[i] \in Range(w)
      <3>1. i - k + 1 \in 1..n - k + 1 /\ k + (i - k + 1) - 1 = i
        BY <1>2
      <3>2. w[i - k + 1] = index[i]
        BY <1>4, <3>1
      <3> QED BY <1>12, <3>1, <3>2 DEF Range
    <2> QED BY <1>12, <2>1, <2>2 DEF Range
  <1>14. IndexInOrder'
    BY <1>5, <1>11 DEF IndexInOrder, InOrder
  <1> QED BY <1>4, <1>5, <1>11, <1>13, <1>14 DEF IndexOK, map, n

-----------------------------------------------------------------------------
(* The half of the invariant about the map, one lemma per operation.       *)

MapInv ==
    /\ IndexOK
    /\ now \in 0..MaxTime
    /\ TimesOK
    /\ added \subseteq Id /\ Open \subseteq added
    /\ OneSessionPerRemote

LEMMA AddMap ==
    ASSUME MapInv, NEW i \in Id, add(Broker, i)
    PROVE  MapInv'
  <1> DEFINE old == OfRemote(RemoteOf[i])
  <1>1. PICK s \in (Slot \ map) \cup old : Inserts(Without(old), s, i)
    BY DEF add
  <1>2. \A t, u \in map \cap old : t = u
    BY OldIsOne DEF MapInv
  <1>3. map \subseteq Slot /\ old \subseteq map /\ \A t \in map : RemoteOf[node[t].id] = RemoteOf[i] => t \in old
    BY IndexOKElim DEF MapInv, OfRemote
  <1> HIDE DEF old
  <1>4. s \in Slot /\ (s \notin map \/ s \in old)
    BY <1>3
  <1>5. /\ IndexOK'
        /\ map' = (map \ old) \cup {s}
        /\ node'[s] = [id |-> i, expiration_time |-> now + IdleTime]
        /\ \A t \in Slot \ {s} : node'[t] = node[t]
    BY <1>1, <1>2, <1>4, AddEffect DEF MapInv
  <1>6. added' = added \cup {i} /\ now' = now
    BY DEF add
  <1>7. node'[s].id = i /\ node'[s].expiration_time = now + IdleTime
    BY <1>5
  <1>8. TimesOK'
    <2>1. ASSUME NEW t \in Slot PROVE node'[t].expiration_time <= now + IdleTime
      <3>1. CASE t = s
        BY <1>7, <3>1, CacheAssumption DEF MapInv
      <3>2. CASE t # s
        BY <1>5, <3>2 DEF MapInv, TimesOK
      <3> QED BY <3>1, <3>2
    <2> QED BY <1>6, <2>1 DEF TimesOK
  <1>9. (Open \subseteq added)'
    BY <1>3, <1>5, <1>6, <1>7 DEF MapInv, Open
  <1>10. OneSessionPerRemote'
    <2>1. ASSUME NEW t \in map', NEW u \in map', RemoteOf[node'[t].id] = RemoteOf[node'[u].id]
          PROVE  t = u
      <3>1. CASE t # s /\ u # s
        <4>1. t \in map /\ u \in map /\ node'[t] = node[t] /\ node'[u] = node[u]
          BY <1>3, <1>5, <3>1
        <4> QED BY <2>1, <4>1 DEF MapInv, OneSessionPerRemote
      <3>2. CASE t = s /\ u # s
        <4>1. u \in map \ old /\ node'[u] = node[u]
          BY <1>3, <1>5, <3>2
        <4> QED BY <1>3, <1>7, <2>1, <3>2, <4>1
      <3>3. CASE t # s /\ u = s
        <4>1. t \in map \ old /\ node'[t] = node[t]
          BY <1>3, <1>5, <3>3
        <4> QED BY <1>3, <1>7, <2>1, <3>3, <4>1
      <3> QED BY <3>1, <3>2, <3>3
    <2> QED BY <2>1 DEF OneSessionPerRemote
  <1> QED BY <1>5, <1>6, <1>8, <1>9, <1>10 DEF MapInv

(* Nothing that only leaves the map can disturb it.                        *)
LEMMA FewerMap ==
    ASSUME MapInv, IndexOK', map' \subseteq map, UNCHANGED <<node, now>>,
           added \subseteq added', added' \subseteq Id
    PROVE  MapInv'
  <1>1. TimesOK'
    BY DEF MapInv, TimesOK
  <1>2. Open' \subseteq added'
    BY DEF MapInv, Open
  <1>3. OneSessionPerRemote'
    BY DEF MapInv, OneSessionPerRemote
  <1> QED BY <1>1, <1>2, <1>3 DEF MapInv

LEMMA EraseMap ==
    ASSUME MapInv, NEW i \in Id, add_fails(Broker, i) \/ remove_by_id(Broker, i)
    PROVE  MapInv'
  <1>1. UNCHANGED <<node, now>> /\ added \subseteq added' /\ added' \subseteq Id
    BY DEF add_fails, remove_by_id, MapInv
  <1>2. CASE add_fails(Broker, i)
    <2>1. index' = Without(OfRemote(RemoteOf[i]))
      BY <1>2 DEF add_fails
    <2>2. \A t, u \in map \cap OfRemote(RemoteOf[i]) : t = u
      BY OldIsOne DEF MapInv
    <2>3. IndexOK' /\ map' = map \ OfRemote(RemoteOf[i])
      BY <1>1, <2>1, <2>2, EraseEffect DEF MapInv
    <2> QED BY <1>1, <2>3, FewerMap
  <1>3. CASE remove_by_id(Broker, i)
    <2>1. index' = Without(WithId(i))
      BY <1>3 DEF remove_by_id
    <2>2. \A t, u \in map \cap WithId(i) : t = u
      BY OldIsOne DEF MapInv
    <2>3. IndexOK' /\ map' = map \ WithId(i)
      BY <1>1, <2>1, <2>2, EraseEffect DEF MapInv
    <2> QED BY <1>1, <2>3, FewerMap
  <1> QED BY <1>2, <1>3

LEMMA SameMap ==
    ASSUME MapInv, UNCHANGED <<index, node, added, now>>
    PROVE  MapInv'
  <1>1. map' = map
    BY DEF map
  <1>2. IndexOK'
    BY DEF MapInv, IndexOK, IndexInOrder
  <1> QED BY <1>1, <1>2, FewerMap DEF MapInv

LEMMA UpdateMap ==
    ASSUME MapInv, IteratorsOK, NEW p \in Proc, update(p)
    PROVE  MapInv'
  <1>1. held[p].s \in Slot
    BY DEF update, Half, IteratorsOK
  <1>2. CASE prolong(held[p].s) /\ Done(p)
    <2> DEFINE s == held[p].s
    <2>1. UNCHANGED <<added, now>>
      BY <1>2 DEF Done
    <2> HIDE DEF s
    <2>2. /\ IndexOK'
          /\ map' = map
          /\ node'[s] = [id |-> node[s].id, expiration_time |-> now + IdleTime]
          /\ \A t \in Slot \ {s} : node'[t] = node[t]
      BY <1>1, <1>2, ProlongEffect DEF MapInv, s
    <2>3. \A t \in Slot : node'[t].id = node[t].id
      BY <2>2
    <2>4. map \subseteq Slot
      BY IndexOKElim DEF MapInv
    <2>5. TimesOK'
      <3>1. ASSUME NEW t \in Slot PROVE node'[t].expiration_time <= now + IdleTime
        <4>1. CASE t = s
          BY <2>2, <4>1, CacheAssumption DEF MapInv
        <4>2. CASE t # s
          BY <2>2, <4>2 DEF MapInv, TimesOK
        <4> QED BY <4>1, <4>2
      <3> QED BY <2>1, <3>1 DEF TimesOK
    <2>6. Open' \subseteq added'
      BY <2>1, <2>2, <2>3, <2>4 DEF MapInv, Open
    <2>7. OneSessionPerRemote'
      BY <2>2, <2>3, <2>4 DEF MapInv, OneSessionPerRemote
    <2> QED BY <2>1, <2>2, <2>5, <2>6, <2>7 DEF MapInv
  <1>3. CASE Damages(p) \/ Dies(p)
    BY <1>3, SameMap DEF Damages, Dies
  <1> QED BY <1>2, <1>3 DEF update

LEMMA CleanMap ==
    ASSUME MapInv, clean_erase
    PROVE  MapInv'
  <1>1. CASE Dies(Maintenance)
    BY <1>1, SameMap DEF Dies
  <1>2. ASSUME NEW k \in 1..Len(index) + 1, index' = SubSeq(index, k, Len(index)), Cleaned
        PROVE  MapInv'
    <2>1. UNCHANGED <<node, added, now>>
      BY <1>2 DEF Cleaned
    <2>2. IndexOK' /\ map' = {index[j] : j \in k..Len(index)}
      BY <1>2, <2>1, CleanEffect DEF MapInv
    <2>3. map' \subseteq map
      <3>1. Len(index) \in Nat /\ DOMAIN index = 1..Len(index)
        BY LenProperties DEF MapInv, IndexOK
      <3>2. k..Len(index) \subseteq 1..Len(index)
        BY <3>1
      <3> QED BY <2>2, <3>1, <3>2 DEF map, Range
    <2> QED BY <2>1, <2>2, <2>3, FewerMap DEF MapInv
  <1>3. CASE index' = <<>> /\ Cleaned
    <2>1. Len(index) \in Nat
      BY LenProperties DEF MapInv, IndexOK
    <2>2. SubSeq(index, Len(index) + 1, Len(index)) = <<>>
      BY <2>1, SubSeqEmpty
    <2>3. Len(index) + 1 \in 1..Len(index) + 1
      BY <2>1
    <2> QED BY <1>2, <1>3, <2>2, <2>3
  <1>4. ASSUME NEW k \in 1..Len(index)
        PROVE  k \in 1..Len(index) + 1
    BY LenProperties DEF MapInv, IndexOK
  <1> QED BY <1>1, <1>2, <1>3, <1>4 DEF clean_erase

LEMMA TickMap ==
    ASSUME MapInv, Tick
    PROVE  MapInv'
  <1>1. now \in 0..MaxTime /\ now < MaxTime /\ now' = now + 1 /\ UNCHANGED <<index, node, added>>
    BY DEF Tick, MapInv
  <1>2. now' \in 0..MaxTime
    BY <1>1, CacheAssumption
  <1>3. map' = map
    BY <1>1 DEF map
  <1>4. IndexOK'
    BY <1>1 DEF MapInv, IndexOK, IndexInOrder
  <1>5. TimesOK'
    <2>1. ASSUME NEW t \in Slot PROVE node[t].expiration_time <= now + 1 + IdleTime
      <3>1. node[t].expiration_time \in Int /\ node[t].expiration_time <= now + IdleTime
        BY IndexOKElim, CacheAssumption DEF MapInv, TimesOK, element
      <3> QED BY <1>1, <3>1, CacheAssumption
    <2> QED BY <1>1, <2>1 DEF TimesOK
  <1> QED BY <1>1, <1>2, <1>3, <1>4, <1>5 DEF MapInv, Open, OneSessionPerRemote

-----------------------------------------------------------------------------
(* The half about what the processes hold.                                 *)

HeldInv ==
    /\ held \in [Proc -> half_way]
    /\ IteratorsOK
    /\ lost \in BOOLEAN
    /\ list \subseteq Id \cup {NoId} /\ files \subseteq Id

LEMMA NothingType ==
    /\ Nothing \in half_way /\ Nothing.op = "none"
    /\ [Nothing EXCEPT !.op = "dead"] \in half_way /\ [Nothing EXCEPT !.op = "dead"].op = "dead"
    /\ [Nothing EXCEPT !.op = "list"] \in half_way /\ [Nothing EXCEPT !.op = "list"].op = "list"
    /\ [Nothing EXCEPT !.op = "list"].s = NoSlot
    /\ [Nothing EXCEPT !.op = "damage"] \in half_way
    /\ [Nothing EXCEPT !.op = "damage"].op = "damage"
  BY DEF Nothing, half_way

(* The first node by id.                                                   *)
LEMMA IdFirstProperties ==
    ASSUME MapInv, NEW S \in SUBSET map
    PROVE  /\ S = {} => IdFirst(S) = End
           /\ S # {} => IdFirst(S) \in S /\ \A t \in S : node[IdFirst(S)].id <= node[t].id
  <1>1. CASE S = {}
    BY <1>1 DEF IdFirst
  <1>2. CASE S # {}
    <2> DEFINE T == {node[s].id : s \in S}
    <2>1. T \in SUBSET Nat /\ T # {}
      <3>1. \A s \in map : node[s].id \in Id
        BY DEF MapInv, Open
      <3> QED BY <1>2, <3>1, CacheAssumption
    <2>2. PICK i \in T : \A j \in T : i <= j
      <3> HIDE DEF T
      <3> QED BY <2>1, Least
    <2>3. PICK s \in S : i = node[s].id
      BY <2>2
    <2>4. \E t \in S : \A u \in S : node[t].id <= node[u].id
      BY <2>2, <2>3
    <2> QED BY <1>2, <2>4 DEF IdFirst
  <1> QED BY <1>1, <1>2

(* The place that clean looks for: everything in front of it has expired.  *)
LEMMA LowerBoundProperties ==
    ASSUME MapInv
    PROVE  /\ lower_bound \in map \cup {End}
           /\ lower_bound \in Slot => node[lower_bound].expiration_time >= now
           /\ \A k \in 1..Len(index) :
                 \/ node[index[k]].expiration_time < now
                 \/ \E j \in 1..k : index[j] = lower_bound
  <1> DEFINE n == Len(index)
             first == CHOOSE k \in Fresh : \A j \in Fresh : k <= j
  <1>1. n \in Nat /\ DOMAIN index = 1..n /\ \A j \in 1..n : index[j] \in Slot
    BY LenProperties, ElementOfSeq DEF MapInv, IndexOK
  <1>2. \A j \in 1..n : node[index[j]].expiration_time \in Int
    BY <1>1, CacheAssumption DEF MapInv, IndexOK, element
  <1>3. now \in Int
    BY CacheAssumption DEF MapInv
  <1>4. \A k \in 1..n : k \notin Fresh => node[index[k]].expiration_time < now
    BY <1>2, <1>3 DEF Fresh
  <1>5. CASE Fresh = {}
    BY <1>4, <1>5, CacheAssumption DEF lower_bound
  <1>6. CASE Fresh # {}
    <2>1. Fresh \in SUBSET Nat /\ Fresh \subseteq 1..n
      BY <1>1 DEF Fresh
    <2>2. \E k \in Fresh : \A j \in Fresh : k <= j
      BY <1>6, <2>1, Least
    <2>3. first \in Fresh /\ \A j \in Fresh : first <= j
      BY <2>2
    <2>4. lower_bound = index[first]
      BY <1>6 DEF lower_bound
    <2> HIDE DEF first
    <2>5. lower_bound \in map
      BY <1>1, <2>1, <2>3, <2>4 DEF map, Range
    <2>7. node[lower_bound].expiration_time >= now
      BY <2>3, <2>4 DEF Fresh
    <2>6. ASSUME NEW k \in 1..n, k \in Fresh
          PROVE  \E j \in 1..k : index[j] = lower_bound
      <3>1. first \in 1..k
        BY <1>1, <2>1, <2>3, <2>6
      <3> QED BY <2>4, <3>1
    <2> QED BY <1>4, <2>5, <2>6, <2>7
  <1> QED BY <1>5, <1>6

LEMMA ProcType == Broker \in Proc /\ Maintenance \in Proc /\ Worker \subseteq Proc
  BY DEF Proc

(* A process that is done, or that takes an iterator to a node, leaves the *)
(* rest as it is.                                                          *)
LEMMA HoldsHeld ==
    ASSUME HeldInv, NEW p \in Proc, NEW h \in half_way, held' = [held EXCEPT ![p] = h],
           h.op = "update" => h.s \in Slot,
           h.op = "clean" => h.s \in Slot \cup {End}
    PROVE  held' \in [Proc -> half_way] /\ IteratorsOK'
  BY DEF HeldInv, IteratorsOK

LEMMA EndsHeld ==
    ASSUME HeldInv, NEW p \in Proc, Ends(p)
    PROVE  held' \in [Proc -> half_way] /\ IteratorsOK'
  <1>1. \A q \in Proc : held'[q] = [Nothing EXCEPT !.op = "dead"] \/ held'[q] = held[q]
    BY DEF Ends
  <1>2. held' \in [Proc -> half_way]
    BY <1>1, NothingType DEF Ends, HeldInv
  <1>3. ASSUME NEW q \in Proc
        PROVE  /\ held'[q].op = "update" => held'[q].s \in Slot
               /\ held'[q].op = "clean" => held'[q].s \in Slot \cup {End}
    <2>1. CASE held'[q] = [Nothing EXCEPT !.op = "dead"]
      <3>1. held'[q].op = "dead"
        BY <2>1, NothingType
      <3> QED BY <3>1
    <2>2. CASE held'[q] = held[q]
      BY <2>2 DEF HeldInv, IteratorsOK
    <2> QED BY <1>1, <2>1, <2>2
  <1> QED BY <1>2, <1>3 DEF IteratorsOK

LEMMA SessionsHeld ==
    ASSUME MapInv, HeldInv, Sessions
    PROVE  HeldInv'
  <1> USE ProcType
  <1>1. ASSUME NEW i \in Id, add(Broker, i) \/ add_fails(Broker, i) \/ remove_by_id(Broker, i)
        PROVE  HeldInv'
    <2>1. UNCHANGED <<held, lost, list, files>>
      BY <1>1 DEF add, add_fails, remove_by_id
    <2> QED BY <2>1 DEF HeldInv, IteratorsOK
  <1>2. ASSUME NEW p \in Proc, update(p)
        PROVE  HeldInv'
    <2>1. CASE Done(p)
      <3>1. held' = [held EXCEPT ![p] = Nothing] /\ UNCHANGED <<lost, list, files>>
        BY <2>1 DEF Done
      <3> QED BY <3>1, HoldsHeld, NothingType DEF HeldInv
    <2>2. CASE Dies(p)
      <3>1. Ends(p) /\ lost' = TRUE /\ UNCHANGED <<list, files>>
        BY <2>2 DEF Dies
      <3> QED BY <3>1, EndsHeld DEF HeldInv
    <2>3. CASE Damages(p)
      <3>1. held' = [held EXCEPT ![p] = [Nothing EXCEPT !.op = "damage"]] /\ UNCHANGED <<lost, list, files>>
        BY <2>3 DEF Damages
      <3> QED BY <3>1, HoldsHeld, NothingType DEF HeldInv
    <2> QED BY <1>2, <2>1, <2>2, <2>3 DEF update
  <1>3. ASSUME NEW p \in Proc, NEW s \in Slot, find(p, s)
        PROVE  HeldInv'
    <2> DEFINE h == [op |-> "update", s |-> s, id |-> node[s].id]
    <2>1. node[s].id \in Id \cup {NoId}
      BY DEF MapInv, IndexOK, element
    <2>2. h \in half_way /\ h.op = "update" /\ h.s = s
      BY <2>1 DEF half_way
    <2>3. held' = [held EXCEPT ![p] = h] /\ UNCHANGED <<lost, list, files>>
      BY <1>3 DEF find
    <2> HIDE DEF h
    <2> QED BY <2>2, <2>3, HoldsHeld DEF HeldInv
  <1>4. CASE clean_find
    <2> DEFINE h == [op |-> "clean", s |-> lower_bound, id |-> NoId]
    <2>1. lower_bound \in Slot \cup {End}
      BY LowerBoundProperties, IndexOKElim DEF MapInv
    <2>2. h \in half_way /\ h.op = "clean" /\ h.s = lower_bound
      BY <2>1 DEF half_way
    <2>3. held' = [held EXCEPT ![Maintenance] = h] /\ UNCHANGED <<lost, list, files>>
      BY <1>4 DEF clean_find
    <2> HIDE DEF h
    <2> QED BY <2>1, <2>2, <2>3, HoldsHeld DEF HeldInv
  <1>5. CASE clean_erase
    <2>1. CASE Cleaned
      <3>1. /\ held' = [held EXCEPT ![Maintenance] = [Nothing EXCEPT !.op = "list"]]
            /\ list' = {} /\ UNCHANGED <<lost, files>>
        BY <2>1 DEF Cleaned
      <3> QED BY <3>1, HoldsHeld, NothingType DEF HeldInv
    <2>2. CASE Dies(Maintenance)
      <3>1. Ends(Maintenance) /\ lost' = TRUE /\ UNCHANGED <<list, files>>
        BY <2>2 DEF Dies
      <3> QED BY <3>1, EndsHeld DEF HeldInv
    <2> QED BY <1>5, <2>1, <2>2 DEF clean_erase
  <1>6. ASSUME NEW p, NEW i, find_nothing(p, i)
        PROVE  HeldInv'
    BY <1>6 DEF find_nothing, HeldInv, IteratorsOK
  <1> QED BY <1>1, <1>2, <1>3, <1>4, <1>5, <1>6 DEF Sessions

LEMMA ListingHeld ==
    ASSUME HeldInv, NEW s \in Slot \cup {End}, Listing(s)
    PROVE  /\ held' \in [Proc -> half_way] /\ IteratorsOK'
           /\ held'[Maintenance] = [op |-> "list", s |-> s, id |-> NoId]
  <1> DEFINE h == [op |-> "list", s |-> s, id |-> NoId]
  <1>1. h \in half_way /\ h.op = "list"
    BY DEF half_way
  <1>2. held' = [held EXCEPT ![Maintenance] = h]
    BY DEF Listing
  <1> HIDE DEF h
  <1>3. held' \in [Proc -> half_way] /\ IteratorsOK'
    BY <1>1, <1>2, ProcType, HoldsHeld
  <1>4. held'[Maintenance] = h
    BY <1>2, ProcType DEF HeldInv
  <1> QED BY <1>3, <1>4 DEF h

LEMMA FirstType == ASSUME MapInv PROVE IdFirst(map) \in map \cup {End}
  BY IdFirstProperties

LEMMA FollowingType == ASSUME MapInv, NEW s \in Slot PROVE Following(s) \subseteq map \cup {End}
  <1>1. {t \in map : node[t].id > node[s].id} \in SUBSET map
    OBVIOUS
  <1> QED BY <1>1, IdFirstProperties DEF Following, After

LEMMA MaintenanceHeld ==
    ASSUME MapInv, HeldInv, list_begin \/ list_next \/ list_dies \/ remove_files
    PROVE  HeldInv'
  <1>0. map \subseteq Slot
    BY IndexOKElim DEF MapInv
  <1>1. CASE list_begin
    <2>1. Listing(IdFirst(map)) /\ UNCHANGED <<lost, list, files>>
      BY <1>1 DEF list_begin
    <2> QED BY <1>0, <2>1, FirstType, ListingHeld DEF HeldInv
  <1>2. CASE list_next
    <2> DEFINE s == held[Maintenance].s
    <2>1. s \in Slot /\ list' = list \cup {node[s].id} /\ UNCHANGED <<lost, files>>
      BY <1>2 DEF list_next
    <2>2. PICK t \in Following(s) : Listing(t)
      BY <1>2 DEF list_next
    <2>3. t \in Slot \cup {End}
      BY <1>0, <2>1, <2>2, FollowingType
    <2>4. node[s].id \in Id \cup {NoId}
      BY <2>1 DEF MapInv, IndexOK, element
    <2>5. held' \in [Proc -> half_way] /\ IteratorsOK'
      BY <2>2, <2>3, ListingHeld
    <2> QED BY <2>1, <2>4, <2>5 DEF HeldInv
  <1>3. CASE list_dies
    <2>1. Ends(Maintenance) /\ UNCHANGED <<lost, list, files>>
      BY <1>3 DEF list_dies
    <2> QED BY <2>1, ProcType, EndsHeld DEF HeldInv
  <1>4. CASE remove_files
    <2>1. /\ held' = [held EXCEPT ![Maintenance] = Nothing]
          /\ files' = files \cap list /\ UNCHANGED <<lost, list>>
      BY <1>4 DEF remove_files
    <2> QED BY <2>1, ProcType, HoldsHeld, NothingType DEF HeldInv
  <1> QED BY <1>1, <1>2, <1>3, <1>4

-----------------------------------------------------------------------------
(* The whole.                                                              *)

LEMMA CacheInvParts ==
    CacheInv <=> MapInv /\ HeldInv /\ since \subseteq Id /\ answer \in result /\ alone \in BOOLEAN
  BY DEF CacheInv, CacheTypeOK, MapInv, IndexOK, HeldInv

LEMMA CacheInitInv == CacheInit => CacheInv
  <1> SUFFICES ASSUME CacheInit PROVE CacheInv
    OBVIOUS
  <1>1. index = <<>> /\ map = {}
    BY DEF CacheInit, map, Range
  <1>2. index \in Seq(Slot) /\ IsInjective(index) /\ IndexInOrder
    BY <1>1 DEF IsInjective, IndexInOrder
  <1>3. node \in [Slot -> element] /\ \A s \in Slot : node[s].expiration_time = 0
    BY CacheAssumption DEF CacheInit, element
  <1>4. now = 0 /\ now \in 0..MaxTime /\ TimesOK
    BY <1>3, CacheAssumption DEF CacheInit, TimesOK
  <1>5. MapInv
    BY <1>1, <1>2, <1>3, <1>4 DEF CacheInit, MapInv, IndexOK, Open, OneSessionPerRemote
  <1>6. held \in [Proc -> half_way] /\ IteratorsOK
    BY NothingType DEF CacheInit, IteratorsOK
  <1>7. HeldInv /\ since \subseteq Id /\ answer \in result /\ alone \in BOOLEAN
    BY <1>6 DEF CacheInit, HeldInv, Silent, result
  <1> QED BY <1>5, <1>7, CacheInvParts

(* What a call returns is of a session that it was given or that it found. *)
LEMMA AnswerType ==
    ASSUME MapInv, HeldInv, CacheNext
    PROVE  answer' \in result
  <1>1. ASSUME Quiet PROVE answer' \in result
    BY <1>1 DEF Quiet, Silent, result
  <1>2. ASSUME NEW i \in Id \cup {NoId}, NEW yes \in BOOLEAN, Returns(i, yes)
        PROVE  answer' \in result
    BY <1>2 DEF Returns, result
  <1>3. ASSUME NEW i \in Id, add(Broker, i) \/ add_fails(Broker, i) \/ remove_by_id(Broker, i)
        PROVE  answer' \in result
    <2>1. \E yes \in BOOLEAN : Returns(i, yes)
      BY <1>3 DEF add, add_fails, remove_by_id
    <2> QED BY <1>2, <2>1
  <1>4. ASSUME NEW p \in Proc, update(p)
        PROVE  answer' \in result
    <2>1. held[p].s \in Slot
      BY <1>4 DEF update, Half, HeldInv, IteratorsOK
    <2>2. node[held[p].s].id \in Id \cup {NoId}
      BY <2>1 DEF MapInv, IndexOK, element
    <2> QED BY <1>1, <1>2, <1>4, <2>2 DEF update, Damages, Dies
  <1>5. ASSUME NEW p, NEW i \in Id, find_nothing(p, i)
        PROVE  answer' \in result
    BY <1>2, <1>5 DEF find_nothing
  <1>6. CASE Sessions
    BY <1>1, <1>3, <1>4, <1>5, <1>6, ProcType
       DEF Sessions, find, clean_find, clean_erase, Cleaned, Dies
  <1>7. CASE list_begin \/ list_next \/ list_dies \/ remove_files \/ Tick
    BY <1>1, <1>7 DEF list_begin, list_next, list_dies, remove_files, Tick
  <1> QED BY <1>6, <1>7 DEF CacheNext

LEMMA CacheNextInv == CacheInv /\ [CacheNext]_cacheVars => CacheInv'
  <1> SUFFICES ASSUME CacheInv, [CacheNext]_cacheVars PROVE CacheInv'
    OBVIOUS
  <1>1. MapInv /\ HeldInv /\ since \subseteq Id /\ answer \in result /\ alone \in BOOLEAN
    BY CacheInvParts
  <1>2. ASSUME MapInv', HeldInv', since' \subseteq Id, answer' \in result, alone' \in BOOLEAN
        PROVE  CacheInv'
    BY <1>2 DEF CacheInv, CacheTypeOK, MapInv, IndexOK, HeldInv
  <1>3. CASE UNCHANGED cacheVars
    <2>1. UNCHANGED <<index, node, added, now, held, lost, list, files, answer, since, alone>>
      BY <1>3 DEF cacheVars
    <2>2. HeldInv'
      BY <1>1, <2>1 DEF HeldInv, IteratorsOK
    <2> QED BY <1>1, <1>2, <2>1, <2>2, SameMap
  <1>4. CASE CacheNext
    <2>1. alone' \in BOOLEAN
      BY <1>1, <1>4 DEF CacheNext
    <2>2. since' \subseteq Id /\ answer' \in result
      BY <1>1, <1>4, AnswerType DEF CacheNext, MapInv
    <2>3. CASE Sessions
      <3>1. ASSUME NEW i \in Id, add(Broker, i)
            PROVE  MapInv'
        BY <1>1, <3>1, AddMap
      <3>2. ASSUME NEW i \in Id, add_fails(Broker, i) \/ remove_by_id(Broker, i)
            PROVE  MapInv'
        BY <1>1, <3>2, EraseMap
      <3>3. ASSUME NEW p \in {Broker} \cup Worker, update(p)
            PROVE  MapInv'
        BY <1>1, <3>3, ProcType, UpdateMap DEF HeldInv
      <3>4. ASSUME NEW p \in {Broker} \cup Worker, NEW s \in Slot, find(p, s)
            PROVE  MapInv'
        BY <1>1, <3>4, SameMap DEF find
      <3>5. ASSUME clean_find PROVE MapInv'
        BY <1>1, <3>5, SameMap DEF clean_find
      <3>6. ASSUME clean_erase PROVE MapInv'
        BY <1>1, <3>6, CleanMap
      <3>7. ASSUME NEW p, NEW i, find_nothing(p, i) PROVE MapInv'
        BY <1>1, <3>7, SameMap DEF find_nothing
      <3>8. MapInv'
        BY <2>3, <3>1, <3>2, <3>3, <3>4, <3>5, <3>6, <3>7 DEF Sessions
      <3> QED BY <1>1, <1>2, <2>1, <2>2, <2>3, <3>8, SessionsHeld
    <2>4. CASE list_begin \/ list_next \/ list_dies \/ remove_files
      <3>1. UNCHANGED <<index, node, added, now>>
        BY <2>4 DEF list_begin, list_next, list_dies, remove_files
      <3> QED BY <1>1, <1>2, <2>1, <2>2, <2>4, <3>1, SameMap, MaintenanceHeld
    <2>5. CASE Tick
      <3>1. UNCHANGED <<held, lost, list, files>>
        BY <2>5 DEF Tick
      <3>2. HeldInv'
        BY <1>1, <3>1 DEF HeldInv, IteratorsOK
      <3> QED BY <1>1, <1>2, <2>1, <2>2, <2>5, <3>2, TickMap
    <2> QED BY <1>4, <2>3, <2>4, <2>5 DEF CacheNext
  <1> QED BY <1>3, <1>4

(* However the processes overlap, the invariant holds.                     *)
THEOREM CacheInvariance == CacheSpec => []CacheInv
  BY CacheInitInv, CacheNextInv, PTL DEF CacheSpec

(* The index holds nodes, each once, and the times that a node, the clock  *)
(* and the processes hold stay in reach.                                   *)
THEOREM CacheTypeCorrect == CacheSpec => []CacheTypeOK
  BY CacheInvariance, PTL DEF CacheInv

(* The index by expiration is in order in every state, as the binary       *)
(* searches of clean and of insert suppose.                                *)
THEOREM IndexStaysInOrder == CacheSpec => []IndexInOrder
  BY CacheInvariance, PTL DEF CacheInv

-----------------------------------------------------------------------------
(* A use never shortens the life of an entry: whatever is written into a   *)
(* node is the time a use of now gives.                                    *)

LEMMA NodeStep ==
    ASSUME CacheInv, [CacheNext]_cacheVars, NEW t \in Slot
    PROVE  node'[t] = node[t] \/ node'[t].expiration_time = now + IdleTime
  <1>1. node \in [Slot -> element] /\ node[t] \in element
    BY DEF CacheInv, CacheTypeOK
  <1>2. CASE UNCHANGED node
    BY <1>2
  <1>3. ASSUME NEW i \in Id, add(Broker, i)
        PROVE  node'[t] = node[t] \/ node'[t].expiration_time = now + IdleTime
    <2>1. PICK s : node' = [node EXCEPT ![s] = [id |-> i, expiration_time |-> now + IdleTime]]
      BY <1>3 DEF add, Inserts
    <2>2. CASE s = t
      <3>1. node'[t] = [id |-> i, expiration_time |-> now + IdleTime]
        BY <1>1, <2>1, <2>2
      <3> QED BY <3>1
    <2>3. CASE s # t
      BY <1>1, <2>1, <2>3
    <2> QED BY <2>2, <2>3
  <1>4. ASSUME NEW s, prolong(s)
        PROVE  node'[t] = node[t] \/ node'[t].expiration_time = now + IdleTime
    <2> DEFINE time == now + IdleTime
    <2>1. node' = [node EXCEPT ![s].expiration_time = time]
      BY <1>4 DEF prolong
    <2> HIDE DEF time
    <2>2. CASE s = t
      <3>1. node'[t] = [node[t] EXCEPT !.expiration_time = time]
        BY <1>1, <2>1, <2>2
      <3> QED BY <1>1, <3>1 DEF time, element
    <2>3. CASE s # t
      BY <1>1, <2>1, <2>3
    <2> QED BY <2>2, <2>3
  <1>5. ASSUME NEW p, update(p)
        PROVE  node'[t] = node[t] \/ node'[t].expiration_time = now + IdleTime
    BY <1>2, <1>4, <1>5 DEF update, Damages, Dies
  <1>6. UNCHANGED cacheVars => UNCHANGED node
    BY DEF cacheVars
  <1> QED BY <1>2, <1>3, <1>5, <1>6
        DEF CacheNext, Sessions, add_fails, remove_by_id, find, find_nothing, clean_find, clean_erase, Cleaned,
            Dies, list_begin, list_next, list_dies, remove_files, Tick

(* However the processes overlap, and whatever becomes of the node between *)
(* the lookup and the use, an entry that stays never expires sooner.       *)
THEOREM LivesAreNotShortened == CacheSpec => UseOnlyProlongs
  <1>1. ASSUME CacheInv, [CacheNext]_cacheVars
        PROVE  \A s \in map \cap map' :
                  node'[s].id = node[s].id => node'[s].expiration_time >= node[s].expiration_time
    <2>1. MapInv
      BY <1>1, CacheInvParts
    <2>2. ASSUME NEW s \in map
          PROVE  node'[s].expiration_time >= node[s].expiration_time
      <3>1. s \in Slot /\ node[s] \in element
        BY <2>1, IndexOKElim DEF MapInv
      <3>2. node[s].expiration_time \in Int /\ node[s].expiration_time <= now + IdleTime
        BY <2>1, <3>1, CacheAssumption DEF MapInv, TimesOK, element
      <3>3. now + IdleTime \in Int
        BY <2>1, CacheAssumption DEF MapInv
      <3> QED BY <1>1, <3>1, <3>2, <3>3, NodeStep
    <2> QED BY <2>2
  <1> QED BY <1>1, CacheInvariance, PTL DEF CacheSpec, UseOnlyProlongs

-----------------------------------------------------------------------------
(* As long as the processes do not get in each other's way                 *)

AloneOK == AloneInv /\ since \subseteq Open

(* What a step does to what maintenance is half way through.               *)
LEMMA MaintenanceSteps ==
    ASSUME CacheInv, CacheNext
    PROVE  \/ list_begin \/ list_next \/ clean_find
           \/ held'[Maintenance] = held[Maintenance] /\ list' = list
           \/ held'[Maintenance].op \notin {"clean", "list"}
           \/ held'[Maintenance].op = "list" /\ held'[Maintenance].s = NoSlot
  <1> USE ProcType
  <1>1. HeldInv
    BY CacheInvParts
  <1>2. Maintenance \notin {Broker} \cup Worker
    BY CacheAssumption
  <1>3. ASSUME NEW p \in Proc, Ends(p)
        PROVE  held'[Maintenance] = held[Maintenance] \/ held'[Maintenance].op = "dead"
    BY <1>3, NothingType DEF Ends
  <1>4. ASSUME NEW p \in {Broker} \cup Worker, update(p)
        PROVE  \/ held'[Maintenance] = held[Maintenance] /\ list' = list
               \/ held'[Maintenance].op \notin {"clean", "list"}
    <2>1. CASE Done(p)
      <3>1. held'[Maintenance] = held[Maintenance] /\ list' = list
        BY <1>1, <1>2, <2>1 DEF Done, HeldInv
      <3> QED BY <3>1
    <2>2. CASE Dies(p)
      BY <1>3, <2>2 DEF Dies
    <2>3. CASE Damages(p)
      <3>1. held'[Maintenance] = held[Maintenance] /\ list' = list
        BY <1>1, <1>2, <2>3 DEF Damages, HeldInv
      <3> QED BY <3>1
    <2> QED BY <1>4, <2>1, <2>2, <2>3 DEF update
  <1>5. ASSUME NEW p \in {Broker} \cup Worker, NEW s \in Slot, find(p, s)
        PROVE  held'[Maintenance] = held[Maintenance] /\ list' = list
    BY <1>1, <1>2, <1>5 DEF find, HeldInv
  <1>6. ASSUME clean_erase
        PROVE  \/ held'[Maintenance] = held[Maintenance] /\ list' = list
               \/ held'[Maintenance].op \notin {"clean", "list"}
               \/ held'[Maintenance].op = "list" /\ held'[Maintenance].s = NoSlot
    <2>1. CASE Cleaned
      <3>1. held'[Maintenance] = [Nothing EXCEPT !.op = "list"]
        BY <1>1, <2>1 DEF Cleaned, HeldInv
      <3> QED BY <3>1, NothingType
    <2>2. CASE Dies(Maintenance)
      BY <1>3, <2>2 DEF Dies
    <2> QED BY <1>6, <2>1, <2>2 DEF clean_erase
  <1>7. ASSUME list_dies
        PROVE  \/ held'[Maintenance] = held[Maintenance] /\ list' = list
               \/ held'[Maintenance].op \notin {"clean", "list"}
    BY <1>3, <1>7 DEF list_dies
  <1>8. ASSUME remove_files
        PROVE  held'[Maintenance].op \notin {"clean", "list"}
    <2>1. held'[Maintenance] = Nothing
      BY <1>1, <1>8 DEF remove_files, HeldInv
    <2> QED BY <2>1, NothingType
  <1>9. ASSUME NEW i \in Id, add(Broker, i) \/ add_fails(Broker, i) \/ remove_by_id(Broker, i)
        PROVE  held'[Maintenance] = held[Maintenance] /\ list' = list
    BY <1>9 DEF add, add_fails, remove_by_id
  <1>10. ASSUME Tick
         PROVE  held'[Maintenance] = held[Maintenance] /\ list' = list
    BY <1>10 DEF Tick
  <1>11. ASSUME NEW p, NEW i, find_nothing(p, i)
         PROVE  held'[Maintenance] = held[Maintenance] /\ list' = list
    BY <1>11 DEF find_nothing
  <1> QED BY <1>4, <1>5, <1>6, <1>7, <1>8, <1>9, <1>10, <1>11 DEF CacheNext, Sessions

(* An iterator that a step leaves behind is the one of before, or to a     *)
(* node of the map.                                                        *)
LEMMA IteratorSteps ==
    ASSUME CacheInv, IteratorsAreValid, CacheNext, NEW p \in Proc,
           held'[p].op \in {"update", "list"}, held'[p].s \in Slot
    PROVE  held'[p] = held[p] \/ held'[p].s \in map'
  <1> USE ProcType
  <1>1. MapInv /\ HeldInv
    BY CacheInvParts
  <1>2. ASSUME NEW q \in Proc, Ends(q)
        PROVE  held'[p] = held[p]
    BY <1>2, NothingType DEF Ends
  <1>3. ASSUME NEW q \in Proc, NEW h, h.op \notin {"update", "list"} \/ h.s \notin Slot,
               held' = [held EXCEPT ![q] = h]
        PROVE  held'[p] = held[p]
    BY <1>1, <1>3 DEF HeldInv
  <1>4. CASE UNCHANGED held
    BY <1>4
  <1>5. ASSUME NEW q \in Proc, update(q)
        PROVE  held'[p] = held[p]
    <2>1. CASE Done(q)
      BY <1>3, <2>1, NothingType DEF Done
    <2>2. CASE Dies(q)
      BY <1>2, <2>2 DEF Dies
    <2>3. CASE Damages(q)
      BY <1>3, <2>3, NothingType DEF Damages
    <2> QED BY <1>5, <2>1, <2>2, <2>3 DEF update
  <1>6. ASSUME NEW q \in Proc, NEW s \in Slot, find(q, s)
        PROVE  held'[p] = held[p] \/ held'[p].s \in map'
    <2>1. s \in map /\ map' = map
      BY <1>6 DEF find, map
    <2>2. held' = [held EXCEPT ![q] = [op |-> "update", s |-> s, id |-> node[s].id]]
      BY <1>6 DEF find
    <2> QED BY <1>1, <2>1, <2>2 DEF HeldInv
  <1>7. ASSUME clean_find
        PROVE  held'[p] = held[p]
    BY <1>3, <1>7 DEF clean_find
  <1>8. ASSUME clean_erase
        PROVE  held'[p] = held[p]
    <2>1. CASE Cleaned
      BY <1>3, <2>1, NothingType, CacheAssumption DEF Cleaned
    <2>2. CASE Dies(Maintenance)
      BY <1>2, <2>2 DEF Dies
    <2> QED BY <1>8, <2>1, <2>2 DEF clean_erase
  <1>9. ASSUME list_begin \/ list_next
        PROVE  held'[p] = held[p] \/ held'[p].s \in map'
    <2>1. map' = map
      BY <1>9 DEF list_begin, list_next, map
    <2>2. \E t \in map \cup {End} : Listing(t)
      BY <1>1, <1>9, FirstType, FollowingType DEF list_begin, list_next
    <2>3. PICK t \in map \cup {End} : held' = [held EXCEPT ![Maintenance] = [op |-> "list", s |-> t, id |-> NoId]]
      BY <2>2 DEF Listing
    <2>4. CASE p = Maintenance
      <3>1. held'[p].s = t
        BY <1>1, <2>3, <2>4 DEF HeldInv
      <3> QED BY <2>1, <3>1, CacheAssumption
    <2>5. CASE p # Maintenance
      BY <1>1, <2>3, <2>5 DEF HeldInv
    <2> QED BY <2>4, <2>5
  <1>10. ASSUME list_dies
         PROVE  held'[p] = held[p]
    BY <1>2, <1>10 DEF list_dies
  <1>11. ASSUME remove_files
         PROVE  held'[p] = held[p]
    BY <1>3, <1>11, NothingType DEF remove_files
  <1>12. ASSUME NEW i \in Id, add(Broker, i) \/ add_fails(Broker, i) \/ remove_by_id(Broker, i)
         PROVE  UNCHANGED held
    BY <1>12 DEF add, add_fails, remove_by_id
  <1>13. ASSUME NEW q, NEW i, find_nothing(q, i)
         PROVE  UNCHANGED held
    BY <1>13 DEF find_nothing
  <1> QED BY <1>4, <1>5, <1>6, <1>7, <1>8, <1>9, <1>10, <1>11, <1>12, <1>13
        DEF CacheNext, Sessions, Tick

LEMMA IteratorsStayValid ==
    ASSUME CacheInv, IteratorsAreValid, CacheNext, Alone
    PROVE  IteratorsAreValid'
  <1>1. ASSUME NEW p \in Proc, held'[p].op \in {"update", "list"}, held'[p].s \in Slot
        PROVE  held'[p].s \in map'
    <2>1. CASE held'[p] = held[p]
      BY <1>1, <2>1 DEF IteratorsAreValid, Alone
    <2>2. CASE held'[p].s \in map'
      BY <2>2
    <2> QED BY <1>1, <2>1, <2>2, IteratorSteps
  <1> QED BY <1>1 DEF IteratorsAreValid

LEMMA CleanStillTakesExpired ==
    ASSUME CacheInv, CleanTakesExpired, CacheNext, Alone
    PROVE  CleanTakesExpired'
  <1>1. MapInv /\ HeldInv
    BY CacheInvParts
  <1>2. CASE held'[Maintenance].op # "clean"
    BY <1>2 DEF CleanTakesExpired
  <1>3. ASSUME clean_find
        PROVE  CleanTakesExpired'
    <2>1. held'[Maintenance] = [op |-> "clean", s |-> lower_bound, id |-> NoId]
      BY <1>1, <1>3, ProcType DEF clean_find, HeldInv
    <2>2. UNCHANGED <<index, node, now>>
      BY <1>3 DEF clean_find
    <2>3. map' = map
      BY <2>2 DEF map
    <2> QED BY <1>1, <2>1, <2>2, <2>3, LowerBoundProperties DEF CleanTakesExpired
  <1>4. CASE held'[Maintenance] = held[Maintenance] /\ held'[Maintenance].op = "clean"
    <2>1. UNCHANGED <<index, node>>
      BY <1>4 DEF Alone
    <2>2. now' = now \/ now' = now + 1
      BY DEF CacheNext, Sessions, add, add_fails, remove_by_id, update, Done, Damages, Dies, find,
             find_nothing, clean_find, clean_erase, Cleaned, list_begin, list_next, list_dies, remove_files, Tick
    <2>3. index \in Seq(Slot) /\ node \in [Slot -> element]
      BY <1>1 DEF MapInv, IndexOK
    <2>4. \A k \in 1..Len(index) : node[index[k]].expiration_time \in Int
      BY <2>3, ElementOfSeq, CacheAssumption DEF element
    <2>5. now \in Int
      BY <1>1, CacheAssumption DEF MapInv
    <2>6. /\ held[Maintenance].s \in map \cup {End} /\ map' = map
          /\ \A k \in 1..Len(index) :
                \/ node[index[k]].expiration_time < now
                \/ \E j \in 1..k : index[j] = held[Maintenance].s
      BY <1>4, <2>1 DEF CleanTakesExpired, map
    <2>7. \A k \in 1..Len(index) :
             \/ node[index[k]].expiration_time < now'
             \/ \E j \in 1..k : index[j] = held'[Maintenance].s
      BY <1>4, <2>2, <2>4, <2>5, <2>6
    <2> QED BY <1>4, <2>1, <2>6, <2>7 DEF CleanTakesExpired
  <1>5. ASSUME list_begin \/ list_next
        PROVE  held'[Maintenance].op = "list"
    <2>1. \E t \in map \cup {End} : Listing(t)
      BY <1>1, <1>5, FirstType, FollowingType DEF list_begin, list_next
    <2> QED BY <1>1, <2>1, ProcType DEF Listing, HeldInv
  <1> QED BY <1>2, <1>3, <1>4, <1>5, MaintenanceSteps

LEMMA SinceStaysOpen ==
    ASSUME since \subseteq Open, CacheNext
    PROVE  since' \subseteq Open'
  <1>1. CASE list_begin /\ since' = Open
    <2>1. Open' = Open
      BY <1>1 DEF list_begin, Open, map
    <2> QED BY <1>1, <2>1
  <1> QED BY <1>1 DEF CacheNext

LEMMA ListStaysComplete ==
    ASSUME CacheInv, IteratorsAreValid, ListIsComplete, since \subseteq Open, CacheNext, Alone
    PROVE  ListIsComplete'
  <1> USE ProcType
  <1>1. MapInv /\ HeldInv
    BY CacheInvParts
  <1>2. map \subseteq Slot /\ \A s \in map : node[s].id \in Nat
    <2>1. \A s \in map : node[s].id \in Id
      BY <1>1 DEF MapInv, Open
    <2> QED BY <1>1, <2>1, IndexOKElim, CacheAssumption DEF MapInv
  <1>3. CASE held'[Maintenance].op # "list" \/ held'[Maintenance].s = NoSlot
    BY <1>3 DEF ListIsComplete
  <1>4. ASSUME list_begin
        PROVE  ListIsComplete'
    <2> DEFINE s == IdFirst(map)
    <2>1. UNCHANGED <<index, node>> /\ map' = map
      BY <1>4 DEF list_begin, map
    <2>2. /\ map = {} => s = End
          /\ map # {} => s \in map /\ \A t \in map : node[s].id <= node[t].id
      BY <1>1, IdFirstProperties
    <2>3. held'[Maintenance].s = s
      BY <1>4, <1>1 DEF list_begin, Listing, HeldInv
    <2> HIDE DEF s
    <2> QED BY <1>2, <2>1, <2>2, <2>3 DEF ListIsComplete
  <1>5. ASSUME list_next
        PROVE  ListIsComplete'
    <2> DEFINE s == held[Maintenance].s
               t == After(s)
               ahead == {u \in map : node[u].id > node[s].id}
    <2>1. /\ held[Maintenance].op = "list" /\ s \in Slot /\ list' = list \cup {node[s].id}
          /\ UNCHANGED <<index, node>> /\ map' = map /\ Open' = Open
      BY <1>5 DEF list_next, map, Open
    <2>2. s \in map /\ s # NoSlot
      BY <2>1, CacheAssumption DEF IteratorsAreValid
    <2>3. Listing(t)
      BY <1>5, <2>2 DEF list_next, Following
    <2>4. held'[Maintenance].s = t
      BY <1>1, <2>3 DEF Listing, HeldInv
    <2>5. since' \subseteq since
      <3>1. ~list_begin
        BY <2>1, <2>2, NothingType DEF list_begin
      <3> QED BY <3>1 DEF CacheNext
    <2>6. /\ ahead = {} => t = End
          /\ ahead # {} => t \in ahead /\ \A u \in ahead : node[t].id <= node[u].id
      BY <1>1, IdFirstProperties DEF After
    <2>7. \A u \in map : \/ node[u].id \in list \/ node[u].id \notin since
                         \/ node[s].id <= node[u].id
      BY <2>1, <2>2 DEF ListIsComplete
    <2>8. \A u \in map : u \in ahead <=> node[u].id > node[s].id
      OBVIOUS
    <2> HIDE DEF s, t, ahead
    <2>9. ASSUME NEW u \in map, node[u].id \notin list', node[u].id \in since'
          PROVE  t \in Slot /\ node[t].id <= node[u].id
      <3>1. node[u].id # node[s].id /\ node[u].id \notin list /\ node[u].id \in since
        BY <2>1, <2>5, <2>9
      <3>2. node[s].id <= node[u].id
        BY <2>7, <3>1
      <3>3. node[u].id > node[s].id
        BY <1>2, <2>2, <3>1, <3>2
      <3>4. u \in ahead
        BY <2>8, <3>3
      <3> QED BY <1>2, <2>6, <3>4 DEF ahead
    <2> QED BY <2>1, <2>4, <2>9 DEF ListIsComplete
  <1>6. CASE /\ held'[Maintenance] = held[Maintenance] /\ list' = list /\ ~list_begin
             /\ held[Maintenance].op = "list" /\ held[Maintenance].s # NoSlot
    <2> DEFINE s == held[Maintenance].s
    <2>1. since' \subseteq since
      BY <1>6 DEF CacheNext
    <2>2. s \in Slot => node'[s].id = node[s].id
      BY <1>6 DEF IteratorsAreValid, Alone
    <2> HIDE DEF s
    <2>3. ASSUME NEW u \in map', node'[u].id \notin list', node'[u].id \in since'
          PROVE  s \in Slot /\ node'[s].id <= node'[u].id
      <3>1. PICK v \in map : node[v].id = node'[u].id
        BY <2>1, <2>3 DEF Open
      <3>2. node[v].id \notin list /\ node[v].id \in since
        BY <1>6, <2>1, <2>3, <3>1
      <3>3. s \in Slot /\ node[s].id <= node[v].id
        BY <1>6, <3>2 DEF ListIsComplete, s
      <3> QED BY <2>2, <3>1, <3>3
    <2> QED BY <1>6, <2>3 DEF ListIsComplete, s
  <1>7. ASSUME clean_find
        PROVE  held'[Maintenance].op # "list"
    BY <1>1, <1>7 DEF clean_find, HeldInv
  <1> QED BY <1>3, <1>4, <1>5, <1>6, <1>7, MaintenanceSteps

LEMMA AloneStep ==
    ASSUME CacheInv, AloneOK, [CacheNext]_cacheVars
    PROVE  AloneOK'
  <1>1. CASE UNCHANGED cacheVars
    BY <1>1 DEF cacheVars, AloneOK, AloneInv, IteratorsAreValid, CleanTakesExpired, ListIsComplete,
                map, Open
  <1>2. CASE CacheNext
    <2>1. since' \subseteq Open'
      BY <1>2, SinceStaysOpen DEF AloneOK
    <2>2. ASSUME alone'
          PROVE  IteratorsAreValid' /\ CleanTakesExpired' /\ ListIsComplete'
      <3>1. alone /\ Alone
        BY <1>2, <2>2 DEF CacheNext
      <3>2. IteratorsAreValid /\ CleanTakesExpired /\ ListIsComplete /\ since \subseteq Open
        BY <3>1 DEF AloneOK, AloneInv
      <3> QED BY <1>2, <3>1, <3>2, IteratorsStayValid, CleanStillTakesExpired, ListStaysComplete
    <2> QED BY <2>1, <2>2 DEF AloneOK, AloneInv
  <1> QED BY <1>1, <1>2

(* As long as no other process erased an entry under the iterator of an    *)
(* operation, an iterator is to an entry, clean takes only what has        *)
(* expired, and get_sessions_id_list misses none of the sessions that are  *)
(* there all the time since it began.                                      *)
THEOREM AloneInvariance == CacheSpec => [](CacheInv /\ AloneOK)
  <1>1. CacheInit => AloneOK
    <2>1. Nothing.op = "none"
      BY NothingType
    <2> QED BY <2>1, ProcType DEF CacheInit, AloneOK, AloneInv, IteratorsAreValid,
               CleanTakesExpired, ListIsComplete
  <1> QED BY <1>1, CacheInitInv, CacheNextInv, AloneStep, PTL DEF CacheSpec

(* Maintenance removes no files of a session that was in the cache from    *)
(* before it began to list, whatever was opened, used or closed beside it, *)
(* as long as nothing was erased under its iterator.                       *)
THEOREM FilesStay == CacheSpec => FilesOfOpenSessionsStay
  <1>1. ASSUME CacheInv, AloneOK, [CacheNext]_cacheVars, alone'
        PROVE  files \cap since \cap Open \subseteq files'
    <2>1. CASE UNCHANGED files
      BY <2>1
    <2>2. CASE CacheNext /\ remove_files
      <3>1. alone /\ ListIsComplete
        BY <1>1, <2>2 DEF CacheNext, AloneOK, AloneInv
      <3>2. /\ held[Maintenance] = [op |-> "list", s |-> End, id |-> NoId]
            /\ files' = files \cap list
        BY <2>2 DEF remove_files
      <3>3. held[Maintenance].op = "list" /\ held[Maintenance].s = End
        BY <3>2
      <3>4. \A u \in map : node[u].id \in list \/ node[u].id \notin since
        BY <3>1, <3>3, CacheAssumption DEF ListIsComplete
      <3> QED BY <3>2, <3>4 DEF Open
    <2> QED BY <1>1, <2>1, <2>2
        DEF CacheNext, cacheVars, Sessions, add, add_fails, remove_by_id, update, Done, Damages, Dies,
            find, find_nothing, clean_find, clean_erase, Cleaned, list_begin, list_next, list_dies, Tick
  <1> QED BY <1>1, AloneInvariance, PTL DEF CacheSpec, FilesOfOpenSessionsStay

-----------------------------------------------------------------------------
(* The refinement: as long as they do not get in each other's way, each    *)
(* operation, whatever sections it has, is one of SessionStore, in what it *)
(* does and in what it returns.                                            *)

Entry(n) == [id |-> n.id, idle_until |-> n.expiration_time]

(* The nodes whose sessions are in the store.                              *)
Kept == map \ Condemned

Content == {[id |-> node[s].id, idle_until |-> node[s].expiration_time] : s \in map \ Condemned}

LEMMA ContentIs == Content = {Entry(node[s]) : s \in Kept}
  BY DEF Content, Entry, Kept

LEMMA EntryIs == \A n : Entry(n).id = n.id /\ Entry(n).idle_until = n.expiration_time
  BY DEF Entry

(* What a node of the map gets anew, beside the other nodes, is what its   *)
(* session gets anew in the store, beside the sessions of other remotes.   *)
LEMMA ContentOfUse ==
    ASSUME MapInv, NEW i \in Id, NEW s \in Slot,
           Kept' = (Kept \ OfRemote(RemoteOf[i])) \cup {s},
           s \notin map \/ s \in OfRemote(RemoteOf[i]),
           node'[s] = [id |-> i, expiration_time |-> now + IdleTime],
           \A t \in Slot \ {s} : node'[t] = node[t]
    PROVE  Content' = {x \in Content : RemoteOf[x.id] # RemoteOf[i]}
                      \cup {[id |-> i, idle_until |-> now + IdleTime]}
  <1> DEFINE new == [id |-> i, idle_until |-> now + IdleTime]
             others == {x \in Content : RemoteOf[x.id] # RemoteOf[i]}
  <1>1. Content' = {Entry(node'[t]) : t \in Kept'}
    BY DEF Content, Entry, Kept
  <1>2. node'[s].id = i /\ node'[s].expiration_time = now + IdleTime
    OBVIOUS
  <1>3. Entry(node'[s]) = new
    BY <1>2 DEF Entry
  <1>4. map \subseteq Slot /\ Kept \subseteq map
    BY IndexOKElim DEF MapInv, Kept
  <1> HIDE DEF new
  <1>5. ASSUME NEW t \in Kept \ OfRemote(RemoteOf[i])
        PROVE  node'[t] = node[t] /\ Entry(node[t]) \in others
    <2>1. t # s /\ t \in Slot
      BY <1>4, <1>5
    <2>2. RemoteOf[node[t].id] # RemoteOf[i]
      BY <1>4, <1>5 DEF OfRemote
    <2>3. Entry(node[t]) \in Content
      BY <1>5, ContentIs
    <2> QED BY <2>1, <2>2, <2>3, EntryIs
  <1>6. ASSUME NEW x \in others
        PROVE  \E t \in Kept \ OfRemote(RemoteOf[i]) : x = Entry(node[t])
    <2>1. PICK t \in Kept : x = Entry(node[t])
      BY <1>6, ContentIs
    <2>2. RemoteOf[node[t].id] # RemoteOf[i]
      BY <1>6, <2>1, EntryIs
    <2> QED BY <2>1, <2>2 DEF OfRemote
  <1> HIDE DEF others
  <1>7. ASSUME NEW x \in Content' PROVE x \in others \cup {new}
    <2>1. PICK t \in Kept' : x = Entry(node'[t])
      BY <1>1, <1>7
    <2>2. CASE t = s
      BY <1>3, <2>1, <2>2
    <2>3. CASE t # s
      BY <1>5, <2>1, <2>3
    <2> QED BY <2>2, <2>3
  <1>8. ASSUME NEW x \in others \cup {new} PROVE x \in Content'
    <2>1. CASE x = new
      <3>1. s \in Kept'
        OBVIOUS
      <3> QED BY <1>1, <1>3, <2>1, <3>1
    <2>2. CASE x \in others
      <3>1. PICK t \in Kept \ OfRemote(RemoteOf[i]) : x = Entry(node[t])
        BY <1>6, <2>2
      <3>2. t \in Kept' /\ x = Entry(node'[t])
        BY <1>5, <3>1
      <3> QED BY <1>1, <3>2
    <2> QED BY <2>1, <2>2
  <1>9. Content' = others \cup {new}
    BY <1>7, <1>8
  <1> QED BY <1>9 DEF new, others

(* Nodes that leave the map take their sessions with them.                 *)
LEMMA ContentOfErase ==
    ASSUME UNCHANGED node
    PROVE  /\ \A i : Kept' = Kept \ OfRemote(RemoteOf[i])
                     => Content' = {x \in Content : RemoteOf[x.id] # RemoteOf[i]}
           /\ \A i : Kept' = Kept \ WithId(i) => Content' = {x \in Content : x.id # i}
           /\ Kept' = Kept => Content' = Content
  <1>0. Kept \subseteq map
    BY DEF Kept
  <1>1. Content' = {Entry(node[s]) : s \in Kept'}
    BY DEF Content, Entry, Kept
  <1>2. ASSUME NEW i, Kept' = Kept \ OfRemote(RemoteOf[i])
        PROVE  Content' = {x \in Content : RemoteOf[x.id] # RemoteOf[i]}
    BY <1>0, <1>1, <1>2, ContentIs, EntryIs DEF OfRemote
  <1>3. ASSUME NEW i, Kept' = Kept \ WithId(i)
        PROVE  Content' = {x \in Content : x.id # i}
    BY <1>0, <1>1, <1>3, ContentIs, EntryIs DEF WithId
  <1>4. ASSUME Kept' = Kept
        PROVE  Content' = Content
    BY <1>1, <1>4, ContentIs
  <1> QED BY <1>2, <1>3, <1>4

(* A session is in the store if one of its nodes is.                       *)
LEMMA HasIs == \A i : Store!Has(i) <=> \E s \in Kept : node[s].id = i
  <1>1. \A i : Store!Has(i) <=> \E x \in Content : x.id = i
    BY DEF Store!Has, Content
  <1> QED BY <1>1, ContentIs, EntryIs

(* Outside of clean the store has what the map has, and what a step leaves *)
(* of the two sections of clean alone it leaves there.                     *)
LEMMA CondemnedNone == held[Maintenance].op # "clean" => Condemned = {} /\ Kept = map
  BY DEF Condemned, Kept

LEMMA CondemnedStays ==
    ASSUME Alone, held'[Maintenance] = held[Maintenance]
    PROVE  Condemned' = Condemned
  <1>1. CASE held[Maintenance].op = "clean"
    <2>1. UNCHANGED <<index, node>>
      BY <1>1 DEF Alone
    <2> QED BY <2>1 DEF Condemned, map
  <1>2. CASE held[Maintenance].op # "clean"
    BY <1>2 DEF Condemned
  <1> QED BY <1>1, <1>2

(* The operations, one by one.                                             *)
StoreStep == [Store!Next]_(Store!vars)

LEMMA PassStep ==
    ASSUME UNCHANGED <<node, map, Condemned>>, now' \in {now, now + 1}, Quiet
    PROVE  StoreStep
  <1>1. Content' = Content
    BY ContentOfErase DEF Kept
  <1>2. Store!Pass
    BY <1>1 DEF Store!Pass, Quiet, Silent, Store!Silent, Content
  <1> QED BY <1>2 DEF StoreStep, Store!Next

(* Nothing is added in the middle of a clean.                              *)
LEMMA AddsOutsideClean ==
    ASSUME CacheInv, Alone, NEW i \in Id, add(Broker, i) \/ add_fails(Broker, i)
    PROVE  /\ i \notin added /\ UNCHANGED <<now, held>>
           /\ held[Maintenance].op # "clean"
           /\ Kept = map /\ Kept' = map'
           /\ ~Store!Has(i)
  <1>1. i \notin added /\ added' = added \cup {i} /\ UNCHANGED <<now, held>>
    BY DEF add, add_fails
  <1>2. held[Maintenance].op # "clean"
    BY <1>1 DEF Alone
  <1>3. Kept = map /\ Kept' = map'
    BY <1>1, <1>2, CondemnedNone DEF Kept, Condemned
  <1>4. \A t \in map : node[t].id # i
    BY <1>1 DEF CacheInv, Open
  <1> QED BY <1>1, <1>2, <1>3, <1>4, HasIs

LEMMA AddStep ==
    ASSUME CacheInv, Alone, NEW i \in Id, add(Broker, i)
    PROVE  StoreStep
  <1> DEFINE old == OfRemote(RemoteOf[i])
  <1>0. MapInv
    BY CacheInvParts
  <1>1. PICK s \in (Slot \ map) \cup old : Inserts(Without(old), s, i)
    BY DEF add
  <1>2. \A t, u \in map \cap old : t = u
    BY <1>0, OldIsOne DEF MapInv
  <1>3. s \in Slot /\ (s \notin map \/ s \in old)
    BY <1>0, IndexOKElim DEF MapInv, OfRemote
  <1> HIDE DEF old
  <1>4. /\ map' = (map \ old) \cup {s}
        /\ node'[s] = [id |-> i, expiration_time |-> now + IdleTime]
        /\ \A t \in Slot \ {s} : node'[t] = node[t]
    BY <1>0, <1>1, <1>2, <1>3, AddEffect DEF MapInv
  <1>5. Kept = map /\ Kept' = map' /\ ~Store!Has(i) /\ now' = now
    BY AddsOutsideClean
  <1>6. Content' = {x \in Content : RemoteOf[x.id] # RemoteOf[i]}
                      \cup {[id |-> i, idle_until |-> now + IdleTime]}
    BY <1>0, <1>3, <1>4, <1>5, ContentOfUse DEF old
  <1>7. Returns(i, TRUE)
    BY DEF add
  <1>8. Store!Open(i)
    BY <1>5, <1>6, <1>7 DEF Store!Open, Store!Others, Store!InUse, Store!Tells, Returns, Content
  <1> QED BY <1>5, <1>8 DEF StoreStep, Store!Next

(* A segment without a free node holds as many sessions as it can.         *)
LEMMA FullStore ==
    ASSUME CacheInv, map = Slot, Kept = map
    PROVE  Cardinality(Content) = Cardinality(Slot)
  <1> DEFINE f == [s \in Slot |-> Entry(node[s])]
  <1>1. f \in [Slot -> Content]
    BY ContentIs
  <1>2. ASSUME NEW s \in Slot, NEW t \in Slot, f[s] = f[t]
        PROVE  s = t
    <2>1. node[s].id = node[t].id
      BY <1>2, EntryIs
    <2> QED BY <2>1 DEF CacheInv, OneSessionPerRemote
  <1>3. \A x \in Content : \E s \in Slot : f[s] = x
    BY ContentIs
  <1> HIDE DEF f
  <1>4. f \in Bijection(Slot, Content)
    BY <1>1, <1>2, <1>3 DEF Bijection, Injection, Surjection, IsInjective
  <1>5. ExistsBijection(Slot, Content)
    BY <1>4 DEF ExistsBijection
  <1> QED BY <1>5, FS_Bijection, CacheAssumption

LEMMA AddFailsStep ==
    ASSUME CacheInv, Alone, NEW i \in Id, add_fails(Broker, i)
    PROVE  StoreStep
  <1>0. MapInv
    BY CacheInvParts
  <1>1. /\ index' = Without(OfRemote(RemoteOf[i])) /\ map = Slot /\ UNCHANGED node
        /\ Returns(i, FALSE)
    BY DEF add_fails
  <1>2. \A t, u \in map \cap OfRemote(RemoteOf[i]) : t = u
    BY <1>0, OldIsOne DEF MapInv
  <1>3. map' = map \ OfRemote(RemoteOf[i])
    BY <1>0, <1>1, <1>2, EraseEffect DEF MapInv
  <1>4. Kept = map /\ Kept' = map' /\ ~Store!Has(i) /\ now' = now
    BY AddsOutsideClean
  <1>5. Content' = {x \in Content : RemoteOf[x.id] # RemoteOf[i]}
    BY <1>1, <1>3, <1>4, ContentOfErase
  <1>6. FillsSegment(Content)
    <2>1. Cardinality(Slot) \in Nat
      BY FS_CardinalityType, CacheAssumption
    <2> QED BY <1>1, <1>4, <2>1, FullStore DEF FillsSegment
  <1>7. Store!FailToOpen(i)
    BY <1>1, <1>4, <1>5, <1>6 DEF Store!FailToOpen, Store!Others, Store!Tells, Returns, Content
  <1> QED BY <1>4, <1>7 DEF StoreStep, Store!Next

LEMMA RemoveStep ==
    ASSUME CacheInv, Alone, NEW i \in Id, remove_by_id(Broker, i)
    PROVE  StoreStep
  <1>0. MapInv
    BY CacheInvParts
  <1>1. /\ index' = Without(WithId(i)) /\ UNCHANGED <<node, now, held>>
        /\ IF i \in Open THEN Returns(i, TRUE) ELSE Returns(i, FALSE)
    BY DEF remove_by_id
  <1>2. \A t, u \in map \cap WithId(i) : t = u
    BY <1>0, OldIsOne DEF MapInv
  <1>3. map' = map \ WithId(i)
    BY <1>0, <1>1, <1>2, EraseEffect DEF MapInv
  <1>4. Condemned' = Condemned
    BY <1>1, CondemnedStays
  <1>5. Kept' = Kept \ WithId(i)
    BY <1>3, <1>4 DEF Kept
  <1>6. Content' = {x \in Content : x.id # i}
    BY <1>1, <1>5, ContentOfErase
  <1>7. i \in Open <=> Store!Has(i)
    <2>1. CASE held[Maintenance].op = "clean"
      <3>1. map' = map
        BY <1>1, <2>1 DEF Alone, map
      <3>2. \A t \in map : node[t].id # i
        BY <1>3, <3>1 DEF WithId
      <3>3. i \notin Open
        BY <3>2 DEF Open
      <3>4. ~Store!Has(i)
        BY <3>2, HasIs DEF Kept
      <3> QED BY <3>3, <3>4
    <2>2. CASE held[Maintenance].op # "clean"
      <3>1. Kept = map
        BY <2>2, CondemnedNone
      <3> QED BY <3>1, HasIs DEF Open
    <2> QED BY <2>1, <2>2
  <1>8. Store!Close(i)
    BY <1>1, <1>6, <1>7 DEF Store!Close, Store!Tells, Returns, Content
  <1> QED BY <1>1, <1>8 DEF StoreStep, Store!Next

LEMMA FindNothingStep ==
    ASSUME CacheInv, Alone, NEW p, NEW i \in Id, find_nothing(p, i)
    PROVE  StoreStep
  <1>1. i \notin Open /\ UNCHANGED <<index, node, now, held>> /\ Returns(i, FALSE)
    BY DEF find_nothing
  <1>2. Kept' = Kept
    BY <1>1, CondemnedStays DEF Kept, map
  <1>3. Content' = Content
    BY <1>1, <1>2, ContentOfErase
  <1>4. ~Store!Has(i)
    BY <1>1, HasIs DEF Open, Kept
  <1>5. Store!Miss(i)
    BY <1>1, <1>3, <1>4 DEF Store!Miss, Store!Tells, Returns, Content
  <1> QED BY <1>1, <1>5 DEF StoreStep, Store!Next

LEMMA UpdateStep ==
    ASSUME CacheInv, IteratorsAreValid, CleanTakesExpired, Alone,
           NEW p \in {Broker} \cup Worker, update(p)
    PROVE  StoreStep
  <1> DEFINE s == held[p].s
  <1>0. MapInv /\ HeldInv /\ p \in Proc
    BY CacheInvParts, ProcType
  <1>1. held[p].op = "update" /\ s \in Slot
    BY <1>0 DEF update, Half, HeldInv, IteratorsOK
  <1>2. s \in map
    BY <1>0, <1>1 DEF IteratorsAreValid
  <1>3. prolong(s) /\ now' = now /\ Returns(node[s].id, TRUE) /\ held' = [held EXCEPT ![p] = Nothing]
    BY <1>2 DEF update, Done
  <1> HIDE DEF s
  <1>4. PICK i \in Id : i = node[s].id
    BY <1>0, <1>2 DEF MapInv, Open
  <1>5. /\ map' = map
        /\ node'[s] = [id |-> i, expiration_time |-> now + IdleTime]
        /\ \A t \in Slot \ {s} : node'[t] = node[t]
    BY <1>0, <1>1, <1>3, <1>4, ProlongEffect DEF MapInv
  <1>6. held'[Maintenance] = held[Maintenance]
    BY <1>0, <1>3, ProcType, CacheAssumption DEF HeldInv
  <1>7. s \notin Condemned
    <2>1. ASSUME s \in Condemned PROVE FALSE
      <3>1. held[Maintenance].op = "clean" /\ \E k \in 1..Len(index) :
               index[k] = s /\ \A j \in 1..k : index[j] # held[Maintenance].s
        BY <2>1 DEF Condemned
      <3>2. node[s].expiration_time < now
        BY <3>1 DEF CleanTakesExpired
      <3>3. node'[s] = node[s]
        BY <1>6, <3>1 DEF Alone
      <3>4. node[s].expiration_time = now + IdleTime
        BY <1>5, <3>3
      <3> QED BY <1>0, <3>2, <3>4, CacheAssumption DEF MapInv
    <2> QED BY <2>1
  <1>8. s \in Kept /\ Kept' = Kept
    BY <1>2, <1>5, <1>6, <1>7, CondemnedStays DEF Kept
  <1>9. s \in OfRemote(RemoteOf[i]) /\ OfRemote(RemoteOf[i]) = {s}
    BY <1>0, <1>2, <1>4 DEF MapInv, OneSessionPerRemote, OfRemote
  <1>10. Kept' = (Kept \ OfRemote(RemoteOf[i])) \cup {s}
    BY <1>8, <1>9
  <1>11. Content' = {x \in Content : RemoteOf[x.id] # RemoteOf[i]}
                      \cup {[id |-> i, idle_until |-> now + IdleTime]}
    BY <1>0, <1>1, <1>5, <1>9, <1>10, ContentOfUse
  <1>12. Store!Has(i)
    BY <1>4, <1>8, HasIs
  <1>13. Store!Use(i)
    BY <1>3, <1>4, <1>11, <1>12
       DEF Store!Use, Store!Others, Store!InUse, Store!Tells, Returns, Content
  <1> QED BY <1>3, <1>13 DEF StoreStep, Store!Next

(* clean takes what it takes when it looks: from then on exactly what has  *)
(* expired by then is no longer in the store.                              *)
LEMMA CleanFindStep ==
    ASSUME CacheInv, clean_find
    PROVE  StoreStep
  <1>0. MapInv /\ HeldInv
    BY CacheInvParts
  <1>1. /\ held[Maintenance] = Nothing /\ UNCHANGED <<index, node, now>> /\ Quiet
        /\ held' = [held EXCEPT ![Maintenance] = [op |-> "clean", s |-> lower_bound, id |-> NoId]]
    BY DEF clean_find, Begins
  <1>2. Kept = map /\ map' = map
    BY <1>1, NothingType, CondemnedNone DEF map
  <1>3. held'[Maintenance].op = "clean" /\ held'[Maintenance].s = lower_bound
    BY <1>0, <1>1, ProcType DEF HeldInv
  <1>4. Kept' = {s \in map : node[s].expiration_time >= now}
    <2> DEFINE n == Len(index)
    <2>1. /\ n \in Nat /\ DOMAIN index = 1..n /\ \A j \in 1..n : index[j] \in Slot
          /\ \A j \in 1..n : node[index[j]].expiration_time \in Int
          /\ now \in Int
      BY <1>0, LenProperties, ElementOfSeq, CacheAssumption DEF MapInv, IndexOK, element
    <2>2. \A s \in map : s \in Condemned' <=>
             \E k \in 1..n : index[k] = s /\ \A j \in 1..k : index[j] # lower_bound
      BY <1>1, <1>2, <1>3 DEF Condemned
    <2>3. ASSUME NEW k \in 1..n
          PROVE  (\A j \in 1..k : index[j] # lower_bound) <=> node[index[k]].expiration_time < now
      <3>1. CASE \A j \in 1..k : index[j] # lower_bound
        BY <1>0, <3>1, LowerBoundProperties
      <3>2. ASSUME NEW j \in 1..k, index[j] = lower_bound
            PROVE  ~(node[index[k]].expiration_time < now)
        <4>1. j \in 1..n /\ j <= k
          BY <2>1
        <4>2. node[index[j]].expiration_time >= now
          BY <1>0, <2>1, <3>2, <4>1, LowerBoundProperties
        <4>3. node[index[j]].expiration_time <= node[index[k]].expiration_time
          BY <1>0, <2>1, <4>1 DEF MapInv, IndexOK, IndexInOrder
        <4> QED BY <2>1, <4>1, <4>2, <4>3
      <3> QED BY <3>1, <3>2
    <2>4. ASSUME NEW s \in map PROVE s \in Condemned' <=> node[s].expiration_time < now
      <3>1. PICK k \in 1..n : index[k] = s
        BY <2>1 DEF map, Range
      <3> QED BY <2>2, <2>3, <3>1
    <2>5. \A s \in map : node[s].expiration_time < now <=> ~(node[s].expiration_time >= now)
      BY <2>1 DEF map, Range
    <2> QED BY <1>2, <2>4, <2>5 DEF Kept
  <1>5. Content' = {x \in Content : x.idle_until >= now}
    <2>1. Content' = {Entry(node[s]) : s \in Kept'}
      BY <1>1 DEF Content, Entry, Kept
    <2> QED BY <1>2, <1>4, <2>1, ContentIs, EntryIs
  <1>6. Store!Expire
    BY <1>1, <1>5 DEF Store!Expire, Quiet, Silent, Store!Silent, Content
  <1> QED BY <1>1, <1>6 DEF StoreStep, Store!Next

(* What it erases then is what it has found.                               *)
LEMMA CleanEraseStep ==
    ASSUME CacheInv, CleanTakesExpired, clean_erase
    PROVE  StoreStep
  <1>0. MapInv /\ HeldInv
    BY CacheInvParts
  <1> DEFINE n == Len(index)
             till == held[Maintenance].s
  <1>1. held[Maintenance].op = "clean" /\ till \in map \cup {End}
    BY DEF clean_erase, Half, CleanTakesExpired
  <1>2. /\ index \in Seq(Slot) /\ IsInjective(index)
        /\ n \in Nat /\ DOMAIN index = 1..n /\ \A j \in 1..n : index[j] \in Slot
    BY <1>0, LenProperties, ElementOfSeq DEF MapInv, IndexOK
  <1>3. \A s \in map : s \in Condemned <=>
           \E k \in 1..n : index[k] = s /\ \A j \in 1..k : index[j] # till
    BY <1>1 DEF Condemned
  <1>4. ASSUME Cleaned, map' = Kept
        PROVE  StoreStep
    <2>1. UNCHANGED <<node, now>> /\ Quiet
      BY <1>4 DEF Cleaned
    <2>2. held'[Maintenance] = [Nothing EXCEPT !.op = "list"]
      BY <1>0, <1>4, ProcType DEF Cleaned, HeldInv
    <2>3. held'[Maintenance].op # "clean"
      BY <2>2, NothingType
    <2>4. Kept' = map'
      BY <2>3 DEF Kept, Condemned
    <2>5. Content' = Content
      BY <1>4, <2>1, <2>4, ContentOfErase
    <2>6. Store!Pass
      BY <2>1, <2>5 DEF Store!Pass, Quiet, Silent, Store!Silent, Content
    <2> QED BY <2>6 DEF StoreStep, Store!Next
  <1>5. CASE till = End /\ index' = <<>> /\ Cleaned
    <2>1. map' = {}
      BY <1>5 DEF map, Range
    <2>2. ASSUME NEW s \in map PROVE s \in Condemned
      <3>1. PICK k \in 1..n : index[k] = s
        BY <1>2 DEF map, Range
      <3>2. ASSUME NEW j \in 1..k PROVE index[j] # End
        <4>1. j \in 1..n
          BY <1>2
        <4> QED BY <1>2, <4>1, CacheAssumption
      <3> QED BY <1>3, <1>5, <3>1, <3>2
    <2> QED BY <1>4, <1>5, <2>1, <2>2 DEF Kept
  <1>6. ASSUME NEW k \in 1..n, index[k] = till, index' = SubSeq(index, k, n), Cleaned
        PROVE  StoreStep
    <2>1. UNCHANGED node
      BY <1>6 DEF Cleaned
    <2>2. k \in 1..n + 1
      BY <1>2
    <2>3. map' = {index[j] : j \in k..n}
      BY <1>0, <1>6, <2>1, <2>2, CleanEffect DEF MapInv
    <2>4. ASSUME NEW i \in 1..n
          PROVE  index[i] \in Condemned <=> i < k
      <3>1. index[i] \in map
        BY <1>2 DEF map, Range
      <3>2. index[i] \in Condemned <=> \A j \in 1..i : index[j] # till
        <4>1. \A l \in 1..n : index[l] = index[i] => l = i
          BY <1>2 DEF IsInjective
        <4> QED BY <1>3, <3>1, <4>1
      <3>3. ASSUME i < k, NEW j \in 1..i PROVE index[j] # till
        <4>1. j \in 1..n /\ j # k
          BY <1>2, <3>3
        <4> QED BY <1>2, <1>6, <4>1 DEF IsInjective
      <3>4. ~(i < k) => k \in 1..i
        BY <1>2
      <3> QED BY <1>6, <3>2, <3>3, <3>4
    <2>5. ASSUME NEW s PROVE s \in map' <=> s \in Kept
      <3>1. s \in map <=> \E i \in 1..n : s = index[i]
        BY <1>2 DEF map, Range
      <3>2. s \in Kept <=> \E i \in 1..n : s = index[i] /\ ~(i < k)
        <4>1. s \in Kept <=> s \in map /\ s \notin Condemned
          BY DEF Kept
        <4> QED BY <2>4, <3>1, <4>1
      <3>3. \A i \in Int : i \in k..n <=> i \in 1..n /\ ~(i < k)
        BY <1>2
      <3> QED BY <2>3, <3>2, <3>3
    <2> QED BY <1>4, <1>6, <2>5
  <1> QED BY <1>1, <1>5, <1>6 DEF clean_erase

LEMMA StoreSimulation ==
    ASSUME CacheInv, AloneOK, [CacheNext]_cacheVars, alone'
    PROVE  StoreStep
  <1> USE ProcType
  <1>1. CASE UNCHANGED cacheVars
    <2>1. UNCHANGED <<node, map, Condemned, now, answer>>
      BY <1>1 DEF cacheVars, map, Condemned
    <2>2. Content' = Content
      BY <2>1, ContentOfErase DEF Kept
    <2> QED BY <2>1, <2>2 DEF StoreStep, Store!vars, Content
  <1>2. CASE CacheNext
    <2>1. /\ IteratorsAreValid /\ CleanTakesExpired /\ Alone
      BY <1>2 DEF CacheNext, AloneOK, AloneInv
    <2>2. HeldInv
      BY CacheInvParts
    <2>3. ASSUME UNCHANGED <<index, node>>, now' \in {now, now + 1}, Quiet,
                 \/ held'[Maintenance] = held[Maintenance]
                 \/ held[Maintenance].op # "clean" /\ held'[Maintenance].op # "clean"
          PROVE  StoreStep
      <3>1. map' = map
        BY <2>3 DEF map
      <3>2. Condemned' = Condemned
        <4>1. CASE held'[Maintenance] = held[Maintenance]
          BY <2>1, <4>1, CondemnedStays
        <4>2. CASE held[Maintenance].op # "clean" /\ held'[Maintenance].op # "clean"
          BY <4>2 DEF Condemned
        <4> QED BY <2>3, <4>1, <4>2
      <3> QED BY <2>3, <3>1, <3>2, PassStep
    <2>4. CASE Sessions
      <3>1. ASSUME NEW p \in {Broker} \cup Worker, update(p)
            PROVE  StoreStep
        BY <2>1, <3>1, UpdateStep
      <3>2. ASSUME NEW p \in {Broker} \cup Worker, NEW s \in Slot, find(p, s)
            PROVE  StoreStep
        <4>1. held'[Maintenance] = held[Maintenance]
          BY <2>2, <3>2, CacheAssumption DEF find, HeldInv
        <4> QED BY <2>3, <3>2, <4>1 DEF find
      <3>3. ASSUME NEW p, NEW i \in Id, find_nothing(p, i)
            PROVE  StoreStep
        BY <2>1, <3>3, FindNothingStep
      <3>4. ASSUME NEW i \in Id, add(Broker, i) \/ add_fails(Broker, i) \/ remove_by_id(Broker, i)
            PROVE  StoreStep
        BY <2>1, <3>4, AddStep, AddFailsStep, RemoveStep
      <3> QED BY <2>1, <2>4, <3>1, <3>2, <3>3, <3>4, CleanFindStep, CleanEraseStep DEF Sessions
    <2>5. CASE list_begin \/ list_next
      <3>1. held[Maintenance].op # "clean"
        BY <2>5, NothingType DEF list_begin, list_next
      <3>2. \E t : Listing(t)
        BY <2>5 DEF list_begin, list_next
      <3>3. PICK t : held' = [held EXCEPT ![Maintenance] = [op |-> "list", s |-> t, id |-> NoId]]
        BY <3>2 DEF Listing
      <3>4. held'[Maintenance].op # "clean"
        BY <2>2, <3>3 DEF HeldInv
      <3> QED BY <2>3, <2>5, <3>1, <3>4 DEF list_begin, list_next
    <2>6. CASE remove_files
      <3>1. held[Maintenance].op # "clean" /\ held'[Maintenance] = Nothing
        BY <2>2, <2>6 DEF remove_files, HeldInv
      <3>2. held'[Maintenance].op # "clean"
        BY <3>1, NothingType
      <3> QED BY <2>3, <2>6, <3>1, <3>2 DEF remove_files
    <2>7. ~list_dies
      BY <2>1 DEF list_dies, IteratorsAreValid
    <2>8. CASE Tick
      BY <2>3, <2>8 DEF Tick
    <2> QED BY <1>2, <2>4, <2>5, <2>6, <2>7, <2>8 DEF CacheNext
  <1> QED BY <1>1, <1>2

(* The cache is the store that its tests describe, as long as the          *)
(* processes do not get in each other's way: the two sections of find and  *)
(* use, and of clean, are as good as one.  Each call does what the store   *)
(* does and returns what the store returns; clean takes exactly what has   *)
(* expired when it looks; and an add fails only in a full segment.         *)
THEOREM CacheImplementsStore == CacheSpec => ImplementsStore
  <1>1. CacheInit => Store!Init
    <2>1. ASSUME CacheInit PROVE map = {}
      BY <2>1 DEF CacheInit, map, Range
    <2> QED BY <2>1 DEF CacheInit, Store!Init, Silent, Store!Silent
  <1>2. CacheInv /\ AloneOK /\ [CacheNext]_cacheVars
        => [alone' => [Store!Next]_(Store!vars)]_cacheVars
    BY StoreSimulation DEF StoreStep
  <1> QED BY <1>1, <1>2, AloneInvariance, PTL DEF CacheSpec, ImplementsStore

=============================================================================

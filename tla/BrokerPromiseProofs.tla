------------------------ MODULE BrokerPromiseProofs ------------------------
(***************************************************************************)
(* Proof that BrokerSystem implements CallPromise: whatever dies, expires  *)
(* or is lost, the actions that may still be answered, counted wherever    *)
(* they are, become fewer by what is delivered and more by what is asked.  *)
(***************************************************************************)
EXTENDS BrokerSystemProofs, FiniteSetTheorems

(* Natural numbers, one per index, are added up as Owed adds them: as the  *)
(* number of pairs of an index and a number up to its own.                 *)
Pairs(f, I) == UNION {{i} \X (1..f[i]) : i \in I}
Sum(f, I) == Cardinality(Pairs(f, I))

LEMMA PairsFinite ==
    ASSUME NEW I, IsFiniteSet(I), NEW f, \A i \in I : f[i] \in Nat
    PROVE  IsFiniteSet(Pairs(f, I)) /\ Sum(f, I) \in Nat
  <1> DEFINE pairs == [i \in I |-> {i} \X (1..f[i])]
             all == {{i} \X (1..f[i]) : i \in I}
  <1>1. pairs \in Surjection(I, all)
    BY DEF Surjection
  <1>2. IsFiniteSet(all)
    <2> HIDE DEF pairs, all
    <2> QED BY <1>1, FS_Surjection
  <1>3. ASSUME NEW i \in I PROVE IsFiniteSet({i} \X (1..f[i]))
    <2>0. f[i] \in Int /\ 1 \in Int
      OBVIOUS
    <2>1. IsFiniteSet(1..f[i]) /\ IsFiniteSet({i})
      BY <2>0, FS_Interval, FS_Singleton
    <2> QED BY <2>1, FS_Product
  <1>4. \A T \in all : IsFiniteSet(T)
    BY <1>3
  <1>5. IsFiniteSet(UNION all)
    <2> HIDE DEF all
    <2> QED BY <1>2, <1>4, FS_UNION
  <1>6. IsFiniteSet(Pairs(f, I))
    BY <1>5 DEF Pairs
  <1> QED BY <1>6, FS_CardinalityType DEF Sum

LEMMA SumSplits ==
    ASSUME NEW I, IsFiniteSet(I), NEW f, \A i \in I : f[i] \in Nat, NEW j \in I
    PROVE  Sum(f, I \ {j}) \in Nat /\ Sum(f, I) = Sum(f, I \ {j}) + f[j]
  <1> DEFINE others == Pairs(f, I \ {j})
             own == {j} \X (1..f[j])
  <1>1. IsFiniteSet(others) /\ Cardinality(others) \in Nat
    <2>1. IsFiniteSet(I \ {j})
      BY FS_Subset
    <2> QED BY <2>1, PairsFinite DEF Sum
  <1>2. IsFiniteSet(own) /\ Cardinality(own) = f[j]
    <2>0. f[j] \in Nat /\ f[j] \in Int /\ 1 \in Int
      OBVIOUS
    <2>1. /\ IsFiniteSet(1..f[j])
          /\ Cardinality(1..f[j]) = IF 1 > f[j] THEN 0 ELSE f[j] - 1 + 1
      BY <2>0, FS_Interval
    <2>2. IsFiniteSet({j}) /\ Cardinality({j}) = 1
      BY FS_Singleton
    <2>3. Cardinality(1..f[j]) = f[j]
      BY <2>0, <2>1
    <2>4. IsFiniteSet(own) /\ Cardinality(own) = 1 * f[j]
      <3> HIDE DEF own
      <3>1. Cardinality({j} \X (1..f[j])) = Cardinality({j}) * Cardinality(1..f[j])
        BY <2>1, <2>2, FS_Product
      <3>2. Cardinality({j} \X (1..f[j])) = 1 * f[j]
        BY <2>2, <2>3, <3>1, Zenon
      <3>3. IsFiniteSet({j} \X (1..f[j]))
        BY <2>1, <2>2, FS_Product
      <3> QED BY <3>2, <3>3, Zenon DEF own
    <2> QED BY <2>0, <2>4
  <1>3. Pairs(f, I) = others \cup own
    BY DEF Pairs
  <1>4. others \cap own = {}
    BY DEF Pairs
  <1> HIDE DEF others, own
  <1>5. Cardinality(others \cup own) = Cardinality(others) + f[j]
    <2>1. Cardinality(others \cup own)
              = Cardinality(others) + Cardinality(own) - Cardinality(others \cap own)
      BY <1>1, <1>2, FS_Union
    <2>2. Cardinality(others \cap own) = 0
      BY <1>4, FS_EmptySet
    <2>3. f[j] \in Nat
      OBVIOUS
    <2> QED BY <1>1, <1>2, <2>1, <2>2, <2>3
  <1> QED BY <1>1, <1>3, <1>5 DEF Sum, others

(* Smaller numbers at some of the indices, under other names or not, add   *)
(* up to less.                                                             *)
LEMMA SumIsMonotone ==
    ASSUME NEW I, NEW J, IsFiniteSet(J),
           NEW f, \A i \in I : f[i] \in Nat, NEW g, \A j \in J : g[j] \in Nat,
           NEW to \in Injection(I, J), \A i \in I : f[i] <= g[to[i]]
    PROVE  Sum(f, I) <= Sum(g, J)
  <1> DEFINE inj == [x \in Pairs(f, I) |-> <<to[x[1]], x[2]>>]
  <1>0. to \in [I -> J] /\ \A a, b \in I : to[a] = to[b] => a = b
    BY DEF Injection, IsInjective
  <1>1. ASSUME NEW x \in Pairs(f, I)
        PROVE  x[1] \in I /\ x[2] \in 1..f[x[1]] /\ x = <<x[1], x[2]>>
    BY DEF Pairs
  <1>2. ASSUME NEW x \in Pairs(f, I) PROVE inj[x] \in Pairs(g, J)
    <2>1. to[x[1]] \in J /\ x[2] \in 1..g[to[x[1]]]
      BY <1>0, <1>1
    <2> QED BY <2>1 DEF Pairs
  <1>3. ASSUME NEW x \in Pairs(f, I), NEW y \in Pairs(f, I), inj[x] = inj[y] PROVE x = y
    <2>1. to[x[1]] = to[y[1]] /\ x[2] = y[2]
      BY <1>3
    <2> QED BY <1>0, <1>1, <2>1
  <1>4. inj \in Injection(Pairs(f, I), Pairs(g, J))
    BY <1>2, <1>3 DEF Injection, IsInjective
  <1> HIDE DEF inj
  <1> QED BY <1>4, PairsFinite, FS_Injection DEF Sum

LEMMA SumIsLess ==
    ASSUME NEW I, IsFiniteSet(I), NEW f, \A i \in I : f[i] \in Nat, NEW g, \A i \in I : g[i] \in Nat,
           \A i \in I : f[i] <= g[i]
    PROVE  Sum(f, I) <= Sum(g, I)
  <1> DEFINE same == [i \in I |-> i]
  <1>1. same \in Injection(I, I) /\ \A i \in I : f[i] <= g[same[i]]
    BY DEF Injection, IsInjective
  <1> HIDE DEF same
  <1> QED BY <1>1, SumIsMonotone

LEMMA SumChanges ==
    ASSUME NEW I, IsFiniteSet(I), NEW f \in [I -> Nat], NEW g \in [I -> Nat],
           NEW j \in I, \A i \in I \ {j} : g[i] = f[i]
    PROVE  /\ Sum(f, I) \in Nat /\ Sum(g, I) \in Nat
           /\ f[j] <= Sum(f, I)
           /\ Sum(g, I) - g[j] = Sum(f, I) - f[j]
  <1>1. Pairs(g, I \ {j}) = Pairs(f, I \ {j})
    BY DEF Pairs
  <1> DEFINE n == Sum(f, I \ {j})
  <1>2. n \in Nat /\ Sum(f, I) = n + f[j]
    BY SumSplits
  <1>3. Sum(g, I) = n + g[j]
    <2>1. Sum(g, I) = Sum(g, I \ {j}) + g[j]
      BY SumSplits
    <2>2. Sum(g, I \ {j}) = n
      BY <1>1 DEF Sum
    <2> QED BY <2>1, <2>2
  <1> HIDE DEF n
  <1> QED BY <1>2, <1>3

LEMMA SumExcept ==
    ASSUME NEW I, IsFiniteSet(I), NEW f \in [I -> Nat], NEW j \in I, NEW n \in Nat
    PROVE  Sum([f EXCEPT ![j] = n], I) \in Nat
           /\ Sum([f EXCEPT ![j] = n], I) - n = Sum(f, I) - f[j]
  <1> DEFINE g == [f EXCEPT ![j] = n]
  <1>1. /\ g \in [I -> Nat] /\ g[j] = n
        /\ \A i \in I \ {j} : g[i] = f[i]
    OBVIOUS
  <1> HIDE DEF g
  <1>2. Sum(g, I) \in Nat /\ Sum(g, I) - g[j] = Sum(f, I) - f[j]
    BY <1>1, SumChanges
  <1> QED BY <1>1, <1>2 DEF g

LEMMA SumOfNothing ==
    ASSUME NEW I, NEW f, \A i \in I : f[i] = 0
    PROVE  Sum(f, I) = 0
  <1>1. Pairs(f, I) = {}
    BY DEF Pairs
  <1> QED BY <1>1, FS_EmptySet DEF Sum

-----------------------------------------------------------------------------
(* What a queue holds of a call, when a message m holds f[m] of it.        *)

Each(q, f) == [i \in 1..Len(q) |-> f[q[i]]]
Weigh(q, f) == Sum(Each(q, f), 1..Len(q))

LEMMA QueueIndices ==
    ASSUME NEW S, NEW q \in Seq(S), NEW f \in [S -> Nat]
    PROVE  /\ Len(q) \in Nat /\ IsFiniteSet(1..Len(q))
           /\ \A i \in 1..Len(q) : q[i] \in S /\ Each(q, f)[i] = f[q[i]] /\ Each(q, f)[i] \in Nat
           /\ Weigh(q, f) \in Nat
  <1>1. Len(q) \in Nat /\ Len(q) \in Int /\ 1 \in Int
    BY LenProperties
  <1>2. IsFiniteSet(1..Len(q))
    BY <1>1, FS_Interval
  <1>3. \A i \in 1..Len(q) : q[i] \in S /\ Each(q, f)[i] = f[q[i]] /\ Each(q, f)[i] \in Nat
    BY ElementOfSeq, LenProperties DEF Each
  <1>4. Weigh(q, f) \in Nat
    BY <1>2, <1>3, PairsFinite DEF Weigh
  <1> QED BY <1>1, <1>2, <1>3, <1>4

LEMMA WeighNothing == \A f : Weigh(<<>>, f) = 0
  <1> TAKE f
  <1>1. \A i \in 1..Len(<<>>) : Each(<<>>, f)[i] = 0
    OBVIOUS
  <1> QED BY <1>1, SumOfNothing DEF Weigh

LEMMA WeighAppend ==
    ASSUME NEW S, NEW q \in Seq(S), NEW f \in [S -> Nat], NEW m \in S
    PROVE  Weigh(Append(q, m), f) = Weigh(q, f) + f[m]
  <1> DEFINE long == Append(q, m)
             n == Len(q)
  <1>1. /\ long \in Seq(S) /\ Len(long) = n + 1 /\ long[n + 1] = m
        /\ \A i \in 1..n : long[i] = q[i]
    BY AppendProperties
  <1>2. n \in Nat /\ \A i \in 1..n : Each(q, f)[i] = f[q[i]]
    BY QueueIndices
  <1>3. /\ IsFiniteSet(1..n + 1)
        /\ \A i \in 1..n + 1 : Each(long, f)[i] = f[long[i]] /\ Each(long, f)[i] \in Nat
    <2> HIDE DEF long, n
    <2>1. /\ IsFiniteSet(1..Len(long))
          /\ \A i \in 1..Len(long) : Each(long, f)[i] = f[long[i]] /\ Each(long, f)[i] \in Nat
      <3>1. long \in Seq(S)
        BY <1>1
      <3> QED BY ONLY <3>1, f \in [S -> Nat], QueueIndices
    <2>2. 1..Len(long) = 1..n + 1
      BY <1>1
    <2> QED BY <2>1, <2>2
  <1> HIDE DEF long, n
  <1>4. n + 1 \in 1..n + 1 /\ (1..n + 1) \ {n + 1} = 1..n
    BY <1>2
  <1>5. Sum(Each(long, f), 1..n + 1) = Sum(Each(long, f), 1..n) + Each(long, f)[n + 1]
    <2>1. Sum(Each(long, f), 1..n + 1)
              = Sum(Each(long, f), (1..n + 1) \ {n + 1}) + Each(long, f)[n + 1]
      <3>1. \A i \in 1..n + 1 : Each(long, f)[i] \in Nat
        BY <1>3
      <3> HIDE DEF Each
      <3> QED BY ONLY <1>3, <1>4, <3>1, SumSplits, SMTT(60)
    <2> QED BY <1>4, <2>1
  <1>6. Each(long, f)[n + 1] = f[m]
    BY <1>1, <1>3, <1>4
  <1>7. \A i \in 1..n : Each(long, f)[i] = Each(q, f)[i]
    <2>1. \A i \in 1..n : i \in 1..n + 1
      BY <1>2
    <2>2. \A i \in 1..n : Each(long, f)[i] = f[long[i]]
      BY <1>3, <2>1
    <2> QED BY <1>1, <1>2, <2>2
  <1>8. Sum(Each(long, f), 1..n) = Sum(Each(q, f), 1..n)
    <2>1. Pairs(Each(long, f), 1..n) = Pairs(Each(q, f), 1..n)
      BY <1>7 DEF Pairs
    <2> QED BY <2>1 DEF Sum
  <1>9. Weigh(long, f) = Weigh(q, f) + f[m]
    BY <1>1, <1>5, <1>6, <1>8 DEF Weigh, n
  <1> QED BY <1>9 DEF long

LEMMA WeighTail ==
    ASSUME NEW S, NEW q \in Seq(S), q # <<>>, NEW f \in [S -> Nat]
    PROVE  Weigh(q, f) = Weigh(Tail(q), f) + f[Head(q)]
  <1> DEFINE rest == Tail(q)
             n == Len(rest)
  <1>1. /\ rest \in Seq(S) /\ Len(q) = n + 1 /\ Head(q) = q[1]
        /\ \A i \in 1..n : rest[i] = q[i + 1]
    BY HeadTailProperties, LenProperties
  <1> HIDE DEF rest, n
  <1>2. n \in Nat /\ IsFiniteSet(1..n)
        /\ \A i \in 1..n : Each(rest, f)[i] = f[rest[i]] /\ Each(rest, f)[i] \in Nat
    BY <1>1, QueueIndices DEF n
  <1>3. /\ IsFiniteSet(1..n + 1)
        /\ \A i \in 1..n + 1 : Each(q, f)[i] = f[q[i]] /\ Each(q, f)[i] \in Nat
    BY <1>1, QueueIndices, SMTT(60)
  <1>4. 1 \in 1..n + 1 /\ (1..n + 1) \ {1} = 2..n + 1 /\ 2..n + 1 \subseteq 1..n + 1
    BY <1>2
  <1>5. Sum(Each(q, f), 1..n + 1) = Sum(Each(q, f), 2..n + 1) + Each(q, f)[1]
    <2>1. Sum(Each(q, f), 1..n + 1) = Sum(Each(q, f), (1..n + 1) \ {1}) + Each(q, f)[1]
      <3>1. /\ \A i \in 1..n + 1 : Each(q, f)[i] \in Nat
            /\ IsFiniteSet(1..n + 1)
        BY <1>3
      <3>2. 1 \in 1..n + 1
        BY <1>4
      <3> QED BY ONLY <3>1, <3>2, SumSplits
    <2> QED BY <1>4, <2>1
  <1>6. IsFiniteSet(2..n + 1)
    BY <1>3, <1>4, FS_Subset
  <1>7. Sum(Each(rest, f), 1..n) <= Sum(Each(q, f), 2..n + 1)
    <2> DEFINE up == [i \in 1..n |-> i + 1]
    <2>1. up \in Injection(1..n, 2..n + 1)
      BY <1>2 DEF Injection, IsInjective
    <2>2. \A i \in 1..n : Each(rest, f)[i] <= Each(q, f)[up[i]]
      <3> SUFFICES ASSUME NEW i \in 1..n PROVE Each(rest, f)[i] <= Each(q, f)[up[i]]
        OBVIOUS
      <3>1. up[i] = i + 1 /\ i + 1 \in 1..n + 1
        BY <1>2
      <3>2. Each(rest, f)[i] = Each(q, f)[i + 1]
        BY <1>1, <1>2, <1>3, <3>1
      <3> QED BY <1>2, <3>1, <3>2
    <2> HIDE DEF up
    <2> QED BY <1>2, <1>3, <1>4, <1>6, <2>1, <2>2, SumIsMonotone
  <1>8. Sum(Each(q, f), 2..n + 1) <= Sum(Each(rest, f), 1..n)
    <2> DEFINE down == [i \in 2..n + 1 |-> i - 1]
    <2>1. down \in Injection(2..n + 1, 1..n)
      BY <1>2 DEF Injection, IsInjective
    <2>2. \A i \in 2..n + 1 : Each(q, f)[i] <= Each(rest, f)[down[i]]
      <3> SUFFICES ASSUME NEW i \in 2..n + 1 PROVE Each(q, f)[i] <= Each(rest, f)[down[i]]
        OBVIOUS
      <3>1. down[i] = i - 1 /\ i - 1 \in 1..n /\ (i - 1) + 1 = i
        BY <1>2
      <3>2. Each(rest, f)[i - 1] = Each(q, f)[i]
        BY <1>1, <1>2, <1>3, <1>4, <3>1
      <3> QED BY <1>2, <3>1, <3>2
    <2> HIDE DEF down
    <2> QED BY <1>2, <1>3, <1>4, <2>1, <2>2, SumIsMonotone
  <1>9. Sum(Each(rest, f), 1..n) = Sum(Each(q, f), 2..n + 1)
    <2>1. Sum(Each(rest, f), 1..n) \in Nat /\ Sum(Each(q, f), 2..n + 1) \in Nat
      BY <1>2, <1>3, <1>4, <1>6, PairsFinite
    <2> QED BY <1>7, <1>8, <2>1
  <1>10. Each(q, f)[1] = f[Head(q)]
    BY <1>1, <1>3, <1>4
  <1> QED BY <1>1, <1>5, <1>9, <1>10 DEF Weigh, n, rest

(* A part of a queue.                                                      *)
LEMMA WeighPart ==
    ASSUME NEW S, NEW q \in Seq(S), NEW f \in [S -> Nat],
           NEW a \in Nat \ {0}, NEW b \in 0..Len(q)
    PROVE  Weigh(SubSeq(q, a, b), f) <= Weigh(q, f)
  <1> DEFINE part == SubSeq(q, a, b)
             n == Len(part)
             to == [i \in 1..n |-> a + i - 1]
  <1>0. Len(q) \in Nat
    BY LenProperties
  <1>1. part \in Seq(S)
    BY PartType
  <1>2. /\ n \in Nat
        /\ \A i \in 1..n : a + i - 1 \in 1..Len(q) /\ part[i] = q[a + i - 1]
    <2>1. \A i \in a..b : q[i] \in S
      BY <1>0, ElementOfSeq
    <2>2. /\ n = IF a <= b THEN b - a + 1 ELSE 0
          /\ \A i \in 1..n : part[i] = q[a + i - 1]
      BY <2>1, SubSeqProperties
    <2> HIDE DEF n, part
    <2>3. CASE a <= b
      <3>1. n = b - a + 1
        BY <2>2, <2>3
      <3> QED BY <1>0, <2>2, <3>1
    <2>4. CASE ~(a <= b)
      <3>1. n = 0
        BY <2>2, <2>4
      <3> QED BY <3>1
    <2> QED BY <2>3, <2>4
  <1> HIDE DEF part, n
  <1>3. to \in Injection(1..n, 1..Len(q))
    <2>1. to \in [1..n -> 1..Len(q)]
      BY <1>2
    <2>2. \A i, j \in 1..n : a + i - 1 = a + j - 1 => i = j
      BY <1>2
    <2>3. \A i, j \in 1..n : to[i] = to[j] => i = j
      BY <2>2
    <2> QED BY <2>1, <2>3 DEF Injection, IsInjective
  <1>4. \A i \in 1..n : Each(part, f)[i] = f[part[i]] /\ Each(part, f)[i] \in Nat
    BY <1>1, QueueIndices DEF n
  <1>5. /\ IsFiniteSet(1..Len(q))
        /\ \A i \in 1..Len(q) : Each(q, f)[i] = f[q[i]] /\ Each(q, f)[i] \in Nat
    BY QueueIndices
  <1>6. \A i \in 1..n : Each(part, f)[i] <= Each(q, f)[to[i]]
    <2> SUFFICES ASSUME NEW i \in 1..n PROVE Each(part, f)[i] <= Each(q, f)[to[i]]
      OBVIOUS
    <2>1. to[i] = a + i - 1
      OBVIOUS
    <2>2. Each(part, f)[i] = Each(q, f)[a + i - 1]
      <3>1. a + i - 1 \in 1..Len(q) /\ part[i] = q[a + i - 1]
        BY <1>2
      <3>2. Each(q, f)[a + i - 1] = f[q[a + i - 1]]
        BY ONLY <1>5, <3>1
      <3>3. Each(part, f)[i] = f[part[i]]
        BY <1>4
      <3> QED BY <3>1, <3>2, <3>3
    <2>3. Each(part, f)[i] \in Nat
      BY <1>4
    <2> QED BY <2>1, <2>2, <2>3
  <1> HIDE DEF to
  <1>7. Sum(Each(part, f), 1..n) <= Sum(Each(q, f), 1..Len(q))
    BY <1>3, <1>4, <1>5, <1>6, SumIsMonotone
  <1> QED BY <1>7 DEF Weigh, n, part

-----------------------------------------------------------------------------
(* What is owed of a call, added up over where it is.                      *)

Requested(c) == [r \in Request |-> InRequest(r, c)]
Dispatched(c) == [m \in ToWorker |-> InDispatch(m, c)]
Replied(c) == [m \in FromWorker |-> InReply(m, c)]

AtWorkers(out, in, c) ==
    [w \in WorkerId |-> Weigh(out[w], Dispatched(c)) + Weigh(in[w], Replied(c))]

LEMMA CountIsWeigh ==
    ASSUME NEW S, NEW q \in Seq(S), NEW f \in [S -> 0..MaxActions]
    PROVE  Cardinality({x \in (1..Len(q)) \X Actions : x[2] <= f[q[x[1]]]}) = Weigh(q, f)
  <1>0. f \in [S -> Nat]
    BY RequestAssumption
  <1>1. \A i \in 1..Len(q) : q[i] \in S /\ Each(q, f)[i] = f[q[i]]
    BY <1>0, QueueIndices
  <1>2. \A i \in 1..Len(q) : f[q[i]] \in 0..MaxActions
    BY <1>1
  <1>3. {x \in (1..Len(q)) \X Actions : x[2] <= f[q[x[1]]]} = Pairs(Each(q, f), 1..Len(q))
    <2>1. ASSUME NEW i \in 1..Len(q), NEW k
          PROVE  k \in Actions /\ k <= f[q[i]] <=> k \in 1..Each(q, f)[i]
      BY <1>1, <1>2, RequestAssumption DEF Actions
    <2> QED BY <2>1 DEF Pairs
  <1> QED BY <1>3 DEF Weigh, Sum

LEMMA RequestIs ==
    ASSUME NEW r \in Request
    PROVE  r.call \in Call /\ r.session \in SessionId /\ r.actions \in 0..MaxActions
  BY RequestAssumption

LEMMA FunctionsType ==
    ASSUME NEW c \in Call
    PROVE  /\ Requested(c) \in [Request -> 0..MaxActions] /\ Requested(c) \in [Request -> Nat]
           /\ Dispatched(c) \in [ToWorker -> 0..MaxActions] /\ Dispatched(c) \in [ToWorker -> Nat]
           /\ Replied(c) \in [FromWorker -> 0..MaxActions] /\ Replied(c) \in [FromWorker -> Nat]
  <1>0. MaxActions \in Nat /\ 0 \in 0..MaxActions /\ 0..MaxActions \subseteq Nat
    BY RequestAssumption
  <1>1. \A r \in Request : InRequest(r, c) \in 0..MaxActions
    BY <1>0, RequestIs DEF InRequest
  <1>2. \A m \in ToWorker : InDispatch(m, c) \in 0..MaxActions
    BY <1>0, <1>1 DEF InDispatch, ToWorker
  <1>3. \A m \in FromWorker : InReply(m, c) \in 0..MaxActions
    BY <1>0 DEF InReply, FromWorker
  <1> QED BY <1>0, <1>1, <1>2, <1>3 DEF Requested, Dispatched, Replied

LEMMA WaitingIs ==
    ASSUME NEW q \in Seq(Request), NEW c \in Call
    PROVE  Count(q, LAMBDA r : InRequest(r, c)) = Weigh(q, Requested(c))
  <1>1. \A i \in 1..Len(q) : q[i] \in Request
    BY ElementOfSeq, LenProperties
  <1>2. {x \in (1..Len(q)) \X Actions : x[2] <= InRequest(q[x[1]], c)}
            = {x \in (1..Len(q)) \X Actions : x[2] <= Requested(c)[q[x[1]]]}
    BY <1>1 DEF Requested
  <1>3. Cardinality({x \in (1..Len(q)) \X Actions : x[2] <= InRequest(q[x[1]], c)})
            = Weigh(q, Requested(c))
    BY <1>2, CountIsWeigh, FunctionsType
  <1> QED BY <1>3 DEF Count

LEMMA DispatchedIs ==
    ASSUME NEW q \in Seq(ToWorker), NEW c \in Call
    PROVE  Count(q, LAMBDA m : InDispatch(m, c)) = Weigh(q, Dispatched(c))
  <1>1. \A i \in 1..Len(q) : q[i] \in ToWorker
    BY ElementOfSeq, LenProperties
  <1>2. {x \in (1..Len(q)) \X Actions : x[2] <= InDispatch(q[x[1]], c)}
            = {x \in (1..Len(q)) \X Actions : x[2] <= Dispatched(c)[q[x[1]]]}
    BY <1>1 DEF Dispatched
  <1>3. Cardinality({x \in (1..Len(q)) \X Actions : x[2] <= InDispatch(q[x[1]], c)})
            = Weigh(q, Dispatched(c))
    BY <1>2, CountIsWeigh, FunctionsType
  <1> QED BY <1>3 DEF Count

LEMMA RepliedIs ==
    ASSUME NEW q \in Seq(FromWorker), NEW c \in Call
    PROVE  Count(q, LAMBDA m : InReply(m, c)) = Weigh(q, Replied(c))
  <1>1. \A i \in 1..Len(q) : q[i] \in FromWorker
    BY ElementOfSeq, LenProperties
  <1>2. {x \in (1..Len(q)) \X Actions : x[2] <= InReply(q[x[1]], c)}
            = {x \in (1..Len(q)) \X Actions : x[2] <= Replied(c)[q[x[1]]]}
    BY <1>1 DEF Replied
  <1>3. Cardinality({x \in (1..Len(q)) \X Actions : x[2] <= InReply(q[x[1]], c)})
            = Weigh(q, Replied(c))
    BY <1>2, CountIsWeigh, FunctionsType
  <1> QED BY <1>3 DEF Count

LEMMA AtWorkersIs ==
    ASSUME NEW out \in [WorkerId -> Seq(ToWorker)], NEW back \in [WorkerId -> Seq(FromWorker)],
           NEW c \in Call
    PROVE  UNION {{w} \X (1..Count(out[w], LAMBDA m : InDispatch(m, c))
                             + Count(back[w], LAMBDA m : InReply(m, c))) : w \in WorkerId}
               = Pairs(AtWorkers(out, back, c), WorkerId)
  <1>1. \A w \in WorkerId : Count(out[w], LAMBDA m : InDispatch(m, c)) = Weigh(out[w], Dispatched(c))
    BY DispatchedIs
  <1>2. \A w \in WorkerId : Count(back[w], LAMBDA m : InReply(m, c)) = Weigh(back[w], Replied(c))
    BY RepliedIs
  <1> QED BY <1>1, <1>2 DEF Pairs, AtWorkers

Waits(q, c) == Weigh(q, Requested(c))
Between(out, back, c) == Sum(AtWorkers(out, back, c), WorkerId)

OwedAt(h, in, waiting, out, back, c) ==
    h[c] + Waits(in, c) + Waits(waiting, c) + Between(out, back, c)

LEMMA OwedIs ==
    ASSUME TypeOK, NEW c \in Call
    PROVE  Owed(c) = OwedAt(held, external_in, requests, internal_out, internal_in, c)
  <1>1. /\ internal_out \in [WorkerId -> Seq(ToWorker)]
        /\ internal_in \in [WorkerId -> Seq(FromWorker)]
        /\ external_in \in Seq(Request) /\ requests \in Seq(Request)
    BY DEF TypeOK, SocketsTypeOK, BrokerTypeOK
  <1>2. UNION {{w} \X (1..AtWorker(w, c)) : w \in WorkerId}
            = Pairs(AtWorkers(internal_out, internal_in, c), WorkerId)
    BY <1>1, AtWorkersIs DEF AtWorker
  <1>3. /\ Count(external_in, LAMBDA r : InRequest(r, c)) = Weigh(external_in, Requested(c))
        /\ Count(requests, LAMBDA r : InRequest(r, c)) = Weigh(requests, Requested(c))
    BY <1>1, WaitingIs
  <1> QED BY <1>2, <1>3 DEF Owed, OwedAt, Waits, Between, Sum

OwedAdds ==
    \A c \in Call :
        Owed(c) = OwedAt(held, external_in, requests, internal_out, internal_in, c)

LEMMA OwedIsAdded == TypeOK => OwedAdds
  BY OwedIs DEF OwedAdds

LEMMA OwedBecomes == TypeOK' => OwedAdds'
  BY OwedIsAdded, PTL

LEMMA OwedChanges ==
    ASSUME TypeOK, TypeOK', NEW c \in Call
    PROVE  /\ Owed(c) = OwedAt(held, external_in, requests, internal_out, internal_in, c)
           /\ Owed(c)' = OwedAt(held', external_in', requests', internal_out', internal_in', c)
  <1>1. OwedAdds'
    BY OwedBecomes
  <1> QED BY OwedIs, <1>1 DEF OwedAdds

LEMMA AtWorkersType ==
    ASSUME NEW out \in [WorkerId -> Seq(ToWorker)], NEW back \in [WorkerId -> Seq(FromWorker)],
           NEW c \in Call
    PROVE  /\ \A w \in WorkerId :
                  /\ Weigh(out[w], Dispatched(c)) \in Nat /\ Weigh(back[w], Replied(c)) \in Nat
                  /\ AtWorkers(out, back, c)[w]
                         = Weigh(out[w], Dispatched(c)) + Weigh(back[w], Replied(c))
                  /\ AtWorkers(out, back, c)[w] \in Nat
           /\ AtWorkers(out, back, c) \in [WorkerId -> Nat]
           /\ Sum(AtWorkers(out, back, c), WorkerId) \in Nat
  <1>1. \A w \in WorkerId : Weigh(out[w], Dispatched(c)) \in Nat /\ Weigh(back[w], Replied(c)) \in Nat
    BY FunctionsType, QueueIndices
  <1>2. \A w \in WorkerId :
            /\ AtWorkers(out, back, c)[w] = Weigh(out[w], Dispatched(c)) + Weigh(back[w], Replied(c))
            /\ AtWorkers(out, back, c)[w] \in Nat
    <2>1. ASSUME NEW m \in Nat, NEW n \in Nat PROVE m + n \in Nat
      OBVIOUS
    <2> QED BY <1>1, <2>1, Zenon DEF AtWorkers
  <1>3. Sum(AtWorkers(out, back, c), WorkerId) \in Nat
    BY <1>2, WorkerIdAssumption, PairsFinite
  <1>4. AtWorkers(out, back, c) \in [WorkerId -> Nat]
    BY <1>2 DEF AtWorkers
  <1> QED BY <1>1, <1>2, <1>3, <1>4

(* The queue to one worker becomes q, or the queue from it.                *)
LEMMA OutChanges ==
    ASSUME NEW out \in [WorkerId -> Seq(ToWorker)], NEW back \in [WorkerId -> Seq(FromWorker)],
           NEW w \in WorkerId, NEW q \in Seq(ToWorker), NEW c \in Call
    PROVE  /\ Between(out, back, c) \in Nat /\ Between([out EXCEPT ![w] = q], back, c) \in Nat
           /\ Weigh(out[w], Dispatched(c)) \in Nat /\ Weigh(q, Dispatched(c)) \in Nat
           /\ Between([out EXCEPT ![w] = q], back, c) + Weigh(out[w], Dispatched(c))
                  = Between(out, back, c) + Weigh(q, Dispatched(c))
  <1> DEFINE new == [out EXCEPT ![w] = q]
             f == AtWorkers(out, back, c)
             g == AtWorkers(new, back, c)
             a == Sum(f, WorkerId)
             b == Sum(g, WorkerId)
             x == Weigh(out[w], Dispatched(c))
             y == Weigh(q, Dispatched(c))
             d == Weigh(back[w], Replied(c))
  <1>1. /\ new \in [WorkerId -> Seq(ToWorker)] /\ new[w] = q
        /\ \A v \in WorkerId \ {w} : new[v] = out[v]
    OBVIOUS
  <1> HIDE DEF new
  <1>2. f \in [WorkerId -> Nat] /\ a \in Nat /\ x \in Nat /\ d \in Nat /\ f[w] = x + d
    BY AtWorkersType
  <1>3. g \in [WorkerId -> Nat] /\ b \in Nat
    BY <1>1, AtWorkersType
  <1>4. y \in Nat
    BY FunctionsType, QueueIndices
  <1>5. g[w] = y + d
    BY <1>1, Zenon DEF AtWorkers
  <1>6. g = [f EXCEPT ![w] = g[w]]
    <2>1. \A v \in WorkerId \ {w} : g[v] = f[v]
      BY <1>1 DEF AtWorkers
    <2> HIDE DEF f, g
    <2> QED BY <1>2, <1>3, <2>1
  <1>7. b + x = a + y
    <2> HIDE DEF f, g, x, y, d
    <2>1. b - g[w] = a - f[w]
      <3>1. g[w] \in Nat /\ f \in [WorkerId -> Nat]
        BY <1>2, <1>3
      <3>2. Sum([f EXCEPT ![w] = g[w]], WorkerId) - g[w] = Sum(f, WorkerId) - f[w]
        BY ONLY <3>1, w \in WorkerId, WorkerIdAssumption, SumExcept
      <3> QED BY <1>6, <3>2
    <2> HIDE DEF a, b
    <2> QED BY <1>2, <1>3, <1>4, <1>5, <2>1
  <1> QED BY <1>2, <1>3, <1>4, <1>7 DEF new, Between

LEMMA BackChanges ==
    ASSUME NEW out \in [WorkerId -> Seq(ToWorker)], NEW back \in [WorkerId -> Seq(FromWorker)],
           NEW w \in WorkerId, NEW q \in Seq(FromWorker), NEW c \in Call
    PROVE  /\ Between(out, back, c) \in Nat /\ Between(out, [back EXCEPT ![w] = q], c) \in Nat
           /\ Weigh(back[w], Replied(c)) \in Nat /\ Weigh(q, Replied(c)) \in Nat
           /\ Between(out, [back EXCEPT ![w] = q], c) + Weigh(back[w], Replied(c))
                  = Between(out, back, c) + Weigh(q, Replied(c))
  <1> DEFINE new == [back EXCEPT ![w] = q]
             f == AtWorkers(out, back, c)
             g == AtWorkers(out, new, c)
             a == Sum(f, WorkerId)
             b == Sum(g, WorkerId)
             x == Weigh(back[w], Replied(c))
             y == Weigh(q, Replied(c))
             d == Weigh(out[w], Dispatched(c))
  <1>1. /\ new \in [WorkerId -> Seq(FromWorker)] /\ new[w] = q
        /\ \A v \in WorkerId \ {w} : new[v] = back[v]
    OBVIOUS
  <1> HIDE DEF new
  <1>2. f \in [WorkerId -> Nat] /\ a \in Nat /\ x \in Nat /\ d \in Nat /\ f[w] = d + x
    BY AtWorkersType
  <1>3. g \in [WorkerId -> Nat] /\ b \in Nat
    BY <1>1, AtWorkersType
  <1>4. y \in Nat
    BY FunctionsType, QueueIndices
  <1>5. g[w] = d + y
    BY <1>1, Zenon DEF AtWorkers
  <1>6. g = [f EXCEPT ![w] = g[w]]
    <2>1. \A v \in WorkerId \ {w} : g[v] = f[v]
      BY <1>1 DEF AtWorkers
    <2> HIDE DEF f, g
    <2> QED BY <1>2, <1>3, <2>1
  <1>7. b + x = a + y
    <2> HIDE DEF f, g, x, y, d
    <2>1. b - g[w] = a - f[w]
      <3>1. g[w] \in Nat /\ f \in [WorkerId -> Nat]
        BY <1>2, <1>3
      <3>2. Sum([f EXCEPT ![w] = g[w]], WorkerId) - g[w] = Sum(f, WorkerId) - f[w]
        BY ONLY <3>1, w \in WorkerId, WorkerIdAssumption, SumExcept
      <3> QED BY <1>6, <3>2
    <2> HIDE DEF a, b
    <2> QED BY <1>2, <1>3, <1>4, <1>5, <2>1
  <1> QED BY <1>2, <1>3, <1>4, <1>7 DEF new, Between

LEMMA NoMoreAtWorkers ==
    ASSUME NEW out \in [WorkerId -> Seq(ToWorker)], NEW back \in [WorkerId -> Seq(FromWorker)],
           NEW out2 \in [WorkerId -> Seq(ToWorker)], NEW back2 \in [WorkerId -> Seq(FromWorker)],
           NEW c \in Call,
           \A v \in WorkerId : /\ Weigh(out2[v], Dispatched(c)) <= Weigh(out[v], Dispatched(c))
                               /\ Weigh(back2[v], Replied(c)) <= Weigh(back[v], Replied(c))
    PROVE  Sum(AtWorkers(out2, back2, c), WorkerId) <= Sum(AtWorkers(out, back, c), WorkerId)
  <1> DEFINE f == AtWorkers(out2, back2, c)
             g == AtWorkers(out, back, c)
  <1>1. /\ \A v \in WorkerId : f[v] \in Nat
        /\ \A v \in WorkerId : g[v] \in Nat
        /\ \A v \in WorkerId : f[v] <= g[v]
    <2>1. \A v \in WorkerId :
              /\ f[v] \in Nat /\ f[v] = Weigh(out2[v], Dispatched(c)) + Weigh(back2[v], Replied(c))
              /\ Weigh(out2[v], Dispatched(c)) \in Nat /\ Weigh(back2[v], Replied(c)) \in Nat
      BY AtWorkersType
    <2>2. \A v \in WorkerId :
              /\ g[v] \in Nat /\ g[v] = Weigh(out[v], Dispatched(c)) + Weigh(back[v], Replied(c))
              /\ Weigh(out[v], Dispatched(c)) \in Nat /\ Weigh(back[v], Replied(c)) \in Nat
      BY AtWorkersType
    <2> HIDE DEF f, g
    <2> QED BY <2>1, <2>2
  <1> HIDE DEF f, g
  <1>2. Sum(f, WorkerId) <= Sum(g, WorkerId)
    BY <1>1, WorkerIdAssumption, SumIsLess
  <1> QED BY <1>2 DEF f, g

-----------------------------------------------------------------------------
(* What moving a message does to the sums.                                 *)

LEMMA WaitsAppend ==
    ASSUME NEW q \in Seq(Request), NEW r \in Request, NEW c \in Call
    PROVE  Waits(Append(q, r), c) = Waits(q, c) + InRequest(r, c)
  <1>1. Requested(c)[r] = InRequest(r, c)
    BY DEF Requested
  <1> QED BY <1>1, FunctionsType, WeighAppend, ZenonT(60) DEF Waits

LEMMA WaitsTail ==
    ASSUME NEW q \in Seq(Request), q # <<>>, NEW c \in Call
    PROVE  Waits(q, c) = Waits(Tail(q), c) + InRequest(Head(q), c)
  <1>1. Head(q) \in Request
    BY HeadTailProperties
  <1>2. Requested(c)[Head(q)] = InRequest(Head(q), c)
    BY <1>1 DEF Requested
  <1> QED BY <1>2, FunctionsType, WeighTail DEF Waits

LEMMA SumsType ==
    ASSUME NEW out \in [WorkerId -> Seq(ToWorker)], NEW back \in [WorkerId -> Seq(FromWorker)],
           NEW q \in Seq(Request), NEW c \in Call
    PROVE  Waits(q, c) \in Nat /\ Between(out, back, c) \in Nat
  BY FunctionsType, QueueIndices, AtWorkersType DEF Waits, Between

LEMMA MessageType ==
    ASSUME NEW c \in Call
    PROVE  /\ \A r \in Request : InRequest(r, c) \in Nat
           /\ \A m \in ToWorker : InDispatch(m, c) \in Nat /\ Dispatched(c)[m] = InDispatch(m, c)
           /\ \A m \in FromWorker : InReply(m, c) \in Nat /\ Replied(c)[m] = InReply(m, c)
  <1>1. \A r \in Request : InRequest(r, c) = Requested(c)[r]
    BY DEF Requested
  <1>2. \A m \in ToWorker : Dispatched(c)[m] = InDispatch(m, c)
    BY DEF Dispatched
  <1>3. \A m \in FromWorker : Replied(c)[m] = InReply(m, c)
    BY DEF Replied
  <1>4. /\ \A r \in Request : Requested(c)[r] \in Nat
        /\ \A m \in ToWorker : Dispatched(c)[m] \in Nat
        /\ \A m \in FromWorker : Replied(c)[m] \in Nat
    BY FunctionsType
  <1> QED BY <1>1, <1>2, <1>3, <1>4

(* One message more to or from a worker, or one less.                      *)
LEMMA SentTo ==
    ASSUME NEW out \in [WorkerId -> Seq(ToWorker)], NEW back \in [WorkerId -> Seq(FromWorker)],
           NEW w \in WorkerId, NEW m \in ToWorker, NEW c \in Call
    PROVE  Between(WithMessage(out, w, m), back, c) <= Between(out, back, c) + InDispatch(m, c)
  <1> DEFINE q == Append(out[w], m)
  <1>1. InDispatch(m, c) \in Nat /\ Dispatched(c)[m] = InDispatch(m, c) /\ out[w] \in Seq(ToWorker)
    BY MessageType
  <1>2. q \in Seq(ToWorker) /\ Weigh(q, Dispatched(c)) = Weigh(out[w], Dispatched(c)) + Dispatched(c)[m]
    BY <1>1, FunctionsType, WeighAppend, AppendProperties
  <1>3. WithMessage(out, w, m) = IF w \in open THEN [out EXCEPT ![w] = q] ELSE out
    BY DEF WithMessage
  <1> HIDE DEF q
  <1>4. /\ Between(out, back, c) \in Nat /\ Between([out EXCEPT ![w] = q], back, c) \in Nat
        /\ Weigh(out[w], Dispatched(c)) \in Nat
        /\ Between([out EXCEPT ![w] = q], back, c) + Weigh(out[w], Dispatched(c))
               = Between(out, back, c) + Weigh(q, Dispatched(c))
    BY <1>2, OutChanges
  <1> QED BY <1>1, <1>2, <1>3, <1>4

LEMMA TakenBy ==
    ASSUME NEW out \in [WorkerId -> Seq(ToWorker)], NEW back \in [WorkerId -> Seq(FromWorker)],
           NEW w \in WorkerId, out[w] # <<>>, NEW c \in Call
    PROVE  Between(out, back, c)
               = Between([out EXCEPT ![w] = Tail(@)], back, c) + InDispatch(Head(out[w]), c)
  <1> DEFINE q == Tail(out[w])
             m == Head(out[w])
  <1>0. m \in ToWorker /\ q \in Seq(ToWorker) /\ out[w] \in Seq(ToWorker)
    BY HeadTailProperties
  <1>1. Weigh(out[w], Dispatched(c)) = Weigh(q, Dispatched(c)) + Dispatched(c)[m]
    BY <1>0, FunctionsType, WeighTail
  <1> HIDE DEF q, m
  <1>2. InDispatch(m, c) \in Nat /\ Dispatched(c)[m] = InDispatch(m, c)
    BY <1>0, MessageType
  <1>3. /\ Between(out, back, c) \in Nat /\ Between([out EXCEPT ![w] = q], back, c) \in Nat
        /\ Weigh(q, Dispatched(c)) \in Nat
        /\ Between([out EXCEPT ![w] = q], back, c) + Weigh(out[w], Dispatched(c))
               = Between(out, back, c) + Weigh(q, Dispatched(c))
    BY <1>0, OutChanges
  <1>4. Between(out, back, c) = Between([out EXCEPT ![w] = q], back, c) + InDispatch(m, c)
    <2> DEFINE a == Between(out, back, c)
               b == Between([out EXCEPT ![w] = q], back, c)
               x == Weigh(out[w], Dispatched(c))
               y == Weigh(q, Dispatched(c))
               d == InDispatch(m, c)
    <2>1. a \in Nat /\ b \in Nat /\ x \in Nat /\ y \in Nat /\ d \in Nat
      BY <1>1, <1>2, <1>3
    <2>2. b + x = a + y
      BY <1>1, <1>2, <1>3
    <2>3. x = y + d
      BY <1>1, <1>2, <1>3
    <2> HIDE DEF a, b, x, y, d
    <2>4. a = b + d
      BY <2>1, <2>2, <2>3
    <2> QED BY <2>4 DEF a, b, d
  <1> QED BY <1>4 DEF q, m

LEMMA SaidBy ==
    ASSUME NEW out \in [WorkerId -> Seq(ToWorker)], NEW back \in [WorkerId -> Seq(FromWorker)],
           NEW w \in WorkerId, NEW m \in FromWorker, NEW c \in Call
    PROVE  Between(out, [back EXCEPT ![w] = Append(@, m)], c) = Between(out, back, c) + InReply(m, c)
  <1> DEFINE q == Append(back[w], m)
  <1>1. InReply(m, c) \in Nat /\ Replied(c)[m] = InReply(m, c) /\ back[w] \in Seq(FromWorker)
    BY MessageType
  <1>2. q \in Seq(FromWorker) /\ Weigh(q, Replied(c)) = Weigh(back[w], Replied(c)) + Replied(c)[m]
    BY <1>1, FunctionsType, WeighAppend, AppendProperties
  <1> HIDE DEF q
  <1>3. /\ Between(out, back, c) \in Nat /\ Between(out, [back EXCEPT ![w] = q], c) \in Nat
        /\ Weigh(back[w], Replied(c)) \in Nat
        /\ Between(out, [back EXCEPT ![w] = q], c) + Weigh(back[w], Replied(c))
               = Between(out, back, c) + Weigh(q, Replied(c))
    BY <1>2, BackChanges
  <1>4. Between(out, [back EXCEPT ![w] = q], c) = Between(out, back, c) + InReply(m, c)
    <2> DEFINE a == Between(out, back, c)
               b == Between(out, [back EXCEPT ![w] = q], c)
               x == Weigh(back[w], Replied(c))
               y == Weigh(q, Replied(c))
               d == InReply(m, c)
    <2>1. a \in Nat /\ b \in Nat /\ x \in Nat /\ y \in Nat /\ d \in Nat
      BY <1>1, <1>2, <1>3
    <2>2. b + x = a + y
      BY <1>1, <1>2, <1>3
    <2>3. y = x + d
      BY <1>1, <1>2, <1>3
    <2> HIDE DEF a, b, x, y, d
    <2>4. b = a + d
      BY <2>1, <2>2, <2>3
    <2> QED BY <2>4 DEF a, b, d
  <1> QED BY <1>4 DEF q

LEMMA HeardFrom ==
    ASSUME NEW out \in [WorkerId -> Seq(ToWorker)], NEW back \in [WorkerId -> Seq(FromWorker)],
           NEW w \in WorkerId, back[w] # <<>>, NEW c \in Call
    PROVE  Between(out, back, c)
               = Between(out, [back EXCEPT ![w] = Tail(@)], c) + InReply(Head(back[w]), c)
  <1> DEFINE q == Tail(back[w])
             m == Head(back[w])
  <1>0. m \in FromWorker /\ q \in Seq(FromWorker) /\ back[w] \in Seq(FromWorker)
    BY HeadTailProperties
  <1>1. Weigh(back[w], Replied(c)) = Weigh(q, Replied(c)) + Replied(c)[m]
    BY <1>0, FunctionsType, WeighTail
  <1> HIDE DEF q, m
  <1>2. InReply(m, c) \in Nat /\ Replied(c)[m] = InReply(m, c)
    BY <1>0, MessageType
  <1>3. /\ Between(out, back, c) \in Nat /\ Between(out, [back EXCEPT ![w] = q], c) \in Nat
        /\ Weigh(q, Replied(c)) \in Nat
        /\ Between(out, [back EXCEPT ![w] = q], c) + Weigh(back[w], Replied(c))
               = Between(out, back, c) + Weigh(q, Replied(c))
    BY <1>0, BackChanges
  <1>4. Between(out, back, c) = Between(out, [back EXCEPT ![w] = q], c) + InReply(m, c)
    <2> DEFINE a == Between(out, back, c)
               b == Between(out, [back EXCEPT ![w] = q], c)
               x == Weigh(back[w], Replied(c))
               y == Weigh(q, Replied(c))
               d == InReply(m, c)
    <2>1. a \in Nat /\ b \in Nat /\ x \in Nat /\ y \in Nat /\ d \in Nat
      BY <1>1, <1>2, <1>3
    <2>2. b + x = a + y
      BY <1>1, <1>2, <1>3
    <2>3. x = y + d
      BY <1>1, <1>2, <1>3
    <2> HIDE DEF a, b, x, y, d
    <2>4. a = b + d
      BY <2>1, <2>2, <2>3
    <2> QED BY <2>4 DEF a, b, d
  <1> QED BY <1>4 DEF q, m

(* A queue that holds no more of a call: a part of what it was, or with a  *)
(* message behind it that is of no call.                                   *)
OutFalls(q, q2) ==
    \/ q2 \in {q, <<>>} \cup Older(q) \cup Newer(q)
    \/ \E m \in ToWorker : m.cmd # "REQUEST" /\ q2 = Append(q, m)

BackFalls(q, q2) ==
    \/ q2 \in {q, <<>>} \cup Older(q) \cup Newer(q)
    \/ \E m \in FromWorker : m.cmd # "REPLY" /\ q2 = Append(q, m)

LEMMA PartFalls ==
    ASSUME NEW S, NEW q \in Seq(S), NEW f \in [S -> Nat],
           NEW q2 \in {q, <<>>} \cup Older(q) \cup Newer(q)
    PROVE  Weigh(q2, f) <= Weigh(q, f)
  <1>0. Weigh(q, f) \in Nat /\ Len(q) \in Nat
    BY QueueIndices
  <1>1. CASE q2 = q
    BY <1>0, <1>1
  <1>2. CASE q2 = <<>>
    BY <1>0, <1>2, WeighNothing
  <1>3. CASE q2 \in Older(q)
    <2>1. PICK k \in 0..Len(q) : q2 = SubSeq(q, 1, k)
      BY <1>3 DEF Older
    <2>2. 1 \in Nat \ {0}
      OBVIOUS
    <2> QED BY <2>1, <2>2, WeighPart
  <1>4. CASE q2 \in Newer(q)
    <2>1. PICK k \in 1..Len(q) + 1 : q2 = SubSeq(q, k, Len(q))
      BY <1>4 DEF Newer
    <2>2. k \in Nat \ {0} /\ Len(q) \in 0..Len(q)
      BY <1>0
    <2> QED BY <2>1, <2>2, WeighPart
  <1> QED BY <1>1, <1>2, <1>3, <1>4

LEMMA OutWeighsLess ==
    ASSUME NEW q \in Seq(ToWorker), NEW q2, OutFalls(q, q2), NEW c \in Call
    PROVE  Weigh(q2, Dispatched(c)) <= Weigh(q, Dispatched(c))
  <1>0. Dispatched(c) \in [ToWorker -> Nat]
    BY FunctionsType
  <1>1. CASE q2 \in {q, <<>>} \cup Older(q) \cup Newer(q)
    BY <1>0, <1>1, PartFalls
  <1>2. ASSUME NEW m \in ToWorker, m.cmd # "REQUEST", q2 = Append(q, m)
        PROVE  Weigh(q2, Dispatched(c)) <= Weigh(q, Dispatched(c))
    <2>1. Dispatched(c)[m] = 0
      BY <1>2, MessageType DEF InDispatch
    <2>2. Weigh(Append(q, m), Dispatched(c)) = Weigh(q, Dispatched(c)) + Dispatched(c)[m]
      BY <1>0, WeighAppend
    <2>3. Weigh(q, Dispatched(c)) \in Nat
      BY <1>0, QueueIndices
    <2> QED BY <1>2, <2>1, <2>2, <2>3
  <1> QED BY <1>1, <1>2 DEF OutFalls

LEMMA BackWeighsLess ==
    ASSUME NEW q \in Seq(FromWorker), NEW q2, BackFalls(q, q2), NEW c \in Call
    PROVE  Weigh(q2, Replied(c)) <= Weigh(q, Replied(c))
  <1>0. Replied(c) \in [FromWorker -> Nat]
    BY FunctionsType
  <1>1. CASE q2 \in {q, <<>>} \cup Older(q) \cup Newer(q)
    BY <1>0, <1>1, PartFalls
  <1>2. ASSUME NEW m \in FromWorker, m.cmd # "REPLY", q2 = Append(q, m)
        PROVE  Weigh(q2, Replied(c)) <= Weigh(q, Replied(c))
    <2>1. Replied(c)[m] = 0
      BY <1>2, MessageType DEF InReply
    <2>2. Weigh(Append(q, m), Replied(c)) = Weigh(q, Replied(c)) + Replied(c)[m]
      BY <1>0, WeighAppend
    <2>3. Weigh(q, Replied(c)) \in Nat
      BY <1>0, QueueIndices
    <2> QED BY <1>2, <2>1, <2>2, <2>3
  <1> QED BY <1>1, <1>2 DEF BackFalls

-----------------------------------------------------------------------------
(* Steps after which no more is owed.                                      *)

NoMoreOwed == \A c \in Call : Owed(c)' <= Owed(c)

(* Whatever MaxQueue is: workers that say what they have to say however    *)
(* much is waiting, as those of the service do.                            *)
SaysAnyway(w, m) ==
    /\ w \in open
    /\ internal_in' = [internal_in EXCEPT ![w] = Append(@, m)]

RepliesAnyway(w, c) ==
    /\ \E n \in 1..MaxActions :
          /\ n <= held[c]
          /\ SaysAnyway(w, [cmd |-> "REPLY", call |-> c, results |-> n])
          /\ held' = [held EXCEPT ![c] = @ - n]
    /\ UNCHANGED <<brokerVars, open, internal_out, external_in, external_out, sent, crashes>>

HeartbeatsAnyway(w) ==
    /\ SaysAnyway(w, [cmd |-> "HEARTBEAT"])
    /\ UNCHANGED <<brokerVars, open, internal_out, external_in, external_out, sent, envVars>>

SpeakNext ==
    \E w \in WorkerId : HeartbeatsAnyway(w) \/ \E c \in Call : RepliesAnyway(w, c)

UnboundedNext == Next \/ SpeakNext

LEMMA SaidAnyway ==
    /\ \A w \in WorkerId : WorkerHeartbeats(w) => HeartbeatsAnyway(w)
    /\ \A w \in WorkerId, c \in Call : WorkerReplies(w, c) => RepliesAnyway(w, c)
  BY DEF WorkerHeartbeats, HeartbeatsAnyway, WorkerReplies, RepliesAnyway, Says, SaysAnyway

LEMMA SocketsType ==
    ASSUME TypeOK
    PROVE  /\ internal_out \in [WorkerId -> Seq(ToWorker)]
           /\ internal_in \in [WorkerId -> Seq(FromWorker)]
           /\ external_in \in Seq(Request) /\ requests \in Seq(Request)
           /\ held \in [Call -> Nat]
  BY DEF TypeOK, SocketsTypeOK, BrokerTypeOK

LEMMA PartsType ==
    ASSUME TypeOK, TypeOK', NEW c \in Call
    PROVE  /\ held[c] \in Nat /\ Waits(external_in, c) \in Nat /\ Waits(requests, c) \in Nat
           /\ Between(internal_out, internal_in, c) \in Nat
           /\ held'[c] \in Nat /\ Waits(external_in', c) \in Nat /\ Waits(requests', c) \in Nat
           /\ Between(internal_out', internal_in', c) \in Nat
           /\ Owed(c) = held[c] + Waits(external_in, c) + Waits(requests, c)
                            + Between(internal_out, internal_in, c)
           /\ Owed(c)' = held'[c] + Waits(external_in', c) + Waits(requests', c)
                            + Between(internal_out', internal_in', c)
  <1>1. /\ internal_out' \in [WorkerId -> Seq(ToWorker)]
        /\ internal_in' \in [WorkerId -> Seq(FromWorker)]
        /\ external_in' \in Seq(Request) /\ requests' \in Seq(Request)
        /\ held' \in [Call -> Nat]
    BY DEF TypeOK, SocketsTypeOK, BrokerTypeOK
  <1>2. /\ Waits(external_in, c) \in Nat /\ Waits(requests, c) \in Nat
        /\ Between(internal_out, internal_in, c) \in Nat
    BY SocketsType, SumsType
  <1>3. /\ Waits(external_in', c) \in Nat /\ Waits(requests', c) \in Nat
        /\ Between(internal_out', internal_in', c) \in Nat
    BY <1>1, SumsType
  <1>4. held[c] \in Nat /\ held'[c] \in Nat
    BY <1>1, SocketsType
  <1> QED BY <1>2, <1>3, <1>4, OwedChanges DEF OwedAt

LEMMA QueuesFall ==
    ASSUME TypeOK, TypeOK', held' = held,
           external_in' \in {external_in} \cup Newer(external_in),
           requests' \in {requests, <<>>},
           \A v \in WorkerId : OutFalls(internal_out[v], internal_out'[v]),
           \A v \in WorkerId : BackFalls(internal_in[v], internal_in'[v])
    PROVE  NoMoreOwed
  <1> SUFFICES ASSUME NEW c \in Call PROVE Owed(c)' <= Owed(c)
    BY DEF NoMoreOwed
  <1>1. Requested(c) \in [Request -> Nat]
    BY FunctionsType
  <1>2. Waits(external_in', c) <= Waits(external_in, c)
    BY <1>1, SocketsType, PartFalls DEF Waits
  <1>3. Waits(requests', c) <= Waits(requests, c)
    BY <1>1, SocketsType, PartFalls DEF Waits
  <1>4. Between(internal_out', internal_in', c) <= Between(internal_out, internal_in, c)
    <2>1. /\ internal_out' \in [WorkerId -> Seq(ToWorker)]
          /\ internal_in' \in [WorkerId -> Seq(FromWorker)]
      BY DEF TypeOK, SocketsTypeOK
    <2>2. \A v \in WorkerId : internal_out[v] \in Seq(ToWorker) /\ internal_in[v] \in Seq(FromWorker)
      BY SocketsType
    <2>3. \A v \in WorkerId :
              /\ Weigh(internal_out'[v], Dispatched(c)) <= Weigh(internal_out[v], Dispatched(c))
              /\ Weigh(internal_in'[v], Replied(c)) <= Weigh(internal_in[v], Replied(c))
      BY <2>2, OutWeighsLess, BackWeighsLess
    <2> QED BY <2>1, <2>3, SocketsType, NoMoreAtWorkers DEF Between
  <1> QED BY <1>2, <1>3, <1>4, PartsType, SMTT(60)

LEMMA TailIsNewer ==
    ASSUME NEW S, NEW q \in Seq(S), q # <<>>
    PROVE  Tail(q) \in Newer(q)
  <1>1. Tail(q) = SubSeq(q, 2, Len(q)) /\ Len(q) \in Nat \ {0}
    BY TailIsSubSeq, EmptySeq, LenProperties
  <1>2. 2 \in 1..Len(q) + 1
    BY <1>1
  <1> QED BY <1>1, <1>2 DEF Newer

LEMMA SameFalls ==
    /\ \A v \in WorkerId : OutFalls(internal_out[v], internal_out[v])
    /\ \A v \in WorkerId : BackFalls(internal_in[v], internal_in[v])
  BY DEF OutFalls, BackFalls

(* Nothing moves: a poll, a tick, the broker's timers.                     *)
LEMMA HeartbeatsFall ==
    ASSUME TypeOK, NEW ws, NEW v \in WorkerId
    PROVE  OutFalls(internal_out[v], WithHeartbeats(internal_out, ws)[v])
  <1>1. [cmd |-> "HEARTBEAT"] \in ToWorker /\ [cmd |-> "HEARTBEAT"].cmd # "REQUEST"
    BY DEF ToWorker
  <1>2. WithHeartbeats(internal_out, ws)[v] \in {internal_out[v], Append(internal_out[v], [cmd |-> "HEARTBEAT"])}
    BY DEF WithHeartbeats
  <1> QED BY <1>1, <1>2 DEF OutFalls

LEMMA IdleStepsFall ==
    ASSUME TypeOK, TypeOK', (Poll /\ UNCHANGED envVars) \/ (Timers /\ UNCHANGED envVars) \/ Tick \/ UNCHANGED vars
    PROVE  NoMoreOwed
  <1>1. /\ held' = held /\ external_in' = external_in /\ requests' = requests
        /\ internal_in' = internal_in
        /\ \/ internal_out' = internal_out
           \/ \E ws : internal_out' = WithHeartbeats(internal_out, ws)
    BY DEF Poll, Timers, Tick, BrokerTick, vars, brokerVars, socketVars, envVars
  <1>2. \A v \in WorkerId : OutFalls(internal_out[v], internal_out'[v])
    BY <1>1, SameFalls, HeartbeatsFall
  <1>3. \A v \in WorkerId : BackFalls(internal_in[v], internal_in'[v])
    BY <1>1, SameFalls
  <1> QED BY <1>1, <1>2, <1>3, QueuesFall

(* A message of a worker is taken; what is sent to it is no request.       *)
LEMMA HearingFalls ==
    ASSUME TypeOK, TypeOK', NEW w \in WorkerId, NEW cmd, Receives(w, cmd), UNCHANGED envVars,
           requests' = requests,
           \/ internal_out' = internal_out
           \/ internal_out' = WithMessage(internal_out, w, [cmd |-> "DISCONNECT"])
    PROVE  NoMoreOwed
  <1>1. [cmd |-> "DISCONNECT"] \in ToWorker /\ [cmd |-> "DISCONNECT"].cmd # "REQUEST"
    BY DEF ToWorker
  <1>2. /\ internal_in[w] # <<>> /\ external_in' = external_in
        /\ internal_in' = [internal_in EXCEPT ![w] = Tail(@)]
    BY DEF Receives
  <1>3. \A v \in WorkerId : OutFalls(internal_out[v], internal_out'[v])
    <2> SUFFICES ASSUME NEW v \in WorkerId PROVE OutFalls(internal_out[v], internal_out'[v])
      OBVIOUS
    <2>1. internal_out'[v] \in {internal_out[v], Append(internal_out[v], [cmd |-> "DISCONNECT"])}
      BY SocketsType DEF WithMessage
    <2> QED BY <1>1, <2>1 DEF OutFalls
  <1>4. \A v \in WorkerId : BackFalls(internal_in[v], internal_in'[v])
    <2> SUFFICES ASSUME NEW v \in WorkerId PROVE BackFalls(internal_in[v], internal_in'[v])
      OBVIOUS
    <2>1. Tail(internal_in[w]) \in Newer(internal_in[w])
      BY <1>2, SocketsType, TailIsNewer
    <2>2. internal_in'[v] = IF v = w THEN Tail(internal_in[w]) ELSE internal_in[v]
      BY <1>2, SocketsType
    <2> QED BY <2>1, <2>2 DEF BackFalls
  <1> QED BY <1>2, <1>3, <1>4, QueuesFall DEF envVars

LEMMA ProcessFalls ==
    ASSUME TypeOK, TypeOK', NEW w \in WorkerId, UNCHANGED envVars,
           \/ ProcessReady(w) \/ ProcessHeartbeat(w) \/ ProcessDisconnect(w)
           \/ ProcessInvalid(w)
           \/ ProcessReply(w) /\ ~exists(workers, w)
    PROVE  NoMoreOwed
  <1>1. PICK cmd \in {"READY", "HEARTBEAT", "DISCONNECT", "REPLY", "INVALID"} : Receives(w, cmd)
    BY DEF ProcessReady, ProcessHeartbeat, ProcessDisconnect, ProcessReply, ProcessInvalid
  <1>2. requests' = requests
    BY DEF ProcessReady, ProcessHeartbeat, ProcessDisconnect, ProcessReply, ProcessInvalid,
           worker_waiting, service_dispatch, Disconnects, KeepsQueue
  <1>3. \/ internal_out' = internal_out
        \/ internal_out' = WithMessage(internal_out, w, [cmd |-> "DISCONNECT"])
    BY DEF ProcessReady, ProcessHeartbeat, ProcessDisconnect, ProcessReply, ProcessInvalid,
           Disconnects
  <1> QED BY <1>1, <1>2, <1>3, HearingFalls

(* What workers do but take requests and reply.                            *)
LEMMA WorkerFalls ==
    ASSUME TypeOK, TypeOK', NEW w \in WorkerId,
           \/ WorkerOpens(w) \/ WorkerCloses(w) \/ WorkerLeaves(w)
           \/ WorkerTakesHeartbeat(w) \/ HeartbeatsAnyway(w) \/ WorkerGarbles(w)
    PROVE  NoMoreOwed
  <1>0. internal_out[w] \in Seq(ToWorker) /\ internal_in[w] \in Seq(FromWorker)
    BY SocketsType
  <1>1. held' = held /\ external_in' = external_in /\ requests' = requests
    BY DEF WorkerOpens, WorkerCloses, Closes, WorkerLeaves, WorkerTakesHeartbeat, HeartbeatsAnyway,
           WorkerGarbles, envVars, brokerVars
  <1>2. /\ \A v \in WorkerId \ {w} : internal_out'[v] = internal_out[v] /\ internal_in'[v] = internal_in[v]
        /\ OutFalls(internal_out[w], internal_out'[w])
        /\ BackFalls(internal_in[w], internal_in'[w])
    <2>1. CASE WorkerOpens(w)
      <3>1. [cmd |-> "READY"] \in FromWorker /\ [cmd |-> "READY"].cmd # "REPLY"
        BY DEF FromWorker
      <3>2. <<[cmd |-> "READY"]>> = Append(<<>>, [cmd |-> "READY"])
        OBVIOUS
      <3> QED BY <2>1, <3>1, <3>2, SocketsType DEF WorkerOpens, OutFalls, BackFalls
    <2>2. CASE WorkerCloses(w)
      <3>1. PICK kept \in 0..Len(internal_in[w]) : Closes(w, kept)
        BY <2>2 DEF WorkerCloses
      <3>2. SubSeq(internal_in[w], 1, kept) \in Older(internal_in[w])
        BY DEF Older
      <3> QED BY <3>1, <3>2, SocketsType DEF Closes, OutFalls, BackFalls
    <2>3. CASE WorkerLeaves(w)
      <3>1. [cmd |-> "DISCONNECT"] \in FromWorker /\ [cmd |-> "DISCONNECT"].cmd # "REPLY"
        BY DEF FromWorker
      <3> QED BY <2>3, <3>1, SocketsType DEF WorkerLeaves, OutFalls, BackFalls
    <2>4. CASE WorkerTakesHeartbeat(w)
      <3>1. Tail(internal_out[w]) \in Newer(internal_out[w])
        BY <1>0, <2>4, TailIsNewer DEF WorkerTakesHeartbeat
      <3> QED BY <2>4, <3>1, SocketsType DEF WorkerTakesHeartbeat, OutFalls, BackFalls
    <2>5. CASE HeartbeatsAnyway(w)
      <3>1. [cmd |-> "HEARTBEAT"] \in FromWorker /\ [cmd |-> "HEARTBEAT"].cmd # "REPLY"
        BY DEF FromWorker
      <3> QED BY <2>5, <3>1, SocketsType DEF HeartbeatsAnyway, SaysAnyway, OutFalls, BackFalls
    <2>6. CASE WorkerGarbles(w)
      <3>1. [cmd |-> "INVALID"] \in FromWorker /\ [cmd |-> "INVALID"].cmd # "REPLY"
        BY DEF FromWorker
      <3> QED BY <2>6, <3>1, SocketsType DEF WorkerGarbles, Says, OutFalls, BackFalls
    <2> QED BY <2>1, <2>2, <2>3, <2>4, <2>5, <2>6
  <1>3. /\ \A v \in WorkerId : OutFalls(internal_out[v], internal_out'[v])
        /\ \A v \in WorkerId : BackFalls(internal_in[v], internal_in'[v])
    BY <1>2, SameFalls
  <1> QED BY <1>1, <1>3, QueuesFall

LEMMA CrashFalls ==
    ASSUME TypeOK, TypeOK', BrokerCrash
    PROVE  NoMoreOwed
  <1>1. \A v \in WorkerId : internal_out'[v] \in Older(internal_out[v])
    BY DEF BrokerCrash, EachFrom
  <1>2. \A v \in WorkerId : internal_in'[v] \in Newer(internal_in[v])
    BY DEF BrokerCrash, EachFrom
  <1>3. held' = held /\ external_in' \in Newer(external_in) /\ requests' = <<>>
    BY DEF BrokerCrash
  <1> QED BY <1>1, <1>2, <1>3, QueuesFall DEF OutFalls, BackFalls

-----------------------------------------------------------------------------
(* Steps that move what is owed from one place to the next.                *)

(* What moves between two of the places, or is lost on the way.            *)
LEMMA MovesOnly ==
    ASSUME TypeOK, TypeOK', NEW c \in Call, NEW n \in Nat,
           \/ /\ held'[c] = held[c] + n
              /\ Waits(external_in', c) = Waits(external_in, c)
              /\ Waits(requests', c) = Waits(requests, c)
              /\ Between(internal_out', internal_in', c) + n <= Between(internal_out, internal_in, c)
           \/ /\ held'[c] + n = held[c]
              /\ Waits(external_in', c) = Waits(external_in, c)
              /\ Waits(requests', c) = Waits(requests, c)
              /\ Between(internal_out', internal_in', c) <= Between(internal_out, internal_in, c) + n
           \/ /\ held'[c] = held[c]
              /\ Waits(external_in', c) = Waits(external_in, c)
              /\ Waits(requests', c) + n = Waits(requests, c)
              /\ Between(internal_out', internal_in', c) <= Between(internal_out, internal_in, c) + n
           \/ /\ held'[c] = held[c]
              /\ Waits(external_in', c) + n = Waits(external_in, c)
              /\ Waits(requests', c) <= Waits(requests, c) + n
              /\ Between(internal_out', internal_in', c) = Between(internal_out, internal_in, c)
    PROVE  Owed(c)' <= Owed(c)
  <1> DEFINE h == held[c]  h2 == held'[c]
             e == Waits(external_in, c)  e2 == Waits(external_in', c)
             q == Waits(requests, c)  q2 == Waits(requests', c)
             b == Between(internal_out, internal_in, c)
             b2 == Between(internal_out', internal_in', c)
             o == Owed(c)  o2 == Owed(c)'
  <1>1. /\ h \in Nat /\ e \in Nat /\ q \in Nat /\ b \in Nat
        /\ h2 \in Nat /\ e2 \in Nat /\ q2 \in Nat /\ b2 \in Nat
        /\ o = h + e + q + b
        /\ o2 = h2 + e2 + q2 + b2
    BY PartsType
  <1>2. \/ h2 = h + n /\ e2 = e /\ q2 = q /\ b2 + n <= b
        \/ h2 + n = h /\ e2 = e /\ q2 = q /\ b2 <= b + n
        \/ h2 = h /\ e2 = e /\ q2 + n = q /\ b2 <= b + n
        \/ h2 = h /\ e2 + n = e /\ q2 <= q + n /\ b2 = b
    OBVIOUS
  <1>3. o2 <= o
    <2> HIDE DEF h, h2, e, e2, q, q2, b, b2, o, o2
    <2> QED BY ONLY <1>1, <1>2, n \in Nat
  <1> QED BY <1>3

LEMMA TakesRequestFalls ==
    ASSUME TypeOK, TypeOK', NEW w \in WorkerId, WorkerTakesRequest(w)
    PROVE  NoMoreOwed
  <1> DEFINE m == Head(internal_out[w])
             r == m.req
  <1>0. /\ internal_out[w] \in Seq(ToWorker) /\ internal_out[w] # <<>>
        /\ m.cmd = "REQUEST"
    BY SocketsType DEF WorkerTakesRequest
  <1>1. m \in ToWorker
    BY <1>0, HeadTailProperties
  <1>2. r \in Request
    BY <1>0, <1>1 DEF ToWorker
  <1>3. /\ held' = [held EXCEPT ![r.call] = @ + r.actions]
        /\ internal_out' = [internal_out EXCEPT ![w] = Tail(@)]
        /\ internal_in' = internal_in /\ external_in' = external_in /\ requests' = requests
    BY DEF WorkerTakesRequest, brokerVars
  <1> SUFFICES ASSUME NEW c \in Call PROVE Owed(c)' <= Owed(c)
    BY DEF NoMoreOwed
  <1>4. Between(internal_out, internal_in, c)
            = Between(internal_out', internal_in', c) + InRequest(r, c)
    <2>1. Between(internal_out, internal_in, c)
              = Between([internal_out EXCEPT ![w] = Tail(@)], internal_in, c) + InDispatch(m, c)
      BY <1>0, SocketsType, TakenBy
    <2>2. InDispatch(m, c) = InRequest(r, c)
      BY <1>0 DEF InDispatch
    <2> HIDE DEF m
    <2> QED BY <1>3, <2>1, <2>2
  <1> HIDE DEF r, m
  <1>5. InRequest(r, c) \in Nat
    BY <1>2, MessageType
  <1>6. held'[c] = held[c] + InRequest(r, c)
    <2>1. held[c] \in Nat /\ held \in [Call -> Nat]
      BY SocketsType
    <2>2. CASE r.call = c
      BY <1>3, <2>1, <2>2 DEF InRequest
    <2>3. CASE r.call # c
      BY <1>3, <2>1, <2>3 DEF InRequest
    <2> QED BY <2>2, <2>3
  <1>7. /\ Between(internal_out', internal_in', c) \in Nat
        /\ Between(internal_out, internal_in, c) \in Nat
    BY PartsType
  <1>8. Between(internal_out', internal_in', c) + InRequest(r, c) <= Between(internal_out, internal_in, c)
    BY <1>4, <1>5, <1>7
  <1>9. Waits(external_in', c) = Waits(external_in, c) /\ Waits(requests', c) = Waits(requests, c)
    BY <1>3
  <1> QED BY <1>5, <1>6, <1>8, <1>9, MovesOnly

LEMMA RepliesFalls ==
    ASSUME TypeOK, TypeOK', NEW w \in WorkerId, NEW d \in Call, RepliesAnyway(w, d)
    PROVE  NoMoreOwed
  <1>1. PICK n \in 1..MaxActions :
            /\ n <= held[d]
            /\ SaysAnyway(w, [cmd |-> "REPLY", call |-> d, results |-> n])
            /\ held' = [held EXCEPT ![d] = @ - n]
    BY DEF RepliesAnyway
  <1> DEFINE m == [cmd |-> "REPLY", call |-> d, results |-> n]
  <1>2. m \in FromWorker
    BY DEF FromWorker
  <1>3. internal_out' = internal_out /\ external_in' = external_in /\ requests' = requests
    BY DEF RepliesAnyway, brokerVars
  <1>4. n \in Nat /\ held[d] \in Nat /\ held \in [Call -> Nat]
    BY SocketsType, RequestAssumption
  <1> SUFFICES ASSUME NEW c \in Call PROVE Owed(c)' <= Owed(c)
    BY DEF NoMoreOwed
  <1>5. Between(internal_out', internal_in', c)
            = Between(internal_out, internal_in, c) + InReply(m, c)
    <2>1. internal_in' = [internal_in EXCEPT ![w] = Append(@, m)]
      BY <1>1 DEF SaysAnyway
    <2> HIDE DEF m
    <2>2. Between(internal_out, [internal_in EXCEPT ![w] = Append(@, m)], c)
              = Between(internal_out, internal_in, c) + InReply(m, c)
      BY <1>2, SocketsType, SaidBy
    <2> QED BY <1>3, <2>1, <2>2
  <1>6. held'[c] + InReply(m, c) = held[c]
    <2>1. CASE c = d
      BY <1>1, <1>4, <2>1 DEF InReply
    <2>2. CASE c # d
      <3>1. held'[c] = held[c] /\ InReply(m, c) = 0 /\ held[c] \in Nat
        BY <1>1, <1>4, <2>2 DEF InReply
      <3> QED BY <3>1
    <2> QED BY <2>1, <2>2
  <1>7. InReply(m, c) \in Nat
    <2> HIDE DEF m
    <2> QED BY <1>2, MessageType
  <1>8. /\ Between(internal_out', internal_in', c) \in Nat
        /\ Between(internal_out, internal_in, c) \in Nat
    BY PartsType
  <1> HIDE DEF m
  <1>9. Between(internal_out', internal_in', c) <= Between(internal_out, internal_in, c) + InReply(m, c)
    BY <1>5, <1>7, <1>8
  <1>10. Waits(external_in', c) = Waits(external_in, c) /\ Waits(requests', c) = Waits(requests, c)
    BY <1>3
  <1> QED BY <1>6, <1>7, <1>9, <1>10, MovesOnly

LEMMA DispatchFalls ==
    ASSUME TypeOK, TypeOK', LoopHasWorkerAndRequest, NEW w \in WorkerId, DispatchTo(w), UNCHANGED envVars
    PROVE  NoMoreOwed
  <1> DEFINE r == Head(requests)
             m == [cmd |-> "REQUEST", req |-> r]
  <1>0. requests \in Seq(Request) /\ requests # <<>>
    BY SocketsType DEF DispatchTo, LoopHasWorkerAndRequest
  <1>1. r \in Request
    BY <1>0, HeadTailProperties
  <1>2. m \in ToWorker /\ m.cmd = "REQUEST" /\ m.req = r
    BY <1>1 DEF ToWorker
  <1>3. /\ held' = held /\ external_in' = external_in /\ internal_in' = internal_in
        /\ requests' = Tail(requests) /\ internal_out' = WithMessage(internal_out, w, m)
    BY DEF DispatchTo, envVars
  <1> SUFFICES ASSUME NEW c \in Call PROVE Owed(c)' <= Owed(c)
    BY DEF NoMoreOwed
  <1> HIDE DEF m
  <1>4. Waits(requests, c) = Waits(requests', c) + InRequest(r, c)
    BY <1>0, <1>3, WaitsTail
  <1> HIDE DEF r
  <1>5. InRequest(r, c) \in Nat /\ InDispatch(m, c) = InRequest(r, c)
    BY <1>1, <1>2, MessageType DEF InDispatch
  <1>6. Between(internal_out', internal_in', c) <= Between(internal_out, internal_in, c) + InRequest(r, c)
    <2>1. Between(WithMessage(internal_out, w, m), internal_in, c)
              <= Between(internal_out, internal_in, c) + InDispatch(m, c)
      BY <1>2, SocketsType, SentTo
    <2> QED BY <1>3, <1>5, <2>1
  <1>7. Waits(external_in', c) = Waits(external_in, c) /\ held'[c] = held[c]
    BY <1>3
  <1>8. Waits(requests', c) + InRequest(r, c) = Waits(requests, c)
    BY <1>4
  <1> QED BY <1>5, <1>6, <1>7, <1>8, MovesOnly

LEMMA ClientFalls ==
    ASSUME TypeOK, TypeOK', client_process, UNCHANGED envVars
    PROVE  NoMoreOwed
  <1> DEFINE r == Head(external_in)
  <1>0. external_in \in Seq(Request) /\ external_in # <<>> /\ requests \in Seq(Request)
    BY SocketsType DEF client_process
  <1>1. r \in Request
    BY <1>0, HeadTailProperties
  <1>2. /\ held' = held /\ internal_in' = internal_in /\ internal_out' = internal_out
        /\ external_in' = Tail(external_in)
        /\ requests' \in {requests, Append(requests, r)}
    BY DEF client_process, service_dispatch, envVars
  <1> SUFFICES ASSUME NEW c \in Call PROVE Owed(c)' <= Owed(c)
    BY DEF NoMoreOwed
  <1>3. Waits(external_in, c) = Waits(external_in', c) + InRequest(r, c)
    BY <1>0, <1>2, WaitsTail
  <1> HIDE DEF r
  <1>4. Waits(Append(requests, r), c) = Waits(requests, c) + InRequest(r, c)
    BY <1>0, <1>1, WaitsAppend
  <1>5. InRequest(r, c) \in Nat
    BY <1>1, MessageType
  <1>6. Waits(requests', c) <= Waits(requests, c) + InRequest(r, c)
    <2>1. Waits(requests, c) \in Nat
      BY PartsType
    <2>2. CASE requests' = requests
      <3>1. Waits(requests', c) = Waits(requests, c)
        BY <2>2
      <3> QED BY <1>5, <2>1, <3>1
    <2>3. CASE requests' = Append(requests, r)
      <3>1. Waits(requests', c) = Waits(requests, c) + InRequest(r, c)
        BY <1>4, <2>3
      <3> QED BY <1>5, <2>1, <3>1
    <2> QED BY <1>2, <2>2, <2>3
  <1>7. /\ Waits(external_in', c) + InRequest(r, c) = Waits(external_in, c)
        /\ held'[c] = held[c]
        /\ Between(internal_out', internal_in', c) = Between(internal_out, internal_in, c)
    BY <1>2, <1>3
  <1> QED BY <1>5, <1>6, <1>7, MovesOnly

-----------------------------------------------------------------------------
(* What was asked for.                                                     *)

AskedIn(S, c) == Cardinality({x \in S \X Actions : x[2] <= InRequest(x[1], c)})

OneRequestPerCall == \A r, s \in sent : r.call = s.call => r = s

LEMMA NothingAsked ==
    ASSUME NEW S \in SUBSET Request, NEW c \in Call, \A s \in S : s.call # c
    PROVE  AskedIn(S, c) = 0
  <1>1. \A k \in Actions : ~(k <= 0)
    BY RequestAssumption DEF Actions
  <1>2. \A s \in S : InRequest(s, c) = 0
    BY DEF InRequest
  <1>3. {x \in S \X Actions : x[2] <= InRequest(x[1], c)} = {}
    BY <1>1, <1>2
  <1> QED BY <1>3, FS_EmptySet DEF AskedIn

LEMMA AskedOnce ==
    ASSUME NEW S \in SUBSET Request, NEW r \in S, \A s \in S : s.call = r.call => s = r
    PROVE  AskedIn(S, r.call) = r.actions
  <1> DEFINE c == r.call
             n == r.actions
             f == [i \in {r} |-> n]
  <1>1. n \in 0..MaxActions /\ n \in Nat /\ MaxActions \in Nat
    BY RequestIs, RequestAssumption
  <1>2. ASSUME NEW s \in S, NEW k \in Actions
        PROVE  k <= InRequest(s, c) <=> s = r /\ k \in 1..n
    <2>1. k \in Nat /\ 1 <= k
      BY <1>1 DEF Actions
    <2>2. CASE s = r
      <3>1. InRequest(s, c) = n
        BY <2>2 DEF InRequest
      <3> HIDE DEF n
      <3> QED BY <1>1, <2>1, <2>2, <3>1
    <2>3. CASE s # r
      <3>1. InRequest(s, c) = 0
        BY <2>3 DEF InRequest
      <3> QED BY <2>1, <2>3, <3>1
    <2> QED BY <2>2, <2>3
  <1>3. 1..n \subseteq Actions
    BY <1>1 DEF Actions
  <1> HIDE DEF c, n
  <1>4. {x \in S \X Actions : x[2] <= InRequest(x[1], c)} = {r} \X (1..n)
    BY <1>2, <1>3
  <1>5. {r} \X (1..n) = Pairs(f, {r})
    BY DEF Pairs
  <1>6. Sum(f, {r}) = n
    <2>1. IsFiniteSet({r}) /\ f[r] = n /\ \A i \in {r} : f[i] \in Nat
      BY <1>1, FS_Singleton
    <2>2. {r} \ {r} = {}
      OBVIOUS
    <2> HIDE DEF f
    <2>3. Sum(f, {r}) = Sum(f, {r} \ {r}) + f[r]
      BY <2>1, SumSplits
    <2>4. Sum(f, {}) = 0
      BY SumOfNothing
    <2> QED BY <1>1, <2>1, <2>2, <2>3, <2>4
  <1>7. AskedIn(S, c) = n
    BY <1>4, <1>5, <1>6 DEF AskedIn, Sum
  <1> QED BY <1>7 DEF c, n

LEMMA AskedSame ==
    ASSUME NEW S \in SUBSET Request, NEW r \in Request, NEW c \in Call, r.call # c
    PROVE  AskedIn(S \cup {r}, c) = AskedIn(S, c)
  <1>1. InRequest(r, c) = 0 /\ \A k \in Actions : ~(k <= 0)
    BY RequestAssumption DEF Actions, InRequest
  <1>2. {x \in (S \cup {r}) \X Actions : x[2] <= InRequest(x[1], c)}
            = {x \in S \X Actions : x[2] <= InRequest(x[1], c)}
    BY <1>1
  <1> QED BY <1>2 DEF AskedIn

LEMMA AskedType ==
    ASSUME TypeOK, OneRequestPerCall, NEW c \in Call
    PROVE  Asked(c) \in 0..MaxActions /\ Asked(c) = AskedIn(sent, c)
  <1>0. sent \in SUBSET Request /\ 0 \in 0..MaxActions
    BY RequestAssumption DEF TypeOK, SocketsTypeOK
  <1>1. Asked(c) = AskedIn(sent, c)
    BY DEF Asked, AskedIn
  <1>2. CASE \A s \in sent : s.call # c
    BY <1>0, <1>1, <1>2, NothingAsked
  <1>3. CASE \E s \in sent : s.call = c
    <2>1. PICK r \in sent : r.call = c
      BY <1>3
    <2>2. AskedIn(sent, r.call) = r.actions
      BY <1>0, AskedOnce DEF OneRequestPerCall
    <2>3. r.actions \in 0..MaxActions
      BY <1>0, RequestIs
    <2> QED BY <1>1, <2>1, <2>2, <2>3
  <1> QED BY <1>2, <1>3

-----------------------------------------------------------------------------
(* The inductive invariant: no two requests are of one call, and what a    *)
(* client was sent and is still owed for a call is no more than it asked.  *)

AnsweredOnce == \A c \in Call : external_out[c].results + Owed(c) <= Asked(c)

PInv == IInv /\ OneRequestPerCall /\ AnsweredOnce

ResultsStay == \A c \in Call : external_out'[c].results = external_out[c].results

LEMMA ResultsAreCounts ==
    ASSUME TypeOK, NEW c \in Call
    PROVE  external_out[c].results \in Nat
  BY DEF TypeOK, SocketsTypeOK, ClientBox

(* A step that answers nothing and owes no more loses.                     *)
LEMMA LosingStep ==
    ASSUME PInv, IInv', NoMoreOwed, sent' = sent, ResultsStay
    PROVE  PInv' /\ Promise!Lose
  <1>0. TypeOK /\ TypeOK' /\ OneRequestPerCall /\ AnsweredOnce
    BY DEF PInv, IInv
  <1>1. OneRequestPerCall'
    BY <1>0 DEF OneRequestPerCall
  <1>2. ASSUME NEW c \in Call PROVE Asked(c)' = Asked(c)
    BY DEF Asked
  <1>3. ASSUME NEW c \in Call
        PROVE  /\ Owed(c)' \in 0..MaxActions /\ Owed(c)' <= Owed(c)
               /\ external_out'[c].results = external_out[c].results
               /\ external_out'[c].results + Owed(c)' <= Asked(c)'
    <2>1. /\ Owed(c) \in Nat /\ Owed(c)' \in Nat
      BY <1>0, PartsType
    <2>2. Owed(c)' <= Owed(c) /\ external_out[c].results + Owed(c) <= Asked(c)
      BY <1>0 DEF NoMoreOwed, AnsweredOnce
    <2>3. external_out[c].results \in Nat /\ external_out'[c].results = external_out[c].results
      BY <1>0, ResultsAreCounts DEF ResultsStay
    <2>4. Asked(c) \in 0..MaxActions /\ MaxActions \in Nat /\ Asked(c)' = Asked(c)
      BY <1>0, <1>2, AskedType, RequestAssumption
    <2> QED BY <2>1, <2>2, <2>3, <2>4
  <1>4. PInv'
    BY <1>1, <1>3 DEF PInv, AnsweredOnce
  <1> DEFINE left == [c \in Call |-> Owed(c)']
  <1>5. left \in [Call -> 0..MaxActions] /\ \A c \in Call : left[c] <= Owed(c)
    BY <1>3
  <1>6. /\ [c \in Call |-> Owed(c)]' = left
        /\ [c \in Call |-> Asked(c)]' = [c \in Call |-> Asked(c)]
        /\ [c \in Call |-> external_out[c].results]' = [c \in Call |-> external_out[c].results]
    BY <1>2, <1>3
  <1>7. Promise!Lose
    BY <1>5, <1>6 DEF Promise!Lose
  <1> QED BY <1>4, <1>7

(* A client asks.                                                          *)
LEMMA AskingStep ==
    ASSUME PInv, IInv', NEW r \in Request, ClientSend(r), UNCHANGED <<brokerVars, envVars>>
    PROVE  PInv' /\ Promise!Ask(r.call, r.actions)
  <1>0. /\ TypeOK /\ TypeOK' /\ OneRequestPerCall /\ AnsweredOnce
        /\ sent \in SUBSET Request /\ sent' \in SUBSET Request /\ external_in \in Seq(Request)
    BY DEF PInv, IInv, TypeOK, SocketsTypeOK
  <1>1. /\ \A s \in sent : s.call # r.call
        /\ sent' = sent \cup {r} /\ external_in' = Append(external_in, r)
        /\ held' = held /\ requests' = requests /\ internal_in' = internal_in
        /\ internal_out' = internal_out /\ external_out' = external_out
    BY DEF ClientSend, brokerVars, envVars
  <1>2. r.call \in Call /\ r.actions \in 0..MaxActions /\ MaxActions \in Nat
    BY RequestIs, RequestAssumption
  <1>3. OneRequestPerCall'
    BY <1>0, <1>1 DEF OneRequestPerCall
  <1>4. ASSUME NEW c \in Call
        PROVE  /\ Owed(c)' = Owed(c) + InRequest(r, c)
               /\ Owed(c) \in Nat /\ InRequest(r, c) \in Nat
    <2> DEFINE e == Waits(external_in, c)
               e2 == Waits(external_in', c)
               n == InRequest(r, c)
    <2>1. e2 = e + n /\ n \in Nat
      BY <1>0, <1>1, WaitsAppend, MessageType
    <2>2. /\ held'[c] = held[c] /\ Waits(requests', c) = Waits(requests, c)
          /\ Between(internal_out', internal_in', c) = Between(internal_out, internal_in, c)
      BY <1>1
    <2>3. /\ held[c] \in Nat /\ e \in Nat /\ Waits(requests, c) \in Nat
          /\ Between(internal_out, internal_in, c) \in Nat
          /\ Owed(c) = held[c] + e + Waits(requests, c) + Between(internal_out, internal_in, c)
          /\ Owed(c)' = held'[c] + e2 + Waits(requests', c) + Between(internal_out', internal_in', c)
      BY <1>0, PartsType
    <2> HIDE DEF e, e2, n
    <2>4. Owed(c)' = Owed(c) + n /\ Owed(c) \in Nat
      BY <2>1, <2>2, <2>3
    <2> QED BY <2>1, <2>4 DEF n
  <1>5. ASSUME NEW c \in Call
        PROVE  /\ Asked(c) = AskedIn(sent, c) /\ Asked(c)' = AskedIn(sent', c)
               /\ Asked(c) \in Nat /\ external_out[c].results \in Nat
               /\ external_out[c].results + Owed(c) <= Asked(c)
    <2>1. Asked(c) \in Nat
      BY <1>0, <1>2, AskedType
    <2> QED BY <1>0, <2>1, ResultsAreCounts DEF Asked, AskedIn, AnsweredOnce
  <1>6. /\ Asked(r.call) = 0 /\ Asked(r.call)' = r.actions
        /\ Owed(r.call) = 0 /\ external_out[r.call].results = 0
        /\ Owed(r.call)' = r.actions
    <2>1. Asked(r.call) = 0
      BY <1>0, <1>1, <1>2, <1>5, NothingAsked
    <2>2. Asked(r.call)' = r.actions
      <3>1. r \in sent' /\ \A s \in sent' : s.call = r.call => s = r
        BY <1>1
      <3>2. AskedIn(sent', r.call) = r.actions
        BY <1>0, <3>1, AskedOnce
      <3> QED BY <1>2, <1>5, <3>2
    <2>3. Owed(r.call) = 0 /\ external_out[r.call].results = 0
      BY <1>2, <1>4, <1>5, <2>1
    <2>4. Owed(r.call)' = r.actions
      <3>1. InRequest(r, r.call) = r.actions
        BY DEF InRequest
      <3> QED BY <1>2, <1>4, <2>3, <3>1
    <2> QED BY <2>1, <2>2, <2>3, <2>4
  <1>7. ASSUME NEW c \in Call, c # r.call
        PROVE  Asked(c)' = Asked(c) /\ Owed(c)' = Owed(c)
    <2>1. Asked(c)' = Asked(c)
      BY <1>0, <1>1, <1>5, <1>7, AskedSame
    <2>2. InRequest(r, c) = 0
      BY <1>7 DEF InRequest
    <2> QED BY <1>4, <2>1, <2>2
  <1>8. AnsweredOnce'
    <2>1. ASSUME NEW c \in Call PROVE external_out'[c].results + Owed(c)' <= Asked(c)'
      <3>1. CASE c = r.call
        BY <1>1, <1>2, <1>6, <3>1
      <3>2. CASE c # r.call
        BY <1>1, <1>5, <1>7, <3>2
      <3> QED BY <3>1, <3>2
    <2> QED BY <2>1 DEF AnsweredOnce
  <1>9. /\ [c \in Call |-> Asked(c)]' = [[c \in Call |-> Asked(c)] EXCEPT ![r.call] = r.actions]
        /\ [c \in Call |-> Owed(c)]' = [[c \in Call |-> Owed(c)] EXCEPT ![r.call] = r.actions]
        /\ [c \in Call |-> external_out[c].results]' = [c \in Call |-> external_out[c].results]
        /\ [c \in Call |-> Asked(c)][r.call] = 0
    BY <1>1, <1>2, <1>6, <1>7
  <1>10. Promise!Ask(r.call, r.actions)
    BY <1>9 DEF Promise!Ask
  <1> QED BY <1>3, <1>8, <1>10 DEF PInv

(* A reply of a worker that the broker knows is forwarded.                 *)
LEMMA DeliveringStep ==
    ASSUME PInv, IInv', NEW w \in WorkerId, ProcessReply(w), exists(workers, w), UNCHANGED envVars
    PROVE  /\ PInv'
           /\ \E d \in Call, n \in 0..MaxActions : Promise!Deliver(d, n)
  <1> DEFINE m == Head(internal_in[w])
  <1>0. /\ TypeOK /\ TypeOK' /\ OneRequestPerCall /\ AnsweredOnce
        /\ internal_in \in [WorkerId -> Seq(FromWorker)] /\ internal_in[w] \in Seq(FromWorker)
        /\ internal_out \in [WorkerId -> Seq(ToWorker)]
        /\ external_out \in [Call -> ClientBox]
    BY DEF PInv, IInv, TypeOK, SocketsTypeOK
  <1>1. /\ internal_in[w] # <<>> /\ m.cmd = "REPLY"
        /\ internal_in' = [internal_in EXCEPT ![w] = Tail(@)]
        /\ external_out' = [external_out EXCEPT ![m.call].results = @ + m.results]
        /\ internal_out' = internal_out /\ external_in' = external_in /\ sent' = sent
        /\ requests' = requests /\ held' = held
    BY DEF ProcessReply, Receives, worker_waiting, service_dispatch, envVars
  <1>2. m \in FromWorker
    BY <1>0, <1>1, HeadTailProperties
  <1>3. PICK d \in Call, n \in 1..MaxActions : d = m.call /\ n = m.results
    BY <1>1, <1>2 DEF FromWorker
  <1>4. MaxActions \in Nat /\ n \in 0..MaxActions /\ n \in Nat
    BY RequestAssumption
  <1>5. OneRequestPerCall'
    BY <1>0, <1>1 DEF OneRequestPerCall
  <1>6. ASSUME NEW c \in Call
        PROVE  /\ Owed(c) = Owed(c)' + InReply(m, c)
               /\ Owed(c) \in Nat /\ Owed(c)' \in Nat /\ InReply(m, c) \in Nat
    <2> DEFINE b == Between(internal_out, internal_in, c)
               b2 == Between(internal_out', internal_in', c)
               k == InReply(m, c)
    <2>1. b = b2 + k
      <3>1. b = Between(internal_out, [internal_in EXCEPT ![w] = Tail(@)], c) + k
        BY <1>0, <1>1, HeardFrom
      <3> HIDE DEF k
      <3> QED BY <1>1, <3>1
    <2>2. k \in Nat
      <3> HIDE DEF m
      <3> QED BY <1>2, MessageType
    <2>3. /\ held'[c] = held[c] /\ Waits(requests', c) = Waits(requests, c)
          /\ Waits(external_in', c) = Waits(external_in, c)
      BY <1>1
    <2>4. /\ held[c] \in Nat /\ Waits(external_in, c) \in Nat /\ Waits(requests, c) \in Nat
          /\ b \in Nat /\ b2 \in Nat
          /\ Owed(c) = held[c] + Waits(external_in, c) + Waits(requests, c) + b
          /\ Owed(c)' = held'[c] + Waits(external_in', c) + Waits(requests', c) + b2
      BY <1>0, PartsType
    <2> HIDE DEF b, b2, k
    <2>5. Owed(c) = Owed(c)' + k /\ Owed(c) \in Nat /\ Owed(c)' \in Nat
      BY <2>1, <2>2, <2>3, <2>4
    <2> QED BY <2>2, <2>5 DEF k
  <1>7. InReply(m, d) = n /\ \A c \in Call : c # d => InReply(m, c) = 0
    BY <1>1, <1>3 DEF InReply
  <1> HIDE DEF m
  <1>8. ASSUME NEW c \in Call
        PROVE  external_out'[c].results = IF c = d THEN external_out[c].results + n
                                          ELSE external_out[c].results
    <2>1. external_out[c] \in [results : Nat, local : Nat, malformed : Nat]
      BY <1>0 DEF ClientBox
    <2>2. CASE c = d
      BY <1>0, <1>1, <1>3, <1>4, <2>1, <2>2
    <2>3. CASE c # d
      BY <1>0, <1>1, <1>3, <2>3
    <2> QED BY <2>2, <2>3
  <1>9. ASSUME NEW c \in Call
        PROVE  /\ external_out[c].results \in Nat /\ Asked(c)' = Asked(c) /\ Asked(c) \in Nat
               /\ external_out[c].results + Owed(c) <= Asked(c)
    <2>1. Asked(c) \in Nat
      BY <1>0, <1>4, AskedType
    <2>2. Asked(c)' = Asked(c)
      BY <1>1 DEF Asked
    <2> QED BY <1>0, <2>1, <2>2, ResultsAreCounts DEF AnsweredOnce
  <1>10. /\ external_out'[d].results = external_out[d].results + n
        /\ Owed(d)' = Owed(d) - n /\ n <= Owed(d)
        /\ \A c \in Call \ {d} :
              external_out'[c].results = external_out[c].results /\ Owed(c)' = Owed(c)
    <2>1. external_out'[d].results = external_out[d].results + n
      BY <1>3, <1>8
    <2>2. Owed(d)' = Owed(d) - n /\ n <= Owed(d)
      <3>1. Owed(d) = Owed(d)' + n /\ Owed(d) \in Nat /\ Owed(d)' \in Nat /\ n \in Nat
        BY <1>4, <1>6, <1>7
      <3> QED BY <3>1
    <2>3. ASSUME NEW c \in Call \ {d}
          PROVE  external_out'[c].results = external_out[c].results /\ Owed(c)' = Owed(c)
      <3>1. external_out'[c].results = external_out[c].results
        BY <1>8
      <3>2. InReply(m, c) = 0 /\ Owed(c) = Owed(c)' + InReply(m, c)
            /\ Owed(c) \in Nat /\ Owed(c)' \in Nat
        BY <1>6, <1>7
      <3> QED BY <3>1, <3>2
    <2> QED BY <2>1, <2>2, <2>3
  <1>11. AnsweredOnce'
    <2>1. ASSUME NEW c \in Call PROVE external_out'[c].results + Owed(c)' <= Asked(c)'
      <3>1. CASE c = d
        <4> DEFINE x == external_out[d].results
                   x2 == external_out'[d].results
                   o == Owed(d)
                   o2 == Owed(d)'
                   a == Asked(d)
                   a2 == Asked(d)'
        <4>1. /\ x \in Nat /\ o \in Nat /\ o2 \in Nat /\ a \in Nat /\ a2 = a
              /\ x2 = x + n /\ o2 = o - n /\ x + o <= a
          BY <1>6, <1>9, <1>10
        <4>2. x2 + o2 <= a2
          <5> HIDE DEF x, x2, o, o2, a, a2
          <5> QED BY <1>4, <4>1
        <4> QED BY <3>1, <4>2
      <3>2. CASE c # d
        BY <1>9, <1>10, <3>2
      <3> QED BY <3>1, <3>2
    <2> QED BY <2>1 DEF AnsweredOnce
  <1>12. Promise!Deliver(d, n)
    <2>1. /\ [c \in Call |-> Owed(c)]' = [[c \in Call |-> Owed(c)] EXCEPT ![d] = @ - n]
          /\ [c \in Call |-> external_out[c].results]'
                 = [[c \in Call |-> external_out[c].results] EXCEPT ![d] = @ + n]
          /\ [c \in Call |-> Asked(c)]' = [c \in Call |-> Asked(c)]
          /\ n <= [c \in Call |-> Owed(c)][d]
      BY <1>9, <1>10
    <2> QED BY <2>1 DEF Promise!Deliver
  <1>13. PInv'
    BY <1>5, <1>11 DEF PInv
  <1> QED BY <1>12, <1>13, <1>4

-----------------------------------------------------------------------------
(* Every other step loses, or moves what is owed.                          *)

LEMMA OtherSteps ==
    ASSUME PInv, IInv',
           \/ /\ Poll \/ client_process \/ Timers
                 \/ \E w \in WorkerId :
                       \/ ProcessReady(w) \/ ProcessHeartbeat(w) \/ ProcessDisconnect(w)
                       \/ ProcessInvalid(w)
                       \/ ProcessReply(w) /\ ~exists(workers, w)
                       \/ DispatchTo(w)
              /\ UNCHANGED envVars
           \/ WorkerNext \/ SpeakNext
           \/ Tick \/ BrokerCrash \/ UNCHANGED vars
    PROVE  PInv' /\ Promise!Lose
  <1>0. TypeOK /\ TypeOK' /\ LoopHasWorkerAndRequest
    BY DEF PInv, IInv
  <1>1. NoMoreOwed
    <2>1. CASE WorkerNext \/ SpeakNext
      BY <1>0, <2>1, SaidAnyway, WorkerFalls, TakesRequestFalls, RepliesFalls
         DEF WorkerNext, SpeakNext
    <2>2. CASE BrokerCrash
      BY <1>0, <2>2, CrashFalls
    <2>3. CASE Tick \/ UNCHANGED vars
      BY <1>0, <2>3, IdleStepsFall
    <2>4. CASE UNCHANGED envVars /\ (Poll \/ Timers)
      BY <1>0, <2>4, IdleStepsFall
    <2>5. CASE UNCHANGED envVars /\ client_process
      BY <1>0, <2>5, ClientFalls
    <2>6. ASSUME NEW w \in WorkerId, UNCHANGED envVars,
                 \/ ProcessReady(w) \/ ProcessHeartbeat(w) \/ ProcessDisconnect(w)
                 \/ ProcessInvalid(w)
                 \/ ProcessReply(w) /\ ~exists(workers, w)
                 \/ DispatchTo(w)
          PROVE  NoMoreOwed
      <3>1. CASE DispatchTo(w)
        BY <1>0, <2>6, <3>1, DispatchFalls
      <3>2. CASE ~DispatchTo(w)
        BY <1>0, <2>6, <3>2, ProcessFalls
      <3> QED BY <3>1, <3>2
    <2> QED BY <2>1, <2>2, <2>3, <2>4, <2>5, <2>6
  <1>2. sent' = sent
    BY DEF WorkerNext, WorkerOpens, WorkerCloses, Closes, WorkerLeaves, WorkerTakesHeartbeat,
           WorkerTakesRequest, WorkerReplies, WorkerHeartbeats, SpeakNext, RepliesAnyway,
           HeartbeatsAnyway, BrokerCrash, Tick, vars, socketVars,
           Poll, Timers, client_process, ProcessReady, ProcessHeartbeat, ProcessDisconnect,
           ProcessReply, ProcessInvalid, WorkerGarbles, Receives, DispatchTo
  <1>3. ResultsStay
    <2>1. CASE client_process
      <3> DEFINE r == Head(external_in)
      <3>1. r \in Request
        BY <1>0, <2>1, SocketsType, HeadTailProperties DEF client_process
      <3>2. r.call \in Call
        BY <3>1, RequestIs
      <3>3. external_out \in [Call -> [results : Nat, local : Nat, malformed : Nat]]
        BY <1>0 DEF TypeOK, SocketsTypeOK, ClientBox
      <3>4. external_out' =
               [external_out EXCEPT ![r.call].malformed = IF r.malformed THEN @ + 1 ELSE @,
                                    ![r.call].local = IF r.local THEN @ + 1 ELSE @]
        BY <2>1 DEF client_process
      <3> HIDE DEF r
      <3> QED BY <3>2, <3>3, <3>4 DEF ResultsStay
    <2>2. CASE ~client_process
      <3>1. external_out' = external_out
        BY <2>2
        DEF WorkerNext, WorkerOpens, WorkerCloses, Closes, WorkerLeaves, WorkerTakesHeartbeat,
            WorkerTakesRequest, WorkerReplies, WorkerHeartbeats, SpeakNext, RepliesAnyway,
            HeartbeatsAnyway, BrokerCrash, Tick, vars, socketVars,
            Poll, Timers, ProcessReady, ProcessHeartbeat, ProcessDisconnect, ProcessReply,
            ProcessInvalid, WorkerGarbles, DispatchTo
      <3> QED BY <3>1, SMTT(60) DEF ResultsStay
    <2> QED BY <2>1, <2>2
  <1> QED BY <1>1, <1>2, <1>3, LosingStep

LEMMA PromiseStep ==
    ASSUME PInv, IInv', [UnboundedNext]_vars
    PROVE  PInv' /\ [Promise!Next]_(Promise!vars)
  <1>1. CASE ClientNext
    <2>1. PICK r \in Request : ClientSend(r) /\ UNCHANGED <<brokerVars, envVars>>
      BY <1>1 DEF ClientNext
    <2>2. PInv' /\ Promise!Ask(r.call, r.actions)
      BY <2>1, AskingStep
    <2> QED BY <2>2, RequestIs DEF Promise!Next
  <1>2. ASSUME NEW w \in WorkerId, ProcessReply(w), exists(workers, w), UNCHANGED envVars
        PROVE  PInv' /\ Promise!Next
    BY <1>2, DeliveringStep DEF Promise!Next
  <1>3. ASSUME PInv' /\ Promise!Lose
        PROVE  PInv' /\ Promise!Next
    BY <1>3 DEF Promise!Next
  <1>4. CASE UNCHANGED envVars /\ BrokerNext
    <2>1. CASE \E w \in WorkerId : ProcessReply(w) /\ exists(workers, w)
      BY <1>2, <1>4, <2>1
    <2>2. CASE ~\E w \in WorkerId : ProcessReply(w) /\ exists(workers, w)
      <3>1. PInv' /\ Promise!Lose
        BY <1>4, <2>2, OtherSteps DEF BrokerNext
      <3> QED BY <1>3, <3>1
    <2> QED BY <2>1, <2>2
  <1>5. CASE WorkerNext \/ SpeakNext \/ Tick \/ BrokerCrash \/ UNCHANGED vars
    BY <1>3, <1>5, OtherSteps
  <1> QED BY <1>1, <1>4, <1>5 DEF UnboundedNext, Next, Step

LEMMA PromiseInit ==
    ASSUME Init
    PROVE  PInv /\ Promise!Init
  <1>0. IInv /\ TypeOK
    BY InitInv DEF IInv
  <1>1. sent = {} /\ \A c \in Call : external_out[c].results = 0
    BY DEF Init, SocketsInit
  <1>2. ASSUME NEW c \in Call PROVE Asked(c) = 0
    <2>1. AskedIn({}, c) = 0
      BY NothingAsked
    <2> QED BY <1>1, <2>1 DEF Asked, AskedIn
  <1>3. ASSUME NEW c \in Call PROVE Owed(c) = 0
    <2>1. /\ held[c] = 0 /\ external_in = <<>> /\ requests = <<>>
          /\ internal_out = [w \in WorkerId |-> <<>>] /\ internal_in = [w \in WorkerId |-> <<>>]
      BY DEF Init, SocketsInit, BrokerInit
    <2>2. Waits(external_in, c) = 0 /\ Waits(requests, c) = 0
      BY <2>1, WeighNothing DEF Waits
    <2>3. \A w \in WorkerId : AtWorkers(internal_out, internal_in, c)[w] = 0
      <3>1. \A w \in WorkerId : Weigh(internal_out[w], Dispatched(c)) = 0
        BY <2>1, WeighNothing
      <3>2. \A w \in WorkerId : Weigh(internal_in[w], Replied(c)) = 0
        BY <2>1, WeighNothing
      <3>3. 0 + 0 = 0
        OBVIOUS
      <3> QED BY <3>1, <3>2, <3>3, Zenon DEF AtWorkers
    <2>4. Between(internal_out, internal_in, c) = 0
      BY <2>3, SumOfNothing DEF Between
    <2> QED BY <1>0, <2>1, <2>2, <2>4, OwedIs DEF OwedAt
  <1>4. PInv
    BY <1>0, <1>1, <1>2, <1>3 DEF PInv, OneRequestPerCall, AnsweredOnce
  <1>5. Promise!Init
    BY <1>1, <1>2, <1>3 DEF Promise!Init
  <1> QED BY <1>4, <1>5

-----------------------------------------------------------------------------
(* Whatever the broker, the workers and the clients do, the results a      *)
(* client was sent for a call and those it may still be sent are never     *)
(* more than the actions it asked for, though neither the broker nor a     *)
(* worker keeps a record of what was answered.                             *)
THEOREM NeverAnsweredTwice == Spec => []AnsweredOnce
  <1>1. Init => PInv
    BY PromiseInit
  <1>2. PInv /\ [Next]_vars => PInv'
    BY NextInv, PromiseStep DEF PInv, UnboundedNext
  <1>3. PInv => AnsweredOnce
    BY DEF PInv
  <1> QED BY <1>1, <1>2, <1>3, PTL DEF Spec

(* The broker among any workers that keep to the protocol implements       *)
(* CallPromise: what worker_process forwards, what purge_workers forgets,  *)
(* what a crash of the broker or the close of a socket loses each maps to  *)
(* an answer to what was asked or to a loss.                               *)
THEOREM BrokerKeepsPromise == Spec => KeepsPromise
  <1>1. Init => PInv /\ Promise!Init
    BY PromiseInit
  <1>2. PInv /\ [Next]_vars => PInv' /\ [Promise!Next]_(Promise!vars)
    BY NextInv, PromiseStep DEF PInv, UnboundedNext
  <1> QED BY <1>1, <1>2, PTL DEF Spec, KeepsPromise, Promise!Spec

=============================================================================

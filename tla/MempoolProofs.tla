----------------------------- MODULE MempoolProofs -----------------------------
(*****************************************************************************)
(* Proofs about the mempool: nothing acknowledged is lost track of, nothing  *)
(* settles twice, only the transaction that breaks a block is dropped for    *)
(* it, and what waits survives a crash. Alone names when the auto-miner is   *)
(* the only miner.                                                           *)
(*****************************************************************************)
EXTENDS Mempool, DataLemmas, SequenceTheorems

-----------------------------------------------------------------------------
(* Subsequences and copies.                                                  *)

\* The place of i in a set of positions.
Rank(K, i) == Cardinality({j \in K : j <= i})
\* How often a sequence holds t.
Count(s, t) == Cardinality({i \in DOMAIN s : s[i] = t})

\* Ranks number the elements of a finite set of naturals.
LEMMA Ranks ==
    ASSUME NEW K, K \subseteq Nat, IsFiniteSet(K)
    PROVE  /\ Cardinality(K) \in Nat
           /\ \A i \in K : Rank(K, i) \in 1..Cardinality(K)
           /\ \A i, j \in K : Rank(K, i) = Rank(K, j) => i = j
           /\ \A n \in 1..Cardinality(K) : \E i \in K : Rank(K, i) = n
<1>0. Cardinality(K) \in Nat BY FS_CardinalityType
<1> DEFINE L(i) == {j \in K : j <= i}
<1>1. \A i \in K : IsFiniteSet(L(i)) /\ Cardinality(L(i)) \in Nat /\ Cardinality(L(i)) <= Cardinality(K)
  <2> SUFFICES ASSUME NEW i \in K PROVE IsFiniteSet(L(i)) /\ Cardinality(L(i)) \in Nat /\ Cardinality(L(i)) <= Cardinality(K) OBVIOUS
  <2>1. L(i) \in SUBSET K OBVIOUS
  <2> HIDE DEF L
  <2>2. IsFiniteSet(L(i)) /\ Cardinality(L(i)) <= Cardinality(K) BY <2>1, FS_Subset
  <2> QED BY <2>2, FS_CardinalityType
<1>2. \A i \in K : Cardinality(L(i)) # 0
  <2> SUFFICES ASSUME NEW i \in K PROVE Cardinality(L(i)) # 0 OBVIOUS
  <2>1. i \in L(i) OBVIOUS
  <2>2. L(i) # {} BY <2>1
  <2> HIDE DEF L
  <2> QED BY <1>1, <2>2, FS_EmptySet
<1>3. \A i, j \in K : i < j => Cardinality(L(i)) # Cardinality(L(j))
  <2> SUFFICES ASSUME NEW i \in K, NEW j \in K, i < j, Cardinality(L(i)) = Cardinality(L(j)) PROVE FALSE OBVIOUS
  <2>0. i \in Nat /\ j \in Nat OBVIOUS
  <2>1. L(i) \in SUBSET L(j)
    <3>1. ASSUME NEW x \in L(i) PROVE x \in L(j)
      <4>1. x \in K /\ x \in Nat /\ x <= i OBVIOUS
      <4>2. x <= j BY <4>1, <2>0
      <4> QED BY <4>1, <4>2
    <3> QED BY <3>1
  <2>2. j \in L(j) /\ j \notin L(i) BY <2>0
  <2> HIDE DEF L
  <2>3. L(j) = L(i) BY <2>1, <1>1, FS_Subset
  <2> QED BY <2>2, <2>3
<1>4. \A i \in K : Rank(K, i) = Cardinality(L(i)) BY DEF Rank
<1> HIDE DEF L
<1>5. \A i \in K : Rank(K, i) \in 1..Cardinality(K) BY <1>0, <1>1, <1>2, <1>4
<1>6. \A i, j \in K : Rank(K, i) = Rank(K, j) => i = j BY <1>3, <1>4
<1> DEFINE f == [i \in K |-> Rank(K, i)]
<1>7. f \in [K -> 1..Cardinality(K)] BY <1>5
<1>8. f \in Injection(K, 1..Cardinality(K)) BY <1>6, <1>7 DEF Injection, IsInjective
<1>9. IsFiniteSet(1..Cardinality(K)) /\ Cardinality(1..Cardinality(K)) = Cardinality(K)
  BY <1>0, FS_Interval
<1>10. f \in Surjection(K, 1..Cardinality(K))
  <2> HIDE DEF f
  <2> QED BY <1>8, <1>9, FS_Injection
<1>11. \A n \in 1..Cardinality(K) : \E i \in K : f[i] = n BY <1>10 DEF Surjection
<1> QED BY <1>0, <1>5, <1>6, <1>11

\* The positions of a sequence are finitely many.
LEMMA Positions ==
    ASSUME NEW S, NEW s \in Seq(S), NEW K, K \subseteq DOMAIN s
    PROVE  /\ K \subseteq Nat /\ IsFiniteSet(K) /\ Cardinality(K) \in Nat /\ K \subseteq 1..Len(s)
           /\ IsFiniteSet(DOMAIN s) /\ Cardinality(DOMAIN s) = Len(s) /\ Len(s) \in Nat
<1>1. DOMAIN s = 1..Len(s) /\ Len(s) \in Nat OBVIOUS
<1>2. IsFiniteSet(1..Len(s)) /\ Cardinality(1..Len(s)) = Len(s)
  <2> DEFINE n == Len(s)
  <2>1. n \in Nat OBVIOUS
  <2> HIDE DEF n
  <2>2. 1 \in Int /\ n \in Int /\ n - 1 + 1 = n BY <2>1
  <2>3. IsFiniteSet(1..n) /\ Cardinality(1..n) = IF 1 > n THEN 0 ELSE n - 1 + 1 BY <2>2, FS_Interval
  <2>4. IsFiniteSet(1..n) /\ Cardinality(1..n) = n BY <2>1, <2>2, <2>3
  <2> QED BY <2>4 DEF n
<1>3. IsFiniteSet(K) BY <1>1, <1>2, FS_Subset
<1> QED BY <1>1, <1>2, <1>3, FS_CardinalityType

\* What is kept of a sequence: an injection into its positions that reaches all of K.
LEMMA KeptFacts ==
    ASSUME NEW S, NEW s \in Seq(S), NEW K, K \subseteq DOMAIN s
    PROVE  /\ Kept(s, K) \in Seq(S) /\ Len(Kept(s, K)) = Cardinality(K)
           /\ \E f \in [1..Cardinality(K) -> K] :
                /\ \A m, n \in 1..Cardinality(K) : f[m] = f[n] => m = n
                /\ \A i \in K : \E n \in 1..Cardinality(K) : f[n] = i
                /\ \A n \in 1..Cardinality(K) : Kept(s, K)[n] = s[f[n]]
<1>1. K \subseteq Nat /\ IsFiniteSet(K) /\ Cardinality(K) \in Nat /\ K \subseteq 1..Len(s) BY Positions
<1> DEFINE c == Cardinality(K)
           f == [n \in 1..c |-> CHOOSE i \in K : Rank(K, i) = n]
<1>2. /\ \A i \in K : Rank(K, i) \in 1..c
      /\ \A i, j \in K : Rank(K, i) = Rank(K, j) => i = j
      /\ \A n \in 1..c : \E i \in K : Rank(K, i) = n
  BY <1>1, Ranks
<1>3. \A n \in 1..c : f[n] \in K /\ Rank(K, f[n]) = n BY <1>2
<1>4. Kept(s, K) = [n \in 1..c |-> s[f[n]]] BY DEF Kept, Rank
<1> HIDE DEF f, c
<1>5. \A n \in 1..c : s[f[n]] \in S BY <1>1, <1>3
<1>6. c \in Nat BY <1>1 DEF c
<1>7. Kept(s, K) \in Seq(S) /\ Len(Kept(s, K)) = c BY <1>4, <1>5, <1>6
<1>8. f \in [1..c -> K] BY <1>3 DEF f
<1>9. \A m, n \in 1..c : f[m] = f[n] => m = n BY <1>3
<1>10. \A i \in K : \E n \in 1..c : f[n] = i BY <1>2, <1>3
<1>11. \A n \in 1..c : Kept(s, K)[n] = s[f[n]] BY <1>4
<1> QED BY <1>7, <1>8, <1>9, <1>10, <1>11 DEF c

\* What is kept of a sequence is what it holds at the kept positions.
LEMMA KeptSet ==
    ASSUME NEW S, NEW s \in Seq(S), NEW K, K \subseteq DOMAIN s
    PROVE  ToSet(Kept(s, K)) = {s[i] : i \in K} /\ ToSet(Kept(s, K)) \subseteq ToSet(s)
<1> DEFINE c == Cardinality(K) k == Kept(s, K)
<1>1. k \in Seq(S) /\ Len(k) = c BY KeptFacts
<1>2. PICK f \in [1..c -> K] :
                /\ \A i \in K : \E n \in 1..c : f[n] = i
                /\ \A n \in 1..c : k[n] = s[f[n]]
  BY KeptFacts
<1> HIDE DEF k, c
<1>3. DOMAIN k = 1..c BY <1>1
<1>4. ToSet(k) = {s[i] : i \in K} BY <1>2, <1>3 DEF ToSet
<1> QED BY <1>4 DEF ToSet, k

\* A sequence holds t some number of times, and not at all when it does not hold it.
LEMMA CountType == ASSUME NEW S, NEW s \in Seq(S), NEW t PROVE Count(s, t) \in Nat /\ (t \in ToSet(s) <=> Count(s, t) # 0)
<1> DEFINE K == {i \in DOMAIN s : s[i] = t}
<1>1. K \subseteq DOMAIN s OBVIOUS
<1>2. t \in ToSet(s) <=> K # {} BY DEF ToSet
<1>3. Count(s, t) = Cardinality(K) BY DEF Count
<1> HIDE DEF K
<1>4. IsFiniteSet(K) /\ Cardinality(K) \in Nat BY <1>1, Positions
<1>5. Cardinality(K) = 0 <=> K = {} BY <1>4, FS_EmptySet
<1> QED BY <1>2, <1>3, <1>4, <1>5

\* An injection of occurrences.
LEMMA CountInto ==
    ASSUME NEW S, NEW s \in Seq(S), NEW r \in Seq(S), NEW t, NEW f,
           \A i \in DOMAIN r : f[i] \in DOMAIN s /\ s[f[i]] = r[i],
           \A i, j \in DOMAIN r : f[i] = f[j] => i = j
    PROVE  Count(r, t) <= Count(s, t)
<1> DEFINE A == {i \in DOMAIN r : r[i] = t}  B == {i \in DOMAIN s : s[i] = t}
           g == [i \in A |-> f[i]]
<1>1. IsFiniteSet(B) 
  <2>1. B \subseteq DOMAIN s OBVIOUS
  <2> HIDE DEF B
  <2> QED BY <2>1, Positions
<1>2. g \in [A -> B] OBVIOUS
<1>3. g \in Injection(A, B) BY <1>2 DEF Injection, IsInjective
<1>4. Cardinality(A) <= Cardinality(B)
  <2> HIDE DEF A, B, g
  <2> QED BY <1>1, <1>3, FS_Injection
<1> QED BY <1>4 DEF Count

\* Keeping some positions adds no copy.
LEMMA CountKept ==
    ASSUME NEW S, NEW s \in Seq(S), NEW K, K \subseteq DOMAIN s, NEW t
    PROVE  Count(Kept(s, K), t) <= Count(s, t)
<1> DEFINE c == Cardinality(K) k == Kept(s, K)
<1>1. k \in Seq(S) /\ Len(k) = c BY KeptFacts
<1>2. PICK f \in [1..c -> K] :
                /\ \A m, n \in 1..c : f[m] = f[n] => m = n
                /\ \A n \in 1..c : k[n] = s[f[n]]
  BY KeptFacts
<1> HIDE DEF k, c
<1>3. DOMAIN k = 1..c BY <1>1
<1>4. \A i \in DOMAIN k : f[i] \in DOMAIN s /\ s[f[i]] = k[i] BY <1>2, <1>3
<1>5. \A i, j \in DOMAIN k : f[i] = f[j] => i = j BY <1>2, <1>3
<1>6. Count(k, t) <= Count(s, t) BY <1>1, <1>4, <1>5, CountInto
<1> QED BY <1>6 DEF k

\* The copies of two sequences put together.
LEMMA CountConcat ==
    ASSUME NEW S, NEW r \in Seq(S), NEW s \in Seq(S), NEW t
    PROVE  r \o s \in Seq(S) /\ Count(r \o s, t) = Count(r, t) + Count(s, t) /\ ToSet(r \o s) = ToSet(r) \cup ToSet(s)
<1> DEFINE q == r \o s  n == Len(r)
           A == {i \in DOMAIN r : r[i] = t}  B == {i \in DOMAIN s : s[i] = t}
           C == {i \in DOMAIN q : q[i] = t}
           D == {i \in (n + 1)..(n + Len(s)) : s[i - n] = t}
           f == [i \in B |-> i + n]
<1>0. q \in Seq(S) /\ Len(q) = n + Len(s) /\ n \in Nat /\ Len(s) \in Nat OBVIOUS
<1>1. \A i \in 1..(n + Len(s)) : q[i] = IF i <= n THEN r[i] ELSE s[i - n] OBVIOUS
<1>2. DOMAIN q = 1..(n + Len(s)) /\ DOMAIN r = 1..n /\ DOMAIN s = 1..Len(s) OBVIOUS
<1> HIDE DEF q
<1>3. C = A \cup D BY <1>0, <1>1, <1>2
<1>4. A \cap D = {} BY <1>0, <1>2
<1>5. f \in [B -> D] BY <1>0, <1>2
<1>6. f \in Bijection(B, D)
  <2>1. \A a, b \in B : f[a] = f[b] => a = b BY <1>0, <1>2
  <2>2. \A d \in D : \E b \in B : f[b] = d
    <3> SUFFICES ASSUME NEW d \in D PROVE \E b \in B : f[b] = d OBVIOUS
    <3>1. d - n \in B /\ (d - n) + n = d BY <1>0, <1>2
    <3>2. f[d - n] = d BY <3>1
    <3> QED BY <3>1, <3>2
  <2> HIDE DEF f, B, D
  <2> QED BY <1>5, <2>1, <2>2 DEF Bijection, Injection, Surjection, IsInjective
<1>7. IsFiniteSet(A) /\ IsFiniteSet(B)
  <2>1. A \subseteq DOMAIN r /\ B \subseteq DOMAIN s OBVIOUS
  <2> HIDE DEF A, B
  <2> QED BY <2>1, Positions
<1>8. IsFiniteSet(D) /\ Cardinality(D) = Cardinality(B)
  <2> HIDE DEF f, B, D
  <2> QED BY <1>6, <1>7, FS_Bijection DEF ExistsBijection
<1>9. Cardinality(C) = Cardinality(A) + Cardinality(D)
  <2> HIDE DEF A, D, C
  <2>1. Cardinality(A \cap D) = 0 BY <1>4, FS_EmptySet
  <2>2. Cardinality(A) \in Nat /\ Cardinality(D) \in Nat BY <1>7, <1>8, FS_CardinalityType
  <2>3. Cardinality(A \cup D) = Cardinality(A) + Cardinality(D) - Cardinality(A \cap D)
    BY <1>7, <1>8, FS_Union
  <2> QED BY <1>3, <2>1, <2>2, <2>3
<1>10. Count(q, t) = Count(r, t) + Count(s, t) BY <1>8, <1>9 DEF Count
<1>11. ToSet(q) = ToSet(r) \cup ToSet(s)
  <2>1. ASSUME NEW x \in ToSet(q) PROVE x \in ToSet(r) \cup ToSet(s)
    <3>1. PICK i \in 1..(n + Len(s)) : x = q[i] BY <1>2, <2>1 DEF ToSet
    <3>2. CASE i <= n BY <3>1, <3>2, <1>0, <1>1, <1>2 DEF ToSet
    <3>3. CASE i > n
      <4>1. x = s[i - n] /\ i - n \in DOMAIN s BY <3>1, <3>3, <1>0, <1>1, <1>2
      <4> QED BY <4>1 DEF ToSet
    <3> QED BY <3>2, <3>3, <1>0
  <2>2. ASSUME NEW x \in ToSet(r) PROVE x \in ToSet(q)
    <3>1. PICK i \in 1..n : x = r[i] BY <1>2, <2>2 DEF ToSet
    <3>2. i \in DOMAIN q /\ q[i] = x BY <3>1, <1>0, <1>1, <1>2
    <3> QED BY <3>2 DEF ToSet
  <2>3. ASSUME NEW x \in ToSet(s) PROVE x \in ToSet(q)
    <3>1. PICK i \in 1..Len(s) : x = s[i] BY <1>2, <2>3 DEF ToSet
    <3>2. i + n \in 1..(n + Len(s)) /\ ~(i + n <= n) /\ (i + n) - n = i BY <3>1, <1>0
    <3>3. i + n \in DOMAIN q /\ q[i + n] = x BY <3>1, <3>2, <1>1, <1>2
    <3> QED BY <3>3 DEF ToSet
  <2> QED BY <2>1, <2>2, <2>3
<1> QED BY <1>0, <1>10, <1>11 DEF q

-----------------------------------------------------------------------------
(* Types.                                                                    *)

\* What is left of each bound is a natural.
Budget == [submits : Nat, deliveries : Nat, sweeps : Nat, faults : Nat, crashes : Nat]

\* The types of the state, without the ceiling of the rebroadcast attempts.
Typed ==
    /\ mempool \in Seq(Txs) /\ durable \subseteq Txs
    /\ tracker \in [Txs -> Int]
    /\ included \in [Txs -> Nat] /\ leads \in BOOLEAN
    /\ announcing \subseteq local /\ arriving \in Txs \cup {NoTx}
    /\ miner \in [Miners -> Lists] /\ failures \in Nat
    /\ remote \in [step : {"idle", "applied", "forgotten"}, txs : SUBSET Txs]
    /\ sweep = NoSweep \/ sweep \in Seq(Txs)
    /\ acked \subseteq local /\ local \subseteq Txs
    /\ fate \in [Txs -> {"none", "evicted", "refused", "failed", "storage"}]
    /\ budget \in Budget

\* A sequence is its first n elements and the rest.
LEMMA Cut ==
    ASSUME NEW S, NEW s \in Seq(S), NEW n \in 0..Len(s)
    PROVE  /\ SubSeq(s, 1, n) \in Seq(S) /\ SubSeq(s, n + 1, Len(s)) \in Seq(S)
           /\ Len(SubSeq(s, 1, n)) = n /\ Len(SubSeq(s, n + 1, Len(s))) = Len(s) - n
           /\ \A i \in 1..n : SubSeq(s, 1, n)[i] = s[i]
           /\ s = SubSeq(s, 1, n) \o SubSeq(s, n + 1, Len(s))
<1> DEFINE a == SubSeq(s, 1, n)  b == SubSeq(s, n + 1, Len(s))
<1>0. n \in Nat /\ Len(s) \in Nat /\ n <= Len(s) OBVIOUS
<1>1. a \in Seq(S) /\ Len(a) = n /\ \A i \in 1..n : a[i] = s[i]
  BY <1>0, SubSeqProperties
<1>2. b \in Seq(S) /\ Len(b) = Len(s) - n /\ \A i \in 1..(Len(s) - n) : b[i] = s[i + n]
  BY <1>0
<1> HIDE DEF a, b
<1>3. a \o b = s
  <2>1. a \o b \in Seq(S) /\ Len(a \o b) = Len(s) BY <1>0, <1>1, <1>2
  <2>2. \A i \in 1..Len(s) : (a \o b)[i] = s[i]
    <3> SUFFICES ASSUME NEW i \in 1..Len(s) PROVE (a \o b)[i] = s[i] OBVIOUS
    <3>0. \A k \in 1..(Len(a) + Len(b)) : (a \o b)[k] = IF k <= Len(a) THEN a[k] ELSE b[k - Len(a)]
      BY <1>1, <1>2
    <3>1. CASE i <= n BY <3>0, <3>1, <1>0, <1>1, <1>2
    <3>2. CASE i > n
      <4>1. (a \o b)[i] = b[i - n] /\ i - n \in 1..(Len(s) - n) /\ (i - n) + n = i BY <3>0, <3>2, <1>0, <1>1, <1>2
      <4> QED BY <4>1, <1>2
    <3>3. i <= n \/ i > n BY <1>0
    <3> QED BY <3>1, <3>2, <3>3
  <2> HIDE DEF a, b
  <2>3. PICK c : c = a \o b OBVIOUS
  <2>4. c \in Seq(S) /\ Len(c) = Len(s) /\ \A i \in 1..Len(s) : c[i] = s[i] BY <2>1, <2>2, <2>3
  <2>5. c = s BY <2>4
  <2> QED BY <2>3, <2>5
<1> QED BY <1>1, <1>2, <1>3 DEF a, b

\* A submission counts against its bound alone.
LEMMA Spend_submits ==
    ASSUME budget \in Budget, Spend("submits")
    PROVE  /\ budget' \in Budget /\ budget.submits > 0 /\ budget'.submits = budget.submits - 1
           /\ budget'.deliveries = budget.deliveries /\ budget'.sweeps = budget.sweeps /\ budget'.faults = budget.faults /\ budget'.crashes = budget.crashes
BY DEF Spend, Budget

\* A delivery counts against its bound alone.
LEMMA Spend_deliveries ==
    ASSUME budget \in Budget, Spend("deliveries")
    PROVE  /\ budget' \in Budget /\ budget.deliveries > 0 /\ budget'.deliveries = budget.deliveries - 1
           /\ budget'.submits = budget.submits /\ budget'.sweeps = budget.sweeps /\ budget'.faults = budget.faults /\ budget'.crashes = budget.crashes
BY DEF Spend, Budget

\* A sweep counts against its bound alone.
LEMMA Spend_sweeps ==
    ASSUME budget \in Budget, Spend("sweeps")
    PROVE  /\ budget' \in Budget /\ budget.sweeps > 0 /\ budget'.sweeps = budget.sweeps - 1
           /\ budget'.submits = budget.submits /\ budget'.deliveries = budget.deliveries /\ budget'.faults = budget.faults /\ budget'.crashes = budget.crashes
BY DEF Spend, Budget

\* A fault counts against its bound alone.
LEMMA Spend_faults ==
    ASSUME budget \in Budget, Spend("faults")
    PROVE  /\ budget' \in Budget /\ budget.faults > 0 /\ budget'.faults = budget.faults - 1
           /\ budget'.submits = budget.submits /\ budget'.deliveries = budget.deliveries /\ budget'.sweeps = budget.sweeps /\ budget'.crashes = budget.crashes
BY DEF Spend, Budget

\* A crash counts against its bound alone.
LEMMA Spend_crashes ==
    ASSUME budget \in Budget, Spend("crashes")
    PROVE  /\ budget' \in Budget /\ budget.crashes > 0 /\ budget'.crashes = budget.crashes - 1
           /\ budget'.submits = budget.submits /\ budget'.deliveries = budget.deliveries /\ budget'.sweeps = budget.sweeps /\ budget'.faults = budget.faults
BY DEF Spend, Budget

\* A fresh node has the types.
LEMMA TypedInit == Init => Typed
BY MempoolAssumption DEF Init, Typed, Budget, Miners, Lists, Untracked

-----------------------------------------------------------------------------
(* What the operations do to the mempool.                                    *)

\* The one-by-one selection of select_block_txs is defined for every backlog: by
\* induction on how much of it was looked at.
LEMMA OneByOneExists ==
    ASSUME NEW s, NEW n \in Nat
    PROVE  /\ OneByOne(s, n) \in SUBSET (1..n)
           /\ \A i \in 1..n : i \in OneByOne(s, n) <=> BlockTxsOk(Kept(s, {j \in OneByOne(s, n) : j < i} \cup {i}))
<1> DEFINE Ok(K) == BlockTxsOk(Kept(s, K))
           Greedy(G, k) == \A i \in 1..k : i \in G <=> Ok({j \in G : j < i} \cup {i})
           N == {k \in Nat : \E G \in SUBSET (1..k) : Greedy(G, k)}
<1> HIDE DEF Ok
<1>1. 0 \in N
  <2>1. {} \in SUBSET (1..0) /\ Greedy({}, 0) OBVIOUS
  <2> QED BY <2>1
<1>2. \A k \in N : k + 1 \in N
  <2> SUFFICES ASSUME NEW k \in N PROVE k + 1 \in N OBVIOUS
  <2>0. k \in Nat OBVIOUS
  <2>1. PICK G \in SUBSET (1..k) : Greedy(G, k) OBVIOUS
  <2> DEFINE H == IF Ok(G \cup {k + 1}) THEN G \cup {k + 1} ELSE G
  <2>2. H \in SUBSET (1..(k + 1)) BY <2>0
  <2>3. \A i \in 1..k : i \in H <=> i \in G BY <2>0
  <2>4. \A i \in 1..k : {j \in H : j < i} = {j \in G : j < i} BY <2>0
  <2>a. \A j \in G : j \in Nat /\ j < k + 1 BY <2>0
  <2>b. ~(k + 1 < k + 1) BY <2>0
  <2>5. {j \in H : j < k + 1} = G BY <2>a, <2>b
  <2>6. k + 1 \in H <=> Ok(G \cup {k + 1}) BY <2>0
  <2> HIDE DEF H
  <2>7. Greedy(H, k + 1)
    <3> SUFFICES ASSUME NEW i \in 1..(k + 1) PROVE i \in H <=> Ok({j \in H : j < i} \cup {i}) OBVIOUS
    <3>1. CASE i \in 1..k BY <3>1, <2>1, <2>3, <2>4
    <3>2. CASE i = k + 1 BY <3>2, <2>5, <2>6
    <3> QED BY <3>1, <3>2, <2>0
  <2> HIDE DEF Greedy
  <2> QED BY <2>0, <2>2, <2>7
<1> HIDE DEF Greedy
<1>3. N = Nat
  <2>1. N \subseteq Nat OBVIOUS
  <2> HIDE DEF N
  <2> QED BY <1>1, <1>2, <2>1, NatSetInduction
<1>4. \E G \in SUBSET (1..n) : Greedy(G, n) BY <1>3
<1>5. OneByOne(s, n) = CHOOSE G \in SUBSET (1..n) : Greedy(G, n) BY DEF OneByOne, Greedy, Ok
<1>6. OneByOne(s, n) \in SUBSET (1..n) /\ Greedy(OneByOne(s, n), n) BY <1>4, <1>5
<1> QED BY <1>6 DEF Greedy, Ok

\* Appending adds one copy.
LEMMA AppendFacts ==
    ASSUME NEW S, NEW s \in Seq(S), NEW x \in S, NEW t
    PROVE  /\ Append(s, x) \in Seq(S) /\ ToSet(Append(s, x)) = ToSet(s) \cup {x}
           /\ Count(Append(s, x), t) = Count(s, t) + (IF x = t THEN 1 ELSE 0)
<1>1. Append(s, x) = s \o <<x>> /\ <<x>> \in Seq(S) OBVIOUS
<1>2. ToSet(<<x>>) = {x} BY DEF ToSet
<1>3. Count(<<x>>, t) = IF x = t THEN 1 ELSE 0
  <2>1. DOMAIN <<x>> = {1} /\ <<x>>[1] = x OBVIOUS
  <2>2. CASE x = t
    <3>1. {i \in DOMAIN <<x>> : <<x>>[i] = t} = {1} BY <2>1, <2>2
    <3> QED BY <3>1, <2>2, FS_Singleton DEF Count
  <2>3. CASE x # t
    <3>1. {i \in DOMAIN <<x>> : <<x>>[i] = t} = {} BY <2>1, <2>3
    <3> QED BY <3>1, <2>3, FS_EmptySet DEF Count
  <2> QED BY <2>2, <2>3
<1>4. s \o <<x>> \in Seq(S) /\ Count(s \o <<x>>, t) = Count(s, t) + Count(<<x>>, t) /\ ToSet(s \o <<x>>) = ToSet(s) \cup ToSet(<<x>>)
  <2>1. PICK q \in Seq(S) : q = <<x>> BY <1>1
  <2>2. s \o q \in Seq(S) /\ Count(s \o q, t) = Count(s, t) + Count(q, t) /\ ToSet(s \o q) = ToSet(s) \cup ToSet(q)
    BY CountConcat
  <2> QED BY <2>1, <2>2
<1> QED BY <1>1, <1>2, <1>3, <1>4

\* Taking transactions out of a sequence leaves the others.
LEMMA WithoutFacts ==
    ASSUME NEW S, NEW s \in Seq(S), NEW T
    PROVE  /\ WithoutTxs(s, T) \in Seq(S) /\ ToSet(WithoutTxs(s, T)) = ToSet(s) \ T
           /\ \A u : Count(WithoutTxs(s, T), u) <= Count(s, u)
<1> DEFINE K == {i \in DOMAIN s : s[i] \notin T}
<1>1. K \subseteq DOMAIN s OBVIOUS
<1>2. {s[i] : i \in K} = ToSet(s) \ T BY DEF ToSet
<1>3. WithoutTxs(s, T) = Kept(s, K) BY DEF WithoutTxs
<1> HIDE DEF K
<1>4. Kept(s, K) \in Seq(S) BY <1>1, KeptFacts
<1>5. ToSet(Kept(s, K)) = {s[i] : i \in K} BY <1>1, KeptSet
<1>6. \A u : Count(Kept(s, K), u) <= Count(s, u) BY <1>1, CountKept
<1> QED BY <1>2, <1>3, <1>4, <1>5, <1>6

\* enqueue_without_broadcast adds at most the newcomer, and only when it was taken.
LEMMA EnqueueFacts ==
    ASSUME mempool \in Seq(Txs), NEW t \in Txs, NEW r, r = Enqueue(t)
    PROVE  /\ r.mempool \in Seq(Txs) /\ r.ok \in BOOLEAN
           /\ r.ok => t \in ToSet(r.mempool)
           /\ ToSet(r.mempool) \subseteq ToSet(mempool) \cup {t}
           /\ ~r.ok => ToSet(r.mempool) \subseteq ToSet(mempool)
           /\ \A u : Count(r.mempool, u) <= Count(mempool, u) + (IF r.ok /\ u = t THEN 1 ELSE 0)
<1> DEFINE V == Victims(mempool, t)  rest == Without(mempool, V)
<1>1. DOMAIN mempool \ V \subseteq DOMAIN mempool OBVIOUS
<1>2. rest = Kept(mempool, DOMAIN mempool \ V) BY DEF Without
<1> HIDE DEF V, rest
<1>3. rest \in Seq(Txs) BY <1>1, <1>2, KeptFacts
<1>4. ToSet(rest) \subseteq ToSet(mempool) BY <1>1, <1>2, KeptSet
<1>5. \A u : Count(rest, u) <= Count(mempool, u) BY <1>1, <1>2, CountKept
<1>6. \A u : Count(rest, u) \in Nat /\ Count(mempool, u) \in Nat BY <1>3, CountType
<1>7. Append(rest, t) \in Seq(Txs) /\ ToSet(Append(rest, t)) = ToSet(rest) \cup {t} BY <1>3, AppendFacts
<1>8. \A u : Count(Append(rest, t), u) = Count(rest, u) + (IF t = u THEN 1 ELSE 0) BY <1>3, AppendFacts
<1> DEFINE fits == Fits(rest, t)
<1>9. \/ r = [ok |-> FALSE, mempool |-> mempool]
      \/ r = [ok |-> fits, mempool |-> IF fits THEN Append(rest, t) ELSE rest]
  BY DEF Enqueue, rest, V
<1>10. fits \in BOOLEAN BY DEF Fits
<1> HIDE DEF fits
<1>11. \/ r.ok = FALSE /\ r.mempool = mempool
       \/ r.ok = FALSE /\ r.mempool = rest
       \/ r.ok = TRUE /\ r.mempool = Append(rest, t)
  BY <1>9, <1>10
<1>12. CASE r.ok = FALSE /\ r.mempool = mempool
  <2>1. \A u : Count(r.mempool, u) <= Count(mempool, u) + (IF r.ok /\ u = t THEN 1 ELSE 0) BY <1>12, <1>6
  <2> QED BY <1>12, <2>1
<1>13. CASE r.ok = FALSE /\ r.mempool = rest
  <2>1. \A u : Count(r.mempool, u) <= Count(mempool, u) + (IF r.ok /\ u = t THEN 1 ELSE 0) BY <1>13, <1>5, <1>6
  <2> QED BY <1>13, <2>1, <1>3, <1>4
<1>14. CASE r.ok = TRUE /\ r.mempool = Append(rest, t)
  <2>1. \A u : Count(r.mempool, u) <= Count(mempool, u) + (IF u = t THEN 1 ELSE 0) BY <1>14, <1>5, <1>6, <1>8
  <2>2. r.mempool \in Seq(Txs) /\ ToSet(r.mempool) = ToSet(rest) \cup {t} BY <1>14, <1>7
  <2> QED BY <1>14, <2>1, <2>2, <1>4
<1> QED BY <1>11, <1>12, <1>13, <1>14

\* requeue_txs_front keeps what is in the mempool, puts back the rest with its durable
\* copy and adds no second copy.
LEMMA RequeueFacts ==
    ASSUME mempool \in Seq(Txs), durable \subseteq Txs, NEW s \in Seq(Txs), RequeueTxsFront(s)
    PROVE  /\ mempool' \in Seq(Txs) /\ durable' \subseteq Txs /\ durable \subseteq durable'
           /\ ToSet(mempool') = ToSet(mempool) \cup ToSet(s)
           /\ ToSet(mempool') \subseteq ToSet(mempool) \cup durable'
           /\ durable' \subseteq durable \cup ToSet(s)
           /\ \A u : Count(mempool', u) <= Count(mempool, u) + Count(s, u)
<1> DEFINE front == WithoutTxs(s, ToSet(mempool))
<1>1. front \in Seq(Txs) /\ ToSet(front) = ToSet(s) \ ToSet(mempool) /\ \A u : Count(front, u) <= Count(s, u) BY WithoutFacts
<1>2. mempool' = front \o mempool /\ durable' = durable \cup ToSet(front) BY DEF RequeueTxsFront
<1> HIDE DEF front
<1>3. /\ front \o mempool \in Seq(Txs)
      /\ ToSet(front \o mempool) = ToSet(front) \cup ToSet(mempool)
      /\ \A u : Count(front \o mempool, u) = Count(front, u) + Count(mempool, u)
  BY <1>1, CountConcat
<1>4. \A u : Count(front, u) \in Nat /\ Count(mempool, u) \in Nat /\ Count(s, u) \in Nat BY <1>1, CountType
<1>5. ToSet(s) \subseteq Txs BY DEF ToSet
<1>6. \A u : Count(mempool', u) <= Count(mempool, u) + Count(s, u) BY <1>1, <1>2, <1>3, <1>4
<1> QED BY <1>1, <1>2, <1>3, <1>5, <1>6

\* The positions of the first copies that are not settled.
FreshAt(s) == {i \in DOMAIN s : ~IsTxApplied(s[i]) /\ \A j \in 1..(i - 1) : s[j] # s[i]}

\* The filter of mine_pending_block_as keeps exactly the transactions that are not
\* settled.
LEMMA FreshFacts ==
    ASSUME NEW s \in Seq(Txs)
    PROVE  /\ Fresh(s) \in Seq(Txs) /\ ToSet(Fresh(s)) = {t \in ToSet(s) : ~IsTxApplied(t)}
           /\ \A u : Count(Fresh(s), u) <= Count(s, u)
<1>1. FreshAt(s) \subseteq DOMAIN s BY DEF FreshAt
<1>2. Fresh(s) = Kept(s, FreshAt(s)) BY DEF Fresh, FreshAt
<1>3. Kept(s, FreshAt(s)) \in Seq(Txs) BY <1>1, KeptFacts
<1>4. ToSet(Kept(s, FreshAt(s))) = {s[i] : i \in FreshAt(s)} BY <1>1, KeptSet
<1>5. {s[i] : i \in FreshAt(s)} = {t \in ToSet(s) : ~IsTxApplied(t)}
  <2>1. ASSUME NEW i \in FreshAt(s) PROVE s[i] \in ToSet(s) /\ ~IsTxApplied(s[i])
    BY DEF FreshAt, ToSet
  <2>2. ASSUME NEW t \in ToSet(s), ~IsTxApplied(t) PROVE \E i \in FreshAt(s) : s[i] = t
    <3> DEFINE I == {i \in DOMAIN s : s[i] = t}
    <3>1. I \subseteq Nat /\ I # {} BY DEF ToSet
    <3>2. PICK i \in I : \A j \in I : i <= j BY <3>1, Least
    <3>3. i \in DOMAIN s /\ s[i] = t /\ i \in Nat BY <3>1, <3>2
    <3>4. \A j \in 1..(i - 1) : j \in DOMAIN s /\ ~(i <= j) BY <3>3
    <3>5. \A j \in 1..(i - 1) : s[j] # s[i] BY <3>2, <3>3, <3>4
    <3> QED BY <3>3, <3>5, <2>2 DEF FreshAt
  <2> QED BY <2>1, <2>2
<1>6. \A u : Count(Kept(s, FreshAt(s)), u) <= Count(s, u) BY <1>1, CountKept
<1> QED BY <1>2, <1>3, <1>4, <1>5, <1>6

\* mempool_restore brings back each durable transaction once.
LEMMA RestoredFacts ==
    ASSUME durable \subseteq Txs
    PROVE  /\ Restored \in Seq(Txs) /\ ToSet(Restored) = durable
           /\ \A u : Count(Restored, u) = IF u \in durable THEN 1 ELSE 0
<1>0. IsFiniteSet(durable) BY MempoolAssumption, FS_Subset
<1> DEFINE c == Cardinality(durable)
<1>1. c \in Nat BY <1>0, FS_CardinalityType
<1>2. \E f \in [1..c -> durable] : IsInjective(f) /\ \A x \in durable : \E n \in 1..c : f[n] = x
  <2>1. PICK n \in Nat : ExistsBijection(1..n, durable) BY <1>0, FS_NatBijection
  <2>2. PICK f : f \in Bijection(1..n, durable) BY <2>1 DEF ExistsBijection
  <2>3. n = c BY <2>1, <1>0, FS_CountingElements
  <2>4. f \in [1..n -> durable] /\ IsInjective(f) /\ \A x \in durable : \E k \in 1..n : f[k] = x
    BY <2>2 DEF Bijection, Injection, Surjection, IsInjective
  <2> QED BY <2>3, <2>4
<1>3. Restored = CHOOSE f \in [1..c -> durable] : IsInjective(f) BY DEF Restored, SetToSeq
<1>4. Restored \in [1..c -> durable] /\ IsInjective(Restored) BY <1>2, <1>3
<1>5. IsFiniteSet(1..c) /\ Cardinality(1..c) = c
  <2> HIDE DEF c
  <2>1. IsFiniteSet(1..c) /\ Cardinality(1..c) = IF 1 > c THEN 0 ELSE c - 1 + 1 BY <1>1, FS_Interval
  <2> QED BY <2>1, <1>1
<1>6. \A x \in durable : \E n \in 1..c : Restored[n] = x
  <2>1. Restored \in Injection(1..c, durable) BY <1>4 DEF Injection
  <2>2. Restored \in Surjection(1..c, durable) BY <2>1, <1>0, <1>5, FS_Injection
  <2> QED BY <2>2 DEF Surjection
<1> HIDE DEF c
<1>7. Restored \in Seq(Txs) /\ DOMAIN Restored = 1..c BY <1>1, <1>4
<1>8. ToSet(Restored) = durable BY <1>4, <1>6, <1>7 DEF ToSet
<1>9. ASSUME NEW u PROVE Count(Restored, u) = IF u \in durable THEN 1 ELSE 0
  <2> DEFINE I == {i \in DOMAIN Restored : Restored[i] = u}
  <2>1. CASE u \in durable
    <3>1. PICK n \in 1..c : Restored[n] = u BY <1>6, <2>1
    <3>2. I = {n} BY <3>1, <1>4, <1>7 DEF IsInjective
    <3> QED BY <3>2, <2>1, FS_Singleton DEF Count
  <2>2. CASE u \notin durable
    <3>1. I = {} BY <2>2, <1>4, <1>7
    <3> QED BY <3>1, <2>2, FS_EmptySet DEF Count
  <2> QED BY <2>1, <2>2
<1> QED BY <1>7, <1>8, <1>9

\* The transactions of the next block.
Chosen(s) == Isolated(SelectBlockTxs(s))
\* What waits for a later block.
Deferred(s) == SubSeq(SelectBlockTxs(s), Len(Chosen(s)) + 1, Len(SelectBlockTxs(s))) \o SelectLater(s)

\* select_block_txs splits the backlog without adding a copy, and the preview accepts
\* what it selects.
LEMMA SelectedFacts ==
    ASSUME NEW s \in Seq(Txs)
    PROVE  /\ SelectBlockTxs(s) \in Seq(Txs) /\ SelectLater(s) \in Seq(Txs)
           /\ ToSet(SelectBlockTxs(s)) \subseteq ToSet(s) /\ ToSet(SelectLater(s)) \subseteq ToSet(s)
           /\ \A u : Count(SelectBlockTxs(s), u) + Count(SelectLater(s), u) <= Count(s, u)
           /\ SelectBlockTxs(s) = <<>> \/ BlockTxsOk(SelectBlockTxs(s))
<1>0. SelectMax \in Nat \ {0} BY MempoolAssumption
<1>1. CASE BlockTxsOk(s)
  <2>1. SelectBlockTxs(s) = s /\ SelectLater(s) = <<>> BY <1>1 DEF SelectBlockTxs, SelectLater
  <2>2. <<>> \in Seq(Txs) /\ ToSet(<<>>) = {} BY DEF ToSet
  <2>3. \A u : Count(<<>>, u) = 0
    <3> SUFFICES ASSUME NEW u PROVE Count(<<>>, u) = 0 OBVIOUS
    <3>1. PICK q \in Seq(Txs) : q = <<>> BY <2>2, Zenon
    <3>2. Count(q, u) \in Nat /\ (u \in ToSet(q) <=> Count(q, u) # 0) BY CountType
    <3> QED BY <3>1, <3>2, <2>2
  <2>4. \A u : Count(s, u) \in Nat BY CountType
  <2>5. \A u : Count(s, u) + 0 <= Count(s, u) BY <2>4
  <2> QED BY <1>1, <2>1, <2>2, <2>3, <2>5
<1>2. CASE ~BlockTxsOk(s)
  <2> DEFINE n == IF Len(s) < SelectMax THEN Len(s) ELSE SelectMax
             G == OneByOne(s, n)  k == Kept(s, G)
             a == SubSeq(s, 1, n)  b == SubSeq(s, n + 1, Len(s))
  <2>1. n \in Nat /\ n <= Len(s) /\ n \in 0..Len(s) BY <1>0
  <2>2. SelectBlockTxs(s) = k BY <1>2 DEF SelectBlockTxs
  <2>3. SelectLater(s) = b
    <3>1. CASE Len(s) < SelectMax
      <4>1. SubSeq(s, SelectMax + 1, Len(s)) = <<>> BY <1>0, <3>1
      <4>2. SubSeq(s, Len(s) + 1, Len(s)) = <<>> OBVIOUS
      <4> QED BY <1>2, <3>1, <4>1, <4>2 DEF SelectLater
    <3>2. CASE ~(Len(s) < SelectMax) BY <1>2, <3>2 DEF SelectLater
    <3> QED BY <3>1, <3>2
  <2> HIDE DEF n
  <2>4. /\ G \in SUBSET (1..n)
        /\ \A i \in 1..n : i \in G <=> BlockTxsOk(Kept(s, {j \in G : j < i} \cup {i}))
    BY <2>1, OneByOneExists
  <2>5. a \in Seq(Txs) /\ b \in Seq(Txs) /\ Len(a) = n /\ (\A i \in 1..n : a[i] = s[i]) /\ s = a \o b
    BY <2>1, Cut
  <2> HIDE DEF a, b, G
  <2>6. G \subseteq DOMAIN s BY <2>1, <2>4
  <2>7. k \in Seq(Txs) /\ ToSet(k) \subseteq ToSet(s) BY <2>6, KeptFacts, KeptSet
  <2>8. \A u : Count(k, u) <= Count(a, u)
    <3> SUFFICES ASSUME NEW u PROVE Count(k, u) <= Count(a, u) OBVIOUS
    <3> DEFINE c == Cardinality(G)
    <3>1. Len(k) = c BY <2>6, KeptFacts
    <3>2. PICK f \in [1..c -> G] :
                /\ \A i, j \in 1..c : f[i] = f[j] => i = j
                /\ \A i \in 1..c : k[i] = s[f[i]]
      BY <2>6, KeptFacts
    <3> HIDE DEF k, c
    <3>3. DOMAIN k = 1..c /\ DOMAIN a = 1..n BY <3>1, <2>5, <2>7
    <3>4. \A i \in DOMAIN k : f[i] \in DOMAIN a /\ a[f[i]] = k[i] BY <3>2, <3>3, <2>4, <2>5
    <3>5. \A i, j \in DOMAIN k : f[i] = f[j] => i = j BY <3>2, <3>3
    <3> QED BY <3>4, <3>5, <2>5, <2>7, CountInto
  <2>9. \A u : Count(s, u) = Count(a, u) + Count(b, u)
    <3> SUFFICES ASSUME NEW u PROVE Count(s, u) = Count(a, u) + Count(b, u) OBVIOUS
    <3>1. Count(a \o b, u) = Count(a, u) + Count(b, u) BY <2>5, CountConcat
    <3> QED BY <3>1, <2>5
  <2>10. ToSet(b) \subseteq ToSet(s)
    <3>1. ToSet(a \o b) = ToSet(a) \cup ToSet(b) BY <2>5, CountConcat
    <3> QED BY <3>1, <2>5
  <2>11. \A u : Count(k, u) \in Nat /\ Count(a, u) \in Nat /\ Count(b, u) \in Nat BY <2>5, <2>7, CountType
  <2>12. \A u : Count(k, u) + Count(b, u) <= Count(s, u) BY <2>8, <2>9, <2>11
  <2>13. k = <<>> \/ BlockTxsOk(k)
    <3>1. CASE G = {}
      <4>1. Len(k) = 0 BY <2>6, <3>1, KeptFacts, FS_EmptySet
      <4> HIDE DEF k
      <4> QED BY <4>1, <2>7
    <3>2. CASE G # {}
      <4> DEFINE N == {n - i : i \in G}
      <4>1. \A i \in G : i \in Nat /\ i <= n /\ n - i \in Nat BY <2>1, <2>4
      <4>2. N \subseteq Nat /\ N # {} BY <3>2, <4>1
      <4>3. PICK x \in N : \A y \in N : x <= y BY <4>2, Least
      <4>4. PICK i \in G : x = n - i BY <4>3
      <4>5. \A j \in G : n - i <= n - j BY <4>3, <4>4
      <4>6. \A j \in G : j <= i BY <4>1, <4>5, <2>1
      <4>7. {j \in G : j < i} \cup {i} = G BY <4>1, <4>6
      <4>8. i \in 1..n BY <2>4
      <4>9. BlockTxsOk(Kept(s, {j \in G : j < i} \cup {i})) BY <4>8, <2>4
      <4> QED BY <4>7, <4>9
    <3> QED BY <3>1, <3>2
  <2> QED BY <2>2, <2>3, <2>5, <2>7, <2>10, <2>12, <2>13
<1> QED BY <1>1, <1>2

\* The same of the block after isolation and of what is deferred.
LEMMA ChosenFacts ==
    ASSUME NEW s \in Seq(Txs)
    PROVE  /\ Chosen(s) \in Seq(Txs) /\ Deferred(s) \in Seq(Txs)
           /\ ToSet(Chosen(s)) \subseteq ToSet(s) /\ ToSet(Deferred(s)) \subseteq ToSet(s)
           /\ \A u : Count(Chosen(s), u) + Count(Deferred(s), u) <= Count(s, u)
<1> DEFINE sel == SelectBlockTxs(s)  k == Chosen(s)  n == Len(k)
           a == SubSeq(sel, 1, n)  b == SubSeq(sel, n + 1, Len(sel))  l == SelectLater(s)
<1>1. /\ sel \in Seq(Txs) /\ l \in Seq(Txs) /\ ToSet(sel) \subseteq ToSet(s) /\ ToSet(l) \subseteq ToSet(s)
      /\ \A u : Count(sel, u) + Count(l, u) <= Count(s, u)
  BY SelectedFacts
<1>2. k = IF failures > 0 /\ Len(sel) > 1 THEN <<sel[1]>> ELSE sel BY DEF Chosen, Isolated
<1> HIDE DEF k, sel, l
<1>3. k \in Seq(Txs) /\ n \in 0..Len(sel) /\ \A i \in 1..n : k[i] = sel[i]
  <2>1. CASE failures > 0 /\ Len(sel) > 1
    <3>1. k = <<sel[1]>> BY <2>1, <1>2
    <3>2. sel[1] \in Txs BY <2>1, <1>1
    <3>3. k \in Seq(Txs) /\ Len(k) = 1 /\ k[1] = sel[1] BY <3>1, <3>2
    <3> QED BY <3>3, <2>1, <1>1
  <2>2. CASE ~(failures > 0 /\ Len(sel) > 1) 
    <3>1. k = sel BY <2>2, <1>2
    <3> QED BY <3>1, <1>1
  <2> QED BY <2>1, <2>2
<1>4. a \in Seq(Txs) /\ b \in Seq(Txs) /\ Len(a) = n /\ (\A i \in 1..n : a[i] = sel[i]) /\ sel = a \o b
  BY <1>1, <1>3, Cut
<1>5. a = k
  <2> HIDE DEF a
  <2>1. Len(k) = Len(a) BY <1>4
  <2>2. \A i \in 1..Len(k) : k[i] = a[i] BY <1>3, <1>4
  <2> HIDE DEF n
  <2> QED BY <2>1, <2>2, <1>3, <1>4
<1> HIDE DEF a, b
<1>6. \A u : Count(sel, u) = Count(k, u) + Count(b, u)
  <2> SUFFICES ASSUME NEW u PROVE Count(sel, u) = Count(k, u) + Count(b, u) OBVIOUS
  <2>1. Count(a \o b, u) = Count(a, u) + Count(b, u) BY <1>4, CountConcat
  <2> QED BY <2>1, <1>4, <1>5
<1>7. ToSet(k) \subseteq ToSet(sel) /\ ToSet(b) \subseteq ToSet(sel)
  <2>1. ToSet(a \o b) = ToSet(a) \cup ToSet(b) BY <1>4, CountConcat
  <2> QED BY <2>1, <1>4, <1>5
<1>8. Deferred(s) = b \o l BY DEF Deferred, b, l, sel, k
<1>9. b \o l \in Seq(Txs) /\ ToSet(b \o l) = ToSet(b) \cup ToSet(l) BY <1>1, <1>4, CountConcat
<1>10. \A u : Count(b \o l, u) = Count(b, u) + Count(l, u) BY <1>1, <1>4, CountConcat
<1>11. \A u : Count(b, u) \in Nat /\ Count(l, u) \in Nat /\ Count(k, u) \in Nat BY <1>1, <1>3, <1>4, CountType
<1>12. \A u : Count(k, u) + Count(b \o l, u) <= Count(s, u) BY <1>1, <1>6, <1>10, <1>11
<1> QED BY <1>1, <1>3, <1>7, <1>8, <1>9, <1>12 DEF k

\* What the selecting step does.
LEMMA MineSelectIs ==
    ASSUME NEW m, MineSelect(m), NEW s, s = miner[m].txs
    PROVE  /\ miner[m].step = "filtered"
           /\ miner' = [miner EXCEPT ![m] = [step |-> "selected", txs |-> Chosen(s)]]
           /\ RequeueTxsFront(Deferred(s))
           /\ fate' = [t \in Txs |-> IF t \in ToSet(s) \ (ToSet(Chosen(s)) \cup ToSet(Deferred(s)))
                                     THEN "refused" ELSE fate[t]]
           /\ UNCHANGED <<tracker, included, leads, announcing, arriving, failures, remote,
                       sweep, acked, local, budget>>
BY DEF MineSelect, Chosen, Deferred

-----------------------------------------------------------------------------
(* Types are kept.                                                           *)

\* What admission does to the mempool and to the fate of a transaction.
LEMMA AdmitFacts ==
    ASSUME Typed, NEW t \in Txs, Admit(t), NEW r, r = Enqueue(t)
    PROVE  /\ mempool' = r.mempool /\ mempool' \in Seq(Txs) /\ r.ok \in BOOLEAN
           /\ fate' \in [Txs -> {"none", "evicted", "refused", "failed", "storage"}]
           /\ \A u \in Txs : \/ fate'[u] = "evicted"
                             \/ u \notin ToSet(mempool) \ ToSet(mempool') /\ fate'[u] = fate[u]
                             \/ u \in ToSet(mempool') /\ fate'[u] = "none" /\ u = t /\ r.ok
<1>1. /\ r.mempool \in Seq(Txs) /\ r.ok \in BOOLEAN
      /\ r.ok => t \in ToSet(r.mempool)
  BY EnqueueFacts DEF Typed
<1>2. /\ mempool' = r.mempool
      /\ fate' = [u \in Txs |-> IF u \in ToSet(mempool) \ ToSet(r.mempool) THEN "evicted"
                                  ELSE IF r.ok /\ u = t THEN "none" ELSE fate[u]]
  BY DEF Admit
<1>3. fate \in [Txs -> {"none", "evicted", "refused", "failed", "storage"}] BY DEF Typed
<1> QED BY <1>1, <1>2, <1>3

\* Admission keeps the types.
LEMMA TypedAdmission ==
    ASSUME Typed, \/ \E t \in Txs : SubmitLocalTx(t) \/ BroadcastMempoolTx(t) \/ HandleTxBroadcast(t)
                  \/ EnqueueWithoutBroadcast
    PROVE  Typed'
<1>1. ASSUME NEW t \in Txs, SubmitLocalTx(t) PROVE Typed'
  <2>0. PICK r : r = Enqueue(t) OBVIOUS
  <2>1. Admit(t) BY <1>1 DEF SubmitLocalTx
  <2>2. mempool' \in Seq(Txs) /\ fate' \in [Txs -> {"none", "evicted", "refused", "failed", "storage"}]
    BY <2>0, <2>1, AdmitFacts
  <2>3. budget' \in Budget BY <1>1, Spend_submits DEF SubmitLocalTx, Typed
  <2>4. /\ announcing' \in {announcing \cup {t}, announcing} /\ local' \in {local \cup {t}, local}
        /\ (announcing' = announcing \cup {t} => local' = local \cup {t} \/ announcing' = announcing)
    BY <1>1 DEF SubmitLocalTx
  <2>5. announcing' \subseteq local' /\ acked' \subseteq local' /\ local' \subseteq Txs
    <3>1. announcing' \subseteq local' BY <1>1, <2>4 DEF SubmitLocalTx, Typed
    <3>2. acked' \subseteq local' BY <1>1, <2>4 DEF SubmitLocalTx, Typed
    <3>3. local' \subseteq Txs BY <2>4 DEF Typed
    <3> QED BY <3>1, <3>2, <3>3
  <2> QED BY <1>1, <2>2, <2>3, <2>5 DEF SubmitLocalTx, Typed
<1>2. ASSUME NEW t \in Txs, BroadcastMempoolTx(t) PROVE Typed'
  BY <1>2 DEF BroadcastMempoolTx, Typed
<1>3. ASSUME NEW t \in Txs, HandleTxBroadcast(t) PROVE Typed'
  <2>1. budget' \in Budget BY <1>3, Spend_deliveries DEF HandleTxBroadcast, Typed
  <2> QED BY <1>3, <2>1 DEF HandleTxBroadcast, Typed, history
<1>4. ASSUME EnqueueWithoutBroadcast PROVE Typed'
  <2>0. PICK r : r = Enqueue(arriving) OBVIOUS
  <2>1. Admit(arriving) /\ arriving \in Txs BY <1>4 DEF EnqueueWithoutBroadcast, Typed
  <2>2. mempool' \in Seq(Txs) /\ fate' \in [Txs -> {"none", "evicted", "refused", "failed", "storage"}]
    BY <2>0, <2>1, AdmitFacts
  <2> QED BY <1>4, <2>2 DEF EnqueueWithoutBroadcast, Typed
<1> QED BY <1>1, <1>2, <1>3, <1>4

\* The sweep keeps the types.
LEMMA TypedSweep ==
    ASSUME Typed, SweepSnapshot \/ SweepTracker
    PROVE  Typed'
<1>1. ASSUME SweepSnapshot PROVE Typed'
  <2>1. budget' \in Budget BY <1>1, Spend_sweeps DEF SweepSnapshot, Typed
  <2> QED BY <1>1, <2>1 DEF SweepSnapshot, Typed, history
<1>2. ASSUME SweepTracker PROVE Typed'
  <2>1. sweep \in Seq(Txs) BY <1>2 DEF SweepTracker, Typed
  <2>2. \A t \in Txs : Count(sweep, t) \in Nat BY <2>1, CountType
  <2>3. tracker' = [t \in Txs |-> IF tracker[t] = Untracked \/ ~Retain(t) THEN Untracked
          ELSE tracker[t] + Count(sweep, t)]
    BY <1>2 DEF SweepTracker, Count
  <2>4. tracker' \in [Txs -> Int] BY <2>2, <2>3 DEF Typed, Untracked
  <2> QED BY <1>2, <2>4 DEF SweepTracker, Typed
<1> QED BY <1>1, <1>2

\* Every step of a miner keeps the types.
LEMMA TypedMine ==
    ASSUME Typed, NEW m \in Miners, Mine(m)
    PROVE  Typed'
<1>0. miner[m] \in Lists /\ miner[m].txs \in Seq(Txs) /\ miner[m].step \in {"idle", "elected", "taken", "forgotten", "filtered", "selected"}
  BY DEF Typed, Lists
<1>1. ASSUME Elect(m) PROVE Typed'
  <2>1. miner' \in [Miners -> Lists] BY <1>0, <1>1 DEF Elect, Typed, Lists
  <2> QED BY <1>1, <2>1 DEF Elect, Typed, history
<1>2. ASSUME MineTake(m) PROVE Typed'
  <2>1. [step |-> "taken", txs |-> mempool] \in Lists BY DEF Typed, Lists
  <2>2. miner' \in [Miners -> Lists] BY <1>2, <2>1 DEF MineTake, Typed
  <2> QED BY <1>2, <2>2 DEF MineTake, Typed, history
<1>3. ASSUME MineForget(m) PROVE Typed'
  <2>1. miner' \in [Miners -> Lists] BY <1>0, <1>3 DEF MineForget, Typed, Lists
  <2> QED BY <1>3, <2>1 DEF MineForget, Typed, history
<1>4. ASSUME MineFilter(m) PROVE Typed'
  <2>1. [step |-> "filtered", txs |-> Fresh(miner[m].txs)] \in Lists BY <1>0, FreshFacts DEF Lists
  <2>2. miner' = [miner EXCEPT ![m] = [step |-> "filtered", txs |-> Fresh(miner[m].txs)]]
    BY <1>4 DEF MineFilter
  <2>3. miner' \in [Miners -> Lists] BY <2>1, <2>2 DEF Typed
  <2> QED BY <1>4, <2>3 DEF MineFilter, Typed, history
<1>5. ASSUME MineSelect(m) PROVE Typed'
  <2>0. PICK s \in Seq(Txs) : s = miner[m].txs BY <1>0
  <2>1. /\ miner' = [miner EXCEPT ![m] = [step |-> "selected", txs |-> Chosen(s)]]
        /\ RequeueTxsFront(Deferred(s))
        /\ fate' = [t \in Txs |-> IF t \in ToSet(s) \ (ToSet(Chosen(s)) \cup ToSet(Deferred(s)))
                                     THEN "refused" ELSE fate[t]]
        /\ UNCHANGED <<tracker, included, leads, announcing, arriving, failures, remote,
                       sweep, acked, local, budget>>
    BY <1>5, <2>0, MineSelectIs
  <2>2. Chosen(s) \in Seq(Txs) /\ Deferred(s) \in Seq(Txs) BY ChosenFacts
  <2>3. mempool' \in Seq(Txs) /\ durable' \subseteq Txs BY <2>1, <2>2, RequeueFacts DEF Typed
  <2>4. [step |-> "selected", txs |-> Chosen(s)] \in Lists BY <2>2 DEF Lists
  <2>5. miner' \in [Miners -> Lists] BY <2>1, <2>4 DEF Typed
  <2>6. fate' \in [Txs -> {"none", "evicted", "refused", "failed", "storage"}] BY <2>1 DEF Typed
  <2> QED BY <2>1, <2>3, <2>5, <2>6 DEF Typed
<1>a. Idle(m) => miner' \in [Miners -> Lists]
  <2>1. <<>> \in Seq(Txs) OBVIOUS
  <2>2. [step |-> "idle", txs |-> <<>>] \in Lists BY <2>1 DEF Lists
  <2> QED BY <2>2 DEF Idle, Typed
<1>b. NextLeader => leads' \in BOOLEAN BY DEF NextLeader, Typed
<1>6. ASSUME BuildOk(m) PROVE Typed'
  <2>1. included' \in [Txs -> Nat] BY <1>6 DEF BuildOk, Typed
  <2> QED BY <1>6, <1>a, <1>b, <2>1 DEF BuildOk, Typed
<1>7. ASSUME BuildFails(m) PROVE Typed'
  <2>0. PICK s \in Seq(Txs) : s = miner[m].txs BY <1>0
  <2> DEFINE n == CountFailure(failures) requeue == AfterFailureRequeues(n, Len(s))
  <2>1. budget' \in Budget
    <3>1. Spend("faults") => budget' \in Budget BY Spend_faults DEF Typed
    <3>2. Spend("faults") \/ UNCHANGED budget BY <1>7 DEF BuildFails
    <3> QED BY <3>1, <3>2 DEF Typed
  <2>2. failures' \in Nat /\ fate' \in [Txs -> {"none", "evicted", "refused", "failed", "storage"}]
    BY <1>7 DEF BuildFails, Typed, CountFailure
  <2>3. RequeueTxsFront(s) \/ UNCHANGED <<mempool, durable>> BY <1>7, <2>0 DEF BuildFails
  <2>4. RequeueTxsFront(s) => mempool' \in Seq(Txs) /\ durable' \subseteq Txs BY RequeueFacts DEF Typed
  <2>5. mempool' \in Seq(Txs) /\ durable' \subseteq Txs BY <2>3, <2>4 DEF Typed
  <2>6. /\ Idle(m) /\ UNCHANGED <<tracker, included, leads, announcing, arriving, remote, sweep, acked, local>>
    BY <1>7 DEF BuildFails
  <2> QED BY <1>a, <2>1, <2>2, <2>5, <2>6 DEF Typed
<1>8. ASSUME BuildMaybeWritten(m) PROVE Typed'
  <2>1. budget' \in Budget BY <1>8, Spend_faults DEF BuildMaybeWritten, Typed
  <2>2. /\ Idle(m) /\ failures' = 0 /\ (leads' = leads \/ NextLeader)
        /\ UNCHANGED <<mempool, durable, tracker, announcing, arriving, remote, sweep, acked, local>>
    BY <1>8 DEF BuildMaybeWritten
  <2>3. fate' \in [Txs -> {"none", "evicted", "refused", "failed", "storage"}] BY <1>8 DEF BuildMaybeWritten, Typed
  <2>4. included' \in [Txs -> Nat]
    <3>0. PICK T : T = ToSet(miner[m].txs) OBVIOUS
    <3>1. included' = included \/ included' = [t \in Txs |-> included[t] + (IF t \in T THEN 1 ELSE 0)]
      BY <1>8, <3>0 DEF BuildMaybeWritten
    <3>2. included \in [Txs -> Nat] BY DEF Typed
    <3> QED BY <3>1, <3>2
  <2> QED BY <1>a, <1>b, <2>1, <2>2, <2>3, <2>4 DEF Typed
<1> QED BY <1>1, <1>2, <1>3, <1>4, <1>5, <1>6, <1>7, <1>8 DEF Mine, Build

\* A remote block keeps the types.
LEMMA TypedRemote ==
    ASSUME Typed, \/ \E B \in {{}} \cup {{t} : t \in Txs} : RemoteApply(B)
                  \/ RemoteForget \/ RemoteEvict
    PROVE  Typed'
<1>1. ASSUME NEW B \in {{}} \cup {{t} : t \in Txs}, RemoteApply(B) PROVE Typed'
  <2>1. B \subseteq Txs OBVIOUS
  <2>2. included' \in [Txs -> Nat] BY <1>1 DEF RemoteApply, Typed
  <2>3. remote' \in [step : {"idle", "applied", "forgotten"}, txs : SUBSET Txs] BY <1>1, <2>1 DEF RemoteApply
  <2> QED BY <1>1, <2>2, <2>3 DEF RemoteApply, Typed, history
<1>2. ASSUME RemoteForget PROVE Typed'
  <2>1. remote' \in [step : {"idle", "applied", "forgotten"}, txs : SUBSET Txs] BY <1>2 DEF RemoteForget, Typed
  <2> QED BY <1>2, <2>1 DEF RemoteForget, Typed, history
<1>3. ASSUME RemoteEvict PROVE Typed'
  <2>1. remote' \in [step : {"idle", "applied", "forgotten"}, txs : SUBSET Txs] BY <1>3 DEF RemoteEvict
  <2>2. WithoutTxs(mempool, remote.txs) \in Seq(Txs) BY WithoutFacts DEF Typed
  <2> QED BY <1>3, <2>1, <2>2 DEF RemoteEvict, Typed, history
<1> QED BY <1>1, <1>2, <1>3

\* A restart keeps the types.
LEMMA TypedCrash ==
    ASSUME Typed, CrashRestart
    PROVE  Typed'
<1>1. budget' \in Budget BY Spend_crashes DEF CrashRestart, Typed
<1>2. mempool' \in Seq(Txs) BY RestoredFacts DEF CrashRestart, Typed
<1>3. tracker' \in [Txs -> Int] BY DEF CrashRestart, Untracked
<1>4. miner' \in [Miners -> Lists]
  <2>1. <<>> \in Seq(Txs) OBVIOUS
  <2>2. [step |-> "idle", txs |-> <<>>] \in Lists BY <2>1 DEF Lists
  <2> QED BY <2>2 DEF CrashRestart
<1>5. remote' \in [step : {"idle", "applied", "forgotten"}, txs : SUBSET Txs] BY DEF CrashRestart
<1> QED BY <1>1, <1>2, <1>3, <1>4, <1>5 DEF CrashRestart, Typed

\* Every step keeps the types.
LEMMA TypedStep == Typed /\ [Next]_vars => Typed'
<1> SUFFICES ASSUME Typed, [Next]_vars PROVE Typed' OBVIOUS
<1>1. CASE Next BY <1>1, TypedAdmission, TypedSweep, TypedMine, TypedRemote, TypedCrash DEF Next
<1>2. CASE UNCHANGED vars BY <1>2 DEF vars, Typed
<1> QED BY <1>1, <1>2

\* No bound is exceeded.
Bounded ==
    /\ budget.submits <= MaxSubmits /\ budget.deliveries <= MaxDeliveries
    /\ budget.sweeps <= MaxSweeps /\ budget.faults <= MaxFaults /\ budget.crashes <= MaxCrashes

\* What the apply worker is about to forget is settled.
RemoteSettled == remote.step # "idle" => \A t \in remote.txs : IsTxApplied(t)

\* A miner that has not taken the mempool holds nothing.
EmptyHands == \A m \in Miners : miner[m].step \in {"idle", "elected"} => miner[m].txs = <<>>

\* What is settled stays settled.
LEMMA SettledStays ==
    ASSUME Typed, Next
    PROVE  \A t \in Txs : IsTxApplied(t) => IsTxApplied(t)'
<1> SUFFICES ASSUME NEW t \in Txs, IsTxApplied(t) PROVE included'[t] > 0 BY DEF IsTxApplied
<1>0. included \in [Txs -> Nat] /\ included[t] > 0 BY DEF Typed, IsTxApplied
<1>1. CASE UNCHANGED included BY <1>0, <1>1
<1>2. ASSUME NEW B, included' = [u \in Txs |-> included[u] + (IF u \in B THEN 1 ELSE 0)] PROVE included'[t] > 0
  BY <1>0, <1>2
<1>3. UNCHANGED included \/ \E B : included' = [u \in Txs |-> included[u] + (IF u \in B THEN 1 ELSE 0)]
  <2>1. ASSUME NEW u \in Txs, SubmitLocalTx(u) \/ BroadcastMempoolTx(u) \/ HandleTxBroadcast(u) PROVE UNCHANGED included
    BY <2>1 DEF SubmitLocalTx, BroadcastMempoolTx, HandleTxBroadcast
  <2>2. ASSUME EnqueueWithoutBroadcast \/ SweepSnapshot \/ SweepTracker \/ RemoteForget \/ RemoteEvict \/ CrashRestart PROVE UNCHANGED included
    BY <2>2 DEF EnqueueWithoutBroadcast, SweepSnapshot, SweepTracker, RemoteForget, RemoteEvict, CrashRestart
  <2>3. ASSUME NEW B, RemoteApply(B) PROVE included' = [u \in Txs |-> included[u] + (IF u \in B THEN 1 ELSE 0)]
    BY <2>3 DEF RemoteApply
  <2>4. ASSUME NEW m \in Miners, Mine(m) PROVE UNCHANGED included \/ included' = [u \in Txs |-> included[u] + (IF u \in ToSet(miner[m].txs) THEN 1 ELSE 0)]
    <3>1. ASSUME Elect(m) \/ MineTake(m) \/ MineForget(m) \/ MineFilter(m) \/ MineSelect(m) \/ BuildFails(m) PROVE UNCHANGED included
      BY <3>1 DEF Elect, MineTake, MineForget, MineFilter, MineSelect, BuildFails
    <3>2. ASSUME BuildOk(m) \/ BuildMaybeWritten(m) PROVE UNCHANGED included \/ included' = [u \in Txs |-> included[u] + (IF u \in ToSet(miner[m].txs) THEN 1 ELSE 0)]
      BY <3>2 DEF BuildOk, BuildMaybeWritten
    <3> QED BY <2>4, <3>1, <3>2 DEF Mine, Build
  <2> QED BY <2>1, <2>2, <2>3, <2>4 DEF Next
<1> QED BY <1>1, <1>2, <1>3

\* Budgets only shrink.
LEMMA BoundedStep ==
    ASSUME Typed, Bounded, Next
    PROVE  /\ Bounded'
           /\ budget'.submits <= budget.submits /\ budget'.deliveries <= budget.deliveries
           /\ budget'.faults <= budget.faults /\ budget'.crashes <= budget.crashes
<1> DEFINE Goal == /\ Bounded'
           /\ budget'.submits <= budget.submits /\ budget'.deliveries <= budget.deliveries
           /\ budget'.faults <= budget.faults /\ budget'.crashes <= budget.crashes
<1>0. budget \in Budget /\ MaxSubmits \in Nat /\ MaxDeliveries \in Nat /\ MaxSweeps \in Nat /\ MaxFaults \in Nat /\ MaxCrashes \in Nat
  BY MempoolAssumption DEF Typed
<1>1. ASSUME UNCHANGED budget PROVE Goal BY <1>0, <1>1 DEF Bounded, Budget
<1>2. ASSUME Spend("submits") PROVE Goal BY <1>0, <1>2, Spend_submits DEF Bounded, Budget
<1>3. ASSUME Spend("deliveries") PROVE Goal BY <1>0, <1>3, Spend_deliveries DEF Bounded, Budget
<1>4. ASSUME Spend("sweeps") PROVE Goal BY <1>0, <1>4, Spend_sweeps DEF Bounded, Budget
<1>5. ASSUME Spend("faults") PROVE Goal BY <1>0, <1>5, Spend_faults DEF Bounded, Budget
<1>6. ASSUME Spend("crashes") PROVE Goal BY <1>0, <1>6, Spend_crashes DEF Bounded, Budget
<1> HIDE DEF Goal
<1>7. ASSUME NEW t \in Txs, SubmitLocalTx(t) \/ BroadcastMempoolTx(t) \/ HandleTxBroadcast(t) PROVE Goal
  BY <1>7, <1>1, <1>2, <1>3 DEF SubmitLocalTx, BroadcastMempoolTx, HandleTxBroadcast
<1>8. ASSUME EnqueueWithoutBroadcast \/ SweepSnapshot \/ SweepTracker \/ RemoteForget \/ RemoteEvict \/ CrashRestart PROVE Goal
  BY <1>8, <1>1, <1>4, <1>6 DEF EnqueueWithoutBroadcast, SweepSnapshot, SweepTracker, RemoteForget, RemoteEvict, CrashRestart
<1>9. ASSUME NEW B, RemoteApply(B) PROVE Goal BY <1>9, <1>1 DEF RemoteApply
<1>10. ASSUME NEW m \in Miners, Mine(m) PROVE Goal
  <2>1. ASSUME Elect(m) \/ MineTake(m) \/ MineForget(m) \/ MineFilter(m) \/ MineSelect(m) \/ BuildOk(m) PROVE Goal
    BY <2>1, <1>1 DEF Elect, MineTake, MineForget, MineFilter, MineSelect, BuildOk
  <2>2. ASSUME BuildMaybeWritten(m) PROVE Goal BY <2>2, <1>5 DEF BuildMaybeWritten
  <2>3. ASSUME BuildFails(m) PROVE Goal
    <3>1. Spend("faults") \/ UNCHANGED budget BY <2>3 DEF BuildFails
    <3> QED BY <3>1, <1>1, <1>5
  <2> QED BY <1>10, <2>1, <2>2, <2>3 DEF Mine, Build
<1>11. Goal BY <1>7, <1>8, <1>9, <1>10 DEF Next
<1> QED BY <1>11 DEF Goal

\* A miner that has not taken the mempool holds nothing, after every step.
LEMMA HandsStep ==
    ASSUME Typed, EmptyHands, Next
    PROVE  EmptyHands'
<1>0. miner \in [Miners -> Lists] BY DEF Typed
<1>1. ASSUME UNCHANGED miner PROVE EmptyHands' BY <1>1 DEF EmptyHands
<1>2. ASSUME NEW t \in Txs, SubmitLocalTx(t) \/ BroadcastMempoolTx(t) \/ HandleTxBroadcast(t) PROVE UNCHANGED miner
  BY <1>2 DEF SubmitLocalTx, BroadcastMempoolTx, HandleTxBroadcast
<1>3. ASSUME EnqueueWithoutBroadcast \/ SweepSnapshot \/ SweepTracker \/ RemoteForget \/ RemoteEvict PROVE UNCHANGED miner
  BY <1>3 DEF EnqueueWithoutBroadcast, SweepSnapshot, SweepTracker, RemoteForget, RemoteEvict
<1>4. ASSUME NEW B, RemoteApply(B) PROVE UNCHANGED miner BY <1>4 DEF RemoteApply
<1>5. ASSUME CrashRestart PROVE EmptyHands' BY <1>5 DEF CrashRestart, EmptyHands
<1>6. ASSUME NEW m \in Miners, Mine(m) PROVE EmptyHands'
  <2>1. ASSUME NEW x \in [step : STRING, txs : Seq(Txs)], miner' = [miner EXCEPT ![m] = x], x.step \in {"idle", "elected"} => x.txs = <<>> PROVE EmptyHands'
    BY <2>1, <1>0 DEF EmptyHands
  <2>2. ASSUME Elect(m) PROVE EmptyHands'
    <3>1. miner'[m].txs = miner[m].txs /\ \A k \in Miners : k # m => miner'[k] = miner[k] BY <2>2, <1>0 DEF Elect, Lists
    <3>2. miner[m].txs = <<>> BY <2>2 DEF Elect, EmptyHands
    <3> QED BY <3>1, <3>2 DEF EmptyHands
  <2>3. ASSUME MineForget(m) PROVE EmptyHands'
    <3>1. miner'[m].step = "forgotten" /\ \A k \in Miners : k # m => miner'[k] = miner[k] BY <2>3, <1>0 DEF MineForget, Lists
    <3> QED BY <3>1 DEF EmptyHands
  <2>4. ASSUME Idle(m) PROVE EmptyHands' BY <2>4, <1>0 DEF EmptyHands, Idle
  <2>5. ASSUME NEW q, NEW st \in {"taken", "filtered", "selected"}, miner' = [miner EXCEPT ![m] = [step |-> st, txs |-> q]] PROVE EmptyHands'
    BY <2>5, <1>0 DEF EmptyHands
  <2>6. ASSUME MineTake(m) \/ MineFilter(m) \/ MineSelect(m) PROVE EmptyHands'
    <3>1. MineTake(m) => EmptyHands' BY <2>5 DEF MineTake
    <3>2. MineFilter(m) => EmptyHands' BY <2>5 DEF MineFilter
    <3>3. MineSelect(m) => EmptyHands' BY <2>5 DEF MineSelect
    <3> QED BY <2>6, <3>1, <3>2, <3>3
  <2> QED BY <1>6, <2>2, <2>3, <2>4, <2>6 DEF Mine, Build, BuildOk, BuildFails, BuildMaybeWritten
<1> QED BY <1>1, <1>2, <1>3, <1>4, <1>5, <1>6 DEF Next

\* The apply worker forgets only what is settled, after every step.
LEMMA RemoteStep ==
    ASSUME Typed, RemoteSettled, Next
    PROVE  RemoteSettled'
<1>0. \A t \in Txs : IsTxApplied(t) => IsTxApplied(t)' BY SettledStays
<1>1. remote \in [step : {"idle", "applied", "forgotten"}, txs : SUBSET Txs] BY DEF Typed
<1>2. ASSUME UNCHANGED remote PROVE RemoteSettled' BY <1>0, <1>1, <1>2 DEF RemoteSettled
<1>3. ASSUME NEW t \in Txs, SubmitLocalTx(t) \/ BroadcastMempoolTx(t) \/ HandleTxBroadcast(t) PROVE UNCHANGED remote
  BY <1>3 DEF SubmitLocalTx, BroadcastMempoolTx, HandleTxBroadcast
<1>4. ASSUME EnqueueWithoutBroadcast \/ SweepSnapshot \/ SweepTracker PROVE UNCHANGED remote
  BY <1>4 DEF EnqueueWithoutBroadcast, SweepSnapshot, SweepTracker
<1>5. ASSUME NEW m \in Miners, Mine(m) PROVE UNCHANGED remote
  BY <1>5 DEF Mine, Build, Elect, MineTake, MineForget, MineFilter, MineSelect, BuildOk, BuildFails, BuildMaybeWritten
<1>6. ASSUME RemoteForget PROVE RemoteSettled'
  <2>1. remote.step # "idle" /\ remote'.txs = remote.txs BY <1>6, <1>1 DEF RemoteForget
  <2> QED BY <2>1, <1>0, <1>1 DEF RemoteSettled
<1>7. ASSUME RemoteEvict \/ CrashRestart PROVE RemoteSettled' BY <1>7 DEF RemoteEvict, CrashRestart, RemoteSettled
<1>8. ASSUME NEW B \in {{}} \cup {{t} : t \in Txs}, RemoteApply(B) PROVE RemoteSettled'
  <2>1. remote'.txs = B /\ B \subseteq Txs BY <1>8 DEF RemoteApply
  <2>2. \A t \in B : included'[t] = included[t] + 1 /\ included[t] \in Nat BY <1>8, <2>1 DEF RemoteApply, Typed
  <2>3. \A t \in B : included'[t] > 0 BY <2>2
  <2> QED BY <2>1, <2>3 DEF RemoteSettled, IsTxApplied
<1> QED BY <1>2, <1>3, <1>4, <1>5, <1>6, <1>7, <1>8 DEF Next

\* What all the invariants below stand on.
Basics == Typed /\ Bounded /\ RemoteSettled /\ EmptyHands

\* A fresh node has the basics.
LEMMA BasicsInit == Init => Basics
<1> SUFFICES ASSUME Init PROVE Basics OBVIOUS
<1>1. Bounded BY MempoolAssumption DEF Init, Bounded
<1>2. RemoteSettled /\ EmptyHands BY DEF Init, RemoteSettled, EmptyHands
<1> QED BY <1>1, <1>2, TypedInit DEF Basics

\* Every step keeps the basics.
LEMMA BasicsStep == Basics /\ [Next]_vars => Basics'
<1> SUFFICES ASSUME Basics, [Next]_vars PROVE Basics' OBVIOUS
<1>1. Typed' BY TypedStep DEF Basics
<1>2. CASE Next BY <1>1, <1>2, BoundedStep, RemoteStep, HandsStep DEF Basics
<1>3. CASE UNCHANGED vars BY <1>1, <1>3 DEF Basics, vars, Bounded, RemoteSettled, EmptyHands, IsTxApplied
<1> QED BY <1>2, <1>3

-----------------------------------------------------------------------------
(* Nothing acknowledged is lost track of.                                    *)

\* A transaction the node can still account for.
Accounted(t) == IsTxApplied(t) \/ fate[t] # "none" \/ t \in ToSet(mempool) \/ Held(t)

\* Without a crash everything acknowledged or about to be is accounted for: what makes
\* AckedAccounted inductive.
NoneLost == budget.crashes = MaxCrashes => \A t \in acked \cup announcing : Accounted(t)

\* A miner changes only what is in its own hands.
LEMMA HeldElsewhere ==
    ASSUME Typed, NEW m \in Miners, NEW x, miner' = [miner EXCEPT ![m] = x], NEW t, Held(t), t \notin ToSet(miner[m].txs)
    PROVE  Held(t)'
<1>1. PICK k \in Miners : t \in ToSet(miner[k].txs) BY DEF Held
<1>2. k # m /\ miner'[k] = miner[k] BY <1>1 DEF Typed
<1> QED BY <1>1, <1>2 DEF Held

\* Admission, eviction included, loses track of nothing.
LEMMA AccountedAdmission ==
    ASSUME Basics, NoneLost, budget'.crashes = MaxCrashes, budget.crashes = MaxCrashes, Next,
           \/ \E t \in Txs : SubmitLocalTx(t) \/ BroadcastMempoolTx(t) \/ HandleTxBroadcast(t)
           \/ EnqueueWithoutBroadcast
    PROVE  \A t \in (acked \cup announcing)' : Accounted(t)'
<1>0. \A t \in acked \cup announcing : Accounted(t) /\ t \in Txs BY DEF NoneLost, Basics, Typed
<1>1. \A t \in Txs : IsTxApplied(t) => IsTxApplied(t)' BY SettledStays DEF Basics
<1>2. Typed /\ Typed' BY TypedStep DEF Basics
<1>3. ASSUME NEW t \in Txs, Admit(t), UNCHANGED miner, NEW u \in Txs, Accounted(u) PROVE Accounted(u)'
  <2>0. PICK r : r = Enqueue(t) OBVIOUS
  <2>1. \/ fate'[u] = "evicted"
        \/ u \notin ToSet(mempool) \ ToSet(mempool') /\ fate'[u] = fate[u]
        \/ u \in ToSet(mempool')
    BY <1>2, <1>3, <2>0, AdmitFacts
  <2>2. Held(u) => Held(u)' BY <1>3 DEF Held
  <2> QED BY <1>1, <1>3, <2>1, <2>2 DEF Accounted
<1>4. ASSUME NEW t \in Txs, SubmitLocalTx(t) PROVE \A u \in (acked \cup announcing)' : Accounted(u)'
  <2>0. PICK r : r = Enqueue(t) OBVIOUS
  <2>1. Admit(t) /\ UNCHANGED miner /\ acked' = acked /\ announcing' = (IF r.ok THEN announcing \cup {t} ELSE announcing)
    BY <1>4, <2>0 DEF SubmitLocalTx
  <2>2. r.ok => t \in ToSet(mempool') BY <1>2, <2>0, <2>1, EnqueueFacts, AdmitFacts DEF Typed
  <2>3. ASSUME NEW u \in (acked \cup announcing)' PROVE Accounted(u)'
    <3>1. CASE u \in acked \cup announcing BY <3>1, <1>0, <1>3, <2>1
    <3>2. CASE u \notin acked \cup announcing
      <4>1. r.ok /\ u = t BY <3>2, <2>1, <2>3
      <4> QED BY <4>1, <2>2 DEF Accounted
    <3> QED BY <3>1, <3>2
  <2> QED BY <2>3
<1>5. ASSUME NEW t \in Txs, BroadcastMempoolTx(t) PROVE \A u \in (acked \cup announcing)' : Accounted(u)'
  <2>1. (acked \cup announcing)' = acked \cup announcing /\ UNCHANGED <<miner, mempool, included, fate>>
    BY <1>5 DEF BroadcastMempoolTx
  <2>2. \A u : Accounted(u) => Accounted(u)' BY <2>1 DEF Accounted, Held, IsTxApplied
  <2> QED BY <2>1, <2>2, <1>0
<1>6. ASSUME NEW t \in Txs, HandleTxBroadcast(t) PROVE \A u \in (acked \cup announcing)' : Accounted(u)'
  <2>1. (acked \cup announcing)' = acked \cup announcing /\ UNCHANGED <<miner, mempool, included, fate>>
    BY <1>6 DEF HandleTxBroadcast, history
  <2>2. \A u : Accounted(u) => Accounted(u)' BY <2>1 DEF Accounted, Held, IsTxApplied
  <2> QED BY <2>1, <2>2, <1>0
<1>7. ASSUME EnqueueWithoutBroadcast PROVE \A u \in (acked \cup announcing)' : Accounted(u)'
  <2>1. (acked \cup announcing)' = acked \cup announcing /\ UNCHANGED miner /\ Admit(arriving) /\ arriving \in Txs
    BY <1>2, <1>7 DEF EnqueueWithoutBroadcast, Typed
  <2> QED BY <2>1, <1>0, <1>3
<1> QED BY <1>4, <1>5, <1>6, <1>7

\* No step of a miner loses track of a transaction: taking, filtering, selecting,
\* isolating, requeueing and failing.
LEMMA AccountedMine ==
    ASSUME Basics, NoneLost, budget'.crashes = MaxCrashes, budget.crashes = MaxCrashes, Next,
           NEW m \in Miners, Mine(m)
    PROVE  \A t \in (acked \cup announcing)' : Accounted(t)'
<1>0. \A t \in acked \cup announcing : Accounted(t) /\ t \in Txs BY DEF NoneLost, Basics, Typed
<1>1. \A t \in Txs : IsTxApplied(t) => IsTxApplied(t)' BY SettledStays DEF Basics
<1>2. Typed /\ Typed' /\ miner[m].txs \in Seq(Txs) BY TypedStep DEF Basics, Typed, Lists
<1>3. (acked \cup announcing)' = acked \cup announcing
  BY DEF Mine, Build, Elect, MineTake, MineForget, MineFilter, MineSelect, BuildOk, BuildFails, BuildMaybeWritten, history
<1> SUFFICES ASSUME NEW t \in Txs, Accounted(t) PROVE Accounted(t)' BY <1>0, <1>3
<1> DEFINE s == miner[m].txs
<1>4. ASSUME NEW x, miner' = [miner EXCEPT ![m] = x],
             fate'[t] = fate[t] \/ fate'[t] # "none",
             t \in ToSet(mempool) => t \in ToSet(mempool') \/ t \in ToSet(x.txs),
             t \in ToSet(s) => IsTxApplied(t)' \/ fate'[t] # "none" \/ t \in ToSet(mempool') \/ t \in ToSet(x.txs)
      PROVE  Accounted(t)'
  <2>1. miner'[m] = x BY <1>2, <1>4 DEF Typed
  <2>2. t \in ToSet(x.txs) => Held(t)' BY <2>1 DEF Held
  <2>3. Held(t) /\ t \notin ToSet(s) => Held(t)' BY <1>2, <1>4, HeldElsewhere
  <2>4. CASE IsTxApplied(t) BY <2>4, <1>1 DEF Accounted
  <2>5. CASE fate[t] # "none" BY <2>5, <1>4 DEF Accounted
  <2>6. CASE t \in ToSet(mempool) BY <2>6, <2>2, <1>4 DEF Accounted
  <2>7. CASE Held(t) BY <2>7, <2>2, <2>3, <1>4 DEF Accounted
  <2> QED BY <2>4, <2>5, <2>6, <2>7 DEF Accounted
<1>5. ASSUME Elect(m) PROVE Accounted(t)'
  <2>1. \A k \in Miners : miner'[k].txs = miner[k].txs BY <1>2, <1>5 DEF Elect, Typed, Lists
  <2>2. Held(t) => Held(t)' BY <2>1 DEF Held
  <2>3. UNCHANGED <<mempool, included, fate>> BY <1>5 DEF Elect, history
  <2> QED BY <2>2, <2>3 DEF Accounted, IsTxApplied
<1>6. ASSUME MineForget(m) PROVE Accounted(t)'
  <2>1. \A k \in Miners : miner'[k].txs = miner[k].txs BY <1>2, <1>6 DEF MineForget, Typed, Lists
  <2>2. Held(t) => Held(t)' BY <2>1 DEF Held
  <2>3. UNCHANGED <<mempool, included, fate>> BY <1>6 DEF MineForget, history
  <2> QED BY <2>2, <2>3 DEF Accounted, IsTxApplied
<1>7. ASSUME MineTake(m) PROVE Accounted(t)'
  <2>1. PICK x : x = [step |-> "taken", txs |-> mempool] OBVIOUS
  <2>2. s = <<>> BY <1>7 DEF MineTake, Basics, EmptyHands
  <2>3. t \notin ToSet(s) BY <2>2 DEF ToSet
  <2>4. x.txs = mempool BY <2>1
  <2>5. miner' = [miner EXCEPT ![m] = x] /\ fate' = fate BY <1>7, <2>1 DEF MineTake, history
  <2> QED BY <1>4, <2>3, <2>4, <2>5
<1>8. ASSUME MineFilter(m) PROVE Accounted(t)'
  <2>1. PICK x : x = [step |-> "filtered", txs |-> Fresh(s)] OBVIOUS
  <2>2. miner' = [miner EXCEPT ![m] = x] /\ UNCHANGED <<fate, mempool, included>> BY <1>8, <2>1 DEF MineFilter, history
  <2>3. ToSet(Fresh(s)) = {u \in ToSet(s) : ~IsTxApplied(u)} BY <1>2, FreshFacts
  <2>4. x.txs = Fresh(s) BY <2>1
  <2>5. IsTxApplied(t) => IsTxApplied(t)' BY <1>1
  <2> HIDE DEF s
  <2> QED BY <1>4, <2>2, <2>3, <2>4, <2>5
<1>9. ASSUME MineSelect(m) PROVE Accounted(t)'
  <2>1. PICK x : x = [step |-> "selected", txs |-> Chosen(s)] OBVIOUS
  <2>2. /\ miner' = [miner EXCEPT ![m] = x]
        /\ RequeueTxsFront(Deferred(s))
        /\ fate'[t] = IF t \in ToSet(s) \ (ToSet(Chosen(s)) \cup ToSet(Deferred(s))) THEN "refused" ELSE fate[t]
    BY <1>9, <2>1, MineSelectIs
  <2>3. x.txs = Chosen(s) BY <2>1
  <2>4. Deferred(s) \in Seq(Txs) BY <1>2, ChosenFacts
  <2>5. ToSet(mempool') = ToSet(mempool) \cup ToSet(Deferred(s)) BY <1>2, <2>2, <2>4, RequeueFacts DEF Typed
  <2> HIDE DEF s
  <2> QED BY <1>4, <2>2, <2>3, <2>5
<1>10. PICK e : e = [step |-> "idle", txs |-> <<>>] OBVIOUS
<1>11. ASSUME BuildOk(m) PROVE Accounted(t)'
  <2>1. miner' = [miner EXCEPT ![m] = e] /\ UNCHANGED <<fate, mempool>> BY <1>10, <1>11 DEF BuildOk, Idle
  <2>2. t \in ToSet(s) => included'[t] = included[t] + 1 /\ included[t] \in Nat BY <1>2, <1>11 DEF BuildOk, Typed
  <2>3. t \in ToSet(s) => IsTxApplied(t)' BY <2>2 DEF IsTxApplied
  <2> QED BY <1>4, <2>1, <2>3
<1>12. ASSUME BuildFails(m) PROVE Accounted(t)'
  <2>1. PICK requeue \in BOOLEAN : requeue = AfterFailureRequeues(CountFailure(failures), Len(s)) BY DEF AfterFailureRequeues
  <2>2. /\ miner' = [miner EXCEPT ![m] = e]
        /\ IF requeue THEN RequeueTxsFront(s) ELSE UNCHANGED <<mempool, durable>>
        /\ fate'[t] = IF ~requeue /\ t \in ToSet(s) THEN "failed" ELSE fate[t]
    BY <1>10, <1>12, <2>1 DEF BuildFails, Idle
  <2>3. requeue => ToSet(mempool') = ToSet(mempool) \cup ToSet(s) BY <1>2, <2>2, RequeueFacts DEF Typed
  <2> HIDE DEF s
  <2> QED BY <1>4, <2>2, <2>3
<1>13. ASSUME BuildMaybeWritten(m) PROVE Accounted(t)'
  <2>1. /\ miner' = [miner EXCEPT ![m] = e] /\ mempool' = mempool
        /\ fate'[t] = IF t \in ToSet(s) THEN "storage" ELSE fate[t]
    BY <1>10, <1>13 DEF BuildMaybeWritten, Idle
  <2> HIDE DEF s
  <2> QED BY <1>4, <2>1
<1> QED BY <1>5, <1>6, <1>7, <1>8, <1>9, <1>11, <1>12, <1>13 DEF Mine, Build

\* No step loses track of a transaction.
LEMMA NoneLostStep ==
    ASSUME Basics, NoneLost, [Next]_vars
    PROVE  NoneLost'
<1>1. CASE UNCHANGED vars BY <1>1 DEF vars, NoneLost, Accounted, IsTxApplied, Held
<1>2. CASE Next
  <2> SUFFICES ASSUME budget'.crashes = MaxCrashes PROVE \A t \in (acked \cup announcing)' : Accounted(t)'
    BY DEF NoneLost
  <2>1. budget.crashes = MaxCrashes
    <3>1. budget'.crashes <= budget.crashes /\ budget.crashes <= MaxCrashes BY <1>2, BoundedStep DEF Basics, Bounded
    <3>2. budget.crashes \in Nat /\ MaxCrashes \in Nat BY MempoolAssumption DEF Basics, Typed, Budget
    <3> QED BY <3>1, <3>2
  <2>0. \A t \in acked \cup announcing : Accounted(t) /\ t \in Txs BY <2>1 DEF NoneLost, Basics, Typed
  <2>2. \A t \in Txs : IsTxApplied(t) => IsTxApplied(t)' BY <1>2, SettledStays DEF Basics
  <2>3. ASSUME UNCHANGED <<acked, announcing, mempool, miner, fate>> PROVE \A t \in (acked \cup announcing)' : Accounted(t)'
    <3>1. ASSUME NEW t \in Txs, Accounted(t) PROVE Accounted(t)'
      <4>1. Held(t) => Held(t)' BY <2>3 DEF Held
      <4> QED BY <4>1, <3>1, <2>2, <2>3 DEF Accounted
    <3> QED BY <3>1, <2>0, <2>3
  <2>4. ASSUME SweepSnapshot \/ SweepTracker \/ RemoteForget \/ \E B \in {{}} \cup {{t} : t \in Txs} : RemoteApply(B) PROVE UNCHANGED <<acked, announcing, mempool, miner, fate>>
    BY <2>4 DEF SweepSnapshot, SweepTracker, RemoteForget, RemoteApply, history
  <2>5. ASSUME RemoteEvict PROVE \A t \in (acked \cup announcing)' : Accounted(t)'
    <3>1. UNCHANGED <<acked, announcing, miner, fate>> /\ mempool' = WithoutTxs(mempool, remote.txs) /\ remote.step = "forgotten"
      BY <2>5 DEF RemoteEvict, history
    <3>2. ToSet(mempool') = ToSet(mempool) \ remote.txs BY <3>1, WithoutFacts DEF Basics, Typed
    <3>3. \A t \in remote.txs : IsTxApplied(t) BY <3>1 DEF Basics, RemoteSettled
    <3>4. ASSUME NEW t \in Txs, Accounted(t) PROVE Accounted(t)'
      <4>1. Held(t) => Held(t)' BY <3>1 DEF Held
      <4> QED BY <4>1, <3>1, <3>2, <3>3, <3>4, <2>2 DEF Accounted
    <3> QED BY <3>4, <2>0, <3>1
  <2>6. ASSUME CrashRestart PROVE FALSE
    <3>1. budget.crashes > 0 /\ budget'.crashes = budget.crashes - 1 BY <2>6, Spend_crashes DEF CrashRestart, Basics, Typed
    <3>2. MaxCrashes \in Nat BY MempoolAssumption
    <3> QED BY <3>1, <3>2, <2>1
  <2> QED BY <1>2, <2>1, <2>3, <2>4, <2>5, <2>6, AccountedAdmission, AccountedMine DEF Next
<1> QED BY <1>1, <1>2

\* Until a crash, a transaction with a 202 is settled, given up for a stated reason, or
\* in the mempool or in a miner's hands, for any transactions, bounds and number of
\* concurrent calls of /ledger/mine (AckedAccounted; state.rs, consensus.rs
\* mine_pending_block_as).
THEOREM NoneForgotten == Spec => [](budget.crashes = MaxCrashes => AckedAccounted)
<1>1. Init => Basics /\ NoneLost
  <2>1. Init => NoneLost BY DEF Init, NoneLost
  <2> QED BY <2>1, BasicsInit
<1>2. Basics /\ NoneLost /\ [Next]_vars => (Basics /\ NoneLost)'
  BY BasicsStep, NoneLostStep
<1>3. Basics /\ NoneLost => (budget.crashes = MaxCrashes => AckedAccounted)
  BY DEF NoneLost, AckedAccounted, Accounted
<1> QED BY <1>1, <1>2, <1>3, PTL DEF Spec

-----------------------------------------------------------------------------
(* A node whose only miner is the auto-miner.                                *)

\* No call of POST /ledger/mine beside the auto-miner.
Alone == RestMiners = {}

\* The auto-miner works only while this node leads.
Leading == miner[AutoMiner].step # "idle" => leads
\* What the auto-miner filtered stays unsettled: while it leads, no other validator makes
\* a block.
Unsettled == miner[AutoMiner].step \in {"filtered", "selected"} =>
                 \A t \in ToSet(miner[AutoMiner].txs) : ~IsTxApplied(t)
\* The preview accepts the block the auto-miner is about to build.
Accepted == miner[AutoMiner].step = "selected" =>
                miner[AutoMiner].txs = <<>> \/ BlockTxsOk(miner[AutoMiner].txs)

\* The preview accepts one transaction of a block it accepts.
LEMMA OneAlone ==
    ASSUME NEW s \in Seq(Txs), Len(s) > 1, BlockTxsOk(s)
    PROVE  BlockTxsOk(<<s[1]>>)
<1>0. PICK x \in Txs : x = s[1] OBVIOUS
<1> DEFINE q == <<x>>
<1>1. DOMAIN q = {1} /\ q[1] = x OBVIOUS
<1>2. Amount \in [Txs -> Nat] BY MempoolAssumption
<1> SUFFICES ASSUME NEW w \in Wallets PROVE Outgoing(q, w) <= Spendable(w) BY <1>0 DEF BlockTxsOk
<1>3. Outgoing(s, w) <= Spendable(w) BY DEF BlockTxsOk
<1> DEFINE f == [i \in DOMAIN s |-> Amount[s[i]]]  D == {i \in DOMAIN s : From[s[i]] = w}
           g == [i \in DOMAIN q |-> Amount[q[i]]]  E == {i \in DOMAIN q : From[q[i]] = w}
<1>4. Outgoing(s, w) = SumFunctionOnSet(f, D) /\ Outgoing(q, w) = SumFunctionOnSet(g, E) BY DEF Outgoing
<1>5. D \subseteq DOMAIN s /\ \A i \in D : f[i] \in Nat BY <1>2
<1>6. IsFiniteSet(D)
  <2> HIDE DEF D
  <2> QED BY <1>5, Positions
<1>7. CASE From[x] = w
  <2>1. E = {1} /\ g[1] = Amount[x] BY <1>1, <1>7
  <2>2. 1 \in D /\ f[1] = Amount[x] BY <1>0, <1>7
  <2> HIDE DEF E, D, f, g, q
  <2>3. SumFunctionOnSet(f, D) = f[1] + SumFunctionOnSet(f, D \ {1}) BY <2>2, <1>5, <1>6, SumRemove
  <2>4. SumFunctionOnSet(f, D \ {1}) \in Nat
    <3>1. D \ {1} \in SUBSET D /\ \A i \in D \ {1} : f[i] \in Nat BY <1>5
    <3>2. IsFiniteSet(D \ {1}) BY <3>1, <1>6, FS_Subset
    <3> QED BY <3>1, <3>2, SumNat
  <2>5. SumFunctionOnSet(g, E) = g[1] + SumFunctionOnSet(g, E \ {1})
    <3>1. IsFiniteSet(E) BY <2>1, FS_Singleton
    <3>2. 1 \in E /\ \A i \in E : g[i] \in Int BY <2>1, <1>2
    <3> QED BY <3>1, <3>2, SumRemove
  <2>6. SumFunctionOnSet(g, E \ {1}) = 0
    <3>1. E \ {1} = {} BY <2>1
    <3> QED BY <3>1, SumEmpty
  <2>7. Amount[x] \in Nat /\ Spendable(w) \in Int
    <3>1. Spendable(w) = Balance[w] - SumFunctionOnSet(Amount, {t \in Txs : From[t] = w /\ IsTxApplied(t)}) BY DEF Spendable
    <3>2. PICK T \in SUBSET Txs : T = {t \in Txs : From[t] = w /\ IsTxApplied(t)} OBVIOUS
    <3>3. IsFiniteSet(T) /\ \A t \in T : Amount[t] \in Nat BY MempoolAssumption, FS_Subset
    <3>4. SumFunctionOnSet(Amount, T) \in Nat BY <3>3, SumNat
    <3>5. Balance[w] \in Nat BY MempoolAssumption
    <3> QED BY <3>1, <3>2, <3>4, <3>5, <1>2
  <2> QED BY <1>3, <1>4, <2>1, <2>2, <2>3, <2>4, <2>5, <2>6, <2>7
<1>8. CASE From[x] # w
  <2>1. E = {} BY <1>1, <1>8
  <2> HIDE DEF E, D, f, g, q
  <2>2. SumFunctionOnSet(g, E) = 0 BY <2>1, SumEmpty
  <2>3. SumFunctionOnSet(f, D) \in Nat BY <1>5, <1>6, SumNat
  <2>7. Spendable(w) \in Int
    <3>1. Spendable(w) = Balance[w] - SumFunctionOnSet(Amount, {t \in Txs : From[t] = w /\ IsTxApplied(t)}) BY DEF Spendable
    <3>2. PICK T \in SUBSET Txs : T = {t \in Txs : From[t] = w /\ IsTxApplied(t)} OBVIOUS
    <3>3. IsFiniteSet(T) /\ \A t \in T : Amount[t] \in Nat BY MempoolAssumption, FS_Subset
    <3>4. SumFunctionOnSet(Amount, T) \in Nat BY <3>3, SumNat
    <3>5. Balance[w] \in Nat BY MempoolAssumption
    <3> QED BY <3>1, <3>2, <3>4, <3>5, <1>2
  <2> QED BY <1>3, <1>4, <2>2, <2>3, <2>7
<1> QED BY <1>7, <1>8

\* The preview accepts the selected block, isolated or not.
LEMMA ChosenAccepted ==
    ASSUME NEW s \in Seq(Txs)
    PROVE  Chosen(s) = <<>> \/ BlockTxsOk(Chosen(s))
<1> DEFINE sel == SelectBlockTxs(s)
<1>1. sel \in Seq(Txs) /\ (sel = <<>> \/ BlockTxsOk(sel)) BY SelectedFacts
<1>2. Chosen(s) = IF failures > 0 /\ Len(sel) > 1 THEN <<sel[1]>> ELSE sel BY DEF Chosen, Isolated
<1> HIDE DEF sel
<1>3. CASE failures > 0 /\ Len(sel) > 1
  <2>1. BlockTxsOk(sel) BY <1>1, <1>3
  <2>2. BlockTxsOk(<<sel[1]>>) BY <2>1, <1>1, <1>3, OneAlone
  <2> QED BY <2>2, <1>2, <1>3
<1>4. CASE ~(failures > 0 /\ Len(sel) > 1) BY <1>1, <1>2, <1>4
<1> QED BY <1>3, <1>4

\* The preview's answer depends on what is settled alone.
LEMMA SameBooks == ASSUME NEW q, UNCHANGED included PROVE BlockTxsOk(q)' <=> BlockTxsOk(q)
BY DEF BlockTxsOk, Outgoing, Spendable, IsTxApplied

\* The invariant of a node whose only miner is the auto-miner.
Solo == Leading /\ Unsettled /\ Accepted /\ IncludedOnce /\ OnlyPoisonFails

\* Steps that settle nothing and fail nothing keep it.
LEMMA SoloIdle ==
    ASSUME Basics, Solo, Next, UNCHANGED <<miner, included, leads>>, budget'.faults = budget.faults,
           \A t \in Txs : fate'[t] = "failed" => fate[t] = "failed"
    PROVE  Solo'
<1>1. Leading' BY DEF Solo, Leading
<1>2. Unsettled' BY DEF Solo, Unsettled, IsTxApplied
<1>3. Accepted'
  <2>1. PICK q : q = miner[AutoMiner].txs OBVIOUS
  <2>2. miner'[AutoMiner].txs = q /\ miner'[AutoMiner].step = miner[AutoMiner].step BY <2>1
  <2>3. BlockTxsOk(q)' <=> BlockTxsOk(q) BY SameBooks
  <2> QED BY <2>1, <2>2, <2>3 DEF Solo, Accepted
<1>4. IncludedOnce' BY DEF Solo, IncludedOnce
<1>5. OnlyPoisonFails' BY DEF Solo, OnlyPoisonFails
<1> QED BY <1>1, <1>2, <1>3, <1>4, <1>5 DEF Solo

\* Admission, the sweep and forgetting keep it.
LEMMA SoloAdmission ==
    ASSUME Alone, Basics, Solo, Next,
           \/ \E t \in Txs : SubmitLocalTx(t) \/ BroadcastMempoolTx(t) \/ HandleTxBroadcast(t)
           \/ EnqueueWithoutBroadcast \/ SweepSnapshot \/ SweepTracker
           \/ RemoteForget \/ RemoteEvict
    PROVE  Solo'
<1>0. Typed BY DEF Basics
<1>1. ASSUME NEW t \in Txs, Admit(t) PROVE \A u \in Txs : fate'[u] = "failed" => fate[u] = "failed"
  <2>1. PICK r : r = Enqueue(t) OBVIOUS
  <2> QED BY <1>0, <1>1, <2>1, AdmitFacts
<1>2. ASSUME NEW t \in Txs, SubmitLocalTx(t) PROVE Solo'
  <2>1. Admit(t) /\ UNCHANGED <<miner, included, leads>> /\ budget'.faults = budget.faults
    BY <1>0, <1>2, Spend_submits DEF SubmitLocalTx, Typed
  <2> QED BY <1>1, <2>1, SoloIdle
<1>3. ASSUME NEW t \in Txs, BroadcastMempoolTx(t) PROVE Solo'
  BY <1>3, SoloIdle DEF BroadcastMempoolTx
<1>4. ASSUME NEW t \in Txs, HandleTxBroadcast(t) PROVE Solo'
  <2>1. UNCHANGED <<miner, included, leads, fate>> /\ budget'.faults = budget.faults
    BY <1>0, <1>4, Spend_deliveries DEF HandleTxBroadcast, Typed, history
  <2> QED BY <2>1, SoloIdle
<1>5. ASSUME EnqueueWithoutBroadcast PROVE Solo'
  <2>1. arriving \in Txs /\ Admit(arriving) /\ UNCHANGED <<miner, included, leads>> /\ budget'.faults = budget.faults
    BY <1>0, <1>5 DEF EnqueueWithoutBroadcast, Typed
  <2>2. \A u \in Txs : fate'[u] = "failed" => fate[u] = "failed" BY <1>1, <2>1
  <2> QED BY <2>1, <2>2, SoloIdle
<1>6. ASSUME SweepSnapshot PROVE Solo'
  <2>1. UNCHANGED <<miner, included, leads, fate>> /\ budget'.faults = budget.faults
    BY <1>0, <1>6, Spend_sweeps DEF SweepSnapshot, Typed, history
  <2> QED BY <2>1, SoloIdle
<1>7. ASSUME SweepTracker \/ RemoteForget \/ RemoteEvict PROVE Solo'
  <2>1. UNCHANGED <<miner, included, leads, fate, budget>>
    BY <1>7 DEF SweepTracker, RemoteForget, RemoteEvict, history
  <2> QED BY <2>1, SoloIdle
<1> QED BY <1>2, <1>3, <1>4, <1>5, <1>6, <1>7

\* A remote block keeps it.
LEMMA SoloRemote ==
    ASSUME Alone, Basics, Solo, Next, NEW B \in {{}} \cup {{t} : t \in Txs}, RemoteApply(B)
    PROVE  Solo'
<1>1. /\ ~leads /\ leads' = TRUE /\ UNCHANGED <<miner, fate, budget>>
      /\ \A t \in B : ~IsTxApplied(t)
      /\ included' = [t \in Txs |-> included[t] + (IF t \in B THEN 1 ELSE 0)]
  BY DEF RemoteApply, history
<1>2. miner[AutoMiner].step = "idle" BY <1>1 DEF Solo, Leading
<1>3. Leading' /\ Unsettled' /\ Accepted' BY <1>1, <1>2 DEF Leading, Unsettled, Accepted
<1>4. IncludedOnce'
  <2> SUFFICES ASSUME NEW t \in Txs PROVE included'[t] <= 1 BY DEF IncludedOnce
  <2>1. included[t] \in Nat /\ included[t] <= 1 BY DEF Basics, Typed, Solo, IncludedOnce
  <2>2. t \in B => included[t] = 0 BY <1>1, <2>1 DEF IsTxApplied
  <2> QED BY <1>1, <2>1, <2>2
<1>5. OnlyPoisonFails' BY <1>1 DEF Solo, OnlyPoisonFails
<1> QED BY <1>3, <1>4, <1>5 DEF Solo

\* A restart keeps it.
LEMMA SoloCrash ==
    ASSUME Alone, Basics, Solo, Next, CrashRestart
    PROVE  Solo'
<1>1. UNCHANGED <<included, fate>> /\ budget'.faults = budget.faults
  BY Spend_crashes DEF CrashRestart, Basics, Typed
<1>2. AutoMiner \in Miners BY DEF Miners
<1>3. miner'[AutoMiner].step = "idle" BY <1>2 DEF CrashRestart
<1>4. Leading' /\ Unsettled' /\ Accepted' BY <1>3 DEF Leading, Unsettled, Accepted
<1>5. IncludedOnce' BY <1>1 DEF Solo, IncludedOnce
<1>6. OnlyPoisonFails' BY <1>1 DEF Solo, OnlyPoisonFails
<1> QED BY <1>4, <1>5, <1>6 DEF Solo

\* Every step of the auto-miner keeps it.
LEMMA SoloMine ==
    ASSUME Alone, Basics, Solo, Next, Mine(AutoMiner)
    PROVE  Solo'
<1>0. /\ Typed /\ AutoMiner \in Miners /\ miner \in [Miners -> Lists] /\ miner[AutoMiner].txs \in Seq(Txs)
      /\ included \in [Txs -> Nat]
  BY DEF Basics, Typed, Miners, Lists
<1> DEFINE s == miner[AutoMiner].txs
<1>1. ASSUME UNCHANGED <<included, fate, leads>>, budget'.faults = budget.faults, leads,
             miner'[AutoMiner].step \in {"elected", "taken", "forgotten"}
      PROVE  Solo'
  BY <1>1 DEF Solo, Leading, Unsettled, Accepted, IncludedOnce, OnlyPoisonFails
<1>2. ASSUME Elect(AutoMiner) PROVE Solo'
  <2>1. UNCHANGED <<included, fate, leads, budget>> /\ leads /\ miner'[AutoMiner].step = "elected"
    BY <1>0, <1>2 DEF Elect, history, Lists
  <2> QED BY <1>1, <2>1
<1>3. ASSUME MineTake(AutoMiner) PROVE Solo'
  <2>1. UNCHANGED <<included, fate, leads, budget>> /\ miner'[AutoMiner].step = "taken" /\ miner[AutoMiner].step = "elected"
    BY <1>0, <1>3 DEF MineTake, history
  <2>2. leads BY <2>1 DEF Solo, Leading
  <2> QED BY <1>1, <2>1, <2>2
<1>4. ASSUME MineForget(AutoMiner) PROVE Solo'
  <2>1. UNCHANGED <<included, fate, leads, budget>> /\ miner'[AutoMiner].step = "forgotten" /\ miner[AutoMiner].step = "taken"
    BY <1>0, <1>4 DEF MineForget, history, Lists
  <2>2. leads BY <2>1 DEF Solo, Leading
  <2> QED BY <1>1, <2>1, <2>2
<1>5. ASSUME MineFilter(AutoMiner) PROVE Solo'
  <2>1. UNCHANGED <<included, fate, leads, budget>> /\ miner[AutoMiner].step = "forgotten"
    BY <1>5 DEF MineFilter, history
  <2>2. miner'[AutoMiner].step = "filtered" /\ miner'[AutoMiner].txs = Fresh(s) BY <1>0, <1>5 DEF MineFilter
  <2>3. ToSet(Fresh(s)) = {u \in ToSet(s) : ~IsTxApplied(u)} BY <1>0, FreshFacts
  <2>4. leads BY <2>1 DEF Solo, Leading
  <2>5. Unsettled' BY <2>1, <2>2, <2>3 DEF Unsettled, IsTxApplied
  <2>6. Leading' /\ Accepted' BY <2>1, <2>2, <2>4 DEF Leading, Accepted
  <2>7. IncludedOnce' /\ OnlyPoisonFails' BY <2>1 DEF Solo, IncludedOnce, OnlyPoisonFails
  <2> QED BY <2>5, <2>6, <2>7 DEF Solo
<1>6. ASSUME MineSelect(AutoMiner) PROVE Solo'
  <2>0. PICK x \in Seq(Txs) : x = s BY <1>0
  <2>1. /\ UNCHANGED <<included, leads, budget>> /\ miner[AutoMiner].step = "filtered"
        /\ miner' = [miner EXCEPT ![AutoMiner] = [step |-> "selected", txs |-> Chosen(x)]]
        /\ fate' = [t \in Txs |-> IF t \in ToSet(x) \ (ToSet(Chosen(x)) \cup ToSet(Deferred(x)))
                                     THEN "refused" ELSE fate[t]]
    BY <1>6, <2>0, MineSelectIs
  <2>2. PICK q : q = Chosen(x) OBVIOUS
  <2>3. miner'[AutoMiner].step = "selected" /\ miner'[AutoMiner].txs = q BY <1>0, <2>1, <2>2
  <2>4. q = <<>> \/ BlockTxsOk(q) BY <2>2, ChosenAccepted
  <2>5. ToSet(q) \subseteq ToSet(x) BY <2>2, ChosenFacts
  <2>6. leads BY <2>1 DEF Solo, Leading
  <2>7. \A t \in ToSet(x) : ~IsTxApplied(t) BY <2>0, <2>1 DEF Solo, Unsettled
  <2>8. Unsettled' BY <2>1, <2>3, <2>5, <2>7 DEF Unsettled, IsTxApplied
  <2>9. Accepted'
    <3>1. BlockTxsOk(q)' <=> BlockTxsOk(q) BY <2>1, SameBooks
    <3> QED BY <3>1, <2>3, <2>4 DEF Accepted
  <2>10. Leading' BY <2>1, <2>6 DEF Leading
  <2>11. IncludedOnce' BY <2>1 DEF Solo, IncludedOnce
  <2>12. OnlyPoisonFails' BY <2>1 DEF Solo, OnlyPoisonFails
  <2> QED BY <2>8, <2>9, <2>10, <2>11, <2>12 DEF Solo
<1>7. ASSUME Idle(AutoMiner) PROVE miner'[AutoMiner].step = "idle" BY <1>0, <1>7 DEF Idle
<1>8. ASSUME miner[AutoMiner].step = "selected",
             included' = included \/ included' = [t \in Txs |-> included[t] + (IF t \in ToSet(s) THEN 1 ELSE 0)]
      PROVE  IncludedOnce'
  <2> SUFFICES ASSUME NEW t \in Txs PROVE included'[t] <= 1 BY DEF IncludedOnce
  <2>1. included[t] \in Nat /\ included[t] <= 1 BY <1>0 DEF Solo, IncludedOnce
  <2>2. t \in ToSet(s) => included[t] = 0 BY <1>8, <2>1 DEF IsTxApplied, Solo, Unsettled
  <2> QED BY <1>8, <2>1, <2>2
<1>9. ASSUME BuildOk(AutoMiner) PROVE Solo'
  <2>1. miner'[AutoMiner].step = "idle" /\ UNCHANGED <<fate, budget>> /\ miner[AutoMiner].step = "selected"
    BY <1>7, <1>9 DEF BuildOk
  <2>2. IncludedOnce' BY <1>8, <1>9 DEF BuildOk
  <2>3. Leading' /\ Unsettled' /\ Accepted' BY <2>1 DEF Leading, Unsettled, Accepted
  <2>4. OnlyPoisonFails' BY <2>1 DEF Solo, OnlyPoisonFails
  <2> QED BY <2>2, <2>3, <2>4 DEF Solo
<1>a. budget.faults \in Nat /\ MaxFaults \in Nat /\ budget.faults <= MaxFaults
  BY MempoolAssumption DEF Basics, Bounded, Typed, Budget
<1>10. ASSUME BuildMaybeWritten(AutoMiner) PROVE Solo'
  <2>1. miner'[AutoMiner].step = "idle" /\ miner[AutoMiner].step = "selected" BY <1>7, <1>10 DEF BuildMaybeWritten
  <2>2. IncludedOnce' BY <1>8, <1>10 DEF BuildMaybeWritten
  <2>3. Leading' /\ Unsettled' /\ Accepted' BY <2>1 DEF Leading, Unsettled, Accepted
  <2>4. budget'.faults = budget.faults - 1 /\ budget.faults > 0 BY <1>0, <1>10, Spend_faults DEF BuildMaybeWritten, Typed
  <2>5. OnlyPoisonFails' BY <1>a, <2>4 DEF OnlyPoisonFails
  <2> QED BY <2>2, <2>3, <2>5 DEF Solo
<1>11. ASSUME BuildFails(AutoMiner) PROVE Solo'
  <2>0. PICK requeue \in BOOLEAN : requeue = AfterFailureRequeues(CountFailure(failures), Len(s)) BY DEF AfterFailureRequeues
  <2>1. /\ miner'[AutoMiner].step = "idle" /\ miner[AutoMiner].step = "selected" /\ UNCHANGED <<included, leads>>
        /\ fate' = [t \in Txs |-> IF ~requeue /\ t \in ToSet(s) THEN "failed" ELSE fate[t]]
    BY <1>7, <1>11, <2>0 DEF BuildFails
  <2>2. IncludedOnce' BY <1>8, <2>1
  <2>3. Leading' /\ Unsettled' /\ Accepted' BY <2>1 DEF Leading, Unsettled, Accepted
  <2>4. OnlyPoisonFails'
    <3> SUFFICES ASSUME budget'.faults = MaxFaults, NEW t \in Txs, fate'[t] = "failed" PROVE t \in Poison
      BY DEF OnlyPoisonFails
    <3>1. ~Spend("faults")
      <4>1. Spend("faults") => budget'.faults = budget.faults - 1 BY <1>0, Spend_faults DEF Typed
      <4> QED BY <4>1, <1>a
    <3>2. ~(BlockTxsOk(s) /\ ToSet(s) \cap Poison = {}) /\ UNCHANGED budget BY <1>11, <3>1 DEF BuildFails
    <3>3. CASE fate[t] = "failed" BY <3>2, <3>3 DEF Solo, OnlyPoisonFails
    <3>4. CASE fate[t] # "failed"
      <4>1. ~requeue /\ t \in ToSet(s) BY <2>1, <3>4
      <4>2. ~(Len(s) > 1) BY <4>1, <2>0 DEF AfterFailureRequeues
      <4>3. s # <<>> BY <4>1 DEF ToSet
      <4>4. BlockTxsOk(s) BY <2>1, <4>3 DEF Solo, Accepted
      <4>5. PICK u \in ToSet(s) : u \in Poison BY <3>2, <4>4
      <4>6. u = t BY <1>0, <4>1, <4>2, <4>5 DEF ToSet
      <4> QED BY <4>5, <4>6
    <3> QED BY <3>3, <3>4
  <2> QED BY <2>2, <2>3, <2>4 DEF Solo
<1> QED BY <1>2, <1>3, <1>4, <1>5, <1>6, <1>9, <1>10, <1>11 DEF Mine, Build

\* Every step keeps it.
LEMMA SoloStep ==
    ASSUME Alone, Basics, Solo, [Next]_vars
    PROVE  Solo'
<1>1. CASE UNCHANGED vars
  <2>1. UNCHANGED <<miner, included, leads, fate, budget>> BY <1>1 DEF vars
  <2>2. Leading' /\ Unsettled' /\ IncludedOnce' /\ OnlyPoisonFails'
    BY <2>1 DEF Solo, Leading, Unsettled, IncludedOnce, OnlyPoisonFails, IsTxApplied
  <2>3. Accepted'
    <3>1. PICK q : q = miner[AutoMiner].txs OBVIOUS
    <3>2. BlockTxsOk(q)' <=> BlockTxsOk(q) BY <2>1, SameBooks
    <3>3. miner'[AutoMiner].txs = q /\ miner'[AutoMiner].step = miner[AutoMiner].step BY <2>1, <3>1
    <3> QED BY <3>1, <3>2, <3>3 DEF Solo, Accepted
  <2> QED BY <2>2, <2>3 DEF Solo
<1>2. CASE Next
  <2>1. Miners = {AutoMiner} BY DEF Alone, Miners
  <2> QED BY <1>2, <2>1, SoloAdmission, SoloRemote, SoloCrash, SoloMine DEF Next
<1> QED BY <1>1, <1>2

\* It holds at first.
LEMMA SoloInit == Init => Solo
<1> SUFFICES ASSUME Init PROVE Solo OBVIOUS
<1>1. miner[AutoMiner].step = "idle" BY DEF Init, Miners
<1>2. Leading /\ Unsettled /\ Accepted BY <1>1 DEF Leading, Unsettled, Accepted
<1>3. IncludedOnce BY DEF Init, IncludedOnce
<1>4. OnlyPoisonFails BY DEF Init, OnlyPoisonFails
<1> QED BY <1>2, <1>3, <1>4 DEF Solo

\* With the auto-miner as the only miner no transaction is carried by two canonical
\* blocks, crashes, storage errors and remote blocks included (IncludedOnce; the filter
\* of mine_pending_block_as and the leader test).
THEOREM SettledOnce ==
    ASSUME Alone
    PROVE  Spec => []IncludedOnce
<1>1. Basics /\ Solo /\ [Next]_vars => (Basics /\ Solo)' BY BasicsStep, SoloStep
<1>2. Basics /\ Solo => IncludedOnce BY DEF Solo
<1> QED BY <1>1, <1>2, BasicsInit, SoloInit, PTL DEF Spec

\* With the auto-miner as the only miner, and as long as the node itself does not fail,
\* only a transaction the apply refuses is dropped for failing: isolation and the failure
\* counter single it out (OnlyPoisonFails; after_failure, BLOCK_FAILURES).
THEOREM NeighboursSurvive ==
    ASSUME Alone
    PROVE  Spec => []OnlyPoisonFails
<1>1. Basics /\ Solo /\ [Next]_vars => (Basics /\ Solo)' BY BasicsStep, SoloStep
<1>2. Basics /\ Solo => OnlyPoisonFails BY DEF Solo
<1> QED BY <1>1, <1>2, BasicsInit, SoloInit, PTL DEF Spec

-----------------------------------------------------------------------------
(* Copies of a transaction.                                                  *)

\* The copies of t in the miners' hands.
Hands(t) == SumFunctionOnSet([m \in Miners |-> Count(miner[m].txs, t)], Miners)
\* The copy of t the admission worker is about to enqueue.
OnItsWay(t) == IF arriving = t THEN 1 ELSE 0
\* How many copies of t the submissions and deliveries so far can have made.
Bound(t) == (IF Resubmits THEN MaxSubmits - budget.submits ELSE IF t \in local THEN 1 ELSE 0)
            + (MaxDeliveries - budget.deliveries)

\* The copies of a transaction do not exceed what was submitted and delivered.
CopiesBounded == \A t \in Txs : Count(mempool, t) + Hands(t) + OnItsWay(t) <= Bound(t)
\* A durable or announced transaction was submitted or delivered.
CopyEntitled == \A t \in durable \cup announcing : Bound(t) >= 1
\* A delivery under way was counted.
DeliveryCounted == arriving # NoTx => budget.deliveries < MaxDeliveries
\* A snapshot of the mempool holds no more copies than that.
SweepBounded == sweep # NoSweep => \A t \in Txs : Count(sweep, t) <= MaxCopies
\* The rebroadcast attempts stay under their ceiling.
AttemptsBounded == tracker \in [Txs -> Untracked..(MaxAttempts - 1 + MaxCopies)]

\* The miners are finitely many.
LEMMA MinersFinite == IsFiniteSet(Miners)
<1>1. IsFiniteSet({AutoMiner}) BY FS_Singleton
<1> QED BY <1>1, MempoolAssumption, FS_Union DEF Miners

\* The copies in the miners' hands are a natural, no less than those of one miner.
LEMMA HandsType ==
    ASSUME Typed, NEW t
    PROVE  Hands(t) \in Nat /\ \A m \in Miners : Count(miner[m].txs, t) \in Nat /\ Count(miner[m].txs, t) <= Hands(t)
<1> DEFINE f == [m \in Miners |-> Count(miner[m].txs, t)]
<1>1. IsFiniteSet(Miners) BY MinersFinite
<1>2. \A m \in Miners : Count(miner[m].txs, t) \in Nat
  <2> SUFFICES ASSUME NEW m \in Miners PROVE Count(miner[m].txs, t) \in Nat OBVIOUS
  <2>1. miner[m].txs \in Seq(Txs) BY DEF Typed, Lists
  <2> QED BY <2>1, CountType
<1>3. \A m \in Miners : f[m] = Count(miner[m].txs, t) OBVIOUS
<1>4. Hands(t) = SumFunctionOnSet(f, Miners) BY DEF Hands
<1> HIDE DEF f
<1>5. Hands(t) \in Nat BY <1>1, <1>2, <1>3, <1>4, SumNat
<1>6. ASSUME NEW m \in Miners PROVE f[m] <= Hands(t)
  <2>1. SumFunctionOnSet(f, Miners) = f[m] + SumFunctionOnSet(f, Miners \ {m})
    <3>1. \A k \in Miners : f[k] \in Int BY <1>2, <1>3
    <3> QED BY <3>1, <1>1, SumRemove
  <2>2. SumFunctionOnSet(f, Miners \ {m}) \in Nat
    <3>1. IsFiniteSet(Miners \ {m}) BY <1>1, FS_Subset
    <3>2. \A k \in Miners \ {m} : f[k] \in Nat BY <1>2, <1>3
    <3> QED BY <3>1, <3>2, SumNat
  <2> QED BY <2>1, <2>2, <1>2, <1>3, <1>4, <1>5
<1> QED BY <1>2, <1>3, <1>5, <1>6

\* A step of one miner changes the copies in hand by what it changes.
LEMMA HandsChange ==
    ASSUME Typed, NEW m \in Miners, NEW x, miner' = [miner EXCEPT ![m] = x], x.txs \in Seq(Txs), NEW t
    PROVE  Hands(t)' = Hands(t) - Count(miner[m].txs, t) + Count(x.txs, t)
<1> DEFINE f == [k \in Miners |-> Count(miner[k].txs, t)]
           g == [k \in Miners |-> Count(miner'[k].txs, t)]
<1>1. IsFiniteSet(Miners) BY MinersFinite
<1>2. \A k \in Miners : k # m => g[k] = f[k] BY DEF Typed
<1>3. g[m] = Count(x.txs, t) /\ f[m] = Count(miner[m].txs, t) BY DEF Typed
<1>4. Count(x.txs, t) \in Nat BY CountType
<1>5. \A k \in Miners : f[k] \in Nat BY HandsType
<1>6. Hands(t) = SumFunctionOnSet(f, Miners) /\ Hands(t)' = SumFunctionOnSet(g, Miners) BY DEF Hands
<1> HIDE DEF f, g
<1>7. \A k \in Miners : f[k] \in Int /\ g[k] \in Int BY <1>2, <1>3, <1>4, <1>5
<1>8. SumFunctionOnSet(g, Miners) = SumFunctionOnSet(f, Miners) - f[m] + g[m] BY <1>1, <1>2, <1>7, SumChange
<1> QED BY <1>3, <1>6, <1>8

\* Submissions and deliveries only grow, and stay under MaxCopies.
LEMMA BoundGrows ==
    ASSUME Typed, Bounded, Next
    PROVE  \A t \in Txs : Bound(t) \in Nat /\ Bound(t)' \in Nat /\ Bound(t) <= Bound(t)' /\ Bound(t) <= MaxCopies
<1>1. budget'.submits <= budget.submits /\ budget'.deliveries <= budget.deliveries BY BoundedStep
<1>2. budget \in Budget /\ budget' \in Budget BY TypedStep DEF Typed
<1>3. budget.submits <= MaxSubmits /\ budget.deliveries <= MaxDeliveries /\ MaxSubmits \in Nat /\ MaxDeliveries \in Nat
  BY MempoolAssumption DEF Bounded
<1>4. local \subseteq local'
  <2>1. ASSUME NEW t \in Txs, SubmitLocalTx(t) PROVE local \subseteq local' BY <2>1 DEF SubmitLocalTx
  <2>2. ASSUME NEW t \in Txs, BroadcastMempoolTx(t) \/ HandleTxBroadcast(t) PROVE local' = local
    BY <2>2 DEF BroadcastMempoolTx, HandleTxBroadcast, history
  <2>3. ASSUME EnqueueWithoutBroadcast \/ SweepSnapshot \/ SweepTracker \/ RemoteForget \/ RemoteEvict \/ CrashRestart PROVE local' = local
    BY <2>3 DEF EnqueueWithoutBroadcast, SweepSnapshot, SweepTracker, RemoteForget, RemoteEvict, CrashRestart, history
  <2>4. ASSUME NEW B, RemoteApply(B) PROVE local' = local BY <2>4 DEF RemoteApply, history
  <2>5. ASSUME NEW m \in Miners, Mine(m) PROVE local' = local
    BY <2>5 DEF Mine, Build, Elect, MineTake, MineForget, MineFilter, MineSelect, BuildOk, BuildFails, BuildMaybeWritten, history
  <2> QED BY <2>1, <2>2, <2>3, <2>4, <2>5 DEF Next
<1>5. Resubmits \in BOOLEAN BY MempoolAssumption
<1> SUFFICES ASSUME NEW t \in Txs PROVE Bound(t) \in Nat /\ Bound(t)' \in Nat /\ Bound(t) <= Bound(t)' /\ Bound(t) <= MaxCopies OBVIOUS
<1>6. CASE Resubmits BY <1>1, <1>2, <1>3, <1>6 DEF Bound, MaxCopies, Budget
<1>7. CASE ~Resubmits BY <1>1, <1>2, <1>3, <1>4, <1>7 DEF Bound, MaxCopies, Budget
<1> QED BY <1>6, <1>7

\* The invariant that counts copies.
CopyInv == CopiesBounded /\ CopyEntitled /\ DeliveryCounted /\ SweepBounded /\ AttemptsBounded

\* A fresh node has no copies.
LEMMA CopyInit == Init => CopyInv
<1> SUFFICES ASSUME Init PROVE CopyInv OBVIOUS
<1>0. Typed BY TypedInit
<1>1. CopiesBounded
  <2> SUFFICES ASSUME NEW t \in Txs PROVE Count(mempool, t) + Hands(t) + OnItsWay(t) <= Bound(t) BY DEF CopiesBounded
  <2>1. Count(mempool, t) = 0
    <3>1. t \notin ToSet(mempool) BY DEF Init, ToSet
    <3> QED BY <3>1, <1>0, CountType DEF Typed
  <2>2. Hands(t) = 0
    <3>1. IsFiniteSet(Miners) BY MinersFinite
    <3> DEFINE f == [m \in Miners |-> Count(miner[m].txs, t)]
    <3>2. ASSUME NEW m \in Miners PROVE f[m] = 0
      <4>1. miner[m].txs = <<>> /\ miner[m].txs \in Seq(Txs) BY <1>0 DEF Init, Typed, Lists
      <4>2. t \notin ToSet(miner[m].txs) BY <4>1 DEF ToSet
      <4>3. Count(miner[m].txs, t) = 0 BY <4>1, <4>2, CountType
      <4> QED BY <4>3
    <3>3. Hands(t) = SumFunctionOnSet(f, Miners) BY DEF Hands
    <3> HIDE DEF f
    <3> QED BY <3>1, <3>2, <3>3, SumZero
  <2>3. OnItsWay(t) = 0 BY MempoolAssumption DEF Init, OnItsWay
  <2>4. Bound(t) = 0 BY MempoolAssumption DEF Bound, Init
  <2> QED BY <2>1, <2>2, <2>3, <2>4
<1>2. CopyEntitled /\ DeliveryCounted /\ SweepBounded BY DEF Init, CopyEntitled, DeliveryCounted, SweepBounded
<1>3. AttemptsBounded
  <2>1. MaxCopies \in Nat BY MempoolAssumption DEF MaxCopies
  <2> QED BY <2>1, MempoolAssumption DEF Init, AttemptsBounded, Untracked
<1> QED BY <1>1, <1>2, <1>3 DEF CopyInv

\* All copies of a transaction.
Load(t) == Count(mempool, t) + Hands(t) + OnItsWay(t)

\* Copies are naturals.
LEMMA LoadType ==
    ASSUME Typed, NEW t
    PROVE  Count(mempool, t) \in Nat /\ Hands(t) \in Nat /\ OnItsWay(t) \in {0, 1} /\ Load(t) \in Nat
<1>1. Count(mempool, t) \in Nat BY CountType DEF Typed
<1>2. Hands(t) \in Nat BY HandsType
<1>3. OnItsWay(t) \in {0, 1} BY DEF OnItsWay
<1> QED BY <1>1, <1>2, <1>3 DEF Load

\* Copies are naturals after a step.
LEMMA NextType ==
    ASSUME Typed', NEW t
    PROVE  Count(mempool', t) \in Nat /\ Hands(t)' \in Nat
<1>1. Count(mempool', t) \in Nat BY CountType DEF Typed
<1> DEFINE g == [k \in Miners |-> Count(miner'[k].txs, t)]
<1>2. IsFiniteSet(Miners) BY MinersFinite
<1>3. ASSUME NEW k \in Miners PROVE g[k] \in Nat
  <2>1. miner'[k].txs \in Seq(Txs) BY DEF Typed, Lists
  <2> QED BY <2>1, CountType
<1>4. Hands(t)' = SumFunctionOnSet(g, Miners) BY DEF Hands
<1> HIDE DEF g
<1> QED BY <1>1, <1>2, <1>3, <1>4, SumNat

\* Miners and budgets untouched: the mempool alone.
LEMMA SameHands == ASSUME UNCHANGED miner, NEW t PROVE Hands(t)' = Hands(t)
BY DEF Hands

\* Admission makes no copy that was not submitted or delivered.
LEMMA CopiesAdmission ==
    ASSUME Basics, Next, CopyInv, NEW u \in Txs,
           \/ \E t \in Txs : SubmitLocalTx(t) \/ BroadcastMempoolTx(t) \/ HandleTxBroadcast(t)
           \/ EnqueueWithoutBroadcast
    PROVE  Load(u)' <= Bound(u)'
<1>0. Typed /\ Bounded BY DEF Basics
<1>1. Load(u) <= Bound(u) BY DEF CopyInv, CopiesBounded, Load
<1>2. /\ Bound(u) \in Nat /\ Bound(u)' \in Nat /\ Bound(u) <= Bound(u)'
  BY <1>0, BoundGrows
<1>3. Typed' BY <1>0, TypedStep
<1>4. Count(mempool, u) \in Nat /\ Hands(u) \in Nat /\ OnItsWay(u) \in {0, 1} BY <1>0, LoadType
<1>5. Count(mempool', u) \in Nat BY <1>3, NextType
<1>6. budget \in Budget /\ MaxSubmits \in Nat /\ MaxDeliveries \in Nat /\ Resubmits \in BOOLEAN /\ NoTx \notin Txs
      /\ budget.submits <= MaxSubmits /\ budget.deliveries <= MaxDeliveries
  BY <1>0, MempoolAssumption DEF Typed, Bounded
<1>7. ASSUME NEW t \in Txs, SubmitLocalTx(t) PROVE Load(u)' <= Bound(u)'
  <2>0. PICK r : r = Enqueue(t) OBVIOUS
  <2>1. /\ Admit(t) /\ UNCHANGED <<miner, arriving>> /\ Spend("submits") /\ (t \in local => Resubmits)
        /\ local' = IF r.ok THEN local \cup {t} ELSE local
    BY <1>7, <2>0 DEF SubmitLocalTx
  <2>2. mempool' = r.mempool /\ r.ok \in BOOLEAN BY <1>0, <2>0, <2>1, AdmitFacts
  <2>3. Count(mempool', u) <= Count(mempool, u) + (IF r.ok /\ u = t THEN 1 ELSE 0)
    BY <1>0, <2>0, <2>2, EnqueueFacts DEF Typed
  <2>4. Hands(u)' = Hands(u) /\ OnItsWay(u)' = OnItsWay(u) BY <2>1, SameHands DEF OnItsWay
  <2>5. budget'.submits = budget.submits - 1 /\ budget'.deliveries = budget.deliveries
    BY <1>6, <2>1, Spend_submits
  <2>6. Bound(u)' >= Bound(u) + (IF r.ok /\ u = t THEN 1 ELSE 0)
    <3>1. CASE Resubmits BY <1>6, <2>5, <3>1 DEF Bound, Budget
    <3>2. CASE ~Resubmits
      <4>1. CASE r.ok /\ u = t
        <5>1. u \in local' /\ u \notin local BY <2>1, <3>2, <4>1
        <5> QED BY <1>6, <2>5, <3>2, <4>1, <5>1 DEF Bound, Budget
      <4>2. CASE ~(r.ok /\ u = t) BY <1>2, <4>2
      <4> QED BY <4>1, <4>2
    <3> QED BY <3>1, <3>2
  <2>7. Load(u)' = Count(mempool', u) + Hands(u) + OnItsWay(u) BY <2>4 DEF Load
  <2> HIDE DEF Load
  <2> QED BY <1>1, <1>2, <1>4, <1>5, <2>3, <2>6, <2>7 DEF Load
<1>8. ASSUME NEW t \in Txs, BroadcastMempoolTx(t) PROVE Load(u)' <= Bound(u)'
  <2>1. UNCHANGED <<mempool, miner, arriving>> BY <1>8 DEF BroadcastMempoolTx
  <2>2. Load(u)' = Load(u) BY <2>1, SameHands DEF Load, OnItsWay
  <2> QED BY <1>1, <1>2, <1>4, <2>2 DEF Load
<1>9. ASSUME NEW t \in Txs, HandleTxBroadcast(t) PROVE Load(u)' <= Bound(u)'
  <2>1. UNCHANGED <<mempool, miner, local>> /\ arriving = NoTx /\ arriving' = t /\ Spend("deliveries")
    BY <1>9 DEF HandleTxBroadcast, history
  <2>2. OnItsWay(u) = 0 /\ OnItsWay(u)' \in {0, 1} BY <1>6, <2>1 DEF OnItsWay
  <2>3. Hands(u)' = Hands(u) BY <2>1, SameHands
  <2>4. budget'.submits = budget.submits /\ budget'.deliveries = budget.deliveries - 1
    BY <1>6, <2>1, Spend_deliveries
  <2>5. Bound(u)' = Bound(u) + 1
    <3>1. CASE Resubmits BY <1>6, <2>4, <3>1 DEF Bound, Budget
    <3>2. CASE ~Resubmits BY <1>6, <2>1, <2>4, <3>2 DEF Bound, Budget
    <3> QED BY <3>1, <3>2
  <2>6. Load(u)' = Count(mempool, u) + Hands(u) + OnItsWay(u)' BY <2>1, <2>3 DEF Load
  <2> QED BY <1>1, <1>2, <1>4, <2>2, <2>5, <2>6 DEF Load
<1>10. ASSUME EnqueueWithoutBroadcast PROVE Load(u)' <= Bound(u)'
  <2>0. PICK t \in Txs : t = arriving BY <1>0, <1>10 DEF EnqueueWithoutBroadcast, Typed
  <2>1. PICK r : r = Enqueue(t) OBVIOUS
  <2>2. Admit(t) /\ UNCHANGED miner /\ arriving' = NoTx BY <1>10, <2>0 DEF EnqueueWithoutBroadcast
  <2>3. mempool' = r.mempool /\ r.ok \in BOOLEAN BY <1>0, <2>1, <2>2, AdmitFacts
  <2>4. Count(mempool', u) <= Count(mempool, u) + (IF r.ok /\ u = t THEN 1 ELSE 0)
    BY <1>0, <2>1, <2>3, EnqueueFacts DEF Typed
  <2>5. OnItsWay(u)' = 0 /\ OnItsWay(u) = IF u = t THEN 1 ELSE 0 BY <1>6, <2>0, <2>2 DEF OnItsWay
  <2>6. Hands(u)' = Hands(u) BY <2>2, SameHands
  <2>7. Load(u)' = Count(mempool', u) + Hands(u) BY <1>4, <1>5, <2>5, <2>6 DEF Load
  <2> QED BY <1>1, <1>2, <1>4, <1>5, <2>4, <2>5, <2>7 DEF Load
<1> QED BY <1>7, <1>8, <1>9, <1>10

\* No step of a miner makes a copy.
LEMMA CopiesMine ==
    ASSUME Basics, Next, CopyInv, NEW u \in Txs, NEW m \in Miners, Mine(m)
    PROVE  Load(u)' <= Bound(u)'
<1>0. Typed /\ Bounded BY DEF Basics
<1>1. Load(u) <= Bound(u) BY DEF CopyInv, CopiesBounded, Load
<1>2. /\ Bound(u) \in Nat /\ Bound(u)' \in Nat /\ Bound(u) <= Bound(u)'
  BY <1>0, BoundGrows
<1>3. Typed' BY <1>0, TypedStep
<1>4. Count(mempool, u) \in Nat /\ Hands(u) \in Nat /\ OnItsWay(u) \in {0, 1} BY <1>0, LoadType
<1>5. Count(mempool', u) \in Nat BY <1>3, NextType
<1>6. PICK s \in Seq(Txs) : s = miner[m].txs BY <1>0 DEF Typed, Lists
<1>7. Count(s, u) \in Nat /\ Count(s, u) <= Hands(u) BY <1>0, <1>6, HandsType
<1>8. arriving' = arriving
  BY DEF Mine, Build, Elect, MineTake, MineForget, MineFilter, MineSelect, BuildOk, BuildFails, BuildMaybeWritten, history
<1>9. ASSUME NEW x, miner' = [miner EXCEPT ![m] = x], x.txs \in Seq(Txs),
             Count(mempool', u) + Count(x.txs, u) <= Count(mempool, u) + Count(s, u)
      PROVE  Load(u)' <= Bound(u)'
  <2>1. Hands(u)' = Hands(u) - Count(s, u) + Count(x.txs, u) BY <1>0, <1>6, <1>9, HandsChange
  <2>2. OnItsWay(u)' = OnItsWay(u) BY <1>8 DEF OnItsWay
  <2>3. Load(u)' = Count(mempool', u) + (Hands(u) - Count(s, u) + Count(x.txs, u)) + OnItsWay(u) BY <2>1, <2>2 DEF Load
  <2>4. Count(x.txs, u) \in Nat BY <1>9, CountType
  <2> QED BY <1>1, <1>2, <1>4, <1>5, <1>7, <1>9, <2>3, <2>4 DEF Load
<1>a. \A q : q = <<>> => q \in Seq(Txs) /\ Count(q, u) = 0
  <2> SUFFICES ASSUME NEW q, q = <<>> PROVE q \in Seq(Txs) /\ Count(q, u) = 0 OBVIOUS
  <2>1. q \in Seq(Txs) OBVIOUS
  <2>2. u \notin ToSet(q) BY DEF ToSet
  <2> QED BY <2>1, <2>2, CountType
<1>10. ASSUME Elect(m) \/ MineForget(m) PROVE Load(u)' <= Bound(u)'
  <2>1. \A k \in Miners : miner'[k].txs = miner[k].txs
    <3>1. Elect(m) => \A k \in Miners : miner'[k].txs = miner[k].txs BY <1>0 DEF Elect, Typed, Lists
    <3>2. MineForget(m) => \A k \in Miners : miner'[k].txs = miner[k].txs BY <1>0 DEF MineForget, Typed, Lists
    <3> QED BY <1>10, <3>1, <3>2
  <2>2. Hands(u)' = Hands(u)
    <3>1. [k \in Miners |-> Count(miner'[k].txs, u)] = [k \in Miners |-> Count(miner[k].txs, u)] BY <2>1
    <3> QED BY <3>1 DEF Hands
  <2>3. mempool' = mempool BY <1>10 DEF Elect, MineForget
  <2>4. Load(u)' = Load(u) BY <1>8, <2>2, <2>3 DEF Load, OnItsWay
  <2> QED BY <1>1, <1>2, <1>4, <2>4 DEF Load
<1>11. ASSUME MineTake(m) PROVE Load(u)' <= Bound(u)'
  <2>1. PICK x : x = [step |-> "taken", txs |-> mempool] OBVIOUS
  <2>2. miner' = [miner EXCEPT ![m] = x] /\ mempool' = <<>> BY <1>11, <2>1 DEF MineTake
  <2>3. x.txs = mempool /\ mempool \in Seq(Txs) BY <1>0, <2>1 DEF Typed
  <2>4. Count(mempool', u) = 0 BY <1>a, <2>2
  <2>5. Count(mempool', u) + Count(x.txs, u) <= Count(mempool, u) + Count(s, u) BY <1>4, <1>7, <2>3, <2>4
  <2> QED BY <1>9, <2>2, <2>3, <2>5
<1>12. ASSUME MineFilter(m) PROVE Load(u)' <= Bound(u)'
  <2>1. PICK x : x = [step |-> "filtered", txs |-> Fresh(s)] OBVIOUS
  <2>2. miner' = [miner EXCEPT ![m] = x] /\ mempool' = mempool BY <1>6, <1>12, <2>1 DEF MineFilter
  <2>3. x.txs = Fresh(s) BY <2>1
  <2>4. Fresh(s) \in Seq(Txs) /\ Count(Fresh(s), u) <= Count(s, u) BY FreshFacts
  <2>5. Count(Fresh(s), u) \in Nat BY <2>4, CountType
  <2>6. Count(mempool', u) + Count(x.txs, u) <= Count(mempool, u) + Count(s, u) BY <1>4, <1>7, <2>2, <2>3, <2>4, <2>5
  <2> QED BY <1>9, <2>2, <2>3, <2>4, <2>6
<1>13. ASSUME MineSelect(m) PROVE Load(u)' <= Bound(u)'
  <2>1. PICK x : x = [step |-> "selected", txs |-> Chosen(s)] OBVIOUS
  <2>2. miner' = [miner EXCEPT ![m] = x] /\ RequeueTxsFront(Deferred(s)) BY <1>6, <1>13, <2>1, MineSelectIs
  <2>3. x.txs = Chosen(s) BY <2>1
  <2>4. Chosen(s) \in Seq(Txs) /\ Deferred(s) \in Seq(Txs) /\ Count(Chosen(s), u) + Count(Deferred(s), u) <= Count(s, u)
    BY ChosenFacts
  <2>5. Count(mempool', u) <= Count(mempool, u) + Count(Deferred(s), u) BY <1>0, <2>2, <2>4, RequeueFacts DEF Typed
  <2>6. Count(Chosen(s), u) \in Nat /\ Count(Deferred(s), u) \in Nat BY <2>4, CountType
  <2>7. Count(mempool', u) + Count(x.txs, u) <= Count(mempool, u) + Count(s, u) BY <1>4, <1>5, <1>7, <2>3, <2>4, <2>5, <2>6
  <2> QED BY <1>9, <2>2, <2>3, <2>4, <2>7
<1>14. ASSUME BuildOk(m) \/ BuildFails(m) \/ BuildMaybeWritten(m) PROVE Load(u)' <= Bound(u)'
  <2>1. PICK x : x = [step |-> "idle", txs |-> <<>>] OBVIOUS
  <2>2. miner' = [miner EXCEPT ![m] = x] BY <1>14, <2>1 DEF BuildOk, BuildFails, BuildMaybeWritten, Idle
  <2>3. x.txs = <<>> BY <2>1
  <2>4. x.txs \in Seq(Txs) /\ Count(x.txs, u) = 0 BY <1>a, <2>3
  <2>5. mempool' = mempool \/ RequeueTxsFront(s) BY <1>6, <1>14 DEF BuildOk, BuildFails, BuildMaybeWritten
  <2>6. RequeueTxsFront(s) => Count(mempool', u) <= Count(mempool, u) + Count(s, u) BY <1>0, RequeueFacts DEF Typed
  <2>7. Count(mempool', u) <= Count(mempool, u) + Count(s, u) BY <1>4, <1>7, <2>5, <2>6
  <2>8. Count(mempool', u) + Count(x.txs, u) <= Count(mempool, u) + Count(s, u) BY <1>5, <2>4, <2>7
  <2> QED BY <1>9, <2>2, <2>4, <2>8
<1> QED BY <1>10, <1>11, <1>12, <1>13, <1>14 DEF Mine, Build

\* Neither do the sweep, remote blocks and a restart.
LEMMA CopiesRest ==
    ASSUME Basics, Next, CopyInv, NEW u \in Txs,
           \/ SweepSnapshot \/ SweepTracker \/ \E B \in {{}} \cup {{t} : t \in Txs} : RemoteApply(B)
           \/ RemoteForget \/ RemoteEvict \/ CrashRestart
    PROVE  Load(u)' <= Bound(u)'
<1>0. Typed /\ Bounded BY DEF Basics
<1>1. Load(u) <= Bound(u) BY DEF CopyInv, CopiesBounded, Load
<1>2. /\ Bound(u) \in Nat /\ Bound(u)' \in Nat /\ Bound(u) <= Bound(u)'
  BY <1>0, BoundGrows
<1>3. Typed' BY <1>0, TypedStep
<1>4. Count(mempool, u) \in Nat /\ Hands(u) \in Nat /\ OnItsWay(u) \in {0, 1} BY <1>0, LoadType
<1>5. Count(mempool', u) \in Nat BY <1>3, NextType
<1>6. ASSUME UNCHANGED <<mempool, miner, arriving>> PROVE Load(u)' <= Bound(u)'
  <2>1. Load(u)' = Load(u) BY <1>6, SameHands DEF Load, OnItsWay
  <2> QED BY <1>1, <1>2, <1>4, <2>1 DEF Load
<1>7. ASSUME \/ SweepSnapshot \/ SweepTracker \/ (\E B \in {{}} \cup {{t} : t \in Txs} : RemoteApply(B)) \/ RemoteForget
      PROVE UNCHANGED <<mempool, miner, arriving>>
  BY <1>7 DEF SweepSnapshot, SweepTracker, RemoteApply, RemoteForget
<1>8. ASSUME RemoteEvict PROVE Load(u)' <= Bound(u)'
  <2>1. UNCHANGED <<miner, arriving>> /\ mempool' = WithoutTxs(mempool, remote.txs) BY <1>8 DEF RemoteEvict
  <2>2. Count(mempool', u) <= Count(mempool, u) BY <1>0, <2>1, WithoutFacts DEF Typed
  <2>3. Load(u)' = Count(mempool', u) + Hands(u) + OnItsWay(u) BY <2>1, SameHands DEF Load, OnItsWay
  <2> QED BY <1>1, <1>2, <1>4, <1>5, <2>2, <2>3 DEF Load
<1>9. ASSUME CrashRestart PROVE Load(u)' <= Bound(u)'
  <2>1. mempool' = Restored /\ arriving' = NoTx /\ miner' = [m \in Miners |-> [step |-> "idle", txs |-> <<>>]] BY <1>9 DEF CrashRestart
  <2>2. Count(mempool', u) = IF u \in durable THEN 1 ELSE 0 BY <1>0, <2>1, RestoredFacts DEF Typed
  <2>3. u \in durable => Bound(u) >= 1 BY DEF CopyInv, CopyEntitled
  <2>4. OnItsWay(u)' = 0 BY <2>1, MempoolAssumption DEF OnItsWay
  <2>5. Hands(u)' = 0
    <3> DEFINE g == [k \in Miners |-> Count(miner'[k].txs, u)]
    <3>1. ASSUME NEW k \in Miners PROVE g[k] = 0
      <4>1. PICK q : q = miner'[k].txs OBVIOUS
      <4>2. q = <<>> BY <2>1, <4>1
      <4>3. q \in Seq(Txs) /\ u \notin ToSet(q) BY <4>2 DEF ToSet
      <4>4. Count(q, u) = 0 BY <4>3, CountType
      <4> QED BY <4>1, <4>4
    <3>2. IsFiniteSet(Miners) BY MinersFinite
    <3>3. Hands(u)' = SumFunctionOnSet(g, Miners) BY DEF Hands
    <3> HIDE DEF g
    <3> QED BY <3>1, <3>2, <3>3, SumZero
  <2>6. Load(u)' = Count(mempool', u) BY <1>5, <2>4, <2>5 DEF Load
  <2> QED BY <1>2, <2>2, <2>3, <2>6
<1> QED BY <1>6, <1>7, <1>8, <1>9

\* No step makes a copy that was not submitted or delivered.
LEMMA CopiesStep ==
    ASSUME Basics, CopyInv, Next
    PROVE  CopiesBounded'
<1>1. ASSUME NEW u \in Txs PROVE Load(u)' <= Bound(u)' BY CopiesAdmission, CopiesMine, CopiesRest DEF Next
<1> QED BY <1>1 DEF CopiesBounded, Load

\* What is in the mempool or in a miner's hands was submitted or delivered.
LEMMA PresentEntitled ==
    ASSUME Basics, CopyInv, NEW t \in Txs, t \in ToSet(mempool) \/ Held(t), Next
    PROVE  Bound(t) >= 1
<1>0. Typed /\ Bounded BY DEF Basics
<1>1. Count(mempool, t) + Hands(t) + OnItsWay(t) <= Bound(t) BY DEF CopyInv, CopiesBounded
<1>2. Count(mempool, t) \in Nat /\ Hands(t) \in Nat /\ OnItsWay(t) \in {0, 1} BY <1>0, LoadType
<1>3. Bound(t) \in Nat BY <1>0, BoundGrows
<1>4. Count(mempool, t) + Hands(t) # 0
  <2>1. CASE t \in ToSet(mempool)
    <3>1. Count(mempool, t) # 0 BY <1>0, <2>1, CountType DEF Typed
    <3> QED BY <3>1, <1>2
  <2>2. CASE Held(t)
    <3>1. PICK m \in Miners : t \in ToSet(miner[m].txs) BY <2>2 DEF Held
    <3>2. PICK s \in Seq(Txs) : s = miner[m].txs BY <1>0 DEF Typed, Lists
    <3>3. Count(s, t) \in Nat /\ Count(s, t) # 0 BY <3>1, <3>2, CountType
    <3>4. Count(s, t) <= Hands(t) BY <1>0, <3>2, HandsType
    <3> QED BY <3>3, <3>4, <1>2
  <2> QED BY <2>1, <2>2
<1> QED BY <1>1, <1>2, <1>3, <1>4

\* Only what was submitted or delivered becomes durable.
LEMMA EntitledStep ==
    ASSUME Basics, CopyInv, Next
    PROVE  CopyEntitled'
<1>0. Typed /\ Bounded BY DEF Basics
<1>1. \A t \in Txs : Bound(t) \in Nat /\ Bound(t)' \in Nat /\ Bound(t) <= Bound(t)' BY <1>0, BoundGrows
<1>2. \A t \in durable \cup announcing : Bound(t) >= 1 /\ t \in Txs BY <1>0 DEF CopyInv, CopyEntitled, Typed
<1>3. \A t \in Txs : t \in ToSet(mempool) \/ Held(t) => Bound(t) >= 1 BY PresentEntitled
<1>4. CASE \A t \in (durable \cup announcing)' : t \in durable \cup announcing \/ (t \in Txs /\ Held(t))
  <2>1. \A t \in (durable \cup announcing)' : t \in Txs /\ Bound(t) >= 1 BY <1>2, <1>3, <1>4
  <2>2. \A t \in (durable \cup announcing)' : Bound(t)' >= 1 BY <1>1, <2>1
  <2> QED BY <2>2 DEF CopyEntitled
<1>5. ASSUME NEW t \in Txs, SubmitLocalTx(t) PROVE CopyEntitled'
  <2>0. PICK r : r = Enqueue(t) OBVIOUS
  <2>1. /\ durable' = durable /\ announcing' = (IF r.ok THEN announcing \cup {t} ELSE announcing) /\ Admit(t)
    BY <1>5, <2>0 DEF SubmitLocalTx
  <2>2. r.ok => Bound(t)' >= 1
    <3> SUFFICES ASSUME r.ok PROVE Bound(t)' >= 1 OBVIOUS
    <3>1. t \in ToSet(mempool') BY <1>0, <2>0, <2>1, AdmitFacts, EnqueueFacts DEF Typed
    <3>2. Typed' BY <1>0, TypedStep
    <3>3. Count(mempool', t) \in Nat /\ Count(mempool', t) # 0 BY <3>1, <3>2, CountType DEF Typed
    <3>4. Count(mempool', t) + Hands(t)' + OnItsWay(t)' <= Bound(t)' BY CopiesStep DEF CopiesBounded
    <3>5. Hands(t)' \in Nat /\ OnItsWay(t)' \in {0, 1} BY <3>2, NextType DEF OnItsWay
    <3> QED BY <3>3, <3>4, <3>5, <1>1
  <2>3. ASSUME NEW u \in (durable \cup announcing)' PROVE Bound(u)' >= 1
    <3>1. CASE u \in durable \cup announcing BY <3>1, <1>1, <1>2
    <3>2. CASE u \notin durable \cup announcing
      <4>1. r.ok /\ u = t BY <3>2, <2>1, <2>3
      <4> QED BY <4>1, <2>2
    <3> QED BY <3>1, <3>2
  <2> QED BY <2>3 DEF CopyEntitled
<1>6. ASSUME NEW t \in Txs, BroadcastMempoolTx(t) \/ HandleTxBroadcast(t) PROVE CopyEntitled'
  BY <1>6, <1>4 DEF BroadcastMempoolTx, HandleTxBroadcast
<1>7. ASSUME \/ EnqueueWithoutBroadcast \/ SweepSnapshot \/ SweepTracker \/ (\E B \in {{}} \cup {{t} : t \in Txs} : RemoteApply(B))
             \/ RemoteForget \/ RemoteEvict \/ CrashRestart
      PROVE CopyEntitled'
  <2>1. \A t \in (durable \cup announcing)' : t \in durable \cup announcing
    BY <1>7 DEF EnqueueWithoutBroadcast, SweepSnapshot, SweepTracker, RemoteApply, RemoteForget, RemoteEvict, CrashRestart
  <2> QED BY <1>4, <2>1
<1>8. ASSUME NEW m \in Miners, Mine(m) PROVE CopyEntitled'
  <2>0. PICK s \in Seq(Txs) : s = miner[m].txs BY <1>0 DEF Typed, Lists
  <2>1. ToSet(s) \subseteq Txs /\ \A t \in ToSet(s) : Held(t) BY <2>0 DEF Held, ToSet
  <2>2. ASSUME Elect(m) \/ MineTake(m) \/ MineForget(m) \/ MineFilter(m) \/ BuildOk(m) \/ BuildMaybeWritten(m) PROVE CopyEntitled'
    <3>1. \A t \in (durable \cup announcing)' : t \in durable \cup announcing
      BY <2>2 DEF Elect, MineTake, MineForget, MineFilter, BuildOk, BuildMaybeWritten
    <3> QED BY <1>4, <3>1
  <2>3. ASSUME MineSelect(m) PROVE CopyEntitled'
    <3>1. RequeueTxsFront(Deferred(s)) /\ announcing' = announcing BY <2>0, <2>3, MineSelectIs
    <3>2. Deferred(s) \in Seq(Txs) /\ ToSet(Deferred(s)) \subseteq ToSet(s) BY ChosenFacts
    <3>3. durable' \subseteq durable \cup ToSet(Deferred(s)) BY <1>0, <3>1, <3>2, RequeueFacts DEF Typed
    <3> QED BY <1>4, <2>1, <3>1, <3>2, <3>3
  <2>4. ASSUME BuildFails(m) PROVE CopyEntitled'
    <3>1. announcing' = announcing /\ (RequeueTxsFront(s) \/ durable' = durable) BY <2>0, <2>4 DEF BuildFails
    <3>2. RequeueTxsFront(s) => durable' \subseteq durable \cup ToSet(s) BY <1>0, RequeueFacts DEF Typed
    <3> QED BY <1>4, <2>1, <3>1, <3>2
  <2> QED BY <1>8, <2>2, <2>3, <2>4 DEF Mine, Build
<1> QED BY <1>5, <1>6, <1>7, <1>8 DEF Next

\* A delivery under way was counted, after every step.
LEMMA DeliveryStep ==
    ASSUME Basics, CopyInv, Next
    PROVE  DeliveryCounted'
<1>0. budget \in Budget /\ budget.deliveries <= MaxDeliveries /\ MaxDeliveries \in Nat /\ budget' \in Budget /\ budget'.deliveries <= budget.deliveries
  BY MempoolAssumption, TypedStep, BoundedStep DEF Basics, Typed, Bounded
<1>1. ASSUME NEW t \in Txs, HandleTxBroadcast(t) PROVE DeliveryCounted'
  <2>1. budget'.deliveries = budget.deliveries - 1 BY <1>0, <1>1, Spend_deliveries DEF HandleTxBroadcast
  <2> QED BY <2>1, <1>0 DEF DeliveryCounted, Budget
<1>2. CASE arriving' = NoTx \/ arriving' = arriving
  BY <1>0, <1>2 DEF CopyInv, DeliveryCounted, Budget
<1>3. ASSUME NEW t \in Txs, SubmitLocalTx(t) \/ BroadcastMempoolTx(t) PROVE arriving' = arriving
  BY <1>3 DEF SubmitLocalTx, BroadcastMempoolTx
<1>4. ASSUME \/ EnqueueWithoutBroadcast \/ SweepSnapshot \/ SweepTracker \/ (\E B \in {{}} \cup {{t} : t \in Txs} : RemoteApply(B))
             \/ RemoteForget \/ RemoteEvict \/ CrashRestart
      PROVE arriving' = NoTx \/ arriving' = arriving
  BY <1>4 DEF EnqueueWithoutBroadcast, SweepSnapshot, SweepTracker, RemoteApply, RemoteForget, RemoteEvict, CrashRestart
<1>5. ASSUME NEW m \in Miners, Mine(m) PROVE arriving' = arriving
  BY <1>5 DEF Mine, Build, Elect, MineTake, MineForget, MineFilter, MineSelect, BuildOk, BuildFails, BuildMaybeWritten
<1> QED BY <1>1, <1>2, <1>3, <1>4, <1>5 DEF Next

\* The attempts stay under their ceiling, after every step.
LEMMA SweepStep ==
    ASSUME Basics, CopyInv, Next
    PROVE  SweepBounded' /\ AttemptsBounded'
<1>0. Typed /\ Bounded BY DEF Basics
<1>a. MaxCopies \in Nat /\ MaxAttempts \in Nat \ {0} BY MempoolAssumption DEF MaxCopies
<1>1. ASSUME SweepSnapshot PROVE SweepBounded' /\ AttemptsBounded'
  <2>1. sweep' = mempool /\ tracker' = tracker BY <1>1 DEF SweepSnapshot
  <2>2. ASSUME NEW t \in Txs PROVE Count(mempool, t) <= MaxCopies
    <3>1. Count(mempool, t) + Hands(t) + OnItsWay(t) <= Bound(t) BY DEF CopyInv, CopiesBounded
    <3>2. Count(mempool, t) \in Nat /\ Hands(t) \in Nat /\ OnItsWay(t) \in {0, 1} BY <1>0, LoadType
    <3>3. Bound(t) \in Nat /\ Bound(t) <= MaxCopies BY <1>0, BoundGrows
    <3> QED BY <3>1, <3>2, <3>3, <1>a
  <2> QED BY <2>1, <2>2 DEF SweepBounded, AttemptsBounded, CopyInv
<1>2. ASSUME SweepTracker PROVE SweepBounded' /\ AttemptsBounded'
  <2>1. sweep' = NoSweep /\ sweep # NoSweep BY <1>2 DEF SweepTracker
  <2>2. sweep \in Seq(Txs) BY <1>0, <2>1 DEF Typed
  <2>3. \A t \in Txs : Count(sweep, t) \in Nat /\ Count(sweep, t) <= MaxCopies
    BY <2>1, <2>2, CountType DEF CopyInv, SweepBounded
  <2>4. tracker' = [t \in Txs |-> IF tracker[t] = Untracked \/ ~Retain(t) THEN Untracked
          ELSE tracker[t] + Count(sweep, t)]
    BY <1>2 DEF SweepTracker, Count
  <2>5. ASSUME NEW t \in Txs PROVE tracker'[t] \in Untracked..(MaxAttempts - 1 + MaxCopies)
    <3>1. CASE tracker[t] = Untracked \/ ~Retain(t) BY <3>1, <2>4, <1>a DEF Untracked
    <3>2. CASE ~(tracker[t] = Untracked \/ ~Retain(t))
      <4>1. tracker[t] < MaxAttempts /\ tracker[t] # Untracked BY <3>2 DEF Retain
      <4>2. tracker[t] \in Untracked..(MaxAttempts - 1 + MaxCopies) BY DEF CopyInv, AttemptsBounded
      <4>3. tracker'[t] = tracker[t] + Count(sweep, t) BY <3>2, <2>4
      <4> QED BY <4>1, <4>2, <4>3, <2>3, <1>a DEF Untracked
    <3> QED BY <3>1, <3>2
  <2>6. AttemptsBounded' BY <2>4, <2>5 DEF AttemptsBounded
  <2> QED BY <2>1, <2>6 DEF SweepBounded
<1>3. ASSUME UNCHANGED <<sweep, tracker>> PROVE SweepBounded' /\ AttemptsBounded'
  BY <1>3 DEF CopyInv, SweepBounded, AttemptsBounded
<1>4. ASSUME NEW t \in Txs, BroadcastMempoolTx(t) PROVE SweepBounded' /\ AttemptsBounded'
  <2>1. UNCHANGED sweep /\ tracker' = [tracker EXCEPT ![t] = 0] BY <1>4 DEF BroadcastMempoolTx
  <2>2. 0 \in Untracked..(MaxAttempts - 1 + MaxCopies) BY <1>a DEF Untracked
  <2> QED BY <2>1, <2>2 DEF CopyInv, SweepBounded, AttemptsBounded
<1>5. ASSUME CrashRestart PROVE SweepBounded' /\ AttemptsBounded'
  <2>1. sweep' = NoSweep /\ tracker' = [t \in Txs |-> IF t \in durable THEN 0 ELSE Untracked] BY <1>5 DEF CrashRestart
  <2>2. 0 \in Untracked..(MaxAttempts - 1 + MaxCopies) /\ Untracked \in Untracked..(MaxAttempts - 1 + MaxCopies) BY <1>a DEF Untracked
  <2> QED BY <2>1, <2>2 DEF SweepBounded, AttemptsBounded
<1>6. ASSUME NEW t \in Txs, SubmitLocalTx(t) \/ HandleTxBroadcast(t) PROVE UNCHANGED <<sweep, tracker>>
  BY <1>6 DEF SubmitLocalTx, HandleTxBroadcast
<1>7. ASSUME \/ EnqueueWithoutBroadcast \/ (\E B \in {{}} \cup {{t} : t \in Txs} : RemoteApply(B)) \/ RemoteForget \/ RemoteEvict
      PROVE UNCHANGED <<sweep, tracker>>
  BY <1>7 DEF EnqueueWithoutBroadcast, RemoteApply, RemoteForget, RemoteEvict
<1>8. ASSUME NEW m \in Miners, Mine(m) PROVE UNCHANGED <<sweep, tracker>>
  BY <1>8 DEF Mine, Build, Elect, MineTake, MineForget, MineFilter, MineSelect, BuildOk, BuildFails, BuildMaybeWritten
<1> QED BY <1>1, <1>2, <1>3, <1>4, <1>5, <1>6, <1>7, <1>8 DEF Next

\* Every step keeps the count of copies.
LEMMA CopyStep ==
    ASSUME Basics, CopyInv, [Next]_vars
    PROVE  CopyInv'
<1>1. CASE Next BY <1>1, CopiesStep, EntitledStep, DeliveryStep, SweepStep DEF CopyInv
<1>2. CASE UNCHANGED vars
  <2>1. \A t : Hands(t)' = Hands(t) /\ OnItsWay(t)' = OnItsWay(t) /\ Bound(t)' = Bound(t)
    BY <1>2 DEF vars, Hands, OnItsWay, Bound
  <2>2. UNCHANGED <<mempool, durable, announcing, arriving, sweep, tracker, budget>> BY <1>2 DEF vars
  <2> QED BY <2>1, <2>2 DEF CopyInv, CopiesBounded, CopyEntitled, DeliveryCounted, SweepBounded, AttemptsBounded
<1> QED BY <1>1, <1>2

\* The types of the mempool's state, and the ceiling of the rebroadcast attempts:
\* TET_TX_REBROADCAST_MAX, give or take the copies of one transaction a sweep counts
\* (rebroadcast_pending_txs).
THEOREM MempoolTyped == Spec => []TypeOK
<1>1. Basics /\ CopyInv /\ [Next]_vars => (Basics /\ CopyInv)' BY BasicsStep, CopyStep
<1>2. Basics /\ CopyInv => TypeOK
  <2> SUFFICES ASSUME Basics, CopyInv PROVE TypeOK OBVIOUS
  <2>1. announcing \subseteq Txs BY DEF Basics, Typed
  <2> QED BY <2>1 DEF Basics, Typed, CopyInv, AttemptsBounded, TypeOK
<1> QED BY <1>1, <1>2, BasicsInit, CopyInit, PTL DEF Spec

\* Without a delivery, what waits in the mempool is durable, about to be announced, or
\* settled.
Waiting ==
    budget.deliveries = MaxDeliveries =>
        \A t \in ToSet(mempool) : t \in durable \cup announcing \/ IsTxApplied(t)

\* What was announced is not announced again.
Announced == acked \cap announcing = {}

\* A transaction submitted once is announced once.
LEMMA AnnouncedStep ==
    ASSUME ~Resubmits, Basics, Announced, Next
    PROVE  Announced'
<1>0. acked \subseteq local BY DEF Basics, Typed
<1>1. ASSUME NEW t \in Txs, SubmitLocalTx(t) PROVE Announced'
  <2>1. t \notin local /\ acked' = acked /\ announcing' \subseteq announcing \cup {t} BY <1>1 DEF SubmitLocalTx
  <2> QED BY <2>1, <1>0 DEF Announced
<1>2. ASSUME NEW t \in Txs, BroadcastMempoolTx(t) \/ HandleTxBroadcast(t) PROVE Announced'
  BY <1>2 DEF BroadcastMempoolTx, HandleTxBroadcast, history, Announced
<1>3. ASSUME acked' = acked, announcing' \subseteq announcing PROVE Announced' BY <1>3 DEF Announced
<1>4. ASSUME \/ EnqueueWithoutBroadcast \/ SweepSnapshot \/ SweepTracker \/ (\E B \in {{}} \cup {{t} : t \in Txs} : RemoteApply(B))
             \/ RemoteForget \/ RemoteEvict \/ CrashRestart
      PROVE acked' = acked /\ announcing' \subseteq announcing
  BY <1>4 DEF EnqueueWithoutBroadcast, SweepSnapshot, SweepTracker, RemoteApply, RemoteForget, RemoteEvict, CrashRestart, history
<1>5. ASSUME NEW m \in Miners, Mine(m) PROVE acked' = acked /\ announcing' = announcing
  BY <1>5 DEF Mine, Build, Elect, MineTake, MineForget, MineFilter, MineSelect, BuildOk, BuildFails, BuildMaybeWritten, history
<1> QED BY <1>1, <1>2, <1>3, <1>4, <1>5 DEF Next

\* Every step keeps the durable copy of what waits: a miner forgets only what it took,
\* and there is no second copy.
LEMMA WaitingStep ==
    ASSUME ~Resubmits, Basics, CopyInv, Waiting, Next
    PROVE  Waiting'
<1>0. Typed /\ Bounded BY DEF Basics
<1> SUFFICES ASSUME budget'.deliveries = MaxDeliveries
             PROVE  \A t \in ToSet(mempool') : t \in (durable \cup announcing)' \/ IsTxApplied(t)'
  BY DEF Waiting
<1>1. budget.deliveries = MaxDeliveries
  <2>1. budget'.deliveries <= budget.deliveries /\ budget.deliveries <= MaxDeliveries BY <1>0, BoundedStep DEF Bounded
  <2>2. budget.deliveries \in Nat /\ MaxDeliveries \in Nat BY <1>0, MempoolAssumption DEF Typed, Budget
  <2> QED BY <2>1, <2>2
<1>2. \A t \in ToSet(mempool) : t \in durable \cup announcing \/ IsTxApplied(t) BY <1>1 DEF Waiting
<1>3. \A t \in Txs : IsTxApplied(t) => IsTxApplied(t)' BY <1>0, SettledStays
<1>4. ToSet(mempool) \subseteq Txs BY <1>0 DEF Typed, ToSet
<1> DEFINE Goal == \A t \in ToSet(mempool') : t \in (durable \cup announcing)' \/ IsTxApplied(t)'
<1>5. ASSUME ToSet(mempool') \subseteq ToSet(mempool) \cup (durable \cup announcing)',
             durable \cup announcing \subseteq (durable \cup announcing)'
      PROVE  Goal
  BY <1>2, <1>3, <1>4, <1>5
<1>6. ASSUME NEW t \in Txs, SubmitLocalTx(t) PROVE Goal
  <2>0. PICK r : r = Enqueue(t) OBVIOUS
  <2>1. /\ durable' = durable /\ announcing' = (IF r.ok THEN announcing \cup {t} ELSE announcing) /\ Admit(t)
    BY <1>6, <2>0 DEF SubmitLocalTx
  <2>2. mempool' = r.mempool /\ r.ok \in BOOLEAN BY <1>0, <2>0, <2>1, AdmitFacts
  <2>3. ToSet(mempool') \subseteq ToSet(mempool) \cup {t} /\ (~r.ok => ToSet(mempool') \subseteq ToSet(mempool))
    BY <1>0, <2>0, <2>2, EnqueueFacts DEF Typed
  <2> QED BY <1>5, <2>1, <2>3
<1>7. ASSUME NEW t \in Txs, BroadcastMempoolTx(t) PROVE Goal
  <2>1. mempool' = mempool /\ (durable \cup announcing)' = durable \cup announcing BY <1>7 DEF BroadcastMempoolTx
  <2> QED BY <1>5, <2>1
<1>8. ASSUME NEW t \in Txs, HandleTxBroadcast(t) PROVE Goal
  <2>1. UNCHANGED <<mempool, durable, announcing>> BY <1>8 DEF HandleTxBroadcast
  <2> QED BY <1>5, <2>1
<1>9. ASSUME EnqueueWithoutBroadcast PROVE Goal
  <2>1. arriving # NoTx BY <1>9 DEF EnqueueWithoutBroadcast
  <2>2. budget.deliveries < MaxDeliveries BY <2>1 DEF CopyInv, DeliveryCounted
  <2>3. MaxDeliveries \in Nat BY MempoolAssumption
  <2> QED BY <1>1, <2>2, <2>3
<1>10. ASSUME SweepSnapshot \/ SweepTracker \/ \E B \in {{}} \cup {{t} : t \in Txs} : RemoteApply(B) PROVE Goal
  <2>1. UNCHANGED <<mempool, durable, announcing>> BY <1>10 DEF SweepSnapshot, SweepTracker, RemoteApply
  <2> QED BY <1>5, <2>1
<1>11. ASSUME RemoteForget PROVE Goal
  <2>1. UNCHANGED <<mempool, announcing, included>> /\ durable' = durable \ remote.txs /\ remote.step = "applied" BY <1>11 DEF RemoteForget
  <2>2. \A t \in remote.txs : IsTxApplied(t) BY <2>1 DEF Basics, RemoteSettled
  <2>3. \A t : IsTxApplied(t) => IsTxApplied(t)' BY <2>1 DEF IsTxApplied
  <2> QED BY <1>2, <2>1, <2>2, <2>3
<1>12. ASSUME RemoteEvict PROVE Goal
  <2>1. UNCHANGED <<durable, announcing>> /\ mempool' = WithoutTxs(mempool, remote.txs) BY <1>12 DEF RemoteEvict
  <2>2. ToSet(mempool') \subseteq ToSet(mempool) BY <1>0, <2>1, WithoutFacts DEF Typed
  <2> QED BY <1>5, <2>1, <2>2
<1>13. ASSUME CrashRestart PROVE Goal
  <2>1. durable' = durable /\ mempool' = Restored BY <1>13 DEF CrashRestart
  <2>2. ToSet(mempool') = durable BY <1>0, <2>1, RestoredFacts DEF Typed
  <2> QED BY <2>1, <2>2
<1>14. ASSUME NEW m \in Miners, Mine(m) PROVE Goal
  <2>0. PICK s \in Seq(Txs) : s = miner[m].txs BY <1>0 DEF Typed, Lists
  <2>1. ASSUME Elect(m) \/ MineFilter(m) \/ BuildOk(m) \/ BuildMaybeWritten(m) PROVE Goal
    <3>1. UNCHANGED <<mempool, durable, announcing>> BY <2>1 DEF Elect, MineFilter, BuildOk, BuildMaybeWritten
    <3> QED BY <1>5, <3>1
  <2>2. ASSUME MineTake(m) PROVE Goal
    <3>1. mempool' = <<>> BY <2>2 DEF MineTake
    <3>2. ToSet(mempool') = {} BY <3>1 DEF ToSet
    <3> QED BY <3>2
  <2>3. ASSUME MineForget(m) PROVE Goal
    <3>1. UNCHANGED <<mempool, announcing>> /\ durable' = durable \ ToSet(s) BY <2>0, <2>3 DEF MineForget
    <3>2. ASSUME NEW t \in ToSet(mempool), t \in ToSet(s) PROVE FALSE
      <4>0. t \in Txs BY <1>4
      <4>1. Count(mempool, t) + Hands(t) + OnItsWay(t) <= Bound(t) BY <4>0 DEF CopyInv, CopiesBounded
      <4>2. Count(mempool, t) \in Nat /\ Hands(t) \in Nat /\ OnItsWay(t) \in {0, 1} BY <1>0, LoadType
      <4>3. Count(mempool, t) # 0 BY <1>0, <3>2, CountType DEF Typed
      <4>4. Count(s, t) \in Nat /\ Count(s, t) # 0 BY <3>2, CountType
      <4>5. Count(s, t) <= Hands(t) BY <1>0, <2>0, HandsType
      <4>6. Bound(t) \in {0, 1}
        <5>1. MaxDeliveries \in Nat BY MempoolAssumption
        <5> QED BY <1>1, <5>1 DEF Bound
      <4> QED BY <4>1, <4>2, <4>3, <4>4, <4>5, <4>6
    <3>3. \A t \in ToSet(mempool) : t \in durable \cup announcing => t \in (durable \cup announcing)' BY <3>1, <3>2
    <3>4. ToSet(mempool') = ToSet(mempool) BY <3>1
    <3> QED BY <1>2, <1>3, <1>4, <3>3, <3>4
  <2>4. ASSUME MineSelect(m) PROVE Goal
    <3>1. RequeueTxsFront(Deferred(s)) /\ announcing' = announcing BY <2>0, <2>4, MineSelectIs
    <3>2. Deferred(s) \in Seq(Txs) BY ChosenFacts
    <3>3. durable \subseteq durable' /\ ToSet(mempool') \subseteq ToSet(mempool) \cup durable'
      BY <1>0, <3>1, <3>2, RequeueFacts DEF Typed
    <3> QED BY <1>5, <3>1, <3>3
  <2>5. ASSUME BuildFails(m) PROVE Goal
    <3>1. announcing' = announcing /\ (RequeueTxsFront(s) \/ UNCHANGED <<mempool, durable>>) BY <2>0, <2>5 DEF BuildFails
    <3>2. RequeueTxsFront(s) => durable \subseteq durable' /\ ToSet(mempool') \subseteq ToSet(mempool) \cup durable'
      BY <1>0, RequeueFacts DEF Typed
    <3> QED BY <1>5, <3>1, <3>2
  <2> HIDE DEF Goal
  <2> QED BY <1>14, <2>1, <2>2, <2>3, <2>4, <2>5 DEF Mine, Build
<1> HIDE DEF Goal
<1>15. Goal BY <1>6, <1>7, <1>8, <1>9, <1>10, <1>11, <1>12, <1>13, <1>14 DEF Next
<1> QED BY <1>15 DEF Goal

\* When clients submit a transaction once and no peer gossips it here, whatever waits in
\* the mempool with a 202 is in the durable copy or settled, so a crash now restores it,
\* for any number of miners, crashes and failed blocks (DurableSound; mempool_persist,
\* mempool_forget, requeue_txs_front).
THEOREM RestartIsSafe ==
    ASSUME ~Resubmits
    PROVE  Spec => []DurableSound
<1> DEFINE I == Basics /\ CopyInv /\ Waiting /\ Announced
<1>1. Init => I
  <2>1. Init => Waiting /\ Announced BY DEF Init, Waiting, Announced, ToSet
  <2> QED BY <2>1, BasicsInit, CopyInit
<1>2. I /\ [Next]_vars => I'
  <2> SUFFICES ASSUME I, [Next]_vars PROVE I' OBVIOUS
  <2>1. Basics' /\ CopyInv' BY BasicsStep, CopyStep
  <2>2. CASE Next BY <2>1, <2>2, WaitingStep, AnnouncedStep
  <2>3. CASE UNCHANGED vars BY <2>1, <2>3 DEF vars, Waiting, Announced, IsTxApplied
  <2> QED BY <2>2, <2>3
<1>3. I => WaitingIsDurable BY DEF Waiting, Announced, WaitingIsDurable
<1> HIDE DEF I
<1>4. Spec => []WaitingIsDurable BY <1>1, <1>2, <1>3, PTL DEF Spec
<1> QED BY <1>4, MempoolTyped, PTL DEF DurableSound
================================================================================

------------------------------ MODULE DataLemmas ------------------------------
(*****************************************************************************)
(* What the proofs use of sums, sequences and numbers: SumFunctionOnSet over *)
(* finite sets, by an induction that the well-foundedness of the naturals    *)
(* gives; positions of a shortened sequence; products and quotients.         *)
(*****************************************************************************)
EXTENDS Integers, FiniteSets, FiniteSetsExt, Sequences, SequencesExt, Functions, FiniteSetTheorems, WellFoundedInduction, TLAPS

\* What the fold of the Functions module takes first from a set.
First(s) == CHOOSE x \in s : TRUE
\* g is the recursion that SumFunctionOnSet unfolds to, on the subsets of S.
Summing(g, f, D) == g = [s \in D |-> IF s = {} THEN 0 ELSE f[First(s)] + g[s \ {First(s)}]]

\* Every non-empty set of naturals has a least element: where the inductions below come
\* from.
LEMMA Least ==
    ASSUME NEW S, S \subseteq Nat, S # {}
    PROVE  \E n \in S : \A m \in S : n <= m
<1> DEFINE R == OpToRel(<, Nat)
<1>1. IsWellFoundedOn(R, Nat) BY NatLessThanWellFounded
<1>2. \E x \in S : \A y \in S : ~ (<<y, x>> \in R)
  <2> HIDE DEF R
  <2> QED BY <1>1, WFMin
<1>3. \A x, y \in Nat : y < x => <<y,x>> \in R BY DEF OpToRel
<1>4. ASSUME NEW x \in S, NEW y \in S, ~ (<<y, x>> \in R) PROVE x <= y
  <2>1. ~(y < x) BY <1>3, <1>4, Zenon
  <2>2. x \in Nat /\ y \in Nat OBVIOUS
  <2> HIDE DEF R
  <2> QED BY <2>1, <2>2
<1> HIDE DEF R
<1> QED BY <1>2, <1>4

\* Induction over the naturals, for a set instead of a predicate.
LEMMA NatSetInduction ==
    ASSUME NEW S, S \subseteq Nat, 0 \in S, \A n \in S : n + 1 \in S
    PROVE  S = Nat
<1> SUFFICES ASSUME S # Nat PROVE FALSE OBVIOUS
<1>1. (Nat \ S) # {} /\ (Nat \ S) \subseteq Nat OBVIOUS
<1>2. PICK n \in Nat \ S : \A m \in Nat \ S : n <= m BY <1>1, Least
<1>3. n # 0 OBVIOUS
<1>4. n - 1 \in Nat /\ (n - 1) + 1 = n BY <1>3
<1>5. n-1 \in S BY <1>4, <1>2
<1> QED BY <1>4, <1>5

\* SumFunctionOnSet is its recursion, taken at the whole set.
LEMMA Unfold ==
    ASSUME NEW f, NEW S
    PROVE  SumFunctionOnSet(f, S) = (CHOOSE g : Summing(g, f, SUBSET S))[S]
BY Zenon DEF SumFunctionOnSet, FoldFunctionOnSet, MapThenFoldSet, Summing, First

\* Induction over the subsets of a finite set: what holds of the empty set, and of a set
\* whenever it holds of the set without each of its elements, holds of all.
LEMMA FiniteInduction ==
    ASSUME NEW S, IsFiniteSet(S), NEW P \in SUBSET (SUBSET S), {} \in P,
           \A T \in SUBSET S : T # {} /\ (\A x \in T : T \ {x} \in P) => T \in P
    PROVE  P = SUBSET S
<1> DEFINE N == {n \in Nat : \A T \in SUBSET S : Cardinality(T) <= n => T \in P}
<1>1. \A T \in SUBSET S : IsFiniteSet(T) /\ Cardinality(T) \in Nat /\ (Cardinality(T) = 0 => T = {})
  BY FS_Subset, FS_CardinalityType, FS_EmptySet
<1>2. 0 \in N
  <2> SUFFICES ASSUME NEW T \in SUBSET S, Cardinality(T) <= 0 PROVE T \in P
    OBVIOUS
  <2>1. Cardinality(T) = 0
    BY <1>1
  <2> QED BY <1>1, <2>1
<1>3. ASSUME NEW n \in N PROVE n + 1 \in N
  <2> SUFFICES ASSUME NEW T \in SUBSET S, Cardinality(T) <= n + 1 PROVE T \in P
    OBVIOUS
  <2>1. ASSUME NEW x \in T PROVE T \ {x} \in P
    <3>1. Cardinality(T \ {x}) = Cardinality(T) - 1
      BY <1>1, FS_RemoveElement
    <3>2. Cardinality(T \ {x}) <= n /\ T \ {x} \in SUBSET S
      BY <1>1, <3>1
    <3> QED BY <3>2
  <2> QED BY <2>1
<1>4. N \subseteq Nat
  OBVIOUS
<1>5. N = Nat
  <2> HIDE DEF N
  <2> QED BY <1>2, <1>3, <1>4, NatSetInduction
<1>6. Cardinality(S) \in N
  BY <1>5, FS_CardinalityType
<1>7. \A T \in SUBSET S : T \in P
  BY <1>6, FS_Subset
<1> QED BY <1>7

\* First picks an element.
LEMMA FirstIn == ASSUME NEW s, s # {} PROVE First(s) \in s
BY DEF First

\* The recursion behind SumFunctionOnSet has a solution on a finite set.
LEMMA SummingExists ==
    ASSUME NEW S, IsFiniteSet(S), NEW f
    PROVE  \E g : Summing(g, f, SUBSET S)
<1> DEFINE Upto(n) == {s \in SUBSET S : Cardinality(s) <= n}
           N == {n \in Nat : \E g : Summing(g, f, Upto(n))}
<1>1. \A T \in SUBSET S : IsFiniteSet(T) /\ Cardinality(T) \in Nat /\ (Cardinality(T) = 0 <=> T = {})
  BY FS_Subset, FS_CardinalityType, FS_EmptySet
<1>2. 0 \in N
  <2>1. Upto(0) = {{}}
    BY <1>1
  <2> DEFINE g == [s \in Upto(0) |-> 0]
  <2>2. Summing(g, f, Upto(0))
    BY <2>1 DEF Summing
  <2> QED BY <2>2
<1>3. ASSUME NEW n \in N PROVE n + 1 \in N
  <2>1. PICK g : Summing(g, f, Upto(n))
    OBVIOUS
  <2> DEFINE h == [s \in Upto(n + 1) |-> IF s = {} THEN 0 ELSE f[First(s)] + g[s \ {First(s)}]]
  <2>2. ASSUME NEW s \in Upto(n + 1), s # {} PROVE s \ {First(s)} \in Upto(n)
    <3>1. First(s) \in s
      BY <2>2, FirstIn
    <3>2. Cardinality(s \ {First(s)}) = Cardinality(s) - 1
      BY <1>1, <3>1, FS_RemoveElement
    <3> QED BY <1>1, <3>2
  <2>3. \A s \in Upto(n) : s \in Upto(n + 1)
    BY <1>1
  <2>4. \A s \in Upto(n) : g[s] = IF s = {} THEN 0 ELSE f[First(s)] + g[s \ {First(s)}]
    <3> HIDE DEF Upto
    <3> QED BY <2>1 DEF Summing
  <2> HIDE DEF Upto
  <2>5. \A s \in Upto(n) : h[s] = g[s]
    BY <2>3, <2>4
  <2>6. \A s \in Upto(n + 1) : h[s] = IF s = {} THEN 0 ELSE f[First(s)] + h[s \ {First(s)}]
    BY <2>2, <2>5
  <2>7. Summing(h, f, Upto(n + 1))
    BY <2>6 DEF Summing
  <2> HIDE DEF h
  <2> QED BY <2>7
<1>4. N = Nat
  <2>1. N \subseteq Nat
    OBVIOUS
  <2> HIDE DEF N
  <2> QED BY <1>2, <1>3, <2>1, NatSetInduction
<1>5. Cardinality(S) \in Nat /\ Upto(Cardinality(S)) = SUBSET S
  BY FS_CardinalityType, FS_Subset
<1>6. Cardinality(S) \in N
  BY <1>4, <1>5
<1> HIDE DEF Upto
<1> QED BY <1>5, <1>6

\* Two solutions for functions that agree on a set agree on its subsets.
LEMMA Agree ==
    ASSUME NEW S, IsFiniteSet(S), NEW f, NEW g, NEW h, NEW k, NEW A, NEW B,
           SUBSET S \subseteq A, SUBSET S \subseteq B,
           Summing(g, f, A), Summing(h, k, B), \A x \in S : f[x] = k[x]
    PROVE  \A T \in SUBSET S : g[T] = h[T]
<1> DEFINE P == {T \in SUBSET S : g[T] = h[T]}
<1>1. \A T \in SUBSET S : g[T] = IF T = {} THEN 0 ELSE f[First(T)] + g[T \ {First(T)}]
  BY DEF Summing
<1>2. \A T \in SUBSET S : h[T] = IF T = {} THEN 0 ELSE k[First(T)] + h[T \ {First(T)}]
  BY DEF Summing
<1>3. {} \in P
  BY <1>1, <1>2
<1>4. ASSUME NEW T \in SUBSET S, T # {}, \A x \in T : T \ {x} \in P PROVE T \in P
  <2>1. First(T) \in T
    BY <1>4, FirstIn
  <2> QED BY <1>1, <1>2, <1>4, <2>1
<1>5. P \in SUBSET (SUBSET S)
  OBVIOUS
<1>6. P = SUBSET S
  <2> HIDE DEF P
  <2> QED BY <1>3, <1>4, <1>5, FiniteInduction
<1> QED BY <1>6

\* One solution gives the sums over all subsets of a finite set.
LEMMA SumIsSumming ==
    ASSUME NEW S, IsFiniteSet(S), NEW f
    PROVE  \E g : Summing(g, f, SUBSET S) /\ \A T \in SUBSET S : g[T] = SumFunctionOnSet(f, T)
<1> DEFINE G(T) == CHOOSE g : Summing(g, f, SUBSET T)
<1>1. ASSUME NEW T \in SUBSET S PROVE Summing(G(T), f, SUBSET T)
  <2>1. IsFiniteSet(T)
    BY FS_Subset
  <2> QED BY <2>1, SummingExists
<1>2. ASSUME NEW T \in SUBSET S PROVE G(S)[T] = G(T)[T]
  <2>1. Summing(G(S), f, SUBSET S) /\ Summing(G(T), f, SUBSET T) /\ IsFiniteSet(T)
    BY <1>1, FS_Subset
  <2>2. SUBSET T \subseteq SUBSET S
    OBVIOUS
  <2> HIDE DEF G
  <2> QED BY <2>1, <2>2, Agree
<1>3. \A T \in SUBSET S : G(T)[T] = SumFunctionOnSet(f, T)
  BY Unfold
<1>4. Summing(G(S), f, SUBSET S)
  BY <1>1
<1> HIDE DEF G
<1> QED BY <1>2, <1>3, <1>4

\* The sum over nothing.
LEMMA SumEmpty ==
    ASSUME NEW f
    PROVE  SumFunctionOnSet(f, {}) = 0
<1>1. PICK g : Summing(g, f, SUBSET {}) /\ \A T \in SUBSET {} : g[T] = SumFunctionOnSet(f, T)
  BY SumIsSumming, FS_EmptySet
<1> QED BY <1>1 DEF Summing

\* The sum over a set from the sum without its first element.
LEMMA SumFirst ==
    ASSUME NEW S, IsFiniteSet(S), S # {}, NEW f
    PROVE  SumFunctionOnSet(f, S) = f[First(S)] + SumFunctionOnSet(f, S \ {First(S)})
<1>1. PICK g : Summing(g, f, SUBSET S) /\ \A T \in SUBSET S : g[T] = SumFunctionOnSet(f, T)
  BY SumIsSumming
<1>2. g[S] = f[First(S)] + g[S \ {First(S)}]
  BY <1>1 DEF Summing
<1> QED BY <1>1, <1>2

\* Functions that agree on a set have the same sum over it.
LEMMA SumSame ==
    ASSUME NEW S, IsFiniteSet(S), NEW f, NEW k, \A x \in S : f[x] = k[x]
    PROVE  SumFunctionOnSet(f, S) = SumFunctionOnSet(k, S)
<1>1. PICK g : Summing(g, f, SUBSET S) /\ \A T \in SUBSET S : g[T] = SumFunctionOnSet(f, T)
  BY SumIsSumming
<1>2. PICK h : Summing(h, k, SUBSET S) /\ \A T \in SUBSET S : h[T] = SumFunctionOnSet(k, T)
  BY SumIsSumming
<1>3. g[S] = h[S]
  BY <1>1, <1>2, Agree
<1> QED BY <1>1, <1>2, <1>3

\* A sum of integers is an integer.
LEMMA SumInt ==
    ASSUME NEW S, IsFiniteSet(S), NEW f, \A x \in S : f[x] \in Int
    PROVE  SumFunctionOnSet(f, S) \in Int
<1> DEFINE P == {T \in SUBSET S : SumFunctionOnSet(f, T) \in Int}
<1>1. {} \in P
  BY SumEmpty
<1>2. ASSUME NEW T \in SUBSET S, T # {}, \A x \in T : T \ {x} \in P PROVE T \in P
  <2>1. First(T) \in T /\ IsFiniteSet(T)
    BY <1>2, FirstIn, FS_Subset
  <2>2. SumFunctionOnSet(f, T) = f[First(T)] + SumFunctionOnSet(f, T \ {First(T)})
    BY <1>2, <2>1, SumFirst
  <2> QED BY <1>2, <2>1, <2>2
<1>3. P \in SUBSET (SUBSET S)
  OBVIOUS
<1>4. P = SUBSET S
  <2> HIDE DEF P
  <2> QED BY <1>1, <1>2, <1>3, FiniteInduction
<1> QED BY <1>4

\* A sum of naturals is a natural.
LEMMA SumNat ==
    ASSUME NEW S, IsFiniteSet(S), NEW f, \A x \in S : f[x] \in Nat
    PROVE  SumFunctionOnSet(f, S) \in Nat
<1> DEFINE P == {T \in SUBSET S : SumFunctionOnSet(f, T) \in Nat}
<1>1. {} \in P
  BY SumEmpty
<1>2. ASSUME NEW T \in SUBSET S, T # {}, \A x \in T : T \ {x} \in P PROVE T \in P
  <2>1. First(T) \in T /\ IsFiniteSet(T)
    BY <1>2, FirstIn, FS_Subset
  <2>2. SumFunctionOnSet(f, T) = f[First(T)] + SumFunctionOnSet(f, T \ {First(T)})
    BY <1>2, <2>1, SumFirst
  <2> QED BY <1>2, <2>1, <2>2
<1>3. P \in SUBSET (SUBSET S)
  OBVIOUS
<1>4. P = SUBSET S
  <2> HIDE DEF P
  <2> QED BY <1>1, <1>2, <1>3, FiniteInduction
<1> QED BY <1>4

\* Any element can be taken out of a sum first.
LEMMA SumRemove ==
    ASSUME NEW S, IsFiniteSet(S), NEW f, \A x \in S : f[x] \in Int
    PROVE  \A x \in S : SumFunctionOnSet(f, S) = f[x] + SumFunctionOnSet(f, S \ {x})
<1> DEFINE P == {T \in SUBSET S : \A x \in T : SumFunctionOnSet(f, T) = f[x] + SumFunctionOnSet(f, T \ {x})}
<1>1. {} \in P
  OBVIOUS
<1>2. ASSUME NEW T \in SUBSET S, T # {}, \A x \in T : T \ {x} \in P PROVE T \in P
  <2> SUFFICES ASSUME NEW x \in T PROVE SumFunctionOnSet(f, T) = f[x] + SumFunctionOnSet(f, T \ {x})
    OBVIOUS
  <2> DEFINE y == First(T)
  <2>1. y \in T /\ IsFiniteSet(T) /\ IsFiniteSet(T \ {x, y})
    BY <1>2, FirstIn, FS_Subset
  <2>2. SumFunctionOnSet(f, T) = f[y] + SumFunctionOnSet(f, T \ {y})
    BY <1>2, <2>1, SumFirst
  <2> HIDE DEF y
  <2>3. CASE x = y
    BY <2>2, <2>3
  <2>4. CASE x # y
    <3>1. SumFunctionOnSet(f, T \ {y}) = f[x] + SumFunctionOnSet(f, (T \ {y}) \ {x})
      BY <1>2, <2>1, <2>4
    <3>2. SumFunctionOnSet(f, T \ {x}) = f[y] + SumFunctionOnSet(f, (T \ {x}) \ {y})
      BY <1>2, <2>1, <2>4
    <3>3. (T \ {y}) \ {x} = T \ {x, y} /\ (T \ {x}) \ {y} = T \ {x, y}
      OBVIOUS
    <3>4. SumFunctionOnSet(f, T \ {x, y}) \in Int /\ f[x] \in Int /\ f[y] \in Int
      BY <2>1, SumInt
    <3>5. SumFunctionOnSet(f, T \ {y}) = f[x] + SumFunctionOnSet(f, T \ {x, y})
      BY <3>1, <3>3
    <3>6. SumFunctionOnSet(f, T \ {x}) = f[y] + SumFunctionOnSet(f, T \ {x, y})
      BY <3>2, <3>3
    <3> HIDE <3>1, <3>2, <3>3
    <3> QED BY <2>2, <3>4, <3>5, <3>6
  <2> QED BY <2>3, <2>4
<1>3. P \in SUBSET (SUBSET S)
  OBVIOUS
<1>4. P = SUBSET S
  <2> HIDE DEF P
  <2> QED BY <1>1, <1>2, <1>3, FiniteInduction
<1> QED BY <1>4

\* Changing a function at one point changes its sum by the difference there.
LEMMA SumChange ==
    ASSUME NEW S, IsFiniteSet(S), NEW f, NEW k, NEW x \in S,
           \A y \in S : f[y] \in Int /\ k[y] \in Int,
           \A y \in S : y # x => k[y] = f[y]
    PROVE  SumFunctionOnSet(k, S) = SumFunctionOnSet(f, S) - f[x] + k[x]
<1>1. IsFiniteSet(S \ {x}) /\ \A y \in S \ {x} : f[y] = k[y] /\ f[y] \in Int
  BY FS_Subset
<1>2. SumFunctionOnSet(f, S \ {x}) = SumFunctionOnSet(k, S \ {x}) /\ SumFunctionOnSet(f, S \ {x}) \in Int
  BY <1>1, SumSame, SumInt
<1>3. SumFunctionOnSet(f, S) = f[x] + SumFunctionOnSet(f, S \ {x})
  BY SumRemove
<1>4. SumFunctionOnSet(k, S) = k[x] + SumFunctionOnSet(k, S \ {x})
  BY SumRemove
<1>5. f[x] \in Int /\ k[x] \in Int
  OBVIOUS
<1> QED BY <1>2, <1>3, <1>4, <1>5

\* A sum grows with its terms.
LEMMA SumLeq ==
    ASSUME NEW S, IsFiniteSet(S), NEW f, NEW k,
           \A x \in S : f[x] \in Int /\ k[x] \in Int /\ f[x] <= k[x]
    PROVE  SumFunctionOnSet(f, S) <= SumFunctionOnSet(k, S)
<1> DEFINE P == {T \in SUBSET S : SumFunctionOnSet(f, T) <= SumFunctionOnSet(k, T)}
<1>1. {} \in P
  BY SumEmpty
<1>2. ASSUME NEW T \in SUBSET S, T # {}, \A x \in T : T \ {x} \in P PROVE T \in P
  <2> DEFINE y == First(T)
  <2>1. y \in T /\ IsFiniteSet(T) /\ IsFiniteSet(T \ {y})
    BY <1>2, FirstIn, FS_Subset
  <2>2. /\ SumFunctionOnSet(f, T) = f[y] + SumFunctionOnSet(f, T \ {y})
        /\ SumFunctionOnSet(k, T) = k[y] + SumFunctionOnSet(k, T \ {y})
    BY <1>2, <2>1, SumFirst
  <2> HIDE DEF y
  <2>3. /\ SumFunctionOnSet(f, T \ {y}) \in Int /\ SumFunctionOnSet(k, T \ {y}) \in Int
    BY <2>1, SumInt
  <2>4. SumFunctionOnSet(f, T \ {y}) <= SumFunctionOnSet(k, T \ {y})
    BY <1>2, <2>1
  <2>5. f[y] \in Int /\ k[y] \in Int /\ f[y] <= k[y]
    BY <2>1
  <2>6. SumFunctionOnSet(f, T) <= SumFunctionOnSet(k, T)
    BY <2>2, <2>3, <2>4, <2>5
  <2> QED BY <2>6
<1>3. P \in SUBSET (SUBSET S)
  OBVIOUS
<1>4. P = SUBSET S
  <2> HIDE DEF P
  <2> QED BY <1>1, <1>2, <1>3, FiniteInduction
<1> QED BY <1>4

\* A sum of zeros is zero.
LEMMA SumZero ==
    ASSUME NEW S, IsFiniteSet(S), NEW f, \A x \in S : f[x] = 0
    PROVE  SumFunctionOnSet(f, S) = 0
<1> DEFINE P == {T \in SUBSET S : SumFunctionOnSet(f, T) = 0}
<1>1. {} \in P
  BY SumEmpty
<1>2. ASSUME NEW T \in SUBSET S, T # {}, \A x \in T : T \ {x} \in P PROVE T \in P
  <2>1. First(T) \in T /\ IsFiniteSet(T)
    BY <1>2, FirstIn, FS_Subset
  <2>2. SumFunctionOnSet(f, T) = f[First(T)] + SumFunctionOnSet(f, T \ {First(T)})
    BY <1>2, <2>1, SumFirst
  <2> QED BY <1>2, <2>1, <2>2
<1>3. P \in SUBSET (SUBSET S)
  OBVIOUS
<1>4. P = SUBSET S
  <2> HIDE DEF P
  <2> QED BY <1>1, <1>2, <1>3, FiniteInduction
<1> QED BY <1>4

\* Min of a non-empty set of naturals is its least element.
LEMMA MinIsLeast ==
    ASSUME NEW S, S \subseteq Nat, S # {}
    PROVE  Min(S) \in S /\ \A m \in S : Min(S) <= m
<1>1. \E n \in S : \A m \in S : n <= m
  BY Least
<1> QED BY <1>1 DEF Min

\* A product with a natural grows with the other factor.
LEMMA ProductMono == ASSUME NEW x \in Nat, NEW y \in Nat, NEW r \in Nat, x <= y PROVE x * r <= y * r
OBVIOUS

\* Products distribute over sums.
LEMMA ProductSum == ASSUME NEW x \in Nat, NEW y \in Nat, NEW r \in Nat PROVE (x + y) * r = x * r + y * r
OBVIOUS

\* Products distribute over differences.
LEMMA ProductDiff == ASSUME NEW x \in Nat, NEW y \in Nat, NEW r \in Nat PROVE (x - y) * r = x * r - y * r
OBVIOUS

\* One more time a factor.
LEMMA ProductNext == ASSUME NEW x \in Nat, NEW r \in Nat PROVE (x + 1) * r = x * r + r /\ x * r \in Nat
OBVIOUS

\* Integer division by a positive number is a natural and grows with what is divided.
LEMMA DivMono ==
    ASSUME NEW d \in Nat \ {0}, NEW x \in Nat, NEW y \in Nat, x <= y
    PROVE  x \div d \in Nat /\ y \div d \in Nat /\ x \div d <= y \div d
<1> DEFINE a == x \div d
           b == y \div d
           r == x % d
           s == y % d
<1>1. x = d * a + r /\ r \in 0..(d - 1) /\ a \in Int
  OBVIOUS
<1>2. y = d * b + s /\ s \in 0..(d - 1) /\ b \in Int
  OBVIOUS
<1> HIDE DEF a, b, r, s
<1>3. ASSUME NEW p \in Int, NEW q \in Int, p < q PROVE d * p + d <= d * q
  <2>1. d * (q - p) >= d
    BY <1>3, SMT
  <2> QED BY <2>1
<1>4. a <= b
  BY <1>1, <1>2, <1>3
<1>5. a >= 0
  <2>1. a < 0 => d * a + d <= d * 0
    BY <1>1, <1>3
  <2> QED BY <1>1, <2>1
<1> QED BY <1>1, <1>2, <1>4, <1>5 DEF a, b

\* What is left of a sequence when one position is taken out.
LEMMA RemovedSeq ==
    ASSUME NEW S, NEW q \in Seq(S), NEW i \in 1..Len(q), NEW t, t = RemoveAt(q, i)
    PROVE  /\ t \in Seq(S) /\ Len(t) = Len(q) - 1
           /\ \A k \in 1..Len(t) : t[k] = IF k < i THEN q[k] ELSE q[k + 1]
<1> DEFINE a == SubSeq(q, 1, i - 1)
           b == SubSeq(q, i + 1, Len(q))
<1>1. Len(q) \in Nat /\ i \in Nat /\ i >= 1 /\ i <= Len(q)
  OBVIOUS
<1>2. a \in Seq(S) /\ Len(a) = i - 1 /\ \A k \in 1..(i - 1) : a[k] = q[k]
  BY <1>1
<1>3. b \in Seq(S) /\ Len(b) = Len(q) - i /\ \A k \in 1..(Len(q) - i) : b[k] = q[k + i]
  BY <1>1
<1>4. t = a \o b
  BY DEF RemoveAt
<1> HIDE DEF a, b
<1>5. t \in Seq(S) /\ Len(t) = Len(q) - 1
  BY <1>1, <1>2, <1>3, <1>4
<1>6. ASSUME NEW k \in 1..Len(t) PROVE t[k] = IF k < i THEN q[k] ELSE q[k + 1]
  <2>1. CASE k < i
    <3>1. k \in 1..(i - 1) /\ t[k] = a[k]
      BY <1>1, <1>2, <1>3, <1>4, <1>5, <2>1
    <3> QED BY <1>2, <2>1, <3>1
  <2>2. CASE ~(k < i)
    <3>1. k - Len(a) \in 1..(Len(q) - i) /\ t[k] = b[k - Len(a)] /\ (k - Len(a)) + i = k + 1
      BY <1>1, <1>2, <1>3, <1>4, <1>5, <2>2
    <3> QED BY <1>3, <2>2, <3>1
  <2> QED BY <2>1, <2>2
<1> QED BY <1>5, <1>6

\* f is what applying step[1] to step[n] one after the other makes of x.
RunFrom(f, x, step, n) == f[0] = x /\ \A k \in 1..n : f[k] = step[k][f[k - 1]]

\* Steps that map a set to itself can be applied one after the other.
LEMMA RunExists ==
    ASSUME NEW S, NEW x \in S, NEW n \in Nat, NEW step \in [1..n -> [S -> S]]
    PROVE  \E f \in [0..n -> S] : RunFrom(f, x, step, n)
<1> DEFINE N == {k \in Nat : k <= n => \E f \in [0..k -> S] : RunFrom(f, x, step, k)}
<1>1. 0 \in N
  <2>1. [j \in 0..0 |-> x] \in [0..0 -> S] /\ RunFrom([j \in 0..0 |-> x], x, step, 0)
    BY DEF RunFrom
  <2> QED BY <2>1
<1>2. ASSUME NEW k \in N PROVE k + 1 \in N
  <2>1. SUFFICES ASSUME k + 1 <= n PROVE \E f \in [0..k + 1 -> S] : RunFrom(f, x, step, k + 1)
    BY <1>2
  <2>2. PICK f \in [0..k -> S] : RunFrom(f, x, step, k)
    BY <1>2, <2>1
  <2>3. PICK y : y = step[k + 1][f[k]]
    OBVIOUS
  <2>4. k \in Nat /\ k + 1 \in 1..n /\ f[k] \in S
    BY <1>2, <2>1
  <2>5. y \in S
    <3>1. step[k + 1] \in [S -> S]
      BY <2>4
    <3> QED BY <3>1, <2>3, <2>4
  <2>6. PICK g : g = [j \in 0..k + 1 |-> IF j <= k THEN f[j] ELSE y]
    OBVIOUS
  <2>7. g \in [0..k + 1 -> S]
    BY <2>4, <2>5, <2>6
  <2>8. g[0] = x
    BY <2>2, <2>4, <2>6 DEF RunFrom
  <2>9. ASSUME NEW j \in 1..k + 1 PROVE g[j] = step[j][g[j - 1]]
    <3>1. CASE j = k + 1
      BY <3>1, <2>3, <2>4, <2>6
    <3>2. CASE j # k + 1
      <4>1. j \in 1..k /\ j - 1 \in 0..k /\ j \in 0..k
        BY <3>2, <2>4
      <4>2. g[j] = f[j] /\ g[j - 1] = f[j - 1]
        BY <4>1, <2>4, <2>6
      <4> QED BY <4>1, <4>2, <2>2 DEF RunFrom
    <3> QED BY <3>1, <3>2
  <2>10. RunFrom(g, x, step, k + 1)
    BY <2>8, <2>9 DEF RunFrom
  <2> QED BY <2>7, <2>10
<1>3. N = Nat
  <2>1. N \subseteq Nat
    OBVIOUS
  <2> HIDE DEF N
  <2> QED BY <1>1, <1>2, <2>1, NatSetInduction
<1> QED BY <1>3
================================================================================

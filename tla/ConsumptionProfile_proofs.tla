----------------------- MODULE ConsumptionProfile_proofs -----------------------
(***************************************************************************)
(* The scoring job for every number of levels, nodes and samples: first    *)
(* what the pooling of adjacent violators computes for any powers, then    *)
(* the invariants of the job.                                              *)
(*                                                                         *)
(* A mean over a block is never written as a fraction: of two blocks, that *)
(* with the smaller mean has the smaller sum once each is multiplied by    *)
(* the other's size.                                                       *)
(***************************************************************************)
EXTENDS ConsumptionProfile, SumTheorems, SequenceTheorems, TLAPS

Powers(power) ==
  DOMAIN power \subseteq Levels /\ \A u \in DOMAIN power : power[u] \in Int

\* A common factor can be left out of a comparison, and put in.
LEMMA Cancel ==
  ASSUME NEW w \in Int, w > 0, NEW a \in Int, NEW b \in Int
  PROVE  w * a >= w * b <=> a >= b
OBVIOUS

\* Multiplication keeps an order.
LEMMA Scale ==
  ASSUME NEW w \in Nat, NEW a \in Int, NEW b \in Int, a >= b
  PROVE  w * a >= w * b
OBVIOUS

\* Comparing means is transitive.
LEMMA MeansCompare ==
  ASSUME NEW s1 \in Int, NEW s2 \in Int, NEW s3 \in Int,
         NEW w1 \in Nat, NEW w2 \in Nat \ {0}, NEW w3 \in Nat,
         s1 * w2 =< s2 * w1, s2 * w3 =< s3 * w2
  PROVE  s1 * w3 =< s3 * w1
<1>1. w3 * (s2 * w1) >= w3 * (s1 * w2)
  BY Scale
<1>2. w1 * (s3 * w2) >= w1 * (s2 * w3)
  BY Scale
<1>3. /\ w3 * (s2 * w1) = w1 * (s2 * w3)
      /\ w3 * (s1 * w2) = w2 * (s1 * w3)
      /\ w1 * (s3 * w2) = w2 * (s3 * w1)
  OBVIOUS
<1>4. w2 * (s3 * w1) >= w2 * (s1 * w3)
  BY <1>1, <1>2, <1>3
<1> QED
  BY <1>4, Cancel

\* The sum and the size of a block.
LEMMA BlockType ==
  ASSUME NEW power, Powers(power), NEW B \in SUBSET DOMAIN power
  PROVE  /\ IsFiniteSet(B)
         /\ SumFunctionOnSet(power, B) \in Int /\ Cardinality(B) \in Nat
         /\ B # {} => Cardinality(B) > 0
         /\ B = {} => SumFunctionOnSet(power, B) = 0 /\ Cardinality(B) = 0
<1>1. IsFiniteSet(Levels)
  BY TopAssumption, FS_Interval DEF Levels
<1>2. IsFiniteSet(B)
  BY <1>1, FS_Subset DEF Powers
<1>3. SumFunctionOnSet(power, B) \in Int
  BY <1>2, SumIsInt DEF Powers
<1>4. Cardinality(B) \in Nat /\ (Cardinality(B) = 0 <=> B = {})
  BY <1>2, FS_CardinalityType, FS_EmptySet
<1> QED
  BY <1>2, <1>3, <1>4, SumOfNone

\* Means that do not fall from A to B and from B to C do not fall from A to C.
LEMMA MeansRise ==
  ASSUME NEW power, Powers(power), NEW A \in SUBSET DOMAIN power,
         NEW B \in SUBSET DOMAIN power, NEW C \in SUBSET DOMAIN power,
         B # {}, ~Falls(power, A, B), ~Falls(power, B, C)
  PROVE  ~Falls(power, A, C)
<1> DEFINE S(T) == SumFunctionOnSet(power, T)
           W(T) == Cardinality(T)
<1>1. /\ \A T \in {A, B, C} : S(T) \in Int /\ W(T) \in Nat
      /\ W(B) \in Nat \ {0}
  BY BlockType
<1>2. /\ Falls(power, A, B) <=> S(A) * W(B) > S(B) * W(A)
      /\ Falls(power, B, C) <=> S(B) * W(C) > S(C) * W(B)
      /\ Falls(power, A, C) <=> S(A) * W(C) > S(C) * W(A)
  BY DEF Falls
<1> HIDE DEF S, W
<1>3. S(A) * W(B) =< S(B) * W(A) /\ S(B) * W(C) =< S(C) * W(B)
  BY <1>1, <1>2
<1>4. S(A) * W(C) =< S(C) * W(A)
  BY <1>1, <1>3, MeansCompare
<1> QED
  BY <1>1, <1>2, <1>4

\* The sum and the size of two blocks pooled.
LEMMA BlocksPooled ==
  ASSUME NEW power, Powers(power), NEW A \in SUBSET DOMAIN power,
         NEW B \in SUBSET DOMAIN power, A \cap B = {}
  PROVE  /\ SumFunctionOnSet(power, A \cup B)
              = SumFunctionOnSet(power, A) + SumFunctionOnSet(power, B)
         /\ Cardinality(A \cup B) = Cardinality(A) + Cardinality(B)
<1>1. IsFiniteSet(A) /\ IsFiniteSet(B) /\ \A x \in A \cup B : power[x] \in Int
  BY BlockType DEF Powers
<1>2. Cardinality(A \cup B) = Cardinality(A) + Cardinality(B) - Cardinality(A \cap B)
  BY <1>1, FS_Union
<1>3. Cardinality(A \cap B) = 0
  BY FS_EmptySet, Zenon
<1>4. Cardinality(A) \in Nat /\ Cardinality(B) \in Nat
  BY BlockType
<1>5. Cardinality(A \cup B) = Cardinality(A) + Cardinality(B)
  BY <1>2, <1>3, <1>4
<1>6. SumFunctionOnSet(power, A \cup B)
        = SumFunctionOnSet(power, A) + SumFunctionOnSet(power, B)
  BY <1>1, SumUnion
<1> QED
  BY <1>5, <1>6

-----------------------------------------------------------------------------
UpTo(B, x)   == {y \in B : y =< x}
FromOn(B, x) == {y \in B : y >= x}

(***************************************************************************)
(* A block is as tight as pooling can make it: no beginning of it has a    *)
(* smaller mean than the whole, so that no end of it has a larger one.     *)
(***************************************************************************)
Packed(power, B) == \A x \in Int : ~Falls(power, B, UpTo(B, x))

\* The upper part of a packed block has no higher mean than the block.
LEMMA EndsOfPacked ==
  ASSUME NEW power, Powers(power), NEW B \in SUBSET DOMAIN power, Packed(power, B),
         NEW x \in Int
  PROVE  ~Falls(power, FromOn(B, x), B)
<1> DEFINE F == FromOn(B, x)
           R == UpTo(B, x - 1)
<1>1. B \in SUBSET Int
  BY TopAssumption DEF Powers, Levels
<1>2. F \in SUBSET DOMAIN power /\ R \in SUBSET DOMAIN power /\ R \cap F = {} /\ R \cup F = B
  BY <1>1 DEF FromOn, UpTo
<1>3. ~Falls(power, B, R)
  BY DEF Packed
<1>4. /\ SumFunctionOnSet(power, B) = SumFunctionOnSet(power, R) + SumFunctionOnSet(power, F)
      /\ Cardinality(B) = Cardinality(R) + Cardinality(F)
  <2> HIDE DEF F, R
  <2> QED
    BY <1>2, BlocksPooled
<1>5. \A T \in {F, R} : SumFunctionOnSet(power, T) \in Int /\ Cardinality(T) \in Nat
  <2> HIDE DEF F, R
  <2> QED
    BY <1>2, BlockType
<1>6. \A s, t \in Int, v, w \in Nat :
        ~((s + t) * v > s * (v + w)) => ~(t * (v + w) > (s + t) * w)
  OBVIOUS
<1> HIDE DEF F, R
<1>7. ~(  (SumFunctionOnSet(power, R) + SumFunctionOnSet(power, F)) * Cardinality(R)
        > SumFunctionOnSet(power, R) * (Cardinality(R) + Cardinality(F)))
  BY <1>3, <1>4 DEF Falls
<1>8. ~Falls(power, F, B)
  BY <1>4, <1>5, <1>6, <1>7 DEF Falls
<1> QED
  BY <1>8 DEF F

\* Pooling a block with a lower one after it packs the two.
LEMMA PackedTogether ==
  ASSUME NEW power, Powers(power),
         NEW A \in SUBSET DOMAIN power, A # {}, Packed(power, A),
         NEW B \in SUBSET DOMAIN power, B # {}, Packed(power, B),
         \A a \in A, b \in B : a < b, Falls(power, A, B)
  PROVE  Packed(power, A \cup B)
<1> SUFFICES ASSUME NEW x \in Int PROVE ~Falls(power, A \cup B, UpTo(A \cup B, x))
  BY DEF Packed
<1>0. A \in SUBSET Int /\ B \in SUBSET Int /\ A \cap B = {}
  BY TopAssumption DEF Powers, Levels
<1> DEFINE S(T) == SumFunctionOnSet(power, T)
           W(T) == Cardinality(T)
           P == UpTo(A, x)
           Q == UpTo(B, x)
<1>1. P \in SUBSET DOMAIN power /\ Q \in SUBSET DOMAIN power /\ P \cap Q = {}
  BY <1>0 DEF UpTo
<1>2. UpTo(A \cup B, x) = P \cup Q
  BY DEF UpTo
<1>3. Q = {} \/ P = A
  BY <1>0 DEF UpTo
<1>4. \A T \in {A, B, P, Q} : S(T) \in Int /\ W(T) \in Nat
  <2> HIDE DEF P, Q
  <2> QED
    BY <1>1, BlockType
<1>5. W(A) > 0 /\ W(B) > 0 /\ (Q = {} => S(Q) = 0 /\ W(Q) = 0)
  <2> HIDE DEF P, Q
  <2> QED
    BY <1>1, BlockType
<1>12. W(Q) =< W(B)
  BY BlockType, FS_Subset DEF UpTo
<1>6. S(A \cup B) = S(A) + S(B) /\ W(A \cup B) = W(A) + W(B)
  BY <1>0, BlocksPooled
<1>7. S(P \cup Q) = S(P) + S(Q) /\ W(P \cup Q) = W(P) + W(Q)
  <2> HIDE DEF P, Q
  <2> QED
    BY <1>1, BlocksPooled
<1>8. S(A) * W(P) =< S(P) * W(A) /\ S(B) * W(Q) =< S(Q) * W(B)
  <2>1. ~Falls(power, A, P) /\ ~Falls(power, B, Q)
    BY DEF Packed
  <2> HIDE DEF P, Q
  <2> QED
    BY <1>4, <2>1 DEF Falls
<1>9. S(B) * W(A) =< S(A) * W(B)
  BY <1>4 DEF Falls
<1> HIDE DEF S, W, P, Q
<1>10. (S(A) + S(B)) * (W(P) + W(Q)) =< (S(P) + S(Q)) * (W(A) + W(B))
  <2>1. CASE Q = {}
    <3>1. S(B) * W(P) =< S(P) * W(B)
      BY <1>4, <1>5, <1>8, <1>9, MeansCompare
    <3>2. S(A) * W(P) + S(B) * W(P) =< S(P) * W(A) + S(P) * W(B)
      BY <1>4, <1>8, <3>1
    <3> QED
      BY <1>4, <1>5, <2>1, <3>2
  <2>2. CASE P = A
    <3>1. S(B) * (W(B) - W(Q)) >= (S(B) - S(Q)) * W(B)
      BY <1>4, <1>8
    <3> DEFINE r == S(B) - S(Q)
               v == W(B) - W(Q)
    <3>2. r * W(A) =< S(A) * v
      <4>1. r \in Int /\ v \in Nat
        BY <1>4, <1>12
      <4>2. r * W(B) =< S(B) * v
        BY <3>1, <1>4
      <4> HIDE DEF r, v
      <4> QED
        BY <1>4, <1>5, <1>9, <4>1, <4>2, MeansCompare
    <3>3. S(B) * W(Q) =< S(Q) * W(B)
      BY <1>8
    <3> QED
      BY <1>4, <2>2, <3>2, <3>3
  <2> QED
    BY <1>3, <2>1, <2>2
<1>11. ~Falls(power, A \cup B, P \cup Q)
  BY <1>4, <1>6, <1>7, <1>10 DEF Falls, S, W
<1> QED
  BY <1>2, <1>11

-----------------------------------------------------------------------------
(***************************************************************************)
(* The blocks of the levels below n: each packed, in their order.          *)
(***************************************************************************)
Stack(power, blocks, n) ==
  /\ blocks \in Seq(SUBSET DOMAIN power)
  /\ \A i \in 1..Len(blocks) : blocks[i] # {} /\ Packed(power, blocks[i])
  /\ \A i, j \in 1..Len(blocks) : i < j => \A x \in blocks[i], y \in blocks[j] : x < y
  /\ \A x : x \in DOMAIN power /\ x < n <=> \E i \in 1..Len(blocks) : x \in blocks[i]

\* The means rise up to the k-th block.
Rising(power, blocks, k) ==
  \A i, j \in 1..k : i < j => ~Falls(power, blocks[i], blocks[j])

\* The blocks from the k-th on are levels, and one block less from the next on.
LEMMA FromType ==
  ASSUME NEW power, NEW n, NEW blocks, Stack(power, blocks, n), NEW k \in 1..Len(blocks)
  PROVE  /\ From(blocks, k) \in SUBSET DOMAIN power /\ From(blocks, k) # {}
         /\ k = Len(blocks) => From(blocks, k) = blocks[k]
         /\ k < Len(blocks) => From(blocks, k) = blocks[k] \cup From(blocks, k + 1)
<1>1. Len(blocks) \in Nat /\ \A i \in 1..Len(blocks) : blocks[i] \in SUBSET DOMAIN power
  BY DEF Stack
<1>2. \A x : x \in From(blocks, k) <=> \E i \in k..Len(blocks) : x \in blocks[i]
  BY DEF From
<1>3. \A i \in k..Len(blocks) : i \in 1..Len(blocks)
  BY <1>1
<1>4. From(blocks, k) \in SUBSET DOMAIN power
  BY <1>1, <1>2, <1>3
<1>5. From(blocks, k) # {}
  <2>1. PICK x \in blocks[k] : TRUE
    BY DEF Stack
  <2>2. k \in k..Len(blocks)
    BY <1>1
  <2> QED
    BY <1>2, <2>1, <2>2
<1>6. k = Len(blocks) => From(blocks, k) = blocks[k]
  <2> SUFFICES ASSUME k = Len(blocks) PROVE From(blocks, k) = blocks[k]
    OBVIOUS
  <2>1. \A i : i \in k..Len(blocks) <=> i = k
    BY <1>1
  <2>2. \A x : x \in From(blocks, k) <=> x \in blocks[k]
    BY <1>2, <2>1
  <2> QED
    BY <1>1, <1>4, <2>2
<1>7. k < Len(blocks) => From(blocks, k) = blocks[k] \cup From(blocks, k + 1)
  <2> SUFFICES ASSUME k < Len(blocks)
               PROVE  From(blocks, k) = blocks[k] \cup From(blocks, k + 1)
    OBVIOUS
  <2>1. \A x : x \in From(blocks, k + 1) <=> \E i \in k + 1..Len(blocks) : x \in blocks[i]
    BY DEF From
  <2>2. k..Len(blocks) = {k} \cup (k + 1..Len(blocks))
    BY <1>1
  <2> HIDE <1>1
  <2> QED
    BY <1>2, <2>1, <2>2
<1> QED
  BY <1>4, <1>5, <1>6, <1>7

\* A new level becomes the last block; the means rise up to the one before it.
LEMMA Pushed ==
  ASSUME NEW power, Powers(power), NEW n \in DOMAIN power, NEW blocks,
         Stack(power, blocks, n), Rising(power, blocks, Len(blocks))
  PROVE  /\ Stack(power, Append(blocks, {n}), n + 1)
         /\ Len(Append(blocks, {n})) > 0
         /\ Rising(power, Append(blocks, {n}), Len(Append(blocks, {n})) - 1)
<1> DEFINE pushed == Append(blocks, {n})
           N == Len(blocks)
<1>1. blocks \in Seq(SUBSET DOMAIN power) /\ N \in Nat
  BY DEF Stack
<1>2. /\ pushed \in Seq(SUBSET DOMAIN power) /\ Len(pushed) = N + 1
      /\ pushed[N + 1] = {n} /\ \A i \in 1..N : pushed[i] = blocks[i]
  BY <1>1
<1>3. n \in Int /\ DOMAIN power \subseteq Int
  BY TopAssumption DEF Powers, Levels
<1>4. Packed(power, {n})
  <2> SUFFICES ASSUME NEW x \in Int PROVE ~Falls(power, {n}, UpTo({n}, x))
    BY DEF Packed
  <2>1. UpTo({n}, x) = {} \/ UpTo({n}, x) = {n}
    BY DEF UpTo
  <2>2. SumFunctionOnSet(power, {n}) \in Int /\ Cardinality({n}) \in Nat
    BY BlockType
  <2>3. SumFunctionOnSet(power, {}) = 0 /\ Cardinality({}) = 0
    BY BlockType
  <2>4. ~Falls(power, {n}, {}) /\ ~Falls(power, {n}, {n})
    BY <2>2, <2>3 DEF Falls
  <2> QED
    BY <2>1, <2>4, Zenon
<1> HIDE DEF pushed
<1>5. \A i \in 1..N + 1 : pushed[i] # {} /\ Packed(power, pushed[i])
  <2>1. \A i \in 1..N : blocks[i] # {} /\ Packed(power, blocks[i])
    BY DEF Stack
  <2>2. \A i \in 1..N + 1 : i \in 1..N \/ i = N + 1
    BY <1>1
  <2> QED
    BY <1>2, <1>4, <2>1, <2>2
<1>6. \A i \in 1..N : \A x \in blocks[i] : x < n
  BY DEF Stack
<1>7. \A i, j \in 1..N + 1 : i < j => \A x \in pushed[i], y \in pushed[j] : x < y
  <2> SUFFICES ASSUME NEW i \in 1..N + 1, NEW j \in 1..N + 1, i < j
               PROVE  \A x \in pushed[i], y \in pushed[j] : x < y
    OBVIOUS
  <2>1. i \in 1..N /\ pushed[i] = blocks[i]
    BY <1>1, <1>2
  <2>2. CASE j = N + 1
    BY <1>2, <1>6, <2>1, <2>2
  <2>3. CASE j # N + 1
    <3>1. j \in 1..N /\ pushed[j] = blocks[j]
      BY <1>1, <1>2, <2>3
    <3> QED
      BY <2>1, <3>1 DEF Stack
  <2> QED
    BY <2>2, <2>3
<1>8. \A x : x \in DOMAIN power /\ x < n + 1 <=> \E i \in 1..N + 1 : x \in pushed[i]
  <2>1. \A x \in DOMAIN power : x < n + 1 <=> x < n \/ x = n
    BY <1>3
  <2>2. \A x : x \in DOMAIN power /\ x < n <=> \E i \in 1..N : x \in blocks[i]
    BY DEF Stack
  <2>3. \A x : (\E i \in 1..N + 1 : x \in pushed[i]) <=> (\E i \in 1..N : x \in blocks[i]) \/ x = n
    BY <1>1, <1>2
  <2> QED
    BY <2>1, <2>2, <2>3
<1>9. Stack(power, pushed, n + 1)
  BY <1>2, <1>5, <1>7, <1>8 DEF Stack
<1>10. Rising(power, pushed, Len(pushed) - 1)
  BY <1>1, <1>2 DEF Rising
<1> QED
  BY <1>1, <1>2, <1>9, <1>10 DEF pushed

\* What the loop stops at.
LEMMA StopsAt ==
  ASSUME NEW power, Powers(power), NEW n, NEW blocks, Stack(power, blocks, n),
         Len(blocks) > 0
  PROVE  LET k == PooledFrom(power, blocks)
         IN /\ k \in 1..Len(blocks)
            /\ k = 1 \/ ~Falls(power, blocks[k - 1], From(blocks, k))
            /\ \A j \in k + 1..Len(blocks) : Falls(power, blocks[j - 1], From(blocks, j))
<1> DEFINE N == Len(blocks)
           Stops == {k \in 1..N : k = 1 \/ ~Falls(power, blocks[k - 1], From(blocks, k))}
<1>1. N \in Nat /\ N > 0
  BY DEF Stack
<1>2. IsFiniteSet(Stops) /\ Stops # {} /\ Stops \subseteq Int
  <2>1. IsFiniteSet(1..N)
    BY <1>1, FS_Interval
  <2>2. 1 \in Stops
    BY <1>1
  <2> QED
    BY <1>1, <2>1, <2>2, FS_Subset
<1>3. Max(Stops) \in Stops /\ \A x \in Stops : Max(Stops) >= x
  <2> HIDE DEF Stops
  <2> QED
    BY <1>2, MaxIsGreatest
<1>4. PooledFrom(power, blocks) = Max(Stops)
  BY DEF PooledFrom
<1> DEFINE k == PooledFrom(power, blocks)
<1> HIDE DEF k
<1>5. k \in Stops /\ \A x \in Stops : k >= x
  BY <1>3, <1>4 DEF k
<1>6. ASSUME NEW j \in k + 1..N PROVE Falls(power, blocks[j - 1], From(blocks, j))
  BY <1>1, <1>5, <1>6
<1> QED
  BY <1>5, <1>6 DEF k

\* All that the loop pools is packed.
LEMMA PoolsPacked ==
  ASSUME NEW power, Powers(power), NEW n, NEW blocks, Stack(power, blocks, n),
         NEW k \in 1..Len(blocks),
         \A j \in k + 1..Len(blocks) : Falls(power, blocks[j - 1], From(blocks, j))
  PROVE  Packed(power, From(blocks, k))
<1> DEFINE N == Len(blocks)
           Bad == {j \in k..N : ~Packed(power, From(blocks, j))}
<1>1. N \in Nat /\ \A i \in 1..N : blocks[i] # {} /\ blocks[i] \in SUBSET DOMAIN power
  BY DEF Stack
<1>2. IsFiniteSet(Bad) /\ Bad \subseteq Int
  <2>1. IsFiniteSet(k..N)
    BY <1>1, FS_Interval
  <2> QED
    BY <1>1, <2>1, FS_Subset
<1>3. ASSUME Bad # {} PROVE FALSE
  <2>1. PICK m \in Bad : \A j \in Bad : m >= j
    <3> HIDE DEF Bad
    <3> QED
      BY <1>2, <1>3, MaxIsGreatest
  <2>2. m \in 1..N /\ ~Packed(power, From(blocks, m))
    BY <1>1, <2>1
  <2>3. CASE m = N
    <3>1. From(blocks, m) = blocks[m]
      BY <2>2, <2>3, FromType
    <3>2. Packed(power, blocks[m])
      BY <2>2 DEF Stack
    <3> QED
      BY <2>2, <3>1, <3>2
  <2>4. CASE m # N
    <3> DEFINE A == blocks[m]
               B == From(blocks, m + 1)
    <3>1. m + 1 \in k + 1..N /\ m + 1 \in 1..N /\ m + 1 \in k..N /\ m < N /\ m + 1 - 1 = m
      BY <1>1, <2>1, <2>4
    <3>2. Falls(power, A, B)
      BY <3>1
    <3>3. B \in SUBSET DOMAIN power /\ B # {}
      BY <3>1, FromType
    <3>4. Packed(power, A) /\ A \in SUBSET DOMAIN power /\ A # {}
      BY <1>1, <2>2 DEF Stack
    <3>5. Packed(power, B)
      BY <1>1, <2>1, <3>1
    <3>6. \A a \in A, b \in B : a < b
      <4>1. \A b \in B : \E i \in m + 1..N : b \in blocks[i]
        BY DEF From
      <4>2. \A i \in m + 1..N : i \in 1..N /\ m < i
        BY <1>1, <2>2
      <4> QED
        BY <2>2, <4>1, <4>2 DEF Stack
    <3>7. Packed(power, A \cup B)
      <4> HIDE DEF A, B
      <4> QED
        BY <3>2, <3>3, <3>4, <3>5, <3>6, PackedTogether
    <3>8. From(blocks, m) = A \cup B
      BY <2>2, <3>1, FromType
    <3> QED
      BY <2>2, <3>7, <3>8
  <2> QED
    BY <2>3, <2>4
<1> QED
  BY <1>1, <1>3

\* Pooling leaves a stack of packed blocks whose means rise.
LEMMA PooledStacks ==
  ASSUME NEW power, Powers(power), NEW n, NEW blocks, Stack(power, blocks, n),
         Len(blocks) > 0, Rising(power, blocks, Len(blocks) - 1)
  PROVE  /\ Stack(power, Pooled(power, blocks), n)
         /\ Rising(power, Pooled(power, blocks), Len(Pooled(power, blocks)))
<1> DEFINE N == Len(blocks)
           k == PooledFrom(power, blocks)
           pooled == Pooled(power, blocks)
           T == From(blocks, k)
<1>1. N \in Nat /\ blocks \in Seq(SUBSET DOMAIN power)
  BY DEF Stack
<1>2. /\ k \in 1..N
      /\ k = 1 \/ ~Falls(power, blocks[k - 1], T)
      /\ \A j \in k + 1..N : Falls(power, blocks[j - 1], From(blocks, j))
  BY StopsAt
<1>3. pooled = Append(SubSeq(blocks, 1, k - 1), T)
  BY DEF Pooled
<1> HIDE DEF k, pooled
<1>4. T \in SUBSET DOMAIN power /\ T # {} /\ Packed(power, T)
  BY <1>2, FromType, PoolsPacked
<1>5. \A x : x \in T <=> \E i \in k..N : x \in blocks[i]
  BY DEF From
<1> HIDE DEF T
<1>6. /\ pooled \in Seq(SUBSET DOMAIN power) /\ Len(pooled) = k
      /\ pooled[k] = T /\ \A i \in 1..k - 1 : pooled[i] = blocks[i]
  <2> DEFINE head == SubSeq(blocks, 1, k - 1)
  <2>1. /\ head \in Seq(SUBSET DOMAIN power) /\ Len(head) = k - 1
        /\ \A i \in 1..k - 1 : head[i] = blocks[i]
    BY <1>1, <1>2
  <2> HIDE DEF head
  <2>2. pooled = Append(head, T)
    BY <1>3 DEF head
  <2> QED
    BY <1>2, <1>4, <2>1, <2>2
<1>7. \A i \in 1..k : i = k \/ (i \in 1..k - 1 /\ i \in 1..N /\ i < k)
  BY <1>1, <1>2
<1>8. \A i \in 1..k : pooled[i] # {} /\ Packed(power, pooled[i])
  <2>1. \A i \in 1..N : blocks[i] # {} /\ Packed(power, blocks[i])
    BY DEF Stack
  <2> QED
    BY <1>4, <1>6, <1>7, <2>1
<1>9. \A i, j \in 1..k : i < j => \A x \in pooled[i], y \in pooled[j] : x < y
  <2> SUFFICES ASSUME NEW i \in 1..k, NEW j \in 1..k, i < j, NEW x \in pooled[i],
                      NEW y \in pooled[j]
               PROVE  x < y
    OBVIOUS
  <2>1. i \in 1..N /\ x \in blocks[i] /\ i < k
    BY <1>2, <1>6, <1>7
  <2>2. PICK h \in 1..N : i < h /\ y \in blocks[h]
    <3>1. CASE j = k
      <4>1. PICK h \in k..N : y \in blocks[h]
        BY <1>5, <1>6, <3>1
      <4> QED
        BY <1>1, <1>2, <2>1, <4>1
    <3>2. CASE j # k
      BY <1>6, <1>7, <3>2
    <3> QED
      BY <3>1, <3>2
  <2> QED
    BY <2>1, <2>2 DEF Stack
<1>10. \A x : (\E i \in 1..k : x \in pooled[i]) <=> (\E i \in 1..N : x \in blocks[i])
  <2> SUFFICES ASSUME NEW x
               PROVE  (\E i \in 1..k : x \in pooled[i]) <=> (\E i \in 1..N : x \in blocks[i])
    OBVIOUS
  <2>1. ASSUME NEW i \in 1..k, x \in pooled[i] PROVE \E h \in 1..N : x \in blocks[h]
    <3>1. CASE i = k
      <4>1. PICK h \in k..N : x \in blocks[h]
        BY <1>5, <1>6, <2>1, <3>1
      <4> QED
        BY <1>1, <1>2, <4>1
    <3> QED
      BY <1>6, <1>7, <2>1, <3>1
  <2>2. ASSUME NEW i \in 1..N, x \in blocks[i] PROVE \E h \in 1..k : x \in pooled[h]
    <3>1. CASE i < k
      <4>1. i \in 1..k - 1 /\ i \in 1..k
        BY <1>1, <1>2, <3>1
      <4> QED
        BY <1>6, <2>2, <4>1
    <3>2. CASE ~(i < k)
      <4>1. i \in k..N /\ k \in 1..k
        BY <1>1, <1>2, <3>2
      <4> QED
        BY <1>5, <1>6, <2>2, <4>1
    <3> QED
      BY <3>1, <3>2
  <2> QED
    BY <2>1, <2>2
<1>11. Stack(power, pooled, n)
  BY <1>6, <1>8, <1>9, <1>10 DEF Stack
<1>12. ASSUME NEW i \in 1..k, NEW j \in 1..k, i < j PROVE ~Falls(power, pooled[i], pooled[j])
  <2>1. i \in 1..k - 1 /\ i \in 1..N - 1 /\ i \in 1..N /\ i < k
    BY <1>1, <1>2, <1>7, <1>12
  <2>2. CASE j # k
    <3>1. j \in 1..k - 1 /\ j \in 1..N - 1
      BY <1>1, <1>2, <1>7, <2>2
    <3> QED
      BY <1>6, <1>12, <2>1, <3>1 DEF Rising
  <2>3. CASE j = k
    <3>1. k # 1 /\ k - 1 \in 1..N - 1 /\ k - 1 \in 1..N
      BY <1>1, <1>2, <2>1
    <3>2. CASE i = k - 1
      BY <1>2, <1>6, <2>1, <2>3, <3>1, <3>2
    <3>3. CASE i # k - 1
      <4> DEFINE A == blocks[i]
                 B == blocks[k - 1]
      <4>1. ~Falls(power, A, B) /\ ~Falls(power, B, T)
        BY <1>2, <2>1, <3>1, <3>3 DEF Rising
      <4>2. /\ A \in SUBSET DOMAIN power /\ B \in SUBSET DOMAIN power
            /\ B # {}
        BY <1>1, <2>1, <3>1 DEF Stack
      <4>4. ~Falls(power, A, T)
        <5> HIDE DEF A, B
        <5> QED
          BY <1>4, <4>1, <4>2, MeansRise
      <4> QED
        BY <1>6, <2>1, <2>3, <4>4
    <3> QED
      BY <3>2, <3>3
  <2> QED
    BY <2>2, <2>3
<1> QED
  BY <1>6, <1>11, <1>12 DEF Rising, pooled

-----------------------------------------------------------------------------
\* g is the course of the loop over the levels below m.
Merges(g, power, m) ==
  g = [n \in 0..m |->
        IF n = 0 THEN <<>>
        ELSE IF n - 1 \in DOMAIN power THEN Pooled(power, Append(g[n - 1], {n - 1}))
        ELSE g[n - 1]]

\* The recursive function of the loop exists: it is defined up to every level.
LEMMA MergesExist ==
  ASSUME NEW power PROVE \E g : Merges(g, power, Top + 1)
<1> DEFINE Bad == {m \in 0..Top + 1 : ~\E g : Merges(g, power, m)}
<1>1. IsFiniteSet(Bad) /\ Bad \subseteq Int
  <2>1. IsFiniteSet(0..Top + 1)
    BY TopAssumption, FS_Interval
  <2> QED
    BY TopAssumption, <2>1, FS_Subset
<1>2. ASSUME Bad # {} PROVE FALSE
  <2>1. PICK m \in Bad : \A l \in Bad : m =< l
    <3> HIDE DEF Bad
    <3> QED
      BY <1>1, <1>2, MinIsLeast
  <2>2. CASE m = 0
    <3> DEFINE g == [n \in 0..0 |-> <<>>]
    <3>1. Merges(g, power, 0)
      BY DEF Merges
    <3> QED
      BY <2>1, <2>2, <3>1
  <2>3. CASE m # 0
    <3>1. m - 1 \in 0..Top + 1 /\ m \in Nat /\ m - 1 \notin Bad
      BY TopAssumption, <2>1, <2>3
    <3>2. PICK h : Merges(h, power, m - 1)
      BY <3>1
    <3> DEFINE after(n, blocks) ==
                 IF n - 1 \in DOMAIN power THEN Pooled(power, Append(blocks, {n - 1})) ELSE blocks
               g == [n \in 0..m |-> IF n = m THEN after(m, h[m - 1]) ELSE h[n]]
    <3>3. /\ \A n \in 0..m - 1 : g[n] = h[n]
          /\ g[m] = after(m, h[m - 1]) /\ m - 1 \in 0..m - 1 /\ m \in 0..m
      <4> HIDE DEF after
      <4> QED
        BY <3>1, <2>3
    <3>4. \A n \in 0..m - 1 : h[n] = IF n = 0 THEN <<>> ELSE after(n, h[n - 1])
      BY <3>2, Zenon DEF Merges
    <3>5. \A n \in 0..m : n = m \/ (n \in 0..m - 1 /\ (n # 0 => n - 1 \in 0..m - 1))
      BY <3>1
    <3>6. \A n \in 0..m : g[n] = IF n = 0 THEN <<>> ELSE after(n, g[n - 1])
      <4> HIDE DEF after, g
      <4> QED
        BY <2>3, <3>3, <3>4, <3>5
    <3>7. g = [n \in 0..m |-> IF n = 0 THEN <<>> ELSE after(n, g[n - 1])]
      <4>1. g = [n \in 0..m |-> g[n]]
        OBVIOUS
      <4> HIDE DEF after, g
      <4> QED
        BY <3>6, <4>1
    <3>8. Merges(g, power, m)
      <4> HIDE DEF g
      <4> QED
        BY <3>7 DEF Merges
    <3> QED
      BY <2>1, <3>8
  <2> QED
    BY <2>2, <2>3
<1>3. Top + 1 \in 0..Top + 1
  BY TopAssumption
<1> QED
  BY <1>2, <1>3

\* What isotonic_regression pools is what its loop has after the last level.
LEMMA BlocksOfMerges ==
  ASSUME NEW power
  PROVE  \E g : Merges(g, power, Top + 1) /\ BlocksOf(power) = g[Top + 1]
<1> DEFINE g == CHOOSE g : Merges(g, power, Top + 1)
<1>1. Merges(g, power, Top + 1)
  BY MergesExist
<1>2. BlocksOf(power) = g[Top + 1]
  BY DEF BlocksOf, Merges
<1> QED
  BY <1>1, <1>2

\* The pooled blocks are packed and ordered, contain all levels, and their means
\* rise.
LEMMA BlocksStack ==
  ASSUME NEW power, Powers(power)
  PROVE  /\ Stack(power, BlocksOf(power), Top + 1)
         /\ Rising(power, BlocksOf(power), Len(BlocksOf(power)))
<1>1. PICK g : Merges(g, power, Top + 1) /\ BlocksOf(power) = g[Top + 1]
  BY BlocksOfMerges
<1> DEFINE Good(n) == Stack(power, g[n], n) /\ Rising(power, g[n], Len(g[n]))
           Bad == {n \in 0..Top + 1 : ~Good(n)}
<1>2. IsFiniteSet(Bad) /\ Bad \subseteq Int
  <2>1. IsFiniteSet(0..Top + 1)
    BY TopAssumption, FS_Interval
  <2> QED
    BY TopAssumption, <2>1, FS_Subset
<1>3. \A n \in 0..Top + 1 :
        g[n] = IF n = 0 THEN <<>>
               ELSE IF n - 1 \in DOMAIN power THEN Pooled(power, Append(g[n - 1], {n - 1}))
               ELSE g[n - 1]
  BY <1>1, Zenon DEF Merges
<1>4. DOMAIN power \subseteq 0..Top
  BY DEF Powers, Levels
<1>5. ASSUME Bad # {} PROVE FALSE
  <2>1. PICK m \in Bad : \A l \in Bad : m =< l
    <3> HIDE DEF Bad
    <3> QED
      BY <1>2, <1>5, MinIsLeast
  <2>2. CASE m = 0
    <3>1. g[0] = <<>>
      BY <1>3, <2>1, <2>2
    <3>2. Stack(power, <<>>, 0)
      BY TopAssumption, <1>4 DEF Stack
    <3>3. Rising(power, <<>>, Len(<<>>))
      BY DEF Rising
    <3> QED
      BY <2>1, <2>2, <3>1, <3>2, <3>3
  <2>3. CASE m # 0
    <3> DEFINE n == m - 1
    <3>1. n \in 0..Top + 1 /\ n + 1 = m /\ n \notin Bad
      BY TopAssumption, <2>1, <2>3
    <3>2. Good(n)
      BY <3>1
    <3>3. g[m] = IF n \in DOMAIN power THEN Pooled(power, Append(g[n], {n})) ELSE g[n]
      BY <1>3, <2>1, <2>3
    <3> HIDE DEF n, Bad
    <3>4. CASE n \in DOMAIN power
      <4>1. /\ Stack(power, Append(g[n], {n}), m)
            /\ Len(Append(g[n], {n})) > 0
            /\ Rising(power, Append(g[n], {n}), Len(Append(g[n], {n})) - 1)
        BY <3>1, <3>2, <3>4, Pushed
      <4>2. Good(m)
        <5> DEFINE pushed == Append(g[n], {n})
        <5> HIDE DEF pushed
        <5>1. /\ Stack(power, pushed, m) /\ Len(pushed) > 0
              /\ Rising(power, pushed, Len(pushed) - 1)
          BY <4>1 DEF pushed
        <5>2. g[m] = Pooled(power, pushed)
          BY <3>3, <3>4 DEF pushed
        <5> QED
          BY <5>1, <5>2, PooledStacks
      <4> QED
        BY <2>1, <4>2 DEF Bad
    <3>5. CASE n \notin DOMAIN power
      <4>1. g[m] = g[n]
        BY <3>3, <3>5
      <4>2. \A x : x \in DOMAIN power /\ x < m <=> x \in DOMAIN power /\ x < n
        BY TopAssumption, <1>4, <3>1, <3>5
      <4>3. Stack(power, g[n], m)
        BY <3>2, <4>2 DEF Stack
      <4> QED
        BY <2>1, <3>2, <4>1, <4>3 DEF Bad
    <3> QED
      BY <3>4, <3>5
  <2> QED
    BY <2>2, <2>3
<1>6. Top + 1 \in 0..Top + 1
  BY TopAssumption
<1> QED
  BY <1>1, <1>5, <1>6

-----------------------------------------------------------------------------
\* Rounding down keeps the order of two means.
LEMMA RoundedMeans ==
  ASSUME NEW s1 \in Int, NEW s2 \in Int, NEW w1 \in Nat \ {0}, NEW w2 \in Nat \ {0},
         s1 * w2 =< s2 * w1
  PROVE  s1 \div w1 =< s2 \div w2
<1> DEFINE p == s1 \div w1
           q == s2 \div w2
<1>1. p \in Int /\ w1 * p =< s1
  OBVIOUS
<1>2. q \in Int /\ s2 < w2 * (q + 1)
  OBVIOUS
<1> HIDE DEF p, q
<1>3. w2 * (w1 * p) =< s1 * w2
  BY <1>1
<1>4. s2 * w1 < w1 * (w2 * (q + 1))
  BY <1>2
<1>5. (w1 * w2) * p < (w1 * w2) * (q + 1)
  BY <1>1, <1>2, <1>3, <1>4
<1>6. p < q + 1
  <2>1. w1 * w2 > 0 /\ w1 * w2 \in Int
    OBVIOUS
  <2> QED
    BY <1>1, <1>2, <1>5, <2>1, Cancel
<1> QED
  BY <1>1, <1>2, <1>6 DEF p, q

\* Means that do not fall do not fall once they are written as whole numbers.
LEMMA MeanOverRises ==
  ASSUME NEW power, Powers(power), NEW A \in SUBSET DOMAIN power, A # {},
         NEW B \in SUBSET DOMAIN power, B # {}, ~Falls(power, A, B)
  PROVE  MeanOver(power, A) =< MeanOver(power, B)
<1> DEFINE S(T) == SumFunctionOnSet(power, T)
           W(T) == Cardinality(T)
<1>1. \A T \in {A, B} : S(T) \in Int /\ W(T) \in Nat \ {0}
  BY BlockType
<1>2. /\ Falls(power, A, B) <=> S(A) * W(B) > S(B) * W(A)
      /\ MeanOver(power, A) = S(A) \div W(A) /\ MeanOver(power, B) = S(B) \div W(B)
  BY DEF Falls, MeanOver
<1> HIDE DEF S, W
<1>3. S(A) * W(B) =< S(B) * W(A)
  BY <1>1, <1>2
<1> QED
  BY <1>1, <1>2, <1>3, RoundedMeans

\* A mean is a number.
LEMMA MeanOverType ==
  ASSUME NEW power, Powers(power), NEW A \in SUBSET DOMAIN power, A # {}
  PROVE  MeanOver(power, A) \in Int
BY BlockType DEF MeanOver

\* What is put together of pieces with no larger mean has no larger one, and the
\* same the other way round.
LEMMA Pieces ==
  ASSUME NEW power, Powers(power), NEW B \in SUBSET DOMAIN power,
         NEW L, IsFiniteSet(L), NEW piece \in [L -> SUBSET DOMAIN power],
         \A l, m \in L : l # m => piece[l] \cap piece[m] = {}
  PROVE  /\ (\A l \in L : ~Falls(power, B, piece[l]))
              => ~Falls(power, B, UNION {piece[l] : l \in L})
         /\ (\A l \in L : ~Falls(power, piece[l], B))
              => ~Falls(power, UNION {piece[l] : l \in L}, B)
<1> DEFINE All(M) == UNION {piece[l] : l \in M}
           Above == \A l \in L : ~Falls(power, B, piece[l])
           Below == \A l \in L : ~Falls(power, piece[l], B)
           Good == {M \in SUBSET L : /\ Above => ~Falls(power, B, All(M))
                                     /\ Below => ~Falls(power, All(M), B)}
           S(T) == SumFunctionOnSet(power, T)
           W(T) == Cardinality(T)
<1>1. ASSUME NEW M \in SUBSET L, \A K \in SUBSET M : K # M => K \in Good
      PROVE  M \in Good
  <2>1. CASE M = {}
    <3>1. All(M) = {}
      BY <2>1
    <3>2. S({}) = 0 /\ W({}) = 0 /\ S(B) \in Int /\ W(B) \in Nat
      BY BlockType
    <3>3. ~Falls(power, B, {}) /\ ~Falls(power, {}, B)
      BY <3>2 DEF Falls
    <3> QED
      BY <3>1, <3>3, Zenon
  <2>2. CASE M # {}
    <3>1. PICK l \in M : TRUE
      BY <2>2
    <3> DEFINE K == M \ {l}
               P == All(K)
               Q == piece[l]
    <3>2. K \in Good
      BY <1>1, <3>1
    <3>3. P \in SUBSET DOMAIN power /\ Q \in SUBSET DOMAIN power /\ P \cap Q = {}
      BY <3>1
    <3>4. All(M) = P \cup Q
      BY <3>1
    <3> HIDE DEF P, Q, All
    <3>5. \A T \in {B, P, Q} : S(T) \in Int /\ W(T) \in Nat
      BY <3>3, BlockType
    <3>6. S(P \cup Q) = S(P) + S(Q) /\ W(P \cup Q) = W(P) + W(Q)
      BY <3>3, BlocksPooled
    <3>7. \A T : /\ Falls(power, B, T) <=> S(B) * W(T) > S(T) * W(B)
                 /\ Falls(power, T, B) <=> S(T) * W(B) > S(B) * W(T)
      BY DEF Falls
    <3> HIDE DEF S, W
    <3>8. ASSUME ~Falls(power, B, P), ~Falls(power, B, Q) PROVE ~Falls(power, B, P \cup Q)
      <4>1. S(B) * W(P) + S(B) * W(Q) =< S(P) * W(B) + S(Q) * W(B)
        BY <3>5, <3>7, <3>8
      <4>2. S(B) * (W(P) + W(Q)) =< (S(P) + S(Q)) * W(B)
        BY <3>5, <4>1
      <4> QED
        BY <3>5, <3>6, <3>7, <4>2
    <3>9. ASSUME ~Falls(power, P, B), ~Falls(power, Q, B) PROVE ~Falls(power, P \cup Q, B)
      <4>1. S(P) * W(B) + S(Q) * W(B) =< S(B) * W(P) + S(B) * W(Q)
        BY <3>5, <3>7, <3>9
      <4>2. (S(P) + S(Q)) * W(B) =< S(B) * (W(P) + W(Q))
        BY <3>5, <4>1
      <4> QED
        BY <3>5, <3>6, <3>7, <4>2
    <3>10. /\ Above => ~Falls(power, B, P) /\ ~Falls(power, B, Q)
           /\ Below => ~Falls(power, P, B) /\ ~Falls(power, Q, B)
      BY <3>1, <3>2 DEF P, Q
    <3> HIDE DEF Above, Below
    <3> QED
      BY <3>4, <3>8, <3>9, <3>10
  <2> QED
    BY <2>1, <2>2
<1>2. SUBSET L \subseteq Good
  <2> HIDE DEF Good
  <2> QED BY <1>1, SubsetInduction
<1> QED
  BY <1>2

-----------------------------------------------------------------------------
(***************************************************************************)
(* The block of a level, from its first level on, has the least mean of    *)
(* all that begins there, and up to its last level the greatest mean of    *)
(* all that ends there.                                                    *)
(***************************************************************************)
Between(power, a, b) == {x \in DOMAIN power : a =< x /\ x =< b}

\* Every level is in one of the blocks, and has its mean.
LEMMA BlockOfLevel ==
  ASSUME NEW power, Powers(power), NEW u \in DOMAIN power
  PROVE  \E i \in 1..Len(BlocksOf(power)) :
           /\ u \in BlocksOf(power)[i]
           /\ IsotonicRegression(power)[u] = MeanOver(power, BlocksOf(power)[i])
<1> DEFINE blocks == BlocksOf(power)
           N == Len(blocks)
<1>1. Stack(power, blocks, Top + 1)
  BY BlocksStack
<1>2. blocks \in Seq(SUBSET DOMAIN power) /\ N \in Nat /\ DOMAIN blocks = 1..N
  BY <1>1 DEF Stack
<1>3. DOMAIN power \subseteq Int /\ u < Top + 1
  BY TopAssumption DEF Powers, Levels
<1>4. PICK i \in 1..N : u \in blocks[i]
  BY <1>1, <1>3 DEF Stack
<1>5. \A j \in 1..N : u \in blocks[j] => j = i
  <2> SUFFICES ASSUME NEW j \in 1..N, u \in blocks[j], j # i PROVE FALSE
    OBVIOUS
  <2>1. i < j \/ j < i
    BY <1>2
  <2> QED
    BY <1>1, <1>3, <1>4, <2>1 DEF Stack
<1> DEFINE B == CHOOSE block \in Range(blocks) : u \in block
<1>6. B = blocks[i]
  <2> HIDE DEF blocks
  <2>1. \A block : block \in Range(blocks) <=> \E j \in 1..N : block = blocks[j]
    BY <1>2 DEF Range
  <2>2. B \in Range(blocks) /\ u \in B
    BY <1>4, <2>1
  <2> HIDE DEF B
  <2> QED
    BY <1>5, <2>1, <2>2
<1>7. IsotonicRegression(power)[u] = MeanOver(power, B)
  BY DEF IsotonicRegression
<1> QED
  BY <1>4, <1>6, <1>7, Zenon

\* Every block of the regression is extreme in this way.
LEMMA BlockIsExtreme ==
  ASSUME NEW power, Powers(power), NEW i \in 1..Len(BlocksOf(power))
  PROVE  LET B == BlocksOf(power)[i]
         IN /\ \E a \in B : /\ \A x \in B : a =< x
                            /\ \A b \in DOMAIN power : ~Falls(power, B, Between(power, a, b))
            /\ \E b \in B : /\ \A x \in B : x =< b
                            /\ \A a \in DOMAIN power : ~Falls(power, Between(power, a, b), B)
<1> DEFINE blocks == BlocksOf(power)
           N == Len(blocks)
           B == blocks[i]
<1>1. Stack(power, blocks, Top + 1) /\ Rising(power, blocks, N)
  BY BlocksStack
<1> HIDE DEF blocks
<1>2. blocks \in Seq(SUBSET DOMAIN power) /\ N \in Nat
  BY <1>1 DEF Stack
<1>3. /\ \A j \in 1..N : /\ blocks[j] \in SUBSET DOMAIN power /\ blocks[j] # {}
                         /\ Packed(power, blocks[j])
      /\ \A j, l \in 1..N : j < l => \A x \in blocks[j], y \in blocks[l] : x < y
  BY <1>1, <1>2 DEF Stack
<1>4. DOMAIN power \subseteq Int
  BY TopAssumption DEF Powers, Levels
<1>5. \A x \in DOMAIN power : \E j \in 1..N : x \in blocks[j]
  <2>1. \A x \in DOMAIN power : x < Top + 1
    BY TopAssumption DEF Powers, Levels
  <2> QED
    BY <1>1, <2>1 DEF Stack
<1>6. \A j, l \in 1..N : j # l => \A x \in blocks[j] : x \notin blocks[l]
  <2> SUFFICES ASSUME NEW j \in 1..N, NEW l \in 1..N, j # l, NEW x \in blocks[j],
                      x \in blocks[l]
               PROVE  FALSE
    OBVIOUS
  <2>1. j < l \/ l < j
    BY <1>2
  <2>2. x \in Int
    BY <1>3, <1>4
  <2> QED
    BY <1>3, <2>1, <2>2
<1>7. i \in 1..N /\ B \in SUBSET DOMAIN power /\ B # {} /\ IsFiniteSet(B) /\ B \subseteq Int
  BY <1>3, <1>4, BlockType DEF blocks
<1>8. \A j \in 1..N : /\ i < j => ~Falls(power, B, blocks[j])
                      /\ j < i => ~Falls(power, blocks[j], B)
  BY <1>1, <1>7 DEF Rising
<1> HIDE DEF B
<1>9. ~Falls(power, B, B)
  BY <1>7, BlockType DEF Falls
<1>10. \E a \in B : /\ \A x \in B : a =< x
                    /\ \A b \in DOMAIN power : ~Falls(power, B, Between(power, a, b))
  <2>1. PICK a \in B : \A x \in B : a =< x
    BY <1>7, MinIsLeast
  <2>2. ASSUME NEW b \in DOMAIN power PROVE ~Falls(power, B, Between(power, a, b))
    <3> DEFINE L == i..N
               piece == [j \in L |-> UpTo(blocks[j], b)]
    <3>1. IsFiniteSet(L) /\ \A j \in L : j \in 1..N /\ (j = i \/ i < j)
      BY <1>2, <1>7, FS_Interval
    <3>2. piece \in [L -> SUBSET DOMAIN power]
      BY <1>3, <3>1 DEF UpTo
    <3>3. \A j, l \in L : j # l => piece[j] \cap piece[l] = {}
      BY <1>6, <3>1 DEF UpTo
    <3>4. ASSUME NEW j \in L PROVE ~Falls(power, B, piece[j])
      <4>1. ~Falls(power, B, blocks[j])
        BY <1>8, <1>9, <3>1 DEF B
      <4>2. ~Falls(power, blocks[j], UpTo(blocks[j], b))
        BY <1>3, <1>4, <3>1 DEF Packed
      <4>3. ~Falls(power, B, UpTo(blocks[j], b))
        <5>1. UpTo(blocks[j], b) \in SUBSET DOMAIN power
          BY <1>3, <3>1 DEF UpTo
        <5> QED
          BY <1>3, <1>7, <3>1, <4>1, <4>2, <5>1, MeansRise
      <4> QED
        BY <4>3
    <3>5. ~Falls(power, B, UNION {piece[j] : j \in L})
      <4> HIDE DEF L, piece
      <4> QED
        BY <1>7, <3>1, <3>2, <3>3, <3>4, Pieces
    <3>6. Between(power, a, b) = UNION {piece[j] : j \in L}
      <4>1. \A x : x \in UNION {piece[j] : j \in L}
                     <=> \E j \in L : x \in blocks[j] /\ x =< b
        BY DEF UpTo
      <4>2. ASSUME NEW j \in L, NEW x \in blocks[j], x =< b PROVE x \in Between(power, a, b)
        <5>1. a =< x
          BY <1>3, <1>4, <1>7, <2>1, <3>1 DEF B
        <5> QED
          BY <1>3, <3>1, <4>2, <5>1 DEF Between
      <4>3. ASSUME NEW x \in Between(power, a, b) PROVE \E j \in L : x \in blocks[j] /\ x =< b
        <5>1. x \in DOMAIN power /\ a =< x /\ x =< b
          BY DEF Between
        <5>2. PICK j \in 1..N : x \in blocks[j]
          BY <1>5, <5>1
        <5>3. ~(j < i)
          BY <1>3, <1>4, <1>7, <2>1, <5>1, <5>2 DEF B
        <5> QED
          BY <1>2, <1>7, <5>1, <5>2, <5>3
      <4> HIDE DEF L, piece
      <4> QED
        BY <4>1, <4>2, <4>3
    <3> QED
      BY <3>5, <3>6, Zenon
  <2> QED
    BY <2>1, <2>2
<1>11. \E b \in B : /\ \A x \in B : x =< b
                    /\ \A a \in DOMAIN power : ~Falls(power, Between(power, a, b), B)
  <2>1. PICK b \in B : \A x \in B : x =< b
    BY <1>7, MaxIsGreatest
  <2>2. ASSUME NEW a \in DOMAIN power PROVE ~Falls(power, Between(power, a, b), B)
    <3> DEFINE L == 1..i
               piece == [j \in L |-> FromOn(blocks[j], a)]
    <3>1. IsFiniteSet(L) /\ \A j \in L : j \in 1..N /\ (j = i \/ j < i)
      <4>1. i \in Int /\ 1 \in Int
        BY <1>2, <1>7
      <4>2. IsFiniteSet(L)
        BY <4>1, FS_Interval
      <4> QED
        BY <1>2, <1>7, <4>2
    <3>2. piece \in [L -> SUBSET DOMAIN power]
      BY <1>3, <3>1 DEF FromOn
    <3>3. \A j, l \in L : j # l => piece[j] \cap piece[l] = {}
      BY <1>6, <3>1 DEF FromOn
    <3>4. ASSUME NEW j \in L PROVE ~Falls(power, piece[j], B)
      <4>1. ~Falls(power, blocks[j], B)
        BY <1>8, <1>9, <3>1 DEF B
      <4>2. ~Falls(power, FromOn(blocks[j], a), blocks[j])
        BY <1>3, <1>4, <3>1, EndsOfPacked
      <4>3. ~Falls(power, FromOn(blocks[j], a), B)
        <5>1. FromOn(blocks[j], a) \in SUBSET DOMAIN power
          BY <1>3, <3>1 DEF FromOn
        <5> QED
          BY <1>3, <1>7, <3>1, <4>1, <4>2, <5>1, MeansRise
      <4> QED
        BY <4>3
    <3>5. ~Falls(power, UNION {piece[j] : j \in L}, B)
      <4> HIDE DEF L, piece
      <4> QED
        BY <1>7, <3>1, <3>2, <3>3, <3>4, Pieces
    <3>6. Between(power, a, b) = UNION {piece[j] : j \in L}
      <4>1. \A x : x \in UNION {piece[j] : j \in L}
                     <=> \E j \in L : x \in blocks[j] /\ x >= a
        BY DEF FromOn
      <4>2. ASSUME NEW j \in L, NEW x \in blocks[j], x >= a PROVE x \in Between(power, a, b)
        <5>1. x =< b
          BY <1>3, <1>4, <1>7, <2>1, <3>1 DEF B
        <5>2. a =< x
          BY <1>3, <1>4, <3>1, <4>2
        <5> QED
          BY <1>3, <3>1, <5>1, <5>2 DEF Between
      <4>3. ASSUME NEW x \in Between(power, a, b) PROVE \E j \in L : x \in blocks[j] /\ x >= a
        <5>1. x \in DOMAIN power /\ a =< x /\ x =< b
          BY DEF Between
        <5>2. PICK j \in 1..N : x \in blocks[j]
          BY <1>5, <5>1
        <5>3. ~(i < j)
          BY <1>3, <1>4, <1>7, <2>1, <5>1, <5>2 DEF B
        <5>4. j \in L /\ x >= a
          BY <1>2, <1>4, <1>7, <5>1, <5>3
        <5> QED
          BY <5>2, <5>4
      <4> HIDE DEF L, piece
      <4> QED
        BY <4>1, <4>2, <4>3
    <3> QED
      BY <3>5, <3>6, Zenon
  <2> QED
    BY <2>1, <2>2
<1> QED
  BY <1>10, <1>11 DEF B, blocks

\* The greatest of a finite set of numbers, and the least, are characterised by
\* being in it and bounding it.
LEMMA MaxIs ==
  ASSUME NEW S, IsFiniteSet(S), S \subseteq Int, NEW m \in S, \A x \in S : x =< m
  PROVE  Max(S) = m
<1>1. Max(S) \in S /\ Max(S) >= m
  BY MaxIsGreatest
<1> DEFINE max == Max(S)
<1> HIDE DEF max
<1>2. max \in S /\ max >= m
  BY <1>1 DEF max
<1>3. max \in Int /\ m \in Int /\ max =< m
  BY <1>2
<1> QED
  BY <1>2, <1>3 DEF max

\* The values of an expression over a finite set.
LEMMA ValuesFinite ==
  ASSUME NEW f, IsFiniteSet(DOMAIN f), DOMAIN f # {}, \A x \in DOMAIN f : f[x] \in Int
  PROVE  /\ IsFiniteSet({f[x] : x \in DOMAIN f}) /\ {f[x] : x \in DOMAIN f} # {}
         /\ {f[x] : x \in DOMAIN f} \subseteq Int
<1>1. IsFiniteSet(Range(f))
  BY RangeFinite
<1>2. Range(f) = {f[x] : x \in DOMAIN f}
  BY DEF Range
<1> QED
  BY <1>1, <1>2

\* Pooling adjacent violators computes the least-squares non-decreasing fit, for any
\* observed levels and any powers.
LEMMA RegressionFits ==
  ASSUME NEW power, Powers(power) PROVE IsotonicRegression(power) = IsotonicFit(power)
<1> DEFINE Mean(a, b) == MeanOver(power, Between(power, a, b))
           LeastFrom(a, u) == Min({Mean(a, b) : b \in {x \in DOMAIN power : u =< x}})
<1>1. DOMAIN IsotonicRegression(power) = DOMAIN power
      /\ DOMAIN IsotonicFit(power) = DOMAIN power
  BY DEF IsotonicRegression, IsotonicFit
<1>2. DOMAIN power \subseteq Int /\ IsFiniteSet(DOMAIN power)
  BY TopAssumption, BlockType DEF Powers, Levels
<1>3. ASSUME NEW u \in DOMAIN power
      PROVE  IsotonicRegression(power)[u] = IsotonicFit(power)[u]
  <2> DEFINE As == {x \in DOMAIN power : x =< u}
             Bs == {x \in DOMAIN power : u =< x}
  <2>1. PICK i \in 1..Len(BlocksOf(power)) :
               /\ u \in BlocksOf(power)[i]
               /\ IsotonicRegression(power)[u] = MeanOver(power, BlocksOf(power)[i])
    BY BlockOfLevel
  <2> DEFINE B == BlocksOf(power)[i]
  <2>2. /\ \E a \in B : /\ \A x \in B : a =< x
                        /\ \A b \in DOMAIN power : ~Falls(power, B, Between(power, a, b))
        /\ \E b \in B : /\ \A x \in B : x =< b
                        /\ \A a \in DOMAIN power : ~Falls(power, Between(power, a, b), B)
    BY BlockIsExtreme
  <2>3. u \in B /\ B \in SUBSET DOMAIN power
    BY <2>1, BlocksStack DEF Stack
  <2> DEFINE mean == MeanOver(power, B)
  <2>4. IsotonicRegression(power)[u] = mean /\ mean \in Int
    BY <2>1, <2>3, MeanOverType
  <2> HIDE DEF B
  <2>5. PICK first \in B : /\ first =< u
                           /\ \A b \in DOMAIN power : ~Falls(power, B, Between(power, first, b))
    BY <2>2, <2>3
  <2>6. PICK last \in B : /\ u =< last
                          /\ \A a \in DOMAIN power : ~Falls(power, Between(power, a, last), B)
    BY <2>2, <2>3
  <2>7. first \in As /\ last \in Bs /\ u \in As /\ u \in Bs
    BY <1>2, <2>3, <2>5, <2>6
  <2>8. \A a \in As, b \in Bs : /\ Between(power, a, b) \in SUBSET DOMAIN power
                                /\ Between(power, a, b) # {}
                                /\ Mean(a, b) \in Int
    <3>1. \A a \in As, b \in Bs : Between(power, a, b) \in SUBSET DOMAIN power
      BY DEF Between
    <3>2. \A a \in As, b \in Bs : u \in Between(power, a, b)
      BY DEF Between
    <3> QED
      BY <3>1, <3>2, MeanOverType
  <2>9. \A b \in Bs : mean =< Mean(first, b)
    BY <2>3, <2>5, <2>7, <2>8, MeanOverRises
  <2>10. \A a \in As : Mean(a, last) =< mean
    BY <2>3, <2>6, <2>7, <2>8, MeanOverRises
  <2>11. IsFiniteSet(As) /\ IsFiniteSet(Bs)
    BY <1>2, FS_Subset
  <2> HIDE DEF As, Bs, Mean, mean
  <2>12. ASSUME NEW a \in As
         PROVE  /\ Min({Mean(a, b) : b \in Bs}) \in {Mean(a, b) : b \in Bs}
                /\ \A c \in Bs : Min({Mean(a, b) : b \in Bs}) =< Mean(a, c)
    <3> DEFINE f == [b \in Bs |-> Mean(a, b)]
               S == {Mean(a, b) : b \in Bs}
    <3>1. S = {f[b] : b \in DOMAIN f}
      OBVIOUS
    <3>2. IsFiniteSet(DOMAIN f) /\ DOMAIN f # {} /\ \A b \in DOMAIN f : f[b] \in Int
      BY <2>7, <2>8, <2>11
    <3>3. IsFiniteSet(S) /\ S # {} /\ S \subseteq Int
      <4> HIDE DEF f, S
      <4> QED
        BY <3>1, <3>2, ValuesFinite
    <3>4. Min(S) \in S /\ \A x \in S : Min(S) =< x
      <4> HIDE DEF S
      <4> QED
        BY <3>3, MinIsLeast
    <3> QED
      BY <3>4
  <2> DEFINE Least(a) == Min({Mean(a, b) : b \in Bs})
  <2>13. \A a \in As : Least(a) \in Int /\ Least(a) =< mean
    <3> SUFFICES ASSUME NEW a \in As PROVE Least(a) \in Int /\ Least(a) =< mean
      OBVIOUS
    <3>1. Least(a) \in Int /\ Least(a) =< Mean(a, last)
      BY <2>7, <2>8, <2>12
    <3> HIDE DEF Least
    <3> QED
      BY <2>4, <2>7, <2>8, <2>10, <3>1
  <2>14. Least(first) = mean
    <3>1. PICK b \in Bs : Least(first) = Mean(first, b)
      BY <2>7, <2>12
    <3>2. mean =< Least(first)
      BY <2>9, <3>1
    <3> HIDE DEF Least
    <3> QED
      BY <2>4, <2>7, <2>13, <3>2
  <2>15. Max({Least(a) : a \in As}) = mean
    <3> DEFINE f == [a \in As |-> Least(a)]
               S == {Least(a) : a \in As}
    <3> HIDE DEF Least
    <3>1. S = {f[a] : a \in DOMAIN f}
      OBVIOUS
    <3>2. IsFiniteSet(DOMAIN f) /\ DOMAIN f # {} /\ \A a \in DOMAIN f : f[a] \in Int
      BY <2>7, <2>11, <2>13
    <3>3. IsFiniteSet(S) /\ S # {} /\ S \subseteq Int
      <4> HIDE DEF f, S
      <4> QED
        BY <3>1, <3>2, ValuesFinite
    <3>4. mean \in S /\ \A x \in S : x =< mean
      BY <2>7, <2>13, <2>14
    <3> HIDE DEF S
    <3>5. Max(S) = mean
      BY <3>3, <3>4, MaxIs
    <3> QED
      BY <3>5 DEF S
  <2>16. IsotonicFit(power)[u] = Max({Least(a) : a \in As})
    BY Zenon DEF IsotonicFit, Between, As, Bs, Mean
  <2> QED
    BY <2>4, <2>15, <2>16
<1>4. /\ IsotonicRegression(power) = [u \in DOMAIN power |-> IsotonicRegression(power)[u]]
      /\ IsotonicFit(power) = [u \in DOMAIN power |-> IsotonicFit(power)[u]]
  BY DEF IsotonicRegression, IsotonicFit
<1> QED
  BY <1>3, <1>4

-----------------------------------------------------------------------------
LevelsType == [Levels -> Nat \cup {Unknown}]
PowersIn(levels) == [u \in Observed(levels) |-> levels[u]]

\* The powers of the levels that were observed.
LEMMA PowersInType ==
  ASSUME NEW levels \in LevelsType
  PROVE  /\ Powers(PowersIn(levels)) /\ DOMAIN PowersIn(levels) = Observed(levels)
         /\ \A u \in Observed(levels) : PowersIn(levels)[u] \in Nat
BY DEF LevelsType, Powers, PowersIn, Observed, Unknown

\* The fit does not fall and is not negative.
LEMMA FitRises ==
  ASSUME NEW power, Powers(power), \A u \in DOMAIN power : power[u] \in Nat
  PROVE  /\ IsotonicRegression(power) \in [DOMAIN power -> Nat]
         /\ \A u, v \in DOMAIN power :
              u =< v => IsotonicRegression(power)[u] =< IsotonicRegression(power)[v]
<1> DEFINE fit == IsotonicRegression(power)
           blocks == BlocksOf(power)
           N == Len(blocks)
<1>1. \A u \in DOMAIN power : \E i \in 1..N : u \in blocks[i] /\ fit[u] = MeanOver(power, blocks[i])
  BY BlockOfLevel
<1>2. Stack(power, blocks, Top + 1) /\ Rising(power, blocks, N)
  BY BlocksStack
<1>3. fit = [u \in DOMAIN power |-> fit[u]]
  BY DEF IsotonicRegression
<1> HIDE DEF fit, blocks
<1>4. N \in Nat /\ \A i \in 1..N : blocks[i] \in SUBSET DOMAIN power /\ blocks[i] # {}
  BY <1>2 DEF Stack
<1>5. \A i \in 1..N : MeanOver(power, blocks[i]) \in Nat
  <2> SUFFICES ASSUME NEW B \in SUBSET DOMAIN power, B # {} PROVE MeanOver(power, B) \in Nat
    BY <1>4
  <2>1. SumFunctionOnSet(power, B) \in Nat
    BY BlockType, SumIsNat
  <2>2. Cardinality(B) \in Nat \ {0}
    BY BlockType
  <2> QED
    BY <2>1, <2>2 DEF MeanOver
<1>6. fit \in [DOMAIN power -> Nat]
  BY <1>1, <1>3, <1>5
<1>7. ASSUME NEW u \in DOMAIN power, NEW v \in DOMAIN power, u =< v PROVE fit[u] =< fit[v]
  <2>1. PICK i \in 1..N : u \in blocks[i] /\ fit[u] = MeanOver(power, blocks[i])
    BY <1>1
  <2>2. PICK j \in 1..N : v \in blocks[j] /\ fit[v] = MeanOver(power, blocks[j])
    BY <1>1
  <2>3. ~(j < i)
    <3>1. u \in Int /\ v \in Int
      BY TopAssumption DEF Powers, Levels
    <3> QED
      BY <1>2, <1>7, <2>1, <2>2, <3>1 DEF Stack
  <2>4. CASE i = j
    BY <1>5, <2>1, <2>2, <2>4
  <2>5. CASE i < j
    <3>1. ~Falls(power, blocks[i], blocks[j])
      BY <1>2, <2>5 DEF Rising
    <3> QED
      BY <1>4, <2>1, <2>2, <3>1, MeanOverRises
  <2> QED
    BY <1>4, <2>3, <2>4, <2>5
<1> QED
  BY <1>6, <1>7 DEF fit

\* Interpolation stays between its ends and rises with the level.
LEMMA Interpolates ==
  ASSUME NEW d \in Nat, NEW w \in Nat \ {0}, NEW x \in Nat, NEW y \in Nat, x =< y, y =< w
  PROVE  /\ (x * d) \div w \in Nat /\ (y * d) \div w =< d
         /\ (x * d) \div w =< (y * d) \div w
<1>1. (x * d) \in Nat /\ (y * d) \in Nat
  OBVIOUS
<1>2. x * d =< y * d /\ y * d =< d * w
  BY Scale
<1>3. (x * d) \div w \in Nat
  BY <1>1
<1>4. (x * d) \div w =< (y * d) \div w
  <2>1. (x * d) * w =< (y * d) * w
    BY <1>1, <1>2, Scale
  <2> QED
    BY <1>1, <2>1, RoundedMeans
<1>5. (y * d) \div w =< d
  <2>1. (y * d) * 1 =< d * w
    BY <1>1, <1>2
  <2>2. (y * d) \div w =< d \div 1
    BY <1>1, <2>1, RoundedMeans
  <2>3. d \div 1 = d
    OBVIOUS
  <2> QED
    BY <2>2, <2>3
<1> QED
  BY <1>3, <1>4, <1>5

\* The curve of a node is defined at every level and rises.
LEMMA CurveRises ==
  ASSUME NEW levels \in LevelsType, Observed(levels) # {}
  PROVE  /\ BuildPowerCurve(levels) \in [Levels -> Nat]
         /\ \A u, v \in Levels :
              u =< v => BuildPowerCurve(levels)[u] =< BuildPowerCurve(levels)[v]
<1> DEFINE obs == Observed(levels)
           fitted == IsotonicRegression(PowersIn(levels))
           Below(u) == {x \in obs : x =< u}
           Above(u) == {x \in obs : x >= u}
           A(u) == Max(Below(u))
           B(u) == Min(Above(u))
           I(u) == BuildPowerCurve(levels)[u]
<1>1. /\ fitted \in [obs -> Nat]
      /\ \A x, y \in obs : x =< y => fitted[x] =< fitted[y]
  BY PowersInType, FitRises
<1>2. /\ \A u \in Levels : u \in Nat
      /\ \A x \in obs : x \in Levels /\ x \in Nat
      /\ IsFiniteSet(obs)
  <2>1. IsFiniteSet(Levels) /\ \A u \in Levels : u \in Nat
    BY TopAssumption, FS_Interval DEF Levels
  <2>2. obs \subseteq Levels
    BY DEF Observed
  <2> QED
    BY <2>1, <2>2, FS_Subset
<1>3. /\ BuildPowerCurve(levels) = [u \in Levels |-> I(u)]
      /\ \A u \in Levels :
           I(u) = IF Below(u) = {} THEN fitted[B(u)]
                  ELSE IF Above(u) = {} \/ A(u) = u THEN fitted[A(u)]
                  ELSE fitted[A(u)]
                         + ((u - A(u)) * (fitted[B(u)] - fitted[A(u)])) \div (B(u) - A(u))
  BY DEF BuildPowerCurve, PowersIn
<1> HIDE DEF fitted, I
<1>4. ASSUME NEW u \in Levels
      PROVE  /\ Below(u) # {} => /\ A(u) \in obs /\ A(u) =< u
                                 /\ \A x \in obs : x =< u => x =< A(u)
             /\ Above(u) # {} => /\ B(u) \in obs /\ B(u) >= u
                                 /\ \A x \in obs : x >= u => B(u) =< x
  <2> DEFINE below == Below(u)
             above == Above(u)
  <2>1. /\ IsFiniteSet(below) /\ IsFiniteSet(above)
        /\ below \subseteq Int /\ above \subseteq Int
    <3>1. below \subseteq obs /\ above \subseteq obs
      OBVIOUS
    <3> HIDE DEF below, above
    <3>2. below \subseteq Int /\ above \subseteq Int
      BY <1>2, <3>1
    <3> HIDE DEF obs
    <3> QED
      BY <1>2, <3>1, <3>2, FS_Subset
  <2>2. /\ below # {} => Max(below) \in below /\ \A x \in below : Max(below) >= x
        /\ above # {} => Min(above) \in above /\ \A x \in above : Min(above) =< x
    <3> HIDE DEF below, above
    <3> QED
      BY <2>1, MaxIsGreatest, MinIsLeast
  <2> QED
    BY <1>2, <2>2
<1> HIDE DEF A, B
<1>5. ASSUME NEW u \in Levels PROVE Below(u) # {} \/ Above(u) # {}
  <2>1. PICK x \in obs : TRUE
    OBVIOUS
  <2>2. x =< u \/ x >= u
    BY <1>2
  <2> QED
    BY <2>1, <2>2
<1>6. ASSUME NEW u \in Levels, Below(u) # {}, Above(u) # {}, A(u) # u
      PROVE  /\ fitted[B(u)] - fitted[A(u)] \in Nat /\ B(u) - A(u) \in Nat \ {0}
             /\ u - A(u) \in Nat /\ u - A(u) =< B(u) - A(u)
             /\ fitted[A(u)] \in Nat /\ A(u) \in Nat /\ B(u) \in Nat
  <2>1. /\ A(u) \in obs /\ A(u) =< u /\ B(u) \in obs /\ B(u) >= u
        /\ A(u) \in Nat /\ B(u) \in Nat /\ u \in Nat
    BY <1>2, <1>4, <1>6
  <2> QED
    BY <1>1, <1>6, <2>1
<1>7. ASSUME NEW u \in Levels
      PROVE  /\ I(u) \in Nat
             /\ \A x \in obs : x >= u => I(u) =< fitted[x]
             /\ \A x \in obs : x =< u => I(u) >= fitted[x]
  <2>1. CASE Below(u) = {}
    <3>1. I(u) = fitted[B(u)]
      BY <1>3, <2>1
    <3>2. /\ B(u) \in obs /\ B(u) >= u
          /\ \A x \in obs : x >= u => B(u) =< x
      BY <1>4, <1>5, <2>1
    <3>3. \A x \in obs : ~(x =< u)
      BY <2>1
    <3> QED
      BY <1>1, <3>1, <3>2, <3>3
  <2>2. CASE Below(u) # {} /\ (Above(u) = {} \/ A(u) = u)
    <3>1. I(u) = fitted[A(u)]
      BY <1>3, <2>2
    <3>2. /\ A(u) \in obs /\ A(u) =< u
          /\ \A x \in obs : x =< u => x =< A(u)
      BY <1>4, <2>2
    <3>3. \A x \in obs : x >= u => A(u) =< x
      BY <1>2, <2>2
    <3> QED
      BY <1>1, <3>1, <3>2, <3>3
  <2>3. CASE Below(u) # {} /\ Above(u) # {} /\ A(u) # u
    <3> DEFINE d == fitted[B(u)] - fitted[A(u)]
               w == B(u) - A(u)
               e == u - A(u)
    <3>1. I(u) = fitted[A(u)] + (e * d) \div w
      BY <1>3, <2>3
    <3>2. d \in Nat /\ w \in Nat \ {0} /\ e \in Nat /\ e =< w /\ fitted[A(u)] \in Nat
      BY <1>6, <2>3
    <3>3. /\ A(u) \in obs /\ \A x \in obs : x =< u => x =< A(u)
          /\ B(u) \in obs /\ \A x \in obs : x >= u => B(u) =< x
      BY <1>4, <2>3
    <3>4. fitted[B(u)] = fitted[A(u)] + d
      BY <1>1, <3>3
    <3> HIDE DEF d, w, e
    <3>5. (e * d) \div w \in Nat /\ (e * d) \div w =< d
      BY <3>2, Interpolates
    <3>6. I(u) \in Nat /\ I(u) >= fitted[A(u)] /\ I(u) =< fitted[B(u)]
      BY <3>1, <3>2, <3>4, <3>5
    <3> QED
      BY <1>1, <3>3, <3>6
  <2> QED
    BY <2>1, <2>2, <2>3
<1>8. ASSUME NEW u \in Levels, NEW v \in Levels, u =< v PROVE I(u) =< I(v)
  <2>1. CASE \E x \in obs : u =< x /\ x =< v
    <3>1. PICK x \in obs : u =< x /\ x =< v
      BY <2>1
    <3>2. I(u) =< fitted[x] /\ fitted[x] =< I(v) /\ fitted[x] \in Nat
      BY <1>1, <1>2, <1>7, <3>1
    <3> QED
      BY <1>7, <3>2
  <2>2. CASE ~\E x \in obs : u =< x /\ x =< v
    <3>1. Below(u) = Below(v) /\ Above(u) = Above(v)
      <4>1. \A x \in obs : (x =< u <=> x =< v) /\ (x >= u <=> x >= v)
        BY <1>2, <1>8, <2>2
      <4> HIDE DEF obs
      <4> QED
        BY <4>1
    <3>2. A(u) = A(v) /\ B(u) = B(v)
      BY <3>1, Zenon DEF A, B
    <3>3. CASE Below(u) = {}
      BY <1>3, <1>7, <3>1, <3>2, <3>3
    <3>4. CASE Below(u) # {}
      <4>1. A(u) # u /\ A(v) # v
        BY <1>2, <1>4, <1>8, <2>2, <3>1, <3>4
      <4>2. CASE Above(u) = {}
        BY <1>3, <1>7, <3>1, <3>2, <3>4, <4>2
      <4>3. CASE Above(u) # {}
        <5> DEFINE d == fitted[B(u)] - fitted[A(u)]
                   w == B(u) - A(u)
                   e == u - A(u)
                   g == v - A(u)
        <5>1. I(u) = fitted[A(u)] + (e * d) \div w
          BY <1>3, <3>4, <4>1, <4>3
        <5>2. I(v) = fitted[A(u)] + (g * d) \div w
          BY <1>3, <3>1, <3>2, <3>4, <4>1, <4>3
        <5>3. d \in Nat /\ w \in Nat \ {0} /\ e \in Nat /\ fitted[A(u)] \in Nat
          BY <1>6, <3>4, <4>1, <4>3
        <5>4. g \in Nat /\ g =< w
          BY <1>6, <3>1, <3>2, <3>4, <4>1, <4>3
        <5>5. e =< g
          BY <1>2, <1>6, <1>8, <3>4, <4>1, <4>3
        <5> HIDE DEF d, w, e, g
        <5>6. /\ (e * d) \div w =< (g * d) \div w
              /\ (e * d) \div w \in Int /\ (g * d) \div w \in Int
          BY <5>3, <5>4, <5>5, Interpolates
        <5> QED
          BY <5>1, <5>2, <5>3, <5>6
      <4> QED
        BY <4>2, <4>3
    <3> QED
      BY <3>3, <3>4
  <2> QED
    BY <2>1, <2>2
<1> QED
  BY <1>3, <1>7, <1>8 DEF I

-----------------------------------------------------------------------------
CapacityType == [Nodes -> (Nat \ {0}) \cup {Unknown}]
Known(seen, capacity) == {t \in DOMAIN seen : ActiveAt(seen[t], capacity) # {}}

\* A reading has a level and a power or lacks them.
LEMMA ReadingsType ==
  ASSUME NEW instant \in Instants, NEW n \in Nodes
  PROVE  /\ instant[n].cpu \in Levels \/ instant[n].cpu = Unknown
         /\ instant[n].watts \in Nat \/ instant[n].watts = Unknown
BY ProfileAssumption DEF Off

\* The mean power of a level is a number, or unknown.
LEMMA PowerPerLevelType ==
  ASSUME NEW seen \in Seq(Instants), NEW n \in Nodes, NEW u \in Levels
  PROVE  PowerPerLevel(seen, n, u) \in Nat \cup {Unknown}
<1> DEFINE at == {t \in DOMAIN seen : seen[t][n].cpu = u /\ seen[t][n].watts # Unknown}
           f  == [t \in at |-> seen[t][n].watts * Unit]
<1>1. IsFiniteSet(at)
  <2>1. DOMAIN seen = 1..Len(seen) /\ Len(seen) \in Nat
    OBVIOUS
  <2>2. IsFiniteSet(1..Len(seen))
    BY <2>1, FS_Interval
  <2>3. at \subseteq 1..Len(seen)
    BY <2>1
  <2> HIDE DEF at
  <2> QED
    BY <2>2, <2>3, FS_Subset
<1>2. \A t \in at : f[t] \in Nat
  BY ReadingsType, ProfileAssumption
<1>3. SumFunction(f) \in Nat
  <2>1. DOMAIN f = at
    OBVIOUS
  <2> HIDE DEF f, at
  <2> QED
    BY <1>1, <1>2, <2>1, TotalIsNat
<1>4. at # {} => Cardinality(at) \in Nat \ {0}
  <2> HIDE DEF at
  <2> QED
    BY <1>1, FS_CardinalityType, FS_EmptySet
<1>5. PowerPerLevel(seen, n, u)
        = IF at = {} THEN Unknown ELSE SumFunction(f) \div Cardinality(at)
  BY DEF PowerPerLevel
<1> HIDE DEF f, at
<1> QED
  BY <1>3, <1>4, <1>5

\* The induced utilization is a level, and no higher on a node of more capacity.
LEMMA InducedLevel ==
  ASSUME NEW instant \in Instants, NEW capacity \in CapacityType,
         ActiveAt(instant, capacity) # {}, NEW n \in Nodes, capacity[n] # Unknown
  PROVE  /\ InducedUtilization(instant, capacity, n) \in Levels
         /\ \A m \in Nodes : capacity[m] # Unknown /\ capacity[n] >= capacity[m] =>
              InducedUtilization(instant, capacity, n)
                =< InducedUtilization(instant, capacity, m)
<1> DEFINE active == ActiveAt(instant, capacity)
           f == [j \in active |-> instant[j].cpu * capacity[j]]
           busy == SumFunction(f)
           k == Cardinality(active)
           load(m) == busy \div (k * capacity[m])
           U(m) == InducedUtilization(instant, capacity, m)
<1>1. IsFiniteSet(active) /\ k \in Nat \ {0}
  <2>1. IsFiniteSet(active)
    BY ProfileAssumption, FS_Subset DEF ActiveAt
  <2> QED
    BY <2>1, FS_CardinalityType, FS_EmptySet
<1>2. busy \in Nat
  <2>1. \A j \in active : f[j] \in Nat
    <3> SUFFICES ASSUME NEW j \in active PROVE instant[j].cpu * capacity[j] \in Nat
      OBVIOUS
    <3>1. j \in Nodes /\ instant[j].cpu # Unknown /\ capacity[j] # Unknown
      BY DEF ActiveAt
    <3>2. instant[j].cpu \in Nat
      BY <3>1, ReadingsType, TopAssumption DEF Levels
    <3>3. capacity[j] \in Nat
      BY <3>1 DEF CapacityType
    <3> QED
      BY <3>2, <3>3
  <2>2. DOMAIN f = active
    OBVIOUS
  <2> HIDE DEF f, active
  <2> QED
    BY <1>1, <2>1, <2>2, TotalIsNat
<1>3. \A m : U(m) = Min({Top, load(m)})
  BY Zenon DEF InducedUtilization
<1> HIDE DEF busy, k, U
<1>4. ASSUME NEW m \in Nodes, capacity[m] # Unknown
      PROVE  /\ k * capacity[m] \in Nat \ {0} /\ load(m) \in Nat
             /\ U(m) \in {Top, load(m)} /\ U(m) =< Top /\ U(m) =< load(m)
  <2>1. capacity[m] \in Nat \ {0}
    BY <1>4 DEF CapacityType
  <2>2. k * capacity[m] \in Nat \ {0}
    BY <1>1, <2>1
  <2>3. load(m) \in Nat
    BY <1>2, <2>2
  <2> HIDE DEF load
  <2> DEFINE S == {Top, load(m)}
  <2>4. IsFiniteSet(S) /\ S # {} /\ S \subseteq Int
    <3>1. IsFiniteSet({Top}) /\ IsFiniteSet({load(m)})
      BY FS_Singleton
    <3>2. IsFiniteSet({Top} \cup {load(m)})
      BY <3>1, FS_Union
    <3>3. S = {Top} \cup {load(m)}
      OBVIOUS
    <3> QED
      BY <2>3, <3>2, <3>3, TopAssumption
  <2>5. Min(S) \in S /\ \A x \in S : Min(S) =< x
    <3> HIDE DEF S
    <3> QED
      BY <2>4, MinIsLeast
  <2> QED
    BY <1>3, <2>2, <2>3, <2>5
<1>5. U(n) \in Levels
  BY <1>4, TopAssumption DEF Levels
<1>6. ASSUME NEW m \in Nodes, capacity[m] # Unknown, capacity[n] >= capacity[m]
      PROVE  U(n) =< U(m)
  <2>1. load(n) =< load(m)
    <3>1. capacity[n] \in Nat /\ capacity[m] \in Nat
      BY <1>6 DEF CapacityType
    <3>2. k * capacity[n] >= k * capacity[m]
      BY <1>1, <1>6, <3>1, Scale
    <3> DEFINE v == k * capacity[n]
               w == k * capacity[m]
    <3>3. v \in Nat \ {0} /\ w \in Nat \ {0} /\ v >= w
      BY <1>4, <1>6, <3>2
    <3> HIDE DEF v, w
    <3>4. busy * w =< busy * v
      BY <1>2, <3>3, Scale
    <3>5. busy \div v =< busy \div w
      BY <1>2, <3>3, <3>4, RoundedMeans
    <3> QED
      BY <3>5 DEF v, w
  <2>2. load(n) \in Nat /\ load(m) \in Nat
    BY <1>4, <1>6
  <2>3. U(m) \in {Top, load(m)} /\ U(n) =< Top /\ U(n) =< load(n) /\ U(n) \in Levels
    BY <1>4, <1>5, <1>6
  <2> HIDE DEF load
  <2> QED
    BY <2>1, <2>2, <2>3, TopAssumption DEF Levels
<1> QED
  BY <1>5, <1>6 DEF U

\* A power lies by a remainder above the multiple of the grain that it is rounded
\* to, or by what lacks to a whole grain below it.
LEMMA RoundedParts ==
  ASSUME NEW p \in Nat, NEW g \in Nat \ {0}
  PROVE  \E q, r \in Nat :
           /\ r < g /\ p = q * g + r
           /\ Rounded(p, g) = IF 2 * r > g \/ (2 * r = g /\ q % 2 = 1)
                              THEN q * g + g ELSE q * g
<1> DEFINE q == p \div g
           r == p % g
<1>1. q \in Nat /\ r \in Nat /\ r < g /\ p = q * g + r
  OBVIOUS
<1>2. Rounded(p, g) = IF 2 * r > g \/ (2 * r = g /\ q % 2 = 1)
                      THEN (q + 1) * g ELSE q * g
  BY DEF Rounded
<1> HIDE DEF q, r
<1>3. (q + 1) * g = q * g + g
  BY <1>1
<1> QED
  BY <1>1, <1>2, <1>3

\* Multiples of the grain are a grain apart.
LEMMA GrainsApart ==
  ASSUME NEW q \in Nat, NEW k \in Nat, NEW g \in Nat \ {0}
  PROVE  /\ q * g \in Nat
         /\ q < k => q * g + g =< k * g
<1>1. CASE q < k
  <2>1. g * k >= g * (q + 1)
    BY <1>1, Scale
  <2> QED
    BY <2>1
<1> QED
  BY <1>1

(***************************************************************************)
(* A rounded power is one, and rounding never swaps two.  Of two powers    *)
(* with the same quotient the larger has the larger remainder; of two with *)
(* different quotients the smaller one is rounded up to the larger's at    *)
(* most.                                                                   *)
(***************************************************************************)
LEMMA RoundedInOrder ==
  ASSUME NEW a \in Nat, NEW b \in Nat, NEW g \in Nat \ {0}, a =< b
  PROVE  Rounded(a, g) \in Nat /\ Rounded(a, g) =< Rounded(b, g)
<1>1. PICK q \in Nat, r \in Nat :
        /\ r < g /\ a = q * g + r
        /\ Rounded(a, g) = IF 2 * r > g \/ (2 * r = g /\ q % 2 = 1)
                           THEN q * g + g ELSE q * g
  BY RoundedParts
<1>2. PICK k \in Nat, s \in Nat :
        /\ s < g /\ b = k * g + s
        /\ Rounded(b, g) = IF 2 * s > g \/ (2 * s = g /\ k % 2 = 1)
                           THEN k * g + g ELSE k * g
  BY RoundedParts
<1>3. /\ q * g \in Nat /\ k * g \in Nat
      /\ q < k => q * g + g =< k * g
      /\ k < q => k * g + g =< q * g
  BY GrainsApart
<1> DEFINE low == q * g
           high == k * g
<1>4. low = q * g /\ high = k * g
  OBVIOUS
<1> HIDE DEF low, high
<1>5. CASE q = k
  <2>1. r =< s
    BY <1>1, <1>2, <1>3, <1>4, <1>5
  <2> QED
    BY <1>1, <1>2, <1>3, <1>4, <1>5, <2>1
<1>6. CASE q < k
  BY <1>1, <1>2, <1>3, <1>4, <1>6
<1>7. CASE k < q
  BY <1>1, <1>2, <1>3, <1>4, <1>7
<1> QED
  BY <1>5, <1>6, <1>7

\* There are finitely many instants with a known load.
LEMMA KnownFinite ==
  ASSUME NEW seen \in Seq(Instants), NEW capacity
  PROVE  /\ IsFiniteSet(Known(seen, capacity))
         /\ \A t \in Known(seen, capacity) : seen[t] \in Instants
<1>1. DOMAIN seen = 1..Len(seen) /\ Len(seen) \in Nat /\ \A t \in DOMAIN seen : seen[t] \in Instants
  OBVIOUS
<1>2. IsFiniteSet(1..Len(seen))
  BY <1>1, FS_Interval
<1>3. Known(seen, capacity) \subseteq DOMAIN seen
  BY DEF Known
<1>4. IsFiniteSet(Known(seen, capacity))
  BY <1>1, <1>2, <1>3, FS_Subset
<1> QED
  BY <1>1, <1>3, <1>4

\* A score is a number, or unknown if no instant has a known load.
LEMMA WapType ==
  ASSUME NEW seen \in Seq(Instants), NEW capacity \in CapacityType,
         NEW n \in Nodes, capacity[n] # Unknown, NEW curve \in [Levels -> Nat]
  PROVE  /\ Known(seen, capacity) = {} => WapOf(seen, capacity, n, curve) = Unknown
         /\ Known(seen, capacity) # {} => WapOf(seen, capacity, n, curve) \in Nat
<1> DEFINE known == Known(seen, capacity)
           f == [t \in known |-> curve[InducedUtilization(seen[t], capacity, n)]]
<1>1. IsFiniteSet(known) /\ \A t \in known : seen[t] \in Instants
  BY KnownFinite
<1>2. \A t \in known : f[t] \in Nat
  BY <1>1, InducedLevel DEF Known
<1>3. WapOf(seen, capacity, n, curve)
        = IF known = {} THEN Unknown
          ELSE Rounded(SumFunction(f) \div Cardinality(known), Thousandth)
  BY Zenon DEF WapOf, Known
<1>4. DOMAIN f = known
  OBVIOUS
<1> HIDE DEF f, known
<1>5. SumFunction(f) \in Nat
  BY <1>1, <1>2, <1>4, TotalIsNat
<1>6. known # {} => Cardinality(known) \in Nat \ {0}
  BY <1>1, FS_CardinalityType, FS_EmptySet
<1>7. known # {} => SumFunction(f) \div Cardinality(known) \in Nat
  BY <1>5, <1>6
<1>8. known # {} => Rounded(SumFunction(f) \div Cardinality(known), Thousandth) \in Nat
  BY <1>7, RoundedInOrder, ProfileAssumption
<1> QED
  BY <1>3, <1>8 DEF known

\* A node of no smaller capacity that draws no more power at any level has no worse
\* score.
LEMMA WapRises ==
  ASSUME NEW seen \in Seq(Instants), NEW capacity \in CapacityType,
         NEW n \in Nodes, capacity[n] # Unknown, NEW P \in [Levels -> Nat],
         NEW m \in Nodes, capacity[m] # Unknown, NEW Q \in [Levels -> Nat],
         capacity[n] >= capacity[m], \A u \in Levels : P[u] =< Q[u],
         \A u, v \in Levels : u =< v => Q[u] =< Q[v]
  PROVE  WapOf(seen, capacity, n, P) =< WapOf(seen, capacity, m, Q)
<1> DEFINE known == Known(seen, capacity)
           f == [t \in known |-> P[InducedUtilization(seen[t], capacity, n)]]
           g == [t \in known |-> Q[InducedUtilization(seen[t], capacity, m)]]
<1>1. IsFiniteSet(known) /\ \A t \in known : seen[t] \in Instants
  BY KnownFinite
<1>2. \A t \in known : f[t] \in Nat /\ g[t] \in Nat /\ f[t] =< g[t]
  <2> SUFFICES ASSUME NEW t \in known PROVE f[t] \in Nat /\ g[t] \in Nat /\ f[t] =< g[t]
    OBVIOUS
  <2> DEFINE u == InducedUtilization(seen[t], capacity, n)
             v == InducedUtilization(seen[t], capacity, m)
  <2>1. u \in Levels /\ v \in Levels /\ u =< v
    BY <1>1, InducedLevel DEF Known
  <2>2. f[t] = P[u] /\ g[t] = Q[v]
    OBVIOUS
  <2> HIDE DEF u, v, f, g
  <2>3. P[u] \in Nat /\ Q[u] \in Nat /\ Q[v] \in Nat /\ P[u] =< Q[u] /\ Q[u] =< Q[v]
    BY <2>1
  <2> QED
    BY <2>2, <2>3
<1>3. /\ WapOf(seen, capacity, n, P)
           = IF known = {} THEN Unknown
             ELSE Rounded(SumFunction(f) \div Cardinality(known), Thousandth)
      /\ WapOf(seen, capacity, m, Q)
           = IF known = {} THEN Unknown
             ELSE Rounded(SumFunction(g) \div Cardinality(known), Thousandth)
  BY Zenon DEF WapOf, Known
<1>4. DOMAIN f = known /\ DOMAIN g = known
  OBVIOUS
<1> HIDE DEF f, g, known
<1>5. SumFunction(f) \in Nat /\ SumFunction(g) \in Nat
  BY <1>1, <1>2, <1>4, TotalIsNat
<1>6. SumFunction(f) =< SumFunction(g)
  <2>1. SumFunctionOnSet(f, known) =< SumFunctionOnSet(g, known)
    BY <1>1, <1>2, SumRises
  <2> QED
    BY <1>4, <2>1 DEF SumFunction
<1>7. known # {} => Cardinality(known) \in Nat \ {0}
  BY <1>1, FS_CardinalityType, FS_EmptySet
<1> DEFINE s == SumFunction(f)
           r == SumFunction(g)
           w == Cardinality(known)
<1>8. CASE known = {}
  BY <1>3, <1>8 DEF Unknown
<1>9. CASE known # {}
  <2>1. s \in Nat /\ r \in Nat /\ w \in Nat \ {0} /\ s =< r
    BY <1>5, <1>6, <1>7, <1>9
  <2> HIDE DEF s, r, w
  <2>2. s * w =< r * w
    BY <2>1, Scale
  <2>3. s \div w =< r \div w /\ s \div w \in Nat /\ r \div w \in Nat
    BY <2>1, <2>2, RoundedMeans
  <2>4. Rounded(s \div w, Thousandth) =< Rounded(r \div w, Thousandth)
    BY <2>3, RoundedInOrder, ProfileAssumption
  <2> QED
    BY <1>3, <1>9, <2>4 DEF s, r, w
<1> QED
  BY <1>8, <1>9

\* What a stored profile says of the capacities.
LEMMA CapacitiesType ==
  ASSUME NEW entries \in [Nodes -> Entry]
  PROVE  /\ CapacityIn(entries) \in CapacityType
         /\ \A n \in Nodes : /\ CapacityIn(entries)[n] = entries[n].capacity
                             /\ entries[n].levels \in LevelsType
BY DEF CapacityIn, CapacityType, Entry, LevelsType

\* A score is written for the nodes that have a curve and a capacity, when the
\* demand was known at some instant.
LEMMA WapsType ==
  ASSUME NEW seen \in Seq(Instants), NEW entries \in [Nodes -> Entry]
  PROVE  /\ Waps(seen, entries) \in [Nodes -> Nat \cup {Unknown}]
         /\ \A n \in Nodes :
              Waps(seen, entries)[n] # Unknown
                <=> n \in Scorable(entries) /\ Known(seen, CapacityIn(entries)) # {}
<1> DEFINE Of(n) == WapOf(seen, CapacityIn(entries), n, BuildPowerCurve(entries[n].levels))
           known == Known(seen, CapacityIn(entries))
<1>1. ASSUME NEW n \in Scorable(entries)
      PROVE  /\ known = {} => Of(n) = Unknown
             /\ known # {} => Of(n) \in Nat
  <2>1. /\ n \in Nodes /\ entries[n].levels \in LevelsType /\ Observed(entries[n].levels) # {}
        /\ CapacityIn(entries) \in CapacityType /\ CapacityIn(entries)[n] # Unknown
    BY CapacitiesType DEF Scorable
  <2>2. BuildPowerCurve(entries[n].levels) \in [Levels -> Nat]
    BY <2>1, CurveRises
  <2> QED
    BY <2>1, <2>2, WapType
<1>2. Waps(seen, entries) = [n \in Nodes |-> IF n \in Scorable(entries) THEN Of(n) ELSE Unknown]
  BY DEF Waps
<1>3. \A k \in Nat : k # Unknown
  BY DEF Unknown
<1> HIDE DEF Of, known
<1> QED
  BY <1>1, <1>2, <1>3 DEF known

\* Merging loses nothing.
LEMMA MergedType ==
  ASSUME TypeOK
  PROVE  /\ Merged \in [Nodes -> Entry]
         /\ \A n \in Nodes :
              /\ Observed(loaded[n].levels) \subseteq Observed(Merged[n].levels)
              /\ loaded[n].capacity # Unknown => Merged[n].capacity # Unknown
<1> DEFINE levels(n) == MergePowerLevels(loaded[n].levels,
                                         [u \in Levels |-> PowerPerLevel(usage, n, u)])
<1>1. Merged = [n \in Nodes |-> [capacity |-> Capacity(n), levels |-> levels(n)]]
  BY DEF Merged
<1>2. ASSUME NEW n \in Nodes
      PROVE  /\ levels(n) \in [Levels -> Nat \cup {Unknown}]
             /\ Observed(loaded[n].levels) \subseteq Observed(levels(n))
  <2>1. \A u \in Levels : PowerPerLevel(usage, n, u) \in Nat \cup {Unknown}
    BY PowerPerLevelType DEF TypeOK
  <2>2. loaded[n].levels \in [Levels -> Nat \cup {Unknown}]
    BY DEF TypeOK, Entry
  <2> QED
    BY <2>1, <2>2 DEF MergePowerLevels, Observed
<1>3. ASSUME NEW n \in Nodes
      PROVE  /\ Capacity(n) \in (Nat \ {0}) \cup {Unknown}
             /\ loaded[n].capacity # Unknown => Capacity(n) # Unknown
  <2>1. loaded[n].capacity \in (Nat \ {0}) \cup {Unknown}
    BY DEF TypeOK, Entry
  <2>2. CoresOf[n] \in Nat \ {0} /\ CoresOf[n] # Unknown
    BY ProfileAssumption DEF Unknown
  <2> QED
    BY <2>1, <2>2 DEF Capacity
<1> HIDE DEF levels
<1> QED
  BY <1>1, <1>2, <1>3 DEF Entry

\* The entries that are written are well typed and lack nothing.
LEMMA SavedType ==
  ASSUME NEW entries \in [Nodes -> Entry]
  PROVE  /\ Saved(entries) \in [Nodes -> Entry]
         /\ \A n \in Nodes :
              /\ Observed(Saved(entries)[n].levels) = Observed(entries[n].levels)
              /\ Saved(entries)[n].capacity = entries[n].capacity
<1> DEFINE levels(n) == [u \in Levels |->
                           IF entries[n].levels[u] = Unknown THEN Unknown
                           ELSE Rounded(entries[n].levels[u], Hundredth)]
<1>1. ASSUME NEW n \in Nodes
      PROVE  /\ levels(n) \in [Levels -> Nat \cup {Unknown}]
             /\ Observed(levels(n)) = Observed(entries[n].levels)
  <2>1. entries[n].levels \in [Levels -> Nat \cup {Unknown}]
    BY DEF Entry
  <2>2. \A p \in Nat : Rounded(p, Hundredth) \in Nat /\ Rounded(p, Hundredth) # Unknown
    BY RoundedInOrder, ProfileAssumption DEF Unknown
  <2> QED
    BY <2>1, <2>2 DEF Observed
<1>2. \A n \in Nodes : Saved(entries)[n] = [entries[n] EXCEPT !.levels = levels(n)]
  BY DEF Saved
<1>3. Saved(entries) = [n \in Nodes |-> [entries[n] EXCEPT !.levels = levels(n)]]
  BY DEF Saved
<1> HIDE DEF levels
<1>4. \A n \in Nodes : /\ [entries[n] EXCEPT !.levels = levels(n)] \in Entry
                       /\ [entries[n] EXCEPT !.levels = levels(n)].levels = levels(n)
                       /\ [entries[n] EXCEPT !.levels = levels(n)].capacity
                            = entries[n].capacity
  BY <1>1 DEF Entry
<1> QED
  BY <1>1, <1>2, <1>3, <1>4

-----------------------------------------------------------------------------
\* The count of faults stays within its bound.
LEMMA FaultTyped ==
  ASSUME TypeOK, UNCHANGED faults \/ \E kind : Fault(kind)
  PROVE  faults' \in 0..MaxFaults
BY ProfileAssumption DEF TypeOK, Fault

\* The profile of an absent ConfigMap is one.
LEMMA NoProfileType == NoProfile \in [Nodes -> Entry]
BY DEF NoProfile, Entry

\* What is left when a run ends is well typed.
LEMMA ForgetTyped ==
  ASSUME Forget
  PROVE  /\ step' \in Steps /\ usage' \in Seq(Instants) /\ Len(usage') =< Span
         /\ loaded' \in [Nodes -> Entry] /\ wap' \in [Nodes -> Nat \cup {Unknown}]
         /\ todo' \subseteq Nodes
<1>1. usage' \in Seq(Instants) /\ Len(usage') =< Span
  BY ProfileAssumption DEF Forget
<1> QED
  BY <1>1, NoProfileType DEF Forget, Steps

\* Type correctness, for all constants.
THEOREM Typing == Spec => []TypeOK
<1>1. Init => TypeOK
  <2> SUFFICES ASSUME Init PROVE TypeOK
    OBVIOUS
  <2>1. window \in Seq(Instants) /\ Len(window) = Span /\ usage \in Seq(Instants) /\ Len(usage) =< Span
    <3>1. Span \in Nat /\ window \in [1..Span -> Instants]
      BY ProfileAssumption DEF Init
    <3>2. window \in Seq(Instants)
      BY <3>1, SeqDef
    <3>3. Len(window) = Span
      BY <3>1, <3>2, LenProperties
    <3> QED
      BY <3>1, <3>2, <3>3 DEF Init
  <2>2. profile \in [Nodes -> Entry] /\ loaded \in [Nodes -> Entry]
    BY ProfileAssumption, NoProfileType DEF Init
  <2>3. samples \in 0..MaxSamples /\ faults \in 0..MaxFaults
    BY ProfileAssumption DEF Init
  <2> QED
    BY <2>1, <2>2, <2>3 DEF Init, TypeOK, Steps
<1>2. ASSUME TypeOK, [Next]_vars PROVE TypeOK'
  <2> USE <1>2
  <2>1. CASE Sample
    <3>1. window' \in Seq(Instants) /\ Len(window') = Span
      <4>1. PICK instant \in Instants : window' = Append(Tail(window), instant)
        BY <2>1 DEF Sample
      <4>2. window \in Seq(Instants) /\ window # <<>> /\ Len(window) = Span
        BY ProfileAssumption DEF TypeOK
      <4>3. Tail(window) \in Seq(Instants) /\ Len(Tail(window)) = Span - 1
        BY <4>2
      <4> QED
        BY <4>1, <4>3, ProfileAssumption
    <3>2. samples' \in 0..MaxSamples
      BY <2>1, ProfileAssumption DEF Sample, TypeOK
    <3> QED
      BY <2>1, <3>1, <3>2 DEF Sample, store, job, TypeOK
  <2>2. CASE QueryRange
    BY <2>2 DEF QueryRange, store, TypeOK, Steps
  <2>3. CASE Load
    <3>1. CASE /\ step' = "compute" /\ loaded' = profile
               /\ UNCHANGED <<usage, wap, todo, faults>>
      BY <2>3, <3>1 DEF Load, store, TypeOK, Steps
    <3>2. CASE Forget /\ Fault("api")
      BY <2>3, <3>2, ForgetTyped, FaultTyped DEF Load, store, TypeOK
    <3> QED
      BY <2>3, <3>1, <3>2 DEF Load, LoadNodeProfiles
  <2>4. CASE Compute
    <3>1. loaded' \in [Nodes -> Entry]
      BY <2>4, MergedType DEF Compute
    <3>2. wap' \in [Nodes -> Nat \cup {Unknown}]
      BY <2>4, <3>1, WapsType DEF Compute, TypeOK
    <3> QED
      BY <2>4, <3>1, <3>2 DEF Compute, store, TypeOK, Steps
  <2>5. CASE Save
    <3>1. Saved(loaded) \in [Nodes -> Entry]
      BY SavedType DEF TypeOK
    <3>2. CASE /\ profile' = Saved(loaded) /\ step' = "annotate"
               /\ todo' = {n \in Nodes : wap[n] # Unknown}
               /\ UNCHANGED <<usage, loaded, wap, faults>>
      BY <2>5, <3>1, <3>2 DEF Save, TypeOK, Steps
    <3>3. CASE /\ profile' = Saved(loaded) \/ UNCHANGED profile
               /\ Forget /\ \E kind : Fault(kind)
      BY <2>5, <3>1, <3>3, ForgetTyped, FaultTyped DEF Save, TypeOK
    <3> QED
      BY <2>5, <3>2, <3>3 DEF Save
  <2>6. ASSUME NEW n \in Nodes, PatchNode(n) PROVE TypeOK'
    <3>1. score' \in [Nodes -> Nat \cup {Unknown}] /\ missed' \subseteq Nodes
      BY <2>6 DEF PatchNode, TypeOK
    <3>2. faults' \in 0..MaxFaults
      BY <2>6, FaultTyped DEF PatchNode
    <3> QED
      BY <2>6, <3>1, <3>2 DEF PatchNode, TypeOK
  <2>7. CASE Done
    BY <2>7, ForgetTyped DEF Done, store, TypeOK
  <2>8. CASE Crash
    BY <2>8, ForgetTyped, FaultTyped DEF Crash, store, TypeOK
  <2>9. CASE UNCHANGED vars
    BY <2>9 DEF vars, store, job, TypeOK
  <2> QED
    BY <2>1, <2>2, <2>3, <2>4, <2>5, <2>6, <2>7, <2>8, <2>9 DEF Next
<1> QED
  BY <1>1, <1>2, PTL DEF Spec

\* The regression that every curve rests on is the least-squares fit.
THEOREM CurvesFit == Spec => []CurveIsotonic
<1>1. TypeOK => CurveIsotonic
  <2> SUFFICES ASSUME TypeOK, NEW n \in Nodes
               PROVE  IsotonicRegression(PowersIn(loaded[n].levels))
                        = IsotonicFit(PowersIn(loaded[n].levels))
    BY DEF CurveIsotonic, PowersIn
  <2>1. loaded[n].levels \in LevelsType
    BY CapacitiesType DEF TypeOK
  <2> QED
    BY <2>1, PowersInType, RegressionFits
<1> QED
  BY <1>1, Typing, PTL

-----------------------------------------------------------------------------
(***************************************************************************)
(* What the job knows at each of its steps.  It loads what is stored, as   *)
(* it alone writes the ConfigMap; merging only adds to it; and the scores  *)
(* it writes are those of what it has merged.                              *)
(***************************************************************************)
NothingLost(before, after) ==
  \A n \in Nodes :
    /\ Observed(before[n].levels) \subseteq Observed(after[n].levels)
    /\ before[n].capacity # Unknown => after[n].capacity # Unknown

StepsConsistent ==
  /\ step = "compute" => loaded = profile
  /\ step = "save" => NothingLost(profile, loaded)
  /\ step \in {"save", "annotate"} => wap = Waps(usage, loaded)
  /\ \A n \in Annotated : score[n] = wap[n]

\* A step that leaves the job idle, or where it was, keeps its knowledge.
LEMMA IdleConsistent ==
  ASSUME step' = "idle" PROVE StepsConsistent'
BY DEF StepsConsistent, Annotated

\* Every step keeps the local variables of a run consistent with where it is.
LEMMA StepKeepsConsistency ==
  ASSUME TypeOK, StepsConsistent, [Next]_vars PROVE StepsConsistent'
<1>1. CASE Sample
  <2>1. step = "idle" /\ step' = step
    BY <1>1 DEF Sample
  <2> QED
    BY <2>1, IdleConsistent
<1>2. CASE QueryRange
  BY <1>2 DEF QueryRange, StepsConsistent, Annotated
<1>3. CASE Load
  <2>1. CASE step' = "compute" /\ loaded' = profile
    BY <1>3, <2>1 DEF Load, store, StepsConsistent, Annotated
  <2>2. CASE Forget
    BY <2>2, IdleConsistent DEF Forget
  <2> QED
    BY <1>3, <2>1, <2>2 DEF Load, LoadNodeProfiles
<1>4. CASE Compute
  <2>1. /\ step = "compute" /\ step' = "save" /\ loaded' = Merged
        /\ wap' = Waps(usage, loaded') /\ usage' = usage /\ profile' = profile
    BY <1>4 DEF Compute, store
  <2>2. NothingLost(profile, Merged)
    BY <2>1, MergedType DEF StepsConsistent, NothingLost
  <2>3. Waps(usage, loaded') = Waps(usage', loaded')
    BY <2>1
  <2>4. NothingLost(profile', loaded')
    BY <2>1, <2>2
  <2> QED
    BY <2>1, <2>3, <2>4 DEF StepsConsistent, Annotated
<1>5. CASE Save
  <2>1. CASE /\ profile' = Saved(loaded) /\ step' = "annotate"
             /\ todo' = {n \in Nodes : wap[n] # Unknown}
             /\ UNCHANGED <<usage, loaded, wap, faults>>
    <3>1. step = "save" /\ wap' = Waps(usage', loaded')
      BY <1>5, <2>1 DEF Save, StepsConsistent
    <3>2. Annotated' = {}
      BY <2>1 DEF Annotated
    <3> QED
      BY <2>1, <3>1, <3>2 DEF StepsConsistent
  <2>2. CASE Forget
    BY <2>2, IdleConsistent DEF Forget
  <2> QED
    BY <1>5, <2>1, <2>2 DEF Save
<1>6. ASSUME NEW n \in Nodes, PatchNode(n) PROVE StepsConsistent'
  <2>1. /\ step = "annotate" /\ UNCHANGED <<profile, step, usage, loaded, wap>>
        /\ n \in todo /\ todo' = todo \ {n}
    BY <1>6 DEF PatchNode
  <2>2. wap' = Waps(usage', loaded')
    BY <2>1 DEF StepsConsistent
  <2>3. ASSUME NEW m \in Annotated' PROVE score'[m] = wap'[m]
    <3>1. m \in Nodes /\ m \notin todo' /\ m \notin missed' /\ wap[m] # Unknown
      BY <2>1, <2>3 DEF Annotated
    <3>2. CASE m = n
      BY <1>6, <2>1, <3>1, <3>2 DEF PatchNode, TypeOK
    <3>3. CASE m # n
      <4>1. m \in Annotated /\ score'[m] = score[m]
        BY <1>6, <2>1, <3>1, <3>3 DEF PatchNode, Annotated, TypeOK
      <4> QED
        BY <2>1, <4>1 DEF StepsConsistent
    <3> QED
      BY <3>2, <3>3
  <2> QED
    BY <2>1, <2>2, <2>3 DEF StepsConsistent
<1>7. CASE Done
  BY <1>7, IdleConsistent DEF Done, Forget
<1>8. CASE Crash
  BY <1>8, IdleConsistent DEF Crash, Forget
<1>9. CASE UNCHANGED vars
  <2>1. UNCHANGED <<step, loaded, profile, wap, usage, score, todo, missed>>
    BY <1>9 DEF vars, store, job
  <2> QED
    BY <2>1 DEF StepsConsistent, Annotated, NothingLost
<1> QED
  BY <1>1, <1>2, <1>3, <1>4, <1>5, <1>6, <1>7, <1>8, <1>9 DEF Next

\* The local variables of a run are always consistent with where it is.
LEMMA Consistent == Spec => []StepsConsistent
<1>1. Init => StepsConsistent
  BY DEF Init, StepsConsistent, Annotated
<1>2. TypeOK /\ StepsConsistent /\ [Next]_vars => StepsConsistent'
  BY StepKeepsConsistency
<1> QED
  BY <1>1, <1>2, Typing, PTL DEF Spec

\* Only a save writes the ConfigMap, and it writes what has been merged.
LEMMA OnlySaveStores ==
  ASSUME [Next]_vars
  PROVE  profile' = profile \/ (step = "save" /\ profile' = Saved(loaded))
BY DEF Next, Sample, QueryRange, Load, Compute, Save, PatchNode, Done, Crash, vars, store

\* No run, however it ends, loses a level or a capacity that is stored.
THEOREM NothingForgotten == Spec => LevelsKept
<1>1. ASSUME TypeOK, StepsConsistent, [Next]_vars PROVE NothingLost(profile, profile')
  <2>1. CASE profile' = profile
    BY <2>1 DEF NothingLost
  <2>2. CASE step = "save" /\ profile' = Saved(loaded)
    BY <1>1, <2>2, SavedType DEF StepsConsistent, NothingLost, TypeOK
  <2> QED
    BY <1>1, <2>1, <2>2, OnlySaveStores
<1>2. TypeOK /\ StepsConsistent /\ [Next]_vars
      => [\A n \in Nodes :
            /\ Observed(profile[n].levels) \subseteq Observed(profile'[n].levels)
            /\ profile[n].capacity # Unknown => profile'[n].capacity # Unknown]_vars
  BY <1>1 DEF NothingLost
<1> QED
  BY <1>2, Typing, Consistent, PTL DEF Spec, LevelsKept

\* A run that stores its profile scores all nodes it could have scored before.
THEOREM AllScored == Spec => OffNodesScored
<1>1. ASSUME TypeOK, StepsConsistent, [Next]_vars, step = "save", step' = "annotate",
             \E t \in DOMAIN usage : ActiveAt(usage[t], CapacityIn(profile)) # {}
      PROVE  Scorable(profile) \subseteq todo'
  <2>1. todo' = {n \in Nodes : wap[n] # Unknown}
    BY <1>1 DEF Next, Sample, QueryRange, Load, Compute, Save, PatchNode, Done, Crash, Forget,
                vars, store, job
  <2>2. NothingLost(profile, loaded) /\ wap = Waps(usage, loaded)
    BY <1>1 DEF StepsConsistent
  <2>3. Scorable(profile) \subseteq Scorable(loaded)
    BY <2>2 DEF Scorable, NothingLost
  <2>4. Known(usage, CapacityIn(loaded)) # {}
    <3>1. PICK t \in DOMAIN usage : ActiveAt(usage[t], CapacityIn(profile)) # {}
      BY <1>1
    <3>2. PICK n \in Nodes : usage[t][n].cpu # Unknown /\ profile[n].capacity # Unknown
      BY <3>1 DEF ActiveAt, CapacityIn
    <3>3. n \in ActiveAt(usage[t], CapacityIn(loaded))
      BY <2>2, <3>2 DEF ActiveAt, CapacityIn, NothingLost
    <3>4. t \in Known(usage, CapacityIn(loaded))
      BY <3>1, <3>3 DEF Known
    <3> QED
      BY <3>4
  <2>5. \A n \in Scorable(loaded) : n \in Nodes /\ wap[n] # Unknown
    <3>1. usage \in Seq(Instants) /\ loaded \in [Nodes -> Entry]
      BY <1>1 DEF TypeOK
    <3>2. \A n \in Scorable(loaded) : n \in Nodes
      BY DEF Scorable
    <3> QED
      BY <2>2, <2>4, <3>1, <3>2, WapsType
  <2> QED
    BY <2>1, <2>3, <2>5
<1>2. TypeOK /\ StepsConsistent /\ [Next]_vars
      => [step = "save" /\ step' = "annotate"
            /\ (\E t \in DOMAIN usage : ActiveAt(usage[t], CapacityIn(profile)) # {})
          => Scorable(profile) \subseteq todo']_vars
  BY <1>1
<1> QED
  BY <1>2, Typing, Consistent, PTL DEF Spec, OffNodesScored

(***************************************************************************)
(* The scores of one run compare the hardware as the run has measured it,  *)
(* for any workload and any powers: fitting, interpolation, averages and   *)
(* the rounding of a score all keep the order.                             *)
(***************************************************************************)
THEOREM HardwareCompared == Spec => []HardwareOnly
<1>1. ASSUME TypeOK, StepsConsistent PROVE HardwareOnly
  <2> USE <1>1
  <2> SUFFICES ASSUME NEW n \in Annotated, NEW m \in Annotated,
                      loaded[n].capacity >= loaded[m].capacity,
                      \A u \in Levels : BuildPowerCurve(loaded[n].levels)[u]
                                          =< BuildPowerCurve(loaded[m].levels)[u]
               PROVE  score[n] =< score[m]
    BY DEF HardwareOnly
  <2> DEFINE capacity == CapacityIn(loaded)
             P(k) == BuildPowerCurve(loaded[k].levels)
  <2>1. step = "annotate" /\ wap = Waps(usage, loaded)
    BY DEF Annotated, StepsConsistent
  <2>2. /\ n \in Nodes /\ m \in Nodes /\ wap[n] # Unknown /\ wap[m] # Unknown
        /\ score[n] = wap[n] /\ score[m] = wap[m]
    BY DEF Annotated, StepsConsistent
  <2>3. usage \in Seq(Instants) /\ loaded \in [Nodes -> Entry]
    BY DEF TypeOK
  <2>4. n \in Scorable(loaded) /\ m \in Scorable(loaded)
    BY <2>1, <2>2, <2>3, WapsType
  <2>5. \A k \in Scorable(loaded) :
          /\ k \in Nodes /\ capacity \in CapacityType
          /\ capacity[k] = loaded[k].capacity /\ capacity[k] # Unknown
          /\ P(k) \in [Levels -> Nat]
          /\ \A u, v \in Levels : u =< v => P(k)[u] =< P(k)[v]
    BY <2>3, CapacitiesType, CurveRises DEF Scorable
  <2>6. \A k \in Scorable(loaded) : wap[k] = WapOf(usage, capacity, k, P(k))
    BY <2>1, <2>5 DEF Waps
  <2>7. WapOf(usage, capacity, n, P(n)) =< WapOf(usage, capacity, m, P(m))
    <3>1. capacity[n] >= capacity[m] /\ \A u \in Levels : P(n)[u] =< P(m)[u]
      BY <2>4, <2>5
    <3> HIDE DEF capacity, P
    <3> QED
      BY <2>3, <2>4, <2>5, <3>1, WapRises
  <2> QED
    BY <2>2, <2>4, <2>6, <2>7
<1>2. TypeOK /\ StepsConsistent => HardwareOnly
  BY <1>1
<1> QED
  BY <1>2, Typing, Consistent, PTL
=============================================================================

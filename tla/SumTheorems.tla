------------------------------ MODULE SumTheorems ------------------------------
(***************************************************************************)
(* Sums over finite sets, SumFunctionOnSet of the community modules: their *)
(* recursion over the subsets of a set, in the order of CHOOSE, defines a  *)
(* function, and that order does not matter.  Induction is on the strict   *)
(* subsets of a finite set, by a least counterexample.                     *)
(***************************************************************************)
EXTENDS Integers, FiniteSets, FiniteSetsExt, FiniteSetTheorems, TLAPS

\* What holds of a subset whenever it holds of the strict subsets of that one holds
\* of all subsets of a finite set.
LEMMA SubsetInduction ==
  ASSUME NEW S, IsFiniteSet(S), NEW Good,
         \A T \in SUBSET S :
           (\A U \in SUBSET T : U # T => U \in Good) => T \in Good
  PROVE  SUBSET S \subseteq Good
<1> DEFINE Bad == (SUBSET S) \ Good
<1> SUFFICES ASSUME Bad # {} PROVE FALSE
  OBVIOUS
<1>0. FiniteSubsetsOf(S) = SUBSET S
  BY FS_FiniteSubsetsOfFinite
<1>1. IsWellFoundedOn(StrictSubsetOrdering(S), FiniteSubsetsOf(S))
  BY FS_StrictSubsetOrderingWellFounded
<1>2. PICK T \in Bad : \A U \in Bad : ~(<<U, T>> \in StrictSubsetOrdering(S))
  <2>1. Bad \subseteq FiniteSubsetsOf(S)
    BY <1>0
  <2> HIDE DEF Bad
  <2> QED
    BY <1>1, <2>1, WFMin
<1>3. \A U \in SUBSET T : U # T => U \in Good
  BY <1>2 DEF StrictSubsetOrdering
<1> QED
  BY <1>2, <1>3

-----------------------------------------------------------------------------
\* SumFunctionOnSet takes the elements in this order.
Pick(s) == CHOOSE x \in s : TRUE

\* g computes the sums of f over the subsets of S.
Sums(g, f, S) ==
  g = [s \in SUBSET S |-> IF s = {} THEN 0 ELSE f[Pick(s)] + g[s \ {Pick(s)}]]

\* There is an element to take.
LEMMA PickIn ==
  ASSUME NEW s, s # {} PROVE Pick(s) \in s
BY DEF Pick

\* Two functions that compute the sums of f agree where both are defined.
LEMMA SumsAgree ==
  ASSUME NEW f, NEW S, NEW T, IsFiniteSet(T), T \subseteq S,
         NEW g, Sums(g, f, S), NEW h, Sums(h, f, T)
  PROVE  \A s \in SUBSET T : g[s] = h[s]
<1> DEFINE Good == {s \in SUBSET T : g[s] = h[s]}
<1>1. ASSUME NEW s \in SUBSET T, \A U \in SUBSET s : U # s => U \in Good
      PROVE  s \in Good
  <2>1. CASE s = {}
    BY <2>1 DEF Sums
  <2>2. CASE s # {}
    <3>1. s \ {Pick(s)} \in Good
      BY <1>1, <2>2, PickIn
    <3>2. g[s] = f[Pick(s)] + g[s \ {Pick(s)}] /\ h[s] = f[Pick(s)] + h[s \ {Pick(s)}]
      BY <2>2 DEF Sums
    <3> QED
      BY <3>1, <3>2
  <2> QED
    BY <2>1, <2>2
<1>2. SUBSET T \subseteq Good
  <2> HIDE DEF Good
  <2> QED BY <1>1, SubsetInduction
<1> QED
  BY <1>2

\* Over a finite set, some function does compute them.
LEMMA SumsExist ==
  ASSUME NEW f, NEW S, IsFiniteSet(S)
  PROVE  \E g : Sums(g, f, S)
<1> DEFINE Good == {T \in SUBSET S : \E g : Sums(g, f, T)}
<1>1. ASSUME NEW T \in SUBSET S, \A U \in SUBSET T : U # T => U \in Good
      PROVE  T \in Good
  <2> DEFINE G(U) == CHOOSE g : Sums(g, f, U)
             sum(s) == IF s = {} THEN 0 ELSE f[Pick(s)] + G(s \ {Pick(s)})[s \ {Pick(s)}]
             h == [s \in SUBSET T |-> sum(s)]
  <2>1. \A U \in SUBSET T : U # T => Sums(G(U), f, U)
    BY <1>1
  <2>2. \A U \in SUBSET T : U # T => G(U)[U] = sum(U)
    <3> SUFFICES ASSUME NEW U \in SUBSET T, U # T PROVE G(U)[U] = sum(U)
      OBVIOUS
    <3>1. Sums(G(U), f, U)
      BY <2>1
    <3>2. CASE U = {}
      BY <3>1, <3>2 DEF Sums
    <3>3. CASE U # {}
      <4> DEFINE V == U \ {Pick(U)}
      <4>1. V \in SUBSET T /\ V # T /\ V \in SUBSET U /\ IsFiniteSet(V)
        BY <3>3, PickIn, FS_Subset
      <4>2. Sums(G(V), f, V)
        BY <2>1, <4>1
      <4>3. G(U)[V] = G(V)[V]
        <5> HIDE DEF G, V
        <5> QED BY <3>1, <4>1, <4>2, SumsAgree
      <4>4. G(U)[U] = f[Pick(U)] + G(U)[V]
        <5> HIDE DEF G
        <5> QED BY <3>1, <3>3 DEF Sums
      <4> QED
        BY <3>3, <4>3, <4>4
    <3> QED
      BY <3>2, <3>3
  <2>3. \A s \in SUBSET T : s # {} => s \ {Pick(s)} \in SUBSET T /\ s \ {Pick(s)} # T
    BY PickIn
  <2>4. \A s \in SUBSET T : h[s] = IF s = {} THEN 0 ELSE f[Pick(s)] + h[s \ {Pick(s)}]
    <3> HIDE DEF G
    <3> SUFFICES ASSUME NEW s \in SUBSET T, s # {}
                 PROVE  sum(s) = f[Pick(s)] + h[s \ {Pick(s)}]
      OBVIOUS
    <3> DEFINE V == s \ {Pick(s)}
    <3>1. h[V] = sum(V) /\ G(V)[V] = sum(V)
      BY <2>2, <2>3
    <3> QED
      BY <3>1
  <2>5. Sums(h, f, T)
    <3> HIDE DEF sum
    <3> QED BY <2>4 DEF Sums
  <2> QED
    BY <2>5
<1>2. SUBSET S \subseteq Good
  <2> HIDE DEF Good
  <2> QED BY <1>1, SubsetInduction
<1> QED
  BY <1>2
-----------------------------------------------------------------------------
\* The library's sum is what such a function returns.
LEMMA SumEqs ==
  ASSUME NEW f, NEW S, IsFiniteSet(S)
  PROVE  \E g : Sums(g, f, S) /\ SumFunctionOnSet(f, S) = g[S]
<1> DEFINE iter == CHOOSE g : Sums(g, f, S)
<1>1. Sums(iter, f, S)
  BY SumsExist
<1>2. SumFunctionOnSet(f, S) = iter[S]
  BY Zenon DEF SumFunctionOnSet, FoldFunctionOnSet, MapThenFoldSet, Sums, Pick
<1> QED
  BY <1>1, <1>2

\* The empty sum.
LEMMA SumOfNone ==
  ASSUME NEW f PROVE SumFunctionOnSet(f, {}) = 0
<1>1. IsFiniteSet({})
  BY FS_EmptySet
<1>2. PICK g : Sums(g, f, {}) /\ SumFunctionOnSet(f, {}) = g[{}]
  BY <1>1, SumEqs
<1> QED
  BY <1>2 DEF Sums

\* One step of the recursion.
LEMMA SumPick ==
  ASSUME NEW f, NEW S, IsFiniteSet(S), S # {}
  PROVE  SumFunctionOnSet(f, S) = f[Pick(S)] + SumFunctionOnSet(f, S \ {Pick(S)})
<1> DEFINE T == S \ {Pick(S)}
<1>1. IsFiniteSet(T) /\ T \subseteq S
  BY FS_Subset
<1> HIDE DEF T
<1>2. PICK g : Sums(g, f, S) /\ SumFunctionOnSet(f, S) = g[S]
  BY SumEqs
<1>3. PICK h : Sums(h, f, T) /\ SumFunctionOnSet(f, T) = h[T]
  BY <1>1, SumEqs
<1>4. g[T] = h[T]
  BY <1>1, <1>2, <1>3, SumsAgree
<1>5. g[S] = f[Pick(S)] + g[T]
  BY <1>2 DEF Sums, T
<1> QED
  BY <1>2, <1>3, <1>4, <1>5 DEF T

\* A sum of integers is one.
LEMMA SumIsInt ==
  ASSUME NEW f, NEW S, IsFiniteSet(S), \A x \in S : f[x] \in Int
  PROVE  SumFunctionOnSet(f, S) \in Int
<1> DEFINE Good == {T \in SUBSET S : SumFunctionOnSet(f, T) \in Int}
<1>1. ASSUME NEW T \in SUBSET S, \A U \in SUBSET T : U # T => U \in Good
      PROVE  T \in Good
  <2>1. CASE T = {}
    BY <2>1, SumOfNone
  <2>2. CASE T # {}
    <3>1. T \ {Pick(T)} \in Good /\ Pick(T) \in S /\ IsFiniteSet(T)
      BY <1>1, <2>2, PickIn, FS_Subset
    <3>2. SumFunctionOnSet(f, T) = f[Pick(T)] + SumFunctionOnSet(f, T \ {Pick(T)})
      BY <2>2, <3>1, SumPick
    <3> QED
      BY <3>1, <3>2
  <2> QED
    BY <2>1, <2>2
<1>2. SUBSET S \subseteq Good
  <2> HIDE DEF Good
  <2> QED BY <1>1, SubsetInduction
<1> QED
  BY <1>2

\* The order in which a sum is taken does not matter.
LEMMA SumRemove ==
  ASSUME NEW f, NEW S, IsFiniteSet(S), \A x \in S : f[x] \in Int, NEW x \in S
  PROVE  SumFunctionOnSet(f, S) = f[x] + SumFunctionOnSet(f, S \ {x})
<1> DEFINE Sum(T) == SumFunctionOnSet(f, T)
           Good == {T \in SUBSET S : \A y \in T : Sum(T) = f[y] + Sum(T \ {y})}
<1>0. \A T \in SUBSET S : IsFiniteSet(T) /\ Sum(T) \in Int
  <2>1. \A T \in SUBSET S : IsFiniteSet(T)
    BY FS_Subset
  <2> QED
    BY <2>1, SumIsInt
<1>p. \A T \in SUBSET S : T # {} => Sum(T) = f[Pick(T)] + Sum(T \ {Pick(T)})
  BY <1>0, SumPick
<1> HIDE DEF Sum
<1>1. ASSUME NEW T \in SUBSET S, \A U \in SUBSET T : U # T => U \in Good
      PROVE  T \in Good
  <2> SUFFICES ASSUME NEW y \in T PROVE Sum(T) = f[y] + Sum(T \ {y})
    OBVIOUS
  <2> DEFINE p == Pick(T)
  <2>1. p \in T /\ Sum(T) = f[p] + Sum(T \ {p})
    BY <1>p, PickIn
  <2> HIDE DEF p
  <2>2. CASE p = y
    BY <2>1, <2>2
  <2>3. CASE p # y
    <3>1. T \ {p} \in Good /\ T \ {y} \in Good
      BY <1>1, <2>1
    <3> DEFINE z == Sum((T \ {p}) \ {y})
    <3>2. Sum(T \ {p}) = f[y] + z
      BY <2>1, <2>3, <3>1
    <3>3. Sum(T \ {y}) = f[p] + z
      <4>1. (T \ {p}) \ {y} = (T \ {y}) \ {p}
        OBVIOUS
      <4>2. Sum(T \ {y}) = f[p] + Sum((T \ {y}) \ {p})
        BY <2>1, <2>3, <3>1
      <4> QED
        BY <4>1, <4>2
    <3>4. f[p] \in Int /\ f[y] \in Int /\ z \in Int
      BY <1>0, <2>1
    <3> HIDE DEF z
    <3>5. Sum(T) = f[p] + (f[y] + z)
      BY <2>1, <3>2
    <3>6. f[y] + (f[p] + z) = f[p] + (f[y] + z)
      BY <3>4
    <3> QED
      BY <3>3, <3>5, <3>6
  <2> QED
    BY <2>2, <2>3
<1>2. SUBSET S \subseteq Good
  <2> HIDE DEF Good
  <2> QED BY <1>1, SubsetInduction
<1> QED
  BY <1>2 DEF Sum

\* One more term.
LEMMA SumAdd ==
  ASSUME NEW f, NEW S, IsFiniteSet(S), NEW x, x \notin S,
         \A y \in S \cup {x} : f[y] \in Int
  PROVE  SumFunctionOnSet(f, S \cup {x}) = SumFunctionOnSet(f, S) + f[x]
<1> DEFINE T == S \cup {x}
<1>1. IsFiniteSet(T)
  BY FS_AddElement
<1>2. T \ {x} = S /\ x \in T
  OBVIOUS
<1>3. SumFunctionOnSet(f, T) = f[x] + SumFunctionOnSet(f, T \ {x})
  <2>1. \A y \in T : f[y] \in Int
    OBVIOUS
  <2> HIDE DEF T
  <2> QED
    BY <1>1, <1>2, <2>1, SumRemove
<1>4. SumFunctionOnSet(f, S) \in Int /\ f[x] \in Int
  BY SumIsInt
<1>5. SumFunctionOnSet(f, T) = f[x] + SumFunctionOnSet(f, S)
  <2> HIDE DEF T
  <2> QED
    BY <1>2, <1>3
<1> QED
  BY <1>4, <1>5

\* A sum depends on its terms only.
LEMMA SumSame ==
  ASSUME NEW f, NEW h, NEW S, IsFiniteSet(S), \A x \in S : f[x] = h[x]
  PROVE  SumFunctionOnSet(f, S) = SumFunctionOnSet(h, S)
<1> DEFINE Good == {T \in SUBSET S : SumFunctionOnSet(f, T) = SumFunctionOnSet(h, T)}
<1>1. ASSUME NEW T \in SUBSET S, \A U \in SUBSET T : U # T => U \in Good
      PROVE  T \in Good
  <2>1. CASE T = {}
    BY <2>1, SumOfNone
  <2>2. CASE T # {}
    <3>1. T \ {Pick(T)} \in Good /\ Pick(T) \in S /\ IsFiniteSet(T)
      BY <1>1, <2>2, PickIn, FS_Subset
    <3>2. SumFunctionOnSet(f, T) = f[Pick(T)] + SumFunctionOnSet(f, T \ {Pick(T)})
      BY <2>2, <3>1, SumPick
    <3>3. SumFunctionOnSet(h, T) = h[Pick(T)] + SumFunctionOnSet(h, T \ {Pick(T)})
      BY <2>2, <3>1, SumPick
    <3> QED
      BY <3>1, <3>2, <3>3
  <2> QED
    BY <2>1, <2>2
<1>2. SUBSET S \subseteq Good
  <2> HIDE DEF Good
  <2> QED BY <1>1, SubsetInduction
<1> QED
  BY <1>2

\* A sum of natural numbers is one, and is zero when all of them are, only then.
LEMMA SumIsNat ==
  ASSUME NEW f, NEW S, IsFiniteSet(S), \A x \in S : f[x] \in Nat
  PROVE  /\ SumFunctionOnSet(f, S) \in Nat
         /\ SumFunctionOnSet(f, S) = 0 <=> \A x \in S : f[x] = 0
<1> DEFINE Good == {T \in SUBSET S : /\ SumFunctionOnSet(f, T) \in Nat
                                     /\ SumFunctionOnSet(f, T) = 0
                                          <=> \A x \in T : f[x] = 0}
<1>1. ASSUME NEW T \in SUBSET S, \A U \in SUBSET T : U # T => U \in Good
      PROVE  T \in Good
  <2>1. CASE T = {}
    BY <2>1, SumOfNone
  <2>2. CASE T # {}
    <3>1. T \ {Pick(T)} \in Good /\ Pick(T) \in T /\ IsFiniteSet(T)
      BY <1>1, <2>2, PickIn, FS_Subset
    <3>2. SumFunctionOnSet(f, T) = f[Pick(T)] + SumFunctionOnSet(f, T \ {Pick(T)})
      BY <2>2, <3>1, SumPick
    <3> QED
      BY <3>1, <3>2
  <2> QED
    BY <2>1, <2>2
<1>2. SUBSET S \subseteq Good
  <2> HIDE DEF Good
  <2> QED BY <1>1, SubsetInduction
<1> QED
  BY <1>2

\* The sum over two sets that have no element in common.
LEMMA SumUnion ==
  ASSUME NEW f, NEW S, NEW T, IsFiniteSet(S), IsFiniteSet(T), S \cap T = {},
         \A x \in S \cup T : f[x] \in Int
  PROVE  SumFunctionOnSet(f, S \cup T) = SumFunctionOnSet(f, S) + SumFunctionOnSet(f, T)
<1> DEFINE Sum(U) == SumFunctionOnSet(f, U)
           Good == {U \in SUBSET T : Sum(S \cup U) = Sum(S) + Sum(U)}
<1>1. ASSUME NEW U \in SUBSET T, \A V \in SUBSET U : V # U => V \in Good
      PROVE  U \in Good
  <2>1. IsFiniteSet(U) /\ Sum(S) \in Int
    BY FS_Subset, SumIsInt
  <2>2. CASE U = {}
    <3>1. Sum(S \cup {}) = Sum(S) /\ Sum({}) = 0
      <4>1. S \cup {} = S
        OBVIOUS
      <4> QED
        BY <4>1, SumOfNone
    <3> QED
      BY <2>1, <2>2, <3>1
  <2>3. CASE U # {}
    <3>1. PICK x \in U : TRUE
      BY <2>3
    <3> DEFINE V == U \ {x}
    <3>2. V \in Good /\ IsFiniteSet(V) /\ x \notin S \cup V
      BY <1>1, <2>1, <3>1, FS_Subset
    <3>3. Sum(V) \in Int /\ f[x] \in Int
      BY <3>1, <3>2, SumIsInt
    <3>4. Sum(U) = Sum(V) + f[x]
      <4>1. V \cup {x} = U
        BY <3>1
      <4>2. Sum(V \cup {x}) = Sum(V) + f[x]
        <5>1. \A y \in V \cup {x} : f[y] \in Int
          BY <3>1
        <5> HIDE DEF V
        <5> QED
          BY <3>2, <5>1, SumAdd
      <4> QED
        BY <4>1, <4>2
    <3>5. Sum(S \cup U) = Sum(S \cup V) + f[x]
      <4> DEFINE W == S \cup V
      <4>1. W \cup {x} = S \cup U /\ IsFiniteSet(W)
        BY <3>1, <3>2, FS_Union
      <4>2. Sum(W \cup {x}) = Sum(W) + f[x]
        <5>1. (\A y \in W \cup {x} : f[y] \in Int) /\ x \notin W
          BY <3>1, <3>2
        <5> HIDE DEF W
        <5> QED
          BY <4>1, <5>1, SumAdd
      <4> QED
        BY <4>1, <4>2
    <3>6. Sum(S \cup V) = Sum(S) + Sum(V)
      BY <3>2
    <3> HIDE DEF Sum, V
    <3> QED
      BY <2>1, <3>3, <3>4, <3>5, <3>6 DEF Good
  <2> QED
    BY <2>2, <2>3
<1>2. SUBSET T \subseteq Good
  <2> HIDE DEF Good
  <2> QED BY <1>1, SubsetInduction
<1> QED
  BY <1>2

\* Larger terms have no smaller sum.
LEMMA SumRises ==
  ASSUME NEW f, NEW h, NEW S, IsFiniteSet(S),
         \A x \in S : f[x] \in Int /\ h[x] \in Int /\ f[x] =< h[x]
  PROVE  SumFunctionOnSet(f, S) =< SumFunctionOnSet(h, S)
<1> DEFINE Good == {T \in SUBSET S : SumFunctionOnSet(f, T) =< SumFunctionOnSet(h, T)}
<1>1. ASSUME NEW T \in SUBSET S, \A U \in SUBSET T : U # T => U \in Good
      PROVE  T \in Good
  <2>1. CASE T = {}
    BY <2>1, SumOfNone
  <2>2. CASE T # {}
    <3> DEFINE U == T \ {Pick(T)}
    <3>1. U \in Good /\ Pick(T) \in S /\ IsFiniteSet(T) /\ IsFiniteSet(U)
      BY <1>1, <2>2, PickIn, FS_Subset
    <3>2. SumFunctionOnSet(f, T) = f[Pick(T)] + SumFunctionOnSet(f, U)
      BY <2>2, <3>1, SumPick
    <3>3. SumFunctionOnSet(h, T) = h[Pick(T)] + SumFunctionOnSet(h, U)
      BY <2>2, <3>1, SumPick
    <3>4. SumFunctionOnSet(f, U) \in Int /\ SumFunctionOnSet(h, U) \in Int
      BY <3>1, SumIsInt
    <3> QED
      BY <3>1, <3>2, <3>3, <3>4
  <2> QED
    BY <2>1, <2>2
<1>2. SUBSET S \subseteq Good
  <2> HIDE DEF Good
  <2> QED BY <1>1, SubsetInduction
<1> QED
  BY <1>2

-----------------------------------------------------------------------------
\* A finite set of integers has a greatest element.
LEMMA MaxIsGreatest ==
  ASSUME NEW S, IsFiniteSet(S), S # {}, S \subseteq Int
  PROVE  Max(S) \in S /\ \A x \in S : Max(S) >= x
<1> DEFINE Good == {T \in SUBSET S : T # {} => \E m \in T : \A x \in T : m >= x}
<1>1. ASSUME NEW T \in SUBSET S, \A U \in SUBSET T : U # T => U \in Good
      PROVE  T \in Good
  <2> SUFFICES ASSUME NEW x \in T PROVE \E m \in T : \A y \in T : m >= y
    OBVIOUS
  <2>1. T \ {x} \in Good
    BY <1>1
  <2>2. CASE T \ {x} = {}
    BY <2>2
  <2>3. CASE T \ {x} # {}
    <3>1. PICK m \in T \ {x} : \A y \in T \ {x} : m >= y
      BY <2>1, <2>3
    <3>2. CASE m >= x
      BY <3>1, <3>2
    <3>3. CASE ~(m >= x)
      <4>1. \A y \in T : x >= y
        BY <3>1, <3>3
      <4> QED
        BY <4>1
    <3> QED
      BY <3>2, <3>3
  <2> QED
    BY <2>2, <2>3
<1>2. SUBSET S \subseteq Good
  <2> HIDE DEF Good
  <2> QED BY <1>1, SubsetInduction
<1>3. \E m \in S : \A x \in S : m >= x
  BY <1>2
<1> QED
  BY <1>3 DEF Max

\* And a least one.
LEMMA MinIsLeast ==
  ASSUME NEW S, IsFiniteSet(S), S # {}, S \subseteq Int
  PROVE  Min(S) \in S /\ \A x \in S : Min(S) =< x
<1> DEFINE Good == {T \in SUBSET S : T # {} => \E m \in T : \A x \in T : m =< x}
<1>1. ASSUME NEW T \in SUBSET S, \A U \in SUBSET T : U # T => U \in Good
      PROVE  T \in Good
  <2> SUFFICES ASSUME NEW x \in T PROVE \E m \in T : \A y \in T : m =< y
    OBVIOUS
  <2>1. T \ {x} \in Good
    BY <1>1
  <2>2. CASE T \ {x} = {}
    BY <2>2
  <2>3. CASE T \ {x} # {}
    <3>1. PICK m \in T \ {x} : \A y \in T \ {x} : m =< y
      BY <2>1, <2>3
    <3>2. CASE m =< x
      BY <3>1, <3>2
    <3>3. CASE ~(m =< x)
      <4>1. \A y \in T : x =< y
        BY <3>1, <3>3
      <4> QED
        BY <4>1
    <3> QED
      BY <3>2, <3>3
  <2> QED
    BY <2>2, <2>3
<1>2. SUBSET S \subseteq Good
  <2> HIDE DEF Good
  <2> QED BY <1>1, SubsetInduction
<1>3. \E m \in S : \A x \in S : m =< x
  BY <1>2
<1> QED
  BY <1>3 DEF Min

-----------------------------------------------------------------------------
(***************************************************************************)
(* The same of SumFunction, whose terms are all values of a function.      *)
(***************************************************************************)
\* A sum of integers is one.
LEMMA TotalIsInt ==
  ASSUME NEW f, IsFiniteSet(DOMAIN f), \A x \in DOMAIN f : f[x] \in Int
  PROVE  SumFunction(f) \in Int
BY SumIsInt DEF SumFunction

\* A sum of natural numbers is one, and is zero when all of them are, only then.
LEMMA TotalIsNat ==
  ASSUME NEW f, IsFiniteSet(DOMAIN f), \A x \in DOMAIN f : f[x] \in Nat
  PROVE  /\ SumFunction(f) \in Nat
         /\ SumFunction(f) = 0 <=> \A x \in DOMAIN f : f[x] = 0
BY SumIsNat DEF SumFunction

\* One more term.
LEMMA TotalAdd ==
  ASSUME NEW f, NEW h, NEW x, IsFiniteSet(DOMAIN f), x \notin DOMAIN f,
         DOMAIN h = DOMAIN f \cup {x}, \A y \in DOMAIN f : h[y] = f[y],
         \A y \in DOMAIN h : h[y] \in Int
  PROVE  SumFunction(h) = SumFunction(f) + h[x]
<1> DEFINE S == DOMAIN f
<1>1. SumFunctionOnSet(h, S \cup {x}) = SumFunctionOnSet(h, S) + h[x]
  BY SumAdd
<1>2. SumFunctionOnSet(h, S) = SumFunctionOnSet(f, S)
  BY SumSame
<1> QED
  BY <1>1, <1>2 DEF SumFunction

\* A function with finitely many arguments has finitely many values.
LEMMA RangeFinite ==
  ASSUME NEW f, IsFiniteSet(DOMAIN f) PROVE IsFiniteSet(Range(f))
<1> DEFINE g == [x \in DOMAIN f |-> f[x]]
<1>1. g \in Surjection(DOMAIN f, Range(f))
  BY DEF Surjection, Range
<1> QED
  BY <1>1, FS_Surjection
=============================================================================

------------------------------ MODULE Recursion ------------------------------
(***************************************************************************)
(* Induction and recursion without operator parameters: the induction      *)
(* theorems of the library take a predicate, which the provers cannot      *)
(* instantiate, those below take a set. They rest on WFMin, which is about *)
(* sets already.                                                           *)
(***************************************************************************)
EXTENDS Integers, FiniteSets, FiniteSetsExt, FiniteSetTheorems, WellFoundedInduction, TLAPS

\* A set of naturals that is not empty has a least element.
LEMMA LeastNatural ==
  ASSUME NEW T \in SUBSET Nat, T # {}
  PROVE  \E n \in T : \A m \in T : n <= m
<1> DEFINE R == {p \in Nat \X Nat : p[1] < p[2]}
<1>1. R = OpToRel(<, Nat)
  BY DEF OpToRel
<1>2. IsWellFoundedOn(R, Nat)
  BY <1>1, NatLessThanWellFounded, Zenon
<1> HIDE DEF R
<1>3. PICK n \in T : \A m \in T : ~(<<m, n>> \in R)
  BY <1>2, WFMin
<1>4. \A m \in T : ~(m < n)
  BY <1>3 DEF R
<1> QED BY <1>4

\* ... and a greatest one, if it is bounded.
LEMMA GreatestNatural ==
  ASSUME NEW T \in SUBSET Nat, T # {}, NEW bound \in Nat, \A n \in T : n <= bound
  PROVE  \E n \in T : \A m \in T : m <= n
<1> DEFINE Gaps == {bound - n : n \in T}
<1>1. Gaps \in SUBSET Nat /\ Gaps # {}
  <2>1. \A n \in T : bound - n \in Nat
    OBVIOUS
  <2> QED BY <2>1
<1>2. PICK gap \in Gaps : \A other \in Gaps : gap <= other
  <2> HIDE DEF Gaps
  <2> QED BY <1>1, LeastNatural
<1>3. PICK n \in T : gap = bound - n
  OBVIOUS
<1>4. \A m \in T : bound - n <= bound - m
  BY <1>2, <1>3
<1> QED BY <1>4

\* Induction over the naturals.
LEMMA Induction ==
  ASSUME NEW T, 0 \in T, \A n \in Nat : n \in T => n + 1 \in T
  PROVE  Nat \subseteq T
<1> DEFINE Out == Nat \ T
<1> SUFFICES ASSUME Out # {} PROVE FALSE
  OBVIOUS
<1>1. PICK n \in Out : \A m \in Out : n <= m
  BY LeastNatural
<1>2. n - 1 \in Nat /\ n - 1 \in T
  BY <1>1
<1> QED BY <1>1, <1>2

-----------------------------------------------------------------------------
(* Sums over finite sets, whatever the order in which a fold takes the elements. *)

\* f is the sum of the weights w over each subset of D.
IsSum(f, D, w) ==
  /\ f[{}] = 0
  /\ \A s \in SUBSET D : \A x \in s : f[s] = w[x] + f[s \ {x}]

\* The sum over a set with one element more.
LEMMA SumWithOneMore ==
  ASSUME NEW E, NEW d, d \notin E, NEW w, w[d] \in Nat,
         NEW g \in [SUBSET E -> Nat], IsSum(g, E, w), \A x \in E : w[x] \in Nat
  PROVE  \E f \in [SUBSET (E \cup {d}) -> Nat] : IsSum(f, E \cup {d}, w)
<1> DEFINE f == [s \in SUBSET (E \cup {d}) |-> IF d \in s THEN w[d] + g[s \ {d}] ELSE g[s]]
<1>1. f \in [SUBSET (E \cup {d}) -> Nat]
  <2>1. \A s \in SUBSET (E \cup {d}) : s \ {d} \in SUBSET E /\ (d \notin s => s \in SUBSET E)
    OBVIOUS
  <2> QED BY <2>1
<1>2. f[{}] = 0
  BY DEF IsSum
<1>3. ASSUME NEW s \in SUBSET (E \cup {d}), NEW x \in s
      PROVE  f[s] = w[x] + f[s \ {x}]
  <2>1. CASE d \notin s
    <3>1. s \in SUBSET E /\ s \ {x} \in SUBSET E /\ d \notin s \ {x}
      BY <2>1
    <3> QED BY <2>1, <3>1 DEF IsSum
  <2>2. CASE x = d
    BY <2>2
  <2>3. CASE d \in s /\ x # d
    <3>1. x \in s \ {d} /\ s \ {d} \in SUBSET E /\ (s \ {d}) \ {x} = (s \ {x}) \ {d}
          /\ (s \ {x}) \ {d} \in SUBSET E /\ s \ {x} \in SUBSET (E \cup {d})
      BY <2>3
    <3>2. g[s \ {d}] = w[x] + g[(s \ {x}) \ {d}]
      <4>1. g[s \ {d}] = w[x] + g[(s \ {d}) \ {x}]
        BY <3>1 DEF IsSum
      <4> QED BY <3>1, <4>1
    <3>3. f[s] = w[d] + g[s \ {d}] /\ f[s \ {x}] = w[d] + g[(s \ {x}) \ {d}]
      BY <2>3, <3>1
    <3>4. w[x] \in Nat /\ g[(s \ {x}) \ {d}] \in Nat
      BY <3>1
    <3> HIDE DEF f
    <3> QED BY <3>2, <3>3, <3>4
  <2> QED BY <2>1, <2>2, <2>3
<1> QED BY <1>1, <1>2, <1>3 DEF IsSum

LEMMA SumsExist ==
  ASSUME NEW D, IsFiniteSet(D), NEW w \in [D -> Nat]
  PROVE  \E f \in [SUBSET D -> Nat] : IsSum(f, D, w)
<1> DEFINE Sums(E) == \E f \in [SUBSET E -> Nat] : IsSum(f, E, w)
           T == {n \in Nat : \A E \in SUBSET D : Cardinality(E) = n => Sums(E)}
<1>1. \A E \in SUBSET D : IsFiniteSet(E) /\ Cardinality(E) \in Nat
  BY FS_Subset, FS_CardinalityType
<1>2. 0 \in T
  <2>1. SUFFICES Sums({})
    BY <1>1, FS_EmptySet
  <2> DEFINE f == [s \in {{}} |-> 0]
  <2>2. f \in [SUBSET {} -> Nat] /\ IsSum(f, {}, w)
    BY DEF IsSum
  <2> QED BY <2>2
<1>3. ASSUME NEW n \in Nat, n \in T
      PROVE  n + 1 \in T
  <2> HIDE DEF Sums
  <2> SUFFICES ASSUME NEW E \in SUBSET D, Cardinality(E) = n + 1 PROVE Sums(E)
    OBVIOUS
  <2> USE DEF Sums
  <2>1. E # {}
    <3>1. Cardinality({}) = 0
      BY FS_EmptySet
    <3>2. n + 1 # 0
      OBVIOUS
    <3> QED BY <3>1, <3>2, Zenon
  <2>2. PICK d \in E : TRUE
    BY <2>1
  <2>3. E \ {d} \in SUBSET D /\ Cardinality(E \ {d}) = n
    <3>1. IsFiniteSet(E)
      BY <1>1
    <3>2. Cardinality(E \ {d}) = Cardinality(E) - 1
      BY <3>1, FS_RemoveElement
    <3>3. (n + 1) - 1 = n
      OBVIOUS
    <3> QED BY <3>2, <3>3
  <2>4. PICK g \in [SUBSET (E \ {d}) -> Nat] : IsSum(g, E \ {d}, w)
    BY <1>3, <2>3
  <2>5. (E \ {d}) \cup {d} = E
    OBVIOUS
  <2>6. \E f \in [SUBSET ((E \ {d}) \cup {d}) -> Nat] : IsSum(f, (E \ {d}) \cup {d}, w)
    BY <2>4, SumWithOneMore
  <2> QED BY <2>5, <2>6
<1>4. Nat \subseteq T
  <2> HIDE DEF T
  <2> QED BY <1>2, <1>3, Induction
<1> QED BY <1>1, <1>4

\* The sum over a part is at most the sum over the whole.
LEMMA SumsGrow ==
  ASSUME NEW D, IsFiniteSet(D), NEW w \in [D -> Nat],
         NEW f \in [SUBSET D -> Nat], IsSum(f, D, w),
         NEW whole \in SUBSET D, NEW part \in SUBSET whole
  PROVE  f[part] <= f[whole]
<1> DEFINE T == {n \in Nat : \A s \in SUBSET D : part \subseteq s /\ Cardinality(s \ part) = n
                               => f[part] <= f[s]}
<1>1. \A E \in SUBSET D : IsFiniteSet(E) /\ Cardinality(E) \in Nat
  BY FS_Subset, FS_CardinalityType
<1>2. 0 \in T
  <2>1. ASSUME NEW s \in SUBSET D, part \subseteq s, Cardinality(s \ part) = 0
        PROVE  f[part] <= f[s]
    <3>1. s \ part = {}
      BY <1>1, <2>1, FS_EmptySet
    <3>2. s = part
      BY <2>1, <3>1
    <3> QED BY <3>2
  <2> QED BY <2>1
<1>3. ASSUME NEW n \in Nat, n \in T
      PROVE  n + 1 \in T
  <2> SUFFICES ASSUME NEW s \in SUBSET D, part \subseteq s, Cardinality(s \ part) = n + 1
               PROVE  f[part] <= f[s]
    OBVIOUS
  <2>1. s \ part # {}
    <3>1. Cardinality({}) = 0
      BY FS_EmptySet
    <3>2. n + 1 # 0
      OBVIOUS
    <3> QED BY <3>1, <3>2, Zenon
  <2>2. PICK d \in s \ part : TRUE
    BY <2>1
  <2>3. (s \ part) \ {d} = (s \ {d}) \ part /\ s \ {d} \in SUBSET D /\ part \subseteq s \ {d}
    BY <1>3, <2>2
  <2>4. Cardinality((s \ {d}) \ part) = n
    <3>1. IsFiniteSet(s \ part) /\ d \in s \ part
      BY <1>1, <2>2
    <3>2. Cardinality((s \ part) \ {d}) = Cardinality(s \ part) - 1
      BY <3>1, FS_RemoveElement
    <3>3. (n + 1) - 1 = n
      OBVIOUS
    <3> QED BY <2>3, <3>2, <3>3
  <2>5. f[part] <= f[s \ {d}]
    BY <1>3, <2>3, <2>4
  <2>6. f[s] = w[d] + f[s \ {d}] /\ w[d] \in Nat
    BY <2>2 DEF IsSum
  <2>7. f[part] \in Nat /\ f[s \ {d}] \in Nat
    BY <2>3
  <2> HIDE DEF T
  <2> QED BY <2>5, <2>6, <2>7
<1>4. Nat \subseteq T
  <2> HIDE DEF T
  <2> QED BY <1>2, <1>3, Induction
<1>5. whole \ part \in SUBSET D
  OBVIOUS
<1> QED BY <1>1, <1>4, <1>5

\* What a fold over S computes that takes the elements in the order of choose.
Adds(g, S, w, choose) ==
  /\ g[{}] = 0
  /\ \A s \in SUBSET S : s # {} => choose[s] \in s /\ g[s] = w[choose[s]] + g[s \ {choose[s]}]

\* Every order gives the sum.
LEMMA SumsAreUnique ==
  ASSUME NEW D, IsFiniteSet(D), NEW w \in [D -> Nat],
         NEW f \in [SUBSET D -> Nat], IsSum(f, D, w),
         NEW S \in SUBSET D, NEW choose, NEW g, Adds(g, S, w, choose)
  PROVE  g[S] = f[S]
<1> DEFINE T == {n \in Nat : \A s \in SUBSET S : Cardinality(s) = n => g[s] = f[s]}
<1>1. \A E \in SUBSET D : IsFiniteSet(E) /\ Cardinality(E) \in Nat
  BY FS_Subset, FS_CardinalityType
<1>2. 0 \in T
  <2>1. \A s \in SUBSET S : Cardinality(s) = 0 => s = {}
    BY <1>1, FS_EmptySet
  <2> QED BY <2>1 DEF IsSum, Adds
<1>3. ASSUME NEW n \in Nat, n \in T
      PROVE  n + 1 \in T
  <2> SUFFICES ASSUME NEW s \in SUBSET S, Cardinality(s) = n + 1 PROVE g[s] = f[s]
    OBVIOUS
  <2>1. s # {} /\ s \in SUBSET D
    <3>1. Cardinality({}) = 0
      BY FS_EmptySet
    <3>2. n + 1 # 0
      OBVIOUS
    <3> QED BY <3>1, <3>2, Zenon
  <2>2. choose[s] \in s
    BY <2>1 DEF Adds
  <2>3. Cardinality(s \ {choose[s]}) = n /\ s \ {choose[s]} \in SUBSET S
    <3>1. IsFiniteSet(s)
      BY <1>1, <2>1
    <3>2. Cardinality(s \ {choose[s]}) = Cardinality(s) - 1
      BY <2>2, <3>1, FS_RemoveElement
    <3> QED BY <3>2
  <2>4. g[s \ {choose[s]}] = f[s \ {choose[s]}]
    BY <1>3, <2>3
  <2>5. g[s] = w[choose[s]] + g[s \ {choose[s]}]
    BY <2>1 DEF Adds
  <2>6. f[s] = w[choose[s]] + f[s \ {choose[s]}]
    BY <2>1, <2>2 DEF IsSum
  <2> QED BY <2>4, <2>5, <2>6
<1>4. Nat \subseteq T
  <2> HIDE DEF T
  <2> QED BY <1>2, <1>3, Induction
<1> QED BY <1>1, <1>4

\* Elements without weight do not count.
LEMMA SumsSkipZeros ==
  ASSUME NEW D, IsFiniteSet(D), NEW w \in [D -> Nat],
         NEW f \in [SUBSET D -> Nat], IsSum(f, D, w),
         NEW whole \in SUBSET D, NEW part \in SUBSET whole, \A x \in whole \ part : w[x] = 0
  PROVE  f[part] = f[whole]
<1> DEFINE T == {n \in Nat : \A s \in SUBSET whole : part \subseteq s /\ Cardinality(s \ part) = n
                               => f[part] = f[s]}
<1>1. \A E \in SUBSET D : IsFiniteSet(E) /\ Cardinality(E) \in Nat
  BY FS_Subset, FS_CardinalityType
<1>2. 0 \in T
  <2>1. ASSUME NEW s \in SUBSET whole, part \subseteq s, Cardinality(s \ part) = 0
        PROVE  f[part] = f[s]
    <3>1. s \ part = {}
      BY <1>1, <2>1, FS_EmptySet
    <3>2. s = part
      BY <2>1, <3>1
    <3> QED BY <3>2
  <2> QED BY <2>1
<1>3. ASSUME NEW n \in Nat, n \in T
      PROVE  n + 1 \in T
  <2> SUFFICES ASSUME NEW s \in SUBSET whole, part \subseteq s, Cardinality(s \ part) = n + 1
               PROVE  f[part] = f[s]
    OBVIOUS
  <2>1. s \ part # {}
    <3>1. Cardinality({}) = 0
      BY FS_EmptySet
    <3>2. n + 1 # 0
      OBVIOUS
    <3> QED BY <3>1, <3>2, Zenon
  <2>2. PICK d \in s \ part : TRUE
    BY <2>1
  <2>3. (s \ part) \ {d} = (s \ {d}) \ part /\ s \ {d} \in SUBSET whole /\ part \subseteq s \ {d}
    BY <1>3, <2>2
  <2>4. Cardinality((s \ {d}) \ part) = n
    <3>1. IsFiniteSet(s \ part) /\ d \in s \ part
      BY <1>1, <2>2
    <3>2. Cardinality((s \ part) \ {d}) = Cardinality(s \ part) - 1
      BY <3>1, FS_RemoveElement
    <3>3. (n + 1) - 1 = n
      OBVIOUS
    <3> QED BY <2>3, <3>2, <3>3
  <2>5. f[part] = f[s \ {d}]
    BY <1>3, <2>3, <2>4
  <2>6. f[s] = w[d] + f[s \ {d}] /\ w[d] = 0
    BY <2>2 DEF IsSum
  <2>7. f[s \ {d}] \in Nat
    BY <2>3
  <2> HIDE DEF T
  <2> QED BY <2>5, <2>6, <2>7
<1>4. Nat \subseteq T
  <2> HIDE DEF T
  <2> QED BY <1>2, <1>3, Induction
<1> QED BY <1>1, <1>4

\* SumFunctionOnSet of the community modules computes the sum.
LEMMA SumOnSetIsSum ==
  ASSUME NEW D, IsFiniteSet(D), NEW w \in [D -> Nat],
         NEW f \in [SUBSET D -> Nat], IsSum(f, D, w),
         NEW S \in SUBSET D, NEW fun, \A x \in S : fun[x] = w[x]
  PROVE  SumFunctionOnSet(fun, S) = f[S]
<1> DEFINE Body(g) == [s \in SUBSET S |->
             IF s = {} THEN 0
             ELSE LET x == CHOOSE x \in s : TRUE IN fun[x] + g[s \ {x}]]
           g == CHOOSE g : g = Body(g)
           h == [s \in SUBSET S |-> f[s]]
           choose == [s \in SUBSET D |-> CHOOSE x \in s : TRUE]
<1>1. SumFunctionOnSet(fun, S) = g[S]
  BY DEF SumFunctionOnSet, FoldFunctionOnSet, MapThenFoldSet
<1>2. \A s \in SUBSET D : s # {} => choose[s] \in s
  OBVIOUS
<1>3. h = Body(h)
  <2>1. ASSUME NEW s \in SUBSET S
        PROVE  f[s] = IF s = {} THEN 0
                      ELSE LET x == CHOOSE x \in s : TRUE IN fun[x] + f[s \ {x}]
    <3>1. CASE s = {}
      BY <3>1 DEF IsSum
    <3>2. CASE s # {}
      <4>1. s \in SUBSET D /\ choose[s] \in s
        BY <1>2, <3>2
      <4>2. f[s] = w[choose[s]] + f[s \ {choose[s]}]
        BY <4>1 DEF IsSum
      <4>3. w[choose[s]] = fun[choose[s]] /\ choose[s] = CHOOSE x \in s : TRUE
        BY <4>1
      <4> HIDE DEF choose
      <4> QED BY <3>2, <4>2, <4>3
    <3> QED BY <3>1, <3>2
  <2>2. \A s \in SUBSET S : s \ {CHOOSE x \in s : TRUE} \in SUBSET S
    OBVIOUS
  <2>3. \A s \in SUBSET S : /\ h[s] = f[s]
                            /\ h[s \ {CHOOSE x \in s : TRUE}] = f[s \ {CHOOSE x \in s : TRUE}]
    BY <2>2
  <2>4. h = [s \in SUBSET S |-> h[s]]
    OBVIOUS
  <2> HIDE DEF choose, g, h
  <2>5. \A s \in SUBSET S :
          h[s] = IF s = {} THEN 0
                 ELSE LET x == CHOOSE x \in s : TRUE IN fun[x] + h[s \ {x}]
    BY <2>1, <2>3
  <2> QED BY <2>4, <2>5
<1>4. g = Body(g)
  <2> HIDE DEF Body, h
  <2> QED BY <1>3
<1>5. g[{}] = 0
  BY <1>4
<1>6. ASSUME NEW s \in SUBSET S, s # {}
      PROVE  g[s] = w[choose[s]] + g[s \ {choose[s]}]
  <2>1. g[s] = Body(g)[s]
    BY <1>4
  <2>2. choose[s] = CHOOSE x \in s : TRUE
    OBVIOUS
  <2>3. Body(g)[s] = fun[choose[s]] + g[s \ {choose[s]}]
    <3> HIDE DEF g, choose
    <3> QED BY <1>6, <2>2
  <2>4. choose[s] \in S
    BY <1>2, <1>6
  <2> HIDE DEF g, choose, Body
  <2> QED BY <2>1, <2>3, <2>4
<1> HIDE DEF g, choose, h
<1>7. Adds(g, S, w, choose)
  BY <1>2, <1>5, <1>6 DEF Adds
<1>8. g[S] = f[S]
  <2> HIDE DEF Body
  <2> QED BY <1>7, SumsAreUnique
<1> QED BY <1>1, <1>8

\* It looks at the elements of the set only.
LEMMA SumsAgree ==
  ASSUME NEW D, IsFiniteSet(D), NEW S \in SUBSET D, NEW fun, NEW other,
         \A x \in S : fun[x] \in Nat /\ other[x] = fun[x]
  PROVE  SumFunctionOnSet(fun, S) = SumFunctionOnSet(other, S)
<1> DEFINE w == [x \in D |-> IF x \in S THEN fun[x] ELSE 0]
<1>1. w \in [D -> Nat]
  OBVIOUS
<1>2. \A x \in S : fun[x] = w[x] /\ other[x] = w[x]
  OBVIOUS
<1> HIDE DEF w
<1>3. PICK f \in [SUBSET D -> Nat] : IsSum(f, D, w)
  BY <1>1, SumsExist
<1>4. SumFunctionOnSet(fun, S) = f[S] /\ SumFunctionOnSet(other, S) = f[S]
  BY <1>1, <1>2, <1>3, SumOnSetIsSum
<1> QED BY <1>4

-----------------------------------------------------------------------------
(* Folds over a sequence: the last place of each prefix is folded last. *)

LEMMA MaxInside ==
  ASSUME NEW n \in Nat, NEW s \in SUBSET (1..n), s # {}
  PROVE  Max(s) \in s /\ \A i \in s : i <= Max(s)
<1>1. s \in SUBSET Nat /\ \A i \in s : i <= n
  OBVIOUS
<1>2. \E m \in s : \A i \in s : i <= m
  BY <1>1, GreatestNatural
<1>3. \E m \in s : \A i \in s : m >= i
  BY <1>1, <1>2
<1>4. Max(s) \in s /\ \A i \in s : Max(s) >= i
  BY <1>3 DEF Max
<1> QED BY <1>1, <1>4

LEMMA MaxIsLast ==
  ASSUME NEW n \in Nat, NEW s \in SUBSET (1..(n + 1)), n + 1 \in s
  PROVE  Max(s) = n + 1
<1>1. Max(s) \in s /\ n + 1 <= Max(s)
  <2>1. n + 1 \in Nat /\ s # {}
    OBVIOUS
  <2> QED BY <2>1, MaxInside
<1>2. Max(s) \in 1..(n + 1)
  BY <1>1
<1> QED BY <1>1, <1>2

LEMMA FirstPlaces ==
  ASSUME NEW n \in Nat, NEW k \in 1..n
  PROVE  /\ k \in Nat /\ k - 1 \in Nat /\ (k - 1) + 1 = k /\ 1..k # {}
         /\ 1..k \in SUBSET (1..n) /\ (1..k) \ {k} = 1..(k - 1)
         /\ 1..(k - 1) \in SUBSET (1..n) /\ Max(1..k) = k
<1>1. /\ k \in Nat /\ k - 1 \in Nat /\ (k - 1) + 1 = k /\ 1..k # {}
      /\ 1..k \in SUBSET (1..n)
  OBVIOUS
<1>2. (1..k) \ {k} = 1..(k - 1) /\ 1..(k - 1) \in SUBSET (1..n)
  OBVIOUS
<1>3. Max(1..k) = k
  <2>1. 1..k \in SUBSET (1..((k - 1) + 1)) /\ (k - 1) + 1 \in 1..k
    BY <1>1
  <2>2. Max(1..k) = (k - 1) + 1
    BY <1>1, <2>1, MaxIsLast
  <2> QED BY <1>1, <2>2
<1> QED BY <1>1, <1>2, <1>3

IsFold(f, n, base, step) ==
  \A s \in SUBSET (1..n) : f[s] = IF s = {} THEN base ELSE step[Max(s)][f[s \ {Max(s)}]]

\* A fold over n places has a value for every set of places.
LEMMA FoldExists ==
  ASSUME NEW V, NEW base \in V, NEW n \in Nat, NEW step \in [1..n -> [V -> V]]
  PROVE  \E f \in [SUBSET (1..n) -> V] : IsFold(f, n, base, step)
<1> DEFINE Folds(f, k) == IsFold(f, k, base, step)
           Folded(k) == \E f \in [SUBSET (1..k) -> V] : Folds(f, k)
           T == {k \in Nat : k <= n => Folded(k)}
<1>1. 0 \in T
  <2> DEFINE f == [s \in SUBSET (1..0) |-> base]
  <2>1. 1..0 = {}
    OBVIOUS
  <2>2. f \in [SUBSET (1..0) -> V] /\ Folds(f, 0)
    BY <2>1 DEF IsFold
  <2> QED BY <2>2
<1>2. ASSUME NEW k \in Nat, k \in T
      PROVE  k + 1 \in T
  <2> HIDE DEF Folded
  <2> SUFFICES ASSUME k + 1 <= n PROVE Folded(k + 1)
    OBVIOUS
  <2>1. k <= n
    OBVIOUS
  <2>9. Folded(k)
    BY <1>2, <2>1
  <2> USE DEF Folded
  <2>2. PICK g \in [SUBSET (1..k) -> V] : Folds(g, k)
    BY <2>9
  <2> HIDE DEF T
  <2> DEFINE f == [s \in SUBSET (1..(k + 1)) |->
                     IF k + 1 \in s THEN step[k + 1][g[s \ {k + 1}]] ELSE g[s]]
  <2>3. ASSUME NEW s \in SUBSET (1..(k + 1)), k + 1 \in s
        PROVE  Max(s) = k + 1 /\ s \ {k + 1} \in SUBSET (1..k)
    BY <2>3, MaxIsLast
  <2>4. ASSUME NEW s \in SUBSET (1..(k + 1)), k + 1 \notin s
        PROVE  /\ s \in SUBSET (1..k)
               /\ s # {} => Max(s) # k + 1 /\ s \ {Max(s)} \in SUBSET (1..k)
    <3>1. s \in SUBSET (1..k)
      BY <2>4
    <3>2. s # {} => Max(s) \in s
      BY <3>1, MaxInside
    <3> QED BY <2>4, <3>1, <3>2
  <2>5. k + 1 \in 1..n
    OBVIOUS
  <2>6. f \in [SUBSET (1..(k + 1)) -> V]
    <3>1. \A v \in V : step[k + 1][v] \in V
      BY <2>5
    <3> QED BY <2>3, <2>4, <3>1
  <2>7. ASSUME NEW s \in SUBSET (1..(k + 1))
        PROVE  f[s] = IF s = {} THEN base ELSE step[Max(s)][f[s \ {Max(s)}]]
    <3>1. CASE k + 1 \in s
      <4>1. s \ {k + 1} \in SUBSET (1..(k + 1)) /\ k + 1 \notin s \ {k + 1} /\ s # {}
        BY <3>1
      <4>2. f[s] = step[k + 1][g[s \ {k + 1}]]
        BY <3>1
      <4>3. f[s \ {k + 1}] = g[s \ {k + 1}]
        BY <4>1
      <4> HIDE DEF f
      <4> QED BY <2>3, <3>1, <4>1, <4>2, <4>3
    <3>2. CASE k + 1 \notin s
      <4>1. f[s] = g[s]
        BY <3>2
      <4>2. s \ {Max(s)} \in SUBSET (1..(k + 1)) /\ k + 1 \notin s \ {Max(s)}
        BY <3>2
      <4>3. f[s \ {Max(s)}] = g[s \ {Max(s)}]
        BY <4>2
      <4> HIDE DEF f
      <4> QED BY <2>2, <2>4, <3>2, <4>1, <4>3 DEF IsFold
    <3> QED BY <3>1, <3>2
  <2>8. IsFold(f, k + 1, base, step)
    <3> HIDE DEF f
    <3> QED BY <2>7 DEF IsFold
  <2> HIDE DEF f
  <2> QED BY <2>6, <2>8
<1>3. Nat \subseteq T
  <2> HIDE DEF T
  <2> QED BY <1>1, <1>2, Induction
<1>4. Folded(n)
  <2> HIDE DEF Folded
  <2>1. n \in T
    BY <1>3
  <2> QED BY <2>1
<1> QED BY <1>4

-----------------------------------------------------------------------------
(* Sorting: R is an order on a set, as a set of pairs. *)

Orders(R, C) ==
  \A x, y, z \in C : /\ <<x, x>> \notin R
                     /\ x # y => <<x, y>> \in R \/ <<y, x>> \in R
                     /\ <<x, y>> \in R /\ <<y, z>> \in R => <<x, z>> \in R

\* Of finitely many elements one comes last.
LEMMA OneComesLast ==
  ASSUME NEW R, NEW C, IsFiniteSet(C), Orders(R, C), C # {}
  PROVE  \E last \in C : \A x \in C \ {last} : <<x, last>> \in R
<1> DEFINE Has(E) == \E last \in E : \A x \in E \ {last} : <<x, last>> \in R
           T == {n \in Nat : \A E \in SUBSET C : Cardinality(E) = n + 1 => Has(E)}
<1>1. \A E \in SUBSET C : IsFiniteSet(E) /\ Cardinality(E) \in Nat
  BY FS_Subset, FS_CardinalityType
<1>2. 0 \in T
  <2>1. ASSUME NEW E \in SUBSET C, Cardinality(E) = 1
        PROVE  Has(E)
    <3>1. \E x : E = {x}
      BY <1>1, <2>1, FS_Singleton
    <3> QED BY <3>1
  <2> HIDE DEF Has
  <2> QED BY <2>1
<1>3. ASSUME NEW n \in Nat, n \in T
      PROVE  n + 1 \in T
  <2> HIDE DEF Has
  <2> SUFFICES ASSUME NEW E \in SUBSET C, Cardinality(E) = (n + 1) + 1 PROVE Has(E)
    OBVIOUS
  <2>1. E # {}
    <3>1. Cardinality({}) = 0
      BY FS_EmptySet
    <3>2. (n + 1) + 1 # 0
      OBVIOUS
    <3> QED BY <3>1, <3>2, Zenon
  <2>2. PICK first \in E : TRUE
    BY <2>1
  <2>3. Cardinality(E \ {first}) = n + 1 /\ E \ {first} \in SUBSET C
    <3>1. IsFiniteSet(E)
      BY <1>1
    <3>2. Cardinality(E \ {first}) = Cardinality(E) - 1
      BY <3>1, FS_RemoveElement
    <3>3. ((n + 1) + 1) - 1 = n + 1
      OBVIOUS
    <3> QED BY <3>2, <3>3
  <2>4. Has(E \ {first})
    BY <1>3, <2>3
  <2> HIDE DEF T
  <2> USE DEF Has
  <2>5. PICK last \in E \ {first} : \A x \in (E \ {first}) \ {last} : <<x, last>> \in R
    BY <2>4
  <2>6. first \in C /\ last \in C /\ first # last
    BY <2>2, <2>5
  <2>7. CASE <<first, last>> \in R
    <3>1. \A x \in E \ {last} : <<x, last>> \in R
      BY <2>5, <2>7
    <3> QED BY <2>5, <3>1
  <2>8. CASE <<last, first>> \in R
    <3>1. ASSUME NEW x \in E \ {first}
          PROVE  <<x, first>> \in R
      <4>1. x \in C
        OBVIOUS
      <4>2. x = last \/ <<x, last>> \in R
        BY <2>5
      <4> QED BY <2>6, <2>8, <4>1, <4>2 DEF Orders
    <3> QED BY <2>2, <3>1
  <2>9. <<first, last>> \in R \/ <<last, first>> \in R
    BY <2>6 DEF Orders
  <2> HIDE DEF Has
  <2> QED BY <2>7, <2>8, <2>9
<1>4. Nat \subseteq T
  <2> HIDE DEF T
  <2> QED BY <1>2, <1>3, Induction
<1>5. Cardinality(C) \in Nat /\ Cardinality(C) # 0
  BY <1>1, FS_EmptySet
<1>6. Cardinality(C) - 1 \in T /\ (Cardinality(C) - 1) + 1 = Cardinality(C)
  BY <1>4, <1>5
<1>7. Has(C)
  <2> HIDE DEF Has
  <2> QED BY <1>6
<1> QED BY <1>7

\* items holds each element of C once, in the order of R.
SortedBy(R, C, n, items) ==
  /\ items \in [1..n -> C]
  /\ \A x \in C : \E i \in 1..n : items[i] = x
  /\ \A i, j \in 1..n : i < j => <<items[i], items[j]>> \in R

LEMMA SortedExists ==
  ASSUME NEW R, NEW C, IsFiniteSet(C), Orders(R, C)
  PROVE  \E items : SortedBy(R, C, Cardinality(C), items)
<1> DEFINE Has(E, n) == \E items : SortedBy(R, E, n, items)
           T == {n \in Nat : \A E \in SUBSET C : Cardinality(E) = n => Has(E, n)}
<1>2. \A E \in SUBSET C : IsFiniteSet(E) /\ Cardinality(E) \in Nat
  BY FS_Subset, FS_CardinalityType
<1>3. 0 \in T
  <2>1. ASSUME NEW E \in SUBSET C, Cardinality(E) = 0
        PROVE  Has(E, 0)
    <3>1. E = {}
      BY <1>2, <2>1, FS_EmptySet
    <3>2. 1..0 = {}
      OBVIOUS
    <3>3. SortedBy(R, E, 0, [i \in 1..0 |-> i])
      BY <3>1, <3>2 DEF SortedBy
    <3> QED BY <3>3
  <2> HIDE DEF Has
  <2> QED BY <2>1
<1>4. ASSUME NEW n \in Nat, n \in T
      PROVE  n + 1 \in T
  <2> HIDE DEF Has
  <2> SUFFICES ASSUME NEW E \in SUBSET C, Cardinality(E) = n + 1 PROVE Has(E, n + 1)
    OBVIOUS
  <2>1. E # {}
    <3>1. Cardinality({}) = 0
      BY FS_EmptySet
    <3>2. n + 1 # 0
      OBVIOUS
    <3> QED BY <3>1, <3>2, Zenon
  <2>2. PICK last \in E : \A x \in E \ {last} : <<x, last>> \in R
    <3>1. IsFiniteSet(E) /\ Orders(R, E)
      BY <1>2 DEF Orders
    <3> QED BY <2>1, <3>1, OneComesLast
  <2>3. Cardinality(E \ {last}) = n /\ E \ {last} \in SUBSET C
    <3>1. IsFiniteSet(E)
      BY <1>2
    <3>2. Cardinality(E \ {last}) = Cardinality(E) - 1
      BY <3>1, FS_RemoveElement
    <3>3. (n + 1) - 1 = n
      OBVIOUS
    <3> QED BY <3>2, <3>3
  <2>4. Has(E \ {last}, n)
    BY <1>4, <2>3
  <2> HIDE DEF T
  <2> USE DEF Has
  <2>5. PICK items : SortedBy(R, E \ {last}, n, items)
    BY <2>4
  <2> DEFINE more == [i \in 1..(n + 1) |-> IF i = n + 1 THEN last ELSE items[i]]
  <2>6. \A i \in 1..(n + 1) : i # n + 1 => i \in 1..n
    OBVIOUS
  <2>7. more \in [1..(n + 1) -> E]
    BY <2>5, <2>6 DEF SortedBy
  <2>8. ASSUME NEW x \in E
        PROVE  \E i \in 1..(n + 1) : more[i] = x
    <3>1. CASE x = last
      BY <3>1
    <3>2. CASE x # last
      <4>1. PICK i \in 1..n : items[i] = x
        BY <2>5, <3>2 DEF SortedBy
      <4>2. i \in 1..(n + 1) /\ more[i] = x
        BY <4>1
      <4> QED BY <4>2
    <3> QED BY <3>1, <3>2
  <2>9. ASSUME NEW i \in 1..(n + 1), NEW j \in 1..(n + 1), i < j
        PROVE  <<more[i], more[j]>> \in R
    <3>1. i \in 1..n /\ more[i] = items[i] /\ items[i] \in E \ {last}
      BY <2>5, <2>9 DEF SortedBy
    <3>2. CASE j = n + 1
      <4>1. more[j] = last
        BY <3>2
      <4> QED BY <2>2, <3>1, <4>1
    <3>3. CASE j # n + 1
      <4>1. j \in 1..n /\ more[j] = items[j]
        BY <3>3
      <4>2. <<items[i], items[j]>> \in R
        BY <2>5, <2>9, <3>1, <4>1 DEF SortedBy
      <4> QED BY <3>1, <4>1, <4>2
    <3> QED BY <3>2, <3>3
  <2>10. SortedBy(R, E, n + 1, more)
    <3> HIDE DEF more
    <3> QED BY <2>7, <2>8, <2>9 DEF SortedBy
  <2> QED BY <2>10
<1>5. Nat \subseteq T
  <2> HIDE DEF T
  <2> QED BY <1>3, <1>4, Induction
<1>6. Has(C, Cardinality(C))
  <2> HIDE DEF Has
  <2> QED BY <1>2, <1>5
<1> QED BY <1>6

\* How many come before v.
Rank(R, C, v) == Cardinality({u \in C : <<u, v>> \in R})

LEMMA RankIsPlace ==
  ASSUME NEW R, NEW C, Orders(R, C), NEW n \in Nat, NEW first, SortedBy(R, C, n, first)
  PROVE  \A i \in 1..n : Rank(R, C, first[i]) = i - 1
<1>1. n \in Nat
  OBVIOUS
<1>3. \A i, j \in 1..n : <<first[i], first[j]>> \in R => i < j
  <2> SUFFICES ASSUME NEW i \in 1..n, NEW j \in 1..n, <<first[i], first[j]>> \in R, ~(i < j)
               PROVE  FALSE
    OBVIOUS
  <2>1. first[i] \in C /\ first[j] \in C
    BY DEF SortedBy
  <2>2. i = j \/ j < i
    BY <1>1
  <2>3. i = j \/ <<first[j], first[i]>> \in R
    BY <2>2 DEF SortedBy
  <2> QED BY <2>1, <2>3 DEF Orders
<1>4. ASSUME NEW i \in 1..n
      PROVE  Rank(R, C, first[i]) = i - 1
  <2> DEFINE Ahead == {u \in C : <<u, first[i]>> \in R}
             back == [j \in 1..(i - 1) |-> first[j]]
  <2>1. i - 1 \in Nat /\ 1..(i - 1) \subseteq 1..n /\ \A j \in 1..n : j < i => j \in 1..(i - 1)
    BY <1>1
  <2>2. back \in [1..(i - 1) -> Ahead]
    <3>1. \A j \in 1..(i - 1) : j \in 1..n /\ j < i
      BY <1>1, <2>1
    <3>2. \A j \in 1..(i - 1) : first[j] \in Ahead
      BY <3>1 DEF SortedBy
    <3> QED BY <3>2
  <2>3. \A u \in Ahead : \E j \in 1..(i - 1) : back[j] = u
    <3> SUFFICES ASSUME NEW u \in Ahead PROVE \E j \in 1..(i - 1) : back[j] = u
      OBVIOUS
    <3>1. PICK j \in 1..n : first[j] = u
      BY DEF SortedBy
    <3>2. j \in 1..(i - 1)
      BY <1>3, <2>1, <3>1
    <3> QED BY <3>1, <3>2
  <2>4. \A j, k \in 1..(i - 1) : back[j] = back[k] => j = k
    <3> SUFFICES ASSUME NEW j \in 1..(i - 1), NEW k \in 1..(i - 1), first[j] = first[k], j # k
                 PROVE  FALSE
      OBVIOUS
    <3>1. j \in 1..n /\ k \in 1..n /\ (j < k \/ k < j)
      BY <1>1, <2>1
    <3>2. <<first[j], first[j]>> \in R /\ first[j] \in C
      BY <3>1 DEF SortedBy
    <3> QED BY <3>2 DEF Orders
  <2> HIDE DEF Ahead, back
  <2>5. ExistsBijection(1..(i - 1), Ahead)
    <3>1. back \in Bijection(1..(i - 1), Ahead)
      BY <2>2, <2>3, <2>4 DEF Bijection, Injection, Surjection, IsInjective
    <3> QED BY <3>1 DEF ExistsBijection
  <2>6. Cardinality(Ahead) = i - 1
    BY <2>1, <2>5, FS_CountingElements
  <2> QED BY <2>6 DEF Ahead, Rank
<1> QED BY <1>4

\* Taking the elements one rank after the other sorts them: every rank is taken ...
LEMMA RankIsTaken ==
  ASSUME NEW R, NEW C, IsFiniteSet(C), Orders(R, C), NEW i \in 1..Cardinality(C)
  PROVE  \E v \in C : Rank(R, C, v) = i - 1
<1>1. Cardinality(C) \in Nat
  BY FS_CardinalityType
<1>2. PICK first : SortedBy(R, C, Cardinality(C), first)
  BY SortedExists
<1>3. Rank(R, C, first[i]) = i - 1
  BY <1>1, <1>2, RankIsPlace
<1> QED BY <1>2, <1>3 DEF SortedBy

\* ... by one element only.
LEMMA RankedIsSorted ==
  ASSUME NEW R, NEW C, IsFiniteSet(C), Orders(R, C), NEW items \in [1..Cardinality(C) -> C],
         \A i \in 1..Cardinality(C) : Rank(R, C, items[i]) = i - 1
  PROVE  Cardinality(C) \in Nat /\ SortedBy(R, C, Cardinality(C), items)
<1> DEFINE n == Cardinality(C)
<1>1. n \in Nat
  BY FS_CardinalityType
<1>2. PICK first : SortedBy(R, C, n, first)
  BY SortedExists
<1>3. \A i \in 1..n : Rank(R, C, first[i]) = i - 1
  <2> HIDE DEF n
  <2> QED BY <1>1, <1>2, RankIsPlace
<1>4. ASSUME NEW i \in 1..n
      PROVE  items[i] = first[i]
  <2>1. PICK j \in 1..n : first[j] = items[i]
    BY <1>2 DEF SortedBy
  <2>2. j - 1 = i - 1
    <3>1. Rank(R, C, first[j]) = j - 1 /\ Rank(R, C, items[i]) = i - 1
      BY <1>3
    <3> QED BY <2>1, <3>1
  <2>3. j = i
    BY <1>1, <2>2
  <2> QED BY <2>1, <2>3
<1>5. SortedBy(R, C, n, items)
  <2> HIDE DEF n
  <2>1. \A x \in C : \E i \in 1..n : items[i] = x
    BY <1>2, <1>4 DEF SortedBy
  <2>2. ASSUME NEW i \in 1..n, NEW j \in 1..n, i < j
        PROVE  <<items[i], items[j]>> \in R
    <3>1. <<first[i], first[j]>> \in R
      BY <1>2, <2>2 DEF SortedBy
    <3>2. items[i] = first[i] /\ items[j] = first[j]
      BY <1>4
    <3> QED BY <3>1, <3>2
  <2>3. items \in [1..n -> C]
    BY DEF n
  <2> QED BY <2>1, <2>2, <2>3 DEF SortedBy
<1> QED BY <1>1, <1>5
=============================================================================

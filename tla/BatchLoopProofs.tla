--------------------------- MODULE BatchLoopProofs ---------------------------
(***************************************************************************)
(* Machine-checked proofs about Batching and BatchLoop, for every policy,  *)
(* every limit and every number of attempts: a plan packs each ruleset     *)
(* once and within the limit, and no step of the loop loses a ruleset,     *)
(* submits one twice or forgets what a success promises.                   *)
(***************************************************************************)
EXTENDS BatchLoop, Recursion

(* The rules of a set of rulesets. *)

Sizes(read0) == [x \in DOMAIN read0.inventory |-> read0.inventory[x].rules]

\* However the fold takes the rulesets, it adds each of them once.
LEMMA RulesAreASum ==
  ASSUME NEW read0 \in Reads
  PROVE  LET D == DOMAIN read0.inventory
         IN \E f \in [SUBSET D -> Nat] :
              /\ IsSum(f, D, Sizes(read0))
              /\ \A set \in SUBSET D : Rules(read0, set) = f[set]
<1> DEFINE D == DOMAIN read0.inventory
           w == Sizes(read0)
           choose == [s \in SUBSET D |-> CHOOSE x \in s : TRUE]
<1>1. IsFiniteSet(D) /\ w \in [D -> Nat] /\ \A x \in D : w[x] = read0.inventory[x].rules
  BY ReadsAssumption DEF Sizes
<1> HIDE DEF w
<1>2. PICK f \in [SUBSET D -> Nat] : IsSum(f, D, w)
  BY <1>1, SumsExist
<1>3. \A s \in SUBSET D : s # {} => choose[s] \in s
  OBVIOUS
<1>4. ASSUME NEW set \in SUBSET D
      PROVE  Rules(read0, set) = f[set]
  <2> DEFINE Body(g) == [s \in SUBSET set |->
               IF s = {} THEN 0
               ELSE LET x == CHOOSE x \in s : TRUE IN read0.inventory[x].rules + g[s \ {x}]]
             g == CHOOSE g : g = Body(g)
             h == [s \in SUBSET set |-> f[s]]
  <2>1. Rules(read0, set) = g[set]
    BY DEF Rules, FoldSet, MapThenFoldSet
  <2>2. h = Body(h)
    <3>1. ASSUME NEW s \in SUBSET set
          PROVE  f[s] = IF s = {} THEN 0
                        ELSE LET x == CHOOSE x \in s : TRUE
                             IN read0.inventory[x].rules + f[s \ {x}]
      <4>1. CASE s = {}
        BY <1>2, <4>1 DEF IsSum
      <4>2. CASE s # {}
        <5>1. s \in SUBSET D /\ choose[s] \in s
          BY <1>3, <4>2
        <5>2. f[s] = w[choose[s]] + f[s \ {choose[s]}]
          BY <1>2, <5>1 DEF IsSum
        <5>3. w[choose[s]] = read0.inventory[choose[s]].rules /\ choose[s] = CHOOSE x \in s : TRUE
          BY <1>1, <5>1
        <5> HIDE DEF choose
        <5> QED BY <4>2, <5>2, <5>3
      <4> QED BY <4>1, <4>2
    <3>2. \A s \in SUBSET set : s \ {CHOOSE x \in s : TRUE} \in SUBSET set
      OBVIOUS
    <3> QED BY <3>1, <3>2
  <2>3. g = Body(g)
    <3> HIDE DEF Body, h
    <3> QED BY <2>2
  <2>4. g[{}] = 0
    BY <2>3
  <2>5. ASSUME NEW s \in SUBSET set, s # {}
        PROVE  g[s] = w[choose[s]] + g[s \ {choose[s]}]
    <3>1. g[s] = Body(g)[s]
      BY <2>3
    <3>2. choose[s] = CHOOSE x \in s : TRUE
      OBVIOUS
    <3>3. Body(g)[s] = read0.inventory[choose[s]].rules + g[s \ {choose[s]}]
      <4> HIDE DEF g, choose
      <4> QED BY <2>5, <3>2
    <3>4. choose[s] \in D
      BY <1>3, <2>5
    <3> HIDE DEF g, choose, Body
    <3> QED BY <1>1, <3>1, <3>3, <3>4
  <2> HIDE DEF g, choose, h
  <2>6. g[set] = f[set]
    <3>1. Adds(g, set, w, choose)
      BY <1>3, <2>4, <2>5 DEF Adds
    <3> HIDE DEF D, Body
    <3> QED BY <1>1, <1>2, <3>1, SumsAreUnique
  <2> QED BY <2>1, <2>6
<1> QED BY <1>2, <1>4 DEF w

\* What the plan needs to know of the counts.
LEMMA RulesFacts ==
  ASSUME NEW read0 \in Reads, NEW set \in SUBSET DOMAIN read0.inventory
  PROVE  /\ Rules(read0, set) \in Nat
         /\ \A part \in SUBSET set : Rules(read0, part) <= Rules(read0, set)
         /\ \A x \in set : Rules(read0, {x}) = read0.inventory[x].rules
<1> DEFINE D == DOMAIN read0.inventory
<1>1. /\ IsFiniteSet(D) /\ Sizes(read0) \in [D -> Nat]
      /\ \A x \in D : Sizes(read0)[x] = read0.inventory[x].rules
  BY ReadsAssumption DEF Sizes
<1>2. PICK f \in [SUBSET D -> Nat] : /\ IsSum(f, D, Sizes(read0))
                                     /\ \A s \in SUBSET D : Rules(read0, s) = f[s]
  BY RulesAreASum
<1>3. \A part \in SUBSET set : Rules(read0, part) <= Rules(read0, set)
  <2>1. set \in SUBSET D
    OBVIOUS
  <2>2. \A part \in SUBSET set : part \in SUBSET D
    OBVIOUS
  <2> HIDE DEF D
  <2>3. \A part \in SUBSET set : f[part] <= f[set]
    BY <1>1, <1>2, <2>1, SumsGrow
  <2> QED BY <1>2, <2>1, <2>2, <2>3
<1>4. ASSUME NEW x \in set
      PROVE  Rules(read0, {x}) = read0.inventory[x].rules
  <2>1. f[{x}] = Sizes(read0)[x] + f[{x} \ {x}] /\ f[{}] = 0
    BY <1>2 DEF IsSum
  <2>2. {x} \ {x} = {} /\ x \in D /\ {x} \in SUBSET D
    OBVIOUS
  <2>3. Rules(read0, {x}) = f[{x}]
    BY <1>2, <2>2
  <2>4. Sizes(read0)[x] = read0.inventory[x].rules /\ Sizes(read0)[x] \in Nat
    BY <1>1, <2>2
  <2>5. f[{x} \ {x}] = 0
    BY <2>1, <2>2
  <2>6. f[{x}] = Sizes(read0)[x] + 0
    BY <2>1, <2>5
  <2> QED BY <2>3, <2>4, <2>6
<1> QED BY <1>2, <1>3, <1>4

-----------------------------------------------------------------------------
(* The order of the packing: larger rulesets first, then by href. *)

LEMMA LargerIsAnOrder ==
  ASSUME NEW read0 \in Reads, NEW x \in DOMAIN read0.inventory,
         NEW y \in DOMAIN read0.inventory, NEW z \in DOMAIN read0.inventory
  PROVE  /\ ~Larger(read0, x, x)
         /\ x # y => Larger(read0, x, y) \/ Larger(read0, y, x)
         /\ Larger(read0, x, y) /\ Larger(read0, y, z) => Larger(read0, x, z)
<1>1. /\ x \in Nat /\ y \in Nat /\ z \in Nat
      /\ read0.inventory[x].rules \in Nat /\ read0.inventory[y].rules \in Nat
      /\ read0.inventory[z].rules \in Nat
  BY RulesetsAssumption, ReadsAssumption
<1> QED BY <1>1 DEF Larger

Candidates(read0) == Selected(read0) \ Oversized(read0)

\* items holds each element of C once, the larger ones first.
Sorted(read0, C, n, items) ==
  /\ items \in [1..n -> C]
  /\ \A x \in C : \E i \in 1..n : items[i] = x
  /\ \A i, j \in 1..n : i < j => Larger(read0, items[i], items[j])

\* The elements of a sequence in the order of R, a set of pairs.
InOrder(R, items) == \A i, j \in DOMAIN items : i < j => <<items[i], items[j]>> \in R

\* A finite set has a sorted arrangement ...
LEMMA ArrangementExists ==
  ASSUME NEW R, NEW C, IsFiniteSet(C), Orders(R, C)
  PROVE  \E items \in SetToSeqs(C) : InOrder(R, items)
<1> DEFINE n == Cardinality(C)
           D == 1..n
<1>1. n \in Nat
  BY FS_CardinalityType
<1>2. PICK items : SortedBy(R, C, n, items)
  BY SortedExists
<1>3. \A i, j \in D : i # j => items[i] # items[j]
  <2>1. \A i, j \in D : i # j => i < j \/ j < i
    BY <1>1
  <2>2. \A i \in D : items[i] \in C /\ <<items[i], items[i]>> \notin R
    BY <1>2 DEF SortedBy, Orders
  <2> QED BY <1>2, <2>1, <2>2 DEF SortedBy
<1> QED BY <1>2, <1>3 DEF SortedBy, SetToSeqs, InOrder

\* ... and every such arrangement holds each element once.
LEMMA ArrangementIsSorted ==
  ASSUME NEW R, NEW C, IsFiniteSet(C), NEW items \in SetToSeqs(C), InOrder(R, items)
  PROVE  Cardinality(C) \in Nat /\ SortedBy(R, C, Cardinality(C), items)
<1> DEFINE n == Cardinality(C)
           D == 1..n
<1>1. n \in Nat
  BY FS_CardinalityType
<1>2. /\ items \in [D -> C]
      /\ \A i, j \in D : i # j => items[i] # items[j]
  BY DEF SetToSeqs
<1>3. \A x \in C : \E i \in D : items[i] = x
  <2>1. IsFiniteSet(D) /\ Cardinality(D) = n
    <3>1. IsFiniteSet(1..n) /\ Cardinality(1..n) = IF 1 > n THEN 0 ELSE n - 1 + 1
      BY <1>1, FS_Interval
    <3> QED BY <1>1, <3>1
  <2> HIDE DEF D
  <2>2. items \in Injection(D, C)
    BY <1>2 DEF Injection, IsInjective
  <2>3. items \in Surjection(D, C)
    BY <2>1, <2>2, FS_Injection
  <2> QED BY <2>3 DEF Surjection
<1> QED BY <1>1, <1>2, <1>3 DEF SortedBy, InOrder

\* Items is one, in the order of the packing.
LEMMA ItemsAreSorted ==
  ASSUME NEW read0 \in Reads
  PROVE  /\ Cardinality(Candidates(read0)) \in Nat
         /\ Sorted(read0, Candidates(read0), Cardinality(Candidates(read0)), Items(read0))
<1> DEFINE C == Candidates(read0)
           R == {p \in C \X C : Larger(read0, p[1], p[2])}
           Ordered(items) == \A i, j \in DOMAIN items : i < j => Larger(read0, items[i], items[j])
<1>1. C \in SUBSET DOMAIN read0.inventory
  BY DEF Candidates, Selected
<1>2. IsFiniteSet(C)
  BY <1>1, ReadsAssumption, FS_Subset
<1>3. \A x, y \in C : <<x, y>> \in R <=> Larger(read0, x, y)
  OBVIOUS
<1>4. Orders(R, C)
  <2> HIDE DEF C, R
  <2> QED BY <1>1, <1>3, LargerIsAnOrder DEF Orders
<1>5. \A items \in SetToSeqs(C) : InOrder(R, items) <=> Ordered(items)
  <2>1. \A items \in SetToSeqs(C) : \A i \in DOMAIN items : items[i] \in C
    BY DEF SetToSeqs
  <2> HIDE DEF C, R
  <2> QED BY <1>3, <2>1 DEF InOrder
<1>6. Items(read0) \in SetToSeqs(C) /\ Ordered(Items(read0))
  <2>1. Items(read0) = CHOOSE sorted \in SetToSeqs(C) : Ordered(sorted)
    BY DEF Items, Candidates
  <2> HIDE DEF C, R, Ordered
  <2>2. \E items \in SetToSeqs(C) : InOrder(R, items)
    BY <1>2, <1>4, ArrangementExists
  <2> QED BY <1>5, <2>1, <2>2
<1>7. Cardinality(C) \in Nat /\ SortedBy(R, C, Cardinality(C), Items(read0))
  <2> HIDE DEF C, R, Ordered
  <2> QED BY <1>2, <1>5, <1>6, ArrangementIsSorted
<1>8. \A i, j \in 1..Cardinality(C) : i < j => Larger(read0, Items(read0)[i], Items(read0)[j])
  <2> HIDE DEF C, Ordered
  <2> QED BY <1>7 DEF SortedBy
<1> HIDE DEF R
<1> QED BY <1>7, <1>8 DEF SortedBy, Sorted

-----------------------------------------------------------------------------
(* What a plan has to be. *)

Held(batches) == UNION {ToSet(batches[i]) : i \in DOMAIN batches}

\* No ruleset is in two places.
Apart(batches) ==
  \A i, j \in DOMAIN batches : \A a \in DOMAIN batches[i], b \in DOMAIN batches[j] :
    batches[i][a] = batches[j][b] => i = j /\ a = b

Within(read0, batches) ==
  \A i \in DOMAIN batches : batches[i] # <<>> /\ Rules(read0, ToSet(batches[i])) <= Limit

Packed(read0, S, batches) ==
  /\ batches \in Seq(Seq(S)) /\ Held(batches) = S
  /\ Apart(batches) /\ Within(read0, batches)

\* The rooms of a plan have a first one.
LEMMA FirstRoom ==
  ASSUME NEW n \in Nat, NEW room \in SUBSET (1..n), room # {}
  PROVE  Min(room) \in room
<1>1. room \in SUBSET Nat
  OBVIOUS
<1>2. \E m \in room : \A i \in room : m <= i
  BY <1>1, LeastNatural
<1> QED BY <1>2 DEF Min

Joined(batches, x, i) == [batches EXCEPT ![i] = Append(batches[i], x)]

\* A ruleset joins a batch that has room for it, or opens one.
LEMMA InsertWays ==
  ASSUME NEW read0, NEW batches, NEW x,
         Len(batches) \in Nat, DOMAIN batches = 1..Len(batches)
  PROVE  \/ Insert(read0, batches, x) = Append(batches, <<x>>)
         \/ \E i \in DOMAIN batches : /\ Fits(read0, batches[i], x)
                                      /\ Insert(read0, batches, x) = Joined(batches, x, i)
<1> DEFINE room == {i \in DOMAIN batches : Fits(read0, batches[i], x)}
<1>1. room # {} => Min(room) \in room
  <2>1. Len(batches) \in Nat /\ room \in SUBSET (1..Len(batches))
    OBVIOUS
  <2> HIDE DEF room
  <2> QED BY <2>1, FirstRoom
<1>2. Insert(read0, batches, x) = IF room = {} THEN Append(batches, <<x>>)
        ELSE Joined(batches, x, Min(room))
  BY DEF Insert, Joined
<1>3. CASE room = {}
  BY <1>2, <1>3
<1>4. CASE room # {}
  <2>1. Min(room) \in DOMAIN batches /\ Fits(read0, batches[Min(room)], x)
    BY <1>1, <1>4
  <2> HIDE DEF room
  <2> QED BY <1>2, <1>4, <2>1
<1> QED BY <1>3, <1>4

LEMMA InsertTypes ==
  ASSUME NEW X, NEW read0, NEW batches \in Seq(Seq(X)), NEW x \in X
  PROVE  Insert(read0, batches, x) \in Seq(Seq(X))
<1>1. Append(batches, <<x>>) \in Seq(Seq(X))
  OBVIOUS
<1>2. ASSUME NEW i \in DOMAIN batches
      PROVE  [batches EXCEPT ![i] = Append(batches[i], x)] \in Seq(Seq(X))
  <2>1. Append(batches[i], x) \in Seq(X)
    OBVIOUS
  <2> QED BY <2>1
<1>3. CASE Insert(read0, batches, x) = Append(batches, <<x>>)
  BY <1>1, <1>3
<1>4. CASE \E i \in DOMAIN batches : Insert(read0, batches, x) = Joined(batches, x, i)
  BY <1>2, <1>4 DEF Joined
<1>5. Len(batches) \in Nat /\ DOMAIN batches = 1..Len(batches)
  OBVIOUS
<1> QED BY <1>3, <1>4, <1>5, InsertWays

LEMMA InsertPacks ==
  ASSUME NEW read0 \in Reads, NEW S \in SUBSET DOMAIN read0.inventory,
         NEW x \in DOMAIN read0.inventory, x \notin S, read0.inventory[x].rules <= Limit,
         NEW batches, Packed(read0, S, batches)
  PROVE  Packed(read0, S \cup {x}, Insert(read0, batches, x))
<1> DEFINE X == S \cup {x}
           new == Insert(read0, batches, x)
<1>1. /\ batches \in Seq(Seq(S)) /\ batches \in Seq(Seq(X))
      /\ \A i \in DOMAIN batches : batches[i] \in Seq(S) /\ batches[i] \in Seq(X)
  BY DEF Packed
<1>2. \A i \in DOMAIN batches : \A a \in DOMAIN batches[i] : batches[i][a] # x
  BY <1>1
<1>3. new \in Seq(Seq(X))
  BY <1>1, InsertTypes
<1>4. Held(batches) = S /\ Apart(batches) /\ Within(read0, batches)
  BY DEF Packed
<1>5. CASE new = Append(batches, <<x>>)
  <2>1. /\ DOMAIN new = DOMAIN batches \cup {Len(batches) + 1}
        /\ Len(batches) + 1 \notin DOMAIN batches
        /\ \A i \in DOMAIN batches : new[i] = batches[i]
        /\ new[Len(batches) + 1] = <<x>>
    BY <1>1, <1>5
  <2>2. ToSet(<<x>>) = {x} /\ DOMAIN <<x>> = {1} /\ <<x>>[1] = x
    BY DEF ToSet
  <2> HIDE DEF new
  <2>3. Held(new) = X
    BY <1>4, <2>1, <2>2 DEF Held
  <2>4. Apart(new)
    BY <1>2, <1>4, <2>1, <2>2 DEF Apart
  <2>5. Within(read0, new)
    <3>1. Rules(read0, {x}) <= Limit
      BY RulesFacts
    <3>2. <<x>> # <<>>
      OBVIOUS
    <3> QED BY <1>4, <2>1, <2>2, <3>1, <3>2 DEF Within
  <2> QED BY <1>3, <2>3, <2>4, <2>5 DEF Packed, new
<1>6. ASSUME NEW k \in DOMAIN batches, Fits(read0, batches[k], x),
             new = [batches EXCEPT ![k] = Append(batches[k], x)]
      PROVE  Packed(read0, X, new)
  <2>1. /\ DOMAIN new = DOMAIN batches
        /\ \A i \in DOMAIN batches : i # k => new[i] = batches[i]
        /\ new[k] = Append(batches[k], x)
    BY <1>1, <1>6
  <2>2. /\ DOMAIN new[k] = DOMAIN batches[k] \cup {Len(batches[k]) + 1}
        /\ Len(batches[k]) + 1 \notin DOMAIN batches[k]
        /\ \A a \in DOMAIN batches[k] : new[k][a] = batches[k][a]
        /\ new[k][Len(batches[k]) + 1] = x
    BY <1>1, <2>1
  <2>3. ToSet(new[k]) = ToSet(batches[k]) \cup {x}
    BY <2>2 DEF ToSet
  <2> HIDE DEF new
  <2>4. Held(new) = X
    BY <1>4, <2>1, <2>3 DEF Held
  <2>5. Apart(new)
    <3>1. ASSUME NEW i \in DOMAIN new, NEW j \in DOMAIN new,
                 NEW a \in DOMAIN new[i], NEW b \in DOMAIN new[j], new[i][a] = new[j][b]
          PROVE  i = j /\ a = b
      <4>1. \/ i = k /\ a = Len(batches[k]) + 1 /\ new[i][a] = x
            \/ a \in DOMAIN batches[i] /\ new[i][a] = batches[i][a]
        <5>1. CASE i = k
          <6>1. a \in DOMAIN new[k]
            BY <5>1
          <6>2. a \in DOMAIN batches[k] \/ a = Len(batches[k]) + 1
            BY <2>2, <6>1
          <6>3. new[i][a] = new[k][a] /\ batches[i] = batches[k]
            BY <5>1
          <6>4. CASE a \in DOMAIN batches[k]
            BY <2>2, <6>3, <6>4
          <6>5. CASE a = Len(batches[k]) + 1
            <7>1. new[k][a] = x
              BY <2>2, <6>5, Zenon
            <7> QED BY <5>1, <6>3, <6>5, <7>1, Zenon
          <6> QED BY <6>2, <6>4, <6>5
        <5>2. CASE i # k
          BY <2>1, <5>2
        <5> QED BY <5>1, <5>2
      <4>2. \/ j = k /\ b = Len(batches[k]) + 1 /\ new[j][b] = x
            \/ b \in DOMAIN batches[j] /\ new[j][b] = batches[j][b]
        <5>1. CASE j = k
          <6>1. b \in DOMAIN new[k]
            BY <5>1
          <6>2. b \in DOMAIN batches[k] \/ b = Len(batches[k]) + 1
            BY <2>2, <6>1
          <6>3. new[j][b] = new[k][b] /\ batches[j] = batches[k]
            BY <5>1
          <6>4. CASE b \in DOMAIN batches[k]
            BY <2>2, <6>3, <6>4
          <6>5. CASE b = Len(batches[k]) + 1
            <7>1. new[k][b] = x
              BY <2>2, <6>5, Zenon
            <7> QED BY <5>1, <6>3, <6>5, <7>1, Zenon
          <6> QED BY <6>2, <6>4, <6>5
        <5>2. CASE j # k
          BY <2>1, <5>2
        <5> QED BY <5>1, <5>2
      <4>3. i \in DOMAIN batches /\ j \in DOMAIN batches
        BY <2>1
      <4>4. CASE new[i][a] = x
        BY <1>2, <3>1, <4>1, <4>2, <4>3, <4>4
      <4>5. CASE new[i][a] # x
        <5>1. a \in DOMAIN batches[i] /\ b \in DOMAIN batches[j]
              /\ batches[i][a] = batches[j][b]
          BY <3>1, <4>1, <4>2, <4>5
        <5> QED BY <1>4, <4>3, <5>1 DEF Apart
      <4> QED BY <4>4, <4>5
    <3> QED BY <3>1 DEF Apart
  <2>6. Within(read0, new)
    <3>1. Rules(read0, ToSet(new[k])) <= Limit
      BY <1>6, <2>3 DEF Fits
    <3>2. new[k] # <<>>
      BY <2>2
    <3> QED BY <1>4, <2>1, <3>1, <3>2 DEF Within
  <2> QED BY <1>3, <2>4, <2>5, <2>6 DEF Packed, new
<1>7. CASE \E i \in DOMAIN batches : Fits(read0, batches[i], x) /\ new = Joined(batches, x, i)
  <2> HIDE DEF new
  <2> QED BY <1>6, <1>7 DEF new, Joined
<1>8. Len(batches) \in Nat /\ DOMAIN batches = 1..Len(batches)
  BY <1>1
<1> QED BY <1>1, <1>5, <1>7, <1>8, InsertWays

\* The plan is what inserting the items one by one gives.
LEMMA PlanIsAFold ==
  ASSUME NEW read0 \in Reads
  PROVE  LET n == Cardinality(Candidates(read0))
         IN \E packed : /\ packed[0] = <<>> /\ Plan(read0) = packed[n]
                        /\ \A k \in 1..n :
                             packed[k] = Insert(read0, packed[k - 1], Items(read0)[k])
<1> DEFINE C == Candidates(read0)
           n == Cardinality(C)
           items == Items(read0)
           V == Seq(Seq(C))
           step == [k \in 1..n |-> [b \in V |-> Insert(read0, b, items[k])]]
           Body(f) == [s \in SUBSET (1..n) |->
                         IF s = {} THEN <<>> ELSE Insert(read0, f[s \ {Max(s)}], items[Max(s)])]
           iter == CHOOSE f : f = Body(f)
           packed == [k \in 0..n |-> iter[1..k]]
<1>1. n \in Nat /\ items \in [1..n -> C]
  BY ItemsAreSorted DEF Sorted
<1>2. DOMAIN items = 1..n
  BY <1>1
<1>3. Plan(read0) = iter[1..n]
  <2>1. Plan(read0) = (CHOOSE f : f = [s \in SUBSET DOMAIN items |->
               IF s = {} THEN <<>> ELSE Insert(read0, f[s \ {Max(s)}], items[Max(s)])])[DOMAIN items]
    BY DEF Plan, FoldLeft, MapThenFoldSet
  <2> QED BY <1>2, <2>1
<1>4. <<>> \in V /\ step \in [1..n -> [V -> V]]
  <2>1. \A k \in 1..n : \A b \in V : Insert(read0, b, items[k]) \in V
    BY <1>1, InsertTypes
  <2>2. \A k \in 1..n : [b \in V |-> Insert(read0, b, items[k])] \in [V -> V]
    BY <2>1
  <2> QED BY <2>2
<1>5. \E f : f = Body(f)
  <2>1. PICK f \in [SUBSET (1..n) -> V] : IsFold(f, n, <<>>, step)
    <3> HIDE DEF step, V, n
    <3> QED BY <1>1, <1>4, FoldExists
  <2>2. ASSUME NEW s \in SUBSET (1..n), s # {}
        PROVE  f[s] = Insert(read0, f[s \ {Max(s)}], items[Max(s)])
    <3>1. Max(s) \in 1..n /\ s \ {Max(s)} \in SUBSET (1..n)
      BY <1>1, <2>2, MaxInside
    <3>2. f[s \ {Max(s)}] \in V
      BY <3>1
    <3>3. f[s] = step[Max(s)][f[s \ {Max(s)}]]
      BY <2>1, <2>2 DEF IsFold
    <3> HIDE DEF V
    <3> QED BY <3>1, <3>2, <3>3
  <2>3. f[{}] = <<>>
    BY <2>1 DEF IsFold
  <2> HIDE DEF step, V, n
  <2>4. f = Body(f)
    BY <2>2, <2>3
  <2> QED BY <2>4
<1>6. iter = Body(iter)
  <2> HIDE DEF Body
  <2> QED BY <1>5
<1>7. packed[0] = <<>>
  <2>1. 0 \in 0..n /\ 1..0 = {} /\ {} \in SUBSET (1..n)
    BY <1>1
  <2>2. iter[{}] = <<>>
    <3> HIDE DEF iter
    <3> QED BY <1>6, <2>1
  <2> HIDE DEF iter
  <2> QED BY <2>1, <2>2
<1>8. ASSUME NEW k \in 1..n
      PROVE  packed[k] = Insert(read0, packed[k - 1], items[k])
  <2>1. k \in 0..n /\ k - 1 \in 0..n
    BY <1>1
  <2>2. /\ 1..k # {} /\ 1..k \in SUBSET (1..n) /\ (1..k) \ {k} = 1..(k - 1)
        /\ Max(1..k) = k
    <3> HIDE DEF n
    <3> QED BY <1>1, FirstPlaces
  <2> HIDE DEF iter, n, items
  <2>3. iter[1..k] = Insert(read0, iter[1..(k - 1)], items[k])
    BY <1>6, <2>2
  <2> QED BY <2>1, <2>3
<1>9. n \in 0..n /\ packed[n] = iter[1..n]
  <2> HIDE DEF iter, n
  <2> QED BY <1>1
<1> HIDE DEF packed, iter
<1> QED BY <1>3, <1>7, <1>8, <1>9

\* A plan packs every candidate once, in batches that are not empty and not too large
\* (partition_and_pack_rulesets).
THEOREM PlanPacks ==
  ASSUME NEW read0 \in Reads
  PROVE  Packed(read0, Candidates(read0), Plan(read0))
<1> DEFINE C == Candidates(read0)
           n == Cardinality(C)
           items == Items(read0)
           First(k) == {items[i] : i \in 1..k}
<1>1. n \in Nat /\ Sorted(read0, C, n, items)
  BY ItemsAreSorted
<1>2. PICK packed : /\ packed[0] = <<>> /\ Plan(read0) = packed[n]
                    /\ \A k \in 1..n : packed[k] = Insert(read0, packed[k - 1], items[k])
  BY PlanIsAFold
<1> DEFINE T == {k \in Nat : k <= n => Packed(read0, First(k), packed[k])}
<1>3. 0 \in T
  <2>1. First(0) = {} /\ <<>> \in Seq(Seq({})) /\ DOMAIN <<>> = {}
    OBVIOUS
  <2>2. Packed(read0, {}, <<>>)
    BY <2>1 DEF Packed, Held, Apart, Within
  <2> QED BY <1>2, <2>1, <2>2
<1>4. ASSUME NEW k \in Nat, k \in T
      PROVE  k + 1 \in T
  <2> SUFFICES ASSUME k + 1 <= n PROVE Packed(read0, First(k + 1), packed[k + 1])
    OBVIOUS
  <2>1. k + 1 \in 1..n /\ k <= n /\ (k + 1) - 1 = k /\ 1..k \subseteq 1..n
    BY <1>1
  <2>2. Packed(read0, First(k), packed[k])
    BY <1>4, <2>1
  <2> HIDE DEF T, n, items
  <2>3. items[k + 1] \in C /\ First(k) \subseteq C /\ C \subseteq DOMAIN read0.inventory
    BY <1>1, <2>1 DEF Sorted, Candidates, Selected
  <2>4. items[k + 1] \notin First(k)
    <3>1. ASSUME NEW i \in 1..k
          PROVE  items[i] # items[k + 1]
      <4>1. Larger(read0, items[i], items[k + 1])
        BY <1>1, <2>1, <3>1 DEF Sorted
      <4>2. items[i] \in DOMAIN read0.inventory
        BY <2>3
      <4> QED BY <2>3, <4>1, <4>2, LargerIsAnOrder
    <3> QED BY <3>1
  <2>5. read0.inventory[items[k + 1]].rules <= Limit
    <3>1. read0.inventory[items[k + 1]].rules \in Nat
      BY <2>3, ReadsAssumption
    <3> QED BY <2>3, <3>1, LimitAssumption DEF Candidates, Oversized
  <2>6. packed[k + 1] = Insert(read0, packed[k], items[k + 1])
    BY <1>2, <2>1
  <2>7. First(k + 1) = First(k) \cup {items[k + 1]}
    <3>1. 1..(k + 1) = (1..k) \cup {k + 1}
      OBVIOUS
    <3> QED BY <3>1
  <2> HIDE DEF First
  <2> QED BY <2>2, <2>3, <2>4, <2>5, <2>6, <2>7, InsertPacks
<1>5. Nat \subseteq T
  <2> HIDE DEF T
  <2> QED BY <1>3, <1>4, Induction
<1>6. First(n) = C
  <2> HIDE DEF n, items, C
  <2> QED BY <1>1 DEF Sorted
<1>7. Packed(read0, First(n), packed[n])
  <2>1. n \in T
    BY <1>1, <1>5
  <2> HIDE DEF First
  <2> QED BY <1>1, <2>1
<1> QED BY <1>2, <1>6, <1>7

-----------------------------------------------------------------------------
(* Flattening the batches of a plan. *)

\* Two sequences end to end.
LEMMA EndToEnd ==
  ASSUME NEW X, NEW s \in Seq(X), NEW t \in Seq(X)
  PROVE  /\ s \o t \in Seq(X)
         /\ ToSet(s \o t) = ToSet(s) \cup ToSet(t)
         /\ IsInjective(s) /\ IsInjective(t) /\ ToSet(s) \cap ToSet(t) = {}
              => IsInjective(s \o t)
<1> DEFINE st == s \o t
<1>1. /\ Len(s) \in Nat /\ Len(t) \in Nat /\ DOMAIN s = 1..Len(s) /\ DOMAIN t = 1..Len(t)
      /\ st \in Seq(X) /\ DOMAIN st = 1..(Len(s) + Len(t))
      /\ \A a \in DOMAIN s : a \in DOMAIN st /\ st[a] = s[a]
      /\ \A b \in DOMAIN t : Len(s) + b \in DOMAIN st /\ st[Len(s) + b] = t[b]
      /\ \A c \in DOMAIN st : c \in DOMAIN s \/ c - Len(s) \in DOMAIN t
      /\ \A c \in DOMAIN st : c - Len(s) \in DOMAIN t => st[c] = t[c - Len(s)]
  OBVIOUS
<1> HIDE DEF st
<1>2. ToSet(st) = ToSet(s) \cup ToSet(t)
  <2>1. \A c \in DOMAIN st : st[c] \in ToSet(s) \cup ToSet(t)
    BY <1>1 DEF ToSet
  <2>2. \A a \in DOMAIN s : s[a] \in ToSet(st)
    BY <1>1 DEF ToSet
  <2>3. \A b \in DOMAIN t : t[b] \in ToSet(st)
    BY <1>1 DEF ToSet
  <2> QED BY <2>1, <2>2, <2>3 DEF ToSet
<1>3. ASSUME IsInjective(s), IsInjective(t), ToSet(s) \cap ToSet(t) = {}
      PROVE  IsInjective(st)
  <2>1. ASSUME NEW c \in DOMAIN st, NEW d \in DOMAIN st, st[c] = st[d]
        PROVE  c = d
    <3>1. c \in Int /\ d \in Int
      BY <1>1
    <3>2. CASE c \in DOMAIN s /\ d \in DOMAIN s
      BY <1>1, <1>3, <2>1, <3>2 DEF IsInjective
    <3>3. CASE c - Len(s) \in DOMAIN t /\ d - Len(s) \in DOMAIN t
      <4>1. c - Len(s) = d - Len(s)
        BY <1>1, <1>3, <2>1, <3>3 DEF IsInjective
      <4> QED BY <1>1, <3>1, <4>1
    <3>4. CASE c \in DOMAIN s /\ d - Len(s) \in DOMAIN t
      <4>1. st[c] \in ToSet(s) /\ st[d] \in ToSet(t)
        BY <1>1, <3>4 DEF ToSet
      <4> QED BY <1>3, <2>1, <4>1
    <3>5. CASE d \in DOMAIN s /\ c - Len(s) \in DOMAIN t
      <4>1. st[d] \in ToSet(s) /\ st[c] \in ToSet(t)
        BY <1>1, <3>5 DEF ToSet
      <4> QED BY <1>3, <2>1, <4>1
    <3> QED BY <1>1, <3>2, <3>3, <3>4, <3>5
  <2> QED BY <2>1 DEF IsInjective
<1> QED BY <1>1, <1>2, <1>3 DEF st

\* FlattenSeq appends one sequence after the other.
LEMMA FlattenSteps ==
  ASSUME NEW X, NEW ss \in Seq(Seq(X)), Len(ss) # 0
  PROVE  \E flat : /\ flat[1] = ss[1] /\ FlattenSeq(ss) = flat[Len(ss)]
                   /\ \A k \in 2..Len(ss) : flat[k] = flat[k - 1] \o ss[k]
<1> DEFINE n == Len(ss)
           V == Seq(X)
           step == [k \in 1..n |-> [v \in V |-> v \o ss[k]]]
           Body(f) == [k \in 1..n |-> IF k = 1 THEN ss[k] ELSE f[k - 1] \o ss[k]]
           flatten == CHOOSE f : f = Body(f)
<1>1. n \in Nat /\ n >= 1 /\ \A k \in 1..n : ss[k] \in V
  OBVIOUS
<1>2. FlattenSeq(ss) = flatten[n]
  BY DEF FlattenSeq
<1>3. <<>> \in V /\ step \in [1..n -> [V -> V]]
  <2>1. \A k \in 1..n : \A v \in V : v \o ss[k] \in V
    BY <1>1
  <2>2. \A k \in 1..n : [v \in V |-> v \o ss[k]] \in [V -> V]
    BY <2>1
  <2> QED BY <2>2
<1>4. PICK f \in [SUBSET (1..n) -> V] : IsFold(f, n, <<>>, step)
  <2> HIDE DEF step, V, n
  <2> QED BY <1>1, <1>3, FoldExists
<1>5. ASSUME NEW k \in 1..n
      PROVE  f[1..k] = f[1..(k - 1)] \o ss[k] /\ f[1..(k - 1)] \in V
  <2>1. n \in Nat
    BY <1>1
  <2>2. /\ 1..k # {} /\ 1..k \in SUBSET (1..n) /\ (1..k) \ {k} = 1..(k - 1)
        /\ 1..(k - 1) \in SUBSET (1..n) /\ Max(1..k) = k
    <3> HIDE DEF n
    <3> QED BY <2>1, FirstPlaces
  <2>3. f[1..(k - 1)] \in V
    BY <2>2
  <2> HIDE DEF step, n
  <2>4. f[1..k] = step[k][f[1..(k - 1)]]
    BY <1>4, <2>2 DEF IsFold
  <2> USE DEF step
  <2>5. step[k][f[1..(k - 1)]] = f[1..(k - 1)] \o ss[k]
    BY <2>3
  <2> QED BY <2>3, <2>4, <2>5
<1>6. f[1..1] = ss[1]
  <2>1. 1..0 = {} /\ 1 - 1 = 0 /\ 1 \in 1..n
    BY <1>1
  <2>2. f[1..0] = <<>>
    BY <1>4, <2>1 DEF IsFold
  <2>3. f[1..1] = <<>> \o ss[1]
    BY <1>5, <2>1, <2>2
  <2>4. <<>> \o ss[1] = ss[1]
    BY <1>1
  <2> QED BY <2>3, <2>4
<1>7. \E h : h = Body(h)
  <2> DEFINE h == [k \in 1..n |-> f[1..k]]
  <2>1. \A k \in 1..n : h[k] = IF k = 1 THEN ss[k] ELSE f[1..(k - 1)] \o ss[k]
    BY <1>5, <1>6
  <2>2. \A k \in 1..n : k # 1 => h[k - 1] = f[1..(k - 1)]
    BY <1>1
  <2>3. h = Body(h)
    <3>1. \A k \in 1..n : h[k] = IF k = 1 THEN ss[k] ELSE h[k - 1] \o ss[k]
      BY <2>1, <2>2
    <3>2. DOMAIN h = 1..n /\ h = [k \in 1..n |-> h[k]]
      OBVIOUS
    <3> HIDE DEF h
    <3> QED BY <3>1, <3>2
  <2> HIDE DEF Body, h
  <2> QED BY <2>3
<1>8. flatten = Body(flatten)
  <2> HIDE DEF Body
  <2> QED BY <1>7
<1>9. flatten[1] = ss[1] /\ \A k \in 2..n : flatten[k] = flatten[k - 1] \o ss[k]
  <2>1. 1 \in 1..n /\ \A k \in 2..n : k \in 1..n /\ k # 1
    BY <1>1
  <2> HIDE DEF flatten, n
  <2> QED BY <1>8, <2>1
<1> HIDE DEF flatten
<1> QED BY <1>2, <1>9

\* The places of a plan: each ruleset of its batches is in one, if it is in one batch.
LEMMA Flattened ==
  ASSUME NEW X, NEW ss \in Seq(Seq(X))
  PROVE  /\ FlattenSeq(ss) \in Seq(X) /\ ToSet(FlattenSeq(ss)) = Held(ss)
         /\ Apart(ss) => IsInjective(FlattenSeq(ss))
<1>1. CASE Len(ss) = 0
  <2>1. ss = <<>> /\ FlattenSeq(ss) = <<>>
    BY <1>1 DEF FlattenSeq
  <2>2. DOMAIN <<>> = {} /\ <<>> \in Seq(X)
    OBVIOUS
  <2> QED BY <2>1, <2>2 DEF ToSet, Held, IsInjective
<1>2. CASE Len(ss) # 0
  <2> DEFINE n == Len(ss)
             HeldTo(k) == UNION {ToSet(ss[i]) : i \in 1..k}
  <2>1. PICK flat : /\ flat[1] = ss[1] /\ FlattenSeq(ss) = flat[n]
                    /\ \A k \in 2..n : flat[k] = flat[k - 1] \o ss[k]
    BY <1>2, FlattenSteps
  <2> DEFINE Good(k) == /\ flat[k] \in Seq(X) /\ ToSet(flat[k]) = HeldTo(k)
                        /\ Apart(ss) => IsInjective(flat[k])
             T == {k \in Nat : k + 1 <= n => Good(k + 1)}
  <2>2. n \in Nat /\ n # 0 /\ DOMAIN ss = 1..n /\ \A k \in 1..n : ss[k] \in Seq(X)
    BY <1>2
  <2>3. ASSUME NEW k \in 1..n, Apart(ss)
        PROVE  /\ IsInjective(ss[k])
               /\ \A i \in 1..n : i # k => ToSet(ss[i]) \cap ToSet(ss[k]) = {}
    BY <2>2, <2>3 DEF Apart, IsInjective, ToSet
  <2>4. 0 \in T
    <3>1. 1 \in 1..n /\ 0 + 1 = 1 /\ 1..1 = {1}
      BY <2>2
    <3>2. HeldTo(1) = ToSet(ss[1])
      BY <3>1
    <3> HIDE DEF HeldTo
    <3>3. Good(1)
      BY <2>1, <2>2, <2>3, <3>1, <3>2
    <3> QED BY <3>1, <3>3
  <2>5. ASSUME NEW k \in Nat, k \in T
        PROVE  k + 1 \in T
    <3> DEFINE m == (k + 1) + 1
    <3> SUFFICES ASSUME m <= n PROVE Good(m)
      OBVIOUS
    <3>1. k + 1 <= n /\ k + 1 \in Nat /\ m \in 2..n /\ m \in 1..n /\ m - 1 = k + 1
          /\ k + 1 # m /\ 1..m = (1..(k + 1)) \cup {m} /\ 1..(k + 1) \subseteq 1..n
          /\ m \notin 1..(k + 1)
      BY <2>2
    <3>2. Good(k + 1)
      BY <2>5, <3>1
    <3> HIDE DEF T, m
    <3>3. flat[m] = flat[k + 1] \o ss[m]
      BY <2>1, <3>1
    <3>4. HeldTo(m) = HeldTo(k + 1) \cup ToSet(ss[m])
      BY <3>1
    <3>5. Apart(ss) => HeldTo(k + 1) \cap ToSet(ss[m]) = {}
      BY <2>3, <3>1
    <3>6. Apart(ss) => IsInjective(ss[m])
      BY <2>3, <3>1
    <3> HIDE DEF HeldTo
    <3>7. flat[m] \in Seq(X) /\ ToSet(flat[m]) = HeldTo(m)
      BY <2>2, <3>1, <3>2, <3>3, <3>4, EndToEnd
    <3>8. Apart(ss) => IsInjective(flat[m])
      BY <2>2, <3>1, <3>2, <3>3, <3>5, <3>6, EndToEnd
    <3> QED BY <3>7, <3>8
  <2>6. Nat \subseteq T
    <3> HIDE DEF T
    <3> QED BY <2>4, <2>5, Induction
  <2>7. Good(n)
    <3>1. n - 1 \in T /\ (n - 1) + 1 = n
      <4> HIDE DEF T
      <4> QED BY <2>2, <2>6
    <3> HIDE DEF Good
    <3> QED BY <2>2, <3>1
  <2>8. HeldTo(n) = Held(ss)
    BY <2>2 DEF Held
  <2> QED BY <2>1, <2>7, <2>8
<1> QED BY <1>1, <1>2

-----------------------------------------------------------------------------
(* What the loop does with the batches that wait. *)

\* The places m + 1 to n of a sequence.
LEMMA PartOf ==
  ASSUME NEW X, NEW s \in Seq(X), NEW m \in Nat, NEW n \in Nat, m <= n, n <= Len(s)
  PROVE  /\ SubSeq(s, m + 1, n) \in Seq(X) /\ DOMAIN SubSeq(s, m + 1, n) = 1..(n - m)
         /\ \A a \in 1..(n - m) : /\ a + m \in DOMAIN s /\ a + m \in 1..n
                                  /\ SubSeq(s, m + 1, n)[a] = s[a + m]
<1>1. Len(s) \in Nat /\ DOMAIN s = 1..Len(s)
  OBVIOUS
<1>2. \A a \in 1..(n - m) : a + m \in 1..n /\ a + m \in DOMAIN s
  BY <1>1
<1>3. \A a \in 1..(n - m) : SubSeq(s, m + 1, n)[a] = s[a + m]
  OBVIOUS
<1>4. DOMAIN SubSeq(s, m + 1, n) = 1..(n - m)
  OBVIOUS
<1>5. SubSeq(s, m + 1, n) \in Seq(X)
  OBVIOUS
<1> QED BY <1>2, <1>3, <1>4, <1>5

\* Two elements in the place of the first.
LEMMA TwoForOne ==
  ASSUME NEW X, NEW first \in X, NEW second \in X, NEW ss \in Seq(X), ss # <<>>,
         NEW new, new = <<first, second>> \o Tail(ss)
  PROVE  /\ new \in Seq(X) /\ 1 \in DOMAIN new /\ 2 \in DOMAIN new
         /\ new[1] = first /\ new[2] = second
         /\ \A i \in DOMAIN new : i \in Nat /\ i >= 1
         /\ \A i \in DOMAIN new : i # 1 /\ i # 2 => i - 1 \in DOMAIN ss /\ new[i] = ss[i - 1]
         /\ \A i \in DOMAIN ss : i # 1 => i + 1 \in DOMAIN new /\ new[i + 1] = ss[i]
<1> DEFINE rest == Tail(ss)
           two == <<first, second>>
<1>0. new = two \o rest
  OBVIOUS
<1>1. /\ rest \in Seq(X) /\ Len(ss) \in Nat /\ DOMAIN ss = 1..Len(ss)
      /\ DOMAIN rest = 1..(Len(ss) - 1) /\ Len(rest) = Len(ss) - 1
      /\ \A i \in 1..(Len(ss) - 1) : rest[i] = ss[i + 1]
  OBVIOUS
<1>2. two \in Seq(X) /\ Len(two) = 2 /\ two[1] = first /\ two[2] = second
  OBVIOUS
<1> HIDE DEF two, rest
<1>3. /\ new \in Seq(X) /\ DOMAIN new = 1..(Len(ss) + 1)
      /\ \A i \in 1..(Len(ss) + 1) : new[i] = IF i <= 2 THEN two[i] ELSE rest[i - 2]
  <2>1. two \in Seq(X) /\ rest \in Seq(X)
    BY <1>1, <1>2
  <2>2. /\ two \o rest \in Seq(X) /\ DOMAIN (two \o rest) = 1..(Len(two) + Len(rest))
        /\ \A i \in 1..(Len(two) + Len(rest)) :
             (two \o rest)[i] = IF i <= Len(two) THEN two[i] ELSE rest[i - Len(two)]
    BY <2>1
  <2>3. Len(two) + Len(rest) = Len(ss) + 1
    BY <1>1, <1>2
  <2> QED BY <1>0, <1>2, <2>2, <2>3
<1>4. Len(ss) # 0
  OBVIOUS
<1>5. \A i \in DOMAIN new : i # 1 /\ i # 2 => i - 1 \in DOMAIN ss /\ new[i] = ss[i - 1]
  <2> SUFFICES ASSUME NEW i \in DOMAIN new, i # 1, i # 2
               PROVE  i - 1 \in DOMAIN ss /\ new[i] = ss[i - 1]
    OBVIOUS
  <2>1. ~(i <= 2) /\ i - 2 \in 1..(Len(ss) - 1) /\ (i - 2) + 1 = i - 1 /\ i - 1 \in 1..Len(ss)
    BY <1>1, <1>3
  <2> QED BY <1>1, <1>3, <2>1
<1>6. \A i \in DOMAIN ss : i # 1 => i + 1 \in DOMAIN new /\ new[i + 1] = ss[i]
  <2> SUFFICES ASSUME NEW i \in DOMAIN ss, i # 1
               PROVE  i + 1 \in DOMAIN new /\ new[i + 1] = ss[i]
    OBVIOUS
  <2>1. i + 1 \in DOMAIN new /\ i + 1 # 1 /\ i + 1 # 2 /\ (i + 1) - 1 = i
    BY <1>1, <1>3
  <2> QED BY <1>5, <2>1
<1> QED BY <1>1, <1>2, <1>3, <1>4, <1>5, <1>6 DEF two, rest

Sound(read0, batches) ==
  /\ batches \in Seq(Seq(DOMAIN read0.inventory))
  /\ Apart(batches) /\ Within(read0, batches)

\* Each place of new is a place of old: that of batch row[i], shift[i] further.
Comes(new, old, row, shift) ==
  \A i \in DOMAIN new :
    /\ row[i] \in DOMAIN old /\ shift[i] \in Nat /\ new[i] # <<>>
    /\ \A a \in DOMAIN new[i] : /\ a + shift[i] \in DOMAIN old[row[i]]
                                /\ new[i][a] = old[row[i]][a + shift[i]]
    /\ \A j \in DOMAIN new : \A a \in DOMAIN new[i], b \in DOMAIN new[j] :
         row[i] = row[j] /\ a + shift[i] = b + shift[j] => i = j /\ a = b

\* Batches taken out of sound ones, at places of their own, are sound.
LEMMA Repacked ==
  ASSUME NEW read0 \in Reads, NEW old, Sound(read0, old),
         NEW new \in Seq(Seq(DOMAIN read0.inventory)), NEW row, NEW shift,
         Comes(new, old, row, shift)
  PROVE  Sound(read0, new)
<1>1. Apart(new)
  <2>1. ASSUME NEW i \in DOMAIN new, NEW j \in DOMAIN new,
               NEW a \in DOMAIN new[i], NEW b \in DOMAIN new[j], new[i][a] = new[j][b]
        PROVE  i = j /\ a = b
    <3>1. /\ row[i] \in DOMAIN old /\ a + shift[i] \in DOMAIN old[row[i]]
          /\ new[i][a] = old[row[i]][a + shift[i]]
      BY DEF Comes
    <3>2. /\ row[j] \in DOMAIN old /\ b + shift[j] \in DOMAIN old[row[j]]
          /\ new[j][b] = old[row[j]][b + shift[j]]
      BY DEF Comes
    <3>3. Apart(old) /\ old[row[i]][a + shift[i]] = old[row[j]][b + shift[j]]
      BY <2>1, <3>1, <3>2 DEF Sound
    <3>4. row[i] = row[j] /\ a + shift[i] = b + shift[j]
      BY <3>1, <3>2, <3>3 DEF Apart
    <3> QED BY <3>4 DEF Comes
  <2> QED BY <2>1 DEF Apart
<1>2. ASSUME NEW i \in DOMAIN new
      PROVE  new[i] # <<>> /\ Rules(read0, ToSet(new[i])) <= Limit
  <2>1. row[i] \in DOMAIN old /\ new[i] # <<>>
    BY DEF Comes
  <2>2. ToSet(new[i]) \subseteq ToSet(old[row[i]])
    BY DEF Comes, ToSet
  <2>3. ToSet(old[row[i]]) \in SUBSET DOMAIN read0.inventory
    BY <2>1 DEF Sound, ToSet
  <2>4. /\ Rules(read0, ToSet(old[row[i]])) \in Nat /\ Rules(read0, ToSet(new[i])) \in Nat
        /\ Rules(read0, ToSet(new[i])) <= Rules(read0, ToSet(old[row[i]]))
    BY <2>2, <2>3, RulesFacts
  <2>5. Rules(read0, ToSet(old[row[i]])) <= Limit
    BY <2>1 DEF Sound, Within
  <2> QED BY <2>1, <2>4, <2>5, LimitAssumption
<1> QED BY <1>1, <1>2 DEF Sound, Within

\* The first batch leaves.
LEMMA HeadLeaves ==
  ASSUME NEW read0 \in Reads, NEW ss, Sound(read0, ss), ss # <<>>
  PROVE  /\ Sound(read0, Tail(ss))
         /\ Held(ss) = ToSet(Head(ss)) \cup Held(Tail(ss))
         /\ ToSet(Head(ss)) \cap Held(Tail(ss)) = {}
<1> DEFINE D == DOMAIN read0.inventory
           rest == Tail(ss)
           row == [i \in DOMAIN rest |-> i + 1]
           shift == [i \in DOMAIN rest |-> 0]
<1>1. ss \in Seq(Seq(D))
  BY DEF Sound
<1>2. /\ rest \in Seq(Seq(D)) /\ Head(ss) = ss[1] /\ 1 \in DOMAIN ss
      /\ \A i \in DOMAIN rest : i \in Nat /\ i + 1 \in DOMAIN ss /\ i + 1 # 1
                                /\ rest[i] = ss[i + 1]
      /\ \A i \in DOMAIN ss : i # 1 => i - 1 \in DOMAIN rest /\ rest[i - 1] = ss[i]
      /\ \A i \in DOMAIN ss : DOMAIN ss[i] \subseteq Nat
  BY <1>1
<1>3. Comes(rest, ss, row, shift)
  <2> HIDE DEF rest, D
  <2> SUFFICES ASSUME NEW i \in DOMAIN rest
               PROVE  /\ i + 1 \in DOMAIN ss /\ rest[i] # <<>>
                      /\ \A a \in DOMAIN rest[i] : a + 0 \in DOMAIN ss[i + 1]
                                                   /\ rest[i][a] = ss[i + 1][a + 0]
                      /\ \A j \in DOMAIN rest : \A a \in DOMAIN rest[i], b \in DOMAIN rest[j] :
                           i + 1 = j + 1 /\ a + 0 = b + 0 => i = j /\ a = b
    BY DEF Comes
  <2>1. /\ i \in Nat /\ i + 1 \in DOMAIN ss /\ rest[i] = ss[i + 1]
        /\ \A a \in DOMAIN rest[i] : a \in Nat
    BY <1>2
  <2>2. rest[i] # <<>>
    BY <2>1 DEF Sound, Within
  <2>3. \A j \in DOMAIN rest : j \in Nat /\ \A b \in DOMAIN rest[j] : b \in Nat
    BY <1>2
  <2> QED BY <2>1, <2>2, <2>3
<1>4. Sound(read0, rest)
  <2> HIDE DEF rest, row, shift
  <2> QED BY <1>2, <1>3, Repacked
<1> HIDE DEF rest, D
<1>5. Held(ss) = ToSet(Head(ss)) \cup Held(rest)
  BY <1>2 DEF Held
<1>6. ToSet(Head(ss)) \cap Held(rest) = {}
  BY <1>2 DEF Held, ToSet, Sound, Apart
<1> QED BY <1>4, <1>5, <1>6 DEF rest

\* The first batch is split: nothing is lost between its halves.
LEMMA HalvesKeep ==
  ASSUME NEW read0 \in Reads, NEW ss, Sound(read0, ss), ss # <<>>, Len(Head(ss)) > 1
  PROVE  /\ Sound(read0, Halves(Head(ss)) \o Tail(ss))
         /\ Held(Halves(Head(ss)) \o Tail(ss)) = Held(ss)
<1> DEFINE D == DOMAIN read0.inventory
           batch == Head(ss)
           middle == Len(batch) \div 2
           first == SubSeq(batch, 1, middle)
           second == SubSeq(batch, middle + 1, Len(batch))
           new == Halves(batch) \o Tail(ss)
           row == [i \in DOMAIN new |-> IF i = 1 THEN 1 ELSE i - 1]
           shift == [i \in DOMAIN new |-> IF i = 2 THEN middle ELSE 0]
<1>1. /\ ss \in Seq(Seq(D)) /\ batch = ss[1] /\ 1 \in DOMAIN ss /\ batch \in Seq(D)
      /\ \A i \in DOMAIN ss : i \in Nat /\ DOMAIN ss[i] \subseteq Nat
  BY DEF Sound
<1>2. middle \in Nat /\ 1 <= middle /\ middle < Len(batch)
  BY <1>1
<1>3. /\ first \in Seq(D) /\ DOMAIN first = 1..middle
      /\ \A a \in 1..middle : a \in DOMAIN batch /\ first[a] = batch[a]
  <2>1. batch \in Seq(D) /\ middle \in Nat /\ 0 \in Nat /\ 0 <= middle /\ middle <= Len(batch)
    BY <1>1, <1>2
  <2> HIDE DEF middle, batch, D
  <2>2. /\ SubSeq(batch, 0 + 1, middle) \in Seq(D)
        /\ DOMAIN SubSeq(batch, 0 + 1, middle) = 1..(middle - 0)
        /\ \A a \in 1..(middle - 0) : /\ a + 0 \in DOMAIN batch
                                      /\ SubSeq(batch, 0 + 1, middle)[a] = batch[a + 0]
    BY <2>1, PartOf
  <2>3. 0 + 1 = 1 /\ middle - 0 = middle /\ \A a \in 1..middle : a + 0 = a
    BY <2>1
  <2> QED BY <2>2, <2>3
<1>4. /\ second \in Seq(D) /\ DOMAIN second = 1..(Len(batch) - middle)
      /\ \A a \in 1..(Len(batch) - middle) : /\ a + middle \in DOMAIN batch
                                             /\ second[a] = batch[a + middle]
  <2>1. /\ batch \in Seq(D) /\ middle \in Nat /\ Len(batch) \in Nat /\ middle <= Len(batch)
        /\ Len(batch) <= Len(batch)
    BY <1>1, <1>2
  <2> HIDE DEF middle, batch, D
  <2> QED BY <2>1, PartOf
<1>5. \A c \in DOMAIN batch : c \in 1..middle \/ c - middle \in 1..(Len(batch) - middle)
  <2> HIDE DEF middle, batch
  <2> QED BY <1>1, <1>2
<1>6. Halves(batch) = <<first, second>>
  BY DEF Halves
<1>7. /\ new \in Seq(Seq(D)) /\ 1 \in DOMAIN new /\ 2 \in DOMAIN new
      /\ new[1] = first /\ new[2] = second
      /\ \A i \in DOMAIN new : i \in Nat /\ i >= 1
      /\ \A i \in DOMAIN new : i # 1 /\ i # 2 => i - 1 \in DOMAIN ss /\ new[i] = ss[i - 1]
      /\ \A i \in DOMAIN ss : i # 1 => i + 1 \in DOMAIN new /\ new[i + 1] = ss[i]
  <2>1. new = <<first, second>> \o Tail(ss)
    BY <1>6
  <2>2. first \in Seq(D) /\ second \in Seq(D) /\ ss \in Seq(Seq(D))
    BY <1>1, <1>3, <1>4
  <2> DEFINE X == Seq(D)
  <2>3. first \in X /\ second \in X /\ ss \in Seq(X)
    BY <2>2
  <2> HIDE DEF new, first, second, D, row, shift, middle, batch, X
  <2>4. new \in Seq(X)
    BY <2>1, <2>3, TwoForOne
  <2>5. /\ 1 \in DOMAIN new /\ 2 \in DOMAIN new /\ new[1] = first /\ new[2] = second
        /\ \A i \in DOMAIN new : i \in Nat /\ i >= 1
    BY <2>1, <2>3, TwoForOne
  <2>6. \A i \in DOMAIN new : i # 1 /\ i # 2 => i - 1 \in DOMAIN ss /\ new[i] = ss[i - 1]
    BY <2>1, <2>3, TwoForOne
  <2>7. \A i \in DOMAIN ss : i # 1 => i + 1 \in DOMAIN new /\ new[i + 1] = ss[i]
    BY <2>1, <2>3, TwoForOne
  <2> QED BY <2>4, <2>5, <2>6, <2>7 DEF X
<1> HIDE DEF new, first, second, D, middle, batch
<1>8. \A i \in DOMAIN ss : ss[i] # <<>>
  BY DEF Sound, Within
<1>9. ASSUME NEW i \in DOMAIN new
      PROVE  /\ row[i] \in DOMAIN ss /\ shift[i] \in Nat /\ new[i] # <<>>
             /\ \A a \in DOMAIN new[i] : /\ a \in Nat /\ a + shift[i] \in DOMAIN ss[row[i]]
                                         /\ new[i][a] = ss[row[i]][a + shift[i]]
             /\ i = 1 => \A a \in DOMAIN new[i] : a <= middle
             /\ i # 1 => row[i] = i - 1
             /\ i = 1 => row[i] = 1
             /\ i = 2 => shift[i] = middle /\ \A a \in DOMAIN new[i] : a >= 1
             /\ i # 2 => shift[i] = 0
  <2>1. CASE i = 1
    <3>1. row[i] = 1 /\ shift[i] = 0 /\ new[i] = first
      BY <1>7, <2>1
    <3>2. first # <<>>
      BY <1>2, <1>3
    <3> HIDE DEF row, shift
    <3> QED BY <1>1, <1>2, <1>3, <2>1, <3>1, <3>2
  <2>2. CASE i = 2
    <3>1. row[i] = 1 /\ shift[i] = middle /\ new[i] = second
      BY <1>7, <2>2
    <3>2. second # <<>> /\ DOMAIN second \subseteq Nat /\ \A a \in DOMAIN second : a >= 1
      BY <1>1, <1>2, <1>4
    <3> HIDE DEF row, shift
    <3> QED BY <1>1, <1>2, <1>4, <2>2, <3>1, <3>2
  <2>3. CASE i # 1 /\ i # 2
    <3>1. row[i] = i - 1 /\ shift[i] = 0 /\ new[i] = ss[i - 1] /\ i - 1 \in DOMAIN ss
      BY <1>7, <2>3
    <3> HIDE DEF row, shift
    <3> QED BY <1>1, <1>8, <2>3, <3>1
  <2> QED BY <2>1, <2>2, <2>3
<1>10. ASSUME NEW i \in DOMAIN new, NEW j \in DOMAIN new,
              NEW a \in DOMAIN new[i], NEW b \in DOMAIN new[j],
              row[i] = row[j], a + shift[i] = b + shift[j]
       PROVE  i = j /\ a = b
  <2>1. /\ i \in Nat /\ j \in Nat /\ i >= 1 /\ j >= 1 /\ a \in Nat /\ b \in Nat
        /\ middle \in Nat
    BY <1>2, <1>7, <1>9
  <2> HIDE DEF row, shift
  <2>2. CASE i = j
    <3>1. shift[i] \in Nat
      BY <1>9
    <3> QED BY <1>10, <2>1, <2>2, <3>1
  <2>3. CASE i # j
    <3>1. (i = 1 /\ j = 2) \/ (i = 2 /\ j = 1)
      BY <1>9, <1>10, <2>1, <2>3
    <3>2. CASE i = 1 /\ j = 2
      <4>1. a <= middle /\ b >= 1 /\ shift[i] = 0 /\ shift[j] = middle
        BY <1>9, <3>2
      <4> QED BY <1>10, <2>1, <4>1
    <3>3. CASE i = 2 /\ j = 1
      <4>1. b <= middle /\ a >= 1 /\ shift[j] = 0 /\ shift[i] = middle
        BY <1>9, <3>3
      <4> QED BY <1>10, <2>1, <4>1
    <3> QED BY <3>1, <3>2, <3>3
  <2> QED BY <2>2, <2>3
<1>11. Comes(new, ss, row, shift)
  <2> HIDE DEF row, shift
  <2> QED BY <1>9, <1>10 DEF Comes
<1>12. Sound(read0, new)
  <2> HIDE DEF row, shift
  <2> QED BY <1>7, <1>11, Repacked DEF D
<1>13. ToSet(first) \cup ToSet(second) = ToSet(batch)
  <2>1. \A c \in DOMAIN batch : batch[c] \in ToSet(first) \cup ToSet(second)
    <3>1. ASSUME NEW c \in DOMAIN batch, c - middle \in 1..(Len(batch) - middle)
          PROVE  batch[c] \in ToSet(second)
      <4>1. c \in Int /\ middle \in Int
        BY <1>1, <1>2
      <4>2. (c - middle) + middle = c
        BY <4>1
      <4>3. second[c - middle] = batch[c]
        BY <1>4, <3>1, <4>2
      <4> QED BY <1>4, <3>1, <4>3 DEF ToSet
    <3>2. \A c \in 1..middle : batch[c] \in ToSet(first)
      BY <1>3 DEF ToSet
    <3> QED BY <1>5, <3>1, <3>2
  <2>2. \A a \in DOMAIN first : first[a] \in ToSet(batch)
    BY <1>3 DEF ToSet
  <2>3. \A a \in DOMAIN second : second[a] \in ToSet(batch)
    BY <1>4 DEF ToSet
  <2> QED BY <2>1, <2>2, <2>3 DEF ToSet
<1>14. Held(new) = Held(ss)
  <2>1. \A i \in DOMAIN new : ToSet(new[i]) \subseteq Held(ss)
    <3>1. \A i \in DOMAIN ss : ToSet(ss[i]) \subseteq Held(ss)
      BY DEF Held
    <3> QED BY <1>1, <1>7, <1>13, <3>1
  <2>2. \A i \in DOMAIN ss : ToSet(ss[i]) \subseteq Held(new)
    <3>1. \A i \in DOMAIN new : ToSet(new[i]) \subseteq Held(new)
      BY DEF Held
    <3> QED BY <1>1, <1>7, <1>13, <3>1
  <2> QED BY <2>1, <2>2 DEF Held
<1> QED BY <1>12, <1>14 DEF new, batch

\* A plan is cut after its first n batches.
LEMMA CutKeeps ==
  ASSUME NEW read0 \in Reads, NEW p, Sound(read0, p), NEW n \in 0..Len(p)
  PROVE  /\ Sound(read0, SubSeq(p, n + 1, Len(p)))
         /\ Prefix(p, n) \cap Held(SubSeq(p, n + 1, Len(p))) = {}
         /\ Prefix(p, n) \cup Held(SubSeq(p, n + 1, Len(p))) = Held(p)
         /\ n = 0 => Prefix(p, n) = {}
<1> DEFINE D == DOMAIN read0.inventory
           front == SubSeq(p, 1, n)
           rest == SubSeq(p, n + 1, Len(p))
           row == [i \in DOMAIN rest |-> i + n]
           shift == [i \in DOMAIN rest |-> 0]
<1>1. p \in Seq(Seq(D)) /\ n \in Nat /\ n <= Len(p) /\ Len(p) \in Nat /\ DOMAIN p = 1..Len(p)
      /\ \A i \in DOMAIN p : DOMAIN p[i] \subseteq Nat
  BY DEF Sound
<1>2. /\ front \in Seq(Seq(D)) /\ DOMAIN front = 1..n
      /\ \A i \in 1..n : i \in DOMAIN p /\ front[i] = p[i]
  <2>1. p \in Seq(Seq(D)) /\ 0 \in Nat /\ 0 <= n /\ n <= Len(p) /\ n \in Nat
    BY <1>1
  <2> HIDE DEF D
  <2>2. /\ SubSeq(p, 0 + 1, n) \in Seq(Seq(D))
        /\ DOMAIN SubSeq(p, 0 + 1, n) = 1..(n - 0)
        /\ \A i \in 1..(n - 0) : i + 0 \in DOMAIN p /\ SubSeq(p, 0 + 1, n)[i] = p[i + 0]
    BY <2>1, PartOf
  <2>3. 0 + 1 = 1 /\ n - 0 = n /\ \A i \in 1..n : i + 0 = i
    BY <2>1
  <2> QED BY <2>2, <2>3
<1>3. /\ rest \in Seq(Seq(D)) /\ DOMAIN rest = 1..(Len(p) - n)
      /\ \A i \in 1..(Len(p) - n) : i + n \in DOMAIN p /\ rest[i] = p[i + n]
  <2> DEFINE X == Seq(D)
             m == Len(p)
  <2>1. p \in Seq(X) /\ n <= m /\ n \in Nat /\ m \in Nat /\ m <= Len(p)
    BY <1>1
  <2> HIDE DEF D, row, shift, front, m, X
  <2>2. /\ SubSeq(p, n + 1, m) \in Seq(X) /\ DOMAIN SubSeq(p, n + 1, m) = 1..(m - n)
        /\ \A i \in 1..(m - n) : i + n \in DOMAIN p /\ SubSeq(p, n + 1, m)[i] = p[i + n]
    BY <2>1, PartOf
  <2> QED BY <2>2 DEF m, X
<1>4. \A i \in DOMAIN p : i \in 1..n \/ (i - n \in 1..(Len(p) - n) /\ (i - n) + n = i)
  BY <1>1
<1> HIDE DEF front, rest, D
<1>5. Prefix(p, n) = Held(front)
  BY <1>2, Flattened DEF Prefix, Places, front
<1>6. Comes(rest, p, row, shift)
  <2> SUFFICES ASSUME NEW i \in DOMAIN rest
               PROVE  /\ i + n \in DOMAIN p /\ rest[i] # <<>>
                      /\ \A a \in DOMAIN rest[i] : a + 0 \in DOMAIN p[i + n]
                                                   /\ rest[i][a] = p[i + n][a + 0]
                      /\ \A j \in DOMAIN rest : \A a \in DOMAIN rest[i], b \in DOMAIN rest[j] :
                           i + n = j + n /\ a + 0 = b + 0 => i = j /\ a = b
    BY DEF Comes
  <2>1. /\ i \in Nat /\ i + n \in DOMAIN p /\ rest[i] = p[i + n]
        /\ \A a \in DOMAIN rest[i] : a \in Nat
    BY <1>1, <1>3
  <2>2. rest[i] # <<>>
    BY <2>1 DEF Sound, Within
  <2>3. ASSUME NEW j \in DOMAIN rest
        PROVE  j \in Nat /\ \A b \in DOMAIN rest[j] : b \in Nat
    <3>1. j \in Nat /\ j + n \in DOMAIN p /\ rest[j] = p[j + n]
      BY <1>1, <1>3
    <3> QED BY <1>1, <3>1
  <2> QED BY <1>1, <2>1, <2>2, <2>3
<1>7. Sound(read0, rest)
  <2> HIDE DEF row, shift
  <2> QED BY <1>3, <1>6, Repacked DEF D
<1>8. Held(front) \cup Held(rest) = Held(p)
  <2>1. \A i \in DOMAIN p : ToSet(p[i]) \subseteq Held(front) \cup Held(rest)
    <3>1. \A i \in 1..n : ToSet(p[i]) \subseteq Held(front)
      BY <1>2 DEF Held
    <3>2. \A i \in 1..(Len(p) - n) : ToSet(p[i + n]) \subseteq Held(rest)
      BY <1>3 DEF Held
    <3> QED BY <1>4, <3>1, <3>2
  <2>2. \A i \in DOMAIN front : ToSet(front[i]) \subseteq Held(p)
    BY <1>2 DEF Held
  <2>3. \A i \in DOMAIN rest : ToSet(rest[i]) \subseteq Held(p)
    BY <1>3 DEF Held
  <2> QED BY <2>1, <2>2, <2>3 DEF Held
<1>9. Held(front) \cap Held(rest) = {}
  <2> SUFFICES ASSUME NEW x \in Held(front), x \in Held(rest) PROVE FALSE
    OBVIOUS
  <2>1. PICK i \in 1..n : x \in ToSet(p[i])
    BY <1>2 DEF Held
  <2>2. PICK j \in 1..(Len(p) - n) : x \in ToSet(p[j + n])
    BY <1>3 DEF Held
  <2>3. i \in DOMAIN p /\ j + n \in DOMAIN p /\ i # j + n
    BY <1>1, <1>2, <1>3
  <2> QED BY <2>1, <2>2, <2>3 DEF Sound, Apart, ToSet
<1>10. n = 0 => Held(front) = {}
  BY <1>2 DEF Held
<1> QED BY <1>5, <1>7, <1>8, <1>9, <1>10 DEF rest

\* What sound batches hold, and that it is finite.
LEMMA SoundTypes ==
  ASSUME NEW read0 \in Reads, NEW ss, Sound(read0, ss)
  PROVE  /\ ss \in Seq(Seq(Rulesets)) /\ Held(ss) \subseteq DOMAIN read0.inventory
         /\ DOMAIN read0.inventory \subseteq Rulesets /\ IsFiniteSet(DOMAIN read0.inventory)
<1>1. ss \in Seq(Seq(DOMAIN read0.inventory))
  BY DEF Sound
<1>2. DOMAIN read0.inventory \subseteq Rulesets /\ IsFiniteSet(DOMAIN read0.inventory)
  BY ReadsAssumption
<1>3. ss \in Seq(Seq(Rulesets))
  BY <1>1, <1>2
<1>4. Held(ss) \subseteq DOMAIN read0.inventory
  BY <1>1 DEF Held, ToSet
<1> QED BY <1>2, <1>3, <1>4

-----------------------------------------------------------------------------
(* The counts of the batches. *)

LEMMA TallyFacts ==
  ASSUME NEW answer, IsFiniteSet(DOMAIN answer), NEW state
  PROVE  /\ Tally(answer, state) \in Nat /\ Cardinality(DOMAIN answer) \in Nat
         /\ Tally(answer, state) <= Cardinality(DOMAIN answer)
         /\ \A x \in DOMAIN answer : answer[x] = state => Tally(answer, state) > 0
<1> DEFINE S == {x \in DOMAIN answer : answer[x] = state}
<1>1. IsFiniteSet(S) /\ Cardinality(S) <= Cardinality(DOMAIN answer)
  BY FS_Subset
<1>2. Cardinality(S) \in Nat /\ Cardinality(DOMAIN answer) \in Nat
  BY <1>1, FS_CardinalityType
<1>3. S # {} => Cardinality(S) > 0
  BY <1>1, <1>2, FS_EmptySet
<1> QED BY <1>1, <1>2, <1>3 DEF Tally

\* A total is a sum of naturals: it is zero only when every batch counts zero.
LEMMA TotalFacts ==
  ASSUME results \in Seq(Result), NEW field \in {"total", "pending", "unknown", "invalid"}
  PROVE  /\ Total(field) \in Nat
         /\ \A i \in DOMAIN results : results[i][field] \in Nat /\ results[i][field] <= Total(field)
<1> DEFINE n == Len(results)
           D == 1..n
           w == [i \in D |-> results[i][field]]
           choose == [s \in SUBSET D |-> Max(s)]
<1>1. n \in Nat /\ DOMAIN results = D
  OBVIOUS
<1>2. \A i \in D : results[i][field] \in Nat
  <2>1. \A r \in Result : r.total \in Nat /\ r.pending \in Nat /\ r.unknown \in Nat
                          /\ r.invalid \in Nat
    BY DEF Result
  <2>2. \A i \in D : results[i] \in Result
    BY <1>1
  <2> QED BY <2>1, <2>2
<1>3. w \in [D -> Nat]
  BY <1>2
<1>4. IsFiniteSet(D)
  BY <1>1, FS_Interval
<1>5. PICK f \in [SUBSET D -> Nat] : IsSum(f, D, w)
  <2> HIDE DEF w, D
  <2> QED BY <1>3, <1>4, SumsExist
<1>6. ASSUME NEW s \in SUBSET D, s # {}
      PROVE  choose[s] \in s /\ choose[s] = Max(s)
  BY <1>1, <1>6, MaxInside
<1> DEFINE Body(g) == [s \in SUBSET D |->
             IF s = {} THEN 0 ELSE g[s \ {Max(s)}] + results[Max(s)][field]]
           g == CHOOSE g : g = Body(g)
<1>7. Total(field) = g[D]
  <2>1. Total(field) = (CHOOSE iter : iter = [s \in SUBSET DOMAIN results |->
               IF s = {} THEN 0
               ELSE iter[s \ {Max(s)}] + results[Max(s)][field]])[DOMAIN results]
    BY DEF Total, FoldLeft, MapThenFoldSet
  <2> QED BY <1>1, <2>1
<1>8. f = Body(f)
  <2>1. ASSUME NEW s \in SUBSET D
        PROVE  f[s] = IF s = {} THEN 0 ELSE f[s \ {Max(s)}] + results[Max(s)][field]
    <3>1. CASE s = {}
      BY <1>5, <3>1 DEF IsSum
    <3>2. CASE s # {}
      <4>1. Max(s) \in s /\ Max(s) \in D /\ s \ {Max(s)} \in SUBSET D
        BY <1>6, <3>2
      <4>2. f[s] = w[Max(s)] + f[s \ {Max(s)}]
        BY <1>5, <4>1 DEF IsSum
      <4>3. w[Max(s)] = results[Max(s)][field] /\ w[Max(s)] \in Nat /\ f[s \ {Max(s)}] \in Nat
        BY <1>2, <4>1
      <4> HIDE DEF w, choose, g, Body, D
      <4> QED BY <3>2, <4>2, <4>3
    <3> QED BY <3>1, <3>2
  <2> HIDE DEF g, choose, w, D
  <2> QED BY <2>1
<1>9. g = Body(g)
  <2> HIDE DEF Body
  <2> QED BY <1>8
<1> HIDE DEF g
<1>10. g[D] = f[D]
  <2> DEFINE T == {k \in Nat : k <= n => g[1..k] = f[1..k]}
  <2>1. 0 \in T
    <3>1. 1..0 = {} /\ {} \in SUBSET D
      OBVIOUS
    <3>2. g[{}] = 0 /\ f[{}] = 0
      <4> HIDE DEF D
      <4> QED BY <1>5, <1>9, <3>1 DEF IsSum
    <3> QED BY <3>1, <3>2
  <2>2. ASSUME NEW k \in Nat, k \in T
        PROVE  k + 1 \in T
    <3> DEFINE m == k + 1
    <3> SUFFICES ASSUME m <= n PROVE g[1..m] = f[1..m]
      OBVIOUS
    <3>1. m \in D /\ m \in 1..n /\ m - 1 = k /\ k <= n
      BY <1>1
    <3>2. g[1..k] = f[1..k]
      BY <2>2, <3>1
    <3>3. /\ 1..m # {} /\ 1..m \in SUBSET D /\ (1..m) \ {m} = 1..k
          /\ 1..k \in SUBSET D /\ Max(1..m) = m
      <4> HIDE DEF m, n, T
      <4> QED BY <1>1, <3>1, FirstPlaces
    <3> HIDE DEF m, T, w, D
    <3>4. g[1..m] = g[1..k] + results[m][field]
      BY <1>9, <3>3
    <3>5. m \in 1..m
      BY <3>1, <3>3, <1>1, MaxInside DEF D
    <3>6. f[1..m] = w[m] + f[1..k]
      BY <1>5, <3>3, <3>5 DEF IsSum
    <3>7. w[m] = results[m][field] /\ w[m] \in Nat /\ f[1..k] \in Nat
      BY <1>2, <1>5, <3>1, <3>3 DEF w
    <3> QED BY <3>2, <3>4, <3>6, <3>7
  <2>3. Nat \subseteq T
    <3> HIDE DEF T
    <3> QED BY <2>1, <2>2, Induction
  <2> HIDE DEF n
  <2> QED BY <1>1, <2>3
<1>11. f[D] \in Nat
  BY <1>5
<1>12. ASSUME NEW i \in D
       PROVE  results[i][field] <= f[D]
  <2>1. {i} \in SUBSET D /\ D \in SUBSET D /\ {i} \ {i} = {} /\ {} \in SUBSET D
    OBVIOUS
  <2> HIDE DEF w, D, g
  <2>2. f[{i}] = w[i] + f[{}] /\ f[{}] = 0
    BY <1>5, <2>1 DEF IsSum
  <2>3. w[i] = results[i][field] /\ w[i] \in Nat
    BY <1>2 DEF w
  <2>4. f[{i}] <= f[D]
    BY <1>3, <1>4, <1>5, <2>1, SumsGrow
  <2> QED BY <1>11, <2>2, <2>3, <2>4
<1> QED BY <1>1, <1>2, <1>7, <1>10, <1>11, <1>12

-----------------------------------------------------------------------------
(* The inductive invariant of the loop. *)

Working == IF pc = "polling" THEN DOMAIN rows ELSE {}

\* The places of the rulesets during an attempt; the batches that wait are sound.
PlacesInv ==
  pc # "idle" =>
    /\ status = "RUNNING" /\ read \in Reads /\ Sound(read, pending)
    /\ Held(pending) \cap Working = {} /\ Held(pending) \cap done = {}
    /\ Held(pending) \cap oversized = {} /\ Working \cap done = {}
    /\ Working \cap oversized = {} /\ done \cap oversized = {}
    /\ Held(pending) \cup Working \cup done \cup oversized = Selected(read)

\* What has a result or a stored row was polled once.
PolledInv ==
  /\ \A x \in Rulesets : usage[x] # "none" => x \in polled
  /\ pc # "idle" => done \subseteq polled
  /\ rows \in [DOMAIN rows -> RowStates \cup {"missing", "invalid"}]
  /\ pc \in {"reading", "ingesting"} => DOMAIN rows \subseteq done /\ results # <<>>

\* What the attempt has seen is stored, but for the batch that is being ingested.
Kept(x) ==
  /\ seen[x] = "completed" => usage[x] = "completed"
  /\ seen[x] \notin {"none", "invalid"} => usage[x] # "none"
Answered(x) == x \in DOMAIN rows /\ rows[x] # "missing"
StoredInv ==
  /\ pc \in {"submitting", "polling", "reading"} => \A x \in Rulesets : Kept(x)
  /\ pc = "ingesting" =>
       \A x \in Rulesets : IF Answered(x) THEN seen[x] = rows[x] ELSE Kept(x)

\* What the attempt has seen shows in the counts of a batch; a resumed backfill has
\* seen stored rows too.
Counts(field) == \E i \in DOMAIN results : results[i][field] > 0
CountedInv ==
  /\ pc # "idle" =>
       \A x \in Rulesets :
         /\ seen[x] = "invalid" => Counts("invalid")
         /\ kind = "TRAFFIC" /\ seen[x] = "pending" => Counts("pending")
         /\ kind = "TRAFFIC" /\ seen[x] = "unknown" => Counts("unknown")
  /\ pc = "reading" =>
       LET last == results[Len(results)]
       IN last.invalid = 0 /\ last.pending = Tally(rows, "pending")
          /\ last.unknown = Tally(rows, "unknown")

LoopInv == /\ TypeOK /\ PlacesInv /\ PolledInv /\ StoredInv /\ CountedInv
           /\ NothingOmitted /\ SuccessIsStored

LEMMA NothingIsLoop == Init => LoopInv
<1> SUFFICES ASSUME Init PROVE LoopInv
  OBVIOUS
<1> USE DEF Init
<1>1. <<>> \in Seq(Result) /\ <<>> \in Seq(Seq(Rulesets)) /\ DOMAIN <<>> = {}
      /\ <<>> \in [{} -> RowStates \cup {"missing", "invalid"}]
  OBVIOUS
<1>2. TypeOK
  BY <1>1, AttemptsAssumption DEF TypeOK, NoDetails, Nothing
<1>3. PlacesInv /\ StoredInv /\ CountedInv /\ NothingOmitted /\ SuccessIsStored
  BY DEF PlacesInv, StoredInv, CountedInv, NothingOmitted, SuccessIsStored, SuccessStatuses
<1>4. PolledInv
  BY <1>1 DEF PolledInv, Nothing
<1> QED BY <1>2, <1>3, <1>4 DEF LoopInv

\* An attempt begins with the plan of what it reads, without the resumed prefix.
LEMMA BeginKeeps ==
  ASSUME LoopInv, NEW new \in Reads, Begin(new)
  PROVE  LoopInv'
<1> DEFINE p == Plan(new)
           n == IF CanResume(p) THEN Len(previous.batches) ELSE 0
           rest == SubSeq(p, n + 1, Len(p))
<1>1. /\ read' = new /\ pending' = rest /\ index' = n /\ batchCount' = -1 /\ rows' = <<>>
      /\ done' = Prefix(p, n) /\ results' = SubSeq(previous.batches, 1, n)
      /\ seen' = IF n > 0 THEN usage ELSE Nothing
      /\ oversized' = Oversized(new) /\ pc' = "submitting" /\ status' = "RUNNING"
      /\ previous' = NoDetails /\ UNCHANGED <<kind, usage, polled>>
      /\ attempts < MaxAttempts /\ attempts' = attempts + 1
  BY DEF Begin, Retry
<1>2. TypeOK /\ PolledInv
  BY DEF LoopInv
<1>3. Sound(new, p) /\ Held(p) = Candidates(new)
  <2>1. Packed(new, Candidates(new), p)
    BY PlanPacks
  <2>2. Candidates(new) \subseteq DOMAIN new.inventory
    BY DEF Candidates, Selected
  <2> HIDE DEF p
  <2>3. p \in Seq(Seq(DOMAIN new.inventory))
    BY <2>1, <2>2 DEF Packed
  <2> QED BY <2>1, <2>3 DEF Packed, Sound
<1>4. n \in 0..Len(p) /\ n <= Len(previous.batches) /\ n \in Nat
  <2>1. Len(p) \in Nat /\ previous.batches \in Seq(Result)
    BY <1>2, <1>3 DEF Sound, TypeOK
  <2>2. CanResume(p) => Len(previous.batches) <= Len(p)
    BY DEF CanResume
  <2> HIDE DEF p
  <2> QED BY <2>1, <2>2
<1>5. n > 0 => CanResume(p)
  OBVIOUS
<1> HIDE DEF p, n
<1>6. /\ Sound(new, rest) /\ Prefix(p, n) \cap Held(rest) = {}
      /\ Prefix(p, n) \cup Held(rest) = Candidates(new)
      /\ n = 0 => Prefix(p, n) = {}
  BY <1>3, <1>4, CutKeeps
<1> HIDE DEF rest
<1>7. rest \in Seq(Seq(Rulesets)) /\ DOMAIN new.inventory \subseteq Rulesets
  BY <1>6, SoundTypes
<1>8. /\ Selected(new) = Candidates(new) \cup Oversized(new)
      /\ Candidates(new) \cap Oversized(new) = {}
      /\ Candidates(new) \subseteq Rulesets /\ Oversized(new) \subseteq Rulesets
  BY <1>7 DEF Candidates, Oversized, Selected
<1>9. results' \in Seq(Result)
  <2>1. previous.batches \in Seq(Result) /\ 0 \in Nat /\ 0 <= n /\ 0 + 1 = 1
    BY <1>2, <1>4 DEF TypeOK
  <2>2. SubSeq(previous.batches, 0 + 1, n) \in Seq(Result)
    BY <1>4, <2>1, PartOf
  <2> QED BY <1>1, <2>1, <2>2
<1>10. DOMAIN <<>> = {} /\ <<>> \in [{} -> RowStates \cup {"missing", "invalid"}]
       /\ <<>> \in Seq(Result)
  OBVIOUS
<1>11. usage \in [Rulesets -> RowStates \cup {"none"}]
  BY <1>2 DEF TypeOK
<1>12. /\ seen' \in [Rulesets -> RowStates \cup {"none"}]
       /\ \A x \in Rulesets : seen'[x] = "none" \/ seen'[x] = usage[x]
       /\ kind = "TRAFFIC" => seen' = Nothing
  <2>1. Nothing \in [Rulesets -> RowStates \cup {"none"}] /\ \A x \in Rulesets : Nothing[x] = "none"
    BY DEF Nothing
  <2>2. kind = "TRAFFIC" => ~(n > 0)
    BY <1>5 DEF CanResume
  <2> HIDE DEF Nothing
  <2> QED BY <1>1, <1>11, <2>1, <2>2
<1>13. TypeOK'
  <2>1. attempts' \in 0..MaxAttempts
    BY <1>1, <1>2, AttemptsAssumption DEF TypeOK
  <2>2. previous'.batches \in Seq(Result) /\ previous'.count \in Int
    BY <1>1, <1>10 DEF NoDetails
  <2>3. DOMAIN rows' \subseteq Rulesets /\ done' \subseteq Rulesets /\ oversized' \subseteq Rulesets
    BY <1>1, <1>6, <1>8, <1>10
  <2>4. seen' \in [Rulesets -> RowStates \cup {"none", "invalid"}]
    BY <1>12
  <2> QED BY <1>1, <1>2, <1>4, <1>7, <1>9, <2>1, <2>2, <2>3, <2>4 DEF TypeOK
<1>14. PlacesInv'
  BY <1>1, <1>6, <1>8 DEF PlacesInv, Working
<1>15. PolledInv'
  <2>1. Prefix(p, n) \subseteq polled
    <3>1. n > 0 => \A x \in Prefix(p, n) : usage[x] # "none"
      BY <1>5 DEF CanResume, n
    <3>2. Prefix(p, n) \subseteq Rulesets
      BY <1>6, <1>8
    <3> QED BY <1>2, <1>4, <1>6, <3>1, <3>2 DEF PolledInv
  <2> QED BY <1>1, <1>2, <1>10, <2>1 DEF PolledInv
<1>16. StoredInv'
  BY <1>1, <1>12 DEF StoredInv, Kept
<1>17. CountedInv'
  BY <1>1, <1>12 DEF CountedInv, RowStates, Nothing
<1>18. NothingOmitted' /\ SuccessIsStored'
  BY <1>1 DEF NothingOmitted, SuccessIsStored, SuccessStatuses
<1> QED BY <1>13, <1>14, <1>15, <1>16, <1>17, <1>18 DEF LoopInv

\* The end of a run keeps what the outcome promises.
LEMMA EndKeeps ==
  ASSUME LoopInv, pc # "idle", NEW outcome \in SuccessStatuses \cup {"WARNING", "ERROR"},
         NEW count \in Int, End(outcome, count),
         outcome \in SuccessStatuses => pc = "submitting" /\ pending = <<>>,
         outcome = "SUCCESS" =>
           \A x \in Selected(read) :
             /\ seen[x] \notin {"none", "invalid"}
             /\ kind = "TRAFFIC" => seen[x] \notin {"pending", "unknown"}
  PROVE  LoopInv'
<1>1. /\ status' = outcome
      /\ previous' = IF outcome = "ERROR" THEN [batches |-> results, count |-> count]
                     ELSE NoDetails
      /\ IF outcome = "ERROR" THEN read' = NoRead /\ seen' = Nothing /\ oversized' = {}
                              ELSE UNCHANGED <<read, seen, oversized>>
      /\ pending' = <<>> /\ index' = 0 /\ batchCount' = -1
      /\ rows' = <<>> /\ done' = {} /\ results' = <<>> /\ pc' = "idle"
      /\ UNCHANGED <<kind, usage, attempts, polled>>
  BY DEF End
<1>2. TypeOK /\ PlacesInv /\ PolledInv /\ StoredInv
  BY DEF LoopInv
<1>3. DOMAIN <<>> = {} /\ <<>> \in [{} -> RowStates \cup {"missing", "invalid"}]
      /\ <<>> \in Seq(Result) /\ <<>> \in Seq(Seq(Rulesets))
  OBVIOUS
<1>4. TypeOK'
  <2>1. previous'.batches \in Seq(Result) /\ previous'.count \in Int
    BY <1>1, <1>2, <1>3 DEF NoDetails, TypeOK
  <2>2. read' \in Reads \cup {NoRead} /\ oversized' \subseteq Rulesets
    BY <1>1, <1>2 DEF TypeOK
  <2>3. seen' \in [Rulesets -> RowStates \cup {"none", "invalid"}]
    BY <1>1, <1>2 DEF TypeOK, Nothing
  <2>4. DOMAIN rows' \subseteq Rulesets
    BY <1>1, <1>3
  <2> QED BY <1>1, <1>2, <1>3, <2>1, <2>2, <2>3, <2>4 DEF TypeOK
<1>5. PlacesInv' /\ StoredInv' /\ CountedInv'
  BY <1>1 DEF PlacesInv, StoredInv, CountedInv
<1>6. PolledInv'
  BY <1>1, <1>2, <1>3 DEF PolledInv
<1>7. ASSUME outcome \in SuccessStatuses
      PROVE  /\ UNCHANGED <<read, seen, oversized>> /\ Selected(read) = done \cup oversized
             /\ done \subseteq polled /\ Selected(read) \subseteq Rulesets
             /\ \A x \in Rulesets : Kept(x)
  <2>1. pc = "submitting" /\ pending = <<>> /\ outcome # "ERROR"
    BY <1>7 DEF SuccessStatuses
  <2>2. Held(pending) = {} /\ Working = {}
    BY <1>3, <2>1 DEF Held, Working
  <2>3. Selected(read) = done \cup oversized
    BY <1>2, <2>1, <2>2 DEF PlacesInv
  <2> QED BY <1>1, <1>2, <2>1, <2>3 DEF PolledInv, StoredInv, TypeOK
<1>8. NothingOmitted'
  BY <1>1, <1>7 DEF NothingOmitted
<1>9. SuccessIsStored'
  <2>1. ASSUME outcome \in SuccessStatuses
        PROVE  \A x \in Rulesets : seen'[x] = "completed" => usage'[x] = "completed"
    BY <1>1, <1>7, <2>1 DEF Kept
  <2>2. ASSUME outcome = "SUCCESS", NEW x \in Selected(read')
        PROVE  seen'[x] # "none" /\ usage'[x] # "none"
               /\ (kind' = "TRAFFIC" => seen'[x] = "completed")
    <3>1. /\ UNCHANGED <<read, seen, oversized>> /\ x \in Selected(read)
          /\ x \in Rulesets /\ Kept(x)
      BY <1>7, <2>2 DEF SuccessStatuses
    <3>2. seen[x] \in RowStates \cup {"none", "invalid"}
      BY <1>2, <3>1 DEF TypeOK
    <3> QED BY <1>1, <2>2, <3>1, <3>2 DEF Kept, RowStates
  <2> QED BY <1>1, <2>1, <2>2 DEF SuccessIsStored
<1> QED BY <1>4, <1>5, <1>6, <1>8, <1>9 DEF LoopInv

LEMMA FailKeeps ==
  ASSUME LoopInv, Fail
  PROVE  LoopInv'
<1>1. pc # "idle" /\ End("ERROR", batchCount) /\ batchCount \in Int
  BY DEF Fail, LoopInv, TypeOK
<1>2. "ERROR" \notin SuccessStatuses /\ "ERROR" # "SUCCESS"
  BY DEF SuccessStatuses
<1> QED BY <1>1, <1>2, EndKeeps

LEMMA FailEarlyKeeps ==
  ASSUME LoopInv, FailEarly
  PROVE  LoopInv'
<1>1. /\ pc = "idle" /\ status' = "ERROR" /\ previous' = NoDetails
      /\ attempts < MaxAttempts /\ attempts' = attempts + 1
      /\ UNCHANGED <<kind, usage, locals, pc, polled>>
  BY DEF FailEarly, Retry
<1>2. UNCHANGED <<read, pending, index, batchCount, rows, done, results, seen, oversized>>
  BY <1>1 DEF locals
<1>3. TypeOK /\ PolledInv
  BY DEF LoopInv
<1>4. TypeOK'
  <2>1. previous'.batches \in Seq(Result) /\ previous'.count \in Int
    BY <1>1 DEF NoDetails
  <2>2. attempts' \in 0..MaxAttempts
    BY <1>1, <1>3, AttemptsAssumption DEF TypeOK
  <2> QED BY <1>1, <1>2, <1>3, <2>1, <2>2 DEF TypeOK
<1>5. PlacesInv' /\ StoredInv' /\ CountedInv' /\ NothingOmitted' /\ SuccessIsStored'
  BY <1>1 DEF PlacesInv, StoredInv, CountedInv, NothingOmitted, SuccessIsStored, SuccessStatuses
<1>6. PolledInv'
  BY <1>1, <1>2, <1>3 DEF PolledInv
<1> QED BY <1>4, <1>5, <1>6 DEF LoopInv

\* SUCCESS: every selected ruleset was seen, none of them invalid, and for a weekly
\* window none pending or unknown.
LEMMA SuccessCounts ==
  ASSUME LoopInv, pc = "submitting", Classify = "SUCCESS", NEW x \in Selected(read)
  PROVE  /\ seen[x] \notin {"none", "invalid"}
         /\ kind = "TRAFFIC" => seen[x] \notin {"pending", "unknown"}
<1>1. TypeOK /\ PlacesInv /\ CountedInv
  BY DEF LoopInv
<1>2. results \in Seq(Result)
  BY <1>1 DEF TypeOK
<1>3. /\ Total("total") \in Nat /\ Total("pending") \in Nat /\ Total("unknown") \in Nat
      /\ Total("invalid") \in Nat
  BY <1>2, TotalFacts
<1>4. Total("pending") = 0 /\ Total("unknown") = 0 /\ Total("invalid") = 0
      /\ oversized = {} /\ Missing = {}
  <2> DEFINE empty == Total("total") = 0 /\ kind # "TRAFFIC" /\ oversized = {} /\ Missing = {}
             exceptions == Total("unknown") + Total("invalid") > 0 \/ oversized # {}
                           \/ Missing # {}
  <2>1. Classify = CASE empty \/ Total("pending") > 0 -> "WARNING"
                     [] ~empty /\ Total("pending") = 0 /\ exceptions -> "SUCCESS_WITH_EXCEPTIONS"
                     [] OTHER -> "SUCCESS"
    BY DEF Classify
  <2>2. Total("pending") > 0 \/ Total("pending") = 0
    BY <1>3
  <2> HIDE DEF empty, exceptions
  <2>3. ~(Total("pending") > 0) /\ ~exceptions
    BY <2>1, <2>2
  <2> USE DEF exceptions
  <2> QED BY <1>3, <2>3
<1>5. \A field \in {"pending", "unknown", "invalid"} : Total(field) = 0 => ~Counts(field)
  <2> SUFFICES ASSUME NEW field \in {"pending", "unknown", "invalid"}, Total(field) = 0
               PROVE  ~Counts(field)
    OBVIOUS
  <2>1. \A i \in DOMAIN results : results[i][field] \in Nat /\ results[i][field] <= Total(field)
    BY <1>2, TotalFacts
  <2>2. \A i \in DOMAIN results : ~(results[i][field] > 0)
    BY <2>1
  <2> QED BY <2>2 DEF Counts
<1>6. ~Counts("pending") /\ ~Counts("unknown") /\ ~Counts("invalid")
  BY <1>4, <1>5
<1>7. x \in Rulesets
  <2>1. read \in Reads
    BY <1>1 DEF PlacesInv
  <2> QED BY <2>1, ReadsAssumption DEF Selected
<1>8. seen[x] # "none"
  BY <1>4 DEF Missing
<1> QED BY <1>1, <1>6, <1>7, <1>8 DEF CountedInv

LEMMA FinishKeeps ==
  ASSUME LoopInv, Finish
  PROVE  LoopInv'
<1>1. /\ pc = "submitting" /\ pending = <<>>
      /\ End(Classify, Len(results)) \/ End("ERROR", Len(results))
  BY DEF Finish
<1>2. Len(results) \in Int
  BY DEF LoopInv, TypeOK
<1>3. Classify \in SuccessStatuses \cup {"WARNING", "ERROR"}
  <2>1. results \in Seq(Result)
    BY DEF LoopInv, TypeOK
  <2>2. Total("pending") \in Nat
    BY <2>1, TotalFacts
  <2> QED BY <2>2 DEF Classify, SuccessStatuses
<1>4. Classify = "SUCCESS" =>
        \A x \in Selected(read) : /\ seen[x] \notin {"none", "invalid"}
                                  /\ kind = "TRAFFIC" => seen[x] \notin {"pending", "unknown"}
  BY <1>1, SuccessCounts
<1>5. "ERROR" \notin SuccessStatuses /\ "ERROR" # "SUCCESS"
  BY DEF SuccessStatuses
<1>6. CASE End(Classify, Len(results))
  BY <1>1, <1>2, <1>3, <1>4, <1>6, EndKeeps
<1>7. CASE End("ERROR", Len(results))
  BY <1>1, <1>2, <1>5, <1>7, EndKeeps
<1> QED BY <1>1, <1>6, <1>7

\* What taking the head of the queue leaves alone.
LEMMA TakeTypes ==
  ASSUME LoopInv, Take
  PROVE  /\ pc = "submitting" /\ pending # <<>> /\ read \in Reads /\ Sound(read, pending)
         /\ UNCHANGED <<kind, usage, previous, read, results, seen, done, status, attempts,
                        polled>>
         /\ index' \in Nat /\ batchCount' \in Int
         /\ Sound(read, Tail(pending))
         /\ Held(pending) = ToSet(Head(pending)) \cup Held(Tail(pending))
         /\ ToSet(Head(pending)) \cap Held(Tail(pending)) = {}
         /\ ToSet(Head(pending)) \subseteq Rulesets
<1>1. /\ pc = "submitting" /\ pending # <<>> /\ index' = index + 1
      /\ batchCount' = index' + Len(pending) - 1
      /\ UNCHANGED <<kind, usage, previous, read, results, seen, done, status, attempts,
                     polled>>
  BY DEF Take
<1>2. index \in Nat /\ pending \in Seq(Seq(Rulesets))
  BY DEF LoopInv, TypeOK
<1>3. index' \in Nat /\ batchCount' \in Int
  BY <1>1, <1>2
<1>4. read \in Reads /\ Sound(read, pending)
  BY <1>1 DEF LoopInv, PlacesInv
<1>5. /\ Sound(read, Tail(pending))
      /\ Held(pending) = ToSet(Head(pending)) \cup Held(Tail(pending))
      /\ ToSet(Head(pending)) \cap Held(Tail(pending)) = {}
  BY <1>1, <1>4, HeadLeaves
<1>6. Held(pending) \subseteq Rulesets
  BY <1>4, SoundTypes
<1> QED BY <1>1, <1>3, <1>4, <1>5, <1>6

LEMMA SubmitKeeps ==
  ASSUME LoopInv, Submit
  PROVE  LoopInv'
<1>1. /\ Take /\ pending' = Tail(pending)
      /\ rows' = [x \in ToSet(Head(pending)) |-> "missing"]
      /\ pc' = "polling" /\ oversized' = oversized
  BY DEF Submit
<1>2. /\ pc = "submitting" /\ read \in Reads
      /\ UNCHANGED <<kind, usage, previous, read, results, seen, done, status, attempts,
                     polled>>
      /\ index' \in Nat /\ batchCount' \in Int
      /\ Sound(read, pending')
      /\ Held(pending) = ToSet(Head(pending)) \cup Held(pending')
      /\ ToSet(Head(pending)) \cap Held(pending') = {}
      /\ ToSet(Head(pending)) \subseteq Rulesets
  BY <1>1, TakeTypes
<1>3. DOMAIN rows' = ToSet(Head(pending)) /\ \A x \in DOMAIN rows' : rows'[x] = "missing"
  BY <1>1
<1>4. TypeOK /\ PlacesInv /\ PolledInv /\ StoredInv /\ CountedInv
  BY DEF LoopInv
<1>5. pending' \in Seq(Seq(Rulesets))
  BY <1>2, SoundTypes
<1>6. TypeOK'
  BY <1>1, <1>2, <1>3, <1>4, <1>5 DEF TypeOK
<1>7. PlacesInv'
  BY <1>1, <1>2, <1>3, <1>4 DEF PlacesInv, Working
<1>8. PolledInv'
  <2>1. rows' \in [DOMAIN rows' -> RowStates \cup {"missing", "invalid"}]
    BY <1>1
  <2> QED BY <1>1, <1>2, <1>4, <2>1 DEF PolledInv
<1>9. StoredInv' /\ CountedInv'
  BY <1>1, <1>2, <1>4 DEF StoredInv, CountedInv, Kept, Counts
<1>10. NothingOmitted' /\ SuccessIsStored'
  BY <1>2, <1>4 DEF NothingOmitted, SuccessIsStored, SuccessStatuses, PlacesInv
<1> QED BY <1>6, <1>7, <1>8, <1>9, <1>10 DEF LoopInv

LEMMA SplitKeeps ==
  ASSUME LoopInv, Split
  PROVE  LoopInv'
<1>1. /\ Take /\ Len(Head(pending)) > 1
      /\ pending' = Halves(Head(pending)) \o Tail(pending)
      /\ UNCHANGED <<rows, pc, oversized>>
  BY DEF Split
<1>2. /\ pc = "submitting" /\ read \in Reads /\ pending # <<>> /\ Sound(read, pending)
      /\ UNCHANGED <<kind, usage, previous, read, results, seen, done, status, attempts,
                     polled>>
      /\ index' \in Nat /\ batchCount' \in Int
  BY <1>1, TakeTypes
<1>3. Sound(read, pending') /\ Held(pending') = Held(pending)
  BY <1>1, <1>2, HalvesKeep
<1>4. TypeOK /\ PlacesInv /\ PolledInv /\ StoredInv /\ CountedInv
  BY DEF LoopInv
<1>5. pending' \in Seq(Seq(Rulesets))
  BY <1>2, <1>3, SoundTypes
<1>6. TypeOK'
  BY <1>1, <1>2, <1>4, <1>5 DEF TypeOK
<1>7. PlacesInv'
  BY <1>1, <1>2, <1>3, <1>4 DEF PlacesInv, Working
<1>8. PolledInv'
  BY <1>1, <1>2, <1>4 DEF PolledInv
<1>9. StoredInv' /\ CountedInv'
  BY <1>1, <1>2, <1>4 DEF StoredInv, CountedInv, Kept, Counts
<1>10. NothingOmitted' /\ SuccessIsStored'
  BY <1>2, <1>4 DEF NothingOmitted, SuccessIsStored, SuccessStatuses, PlacesInv
<1> QED BY <1>6, <1>7, <1>8, <1>9, <1>10 DEF LoopInv

LEMMA SkipKeeps ==
  ASSUME LoopInv, Skip
  PROVE  LoopInv'
<1>1. /\ Take /\ pending' = Tail(pending)
      /\ oversized' = oversized \cup ToSet(Head(pending)) /\ UNCHANGED <<rows, pc>>
  BY DEF Skip
<1>2. /\ pc = "submitting" /\ read \in Reads
      /\ UNCHANGED <<kind, usage, previous, read, results, seen, done, status, attempts,
                     polled>>
      /\ index' \in Nat /\ batchCount' \in Int
      /\ Sound(read, pending')
      /\ Held(pending) = ToSet(Head(pending)) \cup Held(pending')
      /\ ToSet(Head(pending)) \cap Held(pending') = {}
      /\ ToSet(Head(pending)) \subseteq Rulesets
  BY <1>1, TakeTypes
<1>4. TypeOK /\ PlacesInv /\ PolledInv /\ StoredInv /\ CountedInv
  BY DEF LoopInv
<1>5. pending' \in Seq(Seq(Rulesets))
  BY <1>2, SoundTypes
<1>6. TypeOK'
  BY <1>1, <1>2, <1>4, <1>5 DEF TypeOK
<1>7. PlacesInv'
  BY <1>1, <1>2, <1>4 DEF PlacesInv, Working
<1>8. PolledInv'
  BY <1>1, <1>2, <1>4 DEF PolledInv
<1>9. StoredInv' /\ CountedInv'
  BY <1>1, <1>2, <1>4 DEF StoredInv, CountedInv, Kept, Counts
<1>10. NothingOmitted' /\ SuccessIsStored'
  BY <1>2, <1>4 DEF NothingOmitted, SuccessIsStored, SuccessStatuses, PlacesInv
<1> QED BY <1>6, <1>7, <1>8, <1>9, <1>10 DEF LoopInv

\* A batch at work, and one that has a result, is finite.
LEMMA RowsAreFinite ==
  ASSUME LoopInv, pc \in {"polling", "reading", "ingesting"}
  PROVE  IsFiniteSet(DOMAIN rows)
<1>1. read \in Reads /\ DOMAIN rows \subseteq Selected(read)
  BY DEF LoopInv, PlacesInv, PolledInv, Working
<1>2. DOMAIN rows \subseteq DOMAIN read.inventory
  BY <1>1 DEF Selected
<1> QED BY <1>1, <1>2, ReadsAssumption, FS_Subset

\* The poll appends the counts of its batch.
LEMMA PollKeeps ==
  ASSUME LoopInv, NEW answer \in [DOMAIN rows -> Statuses], Poll(answer)
  PROVE  LoopInv'
<1> DEFINE result == [batch |-> index,
              total |-> Cardinality(DOMAIN answer) - Tally(answer, "missing"),
              completed |-> Tally(answer, "completed") + Tally(answer, "invalid"),
              pending |-> Tally(answer, "pending"), unknown |-> Tally(answer, "unknown"),
              invalid |-> 0]
<1>1. /\ pc = "polling" /\ rows' = answer /\ results' = Append(results, result)
      /\ done' = done \cup DOMAIN answer /\ polled' = polled \cup DOMAIN answer
      /\ pc' = "reading"
      /\ UNCHANGED <<kind, usage, previous, read, pending, index, batchCount, seen, oversized,
                     status, attempts>>
  BY DEF Poll
<1>2. TypeOK /\ PlacesInv /\ PolledInv /\ StoredInv /\ CountedInv
  BY DEF LoopInv
<1>3. DOMAIN answer = DOMAIN rows /\ IsFiniteSet(DOMAIN answer)
  <2>1. DOMAIN answer = DOMAIN rows
    OBVIOUS
  <2> QED BY <1>1, <2>1, RowsAreFinite
<1>4. result \in Result
  <2>1. index \in Nat
    BY <1>2 DEF TypeOK
  <2>2. /\ Tally(answer, "missing") \in Nat /\ Tally(answer, "completed") \in Nat
        /\ Tally(answer, "invalid") \in Nat /\ Tally(answer, "pending") \in Nat
        /\ Tally(answer, "unknown") \in Nat /\ Cardinality(DOMAIN answer) \in Nat
        /\ Tally(answer, "missing") <= Cardinality(DOMAIN answer)
    BY <1>3, TallyFacts
  <2> QED BY <2>1, <2>2 DEF Result
<1>5. result.invalid = 0 /\ result.pending = Tally(answer, "pending")
      /\ result.unknown = Tally(answer, "unknown")
  OBVIOUS
<1> HIDE DEF result
<1>6. /\ results \in Seq(Result) /\ results' \in Seq(Result)
      /\ results' # <<>> /\ results'[Len(results')] = result
      /\ \A i \in DOMAIN results : i \in DOMAIN results' /\ results'[i] = results[i]
  <2>1. results \in Seq(Result)
    BY <1>2 DEF TypeOK
  <2> QED BY <1>1, <1>4, <2>1
<1>7. TypeOK'
  BY <1>1, <1>2, <1>3, <1>6 DEF TypeOK
<1>8. PlacesInv'
  BY <1>1, <1>2, <1>3 DEF PlacesInv, Working
<1>9. PolledInv'
  <2>1. answer \in [DOMAIN answer -> RowStates \cup {"missing", "invalid"}]
    BY <1>3, StatusesAssumption
  <2> QED BY <1>1, <1>2, <1>3, <1>6, <2>1 DEF PolledInv
<1>10. StoredInv'
  BY <1>1, <1>2 DEF StoredInv, Kept
<1>11. CountedInv'
  <2>1. \A field \in {"pending", "unknown", "invalid"} : Counts(field) => Counts(field)'
    BY <1>6 DEF Counts
  <2>2. ASSUME NEW x \in Rulesets
        PROVE  /\ seen'[x] = "invalid" => Counts("invalid")'
               /\ kind' = "TRAFFIC" /\ seen'[x] = "pending" => Counts("pending")'
               /\ kind' = "TRAFFIC" /\ seen'[x] = "unknown" => Counts("unknown")'
    BY <1>1, <1>2, <2>1 DEF CountedInv
  <2>3. LET last == results'[Len(results')]
        IN last.invalid = 0 /\ last.pending = Tally(rows', "pending")
           /\ last.unknown = Tally(rows', "unknown")
    BY <1>1, <1>5, <1>6
  <2> QED BY <2>2, <2>3 DEF CountedInv
<1>12. NothingOmitted' /\ SuccessIsStored'
  BY <1>1, <1>2 DEF NothingOmitted, SuccessIsStored, SuccessStatuses, PlacesInv
<1> QED BY <1>7, <1>8, <1>9, <1>10, <1>11, <1>12 DEF LoopInv

\* The audit takes over what the output says; the batch gets its invalid rows.
LEMMA ValidateKeeps ==
  ASSUME LoopInv, Validate
  PROVE  LoopInv'
<1> DEFINE n == Len(results)
           last == results[n]
           found == Tally(rows, "invalid")
           new == [last EXCEPT !.invalid = found]
<1>1. /\ pc = "reading" /\ pc' = "ingesting"
      /\ seen' = [x \in Rulesets |-> IF x \in DOMAIN rows /\ rows[x] # "missing"
                                     THEN rows[x] ELSE seen[x]]
      /\ results' = [results EXCEPT ![n].invalid = found]
      /\ UNCHANGED <<kind, usage, previous, read, pending, index, batchCount, rows, done,
                     oversized, status, attempts, polled>>
  BY DEF Validate
<1>2. TypeOK /\ PlacesInv /\ PolledInv /\ StoredInv /\ CountedInv
  BY DEF LoopInv
<1>3. IsFiniteSet(DOMAIN rows)
  BY <1>1, RowsAreFinite
<1>4. /\ found \in Nat
      /\ \A x \in DOMAIN rows : rows[x] = "invalid" => found > 0
      /\ \A x \in DOMAIN rows : rows[x] = "pending" => Tally(rows, "pending") > 0
      /\ \A x \in DOMAIN rows : rows[x] = "unknown" => Tally(rows, "unknown") > 0
  BY <1>3, TallyFacts
<1>5. results \in Seq(Result) /\ results # <<>>
  BY <1>1, <1>2 DEF TypeOK, PolledInv
<1>6. n \in DOMAIN results /\ last \in Result
  BY <1>5
<1>7. last.invalid = 0 /\ last.pending = Tally(rows, "pending")
      /\ last.unknown = Tally(rows, "unknown")
  BY <1>1, <1>2 DEF CountedInv
<1>8. new \in Result /\ new.invalid = found /\ new.pending = last.pending
      /\ new.unknown = last.unknown
  BY <1>4, <1>6 DEF Result
<1>9. /\ DOMAIN results' = DOMAIN results /\ results' = [results EXCEPT ![n] = new]
      /\ results'[n] = new
      /\ \A i \in DOMAIN results : i # n => results'[i] = results[i]
  BY <1>1, <1>6
<1>10. results' \in Seq(Result)
  <2> HIDE DEF new, n
  <2> QED BY <1>5, <1>6, <1>8, <1>9
<1> HIDE DEF new, last, found, n
<1>11. seen' \in [Rulesets -> RowStates \cup {"none", "invalid"}]
  BY <1>1, <1>2 DEF TypeOK, PolledInv
<1>12. TypeOK'
  BY <1>1, <1>2, <1>10, <1>11 DEF TypeOK
<1>13. PlacesInv'
  BY <1>1, <1>2 DEF PlacesInv, Working
<1>14. PolledInv'
  <2>1. results' # <<>>
    BY <1>6, <1>9
  <2> QED BY <1>1, <1>2, <2>1 DEF PolledInv
<1>15. StoredInv'
  BY <1>1, <1>2 DEF StoredInv, Kept, Answered
<1>16. CountedInv'
  <2>1. ASSUME NEW x \in Rulesets, Answered(x)
        PROVE  /\ rows[x] = "invalid" => Counts("invalid")'
               /\ rows[x] = "pending" => Counts("pending")'
               /\ rows[x] = "unknown" => Counts("unknown")'
    BY <1>4, <1>6, <1>7, <1>8, <1>9, <2>1 DEF Answered, Counts
  <2>2. /\ Counts("invalid") => Counts("invalid")'
        /\ Counts("pending") => Counts("pending")'
        /\ Counts("unknown") => Counts("unknown")'
    <3>1. ~(0 > 0)
      OBVIOUS
    <3>2. Counts("invalid") => Counts("invalid")'
      BY <1>7, <1>9, <3>1 DEF Counts, last
    <3>3. Counts("pending") => Counts("pending")'
      BY <1>8, <1>9 DEF Counts, last
    <3>4. Counts("unknown") => Counts("unknown")'
      BY <1>8, <1>9 DEF Counts, last
    <3> QED BY <3>2, <3>3, <3>4
  <2>3. ASSUME NEW x \in Rulesets
        PROVE  /\ seen'[x] = "invalid" => Counts("invalid")'
               /\ kind' = "TRAFFIC" /\ seen'[x] = "pending" => Counts("pending")'
               /\ kind' = "TRAFFIC" /\ seen'[x] = "unknown" => Counts("unknown")'
    <3>1. CASE Answered(x)
      <4>1. seen'[x] = rows[x]
        BY <1>1, <3>1 DEF Answered
      <4> QED BY <2>1, <3>1, <4>1
    <3>2. CASE ~Answered(x)
      <4>1. seen'[x] = seen[x] /\ kind' = kind /\ pc # "idle"
        BY <1>1, <3>2 DEF Answered
      <4> QED BY <1>2, <2>2, <4>1 DEF CountedInv
    <3> QED BY <3>1, <3>2
  <2> QED BY <1>1, <2>3 DEF CountedInv
<1>17. NothingOmitted' /\ SuccessIsStored'
  BY <1>1, <1>2 DEF NothingOmitted, SuccessIsStored, SuccessStatuses, PlacesInv
<1> QED BY <1>12, <1>13, <1>14, <1>15, <1>16, <1>17 DEF LoopInv

\* The valid rows are stored; a completed one is not replaced by another.
LEMMA IngestKeeps ==
  ASSUME LoopInv, Ingest
  PROVE  LoopInv'
<1>1. /\ pc = "ingesting" /\ pc' = "submitting" /\ rows' = <<>>
      /\ usage' = [x \in Rulesets |-> Upsert(x)]
      /\ UNCHANGED <<kind, previous, read, pending, index, batchCount, results, seen, done,
                     oversized, status, attempts, polled>>
  BY DEF Ingest
<1>2. TypeOK /\ PlacesInv /\ PolledInv /\ StoredInv /\ CountedInv
  BY DEF LoopInv
<1>3. DOMAIN <<>> = {} /\ <<>> \in [{} -> RowStates \cup {"missing", "invalid"}]
  OBVIOUS
<1>4. ASSUME NEW x \in Rulesets
      PROVE  /\ usage'[x] \in RowStates \cup {"none"}
             /\ usage'[x] # "none" => x \in polled
             /\ Kept(x)'
  <2>1. /\ usage'[x] = Upsert(x) /\ seen'[x] = seen[x]
        /\ usage[x] \in RowStates \cup {"none"}
        /\ x \in DOMAIN rows => rows[x] \in RowStates \cup {"missing", "invalid"}
        /\ usage[x] # "none" => x \in polled
        /\ x \in DOMAIN rows => x \in polled
        /\ IF Answered(x) THEN seen[x] = rows[x] ELSE Kept(x)
    BY <1>1, <1>2 DEF TypeOK, PolledInv, StoredInv
  <2>2. CASE x \in Valid
    <3>1. x \in DOMAIN rows /\ rows[x] \in RowStates /\ Answered(x) /\ seen[x] = rows[x]
      BY <2>1, <2>2 DEF Valid, Answered
    <3>2. usage'[x] = IF ~(usage[x] = "completed" /\ rows[x] # "completed")
                      THEN rows[x] ELSE usage[x]
      BY <2>1, <2>2 DEF Upsert
    <3> QED BY <2>1, <3>1, <3>2 DEF Kept, RowStates
  <2>3. CASE x \notin Valid
    <3>1. usage'[x] = usage[x]
      BY <2>1, <2>3 DEF Upsert
    <3>2. Answered(x) => seen[x] = "invalid"
      BY <2>1, <2>3 DEF Valid, Answered
    <3> QED BY <2>1, <3>1, <3>2 DEF Kept
  <2> QED BY <2>2, <2>3
<1>5. TypeOK'
  <2>1. usage' \in [Rulesets -> RowStates \cup {"none"}]
    BY <1>1, <1>4
  <2> QED BY <1>1, <1>2, <1>3, <2>1 DEF TypeOK
<1>6. PlacesInv'
  BY <1>1, <1>2 DEF PlacesInv, Working
<1>7. PolledInv'
  BY <1>1, <1>2, <1>3, <1>4 DEF PolledInv
<1>8. StoredInv'
  BY <1>1, <1>4 DEF StoredInv
<1>9. CountedInv'
  BY <1>1, <1>2 DEF CountedInv, Counts
<1>10. NothingOmitted' /\ SuccessIsStored'
  BY <1>1, <1>2 DEF NothingOmitted, SuccessIsStored, SuccessStatuses, PlacesInv
<1> QED BY <1>5, <1>6, <1>7, <1>8, <1>9, <1>10 DEF LoopInv

LEMMA StutterKeeps ==
  ASSUME LoopInv, UNCHANGED vars
  PROVE  LoopInv'
<1>1. UNCHANGED <<kind, usage, previous, read, pending, index, batchCount, rows, done, results,
                  seen, oversized, pc, status, attempts, polled>>
  BY DEF vars
<1>2. TypeOK'
  BY <1>1 DEF LoopInv, TypeOK
<1>3. PlacesInv' /\ PolledInv'
  BY <1>1 DEF LoopInv, PlacesInv, PolledInv, Working
<1>4. StoredInv' /\ CountedInv'
  BY <1>1 DEF LoopInv, StoredInv, CountedInv, Kept, Answered, Counts
<1>5. NothingOmitted' /\ SuccessIsStored'
  BY <1>1 DEF LoopInv, NothingOmitted, SuccessIsStored
<1> QED BY <1>2, <1>3, <1>4, <1>5 DEF LoopInv

LEMMA AlwaysLoopInv == Spec => []LoopInv
<1>1. Init => LoopInv
  BY NothingIsLoop
<1>2. LoopInv /\ [Next]_vars => LoopInv'
  <2> SUFFICES ASSUME LoopInv, [Next]_vars PROVE LoopInv'
    OBVIOUS
  <2>1. ASSUME NEW new \in Reads, Begin(new) PROVE LoopInv'
    BY <2>1, BeginKeeps
  <2>2. ASSUME NEW answer \in [DOMAIN rows -> Statuses], Poll(answer) PROVE LoopInv'
    BY <2>2, PollKeeps
  <2>3. CASE FailEarly
    BY <2>3, FailEarlyKeeps
  <2>4. CASE Fail
    BY <2>4, FailKeeps
  <2>5. CASE Submit
    BY <2>5, SubmitKeeps
  <2>6. CASE Split
    BY <2>6, SplitKeeps
  <2>7. CASE Skip
    BY <2>7, SkipKeeps
  <2>8. CASE Validate
    BY <2>8, ValidateKeeps
  <2>9. CASE Ingest
    BY <2>9, IngestKeeps
  <2>10. CASE Finish
    BY <2>10, FinishKeeps
  <2>11. CASE UNCHANGED vars
    BY <2>11, StutterKeeps
  <2> QED BY <2>1, <2>2, <2>3, <2>4, <2>5, <2>6, <2>7, <2>8, <2>9, <2>10, <2>11 DEF Next
<1> QED BY <1>1, <1>2, PTL DEF Spec

\* Type correctness of the loop.
THEOREM LoopTypes == Spec => []TypeOK
<1>1. LoopInv => TypeOK
  BY DEF LoopInv
<1> QED BY <1>1, AlwaysLoopInv, PTL

\* No step of the loop loses a ruleset, submits one twice, or lets a batch wait that is
\* empty or too large: the places of an attempt are a partition of what it selected.
THEOREM EveryRulesetHasOnePlace == Spec => []EveryRulesetOnce
<1>1. LoopInv => EveryRulesetOnce
  <2> SUFFICES ASSUME LoopInv, pc # "idle"
               PROVE  LET waiting == Places(pending)
                          parts == <<ToSet(waiting), IF pc = "polling" THEN DOMAIN rows ELSE {},
                                     done, oversized>>
                      IN /\ IsInjective(waiting)
                         /\ \A i, j \in DOMAIN parts : i # j => parts[i] \cap parts[j] = {}
                         /\ UNION Range(parts) = Selected(read)
                         /\ \A i \in DOMAIN pending :
                              pending[i] # <<>> /\ Rules(read, ToSet(pending[i])) <= Limit
    BY DEF EveryRulesetOnce
  <2> DEFINE parts == <<ToSet(Places(pending)), IF pc = "polling" THEN DOMAIN rows ELSE {},
                        done, oversized>>
  <2>1. PlacesInv /\ Sound(read, pending)
    BY DEF LoopInv, PlacesInv
  <2>2. IsInjective(Places(pending)) /\ ToSet(Places(pending)) = Held(pending)
    BY <2>1, Flattened DEF Sound, Places
  <2>3. /\ DOMAIN parts = {1, 2, 3, 4} /\ parts[1] = Held(pending) /\ parts[2] = Working
        /\ parts[3] = done /\ parts[4] = oversized
    BY <2>2 DEF Working
  <2> HIDE DEF parts
  <2>4. \A i, j \in DOMAIN parts : i # j => parts[i] \cap parts[j] = {}
    BY <2>1, <2>3 DEF PlacesInv
  <2>5. UNION Range(parts) = Selected(read)
    BY <2>1, <2>3 DEF PlacesInv, Range
  <2>6. \A i \in DOMAIN pending :
          pending[i] # <<>> /\ Rules(read, ToSet(pending[i])) <= Limit
    BY <2>1 DEF Sound, Within
  <2> QED BY <2>2, <2>4, <2>5, <2>6 DEF parts
<1> QED BY <1>1, AlwaysLoopInv, PTL

\* A successful window has polled every ruleset it selected, in this attempt or an earlier
\* one, or documents it as oversized.
THEOREM SuccessOmitsNothing == Spec => []NothingOmitted
<1>1. LoopInv => NothingOmitted
  BY DEF LoopInv
<1> QED BY <1>1, AlwaysLoopInv, PTL

\* What the audit of a successful window calls completed is stored; SUCCESS without
\* exceptions has stored usage for every selected ruleset.
THEOREM SuccessStoresUsage == Spec => []SuccessIsStored
<1>1. LoopInv => SuccessIsStored
  BY DEF LoopInv
<1> QED BY <1>1, AlwaysLoopInv, PTL

=============================================================================

------------------------- MODULE UsageHistoryProofs -------------------------
(***************************************************************************)
(* Machine-checked proofs about what the reports say. UsageHistory, for    *)
(* every calendar, all windows, all traffic and every retention: what is   *)
(* derived from the rows is true of the traffic, and pruning does not      *)
(* change it. RecertReports, for every file, inventory and publication:    *)
(* the audit workbook is true and consolidating rows changes no report.    *)
(***************************************************************************)
EXTENDS UsageHistory, RecertReports, Recursion

-----------------------------------------------------------------------------
(* The rows and ports on record, and the invariant. *)

LEMMA WindowTypes ==
  /\ LastDay \in Nat /\ IsFiniteSet(Windows)
  /\ \A w \in Windows : /\ w[1] \in Nat /\ w[2] \in Nat /\ w[1] < w[2] /\ w[2] <= LastDay
                        /\ IsFiniteSet(WindowDays(w))
<1>1. LastDay \in Nat
  BY WindowsAssumption
<1>2. IsFiniteSet(Days) /\ IsFiniteSet(1..LastDay)
  BY <1>1, FS_Interval DEF Days
<1>3. IsFiniteSet(Windows)
  <2>1. IsFiniteSet(Days \X (1..LastDay))
    BY <1>2, FS_Product
  <2>2. Windows \in SUBSET (Days \X (1..LastDay))
    BY WindowsAssumption
  <2> QED BY <2>1, <2>2, FS_Subset
<1>4. ASSUME NEW w \in Windows
      PROVE  w[1] \in Nat /\ w[2] \in Nat /\ w[1] < w[2] /\ w[2] <= LastDay
  <2>1. w \in Days \X (1..LastDay) /\ w[1] < w[2]
    BY WindowsAssumption
  <2> QED BY <1>1, <2>1 DEF Days
<1>5. ASSUME NEW w \in Windows
      PROVE  IsFiniteSet(WindowDays(w))
  <2>1. w[1] \in Int /\ w[2] - 1 \in Int
    BY <1>4
  <2> QED BY <2>1, FS_Interval DEF WindowDays
<1> QED BY <1>1, <1>3, <1>4, <1>5

\* The flows that Workloader counts in a window.
Count(w) == Cardinality(WindowDays(w) \cap traffic)

LEMMA CountIsNatural ==
  ASSUME NEW w \in Windows
  PROVE  Count(w) \in Nat /\ (\A day \in WindowDays(w) \cap traffic : Count(w) >= 1)
<1>1. IsFiniteSet(WindowDays(w) \cap traffic)
  BY WindowTypes, FS_Intersection
<1>2. Count(w) \in Nat
  BY <1>1, FS_CardinalityType DEF Count
<1>3. ASSUME NEW day \in WindowDays(w) \cap traffic
      PROVE  Count(w) # 0
  BY <1>1, FS_EmptySet DEF Count
<1> QED BY <1>2, <1>3

\* What an answer can be.
LEMMA AnswerWays ==
  ASSUME NEW w \in Windows, NEW answer \in Answers(w)
  PROVE  /\ answer \in [status: {"completed", "pending", "unknown"}, flows: Int, listed: Nat]
         /\ answer.status = "completed" => answer.flows = Blank \/ answer.flows = Count(w)
<1> DEFINE Kinds == {<<"completed", Count(w)>>, <<"completed", Blank>>, <<"pending", Blank>>,
                     <<"unknown", 0>>}
           reply(kind, listed) == [status |-> kind[1], flows |-> kind[2], listed |-> listed]
<1>1. Count(w) \in Nat
  BY CountIsNatural
<1>2. PICK kind \in Kinds, listed \in {0, Count(w)} : answer = reply(kind, listed)
  BY DEF Answers, Count
<1>3. Blank \in Int
  BY DEF Blank
<1> HIDE DEF Count
<1>4. /\ kind[1] \in {"completed", "pending", "unknown"} /\ kind[2] \in Int
      /\ kind[1] = "completed" => kind[2] = Blank \/ kind[2] = Count(w)
  BY <1>1, <1>3
<1>5. listed \in Nat
  BY <1>1
<1> HIDE DEF Kinds
<1>6. answer = [status |-> kind[1], flows |-> kind[2], listed |-> listed]
  BY <1>2
<1>7. answer.status = kind[1] /\ answer.flows = kind[2]
  BY <1>6
<1> QED BY <1>4, <1>5, <1>6, <1>7

\* Every completed row counts its own window right or leaves the count blank, whatever
\* was stored for it before.
RowsTrue ==
  \A w \in Windows : rows[w].status = "completed" =>
    rows[w].flows = Blank \/ rows[w].flows = Count(w)

HistoryInv == TypeOK /\ RowsTrue

Rows == [status: {"absent", "completed", "pending", "unknown"}, flows: Int, listed: Nat]

LEMMA InitHistory == Init => HistoryInv
<1> SUFFICES ASSUME Init PROVE HistoryInv
  OBVIOUS
<1>1. Absent \in Rows /\ Absent.status = "absent" /\ Absent.listed = 0
  BY DEF Absent, Rows, Blank
<1>2. today \in 0..LastDay
  BY WindowTypes DEF Init
<1>3. TypeOK
  BY <1>1, <1>2 DEF Init, TypeOK, Rows
<1>4. RowsTrue
  BY <1>1 DEF Init, RowsTrue
<1> QED BY <1>3, <1>4 DEF HistoryInv

LEMMA MidnightKeeps == HistoryInv /\ Midnight => HistoryInv'
<1> SUFFICES ASSUME HistoryInv, Midnight PROVE HistoryInv'
  OBVIOUS
<1>1. TypeOK'
  <2>1. today' \in 0..LastDay
    BY WindowTypes DEF HistoryInv, TypeOK, Midnight
  <2> QED BY <2>1 DEF HistoryInv, TypeOK, Midnight
<1>2. RowsTrue'
  BY DEF HistoryInv, RowsTrue, Midnight, Count
<1> QED BY <1>1, <1>2 DEF HistoryInv

LEMMA PruneKeeps == HistoryInv /\ Prune => HistoryInv'
<1> SUFFICES ASSUME HistoryInv, Prune PROVE HistoryInv'
  OBVIOUS
<1> DEFINE gone == {w \in Stored : Expired(w)}
<1>1. /\ rows' = [w \in Windows |-> IF w \in gone THEN Absent ELSE rows[w]]
      /\ ports' = [w \in Windows |-> IF w \in gone THEN 0 ELSE ports[w]]
      /\ today' = today /\ traffic' = traffic
  BY DEF Prune, Delete
<1> HIDE DEF gone
<1>2. Absent \in Rows /\ Absent.status = "absent" /\ Absent.listed = 0
  BY DEF Absent, Rows, Blank
<1>3. TypeOK'
  BY <1>1, <1>2 DEF HistoryInv, TypeOK, Rows
<1>4. RowsTrue'
  BY <1>1, <1>2 DEF HistoryInv, RowsTrue, Count
<1> QED BY <1>3, <1>4 DEF HistoryInv

LEMMA IngestKeeps ==
  ASSUME NEW w \in Windows, HistoryInv, Ingest(w)
  PROVE  HistoryInv'
<1>1. PICK answer \in Answers(w) : Upsert(w, answer)
  BY DEF Ingest
<1>2. today' = today /\ traffic' = traffic
  BY DEF Ingest
<1>3. CASE UNCHANGED <<rows, ports>>
  BY <1>2, <1>3 DEF HistoryInv, TypeOK, RowsTrue, Count
<1>4. CASE /\ rows' = [rows EXCEPT ![w] = answer]
           /\ ports' = [ports EXCEPT ![w] = answer.listed]
  <2>1. answer \in Rows /\ answer.listed \in Nat
    BY AnswerWays DEF Rows
  <2>2. /\ rows \in [Windows -> Rows] /\ ports \in [Windows -> Nat]
        /\ \A v \in Windows : ports[v] = rows[v].listed
    BY DEF HistoryInv, TypeOK, Rows
  <2>3. \A v \in Windows : IF v = w THEN rows'[v] = answer /\ ports'[v] = answer.listed
                           ELSE rows'[v] = rows[v] /\ ports'[v] = ports[v]
    BY <1>4, <2>2
  <2>4. rows' \in [Windows -> Rows] /\ ports' \in [Windows -> Nat]
    BY <1>4, <2>1, <2>2
  <2>5. TypeOK'
    BY <1>2, <2>2, <2>3, <2>4 DEF HistoryInv, TypeOK, Rows
  <2>6. ASSUME NEW v \in Windows, rows'[v].status = "completed"
        PROVE  rows'[v].flows = Blank \/ rows'[v].flows = Count(v)
    <3>1. CASE v = w
      BY <2>3, <2>6, <3>1, AnswerWays
    <3>2. CASE v # w
      BY <2>3, <2>6, <3>2 DEF HistoryInv, RowsTrue
    <3> QED BY <3>1, <3>2
  <2>7. \A v \in Windows : Count(v)' = Count(v)
    BY <1>2 DEF Count
  <2>8. RowsTrue'
    <3> HIDE DEF Count
    <3> QED BY <2>6, <2>7 DEF RowsTrue
  <2> QED BY <2>5, <2>8 DEF HistoryInv
<1> QED BY <1>1, <1>3, <1>4 DEF Upsert

LEMMA AlwaysHistory == Spec => []HistoryInv
<1>1. HistoryInv /\ UNCHANGED vars => HistoryInv'
  BY DEF HistoryInv, TypeOK, RowsTrue, Count, vars
<1>2. HistoryInv /\ [Next]_vars => HistoryInv'
  BY <1>1, MidnightKeeps, PruneKeeps, IngestKeeps DEF Next
<1> QED BY <1>2, InitHistory, PTL DEF Spec

\* Type correctness: in particular the ports on record are those of the answer on record,
\* and a window without a row has none (upsert_usage, prune).
THEOREM HistoryTypes == Spec => []TypeOK
<1>1. HistoryInv => TypeOK
  BY DEF HistoryInv
<1> QED BY <1>1, AlwaysHistory, PTL
-----------------------------------------------------------------------------
(* Merging sorted intervals. *)

Intervals == Int \X Int

LEMMA MaxOfTwo ==
  ASSUME NEW a \in Int, NEW b \in Int
  PROVE  Max({a, b}) = IF a >= b THEN a ELSE b
<1>1. \E x \in {a, b} : \A y \in {a, b} : x >= y
  OBVIOUS
<1>2. Max({a, b}) \in {a, b} /\ \A y \in {a, b} : Max({a, b}) >= y
  BY <1>1 DEF Max
<1> QED BY <1>2

LEMMA MinOfTwo ==
  ASSUME NEW a \in Int, NEW b \in Int
  PROVE  Min({a, b}) = IF a <= b THEN a ELSE b
<1>1. \E x \in {a, b} : \A y \in {a, b} : x <= y
  OBVIOUS
<1>2. Min({a, b}) \in {a, b} /\ \A y \in {a, b} : Min({a, b}) <= y
  BY <1>1 DEF Min
<1> QED BY <1>2

\* Intervals that are not empty, in their order and with a gap between any two.
Tidy(merged) ==
  /\ merged \in Seq(Intervals)
  /\ \A i \in DOMAIN merged : merged[i][1] < merged[i][2]
  /\ \A i, j \in DOMAIN merged : i < j => merged[i][2] < merged[j][1]

DaysOf(merged) == UNION {WindowDays(merged[i]) : i \in DOMAIN merged}

\* One more interval that does not start before the last one.
LEMMA MergeStep ==
  ASSUME NEW merged, Tidy(merged), NEW x \in Intervals,
         merged # <<>> => Last(merged)[1] <= x[1]
  PROVE  /\ Tidy(Merge(merged, x))
         /\ DaysOf(Merge(merged, x)) = DaysOf(merged) \cup WindowDays(x)
         /\ Merge(merged, x) # <<>> => Last(Merge(merged, x))[1] <= x[1]
<1> DEFINE n == Len(merged)
           new == Merge(merged, x)
<1>1. /\ merged \in Seq(Intervals) /\ n \in Nat /\ DOMAIN merged = 1..n
      /\ x[1] \in Int /\ x[2] \in Int
      /\ \A i \in 1..n : merged[i] \in Intervals /\ merged[i][1] \in Int /\ merged[i][2] \in Int
  BY DEF Tidy, Intervals
<1>2. CASE x[2] <= x[1]
  <2>1. new = merged
    BY <1>2 DEF Merge
  <2>2. WindowDays(x) = {}
    BY <1>1, <1>2 DEF WindowDays
  <2> HIDE DEF new
  <2> QED BY <2>1, <2>2 DEF new
<1>3. CASE x[1] < x[2] /\ merged # <<>> /\ x[1] <= Last(merged)[2]
  <2> DEFINE top == IF merged[n][2] >= x[2] THEN merged[n][2] ELSE x[2]
  <2>1. n \in 1..n /\ Last(merged) = merged[n] /\ merged[n][1] <= x[1] /\ x[1] <= merged[n][2]
    BY <1>1, <1>3 DEF Last
  <2>2. new = [merged EXCEPT ![n] = <<merged[n][1], top>>]
    <3>1. ~(x[2] <= x[1])
      BY <1>1, <1>3
    <3>2. Max({merged[n][2], x[2]}) = top
      BY <1>1, <2>1, MaxOfTwo
    <3>3. new = [merged EXCEPT ![n] = <<merged[n][1], Max({merged[n][2], x[2]})>>]
      BY <1>3, <3>1 DEF Merge
    <3> HIDE DEF new, top
    <3> QED BY <3>2, <3>3
  <2>3. top \in Int /\ merged[n][2] <= top /\ x[2] <= top
        /\ <<merged[n][1], top>> \in Intervals
    BY <1>1, <2>1 DEF Intervals
  <2>4. WindowDays(<<merged[n][1], top>>) = WindowDays(merged[n]) \cup WindowDays(x)
    BY <1>1, <1>3, <2>1 DEF WindowDays
  <2> HIDE DEF new, top
  <2>5. /\ new \in Seq(Intervals) /\ Len(new) = n /\ DOMAIN new = 1..n
        /\ new[n] = <<merged[n][1], top>>
        /\ \A i \in 1..n : i # n => new[i] = merged[i]
    BY <1>1, <2>1, <2>2, <2>3
  <2>6. new[n][1] = merged[n][1] /\ new[n][2] = top
    <3>1. new[n] = <<merged[n][1], top>>
      BY <2>5
    <3> HIDE DEF n
    <3> QED BY <3>1
  <2>7. \A i \in 1..n : new[i][1] = merged[i][1] /\ (i # n => new[i][2] = merged[i][2])
    BY <2>5, <2>6
  <2>8. Tidy(new)
    <3>1. \A i \in 1..n : new[i][1] < new[i][2]
      <4> SUFFICES ASSUME NEW i \in 1..n PROVE new[i][1] < new[i][2]
        OBVIOUS
      <4>1. merged[i][1] < merged[i][2]
        BY <1>1 DEF Tidy
      <4>2. CASE i = n
        BY <1>1, <2>1, <2>3, <2>6, <4>1, <4>2
      <4>3. CASE i # n
        BY <2>7, <4>1, <4>3
      <4> QED BY <4>2, <4>3
    <3>2. ASSUME NEW i \in 1..n, NEW j \in 1..n, i < j
          PROVE  new[i][2] < new[j][1]
      <4>1. i # n
        <5> HIDE DEF n
        <5> QED BY <1>1, <3>2
      <4>2. merged[i][2] < merged[j][1]
        BY <1>1, <3>2 DEF Tidy
      <4> QED BY <2>7, <4>1, <4>2
    <3> QED BY <2>5, <3>1, <3>2 DEF Tidy
  <2>9. DaysOf(new) = DaysOf(merged) \cup WindowDays(x)
    <3>1. \A i \in 1..n : i # n => WindowDays(new[i]) = WindowDays(merged[i])
      BY <2>5
    <3>2. WindowDays(new[n]) = WindowDays(merged[n]) \cup WindowDays(x)
      BY <2>4, <2>5
    <3> HIDE DEF n
    <3> QED BY <1>1, <2>1, <2>5, <3>1, <3>2 DEF DaysOf
  <2>10. Last(new)[1] <= x[1]
    BY <2>1, <2>5, <2>6 DEF Last
  <2> QED BY <2>8, <2>9, <2>10 DEF new
<1>4. CASE x[1] < x[2] /\ (merged # <<>> => Last(merged)[2] < x[1])
  <2>1. new = Append(merged, x)
    <3>1. ~(x[2] <= x[1]) /\ ~(merged # <<>> /\ x[1] <= Last(merged)[2])
      <4>1. merged # <<>> => Last(merged)[2] \in Int
        BY <1>1 DEF Last
      <4> QED BY <1>1, <1>4, <4>1
    <3> QED BY <3>1 DEF Merge
  <2>2. /\ new \in Seq(Intervals) /\ Len(new) = n + 1 /\ DOMAIN new = 1..(n + 1)
        /\ new[n + 1] = x /\ \A i \in 1..n : new[i] = merged[i]
    BY <1>1, <2>1
  <2> HIDE DEF new
  <2>3. Tidy(new)
    <3>1. \A i \in 1..(n + 1) : new[i][1] < new[i][2]
      <4> SUFFICES ASSUME NEW i \in 1..(n + 1) PROVE new[i][1] < new[i][2]
        OBVIOUS
      <4>1. CASE i = n + 1
        BY <1>4, <2>2, <4>1
      <4>2. CASE i # n + 1
        <5>1. i \in 1..n
          BY <1>1, <4>2
        <5> QED BY <1>1, <2>2, <5>1 DEF Tidy
      <4> QED BY <4>1, <4>2
    <3>2. ASSUME NEW i \in 1..(n + 1), NEW j \in 1..(n + 1), i < j
          PROVE  new[i][2] < new[j][1]
      <4>1. i \in 1..n /\ (j = n + 1 \/ j \in 1..n)
        <5>1. n \in Nat
          BY <1>1
        <5> HIDE DEF n
        <5> QED BY <3>2, <5>1
      <4>2. CASE j \in 1..n
        <5>1. merged[i][2] < merged[j][1]
          BY <1>1, <3>2, <4>1, <4>2 DEF Tidy
        <5> QED BY <2>2, <4>1, <4>2, <5>1
      <4>3. CASE j = n + 1
        <5>1. n \in 1..n /\ merged # <<>> /\ Last(merged) = merged[n]
          BY <1>1, <4>1 DEF Last
        <5>2. merged[n][2] < x[1]
          BY <1>4, <5>1
        <5>3. i = n \/ i < n
          <6> HIDE DEF n
          <6> QED BY <1>1, <4>1
        <5>4. merged[i][2] <= merged[n][2]
          <6>1. CASE i = n
            BY <1>1, <5>1, <6>1
          <6>2. CASE i < n
            <7>1. merged[i][2] < merged[n][1] /\ merged[n][1] < merged[n][2]
              BY <1>1, <4>1, <5>1, <6>2 DEF Tidy
            <7> QED BY <1>1, <4>1, <5>1, <7>1
          <6> QED BY <5>3, <6>1, <6>2
        <5>5. merged[i][2] < x[1]
          BY <1>1, <4>1, <5>1, <5>2, <5>4
        <5> QED BY <2>2, <4>1, <4>3, <5>5
      <4> QED BY <4>1, <4>2, <4>3
    <3> QED BY <2>2, <3>1, <3>2 DEF Tidy
  <2>4. DaysOf(new) = DaysOf(merged) \cup WindowDays(x)
    <3>1. \A i \in 1..n : WindowDays(new[i]) = WindowDays(merged[i])
      BY <2>2
    <3>2. WindowDays(new[n + 1]) = WindowDays(x)
      BY <2>2
    <3>3. \A i \in 1..(n + 1) : i = n + 1 \/ i \in 1..n
      BY <1>1
    <3>4. n + 1 \in 1..(n + 1) /\ \A i \in 1..n : i \in 1..(n + 1)
      BY <1>1
    <3> HIDE DEF n
    <3> QED BY <1>1, <2>2, <3>1, <3>2, <3>3, <3>4 DEF DaysOf
  <2>5. Last(new)[1] <= x[1]
    BY <1>1, <2>2 DEF Last
  <2> QED BY <2>3, <2>4, <2>5 DEF new
<1>5. merged # <<>> => Last(merged)[2] \in Int
  BY <1>1 DEF Last
<1> QED BY <1>1, <1>2, <1>3, <1>4, <1>5
LEMMA BeforeIsAnOrder ==
  ASSUME NEW C \in SUBSET Intervals
  PROVE  Orders({p \in C \X C : Before(p[1], p[2])}, C)
<1> DEFINE R == {p \in C \X C : Before(p[1], p[2])}
<1>1. \A x, y \in C : <<x, y>> \in R <=> Before(x, y)
  OBVIOUS
<1>2. ASSUME NEW x \in C, NEW y \in C, NEW z \in C
      PROVE  /\ ~Before(x, x)
             /\ x # y => Before(x, y) \/ Before(y, x)
             /\ Before(x, y) /\ Before(y, z) => Before(x, z)
  <2>1. /\ x = <<x[1], x[2]>> /\ y = <<y[1], y[2]>>
        /\ x[1] \in Int /\ x[2] \in Int /\ y[1] \in Int /\ y[2] \in Int
        /\ z[1] \in Int /\ z[2] \in Int
    BY DEF Intervals
  <2>2. x # y => x[1] # y[1] \/ x[2] # y[2]
    BY <2>1
  <2> QED BY <2>1, <2>2 DEF Before
<1> HIDE DEF R
<1>3. Orders(R, C)
  BY <1>1, <1>2 DEF Orders
<1> QED BY <1>3 DEF R

\* items holds the intervals of C once, in their order.
LEMMA IntervalsAreSorted ==
  ASSUME NEW C \in SUBSET Intervals, IsFiniteSet(C)
  PROVE  /\ Cardinality(C) \in Nat
         /\ Sorted(C) \in [1..Cardinality(C) -> C]
         /\ \A x \in C : \E i \in 1..Cardinality(C) : Sorted(C)[i] = x
         /\ \A i, j \in 1..Cardinality(C) : i < j => Sorted(C)[i][1] <= Sorted(C)[j][1]
<1> DEFINE R == {p \in C \X C : Before(p[1], p[2])}
           n == Cardinality(C)
<1>1. Orders(R, C)
  BY BeforeIsAnOrder
<1>2. \A x, y \in C : <<x, y>> \in R <=> Before(x, y)
  OBVIOUS
<1> HIDE DEF R
<1>3. \A v \in C : Rank(R, C, v) = Cardinality({u \in C : Before(u, v)})
  <2>1. \A v \in C : {u \in C : <<u, v>> \in R} = {u \in C : Before(u, v)}
    BY <1>2
  <2> QED BY <2>1 DEF Rank
<1>4. ASSUME NEW i \in 1..n
      PROVE  /\ (CHOOSE v \in C : Cardinality({u \in C : Before(u, v)}) = i - 1) \in C
             /\ Rank(R, C, Sorted(C)[i]) = i - 1
  <2>1. Sorted(C)[i] = CHOOSE v \in C : Cardinality({u \in C : Before(u, v)}) = i - 1
    BY DEF Sorted
  <2>2. \E v \in C : Rank(R, C, v) = i - 1
    BY <1>1, RankIsTaken
  <2>3. \E v \in C : Cardinality({u \in C : Before(u, v)}) = i - 1
    BY <1>3, <2>2
  <2>4. Sorted(C)[i] \in C /\ Cardinality({u \in C : Before(u, Sorted(C)[i])}) = i - 1
    BY <2>1, <2>3
  <2> QED BY <1>3, <2>4
<1>5. Sorted(C) \in [1..n -> C]
  <2>1. Sorted(C) = [i \in 1..n |-> CHOOSE v \in C : Cardinality({u \in C : Before(u, v)}) = i - 1]
    BY DEF Sorted
  <2> HIDE DEF n
  <2> QED BY <1>4, <2>1
<1>6. n \in Nat /\ SortedBy(R, C, n, Sorted(C))
  BY <1>1, <1>4, <1>5, RankedIsSorted
<1>7. ASSUME NEW i \in 1..n, NEW j \in 1..n, i < j
      PROVE  Sorted(C)[i][1] <= Sorted(C)[j][1]
  <2> HIDE DEF n
  <2>1. Sorted(C)[i] \in C /\ Sorted(C)[j] \in C
    BY <1>5
  <2>2. Before(Sorted(C)[i], Sorted(C)[j])
    BY <1>2, <1>6, <1>7, <2>1 DEF SortedBy
  <2>3. Sorted(C)[i][1] \in Int /\ Sorted(C)[j][1] \in Int
    BY <2>1 DEF Intervals
  <2> QED BY <2>2, <2>3 DEF Before
<1> QED BY <1>5, <1>6, <1>7 DEF SortedBy

\* Merged is what merging the sorted intervals one by one gives.
LEMMA MergedIsAFold ==
  ASSUME NEW C \in SUBSET Intervals, IsFiniteSet(C)
  PROVE  LET n == Cardinality(C)
         IN \E merged : /\ merged[0] = <<>> /\ Merged(C) = merged[n]
                        /\ \A k \in 1..n : merged[k] = Merge(merged[k - 1], Sorted(C)[k])
<1> DEFINE n == Cardinality(C)
           items == Sorted(C)
           V == Seq(Intervals)
           step == [k \in 1..n |-> [m \in V |-> Merge(m, items[k])]]
           Body(f) == [s \in SUBSET (1..n) |->
                         IF s = {} THEN <<>> ELSE Merge(f[s \ {Max(s)}], items[Max(s)])]
           iter == CHOOSE f : f = Body(f)
           merged == [k \in 0..n |-> iter[1..k]]
<1>1. n \in Nat /\ items \in [1..n -> C]
  BY IntervalsAreSorted
<1>2. DOMAIN items = 1..n
  BY <1>1
<1>3. Merged(C) = iter[1..n]
  <2>1. Merged(C) = (CHOOSE f : f = [s \in SUBSET DOMAIN items |->
               IF s = {} THEN <<>> ELSE Merge(f[s \ {Max(s)}], items[Max(s)])])[DOMAIN items]
    BY DEF Merged, FoldLeft, MapThenFoldSet
  <2> QED BY <1>2, <2>1
<1>4. <<>> \in V /\ step \in [1..n -> [V -> V]]
  <2>1. ASSUME NEW k \in 1..n, NEW m \in V
        PROVE  Merge(m, items[k]) \in V
    <3>1. items[k] \in Intervals /\ items[k][2] \in Int
      <4>1. items[k] \in C
        <5> HIDE DEF n, items
        <5> QED BY <1>1
      <4> HIDE DEF n, items
      <4> QED BY <4>1 DEF Intervals
    <3>2. Append(m, items[k]) \in V
      BY <3>1
    <3>3. m # <<>> => [m EXCEPT ![Len(m)] = <<@[1], Max({@[2], items[k][2]})>>] \in V
      <4> SUFFICES ASSUME m # <<>>
                   PROVE  [m EXCEPT ![Len(m)] = <<m[Len(m)][1], Max({m[Len(m)][2], items[k][2]})>>] \in V
        OBVIOUS
      <4>1. Len(m) \in DOMAIN m /\ m[Len(m)][1] \in Int /\ m[Len(m)][2] \in Int
        BY DEF Intervals
      <4>2. Max({m[Len(m)][2], items[k][2]}) \in Int
        BY <3>1, <4>1, MaxOfTwo
      <4>3. <<m[Len(m)][1], Max({m[Len(m)][2], items[k][2]})>> \in Intervals
        BY <4>1, <4>2 DEF Intervals
      <4> QED BY <4>1, <4>3
    <3> QED BY <3>2, <3>3 DEF Merge
  <2>2. \A k \in 1..n : [m \in V |-> Merge(m, items[k])] \in [V -> V]
    BY <2>1
  <2> QED BY <2>2
<1>5. \E f : f = Body(f)
  <2>1. PICK f \in [SUBSET (1..n) -> V] : IsFold(f, n, <<>>, step)
    <3> HIDE DEF step, V, n
    <3> QED BY <1>1, <1>4, FoldExists
  <2>2. ASSUME NEW s \in SUBSET (1..n), s # {}
        PROVE  f[s] = Merge(f[s \ {Max(s)}], items[Max(s)])
    <3>1. Max(s) \in 1..n /\ s \ {Max(s)} \in SUBSET (1..n)
      BY <1>1, <2>2, MaxInside
    <3>2. f[s \ {Max(s)}] \in V
      BY <3>1
    <3>3. f[s] = step[Max(s)][f[s \ {Max(s)}]]
      BY <2>1, <2>2 DEF IsFold
    <3> HIDE DEF V
    <3> QED BY <3>1, <3>2, <3>3
  <2>3. f[{}] = <<>>
    BY <2>1 DEF IsFold
  <2> HIDE DEF step, V, n
  <2>4. f = Body(f)
    BY <2>2, <2>3
  <2> QED BY <2>4
<1>6. iter = Body(iter)
  <2> HIDE DEF Body
  <2> QED BY <1>5
<1>7. merged[0] = <<>>
  <2>1. 0 \in 0..n /\ 1..0 = {} /\ {} \in SUBSET (1..n)
    BY <1>1
  <2>2. iter[{}] = <<>>
    <3> HIDE DEF iter
    <3> QED BY <1>6, <2>1
  <2> HIDE DEF iter
  <2> QED BY <2>1, <2>2
<1>8. ASSUME NEW k \in 1..n
      PROVE  merged[k] = Merge(merged[k - 1], items[k])
  <2>1. k \in 0..n /\ k - 1 \in 0..n
    BY <1>1
  <2>2. /\ 1..k # {} /\ 1..k \in SUBSET (1..n) /\ (1..k) \ {k} = 1..(k - 1)
        /\ Max(1..k) = k
    <3> HIDE DEF n
    <3> QED BY <1>1, FirstPlaces
  <2> HIDE DEF iter, n, items
  <2>3. iter[1..k] = Merge(iter[1..(k - 1)], items[k])
    BY <1>6, <2>2
  <2> QED BY <2>1, <2>3
<1>9. n \in 0..n /\ merged[n] = iter[1..n]
  <2> HIDE DEF iter, n
  <2> QED BY <1>1
<1> HIDE DEF merged, iter
<1> QED BY <1>3, <1>7, <1>8, <1>9
\* Merging loses no day and leaves intervals that do not meet.
LEMMA MergedDays ==
  ASSUME NEW C \in SUBSET Intervals, IsFiniteSet(C)
  PROVE  Tidy(Merged(C)) /\ DaysOf(Merged(C)) = UNION {WindowDays(x) : x \in C}
<1> DEFINE n == Cardinality(C)
           items == Sorted(C)
           First(k) == UNION {WindowDays(items[i]) : i \in 1..k}
<1>1. /\ n \in Nat /\ items \in [1..n -> C]
      /\ \A x \in C : \E i \in 1..n : items[i] = x
      /\ \A i, j \in 1..n : i < j => items[i][1] <= items[j][1]
  BY IntervalsAreSorted
<1>2. PICK merged : /\ merged[0] = <<>> /\ Merged(C) = merged[n]
                    /\ \A k \in 1..n : merged[k] = Merge(merged[k - 1], items[k])
  BY MergedIsAFold
<1> DEFINE Good(k) == /\ Tidy(merged[k]) /\ DaysOf(merged[k]) = First(k)
                      /\ merged[k] # <<>> => k > 0 /\ Last(merged[k])[1] <= items[k][1]
           T == {k \in Nat : k <= n => Good(k)}
<1>3. 0 \in T
  <2>1. First(0) = {} /\ <<>> \in Seq(Intervals) /\ DOMAIN <<>> = {}
    OBVIOUS
  <2>2. Tidy(<<>>) /\ DaysOf(<<>>) = {}
    BY <2>1 DEF Tidy, DaysOf
  <2> HIDE DEF First
  <2> QED BY <1>2, <2>1, <2>2
<1>4. ASSUME NEW k \in Nat, k \in T
      PROVE  k + 1 \in T
  <2> HIDE DEF Good
  <2> SUFFICES ASSUME k + 1 <= n PROVE Good(k + 1)
    OBVIOUS
  <2>1. k + 1 \in 1..n /\ k <= n /\ (k + 1) - 1 = k
    <3> HIDE DEF n
    <3> QED BY <1>1
  <2>2. Good(k)
    BY <1>4, <2>1
  <2> HIDE DEF T, n, items
  <2>3. merged[k + 1] = Merge(merged[k], items[k + 1])
    BY <1>2, <2>1
  <2>4. /\ items[k + 1] \in Intervals
        /\ \A i \in 1..n : items[i] \in Intervals /\ items[i][1] \in Int
    BY <1>1, <2>1 DEF Intervals
  <2> USE DEF Good
  <2>5. merged[k] # <<>> => Last(merged[k])[1] <= items[k + 1][1]
    <3> SUFFICES ASSUME merged[k] # <<>> PROVE Last(merged[k])[1] <= items[k + 1][1]
      OBVIOUS
    <3>1. k \in 1..n /\ k < k + 1 /\ Last(merged[k])[1] <= items[k][1]
      BY <1>1, <2>1, <2>2
    <3>2. items[k][1] <= items[k + 1][1]
      BY <1>1, <2>1, <3>1
    <3>3. Last(merged[k])[1] \in Int
      <4>1. merged[k] \in Seq(Intervals)
        BY <2>2 DEF Tidy
      <4>2. Last(merged[k]) \in Intervals
        BY <4>1 DEF Last
      <4> QED BY <4>2 DEF Intervals
    <3> QED BY <2>1, <2>4, <3>1, <3>2, <3>3
  <2>6. /\ Tidy(merged[k + 1])
        /\ DaysOf(merged[k + 1]) = DaysOf(merged[k]) \cup WindowDays(items[k + 1])
        /\ merged[k + 1] # <<>> => Last(merged[k + 1])[1] <= items[k + 1][1]
    BY <2>2, <2>3, <2>4, <2>5, MergeStep
  <2>7. First(k + 1) = First(k) \cup WindowDays(items[k + 1])
    <3>1. \A i : i \in 1..(k + 1) <=> i \in 1..k \/ i = k + 1
      BY <1>4
    <3> QED BY <3>1
  <2>8. k + 1 > 0
    BY <1>4
  <2> HIDE DEF First
  <2> QED BY <2>2, <2>6, <2>7, <2>8
<1>5. Nat \subseteq T
  <2> HIDE DEF T
  <2> QED BY <1>3, <1>4, Induction
<1>6. Good(n)
  <2> HIDE DEF Good, n
  <2>1. n \in T
    BY <1>1, <1>5
  <2> QED BY <1>1, <2>1
<1>7. First(n) = UNION {WindowDays(x) : x \in C}
  <2> HIDE DEF n, items
  <2> QED BY <1>1
<1> QED BY <1>2, <1>6, <1>7

\* The length of intervals that do not meet is the number of their days.
LEMMA LengthCountsDays ==
  ASSUME NEW m, Tidy(m)
  PROVE  IsFiniteSet(DaysOf(m)) /\ Length(m) = Cardinality(DaysOf(m))
<1> DEFINE n == Len(m)
           step == [k \in 1..n |-> [sum \in Int |-> sum + (m[k][2] - m[k][1])]]
           Body(f) == [s \in SUBSET (1..n) |->
                         IF s = {} THEN 0
                         ELSE f[s \ {Max(s)}] + (m[Max(s)][2] - m[Max(s)][1])]
           iter == CHOOSE f : f = Body(f)
           First(k) == UNION {WindowDays(m[i]) : i \in 1..k}
<1>1. /\ n \in Nat /\ DOMAIN m = 1..n
      /\ \A k \in 1..n : m[k][1] \in Int /\ m[k][2] \in Int /\ m[k][1] < m[k][2]
  BY DEF Tidy, Intervals
<1>2. Length(m) = iter[1..n]
  <2>1. Length(m) = (CHOOSE f : f = [s \in SUBSET DOMAIN m |->
               IF s = {} THEN 0
               ELSE f[s \ {Max(s)}] + (m[Max(s)][2] - m[Max(s)][1])])[DOMAIN m]
    BY DEF Length, FoldLeft, MapThenFoldSet
  <2> QED BY <1>1, <2>1
<1>3. 0 \in Int /\ step \in [1..n -> [Int -> Int]]
  <2>1. \A k \in 1..n : \A sum \in Int : sum + (m[k][2] - m[k][1]) \in Int
    <3> HIDE DEF n
    <3> QED BY <1>1
  <2>2. \A k \in 1..n : [sum \in Int |-> sum + (m[k][2] - m[k][1])] \in [Int -> Int]
    <3> HIDE DEF n
    <3> QED BY <2>1
  <2> HIDE DEF n
  <2> QED BY <2>2
<1>4. \E f : f = Body(f)
  <2>1. PICK f \in [SUBSET (1..n) -> Int] : IsFold(f, n, 0, step)
    <3> HIDE DEF step, n
    <3> QED BY <1>1, <1>3, FoldExists
  <2>2. ASSUME NEW s \in SUBSET (1..n), s # {}
        PROVE  f[s] = f[s \ {Max(s)}] + (m[Max(s)][2] - m[Max(s)][1])
    <3>1. Max(s) \in 1..n /\ s \ {Max(s)} \in SUBSET (1..n)
      BY <1>1, <2>2, MaxInside
    <3>2. f[s \ {Max(s)}] \in Int
      BY <3>1
    <3>3. f[s] = step[Max(s)][f[s \ {Max(s)}]]
      BY <2>1, <2>2 DEF IsFold
    <3> QED BY <3>1, <3>2, <3>3
  <2>3. f[{}] = 0
    BY <2>1 DEF IsFold
  <2> HIDE DEF step, n
  <2>4. f = Body(f)
    BY <2>2, <2>3
  <2> QED BY <2>4
<1>5. iter = Body(iter)
  <2> HIDE DEF Body
  <2> QED BY <1>4
<1> HIDE DEF iter
<1> DEFINE Good(k) == IsFiniteSet(First(k)) /\ iter[1..k] = Cardinality(First(k))
           T == {k \in Nat : k <= n => Good(k)}
<1>6. 0 \in T
  <2>1. 1..0 = {} /\ First(0) = {} /\ {} \in SUBSET (1..n)
    OBVIOUS
  <2>2. iter[{}] = 0
    BY <1>5, <2>1
  <2>3. iter[1..0] = 0
    BY <2>1, <2>2
  <2> HIDE DEF First
  <2> QED BY <2>1, <2>3, FS_EmptySet
<1>7. ASSUME NEW k \in Nat, k \in T
      PROVE  k + 1 \in T
  <2> HIDE DEF Good
  <2> SUFFICES ASSUME k + 1 <= n PROVE Good(k + 1)
    OBVIOUS
  <2>1. k + 1 \in 1..n /\ k <= n /\ (k + 1) - 1 = k
    <3> HIDE DEF n
    <3> QED BY <1>1
  <2>2. Good(k)
    BY <1>7, <2>1
  <2> HIDE DEF T, n
  <2> USE DEF Good
  <2> DEFINE x == m[k + 1]
  <2>3. /\ 1..(k + 1) # {} /\ 1..(k + 1) \in SUBSET (1..n)
        /\ (1..(k + 1)) \ {k + 1} = 1..k /\ Max(1..(k + 1)) = k + 1
    <3>1. /\ 1..(k + 1) # {} /\ 1..(k + 1) \in SUBSET (1..n)
          /\ (1..(k + 1)) \ {k + 1} = 1..((k + 1) - 1) /\ Max(1..(k + 1)) = k + 1
      BY <1>1, <2>1, FirstPlaces
    <3> QED BY <2>1, <3>1
  <2>4. iter[1..(k + 1)] = iter[1..k] + (x[2] - x[1])
    BY <1>5, <2>3
  <2>5. First(k + 1) = First(k) \cup WindowDays(x)
    <3>1. \A i : i \in 1..(k + 1) <=> i \in 1..k \/ i = k + 1
      BY <1>7
    <3> QED BY <3>1
  <2>6. First(k) \cap WindowDays(x) = {}
    <3> SUFFICES ASSUME NEW i \in 1..k, NEW day \in WindowDays(m[i]), day \in WindowDays(x)
                 PROVE  FALSE
      OBVIOUS
    <3>1. i \in 1..n /\ i < k + 1
      BY <1>1, <2>1
    <3>2. m[i][2] < x[1]
      BY <1>1, <2>1, <3>1 DEF Tidy
    <3>3. m[i][1] \in Int /\ m[i][2] \in Int /\ x[1] \in Int /\ x[2] \in Int
      BY <1>1, <2>1, <3>1
    <3>4. day \in Int /\ day <= m[i][2] - 1 /\ x[1] <= day
      <4> HIDE DEF x
      <4> QED BY <3>3 DEF WindowDays
    <3> HIDE DEF x
    <3> QED BY <3>2, <3>3, <3>4
  <2>7. IsFiniteSet(WindowDays(x)) /\ Cardinality(WindowDays(x)) = x[2] - x[1]
    <3>1. x[1] \in Int /\ x[2] \in Int /\ x[1] < x[2]
      BY <1>1, <2>1
    <3> HIDE DEF x
    <3>2. x[2] - 1 \in Int
      BY <3>1
    <3>3. /\ IsFiniteSet(x[1]..(x[2] - 1))
          /\ Cardinality(x[1]..(x[2] - 1)) = IF x[1] > x[2] - 1 THEN 0 ELSE (x[2] - 1) - x[1] + 1
      BY <3>1, <3>2, FS_Interval
    <3> QED BY <3>1, <3>3 DEF WindowDays
  <2> HIDE DEF First, x
  <2>8. /\ IsFiniteSet(First(k) \cup WindowDays(x))
        /\ Cardinality(First(k) \cup WindowDays(x)) = Cardinality(First(k)) + (x[2] - x[1])
    <3>1. Cardinality(First(k) \cap WindowDays(x)) = 0
      BY <2>6, FS_EmptySet
    <3>2. /\ IsFiniteSet(First(k) \cup WindowDays(x))
          /\ Cardinality(First(k) \cup WindowDays(x)) =
               Cardinality(First(k)) + Cardinality(WindowDays(x)) - Cardinality(First(k) \cap WindowDays(x))
      BY <2>2, <2>7, FS_Union
    <3>3. Cardinality(First(k)) \in Nat /\ Cardinality(WindowDays(x)) \in Nat
      BY <2>2, <2>7, FS_CardinalityType
    <3> QED BY <2>7, <3>1, <3>2, <3>3
  <2> QED BY <2>2, <2>4, <2>5, <2>8
<1>8. Nat \subseteq T
  <2> HIDE DEF T
  <2> QED BY <1>6, <1>7, Induction
<1>9. Good(n)
  <2> HIDE DEF Good, n
  <2>1. n \in T
    BY <1>1, <1>8
  <2> QED BY <1>1, <2>1
<1>10. First(n) = DaysOf(m)
  BY <1>1 DEF DaysOf
<1> QED BY <1>2, <1>9, <1>10
-----------------------------------------------------------------------------
(* What the reports say. *)

LEMMA ReportTypes ==
  ASSUME TypeOK, NEW report \in Reports
  PROVE  /\ report[1] \in Nat /\ report[2] \in Nat /\ report[1] <= LastDay
         /\ report[1] <= today /\ report[2] <= report[1] /\ report[2] <= Retention
         /\ report[2] >= 1
<1>1. report \in (1..today) \X (1..Retention) /\ report[2] <= report[1]
  BY DEF Reports, Lookbacks
<1>2. report[1] \in 1..today /\ report[2] \in 1..Retention
  BY <1>1
<1>3. today \in Nat /\ today <= LastDay /\ LastDay \in Nat
  BY WindowTypes DEF TypeOK
<1> QED BY <1>1, <1>2, <1>3, RetentionAssumption

Clamp(asOf, lookback, w) == <<Max({asOf - lookback, w[1]}), Min({asOf, w[2]})>>

\* Clamping a window to the lookback keeps its days of the period.
LEMMA ClampedDays ==
  ASSUME NEW w \in Windows, NEW asOf \in Nat, NEW lookback \in Nat, lookback <= asOf, asOf <= LastDay
  PROVE  /\ Clamp(asOf, lookback, w) \in (0..LastDay) \X (0..LastDay)
         /\ WindowDays(Clamp(asOf, lookback, w)) = WindowDays(w) \cap Period(asOf, lookback)
<1> DEFINE a == Max({asOf - lookback, w[1]})
           b == Min({asOf, w[2]})
<1>1. /\ w[1] \in Nat /\ w[2] \in Nat /\ w[1] < w[2] /\ w[2] <= LastDay /\ LastDay \in Nat
      /\ asOf - lookback \in Nat
  BY WindowTypes
<1>2. a = IF asOf - lookback >= w[1] THEN asOf - lookback ELSE w[1]
  BY <1>1, MaxOfTwo
<1>3. b = IF asOf <= w[2] THEN asOf ELSE w[2]
  BY <1>1, MinOfTwo
<1> HIDE DEF a, b
<1>4. a \in 0..LastDay /\ b \in 0..LastDay
  BY <1>1, <1>2, <1>3
<1>5. a..(b - 1) = (w[1]..(w[2] - 1)) \cap ((asOf - lookback)..(asOf - 1))
  <2>1. ASSUME NEW day \in Int
        PROVE  day \in a..(b - 1) <=> day \in w[1]..(w[2] - 1) /\ day \in (asOf - lookback)..(asOf - 1)
    BY <1>1, <1>2, <1>3, <1>4
  <2>2. \A day \in a..(b - 1) : day \in Int
    BY <1>4
  <2>3. \A day \in w[1]..(w[2] - 1) : day \in Int
    BY <1>1
  <2> QED BY <2>1, <2>2, <2>3
<1>6. Clamp(asOf, lookback, w) = <<a, b>>
  BY DEF Clamp, a, b
<1> QED BY <1>4, <1>5, <1>6 DEF WindowDays, Period

LEMMA CoverageCounts ==
  ASSUME TypeOK, NEW report \in Reports
  PROVE  /\ IsFiniteSet(Period(report[1], report[2]) \cap Covered)
         /\ Coverage(report[1], report[2]) = Cardinality(Period(report[1], report[2]) \cap Covered)
<1> DEFINE asOf == report[1]
           lookback == report[2]
           done == Completed(InReport(asOf, lookback))
           C == Clamped(asOf, lookback)
           D == (0..LastDay) \X (0..LastDay)
<1>1. /\ asOf \in Nat /\ lookback \in Nat /\ lookback <= asOf /\ asOf <= LastDay
      /\ LastDay \in Nat /\ asOf - lookback \in Nat
  BY ReportTypes, WindowTypes
<1> HIDE DEF asOf, lookback
<1>2. C = {Clamp(asOf, lookback, w) : w \in done}
  BY DEF Clamped, Clamp
<1>3. done \subseteq Windows
  BY DEF Completed, InReport, Stored
<1> HIDE DEF done
<1>4. C \in SUBSET D
  BY <1>1, <1>2, <1>3, ClampedDays
<1>5. IsFiniteSet(C) /\ C \in SUBSET Intervals
  <2>1. IsFiniteSet(0..LastDay)
    BY <1>1, FS_Interval
  <2>2. IsFiniteSet(D)
    BY <2>1, FS_Product
  <2>3. D \subseteq Intervals
    BY <1>1 DEF Intervals
  <2> HIDE DEF D
  <2> QED BY <1>4, <2>2, <2>3, FS_Subset
<1>6. UNION {WindowDays(x) : x \in C} = Period(asOf, lookback) \cap Covered
  <2>1. \A w \in done : WindowDays(Clamp(asOf, lookback, w)) = WindowDays(w) \cap Period(asOf, lookback)
    BY <1>1, <1>3, ClampedDays
  <2>2. \A w \in done : w \in Completed(Stored)
    BY DEF done, Completed, InReport
  <2>3. ASSUME NEW w \in Completed(Stored), NEW day \in WindowDays(w), day \in Period(asOf, lookback)
        PROVE  w \in done
    <3>1. w \in Stored /\ w \in Windows /\ rows[w].status = "completed"
      BY DEF Completed, Stored
    <3>2. w[1] \in Nat /\ w[2] \in Nat
      BY <3>1, WindowTypes
    <3>3. day \in Int /\ w[1] <= day /\ day <= w[2] - 1
      BY <3>2 DEF WindowDays
    <3>4. asOf - lookback <= day /\ day <= asOf - 1
      BY <1>1, <2>3, <3>3 DEF Period
    <3>5. w[2] >= asOf - lookback /\ w[1] < asOf
      BY <1>1, <3>2, <3>3, <3>4
    <3> QED BY <3>1, <3>5 DEF done, Completed, InReport
  <2> HIDE DEF C
  <2> QED BY <1>2, <2>1, <2>2, <2>3 DEF Covered
<1> HIDE DEF C
<1>7. Tidy(Merged(C)) /\ DaysOf(Merged(C)) = Period(asOf, lookback) \cap Covered
  BY <1>5, <1>6, MergedDays
<1>8. /\ IsFiniteSet(DaysOf(Merged(C)))
      /\ Length(Merged(C)) = Cardinality(DaysOf(Merged(C)))
  BY <1>7, LengthCountsDays
<1>9. Coverage(asOf, lookback) = Length(Merged(C))
  BY DEF Coverage, C
<1> QED BY <1>7, <1>8, <1>9 DEF asOf, lookback

\* A report counts every day of its lookback that a completed window covers, once, however
\* the windows overlap (summarize_usage).
THEOREM CoverageIsTheUnion == Spec => []CoverageIsUnion
<1>1. HistoryInv => CoverageIsUnion
  BY CoverageCounts DEF HistoryInv, CoverageIsUnion
<1> QED BY <1>1, AlwaysHistory, PTL

\* A period that is covered as often as it has days is covered on each of them.
LEMMA FullCoverage ==
  ASSUME TypeOK, NEW report \in Reports, Coverage(report[1], report[2]) >= report[2]
  PROVE  Period(report[1], report[2]) \subseteq Covered
<1> DEFINE period == Period(report[1], report[2])
<1>1. /\ report[1] \in Nat /\ report[2] \in Nat /\ report[2] <= report[1] /\ report[2] >= 1
      /\ report[1] - report[2] \in Int /\ report[1] - 1 \in Int
  BY ReportTypes
<1>2. IsFiniteSet(period) /\ Cardinality(period) = report[2]
  <2>1. /\ IsFiniteSet((report[1] - report[2])..(report[1] - 1))
        /\ Cardinality((report[1] - report[2])..(report[1] - 1)) =
             IF report[1] - report[2] > report[1] - 1 THEN 0
             ELSE (report[1] - 1) - (report[1] - report[2]) + 1
    BY <1>1, FS_Interval
  <2>2. (IF report[1] - report[2] > report[1] - 1 THEN 0
         ELSE (report[1] - 1) - (report[1] - report[2]) + 1) = report[2]
    BY <1>1
  <2> QED BY <2>1, <2>2 DEF Period
<1>3. Coverage(report[1], report[2]) = Cardinality(period \cap Covered)
  BY CoverageCounts
<1> HIDE DEF period
<1>4. period \cap Covered = period
  <2>1. /\ Cardinality(period \cap Covered) <= Cardinality(period)
        /\ Cardinality(period) = Cardinality(period \cap Covered) => period = period \cap Covered
    BY <1>2, FS_Subset
  <2>2. Cardinality(period \cap Covered) \in Nat
    BY <1>2, FS_Intersection, FS_CardinalityType
  <2> QED BY <1>1, <1>2, <1>3, <2>1, <2>2
<1> QED BY <1>4 DEF period

\* A completed window that was counted and holds a flow of the period makes the report
\* say so.
LEMMA FlowsShow ==
  ASSUME HistoryInv, NEW report \in Reports, NEW w \in Completed(Stored), rows[w].flows # Blank,
         NEW day \in WindowDays(w), day \in traffic, day \in Period(report[1], report[2])
  PROVE  w \in Positive(InReport(report[1], report[2])) /\ day < w[2]
<1>1. w \in Stored /\ w \in Windows /\ rows[w].status = "completed"
  BY DEF Completed, Stored
<1>2. rows[w].flows = Count(w) /\ Count(w) \in Nat /\ Count(w) >= 1
  BY <1>1, CountIsNatural DEF HistoryInv, RowsTrue
<1>3. /\ report[1] \in Nat /\ report[2] \in Nat /\ w[1] \in Nat /\ w[2] \in Nat
  BY <1>1, ReportTypes, WindowTypes DEF HistoryInv
<1>4. day \in Int /\ w[1] <= day /\ day <= w[2] - 1
  BY <1>3 DEF WindowDays
<1>5. report[1] - report[2] <= day /\ day <= report[1] - 1
  BY <1>3, <1>4 DEF Period
<1>6. w[2] >= report[1] - report[2] /\ w[1] < report[1] /\ day < w[2]
  BY <1>3, <1>4, <1>5
<1>7. rows[w].flows > 0
  <2> HIDE DEF Count
  <2> QED BY <1>2
<1> QED BY <1>1, <1>6, <1>7 DEF Positive, Completed, InReport

\* The end of the last of several windows is one of their ends, and none is later.
LEMMA LastEnd ==
  ASSUME NEW hits \in SUBSET Windows, hits # {}
  PROVE  /\ \E w \in hits : w[2] = Max({v[2] : v \in hits})
         /\ \A w \in hits, day \in Int : day < w[2] => day < Max({v[2] : v \in hits})
<1> DEFINE ends == {v[2] : v \in hits}
<1>1. ends \in SUBSET (1..LastDay) /\ ends # {} /\ LastDay \in Nat
  BY WindowTypes
<1>2. \A w \in hits : w[2] \in ends
  OBVIOUS
<1>3. \A x \in ends : \E w \in hits : w[2] = x
  OBVIOUS
<1> HIDE DEF ends
<1>4. Max(ends) \in ends /\ \A x \in ends : x <= Max(ends)
  BY <1>1, MaxInside
<1>5. \A x \in ends : x \in Int
  BY <1>1
<1>6. ASSUME NEW w \in hits, NEW day \in Int, day < w[2]
      PROVE  day < Max(ends)
  <2>1. w[2] \in Int /\ Max(ends) \in Int /\ w[2] <= Max(ends)
    BY <1>2, <1>4, <1>5
  <2> QED BY <1>6, <2>1
<1> QED BY <1>3, <1>4, <1>6 DEF ends

\* A row as the sums see it: the flows counted, none for a blank.
Weight(w) == IF rows[w].flows = Blank THEN 0 ELSE rows[w].flows

LEMMA RowWeights ==
  ASSUME HistoryInv, NEW w \in Completed(Stored)
  PROVE  /\ w \in Windows /\ Weight(w) \in Nat
         /\ rows[w].flows # Blank => rows[w].flows = Weight(w) /\ Weight(w) = Count(w)
         /\ rows[w].flows > 0 <=> Weight(w) > 0
<1>1. w \in Windows /\ rows[w].status = "completed"
  BY DEF Completed, Stored
<1>2. Count(w) \in Nat
  BY <1>1, CountIsNatural
<1>3. rows[w].flows = Blank \/ rows[w].flows = Count(w)
  BY <1>1 DEF HistoryInv, RowsTrue
<1> HIDE DEF Count
<1>4. CASE rows[w].flows = Blank
  <2>1. Weight(w) = 0 /\ ~(rows[w].flows > 0)
    BY <1>4 DEF Weight, Blank
  <2> QED BY <1>1, <1>4, <2>1
<1>5. CASE rows[w].flows = Count(w) /\ rows[w].flows # Blank
  <2>1. Weight(w) = Count(w)
    BY <1>5 DEF Weight
  <2> QED BY <1>1, <1>2, <1>5, <2>1
<1> QED BY <1>3, <1>4, <1>5

\* The total is zero when and only when no window counted a flow.
LEMMA TotalTellsHits ==
  ASSUME HistoryInv
  PROVE  /\ Flows(Completed(Stored)) \in Nat
         /\ Flows(Completed(Stored)) = 0 <=> Positive(Completed(Stored)) = {}
<1> DEFINE done == Completed(Stored)
           counted == {w \in done : rows[w].flows # Blank}
           weights == [w \in Windows |-> IF w \in done THEN Weight(w) ELSE 0]
           flows == [w \in Windows |-> rows[w].flows]
<1>1. IsFiniteSet(Windows) /\ done \in SUBSET Windows
  BY WindowTypes DEF Completed, Stored
<1>2. \A w \in done : Weight(w) \in Nat /\ (rows[w].flows > 0 <=> Weight(w) > 0)
  BY RowWeights
<1>3. \A w \in counted : flows[w] = Weight(w)
  <2>1. \A w \in counted : w \in Windows /\ rows[w].flows = Weight(w)
    BY RowWeights
  <2> QED BY <2>1
<1>4. Completed(done) = done /\ Positive(done) = {w \in done : rows[w].flows > 0}
  BY DEF Completed, Positive
<1>5. Flows(done) = SumFunctionOnSet(flows, counted)
  BY <1>4 DEF Flows
<1>6. counted \in SUBSET done /\ \A w \in done \ counted : Weight(w) = 0
  BY DEF Weight
<1> HIDE DEF done, counted, flows
<1>7. weights \in [Windows -> Nat]
  BY <1>2
<1>8. \A w \in done : weights[w] = Weight(w)
  BY <1>1
<1> HIDE DEF weights
<1>9. PICK f \in [SUBSET Windows -> Nat] : IsSum(f, Windows, weights)
  BY <1>1, <1>7, SumsExist
<1>10. SumFunctionOnSet(flows, counted) = f[counted]
  <2>1. counted \in SUBSET Windows /\ \A w \in counted : flows[w] = weights[w]
    BY <1>1, <1>3, <1>6, <1>8
  <2> QED BY <1>1, <1>7, <1>9, <2>1, SumOnSetIsSum
<1>11. f[counted] = f[done]
  <2>1. \A w \in done \ counted : weights[w] = 0
    BY <1>6, <1>8
  <2> QED BY <1>1, <1>6, <1>7, <1>9, <2>1, SumsSkipZeros
<1>12. Flows(done) = f[done] /\ f[done] \in Nat
  BY <1>1, <1>5, <1>10, <1>11
<1>13. ASSUME f[done] = 0, NEW w \in Positive(done)
       PROVE  FALSE
  <2>1. w \in done /\ {w} \in SUBSET done /\ {w} \in SUBSET Windows /\ weights[w] > 0
    BY <1>1, <1>2, <1>4, <1>8
  <2>2. f[{w}] <= f[done]
    BY <1>1, <1>7, <1>9, <2>1, SumsGrow
  <2>3. f[{w}] = weights[w] + f[{w} \ {w}] /\ {w} \ {w} = {} /\ f[{}] = 0
    BY <1>9, <2>1 DEF IsSum
  <2>4. weights[w] \in Nat
    BY <1>2, <1>8, <2>1
  <2> QED BY <1>13, <2>1, <2>2, <2>3, <2>4
<1>14. ASSUME Positive(done) = {}
       PROVE  f[done] = 0
  <2>1. \A w \in done \ {} : weights[w] = 0
    <3>1. \A w \in done : Weight(w) \in Nat /\ ~(Weight(w) > 0)
      BY <1>2, <1>4, <1>14
    <3> QED BY <1>8, <3>1
  <2>2. f[{}] = f[done]
    BY <1>1, <1>7, <1>9, <2>1, SumsSkipZeros
  <2>3. f[{}] = 0
    BY <1>9 DEF IsSum
  <2> QED BY <2>2, <2>3
<1> QED BY <1>12, <1>13, <1>14 DEF done

\* A counted window with a flow is one with a hit, and the other way round.
LEMMA CountedFlows ==
  ASSUME HistoryInv, NEW w \in Completed(Stored), rows[w].flows # Blank
  PROVE  w \in Windows /\ (w \in Positive(Stored) <=> WindowDays(w) \cap traffic # {})
<1>1. w \in Windows /\ rows[w].flows = Count(w)
  BY RowWeights
<1>2. /\ Count(w) \in Nat
      /\ \A day \in WindowDays(w) \cap traffic : Count(w) >= 1
      /\ WindowDays(w) \cap traffic = {} => Count(w) = 0
  BY <1>1, CountIsNatural, FS_EmptySet DEF Count
<1> HIDE DEF Count
<1>3. rows[w].flows > 0 <=> WindowDays(w) \cap traffic # {}
  BY <1>1, <1>2
<1> QED BY <1>1, <1>3 DEF Positive

\* A report says "no hit" only with a completed window over each of its days, none of which
\* counted a flow of the period, and its last hit is not too early (summarize_usage).
LEMMA ReportIsTrue ==
  ASSUME HistoryInv, NEW report \in Reports
  PROVE  LET counted == {w \in Completed(Stored) : rows[w].flows # Blank}
             period == Period(report[1], report[2])
             last == LastHit(report[1], report[2])
         IN /\ HitStatus(report[1], report[2]) = "NO_HIT_IN_COVERED_PERIOD" =>
                 \A day \in period :
                   LET over == {w \in Completed(Stored) : day \in WindowDays(w)}
                   IN over # {} /\ (day \in traffic => over \cap counted = {})
            /\ \A w \in counted : \A day \in WindowDays(w) \cap traffic \cap period :
                 day < last
<1> DEFINE hits == Positive(InReport(report[1], report[2]))
           period == Period(report[1], report[2])
<1>1. ASSUME HitStatus(report[1], report[2]) = "NO_HIT_IN_COVERED_PERIOD", NEW day \in period
      PROVE  /\ \E w \in Completed(Stored) : day \in WindowDays(w)
             /\ day \in traffic =>
                  \A w \in Completed(Stored) : day \in WindowDays(w) => rows[w].flows = Blank
  <2>1. hits = {} /\ Coverage(report[1], report[2]) >= report[2]
    BY <1>1 DEF HitStatus
  <2>2. period \subseteq Covered
    BY <2>1, FullCoverage DEF HistoryInv
  <2>3. \E w \in Completed(Stored) : day \in WindowDays(w)
    BY <2>2 DEF Covered
  <2> QED BY <1>1, <2>1, <2>3, FlowsShow
<1>2. ASSUME NEW w \in Completed(Stored), rows[w].flows # Blank,
             NEW day \in WindowDays(w), day \in traffic, day \in period
      PROVE  day < LastHit(report[1], report[2])
  <2>1. w \in hits /\ day < w[2]
    BY <1>2, FlowsShow
  <2>2. hits \in SUBSET Windows /\ hits # {}
    BY <2>1 DEF Positive, Completed, InReport, Stored
  <2>3. LastHit(report[1], report[2]) = Max({v[2] : v \in hits})
    BY <2>1 DEF LastHit
  <2>4. day \in Int
    <3>1. w[1] \in Nat /\ w[2] \in Nat
      BY <2>1, <2>2, WindowTypes
    <3> QED BY <3>1 DEF WindowDays
  <2> HIDE DEF hits
  <2> QED BY <2>1, <2>2, <2>3, <2>4, LastEnd
<1> QED BY <1>1, <1>2

\* The compliance sheet says HIT when and only when a counted window holds a flow, and its
\* last hit is the end of the last such window (compliance_usage, _usage_columns).
LEMMA SheetIsTrue ==
  ASSUME HistoryInv
  PROVE  LET counted == {w \in Completed(Stored) : rows[w].flows # Blank}
         IN /\ \A w \in counted : \A day \in WindowDays(w) \cap traffic :
                 ComplianceRow.status = "HIT" /\ day < ComplianceRow.last
            /\ ComplianceRow.status = "HIT" =>
                 \E w \in counted : w[2] = ComplianceRow.last /\ WindowDays(w) \cap traffic # {}
<1> DEFINE done == Completed(Stored)
           hits == Positive(done)
           last == IF hits = {} THEN Blank ELSE Max({w[2] : w \in hits})
<1>1. ComplianceRow.status = UsageStatus(done) /\ ComplianceRow.last = last
  BY DEF ComplianceRow
<1>2. Flows(done) \in Nat /\ (Flows(done) = 0 <=> hits = {})
  BY TotalTellsHits
<1>3. hits \in SUBSET done /\ hits \in SUBSET Windows /\ hits = Positive(Stored)
  BY DEF Positive, Completed, Stored
<1>4. \A w \in hits : rows[w].flows # Blank
  BY DEF Positive, Blank
<1>5. UsageStatus(done) = "HIT" <=> hits # {}
  <2> HIDE DEF done, hits
  <2>1. hits # {} => done # {}
    BY <1>3
  <2>2. Flows(done) > 0 <=> hits # {}
    BY <1>2
  <2> QED BY <2>1, <2>2 DEF UsageStatus
<1>6. ASSUME NEW w \in done, rows[w].flows # Blank, NEW day \in WindowDays(w) \cap traffic
      PROVE  hits # {} /\ day < Max({v[2] : v \in hits})
  <2>1. w \in hits /\ w \in Windows
    BY <1>3, <1>6, CountedFlows
  <2>2. day \in Int /\ day < w[2]
    <3>1. w[1] \in Nat /\ w[2] \in Nat
      BY <2>1, WindowTypes
    <3> QED BY <3>1 DEF WindowDays
  <2> HIDE DEF hits
  <2> QED BY <1>3, <2>1, <2>2, LastEnd
<1>7. ASSUME hits # {}
      PROVE  \E w \in done : /\ rows[w].flows # Blank /\ w[2] = Max({v[2] : v \in hits})
                             /\ WindowDays(w) \cap traffic # {}
  <2>1. PICK w \in hits : w[2] = Max({v[2] : v \in hits})
    <3> HIDE DEF hits
    <3> QED BY <1>3, <1>7, LastEnd
  <2>2. w \in done /\ rows[w].flows # Blank
    BY <1>3, <1>4
  <2>3. WindowDays(w) \cap traffic # {}
    BY <1>3, <2>2, CountedFlows
  <2> QED BY <2>1, <2>2, <2>3
<1> HIDE DEF hits
<1> QED BY <1>1, <1>5, <1>6, <1>7

\* The reports and the compliance sheet tell the truth about the traffic: "no hit" has a
\* completed window over every day and no counted flow, HIT has a counted flow, and no
\* counted flow comes after the last hit (summarize_usage, compliance_usage).
THEOREM NoHitIsTrue == Spec => []HitsAreTrue
<1>1. HistoryInv => HitsAreTrue
  BY ReportIsTrue, SheetIsTrue DEF HitsAreTrue
<1> QED BY <1>1, AlwaysHistory, PTL
-----------------------------------------------------------------------------
(* Pruning. *)

\* What a prune leaves: every window whose end a report of the day can see.
LEMMA PruneLeaves ==
  ASSUME TypeOK, Prune
  PROVE  /\ today' = today
         /\ Stored' \subseteq Stored
         /\ \A w \in Stored' : rows'[w] = rows[w]
         /\ \A w \in Stored : w[2] >= today - Retention => w \in Stored'
<1> DEFINE gone == {w \in Stored : Expired(w)}
<1>1. today' = today /\ rows' = [w \in Windows |-> IF w \in gone THEN Absent ELSE rows[w]]
  BY DEF Prune, Delete
<1>2. \A w \in gone : w[2] < today - Retention
  BY DEF Expired
<1>3. \A w \in Stored : w \in Windows /\ w[2] \in Int
  BY WindowTypes DEF Stored
<1>4. today - Retention \in Int
  BY WindowTypes, RetentionAssumption DEF TypeOK
<1> HIDE DEF gone
<1>5. \A w \in Windows : rows'[w] = IF w \in gone THEN Absent ELSE rows[w]
  BY <1>1
<1>6. \A w \in Stored' : w \in Windows /\ rows'[w] # Absent
  BY DEF Stored
<1>7. \A w \in Stored' : w \in Stored /\ rows'[w] = rows[w]
  BY <1>5, <1>6 DEF Stored
<1>8. ASSUME NEW w \in Stored, w[2] >= today - Retention
      PROVE  w \in Stored'
  <2>1. w \notin gone
    BY <1>2, <1>3, <1>4, <1>8
  <2>2. rows'[w] = rows[w] /\ rows[w] # Absent
    BY <1>3, <1>5, <2>1 DEF Stored
  <2> QED BY <1>3, <2>2 DEF Stored
<1> QED BY <1>1, <1>7, <1>8

LEMMA PruneKeepsRows ==
  ASSUME TypeOK, Prune, NEW lookback \in Lookbacks
  PROVE  /\ InReport(today, lookback)' = InReport(today, lookback)
         /\ \A w \in InReport(today, lookback) : w \in Windows /\ rows'[w] = rows[w]
<1>1. /\ today' = today
      /\ Stored' \subseteq Stored
      /\ \A w \in Stored' : rows'[w] = rows[w]
      /\ \A w \in Stored : w[2] >= today - Retention => w \in Stored'
  BY PruneLeaves
<1>2. today \in Nat /\ Retention \in Nat /\ lookback \in Nat /\ lookback <= Retention
  BY WindowTypes, RetentionAssumption DEF TypeOK, Lookbacks
<1>3. \A w \in Stored : w \in Windows /\ w[2] \in Int
  BY WindowTypes DEF Stored
<1>4. \A w \in Stored : w[2] >= today - lookback => w \in Stored'
  BY <1>1, <1>2, <1>3
<1>5. InReport(today, lookback)' = {w \in Stored' : w[2] >= today - lookback /\ w[1] < today}
  BY <1>1 DEF InReport
<1>6. InReport(today, lookback)' = InReport(today, lookback)
  BY <1>1, <1>4, <1>5 DEF InReport
<1>7. \A w \in InReport(today, lookback) : w \in Stored /\ w \in Stored'
  BY <1>4 DEF InReport
<1> QED BY <1>1, <1>3, <1>6, <1>7

LEMMA PruneKeepsSummary ==
  ASSUME HistoryInv, Prune, NEW lookback \in Lookbacks
  PROVE  Summary(today, lookback)' = Summary(today, lookback)
<1> DEFINE shown == InReport(today, lookback)
           done == Completed(shown)
           hits == Positive(shown)
           counted == {w \in done : rows[w].flows # Blank}
           before == [w \in Windows |-> rows[w].flows]
           after == [w \in Windows |-> rows'[w].flows]
<1>1. shown' = shown /\ \A w \in shown : w \in Windows /\ rows'[w] = rows[w]
  BY PruneKeepsRows DEF HistoryInv
<1>2. today' = today
  BY DEF Prune
<1> HIDE DEF shown
<1>3. done' = done
  BY <1>1 DEF Completed
<1>4. hits' = hits
  BY <1>1, <1>3 DEF Positive, Completed
<1>5. Coverage(today, lookback)' = Coverage(today, lookback)
  <2>1. Clamped(today, lookback)' = Clamped(today, lookback)
    BY <1>2, <1>3 DEF Clamped, shown
  <2>2. Coverage(today, lookback) = Length(Merged(Clamped(today, lookback)))
    BY DEF Coverage
  <2>3. Coverage(today, lookback)' = Length(Merged(Clamped(today, lookback)'))
    BY DEF Coverage
  <2> QED BY <2>1, <2>2, <2>3, Zenon
<1>6. LastHit(today, lookback)' = LastHit(today, lookback)
  BY <1>4 DEF LastHit, shown
<1>7. HitStatus(today, lookback)' = HitStatus(today, lookback)
  BY <1>4, <1>5 DEF HitStatus, shown
<1>8. Flows(shown)' = Flows(shown)
  <2>1. \A w \in done : w \in shown /\ w \in Completed(Stored)
    BY DEF Completed, shown, InReport
  <2>2. /\ counted \in SUBSET Windows /\ IsFiniteSet(Windows)
        /\ \A w \in counted : before[w] \in Nat /\ after[w] = before[w]
    <3>1. \A w \in counted : w \in shown /\ rows[w].flows \in Nat
      BY <2>1, RowWeights
    <3> QED BY <1>1, <3>1, WindowTypes
  <2>3. counted' = counted
    BY <1>1, <1>3, <2>1
  <2>4. SumFunctionOnSet(before, counted) = SumFunctionOnSet(after, counted)
    <3> HIDE DEF counted, before, after
    <3> QED BY <2>2, SumsAgree
  <2>5. Flows(shown) = SumFunctionOnSet(before, counted)
    BY DEF Flows
  <2>6. Flows(shown)' = SumFunctionOnSet(after, counted')
    BY DEF Flows
  <2> HIDE DEF counted, before, after
  <2> QED BY <2>3, <2>4, <2>5, <2>6
<1>9. Summary(today, lookback) =
        [status |-> HitStatus(today, lookback), coverage |-> Coverage(today, lookback),
         last |-> LastHit(today, lookback), total |-> Flows(shown)]
  BY DEF Summary, shown
<1>10. Summary(today, lookback)' =
         [status |-> HitStatus(today, lookback)', coverage |-> Coverage(today, lookback)',
          last |-> LastHit(today, lookback)', total |-> Flows(shown)']
  BY <1>2 DEF Summary, shown
<1> QED BY <1>5, <1>6, <1>7, <1>8, <1>9, <1>10

LEMMA PruneKeepsUnused ==
  ASSUME HistoryInv, Prune
  PROVE  Unused(today)' = Unused(today)
<1>1. /\ today' = today
      /\ Stored' \subseteq Stored
      /\ \A w \in Stored' : rows'[w] = rows[w]
      /\ \A w \in Stored : w[2] >= today - Retention => w \in Stored'
  BY PruneLeaves DEF HistoryInv
<1>2. today \in Nat /\ Retention \in Nat /\ Months18 \in Nat /\ Months18 <= Retention
  BY WindowTypes, RetentionAssumption DEF HistoryInv, TypeOK
<1>3. \A w \in Stored : w[2] \in Int
  BY WindowTypes DEF Stored
<1>4. \A w \in Positive(Stored)' : w \in Positive(Stored)
  <2>1. \A w \in Positive(Stored)' : w \in Stored' /\ rows'[w].status = "completed" /\ rows'[w].flows > 0
    BY DEF Positive, Completed
  <2> QED BY <1>1, <2>1 DEF Positive, Completed
<1>5. \A w \in Positive(Stored) : w \in Positive(Stored)' \/ w[2] <= today - Months18
  <2>1. \A w \in Positive(Stored) : w \in Stored /\ rows[w].status = "completed" /\ rows[w].flows > 0
    BY DEF Positive, Completed
  <2>2. \A w \in Positive(Stored) : w \in Stored' => w \in Positive(Stored)'
    BY <1>1, <2>1 DEF Positive, Completed
  <2> QED BY <1>1, <1>2, <1>3, <2>1, <2>2
<1>6. Unused(today)' = (\A w \in Positive(Stored)' : w[2] <= today - Months18)
  BY <1>1 DEF Unused
<1> QED BY <1>4, <1>5, <1>6 DEF Unused

\* Pruning changes no report of the day whose lookback fits the retention, and nobody's
\* eighteen months without a hit (Database.prune).
THEOREM PruneIsInvisible == Spec => PruneKeepsReports
<1>1. HistoryInv /\ [Next]_vars =>
        [Prune => /\ Unused(today)' = Unused(today)
                  /\ \A lookback \in Lookbacks :
                       Summary(today, lookback)' = Summary(today, lookback)]_vars
  BY PruneKeepsUnused, PruneKeepsSummary
<1> QED BY <1>1, AlwaysHistory, PTL DEF Spec, PruneKeepsReports

-----------------------------------------------------------------------------
(* The batch of recertification workbooks (RecertReports): the labels of a row  *)
(* and the pairs of a report, from the file to the audit.                       *)

\* The application labels and environments that the rows of a group were given.
PairsFor(g) ==
  UNION {{[app |-> a, env |-> row.env] : a \in status[row].labels} :
           row \in {r \in input : Group(r) = g}}

Refusals == {"EMPTY", "UNKNOWN", "UNUSED"}
Outcomes == Refusals \union {"GROUPED", "INCONSISTENT", "PROCESSED", "ERROR"}

\* The applications that a rule names in what it applies to are known to the batch when
\* it saw the rule each time.
KnownFits ==
  /\ Listed \subseteq known /\ known \subseteq Apps /\ seen \subseteq Rule
  /\ \A x \in seen : Named(x) \subseteq known

\* A row has the labels that some rule applied to when the batch began, and none only
\* when it was skipped for a reason that is true; the reports to generate are those of
\* the rows that wait.
RowsFit ==
  /\ status \in [input -> [is : Outcomes, labels : SUBSET Apps]]
  /\ \A row \in input :
       /\ None \in {row.kear, row.env} => status[row].labels = {}
       /\ None \notin {row.kear, row.env} => MatchingLabels(row, seen) \subseteq status[row].labels
       /\ status[row].is \in Refusals <=> status[row].labels = {}
       /\ status[row].is = "EMPTY" => None \in {row.kear, row.env}
       /\ status[row].is = "UNKNOWN" => \A a \in known : ModuleOf[a] # row.module
       /\ status[row].is = "INCONSISTENT" => Cardinality(NamesIn(Group(row))) # 1
       /\ status[row].is = "GROUPED" => pc = "aborted" \/ Group(row) \in groups
       /\ Group(row) \in groups /\ status[row].labels # {} => status[row].is = "GROUPED"

\* A report has the pairs of all rows of its group; that of a processed row is there,
\* unless another one may have replaced it.
FilesFit ==
  /\ \A f \in files : /\ f.path = Path(f.group) /\ f.policy \in Policies
                      /\ f.pairs = PairsFor(f.group)
  /\ \A row \in input : status[row].is = "PROCESSED" =>
       SharesPath(row) \/ \E f \in files : f.group = Group(row)

ReportInv ==
  /\ rules \in Policies /\ input \in Inputs
  /\ pc \in {"start", "labels", "reports", "done", "aborted"}
  /\ pc # "reports" => groups = {}
  /\ pc # "start" => KnownFits
  /\ IF pc \in {"start", "labels"} THEN files = {} ELSE RowsFit /\ FilesFit

\* A report that is generated has the pairs of all rows of its group.
LEMMA PairsOfGroup ==
  ASSUME RowsFit, NEW g \in groups
  PROVE  PairsOf(g) = PairsFor(g)
<1>1. DOMAIN status = input
  BY DEF RowsFit
<1>2. RowsOf(g) \subseteq {r \in input : Group(r) = g}
  BY <1>1 DEF RowsOf
<1>3. ASSUME NEW row \in input, Group(row) = g, row \notin RowsOf(g)
      PROVE  status[row].labels = {}
  BY <1>1, <1>3 DEF RowsFit, RowsOf
<1> QED BY <1>2, <1>3 DEF PairsOf, PairsFor

\* Only the outcome of the rows of a group changes when its report is concluded.
LEMMA ConcludesKeeps ==
  ASSUME RowsFit, NEW g \in groups, NEW outcome \in Outcomes, outcome # "GROUPED",
         outcome \notin Refusals,
         outcome = "INCONSISTENT" => Cardinality(NamesIn(g)) # 1,
         Concludes(g, outcome), UNCHANGED <<input, known, seen, pc>>, pc = "reports"
  PROVE  /\ RowsFit'
         /\ \A row \in input : /\ status'[row].labels = status[row].labels
                               /\ status'[row].is = IF row \in RowsOf(g) THEN outcome
                                                    ELSE status[row].is
         /\ \A h : PairsFor(h)' = PairsFor(h)
<1>1. status \in [input -> [is : Outcomes, labels : SUBSET Apps]] /\ DOMAIN status = input
  BY DEF RowsFit
<1>2. status' = [row \in input |-> IF row \in RowsOf(g) THEN [status[row] EXCEPT !.is = outcome]
                                   ELSE status[row]]
  BY <1>1 DEF Concludes
<1>3. ASSUME NEW row \in input
      PROVE  /\ status'[row] \in [is : Outcomes, labels : SUBSET Apps]
             /\ status'[row].labels = status[row].labels
             /\ status'[row].is = IF row \in RowsOf(g) THEN outcome ELSE status[row].is
  BY <1>1, <1>2
<1>4. status' \in [input -> [is : Outcomes, labels : SUBSET Apps]]
  BY <1>2, <1>3
<1>5. groups' = groups \ {g}
  BY DEF Concludes
<1>6. ASSUME NEW row \in input
      PROVE  /\ status'[row].is \in Refusals <=> status'[row].labels = {}
             /\ status'[row].is = "EMPTY" => None \in {row.kear, row.env}
             /\ status'[row].is = "UNKNOWN" => \A a \in known : ModuleOf[a] # row.module
             /\ status'[row].is = "INCONSISTENT" => Cardinality(NamesIn(Group(row))) # 1
             /\ status'[row].is = "GROUPED" => pc' = "aborted" \/ Group(row) \in groups'
             /\ Group(row) \in groups' /\ status'[row].labels # {} => status'[row].is = "GROUPED"
  <2>1. /\ status[row].is \in Refusals <=> status[row].labels = {}
        /\ status[row].is = "EMPTY" => None \in {row.kear, row.env}
        /\ status[row].is = "UNKNOWN" => \A a \in known : ModuleOf[a] # row.module
        /\ status[row].is = "INCONSISTENT" => Cardinality(NamesIn(Group(row))) # 1
        /\ status[row].is = "GROUPED" => pc = "aborted" \/ Group(row) \in groups
        /\ Group(row) \in groups /\ status[row].labels # {} => status[row].is = "GROUPED"
    BY DEF RowsFit
  <2>2. row \in RowsOf(g) <=> status[row].is = "GROUPED" /\ Group(row) = g
    BY <1>1 DEF RowsOf
  <2>3. status'[row].labels = status[row].labels
    BY <1>3
  <2>4. CASE row \in RowsOf(g)
    <3>1. status[row].is = "GROUPED" /\ Group(row) = g /\ status'[row].is = outcome
      BY <1>3, <2>2, <2>4
    <3>2. status[row].labels # {}
      BY <2>1, <3>1 DEF Refusals
    <3>3. Group(row) \notin groups'
      BY <1>5, <3>1
    <3>4. outcome # "EMPTY" /\ outcome # "UNKNOWN"
      BY DEF Refusals
    <3> QED BY <2>3, <3>1, <3>2, <3>3, <3>4
  <2>5. CASE row \notin RowsOf(g)
    BY <1>3, <1>5, <2>1, <2>2, <2>3, <2>5
  <2> QED BY <2>4, <2>5
<1>7. /\ \A row \in input : MatchingLabels(row, seen)' = MatchingLabels(row, seen)
      /\ \A h : NamesIn(h)' = NamesIn(h)
  BY <1>3 DEF MatchingLabels, NamesIn
<1>8. RowsFit'
  <2>1. \A row \in input : /\ None \in {row.kear, row.env} => status[row].labels = {}
                           /\ None \notin {row.kear, row.env} =>
                                MatchingLabels(row, seen) \subseteq status[row].labels
    BY DEF RowsFit
  <2>2. input' = input /\ known' = known
    OBVIOUS
  <2>3. \A row : Group(row)' = Group(row)
    BY DEF Group
  <2> QED BY <1>3, <1>4, <1>6, <1>7, <2>1, <2>2, <2>3 DEF RowsFit
<1>9. \A h : PairsFor(h)' = PairsFor(h)
  BY <1>3 DEF PairsFor
<1> QED BY <1>3, <1>8, <1>9

\* The labels are those of the references and of the rules of the moment.
LEMMA ReadLabelsKeeps ==
  ASSUME ReportInv, ReadLabels
  PROVE  ReportInv'
<1>1. /\ UNCHANGED <<rules, input, files, groups>> /\ seen' = rules /\ pc = "start" /\ pc' = "labels"
      /\ known' = Listed \union UNION {Named(x) : x \in rules}
      /\ rules \in Policies /\ files = {} /\ groups = {}
  BY DEF ReportInv, ReadLabels
<1>2. rules \subseteq Rule /\ Listed \subseteq Apps
  BY <1>1, RecertReportsAssumption
<1>3. ASSUME NEW x \in Rule
      PROVE  Named(x) \subseteq Apps
  <2>1. x.scope.app \in Apps \union {None} /\ x.src.apps \subseteq Apps /\ x.dst.apps \subseteq Apps
    BY DEF Rule, Scope, Side
  <2> QED BY <2>1 DEF Named
<1>4. \A x \in rules : Named(x)' = Named(x)
  BY DEF Named
<1>5. KnownFits'
  BY <1>1, <1>2, <1>3, <1>4 DEF KnownFits
<1> QED BY <1>1, <1>5 DEF ReportInv

\* Every row is skipped or grouped by the rules of the moment.
LEMMA PrepareKeeps ==
  ASSUME ReportInv, Prepare
  PROVE  ReportInv'
<1>1. /\ rules' = rules /\ input' = input /\ known' = known /\ files' = {}
      /\ seen' = seen \intersect rules /\ pc' = "reports" /\ KnownFits
      /\ rules \in Policies /\ input \in Inputs
  BY DEF ReportInv, Prepare
<1>2. KnownFits'
  BY <1>1 DEF KnownFits, Named
<1> DEFINE Given(row) == IF None \in {row.kear, row.env} THEN {} ELSE MatchingLabels(row, rules)
           Outcome(row) == [is |-> IF Given(row) = {} THEN Refusal(row) ELSE "GROUPED",
                            labels |-> Given(row)]
<1>3. status' = [row \in input |-> Outcome(row)]
  BY DEF Prepare
<1>4. ASSUME NEW row \in input
      PROVE  Given(row) \subseteq Apps
  BY <1>1 DEF MatchingLabels, KnownFits
<1>5. ASSUME NEW row \in input, None \notin {row.kear, row.env}
      PROVE  MatchingLabels(row, seen)' \subseteq Given(row)
  BY <1>1, <1>5 DEF MatchingLabels, Selected
<1>6. ASSUME NEW row \in input, None \in {row.kear, row.env}
      PROVE  Given(row) = {}
  BY <1>6
<1> HIDE DEF Given
<1>7. ASSUME NEW row \in input
      PROVE  /\ Refusal(row) \in Refusals
             /\ Refusal(row) = "EMPTY" => None \in {row.kear, row.env}
             /\ Refusal(row) = "UNKNOWN" => \A a \in known : ModuleOf[a] # row.module
  BY DEF Refusal, Refusals
<1>8. ASSUME NEW row \in input
      PROVE  /\ Outcome(row) \in [is : Outcomes, labels : SUBSET Apps]
             /\ Outcome(row).labels = Given(row)
             /\ Outcome(row).is = IF Given(row) = {} THEN Refusal(row) ELSE "GROUPED"
  BY <1>4, <1>7 DEF Outcomes
<1> HIDE DEF Outcome
<1>9. status' \in [input' -> [is : Outcomes, labels : SUBSET Apps]]
  BY <1>1, <1>3, <1>8
<1>10. \A row \in input : /\ status'[row].labels = Given(row)
                          /\ status'[row].is = IF Given(row) = {} THEN Refusal(row) ELSE "GROUPED"
  BY <1>3, <1>8
<1>11. groups' = {Group(row) : row \in {r \in input : status'[r].is = "GROUPED"}}
  BY DEF Prepare
<1>12. ASSUME NEW row \in input
      PROVE  /\ status'[row].is \in Refusals <=> status'[row].labels = {}
             /\ status'[row].is = "EMPTY" => None \in {row.kear, row.env}
             /\ status'[row].is = "UNKNOWN" => \A a \in known : ModuleOf[a] # row.module
             /\ status'[row].is \notin {"INCONSISTENT", "PROCESSED"}
             /\ status'[row].is = "GROUPED" => Group(row) \in groups'
             /\ status'[row].labels # {} => status'[row].is = "GROUPED"
  <2>1. status'[row].is = "GROUPED" => Group(row) \in groups'
    BY <1>11
  <2>2. CASE Given(row) = {}
    BY <1>7, <1>10, <2>1, <2>2 DEF Refusals
  <2>3. CASE Given(row) # {}
    BY <1>10, <2>1, <2>3 DEF Refusals
  <2> QED BY <2>2, <2>3
<1>13. \A row \in input :
         /\ None \in {row.kear, row.env} => status'[row].labels = {}
         /\ None \notin {row.kear, row.env} => MatchingLabels(row, seen)' \subseteq status'[row].labels
  BY <1>5, <1>6, <1>10
<1>14. \A row : Group(row)' = Group(row)
  BY DEF Group
<1>15. RowsFit'
  BY <1>1, <1>9, <1>12, <1>13, <1>14 DEF RowsFit
<1>16. FilesFit'
  BY <1>1, <1>12 DEF FilesFit
<1> QED BY <1>1, <1>2, <1>15, <1>16 DEF ReportInv

\* Two rows of different groups that have a path in common share it.
LEMMA SamePath ==
  ASSUME NEW row \in input, NEW other \in input, ~SharesPath(row),
         None \notin {other.kear, other.env}, Path(Group(row)) = Path(Group(other))
  PROVE  Group(row) = Group(other)
<1>1. /\ Category(other.env) = Category(row.env)
      /\ DirOf[other.entity] = DirOf[row.entity] /\ Lower[other.kear] = Lower[row.kear]
  BY DEF Path, Group
<1>2. other.entity = row.entity /\ other.kear = row.kear
  BY <1>1 DEF SharesPath
<1> QED BY <1>1, <1>2 DEF Group

\* The report of a group replaces at most those that share its path.
LEMMA GenerateKeeps ==
  ASSUME ReportInv, NEW g \in groups, Generate(g)
  PROVE  ReportInv'
<1>1. /\ UNCHANGED <<rules, input, known, seen, pc>> /\ Concludes(g, "PROCESSED")
      /\ RowsFit /\ FilesFit /\ pc = "reports" /\ rules \in Policies /\ KnownFits
  BY DEF ReportInv, Generate
<1> DEFINE f0 == [path |-> Path(g), group |-> g, pairs |-> PairsOf(g), policy |-> rules]
<1>2. files' = {f \in files : f.path # Path(g)} \union {f0}
  BY DEF Generate
<1>3. /\ RowsFit'
      /\ \A row \in input : /\ status'[row].labels = status[row].labels
                            /\ status'[row].is = IF row \in RowsOf(g) THEN "PROCESSED"
                                                 ELSE status[row].is
      /\ \A h : PairsFor(h)' = PairsFor(h)
  BY <1>1, ConcludesKeeps DEF Outcomes, Refusals
<1>4. PairsOf(g) = PairsFor(g)
  BY <1>1, PairsOfGroup
<1>5. f0.path = Path(f0.group) /\ f0.policy \in Policies /\ f0.pairs = PairsFor(f0.group)
      /\ f0.group = g
  BY <1>1, <1>4
<1> HIDE DEF f0
<1>6. \A f \in files' : /\ f.path = Path(f.group) /\ f.policy \in Policies
                        /\ f.pairs = PairsFor(f.group)'
  BY <1>1, <1>2, <1>3, <1>5 DEF FilesFit
<1>7. \A h : Path(h)' = Path(h)
  BY DEF Path
<1>8. ASSUME NEW row \in input, status'[row].is = "PROCESSED"
      PROVE  SharesPath(row)' \/ \E f \in files' : f.group = Group(row)
  <2>1. SharesPath(row)' <=> SharesPath(row)
    BY <1>1 DEF SharesPath
  <2>2. CASE row \in RowsOf(g)
    BY <1>2, <1>5, <2>2 DEF RowsOf
  <2>3. CASE row \notin RowsOf(g)
    <3>1. status[row].is = "PROCESSED"
      BY <1>3, <1>8, <2>3
    <3>2. CASE SharesPath(row)
      BY <2>1, <3>2
    <3>3. CASE ~SharesPath(row)
      <4>1. PICK f \in files : f.group = Group(row)
        BY <1>1, <3>1, <3>3 DEF FilesFit
      <4>2. CASE Path(Group(row)) # Path(g)
        BY <1>1, <1>2, <4>1, <4>2 DEF FilesFit
      <4>3. CASE Path(Group(row)) = Path(g)
        <5>1. PICK other \in RowsOf(g) : TRUE
          <6>1. RowsOf(g) = {} => {r.name : r \in RowsOf(g)} = {}
            OBVIOUS
          <6>2. Cardinality({r.name : r \in RowsOf(g)}) = 1
            BY DEF Generate
          <6> QED BY <6>1, <6>2, FS_EmptySet
        <5>2. other \in input /\ Group(other) = g /\ None \notin {other.kear, other.env}
          <6>1. other \in input /\ Group(other) = g /\ status[other].is = "GROUPED"
            BY <1>1, <5>1 DEF RowsOf, RowsFit
          <6>2. status[other].labels # {}
            BY <1>1, <6>1 DEF RowsFit, Refusals
          <6> QED BY <1>1, <6>1, <6>2 DEF RowsFit
        <5>3. Group(row) = g
          BY <3>3, <4>3, <5>2, SamePath
        <5> QED BY <1>2, <1>5, <5>3
      <4> QED BY <4>2, <4>3
    <3> QED BY <3>2, <3>3
  <2> QED BY <2>2, <2>3
<1>9. FilesFit'
  BY <1>1, <1>6, <1>7, <1>8 DEF FilesFit
<1>10. KnownFits'
  BY <1>1 DEF KnownFits, Named
<1>11. input' \in Inputs /\ rules' \in Policies
  BY <1>1 DEF ReportInv
<1> QED BY <1>1, <1>3, <1>9, <1>10, <1>11 DEF ReportInv

\* A report that is not generated leaves the others as they are.
LEMMA SkipKeeps ==
  ASSUME ReportInv, NEW g \in groups, NEW outcome \in {"INCONSISTENT", "ERROR"},
         outcome = "INCONSISTENT" => Cardinality(NamesIn(g)) # 1,
         Concludes(g, outcome), UNCHANGED <<rules, input, known, seen, files, pc>>
  PROVE  ReportInv'
<1>1. RowsFit /\ FilesFit /\ KnownFits /\ pc = "reports"
  BY DEF ReportInv
<1>2. /\ RowsFit'
      /\ \A row \in input : status'[row].is = IF row \in RowsOf(g) THEN outcome
                                              ELSE status[row].is
      /\ \A h : PairsFor(h)' = PairsFor(h)
  <2>1. outcome \in Outcomes /\ outcome # "GROUPED" /\ outcome \notin Refusals
    BY DEF Outcomes, Refusals
  <2> QED BY <1>1, <2>1, ConcludesKeeps
<1>3. \A f \in files : /\ f.path = Path(f.group)' /\ f.policy \in Policies
                       /\ f.pairs = PairsFor(f.group)'
  BY <1>1, <1>2 DEF FilesFit, Path
<1>4. ASSUME NEW row \in input, status'[row].is = "PROCESSED"
      PROVE  SharesPath(row)' \/ \E f \in files : f.group = Group(row)
  BY <1>1, <1>2, <1>4 DEF FilesFit, SharesPath
<1>5. FilesFit'
  BY <1>3, <1>4 DEF FilesFit
<1>6. KnownFits'
  BY <1>1 DEF KnownFits, Named
<1>7. input' \in Inputs /\ rules' \in Policies
  BY DEF ReportInv
<1> QED BY <1>1, <1>2, <1>5, <1>6, <1>7 DEF ReportInv

\* The rest: an error that ends the batch, the audit, a publication, a stutter.
LEMMA QuietReports ==
  ASSUME ReportInv, UNCHANGED <<input, known, seen, status, files>>, rules' \in Policies,
         \/ pc = "reports" /\ pc' = "aborted" /\ groups' = {}
         \/ pc = "reports" /\ pc' = "done" /\ groups = {} /\ groups' = groups
         \/ pc' = pc /\ groups' = groups
  PROVE  ReportInv'
<1>1. input' = input /\ input \in Inputs
  BY DEF ReportInv
<1>2. KnownFits <=> KnownFits'
  BY DEF KnownFits, Named
<1>3. CASE pc \in {"start", "labels"}
  BY <1>1, <1>2, <1>3 DEF ReportInv
<1>4. CASE pc \notin {"start", "labels"}
  <2>1. RowsFit /\ FilesFit /\ KnownFits
    BY <1>4 DEF ReportInv
  <2>2. /\ pc' \in {"reports", "done", "aborted"} /\ groups' \subseteq groups
        /\ groups' = groups \/ pc' = "aborted"
        /\ pc = "aborted" => pc' = "aborted"
        /\ pc' # "reports" => groups' = {}
    BY <1>4 DEF ReportInv
  <2>3. /\ \A row \in input : MatchingLabels(row, seen)' = MatchingLabels(row, seen)
        /\ \A h : NamesIn(h)' = NamesIn(h)
        /\ \A row : Group(row)' = Group(row)
    BY DEF MatchingLabels, NamesIn, Group
  <2>4. RowsFit'
    BY <1>1, <2>1, <2>2, <2>3 DEF RowsFit
  <2>5. FilesFit'
    BY <1>1, <2>1 DEF FilesFit, SharesPath, PairsFor, Path
  <2> QED BY <1>1, <1>2, <2>1, <2>2, <2>4, <2>5 DEF ReportInv
<1> QED BY <1>3, <1>4

LEMMA InitReports == ReportInit => ReportInv
BY DEF ReportInit, ReportInv

LEMMA StepReports == ReportInv /\ [ReportNext]_reportVars => ReportInv'
<1> SUFFICES ASSUME ReportInv, [ReportNext]_reportVars PROVE ReportInv'
  OBVIOUS
<1>1. CASE ReadLabels
  BY <1>1, ReadLabelsKeeps
<1>2. CASE Prepare
  BY <1>2, PrepareKeeps
<1>3. ASSUME NEW g \in groups, Inconsistent(g)
      PROVE  ReportInv'
  <2>1. RowsFit
    BY DEF ReportInv
  <2>2. DOMAIN status = input
    BY <2>1 DEF RowsFit
  <2>3. \A row \in input : row \in RowsOf(g) <=> Group(row) = g /\ status[row].labels # {}
    BY <2>1, <2>2 DEF RowsFit, RowsOf, Refusals
  <2>4. {row.name : row \in RowsOf(g)} = NamesIn(g)
    BY <2>2, <2>3 DEF NamesIn, RowsOf
  <2>5. Cardinality(NamesIn(g)) # 1
    BY <1>3, <2>4 DEF Inconsistent
  <2> QED BY <1>3, <2>5, SkipKeeps DEF Inconsistent
<1>4. ASSUME NEW g \in groups, Generate(g)
      PROVE  ReportInv'
  BY <1>4, GenerateKeeps
<1>5. ASSUME NEW g \in groups, Fails(g)
      PROVE  ReportInv'
  <2>1. UNCHANGED <<rules, input, known, seen, files>>
    BY <1>5 DEF Fails
  <2>2. CASE Concludes(g, "ERROR") /\ UNCHANGED pc
    BY <2>1, <2>2, SkipKeeps
  <2>3. CASE pc' = "aborted" /\ groups' = {} /\ UNCHANGED status
    <3>1. pc = "reports" /\ rules' \in Policies
      BY <2>1, <1>5 DEF ReportInv
    <3> QED BY <2>1, <2>3, <3>1, QuietReports
  <2> QED BY <1>5, <2>2, <2>3 DEF Fails
<1>6. CASE Audit
  BY <1>6, QuietReports DEF Audit, ReportInv
<1>7. CASE Republish
  BY <1>7, QuietReports DEF Republish
<1>8. CASE UNCHANGED reportVars
  BY <1>8, QuietReports DEF reportVars, ReportInv
<1> QED BY <1>1, <1>2, <1>3, <1>4, <1>5, <1>6, <1>7, <1>8 DEF ReportNext

LEMMA AlwaysReports == ReportSpec => []ReportInv
BY InitReports, StepReports, PTL DEF ReportSpec

\* A rule that applies to one pair applies to a report with more.
LEMMA PairsGrow ==
  ASSUME NEW x, NEW few, NEW many, few \subseteq many, RulePairs(x, few) # {}
  PROVE  RulePairs(x, many) # {}
BY DEF RulePairs

\* A rule names the application of a pair that it applies to.
LEMMA PairIsNamed ==
  ASSUME NEW x, NEW a \in Apps, NEW env, RulePairs(x, {[app |-> a, env |-> env]}) # {}
  PROVE  a \in Named(x)
<1>1. a # None
  BY RecertReportsAssumption
<1>2. PICK p \in {[app |-> a, env |-> env]} :
        IF x.scope = NoScope THEN SidePair(x.src, p) \/ SidePair(x.dst, p)
        ELSE x.scope.app = p.app /\ x.scope.env \in {p.env, Null}
  BY DEF RulePairs
<1>3. p.app = a
  BY <1>2
<1> QED BY <1>1, <1>2, <1>3 DEF Named, SidePair

\* What the audit workbook says of a row is true: the rules of a processed row are in
\* its report, and a row that was skipped has no rule, no label or not one name, whatever
\* is published during the batch (generate_microcosmos_reports).
THEOREM AuditTellsTheTruth == ReportSpec => []AuditIsTrue
<1>1. ReportInv => AuditIsTrue
  <2> SUFFICES ASSUME ReportInv, pc = "done",
                      NEW row \in {r \in input : None \notin {r.kear, r.env}}
               PROVE  /\ status[row].is = "PROCESSED" =>
                           SharesPath(row) \/ \E f \in ReportOf(row) :
                             \A x \in seen \intersect f.policy :
                               AppliesTo(x, row) => x \in Selected(f.policy, f.pairs)
                      /\ status[row].is = "UNUSED" => \A x \in seen : ~AppliesTo(x, row)
                      /\ status[row].is = "UNKNOWN" =>
                           \A a \in Listed \union UNION {Named(x) : x \in seen} :
                             ModuleOf[a] # row.module
                      /\ status[row].is = "INCONSISTENT" => Cardinality(NamesIn(Group(row))) # 1
                      /\ status[row].is \in {"UNUSED", "UNKNOWN", "INCONSISTENT", "PROCESSED", "ERROR"}
    BY DEF AuditIsTrue
  <2>1. RowsFit /\ FilesFit /\ KnownFits /\ groups = {}
    BY DEF ReportInv
  <2>2. /\ MatchingLabels(row, seen) \subseteq status[row].labels
        /\ status[row].is \in Outcomes
        /\ status[row].is # "GROUPED" /\ status[row].is # "EMPTY"
        /\ status[row].is \in Refusals => status[row].labels = {}
        /\ status[row].is = "UNKNOWN" => \A a \in known : ModuleOf[a] # row.module
        /\ status[row].is = "INCONSISTENT" => Cardinality(NamesIn(Group(row))) # 1
    BY <2>1 DEF RowsFit
  <2>3. ASSUME NEW x \in seen, AppliesTo(x, row)
        PROVE  \E a \in status[row].labels : RulePairs(x, {[app |-> a, env |-> row.env]}) # {}
    <3>1. PICK a \in Apps : /\ ModuleOf[a] = row.module
                           /\ RulePairs(x, {[app |-> a, env |-> row.env]}) # {}
      BY <2>3 DEF AppliesTo
    <3>2. a \in known
      BY <2>1, <3>1, PairIsNamed DEF KnownFits
    <3>3. a \in MatchingLabels(row, seen)
      BY <3>1, <3>2 DEF MatchingLabels, Selected
    <3> QED BY <2>2, <3>1, <3>3
  <2>4. ASSUME status[row].is = "PROCESSED", ~SharesPath(row)
        PROVE  \E f \in ReportOf(row) : \A x \in seen \intersect f.policy :
                 AppliesTo(x, row) => x \in Selected(f.policy, f.pairs)
    <3>1. PICK f \in files : f.group = Group(row)
      BY <2>1, <2>4 DEF FilesFit
    <3>2. f.pairs = PairsFor(Group(row))
      BY <2>1, <3>1 DEF FilesFit
    <3>3. \A a \in status[row].labels : {[app |-> a, env |-> row.env]} \subseteq f.pairs
      BY <3>2 DEF PairsFor
    <3>4. ASSUME NEW x \in seen \intersect f.policy, AppliesTo(x, row)
          PROVE  x \in Selected(f.policy, f.pairs)
      <4>1. PICK a \in status[row].labels : RulePairs(x, {[app |-> a, env |-> row.env]}) # {}
        BY <2>3, <3>4
      <4> QED BY <3>3, <4>1, PairsGrow DEF Selected
    <3> QED BY <3>1, <3>4 DEF ReportOf
  <2>5. ASSUME status[row].is = "UNUSED", NEW x \in seen
        PROVE  ~AppliesTo(x, row)
    BY <2>2, <2>3, <2>5 DEF Refusals
  <2>6. ASSUME status[row].is = "UNKNOWN",
               NEW a \in Listed \union UNION {Named(x) : x \in seen}
        PROVE  ModuleOf[a] # row.module
    BY <2>1, <2>2, <2>6 DEF KnownFits
  <2>7. status[row].is \in {"UNUSED", "UNKNOWN", "INCONSISTENT", "PROCESSED", "ERROR"}
    BY <2>2 DEF Outcomes, Refusals
  <2> QED BY <2>2, <2>4, <2>5, <2>6, <2>7
<1> QED BY <1>1, AlwaysReports, PTL

\* The pairs of a report are those that its rows were given.
LEMMA PairsOfRows ==
  ASSUME ReportInv, NEW f \in files
  PROVE  /\ f.policy \subseteq Rule /\ f.pairs \subseteq Pairs
         /\ \A p \in f.pairs : \E row \in {r \in input : Group(r) = f.group} :
              p.app \in status[row].labels /\ p.env = row.env
<1>1. RowsFit /\ FilesFit /\ input \subseteq Row
  BY RecertReportsAssumption DEF ReportInv
<1>2. f.policy \subseteq Rule /\ f.pairs = PairsFor(f.group)
  BY <1>1, RecertReportsAssumption DEF FilesFit
<1>3. ASSUME NEW p \in f.pairs
      PROVE  /\ p \in Pairs
             /\ \E row \in {r \in input : Group(r) = f.group} :
                  p.app \in status[row].labels /\ p.env = row.env
  <2>1. PICK row \in {r \in input : Group(r) = f.group} :
          \E a \in status[row].labels : p = [app |-> a, env |-> row.env]
    BY <1>2 DEF PairsFor
  <2>2. PICK a \in status[row].labels : p = [app |-> a, env |-> row.env]
    BY <2>1
  <2>3. row \in input /\ row \in Row /\ None \notin {row.kear, row.env} /\ a \in Apps
    BY <1>1 DEF RowsFit
  <2>4. row.env \in Envs
    BY <2>3 DEF Row
  <2> QED BY <2>1, <2>2, <2>3, <2>4 DEF Pairs
<1> QED BY <1>2, <1>3

\* What a side shows for several pairs is what it shows for each of them.
LEMMA ShownPairByPair ==
  ASSUME NEW x \in Rule, NEW side \in Side, NEW pairs, pairs # {}
  PROVE  Shown(x, side, pairs) = UNION {Shown(x, side, {p}) : p \in pairs}
<1>1. ASSUME NEW w \in Workloads
      PROVE  w \in Shown(x, side, pairs) <=> \E p \in pairs : w \in Shown(x, side, {p})
  <2>1. InPairs(w, pairs) <=> \E p \in pairs : InPairs(w, {p})
    BY DEF InPairs
  <2>2. InScope(w, x.scope, pairs) <=> \E p \in pairs : InScope(w, x.scope, {p})
    BY <2>1 DEF InScope
  <2> QED BY <2>1, <2>2 DEF Shown
<1> QED BY <1>1 DEF Shown

\* A workload that a side shows has an application of its labels, or is of a pair.
LEMMA ShownIsMeant ==
  ASSUME NEW x \in Rule, NEW side \in Side, NEW few \in SUBSET Pairs, RulePairs(x, few) # {},
         NEW w \in Shown(x, side, RulePairs(x, few))
  PROVE  w.app \in side.apps \/ [app |-> w.app, env |-> w.env] \in few
<1> DEFINE pairs == RulePairs(x, few)
<1>1. pairs \subseteq few
  BY DEF RulePairs
<1>2. w \in Workloads /\ w \in [app : Apps, env : Envs, role : BOOLEAN]
  BY RecertReportsAssumption DEF Shown
<1>3. CASE side.all /\ x.scope # NoScope /\ InScope(w, x.scope, pairs)
  <2>1. PICK p \in few : x.scope.app = p.app /\ x.scope.env \in {p.env, Null}
    BY <1>3 DEF RulePairs
  <2>2. p.app \in Apps /\ p.env \in Envs
    BY <2>1 DEF Pairs
  <2>3. w.app = p.app
    BY <1>3, <2>1, <2>2, RecertReportsAssumption DEF InScope
  <2>4. CASE x.scope.env = Null
    BY <1>1, <1>3, <2>4 DEF InScope, InPairs
  <2>5. CASE x.scope.env # Null
    <3>1. w.env = p.env
      BY <1>3, <2>1, <2>2, <2>5, RecertReportsAssumption DEF InScope
    <3>2. [app |-> w.app, env |-> w.env] = p
      BY <2>2, <2>3, <3>1 DEF Pairs
    <3> QED BY <3>2
  <2> QED BY <2>4, <2>5
<1>4. CASE side.apps # {} /\ HasLabels(w, side)
  BY <1>4 DEF HasLabels
<1>5. CASE InPairs(w, pairs)
  BY <1>1, <1>5 DEF InPairs
<1> QED BY <1>3, <1>4, <1>5 DEF Shown

\* Consolidating several rows in a report changes nothing in what it shows of a rule,
\* and shows no workload of an application that neither the rule nor a row of the report
\* names (_expand_side_details).
THEOREM ConsolidationChangesNothing == ReportSpec => []ConsolidationIsExact
<1>1. ReportInv => ConsolidationIsExact
  <2> SUFFICES ASSUME ReportInv, NEW f \in files, NEW x \in Selected(f.policy, f.pairs),
                      NEW side \in {x.src, x.dst}
               PROVE  /\ Shown(x, side, RulePairs(x, f.pairs))
                           = UNION {Shown(x, side, {p}) : p \in RulePairs(x, f.pairs)}
                      /\ \A w \in Shown(x, side, RulePairs(x, f.pairs)) :
                           \/ w.app \in side.apps
                           \/ \E row \in {r \in input : Group(r) = f.group} :
                                w.app \in status[row].labels /\ w.env = row.env
    BY DEF ConsolidationIsExact
  <2>1. x \in Rule /\ RulePairs(x, f.pairs) # {} /\ f.pairs \in SUBSET Pairs
    BY PairsOfRows DEF Selected
  <2>2. side \in Side
    BY <2>1 DEF Rule
  <2>3. Shown(x, side, RulePairs(x, f.pairs))
          = UNION {Shown(x, side, {p}) : p \in RulePairs(x, f.pairs)}
    BY <2>1, <2>2, ShownPairByPair
  <2>4. ASSUME NEW w \in Shown(x, side, RulePairs(x, f.pairs)), w.app \notin side.apps
        PROVE  \E row \in {r \in input : Group(r) = f.group} :
                 w.app \in status[row].labels /\ w.env = row.env
    <3>1. [app |-> w.app, env |-> w.env] \in f.pairs
      BY <2>1, <2>2, <2>4, ShownIsMeant
    <3> QED BY <3>1, PairsOfRows
  <2> QED BY <2>3, <2>4
<1> QED BY <1>1, AlwaysReports, PTL
=============================================================================

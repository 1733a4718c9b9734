---------------------------- MODULE ChunkStatsProofs ----------------------------
(***************************************************************************)
(* What the statistics operators compute, for every column, chunk size and *)
(* range of rows.  The loops of ChunkStats are recursive functions; a      *)
(* lemma unfolds each of them one turn at a time, and the others follow by *)
(* induction on the number of turns.                                       *)
(***************************************************************************)
EXTENDS ChunkStats, FiniteSetTheorems, WellFoundedInduction, TLAPS

\* A nonempty set of naturals has a least element.
LEMMA LeastNatural ==
    ASSUME NEW S \in SUBSET Nat, S # {}
    PROVE  \E m \in S : \A n \in S : m <= n
<1> DEFINE R == OpToRel(<, Nat)
<1>1. \A m, n \in Nat : <<m, n>> \in R <=> m < n
  BY DEF OpToRel
<1>2. IsWellFoundedOn(R, Nat)
  BY NatLessThanWellFounded
<1> HIDE DEF R
<1>3. PICK m \in S : \A n \in S : ~ (<<n, m>> \in R)
  BY <1>2, WFMin
<1>4. \A n \in S : m <= n
  <2> SUFFICES ASSUME NEW n \in S PROVE m <= n
    OBVIOUS
  <2>1. m \in Nat /\ n \in Nat
    OBVIOUS
  <2>2. ~ (<<n, m>> \in R)
    BY <1>3
  <2>3. ~ (n < m)
    BY <1>1, <2>1, <2>2
  <2> QED
    BY <2>1, <2>3
<1> QED
  BY <1>4

\* A set that holds 0 and the successors of its elements holds every natural.
LEMMA SetInduction ==
    ASSUME NEW S, 0 \in S, \A n \in Nat : n \in S => n + 1 \in S
    PROVE  Nat \subseteq S
<1> SUFFICES ASSUME NEW k \in Nat, k \notin S PROVE FALSE
  OBVIOUS
<1> DEFINE T == Nat \ S
<1>1. PICK m \in T : \A n \in T : m <= n
  BY LeastNatural
<1>2. m # 0 /\ m - 1 \in Nat /\ m - 1 \notin T
  BY <1>1
<1> QED
  BY <1>1, <1>2

-------------------------------------------------------------------------------
(* One row at a time. *)

\* The loop of ScanRange, by the number of turns it has made.
ScanTurns(column, a, acc, f) ==
    /\ f[0] = acc
    /\ \A n \in Nat : f[n + 1] = Add(f[n], column[a + n])
    /\ \A b \in Int : ScanRange(column, a, b, acc) = f[RowsIn(a, b)]

LEMMA ScanLoop ==
    ASSUME NEW column, NEW a \in Int, NEW acc
    PROVE  \E f : ScanTurns(column, a, acc, f)
<1> DEFINE start == acc
           step(x, n) == Add(x, column[a + n - 1])
           Upto(n, g) == g = [i \in 0 .. n |-> IF i = 0 THEN start ELSE step(g[i - 1], i)]
           pick(n) == CHOOSE g : Upto(n, g)
           f == [n \in Nat |-> pick(n)[n]]
<1> HIDE DEF start, step
<1>1. \A n \in Nat : \E g : Upto(n, g)
  <2> DEFINE T == {n \in Nat : \E g : Upto(n, g)}
  <2>1. 0 \in T
    <3> DEFINE h == [i \in 0 .. 0 |-> start]
    <3>1. Upto(0, h)
      OBVIOUS
    <3> QED
      BY <3>1
  <2>2. ASSUME NEW n \in Nat, n \in T
        PROVE  n + 1 \in T
    <3>1. PICK g : Upto(n, g)
      BY <2>2
    <3> DEFINE h == [i \in 0 .. n + 1 |-> IF i = n + 1 THEN step(g[n], i) ELSE g[i]]
    <3>2. ASSUME NEW i \in 0 .. n + 1
          PROVE  h[i] = IF i = 0 THEN start ELSE step(h[i - 1], i)
      <4>1. CASE i = n + 1
        <5>1. h[i] = step(g[n], i) /\ i - 1 = n /\ h[n] = g[n]
          BY <4>1
        <5> QED
          BY <4>1, <5>1
      <4>2. CASE i # n + 1
        <5>1. i \in 0 .. n /\ h[i] = g[i]
          BY <4>2
        <5>2. g[i] = IF i = 0 THEN start ELSE step(g[i - 1], i)
          BY <3>1, <5>1
        <5>3. i # 0 => h[i - 1] = g[i - 1]
          BY <4>2
        <5> QED
          BY <5>1, <5>2, <5>3
      <4> QED
        BY <4>1, <4>2
    <3>3. h = [i \in 0 .. n + 1 |-> h[i]]
      OBVIOUS
    <3>4. Upto(n + 1, h)
      <4> HIDE DEF h
      <4> QED
        BY <3>2, <3>3
    <3> HIDE DEF h, Upto
    <3> QED
      BY <3>4
  <2> HIDE DEF T, Upto
  <2>3. Nat \subseteq T
    BY <2>1, <2>2, SetInduction
  <2> QED
    BY <2>3 DEF T
<1>2. \A n \in Nat : Upto(n, pick(n))
  <2> HIDE DEF Upto
  <2> QED
    BY <1>1
<1>3. ASSUME NEW n \in Nat
      PROVE  pick(n)[n] = pick(n + 1)[n]
  <2> DEFINE T == {i \in Nat : i <= n => pick(n)[i] = pick(n + 1)[i]}
  <2>0. Upto(n, pick(n)) /\ Upto(n + 1, pick(n + 1))
    <3> HIDE DEF Upto, pick
    <3> QED
      BY <1>2
  <2> HIDE DEF pick
  <2>1. 0 \in T
    BY <2>0
  <2>2. ASSUME NEW i \in Nat, i \in T
        PROVE  i + 1 \in T
    <3> SUFFICES ASSUME i + 1 <= n PROVE pick(n)[i + 1] = pick(n + 1)[i + 1]
      OBVIOUS
    <3>1. i + 1 \in 0 .. n /\ i + 1 \in 0 .. n + 1 /\ i + 1 # 0 /\ (i + 1) - 1 = i
      OBVIOUS
    <3>2. pick(n)[i + 1] = step(pick(n)[i], i + 1)
      BY <2>0, <3>1
    <3>3. pick(n + 1)[i + 1] = step(pick(n + 1)[i], i + 1)
      BY <2>0, <3>1
    <3> QED
      BY <2>2, <3>2, <3>3
  <2> HIDE DEF T
  <2>3. Nat \subseteq T
    BY <2>1, <2>2, SetInduction
  <2> QED
    BY <2>3 DEF T
<1>4. ASSUME NEW n \in Nat
      PROVE  f[n] = IF n = 0 THEN start ELSE step(f[n - 1], n)
  <2>1. Upto(n, pick(n)) /\ f[n] = pick(n)[n] /\ n \in 0 .. n
    <3> HIDE DEF Upto, pick
    <3> QED
      BY <1>2
  <2>2. CASE n = 0
    <3> HIDE DEF pick, f
    <3> QED
      BY <2>1, <2>2
  <2>3. CASE n # 0
    <3>1. PICK m \in Nat : n = m + 1
      BY <2>3
    <3>2. f[m] = pick(m + 1)[m]
      <4> HIDE DEF pick
      <4> QED
        BY <1>3
    <3> HIDE DEF pick, f
    <3> QED
      BY <2>1, <2>3, <3>1, <3>2
  <2> QED
    BY <2>2, <2>3
<1>5. f = [n \in Nat |-> IF n = 0 THEN start ELSE step(f[n - 1], n)]
  <2> HIDE DEF pick
  <2>1. f = [n \in Nat |-> f[n]]
    OBVIOUS
  <2> HIDE DEF f
  <2> QED
    BY <1>4, <2>1
<1> DEFINE scan == CHOOSE g : g = [n \in Nat |-> IF n = 0 THEN acc ELSE Add(g[n - 1], column[a + n - 1])]
<1> HIDE DEF f
<1>6. f = [n \in Nat |-> IF n = 0 THEN acc ELSE Add(f[n - 1], column[a + n - 1])]
  BY <1>5 DEF start, step
<1>7. scan = [n \in Nat |-> IF n = 0 THEN acc ELSE Add(scan[n - 1], column[a + n - 1])]
  BY <1>6
<1>8. \A b : ScanRange(column, a, b, acc) = scan[RowsIn(a, b)]
  BY DEF ScanRange
<1> HIDE DEF scan
<1>9. ASSUME NEW n \in Nat PROVE scan[n + 1] = Add(scan[n], column[a + n])
  <2>1. n + 1 \in Nat /\ n + 1 # 0 /\ (n + 1) - 1 = n /\ a + (n + 1) - 1 = a + n
    OBVIOUS
  <2> QED
    BY <1>7, <2>1
<1> QED
  BY <1>7, <1>8, <1>9 DEF ScanTurns

\* Nothing is read from an empty range; the last row of another is read last.
LEMMA ScanSteps ==
    ASSUME NEW column, NEW a \in Int, NEW b \in Int, NEW acc
    PROVE  /\ b < a => ScanRange(column, a, b, acc) = acc
           /\ a <= b => ScanRange(column, a, b, acc)
                            = Add(ScanRange(column, a, b - 1, acc), column[b])
<1> DEFINE f == CHOOSE g : ScanTurns(column, a, acc, g)
<1>1. ScanTurns(column, a, acc, f)
  BY ScanLoop
<1> HIDE DEF f
<1> USE <1>1 DEF ScanTurns
<1>2. CASE b < a
  <2>1. RowsIn(a, b) = 0
    BY <1>2 DEF RowsIn
  <2> QED
    BY <1>1, <1>2, <2>1
<1>3. CASE a <= b
  <2>1. RowsIn(a, b) = b - a + 1 /\ RowsIn(a, b - 1) = b - a /\ b - a \in Nat
    BY <1>3 DEF RowsIn
  <2>2. f[b - a + 1] = Add(f[b - a], column[a + (b - a)])
    BY <1>1, <2>1
  <2>3. a + (b - a) = b /\ b - 1 \in Int
    OBVIOUS
  <2> QED
    BY <1>1, <1>3, <2>1, <2>2, <2>3
<1> QED
  BY <1>2, <1>3

\* The values of a cell and the statistics of some of them.
Cell  == -Infinity .. Infinity
Stats == [sum : Int, min : Cell, max : Cell, count : Nat]

LEMMA EmptyStats == Empty \in Stats
  BY ChunkStatsAssumption DEF Empty, Stats, Cell

LEMMA AddStats ==
    ASSUME NEW acc \in Stats, NEW v \in Cell
    PROVE  Add(acc, v) \in Stats /\ Add(acc, v).count = acc.count
  BY ChunkStatsAssumption DEF Add, Stats, Cell

\* A scan of cells keeps statistics statistics, and counts nothing.
LEMMA ScanStats ==
    ASSUME NEW column, NEW a \in Int, NEW b \in Int, NEW acc \in Stats,
           \A r \in a .. b : column[r] \in Cell
    PROVE  /\ ScanRange(column, a, b, acc) \in Stats
           /\ ScanRange(column, a, b, acc).count = acc.count
<1> DEFINE scan(c) == ScanRange(column, a, c, acc)
           T == {n \in Nat : \A c \in Int : c <= b /\ c - a + 1 = n
                                => scan(c) \in Stats /\ scan(c).count = acc.count}
<1>1. 0 \in T
  BY ScanSteps
<1>2. ASSUME NEW n \in Nat, n \in T
      PROVE  n + 1 \in T
  <2> SUFFICES ASSUME NEW c \in Int, c <= b, c - a + 1 = n + 1
               PROVE  scan(c) \in Stats /\ scan(c).count = acc.count
    OBVIOUS
  <2>1. /\ a <= c /\ c - 1 \in Int /\ c - 1 <= b /\ (c - 1) - a + 1 = n
    OBVIOUS
  <2>2. scan(c - 1) \in Stats /\ scan(c - 1).count = acc.count
    BY <1>2, <2>1
  <2>3. scan(c) = Add(scan(c - 1), column[c]) /\ column[c] \in Cell
    BY <2>1, ScanSteps
  <2> HIDE DEF scan
  <2> QED
    BY <2>2, <2>3, AddStats
<1> HIDE DEF T
<1>3. Nat \subseteq T
  BY <1>1, <1>2, SetInduction
<1>4. CASE b < a
  BY <1>4, ScanSteps
<1>5. CASE a <= b
  <2>1. b - a + 1 \in T
    BY <1>3, <1>5
  <2> QED
    BY <2>1 DEF T
<1> QED
  BY <1>4, <1>5

\* Columns that agree on a range scan alike there.
LEMMA ScanAgrees ==
    ASSUME NEW f, NEW g, NEW a \in Int, NEW b \in Int, NEW acc, \A r \in a .. b : f[r] = g[r]
    PROVE  ScanRange(f, a, b, acc) = ScanRange(g, a, b, acc)
<1> DEFINE T == {n \in Nat : \A c \in Int : c <= b /\ c - a + 1 = n
                                => ScanRange(f, a, c, acc) = ScanRange(g, a, c, acc)}
<1>1. 0 \in T
  BY ScanSteps
<1>2. ASSUME NEW n \in Nat, n \in T
      PROVE  n + 1 \in T
  <2> SUFFICES ASSUME NEW c \in Int, c <= b, c - a + 1 = n + 1
               PROVE  ScanRange(f, a, c, acc) = ScanRange(g, a, c, acc)
    OBVIOUS
  <2>1. a <= c /\ c - 1 \in Int /\ c - 1 <= b /\ (c - 1) - a + 1 = n
    OBVIOUS
  <2>2. ScanRange(f, a, c - 1, acc) = ScanRange(g, a, c - 1, acc)
    BY <1>2, <2>1
  <2>3. f[c] = g[c]
    BY <2>1
  <2> QED
    BY <2>1, <2>2, <2>3, ScanSteps
<1> HIDE DEF T
<1>3. Nat \subseteq T
  BY <1>1, <1>2, SetInduction
<1>4. CASE b < a
  BY <1>4, ScanSteps
<1>5. CASE a <= b
  <2>1. b - a + 1 \in T
    BY <1>3, <1>5
  <2> QED
    BY <2>1 DEF T
<1> QED
  BY <1>4, <1>5

\* A scan may be interrupted between any two rows.
LEMMA ScanSplits ==
    ASSUME NEW column, NEW a \in Int, NEW m \in Int, NEW b \in Int, NEW acc,
           a <= m + 1, m <= b
    PROVE  ScanRange(column, m + 1, b, ScanRange(column, a, m, acc))
               = ScanRange(column, a, b, acc)
<1> DEFINE rest(c) == ScanRange(column, m + 1, c, ScanRange(column, a, m, acc))
           T == {n \in Nat : rest(m + n) = ScanRange(column, a, m + n, acc)}
<1>1. 0 \in T
  <2>1. m + 0 = m /\ m < m + 1 /\ m + 1 \in Int
    OBVIOUS
  <2> QED
    BY <2>1, ScanSteps
<1>2. ASSUME NEW n \in Nat, n \in T
      PROVE  n + 1 \in T
  <2>1. /\ m + (n + 1) \in Int /\ (m + (n + 1)) - 1 = m + n
        /\ m + 1 <= m + (n + 1) /\ a <= m + (n + 1) /\ m + 1 \in Int
    OBVIOUS
  <2>2. rest(m + (n + 1)) = Add(rest(m + n), column[m + (n + 1)])
    BY <2>1, ScanSteps
  <2>3. ScanRange(column, a, m + (n + 1), acc)
            = Add(ScanRange(column, a, m + n, acc), column[m + (n + 1)])
    BY <2>1, ScanSteps
  <2> HIDE DEF rest
  <2> QED
    BY <1>2, <2>2, <2>3
<1> HIDE DEF T
<1>3. Nat \subseteq T
  BY <1>1, <1>2, SetInduction
<1>4. b - m \in T /\ m + (b - m) = b
  BY <1>3
<1> QED
  BY <1>4 DEF T

\* Taking a summary of a range is as good as reading its rows.
LEMMA MergeEmpty ==
    ASSUME NEW acc \in Stats
    PROVE  Merge(acc, Empty) = acc
  BY ChunkStatsAssumption DEF Merge, Empty, Stats, Cell

LEMMA MergeAdd ==
    ASSUME NEW acc \in Stats, NEW part \in Stats, NEW v \in Cell
    PROVE  Merge(acc, Add(part, v)) = Add(Merge(acc, part), v)
<1>1. acc.sum + (part.sum + v) = (acc.sum + part.sum) + v
  BY DEF Stats, Cell
<1> QED
  BY <1>1, ChunkStatsAssumption DEF Merge, Add, Stats, Cell

LEMMA MergeScan ==
    ASSUME NEW column, NEW a \in Int, NEW b \in Int, NEW acc \in Stats,
           \A r \in a .. b : column[r] \in Cell
    PROVE  Merge(acc, ScanRange(column, a, b, Empty)) = ScanRange(column, a, b, acc)
<1> DEFINE part(c) == ScanRange(column, a, c, Empty)
           scan(c) == ScanRange(column, a, c, acc)
           T == {n \in Nat : \A c \in Int : c <= b /\ c - a + 1 = n
                                => Merge(acc, part(c)) = scan(c)}
<1>1. 0 \in T
  BY ScanSteps, MergeEmpty
<1>2. ASSUME NEW n \in Nat, n \in T
      PROVE  n + 1 \in T
  <2> SUFFICES ASSUME NEW c \in Int, c <= b, c - a + 1 = n + 1
               PROVE  Merge(acc, part(c)) = scan(c)
    OBVIOUS
  <2>1. a <= c /\ c - 1 \in Int /\ c - 1 <= b /\ (c - 1) - a + 1 = n /\ c \in a .. b
    OBVIOUS
  <2>2. Merge(acc, part(c - 1)) = scan(c - 1)
    BY <1>2, <2>1
  <2>3. /\ part(c) = Add(part(c - 1), column[c])
        /\ scan(c) = Add(scan(c - 1), column[c])
        /\ column[c] \in Cell
    BY <2>1, ScanSteps
  <2>4. part(c - 1) \in Stats
    <3>1. \A r \in a .. c - 1 : r \in a .. b
      BY <2>1
    <3> QED
      BY <2>1, <3>1, ScanStats, EmptyStats
  <2> HIDE DEF part, scan
  <2> QED
    BY <2>2, <2>3, <2>4, MergeAdd
<1> HIDE DEF T
<1>3. Nat \subseteq T
  BY <1>1, <1>2, SetInduction
<1>4. CASE b < a
  BY <1>4, ScanSteps, MergeEmpty
<1>5. CASE a <= b
  <2>1. b - a + 1 \in T
    BY <1>3, <1>5
  <2> QED
    BY <2>1 DEF T
<1> QED
  BY <1>4, <1>5
-------------------------------------------------------------------------------
(* The reference. *)

LEMMA RangeSize == \A a, b \in Int : Cardinality(a .. b) = RowsIn(a, b)
<1> TAKE a, b \in Int
<1>1. Cardinality(a .. b) = IF a > b THEN 0 ELSE b - a + 1
  BY FS_Interval
<1> QED
  BY <1>1 DEF RowsIn

LEMMA MinOf ==
    ASSUME NEW S \in SUBSET Int, NEW m \in S, \A x \in S : m <= x
    PROVE  Min(S) = m
<1>1. Min(S) \in S /\ \A x \in S : Min(S) <= x
  <2> DEFINE least(x) == x \in S /\ \A y \in S : x <= y
  <2>1. least(m)
    OBVIOUS
  <2>2. Min(S) = CHOOSE x : least(x)
    BY DEF Min
  <2> HIDE DEF least
  <2>3. least(Min(S))
    BY <2>1, <2>2
  <2> QED
    BY <2>3 DEF least
<1>2. Min(S) \in Int /\ m \in Int /\ Min(S) <= m /\ m <= Min(S)
  BY <1>1
<1> QED
  BY <1>2

LEMMA MaxOf ==
    ASSUME NEW S \in SUBSET Int, NEW m \in S, \A x \in S : m >= x
    PROVE  Max(S) = m
<1>1. Max(S) \in S /\ \A x \in S : Max(S) >= x
  <2> DEFINE greatest(x) == x \in S /\ \A y \in S : x >= y
  <2>1. greatest(m)
    OBVIOUS
  <2>2. Max(S) = CHOOSE x : greatest(x)
    BY DEF Max
  <2> HIDE DEF greatest
  <2>3. greatest(Max(S))
    BY <2>1, <2>2
  <2> QED
    BY <2>3 DEF greatest
<1>2. Max(S) \in Int /\ m \in Int /\ Max(S) <= m /\ m <= Max(S)
  BY <1>1
<1> QED
  BY <1>2

\* The totals from row 0 that the reference subtracts.
Totals(column, t) ==
    /\ t[0] = 0
    /\ \A n \in Nat : t[n + 1] = t[n] + column[n]
    /\ \A a, b : Reference(column, a, b) =
                     [sum   |-> t[b + 1] - t[a],
                      min   |-> Min({column[r] : r \in a .. b}),
                      max   |-> Max({column[r] : r \in a .. b}),
                      count |-> Cardinality(a .. b)]

LEMMA TotalLoop == \A column : \E t : Totals(column, t)
<1> SUFFICES ASSUME NEW column PROVE \E t : Totals(column, t)
  OBVIOUS
<1> DEFINE f == CHOOSE g : ScanTurns(column, 0, Empty, g)
           s == [n \in Nat |-> f[n].sum]
           t == CHOOSE g : g = [n \in Nat |-> IF n = 0 THEN 0 ELSE g[n - 1] + column[n - 1]]
<1>1. ScanTurns(column, 0, Empty, f)
  BY ScanLoop
<1> HIDE DEF f
<1>2. s[0] = 0
  BY <1>1 DEF ScanTurns, Empty
<1>3. ASSUME NEW n \in Nat PROVE s[n + 1] = s[n] + column[n]
  <2>1. f[n + 1] = Add(f[n], column[n]) /\ n + 1 \in Nat
    BY <1>1 DEF ScanTurns
  <2> QED
    BY <2>1 DEF Add
<1>4. ASSUME NEW n \in Nat
      PROVE  s[n] = IF n = 0 THEN 0 ELSE s[n - 1] + column[n - 1]
  <2>1. CASE n = 0
    BY <1>2, <2>1
  <2>2. CASE n # 0
    <3>1. n - 1 \in Nat /\ (n - 1) + 1 = n
      BY <2>2
    <3> HIDE DEF s
    <3> QED
      BY <1>3, <2>2, <3>1
  <2> QED
    BY <2>1, <2>2
<1>5. s = [n \in Nat |-> IF n = 0 THEN 0 ELSE s[n - 1] + column[n - 1]]
  <2>1. s = [n \in Nat |-> s[n]]
    OBVIOUS
  <2> HIDE DEF s
  <2> QED
    BY <1>4, <2>1
<1>6. t = [n \in Nat |-> IF n = 0 THEN 0 ELSE t[n - 1] + column[n - 1]]
  <2> HIDE DEF s
  <2> QED
    BY <1>5
<1>7. \A a, b : Reference(column, a, b) =
                    [sum   |-> t[b + 1] - t[a],
                     min   |-> Min({column[r] : r \in a .. b}),
                     max   |-> Max({column[r] : r \in a .. b}),
                     count |-> Cardinality(a .. b)]
  BY DEF Reference
<1> HIDE DEF t
<1>8. ASSUME NEW n \in Nat PROVE t[n + 1] = t[n] + column[n]
  <2>1. n + 1 \in Nat /\ n + 1 # 0 /\ (n + 1) - 1 = n
    OBVIOUS
  <2> QED
    BY <1>6, <2>1
<1> QED
  BY <1>6, <1>7, <1>8 DEF Totals

\* The statistics of a range as Summarize counts them are the reference's.
LEMMA SummaryIsReference ==
    ASSUME NEW column, NEW a \in Nat, NEW b \in Nat, a <= b,
           \A r \in 0 .. b : column[r] \in Cell
    PROVE  Summarize(column, a, b) = Reference(column, a, b)
<1> DEFINE scan(c) == ScanRange(column, a, c, Empty)
           seen(c) == {column[r] : r \in a .. c}
<1>0. PICK t : Totals(column, t)
  BY TotalLoop
<1>1. t[0] = 0 /\ \A n \in Nat : t[n + 1] = t[n] + column[n]
  BY <1>0 DEF Totals
<1>1a. Reference(column, a, b) =
          [sum   |-> t[b + 1] - t[a], min |-> Min(seen(b)),
           max   |-> Max(seen(b)), count |-> Cardinality(a .. b)]
  BY <1>0 DEF Totals
<1>2. \A n \in 0 .. b + 1 : t[n] \in Int
  <2> DEFINE T == {n \in Nat : n <= b + 1 => t[n] \in Int}
  <2>1. 0 \in T
    BY <1>1
  <2>2. ASSUME NEW n \in Nat, n \in T
        PROVE  n + 1 \in T
    <3> SUFFICES ASSUME n <= b PROVE t[n + 1] \in Int
      OBVIOUS
    <3>1. t[n] \in Int /\ column[n] \in Int /\ t[n + 1] = t[n] + column[n]
      BY <1>1, <2>2 DEF Cell
    <3> QED
      BY <3>1
  <2> HIDE DEF T
  <2>3. Nat \subseteq T
    BY <2>1, <2>2, SetInduction
  <2> QED
    BY <2>3 DEF T
<1> DEFINE Sound(c) ==
              /\ scan(c) \in Stats
              /\ scan(c).sum = t[c + 1] - t[a]
              /\ \A x \in seen(c) : scan(c).min <= x /\ x <= scan(c).max
              /\ scan(c).min \in seen(c) /\ scan(c).max \in seen(c)
           U == {n \in Nat : a + n <= b => Sound(a + n)}
<1>3. ASSUME NEW c \in a .. b
      PROVE  scan(c) = Add(scan(c - 1), column[c]) /\ scan(c) \in Stats /\ column[c] \in Cell
  <2>1. a <= c /\ c \in Int /\ \A r \in a .. c : column[r] \in Cell
    OBVIOUS
  <2> QED
    BY <2>1, ScanSteps, ScanStats, EmptyStats
<1>4. 0 \in U
  <2>1. a \in a .. b /\ a + 0 = a /\ a - 1 \in Int /\ a - 1 < a
    OBVIOUS
  <2>2. scan(a) = Add(Empty, column[a]) /\ scan(a) \in Stats /\ column[a] \in Cell
    <3>1. scan(a - 1) = Empty
      BY <2>1, ScanSteps
    <3> HIDE DEF scan
    <3> QED
      BY <1>3, <2>1, <3>1
  <2>3. seen(a) = {column[a]}
    OBVIOUS
  <2>4. t[a + 1] = t[a] + column[a] /\ t[a] \in Int
    BY <1>1, <1>2
  <2>5. /\ Add(Empty, column[a]).sum = column[a]
        /\ Add(Empty, column[a]).min = column[a] /\ Add(Empty, column[a]).max = column[a]
    BY <2>2, ChunkStatsAssumption DEF Add, Empty, Cell
  <2>6. Sound(a)
    <3> HIDE DEF scan, seen
    <3> QED
      BY <2>2, <2>3, <2>4, <2>5, ChunkStatsAssumption DEF Cell
  <2> HIDE DEF Sound
  <2> QED
    BY <2>1, <2>6
<1>5. ASSUME NEW n \in Nat, n \in U
      PROVE  n + 1 \in U
  <2> SUFFICES ASSUME a + (n + 1) <= b PROVE Sound(a + (n + 1))
    OBVIOUS
  <2> DEFINE c == a + (n + 1)
  <2>1. c \in a .. b /\ a + n <= b /\ c - 1 = a + n /\ c \in Nat /\ c - 1 \in 0 .. b
    OBVIOUS
  <2>2. Sound(c - 1)
    BY <1>5, <2>1
  <2> HIDE DEF c
  <2>3. seen(c) = seen(c - 1) \cup {column[c]}
    <3>1. a .. c = (a .. (c - 1)) \cup {c}
      BY <2>1
    <3> QED
      BY <3>1
  <2>4. t[c + 1] = t[c] + column[c] /\ t[c] \in Int /\ t[a] \in Int /\ (c - 1) + 1 = c
    <3>1. c \in 0 .. b + 1 /\ a \in 0 .. b + 1 /\ c \in Int
      BY <2>1
    <3> QED
      BY <1>1, <1>2, <2>1, <3>1
  <2>5. scan(c) = Add(scan(c - 1), column[c]) /\ scan(c) \in Stats /\ column[c] \in Cell
    BY <1>3, <2>1
  <2>6. seen(c - 1) \subseteq Int
    <3>1. \A r \in a .. (c - 1) : column[r] \in Int
      BY <2>1 DEF Cell
    <3> QED
      BY <3>1
  <2>7. Sound(c)
    <3> HIDE DEF scan, seen
    <3> QED
      BY <2>2, <2>3, <2>4, <2>5, <2>6 DEF Add, Stats, Cell
  <2> QED
    BY <2>7 DEF c
<1> HIDE DEF U
<1>6. Nat \subseteq U
  BY <1>4, <1>5, SetInduction
<1>7. Sound(b)
  <2>1. b - a \in U /\ a + (b - a) = b
    BY <1>6
  <2> HIDE DEF Sound
  <2> QED
    BY <2>1 DEF U
<1>8. seen(b) \in SUBSET Int
  BY DEF Cell
<1>9. Cardinality(a .. b) = RowsIn(a, b)
  BY RangeSize
<1>10. Min(seen(b)) = scan(b).min /\ Max(seen(b)) = scan(b).max
  <2> HIDE DEF seen, scan
  <2>1. \A x \in seen(b) : scan(b).min <= x /\ scan(b).max >= x
    BY <1>7, <1>8 DEF Stats, Cell
  <2> QED
    BY <1>7, <1>8, <2>1, MinOf, MaxOf
<1>11. Summarize(column, a, b) = [scan(b) EXCEPT !.count = RowsIn(a, b)]
  BY DEF Summarize
<1> HIDE DEF scan, seen
<1> QED
  BY <1>1a, <1>7, <1>9, <1>10, <1>11 DEF Stats
-------------------------------------------------------------------------------
(* Rows and chunks. *)

LEMMA MinPair == \A x, y \in Int : Min({x, y}) = IF x <= y THEN x ELSE y
<1> TAKE x, y \in Int
<1> DEFINE m == IF x <= y THEN x ELSE y
<1>1. m \in {x, y} /\ \A z \in {x, y} : m <= z
  OBVIOUS
<1> HIDE DEF m
<1>2. Min({x, y}) = m
  BY <1>1, MinOf
<1> QED
  BY <1>2 DEF m

LEMMA MaxPair == \A x, y \in Int : Max({x, y}) = IF x <= y THEN y ELSE x
<1> TAKE x, y \in Int
<1> DEFINE m == IF x <= y THEN y ELSE x
<1>1. m \in {x, y} /\ \A z \in {x, y} : m >= z
  OBVIOUS
<1> HIDE DEF m
<1>2. Max({x, y}) = m
  BY <1>1, MaxOf
<1> QED
  BY <1>2 DEF m

LEMMA ChunkBounds ==
    \A r \in Nat : /\ ChunkOf(r) \in Nat
                   /\ ChunkStart(ChunkOf(r)) <= r
                   /\ r < ChunkStart(ChunkOf(r)) + ChunkSize
<1>1. ChunkSize \in Nat \ {0}
  BY ChunkStatsAssumption
<1> QED
  BY <1>1, SMTT(60) DEF ChunkOf, ChunkStart

LEMMA ChunkNext ==
    \A c \in Nat : ChunkStart(c) \in Nat /\ ChunkStart(c + 1) = ChunkStart(c) + ChunkSize
<1>1. ChunkSize \in Nat
  BY ChunkStatsAssumption
<1> QED
  BY <1>1, SMTT(60) DEF ChunkStart

LEMMA ChunkUnique ==
    ASSUME NEW r \in Nat, NEW c \in Nat, ChunkStart(c) <= r, r < ChunkStart(c) + ChunkSize
    PROVE  ChunkOf(r) = c
<1>1. ChunkSize \in Nat \ {0}
  BY ChunkStatsAssumption
<1> QED
  BY <1>1, SMTT(60) DEF ChunkOf, ChunkStart

LEMMA ChunkOrder ==
    ASSUME NEW c \in Nat, NEW d \in Nat, c < d
    PROVE  ChunkStart(c) + ChunkSize <= ChunkStart(d)
<1>1. ChunkSize \in Nat
  BY ChunkStatsAssumption
<1>2. PICK k \in Nat : d = c + 1 + k
  <2>1. d - c - 1 \in Nat /\ d = c + 1 + (d - c - 1)
    OBVIOUS
  <2> QED
    BY <2>1
<1>3. (c + 1 + k) * ChunkSize = c * ChunkSize + ChunkSize + k * ChunkSize /\ k * ChunkSize \in Nat
  BY <1>1
<1> QED
  BY <1>1, <1>2, <1>3 DEF ChunkStart

\* The last row of a chunk that has a row.
LEMMA ChunkLastRow ==
    ASSUME NEW c \in Nat, NEW numRows \in Nat, ChunkStart(c) < numRows
    PROVE  /\ ChunkLast(c, numRows) \in Nat
           /\ ChunkStart(c) <= ChunkLast(c, numRows)
           /\ ChunkLast(c, numRows) < numRows
           /\ ChunkLast(c, numRows) < ChunkStart(c) + ChunkSize
           /\ ChunkStart(c) + ChunkSize <= numRows =>
                 ChunkLast(c, numRows) = ChunkStart(c) + ChunkSize - 1
           /\ numRows <= ChunkStart(c) + ChunkSize => ChunkLast(c, numRows) = numRows - 1
<1>1. ChunkSize \in Nat \ {0} /\ ChunkStart(c) \in Nat
  BY ChunkStatsAssumption, ChunkNext
<1>2. Min({ChunkStart(c) + ChunkSize, numRows})
         = IF ChunkStart(c) + ChunkSize <= numRows THEN ChunkStart(c) + ChunkSize ELSE numRows
  BY <1>1, MinPair
<1> QED
  BY <1>1, <1>2 DEF ChunkLast
-------------------------------------------------------------------------------
(* The chunk loop of ComputeStats. *)

FoldTurns(column, recs, first, last, dirty, f) ==
    /\ f[0] = Empty
    /\ \A n \in Nat : f[n + 1] = FoldChunk(column, recs, first, last, dirty,
                                           ChunkOf(first) + n, f[n])
    /\ \A n : FoldChunks(column, recs, first, last, dirty, n) = f[n]

LEMMA FoldLoop ==
    ASSUME NEW column, NEW recs, NEW first \in Nat, NEW last, NEW dirty
    PROVE  \E f : FoldTurns(column, recs, first, last, dirty, f)
<1> DEFINE start == Empty
           step(x, n) == FoldChunk(column, recs, first, last, dirty, ChunkOf(first) + n - 1, x)
           Upto(n, g) == g = [i \in 0 .. n |-> IF i = 0 THEN start ELSE step(g[i - 1], i)]
           pick(n) == CHOOSE g : Upto(n, g)
           f == [n \in Nat |-> pick(n)[n]]
<1> HIDE DEF start, step
<1>1. \A n \in Nat : \E g : Upto(n, g)
  <2> DEFINE T == {n \in Nat : \E g : Upto(n, g)}
  <2>1. 0 \in T
    <3> DEFINE h == [i \in 0 .. 0 |-> start]
    <3>1. Upto(0, h)
      OBVIOUS
    <3> QED
      BY <3>1
  <2>2. ASSUME NEW n \in Nat, n \in T
        PROVE  n + 1 \in T
    <3>1. PICK g : Upto(n, g)
      BY <2>2
    <3> DEFINE h == [i \in 0 .. n + 1 |-> IF i = n + 1 THEN step(g[n], i) ELSE g[i]]
    <3>2. ASSUME NEW i \in 0 .. n + 1
          PROVE  h[i] = IF i = 0 THEN start ELSE step(h[i - 1], i)
      <4>1. CASE i = n + 1
        <5>1. h[i] = step(g[n], i) /\ i - 1 = n /\ h[n] = g[n]
          BY <4>1
        <5> QED
          BY <4>1, <5>1
      <4>2. CASE i # n + 1
        <5>1. i \in 0 .. n /\ h[i] = g[i]
          BY <4>2
        <5>2. g[i] = IF i = 0 THEN start ELSE step(g[i - 1], i)
          BY <3>1, <5>1
        <5>3. i # 0 => h[i - 1] = g[i - 1]
          BY <4>2
        <5> QED
          BY <5>1, <5>2, <5>3
      <4> QED
        BY <4>1, <4>2
    <3>3. h = [i \in 0 .. n + 1 |-> h[i]]
      OBVIOUS
    <3>4. Upto(n + 1, h)
      <4> HIDE DEF h
      <4> QED
        BY <3>2, <3>3
    <3> HIDE DEF h, Upto
    <3> QED
      BY <3>4
  <2> HIDE DEF T, Upto
  <2>3. Nat \subseteq T
    BY <2>1, <2>2, SetInduction
  <2> QED
    BY <2>3 DEF T
<1>2. \A n \in Nat : Upto(n, pick(n))
  <2> HIDE DEF Upto
  <2> QED
    BY <1>1
<1>3. ASSUME NEW n \in Nat
      PROVE  pick(n)[n] = pick(n + 1)[n]
  <2> DEFINE T == {i \in Nat : i <= n => pick(n)[i] = pick(n + 1)[i]}
  <2>0. Upto(n, pick(n)) /\ Upto(n + 1, pick(n + 1))
    <3> HIDE DEF Upto, pick
    <3> QED
      BY <1>2
  <2> HIDE DEF pick
  <2>1. 0 \in T
    BY <2>0
  <2>2. ASSUME NEW i \in Nat, i \in T
        PROVE  i + 1 \in T
    <3> SUFFICES ASSUME i + 1 <= n PROVE pick(n)[i + 1] = pick(n + 1)[i + 1]
      OBVIOUS
    <3>1. i + 1 \in 0 .. n /\ i + 1 \in 0 .. n + 1 /\ i + 1 # 0 /\ (i + 1) - 1 = i
      OBVIOUS
    <3>2. pick(n)[i + 1] = step(pick(n)[i], i + 1)
      BY <2>0, <3>1
    <3>3. pick(n + 1)[i + 1] = step(pick(n + 1)[i], i + 1)
      BY <2>0, <3>1
    <3> QED
      BY <2>2, <3>2, <3>3
  <2> HIDE DEF T
  <2>3. Nat \subseteq T
    BY <2>1, <2>2, SetInduction
  <2> QED
    BY <2>3 DEF T
<1>4. ASSUME NEW n \in Nat
      PROVE  f[n] = IF n = 0 THEN start ELSE step(f[n - 1], n)
  <2>1. Upto(n, pick(n)) /\ f[n] = pick(n)[n] /\ n \in 0 .. n
    <3> HIDE DEF Upto, pick
    <3> QED
      BY <1>2
  <2>2. CASE n = 0
    <3> HIDE DEF pick, f
    <3> QED
      BY <2>1, <2>2
  <2>3. CASE n # 0
    <3>1. PICK m \in Nat : n = m + 1
      BY <2>3
    <3>2. f[m] = pick(m + 1)[m]
      <4> HIDE DEF pick
      <4> QED
        BY <1>3
    <3> HIDE DEF pick, f
    <3> QED
      BY <2>1, <2>3, <3>1, <3>2
  <2> QED
    BY <2>2, <2>3
<1>5. f = [n \in Nat |-> IF n = 0 THEN start ELSE step(f[n - 1], n)]
  <2> HIDE DEF pick
  <2>1. f = [n \in Nat |-> f[n]]
    OBVIOUS
  <2> HIDE DEF f
  <2> QED
    BY <1>4, <2>1
<1> DEFINE fold == CHOOSE g : g = [i \in Nat |->
                    IF i = 0 THEN Empty
                    ELSE FoldChunk(column, recs, first, last, dirty, ChunkOf(first) + i - 1, g[i - 1])]
<1> HIDE DEF f
<1>6. f = [i \in Nat |->
             IF i = 0 THEN Empty
             ELSE FoldChunk(column, recs, first, last, dirty, ChunkOf(first) + i - 1, f[i - 1])]
  BY <1>5 DEF start, step
<1>7. fold = [i \in Nat |->
                IF i = 0 THEN Empty
                ELSE FoldChunk(column, recs, first, last, dirty, ChunkOf(first) + i - 1, fold[i - 1])]
  BY <1>6
<1>8. \A n : FoldChunks(column, recs, first, last, dirty, n) = fold[n]
  BY DEF FoldChunks
<1> HIDE DEF fold
<1>9. ASSUME NEW n \in Nat
      PROVE  fold[n + 1] = FoldChunk(column, recs, first, last, dirty, ChunkOf(first) + n, fold[n])
  <2>1. /\ n + 1 \in Nat /\ n + 1 # 0 /\ (n + 1) - 1 = n
        /\ ChunkOf(first) + (n + 1) - 1 = ChunkOf(first) + n
    BY ChunkBounds
  <2> QED
    BY <1>7, <2>1
<1>10. fold[0] = Empty
  BY <1>7
<1>11. FoldTurns(column, recs, first, last, dirty, fold)
  BY <1>8, <1>9, <1>10, Zenon DEF FoldTurns
<1> HIDE DEF FoldTurns
<1> QED
  BY <1>11

\* What a query needs of the record of chunk c: its count, and unless the chunk
\* is dirty, that it summarises the chunk's rows.
Usable(column, numRows, recs, dirty, c) ==
    /\ c \in DOMAIN recs
    /\ recs[c].count = RowsIn(ChunkStart(c), ChunkLast(c, numRows))
    /\ c \notin dirty => recs[c] = Summarize(column, ChunkStart(c), ChunkLast(c, numRows))

\* What a query of rows first to last needs of the records: all it may read are
\* usable, or there are none.
Serves(column, numRows, recs, dirty, first, last) ==
    recs # NoRecords =>
        \A c \in ChunkOf(first) .. ChunkOf(last) : Usable(column, numRows, recs, dirty, c)

\* One turn: the scan advances over the chunk's part of the range.
LEMMA FoldChunkScans ==
    ASSUME NEW column, NEW numRows \in Nat, NEW recs, NEW dirty,
           NEW first \in Nat, NEW last \in Nat, last < numRows,
           \A r \in 0 .. numRows - 1 : column[r] \in Cell,
           NEW c \in ChunkOf(first) .. ChunkOf(last), Usable(column, numRows, recs, dirty, c),
           NEW acc \in Stats
    PROVE  FoldChunk(column, recs, first, last, dirty, c, acc)
               = ScanRange(column, Max({first, ChunkStart(c)}),
                                   Min({last, ChunkLast(c, numRows)}), acc)
<1> DEFINE s == ChunkStart(c)
           e == ChunkLast(c, numRows)
<1>1. c \in Nat /\ s \in Nat /\ ChunkOf(last) \in Nat /\ ChunkStart(ChunkOf(last)) <= last
  BY ChunkBounds, ChunkNext
<1>2. s <= last
  <2>1. c < ChunkOf(last) => s + ChunkSize <= ChunkStart(ChunkOf(last))
    BY <1>1, ChunkOrder
  <2>2. ChunkSize \in Nat /\ ChunkStart(ChunkOf(last)) \in Nat
    BY <1>1, ChunkStatsAssumption, ChunkNext
  <2> QED
    BY <1>1, <2>1, <2>2
<1>3. e \in Nat /\ s <= e /\ e < numRows
  BY <1>1, <1>2, ChunkLastRow
<1>4. ChunkEnd(c, recs) = e
  BY <1>1, <1>3 DEF Usable, ChunkEnd, RowsIn
<1>5. CASE Indexed(c, recs, first, last, dirty)
  <2>1. first <= s /\ e <= last /\ c \notin dirty
    BY <1>4, <1>5 DEF Indexed
  <2>2. recs[c] = Summarize(column, s, e)
    BY <2>1 DEF Usable
  <2>3. Max({first, s}) = s /\ Min({last, e}) = e
    <3>1. Max({first, s}) = IF first <= s THEN s ELSE first
      BY <1>1, MaxPair
    <3>2. Min({last, e}) = IF last <= e THEN last ELSE e
      BY <1>3, MinPair
    <3> QED
      BY <1>1, <1>3, <2>1, <3>1, <3>2
  <2>4. \A r \in s .. e : column[r] \in Cell
    BY <1>1, <1>3
  <2>5. ScanRange(column, s, e, Empty) \in Stats
    BY <1>1, <1>3, <2>4, ScanStats, EmptyStats
  <2>6. Merge(acc, Summarize(column, s, e)) = Merge(acc, ScanRange(column, s, e, Empty))
    <3> DEFINE whole == ScanRange(column, s, e, Empty)
    <3>1. Summarize(column, s, e) = [whole EXCEPT !.count = RowsIn(s, e)]
      BY DEF Summarize
    <3> HIDE DEF whole
    <3> QED
      BY <2>5, <3>1 DEF Merge, Stats, whole
  <2>7. Merge(acc, ScanRange(column, s, e, Empty)) = ScanRange(column, s, e, acc)
    BY <1>1, <1>3, <2>4, MergeScan
  <2> QED
    BY <1>5, <2>2, <2>3, <2>6, <2>7 DEF FoldChunk
<1>6. CASE ~Indexed(c, recs, first, last, dirty)
  BY <1>4, <1>6 DEF FoldChunk
<1> QED
  BY <1>5, <1>6

(* Whatever the range, the edits and the rows of the last chunk, a query    *)
(* that finds usable records, or none at all, answers what the reference    *)
(* says of the rows asked for.                                              *)
THEOREM ComputeStatsExact ==
    ASSUME NEW column, NEW numRows \in Nat, NEW recs, NEW dirty,
           NEW first \in Nat, NEW last \in Nat, first <= last, last < numRows,
           \A r \in 0 .. numRows - 1 : column[r] \in Cell,
           Serves(column, numRows, recs, dirty, first, last)
    PROVE  ComputeStats(column, recs, first, last, dirty).result
               = Reference(column, first, last)
<1> DEFINE C == ChunkOf(first)
           D == ChunkOf(last)
           touched == (C .. D) \cap DOMAIN recs
           scan(b) == ScanRange(column, first, b, Empty)
           read == IF recs = NoRecords THEN scan(last)
                   ELSE FoldChunks(column, recs, first, last, dirty, Cardinality(touched))
<1>1. /\ C \in Nat /\ ChunkStart(C) \in Nat /\ ChunkStart(C) <= first
      /\ first < ChunkStart(C) + ChunkSize
      /\ D \in Nat /\ ChunkStart(D) \in Nat /\ ChunkStart(D) <= last
      /\ last < ChunkStart(D) + ChunkSize /\ ChunkSize \in Nat \ {0}
  BY ChunkBounds, ChunkNext, ChunkStatsAssumption
<1>2. C <= D
  <2> SUFFICES ASSUME D < C PROVE FALSE
    BY <1>1
  <2>1. ChunkStart(D) + ChunkSize <= ChunkStart(C)
    BY <1>1, ChunkOrder
  <2> QED
    BY <1>1, <2>1
<1>3. ASSUME recs # NoRecords
      PROVE  FoldChunks(column, recs, first, last, dirty, Cardinality(touched)) = scan(last)
  <2>1. \A c \in C .. D : Usable(column, numRows, recs, dirty, c)
    BY <1>3 DEF Serves
  <2>2. Cardinality(touched) = D - C + 1
    <3>1. touched = C .. D
      BY <2>1 DEF Usable
    <3> HIDE DEF C, D, touched
    <3>2. Cardinality(C .. D) = RowsIn(C, D)
      BY <1>1, RangeSize
    <3> QED
      BY <1>1, <1>2, <3>1, <3>2 DEF RowsIn
  <2>3. PICK f : FoldTurns(column, recs, first, last, dirty, f)
    BY FoldLoop
  <2> DEFINE from(n) == Max({first, ChunkStart(C + n)})
             T == {n \in Nat : n <= D - C => f[n] = scan(from(n) - 1)}
  <2>4. \A n \in Nat : /\ ChunkStart(C + n) \in Nat /\ C + n \in Nat
                       /\ from(n) = IF first <= ChunkStart(C + n) THEN ChunkStart(C + n) ELSE first
                       /\ first <= from(n) /\ from(n) \in Nat
    <3> TAKE n \in Nat
    <3>1. C + n \in Nat /\ ChunkStart(C + n) \in Nat
      BY <1>1, ChunkNext
    <3> QED
      BY <3>1, MaxPair
  \* One more turn, from a scan that has reached chunk C + n.
  <2>5. ASSUME NEW n \in 0 .. D - C, f[n] = scan(from(n) - 1)
        PROVE  f[n + 1] = scan(Min({last, ChunkLast(C + n, numRows)}))
    <3> DEFINE to == Min({last, ChunkLast(C + n, numRows)})
    <3>1. C + n \in C .. D /\ C + n \in Nat /\ n \in Nat /\ ChunkOf(first) = C
      BY <1>1
    <3>0. /\ ChunkStart(C + n) \in Nat /\ first <= from(n) /\ from(n) \in Nat
          /\ from(n) = IF first <= ChunkStart(C + n) THEN ChunkStart(C + n) ELSE first
      <4> HIDE DEF from
      <4> QED
        BY <2>4, <3>1
    <3> HIDE DEF from
    <3>2. ChunkStart(C + n) <= last /\ (n # 0 => first < ChunkStart(C + n))
      <4>1. C + n < D => ChunkStart(C + n) + ChunkSize <= ChunkStart(D)
        BY <1>1, <3>1, ChunkOrder
      <4>2. n # 0 => ChunkStart(C) + ChunkSize <= ChunkStart(C + n)
        BY <1>1, <3>1, ChunkOrder
      <4>3. (C + n < D \/ C + n = D) /\ (n = 0 \/ C < C + n)
        BY <1>1, <3>1
      <4>4. ChunkStart(C + n) <= last
        BY <1>1, <3>0, <4>1, <4>3
      <4>5. n # 0 => first < ChunkStart(C + n)
        BY <1>1, <3>0, <4>2
      <4> QED
        BY <4>4, <4>5
    <3>3. /\ ChunkLast(C + n, numRows) \in Nat
          /\ ChunkStart(C + n) <= ChunkLast(C + n, numRows)
          /\ ChunkStart(C + n) + ChunkSize <= numRows =>
                ChunkLast(C + n, numRows) = ChunkStart(C + n) + ChunkSize - 1
          /\ numRows <= ChunkStart(C + n) + ChunkSize => ChunkLast(C + n, numRows) = numRows - 1
      <4>1. ChunkStart(C + n) < numRows
        BY <3>0, <3>2
      <4> QED
        BY <3>1, <4>1, ChunkLastRow
    <3>4. /\ to = IF last <= ChunkLast(C + n, numRows) THEN last ELSE ChunkLast(C + n, numRows)
          /\ to \in Nat
      BY <3>3, MinPair
    <3>5. from(n) - 1 <= to /\ from(n) <= last + 1
      <4>1. first <= to
        <5>1. first <= ChunkLast(C + n, numRows)
          <6>1. CASE n = 0
            <7>1. C + n = C
              BY <1>1, <6>1
            <7> QED
              BY <1>1, <3>3, <7>1
          <6>2. CASE n # 0
            BY <3>0, <3>2, <3>3, <6>2
          <6> QED
            BY <6>1, <6>2
        <5> HIDE DEF to
        <5> QED
          BY <3>3, <3>4, <5>1
      <4> HIDE DEF to, from
      <4> QED
        BY <3>0, <3>1, <3>2, <3>3, <3>4, <4>1
    <3>6. f[n] \in Stats
      <4>1. from(n) - 1 \in Int /\ \A r \in first .. from(n) - 1 : column[r] \in Cell
        BY <3>0, <3>1, <3>5
      <4> HIDE DEF from
      <4> QED
        BY <2>5, <4>1, ScanStats, EmptyStats
    <3>7. f[n + 1] = FoldChunk(column, recs, first, last, dirty, C + n, f[n])
      BY <2>3, <3>1 DEF FoldTurns
    <3>8. f[n + 1] = ScanRange(column, from(n), to, f[n])
      BY <2>1, <3>1, <3>6, <3>7, FoldChunkScans DEF from
    <3>9. ScanRange(column, (from(n) - 1) + 1, to, scan(from(n) - 1)) = scan(to)
      <4>1. from(n) - 1 \in Int /\ to \in Int /\ first <= (from(n) - 1) + 1
        BY <3>0, <3>1, <3>4
      <4> HIDE DEF to, from
      <4> QED
        BY <3>5, <4>1, ScanSplits
    <3>10. (from(n) - 1) + 1 = from(n)
      BY <3>0, <3>1
    <3> HIDE DEF to, from, scan
    <3>11. f[n + 1] = scan(to)
      BY <2>5, <3>8, <3>9, <3>10
    <3> QED
      BY <3>11 DEF to
  <2>6. 0 \in T
    <3>1. from(0) = first
      BY <1>1, <2>4
    <3>2. scan(first - 1) = Empty
      BY ScanSteps
    <3>3. f[0] = Empty
      BY <2>3 DEF FoldTurns
    <3> HIDE DEF from, scan
    <3> QED
      BY <3>1, <3>2, <3>3
  <2>7. ASSUME NEW n \in Nat, n \in T
        PROVE  n + 1 \in T
    <3> SUFFICES ASSUME n + 1 <= D - C PROVE f[n + 1] = scan(from(n + 1) - 1)
      OBVIOUS
    <3>1. n \in 0 .. D - C /\ f[n] = scan(from(n) - 1)
      BY <1>1, <2>7
    <3>2. f[n + 1] = scan(Min({last, ChunkLast(C + n, numRows)}))
      <4> HIDE DEF scan, from
      <4> QED
        BY <2>5, <3>1
    <3>3. /\ ChunkStart(C + (n + 1)) = ChunkStart(C + n) + ChunkSize
          /\ ChunkStart(C + (n + 1)) <= ChunkStart(D)
          /\ ChunkStart(C) + ChunkSize <= ChunkStart(C + (n + 1))
      <4>1. C + n \in Nat /\ C + (n + 1) = (C + n) + 1 /\ C + (n + 1) \in Nat /\ C + (n + 1) <= D
        BY <1>1
      <4>2. C + (n + 1) < D => ChunkStart(C + (n + 1)) + ChunkSize <= ChunkStart(D)
        BY <1>1, <4>1, ChunkOrder
      <4>3. ChunkStart(C) + ChunkSize <= ChunkStart(C + (n + 1))
        BY <1>1, <4>1, ChunkOrder
      <4>4. ChunkStart(C + (n + 1)) \in Nat /\ (C + (n + 1) < D \/ C + (n + 1) = D)
        BY <1>1, <4>1, ChunkNext
      <4> QED
        BY <1>1, <4>1, <4>2, <4>3, <4>4, ChunkNext
    <3>4. from(n + 1) = ChunkStart(C + (n + 1))
      <4>1. n + 1 \in Nat
        OBVIOUS
      <4> HIDE DEF from
      <4> QED
        BY <1>1, <2>4, <3>3, <4>1
    <3>5. ChunkLast(C + n, numRows) = ChunkStart(C + n) + ChunkSize - 1
      <4>1. ChunkStart(C + n) \in Nat /\ C + n \in Nat
        BY <2>4
      <4>2. ChunkStart(C + n) + ChunkSize <= numRows /\ ChunkStart(C + n) < numRows
        BY <1>1, <3>3, <4>1
      <4> QED
        BY <4>1, <4>2, ChunkLastRow
    <3>6. Min({last, ChunkLast(C + n, numRows)}) = from(n + 1) - 1
      <4>0. ChunkStart(C + n) \in Nat
        BY <2>4
      <4>1. /\ ChunkLast(C + n, numRows) \in Int
            /\ ChunkLast(C + n, numRows) = ChunkStart(C + (n + 1)) - 1
            /\ ChunkLast(C + n, numRows) < last
        BY <1>1, <3>3, <3>5, <4>0
      <4> HIDE DEF from
      <4> QED
        BY <3>4, <4>1, MinPair
    <3> HIDE DEF from, scan
    <3> QED
      BY <3>2, <3>6
  <2>8. D - C \in T
    <3> HIDE DEF T
    <3>1. Nat \subseteq T
      BY <2>6, <2>7, SetInduction
    <3> QED
      BY <1>1, <1>2, <3>1
  <2>9. f[(D - C) + 1] = scan(Min({last, ChunkLast(C + (D - C), numRows)}))
    <3>1. D - C \in 0 .. D - C /\ f[D - C] = scan(from(D - C) - 1)
      <4> HIDE DEF from, scan
      <4> QED
        BY <1>1, <1>2, <2>8
    <3> HIDE DEF from, scan
    <3> QED
      BY <2>5, <3>1
  <2>10. Min({last, ChunkLast(D, numRows)}) = last /\ C + (D - C) = D
    <3>1. ChunkLast(D, numRows) \in Nat /\ last <= ChunkLast(D, numRows)
      BY <1>1, ChunkLastRow
    <3> QED
      BY <1>1, <3>1, MinPair
  <2>11. FoldChunks(column, recs, first, last, dirty, D - C + 1) = f[(D - C) + 1]
    BY <2>3 DEF FoldTurns
  <2> HIDE DEF scan, C, D, touched
  <2> QED
    BY <2>2, <2>9, <2>10, <2>11
<1>4. read = scan(last)
  <2> HIDE DEF scan
  <2> QED
    BY <1>3
<1>5. ComputeStats(column, recs, first, last, dirty).result = [read EXCEPT !.count = last - first + 1]
  BY DEF ComputeStats
<1>6. Summarize(column, first, last) = [scan(last) EXCEPT !.count = last - first + 1]
  BY DEF Summarize, RowsIn
<1>7. Summarize(column, first, last) = Reference(column, first, last)
  BY SummaryIsReference
<1> HIDE DEF read, scan
<1> QED
  BY <1>4, <1>5, <1>6, <1>7
===============================================================================

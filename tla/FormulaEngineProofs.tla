--------------------------- MODULE FormulaEngineProofs ---------------------------
(***************************************************************************)
(* What holds of the filtered view and of formulas for every table, every  *)
(* set of values, predicates and syntax trees, and every list of formulas: *)
(* the caches, the view and the grid follow the cells, and the compiler    *)
(* computes what a formula means.  The first half is about FilteredView    *)
(* alone; the second builds on it, by induction over the trees.            *)
(***************************************************************************)
EXTENDS FormulaEngine, FiniteSetTheorems, WellFoundedInduction, TLAPS

-------------------------------------------------------------------------------
(* Listing a set of rows in table order. *)

LEMMA RowsFinite ==
    ASSUME NEW S \in SUBSET Rows
    PROVE  IsFiniteSet(S) /\ Cardinality(S) \in Nat
<1>1. IsFiniteSet(Rows)
  BY FS_Interval, FilteredViewAssumption DEF Rows
<1> QED
  BY <1>1, FS_Subset, FS_CardinalityType

\* How many rows of S come before r.
Rank(S, r) == Cardinality({q \in S : q < r})

\* Ranks number the rows of S from 0, each number once.
LEMMA RankNumbers ==
    ASSUME NEW S \in SUBSET Rows
    PROVE  /\ \A r \in S : Rank(S, r) \in 0 .. Cardinality(S) - 1
           /\ \A r, s \in S : Rank(S, r) = Rank(S, s) => r = s
           /\ \A i \in 1 .. Cardinality(S) : \E r \in S : Rank(S, r) = i - 1
<1> DEFINE below(r) == {q \in S : q < r}
           n    == Cardinality(S)
           rank == [r \in S |-> Cardinality(below(r))]
<1>1. IsFiniteSet(S) /\ n \in Nat
  BY RowsFinite
<1>2. \A r \in S : r \in Int
  BY FilteredViewAssumption DEF Rows
<1>3. ASSUME NEW r \in S
      PROVE  IsFiniteSet(below(r)) /\ Cardinality(below(r)) \in 0 .. n - 1
  <2>1. below(r) \in SUBSET S
    OBVIOUS
  <2>2. IsFiniteSet(below(r)) /\ Cardinality(below(r)) <= n /\ (n = Cardinality(below(r)) => S = below(r))
    BY <1>1, <2>1, FS_Subset
  <2>3. below(r) # S
    BY <1>2
  <2>4. Cardinality(below(r)) \in Nat
    BY <2>2, FS_CardinalityType
  <2> QED
    BY <1>1, <2>2, <2>3, <2>4
<1>4. ASSUME NEW r \in S, NEW s \in S, r < s
      PROVE  rank[r] < rank[s]
  <2>1. below(r) \in SUBSET below(s)
    BY <1>2, <1>4
  <2>2. r \in below(s) /\ r \notin below(r)
    BY <1>2, <1>4
  <2>3. below(r) # below(s)
    BY <2>2
  <2>4. Cardinality(below(r)) <= Cardinality(below(s)) /\ Cardinality(below(s)) # Cardinality(below(r))
    BY <1>3, <2>1, <2>3, FS_Subset
  <2> HIDE DEF below
  <2>5. Cardinality(below(r)) \in Int /\ Cardinality(below(s)) \in Int
    BY <1>1, <1>3
  <2> QED
    BY <2>4, <2>5
<1> HIDE DEF below
<1>5. rank \in [S -> 0 .. n - 1]
  BY <1>3
<1>6. \A r, s \in S : rank[r] = rank[s] => r = s
  <2> SUFFICES ASSUME NEW r \in S, NEW s \in S, rank[r] = rank[s], r # s
               PROVE  FALSE
    OBVIOUS
  <2>1. rank[r] \in Int /\ (r < s \/ s < r)
    BY <1>2, <1>1, <1>5
  <2> QED
    BY <1>1, <1>4, <1>5, <2>1
<1>7. rank \in Injection(S, 0 .. n - 1)
  BY <1>5, <1>6 DEF Injection, IsInjective
<1>8. IsFiniteSet(0 .. n - 1) /\ Cardinality(0 .. n - 1) = n
  BY <1>1, FS_Interval
<1>9. rank \in Surjection(S, 0 .. n - 1)
  BY <1>7, <1>8, FS_Injection
<1>10. \A r \in S : rank[r] = Rank(S, r)
  BY DEF Rank, below
<1>11. ASSUME NEW i \in 1 .. n
       PROVE  \E r \in S : rank[r] = i - 1
  <2>1. i - 1 \in 0 .. n - 1
    BY <1>1
  <2> HIDE DEF rank
  <2> QED
    BY <1>9, <2>1 DEF Surjection
<1> QED
  BY <1>5, <1>6, <1>10, <1>11

\* The list holds the rows of the set and no others.
LEMMA AscendingRows ==
    ASSUME NEW S \in SUBSET Rows
    PROVE  /\ Ascending(S) \in Seq(Rows)
           /\ Len(Ascending(S)) = Cardinality(S)
           /\ \A r \in Rows : r \in S <=> \E i \in 1 .. Len(Ascending(S)) : Ascending(S)[i] = r
<1> DEFINE n == Cardinality(S)
<1>1. n \in Nat
  BY RowsFinite
<1>2. \A i \in 1 .. n : \E r \in S : Rank(S, r) = i - 1
  BY RankNumbers
<1>3. Ascending(S) = [i \in 1 .. n |-> CHOOSE r \in S : Rank(S, r) = i - 1]
  BY DEF Ascending, Rank
<1>4. \A i \in 1 .. n : Ascending(S)[i] \in S /\ Rank(S, Ascending(S)[i]) = i - 1
  BY <1>2, <1>3
<1>5. Ascending(S) \in [1 .. n -> Rows]
  BY <1>3, <1>4
<1>6. Ascending(S) \in Seq(Rows) /\ Len(Ascending(S)) = n
  BY <1>1, <1>5
<1>7. ASSUME NEW r \in S
      PROVE  \E i \in 1 .. n : Ascending(S)[i] = r
  <2>1. Rank(S, r) \in 0 .. n - 1
    BY RankNumbers
  <2>2. Rank(S, r) + 1 \in 1 .. n /\ (Rank(S, r) + 1) - 1 = Rank(S, r)
    BY <1>1, <2>1
  <2>3. /\ Ascending(S)[Rank(S, r) + 1] \in S
        /\ Rank(S, Ascending(S)[Rank(S, r) + 1]) = Rank(S, r)
    BY <1>4, <2>2
  <2>4. \A s \in S : Rank(S, s) = Rank(S, r) => s = r
    BY RankNumbers
  <2> QED
    BY <2>2, <2>3, <2>4
<1> QED
  BY <1>4, <1>6, <1>7
-------------------------------------------------------------------------------
(* What the operators of the view return. *)

\* The types of the view, whatever the formulas of the derived columns are.
IsSequence(s) == \E S : s \in Seq(S)

ViewTypes ==
    /\ cells \in [Rows -> [BaseCols -> Values]]
    /\ IsSequence(derived)
    /\ Len(derived) <= MaxDerived
    /\ DOMAIN columnFilters \subseteq Columns
    /\ columnFilters \in [DOMAIN columnFilters -> Predicates]
    /\ DOMAIN filterBits = DOMAIN columnFilters
    /\ filterBits \in [DOMAIN filterBits -> SUBSET Rows]
    /\ filterActive \in BOOLEAN
    /\ filteredRows \in Seq(Rows)
    /\ filteringEnabled \in BOOLEAN
    /\ gridRows \in Int
    /\ gridCols \in Int

\* The inductive invariant: what an edit recomputes is exact only if what it
\* keeps was, and the announced delta is right only if the grid was in sync.
Inv == ViewTypes /\ CacheExact /\ ViewExact /\ GridInSync /\ NoHiddenFilters

LEMMA AppendSequence ==
    ASSUME NEW s, IsSequence(s), NEW x
    PROVE  /\ Len(s) \in Nat /\ DOMAIN s = 1 .. Len(s)
           /\ IsSequence(Append(s, x)) /\ Len(Append(s, x)) = Len(s) + 1
           /\ \A i \in 1 .. Len(s) : Append(s, x)[i] = s[i]
           /\ Append(s, x)[Len(s) + 1] = x
<1>1. PICK S : s \in Seq(S)
  BY DEF IsSequence
<1> DEFINE T == S \cup {x}
<1>2. s \in Seq(T) /\ x \in T
  BY <1>1
<1> HIDE DEF T
<1>3. Append(s, x) \in Seq(T)
  BY <1>2
<1> QED
  BY <1>2, <1>3 DEF IsSequence

\* A predicate finds the same rows after a formula is added.
LEMMA AppendKeepsValues ==
    ASSUME NEW c \in Columns, NEW f, NEW rowCells, IsSequence(derived)
    PROVE  ValueIn(rowCells, Append(derived, f), c) = ValueIn(rowCells, derived, c)
<1>1. CASE c \in BaseCols
  BY <1>1 DEF ValueIn
<1>2. CASE c \notin BaseCols
  <2>1. c - NumBaseCols + 1 \in 1 .. Len(derived)
    BY <1>2, AppendSequence, FilteredViewAssumption DEF BaseCols, Columns, NumCols
  <2> QED
    BY <1>2, <2>1, AppendSequence DEF ValueIn
<1> QED
  BY <1>1, <1>2

LEMMA VisibleNat ==
    ASSUME ViewTypes
    PROVE  VisibleRows \in Nat
  BY FilteredViewAssumption DEF ViewTypes, VisibleRows

\* A view row has an underlying row.
LEMMA UnderlyingType ==
    ASSUME ViewTypes, NEW viewRow \in Rows, viewRow < VisibleRows
    PROVE  UnderlyingRow(viewRow) \in Rows
<1>1. viewRow \in Nat
  BY FilteredViewAssumption DEF Rows
<1>2. CASE filterActive
  <2>1. viewRow + 1 \in 1 .. Len(filteredRows)
    BY <1>1, <1>2 DEF VisibleRows, ViewTypes
  <2> QED
    BY <1>2, <2>1 DEF UnderlyingRow, ViewTypes
<1>3. CASE ~filterActive
  BY <1>3 DEF UnderlyingRow
<1> QED
  BY <1>2, <1>3

\* What a rebuild leaves, whatever changed before it.
LEMMA RebuildFacts ==
    ASSUME ViewTypes, GridInSync, Rebuild,
           DOMAIN filterBits' = DOMAIN columnFilters',
           \A c \in DOMAIN columnFilters' :
               filterBits'[c] = EvalFilter(cells', derived', c, columnFilters'[c])
    PROVE  /\ filterActive' \in BOOLEAN
           /\ filteredRows' \in Seq(Rows)
           /\ gridRows' = VisibleRows' /\ gridRows' \in Int
           /\ ViewExact'
<1> DEFINE passing == {r \in Rows : \A c \in DOMAIN filterBits' : r \in filterBits'[c]}
<1>1. passing = Matching'
  BY DEF Matching, EvalFilter
<1>2. Ascending(passing) \in Seq(Rows)
  BY AscendingRows
<1>3. filterActive' \in BOOLEAN /\ filteredRows' \in Seq(Rows)
  <2>1. << >> \in Seq(Rows)
    OBVIOUS
  <2> QED
    BY <1>2, <2>1 DEF Rebuild
<1>4. VisibleRows \in Nat /\ VisibleRows' \in Nat
  BY <1>3, VisibleNat, FilteredViewAssumption DEF VisibleRows
<1>5. gridRows' = VisibleRows' /\ gridRows' \in Int
  <2>1. gridRows = VisibleRows
    BY DEF GridInSync
  <2>2. gridRows' = gridRows + (VisibleRows' - VisibleRows)
    BY DEF Rebuild
  <2>3. \A m, n \in Nat : m + (n - m) = n /\ n \in Int
    OBVIOUS
  <2>4. VisibleRows + (VisibleRows' - VisibleRows) = VisibleRows' /\ VisibleRows' \in Int
    BY <1>4, <2>3
  <2> QED
    BY <2>1, <2>2, <2>4
<1>6. ViewExact'
  BY <1>1 DEF Rebuild, ViewExact
<1> QED
  BY <1>3, <1>5, <1>6
-------------------------------------------------------------------------------
(* The invariant. *)

LEMMA InitInv == Init => Inv
<1> SUFFICES ASSUME Init
             PROVE  Inv
  OBVIOUS
<1>1. /\ columnFilters \in [{} -> Predicates] /\ filterBits \in [{} -> SUBSET Rows]
      /\ DOMAIN columnFilters = {} /\ DOMAIN filterBits = {}
  BY DEF Init
<1>2. IsSequence(derived) /\ Len(derived) = 0 /\ filteredRows \in Seq(Rows)
  <2>1. derived = << >> /\ << >> \in Seq({}) /\ filteredRows = << >>
    BY DEF Init
  <2> QED
    BY <2>1 DEF IsSequence
<1>3. ViewTypes
  <2>1. /\ Len(derived) <= MaxDerived
        /\ NumRows \in Int /\ NumBaseCols \in Int
    BY <1>2, FilteredViewAssumption
  <2>2. /\ DOMAIN columnFilters \subseteq Columns
        /\ columnFilters \in [DOMAIN columnFilters -> Predicates]
        /\ DOMAIN filterBits = DOMAIN columnFilters
        /\ filterBits \in [DOMAIN filterBits -> SUBSET Rows]
    BY <1>1
  <2> QED
    BY <1>2, <2>1, <2>2 DEF Init, ViewTypes
<1>4. GridInSync
  BY <1>2, FilteredViewAssumption DEF Init, GridInSync, VisibleRows, NumCols
<1> QED
  BY <1>1, <1>3, <1>4 DEF Init, Inv, CacheExact, ViewExact, NoHiddenFilters

\* Changing the predicates and their cached sets together, then rebuilding.
LEMMA FiltersChanged ==
    ASSUME Inv, Rebuild,
           UNCHANGED <<cells, derived, gridCols>>, filteringEnabled' \in BOOLEAN,
           DOMAIN columnFilters' \subseteq Columns,
           columnFilters' \in [DOMAIN columnFilters' -> Predicates],
           DOMAIN filterBits' = DOMAIN columnFilters',
           filterBits' \in [DOMAIN filterBits' -> SUBSET Rows],
           \A c \in DOMAIN columnFilters' :
               filterBits'[c] = EvalFilter(cells, derived, c, columnFilters'[c]),
           ~filteringEnabled' => DOMAIN columnFilters' = {}
    PROVE  Inv'
<1>1. /\ filterActive' \in BOOLEAN
      /\ filteredRows' \in Seq(Rows)
      /\ gridRows' = VisibleRows' /\ gridRows' \in Int
      /\ ViewExact'
  BY RebuildFacts DEF Inv
<1>2. Columns' = Columns /\ NumCols' = NumCols
  BY DEF Columns, NumCols
<1>3. ViewTypes'
  BY <1>1, <1>2 DEF Inv, ViewTypes
<1>4. CacheExact'
  BY DEF CacheExact
<1>5. GridInSync'
  BY <1>1, <1>2 DEF Inv, GridInSync
<1>6. NoHiddenFilters'
  BY <1>1 DEF ViewExact, NoHiddenFilters
<1> QED
  BY <1>1, <1>3, <1>4, <1>5, <1>6 DEF Inv

LEMMA SetColumnFilterInv ==
    ASSUME Inv, NEW c \in AllCols, NEW f \in Predicates, SetColumnFilter(c, f)
    PROVE  Inv'
<1> DEFINE bits == EvalFilter(cells, derived, c, f)
<1>1. /\ columnFilters' = [d \in DOMAIN columnFilters \cup {c} |-> IF d = c THEN f ELSE columnFilters[d]]
      /\ filterBits' = [d \in DOMAIN filterBits \cup {c} |-> IF d = c THEN bits ELSE filterBits[d]]
  BY DEF SetColumnFilter, With
<1>2. bits \in SUBSET Rows
  BY DEF EvalFilter
<1>3. Rebuild /\ UNCHANGED <<cells, derived, gridCols>> /\ filteringEnabled' = TRUE /\ c \in Columns
  BY DEF SetColumnFilter, Inv, ViewTypes
<1>4. /\ DOMAIN columnFilters' \subseteq Columns
      /\ columnFilters' \in [DOMAIN columnFilters' -> Predicates]
      /\ DOMAIN filterBits' = DOMAIN columnFilters'
      /\ filterBits' \in [DOMAIN filterBits' -> SUBSET Rows]
  BY <1>1, <1>2, <1>3 DEF Inv, ViewTypes
<1>5. \A d \in DOMAIN columnFilters' :
          filterBits'[d] = EvalFilter(cells, derived, d, columnFilters'[d])
  BY <1>1 DEF Inv, CacheExact, ViewTypes
<1> QED
  BY <1>3, <1>4, <1>5, FiltersChanged

LEMMA ClearColumnFilterInv ==
    ASSUME Inv, NEW c \in AllCols, ClearColumnFilter(c)
    PROVE  Inv'
<1>1. /\ columnFilters' = [d \in DOMAIN columnFilters \ {c} |-> columnFilters[d]]
      /\ filterBits' = [d \in DOMAIN filterBits \ {c} |-> filterBits[d]]
  BY DEF ClearColumnFilter, Without, Restrict
<1>2. Rebuild /\ UNCHANGED <<cells, derived, gridCols>> /\ filteringEnabled' = TRUE
  BY DEF ClearColumnFilter, Inv, ViewTypes
<1>3. /\ DOMAIN columnFilters' \subseteq Columns
      /\ columnFilters' \in [DOMAIN columnFilters' -> Predicates]
      /\ DOMAIN filterBits' = DOMAIN columnFilters'
      /\ filterBits' \in [DOMAIN filterBits' -> SUBSET Rows]
  BY <1>1 DEF Inv, ViewTypes
<1>4. \A d \in DOMAIN columnFilters' :
          filterBits'[d] = EvalFilter(cells, derived, d, columnFilters'[d])
  BY <1>1 DEF Inv, CacheExact, ViewTypes
<1> QED
  BY <1>2, <1>3, <1>4, FiltersChanged

LEMMA ClearFiltersInv ==
    ASSUME Inv, ClearFilters, UNCHANGED <<cells, derived, gridCols>>, filteringEnabled' \in BOOLEAN
    PROVE  Inv'
<1>1. CASE DOMAIN columnFilters = {}
  <2>1. UNCHANGED <<cells, derived, columnFilters, filterBits, filterActive, filteredRows,
                    gridRows, gridCols>>
    BY <1>1 DEF ClearFilters, view
  <2>2. ViewTypes' /\ CacheExact' /\ ViewExact' /\ GridInSync'
    BY <2>1 DEF Inv, ViewTypes, CacheExact, ViewExact, Matching, GridInSync, VisibleRows, NumCols, Columns
  <2>3. NoHiddenFilters'
    BY <1>1, <2>1 DEF Inv, ViewExact, NoHiddenFilters
  <2> QED
    BY <2>2, <2>3 DEF Inv
<1>2. CASE DOMAIN columnFilters # {}
  <2>1. columnFilters' = << >> /\ filterBits' = << >> /\ Rebuild
    BY <1>2 DEF ClearFilters
  <2>2. /\ columnFilters' \in [{} -> Predicates] /\ filterBits' \in [{} -> SUBSET Rows]
        /\ DOMAIN columnFilters' = {} /\ DOMAIN filterBits' = {}
    BY <2>1
  <2> QED
    BY <2>1, <2>2, FiltersChanged
<1> QED
  BY <1>1, <1>2

LEMMA ToggleFilteringInv ==
    ASSUME Inv, ToggleFiltering
    PROVE  Inv'
<1>1. UNCHANGED <<cells, derived, gridCols>> /\ filteringEnabled' \in BOOLEAN
      /\ filteringEnabled' = ~filteringEnabled
  BY DEF ToggleFiltering
<1>2. CASE filteringEnabled
  BY <1>1, <1>2, ClearFiltersInv DEF ToggleFiltering
<1>3. CASE ~filteringEnabled
  <2>1. UNCHANGED <<columnFilters, filterBits, filterActive, filteredRows, gridRows>>
    BY <1>3 DEF ToggleFiltering, view
  <2>2. ViewTypes' /\ CacheExact' /\ ViewExact' /\ GridInSync'
    BY <1>1, <2>1
    DEF Inv, ViewTypes, CacheExact, ViewExact, Matching, GridInSync, VisibleRows, NumCols, Columns
  <2>3. NoHiddenFilters'
    BY <1>1, <1>3, <2>1 DEF Inv, ViewTypes, NoHiddenFilters
  <2> QED
    BY <2>2, <2>3 DEF Inv
<1> QED
  BY <1>2, <1>3

LEMMA EditCellInv ==
    ASSUME Inv, NEW viewRow \in Rows, NEW c \in BaseCols, NEW v \in Values, EditCell(viewRow, c, v)
    PROVE  Inv'
<1> DEFINE row == UnderlyingRow(viewRow)
<1>1. row \in Rows
  BY UnderlyingType DEF Inv, EditCell
<1>2. /\ cells' = [cells EXCEPT ![row][c] = v]
      /\ UNCHANGED <<columnFilters, derived, filteringEnabled, gridCols>>
      /\ RecomputeFiltersAfterEdit(c)
  BY DEF EditCell
<1> HIDE DEF row
<1>3. cells' \in [Rows -> [BaseCols -> Values]]
  BY <1>1, <1>2 DEF Inv, ViewTypes
<1>4. NumCols' = NumCols /\ Columns' = Columns
  BY <1>2 DEF NumCols, Columns
<1>5. NumRows # 0
  BY <1>1, FilteredViewAssumption DEF Rows
<1>6. CASE ~filterActive
  <2>1. UNCHANGED <<filterBits, filterActive, filteredRows, gridRows>>
    BY <1>2, <1>6 DEF RecomputeFiltersAfterEdit, view
  <2>2. DOMAIN columnFilters = {}
    BY <1>5, <1>6 DEF Inv, ViewExact
  <2>3. ViewTypes'
    BY <1>2, <1>3, <1>4, <2>1 DEF Inv, ViewTypes
  <2>4. CacheExact' /\ ViewExact' /\ NoHiddenFilters'
    BY <1>2, <1>6, <2>1, <2>2 DEF CacheExact, ViewExact, NoHiddenFilters
  <2>5. GridInSync'
    BY <1>2, <1>4, <2>1 DEF Inv, GridInSync, VisibleRows
  <2> QED
    BY <2>3, <2>4, <2>5 DEF Inv
<1>7. CASE filterActive
  <2>1. /\ filterBits' = [d \in DOMAIN filterBits |->
                             IF d = c \/ d >= NumBaseCols
                             THEN EvalFilter(cells', derived, d, columnFilters[d])
                             ELSE filterBits[d]]
        /\ Rebuild
    BY <1>2, <1>7 DEF RecomputeFiltersAfterEdit
  <2>2. DOMAIN filterBits = DOMAIN columnFilters /\ DOMAIN columnFilters \subseteq Columns
    BY DEF Inv, ViewTypes
  <2>3. ASSUME NEW d \in DOMAIN columnFilters
        PROVE  filterBits'[d] = EvalFilter(cells', derived, d, columnFilters[d])
    <3>1. CASE d = c \/ d >= NumBaseCols
      BY <2>1, <2>2, <3>1
    <3>2. CASE ~(d = c \/ d >= NumBaseCols)
      <4>1. d \in BaseCols /\ d # c
        BY <2>2, <3>2, FilteredViewAssumption DEF Columns, NumCols, BaseCols
      <4>2. \A r \in Rows : ValueIn(cells'[r], derived, d) = ValueIn(cells[r], derived, d)
        <5>1. \A r \in Rows : cells'[r][d] = cells[r][d]
          BY <1>1, <1>2, <4>1 DEF Inv, ViewTypes
        <5> QED
          BY <4>1, <5>1 DEF ValueIn
      <4>3. EvalFilter(cells', derived, d, columnFilters[d]) = EvalFilter(cells, derived, d, columnFilters[d])
        BY <4>2 DEF EvalFilter
      <4> QED
        BY <2>1, <2>2, <3>2, <4>3 DEF Inv, CacheExact
    <3> QED
      BY <3>1, <3>2
  <2>4. /\ DOMAIN filterBits' = DOMAIN columnFilters'
        /\ \A d \in DOMAIN columnFilters' :
              filterBits'[d] = EvalFilter(cells', derived', d, columnFilters'[d])
    BY <1>2, <2>1, <2>2, <2>3
  <2>5. /\ filterActive' \in BOOLEAN
        /\ filteredRows' \in Seq(Rows)
        /\ gridRows' = VisibleRows' /\ gridRows' \in Int
        /\ ViewExact'
    BY <2>1, <2>4, RebuildFacts DEF Inv
  <2>6. filterBits' \in [DOMAIN filterBits' -> SUBSET Rows]
    BY <2>1 DEF Inv, ViewTypes, EvalFilter
  <2>7. ViewTypes'
    BY <1>2, <1>3, <1>4, <2>4, <2>5, <2>6 DEF Inv, ViewTypes
  <2>8. CacheExact'
    BY <2>4 DEF CacheExact
  <2>9. GridInSync'
    BY <1>2, <1>4, <2>5 DEF Inv, GridInSync
  <2>10. NoHiddenFilters'
    BY <1>2, <1>7, <2>5 DEF Inv, NoHiddenFilters, ViewExact
  <2> QED
    BY <2>5, <2>7, <2>8, <2>9, <2>10 DEF Inv
<1> QED
  BY <1>6, <1>7 DEF Inv, ViewTypes

\* What a new column leaves alone: nobody's values change.
LEMMA AddedColumn ==
    ASSUME ViewTypes, NEW f, AddDerivedColumn(f)
    PROVE  \A rowCells : \A c \in DOMAIN columnFilters :
               ValueIn(rowCells, derived', c) = ValueIn(rowCells, derived, c)
<1>1. IsSequence(derived) /\ derived' = Append(derived, f) /\ DOMAIN columnFilters \subseteq Columns
  BY DEF AddDerivedColumn, ViewTypes
<1> QED
  BY <1>1, AppendKeepsValues

LEMMA AddDerivedColumnInv ==
    ASSUME Inv, NEW f, AddDerivedColumn(f)
    PROVE  Inv'
<1>1. /\ UNCHANGED <<cells, columnFilters, filterBits, filterActive, filteredRows,
                      filteringEnabled, gridRows>>
      /\ gridCols' = gridCols + 1
      /\ derived' = Append(derived, f)
      /\ Len(derived) < MaxDerived
  BY DEF AddDerivedColumn, view
<1>2. IsSequence(derived') /\ Len(derived') = Len(derived) + 1 /\ Len(derived) \in Nat
  BY <1>1, AppendSequence DEF Inv, ViewTypes
<1>3. NumCols' = NumCols + 1 /\ NumCols \in Nat /\ Columns \subseteq Columns'
  BY <1>2, FilteredViewAssumption DEF NumCols, Columns
<1>4. Len(derived') <= MaxDerived
  BY <1>1, <1>2, FilteredViewAssumption
<1>5. ViewTypes'
  BY <1>1, <1>2, <1>3, <1>4 DEF Inv, ViewTypes
<1>6. \A rowCells : \A c \in DOMAIN columnFilters :
          ValueIn(rowCells, derived', c) = ValueIn(rowCells, derived, c)
  BY AddedColumn DEF Inv
<1>7. \A c \in DOMAIN columnFilters :
          EvalFilter(cells, derived', c, columnFilters[c]) = EvalFilter(cells, derived, c, columnFilters[c])
  BY <1>6 DEF EvalFilter
<1>8. CacheExact'
  BY <1>1, <1>7 DEF Inv, CacheExact
<1>9. Matching' = Matching
  BY <1>1, <1>6 DEF Matching
<1>10. ViewExact' /\ NoHiddenFilters'
  BY <1>1, <1>9 DEF Inv, ViewExact, NoHiddenFilters
<1>11. GridInSync'
  BY <1>1, <1>3 DEF Inv, GridInSync, VisibleRows
<1> QED
  BY <1>5, <1>8, <1>10, <1>11 DEF Inv

LEMMA NextInv == Inv /\ [Next]_vars => Inv'
<1> SUFFICES ASSUME Inv, [Next]_vars
             PROVE  Inv'
  OBVIOUS
<1>1. ASSUME NEW c \in AllCols, NEW f \in Predicates, SetColumnFilter(c, f)
      PROVE  Inv'
  BY <1>1, SetColumnFilterInv
<1>2. ASSUME NEW c \in AllCols, ClearColumnFilter(c)
      PROVE  Inv'
  BY <1>2, ClearColumnFilterInv
<1>3. CASE ClearAllFilters
  BY <1>3, ClearFiltersInv DEF ClearAllFilters, Inv, ViewTypes
<1>4. CASE ToggleFiltering
  BY <1>4, ToggleFilteringInv
<1>5. ASSUME NEW viewRow \in Rows, NEW c \in BaseCols, NEW v \in Values, EditCell(viewRow, c, v)
      PROVE  Inv'
  BY <1>5, EditCellInv
<1>6. ASSUME NEW f \in Formulas, AddDerivedColumn(f)
      PROVE  Inv'
  BY <1>6, AddDerivedColumnInv
<1>7. CASE UNCHANGED vars
  <2>1. UNCHANGED <<cells, derived, columnFilters, filterBits, filterActive, filteredRows,
                    filteringEnabled, gridRows, gridCols>>
    BY <1>7 DEF vars
  <2> QED
    BY <2>1 DEF Inv, ViewTypes, CacheExact, ViewExact, Matching, GridInSync, NoHiddenFilters,
                VisibleRows, NumCols, Columns
<1> QED
  BY <1>1, <1>2, <1>3, <1>4, <1>5, <1>6, <1>7 DEF Next

LEMMA InvAlways == Spec => []Inv
  BY InitInv, NextInv, PTL DEF Spec
-------------------------------------------------------------------------------
(* Type correctness: predicates and cached sets are on columns there are, and *)
(* the view lists rows of the table.                                          *)
THEOREM TypesKept == Spec => []TypeOK
<1> DEFINE D == derived \in Seq(Formulas)
<1>1. Init => D
  BY DEF Init
<1>2. D /\ [Next]_vars => D'
  <2> SUFFICES ASSUME D, [Next]_vars
               PROVE  D'
    OBVIOUS
  <2>1. CASE \E f \in Formulas : AddDerivedColumn(f)
    BY <2>1 DEF AddDerivedColumn
  <2>2. CASE ~\E f \in Formulas : AddDerivedColumn(f)
    BY <2>2 DEF Next, vars, SetColumnFilter, ClearColumnFilter, ClearAllFilters, ToggleFiltering, EditCell
  <2> QED
    BY <2>1, <2>2
<1>3. Inv /\ D => TypeOK
  BY DEF Inv, ViewTypes, TypeOK
<1> HIDE DEF D
<1> QED
  BY <1>1, <1>2, <1>3, InvAlways, PTL DEF Spec

(* Re-evaluating only the predicates an edit can affect keeps every cached    *)
(* set exact (RecomputeFiltersAfterEdit).                                     *)
THEOREM CachesStayExact == Spec => []CacheExact
<1>1. Inv => CacheExact
  BY DEF Inv
<1> QED
  BY <1>1, InvAlways, PTL

(* The view lists exactly the matching rows, in table order.                  *)
THEOREM ViewStaysExact == Spec => []ViewExact
<1>1. Inv => ViewExact
  BY DEF Inv
<1> QED
  BY <1>1, InvAlways, PTL

(* The grid's own counts, moved only by announced deltas, never drift.        *)
THEOREM GridStaysInSync == Spec => []GridInSync
<1>1. Inv => GridInSync
  BY DEF Inv
<1> QED
  BY <1>1, InvAlways, PTL

(* Outside filtering mode no row is hidden.                                   *)
THEOREM NothingHiddenUnmarked == Spec => []NoHiddenFilters
<1>1. Inv => NoHiddenFilters
  BY DEF Inv
<1> QED
  BY <1>1, InvAlways, PTL
-------------------------------------------------------------------------------
(* A row is shown exactly if no predicate hides it. *)
LEMMA ShownIsMatching ==
    Inv => \A r \in Rows : Shows(r) <=> (filterActive => r \in Matching)
<1> SUFFICES ASSUME Inv, NEW r \in Rows
             PROVE  Shows(r) <=> (filterActive => r \in Matching)
  OBVIOUS
<1>1. Matching \in SUBSET Rows
  BY DEF Matching
<1>2. filterActive => filteredRows = Ascending(Matching)
  BY DEF Inv, ViewExact
<1>3. r \in Matching <=> \E i \in 1 .. Len(Ascending(Matching)) : Ascending(Matching)[i] = r
  BY <1>1, AscendingRows
<1> QED
  BY <1>2, <1>3 DEF Shows

\* No step changes a formula that a predicate reads: columns are only added.
ColumnsKept == derived' = derived \/ \E f : AddDerivedColumn(f)

LEMMA FormulasKept ==
    ASSUME Inv, ColumnsKept, NEW c \in DOMAIN columnFilters, NEW rowCells
    PROVE  ValueIn(rowCells, derived', c) = ValueIn(rowCells, derived, c)
<1>1. CASE derived' = derived
  BY <1>1
<1>2. CASE \E f : AddDerivedColumn(f)
  BY <1>2, AddedColumn DEF Inv
<1> QED
  BY <1>1, <1>2 DEF ColumnsKept

LEMMA NextKeepsColumns == [Next]_vars => ColumnsKept
  BY DEF Next, vars, ColumnsKept, SetColumnFilter, ClearColumnFilter, ClearAllFilters,
         ToggleFiltering, EditCell

LEMMA RowsStay ==
    ASSUME Inv, Inv', ColumnsKept, NEW r \in Rows,
           columnFilters' = columnFilters, cells'[r] = cells[r]
    PROVE  Shows(r) <=> Shows(r)'
<1>1. filterActive' <=> filterActive
  BY DEF Inv, ViewExact
<1>2. r \in Matching' <=> r \in Matching
  BY FormulasKept DEF Matching
<1>3. Shows(r) <=> (filterActive => r \in Matching)
  BY ShownIsMatching
<1>4. Shows(r)' <=> (filterActive' => r \in Matching')
  <2>1. Matching' \in SUBSET Rows
    BY DEF Matching
  <2>2. filterActive' => filteredRows' = Ascending(Matching')
    BY DEF Inv, ViewExact
  <2>3. r \in Matching' <=> \E i \in 1 .. Len(Ascending(Matching')) : Ascending(Matching')[i] = r
    BY <2>1, AscendingRows
  <2> QED
    BY <2>2, <2>3 DEF Shows
<1> QED
  BY <1>1, <1>2, <1>3, <1>4

(* A row enters or leaves the view only with its own cells or with the        *)
(* predicates: never through an edit elsewhere, a new column or a mode.       *)
THEOREM OthersNeverMove == Spec => OnlyEditedRowsMove
<1>1. Inv /\ Inv' /\ [Next]_vars =>
          [\A r \in Rows : columnFilters' = columnFilters /\ cells'[r] = cells[r]
                              => (Shows(r) <=> Shows(r)')]_vars
  BY RowsStay, NextKeepsColumns
<1> QED
  BY <1>1, InvAlways, PTL DEF Spec, OnlyEditedRowsMove
-------------------------------------------------------------------------------
(* Induction over the trees. *)

\* A nonempty set of naturals has a least element.
LEMMA LeastNatural ==
    ASSUME NEW S \in SUBSET Nat, S # {}
    PROVE  \E m \in S : \A n \in S : m <= n
<1> DEFINE R == OpToRel(<, Nat)
<1>1. \A m, n \in Nat : <<m, n>> \in R <=> m < n
  BY DEF OpToRel
<1>2. IsWellFoundedOn(R, Nat)
  BY NatLessThanWellFounded
<1> HIDE DEF R
<1>3. PICK m \in S : \A n \in S : ~ (<<n, m>> \in R)
  BY <1>2, WFMin
<1>4. \A n \in S : m <= n
  <2> SUFFICES ASSUME NEW n \in S PROVE m <= n
    OBVIOUS
  <2>1. m \in Nat /\ n \in Nat
    OBVIOUS
  <2>2. ~ (<<n, m>> \in R)
    BY <1>3
  <2>3. ~ (n < m)
    BY <1>1, <2>1, <2>2
  <2> QED
    BY <2>1, <2>3
<1> QED
  BY <1>4

\* Arguments are trees, and lower ones.
LEMMA ArgumentsLower ==
    ASSUME NEW n \in Nodes
    PROVE  /\ Height[n] \in Nat
           /\ \A i \in DOMAIN n.args : n.args[i] \in Nodes /\ Height[n.args[i]] < Height[n]
  BY NodesAssumption

\* A set of trees that holds a tree whenever it holds its arguments holds all.
LEMMA TreeInduction ==
    ASSUME NEW S,
           \A n \in Nodes : (\A i \in DOMAIN n.args : n.args[i] \in S) => n \in S
    PROVE  Nodes \subseteq S
<1> SUFFICES ASSUME NEW k \in Nodes, k \notin S PROVE FALSE
  OBVIOUS
<1> DEFINE H == {Height[n] : n \in Nodes \ S}
<1>1. H \in SUBSET Nat /\ H # {}
  BY ArgumentsLower
<1> HIDE DEF H
<1>2. PICK m \in H : \A h \in H : m <= h
  BY <1>1, LeastNatural
<1>3. PICK n \in Nodes \ S : Height[n] = m
  BY DEF H
<1>4. ASSUME NEW i \in DOMAIN n.args
      PROVE  n.args[i] \in S
  <2> SUFFICES ASSUME n.args[i] \notin S PROVE FALSE
    OBVIOUS
  <2>1. n.args[i] \in Nodes /\ Height[n.args[i]] < Height[n]
    BY ArgumentsLower
  <2>2. Height[n.args[i]] \in H
    BY <2>1 DEF H
  <2>3. m <= Height[n.args[i]]
    BY <1>2, <2>2
  <2>4. Height[n] \in Nat /\ Height[n.args[i]] \in Nat
    BY <2>1, ArgumentsLower
  <2> QED
    BY <1>3, <2>1, <2>3, <2>4
<1> QED
  BY <1>4

\* A node's own part in the three walks over a tree: compiling it, evaluating
\* it at a row, and looking for a range.
Visited(n, results, row) ==
    << CompileNode(n, [i \in DOMAIN n.args |-> results[i][1]]),
       NodeMeans(n, [i \in DOMAIN n.args |-> results[i][2]], row),
       n.kind = "range" \/ \E i \in DOMAIN n.args : results[i][3] >>

Walk(row, F) ==
    F = [n \in Nodes |-> Visited(n, [i \in DOMAIN n.args |-> F[n.args[i]]], row)]

LEMMA WalkExists ==
    ASSUME NEW row
    PROVE  \E F : Walk(row, F)
<1> DEFINE V(n, results) == Visited(n, results, row)
           Below(d) == {n \in Nodes : Height[n] < d}
           Upto(d, g) == g = [n \in Below(d) |-> V(n, [i \in DOMAIN n.args |-> g[n.args[i]]])]
           pick(d) == CHOOSE g : Upto(d, g)
           F == [n \in Nodes |-> pick(Height[n] + 1)[n]]
<1> HIDE DEF V
<1>1. \A d \in Nat : \A n \in Below(d + 1) : \A i \in DOMAIN n.args : n.args[i] \in Below(d)
  BY ArgumentsLower
<1> HIDE DEF Below
<1>2. ASSUME NEW d \in Nat, NEW g, Upto(d, g)
      PROVE  \E h : Upto(d + 1, h)
  <2> DEFINE h == [n \in Below(d + 1) |-> V(n, [i \in DOMAIN n.args |-> g[n.args[i]]])]
  <2>1. ASSUME NEW n \in Below(d)
        PROVE  h[n] = g[n]
    <3>1. n \in Below(d + 1)
      BY ArgumentsLower DEF Below
    <3> QED
      BY <1>2, <3>1
  <2>2. ASSUME NEW n \in Below(d + 1)
        PROVE  h[n] = V(n, [i \in DOMAIN n.args |-> h[n.args[i]]])
    <3>1. \A i \in DOMAIN n.args : h[n.args[i]] = g[n.args[i]]
      <4> HIDE DEF h
      <4> QED
        BY <1>1, <2>1
    <3>2. h[n] = V(n, [i \in DOMAIN n.args |-> g[n.args[i]]])
      OBVIOUS
    <3> HIDE DEF h
    <3>3. [i \in DOMAIN n.args |-> h[n.args[i]]] = [i \in DOMAIN n.args |-> g[n.args[i]]]
      BY <3>1
    <3> QED
      BY <3>2, <3>3
  <2>3. h = [n \in Below(d + 1) |-> h[n]]
    OBVIOUS
  <2>4. Upto(d + 1, h)
    <3> HIDE DEF h
    <3> QED
      BY <2>2, <2>3
  <2> QED
    BY <2>4
<1>3. \A d \in Nat : Upto(d, pick(d))
  <2> DEFINE T == {d \in Nat : \E g : Upto(d, g)}
  <2>1. 0 \in T
    <3> DEFINE h == [n \in Below(0) |-> n]
    <3>1. Below(0) = {}
      BY ArgumentsLower DEF Below
    <3>2. Upto(0, h)
      BY <3>1
    <3> QED
      BY <3>2
  <2>2. \A d \in Nat : d \in T => d + 1 \in T
    <3> HIDE DEF Upto
    <3> QED
      BY <1>2
  <2>3. Nat \subseteq T
    <3> SUFFICES ASSUME NEW k \in Nat, k \notin T PROVE FALSE
      OBVIOUS
    <3> HIDE DEF T
    <3> DEFINE N == Nat \ T
    <3>1. PICK m \in N : \A n \in N : m <= n
      BY LeastNatural
    <3>2. m # 0 /\ m - 1 \in Nat /\ m - 1 \notin N
      BY <2>1, <3>1
    <3>3. m - 1 \in T /\ (m - 1) + 1 = m
      BY <3>1, <3>2
    <3> QED
      BY <2>2, <3>1, <3>2, <3>3
  <2> HIDE DEF Upto
  <2> QED
    BY <2>3
<1>4. ASSUME NEW d \in Nat, NEW e \in Nat, NEW n \in Nodes, n \in Below(d), n \in Below(e)
      PROVE  pick(d)[n] = pick(e)[n]
  <2> DEFINE S == {x \in Nodes : x \in Below(d) /\ x \in Below(e) => pick(d)[x] = pick(e)[x]}
  <2>0. Upto(d, pick(d)) /\ Upto(e, pick(e))
    BY <1>3
  <2> HIDE DEF pick
  <2>1. ASSUME NEW x \in Nodes, \A i \in DOMAIN x.args : x.args[i] \in S
        PROVE  x \in S
    <3> SUFFICES ASSUME x \in Below(d), x \in Below(e) PROVE pick(d)[x] = pick(e)[x]
      OBVIOUS
    <3>1. \A i \in DOMAIN x.args : x.args[i] \in Below(d) /\ x.args[i] \in Below(e)
      BY ArgumentsLower DEF Below
    <3>2. [i \in DOMAIN x.args |-> pick(d)[x.args[i]]] = [i \in DOMAIN x.args |-> pick(e)[x.args[i]]]
      BY <2>1, <3>1
    <3>3. pick(d)[x] = V(x, [i \in DOMAIN x.args |-> pick(d)[x.args[i]]])
      BY <2>0
    <3>4. pick(e)[x] = V(x, [i \in DOMAIN x.args |-> pick(e)[x.args[i]]])
      BY <2>0
    <3> QED
      BY <3>2, <3>3, <3>4
  <2> HIDE DEF S
  <2>2. Nodes \subseteq S
    BY <2>1, TreeInduction
  <2> QED
    BY <1>4, <2>2 DEF S
<1>5. ASSUME NEW n \in Nodes
      PROVE  F[n] = V(n, [i \in DOMAIN n.args |-> F[n.args[i]]])
  <2> DEFINE d == Height[n] + 1
  <2>1. d \in Nat /\ n \in Below(d)
    BY ArgumentsLower DEF Below
  <2>2. F[n] = pick(d)[n]
    OBVIOUS
  <2>3. pick(d)[n] = V(n, [i \in DOMAIN n.args |-> pick(d)[n.args[i]]])
    <3>1. Upto(d, pick(d))
      BY <1>3, <2>1
    <3> HIDE DEF pick, d
    <3> QED
      BY <2>1, <3>1
  <2>4. ASSUME NEW i \in DOMAIN n.args
        PROVE  F[n.args[i]] = pick(d)[n.args[i]]
    <3> DEFINE a == n.args[i]
    <3>1. a \in Nodes /\ Height[a] + 1 \in Nat /\ a \in Below(Height[a] + 1) /\ a \in Below(d)
      BY ArgumentsLower DEF Below
    <3>2. F[a] = pick(Height[a] + 1)[a]
      BY <3>1
    <3> HIDE DEF F, pick, d, a
    <3>3. pick(Height[a] + 1)[a] = pick(d)[a]
      BY <1>4, <2>1, <3>1
    <3> QED
      BY <3>2, <3>3 DEF a
  <2> HIDE DEF F, pick, d
  <2>5. [i \in DOMAIN n.args |-> F[n.args[i]]] = [i \in DOMAIN n.args |-> pick(d)[n.args[i]]]
    BY <2>4
  <2> QED
    BY <2>2, <2>3, <2>5
<1>6. F = [n \in Nodes |-> F[n]]
  OBVIOUS
<1> HIDE DEF F
<1>7. Walk(row, F)
  BY <1>5, <1>6 DEF Walk, V
<1> QED
  BY <1>7

\* The three walks, a node at a time.
LEMMA CompileUnfolds ==
    ASSUME NEW n \in Nodes
    PROVE  Compile(n) = CompileNode(n, [i \in DOMAIN n.args |-> Compile(n.args[i])])
<1> DEFINE Rec(f) == f = [m \in Nodes |-> CompileNode(m, [i \in DOMAIN m.args |-> f[m.args[i]]])]
           fold   == CHOOSE f : Rec(f)
<1>1. PICK F : Walk(0, F)
  BY WalkExists
<1> DEFINE G == [m \in Nodes |-> F[m][1]]
<1>2. ASSUME NEW m \in Nodes
      PROVE  G[m] = CompileNode(m, [i \in DOMAIN m.args |-> G[m.args[i]]])
  <2>1. F[m] = Visited(m, [i \in DOMAIN m.args |-> F[m.args[i]]], 0)
    BY <1>1 DEF Walk
  <2>2. G[m] = CompileNode(m, [i \in DOMAIN m.args |-> [j \in DOMAIN m.args |-> F[m.args[j]]][i][1]])
    BY <2>1 DEF Visited
  <2>3. [i \in DOMAIN m.args |-> [j \in DOMAIN m.args |-> F[m.args[j]]][i][1]]
           = [i \in DOMAIN m.args |-> G[m.args[i]]]
    BY ArgumentsLower
  <2> HIDE DEF G
  <2> QED
    BY <2>2, <2>3
<1>3. G = [m \in Nodes |-> G[m]]
  OBVIOUS
<1> HIDE DEF G
<1>4. Rec(G)
  BY <1>2, <1>3
<1>5. Rec(fold)
  <2> HIDE DEF Rec
  <2> QED
    BY <1>4
<1>6. \A m : Compile(m) = fold[m]
  BY DEF Compile, FoldTree
<1> HIDE DEF fold
<1>7. fold[n] = CompileNode(n, [i \in DOMAIN n.args |-> fold[n.args[i]]])
  BY <1>5
<1> QED
  BY <1>6, <1>7

LEMMA MeansUnfolds ==
    ASSUME NEW row, NEW n \in Nodes
    PROVE  Means(n, row) = NodeMeans(n, [i \in DOMAIN n.args |-> Means(n.args[i], row)], row)
<1> DEFINE Rec(f) == f = [m \in Nodes |-> NodeMeans(m, [i \in DOMAIN m.args |-> f[m.args[i]]], row)]
           fold   == CHOOSE f : Rec(f)
<1>1. PICK F : Walk(row, F)
  BY WalkExists
<1> DEFINE G == [m \in Nodes |-> F[m][2]]
<1>2. ASSUME NEW m \in Nodes
      PROVE  G[m] = NodeMeans(m, [i \in DOMAIN m.args |-> G[m.args[i]]], row)
  <2>1. F[m] = Visited(m, [i \in DOMAIN m.args |-> F[m.args[i]]], row)
    BY <1>1 DEF Walk
  <2>2. G[m] = NodeMeans(m, [i \in DOMAIN m.args |-> [j \in DOMAIN m.args |-> F[m.args[j]]][i][2]], row)
    BY <2>1 DEF Visited
  <2>3. \A i \in DOMAIN m.args : [j \in DOMAIN m.args |-> F[m.args[j]]][i][2] = G[m.args[i]]
    BY ArgumentsLower
  <2>4. [i \in DOMAIN m.args |-> [j \in DOMAIN m.args |-> F[m.args[j]]][i][2]]
           = [i \in DOMAIN m.args |-> G[m.args[i]]]
    BY <2>3
  <2> HIDE DEF G
  <2> QED
    BY <2>2, <2>3, <2>4
<1>3. G = [m \in Nodes |-> G[m]]
  OBVIOUS
<1> HIDE DEF G
<1>4. Rec(G)
  BY <1>2, <1>3
<1>5. Rec(fold)
  <2> HIDE DEF Rec
  <2> QED
    BY <1>4
<1>6. \A m : Means(m, row) = fold[m]
  BY DEF Means, FoldTree
<1> HIDE DEF fold
<1>7. fold[n] = NodeMeans(n, [i \in DOMAIN n.args |-> fold[n.args[i]]], row)
  BY <1>5
<1> QED
  BY <1>6, <1>7

LEMMA HasRangeUnfolds ==
    ASSUME NEW n \in Nodes
    PROVE  HasRange(n) <=> n.kind = "range" \/ \E i \in DOMAIN n.args : HasRange(n.args[i])
<1> DEFINE Rec(f) == f = [m \in Nodes |-> (m.kind = "range" \/ \E i \in DOMAIN m.args : f[m.args[i]])]
           fold   == CHOOSE f : Rec(f)
<1>1. PICK F : Walk(0, F)
  BY WalkExists
<1> DEFINE G == [m \in Nodes |-> F[m][3]]
<1>2. ASSUME NEW m \in Nodes
      PROVE  G[m] = (m.kind = "range" \/ \E i \in DOMAIN m.args : G[m.args[i]])
  <2>1. F[m] = Visited(m, [i \in DOMAIN m.args |-> F[m.args[i]]], 0)
    BY <1>1 DEF Walk
  <2>2. G[m] = (m.kind = "range" \/ \E i \in DOMAIN m.args : [j \in DOMAIN m.args |-> F[m.args[j]]][i][3])
    BY <2>1 DEF Visited
  <2>3. \A i \in DOMAIN m.args : [j \in DOMAIN m.args |-> F[m.args[j]]][i][3] = G[m.args[i]]
    BY ArgumentsLower
  <2>4. [i \in DOMAIN m.args |-> [j \in DOMAIN m.args |-> F[m.args[j]]][i][3]]
           = [i \in DOMAIN m.args |-> G[m.args[i]]]
    BY <2>3
  <2> HIDE DEF G
  <2> QED
    BY <2>2, <2>3, <2>4
<1>3. G = [m \in Nodes |-> G[m]]
  OBVIOUS
<1> HIDE DEF G
<1>4. Rec(G)
  BY <1>2, <1>3
<1>5. Rec(fold)
  <2> HIDE DEF Rec
  <2> QED
    BY <1>4
<1>6. \A m : HasRange(m) = fold[m]
  BY DEF HasRange, FoldTree
<1> HIDE DEF fold
<1>7. fold[n] = (n.kind = "range" \/ \E i \in DOMAIN n.args : fold[n.args[i]])
  BY <1>5
<1> QED
  BY <1>6, <1>7
-------------------------------------------------------------------------------
(* Greatest and least elements, and the columns that names find. *)

LEMMA MaxIs ==
    ASSUME NEW S \in SUBSET Int, NEW m \in S, \A x \in S : m >= x
    PROVE  Max(S) = m
<1>1. \A x \in S : (\A y \in S : x >= y) => x = m
  OBVIOUS
<1> QED
  BY <1>1 DEF Max

LEMMA MinIs ==
    ASSUME NEW S \in SUBSET Int, NEW m \in S, \A x \in S : m <= x
    PROVE  Min(S) = m
<1>1. \A x \in S : (\A y \in S : x <= y) => x = m
  OBVIOUS
<1> QED
  BY <1>1 DEF Min

LEMMA MaxMinPair ==
    ASSUME NEW a \in Int, NEW b \in Int
    PROVE  /\ Max({a, b}) = IF a >= b THEN a ELSE b
           /\ Min({a, b}) = IF a <= b THEN a ELSE b
<1> DEFINE S == {a, b}
<1>0. S \in SUBSET Int
  OBVIOUS
<1>1. a \in S /\ b \in S /\ \A x \in S : x = a \/ x = b
  BY Zenon
<1> HIDE DEF S
<1>2. Max(S) = IF a >= b THEN a ELSE b
  BY <1>0, <1>1, MaxIs
<1>3. Min(S) = IF a <= b THEN a ELSE b
  BY <1>0, <1>1, MinIs
<1> QED
  BY <1>2, <1>3 DEF S

LEMMA IntervalEnds ==
    ASSUME NEW a \in Int, NEW b \in Int, a <= b
    PROVE  Min(a .. b) = a /\ Max(a .. b) = b
  BY MaxIs, MinIs

LEMMA MaxReached ==
    ASSUME NEW k \in Int, NEW S \in SUBSET Int, S # {}, \A x \in S : x <= k
    PROVE  Max(S) \in S /\ \A x \in S : Max(S) >= x
<1> DEFINE D == {k - x : x \in S}
<1>0. \A x \in S : x \in Int /\ k - x \in Nat
  OBVIOUS
<1>1. D \in SUBSET Nat /\ D # {}
  BY <1>0
<1> HIDE DEF D
<1>2. PICK m \in D : \A d \in D : m <= d
  BY <1>1, LeastNatural
<1>3. PICK x \in S : m = k - x
  BY <1>2 DEF D
<1>4. \A y \in S : x >= y
  <2> SUFFICES ASSUME NEW y \in S PROVE x >= y
    OBVIOUS
  <2>1. k - y \in D
    BY DEF D
  <2>2. m <= k - y
    BY <1>2, <2>1
  <2>3. x \in Int /\ y \in Int
    OBVIOUS
  <2> QED
    BY <1>3, <2>2, <2>3
<1> QED
  BY <1>4, MaxIs

LEMMA ColumnCount ==
    ASSUME ViewTypes
    PROVE  /\ Len(derived) \in Nat /\ NumCols \in Nat /\ NumCols = NumBaseCols + Len(derived)
           /\ Columns = 0 .. NumCols - 1
           /\ \A c \in Columns : c \in BaseCols \/ c - NumBaseCols + 1 \in 1 .. Len(derived)
<1>1. Len(derived) \in Nat
  BY AppendSequence DEF ViewTypes
<1>2. NumCols \in Nat /\ NumCols = NumBaseCols + Len(derived) /\ Columns = 0 .. NumCols - 1
  BY <1>1, FilteredViewAssumption DEF NumCols, Columns
<1>3. BaseCols = 0 .. NumBaseCols - 1
  BY DEF BaseCols
<1> QED
  BY <1>1, <1>2, <1>3, FilteredViewAssumption

LEMMA LastColumn ==
    ASSUME ViewTypes, NEW S \in SUBSET Columns
    PROVE  /\ Max({NoColumn} \cup S) \in {NoColumn} \cup S
           /\ \A c \in S : Max({NoColumn} \cup S) >= c
           /\ S # {} => Max({NoColumn} \cup S) \in S
<1> DEFINE T == {NoColumn} \cup S
<1>1. NumCols \in Nat /\ Columns = 0 .. NumCols - 1
  BY ColumnCount
<1>2. T \in SUBSET Int /\ T # {} /\ \A x \in T : x <= NumCols
  BY <1>1 DEF NoColumn
<1>3. Max(T) \in T /\ \A x \in T : Max(T) >= x
  <2> HIDE DEF T
  <2> QED
    <3>1. NumCols \in Int
      BY <1>1
    <3>2. T \in SUBSET Int /\ T # {}
      BY <1>2
    <3>3. \A x \in T : x <= NumCols
      BY <1>2
    <3> HIDE DEF T
    <3> QED
      BY <3>1, <3>2, <3>3, MaxReached
<1>4. \A c \in S : NoColumn # c /\ ~ (NoColumn >= c)
  BY <1>1 DEF NoColumn
<1> QED
  BY <1>3, <1>4

LEMMA FindColumnType ==
    ASSUME ViewTypes, NEW name
    PROVE  FindColumn(name) \in Columns \cup {NoColumn}
<1> DEFINE labelled == {c \in Columns : Label(c) = name}
           lettered == {c \in Columns : Alias(c) = name}
           S == IF labelled # {} THEN labelled ELSE lettered
<1>1. S \in SUBSET Columns
  OBVIOUS
<1>2. FindColumn(name) = Max({NoColumn} \cup S)
  BY DEF FindColumn
<1> HIDE DEF S
<1> QED
  BY <1>1, <1>2, LastColumn

\* Where no label is a later column's letter, both lookups find one column.
LEMMA LookupsAgree ==
    ASSUME ViewTypes, NamesAgree, NEW name
    PROVE  MapColumn(name) = FindColumn(name)
<1> DEFINE labelled == {c \in Columns : Label(c) = name}
           lettered == {c \in Columns : Alias(c) = name}
           named == {c \in Columns : name \in {Label(c), Alias(c)}}
<1>1. named = labelled \cup lettered
  OBVIOUS
<1>2. MapColumn(name) = Max({NoColumn} \cup named)
  BY DEF MapColumn
<1>3. CASE labelled = {}
  <2>1. FindColumn(name) = Max({NoColumn} \cup lettered)
    BY <1>3 DEF FindColumn
  <2> QED
    BY <1>1, <1>2, <1>3, <2>1
<1>4. CASE labelled # {}
  <2> DEFINE m == Max({NoColumn} \cup labelled)
  <2>1. FindColumn(name) = m
    BY <1>4 DEF FindColumn
  <2>2. m \in labelled /\ \A c \in labelled : m >= c
    <3>1. labelled \in SUBSET Columns
      OBVIOUS
    <3> HIDE DEF labelled
    <3> QED
      BY <1>4, <3>1, LastColumn
  <2> HIDE DEF m
  <2>3. NumCols \in Nat /\ Columns = 0 .. NumCols - 1
    BY ColumnCount
  <2>4. \A c \in lettered : m >= c
    <3> SUFFICES ASSUME NEW c \in lettered, ~ (m >= c) PROVE FALSE
      OBVIOUS
    <3>1. m \in Columns /\ c \in Columns /\ Label(m) = name /\ Alias(c) = name
      BY <2>2
    <3>2. m < c
      BY <2>3, <3>1
    <3> QED
      BY <3>1, <3>2 DEF NamesAgree
  <2>5. /\ {NoColumn} \cup named \in SUBSET Int
        /\ m \in {NoColumn} \cup named
        /\ m >= NoColumn
    BY <2>2, <2>3 DEF NoColumn
  <2>6. \A x \in {NoColumn} \cup named : m >= x
    BY <1>1, <2>2, <2>4, <2>5
  <2> HIDE DEF named
  <2>7. Max({NoColumn} \cup named) = m
    BY <2>5, <2>6, MaxIs
  <2> QED
    BY <1>2, <2>1, <2>7
<1> QED
  BY <1>3, <1>4
-------------------------------------------------------------------------------
(* The invariant: the view's, and a type and a formula for each new column. *)

FormulaInv ==
    /\ Inv
    /\ derivedTypes \in Seq({"number", "text"})
    /\ Len(derivedTypes) = Len(derived)
    /\ formulaOf \in Seq(DOMAIN FormulaList)

LEMMA FilterOrEditInv ==
    ASSUME Inv, FilterOrEdit
    PROVE  Inv' /\ derived' = derived
<1>1. ASSUME NEW c \in AllCols, NEW f \in Predicates, SetColumnFilter(c, f)
      PROVE  Inv' /\ derived' = derived
  BY <1>1, SetColumnFilterInv DEF SetColumnFilter
<1>2. ASSUME NEW c \in AllCols, ClearColumnFilter(c)
      PROVE  Inv' /\ derived' = derived
  BY <1>2, ClearColumnFilterInv DEF ClearColumnFilter
<1>3. CASE ClearAllFilters
  BY <1>3, ClearFiltersInv DEF ClearAllFilters, Inv, ViewTypes
<1>4. CASE ToggleFiltering
  BY <1>4, ToggleFilteringInv DEF ToggleFiltering
<1>5. ASSUME NEW viewRow \in Rows, NEW c \in BaseCols, NEW v \in Values, EditCell(viewRow, c, v)
      PROVE  Inv' /\ derived' = derived
  BY <1>5, EditCellInv DEF EditCell
<1> QED
  BY <1>1, <1>2, <1>3, <1>4, <1>5 DEF FilterOrEdit

\* What AddFormula stores in the new column.
Stored(n) ==
    LET f == Compile(FormulaList[n])
    IN  IF f.type = "number" THEN f.fn ELSE [row \in DOMAIN f.fn |-> Min({f.fn[row], MaxText})]

LEMMA AddFormulaStores ==
    ASSUME NEW n, AddFormula(n)
    PROVE  /\ Compile(FormulaList[n]).type # "error"
           /\ AddDerivedColumn(Stored(n))
           /\ derivedTypes' = Append(derivedTypes, Compile(FormulaList[n]).type)
           /\ formulaOf' = Append(formulaOf, n)
  BY DEF AddFormula, Stored

LEMMA FormulaInitInv == FormulaInit => FormulaInv
<1> SUFFICES ASSUME FormulaInit
             PROVE  FormulaInv
  OBVIOUS
<1>1. Inv
  BY InitInv DEF FormulaInit
<1>2. derived = << >> /\ derivedTypes = << >> /\ formulaOf = << >>
  BY DEF FormulaInit, Init
<1> QED
  BY <1>1, <1>2 DEF FormulaInv
-------------------------------------------------------------------------------
(* The shown rows, and values of columns at them. *)

LEMMA AllRowsAscending ==
    /\ Len(Ascending(Rows)) = NumRows
    /\ \A i \in 1 .. NumRows : Ascending(Rows)[i] = i - 1
<1>1. Cardinality(Rows) = NumRows
  BY FS_Interval, FilteredViewAssumption DEF Rows
<1>2. ASSUME NEW r \in Rows
      PROVE  Cardinality({q \in Rows : q < r}) = r
  <2>1. {q \in Rows : q < r} = 0 .. r - 1
    BY FilteredViewAssumption DEF Rows
  <2>2. r \in Nat
    BY FilteredViewAssumption DEF Rows
  <2>3. Cardinality(0 .. r - 1) = r
    BY <2>2, FS_Interval
  <2> QED
    BY <2>1, <2>3
<1>3. ASSUME NEW i \in 1 .. NumRows
      PROVE  (CHOOSE r \in Rows : Cardinality({q \in Rows : q < r}) = i - 1) = i - 1
  <2>1. i - 1 \in Rows
    BY FilteredViewAssumption DEF Rows
  <2>2. \A r \in Rows : Cardinality({q \in Rows : q < r}) = i - 1 <=> r = i - 1
    BY <1>2
  <2> QED
    BY <2>1, <2>2
<1> QED
  BY <1>1, <1>3, FilteredViewAssumption DEF Ascending

LEMMA ShownRowsAre ==
    ASSUME Inv
    PROVE  /\ ShownRows \in Seq(Rows)
           /\ Len(ShownRows) = VisibleRows /\ VisibleRows \in Nat
           /\ \A k \in 0 .. VisibleRows - 1 : ShownRows[k + 1] = UnderlyingRow(k)
<1>1. Matching \in SUBSET Rows
  BY DEF Matching
<1>2. ShownRows \in Seq(Rows)
  BY <1>1, AscendingRows DEF ShownRows
<1>3. VisibleRows \in Nat
  BY VisibleNat DEF Inv
<1>4. CASE filterActive
  <2>1. filteredRows = ShownRows
    BY <1>4 DEF Inv, ViewExact, ShownRows
  <2> QED
    BY <1>2, <1>3, <1>4, <2>1 DEF VisibleRows, UnderlyingRow
<1>5. CASE ~filterActive
  <2>1. DOMAIN columnFilters = {} \/ NumRows = 0
    BY <1>5 DEF Inv, ViewExact
  <2>2. Rows = {} \/ NumRows # 0
    BY DEF Rows
  <2>3. Matching = Rows
    BY <2>1, <2>2 DEF Matching
  <2>4. ShownRows = Ascending(Rows) /\ VisibleRows = NumRows
    BY <1>5, <2>3 DEF ShownRows, VisibleRows
  <2>5. ASSUME NEW k \in 0 .. VisibleRows - 1
        PROVE  ShownRows[k + 1] = UnderlyingRow(k)
    <3>1. k + 1 \in 1 .. NumRows /\ (k + 1) - 1 = k
      BY <1>3, <2>4
    <3> QED
      BY <1>5, <2>4, <3>1, AllRowsAscending DEF UnderlyingRow
  <2> QED
    BY <1>2, <1>3, <2>4, <2>5, AllRowsAscending
<1> QED
  BY <1>4, <1>5 DEF Inv, ViewTypes

\* The view rows from first to last are a part of the shown rows.
LEMMA PartRows ==
    ASSUME Inv, NEW first \in Nat, NEW last \in Int, last < VisibleRows
    PROVE  /\ RowsOfView(first, last) = SubSeq(ShownRows, first + 1, last + 1)
           /\ RowsOfView(first, last) \in Seq(Rows)
           /\ Len(RowsOfView(first, last)) = IF first <= last THEN last - first + 1 ELSE 0
<1> DEFINE n == IF first <= last THEN last - first + 1 ELSE 0
<1>1. Max({0, last - first + 1}) = n /\ n \in Nat
  BY MaxMinPair
<1>2. /\ ShownRows \in Seq(Rows) /\ Len(ShownRows) = VisibleRows /\ VisibleRows \in Nat
      /\ \A k \in 0 .. VisibleRows - 1 : ShownRows[k + 1] = UnderlyingRow(k)
  BY ShownRowsAre
<1>3. RowsOfView(first, last) = [i \in 1 .. n |-> UnderlyingRow(first + i - 1)]
  BY <1>1 DEF RowsOfView
<1>4. ASSUME NEW i \in 1 .. n
      PROVE  /\ UnderlyingRow(first + i - 1) = ShownRows[first + i]
             /\ first + i \in 1 .. Len(ShownRows)
  <2>1. first + i - 1 \in 0 .. VisibleRows - 1 /\ (first + i - 1) + 1 = first + i
    BY <1>2
  <2>2. ShownRows[(first + i - 1) + 1] = UnderlyingRow(first + i - 1)
    BY <1>2, <2>1
  <2> QED
    BY <1>2, <2>1, <2>2
<1> HIDE DEF n
<1>5. RowsOfView(first, last) = [i \in 1 .. n |-> ShownRows[first + i]]
  BY <1>3, <1>4
<1>6. \A i \in 1 .. n : ShownRows[first + i] \in Rows
  BY <1>2, <1>4
<1>7. RowsOfView(first, last) \in Seq(Rows) /\ Len(RowsOfView(first, last)) = n
  BY <1>1, <1>5, <1>6
<1>8. SubSeq(ShownRows, first + 1, last + 1) = [i \in 1 .. n |-> ShownRows[first + i]]
  BY <1>1, <1>2, <1>4 DEF n
<1> QED
  BY <1>5, <1>7, <1>8 DEF n

LEMMA ColumnValues ==
    ASSUME Inv, NEW c, NEW rows \in Seq(Rows)
    PROVE  ValuesAt(ColumnFn(c), rows) = [i \in DOMAIN rows |-> ValueIn(cells[rows[i]], derived, c)]
<1>1. \A i \in DOMAIN rows : cells[rows[i]] \in [BaseCols -> Values]
  BY DEF Inv, ViewTypes
<1>2. \A i \in DOMAIN rows : ColumnFn(c)[cells[rows[i]]] = ValueIn(cells[rows[i]], derived, c)
  BY <1>1 DEF ColumnFn
<1> QED
  BY <1>2 DEF ValuesAt

\* The statistics of a column over view rows are those of its values there.
LEMMA ColumnStatsOfSelection ==
    ASSUME Inv, NEW c, NEW from \in Nat, NEW to \in Int
    PROVE  /\ Len(Selection(c, from, to)) \in Nat
           /\ Selection(c, from, to) = << >> <=> Len(Selection(c, from, to)) = 0
           /\ ComputeColumnStats(c, from, to) =
                  IF Type(c) = "text" THEN TextStats(Len(Selection(c, from, to)))
                  ELSE Scan(Selection(c, from, to))
<1> DEFINE last == IF to <= VisibleRows - 1 THEN to ELSE VisibleRows - 1
           rows == RowsOfView(from, last)
<1>1. VisibleRows \in Nat /\ Len(ShownRows) = VisibleRows
  BY ShownRowsAre
<1>2. last \in Int /\ last < VisibleRows
  BY <1>1
<1>20. VisibleRows - 1 \in Int /\ to + 1 \in Int /\ VisibleRows \in Int
  BY <1>1
<1>3. Max({from, 0}) = from
  BY MaxMinPair
<1>4. Min({to, VisibleRows - 1}) = last
  BY <1>20, MaxMinPair
<1>5. Min({to + 1, Len(ShownRows)}) = last + 1
  <2>1. Min({to + 1, VisibleRows}) = IF to + 1 <= VisibleRows THEN to + 1 ELSE VisibleRows
    BY <1>20, MaxMinPair
  <2> QED
    BY <1>1, <2>1
<1> HIDE DEF last
<1>6. rows = SubSeq(ShownRows, from + 1, last + 1) /\ rows \in Seq(Rows)
  BY <1>2, PartRows
<1> HIDE DEF rows
<1>7. Selection(c, from, to) = [i \in DOMAIN rows |-> ValueIn(cells[rows[i]], derived, c)]
  BY <1>5, <1>6 DEF Selection
<1>8. Selection(c, from, to) = ValuesAt(ColumnFn(c), rows)
  BY <1>6, <1>7, ColumnValues
<1>9. Len(rows) \in Nat /\ DOMAIN rows = 1 .. Len(rows)
  BY <1>6
<1>10. Len(Selection(c, from, to)) = Len(rows)
  BY <1>7, <1>9
<1>11. Selection(c, from, to) = << >> <=> Len(rows) = 0
  <2>1. CASE Len(rows) = 0
    <3>1. DOMAIN rows = {}
      BY <1>9, <2>1
    <3> QED
      BY <1>7, <2>1, <3>1
  <2>2. CASE Len(rows) # 0
    BY <1>9, <1>10, <2>2
  <2> QED
    BY <2>1, <2>2
<1>12. ComputeColumnStats(c, from, to) =
         IF Type(c) = "text" THEN TextStats(Len(rows)) ELSE Scan(ValuesAt(ColumnFn(c), rows))
  BY <1>3, <1>4 DEF ComputeColumnStats, rows
<1> QED
  BY <1>8, <1>9, <1>10, <1>11, <1>12

LEMMA TypeOfColumn ==
    ASSUME FormulaInv, NEW c \in Columns
    PROVE  Type(c) \in {"number", "text"}
<1>1. ViewTypes
  BY DEF FormulaInv, Inv
<1>2. CASE c \in BaseCols
  <2>1. c + 1 \in 1 .. NumBaseCols
    BY <1>2, FilteredViewAssumption DEF BaseCols
  <2> QED
    BY <1>2, <2>1, FormulaAssumption DEF Type
<1>3. CASE c \notin BaseCols
  <2>1. c - NumBaseCols + 1 \in 1 .. Len(derived)
    BY <1>1, <1>3, ColumnCount
  <2> QED
    BY <1>3, <2>1 DEF Type, FormulaInv
<1> QED
  BY <1>2, <1>3
-------------------------------------------------------------------------------
(* Aggregates over ranges. *)

\* The rows CompileAggregate asks the aggregator for, and those it looks at.
AskedFirst(a, b) ==
    IF CellRow(a) # NoNumber /\ CellRow(b) # NoNumber THEN Min({CellRow(a), CellRow(b)})
    ELSE Max({CellRow(a), 0})
AskedLast(a, b) ==
    IF CellRow(a) # NoNumber /\ CellRow(b) # NoNumber THEN Max({CellRow(a), CellRow(b)})
    ELSE CellRow(b)
FromRow(first) == Max({first, 0})
ToRow(last)    == IF last = NoNumber THEN NumRows - 1 ELSE Min({last, NumRows - 1})

LEMMA AskedRows ==
    ASSUME NEW a, NEW b, a[2] \in Int, b[2] \in Int
    PROVE  LET from == FromRow(AskedFirst(a, b))
               to   == ToRow(AskedLast(a, b))
           IN  /\ from \in Nat /\ to \in Int /\ (NumRows = 0 => from > to)
               /\ RangeRows(a, b) = from .. to
<1> DEFINE ra == CellRow(a)
           rb == CellRow(b)
           from == FromRow(AskedFirst(a, b))
           to   == ToRow(AskedLast(a, b))
<1>1. /\ ra \in Int /\ ra >= -1 /\ (ra # NoNumber => ra >= 0)
      /\ rb \in Int /\ rb >= -1 /\ (rb # NoNumber => rb >= 0)
  BY DEF CellRow, NoNumber
<1>2. NumRows \in Nat /\ NoNumber = -1
  BY FilteredViewAssumption DEF NoNumber
<1> DEFINE named == {ra, rb} \ {NoNumber}
<1>3. RangeRows(a, b) =
          IF named = {} THEN 0 .. NumRows - 1
          ELSE IF ra = NoNumber THEN 0 .. Min({Max(named), NumRows - 1})
          ELSE IF rb = NoNumber THEN Max(named) .. NumRows - 1
          ELSE Min(named) .. Min({Max(named), NumRows - 1})
  BY DEF RangeRows
<1>4. AskedFirst(a, b) = IF ra # NoNumber /\ rb # NoNumber THEN Min({ra, rb}) ELSE Max({ra, 0})
  BY DEF AskedFirst
<1>5. AskedLast(a, b) = IF ra # NoNumber /\ rb # NoNumber THEN Max({ra, rb}) ELSE rb
  BY DEF AskedLast
<1> HIDE DEF ra, rb
<1>6. CASE ra # NoNumber /\ rb # NoNumber
  <2>1. named = {ra, rb} /\ named # {}
    BY <1>6
  <2>2. Min({ra, rb}) \in Nat /\ Max({ra, rb}) \in Nat /\ Max({ra, rb}) # NoNumber
    BY <1>1, <1>2, <1>6, MaxMinPair
  <2>3. AskedFirst(a, b) = Min({ra, rb}) /\ AskedLast(a, b) = Max({ra, rb})
    BY <1>4, <1>5, <1>6
  <2>4. from = Min({ra, rb})
    BY <2>2, <2>3, MaxMinPair DEF FromRow
  <2>5. to = Min({Max({ra, rb}), NumRows - 1}) /\ to \in Int /\ (NumRows = 0 => to < 0)
    <3>1. to = Min({Max({ra, rb}), NumRows - 1})
      BY <2>2, <2>3 DEF ToRow
    <3> HIDE DEF to
    <3> QED
      <4>1. Max({ra, rb}) \in Int /\ NumRows - 1 \in Int
        BY <1>2, <2>2
      <4>2. to = IF Max({ra, rb}) <= NumRows - 1 THEN Max({ra, rb}) ELSE NumRows - 1
        BY <3>1, <4>1, MaxMinPair
      <4> QED
        BY <1>2, <3>1, <4>1, <4>2
  <2>6. RangeRows(a, b) = Min({ra, rb}) .. Min({Max({ra, rb}), NumRows - 1})
    BY <1>3, <1>6, <2>1
  <2>7. from \in Nat /\ RangeRows(a, b) = from .. to
    BY <2>2, <2>4, <2>5, <2>6
  <2>8. NumRows = 0 => from > to
    <3> HIDE DEF from, to
    <3> QED
      BY <2>5, <2>7
  <2> QED
    BY <2>5, <2>7, <2>8
<1>7. CASE ra = NoNumber /\ rb # NoNumber
  <2>1. named = {rb} /\ named # {}
    BY <1>7
  <2>2. Max({rb}) = rb
    <3> DEFINE S == {rb}
    <3>1. S \in SUBSET Int /\ rb \in S /\ \A x \in S : rb >= x
      BY <1>1
    <3> HIDE DEF S
    <3>2. Max(S) = rb
      BY <3>1, MaxIs
    <3> QED
      BY <3>2 DEF S
  <2>3. AskedFirst(a, b) = 0 /\ AskedLast(a, b) = rb
    BY <1>1, <1>2, <1>4, <1>5, <1>7, MaxMinPair
  <2>4. from = 0
    BY <2>3, MaxMinPair DEF FromRow
  <2>5. to = Min({rb, NumRows - 1}) /\ to \in Int /\ (NumRows = 0 => to < 0)
    <3>1. to = Min({rb, NumRows - 1})
      BY <1>7, <2>3 DEF ToRow
    <3>2. rb \in Int /\ NumRows - 1 \in Int
      BY <1>1, <1>2
    <3> HIDE DEF to
    <3>3. to = IF rb <= NumRows - 1 THEN rb ELSE NumRows - 1
      BY <3>1, <3>2, MaxMinPair
    <3> QED
      BY <1>2, <3>1, <3>2, <3>3
  <2>6. RangeRows(a, b) = 0 .. Min({rb, NumRows - 1})
    BY <1>3, <1>7, <2>1, <2>2
  <2>7. from \in Nat /\ RangeRows(a, b) = from .. to
    BY <2>4, <2>5, <2>6
  <2>8. NumRows = 0 => from > to
    <3> HIDE DEF from, to
    <3> QED
      BY <2>4, <2>5
  <2> QED
    BY <2>5, <2>7, <2>8
<1>8. CASE ra # NoNumber /\ rb = NoNumber
  <2>1. named = {ra} /\ named # {}
    BY <1>8
  <2>2. Max({ra}) = ra
    <3> DEFINE S == {ra}
    <3>1. S \in SUBSET Int /\ ra \in S /\ \A x \in S : ra >= x
      BY <1>1
    <3> HIDE DEF S
    <3>2. Max(S) = ra
      BY <3>1, MaxIs
    <3> QED
      BY <3>2 DEF S
  <2>3. AskedFirst(a, b) = ra /\ AskedLast(a, b) = NoNumber
    BY <1>1, <1>2, <1>4, <1>5, <1>8, MaxMinPair
  <2>4. from = ra /\ from \in Nat
    BY <1>1, <1>8, <2>3, MaxMinPair DEF FromRow
  <2>5. to = NumRows - 1
    BY <2>3 DEF ToRow
  <2>6. RangeRows(a, b) = ra .. NumRows - 1
    BY <1>3, <1>8, <2>1, <2>2
  <2>7. from \in Nat /\ to \in Int /\ RangeRows(a, b) = from .. to
    BY <1>2, <2>4, <2>5, <2>6
  <2>8. NumRows = 0 => from > to
    <3> HIDE DEF from, to
    <3> QED
      BY <2>5, <2>7
  <2> QED
    BY <2>7, <2>8
<1>9. CASE ra = NoNumber /\ rb = NoNumber
  <2>1. named = {}
    BY <1>9
  <2>2. AskedFirst(a, b) = 0 /\ AskedLast(a, b) = NoNumber
    BY <1>1, <1>2, <1>4, <1>5, <1>9, MaxMinPair
  <2>3. from = 0
    BY <2>2, MaxMinPair DEF FromRow
  <2>4. to = NumRows - 1
    BY <2>2 DEF ToRow
  <2>5. RangeRows(a, b) = 0 .. NumRows - 1
    BY <1>3, <2>1
  <2>7. from \in Nat /\ to \in Int /\ RangeRows(a, b) = from .. to
    BY <1>2, <2>3, <2>4, <2>5
  <2>8. NumRows = 0 => from > to
    <3> HIDE DEF from, to
    <3> QED
      BY <2>4, <2>7
  <2> QED
    BY <2>7, <2>8
<1> QED
  BY <1>6, <1>7, <1>8, <1>9

\* What the aggregator takes from the statistics of its column.
Answer(fn, r) ==
    IF fn = "count" THEN r.count
    ELSE IF fn = "sum" THEN r.sum
    ELSE IF fn = "average" THEN r.sum \div r.count
    ELSE IF fn = "min" THEN r.min
    ELSE r.max

LEMMA AggregateIs ==
    ASSUME NEW fn \in Aggregates, NEW name, NEW first, NEW last
    PROVE  LET c == FindColumn(name)
               r == ComputeColumnStats(c, FromRow(first), ToRow(last))
           IN  Aggregate(fn, name, first, last) =
                   IF c = NoColumn \/ NumRows = 0 \/ FromRow(first) > ToRow(last) THEN Refused
                   ELSE IF fn # "count" /\ ~r.valid THEN Refused
                   ELSE Typed("number", Constantly(Answer(fn, r)), TRUE)
<1> DEFINE c == FindColumn(name)
           from == FromRow(first)
           to == ToRow(last)
           r == ComputeColumnStats(c, from, to)
           value == CASE fn = "sum"     -> r.sum
                      [] fn = "average" -> r.sum \div r.count
                      [] fn = "min"     -> r.min
                      [] fn = "max"     -> r.max
<1>1. Aggregate(fn, name, first, last) =
          IF c = NoColumn \/ NumRows = 0 \/ from > to THEN Refused
          ELSE IF fn = "count" THEN Typed("number", Constantly(r.count), TRUE)
          ELSE IF ~r.valid THEN Refused
          ELSE Typed("number", Constantly(value), TRUE)
  BY DEF Aggregate, FromRow, ToRow
<1>2. fn # "count" => value = Answer(fn, r)
  <2> HIDE DEF r
  <2> QED
    BY DEF Answer, Aggregates
<1>3. fn = "count" => r.count = Answer(fn, r)
  BY DEF Answer
<1> HIDE DEF c, from, to, r, value
<1> QED
  BY <1>1, <1>2, <1>3 DEF c, from, to, r

LEMMA AggregateRefused ==
    ASSUME NEW fn \in Aggregates, NEW a, NEW b, CompileAggregate(fn, a, b).type = "error"
    PROVE  CompileAggregate(fn, a, b) = Refused
<1> DEFINE f == CompileAggregate(fn, a, b)
<1>1. f = Refused \/ f = Aggregate(fn, CellName(a), AskedFirst(a, b), AskedLast(a, b))
  BY DEF CompileAggregate, AskedFirst, AskedLast
<1>2. \/ Aggregate(fn, CellName(a), AskedFirst(a, b), AskedLast(a, b)) = Refused
      \/ Aggregate(fn, CellName(a), AskedFirst(a, b), AskedLast(a, b)).type = "number"
  <2> DEFINE A == Aggregate(fn, CellName(a), AskedFirst(a, b), AskedLast(a, b))
             r == ComputeColumnStats(FindColumn(CellName(a)), FromRow(AskedFirst(a, b)), ToRow(AskedLast(a, b)))
  <2>1. A = Refused \/ A = Typed("number", Constantly(Answer(fn, r)), TRUE)
    BY AggregateIs
  <2> HIDE DEF A, r
  <2>2. A = Refused \/ A.type = "number"
    BY <2>1 DEF Typed
  <2> QED
    BY <2>2 DEF A
<1> QED
  BY <1>1, <1>2

\* An aggregate is refused exactly when it means nothing, and is otherwise a
\* constant: what it means.
LEMMA AggregateAgrees ==
    ASSUME FormulaInv, NEW fn \in Aggregates, NEW a, NEW b, a[2] \in Int, b[2] \in Int
    PROVE  LET f == CompileAggregate(fn, a, b)
               m == AggregateMeans(fn, a, b)
           IN  /\ f.type = m.type
               /\ f.type \in {"number", "error"}
               /\ f.type # "error" => f = Typed("number", Constantly(m.val), TRUE)
<1> DEFINE f == CompileAggregate(fn, a, b)
           m == AggregateMeans(fn, a, b)
           c == FindColumn(CellName(a))
           from == FromRow(AskedFirst(a, b))
           to   == ToRow(AskedLast(a, b))
           s == Selection(c, from, to)
           r == ComputeColumnStats(c, from, to)
<1>1. /\ from \in Nat /\ to \in Int /\ (NumRows = 0 => from > to)
      /\ RangeRows(a, b) = from .. to
  BY AskedRows
<1>2. Refused.type = "error" /\ Stuck.type = "error"
  BY DEF Refused, Stuck
<1>3. f = IF a[1] # b[1] \/ c = NoColumn \/ NumRows = 0 \/ from > to THEN Refused
          ELSE IF fn # "count" /\ ~r.valid THEN Refused
          ELSE Typed("number", Constantly(Answer(fn, r)), TRUE)
  <2>1. f = IF a[1] # b[1] THEN Refused
            ELSE Aggregate(fn, CellName(a), AskedFirst(a, b), AskedLast(a, b))
    BY DEF CompileAggregate, AskedFirst, AskedLast
  <2>2. Aggregate(fn, CellName(a), AskedFirst(a, b), AskedLast(a, b)) =
            IF c = NoColumn \/ NumRows = 0 \/ from > to THEN Refused
            ELSE IF fn # "count" /\ ~r.valid THEN Refused
            ELSE Typed("number", Constantly(Answer(fn, r)), TRUE)
    BY AggregateIs
  <2> HIDE DEF f, c, from, to, r
  <2> QED
    BY <2>1, <2>2
<1>4. m = IF a[1] # b[1] \/ c = NoColumn \/ RangeRows(a, b) = {} THEN Stuck
          ELSE LET q == Selection(c, Min(RangeRows(a, b)), Max(RangeRows(a, b)))
               IN  IF fn = "count" THEN [type |-> "number", val |-> Len(q)]
                   ELSE IF Type(c) = "text" \/ q = << >> THEN Stuck
                   ELSE [type |-> "number",
                         val  |-> CASE fn = "sum"     -> SumOf(q)
                                    [] fn = "average" -> SumOf(q) \div Len(q)
                                    [] fn = "min"     -> Min(ToSet(q))
                                    [] fn = "max"     -> Max(ToSet(q))]
  BY DEF AggregateMeans
<1>5. RangeRows(a, b) = {} <=> from > to
  <2> HIDE DEF from, to
  <2> QED
    BY <1>1
<1>6. from <= to => Min(RangeRows(a, b)) = from /\ Max(RangeRows(a, b)) = to
  <2> HIDE DEF from, to
  <2>1. from \in Int
    BY <1>1
  <2> QED
    BY <1>1, <2>1, IntervalEnds
<1>7. /\ s = << >> <=> Len(s) = 0
      /\ r = IF Type(c) = "text" THEN TextStats(Len(s)) ELSE Scan(s)
  <2>1. Inv
    BY DEF FormulaInv
  <2> HIDE DEF c, from, to
  <2> QED
    BY <1>1, <2>1, ColumnStatsOfSelection
<1> HIDE DEF f, m, c, from, to
<1>8. CASE a[1] # b[1] \/ c = NoColumn \/ from > to
  BY <1>2, <1>3, <1>4, <1>5, <1>8 DEF f, m
<1>9. CASE ~ (a[1] # b[1] \/ c = NoColumn \/ from > to)
  <2>1. from <= to /\ NumRows # 0
    BY <1>1, <1>9
  <2>2. m = IF fn = "count" THEN [type |-> "number", val |-> Len(s)]
            ELSE IF Type(c) = "text" \/ s = << >> THEN Stuck
            ELSE [type |-> "number",
                  val  |-> CASE fn = "sum"     -> SumOf(s)
                             [] fn = "average" -> SumOf(s) \div Len(s)
                             [] fn = "min"     -> Min(ToSet(s))
                             [] fn = "max"     -> Max(ToSet(s))]
    BY <1>4, <1>5, <1>6, <1>9, <2>1
  <2>3. f = IF fn # "count" /\ ~r.valid THEN Refused
            ELSE Typed("number", Constantly(Answer(fn, r)), TRUE)
    BY <1>3, <1>9, <2>1
  <2> HIDE DEF r, s
  <2>4. CASE Type(c) = "text"
    <3>1. r.count = Len(s) /\ r.valid = FALSE
      BY <1>7, <2>4 DEF TextStats, NoStats
    <3>2. CASE fn = "count"
      <4>1. f = Typed("number", Constantly(Len(s)), TRUE) /\ f.type = "number"
        BY <2>3, <3>1, <3>2 DEF Typed, Answer
      <4>2. m.type = "number" /\ m.val = Len(s)
        BY <2>2, <3>2
      <4> QED
        BY <4>1, <4>2 DEF f, m
    <3>3. CASE fn # "count"
      <4>1. f = Refused /\ m = Stuck
        BY <2>2, <2>3, <2>4, <3>1, <3>3
      <4> QED
        BY <1>2, <4>1 DEF f, m
    <3> QED
      BY <3>2, <3>3
  <2>5. CASE Type(c) # "text" /\ s = << >>
    <3>1. r.count = Len(s) /\ r.valid = FALSE
      BY <1>7, <2>5 DEF Scan, NoStats
    <3>2. CASE fn = "count"
      <4>1. f = Typed("number", Constantly(Len(s)), TRUE) /\ f.type = "number"
        BY <2>3, <3>1, <3>2 DEF Typed, Answer
      <4>2. m.type = "number" /\ m.val = Len(s)
        BY <2>2, <3>2
      <4> QED
        BY <4>1, <4>2 DEF f, m
    <3>3. CASE fn # "count"
      <4>1. f = Refused /\ m = Stuck
        BY <2>2, <2>3, <2>5, <3>1, <3>3
      <4> QED
        BY <1>2, <4>1 DEF f, m
    <3> QED
      BY <3>2, <3>3
  <2>6. CASE Type(c) # "text" /\ s # << >>
    <3>1. /\ r.count = Len(s) /\ r.valid = TRUE /\ r.sum = SumOf(s)
          /\ r.min = Min(ToSet(s)) /\ r.max = Max(ToSet(s))
      BY <1>7, <2>6 DEF Scan
    <3>2. f.type = "number" /\ m.type = "number"
      BY <2>2, <2>3, <2>6, <3>1 DEF Typed
    <3>3. f = Typed("number", Constantly(Answer(fn, r)), TRUE)
      BY <2>3, <3>1
    <3>4. m.val = Answer(fn, r)
      BY <2>2, <2>6, <3>1 DEF Answer, Aggregates
    <3> QED
      BY <3>2, <3>3, <3>4 DEF f, m
  <2> QED
    BY <2>4, <2>5, <2>6
<1> QED
  BY <1>8, <1>9
-------------------------------------------------------------------------------
(* The compiler computes what a formula means. *)

RowFns == [BaseCols -> Values]

Agrees(n, row) ==
    LET f == Compile(n)
        m == Means(n, row)
    IN  /\ f = Typed(f.type, f.fn, f.ranged)
        /\ f.type \in {"number", "text", "error"}
        /\ m.type = f.type
        /\ f.type # "error" => /\ DOMAIN f.fn = RowFns
                               /\ f.fn[cells[row]] = m.val
                               /\ f.ranged <=> HasRange(n)

LEMMA CellsOfRow ==
    ASSUME Inv, NEW row \in Rows
    PROVE  cells[row] \in RowFns
  BY DEF Inv, ViewTypes, RowFns

\* A column, read as it is.
LEMMA ColumnAgrees ==
    ASSUME FormulaInv, NEW row \in Rows, NEW n \in Nodes, n.kind = "column"
    PROVE  Agrees(n, row)
<1> DEFINE c == MapColumn(n.val)
           f == Compile(n)
           m == Means(n, row)
<1>1. n.args = << >>
  BY NodesAssumption
<1>2. f = IF c = NoColumn THEN Refused ELSE Typed(Type(c), ColumnFn(c), FALSE)
  BY CompileUnfolds DEF CompileNode
<1>3. m = IF c = NoColumn THEN Stuck ELSE [type |-> Type(c), val |-> ValueIn(cells[row], derived, c)]
  BY MeansUnfolds DEF NodeMeans
<1>4. ~HasRange(n)
  BY <1>1, HasRangeUnfolds
<1>5. CASE c = NoColumn
  BY <1>2, <1>3, <1>5 DEF Agrees, Refused, Stuck, Typed
<1>6. CASE c # NoColumn
  <2>1. c \in Columns
    <3> DEFINE S == {d \in Columns : n.val \in {Label(d), Alias(d)}}
    <3>1. S \in SUBSET Columns /\ c = Max({NoColumn} \cup S) /\ ViewTypes
      BY DEF MapColumn, FormulaInv, Inv
    <3> HIDE DEF S, c
    <3>2. c \in {NoColumn} \cup S
      BY <3>1, LastColumn
    <3> QED
      BY <1>6, <3>1, <3>2
  <2>2. Type(c) \in {"number", "text"}
    BY <2>1, TypeOfColumn
  <2>3. cells[row] \in RowFns
    BY CellsOfRow DEF FormulaInv
  <2>4. DOMAIN ColumnFn(c) = RowFns /\ ColumnFn(c)[cells[row]] = ValueIn(cells[row], derived, c)
    BY <2>3 DEF ColumnFn, RowFns
  <2>5. f.type = Type(c) /\ f.fn = ColumnFn(c) /\ f.ranged = FALSE /\ f = Typed(f.type, f.fn, f.ranged)
    BY <1>2, <1>6 DEF Typed
  <2>6. m.type = Type(c) /\ m.val = ValueIn(cells[row], derived, c)
    BY <1>3, <1>6
  <2> HIDE DEF f, m, c
  <2> QED
    BY <1>4, <2>2, <2>4, <2>5, <2>6 DEF Agrees, f, m
<1> QED
  BY <1>5, <1>6

\* A number, a text, and a range on its own.
LEMMA LeafAgrees ==
    ASSUME FormulaInv, NEW row \in Rows, NEW n \in Nodes, n.kind \in {"number", "string", "range"}
    PROVE  Agrees(n, row)
<1> DEFINE f == Compile(n)
           m == Means(n, row)
<1>1. n.args = << >>
  BY NodesAssumption
<1>2. CASE n.kind = "range"
  <2>1. f = Refused
    BY <1>2, CompileUnfolds DEF CompileNode
  <2>2. m = Stuck
    BY <1>2, MeansUnfolds DEF NodeMeans
  <2> QED
    BY <2>1, <2>2 DEF Agrees, Refused, Stuck, Typed
<1>3. CASE n.kind # "range"
  <2> DEFINE t == IF n.kind = "number" THEN "number" ELSE "text"
  <2>1. f = Typed(t, Constantly(n.val), FALSE)
    BY <1>3, CompileUnfolds DEF CompileNode
  <2>2. m = [type |-> t, val |-> n.val]
    BY <1>3, MeansUnfolds DEF NodeMeans
  <2>3. ~HasRange(n)
    BY <1>1, <1>3, HasRangeUnfolds
  <2>4. cells[row] \in RowFns
    BY CellsOfRow DEF FormulaInv
  <2>5. DOMAIN Constantly(n.val) = RowFns /\ Constantly(n.val)[cells[row]] = n.val
    BY <2>4 DEF Constantly, RowFns
  <2>6. f.type = t /\ f.fn = Constantly(n.val) /\ f.ranged = FALSE /\ f = Typed(f.type, f.fn, f.ranged)
    BY <2>1 DEF Typed
  <2>7. m.type = t /\ m.val = n.val /\ t \in {"number", "text"}
    BY <2>2
  <2> HIDE DEF f, m, t
  <2> QED
    BY <2>3, <2>5, <2>6, <2>7 DEF Agrees, f, m
<1> QED
  BY <1>2, <1>3

\* An aggregate over a range.
LEMMA OverRangeAgrees ==
    ASSUME FormulaInv, NEW row \in Rows, NEW n \in Nodes, n.kind = "call", OverRange(n)
    PROVE  Agrees(n, row)
<1> DEFINE f == Compile(n)
           m == Means(n, row)
           r == n.args[1]
           a == r.val[1]
           b == r.val[2]
<1>1. n.val \in Aggregates /\ 1 \in DOMAIN n.args /\ r \in Nodes /\ r.kind = "range"
  BY NodesAssumption DEF OverRange
<1>2. a[2] \in Int /\ b[2] \in Int
  BY <1>1, NodesAssumption
<1>3. f = CompileAggregate(n.val, a, b)
  BY CompileUnfolds DEF CompileNode
<1>4. m = AggregateMeans(n.val, a, b)
  BY MeansUnfolds DEF NodeMeans
<1>5. HasRange(n)
  <2>1. HasRange(r)
    BY <1>1, HasRangeUnfolds
  <2> QED
    BY <1>1, <2>1, HasRangeUnfolds
<1>6. /\ f.type = m.type
      /\ f.type \in {"number", "error"}
      /\ f.type # "error" => f = Typed("number", Constantly(m.val), TRUE)
  <2> HIDE DEF f, m, a, b
  <2> QED
    BY <1>1, <1>2, <1>3, <1>4, AggregateAgrees
<1>7. cells[row] \in RowFns
  BY CellsOfRow DEF FormulaInv
<1>8. CASE f.type = "error"
  <2>1. f = Refused
    <3> HIDE DEF f, m, a, b
    <3> QED
      BY <1>1, <1>3, <1>8, AggregateRefused
  <2>2. f = Typed(f.type, f.fn, f.ranged)
    BY <2>1 DEF Refused, Typed
  <2> HIDE DEF f, m
  <2> QED
    BY <1>6, <1>8, <2>2 DEF Agrees, f, m
<1>9. CASE f.type # "error"
  <2>1. f.fn = Constantly(m.val) /\ f.ranged = TRUE /\ f = Typed(f.type, f.fn, f.ranged)
    BY <1>6, <1>9 DEF Typed
  <2>2. DOMAIN Constantly(m.val) = RowFns /\ Constantly(m.val)[cells[row]] = m.val
    BY <1>7 DEF Constantly, RowFns
  <2> HIDE DEF f, m
  <2> QED
    BY <1>5, <1>6, <2>1, <2>2 DEF Agrees, f, m
<1> QED
  BY <1>8, <1>9

\* A function wants arguments of the types it computes with, or wants "none".
LEMMA SignatureTypes ==
    ASSUME NEW fn, NEW arity
    PROVE  \/ Signature(fn, arity)[2] \in {"number", "text"}
           \/ Signature(fn, arity) = << <<"none">>, "error">>
  BY DEF Signature

\* An argument is coerced exactly when its value fits, and to that value.
LEMMA CoercedAgrees ==
    ASSUME NEW x, NEW row, NEW want, Agrees(x, row), cells[row] \in RowFns
    PROVE  LET g == Coerced(Compile(x), want)
               m == Means(x, row)
           IN  /\ g.type = "error" <=> ~Fits(m, want)
               /\ Fits(m, want) => /\ g.fn[cells[row]] = TextOrNumber(m, want)
                                   /\ g.ranged <=> HasRange(x)
<1> DEFINE f == Compile(x)
           m == Means(x, row)
           g == Coerced(f, want)
           numeral == [rowCells \in RowFns |-> NumeralLength(f.fn[rowCells])]
<1>1. /\ f = Typed(f.type, f.fn, f.ranged)
      /\ m.type = f.type
      /\ f.type # "error" => /\ DOMAIN f.fn = RowFns
                             /\ f.fn[cells[row]] = m.val
                             /\ f.ranged <=> HasRange(x)
  BY DEF Agrees
<1>2. g = IF f.type = "error" \/ want \notin {f.type, "any"} THEN Refused
          ELSE IF want = "any" /\ f.type = "number" THEN [f EXCEPT !.fn = numeral]
          ELSE f
  BY DEF Coerced, RowFns
<1>3. Fits(m, want) <=> ~ (f.type = "error" \/ want \notin {f.type, "any"})
  BY <1>1 DEF Fits
<1>4. TextOrNumber(m, want) = IF want = "any" /\ f.type = "number" THEN NumeralLength(m.val) ELSE m.val
  BY <1>1 DEF TextOrNumber
<1>5. numeral[cells[row]] = NumeralLength(f.fn[cells[row]])
  OBVIOUS
<1>6. [f EXCEPT !.fn = numeral] = Typed(f.type, numeral, f.ranged)
  <2> HIDE DEF f, numeral
  <2> QED
    BY <1>1 DEF Typed
<1> HIDE DEF f, g, m, numeral
<1>7. CASE ~Fits(m, want)
  <2>1. g = Refused /\ g.type = "error"
    BY <1>2, <1>3, <1>7 DEF Refused
  <2> QED
    BY <1>7, <2>1 DEF g, f, m
<1>8. CASE Fits(m, want) /\ want = "any" /\ f.type = "number"
  <2>1. g = Typed(f.type, numeral, f.ranged)
    BY <1>2, <1>3, <1>6, <1>8
  <2>2. g.type = f.type /\ g.fn = numeral /\ g.ranged = f.ranged
    BY <2>1 DEF Typed
  <2> QED
    BY <1>1, <1>3, <1>4, <1>5, <1>8, <2>2 DEF g, f, m
<1>9. CASE Fits(m, want) /\ ~ (want = "any" /\ f.type = "number")
  <2>1. g = f
    BY <1>2, <1>3, <1>9
  <2> QED
    BY <1>1, <1>3, <1>4, <1>9, <2>1 DEF g, f, m
<1> QED
  BY <1>7, <1>8, <1>9

\* A call of a function on arguments that agree.
LEMMA CallAgrees ==
    ASSUME FormulaInv, NEW row \in Rows, NEW n \in Nodes, n.kind = "call", ~OverRange(n),
           \A i \in DOMAIN n.args : Agrees(n.args[i], row)
    PROVE  Agrees(n, row)
<1> DEFINE compiled == [i \in DOMAIN n.args |-> Compile(n.args[i])]
           vals     == [i \in DOMAIN n.args |-> Means(n.args[i], row)]
           k        == Len(n.args)
           sig      == Signature(n.val, k)
           args     == [i \in 1 .. k |-> Coerced(Compile(n.args[i]), sig[1][i])]
           fits     == k = Len(sig[1]) /\ \A i \in 1 .. k : Fits(Means(n.args[i], row), sig[1][i])
           fn       == [rowCells \in RowFns |-> Apply(n.val, [i \in 1 .. k |-> args[i].fn[rowCells]])]
           f        == Compile(n)
           m        == Means(n, row)
<1>1. n.args \in Seq(Nodes) /\ k \in Nat /\ DOMAIN n.args = 1 .. k
  BY NodesAssumption
<1>2. Len(compiled) = k /\ DOMAIN compiled = 1 .. k /\ Len(vals) = k /\ DOMAIN vals = 1 .. k
  <2> HIDE DEF k
  <2> QED
    BY <1>1
<1>3. cells[row] \in RowFns
  BY CellsOfRow DEF FormulaInv
<1>4. \A i \in 1 .. k : /\ args[i].type = "error" <=> ~Fits(Means(n.args[i], row), sig[1][i])
                        /\ Fits(Means(n.args[i], row), sig[1][i]) =>
                               /\ args[i].fn[cells[row]] = TextOrNumber(Means(n.args[i], row), sig[1][i])
                               /\ args[i].ranged <=> HasRange(n.args[i])
  <2> HIDE DEF k, sig
  <2> QED
    BY <1>1, <1>3, CoercedAgrees
<1>5. f = IF fits THEN Typed(sig[2], fn, \E i \in 1 .. k : args[i].ranged) ELSE Refused
  <2>1. f = CompileCall(n.val, compiled)
    BY CompileUnfolds DEF CompileNode
  <2>2. \A i \in 1 .. k : compiled[i] = Compile(n.args[i])
    BY <1>1
  <2>3. [i \in DOMAIN compiled |-> Coerced(compiled[i], Signature(n.val, Len(compiled))[1][i])] = args
    <3> HIDE DEF k, compiled
    <3> QED
      BY <1>2, <2>2
  <2>4. (Len(compiled) # Len(sig[1]) \/ \E i \in DOMAIN args : args[i].type = "error") <=> ~fits
    <3> HIDE DEF compiled, k, sig
    <3>1. DOMAIN args = 1 .. k
      OBVIOUS
    <3> HIDE DEF args
    <3> QED
      BY <1>2, <1>4, <3>1
  <2>5. DOMAIN args = 1 .. k
    OBVIOUS
  <2> HIDE DEF compiled, args, f, fits, k
  <2> QED
    BY <1>2, <2>1, <2>3, <2>4, <2>5 DEF CompileCall, RowFns
<1>6. m = IF fits
          THEN [type |-> sig[2],
                val  |-> Apply(n.val, [i \in 1 .. k |-> TextOrNumber(Means(n.args[i], row), sig[1][i])])]
          ELSE Stuck
  <2>1. m = CallMeans(n.val, vals)
    BY MeansUnfolds DEF NodeMeans
  <2>2. \A i \in 1 .. k : vals[i] = Means(n.args[i], row)
    BY <1>1
  <2>3. [i \in DOMAIN vals |-> TextOrNumber(vals[i], Signature(n.val, Len(vals))[1][i])]
           = [i \in 1 .. k |-> TextOrNumber(Means(n.args[i], row), sig[1][i])]
    <3> HIDE DEF k, vals
    <3> QED
      BY <1>2, <2>2
  <2>4. (Len(vals) = Len(Signature(n.val, Len(vals))[1])
            /\ \A i \in DOMAIN vals : Fits(vals[i], Signature(n.val, Len(vals))[1][i])) <=> fits
    <3> HIDE DEF k, vals
    <3> QED
      BY <1>2, <2>2
  <2> HIDE DEF vals, fits, m, k
  <2> QED
    BY <1>2, <2>1, <2>3, <2>4 DEF CallMeans
<1> HIDE DEF f, m
<1>7. CASE ~fits
  <2>1. f = Refused /\ m = Stuck
    BY <1>5, <1>6, <1>7
  <2> QED
    BY <2>1 DEF Agrees, Refused, Stuck, Typed, f, m
<1>8. CASE fits
  <2>1. sig[2] \in {"number", "text"}
    <3>1. CASE sig = << <<"none">>, "error">>
      <4>1. k = 1 /\ sig[1][1] = "none"
        BY <1>8, <3>1
      <4>2. Fits(Means(n.args[1], row), "none")
        BY <1>8, <4>1
      <4>3. Agrees(n.args[1], row)
        BY <1>1, <4>1
      <4> QED
        BY <4>2, <4>3 DEF Fits, Agrees
    <3> QED
      BY <3>1, SignatureTypes
  <2>2. f.type = sig[2] /\ f.fn = fn /\ (f.ranged <=> \E i \in 1 .. k : args[i].ranged)
        /\ f = Typed(f.type, f.fn, f.ranged)
    <3> HIDE DEF fits, args, sig, fn, k
    <3> QED
      BY <1>5, <1>8 DEF Typed
  <2>3. m.type = sig[2]
        /\ m.val = Apply(n.val, [i \in 1 .. k |-> TextOrNumber(Means(n.args[i], row), sig[1][i])])
    <3> HIDE DEF fits, sig, k
    <3> QED
      BY <1>6, <1>8
  <2>4. fn[cells[row]] = m.val
    <3>1. fn[cells[row]] = Apply(n.val, [i \in 1 .. k |-> args[i].fn[cells[row]]])
      BY <1>3
    <3>2. [i \in 1 .. k |-> args[i].fn[cells[row]]]
             = [i \in 1 .. k |-> TextOrNumber(Means(n.args[i], row), sig[1][i])]
      <4>1. \A i \in 1 .. k : args[i].fn[cells[row]] = TextOrNumber(Means(n.args[i], row), sig[1][i])
        <5> HIDE DEF args, k, sig
        <5> QED
          BY <1>4, <1>8
      <4> HIDE DEF args, k, sig
      <4> QED
        BY <4>1
    <3> HIDE DEF fn, args, sig, k
    <3> QED
      BY <2>3, <3>1, <3>2
  <2>5. DOMAIN fn = RowFns
    OBVIOUS
  <2>6. f.ranged <=> HasRange(n)
    <3>1. \A i \in 1 .. k : args[i].ranged <=> HasRange(n.args[i])
      <4> HIDE DEF args, k, sig
      <4> QED
        BY <1>4, <1>8
    <3>2. HasRange(n) <=> \E i \in 1 .. k : HasRange(n.args[i])
      BY <1>1, HasRangeUnfolds
    <3> HIDE DEF args, k
    <3> QED
      BY <2>2, <3>1, <3>2
  <2> HIDE DEF fn, sig, fits, args, k
  <2> QED
    BY <2>1, <2>2, <2>3, <2>4, <2>5, <2>6 DEF Agrees, f, m
<1> QED
  BY <1>7, <1>8

\* By induction over the trees.
LEMMA CompilerAgrees ==
    ASSUME FormulaInv, NEW row \in Rows
    PROVE  \A n \in Nodes : Agrees(n, row)
<1> DEFINE S == {n \in Nodes : Agrees(n, row)}
<1>1. ASSUME NEW n \in Nodes, \A i \in DOMAIN n.args : n.args[i] \in S
      PROVE  n \in S
  <2>1. CASE n.kind = "column"
    BY <2>1, ColumnAgrees
  <2>2. CASE n.kind \in {"number", "string", "range"}
    BY <2>2, LeafAgrees
  <2>3. CASE n.kind = "call" /\ OverRange(n)
    BY <2>3, OverRangeAgrees
  <2>4. CASE n.kind = "call" /\ ~OverRange(n)
    BY <1>1, <2>4, CallAgrees
  <2> QED
    BY <2>1, <2>2, <2>3, <2>4, NodesAssumption
<1> HIDE DEF S
<1>2. Nodes \subseteq S
  BY <1>1, TreeInduction
<1> QED
  BY <1>2 DEF S
-------------------------------------------------------------------------------
(* The statistics dialog and new columns. *)

\* Part of the view, as the dialog reads it and as the reference cuts it.
LEMMA DialogPart ==
    ASSUME Inv, NEW p \in Int, NEW q \in Int
    PROVE  LET first == Max({p, 0})
               last  == Min({q, VisibleRows - 1})
           IN  /\ first \in Nat /\ last \in Int /\ last < VisibleRows
               /\ SubSeq(ShownRows, first + 1, Min({q + 1, Len(ShownRows)})) = RowsOfView(first, last)
               /\ Max({first, 0}) = first /\ Min({last, VisibleRows - 1}) = last
<1> DEFINE first == IF p >= 0 THEN p ELSE 0
           last  == IF q <= VisibleRows - 1 THEN q ELSE VisibleRows - 1
<1>1. VisibleRows \in Nat /\ Len(ShownRows) = VisibleRows
  BY ShownRowsAre
<1>2. VisibleRows - 1 \in Int /\ q + 1 \in Int /\ VisibleRows \in Int
  BY <1>1
<1>3. Max({p, 0}) = first /\ first \in Nat
  BY MaxMinPair
<1>4. Min({q, VisibleRows - 1}) = last
  BY <1>2, MaxMinPair
<1>5. last \in Int /\ last < VisibleRows /\ last <= VisibleRows - 1
  BY <1>2
<1>6. Min({q + 1, Len(ShownRows)}) = last + 1
  <2>1. Min({q + 1, VisibleRows}) = IF q + 1 <= VisibleRows THEN q + 1 ELSE VisibleRows
    BY <1>2, MaxMinPair
  <2> QED
    BY <1>1, <1>2, <2>1
<1> HIDE DEF first, last
<1>7. SubSeq(ShownRows, first + 1, last + 1) = RowsOfView(first, last)
  BY <1>3, <1>5, PartRows
<1>8. Max({first, 0}) = first
  BY <1>3, MaxMinPair
<1>9. Min({last, VisibleRows - 1}) = last
  BY <1>2, <1>5, MaxMinPair
<1> QED
  BY <1>3, <1>4, <1>5, <1>6, <1>7, <1>8, <1>9

LEMMA ColumnMeans ==
    ASSUME NEW n \in Nodes, n.kind = "column", NEW row
    PROVE  Means(n, row) = IF MapColumn(n.val) = NoColumn THEN Stuck
                           ELSE [type |-> Type(MapColumn(n.val)),
                                 val  |-> ValueIn(cells[row], derived, MapColumn(n.val))]
  BY MeansUnfolds DEF NodeMeans

LEMMA StatsAgree ==
    ASSUME FormulaInv, NamesAgree, NEW n \in Nodes, NEW p \in Int, NEW q \in Int
    PROVE  ComputeFormulaStats(n, p, q) =
               StatsMean(n, SubSeq(ShownRows, Max({p, 0}) + 1, Min({q + 1, Len(ShownRows)})))
<1> DEFINE first == Max({p, 0})
           last  == Min({q, VisibleRows - 1})
           rows  == RowsOfView(first, last)
           f     == Compile(n)
           here  == Means(n, rows[1])
           c     == FindColumn(n.val)
<1>1. Inv /\ ViewTypes
  BY DEF FormulaInv, Inv
<1>2. /\ first \in Nat /\ last \in Int /\ last < VisibleRows
      /\ SubSeq(ShownRows, first + 1, Min({q + 1, Len(ShownRows)})) = rows
      /\ Max({first, 0}) = first /\ Min({last, VisibleRows - 1}) = last
  BY <1>1, DialogPart
<1>3. ComputeFormulaStats(n, p, q) =
          IF NumRows = 0 \/ last < first THEN NoStats
          ELSE IF n.kind = "column" /\ c # NoColumn THEN ComputeColumnStats(c, first, last)
          ELSE IF f.type = "error" THEN Failed
          ELSE IF f.type = "text" THEN TextStats(last - first + 1)
          ELSE IF f.ranged THEN ScalarStats(f.fn[cells[UnderlyingRow(first)]])
          ELSE Scan(ValuesAt(f.fn, rows))
  BY DEF ComputeFormulaStats
<1>4. StatsMean(n, rows) =
          IF rows = << >> THEN NoStats
          ELSE IF here.type = "error" THEN Failed
          ELSE IF here.type = "text" THEN TextStats(Len(rows))
          ELSE IF HasRange(n) THEN ScalarStats(here.val)
          ELSE Scan([i \in DOMAIN rows |-> Means(n, rows[i]).val])
  BY DEF StatsMean
<1>5. ComputeColumnStats(c, first, last) =
          IF Type(c) = "text" THEN TextStats(Len(rows)) ELSE Scan(ValuesAt(ColumnFn(c), rows))
  BY <1>2 DEF ComputeColumnStats
<1> SUFFICES ComputeFormulaStats(n, p, q) = StatsMean(n, rows)
  BY <1>2
<1> HIDE DEF first, last
<1>6. /\ rows \in Seq(Rows)
      /\ Len(rows) = IF first <= last THEN last - first + 1 ELSE 0
      /\ \A i \in 1 .. Len(rows) : rows[i] \in Rows
  <2>1. rows \in Seq(Rows) /\ Len(rows) = IF first <= last THEN last - first + 1 ELSE 0
    BY <1>1, <1>2, PartRows
  <2> HIDE DEF rows
  <2> QED
    BY <2>1
<1>7. CASE NumRows = 0 \/ last < first
  <2>1. rows = << >>
    <3>1. CASE last < first
      BY <1>2, <1>6, <3>1
    <3>2. CASE NumRows = 0
      <4>1. Rows = {}
        BY <3>2 DEF Rows
      <4> HIDE DEF rows
      <4> QED
        BY <1>6, <4>1
    <3> QED
      BY <1>7, <3>1, <3>2
  <2> HIDE DEF rows
  <2> QED
    BY <1>3, <1>4, <1>7, <2>1
<1>8. CASE ~ (NumRows = 0 \/ last < first)
  <2>1. Len(rows) = last - first + 1 /\ Len(rows) \in Nat /\ Len(rows) > 0
    BY <1>2, <1>6, <1>8
  <2>2. rows # << >> /\ rows[1] \in Rows /\ DOMAIN rows = 1 .. Len(rows)
    <3> HIDE DEF rows
    <3> QED
      BY <1>6, <2>1
  <2>3. rows[1] = UnderlyingRow(first)
    <3>1. Max({0, last - first + 1}) = last - first + 1
      BY <1>2, <1>8, MaxMinPair
    <3>2. rows = [i \in 1 .. last - first + 1 |-> UnderlyingRow(first + i - 1)]
      BY <3>1 DEF RowsOfView
    <3>3. 1 \in 1 .. last - first + 1 /\ first + 1 - 1 = first
      BY <1>2, <1>8
    <3> HIDE DEF rows
    <3> QED
      BY <3>2, <3>3
  <2>4. \A r \in Rows : Agrees(n, r)
    BY CompilerAgrees
  <2>5. CASE n.kind = "column" /\ c # NoColumn
    <3>1. MapColumn(n.val) = c /\ c \in Columns
      BY <1>1, <2>5, FindColumnType, LookupsAgree
    <3>2. \A i \in DOMAIN rows : /\ Means(n, rows[i]).type = Type(c)
                                 /\ Means(n, rows[i]).val = ValueIn(cells[rows[i]], derived, c)
      <4> HIDE DEF c, rows
      <4> QED
        BY <2>5, <3>1, ColumnMeans
    <3>3. Type(c) \in {"number", "text"}
      BY <3>1, TypeOfColumn
    <3>4. ~HasRange(n)
      BY <2>5, HasRangeUnfolds, NodesAssumption
    <3>5. ValuesAt(ColumnFn(c), rows) = [i \in DOMAIN rows |-> Means(n, rows[i]).val]
      <4>1. ValuesAt(ColumnFn(c), rows) = [i \in DOMAIN rows |-> ValueIn(cells[rows[i]], derived, c)]
        BY <1>1, <1>6, ColumnValues
      <4> HIDE DEF c, rows
      <4> QED
        BY <3>2, <4>1
    <3>6. here.type = Type(c)
      BY <2>1, <2>2, <3>2
    <3> HIDE DEF c, rows, here
    <3> QED
      BY <1>3, <1>4, <1>5, <1>8, <2>2, <2>5, <3>3, <3>4, <3>5, <3>6
  <2>6. CASE ~ (n.kind = "column" /\ c # NoColumn)
    <3>1. Agrees(n, rows[1])
      BY <2>2, <2>4
    <3>2. /\ f.type \in {"number", "text", "error"} /\ here.type = f.type
          /\ f.type # "error" => /\ f.fn[cells[rows[1]]] = here.val
                                 /\ f.ranged <=> HasRange(n)
      BY <3>1 DEF Agrees
    <3>3. f.type # "error" => ValuesAt(f.fn, rows) = [i \in DOMAIN rows |-> Means(n, rows[i]).val]
      <4>1. \A i \in DOMAIN rows : f.type # "error" => f.fn[cells[rows[i]]] = Means(n, rows[i]).val
        <5> SUFFICES ASSUME NEW i \in DOMAIN rows
                     PROVE  f.type # "error" => f.fn[cells[rows[i]]] = Means(n, rows[i]).val
          OBVIOUS
        <5>1. rows[i] \in Rows
          <6> HIDE DEF rows
          <6> QED
            BY <1>6, <2>2
        <5>2. Agrees(n, rows[i])
          BY <2>4, <5>1
        <5> QED
          BY <5>2 DEF Agrees
      <4> HIDE DEF f, rows
      <4> QED
        BY <4>1 DEF ValuesAt
    <3> HIDE DEF c, rows, here, f
    <3> QED
      BY <1>3, <1>4, <1>8, <2>1, <2>2, <2>3, <2>6, <3>2, <3>3
  <2> QED
    BY <2>5, <2>6
<1> QED
  BY <1>7, <1>8

\* Also on a table without rows, where there is nothing to agree about.
LEMMA CompiledTypes ==
    ASSUME FormulaInv
    PROVE  \A n \in Nodes : Compile(n).type \in {"number", "text", "error"}
<1> DEFINE S == {n \in Nodes : Compile(n).type \in {"number", "text", "error"}}
<1>1. ASSUME NEW n \in Nodes, \A i \in DOMAIN n.args : n.args[i] \in S
      PROVE  n \in S
  <2> DEFINE f == Compile(n)
  <2>1. f = CompileNode(n, [i \in DOMAIN n.args |-> Compile(n.args[i])])
    BY CompileUnfolds
  <2>2. CASE n.kind \in {"number", "string", "range"}
    BY <2>1, <2>2 DEF CompileNode, Typed, Refused
  <2>3. CASE n.kind = "column"
    <3> DEFINE c == MapColumn(n.val)
               T == {d \in Columns : n.val \in {Label(d), Alias(d)}}
    <3>1. T \in SUBSET Columns /\ c = Max({NoColumn} \cup T) /\ ViewTypes
      BY DEF MapColumn, FormulaInv, Inv
    <3>2. c = NoColumn \/ c \in Columns
      <4> HIDE DEF T, c
      <4>1. c \in {NoColumn} \cup T
        BY <3>1, LastColumn
      <4> QED
        BY <3>1, <4>1
    <3>3. c = NoColumn \/ Type(c) \in {"number", "text"}
      BY <3>2, TypeOfColumn
    <3>4. f = IF c = NoColumn THEN Refused ELSE Typed(Type(c), ColumnFn(c), FALSE)
      BY <2>1, <2>3 DEF CompileNode
    <3> HIDE DEF c, f
    <3> QED
      BY <3>3, <3>4 DEF Typed, Refused, f
  <2>4. CASE n.kind = "call" /\ OverRange(n)
    <3>1. f = CompileAggregate(n.val, n.args[1].val[1], n.args[1].val[2])
      BY <2>1, <2>4 DEF CompileNode
    <3>2. n.val \in Aggregates /\ n.args[1] \in Nodes /\ n.args[1].kind = "range"
      BY <2>4, NodesAssumption DEF OverRange
    <3>3. n.args[1].val[1][2] \in Int /\ n.args[1].val[2][2] \in Int
      BY <3>2, NodesAssumption
    <3> DEFINE a == n.args[1].val[1]
               b == n.args[1].val[2]
    <3> HIDE DEF f, a, b
    <3>4. CompileAggregate(n.val, a, b).type \in {"number", "error"}
      BY <3>2, <3>3, AggregateAgrees DEF a, b
    <3> QED
      BY <3>1, <3>4 DEF f, a, b
  <2>5. CASE n.kind = "call" /\ ~OverRange(n)
    <3> DEFINE compiled == [i \in DOMAIN n.args |-> Compile(n.args[i])]
               sig == Signature(n.val, Len(compiled))
    <3>1. f = CompileCall(n.val, compiled)
      BY <2>1, <2>5 DEF CompileNode
    <3>2. \A i \in DOMAIN compiled : compiled[i].type \in {"number", "text", "error"}
      BY <1>1
    <3>3. DOMAIN compiled = 1 .. Len(compiled)
      <4>1. n.args \in Seq(Nodes)
        BY NodesAssumption
      <4> QED
        BY <4>1
    <3> HIDE DEF compiled, f
    <3>4. CASE sig = << <<"none">>, "error">> /\ Len(compiled) = Len(sig[1])
      <4>1. Len(compiled) = 1 /\ sig[1][1] = "none"
        BY <3>4
      <4>2. 1 \in DOMAIN compiled /\ Coerced(compiled[1], sig[1][1]) = Refused
        BY <3>2, <3>3, <4>1 DEF Coerced
      <4>3. f = Refused
        <5> DEFINE args == [i \in DOMAIN compiled |-> Coerced(compiled[i], sig[1][i])]
        <5>1. f = IF Len(compiled) # Len(sig[1]) \/ \E i \in DOMAIN args : args[i].type = "error"
                  THEN Refused
                  ELSE Typed(sig[2],
                             [rowCells \in [BaseCols -> Values] |->
                                 Apply(n.val, [i \in DOMAIN args |-> args[i].fn[rowCells]])],
                             \E i \in DOMAIN args : args[i].ranged)
          BY <3>1 DEF CompileCall
        <5>2. 1 \in DOMAIN args /\ args[1].type = "error"
          BY <4>2 DEF Refused
        <5> HIDE DEF args
        <5> QED
          BY <5>1, <5>2
      <4> QED
        BY <4>3 DEF f, Refused
    <3>5. CASE ~ (sig = << <<"none">>, "error">> /\ Len(compiled) = Len(sig[1]))
      <4>1. f.type = "error" \/ (f.type = sig[2] /\ Len(compiled) = Len(sig[1]))
        BY <3>1 DEF CompileCall, Typed, Refused
      <4> HIDE DEF sig
      <4>2. sig[2] \in {"number", "text"} \/ sig = << <<"none">>, "error">>
        BY SignatureTypes DEF sig
      <4> QED
        BY <3>5, <4>1, <4>2 DEF f
    <3> QED
      BY <3>4, <3>5
  <2> QED
    BY <2>2, <2>3, <2>4, <2>5, NodesAssumption
<1> HIDE DEF S
<1>2. Nodes \subseteq S
  BY <1>1, TreeInduction
<1> QED
  BY <1>2 DEF S

LEMMA AddFormulaInv ==
    ASSUME FormulaInv, NEW n \in DOMAIN FormulaList, AddFormula(n)
    PROVE  FormulaInv'
<1> DEFINE f == Compile(FormulaList[n])
<1>1. /\ f.type # "error" /\ AddDerivedColumn(Stored(n))
      /\ derivedTypes' = Append(derivedTypes, f.type)
      /\ formulaOf' = Append(formulaOf, n)
  BY AddFormulaStores
<1>2. FormulaList[n] \in Nodes
  BY FormulaAssumption
<1>3. f.type \in {"number", "text"}
  BY <1>1, <1>2, CompiledTypes
<1> HIDE DEF f
<1>4. Inv'
  BY <1>1, AddDerivedColumnInv DEF FormulaInv
<1>5. derived' = Append(derived, Stored(n)) /\ IsSequence(derived)
  BY <1>1 DEF AddDerivedColumn, FormulaInv, Inv, ViewTypes
<1>6. Len(derived') = Len(derived) + 1
  BY <1>5, AppendSequence
<1>7. derivedTypes' \in Seq({"number", "text"}) /\ Len(derivedTypes') = Len(derived) + 1
  BY <1>1, <1>3 DEF FormulaInv
<1>8. formulaOf' \in Seq(DOMAIN FormulaList)
  BY <1>1 DEF FormulaInv
<1> QED
  BY <1>4, <1>6, <1>7, <1>8 DEF FormulaInv

LEMMA FormulaNextInv == FormulaInv /\ [FormulaNext]_formulaVars => FormulaInv'
<1> SUFFICES ASSUME FormulaInv, [FormulaNext]_formulaVars
             PROVE  FormulaInv'
  OBVIOUS
<1>1. CASE FilterOrEdit /\ UNCHANGED <<derivedTypes, formulaOf>>
  BY <1>1, FilterOrEditInv DEF FormulaInv
<1>2. ASSUME NEW n \in DOMAIN FormulaList, AddFormula(n)
      PROVE  FormulaInv'
  BY <1>2, AddFormulaInv
<1>3. CASE UNCHANGED formulaVars
  <2>1. Inv' /\ derived' = derived
    BY <1>3, NextInv DEF formulaVars, vars, FormulaInv
  <2> QED
    BY <1>3, <2>1 DEF FormulaInv, formulaVars
<1> QED
  BY <1>1, <1>2, <1>3 DEF FormulaNext

LEMMA FormulaInvAlways == FormulaSpec => []FormulaInv
  BY FormulaInitInv, FormulaNextInv, PTL DEF FormulaSpec
-------------------------------------------------------------------------------
(* With formulas in the columns the view keeps what it promises: every cached *)
(* set is exact, the matching rows are shown in table order, the grid's       *)
(* counts do not drift and outside filtering mode nothing is hidden.          *)
THEOREM ViewKeptWithFormulas ==
    FormulaSpec => [](CacheExact /\ ViewExact /\ GridInSync /\ NoHiddenFilters)
<1>1. FormulaInv => CacheExact /\ ViewExact /\ GridInSync /\ NoHiddenFilters
  BY DEF FormulaInv, Inv
<1> QED
  BY <1>1, FormulaInvAlways, PTL

(* Whatever part of the view the dialog is asked about, by any pair of view   *)
(* rows.                                                                      *)
AnswersAnyPart ==
    NamesAgree =>
        \A n \in DOMAIN FormulaList : \A p, q \in Int :
            ComputeFormulaStats(FormulaList[n], p, q) =
                StatsMean(FormulaList[n],
                          SubSeq(ShownRows, Max({p, 0}) + 1, Min({q + 1, Len(ShownRows)})))

(* The statistics dialog answers for exactly the rows the grid shows, for     *)
(* every list of formulas, of any depth, on a table of any size: what the     *)
(* compiled formula yields is what the formula means, row by row              *)
(* (ComputeFormulaStats, CompileTyped).                                       *)
THEOREM DialogAnswersAnyPart == FormulaSpec => []AnswersAnyPart
<1>1. FormulaInv => AnswersAnyPart
  <2> SUFFICES ASSUME FormulaInv, NamesAgree, NEW n \in DOMAIN FormulaList, NEW p \in Int, NEW q \in Int
               PROVE  ComputeFormulaStats(FormulaList[n], p, q) =
                          StatsMean(FormulaList[n],
                                    SubSeq(ShownRows, Max({p, 0}) + 1, Min({q + 1, Len(ShownRows)})))
    BY DEF AnswersAnyPart
  <2>1. FormulaList[n] \in Nodes
    BY FormulaAssumption
  <2> QED
    BY <2>1, StatsAgree
<1> QED
  BY <1>1, FormulaInvAlways, PTL

(* The same for the parts of the view that the run asks about.                *)
THEOREM DialogAnswersShownRows == FormulaSpec => []AnswersShownRows
<1>1. AnswersAnyPart => AnswersShownRows
  <2> SUFFICES ASSUME AnswersAnyPart, NamesAgree, NEW n \in DOMAIN FormulaList,
                      NEW part \in {<<-1, NumRows>>, <<1, 1>>}
               PROVE  ComputeFormulaStats(FormulaList[n], part[1], part[2]) =
                          StatsMean(FormulaList[n],
                                    SubSeq(ShownRows, Max({part[1], 0}) + 1,
                                           Min({part[2] + 1, Len(ShownRows)})))
    BY DEF AnswersShownRows
  <2>1. part[1] \in Int /\ part[2] \in Int
    BY FilteredViewAssumption
  <2> QED
    BY <2>1 DEF AnswersAnyPart
<1> QED
  BY <1>1, DialogAnswersAnyPart, PTL

LEMMA AddedColumnShows ==
    ASSUME FormulaInv, [FormulaNext]_formulaVars, Len(derived') > Len(derived), NEW r \in Rows
    PROVE  LET m == Means(FormulaList[Last(formulaOf')], r)
               v == ValueIn(cells[r], derived', NumCols)
           IN  /\ Last(derivedTypes') = m.type
               /\ v = IF m.type = "text" THEN Min({m.val, MaxText}) ELSE m.val
<1>1. Len(derived) \in Nat /\ NumCols = NumBaseCols + Len(derived) /\ IsSequence(derived)
  BY ColumnCount DEF FormulaInv, Inv, ViewTypes
<1>2. derived' # derived
  BY <1>1
<1>3. PICK n \in DOMAIN FormulaList : AddFormula(n)
  <2>1. ~FilterOrEdit
    BY <1>2, FilterOrEditInv DEF FormulaInv
  <2>2. ~UNCHANGED formulaVars
    BY <1>2 DEF formulaVars, vars
  <2> QED
    BY <2>1, <2>2 DEF FormulaNext
<1> DEFINE tree == FormulaList[n]
           f == Compile(tree)
           m == Means(tree, r)
<1>4. /\ f.type # "error" /\ AddDerivedColumn(Stored(n))
      /\ derivedTypes' = Append(derivedTypes, f.type)
      /\ formulaOf' = Append(formulaOf, n)
  BY <1>3, AddFormulaStores
<1>5. Agrees(tree, r)
  BY CompilerAgrees, FormulaAssumption
<1>6. /\ f.type \in {"number", "text"} /\ m.type = f.type
      /\ DOMAIN f.fn = RowFns /\ f.fn[cells[r]] = m.val
  BY <1>4, <1>5 DEF Agrees
<1>7. cells[r] \in RowFns
  BY CellsOfRow DEF FormulaInv
<1>8. Stored(n)[cells[r]] = IF f.type = "text" THEN Min({m.val, MaxText}) ELSE m.val
  BY <1>6, <1>7 DEF Stored
<1>9. derived' = Append(derived, Stored(n))
  BY <1>4 DEF AddDerivedColumn
<1>10. derived'[Len(derived) + 1] = Stored(n)
  BY <1>1, <1>9, AppendSequence
<1>11. ValueIn(cells[r], derived', NumCols) = Stored(n)[cells[r]]
  <2>1. NumCols \notin BaseCols /\ NumCols - NumBaseCols + 1 = Len(derived) + 1
    BY <1>1, FilteredViewAssumption DEF BaseCols
  <2> QED
    BY <1>10, <2>1 DEF ValueIn
<1>12. Last(formulaOf') = n
  <2>1. formulaOf \in Seq(DOMAIN FormulaList)
    BY DEF FormulaInv
  <2> QED
    BY <1>4, <2>1 DEF Last
<1>13. Last(derivedTypes') = f.type
  <2>1. derivedTypes \in Seq({"number", "text"})
    BY DEF FormulaInv
  <2> HIDE DEF f
  <2> QED
    BY <1>4, <2>1 DEF Last
<1> QED
  BY <1>6, <1>8, <1>11, <1>12, <1>13

(* A new column has the type of its formula and shows at every row, a hidden  *)
(* one too, what the formula means there; texts are cut to MaxText.           *)
THEOREM NewColumnsShowFormulas == FormulaSpec => NewColumnShowsFormula
<1>1. FormulaInv /\ [FormulaNext]_formulaVars =>
          [Len(derived') > Len(derived) =>
              \A r \in Rows :
                  LET m == Means(FormulaList[Last(formulaOf')], r)
                      v == ValueIn(cells[r], derived', NumCols)
                  IN  /\ Last(derivedTypes') = m.type
                      /\ v = IF m.type = "text" THEN Min({m.val, MaxText}) ELSE m.val]_formulaVars
  BY AddedColumnShows
<1> QED
  BY <1>1, FormulaInvAlways, PTL DEF FormulaSpec, NewColumnShowsFormula

(* A row still moves only with its own cells or the predicates, whatever      *)
(* formulas are added.                                                        *)
THEOREM OthersNeverMoveWithFormulas == FormulaSpec => OnlyEditedRowsMove
<1>1. FormulaInv /\ [FormulaNext]_formulaVars => ColumnsKept
  <2>1. FormulaInv /\ FilterOrEdit => ColumnsKept
    BY FilterOrEditInv DEF FormulaInv, ColumnsKept
  <2>2. \A n : AddFormula(n) => ColumnsKept
    BY AddFormulaStores DEF ColumnsKept
  <2>3. UNCHANGED formulaVars => ColumnsKept
    BY DEF formulaVars, vars, ColumnsKept
  <2> QED
    BY <2>1, <2>2, <2>3 DEF FormulaNext
<1>2. FormulaInv /\ FormulaInv' /\ [FormulaNext]_formulaVars =>
          [\A r \in Rows : columnFilters' = columnFilters /\ cells'[r] = cells[r]
                              => (Shows(r) <=> Shows(r)')]_vars
  BY <1>1, RowsStay DEF FormulaInv
<1> QED
  BY <1>2, FormulaInvAlways, PTL DEF FormulaSpec, OnlyEditedRowsMove
===============================================================================

----------------------------- MODULE FilteredView -----------------------------
(***************************************************************************)
(* The filtered view of an open table (model/mmapped_table.cpp): at most   *)
(* one predicate per column, each with a cached set of matching rows; the  *)
(* view is the intersection of the cached sets.  An edit re-evaluates only *)
(* the predicates it can affect.  The wxGrid that shows the table keeps a  *)
(* row count and a column count of its own, which it changes only by the   *)
(* deltas the table announces.                                             *)
(*                                                                         *)
(* A predicate is the set of values it matches, which stands for Range,    *)
(* Equals and Contains alike (one that never matches, such as a range on a *)
(* text column, is the empty set).  A formula is a function of the base    *)
(* cells of one row: formulas over derived columns unfold to such          *)
(* functions, and aggregates fold to constants when the column is added.   *)
(* The window is the only one on its dataset: the mapped cells of a second *)
(* one change under the cached sets without any handler being told.        *)
(***************************************************************************)
EXTENDS Integers, FiniteSets, Sequences, SequencesExt

CONSTANTS NumRows,      \* rows
          NumBaseCols,  \* numBaseCols
          Values,       \* what a base cell may hold
          Formulas,     \* subset of [[BaseCols -> Values] -> anything]
          Predicates,   \* the predicates the filter popup may set
          MaxDerived    \* bound on the derived columns

Rows     == 0 .. NumRows - 1
BaseCols == 0 .. NumBaseCols - 1
AllCols  == 0 .. NumBaseCols + MaxDerived - 1

ASSUME FilteredViewAssumption ==
    /\ NumRows \in Nat
    /\ NumBaseCols \in Nat
    /\ MaxDerived \in Nat

VARIABLES cells,          \* the base cells of each row, as the column fns read them
          derived,        \* derivedColumns
          columnFilters,  \* column -> predicate
          filterBits,     \* column -> cached set of matching rows
          filterActive, filteredRows,
          filteringEnabled,
          gridRows, gridCols

table == <<cells, derived>>
view  == <<filterActive, filteredRows>>
vars  == <<cells, derived, columnFilters, filterBits, filterActive, filteredRows,
           filteringEnabled, gridRows, gridCols>>

NumCols  == NumBaseCols + Len(derived)
Columns  == 0 .. NumCols - 1

\* The column fn of c at row r.
ValueIn(rowCells, formulas, c) ==
    IF c \in BaseCols THEN rowCells[c] ELSE formulas[c - NumBaseCols + 1][rowCells]

\* EvalFilter: the rows whose value matches.
EvalFilter(rowCells, formulas, c, f) ==
    {r \in Rows : ValueIn(rowCells[r], formulas, c) \in f}

VisibleRows == IF filterActive THEN Len(filteredRows) ELSE NumRows

UnderlyingRow(viewRow) ==
    IF filterActive THEN filteredRows[viewRow + 1] ELSE viewRow

\* The rows of S in table order.
Ascending(S) == [i \in 1 .. Cardinality(S) |-> CHOOSE r \in S : Cardinality({q \in S : q < r}) = i - 1]

Init ==
    /\ cells \in [Rows -> [BaseCols -> Values]]
    /\ derived = << >>
    /\ columnFilters = << >>
    /\ filterBits = << >>
    /\ filterActive = FALSE
    /\ filteredRows = << >>
    /\ filteringEnabled = FALSE
    /\ gridRows = NumRows
    /\ gridCols = NumBaseCols

Rebuild_ForgetsDelta ==     \* mutant: the grid is not told
    /\ filterActive' = (DOMAIN columnFilters' # {} /\ NumRows # 0)
    /\ filteredRows' = IF filterActive'
                       THEN Ascending({r \in Rows : \A c \in DOMAIN filterBits' :
                                                        r \in filterBits'[c]})
                       ELSE << >>
    /\ UNCHANGED gridRows

Rebuild_AnyMatch ==     \* mutant: the cached sets are united, not intersected
    /\ filterActive' = (DOMAIN columnFilters' # {} /\ NumRows # 0)
    /\ filteredRows' = IF filterActive'
                       THEN Ascending(UNION {filterBits'[c] : c \in DOMAIN filterBits'})
                       ELSE << >>
    /\ gridRows' = gridRows + (VisibleRows' - VisibleRows)

\* RebuildFilteredView: intersect the cached sets, then announce the change of
\* the row count to the grid, which adds the announced delta to its own count.
Rebuild ==
    /\ filterActive' = (DOMAIN columnFilters' # {} /\ NumRows # 0)
    /\ filteredRows' = IF filterActive'
                       THEN Ascending({r \in Rows : \A c \in DOMAIN filterBits' :
                                                        r \in filterBits'[c]})
                       ELSE << >>
    /\ gridRows' = gridRows + (VisibleRows' - VisibleRows)

Without(f, c) == Restrict(f, DOMAIN f \ {c})
With(f, c, x) == [d \in DOMAIN f \cup {c} |-> IF d = c THEN x ELSE f[d]]
-------------------------------------------------------------------------------
(* The filter popup, opened from a column header in filtering mode. *)

SetColumnFilter(c, f) ==
    /\ filteringEnabled
    /\ c \in Columns
    /\ columnFilters' = With(columnFilters, c, f)
    /\ filterBits' = With(filterBits, c, EvalFilter(cells, derived, c, f))
    /\ Rebuild
    /\ UNCHANGED <<cells, derived, filteringEnabled, gridCols>>

ClearColumnFilter_KeepsBits(c) ==   \* mutant: the cached set stays behind
    /\ filteringEnabled
    /\ c \in DOMAIN columnFilters
    /\ columnFilters' = Without(columnFilters, c)
    /\ UNCHANGED <<cells, derived, filterBits, filteringEnabled, gridCols>>
    /\ Rebuild

ClearColumnFilter(c) ==
    /\ filteringEnabled
    /\ c \in DOMAIN columnFilters
    /\ columnFilters' = Without(columnFilters, c)
    /\ filterBits' = Without(filterBits, c)
    /\ Rebuild
    /\ UNCHANGED <<cells, derived, filteringEnabled, gridCols>>

\* ClearFilters does nothing, not even a rebuild, when no filter is set.
ClearFilters ==
    IF DOMAIN columnFilters = {}
    THEN UNCHANGED <<columnFilters, filterBits, view, gridRows>>
    ELSE /\ columnFilters' = << >>
         /\ filterBits' = << >>
         /\ Rebuild

ClearAllFilters ==
    /\ filteringEnabled
    /\ ClearFilters
    /\ UNCHANGED <<cells, derived, filteringEnabled, gridCols>>

ToggleFiltering_KeepsFilters == \* mutant: leaving the mode leaves the predicates
    /\ NumCols > 0 \/ filteringEnabled
    /\ filteringEnabled' = ~filteringEnabled
    /\ UNCHANGED <<cells, derived, columnFilters, filterBits, view, gridRows, gridCols>>

\* OnToggleFiltering: leaving filtering mode drops every predicate.
ToggleFiltering ==
    /\ NumCols > 0 \/ filteringEnabled
    /\ filteringEnabled' = ~filteringEnabled
    /\ IF filteringEnabled
       THEN ClearFilters
       ELSE UNCHANGED <<columnFilters, filterBits, view, gridRows>>
    /\ UNCHANGED <<cells, derived, gridCols>>

RecomputeFiltersAfterEdit_OwnColumn(c) ==   \* mutant: derived columns are forgotten
    IF ~filterActive \/ c \notin DOMAIN filterBits
    THEN UNCHANGED <<filterBits, view, gridRows>>
    ELSE /\ filterBits' = [filterBits EXCEPT ![c] = EvalFilter(cells', derived, c, columnFilters[c])]
         /\ Rebuild

RecomputeFiltersAfterEdit_DropsOthers(c) == \* mutant: only re-evaluated predicates remain
    IF ~filterActive
    THEN UNCHANGED <<filterBits, view, gridRows>>
    ELSE /\ filterBits' =
               [d \in {e \in DOMAIN filterBits : e = c \/ e >= NumBaseCols} |->
                   EvalFilter(cells', derived, d, columnFilters[d])]
         /\ Rebuild

\* RecomputeFiltersAfterEdit: the edited column's predicate and those on derived
\* columns are re-evaluated, the others keep their cached set.
RecomputeFiltersAfterEdit(c) ==
    IF ~filterActive
    THEN UNCHANGED <<filterBits, view, gridRows>>
    ELSE /\ filterBits' =
               [d \in DOMAIN filterBits |->
                   IF d = c \/ d >= NumBaseCols
                   THEN EvalFilter(cells', derived, d, columnFilters[d])
                   ELSE filterBits[d]]
         /\ Rebuild

\* An edit made in the grid or the formula bar: SetValue at the underlying row,
\* then the recomputation the frame's handlers add.
EditCell(viewRow, c, v) ==
    /\ viewRow < VisibleRows
    /\ cells' = [cells EXCEPT ![UnderlyingRow(viewRow)][c] = v]
    /\ UNCHANGED columnFilters
    /\ RecomputeFiltersAfterEdit(c)
    /\ UNCHANGED <<derived, filteringEnabled, gridCols>>

\* AddDerivedColumn with a formula that parses and compiles.
AddDerivedColumn(f) ==
    /\ NumCols > 0
    /\ Len(derived) < MaxDerived
    /\ derived' = Append(derived, f)
    /\ gridCols' = gridCols + 1
    /\ UNCHANGED <<cells, columnFilters, filterBits, view, filteringEnabled, gridRows>>

Next ==
    \/ \E c \in AllCols, f \in Predicates : SetColumnFilter(c, f)
    \/ \E c \in AllCols : ClearColumnFilter(c)
    \/ ClearAllFilters
    \/ ToggleFiltering
    \/ \E viewRow \in Rows, c \in BaseCols, v \in Values : EditCell(viewRow, c, v)
    \/ \E f \in Formulas : AddDerivedColumn(f)

Spec == Init /\ [][Next]_vars
-------------------------------------------------------------------------------
TypeOK ==
    /\ cells \in [Rows -> [BaseCols -> Values]]
    /\ derived \in Seq(Formulas)
    /\ Len(derived) <= MaxDerived
    /\ DOMAIN columnFilters \subseteq Columns
    /\ columnFilters \in [DOMAIN columnFilters -> Predicates]
    /\ DOMAIN filterBits = DOMAIN columnFilters
    /\ filterBits \in [DOMAIN filterBits -> SUBSET Rows]
    /\ filterActive \in BOOLEAN
    /\ filteredRows \in Seq(Rows)
    /\ filteringEnabled \in BOOLEAN
    /\ gridRows \in Int
    /\ gridCols \in Int

\* The rows that pass every active predicate, said from the cells alone.
Matching == {r \in Rows : \A c \in DOMAIN columnFilters :
                              ValueIn(cells[r], derived, c) \in columnFilters[c]}

(* Every cached set is the set of rows its predicate matches now, although  *)
(* an edit re-evaluates only some of them: a base predicate on another      *)
(* column cannot be affected, a derived one may read the edited cell.       *)
CacheExact ==
    \A c \in DOMAIN columnFilters :
        filterBits[c] = EvalFilter(cells, derived, c, columnFilters[c])

(* The grid shows exactly the rows that match, in table order, and all rows *)
(* when no predicate is set; it shows none when nothing matches.            *)
ViewExact ==
    /\ filterActive <=> (DOMAIN columnFilters # {} /\ NumRows # 0)
    /\ filterActive => filteredRows = Ascending(Matching)

(* The grid's own row and column counts, kept only through the announced    *)
(* deltas, agree with what the table would answer: the grid never asks for  *)
(* a view row that has no underlying row.                                   *)
GridInSync ==
    /\ gridRows = VisibleRows
    /\ gridCols = NumCols

(* Predicates live only in filtering mode, so a table that shows no filter  *)
(* markers hides no rows.                                                   *)
NoHiddenFilters == ~filteringEnabled => ~filterActive /\ DOMAIN columnFilters = {}

Shows(r) == filterActive => \E i \in 1 .. Len(filteredRows) : filteredRows[i] = r

(* A row enters or leaves the view only because it was edited or because    *)
(* the predicates changed: an edit of another row, a new derived column or  *)
(* a change of mode never moves it.                                         *)
OnlyEditedRowsMove ==
    [][\A r \in Rows :
          columnFilters' = columnFilters /\ cells'[r] = cells[r]
              => (Shows(r) <=> Shows(r)')]_vars
===============================================================================

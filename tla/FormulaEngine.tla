----------------------------- MODULE FormulaEngine -----------------------------
(***************************************************************************)
(* Formulas over an open, possibly filtered table: derived columns and the *)
(* statistics dialog (parser/expr_eval.cpp, and in model/mmapped_table.cpp *)
(* the column map, FindColumn, MakeAggregator, ComputeColumnStats,         *)
(* ComputeFormulaStats, AddDerivedColumn).                                 *)
(*                                                                         *)
(* A formula is a syntax tree.  Its compiler works bottom-up to a type,    *)
(* number or text, and a function of the row; an aggregate over a range is *)
(* computed at once, from what the grid shows at that moment, and becomes  *)
(* a constant.  A text is represented by its length, which is all that     *)
(* LEN, LEFT, RIGHT, MID, CONCATENATE and the cut of a derived text can    *)
(* tell apart; division rounds down and "/" is left out.                   *)
(*                                                                         *)
(* A name is <<stem, number>>: "D0" is <<"D", 0>>, and "D", which has no   *)
(* number, is <<"D", NoNumber>>.  One letter stands for both its cases.    *)
(***************************************************************************)
EXTENDS FilteredView, FiniteSetsExt

CONSTANTS Labels,       \* the names in the header, one for each base column
          BaseTypes,    \* "number" or "text", likewise
          Letters,      \* the single-letter aliases: "A", "B", ...
          Nodes,        \* syntax trees, each with the trees of its arguments
          Height,       \* how many calls are nested in a tree
          FormulaList,  \* the formulas that are typed
          MaxText       \* bytes a text column keeps

NoNumber == -1

ASSUME FormulaAssumption ==
    /\ Len(Labels) = NumBaseCols
    /\ BaseTypes \in [1 .. NumBaseCols -> {"number", "text"}]
    /\ NumBaseCols + MaxDerived <= Len(Letters)
    /\ FormulaList \in Seq(Nodes)
    /\ MaxText \in Nat

\* What the parser builds: finite trees, where only calls have arguments and a
\* range has the rows its ends name.
ASSUME NodesAssumption ==
    /\ Height \in [Nodes -> Nat]
    /\ \A n \in Nodes :
          /\ n.kind \in {"number", "string", "column", "range", "call"}
          /\ n.kind = "range" => n.val[1][2] \in Int /\ n.val[2][2] \in Int
          /\ n.args \in Seq(Nodes)
          /\ n.kind # "call" => n.args = << >>
          /\ \A i \in DOMAIN n.args : Height[n.args[i]] < Height[n]

VARIABLES derivedTypes,     \* the types of the derived columns
          formulaOf         \* history: the formulas they were made from

formulaVars == <<vars, derivedTypes, formulaOf>>

Label(c) == IF c \in BaseCols THEN Labels[c + 1] ELSE <<"D", c - NumBaseCols>>
Alias(c) == <<Letters[c + 1], NoNumber>>
Type(c)  == IF c \in BaseCols THEN BaseTypes[c + 1] ELSE derivedTypes[c - NumBaseCols + 1]

\* BuildColumnMap: label and letter of each column in turn, the last one wins.
\* An unknown name is no column.
NoColumn == -1
MapColumn(name) == Max({NoColumn} \cup {c \in Columns : name \in {Label(c), Alias(c)}})

\* FindColumn: labels before letters, the last label wins.
FindColumn(name) ==
    LET labelled == {c \in Columns : Label(c) = name}
    IN  Max({NoColumn} \cup IF labelled # {} THEN labelled ELSE {c \in Columns : Alias(c) = name})
-------------------------------------------------------------------------------
(* Statistics of a column and of a formula over view rows. *)

NoStats == [valid |-> FALSE, scalar |-> FALSE, count |-> 0,
            sum |-> 0, min |-> 0, max |-> 0, value |-> 0]
TextStats(n)   == [NoStats EXCEPT !.count = n]
ScalarStats(v) == [NoStats EXCEPT !.valid = TRUE, !.scalar = TRUE, !.value = v]

SumOf(values) == FoldLeft(LAMBDA a, b : a + b, 0, values)

\* ScanFn and ScanFnRows; ComputeStats and ComputeStatsRows of a numeric column,
\* whose use of the chunk records StatsIndex and TableStore justify.
Scan(values) ==
    IF values = << >> THEN NoStats
    ELSE [valid |-> TRUE, scalar |-> FALSE, count |-> Len(values),
          sum |-> SumOf(values),
          min |-> Min(ToSet(values)), max |-> Max(ToSet(values)), value |-> 0]

\* The underlying rows of the view rows from first to last.
RowsOfView(first, last) == [i \in 1 .. Max({0, last - first + 1}) |-> UnderlyingRow(first + i - 1)]

ValuesAt(fn, rows) == [i \in DOMAIN rows |-> fn[cells[rows[i]]]]

\* The column fn of c as a function of the row's base cells.
ColumnFn(c) == [rowCells \in [BaseCols -> Values] |-> ValueIn(rowCells, derived, c)]

ComputeColumnStats(c, rowBegin, rowEnd) ==
    LET rows == RowsOfView(Max({rowBegin, 0}), Min({rowEnd, VisibleRows - 1}))
    IN  IF Type(c) = "text" THEN TextStats(Len(rows)) ELSE Scan(ValuesAt(ColumnFn(c), rows))
-------------------------------------------------------------------------------
(* The compiler.  Compiled formulas are [type, fn, ranged]: ranged says that *)
(* the aggregator was asked.                                                 *)

Refused == [type |-> "error", fn |-> << >>, ranged |-> FALSE]
Typed(type, fn, ranged) == [type |-> type, fn |-> fn, ranged |-> ranged]
Constantly(v) == [rowCells \in [BaseCols -> Values] |-> v]

\* MakeAggregator's answer to fn(name, first .. last), 0-based; a missing end is
\* the last row of the table.  COUNT is answered before the numbers are asked for.
Aggregate(fn, name, first, last) ==
    LET c    == FindColumn(name)
        from == Max({first, 0})
        to   == IF last = NoNumber THEN NumRows - 1 ELSE Min({last, NumRows - 1})
        r    == ComputeColumnStats(c, from, to)
    IN  IF c = NoColumn \/ NumRows = 0 \/ from > to THEN Refused
        ELSE IF fn = "count" THEN Typed("number", Constantly(r.count), TRUE)
        ELSE IF ~r.valid THEN Refused
        ELSE Typed("number",
                   Constantly(CASE fn = "sum"     -> r.sum
                                [] fn = "average" -> r.sum \div r.count
                                [] fn = "min"     -> r.min
                                [] fn = "max"     -> r.max), TRUE)

\* SplitCellRef: the digits at the end of a name are its row, counted from 1; a
\* row 0 counts as none.
CellName(name) == <<name[1], NoNumber>>
CellRow(name)  == IF name[2] > 0 THEN name[2] - 1 ELSE NoNumber

\* CompileAggregate: one column, its rows in either order.
CompileAggregate(fn, a, b) ==
    IF a[1] # b[1] THEN Refused
    ELSE IF CellRow(a) # NoNumber /\ CellRow(b) # NoNumber
    THEN Aggregate(fn, CellName(a), Min({CellRow(a), CellRow(b)}), Max({CellRow(a), CellRow(b)}))
    ELSE Aggregate(fn, CellName(a), Max({CellRow(a), 0}), CellRow(b))

\* FormatNumber: the length of the numeral CONCATENATE makes of a whole number.
NumeralLength(n) ==
    LET digits[k \in Nat] == IF k < 10 THEN 1 ELSE 1 + digits[k \div 10]
    IN  IF n < 0 THEN 1 + digits[-n] ELSE digits[n]

\* The characters LEFT, RIGHT and MID keep of a text of length n.
Cut(n, count) == Max({0, Min({n, count})})
MidLength(n, start, count) == Cut(n - Cut(n, start - 1), count)

Aggregates == {"sum", "average", "min", "max", "count"}

\* The types a function wants of its arguments ("any" is turned into text), the
\* type it yields, and what it computes from their values.
Signature(fn, arity) ==
    CASE fn = "abs"                            -> << <<"number">>, "number" >>
      [] fn \in {"min", "max"}                 -> << <<"number", "number">>, "number" >>
      [] fn \in {"left", "right"}              -> << <<"text", "number">>, "text" >>
      [] fn = "mid"                            -> << <<"text", "number", "number">>, "text" >>
      [] fn = "len"                            -> << <<"text">>, "number" >>
      [] fn = "concatenate" /\ arity > 0       -> << [i \in 1 .. arity |-> "any"], "text" >>
      [] fn = "-" /\ arity = 1                 -> << <<"number">>, "number" >>
      [] fn \in {"+", "-", "*"} /\ arity = 2   -> << <<"number", "number">>, "number" >>
      [] OTHER                                 -> << <<"none">>, "error" >>

Apply(fn, a) ==
    CASE fn = "abs"              -> IF a[1] < 0 THEN -a[1] ELSE a[1]
      [] fn = "min"              -> Min({a[1], a[2]})
      [] fn = "max"              -> Max({a[1], a[2]})
      [] fn \in {"left", "right"} -> Cut(a[1], a[2])
      [] fn = "mid"              -> MidLength(a[1], a[2], a[3])
      [] fn = "len"              -> a[1]
      [] fn = "concatenate"      -> SumOf(a)
      [] fn = "-" /\ Len(a) = 1  -> -a[1]
      [] fn = "+"                -> a[1] + a[2]
      [] fn = "-" /\ Len(a) = 2  -> a[1] - a[2]
      [] fn = "*"                -> a[1] * a[2]

\* An argument as the parameter wants it: Num, Str or AsText.
Coerced(arg, want) ==
    IF arg.type = "error" \/ want \notin {arg.type, "any"} THEN Refused
    ELSE IF want = "any" /\ arg.type = "number"
    THEN [arg EXCEPT !.fn = [rowCells \in [BaseCols -> Values] |-> NumeralLength(arg.fn[rowCells])]]
    ELSE arg

\* Visiting a tree from its leaves: Visit is given a node and its arguments' results.
FoldTree(Visit(_, _), tree) ==
    LET fold[n \in Nodes] == Visit(n, [i \in DOMAIN n.args |-> fold[n.args[i]]])
    IN  fold[tree]

\* A call, from its compiled arguments.
CompileCall(fn, compiled) ==
    LET sig  == Signature(fn, Len(compiled))
        args == [i \in DOMAIN compiled |-> Coerced(compiled[i], sig[1][i])]
    IN  IF Len(compiled) # Len(sig[1]) \/ \E i \in DOMAIN args : args[i].type = "error"
        THEN Refused
        ELSE Typed(sig[2],
                   [rowCells \in [BaseCols -> Values] |->
                       Apply(fn, [i \in DOMAIN args |-> args[i].fn[rowCells]])],
                   \E i \in DOMAIN args : args[i].ranged)

OverRange(node) ==
    node.val \in Aggregates /\ Len(node.args) = 1 /\ node.args[1].kind = "range"

CompileNode(node, compiled) ==
    CASE node.kind = "number" -> Typed("number", Constantly(node.val), FALSE)
      [] node.kind = "string" -> Typed("text", Constantly(node.val), FALSE)
      [] node.kind = "column" ->
            LET c == MapColumn(node.val)
            IN  IF c = NoColumn THEN Refused ELSE Typed(Type(c), ColumnFn(c), FALSE)
      [] node.kind = "range"  -> Refused
      [] node.kind = "call"   ->
            IF OverRange(node)
            THEN CompileAggregate(node.val, node.args[1].val[1], node.args[1].val[2])
            ELSE CompileCall(node.val, compiled)

\* CompileTyped.
Compile(node) == FoldTree(CompileNode, node)
-------------------------------------------------------------------------------
Failed == [NoStats EXCEPT !.count = -1]     \* ComputeFormulaStats with errorOut set

ComputeFormulaStats_AtViewRow(node, rowBegin, rowEnd) ==    \* mutant: a view row is used as a table row
    LET first == Max({rowBegin, 0})
        last  == Min({rowEnd, VisibleRows - 1})
        f     == Compile(node)
    IN  IF NumRows = 0 \/ last < first THEN NoStats
        ELSE IF node.kind = "column" /\ FindColumn(node.val) # NoColumn
        THEN ComputeColumnStats(FindColumn(node.val), first, last)
        ELSE IF f.type = "error" THEN Failed
        ELSE IF f.type = "text" THEN TextStats(last - first + 1)
        ELSE IF f.ranged THEN ScalarStats(f.fn[cells[first]])
        ELSE Scan(ValuesAt(f.fn, RowsOfView(first, last)))

\* ComputeFormulaStats: a bare column through the column path; a formula with
\* aggregates is one number, computed at the first row; a text is only counted.
ComputeFormulaStats(node, rowBegin, rowEnd) ==
    LET first == Max({rowBegin, 0})
        last  == Min({rowEnd, VisibleRows - 1})
        f     == Compile(node)
    IN  IF NumRows = 0 \/ last < first THEN NoStats
        ELSE IF node.kind = "column" /\ FindColumn(node.val) # NoColumn
        THEN ComputeColumnStats(FindColumn(node.val), first, last)
        ELSE IF f.type = "error" THEN Failed
        ELSE IF f.type = "text" THEN TextStats(last - first + 1)
        ELSE IF f.ranged THEN ScalarStats(f.fn[cells[UnderlyingRow(first)]])
        ELSE Scan(ValuesAt(f.fn, RowsOfView(first, last)))

AddFormula_Uncut(n) ==  \* mutant: a derived text is kept whole
    LET f == Compile(FormulaList[n])
    IN  /\ f.type # "error"
        /\ AddDerivedColumn(f.fn)
        /\ derivedTypes' = Append(derivedTypes, f.type)
        /\ formulaOf' = Append(formulaOf, n)

\* AddDerivedColumn: a formula that is refused adds nothing; a text is cut.
AddFormula(n) ==
    LET f == Compile(FormulaList[n])
    IN  /\ f.type # "error"
        /\ AddDerivedColumn(IF f.type = "number" THEN f.fn
                            ELSE [row \in DOMAIN f.fn |-> Min({f.fn[row], MaxText})])
        /\ derivedTypes' = Append(derivedTypes, f.type)
        /\ formulaOf' = Append(formulaOf, n)

FormulaInit ==
    /\ Init
    /\ derivedTypes = << >>
    /\ formulaOf = << >>

FilterOrEdit ==
    \/ \E c \in AllCols, f \in Predicates : SetColumnFilter(c, f)
    \/ \E c \in AllCols : ClearColumnFilter(c)
    \/ ClearAllFilters
    \/ ToggleFiltering
    \/ \E viewRow \in Rows, c \in BaseCols, v \in Values : EditCell(viewRow, c, v)

FormulaNext ==
    \/ FilterOrEdit /\ UNCHANGED <<derivedTypes, formulaOf>>
    \/ \E n \in DOMAIN FormulaList : AddFormula(n)

FormulaSpec == FormulaInit /\ [][FormulaNext]_formulaVars
-------------------------------------------------------------------------------
(* The reference: what a formula means on the rows the grid shows, said      *)
(* value by value with dynamic types and without compiling.                  *)

ShownRows == Ascending(Matching)
Stuck == [type |-> "error", val |-> 0]

\* The values of column c at the shown rows with positions from .. to.
Selection(c, from, to) ==
    LET rows == SubSeq(ShownRows, from + 1, Min({to + 1, Len(ShownRows)}))
    IN  [i \in DOMAIN rows |-> ValueIn(cells[rows[i]], derived, c)]

\* The rows of a range: the named ones in either order, all for a bare column.
RangeRows(a, b) ==
    LET named == {CellRow(a), CellRow(b)} \ {NoNumber}
    IN  IF named = {} THEN 0 .. NumRows - 1
        ELSE IF CellRow(a) = NoNumber THEN 0 .. Min({Max(named), NumRows - 1})
        ELSE IF CellRow(b) = NoNumber THEN Max(named) .. NumRows - 1
        ELSE Min(named) .. Min({Max(named), NumRows - 1})

AggregateMeans(fn, a, b) ==
    LET c    == FindColumn(CellName(a))
        rows == RangeRows(a, b)
        s    == Selection(c, Min(rows), Max(rows))
    IN  IF a[1] # b[1] \/ c = NoColumn \/ rows = {} THEN Stuck
        ELSE IF fn = "count" THEN [type |-> "number", val |-> Len(s)]
        ELSE IF Type(c) = "text" \/ s = << >> THEN Stuck
        ELSE [type |-> "number",
              val  |-> CASE fn = "sum"     -> SumOf(s)
                         [] fn = "average" -> SumOf(s) \div Len(s)
                         [] fn = "min"     -> Min(ToSet(s))
                         [] fn = "max"     -> Max(ToSet(s))]

Fits(v, want) == v.type # "error" /\ want \in {v.type, "any"}
TextOrNumber(v, want) == IF want = "any" /\ v.type = "number" THEN NumeralLength(v.val) ELSE v.val

CallMeans(fn, args) ==
    LET sig == Signature(fn, Len(args))
    IN  IF Len(args) = Len(sig[1]) /\ \A i \in DOMAIN args : Fits(args[i], sig[1][i])
        THEN [type |-> sig[2],
              val  |-> Apply(fn, [i \in DOMAIN args |-> TextOrNumber(args[i], sig[1][i])])]
        ELSE Stuck

NodeMeans(node, args, row) ==
    CASE node.kind = "number" -> [type |-> "number", val |-> node.val]
      [] node.kind = "string" -> [type |-> "text", val |-> node.val]
      [] node.kind = "range"  -> Stuck
      [] node.kind = "column" ->
            LET c == MapColumn(node.val)
            IN  IF c = NoColumn THEN Stuck
                ELSE [type |-> Type(c), val |-> ValueIn(cells[row], derived, c)]
      [] node.kind = "call"   ->
            IF OverRange(node)
            THEN AggregateMeans(node.val, node.args[1].val[1], node.args[1].val[2])
            ELSE CallMeans(node.val, args)

Means(tree, row) == FoldTree(LAMBDA node, args : NodeMeans(node, args, row), tree)

HasRange(tree) ==
    FoldTree(LAMBDA node, args : node.kind = "range" \/ \E i \in DOMAIN args : args[i], tree)

\* What ComputeFormulaStats should answer for the given shown rows.
StatsMean(node, rows) ==
    LET here == Means(node, rows[1])
    IN  IF rows = << >> THEN NoStats
        ELSE IF here.type = "error" THEN Failed
        ELSE IF here.type = "text" THEN TextStats(Len(rows))
        ELSE IF HasRange(node) THEN ScalarStats(here.val)
        ELSE Scan([i \in DOMAIN rows |-> Means(node, rows[i]).val])

(* No column's label is the letter of a later column.  Otherwise FindColumn, *)
(* which prefers labels, and the column map, where the last name wins, read  *)
(* different columns for one name.                                           *)
NamesAgree == \A i, j \in Columns : i < j => Label(i) # Alias(j)

(* The statistics dialog answers for exactly the rows the grid shows: every  *)
(* formula, by the column path or compiled, over any part of the view, with  *)
(* ranges counted in view rows, is refused exactly when it means nothing and *)
(* otherwise sums up what it means at those rows (ComputeFormulaStats).      *)
AnswersShownRows ==
    NamesAgree =>
        \A n \in DOMAIN FormulaList, part \in {<<-1, NumRows>>, <<1, 1>>} :
            ComputeFormulaStats(FormulaList[n], part[1], part[2]) =
                StatsMean(FormulaList[n],
                          SubSeq(ShownRows, Max({part[1], 0}) + 1, Min({part[2] + 1, Len(ShownRows)})))

(* A formula is added only if it means something, and the new column has its *)
(* type and shows what it means at every row, hidden ones too, a text cut to *)
(* what a column can hold (AddDerivedColumn).                                *)
NewColumnShowsFormula ==
    [][Len(derived') > Len(derived) =>
        \A r \in Rows :
            LET m == Means(FormulaList[Last(formulaOf')], r)
                v == ValueIn(cells[r], derived', NumCols)
            IN  /\ Last(derivedTypes') = m.type
                /\ v = IF m.type = "text" THEN Min({m.val, MaxText}) ELSE m.val]_formulaVars
===============================================================================

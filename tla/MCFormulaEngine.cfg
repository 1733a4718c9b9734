CONSTANTS
    NumRows = 3
    NumBaseCols = 2
    Values = {0, 1}
    Formulas <- MCFormulas
    Predicates <- MCPredicates
    MaxDerived = 1
    Labels <- MCLabels
    BaseTypes <- MCBaseTypes
    Letters <- MCLetters
    Nodes <- MCNodes
    Height <- MCHeight
    FormulaList <- MCFormulaList
    MaxText = 3
SPECIFICATION FormulaSpec
INVARIANTS
    TypeOK
    CacheExact
    ViewExact
    GridInSync
    NoHiddenFilters
    AnswersShownRows
PROPERTIES
    OnlyEditedRowsMove
    NewColumnShowsFormula

---------------------------- MODULE MCFormulaField ----------------------------
(* FormulaField with a function, a plain label, one that starts with a digit *)
(* and one with a space in it.                                               *)
EXTENDS FormulaField

MCFunctions == <<<<"E", "E">>>>
MCLabels    == <<<<"e", "1">>, <<"1", "e">>, <<"e", Blank, "E">>>>
MCTypeable  == {"e", "1", Blank, "+", "'", Quote}
===============================================================================

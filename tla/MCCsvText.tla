------------------------------ MODULE MCCsvText ------------------------------
(* CsvText after a one-column header, one whose label is a quoted newline, a  *)
(* two-column header, and that followed by a cell that is a quoted newline.   *)
EXTENDS CsvText

MCBeginnings == {<<"x", LF>>,
                 <<Quote, LF, Quote, LF>>,
                 <<"x", Delimiter, "x", LF>>,
                 <<"x", Delimiter, "x", LF, Quote, LF, Quote, Delimiter>>}
MCEditTexts == {<< >>, <<Comma, Quote, "x">>, <<One>>}
===============================================================================

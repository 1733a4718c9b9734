------------------------------ MODULE MCOpenFlow ------------------------------
(* OpenFlow with CSV files of one name in three folders, two of them copies  *)
(* of each other, and a file of another name.                                *)
EXTENDS OpenFlow

MCFiles   == {"a/data.csv", "b/data.csv", "b/copy_of_a/data.csv", "b/other.csv"}
MCName    == [p \in MCFiles |-> IF p = "b/other.csv" THEN "other" ELSE "data"]
MCContent == [p \in MCFiles |-> IF p = "b/data.csv" THEN "B" ELSE "A"]
===============================================================================

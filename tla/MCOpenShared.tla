----------------------------- MODULE MCOpenShared -----------------------------
(* OpenShared with two CSV files of one name and different contents. *)
EXTENDS OpenShared

MCFiles   == {"a/data.csv", "b/data.csv"}
MCName    == [p \in MCFiles |-> "data"]
MCContent == [p \in MCFiles |-> IF p = "b/data.csv" THEN "B" ELSE "A"]
===============================================================================

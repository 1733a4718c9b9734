----------------------------- MODULE MCStatsIndex -----------------------------
(* StatsIndex on columns of up to five rows in chunks of two. *)
EXTENDS StatsIndex

MCValues == {-2, 1, 3}
===============================================================================

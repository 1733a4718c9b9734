----------------------------- MODULE MCTableStore -----------------------------
(* TableStore on small tables: three rows in chunks of two, so that column   *)
(* ends fall inside a chunk.                                                 *)
EXTENDS TableStore

MCValues == {1, 2}
===============================================================================

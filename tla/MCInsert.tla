------------------------------ MODULE MCInsert ------------------------------
(* Small instances of Insert. *)
EXTENDS Insert

CONSTANTS w1, w2

TwoWorkers == {w1, w2}
=============================================================================

------------------------------ MODULE MCRecords ------------------------------
(* Records for TLC: requests may be exchanged for one another.              *)
EXTENDS Records, TLC

Alike == Permutations(Request)
=============================================================================

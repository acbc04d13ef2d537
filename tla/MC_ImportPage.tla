---------------------------- MODULE MC_ImportPage ----------------------------
(* Small instances of ImportPage *)
EXTENDS ImportPage, TLC

Interchangeable == Permutations(Requests) \union Permutations(Runs) \union Permutations(Rows) \union Permutations(Answers)
=============================================================================

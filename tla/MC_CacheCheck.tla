---------------------------- MODULE MC_CacheCheck ----------------------------
(* Small instances of CacheCheck *)
EXTENDS CacheCheck, TLC

Interchangeable == Permutations(Windows)
=============================================================================

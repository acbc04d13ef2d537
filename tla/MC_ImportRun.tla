----------------------------- MODULE MC_ImportRun -----------------------------
(* A small instance of ImportRun *)
EXTENDS ImportRun
=============================================================================

----------------------------- MODULE MC_Session ------------------------------
(* A small instance of Session *)
EXTENDS Session
=============================================================================

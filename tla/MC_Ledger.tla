------------------------------ MODULE MC_Ledger ------------------------------
(* Small instances of Ledger.  Advisory lock keys run against the order of  *)
(* the accounts, as hashes of their ids may.                                *)
EXTENDS Ledger, TLC

KeyOf == [a \in Accounts |-> -a]
Lowest == -2
Deposit == {1}

Interchangeable == Permutations(Requests) \union Permutations(TxnIds)
=============================================================================

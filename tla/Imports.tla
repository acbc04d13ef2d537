------------------------------- MODULE Imports -------------------------------
(***************************************************************************)
(* What importing a file promises its user: what the file holds lands      *)
(* whole and once, or not at all; what landed is taken back whole, and     *)
(* only while the user has left it alone.  ImportRun implements it with    *)
(* runs, staged rows, locks and the user's change marker.                  *)
(***************************************************************************)
CONSTANTS Runs, Rows

VARIABLES stage, ledger

importVars == <<stage, ledger>>

Nothing == [i \in Rows |-> "absent"]
Everything == [i \in Rows |-> "imported"]

ImportsInit ==
  /\ stage = [u \in Runs |-> "pending"]
  /\ ledger = [u \in Runs |-> Nothing]

Land(u) ==
  /\ stage[u] = "pending" /\ ledger[u] = Nothing
  /\ stage' = [stage EXCEPT ![u] = "landed"]
  /\ ledger' = [ledger EXCEPT ![u] = Everything]

TakeBack(u) ==
  /\ stage[u] = "landed" /\ ledger[u] = Everything
  /\ stage' = [stage EXCEPT ![u] = "over"]
  /\ ledger' = [ledger EXCEPT ![u] = Nothing]

\* A run that never landed, or whose rows are the user's for good, is forgotten
Forget(us) ==
  /\ stage' = [u \in Runs |-> IF u \in us THEN "over" ELSE stage[u]]
  /\ UNCHANGED ledger

\* The user edits or deletes something that landed
Touch(u, i) ==
  /\ ledger[u][i] # "absent"
  /\ \E result \in {"edited", "absent"} : ledger' = [ledger EXCEPT ![u][i] = result]
  /\ UNCHANGED stage

ImportsNext ==
  \/ \E u \in Runs : Land(u) \/ TakeBack(u) \/ \E i \in Rows : Touch(u, i)
  \/ \E us \in SUBSET Runs : Forget(us)

ImportsSpec == ImportsInit /\ [][ImportsNext]_importVars

=============================================================================

-------------------------------- MODULE Book --------------------------------
(***************************************************************************)
(* What the ledger promises a reader: a book of transactions in which      *)
(* every operation takes effect at once and whole, with the balance of     *)
(* every account on every day.  Ledger implements it with row locks,       *)
(* advisory locks and balances rebuilt from stored snapshot rows.          *)
(***************************************************************************)
EXTENDS Sums

CONSTANTS Accounts, TxnIds, Days, Txn, NoTxn

VARIABLES txns, archived, balances

bookVars == <<txns, archived, balances>>

\* The sum of the account's transactions up to a day
Balance(book, a, d) ==
  SumOf([t \in {t \in TxnIds : book[t] # NoTxn /\ book[t].account = a /\ book[t].dt <= d} |-> book[t].amount])

Balances(book) == [a \in Accounts |-> [d \in Days |-> Balance(book, a, d)]]

BookInit ==
  /\ txns = [t \in TxnIds |-> NoTxn]
  /\ archived = [a \in Accounts |-> FALSE]
  /\ balances = Balances(txns)

Only(ts) == \A t \in TxnIds \ ts : txns'[t] = txns[t]

\* One new transaction
Post(t) == txns[t] = NoTxn /\ txns'[t] \in Txn /\ Only({t}) /\ archived' = archived

\* Details of existing transactions, all of them or none
Amend(ts) ==
  /\ \A t \in ts : txns[t] # NoTxn /\ txns'[t] \in Txn
  /\ Only(ts) /\ archived' = archived

\* Existing transactions go, all of them or none
Remove(ts) ==
  /\ \A t \in ts : txns[t] # NoTxn /\ txns'[t] = NoTxn
  /\ Only(ts) /\ archived' = archived

\* An account is archived, with at most one adjustment, which is its own
Archive(a) ==
  /\ archived' = [archived EXCEPT ![a] = TRUE]
  /\ \/ txns' = txns
     \/ \E t \in TxnIds : /\ txns[t] = NoTxn /\ txns'[t] \in Txn
                          /\ txns'[t].account = a /\ Only({t})

Reopen(a) == archived' = [archived EXCEPT ![a] = FALSE] /\ txns' = txns

BookNext ==
  /\ \/ \E t \in TxnIds : Post(t)
     \/ \E ts \in SUBSET TxnIds : Amend(ts) \/ Remove(ts)
     \/ \E a \in Accounts : Archive(a) \/ Reopen(a)
  /\ balances' = Balances(txns')

BookSpec == BookInit /\ [][BookNext]_bookVars

=============================================================================

----------------------------- MODULE RefundLinks -----------------------------
(***************************************************************************)
(* Refunds linked to the expense they refund, while transactions are       *)
(* linked, unlinked, edited and deleted concurrently.  A request is a      *)
(* handler running one PostgreSQL transaction.  Row locks are taken one by *)
(* one, in id order within a statement; a statement reads what is          *)
(* committed when it starts and what its own request wrote.                *)
(*                                                                         *)
(*   services/transactions/links.py         links and their checks         *)
(*   services/transactions/update.py, bulk_update.py, deletion.py          *)
(*   services/transactions/bulk_access.py, permissions/transactions.py     *)
(*                                          row locks and their timeouts   *)
(***************************************************************************)
EXTENDS Sums

CONSTANTS
  Requests,
  TxnIds,      \* transaction ids, in the order they are locked in
  RowsOf,      \* bound: the rows clients store under each id, all in one currency
  Jobs,        \* bound: what requests do
  NoRequest, NoTxn

Kinds == {"expense", "income", "barred"}

Rows == UNION {RowsOf[t] : t \in TxnIds}

ASSUME RefundAssumption ==
  /\ TxnIds \subseteq Int /\ IsFiniteSet(TxnIds) /\ NoTxn \notin TxnIds
  /\ Rows \subseteq [amount : Int, kind : Kinds] /\ NoTxn \notin Rows
  /\ NoRequest \notin Requests

VARIABLES
  txns,        \* committed transactions; their kind is the category's, or barred in a group account
  links,       \* committed transaction_links: the expense a refund refunds
  rowLock,     \* FOR UPDATE lock (or uncommitted insert) of a transaction
  pc, job,
  chosen,      \* the transactions a request is about
  partner,     \* the expense to link the chosen refund to
  wanted,      \* rows the current statement has still to lock
  draft        \* the rows a request holds, as it would commit them

committed == <<txns, links>>
request == <<pc, job, chosen, partner, wanted, draft>>
vars == <<committed, rowLock, request>>

NoLinks == [t \in TxnIds |-> NoTxn]

Init ==
  /\ txns = NoLinks /\ links = NoLinks
  /\ rowLock = [t \in TxnIds |-> NoRequest]
  /\ pc = [r \in Requests |-> "idle"]
  /\ job = [r \in Requests |-> "none"]
  /\ chosen = [r \in Requests |-> {}]
  /\ partner = [r \in Requests |-> NoTxn]
  /\ wanted = [r \in Requests |-> {}]
  /\ draft = [r \in Requests |-> NoLinks]

-----------------------------------------------------------------------------
(* What a link has to join *)

View(r) == [t \in TxnIds |-> IF rowLock[t] = r THEN draft[r][t] ELSE txns[t]]

Refunds(row) == row # NoTxn /\ row.amount > 0 /\ row.kind # "barred"
Refundable(row) == row # NoTxn /\ row.amount < 0 /\ row.kind = "expense"

RefundsOf(o) == {t \in TxnIds : links[t] = o}

\* get_refunded_amounts
Refunded(view, ts) == SumOf([t \in ts |-> view[t].amount])

\* A link of one of ts joins something else than a refund and an expense
Broken(view, ts) ==
  \E t \in TxnIds : /\ links[t] # NoTxn /\ (t \in ts \/ links[t] \in ts)
                    /\ ~Refunds(view[t]) \/ ~Refundable(view[links[t]])

\* The expenses whose total a change of ts may move
TouchedOriginals(ts) == {links[t] : t \in {t \in TxnIds : links[t] # NoTxn /\ (t \in ts \/ links[t] \in ts)}}

OverRefunded(view, o) == Refunded(view, RefundsOf(o)) > -view[o].amount

-----------------------------------------------------------------------------
(* Taking locks, and the end of a transaction *)

\* A request by itself, whose handler Ledger describes
Create(t, row) ==
  /\ txns[t] = NoTxn /\ rowLock[t] = NoRequest
  /\ txns' = [txns EXCEPT ![t] = row]
  /\ UNCHANGED <<links, rowLock, request>>

Begin(r, j, ts, o) ==
  /\ pc[r] = "idle" /\ j \in Jobs
  /\ pc' = [pc EXCEPT ![r] = "holding"]
  /\ job' = [job EXCEPT ![r] = j]
  /\ chosen' = [chosen EXCEPT ![r] = ts]
  /\ partner' = [partner EXCEPT ![r] = o]
  /\ wanted' = [wanted EXCEPT ![r] = ts]
  /\ UNCHANGED <<committed, rowLock, draft>>

\* A new transaction that names the expense it refunds; nobody sees its row before it commits
BeginRefund(r, t, row, o) ==
  /\ pc[r] = "idle" /\ "create" \in Jobs
  /\ txns[t] = NoTxn /\ rowLock[t] = NoRequest
  /\ rowLock' = [rowLock EXCEPT ![t] = r]
  /\ draft' = [draft EXCEPT ![r][t] = row]
  /\ pc' = [pc EXCEPT ![r] = "pairing"]
  /\ job' = [job EXCEPT ![r] = "create"]
  /\ chosen' = [chosen EXCEPT ![r] = {t}]
  /\ partner' = [partner EXCEPT ![r] = o]
  /\ wanted' = [wanted EXCEPT ![r] = {o}]
  /\ UNCHANGED committed

FirstWanted(r) == CHOOSE t \in wanted[r] : \A s \in wanted[r] : t <= s

\* The row comes back as it was last committed
Hold(r) ==
  LET t == FirstWanted(r)
  IN  /\ wanted[r] # {} /\ rowLock[t] = NoRequest /\ txns[t] # NoTxn
      /\ rowLock' = [rowLock EXCEPT ![t] = r]
      /\ draft' = [draft EXCEPT ![r][t] = txns[t]]
      /\ wanted' = [wanted EXCEPT ![r] = @ \ {t}]
      /\ UNCHANGED <<committed, pc, job, chosen, partner>>

\* An expense deleted while its lock was waited for is passed over
PassOver(r) ==
  LET t == FirstWanted(r)
  IN  /\ pc[r] = "totalling" /\ wanted[r] # {} /\ rowLock[t] = NoRequest /\ txns[t] = NoTxn
      /\ wanted' = [wanted EXCEPT ![r] = @ \ {t}]
      /\ UNCHANGED <<committed, rowLock, pc, job, chosen, partner, draft>>

Release(r) ==
  /\ rowLock' = [t \in TxnIds |-> IF rowLock[t] = r THEN NoRequest ELSE rowLock[t]]
  /\ pc' = [pc EXCEPT ![r] = "idle"]
  /\ job' = [job EXCEPT ![r] = "none"]
  /\ chosen' = [chosen EXCEPT ![r] = {}]
  /\ partner' = [partner EXCEPT ![r] = NoTxn]
  /\ wanted' = [wanted EXCEPT ![r] = {}]
  /\ draft' = [draft EXCEPT ![r] = NoLinks]

\* Fault: only the locks of refuse_broken_links are waited for within bounds
GiveUpTotalling(r) ==
  /\ pc[r] = "totalling" /\ wanted[r] # {} /\ rowLock[FirstWanted(r)] # NoRequest
  /\ Release(r)
  /\ UNCHANGED committed

\* lock_timeout, or the deadlock PostgreSQL found
GiveUp(r) ==
  /\ wanted[r] # {} /\ rowLock[FirstWanted(r)] # NoRequest
  /\ Release(r)
  /\ UNCHANGED committed

\* 404
NotFound(r) ==
  /\ pc[r] \in {"holding", "pairing"}
  /\ wanted[r] # {} /\ rowLock[FirstWanted(r)] = NoRequest /\ txns[FirstWanted(r)] = NoTxn
  /\ Release(r)
  /\ UNCHANGED committed

\* Archived accounts, missing permissions, a lost connection, a stopped process
Rollback(r) ==
  /\ pc[r] # "idle"
  /\ Release(r)
  /\ UNCHANGED committed

Ready(r, step) == pc[r] = step /\ wanted[r] = {}
Advance(r, step) == pc' = [pc EXCEPT ![r] = step] /\ UNCHANGED <<committed, rowLock, job, chosen, partner>>

-----------------------------------------------------------------------------
(* link_existing_refund, and create_transaction_and_get_response for a refund *)

Linking(r) == job[r] \in {"link", "create"}
Linkable(r) == \A t \in chosen[r] : links[t] = NoTxn /\ t # partner[r]

\* Fault: the expense is read without a lock
ReadExpense(r) ==
  /\ Ready(r, "holding") /\ job[r] = "link" /\ Linkable(r)
  /\ Advance(r, "pairing")
  /\ UNCHANGED <<wanted, draft>>

\* The refund is held; the expense is locked next
HoldExpense(r) ==
  /\ Ready(r, "holding") /\ job[r] = "link" /\ Linkable(r)
  /\ wanted' = [wanted EXCEPT ![r] = {partner[r]}]
  /\ Advance(r, "pairing")
  /\ UNCHANGED draft

\* validate_refund_original
Pairable(r) ==
  LET o == partner[r]
  IN  \A t \in chosen[r] :
        /\ Refunds(View(r)[t]) /\ Refundable(View(r)[o])
        /\ Refunded(View(r), RefundsOf(o) \union {t}) <= -View(r)[o].amount

\* Fault: the pairing is checked before the expense is locked
PairEarly(r) ==
  /\ pc[r] = "pairing" /\ Pairable(r)
  /\ Advance(r, "committing")
  /\ UNCHANGED <<wanted, draft>>

Pair(r) ==
  /\ Ready(r, "pairing") /\ Pairable(r)
  /\ Advance(r, "committing")
  /\ UNCHANGED <<wanted, draft>>

-----------------------------------------------------------------------------
(* unlink_refund, and the deletions *)

Unlink(r) ==
  /\ Ready(r, "holding") /\ job[r] = "unlink"
  /\ \A t \in chosen[r] : links[t] # NoTxn
  /\ Advance(r, "committing")
  /\ UNCHANGED <<wanted, draft>>

Delete(r) ==
  /\ Ready(r, "holding") /\ job[r] = "delete"
  /\ draft' = [draft EXCEPT ![r] = [t \in TxnIds |-> IF t \in chosen[r] THEN NoTxn ELSE @[t]]]
  /\ Advance(r, "committing")
  /\ UNCHANGED wanted

-----------------------------------------------------------------------------
(* update_transaction_and_get_response and bulk_update_transactions *)

\* One edit may store any row; a bulk edit turns amounts around, and both may file it elsewhere
Edited(r, row) ==
  IF job[r] = "edit" THEN Rows ELSE {new \in Rows : new.amount \in {row.amount, -row.amount}}

\* Fault: an edit counts on the rows it holds
NothingToLock(r) == {}

ToLock(r) == TouchedOriginals(chosen[r]) \ chosen[r]

\* The rows are written, refuse_broken_links passes them, and goes on to lock the expenses
Write(r) ==
  /\ Ready(r, "holding") /\ job[r] \in {"edit", "bulk"}
  /\ \E new \in [chosen[r] -> Rows] :
       LET view == [t \in TxnIds |-> IF t \in chosen[r] THEN new[t] ELSE txns[t]]
       IN  /\ \A t \in chosen[r] : new[t] \in RowsOf[t] /\ new[t] \in Edited(r, txns[t])
           /\ ~Broken(view, chosen[r])
           /\ draft' = [draft EXCEPT ![r] = [t \in TxnIds |-> IF t \in chosen[r] THEN new[t] ELSE @[t]]]
  /\ wanted' = [wanted EXCEPT ![r] = ToLock(r)]
  /\ Advance(r, "totalling")

Totalled(r) == \A o \in TouchedOriginals(chosen[r]) : ~OverRefunded(View(r), o)

\* What the refunds of every touched expense total now
Total(r) ==
  /\ Ready(r, "totalling") /\ Totalled(r)
  /\ Advance(r, "committing")
  /\ UNCHANGED <<wanted, draft>>

-----------------------------------------------------------------------------
\* 409 and 422 of the checks above
Refuse(r) ==
  /\ \/ Ready(r, "holding") /\ job[r] = "link" /\ ~Linkable(r)
     \/ Ready(r, "pairing") /\ ~Pairable(r)
     \/ Ready(r, "holding") /\ job[r] = "unlink" /\ \E t \in chosen[r] : links[t] = NoTxn
     \/ Ready(r, "totalling") /\ ~Totalled(r)
  /\ Release(r)
  /\ UNCHANGED committed

\* Links go with either of their transactions
Commit(r) ==
  /\ pc[r] = "committing"
  /\ txns' = View(r)
  /\ links' = [t \in TxnIds |->
                 IF t \in chosen[r] /\ Linking(r) THEN partner[r]
                 ELSE IF t \in chosen[r] /\ job[r] \in {"unlink", "delete"} THEN NoTxn
                 ELSE IF links[t] \in chosen[r] /\ job[r] = "delete" THEN NoTxn
                 ELSE links[t]]
  /\ Release(r)

Several == {ts \in SUBSET TxnIds : Cardinality(ts) > 1}

Start(r) ==
  \/ \E t, o \in TxnIds : \/ Begin(r, "link", {t}, o)
                          \/ t # o /\ \E row \in RowsOf[t] : BeginRefund(r, t, row, o)
  \/ \E t \in TxnIds, j \in {"unlink", "edit", "delete"} : Begin(r, j, {t}, NoTxn)
  \/ \E ts \in Several, j \in {"bulk", "delete"} : Begin(r, j, ts, NoTxn)

Proceed(r) ==
  \/ Hold(r) \/ PassOver(r) \/ GiveUp(r) \/ NotFound(r)
  \/ HoldExpense(r) \/ Pair(r) \/ Unlink(r) \/ Delete(r) \/ Write(r) \/ Total(r)
  \/ Refuse(r) \/ Commit(r)

Next ==
  \/ \E t \in TxnIds : \E row \in RowsOf[t] : Create(t, row)
  \/ \E r \in Requests : Start(r) \/ Proceed(r) \/ Rollback(r)

Spec == Init /\ [][Next]_vars

\* A handler that can take its next step takes it
FairSpec == Spec /\ \A r \in Requests : WF_vars(Proceed(r))

-----------------------------------------------------------------------------
(* Properties *)

\* Every variable stays in its domain, and a request about to commit waits for no lock.
TypeOK ==
  /\ txns \in [TxnIds -> Rows \union {NoTxn}]
  /\ links \in [TxnIds -> TxnIds \union {NoTxn}]
  /\ rowLock \in [TxnIds -> Requests \union {NoRequest}]
  /\ pc \in [Requests -> {"idle", "holding", "pairing", "totalling", "committing"}]
  /\ job \in [Requests -> {"none", "link", "create", "unlink", "edit", "bulk", "delete"}]
  /\ chosen \in [Requests -> SUBSET TxnIds]
  /\ partner \in [Requests -> TxnIds \union {NoTxn}]
  /\ wanted \in [Requests -> SUBSET TxnIds]
  /\ draft \in [Requests -> [TxnIds -> Rows \union {NoTxn}]]
  /\ \A r \in Requests : pc[r] \in {"idle", "committing"} => wanted[r] = {}

\* transaction_link.py and refuse_broken_links: every committed link joins money coming in that is no
\* transfer to money going out in an expense category, although each side is edited under its own
\* lock and a link is made between reading one side and reading the other.
LinksJoin == \A t \in TxnIds : links[t] # NoTxn => Refunds(txns[t]) /\ Refundable(txns[links[t]])

\* The refunds of an expense never total more than it, whichever edits of several refunds, of the
\* expense and whichever new links were checked against what the others had not committed.
RefundsFit == \A o \in TxnIds : RefundsOf(o) # {} => ~OverRefunded(txns, o)

\* bulk_access.py: a refund's edit holding the refund and a bulk change holding its expense wait for
\* each other; with the timeouts every request ends.
RequestsEnd == \A r \in Requests : pc[r] # "idle" ~> pc[r] = "idle"

=============================================================================

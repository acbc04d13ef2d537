------------------------------- MODULE Ledger -------------------------------
(***************************************************************************)
(* Transactions of accounts and the daily balance snapshots derived from   *)
(* them, written by concurrent requests of the backend.                    *)
(*                                                                         *)
(* A request is one HTTP handler running one PostgreSQL transaction at     *)
(* READ COMMITTED.  What it has written and not yet committed is kept in   *)
(* its draft, which only the request itself sees; Commit publishes the     *)
(* draft and releases every lock, Rollback drops it.  Each action is one   *)
(* statement of the request, or several between which no other request    *)
(* can be told apart.                                                      *)
(*                                                                         *)
(*   services/transactions/creation.py, update.py, bulk_update.py,         *)
(*   deletion.py        the writers                                        *)
(*   services/accounts/snapshots.py   the rebuild of the snapshots         *)
(*   services/accounts/balance_adjustments.py   archiving an account       *)
(***************************************************************************)
EXTENDS Sums

CONSTANTS
  Requests,      \* handlers that run concurrently
  Accounts,
  TxnIds,        \* transaction ids, used or still free
  Days,          \* calendar days, a set of integers
  Amounts,       \* amounts a client sends, in minor units
  MinUnits,      \* MIN_MINOR_UNITS, what a bigint column can hold
  MaxUnits,      \* MAX_MINOR_UNITS
  LockKey,       \* account -> key of its advisory lock
  Operations,    \* bound: the handlers the instance's clients call
  AnchorDays,    \* days the account's creation time can fall on in the owner's zone
  NoRequest, NoAccount, NoTxn, NoRow, NoDay

Units == MinUnits..MaxUnits

ASSUME LedgerAssumption ==
  /\ Days \subseteq Int /\ AnchorDays \subseteq Days /\ AnchorDays # {}
  /\ IsFiniteSet(Days) /\ IsFiniteSet(TxnIds)
  /\ MinUnits \in Int /\ MaxUnits \in Int /\ 0 \in Units
  /\ Amounts \subseteq Units
  /\ LockKey \in [Accounts -> Int]
  /\ NoRequest \notin Requests /\ NoAccount \notin Accounts
  /\ NoRow \notin Int /\ NoDay \notin Days

Txn == [account : Accounts, dt : Days, amount : Units]

ASSUME NoTxnAssumption == NoTxn \notin Txn

VARIABLES
  txns,        \* committed transactions
  snapshots,   \* committed account_balance_snapshots rows
  archived,    \* committed accounts.is_archived
  rowLock,     \* FOR UPDATE lock (or uncommitted insert) of a transaction row
  accountLock, \* lock an UPDATE of the account row takes
  snapshotLock,\* transaction-scoped advisory lock, by key
  pc,
  draftTxns,   \* the rows under the request's lock, as it would commit them
  draftRows,   \* the snapshot rows of rebuilt accounts, as it would commit them
  starts,      \* snapshot_starts: earliest rebuild day of each affected account
  rebuilt,     \* accounts already rebuilt by this request
  target,      \* account being rebuilt or archived
  running,     \* running_balance of the rebuild
  archiveDay   \* archive_date of an archive request

committed == <<txns, snapshots, archived>>
locks == <<rowLock, accountLock, snapshotLock>>
rebuild == <<draftRows, rebuilt, target, running>>
vars == <<committed, locks, pc, draftTxns, starts, rebuild, archiveDay>>

-----------------------------------------------------------------------------
(* Reading transactions and snapshot rows *)

Keys == {LockKey[a] : a \in Accounts}

NoStarts == [a \in Accounts |-> NoDay]
NoRows == [d \in Days |-> NoRow]

\* Transactions as request r's statements see them: its own draft over what is committed
View(r) == [t \in TxnIds |-> IF rowLock[t] = r THEN draftTxns[r][t] ELSE txns[t]]

\* Amounts of the account's transactions on one day
AmountsOn(view, a, d) ==
  [t \in {t \in TxnIds : view[t] # NoTxn /\ view[t].account = a /\ view[t].dt = d} |-> view[t].amount]

Active(view, a, d) == DOMAIN AmountsOn(view, a, d) # {}
DayTotal(view, a, d) == IF Active(view, a, d) THEN SumOf(AmountsOn(view, a, d)) ELSE 0

\* p is the latest day before d holding a row (ORDER BY dt DESC LIMIT 1)
LatestBefore(rows, p, d) ==
  /\ p < d /\ rows[p] # NoRow
  /\ \A q \in Days : p < q /\ q < d => rows[q] = NoRow

NoneBefore(rows, d) == \A p \in Days : p < d => rows[p] = NoRow

\* get_current_balances: the latest row on or before a day, nothing when there is none
BalanceOn(rows, d) ==
  LET upTo == {p \in Days : p <= d /\ rows[p] # NoRow}
  IN  IF upTo = {} THEN 0 ELSE rows[Max(upTo)]

-----------------------------------------------------------------------------
Init ==
  /\ txns = [t \in TxnIds |-> NoTxn]
  /\ snapshots \in [Accounts -> {[NoRows EXCEPT ![d] = 0] : d \in AnchorDays}]
  /\ archived = [a \in Accounts |-> FALSE]
  /\ rowLock = [t \in TxnIds |-> NoRequest]
  /\ accountLock = [a \in Accounts |-> NoRequest]
  /\ snapshotLock = [k \in Keys |-> NoRequest]
  /\ pc = [r \in Requests |-> "idle"]
  /\ draftTxns = [r \in Requests |-> [t \in TxnIds |-> NoTxn]]
  /\ draftRows = [r \in Requests |-> [a \in Accounts |-> NoRows]]
  /\ starts = [r \in Requests |-> NoStarts]
  /\ rebuilt = [r \in Requests |-> {}]
  /\ target = [r \in Requests |-> NoAccount]
  /\ running = [r \in Requests |-> 0]
  /\ archiveDay = [r \in Requests |-> NoDay]

\* The earliest of the days each account is touched on, for (account, day) pairs
EarliestDays(touched, from) ==
  \A a \in Accounts :
    \/ from[a] = NoDay /\ \A x \in touched : x[1] # a
    \/ <<a, from[a]>> \in touched /\ \A x \in touched : x[1] = a => from[a] <= x[2]

\* The request has written the rows new over the rows ts it holds, and goes on to
\* recompute_account_snapshots from the earliest touched days; an empty mapping returns at once
Write(r, ts, new, touched) ==
  /\ rowLock' = [t \in TxnIds |-> IF t \in ts THEN r ELSE rowLock[t]]
  /\ draftTxns' = [draftTxns EXCEPT ![r] = [t \in TxnIds |-> IF t \in ts THEN new[t] ELSE NoTxn]]
  /\ \E from \in [Accounts -> {x[2] : x \in touched} \union {NoDay}] :
       /\ EarliestDays(touched, from)
       /\ starts' = [starts EXCEPT ![r] = from]
       /\ pc' = [pc EXCEPT ![r] = IF from = NoStarts THEN "committing" ELSE "locking"]

\* create_transaction_for_user: the account is held against deletion and is not archived
Create(r, t, row) ==
  /\ pc[r] = "idle"
  /\ txns[t] = NoTxn /\ rowLock[t] = NoRequest
  /\ ~archived[row.account]
  /\ Write(r, {t}, [u \in {t} |-> row], {<<row.account, row.dt>>})
  /\ UNCHANGED <<committed, accountLock, snapshotLock, rebuild, archiveDay>>

\* load_locked_transactions and check_transaction_access, then the archived check: rows a lock can
\* be taken on are committed and held by nobody, and their account is open
Writable(t) == txns[t] # NoTxn /\ rowLock[t] = NoRequest /\ ~archived[txns[t].account]

\* The row with the balance fields the request carries
Overwritten(old, row, sent) ==
  [account |-> IF "account" \in sent THEN row.account ELSE old.account,
   dt |-> IF "dt" \in sent THEN row.dt ELSE old.dt,
   amount |-> IF "amount" \in sent THEN row.amount ELSE old.amount]

\* Fault: the rebuild starts where the row ends up and forgets the day it leaves
TouchedAfterwards(old, new, sent) == IF sent = {} THEN {} ELSE {<<new.account, new.dt>>}

\* recompute_snapshots_after_transaction_update: nothing unless a balance field was sent, else where
\* the row was and where it ends up
TouchedByUpdate(old, new, sent) ==
  IF sent = {} THEN {} ELSE {<<old.account, old.dt>>, <<new.account, new.dt>>}

\* update_transaction_and_get_response: sent names the balance fields the request carries
Update(r, t, row, sent) ==
  LET new == Overwritten(txns[t], row, sent)
  IN  /\ pc[r] = "idle"
      /\ Writable(t)
      /\ "account" \in sent => ~archived[row.account]
      /\ Write(r, {t}, [u \in {t} |-> new], TouchedByUpdate(txns[t], new, sent))
      /\ UNCHANGED <<committed, accountLock, snapshotLock, rebuild, archiveDay>>

\* _direction_amount_expression
Directed(amount, direction) ==
  LET magnitude == IF amount < 0 THEN -amount ELSE amount
  IN  CASE direction = "debit" -> -magnitude
        [] direction = "credit" -> magnitude
        [] direction = "reverse" -> -amount
        [] direction = "keep" -> amount

\* _apply_changes: the account the row resolves to, the one date, the direction when it reaches it
Changed(old, account, day, direction) ==
  [account |-> account, dt |-> IF day = NoDay THEN old.dt ELSE day,
   amount |-> Directed(old.amount, direction)]

\* _collect_snapshot_starts: every row counts where it was and where it ends up
TouchedByBulkUpdate(ts, new, carried) ==
  IF ~carried THEN {}
  ELSE {<<txns[t].account, txns[t].dt>> : t \in ts} \union {<<new[t].account, new[t].dt>> : t \in ts}

\* bulk_update_transactions: the rows in turned get the direction, and each row the account its own
\* transfer end or the move resolves to (moves: the request carries either)
BulkUpdate(r, ts, moves, accountOf, day, turned, direction) ==
  LET new == [t \in ts |-> Changed(txns[t], accountOf[t], day, IF t \in turned THEN direction ELSE "keep")]
      carried == moves \/ day # NoDay \/ direction # "keep"
  IN  /\ pc[r] = "idle"
      /\ \A t \in ts : /\ Writable(t)
                       /\ accountOf[t] # txns[t].account => moves /\ ~archived[accountOf[t]]
                       /\ new[t].amount \in Units
      /\ Write(r, ts, new, TouchedByBulkUpdate(ts, new, carried))
      /\ UNCHANGED <<committed, accountLock, snapshotLock, rebuild, archiveDay>>

\* delete_transaction_for_user and bulk_delete_transactions (delete_locked_transactions)
Delete(r, ts) ==
  /\ pc[r] = "idle"
  /\ \A t \in ts : Writable(t)
  /\ Write(r, ts, [t \in ts |-> NoTxn], {<<txns[t].account, txns[t].dt>> : t \in ts})
  /\ UNCHANGED <<committed, accountLock, snapshotLock, rebuild, archiveDay>>

-----------------------------------------------------------------------------
(* update_account_for_user, for the is_archived field *)

\* validate_no_transactions_after_archive_date, read with no lock that a transaction waits on
ValidateArchive(r, a, day) ==
  /\ pc[r] = "idle"
  /\ ~archived[a]
  /\ \A t \in TxnIds : txns[t] # NoTxn /\ txns[t].account = a => txns[t].dt <= day
  /\ pc' = [pc EXCEPT ![r] = "archiving"]
  /\ target' = [target EXCEPT ![r] = a]
  /\ archiveDay' = [archiveDay EXCEPT ![r] = day]
  /\ UNCHANGED <<committed, locks, draftTxns, starts, draftRows, rebuilt, running>>

\* zero_account_balance_for_archive: the balance read flushes is_archived first, which locks the
\* account row, and the adjustment is added when that balance is not zero
ZeroBalance(r, t) ==
  LET a == target[r]
      balance == BalanceOn(snapshots[a], archiveDay[r])
      row == [account |-> a, dt |-> archiveDay[r], amount |-> -balance]
  IN  /\ pc[r] = "archiving"
      /\ accountLock[a] = NoRequest
      /\ accountLock' = [accountLock EXCEPT ![a] = r]
      /\ \/ /\ balance = 0
            /\ Write(r, {}, << >>, {})
         \/ /\ balance # 0 /\ -balance \in Units
            /\ txns[t] = NoTxn /\ rowLock[t] = NoRequest
            /\ Write(r, {t}, [u \in {t} |-> row], {<<a, archiveDay[r]>>})
      /\ UNCHANGED <<committed, snapshotLock, rebuild, archiveDay>>

\* Clearing is_archived: one UPDATE and its commit
Unarchive(r, a) ==
  /\ pc[r] = "idle"
  /\ archived[a] /\ accountLock[a] = NoRequest
  /\ archived' = [archived EXCEPT ![a] = FALSE]
  /\ UNCHANGED <<txns, snapshots, locks, pc, draftTxns, starts, rebuild, archiveDay>>

-----------------------------------------------------------------------------
(* recompute_account_snapshots *)

Affected(r) == {a \in Accounts : starts[r][a] # NoDay}
WantedKeys(r) == {LockKey[a] : a \in Affected(r)}
HeldKeys(r) == {k \in Keys : snapshotLock[k] = r}

\* Fault: the locks are taken in the order the accounts were met
UnsortedKey(r, k) == k \in WantedKeys(r) \ HeldKeys(r)

\* The next advisory lock in sorted key order
NextKey(r, k) ==
  /\ k \in WantedKeys(r) \ HeldKeys(r)
  /\ \A other \in WantedKeys(r) \ HeldKeys(r) : k <= other

\* Fault: rebuilds of one account do not wait for each other
GoOnUnserialized(r, k) ==
  /\ pc[r] = "locking"
  /\ NextKey(r, k)
  /\ pc' = [pc EXCEPT ![r] = "rebuilding"]
  /\ UNCHANGED <<committed, locks, draftTxns, starts, rebuild, archiveDay>>

AcquireSnapshotLock(r, k) ==
  /\ pc[r] = "locking"
  /\ NextKey(r, k)
  /\ snapshotLock[k] = NoRequest
  /\ snapshotLock' = [snapshotLock EXCEPT ![k] = r]
  /\ pc' = [pc EXCEPT ![r] = IF WantedKeys(r) \subseteq HeldKeys(r) \union {k} THEN "rebuilding" ELSE "locking"]
  /\ UNCHANGED <<committed, rowLock, accountLock, draftTxns, starts, rebuild, archiveDay>>

\* Fault: no running balance is set when no row precedes the window
ReadMissingAnchor(r, a) ==
  /\ pc[r] = "rebuilding"
  /\ a \in Affected(r) \ rebuilt[r]
  /\ \/ /\ NoneBefore(snapshots[a], starts[r][a])
        /\ running' = [running EXCEPT ![r] = NoRow]
     \/ \E p \in Days : /\ LatestBefore(snapshots[a], p, starts[r][a])
                        /\ running' = [running EXCEPT ![r] = snapshots[a][p]]
  /\ target' = [target EXCEPT ![r] = a]
  /\ pc' = [pc EXCEPT ![r] = "walking"]
  /\ UNCHANGED <<committed, locks, draftTxns, starts, draftRows, rebuilt, archiveDay>>

\* _recompute_account_snapshots_from: the anchor before the window
ReadAnchor(r, a) ==
  /\ pc[r] = "rebuilding"
  /\ a \in Affected(r) \ rebuilt[r]
  /\ \/ /\ NoneBefore(snapshots[a], starts[r][a])
        /\ running' = [running EXCEPT ![r] = 0]
     \/ \E p \in Days : /\ LatestBefore(snapshots[a], p, starts[r][a])
                        /\ running' = [running EXCEPT ![r] = snapshots[a][p]]
  /\ target' = [target EXCEPT ![r] = a]
  /\ pc' = [pc EXCEPT ![r] = "walking"]
  /\ UNCHANGED <<committed, locks, draftTxns, starts, draftRows, rebuilt, archiveDay>>

\* Days of the rebuild window holding transactions, one row of the grouped sum each
WindowDays(r, a) == {d \in Days : d >= starts[r][a] /\ Active(View(r), a, d)}

\* The account's rows once those of the window are deleted and walked gives the new ones
Replaced(r, a, walked) ==
  [d \in Days |-> IF d < starts[r][a] THEN snapshots[a][d]
                  ELSE IF d \in WindowDays(r, a) THEN walked[d] ELSE NoRow]

\* Each new row adds its day's total to the running balance, which the walk begins at the anchor
Walk(r, a, walked) ==
  \A d \in WindowDays(r, a) :
    \/ /\ \A p \in WindowDays(r, a) : d <= p
       /\ walked[d] = running[r] + DayTotal(View(r), a, d)
    \/ \E p \in WindowDays(r, a) :
         /\ LatestBefore(Replaced(r, a, walked), p, d)
         /\ walked[d] = walked[p] + DayTotal(View(r), a, d)

\* restore_zero_anchor_if_empty
ZeroAnchored(rows, day) == IF rows = NoRows THEN [NoRows EXCEPT ![day] = 0] ELSE rows

\* The rest of _recompute_account_snapshots_from: the window's rows go, the daily totals are read
\* and walked into new rows that all fit the column, and an account left without rows gets its
\* zero anchor
RebuildWindow(r, day) ==
  LET a == target[r]
  IN  /\ pc[r] = "walking"
      /\ \E walked \in [WindowDays(r, a) -> Units] :
           /\ Walk(r, a, walked)
           /\ draftRows' = [draftRows EXCEPT ![r][a] = ZeroAnchored(Replaced(r, a, walked), day)]
      /\ rebuilt' = [rebuilt EXCEPT ![r] = @ \union {a}]
      /\ pc' = [pc EXCEPT ![r] = IF Affected(r) \subseteq rebuilt[r] \union {a}
                                 THEN "committing" ELSE "rebuilding"]
      /\ UNCHANGED <<committed, locks, draftTxns, starts, target, running, archiveDay>>

-----------------------------------------------------------------------------
(* Ending the database transaction *)

Release(r) ==
  /\ rowLock' = [t \in TxnIds |-> IF rowLock[t] = r THEN NoRequest ELSE rowLock[t]]
  /\ accountLock' = [a \in Accounts |-> IF accountLock[a] = r THEN NoRequest ELSE accountLock[a]]
  /\ snapshotLock' = [k \in Keys |-> IF snapshotLock[k] = r THEN NoRequest ELSE snapshotLock[k]]
  /\ pc' = [pc EXCEPT ![r] = "idle"]
  /\ draftTxns' = [draftTxns EXCEPT ![r] = [t \in TxnIds |-> NoTxn]]
  /\ draftRows' = [draftRows EXCEPT ![r] = [a \in Accounts |-> NoRows]]
  /\ starts' = [starts EXCEPT ![r] = NoStarts]
  /\ rebuilt' = [rebuilt EXCEPT ![r] = {}]
  /\ target' = [target EXCEPT ![r] = NoAccount]
  /\ running' = [running EXCEPT ![r] = 0]
  /\ archiveDay' = [archiveDay EXCEPT ![r] = NoDay]

\* refuse_unstorable_balance during the walk: no rows of the window fit the column
RefuseBalance(r) ==
  /\ pc[r] = "walking"
  /\ ~ \E walked \in [WindowDays(r, target[r]) -> Units] : Walk(r, target[r], walked)
  /\ Release(r)
  /\ UNCHANGED committed

\* Fault: of the accounts a move rebuilt only the last is stored
CommitLastAccount(r) ==
  /\ pc[r] = "committing"
  /\ txns' = View(r)
  /\ snapshots' = [a \in Accounts |-> IF a = target[r] /\ a \in rebuilt[r] THEN draftRows[r][a]
                                      ELSE snapshots[a]]
  /\ archived' = [a \in Accounts |-> archived[a] \/ accountLock[a] = r]
  /\ Release(r)

\* Rows, balances and an archived flag become visible together
Commit(r) ==
  /\ pc[r] = "committing"
  /\ txns' = View(r)
  /\ snapshots' = [a \in Accounts |-> IF a \in rebuilt[r] THEN draftRows[r][a] ELSE snapshots[a]]
  /\ archived' = [a \in Accounts |-> archived[a] \/ accountLock[a] = r]
  /\ Release(r)

\* A refusal after the first write (a validation, a broken refund link), a lost connection or a
\* stopped process
Rollback(r) ==
  /\ pc[r] # "idle"
  /\ Release(r)
  /\ UNCHANGED committed

-----------------------------------------------------------------------------
Begin(r) ==
  /\ pc[r] = "idle"
  /\ \/ /\ "create" \in Operations
        /\ \E t \in TxnIds, row \in [account : Accounts, dt : Days, amount : Amounts] : Create(r, t, row)
     \/ /\ "update" \in Operations
        /\ \E t \in TxnIds, row \in [account : Accounts, dt : Days, amount : Amounts],
              sent \in SUBSET {"account", "dt", "amount"} : Update(r, t, row, sent)
     \/ /\ "bulk_update" \in Operations
        /\ \E ts \in SUBSET TxnIds \ {{}}, day \in Days \union {NoDay}, moves \in BOOLEAN,
              direction \in {"debit", "credit", "reverse", "keep"} :
             \E accountOf \in [ts -> Accounts], turned \in SUBSET ts :
               BulkUpdate(r, ts, moves, accountOf, day, turned, direction)
     \/ /\ "delete" \in Operations
        /\ \E ts \in SUBSET TxnIds \ {{}} : Delete(r, ts)
     \/ /\ "archive" \in Operations
        /\ \E a \in Accounts : Unarchive(r, a) \/ \E day \in Days : ValidateArchive(r, a, day)

Proceed(r) ==
  \/ \E t \in TxnIds : ZeroBalance(r, t)
  \/ \E k \in Keys : AcquireSnapshotLock(r, k)
  \/ \E a \in Accounts : ReadAnchor(r, a)
  \/ \E d \in AnchorDays : RebuildWindow(r, d)
  \/ RefuseBalance(r)
  \/ Commit(r)

Next == \E r \in Requests : Begin(r) \/ Proceed(r) \/ Rollback(r)

Spec == Init /\ [][Next]_vars

\* A running handler goes on to its end.  Waiters on an advisory lock queue in order of arrival in
\* PostgreSQL, so one that is offered the lock again and again gets it; nothing makes a client call
FairSpec ==
  /\ Spec
  /\ \A r \in Requests :
       /\ WF_vars(Proceed(r))
       /\ \A k \in Keys : SF_vars(AcquireSnapshotLock(r, k))

-----------------------------------------------------------------------------
(* Properties *)

\* Every variable stays in its domain; balances fit a bigint column.
TypeOK ==
  /\ txns \in [TxnIds -> Txn \union {NoTxn}]
  /\ snapshots \in [Accounts -> [Days -> Units \union {NoRow}]]
  /\ archived \in [Accounts -> BOOLEAN]
  /\ rowLock \in [TxnIds -> Requests \union {NoRequest}]
  /\ accountLock \in [Accounts -> Requests \union {NoRequest}]
  /\ snapshotLock \in [Keys -> Requests \union {NoRequest}]
  /\ pc \in [Requests -> {"idle", "archiving", "locking", "rebuilding", "walking", "committing"}]
  /\ draftTxns \in [Requests -> [TxnIds -> Txn \union {NoTxn}]]
  /\ draftRows \in [Requests -> [Accounts -> [Days -> Units \union {NoRow}]]]
  /\ starts \in [Requests -> [Accounts -> Days \union {NoDay}]]
  /\ rebuilt \in [Requests -> SUBSET Accounts]
  /\ target \in [Requests -> Accounts \union {NoAccount}]
  /\ running \in [Requests -> Units]
  /\ archiveDay \in [Requests -> Days \union {NoDay}]

\* rows are the account's balances as far as the transactions of view go: a day with transactions
\* has a row, and each row is the row before it (or nothing) plus its own day's total
Chained(rows, view, a) ==
  \A d \in Days :
    /\ Active(view, a, d) => rows[d] # NoRow
    /\ rows[d] # NoRow =>
         /\ NoneBefore(rows, d) => rows[d] = 0 + DayTotal(view, a, d)
         /\ \A p \in Days : LatestBefore(rows, p, d) => rows[d] = rows[p] + DayTotal(view, a, d)

\* The committed snapshots of every account form the chain of its committed transactions,
\* whatever requests are in flight (snapshots.py: "Serialize every affected account before any
\* anchor read so a rebuild sees earlier commits").
SnapshotsChained == \A a \in Accounts : Chained(snapshots[a], txns, a)

\* The balance the app shows for any day is the sum of every committed transaction up to that day,
\* although a rebuild reads only an anchor and the window after it.
BalancesArePrefixSums ==
  \A a \in Accounts, d \in Days :
    BalanceOn(snapshots[a], d) =
      SumOf([t \in {t \in TxnIds : txns[t] # NoTxn /\ txns[t].account = a /\ txns[t].dt <= d}
               |-> txns[t].amount])

\* What a request is about to commit is already consistent: its rebuilt accounts chain over the
\* transactions as they will be, and no account it changes is left out of the rebuild.
DraftsChained ==
  \A r \in Requests : pc[r] = "committing" =>
    \A a \in Accounts :
      Chained(IF a \in rebuilt[r] THEN draftRows[r][a] ELSE snapshots[a], View(r), a)

\* A request that asked for the balance locks ends: requests that move transactions between the same
\* accounts in opposite directions do not wait for each other (the keys are taken in sorted order).
RebuildsFinish == \A r \in Requests : pc[r] = "locking" ~> pc[r] = "idle"

\* Readers of the committed tables see a Book: each operation at once and whole, its transactions
\* together with the balances of every day.
Implemented == INSTANCE Book WITH
  balances <- [a \in Accounts |-> [d \in Days |-> BalanceOn(snapshots[a], d)]]

ImplementsBook == Implemented!BookSpec

\* accounts.py validate_transaction_account_is_not_archived: "Archived accounts stay readable, but
\* transaction create, update, and delete paths cannot write new history for them": an account that
\* is archived before and after a step has the same transactions before and after it.
ArchivedHistoryFrozen ==
  [][\A a \in Accounts : archived[a] /\ archived'[a] =>
       \A t \in TxnIds : (txns[t] # NoTxn /\ txns[t].account = a) \/ (txns'[t] # NoTxn /\ txns'[t].account = a)
                           => txns'[t] = txns[t]]_vars

=============================================================================

---------------------------- MODULE LedgerProofs ----------------------------
(***************************************************************************)
(* For any number of requests, accounts, transactions and days: the        *)
(* committed snapshots of every account chain over its committed           *)
(* transactions, the balances read from them are the sums of those         *)
(* transactions, the committed tables change as a Book does, and the       *)
(* requests never wait for the locks of accounts in a circle.              *)
(***************************************************************************)
EXTENDS Ledger, SumProofs

-----------------------------------------------------------------------------
(* The inductive invariant *)

\* A row a request holds is as it was, or the days it leaves and enters are in the rebuild window
\* of their accounts
Covered(r) ==
  \A t \in TxnIds : rowLock[t] = r =>
    \/ draftTxns[r][t] = txns[t]
    \/ /\ txns[t] # NoTxn =>
            starts[r][txns[t].account] # NoDay /\ starts[r][txns[t].account] <= txns[t].dt
       /\ draftTxns[r][t] # NoTxn =>
            /\ starts[r][draftTxns[r][t].account] # NoDay
            /\ starts[r][draftTxns[r][t].account] <= draftTxns[r][t].dt

\* The running balance is the account's last one before the rebuild window
Anchored(r) ==
  LET a == target[r]
  IN  \/ NoneBefore(snapshots[a], starts[r][a]) /\ running[r] = 0
      \/ \E p \in Days : /\ LatestBefore(snapshots[a], p, starts[r][a])
                         /\ running[r] = snapshots[a][p]

RequestInv(r) ==
  /\ pc[r] \in {"idle", "archiving"} => (\A t \in TxnIds : rowLock[t] # r) /\ starts[r] = NoStarts
  /\ pc[r] \in {"idle", "archiving", "locking"} => rebuilt[r] = {}
  /\ pc[r] \in {"rebuilding", "walking", "committing"} => WantedKeys(r) \subseteq HeldKeys(r)
  /\ pc[r] = "archiving" => target[r] \in Accounts /\ archiveDay[r] \in Days
  /\ pc[r] = "walking" => target[r] \in Affected(r) \ rebuilt[r] /\ Anchored(r)
  /\ pc[r] = "committing" => rebuilt[r] = Affected(r)
  /\ Covered(r)
  /\ \A a \in rebuilt[r] : a \in Affected(r) /\ Chained(draftRows[r][a], View(r), a)

LedgerInv == TypeOK /\ SnapshotsChained /\ \A r \in Requests : RequestInv(r)

-----------------------------------------------------------------------------
(* Reading amounts *)

On(view, t, a, d) == view[t] # NoTxn /\ view[t].account = a /\ view[t].dt = d

\* Views that agree on the transactions of a day have the same amounts on it
LEMMA SameAmounts ==
  ASSUME NEW v, NEW w, NEW a, NEW d,
         \A t \in TxnIds : v[t] = w[t] \/ (~On(v, t, a, d) /\ ~On(w, t, a, d))
  PROVE  AmountsOn(v, a, d) = AmountsOn(w, a, d)
<1>1. \A t \in TxnIds : On(v, t, a, d) <=> On(w, t, a, d)
  BY DEF On
<1>2. {t \in TxnIds : On(v, t, a, d)} = {t \in TxnIds : On(w, t, a, d)}
  BY <1>1
<1>3. \A t \in {t \in TxnIds : On(v, t, a, d)} : v[t].amount = w[t].amount
  BY <1>1
<1> QED BY <1>2, <1>3 DEF AmountsOn, On

\* A chain over one view is a chain over any other with the same amounts on every day
LEMMA SameChain ==
  ASSUME NEW rows, NEW v, NEW w, NEW a,
         \A d \in Days : AmountsOn(v, a, d) = AmountsOn(w, a, d),
         Chained(rows, v, a)
  PROVE  Chained(rows, w, a)
BY DEF Chained, Active, DayTotal

\* Outside the rebuild windows of a request, its view has the committed amounts
LEMMA SameOutsideWindow ==
  ASSUME NEW r \in Requests, TypeOK, Covered(r), NEW a \in Accounts, NEW d \in Days,
         starts[r][a] = NoDay \/ d < starts[r][a]
  PROVE  AmountsOn(View(r), a, d) = AmountsOn(txns, a, d)
<1>1. \A t \in TxnIds : View(r)[t] = txns[t] \/ (~On(View(r), t, a, d) /\ ~On(txns, t, a, d))
  <2> SUFFICES ASSUME NEW t \in TxnIds, View(r)[t] # txns[t]
               PROVE  ~On(View(r), t, a, d) /\ ~On(txns, t, a, d)
    OBVIOUS
  <2>1. rowLock[t] = r /\ View(r)[t] = draftTxns[r][t]
    BY DEF View
  <2>2. d \in Int /\ (starts[r][a] # NoDay => starts[r][a] \in Int)
    <3>1. starts[r][a] \in Days \union {NoDay}
      BY DEF TypeOK
    <3>2. Days \subseteq Int
      BY LedgerAssumption
    <3> QED BY <3>1, <3>2
  <2> QED BY <2>1, <2>2 DEF Covered, On
<1> QED BY <1>1, SameAmounts

-----------------------------------------------------------------------------
(* Type correctness *)

\* Initially every variable is in its domain
LEMMA InitType == Init => TypeOK
<1> SUFFICES ASSUME Init PROVE TypeOK
  OBVIOUS
<1>1. 0 \in Units /\ AnchorDays \subseteq Days
  BY LedgerAssumption
<1>2. snapshots \in [Accounts -> [Days -> Units \union {NoRow}]]
  BY <1>1 DEF Init, NoRows
<1>3. starts \in [Requests -> [Accounts -> Days \union {NoDay}]]
  BY DEF Init, NoStarts
<1>4. draftRows \in [Requests -> [Accounts -> [Days -> Units \union {NoRow}]]]
  BY DEF Init, NoRows
<1> QED BY <1>1, <1>2, <1>3, <1>4 DEF Init, TypeOK

\* The domains of the variables a Write changes
WrittenOK ==
  /\ rowLock \in [TxnIds -> Requests \union {NoRequest}]
  /\ draftTxns \in [Requests -> [TxnIds -> Txn \union {NoTxn}]]
  /\ starts \in [Requests -> [Accounts -> Days \union {NoDay}]]
  /\ pc \in [Requests -> {"idle", "archiving", "locking", "rebuilding", "walking", "committing"}]

\* The domains of the variables the end of a request changes
ReleasedOK ==
  /\ WrittenOK
  /\ accountLock \in [Accounts -> Requests \union {NoRequest}]
  /\ snapshotLock \in [Keys -> Requests \union {NoRequest}]
  /\ draftRows \in [Requests -> [Accounts -> [Days -> Units \union {NoRow}]]]
  /\ rebuilt \in [Requests -> SUBSET Accounts]
  /\ target \in [Requests -> Accounts \union {NoAccount}]
  /\ running \in [Requests -> Units]
  /\ archiveDay \in [Requests -> Days \union {NoDay}]

\* Writing well-typed rows keeps the variables it changes in their domains
LEMMA WriteType ==
  ASSUME TypeOK, NEW r \in Requests, NEW ts \in SUBSET TxnIds, NEW new, NEW touched,
         \A t \in ts : new[t] \in Txn \union {NoTxn},
         \A x \in touched : x[2] \in Days,
         Write(r, ts, new, touched)
  PROVE  WrittenOK'
<1>1. rowLock' \in [TxnIds -> Requests \union {NoRequest}]
  BY DEF TypeOK, Write
<1>2. draftTxns' \in [Requests -> [TxnIds -> Txn \union {NoTxn}]]
  <2>1. [t \in TxnIds |-> IF t \in ts THEN new[t] ELSE NoTxn] \in [TxnIds -> Txn \union {NoTxn}]
    OBVIOUS
  <2> QED BY <2>1 DEF TypeOK, Write
<1>3. PICK from \in [Accounts -> {x[2] : x \in touched} \union {NoDay}] :
        /\ starts' = [starts EXCEPT ![r] = from]
        /\ pc' = [pc EXCEPT ![r] = IF from = NoStarts THEN "committing" ELSE "locking"]
  BY DEF Write
<1>4. from \in [Accounts -> Days \union {NoDay}]
  BY <1>3
<1> QED BY <1>1, <1>2, <1>3, <1>4 DEF TypeOK, WrittenOK

\* Ending a request keeps the types of what it resets
LEMMA ReleaseType ==
  ASSUME TypeOK, NEW r \in Requests, Release(r)
  PROVE  ReleasedOK'
<1>1. 0 \in Units
  BY LedgerAssumption
<1>2. rowLock' \in [TxnIds -> Requests \union {NoRequest}]
      /\ accountLock' \in [Accounts -> Requests \union {NoRequest}]
      /\ snapshotLock' \in [Keys -> Requests \union {NoRequest}]
  BY DEF TypeOK, Release
<1>3. pc' \in [Requests -> {"idle", "archiving", "locking", "rebuilding", "walking", "committing"}]
      /\ rebuilt' \in [Requests -> SUBSET Accounts]
      /\ target' \in [Requests -> Accounts \union {NoAccount}]
      /\ archiveDay' \in [Requests -> Days \union {NoDay}]
  BY DEF TypeOK, Release
<1>4. running' \in [Requests -> Units]
  BY <1>1 DEF TypeOK, Release
<1>5. draftTxns' \in [Requests -> [TxnIds -> Txn \union {NoTxn}]]
  BY DEF TypeOK, Release
<1>6. draftRows' \in [Requests -> [Accounts -> [Days -> Units \union {NoRow}]]]
  BY DEF TypeOK, Release, NoRows
<1>7. starts' \in [Requests -> [Accounts -> Days \union {NoDay}]]
  BY DEF TypeOK, Release, NoStarts
<1> QED BY <1>2, <1>3, <1>4, <1>5, <1>6, <1>7 DEF WrittenOK, ReleasedOK

\* A request sees transactions
LEMMA ViewType == TypeOK => \A r \in Requests : View(r) \in [TxnIds -> Txn \union {NoTxn}]
BY DEF TypeOK, View

\* Every step keeps the types
LEMMA NextType == LedgerInv /\ [Next]_vars => TypeOK'
<1> SUFFICES ASSUME LedgerInv, [Next]_vars PROVE TypeOK'
  OBVIOUS
<1>0. TypeOK /\ \A r \in Requests : RequestInv(r)
  BY DEF LedgerInv
<1> USE <1>0 DEF committed, locks, rebuild
<1>1. ASSUME NEW r \in Requests, NEW t \in TxnIds,
             NEW row \in [account : Accounts, dt : Days, amount : Amounts], Create(r, t, row)
      PROVE  TypeOK'
  <2>1. row \in Txn
    BY LedgerAssumption DEF Txn
  <2>2. Write(r, {t}, [u \in {t} |-> row], {<<row.account, row.dt>>})
    BY <1>1 DEF Create
  <2>3. \A u \in {t} : [v \in {t} |-> row][u] \in Txn \union {NoTxn}
    BY <2>1
  <2>4. \A x \in {<<row.account, row.dt>>} : x[2] \in Days
    BY DEF Txn
  <2>6. WrittenOK'
    BY <2>2, <2>3, <2>4, WriteType
  <2> QED BY <1>1, <2>6 DEF Create, TypeOK, WrittenOK
<1>2. ASSUME NEW r \in Requests, NEW t \in TxnIds,
             NEW row \in [account : Accounts, dt : Days, amount : Amounts],
             NEW sent \in SUBSET {"account", "dt", "amount"}, Update(r, t, row, sent)
      PROVE  TypeOK'
  <2> DEFINE new == Overwritten(txns[t], row, sent)
             touched == TouchedByUpdate(txns[t], new, sent)
  <2>1. row \in Txn /\ txns[t] \in Txn
    BY <1>2, LedgerAssumption DEF Update, Writable, TypeOK, Txn
  <2>2. new \in Txn
    BY <2>1 DEF Txn, Overwritten
  <2>3. Write(r, {t}, [u \in {t} |-> new], touched)
    BY <1>2 DEF Update
  <2>4. \A u \in {t} : [v \in {t} |-> new][u] \in Txn \union {NoTxn}
    BY <2>2
  <2>5. \A x \in touched : x[2] \in Days
    BY <2>1, <2>2 DEF Txn, TouchedByUpdate
  <2> HIDE DEF new, touched
  <2>6. WrittenOK'
    BY <2>3, <2>4, <2>5, WriteType
  <2> QED BY <1>2, <2>6 DEF Update, TypeOK, WrittenOK
<1>3. ASSUME NEW r \in Requests, NEW ts \in SUBSET TxnIds, NEW moves \in BOOLEAN, NEW accountOf \in [ts -> Accounts],
             NEW day \in Days \union {NoDay}, NEW turned \in SUBSET ts, NEW direction,
             BulkUpdate(r, ts, moves, accountOf, day, turned, direction)
      PROVE  TypeOK'
  <2> DEFINE new == [t \in ts |-> Changed(txns[t], accountOf[t], day,
                                          IF t \in turned THEN direction ELSE "keep")]
             carried == moves \/ day # NoDay \/ direction # "keep"
             touched == TouchedByBulkUpdate(ts, new, carried)
  <2>1. \A t \in ts : txns[t] \in Txn /\ new[t].amount \in Units
    BY <1>3 DEF BulkUpdate, Writable, TypeOK
  <2>2. \A t \in ts : new[t] \in Txn
    BY <2>1 DEF Txn, Changed
  <2>3. Write(r, ts, new, touched)
    BY <1>3 DEF BulkUpdate
  <2> HIDE DEF new
  <2>4. \A t \in ts : txns[t].dt \in Days /\ new[t].dt \in Days
    BY <2>1, <2>2 DEF Txn
  <2>5. \A x \in touched : x[2] \in Days
    BY <2>4 DEF TouchedByBulkUpdate
  <2> HIDE DEF touched
  <2>6. WrittenOK'
    BY <2>2, <2>3, <2>5, WriteType
  <2> QED BY <1>3, <2>6 DEF BulkUpdate, TypeOK, WrittenOK
<1>4. ASSUME NEW r \in Requests, NEW ts \in SUBSET TxnIds, Delete(r, ts)
      PROVE  TypeOK'
  <2> DEFINE touched == {<<txns[t].account, txns[t].dt>> : t \in ts}
  <2>1. \A t \in ts : txns[t] \in Txn
    BY <1>4 DEF Delete, Writable, TypeOK
  <2>2. Write(r, ts, [t \in ts |-> NoTxn], touched)
    BY <1>4 DEF Delete
  <2>3. \A x \in touched : x[2] \in Days
    BY <2>1 DEF Txn
  <2>4. \A t \in ts : [u \in ts |-> NoTxn][t] \in Txn \union {NoTxn}
    OBVIOUS
  <2> HIDE DEF touched
  <2>6. WrittenOK'
    BY <2>2, <2>3, <2>4, WriteType
  <2> QED BY <1>4, <2>6 DEF Delete, TypeOK, WrittenOK
<1>5. ASSUME NEW r \in Requests, NEW a \in Accounts, NEW day \in Days, ValidateArchive(r, a, day)
      PROVE  TypeOK'
  BY <1>5 DEF ValidateArchive, TypeOK
<1>6. ASSUME NEW r \in Requests, NEW a \in Accounts, Unarchive(r, a)
      PROVE  TypeOK'
  BY <1>6 DEF Unarchive, TypeOK
<1>7. ASSUME NEW r \in Requests, NEW t \in TxnIds, ZeroBalance(r, t)
      PROVE  TypeOK'
  <2> DEFINE a == target[r]
             balance == BalanceOn(snapshots[a], archiveDay[r])
             row == [account |-> a, dt |-> archiveDay[r], amount |-> -balance]
  <2>1. a \in Accounts /\ archiveDay[r] \in Days
    BY <1>7 DEF ZeroBalance, RequestInv
  <2>2. accountLock' \in [Accounts -> Requests \union {NoRequest}]
    BY <1>7 DEF ZeroBalance, TypeOK
  <2>3. CASE Write(r, {}, << >>, {})
    <3>1. WrittenOK'
      BY <2>3, WriteType
    <3> QED BY <1>7, <2>2, <3>1 DEF ZeroBalance, TypeOK, WrittenOK
  <2>4. CASE -balance \in Units /\ Write(r, {t}, [u \in {t} |-> row], {<<a, archiveDay[r]>>})
    <3>1. row \in Txn
      BY <2>1, <2>4 DEF Txn
    <3>2. \A u \in {t} : [v \in {t} |-> row][u] \in Txn \union {NoTxn}
      BY <3>1
    <3>3. \A x \in {<<a, archiveDay[r]>>} : x[2] \in Days
      BY <2>1
    <3> HIDE DEF row, a, balance
    <3>4. WrittenOK'
      BY <2>4, <3>2, <3>3, WriteType
    <3> QED BY <1>7, <2>2, <3>4 DEF ZeroBalance, TypeOK, WrittenOK
  <2> QED BY <1>7, <2>3, <2>4 DEF ZeroBalance
<1>8. ASSUME NEW r \in Requests, NEW k \in Keys, AcquireSnapshotLock(r, k)
      PROVE  TypeOK'
  BY <1>8 DEF AcquireSnapshotLock, TypeOK
<1>9. ASSUME NEW r \in Requests, NEW a \in Accounts, ReadAnchor(r, a)
      PROVE  TypeOK'
  <2>1. \A p \in Days : snapshots[a][p] # NoRow => snapshots[a][p] \in Units
    BY DEF TypeOK
  <2>2. 0 \in Units
    BY LedgerAssumption
  <2>3. running' \in [Requests -> Units]
    BY <1>9, <2>1, <2>2 DEF ReadAnchor, LatestBefore, TypeOK
  <2> QED BY <1>9, <2>3 DEF ReadAnchor, TypeOK
<1>10. ASSUME NEW r \in Requests, NEW day \in AnchorDays, RebuildWindow(r, day)
       PROVE  TypeOK'
  <2>1. target[r] \in Accounts /\ starts[r][target[r]] \in Days
    BY <1>10 DEF RebuildWindow, RequestInv, Affected, TypeOK
  <2>2. PICK walked \in [WindowDays(r, target[r]) -> Units] :
          draftRows' = [draftRows EXCEPT ![r][target[r]] =
                          ZeroAnchored(Replaced(r, target[r], walked), day)]
    BY <1>10 DEF RebuildWindow
  <2>3. Replaced(r, target[r], walked) \in [Days -> Units \union {NoRow}]
    BY <2>1 DEF Replaced, TypeOK
  <2>4. 0 \in Units /\ day \in Days
    BY LedgerAssumption
  <2>5. ZeroAnchored(Replaced(r, target[r], walked), day) \in [Days -> Units \union {NoRow}]
    BY <2>3, <2>4 DEF ZeroAnchored, NoRows
  <2>6. draftRows' \in [Requests -> [Accounts -> [Days -> Units \union {NoRow}]]]
    BY <2>1, <2>2, <2>5 DEF TypeOK
  <2> QED BY <1>10, <2>1, <2>6 DEF RebuildWindow, TypeOK
<1>11. ASSUME NEW r \in Requests, Release(r), UNCHANGED committed
       PROVE  TypeOK'
  <2>1. ReleasedOK'
    BY <1>11, ReleaseType
  <2> QED BY <1>11, <2>1 DEF TypeOK, ReleasedOK, WrittenOK
<1>12. ASSUME NEW r \in Requests, Commit(r)
       PROVE  TypeOK'
  <2>1. ReleasedOK'
    BY <1>12, ReleaseType DEF Commit
  <2>2. txns' \in [TxnIds -> Txn \union {NoTxn}]
    BY <1>12, ViewType DEF Commit
  <2>3. snapshots' \in [Accounts -> [Days -> Units \union {NoRow}]]
    BY <1>12 DEF Commit, TypeOK
  <2>4. archived' \in [Accounts -> BOOLEAN]
    BY <1>12 DEF Commit, TypeOK
  <2> QED BY <2>1, <2>2, <2>3, <2>4 DEF TypeOK, ReleasedOK, WrittenOK
<1>13. ASSUME UNCHANGED vars
       PROVE  TypeOK'
  BY <1>13 DEF vars, TypeOK
<1> QED
  BY <1>1, <1>2, <1>3, <1>4, <1>5, <1>6, <1>7, <1>8, <1>9, <1>10, <1>11, <1>12, <1>13
  DEF Next, Begin, Proceed, RefuseBalance, Rollback

-----------------------------------------------------------------------------
(* A request's step and the requests beside it *)

\* Nothing request q stands on has moved
SameFor(q) ==
  /\ pc'[q] = pc[q] /\ draftTxns'[q] = draftTxns[q] /\ draftRows'[q] = draftRows[q]
  /\ starts'[q] = starts[q] /\ rebuilt'[q] = rebuilt[q] /\ target'[q] = target[q]
  /\ running'[q] = running[q] /\ archiveDay'[q] = archiveDay[q]
  /\ \A t \in TxnIds : rowLock'[t] = q <=> rowLock[t] = q
  /\ \A k \in Keys : snapshotLock'[k] = q <=> snapshotLock[k] = q

\* A request whose own state and view are untouched keeps its invariant
LEMMA OthersKeep ==
  ASSUME NEW q \in Requests, RequestInv(q), SameFor(q), txns' = txns, snapshots' = snapshots
  PROVE  RequestInv(q)'
<1>1. View(q)' = View(q)
  BY DEF View, SameFor
<1>2. Affected(q)' = Affected(q) /\ WantedKeys(q)' = WantedKeys(q) /\ HeldKeys(q)' = HeldKeys(q)
  BY DEF Affected, WantedKeys, HeldKeys, SameFor
<1>3. Covered(q)'
  BY DEF Covered, SameFor, RequestInv
<1>4. Anchored(q) => Anchored(q)'
  BY DEF Anchored, SameFor
<1>5. \A a \in rebuilt'[q] : a \in Affected(q)' /\ Chained(draftRows'[q][a], View(q)', a)
  BY <1>1, <1>2 DEF SameFor, RequestInv
<1>6. (pc'[q] \in {"idle", "archiving"} => (\A t \in TxnIds : rowLock'[t] # q) /\ starts'[q] = NoStarts)
      /\ (pc'[q] \in {"idle", "archiving", "locking"} => rebuilt'[q] = {})
      /\ (pc'[q] = "archiving" => target'[q] \in Accounts /\ archiveDay'[q] \in Days)
  BY DEF SameFor, RequestInv
<1>7. (pc'[q] \in {"rebuilding", "walking", "committing"} => WantedKeys(q)' \subseteq HeldKeys(q)')
      /\ (pc'[q] = "walking" => target'[q] \in Affected(q)' \ rebuilt'[q] /\ Anchored(q)')
      /\ (pc'[q] = "committing" => rebuilt'[q] = Affected(q)')
  BY <1>2, <1>4 DEF SameFor, RequestInv
<1> QED BY <1>3, <1>5, <1>6, <1>7 DEF RequestInv

\* A request that writes its rows covers them, and has rebuilt nothing yet
LEMMA WriterKeeps ==
  ASSUME TypeOK, NEW r \in Requests, RequestInv(r), pc[r] \in {"idle", "archiving"},
         NEW ts \in SUBSET TxnIds, NEW new, NEW touched,
         \A x \in touched : x[2] \in Days,
         \A t \in ts :
           \/ new[t] = txns[t]
           \/ /\ txns[t] # NoTxn => <<txns[t].account, txns[t].dt>> \in touched
              /\ new[t] # NoTxn => <<new[t].account, new[t].dt>> \in touched,
         \A x \in touched : x[1] \in Accounts,
         Write(r, ts, new, touched),
         txns' = txns, rebuilt' = rebuilt
  PROVE  RequestInv(r)'
<1>1. PICK from \in [Accounts -> {x[2] : x \in touched} \union {NoDay}] :
        /\ EarliestDays(touched, from)
        /\ starts' = [starts EXCEPT ![r] = from]
        /\ pc' = [pc EXCEPT ![r] = IF from = NoStarts THEN "committing" ELSE "locking"]
  BY DEF Write
<1>2. starts'[r] = from /\ pc'[r] \in {"committing", "locking"}
      /\ (pc'[r] = "committing" => from = NoStarts)
  BY <1>1 DEF TypeOK
<1>3. rebuilt'[r] = {}
  BY DEF RequestInv
<1>4. pc'[r] = "committing" => Affected(r)' = {} /\ WantedKeys(r)' = {}
  BY <1>2 DEF Affected, WantedKeys, NoStarts
<1>5. \A x \in touched : from[x[1]] # NoDay /\ from[x[1]] <= x[2]
  <2> SUFFICES ASSUME NEW x \in touched
               PROVE  from[x[1]] # NoDay /\ from[x[1]] <= x[2]
    OBVIOUS
  <2>1. <<x[1], from[x[1]]>> \in touched /\ from[x[1]] <= x[2]
    BY <1>1 DEF EarliestDays
  <2>2. from[x[1]] \in Days
    BY <2>1
  <2>3. NoDay \notin Days
    BY LedgerAssumption
  <2> QED BY <2>1, <2>2, <2>3
<1>6. Covered(r)'
  <2> SUFFICES ASSUME NEW t \in TxnIds, rowLock'[t] = r
               PROVE  \/ draftTxns'[r][t] = txns'[t]
                      \/ /\ txns'[t] # NoTxn =>
                              starts'[r][txns'[t].account] # NoDay /\ starts'[r][txns'[t].account] <= txns'[t].dt
                         /\ draftTxns'[r][t] # NoTxn =>
                              /\ starts'[r][draftTxns'[r][t].account] # NoDay
                              /\ starts'[r][draftTxns'[r][t].account] <= draftTxns'[r][t].dt
    BY DEF Covered
  <2>1. t \in ts
    BY DEF Write, RequestInv, TypeOK
  <2>2. draftTxns'[r][t] = new[t]
    BY <2>1 DEF Write, TypeOK
  <2>3. CASE new[t] = txns[t]
    BY <2>2, <2>3
  <2>4. CASE /\ txns[t] # NoTxn => <<txns[t].account, txns[t].dt>> \in touched
             /\ new[t] # NoTxn => <<new[t].account, new[t].dt>> \in touched
    <3>1. txns[t] # NoTxn => from[txns[t].account] # NoDay /\ from[txns[t].account] <= txns[t].dt
      BY <1>5, <2>4
    <3>2. new[t] # NoTxn => from[new[t].account] # NoDay /\ from[new[t].account] <= new[t].dt
      BY <1>5, <2>4
    <3> QED BY <1>2, <2>2, <3>1, <3>2
  <2> QED BY <2>1, <2>3, <2>4
<1> QED BY <1>2, <1>3, <1>4, <1>6 DEF RequestInv

\* A request that has ended stands on nothing
LEMMA EndedKeeps ==
  ASSUME TypeOK, NEW r \in Requests, Release(r)
  PROVE  RequestInv(r)'
<1>1. pc'[r] = "idle" /\ rebuilt'[r] = {} /\ starts'[r] = NoStarts
  BY DEF Release, TypeOK
<1>2. NoRequest # r
  BY LedgerAssumption
<1>3. \A t \in TxnIds : rowLock'[t] # r
  BY <1>2 DEF Release, TypeOK
<1>4. Covered(r)'
  BY <1>3 DEF Covered
<1> QED BY <1>1, <1>3, <1>4 DEF RequestInv

\* Ending a request leaves the state of the others as it is
LEMMA ReleaseSame ==
  ASSUME TypeOK, NEW r \in Requests, NEW q \in Requests, q # r, Release(r)
  PROVE  SameFor(q)
<1>1. NoRequest # q
  BY LedgerAssumption
<1> QED BY <1>1 DEF Release, SameFor, TypeOK

-----------------------------------------------------------------------------
(* The rebuild of one account *)

\* The rows a rebuild leaves chain over the request's view of the account's transactions
LEMMA RebuiltChained ==
  ASSUME TypeOK, SnapshotsChained, NEW r \in Requests, Covered(r),
         NEW a \in Accounts, a = target[r], starts[r][a] \in Days, Anchored(r),
         NEW walked \in [WindowDays(r, a) -> Units], Walk(r, a, walked),
         NEW day \in AnchorDays
  PROVE  Chained(ZeroAnchored(Replaced(r, a, walked), day), View(r), a)
<1> DEFINE from == starts[r][a]
           rows == Replaced(r, a, walked)
           old == snapshots[a]
<1>1. Days \subseteq Int /\ AnchorDays \subseteq Days /\ NoRow \notin Int /\ from \in Int
      /\ Units \subseteq Int /\ 0 \in Units
  <2>1. Days \subseteq Int /\ AnchorDays \subseteq Days /\ NoRow \notin Int /\ 0 \in Units
    BY LedgerAssumption
  <2>2. \A u \in Units : u \in Int
    BY DEF Units
  <2> QED BY <2>1, <2>2
<1>2. \A d \in Days : d < from => AmountsOn(View(r), a, d) = AmountsOn(txns, a, d)
  BY SameOutsideWindow
<1>3. Chained(old, txns, a)
  BY DEF SnapshotsChained
<1>4. \A d \in WindowDays(r, a) : d \in Days /\ from <= d /\ rows[d] = walked[d] /\ rows[d] \in Int
  <2> SUFFICES ASSUME NEW d \in WindowDays(r, a)
               PROVE  d \in Days /\ from <= d /\ rows[d] = walked[d] /\ rows[d] \in Int
    OBVIOUS
  <2>1. d \in Days /\ d >= from
    BY DEF WindowDays
  <2>2. d \in Int /\ ~(d < from) /\ from <= d
    BY <1>1, <2>1
  <2>3. rows[d] = walked[d]
    BY <2>1, <2>2 DEF Replaced
  <2>4. walked[d] \in Int
    BY <1>1
  <2> QED BY <2>1, <2>2, <2>3, <2>4
<1>5. \A d \in Days : d < from => rows[d] = old[d]
  BY DEF Replaced
<1>6. \A d \in Days : from <= d /\ rows[d] # NoRow => d \in WindowDays(r, a)
  BY <1>1 DEF Replaced
<1>7. \A d \in Days : from <= d /\ Active(View(r), a, d) => d \in WindowDays(r, a)
  BY <1>1 DEF WindowDays
<1> HIDE DEF rows
<1>8. Chained(rows, View(r), a)
  <2> SUFFICES ASSUME NEW d \in Days
               PROVE  /\ Active(View(r), a, d) => rows[d] # NoRow
                      /\ rows[d] # NoRow =>
                           /\ NoneBefore(rows, d) => rows[d] = 0 + DayTotal(View(r), a, d)
                           /\ \A p \in Days : LatestBefore(rows, p, d) =>
                                                rows[d] = rows[p] + DayTotal(View(r), a, d)
    BY DEF Chained
  <2>1. CASE d < from
    <3>1. Active(View(r), a, d) = Active(txns, a, d) /\ DayTotal(View(r), a, d) = DayTotal(txns, a, d)
      BY <1>2, <2>1 DEF Active, DayTotal
    <3>2. NoneBefore(rows, d) => NoneBefore(old, d)
      BY <1>1, <1>5, <2>1 DEF NoneBefore
    <3>3. \A p \in Days : LatestBefore(rows, p, d) => LatestBefore(old, p, d) /\ rows[p] = old[p]
      BY <1>1, <1>5, <2>1 DEF LatestBefore
    <3>4. rows[d] = old[d]
      BY <1>5, <2>1
    <3> QED BY <1>3, <3>1, <3>2, <3>3, <3>4 DEF Chained
  <2>2. CASE from <= d /\ rows[d] = NoRow
    BY <1>1, <1>4, <1>7, <2>2
  <2>3. CASE from <= d /\ rows[d] # NoRow
    <3>1. d \in WindowDays(r, a) /\ rows[d] = walked[d]
      BY <1>4, <1>6, <2>3
    <3>2. CASE /\ \A p \in WindowDays(r, a) : d <= p
               /\ walked[d] = running[r] + DayTotal(View(r), a, d)
      <4>1. \A p \in Days : p < d /\ rows[p] # NoRow => p < from /\ rows[p] = old[p]
        BY <1>1, <1>5, <1>6, <3>2
      <4>2. ASSUME NoneBefore(rows, d) PROVE running[r] = 0
        <5>1. NoneBefore(old, from)
          BY <1>1, <1>5, <2>3, <4>2 DEF NoneBefore
        <5> QED BY <1>1, <5>1 DEF Anchored, NoneBefore, LatestBefore
      <4>3. ASSUME NEW p \in Days, LatestBefore(rows, p, d) PROVE running[r] = rows[p]
        <5>1. LatestBefore(old, p, from)
          BY <1>1, <1>5, <2>3, <4>1, <4>3 DEF LatestBefore
        <5>2. ~NoneBefore(old, from)
          BY <5>1 DEF LatestBefore, NoneBefore
        <5>3. PICK q \in Days : LatestBefore(old, q, from) /\ running[r] = old[q]
          BY <5>2 DEF Anchored
        <5>4. p = q
          BY <1>1, <5>1, <5>3 DEF LatestBefore
        <5> QED BY <4>1, <4>3, <5>3, <5>4 DEF LatestBefore
      <4> QED BY <2>3, <3>1, <3>2, <4>2, <4>3
    <3>3. ASSUME NEW q \in WindowDays(r, a), LatestBefore(rows, q, d),
                 walked[d] = walked[q] + DayTotal(View(r), a, d)
          PROVE  /\ ~NoneBefore(rows, d)
                 /\ \A p \in Days : LatestBefore(rows, p, d) =>
                                      rows[d] = rows[p] + DayTotal(View(r), a, d)
      <4>1. q \in Days /\ rows[q] = walked[q]
        BY <1>4
      <4>2. \A p \in Days : LatestBefore(rows, p, d) => p = q
        BY <1>1, <3>3, <4>1 DEF LatestBefore
      <4> QED BY <3>1, <3>3, <4>1, <4>2 DEF NoneBefore, LatestBefore
    <3> QED BY <2>3, <3>1, <3>2, <3>3 DEF Walk, rows
  <2> QED BY <1>1, <2>1, <2>2, <2>3
<1>9. CASE rows # NoRows
  <2>1. ZeroAnchored(rows, day) = rows
    BY <1>9 DEF ZeroAnchored
  <2>2. Chained(ZeroAnchored(rows, day), View(r), a)
    BY <1>8, <2>1
  <2> QED BY <2>2 DEF rows
<1>10. CASE rows = NoRows
  <2> DEFINE zero == [NoRows EXCEPT ![day] = 0]
  <2>1. \A d \in Days : ~Active(View(r), a, d)
    BY <1>8, <1>10 DEF Chained, NoRows
  <2>2. zero[day] = 0 /\ \A d \in Days : zero[d] # NoRow => d = day
    BY <1>1 DEF NoRows
  <2>3. \A d \in Days : DayTotal(View(r), a, d) = 0
    BY <2>1 DEF DayTotal
  <2>4. \A d, p \in Days : LatestBefore(zero, p, d) => p = day /\ zero[d] = NoRow
    BY <1>1, <2>2 DEF LatestBefore
  <2>5. ZeroAnchored(rows, day) = zero
    BY <1>10 DEF ZeroAnchored
  <2> HIDE DEF zero
  <2>6. Chained(zero, View(r), a)
    BY <2>1, <2>2, <2>3, <2>4 DEF Chained
  <2>7. Chained(ZeroAnchored(rows, day), View(r), a)
    BY <2>5, <2>6
  <2> QED BY <2>7 DEF rows
<1> QED BY <1>9, <1>10

\* A finished rebuild leaves the request with one more consistent account
LEMMA RebuildKeeps ==
  ASSUME LedgerInv, NEW r \in Requests, NEW day \in AnchorDays, RebuildWindow(r, day)
  PROVE  RequestInv(r)'
<1> DEFINE a == target[r]
<1>1. TypeOK /\ SnapshotsChained /\ RequestInv(r)
  BY DEF LedgerInv
<1>2. pc[r] = "walking" /\ a \in Affected(r) \ rebuilt[r] /\ Anchored(r) /\ Covered(r)
  BY <1>1 DEF RebuildWindow, RequestInv
<1>3. a \in Accounts /\ starts[r][a] \in Days
  BY <1>1, <1>2 DEF Affected, TypeOK
<1>4. PICK walked \in [WindowDays(r, a) -> Units] :
        /\ Walk(r, a, walked)
        /\ draftRows' = [draftRows EXCEPT ![r][a] = ZeroAnchored(Replaced(r, a, walked), day)]
  BY DEF RebuildWindow
<1>5. Chained(ZeroAnchored(Replaced(r, a, walked), day), View(r), a)
  BY <1>1, <1>2, <1>3, <1>4, RebuiltChained
<1>6. draftRows'[r][a] = ZeroAnchored(Replaced(r, a, walked), day)
      /\ \A b \in Accounts \ {a} : draftRows'[r][b] = draftRows[r][b]
  BY <1>1, <1>3, <1>4 DEF TypeOK
<1>7. View(r)' = View(r) /\ Affected(r)' = Affected(r) /\ WantedKeys(r)' = WantedKeys(r)
      /\ HeldKeys(r)' = HeldKeys(r)
  BY DEF RebuildWindow, committed, locks, View, Affected, WantedKeys, HeldKeys
<1>8. rebuilt'[r] = rebuilt[r] \union {a}
      /\ pc'[r] = IF Affected(r) \subseteq rebuilt[r] \union {a} THEN "committing" ELSE "rebuilding"
  BY <1>1 DEF RebuildWindow, TypeOK
<1>9. Covered(r)'
  BY <1>2 DEF RebuildWindow, Covered, committed, locks
<1>10. \A b \in rebuilt'[r] : b \in Affected(r)' /\ Chained(draftRows'[r][b], View(r)', b)
  <2> SUFFICES ASSUME NEW b \in rebuilt'[r]
               PROVE  b \in Affected(r) /\ Chained(draftRows'[r][b], View(r), b)
    BY <1>7
  <2>1. CASE b = a
    BY <1>2, <1>5, <1>6, <2>1
  <2>2. CASE b # a
    <3>1. b \in rebuilt[r] /\ b \in Accounts
      BY <1>1, <1>8, <2>2 DEF TypeOK
    <3>2. b \in Affected(r) /\ Chained(draftRows[r][b], View(r), b)
      BY <1>1, <3>1 DEF RequestInv
    <3> QED BY <1>6, <2>2, <3>1, <3>2
  <2> QED BY <2>1, <2>2
<1>11. WantedKeys(r)' \subseteq HeldKeys(r)'
  BY <1>1, <1>2, <1>7 DEF RequestInv
<1>12. pc'[r] \in {"committing", "rebuilding"} /\ (pc'[r] = "committing" => rebuilt'[r] = Affected(r)')
  <2>1. rebuilt[r] \subseteq Affected(r)
    BY <1>1 DEF RequestInv
  <2> QED BY <1>2, <1>7, <1>8, <2>1
<1> QED BY <1>9, <1>10, <1>11, <1>12 DEF RequestInv

-----------------------------------------------------------------------------
(* Publishing a draft *)

\* Two requests that hold the locks of all their accounts share none
LEMMA NoSharedAccount ==
  ASSUME NEW r \in Requests, NEW q \in Requests, q # r,
         WantedKeys(r) \subseteq HeldKeys(r), WantedKeys(q) \subseteq HeldKeys(q)
  PROVE  Affected(r) \intersect Affected(q) = {}
BY DEF Affected, WantedKeys, HeldKeys

\* A commit keeps every account's committed snapshots chained
LEMMA CommitChained ==
  ASSUME LedgerInv, NEW r \in Requests, Commit(r)
  PROVE  SnapshotsChained'
<1>1. TypeOK /\ SnapshotsChained /\ RequestInv(r)
  BY DEF LedgerInv
<1>2. rebuilt[r] = Affected(r) /\ Covered(r)
  BY <1>1 DEF Commit, RequestInv
<1> SUFFICES ASSUME NEW a \in Accounts PROVE Chained(snapshots'[a], txns', a)
  BY DEF SnapshotsChained
<1>3. txns' = View(r)
      /\ snapshots'[a] = IF a \in rebuilt[r] THEN draftRows[r][a] ELSE snapshots[a]
  BY DEF Commit
<1>4. CASE a \in rebuilt[r]
  <2>1. Chained(draftRows[r][a], View(r), a)
    BY <1>1, <1>4 DEF RequestInv
  <2> QED BY <1>3, <1>4, <2>1
<1>5. CASE a \notin rebuilt[r]
  <2>1. starts[r][a] = NoDay
    BY <1>2, <1>5 DEF Affected
  <2>2. \A d \in Days : AmountsOn(View(r), a, d) = AmountsOn(txns, a, d)
    BY <1>1, <1>2, <2>1, SameOutsideWindow
  <2>3. Chained(snapshots[a], txns, a)
    BY <1>1 DEF SnapshotsChained
  <2>4. Chained(snapshots[a], View(r), a)
    BY <2>2, <2>3, SameChain
  <2> QED BY <1>3, <1>5, <2>4
<1> QED BY <1>4, <1>5

\* A commit leaves every other request standing where it stood
LEMMA CommitOthers ==
  ASSUME LedgerInv, NEW r \in Requests, NEW q \in Requests, q # r, Commit(r)
  PROVE  RequestInv(q)'
<1>1. TypeOK /\ RequestInv(r) /\ RequestInv(q)
  BY DEF LedgerInv
<1>2. SameFor(q)
  BY <1>1, ReleaseSame DEF Commit
<1>3. rebuilt[r] = Affected(r) /\ Covered(r) /\ WantedKeys(r) \subseteq HeldKeys(r)
  BY <1>1 DEF Commit, RequestInv
<1>4. txns' = View(r)
      /\ snapshots' = [a \in Accounts |-> IF a \in rebuilt[r] THEN draftRows[r][a] ELSE snapshots[a]]
  BY DEF Commit
<1>5. \A t \in TxnIds : rowLock[t] = q => txns'[t] = txns[t]
  BY <1>4 DEF View
<1>6. Affected(q)' = Affected(q) /\ WantedKeys(q)' = WantedKeys(q) /\ HeldKeys(q)' = HeldKeys(q)
  BY <1>2 DEF Affected, WantedKeys, HeldKeys, SameFor
<1>7. Covered(q)'
  BY <1>1, <1>2, <1>5 DEF Covered, SameFor, RequestInv
<1>8. pc[q] \in {"rebuilding", "walking", "committing"} => Affected(r) \intersect Affected(q) = {}
  BY <1>1, <1>3, NoSharedAccount DEF RequestInv
<1>9. pc[q] = "walking" => target'[q] \in Affected(q)' \ rebuilt'[q] /\ Anchored(q)'
  <2> SUFFICES ASSUME pc[q] = "walking"
               PROVE  target'[q] \in Affected(q)' \ rebuilt'[q] /\ Anchored(q)'
    OBVIOUS
  <2>1. target[q] \in Affected(q) \ rebuilt[q] /\ Anchored(q)
    BY <1>1 DEF RequestInv
  <2>2. target[q] \in Accounts /\ target[q] \notin rebuilt[r]
    BY <1>3, <1>8, <2>1 DEF Affected
  <2>3. snapshots'[target[q]] = snapshots[target[q]]
    BY <1>4, <2>2
  <2>4. Anchored(q)'
    BY <1>2, <2>1, <2>3 DEF Anchored, SameFor
  <2> QED BY <1>2, <1>6, <2>1, <2>4 DEF SameFor
<1>10. ASSUME NEW a \in rebuilt'[q] PROVE a \in Affected(q)' /\ Chained(draftRows'[q][a], View(q)', a)
  <2>1. a \in rebuilt[q] /\ a \in Affected(q) /\ Chained(draftRows[q][a], View(q), a)
    BY <1>1, <1>2 DEF RequestInv, SameFor
  <2>2. pc[q] \in {"rebuilding", "walking", "committing"}
    BY <1>1, <2>1 DEF RequestInv, TypeOK
  <2>3. a \in Accounts /\ starts[r][a] = NoDay
    BY <1>8, <2>1, <2>2 DEF Affected
  <2>4. \A d \in Days : AmountsOn(View(q), a, d) = AmountsOn(View(q)', a, d)
    <3> SUFFICES ASSUME NEW d \in Days
                 PROVE  AmountsOn(View(q), a, d) = AmountsOn(View(q)', a, d)
      OBVIOUS
    <3>1. \A t \in TxnIds : View(q)[t] = View(q)'[t]
                            \/ (~On(View(q), t, a, d) /\ ~On(View(q)', t, a, d))
      <4> SUFFICES ASSUME NEW t \in TxnIds, View(q)[t] # View(q)'[t]
                   PROVE  ~On(View(q), t, a, d) /\ ~On(View(q)', t, a, d)
        OBVIOUS
      <4>1. rowLock[t] # q /\ View(q)[t] = txns[t] /\ View(q)'[t] = txns'[t]
        BY <1>2 DEF View, SameFor
      <4>2. rowLock[t] = r /\ txns'[t] = draftTxns[r][t] /\ draftTxns[r][t] # txns[t]
        BY <1>4, <4>1 DEF View
      <4> QED BY <1>3, <2>3, <4>1, <4>2 DEF Covered, On
    <3> QED BY <3>1, SameAmounts
  <2>5. Chained(draftRows[q][a], View(q)', a)
    BY <2>1, <2>4, SameChain
  <2> QED BY <1>2, <1>6, <2>1, <2>5 DEF SameFor
<1>11. (pc'[q] \in {"idle", "archiving"} => (\A t \in TxnIds : rowLock'[t] # q) /\ starts'[q] = NoStarts)
       /\ (pc'[q] \in {"idle", "archiving", "locking"} => rebuilt'[q] = {})
       /\ (pc'[q] = "archiving" => target'[q] \in Accounts /\ archiveDay'[q] \in Days)
  BY <1>1, <1>2 DEF SameFor, RequestInv
<1>12. (pc'[q] \in {"rebuilding", "walking", "committing"} => WantedKeys(q)' \subseteq HeldKeys(q)')
       /\ (pc'[q] = "committing" => rebuilt'[q] = Affected(q)')
  BY <1>1, <1>2, <1>6 DEF SameFor, RequestInv
<1>13. pc'[q] = "walking" => target'[q] \in Affected(q)' \ rebuilt'[q] /\ Anchored(q)'
  BY <1>2, <1>9 DEF SameFor
<1> QED BY <1>7, <1>10, <1>11, <1>12, <1>13 DEF RequestInv

-----------------------------------------------------------------------------
(* The invariant is inductive *)

\* Empty snapshots chain over an empty ledger
LEMMA InitInv == Init => LedgerInv
<1> SUFFICES ASSUME Init PROVE LedgerInv
  OBVIOUS
<1>1. TypeOK
  BY InitType
<1>2. \A a \in Accounts, d \in Days : ~Active(txns, a, d) /\ DayTotal(txns, a, d) = 0
  BY DEF Init, Active, AmountsOn, DayTotal
<1>3. \A a \in Accounts : Chained(snapshots[a], txns, a)
  <2> SUFFICES ASSUME NEW a \in Accounts PROVE Chained(snapshots[a], txns, a)
    OBVIOUS
  <2>1. PICK day \in AnchorDays : snapshots[a] = [NoRows EXCEPT ![day] = 0]
    BY DEF Init
  <2>2. Days \subseteq Int /\ day \in Days
    BY LedgerAssumption
  <2>3. \A d \in Days : snapshots[a][d] = IF d = day THEN 0 ELSE NoRow
    BY <2>1, <2>2 DEF NoRows
  <2>4. \A d, p \in Days : LatestBefore(snapshots[a], p, d) => snapshots[a][d] = NoRow
    BY <2>2, <2>3 DEF LatestBefore
  <2> QED BY <1>2, <2>3, <2>4 DEF Chained
<1>4. ASSUME NEW r \in Requests PROVE RequestInv(r)
  <2>1. NoRequest # r
    BY LedgerAssumption
  <2>2. Covered(r)
    BY <2>1 DEF Init, Covered
  <2> QED BY <2>1, <2>2 DEF Init, RequestInv
<1> QED BY <1>1, <1>3, <1>4 DEF LedgerInv, SnapshotsChained

\* Writing rows disturbs no other request
LEMMA WriteSame ==
  ASSUME TypeOK, NEW r \in Requests, NEW q \in Requests, q # r,
         NEW ts \in SUBSET TxnIds, NEW new, NEW touched, Write(r, ts, new, touched),
         \A t \in ts : rowLock[t] = NoRequest,
         snapshotLock' = snapshotLock, draftRows' = draftRows, rebuilt' = rebuilt,
         target' = target, running' = running, archiveDay' = archiveDay
  PROVE  SameFor(q)
<1>1. NoRequest # q
  BY LedgerAssumption
<1>2. \A t \in TxnIds : rowLock'[t] = q <=> rowLock[t] = q
  BY <1>1 DEF Write
<1>3. pc'[q] = pc[q] /\ starts'[q] = starts[q] /\ draftTxns'[q] = draftTxns[q]
  BY DEF Write, TypeOK
<1> QED BY <1>2, <1>3 DEF SameFor

\* What a step that publishes nothing must show: the acting request keeps its invariant and the
\* others stand where they stood
LEMMA QuietStep ==
  ASSUME LedgerInv, TypeOK', NEW r \in Requests, RequestInv(r)',
         \A q \in Requests \ {r} : SameFor(q),
         txns' = txns, snapshots' = snapshots
  PROVE  LedgerInv'
<1>1. SnapshotsChained'
  BY DEF LedgerInv, SnapshotsChained
<1>2. \A q \in Requests \ {r} : RequestInv(q)'
  BY OthersKeep DEF LedgerInv
<1> QED BY <1>1, <1>2 DEF LedgerInv

\* Every step keeps the invariant
LEMMA NextInv == LedgerInv /\ [Next]_vars => LedgerInv'
<1> SUFFICES ASSUME LedgerInv, [Next]_vars PROVE LedgerInv'
  OBVIOUS
<1>0. TypeOK /\ TypeOK' /\ \A r \in Requests : RequestInv(r)
  BY NextType DEF LedgerInv
<1>1. ASSUME NEW r \in Requests, NEW t \in TxnIds,
             NEW row \in [account : Accounts, dt : Days, amount : Amounts], Create(r, t, row)
      PROVE  LedgerInv'
  <2> DEFINE new == [u \in {t} |-> row]
             touched == {<<row.account, row.dt>>}
  <2>1. Write(r, {t}, new, touched) /\ txns[t] = NoTxn /\ rowLock[t] = NoRequest /\ pc[r] = "idle"
    BY <1>1 DEF Create
  <2>2. \A x \in touched : x[1] \in Accounts /\ x[2] \in Days
    OBVIOUS
  <2>3. \A u \in {t} : /\ txns[u] # NoTxn => <<txns[u].account, txns[u].dt>> \in touched
                       /\ new[u] # NoTxn => <<new[u].account, new[u].dt>> \in touched
    BY <2>1
  <2>4. txns' = txns /\ snapshots' = snapshots /\ snapshotLock' = snapshotLock /\ draftRows' = draftRows
        /\ rebuilt' = rebuilt /\ target' = target /\ running' = running /\ archiveDay' = archiveDay
    BY <1>1 DEF Create, committed, rebuild
  <2> HIDE DEF new, touched
  <2>5. RequestInv(r)'
    BY <1>0, <2>1, <2>2, <2>3, <2>4, WriterKeeps
  <2>6. \A q \in Requests \ {r} : SameFor(q)
    BY <1>0, <2>1, <2>4, WriteSame
  <2> QED BY <1>0, <2>4, <2>5, <2>6, QuietStep
<1>2. ASSUME NEW r \in Requests, NEW t \in TxnIds,
             NEW row \in [account : Accounts, dt : Days, amount : Amounts],
             NEW sent \in SUBSET {"account", "dt", "amount"}, Update(r, t, row, sent)
      PROVE  LedgerInv'
  <2> DEFINE updated == Overwritten(txns[t], row, sent)
             new == [u \in {t} |-> updated]
             touched == TouchedByUpdate(txns[t], updated, sent)
  <2>1. Write(r, {t}, new, touched) /\ txns[t] \in Txn /\ rowLock[t] = NoRequest /\ pc[r] = "idle"
    BY <1>0, <1>2 DEF Update, Writable, TypeOK
  <2>2. \A x \in touched : x[1] \in Accounts /\ x[2] \in Days
    BY <2>1 DEF Txn, Overwritten, TouchedByUpdate
  <2>3. sent = {} => updated = txns[t]
    BY <2>1 DEF Txn, Overwritten
  <2>4. sent # {} => <<txns[t].account, txns[t].dt>> \in touched
                     /\ <<updated.account, updated.dt>> \in touched
    BY DEF TouchedByUpdate
  <2>5. txns' = txns /\ snapshots' = snapshots /\ snapshotLock' = snapshotLock /\ draftRows' = draftRows
        /\ rebuilt' = rebuilt /\ target' = target /\ running' = running /\ archiveDay' = archiveDay
    BY <1>2 DEF Update, committed, rebuild
  <2> HIDE DEF updated, touched
  <2>6. \A u \in {t} :
          \/ new[u] = txns[u]
          \/ /\ txns[u] # NoTxn => <<txns[u].account, txns[u].dt>> \in touched
             /\ new[u] # NoTxn => <<new[u].account, new[u].dt>> \in touched
    BY <2>3, <2>4
  <2> HIDE DEF new
  <2>7. RequestInv(r)'
    BY <1>0, <2>1, <2>2, <2>5, <2>6, WriterKeeps
  <2>8. \A q \in Requests \ {r} : SameFor(q)
    BY <1>0, <2>1, <2>5, WriteSame
  <2> QED BY <1>0, <2>5, <2>7, <2>8, QuietStep
<1>3. ASSUME NEW r \in Requests, NEW ts \in SUBSET TxnIds, NEW moves \in BOOLEAN, NEW accountOf \in [ts -> Accounts],
             NEW day \in Days \union {NoDay}, NEW turned \in SUBSET ts, NEW direction,
             BulkUpdate(r, ts, moves, accountOf, day, turned, direction)
      PROVE  LedgerInv'
  <2> DEFINE new == [t \in ts |-> Changed(txns[t], accountOf[t], day,
                                          IF t \in turned THEN direction ELSE "keep")]
             carried == moves \/ day # NoDay \/ direction # "keep"
             touched == TouchedByBulkUpdate(ts, new, carried)
  <2>1. Write(r, ts, new, touched) /\ pc[r] = "idle"
        /\ \A t \in ts : txns[t] \in Txn /\ rowLock[t] = NoRequest
    BY <1>0, <1>3 DEF BulkUpdate, Writable, TypeOK
  <2>2. \A t \in ts : /\ txns[t].account \in Accounts /\ txns[t].dt \in Days
                      /\ new[t].account \in Accounts /\ new[t].dt \in Days
    BY <2>1 DEF Txn, Changed
  <2>3. txns' = txns /\ snapshots' = snapshots /\ snapshotLock' = snapshotLock /\ draftRows' = draftRows
        /\ rebuilt' = rebuilt /\ target' = target /\ running' = running /\ archiveDay' = archiveDay
    BY <1>3 DEF BulkUpdate, committed, rebuild
  <2>8. ~carried => \A t \in ts : new[t] = txns[t]
    BY <1>3, <2>1 DEF BulkUpdate, Changed, Directed, Txn
  <2> HIDE DEF new, carried
  <2>4. \A x \in touched : x[1] \in Accounts /\ x[2] \in Days
    BY <2>2 DEF TouchedByBulkUpdate
  <2>5. \A t \in ts :
          \/ new[t] = txns[t]
          \/ /\ txns[t] # NoTxn => <<txns[t].account, txns[t].dt>> \in touched
             /\ new[t] # NoTxn => <<new[t].account, new[t].dt>> \in touched
    BY <2>8 DEF TouchedByBulkUpdate
  <2> HIDE DEF touched
  <2>6. RequestInv(r)'
    BY <1>0, <2>1, <2>3, <2>4, <2>5, WriterKeeps
  <2>7. \A q \in Requests \ {r} : SameFor(q)
    BY <1>0, <2>1, <2>3, WriteSame
  <2> QED BY <1>0, <2>3, <2>6, <2>7, QuietStep
<1>4. ASSUME NEW r \in Requests, NEW ts \in SUBSET TxnIds, Delete(r, ts)
      PROVE  LedgerInv'
  <2> DEFINE new == [t \in ts |-> NoTxn]
             touched == {<<txns[t].account, txns[t].dt>> : t \in ts}
  <2>1. Write(r, ts, new, touched) /\ pc[r] = "idle"
        /\ \A t \in ts : txns[t] \in Txn /\ rowLock[t] = NoRequest /\ new[t] = NoTxn
    BY <1>0, <1>4 DEF Delete, Writable, TypeOK
  <2>2. \A x \in touched : x[1] \in Accounts /\ x[2] \in Days
    BY <2>1 DEF Txn
  <2>3. \A t \in ts : <<txns[t].account, txns[t].dt>> \in touched
    OBVIOUS
  <2>4. txns' = txns /\ snapshots' = snapshots /\ snapshotLock' = snapshotLock /\ draftRows' = draftRows
        /\ rebuilt' = rebuilt /\ target' = target /\ running' = running /\ archiveDay' = archiveDay
    BY <1>4 DEF Delete, committed, rebuild
  <2> HIDE DEF new, touched
  <2>5. RequestInv(r)'
    BY <1>0, <2>1, <2>2, <2>3, <2>4, WriterKeeps
  <2>6. \A q \in Requests \ {r} : SameFor(q)
    BY <1>0, <2>1, <2>4, WriteSame
  <2> QED BY <1>0, <2>4, <2>5, <2>6, QuietStep
<1>5. ASSUME NEW r \in Requests, NEW a \in Accounts, NEW day \in Days, ValidateArchive(r, a, day)
      PROVE  LedgerInv'
  <2>1. pc'[r] = "archiving" /\ target'[r] = a /\ archiveDay'[r] = day /\ pc[r] = "idle"
        /\ rowLock' = rowLock /\ starts' = starts /\ rebuilt' = rebuilt /\ draftTxns' = draftTxns
    BY <1>0, <1>5 DEF ValidateArchive, TypeOK, locks
  <2>2. RequestInv(r)
    BY <1>0
  <2>3. Covered(r)' /\ rebuilt'[r] = {}
    BY <2>1, <2>2 DEF RequestInv, Covered
  <2>4. RequestInv(r)'
    BY <2>1, <2>2, <2>3 DEF RequestInv
  <2>5. \A q \in Requests \ {r} : SameFor(q)
    BY <1>0, <1>5 DEF ValidateArchive, TypeOK, locks, SameFor
  <2>6. txns' = txns /\ snapshots' = snapshots
    BY <1>5 DEF ValidateArchive, committed
  <2> QED BY <1>0, <2>4, <2>5, <2>6, QuietStep
<1>6. ASSUME NEW r \in Requests, NEW a \in Accounts, Unarchive(r, a)
      PROVE  LedgerInv'
  <2>1. \A q \in Requests : SameFor(q)
    BY <1>6 DEF Unarchive, locks, rebuild, SameFor
  <2>2. txns' = txns /\ snapshots' = snapshots
    BY <1>6 DEF Unarchive
  <2>3. RequestInv(r)'
    BY <1>0, <2>1, <2>2, OthersKeep
  <2> QED BY <1>0, <2>1, <2>2, <2>3, QuietStep
<1>7. ASSUME NEW r \in Requests, NEW t \in TxnIds, ZeroBalance(r, t)
      PROVE  LedgerInv'
  <2> DEFINE a == target[r]
             row == [account |-> a, dt |-> archiveDay[r],
                     amount |-> -BalanceOn(snapshots[a], archiveDay[r])]
             new == [u \in {t} |-> row]
             touched == {<<a, archiveDay[r]>>}
  <2>1. pc[r] = "archiving" /\ a \in Accounts /\ archiveDay[r] \in Days
    BY <1>0, <1>7 DEF ZeroBalance, RequestInv
  <2>2. txns' = txns /\ snapshots' = snapshots /\ snapshotLock' = snapshotLock /\ draftRows' = draftRows
        /\ rebuilt' = rebuilt /\ target' = target /\ running' = running /\ archiveDay' = archiveDay
    BY <1>7 DEF ZeroBalance, committed, rebuild
  <2>3. \/ Write(r, {}, << >>, {})
        \/ txns[t] = NoTxn /\ rowLock[t] = NoRequest /\ Write(r, {t}, new, touched)
    BY <1>7 DEF ZeroBalance
  <2>4. \A x \in touched : x[1] \in Accounts /\ x[2] \in Days
    BY <2>1
  <2>5. new[t] # NoTxn => <<new[t].account, new[t].dt>> \in touched
    OBVIOUS
  <2> HIDE DEF new, touched
  <2>6. RequestInv(r)'
    <3>1. CASE Write(r, {}, << >>, {})
      BY <1>0, <2>1, <2>2, <3>1, WriterKeeps
    <3>2. CASE txns[t] = NoTxn /\ Write(r, {t}, new, touched)
      BY <1>0, <2>1, <2>2, <2>4, <2>5, <3>2, WriterKeeps
    <3> QED BY <2>3, <3>1, <3>2
  <2>7. \A q \in Requests \ {r} : SameFor(q)
    <3>1. CASE Write(r, {}, << >>, {})
      BY <1>0, <2>2, <3>1, WriteSame
    <3>2. CASE rowLock[t] = NoRequest /\ Write(r, {t}, new, touched)
      BY <1>0, <2>2, <3>2, WriteSame
    <3> QED BY <2>3, <3>1, <3>2
  <2> QED BY <1>0, <2>2, <2>6, <2>7, QuietStep
<1>8. ASSUME NEW r \in Requests, NEW k \in Keys, AcquireSnapshotLock(r, k)
      PROVE  LedgerInv'
  <2>1. RequestInv(r) /\ NoRequest \notin Requests
    BY <1>0, LedgerAssumption
  <2>2. pc[r] = "locking" /\ txns' = txns /\ snapshots' = snapshots /\ rowLock' = rowLock
        /\ draftTxns' = draftTxns /\ starts' = starts /\ rebuilt' = rebuilt /\ draftRows' = draftRows
        /\ target' = target /\ running' = running /\ archiveDay' = archiveDay
    BY <1>8 DEF AcquireSnapshotLock, committed, rebuild
  <2>3. snapshotLock[k] = NoRequest /\ snapshotLock' = [snapshotLock EXCEPT ![k] = r]
        /\ pc' = [pc EXCEPT ![r] = IF WantedKeys(r) \subseteq HeldKeys(r) \union {k}
                                   THEN "rebuilding" ELSE "locking"]
    BY <1>8 DEF AcquireSnapshotLock
  <2>4. HeldKeys(r)' = HeldKeys(r) \union {k} /\ WantedKeys(r)' = WantedKeys(r)
    BY <1>0, <2>2, <2>3 DEF HeldKeys, WantedKeys, Affected, TypeOK
  <2>5. pc'[r] = IF WantedKeys(r) \subseteq HeldKeys(r) \union {k} THEN "rebuilding" ELSE "locking"
    BY <1>0, <2>3 DEF TypeOK
  <2>6. Covered(r)' /\ rebuilt'[r] = {}
    BY <2>1, <2>2 DEF RequestInv, Covered
  <2>7. RequestInv(r)'
    BY <2>4, <2>5, <2>6 DEF RequestInv
  <2>8. \A q \in Requests \ {r} : SameFor(q)
    BY <1>0, <2>1, <2>2, <2>3 DEF SameFor, TypeOK
  <2> QED BY <1>0, <2>2, <2>7, <2>8, QuietStep
<1>9. ASSUME NEW r \in Requests, NEW a \in Accounts, ReadAnchor(r, a)
      PROVE  LedgerInv'
  <2>1. RequestInv(r)
    BY <1>0
  <2>2. txns' = txns /\ snapshots' = snapshots /\ rowLock' = rowLock /\ snapshotLock' = snapshotLock
        /\ draftTxns' = draftTxns /\ starts' = starts /\ rebuilt' = rebuilt /\ draftRows' = draftRows
        /\ archiveDay' = archiveDay
    BY <1>9 DEF ReadAnchor, committed, locks
  <2>3. pc[r] = "rebuilding" /\ pc'[r] = "walking" /\ target'[r] = a /\ a \in Affected(r) \ rebuilt[r]
    BY <1>0, <1>9 DEF ReadAnchor, TypeOK
  <2>4. Anchored(r)'
    BY <1>0, <1>9, <2>2, <2>3 DEF ReadAnchor, Anchored, TypeOK
  <2>5. View(r)' = View(r) /\ Affected(r)' = Affected(r) /\ WantedKeys(r)' = WantedKeys(r)
        /\ HeldKeys(r)' = HeldKeys(r)
    BY <2>2 DEF View, Affected, WantedKeys, HeldKeys
  <2>6. Covered(r)' /\ WantedKeys(r)' \subseteq HeldKeys(r)'
    BY <2>1, <2>2, <2>3, <2>5 DEF RequestInv, Covered
  <2>7. \A b \in rebuilt'[r] : b \in Affected(r)' /\ Chained(draftRows'[r][b], View(r)', b)
    BY <2>1, <2>2, <2>5 DEF RequestInv
  <2>8. RequestInv(r)'
    BY <2>2, <2>3, <2>4, <2>5, <2>6, <2>7 DEF RequestInv
  <2>9. \A q \in Requests \ {r} : SameFor(q)
    BY <1>0, <1>9, <2>2 DEF ReadAnchor, TypeOK, SameFor
  <2> QED BY <1>0, <2>2, <2>8, <2>9, QuietStep
<1>10. ASSUME NEW r \in Requests, NEW day \in AnchorDays, RebuildWindow(r, day)
       PROVE  LedgerInv'
  <2>1. RequestInv(r)'
    BY <1>10, RebuildKeeps
  <2>2. \A q \in Requests \ {r} : SameFor(q)
    BY <1>0, <1>10 DEF RebuildWindow, TypeOK, SameFor, locks
  <2>3. txns' = txns /\ snapshots' = snapshots
    BY <1>10 DEF RebuildWindow, committed
  <2> QED BY <1>0, <2>1, <2>2, <2>3, QuietStep
<1>11. ASSUME NEW r \in Requests, Release(r), UNCHANGED committed
       PROVE  LedgerInv'
  <2>1. RequestInv(r)' /\ \A q \in Requests \ {r} : SameFor(q)
    BY <1>0, <1>11, EndedKeeps, ReleaseSame
  <2>2. txns' = txns /\ snapshots' = snapshots
    BY <1>11 DEF committed
  <2> QED BY <1>0, <1>11, <2>1, <2>2, QuietStep
<1>12. ASSUME NEW r \in Requests, Commit(r)
       PROVE  LedgerInv'
  <2>1. SnapshotsChained'
    BY <1>12, CommitChained
  <2>2. RequestInv(r)'
    BY <1>0, <1>12, EndedKeeps DEF Commit
  <2>3. \A q \in Requests \ {r} : RequestInv(q)'
    BY <1>12, CommitOthers
  <2> QED BY <1>0, <2>1, <2>2, <2>3 DEF LedgerInv
<1>13. ASSUME UNCHANGED vars
       PROVE  LedgerInv'
  <2>1. \A q \in Requests : SameFor(q)
    BY <1>13 DEF vars, locks, rebuild, SameFor
  <2>2. txns' = txns /\ snapshots' = snapshots
    BY <1>13 DEF vars, committed
  <2>3. SnapshotsChained'
    BY <2>2 DEF LedgerInv, SnapshotsChained
  <2>4. \A q \in Requests : RequestInv(q)'
    BY <1>0, <2>1, <2>2, OthersKeep
  <2> QED BY <1>0, <2>3, <2>4 DEF LedgerInv
<1> QED
  BY <1>1, <1>2, <1>3, <1>4, <1>5, <1>6, <1>7, <1>8, <1>9, <1>10, <1>11, <1>12, <1>13
  DEF Next, Begin, Proceed, RefuseBalance, Rollback

\* The invariant holds throughout
LEMMA LedgerInvariant == Spec => []LedgerInv
<1>1. Init => LedgerInv
  BY InitInv
<1>2. LedgerInv /\ [Next]_vars => LedgerInv'
  BY NextInv
<1> QED BY <1>1, <1>2, PTL DEF Spec

-----------------------------------------------------------------------------
(* A chain holds the sums up to every day *)

\* A finite set has an element that comes before no other one
LEMMA Outermost ==
  ASSUME NEW D, IsFiniteSet(D), D # {}, NEW R,
         \A x, y, z \in D : <<x, y>> \in R /\ <<y, z>> \in R => <<x, z>> \in R,
         \A x \in D : <<x, x>> \notin R
  PROVE  \E b \in D : \A y \in D : <<b, y>> \notin R
<1> DEFINE Leads(s) == s # {} /\ \A x \in D \ s : \E y \in s : <<x, y>> \in R
           T == {s \in SUBSET D : Leads(s)}
<1>1. D \in T
  OBVIOUS
<1>2. PICK s \in T : \A x \in s : s \ {x} \notin T
  BY <1>1, SmallestSet
<1>3. PICK b : b \in s
  BY <1>2
<1>4. ASSUME NEW x \in s, NEW y \in s, <<x, y>> \in R PROVE FALSE
  <2>1. ASSUME NEW z \in D \ (s \ {x}) PROVE \E w \in s \ {x} : <<z, w>> \in R
    <3>1. CASE z = x
      BY <1>4, <3>1
    <3>2. CASE z # x
      <4>1. PICK w \in s : <<z, w>> \in R
        BY <3>2
      <4> QED BY <1>4, <4>1
    <3> QED BY <3>1, <3>2
  <2> QED BY <1>2, <1>4, <2>1
<1>5. ASSUME NEW y \in D, <<b, y>> \in R PROVE FALSE
  <2>1. CASE y \in s
    BY <1>3, <1>4, <1>5, <2>1
  <2>2. CASE y \notin s
    <3>1. PICK w \in s : <<y, w>> \in R
      BY <2>2
    <3> QED BY <1>3, <1>4, <1>5, <3>1
  <2> QED BY <2>1, <2>2
<1> QED BY <1>2, <1>3, <1>5

\* Finitely many days have an earliest and a latest one
LEMMA EarliestDay ==
  ASSUME NEW D \in SUBSET Int, IsFiniteSet(D), D # {} PROVE \E b \in D : \A y \in D : b <= y
<1> DEFINE R == {x \in D \X D : x[2] < x[1]}
<1>1. \A x, y \in D : <<x, y>> \in R <=> y < x
  OBVIOUS
<1> HIDE DEF R
<1>2. \A x, y, z \in D : <<x, y>> \in R /\ <<y, z>> \in R => <<x, z>> \in R
  BY <1>1
<1>3. \A x \in D : <<x, x>> \notin R
  BY <1>1
<1>4. PICK b \in D : \A y \in D : <<b, y>> \notin R
  BY <1>2, <1>3, Outermost
<1>5. ASSUME NEW y \in D PROVE b <= y
  <2>1. b \in Int /\ y \in Int /\ ~(y < b)
    BY <1>1, <1>4
  <2> QED BY <2>1
<1> QED BY <1>5

LEMMA LatestDay ==
  ASSUME NEW D \in SUBSET Int, IsFiniteSet(D), D # {} PROVE Max(D) \in D /\ \A y \in D : Max(D) >= y
<1> DEFINE R == {x \in D \X D : x[1] < x[2]}
<1>1. \A x, y \in D : <<x, y>> \in R <=> x < y
  OBVIOUS
<1> HIDE DEF R
<1>2. \A x, y, z \in D : <<x, y>> \in R /\ <<y, z>> \in R => <<x, z>> \in R
  BY <1>1
<1>3. \A x \in D : <<x, x>> \notin R
  BY <1>1
<1>4. PICK b \in D : \A y \in D : <<b, y>> \notin R
  BY <1>2, <1>3, Outermost
<1>5. ASSUME NEW y \in D PROVE b >= y
  <2>1. b \in Int /\ y \in Int /\ ~(b < y)
    BY <1>1, <1>4
  <2> QED BY <2>1
<1> QED BY <1>5 DEF Max

\* The transactions up to a day, and what they total
Before(view, a, d) == {t \in TxnIds : view[t] # NoTxn /\ view[t].account = a /\ view[t].dt <= d}
PrefixSum(view, a, d) == SumOf([t \in Before(view, a, d) |-> view[t].amount])

\* The day's own transactions are one part of those up to it
LEMMA PrefixStep ==
  ASSUME NEW v \in [TxnIds -> Txn \union {NoTxn}], NEW a \in Accounts, NEW d \in Days, NEW B,
         \A t \in TxnIds : t \in B <=> t \in Before(v, a, d) /\ ~On(v, t, a, d), B \in SUBSET TxnIds
  PROVE  PrefixSum(v, a, d) = SumOf([t \in B |-> v[t].amount]) + DayTotal(v, a, d)
<1> DEFINE D == Before(v, a, d)
           f == [t \in D |-> v[t].amount]
           P == {t \in TxnIds : On(v, t, a, d)}
<1>1. IsFiniteSet(D) /\ f \in [D -> Int]
  BY LedgerAssumption, FS_Subset DEF Before, Txn, Units
<1>2. Days \subseteq Int
  BY LedgerAssumption
<1>3. P \in SUBSET D /\ D \ P = B
  BY <1>2 DEF On, Before
<1>4. [t \in P |-> f[t]] = AmountsOn(v, a, d)
  BY <1>3 DEF AmountsOn, On
<1>5. [t \in D \ P |-> f[t]] = [t \in B |-> v[t].amount]
  BY <1>3
<1>6. DayTotal(v, a, d) = SumOf(AmountsOn(v, a, d))
  <2>1. CASE Active(v, a, d)
    BY <2>1 DEF DayTotal
  <2>2. CASE ~Active(v, a, d)
    <3>1. DOMAIN AmountsOn(v, a, d) = {} /\ AmountsOn(v, a, d) \in [DOMAIN AmountsOn(v, a, d) -> Int]
      BY <2>2 DEF Active, AmountsOn
    <3> QED BY <2>2, <3>1, SumEmpty DEF DayTotal
  <2> QED BY <2>1, <2>2
<1>7. SumOf(AmountsOn(v, a, d)) \in Int /\ SumOf([t \in B |-> v[t].amount]) \in Int
  <2>1. IsFiniteSet(P) /\ AmountsOn(v, a, d) \in [P -> Int]
    BY <1>1, <1>3, <1>4, FS_Subset
  <2>2. IsFiniteSet(B) /\ [t \in B |-> v[t].amount] \in [B -> Int]
    BY <1>1, <1>3, FS_Subset
  <2> QED BY <2>1, <2>2, SumInt
<1>8. SumOf(f) = SumOf([t \in P |-> f[t]]) + SumOf([t \in D \ P |-> f[t]])
  <2> HIDE DEF f, D, P
  <2> QED BY <1>1, <1>3, SumSplit
<1>9. PrefixSum(v, a, d) = SumOf(f)
  BY DEF PrefixSum
<1> HIDE DEF f, P, D
<1>10. PrefixSum(v, a, d) = SumOf(AmountsOn(v, a, d)) + SumOf([t \in B |-> v[t].amount])
  BY <1>4, <1>5, <1>8, <1>9
<1> QED BY <1>6, <1>7, <1>10

\* With no transactions up to a day there is nothing to sum
LEMMA PrefixNone ==
  ASSUME NEW v \in [TxnIds -> Txn \union {NoTxn}], NEW a \in Accounts, NEW d \in Int,
         \A q \in Days : q <= d => ~Active(v, a, q)
  PROVE  PrefixSum(v, a, d) = 0
<1>1. Before(v, a, d) = {}
  <2> SUFFICES ASSUME NEW t \in Before(v, a, d) PROVE FALSE
    OBVIOUS
  <2>1. v[t] \in Txn /\ v[t].dt \in Days /\ v[t].dt <= d /\ v[t].account = a
    BY DEF Before, Txn
  <2>2. t \in DOMAIN AmountsOn(v, a, v[t].dt)
    BY <2>1 DEF AmountsOn, Before
  <2> QED BY <2>1, <2>2 DEF Active
<1> DEFINE f == [t \in Before(v, a, d) |-> v[t].amount]
<1>2. DOMAIN f = {} /\ f \in [{} -> Int]
  BY <1>1
<1>3. SumOf(f) = 0
  BY <1>2, SumEmpty
<1> QED BY <1>3 DEF PrefixSum

\* Days without transactions add nothing
LEMMA PrefixQuiet ==
  ASSUME NEW v \in [TxnIds -> Txn \union {NoTxn}], NEW a \in Accounts, NEW p \in Days, NEW d \in Days, p <= d,
         \A q \in Days : p < q /\ q <= d => ~Active(v, a, q)
  PROVE  PrefixSum(v, a, d) = PrefixSum(v, a, p)
<1>1. Before(v, a, d) = Before(v, a, p)
  <2>1. ASSUME NEW t \in Before(v, a, d) PROVE t \in Before(v, a, p)
    <3>1. v[t] \in Txn /\ v[t].dt \in Days /\ v[t].dt <= d /\ v[t].account = a
      BY DEF Before, Txn
    <3>2. t \in DOMAIN AmountsOn(v, a, v[t].dt)
      BY <3>1 DEF AmountsOn, Before
    <3>3. v[t].dt \in Int /\ p \in Int /\ Active(v, a, v[t].dt)
      BY <3>1, <3>2, LedgerAssumption DEF Active
    <3>4. v[t].dt <= p
      BY <3>1, <3>3
    <3> QED BY <3>4 DEF Before
  <2>2. ASSUME NEW t \in Before(v, a, p) PROVE t \in Before(v, a, d)
    <3>1. v[t].dt \in Days /\ v[t].dt <= p
      BY DEF Before, Txn
    <3>2. v[t].dt \in Int /\ p \in Int /\ d \in Int
      BY <3>1, LedgerAssumption
    <3>3. v[t].dt <= d
      BY <3>1, <3>2
    <3> QED BY <3>3 DEF Before
  <2> QED BY <2>1, <2>2
<1> QED BY <1>1 DEF PrefixSum

\* The sum up to a day is the one up to an earlier day, the days in between and the day itself
LEMMA PrefixNext ==
  ASSUME NEW v \in [TxnIds -> Txn \union {NoTxn}], NEW a \in Accounts, NEW p \in Days, NEW d \in Days, p < d,
         \A q \in Days : p < q /\ q < d => ~Active(v, a, q)
  PROVE  PrefixSum(v, a, d) = PrefixSum(v, a, p) + DayTotal(v, a, d)
<1> DEFINE B == Before(v, a, p)
<1>1. B \in SUBSET TxnIds
  BY DEF Before
<1>2. ASSUME NEW t \in TxnIds PROVE t \in B <=> t \in Before(v, a, d) /\ ~On(v, t, a, d)
  <2>1. v[t] # NoTxn => v[t].dt \in Days /\ v[t].dt \in Int /\ p \in Int /\ d \in Int
    BY LedgerAssumption DEF Txn
  <2>2. ASSUME t \in Before(v, a, d), ~On(v, t, a, d) PROVE v[t].dt <= p
    <3>1. v[t].dt < d /\ v[t].dt \in Days
      BY <2>1, <2>2 DEF Before, On
    <3>2. t \in DOMAIN AmountsOn(v, a, v[t].dt)
      BY <2>2 DEF AmountsOn, Before
    <3> QED BY <2>1, <2>2, <3>1, <3>2 DEF Active, Before
  <2> QED BY <2>1, <2>2 DEF Before, On
<1>3. SumOf([t \in B |-> v[t].amount]) = PrefixSum(v, a, p)
  BY DEF PrefixSum
<1> HIDE DEF B
<1> QED BY <1>1, <1>2, <1>3, PrefixStep

\* With no transactions before a day, the sum up to it is the day's own
LEMMA PrefixFirst ==
  ASSUME NEW v \in [TxnIds -> Txn \union {NoTxn}], NEW a \in Accounts, NEW d \in Days,
         \A q \in Days : q < d => ~Active(v, a, q)
  PROVE  PrefixSum(v, a, d) = 0 + DayTotal(v, a, d)
<1> DEFINE p == d - 1
           B == Before(v, a, p)
<1>1. d \in Int /\ Days \subseteq Int
  BY LedgerAssumption
<1>2. B \in SUBSET TxnIds
  BY DEF Before
<1>3. ASSUME NEW t \in TxnIds PROVE t \in B <=> t \in Before(v, a, d) /\ ~On(v, t, a, d)
  <2>1. v[t] # NoTxn => v[t].dt \in Int
    BY LedgerAssumption DEF Txn
  <2> QED BY <1>1, <2>1 DEF Before, On
<1>4. SumOf([t \in B |-> v[t].amount]) = PrefixSum(v, a, p)
  BY DEF PrefixSum
<1>5. PrefixSum(v, a, p) = 0
  BY <1>1, PrefixNone
<1> HIDE DEF B, p
<1> QED BY <1>2, <1>3, <1>4, <1>5, PrefixStep

\* A stored row of a chain is the sum up to its day
LEMMA ChainRows ==
  ASSUME NEW v \in [TxnIds -> Txn \union {NoTxn}], NEW a \in Accounts, NEW rows, Chained(rows, v, a)
  PROVE  \A d \in Days : rows[d] # NoRow => rows[d] = PrefixSum(v, a, d)
<1> DEFINE Wrong == {d \in Days : rows[d] # NoRow /\ rows[d] # PrefixSum(v, a, d)}
           <1>1. Days \subseteq Int /\ IsFiniteSet(Days) /\ IsFiniteSet(Wrong)
  BY LedgerAssumption, FS_Subset
<1> SUFFICES ASSUME Wrong # {} PROVE FALSE
  OBVIOUS
<1>2. PICK m \in Wrong : \A q \in Wrong : m <= q
  BY <1>1, EarliestDay
<1>3. CASE NoneBefore(rows, m)
  <2>1. \A q \in Days : q < m => ~Active(v, a, q)
    BY <1>3 DEF NoneBefore, Chained
  <2>2. rows[m] = 0 + DayTotal(v, a, m)
    BY <1>2, <1>3 DEF Chained
  <2> QED BY <1>2, <2>1, <2>2, PrefixFirst
<1>4. CASE ~NoneBefore(rows, m)
  <2> DEFINE Q == {q \in Days : q < m /\ rows[q] # NoRow}
             p == Max(Q)
  <2>1. Q \in SUBSET Int /\ IsFiniteSet(Q) /\ Q # {}
    BY <1>1, <1>4, FS_Subset DEF NoneBefore
  <2>2. p \in Q /\ \A q \in Q : p >= q
    <3> HIDE DEF Q
    <3> QED BY <2>1, LatestDay
  <2> HIDE DEF p
  <2>3. p \in Days /\ p < m /\ LatestBefore(rows, p, m)
    BY <1>1, <1>2, <2>2 DEF LatestBefore
  <2>4. rows[p] = PrefixSum(v, a, p)
    BY <1>1, <1>2, <2>2, <2>3
  <2>5. \A q \in Days : p < q /\ q < m => ~Active(v, a, q)
    BY <2>3 DEF LatestBefore, Chained
  <2>6. rows[m] = rows[p] + DayTotal(v, a, m)
    BY <1>2, <2>3 DEF Chained
  <2>7. PrefixSum(v, a, m) = PrefixSum(v, a, p) + DayTotal(v, a, m)
    BY <1>2, <2>3, <2>5, PrefixNext
  <2> QED BY <1>2, <2>4, <2>6, <2>7
<1> QED BY <1>3, <1>4

\* The balance a chain shows on any day is the sum up to it
LEMMA ChainBalance ==
  ASSUME NEW v \in [TxnIds -> Txn \union {NoTxn}], NEW a \in Accounts, NEW rows, Chained(rows, v, a), NEW d \in Days
  PROVE  BalanceOn(rows, d) = PrefixSum(v, a, d)
<1> DEFINE Q == {q \in Days : q <= d /\ rows[q] # NoRow}
           p == Max(Q)
<1>1. Days \subseteq Int /\ IsFiniteSet(Days) /\ d \in Int
  BY LedgerAssumption
<1>2. BalanceOn(rows, d) = IF Q = {} THEN 0 ELSE rows[p]
  BY DEF BalanceOn
<1>3. CASE Q = {}
  <2>1. \A q \in Days : q <= d => ~Active(v, a, q)
    BY <1>3 DEF Chained
  <2>2. PrefixSum(v, a, d) = 0
    BY <1>1, <2>1, PrefixNone
  <2> QED BY <1>2, <1>3, <2>2
<1>4. CASE Q # {}
  <2>1. Q \in SUBSET Int /\ IsFiniteSet(Q)
    BY <1>1, FS_Subset
  <2>2. p \in Q /\ \A q \in Q : p >= q
    <3> HIDE DEF Q
    <3> QED BY <1>4, <2>1, LatestDay
  <2> HIDE DEF p
  <2>3. rows[p] = PrefixSum(v, a, p)
    BY <2>2, ChainRows
  <2>4. \A q \in Days : p < q /\ q <= d => ~Active(v, a, q)
    BY <1>1, <2>2 DEF Chained
  <2>5. PrefixSum(v, a, d) = PrefixSum(v, a, p)
    BY <2>2, <2>4, PrefixQuiet
  <2> QED BY <1>2, <1>4, <2>3, <2>5
<1> QED BY <1>3, <1>4

-----------------------------------------------------------------------------
(* The committed tables are a Book *)

\* The one row a request holds is a new one
Posts(r, t) ==
  /\ txns[t] = NoTxn /\ draftTxns[r][t] \in Txn /\ rowLock[t] = r
  /\ \A u \in TxnIds : rowLock[u] = r => u = t

\* A request changes existing rows, or removes existing rows, or posts one; and if it archives an
\* account, it is that one alone, with at most a row posted to it
HoldInv(r) ==
  /\ \/ \A t \in TxnIds : rowLock[t] = r => txns[t] # NoTxn /\ draftTxns[r][t] \in Txn
     \/ \A t \in TxnIds : rowLock[t] = r => txns[t] # NoTxn /\ draftTxns[r][t] = NoTxn
     \/ \E t \in TxnIds : Posts(r, t)
  /\ \A a \in Accounts : accountLock[a] = r =>
       /\ pc[r] \notin {"idle", "archiving"}
       /\ \A b \in Accounts : accountLock[b] = r => b = a
       /\ \/ \A t \in TxnIds : rowLock[t] # r
          \/ \E t \in TxnIds : Posts(r, t) /\ draftTxns[r][t].account = a

HoldsInv == \A r \in Requests : HoldInv(r)

\* What a request holds is the same and so is what is committed under it
HoldsSame(q) ==
  /\ draftTxns'[q] = draftTxns[q]
  /\ pc'[q] \in {"idle", "archiving"} => pc[q] \in {"idle", "archiving"}
  /\ \A t \in TxnIds : (rowLock'[t] = q <=> rowLock[t] = q) /\ (rowLock[t] = q => txns'[t] = txns[t])
  /\ \A a \in Accounts : accountLock'[a] = q <=> accountLock[a] = q

\* Then what it holds keeps its shape
LEMMA HoldKeeps == ASSUME NEW q \in Requests, HoldInv(q), HoldsSame(q) PROVE HoldInv(q)'
<1>1. \A t \in TxnIds : Posts(q, t) => Posts(q, t)'
  BY DEF Posts, HoldsSame
<1>2. (\/ \A t \in TxnIds : rowLock[t] = q => txns[t] # NoTxn /\ draftTxns[q][t] \in Txn
       \/ \A t \in TxnIds : rowLock[t] = q => txns[t] # NoTxn /\ draftTxns[q][t] = NoTxn
       \/ \E t \in TxnIds : Posts(q, t))'
  BY <1>1 DEF HoldInv, HoldsSame
<1>3. ASSUME NEW a \in Accounts, accountLock'[a] = q
      PROVE  /\ pc'[q] \notin {"idle", "archiving"}
             /\ \A b \in Accounts : accountLock'[b] = q => b = a
             /\ \/ \A t \in TxnIds : rowLock'[t] # q
                \/ \E t \in TxnIds : Posts(q, t)' /\ draftTxns'[q][t].account = a
  BY <1>1, <1>3 DEF HoldInv, HoldsSame
<1> QED BY <1>2, <1>3 DEF HoldInv

\* A step that commits nothing and leaves a request and the account locks alone
LEMMA OthersHold ==
  ASSUME NEW q \in Requests, HoldInv(q), SameFor(q), txns' = txns, accountLock' = accountLock
  PROVE  HoldInv(q)'
BY HoldKeeps DEF SameFor, HoldsSame

\* A writer holds the rows it wrote and no others
Wrote(r, ts, new) ==
  /\ pc'[r] \in {"committing", "locking"}
  /\ \A t \in TxnIds : rowLock'[t] = r <=> t \in ts
  /\ \A t \in ts : draftTxns'[r][t] = new[t]

LEMMA WriteHolds ==
  ASSUME TypeOK, NEW r \in Requests, RequestInv(r), pc[r] \in {"idle", "archiving"},
         NEW ts \in SUBSET TxnIds, NEW new, NEW touched, Write(r, ts, new, touched)
  PROVE  Wrote(r, ts, new)
<1>1. \A t \in TxnIds : rowLock[t] # r
  BY DEF RequestInv
<1>2. pc'[r] \in {"committing", "locking"}
  BY DEF Write, TypeOK
<1> QED BY <1>1, <1>2 DEF Write, TypeOK, Wrote

\* An idle request locks no account, and writing rows locks none
LEMMA WriterHolds ==
  ASSUME TypeOK, NEW r \in Requests, RequestInv(r), HoldInv(r), pc[r] = "idle",
         NEW ts \in SUBSET TxnIds, NEW new, NEW touched, Write(r, ts, new, touched),
         txns' = txns, accountLock' = accountLock,
         \/ \A t \in ts : txns[t] # NoTxn /\ new[t] \in Txn
         \/ \A t \in ts : txns[t] # NoTxn /\ new[t] = NoTxn
         \/ \E t \in TxnIds : ts = {t} /\ txns[t] = NoTxn /\ new[t] \in Txn
  PROVE  HoldInv(r)'
<1>1. Wrote(r, ts, new)
  <2>1. pc[r] \in {"idle", "archiving"}
    OBVIOUS
  <2> QED BY <2>1, WriteHolds
<1>2. \A a \in Accounts : accountLock'[a] # r
  BY DEF HoldInv
<1>3. ASSUME NEW t \in TxnIds, ts = {t}, txns[t] = NoTxn, new[t] \in Txn PROVE Posts(r, t)'
  BY <1>1, <1>3 DEF Posts, Wrote
<1> QED BY <1>1, <1>2, <1>3 DEF HoldInv, Wrote

\* A request that has ended holds nothing
LEMMA EndedHolds == ASSUME TypeOK, NEW r \in Requests, Release(r) PROVE HoldInv(r)'
<1>1. NoRequest # r
  BY LedgerAssumption
<1>2. (\A t \in TxnIds : rowLock'[t] # r) /\ (\A a \in Accounts : accountLock'[a] # r)
  BY <1>1 DEF Release, TypeOK
<1> QED BY <1>2 DEF HoldInv

\* The end of a request takes nothing from another one
LEMMA ReleaseHolds ==
  ASSUME LedgerInv, HoldsInv, NEW r \in Requests, Release(r),
         NEW q \in Requests, q # r, \A t \in TxnIds : rowLock[t] = q => txns'[t] = txns[t]
  PROVE  HoldInv(q)'
<1>1. TypeOK /\ HoldInv(q) /\ NoRequest # q
  BY LedgerAssumption DEF LedgerInv, HoldsInv
<1>2. SameFor(q)
  BY <1>1, ReleaseSame
<1>3. \A a \in Accounts : accountLock'[a] = q <=> accountLock[a] = q
  BY <1>1 DEF Release, TypeOK
<1>4. HoldsSame(q)
  BY <1>2, <1>3 DEF SameFor, HoldsSame
<1> QED BY <1>1, <1>4, HoldKeeps

\* Rows and locks written by a request take nothing from another one
LEMMA WriteLeaves ==
  ASSUME TypeOK, HoldsInv, NEW r \in Requests, NEW ts \in SUBSET TxnIds, NEW new, NEW touched,
         Write(r, ts, new, touched), \A t \in ts : rowLock[t] = NoRequest, txns' = txns,
         NEW q \in Requests, q # r, \A a \in Accounts : accountLock'[a] = q <=> accountLock[a] = q
  PROVE  HoldInv(q)'
<1>1. q # NoRequest /\ HoldInv(q)
  BY LedgerAssumption DEF HoldsInv
<1>2. draftTxns'[q] = draftTxns[q] /\ pc'[q] = pc[q]
  BY DEF Write, TypeOK
<1>3. \A t \in TxnIds : rowLock'[t] = q <=> rowLock[t] = q
  BY <1>1 DEF Write, TypeOK
<1>4. HoldsSame(q)
  BY <1>2, <1>3 DEF HoldsSame
<1> QED BY <1>1, <1>4, HoldKeeps

\* A create, an update, a bulk update or a deletion
LEMMA WritingHolds ==
  ASSUME LedgerInv, HoldsInv, NEW r \in Requests, pc[r] = "idle",
         NEW ts \in SUBSET TxnIds, NEW new, NEW touched, Write(r, ts, new, touched),
         \A t \in ts : rowLock[t] = NoRequest, txns' = txns, accountLock' = accountLock,
         \/ \A t \in ts : txns[t] # NoTxn /\ new[t] \in Txn
         \/ \A t \in ts : txns[t] # NoTxn /\ new[t] = NoTxn
         \/ \E t \in TxnIds : ts = {t} /\ txns[t] = NoTxn /\ new[t] \in Txn
  PROVE  HoldsInv'
<1>1. TypeOK /\ RequestInv(r) /\ HoldInv(r)
  BY DEF LedgerInv, HoldsInv
<1>2. HoldInv(r)'
  BY <1>1, WriterHolds
<1>3. ASSUME NEW q \in Requests \ {r} PROVE HoldInv(q)'
  BY <1>1, WriteLeaves
<1> QED BY <1>2, <1>3 DEF HoldsInv

\* One new row
LEMMA CreateHolds ==
  ASSUME LedgerInv, HoldsInv, NEW r \in Requests, NEW t \in TxnIds,
         NEW row \in [account : Accounts, dt : Days, amount : Amounts], Create(r, t, row)
  PROVE  HoldsInv'
<1> DEFINE ts == {t}
           new == [u \in {t} |-> row]
           touched == {<<row.account, row.dt>>}
<1>1. row \in Txn
  BY LedgerAssumption DEF Txn
<1>2. Write(r, ts, new, touched) /\ pc[r] = "idle" /\ txns' = txns /\ accountLock' = accountLock
      /\ ts \in SUBSET TxnIds /\ (\A u \in ts : rowLock[u] = NoRequest)
  BY DEF Create, committed
<1>3. ts = {t} /\ txns[t] = NoTxn /\ new[t] \in Txn
  BY <1>1 DEF Create
<1> HIDE DEF ts, new, touched
<1> QED BY <1>2, <1>3, WritingHolds

\* One row with other details
LEMMA UpdateHolds ==
  ASSUME LedgerInv, HoldsInv, NEW r \in Requests, NEW t \in TxnIds,
         NEW row \in [account : Accounts, dt : Days, amount : Amounts],
         NEW sent \in SUBSET {"account", "dt", "amount"}, Update(r, t, row, sent)
  PROVE  HoldsInv'
<1> DEFINE ts == {t}
           updated == Overwritten(txns[t], row, sent)
           new == [u \in {t} |-> updated]
           touched == TouchedByUpdate(txns[t], updated, sent)
<1>1. row \in Txn /\ txns[t] \in Txn /\ txns[t] # NoTxn
  BY LedgerAssumption DEF Update, Writable, LedgerInv, TypeOK, Txn
<1>2. updated \in Txn
  BY <1>1 DEF Txn, Overwritten
<1>3. Write(r, ts, new, touched) /\ pc[r] = "idle" /\ txns' = txns /\ accountLock' = accountLock
      /\ ts \in SUBSET TxnIds /\ (\A u \in ts : rowLock[u] = NoRequest)
  BY DEF Update, Writable, committed
<1>4. \A u \in ts : txns[u] # NoTxn /\ new[u] \in Txn
  BY <1>1, <1>2
<1> HIDE DEF ts, updated, new, touched
<1> QED BY <1>3, <1>4, WritingHolds

\* Rows with other details
LEMMA BulkUpdateHolds ==
  ASSUME LedgerInv, HoldsInv, NEW r \in Requests, NEW ts \in SUBSET TxnIds, NEW moves \in BOOLEAN,
         NEW accountOf \in [ts -> Accounts], NEW day \in Days \union {NoDay}, NEW turned \in SUBSET ts,
         NEW direction, BulkUpdate(r, ts, moves, accountOf, day, turned, direction)
  PROVE  HoldsInv'
<1> DEFINE new == [t \in ts |-> Changed(txns[t], accountOf[t], day,
                                        IF t \in turned THEN direction ELSE "keep")]
           touched == TouchedByBulkUpdate(ts, new, moves \/ day # NoDay \/ direction # "keep")
<1>1. \A t \in ts : txns[t] \in Txn /\ txns[t] # NoTxn /\ new[t].amount \in Units
  BY DEF BulkUpdate, Writable, LedgerInv, TypeOK
<1>2. \A t \in ts : txns[t] # NoTxn /\ new[t] \in Txn
  BY <1>1 DEF Txn, Changed
<1>3. Write(r, ts, new, touched) /\ pc[r] = "idle" /\ txns' = txns /\ accountLock' = accountLock
      /\ (\A u \in ts : rowLock[u] = NoRequest)
  BY DEF BulkUpdate, Writable, committed
<1> HIDE DEF new, touched
<1> QED BY <1>2, <1>3, WritingHolds

\* Rows that go
LEMMA DeleteHolds ==
  ASSUME LedgerInv, HoldsInv, NEW r \in Requests, NEW ts \in SUBSET TxnIds, Delete(r, ts)
  PROVE  HoldsInv'
<1> DEFINE new == [t \in ts |-> NoTxn]
           touched == {<<txns[t].account, txns[t].dt>> : t \in ts}
<1>1. \A t \in ts : txns[t] # NoTxn /\ new[t] = NoTxn
  BY DEF Delete, Writable
<1>2. Write(r, ts, new, touched) /\ pc[r] = "idle" /\ txns' = txns /\ accountLock' = accountLock
      /\ (\A u \in ts : rowLock[u] = NoRequest)
  BY DEF Delete, Writable, committed
<1> HIDE DEF new, touched
<1> QED BY <1>1, <1>2, WritingHolds

\* The archived flag is written under the account row's lock, with at most one adjustment
LEMMA ZeroBalanceHolds ==
  ASSUME LedgerInv, HoldsInv, NEW r \in Requests, NEW t \in TxnIds, ZeroBalance(r, t)
  PROVE  HoldsInv'
<1> DEFINE a == target[r]
           row == [account |-> a, dt |-> archiveDay[r], amount |-> -BalanceOn(snapshots[a], archiveDay[r])]
           new == [u \in {t} |-> row]
           touched == {<<a, archiveDay[r]>>}
<1>1. TypeOK /\ RequestInv(r) /\ HoldInv(r) /\ r # NoRequest
  BY LedgerAssumption DEF LedgerInv, HoldsInv
<1>2. pc[r] \in {"idle", "archiving"} /\ a \in Accounts /\ archiveDay[r] \in Days /\ txns' = txns
      /\ accountLock[a] = NoRequest /\ accountLock' = [accountLock EXCEPT ![a] = r]
  BY <1>1 DEF ZeroBalance, RequestInv, committed
<1>3. \/ Write(r, {}, << >>, {})
      \/ /\ txns[t] = NoTxn /\ rowLock[t] = NoRequest /\ row.amount \in Units
         /\ Write(r, {t}, new, touched)
  BY DEF ZeroBalance
<1>4. \A b \in Accounts : accountLock'[b] = r <=> b = a
  BY <1>1, <1>2 DEF HoldInv, TypeOK
<1>5. \A q \in Requests : q # r => \A b \in Accounts : accountLock'[b] = q <=> accountLock[b] = q
  BY <1>1, <1>2, LedgerAssumption DEF TypeOK
<1>6. CASE Write(r, {}, << >>, {})
  <2>1. Wrote(r, {}, << >>)
    BY <1>1, <1>2, <1>6, WriteHolds
  <2>2. HoldInv(r)'
    BY <1>4, <2>1 DEF HoldInv, Wrote
  <2>3. ASSUME NEW q \in Requests \ {r} PROVE HoldInv(q)'
    BY <1>1, <1>2, <1>5, <1>6, WriteLeaves
  <2> QED BY <2>2, <2>3 DEF HoldsInv
<1>7. CASE /\ txns[t] = NoTxn /\ rowLock[t] = NoRequest /\ row.amount \in Units
           /\ Write(r, {t}, new, touched)
  <2>1. row \in Txn /\ row.account = a /\ new[t] = row
    BY <1>2, <1>7 DEF Txn
  <2> HIDE DEF row, new, touched
  <2>2. Wrote(r, {t}, new)
    BY <1>1, <1>2, <1>7, WriteHolds
  <2>3. Posts(r, t)' /\ draftTxns'[r][t].account = a
    BY <1>2, <1>7, <2>1, <2>2 DEF Posts, Wrote
  <2>4. HoldInv(r)'
    BY <1>4, <2>2, <2>3 DEF HoldInv, Wrote
  <2>5. ASSUME NEW q \in Requests \ {r} PROVE HoldInv(q)'
    BY <1>1, <1>2, <1>5, <1>7, WriteLeaves
  <2> QED BY <2>4, <2>5 DEF HoldsInv
<1> QED BY <1>3, <1>6, <1>7

\* The remaining steps before a commit neither write rows nor lock an account
LEMMA StepHolds ==
  ASSUME LedgerInv, HoldsInv, NEW r \in Requests,
         \/ \E a \in Accounts : Unarchive(r, a) \/ ReadAnchor(r, a) \/ \E day \in Days : ValidateArchive(r, a, day)
         \/ \E k \in Keys : AcquireSnapshotLock(r, k)
         \/ \E day \in AnchorDays : RebuildWindow(r, day)
  PROVE  HoldsInv'
<1>1. TypeOK
  BY DEF LedgerInv
<1>2. txns' = txns /\ rowLock' = rowLock /\ accountLock' = accountLock /\ draftTxns' = draftTxns
  BY DEF Unarchive, ReadAnchor, ValidateArchive, AcquireSnapshotLock, RebuildWindow, committed, locks
<1>3. \A q \in Requests : pc'[q] \in {"idle", "archiving"} => pc[q] \in {"idle", "archiving"}
  <2>1. CASE pc' = pc
    BY <2>1
  <2>2. ASSUME NEW a \in Accounts, NEW day \in Days, ValidateArchive(r, a, day)
        PROVE  \A q \in Requests : pc'[q] \in {"idle", "archiving"} => pc[q] \in {"idle", "archiving"}
    BY <1>1, <2>2 DEF ValidateArchive, TypeOK
  <2>3. CASE \E v \in {"walking", "rebuilding", "locking", "committing"} : pc' = [pc EXCEPT ![r] = v]
    BY <1>1, <2>3 DEF TypeOK
  <2> QED BY <2>1, <2>2, <2>3 DEF Unarchive, ReadAnchor, AcquireSnapshotLock, RebuildWindow
<1>4. ASSUME NEW q \in Requests PROVE HoldInv(q)'
  <2>1. HoldsSame(q)
    BY <1>2, <1>3 DEF HoldsSame
  <2> QED BY <2>1, HoldKeeps DEF HoldsInv
<1> QED BY <1>4 DEF HoldsInv

\* A rollback, a refusal or a commit
LEMMA EndHolds ==
  ASSUME LedgerInv, HoldsInv, NEW r \in Requests, Release(r), txns' = txns \/ txns' = View(r)
  PROVE  HoldsInv'
<1>1. TypeOK
  BY DEF LedgerInv
<1>2. HoldInv(r)'
  BY <1>1, EndedHolds
<1>3. ASSUME NEW q \in Requests \ {r} PROVE HoldInv(q)'
  <2>1. \A t \in TxnIds : rowLock[t] = q => txns'[t] = txns[t]
    BY <1>3 DEF View
  <2> QED BY <2>1, ReleaseHolds
<1> QED BY <1>2, <1>3 DEF HoldsInv

\* Every step keeps what requests hold
LEMMA NextHolds == LedgerInv /\ HoldsInv /\ [Next]_vars => HoldsInv'
<1> SUFFICES ASSUME LedgerInv, HoldsInv, [Next]_vars PROVE HoldsInv'
  OBVIOUS
<1>1. ASSUME NEW r \in Requests, Begin(r) PROVE HoldsInv'
  BY <1>1, CreateHolds, UpdateHolds, BulkUpdateHolds, DeleteHolds, StepHolds DEF Begin
<1>2. ASSUME NEW r \in Requests, Proceed(r) PROVE HoldsInv'
  BY <1>2, ZeroBalanceHolds, StepHolds, EndHolds DEF Proceed, RefuseBalance, Commit, committed
<1>3. ASSUME NEW r \in Requests, Rollback(r) PROVE HoldsInv'
  BY <1>3, EndHolds DEF Rollback, committed
<1>4. CASE UNCHANGED vars
  <2>1. \A q \in Requests : HoldsSame(q)
    BY <1>4 DEF vars, committed, locks, HoldsSame
  <2> QED BY <2>1, HoldKeeps DEF HoldsInv
<1> QED BY <1>1, <1>2, <1>3, <1>4 DEF Next

\* Nobody holds anything yet
LEMMA InitHolds == Init => HoldsInv
BY LedgerAssumption DEF Init, HoldsInv, HoldInv

-----------------------------------------------------------------------------
(* Each step is a step of the Book, or none *)

\* The balances every day shows, which the book's are refined by
Shown == [a \in Accounts |-> [d \in Days |-> BalanceOn(snapshots[a], d)]]

\* What is shown is what the book holds
Balanced == Shown = Implemented!Balances(txns)

\* The book adds as the ledger does
LEMMA SameSum == \A f : Implemented!SumOf(f) = SumOf(f)
BY DEF SumOf, MapThenSumSet, MapThenFoldSet,
       Implemented!SumOf, Implemented!MapThenSumSet, Implemented!MapThenFoldSet

\* A chain shows the balances of the book
LEMMA ShownIsBalanced == LedgerInv => Balanced
<1> SUFFICES ASSUME LedgerInv, NEW a \in Accounts, NEW d \in Days
             PROVE  BalanceOn(snapshots[a], d) = PrefixSum(txns, a, d)
  BY SameSum DEF Balanced, Shown, Implemented!Balances, Implemented!Balance, PrefixSum, Before
<1>1. txns \in [TxnIds -> Txn \union {NoTxn}] /\ Chained(snapshots[a], txns, a)
  BY DEF LedgerInv, TypeOK, SnapshotsChained
<1> QED BY <1>1, ChainBalance

\* A commit posts, amends or removes transactions, or archives an account
LEMMA CommitMaps ==
  ASSUME LedgerInv, HoldsInv, Balanced', NEW r \in Requests, Commit(r)
  PROVE  Implemented!BookNext
<1>1. TypeOK /\ HoldInv(r)
  BY DEF LedgerInv, HoldsInv
<1>2. Shown' = Implemented!Balances(txns')
  BY DEF Balanced, Implemented!Balances, Implemented!Balance
<1>3. \A t \in TxnIds : txns'[t] = IF rowLock[t] = r THEN draftTxns[r][t] ELSE txns[t]
  BY DEF Commit, View
<1>4. ASSUME NEW t \in TxnIds, Posts(r, t)
      PROVE  txns[t] = NoTxn /\ txns'[t] = draftTxns[r][t] /\ txns'[t] \in Txn /\ Implemented!Only({t})
  BY <1>3, <1>4 DEF Posts, Implemented!Only
<1>5. CASE \A a \in Accounts : accountLock[a] # r
  <2> DEFINE ts == {t \in TxnIds : rowLock[t] = r}
  <2>1. archived' = archived
    BY <1>1, <1>5 DEF Commit, TypeOK
  <2>2. Implemented!Only(ts) /\ ts \in SUBSET TxnIds
    BY <1>3 DEF Implemented!Only
  <2>3. CASE \A t \in TxnIds : rowLock[t] = r => txns[t] # NoTxn /\ draftTxns[r][t] \in Txn
    <3>1. Implemented!Amend(ts)
      BY <1>3, <2>1, <2>2, <2>3 DEF Implemented!Amend
    <3> QED BY <1>2, <2>2, <3>1 DEF Implemented!BookNext, Shown
  <2>4. CASE \A t \in TxnIds : rowLock[t] = r => txns[t] # NoTxn /\ draftTxns[r][t] = NoTxn
    <3>1. Implemented!Remove(ts)
      BY <1>3, <2>1, <2>2, <2>4 DEF Implemented!Remove
    <3> QED BY <1>2, <2>2, <3>1 DEF Implemented!BookNext, Shown
  <2>5. CASE \E t \in TxnIds : Posts(r, t)
    <3>1. \E t \in TxnIds : Implemented!Post(t)
      BY <1>4, <2>1, <2>5 DEF Implemented!Post
    <3> QED BY <1>2, <3>1 DEF Implemented!BookNext, Shown
  <2> QED BY <1>1, <2>3, <2>4, <2>5 DEF HoldInv
<1>6. CASE \E a \in Accounts : accountLock[a] = r
  <2>1. PICK a \in Accounts : accountLock[a] = r
    BY <1>6
  <2>2. \A b \in Accounts : accountLock[b] = r <=> b = a
    BY <1>1, <2>1 DEF HoldInv
  <2>3. archived' = [archived EXCEPT ![a] = TRUE]
    <3>1. archived' = [b \in Accounts |-> archived[b] \/ accountLock[b] = r]
      BY DEF Commit
    <3>2. archived \in [Accounts -> BOOLEAN]
      BY <1>1 DEF TypeOK
    <3>3. \A b \in Accounts : (archived[b] \/ accountLock[b] = r) = IF b = a THEN TRUE ELSE archived[b]
      BY <2>2, <3>2
    <3> QED BY <3>1, <3>2, <3>3
  <2>4. CASE \A t \in TxnIds : rowLock[t] # r
    <3>1. txns' = txns
      BY <1>1, <2>4 DEF Commit, View, TypeOK
    <3> QED BY <1>2, <2>3, <3>1 DEF Implemented!BookNext, Implemented!Archive, Shown
  <2>5. CASE \E t \in TxnIds : Posts(r, t) /\ draftTxns[r][t].account = a
    <3>1. Implemented!Archive(a)
      BY <1>4, <2>3, <2>5 DEF Implemented!Archive
    <3> QED BY <1>2, <3>1 DEF Implemented!BookNext, Shown
  <2> QED BY <1>1, <2>1, <2>4, <2>5 DEF HoldInv
<1> QED BY <1>5, <1>6

\* Clearing the archived flag reopens the account
LEMMA UnarchiveMaps ==
  ASSUME Balanced', NEW r \in Requests, NEW a \in Accounts, Unarchive(r, a)
  PROVE  Implemented!BookNext
<1>1. Shown' = Implemented!Balances(txns')
  BY DEF Balanced, Implemented!Balances, Implemented!Balance
<1>2. Implemented!Reopen(a)
  BY DEF Unarchive, Implemented!Reopen
<1> QED BY <1>1, <1>2 DEF Implemented!BookNext, Shown

\* Nothing else shows
LEMMA OthersStutter ==
  ASSUME [Next]_vars
  PROVE  \/ \E r \in Requests : Commit(r) \/ \E a \in Accounts : Unarchive(r, a)
         \/ UNCHANGED committed
<1>1. ASSUME NEW r \in Requests, Begin(r)
      PROVE  (\E a \in Accounts : Unarchive(r, a)) \/ UNCHANGED committed
  <2>1. ASSUME NEW t, NEW row, Create(r, t, row) PROVE UNCHANGED committed
    BY <2>1 DEF Create
  <2>2. ASSUME NEW t, NEW row, NEW sent, Update(r, t, row, sent) PROVE UNCHANGED committed
    BY <2>2 DEF Update
  <2>3. ASSUME NEW ts, NEW moves, NEW accountOf, NEW day, NEW turned, NEW direction,
               BulkUpdate(r, ts, moves, accountOf, day, turned, direction)
        PROVE  UNCHANGED committed
    BY <2>3 DEF BulkUpdate
  <2>4. ASSUME NEW ts, Delete(r, ts) PROVE UNCHANGED committed
    BY <2>4 DEF Delete
  <2>5. ASSUME NEW a, NEW day, ValidateArchive(r, a, day) PROVE UNCHANGED committed
    BY <2>5 DEF ValidateArchive
  <2> QED BY <1>1, <2>1, <2>2, <2>3, <2>4, <2>5 DEF Begin
<1>2. ASSUME NEW r \in Requests, Proceed(r) PROVE Commit(r) \/ UNCHANGED committed
  BY <1>2 DEF Proceed, ZeroBalance, AcquireSnapshotLock, ReadAnchor, RebuildWindow, RefuseBalance
<1>3. ASSUME NEW r \in Requests, Rollback(r) PROVE UNCHANGED committed
  BY <1>3 DEF Rollback
<1> QED BY <1>1, <1>2, <1>3 DEF Next, vars

-----------------------------------------------------------------------------
(* Waiting for advisory locks *)

\* The lock a request takes next is held
WaitsFor(r, k) == pc[r] = "locking" /\ NextKey(r, k) /\ snapshotLock[k] # NoRequest

\* Of any requests, one does not wait for another of them
NoWaitCycle ==
  \A W \in SUBSET Requests :
    IsFiniteSet(W) /\ W # {} => \E r \in W : \A k \in Keys : WaitsFor(r, k) => snapshotLock[k] \notin W

\* The locks a request holds are the first of those it wants
LockInv(r) ==
  /\ HeldKeys(r) \subseteq WantedKeys(r)
  /\ \A h \in HeldKeys(r), k \in WantedKeys(r) \ HeldKeys(r) : h < k

LocksInv == \A r \in Requests : LockInv(r)

\* Locks are numbered, and those a request wants or holds are locks of accounts
LEMMA KeysAreInts == Keys \subseteq Int /\ \A r : WantedKeys(r) \subseteq Keys /\ HeldKeys(r) \subseteq Keys
BY LedgerAssumption DEF Keys, WantedKeys, HeldKeys, Affected

\* Then each waits for a higher lock than those who wait for it hold
LEMMA OrderedLocks == LedgerInv /\ LocksInv => NoWaitCycle
<1> SUFFICES ASSUME LedgerInv, LocksInv, NEW W \in SUBSET Requests, IsFiniteSet(W), W # {},
                    \A r \in W : \E k \in Keys : WaitsFor(r, k) /\ snapshotLock[k] \in W
             PROVE  FALSE
  BY DEF NoWaitCycle
<1> DEFINE R == {x \in W \X W : \E j, k \in Keys : WaitsFor(x[1], j) /\ WaitsFor(x[2], k) /\ j < k}
<1>1. \A r \in W : \A j, k \in Keys : WaitsFor(r, j) /\ WaitsFor(r, k) => j = k
  BY KeysAreInts DEF WaitsFor, NextKey
<1>2. \A x, y \in W : <<x, y>> \in R <=> \E j, k \in Keys : WaitsFor(x, j) /\ WaitsFor(y, k) /\ j < k
  OBVIOUS
<1> HIDE DEF R
<1>3. ASSUME NEW x \in W, NEW y \in W, NEW z \in W, <<x, y>> \in R, <<y, z>> \in R PROVE <<x, z>> \in R
  <2>1. PICK i, j \in Keys : WaitsFor(x, i) /\ WaitsFor(y, j) /\ i < j
    BY <1>2, <1>3
  <2>2. PICK k, l \in Keys : WaitsFor(y, k) /\ WaitsFor(z, l) /\ k < l
    BY <1>2, <1>3
  <2>3. i < l
    <3>1. j = k /\ i \in Int /\ j \in Int /\ l \in Int
      BY <1>1, <2>1, <2>2, KeysAreInts
    <3> QED BY <2>1, <2>2, <3>1
  <2> QED BY <1>2, <2>1, <2>2, <2>3
<1>4. ASSUME NEW x \in W PROVE <<x, x>> \notin R
  <2> SUFFICES ASSUME NEW j \in Keys, NEW k \in Keys, WaitsFor(x, j), WaitsFor(x, k), j < k PROVE FALSE
    BY <1>2
  <2>1. j = k /\ j \in Int
    BY <1>1, KeysAreInts
  <2> QED BY <2>1
<1>5. PICK b \in W : \A y \in W : <<b, y>> \notin R
  BY <1>3, <1>4, Outermost
<1>6. PICK k \in Keys : WaitsFor(b, k) /\ snapshotLock[k] \in W
  OBVIOUS
<1> DEFINE s == snapshotLock[k]
<1>7. PICK l \in Keys : WaitsFor(s, l)
  BY <1>6
<1>8. k \in HeldKeys(s) /\ l \in WantedKeys(s) \ HeldKeys(s)
  BY <1>6, <1>7 DEF WaitsFor, NextKey, HeldKeys
<1>9. k < l
  BY <1>6, <1>8 DEF LocksInv, LockInv
<1> QED BY <1>2, <1>5, <1>6, <1>7, <1>9

\* A step that leaves a request's locks and wishes alone
LEMMA LockSame ==
  ASSUME NEW q \in Requests, LockInv(q), HeldKeys(q)' = HeldKeys(q), WantedKeys(q)' = WantedKeys(q)
  PROVE  LockInv(q)'
BY DEF LockInv

\* A request that has not written holds no lock
LEMMA NothingHeld ==
  ASSUME NEW r \in Requests, RequestInv(r), LockInv(r), pc[r] \in {"idle", "archiving"} PROVE HeldKeys(r) = {}
<1>1. WantedKeys(r) = {}
  BY DEF RequestInv, WantedKeys, Affected, NoStarts
<1> QED BY <1>1 DEF LockInv

\* A writer begins without locks
LEMMA WriteLocks ==
  ASSUME LedgerInv, LocksInv, NEW r \in Requests, pc[r] \in {"idle", "archiving"},
         NEW ts, NEW new, NEW touched, Write(r, ts, new, touched), snapshotLock' = snapshotLock
  PROVE  LocksInv'
<1>1. HeldKeys(r)' = {}
  BY NothingHeld DEF LedgerInv, LocksInv, HeldKeys
<1>2. LockInv(r)'
  BY <1>1 DEF LockInv
<1>3. ASSUME NEW q \in Requests \ {r} PROVE LockInv(q)'
  <2>1. starts'[q] = starts[q]
    BY DEF Write, LedgerInv, TypeOK
  <2>2. HeldKeys(q)' = HeldKeys(q) /\ WantedKeys(q)' = WantedKeys(q)
    BY <2>1 DEF HeldKeys, WantedKeys, Affected
  <2> QED BY <2>2, LockSame DEF LocksInv
<1> QED BY <1>2, <1>3 DEF LocksInv

\* The lock taken is the lowest still wanted
LEMMA AcquireLocks ==
  ASSUME LedgerInv, LocksInv, NEW r \in Requests, NEW k \in Keys, AcquireSnapshotLock(r, k) PROVE LocksInv'
<1>1. TypeOK /\ snapshotLock[k] = NoRequest /\ snapshotLock' = [snapshotLock EXCEPT ![k] = r] /\ starts' = starts
      /\ NextKey(r, k) /\ NoRequest \notin Requests
  BY LedgerAssumption DEF LedgerInv, AcquireSnapshotLock
<1>2. HeldKeys(r)' = HeldKeys(r) \union {k} /\ \A q \in Requests \ {r} : HeldKeys(q)' = HeldKeys(q)
  BY <1>1 DEF HeldKeys, TypeOK
<1>3. \A q \in Requests : WantedKeys(q)' = WantedKeys(q)
  BY <1>1 DEF WantedKeys, Affected
<1>4. LockInv(r)'
  <2>1. ASSUME NEW h \in HeldKeys(r) \union {k}, NEW l \in WantedKeys(r) \ (HeldKeys(r) \union {k}) PROVE h < l
    <3>1. CASE h = k
      <4>1. k <= l /\ k # l /\ k \in Int /\ l \in Int
        BY <1>1, <2>1, KeysAreInts DEF NextKey
      <4> QED BY <3>1, <4>1
    <3>2. CASE h \in HeldKeys(r)
      BY <2>1, <3>2 DEF LocksInv, LockInv
    <3> QED BY <3>1, <3>2
  <2>2. HeldKeys(r) \union {k} \subseteq WantedKeys(r)
    BY <1>1 DEF LocksInv, LockInv, NextKey
  <2> QED BY <1>2, <1>3, <2>1, <2>2 DEF LockInv
<1>5. ASSUME NEW q \in Requests \ {r} PROVE LockInv(q)'
  BY <1>2, <1>3, LockSame DEF LocksInv
<1> QED BY <1>4, <1>5 DEF LocksInv

\* The end of a request frees its locks
LEMMA ReleaseLocks == ASSUME LedgerInv, LocksInv, NEW r \in Requests, Release(r) PROVE LocksInv'
<1>1. TypeOK /\ NoRequest \notin Requests
  BY LedgerAssumption DEF LedgerInv
<1>2. HeldKeys(r)' = {}
  BY <1>1 DEF HeldKeys, Release, TypeOK
<1>3. LockInv(r)'
  BY <1>2 DEF LockInv
<1>4. ASSUME NEW q \in Requests \ {r} PROVE LockInv(q)'
  <2>1. HeldKeys(q)' = HeldKeys(q) /\ starts'[q] = starts[q]
    BY <1>1 DEF HeldKeys, Release, TypeOK
  <2>2. WantedKeys(q)' = WantedKeys(q)
    BY <2>1 DEF WantedKeys, Affected
  <2> QED BY <2>1, <2>2, LockSame DEF LocksInv
<1> QED BY <1>3, <1>4 DEF LocksInv

\* Every step keeps the order
LEMMA NextLocks == LedgerInv /\ LocksInv /\ [Next]_vars => LocksInv'
<1> SUFFICES ASSUME LedgerInv, LocksInv, [Next]_vars PROVE LocksInv'
  OBVIOUS
<1>1. ASSUME NEW r \in Requests, pc[r] \in {"idle", "archiving"}, snapshotLock' = snapshotLock,
             \E ts, new, touched : Write(r, ts, new, touched)
      PROVE  LocksInv'
  BY <1>1, WriteLocks
<1>2. ASSUME UNCHANGED <<snapshotLock, starts>> PROVE LocksInv'
  <2>1. \A q \in Requests : HeldKeys(q)' = HeldKeys(q) /\ WantedKeys(q)' = WantedKeys(q)
    BY <1>2 DEF HeldKeys, WantedKeys, Affected
  <2> QED BY <2>1, LockSame DEF LocksInv
<1>3. ASSUME NEW r \in Requests, Begin(r) PROVE LocksInv'
  <2>1. ASSUME NEW t, NEW row, Create(r, t, row) PROVE LocksInv'
    BY <1>1, <2>1 DEF Create
  <2>2. ASSUME NEW t, NEW row, NEW sent, Update(r, t, row, sent) PROVE LocksInv'
    BY <1>1, <2>2 DEF Update
  <2>3. ASSUME NEW ts, NEW moves, NEW accountOf, NEW day, NEW turned, NEW direction,
               BulkUpdate(r, ts, moves, accountOf, day, turned, direction)
        PROVE  LocksInv'
    BY <1>1, <2>3 DEF BulkUpdate
  <2>4. ASSUME NEW ts, Delete(r, ts) PROVE LocksInv'
    BY <1>1, <2>4 DEF Delete
  <2>5. ASSUME NEW a, NEW day, ValidateArchive(r, a, day) PROVE LocksInv'
    BY <1>2, <2>5 DEF ValidateArchive, locks
  <2>6. ASSUME NEW a, Unarchive(r, a) PROVE LocksInv'
    BY <1>2, <2>6 DEF Unarchive, locks
  <2> QED BY <1>3, <2>1, <2>2, <2>3, <2>4, <2>5, <2>6 DEF Begin
<1>4. ASSUME NEW r \in Requests, Proceed(r) PROVE LocksInv'
  <2>1. ASSUME NEW t, ZeroBalance(r, t) PROVE LocksInv'
    BY <1>1, <2>1 DEF ZeroBalance
  <2>2. ASSUME NEW a, ReadAnchor(r, a) PROVE LocksInv'
    BY <1>2, <2>2 DEF ReadAnchor, locks
  <2>3. ASSUME NEW day, RebuildWindow(r, day) PROVE LocksInv'
    BY <1>2, <2>3 DEF RebuildWindow, locks
  <2> QED BY <1>4, <2>1, <2>2, <2>3, AcquireLocks, ReleaseLocks DEF Proceed, RefuseBalance, Commit
<1>5. ASSUME NEW r \in Requests, Rollback(r) PROVE LocksInv'
  BY <1>5, ReleaseLocks DEF Rollback
<1>6. ASSUME UNCHANGED vars PROVE LocksInv'
  BY <1>2, <1>6 DEF vars, locks
<1> QED BY <1>3, <1>4, <1>5, <1>6 DEF Next

-----------------------------------------------------------------------------
(* The theorems *)

\* Every variable keeps its domain; in particular every balance the requests store fits the
\* bigint column (snapshots.py refuse_unstorable_balance).
THEOREM LedgerTypeOK == Spec => []TypeOK
<1>1. LedgerInv => TypeOK
  BY DEF LedgerInv
<1> QED BY <1>1, LedgerInvariant, PTL

\* Whatever requests run, each account's committed snapshots chain over its committed
\* transactions (snapshots.py recompute_account_snapshots: the advisory locks are taken before
\* any anchor is read, and held to the commit).
THEOREM CommittedSnapshotsChain == Spec => []SnapshotsChained
<1>1. LedgerInv => SnapshotsChained
  BY DEF LedgerInv
<1> QED BY <1>1, LedgerInvariant, PTL

\* What a request is about to commit chains too, for the accounts it rebuilt and for those it
\* left alone (the snapshot_starts of creation.py, update.py, bulk_update.py and deletion.py leave
\* no changed account out).
THEOREM CommittingDraftsChain == Spec => []DraftsChained
<1>1. LedgerInv => DraftsChained
  <2> SUFFICES ASSUME LedgerInv, NEW r \in Requests, pc[r] = "committing", NEW a \in Accounts
               PROVE  Chained(IF a \in rebuilt[r] THEN draftRows[r][a] ELSE snapshots[a], View(r), a)
    BY DEF DraftsChained
  <2>1. TypeOK /\ SnapshotsChained /\ RequestInv(r)
    BY DEF LedgerInv
  <2>2. CASE a \in rebuilt[r]
    BY <2>1, <2>2 DEF RequestInv
  <2>3. CASE a \notin rebuilt[r]
    <3>1. Covered(r) /\ starts[r][a] = NoDay
      BY <2>1, <2>3 DEF RequestInv, Affected
    <3>2. \A d \in Days : AmountsOn(txns, a, d) = AmountsOn(View(r), a, d)
      BY <2>1, <3>1, SameOutsideWindow
    <3>3. Chained(snapshots[a], View(r), a)
      BY <2>1, <3>2, SameChain DEF SnapshotsChained
    <3> QED BY <2>3, <3>3
  <2> QED BY <2>2, <2>3
<1> QED BY <1>1, LedgerInvariant, PTL

\* The balance shown for any account and day is the sum of every committed transaction up to that
\* day, for any number of days between the anchor a rebuild reads and the window it walks
\* (snapshots.py _recompute_account_snapshots_from, and get_current_balances, which reads one row).
THEOREM ShownBalancesArePrefixSums == Spec => []BalancesArePrefixSums
<1>1. LedgerInv => BalancesArePrefixSums
  <2> SUFFICES ASSUME LedgerInv, NEW a \in Accounts, NEW d \in Days
               PROVE  BalanceOn(snapshots[a], d) = PrefixSum(txns, a, d)
    BY DEF BalancesArePrefixSums, PrefixSum, Before
  <2>1. txns \in [TxnIds -> Txn \union {NoTxn}] /\ Chained(snapshots[a], txns, a)
    BY DEF LedgerInv, TypeOK, SnapshotsChained
  <2> QED BY <2>1, ChainBalance
<1> QED BY <1>1, LedgerInvariant, PTL

\* What is committed changes as a Book changes, for any number of requests, accounts, transactions
\* and days: each operation at once and whole, the balances of every day with it, and archiving
\* with at most one adjustment of its own account (creation.py, update.py, bulk_update.py,
\* deletion.py and balance_adjustments.py each commit once, after recompute_account_snapshots).
THEOREM LedgerImplementsBook == Spec => ImplementsBook
<1>1. Init => Implemented!BookInit
  <2> SUFFICES ASSUME Init PROVE Implemented!BookInit
    OBVIOUS
  <2>1. Balanced
    BY InitInv, ShownIsBalanced
  <2> QED BY <2>1 DEF Init, Implemented!BookInit, Balanced, Shown
<1>2. LedgerInv => Balanced
  BY ShownIsBalanced
<1>3. LedgerInv /\ HoldsInv /\ Balanced' /\ [Next]_vars => [Implemented!BookNext]_(Implemented!bookVars)
  <2> SUFFICES ASSUME LedgerInv, HoldsInv, Balanced', [Next]_vars
               PROVE  Implemented!BookNext \/ UNCHANGED Implemented!bookVars
    OBVIOUS
  <2>1. CASE UNCHANGED committed
    BY <2>1 DEF committed, Implemented!bookVars
  <2>2. CASE \E r \in Requests : Commit(r) \/ \E a \in Accounts : Unarchive(r, a)
    BY <2>2, CommitMaps, UnarchiveMaps
  <2> QED BY <2>1, <2>2, OthersStutter
<1>4. Init => HoldsInv
  BY InitHolds
<1>5. LedgerInv /\ HoldsInv /\ [Next]_vars => HoldsInv'
  BY NextHolds
<1> QED BY <1>1, <1>2, <1>3, <1>4, <1>5, LedgerInvariant, PTL DEF Spec, ImplementsBook, Implemented!BookSpec

\* Requests waiting for the advisory locks of accounts never wait for one another in a circle,
\* however many there are and whatever accounts they change: recompute_account_snapshots takes the
\* locks in sorted order (snapshots.py:108), so of any requests one waits for none of the others.
THEOREM LocksFormNoCycle == Spec => []NoWaitCycle
<1>1. Init => LocksInv
  BY LedgerAssumption DEF Init, LocksInv, LockInv, HeldKeys
<1>2. LedgerInv /\ LocksInv /\ [Next]_vars => LocksInv'
  BY NextLocks
<1>3. LedgerInv /\ LocksInv => NoWaitCycle
  BY OrderedLocks
<1> QED BY <1>1, <1>2, <1>3, LedgerInvariant, PTL DEF Spec
=============================================================================

# Lumina Finance in TLA+

Lumina Finance is a self-hosted personal finance application: a FastAPI backend over PostgreSQL
(row-level security, `READ COMMITTED` transactions), a React single-page frontend, and an optional Valkey
store for exchange rates. These modules model the parts in which requests, pages, tabs and processes
interleave, or in which a long sequence of clicks has to end in the right request, and check and prove what a
user relies on there: that balances are the sum of the transactions behind them, that a file is imported whole
and once, that an undo takes back exactly what nobody has touched, that refunds belong to an expense and never
exceed it, that tabs do not sign one another out, that a change made elsewhere comes to be shown, and that a
bulk edit covers what is ticked, does what it says and writes what a single edit could have.

Paths below are relative to `src/`; `app/` stands for `backend/app/`.

## 1. Inventory

| Component | State | Operations | What is hard | What makes it correct |
|---|---|---|---|---|
| Transactions and balance snapshots (`app/services/transactions`, `app/services/accounts/snapshots.py`) | `transactions`, `account_balance_snapshots`, `accounts.is_archived`; row locks, one advisory lock per account | create, edit, bulk edit, delete, archive, unarchive; each ends in a rebuild of the touched accounts' daily rows | concurrent handlers see only what others have committed; a rebuild reads one anchor row and trusts it; several accounts per request; bigint bound | each day's row is the running sum; both sides of a move are rebuilt; all or nothing; no deadlock on the advisory locks; archived history does not change |
| Account deletion and lock order (`app/routes/accounts/deletion_helpers.py`) | the rows above plus the cache markers | delete with all transactions, retried when PostgreSQL picks it as a deadlock's loser | lock order across handlers, retry after partial work | no lock cycle survives; no orphaned rows |
| Import runs, server (`app/services/importers/shared/run_*.py`) | `import_runs`, `import_staged_rows`, the rows a run wrote, the user's change marker | open, stage, discard, commit, undo, prune | repeated commits, discards racing commits, edits racing undos, pruning by age | whole and once, undone whole and only while untouched, a missing run wrote nothing |
| Import page (`frontend/src/pages/imports/utils/importRun.ts`, `frontend/src/api/import-runs/run.ts`) | the attempt, the kept upload and its answers | start, retry, stop, settle, give up | calls lost or late, answers lost, answers changed after a save that may have landed | nothing twice, truthful outcome |
| Row resolution and parsing (`app/services/importers/generic`, `journal`, `frontend/src/pages/imports/utils`) | none of its own | map rows to accounts, categories, merchants; parse amounts and dates | data, not interleaving | round trips, refusals |
| Cache change markers (`app/services/cache_state`) | `changed_at` and last session per user and group | mark, read | marks commit later than they are stamped | no committed change stays unseen |
| Browser cache validation (`frontend/src/hooks/useCacheValidation.ts`, `frontend/src/api/cache`) | cached queries and whether they are marked, a marker per window, one marker and one saved copy in local storage, the check under way | load, check, fetch, save, hold back, leave | marker and copy are written at different moments by different windows; reasons to check arrive during a check or a dialogue; fetches fail | nothing is shown as current that is older than the marker it is compared with; no reason to check is lost; changes reach the page |
| Bulk edit (`frontend/src/components/transactions/bulk-edit`, `app/services/transactions/bulk_update.py`) | category, merchant, account, From and To ends, direction and what set it; the rows the panel knows | the pickers, refetches, sending | controls rewrite one another, rows change under the panel, the rules live twice | the panel holds back what the server refuses and nothing else, says what is written, and sends no direction nobody meant |
| Bulk selection (`selection.ts`, `useBulkSelection.ts`, `ListSection.tsx`) | ticks, range anchor and baseline, previews, the frozen confirmation | click, shift-click, tick a day, filter, page, refetch, confirm | the list changes under the ticks, previews outlive the pointer, a confirmation outlives its rows | only rows on screen are ticked, a confirmation writes what it showed |
| Refund links (`app/services/transactions/links.py`) | `transaction_links` | link, create as a refund, unlink, refuse edits that break a link | write skew between edits and links of one expense, locks taken on both sides of a link | a link joins a refund to an expense; refunds never total more than the expense; every request ends |
| Sessions (`app/services/auth/sessions.py`, `app/routes/auth`, `frontend/src/api/auth`, `frontend/src/api/client.ts`) | sessions, token allowlist, grace window; the cookie, the refresh lock and the flag all tabs share | refresh, restore, sign out, revoke, prune | several tabs on one cookie, answers lost, late or in another order, grace passing meanwhile | one pair of tokens, no sign-out by one's own tabs, every refresh ends |
| Password reset and lockout (`app/services/auth/password_reset.py`, `reset_send_limit.py`, `account_lockout.py`) | reset tokens, tickets in process memory, failure counters | request, send, redeem, count failures | restart between storing and sending, queue limits, two redemptions | one live link, every ticket freed, redeemed once |
| Second factors, passkeys, providers (`app/services/auth`) | single-use challenges | issue, consume | replay, concurrent consumption | consumed at most once |
| Exchange rates (`app/services/fx`) | Valkey entries | fetch, fill, convert | racing fills, missing answers | a rate is never replaced by a missing one |
| Budgets (`app/services/budgets`) | budgets and period instances | create, edit, list periods | period arithmetic | periods tile time |
| Categories, merchants, tags; groups and row-level security; insights and dashboard; email; maintenance jobs; pages; schema and deployment | see `PROJECT.json` | | mostly single statements, reads, or input and output | |

How they interact: every write to the user's data locks the rows it edits, rebuilds balances under the
advisory locks, marks the cache scope last and commits. The import commit is one such writer; the undo is the
only one that takes the marker first, because the marker is what tells it whether anything changed since.
The page reaches the server over HTTP and learns nothing when an answer is lost. Pruning runs in the
background twice a day and whenever a run is opened. Windows learn of others' writes only from the marker, and
share cookie, lock, marker and saved copy through the browser.

`PROJECT.json` lists every component with its status, and every hazard found in the code with the property
that covers it or the plan's module that will.

## 2. Modules

| Module | Models | Stands on |
|---|---|---|
| `Sums`, `SumProofs` | the sum of amounts over a finite set; lemmas about it | TLAPS |
| `Book` | what the ledger promises a reader | `Sums` |
| `Ledger` | handlers that write transactions and snapshots | `Sums`; refines `Book` |
| `LedgerProofs` | theorems about `Ledger` | `Ledger`, `SumProofs`, TLAPS |
| `Imports` | what importing a file promises | |
| `ImportRun` | import runs on the server | refines `Imports` |
| `ImportPage` | one open page with its calls | `ImportRun` |
| `ImportProofs` | theorems about `ImportRun` and `ImportPage` | `ImportPage`, TLAPS |
| `RefundLinks` | links between refunds and expenses, and the edits that may break them | `Sums` |
| `RefundLinksProofs` | theorems about `RefundLinks` | `RefundLinks`, `SumProofs`, TLAPS |
| `Session`, `SessionProofs` | one sign-in session, its tabs and its calls; theorems | TLAPS |
| `CacheCheck`, `CacheCheckProofs` | windows that check the marker and share a saved copy; theorems | TLAPS |
| `BulkEditRules` | the server's verdict on a bulk edit and what it writes, as operators | |
| `BulkEdit`, `BulkEditProofs` | the bulk edit panel over rows that change; theorems | `BulkEditRules`, TLAPS |
| `BulkSelection`, `BulkSelectionProofs` | ticks, ranges and the confirmation; theorems | TLAPS |
| `MC_*` | symmetry sets and constants of the instances | |

### Ledger

One request is one handler in one database transaction. `txns`, `snapshots` and `archived` are the committed
tables; `draftTxns` and `draftRows` are what a request has written and others cannot see; `View(r)` is what
its own statements see. `rowLock`, `accountLock` and `snapshotLock` are PostgreSQL's row and advisory locks,
released only by `Commit`, `Rollback` and the refusals.

| Action | Code |
|---|---|
| `Create`, `Update`, `BulkUpdate`, `Delete` | `creation.py`, `update.py`, `bulk_update.py`, `deletion.py` up to the call of `recompute_account_snapshots`, with the rows locked, the validations and the days each account is touched on |
| `ValidateArchive`, `ZeroBalance`, `Unarchive` | `update_helpers.py` and `balance_adjustments.py`: the check, the balance read that flushes the flag and locks the account row, the adjustment |
| `AcquireSnapshotLock` | advisory locks one by one in sorted key order |
| `ReadAnchor`, `RebuildWindow` | the anchor read, and the deletion, grouped sum and walk that follow it, including the zero anchor |
| `RefuseBalance`, `Rollback`, `Commit` | the end of the transaction |

Statements between which no other request can be told apart are one action. The anchor read is a statement of
its own because `READ COMMITTED` takes a new snapshot for what follows. A walk is described by what its rows
satisfy (`Walk`) and not by a fold, which keeps the module within reach of the prover. Keys of advisory locks
are a parameter: two accounts may share one, and their order is unrelated to that of the accounts.

Abstracted: currencies (an edit never changes an account's), categories, tags and merchants, permissions, the
cache marks, refund links (`RefundLinks`; a refusal by them is a `Rollback` here), account deletion.

### ImportRun

`status`, `aged`, `staged` and `savedAt` are the run's row and its staged rows, `ledger` what its commit wrote.
A run is `aged` when it is older than the abandonment age or the undo window, both 24 hours. `marker` is the
user's `changed_at`; `clock` is `clock_timestamp()` at the latest mark, committed or not. `runLock`,
`markerLock` and `rowLock` are the row locks.

| Action | Code |
|---|---|
| `Open`, `Stage`, `Prune`, `Age` | `run_staging.py`, `prune_expired_import_runs` in `app/db/rls/functions.py`; handlers that hold the run from first to last statement are one step |
| `HoldToDrop`, `Drop` | `delete_import_run` |
| `HoldToCommit`, `MarkSaved`, `Save` | `commit_run`: hold and count, the importer's writing with its mark, stamp and commit |
| `HoldToUndo`, `HoldMarker`, `HoldWritten`, `Undo`, `RefuseUndo` | `undo_import_run`: run, marker, rows, deletion; the lock timeout and the refusals |
| `Change`, `MarkChanged`, `FinishChange` | any other write to the user's data: rows first, marker last |
| `Abort` | any refusal after the locks, a deadlock's loser, a lost connection, a stopped process |

A row of the model is a position of the file; one may stand for a record the import creates. Restored import
layouts, group accounts and references from records in groups are not modelled: they only add refusals.

### ImportPage

The state of `createImportRunController` (`phase`, `run`, `kept` for `stagedRunId`, `keptWith` for
`stagedAnswers`) next to the server. `calls` are commit and delete requests that have not arrived: they may
never arrive, or arrive after the page gave them up. `serving` names the call a handler answers, and `reply`
holds the answer while it is under way. `Interrupted` is the page giving up, at any time. Opening and staging
are answered in the step that performs them, except that the open's answer may be lost; a late staging call
can only add rows to a run nobody will commit. Discards after a failure are sent and forgotten.

Assumed, as `run.ts:15-18` does: a file the importer refuses is refused every time. The overlay keeps a second
attempt from starting while one is in flight, and a page showing a finished import starts no other, so both
end the model's behaviours there. The user may undo a saved run from elsewhere at any time.

### RefundLinks

`txns` and `links` are the committed tables; a row is an amount and whether its category files it as an expense,
as something else, or as a transfer, which like a group account bars links (`barred`). `rowLock` and `draft` are
the rows a request holds and what it would store in them, `wanted` the rows its current statement has still to
lock, in id order.

| Action | Code |
|---|---|
| `Begin`, `Hold`, `GiveUp`, `NotFound` | `check_transaction_access`, `load_locked_transactions`: locks one by one, 404, and the 409 of a timeout or a deadlock |
| `HoldExpense`, `Pair` | `link_existing_refund` and `validate_refund_original`: the refund's lock and checks, then the expense's lock and checks |
| `BeginRefund` | a create that names its expense; its row is there from the start, since nobody sees it before it commits |
| `Write`, `PassOver`, `Total` | an edit or bulk edit and `refuse_broken_links`: what each link joins is read at once, the expenses are locked, and only then totalled |
| `Unlink`, `Delete`, `Commit` | `unlink_refund`, the deletions with the cascade to their links, and the end of each |

`Create` is a transaction without a link and `Ledger` describes it. Amounts are in one currency: the code refuses
other pairs when linking, and an edit does not change a currency. Accounts, balances and the listing of
candidates are left out; a refusal for other reasons is a `Rollback`. `RowsOf` gives the rows an id may be stored
as, so that an instance can leave out combinations that say nothing about refunds.

### Session

Access and refresh tokens issued together have one number, counted up. `current` and `grace` are the allowlist's
refresh tokens without and with a deadline, `over` those past it; `holder` is the session row's lock. A call
carries the cookie of the moment it was sent (`with`) and, for a logout, an access token (`bearer`). `jar`, `flag`
and `lock` are what the browser keeps for all tabs: the cookie, `lumina:has_session` and the refresh lock.

| Action | Code |
|---|---|
| `Arrive`, `Hold`, `Deny`, `DropAccess`, `Rotate` | `_refresh`: the transaction fixes its `now()`, the row lock with the token still active, the refusals, and the statements of the rotation, of which the first reads what it deletes |
| `Prune`, `GraceEnds`, `End`, `Logout` | `delete_expired_auth_tokens`, the deadline, sessions deleted elsewhere, `logout_auth_session` |
| `Open`, `Renew`, `Wake`, `LockLapses`, `Send` | `restoreSession`, `authenticatedRequest`, and the lock of `requests.ts` with the wait that does not look again |
| `Deliver`, `Lose`, `GiveUp`, `Leave`, `Close` | the answer and the cookie it sets, for tabs that wait and for tabs that are gone; the retries of a lost race; signing out; closing |

Histories: `newest`, `refused` and `strained` (the network lost, reordered or held back an answer past a deadline).
Left out: several sessions of a user, signing in, and the age of access tokens.

### CacheCheck

Every change raises `version`, and the marker commits with it, so the version stands for the marker too. One
mounted query stands for the data: `data` is the version it holds, `invalid` that it is marked to be fetched
again. `seen` is a window's marker in session storage, `local` and `copy` the marker and the saved cache that all
windows share. `check` and `pending` are `validate` with `pendingValidationRef`, `held` and `skipped` the hold a
dialogue puts on it. `asked` is a history: what was committed when the window last had a reason to check.

| Action | Code |
|---|---|
| `FetchRead`, `FetchDone`, `FetchFails`, `OtherQuery` | the query library, as `src/` uses it |
| `TimedSave`, `Hide`, `Close` | `persistence.ts`: the throttled save and the one on `pagehide` |
| `Focus`, `Timer`, `Hear`, `Hold`, `Release` | the listeners of `useCacheValidation.ts` and its hold gate |
| `CheckRead`, `CheckDone`, `CheckFails` | `validate`, `validateAppData`, `get_visible_cache_status` |
| `Load`, `Reload` | `main.tsx`: restoring a copy, with and without the session storage of before |

Left out: expiry by age, the day's exchange rates and the profile (fetched by the same check), what a window
invalidates after its own writes, and the skip of a session's own changes.

### BulkEdit and BulkEditRules

`BulkEditRules` says of a request and the stored rows whether `bulk_update_transactions` refuses it and what each
row becomes. `BulkEdit` is the panel: what the user set, the direction with its `source` (picked or implied by the
ends), the rows it last fetched next to `stored`. A row is the facts the rules read: account, currency, whether its
category records another side, that side (an account, outside, unanswered, or an account the user can no longer
open), the direction of its amount, and whether it has a merchant.

Each picker is an action with everything it rewrites. `Show` is a render over new rows: it drops ticked rows that
are gone, clears ends that are no longer offered, and lets `Corrected` set the direction, as the render of
`BulkEditModal.tsx` does. `Change` and `Drop` alter a row; a change stays unseen until `Refetch`.

Left out: dates, notes and the tag limit (`other` stands for fields without a rule), bank transaction IDs
(`_refuse_moves_into_held_bank_transactions`), and the reading of rows by page.

### BulkSelection

`selected`, `anchor`, `baseline`, `hovered` and `hoveredDay` are the reducer's state, `pointerRow` and `shift` the
hook's refs; `pointer`, where the pointer really is, is the model's own. `Show` is a render of `ListSection.tsx` over
new rows followed by its effects; `Filter` is a new request key; `settled` is FALSE while the rows of the old
filter are held. `frozen` is the signature `applyBulkEdit` freezes for the confirmation. Bulk delete and export,
which share the ticks, are left out.

## 3. Runs

| Run | Instance | Shows |
|---|---|---|
| `ledger_book` | 2 requests that create, bulk edit, delete, archive and unarchive, 2 accounts, 2 transactions, 2 days, balances within -2..2 | `TypeOK`; `BalancesArePrefixSums`: the balance shown for any day is the sum of everything before it; `SnapshotsChained`; `ImplementsBook`: each operation takes effect at once and whole |
| `ledger_locks` | 2 requests that create, edit and delete across 2 accounts, balances within -2..1, under `FairSpec` | `DraftsChained`: what is about to be committed chains with what is; `RebuildsFinish` |
| `ledger_archive_race` | 2 requests, 1 account, creating and archiving | violates `ArchivedHistoryFrozen` (finding 1) |
| `import_run` | 2 runs, 2 rows, 2 requests, 5 marks, under `FairSpec` | `TypeOK`, `MissingMeansUndone`, `ImplementsImports`, `RequestsEnd` |
| `import_page_day` | 2 runs, 2 rows, 2 handlers, 2 choices of answers, 5 calls; only open runs age | `PageTypeOK`, `NothingTwice`, `StoppedMeansNothing`, `DoneMeansSaved` |
| `import_page_overnight` | the same with 1 row and 3 calls; saved runs age too | violates `NothingTwice` (finding 2) |
| `refund_links` | 2 requests of every kind, an expense of 3 that may shrink and lose its category, 2 refunds of 1 or 2, under `FairSpec` | `TypeOK`; `RefundsFit`: refunds never total more than their expense; `LinksJoin`; `RequestsEnd` |
| `session` | 2 tabs, 2 calls, 5 pairs of tokens, under `FairSpec` | `SessionTypeOK`; `OnePair`; `NeverRefusedByTabs`: a live session is refused to its browser only when the network failed it; `CookieKeepsUp`; `RefreshEnds` |
| `cache_loads` | 1 window, 2 changes, 2 loads, fetches and checks that fail, under `FairSpec` | `CacheTypeOK`, `DataAsNewAsMarker`, `CopyAsNewAsMarker`, `NoAskLost`, `ChangeReaches` |
| `cache_windows` | 2 windows, 1 change, no load | `DataAsNewAsMarker` with markers that others write |
| `bulk_edit` | 2 rows of eight kinds, 4 accounts of which one cannot be written and one is in another currency, a lost account, 1 change | `EditTypeOK`; `JudgesAsServer`: the panel holds back exactly what the server would refuse; `SummaryIsTrue`; `NoneSitsOutside`; `ImpliedHolds`; `WritesLawful` |
| `bulk_selection` | 4 transactions on 2 days, 4 lists, a limit of 2, one row edited elsewhere | `SelectionTypeOK`, `OnlyEligible`, `BaselineKept`, `LitWherePointerIs`, `ConfirmsWhatIsShown` |

Why the bounds are enough. Two requests reach every pairwise race, and no property relates three. The ledger's
rebuild of the later day finds an anchor row on the earlier, or none; `MinUnits` and `MaxUnits` are small so that
running balances really do leave the range. Lock keys run against the order of the accounts. Five marks let an
import, a change, an undo and two more marks follow each other. Five calls are a commit, a settling delete
answered "busy", a second one, a new commit and a discard. Two small refunds fit until one is raised or the expense
is lowered. Five pairs of tokens let two tabs rotate twice each, so that a token is in its grace, past it and gone.
Two changes let one be committed while the check for the other runs, and two loads let a window be closed and
reopened, or reloaded twice, on the copy it left. The eight kinds of row are one for each branch of the panel's
warnings; any two of them may be ticked together. The four lists lose a row, gain one, reorder and empty; a limit of
2 is passed by a range and by a day. Bounds are constants (`Operations`, `AnchorDays`, `MaxMarks`, `MaxCalls`,
`Ageing`, `Jobs`, `MaxTokens`, `MaxChanges`, `MaxLoads`, `Faults`, `MaxVersion`) used only in guards.

Deadlock is checked in the ledger, `import_run` and `refund_links` runs. A finished import page, a session that has
ended with all tabs closed, windows with no change left to come, and a panel that has been answered really stop;
the bounds on tokens, changes and edits stop others. Symmetry is used only for sets no property orders, and not
in runs with a liveness property.

### Fairness

`Ledger!FairSpec`: a running handler takes its next step (`WF` on `Proceed`), and PostgreSQL queues the
waiters of an advisory lock in order, so one that is offered the lock again and again gets it (`SF` on
`AcquireSnapshotLock`). `ImportRun!FairSpec`: the same for handlers, and for the marker's row lock. No client
is assumed to call anything, and nothing is assumed of aborts, pruning or time. `RequestsEnd` relies on the
lock timeout of the undo, which is a step of `Proceed`, and `RebuildsFinish` on the sorted order of the keys.
`RefundLinks!FairSpec`: the same for handlers; there an edit of a refund and a bulk change holding its expense do
wait for each other, and `RequestsEnd` relies on the timeouts and on PostgreSQL ending one of them (`GiveUp`).

`Session!FairSpec`: the server serves a call it has, and an answer reaches the browser or is lost (`WF`); the wait for
the lock is a timer (`WF` on `Wake`); a request that could go out again and again does (`SF` on `Send`, for the calls
of the instance are shared); and a tab that keeps losing the race runs out of its five seconds (`SF` on `GiveUp`).
`CacheCheck!FairSpec`: a fetch is answered or fails for good, dialogues are closed, the timer for the next day or for
a retry fires (`WF`), and a window that checks again and again is answered at last (`SF` on `CheckRead` and
`CheckDone`): the server is not down for ever. No tab or window is assumed to stay open, and `ChangeReaches` ends with
a window's closing.

### Findings

1. *Archived accounts can change* (`ledger_archive_race`). The archived check of a create holds the account
   only `FOR KEY SHARE`, and the update that archives it does not wait for that lock, so a create in flight
   lands in the archived account (`app/services/transactions/creation.py:49`), although
   `app/services/transactions/accounts.py:32` says such paths cannot write new history.
2. *An import page left open overnight can import twice* (`import_page_overnight`).
   `frontend/src/api/import-runs/run.ts:154` says "A committed run is never deleted, so one that is gone was
   never written", but pruning deletes committed runs after the undo window. A save whose answer was lost and
   that is settled after that with other answers is uploaded a second time, although the page promises
   "Nothing will be added twice as long as you stay on the import page". The page already guards the same
   absence elsewhere: `useImportUndoneElsewhere` trusts it only until `undo_until`.

### Divergences

What the code does not promise, and the runs' bounds therefore leave out. The modules model each of them.

- *A logout may end nothing.* It names its session by the access token and the cookie it was sent with
  (`frontend/src/api/auth/requests.ts:293`). If refreshes of other tabs have rotated both away by the time it is
  served, `app/routes/auth/logout_helpers.py:49` finds no session; the browser is signed out and the rows stay
  until they expire. `Logout` of `Session` does just that; no property says that it ends the session.
- *A load without a copy has nothing to mark.* The check of a window that restored nothing stores the marker it
  read (`useCacheValidation.ts:92`), and if a fetch that had read earlier data ends after it, that data stays until
  the next change. `Faults` with "empty" reaches it.
- *The last writer's copy wins.* Each window saves its whole cache under one key, and a window in the background
  may replace a newer copy by its own (`persistence.ts:90`, `:175`), which a new window then takes for current
  against the shared marker. Two windows and one load reach it.
- *An account the user can no longer open.* The panel lets an edit pass on a transfer recorded against such an
  account (`getBulkEditBlockers`, `selection.ts:581`), and `_find_unreachable_counterparties` of `bulk_update.py`
  refuses it. `BreaksRule` has the refusal; no kind of row of the run has such an account on its other side.

## 4. Proofs

The proofs hold for every value of the constants that satisfies the modules' assumptions. `Ledger` assumes
(`LedgerAssumption`, `NoTxnAssumption`) that days and keys of advisory locks are integers, that there are finitely
many days and transaction ids (dates of the calendar and UUIDs, without a bound on either), that there is a day a
zero anchor can take, that amounts and 0 lie within the bounds of the bigint column, and that the "none" values
are none of the values they stand beside. `ImportRun` assumes
(`ImportAssumption`) that its bound on marks is a natural number and, again, that the "none" values are apart.
`ImportPage` adds (`PageAssumption`) that an import declares at least one row, and `ImportProofs` names as the
hypothesis of four theorems about the page, `SameDay`, that no saved run is among those that age.
`BulkEditRules` (`RulesAssumption`) takes an account to be open, lost or outside, and never the name of a turn.
`BulkEditProofs` names as the hypothesis of one theorem, `NoneClosed`, that no row's other side is an account the user
can no longer open: the panel does not warn of those (see Divergences).
`BulkSelection` (`SelectionAssumption`) takes lists to be sequences of transactions and "none" to be no signature of
rows; `Session` and `CacheCheck` that their bounds are natural numbers and their "none" values apart.
`CacheCheckProofs` names `NoLoads` and `Alone`, the two cases in which the cached data is promised to keep up.
`RefundLinks` (`RefundAssumption`) takes ids and amounts to be integers, the ids finitely many, and its "none" values
to be apart.

**`SumProofs`.** `SumOf` of `Sums` is a fold, a recursive definition, whose value for every finite set would be an
induction over the set. The library's induction theorems are beyond the prover, so these lemmas argue by a least
counterexample instead: of the subsets that a lemma fails for, `SmallestSet` gives one that it no longer fails for once
any element is removed, and adding that element back gives the contradiction. `SumSplit` says that a sum is the sum over
a part of its set and over the rest, `SumMonotone` compares the sums of smaller and larger values, and `SumPart` says
that part of a sum of natural numbers is at most the whole.

**`LedgerProofs`.** `LedgerTypeOK`, `CommittedSnapshotsChain` (`SnapshotsChained`) and `CommittingDraftsChain`
(`DraftsChained`). `SnapshotsChained` alone is not inductive: what a commit publishes was computed steps earlier
from an anchor and from rows others may have changed since. `LedgerInv` adds, for each request:

- `Covered`: every row it holds is either as committed, or the days it leaves and enters are inside the rebuild
  window of their accounts. Forgetting one side of a move breaks this conjunct.
- `Anchored`: after the anchor read, the running balance is still the account's last one before the window. It
  is kept by the advisory lock, which every other writer of that account's rows needs.
- that each account already rebuilt has draft rows that chain over the request's own view, and that the advisory
  locks of the accounts it rebuilt are still held. Two requests that changed one account cannot both be past its
  lock, so a commit by one leaves the drafts of the other chained.

A commit replaces the rows of rebuilt accounts by chained drafts; for the other accounts the amounts per day are
the same before and after (`SameOutsideWindow`), and a chain depends on nothing else (`SameChain`).

`ShownBalancesArePrefixSums` (`BalancesArePrefixSums`) carries the chain, which relates each row to the one before it,
to what a reader sees: the balance read for a day is the sum of all that came up to that day. If a row differed from
that sum there would be an earliest such day (`EarliestDay`), and the row before it, or there being none, contradicts
it (`ChainRows`); days without a row add nothing (`ChainBalance`).

`LedgerImplementsBook` (`ImplementsBook`) maps every step to a step of `Book` or a stutter. `HoldInv` says what kind of
change a request is about to publish: it edits rows, or deletes rows, or posts one, never a mixture; and if it archives
an account it holds that one alone, and at most one row posted to it. `CommitMaps` and `UnarchiveMaps` find the
operation of `Book` from that, `OthersStutter` says that nothing else touches a committed table.

`LocksFormNoCycle` (`NoWaitCycle`) says that of any finite set of requests one does not wait for another of them, so no
circle of requests waiting for accounts' advisory locks exists, whatever their number and the accounts they touch.
`LockInv` is the reason: the locks a request holds are the lowest of those it wants. It is the part of `RebuildsFinish`
that does not depend on fairness; row locks are taken before, and their cycles belong to the planned `WriterLocks`.

**`ImportProofs`.** Of the server: `ImportRunTypeOK`, `MissingRunsWereUndone` (`MissingMeansUndone`) and
`ImportsImplemented` (`ImplementsImports`, so `ImportRun` refines `Imports`). `ImportInv` relates each request
to the locks it holds and to what it has checked under them: a commit still finds its run open and all rows
staged, an undo still finds the marker at the run's stamp and, when it deletes, holds every row left, and a
change's row is still there. Of each run it says that one saved at the present marker is exactly as it was imported,
which is what makes comparing two timestamps a sound test for "untouched". Its induction rests on stamps: the
holder of the marker has stamped later than every committed mark, so a change moves the marker past every run
saved before. One lemma per action shows `ImportInv` kept; one lemma per visible action maps it to `Imports`.

Of the page: `PageTypes`, `AddedOnce` (`NothingTwice`), `StoppedAddsNothing` (`StoppedMeansNothing`) and
`DoneIsSaved` (`DoneMeansSaved`), each for a day on which no saved run grows old (`SameDay`); without it
`import_page_overnight` shows `NothingTwice` violated. The argument is that every run but the `Current` one is
`Dead`: it is not saved, and it will not be, because rows are missing that nobody will stage, because the importer refuses
its file, or because it is too old and no handler is past that check. `Keeps` says that no step of the server revives a
dead run, and one lemma per server action shows it; the only step that does is staging the last batch, with which the
page makes the run its current one. `WireInv` says that the latest call, and the handler serving it, is about the run
the page waits for, so that the answers heard are about it too (`ReplyInv`), while earlier calls, numbered lower, are
not heard. Every step of the page is a step of `ImportRun` or none (`PageStepsServe`), so `ImportInv` holds
throughout and gives what a handler knows under its lock. `PageKeepsImports` (`ImplementsImports`) is the refinement
again for the composed system and needs no `SameDay`: what a page left open overnight may get wrong is which run it
believes in, and never what the server does with each.

**`RefundLinksProofs`.** `RefundLinksTypeOK` and `LinksAlwaysJoin` (`LinksJoin`). `RefundInv` adds to `LinksJoin`
what each request relies on: what it holds and has not rewritten is as committed; what an edit will store still
serves the links its own row is on (`SidesKept`), because a link to a held row cannot be made by anyone else; and
a request about to link holds both sides, still as it checked them. An edit checks only its own side this way, and
that is enough: the other side cannot change without a request that checks it in turn. One lemma per action.
`RefundsAlwaysFit` (`RefundsFit`) needs `FitInv` beside it. A request totals the refunds of an expense as it sees them:
its own rows as drafted, the rest as committed. That total still fits when it commits, because it holds every expense
whose total it may move, and every other request that would move the same total needs that lock: an edit takes the
expenses of the links its rows are on, a link takes its expense. While an edit still waits, those expenses are among
the rows it has `wanted`, so none is forgotten. Unlinking and deleting lower a total, by `SumPart`, since refunds are
money coming in.

**`SessionProofs`.** `OnePairAlways` (`OnePair`): while a session lives it has one current refresh token, one access
token of the same number, and at most the one before in its grace. `RotationInv` adds how far each rotation has come:
a call past the lock holds it and the session is alive, and the access tokens its `DELETE` saw are still all there
are. The second is what the lock is for: without it two rotations each leave a token the other did not see.
`SessionTypes` (`SessionTypeOK`) is inductive as it stands. `TabsAreNotRefused` (`NeverRefusedByTabs`) and
`CookieIsCurrent` (`CookieKeepsUp`) rest on `NetworkInv`, which says what holds until the network fails: the cookie is the
newest pair delivered, or none; the last pair issued has been delivered or is under way (`Reaches`); and a token past
its grace has been replaced in the cookie, is in no call on its way, and was not past its grace when the call that
carries it arrived (`Timely`). So a token the server refuses was sent before a network fault. It holds for any number
of tabs and calls, not only for the two of the run.

**`BulkEditProofs`.** `BatchesWriteLawfully` (`WritesLawful`), an action property. `OpenInv` says that until the edit
is answered the rows are rows and the ends hold what their menus offer, whatever the pickers and refetches do;
`UnrefusedIsLawful` then follows the server's rules for one row, field by field. Nothing is assumed of what the panel
knows, so the rules alone protect the stored rows from a panel that is behind.
`PanelTypes` (`EditTypeOK`), `OwnSidesInside` (`NoneSitsOutside`) and `ImpliedDirectionHolds` (`ImpliedHolds`) rest on
`PanelInv`. It states the second whether or not the ends are offered, since a control that is hidden keeps its value
and comes back with it. Its step for a refetch is the one with substance: the render corrects the ends only if a key of
the rows has changed, and `SameImplied` shows that equal keys imply the same direction.
`PanelJudgesAsServer` (`JudgesAsServer`, given `NoneClosed`) and `SummaryHolds` (`SummaryIsTrue`) compare the panel's
copy of the rules with the server's: `RowAgrees` and `AccountAgrees` show that both resolve the same ends, direction and
account for a row, `BlocksAsServer` that each warning has its refusal and each refusal its warning. `MoveInv` is needed
for the currencies: the panel lists only accounts a move may go to and does not warn of the rest, which is right only if
no refetch changes a row's currency.

**`BulkSelectionProofs`.** `TicksStayEligible` (`OnlyEligible`), `BaselineStaysTicked` (`BaselineKept`),
`PreviewFollowsPointer` (`LitWherePointerIs`) and `ConfirmationIsCurrent` (`ConfirmsWhatIsShown`). `SelectionInv` has a
part for each: `PointerInv` adds that the row the hook remembers is the one under the pointer, without which pressing
shift could light a row the pointer has left. `TicksInv` puts what a range builds on among the ticks, so that it
leaves the list with them. `ConfirmInv` adds that an edit always has rows, the case a confirmation cannot be opened in.
`TicksFitTheLimit` (`SelectionTypeOK`) adds the types and the limit (`LimitInv`). Its core is `FilledFits`: of the rows a
range would add, each has fewer before it than the next one has, so counting the rows before is an injection into the
room the limit leaves.

**`CacheCheckProofs`.** `CacheTypes` (`CacheTypeOK`) and `NoReasonIsLost` (`NoAskLost`). `WindowInv` says that nothing is
seen, read or asked for before it is committed, that an answer under way is no older than the marker seen last, and
that what the last reason asked for is `Answered`: seen, failed, or left to a check that will still read it - one
sent, one to follow, one the hold will start, or one that has read late enough. `OthersKeep` disposes of the other
windows in each step. It holds for any number of windows, changes and loads, and whatever fails.
`DataKeepsUp` (`DataAsNewAsMarker`) is for any number of windows, changes and failures when no page is loaded after the
first (`NoLoads`): `Fresh` says that data older than the window's marker is marked, and that what a fetch has read is not
older, which holds because a marker that moves starts the fetch anew. `LoadsKeepUp` (`DataAsNewAsMarker`) and
`CopyKeepsUp` (`CopyAsNewAsMarker`) are for one window that always finds its copy (`Alone`), over any number of loads:
`Sole` says that the marker it compares with is the shared one and that the copy is what it would save now, unless a
save is due; so leaving and loading again loses neither data nor its mark. Both properties fail beyond these
hypotheses, in the ways Divergences tells.

Every invariant, action property and refinement that a passing run checks is stated by a theorem. Only model-checked: the
liveness properties `RebuildsFinish`, `RequestsEnd` (of `ImportRun` and of `RefundLinks`), `RefreshEnds` and
`ChangeReaches`, since fairness and `ENABLED` are beyond the prover; and the two violations, `ArchivedHistoryFrozen`
and `NothingTwice` overnight.

## 5. Not modelled, and the plan

`PROJECT.json` gives the reason for every component. In order:

1. `Ledger`, `Book`, `ImportRun`, `Imports`, `ImportPage` and their proofs: done, as above.
2. `RefundLinks`, `RefundLinksProofs`: done, as above.
3. `Session`, `CacheCheck`, `BulkEdit`, `BulkSelection` and their proofs: done, as above.
4. `WriterLocks`: the lock sequences of every writer and of account deletion over rows, account, advisory locks
   and markers; which cycles exist, that PostgreSQL's victim is retried or refused, and that every request ends.
5. `ImportStaging`: the steps and answers of `useTransactionImportWorkflow.ts`, the largest page of the frontend,
   above `ImportPage`: which answers survive a change of file, mapping or account.
6. `PasswordReset`: tokens, tickets, restarts, lockout. To prove: a token is redeemed at most once.
7. `Invalidation`: what a window invalidates after its own writes, next to the session that markers skip.
8. `RateCache`, and budget periods as pure operators checked against a reference definition.
9. More proofs: the safety core of the other liveness properties, as `LocksFormNoCycle` is of `RebuildsFinish` (an undo
   that waits for rows holds the marker, and only its lock timeout ends a circle), and what `DataAsNewAsMarker` still
   promises when several windows load.

Most of the repository is pages, styles, imports' parsers and read-only queries, in which nothing interleaves; the
modules cover the small part where requests and clicks meet, and not a large share of the lines.

Left out for good: row parsing and resolution (data without state), insights and dashboards (reads),
permissions and row-level security (evaluated per statement by PostgreSQL; the models assume one authorised
user), email, rendering, migrations and deployment.

------------------------------ MODULE ImportRun ------------------------------
(***************************************************************************)
(* One user's file imports as the backend keeps them.  A run is opened,    *)
(* its rows are staged in batches, and a commit writes all of them in one  *)
(* database transaction; a saved run can be undone until something else    *)
(* changes the user's data.  Runs that wait too long are pruned.           *)
(*                                                                         *)
(* Requests are handlers running one PostgreSQL transaction each.  Those   *)
(* that hold the run row from the first statement to the last and touch    *)
(* nothing else a concurrent request reads are one action.                 *)
(*                                                                         *)
(*   services/importers/shared/run_staging.py, run_commit.py,              *)
(*   run_history.py, run_locking.py      the handlers                      *)
(*   db/rls/functions.py                 pruning                           *)
(*   services/cache_state/updates.py     the change marker                 *)
(***************************************************************************)
EXTENDS Integers, FiniteSets

CONSTANTS
  Runs,        \* import_runs ids
  Rows,        \* positions of the file; one may also stand for a record the import creates
  Requests,    \* handlers that run concurrently
  MaxMarks,    \* bound: marks of the user's change marker
  NoRequest, NoRun, NoRow,
  NoStamp      \* a timestamp column that holds none

ASSUME ImportAssumption ==
  /\ MaxMarks \in Nat
  /\ NoRequest \notin Requests /\ NoRun \notin Runs /\ NoRow \notin Rows /\ NoStamp \notin Nat

VARIABLES
  status,      \* the run's row: not inserted, uncommitted, committed or deleted
  aged,        \* older than ABANDONED_RUN_AGE since opening or IMPORT_UNDO_WINDOW since saving
  staged,      \* row_index of its import_staged_rows
  savedAt,     \* committed_at
  ledger,      \* what its commit wrote: gone, as imported, or changed by the user since
  marker,      \* user_cache_state.changed_at
  clock,       \* clock_timestamp of the latest mark, committed or not
  runLock,     \* FOR UPDATE lock of the run
  markerLock,  \* lock of the user's user_cache_state row
  rowLock,     \* locks of what the run wrote
  pc,
  on,          \* the run a request works on
  item,        \* what a change edits
  stamp        \* changed_at as the request marked it

runRow == <<status, aged, staged, savedAt>>
data == <<ledger, marker>>
locks == <<runLock, markerLock, rowLock>>
request == <<pc, on, item, stamp>>
vars == <<runRow, data, clock, locks, request>>

Nothing == [i \in Rows |-> "absent"]

Init ==
  /\ status = [u \in Runs |-> "unused"]
  /\ aged = [u \in Runs |-> FALSE]
  /\ staged = [u \in Runs |-> {}]
  /\ savedAt = [u \in Runs |-> NoStamp]
  /\ ledger = [u \in Runs |-> Nothing]
  /\ marker = NoStamp /\ clock = 0
  /\ runLock = [u \in Runs |-> NoRequest]
  /\ markerLock = NoRequest
  /\ rowLock = [u \in Runs |-> [i \in Rows |-> NoRequest]]
  /\ pc = [r \in Requests |-> "idle"]
  /\ on = [r \in Requests |-> NoRun]
  /\ item = [r \in Requests |-> NoRow]
  /\ stamp = [r \in Requests |-> NoStamp]

-----------------------------------------------------------------------------
(* Opening, staging and pruning *)

\* prune_expired_import_runs: FOR UPDATE SKIP LOCKED passes over a run a request holds
Expired == {u \in Runs : status[u] \in {"open", "saved"} /\ aged[u] /\ runLock[u] = NoRequest}

\* What a saved run wrote stays; only its link to the run is cleared
Prune ==
  /\ status' = [u \in Runs |-> IF u \in Expired THEN "gone" ELSE status[u]]
  /\ staged' = [u \in Runs |-> IF u \in Expired THEN {} ELSE staged[u]]
  /\ UNCHANGED <<aged, savedAt, data, clock, locks, request>>

\* open_import_run prunes and inserts in one transaction
Open(u) ==
  /\ status[u] = "unused"
  /\ status' = [v \in Runs |-> IF v = u THEN "open" ELSE IF v \in Expired THEN "gone" ELSE status[v]]
  /\ staged' = [v \in Runs |-> IF v \in Expired THEN {} ELSE staged[v]]
  /\ UNCHANGED <<aged, savedAt, data, clock, locks, request>>

\* stage_run_batch: a position already staged keeps its row, whether or not the run has aged
Stage(u, batch) ==
  /\ runLock[u] = NoRequest /\ status[u] = "open"
  /\ staged' = [staged EXCEPT ![u] = @ \union batch]
  /\ UNCHANGED <<status, aged, savedAt, data, clock, locks, request>>

\* A day passes
Age(u) ==
  /\ status[u] \in {"open", "saved"}
  /\ aged' = [aged EXCEPT ![u] = TRUE]
  /\ UNCHANGED <<status, staged, savedAt, data, clock, locks, request>>

-----------------------------------------------------------------------------
(* The change marker and the end of a transaction *)

\* load_locked_run
Hold(r, u, next) ==
  /\ pc[r] = "idle" /\ runLock[u] = NoRequest
  /\ runLock' = [runLock EXCEPT ![u] = r]
  /\ pc' = [pc EXCEPT ![r] = next]
  /\ on' = [on EXCEPT ![r] = u]
  /\ UNCHANGED <<runRow, data, clock, markerLock, rowLock, item, stamp>>

\* mark_user_cache_changed: the upsert holds the marker until the transaction ends
Mark(r, next) ==
  /\ markerLock = NoRequest
  /\ markerLock' = r
  /\ clock' = clock + 1
  /\ stamp' = [stamp EXCEPT ![r] = clock + 1]
  /\ pc' = [pc EXCEPT ![r] = next]
  /\ UNCHANGED <<runRow, data, runLock, rowLock, on, item>>

Release(r) ==
  /\ runLock' = [u \in Runs |-> IF runLock[u] = r THEN NoRequest ELSE runLock[u]]
  /\ markerLock' = IF markerLock = r THEN NoRequest ELSE markerLock
  /\ rowLock' = [u \in Runs |-> [i \in Rows |-> IF rowLock[u][i] = r THEN NoRequest ELSE rowLock[u][i]]]
  /\ pc' = [pc EXCEPT ![r] = "idle"]
  /\ on' = [on EXCEPT ![r] = NoRun]
  /\ item' = [item EXCEPT ![r] = NoRow]
  /\ stamp' = [stamp EXCEPT ![r] = NoStamp]

\* A refusal after the locks, a deadlock's loser, a lost connection or a stopped process
Abort(r) ==
  /\ pc[r] # "idle"
  /\ Release(r)
  /\ UNCHANGED <<runRow, data, clock>>

-----------------------------------------------------------------------------
(* delete_import_run *)

\* Fault: the run is read without holding it
ReadToDrop(r, u) ==
  /\ pc[r] = "idle" /\ status[u] = "open"
  /\ pc' = [pc EXCEPT ![r] = "dropping"]
  /\ on' = [on EXCEPT ![r] = u]
  /\ UNCHANGED <<runRow, data, clock, locks, item, stamp>>

HoldToDrop(r, u) == status[u] = "open" /\ Hold(r, u, "dropping")

\* The delete itself waits for a lock on the row, and its staged rows cascade away
Drop(r) ==
  LET u == on[r]
  IN  /\ pc[r] = "dropping" /\ runLock[u] \in {r, NoRequest}
      /\ status' = [status EXCEPT ![u] = "gone"]
      /\ staged' = [staged EXCEPT ![u] = {}]
      /\ Release(r)
      /\ UNCHANGED <<aged, savedAt, data, clock>>

-----------------------------------------------------------------------------
(* commit_run *)

\* Fault: the staged rows are not counted
HoldUncounted(r, u) == status[u] = "open" /\ ~aged[u] /\ Hold(r, u, "writing")

\* A run already saved is answered from its summary and changes nothing
HoldToCommit(r, u) ==
  /\ status[u] = "open" /\ ~aged[u] /\ staged[u] = Rows
  /\ Hold(r, u, "writing")

\* Fault: the import leaves the marker alone
LeaveUnmarked(r) ==
  /\ pc[r] = "writing"
  /\ pc' = [pc EXCEPT ![r] = "saving"]
  /\ UNCHANGED <<runRow, data, clock, locks, on, item, stamp>>

\* The importer's own writing ends with its marks
MarkSaved(r) == pc[r] = "writing" /\ Mark(r, "saving")

\* _finish_run_commit
Save(r) ==
  LET u == on[r]
  IN  /\ pc[r] = "saving"
      /\ status' = [status EXCEPT ![u] = "saved"]
      /\ aged' = [aged EXCEPT ![u] = FALSE]
      /\ savedAt' = [savedAt EXCEPT ![u] = stamp[r]]
      /\ marker' = stamp[r]
      /\ ledger' = [ledger EXCEPT ![u] = [i \in Rows |-> IF i \in staged[u] THEN "imported" ELSE "absent"]]
      /\ staged' = [staged EXCEPT ![u] = {}]
      /\ Release(r)
      /\ UNCHANGED clock

-----------------------------------------------------------------------------
(* undo_import_run *)

HoldToUndo(r, u) == status[u] = "saved" /\ Hold(r, u, "undoing")

\* Fault: the marker is read and let go
PassMarker(r) ==
  LET u == on[r]
  IN  /\ pc[r] = "undoing" /\ markerLock = NoRequest
      /\ ~aged[u] /\ savedAt[u] = marker
      /\ pc' = [pc EXCEPT ![r] = "unwinding"]
      /\ UNCHANGED <<runRow, data, clock, locks, on, item, stamp>>

\* load_locked_change_marker, and the window and the marker still match
HoldMarker(r) ==
  LET u == on[r]
  IN  /\ pc[r] = "undoing" /\ markerLock = NoRequest
      /\ ~aged[u] /\ savedAt[u] = marker
      /\ markerLock' = r
      /\ pc' = [pc EXCEPT ![r] = "unwinding"]
      /\ UNCHANGED <<runRow, data, clock, runLock, rowLock, on, item, stamp>>

\* load_locked_run_transactions
HoldWritten(r) ==
  LET u == on[r]
  IN  /\ pc[r] = "unwinding"
      /\ \A i \in Rows : ledger[u][i] # "absent" => rowLock[u][i] = NoRequest
      /\ rowLock' = [rowLock EXCEPT ![u] = [i \in Rows |-> IF ledger[u][i] # "absent" THEN r ELSE @[i]]]
      /\ pc' = [pc EXCEPT ![r] = "deleting"]
      /\ UNCHANGED <<runRow, data, clock, runLock, markerLock, on, item, stamp>>

\* Everything the run wrote goes with the run, and the marker moves
Undo(r) ==
  LET u == on[r]
  IN  /\ pc[r] = "deleting"
      /\ ledger' = [ledger EXCEPT ![u] = Nothing]
      /\ status' = [status EXCEPT ![u] = "gone"]
      /\ clock' = clock + 1
      /\ marker' = clock + 1
      /\ Release(r)
      /\ UNCHANGED <<aged, staged, savedAt>>

\* Fault: the undo waits for the rows it holds the marker against as long as it takes
WaitOnly(r) ==
  /\ pc[r] = "undoing"
  /\ aged[on[r]] \/ savedAt[on[r]] # marker
  /\ Release(r)
  /\ UNCHANGED <<runRow, data, clock>>

\* lock_timeout on the two waits of an undo, and the refusal of one that comes too late
RefuseUndo(r) ==
  LET u == on[r]
  IN  /\ \/ /\ pc[r] = "undoing"
            /\ markerLock # NoRequest \/ aged[u] \/ savedAt[u] # marker
         \/ /\ pc[r] = "unwinding"
            /\ \E i \in Rows : ledger[u][i] # "absent" /\ rowLock[u][i] # NoRequest
      /\ Release(r)
      /\ UNCHANGED <<runRow, data, clock>>

-----------------------------------------------------------------------------
(* Every other write to the user's data locks what it edits first and marks the cache last *)

Change(r, u, i) ==
  /\ pc[r] = "idle"
  /\ ledger[u][i] # "absent" /\ rowLock[u][i] = NoRequest
  /\ rowLock' = [rowLock EXCEPT ![u][i] = r]
  /\ pc' = [pc EXCEPT ![r] = "changing"]
  /\ on' = [on EXCEPT ![r] = u]
  /\ item' = [item EXCEPT ![r] = i]
  /\ UNCHANGED <<runRow, data, clock, runLock, markerLock, stamp>>

MarkChanged(r) == pc[r] = "changing" /\ Mark(r, "changed")

FinishChange(r) ==
  /\ pc[r] = "changed"
  /\ \E result \in {"edited", "absent"} : ledger' = [ledger EXCEPT ![on[r]][item[r]] = result]
  /\ marker' = stamp[r]
  /\ Release(r)
  /\ UNCHANGED <<runRow, clock>>

-----------------------------------------------------------------------------
\* Bound: a request starts only while it and those in flight can still mark the cache
MayMark == clock + Cardinality({r \in Requests : pc[r] # "idle"}) < MaxMarks

Begin(r) ==
  /\ MayMark
  /\ \E u \in Runs : \/ HoldToDrop(r, u) \/ HoldToCommit(r, u) \/ HoldToUndo(r, u)
                     \/ \E i \in Rows : Change(r, u, i)

Proceed(r) ==
  \/ Drop(r) \/ MarkSaved(r) \/ Save(r)
  \/ HoldMarker(r) \/ HoldWritten(r) \/ Undo(r) \/ RefuseUndo(r)
  \/ MarkChanged(r) \/ FinishChange(r)

Next ==
  \/ Prune
  \/ \E u \in Runs : Open(u) \/ Age(u) \/ \E batch \in SUBSET Rows \ {{}} : Stage(u, batch)
  \/ \E r \in Requests : Begin(r) \/ Proceed(r) \/ Abort(r)

Spec == Init /\ [][Next]_vars

\* A handler that can take its next step takes it; waiters on a row lock queue in order
FairSpec == Spec /\ \A r \in Requests : WF_vars(Proceed(r)) /\ SF_vars(MarkSaved(r) \/ MarkChanged(r))

-----------------------------------------------------------------------------
(* Properties *)

\* Every variable stays in its domain, and a saved run is stamped.
TypeOK ==
  /\ status \in [Runs -> {"unused", "open", "saved", "gone"}]
  /\ aged \in [Runs -> BOOLEAN]
  /\ staged \in [Runs -> SUBSET Rows]
  /\ savedAt \in [Runs -> Nat \union {NoStamp}]
  /\ \A u \in Runs : status[u] = "saved" => savedAt[u] \in Nat
  /\ ledger \in [Runs -> [Rows -> {"absent", "imported", "edited"}]]
  /\ marker \in Nat \union {NoStamp} /\ clock \in Nat
  /\ runLock \in [Runs -> Requests \union {NoRequest}]
  /\ markerLock \in Requests \union {NoRequest}
  /\ rowLock \in [Runs -> [Rows -> Requests \union {NoRequest}]]
  /\ pc \in [Requests -> {"idle", "dropping", "writing", "saving", "undoing", "unwinding", "deleting",
                          "changing", "changed"}]
  /\ on \in [Requests -> Runs \union {NoRun}]
  /\ item \in [Requests -> Rows \union {NoRow}]
  /\ stamp \in [Requests -> Nat \union {NoStamp}]

\* run_commit.py: "A run missing within its window then means its import was undone": a run that is
\* gone before it aged left nothing in the ledger, so a retry that finds it missing wrote nothing.
MissingMeansUndone == \A u \in Runs : status[u] = "gone" /\ ~aged[u] => ledger[u] = Nothing

\* How far a run is, in the words of Imports
Phase ==
  [u \in Runs |-> IF status[u] = "saved" THEN "landed" ELSE IF status[u] = "gone" THEN "over" ELSE "pending"]

\* Seen through its ledger an import lands whole and once, and is taken back whole and only while the
\* user has changed none of it, even when a change was in flight while the undo checked the marker.
Promised == INSTANCE Imports WITH stage <- Phase

ImplementsImports == Promised!ImportsSpec

\* A request that holds a run or waits for the marker ends, although an undo holds the marker while
\* it waits for rows and every other change holds rows while it waits for the marker.
RequestsEnd == \A r \in Requests : pc[r] # "idle" ~> pc[r] = "idle"

=============================================================================

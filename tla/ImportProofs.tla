----------------------------- MODULE ImportProofs -----------------------------
(***************************************************************************)
(* An import lands whole and once and is taken back whole and untouched,   *)
(* for any number of runs, rows and concurrent requests; and one import    *)
(* page adds nothing twice and says truly what came of its uploads, for    *)
(* any answers and calls, as long as no saved run grows a day old while    *)
(* the page is open.                                                       *)
(***************************************************************************)
EXTENDS ImportPage, FiniteSetTheorems, TLAPS

-----------------------------------------------------------------------------
(* The server: what an import run's requests keep *)

Everything == [i \in Rows |-> "imported"]

Committing == {"writing", "saving"}
Undoing == {"undoing", "unwinding", "deleting"}
Changing == {"changing", "changed"}

\* A request holds what it has locked, and what it checked under the lock is still so
RequestInv(r) ==
  /\ pc[r] \in {"dropping"} \union Committing \union Undoing => on[r] \in Runs /\ runLock[on[r]] = r
  /\ pc[r] \in {"saving", "unwinding", "deleting", "changed"} => markerLock = r
  /\ pc[r] \in {"dropping"} \union Committing => status[on[r]] = "open"
  /\ pc[r] \in Committing => staged[on[r]] = Rows
  /\ pc[r] \in Undoing => status[on[r]] = "saved"
  /\ pc[r] \in {"unwinding", "deleting"} => savedAt[on[r]] = marker
  /\ pc[r] = "deleting" => \A i \in Rows : ledger[on[r]][i] # "absent" => rowLock[on[r]][i] = r
  /\ pc[r] \in {"saving", "changed"} => stamp[r] = clock /\ (marker # NoStamp => marker < clock)
  /\ pc[r] \in Changing => /\ on[r] \in Runs /\ item[r] \in Rows
                           /\ rowLock[on[r]][item[r]] = r /\ ledger[on[r]][item[r]] # "absent"

\* The marker is the latest stamp, and a run saved at it is as it was imported
RunInv(u) ==
  /\ status[u] \in {"unused", "open"} => ledger[u] = Nothing
  /\ status[u] = "gone" /\ ~aged[u] => ledger[u] = Nothing
  /\ status[u] = "saved" /\ savedAt[u] = marker => ledger[u] = Everything
  /\ savedAt[u] # NoStamp => marker # NoStamp /\ savedAt[u] <= marker

ImportInv ==
  /\ TypeOK
  /\ marker # NoStamp => marker <= clock
  /\ \A r \in Requests : RequestInv(r)
  /\ \A u \in Runs : RunInv(u)

\* Nothing is held and nothing was imported
LEMMA InitInv == Init => ImportInv
<1> SUFFICES ASSUME Init PROVE ImportInv
  OBVIOUS
<1>1. TypeOK
  BY ImportAssumption DEF Init, TypeOK, Nothing
<1>2. \A r \in Requests : RequestInv(r)
  BY DEF Init, RequestInv, Committing, Undoing, Changing
<1>3. \A u \in Runs : RunInv(u)
  BY ImportAssumption DEF Init, RunInv
<1> QED BY <1>1, <1>2, <1>3 DEF Init, ImportInv

-----------------------------------------------------------------------------
(* Ending a request *)

\* What is left of the other requests, and of r itself
Released(r) ==
  /\ runLock' \in [Runs -> Requests \union {NoRequest}]
  /\ markerLock' \in Requests \union {NoRequest}
  /\ rowLock' \in [Runs -> [Rows -> Requests \union {NoRequest}]]
  /\ pc' \in [Requests -> {"idle", "dropping", "writing", "saving", "undoing", "unwinding", "deleting",
                           "changing", "changed"}]
  /\ on' \in [Requests -> Runs \union {NoRun}]
  /\ item' \in [Requests -> Rows \union {NoRow}]
  /\ stamp' \in [Requests -> Nat \union {NoStamp}]
  /\ pc'[r] = "idle"
  /\ \A s \in Requests \ {r} :
       /\ pc'[s] = pc[s] /\ on'[s] = on[s] /\ item'[s] = item[s] /\ stamp'[s] = stamp[s]
       /\ markerLock = s => markerLock' = s
       /\ \A u \in Runs : runLock[u] = s => runLock'[u] = s
       /\ \A u \in Runs, i \in Rows : rowLock[u][i] = s => rowLock'[u][i] = s

\* Ending a request leaves the locks and the variables of the others as they are
LEMMA ReleaseType == ASSUME TypeOK, NEW r \in Requests, Release(r) PROVE Released(r)
<1>1. \A s \in Requests \ {r} :
        /\ pc'[s] = pc[s] /\ on'[s] = on[s] /\ item'[s] = item[s] /\ stamp'[s] = stamp[s]
        /\ markerLock = s => markerLock' = s
        /\ \A u \in Runs : runLock[u] = s => runLock'[u] = s
        /\ \A u \in Runs, i \in Rows : rowLock[u][i] = s => rowLock'[u][i] = s
  BY DEF TypeOK, Release
<1>2. /\ runLock' \in [Runs -> Requests \union {NoRequest}]
      /\ markerLock' \in Requests \union {NoRequest}
      /\ rowLock' \in [Runs -> [Rows -> Requests \union {NoRequest}]]
  BY DEF TypeOK, Release
<1>3. /\ pc' \in [Requests -> {"idle", "dropping", "writing", "saving", "undoing", "unwinding", "deleting",
                               "changing", "changed"}]
      /\ on' \in [Requests -> Runs \union {NoRun}]
      /\ item' \in [Requests -> Rows \union {NoRow}]
      /\ stamp' \in [Requests -> Nat \union {NoStamp}]
      /\ pc'[r] = "idle"
  BY DEF TypeOK, Release
<1> QED BY <1>1, <1>2, <1>3 DEF Released

\* An idle request asks for nothing
LEMMA IdleInv == ASSUME NEW r \in Requests, pc[r] = "idle" PROVE RequestInv(r)
BY DEF RequestInv, Committing, Undoing, Changing


-----------------------------------------------------------------------------
(* Opening, staging, ageing and pruning *)

\* A run a request holds is not pruned
LEMMA HeldNotExpired ==
  ASSUME TypeOK, NEW r \in Requests, NEW u \in Runs, runLock[u] = r
  PROVE  u \notin Expired
BY ImportAssumption DEF Expired

\* Pruning passes over the runs requests hold
LEMMA PruneInv == ImportInv /\ Prune => ImportInv'
<1> SUFFICES ASSUME ImportInv, Prune PROVE ImportInv'
  OBVIOUS
<1> USE DEF Prune, data, locks, request
<1>1. TypeOK'
  BY DEF ImportInv, TypeOK
<1>2. ASSUME NEW r \in Requests PROVE RequestInv(r)'
  BY HeldNotExpired DEF ImportInv, RequestInv, Committing, Undoing, Changing
<1>3. ASSUME NEW u \in Runs PROVE RunInv(u)'
  BY DEF ImportInv, TypeOK, RunInv, Expired
<1> QED BY <1>1, <1>2, <1>3 DEF ImportInv

\* Opening a run prunes on the way
LEMMA OpenInv == ASSUME ImportInv, NEW u \in Runs, Open(u) PROVE ImportInv'
<1> USE DEF Open, data, locks, request
<1>1. TypeOK'
  BY DEF ImportInv, TypeOK, Expired
<1>2. ASSUME NEW r \in Requests PROVE RequestInv(r)'
  BY HeldNotExpired DEF ImportInv, RequestInv, Committing, Undoing, Changing
<1>3. ASSUME NEW v \in Runs PROVE RunInv(v)'
  BY DEF ImportInv, TypeOK, RunInv, Expired
<1> QED BY <1>1, <1>2, <1>3 DEF ImportInv

\* A run a commit holds takes no more rows
LEMMA StageInv ==
  ASSUME ImportInv, NEW u \in Runs, NEW batch \in SUBSET Rows, Stage(u, batch) PROVE ImportInv'
<1> USE DEF Stage, data, locks, request
<1>1. TypeOK'
  BY DEF ImportInv, TypeOK
<1>2. ASSUME NEW r \in Requests PROVE RequestInv(r)'
  BY ImportAssumption DEF ImportInv, TypeOK, RequestInv, Committing, Undoing, Changing
<1>3. ASSUME NEW v \in Runs PROVE RunInv(v)'
  BY DEF ImportInv, RunInv
<1> QED BY <1>1, <1>2, <1>3 DEF ImportInv

\* Ageing touches no request
LEMMA AgeInv == ASSUME ImportInv, NEW u \in Runs, Age(u) PROVE ImportInv'
<1> USE DEF Age, data, locks, request
<1>1. TypeOK'
  BY DEF ImportInv, TypeOK
<1>2. ASSUME NEW r \in Requests PROVE RequestInv(r)'
  BY DEF ImportInv, RequestInv
<1>3. ASSUME NEW v \in Runs PROVE RunInv(v)'
  BY DEF ImportInv, TypeOK, RunInv
<1> QED BY <1>1, <1>2, <1>3 DEF ImportInv

-----------------------------------------------------------------------------
(* Holding a run, and what is held until the transaction ends *)

\* A run is held by one request, which sees its status under the lock
LEMMA HoldInv ==
  ASSUME ImportInv, NEW r \in Requests, NEW u \in Runs, NEW next \in {"dropping", "writing", "undoing"},
         Hold(r, u, next), next = "dropping" => status[u] = "open",
         next = "writing" => status[u] = "open" /\ staged[u] = Rows, next = "undoing" => status[u] = "saved"
  PROVE  ImportInv'
<1> USE DEF Hold, runRow, data
<1>1. TypeOK'
  BY DEF ImportInv, TypeOK
<1>2. ASSUME NEW s \in Requests PROVE RequestInv(s)'
  <2>1. CASE s = r
    BY <2>1 DEF ImportInv, TypeOK, RequestInv, Committing, Undoing, Changing
  <2>2. CASE s # r
    BY <2>2, ImportAssumption DEF ImportInv, TypeOK, RequestInv, Committing, Undoing, Changing
  <2> QED BY <2>1, <2>2
<1>3. ASSUME NEW v \in Runs PROVE RunInv(v)'
  BY DEF ImportInv, RunInv
<1> QED BY <1>1, <1>2, <1>3 DEF ImportInv

\* The marker is held by one request, whose stamp is the latest
LEMMA MarkInv ==
  ASSUME ImportInv, NEW r \in Requests, NEW next \in {"saving", "changed"}, Mark(r, next),
         next = "saving" => pc[r] = "writing", next = "changed" => pc[r] = "changing"
  PROVE  ImportInv'
<1> USE DEF Mark, runRow, data
<1>1. TypeOK'
  BY DEF ImportInv, TypeOK
<1>2. ASSUME NEW s \in Requests PROVE RequestInv(s)'
  <2>1. CASE s = r
    BY <2>1 DEF ImportInv, TypeOK, RequestInv, Committing, Undoing, Changing
  <2>2. CASE s # r
    BY <2>2, ImportAssumption DEF ImportInv, TypeOK, RequestInv, Committing, Undoing, Changing
  <2> QED BY <2>1, <2>2
<1>3. ASSUME NEW v \in Runs PROVE RunInv(v)'
  BY DEF ImportInv, RunInv
<1> QED BY <1>1, <1>2, <1>3 DEF ImportInv, TypeOK

\* A request that ends leaves the others what they hold
LEMMA OthersKeepLocks ==
  ASSUME TypeOK, NEW r \in Requests, Release(r), NEW s \in Requests, s # r, RequestInv(s),
         UNCHANGED <<status, savedAt, staged, ledger, marker, clock>>
  PROVE  RequestInv(s)'
BY ReleaseType DEF TypeOK, Released, RequestInv, Committing, Undoing, Changing

\* A request that ends without a change leaves everything as it was
LEMMA EndingInv ==
  ASSUME ImportInv, NEW r \in Requests, Release(r), UNCHANGED <<runRow, data, clock>>
  PROVE  ImportInv'
<1> USE DEF runRow, data
<1>0. TypeOK
  BY DEF ImportInv
<1>1. TypeOK'
  BY <1>0, ReleaseType DEF Released, TypeOK
<1>2. ASSUME NEW s \in Requests PROVE RequestInv(s)'
  <2>1. CASE s = r
    BY <1>0, <2>1, ReleaseType DEF Released, RequestInv, Committing, Undoing, Changing
  <2>2. CASE s # r
    BY <1>0, <2>2, OthersKeepLocks DEF ImportInv
  <2> QED BY <2>1, <2>2
<1>3. ASSUME NEW v \in Runs PROVE RunInv(v)'
  BY DEF ImportInv, RunInv
<1> QED BY <1>1, <1>2, <1>3 DEF ImportInv

\* What is discarded is open, and so wrote nothing
LEMMA DropInv == ASSUME ImportInv, NEW r \in Requests, Drop(r) PROVE ImportInv'
<1> USE DEF data
<1>0. /\ TypeOK /\ on[r] \in Runs /\ runLock[on[r]] = r /\ status[on[r]] = "open"
      /\ Release(r) /\ UNCHANGED <<aged, savedAt, ledger, marker, clock>>
      /\ status' = [status EXCEPT ![on[r]] = "gone"] /\ staged' = [staged EXCEPT ![on[r]] = {}]
  BY DEF ImportInv, RequestInv, Drop
<1>1. TypeOK'
  BY <1>0, ReleaseType DEF Released, TypeOK
<1>2. ASSUME NEW s \in Requests PROVE RequestInv(s)'
  <2>1. CASE s = r
    BY <1>0, <2>1, ReleaseType DEF Released, RequestInv, Committing, Undoing, Changing
  <2>2. CASE s # r
    BY <1>0, <2>2, ReleaseType DEF ImportInv, TypeOK, Released, RequestInv, Committing, Undoing, Changing
  <2> QED BY <2>1, <2>2
<1>3. ASSUME NEW v \in Runs PROVE RunInv(v)'
  BY <1>0 DEF ImportInv, TypeOK, RunInv
<1> QED BY <1>0, <1>1, <1>2, <1>3 DEF ImportInv

-----------------------------------------------------------------------------
(* Saving and undoing *)

\* What is saved is whole, and stamped later than every other run
LEMMA SaveInv == ASSUME ImportInv, NEW r \in Requests, Save(r) PROVE ImportInv'
<1>0. /\ TypeOK /\ RequestInv(r) /\ pc[r] = "saving" /\ on[r] \in Runs /\ runLock[on[r]] = r /\ markerLock = r
      /\ staged[on[r]] = Rows /\ stamp[r] = clock /\ clock \in Nat /\ (marker # NoStamp => marker < clock)
      /\ Release(r) /\ UNCHANGED clock
      /\ status' = [status EXCEPT ![on[r]] = "saved"] /\ aged' = [aged EXCEPT ![on[r]] = FALSE]
      /\ savedAt' = [savedAt EXCEPT ![on[r]] = clock] /\ marker' = clock
      /\ ledger' = [ledger EXCEPT ![on[r]] = [i \in Rows |-> IF i \in staged[on[r]] THEN "imported" ELSE "absent"]]
      /\ staged' = [staged EXCEPT ![on[r]] = {}]
  BY DEF ImportInv, TypeOK, RequestInv, Save, Committing
<1>1. ledger' = [ledger EXCEPT ![on[r]] = Everything]
  <2>1. [i \in Rows |-> IF i \in staged[on[r]] THEN "imported" ELSE "absent"] = Everything
    BY <1>0 DEF Everything
  <2> QED BY <1>0, <2>1
<1>2. TypeOK'
  BY <1>0, <1>1, ReleaseType DEF Released, TypeOK, Everything
<1>3. ASSUME NEW s \in Requests PROVE RequestInv(s)'
  <2>1. CASE s = r
    BY <1>0, <2>1, ReleaseType DEF Released, RequestInv, Committing, Undoing, Changing
  <2>2. CASE s # r
    <3>1. pc[s] \notin {"saving", "unwinding", "deleting", "changed"}
      BY <1>0, <2>2 DEF ImportInv, RequestInv
    <3>2. pc[s] \in Changing => on[s] # on[r]
      <4> SUFFICES ASSUME pc[s] \in Changing, on[s] = on[r] PROVE FALSE
        OBVIOUS
      <4>1. item[s] \in Rows /\ ledger[on[r]][item[s]] # "absent"
        BY DEF ImportInv, RequestInv
      <4>2. ledger[on[r]] = Nothing
        BY <1>0 DEF ImportInv, RequestInv, Committing, RunInv
      <4> QED BY <4>1, <4>2 DEF Nothing
    <3> QED BY <1>0, <1>1, <2>2, <3>1, <3>2, ReleaseType
            DEF ImportInv, TypeOK, Released, RequestInv, Committing, Undoing, Changing
  <2> QED BY <2>1, <2>2
<1>4. ASSUME NEW v \in Runs PROVE RunInv(v)'
  BY <1>0, <1>1, ImportAssumption DEF ImportInv, TypeOK, RunInv
<1> QED BY <1>0, <1>2, <1>3, <1>4 DEF ImportInv

\* The marker an undo has compared stays put while it is held
LEMMA HoldMarkerInv == ASSUME ImportInv, NEW r \in Requests, HoldMarker(r) PROVE ImportInv'
<1> USE DEF HoldMarker, runRow, data
<1>1. TypeOK'
  BY DEF ImportInv, TypeOK
<1>2. ASSUME NEW s \in Requests PROVE RequestInv(s)'
  BY ImportAssumption DEF ImportInv, TypeOK, RequestInv, Committing, Undoing, Changing
<1>3. ASSUME NEW v \in Runs PROVE RunInv(v)'
  BY DEF ImportInv, RunInv
<1> QED BY <1>1, <1>2, <1>3 DEF ImportInv

\* An undo that has the rows has every row left
LEMMA HoldWrittenInv == ASSUME ImportInv, NEW r \in Requests, HoldWritten(r) PROVE ImportInv'
<1> USE DEF HoldWritten, runRow, data
<1>0. on[r] \in Runs
  BY DEF ImportInv, RequestInv, Undoing
<1>1. TypeOK'
  BY <1>0 DEF ImportInv, TypeOK
<1>2. ASSUME NEW s \in Requests PROVE RequestInv(s)'
  <2>1. CASE s = r
    BY <1>0, <2>1 DEF ImportInv, TypeOK, RequestInv, Committing, Undoing, Changing
  <2>2. CASE s # r
    BY <1>0, <2>2, ImportAssumption DEF ImportInv, TypeOK, RequestInv, Committing, Undoing, Changing
  <2> QED BY <2>1, <2>2
<1>3. ASSUME NEW v \in Runs PROVE RunInv(v)'
  BY DEF ImportInv, RunInv
<1> QED BY <1>1, <1>2, <1>3 DEF ImportInv

\* Nobody else was changing what an undo deletes
LEMMA UndoInv == ASSUME ImportInv, NEW r \in Requests, Undo(r) PROVE ImportInv'
<1>0. /\ TypeOK /\ RequestInv(r) /\ pc[r] = "deleting" /\ on[r] \in Runs /\ runLock[on[r]] = r /\ markerLock = r
      /\ status[on[r]] = "saved" /\ Release(r) /\ UNCHANGED <<aged, staged, savedAt>>
      /\ ledger' = [ledger EXCEPT ![on[r]] = Nothing] /\ status' = [status EXCEPT ![on[r]] = "gone"]
      /\ clock \in Nat /\ clock' = clock + 1 /\ marker' = clock + 1
  BY DEF ImportInv, TypeOK, RequestInv, Undo, Undoing
<1>1. TypeOK'
  BY <1>0, ReleaseType DEF Released, TypeOK, Nothing
<1>2. ASSUME NEW s \in Requests PROVE RequestInv(s)'
  <2>1. CASE s = r
    BY <1>0, <2>1, ReleaseType DEF Released, RequestInv, Committing, Undoing, Changing
  <2>2. CASE s # r
    <3>1. pc[s] \notin {"saving", "unwinding", "deleting", "changed"}
      BY <1>0, <2>2 DEF ImportInv, RequestInv
    <3>2. pc[s] \in Changing => on[s] # on[r]
      BY <1>0, <2>2 DEF ImportInv, RequestInv, Changing
    <3> QED BY <1>0, <2>2, <3>1, <3>2, ReleaseType
            DEF ImportInv, TypeOK, Released, RequestInv, Committing, Undoing, Changing
  <2> QED BY <2>1, <2>2
<1>3. ASSUME NEW v \in Runs PROVE RunInv(v)'
  BY <1>0, ImportAssumption DEF ImportInv, TypeOK, RunInv
<1> QED BY <1>0, <1>1, <1>2, <1>3 DEF ImportInv

-----------------------------------------------------------------------------
(* Every other write *)

\* A row under change stays there
LEMMA ChangeInv ==
  ASSUME ImportInv, NEW r \in Requests, NEW u \in Runs, NEW i \in Rows, Change(r, u, i) PROVE ImportInv'
<1> USE DEF Change, runRow, data
<1>1. TypeOK'
  BY DEF ImportInv, TypeOK
<1>2. ASSUME NEW s \in Requests PROVE RequestInv(s)'
  BY ImportAssumption DEF ImportInv, TypeOK, RequestInv, Committing, Undoing, Changing
<1>3. ASSUME NEW v \in Runs PROVE RunInv(v)'
  BY DEF ImportInv, RunInv
<1> QED BY <1>1, <1>2, <1>3 DEF ImportInv

\* A change moves the marker past every run saved before
LEMMA FinishChangeInv == ASSUME ImportInv, NEW r \in Requests, FinishChange(r) PROVE ImportInv'
<1>0. PICK result \in {"edited", "absent"} : ledger' = [ledger EXCEPT ![on[r]][item[r]] = result]
  BY DEF FinishChange
<1>1. /\ TypeOK /\ RequestInv(r) /\ pc[r] = "changed" /\ on[r] \in Runs /\ item[r] \in Rows
      /\ rowLock[on[r]][item[r]] = r /\ ledger[on[r]][item[r]] # "absent" /\ markerLock = r
      /\ clock \in Nat /\ (marker # NoStamp => marker < clock) /\ marker' = clock
      /\ Release(r) /\ UNCHANGED <<status, aged, staged, savedAt, clock>>
  BY DEF ImportInv, TypeOK, RequestInv, FinishChange, Changing, runRow
<1>2. TypeOK'
  BY <1>0, <1>1, ReleaseType DEF Released, TypeOK
<1>3. ASSUME NEW s \in Requests PROVE RequestInv(s)'
  <2>1. CASE s = r
    BY <1>1, <2>1, ReleaseType DEF Released, RequestInv, Committing, Undoing, Changing
  <2>2. CASE s # r
    <3>1. pc[s] \notin {"saving", "unwinding", "deleting", "changed"}
      BY <1>1, <2>2 DEF ImportInv, RequestInv
    <3>2. pc[s] \in Changing => on[s] # on[r] \/ item[s] # item[r]
      BY <1>1, <2>2 DEF ImportInv, RequestInv
    <3> QED BY <1>0, <1>1, <2>2, <3>1, <3>2, ReleaseType
            DEF ImportInv, TypeOK, Released, RequestInv, Committing, Undoing, Changing
  <2> QED BY <2>1, <2>2
<1>4. ASSUME NEW v \in Runs PROVE RunInv(v)'
  <2>1. savedAt[v] # NoStamp => savedAt[v] \in Nat /\ savedAt[v] < clock
    BY <1>1 DEF ImportInv, TypeOK, RunInv
  <2>2. ledger[v] = Nothing => v # on[r]
    BY <1>1 DEF Nothing
  <2>3. v # on[r] => ledger'[v] = ledger[v]
    BY <1>0, <1>1 DEF TypeOK
  <2> QED BY <1>1, <2>1, <2>2, <2>3, ImportAssumption DEF ImportInv, TypeOK, RunInv
<1> QED BY <1>1, <1>2, <1>3, <1>4 DEF ImportInv

-----------------------------------------------------------------------------
(* Every step *)

\* Starting a request
LEMMA BeginInv == ASSUME ImportInv, NEW r \in Requests, Begin(r) PROVE ImportInv'
<1>1. PICK u \in Runs : HoldToDrop(r, u) \/ HoldToCommit(r, u) \/ HoldToUndo(r, u) \/ \E i \in Rows : Change(r, u, i)
  BY DEF Begin
<1>2. CASE HoldToDrop(r, u)
  BY <1>2, HoldInv DEF HoldToDrop
<1>3. CASE HoldToCommit(r, u)
  BY <1>3, HoldInv DEF HoldToCommit
<1>4. CASE HoldToUndo(r, u)
  BY <1>4, HoldInv DEF HoldToUndo
<1>5. CASE \E i \in Rows : Change(r, u, i)
  BY <1>5, ChangeInv
<1> QED BY <1>1, <1>2, <1>3, <1>4, <1>5

\* Any step of a handler
LEMMA ProceedInv == ASSUME ImportInv, NEW r \in Requests, Proceed(r) PROVE ImportInv'
<1>1. CASE MarkSaved(r)
  BY <1>1, MarkInv DEF MarkSaved
<1>2. CASE MarkChanged(r)
  BY <1>2, MarkInv DEF MarkChanged
<1>3. CASE RefuseUndo(r)
  BY <1>3, EndingInv DEF RefuseUndo
<1> QED BY <1>1, <1>2, <1>3, DropInv, SaveInv, HoldMarkerInv, HoldWrittenInv, UndoInv, FinishChangeInv DEF Proceed

\* Every step keeps the invariant
LEMMA NextInv == ImportInv /\ [Next]_vars => ImportInv'
<1> SUFFICES ASSUME ImportInv, [Next]_vars PROVE ImportInv'
  OBVIOUS
<1>1. CASE Prune
  BY <1>1, PruneInv
<1>2. CASE \E u \in Runs : Open(u) \/ Age(u) \/ \E batch \in SUBSET Rows \ {{}} : Stage(u, batch)
  BY <1>2, OpenInv, AgeInv, StageInv
<1>3. CASE \E r \in Requests : Begin(r) \/ Proceed(r) \/ Abort(r)
  BY <1>3, BeginInv, ProceedInv, EndingInv DEF Abort
<1>4. CASE UNCHANGED vars
  <2> USE <1>4 DEF vars, runRow, data, locks, request
  <2>1. TypeOK'
    BY DEF ImportInv, TypeOK
  <2>2. ASSUME NEW r \in Requests PROVE RequestInv(r)'
    BY DEF ImportInv, RequestInv
  <2>3. ASSUME NEW u \in Runs PROVE RunInv(u)'
    BY DEF ImportInv, RunInv
  <2> QED BY <2>1, <2>2, <2>3 DEF ImportInv
<1> QED BY <1>1, <1>2, <1>3, <1>4 DEF Next

\* The invariant holds throughout
LEMMA ImportInvariant == Spec => []ImportInv
BY InitInv, NextInv, PTL DEF Spec

\* Every variable of the importer keeps its type.
THEOREM ImportRunTypeOK == Spec => []TypeOK
BY ImportInvariant, PTL DEF ImportInv

\* A run that is missing before it aged left nothing behind (run_commit.py's reading of a missing run).
THEOREM MissingRunsWereUndone == Spec => []MissingMeansUndone
<1>1. ImportInv => MissingMeansUndone
  BY DEF ImportInv, RunInv, MissingMeansUndone
<1> QED BY <1>1, ImportInvariant, PTL

-----------------------------------------------------------------------------
(* A run implements what Imports promises *)

\* A step that changes neither how far a run is nor what it wrote is a stutter
LEMMA Stutters ==
  ASSUME UNCHANGED <<status, ledger>> PROVE UNCHANGED Promised!importVars
BY DEF Promised!importVars, Phase

\* Runs that end without touching the ledger are forgotten
LEMMA Forgets ==
  ASSUME TypeOK, NEW us \in SUBSET Runs, UNCHANGED ledger,
         status' \in [Runs -> {"unused", "open", "saved", "gone"}],
         \A u \in Runs : IF u \in us THEN status'[u] = "gone"
                         ELSE Phase'[u] = Phase[u]
  PROVE  Promised!Forget(us)
<1>1. Phase' = [u \in Runs |-> IF u \in us THEN "over" ELSE Phase[u]]
  BY DEF Phase
<1> QED BY <1>1 DEF Promised!Forget

\* Forgetting is a step of Imports
LEMMA ForgetStep ==
  ASSUME NEW us \in SUBSET Runs, Promised!Forget(us) PROVE Promised!ImportsNext
BY DEF Promised!ImportsNext

\* Opening a run forgets those it prunes
LEMMA OpenMaps == ASSUME ImportInv, NEW u \in Runs, Open(u) PROVE Promised!ImportsNext
<1>1. TypeOK /\ Expired \in SUBSET Runs /\ UNCHANGED ledger
  BY DEF ImportInv, Expired, Open, data
<1>2. status' \in [Runs -> {"unused", "open", "saved", "gone"}]
  BY <1>1 DEF TypeOK, Open
<1>3. \A v \in Runs : IF v \in Expired THEN status'[v] = "gone" ELSE Phase'[v] = Phase[v]
  BY <1>1 DEF TypeOK, Open, Expired, Phase
<1> QED BY <1>1, <1>2, <1>3, Forgets, ForgetStep

\* Pruning forgets
LEMMA PruneMaps == ASSUME ImportInv, Prune PROVE Promised!ImportsNext
<1>1. TypeOK /\ Expired \in SUBSET Runs /\ UNCHANGED ledger
  BY DEF ImportInv, Expired, Prune, data
<1>2. status' \in [Runs -> {"unused", "open", "saved", "gone"}]
  BY <1>1 DEF TypeOK, Prune
<1>3. \A v \in Runs : IF v \in Expired THEN status'[v] = "gone" ELSE Phase'[v] = Phase[v]
  BY <1>1 DEF TypeOK, Prune, Expired, Phase
<1> QED BY <1>1, <1>2, <1>3, Forgets, ForgetStep

\* Discarding a run forgets it
LEMMA DropMaps == ASSUME ImportInv, NEW r \in Requests, Drop(r) PROVE Promised!ImportsNext
<1>1. TypeOK /\ {on[r]} \in SUBSET Runs /\ UNCHANGED ledger
  BY DEF ImportInv, RequestInv, Drop, data
<1>2. status' \in [Runs -> {"unused", "open", "saved", "gone"}]
  BY <1>1 DEF TypeOK, Drop
<1>3. \A v \in Runs : IF v \in {on[r]} THEN status'[v] = "gone" ELSE Phase'[v] = Phase[v]
  BY <1>1 DEF TypeOK, Drop, Phase
<1> QED BY <1>1, <1>2, <1>3, Forgets, ForgetStep

\* An import lands on nothing and whole: the rows counted under the lock are still staged
LEMMA SaveMaps == ASSUME ImportInv, NEW r \in Requests, Save(r) PROVE Promised!ImportsNext
<1>1. /\ TypeOK /\ on[r] \in Runs /\ status[on[r]] = "open" /\ staged[on[r]] = Rows /\ ledger[on[r]] = Nothing
      /\ status' = [status EXCEPT ![on[r]] = "saved"]
      /\ ledger' = [ledger EXCEPT ![on[r]] = [i \in Rows |-> IF i \in staged[on[r]] THEN "imported" ELSE "absent"]]
  BY DEF ImportInv, RequestInv, RunInv, Save, Committing
<1>2. [i \in Rows |-> IF i \in staged[on[r]] THEN "imported" ELSE "absent"] = Promised!Everything
  BY <1>1 DEF Promised!Everything
<1>3. Phase[on[r]] = "pending" /\ Phase' = [Phase EXCEPT ![on[r]] = "landed"]
  BY <1>1 DEF Phase, TypeOK
<1>4. Promised!Land(on[r])
  BY <1>1, <1>2, <1>3 DEF Promised!Land, Promised!Nothing, Nothing
<1> QED BY <1>1, <1>4 DEF Promised!ImportsNext

\* What is undone is still all of it as it was imported
LEMMA UndoMaps == ASSUME ImportInv, NEW r \in Requests, Undo(r) PROVE Promised!ImportsNext
<1>1. /\ TypeOK /\ on[r] \in Runs /\ status[on[r]] = "saved" /\ ledger[on[r]] = Everything
      /\ status' = [status EXCEPT ![on[r]] = "gone"] /\ ledger' = [ledger EXCEPT ![on[r]] = Nothing]
  BY DEF ImportInv, RequestInv, RunInv, Undo, Undoing
<1>2. Phase[on[r]] = "landed" /\ Phase' = [Phase EXCEPT ![on[r]] = "over"]
  BY <1>1 DEF Phase, TypeOK
<1>3. Promised!TakeBack(on[r])
  BY <1>1, <1>2 DEF Promised!TakeBack, Promised!Everything, Everything, Promised!Nothing, Nothing
<1> QED BY <1>1, <1>3 DEF Promised!ImportsNext

\* A change touches one thing that landed
LEMMA FinishChangeMaps == ASSUME ImportInv, NEW r \in Requests, FinishChange(r) PROVE Promised!ImportsNext
<1>1. on[r] \in Runs /\ item[r] \in Rows /\ ledger[on[r]][item[r]] # "absent"
  BY DEF ImportInv, RequestInv, FinishChange, Changing
<1>2. Phase' = Phase
  BY DEF FinishChange, runRow, Phase
<1>3. Promised!Touch(on[r], item[r])
  BY <1>1, <1>2 DEF FinishChange, Promised!Touch
<1> QED BY <1>1, <1>3 DEF Promised!ImportsNext

\* Taking locks is a stutter
LEMMA BeginMaps == ASSUME NEW r \in Requests, Begin(r) PROVE UNCHANGED <<status, ledger>>
BY DEF Begin, HoldToDrop, HoldToCommit, HoldToUndo, Hold, Change, runRow, data

\* A handler's step is a step of Imports or a stutter
LEMMA ProceedMaps ==
  ASSUME ImportInv, NEW r \in Requests, Proceed(r) PROVE Promised!ImportsNext \/ UNCHANGED <<status, ledger>>
<1>1. CASE Drop(r) \/ Save(r) \/ Undo(r) \/ FinishChange(r)
  BY <1>1, DropMaps, SaveMaps, UndoMaps, FinishChangeMaps
<1>2. CASE MarkSaved(r) \/ MarkChanged(r) \/ HoldMarker(r) \/ HoldWritten(r) \/ RefuseUndo(r)
  BY <1>2 DEF MarkSaved, MarkChanged, Mark, HoldMarker, HoldWritten, RefuseUndo, runRow, data
<1> QED BY <1>1, <1>2 DEF Proceed

\* An import lands whole and once or not at all, and is taken back whole and untouched.
THEOREM ImportsImplemented == Spec => ImplementsImports
<1>1. Init => Promised!ImportsInit
  BY DEF Init, Promised!ImportsInit, Promised!Nothing, Nothing, Phase
<1>2. ImportInv /\ [Next]_vars => [Promised!ImportsNext]_(Promised!importVars)
  <2> SUFFICES ASSUME ImportInv, [Next]_vars
               PROVE  Promised!ImportsNext \/ UNCHANGED <<status, ledger>>
    BY Stutters
  <2>1. CASE Prune
    BY <2>1, PruneMaps
  <2>2. CASE \E u \in Runs : Open(u) \/ Age(u) \/ \E batch \in SUBSET Rows \ {{}} : Stage(u, batch)
    BY <2>2, OpenMaps DEF Age, Stage, data
  <2>3. CASE \E r \in Requests : Begin(r) \/ Proceed(r) \/ Abort(r)
    BY <2>3, BeginMaps, ProceedMaps DEF Abort, runRow, data
  <2>4. CASE UNCHANGED vars
    BY <2>4 DEF vars, runRow, data
  <2> QED BY <2>1, <2>2, <2>3, <2>4 DEF Next
<1> QED BY <1>1, <1>2, ImportInvariant, PTL DEF Spec, ImplementsImports, Promised!ImportsSpec

SameDay == "saved" \notin Ageing

-----------------------------------------------------------------------------
(* The page: what keeps a run out of the ledger, and what the page knows *)

\* What keeps a run out of the ledger for good: rows that will not come, a file the importer refuses,
\* or its age, once no handler is past the check of it
Dead(u) ==
  /\ status[u] # "saved"
  /\ \/ staged[u] # Rows
     \/ u \in refused
     \/ aged[u] /\ \A r \in Requests : pc[r] \in Committing => on[r] # u

\* The one run that may be in the ledger, or come there
Current ==
  IF phase \in {"committing", "settling", "done"} THEN run ELSE IF phase = "failed" THEN kept ELSE NoRun

\* What the server says of a run without being asked
ServerInv(u) ==
  /\ status[u] # "open" => staged[u] = {}
  /\ status[u] = "saved" => ~aged[u]
  /\ status[u] # "saved" => ledger[u] = Nothing
  /\ u \in refused => status[u] # "saved" /\ \A r \in Requests : pc[r] = "saving" => on[r] # u

Waiting == phase \in {"committing", "settling"}

\* The latest call is about the run the page waits for, and so is its answer
WireInv ==
  /\ Waiting => sent > 0
  /\ \A c \in calls : c.number <= sent /\ (Waiting /\ c.number = sent => c.run = run)
  /\ \A r \in Requests :
       /\ serving[r] <= sent
       /\ serving[r] # 0 => pc[r] \in {"dropping", "writing", "saving"}
       /\ Waiting /\ serving[r] = sent => on[r] = run

ReplyInv ==
  /\ phase = "committing" /\ reply \in {"missing", "refused"} => Dead(run)
  /\ phase = "settling" /\ reply \in {"dropped", "missing"} => Dead(run)
  /\ Waiting /\ reply = "saved" => savedAt[run] # NoStamp
  /\ phase = "done" => savedAt[run] # NoStamp

\* Runs the page names were opened with answers
NamedInv ==
  /\ phase # "idle" => wanted \in Answers
  /\ phase \in {"committing", "settling", "done"} => run # NoRun
  /\ \A u \in Runs : u \in {run, kept} => status[u] # "unused" /\ sentWith[u] \in Answers

PageInv ==
  /\ PageTypeOK
  /\ NamedInv
  /\ \A u \in Runs : ServerInv(u)
  /\ \A u \in Runs \ {Current} : Dead(u)
  /\ WireInv
  /\ ReplyInv

LEMMA PageInitInv == PageInit => PageInv
<1> SUFFICES ASSUME PageInit PROVE PageInv
  OBVIOUS
<1> USE PageAssumption, ImportAssumption DEF PageInit, Init
<1>1. PageTypeOK
  BY DEF PageTypeOK
<1>2. NamedInv
  BY DEF NamedInv
<1>3. \A u \in Runs : ServerInv(u)
  BY DEF ServerInv
<1>4. \A u \in Runs : Dead(u)
  BY DEF Dead
<1>5. WireInv
  BY DEF WireInv, Waiting
<1>6. ReplyInv
  BY DEF ReplyInv, Waiting
<1> QED BY <1>1, <1>2, <1>3, <1>4, <1>5, <1>6 DEF PageInv

-----------------------------------------------------------------------------
(* The server's steps are those of ImportRun, and none revives a run *)

Keeps ==
  /\ \A u \in Runs : ServerInv(u)'
  /\ \A u \in Runs : Dead(u) => Dead(u)'
  /\ \A u \in Runs : (status[u] # "unused" => status'[u] # "unused") /\ (savedAt[u] # NoStamp => savedAt'[u] # NoStamp)

LEMMA NothingKeeps ==
  ASSUME \A u \in Runs : ServerInv(u), UNCHANGED <<vars, refused>> PROVE Keeps
BY DEF vars, runRow, data, locks, request, ServerInv, Dead, Keeps

LEMMA OpenKeeps ==
  ASSUME ImportInv, \A u \in Runs : ServerInv(u), NEW v \in Runs, Open(v), UNCHANGED refused
  PROVE  Keeps
<1> USE DEF Open, data, request
<1>1. ASSUME NEW u \in Runs PROVE ServerInv(u)'
  BY DEF ImportInv, TypeOK, ServerInv, Expired
<1>2. ASSUME NEW u \in Runs, Dead(u) PROVE Dead(u)'
  BY <1>2, PageAssumption DEF ImportInv, TypeOK, ServerInv, Dead, Expired
<1>3. \A u \in Runs : (status[u] # "unused" => status'[u] # "unused") /\ savedAt'[u] = savedAt[u]
  BY DEF ImportInv, TypeOK
<1> QED BY <1>1, <1>2, <1>3 DEF Keeps

LEMMA PruneKeeps ==
  ASSUME ImportInv, \A u \in Runs : ServerInv(u), Prune, UNCHANGED refused PROVE Keeps
<1> USE DEF Prune, data, request
<1>1. ASSUME NEW u \in Runs PROVE ServerInv(u)'
  BY DEF ImportInv, TypeOK, ServerInv, Expired
<1>2. ASSUME NEW u \in Runs, Dead(u) PROVE Dead(u)'
  BY <1>2, PageAssumption DEF ImportInv, TypeOK, ServerInv, Dead, Expired
<1>3. \A u \in Runs : (status[u] # "unused" => status'[u] # "unused") /\ savedAt'[u] = savedAt[u]
  BY DEF ImportInv, TypeOK
<1> QED BY <1>1, <1>2, <1>3 DEF Keeps

LEMMA AgeKeeps ==
  ASSUME ImportInv, \A u \in Runs : ServerInv(u), NEW v \in Runs, Age(v), status[v] # "saved", UNCHANGED refused
  PROVE  Keeps
<1> USE DEF Age, data, request
<1>1. ASSUME NEW u \in Runs PROVE ServerInv(u)'
  BY DEF ImportInv, TypeOK, ServerInv
<1>2. ASSUME NEW u \in Runs, Dead(u) PROVE Dead(u)'
  BY <1>2 DEF ImportInv, TypeOK, Dead
<1> QED BY <1>1, <1>2 DEF Keeps

\* A batch revives at most the run it completes
LEMMA StageKeeps ==
  ASSUME ImportInv, \A u \in Runs : ServerInv(u), NEW v \in Runs, NEW batch \in SUBSET Rows, Stage(v, batch), UNCHANGED refused
  PROVE  /\ \A u \in Runs : ServerInv(u)'
         /\ \A u \in Runs : u # v /\ Dead(u) => Dead(u)'
         /\ staged'[v] # Rows => Dead(v)'
         /\ status' = status
<1> USE DEF Stage, data, request, ImportInv, TypeOK
<1>1. ASSUME NEW u \in Runs PROVE ServerInv(u)'
  BY DEF ServerInv
<1>2. ASSUME NEW u \in Runs, u # v, Dead(u) PROVE Dead(u)'
  BY <1>2 DEF Dead
<1>3. staged'[v] # Rows => Dead(v)'
  BY DEF Dead
<1> QED BY <1>1, <1>2, <1>3

\* A commit is taken up only of a run that is complete and has not aged
LEMMA HoldKeeps ==
  ASSUME ImportInv, \A u \in Runs : ServerInv(u), NEW r \in Requests, NEW v \in Runs, UNCHANGED refused,
         HoldToCommit(r, v) \/ HoldToDrop(r, v) \/ HoldToUndo(r, v)
  PROVE  Keeps
<1>1. /\ UNCHANGED <<status, aged, staged, savedAt, ledger>>
      /\ pc[r] = "idle" /\ pc'[r] # "saving" /\ on'[r] = v
      /\ pc'[r] \in Committing => ~aged[v]
      /\ \A s \in Requests \ {r} : pc'[s] = pc[s] /\ on'[s] = on[s]
  BY DEF HoldToCommit, HoldToDrop, HoldToUndo, Hold, runRow, data, ImportInv, TypeOK, Committing
<1>2. ASSUME NEW u \in Runs PROVE ServerInv(u)'
  BY <1>1 DEF ServerInv
<1>3. ASSUME NEW u \in Runs, Dead(u) PROVE Dead(u)'
  BY <1>1, <1>3 DEF Dead
<1> QED BY <1>1, <1>2, <1>3 DEF Keeps

\* The importer's writing ends only for a file it takes
LEMMA MarkKeeps ==
  ASSUME ImportInv, \A u \in Runs : ServerInv(u), NEW r \in Requests, MarkSaved(r), on[r] \notin refused, UNCHANGED refused
  PROVE  Keeps
<1>1. /\ UNCHANGED <<status, aged, staged, savedAt, ledger, on>> /\ pc[r] = "writing"
      /\ \A s \in Requests \ {r} : pc'[s] = pc[s]
  BY DEF MarkSaved, Mark, runRow, data, ImportInv, TypeOK
<1>2. ASSUME NEW u \in Runs PROVE ServerInv(u)'
  BY <1>1 DEF ServerInv
<1>3. ASSUME NEW u \in Runs, Dead(u) PROVE Dead(u)'
  BY <1>1, <1>3 DEF Dead, Committing
<1> QED BY <1>1, <1>2, <1>3 DEF Keeps

\* The steps of an undo before it deletes
LEMMA UndoingKeeps ==
  ASSUME ImportInv, \A u \in Runs : ServerInv(u), NEW r \in Requests, HoldMarker(r) \/ HoldWritten(r), UNCHANGED refused
  PROVE  Keeps
<1>1. /\ UNCHANGED <<status, aged, staged, savedAt, ledger, on>> /\ pc'[r] \in {"unwinding", "deleting"}
      /\ \A s \in Requests \ {r} : pc'[s] = pc[s]
  BY DEF HoldMarker, HoldWritten, runRow, data, ImportInv, TypeOK
<1>2. ASSUME NEW u \in Runs PROVE ServerInv(u)'
  BY <1>1 DEF ServerInv
<1>3. ASSUME NEW u \in Runs, Dead(u) PROVE Dead(u)'
  BY <1>1, <1>3 DEF Dead, Committing
<1> QED BY <1>1, <1>2, <1>3 DEF Keeps

\* Ending a handler leaves the others where they are
LEMMA ReleaseLeaves ==
  ASSUME ImportInv, NEW r \in Requests, Release(r)
  PROVE  pc'[r] = "idle" /\ \A s \in Requests \ {r} : pc'[s] = pc[s] /\ on'[s] = on[s]
BY DEF Release, ImportInv, TypeOK

\* A handler that ends without a change, refusing the file if it was writing it
LEMMA EndKeeps ==
  ASSUME ImportInv, \A u \in Runs : ServerInv(u), NEW r \in Requests, Release(r), UNCHANGED <<runRow, data>>,
         refused' = refused \/ (pc[r] = "writing" /\ refused' = refused \union {on[r]})
  PROVE  Keeps
<1>1. UNCHANGED <<status, aged, staged, savedAt, ledger>>
  BY DEF runRow, data
<1>2. ASSUME pc[r] = "writing", NEW s \in Requests, pc[s] = "saving" PROVE on[s] # on[r] /\ status[on[r]] = "open"
  BY <1>2 DEF ImportInv, RequestInv, Committing
<1>3. pc[r] = "writing" => status[on[r]] = "open"
  BY DEF ImportInv, RequestInv, Committing
<1>4. ASSUME NEW u \in Runs PROVE ServerInv(u)'
  BY <1>1, <1>2, <1>3, ReleaseLeaves DEF ServerInv
<1>5. ASSUME NEW u \in Runs, Dead(u) PROVE Dead(u)'
  BY <1>1, <1>5, ReleaseLeaves DEF Dead, Committing
<1> QED BY <1>1, <1>4, <1>5 DEF Keeps

\* What is saved was complete, taken by the importer and watched over by its handler
LEMMA SaveKeeps ==
  ASSUME ImportInv, \A u \in Runs : ServerInv(u), NEW r \in Requests, Save(r), UNCHANGED refused
  PROVE  Keeps /\ savedAt'[on[r]] # NoStamp
<1>1. /\ TypeOK /\ Release(r) /\ pc[r] = "saving" /\ on[r] \in Runs /\ status[on[r]] = "open" /\ staged[on[r]] = Rows
      /\ stamp[r] \in Nat
      /\ status' = [status EXCEPT ![on[r]] = "saved"] /\ aged' = [aged EXCEPT ![on[r]] = FALSE]
      /\ savedAt' = [savedAt EXCEPT ![on[r]] = stamp[r]] /\ staged' = [staged EXCEPT ![on[r]] = {}]
      /\ \A u \in Runs \ {on[r]} : ledger'[u] = ledger[u]
  BY DEF ImportInv, TypeOK, RequestInv, Save, Committing
<1>2. \A s \in Requests \ {r} : pc[s] = "saving" => on[s] # on[r]
  BY DEF ImportInv, RequestInv, Committing, Save
<1>3. ~Dead(on[r]) /\ on[r] \notin refused
  BY <1>1 DEF Dead, ServerInv, Committing
<1>4. /\ status'[on[r]] = "saved" /\ ~aged'[on[r]] /\ staged'[on[r]] = {} /\ savedAt'[on[r]] = stamp[r]
      /\ \A u \in Runs \ {on[r]} : /\ status'[u] = status[u] /\ aged'[u] = aged[u] /\ staged'[u] = staged[u]
                                   /\ savedAt'[u] = savedAt[u] /\ ledger'[u] = ledger[u]
      /\ pc'[r] = "idle" /\ \A s \in Requests \ {r} : pc'[s] = pc[s] /\ on'[s] = on[s]
  BY <1>1, ReleaseLeaves DEF TypeOK
<1>5. ASSUME NEW u \in Runs PROVE ServerInv(u)'
  BY <1>2, <1>3, <1>4 DEF ServerInv
<1>6. ASSUME NEW u \in Runs, Dead(u) PROVE Dead(u)'
  BY <1>3, <1>4, <1>6 DEF Dead, Committing
<1>7. savedAt'[on[r]] # NoStamp
  BY <1>1, <1>4, ImportAssumption
<1>8. \A u \in Runs : (status[u] # "unused" => status'[u] # "unused") /\ (savedAt[u] # NoStamp => savedAt'[u] # NoStamp)
  BY <1>4, <1>7
<1> QED BY <1>5, <1>6, <1>7, <1>8 DEF Keeps

\* A dropped run has no rows left and gets none
LEMMA DropKeeps ==
  ASSUME ImportInv, \A u \in Runs : ServerInv(u), NEW r \in Requests, Drop(r), UNCHANGED refused
  PROVE  Keeps /\ \A u \in Runs : u = on[r] => Dead(u)'
<1>1. /\ TypeOK /\ Release(r) /\ on[r] \in Runs /\ status[on[r]] = "open"
      /\ status' = [status EXCEPT ![on[r]] = "gone"] /\ staged' = [staged EXCEPT ![on[r]] = {}]
      /\ UNCHANGED <<aged, savedAt, ledger>>
  BY DEF ImportInv, TypeOK, RequestInv, Drop, data
<1>2. /\ status'[on[r]] = "gone" /\ staged'[on[r]] = {}
      /\ \A u \in Runs \ {on[r]} : status'[u] = status[u] /\ staged'[u] = staged[u]
      /\ pc'[r] = "idle" /\ \A s \in Requests \ {r} : pc'[s] = pc[s] /\ on'[s] = on[s]
  BY <1>1, ReleaseLeaves DEF TypeOK
<1>3. ASSUME NEW u \in Runs PROVE ServerInv(u)'
  BY <1>1, <1>2 DEF ServerInv
<1>4. ASSUME NEW u \in Runs, u = on[r] PROVE Dead(u)'
  BY <1>2, <1>4, PageAssumption DEF Dead
<1>5. ASSUME NEW u \in Runs, Dead(u) PROVE Dead(u)'
  BY <1>1, <1>2, <1>4, <1>5 DEF Dead, Committing
<1>6. \A u \in Runs : (status[u] # "unused" => status'[u] # "unused") /\ savedAt'[u] = savedAt[u]
  BY <1>1, <1>2
<1> QED BY <1>3, <1>4, <1>5, <1>6 DEF Keeps

\* An undone run is gone for good
LEMMA UndoKeeps ==
  ASSUME ImportInv, \A u \in Runs : ServerInv(u), NEW r \in Requests, Undo(r), UNCHANGED refused
  PROVE  Keeps
<1>1. /\ TypeOK /\ Release(r) /\ on[r] \in Runs /\ status[on[r]] = "saved"
      /\ status' = [status EXCEPT ![on[r]] = "gone"] /\ ledger' = [ledger EXCEPT ![on[r]] = Nothing]
      /\ UNCHANGED <<aged, savedAt, staged>>
  BY DEF ImportInv, TypeOK, RequestInv, Undo, Undoing
<1>2. /\ status'[on[r]] = "gone" /\ ledger'[on[r]] = Nothing
      /\ \A u \in Runs \ {on[r]} : status'[u] = status[u] /\ ledger'[u] = ledger[u]
      /\ pc'[r] = "idle" /\ \A s \in Requests \ {r} : pc'[s] = pc[s] /\ on'[s] = on[s]
  BY <1>1, ReleaseLeaves DEF TypeOK
<1>3. ASSUME NEW u \in Runs PROVE ServerInv(u)'
  BY <1>1, <1>2 DEF ServerInv
<1>4. ASSUME NEW u \in Runs, Dead(u) PROVE Dead(u)'
  BY <1>1, <1>2, <1>4 DEF Dead, Committing
<1>5. \A u \in Runs : (status[u] # "unused" => status'[u] # "unused") /\ savedAt'[u] = savedAt[u]
  BY <1>1, <1>2
<1> QED BY <1>3, <1>4, <1>5 DEF Keeps

-----------------------------------------------------------------------------
(* What the page sends, hears and concludes *)

\* The handlers that answer the page are where they were, or went on to save
Serves == \A r \in Requests : serving[r] # 0 => pc'[r] \in {"dropping", "writing", "saving"} /\ on'[r] = on[r]

\* The run the page waits for is one of its runs
LEMMA RunIsNamed == ASSUME PageInv, phase \in {"committing", "settling", "done"} PROVE run \in Runs
BY DEF PageInv, PageTypeOK, NamedInv

\* The server moves without the page
LEMMA ApartInv == ASSUME PageInv, Keeps, UNCHANGED pageVars, Serves PROVE PageInv'
<1> USE DEF pageVars, attempt, wire
<1>1. PageTypeOK'
  BY DEF PageInv, PageTypeOK
<1>2. NamedInv'
  BY DEF PageInv, PageTypeOK, NamedInv, Keeps
<1>3. \A u \in Runs \ {Current'} : Dead(u)'
  BY DEF PageInv, Keeps, Current
<1>4. WireInv'
  BY ImportAssumption DEF PageInv, PageTypeOK, WireInv, Waiting, Serves
<1>5. ReplyInv'
  BY RunIsNamed DEF PageInv, ReplyInv, Keeps, Waiting
<1> QED BY <1>1, <1>2, <1>3, <1>4, <1>5 DEF PageInv, Keeps

\* A call of the page and the state of the server it finds
Stays == \A r \in Requests : pc'[r] = pc[r] /\ on'[r] = on[r]

\* A call names the run the page then waits for
LEMMA SendInv ==
  ASSUME PageInv, Stays, NEW kind, NEW u \in Runs, Send(kind, u), Waiting' => run' = u
  PROVE  WireInv' /\ sent' # 0 /\ reply' = NoReply
<1>1. /\ sent \in Nat /\ sent' = sent + 1 /\ UNCHANGED serving
      /\ calls' = calls \union {[kind |-> kind, run |-> u, number |-> sent + 1]}
      /\ \A c \in calls : c.number \in Nat /\ c.number <= sent
      /\ \A r \in Requests : serving[r] \in Nat /\ serving[r] <= sent
  BY PageAssumption DEF PageInv, PageTypeOK, WireInv, Send
<1>2. \A c \in calls' : c.number <= sent' /\ (Waiting' /\ c.number = sent' => c.run = run')
  BY <1>1
<1>3. ASSUME NEW r \in Requests PROVE serving[r] <= sent' /\ serving[r] # sent'
  BY <1>1
<1>4. \A r \in Requests : serving[r] # 0 => pc'[r] \in {"dropping", "writing", "saving"}
  BY DEF PageInv, WireInv, Stays
<1> QED BY <1>1, <1>2, <1>3, <1>4 DEF WireInv, Send

\* The types of the wire after a call
LEMMA SendType ==
  ASSUME PageInv, NEW kind \in {"commit", "delete"}, NEW u \in Runs, Send(kind, u)
  PROVE  /\ calls' \subseteq [kind : {"commit", "delete"}, run : Runs, number : 1..MaxCalls]
         /\ sent' \in 0..MaxCalls /\ serving' \in [Requests -> 0..MaxCalls] /\ reply' = NoReply
<1>1. sent + 1 \in 1..MaxCalls /\ sent + 1 \in 0..MaxCalls
  BY PageAssumption DEF PageInv, PageTypeOK, Send
<1> QED BY <1>1 DEF PageInv, PageTypeOK, Send

\* A page that waits no longer, or goes on waiting, needs no more of the wire
LEMMA SilentInv ==
  ASSUME PageInv, Stays, Silent, Waiting' => Waiting /\ run' = run
  PROVE  WireInv'
BY DEF PageInv, WireInv, Silent, Stays, Waiting

\* A step of the page alone leaves the server be
LEMMA AloneKeeps ==
  ASSUME PageInv, UNCHANGED <<vars, refused>> PROVE Keeps /\ Stays
BY NothingKeeps DEF PageInv, vars, request, Stays

\* A new attempt uploads only when nothing is kept, and else is about the kept run
LEMMA StartInv == ASSUME PageInv, NEW a \in Answers, Start(a) PROVE PageInv'
<1>1. Keeps /\ Stays /\ UNCHANGED <<kept, keptWith, sentWith, refused>> /\ wanted' = a
  BY AloneKeeps DEF Start
<1>2. CASE phase' = "uploading" /\ kept = NoRun /\ run' = NoRun /\ Silent
  <2>1. PageTypeOK'
    BY <1>1, <1>2 DEF PageInv, PageTypeOK, Silent
  <2>2. NamedInv'
    BY <1>1, <1>2, ImportAssumption DEF PageInv, NamedInv
  <2>3. \A u \in Runs \ {Current'} : Dead(u)'
    BY <1>1, <1>2, ImportAssumption DEF PageInv, Keeps, Current, Start
  <2>4. WireInv' /\ ReplyInv'
    BY <1>1, <1>2, SilentInv DEF Waiting, ReplyInv
  <2> QED BY <1>1, <2>1, <2>2, <2>3, <2>4 DEF PageInv, Keeps
<1>3. CASE phase' \in {"committing", "settling"} /\ kept # NoRun /\ run' = kept /\ \E kind \in {"commit", "delete"} : Send(kind, kept)
  <2>1. PICK u \in Runs : u = kept
    BY <1>3 DEF PageInv, PageTypeOK
  <2>2. PICK kind \in {"commit", "delete"} : Send(kind, u)
    BY <1>3, <2>1
  <2>3. PageTypeOK'
    BY <1>1, <1>3, <2>2, SendType DEF PageInv, PageTypeOK
  <2>4. NamedInv'
    BY <1>1, <1>3, ImportAssumption DEF PageInv, NamedInv, Keeps
  <2>5. \A v \in Runs \ {Current'} : Dead(v)'
    BY <1>1, <1>3, ImportAssumption DEF PageInv, Keeps, Current, Start
  <2>6. WireInv' /\ reply' = NoReply
    BY <1>1, <1>3, <2>1, <2>2, SendInv
  <2>7. ReplyInv'
    BY <1>3, <2>6, PageAssumption DEF ReplyInv
  <2> QED BY <1>1, <2>3, <2>4, <2>5, <2>6, <2>7 DEF PageInv, Keeps
<1> QED BY <1>2, <1>3 DEF Start

\* Opening a run, whether or not the page hears of it
LEMMA OpenApart ==
  ASSUME ImportInv, PageInv, NEW u \in Runs, Open(u), UNCHANGED refused PROVE Keeps /\ Stays
BY OpenKeeps DEF PageInv, Open, request, Stays

\* The new run is none of those the page keeps
LEMMA OpenRunInv == ASSUME ImportInv, PageInv, NEW u \in Runs, OpenRun(u) PROVE PageInv'
<1> USE DEF wire
<1>1. /\ Keeps /\ Stays /\ phase = "uploading" /\ run' = u
      /\ UNCHANGED <<phase, wanted, kept, keptWith, refused, wire>> /\ wanted \in Answers
  BY OpenApart DEF OpenRun, PageInv, NamedInv
<1>2. status[u] = "unused" /\ status'[u] = "open" /\ kept # u
  BY DEF OpenRun, Open, PageInv, NamedInv
<1>3. /\ sentWith \in [Runs -> Answers \union {NoAnswers}]
      /\ sentWith' = [sentWith EXCEPT ![u] = wanted] /\ sentWith' \in [Runs -> Answers \union {NoAnswers}]
  BY <1>1 DEF OpenRun, PageInv, PageTypeOK
<1>4. PageTypeOK'
  BY <1>1, <1>2, <1>3 DEF PageInv, PageTypeOK
<1>5. NamedInv'
  BY <1>1, <1>2, <1>3 DEF PageInv, NamedInv, Keeps
<1>6. \A v \in Runs \ {Current'} : Dead(v)'
  BY <1>1, ImportAssumption DEF PageInv, Keeps, Current
<1>7. WireInv' /\ ReplyInv'
  BY <1>1 DEF PageInv, WireInv, ReplyInv, Waiting, Stays
<1> QED BY <1>1, <1>4, <1>5, <1>6, <1>7 DEF PageInv, Keeps

\* The last batch makes the run the one that may be saved
LEMMA StageRowsInv ==
  ASSUME ImportInv, PageInv, NEW batch \in SUBSET Rows, StageRows(batch) PROVE PageInv'
<1>1. PICK u \in Runs : u = run
  BY DEF StageRows, PageInv, PageTypeOK
<1>2. /\ phase = "uploading" /\ Stage(u, batch) /\ UNCHANGED <<wanted, run, kept, keptWith, sentWith, refused>>
      /\ Stays
  BY <1>1 DEF StageRows, Stage, request, Stays
<1>3. /\ \A v \in Runs : ServerInv(v)'
      /\ \A v \in Runs \ {u} : Dead(v)'
      /\ staged'[u] # Rows => Dead(u)'
      /\ status' = status
  BY <1>2, StageKeeps, ImportAssumption DEF PageInv, Current
<1>4. NamedInv'
  BY <1>1, <1>2, <1>3, ImportAssumption DEF PageInv, NamedInv, StageRows
<1>5. CASE staged'[u] = Rows
  <2>1. phase' = "committing" /\ Send("commit", u)
    BY <1>1, <1>5 DEF StageRows
  <2>2. PageTypeOK'
    BY <1>2, <2>1, SendType DEF PageInv, PageTypeOK
  <2>3. \A v \in Runs \ {Current'} : Dead(v)'
    BY <1>1, <1>2, <1>3, <2>1 DEF Current
  <2>4. WireInv' /\ reply' = NoReply
    BY <1>1, <1>2, <2>1, SendInv
  <2>5. ReplyInv'
    BY <2>1, <2>4, PageAssumption DEF ReplyInv, Waiting
  <2> QED BY <1>3, <1>4, <2>2, <2>3, <2>4, <2>5 DEF PageInv
<1>6. CASE staged'[u] # Rows
  <2>1. UNCHANGED <<phase, wire>>
    BY <1>1, <1>6 DEF StageRows
  <2>2. PageTypeOK'
    BY <1>2, <2>1 DEF PageInv, PageTypeOK, wire
  <2>3. \A v \in Runs : Dead(v)'
    BY <1>3, <1>6
  <2>4. WireInv' /\ ReplyInv'
    BY <1>2, <2>1 DEF PageInv, WireInv, ReplyInv, Waiting, Stays, wire
  <2> QED BY <1>3, <1>4, <2>2, <2>3, <2>4 DEF PageInv
<1> QED BY <1>5, <1>6

\* An attempt that ends keeps a run it was sent with answers for
LEMMA FailInv ==
  ASSUME PageInv, phase # "idle", Keeps, NEW u, u \in {NoRun, run}, Fail(u), \A v \in Runs \ {u} : Dead(v),
         WireInv',
         /\ calls' \subseteq [kind : {"commit", "delete"}, run : Runs, number : 1..MaxCalls]
         /\ sent' \in 0..MaxCalls /\ serving' \in [Requests -> 0..MaxCalls] /\ reply' = NoReply
  PROVE  PageInv'
<1>1. phase' = "failed" /\ kept' = u /\ keptWith' = (IF u = NoRun THEN NoAnswers ELSE sentWith[u])
      /\ UNCHANGED <<wanted, run, sentWith, refused>>
  BY DEF Fail
<1>2. u # NoRun => u \in Runs /\ sentWith[u] \in Answers
  BY DEF PageInv, PageTypeOK, NamedInv
<1>3. PageTypeOK'
  BY <1>1, <1>2, PageAssumption DEF PageInv, PageTypeOK
<1>4. NamedInv'
  BY <1>1, <1>2, ImportAssumption DEF PageInv, NamedInv, Keeps
<1>5. \A v \in Runs \ {Current'} : Dead(v)'
  BY <1>1 DEF Keeps, Current
<1>6. ReplyInv'
  BY <1>1 DEF ReplyInv, Waiting
<1> QED BY <1>3, <1>4, <1>5, <1>6 DEF PageInv, Keeps

\* The types of the wire after a step without a call
LEMMA SilentType ==
  ASSUME PageInv, Silent
  PROVE  /\ calls' \subseteq [kind : {"commit", "delete"}, run : Runs, number : 1..MaxCalls]
         /\ sent' \in 0..MaxCalls /\ serving' \in [Requests -> 0..MaxCalls] /\ reply' = NoReply
BY DEF PageInv, PageTypeOK, Silent

\* Nothing the page uploaded so far can still be saved
LEMMA UploadFailsInv == ASSUME ImportInv, PageInv, UploadFails PROVE PageInv'
<1>1. phase = "uploading" /\ Fail(NoRun) /\ phase' = "failed" /\ ~Waiting' /\ refused' = refused
  BY DEF UploadFails, Fail, Waiting
<1>2. \A v \in Runs \ {NoRun} : Dead(v)
  BY <1>1 DEF PageInv, Current
<1>3. CASE run = NoRun /\ Silent /\ (UNCHANGED vars \/ \E u \in Runs : Open(u))
  <2>1. Keeps /\ Stays
    BY <1>1, <1>3, AloneKeeps, OpenApart
  <2> QED BY <1>1, <1>2, <1>3, <2>1, SilentInv, SilentType, FailInv
<1>4. CASE run # NoRun /\ Send("delete", run) /\ UNCHANGED vars
  <2>1. PICK u \in Runs : u = run
    BY <1>4 DEF PageInv, PageTypeOK
  <2>2. Keeps /\ Stays
    BY <1>1, <1>4, AloneKeeps
  <2>3. Send("delete", u)
    BY <1>4, <2>1
  <2>4. WireInv'
    BY <1>1, <2>2, <2>3, SendInv
  <2> QED BY <1>1, <1>2, <2>2, <2>3, <2>4, SendType, FailInv
<1> QED BY <1>3, <1>4 DEF UploadFails

\* An interrupted save stays kept
LEMMA InterruptedInv == ASSUME PageInv, Interrupted PROVE PageInv'
<1>1. Waiting /\ Fail(run) /\ Silent /\ phase' = "failed" /\ ~Waiting' /\ phase # "idle"
  BY DEF Interrupted, Fail, Waiting
<1>2. Keeps /\ Stays
  BY AloneKeeps DEF Interrupted, Fail
<1>3. \A v \in Runs \ {run} : Dead(v)
  BY <1>1 DEF PageInv, Current, Waiting
<1> QED BY <1>1, <1>2, <1>3, SilentInv, SilentType, FailInv

\* Only a refusal that is final lets the upload go
LEMMA CommitAnsweredInv == ASSUME PageInv, CommitAnswered PROVE PageInv'
<1>1. /\ Keeps /\ Stays /\ phase = "committing" /\ phase # "idle" /\ refused' = refused
      /\ \A v \in Runs \ {run} : Dead(v)
  BY AloneKeeps DEF CommitAnswered, Fail, PageInv, Current
<1>2. CASE reply = "saved" /\ phase' = "done" /\ kept' = NoRun /\ keptWith' = NoAnswers /\ Silent
           /\ UNCHANGED <<wanted, run, sentWith, refused>>
  <2>1. PageTypeOK'
    BY <1>2, SilentType DEF PageInv, PageTypeOK
  <2>2. NamedInv'
    BY <1>1, <1>2, ImportAssumption DEF PageInv, NamedInv, Keeps
  <2>3. \A v \in Runs \ {Current'} : Dead(v)'
    BY <1>1, <1>2 DEF Keeps, Current
  <2>4. WireInv'
    BY <1>1, <1>2, SilentInv DEF Waiting
  <2>5. ReplyInv'
    BY <1>1, <1>2, RunIsNamed DEF PageInv, ReplyInv, Waiting, Keeps
  <2> QED BY <1>1, <2>1, <2>2, <2>3, <2>4, <2>5 DEF PageInv, Keeps
<1>3. CASE reply \in {"missing", "refused"} /\ Fail(NoRun) /\ Send("delete", run)
  <2>1. PICK u \in Runs : u = run
    BY <1>1, RunIsNamed
  <2>2. Send("delete", u) /\ ~Waiting'
    BY <1>3, <2>1 DEF Fail, Waiting
  <2>3. \A v \in Runs : Dead(v)
    BY <1>1, <1>3 DEF PageInv, ReplyInv
  <2>4. WireInv'
    BY <1>1, <2>2, SendInv
  <2> QED BY <1>1, <1>3, <2>2, <2>3, <2>4, SendType, FailInv
<1>4. CASE reply = "busy" /\ Fail(run) /\ Silent
  <2>1. WireInv'
    BY <1>1, <1>4, SilentInv DEF Fail, Waiting
  <2> QED BY <1>1, <1>4, <2>1, SilentType, FailInv
<1> QED BY <1>2, <1>3, <1>4 DEF CommitAnswered

\* Only an upload that will never be saved lets the next one go ahead
LEMMA SettledInv == ASSUME PageInv, Settled PROVE PageInv'
<1>1. /\ Keeps /\ Stays /\ phase = "settling" /\ phase # "idle" /\ refused' = refused
      /\ \A v \in Runs \ {run} : Dead(v)
  BY AloneKeeps DEF Settled, Fail, PageInv, Current
<1>2. CASE reply = "saved" /\ phase' = "committing" /\ Send("commit", run)
           /\ UNCHANGED <<wanted, run, kept, keptWith, sentWith, refused>>
  <2>1. PICK u \in Runs : u = run
    BY <1>1, RunIsNamed
  <2>2. Send("commit", u)
    BY <1>2, <2>1
  <2>3. PageTypeOK'
    BY <1>2, <2>2, SendType DEF PageInv, PageTypeOK
  <2>4. NamedInv'
    BY <1>1, <1>2 DEF PageInv, NamedInv, Keeps
  <2>5. \A v \in Runs \ {Current'} : Dead(v)'
    BY <1>1, <1>2 DEF Keeps, Current
  <2>6. WireInv' /\ reply' = NoReply
    BY <1>1, <1>2, <2>1, <2>2, SendInv
  <2>7. ReplyInv'
    BY <1>2, <2>6, PageAssumption DEF ReplyInv
  <2> QED BY <1>1, <2>3, <2>4, <2>5, <2>6, <2>7 DEF PageInv, Keeps
<1>3. CASE reply \in {"dropped", "missing"} /\ phase' = "uploading" /\ run' = NoRun /\ Silent
           /\ UNCHANGED <<wanted, kept, keptWith, sentWith, refused>>
  <2>1. PageTypeOK'
    BY <1>3, SilentType DEF PageInv, PageTypeOK
  <2>2. NamedInv'
    BY <1>1, <1>3, ImportAssumption DEF PageInv, NamedInv, Keeps
  <2>3. \A v \in Runs : Dead(v)'
    BY <1>1, <1>3 DEF PageInv, ReplyInv, Keeps
  <2>4. WireInv' /\ ReplyInv'
    BY <1>1, <1>3, SilentInv DEF Waiting, ReplyInv
  <2> QED BY <1>1, <2>1, <2>2, <2>3, <2>4 DEF PageInv, Keeps
<1>4. CASE reply = "busy" /\ Fail(run) /\ Silent
  <2>1. WireInv'
    BY <1>1, <1>4, SilentInv DEF Fail, Waiting
  <2> QED BY <1>1, <1>4, <2>1, SilentType, FailInv
<1> QED BY <1>2, <1>3, <1>4 DEF Settled

-----------------------------------------------------------------------------
(* The server's answers *)

\* What an answer says of the run it is about
Truthful(code, u) ==
  /\ code \in {"dropped", "missing", "refused"} => Dead(u)
  /\ code = "saved" => savedAt[u] # NoStamp

\* An answer is heard only by the call the page waits for
LEMMA HeardInv ==
  ASSUME ImportInv, PageInv, Keeps, UNCHANGED <<phase, run>>, NEW number, NEW code, Answer(number, code),
         Waiting /\ number = sent => Truthful(code, run)'
  PROVE  ReplyInv'
<1>1. CASE Waiting /\ number = sent
  BY <1>1, RunIsNamed DEF PageInv, ReplyInv, Keeps, Waiting, Answer, Truthful
<1>2. CASE ~(Waiting /\ number = sent)
  BY <1>2, RunIsNamed DEF PageInv, ReplyInv, Keeps, Waiting, Answer
<1> QED BY <1>1, <1>2

\* A refusal at once says how the run stands
LEMMA RefusalTruthful ==
  ASSUME ImportInv, PageInv, NEW c \in calls, Refusal(c) # NoReply
  PROVE  Truthful(Refusal(c), c.run) /\ Refusal(c) \in {"saved", "missing", "refused", "busy"}
<1>1. c.run \in Runs /\ ServerInv(c.run)
  BY DEF PageInv, PageTypeOK
<1>2. runLock[c.run] = NoRequest => \A r \in Requests : pc[r] \in Committing => on[r] # c.run
  BY ImportAssumption DEF ImportInv, RequestInv
<1>3. CASE runLock[c.run] # NoRequest
  <2>1. Refusal(c) = "busy"
    BY <1>3 DEF Refusal
  <2> QED BY <2>1 DEF Truthful
<1>4. CASE runLock[c.run] = NoRequest /\ status[c.run] = "saved"
  <2>1. Refusal(c) = "saved"
    BY <1>4 DEF Refusal
  <2>2. savedAt[c.run] # NoStamp
    BY <1>1, <1>4, ImportAssumption DEF ImportInv, TypeOK
  <2> QED BY <2>1, <2>2 DEF Truthful
<1>5. CASE runLock[c.run] = NoRequest /\ status[c.run] = "gone"
  <2>1. Refusal(c) = "missing"
    BY <1>5 DEF Refusal
  <2>2. Dead(c.run)
    BY <1>1, <1>5, PageAssumption DEF Dead, ServerInv
  <2> QED BY <2>1, <2>2 DEF Truthful
<1>6. CASE runLock[c.run] = NoRequest /\ status[c.run] \notin {"saved", "gone"}
  <2>1. Refusal(c) = "refused" /\ (aged[c.run] \/ staged[c.run] # Rows)
    BY <1>6 DEF Refusal
  <2> QED BY <1>2, <1>6, <2>1 DEF Truthful, Dead
<1> QED BY <1>3, <1>4, <1>5, <1>6

\* A call answered at once changes nothing but the wire
LEMMA AnswerAtOnceInv ==
  ASSUME ImportInv, PageInv, NEW c \in calls, AnswerAtOnce(c) PROVE PageInv'
<1>0. PICK code : code = Refusal(c)
  OBVIOUS
<1>1. /\ Keeps /\ Stays /\ UNCHANGED <<attempt, sentWith, refused, sent, serving>>
      /\ UNCHANGED vars /\ calls' = calls \ {c} /\ Answer(c.number, code)
      /\ Truthful(code, c.run) /\ code \in {"saved", "missing", "refused", "busy"}
  BY <1>0, AloneKeeps, RefusalTruthful DEF AnswerAtOnce
<1>2. PageTypeOK'
  BY <1>1 DEF PageInv, PageTypeOK, attempt, Answer
<1>3. NamedInv'
  BY <1>1 DEF PageInv, NamedInv, Keeps, attempt
<1>4. \A v \in Runs \ {Current'} : Dead(v)'
  BY <1>1 DEF PageInv, Keeps, Current, attempt
<1>5. WireInv'
  BY <1>1 DEF PageInv, WireInv, Waiting, Stays, attempt
<1>6. ReplyInv'
  <2>1. ASSUME Waiting, c.number = sent PROVE c.run = run
    BY <2>1 DEF PageInv, WireInv
  <2>2. ASSUME Waiting, c.number = sent PROVE Truthful(code, run)
    BY <1>1, <2>1, <2>2
  <2>3. Waiting /\ c.number = sent => Truthful(code, run)'
    BY <1>1, <2>2, RunIsNamed DEF Truthful, Keeps, Waiting, attempt
  <2>4. UNCHANGED <<phase, run>> /\ Keeps /\ Answer(c.number, code)
    BY <1>1 DEF attempt
  <2>5. PICK number : number = c.number
    OBVIOUS
  <2> QED BY <2>3, <2>4, <2>5, HeardInv
<1> QED BY <1>1, <1>2, <1>3, <1>4, <1>5, <1>6 DEF PageInv, Keeps

\* A handler takes up a call with the run it names
LEMMA TakeUpInv ==
  ASSUME ImportInv, PageInv, NEW c \in calls, NEW r \in Requests, TakeUp(r, c) PROVE PageInv'
<1>1. c.run \in Runs /\ c.number \in 1..MaxCalls
  BY DEF PageInv, PageTypeOK
<1>2. /\ HoldToCommit(r, c.run) \/ HoldToDrop(r, c.run)
      /\ calls' = calls \ {c} /\ serving' = [serving EXCEPT ![r] = c.number]
      /\ UNCHANGED <<attempt, sentWith, refused, sent, reply>>
  BY DEF TakeUp
<1>3. Keeps
  BY <1>1, <1>2, HoldKeeps DEF PageInv
<1>4. /\ pc'[r] \in {"dropping", "writing"} /\ on'[r] = c.run
      /\ \A s \in Requests \ {r} : pc'[s] = pc[s] /\ on'[s] = on[s]
  BY <1>2 DEF HoldToCommit, HoldToDrop, Hold, ImportInv, TypeOK
<1>5. serving'[r] = c.number /\ \A s \in Requests \ {r} : serving'[s] = serving[s]
  BY <1>2 DEF PageInv, PageTypeOK
<1>6. PageTypeOK'
  BY <1>1, <1>2, PageAssumption DEF PageInv, PageTypeOK, attempt
<1>7. NamedInv'
  BY <1>2, <1>3 DEF PageInv, NamedInv, Keeps, attempt
<1>8. \A v \in Runs \ {Current'} : Dead(v)'
  BY <1>2, <1>3 DEF PageInv, Keeps, Current, attempt
<1>9. WireInv'
  <2>1. c.number <= sent /\ (Waiting /\ c.number = sent => c.run = run)
    BY DEF PageInv, WireInv
  <2> QED BY <1>2, <1>4, <1>5, <2>1 DEF PageInv, WireInv, Waiting, attempt
<1>10. ReplyInv'
  BY <1>2, <1>3, RunIsNamed DEF PageInv, ReplyInv, Keeps, Waiting, attempt
<1> QED BY <1>3, <1>6, <1>7, <1>8, <1>9, <1>10 DEF PageInv, Keeps

\* A handler that ends says what came of its run
LEMMA ServedInv ==
  ASSUME ImportInv, PageInv, Keeps, NEW r \in Requests, Release(r), refused' \subseteq Runs,
         NEW code \in {"saved", "dropped", "refused", NoReply}, Served(r, code),
         \A u \in Runs : u = on[r] => Truthful(code, u)'
  PROVE  PageInv'
<1>1. /\ Answer(serving[r], code) /\ serving' = [serving EXCEPT ![r] = 0]
      /\ UNCHANGED <<phase, wanted, run, kept, keptWith, sentWith, calls, sent>>
  BY DEF Served, attempt
<1>2. serving'[r] = 0 /\ \A s \in Requests \ {r} : serving'[s] = serving[s]
  BY <1>1 DEF PageInv, PageTypeOK
<1>3. PageTypeOK'
  BY <1>1, PageAssumption DEF PageInv, PageTypeOK, Answer
<1>4. NamedInv'
  BY <1>1 DEF PageInv, NamedInv, Keeps
<1>5. \A v \in Runs \ {Current'} : Dead(v)'
  BY <1>1 DEF PageInv, Keeps, Current
<1>6. WireInv'
  <2>1. \A s \in Requests \ {r} : pc'[s] = pc[s] /\ on'[s] = on[s]
    BY ReleaseLeaves
  <2>2. sent \in Nat
    BY PageAssumption DEF PageInv, PageTypeOK
  <2> QED BY <1>1, <1>2, <2>1, <2>2 DEF PageInv, WireInv, Waiting
<1>7. ReplyInv'
  <2>1. PICK number : number = serving[r]
    OBVIOUS
  <2>2. Waiting /\ number = sent => on[r] = run
    BY <2>1 DEF PageInv, WireInv
  <2>3. Waiting /\ number = sent => Truthful(code, run)'
    BY <1>1, <2>2, RunIsNamed DEF Waiting, Truthful
  <2> QED BY <1>1, <2>1, <2>3, HeardInv
<1> QED BY <1>3, <1>4, <1>5, <1>6, <1>7 DEF PageInv, Keeps

\* A file the importer refuses is refused again
LEMMA RefuseInv == ASSUME ImportInv, PageInv, NEW r \in Requests, Refuse(r) PROVE PageInv'
<1>1. /\ pc[r] = "writing" /\ Release(r) /\ UNCHANGED <<runRow, data>>
      /\ refused' = refused \union {on[r]} /\ Served(r, "refused")
  BY DEF Refuse, Abort
<1>2. on[r] \in Runs /\ status[on[r]] = "open"
  BY <1>1 DEF ImportInv, RequestInv, Committing
<1>3. Keeps
  BY <1>1, EndKeeps DEF PageInv
<1>4. ASSUME NEW u \in Runs, u = on[r] PROVE Truthful("refused", u)'
  BY <1>1, <1>2, <1>4 DEF Truthful, Dead, runRow
<1> QED BY <1>1, <1>2, <1>3, <1>4, ServedInv DEF PageInv, PageTypeOK

\* A handler that finishes has saved or dropped its run
LEMMA FinishInv == ASSUME ImportInv, PageInv, NEW r \in Requests, Finish(r) PROVE PageInv'
<1>1. UNCHANGED refused /\ refused' \subseteq Runs
  BY DEF Finish, PageInv, PageTypeOK
<1>2. CASE Save(r) /\ Served(r, "saved")
  <2>1. Keeps /\ savedAt'[on[r]] # NoStamp /\ Release(r)
    BY <1>1, <1>2, SaveKeeps DEF PageInv, Save
  <2>2. \A u \in Runs : u = on[r] => Truthful("saved", u)'
    BY <2>1 DEF Truthful
  <2> QED BY <1>1, <1>2, <2>1, <2>2, ServedInv
<1>3. CASE Drop(r) /\ Served(r, "dropped")
  <2>1. Keeps /\ (\A u \in Runs : u = on[r] => Dead(u)') /\ Release(r)
    BY <1>1, <1>3, DropKeeps DEF PageInv, Drop
  <2>2. \A u \in Runs : u = on[r] => Truthful("dropped", u)'
    BY <2>1 DEF Truthful
  <2> QED BY <1>1, <1>3, <2>1, <2>2, ServedInv
<1> QED BY <1>2, <1>3 DEF Finish

\* A handler that stops says nothing
LEMMA BreakInv == ASSUME ImportInv, PageInv, NEW r \in Requests, Break(r) PROVE PageInv'
<1>1. Release(r) /\ UNCHANGED <<runRow, data>> /\ Served(r, NoReply) /\ UNCHANGED refused
  BY DEF Break, Abort
<1>2. Keeps
  BY <1>1, EndKeeps DEF PageInv
<1>3. \A u \in Runs : Truthful(NoReply, u)'
  BY PageAssumption DEF Truthful
<1> QED BY <1>1, <1>2, <1>3, ServedInv DEF PageInv, PageTypeOK

\* What happens elsewhere answers no call
LEMMA ElsewhereInv == ASSUME SameDay, ImportInv, PageInv, Elsewhere PROVE PageInv'
<1>1. UNCHANGED pageVars /\ refused' = refused /\ \A u \in Runs : ServerInv(u)
  BY DEF Elsewhere, pageVars, PageInv
<1>2. \A r \in Requests : serving[r] # 0 => pc[r] \in {"dropping", "writing", "saving"}
  BY DEF PageInv, WireInv
<1>3. CASE Prune
  BY <1>1, <1>2, <1>3, PruneKeeps, ApartInv DEF Prune, request, Serves
<1>4. CASE \E u \in Runs : status[u] \in Ageing /\ Age(u)
  <2>1. PICK u \in Runs : status[u] # "saved" /\ Age(u)
    BY <1>4 DEF SameDay
  <2> QED BY <1>1, <1>2, <2>1, AgeKeeps, ApartInv DEF Age, request, Serves
<1>5. ASSUME NEW r \in Requests, NEW u \in Runs, HoldToUndo(r, u) PROVE PageInv'
  BY <1>1, <1>2, <1>5, HoldKeeps, ApartInv DEF HoldToUndo, Hold, Serves, ImportInv, TypeOK
<1>6. ASSUME NEW r \in Requests, on[r] \notin refused, MarkSaved(r) PROVE PageInv'
  BY <1>1, <1>2, <1>6, MarkKeeps, ApartInv DEF MarkSaved, Mark, Serves, ImportInv, TypeOK
<1>7. ASSUME NEW r \in Requests, HoldMarker(r) \/ HoldWritten(r) PROVE PageInv'
  BY <1>1, <1>2, <1>7, UndoingKeeps, ApartInv DEF HoldMarker, HoldWritten, Serves, ImportInv, TypeOK
<1>8. ASSUME NEW r \in Requests, Undo(r) PROVE PageInv'
  <2>1. Keeps /\ Release(r) /\ pc[r] = "deleting"
    BY <1>1, <1>8, UndoKeeps DEF Undo
  <2> QED BY <1>1, <1>2, <2>1, ReleaseLeaves, ApartInv DEF Serves
<1>9. ASSUME NEW r \in Requests, RefuseUndo(r) PROVE PageInv'
  <2>1. Release(r) /\ UNCHANGED <<runRow, data>> /\ pc[r] \in {"undoing", "unwinding"}
    BY <1>9 DEF RefuseUndo
  <2>2. Keeps
    BY <1>1, <2>1, EndKeeps
  <2> QED BY <1>1, <1>2, <2>1, <2>2, ReleaseLeaves, ApartInv DEF Serves
<1> QED BY <1>3, <1>4, <1>5, <1>6, <1>7, <1>8, <1>9 DEF Elsewhere

-----------------------------------------------------------------------------
(* The page and the server together *)

\* The page and its calls name runs, on whichever day
RunsNamed ==
  /\ run \in Runs \union {NoRun} /\ kept \in Runs \union {NoRun}
  /\ phase \in {"committing", "settling"} => run \in Runs
  /\ \A c \in calls : c.run \in Runs

\* The page starts no other, and the calls it sends are about the run it names
LEMMA NextNamed == ASSUME RunsNamed, [PageNext]_<<vars, pageVars>> PROVE RunsNamed'
<1> USE DEF RunsNamed
<1>1. \A kind, u : Send(kind, u) /\ u \in Runs => \A c \in calls' : c.run \in Runs
  BY DEF Send
<1>2. Silent => calls' = calls
  BY DEF Silent
<1>3. ASSUME NEW a \in Answers, Start(a) PROVE RunsNamed'
  BY <1>1, <1>2, <1>3 DEF Start
<1>4. ASSUME NEW u \in Runs, OpenRun(u) PROVE RunsNamed'
  BY <1>4 DEF OpenRun, wire
<1>5. ASSUME NEW batch \in SUBSET Rows, StageRows(batch) PROVE RunsNamed'
  BY <1>1, <1>5 DEF StageRows, wire
<1>6. ASSUME UploadFails \/ Interrupted \/ CommitAnswered \/ Settled PROVE RunsNamed'
  BY <1>1, <1>2, <1>6 DEF UploadFails, Interrupted, CommitAnswered, Settled, Fail
<1>7. ASSUME NEW c \in calls, AnswerAtOnce(c) \/ \E r \in Requests : TakeUp(r, c) PROVE RunsNamed'
  BY <1>7 DEF AnswerAtOnce, TakeUp, attempt
<1>8. ASSUME NEW r \in Requests, Refuse(r) \/ Finish(r) \/ Break(r) PROVE RunsNamed'
  BY <1>8 DEF Refuse, Finish, Break, Served, attempt
<1>9. ASSUME Elsewhere \/ UNCHANGED <<vars, pageVars>> PROVE RunsNamed'
  BY <1>9 DEF Elsewhere, pageVars, attempt, wire
<1> QED BY <1>3, <1>4, <1>5, <1>6, <1>7, <1>8, <1>9 DEF PageNext

\* To the server a step of the page is a step of ImportRun or none
LEMMA PageStepsServe == ASSUME RunsNamed, PageNext PROVE [Next]_vars
<1>1. CASE \E a \in Answers : Start(a)
  BY <1>1 DEF Start
<1>2. CASE \E u \in Runs : OpenRun(u)
  BY <1>2 DEF OpenRun, Next
<1>3. CASE \E batch \in SUBSET Rows \ {{}} : StageRows(batch)
  <2>1. PICK batch \in SUBSET Rows \ {{}} : run \in Runs /\ Stage(run, batch)
    BY <1>3 DEF StageRows, RunsNamed
  <2> QED BY <2>1 DEF Next
<1>4. CASE UploadFails \/ Interrupted \/ CommitAnswered \/ Settled
  BY <1>4 DEF UploadFails, Interrupted, CommitAnswered, Settled, Next
<1>5. CASE \E c \in calls : AnswerAtOnce(c)
  BY <1>5 DEF AnswerAtOnce
<1>6. CASE \E c \in calls, r \in Requests : MayMark /\ TakeUp(r, c)
  <2>1. PICK c \in calls, r \in Requests : MayMark /\ TakeUp(r, c)
    BY <1>6
  <2>2. c.run \in Runs
    BY <2>1 DEF RunsNamed
  <2> QED BY <2>1, <2>2 DEF TakeUp, Next, Begin
<1>7. CASE \E r \in Requests : Refuse(r) \/ Finish(r) \/ Break(r)
  BY <1>7 DEF Refuse, Finish, Break, Next, Proceed
<1>8. CASE Elsewhere
  BY <1>8 DEF Elsewhere, Next, Begin, Proceed
<1> QED BY <1>1, <1>2, <1>3, <1>4, <1>5, <1>6, <1>7, <1>8 DEF PageNext

\* Every step keeps both invariants
LEMMA PageNextInv ==
  ASSUME SameDay, ImportInv, PageInv, [PageNext]_<<vars, pageVars>> PROVE ImportInv' /\ PageInv'
<1>1. CASE PageNext
  <2>1. ImportInv'
    <3>1. RunsNamed
      BY DEF PageInv, PageTypeOK, NamedInv, RunsNamed
    <3> QED BY <1>1, <3>1, PageStepsServe, NextInv
  <2>2. PageInv'
    BY <1>1, StartInv, OpenRunInv, StageRowsInv, UploadFailsInv, InterruptedInv, CommitAnsweredInv, SettledInv,
       AnswerAtOnceInv, TakeUpInv, RefuseInv, FinishInv, BreakInv, ElsewhereInv DEF PageNext
  <2> QED BY <2>1, <2>2
<1>2. CASE UNCHANGED <<vars, pageVars>>
  <2>1. ImportInv'
    BY <1>2, NextInv
  <2>2. Keeps /\ Stays
    BY <1>2, AloneKeeps DEF pageVars
  <2>3. Serves
    BY <2>2 DEF PageInv, WireInv, Serves, Stays
  <2> QED BY <1>2, <2>1, <2>2, <2>3, ApartInv
<1> QED BY <1>1, <1>2

\* On the day the page was opened the invariant holds throughout
LEMMA PageInvariant == ASSUME SameDay PROVE PageSpec => [](ImportInv /\ PageInv)
<1>1. PageInit => ImportInv /\ PageInv
  BY InitInv, PageInitInv DEF PageInit
<1>2. SameDay /\ ImportInv /\ PageInv /\ [PageNext]_<<vars, pageVars>> => ImportInv' /\ PageInv'
  BY PageNextInv
<1> QED BY <1>1, <1>2, PTL DEF PageSpec

\* The page's variables keep their types, and a kept upload the answers it was sent with.
THEOREM PageTypes == ASSUME SameDay PROVE PageSpec => []PageTypeOK
<1>1. PageInv => PageTypeOK
  BY DEF PageInv
<1> QED BY <1>1, PageInvariant, PTL

\* Nothing but the current run can be in the ledger
LEMMA OnlyCurrent == ASSUME PageInv, NEW u \in Runs \ {Current} PROVE ledger[u] = Nothing
BY DEF PageInv, Dead, ServerInv

\* importRun.ts's promise that nothing is added twice: of all the runs a page uploads, whichever calls
\* and answers are lost or late, at most one is in the ledger.
THEOREM AddedOnce == ASSUME SameDay PROVE PageSpec => []NothingTwice
<1>1. PageInv => NothingTwice
  <2> SUFFICES ASSUME PageInv PROVE NothingTwice
    OBVIOUS
  <2> DEFINE landed == {u \in Runs : ledger[u] # Nothing}
  <2>1. landed = {} \/ landed = {Current}
    BY OnlyCurrent
  <2>2. Cardinality(landed) \in {0, 1}
    BY <2>1, FS_EmptySet, FS_Singleton
  <2> QED BY <2>2 DEF NothingTwice
<1> QED BY <1>1, PageInvariant, PTL

\* "Import stopped, and nothing was added to your ledger", and a refusal that keeps nothing, are true.
THEOREM StoppedAddsNothing == ASSUME SameDay PROVE PageSpec => []StoppedMeansNothing
<1>1. PageInv => StoppedMeansNothing
  BY OnlyCurrent, ImportAssumption DEF StoppedMeansNothing, Current
<1> QED BY <1>1, PageInvariant, PTL

\* An import shown as done was saved, and it is the only one of the page's uploads that was.
THEOREM DoneIsSaved == ASSUME SameDay PROVE PageSpec => []DoneMeansSaved
<1>1. PageInv => DoneMeansSaved
  BY OnlyCurrent DEF DoneMeansSaved, Current, PageInv, ReplyInv
<1> QED BY <1>1, PageInvariant, PTL

\* Whatever the page does, on whichever day, the server keeps what imports promise: each upload of the
\* page lands whole and once or not at all, and goes whole and untouched (run_commit.py and
\* run_history.py do not count on the page).
THEOREM PageKeepsImports == PageSpec => ImplementsImports
<1>1. PageInit => Init /\ RunsNamed
  BY DEF PageInit, RunsNamed
<1>2. RunsNamed /\ [PageNext]_<<vars, pageVars>> => RunsNamed'
  BY NextNamed
<1>3. RunsNamed /\ [PageNext]_<<vars, pageVars>> => [Next]_vars
  BY PageStepsServe
<1>4. PageSpec => Spec
  BY <1>1, <1>2, <1>3, PTL DEF PageSpec, Spec
<1> QED BY <1>4, ImportsImplemented

=============================================================================

----------------------------- MODULE CacheCheck -----------------------------
(***************************************************************************)
(* How the windows of one user's browser notice that data has changed on   *)
(* the server.  Each compares the server's marker with the one it saw last *)
(* and fetches again when they differ.  The cached data outlives a window  *)
(* as a copy in local storage that all windows share, and so does the      *)
(* marker, but they are written at different moments by different windows. *)
(*                                                                         *)
(*   frontend/src/hooks/useCacheValidation.ts       the check              *)
(*   frontend/src/api/cache/persistence.ts          the saved copy         *)
(*   backend/app/services/cache_state               the marker             *)
(*                                                                         *)
(* Every change raises the version by one and marks the personal cache in  *)
(* the transaction it commits with, so the version stands for the marker   *)
(* too.  One mounted query stands for the cached data.                     *)
(***************************************************************************)
EXTENDS Naturals

CONSTANTS
  Windows,
  MaxChanges,  \* bound: changes committed
  MaxLoads,    \* bound: page loads after the first
  Faults,      \* of "empty": loads that find no copy; "fail": fetches that fail
  None

ASSUME CacheAssumption == MaxChanges \in Nat /\ MaxLoads \in Nat /\ Faults \subseteq {"empty", "fail"} /\ None \notin Nat

VARIABLES
  version,     \* of the committed data, which its marker names
  mode,        \* of a window: closed, visible or hidden
  data,        \* version a window's query holds
  invalid,     \* the query is marked to be fetched again
  failed,      \* its last fetch failed
  fetch,       \* none, sent or read
  got,         \* version the fetch read
  check,       \* validate: idle, sent or read
  status,      \* marker the check read
  pending,     \* pendingValidationRef
  held,        \* a dialogue holds the check back
  skipped,     \* an attempt the hold turned away
  told,        \* a storage event for the marker is under way
  asked,       \* version when the last check was asked for, history
  seen,        \* marker in the window's session storage
  local,       \* marker in local storage
  copy,        \* the saved query cache
  due,         \* the window's timed save is due
  unsaved,     \* changeCount # savedChangeCount
  loads

server == version
cache == <<data, invalid, failed, fetch, got>>
checking == <<check, status, pending, held, skipped, told, asked, seen, local>>
saving == <<copy, due, unsaved>>
vars == <<server, mode, cache, checking, saving, loads>>

Versions == 0..MaxChanges
Set(f, w, x) == [f EXCEPT ![w] = x]

Init ==
  /\ version = 0
  /\ mode = [w \in Windows |-> "visible"]
  /\ data = [w \in Windows |-> 0]
  /\ invalid = [w \in Windows |-> FALSE] /\ failed = [w \in Windows |-> FALSE]
  /\ fetch = [w \in Windows |-> "none"] /\ got = [w \in Windows |-> 0]
  /\ check = [w \in Windows |-> "idle"] /\ status = [w \in Windows |-> 0]
  /\ pending = [w \in Windows |-> FALSE] /\ held = [w \in Windows |-> FALSE]
  /\ skipped = [w \in Windows |-> FALSE] /\ told = [w \in Windows |-> FALSE]
  /\ asked = [w \in Windows |-> 0] /\ seen = [w \in Windows |-> 0] /\ local = 0
  /\ copy = [data |-> 0, invalid |-> FALSE]
  /\ due = [w \in Windows |-> FALSE] /\ unsaved = [w \in Windows |-> FALSE]
  /\ loads = 0

\* A writer elsewhere commits a change and the marker with it
Change ==
  /\ version < MaxChanges
  /\ version' = version + 1
  /\ UNCHANGED <<mode, cache, checking, saving, loads>>

-----------------------------------------------------------------------------
(* The query and its saved copy *)

\* A cache event: the copy no longer reflects the cache, and a timed save is due
Touched(w) == due' = Set(due, w, TRUE) /\ unsaved' = Set(unsaved, w, TRUE) /\ copy' = copy

\* invalidateAppData: fetches again, anew if a fetch is under way that replaces data
Refetch(w) == IF data[w] # None \/ fetch[w] = "none" THEN Set(fetch, w, "sent") ELSE fetch

FetchRead(w) ==
  /\ fetch[w] = "sent" /\ mode[w] # "closed"
  /\ fetch' = Set(fetch, w, "read")
  /\ got' = Set(got, w, version)
  /\ UNCHANGED <<server, mode, data, invalid, failed, checking, saving, loads>>

FetchDone(w) ==
  /\ fetch[w] = "read"
  /\ data' = Set(data, w, got[w])
  /\ invalid' = Set(invalid, w, FALSE) /\ failed' = Set(failed, w, FALSE)
  /\ fetch' = Set(fetch, w, "none")
  /\ Touched(w)
  /\ UNCHANGED <<server, mode, got, checking, loads>>

\* A fetch that fails for good leaves the mark, for the next screen that shows the query
FetchFails(w) ==
  /\ "fail" \in Faults
  /\ fetch[w] \in {"sent", "read"} /\ mode[w] # "closed"
  /\ failed' = Set(failed, w, TRUE)
  /\ fetch' = Set(fetch, w, "none")
  /\ Touched(w)
  /\ UNCHANGED <<server, mode, data, invalid, got, checking, loads>>

\* Another query of the window changes, such as a slow fetch that ends in the background
OtherQuery(w) ==
  /\ mode[w] # "closed" /\ ~due[w] /\ loads < MaxLoads  \* bound: while a load may read the copy
  /\ Touched(w)
  /\ UNCHANGED <<server, mode, cache, checking, loads>>

\* What a save writes: a failed query and one without data are left out
Contents(w) == IF failed[w] \/ data[w] = None THEN None ELSE [data |-> data[w], invalid |-> invalid[w]]

\* The persister, at most once a second
TimedSave(w) ==
  /\ due[w] /\ mode[w] # "closed"
  /\ copy' = Contents(w)
  /\ due' = Set(due, w, FALSE) /\ unsaved' = Set(unsaved, w, FALSE)
  /\ UNCHANGED <<server, mode, cache, checking, loads>>

\* Fault: leaving the page waits for the timed save
SaveOnHideLater(w) == copy' = copy

\* saveQueryCacheOnPageHide
SaveOnHide(w) == copy' = IF unsaved[w] THEN Contents(w) ELSE copy

-----------------------------------------------------------------------------
(* The check *)

\* Fault: a check asked for while one runs is dropped
ValidateOnce(w) ==
  /\ check' = IF held[w] \/ check[w] # "idle" THEN check ELSE Set(check, w, "sent")
  /\ skipped' = IF held[w] THEN Set(skipped, w, TRUE) ELSE skipped
  /\ pending' = pending

\* validate: held back, joined to the one that runs, or sent
Validate(w) ==
  IF held[w]
    THEN skipped' = Set(skipped, w, TRUE) /\ UNCHANGED <<check, pending>>
    ELSE IF check[w] # "idle"
      THEN pending' = Set(pending, w, TRUE) /\ UNCHANGED <<check, skipped>>
      ELSE check' = Set(check, w, "sent") /\ UNCHANGED <<pending, skipped>>

\* A reason to check: what is committed by now must come to be seen
Ask(w) == Validate(w) /\ asked' = Set(asked, w, version)

\* The window gets the focus, or the timer for the next day or for a retry fires
Focus(w) ==
  /\ mode[w] # "closed"
  /\ mode' = Set(mode, w, "visible")
  /\ Ask(w)
  /\ UNCHANGED <<server, cache, status, held, told, seen, local, saving, loads>>

Timer(w) ==
  /\ mode[w] # "closed" /\ check[w] = "idle"
  /\ Ask(w)
  /\ UNCHANGED <<server, mode, cache, status, held, told, seen, local, saving, loads>>

\* onStorageChange
Hear(w) ==
  /\ told[w]
  /\ told' = Set(told, w, FALSE)
  /\ IF mode[w] = "visible" /\ seen[w] # local THEN Ask(w) ELSE UNCHANGED <<check, pending, skipped, asked>>
  /\ UNCHANGED <<server, mode, cache, status, held, seen, local, saving, loads>>

Hold(w) ==
  /\ mode[w] = "visible" /\ ~held[w]
  /\ held' = Set(held, w, TRUE)
  /\ UNCHANGED <<server, mode, cache, check, status, pending, skipped, told, asked, seen, local, saving, loads>>

\* Fault: what was skipped under the hold is forgotten
ReleaseQuietly(w) ==
  /\ held[w]
  /\ held' = Set(held, w, FALSE) /\ skipped' = Set(skipped, w, FALSE)
  /\ UNCHANGED <<server, mode, cache, check, status, pending, told, asked, seen, local, saving, loads>>

\* The last hold ends, and runs what was skipped
Release(w) ==
  /\ held[w]
  /\ held' = Set(held, w, FALSE) /\ skipped' = Set(skipped, w, FALSE)
  /\ IF ~skipped[w] THEN UNCHANGED <<check, pending>>
     ELSE IF check[w] # "idle" THEN pending' = Set(pending, w, TRUE) /\ check' = check
     ELSE check' = Set(check, w, "sent") /\ pending' = pending
  /\ UNCHANGED <<server, mode, cache, status, told, asked, seen, local, saving, loads>>

CheckRead(w) ==
  /\ check[w] = "sent" /\ mode[w] # "closed"
  /\ check' = Set(check, w, "read")
  /\ status' = Set(status, w, version)
  /\ UNCHANGED <<server, mode, cache, pending, held, skipped, told, asked, seen, local, saving, loads>>

\* Fault: the loop runs once
NextCheckOnce(w) == check' = Set(check, w, "idle") /\ pending' = pending

\* The do-while of validate
NextCheck(w) == check' = Set(check, w, IF pending[w] THEN "sent" ELSE "idle") /\ pending' = Set(pending, w, FALSE)

\* Fault: compares with the marker all windows share
PreviousShared(w) == local

Previous(w) == IF seen[w] # None THEN seen[w] ELSE local

Changed(w) == Previous(w) # None /\ Previous(w) # status[w]

\* validateAppData with the answer
CheckDone(w) ==
  /\ check[w] = "read"
  /\ seen' = Set(seen, w, status[w])
  /\ local' = status[w]
  /\ told' = [x \in Windows |-> told[x] \/ (x # w /\ mode[x] # "closed" /\ local # status[w])]
  /\ IF Changed(w) THEN invalid' = Set(invalid, w, TRUE) /\ fetch' = Refetch(w) /\ Touched(w)
                   ELSE UNCHANGED <<invalid, fetch, saving>>
  /\ NextCheck(w)
  /\ UNCHANGED <<server, mode, data, failed, got, status, held, skipped, asked, loads>>

CheckFails(w) ==
  /\ "fail" \in Faults
  /\ check[w] \in {"sent", "read"} /\ mode[w] # "closed"
  /\ NextCheck(w)
  /\ asked' = IF pending[w] THEN asked ELSE Set(asked, w, 0)
  /\ UNCHANGED <<server, mode, cache, status, held, skipped, told, seen, local, saving, loads>>

-----------------------------------------------------------------------------
(* Windows *)

Hide(w) ==
  /\ mode[w] = "visible"
  /\ mode' = Set(mode, w, "hidden")
  /\ SaveOnHide(w)
  /\ unsaved' = Set(unsaved, w, FALSE)
  /\ UNCHANGED <<server, cache, checking, due, loads>>

\* A window goes, with its session storage
Close(w) ==
  /\ mode[w] # "closed"
  /\ mode' = Set(mode, w, "closed")
  /\ SaveOnHide(w)
  /\ due' = Set(due, w, FALSE) /\ unsaved' = Set(unsaved, w, FALSE)
  /\ fetch' = Set(fetch, w, "none") /\ check' = Set(check, w, "idle")
  /\ pending' = Set(pending, w, FALSE) /\ held' = Set(held, w, FALSE)
  /\ skipped' = Set(skipped, w, FALSE) /\ told' = Set(told, w, FALSE)
  /\ asked' = Set(asked, w, 0) /\ seen' = Set(seen, w, None)
  /\ UNCHANGED <<server, data, invalid, failed, got, status, local, loads>>

\* The copy a load finds: none after a first sign-in, once storage was too full to save it, or when
\* the last fetch before the save had failed
Found(c) == (IF c = None THEN {} ELSE {c}) \union (IF "empty" \in Faults THEN {None} ELSE {})

\* A page load restores the copy c, fetches what is missing or marked, and checks
Restore(w, c) ==
  /\ loads < MaxLoads /\ loads' = loads + 1
  /\ mode' = Set(mode, w, "visible")
  /\ data' = Set(data, w, IF c = None THEN None ELSE c.data)
  /\ invalid' = Set(invalid, w, c # None /\ c.invalid)
  /\ failed' = Set(failed, w, FALSE)
  /\ fetch' = Set(fetch, w, IF c = None \/ c.invalid THEN "sent" ELSE "none")
  /\ check' = Set(check, w, "sent") /\ pending' = Set(pending, w, FALSE)
  /\ held' = Set(held, w, FALSE) /\ skipped' = Set(skipped, w, FALSE) /\ told' = Set(told, w, FALSE)
  /\ asked' = Set(asked, w, version)
  /\ due' = Set(due, w, FALSE) /\ unsaved' = Set(unsaved, w, FALSE)
  /\ UNCHANGED <<server, got, status, local>>

Load(w) ==
  /\ mode[w] = "closed"
  /\ \E c \in Found(copy) : Restore(w, c)
  /\ UNCHANGED <<seen, copy>>

\* Leaving and restoring in one: the window keeps its session storage
Reload(w) ==
  /\ mode[w] # "closed"
  /\ SaveOnHide(w)
  /\ \E c \in Found(copy') : Restore(w, c)
  /\ UNCHANGED seen

-----------------------------------------------------------------------------
Fetching(w) == FetchRead(w) \/ FetchDone(w) \/ FetchFails(w)
Checking(w) == CheckRead(w) \/ CheckDone(w) \/ CheckFails(w)

Next ==
  \/ Change
  \/ \E w \in Windows :
       \/ Fetching(w) \/ Checking(w) \/ OtherQuery(w) \/ TimedSave(w)
       \/ Focus(w) \/ Timer(w) \/ Hear(w) \/ Hold(w) \/ Release(w)
       \/ Hide(w) \/ Close(w) \/ Load(w) \/ Reload(w)

Spec == Init /\ [][Next]_vars

\* The server answers again and again, the day ends, and dialogues are closed
Fairness ==
  \A w \in Windows :
    /\ WF_vars(Fetching(w)) /\ SF_vars(CheckRead(w)) /\ SF_vars(CheckDone(w))
    /\ WF_vars(Timer(w)) /\ WF_vars(Release(w))

FairSpec == Spec /\ Fairness

-----------------------------------------------------------------------------
CacheTypeOK ==
  /\ version \in Versions /\ loads \in 0..MaxLoads
  /\ mode \in [Windows -> {"closed", "visible", "hidden"}]
  /\ data \in [Windows -> Versions \union {None}] /\ got \in [Windows -> Versions]
  /\ invalid \in [Windows -> BOOLEAN] /\ failed \in [Windows -> BOOLEAN]
  /\ fetch \in [Windows -> {"none", "sent", "read"}] /\ check \in [Windows -> {"idle", "sent", "read"}]
  /\ status \in [Windows -> Versions] /\ pending \in [Windows -> BOOLEAN]
  /\ held \in [Windows -> BOOLEAN] /\ skipped \in [Windows -> BOOLEAN] /\ told \in [Windows -> BOOLEAN]
  /\ asked \in [Windows -> Versions] /\ seen \in [Windows -> Versions \union {None}] /\ local \in Versions
  /\ copy \in [data : Versions, invalid : BOOLEAN] \union {None}
  /\ due \in [Windows -> BOOLEAN] /\ unsaved \in [Windows -> BOOLEAN]
  /\ \A w \in Windows : pending[w] => check[w] # "idle"
  /\ \A w \in Windows : skipped[w] => held[w]

\* A window shows nothing as current that is older than the marker it compares
\* with, since no later check would find a difference: its data, unless it is
\* marked to be fetched again or has failed to be, is as new as the marker
DataAsNewAsMarker ==
  \A w \in Windows :
    mode[w] # "closed" /\ seen[w] # None /\ ~invalid[w] /\ ~failed[w] /\ fetch[w] = "none" /\ data[w] # None
      => data[w] >= seen[w]

\* The same for the copy and the marker a new window starts from
CopyAsNewAsMarker ==
  (\A w \in Windows : mode[w] = "closed") /\ copy # None /\ ~copy.invalid => copy.data >= local

\* No reason to check is lost to a check under way or a dialogue: once neither is
\* left, the window has seen what was committed when it last had one, or the
\* check for it failed
NoAskLost ==
  \A w \in Windows : mode[w] # "closed" /\ check[w] = "idle" /\ ~held[w] => seen[w] = None \/ seen[w] >= asked[w]

\* "So a change made elsewhere still reaches the page": an open window comes to
\* hold every committed change, or shows that fetching it failed
ChangeReaches ==
  \A w \in Windows : \A v \in Versions :
    (version = v /\ mode[w] # "closed") ~> (mode[w] = "closed" \/ failed[w] \/ (data[w] # None /\ data[w] >= v))
=============================================================================

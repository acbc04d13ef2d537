-------------------------- MODULE CacheCheckProofs --------------------------
(***************************************************************************)
(* No reason to check the server is lost, for any number of windows and    *)
(* loads and whatever fails; and no window takes old data for current as   *)
(* long as no page is loaded, or one window alone loads what it saved.     *)
(***************************************************************************)
EXTENDS CacheCheck, TLAPS

-----------------------------------------------------------------------------
(* The inductive invariant *)

\* What the last reason to check asks for has been seen, its check has failed, or a check that will
\* see it is under way or to come
Answered(w) ==
  \/ asked[w] = 0
  \/ seen[w] # None /\ asked[w] <= seen[w]
  \/ skipped[w] \/ pending[w] \/ check[w] = "sent"
  \/ check[w] = "read" /\ asked[w] <= status[w]

\* Nothing is seen or asked for before it is committed, and an answer is no older than the last one
WindowInv(w) ==
  /\ asked[w] <= version /\ status[w] <= version
  /\ seen[w] # None => seen[w] <= version
  /\ check[w] = "read" /\ seen[w] # None => seen[w] <= status[w]
  /\ mode[w] # "closed" => Answered(w)

CacheInv == CacheTypeOK /\ \A w \in Windows : WindowInv(w)

LEMMA InitInv == Init => CacheInv
BY CacheAssumption DEF Init, CacheInv, CacheTypeOK, WindowInv, Answered, Versions

\* A window none of whose variables change keeps its part
LEMMA OthersKeep ==
  ASSUME CacheInv, NEW w \in Windows, version' \in Nat, version <= version',
         asked'[w] = asked[w], status'[w] = status[w], seen'[w] = seen[w], check'[w] = check[w],
         pending'[w] = pending[w], skipped'[w] = skipped[w], mode'[w] = mode[w] \/ mode[w] # "closed"
  PROVE  WindowInv(w)'
BY CacheAssumption DEF CacheInv, CacheTypeOK, WindowInv, Answered, Versions

-----------------------------------------------------------------------------
(* Steps of the query and its copy, which ask nothing *)

LEMMA ContentsType ==
  ASSUME CacheTypeOK, NEW w \in Windows
  PROVE  Contents(w) \in [data : Versions, invalid : BOOLEAN] \union {None}
BY DEF CacheTypeOK, Contents

LEMMA ChangeInv == ASSUME CacheInv, Change PROVE CacheInv'
<1>1. CacheTypeOK'
  BY CacheAssumption DEF Change, CacheInv, CacheTypeOK, cache, checking, saving, Versions
<1>2. version' \in Nat /\ version <= version'
  BY CacheAssumption DEF Change, CacheInv, CacheTypeOK, Versions
<1>3. ASSUME NEW w \in Windows PROVE WindowInv(w)'
  BY <1>2, <1>3, OthersKeep DEF Change, checking
<1> QED BY <1>1, <1>3 DEF CacheInv

\* No step of these changes what windows have asked for or seen
LEMMA DataInv ==
  ASSUME CacheInv, NEW w \in Windows,
         FetchRead(w) \/ FetchDone(w) \/ FetchFails(w) \/ OtherQuery(w) \/ TimedSave(w)
  PROVE  CacheInv'
<1> USE DEF CacheInv, CacheTypeOK, Set, Touched, server, cache, checking, saving
<1>1. CacheTypeOK'
  <2>1. CASE FetchRead(w)
    BY <2>1 DEF FetchRead
  <2>2. CASE FetchDone(w)
    BY <2>2 DEF FetchDone
  <2>3. CASE FetchFails(w)
    BY <2>3 DEF FetchFails
  <2>4. CASE OtherQuery(w)
    BY <2>4 DEF OtherQuery
  <2>5. CASE TimedSave(w)
    <3>1. copy' \in [data : Versions, invalid : BOOLEAN] \union {None}
      BY <2>5, ContentsType DEF TimedSave
    <3> QED BY <2>5, <3>1 DEF TimedSave
  <2> QED BY <2>1, <2>2, <2>3, <2>4, <2>5
<1>2. UNCHANGED <<server, checking, mode>>
  BY DEF FetchRead, FetchDone, FetchFails, OtherQuery, TimedSave
<1>3. ASSUME NEW x \in Windows PROVE WindowInv(x)'
  BY <1>2, <1>3, OthersKeep, CacheAssumption DEF Versions
<1> QED BY <1>1, <1>3

-----------------------------------------------------------------------------
(* Steps that ask *)

\* Asking leaves a check sent, one to come, or an attempt the hold will make up for
LEMMA AskAnswers ==
  ASSUME CacheInv, NEW w \in Windows, Ask(w), mode[w] # "closed", UNCHANGED <<version, status, held, seen>>,
         mode' = mode \/ mode' = Set(mode, w, "visible")
  PROVE  /\ \A x \in Windows : WindowInv(x)'
         /\ check' \in [Windows -> {"idle", "sent", "read"}] /\ asked' \in [Windows -> Versions]
         /\ pending' \in [Windows -> BOOLEAN] /\ skipped' \in [Windows -> BOOLEAN]
         /\ \A x \in Windows : pending'[x] => check'[x] # "idle"
         /\ \A x \in Windows : skipped'[x] => held'[x]
<1> USE DEF CacheInv, CacheTypeOK, Set
<1>1. /\ check' \in [Windows -> {"idle", "sent", "read"}] /\ asked' \in [Windows -> Versions]
      /\ pending' \in [Windows -> BOOLEAN] /\ skipped' \in [Windows -> BOOLEAN]
      /\ \A x \in Windows : pending'[x] => check'[x] # "idle"
      /\ \A x \in Windows : skipped'[x] => held'[x]
  <2>1. asked' \in [Windows -> Versions]
    BY DEF Ask
  <2>2. CASE held[w]
    <3>1. held' = held /\ check' = check /\ pending' = pending /\ skipped' = [skipped EXCEPT ![w] = TRUE]
      BY <2>2 DEF Ask, Validate
    <3>2. skipped' \in [Windows -> BOOLEAN] /\ \A x \in Windows : x # w => skipped'[x] = skipped[x]
      BY <3>1
    <3>3. \A x \in Windows : skipped'[x] => held'[x]
      BY <2>2, <3>1, <3>2
    <3> QED BY <2>1, <3>1, <3>2, <3>3
  <2>3. CASE ~held[w] /\ check[w] # "idle"
    <3>1. held' = held /\ check' = check /\ skipped' = skipped /\ pending' = [pending EXCEPT ![w] = TRUE]
      BY <2>3 DEF Ask, Validate
    <3>2. pending' \in [Windows -> BOOLEAN] /\ \A x \in Windows : x # w => pending'[x] = pending[x]
      BY <3>1
    <3>3. \A x \in Windows : pending'[x] => check'[x] # "idle"
      BY <2>3, <3>1, <3>2
    <3> QED BY <2>1, <3>1, <3>2, <3>3
  <2>4. CASE ~held[w] /\ check[w] = "idle"
    <3>1. held' = held /\ pending' = pending /\ skipped' = skipped /\ check' = [check EXCEPT ![w] = "sent"]
      BY <2>4 DEF Ask, Validate
    <3>2. /\ check' \in [Windows -> {"idle", "sent", "read"}] /\ check'[w] = "sent"
          /\ \A x \in Windows : x # w => check'[x] = check[x]
      BY <3>1
    <3> QED BY <2>1, <3>1, <3>2
  <2> QED BY <2>2, <2>3, <2>4
<1>2. ASSUME NEW x \in Windows, x # w PROVE WindowInv(x)'
  <2>1. /\ asked'[x] = asked[x] /\ check'[x] = check[x] /\ pending'[x] = pending[x] /\ skipped'[x] = skipped[x]
        /\ mode'[x] = mode[x]
    BY <1>2 DEF Ask, Validate
  <2> QED BY <1>2, <2>1, OthersKeep, CacheAssumption DEF Versions
<1>3. Answered(w)'
  BY DEF Ask, Validate, Answered
<1>4. WindowInv(w)'
  BY <1>3, CacheAssumption DEF Ask, Validate, WindowInv, Versions
<1> QED BY <1>1, <1>2, <1>4

LEMMA AskingInv ==
  ASSUME CacheInv, NEW w \in Windows, Focus(w) \/ Timer(w) \/ Hear(w)
  PROVE  CacheInv'
<1>1. CASE Focus(w)
  <2>1. Ask(w) /\ mode[w] # "closed" /\ mode' = Set(mode, w, "visible") /\ UNCHANGED <<version, status, held, seen>>
    BY <1>1 DEF Focus, server
  <2>2. mode' \in [Windows -> {"closed", "visible", "hidden"}]
    BY <2>1 DEF CacheInv, CacheTypeOK, Set
  <2> QED BY <1>1, <2>1, <2>2, AskAnswers DEF Focus, CacheInv, CacheTypeOK, server, cache, saving
<1>2. CASE Timer(w)
  <2>1. Ask(w) /\ mode[w] # "closed" /\ mode' = mode /\ UNCHANGED <<version, status, held, seen>>
    BY <1>2 DEF Timer, server
  <2> QED BY <1>2, <2>1, AskAnswers DEF Timer, CacheInv, CacheTypeOK, server, cache, saving
<1>3. CASE Hear(w) /\ Ask(w) /\ mode[w] # "closed"
  <2>1. mode' = mode /\ UNCHANGED <<version, status, held, seen>>
    BY <1>3 DEF Hear, server
  <2>2. told' \in [Windows -> BOOLEAN]
    BY <1>3 DEF Hear, CacheInv, CacheTypeOK, Set
  <2> QED BY <1>3, <2>1, <2>2, AskAnswers DEF Hear, CacheInv, CacheTypeOK, server, cache, saving
<1>4. CASE Hear(w) /\ UNCHANGED <<check, pending, skipped, asked>>
  <2>1. CacheTypeOK'
    BY <1>4 DEF Hear, CacheInv, CacheTypeOK, Set, server, cache, saving
  <2>2. ASSUME NEW x \in Windows PROVE WindowInv(x)'
    BY <1>4, <2>2, OthersKeep, CacheAssumption DEF Hear, CacheInv, CacheTypeOK, Versions, server
  <2> QED BY <2>1, <2>2 DEF CacheInv
<1> QED BY <1>1, <1>2, <1>3, <1>4 DEF Hear

LEMMA HoldingInv ==
  ASSUME CacheInv, NEW w \in Windows, Hold(w) \/ Release(w)
  PROVE  CacheInv'
<1> USE DEF CacheInv, CacheTypeOK, Set, server, cache, saving
<1>1. CASE Hold(w)
  <2>1. CacheTypeOK'
    BY <1>1 DEF Hold
  <2>2. ASSUME NEW x \in Windows PROVE WindowInv(x)'
    BY <1>1, <2>2, OthersKeep, CacheAssumption DEF Hold, Versions
  <2> QED BY <2>1, <2>2
<1>2. CASE Release(w)
  <2>1. CacheTypeOK'
    BY <1>2 DEF Release
  <2>2. ASSUME NEW x \in Windows, x # w PROVE WindowInv(x)'
    <3>1. version' = version /\ asked' = asked /\ status' = status /\ seen' = seen /\ mode' = mode
      BY <1>2 DEF Release
    <3>2. check'[x] = check[x] /\ pending'[x] = pending[x] /\ skipped'[x] = skipped[x]
      BY <1>2, <2>2 DEF Release
    <3> QED BY <3>1, <3>2, OthersKeep, CacheAssumption DEF Versions
  <2>3. WindowInv(w)'
    BY <1>2, CacheAssumption DEF Release, WindowInv, Answered, Versions
  <2> QED BY <2>1, <2>2, <2>3
<1> QED BY <1>1, <1>2

-----------------------------------------------------------------------------
(* Steps of a check *)

LEMMA CheckReadInv == ASSUME CacheInv, NEW w \in Windows, CheckRead(w) PROVE CacheInv'
<1> USE DEF CacheInv, CacheTypeOK, Set, server, cache, saving
<1>1. CacheTypeOK'
  BY DEF CheckRead
<1>2. ASSUME NEW x \in Windows, x # w PROVE WindowInv(x)'
  <2>1. check'[x] = check[x] /\ status'[x] = status[x]
    BY <1>2 DEF CheckRead
  <2> QED BY <1>2, <2>1, OthersKeep, CacheAssumption DEF CheckRead, Versions
<1>3. WindowInv(w)'
  BY CacheAssumption DEF CheckRead, WindowInv, Answered, Versions
<1> QED BY <1>1, <1>2, <1>3

LEMMA CheckDoneInv == ASSUME CacheInv, NEW w \in Windows, CheckDone(w) PROVE CacheInv'
<1> USE DEF CacheInv, CacheTypeOK, Set, server
<1>1. /\ check[w] = "read" /\ seen' = Set(seen, w, status[w]) /\ local' = status[w]
      /\ check' = Set(check, w, IF pending[w] THEN "sent" ELSE "idle") /\ pending' = Set(pending, w, FALSE)
      /\ UNCHANGED <<version, mode, data, failed, got, status, held, skipped, asked, loads>>
  BY DEF CheckDone, NextCheck
<1>2. told' \in [Windows -> BOOLEAN]
  BY DEF CheckDone
<1>3. /\ invalid' \in [Windows -> BOOLEAN] /\ fetch' \in [Windows -> {"none", "sent", "read"}]
      /\ copy' = copy /\ due' \in [Windows -> BOOLEAN] /\ unsaved' \in [Windows -> BOOLEAN]
  BY DEF CheckDone, Refetch, Touched, saving
<1>4. CacheTypeOK'
  BY <1>1, <1>2, <1>3
<1>5. ASSUME NEW x \in Windows, x # w PROVE WindowInv(x)'
  <2>1. /\ version' = version /\ mode' = mode /\ status' = status /\ asked' = asked /\ skipped' = skipped
        /\ check'[x] = check[x] /\ pending'[x] = pending[x] /\ seen'[x] = seen[x]
    BY <1>1, <1>5
  <2> QED BY <2>1, OthersKeep, CacheAssumption DEF Versions
<1>6. WindowInv(w)'
  BY <1>1, CacheAssumption DEF WindowInv, Answered, Versions
<1> QED BY <1>4, <1>5, <1>6

LEMMA CheckFailsInv == ASSUME CacheInv, NEW w \in Windows, CheckFails(w) PROVE CacheInv'
<1> USE DEF CacheInv, CacheTypeOK, Set, server, cache, saving
<1>1. CacheTypeOK'
  BY CacheAssumption DEF CheckFails, NextCheck, Versions
<1>2. ASSUME NEW x \in Windows, x # w PROVE WindowInv(x)'
  <2>1. check'[x] = check[x] /\ pending'[x] = pending[x] /\ asked'[x] = asked[x]
    BY <1>2 DEF CheckFails, NextCheck
  <2> QED BY <1>2, <2>1, OthersKeep, CacheAssumption DEF CheckFails, Versions
<1>3. WindowInv(w)'
  BY CacheAssumption DEF CheckFails, NextCheck, WindowInv, Answered, Versions
<1> QED BY <1>1, <1>2, <1>3

-----------------------------------------------------------------------------
(* Windows that go and come *)

LEMMA HideType ==
  ASSUME CacheTypeOK, NEW w \in Windows, SaveOnHide(w)
  PROVE  copy' \in [data : Versions, invalid : BOOLEAN] \union {None}
BY ContentsType DEF SaveOnHide, CacheTypeOK

LEMMA HideInv == ASSUME CacheInv, NEW w \in Windows, Hide(w) PROVE CacheInv'
<1> USE DEF CacheInv, Set, server, cache, checking
<1>1. copy' \in [data : Versions, invalid : BOOLEAN] \union {None}
  BY HideType DEF Hide
<1>2. CacheTypeOK'
  BY <1>1 DEF Hide, CacheTypeOK
<1>3. ASSUME NEW x \in Windows PROVE WindowInv(x)'
  BY <1>3, OthersKeep, CacheAssumption DEF Hide, CacheTypeOK, Versions
<1> QED BY <1>2, <1>3

LEMMA CloseInv == ASSUME CacheInv, NEW w \in Windows, Close(w) PROVE CacheInv'
<1> USE DEF CacheInv, Set, server
<1>1. copy' \in [data : Versions, invalid : BOOLEAN] \union {None}
  BY HideType DEF Close
<1>2. CacheTypeOK'
  BY <1>1, CacheAssumption DEF Close, CacheTypeOK, Versions
<1>3. ASSUME NEW x \in Windows, x # w PROVE WindowInv(x)'
  <2>1. /\ asked'[x] = asked[x] /\ seen'[x] = seen[x] /\ check'[x] = check[x] /\ pending'[x] = pending[x]
        /\ skipped'[x] = skipped[x] /\ mode'[x] = mode[x]
    BY <1>3 DEF Close, CacheTypeOK
  <2>2. version' = version /\ status' = status
    BY DEF Close
  <2> QED BY <2>1, <2>2, OthersKeep, CacheAssumption DEF CacheTypeOK, Versions
<1>4. WindowInv(w)'
  BY CacheAssumption DEF Close, CacheTypeOK, WindowInv, Versions
<1> QED BY <1>2, <1>3, <1>4

\* A load asks for all that is committed
LEMMA RestoreInv ==
  ASSUME CacheInv, NEW w \in Windows, NEW c \in [data : Versions, invalid : BOOLEAN] \union {None},
         Restore(w, c), seen' = seen, copy' \in [data : Versions, invalid : BOOLEAN] \union {None}
  PROVE  CacheInv'
<1> USE DEF CacheInv, Set, server
<1>1. CacheTypeOK'
  <2>1. /\ data' \in [Windows -> Versions \union {None}] /\ invalid' \in [Windows -> BOOLEAN]
        /\ fetch' \in [Windows -> {"none", "sent", "read"}]
    BY DEF Restore, CacheTypeOK
  <2>2. loads' \in 0..MaxLoads
    BY CacheAssumption DEF Restore, CacheTypeOK
  <2> QED BY <2>1, <2>2 DEF Restore, CacheTypeOK
<1>2. ASSUME NEW x \in Windows, x # w PROVE WindowInv(x)'
  <2>1. /\ asked'[x] = asked[x] /\ check'[x] = check[x] /\ pending'[x] = pending[x]
        /\ skipped'[x] = skipped[x] /\ mode'[x] = mode[x]
    BY <1>2 DEF Restore, CacheTypeOK
  <2>2. version' = version /\ status' = status
    BY DEF Restore
  <2> QED BY <2>1, <2>2, OthersKeep, CacheAssumption DEF CacheTypeOK, Versions
<1>3. WindowInv(w)'
  BY CacheAssumption DEF Restore, CacheTypeOK, WindowInv, Answered, Versions
<1> QED BY <1>1, <1>2, <1>3

LEMMA LoadingInv == ASSUME CacheInv, NEW w \in Windows, Load(w) \/ Reload(w) PROVE CacheInv'
<1> DEFINE Copies == [data : Versions, invalid : BOOLEAN] \union {None}
<1>1. CASE Load(w)
  <2>1. PICK c \in Found(copy) : Restore(w, c)
    BY <1>1 DEF Load
  <2>2. copy \in Copies /\ c \in Copies /\ copy' \in Copies /\ seen' = seen
    BY <1>1 DEF Load, Found, CacheInv, CacheTypeOK
  <2> QED BY <2>1, <2>2, RestoreInv
<1>2. CASE Reload(w)
  <2>1. PICK c \in Found(copy') : Restore(w, c)
    BY <1>2 DEF Reload
  <2>2. copy' \in Copies
    BY <1>2, HideType DEF Reload, CacheInv
  <2>3. c \in Copies /\ seen' = seen
    BY <1>2, <2>2 DEF Reload, Found
  <2> QED BY <2>1, <2>2, <2>3, RestoreInv
<1> QED BY <1>1, <1>2

-----------------------------------------------------------------------------
LEMMA NextInv == CacheInv /\ [Next]_vars => CacheInv'
<1> SUFFICES ASSUME CacheInv, [Next]_vars PROVE CacheInv'
  OBVIOUS
<1>1. CASE UNCHANGED vars
  BY <1>1 DEF vars, server, cache, checking, saving, CacheInv, CacheTypeOK, WindowInv, Answered
<1>2. CASE Next
  BY <1>2, ChangeInv, DataInv, AskingInv, HoldingInv, CheckReadInv, CheckDoneInv, CheckFailsInv, HideInv, CloseInv, LoadingInv
     DEF Next, Fetching, Checking
<1> QED BY <1>1, <1>2

LEMMA CacheInvariant == Spec => []CacheInv
BY InitInv, NextInv, PTL DEF Spec

\* Every variable keeps its type; a check to come belongs to one under way, and a skipped one to a hold.
THEOREM CacheTypes == Spec => []CacheTypeOK
BY CacheInvariant, PTL DEF CacheInv

\* A focus, a timer, another window's marker or the end of a dialogue is never dropped: once no check
\* runs and nothing holds one back, what was committed when it came has been seen, or its check failed.
THEOREM NoReasonIsLost == Spec => []NoAskLost
<1>1. CacheInv => NoAskLost
  BY CacheAssumption DEF CacheInv, CacheTypeOK, WindowInv, Answered, NoAskLost, Versions
<1> QED BY <1>1, CacheInvariant, PTL

-----------------------------------------------------------------------------
(* Data and marker, while no page is loaded after the first: the marker of a window is its own *)

NoLoads == MaxLoads = 0

\* Data older than the marker is marked, and what a fetch has read is no older
Fresh(w) ==
  mode[w] # "closed" =>
    /\ data[w] # None /\ seen[w] # None
    /\ data[w] >= seen[w] \/ invalid[w]
    /\ fetch[w] = "read" => got[w] >= seen[w]

LEMMA FreshStays ==
  ASSUME NEW w \in Windows, Fresh(w), mode'[w] = mode[w] \/ mode[w] # "closed",
         data'[w] = data[w], seen'[w] = seen[w], invalid'[w] = invalid[w], got'[w] = got[w],
         fetch'[w] = fetch[w] \/ fetch'[w] # "read"
  PROVE  Fresh(w)'
BY DEF Fresh

LEMMA FreshStep ==
  ASSUME NoLoads, CacheInv, NEW w \in Windows, Fresh(w), [Next]_vars
  PROVE  Fresh(w)'
<1> USE DEF Set
<1>1. ASSUME NEW x \in Windows, FetchRead(x) PROVE Fresh(w)'
  <2>1. version \in Nat /\ (seen[x] # None => seen[x] <= version)
    BY CacheAssumption DEF CacheInv, CacheTypeOK, WindowInv, Versions
  <2>2. CASE x = w
    BY <1>1, <2>1, <2>2 DEF FetchRead, Fresh, CacheInv, CacheTypeOK, checking
  <2>3. CASE x # w
    BY <1>1, <2>3, FreshStays DEF FetchRead, CacheInv, CacheTypeOK, checking
  <2> QED BY <2>2, <2>3
<1>2. ASSUME NEW x \in Windows, FetchDone(x) PROVE Fresh(w)'
  <2>1. got[w] # None
    BY CacheAssumption DEF CacheInv, CacheTypeOK, Versions
  <2>2. CASE x = w
    BY <1>2, <2>1, <2>2 DEF FetchDone, Fresh, CacheInv, CacheTypeOK, checking
  <2>3. CASE x # w
    BY <1>2, <2>3, FreshStays DEF FetchDone, CacheInv, CacheTypeOK, checking
  <2> QED BY <2>2, <2>3
<1>3. ASSUME NEW x \in Windows, FetchFails(x) PROVE Fresh(w)'
  BY <1>3, FreshStays DEF FetchFails, CacheInv, CacheTypeOK, checking
<1>4. ASSUME NEW x \in Windows, CheckDone(x) PROVE Fresh(w)'
  <2>1. /\ seen' = [seen EXCEPT ![x] = status[x]] /\ UNCHANGED <<mode, data, got>>
        /\ IF Changed(x) THEN invalid' = [invalid EXCEPT ![x] = TRUE] /\ fetch' = Refetch(x) ELSE UNCHANGED <<invalid, fetch>>
    BY <1>4 DEF CheckDone
  <2>2. CASE x = w /\ mode[w] # "closed"
    <3>1. seen'[w] = status[w] /\ status[w] # None
      BY <2>1, <2>2, CacheAssumption DEF CacheInv, CacheTypeOK, Versions
    <3>2. CASE Changed(w)
      BY <2>1, <2>2, <3>1, <3>2 DEF Refetch, Fresh, CacheInv, CacheTypeOK
    <3>3. CASE ~Changed(w)
      BY <2>1, <2>2, <3>1, <3>3 DEF Changed, Previous, Fresh
    <3> QED BY <3>2, <3>3
  <2>3. CASE x # w
    BY <2>1, <2>3, FreshStays DEF Refetch, CacheInv, CacheTypeOK
  <2> QED BY <2>1, <2>2, <2>3 DEF Fresh
<1>5. ASSUME NEW x \in Windows, OtherQuery(x) \/ TimedSave(x) \/ Timer(x) \/ Hear(x) \/ Hold(x) \/ Release(x) \/ CheckRead(x) \/ CheckFails(x)
      PROVE  Fresh(w)'
  <2>1. UNCHANGED <<mode, data, invalid, fetch, got, seen>>
    BY <1>5 DEF OtherQuery, TimedSave, Timer, Hear, Hold, Release, CheckRead, CheckFails, cache, checking
  <2> QED BY <2>1, FreshStays
<1>6. ASSUME NEW x \in Windows, Focus(x) \/ Hide(x) PROVE Fresh(w)'
  BY <1>6, FreshStays DEF Focus, Hide, cache, checking, CacheInv, CacheTypeOK
<1>7. ASSUME NEW x \in Windows, Close(x) PROVE Fresh(w)'
  <2>1. CASE x = w
    BY <1>7, <2>1 DEF Close, Fresh, CacheInv, CacheTypeOK
  <2>2. CASE x # w
    BY <1>7, <2>2, FreshStays DEF Close, CacheInv, CacheTypeOK
  <2> QED BY <2>1, <2>2
<1>8. ASSUME NEW x \in Windows, Load(x) \/ Reload(x) PROVE FALSE
  BY <1>8 DEF Load, Reload, Restore, NoLoads, CacheInv, CacheTypeOK
<1>9. CASE Change \/ UNCHANGED vars
  BY <1>9, FreshStays DEF Change, vars, cache, checking
<1> QED BY <1>1, <1>2, <1>3, <1>4, <1>5, <1>6, <1>7, <1>8, <1>9 DEF Next, Fetching, Checking

\* Whatever fails, and however many windows tell one another: until a page is loaded anew, no window takes data
\* older than its marker for current.
THEOREM DataKeepsUp == ASSUME NoLoads PROVE Spec => []DataAsNewAsMarker
<1>1. Init => \A w \in Windows : Fresh(w)
  BY CacheAssumption DEF Init, Fresh
<1>2. CacheInv /\ (\A w \in Windows : Fresh(w)) /\ [Next]_vars => (\A w \in Windows : Fresh(w))'
  BY FreshStep
<1>3. (\A w \in Windows : Fresh(w)) => DataAsNewAsMarker
  BY DEF Fresh, DataAsNewAsMarker
<1> QED BY <1>1, <1>2, <1>3, CacheInvariant, PTL DEF Spec

-----------------------------------------------------------------------------
(* Data, copy and marker of a window that is alone, over any number of loads that find a copy *)

Alone == (\A w, x \in Windows : w = x) /\ "empty" \notin Faults

CopyOK == copy = None \/ copy.data >= local \/ copy.invalid

\* The marker is the one in local storage.  The copy is what the window would save, unless a save is due
Sole(w) ==
  /\ seen[w] \in {None, local} /\ local <= version
  /\ mode[w] = "closed" => CopyOK /\ check[w] = "idle" /\ fetch[w] = "none" /\ ~held[w]
  /\ mode[w] # "closed" =>
       /\ data[w] # None
       /\ data[w] >= local \/ invalid[w]
       /\ fetch[w] = "read" => got[w] >= local
       /\ ~unsaved[w] => copy = Contents(w)

LEMMA SoleStays ==
  ASSUME NEW w \in Windows, Sole(w), version \in Nat, version' \in Nat, local \in Nat, version <= version',
         mode'[w] = mode[w] \/ (mode[w] # "closed" /\ mode'[w] # "closed"),
         UNCHANGED <<local, data, seen, invalid, failed, got>>,
         fetch'[w] = fetch[w],
         mode[w] # "closed" \/ (check'[w] = check[w] /\ held'[w] = held[w] /\ copy' = copy),
         (unsaved' = unsaved /\ copy' = copy) \/ unsaved'[w] \/ copy' = Contents(w)
  PROVE  Sole(w)'
BY DEF Sole, CopyOK, Contents

\* Leaving saves what the window holds
LEMMA HideSaves ==
  ASSUME NEW w \in Windows, Sole(w), mode[w] # "closed", SaveOnHide(w)
  PROVE  copy' = Contents(w)
BY DEF Sole, SaveOnHide

LEMMA LeavesFresh ==
  ASSUME NEW w \in Windows, Sole(w), CacheTypeOK, mode[w] # "closed", copy' = Contents(w), local' = local
  PROVE  CopyOK'
BY DEF Sole, Contents, CopyOK

\* A load takes over what it finds
LEMMA RestoreSole ==
  ASSUME Alone, CacheInv, NEW w \in Windows, seen[w] \in {None, local}, local <= version, CopyOK',
         seen' = seen, NEW c \in Found(copy'), Restore(w, c), copy' \in [data : Versions, invalid : BOOLEAN] \union {None}
  PROVE  Sole(w)'
<1> USE DEF Set, server
<1>1. c = copy' /\ c # None /\ c \in [data : Versions, invalid : BOOLEAN]
  BY DEF Found, Alone
<1>2. /\ mode'[w] = "visible" /\ data'[w] = c.data /\ invalid'[w] = c.invalid /\ failed'[w] = FALSE
      /\ fetch'[w] \in {"sent", "none"} /\ unsaved'[w] = FALSE /\ UNCHANGED <<version, local>>
  BY <1>1 DEF Restore, CacheInv, CacheTypeOK
<1>3. c.data # None /\ c = [data |-> c.data, invalid |-> c.invalid]
  BY <1>1, CacheAssumption DEF Versions
<1>4. copy' = Contents(w)'
  BY <1>1, <1>2, <1>3 DEF Contents
<1>5. data'[w] >= local' \/ invalid'[w]
  BY <1>1, <1>2 DEF CopyOK
<1> QED BY <1>2, <1>3, <1>4, <1>5 DEF Sole

LEMMA SoleStep ==
  ASSUME Alone, CacheInv, NEW w \in Windows, Sole(w), Next
  PROVE  Sole(w)'
<1> USE DEF Set, CacheInv, server
<1>1. \A x \in Windows : x = w
  BY DEF Alone
<1>2. /\ version \in Nat /\ local \in Nat /\ status[w] \in Nat /\ status[w] <= version
      /\ got[w] \in Nat /\ got[w] # None /\ status[w] # None
  BY CacheAssumption DEF CacheTypeOK, WindowInv, Versions
<1>3. CASE FetchRead(w)
  BY <1>2, <1>3 DEF FetchRead, Sole, CopyOK, Contents, CacheTypeOK, checking, saving
<1>4. CASE FetchDone(w)
  BY <1>2, <1>4 DEF FetchDone, Touched, Sole, CacheTypeOK, checking
<1>5. CASE FetchFails(w)
  BY <1>2, <1>5 DEF FetchFails, Touched, Sole, CacheTypeOK, checking
<1>6. CASE CheckDone(w)
  <2>1. /\ check[w] = "read" /\ mode[w] # "closed" /\ seen'[w] = status[w] /\ local' = status[w]
        /\ UNCHANGED <<version, mode, data, failed, got>>
    BY <1>6 DEF CheckDone, Sole, CacheTypeOK
  <2>2. CASE Changed(w)
    <3>1. invalid'[w] = TRUE /\ fetch'[w] = "sent" /\ unsaved'[w] = TRUE
      BY <1>6, <2>1, <2>2 DEF CheckDone, Refetch, Touched, Sole, CacheTypeOK
    <3> QED BY <1>2, <2>1, <3>1 DEF Sole
  <2>3. CASE ~Changed(w)
    <3>1. UNCHANGED <<invalid, fetch, due, unsaved, copy>>
      BY <1>6, <2>3 DEF CheckDone, saving
    <3>2. status[w] = local
      BY <1>2, <2>3, CacheAssumption DEF Changed, Previous, Sole
    <3> QED BY <1>2, <2>1, <3>1, <3>2 DEF Sole, Contents
  <2> QED BY <2>2, <2>3
<1>7. CASE CheckRead(w) \/ CheckFails(w) \/ Timer(w) \/ Hear(w) \/ Hold(w) \/ Release(w)
  <2>1. UNCHANGED <<version, local, mode, data, seen, invalid, failed, got, fetch, unsaved, copy>>
    BY <1>7 DEF CheckRead, CheckFails, Timer, Hear, Hold, Release, server, cache, saving
  <2>2. mode[w] # "closed" \/ UNCHANGED <<check, held>>
    BY <1>7 DEF CheckRead, CheckFails, Timer, Hear, Hold, Release, Sole, CacheTypeOK
  <2> QED BY <1>2, <2>1, <2>2, SoleStays
<1>8. CASE OtherQuery(w) \/ TimedSave(w)
  <2>1. mode[w] # "closed" /\ UNCHANGED <<version, local, mode, data, seen, invalid, failed, got, fetch>>
    BY <1>8 DEF OtherQuery, TimedSave, server, cache, checking
  <2>2. unsaved'[w] \/ copy' = Contents(w)
    BY <1>8 DEF OtherQuery, TimedSave, Touched, CacheTypeOK
  <2> QED BY <1>2, <2>1, <2>2, SoleStays
<1>9. CASE Focus(w) \/ Hide(w)
  <2>1. mode[w] # "closed" /\ mode'[w] # "closed" /\ UNCHANGED <<version, local, data, seen, invalid, failed, got, fetch>>
    BY <1>9 DEF Focus, Hide, server, cache, checking, CacheTypeOK
  <2>2. (unsaved' = unsaved /\ copy' = copy) \/ copy' = Contents(w)
    BY <1>9, HideSaves DEF Focus, Hide, saving
  <2> QED BY <1>2, <2>1, <2>2, SoleStays
<1>10. CASE Close(w)
  <2>1. mode[w] # "closed" /\ copy' = Contents(w) /\ UNCHANGED <<version, local>>
    BY <1>10, HideSaves DEF Close, server
  <2>2. mode'[w] = "closed" /\ check'[w] = "idle" /\ fetch'[w] = "none" /\ held'[w] = FALSE /\ seen'[w] = None
    BY <1>10 DEF Close, CacheTypeOK
  <2> QED BY <2>1, <2>2, LeavesFresh DEF Sole
<1>11. CASE Load(w) \/ Reload(w)
  <2>1. copy' \in [data : Versions, invalid : BOOLEAN] \union {None} /\ seen' = seen /\ local' = local
    BY <1>11, HideType DEF Load, Reload, Restore, CacheTypeOK
  <2>2. CopyOK'
    <3>1. CASE Load(w)
      BY <3>1, <2>1 DEF Load, Sole, CopyOK
    <3>2. CASE Reload(w)
      BY <3>2, <2>1, HideSaves, LeavesFresh DEF Reload
    <3> QED BY <1>11, <3>1, <3>2
  <2>3. \E c \in Found(copy') : Restore(w, c)
    BY <1>11 DEF Load, Reload
  <2> QED BY <2>1, <2>2, <2>3, RestoreSole DEF Sole
<1>12. CASE Change
  BY <1>2, <1>12, SoleStays DEF Change, cache, checking, saving
<1> QED BY <1>1, <1>3, <1>4, <1>5, <1>6, <1>7, <1>8, <1>9, <1>10, <1>11, <1>12 DEF Next, Fetching, Checking

LEMMA InitSole == ASSUME Init, NEW w \in Windows PROVE Sole(w)
<1>1. mode[w] = "visible" /\ seen[w] = 0 /\ local = 0 /\ version = 0 /\ data[w] = 0 /\ fetch[w] = "none" /\ 0 # None
  BY CacheAssumption DEF Init
<1>2. Contents(w) = [data |-> 0, invalid |-> FALSE] /\ copy = [data |-> 0, invalid |-> FALSE]
  BY <1>1 DEF Init, Contents
<1> QED BY <1>1, <1>2 DEF Sole

LEMMA SoleInvariant == ASSUME Alone PROVE Spec => [](CacheInv /\ \A w \in Windows : Sole(w))
<1>1. Init => \A w \in Windows : Sole(w)
  BY InitSole
<1>2. (\A w \in Windows : Sole(w)) /\ UNCHANGED vars => (\A w \in Windows : Sole(w))'
  BY DEF vars, server, cache, checking, saving, Sole, CopyOK, Contents
<1>3. CacheInv /\ (\A w \in Windows : Sole(w)) /\ [Next]_vars => (\A w \in Windows : Sole(w))'
  BY <1>2, SoleStep
<1> QED BY <1>1, <1>3, CacheInvariant, PTL DEF Spec

\* A browser with one window that always finds its copy never takes old data for current, however often the page
\* is loaded, left and saved in between, and whatever fails.
THEOREM LoadsKeepUp == ASSUME Alone PROVE Spec => []DataAsNewAsMarker
<1>1. (\A w \in Windows : Sole(w)) => DataAsNewAsMarker
  BY DEF Sole, DataAsNewAsMarker
<1> QED BY <1>1, SoleInvariant, PTL

\* Nor does it leave behind a copy that is older than the marker and not marked.
THEOREM CopyKeepsUp == ASSUME Alone, Windows # {} PROVE Spec => []CopyAsNewAsMarker
<1>1. (\A w \in Windows : Sole(w)) => CopyAsNewAsMarker
  BY DEF Sole, CopyOK, CopyAsNewAsMarker
<1> QED BY <1>1, SoleInvariant, PTL
=============================================================================

--------------------------- MODULE SessionProofs ----------------------------
(***************************************************************************)
(* A session keeps one pair of tokens, and the browser keeps up with it as *)
(* long as the network is sound: for any number of tabs, calls and tokens. *)
(***************************************************************************)
EXTENDS Session, TLAPS

Steps == {"free", "sent", "arrived", "held", "cleared", "answered"}

\* What the rotations need to know of their own progress: whoever is past the
\* lock holds it, the session is alive, and the rows its DELETE saw are all there
\* are
RotationInv ==
  /\ issued \in Nat
  /\ step \in [Calls -> Steps]
  /\ seen \in [Calls -> SUBSET Nat]
  /\ OnePair
  /\ \A c \in Calls :
       /\ step[c] \in {"held", "cleared"} => holder = c /\ alive
       /\ step[c] = "cleared" => seen[c] = access

LEMMA RotationInit == Init => RotationInv
  BY SessionAssumption DEF Init, RotationInv, OnePair, Steps

\* The actions that touch no row of the session and no handler
LEMMA RotationUnchanged ==
  RotationInv /\ UNCHANGED <<alive, access, current, grace, issued, holder, step, seen>> => RotationInv'
  BY DEF RotationInv, OnePair

\* The actions that change no row and leave every handler where it was, but for
\* one that is free, sent, arrived or answered before and after
LEMMA RotationOutside ==
  ASSUME RotationInv, NEW c \in Calls, NEW s \in Steps, NEW w \in SUBSET Nat,
         step[c] \notin {"held", "cleared"}, s \notin {"held", "cleared"},
         step' = [step EXCEPT ![c] = s],
         seen' = seen \/ seen' = [seen EXCEPT ![c] = w],
         UNCHANGED <<alive, access, current, grace, issued, holder>>
  PROVE  RotationInv'
<1>1. /\ issued' \in Nat
      /\ step' \in [Calls -> Steps]
      /\ seen' \in [Calls -> SUBSET Nat]
  BY DEF RotationInv
<1>2. OnePair'
  BY DEF RotationInv, OnePair
<1>3. ASSUME NEW d \in Calls, step'[d] \in {"held", "cleared"}
      PROVE  d # c /\ step'[d] = step[d] /\ seen'[d] = seen[d]
  BY <1>3 DEF RotationInv
<1> QED
  BY <1>1, <1>2, <1>3 DEF RotationInv

LEMMA RotationStep == RotationInv /\ [Next]_vars => RotationInv'
<1> SUFFICES ASSUME RotationInv, [Next]_vars PROVE RotationInv'
  OBVIOUS
<1> USE SessionAssumption
<1>1. ASSUME NEW c \in Calls, Arrive(c) PROVE RotationInv'
  <2>1. "arrived" \in Steps /\ step[c] = "sent"
    BY <1>1 DEF Arrive, Steps
  <2> QED
    BY <1>1, <2>1, RotationOutside DEF Arrive, rows, browser
<1>2. ASSUME NEW c \in Calls, Deny(c) PROVE RotationInv'
  <2>1. "answered" \in Steps /\ step[c] = "arrived"
    BY <1>2 DEF Deny, Steps
  <2> QED
    BY <1>2, <2>1, RotationOutside DEF Deny, rows, browser
<1>3. ASSUME NEW c \in Calls, Hold(c) PROVE RotationInv'
  <2>1. step[c] = "arrived" /\ alive /\ holder = NoCall /\ holder' = c /\ step' = [step EXCEPT ![c] = "held"]
        /\ UNCHANGED <<alive, access, current, grace, issued, seen>>
    BY <1>3 DEF Hold, TakeRow, browser
  <2>2. \A d \in Calls : step[d] \notin {"held", "cleared"}
    BY <2>1 DEF RotationInv
  <2>3. step' \in [Calls -> Steps]
    BY <2>1 DEF RotationInv, Steps
  <2> QED
    BY <2>1, <2>2, <2>3 DEF RotationInv, OnePair
<1>4. ASSUME NEW c \in Calls, DropAccess(c) PROVE RotationInv'
  <2>1. step[c] = "held" /\ step' = [step EXCEPT ![c] = "cleared"] /\ seen' = [seen EXCEPT ![c] = access]
        /\ UNCHANGED <<alive, access, current, grace, issued, holder>>
    BY <1>4 DEF DropAccess, rows, browser
  <2>2. holder = c /\ alive /\ access \in SUBSET Nat
    BY <2>1 DEF RotationInv, OnePair
  <2>3. step' \in [Calls -> Steps] /\ seen' \in [Calls -> SUBSET Nat]
    BY <2>1, <2>2 DEF RotationInv, Steps
  <2> QED
    BY <2>1, <2>2, <2>3 DEF RotationInv, OnePair
<1>5. ASSUME NEW c \in Calls, Rotate(c) PROVE RotationInv'
  <2>1. /\ step[c] = "cleared" /\ step' = [step EXCEPT ![c] = "answered"]
        /\ issued' = issued + 1 /\ access' = (access \ seen[c]) \union {issued + 1}
        /\ grace' = current /\ current' = {issued + 1} /\ holder' = NoCall
        /\ UNCHANGED <<alive, seen>>
    BY <1>5 DEF Rotate, browser
  <2>2. holder = c /\ alive /\ seen[c] = access
    BY <2>1 DEF RotationInv
  <2>3. access' = {issued'} /\ current' = {issued'} /\ \A j, k \in grace' : j = k
    BY <2>1, <2>2 DEF RotationInv, OnePair
  <2>4. \A d \in Calls : step'[d] \notin {"held", "cleared"}
    BY <2>1, <2>2 DEF RotationInv
  <2>5. step' \in [Calls -> Steps] /\ issued' \in Nat
    BY <2>1 DEF RotationInv, Steps
  <2> QED
    BY <2>1, <2>3, <2>4, <2>5 DEF RotationInv, OnePair
<1>6. ASSUME NEW c \in Calls, Logout(c) PROVE RotationInv'
  <2>1. /\ step[c] = "sent" /\ holder = NoCall /\ step' = [step EXCEPT ![c] = "answered"]
        /\ UNCHANGED <<issued, holder, seen>>
        /\ ~alive' \/ UNCHANGED <<alive, access, current, grace>>
    BY <1>6 DEF Logout, EndRows, browser
  <2>2. \A d \in Calls : step'[d] \notin {"held", "cleared"}
    BY <2>1 DEF RotationInv
  <2>3. step' \in [Calls -> Steps]
    BY <2>1 DEF RotationInv, Steps
  <2> QED
    BY <2>1, <2>2, <2>3 DEF RotationInv, OnePair
<1>7. ASSUME NEW c \in Calls, Deliver(c) \/ Lose(c) PROVE RotationInv'
  <2>1. "free" \in Steps /\ step[c] \notin {"held", "cleared"} /\ {} \in SUBSET Nat
    BY <1>7 DEF Deliver, Lose, Steps
  <2>2. step' = [step EXCEPT ![c] = "free"] /\ seen' = [seen EXCEPT ![c] = {}]
        /\ UNCHANGED <<alive, access, current, grace, issued, holder>>
    BY <1>7 DEF Deliver, Lose, Free, rows
  <2> QED
    BY <2>1, <2>2, RotationOutside
<1>8. ASSUME NEW t \in Tabs, NEW c \in Calls, Send(t, c) \/ Leave(t, c) PROVE RotationInv'
  <2>1. /\ "sent" \in Steps /\ step[c] = "free" /\ step' = [step EXCEPT ![c] = "sent"]
        /\ UNCHANGED <<seen, alive, access, current, grace, issued, holder>>
    BY <1>8 DEF Send, Leave, SendCall, Steps, rows
  <2> QED
    BY <2>1, RotationOutside
<1>9. ASSUME NEW t \in Tabs, Open(t) \/ Renew(t) \/ Wake(t) \/ GiveUp(t) \/ Close(t) PROVE RotationInv'
  BY <1>9, RotationUnchanged DEF Open, Renew, Wake, GiveUp, Close, rows, handling
<1>10. ASSUME LockLapses PROVE RotationInv'
  BY <1>10, RotationUnchanged DEF LockLapses, rows, handling
<1>11. ASSUME Prune PROVE RotationInv'
  BY <1>11 DEF Prune, RotationInv, OnePair, handling
<1>12. ASSUME NEW k \in grace, GraceEnds(k) PROVE RotationInv'
  BY <1>12, RotationUnchanged DEF GraceEnds, handling
<1>13. ASSUME End PROVE RotationInv'
  BY <1>13 DEF End, EndRows, RotationInv, OnePair, handling
<1>14. CASE UNCHANGED vars
  BY <1>14, RotationUnchanged DEF vars, rows, handling
<1> QED
  BY <1>1, <1>2, <1>3, <1>4, <1>5, <1>6, <1>7, <1>8, <1>9, <1>10, <1>11, <1>12, <1>13, <1>14
  DEF Next, Serve, Act

\* However many tabs refresh and log out at once, a session never keeps two access
\* tokens or two current refresh tokens: the lock get_active_session_by_id takes
\* orders the rotations
THEOREM OnePairAlways == Spec => []OnePair
<1>1. Spec => []RotationInv
  BY RotationInit, RotationStep, PTL DEF Spec
<1>2. RotationInv => OnePair
  BY DEF RotationInv
<1> QED
  BY <1>1, <1>2, PTL

-----------------------------------------------------------------------------
(* Types *)

RowTypes ==
  /\ alive \in BOOLEAN /\ issued \in Tokens
  /\ access \subseteq 1..issued /\ current \subseteq 1..issued /\ grace \subseteq 1..issued /\ over \subseteq grace
  /\ holder \in Calls \union {NoCall}

CallTypes ==
  /\ step \in [Calls -> Steps]
  /\ with \in [Calls -> 0..MaxTokens] /\ bearer \in [Calls -> 0..MaxTokens] /\ pair \in [Calls -> 0..MaxTokens]
  /\ began \in [Calls -> SUBSET Tokens] /\ seen \in [Calls -> SUBSET Tokens]
  /\ answer \in [Calls -> {"none", "renewed", "refused", "rotated", "left"}]

Phases == {"closed", "out", "failed", "in", "waiting", "refreshing", "losing", "leaving"}

TabTypes ==
  /\ jar \in 0..MaxTokens /\ flag \in BOOLEAN /\ lock \in Tabs \union {NoTab}
  /\ phase \in [Tabs -> Phases]
  /\ holds \in [Tabs -> 0..MaxTokens] /\ waitsFor \in [Tabs -> Calls \union {NoCall}]
  /\ tries \in [Tabs -> 0..1]

Counts ==
  /\ begun \in 0..MaxTokens
  /\ newest \in Tokens /\ refused \in BOOLEAN /\ strained \in BOOLEAN

Types == RowTypes /\ CallTypes /\ TabTypes /\ Counts

LEMMA TypesAreTypeOK == Types <=> SessionTypeOK
BY DEF Types, RowTypes, CallTypes, TabTypes, Counts, SessionTypeOK, Steps, Phases

LEMMA InitTypes == Init => Types
<1> SUFFICES ASSUME Init PROVE Types
  OBVIOUS
<1>1. MaxTokens \in Nat /\ 1 \in Tokens /\ {0, 1} \subseteq 0..MaxTokens
  BY SessionAssumption DEF Tokens
<1>2. RowTypes
  BY <1>1 DEF Init, RowTypes
<1>3. CallTypes
  BY <1>1 DEF Init, CallTypes, Steps
<1>4. TabTypes
  BY <1>1 DEF Init, TabTypes, Phases
<1>5. Counts
  BY <1>1 DEF Init, Counts
<1> QED BY <1>2, <1>3, <1>4, <1>5 DEF Types

\* What leaves part of the state alone
LEMMA TypesStay ==
  ASSUME Types
  PROVE  /\ UNCHANGED rows => RowTypes'
         /\ UNCHANGED handling => CallTypes'
         /\ UNCHANGED <<jar, flag, lock, phase, holds, waitsFor, tries>> => TabTypes'
         /\ UNCHANGED <<begun, newest, refused, strained>> => Counts'
BY DEF Types, RowTypes, CallTypes, TabTypes, Counts, rows, handling

\* The handlers
LEMMA ServeTypes == ASSUME Types, NEW c \in Calls, Serve(c) PROVE Types'
<1> USE DEF Types
<1>1. MaxTokens \in Nat /\ issued \in Nat /\ 1..issued \subseteq Tokens
  BY SessionAssumption DEF RowTypes, Tokens
<1>2. ASSUME Arrive(c) \/ Hold(c) \/ Deny(c) \/ DropAccess(c) \/ Logout(c) PROVE RowTypes'
  BY <1>2 DEF Arrive, Hold, TakeRow, Deny, DropAccess, Logout, EndRows, rows, RowTypes
<1>3. ASSUME Rotate(c) PROVE RowTypes'
  BY <1>1, <1>3 DEF Rotate, RowTypes, Tokens
<1>4. CallTypes'
  <2>1. over \in SUBSET Tokens /\ access \in SUBSET Tokens
    BY <1>1 DEF RowTypes
  <2>2. Rotate(c) => issued + 1 \in 0..MaxTokens
    BY <1>1 DEF Rotate
  <2>3. step' \in [Calls -> Steps]
    BY DEF Serve, Arrive, Hold, Deny, DropAccess, Rotate, Logout, CallTypes, Steps
  <2>4. UNCHANGED <<with, bearer>> /\ pair' \in [Calls -> 0..MaxTokens]
    BY <2>2 DEF Serve, Arrive, Hold, Deny, DropAccess, Rotate, Logout, CallTypes
  <2>5. began' \in [Calls -> SUBSET Tokens] /\ seen' \in [Calls -> SUBSET Tokens]
    BY <2>1 DEF Serve, Arrive, Hold, Deny, DropAccess, Rotate, Logout, CallTypes
  <2>6. answer' \in [Calls -> {"none", "renewed", "refused", "rotated", "left"}]
    BY DEF Serve, Arrive, Hold, Deny, Verdict, DropAccess, Rotate, Logout, CallTypes
  <2> QED BY <2>3, <2>4, <2>5, <2>6 DEF CallTypes
<1>5. UNCHANGED browser /\ TabTypes'
  BY DEF Serve, Arrive, Hold, Deny, DropAccess, Rotate, Logout, browser, TabTypes
<1>6. Counts'
  BY <1>5 DEF Serve, Arrive, Hold, Deny, DropAccess, Rotate, Logout, browser, Counts
<1> QED BY <1>2, <1>3, <1>4, <1>5, <1>6 DEF Serve

\* A call is over for the browser
LEMMA FreeTypes == ASSUME CallTypes, NEW c \in Calls, Free(c) PROVE CallTypes'
<1>1. 0 \in 0..MaxTokens
  BY SessionAssumption
<1> QED BY <1>1 DEF Free, CallTypes, Steps

LEMMA SettledTypes ==
  ASSUME TabTypes, NEW t \in Tabs, NEW n \in 0..MaxTokens,
         TakeToken(t, n) \/ SignOut(t) \/ Unavailable(t) \/ (Become(t, "losing") /\ UNCHANGED <<flag, lock, holds, tries>>)
  PROVE  /\ flag' \in BOOLEAN /\ lock' \in Tabs \union {NoTab} /\ phase' \in [Tabs -> Phases]
         /\ holds' \in [Tabs -> 0..MaxTokens] /\ tries' \in [Tabs -> 0..1]
<1>1. 0 \in 0..MaxTokens
  BY SessionAssumption
<1>2. CASE TakeToken(t, n)
  BY <1>2 DEF TakeToken, Become, Released, TabTypes, Phases
<1>3. CASE SignOut(t)
  BY <1>1, <1>3 DEF SignOut, Become, Released, TabTypes, Phases
<1>4. CASE Unavailable(t)
  <2>1. phase' \in [Tabs -> Phases]
    BY <1>4 DEF Unavailable, Become, TabTypes, Phases
  <2>2. tries' \in [Tabs -> 0..1]
    BY <1>4 DEF Unavailable, TabTypes
  <2> QED BY <1>4, <2>1, <2>2 DEF Unavailable, Released, TabTypes
<1>5. CASE Become(t, "losing") /\ UNCHANGED <<flag, lock, holds, tries>>
  BY <1>5 DEF Become, TabTypes, Phases
<1> QED BY <1>2, <1>3, <1>4, <1>5

LEMMA AnswerTypes == ASSUME Types, NEW c \in Calls, Deliver(c) \/ Lose(c) PROVE Types'
<1>1. CallTypes' /\ RowTypes'
  BY FreeTypes, TypesStay DEF Deliver, Lose, Types
<1>2. pair[c] \in 0..MaxTokens /\ jar' \in 0..MaxTokens
  <2>1. pair[c] \in 0..MaxTokens /\ jar \in 0..MaxTokens
    BY DEF Types, CallTypes, TabTypes
  <2> QED BY <2>1 DEF Deliver, Lose, Cookie
<1>3. Counts'
  <2>1. newest \in Tokens /\ (pair[c] > newest => pair[c] \in Tokens)
    BY <1>2, SessionAssumption DEF Types, Counts, Tokens
  <2>2. newest' \in Tokens
    BY <2>1 DEF Deliver, Lose
  <2>3. strained' \in BOOLEAN
    BY DEF Deliver, Lose, Overtaken, Types, Counts
  <2> QED BY <2>2, <2>3 DEF Deliver, Lose, Types, Counts
<1>4. TabTypes'
  <2>1. CASE UNCHANGED <<flag, lock, phase, holds, waitsFor, tries>>
    BY <1>2, <2>1 DEF Types, TabTypes
  <2>2. ASSUME NEW t \in Tabs, Done(t), React(t, c) \/ SignOut(t) \/ Unavailable(t) PROVE TabTypes'
    <3>1. waitsFor' \in [Tabs -> Calls \union {NoCall}]
      BY <2>2 DEF Done, Types, TabTypes
    <3>2. /\ flag' \in BOOLEAN /\ lock' \in Tabs \union {NoTab} /\ phase' \in [Tabs -> Phases]
          /\ holds' \in [Tabs -> 0..MaxTokens] /\ tries' \in [Tabs -> 0..1]
      BY <1>2, <2>2, SettledTypes DEF React, Types
    <3> QED BY <1>2, <3>1, <3>2 DEF TabTypes
  <2> QED BY <2>1, <2>2 DEF Deliver, Lose
<1> QED BY <1>1, <1>3, <1>4 DEF Types

\* The tabs
LEMMA ActTypes == ASSUME Types, NEW t \in Tabs, Act(t) PROVE Types'
<1>1. 0 \in 0..MaxTokens /\ MaxTokens \in Nat
  BY SessionAssumption
<1>2. RowTypes'
  BY TypesStay DEF Act, Open, Renew, Wake, GiveUp, Close, Send, Leave, SendCall
<1>3. ASSUME Open(t) \/ Renew(t) \/ Wake(t) \/ GiveUp(t) \/ Close(t) PROVE Types'
  <2>1. CallTypes'
    BY <1>3, TypesStay DEF Open, Renew, Wake, GiveUp, Close
  <2>2. phase' \in [Tabs -> Phases]
    BY <1>3 DEF Open, Renew, Wake, GiveUp, Close, Begin, Become, Types, TabTypes, Phases
  <2>3. lock' \in Tabs \union {NoTab}
    BY <1>3 DEF Open, Renew, Wake, GiveUp, Close, Begin, Released, Types, TabTypes
  <2>4. tries' \in [Tabs -> 0..1] /\ holds' \in [Tabs -> 0..MaxTokens]
    BY <1>1, <1>3 DEF Open, Renew, Wake, GiveUp, Close, Types, TabTypes
  <2>5. waitsFor' \in [Tabs -> Calls \union {NoCall}] /\ UNCHANGED <<jar, flag, newest, refused, strained>>
    BY <1>3 DEF Open, Renew, Wake, GiveUp, Close, Done, Types, TabTypes
  <2>6. begun' \in 0..MaxTokens
    BY <1>1, <1>3 DEF Open, Renew, Wake, GiveUp, Close, Room, Types, Counts
  <2> QED BY <1>2, <2>1, <2>2, <2>3, <2>4, <2>5, <2>6 DEF Types, TabTypes, Counts
<1>4. ASSUME NEW c \in Calls, Send(t, c) \/ Leave(t, c) PROVE Types'
  <2>1. PICK token \in 0..MaxTokens : SendCall(t, c, token)
    BY <1>1, <1>4 DEF Send, Leave, Types, TabTypes
  <2>2. CallTypes'
    BY <2>1 DEF SendCall, Types, CallTypes, TabTypes, Steps
  <2>3. TabTypes' /\ Counts'
    BY <1>4, <2>1 DEF Send, Leave, SendCall, Become, Types, TabTypes, Counts, Phases
  <2> QED BY <1>2, <2>2, <2>3 DEF Types
<1> QED BY <1>3, <1>4 DEF Act

LEMMA NextTypes == Types /\ [Next]_vars => Types'
<1> SUFFICES ASSUME Types, [Next]_vars PROVE Types'
  OBVIOUS
<1>1. ASSUME Prune \/ End \/ \E k \in grace : GraceEnds(k) PROVE Types'
  <2>1. RowTypes'
    BY <1>1 DEF Prune, End, EndRows, GraceEnds, Types, RowTypes
  <2>2. UNCHANGED <<handling, browser, newest, refused>> /\ strained' \in BOOLEAN
    BY <1>1 DEF Prune, End, GraceEnds, Overdue, Types, Counts
  <2> QED BY <2>1, <2>2, TypesStay DEF browser, Types, Counts
<1>2. CASE LockLapses
  BY <1>2, TypesStay DEF LockLapses, Types, TabTypes
<1>3. CASE UNCHANGED vars
  BY <1>3, TypesStay DEF vars, browser, Types
<1> QED BY <1>1, <1>2, <1>3, ServeTypes, AnswerTypes, ActTypes DEF Next

\* Calls, tokens and tabs are what they are meant to be, and every token of a row has been issued.
THEOREM SessionTypes == Spec => []SessionTypeOK
BY InitTypes, NextTypes, TypesAreTypeOK, PTL DEF Spec

-----------------------------------------------------------------------------
(* What the browser knows of the rotations, while the network is sound *)

\* A pair is under way from its commit until it is delivered, and what is in its grace has been replaced
PairInv ==
  /\ \A c \in Calls : step[c] # "answered" => pair[c] = 0
  /\ \A c \in Calls : pair[c] # 0 => answer[c] = "renewed"
  /\ \A c \in Calls : answer[c] = "renewed" => pair[c] # 0
  /\ \A c \in Calls : pair[c] <= issued
  /\ \A c \in Calls : step[c] = "free" => with[c] = 0 /\ began[c] = {}
  /\ newest <= issued
  /\ \A k \in grace : k < issued

\* The last pair has been delivered or is under way
Reaches == newest = issued \/ \E c \in Calls : pair[c] = issued

\* No call is sent with a token past its grace, or was when it arrived
Timely ==
  /\ \A k \in over : k < newest /\ \A c \in Calls : with[c] # k
  /\ \A c \in Calls : with[c] \notin began[c]

NetworkInv ==
  /\ PairInv
  /\ strained \/ (jar \in {0, newest} /\ Reaches /\ Timely)
  /\ refused => strained

BrowserInv == RotationInv /\ Types /\ NetworkInv

LEMMA InitNetwork == Init => NetworkInv
BY SessionAssumption DEF Init, NetworkInv, PairInv, Reaches, Timely

\* Rows and calls that stay as they are
LEMMA NetworkStays ==
  ASSUME NetworkInv, UNCHANGED <<grace, over, issued, handling, jar, newest, refused, strained>>
  PROVE  NetworkInv'
BY DEF NetworkInv, PairInv, Reaches, Timely, handling

\* The numbers in a state
LEMMA Numbers ==
  ASSUME Types
  PROVE  /\ MaxTokens \in Nat /\ issued \in Nat /\ newest \in Nat /\ jar \in Nat /\ newest >= 1
         /\ \A c \in Calls : pair[c] \in Nat /\ with[c] \in Nat /\ began[c] \subseteq Nat
         /\ grace \subseteq Nat /\ over \subseteq grace /\ \A k \in grace : k >= 1
BY SessionAssumption DEF Types, RowTypes, CallTypes, TabTypes, Counts, Tokens

LEMMA ServeNetwork == ASSUME BrowserInv, NEW c \in Calls, Serve(c) PROVE NetworkInv'
<1> USE Numbers DEF BrowserInv
<1>1. CASE Arrive(c)
  <2>1. step[c] = "sent" /\ step' = [step EXCEPT ![c] = "arrived"] /\ began' = [began EXCEPT ![c] = over]
        /\ UNCHANGED <<issued, grace, over, with, pair, answer, jar, newest, refused, strained>>
    BY <1>1 DEF Arrive, rows, browser
  <2>2. PairInv'
    BY <2>1 DEF NetworkInv, PairInv, Types, CallTypes
  <2>3. Timely => Timely'
    BY <2>1 DEF Timely, Types, CallTypes
  <2> QED BY <2>1, <2>2, <2>3 DEF NetworkInv, Reaches
<1>2. CASE Hold(c) \/ DropAccess(c)
  <2>1. step' \in [Calls -> Steps] /\ (\A d \in Calls : step'[d] \in {"free", "answered"} <=> step[d] \in {"free", "answered"})
        /\ (\A d \in Calls : step'[d] = step[d] \/ (d = c /\ step[d] \notin {"free", "answered"} /\ step'[d] \notin {"free", "answered"}))
        /\ UNCHANGED <<issued, grace, over, with, pair, began, answer, jar, newest, refused, strained>>
    BY <1>2 DEF Hold, TakeRow, DropAccess, rows, browser, Types, CallTypes, Steps
  <2>2. PairInv'
    BY <2>1 DEF NetworkInv, PairInv
  <2> QED BY <2>1, <2>2 DEF NetworkInv, Reaches, Timely
<1>3. CASE Deny(c)
  <2>1. /\ step[c] = "arrived" /\ step' = [step EXCEPT ![c] = "answered"] /\ answer' = [answer EXCEPT ![c] = Verdict(c)]
        /\ refused' = (refused \/ (alive /\ with[c] # 0 /\ Verdict(c) = "refused"))
        /\ alive => ~Active(with[c], began[c])
        /\ UNCHANGED <<issued, grace, over, with, pair, began, jar, newest, strained>>
    BY <1>3 DEF Deny, rows, browser
  <2>2. Verdict(c) \in {"rotated", "refused"} /\ pair[c] = 0
    BY <2>1 DEF Verdict, NetworkInv, PairInv
  <2>3. PairInv'
    BY <2>1, <2>2 DEF NetworkInv, PairInv, Types, CallTypes
  <2>4. ASSUME alive, with[c] # 0, Verdict(c) = "refused" PROVE with[c] \in began[c]
    BY <2>1, <2>4 DEF Verdict, Active
  <2> QED BY <2>1, <2>3, <2>4 DEF NetworkInv, Reaches, Timely
<1>4. CASE Rotate(c)
  <2>1. /\ step[c] = "cleared" /\ step' = [step EXCEPT ![c] = "answered"] /\ answer' = [answer EXCEPT ![c] = "renewed"]
        /\ pair' = [pair EXCEPT ![c] = issued + 1] /\ issued' = issued + 1 /\ grace' = current /\ over' = {}
        /\ UNCHANGED <<with, began, jar, newest, refused, strained>>
    BY <1>4 DEF Rotate, browser
  <2>2. current = {issued}
    BY <2>1 DEF RotationInv, OnePair
  <2>3. PairInv'
    BY <2>1, <2>2 DEF NetworkInv, PairInv, Types, CallTypes
  <2>4. Reaches' /\ (Timely => Timely')
    BY <2>1 DEF Reaches, Timely, Types, CallTypes
  <2> QED BY <2>1, <2>3, <2>4 DEF NetworkInv
<1>5. CASE Logout(c)
  <2>1. /\ step[c] = "sent" /\ step' = [step EXCEPT ![c] = "answered"] /\ answer' = [answer EXCEPT ![c] = "left"]
        /\ grace' \subseteq grace /\ over' \subseteq over
        /\ UNCHANGED <<issued, with, pair, began, jar, newest, refused, strained>>
    BY <1>5 DEF Logout, EndRows, browser
  <2>2. PairInv'
    BY <2>1 DEF NetworkInv, PairInv, Types, CallTypes
  <2> QED BY <2>1, <2>2 DEF NetworkInv, Reaches, Timely
<1> QED BY <1>1, <1>2, <1>3, <1>4, <1>5 DEF Serve

\* An answer that is delivered in order brings the cookie up to date; one that is lost strains the network
LEMMA AnswerNetwork == ASSUME BrowserInv, NEW c \in Calls, Deliver(c) \/ Lose(c) PROVE NetworkInv'
<1> USE Numbers DEF BrowserInv
<1>1. /\ step' = [step EXCEPT ![c] = "free"] /\ with' = [with EXCEPT ![c] = 0] /\ began' = [began EXCEPT ![c] = {}]
      /\ answer' = [answer EXCEPT ![c] = "none"] /\ pair' = [pair EXCEPT ![c] = 0]
      /\ UNCHANGED <<issued, grace, over, refused>>
  BY DEF Deliver, Lose, Free, rows
<1>2. newest' \in {newest, pair[c]} /\ newest' >= newest /\ newest' <= issued
  BY DEF Deliver, Lose, NetworkInv, PairInv
<1>3. PairInv'
  <2>1. \A d \in Calls : d # c => step'[d] = step[d] /\ with'[d] = with[d] /\ began'[d] = began[d] /\ answer'[d] = answer[d] /\ pair'[d] = pair[d]
    BY <1>1 DEF Types, CallTypes
  <2>2. step'[c] = "free" /\ with'[c] = 0 /\ began'[c] = {} /\ answer'[c] = "none" /\ pair'[c] = 0
    BY <1>1 DEF Types, CallTypes
  <2> QED BY <1>1, <1>2, <2>1, <2>2 DEF NetworkInv, PairInv
<1>4. Timely => Timely'
  BY <1>1, <1>2 DEF Timely, Types, CallTypes
<1>5. ASSUME ~strained' PROVE ~strained /\ (answer[c] = "renewed" => Deliver(c) /\ newest' = pair[c])
  <2>1. ~strained /\ (answer[c] = "renewed" => Deliver(c))
    BY <1>5 DEF Deliver, Lose, Types, Counts
  <2>2. ASSUME answer[c] = "renewed" PROVE newest' = pair[c]
    <3>1. ~Overtaken(c)
      BY <1>5, <2>1, <2>2 DEF Deliver
    <3> QED BY <2>1, <2>2, <3>1 DEF Deliver, Overtaken
  <2> QED BY <2>1, <2>2
<1>6. ASSUME ~strained' PROVE jar' \in {0, newest'}
  <2>1. CASE answer[c] = "renewed"
    BY <1>5, <1>6, <2>1 DEF Deliver, Cookie
  <2>2. CASE answer[c] # "renewed"
    <3>1. pair[c] = 0
      BY <2>2 DEF NetworkInv, PairInv
    <3> QED BY <1>5, <1>6, <3>1 DEF Deliver, Lose, Cookie, NetworkInv
  <2> QED BY <2>1, <2>2
<1>7. ASSUME ~strained' PROVE Reaches'
  <2>1. Reaches
    BY <1>5, <1>7 DEF NetworkInv
  <2>2. CASE newest = issued
    BY <1>1, <1>2, <2>2 DEF Reaches
  <2>3. ASSUME NEW d \in Calls, pair[d] = issued PROVE Reaches'
    <3>1. CASE d = c
      <4>1. answer[c] = "renewed"
        BY <2>3, <3>1 DEF NetworkInv, PairInv, Types, RowTypes, Tokens
      <4> QED BY <1>1, <1>5, <1>7, <2>3, <3>1, <4>1 DEF Reaches
    <3>2. CASE d # c
      BY <1>1, <2>3, <3>2 DEF Reaches, Types, CallTypes
    <3> QED BY <3>1, <3>2
  <2> QED BY <2>1, <2>2, <2>3 DEF Reaches
<1> QED BY <1>1, <1>3, <1>4, <1>5, <1>6, <1>7 DEF NetworkInv

LEMMA NextNetwork == BrowserInv /\ [Next]_vars => NetworkInv'
<1> SUFFICES ASSUME BrowserInv, [Next]_vars PROVE NetworkInv'
  OBVIOUS
<1> USE Numbers DEF BrowserInv
<1>1. ASSUME NEW t \in Tabs, Open(t) \/ Renew(t) \/ Wake(t) \/ GiveUp(t) \/ Close(t) PROVE NetworkInv'
  BY <1>1, NetworkStays DEF Open, Renew, Wake, GiveUp, Close, rows
<1>2. ASSUME NEW t \in Tabs, NEW c \in Calls, Send(t, c) \/ Leave(t, c) PROVE NetworkInv'
  <2>1. /\ step[c] = "free" /\ step' = [step EXCEPT ![c] = "sent"] /\ with' = [with EXCEPT ![c] = jar]
        /\ UNCHANGED <<grace, over, issued, began, answer, pair, jar, newest, refused, strained>>
    BY <1>2 DEF Send, Leave, SendCall, rows
  <2>2. PairInv'
    BY <2>1 DEF NetworkInv, PairInv, Types, CallTypes
  <2>3. ASSUME Timely, jar \in {0, newest} PROVE Timely'
    <3>1. jar \notin over /\ began[c] = {}
      BY <2>1, <2>3 DEF Timely, NetworkInv, PairInv
    <3> QED BY <2>1, <2>3, <3>1 DEF Timely, Types, CallTypes
  <2> QED BY <2>1, <2>2, <2>3 DEF NetworkInv, Reaches
<1>3. ASSUME Prune \/ End PROVE NetworkInv'
  <2>1. grace' \subseteq grace /\ over' = {} /\ UNCHANGED <<issued, handling, jar, newest, refused, strained>>
    BY <1>3 DEF Prune, End, EndRows, browser
  <2> QED BY <2>1 DEF NetworkInv, PairInv, Reaches, Timely, handling
<1>4. ASSUME NEW k \in grace, GraceEnds(k) PROVE NetworkInv'
  <2>1. over' = over \union {k} /\ UNCHANGED <<grace, issued, handling, jar, newest, refused>>
    BY <1>4 DEF GraceEnds, browser
  <2>2. PairInv'
    BY <2>1 DEF NetworkInv, PairInv, handling
  <2>3. strained => strained'
    BY <1>4 DEF GraceEnds
  <2>4. ASSUME ~strained' PROVE ~strained /\ ~Overdue(k)
    BY <1>4, <2>4 DEF GraceEnds
  <2>5. ASSUME ~strained' PROVE k < newest /\ \A c \in Calls : with[c] # k
    <3>1. \A c \in Calls : with[c] = k \/ pair[c] > k => step[c] = "free"
      BY <2>4, <2>5 DEF Overdue, InFlight
    <3>2. \A c \in Calls : with[c] # k /\ ~(pair[c] > k)
      BY <3>1 DEF NetworkInv, PairInv
    <3>3. Reaches /\ k < issued
      BY <2>4, <2>5 DEF NetworkInv, PairInv
    <3> QED BY <3>2, <3>3 DEF Reaches
  <2>6. ASSUME ~strained' PROVE Reaches' /\ Timely' /\ jar' \in {0, newest'}
    BY <2>1, <2>4, <2>5, <2>6 DEF NetworkInv, Reaches, Timely, handling
  <2>7. refused' => strained'
    BY <2>1, <2>3 DEF NetworkInv
  <2> QED BY <2>2, <2>6, <2>7 DEF NetworkInv
<1>5. CASE LockLapses
  BY <1>5, NetworkStays DEF LockLapses, rows
<1>6. CASE UNCHANGED vars
  BY <1>6, NetworkStays DEF vars, rows, browser
<1> QED BY <1>1, <1>2, <1>3, <1>4, <1>5, <1>6, ServeNetwork, AnswerNetwork DEF Next, Act

LEMMA BrowserInvariant == Spec => []BrowserInv
<1>1. BrowserInv /\ [Next]_vars => BrowserInv'
  BY RotationStep, NextTypes, NextNetwork DEF BrowserInv
<1> QED BY <1>1, RotationInit, InitTypes, InitNetwork, PTL DEF Spec, BrowserInv

\* Any number of tabs that share one cookie refresh side by side without ever being signed out, unless the
\* network lost an answer, delivered two in the wrong order or held one back past the grace.
THEOREM TabsAreNotRefused == Spec => []NeverRefusedByTabs
<1>1. BrowserInv => NeverRefusedByTabs
  BY DEF BrowserInv, NetworkInv, NeverRefusedByTabs
<1> QED BY <1>1, BrowserInvariant, PTL

\* Once nothing is under way on a sound network, the cookie is the token the server takes.
THEOREM CookieIsCurrent == Spec => []CookieKeepsUp
<1>1. BrowserInv => CookieKeepsUp
  <2> SUFFICES ASSUME BrowserInv, alive, ~strained, InFlight = {}, jar # 0 PROVE jar \in current
    BY DEF CookieKeepsUp
  <2>1. \A c \in Calls : pair[c] = 0
    BY DEF BrowserInv, NetworkInv, PairInv, InFlight
  <2>2. jar = newest /\ Reaches /\ issued >= 1
    BY Numbers DEF BrowserInv, NetworkInv, Types, RowTypes, Tokens
  <2>3. jar = issued
    BY <2>1, <2>2 DEF Reaches
  <2> QED BY <2>3 DEF BrowserInv, RotationInv, OnePair
<1> QED BY <1>1, BrowserInvariant, PTL
=============================================================================

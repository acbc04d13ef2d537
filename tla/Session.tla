------------------------------ MODULE Session -------------------------------
(***************************************************************************)
(* One sign-in session shared by the tabs of a browser.  The refresh       *)
(* cookie is one for all tabs, every refresh replaces it, and the token it *)
(* replaced is taken for a few seconds more, so that tabs which refresh    *)
(* side by side do not end the session for one another.                    *)
(*                                                                         *)
(*   backend/app/services/auth/sessions.py         rotation, pruning       *)
(*   backend/app/routes/auth/refresh_helpers.py    which refreshes pass    *)
(*   backend/app/routes/auth/token_helpers.py      issuing, active tokens  *)
(*   backend/app/routes/auth/logout_helpers.py     the end of a session    *)
(*   frontend/src/api/auth/requests.ts             refreshing, restoring   *)
(*   frontend/src/api/client.ts                    renewing for a request  *)
(*   frontend/src/contexts/AuthProvider.tsx        the tab's state         *)
(*                                                                         *)
(* Tokens are numbered in the order they are issued; an access and a       *)
(* refresh token issued together have the same number.                     *)
(***************************************************************************)
EXTENDS Naturals

CONSTANTS
  Tabs,
  Calls,       \* refreshes on their way to the server, in it, or on their way back
  MaxTokens,   \* bound: tokens issued
  NoTab, NoCall

ASSUME SessionAssumption ==
  /\ MaxTokens \in Nat /\ MaxTokens >= 1
  /\ NoTab \notin Tabs /\ NoCall \notin Calls

VARIABLES
  alive,       \* the auth_sessions row is there
  access,      \* access tokens allowlisted
  current,     \* refresh tokens without a grace deadline
  grace,       \* refresh tokens with one
  over,        \* those of grace past their deadline
  issued,      \* tokens issued so far
  holder,      \* the call that has the session row FOR UPDATE
  step,        \* of a call: free, sent, arrived, held, cleared or answered
  with,        \* the cookie a call was sent with, 0 for none
  bearer,      \* the access token of a logout, 0 for a refresh
  began,       \* tokens past their deadline when the call's transaction began
  seen,        \* access rows the call's DELETE saw
  answer,      \* of an answered call: renewed, refused, rotated or left
  pair,        \* the tokens a call renewed, 0 for none
  jar,         \* the refresh cookie, 0 for none
  flag,        \* lumina:has_session in local storage
  lock,        \* the tab whose refresh lock is in local storage
  phase,       \* of a tab: closed, out, failed, in, waiting, refreshing, losing or leaving
  holds,       \* access token of a tab, 0 for none
  waitsFor,    \* the call a tab waits for
  tries,       \* refreshes a restore may still start after a failure
  begun,       \* refreshes started, for the bound on tokens
  newest,      \* history: the highest pair delivered
  refused,     \* history: a refresh of a live session was refused
  strained     \* history: the network lost, reordered or held back an answer

rows == <<alive, access, current, grace, over, issued, holder>>
handling == <<step, with, bearer, began, seen, answer, pair>>
browser == <<jar, flag, lock, phase, holds, waitsFor, tries, begun>>
vars == <<rows, handling, browser, newest, refused, strained>>

Tokens == 1..MaxTokens
InFlight == {c \in Calls : step[c] # "free"}

Init ==
  /\ alive = TRUE /\ access = {1} /\ current = {1} /\ grace = {} /\ over = {} /\ issued = 1
  /\ holder = NoCall
  /\ step = [c \in Calls |-> "free"]
  /\ with = [c \in Calls |-> 0]
  /\ bearer = [c \in Calls |-> 0]
  /\ began = [c \in Calls |-> {}]
  /\ seen = [c \in Calls |-> {}]
  /\ answer = [c \in Calls |-> "none"]
  /\ pair = [c \in Calls |-> 0]
  /\ jar = 1 /\ flag = TRUE /\ lock = NoTab
  /\ phase = [t \in Tabs |-> "closed"]
  /\ holds = [t \in Tabs |-> 0]
  /\ waitsFor = [t \in Tabs |-> NoCall]
  /\ tries = [t \in Tabs |-> 0] /\ begun = 0
  /\ newest = 1 /\ refused = FALSE /\ strained = FALSE

-----------------------------------------------------------------------------
(* The server *)

\* A handler's transaction begins, which fixes its now()
Arrive(c) ==
  /\ step[c] = "sent" /\ bearer[c] = 0
  /\ step' = [step EXCEPT ![c] = "arrived"]
  /\ began' = [began EXCEPT ![c] = over]
  /\ UNCHANGED <<rows, with, bearer, seen, answer, pair, browser, newest, refused, strained>>

\* Fault: the token a refresh replaces is worth nothing from then on
ActiveWithoutGrace(k, late) == k \in current

\* get_active_token_by_jti
Active(k, late) == k \in current \/ k \in grace \ late

\* Fault: two rotations of a session run side by side
TakeRowUnlocked(c) == alive /\ Active(with[c], began[c]) /\ holder' = holder

\* get_active_session_by_id FOR UPDATE, with the token active
TakeRow(c) ==
  /\ alive
  /\ holder = NoCall
  /\ Active(with[c], began[c])
  /\ holder' = c

Hold(c) ==
  /\ step[c] = "arrived"
  /\ TakeRow(c)
  /\ step' = [step EXCEPT ![c] = "held"]
  /\ UNCHANGED <<alive, access, current, grace, over, issued, with, bearer, began, seen, answer, pair, browser, newest, refused, strained>>

\* A token whose row is gone lost a race; one still there without being active is refused
Verdict(c) ==
  IF alive /\ with[c] # 0 /\ with[c] \notin current \union grace THEN "rotated" ELSE "refused"

\* _verify_refresh_token_allowlist without an active session and token
Deny(c) ==
  /\ step[c] = "arrived"
  /\ alive => holder = NoCall /\ ~Active(with[c], began[c])
  /\ step' = [step EXCEPT ![c] = "answered"]
  /\ answer' = [answer EXCEPT ![c] = Verdict(c)]
  /\ refused' = (refused \/ (alive /\ with[c] # 0 /\ Verdict(c) = "refused"))
  /\ UNCHANGED <<rows, with, bearer, began, seen, pair, browser, newest, strained>>

\* The first statement of rotate_auth_session_tokens
DropAccess(c) ==
  /\ step[c] = "held"
  /\ step' = [step EXCEPT ![c] = "cleared"]
  /\ seen' = [seen EXCEPT ![c] = access]
  /\ UNCHANGED <<rows, with, bearer, began, answer, pair, browser, newest, refused, strained>>

\* The other statements, the new pair and the commit: the token replaced gets its
\* grace, the one before it goes
Rotate(c) ==
  /\ step[c] = "cleared"
  /\ issued < MaxTokens
  /\ issued' = issued + 1
  /\ access' = (access \ seen[c]) \union {issued + 1}
  /\ grace' = current
  /\ over' = {}
  /\ current' = {issued + 1}
  /\ holder' = NoCall
  /\ step' = [step EXCEPT ![c] = "answered"]
  /\ answer' = [answer EXCEPT ![c] = "renewed"]
  /\ pair' = [pair EXCEPT ![c] = issued + 1]
  /\ UNCHANGED <<alive, with, bearer, began, seen, browser, newest, refused, strained>>

\* Fault: the deadline outlives the row
PruneRowsOnly ==
  /\ holder = NoCall
  /\ over # {}
  /\ grace' = grace \ over
  /\ UNCHANGED <<over, alive, access, current, issued, holder, handling, browser, newest, refused, strained>>

\* The pruning of a session issued elsewhere: delete_expired_auth_tokens
Prune ==
  /\ holder = NoCall
  /\ over # {}
  /\ grace' = grace \ over
  /\ over' = {}
  /\ UNCHANGED <<alive, access, current, issued, holder, handling, browser, newest, refused, strained>>

\* The answer that replaces k, or one of a call sent with k, is still under way
Overdue(k) == \E c \in InFlight : with[c] = k \/ pair[c] > k

\* refresh_grace_expires_at passes
GraceEnds(k) ==
  /\ k \in grace \ over
  /\ over' = over \union {k}
  /\ strained' = (strained \/ Overdue(k))
  /\ UNCHANGED <<alive, access, current, grace, issued, holder, handling, browser, newest, refused>>

EndRows == alive' = FALSE /\ access' = {} /\ current' = {} /\ grace' = {} /\ over' = {}

\* The session is deleted from another device
End ==
  /\ alive
  /\ holder = NoCall
  /\ EndRows
  /\ UNCHANGED <<issued, holder, handling, browser, newest, refused, strained>>

\* logout_auth_session: the first of its two tokens that is active names the session
Logout(c) ==
  /\ step[c] = "sent" /\ bearer[c] # 0
  /\ holder = NoCall
  /\ IF bearer[c] \in access \/ Active(with[c], over) THEN EndRows
                                                     ELSE UNCHANGED <<alive, access, current, grace, over>>
  /\ step' = [step EXCEPT ![c] = "answered"]
  /\ answer' = [answer EXCEPT ![c] = "left"]
  /\ UNCHANGED <<issued, holder, with, bearer, began, seen, pair, browser, newest, refused, strained>>

-----------------------------------------------------------------------------
(* A tab *)

Become(t, p) == phase' = [phase EXCEPT ![t] = p]
Released(t) == IF lock = t THEN NoTab ELSE lock

\* Every refresh begun issues at most one token
Room == begun + 2 < MaxTokens

\* waitForPriorRefreshRequest and setRefreshRequestLock
Begin(t) == IF lock = NoTab THEN Become(t, "refreshing") /\ lock' = t
                            ELSE Become(t, "waiting") /\ lock' = lock

\* A page load: restoreSession when the flag is there
Open(t) ==
  /\ phase[t] \in {"closed", "out", "failed"}
  /\ flag /\ Room
  /\ Begin(t)
  /\ tries' = [tries EXCEPT ![t] = 1]
  /\ begun' = begun + 2
  /\ UNCHANGED <<rows, handling, jar, flag, holds, waitsFor, newest, refused, strained>>

\* authenticatedRequest with a token about to expire or refused by the server
Renew(t) ==
  /\ phase[t] = "in" /\ Room
  /\ Begin(t)
  /\ begun' = begun + 1
  /\ UNCHANGED <<rows, handling, jar, flag, holds, waitsFor, tries, newest, refused, strained>>

\* The time until the lock's deadline is waited out, whatever happens to the lock meanwhile
Wake(t) ==
  /\ phase[t] = "waiting"
  /\ Become(t, "refreshing")
  /\ lock' = t
  /\ UNCHANGED <<rows, handling, jar, flag, holds, waitsFor, tries, begun, newest, refused, strained>>

LockLapses ==
  /\ lock # NoTab
  /\ lock' = NoTab
  /\ UNCHANGED <<rows, handling, jar, flag, phase, holds, waitsFor, tries, begun, newest, refused, strained>>

\* A call goes out with the cookie of the moment
SendCall(t, c, token) ==
  /\ waitsFor[t] = NoCall
  /\ step[c] = "free"
  /\ step' = [step EXCEPT ![c] = "sent"]
  /\ with' = [with EXCEPT ![c] = jar]
  /\ bearer' = [bearer EXCEPT ![c] = token]
  /\ waitsFor' = [waitsFor EXCEPT ![t] = c]
  /\ UNCHANGED <<rows, began, seen, answer, pair, jar, flag, lock, holds, tries, begun, newest, refused, strained>>

\* POST /auth/refresh, at first or after another wait for the winner's cookie
Send(t, c) ==
  /\ phase[t] \in {"refreshing", "losing"}
  /\ SendCall(t, c, 0)
  /\ Become(t, "refreshing")

Leave(t, c) ==
  /\ phase[t] = "in"
  /\ SendCall(t, c, holds[t])
  /\ Become(t, "leaving")

\* Fault: the refresh is tried for as long as it loses the race
GiveUpNever(t) == FALSE /\ UNCHANGED vars

\* The retries of a rotated refresh have taken five seconds; the flag stays
GiveUp(t) ==
  /\ phase[t] = "losing"
  /\ Become(t, IF holds[t] = 0 THEN "out" ELSE "in")
  /\ lock' = Released(t)
  /\ UNCHANGED <<rows, handling, jar, flag, holds, waitsFor, tries, begun, newest, refused, strained>>

Done(t) == waitsFor' = [waitsFor EXCEPT ![t] = NoCall]

TakeToken(t, n) ==
  /\ Become(t, "in")
  /\ holds' = [holds EXCEPT ![t] = n]
  /\ flag' = (flag \/ holds[t] = 0)
  /\ lock' = Released(t)
  /\ UNCHANGED tries

\* onSessionLost, the restore that was refused, and the end of logout
SignOut(t) ==
  /\ Become(t, "out")
  /\ holds' = [holds EXCEPT ![t] = 0]
  /\ flag' = FALSE
  /\ lock' = Released(t)
  /\ UNCHANGED tries

\* A refresh that fails without a word on the session: tried again by a restore, else reported
Unavailable(t) ==
  /\ Become(t, IF holds[t] # 0 THEN "in" ELSE IF tries[t] > 0 THEN "waiting" ELSE "failed")
  /\ tries' = [tries EXCEPT ![t] = IF @ > 0 THEN @ - 1 ELSE 0]
  /\ lock' = Released(t)
  /\ UNCHANGED <<flag, holds>>

\* What the promise of the tab's call settles to
React(t, c) ==
  \/ answer[c] = "renewed" /\ TakeToken(t, pair[c])
  \/ answer[c] \in {"refused", "left"} /\ SignOut(t)
  \/ answer[c] = "rotated" /\ Become(t, "losing") /\ UNCHANGED <<flag, lock, holds, tries>>

Free(c) ==
  /\ step' = [step EXCEPT ![c] = "free"]
  /\ with' = [with EXCEPT ![c] = 0]
  /\ bearer' = [bearer EXCEPT ![c] = 0]
  /\ began' = [began EXCEPT ![c] = {}]
  /\ seen' = [seen EXCEPT ![c] = {}]
  /\ answer' = [answer EXCEPT ![c] = "none"]
  /\ pair' = [pair EXCEPT ![c] = 0]

\* Fault: the new refresh token is not handed over
CookieKept(c) == IF answer[c] = "left" \/ (answer[c] = "refused" /\ with[c] # 0) THEN 0 ELSE jar

\* The cookie an answer leaves: a missing cookie and a lost race touch none
Cookie(c) == IF answer[c] = "rotated" \/ (answer[c] = "refused" /\ with[c] = 0) THEN jar ELSE pair[c]

\* An older answer overtook a newer one
Overtaken(c) == answer[c] = "renewed" /\ newest > pair[c]

\* An answer reaches the browser, whether its tab still waits or not
Deliver(c) ==
  /\ step[c] = "answered"
  /\ jar' = Cookie(c)
  /\ strained' = (strained \/ Overtaken(c))
  /\ IF \E t \in Tabs : waitsFor[t] = c
       THEN \E t \in Tabs : waitsFor[t] = c /\ Done(t) /\ React(t, c)
       ELSE UNCHANGED <<flag, lock, phase, holds, waitsFor, tries>>
  /\ Free(c)
  /\ newest' = IF pair[c] > newest THEN pair[c] ELSE newest
  /\ UNCHANGED <<rows, begun, refused>>

\* A call never arrives, or its answer is lost
Lose(c) ==
  /\ step[c] \in {"sent", "answered"}
  /\ strained' = (strained \/ answer[c] = "renewed")
  /\ IF \E t \in Tabs : waitsFor[t] = c
       THEN \E t \in Tabs : waitsFor[t] = c /\ Done(t) /\ IF phase[t] = "leaving" THEN SignOut(t) ELSE Unavailable(t)
       ELSE UNCHANGED <<flag, lock, phase, holds, waitsFor, tries>>
  /\ Free(c)
  /\ UNCHANGED <<rows, jar, begun, newest, refused>>

\* The tab is closed or reloaded; its call goes on
Close(t) ==
  /\ phase[t] # "closed"
  /\ Become(t, "closed")
  /\ Done(t)
  /\ holds' = [holds EXCEPT ![t] = 0]
  /\ tries' = [tries EXCEPT ![t] = 0]
  /\ UNCHANGED <<rows, handling, jar, flag, lock, begun, newest, refused, strained>>

-----------------------------------------------------------------------------
Serve(c) == Arrive(c) \/ Hold(c) \/ Deny(c) \/ DropAccess(c) \/ Rotate(c) \/ Logout(c)
Act(t) == Open(t) \/ Renew(t) \/ Wake(t) \/ GiveUp(t) \/ Close(t) \/ \E c \in Calls : Send(t, c) \/ Leave(t, c)

Next ==
  \/ \E c \in Calls : Serve(c) \/ Deliver(c) \/ Lose(c)
  \/ \E t \in Tabs : Act(t)
  \/ Prune \/ End \/ LockLapses \/ \E k \in grace : GraceEnds(k)

Spec == Init /\ [][Next]_vars

\* The server serves, a fetch ends one way or the other, timers fire, and the
\* five seconds of retrying run out however often it is tried in between
Fairness ==
  /\ \A c \in Calls : WF_vars(Serve(c)) /\ WF_vars(Deliver(c) \/ Lose(c))
  /\ \A t \in Tabs : WF_vars(Wake(t)) /\ SF_vars(\E c \in Calls : Send(t, c)) /\ SF_vars(GiveUp(t))

FairSpec == Spec /\ Fairness

-----------------------------------------------------------------------------
SessionTypeOK ==
  /\ alive \in BOOLEAN /\ issued \in Tokens
  /\ access \subseteq 1..issued /\ current \subseteq 1..issued /\ grace \subseteq 1..issued /\ over \subseteq grace
  /\ holder \in Calls \union {NoCall}
  /\ step \in [Calls -> {"free", "sent", "arrived", "held", "cleared", "answered"}]
  /\ with \in [Calls -> 0..MaxTokens] /\ bearer \in [Calls -> 0..MaxTokens] /\ pair \in [Calls -> 0..MaxTokens]
  /\ began \in [Calls -> SUBSET Tokens] /\ seen \in [Calls -> SUBSET Tokens]
  /\ answer \in [Calls -> {"none", "renewed", "refused", "rotated", "left"}]
  /\ jar \in 0..MaxTokens /\ flag \in BOOLEAN /\ lock \in Tabs \union {NoTab}
  /\ phase \in [Tabs -> {"closed", "out", "failed", "in", "waiting", "refreshing", "losing", "leaving"}]
  /\ holds \in [Tabs -> 0..MaxTokens] /\ waitsFor \in [Tabs -> Calls \union {NoCall}]
  /\ tries \in [Tabs -> 0..1] /\ begun \in 0..MaxTokens
  /\ newest \in Tokens /\ refused \in BOOLEAN /\ strained \in BOOLEAN

\* A session keeps one access token and one current refresh token, the last pair
\* issued, and at most one token in its grace, however many tabs refresh at once.
\* The row lock alone must see to it: the unique indexes of auth_tokens would
\* turn a second one into a server error
OnePair == alive => access = {issued} /\ current = {issued} /\ \A j, k \in grace : j = k

\* Tabs that refresh side by side never sign the browser out: the server refuses
\* the cookie of a live session only after the network lost an answer, delivered
\* two in the wrong order, or held one back past the grace
NeverRefusedByTabs == refused => strained

\* With nothing under way the browser holds the token the server takes
CookieKeepsUp ==
  alive /\ ~strained /\ InFlight = {} /\ jar # 0 => jar \in current

\* A tab that waits for a refresh gets somewhere, even when the cookie it needs
\* never comes
RefreshEnds == \A t \in Tabs : phase[t] \in {"waiting", "refreshing", "losing"} ~> phase[t] \in {"in", "out", "failed", "closed"}
=============================================================================

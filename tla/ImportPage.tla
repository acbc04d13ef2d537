----------------------------- MODULE ImportPage -----------------------------
(***************************************************************************)
(* One open import page against the server of ImportRun, until an import   *)
(* is done.  Its calls may never arrive or arrive after the page gave them *)
(* up, and answers may be lost, so a save can land without the page        *)
(* knowing.  The page keeps such an upload and settles it first.           *)
(*                                                                         *)
(*   frontend/src/api/import-runs/run.ts                   the calls       *)
(*   frontend/src/pages/imports/utils/importRun.ts         the attempts    *)
(*   frontend/src/pages/imports/utils/commitFailure.ts     what is kept    *)
(*                                                                         *)
(* Handlers run on the server as in ImportRun, here named with the call    *)
(* they serve.                                                             *)
(***************************************************************************)
EXTENDS ImportRun

CONSTANTS
  Answers,     \* the choices on screen an import is sent with
  MaxCalls,    \* bound: commit and delete calls the page sends
  Ageing,      \* statuses of runs that a day passes over while the page is open
  NoAnswers, NoReply

\* An import declares at least one row
ASSUME PageAssumption ==
  /\ MaxCalls \in Nat /\ Rows # {}
  /\ NoAnswers \notin Answers /\ NoReply \notin {"saved", "dropped", "missing", "refused", "busy"}

VARIABLES
  phase,       \* of the attempt: idle, uploading, committing, settling, failed or done
  wanted,      \* answers the attempt was started with
  run,         \* the run the attempt uploads or saves
  kept,        \* stagedRunId: the upload an interrupted save left
  keptWith,    \* stagedAnswers
  sentWith,    \* answers a run was uploaded with
  refused,     \* runs whose file the importer refuses
  calls,       \* calls sent that have not arrived
  sent,        \* how many were sent, which numbers the latest
  serving,     \* the number of the call a handler answers, 0 for none
  reply        \* the answer under way to the call the page waits for

attempt == <<phase, wanted, run, kept, keptWith>>
wire == <<calls, sent, serving, reply>>
pageVars == <<attempt, sentWith, refused, wire>>

PageInit ==
  /\ Init
  /\ phase = "idle" /\ wanted = NoAnswers
  /\ run = NoRun /\ kept = NoRun /\ keptWith = NoAnswers
  /\ sentWith = [u \in Runs |-> NoAnswers]
  /\ refused = {}
  /\ calls = {} /\ sent = 0
  /\ serving = [r \in Requests |-> 0]
  /\ reply = NoReply

\* The bound keeps room for the discard that may follow the call
Send(kind, u) ==
  /\ sent < MaxCalls
  /\ calls' = calls \union {[kind |-> kind, run |-> u, number |-> sent + 1]}
  /\ sent' = sent + 1
  /\ reply' = NoReply
  /\ UNCHANGED serving

Silent == UNCHANGED <<calls, sent, serving>> /\ reply' = NoReply

-----------------------------------------------------------------------------
(* The attempts of createImportRunController *)

\* Fault: a kept upload is forgotten when the answers differ
StartAfresh(a) ==
  /\ phase \in {"idle", "failed"}
  /\ wanted' = a
  /\ \/ /\ kept = NoRun \/ keptWith # a
        /\ phase' = "uploading" /\ run' = NoRun
        /\ Silent
     \/ /\ kept # NoRun /\ keptWith = a
        /\ phase' = "committing" /\ run' = kept
        /\ Send("commit", kept)
  /\ UNCHANGED <<vars, kept, keptWith, sentWith, refused>>

\* runAttempt, started with the answers on screen or again with the last ones
Start(a) ==
  /\ phase \in {"idle", "failed"}
  /\ wanted' = a
  /\ \/ /\ kept = NoRun
        /\ phase' = "uploading" /\ run' = NoRun
        /\ Silent
     \/ /\ kept # NoRun /\ keptWith = a
        /\ phase' = "committing" /\ run' = kept
        /\ Send("commit", kept)
     \/ /\ kept # NoRun /\ keptWith # a
        /\ phase' = "settling" /\ run' = kept
        /\ Send("delete", kept)
  /\ UNCHANGED <<vars, kept, keptWith, sentWith, refused>>

\* openImportRun
OpenRun(u) ==
  /\ phase = "uploading" /\ run = NoRun
  /\ Open(u)
  /\ run' = u
  /\ sentWith' = [sentWith EXCEPT ![u] = wanted]
  /\ UNCHANGED <<phase, wanted, kept, keptWith, refused, wire>>

\* stageImportRunRows, and the commit once everything is staged
StageRows(batch) ==
  /\ phase = "uploading" /\ run # NoRun
  /\ Stage(run, batch)
  /\ IF staged'[run] = Rows THEN phase' = "committing" /\ Send("commit", run)
                            ELSE phase' = phase /\ UNCHANGED wire
  /\ UNCHANGED <<wanted, run, kept, keptWith, sentWith, refused>>

\* Fault: the answers kept are those of an earlier upload
FailUnlabelled(u) ==
  /\ phase' = "failed"
  /\ kept' = u
  /\ UNCHANGED <<wanted, run, keptWith, sentWith, refused>>

\* The attempt ends with u kept, to be saved or settled by the next one
Fail(u) ==
  /\ phase' = "failed"
  /\ kept' = u
  /\ keptWith' = IF u = NoRun THEN NoAnswers ELSE sentWith[u]
  /\ UNCHANGED <<wanted, run, sentWith, refused>>

\* The upload fails or is stopped: an open whose answer is lost leaves a run nobody names, and a
\* staging that fails drops the run without asking how that went
UploadFails ==
  /\ phase = "uploading"
  /\ Fail(NoRun)
  /\ \/ run = NoRun /\ Silent /\ (UNCHANGED vars \/ \E u \in Runs : Open(u))
     \/ run # NoRun /\ Send("delete", run) /\ UNCHANGED vars

\* Fault: a save without an answer counts as not done
ForgetInterrupted ==
  /\ phase \in {"committing", "settling"}
  /\ Fail(NoRun)
  /\ Silent
  /\ UNCHANGED vars

\* No answer: a commit that may have landed, or an upload the server said nothing about, stays kept
Interrupted ==
  /\ phase \in {"committing", "settling"}
  /\ Fail(run)
  /\ Silent
  /\ UNCHANGED vars

\* commitStagedRun and getImportCommitFailure: of the refusals only 404 and 422 are final
CommitAnswered ==
  /\ phase = "committing"
  /\ \/ /\ reply = "saved"
        /\ phase' = "done" /\ kept' = NoRun /\ keptWith' = NoAnswers
        /\ Silent
        /\ UNCHANGED <<wanted, run, sentWith, refused>>
     \/ reply \in {"missing", "refused"} /\ Fail(NoRun) /\ Send("delete", run)
     \/ reply = "busy" /\ Fail(run) /\ Silent
  /\ UNCHANGED vars

\* Fault: every refusal to drop the run means there is nothing to save
SettleCarelessly ==
  /\ phase = "settling"
  /\ \/ /\ reply = "saved"
        /\ phase' = "committing"
        /\ Send("commit", run)
        /\ UNCHANGED run
     \/ /\ reply \in {"dropped", "missing", "busy"}
        /\ phase' = "uploading" /\ run' = NoRun
        /\ Silent
  /\ UNCHANGED <<vars, wanted, kept, keptWith, sentWith, refused>>

\* settleStagedRun: only an upload that was never saved lets the new one go ahead
Settled ==
  /\ phase = "settling"
  /\ \/ /\ reply = "saved"
        /\ phase' = "committing"
        /\ Send("commit", run)
        /\ UNCHANGED <<wanted, run, kept, keptWith, sentWith, refused>>
     \/ /\ reply \in {"dropped", "missing"}
        /\ phase' = "uploading" /\ run' = NoRun
        /\ Silent
        /\ UNCHANGED <<wanted, kept, keptWith, sentWith, refused>>
     \/ reply = "busy" /\ Fail(run) /\ Silent
  /\ UNCHANGED vars

-----------------------------------------------------------------------------
(* The server: a call arrives, is answered at once or by the handler that took it up *)

\* The answer reaches the wire only while the page waits for this very call
Answer(number, code) ==
  reply' = IF number = sent /\ phase \in {"committing", "settling"} THEN code ELSE reply

\* What a commit or a delete answers when it changes nothing
Refusal(c) ==
  IF runLock[c.run] # NoRequest THEN "busy"
  ELSE CASE status[c.run] = "saved" -> "saved"
         [] status[c.run] = "gone" -> "missing"
         [] status[c.run] = "open" /\ c.kind = "commit" /\ (aged[c.run] \/ staged[c.run] # Rows) -> "refused"
         [] OTHER -> NoReply

AnswerAtOnce(c) ==
  /\ Refusal(c) # NoReply
  /\ calls' = calls \ {c}
  /\ Answer(c.number, Refusal(c))
  /\ UNCHANGED <<vars, attempt, sentWith, refused, sent, serving>>

TakeUp(r, c) ==
  /\ \/ c.kind = "commit" /\ HoldToCommit(r, c.run)
     \/ c.kind = "delete" /\ HoldToDrop(r, c.run)
  /\ calls' = calls \ {c}
  /\ serving' = [serving EXCEPT ![r] = c.number]
  /\ UNCHANGED <<attempt, sentWith, refused, sent, reply>>

Served(r, code) ==
  /\ Answer(serving[r], code)
  /\ serving' = [serving EXCEPT ![r] = 0]
  /\ UNCHANGED <<attempt, sentWith, calls, sent>>

\* The importer's writing refuses the file, and would again
Refuse(r) ==
  /\ pc[r] = "writing" /\ Abort(r)
  /\ refused' = refused \union {on[r]}
  /\ Served(r, "refused")

Finish(r) ==
  /\ \/ Save(r) /\ Served(r, "saved")
     \/ Drop(r) /\ Served(r, "dropped")
  /\ UNCHANGED refused

\* The handler stops without an answer
Break(r) ==
  /\ Abort(r)
  /\ Served(r, NoReply)
  /\ UNCHANGED refused

\* Steps no call waits for: those of handlers between their first and last statement, the user
\* undoing a run from elsewhere, pruning and time.  The page gives a call up long before a saved run
\* is a day old
Elsewhere ==
  /\ \/ Prune
     \/ \E u \in Runs : /\ status[u] \in Ageing
                        /\ status[u] = "saved" => phase \notin {"committing", "settling"}
                        /\ Age(u)
     \/ \E r \in Requests :
          \/ MayMark /\ \E u \in Runs : HoldToUndo(r, u)
          \/ on[r] \notin refused /\ MarkSaved(r)
          \/ HoldMarker(r) \/ HoldWritten(r) \/ Undo(r) \/ RefuseUndo(r)
  /\ UNCHANGED pageVars

PageNext ==
  \/ \E a \in Answers : Start(a)
  \/ \E u \in Runs : OpenRun(u)
  \/ \E batch \in SUBSET Rows \ {{}} : StageRows(batch)
  \/ UploadFails \/ Interrupted \/ CommitAnswered \/ Settled
  \/ \E c \in calls : AnswerAtOnce(c) \/ (MayMark /\ \E r \in Requests : TakeUp(r, c))
  \/ \E r \in Requests : Refuse(r) \/ Finish(r) \/ Break(r)
  \/ Elsewhere

PageSpec == PageInit /\ [][PageNext]_<<vars, pageVars>>

-----------------------------------------------------------------------------
(* Properties *)

\* Every variable of the page stays in its domain, and a save interrupted is of a run with answers.
PageTypeOK ==
  /\ phase \in {"idle", "uploading", "committing", "settling", "failed", "done"}
  /\ wanted \in Answers \union {NoAnswers}
  /\ run \in Runs \union {NoRun} /\ kept \in Runs \union {NoRun}
  /\ keptWith \in Answers \union {NoAnswers}
  /\ sentWith \in [Runs -> Answers \union {NoAnswers}]
  /\ refused \subseteq Runs
  /\ calls \subseteq [kind : {"commit", "delete"}, run : Runs, number : 1..MaxCalls]
  /\ sent \in 0..MaxCalls
  /\ serving \in [Requests -> 0..MaxCalls]
  /\ reply \in {NoReply, "saved", "dropped", "missing", "refused", "busy"}
  /\ kept # NoRun => keptWith = sentWith[kept] /\ keptWith # NoAnswers

\* importRun.ts: "Nothing will be added twice as long as you stay on the import page": of all the
\* runs this page uploads, at most one is in the ledger, whichever answers got lost.
NothingTwice == Cardinality({u \in Runs : ledger[u] # Nothing}) <= 1

\* The page says "Import stopped, and nothing was added to your ledger", or shows a refusal and keeps
\* nothing, only when none of its uploads is in the ledger.
StoppedMeansNothing == phase = "failed" /\ kept = NoRun => \A u \in Runs : ledger[u] = Nothing

\* An import the page shows as done was saved, under the run the page will offer to undo, and no
\* other upload of the page was, even when a call given up on arrives late.
DoneMeansSaved ==
  phase = "done" => savedAt[run] # NoStamp /\ \A u \in Runs \ {run} : ledger[u] = Nothing

=============================================================================

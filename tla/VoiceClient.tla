---------------------------- MODULE VoiceClient ----------------------------
(***************************************************************************)
(* The candidate's browser in front of his routes (TurnSubmission):        *)
(* OnboardingDeviceCheck.tsx opens the session and keeps its id in         *)
(* sessionStorage, VoiceInterviewSession.tsx (voice and video alike)       *)
(* submits one recording per turn, retries and reconciles with the server  *)
(* after a reload, SessionCompleted.tsx ends the session.                  *)
(*                                                                         *)
(* Every server step is an action of InterviewSystem.  The evaluation does *)
(* not run here: no page of the candidate sees it, and of it there is only *)
(* the task that a completion queues.  A request that the page has sent    *)
(* arrives when PostTurn or PostEnd takes it, possibly after the page gave *)
(* up on it.  A recording is named by the first request that carried it.   *)
(***************************************************************************)
EXTENDS InterviewSystem

CONSTANTS
    MaxDisturbances \* bound: reloads, returns and lost connections

ASSUME ClientAssumption == MaxDisturbances \in Nat

VARIABLES
    page,       \* "device", "interview", "completed", or "noSession"
    stored,     \* status of the opening result in sessionStorage, or "none"
    nextTurnIndex,
    inFlight,   \* the request whose reply submitTurn awaits, or None
    lastFailed, \* the recording kept for Retry, or None
    submitError,\* the error with the Retry button is shown
    leaving,    \* the closing line plays, then the page goes to /completed
    fetch,      \* getSession of this page: how far, and what it will return
    ending,     \* the request whose reply SessionCompleted awaits, or None
    sent,       \* the turn_index a request carries, 0 before it is sent
    audio,      \* the recording it carries
    endsSent,   \* the POST .../complete requests sent
    \* history variables
    accepted,   \* <<turn_index, recording>> the page saw answered
    reconciledLate, \* a reconciliation moved the index after a submission
    reloads, drops

pageVars == <<page, stored, nextTurnIndex, inFlight, lastFailed, submitError,
              leaving, fetch, ending>>
wireVars == <<sent, audio, endsSent>>
clientVars == <<pageVars, wireVars, accepted, reconciledLate, reloads, drops>>

NotAsked == [at |-> "none", turns |-> 0, ended |-> FALSE]

ClientInit ==
    /\ Init
    /\ page = "device" /\ stored = "none"
    /\ nextTurnIndex = 1
    /\ inFlight = None /\ lastFailed = None
    /\ submitError = FALSE /\ leaving = FALSE
    /\ fetch = NotAsked
    /\ ending = None
    /\ sent = [r \in Posts |-> 0]
    /\ audio = [r \in Posts |-> None]
    /\ endsSent = {}
    /\ accepted = {}
    /\ reconciledLate = FALSE
    /\ reloads = 0 /\ drops = 0

-----------------------------------------------------------------------------
(* Coming to a page.                                                       *)

\* The session the page shows has been submitted to since it was mounted.
Submitted == inFlight # None \/ lastFailed # None \/ nextTurnIndex # 1

\* Mutant: the first turn the candidate answers has index 0.
FreshPage_FromZero ==
    /\ nextTurnIndex' = 0
    /\ inFlight' = None /\ lastFailed' = None
    /\ submitError' = FALSE /\ leaving' = FALSE

\* What a mount resets: everything but sessionStorage.
FreshPage ==
    /\ nextTurnIndex' = 1
    /\ inFlight' = None /\ lastFailed' = None
    /\ submitError' = FALSE /\ leaving' = FALSE

(* The effect of SessionCompleted: while sessionStorage still names a      *)
(* session, ask for its completion.  (Enders bounds how often.)  cached is *)
(* what sessionStorage holds.                                              *)
ShowCompleted(cached) ==
    LET unused == {e \in Enders : pc[e] = "new"} \ endsSent
    IN  /\ page' = "completed"
        /\ FreshPage
        /\ fetch' = NotAsked
        /\ ending' \in IF cached = "none" \/ unused = {} THEN {None} ELSE unused
        /\ endsSent' = endsSent \cup ({ending'} \ {None})

(* The effect of VoiceInterviewSession: without a stored session an error, *)
(* with one that ended at the opening line straight on to the last page,   *)
(* otherwise turn 1 is next and the server is asked where the session is.  *)
ShowInterview(cached) ==
    \/ cached = "complete" /\ ShowCompleted(cached)
    \/ /\ cached # "complete"
       /\ page' = IF cached = "none" THEN "noSession" ELSE "interview"
       /\ FreshPage
       /\ fetch' = [NotAsked EXCEPT !.at = IF cached = "none" THEN "none" ELSE "asked"]
       /\ ending' = None
       /\ UNCHANGED endsSent

(* handleContinue: the session is created before the interview page is     *)
(* shown; its opening result goes to sessionStorage.  When the reply is    *)
(* lost, Continue opens another session and this one is never used.        *)
Continue(ended) ==
    /\ page = "device"
    /\ OpenSession(ended)
    /\ UNCHANGED <<workerVars, clientVars>>

SessionStarted ==
    /\ page = "device" /\ pc[Opener] = "ok"
    /\ stored' = status
    /\ ShowInterview(status)
    /\ UNCHANGED <<vars, sent, audio, accepted, reconciledLate, reloads, drops>>

(* The candidate reloads the page or comes back to it.                     *)
Reload ==
    /\ page \in {"interview", "completed"}
    /\ drops + reloads < MaxDisturbances
    /\ reloads' = reloads + 1
    /\ UNCHANGED stored
    /\ ShowInterview(stored)
    /\ UNCHANGED <<vars, sent, audio, accepted, reconciledLate, drops>>

(* The 1.8 s after a result with status complete are over, or the          *)
(* candidate opens /completed before the interview has ended.              *)
Leave ==
    /\ page = "interview"
    /\ leaving \/ stored = "active"
    /\ UNCHANGED stored
    /\ ShowCompleted(stored)
    /\ UNCHANGED <<vars, sent, audio, accepted, reconciledLate, reloads, drops>>

-----------------------------------------------------------------------------
(* Reconciliation with the server after a mount.                           *)

(* GET /interview-sessions/{id}: the dependency loads the session ...      *)
LoadSession ==
    /\ fetch.at = "asked"
    /\ fetch' = [fetch EXCEPT !.at = "loaded", !.ended = (status = "complete")]
    /\ UNCHANGED <<vars, page, stored, nextTurnIndex, inFlight, lastFailed,
                   submitError, leaving, ending, wireVars, accepted,
                   reconciledLate, reloads, drops>>

(* ... and the handler its turn rows, of every status.                     *)
ServeSession ==
    /\ fetch.at = "loaded"
    /\ fetch' = [fetch EXCEPT !.at = "served",
                    !.turns = Cardinality({t \in TurnIndexes : turnStatus[t] # "absent"})]
    /\ UNCHANGED <<vars, page, stored, nextTurnIndex, inFlight, lastFailed,
                   submitError, leaving, ending, wireVars, accepted,
                   reconciledLate, reloads, drops>>

\* Mutant: the index is moved past the last row.
Reconcile_OffByOne ==
    /\ fetch.at = "served" /\ fetch.turns > 1 /\ ~fetch.ended
    /\ nextTurnIndex' = fetch.turns + 1
    /\ reconciledLate' = (reconciledLate \/ (Submitted /\ nextTurnIndex' # nextTurnIndex))
    /\ fetch' = NotAsked
    /\ UNCHANGED <<vars, page, stored, inFlight, lastFailed, submitError,
                   leaving, ending, wireVars, accepted, reloads, drops>>

(* getSession().then: with more than the opening turn, the number of rows  *)
(* is the next index, whatever the candidate has submitted meanwhile.      *)
Reconcile ==
    /\ fetch.at = "served"
    /\ \/ /\ fetch.turns <= 1
          /\ fetch' = NotAsked
          /\ UNCHANGED <<page, nextTurnIndex, inFlight, lastFailed, submitError,
                         leaving, ending, endsSent, reconciledLate>>
       \/ /\ fetch.turns > 1 /\ ~fetch.ended
          /\ nextTurnIndex' = fetch.turns
          /\ reconciledLate' = (reconciledLate \/ (Submitted /\ fetch.turns # nextTurnIndex))
          /\ fetch' = NotAsked
          /\ UNCHANGED <<page, inFlight, lastFailed, submitError, leaving,
                         ending, endsSent>>
       \/ /\ fetch.turns > 1 /\ fetch.ended
          /\ ShowCompleted(stored)
          /\ UNCHANGED reconciledLate
    /\ UNCHANGED <<vars, stored, sent, audio, accepted, reloads, drops>>

(* getSession().catch: the page goes on from the cached opening turn.      *)
ReconcileFails ==
    /\ fetch.at # "none"
    /\ drops + reloads < MaxDisturbances
    /\ drops' = drops + 1
    /\ fetch' = NotAsked
    /\ UNCHANGED <<vars, page, stored, nextTurnIndex, inFlight, lastFailed,
                   submitError, leaving, ending, wireVars, accepted,
                   reconciledLate, reloads>>

-----------------------------------------------------------------------------
(* Submitting turns.                                                       *)

\* Mutant: the busy flag is not looked at.
SendTurn_WhileBusy(r, x) ==
    /\ page = "interview"
    /\ sent[r] = 0 /\ nextTurnIndex <= MaxTurn
    /\ sent' = [sent EXCEPT ![r] = nextTurnIndex]
    /\ audio' = [audio EXCEPT ![r] = x]
    /\ inFlight' = r
    /\ submitError' = FALSE

\* submitTurn: one request in flight disables the record button.
SendTurn(r, x) ==
    /\ page = "interview"
    /\ inFlight = None
    /\ sent[r] = 0 /\ nextTurnIndex <= MaxTurn
    /\ sent' = [sent EXCEPT ![r] = nextTurnIndex]
    /\ audio' = [audio EXCEPT ![r] = x]
    /\ inFlight' = r
    /\ submitError' = FALSE

(* startRecording .. stopRecording: the recording that ends here is sent   *)
(* at the index that is next now.  Starting it took the error and the      *)
(* Retry button away.                                                      *)
RecordAnswer(r) ==
    /\ SendTurn(r, r)
    /\ UNCHANGED <<vars, page, stored, nextTurnIndex, lastFailed, leaving,
                   fetch, ending, endsSent, accepted, reconciledLate, reloads, drops>>

\* Mutant: Retry goes on to the next turn.
Retry_Advances(r) ==
    /\ submitError /\ lastFailed # None
    /\ page = "interview" /\ inFlight = None
    /\ sent[r] = 0 /\ nextTurnIndex < MaxTurn
    /\ sent' = [sent EXCEPT ![r] = nextTurnIndex + 1]
    /\ audio' = [audio EXCEPT ![r] = lastFailed]
    /\ inFlight' = r
    /\ submitError' = FALSE
    /\ nextTurnIndex' = nextTurnIndex + 1
    /\ UNCHANGED <<vars, page, stored, lastFailed, leaving, fetch, ending,
                   endsSent, accepted, reconciledLate, reloads, drops>>

(* retryLastSubmission: the kept recording, at the index that is next now. *)
Retry(r) ==
    /\ submitError /\ lastFailed # None
    /\ SendTurn(r, lastFailed)
    /\ UNCHANGED <<vars, page, stored, nextTurnIndex, lastFailed, leaving,
                   fetch, ending, endsSent, accepted, reconciledLate, reloads, drops>>

\* Mutant: a 409 is taken for an answer.
TurnAnswered_Conflict(r) ==
    /\ inFlight = r /\ pc[r] \in {"ok", "cached", "conflict"}
    /\ inFlight' = None
    /\ nextTurnIndex' = nextTurnIndex + 1
    /\ lastFailed' = None
    /\ accepted' = accepted \cup {<<sent[r], audio[r]>>}
    /\ leaving' = (leaving \/ (pc[r] = "ok" /\ isComplete[r]))
    /\ UNCHANGED <<vars, page, stored, submitError, fetch, ending, wireVars,
                   reconciledLate, reloads, drops>>

(* The reply is a turn result: the index moves on.  The status a result    *)
(* carries is complete when this turn ended the interview, or when phase 3 *)
(* of submit_turn found the session completed by then.                     *)
TurnAnswered(r) ==
    /\ inFlight = r /\ pc[r] \in {"ok", "cached"}
    /\ inFlight' = None
    /\ nextTurnIndex' = nextTurnIndex + 1
    /\ lastFailed' = None
    /\ accepted' = accepted \cup {<<sent[r], audio[r]>>}
    /\ \/ leaving' = (leaving \/ (pc[r] = "ok" /\ isComplete[r]))
       \/ leaving' = TRUE /\ pc[r] = "ok" /\ status = "complete"
    /\ UNCHANGED <<vars, page, stored, submitError, fetch, ending, wireVars,
                   reconciledLate, reloads, drops>>

(* submitTurn's catch: an error reply, or none because the server died.    *)
SubmitFails(r) ==
    /\ inFlight = r
    /\ pc[r] \in {"conflict", "closed", "integrity", "failed", "stranded", "dead"}
    /\ inFlight' = None
    /\ lastFailed' = audio[r]
    /\ submitError' = TRUE
    /\ UNCHANGED <<vars, page, stored, nextTurnIndex, leaving, fetch, ending,
                   wireVars, accepted, reconciledLate, reloads, drops>>

(* The same catch when the connection is lost: what it carried may yet     *)
(* reach the server, or has already.                                       *)
ConnectionLost ==
    /\ inFlight # None
    /\ drops + reloads < MaxDisturbances
    /\ drops' = drops + 1
    /\ inFlight' = None
    /\ lastFailed' = audio[inFlight]
    /\ submitError' = TRUE
    /\ UNCHANGED <<vars, page, stored, nextTurnIndex, leaving, fetch, ending,
                   wireVars, accepted, reconciledLate, reloads>>

-----------------------------------------------------------------------------
(* Ending.                                                                 *)

\* Mutant: the stored session is dropped without waiting for the reply.
EndAnswered_Eager(e) ==
    /\ ending = e
    /\ ending' = None
    /\ stored' = "none"
    /\ UNCHANGED <<vars, page, nextTurnIndex, inFlight, lastFailed, submitError,
                   leaving, fetch, wireVars, accepted, reconciledLate, reloads, drops>>

(* completeSession().then: the stored session is dropped ...               *)
EndAnswered(e) ==
    /\ ending = e /\ pc[e] \in {"ok", "noop"}
    /\ ending' = None
    /\ stored' = "none"
    /\ UNCHANGED <<vars, page, nextTurnIndex, inFlight, lastFailed, submitError,
                   leaving, fetch, wireVars, accepted, reconciledLate, reloads, drops>>

(* ... .catch: and kept when the request failed or its reply was lost.     *)
EndFails ==
    /\ ending # None
    /\ ending' = None
    /\ \/ pc[ending] = "dead" /\ UNCHANGED drops
       \/ drops + reloads < MaxDisturbances /\ drops' = drops + 1
    /\ UNCHANGED <<vars, page, stored, nextTurnIndex, inFlight, lastFailed,
                   submitError, leaving, fetch, wireVars, accepted,
                   reconciledLate, reloads>>

-----------------------------------------------------------------------------
(* What has been sent arrives, and the server works on it.                 *)
Arrive(r) ==
    /\ sent[r] # 0 /\ PostTurn(r, sent[r])
    /\ UNCHANGED <<workerVars, clientVars>>

ArriveEnd(e) ==
    /\ e \in endsSent /\ PostEnd(e)
    /\ UNCHANGED <<workerVars, clientVars>>

ServeTurn(r) == (TurnStep(r) \/ TriggerStep(r)) /\ UNCHANGED <<workerVars, clientVars>>
ServeEnd(e) == (EndSession(e) \/ TriggerStep(e)) /\ UNCHANGED <<workerVars, clientVars>>
ServeStart == TriggerStep(Opener) /\ UNCHANGED <<workerVars, clientVars>>

ServerFails ==
    /\ \/ \E r \in Posts : CascadeRaises(r) /\ UNCHANGED workerVars
       \/ ApiRestarts
    /\ UNCHANGED clientVars

PageNext ==
    \/ SessionStarted \/ Reload \/ Leave
    \/ LoadSession \/ ServeSession \/ Reconcile \/ ReconcileFails
    \/ \E r \in Posts : RecordAnswer(r) \/ Retry(r) \/ TurnAnswered(r) \/ SubmitFails(r)
    \/ ConnectionLost
    \/ \E e \in Enders : EndAnswered(e)
    \/ EndFails

ServerNext ==
    \/ \E ended \in BOOLEAN : Continue(ended)
    \/ \E r \in Posts : Arrive(r) \/ ServeTurn(r)
    \/ \E e \in Enders : ArriveEnd(e) \/ ServeEnd(e)
    \/ ServeStart
    \/ ServerFails

ClientNext == PageNext \/ ServerNext

ClientSpec == ClientInit /\ [][ClientNext]_<<vars, clientVars>>

-----------------------------------------------------------------------------
(***************************************************************************)
(* Properties.                                                             *)
(***************************************************************************)

(* Every value of the page's state stays in its range, and what the page   *)
(* waits for has been sent.                                                *)
ClientTypeOK ==
    /\ page \in {"device", "interview", "completed", "noSession"}
    /\ stored \in {"none", "active", "complete"}
    /\ nextTurnIndex \in 1..(MaxTurn + 2)
    /\ inFlight \in Posts \cup {None}
    /\ lastFailed \in Posts \cup {None}
    /\ submitError \in BOOLEAN /\ leaving \in BOOLEAN
    /\ fetch \in [at : {"none", "asked", "loaded", "served"},
                  turns : 0..(MaxTurn + 1), ended : BOOLEAN]
    /\ ending \in Enders \cup {None}
    /\ sent \in [Posts -> TurnIndexes]
    /\ audio \in [Posts -> Posts \cup {None}]
    /\ endsSent \subseteq Enders
    /\ accepted \subseteq TurnIndexes \X Posts
    /\ reconciledLate \in BOOLEAN
    /\ reloads \in Nat /\ drops \in Nat
    /\ drops + reloads <= MaxDisturbances
    /\ inFlight # None => sent[inFlight] # 0

\* The answered turns, by the recording each row keeps.
Kept == {<<t, audio[turnResult[t]]>> :
            t \in {u \in TurnIndexes \ {0} : turnStatus[u] = "complete"}}

(* The index the page is at has passed no turn that the server does not    *)
(* have: a turn it passed is answered, unless an attempt at it failed or   *)
(* the page was reloaded while it was pending or failed (turns.length      *)
(* counts those rows).  Once a reconciliation came after a submission the  *)
(* index may skip a turn: the run voice_retry shows how (submitTurn,       *)
(* lines 155-158, and the reconciliation, line 115).                       *)
IndexFollowsRows ==
    page = "interview" /\ ~reconciledLate =>
        \A t \in 1..(nextTurnIndex - 1) :
            /\ turnStatus[t] # "absent"
            /\ turnStatus[t] # "complete" => t \in FailedTurns \/ reloads > 0

(* A recording is the kept answer of one turn at most, however often it    *)
(* was retried, dropped or reloaded over: the index a retry is sent with   *)
(* is the one that failed (comment of submitTurn, lines 161-162), unless a *)
(* reconciliation moved it.                                                *)
RecordingKeptOnce ==
    ~reconciledLate =>
        \A k, l \in Kept : k[2] = l[2] => k[1] = l[1]

(* What the page took for answered, the server keeps: the row is complete  *)
(* with that recording, if the candidate recorded one answer for this turn *)
(* and no attempt at it failed.  A second recording of a turn whose reply  *)
(* was lost, or that a reload forgot, is answered from the row and thrown  *)
(* away (submitTurn, _cached_turn_result).                                 *)
AcceptedAnswersKept ==
    \A a \in accepted :
        \/ a \in Kept
        \/ a[1] \in FailedTurns
        \/ \E r \in Posts : sent[r] = a[1] /\ audio[r] # a[2]

(* While no connection is lost and the page is not reloaded, what the page *)
(* took for answered is the answer of that turn even when attempts at it   *)
(* failed: one request at a time is in flight, so the retries of a failed  *)
(* turn never meet (the busy flag; contrast RepliesAgree).                 *)
PatientRetriesAgree ==
    drops = 0 /\ reloads = 0 =>
        \A r \in Posts :
            pc[r] \in Committed =>
                /\ turnStatus[idx[r]] = "complete"
                /\ turnResult[idx[r]] = Answer(r)

(* The id in sessionStorage, all a candidate can resume with, is dropped   *)
(* only when the server has completed the session (SessionCompleted.tsx,   *)
(* lines 28-31), whatever was lost, retried or reloaded before.            *)
DroppedOnlyWhenEnded ==
    page # "device" /\ stored = "none" => status = "complete"

(* "the same blob is kept so a Retry resends the identical (turn_index,    *)
(* audio) pair the backend expects" (VoiceInterviewSession.tsx, lines      *)
(* 161-162).                                                               *)
RetryResendsPair ==
    \A r, s \in Posts :
        sent[r] # 0 /\ sent[s] # 0 /\ audio[r] = audio[s] => sent[r] = sent[s]

=============================================================================

-------------------------- MODULE InterviewSystem --------------------------
(***************************************************************************)
(* The live interview end to end: the candidate's routes                   *)
(* (TurnSubmission) and the evaluation (Evaluation) over the same rows     *)
(* (InterviewRows), with the API process as a whole crashing and           *)
(* restarting under them.                                                  *)
(***************************************************************************)
EXTENDS TurnSubmission, Evaluation

vars == <<rowVars, turnVars, queue, requestVars, historyVars, workerVars>>

Init == RowsInit /\ EvaluationInit

(* The API process dies and restarts.  Every running request is gone; one  *)
(* that had claimed a turn leaves its row pending, one that had completed  *)
(* the session but not enqueued the task leaves nobody to evaluate it.     *)
ApiRestarts ==
    /\ \E r \in Requests : pc[r] \in Running
    /\ faults < MaxFaults
    /\ faults' = faults + 1
    /\ pc' = [r \in Requests |->
                CASE pc[r] \in InCascade -> "stranded"
                  [] pc[r] \in Running \ InCascade -> "dead"
                  [] OTHER -> pc[r]]
    /\ seen' = [r \in Requests |-> NotLoaded]
    /\ taskLost' = (taskLost \/ \E r \in Requests : pc[r] \in {"trigger", "record"})
    /\ UNCHANGED <<rowVars, turnVars, queue, idx, saw, hist, isComplete, got,
                   overlapped, closedWith, workerVars>>

(* A retry the server has begun takes its next step.                       *)
RetryStep(r) ==
    \/ ResetEvaluation(r)
    \/ Enqueue(r) /\ UNCHANGED workerVars
    \/ RetryEnqueueFails(r)

CandidateNext ==
    /\ \/ \E ended \in BOOLEAN : OpenSession(ended)
       \/ \E r \in Posts, t \in TurnIndexes : PostTurn(r, t)
       \/ \E r \in Posts : TurnStep(r) \/ CascadeRaises(r)
       \/ \E r \in Enders : PostEnd(r) \/ EndSession(r)
       \/ \E r \in Requests \ Retriers : TriggerStep(r)
    /\ UNCHANGED workerVars

EvaluationNext ==
    \/ \E r \in Retriers : PostRetry(r) \/ RetryStep(r)
    \/ \E d \in Decisions : SetDecision(d)
    \/ \E w \in Workers : WorkerStep(w) \/ WorkerCrashes(w)
    \/ BrokerRestarts

Next == CandidateNext \/ EvaluationNext \/ ApiRestarts

(* The event loop runs every request it has begun, every wait of the       *)
(* cascade ends (a 60 s timeout and a fixed number of attempts in          *)
(* llm_client.py), and an idle worker takes what is queued.  Nobody is     *)
(* obliged to send a request, to fail or to crash.                         *)
Fairness ==
    /\ \A r \in Posts : WF_vars(TurnStep(r) /\ UNCHANGED workerVars)
    /\ \A r \in Enders : WF_vars(EndSession(r) /\ UNCHANGED workerVars)
    /\ \A r \in Retriers : WF_vars(RetryStep(r))
    /\ \A r \in Requests \ Retriers : WF_vars(TriggerStep(r) /\ UNCHANGED workerVars)
    /\ \A w \in Workers : WF_vars(WorkerStep(w))

Spec == Init /\ [][Next]_vars
FairSpec == Spec /\ Fairness

-----------------------------------------------------------------------------
(***************************************************************************)
(* Types.                                                                  *)
(***************************************************************************)

(* Every column and every request-local value stays in its declared range  *)
(* (the CHECK constraints of app/models/interview_session.py and           *)
(* interview_turn.py, and the locals of the handlers).                     *)
TypeOK ==
    /\ status \in SessionStatuses
    /\ evalStatus \in EvaluationStatuses
    /\ evalError \in BOOLEAN
    /\ scored \in Transcripts
    /\ decision \in Decisions
    /\ turnStatus \in [TurnIndexes -> TurnStatuses]
    /\ turnResult \in [TurnIndexes -> {Opener, None} \cup Posts]
    /\ files \subseteq Requests
    /\ queue \in Nat
    /\ pc \in [Requests -> RequestStates]
    /\ idx \in [Posts -> TurnIndexes]
    /\ saw \in [Posts -> TurnStatuses]
    /\ hist \in [Posts -> Transcripts]
    /\ isComplete \in [Posts -> BOOLEAN]
    /\ got \in [Posts -> {Opener, None} \cup Posts]
    /\ seen \in [Requests -> EvaluationColumns]
    /\ faults \in 0..MaxFaults
    /\ taskLost \in BOOLEAN
    /\ overlapped \in BOOLEAN
    /\ closedWith \in Transcripts
    /\ wpc \in [Workers -> {"idle", "scoring", "storing", "failing"}]
    /\ reading \in [Workers -> Transcripts]
    /\ loaded \in [Workers -> EvaluationColumns]

-----------------------------------------------------------------------------
(***************************************************************************)
(* Turns.  The promise of ADR-007: (session_id, turn_index) makes a retry  *)
(* safe.  It holds for every turn that has not failed; RepliesAgree below *)
(* shows why the exception is needed.                                      *)
(***************************************************************************)

(* Two requests are never in the cascade for the same turn at once, unless *)
(* an attempt at it failed before: the select, the insert and the unique   *)
(* constraint together keep a double submit from being billed twice        *)
(* (submit_turn, phase 1).                                                 *)
SingleCascade ==
    \A r, s \in Posts :
        /\ r # s /\ idx[r] = idx[s]
        /\ pc[r] \in InCascade /\ pc[s] \in InCascade
        => idx[r] \in FailedTurns

(* Every answer given for a turn, first or cached, is the same answer, and *)
(* it is the one the turn's row keeps (_cached_turn_result).               *)
Answer(r) == IF pc[r] = "cached" THEN got[r] ELSE r
Committed == {"ok", "trigger", "record", "cached"}
OneAnswer ==
    \A r \in Posts :
        pc[r] \in Committed /\ idx[r] \notin FailedTurns
        => /\ turnStatus[idx[r]] = "complete"
           /\ turnResult[idx[r]] = Answer(r)

(* A row at "pending" is one a request is going to settle, or one that a   *)
(* request which died or raised left behind: no answered request leaves a  *)
(* turn refusing its retries (submit_turn, lines 189-259), even though a   *)
(* commit that assigns the status it loaded settles nothing.               *)
SettlesTurn(r) ==
    \/ pc[r] = "cascade"
    \/ pc[r] = "persist" /\ saw[r] # "complete"
    \/ pc[r] = "mark" /\ saw[r] # "failed"
PendingTurnOwned ==
    \A t \in TurnIndexes : turnStatus[t] = "pending" =>
        \E r \in Posts : idx[r] = t /\ (SettlesTurn(r) \/ pc[r] = "stranded")

(* What the interviewer model was told of an earlier turn stays what the   *)
(* row says: the conversation a cascade ran on is never rewritten under    *)
(* it (_reconstruct_history).                                              *)
HistoryStable ==
    \A r \in Posts : \A p \in hist[r] :
        p[1] \in FailedTurns \/ p \in CompleteTurns

(* A complete turn has the media its row points to, whatever crashed and   *)
(* whoever overwrote it: files are written before the commit that names    *)
(* them (submit_turn, lines 237-251).                                      *)
MediaOnDisk == \A p \in CompleteTurns : p[2] \in files

(* A complete turn that never failed keeps its status and its result       *)
(* through every later step of every request.                              *)
CompleteTurnStable ==
    [][\A t \in TurnIndexes :
          turnStatus[t] = "complete" /\ t \notin FailedTurns
          => turnStatus'[t] = "complete" /\ turnResult'[t] = turnResult[t]]_vars

-----------------------------------------------------------------------------
(***************************************************************************)
(* Completion and evaluation.                                              *)
(***************************************************************************)

(* Evaluation starts exactly when the session is completed: before that    *)
(* nothing is queued, read or scored, and from that commit on              *)
(* evaluation_status is never seen at "idle" (_trigger_evaluation).        *)
EvaluationFollowsCompletion ==
    /\ status = "complete" <=> evalStatus # "idle"
    /\ status # "complete" =>
          /\ queue = 0 /\ scored = {}
          /\ \A w \in Workers : wpc[w] = "idle"
          /\ \A r \in Requests : pc[r] \notin {"trigger", "record"}

(* A pending evaluation has somebody to settle it, or a fault took its     *)
(* task: enqueueing failures, retries and late completions never leave it  *)
(* pending with nothing queued ("silence would strand the row").           *)
PendingEvaluationOwned == evalStatus = "pending" => EvaluationOwned \/ taskLost

(* A score covers every turn that was complete when the session was        *)
(* completed and had not failed: the trigger runs after the commit that    *)
(* holds both, and no turn is lost between the two transactions.           *)
ScoreCoversInterview ==
    scored # {} => \A p \in closedWith : p[1] \in FailedTurns \/ p \in scored

(* The status a recruiter sees agrees with the rest of the row: complete   *)
(* has a score and no error, failed has an error, in whatever order        *)
(* duplicate tasks, retries and failures come.  The error can disagree in  *)
(* one case only: the row changed between an outcome's load and its        *)
(* commit, so that the commit left a column out.                           *)
OutcomeConsistent ==
    /\ evalStatus = "complete" => scored # {}
    /\ ~overlapped => /\ evalStatus = "complete" => ~evalError
                      /\ evalStatus = "failed" => evalError

(* Completion is final: no request that loaded the session while it was    *)
(* active brings it back.                                                  *)
CompletionIsFinal == [][status = "complete" => status' = "complete"]_vars

(* The promise of the evaluation as a whole: EvaluationLifecycle, with     *)
(* phase read off the row and the question whether anybody owns it.        *)
Phase ==
    CASE evalStatus = "idle" -> "notDue"
      [] evalStatus = "pending" /\ EvaluationOwned -> "due"
      [] evalStatus = "pending" /\ ~EvaluationOwned -> "stalled"
      [] OTHER -> "settled"

Lifecycle == INSTANCE EvaluationLifecycle WITH phase <- Phase

(* The rows, the queue, the workers and every route that touches an        *)
(* evaluation implement the four-phase lifecycle, its liveness included.   *)
ImplementsLifecycle == Lifecycle!LifecycleSpec

(* Every pending turn is completed or failed, unless its request died.     *)
TurnSettles ==
    \A t \in TurnIndexes :
        turnStatus[t] = "pending" ~>
            \/ turnStatus[t] # "pending"
            \/ \E r \in Posts : idx[r] = t /\ pc[r] = "stranded"

-----------------------------------------------------------------------------
(***************************************************************************)
(* The strengthening that makes the invariants above inductive.            *)
(***************************************************************************)

(* What a request between two of its transactions may still rely on.       *)
RequestInv ==
    /\ status = "none" => \A r \in Requests : pc[r] = "new"
    /\ \A r \in Posts :
        /\ pc[r] = "claim" =>
              \/ saw[r] = "absent"
              \/ saw[r] = "failed" /\ idx[r] \in FailedTurns
        /\ pc[r] \in {"claim"} \cup InCascade => idx[r] # 0
        /\ pc[r] \in InCascade =>
              turnStatus[idx[r]] = "pending" \/ idx[r] \in FailedTurns
        /\ pc[r] \in {"persist", "mark"} =>
              saw[r] = "pending" \/ idx[r] \in FailedTurns
        /\ pc[r] = "persist" => r \in files
    /\ \A r \in Retriers : pc[r] = "reset" => status = "complete"

(* A failed row records a failed attempt; turn 0 is the opening line.      *)
RowInv ==
    /\ \A t \in TurnIndexes : turnStatus[t] = "failed" => t \in FailedTurns
    /\ status = "none" => \A t \in TurnIndexes : turnStatus[t] = "absent"
    /\ status # "none" => turnStatus[0] = "complete" /\ turnResult[0] = Opener

(* The transcript at completion is still there, and every worker read it.  *)
TranscriptInv ==
    /\ status # "complete" => closedWith = {}
    /\ \A p \in closedWith : p[1] \in FailedTurns \/ p \in CompleteTurns
    /\ \A w \in Workers : wpc[w] \in {"scoring", "storing"} =>
          /\ reading[w] # {}
          /\ \A p \in closedWith : p[1] \in FailedTurns \/ p \in reading[w]

(* What a request loaded of the evaluation: nothing before completion, and *)
(* a retry only goes on from an evaluation that is not pending.            *)
SeenInv ==
    /\ \A r \in Requests : seen[r].evalStatus # "idle" => status = "complete"
    /\ \A r \in Retriers : pc[r] = "reset" => seen[r].evalStatus # "pending"

TurnInv ==
    /\ TypeOK /\ RequestInv /\ RowInv
    /\ SingleCascade /\ OneAnswer /\ PendingTurnOwned
    /\ HistoryStable /\ MediaOnDisk

EvaluationInv ==
    /\ EvaluationFollowsCompletion /\ SeenInv /\ PendingEvaluationOwned
    /\ TranscriptInv /\ ScoreCoversInterview /\ OutcomeConsistent

IInv == TurnInv /\ EvaluationInv

-----------------------------------------------------------------------------
(***************************************************************************)
(* What the documentation says and the code does not do.                   *)
(***************************************************************************)

(* interview_sessions.py:70: a retry of a complete turn "returns the same  *)
(* result".  It is refused with 409 once the session is complete, as it is *)
(* when the turn being retried is the one that completed it.               *)
RetryGetsResult ==
    [][\A r \in Posts :
          pc[r] = "new" /\ pc'[r] = "closed"
          => turnStatus[idx'[r]] # "complete" \/ turnResult[idx'[r]] = Opener]_vars

(* interview_sessions.py:71: no "two different answers to what's supposed  *)
(* to be the same turn".                                                   *)
RepliesAgree ==
    \A r, s \in Posts :
        /\ idx[r] = idx[s]
        /\ pc[r] \in Committed
        /\ pc[s] \in Committed
        => Answer(r) = Answer(s)

(* interview_reports.py:130: the retry route is "a backstop for a failed   *)
(* or stuck evaluation".                                                   *)
StuckEvaluationRetriable ==
    [][\A r \in Retriers :
          /\ pc[r] = "new" /\ pc'[r] = "rejected"
          /\ status = "complete"
          => EvaluationOwned]_vars

=============================================================================

----------------------------- MODULE Evaluation -----------------------------
(***************************************************************************)
(* The evaluation of a completed interview: the recruiter's routes of      *)
(* app/routers/interview_reports.py and the Celery worker that runs        *)
(* app/services/interview_evaluator.py.                                    *)
(*                                                                         *)
(* Celery acknowledges a message when a worker takes it (no acks_late in   *)
(* app/celery_app.py) and Redis keeps no data across a restart, so a task  *)
(* is delivered at most once.                                              *)
(***************************************************************************)
EXTENDS InterviewRows

CONSTANTS
    Workers,    \* Celery worker processes
    Decisions   \* the values DecisionPatch accepts

ASSUME EvaluationAssumption == "None" \in Decisions

VARIABLES
    wpc,        \* a worker is "idle", waits for the judge model ("scoring"), or
                \* is about to commit its result ("storing") or a failure
    reading,    \* the transcript it read
    loaded      \* the evaluation columns as its open transaction loaded them

workerVars == <<wpc, reading, loaded>>

EvaluationInit ==
    /\ wpc = [w \in Workers |-> "idle"]
    /\ reading = [w \in Workers |-> {}]
    /\ loaded = [w \in Workers |-> NotLoaded]

(* Somebody is going to settle the evaluation: a request about to enqueue  *)
(* the task or to record that it could not, a message in the queue, or a   *)
(* worker.  A commit that assigns the status its transaction loaded does   *)
(* not count: it leaves the column alone.                                  *)
EvaluationOwned ==
    \/ \E r \in Requests :
          \/ pc[r] = "trigger"
          \/ pc[r] = "record" /\ seen[r].evalStatus # "failed"
    \/ queue > 0
    \/ \E w \in Workers :
          \/ wpc[w] = "scoring"
          \/ wpc[w] = "storing" /\ loaded[w].evalStatus # "complete"
          \/ wpc[w] = "failing" /\ loaded[w].evalStatus # "failed"

(* A worker's task is over.                                                *)
Finish(w) ==
    /\ wpc' = [wpc EXCEPT ![w] = "idle"]
    /\ reading' = [reading EXCEPT ![w] = {}]
    /\ loaded' = [loaded EXCEPT ![w] = NotLoaded]

-----------------------------------------------------------------------------
\* Mutant: the status check is missing.
PostRetry_AnySession(r) ==
    /\ status # "none"
    /\ pc[r] = "new"
    /\ seen' = [seen EXCEPT ![r] = Loaded]
    /\ pc' = [pc EXCEPT ![r] = IF evalStatus # "pending" THEN "reset" ELSE "rejected"]
    /\ UNCHANGED <<rowVars, turnVars, queue, idx, saw, hist, isComplete, got,
                   historyVars, workerVars>>

(* POST .../evaluate: refused unless the session is complete and no        *)
(* evaluation is pending, as of when the row was loaded.                   *)
PostRetry(r) ==
    /\ status # "none"
    /\ pc[r] = "new"
    /\ \/ /\ status = "complete" /\ evalStatus # "pending"
          /\ seen' = [seen EXCEPT ![r] = Loaded]
          /\ pc' = [pc EXCEPT ![r] = "reset"]
       \/ /\ status # "complete" \/ evalStatus = "pending"
          /\ pc' = [pc EXCEPT ![r] = "rejected"]
          /\ UNCHANGED seen
    /\ UNCHANGED <<rowVars, turnVars, queue, idx, saw, hist, isComplete, got,
                   historyVars, workerVars>>

(* The accepted retry resets status and error.                             *)
ResetEvaluation(r) ==
    /\ pc[r] = "reset"
    /\ RequestEvaluation(r)
    /\ evalError' = Flush(seen[r].evalError, FALSE, evalError)
    /\ UNCHANGED <<status, scored, decision, turnVars, queue, idx, saw, hist,
                   isComplete, got, faults, overlapped, closedWith, workerVars>>

(* Its push fails: the row object it reset a moment ago records that, so   *)
(* both columns differ from what it holds and both are sent.               *)
RetryEnqueueFails(r) ==
    /\ pc[r] = "trigger"
    /\ evalStatus' = "failed"
    /\ evalError' = TRUE
    /\ pc' = [pc EXCEPT ![r] = "ok"]
    /\ UNCHANGED <<status, scored, decision, turnVars, queue, idx, saw, hist,
                   isComplete, got, seen, historyVars, workerVars>>

(* PATCH .../{id}: the human override, allowed at any time.                *)
SetDecision(d) ==
    /\ status # "none"
    /\ decision' = d
    /\ UNCHANGED <<status, evalStatus, evalError, scored, turnVars, queue,
                   requestVars, historyVars, workerVars>>

-----------------------------------------------------------------------------
\* Mutant: the transcript is cut like bound_history cuts the conversation.
TakeTask_CutsOpening(w, hasRubric) ==
    /\ wpc[w] = "idle"
    /\ queue > 0
    /\ queue' = queue - 1
    /\ wpc' = [wpc EXCEPT ![w] = "scoring"]
    /\ reading' = [reading EXCEPT ![w] = {p \in CompleteTurns : p[1] > 0}]
    /\ UNCHANGED <<rowVars, turnVars, requestVars, historyVars, loaded>>

(* The worker takes a task and reads the session and its transcript.       *)
(* Without a job that has a rubric it goes on to record just that, in the  *)
(* transaction that loaded the session.                                    *)
TakeTask(w, hasRubric) ==
    /\ wpc[w] = "idle"
    /\ queue > 0
    /\ queue' = queue - 1
    /\ reading' = [reading EXCEPT ![w] = CompleteTurns]
    /\ \/ /\ hasRubric
          /\ wpc' = [wpc EXCEPT ![w] = "scoring"]
          /\ UNCHANGED loaded
       \/ /\ ~hasRubric
          /\ wpc' = [wpc EXCEPT ![w] = "failing"]
          /\ loaded' = [loaded EXCEPT ![w] = Loaded]
    /\ UNCHANGED <<rowVars, turnVars, requestVars, historyVars>>

(* The judge answers well and the session is loaded to take the result.    *)
JudgeAnswers(w) ==
    /\ wpc[w] = "scoring"
    /\ wpc' = [wpc EXCEPT ![w] = "storing"]
    /\ loaded' = [loaded EXCEPT ![w] = Loaded]
    /\ UNCHANGED <<rowVars, turnVars, queue, requestVars, historyVars, reading>>

\* Mutant: the error of an earlier attempt is not cleared.
StoreScore_KeepsError(w) ==
    /\ wpc[w] = "storing"
    /\ scored' = reading[w]
    /\ evalStatus' = Flush(loaded[w].evalStatus, "complete", evalStatus)
    /\ overlapped' = (overlapped \/ loaded[w] # Loaded)
    /\ Finish(w)
    /\ UNCHANGED <<status, evalError, decision, turnVars, queue, requestVars,
                   faults, taskLost, closedWith>>

(* The result is committed, over whatever result is there.                 *)
StoreScore(w) ==
    /\ wpc[w] = "storing"
    /\ scored' = reading[w]
    /\ evalStatus' = Flush(loaded[w].evalStatus, "complete", evalStatus)
    /\ evalError' = Flush(loaded[w].evalError, FALSE, evalError)
    /\ overlapped' = (overlapped \/ loaded[w] # Loaded)
    /\ Finish(w)
    /\ UNCHANGED <<status, decision, turnVars, queue, requestVars, faults,
                   taskLost, closedWith>>

(* Any exception at all, from the judge, from its answer or from storing   *)
(* it: _mark_failed loads the session anew ...                             *)
JudgeFails(w) ==
    /\ wpc[w] \in {"scoring", "storing"}
    /\ wpc' = [wpc EXCEPT ![w] = "failing"]
    /\ loaded' = [loaded EXCEPT ![w] = Loaded]
    /\ UNCHANGED <<rowVars, turnVars, queue, requestVars, historyVars, reading>>

\* Mutant: the exception ends the task and nothing records it.
MarkFailed_Silently(w) ==
    /\ wpc[w] = "failing"
    /\ Finish(w)
    /\ UNCHANGED <<rowVars, turnVars, queue, requestVars, historyVars>>

(* ... and commits the failure, whatever evaluation_status is by now.      *)
MarkFailed(w) ==
    /\ wpc[w] = "failing"
    /\ RecordFailure(loaded[w])
    /\ Finish(w)
    /\ UNCHANGED <<status, scored, decision, turnVars, queue, requestVars,
                   faults, taskLost, closedWith>>

WorkerStep(w) ==
    \/ \E hasRubric \in BOOLEAN : TakeTask(w, hasRubric)
    \/ JudgeAnswers(w)
    \/ StoreScore(w)
    \/ JudgeFails(w)
    \/ MarkFailed(w)

-----------------------------------------------------------------------------
(* Faults: a worker process dies with the task it took, Redis restarts     *)
(* with an empty queue.                                                    *)
WorkerCrashes(w) ==
    /\ wpc[w] # "idle"
    /\ faults < MaxFaults
    /\ faults' = faults + 1
    /\ taskLost' = TRUE
    /\ Finish(w)
    /\ UNCHANGED <<rowVars, turnVars, queue, requestVars, overlapped, closedWith>>

BrokerRestarts ==
    /\ queue > 0
    /\ faults < MaxFaults
    /\ faults' = faults + 1
    /\ taskLost' = TRUE
    /\ queue' = 0
    /\ UNCHANGED <<rowVars, turnVars, requestVars, overlapped, closedWith, workerVars>>

=============================================================================

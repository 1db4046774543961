--------------------------- MODULE TurnSubmission ---------------------------
(***************************************************************************)
(* The candidate's side, app/routers/interview_sessions.py: opening a      *)
(* session, submitting a turn in three phases around the slow STT -> LLM   *)
(* -> TTS cascade, ending the interview early, and the evaluation trigger  *)
(* that follows every completion.                                          *)
(*                                                                         *)
(* One action per database transaction.  Reads and writes of one short     *)
(* session with nothing but its own commit between them are one step;      *)
(* where the code awaits something else in between (the dependency that    *)
(* loads the session before the handler runs, the select that phase 1      *)
(* decides on, the cascade) the steps are apart and others interleave.     *)
(***************************************************************************)
EXTENDS InterviewRows

(* POST /interviews/{id}/sessions.  start_interview ran before anything    *)
(* was written: an LLMError persists nothing, so the request that does     *)
(* create the session is the one modelled.  ended: the opening line        *)
(* already held the completion sentinel.                                   *)
OpenSession(ended) ==
    /\ status = "none"
    /\ pc[Opener] = "new"
    /\ status' = IF ended THEN "complete" ELSE "active"
    /\ turnStatus' = [turnStatus EXCEPT ![0] = "complete"]
    /\ turnResult' = [turnResult EXCEPT ![0] = Opener]
    /\ files' = files \cup {Opener}
    /\ \/ ended /\ RequestEvaluation(Opener) /\ closedWith' = {<<0, Opener>>}
       \/ ~ended /\ pc' = [pc EXCEPT ![Opener] = "ok"]
          /\ UNCHANGED <<evalStatus, taskLost, closedWith, seen>>
    /\ UNCHANGED <<evalError, scored, decision, queue, idx, saw, hist,
                   isComplete, got, faults, overlapped>>

-----------------------------------------------------------------------------
(* POST .../turns                                                          *)

(* get_current_interview_session loads the session and the handler checks  *)
(* its status: the only look a turn takes at whether the session is open.  *)
PostTurn(r, t) ==
    /\ status # "none"
    /\ pc[r] = "new"
    /\ idx' = [idx EXCEPT ![r] = t]
    /\ pc' = [pc EXCEPT ![r] = IF status = "active" THEN "lookup" ELSE "closed"]
    /\ UNCHANGED <<rowVars, turnVars, queue, saw, hist, isComplete, got,
                   seen, historyVars>>

\* Mutant: the select ignores a complete row and runs the cascade again.
LookUpTurn_RerunsComplete(r) ==
    /\ pc[r] = "lookup"
    /\ saw' = [saw EXCEPT ![r] = turnStatus[idx[r]]]
    /\ pc' = [pc EXCEPT ![r] =
                IF turnStatus[idx[r]] = "pending" THEN "conflict" ELSE "claim"]
    /\ UNCHANGED <<rowVars, turnVars, queue, idx, hist, isComplete, got,
                   seen, historyVars>>

\* Mutant: a pending row is taken for an abandoned one and retried.
LookUpTurn_RetriesPending(r) ==
    LET found == turnStatus[idx[r]]
    IN  /\ pc[r] = "lookup"
        /\ saw' = [saw EXCEPT ![r] = found]
        /\ pc' = [pc EXCEPT ![r] = IF found = "complete" THEN "cached" ELSE "claim"]
        /\ got' = [got EXCEPT ![r] =
                    IF found = "complete" THEN turnResult[idx[r]] ELSE @]
        /\ UNCHANGED <<rowVars, turnVars, queue, idx, hist, isComplete,
                       seen, historyVars>>

(* Phase 1, the select: a complete turn is answered from its row, a        *)
(* pending one is refused, and the handler goes on with what it saw.       *)
LookUpTurn(r) ==
    LET found == turnStatus[idx[r]]
    IN  /\ pc[r] = "lookup"
        /\ saw' = [saw EXCEPT ![r] = found]
        /\ pc' = [pc EXCEPT ![r] =
                    CASE found = "complete" -> "cached"
                      [] found = "pending" -> "conflict"
                      [] OTHER -> "claim"]
        /\ got' = [got EXCEPT ![r] =
                    IF found = "complete" THEN turnResult[idx[r]] ELSE @]
        /\ UNCHANGED <<rowVars, turnVars, queue, idx, hist, isComplete,
                       seen, historyVars>>

\* Mutant: no unique constraint, the second insert becomes an upsert.
ClaimTurn_Upserts(r) ==
    /\ pc[r] = "claim"
    /\ turnStatus' = [turnStatus EXCEPT ![idx[r]] = "pending"]
    /\ hist' = [hist EXCEPT ![r] = TurnsBefore(idx[r])]
    /\ pc' = [pc EXCEPT ![r] = "cascade"]
    /\ UNCHANGED <<rowVars, turnResult, files, queue, idx, saw, isComplete, got,
                   seen, historyVars>>

\* Mutant: a status that ck_interview_turns_status does not know.
ClaimTurn_NewStatus(r) ==
    /\ pc[r] = "claim"
    /\ turnStatus' = [turnStatus EXCEPT ![idx[r]] = "processing"]
    /\ hist' = [hist EXCEPT ![r] = TurnsBefore(idx[r])]
    /\ pc' = [pc EXCEPT ![r] = "cascade"]
    /\ UNCHANGED <<rowVars, turnResult, files, queue, idx, saw, isComplete, got,
                   seen, historyVars>>

(* Phase 1, the commit: insert the row, which uq_interview_turns_session_  *)
(* turn refuses when another request inserted it meanwhile (the            *)
(* IntegrityError is not caught), or set a failed row back to pending,     *)
(* whatever it has become since.  Then rebuild the history.                *)
ClaimTurn(r) ==
    LET t == idx[r]
    IN  /\ pc[r] = "claim"
        /\ \/ /\ saw[r] = "absent" => turnStatus[t] = "absent"
              /\ turnStatus' = [turnStatus EXCEPT ![t] = "pending"]
              /\ hist' = [hist EXCEPT ![r] = TurnsBefore(t)]
              /\ pc' = [pc EXCEPT ![r] = "cascade"]
           \/ /\ saw[r] = "absent" /\ turnStatus[t] # "absent"
              /\ pc' = [pc EXCEPT ![r] = "integrity"]
              /\ UNCHANGED <<turnStatus, hist>>
        /\ UNCHANGED <<rowVars, turnResult, files, queue, idx, saw,
                       isComplete, got, seen, historyVars>>

\* Mutant: the result is committed without its media being written.
CascadeSucceeds_WithoutFiles(r, ended) ==
    /\ pc[r] = "cascade"
    /\ isComplete' = [isComplete EXCEPT ![r] = ended]
    /\ saw' = [saw EXCEPT ![r] = turnStatus[idx[r]]]
    /\ seen' = [seen EXCEPT ![r] = Loaded]
    /\ pc' = [pc EXCEPT ![r] = "persist"]
    /\ UNCHANGED <<rowVars, turnVars, queue, idx, hist, got, historyVars>>

(* Phase 2: run_turn succeeds, both media files are written, and phase 3   *)
(* loads the turn and the session.                                         *)
CascadeSucceeds(r, ended) ==
    /\ pc[r] = "cascade"
    /\ files' = files \cup {r}
    /\ isComplete' = [isComplete EXCEPT ![r] = ended]
    /\ saw' = [saw EXCEPT ![r] = turnStatus[idx[r]]]
    /\ seen' = [seen EXCEPT ![r] = Loaded]
    /\ pc' = [pc EXCEPT ![r] = "persist"]
    /\ UNCHANGED <<rowVars, turnStatus, turnResult, queue, idx, hist, got,
                   historyVars>>

(* Phase 2: an LLMError; the turn is loaded to be marked failed.           *)
CascadeFails(r) ==
    /\ pc[r] = "cascade"
    /\ saw' = [saw EXCEPT ![r] = turnStatus[idx[r]]]
    /\ pc' = [pc EXCEPT ![r] = "mark"]
    /\ UNCHANGED <<rowVars, turnVars, queue, idx, hist, isComplete, got, seen,
                   historyVars>>

\* Mutant: the 502 is sent without marking the row failed.
MarkTurnFailed_Silently(r) ==
    /\ pc[r] = "mark"
    /\ pc' = [pc EXCEPT ![r] = "failed"]
    /\ UNCHANGED <<rowVars, turnVars, queue, idx, saw, hist, isComplete, got,
                   seen, historyVars>>

(* The row is marked failed, whatever it is by now, and 502 is answered.   *)
MarkTurnFailed(r) ==
    /\ pc[r] = "mark"
    /\ turnStatus' = [turnStatus EXCEPT ![idx[r]] = Flush(saw[r], "failed", @)]
    /\ pc' = [pc EXCEPT ![r] = "failed"]
    /\ UNCHANGED <<rowVars, turnResult, files, queue, idx, saw, hist,
                   isComplete, got, seen, historyVars>>

(* Any other exception between the claim and the last commit (a response   *)
(* that is not JSON, a null content, a full disk) leaves the row as it is. *)
CascadeRaises(r) ==
    /\ pc[r] \in InCascade
    /\ faults < MaxFaults
    /\ faults' = faults + 1
    /\ pc' = [pc EXCEPT ![r] = "stranded"]
    /\ seen' = [seen EXCEPT ![r] = NotLoaded]
    /\ UNCHANGED <<rowVars, turnVars, queue, idx, saw, hist, isComplete, got,
                   taskLost, overlapped, closedWith>>

\* Mutant: the session is saved back as the request loaded it, still active.
PersistTurn_StaleSession(r) ==
    /\ pc[r] = "persist"
    /\ turnStatus' = [turnStatus EXCEPT ![idx[r]] = "complete"]
    /\ turnResult' = [turnResult EXCEPT ![idx[r]] = r]
    /\ status' = "active"
    /\ pc' = [pc EXCEPT ![r] = "ok"]
    /\ UNCHANGED <<evalStatus, evalError, scored, decision, files, queue, idx,
                   saw, hist, isComplete, got, seen, historyVars>>

(* Phase 3, the commit: one transaction stores the result in the turn row  *)
(* and, when the interviewer ended the interview, completes the session    *)
(* and requests its evaluation; it never asks if the session is active.    *)
PersistTurn(r) ==
    /\ pc[r] = "persist"
    /\ turnStatus' = [turnStatus EXCEPT ![idx[r]] = Flush(saw[r], "complete", @)]
    /\ turnResult' = [turnResult EXCEPT ![idx[r]] = r]
    /\ \/ /\ isComplete[r]
          /\ status' = "complete"
          /\ RequestEvaluation(r)
          /\ closedWith' = IF status = "active" THEN CompleteTurns' ELSE closedWith
       \/ /\ ~isComplete[r]
          /\ pc' = [pc EXCEPT ![r] = "ok"]
          /\ seen' = [seen EXCEPT ![r] = NotLoaded]
          /\ UNCHANGED <<status, evalStatus, taskLost, closedWith>>
    /\ UNCHANGED <<evalError, scored, decision, files, queue, idx, saw, hist,
                   isComplete, got, faults, overlapped>>

-----------------------------------------------------------------------------
(* POST .../complete: the session as loaded when the request came in       *)
(* decides; a session that is not active is left alone.                    *)
PostEnd(r) ==
    /\ status # "none"
    /\ pc[r] = "new"
    /\ \/ /\ status = "active"
          /\ seen' = [seen EXCEPT ![r] = Loaded]
          /\ pc' = [pc EXCEPT ![r] = "end"]
       \/ /\ status = "complete"
          /\ pc' = [pc EXCEPT ![r] = "noop"]
          /\ UNCHANGED seen
    /\ UNCHANGED <<rowVars, turnVars, queue, idx, saw, hist, isComplete, got,
                   historyVars>>

EndSession(r) ==
    /\ pc[r] = "end"
    /\ status' = "complete"
    /\ RequestEvaluation(r)
    /\ closedWith' = IF status = "active" THEN CompleteTurns ELSE closedWith
    /\ UNCHANGED <<evalError, scored, decision, turnVars, queue, idx, saw,
                   hist, isComplete, got, faults, overlapped>>

-----------------------------------------------------------------------------
(* The push to Redis, by whoever requested an evaluation.                  *)
Enqueue(r) ==
    /\ pc[r] = "trigger"
    /\ queue' = queue + 1
    /\ pc' = [pc EXCEPT ![r] = "ok"]
    /\ UNCHANGED <<rowVars, turnVars, idx, saw, hist, isComplete, got, seen,
                   historyVars>>

\* Mutant: an unreachable Redis is swallowed.
EnqueueFails_Silently(r) ==
    /\ pc[r] = "trigger"
    /\ pc' = [pc EXCEPT ![r] = "ok"]
    /\ UNCHANGED <<rowVars, turnVars, queue, idx, saw, hist, isComplete, got,
                   seen, historyVars>>

(* _trigger_evaluation: Redis refuses the push, the session is loaded ...  *)
EnqueueFails(r) ==
    /\ pc[r] = "trigger"
    /\ seen' = [seen EXCEPT ![r] = Loaded]
    /\ pc' = [pc EXCEPT ![r] = "record"]
    /\ UNCHANGED <<rowVars, turnVars, queue, idx, saw, hist, isComplete, got,
                   historyVars>>

(* ... and the failure recorded; the candidate's reply is sent all the     *)
(* same.                                                                   *)
RecordEnqueueFailure(r) ==
    /\ pc[r] = "record"
    /\ RecordFailure(seen[r])
    /\ seen' = [seen EXCEPT ![r] = NotLoaded]
    /\ pc' = [pc EXCEPT ![r] = "ok"]
    /\ UNCHANGED <<status, scored, decision, turnVars, queue, idx, saw, hist,
                   isComplete, got, faults, taskLost, closedWith>>

-----------------------------------------------------------------------------

(* A request the server has begun takes its next step.                     *)
TurnStep(r) ==
    \/ LookUpTurn(r)
    \/ ClaimTurn(r)
    \/ \E ended \in BOOLEAN : CascadeSucceeds(r, ended)
    \/ CascadeFails(r)
    \/ MarkTurnFailed(r)
    \/ PersistTurn(r)

TriggerStep(r) == Enqueue(r) \/ EnqueueFails(r) \/ RecordEnqueueFailure(r)

=============================================================================

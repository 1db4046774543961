----------------------- MODULE InterviewSystem_proofs -----------------------
(***************************************************************************)
(* Theorems about InterviewSystem for every set of requests and workers,   *)
(* every number of turns and every number of faults.                       *)
(***************************************************************************)
EXTENDS InterviewSystem, TLAPS

(* The transcript the select returns is a transcript.                      *)
LEMMA CompleteTurnsType ==
    ASSUME TypeOK
    PROVE  /\ CompleteTurns \in Transcripts
           /\ \A t \in TurnIndexes : TurnsBefore(t) \in Transcripts
BY DEF TypeOK, CompleteTurns, TurnsBefore, Transcripts

(* So are the columns a transaction loads, and none is loaded at first.    *)
LEMMA ColumnTypes ==
    /\ NotLoaded \in EvaluationColumns
    /\ TypeOK => Loaded \in EvaluationColumns
BY DEF NotLoaded, EvaluationColumns, EvaluationStatuses, TypeOK, Loaded

(* Recording a failure keeps the types.                                    *)
LEMMA FailureTypes ==
    ASSUME TypeOK, NEW old \in EvaluationColumns, RecordFailure(old)
    PROVE  /\ evalStatus' \in EvaluationStatuses
           /\ evalError' \in BOOLEAN
           /\ overlapped' \in BOOLEAN
<1>1. evalStatus' \in EvaluationStatuses
  BY DEF TypeOK, RecordFailure, Flush, EvaluationStatuses
<1>2. evalError' \in BOOLEAN
  BY DEF TypeOK, RecordFailure
<1>3. overlapped' \in BOOLEAN
  BY DEF TypeOK, RecordFailure
<1>. QED BY <1>1, <1>2, <1>3

(* Every step of the candidate's routes keeps the types.                   *)
LEMMA CandidateTypes ==
    ASSUME TypeOK, CandidateNext
    PROVE  TypeOK'
<1> USE ColumnTypes DEF TypeOK, Requests, Running, Answered, RequestStates,
            SessionStatuses, EvaluationStatuses, TurnStatuses, rowVars, turnVars,
            requestVars, historyVars, workerVars, RequestEvaluation, Flush
<1>0. UNCHANGED workerVars
  BY DEF CandidateNext
<1>1. ASSUME NEW ended \in BOOLEAN, OpenSession(ended) PROVE TypeOK'
  <2>1. 0 \in TurnIndexes
    BY RowsAssumption DEF TurnIndexes
  <2>2. {<<0, Opener>>} \in Transcripts
    BY <2>1 DEF Transcripts
  <2>3. /\ turnStatus' \in [TurnIndexes -> TurnStatuses]
        /\ turnResult' \in [TurnIndexes -> {Opener, None} \cup Posts]
    BY <1>1 DEF OpenSession
  <2>4. /\ evalStatus' \in EvaluationStatuses
        /\ taskLost' \in BOOLEAN
        /\ closedWith' \in Transcripts
    BY <1>1, <2>2 DEF OpenSession
  <2>5. /\ pc' \in [Requests -> RequestStates]
        /\ seen' \in [Requests -> EvaluationColumns]
    BY <1>1 DEF OpenSession
  <2>. QED BY <1>0, <1>1, <2>3, <2>4, <2>5 DEF OpenSession
<1>2. ASSUME NEW r \in Posts, NEW t \in TurnIndexes, PostTurn(r, t) PROVE TypeOK'
  BY <1>0, <1>2 DEF PostTurn
<1>3. ASSUME NEW r \in Posts, LookUpTurn(r) PROVE TypeOK'
  BY <1>0, <1>3 DEF LookUpTurn
<1>4. ASSUME NEW r \in Posts, ClaimTurn(r) PROVE TypeOK'
  BY <1>0, <1>4, CompleteTurnsType DEF ClaimTurn
<1>5. ASSUME NEW r \in Posts, NEW ended \in BOOLEAN, CascadeSucceeds(r, ended)
      PROVE  TypeOK'
  BY <1>0, <1>5 DEF CascadeSucceeds
<1>6. ASSUME NEW r \in Posts, CascadeFails(r) PROVE TypeOK'
  BY <1>0, <1>6 DEF CascadeFails
<1>7. ASSUME NEW r \in Posts, CascadeRaises(r) PROVE TypeOK'
  BY <1>0, <1>7, RowsAssumption DEF CascadeRaises
<1>12. ASSUME NEW r \in Posts, MarkTurnFailed(r) PROVE TypeOK'
  <2>1. turnStatus' \in [TurnIndexes -> TurnStatuses]
    BY <1>12 DEF MarkTurnFailed
  <2>. QED BY <1>0, <1>12, <2>1 DEF MarkTurnFailed
<1>8. ASSUME NEW r \in Posts, PersistTurn(r) PROVE TypeOK'
  <2>1. /\ turnStatus' \in [TurnIndexes -> TurnStatuses]
        /\ turnResult' \in [TurnIndexes -> {Opener, None} \cup Posts]
    BY <1>8 DEF PersistTurn
  <2>2. CompleteTurns' \in Transcripts
    BY <2>1 DEF CompleteTurns, Transcripts
  <2>3. closedWith' \in Transcripts
    BY <1>8, <2>2 DEF PersistTurn
  <2>4. /\ status' \in SessionStatuses
        /\ evalStatus' \in EvaluationStatuses
        /\ taskLost' \in BOOLEAN
        /\ pc' \in [Requests -> RequestStates]
    BY <1>8 DEF PersistTurn
  <2>. QED BY <1>0, <1>8, <2>1, <2>3, <2>4 DEF PersistTurn
<1>9. ASSUME NEW r \in Enders, PostEnd(r) PROVE TypeOK'
  BY <1>0, <1>9 DEF PostEnd
<1>10. ASSUME NEW r \in Enders, EndSession(r) PROVE TypeOK'
  BY <1>0, <1>10, CompleteTurnsType DEF EndSession
<1>11. ASSUME NEW r \in Requests \ Retriers, TriggerStep(r) PROVE TypeOK'
  <2>1. CASE Enqueue(r)
    BY <1>0, <2>1 DEF Enqueue
  <2>2. CASE EnqueueFails(r)
    BY <1>0, <2>2 DEF EnqueueFails
  <2>3. CASE RecordEnqueueFailure(r)
    <3>1. /\ evalStatus' \in EvaluationStatuses
          /\ evalError' \in BOOLEAN
          /\ overlapped' \in BOOLEAN
      BY <2>3, FailureTypes DEF RecordEnqueueFailure
    <3>. QED BY <1>0, <2>3, <3>1 DEF RecordEnqueueFailure
  <2>. QED BY <1>11, <2>1, <2>2, <2>3 DEF TriggerStep
<1>. QED
  BY <1>1, <1>2, <1>3, <1>4, <1>5, <1>6, <1>7, <1>8, <1>9, <1>10, <1>11, <1>12
     DEF CandidateNext, TurnStep

(* So does every step of the recruiter's routes and of the workers.        *)
LEMMA EvaluationTypes ==
    ASSUME TypeOK, EvaluationNext
    PROVE  TypeOK'
<1> USE ColumnTypes DEF TypeOK, Requests, Running, Answered, RequestStates,
            SessionStatuses, EvaluationStatuses, TurnStatuses, rowVars, turnVars,
            requestVars, historyVars, workerVars, RequestEvaluation, Flush
<1>1. ASSUME NEW r \in Retriers, PostRetry(r) PROVE TypeOK'
  BY <1>1 DEF PostRetry
<1>2. ASSUME NEW r \in Retriers, ResetEvaluation(r) PROVE TypeOK'
  BY <1>2 DEF ResetEvaluation
<1>3. ASSUME NEW d \in Decisions, SetDecision(d) PROVE TypeOK'
  BY <1>3 DEF SetDecision
<1>4. ASSUME NEW r \in Retriers, Enqueue(r), UNCHANGED workerVars PROVE TypeOK'
  BY <1>4 DEF Enqueue
<1>5. ASSUME NEW r \in Retriers, RetryEnqueueFails(r) PROVE TypeOK'
  BY <1>5 DEF RetryEnqueueFails
<1>6. ASSUME NEW w \in Workers, NEW hasRubric \in BOOLEAN, TakeTask(w, hasRubric)
      PROVE  TypeOK'
  <2>1. /\ wpc' \in [Workers -> {"idle", "scoring", "storing", "failing"}]
        /\ reading' \in [Workers -> Transcripts]
        /\ loaded' \in [Workers -> EvaluationColumns]
    BY <1>6, CompleteTurnsType DEF TakeTask
  <2>2. queue' \in Nat
    BY <1>6 DEF TakeTask
  <2>. QED BY <1>6, <2>1, <2>2 DEF TakeTask
<1>7. ASSUME NEW w \in Workers, JudgeAnswers(w) \/ JudgeFails(w) PROVE TypeOK'
  BY <1>7 DEF JudgeAnswers, JudgeFails
<1>8. ASSUME NEW w \in Workers, Finish(w)
      PROVE  /\ wpc' \in [Workers -> {"idle", "scoring", "storing", "failing"}]
             /\ reading' \in [Workers -> Transcripts]
             /\ loaded' \in [Workers -> EvaluationColumns]
  BY <1>8 DEF Finish, Transcripts
<1>9. ASSUME NEW w \in Workers, StoreScore(w) PROVE TypeOK'
  <2>1. evalStatus' \in EvaluationStatuses
    BY <1>9 DEF StoreScore
  <2>2. evalError' \in BOOLEAN /\ overlapped' \in BOOLEAN
    BY <1>9 DEF StoreScore, Flush
  <2>. QED BY <1>8, <1>9, <2>1, <2>2 DEF StoreScore
<1>10. ASSUME NEW w \in Workers, MarkFailed(w) PROVE TypeOK'
  <2>1. /\ evalStatus' \in EvaluationStatuses
        /\ evalError' \in BOOLEAN
        /\ overlapped' \in BOOLEAN
    BY <1>10, FailureTypes DEF MarkFailed
  <2>. QED BY <1>8, <1>10, <2>1 DEF MarkFailed
<1>11. ASSUME NEW w \in Workers, WorkerCrashes(w) PROVE TypeOK'
  BY <1>8, <1>11, RowsAssumption DEF WorkerCrashes
<1>12. ASSUME BrokerRestarts PROVE TypeOK'
  BY <1>12, RowsAssumption DEF BrokerRestarts
<1>. QED
  BY <1>1, <1>2, <1>3, <1>4, <1>5, <1>6, <1>7, <1>9, <1>10, <1>11, <1>12
     DEF EvaluationNext, RetryStep, WorkerStep

(* Types hold initially.                                                   *)
LEMMA TypeInitially ==
    ASSUME Init
    PROVE  TypeOK
<1> USE DEF TypeOK, Requests, Running, Answered, RequestStates, SessionStatuses,
            EvaluationStatuses, TurnStatuses
<1>2. {} \in Transcripts /\ 0 \in TurnIndexes
  BY RowsAssumption DEF TurnIndexes, Transcripts
<1>3. /\ turnStatus \in [TurnIndexes -> TurnStatuses]
      /\ turnResult \in [TurnIndexes -> {Opener, None} \cup Posts]
      /\ pc \in [Requests -> RequestStates]
      /\ saw \in [Posts -> TurnStatuses]
      /\ got \in [Posts -> {Opener, None} \cup Posts]
  BY DEF Init, RowsInit
<1>4. /\ idx \in [Posts -> TurnIndexes]
      /\ hist \in [Posts -> Transcripts]
      /\ isComplete \in [Posts -> BOOLEAN]
      /\ seen \in [Requests -> EvaluationColumns]
      /\ wpc \in [Workers -> {"idle", "scoring", "storing", "failing"}]
      /\ reading \in [Workers -> Transcripts]
      /\ loaded \in [Workers -> EvaluationColumns]
  BY <1>2, ColumnTypes DEF Init, RowsInit, EvaluationInit
<1>5. /\ status \in SessionStatuses
      /\ evalStatus \in EvaluationStatuses
      /\ evalError \in BOOLEAN
      /\ taskLost \in BOOLEAN
      /\ overlapped \in BOOLEAN
      /\ files \subseteq Requests
  BY DEF Init, RowsInit
<1>6. queue \in Nat /\ faults \in 0..MaxFaults
  BY RowsAssumption DEF Init, RowsInit
<1>7. scored \in Transcripts /\ closedWith \in Transcripts /\ decision \in Decisions
  BY <1>2, EvaluationAssumption DEF Init, RowsInit
<1>. QED BY <1>3, <1>4, <1>5, <1>6, <1>7

(* And after every step.                                                   *)
LEMMA TypeStep ==
    ASSUME TypeOK, [Next]_vars
    PROVE  TypeOK'
<1> USE DEF TypeOK, Requests, Running, Answered, RequestStates, SessionStatuses,
            EvaluationStatuses, TurnStatuses
<1>1. CASE CandidateNext
  BY <1>1, CandidateTypes
<1>2. CASE EvaluationNext
  BY <1>2, EvaluationTypes
<1>3. CASE ApiRestarts
  <2>1. pc' \in [Requests -> RequestStates]
    BY <1>3 DEF ApiRestarts
  <2>2. faults' \in 0..MaxFaults
    BY <1>3, RowsAssumption DEF ApiRestarts
  <2>3. taskLost' \in BOOLEAN /\ seen' \in [Requests -> EvaluationColumns]
    BY <1>3, ColumnTypes DEF ApiRestarts
  <2>. QED
    BY <1>3, <2>1, <2>2, <2>3 DEF ApiRestarts, rowVars, turnVars, workerVars
<1>4. CASE UNCHANGED vars
  BY <1>4 DEF vars, rowVars, turnVars, requestVars, historyVars, workerVars
<1>. QED BY <1>1, <1>2, <1>3, <1>4 DEF Next

(* Every variable keeps its type.                                          *)
THEOREM TypeCorrect == Spec => []TypeOK
BY TypeInitially, TypeStep, PTL DEF Spec

-----------------------------------------------------------------------------
(***************************************************************************)
(* Turns.                                                                  *)
(***************************************************************************)

(* The steps that leave every turn and every post alone, but for a post    *)
(* that has completed the session and triggers its evaluation.             *)
Triggering == {"trigger", "record", "ok"}
Quiet ==
    /\ UNCHANGED <<turnVars, idx, saw, hist, isComplete, got>>
    /\ \A r \in Posts :
          \/ pc'[r] = pc[r]
          \/ pc[r] \in {"trigger", "record"} /\ pc'[r] \in Triggering
    /\ status' = status \/ (status # "none" /\ status' = "complete")
    /\ status = "none" => pc' = pc
    /\ \A r \in Retriers : pc'[r] = "reset" => pc[r] = "reset" \/ status = "complete"

(* What changes the turns, by action.                                      *)
LEMMA StepCases ==
    ASSUME TypeOK, RequestInv, [Next]_vars
    PROVE  \/ \E ended \in BOOLEAN : OpenSession(ended)
           \/ \E r \in Posts, t \in TurnIndexes : PostTurn(r, t)
           \/ \E r \in Posts : \/ LookUpTurn(r)
                              \/ ClaimTurn(r)
                              \/ \E ended \in BOOLEAN : CascadeSucceeds(r, ended)
                              \/ CascadeFails(r)
                              \/ CascadeRaises(r)
                              \/ MarkTurnFailed(r)
                              \/ PersistTurn(r)
           \/ ApiRestarts
           \/ Quiet
<1> USE RowsAssumption DEF TypeOK, Requests, RequestInv, rowVars, turnVars, requestVars
<1>1. ASSUME NEW r \in Enders, PostEnd(r) \/ EndSession(r) PROVE Quiet
  BY <1>1 DEF PostEnd, EndSession, RequestEvaluation, Quiet
<1>2. ASSUME NEW r \in Requests, TriggerStep(r) \/ RetryEnqueueFails(r) PROVE Quiet
  <2>1. /\ UNCHANGED <<turnVars, idx, saw, hist, isComplete, got, status>>
        /\ pc[r] \in {"trigger", "record"}
        /\ \E new \in Triggering : pc' = [pc EXCEPT ![r] = new]
    BY <1>2
       DEF TriggerStep, Enqueue, EnqueueFails, RecordEnqueueFailure, RetryEnqueueFails,
           Triggering
  <2>. QED BY <2>1 DEF Quiet, Triggering
<1>3. ASSUME NEW r \in Retriers, PostRetry(r) \/ ResetEvaluation(r) PROVE Quiet
  <2>1. CASE PostRetry(r)
    BY <2>1 DEF PostRetry, Quiet
  <2>2. CASE ResetEvaluation(r)
    <3>1. pc[r] = "reset" /\ pc' = [pc EXCEPT ![r] = "trigger"]
      BY <2>2 DEF ResetEvaluation, RequestEvaluation
    <3>2. UNCHANGED <<turnVars, idx, saw, hist, isComplete, got, status>>
      BY <2>2 DEF ResetEvaluation
    <3>. QED BY <3>1, <3>2 DEF Quiet
  <2>. QED BY <1>3, <2>1, <2>2
<1>4. ASSUME UNCHANGED <<status, turnVars, requestVars>> PROVE Quiet
  BY <1>4 DEF Quiet
<1>5. ASSUME NEW d \in Decisions, SetDecision(d) PROVE Quiet
  BY <1>4, <1>5 DEF SetDecision
<1>6. ASSUME NEW w \in Workers, WorkerStep(w) \/ WorkerCrashes(w) PROVE Quiet
  BY <1>4, <1>6
     DEF WorkerStep, TakeTask, JudgeAnswers, StoreScore, JudgeFails, MarkFailed,
         WorkerCrashes
<1>7. ASSUME BrokerRestarts PROVE Quiet
  BY <1>4, <1>7 DEF BrokerRestarts
<1>8. ASSUME UNCHANGED vars PROVE Quiet
  BY <1>4, <1>8 DEF vars
<1>. QED
  BY <1>1, <1>2, <1>3, <1>5, <1>6, <1>7, <1>8
     DEF Next, CandidateNext, EvaluationNext, TurnStep, RetryStep, TriggerStep

(* A turn that has failed once is remembered.                              *)
LEMMA FailedMonotone ==
    ASSUME TypeOK, RequestInv, [Next]_vars
    PROVE  FailedTurns \subseteq FailedTurns'
<1> USE DEF TypeOK, Requests, InCascade
<1> DEFINE Kept == \A r \in Posts : pc[r] = "failed" => pc'[r] = "failed" /\ idx'[r] = idx[r]
<1>1. ASSUME NEW ended \in BOOLEAN, OpenSession(ended) PROVE Kept
  BY <1>1 DEF OpenSession, RequestInv
<1>2. ASSUME NEW r \in Posts, NEW t \in TurnIndexes, PostTurn(r, t) PROVE Kept
  BY <1>2 DEF PostTurn
<1>3. ASSUME NEW r \in Posts, LookUpTurn(r) \/ ClaimTurn(r) PROVE Kept
  BY <1>3 DEF LookUpTurn, ClaimTurn
<1>4. ASSUME NEW r \in Posts, NEW ended \in BOOLEAN, CascadeSucceeds(r, ended) PROVE Kept
  BY <1>4 DEF CascadeSucceeds
<1>5. ASSUME NEW r \in Posts, CascadeFails(r) \/ CascadeRaises(r) \/ MarkTurnFailed(r)
      PROVE  Kept
  BY <1>5 DEF CascadeFails, CascadeRaises, MarkTurnFailed
<1>6. ASSUME NEW r \in Posts, PersistTurn(r) PROVE Kept
  BY <1>6 DEF PersistTurn, RequestEvaluation
<1>7. ASSUME ApiRestarts PROVE Kept
  BY <1>7 DEF ApiRestarts, Running
<1>8. ASSUME Quiet PROVE Kept
  BY <1>8 DEF Quiet
<1>9. Kept
  <2> HIDE DEF Kept
  <2>. QED BY <1>1, <1>2, <1>3, <1>4, <1>5, <1>6, <1>7, <1>8, StepCases
<1>. QED BY <1>9 DEF FailedTurns

(* The heart of the turn protocol: a complete turn that never failed is    *)
(* not touched by any step.                                                *)
LEMMA CompleteTurnKept ==
    ASSUME TypeOK, RequestInv, RowInv, [Next]_vars
    PROVE  \A t \in TurnIndexes :
              turnStatus[t] = "complete" /\ t \notin FailedTurns
              => turnStatus'[t] = "complete" /\ turnResult'[t] = turnResult[t]
<1> SUFFICES ASSUME NEW t \in TurnIndexes,
                    turnStatus[t] = "complete", t \notin FailedTurns
             PROVE  turnStatus'[t] = "complete" /\ turnResult'[t] = turnResult[t]
  OBVIOUS
<1> USE DEF TypeOK, RequestInv, RowInv, InCascade
<1>1. ASSUME NEW ended \in BOOLEAN, OpenSession(ended) PROVE FALSE
  BY <1>1 DEF OpenSession
<1>2. ASSUME UNCHANGED <<turnStatus, turnResult>>
      PROVE  turnStatus'[t] = "complete" /\ turnResult'[t] = turnResult[t]
  BY <1>2
<1>3. ASSUME NEW r \in Posts, ClaimTurn(r)
      PROVE  turnStatus'[t] = "complete" /\ turnResult'[t] = turnResult[t]
  BY <1>3 DEF ClaimTurn
<1>4. ASSUME NEW r \in Posts, MarkTurnFailed(r)
      PROVE  turnStatus'[t] = "complete" /\ turnResult'[t] = turnResult[t]
  BY <1>4 DEF MarkTurnFailed
<1>5. ASSUME NEW r \in Posts, PersistTurn(r)
      PROVE  turnStatus'[t] = "complete" /\ turnResult'[t] = turnResult[t]
  BY <1>5 DEF PersistTurn
<1>. QED
  BY <1>1, <1>2, <1>3, <1>4, <1>5, StepCases
     DEF PostTurn, LookUpTurn, CascadeSucceeds, CascadeFails, CascadeRaises,
         ApiRestarts, Quiet, turnVars

(* So what was read of it stays true.                                      *)
LEMMA CompleteTurnsKept ==
    ASSUME TypeOK, RequestInv, RowInv, [Next]_vars
    PROVE  \A p \in CompleteTurns : p[1] \in FailedTurns' \/ p \in CompleteTurns'
<1> SUFFICES ASSUME NEW p \in CompleteTurns, p[1] \notin FailedTurns'
             PROVE  p \in CompleteTurns'
  OBVIOUS
<1>1. PICK t \in TurnIndexes : turnStatus[t] = "complete" /\ p = <<t, turnResult[t]>>
  BY DEF CompleteTurns
<1>2. t \notin FailedTurns
  BY <1>1, FailedMonotone
<1>3. turnStatus'[t] = "complete" /\ turnResult'[t] = turnResult[t]
  BY <1>1, <1>2, CompleteTurnKept
<1>. QED BY <1>1, <1>3 DEF CompleteTurns

(* What a request relies on between two transactions survives every step.  *)
LEMMA RequestStep ==
    ASSUME TypeOK, RequestInv, RowInv, SingleCascade, [Next]_vars
    PROVE  RequestInv'
<1> USE RowsAssumption DEF TypeOK, Requests, InCascade
<1>0. FailedTurns \subseteq FailedTurns'
  BY FailedMonotone
<1>1. ASSUME NEW ended \in BOOLEAN, OpenSession(ended) PROVE RequestInv'
  BY <1>1 DEF RequestInv, OpenSession, RequestEvaluation
<1>2. ASSUME NEW r \in Posts, NEW t \in TurnIndexes, PostTurn(r, t)
      PROVE  RequestInv'
  BY <1>0, <1>2 DEF RequestInv, PostTurn, rowVars, turnVars
<1>3. ASSUME NEW r \in Posts, LookUpTurn(r) PROVE RequestInv'
  BY <1>0, <1>3 DEF RequestInv, RowInv, LookUpTurn, rowVars, turnVars, TurnStatuses
<1>4. ASSUME NEW r \in Posts, ClaimTurn(r) PROVE RequestInv'
  BY <1>0, <1>4 DEF RequestInv, ClaimTurn, rowVars
<1>5. ASSUME NEW r \in Posts, NEW ended \in BOOLEAN, CascadeSucceeds(r, ended)
      PROVE  RequestInv'
  BY <1>0, <1>5 DEF RequestInv, CascadeSucceeds, rowVars
<1>6. ASSUME NEW r \in Posts, CascadeFails(r) PROVE RequestInv'
  BY <1>0, <1>6 DEF RequestInv, CascadeFails, rowVars, turnVars
<1>7. ASSUME NEW r \in Posts, CascadeRaises(r) PROVE RequestInv'
  BY <1>0, <1>7 DEF RequestInv, CascadeRaises, rowVars, turnVars
<1>8. ASSUME NEW r \in Posts, MarkTurnFailed(r) PROVE RequestInv'
  <2>1. idx[r] \in FailedTurns'
    BY <1>8 DEF FailedTurns, MarkTurnFailed
  <2>. QED BY <1>0, <1>8, <2>1 DEF RequestInv, MarkTurnFailed, rowVars
<1>9. ASSUME NEW r \in Posts, PersistTurn(r) PROVE RequestInv'
  <2>1. \A s \in Posts : s # r /\ pc[s] \in InCascade /\ idx[s] = idx[r]
                          => idx[s] \in FailedTurns'
    BY <1>0, <1>9 DEF SingleCascade, PersistTurn
  <2>. QED BY <1>0, <1>9, <2>1 DEF RequestInv, PersistTurn, RequestEvaluation
<1>10. CASE ApiRestarts
  BY <1>0, <1>10 DEF RequestInv, ApiRestarts, rowVars, turnVars, Running
<1>11. CASE Quiet
  BY <1>0, <1>11 DEF RequestInv, Quiet, Triggering, turnVars
<1>. QED
  BY <1>1, <1>2, <1>3, <1>4, <1>5, <1>6, <1>7, <1>8, <1>9, <1>10, <1>11, StepCases

(* So does what the rows say of themselves.                                *)
LEMMA RowStep ==
    ASSUME TypeOK, RequestInv, RowInv, [Next]_vars
    PROVE  RowInv'
<1> USE RowsAssumption DEF TypeOK, Requests, InCascade, TurnIndexes
<1>0. FailedTurns \subseteq FailedTurns'
  BY FailedMonotone
<1>1. ASSUME NEW ended \in BOOLEAN, OpenSession(ended) PROVE RowInv'
  BY <1>0, <1>1 DEF RowInv, OpenSession
<1>2. ASSUME UNCHANGED <<status, turnStatus, turnResult>> PROVE RowInv'
  BY <1>0, <1>2 DEF RowInv
<1>3. ASSUME NEW r \in Posts, ClaimTurn(r) PROVE RowInv'
  BY <1>0, <1>3 DEF RequestInv, RowInv, ClaimTurn, rowVars
<1>4. ASSUME NEW r \in Posts, MarkTurnFailed(r) PROVE RowInv'
  <2>1. idx[r] \in FailedTurns'
    BY <1>4 DEF FailedTurns, MarkTurnFailed
  <2>. QED BY <1>0, <1>4, <2>1 DEF RequestInv, RowInv, MarkTurnFailed, Flush, rowVars
<1>5. ASSUME NEW r \in Posts, PersistTurn(r) PROVE RowInv'
  BY <1>0, <1>5 DEF RequestInv, RowInv, PersistTurn, Flush
<1>6. CASE Quiet
  BY <1>0, <1>6 DEF RowInv, Quiet, turnVars
<1>. QED
  BY <1>1, <1>2, <1>3, <1>4, <1>5, <1>6, StepCases
     DEF PostTurn, LookUpTurn, CascadeSucceeds, CascadeFails, CascadeRaises,
         ApiRestarts, rowVars, turnVars

(* The select, the insert and the unique constraint let one request into   *)
(* the cascade of a turn that has not failed.                              *)
LEMMA SingleCascadeStep ==
    ASSUME TypeOK, RequestInv, SingleCascade, [Next]_vars
    PROVE  SingleCascade'
<1> USE DEF TypeOK, Requests, InCascade, SingleCascade
<1>0. FailedTurns \subseteq FailedTurns'
  BY FailedMonotone
<1>1. ASSUME NEW r \in Posts, ClaimTurn(r) PROVE SingleCascade'
  BY <1>0, <1>1 DEF RequestInv, ClaimTurn
<1>2. SUFFICES ASSUME \A r \in Posts : ~ClaimTurn(r)
               PROVE  \A r \in Posts : pc'[r] \in InCascade =>
                          pc[r] \in InCascade /\ idx'[r] = idx[r]
  BY <1>0, <1>1
<1>3. ASSUME NEW ended \in BOOLEAN, OpenSession(ended)
      PROVE  \A r \in Posts : pc'[r] \notin InCascade
  BY <1>3 DEF OpenSession, RequestEvaluation, RequestInv
<1>4. ASSUME NEW r \in Posts, NEW t \in TurnIndexes, PostTurn(r, t)
      PROVE  \A s \in Posts : pc'[s] \in InCascade =>
                pc[s] \in InCascade /\ idx'[s] = idx[s]
  BY <1>4 DEF PostTurn
<1>5. ASSUME NEW r \in Posts,
             \/ LookUpTurn(r) \/ CascadeFails(r)
             \/ CascadeRaises(r) \/ MarkTurnFailed(r)
      PROVE  \A s \in Posts : pc'[s] \in InCascade =>
                pc[s] \in InCascade /\ idx'[s] = idx[s]
  BY <1>5 DEF LookUpTurn, CascadeFails, CascadeRaises, MarkTurnFailed
<1>6. ASSUME NEW r \in Posts, NEW ended \in BOOLEAN, CascadeSucceeds(r, ended)
      PROVE  \A s \in Posts : pc'[s] \in InCascade =>
                pc[s] \in InCascade /\ idx'[s] = idx[s]
  BY <1>6 DEF CascadeSucceeds
<1>7. ASSUME NEW r \in Posts, PersistTurn(r)
      PROVE  \A s \in Posts : pc'[s] \in InCascade =>
                pc[s] \in InCascade /\ idx'[s] = idx[s]
  BY <1>7 DEF PersistTurn, RequestEvaluation
<1>8. ASSUME ApiRestarts \/ Quiet
      PROVE  \A s \in Posts : pc'[s] \in InCascade =>
                pc[s] \in InCascade /\ idx'[s] = idx[s]
  BY <1>8 DEF ApiRestarts, Quiet, Triggering, Running
<1>. QED
  BY <1>2, <1>3, <1>4, <1>5, <1>6, <1>7, <1>8, StepCases

(* An answered turn keeps the answer.                                      *)
LEMMA OneAnswerStep ==
    ASSUME TypeOK, RequestInv, RowInv, OneAnswer, [Next]_vars
    PROVE  OneAnswer'
<1> USE DEF TypeOK, Requests, InCascade, OneAnswer, Answer, Committed
<1>0. FailedTurns \subseteq FailedTurns'
  BY FailedMonotone
<1>1. \A s \in Posts :
         /\ pc[s] \in Committed /\ idx[s] \notin FailedTurns'
         => turnStatus'[idx[s]] = "complete" /\ turnResult'[idx[s]] = Answer(s)
  BY <1>0, CompleteTurnKept
<1>2. ASSUME NEW ended \in BOOLEAN, OpenSession(ended) PROVE OneAnswer'
  <2>1. \A s \in Posts : pc'[s] = "new"
    BY <1>2, RowsAssumption DEF OpenSession, RequestEvaluation, RequestInv
  <2>. QED BY <2>1
<1>3. ASSUME NEW r \in Posts, NEW t \in TurnIndexes, PostTurn(r, t)
      PROVE  OneAnswer'
  BY <1>1, <1>3 DEF PostTurn
<1>4. ASSUME NEW r \in Posts, LookUpTurn(r) PROVE OneAnswer'
  BY <1>1, <1>4 DEF LookUpTurn, turnVars
<1>5. ASSUME NEW r \in Posts, ClaimTurn(r) PROVE OneAnswer'
  BY <1>1, <1>5 DEF ClaimTurn
<1>6. ASSUME NEW r \in Posts, NEW ended \in BOOLEAN, CascadeSucceeds(r, ended)
      PROVE  OneAnswer'
  BY <1>1, <1>6 DEF CascadeSucceeds
<1>7. ASSUME NEW r \in Posts, CascadeFails(r) \/ CascadeRaises(r) \/ MarkTurnFailed(r)
      PROVE  OneAnswer'
  BY <1>1, <1>7 DEF CascadeFails, CascadeRaises, MarkTurnFailed
<1>8. ASSUME NEW r \in Posts, PersistTurn(r) PROVE OneAnswer'
  <2>1. pc'[r] # "cached" /\ idx' = idx /\ got' = got
    BY <1>8 DEF PersistTurn, RequestEvaluation
  <2>2. idx[r] \notin FailedTurns' => turnStatus'[idx[r]] = "complete"
    BY <1>0, <1>8 DEF PersistTurn, Flush, RequestInv
  <2>3. turnResult'[idx[r]] = r
    BY <1>8 DEF PersistTurn
  <2>4. \A s \in Posts : s # r => pc'[s] = pc[s]
    BY <1>8 DEF PersistTurn, RequestEvaluation
  <2>. QED BY <1>1, <2>1, <2>2, <2>3, <2>4
<1>9. CASE ApiRestarts
  BY <1>1, <1>9 DEF ApiRestarts, Running
<1>10. CASE Quiet
  BY <1>1, <1>10 DEF Quiet, Triggering
<1>. QED
  BY <1>2, <1>3, <1>4, <1>5, <1>6, <1>7, <1>8, <1>9, <1>10, StepCases

(* A pending row has its request, alive or stranded.                       *)
LEMMA PendingTurnOwnedStep ==
    ASSUME TypeOK, RequestInv, RowInv, PendingTurnOwned, [Next]_vars
    PROVE  PendingTurnOwned'
<1> USE DEF TypeOK, Requests, InCascade, SettlesTurn
<1> DEFINE Owns(r, t) == idx[r] = t /\ (SettlesTurn(r) \/ pc[r] = "stranded")
<1>1. ASSUME NEW ended \in BOOLEAN, OpenSession(ended) PROVE PendingTurnOwned'
  BY <1>1 DEF OpenSession, RowInv, PendingTurnOwned
<1>2. ASSUME \A t \in TurnIndexes : turnStatus'[t] = "pending" =>
                /\ turnStatus[t] = "pending"
                /\ \A r \in Posts : Owns(r, t) => Owns(r, t)'
      PROVE  PendingTurnOwned'
  BY <1>2 DEF PendingTurnOwned
<1>3. ASSUME NEW r \in Posts, NEW t \in TurnIndexes, PostTurn(r, t)
      PROVE  PendingTurnOwned'
  BY <1>2, <1>3 DEF PostTurn, turnVars
<1>4. ASSUME NEW r \in Posts, LookUpTurn(r) PROVE PendingTurnOwned'
  BY <1>2, <1>4 DEF LookUpTurn, turnVars
<1>5. ASSUME NEW r \in Posts, ClaimTurn(r) PROVE PendingTurnOwned'
  BY <1>5 DEF ClaimTurn, PendingTurnOwned
<1>6. ASSUME NEW r \in Posts, NEW ended \in BOOLEAN, CascadeSucceeds(r, ended)
      PROVE  PendingTurnOwned'
  BY <1>2, <1>6 DEF CascadeSucceeds
<1>7. ASSUME NEW r \in Posts, CascadeFails(r) PROVE PendingTurnOwned'
  BY <1>2, <1>7 DEF CascadeFails, turnVars
<1>8. ASSUME NEW r \in Posts, CascadeRaises(r) PROVE PendingTurnOwned'
  BY <1>2, <1>8 DEF CascadeRaises, turnVars
<1>9. ASSUME NEW r \in Posts, MarkTurnFailed(r) PROVE PendingTurnOwned'
  BY <1>2, <1>9 DEF MarkTurnFailed, Flush
<1>10. ASSUME NEW r \in Posts, PersistTurn(r) PROVE PendingTurnOwned'
  BY <1>2, <1>10 DEF PersistTurn, RequestEvaluation, Flush
<1>11. CASE ApiRestarts
  BY <1>2, <1>11 DEF ApiRestarts, turnVars, Running
<1>12. CASE Quiet
  BY <1>2, <1>12 DEF Quiet, Triggering, turnVars
<1>. QED
  BY <1>1, <1>3, <1>4, <1>5, <1>6, <1>7, <1>8, <1>9, <1>10, <1>11, <1>12, StepCases

(* The history a cascade runs on stays true.                               *)
LEMMA HistoryStep ==
    ASSUME TypeOK, RequestInv, RowInv, HistoryStable, [Next]_vars
    PROVE  HistoryStable'
<1>0. FailedTurns \subseteq FailedTurns'
  BY FailedMonotone
<1>1. ASSUME NEW r \in Posts, ClaimTurn(r) PROVE HistoryStable'
  <2>1. \A s \in Posts : hist'[s] = hist[s] \/ hist'[s] \subseteq CompleteTurns
    BY <1>1 DEF ClaimTurn, TypeOK, TurnsBefore
  <2>. QED BY <1>0, <2>1, CompleteTurnsKept DEF HistoryStable
<1>2. ASSUME UNCHANGED hist PROVE HistoryStable'
  BY <1>0, <1>2, CompleteTurnsKept DEF HistoryStable
<1>. QED
  BY <1>1, <1>2, StepCases
     DEF OpenSession, PostTurn, LookUpTurn, CascadeSucceeds, CascadeFails,
         CascadeRaises, MarkTurnFailed, PersistTurn, ApiRestarts, Quiet

(* Media is on disk before the row that names it is committed.             *)
LEMMA MediaStep ==
    ASSUME TypeOK, RequestInv, MediaOnDisk, [Next]_vars
    PROVE  MediaOnDisk'
<1> USE DEF TypeOK
<1>0. ASSUME NEW t \in TurnIndexes, turnStatus[t] = "complete"
      PROVE  turnResult[t] \in files
  <2>1. <<t, turnResult[t]>> \in CompleteTurns
    BY <1>0 DEF CompleteTurns
  <2>. QED BY <2>1 DEF MediaOnDisk
<1>1. SUFFICES \A t \in TurnIndexes :
                  turnStatus'[t] = "complete" => turnResult'[t] \in files'
  BY DEF MediaOnDisk, CompleteTurns
<1>2. CASE UNCHANGED turnVars
  BY <1>0, <1>2 DEF turnVars
<1>3. ASSUME NEW ended \in BOOLEAN, OpenSession(ended)
      PROVE  \A t \in TurnIndexes :
                turnStatus'[t] = "complete" => turnResult'[t] \in files'
  BY <1>0, <1>3 DEF OpenSession
<1>4. ASSUME NEW r \in Posts, ClaimTurn(r)
      PROVE  \A t \in TurnIndexes :
                turnStatus'[t] = "complete" => turnResult'[t] \in files'
  BY <1>0, <1>4 DEF ClaimTurn
<1>5. ASSUME NEW r \in Posts, NEW ended \in BOOLEAN, CascadeSucceeds(r, ended)
      PROVE  \A t \in TurnIndexes :
                turnStatus'[t] = "complete" => turnResult'[t] \in files'
  BY <1>0, <1>5 DEF CascadeSucceeds
<1>6. ASSUME NEW r \in Posts, MarkTurnFailed(r)
      PROVE  \A t \in TurnIndexes :
                turnStatus'[t] = "complete" => turnResult'[t] \in files'
  BY <1>0, <1>6 DEF MarkTurnFailed, Flush
<1>7. ASSUME NEW r \in Posts, PersistTurn(r)
      PROVE  \A t \in TurnIndexes :
                turnStatus'[t] = "complete" => turnResult'[t] \in files'
  BY <1>0, <1>7 DEF PersistTurn, RequestInv
<1>. QED
  BY <1>2, <1>3, <1>4, <1>5, <1>6, <1>7, StepCases
     DEF PostTurn, LookUpTurn, CascadeFails, CascadeRaises, ApiRestarts, Quiet

(* No request brings a completed session back.                             *)
LEMMA StatusStep ==
    ASSUME TypeOK, RequestInv, [Next]_vars, status = "complete"
    PROVE  status' = "complete"
BY StepCases
   DEF OpenSession, PostTurn, LookUpTurn, ClaimTurn, CascadeSucceeds, CascadeFails,
       CascadeRaises, MarkTurnFailed, PersistTurn, ApiRestarts, Quiet, rowVars

(* The turn protocol is correct: its invariants hold in every state.       *)
THEOREM TurnsCorrect == Spec => []TurnInv
<1>1. Init => TurnInv
  <2>1. SUFFICES ASSUME Init PROVE TurnInv
    OBVIOUS
  <2>2. TypeOK
    BY <2>1, TypeInitially
  <2>3. \A r \in Posts : pc[r] = "new" /\ hist[r] = {}
    BY <2>1 DEF Init, RowsInit, Requests
  <2>4. RequestInv
    BY <2>1, <2>3 DEF Init, RowsInit, RequestInv, InCascade, Requests
  <2>5. \A t \in TurnIndexes : turnStatus[t] = "absent"
    BY <2>1 DEF Init, RowsInit
  <2>6. RowInv
    BY <2>1, <2>5 DEF Init, RowsInit, RowInv
  <2>7. SingleCascade /\ OneAnswer /\ HistoryStable
    BY <2>3 DEF SingleCascade, OneAnswer, HistoryStable, InCascade, Committed
  <2>8. PendingTurnOwned /\ MediaOnDisk
    BY <2>5 DEF PendingTurnOwned, MediaOnDisk, CompleteTurns
  <2>. QED BY <2>2, <2>4, <2>6, <2>7, <2>8 DEF TurnInv
<1>2. ASSUME TurnInv, [Next]_vars PROVE TurnInv'
  BY <1>2, TypeStep, RequestStep, RowStep, SingleCascadeStep, OneAnswerStep,
     PendingTurnOwnedStep, HistoryStep, MediaStep DEF TurnInv
<1>. QED BY <1>1, <1>2, PTL DEF Spec

(* No double submit is processed twice.                                    *)
THEOREM SingleCascadeAlways == Spec => []SingleCascade
BY TurnsCorrect, PTL DEF TurnInv

(* Every answer given for a turn is the one its row keeps.                 *)
THEOREM OneAnswerAlways == Spec => []OneAnswer
BY TurnsCorrect, PTL DEF TurnInv

(* No answered request leaves a turn refusing its retries.                 *)
THEOREM PendingTurnAlwaysOwned == Spec => []PendingTurnOwned
BY TurnsCorrect, PTL DEF TurnInv

(* The conversation a cascade ran on is never rewritten.                   *)
THEOREM HistoryAlwaysStable == Spec => []HistoryStable
BY TurnsCorrect, PTL DEF TurnInv

(* No complete turn names media that is not there.                         *)
THEOREM MediaAlwaysOnDisk == Spec => []MediaOnDisk
BY TurnsCorrect, PTL DEF TurnInv

(* A complete turn that never failed is never changed.                     *)
THEOREM CompleteTurnsStayComplete == Spec => CompleteTurnStable
<1>1. TurnInv /\ [Next]_vars
      => [\A t \in TurnIndexes :
             turnStatus[t] = "complete" /\ t \notin FailedTurns
             => turnStatus'[t] = "complete" /\ turnResult'[t] = turnResult[t]]_vars
  BY CompleteTurnKept DEF TurnInv
<1>. QED BY <1>1, TurnsCorrect, PTL DEF Spec, CompleteTurnStable

(* A completed session stays completed.                                    *)
THEOREM CompletionForever == Spec => CompletionIsFinal
<1>1. TurnInv /\ [Next]_vars
      => [status = "complete" => status' = "complete"]_vars
  BY StatusStep DEF TurnInv
<1>. QED BY <1>1, TurnsCorrect, PTL DEF Spec, CompletionIsFinal

-----------------------------------------------------------------------------
(***************************************************************************)
(* Completion and evaluation.                                              *)
(***************************************************************************)

(* The steps that leave the evaluation alone, and who owns it.             *)
Aside ==
    /\ faults' = faults \/ (faults < MaxFaults /\ faults' = faults + 1)
    /\ UNCHANGED <<status, evalStatus, evalError, scored, queue, taskLost,
                   overlapped, closedWith, workerVars>>
    /\ \A r \in Requests :
          /\ pc'[r] = "trigger" <=> pc[r] = "trigger"
          /\ pc'[r] = "record" <=> pc[r] = "record"
          /\ pc[r] = "record" => seen'[r] = seen[r]
          /\ seen'[r] \in {seen[r], NotLoaded, Loaded}
    /\ \A r \in Retriers : pc'[r] = "reset" =>
          \/ pc[r] = "reset" /\ seen'[r] = seen[r]
          \/ seen'[r] = Loaded /\ evalStatus # "pending"

(* What changes the evaluation, by action.                                 *)
LEMMA EvaluationCases ==
    ASSUME TypeOK, [Next]_vars
    PROVE  \/ \E ended \in BOOLEAN : OpenSession(ended) /\ UNCHANGED workerVars
           \/ \E r \in Posts : PersistTurn(r) /\ UNCHANGED workerVars
           \/ \E r \in Enders : EndSession(r) /\ UNCHANGED workerVars
           \/ \E r \in Requests : \/ Enqueue(r) /\ UNCHANGED workerVars
                                  \/ EnqueueFails(r) /\ UNCHANGED workerVars
                                  \/ RecordEnqueueFailure(r) /\ UNCHANGED workerVars
           \/ \E r \in Retriers : ResetEvaluation(r) \/ RetryEnqueueFails(r)
           \/ \E w \in Workers : \/ \E hasRubric \in BOOLEAN : TakeTask(w, hasRubric)
                                 \/ JudgeAnswers(w)
                                 \/ StoreScore(w)
                                 \/ JudgeFails(w)
                                 \/ MarkFailed(w)
                                 \/ WorkerCrashes(w)
           \/ BrokerRestarts
           \/ ApiRestarts
           \/ Aside
<1> USE RowsAssumption
    DEF TypeOK, Requests, rowVars, requestVars, historyVars, workerVars, InCascade
<1>1. ASSUME NEW r \in Posts, NEW t \in TurnIndexes,
             PostTurn(r, t), UNCHANGED workerVars
      PROVE  Aside
  BY <1>1 DEF PostTurn, Aside
<1>2. ASSUME NEW r \in Posts, LookUpTurn(r), UNCHANGED workerVars PROVE Aside
  <2>1. pc'[r] \in {"cached", "conflict", "claim"}
    BY <1>2 DEF LookUpTurn
  <2>. QED BY <1>2, <2>1 DEF LookUpTurn, Aside
<1>3. ASSUME NEW r \in Posts, ClaimTurn(r), UNCHANGED workerVars PROVE Aside
  BY <1>3 DEF ClaimTurn, Aside
<1>4. ASSUME NEW r \in Posts, NEW ended \in BOOLEAN,
             CascadeSucceeds(r, ended), UNCHANGED workerVars
      PROVE  Aside
  BY <1>4 DEF CascadeSucceeds, Aside
<1>5. ASSUME NEW r \in Posts, CascadeFails(r) \/ CascadeRaises(r) \/ MarkTurnFailed(r),
             UNCHANGED workerVars
      PROVE  Aside
  BY <1>5 DEF CascadeFails, CascadeRaises, MarkTurnFailed, Aside
<1>6. ASSUME NEW r \in Enders, PostEnd(r), UNCHANGED workerVars PROVE Aside
  BY <1>6 DEF PostEnd, Aside
<1>7. ASSUME NEW r \in Retriers, PostRetry(r) PROVE Aside
  BY <1>7 DEF PostRetry, Aside
<1>8. ASSUME NEW d \in Decisions, SetDecision(d) PROVE Aside
  BY <1>8 DEF SetDecision, Aside
<1>9. ASSUME UNCHANGED vars PROVE Aside
  BY <1>9 DEF vars, Aside
<1>10. CASE CandidateNext
  <2>1. UNCHANGED workerVars
    BY <1>10 DEF CandidateNext
  <2> HIDE DEF workerVars, rowVars, requestVars, historyVars
  <2>. QED
    BY <1>1, <1>2, <1>3, <1>4, <1>5, <1>6, <1>10, <2>1
       DEF CandidateNext, TurnStep, TriggerStep
<1>11. CASE EvaluationNext
  <2> HIDE DEF workerVars, rowVars, requestVars, historyVars
  <2>. QED BY <1>7, <1>8, <1>11 DEF EvaluationNext, WorkerStep, RetryStep
<1>. QED BY <1>9, <1>10, <1>11 DEF Next

(* Evaluation starts with completion.                                      *)
LEMMA FollowsStep ==
    ASSUME TypeOK, RequestInv, SeenInv, EvaluationFollowsCompletion, [Next]_vars
    PROVE  EvaluationFollowsCompletion'
<1> USE DEF TypeOK, Requests, EvaluationFollowsCompletion, workerVars, Flush
<1>1. ASSUME NEW ended \in BOOLEAN, OpenSession(ended), UNCHANGED workerVars
      PROVE  EvaluationFollowsCompletion'
  <2>1. CASE ended
    BY <1>1, <2>1 DEF OpenSession, RequestEvaluation, SeenInv
  <2>2. CASE ~ended
    BY <1>1, <2>2, RowsAssumption DEF OpenSession
  <2>. QED BY <2>1, <2>2
<1>2. ASSUME NEW r \in Posts, PersistTurn(r), UNCHANGED workerVars
      PROVE  EvaluationFollowsCompletion'
  <2>1. CASE isComplete[r]
    BY <1>2, <2>1 DEF PersistTurn, RequestEvaluation, SeenInv
  <2>2. CASE ~isComplete[r]
    BY <1>2, <2>2 DEF PersistTurn
  <2>. QED BY <2>1, <2>2
<1>3. ASSUME NEW r \in Enders, EndSession(r), UNCHANGED workerVars
      PROVE  EvaluationFollowsCompletion'
  BY <1>3 DEF EndSession, RequestEvaluation, SeenInv
<1>4. ASSUME NEW r \in Requests, UNCHANGED workerVars,
             \/ Enqueue(r) \/ EnqueueFails(r)
             \/ RecordEnqueueFailure(r) \/ RetryEnqueueFails(r)
      PROVE  EvaluationFollowsCompletion'
  <2>1. status = "complete" /\ status' = status
    BY <1>4 DEF Enqueue, EnqueueFails, RecordEnqueueFailure, RetryEnqueueFails, rowVars
  <2>2. evalStatus' \in {evalStatus, "failed"}
    BY <1>4 DEF Enqueue, EnqueueFails, RecordEnqueueFailure, RetryEnqueueFails,
                RecordFailure, rowVars
  <2>. QED BY <2>1, <2>2
<1>5. ASSUME NEW r \in Retriers, ResetEvaluation(r)
      PROVE  EvaluationFollowsCompletion'
  BY <1>5 DEF ResetEvaluation, RequestEvaluation, RequestInv
<1>6. ASSUME NEW w \in Workers, NEW hasRubric \in BOOLEAN, TakeTask(w, hasRubric)
      PROVE  EvaluationFollowsCompletion'
  BY <1>6 DEF TakeTask, rowVars
<1>7. ASSUME NEW w \in Workers,
             \/ JudgeAnswers(w) \/ StoreScore(w) \/ JudgeFails(w)
             \/ MarkFailed(w) \/ WorkerCrashes(w)
      PROVE  EvaluationFollowsCompletion'
  <2>1. status = "complete" /\ status' = status
    BY <1>7 DEF JudgeAnswers, StoreScore, JudgeFails, MarkFailed, WorkerCrashes, rowVars
  <2>2. evalStatus' \in {evalStatus, "failed", "complete"}
    BY <1>7 DEF JudgeAnswers, StoreScore, JudgeFails, MarkFailed, WorkerCrashes,
                RecordFailure, rowVars
  <2>. QED BY <2>1, <2>2
<1>8. CASE BrokerRestarts
  BY <1>8 DEF BrokerRestarts, rowVars, requestVars
<1>9. CASE ApiRestarts
  BY <1>9 DEF ApiRestarts, rowVars
<1>10. CASE Aside
  BY <1>10 DEF Aside
<1>. QED
  BY <1>1, <1>2, <1>3, <1>4, <1>5, <1>6, <1>7, <1>8, <1>9, <1>10, EvaluationCases
     DEF RetryEnqueueFails

(* What was loaded of the evaluation stays true.                           *)
LEMMA SeenStep ==
    ASSUME TypeOK, RequestInv, SeenInv, EvaluationFollowsCompletion, [Next]_vars
    PROVE  SeenInv'
<1> USE RowsAssumption DEF TypeOK, Requests, EvaluationFollowsCompletion, SeenInv,
                           NotLoaded, Loaded
<1>0. status = "complete" => status' = "complete"
  BY StatusStep
<1>1. ASSUME NEW r \in Requests, seen' = [seen EXCEPT ![r] = NotLoaded],
             \A s \in Retriers : pc'[s] = "reset" => pc[s] = "reset"
      PROVE  SeenInv'
  BY <1>0, <1>1
<1>2. ASSUME UNCHANGED seen, \A s \in Retriers : pc'[s] = "reset" => pc[s] = "reset"
      PROVE  SeenInv'
  BY <1>0, <1>2
<1>3. ASSUME NEW ended \in BOOLEAN, OpenSession(ended) PROVE SeenInv'
  BY <1>1, <1>2, <1>3 DEF OpenSession, RequestEvaluation
<1>4. ASSUME NEW r \in Posts, PersistTurn(r) PROVE SeenInv'
  BY <1>1, <1>4 DEF PersistTurn, RequestEvaluation
<1>5. ASSUME NEW r \in Enders, EndSession(r) PROVE SeenInv'
  BY <1>1, <1>5 DEF EndSession, RequestEvaluation
<1>6. ASSUME NEW r \in Requests, Enqueue(r) \/ RetryEnqueueFails(r) PROVE SeenInv'
  BY <1>2, <1>6 DEF Enqueue, RetryEnqueueFails
<1>7. ASSUME NEW r \in Requests, EnqueueFails(r) PROVE SeenInv'
  BY <1>0, <1>7 DEF EnqueueFails, rowVars
<1>8. ASSUME NEW r \in Requests, RecordEnqueueFailure(r) PROVE SeenInv'
  BY <1>1, <1>8 DEF RecordEnqueueFailure
<1>9. ASSUME NEW r \in Retriers, ResetEvaluation(r) PROVE SeenInv'
  BY <1>1, <1>9 DEF ResetEvaluation, RequestEvaluation
<1>10. ASSUME UNCHANGED requestVars PROVE SeenInv'
  BY <1>2, <1>10 DEF requestVars
<1>11. CASE ApiRestarts
  BY <1>11 DEF ApiRestarts, Running, InCascade
<1>12. CASE Aside
  BY <1>0, <1>12 DEF Aside
<1>. QED
  BY <1>3, <1>4, <1>5, <1>6, <1>7, <1>8, <1>9, <1>10, <1>11, <1>12, EvaluationCases
     DEF TakeTask, JudgeAnswers, StoreScore, JudgeFails, MarkFailed, WorkerCrashes,
         BrokerRestarts

(* What a step does to a due evaluation: it is asked for, settled by one   *)
(* that owns it, kept in somebody's hands, or hit by a fault.              *)
Settling ==
    /\ EvaluationOwned
    /\ evalStatus # "idle"
    /\ evalStatus' \in {"complete", "failed"}
    /\ UNCHANGED faults

Keeping ==
    /\ UNCHANGED <<evalStatus, taskLost, faults>>
    /\ evalStatus = "pending" /\ EvaluationOwned => EvaluationOwned'

Faulting ==
    /\ faults < MaxFaults
    /\ faults' = faults + 1
    /\ UNCHANGED evalStatus
    /\ EvaluationOwned' => EvaluationOwned
    /\ evalStatus = "pending" /\ EvaluationOwned => EvaluationOwned' \/ taskLost'
    /\ taskLost => taskLost'

(* Every step is one of the four.                                          *)
LEMMA OwnerCases ==
    ASSUME TypeOK, EvaluationFollowsCompletion, [Next]_vars
    PROVE  \/ \E r \in Requests : RequestEvaluation(r) /\ UNCHANGED faults
           \/ Settling
           \/ Keeping
           \/ Faulting
<1> USE DEF TypeOK, Requests, EvaluationOwned, workerVars
<1>1. ASSUME NEW ended \in BOOLEAN, OpenSession(ended), UNCHANGED workerVars
      PROVE  (\E r \in Requests : RequestEvaluation(r) /\ UNCHANGED faults) \/ Keeping
  BY <1>1 DEF OpenSession, Keeping
<1>2. ASSUME NEW r \in Posts, PersistTurn(r), UNCHANGED workerVars
      PROVE  (\E s \in Requests : RequestEvaluation(s) /\ UNCHANGED faults) \/ Keeping
  BY <1>2 DEF PersistTurn, Keeping
<1>3. ASSUME NEW r \in Requests, Enqueue(r), UNCHANGED workerVars PROVE Keeping
  BY <1>3 DEF Enqueue, Keeping, rowVars, historyVars
<1>4. ASSUME NEW r \in Requests, EnqueueFails(r), UNCHANGED workerVars PROVE Keeping
  BY <1>4 DEF EnqueueFails, Keeping, Loaded, rowVars, historyVars
<1>5. ASSUME NEW r \in Requests, RecordEnqueueFailure(r), UNCHANGED workerVars
      PROVE  Settling \/ Keeping
  <2>1. CASE seen[r].evalStatus = "failed"
    BY <1>5, <2>1 DEF RecordEnqueueFailure, RecordFailure, Flush, Keeping
  <2>2. CASE seen[r].evalStatus # "failed"
    BY <1>5, <2>2
       DEF RecordEnqueueFailure, RecordFailure, Flush, Settling,
           EvaluationFollowsCompletion
  <2>. QED BY <2>1, <2>2
<1>6. ASSUME NEW r \in Retriers, RetryEnqueueFails(r) PROVE Settling
  BY <1>6 DEF RetryEnqueueFails, Settling, EvaluationFollowsCompletion, historyVars
<1>7. ASSUME NEW w \in Workers, NEW hasRubric \in BOOLEAN, TakeTask(w, hasRubric)
      PROVE  Keeping
  BY <1>7 DEF TakeTask, Keeping, Loaded, rowVars, requestVars, historyVars
<1>8. ASSUME NEW w \in Workers, JudgeAnswers(w) \/ JudgeFails(w) PROVE Keeping
  BY <1>8 DEF JudgeAnswers, JudgeFails, Keeping, Loaded, rowVars, requestVars, historyVars
<1>9. ASSUME NEW w \in Workers, StoreScore(w) PROVE Settling \/ Keeping
  <2>1. CASE loaded[w].evalStatus = "complete"
    BY <1>9, <2>1 DEF StoreScore, Finish, Flush, Keeping, requestVars
  <2>2. CASE loaded[w].evalStatus # "complete"
    BY <1>9, <2>2 DEF StoreScore, Flush, Settling, EvaluationFollowsCompletion
  <2>. QED BY <2>1, <2>2
<1>10. ASSUME NEW w \in Workers, MarkFailed(w) PROVE Settling \/ Keeping
  <2>1. CASE loaded[w].evalStatus = "failed"
    BY <1>10, <2>1 DEF MarkFailed, RecordFailure, Finish, Flush, Keeping, requestVars
  <2>2. CASE loaded[w].evalStatus # "failed"
    BY <1>10, <2>2
       DEF MarkFailed, RecordFailure, Flush, Settling, EvaluationFollowsCompletion
  <2>. QED BY <2>1, <2>2
<1>11. ASSUME NEW w \in Workers, WorkerCrashes(w) PROVE Faulting
  BY <1>11 DEF WorkerCrashes, Finish, Faulting, rowVars, requestVars
<1>12. ASSUME BrokerRestarts PROVE Faulting
  BY <1>12 DEF BrokerRestarts, Faulting, rowVars, requestVars
<1>13. ASSUME ApiRestarts PROVE Faulting
  <2>1. \A r \in Requests : pc'[r] \notin {"trigger", "record"}
    BY <1>13 DEF ApiRestarts, Running, InCascade
  <2>2. EvaluationOwned' => EvaluationOwned
    BY <1>13, <2>1 DEF ApiRestarts
  <2>3. taskLost => taskLost'
    BY <1>13 DEF ApiRestarts
  <2>4. ASSUME NEW r \in Requests, pc[r] \in {"trigger", "record"} PROVE taskLost'
    BY <1>13, <2>4 DEF ApiRestarts
  <2>5. EvaluationOwned => EvaluationOwned' \/ taskLost'
    BY <1>13, <2>4 DEF ApiRestarts
  <2>. QED BY <1>13, <2>2, <2>3, <2>5 DEF ApiRestarts, Faulting, rowVars
<1>14. ASSUME Aside PROVE Keeping \/ Faulting
  <2>1. EvaluationOwned' <=> EvaluationOwned
    BY <1>14 DEF Aside
  <2>. QED BY <1>14, <2>1 DEF Aside, Keeping, Faulting
<1>15. ASSUME NEW r \in Enders, EndSession(r) PROVE RequestEvaluation(r) /\ UNCHANGED faults
  BY <1>15 DEF EndSession
<1>16. ASSUME NEW r \in Retriers, ResetEvaluation(r)
       PROVE  RequestEvaluation(r) /\ UNCHANGED faults
  BY <1>16 DEF ResetEvaluation
<1>. QED
  <2> HIDE DEF EvaluationOwned, workerVars
  <2>. QED
    BY <1>1, <1>2, <1>3, <1>4, <1>5, <1>6, <1>7, <1>8, <1>9, <1>10, <1>11, <1>12,
       <1>13, <1>14, <1>15, <1>16, EvaluationCases

(* A pending evaluation is in somebody's hands, unless a fault took it.    *)
LEMMA PendingEvaluationStep ==
    ASSUME TypeOK, EvaluationFollowsCompletion, PendingEvaluationOwned, [Next]_vars
    PROVE  PendingEvaluationOwned'
<1>1. ASSUME NEW r \in Requests, RequestEvaluation(r) PROVE PendingEvaluationOwned'
  BY <1>1 DEF RequestEvaluation, PendingEvaluationOwned, EvaluationOwned, TypeOK
<1>2. ASSUME Settling \/ Keeping \/ Faulting PROVE PendingEvaluationOwned'
  BY <1>2 DEF Settling, Keeping, Faulting, PendingEvaluationOwned
<1>. QED BY <1>1, <1>2, OwnerCases

(* The status agrees with the score and the error.                         *)
LEMMA OutcomeStep ==
    ASSUME TypeOK, SeenInv, TranscriptInv, OutcomeConsistent, [Next]_vars
    PROVE  OutcomeConsistent'
<1> USE DEF TypeOK, OutcomeConsistent
<1>1. ASSUME UNCHANGED <<evalError, scored, overlapped>>,
             evalStatus' \in {evalStatus, "pending"}
      PROVE  OutcomeConsistent'
  BY <1>1
<1>2. ASSUME UNCHANGED scored, evalStatus' = "failed", evalError' = TRUE
      PROVE  OutcomeConsistent'
  BY <1>2
<1>3. ASSUME NEW was \in EvaluationColumns, RecordFailure(was), UNCHANGED scored
      PROVE  OutcomeConsistent'
  <2>1. evalStatus' \in {evalStatus, "failed"}
    BY <1>3 DEF RecordFailure, Flush
  <2>2. ~overlapped' => evalStatus' = "failed" /\ evalError' = TRUE
    <3>1. ~overlapped' => was = Loaded
      BY <1>3 DEF RecordFailure
    <3>2. Loaded.evalStatus = evalStatus /\ Loaded.evalError = evalError
      BY DEF Loaded
    <3>3. evalStatus' = Flush(was.evalStatus, "failed", evalStatus)
      BY <1>3 DEF RecordFailure
    <3>4. \/ evalStatus' = "failed"
          \/ was.evalStatus = "failed" /\ evalStatus' = evalStatus
      BY <3>3 DEF Flush
    <3>5. evalError' = TRUE \/ (was.evalError /\ evalError' = evalError)
      BY <1>3, Zenon DEF RecordFailure
    <3>6. ~overlapped' => evalStatus' = "failed"
      BY <3>1, <3>2, <3>4
    <3>7. ~overlapped' => evalError' = TRUE
      BY <3>1, <3>2, <3>5, Zenon
    <3>. QED BY <3>6, <3>7
  <2>. QED BY <1>3, <2>1, <2>2
<1>4. ASSUME NEW ended \in BOOLEAN, OpenSession(ended) PROVE OutcomeConsistent'
  BY <1>1, <1>4 DEF OpenSession, RequestEvaluation, Flush
<1>5. ASSUME NEW r \in Posts, PersistTurn(r) PROVE OutcomeConsistent'
  BY <1>1, <1>5 DEF PersistTurn, RequestEvaluation, Flush
<1>6. ASSUME NEW r \in Enders, EndSession(r) PROVE OutcomeConsistent'
  BY <1>1, <1>6 DEF EndSession, RequestEvaluation, Flush
<1>7. ASSUME NEW r \in Retriers, ResetEvaluation(r) PROVE OutcomeConsistent'
  <2>1. evalStatus' = "pending" /\ UNCHANGED scored
    BY <1>7 DEF ResetEvaluation, RequestEvaluation, Flush, SeenInv
  <2>. QED BY <2>1
<1>8. ASSUME NEW r \in Requests, Enqueue(r) \/ EnqueueFails(r) PROVE OutcomeConsistent'
  BY <1>1, <1>8 DEF Enqueue, EnqueueFails, rowVars, historyVars
<1>9. ASSUME NEW r \in Requests, RecordEnqueueFailure(r) PROVE OutcomeConsistent'
  BY <1>3, <1>9 DEF RecordEnqueueFailure
<1>10. ASSUME NEW r \in Retriers, RetryEnqueueFails(r) PROVE OutcomeConsistent'
  BY <1>2, <1>10 DEF RetryEnqueueFails
<1>11. ASSUME NEW w \in Workers, NEW hasRubric \in BOOLEAN, TakeTask(w, hasRubric)
       PROVE  OutcomeConsistent'
  BY <1>1, <1>11 DEF TakeTask, rowVars, historyVars
<1>12. ASSUME NEW w \in Workers, JudgeAnswers(w) \/ JudgeFails(w)
       PROVE  OutcomeConsistent'
  BY <1>1, <1>12 DEF JudgeAnswers, JudgeFails, rowVars, historyVars
<1>13. ASSUME NEW w \in Workers, StoreScore(w) PROVE OutcomeConsistent'
  <2>1. scored' # {} /\ evalStatus' \in {evalStatus, "complete"}
    BY <1>13 DEF StoreScore, TranscriptInv, Flush
  <2>2. ~overlapped' => evalStatus' = "complete" /\ evalError' = FALSE
    <3>1. ~overlapped' => loaded[w] = Loaded
      BY <1>13 DEF StoreScore
    <3>2. Loaded.evalStatus = evalStatus /\ Loaded.evalError = evalError
      BY DEF Loaded
    <3>3. \/ evalStatus' = "complete"
          \/ loaded[w].evalStatus = "complete" /\ evalStatus' = evalStatus
      BY <1>13 DEF StoreScore, Flush
    <3>4. \/ evalError' = FALSE
          \/ loaded[w].evalError = FALSE /\ evalError' = evalError
      BY <1>13 DEF StoreScore, Flush
    <3>. QED BY <3>1, <3>2, <3>3, <3>4
  <2>. QED BY <2>1, <2>2
<1>14. ASSUME NEW w \in Workers, MarkFailed(w) PROVE OutcomeConsistent'
  BY <1>3, <1>14 DEF MarkFailed
<1>15. ASSUME NEW w \in Workers, WorkerCrashes(w) PROVE OutcomeConsistent'
  BY <1>1, <1>15 DEF WorkerCrashes, rowVars
<1>16. ASSUME BrokerRestarts \/ ApiRestarts \/ Aside PROVE OutcomeConsistent'
  BY <1>1, <1>16 DEF BrokerRestarts, ApiRestarts, Aside, rowVars
<1>. QED
  BY <1>4, <1>5, <1>6, <1>7, <1>8, <1>9, <1>10, <1>11, <1>12, <1>13, <1>14, <1>15,
     <1>16, EvaluationCases

(* The transcript at completion, once taken, is only ever added to, and    *)
(* every worker that reads afterwards reads all of it.                     *)
LEMMA TranscriptStep ==
    ASSUME TypeOK, RequestInv, RowInv, EvaluationFollowsCompletion,
           TranscriptInv, [Next]_vars
    PROVE  TranscriptInv'
<1> USE DEF TypeOK, EvaluationFollowsCompletion, workerVars
<1>0. FailedTurns \subseteq FailedTurns'
  BY FailedMonotone
<1>1. \/ UNCHANGED closedWith
      \/ status # "complete" /\ status' = "complete" /\ closedWith' \subseteq CompleteTurns'
  <2>1. ASSUME NEW ended \in BOOLEAN, OpenSession(ended)
        PROVE  \/ UNCHANGED closedWith
               \/ status # "complete" /\ status' = "complete"
                  /\ closedWith' \subseteq CompleteTurns'
    <3>1. <<0, Opener>> \in CompleteTurns'
      BY <2>1, RowsAssumption DEF OpenSession, CompleteTurns, TurnIndexes
    <3>. QED BY <2>1, <3>1 DEF OpenSession
  <2>2. ASSUME NEW r \in Posts, PersistTurn(r)
        PROVE  \/ UNCHANGED closedWith
               \/ status # "complete" /\ status' = "complete"
                  /\ closedWith' \subseteq CompleteTurns'
    BY <2>2 DEF PersistTurn
  <2>3. ASSUME NEW r \in Enders, EndSession(r)
        PROVE  \/ UNCHANGED closedWith
               \/ status # "complete" /\ status' = "complete"
                  /\ closedWith' \subseteq CompleteTurns'
    <3>1. CompleteTurns' = CompleteTurns
      BY <2>3 DEF EndSession, CompleteTurns, turnVars
    <3>. QED BY <2>3, <3>1 DEF EndSession
  <2>. QED
    BY <2>1, <2>2, <2>3, EvaluationCases
       DEF Enqueue, EnqueueFails, RecordEnqueueFailure, ResetEvaluation, RetryEnqueueFails,
           TakeTask, JudgeAnswers, StoreScore, JudgeFails, MarkFailed, WorkerCrashes,
           BrokerRestarts, ApiRestarts, Aside, historyVars
<1>2. status' # "complete" => closedWith' = {}
  <2>1. status = "complete" => status' = "complete"
    BY StatusStep
  <2>. QED BY <1>1, <2>1 DEF TranscriptInv
<1>3. \A p \in closedWith' : p[1] \in FailedTurns' \/ p \in CompleteTurns'
  BY <1>0, <1>1, CompleteTurnsKept DEF TranscriptInv
<1>4. ASSUME NEW w \in Workers, wpc'[w] \in {"scoring", "storing"}
      PROVE  /\ reading'[w] # {}
             /\ \A p \in closedWith' : p[1] \in FailedTurns' \/ p \in reading'[w]
  <2>1. \/ wpc[w] \in {"scoring", "storing"} /\ reading'[w] = reading[w]
        \/ \E hasRubric \in BOOLEAN : TakeTask(w, hasRubric)
    <3> DEFINE Kept == wpc[w] \in {"scoring", "storing"} /\ reading'[w] = reading[w]
    <3>1. ASSUME NEW v \in Workers, NEW hasRubric \in BOOLEAN, TakeTask(v, hasRubric)
          PROVE  Kept \/ v = w
      BY <1>4, <3>1 DEF TakeTask
    <3>2. ASSUME NEW v \in Workers, JudgeAnswers(v) \/ JudgeFails(v) PROVE Kept
      BY <1>4, <3>2 DEF JudgeAnswers, JudgeFails
    <3>3. ASSUME NEW v \in Workers, StoreScore(v) \/ MarkFailed(v) \/ WorkerCrashes(v)
          PROVE  Kept
      BY <1>4, <3>3 DEF StoreScore, MarkFailed, WorkerCrashes, Finish
    <3>4. ASSUME UNCHANGED workerVars PROVE Kept
      BY <1>4, <3>4
    <3> HIDE DEF Kept, workerVars
    <3>5. Kept \/ \E hasRubric \in BOOLEAN : TakeTask(w, hasRubric)
      BY <3>1, <3>2, <3>3, <3>4, EvaluationCases
         DEF ResetEvaluation, RetryEnqueueFails, BrokerRestarts, ApiRestarts, Aside
    <3>. QED BY <3>5 DEF Kept
  <2>2. CASE wpc[w] \in {"scoring", "storing"} /\ reading'[w] = reading[w]
    BY <1>0, <1>1, <2>2 DEF TranscriptInv
  <2>3. ASSUME NEW hasRubric \in BOOLEAN, TakeTask(w, hasRubric)
        PROVE  /\ reading'[w] # {}
               /\ \A p \in closedWith' : p[1] \in FailedTurns' \/ p \in reading'[w]
    <3>1. reading'[w] = CompleteTurns
      BY <1>4, <2>3 DEF TakeTask
    <3>2. status = "complete"
      BY <2>3 DEF TakeTask
    <3>3. <<0, Opener>> \in CompleteTurns
      BY <3>2, RowsAssumption DEF RowInv, CompleteTurns, TurnIndexes
    <3>4. \A p \in closedWith : p[1] \in FailedTurns \/ p \in CompleteTurns
      BY DEF TranscriptInv
    <3>. QED BY <1>0, <2>3, <3>1, <3>3, <3>4 DEF TakeTask, historyVars
  <2>. QED BY <2>1, <2>2, <2>3
<1>. QED BY <1>2, <1>3, <1>4 DEF TranscriptInv

(* A stored score covers the interview.                                    *)
LEMMA ScoreStep ==
    ASSUME TypeOK, RequestInv, EvaluationFollowsCompletion, TranscriptInv,
           ScoreCoversInterview, [Next]_vars
    PROVE  ScoreCoversInterview'
<1> USE DEF TypeOK, ScoreCoversInterview, EvaluationFollowsCompletion
<1>0. FailedTurns \subseteq FailedTurns'
  BY FailedMonotone
<1>1. ASSUME UNCHANGED <<scored, closedWith>> PROVE ScoreCoversInterview'
  BY <1>0, <1>1
<1>2. ASSUME UNCHANGED scored, status # "complete" PROVE ScoreCoversInterview'
  BY <1>2
<1>3. ASSUME NEW w \in Workers, StoreScore(w) PROVE ScoreCoversInterview'
  BY <1>0, <1>3 DEF StoreScore, TranscriptInv
<1>4. ASSUME NEW ended \in BOOLEAN, OpenSession(ended) PROVE ScoreCoversInterview'
  BY <1>2, <1>4 DEF OpenSession
<1>5. ASSUME NEW r \in Posts, PersistTurn(r) PROVE ScoreCoversInterview'
  BY <1>1, <1>2, <1>5 DEF PersistTurn
<1>6. ASSUME NEW r \in Enders, EndSession(r) PROVE ScoreCoversInterview'
  BY <1>1, <1>2, <1>6 DEF EndSession
<1>. QED
  BY <1>1, <1>3, <1>4, <1>5, <1>6, EvaluationCases
     DEF Enqueue, EnqueueFails, RecordEnqueueFailure, ResetEvaluation, RetryEnqueueFails,
         TakeTask, JudgeAnswers, JudgeFails, MarkFailed, WorkerCrashes,
         BrokerRestarts, ApiRestarts, Aside, rowVars, historyVars

(* All the invariants of the live interview hold in every state.           *)
THEOREM InterviewCorrect == Spec => []IInv
<1>1. Init => EvaluationInv
  <2>1. SUFFICES ASSUME Init PROVE EvaluationInv
    OBVIOUS
  <2>2. EvaluationFollowsCompletion
    BY <2>1 DEF Init, RowsInit, EvaluationInit, EvaluationFollowsCompletion
  <2>3. SeenInv /\ PendingEvaluationOwned
    BY <2>1 DEF Init, RowsInit, SeenInv, PendingEvaluationOwned, NotLoaded, Requests
  <2>4. TranscriptInv
    BY <2>1 DEF Init, RowsInit, EvaluationInit, TranscriptInv
  <2>5. ScoreCoversInterview /\ OutcomeConsistent
    BY <2>1 DEF Init, RowsInit, ScoreCoversInterview, OutcomeConsistent
  <2>. QED BY <2>2, <2>3, <2>4, <2>5 DEF EvaluationInv
<1>2. ASSUME TurnInv, EvaluationInv, [Next]_vars PROVE EvaluationInv'
  BY <1>2, FollowsStep, SeenStep, PendingEvaluationStep, TranscriptStep, ScoreStep, OutcomeStep
     DEF TurnInv, EvaluationInv
<1>. QED BY <1>1, <1>2, TurnsCorrect, PTL DEF Spec, IInv

(* A pending evaluation is never abandoned without a fault.                *)
THEOREM PendingEvaluationAlwaysOwned == Spec => []PendingEvaluationOwned
BY InterviewCorrect, PTL DEF IInv, EvaluationInv

(* Evaluation starts exactly when the session is completed.                *)
THEOREM EvaluationAlwaysFollows == Spec => []EvaluationFollowsCompletion
BY InterviewCorrect, PTL DEF IInv, EvaluationInv

(* A score covers the whole interview.                                     *)
THEOREM ScoreAlwaysCovers == Spec => []ScoreCoversInterview
BY InterviewCorrect, PTL DEF IInv, EvaluationInv

(* The status, the score and the error agree.                              *)
THEOREM OutcomeAlwaysConsistent == Spec => []OutcomeConsistent
BY InterviewCorrect, PTL DEF IInv, EvaluationInv

-----------------------------------------------------------------------------
(***************************************************************************)
(* Refinement: every step of the system is a step of EvaluationLifecycle,  *)
(* or leaves its two variables alone.                                      *)
(***************************************************************************)

(* Every step of the system is a step of the lifecycle or a stutter.       *)
LEMMA LifecycleStep ==
    ASSUME TypeOK, EvaluationFollowsCompletion, [Next]_vars
    PROVE  [Lifecycle!LifecycleNext]_<<Phase, faults>>
<1> USE DEF TypeOK, EvaluationStatuses
<1> DEFINE Maps == [Lifecycle!LifecycleNext]_<<Phase, faults>>
<1>1. ASSUME Phase' = Phase \/ Phase' = "due", UNCHANGED faults PROVE Maps
  BY <1>1 DEF Lifecycle!LifecycleNext, Lifecycle!FallDue
<1>2. ASSUME NEW r \in Requests, RequestEvaluation(r), UNCHANGED faults PROVE Maps
  <2>1. EvaluationOwned' /\ evalStatus' \in {evalStatus, "pending"}
    BY <1>2 DEF RequestEvaluation, EvaluationOwned, Flush
  <2>2. Phase' = Phase \/ Phase' = "due"
    BY <2>1 DEF Phase
  <2>. QED BY <1>1, <1>2, <2>2
<1>3. ASSUME Settling PROVE Maps
  <2>1. Phase' = "settled" /\ Phase \in {"due", "settled"}
    BY <1>3 DEF Settling, Phase
  <2>. QED BY <1>3, <2>1 DEF Settling, Lifecycle!LifecycleNext, Lifecycle!Settle
<1>4. ASSUME Keeping PROVE Maps
  <2>1. Phase' = Phase \/ Phase' = "due"
    BY <1>4 DEF Keeping, Phase
  <2>. QED BY <1>1, <1>4, <2>1 DEF Keeping
<1>5. ASSUME Faulting PROVE Maps
  <2>1. \/ Phase = "due" /\ Phase' \in {"due", "stalled"}
        \/ Phase # "due" /\ Phase' = Phase
    BY <1>5 DEF Faulting, Phase
  <2>. QED BY <1>5, <2>1 DEF Faulting, Lifecycle!LifecycleNext, Lifecycle!Fault
<1>. QED
  <2> HIDE DEF Maps
  <2>1. Maps
    BY <1>2, <1>3, <1>4, <1>5, OwnerCases
  <2>. QED BY <2>1 DEF Maps

(* The system implements the lifecycle, its liveness aside.                *)
THEOREM Refinement == Spec => Lifecycle!LifecycleSteps
<1>1. Init => Lifecycle!LifecycleInit
  BY DEF Init, RowsInit, Phase, Lifecycle!LifecycleInit
<1>2. IInv /\ [Next]_vars => [Lifecycle!LifecycleNext]_<<Phase, faults>>
  BY LifecycleStep DEF IInv, TurnInv, EvaluationInv
<1>. QED
  BY <1>1, <1>2, InterviewCorrect, PTL DEF Spec, Lifecycle!LifecycleSteps
=============================================================================

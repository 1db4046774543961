------------------------- MODULE VoiceClient_proofs -------------------------
(***************************************************************************)
(* The candidate's browser does nothing to the server that InterviewSystem *)
(* does not allow, so that every theorem about InterviewSystem holds with  *)
(* the browser in front of it; it keeps the session's id until the session *)
(* has been completed; and what it counts, sends again and takes for       *)
(* answered agrees with the rows (VoiceCorrect).                           *)
(***************************************************************************)
EXTENDS VoiceClient, InterviewSystem_proofs, FiniteSetTheorems

(* What the page sends is a turn index, and only a page that has been left *)
(* behind asks for nothing.                                                *)
PageInv ==
    /\ nextTurnIndex \in Nat \ {0}
    /\ fetch \in [at : {"none", "asked", "loaded", "served"}, turns : Nat, ended : BOOLEAN]
    /\ page = "device" => fetch.at = "none"
    /\ sent \in [Posts -> TurnIndexes]

(* An early end that got as far as its commit, or found nothing to do, is  *)
(* one of a session that is complete.                                      *)
EndInv ==
    \A e \in Enders :
        pc[e] \in {"trigger", "record", "ok", "noop"} => status = "complete"

-----------------------------------------------------------------------------
(* The number of rows is a number.                                         *)
LEMMA RowCount ==
    Cardinality({t \in TurnIndexes : turnStatus[t] # "absent"}) \in Nat
<1>1. IsFiniteSet(TurnIndexes)
  BY RowsAssumption, FS_Interval DEF TurnIndexes
<1>2. IsFiniteSet({t \in TurnIndexes : turnStatus[t] # "absent"})
  BY <1>1, FS_Subset
<1>. QED BY <1>2, FS_CardinalityType

(* Coming to a page starts over: turn 1 is next, the device check is past. *)
LEMMA Shown ==
    ASSUME NEW cached, ShowInterview(cached) \/ ShowCompleted(cached)
    PROVE  /\ nextTurnIndex' = 1
           /\ fetch' \in [at : {"none", "asked"}, turns : Nat, ended : BOOLEAN]
           /\ page' # "device"
<1>1. CASE ShowCompleted(cached)
  BY <1>1 DEF ShowCompleted, FreshPage, NotAsked
<1>2. CASE cached # "complete" /\ ShowInterview(cached)
  <2>1. fetch' = [NotAsked EXCEPT !.at = IF cached = "none" THEN "none" ELSE "asked"]
    BY <1>2 DEF ShowInterview
  <2>2. fetch' \in [at : {"none", "asked"}, turns : Nat, ended : BOOLEAN]
    BY <2>1 DEF NotAsked
  <2>. QED BY <1>2, <2>2 DEF ShowInterview, FreshPage
<1>. QED BY <1>1, <1>2 DEF ShowInterview

(* No step of the page leaves the server's state, and each keeps PageInv.  *)
LEMMA PageStep ==
    ASSUME PageInv, PageNext
    PROVE  PageInv' /\ UNCHANGED vars
<1> USE DEF PageInv
<1>1. CASE SessionStarted
  BY <1>1, Shown DEF SessionStarted
<1>2. CASE Reload \/ Leave
  BY <1>2, Shown DEF Reload, Leave
<1>3. CASE LoadSession \/ ServeSession
  BY <1>3, RowCount DEF LoadSession, ServeSession, wireVars
<1>4. CASE Reconcile
  <2>1. nextTurnIndex' \in Nat \ {0}
    BY <1>4 DEF Reconcile, ShowCompleted, FreshPage
  <2>2. fetch' = NotAsked /\ page' \in {page, "completed"} /\ UNCHANGED <<sent, vars>>
    BY <1>4 DEF Reconcile, ShowCompleted, FreshPage
  <2>. QED BY <2>1, <2>2 DEF NotAsked
<1>5. CASE ReconcileFails
  BY <1>5 DEF ReconcileFails, NotAsked, wireVars
<1>6. ASSUME NEW r \in Posts, RecordAnswer(r) \/ Retry(r) PROVE PageInv' /\ UNCHANGED vars
  <2>1. nextTurnIndex \in TurnIndexes
    BY <1>6, RowsAssumption DEF RecordAnswer, Retry, SendTurn, TurnIndexes
  <2>2. sent' \in [Posts -> TurnIndexes]
    BY <1>6, <2>1 DEF RecordAnswer, Retry, SendTurn
  <2>. QED BY <1>6, <2>2 DEF RecordAnswer, Retry, SendTurn
<1>7. ASSUME NEW r \in Posts, TurnAnswered(r) \/ SubmitFails(r) PROVE PageInv' /\ UNCHANGED vars
  BY <1>7 DEF TurnAnswered, SubmitFails, wireVars
<1>8. CASE ConnectionLost
  BY <1>8 DEF ConnectionLost, wireVars
<1>9. ASSUME NEW e \in Enders, EndAnswered(e) PROVE PageInv' /\ UNCHANGED vars
  BY <1>9 DEF EndAnswered, wireVars
<1>10. CASE EndFails
  BY <1>10 DEF EndFails, wireVars
<1>. QED
  BY <1>1, <1>2, <1>3, <1>4, <1>5, <1>6, <1>7, <1>8, <1>9, <1>10 DEF PageNext

(* Every step behind the page is one of InterviewSystem.                   *)
LEMMA ServerStep ==
    ASSUME PageInv, ServerNext
    PROVE  Next /\ UNCHANGED clientVars
<1> USE RowsAssumption DEF PageInv, Requests
<1>1. ASSUME NEW ended \in BOOLEAN, Continue(ended) PROVE Next /\ UNCHANGED clientVars
  BY <1>1 DEF Continue, Next, CandidateNext
<1>2. ASSUME NEW r \in Posts, Arrive(r) PROVE Next /\ UNCHANGED clientVars
  BY <1>2 DEF Arrive, Next, CandidateNext
<1>3. ASSUME NEW r \in Posts, ServeTurn(r) PROVE Next /\ UNCHANGED clientVars
  BY <1>3 DEF ServeTurn, Next, CandidateNext
<1>4. ASSUME NEW e \in Enders, ArriveEnd(e) PROVE Next /\ UNCHANGED clientVars
  BY <1>4 DEF ArriveEnd, Next, CandidateNext
<1>5. ASSUME NEW e \in Enders, ServeEnd(e) PROVE Next /\ UNCHANGED clientVars
  BY <1>5 DEF ServeEnd, Next, CandidateNext
<1>6. CASE ServeStart
  BY <1>6 DEF ServeStart, Next, CandidateNext
<1>7. CASE ServerFails
  BY <1>7 DEF ServerFails, Next, CandidateNext
<1>. QED BY <1>1, <1>2, <1>3, <1>4, <1>5, <1>6, <1>7 DEF ServerNext

LEMMA ClientStep ==
    ASSUME PageInv, [ClientNext]_<<vars, clientVars>>
    PROVE  PageInv' /\ [Next]_vars
<1>1. CASE PageNext
  BY <1>1, PageStep
<1>2. CASE ServerNext
  BY <1>2, ServerStep DEF PageInv, clientVars, pageVars, wireVars
<1>3. CASE UNCHANGED <<vars, clientVars>>
  BY <1>3 DEF PageInv, clientVars, pageVars, wireVars
<1>. QED BY <1>1, <1>2, <1>3 DEF ClientNext

LEMMA ClientInvariant == ClientSpec => []PageInv
<1>1. ClientInit => PageInv
  BY RowsAssumption DEF ClientInit, PageInv, NotAsked, TurnIndexes
<1>2. PageInv /\ [ClientNext]_<<vars, clientVars>> => PageInv'
  BY ClientStep
<1>. QED BY <1>1, <1>2, PTL DEF ClientSpec

(* Reloads, retries, lost replies and early ends included, the browser     *)
(* makes the server take only steps of InterviewSystem.                    *)
THEOREM ClientImplements == ClientSpec => Spec
<1>1. ClientInit => Init
  BY DEF ClientInit
<1>2. PageInv /\ [ClientNext]_<<vars, clientVars>> => [Next]_vars
  BY ClientStep
<1>. QED BY <1>1, <1>2, ClientInvariant, PTL DEF ClientSpec, Spec

(* So all the invariants of the live interview hold behind the browser.    *)
THEOREM ClientInterviewCorrect == ClientSpec => []IInv
BY ClientImplements, InterviewCorrect, PTL

-----------------------------------------------------------------------------
(* Early ends keep EndInv: once at its commit, the session is complete.    *)
LEMMA EndStep ==
    ASSUME TypeOK, RequestInv, EndInv, [Next]_vars
    PROVE  EndInv'
<1> DEFINE Ended == {"trigger", "record", "ok", "noop"}
<1>1. SUFFICES ASSUME NEW e \in Enders, pc'[e] \in Ended, status # "complete"
               PROVE  status' = "complete"
  BY StatusStep DEF EndInv
<1>2. pc[e] \notin Ended
  BY <1>1 DEF EndInv
<1> USE <1>1, <1>2, RowsAssumption DEF TypeOK, Requests
<1>3. ASSUME NEW r \in Requests, NEW s, pc' = [pc EXCEPT ![r] = s], r \notin Enders
      PROVE  FALSE
  BY <1>3
<1>4. ASSUME NEW r \in Requests, pc[r] \in Ended,
             \E s \in Ended : pc' = [pc EXCEPT ![r] = s]
      PROVE  FALSE
  BY <1>4
<1>5. ASSUME NEW ended \in BOOLEAN, OpenSession(ended) PROVE FALSE
  <2>1. \/ pc' = [pc EXCEPT ![Opener] = "trigger"]
        \/ pc' = [pc EXCEPT ![Opener] = "ok"]
    BY <1>5 DEF OpenSession, RequestEvaluation
  <2>. QED BY <1>3, <2>1
<1>6. ASSUME NEW r \in Posts, NEW t \in TurnIndexes, PostTurn(r, t) PROVE FALSE
  <2>1. \E s : pc' = [pc EXCEPT ![r] = s]
    BY <1>6 DEF PostTurn
  <2>. QED BY <1>3, <2>1
<1>7. ASSUME NEW r \in Posts, TurnStep(r) \/ CascadeRaises(r) PROVE FALSE
  <2>1. \E s : pc' = [pc EXCEPT ![r] = s]
    BY <1>7 DEF TurnStep, LookUpTurn, ClaimTurn, CascadeSucceeds, CascadeFails,
                MarkTurnFailed, PersistTurn, RequestEvaluation, CascadeRaises
  <2>. QED BY <1>3, <2>1
<1>8. ASSUME NEW r \in Enders, PostEnd(r) PROVE FALSE
  BY <1>8 DEF PostEnd
<1>9. ASSUME NEW r \in Enders, EndSession(r) PROVE status' = "complete"
  BY <1>9 DEF EndSession
<1>10. ASSUME NEW r \in Requests, TriggerStep(r) PROVE FALSE
  BY <1>4, <1>10 DEF TriggerStep, Enqueue, EnqueueFails, RecordEnqueueFailure
<1>11. ASSUME NEW r \in Retriers, PostRetry(r) \/ RetryStep(r) PROVE FALSE
  <2>1. \E s : pc' = [pc EXCEPT ![r] = s]
    BY <1>11 DEF PostRetry, RetryStep, ResetEvaluation, RequestEvaluation, Enqueue,
                 RetryEnqueueFails
  <2>. QED BY <1>3, <2>1
<1>12. ASSUME UNCHANGED pc PROVE FALSE
  BY <1>12
<1>13. ASSUME NEW d \in Decisions, SetDecision(d) PROVE FALSE
  BY <1>12, <1>13 DEF SetDecision, requestVars
<1>14. ASSUME NEW w \in Workers, WorkerStep(w) \/ WorkerCrashes(w) PROVE FALSE
  BY <1>12, <1>14
     DEF WorkerStep, TakeTask, JudgeAnswers, StoreScore, JudgeFails, MarkFailed,
         WorkerCrashes, requestVars
<1>15. ASSUME BrokerRestarts PROVE FALSE
  BY <1>12, <1>15 DEF BrokerRestarts, requestVars
<1>16. ASSUME ApiRestarts PROVE FALSE
  BY <1>16 DEF ApiRestarts, InCascade, Running
<1>17. ASSUME UNCHANGED vars PROVE FALSE
  BY <1>12, <1>17 DEF vars, requestVars
<1>. QED
  BY <1>5, <1>6, <1>7, <1>8, <1>9, <1>10, <1>11, <1>13, <1>14, <1>15, <1>16, <1>17
     DEF Next, CandidateNext, EvaluationNext

(* A step of the page drops the stored id only of a complete session.      *)
LEMMA DroppedStep ==
    ASSUME PageInv, RequestInv, EndInv, DroppedOnlyWhenEnded, PageNext
    PROVE  DroppedOnlyWhenEnded'
<1> USE DEF DroppedOnlyWhenEnded, vars, rowVars
<1>1. UNCHANGED status
  BY PageStep
<1>2. CASE SessionStarted
  <2>1. status # "none"
    BY <1>2 DEF SessionStarted, RequestInv, Requests
  <2>. QED BY <1>2, <2>1 DEF SessionStarted
<1>3. CASE \E e \in Enders : EndAnswered(e)
  BY <1>1, <1>3 DEF EndAnswered, EndInv
<1>4. CASE Reload \/ Leave
  BY <1>1, <1>4 DEF Reload, Leave
<1>5. CASE Reconcile
  <2>1. page # "device"
    BY <1>5 DEF Reconcile, PageInv
  <2>. QED BY <1>1, <1>5, <2>1 DEF Reconcile
<1>6. ASSUME UNCHANGED <<page, stored>> PROVE DroppedOnlyWhenEnded'
  BY <1>1, <1>6
<1>. QED
  BY <1>2, <1>3, <1>4, <1>5, <1>6
     DEF PageNext, LoadSession, ServeSession, ReconcileFails, RecordAnswer, Retry, SendTurn,
         TurnAnswered, SubmitFails, ConnectionLost, EndFails

(* A candidate can resume with the id in sessionStorage until the session  *)
(* has been completed, whatever was lost, retried or reloaded.             *)
THEOREM IdKeptUntilTheEnd == ClientSpec => []DroppedOnlyWhenEnded
<1> DEFINE Inv == EndInv /\ DroppedOnlyWhenEnded
<1>1. ClientInit => Inv
  BY DEF ClientInit, Init, RowsInit, Requests, EndInv, DroppedOnlyWhenEnded
<1>2. ASSUME PageInv, TypeOK, RequestInv, Inv, [ClientNext]_<<vars, clientVars>>
      PROVE  Inv'
  <2>1. EndInv'
    BY <1>2, ClientStep, EndStep
  <2>2. CASE PageNext
    BY <1>2, <2>1, <2>2, DroppedStep
  <2>3. CASE ServerNext \/ UNCHANGED <<vars, clientVars>>
    <3>1. UNCHANGED <<page, stored>>
      BY <1>2, <2>3, ServerStep DEF clientVars, pageVars
    <3>2. status = "complete" => status' = "complete"
      BY <1>2, ClientStep, StatusStep
    <3>. QED BY <1>2, <2>1, <3>1, <3>2 DEF DroppedOnlyWhenEnded
  <2>. QED BY <1>2, <2>2, <2>3 DEF ClientNext
<1>3. TurnInv => TypeOK /\ RequestInv
  BY DEF TurnInv
<1>. QED
  BY <1>1, <1>2, <1>3, ClientInvariant, ClientImplements, TurnsCorrect, PTL DEF ClientSpec

-----------------------------------------------------------------------------
(***************************************************************************)
(* What the page has sent, and what the rows hold of it.                   *)
(***************************************************************************)

(* A request is on the wire before the server begins it, with the index it *)
(* was sent with; the recording it carries has been sent as well.          *)
SentInv ==
    /\ audio \in [Posts -> Posts \cup {None}]
    /\ inFlight \in Posts \cup {None}
    /\ lastFailed \in Posts \cup {None}
    /\ \A r \in Posts :
          /\ sent[r] # 0 => audio[r] \in Posts /\ sent[audio[r]] # 0
          /\ sent[r] = 0 => pc[r] = "new"
          /\ pc[r] # "new" => idx[r] = sent[r]
          /\ r \in {inFlight, lastFailed} => sent[r] # 0

(* Before the first answer of the first mount nothing has been sent.       *)
FirstMount ==
    /\ page = "device" => \A r \in Posts : sent[r] = 0
    /\ page = "interview" /\ reloads = 0 /\ ~Submitted => \A r \in Posts : sent[r] = 0

(* A row is there because a request was sent for it, it holds the result   *)
(* of one that was sent for it, and it never goes away.                    *)
RowsSent ==
    /\ page # "device" => status # "none"
    /\ \A t \in TurnIndexes \ {0} :
          /\ turnStatus[t] # "absent" => \E r \in Posts : sent[r] = t
          /\ turnStatus[t] = "complete" =>
                turnResult[t] \in Posts /\ sent[turnResult[t]] = t
    /\ \A r \in Posts :
          pc[r] \in Committed \cup InCascade => turnStatus[idx[r]] # "absent"

(* A recording keeps the index it was first sent with, and that is the     *)
(* index the page is at as long as it may send it again.                   *)
PairInv ==
    ~reconciledLate =>
        /\ RetryResendsPair
        /\ \A r \in Posts : sent[r] # 0 /\ audio[r] = lastFailed => sent[r] = nextTurnIndex
        /\ inFlight # None => sent[inFlight] = nextTurnIndex

(* The rows below everything the page counts with are there.               *)
RowsBelow(n) == \A t \in TurnIndexes : t < n => turnStatus[t] # "absent"
BelowInv ==
    ~reconciledLate =>
        /\ \A r \in Posts : RowsBelow(sent[r])
        /\ page = "interview" => RowsBelow(nextTurnIndex)
        /\ fetch.at = "served" => RowsBelow(fetch.turns)

(* A page that loses no connection and is not reloaded has one request     *)
(* that the server may still work on, and works on a row nobody else will  *)
(* touch.                                                                  *)
Settled == {"ok", "cached", "conflict", "closed", "integrity", "failed", "stranded", "dead"}
Open(r) == sent[r] # 0 /\ pc[r] \notin Settled
Untouched(r) ==
    /\ pc[r] = "claim" => saw[r] = turnStatus[idx[r]] /\ saw[r] \in {"absent", "failed"}
    /\ pc[r] \in InCascade => turnStatus[idx[r]] = "pending"
    /\ pc[r] \in {"persist", "mark"} => saw[r] = "pending"
    /\ pc[r] \in Committed =>
          turnStatus[idx[r]] = "complete" /\ turnResult[idx[r]] = Answer(r)
PatientInv ==
    drops = 0 /\ reloads = 0 =>
        /\ \A r, s \in Posts : Open(r) /\ Open(s) => r = s
        /\ page = "interview" => \A r \in Posts : Open(r) => r = inFlight
        /\ \A r \in Posts : Untouched(r)

(* How far the page and the session it asked for can count.                *)
BoundInv ==
    /\ nextTurnIndex <= MaxTurn + 2
    /\ inFlight # None \/ ~reconciledLate => nextTurnIndex <= MaxTurn + 1
    /\ fetch.turns <= MaxTurn + 1
    /\ submitError \in BOOLEAN /\ leaving \in BOOLEAN /\ reconciledLate \in BOOLEAN
    /\ page \in {"device", "interview", "completed", "noSession"}
    /\ stored \in {"none", "active", "complete"}
    /\ ending \in Enders \cup {None} /\ endsSent \subseteq Enders
    /\ accepted \subseteq (TurnIndexes \ {0}) \X Posts
    /\ reloads \in Nat /\ drops \in Nat /\ drops + reloads <= MaxDisturbances

VoiceInv ==
    /\ SentInv /\ FirstMount /\ RowsSent /\ PairInv /\ BelowInv /\ PatientInv
    /\ BoundInv /\ IndexFollowsRows /\ AcceptedAnswersKept

-----------------------------------------------------------------------------
(* What the server does for the page, by action: it begins a post only as  *)
(* it was sent.                                                            *)
LEMMA ServerCases ==
    ASSUME TypeOK, RequestInv, PageInv, ServerNext
    PROVE  \/ \E ended \in BOOLEAN : OpenSession(ended)
           \/ \E r \in Posts : \/ sent[r] # 0 /\ PostTurn(r, sent[r])
                              \/ LookUpTurn(r)
                              \/ ClaimTurn(r)
                              \/ \E ended \in BOOLEAN : CascadeSucceeds(r, ended)
                              \/ CascadeFails(r)
                              \/ CascadeRaises(r)
                              \/ MarkTurnFailed(r)
                              \/ PersistTurn(r)
           \/ ApiRestarts
           \/ Quiet
<1> USE RowsAssumption DEF TypeOK, Requests, RequestInv, rowVars, turnVars, requestVars
<1>1. ASSUME NEW e \in Enders, PostEnd(e) \/ EndSession(e) PROVE Quiet
  BY <1>1 DEF PostEnd, EndSession, RequestEvaluation, Quiet
<1>2. ASSUME NEW r \in Requests, TriggerStep(r) PROVE Quiet
  <2>1. /\ UNCHANGED <<turnVars, idx, saw, hist, isComplete, got, status>>
        /\ pc[r] \in {"trigger", "record"}
        /\ \E new \in Triggering : pc' = [pc EXCEPT ![r] = new]
    BY <1>2 DEF TriggerStep, Enqueue, EnqueueFails, RecordEnqueueFailure, Triggering
  <2>. QED BY <2>1 DEF Quiet, Triggering
<1>. QED
  BY <1>1, <1>2
     DEF ServerNext, Continue, Arrive, ServeTurn, ArriveEnd, ServeEnd, ServeStart,
         ServerFails, TurnStep

(* What a mount does to the page.                                          *)
Mount ==
    /\ nextTurnIndex' = 1 /\ inFlight' = None /\ lastFailed' = None
    /\ submitError' = FALSE /\ leaving' = FALSE
    /\ fetch'.at # "served" /\ fetch'.turns = 0
    /\ page' \in {"interview", "completed", "noSession"}
    /\ page' = "interview" => page = "device" \/ reloads' # 0
    /\ page = "device" => pc[Opener] = "ok"
    /\ ending' \in Enders \cup {None}
    /\ endsSent \subseteq Enders => endsSent' \subseteq Enders
    /\ UNCHANGED <<sent, audio, accepted, reconciledLate>>

\* A question to the server is asked, answered or given up.
Ask ==
    /\ fetch'.turns <= MaxTurn + 1
    /\ fetch'.at = "served" => fetch' = fetch \/ ServeSession
    /\ UNCHANGED <<page, stored, nextTurnIndex, inFlight, lastFailed, submitError,
                   leaving, ending, wireVars, accepted, reconciledLate, reloads>>

\* A request is sent with a new recording or the one kept for Retry.
Sends(r, x) ==
    /\ SendTurn(r, x)
    /\ x = r \/ x = lastFailed
    /\ x # None
    /\ UNCHANGED <<page, stored, nextTurnIndex, lastFailed, leaving, fetch, ending,
                   endsSent, accepted, reconciledLate, reloads, drops>>

\* The page gives up on the request in flight.
GiveUp ==
    /\ inFlight # None
    /\ inFlight' = None /\ lastFailed' = audio[inFlight]
    /\ submitError' = TRUE
    /\ drops' # 0 \/ pc[inFlight] \in Settled
    /\ UNCHANGED <<page, stored, nextTurnIndex, leaving, fetch, ending, wireVars,
                   accepted, reconciledLate, reloads>>

\* The number of rows is at most the number of turn indexes.
LEMMA RowCountBound ==
    /\ IsFiniteSet({t \in TurnIndexes : turnStatus[t] # "absent"})
    /\ Cardinality({t \in TurnIndexes : turnStatus[t] # "absent"}) <= MaxTurn + 1
<1>1. IsFiniteSet(TurnIndexes) /\ Cardinality(TurnIndexes) = MaxTurn + 1
  BY RowsAssumption, FS_Interval DEF TurnIndexes
<1>. QED BY <1>1, FS_Subset

LEMMA Mounts ==
    ASSUME NEW cached, ShowInterview(cached) \/ ShowCompleted(cached)
    PROVE  /\ nextTurnIndex' = 1 /\ inFlight' = None /\ lastFailed' = None
           /\ submitError' = FALSE /\ leaving' = FALSE
           /\ fetch'.at # "served" /\ fetch'.turns = 0
           /\ page' \in {"interview", "completed", "noSession"}
           /\ ShowCompleted(cached) => page' = "completed"
           /\ ending' \in Enders \cup {None}
           /\ endsSent \subseteq Enders => endsSent' \subseteq Enders
<1>1. CASE ShowCompleted(cached)
  BY <1>1 DEF ShowCompleted, FreshPage, NotAsked
<1>2. CASE cached # "complete" /\ ShowInterview(cached)
  <2>1. fetch' = [NotAsked EXCEPT !.at = IF cached = "none" THEN "none" ELSE "asked"]
    BY <1>2 DEF ShowInterview
  <2>2. fetch'.at # "served" /\ fetch'.turns = 0
    BY <2>1 DEF NotAsked
  <2>3. ~ShowCompleted(cached) \/ page' = "completed"
    BY DEF ShowCompleted
  <2>. QED BY <1>2, <2>2, <2>3 DEF ShowInterview, FreshPage
<1>. QED BY <1>1, <1>2 DEF ShowInterview

(* The page's steps, by what they do to what it counts with.               *)
LEMMA PageCases ==
    ASSUME PageInv, BoundInv, PageNext
    PROVE  \/ Mount
           \/ Ask
           \/ /\ fetch.at = "served" /\ fetch.turns > 1
              /\ nextTurnIndex' = fetch.turns
              /\ reconciledLate' = (reconciledLate \/ (Submitted /\ fetch.turns # nextTurnIndex))
              /\ fetch' = NotAsked
              /\ UNCHANGED <<page, stored, inFlight, lastFailed, submitError, leaving,
                             ending, wireVars, accepted, reloads, drops>>
           \/ \E r \in Posts : TurnAnswered(r) \/ \E x : Sends(r, x)
           \/ GiveUp
           \/ /\ ending' = None
              /\ UNCHANGED <<page, nextTurnIndex, inFlight, lastFailed, submitError,
                             leaving, fetch, wireVars, accepted, reconciledLate, reloads>>
<1> USE DEF wireVars
<1>1. CASE SessionStarted \/ Reload \/ Leave
  <2>1. \/ ShowInterview(status) /\ SessionStarted
        \/ ShowInterview(stored) /\ Reload
        \/ ShowCompleted(stored) /\ Leave
    BY <1>1 DEF SessionStarted, Reload, Leave
  <2>2. UNCHANGED <<sent, audio, accepted, reconciledLate>>
    BY <1>1 DEF SessionStarted, Reload, Leave
  <2>3. page' = "interview" => page = "device" \/ reloads' # 0
    <3>1. CASE Leave
      BY <3>1, Mounts DEF Leave
    <3>2. CASE Reload
      BY <3>2 DEF Reload, BoundInv
    <3>. QED BY <1>1, <3>1, <3>2 DEF SessionStarted
  <2>4. page = "device" => pc[Opener] = "ok"
    BY <1>1 DEF SessionStarted, Reload, Leave
  <2>. QED BY <2>1, <2>2, <2>3, <2>4, Mounts DEF Mount
<1>2. CASE LoadSession
  <2>1. fetch'.turns = fetch.turns /\ fetch'.at # "served"
    BY <1>2 DEF LoadSession, PageInv
  <2>. QED BY <1>2, <2>1 DEF LoadSession, Ask, BoundInv
<1>3. CASE ServeSession
  <2>1. fetch'.turns = Cardinality({t \in TurnIndexes : turnStatus[t] # "absent"})
    BY <1>3 DEF ServeSession, PageInv
  <2>. QED BY <1>3, <2>1, RowCountBound DEF ServeSession, Ask
<1>4. CASE Reconcile
  <2>1. CASE ShowCompleted(stored) /\ UNCHANGED reconciledLate
    <3>1. Mount
      BY <1>4, <2>1, Mounts DEF Reconcile, Mount, PageInv
    <3>. QED BY <3>1
  <2>2. CASE /\ fetch' = NotAsked
             /\ UNCHANGED <<page, nextTurnIndex, inFlight, lastFailed, submitError,
                            leaving, ending, endsSent, reconciledLate>>
    BY <1>4, <2>2, RowsAssumption DEF Reconcile, Ask, NotAsked
  <2>3. CASE fetch.turns > 1 /\ nextTurnIndex' = fetch.turns
    BY <1>4, <2>1, <2>2, <2>3 DEF Reconcile
  <2>. QED BY <1>4, <2>1, <2>2, <2>3 DEF Reconcile
<1>5. CASE ReconcileFails
  BY <1>5, RowsAssumption DEF ReconcileFails, Ask, NotAsked
<1>6. ASSUME NEW r \in Posts, SubmitFails(r) PROVE GiveUp
  BY <1>6, RowsAssumption DEF SubmitFails, GiveUp, Requests, Settled
<1>7. ASSUME ConnectionLost PROVE GiveUp
  <2>1. drops' # 0
    BY <1>7 DEF ConnectionLost, BoundInv
  <2>. QED BY <1>7, <2>1 DEF ConnectionLost, GiveUp
<1>8. CASE EndFails \/ \E e \in Enders : EndAnswered(e)
  BY <1>8 DEF EndFails, EndAnswered
<1>9. ASSUME NEW r \in Posts, RecordAnswer(r) PROVE Sends(r, r)
  BY <1>9, RowsAssumption DEF RecordAnswer, Sends, Requests
<1>10. ASSUME NEW r \in Posts, Retry(r) PROVE Sends(r, lastFailed)
  BY <1>10 DEF Retry, Sends
<1>. QED
  BY <1>1, <1>2, <1>3, <1>4, <1>5, <1>6, <1>7, <1>8, <1>9, <1>10 DEF PageNext

(* What was lost or reloaded stays lost or reloaded.                       *)
LEMMA Disturbed ==
    ASSUME BoundInv, PageNext
    PROVE  /\ drops <= drops' /\ reloads <= reloads'
           /\ reloads \in Nat /\ drops \in Nat
<1> USE DEF BoundInv
<1>1. CASE SessionStarted \/ Reload \/ Leave
  BY <1>1 DEF SessionStarted, Reload, Leave
<1>2. CASE LoadSession \/ ServeSession \/ Reconcile \/ ReconcileFails
  BY <1>2 DEF LoadSession, ServeSession, Reconcile, ReconcileFails
<1>3. ASSUME NEW r \in Posts, RecordAnswer(r) \/ Retry(r) \/ TurnAnswered(r) \/ SubmitFails(r)
      PROVE  drops <= drops' /\ reloads <= reloads'
  BY <1>3 DEF RecordAnswer, Retry, TurnAnswered, SubmitFails
<1>4. CASE ConnectionLost \/ EndFails \/ \E e \in Enders : EndAnswered(e)
  BY <1>4 DEF ConnectionLost, EndFails, EndAnswered
<1>. QED BY <1>1, <1>2, <1>3, <1>4 DEF PageNext

-----------------------------------------------------------------------------
(* Requests are sent once, before they begin.                              *)
LEMMA SentStep ==
    ASSUME TypeOK, RequestInv, PageInv, BoundInv, SentInv, ClientNext
    PROVE  SentInv'
<1> USE RowsAssumption DEF SentInv, PageInv, Requests
<1>1. CASE PageNext
  <2>1. UNCHANGED <<pc, idx>>
    BY <1>1, PageStep DEF vars, requestVars
  <2>2. CASE Mount
    BY <2>1, <2>2 DEF Mount
  <2>3. CASE UNCHANGED <<inFlight, lastFailed, sent, audio>>
    BY <2>1, <2>3
  <2>4. ASSUME NEW r \in Posts, NEW x, Sends(r, x) PROVE SentInv'
    <3>1. /\ sent[r] = 0 /\ nextTurnIndex # 0 /\ x \in Posts
          /\ sent' = [sent EXCEPT ![r] = nextTurnIndex]
          /\ audio' = [audio EXCEPT ![r] = x]
          /\ inFlight' = r /\ UNCHANGED lastFailed
          /\ x = r \/ sent[x] # 0
      BY <2>4 DEF Sends, SendTurn
    <3>2. sent'[r] # 0 /\ sent'[x] # 0
      BY <3>1
    <3>3. \A s \in Posts \ {r} : sent'[s] = sent[s] /\ audio'[s] = audio[s]
      BY <3>1
    <3>4. audio' \in [Posts -> Posts \cup {None}] /\ audio'[r] = x
      BY <3>1
    <3>. QED BY <2>1, <3>1, <3>2, <3>3, <3>4
  <2>5. CASE GiveUp
    BY <2>1, <2>5 DEF GiveUp, wireVars
  <2>6. ASSUME NEW r \in Posts, TurnAnswered(r) PROVE SentInv'
    BY <2>1, <2>6 DEF TurnAnswered, wireVars
  <2> HIDE DEF SentInv
  <2>. QED BY <1>1, <2>2, <2>3, <2>4, <2>5, <2>6, PageCases DEF Ask, wireVars
<1>2. CASE ServerNext
  <2>0. UNCHANGED <<inFlight, lastFailed, sent, audio>>
    BY <1>2, ServerStep DEF clientVars, pageVars, wireVars
  <2>1. SUFFICES ASSUME NEW r \in Posts, pc'[r] # "new"
                 PROVE  sent[r] # 0 /\ idx'[r] = sent[r]
    BY <2>0
  <2> USE <2>1 DEF TypeOK
  <2>2. ASSUME NEW ended \in BOOLEAN, OpenSession(ended) PROVE FALSE
    BY <2>2 DEF OpenSession, RequestEvaluation, RequestInv
  <2>3. ASSUME NEW s \in Posts, sent[s] # 0, PostTurn(s, sent[s])
        PROVE  sent[r] # 0 /\ idx'[r] = sent[r]
    BY <2>3 DEF PostTurn
  <2>4. ASSUME NEW s \in Posts, LookUpTurn(s) \/ ClaimTurn(s) \/ CascadeFails(s)
                 \/ CascadeRaises(s) \/ MarkTurnFailed(s)
        PROVE  sent[r] # 0 /\ idx'[r] = sent[r]
    <3>1. pc[r] # "new" /\ UNCHANGED idx
      BY <2>4 DEF LookUpTurn, ClaimTurn, CascadeFails, CascadeRaises, MarkTurnFailed, InCascade
    <3>. QED BY <3>1
  <2>5. ASSUME NEW s \in Posts, NEW ended \in BOOLEAN, CascadeSucceeds(s, ended)
        PROVE  sent[r] # 0 /\ idx'[r] = sent[r]
    BY <2>5 DEF CascadeSucceeds
  <2>6. ASSUME NEW s \in Posts, PersistTurn(s) PROVE sent[r] # 0 /\ idx'[r] = sent[r]
    BY <2>6 DEF PersistTurn, RequestEvaluation
  <2>7. CASE ApiRestarts
    BY <2>7 DEF ApiRestarts, InCascade, Running
  <2>8. CASE Quiet
    BY <2>8 DEF Quiet
  <2>. QED BY <1>2, <2>2, <2>3, <2>4, <2>5, <2>6, <2>7, <2>8, ServerCases
<1>. QED BY <1>1, <1>2 DEF ClientNext

(* The first mount has nothing to count.                                   *)
LEMMA FirstMountStep ==
    ASSUME PageInv, BoundInv, SentInv, FirstMount, ClientNext
    PROVE  FirstMount'
<1> USE RowsAssumption DEF FirstMount, Submitted, PageInv
<1>1. CASE PageNext
  <2>1. reloads' = 0 => reloads = 0
    BY <1>1, Disturbed
  <2>2. CASE Mount
    BY <2>1, <2>2 DEF Mount
  <2>3. CASE UNCHANGED <<page, nextTurnIndex, inFlight, lastFailed, sent, reloads>>
    BY <2>3
  <2>4. CASE /\ fetch.turns > 1 /\ nextTurnIndex' = fetch.turns
             /\ UNCHANGED <<page, sent>> /\ fetch.at = "served"
    BY <2>4
  <2>5. ASSUME NEW r \in Posts, NEW x, Sends(r, x) PROVE FirstMount'
    BY <2>5 DEF Sends, SendTurn, Requests
  <2>6. ASSUME NEW r \in Posts, TurnAnswered(r) PROVE FirstMount'
    <3>1. nextTurnIndex' # 1 /\ UNCHANGED <<page, sent>> /\ sent[r] # 0
      BY <2>6 DEF TurnAnswered, wireVars, SentInv
    <3>. QED BY <3>1
  <2>7. CASE GiveUp
    BY <2>7 DEF GiveUp, wireVars, SentInv, Requests
  <2>. QED BY <1>1, <2>2, <2>3, <2>4, <2>5, <2>6, <2>7, PageCases DEF Ask, wireVars
<1>2. CASE ServerNext
  BY <1>2, ServerStep DEF clientVars, pageVars, wireVars
<1>. QED BY <1>1, <1>2 DEF ClientNext

(* A request keeps what it was sent with.                                  *)
LEMMA SentStays ==
    ASSUME PageInv, BoundInv, SentInv, ClientNext
    PROVE  /\ \A r \in Posts : sent[r] # 0 => sent'[r] = sent[r] /\ audio'[r] = audio[r]
           /\ ~reconciledLate' => ~reconciledLate
           /\ reconciledLate' \in BOOLEAN
<1> USE DEF SentInv, PageInv, BoundInv
<1>1. CASE UNCHANGED <<sent, audio, reconciledLate>>
  BY <1>1
<1>2. CASE PageNext
  <2>1. ASSUME NEW r \in Posts, NEW x, Sends(r, x)
        PROVE  /\ \A s \in Posts : sent[s] # 0 => sent'[s] = sent[s] /\ audio'[s] = audio[s]
               /\ UNCHANGED reconciledLate
    BY <2>1 DEF Sends, SendTurn
  <2>. QED
    BY <1>1, <1>2, <2>1, PageCases DEF Mount, Ask, TurnAnswered, GiveUp, wireVars
<1>3. CASE ServerNext
  BY <1>1, <1>3, ServerStep DEF clientVars, pageVars, wireVars
<1>. QED BY <1>2, <1>3 DEF ClientNext

(* A post that works on a row had been sent for it.                        *)
LEMMA RowsSentStep ==
    ASSUME TypeOK, RequestInv, PageInv, BoundInv, SentInv, RowsSent, ClientNext
    PROVE  RowsSent'
<1>1. CASE PageNext
  <2>1. UNCHANGED <<status, turnStatus, turnResult, pc, idx>>
    BY <1>1, PageStep DEF vars, rowVars, turnVars, requestVars
  <2>2. page' # "device" => status # "none"
    <3>1. CASE Mount
      BY <3>1, RowsAssumption DEF Mount, RowsSent, RequestInv, Requests
    <3>2. CASE UNCHANGED page
      BY <3>2 DEF RowsSent
    <3>. QED BY <1>1, <3>1, <3>2, PageCases DEF Ask, TurnAnswered, GiveUp, Sends
  <2>. QED BY <2>1, <2>2, SentStays DEF RowsSent, Committed, InCascade
<1>2. CASE ServerNext
  <2>0. UNCHANGED <<page, sent>>
    BY <1>2, ServerStep DEF clientVars, pageVars, wireVars
  <2> USE <2>0, RowsAssumption DEF TypeOK, RowsSent, SentInv, Requests, Committed, InCascade
  <2>1. ASSUME NEW ended \in BOOLEAN, OpenSession(ended) PROVE RowsSent'
    <3>1. /\ status' # "none"
          /\ \A t \in TurnIndexes \ {0} :
                turnStatus'[t] = turnStatus[t] /\ turnResult'[t] = turnResult[t]
          /\ turnStatus'[0] = "complete"
      BY <2>1 DEF OpenSession, TurnIndexes
    <3>2. \A r \in Posts : pc[r] = "new" /\ pc'[r] = pc[r]
      BY <2>1 DEF OpenSession, RequestEvaluation, RequestInv
    <3>. QED BY <3>1, <3>2
  <2>2. ASSUME NEW s \in Posts, sent[s] # 0, PostTurn(s, sent[s]) PROVE RowsSent'
    BY <2>2 DEF PostTurn, rowVars, turnVars
  <2>3. ASSUME NEW s \in Posts, LookUpTurn(s) PROVE RowsSent'
    BY <2>3 DEF LookUpTurn, rowVars, turnVars
  <2>4. ASSUME NEW s \in Posts, ClaimTurn(s) PROVE RowsSent'
    <3>1. UNCHANGED <<status, turnResult, idx>> /\ sent[s] = idx[s] /\ pc[s] = "claim"
      BY <2>4 DEF ClaimTurn, rowVars
    <3>2. CASE UNCHANGED turnStatus /\ pc' = [pc EXCEPT ![s] = "integrity"]
      BY <3>1, <3>2
    <3>3. CASE turnStatus' = [turnStatus EXCEPT ![idx[s]] = "pending"]
               /\ pc' = [pc EXCEPT ![s] = "cascade"]
      BY <3>1, <3>3
    <3>. QED BY <2>4, <3>2, <3>3 DEF ClaimTurn
  <2>5. ASSUME NEW s \in Posts, NEW ended \in BOOLEAN, CascadeSucceeds(s, ended)
        PROVE  RowsSent'
    BY <2>5 DEF CascadeSucceeds, rowVars
  <2>6. ASSUME NEW s \in Posts, CascadeFails(s) \/ CascadeRaises(s) PROVE RowsSent'
    BY <2>6 DEF CascadeFails, CascadeRaises, rowVars, turnVars
  <2>7. ASSUME NEW s \in Posts, MarkTurnFailed(s) PROVE RowsSent'
    <3>1. /\ UNCHANGED <<status, turnResult, idx>>
          /\ turnStatus' = [turnStatus EXCEPT ![idx[s]] = Flush(saw[s], "failed", @)]
          /\ pc' = [pc EXCEPT ![s] = "failed"]
          /\ pc[s] = "mark"
      BY <2>7 DEF MarkTurnFailed, rowVars
    <3>2. \A t \in TurnIndexes :
            \/ turnStatus'[t] = turnStatus[t]
            \/ turnStatus'[t] = "failed" /\ turnStatus[t] # "absent"
      <4>1. idx[s] \in TurnIndexes /\ turnStatus[idx[s]] # "absent"
        BY <3>1
      <4>2. \A t \in TurnIndexes \ {idx[s]} : turnStatus'[t] = turnStatus[t]
        BY <3>1
      <4>3. turnStatus'[idx[s]] = "failed" \/ turnStatus'[idx[s]] = turnStatus[idx[s]]
        BY <3>1, <4>1 DEF Flush
      <4>. QED BY <4>1, <4>2, <4>3
    <3>. QED BY <3>1, <3>2
  <2>8. ASSUME NEW s \in Posts, PersistTurn(s) PROVE RowsSent'
    <3>1. /\ status' # "none" \/ UNCHANGED status
          /\ turnStatus' = [turnStatus EXCEPT ![idx[s]] = Flush(saw[s], "complete", @)]
          /\ turnResult' = [turnResult EXCEPT ![idx[s]] = s]
          /\ UNCHANGED idx
          /\ pc[s] = "persist"
          /\ \E new \in {"trigger", "ok"} : pc' = [pc EXCEPT ![s] = new]
      BY <2>8 DEF PersistTurn, RequestEvaluation
    <3>2. /\ \A t \in TurnIndexes \ {idx[s]} :
                turnStatus'[t] = turnStatus[t] /\ turnResult'[t] = turnResult[t]
          /\ turnStatus'[idx[s]] # "absent" /\ turnStatus[idx[s]] # "absent"
          /\ turnResult'[idx[s]] = s /\ sent[s] = idx[s]
      <4>1. idx[s] \in TurnIndexes /\ turnStatus[idx[s]] # "absent" /\ sent[s] = idx[s]
        BY <3>1
      <4>2. \A t \in TurnIndexes \ {idx[s]} :
                turnStatus'[t] = turnStatus[t] /\ turnResult'[t] = turnResult[t]
        BY <3>1
      <4>3. turnStatus'[idx[s]] \in {"complete", turnStatus[idx[s]]} /\ turnResult'[idx[s]] = s
        BY <3>1, <4>1 DEF Flush
      <4>. QED BY <4>1, <4>2, <4>3
    <3>3. \A r \in Posts \ {s} : pc'[r] = pc[r]
      BY <3>1
    <3>4. \A t \in TurnIndexes : turnStatus[t] # "absent" => turnStatus'[t] # "absent"
      BY <3>2
    <3>5. \A t \in TurnIndexes \ {0} :
            turnStatus'[t] = "complete" => turnResult'[t] \in Posts /\ sent[turnResult'[t]] = t
      BY <3>2
    <3>6. \A t \in TurnIndexes \ {0} :
            turnStatus'[t] # "absent" => \E r \in Posts : sent[r] = t
      BY <3>2
    <3>7. page # "device" => status' # "none"
      BY <3>1
    <3>8. \A r \in Posts : pc'[r] \in Committed \cup InCascade => turnStatus'[idx[r]] # "absent"
      BY <3>2, <3>3, <3>4
    <3>. QED BY <3>1, <3>5, <3>6, <3>7, <3>8
  <2>9. CASE ApiRestarts
    <3>1. UNCHANGED <<status, turnStatus, turnResult, idx>>
          /\ \A r \in Posts : pc'[r] \in Committed \cup InCascade => pc'[r] = pc[r]
      BY <2>9 DEF ApiRestarts, Running, rowVars, turnVars
    <3>. QED BY <3>1
  <2>10. CASE Quiet
    BY <2>10 DEF Quiet, Triggering, turnVars
  <2> HIDE DEF RowsSent
  <2>. QED
    BY <1>2, <2>1, <2>2, <2>3, <2>4, <2>5, <2>6, <2>7, <2>8, <2>9, <2>10, ServerCases
<1>. QED BY <1>1, <1>2 DEF ClientNext

(* A retry resends the pair it was first sent as, until a reconciliation   *)
(* moves the index after a submission.                                     *)
LEMMA PairStep ==
    ASSUME PageInv, BoundInv, SentInv, PairInv, ClientNext
    PROVE  PairInv'
<1> USE RowsAssumption DEF SentInv, PageInv, PairInv, RetryResendsPair, Requests
<1>1. CASE PageNext
  <2>0. ~reconciledLate' => ~reconciledLate
    BY <1>1, SentStays DEF ClientNext
  <2>1. CASE Mount
    BY <2>1 DEF Mount
  <2>2. CASE UNCHANGED <<nextTurnIndex, inFlight, lastFailed, sent, audio, reconciledLate>>
    BY <2>2
  <2>3. CASE /\ nextTurnIndex' = fetch.turns
             /\ reconciledLate' = (reconciledLate \/ (Submitted /\ fetch.turns # nextTurnIndex))
             /\ UNCHANGED <<inFlight, lastFailed, wireVars>>
    <3>1. SUFFICES ASSUME ~reconciledLate' PROVE PairInv'
      OBVIOUS
    <3>2. ~Submitted \/ nextTurnIndex' = nextTurnIndex
      BY <2>3, <3>1
    <3>3. CASE ~Submitted
      BY <2>0, <2>3, <3>1, <3>3 DEF Submitted, wireVars
    <3>4. CASE nextTurnIndex' = nextTurnIndex
      BY <2>0, <2>3, <3>1, <3>4 DEF wireVars
    <3>. QED BY <3>2, <3>3, <3>4
  <2>4. ASSUME NEW r \in Posts, NEW x, Sends(r, x), ~reconciledLate' PROVE PairInv'
    <3>1. /\ sent[r] = 0 /\ x # None /\ (x = r \/ x = lastFailed)
          /\ sent' = [sent EXCEPT ![r] = nextTurnIndex]
          /\ audio' = [audio EXCEPT ![r] = x]
          /\ inFlight' = r /\ UNCHANGED <<lastFailed, nextTurnIndex>>
      BY <2>4 DEF Sends, SendTurn
    <3>2. /\ sent'[r] = nextTurnIndex /\ audio'[r] = x
          /\ \A s \in Posts \ {r} : sent'[s] = sent[s] /\ audio'[s] = audio[s]
      BY <3>1
    <3>3. ASSUME NEW s \in Posts, s # r, sent[s] # 0, audio[s] = x
          PROVE  sent[s] = nextTurnIndex
      <4>1. x # r
        BY <3>1, <3>3
      <4>. QED BY <2>0, <2>4, <3>1, <3>3, <4>1
    <3>4. RetryResendsPair'
      BY <2>0, <2>4, <3>2, <3>3
    <3>5. \A s \in Posts : sent'[s] # 0 /\ audio'[s] = lastFailed' => sent'[s] = nextTurnIndex'
      BY <2>0, <2>4, <3>1, <3>2
    <3>. QED BY <3>1, <3>2, <3>4, <3>5
  <2>5. ASSUME NEW r \in Posts, TurnAnswered(r) PROVE PairInv'
    BY <2>5 DEF TurnAnswered, wireVars
  <2>6. CASE GiveUp
    BY <2>6 DEF GiveUp, wireVars
  <2> HIDE DEF PairInv
  <2>7. reconciledLate' => PairInv'
    BY DEF PairInv
  <2>. QED
    BY <1>1, <2>1, <2>2, <2>3, <2>4, <2>5, <2>6, <2>7, PageCases DEF Ask, wireVars
<1>2. CASE ServerNext
  BY <1>2, ServerStep DEF clientVars, pageVars, wireVars
<1>. QED BY <1>1, <1>2 DEF ClientNext

-----------------------------------------------------------------------------
(* A row that is there stays there.                                        *)
LEMMA RowsStay ==
    ASSUME TypeOK, RequestInv, [Next]_vars
    PROVE  \A t \in TurnIndexes : turnStatus[t] # "absent" => turnStatus'[t] # "absent"
<1> DEFINE Stay == \A t \in TurnIndexes : turnStatus[t] # "absent" => turnStatus'[t] # "absent"
<1> USE DEF TypeOK
<1>1. ASSUME NEW ended \in BOOLEAN, OpenSession(ended) PROVE Stay
  BY <1>1 DEF OpenSession
<1>2. ASSUME UNCHANGED turnStatus PROVE Stay
  BY <1>2
<1>3. ASSUME NEW r \in Posts, NEW new, new # "absent",
             turnStatus' = [turnStatus EXCEPT ![idx[r]] = new]
                \/ turnStatus' = [turnStatus EXCEPT ![idx[r]] = @]
      PROVE  Stay
  BY <1>3
<1>4. ASSUME NEW r \in Posts, ClaimTurn(r) \/ MarkTurnFailed(r) \/ PersistTurn(r) PROVE Stay
  <2>1. UNCHANGED turnStatus \/ \E new \in {"pending", "failed", "complete"} :
            turnStatus' = [turnStatus EXCEPT ![idx[r]] = new]
                \/ turnStatus' = [turnStatus EXCEPT ![idx[r]] = @]
    BY <1>4 DEF ClaimTurn, MarkTurnFailed, PersistTurn, Flush
  <2>. QED BY <1>2, <1>3, <2>1
<1>. QED
  <2> HIDE DEF Stay
  <2>1. Stay
    BY <1>1, <1>2, <1>4, StepCases
       DEF PostTurn, LookUpTurn, CascadeSucceeds, CascadeFails, CascadeRaises,
           ApiRestarts, Quiet, turnVars
  <2>. QED BY <2>1 DEF Stay

(* The rows there are, when each has all the rows below it, are those      *)
(* below their number.                                                     *)
LEMMA RowsCounted ==
    ASSUME \A t \in TurnIndexes : turnStatus[t] # "absent" => RowsBelow(t)
    PROVE  RowsBelow(Cardinality({t \in TurnIndexes : turnStatus[t] # "absent"}))
<1> DEFINE There == {t \in TurnIndexes : turnStatus[t] # "absent"}
<1>1. SUFFICES ASSUME NEW u \in TurnIndexes, turnStatus[u] = "absent",
                      u < Cardinality(There)
               PROVE  FALSE
  BY DEF RowsBelow
<1>2. u \in Nat
  BY <1>1, RowsAssumption DEF TurnIndexes
<1>3. There \subseteq 0..(u - 1)
  BY <1>1, <1>2, RowsAssumption DEF RowsBelow, TurnIndexes
<1>4. IsFiniteSet(0..(u - 1)) /\ Cardinality(0..(u - 1)) = u
  BY <1>2, FS_Interval
<1>5. Cardinality(There) <= u
  BY <1>3, <1>4, FS_Subset
<1>6. Cardinality(There) \in Nat
  BY RowCount
<1>. QED BY <1>1, <1>2, <1>5, <1>6

(* Nothing is sent, fetched or counted past a row that is missing.         *)
LEMMA BelowStep ==
    ASSUME TypeOK, RequestInv, RowInv, PageInv, BoundInv, SentInv, RowsSent, PairInv,
           BelowInv, ClientNext
    PROVE  BelowInv'
<1> USE DEF BelowInv, PageInv, TypeOK
<1>0. TurnIndexes \subseteq Nat
  BY RowsAssumption DEF TurnIndexes
<1>1. CASE PageNext
  <2>0. UNCHANGED <<status, turnStatus, turnResult, pc, idx>>
    BY <1>1, PageStep DEF vars, rowVars, turnVars, requestVars
  <2>1. ~reconciledLate' => ~reconciledLate
    BY <1>1, SentStays DEF ClientNext
  <2> DEFINE Below(n) == \A t \in TurnIndexes : t < n => turnStatus[t] # "absent"
  <2>2. SUFFICES ASSUME ~reconciledLate'
                 PROVE  /\ \A r \in Posts : Below(sent'[r])
                        /\ page' = "interview" => Below(nextTurnIndex')
                        /\ fetch'.at = "served" => Below(fetch'.turns)
    BY <2>0 DEF RowsBelow
  <2>3. /\ \A r \in Posts : Below(sent[r])
        /\ page = "interview" => Below(nextTurnIndex)
        /\ fetch.at = "served" => Below(fetch.turns)
    BY <2>1, <2>2 DEF RowsBelow
  <2> DEFINE Goal == /\ \A r \in Posts : Below(sent'[r])
                     /\ page' = "interview" => Below(nextTurnIndex')
                     /\ fetch'.at = "served" => Below(fetch'.turns)
  <2>4. CASE Mount
    <3>1. status # "none"
      BY <2>4, RowsAssumption DEF Mount, RowsSent, RequestInv, Requests
    <3>2. Below(1)
      BY <1>0, <3>1 DEF RowInv
    <3>. QED BY <2>3, <2>4, <3>2 DEF Mount
  <2>5. CASE UNCHANGED <<sent, page, nextTurnIndex>> /\ fetch'.at # "served"
    BY <2>3, <2>5
  <2>6. CASE UNCHANGED <<sent, page, nextTurnIndex>> /\ fetch' = fetch
    BY <2>3, <2>6
  <2>7. CASE UNCHANGED <<sent, page, nextTurnIndex>> /\ ServeSession
    <3>1. ASSUME NEW t \in TurnIndexes, turnStatus[t] # "absent" PROVE RowsBelow(t)
      <4>1. CASE t = 0
        BY <1>0, <4>1 DEF RowsBelow
      <4>2. CASE t # 0
        BY <2>3, <3>1, <4>2 DEF RowsSent, RowsBelow
      <4>. QED BY <4>1, <4>2
    <3>2. RowsBelow(Cardinality({t \in TurnIndexes : turnStatus[t] # "absent"}))
      BY <3>1, RowsCounted
    <3>3. fetch'.turns = Cardinality({t \in TurnIndexes : turnStatus[t] # "absent"})
      BY <2>7 DEF ServeSession
    <3>. QED BY <2>3, <2>7, <3>2, <3>3 DEF RowsBelow
  <2>8. CASE Ask
    <3> HIDE DEF Goal, Below
    <3>. QED BY <2>5, <2>6, <2>7, <2>8 DEF Ask, wireVars, Goal
  <2>9. CASE /\ fetch.at = "served" /\ nextTurnIndex' = fetch.turns
             /\ fetch' = NotAsked /\ UNCHANGED <<page, wireVars>>
    BY <2>3, <2>9 DEF NotAsked, wireVars
  <2>10. ASSUME NEW r \in Posts, NEW x, Sends(r, x) PROVE Goal
    <3>1. /\ page = "interview" /\ sent' = [sent EXCEPT ![r] = nextTurnIndex]
          /\ UNCHANGED <<page, nextTurnIndex, fetch>>
      BY <2>10 DEF Sends, SendTurn
    <3>2. \A s \in Posts : sent'[s] \in {sent[s], nextTurnIndex}
      BY <3>1
    <3>. QED BY <2>3, <3>1, <3>2
  <2>11. ASSUME NEW r \in Posts, TurnAnswered(r) PROVE Goal
    <3>1. /\ inFlight = r /\ pc[r] \in {"ok", "cached"}
          /\ nextTurnIndex' = nextTurnIndex + 1
          /\ UNCHANGED <<page, fetch, sent>>
      BY <2>11 DEF TurnAnswered, wireVars
    <3>2. sent[r] = nextTurnIndex
      BY <2>1, <2>2, <3>1, RowsAssumption DEF PairInv, Requests
    <3>3. idx[r] = sent[r] /\ turnStatus[idx[r]] # "absent"
      BY <3>1 DEF SentInv, RowsSent, Committed
    <3>4. page = "interview" => Below(nextTurnIndex + 1)
      BY <1>0, <2>3, <3>2, <3>3
    <3>. QED BY <2>3, <3>1, <3>4
  <2>12. CASE GiveUp
    BY <2>6, <2>12 DEF GiveUp, wireVars
  <2>13. Goal
    <3> HIDE DEF Goal
    <3>. QED
      BY <1>1, <2>4, <2>6, <2>8, <2>9, <2>10, <2>11, <2>12, PageCases DEF wireVars, Goal
  <2>. QED BY <2>13
<1>2. CASE ServerNext
  <2>1. UNCHANGED <<sent, page, nextTurnIndex, fetch, reconciledLate>>
    BY <1>2, ServerStep DEF clientVars, pageVars, wireVars
  <2>2. \A t \in TurnIndexes : turnStatus[t] # "absent" => turnStatus'[t] # "absent"
    BY <1>2, ServerStep, RowsStay
  <2>. QED BY <2>1, <2>2 DEF RowsBelow
<1>. QED BY <1>1, <1>2 DEF ClientNext

(* The index passes only turns that are there, and on the first mount only *)
(* turns that were answered or that failed.                                *)
LEMMA IndexStep ==
    ASSUME TypeOK, RequestInv, RowInv, OneAnswer, PageInv, BoundInv, SentInv, FirstMount,
           RowsSent, PairInv, BelowInv, IndexFollowsRows, ClientNext, BelowInv', BoundInv'
    PROVE  IndexFollowsRows'
<1>0. TurnIndexes = 0..MaxTurn /\ MaxTurn \in Nat
  BY RowsAssumption DEF TurnIndexes
<1>1. nextTurnIndex' \in Nat
  BY PageStep, ServerStep DEF ClientNext, PageInv, clientVars, pageVars, wireVars
<1>2. ASSUME ~reconciledLate'
      PROVE  \A t \in 1..(nextTurnIndex' - 1) : t \in TurnIndexes \ {0} /\ t < nextTurnIndex'
  <2>1. nextTurnIndex' <= MaxTurn + 1
    BY <1>2 DEF BoundInv
  <2>2. PICK n \in Nat : n = nextTurnIndex'
    BY <1>1
  <2>3. n <= MaxTurn + 1
    BY <2>1, <2>2
  <2>4. \A t \in 1..(n - 1) : t \in TurnIndexes \ {0} /\ t < n
    BY <1>0, <2>3
  <2>. QED BY <2>2, <2>4
<1>3. SUFFICES ASSUME page' = "interview", ~reconciledLate',
                      NEW t \in TurnIndexes \ {0}, t < nextTurnIndex'
               PROVE  /\ turnStatus'[t] # "absent"
                      /\ turnStatus'[t] # "complete" => t \in FailedTurns' \/ reloads' > 0
  BY <1>2 DEF IndexFollowsRows
<1>4. turnStatus'[t] # "absent"
  BY <1>3 DEF BelowInv, RowsBelow
<1>5. ~reconciledLate
  BY <1>3, SentStays
<1>6. ASSUME page = "interview", t < nextTurnIndex, turnStatus[t] # "complete"
      PROVE  t \in FailedTurns \/ reloads > 0
  BY <1>0, <1>3, <1>5, <1>6 DEF IndexFollowsRows, PageInv
<1>7. ASSUME PageNext, turnStatus'[t] # "complete"
      PROVE  t \in FailedTurns' \/ reloads' > 0
  <2>1. UNCHANGED <<turnStatus, pc, idx>> /\ FailedTurns' = FailedTurns
    BY <1>7, PageStep DEF vars, turnVars, requestVars, FailedTurns
  <2>2. reloads \in Nat /\ reloads' \in Nat /\ (reloads > 0 => reloads' > 0)
    BY <1>7, Disturbed DEF BoundInv
  <2>3. CASE Mount
    BY <1>0, <1>3, <2>3 DEF Mount
  <2>4. CASE UNCHANGED <<page, nextTurnIndex>>
    BY <1>3, <1>6, <1>7, <2>1, <2>2, <2>4
  <2>5. CASE /\ fetch.at = "served" /\ fetch.turns > 1
             /\ nextTurnIndex' = fetch.turns
             /\ reconciledLate' = (reconciledLate \/ (Submitted /\ fetch.turns # nextTurnIndex))
             /\ UNCHANGED <<page, reloads>>
    <3>1. CASE fetch.turns = nextTurnIndex
      BY <2>4, <2>5, <3>1
    <3>2. CASE ~Submitted /\ reloads = 0
      <4>1. \A r \in Posts : sent[r] = 0
        BY <1>3, <2>5, <3>2 DEF FirstMount
      <4>2. turnStatus[t] = "absent"
        BY <1>3, <4>1 DEF RowsSent
      <4>. QED BY <1>4, <2>1, <4>2
    <3>3. CASE reloads # 0
      BY <2>2, <2>5, <3>3
    <3>. QED BY <1>3, <2>5, <3>1, <3>2, <3>3
  <2>6. ASSUME NEW r \in Posts, TurnAnswered(r) PROVE t \in FailedTurns \/ reloads' > 0
    <3>1. /\ inFlight = r /\ pc[r] \in {"ok", "cached"}
          /\ nextTurnIndex' = nextTurnIndex + 1
          /\ UNCHANGED page
      BY <2>6 DEF TurnAnswered
    <3>2. sent[r] = nextTurnIndex
      BY <1>5, <3>1, RowsAssumption DEF PairInv, Requests
    <3>3. idx[r] = sent[r]
      BY <3>1 DEF SentInv
    <3>4. idx[r] \in FailedTurns \/ turnStatus[idx[r]] = "complete"
      BY <3>1 DEF OneAnswer, Committed
    <3>5. t < nextTurnIndex \/ t = nextTurnIndex
      BY <1>0, <1>3, <3>1 DEF PageInv
    <3>. QED BY <1>3, <1>6, <1>7, <2>1, <2>2, <3>1, <3>2, <3>3, <3>4, <3>5
  <2>. QED
    BY <1>7, <2>1, <2>3, <2>4, <2>5, <2>6, PageCases DEF Ask, GiveUp, Sends
<1>8. ASSUME ServerNext, turnStatus'[t] # "complete"
      PROVE  t \in FailedTurns' \/ reloads' > 0
  <2>1. Next /\ UNCHANGED <<page, nextTurnIndex, reloads>>
    BY <1>8, ServerStep DEF clientVars, pageVars
  <2>2. turnStatus[t] # "complete" \/ t \in FailedTurns
    BY <1>3, <1>8, <2>1, CompleteTurnKept
  <2>3. FailedTurns \subseteq FailedTurns'
    BY <2>1, FailedMonotone
  <2>. QED BY <1>3, <1>6, <2>1, <2>2, <2>3
<1>. QED BY <1>4, <1>7, <1>8 DEF ClientNext

(* What the page took for answered stays answered.                         *)
LEMMA AcceptedStep ==
    ASSUME TypeOK, RequestInv, RowInv, OneAnswer, PageInv, BoundInv, SentInv, RowsSent,
           AcceptedAnswersKept, ClientNext
    PROVE  AcceptedAnswersKept'
<1> DEFINE Good(a) ==
      \/ \E t \in TurnIndexes \ {0} :
            turnStatus[t] = "complete" /\ a = <<t, audio[turnResult[t]]>>
      \/ a[1] \in FailedTurns
      \/ \E r \in Posts : sent[r] = a[1] /\ audio[r] # a[2]
<1>1. AcceptedAnswersKept <=> \A a \in accepted : Good(a)
  BY DEF AcceptedAnswersKept, Kept
<1>2. AcceptedAnswersKept' <=> \A a \in accepted' : Good(a)'
  BY DEF AcceptedAnswersKept, Kept
<1>3. [Next]_vars
  BY PageStep, ServerStep DEF ClientNext
<1>4. FailedTurns \subseteq FailedTurns'
  BY <1>3, FailedMonotone
<1>5. \A r \in Posts : sent[r] # 0 => sent'[r] = sent[r] /\ audio'[r] = audio[r]
  BY SentStays
<1>6. accepted \subseteq (TurnIndexes \ {0}) \X Posts
  BY DEF BoundInv
<1>7. ASSUME NEW a \in accepted, Good(a) PROVE Good(a)'
  <2>1. CASE a[1] \in FailedTurns
    BY <1>4, <2>1
  <2>2. ASSUME NEW t \in TurnIndexes \ {0}, turnStatus[t] = "complete",
               a = <<t, audio[turnResult[t]]>>
        PROVE  Good(a)'
    <3>1. CASE t \in FailedTurns
      BY <2>1, <2>2, <3>1
    <3>2. CASE t \notin FailedTurns
      <4>1. turnStatus'[t] = "complete" /\ turnResult'[t] = turnResult[t]
        BY <1>3, <2>2, <3>2, CompleteTurnKept
      <4>2. turnResult[t] \in Posts /\ sent[turnResult[t]] = t
        BY <2>2 DEF RowsSent
      <4>3. audio'[turnResult'[t]] = audio[turnResult[t]]
        BY <1>5, <2>2, <4>1, <4>2
      <4>. QED BY <2>2, <4>1, <4>3
    <3>. QED BY <3>1, <3>2
  <2>3. ASSUME NEW r \in Posts, sent[r] = a[1], audio[r] # a[2] PROVE Good(a)'
    BY <1>5, <1>6, <1>7, <2>3
  <2>. QED BY <1>7, <2>1, <2>2, <2>3
<1>8. CASE accepted' = accepted
  BY <1>1, <1>2, <1>7, <1>8
<1>9. ASSUME NEW r \in Posts, TurnAnswered(r), NEW a, a = <<sent[r], audio[r]>>
      PROVE  Good(a)'
  <2>0. UNCHANGED <<turnStatus, turnResult, pc, idx, sent, audio>>
    BY <1>9 DEF TurnAnswered, vars, turnVars, requestVars, wireVars
  <2>1. /\ pc[r] \in {"ok", "cached"} /\ sent[r] # 0 /\ idx[r] = sent[r]
        /\ sent[r] \in TurnIndexes \ {0}
    BY <1>9 DEF TurnAnswered, SentInv, PageInv
  <2>2. CASE idx[r] \in FailedTurns
    BY <1>4, <1>9, <2>0, <2>1, <2>2
  <2>3. CASE idx[r] \notin FailedTurns
    <3>1. turnStatus[sent[r]] = "complete"
      BY <2>1, <2>3 DEF OneAnswer, Committed
    <3>2. turnResult[sent[r]] \in Posts /\ sent[turnResult[sent[r]]] = sent[r]
      BY <2>1, <3>1 DEF RowsSent
    <3>3. CASE audio[turnResult[sent[r]]] = audio[r]
      BY <1>9, <2>0, <2>1, <3>1, <3>3
    <3>4. CASE audio[turnResult[sent[r]]] # audio[r]
      BY <1>9, <2>0, <3>2, <3>4
    <3>. QED BY <3>3, <3>4
  <2>. QED BY <2>2, <2>3
<1> HIDE DEF Good
<1>10. ASSUME NEW r \in Posts, TurnAnswered(r) PROVE AcceptedAnswersKept'
  <2>1. accepted' = accepted \cup {<<sent[r], audio[r]>>}
    BY <1>10 DEF TurnAnswered
  <2>. QED BY <1>1, <1>2, <1>7, <1>9, <1>10, <2>1
<1>11. CASE ServerNext
  BY <1>8, <1>11, ServerStep DEF clientVars
<1>. QED
  BY <1>8, <1>10, <1>11, PageCases DEF ClientNext, Mount, Ask, GiveUp, Sends

(* One request of a patient page at a time is on the server.               *)
LEMMA OneOpenStep ==
    ASSUME TypeOK, RequestInv, PageInv, BoundInv, SentInv, FirstMount, PatientInv,
           ClientNext, drops' = 0, reloads' = 0
    PROVE  /\ drops = 0 /\ reloads = 0
           /\ (\A r, s \in Posts : Open(r) /\ Open(s) => r = s)'
           /\ (page = "interview" => \A r \in Posts : Open(r) => r = inFlight)'
<1> DEFINE Alone == /\ \A r, s \in Posts : Open(r) /\ Open(s) => r = s
                    /\ page = "interview" => \A r \in Posts : Open(r) => r = inFlight
<1>1. drops = 0 /\ reloads = 0
  <2>1. CASE PageNext
    BY <2>1, Disturbed
  <2>2. CASE ServerNext
    BY <2>2, ServerStep DEF clientVars
  <2>. QED BY <2>1, <2>2 DEF ClientNext
<1>2. Alone
  BY <1>1 DEF PatientInv
<1> SUFFICES Alone'
  BY <1>1
<1> USE DEF Open
<1>3. CASE PageNext
  <2>1. UNCHANGED pc
    BY <1>3, PageStep DEF vars, requestVars
  <2>2. CASE Mount
    BY <1>1, <1>2, <2>1, <2>2 DEF Mount, FirstMount
  <2>3. CASE UNCHANGED <<page, inFlight, sent>>
    BY <1>2, <2>1, <2>3
  <2>4. ASSUME NEW r \in Posts, NEW x, Sends(r, x) PROVE Alone'
    <3>1. /\ page = "interview" /\ inFlight = None
          /\ sent' = [sent EXCEPT ![r] = nextTurnIndex] /\ inFlight' = r
      BY <2>4 DEF Sends, SendTurn
    <3>2. \A s \in Posts : ~Open(s)
      BY <1>2, <3>1, RowsAssumption DEF Requests
    <3>3. \A s \in Posts : Open(s)' => s = r
      BY <2>1, <3>1, <3>2 DEF PageInv
    <3>. QED BY <3>1, <3>3
  <2>5. CASE /\ inFlight' = None /\ inFlight # None
             /\ pc[inFlight] \in Settled /\ UNCHANGED <<page, sent>>
    BY <1>2, <2>1, <2>5 DEF SentInv
  <2>6. ASSUME NEW r \in Posts, TurnAnswered(r) PROVE Alone'
    <3>1. CASE inFlight # None
      BY <2>5, <2>6, <3>1 DEF TurnAnswered, wireVars, Settled
    <3>. QED BY <2>6, <3>1, RowsAssumption DEF TurnAnswered, Requests
  <2>7. CASE GiveUp
    BY <2>5, <2>7 DEF GiveUp, wireVars
  <2> HIDE DEF Alone
  <2>. QED BY <1>3, <2>2, <2>3, <2>4, <2>6, <2>7, PageCases DEF Ask, wireVars
<1>4. CASE ServerNext
  <2>1. UNCHANGED <<page, inFlight, sent>>
    BY <1>4, ServerStep DEF clientVars, pageVars, wireVars
  <2>2. SUFFICES ASSUME NEW r \in Posts, pc[r] \in Settled PROVE pc'[r] \in Settled
    BY <1>2, <2>1
  <2> USE <2>2, RowsAssumption DEF Settled, TypeOK, Requests
  <2>3. ASSUME NEW ended \in BOOLEAN, OpenSession(ended) PROVE pc'[r] \in Settled
    BY <2>3 DEF OpenSession, RequestInv
  <2>4. ASSUME NEW s \in Posts, pc[s] \notin Settled, \E v : pc' = [pc EXCEPT ![s] = v]
        PROVE  pc'[r] \in Settled
    BY <2>4
  <2>5. ASSUME NEW s \in Posts,
               \/ PostTurn(s, sent[s]) \/ LookUpTurn(s) \/ ClaimTurn(s) \/ CascadeFails(s)
               \/ CascadeRaises(s) \/ MarkTurnFailed(s) \/ PersistTurn(s)
               \/ \E ended \in BOOLEAN : CascadeSucceeds(s, ended)
        PROVE  pc'[r] \in Settled
    <3>1. pc[s] \notin Settled
      BY <2>5 DEF PostTurn, LookUpTurn, ClaimTurn, CascadeFails, CascadeRaises,
                  MarkTurnFailed, PersistTurn, CascadeSucceeds, InCascade
    <3>2. \E v : pc' = [pc EXCEPT ![s] = v]
      BY <2>5 DEF PostTurn, LookUpTurn, ClaimTurn, CascadeFails, CascadeRaises,
                  MarkTurnFailed, PersistTurn, CascadeSucceeds, RequestEvaluation
    <3>. QED BY <2>4, <3>1, <3>2
  <2>6. CASE ApiRestarts
    BY <2>6 DEF ApiRestarts, Running, InCascade
  <2>7. CASE Quiet
    BY <2>7 DEF Quiet
  <2>. QED BY <1>4, <2>3, <2>5, <2>6, <2>7, ServerCases
<1>. QED BY <1>3, <1>4 DEF ClientNext

(* A request that is alone on the server finds its row as it left it, and  *)
(* no row with an answer is touched.                                       *)
LEMMA UntouchedStep ==
    ASSUME TypeOK, RequestInv, PageInv, SentInv, ServerNext,
           \A r, s \in Posts : Open(r) /\ Open(s) => r = s,
           \A r \in Posts : Untouched(r)
    PROVE  (\A r \in Posts : Untouched(r))'
<1> DEFINE Goal == (\A r \in Posts : Untouched(r))'
<1> USE RowsAssumption DEF TypeOK, Requests, Committed, InCascade, TurnStatuses
<1>1. ASSUME NEW s \in Posts, pc[s] \in {"lookup", "claim", "cascade", "persist", "mark"},
             NEW r \in Posts, r # s
      PROVE  pc[r] \notin {"claim", "cascade", "persist", "mark"}
  BY <1>1 DEF SentInv, Open, Settled
<1>2. ASSUME NEW s \in Posts, NEW v, pc' = [pc EXCEPT ![s] = v],
             pc[s] \in {"lookup", "claim", "cascade", "persist", "mark"},
             UNCHANGED idx,
             \A t \in TurnIndexes \ {idx[s]} :
                turnStatus'[t] = turnStatus[t] /\ turnResult'[t] = turnResult[t],
             \A r \in Posts \ {s} : saw'[r] = saw[r] /\ got'[r] = got[r],
             \/ UNCHANGED <<turnStatus, turnResult>>
             \/ turnStatus[idx[s]] # "complete",
             Untouched(s)'
      PROVE  Goal
  <2>1. SUFFICES ASSUME NEW r \in Posts, r # s PROVE Untouched(r)'
    BY <1>2
  <2>2. pc'[r] = pc[r] /\ pc[r] \notin {"claim", "cascade", "persist", "mark"}
    BY <1>1, <1>2, <2>1
  <2>3. Answer(r)' = Answer(r)
    BY <1>2, <2>1, <2>2 DEF Answer
  <2>4. ASSUME pc[r] \in Committed
        PROVE  turnStatus'[idx[r]] = "complete" /\ turnResult'[idx[r]] = Answer(r)
    <3>1. turnStatus[idx[r]] = "complete" /\ turnResult[idx[r]] = Answer(r)
      BY <2>4 DEF Untouched
    <3>2. CASE idx[r] = idx[s]
      BY <1>2, <3>1, <3>2
    <3>3. CASE idx[r] # idx[s]
      BY <1>2, <3>1, <3>3
    <3>. QED BY <3>2, <3>3
  <2>. QED BY <1>2, <2>2, <2>3, <2>4 DEF Untouched
<1>3. ASSUME NEW ended \in BOOLEAN, OpenSession(ended) PROVE Goal
  <2>1. \A r \in Posts : pc'[r] = "new"
    BY <1>3 DEF OpenSession, RequestEvaluation, RequestInv
  <2>. QED BY <2>1 DEF Untouched
<1>4. ASSUME NEW s \in Posts, PostTurn(s, sent[s]) PROVE Goal
  <2>1. /\ \A r \in Posts \ {s} : pc'[r] = pc[r] /\ idx'[r] = idx[r]
        /\ pc'[s] \in {"lookup", "closed"}
        /\ UNCHANGED <<turnStatus, turnResult, saw, got>>
    BY <1>4 DEF PostTurn, turnVars
  <2>. QED BY <2>1 DEF Untouched, Answer
<1>5. ASSUME NEW s \in Posts, LookUpTurn(s) PROVE Goal
  <2>1. PICK v : pc' = [pc EXCEPT ![s] = v]
    BY <1>5 DEF LookUpTurn
  <2>2. /\ UNCHANGED <<turnStatus, turnResult, idx>> /\ pc[s] = "lookup"
        /\ \A r \in Posts \ {s} : saw'[r] = saw[r] /\ got'[r] = got[r]
        /\ pc'[s] \in {"cached", "conflict", "claim"}
        /\ saw'[s] = turnStatus[idx[s]]
        /\ pc'[s] = "cached" => turnStatus[idx[s]] = "complete" /\ got'[s] = turnResult[idx[s]]
        /\ pc'[s] = "claim" => turnStatus[idx[s]] \notin {"complete", "pending"}
    BY <1>5 DEF LookUpTurn, turnVars
  <2>3. Untouched(s)'
    BY <2>2 DEF Untouched, Answer
  <2>. QED BY <1>2, <2>1, <2>2, <2>3
<1>6. ASSUME NEW s \in Posts, ClaimTurn(s) PROVE Goal
  <2>1. PICK v \in {"cascade", "integrity"} : pc' = [pc EXCEPT ![s] = v]
    BY <1>6 DEF ClaimTurn
  <2>2. /\ UNCHANGED <<turnResult, idx, saw, got>> /\ pc[s] = "claim"
        /\ turnStatus[idx[s]] \in {"absent", "failed"}
    BY <1>6 DEF ClaimTurn, Untouched
  <2>3. \/ v = "cascade" /\ turnStatus' = [turnStatus EXCEPT ![idx[s]] = "pending"]
        \/ v = "integrity" /\ UNCHANGED turnStatus
    BY <1>6, <2>1 DEF ClaimTurn
  <2>4. Untouched(s)'
    BY <2>1, <2>2, <2>3 DEF Untouched
  <2>5. \A t \in TurnIndexes \ {idx[s]} : turnStatus'[t] = turnStatus[t]
    BY <2>3
  <2>. QED BY <1>2, <2>1, <2>2, <2>4, <2>5
<1>7. ASSUME NEW s \in Posts,
             \/ \E ended \in BOOLEAN : CascadeSucceeds(s, ended)
             \/ CascadeFails(s)
      PROVE  Goal
  <2>1. PICK v \in {"persist", "mark"} : pc' = [pc EXCEPT ![s] = v]
    BY <1>7 DEF CascadeSucceeds, CascadeFails
  <2>2. /\ UNCHANGED <<turnStatus, turnResult, idx, got>> /\ pc[s] = "cascade"
        /\ saw' = [saw EXCEPT ![s] = turnStatus[idx[s]]]
    BY <1>7 DEF CascadeSucceeds, CascadeFails, turnVars
  <2>3. Untouched(s)'
    BY <2>1, <2>2 DEF Untouched
  <2>. QED BY <1>2, <2>1, <2>2, <2>3
<1>8. ASSUME NEW s \in Posts, CascadeRaises(s) PROVE Goal
  <2>1. /\ UNCHANGED <<turnStatus, turnResult, idx, saw, got>>
        /\ pc' = [pc EXCEPT ![s] = "stranded"] /\ pc[s] \in InCascade
    BY <1>8 DEF CascadeRaises, turnVars
  <2>2. Untouched(s)'
    BY <2>1 DEF Untouched
  <2>. QED BY <1>2, <2>1, <2>2
<1>9. ASSUME NEW s \in Posts, MarkTurnFailed(s) PROVE Goal
  <2>1. /\ UNCHANGED <<turnResult, idx, saw, got>>
        /\ pc' = [pc EXCEPT ![s] = "failed"] /\ pc[s] = "mark"
        /\ turnStatus[idx[s]] = "pending" /\ saw[s] = "pending"
        /\ turnStatus' = [turnStatus EXCEPT ![idx[s]] = "failed"]
    BY <1>9 DEF MarkTurnFailed, Untouched, Flush
  <2>2. Untouched(s)'
    BY <2>1 DEF Untouched
  <2>. QED BY <1>2, <2>1, <2>2
<1>10. ASSUME NEW s \in Posts, PersistTurn(s) PROVE Goal
  <2>1. PICK v \in {"trigger", "ok"} : pc' = [pc EXCEPT ![s] = v]
    BY <1>10 DEF PersistTurn, RequestEvaluation
  <2>2. /\ UNCHANGED <<idx, saw, got>> /\ pc[s] = "persist"
        /\ turnStatus[idx[s]] = "pending"
        /\ turnStatus' = [turnStatus EXCEPT ![idx[s]] = "complete"]
        /\ turnResult' = [turnResult EXCEPT ![idx[s]] = s]
    BY <1>10 DEF PersistTurn, Untouched, Flush
  <2>3. Untouched(s)'
    BY <2>1, <2>2 DEF Untouched, Answer
  <2>4. \A t \in TurnIndexes \ {idx[s]} :
            turnStatus'[t] = turnStatus[t] /\ turnResult'[t] = turnResult[t]
    BY <2>2
  <2>. QED BY <1>2, <2>1, <2>2, <2>3, <2>4
<1>11. ASSUME ApiRestarts PROVE Goal
  <2>1. /\ UNCHANGED <<turnStatus, turnResult, idx, saw, got>>
        /\ \A r \in Posts : pc'[r] \in {pc[r], "stranded", "dead"}
    BY <1>11 DEF ApiRestarts, turnVars
  <2>. QED BY <2>1 DEF Untouched, Answer
<1>12. ASSUME Quiet PROVE Goal
  <2>1. UNCHANGED <<turnStatus, turnResult, idx, saw, got>>
    BY <1>12 DEF Quiet, turnVars
  <2>2. \A r \in Posts : \/ pc'[r] = pc[r]
                         \/ pc[r] \in {"trigger", "record"} /\ pc'[r] \in Triggering
    BY <1>12 DEF Quiet
  <2>. QED BY <2>1, <2>2 DEF Untouched, Answer, Triggering
<1> HIDE DEF Goal, TypeOK, Requests, Committed, InCascade, TurnStatuses
<1>13. ASSUME NEW s \in Posts,
              \/ PostTurn(s, sent[s]) \/ LookUpTurn(s) \/ ClaimTurn(s) \/ CascadeFails(s)
              \/ CascadeRaises(s) \/ MarkTurnFailed(s) \/ PersistTurn(s)
              \/ \E ended \in BOOLEAN : CascadeSucceeds(s, ended)
       PROVE  Goal
  BY <1>4, <1>5, <1>6, <1>7, <1>8, <1>9, <1>10, <1>13
<1>14. Goal
  BY <1>3, <1>11, <1>12, <1>13, ServerCases
<1>. QED BY <1>14 DEF Goal

LEMMA PatientStep ==
    ASSUME TypeOK, RequestInv, PageInv, BoundInv, SentInv, FirstMount, PatientInv, ClientNext
    PROVE  PatientInv'
<1>1. SUFFICES ASSUME drops' = 0, reloads' = 0
               PROVE  /\ (\A r, s \in Posts : Open(r) /\ Open(s) => r = s)'
                      /\ (page = "interview" => \A r \in Posts : Open(r) => r = inFlight)'
                      /\ (\A r \in Posts : Untouched(r))'
  BY DEF PatientInv
<1>2. /\ drops = 0 /\ reloads = 0
      /\ (\A r, s \in Posts : Open(r) /\ Open(s) => r = s)'
      /\ (page = "interview" => \A r \in Posts : Open(r) => r = inFlight)'
  BY <1>1, OneOpenStep
<1>3. /\ \A r, s \in Posts : Open(r) /\ Open(s) => r = s
      /\ \A r \in Posts : Untouched(r)
  BY <1>2 DEF PatientInv
<1>4. CASE PageNext
  <2>1. UNCHANGED <<turnStatus, turnResult, pc, idx, saw, got>>
    BY <1>4, PageStep DEF vars, turnVars, requestVars
  <2>2. (\A r \in Posts : Untouched(r))'
    BY <1>3, <2>1 DEF Untouched, Answer
  <2>. QED BY <1>2, <2>2
<1>5. CASE ServerNext
  <2>1. (\A r \in Posts : Untouched(r))'
    BY <1>3, <1>5, UntouchedStep
  <2>. QED BY <1>2, <2>1
<1>. QED BY <1>4, <1>5 DEF ClientNext

-----------------------------------------------------------------------------
(* The page counts no further than the session can have turns.             *)
LEMMA BoundStep ==
    ASSUME TypeOK, RequestInv, PageInv, SentInv, PairInv, BoundInv, ClientNext
    PROVE  BoundInv'
<1>0. /\ TurnIndexes = 0..MaxTurn /\ MaxTurn \in Nat /\ MaxDisturbances \in Nat
      /\ None \notin Enders /\ None \notin Posts
  BY RowsAssumption, ClientAssumption DEF TurnIndexes, Requests
<1>1. CASE ServerNext
  BY <1>1, ServerStep DEF BoundInv, clientVars, pageVars, wireVars
<1>2. CASE PageNext
  <2> USE <1>0 DEF PageInv
  <2>1. /\ nextTurnIndex' <= MaxTurn + 2
        /\ inFlight' # None \/ ~reconciledLate' => nextTurnIndex' <= MaxTurn + 1
        /\ fetch'.turns <= MaxTurn + 1
    <3>0. /\ nextTurnIndex <= MaxTurn + 2 /\ fetch.turns <= MaxTurn + 1
          /\ inFlight # None \/ ~reconciledLate => nextTurnIndex <= MaxTurn + 1
      BY DEF BoundInv
    <3>1. CASE Mount
      BY <3>1 DEF Mount
    <3>2. CASE Ask
      BY <3>0, <3>2 DEF Ask
    <3>3. CASE UNCHANGED <<nextTurnIndex, fetch, inFlight, reconciledLate>>
      BY <3>0, <3>3
    <3>4. CASE nextTurnIndex' = fetch.turns /\ fetch' = NotAsked
      BY <3>0, <3>4 DEF NotAsked
    <3>5. ASSUME NEW r \in Posts, NEW x, Sends(r, x)
          PROVE  nextTurnIndex' <= MaxTurn /\ nextTurnIndex' \in Nat /\ UNCHANGED fetch
      BY <3>5 DEF Sends, SendTurn
    <3>6. ASSUME NEW r \in Posts, TurnAnswered(r)
          PROVE  /\ nextTurnIndex' <= MaxTurn + 2 /\ UNCHANGED fetch /\ inFlight' = None
                 /\ ~reconciledLate' => nextTurnIndex' <= MaxTurn + 1
      <4>1. /\ inFlight = r /\ inFlight' = None /\ UNCHANGED <<fetch, reconciledLate>>
            /\ nextTurnIndex' = nextTurnIndex + 1
        BY <3>6 DEF TurnAnswered
      <4>2. nextTurnIndex <= MaxTurn + 1
        BY <3>0, <4>1
      <4>3. ~reconciledLate => nextTurnIndex <= MaxTurn
        BY <4>1 DEF PairInv
      <4>. QED BY <4>1, <4>2, <4>3
    <3>7. CASE GiveUp
      BY <3>0, <3>7 DEF GiveUp
    <3>8. ASSUME NEW r \in Posts, TurnAnswered(r) \/ \E x : Sends(r, x)
          PROVE  /\ nextTurnIndex' <= MaxTurn + 2
                 /\ inFlight' # None \/ ~reconciledLate' => nextTurnIndex' <= MaxTurn + 1
                 /\ fetch'.turns <= MaxTurn + 1
      BY <3>0, <3>5, <3>6, <3>8
    <3>. QED BY <1>2, <3>1, <3>2, <3>3, <3>4, <3>7, <3>8, PageCases
  <2>2. /\ submitError' \in BOOLEAN /\ leaving' \in BOOLEAN /\ reconciledLate' \in BOOLEAN
    <3>0. submitError \in BOOLEAN /\ leaving \in BOOLEAN /\ reconciledLate \in BOOLEAN
      BY DEF BoundInv
    <3>1. reconciledLate' \in BOOLEAN
      BY <1>2, SentStays DEF ClientNext
    <3>2. ASSUME NEW r \in Posts, TurnAnswered(r)
          PROVE  submitError' \in BOOLEAN /\ leaving' \in BOOLEAN
      BY <3>0, <3>2 DEF TurnAnswered
    <3>3. ASSUME NEW r \in Posts, NEW x, Sends(r, x)
          PROVE  submitError' \in BOOLEAN /\ leaving' \in BOOLEAN
      BY <3>0, <3>3 DEF Sends, SendTurn
    <3>. QED BY <1>2, <3>0, <3>1, <3>2, <3>3, PageCases DEF Mount, Ask, GiveUp
  <2>3. /\ page' \in {"device", "interview", "completed", "noSession"}
        /\ ending' \in Enders \cup {None} /\ endsSent' \subseteq Enders
    <3>0. /\ page \in {"device", "interview", "completed", "noSession"}
          /\ ending \in Enders \cup {None} /\ endsSent \subseteq Enders
      BY DEF BoundInv
    <3>1. CASE Mount
      BY <3>0, <3>1 DEF Mount
    <3>2. CASE UNCHANGED <<page, endsSent>> /\ ending' \in {ending, None}
      BY <3>0, <3>2
    <3>. QED
      BY <1>2, <3>1, <3>2, PageCases DEF Ask, Sends, TurnAnswered, GiveUp, wireVars
  <2>4. stored' \in {"none", "active", "complete"}
    <3>1. ASSUME SessionStarted PROVE status \in {"active", "complete"}
      BY <3>1, RowsAssumption
         DEF SessionStarted, RequestInv, Requests, TypeOK, SessionStatuses
    <3>. QED
      BY <1>2, <3>1
         DEF BoundInv, PageNext, SessionStarted, Reload, Leave, LoadSession, ServeSession,
             Reconcile, ReconcileFails, RecordAnswer, Retry, TurnAnswered, SubmitFails,
             ConnectionLost, EndAnswered, EndFails
  <2>5. accepted' \subseteq (TurnIndexes \ {0}) \X Posts
    <3>0. accepted \subseteq (TurnIndexes \ {0}) \X Posts
      BY DEF BoundInv
    <3>1. ASSUME NEW r \in Posts, TurnAnswered(r)
          PROVE  accepted' \subseteq (TurnIndexes \ {0}) \X Posts
      <4>1. sent[r] \in TurnIndexes \ {0} /\ audio[r] \in Posts
        BY <3>1 DEF TurnAnswered, SentInv
      <4>. QED BY <3>0, <3>1, <4>1 DEF TurnAnswered
    <3>. QED BY <1>2, <3>0, <3>1, PageCases DEF Mount, Ask, Sends, GiveUp
  <2>6. reloads' \in Nat /\ drops' \in Nat /\ drops' + reloads' <= MaxDisturbances
    <3>0. reloads \in Nat /\ drops \in Nat /\ drops + reloads <= MaxDisturbances
      BY DEF BoundInv
    <3>. QED
      BY <1>2, <3>0
         DEF PageNext, SessionStarted, Reload, Leave, LoadSession, ServeSession, Reconcile,
             ReconcileFails, RecordAnswer, Retry, TurnAnswered, SubmitFails, ConnectionLost,
             EndAnswered, EndFails
  <2>. QED BY <2>1, <2>2, <2>3, <2>4, <2>5, <2>6 DEF BoundInv
<1>. QED BY <1>1, <1>2 DEF ClientNext

-----------------------------------------------------------------------------
LEMMA VoiceInitially ==
    ASSUME ClientInit
    PROVE  VoiceInv
<1> USE RowsAssumption, ClientAssumption DEF ClientInit, Init, RowsInit, Requests
<1>1. SentInv /\ FirstMount
  BY DEF SentInv, FirstMount
<1>2. RowsSent
  BY DEF RowsSent, Committed, InCascade
<1>3. PairInv
  BY DEF PairInv, RetryResendsPair
<1>4. BelowInv
  BY DEF BelowInv, RowsBelow, TurnIndexes, NotAsked
<1>5. PatientInv
  BY DEF PatientInv, Open, Untouched, Committed, InCascade
<1>6. BoundInv
  <2>1. /\ nextTurnIndex <= MaxTurn + 1 /\ fetch.turns <= MaxTurn + 1
        /\ nextTurnIndex <= MaxTurn + 2
        /\ reloads \in Nat /\ drops \in Nat /\ drops + reloads <= MaxDisturbances
    BY DEF NotAsked
  <2>2. /\ submitError \in BOOLEAN /\ leaving \in BOOLEAN /\ reconciledLate \in BOOLEAN
        /\ page \in {"device", "interview", "completed", "noSession"}
        /\ stored \in {"none", "active", "complete"}
        /\ ending \in Enders \cup {None} /\ endsSent \subseteq Enders
        /\ accepted \subseteq (TurnIndexes \ {0}) \X Posts
    OBVIOUS
  <2> HIDE DEF ClientInit
  <2>. QED BY <2>1, <2>2 DEF BoundInv
<1>7. IndexFollowsRows /\ AcceptedAnswersKept
  BY DEF IndexFollowsRows, AcceptedAnswersKept
<1>. QED BY <1>1, <1>2, <1>3, <1>4, <1>5, <1>6, <1>7 DEF VoiceInv

LEMMA VoiceStep ==
    ASSUME TurnInv, PageInv, VoiceInv, [ClientNext]_<<vars, clientVars>>
    PROVE  VoiceInv'
<1>1. /\ TypeOK /\ RequestInv /\ RowInv /\ OneAnswer
      /\ SentInv /\ FirstMount /\ RowsSent /\ PairInv /\ BelowInv /\ PatientInv
      /\ BoundInv /\ IndexFollowsRows /\ AcceptedAnswersKept
  BY DEF TurnInv, VoiceInv
<1>2. CASE ClientNext
  <2>1. BoundInv' /\ SentInv' /\ FirstMount' /\ PairInv'
    BY <1>1, <1>2, BoundStep, SentStep, FirstMountStep, PairStep
  <2>2. RowsSent' /\ BelowInv' /\ PatientInv'
    BY <1>1, <1>2, RowsSentStep, BelowStep, PatientStep
  <2>3. IndexFollowsRows'
    BY <1>1, <1>2, <2>1, <2>2, IndexStep
  <2>4. AcceptedAnswersKept'
    BY <1>1, <1>2, AcceptedStep
  <2>. QED BY <2>1, <2>2, <2>3, <2>4 DEF VoiceInv
<1>3. CASE UNCHANGED <<vars, clientVars>>
  <2> USE <1>1, <1>3 DEF vars, rowVars, turnVars, requestVars, clientVars, pageVars, wireVars
  <2>1. SentInv' /\ FirstMount' /\ RowsSent'
    BY DEF SentInv, FirstMount, Submitted, RowsSent
  <2>2. PairInv' /\ BelowInv'
    BY DEF PairInv, RetryResendsPair, BelowInv, RowsBelow
  <2>3. PatientInv'
    BY DEF PatientInv, Open, Untouched, Answer
  <2>4. BoundInv'
    BY DEF BoundInv
  <2>5. IndexFollowsRows' /\ AcceptedAnswersKept'
    BY DEF IndexFollowsRows, FailedTurns, AcceptedAnswersKept, Kept
  <2>. QED BY <2>1, <2>2, <2>3, <2>4, <2>5 DEF VoiceInv
<1>. QED BY <1>2, <1>3

(* What the page counts with, what it has sent and what it took for        *)
(* answered agree with the rows, whatever is lost, retried or reloaded.    *)
THEOREM VoiceCorrect == ClientSpec => []VoiceInv
<1>1. ClientInit => VoiceInv
  BY VoiceInitially
<1>2. TurnInv /\ PageInv /\ VoiceInv /\ [ClientNext]_<<vars, clientVars>> => VoiceInv'
  BY VoiceStep
<1>. QED
  BY <1>1, <1>2, ClientInvariant, ClientImplements, TurnsCorrect, PTL DEF ClientSpec

(* The page's state keeps its types, and no index it counts with passes    *)
(* the number of turns a session can have by more than its reply.          *)
THEOREM ClientTypes == ClientSpec => []ClientTypeOK
<1>1. PageInv /\ VoiceInv => ClientTypeOK
  <2> SUFFICES ASSUME PageInv, VoiceInv PROVE ClientTypeOK
    OBVIOUS
  <2>0. SentInv /\ BoundInv /\ MaxTurn \in Nat /\ None \notin Posts
    BY RowsAssumption DEF VoiceInv, Requests
  <2>1. nextTurnIndex \in 1..(MaxTurn + 2)
    BY <2>0 DEF BoundInv, PageInv
  <2>2. fetch \in [at : {"none", "asked", "loaded", "served"},
                   turns : 0..(MaxTurn + 1), ended : BOOLEAN]
    BY <2>0 DEF BoundInv, PageInv
  <2>3. accepted \subseteq TurnIndexes \X Posts
    BY <2>0 DEF BoundInv
  <2>4. inFlight # None => sent[inFlight] # 0
    BY <2>0 DEF SentInv
  <2>. QED
    BY <2>0, <2>1, <2>2, <2>3, <2>4 DEF ClientTypeOK, BoundInv, SentInv, PageInv
<1>. QED BY <1>1, ClientInvariant, VoiceCorrect, PTL

(* Until a reconciliation moves it after a submission, the index passes no *)
(* turn the server does not have, whatever was lost or reloaded.           *)
THEOREM IndexKeepsUp == ClientSpec => []IndexFollowsRows
BY VoiceCorrect, PTL DEF VoiceInv

(* Until then no recording is the kept answer of two turns.                *)
THEOREM RecordingOnce == ClientSpec => []RecordingKeptOnce
<1>1. VoiceInv => RecordingKeptOnce
  BY DEF VoiceInv, RecordingKeptOnce, Kept, SentInv, RowsSent, PairInv, RetryResendsPair
<1>. QED BY <1>1, VoiceCorrect, PTL

(* What the page took for answered, the server keeps, unless an attempt at *)
(* the turn failed or the candidate recorded it twice.                     *)
THEOREM AcceptedKept == ClientSpec => []AcceptedAnswersKept
BY VoiceCorrect, PTL DEF VoiceInv

(* A page that loses no connection and is not reloaded is never told an    *)
(* answer that the row does not keep, failed attempts or not.              *)
THEOREM PatientAgrees == ClientSpec => []PatientRetriesAgree
<1>1. VoiceInv => PatientRetriesAgree
  BY DEF VoiceInv, PatientInv, PatientRetriesAgree, Untouched
<1>. QED BY <1>1, VoiceCorrect, PTL

=============================================================================

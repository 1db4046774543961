-------------------------- MODULE ReportPage_proofs --------------------------
(***************************************************************************)
(* The recruiters' report pages do nothing to the server that              *)
(* InterviewSystem does not allow, so that every theorem about             *)
(* InterviewSystem holds with them in front of it; a page holds one object *)
(* URL at most, ends up showing the outcome it watched for, and its Retry  *)
(* button throws no result away.                                           *)
(***************************************************************************)
EXTENDS ReportPage, InterviewSystem_proofs

(* The decisions on their way are decisions.                               *)
PatchInv == \A m \in patches : m.decision \in Decisions

(* The types of what a page plays.                                         *)
PlayerTypeOK ==
    /\ page \in [Pages -> {"new", "open", "left"}]
    /\ playing \in [Pages -> Keys \cup {None}]
    /\ playingUrl \in [Pages -> Nat]
    /\ urls \subseteq Pages \X Nat
    /\ clips \subseteq [to : Pages, key : Keys, url : Nat]
    /\ clicks \in Nat

(* A page that was never opened plays nothing, and a recording on its way  *)
(* to a page that was left was on its way when it was left.                *)
PlayerInv ==
    /\ \A p \in Pages : page[p] = "new" => playing[p] = None
    /\ \A c \in clips : /\ page[c.to] # "new"
                        /\ page[c.to] = "left" => c.to \in abandoned

-----------------------------------------------------------------------------
(* Every step of the pages and the server is one of InterviewSystem, or    *)
(* leaves its state alone.                                                 *)
LEMMA ReportStep ==
    ASSUME PatchInv, [ReportNext]_<<vars, reportVars>>
    PROVE  PatchInv' /\ [Next]_vars
<1> USE DEF PatchInv
<1>1. ASSUME NEW p \in Pages, PageNext(p) PROVE PatchInv' /\ UNCHANGED vars
  <2>1. ASSUME NEW d \in Decisions, Decide(p, d) PROVE PatchInv' /\ UNCHANGED vars
    BY <2>1 DEF Decide
  <2>2. CASE Open(p) \/ Poll(p) \/ Leave(p)
    BY <2>2 DEF Open, Poll, Leave, FetchReport
  <2>3. CASE \E r \in Retriers : RetryEvaluation(p, r)
    BY <2>3 DEF RetryEvaluation
  <2>4. CASE \E k \in Keys : Play(p, k)
    BY <2>4 DEF Play
  <2>. QED BY <1>1, <2>1, <2>2, <2>3, <2>4 DEF PageNext
<1>2. ASSUME NEW m \in replies, ReplyArrives(m) \/ ReplyLost(m)
      PROVE  PatchInv' /\ UNCHANGED vars
  BY <1>2 DEF ReplyArrives, ReplyLost
<1>3. ASSUME NEW c \in clips, ClipArrives(c) PROVE PatchInv' /\ UNCHANGED vars
  BY <1>3 DEF ClipArrives
<1>4. ASSUME NEW m \in patches, ServeDecision(m) PROVE PatchInv' /\ Next
  BY <1>4 DEF ServeDecision, Next, EvaluationNext
<1>5. ASSUME NEW r \in Retriers, ServeRetry(r) PROVE PatchInv' /\ Next
  BY <1>5 DEF ServeRetry, Next, EvaluationNext
<1>6. ASSUME NEW r \in Retriers, AnswerRetry(r) \/ RetryFails(r)
      PROVE  PatchInv' /\ UNCHANGED vars
  BY <1>6 DEF AnswerRetry, RetryFails
<1>7. ASSUME ServerStep PROVE PatchInv' /\ Next
  BY <1>7 DEF ServerStep, Next, EvaluationNext
<1>8. ASSUME UNCHANGED <<vars, reportVars>> PROVE PatchInv' /\ UNCHANGED vars
  BY <1>8 DEF reportVars
<1>. QED BY <1>1, <1>2, <1>3, <1>4, <1>5, <1>6, <1>7, <1>8 DEF ReportNext

LEMMA PatchInvariant == ReportSpec => []PatchInv
<1>1. ReportInit => PatchInv
  BY DEF ReportInit, PatchInv
<1>2. PatchInv /\ [ReportNext]_<<vars, reportVars>> => PatchInv'
  BY ReportStep
<1>. QED BY <1>1, <1>2, PTL DEF ReportSpec

(* Whatever recruiters click on stale reports, the server takes only steps *)
(* of InterviewSystem.                                                     *)
THEOREM ReportImplements == ReportSpec => Spec
<1>1. ReportInit => Init
  BY DEF ReportInit
<1>2. PatchInv /\ [ReportNext]_<<vars, reportVars>> => [Next]_vars
  BY ReportStep
<1>. QED BY <1>1, <1>2, PatchInvariant, PTL DEF ReportSpec, Spec

(* So all the invariants of the live interview hold behind the pages.      *)
THEOREM ReportInterviewCorrect == ReportSpec => []IInv
BY ReportImplements, InterviewCorrect, PTL

(* And the evaluation that recruiters ask anew for follows the lifecycle.  *)
THEOREM ReportFollowsLifecycle == ReportSpec => Lifecycle!LifecycleSteps
BY ReportImplements, Refinement, PTL

-----------------------------------------------------------------------------
(* The steps that touch neither the recordings nor who is on a page.       *)
PlayerAside == UNCHANGED <<page, playerVars>> /\ clicks' \in {clicks, clicks + 1}

LEMMA PlayerCases ==
    ASSUME [ReportNext]_<<vars, reportVars>>
    PROVE  \/ \E p \in Pages : Open(p) \/ Leave(p) \/ \E k \in Keys : Play(p, k)
           \/ \E c \in clips : ClipArrives(c)
           \/ PlayerAside
<1> USE DEF PlayerAside
<1>1. ASSUME NEW p \in Pages, Poll(p) PROVE PlayerAside
  BY <1>1 DEF Poll, FetchReport
<1>2. ASSUME NEW p \in Pages, NEW d, Decide(p, d) PROVE PlayerAside
  BY <1>2 DEF Decide, Click
<1>3. ASSUME NEW p \in Pages, NEW r, RetryEvaluation(p, r) PROVE PlayerAside
  BY <1>3 DEF RetryEvaluation, Click, playerVars
<1>4. ASSUME NEW m, ReplyArrives(m) \/ ReplyLost(m) \/ ServeDecision(m) PROVE PlayerAside
  BY <1>4 DEF ReplyArrives, ReplyLost, ServeDecision
<1>5. ASSUME NEW r, ServeRetry(r) \/ AnswerRetry(r) \/ RetryFails(r) PROVE PlayerAside
  BY <1>5 DEF ServeRetry, AnswerRetry, RetryFails
<1>6. ASSUME ServerStep \/ UNCHANGED <<vars, reportVars>> PROVE PlayerAside
  BY <1>6 DEF ServerStep, reportVars
<1>. QED BY <1>1, <1>2, <1>3, <1>4, <1>5, <1>6 DEF ReportNext, PageNext

PlayerCorrect == PlayerTypeOK /\ PlayerInv /\ OneUrlHeld

(* The URLs of a page that are in urls are the one it holds.               *)
LEMMA HeldUrls ==
    ASSUME PlayerTypeOK, OneUrlHeld, NEW p \in Pages, NEW u \in urls \ {<<p, playingUrl[p]>>}
    PROVE  u[1] # p
BY DEF PlayerTypeOK, OneUrlHeld

LEMMA PlayerStep ==
    ASSUME PlayerCorrect, [ReportNext]_<<vars, reportVars>>
    PROVE  PlayerCorrect'
<1> USE DEF PlayerCorrect, PlayerTypeOK, PlayerInv, OneUrlHeld
<1>1. ASSUME NEW p \in Pages, Open(p) PROVE PlayerCorrect'
  BY <1>1 DEF Open, playerVars
<1>2. ASSUME NEW p \in Pages, Leave(p) PROVE PlayerCorrect'
  <2>1. \A c \in clips : c.to = p => p \in abandoned'
    BY <1>2 DEF Leave
  <2>2. \A u \in urls' : u \in urls /\ u[1] # p
    BY <1>2, HeldUrls DEF Leave
  <2>3. PlayerTypeOK'
    BY <1>2 DEF Leave
  <2>4. PlayerInv'
    BY <1>2, <2>1 DEF Leave
  <2>5. OneUrlHeld'
    <3>1. \A u \in urls' : u[2] = playingUrl'[u[1]]
      BY <1>2, <2>2 DEF Leave
    <3>2. \A u \in urls' : page'[u[1]] = "left" => u[1] \in abandoned'
      BY <1>2, <2>2 DEF Leave
    <3>3. ASSUME NEW q \in Pages, page'[q] = "open", playing'[q] # None
          PROVE  <<q, playingUrl'[q]>> \in urls'
      BY <1>2, <3>3 DEF Leave
    <3>. QED BY <3>1, <3>2, <3>3
  <2>. QED BY <2>3, <2>4, <2>5
<1>3. ASSUME NEW p \in Pages, NEW k \in Keys, Play(p, k) PROVE PlayerCorrect'
  <2>1. page' = page /\ abandoned' = abandoned /\ clicks' = clicks + 1 /\ page[p] = "open"
    BY <1>3 DEF Play, Usable, Click
  <2>2. CASE playing[p] = k
    <3>1. /\ urls' = urls \ {<<p, playingUrl[p]>>}
          /\ playingUrl' = [playingUrl EXCEPT ![p] = 0]
          /\ playing' = [playing EXCEPT ![p] = None]
          /\ clips' = clips
      BY <1>3, <2>2 DEF Play
    <3>2. \A u \in urls' : u \in urls /\ u[1] # p
      BY <3>1, HeldUrls
    <3>. QED BY <2>1, <3>1, <3>2
  <2>3. CASE playing[p] # k
    <3>1. /\ clips' = clips \cup {[to |-> p, key |-> k, url |-> clicks']}
          /\ UNCHANGED <<playing, playingUrl, urls>>
      BY <1>3, <2>3 DEF Play
    <3>. QED BY <2>1, <3>1
  <2>. QED BY <2>2, <2>3
<1>4. ASSUME NEW c \in clips, ClipArrives(c) PROVE PlayerCorrect'
  <2> DEFINE p == c.to
  <2>1. p \in Pages /\ c.key \in Keys /\ c.url \in Nat /\ page[p] # "new"
    OBVIOUS
  <2>2. /\ clips' = clips \ {c}
        /\ urls' = (urls \ {<<p, playingUrl[p]>>}) \cup {<<p, c.url>>}
        /\ playingUrl' = [playingUrl EXCEPT ![p] = c.url]
        /\ playing' = [playing EXCEPT ![p] = IF page[p] = "left" THEN @ ELSE c.key]
        /\ UNCHANGED <<page, abandoned, clicks>>
    BY <1>4 DEF ClipArrives
  <2>3. page[p] = "left" => p \in abandoned
    OBVIOUS
  <2> HIDE DEF p
  <2>4. PlayerTypeOK' /\ PlayerInv'
    BY <2>1, <2>2
  <2>5. \A u \in urls' : u = <<p, c.url>> \/ (u \in urls /\ u[1] # p)
    BY <2>1, <2>2, HeldUrls
  <2>6. \A u \in urls' : u[2] = playingUrl'[u[1]]
    BY <2>1, <2>2, <2>5
  <2>7. \A u \in urls' : page'[u[1]] = "left" => u[1] \in abandoned'
    BY <2>1, <2>2, <2>3, <2>5
  <2>8. ASSUME NEW q \in Pages, page'[q] = "open", playing'[q] # None
        PROVE  <<q, playingUrl'[q]>> \in urls'
    BY <2>1, <2>2, <2>8
  <2>. QED BY <2>4, <2>6, <2>7, <2>8
<1>5. CASE PlayerAside
  BY <1>5 DEF PlayerAside, playerVars
<1>. QED BY <1>1, <1>2, <1>3, <1>4, <1>5, PlayerCases

(* Playing recordings keeps its types, and no recording is forgotten.      *)
THEOREM PlayerAlwaysCorrect == ReportSpec => []PlayerCorrect
<1>1. ReportInit => PlayerCorrect
  BY DEF ReportInit, PlayerCorrect, PlayerTypeOK, PlayerInv, OneUrlHeld
<1>2. PlayerCorrect /\ [ReportNext]_<<vars, reportVars>> => PlayerCorrect'
  BY PlayerStep
<1>. QED BY <1>1, <1>2, PTL DEF ReportSpec

(* However clicks, recordings and departures interleave, a page keeps only *)
(* the object URL it plays, and one that was left at most the one that was *)
(* on its way.                                                             *)
THEOREM OneUrlHeldAlways == ReportSpec => []OneUrlHeld
BY PlayerAlwaysCorrect, PTL DEF PlayerCorrect

-----------------------------------------------------------------------------
(***************************************************************************)
(* What the pages show.                                                    *)
(***************************************************************************)

Views == [status : SessionStatuses, evalStatus : EvaluationStatuses, evalError : BOOLEAN,
          scored : Transcripts, decision : Decisions]

(* What is shown, on its way and clicked keeps its type, and no view is    *)
(* newer than the row.                                                     *)
ShownTypeOK ==
    /\ report \in [Pages -> Views]
    /\ notFound \in [Pages -> BOOLEAN] /\ retrying \in [Pages -> BOOLEAN]
    /\ attempts \in [Pages -> 0..MaxAttempts]
    /\ replies \subseteq [to : Pages, kind : {"load", "decision", "retry"}, view : Views,
                          basis : Nat]
    /\ patches \subseteq [by : Pages, decision : Decisions]
    /\ asked \in [Retriers -> Pages \cup {None}]
    /\ askers \subseteq Pages \cup {None}
    /\ ver \in Nat /\ basis \in [Pages -> Nat] /\ newest \in [Pages -> Nat]
    /\ \A m \in replies : m.basis <= ver
    /\ \A p \in Pages : basis[p] <= newest[p] /\ newest[p] <= ver
    /\ clicks <= MaxClicks
    /\ \A c \in clips : c.url <= MaxClicks
    /\ \A p \in Pages : playingUrl[p] <= MaxClicks

(* A page asks for one evaluation at a time, and only what a page asked    *)
(* for is served.                                                          *)
RetryInv ==
    /\ \A r \in Retriers :
          /\ asked[r] # None => retrying[asked[r]] /\ asked[r] \in askers
          /\ pc[r] \in {"reset", "trigger"} => asked[r] # None
    /\ \A r, s \in Retriers : asked[r] = asked[s] /\ asked[r] # None => r = s
    /\ \A m \in replies : m.kind = "retry" =>
          /\ retrying[m.to]
          /\ \A r \in Retriers : asked[r] # m.to
          /\ \A n \in replies : n.kind = "retry" /\ n.to = m.to => n = m

(* A retry on its way that was neither out of date nor one of several      *)
(* finds the failure it was clicked for.                                   *)
RerunInv ==
    ~hasty /\ None \notin askers =>
        \A r \in Retriers :
            asked[r] # None /\ pc[r] \in {"new", "reset"} =>
                /\ evalStatus = "failed" /\ ~EvaluationOwned
                /\ \A s \in Retriers : asked[s] # None => s = r

(* When one page at most has asked anew, the evaluation has one owner at a *)
(* time, and none once it has an outcome.                                  *)
Sole == None \notin askers /\ \A a, b \in askers : a = b
Triggers(r) == pc[r] \in {"trigger", "record"}
Chain ==
    /\ evalStatus # "pending" =>
          /\ \A r \in Requests : ~Triggers(r)
          /\ queue = 0
          /\ \A w \in Workers : wpc[w] = "idle"
    /\ \A r, s \in Requests : Triggers(r) /\ Triggers(s) => r = s
    /\ \A w, x \in Workers : wpc[w] # "idle" /\ wpc[x] # "idle" => w = x
    /\ (\E r \in Requests : Triggers(r)) => queue = 0 /\ \A w \in Workers : wpc[w] = "idle"
    /\ queue \in {0, 1}
    /\ queue # 0 => \A w \in Workers : wpc[w] = "idle"
    /\ \A r \in Retriers : pc[r] = "reset" => evalStatus # "pending"
    /\ \A r \in Requests : pc[r] = "record" => seen[r].evalStatus = "pending"
    /\ \A w \in Workers :
          wpc[w] \in {"storing", "failing"} => loaded[w].evalStatus = "pending"
ChainInv == Sole => Chain

(* An outcome that a page shows, or is going to show, is the row's, or     *)
(* something newer is on its way to that page.                             *)
Right(v) ==
    v.evalStatus \in {"complete", "failed"} =>
        v.evalStatus = evalStatus /\ v.scored = scored
Ahead(p, b) ==
    \/ b < newest[p]
    \/ /\ b < ver
       /\ \E r \in Retriers : asked[r] = p /\ pc[r] \in {"trigger", "ok", "dead"}
    \/ \E m \in replies : m.to = p /\ b < m.basis
OutcomeInv ==
    \A p \in Pages :
        page[p] # "left" /\ p \notin unanswered /\ askers \subseteq {p} =>
            /\ Right(report[p]) \/ Ahead(p, basis[p])
            /\ \A m \in replies : m.to = p => Right(m.view) \/ Ahead(p, m.basis)

-----------------------------------------------------------------------------
(* What the candidate, the workers and the faults do to the retries on the *)
(* server: nothing, unless the API process dies.                           *)
LEMMA RetriersIdle ==
    ASSUME TypeOK, ServerStep, ~ApiRestarts
    PROVE  \A r \in Retriers : pc'[r] = pc[r]
<1> USE RowsAssumption DEF TypeOK, Requests
<1>1. ASSUME NEW ended \in BOOLEAN, OpenSession(ended) PROVE \A r \in Retriers : pc'[r] = pc[r]
  <2>1. PICK x : pc' = [pc EXCEPT ![Opener] = x]
    BY <1>1 DEF OpenSession, RequestEvaluation
  <2>. QED BY <2>1
<1>2. ASSUME NEW s \in Requests \ Retriers,
             \/ \E t \in TurnIndexes : PostTurn(s, t)
             \/ TurnStep(s) \/ CascadeRaises(s) \/ PostEnd(s) \/ EndSession(s) \/ TriggerStep(s)
      PROVE  \A r \in Retriers : pc'[r] = pc[r]
  <2>1. PICK x : pc' = [pc EXCEPT ![s] = x]
    <3>1. CASE \E t \in TurnIndexes : PostTurn(s, t)
      BY <3>1 DEF PostTurn
    <3>2. CASE LookUpTurn(s) \/ ClaimTurn(s) \/ CascadeFails(s) \/ MarkTurnFailed(s)
      BY <3>2 DEF LookUpTurn, ClaimTurn, CascadeFails, MarkTurnFailed
    <3>3. CASE (\E ended \in BOOLEAN : CascadeSucceeds(s, ended)) \/ CascadeRaises(s)
      BY <3>3 DEF CascadeSucceeds, CascadeRaises
    <3>4. CASE PersistTurn(s) \/ PostEnd(s) \/ EndSession(s)
      BY <3>4 DEF PersistTurn, PostEnd, EndSession, RequestEvaluation
    <3>5. CASE TriggerStep(s)
      BY <3>5 DEF TriggerStep, Enqueue, EnqueueFails, RecordEnqueueFailure
    <3>. QED BY <1>2, <3>1, <3>2, <3>3, <3>4, <3>5 DEF TurnStep
  <2>. QED BY <2>1
<1>3. ASSUME NEW w \in Workers, WorkerStep(w) \/ WorkerCrashes(w)
      PROVE  \A r \in Retriers : pc'[r] = pc[r]
  BY <1>3 DEF WorkerStep, TakeTask, JudgeAnswers, StoreScore, JudgeFails, MarkFailed,
              WorkerCrashes, requestVars
<1>4. ASSUME BrokerRestarts PROVE \A r \in Retriers : pc'[r] = pc[r]
  BY <1>4 DEF BrokerRestarts, requestVars
<1>5. Posts \subseteq Requests \ Retriers /\ Enders \subseteq Requests \ Retriers
  OBVIOUS
<1> HIDE RowsAssumption DEF TypeOK, Requests
<1>. QED BY <1>1, <1>2, <1>3, <1>4, <1>5 DEF ServerStep, CandidateNext

(* The steps of the candidate, the workers and the faults, by what they do *)
(* to the evaluation: a completion, a step of somebody who has it in hand, *)
(* a fault, or nothing.                                                    *)
Completing(r) ==
    /\ r # Opener \/ status = "none"
    /\ pc[r] \in {"new", "persist", "end"}
    /\ RequestEvaluation(r)
    /\ UNCHANGED <<scored, queue, workerVars>>
Resting ==
    /\ UNCHANGED <<evalStatus, scored, queue, workerVars>>
    /\ \A r \in Requests : /\ pc'[r] = "trigger" <=> pc[r] = "trigger"
                           /\ pc'[r] = "record" <=> pc[r] = "record"
                           /\ pc[r] = "record" => seen'[r] = seen[r]

LEMMA BehindCases ==
    ASSUME TypeOK, ServerStep
    PROVE  \/ ApiRestarts
           \/ /\ \A r \in Retriers : pc'[r] = pc[r]
              /\ \/ \E r \in Requests \ Retriers :
                      \/ Completing(r)
                      \/ Enqueue(r) /\ UNCHANGED workerVars
                      \/ EnqueueFails(r) /\ UNCHANGED workerVars
                      \/ RecordEnqueueFailure(r) /\ UNCHANGED workerVars
                 \/ \E w \in Workers :
                      \/ \E hasRubric \in BOOLEAN : TakeTask(w, hasRubric)
                      \/ JudgeAnswers(w)
                      \/ StoreScore(w)
                      \/ JudgeFails(w)
                      \/ MarkFailed(w)
                      \/ WorkerCrashes(w)
                 \/ BrokerRestarts
                 \/ Resting
<1> DEFINE Goal ==
        \/ \E r \in Requests \ Retriers :
             \/ Completing(r)
             \/ Enqueue(r) /\ UNCHANGED workerVars
             \/ EnqueueFails(r) /\ UNCHANGED workerVars
             \/ RecordEnqueueFailure(r) /\ UNCHANGED workerVars
        \/ \E w \in Workers :
             \/ \E hasRubric \in BOOLEAN : TakeTask(w, hasRubric)
             \/ JudgeAnswers(w)
             \/ StoreScore(w)
             \/ JudgeFails(w)
             \/ MarkFailed(w)
             \/ WorkerCrashes(w)
        \/ BrokerRestarts
        \/ Resting
<1>1. SUFFICES ASSUME ~ApiRestarts PROVE Goal
  BY RetriersIdle
<1>2. \A r \in Retriers : pc'[r] = pc[r]
  BY <1>1, RetriersIdle
<1>3. [Next]_vars
  BY DEF ServerStep, Next, EvaluationNext
<1>4. /\ Posts \subseteq Requests \ Retriers /\ Enders \subseteq Requests \ Retriers
      /\ Opener \in Requests \ Retriers /\ Opener \notin Posts \cup Enders
  BY RowsAssumption DEF Requests
<1>5. pc \in [Requests -> RequestStates]
  BY DEF TypeOK
<1>6. ASSUME NEW ended \in BOOLEAN, OpenSession(ended), UNCHANGED workerVars PROVE Goal
  <2>1. CASE ended
    <3>1. Completing(Opener)
      BY <1>6, <2>1 DEF OpenSession, Completing
    <3>. QED BY <1>4, <3>1
  <2>2. CASE ~ended
    <3>1. Resting
      BY <1>4, <1>5, <1>6, <2>2 DEF OpenSession, Resting
    <3>. QED BY <3>1
  <2>. QED BY <2>1, <2>2
<1>7. ASSUME NEW r \in Posts, PersistTurn(r), UNCHANGED workerVars PROVE Goal
  <2>1. CASE isComplete[r]
    <3>1. Completing(r)
      BY <1>4, <1>7, <2>1 DEF PersistTurn, Completing
    <3>. QED BY <1>4, <3>1
  <2>2. CASE ~isComplete[r]
    <3>1. Resting
      <4>1. /\ pc[r] = "persist" /\ pc' = [pc EXCEPT ![r] = "ok"]
            /\ seen' = [seen EXCEPT ![r] = NotLoaded]
            /\ UNCHANGED <<evalStatus, scored, queue>>
        BY <1>7, <2>2 DEF PersistTurn
      <4>2. \A s \in Requests : s # r => pc'[s] = pc[s] /\ seen'[s] = seen[s]
        BY <1>5, <4>1 DEF TypeOK
      <4>. QED BY <1>4, <1>5, <1>7, <4>1, <4>2 DEF Resting
    <3>. QED BY <3>1
  <2>. QED BY <2>1, <2>2
<1>8. ASSUME NEW r \in Enders, EndSession(r), UNCHANGED workerVars PROVE Goal
  <2>1. Completing(r)
    BY <1>4, <1>8 DEF EndSession, Completing
  <2>. QED BY <1>4, <2>1
<1>9. ASSUME NEW r \in Requests,
             \/ Enqueue(r) \/ EnqueueFails(r) \/ RecordEnqueueFailure(r)
             \/ ResetEvaluation(r) \/ RetryEnqueueFails(r)
      PROVE  r \notin Retriers
  BY <1>2, <1>5, <1>9
     DEF Enqueue, EnqueueFails, RecordEnqueueFailure, ResetEvaluation, RetryEnqueueFails,
         RequestEvaluation, Requests
<1>10. ASSUME Aside PROVE Goal
  BY <1>10 DEF Aside, Resting
<1>11. Retriers \subseteq Requests
  BY DEF Requests
<1> HIDE DEF Goal
<1>12. ASSUME NEW r \in Requests \ Retriers,
              \/ Enqueue(r) /\ UNCHANGED workerVars
              \/ EnqueueFails(r) /\ UNCHANGED workerVars
              \/ RecordEnqueueFailure(r) /\ UNCHANGED workerVars
       PROVE  Goal
  BY <1>12 DEF Goal
<1>13. ASSUME NEW w \in Workers,
              \/ \E hasRubric \in BOOLEAN : TakeTask(w, hasRubric)
              \/ JudgeAnswers(w)
              \/ StoreScore(w)
              \/ JudgeFails(w)
              \/ MarkFailed(w)
              \/ WorkerCrashes(w)
       PROVE  Goal
  BY <1>13 DEF Goal
<1>14. BrokerRestarts => Goal
  BY DEF Goal
<1>. QED
  BY <1>1, <1>3, <1>6, <1>7, <1>8, <1>9, <1>10, <1>11, <1>12, <1>13, <1>14, EvaluationCases

-----------------------------------------------------------------------------
(* The steps of a page between the server's leave its state alone.         *)
PageStays == UNCHANGED <<rowVars, queue, pc, seen, wpc, loaded>>
LEMMA PageStaysCases ==
    /\ \A p, d : Open(p) \/ Poll(p) \/ Leave(p) \/ Decide(p, d) => PageStays
    /\ \A p, r : RetryEvaluation(p, r) => PageStays
    /\ \A p, k : Play(p, k) => PageStays
    /\ \A m : ReplyArrives(m) \/ ReplyLost(m) \/ ClipArrives(m) => PageStays
    /\ \A r : AnswerRetry(r) \/ RetryFails(r) => PageStays
    /\ UNCHANGED <<vars, reportVars>> => PageStays
<1> USE DEF vars, rowVars, requestVars, workerVars, PageStays
<1>1. \A p, d : Open(p) \/ Poll(p) \/ Leave(p) \/ Decide(p, d) => PageStays
  BY DEF Open, Poll, Leave, Decide, FetchReport
<1>2. \A p, r : RetryEvaluation(p, r) => PageStays
  BY DEF RetryEvaluation
<1>3. \A p, k : Play(p, k) => PageStays
  BY DEF Play
<1>4. \A m : ReplyArrives(m) \/ ReplyLost(m) \/ ClipArrives(m) => PageStays
  BY DEF ReplyArrives, ReplyLost, ClipArrives
<1>5. \A r : AnswerRetry(r) \/ RetryFails(r) => PageStays
  BY DEF AnswerRetry, RetryFails
<1>. QED BY <1>1, <1>2, <1>3, <1>4, <1>5

(* A retry on the server steps alone.                                      *)
LEMMA ServedCases ==
    ASSUME TypeOK, NEW r \in Retriers, ServeRetry(r)
    PROVE  /\ asked[r] # None
           /\ \A s \in Requests : s # r => pc'[s] = pc[s] /\ seen'[s] = seen[s]
           /\ \/ /\ pc[r] = "new"
                 /\ \/ pc'[r] = "reset" /\ evalStatus # "pending"
                    \/ pc'[r] = "rejected"
                 /\ UNCHANGED <<rowVars, queue, workerVars>>
              \/ /\ pc[r] = "reset" /\ pc'[r] = "trigger"
                 /\ evalStatus' = Flush(seen[r].evalStatus, "pending", evalStatus)
                 /\ UNCHANGED <<status, scored, decision, queue, workerVars>>
              \/ /\ pc[r] = "trigger" /\ pc'[r] = "ok"
                 /\ queue' = queue + 1
                 /\ UNCHANGED <<rowVars, workerVars>>
              \/ /\ pc[r] = "trigger" /\ pc'[r] = "ok"
                 /\ evalStatus' = "failed"
                 /\ UNCHANGED <<status, scored, decision, queue, workerVars>>
<1>0. r \in Requests /\ pc \in [Requests -> RequestStates]
      /\ seen \in [Requests -> EvaluationColumns]
  BY DEF TypeOK, Requests
<1>1. asked[r] # None /\ (PostRetry(r) \/ RetryStep(r))
  BY DEF ServeRetry
<1>2. CASE PostRetry(r)
  BY <1>0, <1>1, <1>2 DEF PostRetry
<1>3. CASE ResetEvaluation(r)
  BY <1>0, <1>1, <1>3 DEF ResetEvaluation, RequestEvaluation
<1>4. CASE Enqueue(r) /\ UNCHANGED workerVars
  BY <1>0, <1>1, <1>4 DEF Enqueue
<1>5. CASE RetryEnqueueFails(r)
  BY <1>0, <1>1, <1>5 DEF RetryEnqueueFails
<1>. QED BY <1>1, <1>2, <1>3, <1>4, <1>5 DEF RetryStep

-----------------------------------------------------------------------------
(* Types of what is shown and on its way.                                  *)
LEMMA ReplyType ==
    ASSUME TypeOK', ver' \in Nat, NEW p \in Pages,
           NEW kind \in {"load", "decision", "retry"}, NEW m \in ReplyTo(p, kind)
    PROVE  /\ m \in [to : Pages, kind : {"load", "decision", "retry"}, view : Views,
                     basis : Nat]
           /\ m = [to |-> p, kind |-> kind, view |-> View', basis |-> ver']
           /\ page[p] # "left"
<1>1. View' \in Views
  BY DEF TypeOK, View, Views
<1>. QED BY <1>1 DEF ReplyTo

LEMMA ShownInitially == ReportInit => ShownTypeOK
<1> SUFFICES ASSUME ReportInit PROVE ShownTypeOK
  OBVIOUS
<1>1. NoReport \in Views
  BY EvaluationAssumption
     DEF NoReport, Views, SessionStatuses, EvaluationStatuses, Transcripts
<1>. QED BY <1>1, ReportAssumption DEF ReportInit, ShownTypeOK

LEMMA ShownStep ==
    ASSUME TypeOK, TypeOK', PlayerTypeOK, ShownTypeOK, [ReportNext]_<<vars, reportVars>>
    PROVE  ShownTypeOK'
<1> DEFINE Kinds == {"load", "decision", "retry"}
           Replies == [to : Pages, kind : Kinds, view : Views, basis : Nat]
<1>0. /\ MaxClicks \in Nat /\ MaxAttempts \in Nat
      /\ clicks \in Nat /\ ver \in Nat
      /\ None \notin Pages
  BY ReportAssumption DEF PlayerTypeOK, ShownTypeOK
<1> USE DEF ShownTypeOK
\* A request answered at once: the reply is a view of the row.
<1>1. ASSUME NEW p \in Pages, NEW kind \in Kinds, ver' \in {ver, ver + 1},
             replies' = replies \cup ReplyTo(p, kind)
      PROVE  replies' \subseteq Replies /\ \A m \in replies' : m.basis <= ver'
  <2>1. \A m \in ReplyTo(p, kind) : m \in Replies /\ m.basis = ver'
    BY <1>0, <1>1, ReplyType
  <2>. QED BY <1>0, <1>1, <2>1
<1>2. ASSUME NEW p \in Pages, Open(p) PROVE ShownTypeOK'
  <2>1. /\ ver' = ver /\ replies' = replies \cup ReplyTo(p, "load")
        /\ UNCHANGED <<shownVars, playerVars, retryVars, patches, clicks>>
    BY <1>2 DEF Open, FetchReport
  <2>2. replies' \subseteq Replies /\ \A m \in replies' : m.basis <= ver'
    BY <1>0, <1>1, <2>1
  <2>. QED BY <2>1, <2>2 DEF shownVars, playerVars, retryVars
<1>3. ASSUME NEW p \in Pages, Poll(p) PROVE ShownTypeOK'
  <2>1. /\ ver' = ver /\ replies' = replies \cup ReplyTo(p, "load")
        /\ attempts[p] < MaxAttempts /\ attempts' = [attempts EXCEPT ![p] = @ + 1]
        /\ UNCHANGED <<report, notFound, retrying, basis, newest, playerVars, retryVars,
                       patches, clicks>>
    BY <1>3 DEF Poll, FetchReport
  <2>2. replies' \subseteq Replies /\ \A m \in replies' : m.basis <= ver'
    BY <1>0, <1>1, <2>1
  <2>3. attempts' \in [Pages -> 0..MaxAttempts]
    BY <1>0, <2>1
  <2>. QED BY <2>1, <2>2, <2>3 DEF playerVars, retryVars
<1>4. ASSUME NEW p \in Pages, Leave(p) PROVE ShownTypeOK'
  BY <1>4 DEF Leave, shownVars, retryVars
<1>5. ASSUME NEW p \in Pages, NEW d \in Decisions \ {"None"}, Decide(p, d) PROVE ShownTypeOK'
  BY <1>0, <1>5 DEF Decide, Click, shownVars, playerVars, retryVars
<1>6. ASSUME NEW p \in Pages, NEW r \in Retriers, RetryEvaluation(p, r) PROVE ShownTypeOK'
  BY <1>0, <1>6 DEF RetryEvaluation, Click, playerVars
<1>7. ASSUME NEW p \in Pages, NEW k \in Keys, Play(p, k) PROVE ShownTypeOK'
  <2>1. /\ clicks < MaxClicks /\ clicks' = clicks + 1
        /\ UNCHANGED <<shownVars, retryVars, replies, patches, ver>>
    BY <1>7 DEF Play, Click
  <2>2. \A c \in clips' : c.url <= MaxClicks
    BY <1>0, <1>7, <2>1 DEF Play
  <2>3. \A q \in Pages : playingUrl'[q] <= MaxClicks
    BY <1>0, <1>7, <2>1 DEF Play, PlayerTypeOK
  <2>. QED BY <1>0, <2>1, <2>2, <2>3 DEF shownVars, retryVars
<1>8. ASSUME NEW m \in replies, ReplyArrives(m) PROVE ShownTypeOK'
  <2> DEFINE p == m.to
  <2>1. p \in Pages /\ m.view \in Views /\ m.basis \in Nat /\ m.basis <= ver
    OBVIOUS
  <2>2. /\ replies' = replies \ {m}
        /\ report' = [report EXCEPT ![p] = m.view]
        /\ attempts' = [attempts EXCEPT ![p] =
                IF m.view.evalStatus = report[p].evalStatus THEN @ ELSE 0]
        /\ retrying' = [retrying EXCEPT ![p] = @ /\ m.kind # "retry"]
        /\ basis' = [basis EXCEPT ![p] = m.basis]
        /\ newest' = [newest EXCEPT ![p] = IF m.basis > @ THEN m.basis ELSE @]
        /\ UNCHANGED <<notFound, playerVars, retryVars, patches, clicks, ver>>
    BY <1>8 DEF ReplyArrives
  <2> HIDE DEF p
  <2>3. /\ report' \in [Pages -> Views] /\ basis' \in [Pages -> Nat]
        /\ newest' \in [Pages -> Nat]
    BY <2>1, <2>2
  <2>4. attempts' \in [Pages -> 0..MaxAttempts]
    BY <1>0, <2>1, <2>2
  <2>5. retrying' \in [Pages -> BOOLEAN]
    BY <2>1, <2>2
  <2>6. \A q \in Pages : basis'[q] <= newest'[q] /\ newest'[q] <= ver
    BY <1>0, <2>1, <2>2
  <2>. QED BY <2>2, <2>3, <2>4, <2>5, <2>6 DEF playerVars, retryVars
<1>9. ASSUME NEW m \in replies, ReplyLost(m) PROVE ShownTypeOK'
  <2>1. /\ replies' = replies \ {m}
        /\ notFound' = [notFound EXCEPT ![m.to] = @ \/ m.kind = "load"]
        /\ retrying' = [retrying EXCEPT ![m.to] = @ /\ m.kind # "retry"]
        /\ UNCHANGED <<report, attempts, basis, newest, playerVars, retryVars, patches,
                       clicks, ver>>
    BY <1>9 DEF ReplyLost
  <2>2. notFound' \in [Pages -> BOOLEAN] /\ retrying' \in [Pages -> BOOLEAN]
    BY <2>1
  <2>. QED BY <2>1, <2>2 DEF playerVars, retryVars
<1>10. ASSUME NEW c \in clips, ClipArrives(c) PROVE ShownTypeOK'
  <2>1. /\ clips' \subseteq clips
        /\ playingUrl' = [playingUrl EXCEPT ![c.to] = c.url]
        /\ UNCHANGED <<shownVars, retryVars, replies, patches, clicks, ver>>
    BY <1>10 DEF ClipArrives
  <2>2. \A q \in Pages : playingUrl'[q] <= MaxClicks
    BY <2>1 DEF PlayerTypeOK
  <2>. QED BY <2>1, <2>2 DEF shownVars, retryVars
<1>11. ASSUME NEW m \in patches, ServeDecision(m) PROVE ShownTypeOK'
  <2>1. /\ ver' \in {ver, ver + 1} /\ patches' = patches \ {m} /\ m.by \in Pages
        /\ replies' = replies \cup ReplyTo(m.by, "decision")
        /\ UNCHANGED <<shownVars, playerVars, retryVars, clicks>>
    BY <1>11 DEF ServeDecision
  <2>2. replies' \subseteq Replies /\ \A n \in replies' : n.basis <= ver'
    BY <1>0, <1>1, <2>1
  <2>. QED BY <1>0, <2>1, <2>2 DEF shownVars, playerVars, retryVars
<1>12. ASSUME NEW r \in Retriers, ServeRetry(r) PROVE ShownTypeOK'
  <2>1. /\ ver' \in {ver, ver + 1}
        /\ UNCHANGED <<shownVars, playerVars, asked, askers, replies, patches, clicks>>
    BY <1>12 DEF ServeRetry
  <2>. QED BY <1>0, <2>1 DEF shownVars, playerVars
<1>13. ASSUME NEW r \in Retriers, AnswerRetry(r) PROVE ShownTypeOK'
  <2>1. /\ ver' = ver /\ asked[r] \in Pages
        /\ replies' = replies \cup ReplyTo(asked[r], "retry")
        /\ asked' = [asked EXCEPT ![r] = None]
        /\ UNCHANGED <<shownVars, playerVars, askers, patches, clicks>>
    BY <1>13 DEF AnswerRetry
  <2>2. replies' \subseteq Replies /\ \A n \in replies' : n.basis <= ver'
    BY <1>0, <1>1, <2>1
  <2>. QED BY <2>1, <2>2 DEF shownVars, playerVars
<1>14. ASSUME NEW r \in Retriers, RetryFails(r) PROVE ShownTypeOK'
  BY <1>14 DEF RetryFails, playerVars
<1>15. ASSUME ServerStep PROVE ShownTypeOK'
  <2>1. /\ ver' \in {ver, ver + 1} /\ askers' \subseteq askers \cup {None}
        /\ UNCHANGED <<shownVars, playerVars, asked, replies, patches, clicks>>
    BY <1>15 DEF ServerStep
  <2>. QED BY <1>0, <2>1 DEF shownVars, playerVars
<1>16. ASSUME UNCHANGED <<vars, reportVars>> PROVE ShownTypeOK'
  BY <1>16 DEF reportVars, shownVars, playerVars, retryVars
<1> HIDE DEF ShownTypeOK
<1>. QED
  BY <1>2, <1>3, <1>4, <1>5, <1>6, <1>7, <1>8, <1>9, <1>10, <1>11, <1>12, <1>13, <1>14,
     <1>15, <1>16 DEF ReportNext, PageNext

(* The types of the pages as the runs check them.                          *)
LEMMA PagesTyped ==
    ASSUME PlayerTypeOK, ShownTypeOK PROVE ReportTypeOK
<1>1. ASSUME NEW p \in Pages
      PROVE  /\ DOMAIN report[p] = DOMAIN NoReport
             /\ report[p].evalStatus \in EvaluationStatuses
  <2>1. report[p] \in Views
    BY DEF ShownTypeOK
  <2>. QED BY <2>1 DEF Views, NoReport
<1>2. playingUrl \in [Pages -> 0..MaxClicks]
  BY ReportAssumption DEF PlayerTypeOK, ShownTypeOK
<1>. QED BY <1>1, <1>2 DEF ReportTypeOK, PlayerTypeOK, ShownTypeOK

-----------------------------------------------------------------------------
(* A page asks for one evaluation at a time.                               *)
LEMMA OneRetryStep ==
    ASSUME TypeOK, ShownTypeOK, RetryInv, [ReportNext]_<<vars, reportVars>>
    PROVE  RetryInv'
<1>0. /\ pc \in [Requests -> RequestStates] /\ Retriers \subseteq Requests
      /\ asked \in [Retriers -> Pages \cup {None}] /\ None \notin Pages
      /\ retrying \in [Pages -> BOOLEAN]
      /\ \A m \in replies : m.to \in Pages
  BY ReportAssumption DEF TypeOK, ShownTypeOK, Requests
<1> USE DEF RetryInv
\* A reply of another kind.
<1>1. ASSUME NEW p \in Pages, NEW kind \in {"load", "decision"},
             replies' = replies \cup ReplyTo(p, kind),
             UNCHANGED <<asked, retrying, askers, pc>>
      PROVE  RetryInv'
  <2>1. \A m \in replies' : m.kind = "retry" => m \in replies
    BY <1>1 DEF ReplyTo
  <2>. QED BY <1>1, <2>1
\* Nothing is asked, answered or forgotten.
<1>2. ASSUME UNCHANGED <<replies, asked, retrying, pc>>, askers \subseteq askers'
      PROVE  RetryInv'
  BY <1>2
<1>3. ASSUME NEW p \in Pages, Open(p) \/ Poll(p) PROVE RetryInv'
  <2>1. /\ replies' = replies \cup ReplyTo(p, "load")
        /\ UNCHANGED <<asked, retrying, askers, pc>>
    BY <1>3, PageStaysCases DEF Open, Poll, FetchReport, shownVars, retryVars, PageStays
  <2>. QED BY <1>1, <2>1
<1>4. ASSUME NEW p \in Pages, Leave(p) PROVE RetryInv'
  <2>1. replies' \subseteq replies /\ UNCHANGED <<asked, retrying, askers, pc>>
    BY <1>4, PageStaysCases DEF Leave, shownVars, retryVars, PageStays
  <2>. QED BY <2>1
<1>5. ASSUME NEW p \in Pages, NEW d, Decide(p, d) PROVE RetryInv'
  BY <1>2, <1>5, PageStaysCases DEF Decide, shownVars, retryVars, PageStays
<1>6. ASSUME NEW p \in Pages, NEW r \in Retriers, RetryEvaluation(p, r) PROVE RetryInv'
  <2>1. /\ ~retrying[p] /\ asked[r] = None /\ pc[r] = "new"
        /\ asked' = [asked EXCEPT ![r] = p]
        /\ askers' = askers \cup {p}
        /\ retrying' = [retrying EXCEPT ![p] = TRUE]
        /\ UNCHANGED <<replies, pc>>
    BY <1>6, PageStaysCases DEF RetryEvaluation, PageStays
  <2>2. \A s \in Retriers : asked[s] # p
    BY <1>0, <2>1
  <2>3. \A q \in Pages : retrying[q] => retrying'[q]
    BY <1>0, <2>1
  <2>4. retrying'[p] /\ asked'[r] = p /\ \A s \in Retriers : s # r => asked'[s] = asked[s]
    BY <1>0, <2>1
  <2>5. \A m \in replies : m.kind = "retry" => m.to # p
    BY <1>0, <2>1
  <2>6. \A s \in Retriers : /\ asked'[s] # None => retrying'[asked'[s]] /\ asked'[s] \in askers'
                            /\ pc'[s] \in {"reset", "trigger"} => asked'[s] # None
    BY <1>0, <2>1, <2>3, <2>4
  <2>7. \A s, t \in Retriers : asked'[s] = asked'[t] /\ asked'[s] # None => s = t
    BY <1>0, <2>2, <2>4
  <2>8. \A m \in replies' : m.kind = "retry" =>
          /\ retrying'[m.to]
          /\ \A s \in Retriers : asked'[s] # m.to
          /\ \A n \in replies' : n.kind = "retry" /\ n.to = m.to => n = m
    BY <1>0, <2>1, <2>3, <2>4, <2>5
  <2>. QED BY <2>6, <2>7, <2>8
<1>7. ASSUME NEW p \in Pages, NEW k \in Keys, Play(p, k) PROVE RetryInv'
  BY <1>2, <1>7, PageStaysCases DEF Play, shownVars, retryVars, PageStays
<1>8. ASSUME NEW m \in replies, ReplyArrives(m) \/ ReplyLost(m) PROVE RetryInv'
  <2>1. /\ replies' = replies \ {m}
        /\ retrying' = [retrying EXCEPT ![m.to] = @ /\ m.kind # "retry"]
        /\ UNCHANGED <<asked, askers, pc>>
    BY <1>8, PageStaysCases DEF ReplyArrives, ReplyLost, retryVars, PageStays
  <2>2. \A q \in Pages : retrying[q] /\ (m.kind = "retry" => q # m.to) => retrying'[q]
    BY <1>0, <2>1
  <2>. QED BY <1>0, <2>1, <2>2
<1>9. ASSUME NEW c \in clips, ClipArrives(c) PROVE RetryInv'
  BY <1>2, <1>9, PageStaysCases DEF ClipArrives, shownVars, retryVars, PageStays
<1>10. ASSUME NEW m \in patches, ServeDecision(m) PROVE RetryInv'
  <2>1. /\ replies' = replies \cup ReplyTo(m.by, "decision") /\ m.by \in Pages
        /\ UNCHANGED <<asked, retrying, askers, pc>>
    BY <1>10 DEF ServeDecision, SetDecision, requestVars, shownVars, retryVars, ShownTypeOK
  <2>. QED BY <1>1, <2>1
<1>11. ASSUME NEW r \in Retriers, ServeRetry(r) PROVE RetryInv'
  <2>1. UNCHANGED <<replies, asked, retrying, askers>>
    BY <1>11 DEF ServeRetry, shownVars
  <2>2. asked[r] # None /\ \A s \in Retriers : s # r => pc'[s] = pc[s]
    BY <1>0, <1>11, ServedCases
  <2>. QED BY <2>1, <2>2
<1>12. ASSUME NEW r \in Retriers, AnswerRetry(r) PROVE RetryInv'
  <2> DEFINE p == asked[r]
  <2>1. /\ p \in Pages
        /\ pc[r] = "ok"
        /\ replies' = replies \cup ReplyTo(p, "retry")
        /\ asked' = [asked EXCEPT ![r] = None]
        /\ UNCHANGED <<retrying, askers, pc>>
    BY <1>0, <1>12, PageStaysCases DEF AnswerRetry, PageStays, shownVars
  <2>2. retrying[p] /\ \A s \in Retriers : s # r => asked[s] # p
    BY <1>0, <2>1
  <2>3. \A m \in replies : m.kind = "retry" => m.to # p
    BY <2>1
  <2>4. \A m \in replies' : m \in replies \/ m.to = p
    BY <2>1 DEF ReplyTo
  <2>5. \A m, n \in replies' \ replies : m = n
    BY <2>1 DEF ReplyTo
  <2>6. asked'[r] = None /\ \A s \in Retriers : s # r => asked'[s] = asked[s]
    BY <1>0, <2>1
  <2> HIDE DEF p
  <2>7. \A s \in Retriers : /\ asked'[s] # None => retrying'[asked'[s]] /\ asked'[s] \in askers'
                            /\ pc'[s] \in {"reset", "trigger"} => asked'[s] # None
    BY <2>1, <2>6
  <2>8. \A s, t \in Retriers : asked'[s] = asked'[t] /\ asked'[s] # None => s = t
    BY <2>6
  <2>9. \A m \in replies' : m.kind = "retry" =>
          /\ retrying'[m.to]
          /\ \A s \in Retriers : asked'[s] # m.to
          /\ \A n \in replies' : n.kind = "retry" /\ n.to = m.to => n = m
    <3>1. SUFFICES ASSUME NEW m \in replies', m.kind = "retry"
                   PROVE  /\ retrying'[m.to]
                          /\ \A s \in Retriers : asked'[s] # m.to
                          /\ \A n \in replies' : n.kind = "retry" /\ n.to = m.to => n = m
      OBVIOUS
    <3>2. CASE m \in replies
      BY <1>0, <2>1, <2>3, <2>4, <2>6, <3>1, <3>2
    <3>3. CASE m \notin replies
      BY <1>0, <2>1, <2>2, <2>3, <2>4, <2>5, <2>6, <3>1, <3>3
    <3>. QED BY <3>2, <3>3
  <2>. QED BY <2>7, <2>8, <2>9
<1>13. ASSUME NEW r \in Retriers, RetryFails(r) PROVE RetryInv'
  <2> DEFINE p == asked[r]
  <2>1. /\ p \in Pages
        /\ pc[r] \in {"rejected", "dead"}
        /\ retrying' = [retrying EXCEPT ![p] = FALSE]
        /\ asked' = [asked EXCEPT ![r] = None]
        /\ UNCHANGED <<replies, askers, pc>>
    BY <1>0, <1>13, PageStaysCases DEF RetryFails, PageStays
  <2>2. \A s \in Retriers : s # r => asked[s] # p
    BY <1>0, <2>1
  <2>3. \A m \in replies : m.kind = "retry" => m.to # p
    OBVIOUS
  <2>4. asked'[r] = None /\ \A s \in Retriers : s # r => asked'[s] = asked[s]
    BY <1>0, <2>1
  <2>5. \A q \in Pages : q # p => retrying'[q] = retrying[q]
    BY <1>0, <2>1
  <2> HIDE DEF p
  <2>. QED BY <1>0, <2>1, <2>2, <2>3, <2>4, <2>5
<1>14. ASSUME ServerStep PROVE RetryInv'
  <2>1. UNCHANGED <<replies, asked, retrying>> /\ askers \subseteq askers'
    BY <1>14 DEF ServerStep, shownVars
  <2>2. \A r \in Retriers : pc'[r] \in {"reset", "trigger"} => pc'[r] = pc[r]
    <3>1. CASE ApiRestarts
      BY <1>0, <3>1 DEF ApiRestarts, Running, InCascade
    <3>. QED BY <1>14, <3>1, RetriersIdle
  <2>. QED BY <1>0, <2>1, <2>2
<1>15. ASSUME UNCHANGED <<vars, reportVars>> PROVE RetryInv'
  BY <1>2, <1>15, PageStaysCases DEF reportVars, shownVars, retryVars, PageStays
<1> HIDE DEF RetryInv
<1>. QED
  BY <1>3, <1>4, <1>5, <1>6, <1>7, <1>8, <1>9, <1>10, <1>11, <1>12, <1>13, <1>14, <1>15
     DEF ReportNext, PageNext

-----------------------------------------------------------------------------
(* What is known of a completed evaluation, and of one that is not due.    *)
LEMMA CompletionCases ==
    ASSUME TypeOK, RequestInv, SeenInv, EvaluationFollowsCompletion, ServerStep,
           NEW r \in Requests \ Retriers, Completing(r), None \notin askers'
    PROVE  /\ status # "complete" /\ evalStatus = "idle" /\ evalStatus' = "pending"
           /\ \A s \in Retriers : pc[s] # "reset"
           /\ \A s \in Requests : s # r => pc'[s] = pc[s] /\ seen'[s] = seen[s]
           /\ pc'[r] = "trigger"
<1>0. /\ pc \in [Requests -> RequestStates] /\ seen \in [Requests -> EvaluationColumns]
      /\ pc' = [pc EXCEPT ![r] = "trigger"] /\ seen' = [seen EXCEPT ![r] = NotLoaded]
  BY DEF TypeOK, Completing, RequestEvaluation
<1>1. ~LateCompletion
  BY DEF ServerStep
<1>2. r = Opener \/ r \in Posts \cup Enders
  BY DEF Requests
<1>3. status # "complete"
  BY <1>0, <1>1, <1>2 DEF LateCompletion, Completing
<1>4. evalStatus = "idle" /\ seen[r].evalStatus = "idle"
  <2>1. seen[r].evalStatus \in EvaluationStatuses
    BY <1>0 DEF EvaluationColumns
  <2>. QED BY <1>3, <2>1 DEF EvaluationFollowsCompletion, SeenInv
<1>5. evalStatus' = "pending"
  BY <1>4 DEF Completing, RequestEvaluation, Flush
<1>. QED BY <1>0, <1>3, <1>4, <1>5 DEF RequestInv

-----------------------------------------------------------------------------
(* A failed evaluation that nobody has in hand stays that as long as       *)
(* nobody asks for another.                                                *)
LEMMA FailureStays ==
    ASSUME TypeOK, RequestInv, SeenInv, EvaluationFollowsCompletion, ServerStep,
           None \notin askers', evalStatus = "failed", ~EvaluationOwned
    PROVE  evalStatus' = "failed" /\ ~EvaluationOwned'
<1>0. /\ pc \in [Requests -> RequestStates] /\ seen \in [Requests -> EvaluationColumns]
      /\ wpc \in [Workers -> {"idle", "scoring", "storing", "failing"}]
      /\ loaded \in [Workers -> EvaluationColumns] /\ queue \in Nat
      /\ Retriers \subseteq Requests
  BY DEF TypeOK, Requests
<1>1. /\ queue = 0
      /\ \A s \in Requests : pc[s] # "trigger" /\ (pc[s] = "record" => seen[s].evalStatus = "failed")
      /\ \A w \in Workers :
            /\ wpc[w] # "scoring"
            /\ wpc[w] = "storing" => loaded[w].evalStatus = "complete"
            /\ wpc[w] = "failing" => loaded[w].evalStatus = "failed"
  BY <1>0 DEF EvaluationOwned
<1> HIDE DEF TypeOK, RequestInv, SeenInv, EvaluationFollowsCompletion, EvaluationOwned
<1>2. ASSUME NEW r \in Requests \ Retriers, Completing(r) PROVE FALSE
  BY <1>2, CompletionCases
<1>3. ASSUME NEW r \in Requests, Enqueue(r) \/ EnqueueFails(r) PROVE FALSE
  BY <1>1, <1>3 DEF Enqueue, EnqueueFails
<1>4. ASSUME NEW r \in Requests, RecordEnqueueFailure(r), UNCHANGED workerVars
      PROVE  evalStatus' = "failed" /\ ~EvaluationOwned'
  BY <1>0, <1>1, <1>4
     DEF RecordEnqueueFailure, RecordFailure, Flush, EvaluationOwned, workerVars
<1>5. ASSUME NEW w \in Workers, NEW h \in BOOLEAN, TakeTask(w, h) PROVE FALSE
  BY <1>1, <1>5 DEF TakeTask
<1>6. ASSUME NEW w \in Workers, JudgeAnswers(w) PROVE FALSE
  BY <1>1, <1>6 DEF JudgeAnswers
<1>7. ASSUME NEW w \in Workers, StoreScore(w) \/ MarkFailed(w) \/ WorkerCrashes(w)
      PROVE  evalStatus' = "failed" /\ ~EvaluationOwned'
  <2>1. evalStatus' = "failed" /\ wpc' = [wpc EXCEPT ![w] = "idle"]
        /\ loaded' = [loaded EXCEPT ![w] = NotLoaded] /\ UNCHANGED <<queue, pc, seen>>
    BY <1>1, <1>7 DEF StoreScore, MarkFailed, WorkerCrashes, Finish, RecordFailure, Flush,
                      requestVars, rowVars
  <2>. QED BY <1>0, <1>1, <2>1 DEF EvaluationOwned
<1>8. ASSUME NEW w \in Workers, JudgeFails(w) PROVE evalStatus' = "failed" /\ ~EvaluationOwned'
  <2>1. evalStatus' = evalStatus /\ wpc' = [wpc EXCEPT ![w] = "failing"]
        /\ loaded' = [loaded EXCEPT ![w] = Loaded] /\ UNCHANGED <<queue, pc, seen>>
    BY <1>8 DEF JudgeFails, requestVars, rowVars
  <2>2. loaded'[w].evalStatus = "failed"
    BY <1>0, <2>1 DEF Loaded
  <2>. QED BY <1>0, <1>1, <2>1, <2>2 DEF EvaluationOwned
<1>9. ASSUME BrokerRestarts PROVE FALSE
  BY <1>1, <1>9 DEF BrokerRestarts
<1>10. ASSUME ApiRestarts PROVE evalStatus' = "failed" /\ ~EvaluationOwned'
  <2>1. \A s \in Requests : pc'[s] \notin {"trigger", "record"}
    BY <1>0, <1>10 DEF ApiRestarts, Running, InCascade, RequestStates, Answered
  <2>2. UNCHANGED <<evalStatus, queue, wpc, loaded>>
    BY <1>10 DEF ApiRestarts, rowVars, workerVars
  <2>. QED BY <1>1, <2>1, <2>2 DEF EvaluationOwned
<1>11. ASSUME Resting PROVE evalStatus' = "failed" /\ ~EvaluationOwned'
  BY <1>1, <1>11 DEF Resting, EvaluationOwned, workerVars
<1>. QED BY <1>2, <1>3, <1>4, <1>5, <1>6, <1>7, <1>8, <1>9, <1>10, <1>11, BehindCases

LEMMA RerunStep ==
    ASSUME TypeOK, RequestInv, SeenInv, EvaluationFollowsCompletion,
           ShownTypeOK, RetryInv, RerunInv, [ReportNext]_<<vars, reportVars>>
    PROVE  RerunInv'
<1>0. /\ pc \in [Requests -> RequestStates] /\ Retriers \subseteq Requests
      /\ asked \in [Retriers -> Pages \cup {None}] /\ None \notin Pages
  BY ReportAssumption DEF TypeOK, ShownTypeOK, Requests
<1> USE DEF RerunInv
<1>1. ASSUME PageStays, UNCHANGED <<asked, askers, hasty>> PROVE RerunInv'
  BY <1>1 DEF PageStays, EvaluationOwned, rowVars
<1>2. ASSUME NEW p \in Pages, NEW r \in Retriers, RetryEvaluation(p, r) PROVE RerunInv'
  <2>1. /\ asked' = [asked EXCEPT ![r] = p]
        /\ askers' = askers \cup {p}
        /\ report[p].evalStatus = "failed"
        /\ hasty' = (hasty \/ report[p].evalStatus # evalStatus
                           \/ EvaluationOwned \/ Retries # {})
        /\ PageStays
    BY <1>2, PageStaysCases DEF RetryEvaluation
  <2>2. SUFFICES ASSUME ~hasty' PROVE RerunInv'
    OBVIOUS
  <2>3. evalStatus = "failed" /\ ~EvaluationOwned /\ \A s \in Retriers : asked[s] = None
    BY <2>1, <2>2 DEF Retries
  <2>4. evalStatus' = "failed" /\ ~EvaluationOwned'
    BY <2>1, <2>3 DEF PageStays, EvaluationOwned, rowVars
  <2>. QED BY <1>0, <2>1, <2>3, <2>4
<1>3. ASSUME NEW r \in Retriers, AnswerRetry(r) \/ RetryFails(r) PROVE RerunInv'
  <2>1. asked' = [asked EXCEPT ![r] = None] /\ UNCHANGED <<askers, hasty>> /\ PageStays
    BY <1>3, PageStaysCases DEF AnswerRetry, RetryFails
  <2>2. EvaluationOwned' <=> EvaluationOwned
    BY <2>1 DEF PageStays, EvaluationOwned
  <2>. QED BY <1>0, <2>1, <2>2 DEF PageStays, rowVars
<1>4. ASSUME NEW r \in Retriers, ServeRetry(r) PROVE RerunInv'
  <2>1. UNCHANGED <<asked, askers, hasty>> /\ asked[r] # None
    BY <1>4 DEF ServeRetry
  <2>2. \A s \in Requests : s # r => pc'[s] = pc[s] /\ seen'[s] = seen[s]
    BY <1>4, ServedCases
  <2>3. SUFFICES ASSUME ~hasty, None \notin askers, NEW s \in Retriers, asked[s] # None,
                        pc'[s] \in {"new", "reset"}
                 PROVE  /\ evalStatus' = "failed" /\ ~EvaluationOwned'
                        /\ \A t \in Retriers : asked[t] # None => t = s
    BY <2>1
  <2>4. CASE s # r
    BY <1>0, <2>1, <2>2, <2>3, <2>4
  <2>5. CASE s = r
    <3>1. pc[r] = "new" /\ pc'[r] \in {"reset", "rejected"}
          /\ UNCHANGED <<rowVars, queue, workerVars>>
      BY <1>4, <2>3, <2>5, ServedCases
    <3>2. evalStatus = "failed" /\ ~EvaluationOwned /\ \A t \in Retriers : asked[t] # None => t = s
      BY <2>3, <2>5, <3>1
    <3>3. ~EvaluationOwned'
      BY <1>0, <2>2, <3>1, <3>2 DEF EvaluationOwned, workerVars
    <3>. QED BY <3>1, <3>2, <3>3 DEF rowVars
  <2>. QED BY <2>4, <2>5
<1>5. ASSUME NEW m \in patches, ServeDecision(m) PROVE RerunInv'
  <2>1. UNCHANGED <<asked, askers, hasty, evalStatus, pc, seen, queue, wpc, loaded>>
    BY <1>5 DEF ServeDecision, SetDecision, retryVars, requestVars, workerVars
  <2>2. EvaluationOwned' <=> EvaluationOwned
    BY <2>1 DEF EvaluationOwned
  <2>. QED BY <2>1, <2>2
<1>6. ASSUME ServerStep PROVE RerunInv'
  <2>1. UNCHANGED <<asked, hasty>> /\ askers \subseteq askers'
    BY <1>6 DEF ServerStep
  <2>2. \A r \in Retriers : pc'[r] \in {"new", "reset"} => pc'[r] = pc[r]
    <3>1. CASE ApiRestarts
      BY <1>0, <3>1 DEF ApiRestarts, Running, InCascade
    <3>. QED BY <1>6, <3>1, RetriersIdle
  <2>. QED BY <1>6, <2>1, <2>2, FailureStays
<1>7. ASSUME NEW p \in Pages, NEW d \in Decisions, Open(p) \/ Poll(p) \/ Leave(p) \/ Decide(p, d)
      PROVE  RerunInv'
  BY <1>1, <1>7, PageStaysCases DEF Open, Poll, Leave, Decide, retryVars
<1>8. ASSUME NEW p \in Pages, NEW k \in Keys, Play(p, k) PROVE RerunInv'
  BY <1>1, <1>8, PageStaysCases DEF Play, retryVars
<1>9. ASSUME NEW m, ReplyArrives(m) \/ ReplyLost(m) \/ ClipArrives(m) PROVE RerunInv'
  BY <1>1, <1>9, PageStaysCases DEF ReplyArrives, ReplyLost, ClipArrives, retryVars
<1>10. ASSUME UNCHANGED <<vars, reportVars>> PROVE RerunInv'
  BY <1>1, <1>10, PageStaysCases DEF reportVars, retryVars
<1> HIDE DEF RerunInv
<1>11. "None" \in Decisions
  BY EvaluationAssumption
<1>. QED
  BY <1>2, <1>3, <1>4, <1>5, <1>6, <1>7, <1>8, <1>9, <1>10, <1>11 DEF ReportNext, PageNext

-----------------------------------------------------------------------------
(* An evaluation that has just been asked for, and one that is over.       *)
LEMMA ChainEnds ==
    ASSUME TypeOK, \A w \in Workers : wpc'[w] = "idle", queue' = 0,
           \A r, s \in Requests : Triggers(r)' /\ Triggers(s)' => r = s,
           \A r \in Requests : pc'[r] # "record",
           \/ evalStatus' = "pending" /\ \A r \in Retriers : pc'[r] # "reset"
           \/ evalStatus' # "pending" /\ \A r \in Requests : pc'[r] # "trigger"
    PROVE  Chain'
BY DEF Chain, Triggers

LEMMA ChainBehind ==
    ASSUME TypeOK, RequestInv, SeenInv, EvaluationFollowsCompletion,
           Chain, ServerStep, None \notin askers'
    PROVE  Chain'
<1>0. /\ pc \in [Requests -> RequestStates] /\ seen \in [Requests -> EvaluationColumns]
      /\ wpc \in [Workers -> {"idle", "scoring", "storing", "failing"}]
      /\ loaded \in [Workers -> EvaluationColumns] /\ queue \in Nat
      /\ Retriers \subseteq Requests
  BY DEF TypeOK, Requests
<1>1. ASSUME NEW r \in Requests \ Retriers, Completing(r) PROVE Chain'
  <2>1. /\ evalStatus = "idle" /\ evalStatus' = "pending"
        /\ \A s \in Retriers : pc[s] # "reset"
        /\ \A s \in Requests : s # r => pc'[s] = pc[s]
        /\ pc'[r] = "trigger"
    BY <1>1, CompletionCases
  <2>2. UNCHANGED <<queue, wpc>>
    BY <1>1 DEF Completing, workerVars
  <2>3. /\ \A s \in Requests : ~Triggers(s)
        /\ queue = 0 /\ \A w \in Workers : wpc[w] = "idle"
    BY <2>1 DEF Chain
  <2>4. /\ \A s \in Requests : Triggers(s)' => s = r
        /\ \A s \in Requests : pc'[s] # "record"
        /\ \A s \in Retriers : pc'[s] # "reset"
    BY <1>0, <2>1, <2>3 DEF Triggers
  <2>. QED BY <2>1, <2>2, <2>3, <2>4, ChainEnds
<1>2. ASSUME NEW r \in Requests, Enqueue(r), UNCHANGED workerVars PROVE Chain'
  <2>1. /\ pc[r] = "trigger" /\ pc' = [pc EXCEPT ![r] = "ok"] /\ queue' = queue + 1
        /\ UNCHANGED <<evalStatus, seen, wpc, loaded>>
    BY <1>2 DEF Enqueue, rowVars, workerVars
  <2>2. /\ evalStatus = "pending" /\ queue = 0 /\ \A w \in Workers : wpc[w] = "idle"
        /\ \A s \in Requests : Triggers(s) => s = r
    BY <2>1 DEF Chain, Triggers
  <2>3. \A s \in Requests : ~Triggers(s)'
    BY <1>0, <2>1, <2>2 DEF Triggers
  <2>4. \A s \in Retriers : pc'[s] # "reset"
    BY <1>0, <2>1, <2>2 DEF Chain
  <2>. QED BY <2>1, <2>2, <2>3, <2>4 DEF Chain, Triggers
<1>3. ASSUME NEW r \in Requests, EnqueueFails(r), UNCHANGED workerVars PROVE Chain'
  <2>1. /\ pc[r] = "trigger" /\ pc' = [pc EXCEPT ![r] = "record"]
        /\ seen' = [seen EXCEPT ![r] = Loaded]
        /\ UNCHANGED <<evalStatus, queue, wpc, loaded>>
    BY <1>3 DEF EnqueueFails, rowVars, workerVars
  <2>2. /\ evalStatus = "pending" /\ queue = 0 /\ \A w \in Workers : wpc[w] = "idle"
        /\ \A s \in Requests : Triggers(s) => s = r
    BY <2>1 DEF Chain, Triggers
  <2>3. \A s \in Requests : Triggers(s)' => s = r
    BY <1>0, <2>1, <2>2 DEF Triggers
  <2>4. \A s \in Retriers : pc'[s] # "reset"
    BY <1>0, <2>1, <2>2 DEF Chain
  <2>5. seen'[r].evalStatus = "pending"
    BY <1>0, <2>1, <2>2 DEF Loaded
  <2>. QED BY <2>1, <2>2, <2>3, <2>4, <2>5 DEF Chain, Triggers
<1>4. ASSUME NEW r \in Requests, RecordEnqueueFailure(r), UNCHANGED workerVars PROVE Chain'
  <2>1. /\ pc[r] = "record" /\ pc' = [pc EXCEPT ![r] = "ok"]
        /\ evalStatus' = Flush(seen[r].evalStatus, "failed", evalStatus)
        /\ UNCHANGED <<queue, wpc>>
    BY <1>4 DEF RecordEnqueueFailure, RecordFailure, workerVars
  <2>2. /\ evalStatus = "pending" /\ queue = 0 /\ \A w \in Workers : wpc[w] = "idle"
        /\ \A s \in Requests : Triggers(s) => s = r
        /\ seen[r].evalStatus = "pending"
    BY <2>1 DEF Chain, Triggers
  <2>3. \A s \in Requests : ~Triggers(s)'
    BY <1>0, <2>1, <2>2 DEF Triggers
  <2>4. evalStatus' = "failed"
    BY <2>1, <2>2 DEF Flush
  <2>. QED BY <2>1, <2>2, <2>3, <2>4, ChainEnds DEF Triggers
<1>5. ASSUME NEW w \in Workers, NEW h \in BOOLEAN, TakeTask(w, h) PROVE Chain'
  <2>1. /\ queue > 0 /\ queue' = queue - 1
        /\ \/ wpc' = [wpc EXCEPT ![w] = "scoring"] /\ UNCHANGED loaded
           \/ wpc' = [wpc EXCEPT ![w] = "failing"] /\ loaded' = [loaded EXCEPT ![w] = Loaded]
        /\ UNCHANGED <<evalStatus, pc, seen>>
    BY <1>5 DEF TakeTask, rowVars, requestVars
  <2>2. /\ evalStatus = "pending" /\ queue' = 0 /\ \A x \in Workers : wpc[x] = "idle"
        /\ \A s \in Requests : ~Triggers(s)
    BY <1>0, <2>1 DEF Chain
  <2>3. \A x \in Workers : x # w => wpc'[x] = "idle"
    BY <1>0, <2>1, <2>2
  <2>4. wpc'[w] = "scoring" \/ (wpc'[w] = "failing" /\ loaded'[w].evalStatus = "pending")
    BY <1>0, <2>1, <2>2 DEF Loaded
  <2>5. \A s \in Requests : ~Triggers(s)'
    BY <2>1, <2>2 DEF Triggers
  <2>. QED BY <2>1, <2>2, <2>3, <2>4, <2>5 DEF Chain, Triggers
<1>6. ASSUME NEW w \in Workers, JudgeAnswers(w) \/ JudgeFails(w) PROVE Chain'
  <2>1. /\ wpc[w] # "idle" /\ wpc' \in {[wpc EXCEPT ![w] = "storing"], [wpc EXCEPT ![w] = "failing"]}
        /\ loaded' = [loaded EXCEPT ![w] = Loaded]
        /\ UNCHANGED <<evalStatus, queue, pc, seen>>
    BY <1>6 DEF JudgeAnswers, JudgeFails, rowVars, requestVars
  <2>2. /\ evalStatus = "pending" /\ queue = 0 /\ \A x \in Workers : wpc[x] # "idle" => x = w
        /\ \A s \in Requests : ~Triggers(s)
    BY <1>0, <2>1 DEF Chain
  <2>3. \A x \in Workers : x # w => wpc'[x] = "idle"
    BY <1>0, <2>1, <2>2
  <2>4. loaded'[w].evalStatus = "pending"
    BY <1>0, <2>1, <2>2 DEF Loaded
  <2>5. \A s \in Requests : ~Triggers(s)'
    BY <2>1, <2>2 DEF Triggers
  <2>. QED BY <2>1, <2>2, <2>3, <2>4, <2>5 DEF Chain, Triggers
<1>7. ASSUME NEW w \in Workers, StoreScore(w) \/ MarkFailed(w) PROVE Chain'
  <2>1. /\ wpc[w] \in {"storing", "failing"} /\ wpc' = [wpc EXCEPT ![w] = "idle"]
        /\ evalStatus' \in {Flush(loaded[w].evalStatus, "complete", evalStatus),
                            Flush(loaded[w].evalStatus, "failed", evalStatus)}
        /\ UNCHANGED <<queue, pc, seen>>
    BY <1>7 DEF StoreScore, MarkFailed, RecordFailure, Finish, requestVars
  <2>2. /\ loaded[w].evalStatus = "pending"
        /\ queue = 0 /\ \A x \in Workers : wpc[x] # "idle" => x = w
        /\ \A s \in Requests : ~Triggers(s)
    BY <1>0, <2>1 DEF Chain
  <2>3. \A x \in Workers : wpc'[x] = "idle"
    BY <1>0, <2>1, <2>2
  <2>4. evalStatus' # "pending"
    BY <2>1, <2>2 DEF Flush
  <2>5. \A s \in Requests : ~Triggers(s)'
    BY <2>1, <2>2 DEF Triggers
  <2>. QED BY <2>1, <2>2, <2>3, <2>4, <2>5, ChainEnds DEF Triggers
<1>8. ASSUME NEW w \in Workers, WorkerCrashes(w) PROVE Chain'
  <2>1. /\ wpc' = [wpc EXCEPT ![w] = "idle"] /\ loaded' = [loaded EXCEPT ![w] = NotLoaded]
        /\ UNCHANGED <<evalStatus, queue, pc, seen>>
    BY <1>8 DEF WorkerCrashes, Finish, rowVars, requestVars
  <2>2. \A x \in Workers : wpc'[x] # "idle" => wpc'[x] = wpc[x] /\ loaded'[x] = loaded[x]
    BY <1>0, <2>1
  <2>3. \A s \in Requests : Triggers(s)' <=> Triggers(s)
    BY <2>1 DEF Triggers
  <2>. QED BY <1>0, <2>1, <2>2, <2>3 DEF Chain
<1>9. ASSUME BrokerRestarts PROVE Chain'
  <2>1. queue' = 0 /\ UNCHANGED <<evalStatus, pc, seen, wpc, loaded>>
    BY <1>9 DEF BrokerRestarts, rowVars, requestVars, workerVars
  <2>. QED BY <2>1 DEF Chain, Triggers
<1>10. ASSUME ApiRestarts PROVE Chain'
  <2>1. \A s \in Requests : pc'[s] \notin Running
    BY <1>0, <1>10 DEF ApiRestarts, Running, InCascade, RequestStates, Answered
  <2>2. UNCHANGED <<evalStatus, queue, wpc, loaded>>
    BY <1>10 DEF ApiRestarts, rowVars, workerVars
  <2>3. \A s \in Requests : ~Triggers(s)' /\ pc'[s] \notin {"record", "reset"}
    BY <2>1 DEF Triggers, Running
  <2>. QED BY <1>0, <2>2, <2>3 DEF Chain
<1>11. ASSUME Resting, \A r \in Retriers : pc'[r] = pc[r] PROVE Chain'
  <2>1. UNCHANGED <<evalStatus, queue, wpc, loaded>>
        /\ \A s \in Requests : Triggers(s)' <=> Triggers(s)
    BY <1>11 DEF Resting, workerVars, Triggers
  <2>2. \A s \in Requests : pc'[s] = "record" => seen'[s].evalStatus = "pending"
    <3>1. \A s \in Requests : pc[s] = "record" => seen[s].evalStatus = "pending"
      BY DEF Chain
    <3>2. \A s \in Requests : pc'[s] = "record" => pc[s] = "record" /\ seen'[s] = seen[s]
      BY <1>11 DEF Resting
    <3>. QED BY <3>1, <3>2
  <2>3. \A s \in Retriers : pc'[s] = "reset" => evalStatus # "pending"
    BY <1>11 DEF Chain
  <2> HIDE <1>11
  <2>. QED BY <2>1, <2>2, <2>3 DEF Chain
<1>. QED
  BY <1>1, <1>2, <1>3, <1>4, <1>5, <1>6, <1>7, <1>8, <1>9, <1>10, <1>11, BehindCases

LEMMA ChainStep ==
    ASSUME TypeOK, RequestInv, SeenInv, EvaluationFollowsCompletion,
           ShownTypeOK, RetryInv, ChainInv, [ReportNext]_<<vars, reportVars>>
    PROVE  ChainInv'
<1>0. /\ pc \in [Requests -> RequestStates] /\ Retriers \subseteq Requests
      /\ seen \in [Requests -> EvaluationColumns]
      /\ asked \in [Retriers -> Pages \cup {None}] /\ None \notin Pages
  BY ReportAssumption DEF TypeOK, ShownTypeOK, Requests
<1>1. ASSUME PageStays, askers \subseteq askers' PROVE ChainInv'
  BY <1>1 DEF PageStays, rowVars, ChainInv, Sole, Chain, Triggers
<1>2. ASSUME NEW r \in Retriers, ServeRetry(r) PROVE ChainInv'
  <2>1. SUFFICES ASSUME Sole PROVE Chain'
    BY <1>2 DEF ServeRetry, ChainInv, Sole
  <2>2. Chain
    BY <2>1 DEF ChainInv
  <2>3. /\ asked[r] # None
        /\ \A s \in Requests : s # r => pc'[s] = pc[s] /\ seen'[s] = seen[s]
    BY <1>2, ServedCases
  <2>4. ASSUME UNCHANGED <<rowVars, queue, workerVars>>, pc[r] = "new",
               \/ pc'[r] = "reset" /\ evalStatus # "pending"
               \/ pc'[r] = "rejected"
        PROVE  Chain'
    <3>1. \A s \in Requests : /\ Triggers(s)' => Triggers(s)
                              /\ pc'[s] = "record" => pc[s] = "record" /\ seen'[s] = seen[s]
      BY <1>0, <2>3, <2>4 DEF Triggers
    <3>2. \A s \in Retriers : pc'[s] = "reset" => evalStatus # "pending"
      BY <1>0, <2>2, <2>3, <2>4 DEF Chain
    <3>. QED BY <2>2, <2>4, <3>1, <3>2 DEF Chain, rowVars, workerVars
  <2>5. ASSUME pc[r] = "reset", pc'[r] = "trigger",
               evalStatus' = Flush(seen[r].evalStatus, "pending", evalStatus),
               UNCHANGED <<queue, workerVars>>
        PROVE  Chain'
    <3>1. evalStatus # "pending" /\ seen[r].evalStatus # "pending"
      BY <2>2, <2>5 DEF Chain, SeenInv
    <3>2. evalStatus' = "pending"
      BY <2>5, <3>1 DEF Flush
    <3>3. \A s \in Retriers : pc[s] = "reset" => s = r
      BY <2>1, <2>3, <2>5 DEF RetryInv, Sole
    <3>4. /\ \A s \in Requests : ~Triggers(s)
          /\ queue = 0 /\ \A w \in Workers : wpc[w] = "idle"
      BY <2>2, <3>1 DEF Chain
    <3>5. /\ \A s \in Requests : Triggers(s)' => s = r
          /\ \A s \in Requests : pc'[s] # "record"
          /\ \A s \in Retriers : pc'[s] # "reset"
      BY <1>0, <2>3, <2>5, <3>3, <3>4 DEF Triggers
    <3>. QED BY <2>5, <3>2, <3>4, <3>5, ChainEnds DEF workerVars
  <2>6. ASSUME pc[r] = "trigger", pc'[r] = "ok", UNCHANGED workerVars,
               \/ queue' = queue + 1 /\ UNCHANGED rowVars
               \/ evalStatus' = "failed" /\ UNCHANGED queue
        PROVE  Chain'
    <3>1. /\ evalStatus = "pending" /\ queue = 0 /\ \A w \in Workers : wpc[w] = "idle"
          /\ \A s \in Requests : Triggers(s) => s = r
      BY <1>0, <2>2, <2>6 DEF Chain, Triggers
    <3>2. \A s \in Requests : ~Triggers(s)'
      BY <1>0, <2>3, <2>6, <3>1 DEF Triggers
    <3>3. \A s \in Retriers : pc'[s] # "reset"
      BY <1>0, <2>2, <2>3, <2>6, <3>1 DEF Chain
    <3>. QED BY <2>6, <3>1, <3>2, <3>3 DEF Chain, Triggers, rowVars, workerVars
  <2> HIDE DEF Chain
  <2>. QED BY <1>2, <2>4, <2>5, <2>6, ServedCases
<1>3. ASSUME NEW m \in patches, ServeDecision(m) PROVE ChainInv'
  <2>1. UNCHANGED <<askers, evalStatus, pc, seen, queue, wpc, loaded>>
    BY <1>3 DEF ServeDecision, SetDecision, retryVars, requestVars, workerVars
  <2>. QED BY <2>1 DEF ChainInv, Sole, Chain, Triggers
<1>4. ASSUME ServerStep PROVE ChainInv'
  <2>1. askers \subseteq askers'
    BY <1>4 DEF ServerStep
  <2>2. SUFFICES ASSUME Sole' PROVE Chain'
    BY DEF ChainInv
  <2>3. Sole /\ None \notin askers'
    BY <2>1, <2>2 DEF Sole
  <2>. QED BY <1>4, <2>3, ChainBehind DEF ChainInv
<1>5. ASSUME NEW p \in Pages, NEW d \in Decisions, Open(p) \/ Poll(p) \/ Leave(p) \/ Decide(p, d)
      PROVE  ChainInv'
  BY <1>1, <1>5, PageStaysCases DEF Open, Poll, Leave, Decide, retryVars
<1>6. ASSUME NEW p \in Pages, NEW r \in Retriers, RetryEvaluation(p, r) PROVE ChainInv'
  BY <1>1, <1>6, PageStaysCases DEF RetryEvaluation
<1>7. ASSUME NEW p \in Pages, NEW k \in Keys, Play(p, k) PROVE ChainInv'
  BY <1>1, <1>7, PageStaysCases DEF Play, retryVars
<1>8. ASSUME NEW m, ReplyArrives(m) \/ ReplyLost(m) \/ ClipArrives(m) PROVE ChainInv'
  BY <1>1, <1>8, PageStaysCases DEF ReplyArrives, ReplyLost, ClipArrives, retryVars
<1>9. ASSUME NEW r \in Retriers, AnswerRetry(r) \/ RetryFails(r) PROVE ChainInv'
  BY <1>1, <1>9, PageStaysCases DEF AnswerRetry, RetryFails
<1>10. ASSUME UNCHANGED <<vars, reportVars>> PROVE ChainInv'
  BY <1>1, <1>10, PageStaysCases DEF reportVars, retryVars
<1>11. "None" \in Decisions
  BY EvaluationAssumption
<1>. QED
  BY <1>2, <1>3, <1>4, <1>5, <1>6, <1>7, <1>8, <1>9, <1>10, <1>11 DEF ReportNext, PageNext

-----------------------------------------------------------------------------
(* An outcome that nobody asks to replace stays.                           *)
LEMMA OutcomeStays ==
    ASSUME TypeOK, RequestInv, SeenInv, EvaluationFollowsCompletion, Chain, ServerStep,
           None \notin askers', evalStatus \in {"complete", "failed"}
    PROVE  UNCHANGED <<evalStatus, scored>>
<1>1. /\ \A r \in Requests : pc[r] \notin {"trigger", "record"}
      /\ queue = 0
      /\ \A w \in Workers : wpc[w] = "idle"
  BY DEF Chain, Triggers
<1>2. ASSUME NEW r \in Requests \ Retriers, Completing(r) PROVE FALSE
  BY <1>2, CompletionCases
<1>3. ASSUME NEW r \in Requests, Enqueue(r) \/ EnqueueFails(r) \/ RecordEnqueueFailure(r)
      PROVE  FALSE
  BY <1>1, <1>3 DEF Enqueue, EnqueueFails, RecordEnqueueFailure
<1>4. ASSUME NEW w \in Workers, NEW h \in BOOLEAN, TakeTask(w, h) PROVE FALSE
  BY <1>1, <1>4 DEF TakeTask
<1>5. ASSUME NEW w \in Workers, \/ JudgeAnswers(w) \/ StoreScore(w) \/ JudgeFails(w)
                                \/ MarkFailed(w) \/ WorkerCrashes(w)
      PROVE  FALSE
  BY <1>1, <1>5 DEF JudgeAnswers, StoreScore, JudgeFails, MarkFailed, WorkerCrashes
<1>6. ASSUME BrokerRestarts \/ ApiRestarts PROVE UNCHANGED <<evalStatus, scored>>
  BY <1>6 DEF BrokerRestarts, ApiRestarts, rowVars
<1>7. ASSUME Resting PROVE UNCHANGED <<evalStatus, scored>>
  BY <1>7 DEF Resting
<1>. QED BY <1>2, <1>3, <1>4, <1>5, <1>6, <1>7, BehindCases

(* What the invariant asks of one view that page p shows or will show.     *)
Honest(p, v, b) == Right(v) \/ Ahead(p, b)

(* Nothing that makes a view old goes away, and the row stays.             *)
LEMMA HonestStays ==
    ASSUME ShownTypeOK, ShownTypeOK', NEW p \in Pages, NEW v, NEW b \in Nat, Honest(p, v, b),
           UNCHANGED <<evalStatus, scored>>,
           newest[p] <= newest'[p], ver <= ver',
           \A r \in Retriers :
              asked[r] = p /\ pc[r] \in {"trigger", "ok", "dead"} =>
                 asked'[r] = p /\ pc'[r] \in {"trigger", "ok", "dead"},
           \A m \in replies : m.to = p => m \in replies'
    PROVE  Honest(p, v, b)'
<1>1. Right(v) => Right(v)'
  BY DEF Right
<1>2. b < newest[p] => b < newest'[p]
  BY DEF ShownTypeOK
<1>3. b < ver => b < ver'
  BY DEF ShownTypeOK
<1>. QED BY <1>1, <1>2, <1>3 DEF Honest, Ahead

LEMMA ShownOutcomeStep ==
    ASSUME TypeOK, TypeOK', RequestInv, SeenInv, EvaluationFollowsCompletion, PlayerTypeOK,
           ShownTypeOK, ShownTypeOK', RetryInv, ChainInv, OutcomeInv,
           [ReportNext]_<<vars, reportVars>>
    PROVE  OutcomeInv'
<1>0. /\ pc \in [Requests -> RequestStates] /\ Retriers \subseteq Requests
      /\ asked \in [Retriers -> Pages \cup {None}] /\ None \notin Pages
      /\ ver \in Nat /\ ver' \in Nat
      /\ basis \in [Pages -> Nat] /\ newest \in [Pages -> Nat] /\ newest' \in [Pages -> Nat]
      /\ \A p \in Pages : basis[p] <= ver
      /\ \A m \in replies : m.to \in Pages /\ m.basis \in Nat /\ m.basis <= ver
  BY ReportAssumption DEF TypeOK, ShownTypeOK, Requests
<1>17. OutcomeInv <=>
        \A p \in Pages :
          page[p] # "left" /\ p \notin unanswered /\ askers \subseteq {p} =>
            /\ Honest(p, report[p], basis[p])
            /\ \A m \in replies : m.to = p => Honest(p, m.view, m.basis)
  BY DEF OutcomeInv, Honest
<1>18. OutcomeInv' <=>
        \A p \in Pages :
          page'[p] # "left" /\ p \notin unanswered' /\ askers' \subseteq {p} =>
            /\ Honest(p, report[p], basis[p])'
            /\ \A m \in replies' : m.to = p => Honest(p, m.view, m.basis)'
  BY DEF OutcomeInv, Honest
<1>19. ASSUME NEW p \in Pages, askers \subseteq {p}
      PROVE  Chain /\ \A r \in Retriers : asked[r] # None => asked[r] = p
  BY <1>0, <1>19 DEF ChainInv, Sole, RetryInv
\* A step that shows nothing and does nothing to the outcome.
<1>1. ASSUME UNCHANGED <<evalStatus, scored, report, basis, newest>>,
             ver <= ver', unanswered \subseteq unanswered',
             \A p \in Pages : page'[p] # "left" => page[p] # "left",
             askers \subseteq askers',
             \A p \in Pages, r \in Retriers :
                page'[p] # "left" /\ p \notin unanswered' /\ askers' \subseteq {p} /\ asked[r] = p
                /\ pc[r] \in {"trigger", "ok", "dead"} =>
                   asked'[r] = p /\ pc'[r] \in {"trigger", "ok", "dead"},
             \A m \in replies : page'[m.to] # "left" /\ m.to \notin unanswered' => m \in replies',
             \A m \in replies' : m \in replies \/ m.view = View'
      PROVE  OutcomeInv'
  <2>1. SUFFICES ASSUME NEW p \in Pages, page'[p] # "left", p \notin unanswered',
                        askers' \subseteq {p}
                 PROVE  /\ Honest(p, report[p], basis[p])'
                        /\ \A m \in replies' : m.to = p => Honest(p, m.view, m.basis)'
    BY <1>18
  <2>2. page[p] # "left" /\ p \notin unanswered /\ askers \subseteq {p}
    BY <1>1, <2>1
  <2>3. \A v : \A b \in Nat : Honest(p, v, b) => Honest(p, v, b)'
    <3>1. \A m \in replies : m.to = p => m \in replies'
      BY <1>1, <2>1
    <3>2. \A r \in Retriers :
              asked[r] = p /\ pc[r] \in {"trigger", "ok", "dead"} =>
                 asked'[r] = p /\ pc'[r] \in {"trigger", "ok", "dead"}
      BY <1>1, <2>1
    <3>3. newest[p] <= newest'[p]
      BY <1>0, <1>1
    <3>. QED BY <1>1, <3>1, <3>2, <3>3, HonestStays
  <2>4. Honest(p, report[p], basis[p])'
    <3>1. PICK v : v = report[p]
      OBVIOUS
    <3>2. PICK b \in Nat : b = basis[p]
      BY <1>0
    <3>3. Honest(p, v, b)
      BY <1>17, <2>2, <3>1, <3>2
    <3>4. Honest(p, v, b)'
      BY <2>3, <3>3
    <3>5. v = report'[p] /\ b = basis'[p]
      BY <1>1, <3>1, <3>2
    <3>. QED BY <3>4, <3>5 DEF Honest, Right, Ahead
  <2>5. ASSUME NEW m \in replies', m.to = p PROVE Honest(p, m.view, m.basis)'
    <3>1. CASE m \in replies
      BY <1>0, <1>17, <2>2, <2>3, <2>5, <3>1
    <3>2. CASE m.view = View'
      BY <3>2 DEF View, Honest, Right
    <3>. QED BY <1>1, <2>5, <3>1, <3>2
  <2>. QED BY <2>4, <2>5

<1>2. ASSUME NEW p \in Pages, Open(p) \/ Poll(p) PROVE OutcomeInv'
  <2>1. /\ PageStays
        /\ \A q \in Pages : page'[q] # "left" => page[q] # "left"
        /\ replies' = replies \cup ReplyTo(p, "load")
        /\ UNCHANGED <<report, basis, newest, unanswered, asked, askers, ver>>
    BY <1>2, PageStaysCases DEF Open, Poll, FetchReport, shownVars, retryVars, PlayerTypeOK
  <2>2. \A m \in replies' : m \in replies \/ m.view = View'
    BY <2>1 DEF ReplyTo
  <2>. QED BY <1>0, <1>1, <2>1, <2>2 DEF PageStays, rowVars
<1>3. ASSUME NEW p \in Pages, Leave(p) PROVE OutcomeInv'
  <2>1. /\ PageStays
        /\ \A q \in Pages : page'[q] # "left" => page[q] # "left"
        /\ replies' = {m \in replies : m.to # p}
        /\ page'[p] = "left"
        /\ UNCHANGED <<report, basis, newest, unanswered, asked, askers, ver>>
    BY <1>3, PageStaysCases DEF Leave, shownVars, retryVars, PlayerTypeOK
  <2>2. \A m \in replies : page'[m.to] # "left" => m \in replies'
    BY <2>1
  <2>. QED BY <1>0, <1>1, <2>1, <2>2 DEF PageStays, rowVars
<1>4. ASSUME NEW p \in Pages, NEW d, Decide(p, d) PROVE OutcomeInv'
  <2>1. /\ PageStays
        /\ UNCHANGED <<page, replies, report, basis, newest, unanswered, asked, askers, ver>>
    BY <1>4, PageStaysCases DEF Decide, shownVars, retryVars
  <2>. QED BY <1>0, <1>1, <2>1 DEF PageStays, rowVars
<1>5. ASSUME NEW p \in Pages, NEW k \in Keys, Play(p, k) PROVE OutcomeInv'
  <2>1. /\ PageStays
        /\ UNCHANGED <<page, replies, report, basis, newest, unanswered, asked, askers, ver>>
    BY <1>5, PageStaysCases DEF Play, shownVars, retryVars
  <2>. QED BY <1>0, <1>1, <2>1 DEF PageStays, rowVars
<1>6. ASSUME NEW c \in clips, ClipArrives(c) PROVE OutcomeInv'
  <2>1. /\ PageStays
        /\ UNCHANGED <<page, replies, report, basis, newest, unanswered, asked, askers, ver>>
    BY <1>6, PageStaysCases DEF ClipArrives, shownVars, retryVars
  <2>. QED BY <1>0, <1>1, <2>1 DEF PageStays, rowVars
<1>7. ASSUME NEW p \in Pages, NEW r \in Retriers, RetryEvaluation(p, r) PROVE OutcomeInv'
  <2>1. /\ PageStays
        /\ asked[r] = None /\ asked' = [asked EXCEPT ![r] = p]
        /\ askers' = askers \cup {p}
        /\ UNCHANGED <<page, replies, report, basis, newest, unanswered, ver>>
    BY <1>7, PageStaysCases DEF RetryEvaluation
  <2>2. \A s \in Retriers : asked[s] # None => asked'[s] = asked[s]
    BY <1>0, <2>1
  <2>. QED BY <1>0, <1>1, <2>1, <2>2 DEF PageStays, rowVars
<1>8. ASSUME NEW m \in replies, ReplyLost(m) PROVE OutcomeInv'
  <2>1. /\ PageStays
        /\ replies' = replies \ {m}
        /\ unanswered' = unanswered \cup {m.to}
        /\ UNCHANGED <<page, report, basis, newest, asked, askers, ver>>
    BY <1>8, PageStaysCases DEF ReplyLost, retryVars
  <2>. QED BY <1>0, <1>1, <2>1 DEF PageStays, rowVars
<1>9. ASSUME NEW m \in patches, ServeDecision(m) PROVE OutcomeInv'
  <2>1. /\ UNCHANGED <<evalStatus, scored, pc, page, report, basis, newest, unanswered,
                        asked, askers>>
        /\ ver <= ver'
        /\ replies' = replies \cup ReplyTo(m.by, "decision")
    BY <1>0, <1>9 DEF ServeDecision, SetDecision, shownVars, retryVars, requestVars
  <2>2. \A n \in replies' : n \in replies \/ n.view = View'
    BY <2>1 DEF ReplyTo
  <2>. QED BY <1>0, <1>1, <2>1, <2>2
<1>10. ASSUME NEW r \in Retriers, RetryFails(r) PROVE OutcomeInv'
  <2>1. /\ PageStays
        /\ pc[r] \in {"rejected", "dead"}
        /\ asked' = [asked EXCEPT ![r] = None]
        /\ unanswered' = unanswered \cup (IF pc[r] = "dead" THEN {asked[r]} ELSE {})
        /\ UNCHANGED <<page, replies, report, basis, newest, askers, ver>>
    BY <1>10, PageStaysCases DEF RetryFails
  <2>2. \A s \in Retriers : s # r => asked'[s] = asked[s]
    BY <1>0, <2>1
  <2>. QED BY <1>0, <1>1, <2>1, <2>2 DEF PageStays, rowVars
<1>11. ASSUME UNCHANGED <<vars, reportVars>> PROVE OutcomeInv'
  <2>1. /\ PageStays
        /\ UNCHANGED <<page, replies, report, basis, newest, unanswered, asked, askers, ver>>
    BY <1>11, PageStaysCases DEF reportVars, shownVars, retryVars
  <2>. QED BY <1>0, <1>1, <2>1 DEF PageStays, rowVars
<1>12. ASSUME NEW m \in replies, ReplyArrives(m) PROVE OutcomeInv'
  <2>1. /\ PageStays
        /\ replies' = replies \ {m}
        /\ report' = [report EXCEPT ![m.to] = m.view]
        /\ basis' = [basis EXCEPT ![m.to] = m.basis]
        /\ newest' = [newest EXCEPT ![m.to] = IF m.basis > @ THEN m.basis ELSE @]
        /\ UNCHANGED <<page, unanswered, asked, askers, ver>>
    BY <1>12, PageStaysCases DEF ReplyArrives, retryVars
  <2>2. SUFFICES ASSUME NEW p \in Pages, page'[p] # "left", p \notin unanswered',
                        askers' \subseteq {p}
                 PROVE  /\ Honest(p, report[p], basis[p])'
                        /\ \A n \in replies' : n.to = p => Honest(p, n.view, n.basis)'
    BY <1>18
  <2>3. /\ Honest(p, report[p], basis[p])
        /\ \A n \in replies : n.to = p => Honest(p, n.view, n.basis)
    BY <1>17, <2>1, <2>2
  <2>4. report \in [Pages -> Views]
    BY DEF ShownTypeOK
  <2>5. CASE m.to # p
    <3>1. report'[p] = report[p] /\ basis'[p] = basis[p] /\ newest'[p] = newest[p]
      BY <1>0, <2>1, <2>4, <2>5
    <3>. QED BY <2>1, <2>3, <2>5, <3>1 DEF Honest, Right, Ahead, PageStays, rowVars
  <2>6. CASE m.to = p
    <3>1. /\ report'[p] = m.view /\ basis'[p] = m.basis
          /\ newest[p] <= newest'[p] /\ m.basis <= newest'[p]
      BY <1>0, <2>1, <2>4, <2>6
    <3>2. ASSUME NEW n \in replies, n.to = p
          PROVE  Right(n.view)' \/ Ahead(p, n.basis)'
      <4>1. Right(n.view) => Right(n.view)'
        BY <2>1 DEF Right, PageStays, rowVars
      <4>2. n.basis < newest[p] => n.basis < newest'[p]
        BY <1>0, <3>1
      <4>3. n.basis < m.basis => n.basis < newest'[p]
        BY <1>0, <3>1
      <4>4. Right(n.view) \/ Ahead(p, n.basis)
        BY <2>3, <3>2 DEF Honest
      <4>. QED BY <2>1, <4>1, <4>2, <4>3, <4>4 DEF Ahead, PageStays
    <3>3. Right(m.view)' \/ Ahead(p, m.basis)'
      BY <2>6, <3>2
    <3>4. Honest(p, report[p], basis[p])'
      BY <3>1, <3>3 DEF Honest, Right, Ahead
    <3>. QED BY <2>1, <3>2, <3>4 DEF Honest
  <2>. QED BY <2>5, <2>6
<1>13. ASSUME NEW r \in Retriers, AnswerRetry(r) PROVE OutcomeInv'
  <2>1. /\ PageStays
        /\ asked[r] \in Pages /\ pc[r] = "ok"
        /\ replies' = replies \cup ReplyTo(asked[r], "retry")
        /\ asked' = [asked EXCEPT ![r] = None]
        /\ UNCHANGED <<page, report, basis, newest, unanswered, askers, ver>>
    BY <1>0, <1>13, PageStaysCases DEF AnswerRetry, shownVars
  <2>2. SUFFICES ASSUME NEW p \in Pages, page'[p] # "left", p \notin unanswered',
                        askers' \subseteq {p}
                 PROVE  /\ Honest(p, report[p], basis[p])'
                        /\ \A n \in replies' : n.to = p => Honest(p, n.view, n.basis)'
    BY <1>18
  <2>3. /\ Honest(p, report[p], basis[p])
        /\ \A n \in replies : n.to = p => Honest(p, n.view, n.basis)
        /\ asked[r] = p /\ page[p] # "left"
    BY <1>0, <1>17, <1>19, <2>1, <2>2
  <2>4. PICK n \in replies' : n.to = p /\ n.view = View' /\ n.basis = ver'
    <3>1. PICK v : v = View'
      OBVIOUS
    <3>2. ReplyTo(p, "retry") = {[to |-> p, kind |-> "retry", view |-> v, basis |-> ver']}
      BY <2>3, <3>1 DEF ReplyTo
    <3>3. [to |-> p, kind |-> "retry", view |-> v, basis |-> ver'] \in replies'
      BY <2>1, <2>3, <3>2
    <3>. QED BY <3>1, <3>3
  <2>5. \A v : \A b \in Nat : Right(v) \/ Ahead(p, b) => Right(v)' \/ Ahead(p, b)'
    <3>1. SUFFICES ASSUME NEW v, NEW b \in Nat, Right(v) \/ Ahead(p, b)
                   PROVE  Right(v)' \/ Ahead(p, b)'
      OBVIOUS
    <3>2. CASE Right(v)
      BY <2>1, <3>2 DEF Right, PageStays, rowVars
    <3>3. CASE b < ver
      BY <2>1, <2>4, <3>3 DEF Ahead
    <3>4. CASE b < newest[p] \/ \E m \in replies : m.to = p /\ b < m.basis
      BY <2>1, <3>4 DEF Ahead
    <3>. QED BY <3>1, <3>2, <3>3, <3>4 DEF Ahead
  <2>6. Honest(p, report[p], basis[p])'
    <3>1. Right(report[p]) \/ Ahead(p, basis[p])
      BY <2>3 DEF Honest
    <3>2. PICK v : v = report[p]
      OBVIOUS
    <3>3. PICK b \in Nat : b = basis[p]
      BY <1>0
    <3>4. Right(v)' \/ Ahead(p, b)'
      BY <2>5, <3>1, <3>2, <3>3
    <3>5. v = report'[p] /\ b = basis'[p]
      BY <2>1, <3>2, <3>3
    <3>. QED BY <3>4, <3>5 DEF Honest, Right, Ahead
  <2>7. ASSUME NEW m \in replies', m.to = p PROVE Honest(p, m.view, m.basis)'
    <3>1. CASE m \in replies
      BY <1>0, <2>3, <2>5, <2>7, <3>1 DEF Honest
    <3>2. CASE m \notin replies
      BY <2>1, <2>7, <3>2 DEF ReplyTo, View, Honest, Right
    <3>. QED BY <3>1, <3>2
  <2>. QED BY <2>6, <2>7
\* A step that replaces no outcome that a page rightly shows.
<1>14. ASSUME UNCHANGED <<page, report, basis, newest, unanswered, asked, replies>>,
              askers \subseteq askers',
              ver <= ver',
              ASSUME NEW p \in Pages, askers' \subseteq {p}
              PROVE  /\ \A v : Right(v) => Right(v)' \/ \A b \in Nat : b <= ver => Ahead(p, b)'
                     /\ \A s \in Retriers :
                           asked[s] = p /\ pc[s] \in {"trigger", "ok", "dead"}
                           => pc'[s] \in {"trigger", "ok", "dead"}
       PROVE  OutcomeInv'
  <2>1. SUFFICES ASSUME NEW p \in Pages, page'[p] # "left", p \notin unanswered',
                        askers' \subseteq {p}
                 PROVE  /\ Honest(p, report[p], basis[p])'
                        /\ \A n \in replies' : n.to = p => Honest(p, n.view, n.basis)'
    BY <1>18
  <2>2. /\ Honest(p, report[p], basis[p])
        /\ \A n \in replies : n.to = p => Honest(p, n.view, n.basis)
    BY <1>14, <1>17, <2>1
  <2>3. ASSUME NEW v, NEW b \in Nat, b <= ver, Honest(p, v, b) PROVE Honest(p, v, b)'
    <3>1. CASE Right(v)
      BY <1>14, <2>1, <2>3, <3>1 DEF Honest
    <3>2. CASE Ahead(p, b)
      <4>1. b < ver => b < ver'
        BY <1>0, <1>14
      <4>2. \A s \in Retriers : asked[s] = p /\ pc[s] \in {"trigger", "ok", "dead"}
                                => asked'[s] = p /\ pc'[s] \in {"trigger", "ok", "dead"}
        BY <1>14, <2>1
      <4>3. newest' = newest /\ replies' = replies
        BY <1>14
      <4>. QED BY <3>2, <4>1, <4>2, <4>3 DEF Honest, Ahead
    <3>. QED BY <2>3, <3>1, <3>2 DEF Honest
  <2>4. Honest(p, report[p], basis[p])'
    <3>1. PICK v : v = report[p]
      OBVIOUS
    <3>2. PICK b \in Nat : b = basis[p]
      BY <1>0
    <3>3. Honest(p, v, b)'
      BY <1>0, <2>2, <2>3, <3>1, <3>2
    <3>4. v = report'[p] /\ b = basis'[p]
      BY <1>14, <3>1, <3>2
    <3>. QED BY <3>3, <3>4 DEF Honest, Right, Ahead
  <2>5. ASSUME NEW m \in replies', m.to = p PROVE Honest(p, m.view, m.basis)'
    <3>1. m \in replies
      BY <1>14
    <3>. QED BY <1>0, <2>2, <2>3, <2>5, <3>1
  <2>. QED BY <2>4, <2>5
<1>15. ASSUME NEW r \in Retriers, ServeRetry(r) PROVE OutcomeInv'
  <2>1. /\ UNCHANGED <<page, report, basis, newest, unanswered, asked, askers, replies>>
        /\ ver' = IF rowVars' = rowVars THEN ver ELSE ver + 1
        /\ asked[r] # None
    BY <1>15 DEF ServeRetry, shownVars
  <2>2. ASSUME NEW p \in Pages, askers' \subseteq {p}
        PROVE  /\ \A v : Right(v) => Right(v)' \/ \A b \in Nat : b <= ver => Ahead(p, b)'
               /\ \A s \in Retriers :
                     asked[s] = p /\ pc[s] \in {"trigger", "ok", "dead"}
                     => pc'[s] \in {"trigger", "ok", "dead"}
    <3>1. Chain /\ asked[r] = p
      BY <1>19, <2>1, <2>2
    <3>2. \A s \in Retriers : pc[s] \in {"trigger", "ok", "dead"}
                             => pc'[s] \in {"trigger", "ok", "dead"}
      BY <1>0, <1>15, ServedCases
    <3>3. ASSUME UNCHANGED rowVars
          PROVE  \A v : Right(v) => Right(v)'
      BY <3>3 DEF rowVars, Right
    <3>4. ASSUME pc[r] = "reset", pc'[r] = "trigger",
                 evalStatus' = Flush(seen[r].evalStatus, "pending", evalStatus)
          PROVE  \A b \in Nat : b <= ver => Ahead(p, b)'
      <4>1. evalStatus # "pending" /\ seen[r].evalStatus # "pending"
        BY <3>1, <3>4 DEF Chain, SeenInv
      <4>2. evalStatus' # evalStatus
        BY <3>4, <4>1 DEF Flush
      <4>3. ver' = ver + 1
        BY <2>1, <4>2 DEF rowVars
      <4>4. \A b \in Nat : b <= ver => b < ver'
        BY <1>0, <4>3
      <4>. QED BY <2>1, <3>1, <3>4, <4>4 DEF Ahead
    <3>5. ASSUME pc[r] = "trigger", evalStatus' = "failed", UNCHANGED scored
          PROVE  \A v : Right(v) => Right(v)'
      <4>1. evalStatus = "pending"
        BY <1>0, <3>1, <3>5 DEF Chain, Triggers
      <4>. QED BY <4>1 DEF Right
    <3> HIDE DEF Right, Ahead, Chain
    <3>. QED BY <1>15, <3>2, <3>3, <3>4, <3>5, ServedCases
  <2>3. ver <= ver' /\ askers \subseteq askers'
    BY <1>0, <2>1
  <2>. QED BY <1>14, <2>1, <2>2, <2>3
<1>16. ASSUME ServerStep PROVE OutcomeInv'
  <2>1. /\ UNCHANGED <<page, report, basis, newest, unanswered, asked, replies>>
        /\ askers \subseteq askers' /\ ver <= ver'
    BY <1>0, <1>16 DEF ServerStep, shownVars
  <2>2. ASSUME NEW p \in Pages, askers' \subseteq {p}
        PROVE  /\ \A v : Right(v) => Right(v)' \/ \A b \in Nat : b <= ver => Ahead(p, b)'
               /\ \A s \in Retriers :
                     asked[s] = p /\ pc[s] \in {"trigger", "ok", "dead"}
                     => pc'[s] \in {"trigger", "ok", "dead"}
    <3>1. Chain /\ None \notin askers'
      BY <1>0, <1>19, <2>1, <2>2
    <3>2. evalStatus \in {"complete", "failed"} => UNCHANGED <<evalStatus, scored>>
      BY <1>16, <3>1, OutcomeStays
    <3>3. \A v : Right(v) => Right(v)'
      BY <3>2 DEF Right
    <3>4. \A s \in Retriers : pc[s] \in {"trigger", "ok", "dead"}
                             => pc'[s] \in {"trigger", "ok", "dead"}
      <4>1. CASE ApiRestarts
        BY <1>0, <4>1 DEF ApiRestarts, Running, InCascade
      <4>. QED BY <1>16, <4>1, RetriersIdle
    <3>. QED BY <3>3, <3>4
  <2>. QED BY <1>14, <2>1, <2>2
<1>20. "None" \in Decisions
  BY EvaluationAssumption
<1>. QED
  BY <1>2, <1>3, <1>4, <1>5, <1>6, <1>7, <1>8, <1>9, <1>10, <1>11, <1>12, <1>13, <1>15,
     <1>16 DEF ReportNext, PageNext

-----------------------------------------------------------------------------
(* All of it together is inductive over the invariant of the live          *)
(* interview, which holds by itself behind the pages.                      *)
ReportInv == PlayerTypeOK /\ ShownTypeOK /\ RetryInv /\ RerunInv /\ ChainInv /\ OutcomeInv

LEMMA ReportInitially == ReportInit => ReportInv
<1> SUFFICES ASSUME ReportInit PROVE ReportInv
  OBVIOUS
<1>1. ShownTypeOK
  BY ShownInitially
<1>2. PlayerTypeOK
  BY DEF ReportInit, PlayerTypeOK
<1>3. /\ replies = {} /\ evalStatus = "idle" /\ queue = 0
      /\ \A r \in Retriers : asked[r] = None
      /\ \A r \in Requests : pc[r] = "new"
      /\ \A w \in Workers : wpc[w] = "idle"
      /\ \A p \in Pages : report[p] = NoReport
  BY DEF ReportInit, Init, RowsInit, EvaluationInit
<1>4. Retriers \subseteq Requests
  BY DEF Requests
<1>5. RetryInv /\ RerunInv
  BY <1>3, <1>4 DEF RetryInv, RerunInv
<1>6. ChainInv
  BY <1>3, <1>4 DEF ChainInv, Chain, Triggers
<1>7. OutcomeInv
  BY <1>3 DEF OutcomeInv, Right, NoReport
<1>. QED BY <1>1, <1>2, <1>5, <1>6, <1>7 DEF ReportInv

LEMMA ReportInvStep ==
    ASSUME IInv, IInv', PlayerCorrect, PlayerCorrect', ReportInv,
           [ReportNext]_<<vars, reportVars>>
    PROVE  ReportInv'
<1>1. /\ TypeOK /\ TypeOK' /\ RequestInv /\ SeenInv /\ EvaluationFollowsCompletion
      /\ PlayerTypeOK /\ PlayerTypeOK'
  BY DEF IInv, TurnInv, EvaluationInv, PlayerCorrect
<1>2. ShownTypeOK /\ RetryInv /\ RerunInv /\ ChainInv /\ OutcomeInv
  BY DEF ReportInv
<1>3. ShownTypeOK'
  BY <1>1, <1>2, ShownStep
<1>4. RetryInv' /\ RerunInv' /\ ChainInv'
  BY <1>1, <1>2, OneRetryStep, RerunStep, ChainStep
<1>5. OutcomeInv'
  BY <1>1, <1>2, <1>3, ShownOutcomeStep
<1>. QED BY <1>1, <1>3, <1>4, <1>5 DEF ReportInv

(* The invariant of the pages and of who has asked for an evaluation: one  *)
(* retry a page, one owner while one page at most asks, and no outcome     *)
(* shown that is not the row's or about to be replaced.                    *)
THEOREM ReportCorrect == ReportSpec => []ReportInv
<1>1. IInv /\ IInv' /\ PlayerCorrect /\ PlayerCorrect' /\ ReportInv
      /\ [ReportNext]_<<vars, reportVars>> => ReportInv'
  BY ReportInvStep
<1>. QED
  BY <1>1, ReportInitially, ReportInterviewCorrect, PlayerAlwaysCorrect, PTL DEF ReportSpec

(* The report, the poll count, the decisions and retries on their way and  *)
(* what is played keep their types; no page shows or ever showed a view    *)
(* newer than the row.                                                     *)
THEOREM ReportTypes == ReportSpec => []ReportTypeOK
<1>1. ReportInv => ReportTypeOK
  BY PagesTyped DEF ReportInv
<1>. QED BY <1>1, ReportCorrect, PTL

(* Once all is done, a page shows the row's outcome, or one of the reasons *)
(* in ReportShowsOutcome why it may not applies: whatever the order in     *)
(* which replies arrive and whatever is lost.                              *)
THEOREM OutcomeShown == ReportSpec => []ReportShowsOutcome
<1>1. ASSUME TypeOK, ReportInv PROVE ReportShowsOutcome
  <2>1. SUFFICES ASSUME AllDone, NEW p \in Pages, Usable(p), p \notin unanswered,
                        report[p].evalStatus \notin {"idle", "pending"},
                        ~(basis[p] < newest[p]), askers \ {p} = {}
                 PROVE  report[p].evalStatus = evalStatus /\ report[p].scored = scored
    BY DEF ReportShowsOutcome
  <2>2. Right(report[p]) \/ Ahead(p, basis[p])
    BY <1>1, <2>1 DEF ReportInv, OutcomeInv, Usable
  <2>3. p # None
    BY ReportAssumption
  <2>4. ~Ahead(p, basis[p])
    BY <2>1, <2>3 DEF AllDone, Retries, Ahead
  <2>5. report[p].evalStatus \in EvaluationStatuses
    BY <1>1, PagesTyped DEF ReportInv, ReportTypeOK
  <2>. QED BY <2>1, <2>2, <2>4, <2>5 DEF Right, EvaluationStatuses
<1>2. IInv => TypeOK
  BY DEF IInv, TurnInv
<1>. QED BY <1>1, <1>2, ReportCorrect, ReportInterviewCorrect, PTL

(* What protects a result is that the page offers a retry of a failed      *)
(* evaluation only: of pages that click on what is up to date and one at a *)
(* time, none ever has a complete evaluation thrown away.                  *)
THEOREM NoResultRerun == ReportSpec => []NothingRerun
<1>1. ReportInit => NothingRerun
  BY DEF ReportInit, NothingRerun
<1>2. ASSUME NothingRerun, TypeOK, ReportInv, [ReportNext]_<<vars, reportVars>>
      PROVE  NothingRerun'
  <2>1. ASSUME UNCHANGED rerun, hasty => hasty', askers \subseteq askers'
        PROVE  NothingRerun'
    BY <1>2, <2>1 DEF NothingRerun
  <2>2. ASSUME NEW r \in Retriers, ServeRetry(r) PROVE NothingRerun'
    <3>1. /\ rerun' = (rerun \/ (pc[r] = "reset" /\ evalStatus = "complete"))
          /\ asked[r] # None /\ UNCHANGED <<hasty, askers>>
      BY <2>2 DEF ServeRetry
    <3>2. RerunInv
      BY <1>2 DEF ReportInv
    <3>3. pc[r] = "reset" /\ evalStatus = "complete" => hasty \/ None \in askers
      BY <3>1, <3>2 DEF RerunInv
    <3>. QED BY <1>2, <3>1, <3>3 DEF NothingRerun
  <2>3. ASSUME NEW p \in Pages, PageNext(p) PROVE NothingRerun'
    <3>1. ASSUME NEW d, Open(p) \/ Poll(p) \/ Leave(p) \/ Decide(p, d) PROVE NothingRerun'
      BY <2>1, <3>1 DEF Open, Poll, Leave, Decide, retryVars
    <3>2. ASSUME NEW k, Play(p, k) PROVE NothingRerun'
      BY <2>1, <3>2 DEF Play, retryVars
    <3>3. ASSUME NEW r, RetryEvaluation(p, r) PROVE NothingRerun'
      BY <2>1, <3>3 DEF RetryEvaluation
    <3>. QED BY <2>3, <3>1, <3>2, <3>3 DEF PageNext
  <2>4. ASSUME NEW m, ReplyArrives(m) \/ ReplyLost(m) \/ ClipArrives(m) \/ ServeDecision(m)
        PROVE  NothingRerun'
    BY <2>1, <2>4 DEF ReplyArrives, ReplyLost, ClipArrives, ServeDecision, retryVars
  <2>5. ASSUME NEW r, AnswerRetry(r) \/ RetryFails(r) PROVE NothingRerun'
    BY <2>1, <2>5 DEF AnswerRetry, RetryFails
  <2>6. ASSUME ServerStep PROVE NothingRerun'
    BY <2>1, <2>6 DEF ServerStep
  <2>7. ASSUME UNCHANGED <<vars, reportVars>> PROVE NothingRerun'
    BY <2>1, <2>7 DEF reportVars, retryVars
  <2>. QED BY <1>2, <2>2, <2>3, <2>4, <2>5, <2>6, <2>7 DEF ReportNext
<1>3. IInv => TypeOK
  BY DEF IInv, TurnInv
<1>. QED BY <1>1, <1>2, <1>3, ReportCorrect, ReportInterviewCorrect, PTL DEF ReportSpec

=============================================================================

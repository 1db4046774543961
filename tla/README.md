# A TLA+ model of InterviewAI

InterviewAI screens candidates and holds voice or video interviews: a browser
records an answer, the API transcribes it, asks a language model for the next
line, speaks it, and at the end a worker scores the transcript for a recruiter.
The API is FastAPI with async SQLAlchemy over PostgreSQL (READ COMMITTED), the
worker is Celery over Redis, the browser side is React.

This directory models the parts where the order of things matters: the life of
one interview session, from its first line to its evaluation, with the
candidate's browser in front of its own routes and the recruiters' report pages in
front of the whole; and the recruiters' stores in front of applications and of
interview questions. It is checked by TLC on small instances, and the safety
properties that hold are proved by TLAPS for every instance. Six promises of the
repository's own comments do not hold; each is a run that ends in a violation.

## Inventory

| component | state | operations | who it talks to | what makes it correct |
|---|---|---|---|---|
| Candidate session routes, `app/routers/interview_sessions.py` | `interview_sessions.status`, `evaluation_status`; `interview_turns` rows; media files | open a session, submit a turn (three database sessions around a cascade), end early, trigger the evaluation | pipeline, PostgreSQL, disk, Redis | a turn is processed once, answered once, keeps its answer; a session stays completed; its evaluation is always requested |
| Evaluation, `app/services/interview_evaluator.py`, `app/celery_app.py`, `app/routers/interview_reports.py` | `evaluation_status`, score and its companions, `evaluation_error`, `decision`; the Redis queue | run a task, retry an evaluation, set the human decision | PostgreSQL, Redis, judge model | a due evaluation ends in complete or failed; the score is of the interview that was held; the human decision is left alone |
| Voice pipeline, `interview_pipeline.py`, `llm_client.py`, `stt_client.py`, `tts_client.py` | none of its own | transcribe, complete with a fallback model, synthesize, bound the history | model provider | fails only with `LLMError`; bounded number of attempts |
| Candidate's browser, `OnboardingDeviceCheck.tsx`, `VoiceInterviewSession.tsx`, `SessionCompleted.tsx` | session id and opening reply in sessionStorage; next turn index, busy flag, last failed recording | open, submit, retry, reload and reconcile, end | session routes | skips no turn, keeps no recording twice, resumes where the server is, keeps the id until the end |
| Report page, `InterviewReport.tsx` | the report shown, poll attempts, retry flag, the recording played | poll, decide, retry the evaluation, play | report routes | shows the outcome, throws no result away, leaks no URL |
| Candidates and screening, `app/routers/candidates.py`, `candidate_judge.py`, `CandidateDetail.tsx` | `applications` (score, scorecard, `score_method`, `judge_status`, decision), resumes | create, patch, screen, bulk decisions, LLM judge in the background, upload | PostgreSQL, judge model | the label of a score says how it was made; a pending judge ends |
| Scoring, `screening.py`, `lib/scoring.ts`, `lib/candidates.ts` | none | rubric from a description, score of a candidate, band | candidates, jobs | weights add up and rank; the two implementations agree; a skill never hurts |
| Jobs, `app/routers/jobs.py` | jobs, rubric, version list | create, patch, regenerate the rubric, save a version, rescreen | applications | a rescreen leaves applications consistent |
| Interview authoring, `app/routers/interviews.py`, `question_generator.py`, `InterviewEditor.tsx` | `interviews.questions` (one JSONB list); the edit form | create, patch, regenerate all or one question, edit, reorder, remove | question model | no edit is lost, none lands on another question |
| Store, `frontend/src/store/useAppStore.ts` | the recruiter's mirror of jobs, applications, interviews | one action per route; applies the returned record | API | agrees with the server once all is quiet; undoes nobody's change |
| Accounts, `app/routers/auth.py`, `admin.py`, `deps.py` | users, tenants, login sessions | log in and out, approve, disable | every route | a disabled account does nothing |
| Other pages, `pages/admin`, `pages/jobs`, `Dashboard.tsx`, chat and avatar prototypes | forms | render the store, submit a form | store | |

Hard behaviours, and where they bite, are the `hazards` of `PROJECT.json`:
double submits, stale reads across an `await`, a crash between a commit and a
push, lost tasks, two workers on one session, late turns of a session that was
already ended; and in the browsers replies applied out of order, mirrors that are
out of date when they are written back, polling that gives up, and retries that
race with what they retry.

## Modules

| module | models |
|---|---|
| `InterviewRows` | the shared state: the session row, its turn rows, media files, the queue and the progress of each HTTP request; the selects both sides use |
| `TurnSubmission` | `interview_sessions.py`: `OpenSession`, `PostTurn`, `LookUpTurn`, `ClaimTurn`, `CascadeSucceeds`, `CascadeFails`, `MarkTurnFailed`, `CascadeRaises`, `PersistTurn`, `PostEnd`, `EndSession`, `Enqueue`, `EnqueueFails`, `RecordEnqueueFailure` |
| `Evaluation` | `interview_reports.py` and `interview_evaluator.py`: `PostRetry`, `ResetEvaluation`, `RetryEnqueueFails`, `SetDecision`, `TakeTask`, `JudgeAnswers`, `StoreScore`, `JudgeFails`, `MarkFailed`, and the faults `WorkerCrashes` and `BrokerRestarts` |
| `InterviewSystem` | the two together, plus `ApiRestarts`; the specification, its fairness, every property, the inductive invariant `IInv` |
| `EvaluationLifecycle` | the abstract promise: an evaluation is not due, due, settled or stalled, and only a fault stalls it |
| `VoiceClient` | extends `InterviewSystem`: the candidate's page in front of his routes, without workers, retries of evaluations and the broker, which nothing he sees depends on. `Continue`, `SessionStarted`, `Reload`, `Leave`, `LoadSession`, `ServeSession`, `Reconcile`, `ReconcileFails`, `RecordAnswer`, `Retry`, `TurnAnswered`, `SubmitFails`, `ConnectionLost`, `EndAnswered`, `EndFails`; what was sent arrives as `PostTurn` or `PostEnd` |
| `ReportPage` | extends `InterviewSystem`: report pages. `Open`, `Poll`, `ReplyArrives`, `ReplyLost`, `Decide`, `RetryEvaluation`, `RetryFails`, `Play`, `ClipArrives`, `Leave`, and the serving of the two writing routes |
| `Applications` | one row of `applications` and everything on the server that writes it: `LoadRow`, then `PatchApplication`, `Screen`, `UploadResume`, `RegenerateRubric` (with `Rescreen`) or `JudgeStarts`; `TaskLoads`, then `TaskJudges` or `TaskFails` |
| `CandidateStore` | extends `Applications`: the recruiters' stores in front of it, one action for each of the store's, bulk ones included; requests taken up (`TakeUp`) and replies applied (`ApplyRecord`, `ApplyRubric`) in any order, polling, `ApiRestarts` |
| `QuestionEditing` | the question list of one interview, the store's mirrors of it, the editor's form and buttons, the two regenerations |
| `Scoring` | rubric weights and scores as operators, the server's and the front end's version side by side, with a specification that enumerates rubrics and candidates |
| `InterviewSystem_proofs`, `VoiceClient_proofs`, `ReportPage_proofs`, `CandidateStore_proofs`, `QuestionEditing_proofs`, `Scoring_proofs` | the theorems |
| `MCVoiceClient`, `MCReportPage`, `MCCandidateStore`, `MCQuestionEditing`, `MCScoring` | the TLC instances (symmetry sets, the values of `Strong`, one candidate per number of matches); `InterviewSystem` is run as it is |

The two halves do not meet in the code: an interview session and an application
share no column that either writes. So there are two compositions, one around
`InterviewSystem` and one around `Applications`.

### The interview system

**State.** One session: every row and every constraint is keyed by it. A request
is a member of `Opener`, `Posts`, `Enders` or `Retriers`, used once, so these
sets bound a run. `pc[r]` says between which two transactions the request is;
its last value is its reply (`ok`, `cached` 200; `conflict`, `closed`,
`rejected` 4xx; `failed` 502; `integrity` 500; `noop`), or `stranded` and `dead`
for one that died with and without a claimed turn. A cascade's result stands for
transcript, reply and media together and is named by the request that ran it, so
two cascades never agree. The score with its companions (scorecard, strengths,
gaps, verdict, note, timestamp), written by one commit, stands as the set of
turns it was made from.

**Grain.** A handler or task that loads a row and commits it later is two
actions, the load and the commit, with whatever others do in between:

| code | load | commit |
|---|---|---|
| the session a turn is submitted to | `PostTurn` | (only read) |
| phase 1 of a turn | `LookUpTurn` | `ClaimTurn` |
| phase 3, after the cascade | `CascadeSucceeds` | `PersistTurn` |
| the failure path of a turn | `CascadeFails` | `MarkTurnFailed` |
| end early | `PostEnd` | `EndSession` |
| a failed push | `EnqueueFails` | `RecordEnqueueFailure` |
| retry an evaluation | `PostRetry` | `ResetEvaluation`, then `RetryEnqueueFails` on the same object |
| a worker without a rubric | `TakeTask` | `MarkFailed` |
| a worker with a result | `JudgeAnswers` | `StoreScore` |
| a worker with an exception | `JudgeFails` | `MarkFailed` |

| patch, bulk, screen, upload, regenerate the rubric, start a judge | `LoadRow` | `PatchApplication`, `Screen`, `UploadResume`, `RegenerateRubric`, `JudgeStarts` |
| a background judge | `TaskLoads` | `TaskJudges`, `TaskFails` |
| regenerate questions | `StartRegeneration` | `ModelAnswers` |

What a worker is doing is `wpc`: `idle`, `scoring` (the model is asked),
`storing` and `failing` (about to commit a result, or a failure). `handling` holds,
for each request at work on an application, the objects it has loaded.

These windows stay closed. In the interview: the two `get`s of phase 3 are one
step, the history is read with the commit of the claim that precedes it, and
`SetDecision` loads and commits at once, since its only column belongs to it. For
applications: the several loads with which a handler begins are one step, but the
job (`Screen`, `UploadResume`) or the candidate (`RegenerateRubric`), which is read
later, is as it was at the load or as it is at the commit; and a reply is read with
the commit, where the code refreshes the row right after it. A bulk does not
refresh: it is answered with what it loaded and assigned (`expire_on_commit=False`).
Two rescreenings do not overlap (`JobLocked`): the new rubric is flushed before the
applications are loaded, and the lock on the job's row keeps the second one waiting.
`ServePatch` of a question list writes the whole list: what it loaded does not
matter.

**Columns.** The ORM writes a column only when the value assigned differs from
the one loaded (`Flush`; `Saved` in `Applications`). So a commit of "complete" by a transaction that had
loaded "complete" leaves the column to whoever wrote it since. `seen[r]`,
`loaded[w]` and `saw[r]` hold what was loaded; the ownership operators
(`SettlesTurn`, `EvaluationOwned`) count a commit only when it will really move
the status. The columns of the result (score and companions, media paths) are
taken as always different.

**Faults.** `CascadeRaises` (an exception other than `LLMError`: a body that is
not JSON, a null content, a full disk), `ApiRestarts`, `WorkerCrashes` (Celery
acknowledges a message when it takes it) and `BrokerRestarts` (Redis keeps
nothing) are bounded together by `MaxFaults`. An `LLMError`, an unreachable
Redis and a judge that fails are ordinary outcomes, not bounded.

**History variables.** `taskLost` (a task was lost since the evaluation was last
requested), `overlapped` (an outcome was committed to columns that had changed
since they were loaded), `closedWith` (the transcript when the session was
completed) and `faults` are read by no action but the fault bound.

### The browsers

**Requests.** Everything a page sends is served later and answered later still.
In `VoiceClient` a request is the server's own (`sent` and `audio` say what it
carries), so that it may arrive after the page gave up on it, or after a reload;
what the page awaits is `inFlight`. In the other three, `requests` and `replies`
are sets, served and applied in any order: `fetch` promises neither, and no
button waits for the request before it unless the code disables it. A GET carries
nothing, so that sending it and serving it are one step (except where the code
reads twice: `LoadSession`, `ServeSession`).

**Mirrors.** `mirror`, `report` are what a store or a page shows. `basis` (the
commit it shows), `newest` (the latest it ever showed) and `ver` say how old that
is; no action reads them. `hasty` records that somebody acted with something in
flight or on an old mirror: `NothingUndone`, `EditsLand`, `EditsHitTheirQuestion`
and `NothingRerun` are what the code guarantees to people who wait, and the
whole-record writes are why it guarantees nothing to people who do not.

**Data.** A recording is named by the first request that carried it. The score
columns of an application are who made the score, and from which rubric and skills
or in answer to which request; `Strong` says which rubrics and skills shortlist.
Prompt,
type and difficulty of a question are the number of the action that wrote them;
an id is `<<"q", i>>` as the generator makes them, or `<<"new", n>>` for
`q-${Date.now()}`. In `Scoring` skills are counts per tag, and shares and scores
exact fractions. Of the instances of the run every weight is the same in floating
point, and every score but four: with 6 must-haves and 10 others the sum stops just
short of 51.5 or 55.5 and is rounded down. Those lie within a band, and evaluated in
floating point all the instances have the properties that the run checks.

**Faults.** A reload, a return to the page and a lost connection
(`MaxDisturbances`), a lost reply (`MaxLost`), a restart of the API with its
requests and background tasks (`MaxRestarts`, `ApiRestarts`).

## Properties

Turns (checked in the run `voice`, `TurnSettles` in `evaluation`). `FailedTurns` are the turns some attempt at which was answered 502; the
guarantees stop there, and the run `replies_agree` shows that they must.

- `SingleCascade`: two requests are never in the cascade of one turn.
- `OneAnswer`: every answer given, first or cached, is the one the row keeps.
- `CompleteTurnStable`: no step changes a complete turn.
- `HistoryStable`: the history a cascade ran on stays what the rows say.
- `PendingTurnOwned`: a pending row has a live request whose commit will settle
  it, or one that died on it.
- `MediaOnDisk`: a complete row's media is on disk.
- `TurnSettles` (liveness): a pending turn is settled unless its request died.

Evaluation.

- `CompletionIsFinal`: no request that loaded an active session reopens it.
- `EvaluationFollowsCompletion`: idle exactly while the session is not complete,
  and nothing is queued, read, scored or being triggered before.
- `PendingEvaluationOwned`: pending has somebody whose next commit will settle
  it, or a fault took the task.
- `ScoreCoversInterview`: a score covers what was complete at completion.
- `OutcomeConsistent`: complete has a score; complete has no error and failed has
  one unless an outcome was committed over columns that had changed since.
- `ImplementsLifecycle`: the system refines `EvaluationLifecycle`, with `Phase`
  read off the row and the question whether anybody owns it; liveness included.

Candidate's browser.

- `IndexFollowsRows`: the index a page is at has passed no turn the server does
  not have, nor one that is unanswered, unless an attempt at it failed, or a
  reload counted its row.
- `RecordingKeptOnce`: a recording is the answer of one turn at most. Both stop at
  a reconciliation that comes after a submission (`reconciledLate`); the run
  `voice_retry` shows that they must.
- `AcceptedAnswersKept`: what the page took for answered is what the row keeps,
  unless the candidate recorded the turn twice.
- `PatientRetriesAgree`: without lost connections and reloads the page's busy flag
  gives what `RepliesAgree` does not: one answer per turn, failures included.
- `DroppedOnlyWhenEnded`: the session's id is dropped only once the session is
  complete.

Report page.

- `ReportShowsOutcome`: once all is done, a page that shows an outcome shows the
  row's.
- `NothingRerun`: no retry throws a complete evaluation away, although the route
  would let it.
- `OneUrlHeld`: an object URL that is not played is revoked, across pages that are
  left and recordings that arrive late.

Applications and stores.

- `PendingJudgeOwned`: a pending judge has a task whose commit will move it, or a
  restart took it.
- `MirrorSyncsBack`: once all is quiet, a mirror shows at least the last commit its
  recruiter caused, and is the row if that is the last one; except where an older
  reply was put over a newer one, the mirror still says pending (polling gave up),
  it is the record of a bulk that another's commit had overtaken, two judges were
  started at once, a restart lost something, or a bulk decision made columns up.
- `NothingUndone`: a decision undoes nobody's shortlisting or stage.
- `LabelHonest`: `score_method` says how the score was made. It is violated.

Questions.

- `UniqueIds`: no list ever has one id twice, in the row, a mirror or on its way.
- `EditsLand`: the row is what the actions make of it one after the other.
- `EditsHitTheirQuestion`: a saved edit replaces the text its form was opened on.

Scoring.

- `WeightsHonest`: weights add up to 100, are positive, and no must-have weighs
  less than anything else. It is violated from 14 criteria on; `HonestUpTo13` is
  what is left of it.
- `RubricsAgree`: server and front end compute the same weights unless a share is
  a tie; then a weight that is such a share may be one more in the front end, and
  only the first, which takes the drift, differs otherwise.
- `VerdictsAgree`: verdict, shortlisting and band agree at every score; the score
  lies between 30 and 99 if no weight is negative; all must-haves make an Advance,
  none a Pass, if they weigh anything together.
- `SkillsNeverHurt` (action property): one more skill lowers a score only if its
  weight, or a total, is negative. The run goes to 18 criteria, the first number
  with a negative weight; without that hypothesis it fails there (18 must-haves: the
  first skill alone turns 30 into 29).

## Runs

| run | instance | shows |
|---|---|---|
| `evaluation` | 2 posts over turns 0..2, 2 retries, 2 workers, 1 fault; fairness, no symmetry | the evaluation properties and both liveness properties. Two retries race past one check, two workers score at once, turn 2 completes the session while turn 1 is in flight, whose late completion completes it anew while a failure is being recorded. An early end does the same to the row as a completing turn and is in the runs `voice` and `report`. 202 117 states |
| `stuck_evaluation` | violation of `StuckEvaluationRetriable` | a lost task leaves the row pending, and the retry route, documented as the backstop for it, answers 409 |
| `last_turn_retry` | violation of `RetryGetsResult` | the retry of the turn that ended the interview gets 409, not its cached reply |
| `replies_agree` | violation of `RepliesAgree` | two concurrent retries of a failed turn both run the cascade and answer differently |
| `voice` | 3 submissions, 1 end, turns 0..2, 1 server fault, 1 reload or lost connection | the turn properties on the server and those of the candidate's browser. Three submissions are a turn lost or failed, its retry, and the next turn; two of one turn and one of another. A reload or a lost connection is how the page comes to have two at once. 3 214 916 states up to symmetry |
| `voice_retry` | violation of `RetryResendsPair` | a submission fails, the reconciliation of the mount arrives and moves the index, the retry sends the recording as the answer to another turn. No fault and no reload is needed |
| `report` | 2 pages, 2 clicks, 2 retries, 1 early end, 1 worker, 2 recordings, 1 poll, 1 fault or lost reply | the properties of the report page. The session has its opening turn only: a page cares for completion, not for turns. 745 621 states up to symmetry |
| `candidates` | 2 recruiters, 2 actions, 1 new rubric, 1 restart, 2 polls | the properties of applications and stores. Two actions are enough for one to commit between the load and the commit of the other, or under its model call, and two polls for one to be overtaken. 1 264 742 states up to symmetry |
| `stale_label` | violation of `LabelHonest`, same instance | a judged application is rescreened with a new rubric: the score is made by the rules, the label says the judge. The overlap of a screening and a judge is the other way to get there |
| `editing` | 2 recruiters, 3 actions, 2 in flight, 2 generated questions | the properties of questions. A form opened, the list regenerated by the other, and the form saved is three. 3 077 859 states up to symmetry |
| `scoring` | every rubric of up to 18 criteria and, for each, a candidate for every number of criteria of each tag that he matches, with and without the first | the properties of scoring. Criteria of one tag weigh the same but for the first of the rubric, which takes the drift (`OnePerCount`). 54 967 states |
| `weights` | violation of `WeightsHonest`, up to 14 criteria | 13 must-haves and a nice-to-have: in the front end the first must-have weighs 1 and the nice-to-have 3 |

Deadlock is not checked: every request is sent once, so a run ends.

`report` was also checked with two early ends, one retry and one recording
(16 946 727 states, too long to repeat each time). That instance is where a late
completion supersedes the outcome a page shows, which `ReportShowsOutcome` and
`NothingRerun` except (`LateCompletion`).

**Fairness.** Weak fairness of each begun request, of each trigger and of each
worker: the event loop runs what it has begun, every wait of a cascade ends (a
60 s timeout and a fixed number of attempts), and an idle worker takes what is
queued. Nobody has to send a request, to fail or to crash. The modules in front
state no fairness and no liveness: what a browser does depends on a person, and
its polling gives up after 30 attempts by design.

## Proofs

Every safety property of the passing runs, action properties included, is a
theorem: for every set of requests, workers, pages and recruiters, and for every
value of the bounds on turns, actions, polls, faults and criteria. What conditions
there are stand in the properties themselves. So the turn properties, which TLC
checks for three submissions, are proved for any number and any interleaving.
The prover leaves to TLC what needs `ENABLED`: `TurnSettles` and the fairness half
of `ImplementsLifecycle`.

The assumptions on the constants are the `ASSUME`s of the modules: bounds are
naturals, kinds of requests are disjoint, `None` is no page and no recording,
`"None"` is a decision, "Applied" and "Rejected" are stages, and a regeneration
makes at least one question.

Each of the six proof modules follows one plan: an invariant that contains its
property, or implies it; one lemma for each action or family of actions; and the
theorem.

### The interview system

`InterviewSystem_proofs` proves the properties of turns and of the evaluation, and
the refinement of the lifecycle's initial states and steps.

The invariants are not inductive as they stand. `IInv` adds

- `RequestInv`: what a request between two transactions relies on. Above all, a
  request in the cascade has its turn pending, and one about to commit loaded it
  pending, *or the turn has failed once*: that disjunction is what
  `SingleCascade` lives on, since the insert is refused by the unique constraint
  and the update only ever follows a failure;
- `RowInv`: a failed row records a failed attempt; turn 0 is the opening line
  and nobody claims it;
- `SeenInv`: nobody loaded a pending or settled evaluation of a session that is
  not complete, and a retry that goes on had not loaded a pending one. Without
  it a commit that `Flush` suppresses could leave "idle" behind, or clear the
  error of a failure;
- `TranscriptInv`: the transcript at completion is still in the rows, and each
  worker that reads read all of it.

Two lemmas carry the argument. `CompleteTurnKept`: a complete turn that never
failed is changed by no step; an update of a turn comes from a request that saw
it failed (then it is in `FailedTurns`) or that holds it pending. From it follow
the answers, the history and the score. `OwnerCases`: a step either requests the
evaluation, settles it from an owner's hands, keeps a due one owned, or is a
fault. `PendingEvaluationOwned` and the refinement are both read off those four
cases: requesting maps to `FallDue`, settling to `Settle`, a fault to `Fault`,
and keeping to a stutter (or to `FallDue`, when a late failure takes a stalled
evaluation into its hands). `StepCases` and `EvaluationCases` sort the actions
by what they touch, so that each conjunct has a step only for the actions that
can disturb it.

### What stands in front of it

`VoiceClient_proofs` and `ReportPage_proofs` prove that `ClientSpec => Spec` and
`ReportSpec => Spec`: whatever a candidate's browser, or any number of report
pages, sends and whenever, the server takes only steps of `InterviewSystem`. So
`IInv`, and every property above, holds behind them without being proved again
(`ClientInterviewCorrect`, which is about turns, since no evaluation runs behind the
browser, and `ReportInterviewCorrect`). Behind the report pages so does the refinement
of the lifecycle (`ReportFollowsLifecycle`). The step that is not a matter of form is that what is sent is a legal request: `PageInv` (the index a
page sends is one of `TurnIndexes`, which the number of rows a reconciliation
brings does not break) and `PatchInv` (a decision on its way is a decision).
`IdKeptUntilTheEnd` proves `DroppedOnlyWhenEnded` from `EndInv` (an end that got
as far as an answer is one of a complete session, which `CompletionIsFinal` keeps
so).

The other properties of the candidate's page hang on how its index, its recordings
and the rows relate. `VoiceInv` says it with

- `RowsSent`: a row is there because a post was sent for its index, holds the
  result of such a post, and never goes away;
- `PairInv`: until a reconciliation comes after a submission, a recording keeps the
  index it was first sent with, and that is the page's index for as long as it may
  send it again. `RecordingKeptOnce` follows; past that point nothing of it is
  left, which is the finding of `voice_retry`;
- `BelowInv`: the rows below everything the page counts with are there. An index
  that passed a turn passed a row, and the rest of `IndexFollowsRows` is that the
  page moves on after an answer only;
- `PatientInv`: with no lost connection and no reload, the one post that is not yet
  settled is the one the page awaits, and what it loaded is what the row is. Then
  two posts never race, which gives `PatientRetriesAgree`.

For the report page the difficulty is that what it shows may be old, and that a
retry may be clicked on it. `ReportInv` says

- `RetryInv`: a retry on the server has the page that asked for it, and that page's
  button is disabled until its reply is in;
- `ChainInv`: while one page at most has asked anew, an evaluation has one owner
  (trigger, task, reader or writer) at a time, and none once it has an outcome;
- `RerunInv`: a retry that was not clicked on an old report finds the failure it
  was clicked for, and nobody owns the evaluation. With `ChainInv` nothing brings
  an outcome in between: `NothingRerun`;
- `OutcomeInv`: an outcome that a page shows, or is about to, is the row's, or
  something newer is on its way to that page (`Ahead`). Once all is done nothing is
  on its way: `ReportShowsOutcome`.

`OneUrlHeld` is proved from `PlayerInv` alone.

### Applications and stores

`StoreInv` of `CandidateStore_proofs` is needed in three parts.

- `JudgingInv`: nobody starts a judge who loaded the row as pending, so his commit of
  "pending" reaches the row, however many others commit between his load and it, and
  a task is there to move it (`PendingJudgeOwned`);
- `CopiesInv` and `PatchInv`: what shows the newest commit shows the row; while
  nobody was hasty a patch is alone, so what `setDecision` sends along is what the
  row has (`NothingUndone`).
- `TaskInv`, `WatchInv`, `CatchUpInv`: the row stays pending while a single judge
  works; its recruiter saw it pending, or sees it, or a reply that says so is on
  its way, for every commit of that time (`Tracks`); so whoever caused a commit
  has it, or gets it from a reply, from a reload or from the poll. With nothing
  on its way only the first of these is left: `MirrorSyncsBack`.

### Questions

`EditInv` of `QuestionEditing_proofs` has

- `EditTypes`: every list there is (the row, the mirrors, requests, replies, what a
  running regeneration loaded) has distinct ids, those made by the browser from an
  action that happened. `UniqueIds` is a part of it; it holds for hasty recruiters
  too;
- `OneAll`: the disabled button keeps a recruiter's regenerations of the whole list
  to one at a time, in one place;
- `Careful`: while nobody was hasty there is one message, and it was made from the
  questions as they are. `EditsLand` and `EditsHitTheirQuestion` follow.

It rests on lemmas about the operators on lists: what `Without` keeps and in which
order, that `Moved` permutes, that `WithText` leaves ids alone. `Without` is a
recursive function (`kept[n]`, what is left of the first n); the facts about it are
proved by the least n at which they would fail.

### Scoring

`Scoring_proofs` argues over rubrics of every length and candidates with any
evidence. `Total` and `Weight` are sums of the community modules; the lemmas on
them (`SumTake`, `SumUnion`, `SumLess`, `SumEqual`) are proved with a minimal set
at which they would fail in place of induction. The two roundings are both within
half of what they round (`HalfUpNearest`, `HalfEvenNearest`), differ at ties only
and by one (`RoundingsDiffer`), and are monotone (`NearestGrows`). From these:

- `WeightsAlwaysTotal`: the weights add up to 100 for any number of criteria
  (`BalancedSum`: the drift goes to one criterion);
- `RubricsAlwaysAgree`: `RubricsAgree` for any number of criteria;
- `WeightsHonestUpTo13`: `HonestUpTo13`. Balancing puts the whole drift on the
  first criterion; `UpTo13` goes through the 104 numbers of must-haves and others and
  finds what remains of it positive and, for a must-have, not below the others. 13 is
  the last number for which it is true, as the run `weights` shows;
- `VerdictsAlwaysAgree`: the readings of a score agree whatever it is; that it lies
  between 30 and 99, and that the must-haves decide, is proved from the hypotheses
  the property states, on the sums of weights and not on the number of criteria;
- `SkillsHelp`: `SkillsNeverHurt`, by the monotony of the rounding.

## Observations

The runs that end in a violation are the findings of `PROJECT.json`. More things
that the models make visible are exceptions of a property or not stated by any,
because the code makes no promise about them, or a note only:

- A turn in flight when the candidate ends the interview is completed afterwards
  and may be missing from the score; `closedWith` excludes it on purpose.
- A row can read complete with an error. A late turn completes the session anew,
  its push fails and the failure is committed between a worker's load and its
  commit; the worker had loaded no error, so its "no error" is not sent. That is
  the case `overlapped` sets apart in `OutcomeConsistent`.
- A stranded turn stays pending, so its index refuses every retry with 409. The
  vault's Backend Overview (lines 240-241) says a pending row means a request
  still in flight.
- ADR-007 wants a mid-cascade failure to leave the candidate's answer
  recoverable; the recording is written only after the cascade has succeeded.

Of the pages, likewise:

- A retry whose server dies after its commit leaves "failed" on the report page,
  which does not poll; a page opened before completion shows "Not evaluated yet"
  and does not poll either; one poll that fails makes it "doesn't exist" for good.
- Two report pages that retry at the same time start two tasks. The route refuses
  a pending evaluation but takes a complete one, so a retry clicked on an old
  report discards a score.
- A recording that arrives after the page was left keeps its URL.
- A reload while a turn is pending, or after it failed, goes on to the next turn:
  the number of rows counts it. A failed reconciliation starts again at turn 1,
  and a new recording of it is answered from the row and thrown away.
- `setDecision` sends the mirror's stage and shortlisting along, so a decision on
  an old mirror undoes what others did. `bulkSetDecision` shows a stage and a
  shortlisting that the server never wrote, and the store's comment (lines 6-9)
  says that mutations sync the returned records.
- Two judge requests that both read `judge_status` before either commits start
  two tasks; the poll stops at the first result.
- Bulk routes reply with the rows as they were loaded. A patch that commits between
  the load and the commit of a bulk is missing from the bulk's reply, and its
  recruiter's mirror is wrong although it shows the newest commit (`overtaken`), which
  is not the "syncs the returned record(s) back" of the store's comment.
- A rescreening keeps `score_method`. Of a screening and a judge that overlap either
  may leave its score under the other's label: each assigns the label to the row as
  it loaded it, and an equal one is not sent (`stale_label`).
- `regeneratingId` has one slot: a second regeneration enables the first's button.
  The reply of a saved edit closes a form opened meanwhile.
- From 14 criteria on (`weights`) the front end puts a must-have, with 1, below a
  nice-to-have, with 3; the server's weights reach 0 at 16 criteria and -2 at 18, and
  the dictionary has 163 skills. Matching the skill of a negative weight lowers the
  score: with 18 must-haves from 30 to 29.
- `generate_rubric` calls itself a mirror of the front end's `generateRubric`
  (`screening.py`, line 178), but Python rounds ties to even: two must-haves and two
  nice-to-haves weigh 38, 38, 12, 12 on the server and 36, 38, 13, 13 in the browser.
  `RubricsAgree` says what may differ then, and that nothing does otherwise.
- One must-have among 25 nice-to-haves weighs 0, so that a candidate with every skill
  scores 35 and is a Pass.
- A rubric without must-haves gives 35 at most: everybody is a Pass.
- Nothing in the front end calls the store's `rescreenJob` and `screenCandidate`,
  nor `deriveScore` and `generateRubric` of `scoring.ts`; they are modelled as what
  they promise to do.

## Plan

The modules of the plan are written, except the two named under "Not modelled",
and the invariants they check are proved. What is left, in this order:

1. Abstract specifications of the store and of question editing, for recruiters
   who wait: a mirror that jumps to the row, and a list edited in place.
2. The number of criteria from which the server's weights go wrong (0 at 16), as a
   theorem.
3. Editors that are left and opened again while a regeneration runs.

## Not modelled

- Accounts. Log in, log out, approve and disable are each one transaction over one
  row, and the checks of `deps.py` read it anew on every request.
- The sequence of attempts in the voice pipeline (`llm_client.py`, `bound_history`):
  straight-line code over stateless calls; what it can come to is `CascadeSucceeds`,
  `CascadeFails` and `CascadeRaises`.
- Creating jobs, interviews and candidates, with the duplicate check; tags and notes, which `CandidateDetail.tsx` writes as whole values from its
  mirror (the hazard of `QuestionEditing`, with nothing that depends on them); job
  versions; sharing of a personalized interview (409). Interviews have a linked
  job, without which nothing is regenerated.
- Leaving the interview editor and opening it again, which forgets its disabled
  buttons, and lost connections there: the type invariant of `QuestionEditing`, and
  that one regeneration of the list is under way per recruiter, rest on it.
- The evaluation behind the candidate's page: `VoiceClient` runs no worker and no
  retry of an evaluation, which his page never shows.
- Two tabs of one candidate, and the tab-switch warning, which changes nothing.
- Text extraction, prompts, wording, encodings, seeding, migrations, synthetic
  data and styling: no state of their own that a property could be about. Session
  status `abandoned` exists in the schema and no code sets it. Negative or huge
  turn indices behave as any other index and are bounded by `MaxTurn`. Deleting
  interviews, tenants or candidates cascades in the database and has no route.
- Of the repository's TypeScript, `frontend/src/data/generated-seed.ts` and
  `data/synthetic/out/frontend-seed.ts` are 57 600 lines of generated sample data
  (nine lines in ten), and most of the rest is markup. The logic of the front end is
  in the store, four pages and `scoring.ts`, which the modules above cover; the
  server is Python.

---------------------------- MODULE InterviewRows ----------------------------
(***************************************************************************)
(* The state that the interview routers (app/routers/interview_sessions.py *)
(* and interview_reports.py) and the Celery worker                         *)
(* (app/services/interview_evaluator.py) share: one interview_sessions     *)
(* row, its interview_turns rows, the Redis queue of evaluation tasks, and *)
(* the progress of the HTTP requests that read and write them.             *)
(*                                                                         *)
(* Everything in the schema is keyed by the session, so one session is     *)
(* modelled.  A request is used once: the sets of requests bound a run.    *)
(*                                                                         *)
(* Abstractions.  The result of a cascade (transcript, ai_text, the audio  *)
(* paths) is the request that ran it: two cascades never agree on one.     *)
(* score, scorecard, strengths, gaps, ai_verdict, ai_note and evaluated_at *)
(* are always written together and stand as the transcript they were made  *)
(* from.  evaluation_error is kept as "is there one".                      *)
(***************************************************************************)
EXTENDS Naturals, FiniteSets

CONSTANTS
    Opener,     \* the POST /interviews/{id}/sessions that created the session
    Posts,      \* POST /interview-sessions/{id}/turns requests
    Enders,     \* POST /interview-sessions/{id}/complete requests
    Retriers,   \* POST /interview-sessions/{id}/evaluate requests
    MaxTurn,    \* bound: the largest turn_index a client sends
    MaxFaults,  \* bound: crashes, unhandled exceptions and lost tasks
    None        \* no result

Requests == {Opener} \cup Posts \cup Enders \cup Retriers

ASSUME RowsAssumption ==
    /\ MaxTurn \in Nat
    /\ MaxFaults \in Nat
    /\ Opener \notin Posts \cup Enders \cup Retriers
    /\ Posts \cap Enders = {}
    /\ Posts \cap Retriers = {}
    /\ Enders \cap Retriers = {}
    /\ None \notin Requests

VARIABLES
    \* the interview_sessions row
    status,      \* "none" until it is inserted, then active or complete
    evalStatus,  \* evaluation_status
    evalError,   \* evaluation_error is not NULL
    scored,      \* the transcript behind the stored score, {} when there is none
    decision,    \* the recruiter's override
    \* the interview_turns rows, by turn_index
    turnStatus,
    turnResult,
    files,       \* the requests whose media is on disk (app/storage/local.py)
    \* the broker
    queue,       \* evaluate_interview_task messages waiting in Redis
    \* the HTTP requests
    pc,          \* where each request is; its last value is its reply
    idx,         \* the turn_index of a POST .../turns
    saw,         \* the status of the turn row as it last loaded it
    hist,        \* the earlier turns its history was rebuilt from
    isComplete,  \* the interviewer ended the interview in its cascade
    got,         \* the result a cached reply returned
    seen,        \* the evaluation columns as its open transaction loaded them
    \* history variables
    faults,      \* faults so far
    taskLost,    \* a task was lost since evaluation was last requested
    overlapped,  \* an outcome was committed to a row changed since it was loaded
    closedWith   \* the transcript at the commit that completed the session

rowVars == <<status, evalStatus, evalError, scored, decision>>
turnVars == <<turnStatus, turnResult, files>>
requestVars == <<pc, idx, saw, hist, isComplete, got, seen>>
historyVars == <<faults, taskLost, overlapped, closedWith>>

TurnIndexes == 0..MaxTurn
SessionStatuses == {"none", "active", "complete"}
EvaluationStatuses == {"idle", "pending", "complete", "failed"}
TurnStatuses == {"absent", "pending", "complete", "failed"}
Transcripts == SUBSET (TurnIndexes \X ({Opener, None} \cup Posts))

\* Where a request can be: not sent, between two database transactions...
Running == {"lookup", "claim", "cascade", "persist", "mark", "end", "reset",
            "trigger", "record"}
\* ... or answered.  "stranded" and "dead" requests were never answered:
\* the former left a turn row at "pending".
Answered == {"ok", "cached", "conflict", "closed", "integrity", "failed",
             "noop", "rejected"}
RequestStates == {"new"} \cup Running \cup Answered \cup {"stranded", "dead"}

\* A turn row is being worked on by the request that set it to "pending".
InCascade == {"cascade", "persist", "mark"}

\* The columns of the session row that more than one component writes, and
\* what stands in "seen" when no transaction has loaded them.
EvaluationColumns == [evalStatus : EvaluationStatuses, evalError : BOOLEAN]
NotLoaded == [evalStatus |-> "idle", evalError |-> FALSE]

-----------------------------------------------------------------------------

(* The complete turns, as select(InterviewTurn) with status == "complete"  *)
(* returns them: what the evaluator scores and history is rebuilt from.    *)
CompleteTurns ==
    {<<t, turnResult[t]>> : t \in {u \in TurnIndexes : turnStatus[u] = "complete"}}

\* Mutant: history is rebuilt from every earlier row, complete or not.
TurnsBefore_AnyStatus(t) ==
    {<<u, turnResult[u]>> : u \in {v \in TurnIndexes : v < t /\ turnStatus[v] # "absent"}}

(* The earlier of them, from which turn t's history is rebuilt.            *)
TurnsBefore(t) == {p \in CompleteTurns : p[1] < t}

(* The turns some attempt at which was answered 502, the row marked        *)
(* "failed".                                                               *)
FailedTurns == {idx[r] : r \in {s \in Posts : pc[s] = "failed"}}

(* The columns as a transaction that loads the session now sees them.      *)
Loaded == [evalStatus |-> evalStatus, evalError |-> evalError]

(* The ORM sends a column only when the value assigned to it differs from  *)
(* the one it loaded; otherwise the column keeps what others wrote since.  *)
Flush(old, new, column) == IF new = old THEN column ELSE new

(* Whoever completes the session or asks for a retry sets evaluation_      *)
(* status to "pending" and goes on to enqueue a task.                      *)
RequestEvaluation(r) ==
    /\ evalStatus' = Flush(seen[r].evalStatus, "pending", evalStatus)
    /\ taskLost' = FALSE
    /\ pc' = [pc EXCEPT ![r] = "trigger"]
    /\ seen' = [seen EXCEPT ![r] = NotLoaded]

(* evaluation_status and evaluation_error are set by a transaction that    *)
(* loaded old.  The error text may be the one it loaded.                   *)
RecordFailure(old) ==
    /\ evalStatus' = Flush(old.evalStatus, "failed", evalStatus)
    /\ evalError' \in {TRUE} \cup (IF old.evalError THEN {evalError} ELSE {})
    /\ overlapped' = (overlapped \/ old # Loaded)

-----------------------------------------------------------------------------

RowsInit ==
    /\ status = "none"
    /\ evalStatus = "idle"
    /\ evalError = FALSE
    /\ scored = {}
    /\ decision = "None"
    /\ turnStatus = [t \in TurnIndexes |-> "absent"]
    /\ turnResult = [t \in TurnIndexes |-> None]
    /\ files = {}
    /\ queue = 0
    /\ pc = [r \in Requests |-> "new"]
    /\ idx = [r \in Posts |-> 0]
    /\ saw = [r \in Posts |-> "absent"]
    /\ hist = [r \in Posts |-> {}]
    /\ isComplete = [r \in Posts |-> FALSE]
    /\ got = [r \in Posts |-> None]
    /\ seen = [r \in Requests |-> NotLoaded]
    /\ faults = 0
    /\ taskLost = FALSE
    /\ overlapped = FALSE
    /\ closedWith = {}

=============================================================================

---------------------------- MODULE Applications ----------------------------
(***************************************************************************)
(* One row of applications and everything on the server that writes it:    *)
(* the recruiter's routes of app/routers/candidates.py, the rescreening in *)
(* app/routers/jobs.py, and the LLM judge that runs as a background task   *)
(* after its request was answered.  Every one loads the row in one step    *)
(* and commits in a later one, with whatever the others do in between.     *)
(*                                                                         *)
(* match_score, scorecard, ai_note, compare_verdict, strengths and gaps    *)
(* are always written together and stand as score: who made them, and from *)
(* what; two that differ are taken to differ in all of them.  The rules    *)
(* (derive_score) give one result per rubric and skills; whether a judge   *)
(* shortlists is chosen with the judgement.  ver counts the commits.       *)
(***************************************************************************)
EXTENDS Naturals, FiniteSets

CONSTANTS
    Recruiters, \* browsers of one tenant's recruiters and admins
    Decisions,  \* of "None", "Approved", "Hold", "Rejected"
    Stages,     \* of "Applied", "Screening", "Interview", "Offer", "Rejected"
    Strong,     \* the pairs <<rubric, skills>> that derive_score shortlists
    MaxRubric,  \* bound: rubrics of the job
    MaxRestarts \* bound: restarts of the API process

ASSUME ApplicationsAssumption ==
    /\ MaxRubric \in Nat /\ MaxRestarts \in Nat
    /\ "None" \in Decisions
    /\ {"Applied", "Rejected"} \subseteq Stages

JudgeStatuses == {"idle", "pending", "failed"}

VARIABLES
    app,        \* the applications row
    ver,        \* commits to it so far
    rubric,     \* which rubric the job has
    skills,     \* which upload the candidate's skills are from
    handling,   \* requests at work: what each has loaded and not committed yet
    tasks,      \* background tasks: queued, or asking the model with the row loaded
    \* history variables
    doubled,    \* a judge was started while another was at work
    restarts

appVars == <<app, ver, rubric, skills, handling, tasks, doubled, restarts>>

\* The row after a transaction that loaded old assigns the columns of
\* changes: the ORM sends those that differ from what was loaded.
Saved(old, changes) ==
    [c \in DOMAIN app |->
        IF c \in DOMAIN changes /\ changes[c] # old[c] THEN changes[c] ELSE app[c]]

\* The session's own copy of the row, after the same assignments.
Assigned(old, changes) ==
    [c \in DOMAIN old |-> IF c \in DOMAIN changes THEN changes[c] ELSE old[c]]

Commit(old, changes) == app' = Saved(old, changes) /\ ver' = ver + 1

\* derive_score of one rubric and the skills of one upload.
RulesScore(r, k) == [by |-> "rules", of |-> <<r, k>>]
JudgesScore(id) == [by |-> "judge", of |-> <<id, 0>>]

\* An application screened at its creation or judged since.
ApplicationsInit ==
    \E b, judged \in BOOLEAN :
        /\ app = [shortlisted |-> b, decision |-> "None", stage |-> "Applied",
                  score |-> IF judged THEN JudgesScore(0) ELSE RulesScore(0, 0),
                  method |-> IF judged THEN "llm_judge" ELSE "deterministic",
                  judge |-> "idle"]
        /\ ver = 0 /\ rubric = 0 /\ skills = 0
        /\ handling = {} /\ tasks = {}
        /\ doubled = FALSE /\ restarts = 0

-----------------------------------------------------------------------------

\* regenerate-rubric flushes the new rubric before it loads the
\* applications: the job's row lock keeps the next one waiting.
JobLocked == \E h \in handling : h.req.kind = "rubric"

(* A handler loads the row, with the candidate and the job.  A judge is    *)
(* refused where one is pending.                                           *)
LoadRow(m) ==
    /\ m.kind = "judge" => app.judge # "pending"
    /\ m.kind = "rubric" => ~JobLocked
    /\ handling' = handling \cup
        {[req |-> m, loaded |-> app, rubric |-> rubric, skills |-> skills]}
    /\ UNCHANGED <<app, ver, rubric, skills, tasks, doubled, restarts>>

(* PATCH /candidates/{id}, and POST /candidates/bulk with this one among   *)
(* its candidates: the fields of the body, and nothing else.               *)
PatchApplication(h) ==
    /\ h.req.kind \in {"patch", "bulk"}
    /\ Commit(h.loaded, h.req.body)
    /\ handling' = handling \ {h}
    /\ UNCHANGED <<rubric, skills, tasks, doubled, restarts>>

\* _apply_screening of rubric r and skills k.
ApplyScreening(h, r, k) ==
    Commit(h.loaded, [score |-> RulesScore(r, k), shortlisted |-> <<r, k>> \in Strong,
                      method |-> "deterministic"])

(* POST /candidates/{id}/screen.  The job is read after the row.           *)
Screen(h) ==
    /\ h.req.kind = "screen"
    /\ \E r \in {h.rubric, rubric} : ApplyScreening(h, r, h.skills)
    /\ handling' = handling \ {h}
    /\ UNCHANGED <<rubric, skills, tasks, doubled, restarts>>

(* POST /candidates/{id}/resume: other skills, and the screening they ask  *)
(* for.  The job is read after the file.                                   *)
UploadResume(h) ==
    /\ h.req.kind = "upload"
    /\ skills' = h.req.id
    /\ \E r \in {h.rubric, rubric} : ApplyScreening(h, r, skills')
    /\ handling' = handling \ {h}
    /\ UNCHANGED <<rubric, tasks, doubled, restarts>>

\* _rescreen_job with rubric n and skills k, which sets neither
\* score_method nor judge_status.
Rescreen(h, n, k) ==
    Commit(h.loaded, [score |-> RulesScore(n, k), shortlisted |-> <<n, k>> \in Strong])

(* POST /jobs/{id}/regenerate-rubric: the rubric of whatever description   *)
(* the job has by now, and every application screened again with it.  The  *)
(* candidate is read after the row.                                        *)
RegenerateRubric(h) ==
    /\ h.req.kind = "rubric"
    /\ \E n \in 0..MaxRubric, k \in {h.skills, skills} :
        rubric' = n /\ Rescreen(h, n, k)
    /\ handling' = handling \ {h}
    /\ UNCHANGED <<skills, tasks, doubled, restarts>>

(* POST /candidates/{id}/judge commits "pending", is answered, and the     *)
(* task starts.                                                            *)
JudgeStarts(h) ==
    /\ h.req.kind = "judge"
    /\ Commit(h.loaded, [judge |-> "pending"])
    /\ handling' = handling \ {h}
    /\ tasks' = tasks \cup
        {[id |-> h.req.id, by |-> h.req.by, at |-> "queued", loaded |-> h.loaded]}
    /\ doubled' = (doubled \/ tasks # {})
    /\ UNCHANGED <<rubric, skills, restarts>>

(* _run_judge_in_background loads the row before it asks the model.        *)
TaskLoads(t) ==
    /\ t.at = "queued"
    /\ tasks' = (tasks \ {t}) \cup {[t EXCEPT !.at = "asking", !.loaded = app]}
    /\ UNCHANGED <<app, ver, rubric, skills, handling, doubled, restarts>>

(* The model's judgement is committed to the row as it was loaded.         *)
TaskJudges(t, b) ==
    /\ t.at = "asking"
    /\ Commit(t.loaded, [score |-> JudgesScore(t.id), shortlisted |-> b,
                         method |-> "llm_judge", judge |-> "idle"])
    /\ tasks' = tasks \ {t}
    /\ UNCHANGED <<rubric, skills, handling, doubled, restarts>>

\* Mutant: a failing model leaves the row as it is.
TaskFails_Silently(t) ==
    /\ t.at = "asking"
    /\ tasks' = tasks \ {t}
    /\ UNCHANGED <<app, ver, rubric, skills, handling, doubled, restarts>>

(* Any exception of the model call marks the row failed.                   *)
TaskFails(t) ==
    /\ t.at = "asking"
    /\ Commit(t.loaded, [judge |-> "failed"])
    /\ tasks' = tasks \ {t}
    /\ UNCHANGED <<rubric, skills, handling, doubled, restarts>>

-----------------------------------------------------------------------------

(* The columns have the values of their CHECK constraints.                 *)
ApplicationsTypeOK ==
    LET Scores == [by : {"rules", "judge"}, of : Nat \X Nat]
        Rows == [shortlisted : BOOLEAN, decision : Decisions, stage : Stages,
                 score : Scores, method : {"deterministic", "llm_judge"},
                 judge : JudgeStatuses]
    IN  /\ app \in Rows /\ ver \in Nat
        /\ rubric \in 0..MaxRubric /\ skills \in Nat
        /\ \A h \in handling : /\ h.req.id \in Nat /\ h.req.by \in Recruiters
                               /\ h.loaded \in Rows
                               /\ h.rubric \in 0..MaxRubric /\ h.skills \in Nat
        /\ tasks \subseteq [id : Nat, by : Recruiters, at : {"queued", "asking"}, loaded : Rows]
        /\ doubled \in BOOLEAN
        /\ restarts \in 0..MaxRestarts

(* score_method says how the score was made: "nothing is ever left as a    *)
(* stale value from a prior run of the other method" (the migration that   *)
(* added the column, a7b8c9d0e1f2, lines 11 to 14).  It does not hold: a   *)
(* rescreening leaves the label alone (jobs.py, lines 189-200), and of a   *)
(* screening and a judge that overlap either may leave its own score under *)
(* the other's label, the ORM not sending a method equal to the loaded one.*)
LabelHonest == (app.method = "llm_judge") = (app.score.by = "judge")

(* judge_status is pending only while a task is under way whose commit     *)
(* will move it, or after a restart took the task: then for good, and the  *)
(* judge route refuses the next one (candidates.py, lines 204 and 219).    *)
PendingJudgeOwned ==
    app.judge = "pending" =>
        \/ restarts > 0
        \/ \E t \in tasks : t.at = "queued" \/ t.loaded.judge = "pending"

=============================================================================

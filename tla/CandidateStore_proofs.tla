------------------------ MODULE CandidateStore_proofs ------------------------
(***************************************************************************)
(* What the recruiters' stores and the application's routes keep, for      *)
(* every number of recruiters, actions, polls, rubrics and restarts, and   *)
(* whichever rubrics and skills shortlist.                                 *)
(***************************************************************************)
EXTENDS CandidateStore, TLAPS

Scores == [by : {"rules", "judge"}, of : Nat \X Nat]

Rows == [shortlisted : BOOLEAN, decision : Decisions, stage : Stages,
         score : Scores, method : {"deterministic", "llm_judge"},
         judge : JudgeStatuses]

Tasks == [id : Nat, by : Recruiters, at : {"queued", "asking"}, loaded : Rows]

Kinds == {"patch", "bulk", "screen", "upload", "judge", "rubric", "load"}

(* The bodies the store's actions make, by the kind of the request.        *)
Bodies(kind) ==
    CASE kind = "patch" -> [shortlisted : BOOLEAN] \cup [stage : Stages]
                           \cup [decision : Decisions, shortlisted : BOOLEAN, stage : Stages]
      [] kind = "bulk"  -> [shortlisted : BOOLEAN] \cup [stage : Stages] \cup [decision : Decisions]
      [] OTHER          -> {<<>>}

(* Types: of a request, of the rows, and of what is on its way.            *)
Request(m) ==
    /\ m.id \in Nat /\ m.by \in Recruiters /\ m.kind \in Kinds
    /\ m.body \in Bodies(m.kind)

Handler(h) ==
    /\ Request(h.req) /\ h.req.kind # "load"
    /\ h.loaded \in Rows /\ h.rubric \in 0..MaxRubric /\ h.skills \in Nat

AppTyped ==
    /\ app \in Rows /\ ver \in Nat
    /\ rubric \in 0..MaxRubric /\ skills \in Nat
    /\ \A h \in handling : Handler(h)
    /\ tasks \subseteq Tasks
    /\ doubled \in BOOLEAN /\ restarts \in 0..MaxRestarts

RowsTyped ==
    /\ AppTyped
    /\ mirror \in [Recruiters -> Rows]
    /\ actions \in 0..MaxActions

RequestsTyped == \A m \in requests : Request(m)

RepliesTyped ==
    \A r \in replies : /\ r.by \in Recruiters /\ r.kind \in Kinds
                       /\ r.body \in Bodies(r.kind)
                       /\ r.view \in Rows /\ r.basis \in 0..ver
                       /\ r.stale \in BOOLEAN

StoresTyped ==
    /\ attempts \in [Recruiters -> 0..MaxAttempts]
    /\ basis \in [Recruiters -> Nat] /\ newest \in [Recruiters -> Nat]
    /\ lastOwn \in [Recruiters -> Nat]
    /\ enriched \in [Recruiters -> BOOLEAN] /\ overtaken \in [Recruiters -> BOOLEAN]
    /\ hasty \in BOOLEAN /\ undone \in BOOLEAN
    /\ \A c \in Recruiters : /\ basis[c] <= newest[c] /\ newest[c] <= ver
                             /\ lastOwn[c] <= ver

StoreTyped == RowsTyped /\ RequestsTyped /\ RepliesTyped /\ StoresTyped

(* Nobody judges what he loaded as pending.                                *)
JudgingInv == \A h \in handling : h.req.kind = "judge" => h.loaded.judge # "pending"

(* What shows a commit shows its row, a bulk's row as loaded apart.        *)
CopiesInv ==
    /\ \A r \in replies : r.basis = ver /\ ~r.stale => r.view = app
    /\ \A c \in Recruiters :
        basis[c] = ver /\ ~enriched[c] /\ ~overtaken[c] => mirror[c] = app

(* While everybody acts on a mirror that is up to date with nothing in     *)
(* flight, a patch is alone, and what it sends along is what the row has.  *)
IsPatch(m) == m.kind \in {"patch", "bulk"}

Harmless(m) == \A k \in DOMAIN m.body \ m.about : m.body[k] = app[k]

PatchInv ==
    ~hasty =>
        /\ \A m \in requests : IsPatch(m) =>
            /\ requests = {m} /\ handling = {} /\ tasks = {}
            /\ \A r \in replies : r.kind # "rubric"
            /\ Harmless(m)
        /\ \A h \in handling : IsPatch(h.req) =>
            /\ requests = {} /\ handling = {h} /\ tasks = {}
            /\ \A r \in replies : r.kind # "rubric"
            /\ Harmless(h.req)

(* A judge that runs alone keeps the row pending until it commits.         *)
Alone == restarts = 0 /\ ~doubled

TaskInv ==
    Alone =>
        /\ \A t, u \in tasks : t = u
        /\ \A t \in tasks : /\ app.judge = "pending"
                            /\ t.at = "asking" => t.loaded.judge = "pending"

(* Recruiter c will see that the judge was pending from commit s on and    *)
(* before commit e, or sees it, or has had an older reply put over a newer *)
(* or a bulk's row as loaded.                                              *)
Tracks(c, s, e) ==
    /\ \A r \in replies :
        r.by = c /\ s <= r.basis /\ r.basis < e /\ ~r.stale => r.view.judge = "pending"
    /\ IF newest[c] < s
       THEN \E r \in replies : r.by = c /\ r.kind # "rubric" /\ s <= r.basis
       ELSE newest[c] < e => mirror[c].judge = "pending" \/ basis[c] < newest[c] \/ overtaken[c]

(* The recruiter whose judge is at work tracks it.                         *)
WatchInv == Alone => \A t \in tasks : \E s \in 0..ver : Tracks(t.by, s, ver + 1)

(* A recruiter's last commit is in the mirror or was there, or a reply     *)
(* brings it, or a reload that a reply starts will, or the poll does.      *)
CatchesUp(c) ==
    \/ lastOwn[c] <= newest[c]
    \/ \E r \in replies : r.by = c /\ (r.kind = "rubric" \/ lastOwn[c] <= r.basis)
    \/ \E m \in requests : m.by = c /\ m.kind = "load"
    \/ \E s \in 0..ver : Tracks(c, s, lastOwn[c])

CatchUpInv == Alone => \A c \in Recruiters : CatchesUp(c)

StoreInv ==
    /\ StoreTyped /\ JudgingInv /\ CopiesInv /\ PatchInv
    /\ TaskInv /\ WatchInv /\ CatchUpInv
    /\ PendingJudgeOwned /\ NothingUndone

-----------------------------------------------------------------------------
(* What a commit does to each column, and that it leaves a row.            *)
Columns == {"shortlisted", "decision", "stage", "score", "method", "judge"}

LEMMA RowColumns == \A r \in Rows : DOMAIN r = Columns
BY DEF Rows, Columns

LEMMA SavedColumn ==
    ASSUME app \in Rows, NEW old, NEW changes, NEW k \in Columns
    PROVE  Saved(old, changes)[k] = IF k \in DOMAIN changes /\ changes[k] # old[k]
                                    THEN changes[k] ELSE app[k]
BY RowColumns DEF Saved

(* The assignments of a transaction are to columns, and of their types.    *)
Changes(changes) ==
    /\ "shortlisted" \in DOMAIN changes => changes["shortlisted"] \in BOOLEAN
    /\ "decision" \in DOMAIN changes => changes["decision"] \in Decisions
    /\ "stage" \in DOMAIN changes => changes["stage"] \in Stages
    /\ "score" \in DOMAIN changes => changes["score"] \in Scores
    /\ "method" \in DOMAIN changes => changes["method"] \in {"deterministic", "llm_judge"}
    /\ "judge" \in DOMAIN changes => changes["judge"] \in JudgeStatuses

LEMMA SavedRow ==
    ASSUME app \in Rows, NEW old, NEW changes, Changes(changes)
    PROVE  Saved(old, changes) \in Rows
<1> DEFINE S == Saved(old, changes)
<1>1. DOMAIN S = Columns /\ S = [k \in Columns |-> S[k]]
  BY RowColumns DEF Saved
<1>2. /\ app["shortlisted"] \in BOOLEAN /\ app["decision"] \in Decisions
      /\ app["stage"] \in Stages /\ app["score"] \in Scores
      /\ app["method"] \in {"deterministic", "llm_judge"} /\ app["judge"] \in JudgeStatuses
  BY DEF Rows
<1>3. /\ S["shortlisted"] \in BOOLEAN /\ S["decision"] \in Decisions
      /\ S["stage"] \in Stages /\ S["score"] \in Scores
      /\ S["method"] \in {"deterministic", "llm_judge"} /\ S["judge"] \in JudgeStatuses
  BY <1>2, SavedColumn DEF Columns, Changes
<1>. QED BY <1>1, <1>3 DEF Rows, Columns

LEMMA AssignedRow ==
    ASSUME NEW old \in Rows, NEW changes, Changes(changes)
    PROVE  Assigned(old, changes) \in Rows
<1> DEFINE S == Assigned(old, changes)
<1>1. DOMAIN S = Columns /\ S = [k \in Columns |-> S[k]]
  BY RowColumns DEF Assigned
<1>2. /\ old["shortlisted"] \in BOOLEAN /\ old["decision"] \in Decisions
      /\ old["stage"] \in Stages /\ old["score"] \in Scores
      /\ old["method"] \in {"deterministic", "llm_judge"} /\ old["judge"] \in JudgeStatuses
  BY DEF Rows
<1>3. \A k \in Columns : S[k] = IF k \in DOMAIN changes THEN changes[k] ELSE old[k]
  BY RowColumns DEF Assigned
<1>4. /\ S["shortlisted"] \in BOOLEAN /\ S["decision"] \in Decisions
      /\ S["stage"] \in Stages /\ S["score"] \in Scores
      /\ S["method"] \in {"deterministic", "llm_judge"} /\ S["judge"] \in JudgeStatuses
  BY <1>2, <1>3 DEF Columns, Changes
<1>. QED BY <1>1, <1>4 DEF Rows, Columns

LEMMA PatchBodies ==
    ASSUME NEW kind \in {"patch", "bulk"}, NEW body \in Bodies(kind)
    PROVE  Changes(body) /\ DOMAIN body \subseteq {"shortlisted", "decision", "stage"}
BY DEF Bodies, Changes

(* What each transaction does to the row.                                  *)
LEMMA Patched ==
    ASSUME AppTyped, NEW h \in handling, PatchApplication(h)
    PROVE  app' \in Rows /\ ver' = ver + 1 /\ app'.judge = app.judge
<1>1. /\ app \in Rows /\ app' = Saved(h.loaded, h.req.body) /\ ver' = ver + 1
      /\ h.req.kind \in {"patch", "bulk"} /\ h.req.body \in Bodies(h.req.kind)
  BY DEF AppTyped, PatchApplication, Commit, Handler, Request
<1>2. Changes(h.req.body) /\ "judge" \notin DOMAIN h.req.body
  BY <1>1, PatchBodies
<1>. QED BY <1>1, <1>2, SavedRow, SavedColumn DEF Columns

LEMMA Screened ==
    ASSUME AppTyped, NEW old, NEW r \in Nat, NEW k \in Nat, NEW new,
           \/ new = [score |-> RulesScore(r, k), shortlisted |-> <<r, k>> \in Strong]
           \/ new = [score |-> RulesScore(r, k), shortlisted |-> <<r, k>> \in Strong,
                     method |-> "deterministic"],
           Commit(old, new)
    PROVE  app' \in Rows /\ ver' = ver + 1 /\ app'.judge = app.judge
<1>1. app \in Rows /\ app' = Saved(old, new) /\ ver' = ver + 1
  BY DEF AppTyped, Commit
<1>2. RulesScore(r, k) \in Scores /\ (<<r, k>> \in Strong) \in BOOLEAN
  BY DEF RulesScore, Scores
<1> PICK s \in Scores, b \in BOOLEAN :
      new \in {[score |-> s, shortlisted |-> b],
               [score |-> s, shortlisted |-> b, method |-> "deterministic"]}
  BY <1>2
<1>3. Changes(new) /\ "judge" \notin DOMAIN new
  BY DEF Changes
<1>. QED BY <1>1, <1>3, SavedRow, SavedColumn DEF Columns

LEMMA JudgeStarted ==
    ASSUME AppTyped, JudgingInv, NEW h \in handling, JudgeStarts(h)
    PROVE  app' \in Rows /\ ver' = ver + 1 /\ app'.judge = "pending"
<1>1. app \in Rows /\ app' = Saved(h.loaded, [judge |-> "pending"]) /\ ver' = ver + 1
  BY DEF AppTyped, JudgeStarts, Commit
<1>2. app' \in Rows
  BY <1>1, SavedRow DEF JudgeStatuses, Changes
<1>. QED BY <1>1, <1>2, SavedColumn DEF Columns, JudgingInv, JudgeStarts

LEMMA TaskJudged ==
    ASSUME AppTyped, NEW t \in tasks, NEW b \in BOOLEAN, TaskJudges(t, b)
    PROVE  /\ app' \in Rows /\ ver' = ver + 1
           /\ app'.judge = IF t.loaded.judge # "idle" THEN "idle" ELSE app.judge
<1> DEFINE new == [score |-> JudgesScore(t.id), shortlisted |-> b,
                   method |-> "llm_judge", judge |-> "idle"]
<1>1. app \in Rows /\ app' = Saved(t.loaded, new) /\ ver' = ver + 1 /\ t.id \in Nat
  BY DEF AppTyped, TaskJudges, Commit, Tasks
<1>2. JudgesScore(t.id) \in Scores
  BY <1>1 DEF Scores, JudgesScore
<1>3. Changes(new) /\ "judge" \in DOMAIN new /\ new["judge"] = "idle"
  BY <1>2 DEF Changes, JudgeStatuses
<1>. HIDE DEF new
<1>. QED BY <1>1, <1>3, SavedRow, SavedColumn DEF Columns

LEMMA TaskFailed ==
    ASSUME AppTyped, NEW t \in tasks, TaskFails(t)
    PROVE  /\ app' \in Rows /\ ver' = ver + 1
           /\ app'.judge = IF t.loaded.judge # "failed" THEN "failed" ELSE app.judge
<1>1. app \in Rows /\ app' = Saved(t.loaded, [judge |-> "failed"]) /\ ver' = ver + 1
  BY DEF AppTyped, TaskFails, Commit
<1>2. app' \in Rows
  BY <1>1, SavedRow DEF JudgeStatuses, Changes
<1>. QED BY <1>1, <1>2, SavedColumn DEF Columns

(* What every handler's commit has in common.                              *)
LEMMA Committed ==
    ASSUME AppTyped, JudgingInv, NEW h \in handling, ServeWrite(h) \/ ServeUpload(h)
    PROVE  /\ app' \in Rows /\ ver' = ver + 1 /\ handling' = handling \ {h}
           /\ rubric' \in 0..MaxRubric /\ skills' \in Nat /\ restarts' = restarts
           /\ \/ app'.judge = app.judge /\ UNCHANGED <<tasks, doubled>>
              \/ JudgeStarts(h) /\ app'.judge = "pending"
<1>0. /\ app \in Rows /\ rubric \in 0..MaxRubric /\ skills \in Nat
      /\ h.rubric \in 0..MaxRubric /\ h.skills \in Nat /\ h.req.id \in Nat
      /\ MaxRubric \in Nat
  BY ApplicationsAssumption DEF AppTyped, Handler, Request
<1>1. CASE PatchApplication(h)
  BY <1>0, <1>1, Patched DEF PatchApplication
<1>2. CASE Screen(h)
  <2> PICK r \in {h.rubric, rubric} : ApplyScreening(h, r, h.skills)
    BY <1>2 DEF Screen
  <2>1. app' \in Rows /\ ver' = ver + 1 /\ app'.judge = app.judge
    BY <1>0, Screened DEF ApplyScreening
  <2>. QED BY <1>0, <1>2, <2>1 DEF Screen
<1>3. CASE UploadResume(h)
  <2> PICK r \in {h.rubric, rubric} : ApplyScreening(h, r, h.req.id)
    BY <1>3 DEF UploadResume
  <2>1. app' \in Rows /\ ver' = ver + 1 /\ app'.judge = app.judge
    BY <1>0, Screened DEF ApplyScreening
  <2>. QED BY <1>0, <1>3, <2>1 DEF UploadResume
<1>4. CASE RegenerateRubric(h)
  <2> PICK n \in 0..MaxRubric, k \in {h.skills, skills} :
        rubric' = n /\ Rescreen(h, n, k)
    BY <1>4 DEF RegenerateRubric
  <2>1. app' \in Rows /\ ver' = ver + 1 /\ app'.judge = app.judge
    BY <1>0, Screened DEF Rescreen
  <2>. QED BY <1>0, <1>4, <2>1 DEF RegenerateRubric
<1>5. CASE JudgeStarts(h)
  BY <1>0, <1>5, JudgeStarted DEF JudgeStarts
<1>. QED BY <1>1, <1>2, <1>3, <1>4, <1>5 DEF ServeWrite, ServeUpload

(* The answer to a write: the row after the commit, but for a bulk.        *)
LEMMA Answered ==
    ASSUME AppTyped, JudgingInv, NEW h \in handling, ServeWrite(h)
    PROVE  \E r : /\ replies' = replies \cup {r}
                  /\ r.by = h.req.by /\ r.kind = h.req.kind /\ r.body = h.req.body
                  /\ r.basis = ver' /\ r.view \in Rows /\ r.stale \in BOOLEAN
                  /\ ~r.stale => r.view = app'
                  /\ h.req.kind # "bulk" => ~r.stale
<1> DEFINE view == IF h.req.kind = "bulk" THEN Assigned(h.loaded, h.req.body) ELSE app'
           r == [id |-> h.req.id, by |-> h.req.by, kind |-> h.req.kind, body |-> h.req.body,
                 view |-> view, basis |-> ver', stale |-> view # app']
<1>1. replies' = replies \cup {r}
  BY DEF ServeWrite, Reply, ReplyWith
<1>2. view \in Rows
  <2>1. CASE h.req.kind = "bulk"
    <3>1. h.loaded \in Rows /\ h.req.body \in Bodies("bulk")
      BY <2>1 DEF AppTyped, Handler, Request
    <3>2. Changes(h.req.body)
      BY <3>1, PatchBodies
    <3>. QED BY <2>1, <3>1, <3>2, AssignedRow
  <2>2. CASE h.req.kind # "bulk"
    BY <2>2, Committed
  <2>. QED BY <2>1, <2>2
<1>3. /\ r.by = h.req.by /\ r.kind = h.req.kind /\ r.body = h.req.body
      /\ r.basis = ver' /\ r.view = view /\ r.stale = (view # app')
      /\ h.req.kind # "bulk" => view = app'
  OBVIOUS
<1>. HIDE DEF r, view
<1>. QED BY <1>1, <1>2, <1>3

-----------------------------------------------------------------------------
(* Every action of a recruiter is a request whose body has the columns it  *)
(* is not about as the recruiter's mirror has them.                        *)
LEMMA RecruiterSends ==
    ASSUME StoreTyped, NEW c \in Recruiters, RecruiterNext(c)
    PROVE  \E kind \in Kinds \ {"load"} : \E body, about :
              /\ Send(c, kind, body, about)
              /\ body \in Bodies(kind)
              /\ \A k \in DOMAIN body \ about : k \in Columns /\ body[k] = mirror[c][k]
<1> DEFINE Goal(kind, body, about) ==
      /\ Send(c, kind, body, about)
      /\ body \in Bodies(kind)
      /\ \A k \in DOMAIN body \ about : k \in Columns /\ body[k] = mirror[c][k]
<1>0. mirror[c] \in Rows
  BY DEF StoreTyped, RowsTyped
<1>1. CASE ToggleShortlist(c)
  <2> DEFINE body == [shortlisted |-> ~mirror[c].shortlisted]
  <2>1. body \in Bodies("patch")
    BY DEF Bodies
  <2>2. Goal("patch", body, {"shortlisted"})
    BY <1>1, <2>1 DEF ToggleShortlist
  <2>. QED BY <2>2 DEF Kinds
<1>2. CASE BulkToggleShortlist(c)
  <2> PICK b \in BOOLEAN : Send(c, "bulk", [shortlisted |-> b], {"shortlisted"})
    BY <1>2 DEF BulkToggleShortlist
  <2> Goal("bulk", [shortlisted |-> b], {"shortlisted"})
    BY DEF Bodies
  <2>. QED BY DEF Kinds
<1>3. ASSUME NEW d \in Decisions, SetDecision(c, d)
      PROVE  \E body, about : Goal("patch", body, about)
  <2> DEFINE body == [decision |-> d,
                      shortlisted |-> d = "Approved" \/ mirror[c].shortlisted,
                      stage |-> IF d = "Rejected" THEN "Rejected" ELSE mirror[c].stage]
             about == {"decision"} \cup (IF d = "Approved" THEN {"shortlisted"} ELSE {})
                                   \cup (IF d = "Rejected" THEN {"stage"} ELSE {})
  <2>1. body \in Bodies("patch")
    BY <1>0, ApplicationsAssumption DEF Bodies, Rows
  <2>2. \A k \in DOMAIN body \ about : k \in Columns /\ body[k] = mirror[c][k]
    BY <1>0 DEF Rows, Columns
  <2>3. Goal("patch", body, about)
    BY <1>3, <2>1, <2>2 DEF SetDecision
  <2>. QED BY <2>3
<1>4. ASSUME NEW d \in Decisions, BulkSetDecision(c, d)
      PROVE  Goal("bulk", [decision |-> d], {"decision"})
  BY <1>4 DEF BulkSetDecision, Bodies
<1>5. ASSUME NEW s \in Stages, MovePipelineStage(c, s)
      PROVE  Goal("patch", [stage |-> s], {"stage"})
  BY <1>5 DEF MovePipelineStage, Bodies
<1>6. ASSUME NEW s \in Stages, BulkMoveStage(c, s)
      PROVE  Goal("bulk", [stage |-> s], {"stage"})
  BY <1>6 DEF BulkMoveStage, Bodies
<1>7. CASE ScreenCandidate(c)
  <2>. Goal("screen", <<>>, {})
    BY <1>7 DEF ScreenCandidate, Bodies
  <2>. QED BY DEF Kinds
<1>8. CASE JudgeCandidate(c)
  <2>. Goal("judge", <<>>, {})
    BY <1>8 DEF JudgeCandidate, Bodies
  <2>. QED BY DEF Kinds
<1>9. CASE GenerateRubric(c)
  <2>. Goal("rubric", <<>>, {})
    BY <1>9 DEF GenerateRubric, Bodies
  <2>. QED BY DEF Kinds
<1>10. CASE SendResume(c)
  <2>. Goal("upload", <<>>, {})
    BY <1>10 DEF SendResume, Bodies
  <2>. QED BY DEF Kinds
<1>. QED BY <1>1, <1>2, <1>3, <1>4, <1>5, <1>6, <1>7, <1>8, <1>9, <1>10
         DEF RecruiterNext, Kinds

-----------------------------------------------------------------------------
(* Types are kept.  First the steps that commit, then the others.          *)
LEMMA AppTypes == AppTyped => ApplicationsTypeOK
BY DEF ApplicationsTypeOK, AppTyped, Handler, Request, Tasks, Rows, Scores

LEMMA EmptyBody == \A k \in Kinds \ {"patch", "bulk"} : <<>> \in Bodies(k)
BY DEF Bodies, Kinds

LEMMA HandlerTypes ==
    ASSUME AppTyped, JudgingInv, NEW h \in handling, ServeWrite(h) \/ ServeUpload(h)
    PROVE  AppTyped'
<1>1. /\ app' \in Rows /\ ver' = ver + 1 /\ handling' \subseteq handling
      /\ rubric' \in 0..MaxRubric /\ skills' \in Nat /\ restarts' = restarts
  BY Committed
<1>2. tasks' \subseteq Tasks /\ doubled' \in BOOLEAN
  <2>1. CASE UNCHANGED <<tasks, doubled>>
    BY <2>1 DEF AppTyped
  <2>2. CASE JudgeStarts(h)
    <3>1. [id |-> h.req.id, by |-> h.req.by, at |-> "queued", loaded |-> h.loaded] \in Tasks
      BY DEF AppTyped, Handler, Request, Tasks
    <3>. QED BY <2>2, <3>1 DEF JudgeStarts, AppTyped
  <2>. QED BY <2>1, <2>2, Committed
<1>. QED BY <1>1, <1>2 DEF AppTyped, Handler, Request

LEMMA ServeTypes ==
    ASSUME StoreTyped, JudgingInv, NEW h \in handling, ServeWrite(h) \/ ServeUpload(h)
    PROVE  StoreTyped'
<1>a. AppTyped /\ RowsTyped /\ Handler(h)
  BY DEF StoreTyped, RowsTyped, AppTyped
<1>1. AppTyped' /\ ver' = ver + 1
  BY <1>a, HandlerTypes, Committed
<1>2. RowsTyped' /\ RequestsTyped'
  BY <1>1, <1>a DEF ServeWrite, ServeUpload, shown, RowsTyped, StoreTyped, RequestsTyped
<1>3. RepliesTyped'
  <2>1. CASE ServeUpload(h)
    BY <2>1, <1>1, <1>a DEF ServeUpload, StoreTyped, RepliesTyped, AppTyped
  <2>2. CASE ServeWrite(h)
    <3> PICK r : /\ replies' = replies \cup {r}
                 /\ r.by = h.req.by /\ r.kind = h.req.kind /\ r.body = h.req.body
                 /\ r.basis = ver' /\ r.view \in Rows /\ r.stale \in BOOLEAN
      BY <1>a, <2>2, Answered
    <3>1. /\ r.by \in Recruiters /\ r.kind \in Kinds /\ r.body \in Bodies(r.kind)
          /\ r.basis \in 0..ver'
      BY <1>a, <1>1 DEF Handler, Request, AppTyped
    <3>. QED BY <1>a, <1>1, <3>1 DEF StoreTyped, RepliesTyped, AppTyped
  <2>. QED BY <2>1, <2>2
<1>4. StoresTyped'
  <2>1. UNCHANGED <<attempts, basis, newest, enriched, overtaken, hasty>>
    BY DEF ServeWrite, ServeUpload, shown
  <2>2. /\ lastOwn' \in {lastOwn, [lastOwn EXCEPT ![h.req.by] = ver']}
        /\ undone' \in BOOLEAN
    BY DEF ServeWrite, ServeUpload, Caused, StoreTyped, StoresTyped
  <2>. QED BY <1>1, <1>a, <2>1, <2>2 DEF StoreTyped, StoresTyped, AppTyped, Handler, Request
<1>. QED BY <1>2, <1>3, <1>4 DEF StoreTyped

LEMMA TaskStepTypes ==
    ASSUME StoreTyped, NEW t \in tasks, TaskStep(t)
    PROVE  StoreTyped'
<1>a. AppTyped /\ RowsTyped /\ t \in Tasks
  BY DEF StoreTyped, RowsTyped, AppTyped
<1>1. AppTyped' /\ ver' \in {ver, ver + 1} /\ (ver' = ver => app' = app)
  <2>1. CASE TaskLoads(t)
    <3>1. [t EXCEPT !.at = "asking", !.loaded = app] \in Tasks
      BY <1>a DEF AppTyped, Tasks
    <3>. QED BY <1>a, <2>1, <3>1 DEF AppTyped, TaskLoads
  <2>2. CASE (\E b \in BOOLEAN : TaskJudges(t, b)) \/ TaskFails(t)
    <3>1. app' \in Rows /\ ver' = ver + 1
      BY <1>a, <2>2, TaskJudged, TaskFailed
    <3>2. tasks' \subseteq tasks /\ UNCHANGED <<rubric, skills, handling, doubled, restarts>>
      BY <2>2 DEF TaskJudges, TaskFails
    <3>. QED BY <1>a, <3>1, <3>2 DEF AppTyped
  <2>. QED BY <2>1, <2>2 DEF TaskStep
<1>2. RowsTyped'
  BY <1>1, <1>a DEF TaskStep, shown, RowsTyped
<1>3. RequestsTyped'
  BY DEF StoreTyped, RequestsTyped, TaskStep
<1>4. RepliesTyped'
  BY <1>1, <1>a DEF StoreTyped, RepliesTyped, TaskStep, AppTyped
<1>5. StoresTyped'
  BY <1>1, <1>a DEF StoreTyped, StoresTyped, TaskStep, shown, AppTyped, Tasks
<1>. QED BY <1>1, <1>2, <1>3, <1>4, <1>5 DEF StoreTyped

LEMMA ApplyTypes ==
    ASSUME StoreTyped, NEW m \in replies, ApplyRecord(m)
    PROVE  StoreTyped' /\ Enriched(m) \in Rows /\ Enriched(m).judge = m.view.judge
<1>a. /\ m.by \in Recruiters /\ m.kind \in Kinds /\ m.view \in Rows
      /\ m.basis \in Nat /\ m.basis <= ver /\ ver \in Nat /\ m.stale \in BOOLEAN
  BY DEF StoreTyped, RepliesTyped, RowsTyped, AppTyped
<1>1. Enriched(m) \in Rows /\ Enriched(m).judge = m.view.judge
  BY <1>a, ApplicationsAssumption DEF Enriched, Rows
<1>2. RowsTyped'
  BY <1>1, <1>a DEF ApplyRecord, RowsTyped, StoreTyped, AppTyped, appVars
<1>3. RequestsTyped'
  BY DEF StoreTyped, RequestsTyped, ApplyRecord
<1>4. RepliesTyped'
  BY DEF StoreTyped, RepliesTyped, ApplyRecord, appVars
<1>5. StoresTyped'
  <2>1. attempts' \in [Recruiters -> 0..MaxAttempts]
    BY <1>a, StoreAssumption DEF StoreTyped, StoresTyped, ApplyRecord
  <2>. QED BY <1>a, <2>1 DEF StoreTyped, StoresTyped, ApplyRecord, appVars
<1>. QED BY <1>1, <1>2, <1>3, <1>4, <1>5 DEF StoreTyped

(* A reply read from the row as it is.                                     *)
LEMMA FreshReply ==
    ASSUME NEW m, Reply(m)
    PROVE  \E r : /\ replies' = replies \cup {r}
                  /\ r.by = m.by /\ r.kind = m.kind /\ r.body = m.body
                  /\ r.view = app' /\ r.basis = ver' /\ ~r.stale /\ r.stale \in BOOLEAN
<1> DEFINE r == [id |-> m.id, by |-> m.by, kind |-> m.kind, body |-> m.body,
                 view |-> app', basis |-> ver', stale |-> app' # app']
<1>1. replies' = replies \cup {r}
  BY DEF Reply, ReplyWith
<1>2. /\ r.by = m.by /\ r.kind = m.kind /\ r.body = m.body
      /\ r.view = app' /\ r.basis = ver' /\ ~r.stale /\ r.stale \in BOOLEAN
  OBVIOUS
<1>. HIDE DEF r
<1>. QED BY <1>1, <1>2

LEMMA ReadTypes ==
    ASSUME StoreTyped, NEW m, Request(m), Reply(m), UNCHANGED appVars
    PROVE  RepliesTyped'
<1> PICK r : /\ replies' = replies \cup {r}
             /\ r.by = m.by /\ r.kind = m.kind /\ r.body = m.body
             /\ r.view = app' /\ r.basis = ver' /\ r.stale \in BOOLEAN
  BY FreshReply
<1>1. /\ r.by \in Recruiters /\ r.kind \in Kinds /\ r.body \in Bodies(r.kind)
      /\ r.view \in Rows /\ r.basis \in 0..ver /\ ver' = ver
  BY DEF StoreTyped, RowsTyped, AppTyped, Request, appVars
<1>. QED BY <1>1 DEF StoreTyped, RepliesTyped

LEMMA LoadRequest == \A c \in Recruiters : Request(Load(c)) /\ Load(c).kind = "load"
BY EmptyBody DEF Request, Load, Kinds

LEMMA TypesKept ==
    ASSUME StoreTyped, JudgingInv, [StoreNext]_<<appVars, storeVars>>
    PROVE  StoreTyped'
<1>a. AppTyped /\ RowsTyped /\ RequestsTyped /\ RepliesTyped /\ StoresTyped
  BY DEF StoreTyped, RowsTyped
<1>b. ASSUME UNCHANGED appVars PROVE AppTyped'
  BY <1>a, <1>b DEF AppTyped, appVars, Handler, Request
<1>1. ASSUME NEW c \in Recruiters, RecruiterNext(c) PROVE StoreTyped'
  <2> PICK kind \in Kinds \ {"load"} : \E body, about :
        Send(c, kind, body, about) /\ body \in Bodies(kind)
    BY <1>1, RecruiterSends
  <2> PICK body, about : Send(c, kind, body, about) /\ body \in Bodies(kind)
    OBVIOUS
  <2>1. actions' \in 0..MaxActions
    BY <1>a, StoreAssumption DEF Send, RowsTyped
  <2>2. RowsTyped'
    BY <1>a, <1>b, <2>1 DEF Send, RowsTyped, shown
  <2>3. RequestsTyped'
    BY <1>a, <2>1 DEF Send, RequestsTyped, Request
  <2>4. RepliesTyped' /\ StoresTyped'
    BY <1>a DEF Send, RepliesTyped, StoresTyped, appVars, shown
  <2>. QED BY <2>2, <2>3, <2>4 DEF StoreTyped
<1>2. ASSUME NEW c \in Recruiters, PollCandidate(c) PROVE StoreTyped'
  <2>1. RowsTyped' /\ RequestsTyped'
    BY <1>a, <1>b, <1>2 DEF PollCandidate, RowsTyped, RequestsTyped
  <2>2. RepliesTyped'
    BY <1>2, ReadTypes, LoadRequest DEF PollCandidate
  <2>3. StoresTyped'
    BY <1>a, <1>2, StoreAssumption DEF PollCandidate, StoresTyped, appVars
  <2>. QED BY <2>1, <2>2, <2>3 DEF StoreTyped
<1>3. ASSUME NEW m \in requests, TakeUp(m) \/ RefuseJudge(m) PROVE StoreTyped'
  <2>0. Request(m)
    BY <1>a DEF RequestsTyped
  <2>1. AppTyped'
    <3>1. CASE TakeUp(m)
      <4> DEFINE new == [req |-> m, loaded |-> app, rubric |-> rubric, skills |-> skills]
      <4>1. m.kind # "load" /\ handling' = handling \cup {new}
            /\ UNCHANGED <<app, ver, rubric, skills, tasks, doubled, restarts>>
        BY <3>1 DEF TakeUp, LoadRow
      <4>2. Handler(new)
        BY <1>a, <2>0, <4>1 DEF Handler, AppTyped
      <4>. HIDE DEF new
      <4>3. \A h \in handling' : Handler(h)
        BY <1>a, <4>1, <4>2 DEF AppTyped
      <4>. QED BY <1>a, <4>1, <4>3 DEF AppTyped, Handler, Request
    <3>2. CASE RefuseJudge(m)
      BY <1>b, <3>2 DEF RefuseJudge
    <3>. QED BY <1>3, <3>1, <3>2
  <2>2. RowsTyped' /\ RequestsTyped'
    BY <1>a, <1>3, <2>1 DEF TakeUp, RefuseJudge, RowsTyped, RequestsTyped, shown
  <2>3. ver' = ver
    BY <1>3 DEF TakeUp, LoadRow, RefuseJudge, appVars
  <2>4. RepliesTyped' /\ StoresTyped'
    BY <1>a, <1>3, <2>3 DEF TakeUp, RefuseJudge, RepliesTyped, StoresTyped, shown
  <2>. QED BY <2>2, <2>4 DEF StoreTyped
<1>4. ASSUME NEW m \in requests, ServeLoad(m) PROVE StoreTyped'
  <2>1. RowsTyped' /\ RequestsTyped'
    BY <1>a, <1>b, <1>4 DEF ServeLoad, RowsTyped, RequestsTyped, shown
  <2>2. RepliesTyped'
    BY <1>a, <1>4, ReadTypes DEF ServeLoad, RequestsTyped
  <2>3. StoresTyped'
    BY <1>a, <1>4 DEF ServeLoad, StoresTyped, shown, appVars
  <2>. QED BY <2>1, <2>2, <2>3 DEF StoreTyped
<1>5. ASSUME NEW m \in replies, ApplyRubric(m) PROVE StoreTyped'
  <2>1. RequestsTyped'
    BY <1>a, <1>5, LoadRequest DEF ApplyRubric, RequestsTyped, RepliesTyped
  <2>2. RowsTyped'
    BY <1>a, <1>b, <1>5 DEF ApplyRubric, RowsTyped, shown
  <2>3. RepliesTyped' /\ StoresTyped'
    BY <1>a, <1>5 DEF ApplyRubric, RepliesTyped, StoresTyped, appVars, shown
  <2>. QED BY <2>1, <2>2, <2>3 DEF StoreTyped
<1>6. ASSUME ApiRestarts PROVE StoreTyped'
  <2>1. AppTyped'
    BY <1>a, <1>6, ApplicationsAssumption DEF ApiRestarts, AppTyped
  <2>. QED BY <1>a, <1>6, <2>1 DEF ApiRestarts, StoreTyped, RowsTyped,
              RequestsTyped, RepliesTyped, StoresTyped, shown
<1>7. CASE UNCHANGED <<appVars, storeVars>>
  BY <1>a, <1>b, <1>7 DEF StoreTyped, RowsTyped, RequestsTyped, RepliesTyped,
     StoresTyped, storeVars, shown, appVars
<1>. QED BY <1>1, <1>2, <1>3, <1>4, <1>5, <1>6, <1>7, ServeTypes,
            TaskStepTypes, ApplyTypes DEF StoreNext, ServerNext

-----------------------------------------------------------------------------
(* The row changes with a commit only, a new reply shows the row as it is  *)
(* or is a bulk's of a row another has written, and a reply's arrival is   *)
(* all that changes what a mirror shows.                                   *)
LEMMA StepShape ==
    ASSUME StoreTyped, JudgingInv, [StoreNext]_<<appVars, storeVars>>
    PROVE  /\ (app' = app /\ ver' = ver) \/ ver' = ver + 1
           /\ \A r \in replies' \ replies : (~r.stale => r.view = app') /\ r.basis = ver'
           /\ \/ \E m \in replies : ApplyRecord(m)
              \/ /\ UNCHANGED <<mirror, basis, newest, enriched, overtaken>>
                 /\ \A r \in replies \ replies' : r.kind = "rubric"
<1> DEFINE Answers ==
      /\ \A r \in replies' \ replies : (~r.stale => r.view = app') /\ r.basis = ver'
      /\ replies \subseteq replies'
      /\ UNCHANGED <<mirror, basis, newest, enriched, overtaken>>
<1>a. AppTyped /\ RowsTyped /\ RequestsTyped
  BY DEF StoreTyped, RowsTyped
<1>b. \A m : Reply(m) => /\ \A r \in replies' \ replies : r.view = app' /\ r.basis = ver'
                         /\ replies \subseteq replies'
  BY FreshReply
<1>1. ASSUME NEW c \in Recruiters, RecruiterNext(c) PROVE UNCHANGED appVars /\ Answers
  BY <1>1, RecruiterSends DEF Send, shown
<1>2. ASSUME NEW c \in Recruiters, PollCandidate(c) PROVE UNCHANGED appVars /\ Answers
  BY <1>2, <1>b DEF PollCandidate
<1>3. ASSUME NEW m \in requests, TakeUp(m) \/ RefuseJudge(m) \/ ServeLoad(m)
      PROVE  app' = app /\ ver' = ver /\ Answers
  BY <1>3, <1>b DEF TakeUp, LoadRow, RefuseJudge, ServeLoad, appVars, shown
<1>4. ASSUME NEW h \in handling, ServeWrite(h) PROVE ver' = ver + 1 /\ Answers
  BY <1>a, <1>4, Committed, Answered DEF ServeWrite, shown
<1>5. ASSUME NEW h \in handling, ServeUpload(h) PROVE ver' = ver + 1 /\ Answers
  BY <1>a, <1>5, Committed DEF ServeUpload, shown
<1>6. ASSUME NEW t \in tasks, TaskStep(t)
      PROVE  ((app' = app /\ ver' = ver) \/ ver' = ver + 1) /\ Answers
  <2>1. TaskLoads(t) => app' = app /\ ver' = ver
    BY DEF TaskLoads
  <2>2. (\E b \in BOOLEAN : TaskJudges(t, b)) \/ TaskFails(t) => ver' = ver + 1
    BY <1>a, TaskJudged, TaskFailed
  <2>. QED BY <1>6, <2>1, <2>2 DEF TaskStep, shown
<1>7. ASSUME NEW m \in replies, ApplyRecord(m)
      PROVE  app' = app /\ ver' = ver /\ replies' \subseteq replies
  BY <1>7 DEF ApplyRecord, appVars
<1>8. ASSUME NEW m \in replies, ApplyRubric(m)
      PROVE  /\ app' = app /\ ver' = ver
             /\ UNCHANGED <<mirror, basis, newest, enriched, overtaken>>
             /\ replies' \subseteq replies /\ \A r \in replies \ replies' : r.kind = "rubric"
  BY <1>8 DEF ApplyRubric, appVars, shown
<1>9. ASSUME ApiRestarts \/ UNCHANGED <<appVars, storeVars>>
      PROVE  app' = app /\ ver' = ver /\ Answers
  BY <1>9 DEF ApiRestarts, appVars, storeVars, shown
<1>. QED BY <1>1, <1>2, <1>3, <1>4, <1>5, <1>6, <1>7, <1>8, <1>9
         DEF StoreNext, ServerNext, appVars

LEMMA CopiesKept ==
    ASSUME StoreTyped, JudgingInv, CopiesInv, [StoreNext]_<<appVars, storeVars>>
    PROVE  CopiesInv'
<1>a. /\ ver \in Nat /\ \A r \in replies : r.by \in Recruiters /\ r.basis \in 0..ver
      /\ \A c \in Recruiters : basis[c] \in 0..ver
      /\ mirror \in [Recruiters -> Rows] /\ basis \in [Recruiters -> Nat]
      /\ enriched \in [Recruiters -> BOOLEAN] /\ overtaken \in [Recruiters -> BOOLEAN]
  BY DEF StoreTyped, RowsTyped, AppTyped, RepliesTyped, StoresTyped
<1>1. \A r \in replies' : r.basis = ver' /\ ~r.stale => r.view = app'
  <2>. SUFFICES ASSUME NEW r \in replies', r.basis = ver', ~r.stale PROVE r.view = app'
    OBVIOUS
  <2>1. CASE r \in replies
    BY <1>a, <2>1, StepShape DEF CopiesInv
  <2>2. CASE r \notin replies
    BY <2>2, StepShape
  <2>. QED BY <2>1, <2>2
<1>2. ASSUME NEW c \in Recruiters, basis'[c] = ver', ~enriched'[c], ~overtaken'[c]
      PROVE  mirror'[c] = app'
  <2>1. CASE UNCHANGED <<mirror, basis, newest, enriched, overtaken>>
    BY <1>a, <1>2, <2>1, StepShape DEF CopiesInv
  <2>2. ASSUME NEW m \in replies, ApplyRecord(m) PROVE mirror'[c] = app'
    <3>1. app' = app /\ ver' = ver
      BY <2>2 DEF ApplyRecord, appVars
    <3>2. CASE c = m.by
      BY <1>a, <1>2, <2>2, <3>1, <3>2 DEF ApplyRecord, CopiesInv
    <3>3. CASE c # m.by
      BY <1>a, <1>2, <2>2, <3>1, <3>3 DEF ApplyRecord, CopiesInv
    <3>. QED BY <3>2, <3>3
  <2>. QED BY <2>1, <2>2, StepShape
<1>. QED BY <1>1, <1>2 DEF CopiesInv

LEMMA JudgingKept ==
    ASSUME JudgingInv, StoreTyped, [StoreNext]_<<appVars, storeVars>>
    PROVE  JudgingInv'
<1>a. AppTyped
  BY DEF StoreTyped, RowsTyped
<1>1. handling' \subseteq handling \/ \E m \in requests : TakeUp(m)
  <2>1. \A c \in Recruiters : RecruiterNext(c) \/ PollCandidate(c) => UNCHANGED handling
    BY RecruiterSends DEF PollCandidate, Send, appVars
  <2>2. \A m : RefuseJudge(m) \/ ServeLoad(m) => UNCHANGED handling
    BY DEF RefuseJudge, ServeLoad, appVars
  <2>3. \A h \in handling : ServeWrite(h) \/ ServeUpload(h) => handling' \subseteq handling
    BY <1>a, Committed
  <2>4. \A t : TaskStep(t) => UNCHANGED handling
    BY DEF TaskStep, TaskLoads, TaskJudges, TaskFails
  <2>5. \A m : ApplyRecord(m) \/ ApplyRubric(m) => UNCHANGED handling
    BY DEF ApplyRecord, ApplyRubric, appVars
  <2>6. ApiRestarts \/ UNCHANGED <<appVars, storeVars>> => handling' \subseteq handling
    BY DEF ApiRestarts, appVars
  <2>. QED BY <2>1, <2>2, <2>3, <2>4, <2>5, <2>6 DEF StoreNext, ServerNext
<1>2. ASSUME NEW m \in requests, TakeUp(m) PROVE JudgingInv'
  <2> DEFINE new == [req |-> m, loaded |-> app, rubric |-> rubric, skills |-> skills]
  <2>1. /\ handling' = handling \cup {new} /\ new.req = m /\ new.loaded = app
        /\ m.kind = "judge" => app.judge # "pending"
    BY <1>2 DEF TakeUp, LoadRow
  <2>. HIDE DEF new
  <2>. QED BY <2>1 DEF JudgingInv
<1>. QED BY <1>1, <1>2 DEF JudgingInv

(* A pending judge is somebody's.                                          *)
LEMMA PendingKept ==
    ASSUME StoreTyped, JudgingInv, PendingJudgeOwned, [StoreNext]_<<appVars, storeVars>>
    PROVE  PendingJudgeOwned'
<1>a. AppTyped /\ RowsTyped /\ restarts \in Nat
  BY ApplicationsAssumption DEF StoreTyped, RowsTyped, AppTyped
<1>1. ASSUME app'.judge = app.judge, UNCHANGED <<tasks, restarts>> PROVE PendingJudgeOwned'
  BY <1>1 DEF PendingJudgeOwned
<1>2. ASSUME UNCHANGED <<app, tasks, restarts>> PROVE PendingJudgeOwned'
  BY <1>2 DEF PendingJudgeOwned
<1>3. ASSUME NEW c \in Recruiters, RecruiterNext(c) \/ PollCandidate(c) PROVE PendingJudgeOwned'
  BY <1>3, <1>2, RecruiterSends DEF Send, PollCandidate, appVars
<1>4. ASSUME NEW m \in requests, TakeUp(m) \/ RefuseJudge(m) \/ ServeLoad(m)
      PROVE  PendingJudgeOwned'
  BY <1>2, <1>4 DEF TakeUp, LoadRow, RefuseJudge, ServeLoad, appVars
<1>5. ASSUME NEW h \in handling, ServeWrite(h) \/ ServeUpload(h) PROVE PendingJudgeOwned'
  <2>1. CASE app'.judge = app.judge /\ UNCHANGED <<tasks, doubled>>
    BY <1>1, <1>5, <1>a, <2>1, Committed
  <2>2. CASE JudgeStarts(h)
    <3> DEFINE new == [id |-> h.req.id, by |-> h.req.by, at |-> "queued", loaded |-> h.loaded]
    <3>1. new \in tasks' /\ new.at = "queued"
      BY <2>2 DEF JudgeStarts
    <3>. QED BY <3>1 DEF PendingJudgeOwned
  <2>. QED BY <1>5, <1>a, <2>1, <2>2, Committed
<1>6. ASSUME NEW t \in tasks, TaskStep(t) PROVE PendingJudgeOwned'
  <2>1. CASE TaskLoads(t)
    <3> DEFINE new == [t EXCEPT !.at = "asking", !.loaded = app]
    <3>1. /\ tasks' = (tasks \ {t}) \cup {new} /\ UNCHANGED <<app, restarts>>
          /\ new.loaded = app
      BY <1>a, <2>1 DEF TaskLoads, AppTyped, Tasks
    <3>. QED BY <3>1 DEF PendingJudgeOwned
  <2>2. CASE (\E b \in BOOLEAN : TaskJudges(t, b)) \/ TaskFails(t)
    <3>1. t.at = "asking" /\ tasks' = tasks \ {t} /\ UNCHANGED restarts
      BY <2>2 DEF TaskJudges, TaskFails
    <3>2. app'.judge = "pending" => app.judge = "pending" /\ t.loaded.judge # "pending"
      BY <1>a, <2>2, TaskJudged, TaskFailed
    <3>. QED BY <3>1, <3>2 DEF PendingJudgeOwned
  <2>. QED BY <1>6, <2>1, <2>2 DEF TaskStep
<1>7. ASSUME NEW m \in replies, ApplyRecord(m) \/ ApplyRubric(m) PROVE PendingJudgeOwned'
  BY <1>2, <1>7 DEF ApplyRecord, ApplyRubric, appVars
<1>8. CASE ApiRestarts
  BY <1>a, <1>8 DEF ApiRestarts, PendingJudgeOwned
<1>9. CASE UNCHANGED <<appVars, storeVars>>
  BY <1>2, <1>9 DEF appVars
<1>. QED BY <1>3, <1>4, <1>5, <1>6, <1>7, <1>8, <1>9 DEF StoreNext, ServerNext

-----------------------------------------------------------------------------
(* Patches that travel alone undo nothing.                                 *)
LEMMA PatchKept ==
    ASSUME StoreTyped, JudgingInv, CopiesInv, PatchInv, [StoreNext]_<<appVars, storeVars>>
    PROVE  PatchInv'
<1>a. AppTyped
  BY DEF StoreTyped, RowsTyped
<1>0. ASSUME hasty' PROVE PatchInv'
  BY <1>0 DEF PatchInv
<1>b. ASSUME ~hasty, \A m \in requests' : ~IsPatch(m), \A h \in handling' : ~IsPatch(h.req)
      PROVE  PatchInv'
  BY <1>b DEF PatchInv, IsPatch
<1>1. ASSUME NEW c \in Recruiters, RecruiterNext(c), ~hasty' PROVE PatchInv'
  <2> PICK kind \in Kinds \ {"load"} : \E body, about :
        /\ Send(c, kind, body, about)
        /\ \A k \in DOMAIN body \ about : k \in Columns /\ body[k] = mirror[c][k]
    BY <1>1, RecruiterSends
  <2> PICK body, about :
        /\ Send(c, kind, body, about)
        /\ \A k \in DOMAIN body \ about : k \in Columns /\ body[k] = mirror[c][k]
    OBVIOUS
  <2>1. Quiet /\ basis[c] = ver /\ ~enriched[c] /\ ~overtaken[c]
    BY <1>1 DEF Send
  <2>2. UNCHANGED <<app, handling, tasks, replies>> /\ requests = {} /\ handling = {} /\ tasks = {}
    BY <2>1 DEF Send, Quiet, appVars
  <2>3. mirror[c] = app
    BY <2>1 DEF CopiesInv
  <2> PICK id : id = actions'
    OBVIOUS
  <2> PICK new : new = [id |-> id, by |-> c, kind |-> kind, body |-> body, about |-> about]
    OBVIOUS
  <2>4. requests' = {new} /\ new.body = body /\ new.about = about
    BY <2>2 DEF Send
  <2>5. Harmless(new)'
    BY <2>2, <2>3, <2>4 DEF Harmless
  <2>. QED BY <2>1, <2>2, <2>4, <2>5 DEF PatchInv, Quiet
<1>2. ASSUME NEW c \in Recruiters, PollCandidate(c), ~hasty' PROVE PatchInv'
  <2>1. \A r \in replies' \ replies : r.kind # "rubric"
    BY <1>2, FreshReply DEF PollCandidate, Load
  <2>2. UNCHANGED <<app, handling, tasks, requests, hasty>>
    BY <1>2 DEF PollCandidate, appVars
  <2>. QED BY <1>2, <2>1, <2>2 DEF PatchInv, Harmless
<1>3. ASSUME NEW m \in requests, TakeUp(m), ~hasty' PROVE PatchInv'
  <2> DEFINE new == [req |-> m, loaded |-> app, rubric |-> rubric, skills |-> skills]
  <2>1. /\ handling' = handling \cup {new} /\ new.req = m /\ requests' = requests \ {m}
        /\ UNCHANGED <<app, tasks, replies, hasty>>
    BY <1>3 DEF TakeUp, LoadRow
  <2>. HIDE DEF new
  <2>2. CASE IsPatch(m)
    BY <1>3, <2>1, <2>2 DEF PatchInv, Harmless
  <2>3. CASE ~IsPatch(m)
    <3>1. /\ \A o \in requests : ~IsPatch(o)
          /\ \A h \in handling : ~IsPatch(h.req)
      BY <1>3, <2>1, <2>3 DEF PatchInv
    <3>. QED BY <1>3, <1>b, <2>1, <2>3, <3>1
  <2>. QED BY <2>2, <2>3
<1>4. ASSUME NEW m \in requests, RefuseJudge(m) \/ ServeLoad(m), ~hasty' PROVE PatchInv'
  <2>1. ~IsPatch(m) /\ requests' = requests \ {m} /\ UNCHANGED <<handling, hasty>>
    BY <1>4 DEF RefuseJudge, ServeLoad, IsPatch, appVars
  <2>2. /\ \A o \in requests : ~IsPatch(o)
        /\ \A h \in handling : ~IsPatch(h.req)
    BY <1>4, <2>1 DEF PatchInv
  <2>. QED BY <1>4, <1>b, <2>1, <2>2
<1>5. ASSUME NEW h \in handling, ServeWrite(h) \/ ServeUpload(h), ~hasty' PROVE PatchInv'
  <2>1. /\ handling' = handling \ {h} /\ UNCHANGED <<requests, hasty>>
    BY <1>5, <1>a, Committed DEF ServeWrite, ServeUpload
  <2>2. /\ \A o \in requests : ~IsPatch(o)
        /\ \A g \in handling' : ~IsPatch(g.req)
    BY <1>5, <2>1 DEF PatchInv
  <2>. QED BY <1>5, <1>b, <2>1, <2>2
<1>6. ASSUME NEW t \in tasks, TaskStep(t), ~hasty' PROVE PatchInv'
  <2>1. UNCHANGED <<requests, handling, hasty>>
    BY <1>6 DEF TaskStep, TaskLoads, TaskJudges, TaskFails
  <2>2. /\ \A o \in requests : ~IsPatch(o)
        /\ \A g \in handling : ~IsPatch(g.req)
    BY <1>6, <2>1 DEF PatchInv
  <2>. QED BY <1>6, <1>b, <2>1, <2>2
<1>7. ASSUME NEW m \in replies, ApplyRecord(m), ~hasty' PROVE PatchInv'
  <2>1. /\ UNCHANGED <<app, handling, tasks, requests, hasty>> /\ replies' \subseteq replies
    BY <1>7 DEF ApplyRecord, appVars
  <2>. QED BY <1>7, <2>1 DEF PatchInv, Harmless
<1>8. ASSUME NEW m \in replies, ApplyRubric(m), ~hasty' PROVE PatchInv'
  <2>1. /\ requests' = requests \cup {Load(m.by)} /\ ~IsPatch(Load(m.by))
        /\ UNCHANGED <<handling, hasty>> /\ m.kind = "rubric"
    BY <1>8 DEF ApplyRubric, appVars, Load, IsPatch
  <2>2. /\ \A o \in requests : ~IsPatch(o)
        /\ \A g \in handling : ~IsPatch(g.req)
    BY <1>8, <2>1 DEF PatchInv
  <2>. QED BY <1>8, <1>b, <2>1, <2>2
<1>9. CASE ApiRestarts
  BY <1>9 DEF ApiRestarts, PatchInv
<1>10. CASE UNCHANGED <<appVars, storeVars>>
  BY <1>10 DEF PatchInv, Harmless, appVars, storeVars
<1>. QED BY <1>0, <1>1, <1>2, <1>3, <1>4, <1>5, <1>6, <1>7, <1>8, <1>9, <1>10
         DEF StoreNext, ServerNext

LEMMA UndoneKept ==
    ASSUME StoreTyped, JudgingInv, PatchInv, NothingUndone, [StoreNext]_<<appVars, storeVars>>
    PROVE  NothingUndone'
<1>1. ASSUME undone' = undone, hasty => hasty' PROVE NothingUndone'
  BY <1>1 DEF NothingUndone
<1>2. ASSUME NEW h \in handling, ServeWrite(h) PROVE NothingUndone'
  <2>0. app \in Rows /\ Handler(h) /\ hasty' = hasty
    BY <1>2 DEF StoreTyped, RowsTyped, AppTyped, ServeWrite
  <2>1. CASE hasty
    BY <2>0, <2>1 DEF NothingUndone
  <2>2. CASE ~hasty
    <3>1. ASSUME NEW k \in DOMAIN h.req.body \ h.req.about PROVE app'[k] = app[k]
      <4>1. CASE PatchApplication(h)
        <5>1. app' = Saved(h.loaded, h.req.body) /\ IsPatch(h.req)
          BY <4>1 DEF PatchApplication, Commit, IsPatch
        <5>2. h.req.body[k] = app[k]
          BY <2>2, <5>1 DEF PatchInv, Harmless
        <5>3. k \in Columns
          BY <2>0, <5>1, PatchBodies DEF Handler, Request, IsPatch, Columns
        <5>. QED BY <2>0, <5>1, <5>2, <5>3, SavedColumn
      <4>2. CASE h.req.kind \in {"screen", "rubric", "judge"}
        <5>1. h.req.body = <<>>
          BY <2>0, <4>2 DEF Handler, Request, Bodies
        <5>. QED BY <5>1
      <4>. QED BY <1>2, <4>1, <4>2 DEF ServeWrite, Screen, RegenerateRubric, JudgeStarts
    <3>2. undone' = (undone \/ \E k \in DOMAIN h.req.body \ h.req.about : app'[k] # app[k])
      BY <1>2 DEF ServeWrite, Caused
    <3>. QED BY <2>2, <3>1, <3>2 DEF NothingUndone
  <2>. QED BY <2>1, <2>2
<1>3. ASSUME NEW c \in Recruiters, RecruiterNext(c) PROVE NothingUndone'
  BY <1>1, <1>3, RecruiterSends DEF Send
<1>4. ASSUME NEW c \in Recruiters, PollCandidate(c) PROVE NothingUndone'
  BY <1>1, <1>4 DEF PollCandidate
<1>5. ASSUME NEW m \in requests, TakeUp(m) \/ RefuseJudge(m) \/ ServeLoad(m) PROVE NothingUndone'
  BY <1>1, <1>5 DEF TakeUp, RefuseJudge, ServeLoad
<1>6. ASSUME (\E h \in handling : ServeUpload(h)) \/ (\E t \in tasks : TaskStep(t))
      PROVE  NothingUndone'
  BY <1>1, <1>6 DEF ServeUpload, TaskStep
<1>7. ASSUME \/ \E m \in replies : ApplyRecord(m) \/ ApplyRubric(m)
             \/ ApiRestarts \/ UNCHANGED <<appVars, storeVars>>
      PROVE  NothingUndone'
  BY <1>1, <1>7 DEF ApplyRecord, ApplyRubric, ApiRestarts, storeVars
<1>. QED BY <1>2, <1>3, <1>4, <1>5, <1>6, <1>7 DEF StoreNext, ServerNext

-----------------------------------------------------------------------------
(* Mirrors catch up.  First what happens to a judge that runs alone.       *)
LEMMA AloneBefore ==
    ASSUME StoreTyped, JudgingInv, [StoreNext]_<<appVars, storeVars>>, Alone'
    PROVE  Alone
<1>0. restarts \in Nat /\ doubled \in BOOLEAN /\ AppTyped
  BY ApplicationsAssumption DEF StoreTyped, RowsTyped, AppTyped
<1>1. ASSUME UNCHANGED <<restarts, doubled>> PROVE Alone
  BY <1>1 DEF Alone
<1>2. \A c \in Recruiters : RecruiterNext(c) \/ PollCandidate(c) => UNCHANGED <<restarts, doubled>>
  BY RecruiterSends DEF Send, PollCandidate, appVars
<1>3. \A m \in requests : TakeUp(m) \/ RefuseJudge(m) \/ ServeLoad(m)
                          => UNCHANGED <<restarts, doubled>>
  BY DEF TakeUp, LoadRow, RefuseJudge, ServeLoad, appVars
<1>4. \A h \in handling : ServeWrite(h) \/ ServeUpload(h)
                          => UNCHANGED restarts /\ (doubled => doubled')
  BY <1>0, Committed DEF JudgeStarts
<1>5. \A t \in tasks : TaskStep(t) => UNCHANGED <<restarts, doubled>>
  BY DEF TaskStep, TaskLoads, TaskJudges, TaskFails
<1>6. \A m \in replies : ApplyRecord(m) \/ ApplyRubric(m) => UNCHANGED <<restarts, doubled>>
  BY DEF ApplyRecord, ApplyRubric, appVars
<1>7. ~ApiRestarts
  BY <1>0 DEF ApiRestarts, Alone
<1>. QED BY <1>1, <1>2, <1>3, <1>4, <1>5, <1>6, <1>7 DEF StoreNext, ServerNext, Alone, appVars

LEMMA TaskKept ==
    ASSUME StoreTyped, JudgingInv, PendingJudgeOwned, TaskInv, [StoreNext]_<<appVars, storeVars>>
    PROVE  TaskInv'
<1> SUFFICES ASSUME Alone' PROVE TaskInv'
  BY DEF TaskInv
<1>a. /\ AppTyped /\ Alone
      /\ \A t, u \in tasks : t = u
      /\ \A t \in tasks : app.judge = "pending" /\ (t.at = "asking" => t.loaded.judge = "pending")
  BY AloneBefore DEF StoreTyped, RowsTyped, TaskInv
<1>1. ASSUME app'.judge = app.judge, UNCHANGED tasks PROVE TaskInv'
  BY <1>a, <1>1 DEF TaskInv
<1>2. ASSUME UNCHANGED <<app, tasks>> PROVE TaskInv'
  BY <1>1, <1>2
<1>3. ASSUME NEW c \in Recruiters, RecruiterNext(c) \/ PollCandidate(c) PROVE TaskInv'
  BY <1>3, <1>2, RecruiterSends DEF Send, PollCandidate, appVars
<1>4. ASSUME NEW m \in requests, TakeUp(m) \/ RefuseJudge(m) \/ ServeLoad(m) PROVE TaskInv'
  BY <1>2, <1>4 DEF TakeUp, LoadRow, RefuseJudge, ServeLoad, appVars
<1>5. ASSUME NEW h \in handling, ServeWrite(h) \/ ServeUpload(h) PROVE TaskInv'
  <2>1. CASE app'.judge = app.judge /\ UNCHANGED <<tasks, doubled>>
    BY <1>1, <2>1
  <2>2. CASE JudgeStarts(h) /\ app'.judge = "pending"
    <3> DEFINE new == [id |-> h.req.id, by |-> h.req.by, at |-> "queued", loaded |-> h.loaded]
    <3>1. tasks = {}
      BY <2>2 DEF JudgeStarts, Alone
    <3>2. tasks' = {new} /\ new.at = "queued"
      BY <2>2, <3>1 DEF JudgeStarts
    <3>. QED BY <2>2, <3>2 DEF TaskInv
  <2>. QED BY <1>5, <1>a, <2>1, <2>2, Committed
<1>6. ASSUME NEW t \in tasks, TaskStep(t) PROVE TaskInv'
  <2>1. CASE TaskLoads(t)
    <3> DEFINE new == [t EXCEPT !.at = "asking", !.loaded = app]
    <3>1. tasks' = {new} /\ UNCHANGED app /\ new.loaded = app
      BY <1>a, <2>1 DEF TaskLoads, AppTyped, Tasks
    <3>. QED BY <1>a, <3>1 DEF TaskInv
  <2>2. CASE (\E b \in BOOLEAN : TaskJudges(t, b)) \/ TaskFails(t)
    <3>1. tasks' = {}
      BY <1>a, <2>2 DEF TaskJudges, TaskFails
    <3>. QED BY <3>1 DEF TaskInv
  <2>. QED BY <1>6, <2>1, <2>2 DEF TaskStep
<1>7. ASSUME NEW m \in replies, ApplyRecord(m) \/ ApplyRubric(m) PROVE TaskInv'
  BY <1>2, <1>7 DEF ApplyRecord, ApplyRubric, appVars
<1>8. CASE ApiRestarts
  BY <1>8 DEF ApiRestarts, TaskInv
<1>9. CASE UNCHANGED <<appVars, storeVars>>
  BY <1>2, <1>9 DEF appVars
<1>. QED BY <1>3, <1>4, <1>5, <1>6, <1>7, <1>8, <1>9 DEF StoreNext, ServerNext

(* A step that brings a reply of a pending row, or of commit e or later,   *)
(* or of a row that another has written, and applies none, leaves what c   *)
(* tracks.                                                                 *)
LEMMA TracksStay ==
    ASSUME NEW c, NEW s, NEW e, Tracks(c, s, e),
           UNCHANGED <<mirror, basis, newest, overtaken>>,
           \A r \in replies \ replies' : r.kind = "rubric",
           \A r \in replies' \ replies : r.basis < e /\ ~r.stale => r.view.judge = "pending"
    PROVE  Tracks(c, s, e)'
BY DEF Tracks

(* So does a reply that is applied: it is older than what the mirror had,  *)
(* or shows the judge pending, or is a bulk's of a row that another has    *)
(* written, or comes before s.                                             *)
LEMMA TracksApplied ==
    ASSUME StoreTyped, NEW c \in Recruiters, NEW s \in Nat, NEW e \in Nat, Tracks(c, s, e),
           NEW m \in replies, ApplyRecord(m)
    PROVE  Tracks(c, s, e)'
<1>0. /\ m.by \in Recruiters /\ m.basis \in Nat /\ m.kind # "rubric" /\ m.stale \in BOOLEAN
      /\ newest \in [Recruiters -> Nat] /\ basis \in [Recruiters -> Nat]
      /\ overtaken \in [Recruiters -> BOOLEAN]
      /\ mirror \in [Recruiters -> Rows] /\ replies' = replies \ {m}
      /\ \A r \in replies : r.basis \in Nat
  BY DEF StoreTyped, RowsTyped, AppTyped, RepliesTyped, StoresTyped, ApplyRecord
<1>1. CASE m.by # c
  <2>1. /\ newest'[c] = newest[c] /\ basis'[c] = basis[c] /\ mirror'[c] = mirror[c]
        /\ overtaken'[c] = overtaken[c]
    BY <1>0, <1>1 DEF ApplyRecord
  <2>. QED BY <1>0, <1>1, <2>1 DEF Tracks
<1>2. CASE m.by = c
  <2>1. /\ newest'[c] = IF m.basis > newest[c] THEN m.basis ELSE newest[c]
        /\ basis'[c] = m.basis /\ mirror'[c] = Enriched(m) /\ overtaken'[c] = m.stale
    BY <1>0, <1>2 DEF ApplyRecord
  <2>2. Enriched(m).judge = m.view.judge
    BY ApplyTypes
  <2>3. CASE m.basis < s
    BY <1>0, <1>2, <2>1, <2>2, <2>3 DEF Tracks
  <2>4. CASE s <= m.basis
    <3>1. newest'[c] >= s
      BY <1>0, <2>1, <2>4
    <3>2. newest'[c] < e =>
            mirror'[c].judge = "pending" \/ basis'[c] < newest'[c] \/ overtaken'[c]
      BY <1>0, <1>2, <2>1, <2>2, <2>4 DEF Tracks
    <3>. QED BY <1>0, <2>1, <3>1, <3>2 DEF Tracks
  <2>. QED BY <1>0, <2>3, <2>4
<1>. QED BY <1>1, <1>2

(* While the judge works every commit shows it pending.                    *)
LEMMA TracksOn ==
    ASSUME StoreTyped, StoreTyped', JudgingInv, [StoreNext]_<<appVars, storeVars>>,
           NEW c \in Recruiters, NEW s \in Nat, Tracks(c, s, ver + 1), app'.judge = "pending"
    PROVE  Tracks(c, s, ver + 1)'
<1>0. /\ ver \in Nat /\ ver' \in {ver, ver + 1} /\ newest'[c] \in Nat
      /\ \A r \in replies : r.basis \in 0..ver
      /\ newest[c] \in 0..ver
      /\ \A r \in replies' \ replies : (~r.stale => r.view = app') /\ r.basis = ver'
  BY StepShape DEF StoreTyped, RowsTyped, AppTyped, StoresTyped, RepliesTyped
<1>1. /\ \A r \in replies : r.by = c /\ s <= r.basis /\ ~r.stale => r.view.judge = "pending"
      /\ IF newest[c] < s
         THEN \E r \in replies : r.by = c /\ r.kind # "rubric" /\ s <= r.basis
         ELSE mirror[c].judge = "pending" \/ basis[c] < newest[c] \/ overtaken[c]
  BY <1>0 DEF Tracks
<1>2. \A r \in replies' : r.by = c /\ s <= r.basis /\ ~r.stale => r.view.judge = "pending"
  BY <1>0, <1>1
<1>3. IF newest'[c] < s
      THEN \E r \in replies' : r.by = c /\ r.kind # "rubric" /\ s <= r.basis
      ELSE mirror'[c].judge = "pending" \/ basis'[c] < newest'[c] \/ overtaken'[c]
  <2>1. CASE /\ UNCHANGED <<mirror, basis, newest, overtaken>>
             /\ \A r \in replies \ replies' : r.kind = "rubric"
    BY <1>1, <2>1
  <2>2. ASSUME NEW m \in replies, ApplyRecord(m)
        PROVE  IF newest'[c] < s
               THEN \E r \in replies' : r.by = c /\ r.kind # "rubric" /\ s <= r.basis
               ELSE mirror'[c].judge = "pending" \/ basis'[c] < newest'[c] \/ overtaken'[c]
    <3> PICK n \in Nat : n = ver + 1
      BY <1>0
    <3>1. Tracks(c, s, n)'
      BY <2>2, TracksApplied
    <3>2. newest'[c] < n
      BY <1>0, <2>2 DEF ApplyRecord, appVars, StoreTyped, StoresTyped
    <3>. QED BY <3>1, <3>2 DEF Tracks
  <2>. QED BY <2>1, <2>2, StepShape
<1>. QED BY <1>2, <1>3 DEF Tracks

(* The recruiter of the judge at work goes on tracking it.                 *)
LEMMA WatchKept ==
    ASSUME StoreTyped, StoreTyped', JudgingInv, TaskInv, TaskInv', WatchInv,
           [StoreNext]_<<appVars, storeVars>>
    PROVE  WatchInv'
<1> SUFFICES ASSUME Alone' PROVE WatchInv'
  BY DEF WatchInv
<1>a. /\ Alone /\ ver \in Nat /\ ver' \in {ver, ver + 1}
      /\ AppTyped
      /\ \A t \in tasks : t.by \in Recruiters
      /\ \A r \in replies : r.basis \in 0..ver
  BY AloneBefore, StepShape DEF StoreTyped, RowsTyped, AppTyped, StoresTyped, RepliesTyped, Tasks
<1>b. \A t \in tasks : \E s \in 0..ver : Tracks(t.by, s, ver + 1)
  BY <1>a DEF WatchInv
<1>c. \A t \in tasks' : app'.judge = "pending"
  BY DEF TaskInv
<1>1. ASSUME \A t \in tasks' : \E u \in tasks : u.by = t.by PROVE WatchInv'
  <2> SUFFICES ASSUME NEW t \in tasks'
               PROVE  \E s \in 0..ver' : Tracks(t.by, s, ver + 1)'
    BY DEF WatchInv
  <2> PICK s \in 0..ver : Tracks(t.by, s, ver + 1)
    BY <1>1, <1>b
  <2>1. t.by \in Recruiters /\ s \in Nat /\ s \in 0..ver'
    BY <1>1, <1>a
  <2>2. Tracks(t.by, s, ver + 1)'
    BY <1>c, <2>1, TracksOn
  <2>. QED BY <2>1, <2>2
<1>2. ASSUME UNCHANGED tasks PROVE WatchInv'
  BY <1>1, <1>2
<1>3. ASSUME NEW c \in Recruiters, RecruiterNext(c) \/ PollCandidate(c) PROVE WatchInv'
  BY <1>2, <1>3, RecruiterSends DEF Send, PollCandidate, appVars
<1>4. ASSUME NEW m \in requests, TakeUp(m) \/ RefuseJudge(m) \/ ServeLoad(m) PROVE WatchInv'
  BY <1>2, <1>4 DEF TakeUp, LoadRow, RefuseJudge, ServeLoad, appVars
<1>5. ASSUME NEW h \in handling, ServeWrite(h) \/ ServeUpload(h), ~JudgeStarts(h) PROVE WatchInv'
  BY <1>2, <1>5, <1>a, Committed
<1>6. ASSUME NEW h \in handling, ServeWrite(h), JudgeStarts(h) PROVE WatchInv'
  <2> DEFINE new == [id |-> h.req.id, by |-> h.req.by, at |-> "queued", loaded |-> h.loaded]
             c == h.req.by
  <2>0. tasks = {} /\ c \in Recruiters /\ h.req.kind = "judge"
    BY <1>6, <1>a DEF JudgeStarts, Alone, AppTyped, Handler, Request
  <2>1. tasks' = {new} /\ new.by = c
    BY <1>6, <2>0 DEF JudgeStarts
  <2>2. app'.judge = "pending" /\ ver' = ver + 1
    BY <1>a, <1>6, JudgeStarted
  <2>3. PICK r0 : /\ replies' = replies \cup {r0}
                  /\ r0.by = c /\ r0.kind = h.req.kind /\ r0.view = app' /\ r0.basis = ver'
    BY <1>6, <1>a, <2>0, Answered
  <2>4. UNCHANGED <<mirror, basis, newest, overtaken>>
    BY <1>6 DEF ServeWrite, shown
  <2>. HIDE DEF new, c
  <2>5. newest'[c] < ver'
    BY <1>a, <2>0, <2>2, <2>4 DEF StoreTyped, StoresTyped
  <2> PICK s \in Nat : s = ver'
    BY <1>a
  <2>6. Tracks(c, s, ver + 1)'
    BY <1>a, <2>0, <2>2, <2>3, <2>5 DEF Tracks
  <2>7. s \in 0..ver'
    BY <1>a
  <2>. QED BY <2>1, <2>6, <2>7 DEF WatchInv
<1>7. ASSUME NEW t \in tasks, TaskStep(t) PROVE WatchInv'
  <2>1. CASE TaskLoads(t)
    <3> DEFINE new == [t EXCEPT !.at = "asking", !.loaded = app]
    <3>1. tasks' = (tasks \ {t}) \cup {new} /\ new.by = t.by
      BY <1>a, <2>1 DEF TaskLoads, AppTyped, Tasks
    <3>. QED BY <1>1, <3>1
  <2>2. CASE (\E b \in BOOLEAN : TaskJudges(t, b)) \/ TaskFails(t)
    <3>1. tasks' = tasks \ {t}
      BY <2>2 DEF TaskJudges, TaskFails
    <3>. QED BY <1>1, <3>1
  <2>. QED BY <1>7, <2>1, <2>2 DEF TaskStep
<1>8. ASSUME NEW m \in replies, ApplyRecord(m) \/ ApplyRubric(m) PROVE WatchInv'
  BY <1>2, <1>8 DEF ApplyRecord, ApplyRubric, appVars
<1>9. CASE ApiRestarts
  BY <1>1, <1>9 DEF ApiRestarts
<1>10. CASE UNCHANGED <<appVars, storeVars>>
  BY <1>2, <1>10 DEF appVars
<1>11. ASSUME NEW h \in handling, ServeUpload(h) PROVE ~JudgeStarts(h)
  BY <1>11 DEF ServeUpload, UploadResume, JudgeStarts
<1>. QED BY <1>3, <1>4, <1>5, <1>6, <1>7, <1>8, <1>9, <1>10, <1>11 DEF StoreNext, ServerNext

(* What brings a recruiter's last commit to his mirror stays on its way    *)
(* while he causes none.                                                   *)
LEMMA CatchUpStays ==
    ASSUME StoreTyped, StoreTyped', JudgingInv, [StoreNext]_<<appVars, storeVars>>,
           NEW c \in Recruiters, CatchesUp(c), lastOwn'[c] = lastOwn[c],
           \A m \in replies : ~ApplyRecord(m),
           \A r \in replies \ replies' : r.by # c,
           \A m \in requests \ requests' : m.by = c /\ m.kind = "load" =>
                \E r \in replies' : r.by = c /\ r.basis = ver'
    PROVE  CatchesUp(c)'
<1>0. /\ ver \in Nat /\ ver' \in {ver, ver + 1} /\ lastOwn[c] \in 0..ver
      /\ newest[c] \in 0..ver /\ UNCHANGED <<mirror, basis, newest, enriched, overtaken>>
      /\ \A r \in replies : r.basis \in 0..ver
      /\ \A r \in replies' \ replies : (~r.stale => r.view = app') /\ r.basis = ver'
      /\ \A r \in replies \ replies' : r.kind = "rubric"
  BY StepShape DEF StoreTyped, RowsTyped, AppTyped, StoresTyped, RepliesTyped
<1>1. CASE lastOwn[c] <= newest[c]
  BY <1>0, <1>1 DEF CatchesUp
<1>2. CASE \E r \in replies : r.by = c /\ (r.kind = "rubric" \/ lastOwn[c] <= r.basis)
  BY <1>0, <1>2 DEF CatchesUp
<1>3. CASE \E m \in requests : m.by = c /\ m.kind = "load"
  BY <1>0, <1>3 DEF CatchesUp
<1>4. ASSUME NEW s \in 0..ver, Tracks(c, s, lastOwn[c]) PROVE CatchesUp(c)'
  <2> PICK e \in Nat : e = lastOwn[c]
    BY <1>0
  <2>1. Tracks(c, s, e)'
    BY <1>0, <1>4, TracksStay
  <2>2. s \in 0..ver'
    BY <1>0
  <2>. QED BY <2>1, <2>2 DEF CatchesUp
<1>. QED BY <1>1, <1>2, <1>3, <1>4 DEF CatchesUp

LEMMA CatchUpKept ==
    ASSUME StoreTyped, StoreTyped', JudgingInv, WatchInv, CatchUpInv,
           [StoreNext]_<<appVars, storeVars>>
    PROVE  CatchUpInv'
<1> SUFFICES ASSUME Alone', NEW c \in Recruiters PROVE CatchesUp(c)'
  BY DEF CatchUpInv
<1>a. /\ Alone /\ ver \in Nat /\ AppTyped
      /\ CatchesUp(c)
      /\ lastOwn \in [Recruiters -> Nat]
      /\ \A d \in Recruiters : lastOwn[d] \in 0..ver
      /\ \A r \in replies : r.by \in Recruiters /\ r.basis \in 0..ver
      /\ \A m \in requests : m.by \in Recruiters
  BY AloneBefore DEF StoreTyped, RowsTyped, AppTyped, StoresTyped, RepliesTyped, RequestsTyped,
                     Request, CatchUpInv
<1>1. ASSUME NEW d \in Recruiters, RecruiterNext(d) PROVE CatchesUp(c)'
  <2>1. /\ UNCHANGED <<lastOwn, replies>> /\ requests \subseteq requests'
        /\ \A m \in replies : ~ApplyRecord(m)
    BY <1>1, RecruiterSends DEF Send, ApplyRecord
  <2>. QED BY <1>a, <2>1, CatchUpStays
<1>2. ASSUME NEW d \in Recruiters, PollCandidate(d) PROVE CatchesUp(c)'
  <2>1. /\ UNCHANGED <<lastOwn, requests>> /\ replies \subseteq replies'
        /\ \A m \in replies : ~ApplyRecord(m)
    BY <1>2 DEF PollCandidate, Reply, ReplyWith, ApplyRecord
  <2>. QED BY <1>a, <2>1, CatchUpStays
<1>3. ASSUME NEW h \in handling, ServeWrite(h) PROVE CatchesUp(c)'
  <2>1. PICK r0 : replies' = replies \cup {r0} /\ r0.by = h.req.by /\ r0.basis = ver'
    BY <1>3, <1>a, Answered
  <2>2. /\ lastOwn' = [lastOwn EXCEPT ![h.req.by] = ver'] /\ UNCHANGED requests
        /\ ver' = ver + 1 /\ h.req.by \in Recruiters
    BY <1>3, <1>a, Committed DEF ServeWrite, Caused, AppTyped, Handler, Request
  <2>3. \A r \in replies : ~ApplyRecord(r)
    BY <2>1 DEF ApplyRecord
  <2>4. CASE h.req.by = c
    BY <1>a, <2>1, <2>2, <2>4 DEF CatchesUp
  <2>5. CASE h.req.by # c
    BY <1>a, <2>1, <2>2, <2>3, <2>5, CatchUpStays
  <2>. QED BY <2>4, <2>5
<1>4. ASSUME NEW h \in handling, ServeUpload(h) PROVE CatchesUp(c)'
  <2>1. UNCHANGED <<lastOwn, requests, replies>> /\ \A r \in replies : ~ApplyRecord(r)
    BY <1>4 DEF ServeUpload, ApplyRecord
  <2>. QED BY <1>a, <2>1, CatchUpStays
<1>5. ASSUME NEW m \in requests, ServeLoad(m) PROVE CatchesUp(c)'
  <2>1. PICK r0 : replies' = replies \cup {r0} /\ r0.by = m.by /\ r0.basis = ver'
    BY <1>5, FreshReply DEF ServeLoad
  <2>2. UNCHANGED lastOwn /\ requests' = requests \ {m}
    BY <1>5 DEF ServeLoad
  <2>3. \A r \in replies : ~ApplyRecord(r)
    BY <2>1 DEF ApplyRecord
  <2>. QED BY <1>a, <2>1, <2>2, <2>3, CatchUpStays
<1>6. ASSUME NEW m \in requests, TakeUp(m) \/ RefuseJudge(m) PROVE CatchesUp(c)'
  <2>1. /\ UNCHANGED <<lastOwn, replies>> /\ requests' = requests \ {m} /\ m.kind # "load"
        /\ \A r \in replies : ~ApplyRecord(r)
    BY <1>6 DEF TakeUp, RefuseJudge, ApplyRecord
  <2>. QED BY <1>a, <2>1, CatchUpStays
<1>7. ASSUME NEW t \in tasks, TaskStep(t) PROVE CatchesUp(c)'
  <2>0. /\ UNCHANGED <<replies, requests, mirror, basis, newest, overtaken>>
        /\ lastOwn' \in {lastOwn, [lastOwn EXCEPT ![t.by] = ver']}
        /\ t.by \in Recruiters
    BY <1>7, <1>a DEF TaskStep, shown, AppTyped, Tasks
  <2>1. \A r \in replies : ~ApplyRecord(r)
    BY <2>0 DEF ApplyRecord
  <2>2. CASE lastOwn'[c] = lastOwn[c]
    BY <1>a, <2>0, <2>1, <2>2, CatchUpStays
  <2>3. CASE lastOwn'[c] # lastOwn[c]
    <3>1. t.by = c /\ lastOwn'[c] = ver'
      BY <1>a, <2>0, <2>3
    <3>2. ver' = ver + 1
      <4>1. ~(TaskLoads(t) /\ UNCHANGED lastOwn)
        BY <2>3
      <4>. QED BY <1>7, <1>a, <4>1, TaskJudged, TaskFailed DEF TaskStep
    <3>3. \E s \in 0..ver : Tracks(c, s, ver + 1)
      BY <1>a, <3>1 DEF WatchInv
    <3> PICK s \in 0..ver : Tracks(c, s, ver + 1)
      BY <3>3
    <3> PICK e \in Nat : e = ver + 1
      BY <1>a
    <3>4. Tracks(c, s, e)'
      BY <2>0, TracksStay
    <3>5. e = lastOwn'[c] /\ s \in 0..ver'
      BY <1>a, <3>1, <3>2
    <3>. QED BY <3>4, <3>5 DEF CatchesUp
  <2>. QED BY <2>2, <2>3
<1>8. ASSUME NEW m \in replies, ApplyRecord(m) PROVE CatchesUp(c)'
  <2>0. /\ UNCHANGED <<lastOwn, ver, requests>> /\ replies' = replies \ {m} /\ m.kind # "rubric"
        /\ newest' = [newest EXCEPT ![m.by] = IF m.basis > @ THEN m.basis ELSE @]
        /\ newest \in [Recruiters -> Nat]
    BY <1>8 DEF ApplyRecord, appVars, StoreTyped, StoresTyped
  <2>1. newest'[c] >= newest[c] /\ newest'[c] \in Nat
    BY <1>a, <2>0
  <2>2. CASE lastOwn[c] <= newest[c]
    BY <1>a, <2>0, <2>1, <2>2 DEF CatchesUp
  <2>3. ASSUME NEW r \in replies, r.by = c, r.kind = "rubric" \/ lastOwn[c] <= r.basis
        PROVE  CatchesUp(c)'
    <3>1. CASE r = m
      <4>1. newest'[c] >= m.basis
        BY <1>a, <2>0, <2>3, <3>1
      <4>. QED BY <1>a, <2>0, <2>1, <2>3, <3>1, <4>1 DEF CatchesUp
    <3>2. CASE r # m
      BY <2>0, <2>3, <3>2 DEF CatchesUp
    <3>. QED BY <3>1, <3>2
  <2>4. CASE \E o \in requests : o.by = c /\ o.kind = "load"
    BY <2>0, <2>4 DEF CatchesUp
  <2>5. ASSUME NEW s \in 0..ver, Tracks(c, s, lastOwn[c]) PROVE CatchesUp(c)'
    <3> PICK e \in Nat : e = lastOwn[c]
      BY <1>a
    <3>1. Tracks(c, s, e)'
      BY <1>8, <2>5, TracksApplied
    <3>. QED BY <2>0, <3>1 DEF CatchesUp
  <2>. QED BY <1>a, <2>2, <2>3, <2>4, <2>5 DEF CatchesUp
<1>9. ASSUME NEW m \in replies, ApplyRubric(m) PROVE CatchesUp(c)'
  <2>1. /\ UNCHANGED lastOwn /\ replies' = replies \ {m} /\ m.kind = "rubric"
        /\ requests' = requests \cup {Load(m.by)}
        /\ Load(m.by).by = m.by /\ Load(m.by).kind = "load"
    BY <1>9 DEF ApplyRubric, Load
  <2>2. \A r \in replies : ~ApplyRecord(r)
    BY <2>1 DEF ApplyRecord
  <2>3. CASE m.by = c
    BY <2>1, <2>3 DEF CatchesUp
  <2>4. CASE m.by # c
    BY <1>a, <2>1, <2>2, <2>4, CatchUpStays
  <2>. QED BY <2>3, <2>4
<1>10. ~ApiRestarts
  BY ApplicationsAssumption DEF ApiRestarts, Alone, StoreTyped, RowsTyped, AppTyped
<1>11. CASE UNCHANGED <<appVars, storeVars>>
  <2>1. \A m \in replies : ~ApplyRecord(m)
    BY <1>11 DEF ApplyRecord, storeVars
  <2>. QED BY <1>11, <1>a, <2>1, CatchUpStays DEF storeVars
<1>. QED BY <1>1, <1>2, <1>3, <1>4, <1>5, <1>6, <1>7, <1>8, <1>9, <1>10, <1>11
         DEF StoreNext, ServerNext

-----------------------------------------------------------------------------
LEMMA StoreInvInit == StoreInit => StoreInv
<1> SUFFICES ASSUME StoreInit PROVE StoreInv
  OBVIOUS
<1>a. app \in Rows /\ app.judge = "idle"
  BY ApplicationsAssumption DEF StoreInit, ApplicationsInit, Rows, Scores, JudgeStatuses,
                                RulesScore, JudgesScore
<1>b. /\ ver = 0 /\ rubric = 0 /\ skills = 0 /\ handling = {} /\ tasks = {} /\ restarts = 0
      /\ doubled \in BOOLEAN
      /\ mirror = [c \in Recruiters |-> app] /\ attempts = [c \in Recruiters |-> 0]
      /\ requests = {} /\ replies = {} /\ actions = 0
      /\ basis = [c \in Recruiters |-> 0] /\ newest = basis /\ lastOwn = basis
      /\ enriched = [c \in Recruiters |-> FALSE] /\ overtaken = enriched
      /\ hasty \in BOOLEAN /\ undone \in BOOLEAN /\ ~undone
  BY DEF StoreInit, ApplicationsInit
<1>1. AppTyped
  BY <1>a, <1>b, ApplicationsAssumption DEF AppTyped
<1>2. StoreTyped
  <2>1. RowsTyped
    BY <1>1, <1>a, <1>b, StoreAssumption DEF RowsTyped
  <2>2. StoresTyped
    BY <1>b, StoreAssumption DEF StoresTyped
  <2>. QED BY <1>b, <2>1, <2>2 DEF StoreTyped, RequestsTyped, RepliesTyped
<1>3. JudgingInv /\ CopiesInv /\ PatchInv /\ TaskInv /\ WatchInv
  BY <1>b DEF JudgingInv, CopiesInv, PatchInv, TaskInv, WatchInv
<1>4. CatchUpInv
  BY <1>b DEF CatchUpInv, CatchesUp
<1>5. PendingJudgeOwned /\ NothingUndone
  BY <1>a, <1>b DEF PendingJudgeOwned, NothingUndone
<1>. QED BY <1>2, <1>3, <1>4, <1>5 DEF StoreInv

LEMMA StoreInvKept ==
    StoreInv /\ [StoreNext]_<<appVars, storeVars>> => StoreInv'
<1> SUFFICES ASSUME StoreInv, [StoreNext]_<<appVars, storeVars>> PROVE StoreInv'
  OBVIOUS
<1>0. /\ StoreTyped /\ JudgingInv /\ CopiesInv /\ PatchInv
      /\ TaskInv /\ WatchInv /\ CatchUpInv
      /\ PendingJudgeOwned /\ NothingUndone
  BY DEF StoreInv
<1>1. StoreTyped' /\ JudgingInv'
  BY <1>0, TypesKept, JudgingKept
<1>2. CopiesInv' /\ PatchInv' /\ TaskInv'
  BY <1>0, CopiesKept, PatchKept, TaskKept
<1>3. WatchInv' /\ CatchUpInv'
  BY <1>0, <1>1, <1>2, WatchKept, CatchUpKept
<1>4. PendingJudgeOwned' /\ NothingUndone'
  BY <1>0, PendingKept, UndoneKept
<1>. QED BY <1>1, <1>2, <1>3, <1>4 DEF StoreInv

(* The inductive invariant of the stores and the application, over every   *)
(* interleaving of the handlers' loads and commits.                        *)
THEOREM StoreCorrect == StoreSpec => []StoreInv
BY StoreInvInit, StoreInvKept, PTL DEF StoreSpec

(* Every value of the row and the stores stays in its range, and no mirror *)
(* shows a commit that was not made.                                       *)
THEOREM StoreTypes == StoreSpec => []StoreTypeOK
<1>1. StoreInv => StoreTypeOK
  BY AppTypes, RowColumns DEF StoreInv, StoreTypeOK, StoreTyped, RowsTyped, AppTyped,
     RequestsTyped, Request, StoresTyped, Kinds, Rows
<1>. QED BY <1>1, StoreCorrect, PTL

(* A row is pending while a task will move it, or for good after a restart.*)
THEOREM PendingOwned == StoreSpec => []PendingJudgeOwned
BY StoreCorrect, PTL DEF StoreInv

(* A decision on an up-to-date mirror with nothing in flight undoes        *)
(* nobody's shortlisting or stage.                                         *)
THEOREM Undoes == StoreSpec => []NothingUndone
BY StoreCorrect, PTL DEF StoreInv

(* When all is quiet a recruiter's mirror has caught up with what he       *)
(* caused, but for the cases the property names: a bulk's row as loaded,   *)
(* over which another had committed, is one.                               *)
THEOREM SyncsBack == StoreSpec => []MirrorSyncsBack
<1>1. StoreInv => MirrorSyncsBack
  <2> SUFFICES ASSUME StoreInv, Quiet, restarts = 0, ~doubled, NEW c \in Recruiters,
                      ~(basis[c] < newest[c]), mirror[c].judge # "pending", ~overtaken[c]
               PROVE  /\ basis[c] >= lastOwn[c]
                      /\ basis[c] = ver /\ ~enriched[c] => mirror[c] = app
    BY DEF MirrorSyncsBack
  <2>0. /\ basis[c] \in Nat /\ newest[c] \in Nat /\ lastOwn[c] \in Nat
        /\ basis[c] <= newest[c]
    BY DEF StoreInv, StoreTyped, StoresTyped
  <2>1. CatchesUp(c)
    BY DEF StoreInv, CatchUpInv, Alone
  <2>2. lastOwn[c] <= newest[c]
    <3>1. ASSUME NEW s \in 0..ver, Tracks(c, s, lastOwn[c]) PROVE lastOwn[c] <= newest[c]
      BY <2>0, <3>1 DEF Tracks, Quiet
    <3>. QED BY <2>1, <3>1 DEF CatchesUp, Quiet
  <2>3. basis[c] = ver /\ ~enriched[c] => mirror[c] = app
    BY DEF StoreInv, CopiesInv
  <2>. QED BY <2>0, <2>2, <2>3
<1>. QED BY <1>1, StoreCorrect, PTL

=============================================================================

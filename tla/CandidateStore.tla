--------------------------- MODULE CandidateStore ---------------------------
(***************************************************************************)
(* The recruiters' browsers in front of Applications: the Zustand store    *)
(* (frontend/src/store/useAppStore.ts) mirrors the application, every      *)
(* action sends a request computed from the mirror and puts the returned   *)
(* record into it, and CandidateDetail.tsx polls while the mirror says     *)
(* that a judge is pending.                                                *)
(*                                                                         *)
(* A request is taken up later than it is sent, committed later still, and *)
(* its reply applied after that, in any order: no button waits for the one *)
(* before.  A reply is read with the commit.  Equal replies to one         *)
(* recruiter's GETs are one.                                               *)
(***************************************************************************)
EXTENDS Applications

CONSTANTS
    MaxActions,  \* bound: actions of the recruiters
    MaxAttempts  \* maxAttempts, 30 in the code

ASSUME StoreAssumption == MaxActions \in Nat /\ MaxAttempts \in Nat

VARIABLES
    mirror,     \* the application as each recruiter's store has it
    attempts,   \* polls of the running effect
    requests,   \* requests sent
    replies,    \* replies on their way
    actions,    \* actions so far, and the id of the last
    \* history variables
    basis,      \* the commit the mirror shows
    newest,     \* the latest commit it ever showed
    lastOwn,    \* the last commit this recruiter caused
    enriched,   \* the mirror holds columns that bulkSetDecision made up
    overtaken,  \* the mirror is a bulk's row as loaded, and another had written it since
    hasty,      \* somebody acted with something in flight or on an old mirror
    undone      \* a decision changed a column it was not about

shown == <<mirror, attempts, basis, newest, enriched, overtaken>>
storeVars == <<shown, requests, replies, actions, lastOwn, hasty, undone>>

(* init: everything is loaded.                                             *)
StoreInit ==
    /\ ApplicationsInit
    /\ mirror = [c \in Recruiters |-> app]
    /\ attempts = [c \in Recruiters |-> 0]
    /\ requests = {} /\ replies = {}
    /\ actions = 0
    /\ basis = [c \in Recruiters |-> 0]
    /\ newest = [c \in Recruiters |-> 0]
    /\ lastOwn = [c \in Recruiters |-> 0]
    /\ enriched = [c \in Recruiters |-> FALSE]
    /\ overtaken = [c \in Recruiters |-> FALSE]
    /\ hasty = FALSE /\ undone = FALSE

Quiet == requests = {} /\ replies = {} /\ handling = {} /\ tasks = {}

-----------------------------------------------------------------------------
(* Sending.  about: the columns the recruiter means to change.             *)
Send(c, kind, body, about) ==
    /\ actions < MaxActions
    /\ actions' = actions + 1
    /\ requests' = requests \cup
        {[id |-> actions', by |-> c, kind |-> kind, body |-> body, about |-> about]}
    /\ hasty' = (hasty \/ ~Quiet \/ basis[c] # ver \/ enriched[c] \/ overtaken[c])
    /\ UNCHANGED <<appVars, shown, replies, lastOwn, undone>>

ToggleShortlist(c) ==
    Send(c, "patch", [shortlisted |-> ~mirror[c].shortlisted], {"shortlisted"})

(* bulkToggleShortlist takes candidates off the list where all are on it.  *)
BulkToggleShortlist(c) ==
    \E b \in BOOLEAN :
        /\ b \/ mirror[c].shortlisted
        /\ Send(c, "bulk", [shortlisted |-> b], {"shortlisted"})

\* Mutant: the stage is always sent, and starts over.
SetDecision_ResetsStage(c, d) ==
    Send(c, "patch",
         [decision |-> d,
          shortlisted |-> d = "Approved" \/ mirror[c].shortlisted,
          stage |-> IF d = "Rejected" THEN "Rejected" ELSE "Applied"],
         {"decision"} \cup (IF d = "Approved" THEN {"shortlisted"} ELSE {})
                      \cup (IF d = "Rejected" THEN {"stage"} ELSE {}))

(* setDecision: approving shortlists and rejecting moves the stage; the    *)
(* columns it does not mean to change are sent as the mirror has them.     *)
SetDecision(c, d) ==
    Send(c, "patch",
         [decision |-> d,
          shortlisted |-> d = "Approved" \/ mirror[c].shortlisted,
          stage |-> IF d = "Rejected" THEN "Rejected" ELSE mirror[c].stage],
         {"decision"} \cup (IF d = "Approved" THEN {"shortlisted"} ELSE {})
                      \cup (IF d = "Rejected" THEN {"stage"} ELSE {}))

BulkSetDecision(c, d) == Send(c, "bulk", [decision |-> d], {"decision"})

(* movePipelineStage and bulkMoveStage.                                    *)
MovePipelineStage(c, s) == Send(c, "patch", [stage |-> s], {"stage"})

BulkMoveStage(c, s) == Send(c, "bulk", [stage |-> s], {"stage"})

ScreenCandidate(c) == Send(c, "screen", <<>>, {})

(* handleJudge: the button is disabled while the mirror says pending.      *)
JudgeCandidate(c) == mirror[c].judge # "pending" /\ Send(c, "judge", <<>>, {})

GenerateRubric(c) == Send(c, "rubric", <<>>, {})

(* A resume is uploaded through the API: no page does it.                  *)
SendResume(c) == Send(c, "upload", <<>>, {})

\* The GET that follows a new rubric.
Load(c) == [id |-> 0, by |-> c, kind |-> "load", body |-> <<>>, about |-> {}]

-----------------------------------------------------------------------------
(* Serving.                                                                *)
ReplyWith(m, view) ==
    replies' = replies \cup {[id |-> m.id, by |-> m.by, kind |-> m.kind, body |-> m.body,
                              view |-> view, basis |-> ver', stale |-> view # app']}

Reply(m) == ReplyWith(m, app')

\* Mutant: polling never gives up.
PollCandidate_NoCap(c) ==
    /\ mirror[c].judge = "pending"
    /\ attempts' = [attempts EXCEPT ![c] = @ + 1]
    /\ UNCHANGED appVars
    /\ Reply(Load(c))
    /\ UNCHANGED <<mirror, basis, newest, enriched, overtaken, requests, actions,
                   lastOwn, hasty, undone>>

(* The effect of CandidateDetail: every 2 s, while pending is shown, and   *)
(* at most MaxAttempts times.  A GET carries nothing: its sending and its  *)
(* serving are one step.                                                   *)
PollCandidate(c) ==
    /\ mirror[c].judge = "pending"
    /\ attempts[c] < MaxAttempts
    /\ attempts' = [attempts EXCEPT ![c] = @ + 1]
    /\ UNCHANGED appVars
    /\ Reply(Load(c))
    /\ UNCHANGED <<mirror, basis, newest, enriched, overtaken, requests, actions,
                   lastOwn, hasty, undone>>

(* A request is taken up: the row is loaded.                               *)
TakeUp(m) ==
    /\ m.kind # "load"
    /\ LoadRow(m)
    /\ requests' = requests \ {m}
    /\ UNCHANGED <<shown, replies, actions, lastOwn, hasty, undone>>

(* A pending judge is refused with 409, which changes nothing anywhere.    *)
RefuseJudge(m) ==
    /\ m.kind = "judge" /\ app.judge = "pending"
    /\ requests' = requests \ {m}
    /\ UNCHANGED <<appVars, shown, replies, actions, lastOwn, hasty, undone>>

ServeLoad(m) ==
    /\ m.kind = "load"
    /\ requests' = requests \ {m}
    /\ UNCHANGED appVars
    /\ Reply(m)
    /\ UNCHANGED <<shown, actions, lastOwn, hasty, undone>>

\* It was by its recruiter that the row changed.
Caused(m) ==
    /\ lastOwn' = [lastOwn EXCEPT ![m.by] = ver']
    /\ undone' = (undone \/ \E k \in DOMAIN m.body \ m.about : app'[k] # app[k])

(* The commit and the answer.  A bulk is answered with the objects as they *)
(* were loaded and assigned (expire_on_commit=False, and no refresh), the  *)
(* others with the row as it is after the commit.                          *)
ServeWrite(h) ==
    /\ \/ PatchApplication(h) \/ Screen(h) \/ RegenerateRubric(h) \/ JudgeStarts(h)
    /\ IF h.req.kind = "bulk" THEN ReplyWith(h.req, Assigned(h.loaded, h.req.body))
                              ELSE Reply(h.req)
    /\ Caused(h.req)
    /\ UNCHANGED <<shown, requests, actions, hasty>>

(* An upload is answered with the resume.                                  *)
ServeUpload(h) ==
    /\ UploadResume(h)
    /\ UNCHANGED <<shown, requests, replies, actions, lastOwn, hasty, undone>>

TaskStep(t) ==
    /\ \/ TaskLoads(t) /\ UNCHANGED lastOwn
       \/ /\ (\E b \in BOOLEAN : TaskJudges(t, b)) \/ TaskFails(t)
          /\ lastOwn' = [lastOwn EXCEPT ![t.by] = ver']
    /\ UNCHANGED <<shown, requests, replies, actions, hasty, undone>>

(* The API restarts: its requests fail and its background tasks are gone.  *)
ApiRestarts ==
    /\ restarts < MaxRestarts
    /\ restarts' = restarts + 1
    /\ requests' = {} /\ handling' = {} /\ tasks' = {}
    /\ UNCHANGED <<app, ver, rubric, skills, doubled, shown, replies, actions,
                   lastOwn, hasty, undone>>

-----------------------------------------------------------------------------
(* Applying.                                                               *)

\* bulkSetDecision puts in what setDecision would have sent.
Enriched(m) ==
    IF m.kind # "bulk" \/ "decision" \notin DOMAIN m.body THEN m.view
    ELSE [m.view EXCEPT !.shortlisted = (m.body.decision = "Approved" \/ @),
                        !.stage = IF m.body.decision = "Rejected" THEN "Rejected" ELSE @]

(* upsertCandidates: the returned record replaces the mirror's, whatever   *)
(* has been applied since it was made.  A change of the judge status shown *)
(* starts the polling effect anew.                                         *)
ApplyRecord(m) ==
    LET c == m.by
    IN  /\ m.kind # "rubric"
        /\ replies' = replies \ {m}
        /\ mirror' = [mirror EXCEPT ![c] = Enriched(m)]
        /\ basis' = [basis EXCEPT ![c] = m.basis]
        /\ newest' = [newest EXCEPT ![c] = IF m.basis > @ THEN m.basis ELSE @]
        /\ enriched' = [enriched EXCEPT ![c] = (Enriched(m) # m.view)]
        /\ overtaken' = [overtaken EXCEPT ![c] = m.stale]
        /\ attempts' = [attempts EXCEPT ![c] = IF m.view.judge # mirror[c].judge THEN 0 ELSE @]
        /\ UNCHANGED <<appVars, requests, actions, lastOwn, hasty, undone>>

\* Mutant: the new rubric's scores are not fetched.
ApplyRubric_NoReload(m) ==
    /\ m.kind = "rubric"
    /\ replies' = replies \ {m}
    /\ UNCHANGED <<appVars, shown, requests, actions, lastOwn, hasty, undone>>

(* generateRubric fetches the rescreened applications after the job.       *)
ApplyRubric(m) ==
    /\ m.kind = "rubric"
    /\ replies' = replies \ {m}
    /\ requests' = requests \cup {Load(m.by)}
    /\ UNCHANGED <<appVars, shown, actions, lastOwn, hasty, undone>>

-----------------------------------------------------------------------------
RecruiterNext(c) ==
    \/ ToggleShortlist(c) \/ BulkToggleShortlist(c)
    \/ \E d \in Decisions \ {"None"} : SetDecision(c, d) \/ BulkSetDecision(c, d)
    \/ \E s \in Stages : MovePipelineStage(c, s) \/ BulkMoveStage(c, s)
    \/ ScreenCandidate(c)
    \/ JudgeCandidate(c)
    \/ GenerateRubric(c)
    \/ SendResume(c)

ServerNext ==
    \/ \E m \in requests : TakeUp(m) \/ RefuseJudge(m) \/ ServeLoad(m)
    \/ \E h \in handling : ServeWrite(h) \/ ServeUpload(h)
    \/ \E t \in tasks : TaskStep(t)

StoreNext ==
    \/ \E c \in Recruiters : RecruiterNext(c) \/ PollCandidate(c)
    \/ ServerNext
    \/ \E m \in replies : ApplyRecord(m) \/ ApplyRubric(m)
    \/ ApiRestarts

StoreSpec == StoreInit /\ [][StoreNext]_<<appVars, storeVars>>

-----------------------------------------------------------------------------
(* Every value of the stores stays in its range.                           *)
StoreTypeOK ==
    /\ ApplicationsTypeOK
    /\ attempts \in [Recruiters -> 0..MaxAttempts]
    /\ actions \in 0..MaxActions
    /\ {m.kind : m \in requests} \subseteq {"patch", "bulk", "screen", "upload", "judge", "rubric", "load"}
    /\ \A c \in Recruiters :
        /\ DOMAIN mirror[c] = DOMAIN app
        /\ mirror[c].judge \in JudgeStatuses
        /\ basis[c] <= newest[c] /\ newest[c] <= ver
        /\ lastOwn[c] <= ver

(* "every mutation calls the API and then syncs the returned record(s)     *)
(* back" (useAppStore.ts, lines 6-9): when all is quiet, a recruiter's     *)
(* mirror has the last commit he caused, the judge's and the rescreening's *)
(* among them, and shows that commit's row, unless an older reply was      *)
(* applied over a newer one, it still says pending (polling was given up), *)
(* it is a bulk's row as loaded over which another had committed, two      *)
(* judges were started at once (the poll stops at the first result), a     *)
(* restart lost something, or bulkSetDecision made columns up.             *)
MirrorSyncsBack ==
    Quiet /\ restarts = 0 /\ ~doubled =>
        \A c \in Recruiters :
            \/ basis[c] < newest[c]
            \/ mirror[c].judge = "pending"
            \/ overtaken[c]
            \/ /\ basis[c] >= lastOwn[c]
               /\ basis[c] = ver /\ ~enriched[c] => mirror[c] = app

(* A decision undoes nobody's shortlisting or stage, as long as everybody  *)
(* acts on a mirror that is up to date, with nothing in flight and no      *)
(* columns made up by a bulk decision: what setDecision sends along        *)
(* (useAppStore.ts, lines 160-164) is then what the row has.               *)
NothingUndone == undone => hasty

=============================================================================

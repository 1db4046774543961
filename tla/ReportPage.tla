----------------------------- MODULE ReportPage -----------------------------
(***************************************************************************)
(* A recruiter's report page (pages/interviews/InterviewReport.tsx) in     *)
(* front of the whole interview system: it loads the report, polls while   *)
(* an evaluation is pending, sets the decision, asks for another           *)
(* evaluation when one failed and plays recordings.                        *)
(*                                                                         *)
(* Every server step is an action of InterviewSystem.  A reply is a view   *)
(* of the row, made when the request is served and applied later, in any   *)
(* order; equal replies to one page are one.  A GET carries nothing: its   *)
(* sending and its serving are one step.                                   *)
(***************************************************************************)
EXTENDS InterviewSystem

CONSTANTS
    Pages,      \* mounts of the page, each used once
    Keys,       \* recordings of the session, one per turn and speaker
    MaxClicks,  \* bound: what the recruiters click
    MaxAttempts,\* maxAttempts, 30 in the code
    MaxLost     \* bound: lost replies and faults together

ASSUME ReportAssumption ==
    /\ {MaxClicks, MaxAttempts, MaxLost} \subseteq Nat
    /\ None \notin Pages \cup Keys

VARIABLES
    page,       \* "new", "open" or "left"
    report,     \* the report shown, NoReport while there is none
    notFound,   \* the page says that the session doesn't exist
    retrying,   \* the Retry button is disabled
    attempts,   \* polls of the running effect
    replies,    \* views on their way to a page
    patches,    \* decisions on their way to the server
    asked,      \* the page a retry request comes from, or None
    playing,    \* the recording being played, or None
    playingUrl, \* the object URL it is played from, 0 for none
    urls,       \* object URLs not revoked, as <<page, number>>
    clips,      \* recordings on their way
    clicks, lost,
    \* history variables
    ver,        \* commits to the row so far
    basis,      \* the commit a page shows
    newest,     \* the latest commit it ever showed
    askers,     \* who asked for an evaluation anew: pages, None a late completion
    hasty,      \* a retry was clicked that was out of date or not the only one
    unanswered, \* pages with a request that got no reply
    rerun,      \* a retry threw a complete evaluation away
    abandoned   \* pages left with a recording on its way

shownVars == <<report, notFound, retrying, attempts, basis, newest, unanswered>>
playerVars == <<playing, playingUrl, urls, clips, abandoned>>
retryVars == <<asked, askers, hasty, rerun>>
reportVars == <<page, shownVars, playerVars, retryVars, replies, patches,
                clicks, lost, ver>>

NoReport == [status |-> "none", evalStatus |-> "idle", evalError |-> FALSE,
             scored |-> {}, decision |-> "None"]

(* interview_session_to_report_view, of the row as it is now.              *)
View == [status |-> status, evalStatus |-> evalStatus, evalError |-> evalError,
         scored |-> scored, decision |-> decision]

ReportInit ==
    /\ Init
    /\ page = [p \in Pages |-> "new"]
    /\ report = [p \in Pages |-> NoReport]
    /\ notFound = [p \in Pages |-> FALSE]
    /\ retrying = [p \in Pages |-> FALSE]
    /\ attempts = [p \in Pages |-> 0]
    /\ replies = {} /\ patches = {}
    /\ asked = [r \in Retriers |-> None]
    /\ playing = [p \in Pages |-> None]
    /\ playingUrl = [p \in Pages |-> 0]
    /\ urls = {} /\ clips = {}
    /\ clicks = 0 /\ lost = 0
    /\ ver = 0
    /\ basis = [p \in Pages |-> 0]
    /\ newest = [p \in Pages |-> 0]
    /\ askers = {}
    /\ hasty = FALSE /\ rerun = FALSE
    /\ unanswered = {}
    /\ abandoned = {}

\* The retry requests that the server still has, or whose reply it has not sent.
Retries == {r \in Retriers : asked[r] # None}

\* A page that has been left gets nothing.
ReplyTo(p, kind) ==
    IF page[p] = "left" THEN {}
    ELSE {[to |-> p, kind |-> kind, view |-> View', basis |-> ver']}

Click == clicks < MaxClicks /\ clicks' = clicks + 1

-----------------------------------------------------------------------------
(* Loading.                                                                *)

(* fetchReport.                                                            *)
FetchReport(p) ==
    /\ UNCHANGED <<vars, ver>>
    /\ replies' = replies \cup ReplyTo(p, "load")

(* The link to a report exists once the session does.                      *)
Open(p) ==
    /\ page[p] = "new" /\ status # "none"
    /\ page' = [page EXCEPT ![p] = "open"]
    /\ FetchReport(p)
    /\ UNCHANGED <<shownVars, playerVars, retryVars, patches, clicks, lost>>

\* Mutant: polling never gives up.
Poll_NoCap(p) ==
    /\ page[p] = "open" /\ report[p].evalStatus = "pending"
    /\ attempts' = [attempts EXCEPT ![p] = @ + 1]
    /\ FetchReport(p)
    /\ UNCHANGED <<page, report, notFound, retrying, basis, newest, unanswered, playerVars,
                   retryVars, patches, clicks, lost>>

(* The polling effect: every 2 s while pending is shown, and at most       *)
(* MaxAttempts times.                                                      *)
Poll(p) ==
    /\ page[p] = "open" /\ report[p].evalStatus = "pending"
    /\ attempts[p] < MaxAttempts
    /\ attempts' = [attempts EXCEPT ![p] = @ + 1]
    /\ FetchReport(p)
    /\ UNCHANGED <<page, report, notFound, retrying, basis, newest, unanswered, playerVars,
                   retryVars, patches, clicks, lost>>

\* Mutant: the reply to a retry is awaited but not shown.
ReplyArrives_IgnoresRetry(m) ==
    LET p == m.to
    IN  /\ replies' = replies \ {m}
        /\ retrying' = [retrying EXCEPT ![p] = @ /\ m.kind # "retry"]
        /\ IF m.kind = "retry" THEN UNCHANGED <<report, attempts, basis, newest>>
           ELSE /\ report' = [report EXCEPT ![p] = m.view]
                /\ attempts' = [attempts EXCEPT ![p] =
                        IF m.view.evalStatus = report[p].evalStatus THEN @ ELSE 0]
                /\ basis' = [basis EXCEPT ![p] = m.basis]
                /\ newest' = [newest EXCEPT ![p] = IF m.basis > @ THEN m.basis ELSE @]
        /\ UNCHANGED <<vars, page, notFound, unanswered, playerVars, retryVars, patches,
                       clicks, lost, ver>>

(* The report of a reply replaces the one shown, whichever is newer; a     *)
(* change of the evaluation status shown starts the polling effect anew.   *)
ReplyArrives(m) ==
    LET p == m.to
    IN  /\ replies' = replies \ {m}
        /\ report' = [report EXCEPT ![p] = m.view]
        /\ attempts' = [attempts EXCEPT ![p] =
                IF m.view.evalStatus = report[p].evalStatus THEN @ ELSE 0]
        /\ retrying' = [retrying EXCEPT ![p] = @ /\ m.kind # "retry"]
        /\ basis' = [basis EXCEPT ![p] = m.basis]
        /\ newest' = [newest EXCEPT ![p] = IF m.basis > @ THEN m.basis ELSE @]
        /\ UNCHANGED <<vars, page, notFound, unanswered, playerVars, retryVars, patches,
                       clicks, lost, ver>>

(* A reply is lost.  Of a poll too that means: not found, for good.        *)
ReplyLost(m) ==
    LET p == m.to
    IN  /\ lost + faults < MaxLost
        /\ lost' = lost + 1
        /\ replies' = replies \ {m}
        /\ notFound' = [notFound EXCEPT ![p] = @ \/ m.kind = "load"]
        /\ retrying' = [retrying EXCEPT ![p] = @ /\ m.kind # "retry"]
        /\ unanswered' = unanswered \cup {p}
        /\ UNCHANGED <<vars, page, report, attempts, basis, newest, playerVars,
                       retryVars, patches, clicks, ver>>

\* The page shows a report and its buttons.
Usable(p) == page[p] = "open" /\ report[p] # NoReport /\ ~notFound[p]

-----------------------------------------------------------------------------
(* The decision.                                                           *)
Decide(p, d) ==
    /\ Usable(p) /\ Click
    /\ patches' = patches \cup {[by |-> p, decision |-> d]}
    /\ UNCHANGED <<vars, page, shownVars, playerVars, retryVars, replies, lost, ver>>

ServeDecision(m) ==
    /\ SetDecision(m.decision)
    /\ ver' = IF rowVars' = rowVars THEN ver ELSE ver + 1
    /\ patches' = patches \ {m}
    /\ replies' = replies \cup ReplyTo(m.by, "decision")
    /\ UNCHANGED <<page, shownVars, playerVars, retryVars, clicks, lost>>

-----------------------------------------------------------------------------
(* Asking for another evaluation.                                          *)

\* Mutant: the button is shown for every outcome.
RetryEvaluation_AnyOutcome(p, r) ==
    /\ Usable(p) /\ report[p].evalStatus # "pending" /\ ~retrying[p]
    /\ asked[r] = None /\ pc[r] = "new" /\ Click
    /\ asked' = [asked EXCEPT ![r] = p]
    /\ askers' = askers \cup {p}
    /\ retrying' = [retrying EXCEPT ![p] = TRUE]
    /\ hasty' = (hasty \/ report[p].evalStatus # evalStatus
                     \/ EvaluationOwned \/ Retries # {})
    /\ UNCHANGED <<vars, page, report, notFound, attempts, basis, newest, unanswered, playerVars,
                   rerun, replies, patches, lost, ver>>

(* retryEvaluation: offered when "failed" is shown.                        *)
RetryEvaluation(p, r) ==
    /\ Usable(p) /\ report[p].evalStatus = "failed" /\ ~retrying[p]
    /\ asked[r] = None /\ pc[r] = "new" /\ Click
    /\ asked' = [asked EXCEPT ![r] = p]
    /\ askers' = askers \cup {p}
    /\ retrying' = [retrying EXCEPT ![p] = TRUE]
    /\ hasty' = (hasty \/ report[p].evalStatus # evalStatus
                     \/ EvaluationOwned \/ Retries # {})
    /\ UNCHANGED <<vars, page, report, notFound, attempts, basis, newest, unanswered, playerVars,
                   rerun, replies, patches, lost, ver>>

(* The request arrives at the server and runs there.                       *)
ServeRetry(r) ==
    /\ asked[r] # None
    /\ PostRetry(r) \/ RetryStep(r)
    /\ ver' = IF rowVars' = rowVars THEN ver ELSE ver + 1
    /\ rerun' = (rerun \/ (pc[r] = "reset" /\ evalStatus = "complete"))
    /\ UNCHANGED <<page, shownVars, playerVars, asked, askers, hasty, replies, patches,
                   clicks, lost>>

(* The row is loaded again for the reply.                                  *)
AnswerRetry(r) ==
    /\ asked[r] # None /\ pc[r] = "ok"
    /\ UNCHANGED <<vars, ver>>
    /\ replies' = replies \cup ReplyTo(asked[r], "retry")
    /\ asked' = [asked EXCEPT ![r] = None]
    /\ UNCHANGED <<page, shownVars, playerVars, askers, hasty, rerun, patches,
                   clicks, lost>>

(* Refused, or the server died: an error is shown and nothing else.        *)
RetryFails(r) ==
    /\ asked[r] # None /\ pc[r] \in {"rejected", "dead"}
    /\ retrying' = [retrying EXCEPT ![asked[r]] = FALSE]
    /\ asked' = [asked EXCEPT ![r] = None]
    /\ unanswered' = unanswered \cup (IF pc[r] = "dead" THEN {asked[r]} ELSE {})
    /\ UNCHANGED <<vars, page, report, notFound, attempts, basis, newest, playerVars,
                   askers, hasty, rerun, replies, patches, clicks, lost, ver>>

-----------------------------------------------------------------------------
(* Playing recordings.                                                     *)

(* play: the recording being played is stopped, any other is fetched.      *)
Play(p, k) ==
    /\ Usable(p) /\ Click
    /\ \/ /\ playing[p] = k
          /\ urls' = urls \ {<<p, playingUrl[p]>>}
          /\ playingUrl' = [playingUrl EXCEPT ![p] = 0]
          /\ playing' = [playing EXCEPT ![p] = None]
          /\ UNCHANGED clips
       \/ /\ playing[p] # k
          /\ clips' = clips \cup {[to |-> p, key |-> k, url |-> clicks']}
          /\ UNCHANGED <<playing, playingUrl, urls>>
    /\ UNCHANGED <<vars, page, shownVars, abandoned, retryVars, replies, patches,
                   lost, ver>>

\* Mutant: the URL that is replaced is not revoked.
ClipArrives_KeepsOld(c) ==
    LET p == c.to
    IN  /\ clips' = clips \ {c}
        /\ urls' = urls \cup {<<p, c.url>>}
        /\ playingUrl' = [playingUrl EXCEPT ![p] = c.url]
        /\ playing' = [playing EXCEPT ![p] = IF page[p] = "left" THEN @ ELSE c.key]
        /\ UNCHANGED <<vars, page, shownVars, abandoned, retryVars, replies, patches,
                       clicks, lost, ver>>

(* The recording is there: its URL replaces the one before, even on a page *)
(* that was left.                                                          *)
ClipArrives(c) ==
    LET p == c.to
    IN  /\ clips' = clips \ {c}
        /\ urls' = (urls \ {<<p, playingUrl[p]>>}) \cup {<<p, c.url>>}
        /\ playingUrl' = [playingUrl EXCEPT ![p] = c.url]
        /\ playing' = [playing EXCEPT ![p] = IF page[p] = "left" THEN @ ELSE c.key]
        /\ UNCHANGED <<vars, page, shownVars, abandoned, retryVars, replies, patches,
                       clicks, lost, ver>>

(* The page is left: the effect's cleanup revokes what is held.            *)
Leave(p) ==
    /\ page[p] = "open"
    /\ page' = [page EXCEPT ![p] = "left"]
    /\ urls' = urls \ {<<p, playingUrl[p]>>}
    /\ replies' = {m \in replies : m.to # p}
    /\ abandoned' = abandoned \cup {c.to : c \in {d \in clips : d.to = p}}
    /\ UNCHANGED <<vars, shownVars, playing, playingUrl, clips, retryVars, patches,
                   clicks, lost, ver>>

-----------------------------------------------------------------------------
\* A turn or an early end in flight completes a complete session anew.
LateCompletion ==
    status = "complete" /\ \E r \in Posts \cup Enders :
                                pc[r] # "trigger" /\ pc'[r] = "trigger"

(* What the candidate, the workers and the faults do meanwhile.            *)
ServerStep ==
    /\ \/ CandidateNext
       \/ \E w \in Workers : WorkerStep(w) \/ WorkerCrashes(w)
       \/ BrokerRestarts
       \/ ApiRestarts
    /\ faults' + lost <= MaxLost
    /\ ver' = IF rowVars' = rowVars THEN ver ELSE ver + 1
    /\ askers' = askers \cup (IF LateCompletion THEN {None} ELSE {})
    /\ UNCHANGED <<page, shownVars, playerVars, asked, hasty, rerun, replies, patches,
                   clicks, lost>>

PageNext(p) ==
    \/ Open(p) \/ Poll(p) \/ Leave(p)
    \/ \E d \in Decisions \ {"None"} : Decide(p, d)
    \/ \E r \in Retriers : RetryEvaluation(p, r)
    \/ \E k \in Keys : Play(p, k)

ReportNext ==
    \/ \E p \in Pages : PageNext(p)
    \/ \E m \in replies : ReplyArrives(m) \/ ReplyLost(m)
    \/ \E c \in clips : ClipArrives(c)
    \/ \E m \in patches : ServeDecision(m)
    \/ \E r \in Retriers : ServeRetry(r) \/ AnswerRetry(r) \/ RetryFails(r)
    \/ ServerStep

ReportSpec == ReportInit /\ [][ReportNext]_<<vars, reportVars>>

-----------------------------------------------------------------------------
(***************************************************************************)
(* Properties.                                                             *)
(***************************************************************************)

(* Every value of the pages stays in its range.                            *)
ReportTypeOK ==
    /\ page \in [Pages -> {"new", "open", "left"}]
    /\ \A p \in Pages :
        /\ DOMAIN report[p] = DOMAIN NoReport
        /\ report[p].evalStatus \in EvaluationStatuses
        /\ basis[p] <= newest[p] /\ newest[p] <= ver
    /\ notFound \in [Pages -> BOOLEAN] /\ retrying \in [Pages -> BOOLEAN]
    /\ attempts \in [Pages -> 0..MaxAttempts]
    /\ asked \in [Retriers -> Pages \cup {None}]
    /\ askers \subseteq Pages \cup {None}
    /\ playing \in [Pages -> Keys \cup {None}]
    /\ playingUrl \in [Pages -> 0..MaxClicks]

\* Nothing is on its way, and nobody is working on an evaluation.
AllDone == replies = {} /\ patches = {} /\ Retries = {} /\ ~EvaluationOwned

(* A page that watched an evaluation ends up showing its outcome: once all *)
(* is done, an outcome shown is the row's, unless an older reply was       *)
(* applied over a newer one or a request got none, or another page or a    *)
(* late completion has asked for an evaluation too (InterviewReport.tsx,   *)
(* lines 48-63: polling stops at the first status other than pending).     *)
ReportShowsOutcome ==
    AllDone =>
        \A p \in Pages :
            \/ ~Usable(p) \/ p \in unanswered
            \/ report[p].evalStatus \in {"idle", "pending"}
            \/ basis[p] < newest[p]
            \/ askers \ {p} # {}
            \/ /\ report[p].evalStatus = evalStatus
               /\ report[p].scored = scored

(* A retry throws no complete evaluation away, unless it was clicked on a  *)
(* report that was out of date, while somebody was still working on the    *)
(* evaluation or while another retry was on its way, or a late completion  *)
(* came in between: the server refuses a retry of a pending evaluation but *)
(* not of a complete one, so what protects a result is that the page       *)
(* offers a retry of a failed one only (InterviewReport.tsx, lines 103-114 *)
(* and 190-195).                                                           *)
NothingRerun == rerun => hasty \/ None \in askers

(* An object URL is revoked once it is not the one being played, and none  *)
(* outlives its page, except that of a recording that was on its way when  *)
(* the page was left ("would otherwise leak one blob per play",            *)
(* InterviewReport.tsx, lines 65-71 and 116-133).                          *)
OneUrlHeld ==
    /\ \A u \in urls :
        /\ u[2] = playingUrl[u[1]]
        /\ page[u[1]] = "left" => u[1] \in abandoned
    /\ \A p \in Pages :
        page[p] = "open" /\ playing[p] # None => <<p, playingUrl[p]>> \in urls

=============================================================================

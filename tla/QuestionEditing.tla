--------------------------- MODULE QuestionEditing ---------------------------
(***************************************************************************)
(* The questions of an interview, edited by several recruiters:            *)
(* pages/interviews/InterviewEditor.tsx and the interview actions of       *)
(* store/useAppStore.ts over app/routers/interviews.py.                    *)
(*                                                                         *)
(* The questions are one JSONB list.  Whatever a recruiter does, his store *)
(* computes a whole new list from its mirror and PATCHes that; the two     *)
(* regenerations load the list, await the model and write it back.         *)
(* Requests arrive and replies are applied in any order.                   *)
(*                                                                         *)
(* One interview with a linked job (without one nothing is regenerated),   *)
(* and editors that are not left: no connection is lost, and what a button *)
(* or a form knows lasts as long as the recruiter.                         *)
(* The prompt, type and difficulty of a question stand as the number of    *)
(* the action that wrote them and their place in what it wrote.            *)
(***************************************************************************)
EXTENDS Naturals, Sequences, FiniteSets, SequencesExt

CONSTANTS
    Recruiters,
    MaxActions,     \* bound: what the recruiters click
    MaxInFlight,    \* bound: clicks whose reply has not come yet
    MaxGenerated    \* the most questions the model returns, 12 in the code

ASSUME EditingAssumption ==
    /\ MaxActions \in Nat /\ MaxInFlight \in Nat
    /\ MaxGenerated \in Nat \ {0}

VARIABLES
    questions,  \* interviews.questions
    shared,     \* interviews.shared
    mirror,     \* the interview in each recruiter's store
    editing,    \* the form: the question open and the text it was opened with
    busyAll,    \* regeneratingAll
    busyOne,    \* regeneratingId
    requests,   \* requests sent
    running,    \* regenerations awaiting the model, with the list they loaded
    replies,    \* replies on their way
    actions,    \* actions so far, and the number of the last
    \* history variables
    intended,   \* the questions, had every action been applied to the list
    hasty,      \* somebody acted with something in flight, or on an old list
    misplaced   \* a saved edit replaced something else than was being edited

rowVars == <<questions, shared>>
pageVars == <<editing, busyAll, busyOne>>
historyVars == <<intended, hasty, misplaced>>
editVars == <<rowVars, mirror, pageVars, requests, running, replies, actions,
              historyVars>>

Closed == [id |-> <<"", 0>>, text |-> <<0, 0>>]

(* generate_questions numbers what the model returned: "q1", "q2", ...     *)
Generated(n, count) == [i \in 1..count |-> [id |-> <<"q", i>>, text |-> <<n, i>>]]

Interview == [questions |-> questions, shared |-> shared]

Ids(list) == {q.id : q \in ToSet(list)}
Texts(list) == {q.text : q \in ToSet(list)}

(* create_interview generated the questions; the stores have loaded it.    *)
EditingInit ==
    /\ questions = Generated(0, MaxGenerated)
    /\ shared = FALSE
    /\ mirror = [c \in Recruiters |-> Interview]
    /\ editing = [c \in Recruiters |-> Closed]
    /\ busyAll = [c \in Recruiters |-> FALSE]
    /\ busyOne = [c \in Recruiters |-> Closed.id]
    /\ requests = {} /\ running = {} /\ replies = {}
    /\ actions = 0
    /\ intended = questions
    /\ hasty = FALSE /\ misplaced = FALSE

Quiet == requests = {} /\ running = {} /\ replies = {}

-----------------------------------------------------------------------------
(* What an action makes of a list: the store applies it to the mirror.     *)
Without(list, id) ==
    LET kept[n \in 0..Len(list)] ==
            IF n = 0 THEN <<>>
            ELSE IF list[n].id = id THEN kept[n - 1] ELSE Append(kept[n - 1], list[n])
    IN  kept[Len(list)]

WithText(list, id, text) ==
    [i \in DOMAIN list |->
        IF list[i].id = id THEN [list[i] EXCEPT !.text = text] ELSE list[i]]

(* handleDrop: the question takes the index the target had.                *)
Moved(list, id, target) ==
    IF {id, target} \subseteq Ids(list)
    THEN LET from == CHOOSE i \in DOMAIN list : list[i].id = id
             to == CHOOSE i \in DOMAIN list : list[i].id = target
         IN  InsertAt(RemoveAt(list, from), to, list[from])
    ELSE list

\* op: what is done, to which question, with what.
Applied(list, op, n) ==
    CASE op.kind = "add" -> Append(list, [id |-> <<"new", n>>, text |-> <<n, 0>>])
      [] op.kind = "remove" -> Without(list, op.id)
      [] op.kind = "update" -> WithText(list, op.id, <<n, 0>>)
      [] op.kind = "reorder" -> Moved(list, op.id, op.target)
      [] op.kind = "one" -> WithText(list, op.id, <<n, 0>>)
      [] op.kind = "all" -> Generated(n, op.count)
      [] op.kind = "share" -> list

-----------------------------------------------------------------------------
(* Sending.                                                                *)
Act(c) ==
    /\ actions < MaxActions
    /\ Cardinality(requests) + Cardinality(running) + Cardinality(replies) < MaxInFlight
    /\ actions' = actions + 1
    /\ UNCHANGED <<rowVars, mirror, running, replies, intended, misplaced>>

Hasty(c) == hasty' = (hasty \/ ~Quiet \/ mirror[c] # Interview)

Request(c, op, body) ==
    requests' = requests \cup {[n |-> actions', by |-> c, op |-> op, body |-> body]}

Patch(c, op) ==
    /\ Act(c) /\ Hasty(c)
    /\ Request(c, op, Applied(mirror[c].questions, op, actions'))
    /\ UNCHANGED pageVars

\* Mutant: a new question is numbered by its place in the list.
AddQuestion_ByLength(c) ==
    LET list == mirror[c].questions
        op == [kind |-> "add"]
    IN  /\ Act(c) /\ Hasty(c)
        /\ Request(c, op, Append(list, [id |-> <<"q", Len(list) + 1>>, text |-> <<actions', 0>>]))
        /\ UNCHANGED pageVars

(* addQuestion.  Date.now() names it: two adds are apart.                  *)
AddQuestion(c) == Patch(c, [kind |-> "add"])

(* removeQuestion; a question being edited has no buttons.                 *)
RemoveQuestion(c) ==
    \E id \in Ids(mirror[c].questions) \ {editing[c].id} :
        Patch(c, [kind |-> "remove", id |-> id])

(* reorderQuestions: drag a question, not the one being edited, onto       *)
(* another.                                                                *)
ReorderQuestions(c) ==
    \E id \in Ids(mirror[c].questions) \ {editing[c].id} :
        \E target \in Ids(mirror[c].questions) \ {id} :
            Patch(c, [kind |-> "reorder", id |-> id, target |-> target])

(* toggleInterviewShared: the opposite of what the mirror has.             *)
ToggleShared(c) ==
    /\ Act(c) /\ Hasty(c)
    /\ Request(c, [kind |-> "share", to |-> ~mirror[c].shared], <<>>)
    /\ UNCHANGED pageVars

(* startEdit opens the form with the question as shown.                    *)
StartEdit(c) ==
    /\ \E q \in ToSet(mirror[c].questions) :
        /\ q.id # editing[c].id
        /\ editing' = [editing EXCEPT ![c] = q]
    /\ UNCHANGED <<rowVars, mirror, busyAll, busyOne, requests, running, replies,
                   actions, historyVars>>

CancelEdit(c) ==
    /\ editing[c] # Closed
    /\ editing' = [editing EXCEPT ![c] = Closed]
    /\ UNCHANGED <<rowVars, mirror, busyAll, busyOne, requests, running, replies,
                   actions, historyVars>>

\* Somebody has written the question since the form was opened.
Outdated(c) ==
    editing[c].text \notin {q.text : q \in {r \in ToSet(mirror[c].questions) : r.id = editing[c].id}}

\* Mutant: the form remembers the place of the question it was opened on.
SaveEdit_ByPlace(c) ==
    LET op == [kind |-> "update", id |-> editing[c].id, was |-> editing[c].text]
        place == editing[c].id[2]
        list == mirror[c].questions
    IN  /\ op.id \in Ids(list)
        /\ Act(c)
        /\ hasty' = (hasty \/ ~Quiet \/ mirror[c] # Interview \/ Outdated(c))
        /\ Request(c, op, [i \in DOMAIN list |->
                IF i = place THEN [list[i] EXCEPT !.text = <<actions', 0>>] ELSE list[i]])
        /\ UNCHANGED pageVars

(* saveEdit; the form stays open until the reply.                          *)
SaveEdit(c) ==
    LET op == [kind |-> "update", id |-> editing[c].id, was |-> editing[c].text]
    IN  /\ op.id \in Ids(mirror[c].questions)
        /\ Act(c)
        /\ hasty' = (hasty \/ ~Quiet \/ mirror[c] # Interview \/ Outdated(c))
        /\ Request(c, op, Applied(mirror[c].questions, op, actions'))
        /\ UNCHANGED pageVars

(* handleRegenerateOne: the button of the question is disabled, until any  *)
(* such request of the page is answered.                                   *)
RegenerateOne(c) ==
    \E id \in Ids(mirror[c].questions) \ {editing[c].id, busyOne[c]} :
        /\ Act(c) /\ Hasty(c)
        /\ Request(c, [kind |-> "one", id |-> id], <<>>)
        /\ busyOne' = [busyOne EXCEPT ![c] = id]
        /\ UNCHANGED <<editing, busyAll>>

(* handleRegenerateAll.                                                    *)
RegenerateAll(c) ==
    /\ ~busyAll[c]
    /\ Act(c) /\ Hasty(c)
    /\ \E count \in 1..MaxGenerated :
        Request(c, [kind |-> "all", count |-> count], <<>>)
    /\ busyAll' = [busyAll EXCEPT ![c] = TRUE]
    /\ UNCHANGED <<editing, busyOne>>

-----------------------------------------------------------------------------
(* Serving.                                                                *)
Reply(m, ok) ==
    replies' = replies \cup {[n |-> m.n, by |-> m.by, kind |-> m.op.kind, ok |-> ok,
                              view |-> Interview']}

Intend(m) == intended' = Applied(intended, m.op, m.n)

(* patch_interview: the list is written as it was sent.                    *)
ServePatch(m) ==
    /\ m.op.kind \in {"add", "remove", "update", "reorder", "share"}
    /\ requests' = requests \ {m}
    /\ \/ m.op.kind = "share" /\ shared' = m.op.to /\ UNCHANGED questions
       \/ m.op.kind # "share" /\ questions' = m.body /\ UNCHANGED shared
    /\ misplaced' = (misplaced \/ (m.op.kind = "update"
                        /\ ~(Texts(questions) \ Texts(questions') \subseteq {m.op.was})))
    /\ Reply(m, TRUE) /\ Intend(m)
    /\ UNCHANGED <<mirror, pageVars, running, actions, hasty>>

(* The regenerations load the list; a question that is gone is a 404.      *)
StartRegeneration(m) ==
    /\ m.op.kind \in {"one", "all"}
    /\ requests' = requests \ {m}
    /\ UNCHANGED rowVars
    /\ \/ /\ m.op.kind = "one" => m.op.id \in Ids(questions)
          /\ running' = running \cup {[n |-> m.n, by |-> m.by, op |-> m.op, loaded |-> questions]}
          /\ UNCHANGED replies
       \/ /\ m.op.kind = "one" /\ m.op.id \notin Ids(questions)
          /\ Reply(m, FALSE)
          /\ UNCHANGED running
    /\ UNCHANGED <<mirror, pageVars, actions, historyVars>>

\* Mutant: the new question goes to the end of the list.
ModelAnswers_Appends(g) ==
    /\ running' = running \ {g}
    /\ questions' = IF g.op.kind = "all" THEN Generated(g.n, g.op.count)
                    ELSE Append(Without(g.loaded, g.op.id), [id |-> g.op.id, text |-> <<g.n, 0>>])
    /\ UNCHANGED shared
    /\ Reply(g, TRUE) /\ Intend(g)
    /\ UNCHANGED <<mirror, pageVars, requests, actions, hasty, misplaced>>

(* The model answers: the list made from the one that was loaded replaces  *)
(* whatever the row has by now.                                            *)
ModelAnswers(g) ==
    /\ running' = running \ {g}
    /\ questions' = Applied(g.loaded, g.op, g.n)
    /\ UNCHANGED shared
    /\ Reply(g, TRUE) /\ Intend(g)
    /\ UNCHANGED <<mirror, pageVars, requests, actions, hasty, misplaced>>

(* LLMError: 502, nothing is written.                                      *)
ModelFails(g) ==
    /\ running' = running \ {g}
    /\ UNCHANGED rowVars
    /\ Reply(g, FALSE)
    /\ UNCHANGED <<mirror, pageVars, requests, actions, historyVars>>

-----------------------------------------------------------------------------
\* Mutant: an error leaves the button disabled.
ReplyArrives_KeepsBusy(m) ==
    LET c == m.by
    IN  /\ replies' = replies \ {m}
        /\ mirror' = [mirror EXCEPT ![c] = IF m.ok THEN m.view ELSE @]
        /\ editing' = [editing EXCEPT ![c] = IF m.kind = "update" THEN Closed ELSE @]
        /\ busyAll' = [busyAll EXCEPT ![c] = @ /\ ~(m.kind = "all" /\ m.ok)]
        /\ busyOne' = [busyOne EXCEPT ![c] = IF m.kind = "one" THEN Closed.id ELSE @]
        /\ UNCHANGED <<rowVars, requests, running, actions, historyVars>>

(* The returned interview replaces the mirror's; an error changes nothing. *)
(* The button of the request is enabled again, the form closed.            *)
ReplyArrives(m) ==
    LET c == m.by
    IN  /\ replies' = replies \ {m}
        /\ mirror' = [mirror EXCEPT ![c] = IF m.ok THEN m.view ELSE @]
        /\ editing' = [editing EXCEPT ![c] = IF m.kind = "update" THEN Closed ELSE @]
        /\ busyAll' = [busyAll EXCEPT ![c] = @ /\ m.kind # "all"]
        /\ busyOne' = [busyOne EXCEPT ![c] = IF m.kind = "one" THEN Closed.id ELSE @]
        /\ UNCHANGED <<rowVars, requests, running, actions, historyVars>>

EditorNext(c) ==
    \/ AddQuestion(c) \/ RemoveQuestion(c) \/ ReorderQuestions(c)
    \/ ToggleShared(c)
    \/ StartEdit(c) \/ CancelEdit(c) \/ SaveEdit(c)
    \/ RegenerateOne(c) \/ RegenerateAll(c)

EditingNext ==
    \/ \E c \in Recruiters : EditorNext(c)
    \/ \E m \in requests : ServePatch(m) \/ StartRegeneration(m)
    \/ \E g \in running : ModelAnswers(g) \/ ModelFails(g)
    \/ \E m \in replies : ReplyArrives(m)

EditingSpec == EditingInit /\ [][EditingNext]_editVars

-----------------------------------------------------------------------------
Questions(list) == \A q \in ToSet(list) : DOMAIN q = {"id", "text"} /\ q.text[1] <= actions

(* Every value of the row and of the pages stays in its range, and what a  *)
(* button waits for is on its way (an editor that was left and opened      *)
(* again would have enabled it, InterviewEditor.tsx, lines 113-129).       *)
EditingTypeOK ==
    /\ Questions(questions) /\ shared \in BOOLEAN
    /\ \A c \in Recruiters :
        /\ Questions(mirror[c].questions)
        /\ busyAll[c] <=>
              \/ \E x \in requests \cup running : x.by = c /\ x.op.kind = "all"
              \/ \E m \in replies : m.by = c /\ m.kind = "all"
    /\ actions \in 0..MaxActions

(* No list ever has two questions with one id, in the row, in a mirror or  *)
(* on its way, however the recruiters' actions interleave: the editor, the *)
(* store and the regeneration all find a question by its id                *)
(* (useAppStore.ts, line 253; question_generator.py, lines 121 and 152).   *)
UniqueIds ==
    LET Unique(list) == \A i, j \in DOMAIN list : list[i].id = list[j].id => i = j
    IN  /\ Unique(questions)
        /\ \A c \in Recruiters : Unique(mirror[c].questions)
        /\ \A m \in requests : m.op.kind \in {"add", "remove", "update", "reorder"}
                => Unique(m.body)

(* Whole lists travel both ways, and still every action comes to be        *)
(* applied to the list as it is, none undoing another, as long as          *)
(* everybody acts on an up-to-date mirror with nothing in flight.          *)
EditsLand == questions # intended => hasty

(* A saved edit replaces the text that its form was opened with and        *)
(* nothing else, whatever was moved, removed or regenerated in between,    *)
(* unless the question itself was written since or the recruiter saved on  *)
(* an old mirror or with something in flight (saveEdit, lines 103-111).    *)
EditsHitTheirQuestion == misplaced => hasty

=============================================================================

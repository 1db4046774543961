------------------------------- MODULE Scoring -------------------------------
(***************************************************************************)
(* The rubric made from a job description and the score of a candidate     *)
(* under it: app/services/screening.py, and frontend/src/lib/scoring.ts,   *)
(* which says it does the same.                                            *)
(*                                                                         *)
(* What the two find in a text is abstracted to how many skills of each    *)
(* tag there are and which of them the candidate's profile has.  A share   *)
(* or score is computed by both in floating point; the quotients that the  *)
(* roundings see are given exactly, as fractions.  Up to 18 criteria the   *)
(* weights are the same in floating point, and the scores but for four     *)
(* ties, which round down there and stay in their band.                    *)
(***************************************************************************)
EXTENDS Integers, Sequences, FiniteSets, Functions

CONSTANT MaxCriteria     \* bound: skills a description mentions

ASSUME ScoringAssumption == MaxCriteria \in Nat

VARIABLES
    tags,       \* the tag of each criterion, in the order of the buckets
    rubric,     \* their weights, as the server stores them
    port,       \* their weights, as the front end computes them
    evidenced,  \* the criteria the candidate's skills match
    result      \* his screening

scoringVars == <<tags, rubric, port, evidenced, result>>

Tags == <<"Must-have", "Nice-to-have", "Disqualifying">>
Total(weights) == SumFunction(weights)

-----------------------------------------------------------------------------
(* Rounding num / den, den > 0: Python's round() takes a tie to the even   *)
(* neighbour, Math.round takes it up.                                      *)
HalfUp(num, den) == (2 * num + den) \div (2 * den)

IsTie(num, den) == (2 * num) % den = 0 /\ ((2 * num) \div den) % 2 = 1

HalfEven(num, den) ==
    LET floor == num \div den
    IN  IF IsTie(num, den) THEN floor + (floor % 2) ELSE HalfUp(num, den)

(* The share of a bucket before rounding: 3 for a must-have, 1 otherwise.  *)
Bucket(tag) == IF tag = "Must-have" THEN 3 ELSE 1
Raw(ts) == Total([i \in DOMAIN ts |-> Bucket(ts[i])])

\* Rounding drift goes to the first of the largest buckets.
Balanced(shares) ==
    IF shares = <<>> THEN shares ELSE [shares EXCEPT ![1] = @ + 100 - Total(shares)]

\* Mutant: the drift is left.
Weights_Drifting(ts) == [i \in DOMAIN ts |-> HalfEven(100 * Bucket(ts[i]), Raw(ts))]

(* generate_rubric.                                                        *)
Weights(ts) ==
    Balanced([i \in DOMAIN ts |-> HalfEven(100 * Bucket(ts[i]), Raw(ts))])

\* Mutant: the drift goes to the last bucket.
PortWeights_LastTakesDrift(ts) ==
    LET shares == [i \in DOMAIN ts |-> HalfUp(100 * Bucket(ts[i]), Raw(ts))]
    IN  IF ts = <<>> THEN shares ELSE [shares EXCEPT ![Len(ts)] = @ + 100 - Total(shares)]

(* distributeWeights.                                                      *)
PortWeights(ts) ==
    Balanced([i \in DOMAIN ts |-> HalfUp(100 * Bucket(ts[i]), Raw(ts))])

-----------------------------------------------------------------------------
\* The weight of the criteria with this tag, and of those evidenced.
Weight(ts, ws, tag, among) ==
    SumFunctionOnSet(ws, {i \in among : ts[i] = tag})

OrOne(n) == IF n = 0 THEN 1 ELSE n

Verdict(score) ==
    CASE score >= 80 -> "Advance"
      [] score \in 55..79 -> "Maybe"
      [] score < 55 -> "Pass"

(* What follows from a score, num / den before it is rounded and capped;   *)
(* weights that add up to less than nothing make den negative.             *)
Screening(num, den) ==
    LET rounded == IF den > 0 THEN HalfEven(num, den) ELSE HalfEven(-num, -den)
        score == IF rounded > 99 THEN 99 ELSE rounded
    IN  [score |-> score, compareVerdict |-> Verdict(score), shortlisted |-> score >= 80]

\* Mutant: the parts of must-haves and nice-to-haves are swapped.
DeriveScore_SwapsParts(ts, ws, hits) ==
    LET totalMust == OrOne(Weight(ts, ws, "Must-have", DOMAIN ts))
        totalNice == OrOne(Weight(ts, ws, "Nice-to-have", DOMAIN ts))
        mustHit == Weight(ts, ws, "Must-have", hits)
        niceHit == Weight(ts, ws, "Nice-to-have", hits)
    IN  Screening((30 * totalMust + 5 * mustHit) * totalNice + 65 * niceHit * totalMust,
                  totalMust * totalNice)

\* Mutant: the share is one of all that is evidenced.
DeriveScore_OfEvidence(ts, ws, hits) ==
    LET total == OrOne(SumFunctionOnSet(ws, hits))
        mustHit == Weight(ts, ws, "Must-have", hits)
        niceHit == Weight(ts, ws, "Nice-to-have", hits)
    IN  Screening(30 * total + 65 * mustHit + 5 * niceHit, total)

(* derive_score: 30, up to 65 for the must-haves and up to 5 for the        *)
(* nice-to-haves evidenced, unless a weight is negative.                   *)
DeriveScore(ts, ws, hits) ==
    LET totalMust == OrOne(Weight(ts, ws, "Must-have", DOMAIN ts))
        totalNice == OrOne(Weight(ts, ws, "Nice-to-have", DOMAIN ts))
        mustHit == Weight(ts, ws, "Must-have", hits)
        niceHit == Weight(ts, ws, "Nice-to-have", hits)
    IN  Screening((30 * totalMust + 65 * mustHit) * totalNice + 5 * niceHit * totalMust,
                  totalMust * totalNice)

(* The band a list of candidates is filtered by (candidates.ts).           *)
ScoreBand(score) ==
    CASE score >= 80 -> "strong"
      [] score \in 55..79 -> "possible"
      [] score < 55 -> "weak"

-----------------------------------------------------------------------------
ScoringInit ==
    /\ tags = <<>> /\ rubric = <<>> /\ port = <<>>
    /\ evidenced = {}
    /\ result = DeriveScore(<<>>, <<>>, {})

(* The rubric of a description with so many skills of each tag.            *)
GenerateRubric(must, nice, disqual) ==
    /\ tags = <<>> /\ must + nice + disqual > 0
    /\ tags' = [i \in 1..(must + nice + disqual) |->
                    IF i <= must THEN Tags[1] ELSE IF i <= must + nice THEN Tags[2] ELSE Tags[3]]
    /\ rubric' = Weights(tags')
    /\ port' = PortWeights(tags')
    /\ evidenced' = {}
    /\ result' = DeriveScore(tags', rubric', {})

(* A candidate whose profile has one skill of the rubric more is screened. *)
ScreenWithOneMore(i) ==
    /\ i \notin evidenced
    /\ evidenced' = evidenced \cup {i}
    /\ result' = DeriveScore(tags, rubric, evidenced')
    /\ UNCHANGED <<tags, rubric, port>>

ScoringNext ==
    \/ \E must, nice, disqual \in 0..MaxCriteria :
        must + nice + disqual <= MaxCriteria /\ GenerateRubric(must, nice, disqual)
    \/ \E i \in DOMAIN tags : ScreenWithOneMore(i)

ScoringSpec == ScoringInit /\ [][ScoringNext]_scoringVars

-----------------------------------------------------------------------------
Must(ts) == {i \in DOMAIN ts : ts[i] = "Must-have"}
AllWeigh(tag) == Weight(tags, rubric, tag, DOMAIN tags)

(* "Weights auto-balance to 100, must-haves weighted highest" (scoring.ts, *)
(* lines 116-117), said of every rubric; and no weight is zero or negative.*)
(* From 14 criteria on the drift of the rounding can be more than the      *)
(* must-have that takes it has (screening.py, lines 199-210).              *)
WeightsHonest ==
    \A ws \in {rubric, port} :
        ws # <<>> =>
            /\ Total(ws) = 100
            /\ \A i \in DOMAIN ws : ws[i] > 0
            /\ \A i \in Must(tags), j \in DOMAIN ws \ Must(tags) : ws[i] >= ws[j]

(* What is left of that promise: it is kept up to 13 criteria.             *)
HonestUpTo13 == Len(tags) <= 13 => WeightsHonest

(* The rubric of the server is the one the front end computes              *)
(* (screening.py, line 178: "mirror of the frontend generateRubric"),      *)
(* unless a share is halfway between two integers.  Then a weight that is  *)
(* such a share may be one more in the front end, and the first takes up   *)
(* what that makes: two must-haves and two nice-to-haves weigh 38, 38, 12, *)
(* 12 on the server and 36, 38, 13, 13 in the browser.                     *)
TiedShare(i) == IsTie(100 * Bucket(tags[i]), Raw(tags))

RubricsAgree ==
    \/ rubric = port
    \/ /\ \E i \in DOMAIN tags : TiedShare(i)
       /\ \A i \in DOMAIN tags \ {1} :
            port[i] = rubric[i] \/ (TiedShare(i) /\ port[i] = rubric[i] + 1)

(* The three places that read a score, as a verdict, a shortlisting and a  *)
(* band, agree at every score a rubric can give.  It lies between 30 and   *)
(* 99 if no weight is negative (with 18 must-haves the first weighs -2,    *)
(* and it alone gives 29).  And the must-haves decide, whatever else is    *)
(* evidenced: all of them make an Advance and none a Pass, if together     *)
(* they weigh anything (one must-have among 25 nice-to-haves does not).    *)
VerdictsAgree ==
    /\ result.shortlisted <=> ScoreBand(result.score) = "strong"
    /\ result.compareVerdict = "Advance" <=> result.shortlisted
    /\ result.compareVerdict = "Pass" <=> ScoreBand(result.score) = "weak"
    /\ (\A i \in DOMAIN rubric : rubric[i] >= 0) => result.score \in 30..99
    /\ AllWeigh("Must-have") > 0 =>
        /\ Must(tags) \subseteq evidenced => result.compareVerdict = "Advance"
        /\ Must(tags) \cap evidenced = {} => result.compareVerdict = "Pass"

(* One more skill of the rubric lowers a score only where the balancing    *)
(* went below zero: if the weight of the criterion it matches is negative, *)
(* or those of all must-haves or all nice-to-haves together.               *)
SkillsNeverHurt ==
    [][( /\ tags' = tags
         /\ AllWeigh("Must-have") >= 0 /\ AllWeigh("Nice-to-have") >= 0
         /\ \A i \in evidenced' \ evidenced : rubric[i] >= 0 )
            => result'.score >= result.score]_scoringVars

=============================================================================

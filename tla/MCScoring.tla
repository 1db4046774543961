----------------------------- MODULE MCScoring -----------------------------
(* Small instances of Scoring.  Criteria of one tag weigh the same, but    *)
(* for the first of the rubric, which takes the drift: a candidate is      *)
(* looked at once for each number of them that his skills match.  A match  *)
(* of a disqualifying criterion is looked at, and none after it.           *)
EXTENDS Scoring

OnePerCount ==
    /\ \A i \in evidenced, j \in 2..Len(tags) :
        (j < i /\ tags[j] = tags[i]) => j \in evidenced
    /\ \A i \in evidenced : tags[i] # "Disqualifying"
=============================================================================

-------------------------- MODULE MCCandidateStore --------------------------
(* Small instances of CandidateStore: the recruiters are interchangeable,  *)
(* and a new rubric or an uploaded resume shortlists, both together do not.*)
EXTENDS CandidateStore, TLC

MCStrong == {<<1, 0>>, <<0, 1>>, <<0, 2>>}

RecruiterSymmetry == Permutations(Recruiters)
=============================================================================

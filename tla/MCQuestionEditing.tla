------------------------- MODULE MCQuestionEditing -------------------------
(* Small instances of QuestionEditing: the recruiters are interchangeable. *)
EXTENDS QuestionEditing, TLC

EditorSymmetry == Permutations(Recruiters)
=============================================================================

---------------------------- MODULE MCReportPage ----------------------------
(* Small instances of ReportPage: requests, workers and recordings are     *)
(* interchangeable.                                                        *)
EXTENDS ReportPage, TLC

ReportSymmetry ==
    Permutations(Retriers) \cup Permutations(Workers) \cup Permutations(Pages)
        \cup Permutations(Keys)
=============================================================================

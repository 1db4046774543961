------------------------ MODULE EvaluationLifecycle ------------------------
(***************************************************************************)
(* What the evaluation of one interview promises, without rows, requests,  *)
(* queue or workers: it falls due when the interview is completed, each    *)
(* time it is due it is settled (scored or failed), a settled one may be   *)
(* asked for again, and only a fault can stall it.                         *)
(*                                                                         *)
(* The docstrings of interview_evaluator.py ("silence would strand the row *)
(* at pending forever") and of _trigger_evaluation state these promises;   *)
(* "stalled" is the phase they want impossible, and the one that a lost    *)
(* task still reaches.                                                     *)
(***************************************************************************)
EXTENDS Naturals

CONSTANT MaxFaults   \* bound: faults that may happen

VARIABLES
    phase,    \* "notDue", "due", "settled" or "stalled"
    faults    \* faults so far

LifecycleInit == phase = "notDue" /\ faults = 0

(* The interview is completed, or a completed one is asked for again: also *)
(* a stalled one, by a turn in flight that completes the session anew.     *)
FallDue ==
    /\ phase' = "due"
    /\ UNCHANGED faults

Settle ==
    /\ phase = "due"
    /\ phase' = "settled"
    /\ UNCHANGED faults

Fault ==
    /\ faults < MaxFaults
    /\ faults' = faults + 1
    /\ \/ phase = "due" /\ phase' \in {"due", "stalled"}
       \/ phase # "due" /\ UNCHANGED phase

LifecycleNext == FallDue \/ Settle \/ Fault

LifecycleSteps ==
    /\ LifecycleInit
    /\ [][LifecycleNext]_<<phase, faults>>

LifecycleSpec ==
    /\ LifecycleSteps
    /\ WF_<<phase, faults>>(Settle)

=============================================================================

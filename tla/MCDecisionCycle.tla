-------------------------- MODULE MCDecisionCycle --------------------------
(* Small instances of DecisionCycle for TLC.                               *)
EXTENDS DecisionCycle, TLC

(* Activities are told apart only by the messages that create them.        *)
Interchangeable == Permutations(Activity)
=============================================================================

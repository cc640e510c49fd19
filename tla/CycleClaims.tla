---------------------------- MODULE CycleClaims ----------------------------
(***************************************************************************)
(* What the documentation of the runtime says of the decision cycle and    *)
(* the code does not keep: the run that checks it ends in a counterexample *)
(* which README.md retells.                                                *)
(***************************************************************************)
EXTENDS DecisionCycle

(* docs/concepts/decision-cycle.md, "if an unhandled message in working    *)
(* memory doesn't correspond to any existing activity, Situate creates     *)
(* one": the cursor only moves past a message for a new goal when the      *)
(* activity is created or when that message woke a paused activity.        *)
NoMessageSwallowed ==
  [][\A i \in (cursor + 1) .. cursor' :
       i <= Len(messages) => born'[messages[i]] # 0]_vars
=============================================================================

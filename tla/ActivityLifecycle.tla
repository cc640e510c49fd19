------------------------- MODULE ActivityLifecycle -------------------------
(***************************************************************************)
(* What the runtime promises about one activity, seen from outside the     *)
(* decision cycle: the places an activity can be in and the only ways it   *)
(* may move between them (src/src/sora/activity.py, ActivityState, read    *)
(* together with what the activity is waiting for).  The four states of    *)
(* the code are refined by the reason for waiting:                         *)
(*   RUNNING on pending_operation is "operating", RUNNING on               *)
(*   pending_inference is "deliberating", BLOCKED on a SignalWait or a     *)
(*   ConditionWait is "suspended", BLOCKED on an InputWait is "paused".    *)
(* DecisionCycle.tla is shown to implement this specification.             *)
(***************************************************************************)
CONSTANT Activity           \* the activities that may ever exist

VARIABLE place              \* where each activity is

Places == {"absent", "ready", "operating", "deliberating",
           "suspended", "paused", "terminated"}

(***************************************************************************)
(* The legal moves.  There is no edge from "operating" to "paused": an     *)
(* interrupt waits for the acknowledgement.  There is one from             *)
(* "deliberating" to "paused": a model call has no side effect to protect. *)
(* Every wait ends in "ready" and "terminated" is final.                   *)
(***************************************************************************)
Moves == {<<"absent",       "ready">>,
          <<"ready",        "operating">>,
          <<"operating",    "ready">>,
          <<"ready",        "deliberating">>,
          <<"deliberating", "ready">>,
          <<"ready",        "suspended">>,
          <<"suspended",    "ready">>,
          <<"ready",        "paused">>,
          <<"deliberating", "paused">>,
          <<"paused",       "ready">>,
          <<"ready",        "terminated">>}

(* An activity is advanced when the agent spends a call on its behalf.     *)
Advanced(a) == /\ place[a] = "ready"
               /\ place'[a] \in {"operating", "deliberating"}

Init == place = [a \in Activity |-> "absent"]

(* Several activities may move in one pass, but only one is advanced:      *)
(* the cycle selects one activity and performs at most one action for it.  *)
Next == /\ place' \in [Activity -> Places]
        /\ \A a \in Activity :
              place'[a] = place[a] \/ <<place[a], place'[a]>> \in Moves
        /\ \A a, b \in Activity : Advanced(a) /\ Advanced(b) => a = b

Spec == Init /\ [][Next]_place
=============================================================================

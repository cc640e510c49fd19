------------------------------- MODULE MCSweep -------------------------------
(***************************************************************************)
(* A sweep of benchmarked runs on small instances: the campaign that       *)
(* schedules it, a run's model calls and a run's ending.  They meet in     *)
(* files and in the environment, which each module has by itself, so a     *)
(* behaviour moves the part that `part` names and leaves the others at     *)
(* their Init, where no fairness asks anything of them.                    *)
(***************************************************************************)
EXTENDS Campaign, ModelCalls, RunVerdict

VARIABLE part

sweepVars == <<campaignVars, callVars, runVars, part>>

\* A block that reads more from the cache than it was sent, and one that
\* wrote to the cache and read nothing.
Overread == {[prompt |-> 1, cached |-> 2, completion |-> 0]}
Written == {[fresh |-> 1, write |-> 1, read |-> Unreported, output |-> 0]}

SweepInit ==
  /\ part \in {"campaign", "calls", "verdict"}
  /\ CampaignInit /\ CallInit /\ RunInit
  /\ part # "calls" => arm = [of |-> "sora", clock |-> "wall"] /\ meter.limit = 1
  /\ part # "verdict" => side = "sora"

SweepNext ==
  \/ part = "campaign" /\ CampaignNext /\ UNCHANGED <<callVars, runVars, part>>
  \/ part = "calls" /\ CallNext /\ UNCHANGED <<campaignVars, runVars, part>>
  \/ part = "verdict" /\ RunNext /\ UNCHANGED <<campaignVars, callVars, part>>

\* The environment's loop runs, and the wall-clock watchdog of either arm stops
\* the world in the end.  A provider may never answer (inference.py:78-88,
\* llm_calls.py:639-642) and a judge that raises never resumes the world
\* (are_sim.py:300-302), so nothing is asked of either.
CallFairness == WF_callVars(LoopTurns) /\ WF_callVars(part = "calls" /\ Stop)

SweepSpec ==
  /\ SweepInit /\ [][SweepNext]_sweepVars
  /\ CampaignFairness /\ CallFairness /\ RunFairness

SweepTypesOK == CampaignTypeOK /\ CallTypeOK /\ RunTypeOK
=============================================================================

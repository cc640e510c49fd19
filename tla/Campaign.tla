------------------------------ MODULE Campaign ------------------------------
(***************************************************************************)
(* The supervised sweep of examples/gaia2: concurrent.py admits capability *)
(* jobs to worker processes under one file lock, and checkpoints.py plays  *)
(* the scenarios of a job one attempt at a time, sealing each attempt and  *)
(* at last the job with an attestation, so that a sweep killed anywhere is *)
(* resumed without paying twice for what it already has.                   *)
(*                                                                         *)
(* What is abstracted: the files of an attempt are its phase and whether   *)
(* its row is usable (infrastructure_failure); output.jsonl and            *)
(* llm_calls.jsonl are the set of attempts they were derived from; pids    *)
(* are not reused; a pinned input that changed, a kill and the watchdog of *)
(* a job all are WorkerDies.  Profiles are left out: every profile has its *)
(* own jobs.                                                               *)
(***************************************************************************)
EXTENDS Integers, Sequences, FiniteSets

CONSTANTS Capabilities,  \* how many capabilities the manifest selects
          Runs,          \* scenario/repeat pairs of one capability
          Workers,       \* --workers
          MaxMishaps     \* bound: crashes, failed scenarios and pauses

ASSUME CampaignConstants ==
  /\ Capabilities \in Nat \ {0} /\ Runs \in Nat \ {0}
  /\ Workers \in 1..4 /\ MaxMishaps \in Nat

VARIABLES
  plan,        \* launch-plan.json: "none", its ".tmp", or "written"
  pause,       \* the PAUSE file exists
  marker,      \* checkpoint-plan.json of a job: "none", its ".tmp", "written"
  attempts,    \* the attempt directories of a job, in the order they were made
  view,        \* the attempts output.jsonl and llm_calls.jsonl were built from
  seal,        \* the attestation pair of a job: "none", "summed", "sealed"
  sup,         \* where the supervisor is; "down" when none runs
  invocation,  \* launches so far
  results,     \* results of the running invocation
  stopped,     \* the flag of _schedule
  worker,      \* the worker each invocation started for a job
  mishaps      \* spent of the bound

diskVars == <<plan, pause, marker, attempts, view, seal>>
supVars == <<sup, invocation, results, stopped>>
campaignVars == <<diskVars, supVars, worker, mishaps>>

Job == 1..(2 * Capabilities)      \* the baseline's jobs come first
Case == 1..Runs                   \* in the order of the manifest
Invocation == 1..(MaxMishaps + 1)

\* An S-ORA job waits for the ReAct job of its capability.
DependsOn(j) == IF j > Capabilities THEN {j - Capabilities} ELSE {}

Live == {"boot", "mark", "collect", "next", "play", "sum", "attest", "accept",
         "close", "publish"}
Exited == {"paused", "failed", "done"}

Usable(j) == {i \in DOMAIN attempts[j] :
                attempts[j][i].phase = "sealed" /\ attempts[j][i].usable}
Accepted(j) == {attempts[j][i].run : i \in Usable(j)}
Duplicate(j) == \E i, k \in Usable(j) : i # k /\ attempts[j][i].run = attempts[j][k].run

\* Mutant: the lock dies with the supervisor.
LockOfSupervisor == sup \notin {"down", "refused"}

\* The descriptor of .launcher-lock is inherited by every worker.
LockHeld == sup \notin {"down", "refused"}
            \/ \E j \in Job, g \in Invocation : worker[j][g].pc \in Live

Active == {j \in Job : invocation > 0 /\ worker[j][invocation].pc # "off"
                       /\ results[j] = "none"}

CampaignInit ==
  /\ plan = "none" /\ pause = FALSE
  /\ marker = [j \in Job |-> "none"] /\ seal = [j \in Job |-> "none"]
  /\ attempts = [j \in Job |-> <<>>] /\ view = [j \in Job |-> {}]
  /\ sup = "down" /\ invocation = 0 /\ stopped = FALSE
  /\ results = [j \in Job |-> "none"]
  /\ worker = [j \in Job |-> [g \in Invocation |-> [pc |-> "off", at |-> 0, took |-> {}]]]
  /\ mishaps = 0
-----------------------------------------------------------------------------
(* The supervisor.                                                         *)

\* What a resume finds in a job's directory and will not continue from.
Refuses(j) ==
  IF seal[j] = "sealed" THEN view[j] # Usable(j) \/ Accepted(j) # Case
  ELSE marker[j] = "tmp" \/ Duplicate(j)

Launch ==
  /\ sup \in {"down", "refused"} /\ ~LockHeld /\ invocation < MaxMishaps + 1
  /\ \E j \in Job : results[j] # "completed"
  /\ invocation' = invocation + 1
  /\ stopped' = FALSE
  /\ results' = [j \in Job |-> IF seal[j] = "sealed" THEN "completed" ELSE "none"]
  /\ \/ plan = "none" /\ plan' = "tmp" /\ sup' = "planning"
     \/ plan = "tmp" /\ plan' = plan /\ sup' = "refused"      \* the root is not fresh
     \/ /\ plan = "written" /\ plan' = plan
        /\ sup' = IF \E j \in Job : Refuses(j) THEN "refused" ELSE "inspected"
  /\ UNCHANGED <<pause, marker, attempts, view, seal, worker, mishaps>>

PlanWritten ==
  /\ sup = "planning"
  /\ plan' = "written" /\ sup' = "scheduling"
  /\ UNCHANGED <<pause, marker, attempts, view, seal, invocation, results, stopped, worker, mishaps>>

\* Mutant: a resume leaves the drain marker.
ResumesPaused ==
  /\ sup = "inspected" /\ sup' = "scheduling"
  /\ UNCHANGED <<diskVars, invocation, results, stopped, worker, mishaps>>

\* A resume authorises the interrupted scenarios: the drain marker goes.
Unpause ==
  /\ sup = "inspected"
  /\ pause' = FALSE /\ sup' = "scheduling"
  /\ UNCHANGED <<plan, marker, attempts, view, seal, invocation, results, stopped, worker, mishaps>>

\* Mutant: no job waits for another.
EligibleAtOnce == {j \in Job : results[j] = "none" /\ j \notin Active}

Eligible == {j \in Job : /\ results[j] = "none" /\ j \notin Active
                         /\ \A d \in DependsOn(j) : results[d] = "completed"}

\* One turn of the loop of _schedule: poll the drain marker, then admit.
Admitted ==
  IF stopped \/ pause THEN {}
  ELSE {j \in Eligible :
          Cardinality({i \in Eligible : i < j}) + Cardinality(Active) < Workers}

Round ==
  /\ sup = "scheduling" /\ Admitted # {}
  /\ worker' = [j \in Job |->
       IF j \in Admitted THEN [worker[j] EXCEPT ![invocation].pc = "boot"] ELSE worker[j]]
  /\ UNCHANGED <<diskVars, supVars, mishaps>>

Finish ==
  /\ sup = "scheduling" /\ Active = {} /\ Admitted = {}
  /\ sup' = "down"
  /\ UNCHANGED <<diskVars, invocation, results, stopped, worker, mishaps>>

\* run_job returns: what the exit code says, checked against the artifacts.
Reap(j) ==
  LET code == worker[j][invocation].pc
      status == CASE code = "paused" -> "paused"
                  [] code = "done" /\ ~Refuses(j) -> "completed"
                  [] OTHER -> "failed"
  IN /\ sup = "scheduling" /\ j \in Active /\ code \in Exited
     /\ results' = [results EXCEPT ![j] = status]
     /\ pause' = (pause \/ status = "failed")
     /\ stopped' = (stopped \/ pause \/ status # "completed")
     /\ UNCHANGED <<plan, marker, attempts, view, seal, sup, invocation, worker, mishaps>>
-----------------------------------------------------------------------------
(* A worker: run_checkpointed of one job.                                  *)

Moves(j, g, to) == worker' = [worker EXCEPT ![j][g].pc = to]

\* verify and prepare: a directory without its marker is not continued.
Boot(j, g) ==
  /\ worker[j][g].pc = "boot"
  /\ IF marker[j] = "none" THEN marker' = [marker EXCEPT ![j] = "tmp"] /\ Moves(j, g, "mark")
     ELSE /\ Moves(j, g, IF marker[j] = "tmp" \/ seal[j] = "sealed" THEN "failed" ELSE "collect")
          /\ UNCHANGED marker
  /\ UNCHANGED <<plan, pause, attempts, view, seal, supVars, mishaps>>

Mark(j, g) ==
  /\ worker[j][g].pc = "mark"
  /\ marker' = [marker EXCEPT ![j] = "written"] /\ Moves(j, g, "collect")
  /\ UNCHANGED <<plan, pause, attempts, view, seal, supVars, mishaps>>

\* completed and the first publish.
Collect(j, g) ==
  /\ worker[j][g].pc = "collect"
  /\ IF Duplicate(j) THEN Moves(j, g, "failed") /\ UNCHANGED view
     ELSE /\ view' = [view EXCEPT ![j] = Usable(j)]
          /\ worker' = [worker EXCEPT ![j][g] = [@ EXCEPT !.pc = "next", !.took = Accepted(j)]]
  /\ UNCHANGED <<plan, pause, marker, attempts, seal, supVars, mishaps>>

\* The boundary between two scenarios: a dead supervisor or the drain marker
\* ends the worker, otherwise the next scenario starts a fresh attempt.
Boundary(j, g) ==
  LET left == Case \ worker[j][g].took
      orphan == ~(sup \notin {"down", "refused"} /\ invocation = g)
      c == CHOOSE x \in left : \A y \in left : x <= y
  IN /\ worker[j][g].pc = "next"
     /\ \/ left = {} /\ Moves(j, g, "close") /\ UNCHANGED <<pause, attempts>>
        \/ /\ left # {} /\ (orphan \/ pause)
           /\ pause' = TRUE /\ Moves(j, g, "paused") /\ UNCHANGED attempts
        \/ /\ left # {} /\ ~orphan /\ ~pause
           /\ attempts' = [attempts EXCEPT ![j] =
                Append(@, [run |-> c, phase |-> "started", usable |-> FALSE])]
           /\ worker' = [worker EXCEPT ![j][g] =
                [@ EXCEPT !.pc = "play", !.at = Len(attempts[j]) + 1]]
           /\ UNCHANGED pause
     /\ UNCHANGED <<plan, marker, view, seal, supVars, mishaps>>

\* _run_one_scenario and checkpoint.json; an infrastructure failure is paid too.
Play(j, g) ==
  /\ worker[j][g].pc = "play"
  /\ \E usable \in BOOLEAN :
       /\ usable \/ mishaps < MaxMishaps
       /\ mishaps' = mishaps + (IF usable THEN 0 ELSE 1)
       /\ attempts' = [attempts EXCEPT ![j][worker[j][g].at] =
            [@ EXCEPT !.phase = "recorded", !.usable = usable]]
  /\ Moves(j, g, "sum")
  /\ UNCHANGED <<plan, pause, marker, view, seal, supVars>>

Sum(j, g) ==
  /\ worker[j][g].pc = "sum"
  /\ attempts' = [attempts EXCEPT ![j][worker[j][g].at].phase = "summed"]
  /\ Moves(j, g, "attest")
  /\ UNCHANGED <<plan, pause, marker, view, seal, supVars, mishaps>>

Attest(j, g) ==
  /\ worker[j][g].pc = "attest"
  /\ attempts' = [attempts EXCEPT ![j][worker[j][g].at].phase = "sealed"]
  /\ Moves(j, g, "accept")
  /\ UNCHANGED <<plan, pause, marker, view, seal, supVars, mishaps>>

\* A usable attempt is published; a failed one drains the whole sweep.
Accept(j, g) ==
  LET a == attempts[j][worker[j][g].at]
  IN /\ worker[j][g].pc = "accept"
     /\ IF a.usable
        THEN /\ worker' = [worker EXCEPT ![j][g] =
                  [@ EXCEPT !.pc = "next", !.took = worker[j][g].took \cup {a.run}]]
             /\ view' = [view EXCEPT ![j] = Usable(j)] /\ UNCHANGED pause
        ELSE pause' = TRUE /\ Moves(j, g, "failed") /\ UNCHANGED view
     /\ UNCHANGED <<plan, marker, attempts, seal, supVars, mishaps>>

\* The two files of the job's attestation.
Close(j, g) ==
  /\ worker[j][g].pc = "close"
  /\ seal' = [seal EXCEPT ![j] = "summed"] /\ Moves(j, g, "publish")
  /\ UNCHANGED <<plan, pause, marker, attempts, view, supVars, mishaps>>

Publish(j, g) ==
  /\ worker[j][g].pc = "publish"
  /\ seal' = [seal EXCEPT ![j] = "sealed"] /\ Moves(j, g, "done")
  /\ UNCHANGED <<plan, pause, marker, attempts, view, supVars, mishaps>>
-----------------------------------------------------------------------------
(* What goes wrong.                                                        *)

Mishap == mishaps < MaxMishaps /\ mishaps' = mishaps + 1

SupervisorDies ==
  /\ sup \notin {"down", "refused"} /\ sup' = "down" /\ Mishap
  /\ UNCHANGED <<diskVars, invocation, results, stopped, worker>>

WorkerDies(j, g) ==
  /\ worker[j][g].pc \in Live /\ Moves(j, g, "failed") /\ Mishap
  /\ UNCHANGED <<diskVars, supVars>>

\* Ctrl-C terminates the process groups; so does the machine going down.
EverythingStops ==
  /\ sup \notin {"down", "refused"} /\ sup' = "down" /\ Mishap
  /\ worker' = [j \in Job |-> [worker[j] EXCEPT ![invocation].pc =
                  IF @ \in Live THEN "failed" ELSE @]]
  /\ results' = [j \in Job |-> IF j \in Active THEN "interrupted" ELSE results[j]]
  /\ UNCHANGED <<diskVars, invocation, stopped>>

\* concurrent --pause, from another terminal and without the lock.
AskToPause ==
  /\ plan = "written" /\ ~pause /\ pause' = TRUE /\ Mishap
  /\ UNCHANGED <<plan, marker, attempts, view, seal, supVars, worker>>

SupervisorStep == Launch \/ PlanWritten \/ Unpause \/ Round \/ Finish \/ \E j \in Job : Reap(j)
WorkerStep(j, g) ==
  \/ Boot(j, g) \/ Mark(j, g) \/ Collect(j, g) \/ Boundary(j, g) \/ Play(j, g) \/ Sum(j, g)
  \/ Attest(j, g) \/ Accept(j, g) \/ Close(j, g) \/ Publish(j, g)

CampaignNext ==
  \/ SupervisorStep
  \/ \E j \in Job, g \in Invocation : WorkerStep(j, g) \/ WorkerDies(j, g)
  \/ SupervisorDies \/ EverythingStops \/ AskToPause

CampaignSpec == CampaignInit /\ [][CampaignNext]_campaignVars
\* Once launched, the operator resumes a sweep that went down.
CampaignFairness ==
  /\ WF_campaignVars(invocation > 0 /\ SupervisorStep)
  /\ \A j \in Job, g \in Invocation : WF_campaignVars(WorkerStep(j, g))
-----------------------------------------------------------------------------
Phase == {"started", "recorded", "summed", "sealed"}
Attempt == [run : Case, phase : Phase, usable : BOOLEAN]
Seat == [pc : {"off"} \cup Live \cup Exited, at : Nat, took : SUBSET Case]

CampaignTypeOK ==
  /\ plan \in {"none", "tmp", "written"} /\ pause \in BOOLEAN /\ stopped \in BOOLEAN
  /\ marker \in [Job -> {"none", "tmp", "written"}]
  /\ seal \in [Job -> {"none", "summed", "sealed"}]
  /\ attempts \in [Job -> Seq(Attempt)]
  /\ view \in [Job -> SUBSET Nat]
  /\ sup \in {"down", "refused", "planning", "inspected", "scheduling"}
  /\ invocation \in 0..(MaxMishaps + 1) /\ mishaps \in 0..MaxMishaps
  /\ results \in [Job -> {"none", "completed", "paused", "failed", "interrupted"}]
  /\ worker \in [Job -> [Invocation -> Seat]]

(* No scenario run is paid for again once an attempt at it was accepted,   *)
(* whatever died since: the accepted attempt is the last one made, and no  *)
(* two workers ever share a job's directory.                               *)
PaidOnce ==
  \A j \in Job :
    /\ \A i \in Usable(j), k \in DOMAIN attempts[j] :
         attempts[j][k].run = attempts[j][i].run => k <= i
    /\ \A g, h \in Invocation :
         worker[j][g].pc \in Live /\ worker[j][h].pc \in Live => g = h

(* An attestation is never ahead of what it attests: a sealed job has one  *)
(* accepted attempt for every run it promises, its rows are derived from   *)
(* exactly those, and an S-ORA job leaves nothing on disk before the       *)
(* baseline it will be paired with is sealed.                              *)
SealedIsComplete ==
  \A j \in Job :
    /\ seal[j] = "sealed" => view[j] = Usable(j) /\ Accepted(j) = Case
    /\ marker[j] # "none" => \A d \in DependsOn(j) : seal[d] = "sealed"

\* A root is refused only after a crash inside the first write of its plan or of
\* a job's checkpoint marker.
RefusalFollowsCrash == sup = "refused" => plan = "tmp" \/ \E j \in Job : marker[j] = "tmp"

(* With an operator who keeps resuming, the sweep completes or its root is *)
(* refused, and a refusal only ever follows a crash inside the first write *)
(* of a plan or a checkpoint marker.                                       *)
SweepSettles ==
  /\ (invocation > 0) ~> [](\/ sup = "refused"
                            \/ sup = "down" /\ \A j \in Job : seal[j] = "sealed")
  /\ []RefusalFollowsCrash
=============================================================================

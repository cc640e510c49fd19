----------------------------- MODULE RunVerdict -----------------------------
(***************************************************************************)
(* How one benchmarked scenario ends and what its row says of the ending.  *)
(* The agent, the online judge, the scenario clock and a watchdog thread   *)
(* can each end it; the watchdog also runs while the judge scores.  On the *)
(* S-ORA side the session polls _StopController; on the ReAct side ARE's   *)
(* own loop returns, and one thread watches both the cap and the judge.    *)
(*                                                                         *)
(* What is abstracted: deadlines and stalls pass as events; whether the    *)
(* activities are finished and every turn answered is chosen at each poll. *)
(***************************************************************************)
EXTENDS Integers, Sequences, FiniteSets

CONSTANTS Inferences, \* off-cycle inferences of one run
          Nobody      \* no cause, no verdict, no error

ASSUME RunConstants ==
  /\ Inferences \in Nat
  /\ Nobody \notin {"timeline", "judge", "watchdog", "teardown",
                    "timeout", "judge_stall", "wall_clock"}

VARIABLES
  side,      \* the arm
  env,       \* the environment: built, stopped by whom, past its duration, judge paused
  due,       \* what has passed: the wall cap, 180 seconds of one judge pause
  caught,    \* what the watchdogs have flagged
  calls,     \* inferences in the order the meter first heard of them, with their outcome
  trial,     \* phase, stop reason, attribution, latched expiry, exception, verdict;
             \* ender remembers what had stopped the environment when the agent left it
  row        \* the result, once written

runVars == <<side, env, due, caught, calls, trial, row>>

Standing == env.built /\ env.by = Nobody
Halted(who) == IF Standing THEN [env EXCEPT !.by = who, !.judging = FALSE] ELSE env
Truncation(wall, judge) == IF judge THEN "judge_stall" ELSE IF wall THEN "wall_clock" ELSE Nobody
Working == trial.phase = "agent"
-----------------------------------------------------------------------------
RunInit ==
  /\ side \in {"sora", "react"}
  /\ env = [built |-> FALSE, by |-> Nobody, past |-> FALSE, judging |-> FALSE]
  /\ due = [cap |-> FALSE, stall |-> FALSE]
  /\ caught = [cap |-> FALSE, stall |-> FALSE]
  /\ calls = <<>>
  /\ trial = [phase |-> "setup", reason |-> Nobody, cut |-> Nobody, expired |-> Nobody,
            exc |-> Nobody, success |-> Nobody, ender |-> Nobody]
  /\ row = Nobody

Build ==
  /\ trial.phase = "setup"
  /\ env' = [env EXCEPT !.built = TRUE] /\ trial' = [trial EXCEPT !.phase = "agent"]
  /\ UNCHANGED <<side, due, caught, calls, row>>

\* The environment's clock, which nothing pauses once it is stopped.
DurationPasses ==
  /\ env.built /\ ~env.past /\ trial.phase # "done"
  /\ env' = [Halted("timeline") EXCEPT !.past = TRUE]
  /\ UNCHANGED <<side, due, caught, calls, trial, row>>

CapPasses ==
  /\ ~due.cap /\ trial.phase # "done" /\ due' = [due EXCEPT !.cap = TRUE]
  /\ UNCHANGED <<side, env, caught, calls, trial, row>>

\* The gate between turns: pause, and resume, reject, or stall.
JudgeGate ==
  /\ Working /\ Standing
  /\ \/ ~env.judging /\ env' = [env EXCEPT !.judging = TRUE] /\ UNCHANGED due
     \/ /\ env.judging /\ due' = [due EXCEPT !.stall = FALSE]
        /\ env' \in {[env EXCEPT !.judging = FALSE], Halted("judge")}
     \/ env.judging /\ ~due.stall /\ due' = [due EXCEPT !.stall = TRUE] /\ UNCHANGED env
  /\ UNCHANGED <<side, caught, calls, trial, row>>

Infer ==
  /\ Working /\ side = "sora" /\ Len(calls) < Inferences
  /\ calls' = Append(calls, Nobody)
  /\ UNCHANGED <<side, env, due, caught, trial, row>>

\* Only the first outcome of an inference counts: a watchdog's answer and the
\* provider's can race under one id.
Resolve(i, outcome) ==
  /\ Working /\ i \in DOMAIN calls /\ calls[i] = Nobody
  /\ calls' = [calls EXCEPT ![i] = outcome]
  /\ UNCHANGED <<side, env, due, caught, trial, row>>
-----------------------------------------------------------------------------
\* _wall_deadline: flags the cap even when there is nothing to stop yet.
WatchesCap ==
  /\ side = "sora" /\ due.cap /\ trial.phase # "done" /\ ~(caught.cap /\ ~Standing)
  /\ caught' = [caught EXCEPT !.cap = TRUE]
  /\ env' = Halted("watchdog")
  /\ UNCHANGED <<side, due, calls, trial, row>>

\* The thread of run_react_on_scenario.
WatchesBoth ==
  /\ side = "react" /\ trial.phase # "done"
  /\ LET stalled == caught.stall \/ (env.judging /\ due.stall)
     IN /\ stalled \/ due.cap
        /\ ~(caught.cap = due.cap /\ caught.stall = stalled /\ ~Standing)
        /\ caught' = [cap |-> due.cap, stall |-> stalled]
  /\ env' = Halted("watchdog")
  /\ UNCHANGED <<side, due, calls, trial, row>>

\* Mutant: a stopped environment is not asked for its deadlines any more.
PollWhileStanding(limited, done, answered) ==
  LET cut == IF Standing THEN Truncation(due.cap, env.judging /\ due.stall) ELSE Nobody
  IN CASE limited -> [reason |-> "llm_call_limit", cut |-> Nobody]
       [] ~limited /\ cut # Nobody -> [reason |-> "timeout", cut |-> cut]
       [] ~limited /\ cut = Nobody /\ ~env.judging /\ done /\ (answered \/ ~Standing) ->
            [reason |-> "verification_completion", cut |-> Nobody]
       [] OTHER -> [reason |-> Nobody, cut |-> Nobody]

\* One poll of _StopController: the call limit, the two caps, then completion.
PollVerdict(limited, done, answered) ==
  LET cut == Truncation(due.cap, env.judging /\ due.stall)
  IN CASE limited -> [reason |-> "llm_call_limit", cut |-> Nobody]
       [] ~limited /\ cut # Nobody -> [reason |-> "timeout", cut |-> cut]
       [] ~limited /\ cut = Nobody /\ ~env.judging /\ done /\ (answered \/ ~Standing) ->
            [reason |-> "verification_completion", cut |-> Nobody]
       [] OTHER -> [reason |-> Nobody, cut |-> Nobody]

\* The teardown closes the workspace, which latches the expiry first.
Leave(reason, cut, exc) ==
  /\ trial' = [trial EXCEPT !.phase = "scoring", !.reason = reason, !.cut = cut, !.exc = exc,
                        !.expired = env.past, !.ender = env.by]
  /\ env' = IF side = "sora" THEN Halted("teardown") ELSE env

Poll(limited, done, answered) ==
  /\ Working /\ side = "sora"
  /\ LET v == PollVerdict(limited, done, answered)
     IN v.reason # Nobody /\ Leave(v.reason, v.cut, Nobody)
  /\ UNCHANGED <<side, due, caught, calls, row>>

\* ARE's loop returns, at its iteration limit or not; or the run crashes.
AgentReturns ==
  /\ Working
  /\ \/ side = "react" /\ \E reason \in {Nobody, "llm_call_limit"} : Leave(reason, Nobody, Nobody)
     \/ \E exc \in {"overflow", "crash"} : Leave(Nobody, Nobody, exc)
  /\ UNCHANGED <<side, due, caught, calls, row>>

\* validate, a synchronous call: a verdict, an exception, or no verdict where no
\* judge is attached.
Score ==
  /\ trial.phase = "scoring" /\ trial.exc = Nobody
  /\ trial' \in {[trial EXCEPT !.phase = "scored", !.success = s] : s \in {"passed", "failed", Nobody}}
           \cup {[trial EXCEPT !.phase = "scored", !.exc = "crash"]}
  /\ UNCHANGED <<side, env, due, caught, calls, row>>

\* A run that crashed is not scored.
SkipScore ==
  /\ trial.phase = "scoring" /\ trial.exc # Nobody
  /\ trial' = [trial EXCEPT !.phase = "scored"]
  /\ UNCHANGED <<side, env, due, caught, calls, row>>
-----------------------------------------------------------------------------
\* _terminal_inference_errors: what follows the last success, in the meter's order.
Unresolved ==
  {i \in DOMAIN calls : calls[i] \in {"error", "overflow"}
                        /\ \A j \in DOMAIN calls : calls[j] = "success" => j < i}
InferenceErrors == {calls[i] : i \in Unresolved}

Reason == IF side = "sora" /\ trial.reason = Nobody /\ caught.cap THEN "timeout"
          ELSE IF side = "react" /\ (caught.cap \/ caught.stall) /\ trial.reason = Nobody THEN "timeout"
          ELSE trial.reason

\* Mutant: what the controller did not see itself is not a truncation.
CutAsPolled == IF side = "react" THEN Truncation(caught.cap, caught.stall) ELSE trial.cut

Cut == IF side = "react" THEN Truncation(caught.cap, caught.stall)
       ELSE IF trial.cut = Nobody /\ caught.cap THEN "wall_clock" ELSE trial.cut

\* _terminal_cause.
Cause ==
  IF trial.exc = "overflow" \/ "overflow" \in InferenceErrors THEN "context_overflow"
  ELSE IF trial.exc # Nobody \/ InferenceErrors # {} THEN "infrastructure_error"
  ELSE IF Reason = "llm_call_limit" THEN "llm_call_limit"
  ELSE IF trial.expired \/ Reason = "timeout" THEN "timeout"
  ELSE IF trial.success # Nobody THEN "verification_completion" ELSE "unscored_completion"

Write ==
  /\ trial.phase = "scored"
  /\ trial' = [trial EXCEPT !.phase = "done"]
  /\ row' = [cause |-> Cause, cut |-> Cut, expired |-> trial.expired,
             score |-> IF trial.exc # Nobody THEN Nobody ELSE trial.success]
  /\ UNCHANGED <<side, env, due, caught, calls>>

RunNext ==
  \/ Build \/ DurationPasses \/ CapPasses \/ JudgeGate \/ Infer \/ WatchesCap \/ WatchesBoth
  \/ AgentReturns \/ Score \/ SkipScore \/ Write
  \/ \E i \in 1..Inferences, o \in {"success", "error", "overflow"} : Resolve(i, o)
  \/ \E limited, done, answered \in BOOLEAN : Poll(limited, done, answered)

\* The watchdog keeps watching, the session keeps polling, and what follows
\* validate is done.  Nothing makes a limit be met, an activity end or a judge
\* answer.
RunFairness ==
  /\ WF_runVars(WatchesCap) /\ WF_runVars(Poll(FALSE, FALSE, FALSE))
  /\ WF_runVars(SkipScore) /\ WF_runVars(Write)
RunSpec == RunInit /\ [][RunNext]_runVars
-----------------------------------------------------------------------------
RunTypeOK ==
  /\ env.by \in {Nobody, "timeline", "judge", "watchdog", "teardown"}
  /\ trial.reason \in {Nobody, "llm_call_limit", "timeout", "verification_completion"}
  /\ row # Nobody => row.cut \in {Nobody, "judge_stall", "wall_clock"}
  /\ Len(calls) <= Inferences

\* batch._is_scored.
Counts == row # Nobody /\ row.score # Nobody /\ ~row.expired /\ row.cut = Nobody

(* A run that a watchdog ended at all, or the scenario clock ended under   *)
(* the agent, is never counted as a pass or a miss, whichever thread saw   *)
(* it first and whatever the judge then made of the half-played scenario;  *)
(* and a counted run is never labelled a timeout.                          *)
CutShortIsNotCounted ==
  Counts => trial.ender \notin {"watchdog", "timeline"} /\ env.by # "watchdog" /\ row.cause # "timeout"

(* Once its cap has passed the S-ORA session leaves its agent, even if no  *)
(* activity ever finishes, the judge holds the world paused, or something  *)
(* else stopped the environment before the poll looked; and then the run   *)
(* gets its row, unless validate never returns, which no watchdog ends:    *)
(* the teardown has stopped the environment already.                       *)
CapEndsTheSession ==
  (side = "sora" /\ Working /\ due.cap)
    ~> (trial.phase = "done" \/ [](trial.phase = "scoring" /\ trial.exc = Nobody))
=============================================================================

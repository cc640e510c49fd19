---------------------------- MODULE Sweep_proofs ----------------------------
(***************************************************************************)
(* Proofs about the parts of a benchmarked sweep: how a run ends           *)
(* (RunVerdict), what its model calls cost (ModelCalls), and the types of  *)
(* the sweep they are part of (MCSweep, with Campaign).                    *)
(***************************************************************************)
EXTENDS MCSweep, Campaign_proofs, Totals, FiniteSetTheorems

-----------------------------------------------------------------------------
(* RunVerdict.                                                             *)

Ender == {Nobody, "timeline", "judge", "watchdog", "teardown"}
CutCause == {Nobody, "judge_stall", "wall_clock"}
Environment == [built : BOOLEAN, by : Ender, past : BOOLEAN, judging : BOOLEAN]
Flagged == [cap : BOOLEAN, stall : BOOLEAN]
Trial == [phase : {"setup", "agent", "scoring", "scored", "done"},
          reason : {Nobody, "llm_call_limit", "timeout", "verification_completion"},
          cut : CutCause, expired : BOOLEAN \cup {Nobody}, exc : {Nobody, "overflow", "crash"},
          success : {Nobody, "passed", "failed"}, ender : Ender]
Result == {Nobody, "success", "error", "overflow"}

RunTypes ==
  /\ side \in {"sora", "react"} /\ env \in Environment /\ due \in Flagged /\ caught \in Flagged
  /\ trial \in Trial /\ calls \in Seq(Result) /\ Len(calls) <= Inferences

\* What an ending leaves behind: a watchdog flags before it stops, the timeline
\* is past once it has stopped anything, and the trial remembers who was first.
EndingIsKnown ==
  /\ env.by = "watchdog" => caught.cap \/ (side = "react" /\ caught.stall)
  /\ env.by = "timeline" => env.past
  /\ trial.ender = "watchdog" => env.by = "watchdog"
  /\ trial.ender = "timeline" => trial.expired = TRUE

\* The agent leaves with a truncation exactly when it says so, and only then is
\* there anything to score; the row comes last.
TrialInOrder ==
  /\ trial.phase \in {"setup", "agent"} =>
       trial.ender = Nobody /\ trial.reason = Nobody /\ trial.cut = Nobody
  /\ trial.phase \in {"scoring", "scored", "done"} => trial.expired \in BOOLEAN
  /\ trial.reason = "timeout" => side = "sora" /\ trial.cut # Nobody
  /\ trial.phase # "done" => row = Nobody
  /\ row # Nobody => row.cut \in CutCause

RunInv == RunTypes /\ EndingIsKnown /\ TrialInOrder /\ CutShortIsNotCounted

LEMMA RunInvInit == RunInit => RunInv
<1> SUFFICES ASSUME RunInit PROVE RunInv
  OBVIOUS
<1>1. RunTypes
  BY RunConstants, EmptySeq
     DEF RunInit, RunTypes, Environment, Flagged, Trial, Ender, CutCause
<1>2. EndingIsKnown /\ TrialInOrder /\ CutShortIsNotCounted
  BY RunConstants DEF RunInit, EndingIsKnown, TrialInOrder, CutShortIsNotCounted, Counts
<1> QED
  BY <1>1, <1>2 DEF RunInv

\* Stopping the environment: only a standing one, and its stopper is the first.
LEMMA HaltedOnce ==
  ASSUME env \in Environment, NEW who \in Ender \ {Nobody}
  PROVE  /\ Halted(who) \in Environment
         /\ Halted(who).by = IF Standing THEN who ELSE env.by
         /\ Halted(who).past = env.past /\ Halted(who).built = env.built
BY DEF Halted, Standing, Environment, Ender

\* While no row is written, nothing is counted.
LEMMA Unwritten == row = Nobody => CutShortIsNotCounted
BY DEF CutShortIsNotCounted, Counts

\* The last step: the row says what the trial and the watchdogs left.
LEMMA WriteIsHonest == RunInv /\ Write => RunInv'
<1> SUFFICES ASSUME RunInv, Write PROVE RunInv'
  OBVIOUS
<1>0. RunTypes /\ EndingIsKnown /\ TrialInOrder
  BY DEF RunInv
<1>1. /\ trial.phase = "scored" /\ UNCHANGED <<side, env, due, caught, calls>>
      /\ row' = [cause |-> Cause, cut |-> Cut, expired |-> trial.expired,
                 score |-> IF trial.exc # Nobody THEN Nobody ELSE trial.success]
  BY DEF Write
<1>2. /\ trial' \in Trial /\ trial'.phase = "done" /\ trial'.ender = trial.ender
      /\ trial'.reason = trial.reason /\ trial'.cut = trial.cut /\ trial'.expired = trial.expired
  <2>1. trial \in Trial /\ trial' = [trial EXCEPT !.phase = "done"]
    BY <1>0 DEF RunTypes, Write
  <2> QED
    BY <2>1 DEF Trial
<1>3. RunTypes' /\ EndingIsKnown'
  BY <1>0, <1>1, <1>2 DEF RunTypes, EndingIsKnown
<1>4. row'.cut = Cut /\ row'.expired = trial.expired /\ row'.cause = Cause
  BY <1>1
<1>5. Cut \in CutCause
  BY <1>0 DEF Cut, Truncation, CutCause, RunTypes, Trial
<1>6. TrialInOrder'
  BY <1>0, <1>1, <1>2, <1>4, <1>5 DEF TrialInOrder
<1>7. CutShortIsNotCounted'
  <2> SUFFICES ASSUME Cut = Nobody, trial.expired # TRUE
               PROVE  trial.ender \notin {"watchdog", "timeline"} /\ env.by # "watchdog" /\ Cause # "timeout"
    BY <1>0, <1>1, <1>2, <1>4 DEF CutShortIsNotCounted, Counts, TrialInOrder
  <2>1. CASE side = "sora"
    <3>1. trial.cut = Nobody /\ caught.cap = FALSE
      BY <2>1, <1>0, RunConstants DEF Cut, RunTypes, Flagged
    <3>2. Reason = trial.reason /\ trial.reason # "timeout"
      BY <1>0, <2>1, <3>1 DEF Reason, TrialInOrder
    <3> QED
      BY <1>0, <1>1, <2>1, <3>1, <3>2 DEF EndingIsKnown, Cause, TrialInOrder
  <2>2. CASE side = "react"
    <3>1. caught.cap = FALSE /\ caught.stall = FALSE
      BY <2>2, <1>0, RunConstants DEF Cut, Truncation, RunTypes, Flagged
    <3>2. Reason = trial.reason /\ trial.reason # "timeout"
      BY <1>0, <2>2, <3>1 DEF Reason, TrialInOrder
    <3> QED
      BY <1>0, <1>1, <2>2, <3>1, <3>2 DEF EndingIsKnown, Cause, TrialInOrder
  <2> QED
    BY <1>0, <2>1, <2>2 DEF RunTypes
<1> QED
  BY <1>3, <1>6, <1>7 DEF RunInv

\* The agent leaves: the teardown is no watchdog and no timeline.
LEMMA LeavingKeeps ==
  ASSUME RunInv, trial.phase = "agent", UNCHANGED <<side, due, caught, calls, row>>,
         NEW reason \in {Nobody, "llm_call_limit", "timeout", "verification_completion"},
         NEW cut \in CutCause, NEW exc \in {Nobody, "overflow", "crash"},
         reason = "timeout" => side = "sora" /\ cut # Nobody,
         Leave(reason, cut, exc)
  PROVE  RunInv'
<1>0. RunTypes /\ EndingIsKnown /\ TrialInOrder /\ row = Nobody
  BY DEF RunInv, TrialInOrder
<1>1. /\ trial' \in Trial /\ trial'.phase = "scoring" /\ trial'.ender = env.by
      /\ trial'.reason = reason /\ trial'.cut = cut /\ trial'.expired = env.past
  <2>1. /\ trial \in Trial /\ env.past \in BOOLEAN /\ env.by \in Ender
        /\ trial' = [trial EXCEPT !.phase = "scoring", !.reason = reason, !.cut = cut, !.exc = exc,
                        !.expired = env.past, !.ender = env.by]
    BY <1>0 DEF RunTypes, Leave, Environment
  <2> QED
    BY <2>1 DEF Trial
<1>2. /\ env' \in Environment /\ env'.by \in {env.by, "teardown"} /\ env'.past = env.past
      /\ env.by # Nobody => env'.by = env.by
  <2>1. env \in Environment /\ "teardown" \in Ender \ {Nobody}
    BY <1>0, RunConstants DEF RunTypes, Ender
  <2> QED
    BY <2>1, HaltedOnce DEF Leave, Standing
<1>3. env.past \in BOOLEAN /\ row' = Nobody
  BY <1>0 DEF RunTypes, Environment
<1>4. RunTypes'
  BY <1>0, <1>1, <1>2 DEF RunTypes
<1>5. EndingIsKnown'
  BY <1>0, <1>1, <1>2, RunConstants DEF EndingIsKnown
<1>6. TrialInOrder'
  BY <1>1, <1>3 DEF TrialInOrder
<1>7. CutShortIsNotCounted'
  BY <1>3 DEF CutShortIsNotCounted, Counts
<1> QED
  BY <1>4, <1>5, <1>6, <1>7 DEF RunInv

LEMMA RunInvStep == RunInv /\ [RunNext]_runVars => RunInv'
<1> SUFFICES ASSUME RunInv, [RunNext]_runVars PROVE RunInv'
  OBVIOUS
<1>0. RunTypes /\ EndingIsKnown /\ TrialInOrder
  BY DEF RunInv
<1>a. ASSUME row' = row, row = Nobody PROVE CutShortIsNotCounted'
  BY <1>a DEF CutShortIsNotCounted, Counts
<1>b. trial.phase # "done" => row = Nobody
  BY <1>0 DEF TrialInOrder
<1>1. CASE Build
  <2>1. trial.phase = "setup" /\ UNCHANGED <<side, due, caught, calls, row>>
    BY <1>1 DEF Build
  <2>2. /\ trial' \in Trial /\ trial'.phase = "agent" /\ trial'.ender = trial.ender
        /\ trial'.reason = trial.reason /\ trial'.cut = trial.cut /\ trial'.expired = trial.expired
    <3>1. trial \in Trial /\ trial' = [trial EXCEPT !.phase = "agent"]
      BY <1>0, <1>1 DEF RunTypes, Build
    <3> QED
      BY <3>1 DEF Trial
  <2>3. env' \in Environment /\ env'.by = env.by /\ env'.past = env.past
    <3>1. env \in Environment /\ env' = [env EXCEPT !.built = TRUE]
      BY <1>0, <1>1 DEF RunTypes, Build
    <3> QED
      BY <3>1 DEF Environment
  <2> QED
    BY <1>0, <1>a, <1>b, <2>1, <2>2, <2>3 DEF RunInv, RunTypes, EndingIsKnown, TrialInOrder
<1>2. CASE DurationPasses
  <2>1. trial.phase # "done" /\ UNCHANGED <<side, due, caught, calls, trial, row>>
    BY <1>2 DEF DurationPasses
  <2>2. env' \in Environment /\ env'.by \in {env.by, "timeline"} /\ env'.past /\ (env.by # Nobody => env'.by = env.by)
    <3> DEFINE h == Halted("timeline")
    <3>1. /\ env \in Environment /\ "timeline" \in Ender \ {Nobody}
      BY <1>0, RunConstants DEF RunTypes, Ender
    <3>2. h \in Environment /\ h.by = IF Standing THEN "timeline" ELSE env.by
      BY <3>1, HaltedOnce
    <3>3. env' = [h EXCEPT !.past = TRUE]
      BY <1>2 DEF DurationPasses
    <3> HIDE DEF h
    <3>4. env' \in Environment /\ env'.by = h.by /\ env'.past
      BY <3>2, <3>3 DEF Environment
    <3> QED
      BY <3>2, <3>4 DEF Standing
  <2> QED
    BY <1>0, <1>a, <1>b, <2>1, <2>2, RunConstants DEF RunInv, RunTypes, EndingIsKnown, TrialInOrder
<1>3. CASE CapPasses
  <2>1. trial.phase # "done" /\ UNCHANGED <<side, env, caught, calls, trial, row>>
    BY <1>3 DEF CapPasses
  <2>2. due' \in Flagged
    <3>1. due \in Flagged /\ due' = [due EXCEPT !.cap = TRUE]
      BY <1>0, <1>3 DEF RunTypes, CapPasses
    <3> QED
      BY <3>1 DEF Flagged
  <2> QED
    BY <1>0, <1>a, <1>b, <2>1, <2>2 DEF RunInv, RunTypes, EndingIsKnown, TrialInOrder
<1>4. CASE JudgeGate
  <2>1. trial.phase = "agent" /\ UNCHANGED <<side, caught, calls, trial, row>> /\ env.by = Nobody
    BY <1>4 DEF JudgeGate, Working, Standing
  <2>2. due' \in Flagged
    <3>1. due \in Flagged /\ \E b \in BOOLEAN : due' = due \/ due' = [due EXCEPT !.stall = b]
      BY <1>0, <1>4 DEF RunTypes, JudgeGate
    <3> QED
      BY <3>1 DEF Flagged
  <2>3. env' \in Environment /\ env'.by \in {env.by, "judge"} /\ env'.past = env.past
    <3>1. env \in Environment /\ "judge" \in Ender \ {Nobody}
      BY <1>0, RunConstants DEF RunTypes, Ender
    <3>2. CASE env' = Halted("judge")
      BY <3>1, <3>2, HaltedOnce
    <3>3. CASE \E b \in BOOLEAN : env' = [env EXCEPT !.judging = b]
      BY <3>1, <3>3 DEF Environment
    <3>4. CASE env' = env
      BY <3>1, <3>4
    <3> QED
      BY <1>4, <3>2, <3>3, <3>4 DEF JudgeGate
  <2> QED
    BY <1>0, <1>a, <1>b, <2>1, <2>2, <2>3, RunConstants DEF RunInv, RunTypes, EndingIsKnown, TrialInOrder
<1>5. CASE Infer
  <2>1. trial.phase = "agent" /\ UNCHANGED <<side, env, due, caught, trial, row>>
    BY <1>5 DEF Infer, Working
  <2>2. calls' \in Seq(Result) /\ Len(calls') <= Inferences
    <3>1. calls \in Seq(Result) /\ Nobody \in Result /\ calls' = Append(calls, Nobody)
      BY <1>0, <1>5 DEF RunTypes, Result, Infer
    <3>2. calls' \in Seq(Result) /\ Len(calls') = Len(calls) + 1
      BY <3>1, AppendProperties
    <3>3. Len(calls) \in Nat /\ Len(calls) < Inferences
      BY <1>5, <3>1, LenProperties DEF Infer
    <3> QED
      BY <3>2, <3>3, RunConstants
  <2> QED
    BY <1>0, <1>a, <1>b, <2>1, <2>2 DEF RunInv, RunTypes, EndingIsKnown, TrialInOrder
<1>6. ASSUME NEW i \in 1..Inferences, NEW o \in {"success", "error", "overflow"}, Resolve(i, o)
      PROVE  RunInv'
  <2>1. trial.phase = "agent" /\ UNCHANGED <<side, env, due, caught, trial, row>>
    BY <1>6 DEF Resolve, Working
  <2>2. calls' \in Seq(Result) /\ Len(calls') <= Inferences
    <3>1. calls \in Seq(Result) /\ o \in Result /\ calls' = [calls EXCEPT ![i] = o]
      BY <1>0, <1>6 DEF RunTypes, Result, Resolve
    <3>2. i \in DOMAIN calls /\ DOMAIN calls = 1 .. Len(calls)
      BY <1>6, <3>1, LenProperties DEF Resolve
    <3>3. calls' \in Seq(Result) /\ Len(calls') = Len(calls)
      BY <3>1, <3>2, ExceptSeq
    <3> QED
      BY <1>0, <3>3 DEF RunTypes
  <2> QED
    BY <1>0, <1>a, <1>b, <2>1, <2>2 DEF RunInv, RunTypes, EndingIsKnown, TrialInOrder
<1>7. CASE WatchesCap \/ WatchesBoth
  <2>1. trial.phase # "done" /\ UNCHANGED <<side, due, calls, trial, row>>
    BY <1>7 DEF WatchesCap, WatchesBoth
  <2>2. caught' \in Flagged /\ (caught'.cap \/ (side = "react" /\ caught'.stall))
    <3>1. caught \in Flagged /\ due \in Flagged /\ env.judging \in BOOLEAN
      BY <1>0 DEF RunTypes, Environment
    <3>2. CASE WatchesCap
      <4>1. caught' = [caught EXCEPT !.cap = TRUE]
        BY <3>2 DEF WatchesCap
      <4> QED
        BY <3>1, <4>1 DEF Flagged
    <3>3. CASE WatchesBoth
      <4> DEFINE stalled == caught.stall \/ (env.judging /\ due.stall)
      <4>1. caught' = [cap |-> due.cap, stall |-> stalled] /\ (stalled \/ due.cap) /\ side = "react"
        BY <3>3 DEF WatchesBoth
      <4>2. stalled \in BOOLEAN /\ due.cap \in BOOLEAN
        BY <3>1 DEF Flagged
      <4> HIDE DEF stalled
      <4>3. caught'.cap = due.cap /\ caught'.stall = stalled
        BY <4>1
      <4>4. caught' \in Flagged
        BY <4>1, <4>2 DEF Flagged
      <4> QED
        BY <4>1, <4>3, <4>4
    <3> QED
      BY <1>7, <3>2, <3>3
  <2>3. env' \in Environment /\ env'.by \in {env.by, "watchdog"} /\ env'.past = env.past
        /\ (env.by # Nobody => env'.by = env.by)
    <3>1. env \in Environment /\ "watchdog" \in Ender \ {Nobody}
      BY <1>0, RunConstants DEF RunTypes, Ender
    <3>2. env' = Halted("watchdog")
      BY <1>7 DEF WatchesCap, WatchesBoth
    <3> QED
      BY <3>1, <3>2, HaltedOnce DEF Standing
  <2> QED
    BY <1>0, <1>a, <1>b, <2>1, <2>2, <2>3, RunConstants DEF RunInv, RunTypes, EndingIsKnown, TrialInOrder
<1>8. CASE AgentReturns
  <2>1. trial.phase = "agent" /\ UNCHANGED <<side, due, caught, calls, row>>
    BY <1>8 DEF AgentReturns, Working
  <2>2. PICK reason \in {Nobody, "llm_call_limit"}, exc \in {Nobody, "overflow", "crash"} :
          Leave(reason, Nobody, exc)
    BY <1>8 DEF AgentReturns
  <2>3. Nobody \in CutCause /\ reason # "timeout"
    BY RunConstants DEF CutCause
  <2> QED
    BY <2>1, <2>2, <2>3, LeavingKeeps
<1>9. ASSUME NEW limited \in BOOLEAN, NEW done \in BOOLEAN, NEW answered \in BOOLEAN,
             Poll(limited, done, answered)
      PROVE  RunInv'
  <2> DEFINE v == PollVerdict(limited, done, answered)
  <2>1. trial.phase = "agent" /\ side = "sora" /\ UNCHANGED <<side, due, caught, calls, row>>
        /\ Leave(v.reason, v.cut, Nobody)
    BY <1>9 DEF Poll, Working
  <2>2. /\ v.reason \in {Nobody, "llm_call_limit", "timeout", "verification_completion"}
        /\ v.cut \in CutCause /\ (v.reason = "timeout" => v.cut # Nobody)
    BY RunConstants DEF PollVerdict, Truncation, CutCause
  <2> HIDE DEF v
  <2> QED
    BY <2>1, <2>2, LeavingKeeps
<1>10. CASE Score \/ SkipScore
  <2>1. trial.phase = "scoring" /\ UNCHANGED <<side, env, due, caught, calls, row>>
    BY <1>10 DEF Score, SkipScore
  <2>2. /\ trial' \in Trial /\ trial'.phase = "scored" /\ trial'.ender = trial.ender
        /\ trial'.reason = trial.reason /\ trial'.cut = trial.cut /\ trial'.expired = trial.expired
    <3>1. /\ trial \in Trial
          /\ \/ \E s \in {"passed", "failed", Nobody} :
                  trial' = [trial EXCEPT !.phase = "scored", !.success = s]
             \/ trial' = [trial EXCEPT !.phase = "scored", !.exc = "crash"]
             \/ trial' = [trial EXCEPT !.phase = "scored"]
      BY <1>0, <1>10 DEF RunTypes, Score, SkipScore
    <3> QED
      BY <3>1 DEF Trial
  <2> QED
    BY <1>0, <1>a, <1>b, <2>1, <2>2 DEF RunInv, RunTypes, EndingIsKnown, TrialInOrder
<1>11. CASE Write
  BY <1>11, WriteIsHonest
<1>12. CASE UNCHANGED runVars
  BY <1>12 DEF runVars, RunInv, RunTypes, EndingIsKnown, TrialInOrder, CutShortIsNotCounted, Counts
<1> QED
  BY <1>1, <1>2, <1>3, <1>4, <1>5, <1>6, <1>7, <1>8, <1>9, <1>10, <1>11, <1>12 DEF RunNext

LEMMA RunInvTypes == RunInv => RunTypeOK /\ CutShortIsNotCounted
BY DEF RunInv, RunTypes, TrialInOrder, RunTypeOK, Environment, Ender, Trial, CutCause

(* The ending of a run keeps its type, whatever ends it.                   *)
THEOREM RunIsTyped == RunSpec => []RunTypeOK
<1>1. RunSpec => []RunInv
  BY RunInvInit, RunInvStep, PTL DEF RunSpec
<1> QED
  BY <1>1, RunInvTypes, PTL

(* A run that the watchdog ended, or that the scenario clock ended under   *)
(* the agent, is never counted, for any number of inferences and whichever *)
(* of the threads saw the deadline first.                                  *)
THEOREM CutShortNeverCounts == RunSpec => []CutShortIsNotCounted
<1>1. RunSpec => []RunInv
  BY RunInvInit, RunInvStep, PTL DEF RunSpec
<1> QED
  BY <1>1, RunInvTypes, PTL

-----------------------------------------------------------------------------
(* ModelCalls.                                                             *)

Window == [of : Calls, began : Nat, ended : Nat, secs : Nat, at : Figure, crossed : BOOLEAN]

\* What the windows of a list that are c's cost, or all of them.
SumIn(list, c) ==
  LET s[n \in 0..Len(list)] ==
        IF n = 0 THEN 0 ELSE s[n - 1] + (IF c \in {list[n].of, "all"} THEN list[n].secs ELSE 0)
  IN s[Len(list)]

Term(list, c, k) == IF c \in {list[k].of, "all"} THEN list[k].secs ELSE 0

LEMMA SumIsTotal ==
  ASSUME NEW list \in Seq(Window), NEW c
  PROVE  \E s \in [0..Len(list) -> Nat] :
           /\ s[0] = 0 /\ SumIn(list, c) = s[Len(list)]
           /\ \A k \in 1..Len(list) : s[k] = s[k - 1] + Term(list, c, k)
<1> DEFINE n == Len(list)
           f == [k \in 1..n |-> Term(list, c, k)]
           E(s) == [k \in 0..n |-> IF k = 0 THEN 0
                                   ELSE s[k - 1] + (IF c \in {list[k].of, "all"} THEN list[k].secs ELSE 0)]
           sum == CHOOSE s : s = E(s)
<1>1. n \in Nat /\ \A k \in 1..n : list[k] \in Window
  BY LenProperties, ElementOfSeq
<1>2. \A k \in 1..n : f[k] \in Nat /\ f[k] = Term(list, c, k)
  BY <1>1 DEF Window, Term
<1>3. PICK s \in [0..n -> Nat] : s[0] = 0 /\ \A k \in 1..n : s[k] = s[k - 1] + f[k]
  <2> HIDE DEF n, f
  <2> QED
    BY <1>1, <1>2, RunningTotal
<1> HIDE DEF n, f
<1>4. s = E(s)
  <2>1. \A k \in 0..n : s[k] = IF k = 0 THEN 0
                               ELSE s[k - 1] + (IF c \in {list[k].of, "all"} THEN list[k].secs ELSE 0)
    BY <1>1, <1>2, <1>3 DEF Term
  <2> QED
    BY <1>3, <2>1
<1>5. sum = E(sum)
  <2> HIDE DEF E
  <2> QED
    BY <1>4
<1>6. SumIn(list, c) = sum[n]
  BY DEF SumIn, n
<1> HIDE DEF sum
<1>7. \A k \in 0..n : sum[k] = IF k = 0 THEN 0 ELSE sum[k - 1] + Term(list, c, k)
  BY <1>5 DEF Term
<1>8. sum = [k \in 0..n |-> sum[k]]
  BY <1>5
<1> HIDE DEF E
<1>9. sum[0] = 0 /\ \A k \in 1..n : sum[k] = sum[k - 1] + f[k]
  BY <1>1, <1>2, <1>7
<1>10. \A k \in 0..n : sum[k] \in Nat
  BY <1>1, <1>2, <1>9, TotalIsNat
<1>11. sum \in [0..n -> Nat]
  BY <1>8, <1>10
<1>12. \A k \in 1..n : sum[k] = sum[k - 1] + Term(list, c, k)
  BY <1>2, <1>9
<1> QED
  BY <1>6, <1>9, <1>11, <1>12 DEF n

LEMMA NothingSummed == \A c : SumIn(<<>>, c) = 0
<1> TAKE c
<1>1. <<>> \in Seq(Window) /\ Len(<<>>) = 0
  OBVIOUS
<1>2. \E s \in [0..Len(<<>>) -> Nat] : s[0] = 0 /\ SumIn(<<>>, c) = s[Len(<<>>)]
  BY <1>1, SumIsTotal
<1> QED
  BY <1>1, <1>2

\* Another window adds its price to the sum of its call, and to the sum of all.
LEMMA SumGrows ==
  ASSUME NEW list \in Seq(Window), NEW w \in Window, NEW c
  PROVE  /\ SumIn(list, c) \in Nat
         /\ SumIn(Append(list, w), c) = SumIn(list, c) + (IF c \in {w.of, "all"} THEN w.secs ELSE 0)
<1> DEFINE n == Len(list)
           more == Append(list, w)
           f == [k \in 1..n |-> Term(list, c, k)]
           g == [k \in 1..(n + 1) |-> Term(more, c, k)]
<1>1. /\ n \in Nat /\ more \in Seq(Window) /\ Len(more) = n + 1
      /\ more[n + 1] = w /\ \A k \in 1..n : more[k] = list[k]
  BY LenProperties, AppendProperties
<1>2. PICK s \in [0..n -> Nat] :
        s[0] = 0 /\ SumIn(list, c) = s[n] /\ \A k \in 1..n : s[k] = s[k - 1] + Term(list, c, k)
  BY SumIsTotal
<1>3. PICK t \in [0..(n + 1) -> Nat] :
        t[0] = 0 /\ SumIn(more, c) = t[n + 1] /\ \A k \in 1..(n + 1) : t[k] = t[k - 1] + Term(more, c, k)
  <2>1. \E t \in [0..Len(more) -> Nat] :
          /\ t[0] = 0 /\ SumIn(more, c) = t[Len(more)]
          /\ \A k \in 1..Len(more) : t[k] = t[k - 1] + Term(more, c, k)
    BY <1>1, SumIsTotal
  <2> HIDE DEF more
  <2> QED
    BY <1>1, <2>1
<1>4. \A k \in 1..n : Term(more, c, k) = Term(list, c, k)
  BY <1>1 DEF Term
<1>5. Term(more, c, n + 1) = IF c \in {w.of, "all"} THEN w.secs ELSE 0
  BY <1>1 DEF Term
<1> HIDE DEF more, n
<1>6. /\ \A k \in 1..n : s[k] = s[k - 1] + f[k]
      /\ \A k \in 1..(n + 1) : t[k] = t[k - 1] + g[k]
      /\ \A k \in 1..n : g[k] = f[k]
      /\ g[n + 1] = Term(more, c, n + 1)
  BY <1>1, <1>2, <1>3, <1>4
<1> HIDE DEF f, g
<1>7. t[n + 1] = s[n] + g[n + 1]
  <2>1. n \in Nat /\ s[0] = 0 /\ t[0] = 0
    BY <1>1, <1>2, <1>3
  <2>2. \A k \in 1..n : s[k - 1] = t[k - 1] => s[k] = t[k]
    BY <1>1, <1>6
  <2>3. \A a, b : a[0] = b[0] /\ (\A k \in 1..n : a[k - 1] = b[k - 1] => a[k] = b[k])
                => \A k \in 0..n : a[k] = b[k]
    BY <2>1, OneRunningTotal, Zenon
  <2>4. s[0] = t[0] /\ (\A k \in 1..n : s[k - 1] = t[k - 1] => s[k] = t[k])
        => \A k \in 0..n : s[k] = t[k]
    BY <2>3, Zenon
  <2>5. s[n] = t[n]
    BY <2>1, <2>2, <2>4
  <2>6. n + 1 \in 1..(n + 1) /\ (n + 1) - 1 = n
    BY <2>1
  <2>7. t[n + 1] = t[(n + 1) - 1] + g[n + 1]
    BY <1>6, <2>6
  <2> QED
    BY <2>5, <2>6, <2>7
<1>8. SumIn(list, c) \in Nat
  BY <1>1, <1>2
<1> QED
  BY <1>2, <1>3, <1>5, <1>6, <1>7, <1>8 DEF more

-----------------------------------------------------------------------------
\* The types of the parts.
Arms == [of : {"sora", "react"}, clock : {"token_charged", "generation_free", "wall"}]

WorldTyped(w) ==
  /\ DOMAIN w = {"live", "looping", "now", "ran", "late", "judge", "judged", "frontier", "told"}
  /\ w.now \in Nat /\ w.ran \in Nat /\ w.late \in Nat /\ w.judge \in Nat /\ w.judged \in Nat
  /\ w.frontier \in Nat /\ w.told \subseteq Due
  /\ w.judge <= w.judged /\ w.judged <= MaxJudge /\ w.frontier <= w.now

Stages(side_) == IF side_ = "sora" THEN {"idle", "flight", "refused", "repair", "over"}
                 ELSE {"idle", "bracket", "over"}
CallTyped(q, of) ==
  /\ DOMAIN q = {"at", "trips", "began", "cursor", "start"}
  /\ q.at \in Stages(of) /\ q.trips \in 0..MaxTrips /\ q.began \in Nat /\ q.cursor \in Nat
  /\ q.start \in Figure
  /\ q.at \in {"idle", "flight", "refused", "repair"} => q.trips < MaxTrips

MeterTyped(m) ==
  /\ DOMAIN m = {"limit", "admitted", "exceeded"}
  /\ m.limit \in Nat /\ m.admitted \in Nat /\ m.admitted <= m.limit
  /\ m.exceeded => m.admitted = m.limit

CallTypes ==
  /\ arm \in Arms /\ WorldTyped(world) /\ MeterTyped(meter)
  /\ DOMAIN held \subseteq Calls /\ \A c \in DOMAIN held : held[c] \in Nat
  /\ DOMAIN call = Calls /\ \A c \in Calls : CallTyped(call[c], arm.of)
  /\ windows \in Seq(Window)

\* Who holds the world: in a frozen mode, every call that is out and nobody
\* else, each from a start the frontier has not passed.
Out(at) == at \in {"flight", "refused", "bracket"}
HoldsKnown ==
  /\ \A c \in DOMAIN held : held[c] = call[c].start /\ held[c] <= world.frontier
  /\ ~world.live => DOMAIN held = {}
  /\ ~Freezes => DOMAIN held = {} /\ \A c \in Calls : call[c].start = Unreported
  /\ world.live /\ Freezes => \A c \in Calls : c \in DOMAIN held <=> Out(call[c].at)
  /\ \A c, d \in Calls : call[c].at = "bracket" /\ call[d].at = "bracket" => c = d

\* The clock owes the windows of an open bracket, and nothing else.
PaidUp ==
  /\ world.live /\ Freezes =>
       /\ (\A c \in Calls : call[c].at # "bracket") => world.now = world.ran + SumIn(windows, "all")
       /\ \A c \in Calls : call[c].at = "bracket" =>
            world.now + SumIn(windows, c) = world.ran + SumIn(windows, "all")
  /\ arm.of = "react" => \A c \in Calls : call[c].at = "idle" => SumIn(windows, c) = 0

Crossers == {c \in Calls : call[c].at \in {"flight", "repair", "bracket"} \/ call[c].trips > 0}
WithinLimit ==
  /\ Cardinality(Crossers) <= meter.admitted
  /\ \A i \in DOMAIN windows : windows[i].crossed => call[windows[i].of].trips > 0

\* A priced window ends no later than x on the charge axis.
EndsBy(w, x) == w.at # Unreported => w.at + w.secs <= x
Starts(w, list) ==
  w.at # Unreported => \A i \in DOMAIN list : i <= w.began => EndsBy(list[i], w.at)

Ordered ==
  /\ \A i \in DOMAIN windows : windows[i].ended = i /\ windows[i].began < i
  /\ arm.of = "sora" =>
       /\ \A i \in DOMAIN windows : Starts(windows[i], windows)
       /\ \A c \in Calls : Out(call[c].at) =>
            /\ call[c].began <= Len(windows)
            /\ call[c].start # Unreported =>
                 \A i \in DOMAIN windows : i <= call[c].began => EndsBy(windows[i], call[c].start)
       /\ world.live => \A i \in DOMAIN windows : EndsBy(windows[i], world.frontier)
  /\ arm.of = "react" =>
       /\ \A c \in Calls : call[c].began = Len(windows)
       /\ world.live =>
            /\ \A i \in DOMAIN windows : Starts(windows[i], windows)
            /\ (\A c \in Calls : call[c].at # "bracket") =>
                 \A i \in DOMAIN windows : EndsBy(windows[i], world.frontier)
            /\ \A c \in Calls : call[c].at = "bracket" =>
                 \A i \in DOMAIN windows : EndsBy(windows[i], call[c].start + SumIn(windows, c))

CallInv == CallTypes /\ HoldsKnown /\ PaidUp /\ WithinLimit /\ Ordered /\ KeepsUp

\* Holders, counted.
LEMMA HoldersCount ==
  ASSUME NEW S \in SUBSET Calls
  PROVE  /\ IsFiniteSet(S) /\ Cardinality(S) \in Nat /\ (Cardinality(S) = 0 <=> S = {})
         /\ \A c \in S : Cardinality(S \ {c}) = Cardinality(S) - 1
         /\ \A c \in Calls \ S : Cardinality(S \cup {c}) = Cardinality(S) + 1
<1>1. IsFiniteSet(S)
  BY CallConstants, FS_Subset
<1> QED
  BY <1>1, FS_CardinalityType, FS_EmptySet, FS_RemoveElement, FS_AddElement

\* What a pause does: it starts no earlier than the frontier, and not later
\* than now.
LEMMA PauseStarts ==
  ASSUME CallInv, NEW c \in Calls, c \notin DOMAIN held, PauseGeneration(c)
  PROVE  /\ WorldTyped(world') /\ world'.live = world.live /\ world'.now = world.now
         /\ world'.ran = world.ran /\ world.frontier <= world'.frontier
         /\ DOMAIN held' = IF world.live THEN DOMAIN held \cup {c} ELSE {}
         /\ \A d \in DOMAIN held : held'[d] = held[d]
         /\ world.live => held'[c] = world'.frontier
         /\ KeepsUp'
<1>0. WorldTyped(world) /\ DOMAIN held \subseteq Calls /\ KeepsUp /\ (~world.live => DOMAIN held = {})
  BY DEF CallInv, CallTypes, HoldsKnown
<1>1. CASE ~world.live
  <2>1. world' = world /\ held' = held
    BY <1>1 DEF PauseGeneration
  <2> QED
    BY <1>0, <1>1, <2>1 DEF KeepsUp, Frozen, Pauses, WorldTyped
<1>2. CASE world.live
  <2> DEFINE start == IF DOMAIN held = {} THEN world.now ELSE world.frontier
  <2>1. /\ world' = [world EXCEPT !.frontier = start]
        /\ held' = [d \in DOMAIN held \cup {c} |-> IF d = c THEN start ELSE held[d]]
    BY <1>2 DEF PauseGeneration
  <2>2. start \in Nat /\ world.frontier <= start /\ start <= world.now
    BY <1>0 DEF WorldTyped
  <2> HIDE DEF start
  <2>3. DOMAIN held' = DOMAIN held \cup {c} /\ held'[c] = start /\ \A d \in DOMAIN held : held'[d] = held[d]
    BY <2>1
  <2>4. /\ DOMAIN world' = DOMAIN world /\ world'.frontier = start
        /\ world'.live = world.live /\ world'.now = world.now /\ world'.ran = world.ran
        /\ world'.late = world.late /\ world'.judge = world.judge /\ world'.judged = world.judged
        /\ world'.told = world.told
    BY <1>0, <2>1 DEF WorldTyped
  <2>5. WorldTyped(world')
    BY <1>0, <2>2, <2>4 DEF WorldTyped
  <2>6. Frozen'
    <3>1. DOMAIN held' \in SUBSET Calls /\ DOMAIN held' # {}
      BY <1>0, <2>3
    <3>2. Cardinality(DOMAIN held') \in Nat /\ Cardinality(DOMAIN held') # 0
      BY <3>1, HoldersCount
    <3> QED
      BY <2>5, <3>2 DEF Frozen, Pauses, WorldTyped
  <2> QED
    BY <1>2, <2>2, <2>3, <2>4, <2>5, <2>6 DEF KeepsUp
<1> QED
  BY <1>1, <1>2

\* What a resumption does: the price moves the clock, and the frontier if it
\* ends later; when nobody holds the world any more, everything is delivered.
LEMMA ResumePays ==
  ASSUME CallInv, NEW c \in Calls, NEW price \in Nat, ResumeGeneration(c, price)
  PROVE  /\ WorldTyped(world') /\ world'.live = world.live /\ world'.ran = world.ran
         /\ world.frontier <= world'.frontier
         /\ DOMAIN held' = DOMAIN held \ {c} /\ \A d \in DOMAIN held' : held'[d] = held[d]
         /\ c \notin DOMAIN held => world'.now = world.now /\ world'.frontier = world.frontier
         /\ c \in DOMAIN held => world'.now = world.now + price /\ held[c] + price <= world'.frontier
         /\ KeepsUp'
<1>0. /\ WorldTyped(world) /\ DOMAIN held \subseteq Calls /\ KeepsUp
      /\ \A d \in DOMAIN held : held[d] \in Nat /\ held[d] <= world.frontier
  BY DEF CallInv, CallTypes, HoldsKnown
<1>1. CASE c \notin DOMAIN held
  <2>1. world' = world /\ held' = held
    BY <1>1 DEF ResumeGeneration
  <2> QED
    BY <1>0, <1>1, <2>1 DEF KeepsUp, Frozen, Pauses, WorldTyped
<1>2. CASE c \in DOMAIN held
  <2> DEFINE reach == Larger(world.frontier, held[c] + price)
             w == [world EXCEPT !.now = @ + price, !.frontier = reach]
  <2>1. /\ held' = [d \in DOMAIN held \ {c} |-> held[d]]
        /\ world' = IF Pauses = 1 THEN CaughtUp(w) ELSE w
    BY <1>2 DEF ResumeGeneration
  <2>2. /\ reach \in Nat /\ world.frontier <= reach /\ held[c] + price <= reach
        /\ reach <= world.now + price
    BY <1>0, <1>2 DEF WorldTyped, Larger
  <2>3. /\ DOMAIN w = DOMAIN world /\ w.frontier = reach /\ w.now = world.now + price
        /\ w.live = world.live /\ w.ran = world.ran /\ w.late = world.late
        /\ w.judge = world.judge /\ w.judged = world.judged /\ w.told = world.told
    BY <1>0 DEF WorldTyped
  <2> HIDE DEF reach, w
  <2>4. WorldTyped(w)
    BY <1>0, <2>2, <2>3 DEF WorldTyped
  <2>5. DOMAIN held' = DOMAIN held \ {c} /\ \A d \in DOMAIN held' : held'[d] = held[d]
    BY <2>1
  <2>6. Cardinality(DOMAIN held) \in Nat \ {0} /\ Cardinality(DOMAIN held') = Cardinality(DOMAIN held) - 1
    BY <1>0, <1>2, <2>5, HoldersCount
  <2>7. CASE Pauses = 1
    <3>1. world' = [w EXCEPT !.told = {e \in Due : e <= w.now}, !.late = 0]
      BY <2>1, <2>7 DEF CaughtUp
    <3>2. /\ DOMAIN world' = DOMAIN w /\ world'.told = {e \in Due : e <= w.now} /\ world'.late = 0
          /\ world'.now = w.now /\ world'.live = w.live /\ world'.ran = w.ran
          /\ world'.judge = w.judge /\ world'.judged = w.judged /\ world'.frontier = w.frontier
      BY <2>4, <3>1 DEF WorldTyped
    <3>3. WorldTyped(world')
      BY <2>4, <3>2 DEF WorldTyped
    <3>4. KeepsUp'
      BY <2>4, <3>2, CallConstants DEF KeepsUp, WorldTyped
    <3> QED
      BY <1>2, <2>2, <2>3, <2>5, <3>2, <3>3, <3>4
  <2>8. CASE Pauses # 1
    <3>1. world' = w
      BY <2>1, <2>8
    <3>2. Frozen'
      <4>1. world'.judge = world.judge /\ world.judge \in Nat
        BY <1>0, <2>3, <3>1 DEF WorldTyped
      <4>2. world.judge + Cardinality(DOMAIN held) # 1
        BY <2>8 DEF Pauses
      <4>3. world'.judge + Cardinality(DOMAIN held') > 0
        BY <2>6, <4>1, <4>2
      <4> QED
        BY <4>3 DEF Frozen, Pauses
    <3> QED
      BY <1>2, <2>2, <2>3, <2>4, <2>5, <3>1, <3>2 DEF KeepsUp
  <2> QED
    BY <2>7, <2>8
<1> QED
  BY <1>1, <1>2

LEMMA SumOfIsIn == \A c : SumOf(c) = SumIn(windows, c)
BY DEF SumOf, SumIn

LEMMA PriceIsNat ==
  ASSUME NEW u \in Replies
  PROVE  Price(u) \in Nat
<1>1. CASE u = Unreported
  BY <1>1, CallConstants DEF Price
<1>2. CASE u \in Usages /\ u # Unreported
  <2>1. u \in [input : Nat, cached : Figure, output : Nat]
    <3>1. ASSUME NEW b \in OpenAI PROVE OpenAIUsage(b) \in [input : Nat, cached : Figure, output : Nat]
      BY CallConstants DEF OpenAIUsage
    <3>2. ASSUME NEW b \in Anthropic PROVE AnthropicUsage(b) \in [input : Nat, cached : Figure, output : Nat]
      <4>1. b \in [fresh : Nat, write : Figure, read : Figure, output : Nat]
        BY CallConstants
      <4>2. Known(b.write) \in Nat /\ Known(b.read) \in Nat
        BY <4>1, CallConstants DEF Known, Figure
      <4> QED
        BY <4>1, <4>2 DEF AnthropicUsage
    <3> QED
      BY <1>2, <3>1, <3>2 DEF Usages
  <2>2. Known(u.cached) \in Nat
    BY <2>1, CallConstants DEF Known, Figure
  <2>3. Charge(u) \in Nat
    BY <2>1, <2>2, CallConstants DEF Charge, Impossible
  <2> QED
    BY <1>2, <2>3 DEF Price
<1> QED
  BY <1>1, <1>2 DEF Replies

LEMMA CallInvInit == CallInit => CallInv
<1> SUFFICES ASSUME CallInit PROVE CallInv
  OBVIOUS
<1>1. /\ arm \in Arms /\ held = <<>> /\ windows = <<>>
      /\ world = [live |-> TRUE, looping |-> TRUE, now |-> 0, ran |-> 0, late |-> 0, judge |-> 0,
                  judged |-> 0, frontier |-> 0, told |-> {e \in Due : e <= 0}]
      /\ call = [c \in Calls |-> [at |-> "idle", trips |-> 0, began |-> 0, cursor |-> 0, start |-> Unreported]]
  BY DEF CallInit, Arms
<1>2. PICK n \in 1..CallLimit : meter = [limit |-> n, admitted |-> 0, exceeded |-> FALSE]
  BY DEF CallInit
<1>3. DOMAIN held = {} /\ DOMAIN windows = {} /\ Len(windows) = 0
  BY <1>1
<1>4. WorldTyped(world) /\ MeterTyped(meter)
  BY <1>1, <1>2, CallConstants DEF WorldTyped, MeterTyped
<1>5. \A c \in Calls : CallTyped(call[c], arm.of)
  BY <1>1, CallConstants DEF CallTyped, Stages, Figure, Arms
<1>6. CallTypes
  BY <1>1, <1>3, <1>4, <1>5 DEF CallTypes
<1>7. HoldsKnown
  BY <1>1, <1>3 DEF HoldsKnown, Out
<1>8. PaidUp
  BY <1>1, NothingSummed DEF PaidUp
<1>9. WithinLimit
  <2>1. Crossers = {}
    BY <1>1 DEF Crossers
  <2>2. Cardinality(Crossers) = 0
    BY <2>1, FS_EmptySet
  <2> QED
    BY <1>2, <1>3, <2>2 DEF WithinLimit
<1>10. Ordered
  BY <1>1, <1>3 DEF Ordered, Starts, Out
<1>11. KeepsUp
  BY <1>1, CallConstants DEF KeepsUp
<1> QED
  BY <1>6, <1>7, <1>8, <1>9, <1>10, <1>11 DEF CallInv

LEMMA WindowsAre ==
  ASSUME CallTypes
  PROVE  /\ Len(windows) \in Nat /\ DOMAIN windows = 1..Len(windows)
         /\ \A i \in DOMAIN windows : windows[i] \in Window /\ windows[i].of \in Calls
<1>1. Len(windows) \in Nat /\ DOMAIN windows = 1..Len(windows)
  BY LenProperties DEF CallTypes
<1>2. \A i \in 1..Len(windows) : windows[i] \in Window
  BY ElementOfSeq DEF CallTypes
<1> QED
  BY <1>1, <1>2 DEF Window

LEMMA SumIsNat ==
  ASSUME CallTypes, NEW c
  PROVE  SumIn(windows, c) \in Nat
<1>1. PICK s \in [0..Len(windows) -> Nat] : SumIn(windows, c) = s[Len(windows)]
  BY SumIsTotal DEF CallTypes
<1>2. Len(windows) \in 0..Len(windows)
  BY LenProperties DEF CallTypes
<1> QED
  BY <1>1, <1>2

\* A step of the world alone: the clock runs with the seconds it ran, the
\* frontier stays.
LEMMA WorldStep ==
  ASSUME CallInv, UNCHANGED <<arm, call, meter, windows>>, WorldTyped(world'), KeepsUp',
         world'.live => world.live /\ held' = held /\ world'.frontier = world.frontier
                        /\ world'.now + world.ran = world.now + world'.ran,
         ~world'.live => DOMAIN held' = {}
  PROVE  CallInv'
<1>0. CallTypes /\ HoldsKnown /\ PaidUp /\ WithinLimit /\ Ordered
  BY DEF CallInv
<1>1. CallTypes'
  BY <1>0 DEF CallTypes
<1>2. HoldsKnown'
  BY <1>0 DEF HoldsKnown, Freezes
<1>3. PaidUp'
  <2>1. SumIn(windows', "all") = SumIn(windows, "all") /\ \A c \in Calls : SumIn(windows', c) = SumIn(windows, c)
    OBVIOUS
  <2>2. SumIn(windows, "all") \in Int /\ \A c \in Calls : SumIn(windows, c) \in Int
    BY <1>0, SumIsNat
  <2>3. /\ arm' = arm /\ call' = call /\ windows' = windows /\ (Freezes' <=> Freezes)
        /\ world.now \in Int /\ world.ran \in Int /\ world'.now \in Int /\ world'.ran \in Int
    BY <1>0 DEF Freezes, CallTypes, WorldTyped
  <2>4. ASSUME world'.live, Freezes, \A c \in Calls : call[c].at # "bracket"
        PROVE  world'.now = world'.ran + SumIn(windows, "all")
    <3>1. world.now = world.ran + SumIn(windows, "all")
      BY <1>0, <2>4 DEF PaidUp
    <3> QED
      BY <2>2, <2>3, <2>4, <3>1
  <2>5. ASSUME world'.live, Freezes, NEW c \in Calls, call[c].at = "bracket"
        PROVE  world'.now + SumIn(windows, c) = world'.ran + SumIn(windows, "all")
    <3>1. world.now + SumIn(windows, c) = world.ran + SumIn(windows, "all")
      BY <1>0, <2>5 DEF PaidUp
    <3> QED
      BY <2>2, <2>3, <2>5, <3>1
  <2>6. arm.of = "react" => \A c \in Calls : call[c].at = "idle" => SumIn(windows, c) = 0
    BY <1>0 DEF PaidUp
  <2> QED
    BY <2>3, <2>4, <2>5, <2>6 DEF PaidUp
<1>4. WithinLimit'
  BY <1>0 DEF WithinLimit, Crossers
<1>5. Ordered'
  BY <1>0 DEF Ordered, Starts, EndsBy
<1> QED
  BY <1>1, <1>2, <1>3, <1>4, <1>5 DEF CallInv

\* The world's own steps.
LEMMA WorldMoves ==
  ASSUME CallInv, Second \/ LoopTurns \/ JudgePauses \/ JudgeResumes \/ Stop
  PROVE  CallInv'
<1>0. /\ WorldTyped(world) /\ DOMAIN held \subseteq Calls /\ KeepsUp
      /\ (~world.live => DOMAIN held = {}) /\ Cardinality(DOMAIN held) \in Nat
  BY HoldersCount DEF CallInv, CallTypes, HoldsKnown
<1>1. CASE Second
  <2>1. /\ world.live /\ UNCHANGED <<arm, held, call, meter, windows>>
        /\ world' = [world EXCEPT !.now = world.now + 1, !.ran = world.ran + 1, !.late = world.late + 1]
    BY <1>1 DEF Second
  <2>2. /\ DOMAIN world' = DOMAIN world /\ world'.now = world.now + 1 /\ world'.ran = world.ran + 1
        /\ world'.late = world.late + 1 /\ world'.live = world.live /\ world'.judge = world.judge
        /\ world'.judged = world.judged /\ world'.frontier = world.frontier /\ world'.told = world.told
    BY <1>0, <2>1 DEF WorldTyped
  <2>3. WorldTyped(world')
    BY <1>0, <2>2 DEF WorldTyped
  <2>4. KeepsUp'
    <3>1. ~Frozen
      BY <1>1 DEF Second
    <3>2. \A e \in Due \ world.told : e > world.now - world.late
      BY <1>0, <2>1, <3>1 DEF KeepsUp
    <3>3. world'.now - world'.late = world.now - world.late
      BY <1>0, <2>2 DEF WorldTyped
    <3> QED
      BY <2>2, <3>2, <3>3 DEF KeepsUp
  <2>5. world'.now + world.ran = world.now + world'.ran
    BY <1>0, <2>2 DEF WorldTyped
  <2> QED
    BY <2>1, <2>2, <2>3, <2>4, <2>5, WorldStep
<1>2. CASE LoopTurns
  <2>1. UNCHANGED <<arm, held, call, meter, windows>>
    BY <1>2 DEF LoopTurns
  <2>2. CASE world.live
    <3>1. world' = [world EXCEPT !.told = {e \in Due : e <= world.now}, !.late = 0]
      BY <1>2, <2>2 DEF LoopTurns, CaughtUp
    <3>2. /\ DOMAIN world' = DOMAIN world /\ world'.told = {e \in Due : e <= world.now} /\ world'.late = 0
          /\ world'.now = world.now /\ world'.live = world.live /\ world'.ran = world.ran
          /\ world'.judge = world.judge /\ world'.judged = world.judged /\ world'.frontier = world.frontier
      BY <1>0, <3>1 DEF WorldTyped
    <3>3. WorldTyped(world')
      BY <1>0, <3>2 DEF WorldTyped
    <3>4. KeepsUp'
      BY <1>0, <3>2, CallConstants DEF KeepsUp, WorldTyped
    <3> QED
      BY <1>0, <2>1, <2>2, <3>2, <3>3, <3>4, WorldStep
  <2>3. CASE ~world.live
    <3>1. world' = [world EXCEPT !.looping = FALSE]
      BY <1>2, <2>3 DEF LoopTurns
    <3>2. /\ DOMAIN world' = DOMAIN world /\ world'.told = world.told /\ world'.late = world.late
          /\ world'.now = world.now /\ world'.live = world.live /\ world'.ran = world.ran
          /\ world'.judge = world.judge /\ world'.judged = world.judged /\ world'.frontier = world.frontier
      BY <1>0, <3>1 DEF WorldTyped
    <3>3. WorldTyped(world')
      BY <1>0, <3>2 DEF WorldTyped
    <3>4. KeepsUp'
      BY <2>3, <3>2 DEF KeepsUp
    <3> QED
      BY <1>0, <2>1, <2>3, <3>2, <3>3, <3>4, WorldStep
  <2> QED
    BY <2>2, <2>3
<1>3. CASE JudgePauses
  <2>1. /\ world.live /\ world.judged < MaxJudge /\ UNCHANGED <<arm, held, call, meter, windows>>
        /\ world' = [world EXCEPT !.judge = world.judge + 1, !.judged = world.judged + 1]
    BY <1>3 DEF JudgePauses
  <2>2. /\ DOMAIN world' = DOMAIN world /\ world'.told = world.told /\ world'.late = world.late
        /\ world'.now = world.now /\ world'.live = world.live /\ world'.ran = world.ran
        /\ world'.judge = world.judge + 1 /\ world'.judged = world.judged + 1
        /\ world'.frontier = world.frontier
    BY <1>0, <2>1 DEF WorldTyped
  <2>3. WorldTyped(world')
    BY <1>0, <2>1, <2>2, CallConstants DEF WorldTyped
  <2>4. Frozen'
    <3>1. world.judge + 1 + Cardinality(DOMAIN held) > 0
      BY <1>0 DEF WorldTyped
    <3> QED
      BY <2>1, <2>2, <3>1 DEF Frozen, Pauses
  <2>5. KeepsUp'
    BY <2>4 DEF KeepsUp
  <2> QED
    BY <1>0, <2>1, <2>2, <2>3, <2>5, WorldStep
<1>4. CASE JudgeResumes
  <2> DEFINE w == [world EXCEPT !.judge = world.judge - 1]
  <2>1. /\ world.judge > 0 /\ UNCHANGED <<arm, held, call, meter, windows>>
        /\ world' = IF Pauses = 1 THEN CaughtUp(w) ELSE w
    BY <1>4 DEF JudgeResumes
  <2>2. /\ DOMAIN w = DOMAIN world /\ w.told = world.told /\ w.late = world.late
        /\ w.now = world.now /\ w.live = world.live /\ w.ran = world.ran
        /\ w.judge = world.judge - 1 /\ w.judged = world.judged /\ w.frontier = world.frontier
    BY <1>0 DEF WorldTyped
  <2> HIDE DEF w
  <2>3. WorldTyped(w)
    BY <1>0, <2>1, <2>2 DEF WorldTyped
  <2>4. CASE Pauses = 1
    <3>1. world' = [w EXCEPT !.told = {e \in Due : e <= w.now}, !.late = 0]
      BY <2>1, <2>4 DEF CaughtUp
    <3>2. /\ DOMAIN world' = DOMAIN w /\ world'.told = {e \in Due : e <= w.now} /\ world'.late = 0
          /\ world'.now = w.now /\ world'.live = w.live /\ world'.ran = w.ran
          /\ world'.judge = w.judge /\ world'.judged = w.judged /\ world'.frontier = w.frontier
      BY <2>3, <3>1 DEF WorldTyped
    <3>3. WorldTyped(world')
      BY <2>3, <3>2 DEF WorldTyped
    <3>4. world'.now \in Nat /\ world'.late = 0 /\ world'.told = {e \in Due : e <= world'.now}
      BY <2>3, <3>2 DEF WorldTyped
    <3>5. ASSUME NEW e \in Due \ world'.told PROVE e > world'.now - world'.late
      <4>1. e \in Nat /\ ~(e <= world'.now)
        BY <3>4, CallConstants
      <4> QED
        BY <3>4, <4>1
    <3>6. KeepsUp'
      BY <3>5 DEF KeepsUp
    <3> QED
      BY <1>0, <2>1, <2>2, <3>2, <3>3, <3>6, WorldStep
  <2>5. CASE Pauses # 1
    <3>1. world' = w
      BY <2>1, <2>5
    <3>2. world.judge + Cardinality(DOMAIN held) # 1
      BY <2>5 DEF Pauses
    <3>3. world'.judge + Cardinality(DOMAIN held') > 0
      BY <1>0, <2>1, <2>2, <3>1, <3>2 DEF WorldTyped
    <3>4. KeepsUp'
      BY <3>3 DEF KeepsUp, Frozen, Pauses
    <3> QED
      BY <1>0, <2>1, <2>2, <2>3, <3>1, <3>4, WorldStep
  <2> QED
    BY <2>4, <2>5
<1>5. CASE Stop
  <2>1. /\ UNCHANGED <<arm, call, meter, windows>> /\ held' = <<>>
        /\ world' = [world EXCEPT !.live = FALSE, !.judge = 0]
    BY <1>5 DEF Stop
  <2>2. /\ DOMAIN world' = DOMAIN world /\ world'.told = world.told /\ world'.late = world.late
        /\ world'.now = world.now /\ ~world'.live /\ world'.ran = world.ran
        /\ world'.judge = 0 /\ world'.judged = world.judged /\ world'.frontier = world.frontier
    BY <1>0, <2>1 DEF WorldTyped
  <2>3. WorldTyped(world')
    BY <1>0, <2>2 DEF WorldTyped
  <2>4. KeepsUp' /\ DOMAIN held' = {}
    BY <2>1, <2>2 DEF KeepsUp
  <2> QED
    BY <2>1, <2>2, <2>3, <2>4, WorldStep
<1> QED
  BY <1>1, <1>2, <1>3, <1>4, <1>5

\* A crossing of S-ORA is sent: it starts at the frontier it may have moved.
LEMMA SendsKeeps ==
  ASSUME CallInv, NEW c \in Calls, Sends(c)
  PROVE  CallInv'
<1>0. CallTypes /\ HoldsKnown /\ PaidUp /\ WithinLimit /\ Ordered /\ KeepsUp
  BY DEF CallInv
<1> DEFINE refused == call[c].at = "idle" /\ Exhausted
           q == [call[c] EXCEPT !.at = IF refused THEN "refused" ELSE "flight",
                                !.began = Len(windows), !.start = StartOf(c)']
<1>1. /\ arm.of = "sora" /\ call[c].at \in {"idle", "repair"} /\ arm' = arm /\ windows' = windows
      /\ call' = [call EXCEPT ![c] = q]
      /\ meter' = IF refused THEN [meter EXCEPT !.exceeded = TRUE]
                  ELSE IF call[c].at = "idle" THEN [meter EXCEPT !.admitted = meter.admitted + 1] ELSE meter
  BY DEF Sends
<1>2. CallTyped(call[c], "sora") /\ WorldTyped(world) /\ MeterTyped(meter) /\ DOMAIN call = Calls
  BY <1>0, <1>1 DEF CallTypes
<1>3. c \notin DOMAIN held
  BY <1>0, <1>1 DEF HoldsKnown, Out
<1>4. /\ WorldTyped(world') /\ world'.live = world.live /\ world'.now = world.now
      /\ world'.ran = world.ran /\ world.frontier <= world'.frontier
      /\ DOMAIN held' = IF world.live /\ Freezes THEN DOMAIN held \cup {c} ELSE {}
      /\ \A d \in DOMAIN held : held'[d] = held[d]
      /\ world.live /\ Freezes => held'[c] = world'.frontier
      /\ KeepsUp'
  <2>1. CASE Freezes
    <3>1. PauseGeneration(c)
      BY <2>1 DEF Sends
    <3> QED
      BY <1>3, <2>1, <3>1, PauseStarts
  <2>2. CASE ~Freezes
    <3>1. world' = world /\ held' = held /\ DOMAIN held = {}
      BY <1>0, <2>2 DEF Sends, HoldsKnown
    <3>2. KeepsUp'
      BY <1>0, <3>1 DEF KeepsUp, Frozen, Pauses
    <3> QED
      BY <1>2, <2>2, <3>1, <3>2 DEF WorldTyped
  <2> QED
    BY <2>1, <2>2
<1>5. q.start = IF c \in DOMAIN held' THEN held'[c] ELSE Unreported
  BY <1>2 DEF StartOf, CallTyped
<1>6. /\ DOMAIN q = DOMAIN call[c] /\ q.at = (IF refused THEN "refused" ELSE "flight")
      /\ q.began = Len(windows) /\ q.trips = call[c].trips /\ q.cursor = call[c].cursor
  BY <1>2 DEF CallTyped
<1>7. /\ DOMAIN call' = Calls /\ call'[c] = q /\ \A d \in Calls : d # c => call'[d] = call[d]
  BY <1>1, <1>2
<1> HIDE DEF q
<1>8. q.at \in {"refused", "flight"}
  BY <1>6
<1>9. Len(windows) \in Nat /\ world.frontier \in Nat /\ world'.frontier \in Nat
  BY <1>0, <1>2, <1>4, LenProperties DEF CallTypes, WorldTyped
<1>10. MeterTyped(meter')
  <2>1. CASE refused
    <3>1. /\ DOMAIN meter' = DOMAIN meter /\ meter'.limit = meter.limit
          /\ meter'.admitted = meter.admitted /\ meter.admitted >= meter.limit
      BY <1>1, <1>2, <2>1 DEF MeterTyped, Exhausted
    <3> QED
      BY <1>2, <3>1 DEF MeterTyped
  <2>2. CASE ~refused /\ call[c].at = "idle"
    <3>1. /\ DOMAIN meter' = DOMAIN meter /\ meter'.limit = meter.limit
          /\ meter'.admitted = meter.admitted + 1 /\ meter'.exceeded = meter.exceeded
          /\ ~(meter.admitted >= meter.limit)
      BY <1>1, <1>2, <2>2 DEF MeterTyped, Exhausted
    <3> QED
      BY <1>2, <3>1 DEF MeterTyped
  <2>3. CASE ~refused /\ call[c].at # "idle"
    BY <1>1, <1>2, <2>3
  <2> QED
    BY <2>1, <2>2, <2>3
<1>11. q.start \in Figure
  BY <1>4, <1>5, <1>9 DEF Figure
<1>12. CallTypes'
  <2>1. CallTyped(q, "sora")
    BY <1>1, <1>2, <1>6, <1>8, <1>9, <1>11 DEF CallTyped, Stages
  <2>2. \A d \in Calls : CallTyped(call'[d], "sora")
    BY <1>0, <1>1, <1>7, <2>1 DEF CallTypes
  <2>3. DOMAIN held' \subseteq Calls /\ \A d \in DOMAIN held' : held'[d] \in Nat
    BY <1>0, <1>4, <1>9 DEF CallTypes
  <2> QED
    BY <1>0, <1>1, <1>4, <1>7, <1>10, <2>2, <2>3 DEF CallTypes
<1>13. HoldsKnown'
  <2>1. ASSUME NEW d \in DOMAIN held' PROVE held'[d] = call'[d].start /\ held'[d] <= world'.frontier
    <3>1. CASE d = c
      BY <1>4, <1>5, <1>7, <1>9, <2>1, <3>1
    <3>2. CASE d # c
      <4>1. d \in DOMAIN held /\ d \in Calls /\ held'[d] = held[d] /\ held[d] \in Nat
        BY <1>0, <1>4, <2>1, <3>2 DEF CallTypes
      <4>2. held[d] = call[d].start /\ held[d] <= world.frontier
        BY <1>0, <4>1 DEF HoldsKnown
      <4> QED
        BY <1>4, <1>7, <1>9, <3>2, <4>1, <4>2
    <3> QED
      BY <3>1, <3>2
  <2>2. ~world'.live => DOMAIN held' = {}
    BY <1>4
  <2>3. ~Freezes' => DOMAIN held' = {} /\ \A d \in Calls : call'[d].start = Unreported
    BY <1>0, <1>1, <1>4, <1>5, <1>7 DEF HoldsKnown, Freezes
  <2>4. world'.live /\ Freezes' => \A d \in Calls : d \in DOMAIN held' <=> Out(call'[d].at)
    BY <1>0, <1>1, <1>4, <1>7, <1>8 DEF HoldsKnown, Freezes, Out
  <2>5. \A d, e \in Calls : call'[d].at = "bracket" /\ call'[e].at = "bracket" => d = e
    BY <1>0, <1>7, <1>8 DEF HoldsKnown
  <2> QED
    BY <2>1, <2>2, <2>3, <2>4, <2>5 DEF HoldsKnown
<1>14. PaidUp'
  <2>1. \A d \in Calls : call[d].at # "bracket" /\ call'[d].at # "bracket"
    BY <1>0, <1>1, <1>7, <1>8 DEF CallTypes, CallTyped, Stages
  <2> QED
    BY <1>0, <1>1, <1>4, <2>1 DEF PaidUp, Freezes
<1>15. WithinLimit'
  <2>1. \A i \in DOMAIN windows' : windows'[i].crossed => call'[windows'[i].of].trips > 0
    <3>1. \A i \in DOMAIN windows : windows[i].of \in Calls
      BY <1>0, WindowsAre
    <3> QED
      BY <1>0, <1>1, <1>6, <1>7, <3>1 DEF WithinLimit
  <2>2. Crossers \in SUBSET Calls /\ Crossers' \in SUBSET Calls
    BY DEF Crossers
  <2>3. meter.admitted \in Nat /\ Cardinality(Crossers) \in Nat /\ Cardinality(Crossers) <= meter.admitted
    BY <1>0, <1>2, <2>2, HoldersCount DEF WithinLimit, MeterTyped
  <2>4. CASE refused
    <3>1. Crossers' \subseteq Crossers
      BY <1>2, <1>6, <1>7, <2>4 DEF Crossers
    <3>2. Cardinality(Crossers') <= Cardinality(Crossers) /\ Cardinality(Crossers') \in Nat
      BY <2>2, <3>1, HoldersCount, FS_Subset
    <3>3. meter'.admitted = meter.admitted
      BY <1>1, <1>2, <2>4 DEF MeterTyped
    <3> QED
      BY <2>1, <2>3, <3>2, <3>3 DEF WithinLimit
  <2>5. CASE ~refused /\ call[c].at = "idle"
    <3>1. Crossers' \subseteq Crossers \cup {c} /\ Crossers \cup {c} \in SUBSET Calls
      BY <1>7, <2>2 DEF Crossers
    <3>2. Cardinality(Crossers \cup {c}) <= Cardinality(Crossers) + 1
          /\ Cardinality(Crossers \cup {c}) \in Nat
      <4>1. c \in Crossers => Crossers \cup {c} = Crossers
        OBVIOUS
      <4> QED
        BY <2>2, <2>3, <3>1, <4>1, HoldersCount
    <3>3. Cardinality(Crossers') <= Cardinality(Crossers \cup {c}) /\ Cardinality(Crossers') \in Nat
      BY <2>2, <3>1, HoldersCount, FS_Subset
    <3>4. meter'.admitted = meter.admitted + 1
      BY <1>1, <1>2, <2>5 DEF MeterTyped
    <3> QED
      BY <2>1, <2>3, <3>2, <3>3, <3>4 DEF WithinLimit
  <2>6. CASE call[c].at # "idle"
    <3>1. Crossers' = Crossers
      BY <1>1, <1>6, <1>7, <2>6 DEF Crossers
    <3>2. meter' = meter
      BY <1>1, <2>6
    <3> QED
      BY <2>1, <2>3, <3>1, <3>2 DEF WithinLimit
  <2> QED
    BY <2>4, <2>5, <2>6
<1>16. Ordered'
  <2>1. ASSUME NEW i \in DOMAIN windows, world.live PROVE EndsBy(windows[i], world'.frontier)
    <3>1. windows[i] \in Window
      BY <1>0, LenProperties, ElementOfSeq DEF CallTypes
    <3>2. EndsBy(windows[i], world.frontier)
      BY <1>0, <1>1, <2>1 DEF Ordered
    <3> QED
      BY <1>4, <1>9, <3>1, <3>2 DEF EndsBy, Window, Figure
  <2>2. ASSUME NEW i \in DOMAIN windows, q.start # Unreported PROVE EndsBy(windows[i], q.start)
    <3>1. world.live /\ q.start = world'.frontier
      BY <1>4, <1>5, <2>2
    <3> QED
      BY <2>1, <3>1
  <2>3. ASSUME NEW d \in Calls, Out(call'[d].at)
        PROVE  /\ call'[d].began <= Len(windows)
               /\ call'[d].start # Unreported =>
                    \A i \in DOMAIN windows : i <= call'[d].began => EndsBy(windows[i], call'[d].start)
    <3>1. CASE d = c
      BY <1>6, <1>7, <1>9, <2>2, <3>1
    <3>2. CASE d # c
      <4>1. call'[d] = call[d]
        BY <1>7, <3>2
      <4> QED
        BY <1>0, <1>1, <2>3, <4>1 DEF Ordered
    <3> QED
      BY <3>1, <3>2
  <2>4. \A i \in DOMAIN windows : /\ windows[i].ended = i /\ windows[i].began < i
                                 /\ Starts(windows[i], windows)
    BY <1>0, <1>1 DEF Ordered
  <2>5. arm'.of = "sora" /\ windows' = windows /\ world'.live = world.live
    BY <1>1, <1>4
  <2> QED
    BY <2>1, <2>3, <2>4, <2>5 DEF Ordered
<1> QED
  BY <1>4, <1>12, <1>13, <1>14, <1>15, <1>16 DEF CallInv

\* What a settled crossing appends.
LEMMA WindowAppended ==
  ASSUME CallTypes, NEW w \in Window, windows' = Append(windows, w)
  PROVE  /\ windows' \in Seq(Window) /\ Len(windows') = Len(windows) + 1
         /\ DOMAIN windows' = 1..(Len(windows) + 1)
         /\ windows'[Len(windows) + 1] = w /\ \A i \in DOMAIN windows : windows'[i] = windows[i]
         /\ \A c : SumIn(windows', c) = SumIn(windows, c) + (IF c \in {w.of, "all"} THEN w.secs ELSE 0)
<1>1. windows \in Seq(Window)
  BY DEF CallTypes
<1>2. /\ windows' \in Seq(Window) /\ Len(windows') = Len(windows) + 1
      /\ windows'[Len(windows) + 1] = w /\ \A i \in 1..Len(windows) : windows'[i] = windows[i]
  BY <1>1, AppendProperties
<1>3. DOMAIN windows = 1..Len(windows) /\ DOMAIN windows' = 1..Len(windows')
  BY <1>1, <1>2, LenProperties
<1>4. \A c : SumIn(windows', c) = SumIn(windows, c) + (IF c \in {w.of, "all"} THEN w.secs ELSE 0)
  <2> TAKE c
  <2> QED
    BY <1>1, SumGrows
<1> QED
  BY <1>2, <1>3, <1>4

\* A crossing of S-ORA is settled: it lies where it was said to start.
LEMMA ReturnsKeeps ==
  ASSUME CallInv, NEW c \in Calls, NEW u \in Replies, Returns(c, u)
  PROVE  CallInv'
<1>0. CallTypes /\ HoldsKnown /\ PaidUp /\ WithinLimit /\ Ordered /\ KeepsUp
  BY DEF CallInv
<1> DEFINE price == Price(u)
           w == [of |-> c, began |-> call[c].began, ended |-> Len(windows) + 1, secs |-> price,
                 at |-> call[c].start, crossed |-> call[c].at # "refused"]
           n == Len(windows)
<1>1. /\ arm.of = "sora" /\ call[c].at \in {"flight", "refused"} /\ arm' = arm /\ meter' = meter
      /\ windows' = Append(windows, w) /\ ResumeGeneration(c, price)
  BY DEF Returns, Settle
<1>2. PICK at \in {"over", "repair"} :
        /\ at = "repair" => call[c].at = "flight" /\ call[c].trips + 1 < MaxTrips
        /\ call' = [call EXCEPT ![c].at = at,
                       ![c].trips = IF call[c].at = "flight" THEN call[c].trips + 1 ELSE call[c].trips]
  BY DEF Returns
<1> DEFINE q == [call[c] EXCEPT !.at = at,
                                !.trips = IF call[c].at = "flight" THEN call[c].trips + 1 ELSE call[c].trips]
<1>3. CallTyped(call[c], "sora") /\ WorldTyped(world) /\ MeterTyped(meter) /\ DOMAIN call = Calls
  BY <1>0, <1>1 DEF CallTypes
<1>4. /\ DOMAIN q = DOMAIN call[c] /\ q.at = at /\ q.began = call[c].began /\ q.start = call[c].start
      /\ q.cursor = call[c].cursor
      /\ q.trips = IF call[c].at = "flight" THEN call[c].trips + 1 ELSE call[c].trips
  BY <1>3 DEF CallTyped
<1>5. /\ DOMAIN call' = Calls /\ call'[c] = q /\ \A d \in Calls : d # c => call'[d] = call[d]
  BY <1>2, <1>3
<1> HIDE DEF q
<1>6. n \in Nat /\ DOMAIN windows = 1..n /\ \A i \in DOMAIN windows : windows[i] \in Window /\ windows[i].of \in Calls
  BY <1>0, WindowsAre
<1>7. price \in Nat
  BY PriceIsNat
<1> HIDE DEF price
<1>8. w \in Window
  <2>1. (call[c].at # "refused") \in BOOLEAN
    OBVIOUS
  <2>2. call[c].began \in Nat /\ call[c].start \in Figure /\ n + 1 \in Nat
    BY <1>3, <1>6 DEF CallTyped
  <2> QED
    BY <1>7, <2>1, <2>2 DEF Window
<1>9. /\ w.of = c /\ w.began = call[c].began /\ w.ended = n + 1 /\ w.secs = price /\ w.at = call[c].start
      /\ w.crossed <=> call[c].at # "refused"
  OBVIOUS
<1> HIDE DEF w
<1>10. /\ windows' \in Seq(Window) /\ Len(windows') = n + 1 /\ DOMAIN windows' = 1..(n + 1)
       /\ windows'[n + 1] = w /\ \A i \in DOMAIN windows : windows'[i] = windows[i]
       /\ SumIn(windows', "all") = SumIn(windows, "all") + price
  BY <1>0, <1>1, <1>8, <1>9, WindowAppended
<1> HIDE DEF n
<1>11. /\ WorldTyped(world') /\ world'.live = world.live /\ world'.ran = world.ran
       /\ world.frontier <= world'.frontier
       /\ DOMAIN held' = DOMAIN held \ {c} /\ \A d \in DOMAIN held' : held'[d] = held[d]
       /\ c \notin DOMAIN held => world'.now = world.now /\ world'.frontier = world.frontier
       /\ c \in DOMAIN held => world'.now = world.now + price /\ held[c] + price <= world'.frontier
       /\ KeepsUp'
  BY <1>1, <1>7, ResumePays
<1>12. world.frontier \in Nat /\ world'.frontier \in Nat /\ world.now \in Nat /\ world.ran \in Nat
  BY <1>3, <1>11 DEF WorldTyped
<1>13. CallTypes'
  <2>1. CallTyped(q, "sora")
    <3>1. q.trips \in 0..MaxTrips /\ (q.at = "repair" => q.trips < MaxTrips)
      BY <1>1, <1>2, <1>3, <1>4, CallConstants DEF CallTyped
    <3> QED
      BY <1>3, <1>4, <3>1 DEF CallTyped, Stages
  <2>2. \A d \in Calls : CallTyped(call'[d], "sora")
    BY <1>0, <1>1, <1>5, <2>1 DEF CallTypes
  <2>3. DOMAIN held' \subseteq Calls /\ \A d \in DOMAIN held' : held'[d] \in Nat
    BY <1>0, <1>11 DEF CallTypes
  <2> QED
    BY <1>0, <1>1, <1>5, <1>10, <1>11, <2>2, <2>3 DEF CallTypes
<1>14. HoldsKnown'
  <2>1. ASSUME NEW d \in DOMAIN held' PROVE held'[d] = call'[d].start /\ held'[d] <= world'.frontier
    <3>1. d \in DOMAIN held /\ d # c /\ d \in Calls /\ held'[d] = held[d] /\ held[d] \in Nat
      BY <1>0, <1>11, <2>1 DEF CallTypes
    <3>2. held[d] = call[d].start /\ held[d] <= world.frontier
      BY <1>0, <3>1 DEF HoldsKnown
    <3> QED
      BY <1>5, <1>11, <1>12, <3>1, <3>2
  <2>2. ~world'.live => DOMAIN held' = {}
    BY <1>0, <1>11 DEF HoldsKnown
  <2>3. ~Freezes' => DOMAIN held' = {} /\ \A d \in Calls : call'[d].start = Unreported
    BY <1>0, <1>1, <1>4, <1>5, <1>11 DEF HoldsKnown, Freezes
  <2>4. world'.live /\ Freezes' => \A d \in Calls : d \in DOMAIN held' <=> Out(call'[d].at)
    BY <1>0, <1>1, <1>4, <1>5, <1>11 DEF HoldsKnown, Freezes, Out
  <2>5. \A d, e \in Calls : call'[d].at = "bracket" /\ call'[e].at = "bracket" => d = e
    BY <1>0, <1>4, <1>5 DEF HoldsKnown
  <2> QED
    BY <2>1, <2>2, <2>3, <2>4, <2>5 DEF HoldsKnown
<1>15. PaidUp'
  <2>1. \A d \in Calls : call[d].at # "bracket" /\ call'[d].at # "bracket"
    BY <1>0, <1>1, <1>4, <1>5 DEF CallTypes, CallTyped, Stages
  <2>2. ASSUME world'.live, Freezes' PROVE world'.now = world'.ran + SumIn(windows', "all")
    <3>1. world.live /\ Freezes
      BY <1>1, <1>11, <2>2 DEF Freezes
    <3>2. c \in DOMAIN held
      BY <1>0, <1>1, <3>1 DEF HoldsKnown, Out
    <3>3. world.now = world.ran + SumIn(windows, "all") /\ SumIn(windows, "all") \in Nat
      BY <1>0, <2>1, <3>1, SumIsNat DEF PaidUp
    <3> QED
      BY <1>7, <1>10, <1>11, <1>12, <3>2, <3>3
  <2> QED
    BY <1>1, <2>1, <2>2 DEF PaidUp
<1>16. WithinLimit'
  <2>1. \A d \in Calls : call[d].trips > 0 => call'[d].trips > 0
    BY <1>3, <1>4, <1>5 DEF CallTyped
  <2>2. ASSUME NEW i \in DOMAIN windows', windows'[i].crossed PROVE call'[windows'[i].of].trips > 0
    <3>1. CASE i = n + 1
      BY <1>1, <1>3, <1>4, <1>5, <1>9, <1>10, <2>2, <3>1 DEF CallTyped
    <3>2. CASE i # n + 1
      <4>1. i \in DOMAIN windows /\ windows'[i] = windows[i]
        BY <1>6, <1>10, <3>2
      <4>2. call[windows[i].of].trips > 0 /\ windows[i].of \in Calls
        BY <1>0, <1>6, <2>2, <4>1 DEF WithinLimit
      <4> QED
        BY <2>1, <4>1, <4>2
    <3> QED
      BY <3>1, <3>2
  <2>3. Crossers' \subseteq Crossers
    BY <1>1, <1>2, <1>3, <1>4, <1>5 DEF Crossers, CallTyped
  <2>4. Crossers \in SUBSET Calls /\ Crossers' \in SUBSET Calls
    BY DEF Crossers
  <2>5. Cardinality(Crossers') <= Cardinality(Crossers) /\ Cardinality(Crossers') \in Nat
        /\ Cardinality(Crossers) \in Nat
    BY <2>3, <2>4, HoldersCount, FS_Subset
  <2> QED
    BY <1>0, <1>1, <1>3, <2>2, <2>5 DEF WithinLimit, MeterTyped
<1>17. Ordered'
  <2>1. call[c].began <= n /\ call[c].began \in Nat
    BY <1>0, <1>1, <1>3 DEF Ordered, Out, CallTyped, n
  <2>2. \A i \in DOMAIN windows' : i = n + 1 \/ (i \in DOMAIN windows /\ windows'[i] = windows[i] /\ i <= n)
    BY <1>6, <1>10
  <2>3. \A i \in DOMAIN windows' : windows'[i].ended = i /\ windows'[i].began < i
    BY <1>0, <1>6, <1>9, <1>10, <2>1, <2>2 DEF Ordered
  <2>4. ASSUME NEW d \in Calls, Out(call'[d].at)
        PROVE  /\ call'[d].began <= Len(windows')
               /\ call'[d].start # Unreported =>
                    \A i \in DOMAIN windows' : i <= call'[d].began => EndsBy(windows'[i], call'[d].start)
    <3>1. d # c /\ call'[d] = call[d]
      BY <1>2, <1>4, <1>5, <2>4 DEF Out
    <3>2. call[d].began <= n /\ call[d].began \in Nat
      BY <1>0, <1>1, <2>4, <3>1 DEF Ordered, n, CallTypes, CallTyped
    <3>3. \A i \in DOMAIN windows' : i <= call[d].began => i \in DOMAIN windows /\ windows'[i] = windows[i]
      BY <1>6, <2>2, <3>2
    <3>4. call[d].start # Unreported =>
            \A i \in DOMAIN windows : i <= call[d].began => EndsBy(windows[i], call[d].start)
      BY <1>0, <1>1, <2>4, <3>1 DEF Ordered
    <3> QED
      BY <1>6, <1>10, <3>1, <3>2, <3>3, <3>4
  <2>5. ASSUME NEW j \in DOMAIN windows' PROVE Starts(windows'[j], windows')
    <3>1. CASE j = n + 1
      <4>1. call[c].start # Unreported =>
              \A i \in DOMAIN windows : i <= call[c].began => EndsBy(windows[i], call[c].start)
        BY <1>0, <1>1 DEF Ordered, Out
      <4>2. \A i \in DOMAIN windows' : i <= call[c].began => i \in DOMAIN windows /\ windows'[i] = windows[i]
        BY <1>6, <2>1, <2>2
      <4> QED
        BY <1>9, <1>10, <3>1, <4>1, <4>2 DEF Starts
    <3>2. CASE j # n + 1
      <4>1. j \in DOMAIN windows /\ windows'[j] = windows[j] /\ j <= n
        BY <2>2, <3>2
      <4>2. windows[j].began < j /\ windows[j].began \in Nat /\ Starts(windows[j], windows)
        BY <1>0, <1>1, <1>6, <4>1 DEF Ordered, Window
      <4>3. \A i \in DOMAIN windows' : i <= windows[j].began => i \in DOMAIN windows /\ windows'[i] = windows[i]
        BY <1>6, <1>10, <2>2, <4>1, <4>2
      <4> QED
        BY <4>1, <4>2, <4>3 DEF Starts
    <3> QED
      BY <3>1, <3>2
  <2>6. ASSUME world.live, NEW i \in DOMAIN windows' PROVE EndsBy(windows'[i], world'.frontier)
    <3>1. CASE i = n + 1
      <4>1. call[c].start # Unreported => c \in DOMAIN held /\ held[c] = call[c].start
        BY <1>0, <1>1, <2>6 DEF HoldsKnown, Out
      <4> QED
        BY <1>9, <1>10, <1>11, <3>1, <4>1 DEF EndsBy
    <3>2. CASE i # n + 1
      <4>1. i \in DOMAIN windows /\ windows'[i] = windows[i] /\ windows[i] \in Window
        BY <1>6, <2>2, <3>2
      <4>2. EndsBy(windows[i], world.frontier)
        BY <1>0, <1>1, <2>6, <4>1 DEF Ordered
      <4> QED
        BY <1>11, <1>12, <4>1, <4>2 DEF EndsBy, Window, Figure
    <3> QED
      BY <3>1, <3>2
  <2>7. arm'.of = "sora" /\ world'.live = world.live
    BY <1>1, <1>11
  <2> QED
    BY <2>3, <2>4, <2>5, <2>6, <2>7 DEF Ordered
<1> QED
  BY <1>11, <1>13, <1>14, <1>15, <1>16, <1>17 DEF CallInv

\* A ReAct step opens its bracket when nobody holds the world.
LEMMA BracketOpens ==
  ASSUME CallInv, NEW c \in Calls, OpenBracket(c)
  PROVE  CallInv'
<1>0. CallTypes /\ HoldsKnown /\ PaidUp /\ WithinLimit /\ Ordered /\ KeepsUp
  BY DEF CallInv
<1> DEFINE q == [call[c] EXCEPT !.at = "bracket", !.start = StartOf(c)']
<1>1. /\ arm.of = "react" /\ call[c].at = "idle" /\ meter.admitted < meter.limit
      /\ \A d \in Calls : call[d].at \in {"idle", "over"}
      /\ PauseGeneration(c) /\ arm' = arm /\ windows' = windows
      /\ call' = [call EXCEPT ![c] = q]
      /\ meter' = [meter EXCEPT !.admitted = meter.admitted + 1]
  BY DEF OpenBracket
<1>2. CallTyped(call[c], "react") /\ WorldTyped(world) /\ MeterTyped(meter) /\ DOMAIN call = Calls
  BY <1>0, <1>1 DEF CallTypes
<1>3. Freezes /\ Freezes' /\ DOMAIN held = {}
  <2>1. Freezes /\ Freezes'
    BY <1>1 DEF Freezes
  <2>2. ASSUME world.live PROVE DOMAIN held = {}
    BY <1>0, <1>1, <2>1, <2>2 DEF HoldsKnown, Out, CallTypes
  <2> QED
    BY <1>0, <2>1, <2>2 DEF HoldsKnown
<1>4. /\ WorldTyped(world') /\ world'.live = world.live /\ world'.now = world.now
      /\ world'.ran = world.ran /\ world.frontier <= world'.frontier
      /\ DOMAIN held' = IF world.live THEN {c} ELSE {}
      /\ world.live => held'[c] = world'.frontier
      /\ KeepsUp'
  BY <1>1, <1>3, PauseStarts
<1>5. q.start = IF c \in DOMAIN held' THEN held'[c] ELSE Unreported
  BY <1>2 DEF StartOf, CallTyped
<1>6. /\ DOMAIN q = DOMAIN call[c] /\ q.at = "bracket" /\ q.began = call[c].began
      /\ q.trips = call[c].trips /\ q.cursor = call[c].cursor
  BY <1>2 DEF CallTyped
<1>7. /\ DOMAIN call' = Calls /\ call'[c] = q /\ \A d \in Calls : d # c => call'[d] = call[d]
  BY <1>1, <1>2
<1> HIDE DEF q
<1>8. world.frontier \in Nat /\ world'.frontier \in Nat
  BY <1>2, <1>4 DEF WorldTyped
<1>9. MeterTyped(meter')
  <2>1. /\ DOMAIN meter' = DOMAIN meter /\ meter'.limit = meter.limit
        /\ meter'.admitted = meter.admitted + 1 /\ meter'.exceeded = meter.exceeded
    BY <1>1, <1>2 DEF MeterTyped
  <2> QED
    BY <1>1, <1>2, <2>1 DEF MeterTyped
<1>10. CallTypes'
  <2>1. q.start \in Figure
    BY <1>4, <1>5, <1>8 DEF Figure
  <2>2. CallTyped(q, "react")
    BY <1>2, <1>6, <2>1 DEF CallTyped, Stages
  <2>3. \A d \in Calls : CallTyped(call'[d], "react")
    BY <1>0, <1>1, <1>7, <2>2 DEF CallTypes
  <2>4. DOMAIN held' \subseteq Calls /\ \A d \in DOMAIN held' : held'[d] \in Nat
    BY <1>4, <1>8
  <2> QED
    BY <1>0, <1>1, <1>4, <1>7, <1>9, <2>3, <2>4 DEF CallTypes
<1>11. HoldsKnown'
  <2>1. \A d \in DOMAIN held' : held'[d] = call'[d].start /\ held'[d] <= world'.frontier
    BY <1>4, <1>5, <1>7, <1>8
  <2>2. ~world'.live => DOMAIN held' = {}
    BY <1>4
  <2>3. world'.live => \A d \in Calls : d \in DOMAIN held' <=> Out(call'[d].at)
    BY <1>1, <1>4, <1>6, <1>7 DEF Out
  <2>4. \A d, e \in Calls : call'[d].at = "bracket" /\ call'[e].at = "bracket" => d = e
    BY <1>1, <1>7
  <2> QED
    BY <1>3, <2>1, <2>2, <2>3, <2>4 DEF HoldsKnown
<1>12. PaidUp'
  <2>1. SumIn(windows, c) = 0 /\ \A d \in Calls : call[d].at = "idle" => SumIn(windows, d) = 0
    BY <1>0, <1>1 DEF PaidUp
  <2>2. world.live => world.now = world.ran + SumIn(windows, "all")
    BY <1>0, <1>1, <1>3 DEF PaidUp
  <2>3. SumIn(windows, "all") \in Nat /\ world.now \in Nat /\ world.ran \in Nat
    BY <1>0, <1>2, SumIsNat DEF WorldTyped
  <2>4. ASSUME world'.live, NEW d \in Calls, call'[d].at = "bracket"
        PROVE  world'.now + SumIn(windows', d) = world'.ran + SumIn(windows', "all")
    <3>1. d = c
      BY <1>1, <1>7, <2>4
    <3> QED
      BY <1>1, <1>4, <2>1, <2>2, <2>3, <2>4, <3>1
  <2>5. call'[c].at = "bracket" /\ \A d \in Calls : call'[d].at = "idle" => SumIn(windows', d) = 0
    BY <1>1, <1>6, <1>7, <2>1
  <2> QED
    BY <1>1, <2>4, <2>5 DEF PaidUp
<1>13. WithinLimit'
  <2>1. \A i \in DOMAIN windows' : windows'[i].crossed => call'[windows'[i].of].trips > 0
    <3>1. \A i \in DOMAIN windows : windows[i].of \in Calls
      BY <1>0, WindowsAre
    <3> QED
      BY <1>0, <1>1, <1>6, <1>7, <3>1 DEF WithinLimit
  <2>2. Crossers \in SUBSET Calls /\ Crossers' \in SUBSET Calls
    BY DEF Crossers
  <2>3. meter.admitted \in Nat /\ Cardinality(Crossers) \in Nat /\ Cardinality(Crossers) <= meter.admitted
    BY <1>0, <1>2, <2>2, HoldersCount DEF WithinLimit, MeterTyped
  <2>4. Crossers' \subseteq Crossers \cup {c} /\ Crossers \cup {c} \in SUBSET Calls
    BY <1>7, <2>2 DEF Crossers
  <2>5. Cardinality(Crossers \cup {c}) <= Cardinality(Crossers) + 1
        /\ Cardinality(Crossers \cup {c}) \in Nat
    <3>1. c \in Crossers => Crossers \cup {c} = Crossers
      OBVIOUS
    <3> QED
      BY <2>2, <2>3, <2>4, <3>1, HoldersCount
  <2>6. Cardinality(Crossers') <= Cardinality(Crossers \cup {c}) /\ Cardinality(Crossers') \in Nat
    BY <2>2, <2>4, HoldersCount, FS_Subset
  <2>7. meter'.admitted = meter.admitted + 1
    BY <1>1, <1>2 DEF MeterTyped
  <2> QED
    BY <2>1, <2>3, <2>5, <2>6, <2>7 DEF WithinLimit
<1>14. Ordered'
  <2>1. \A i \in DOMAIN windows : windows[i].ended = i /\ windows[i].began < i
    BY <1>0 DEF Ordered
  <2>2. \A d \in Calls : call'[d].began = Len(windows)
    BY <1>0, <1>1, <1>6, <1>7 DEF Ordered
  <2>3. world.live => \A i \in DOMAIN windows : Starts(windows[i], windows)
    BY <1>0, <1>1 DEF Ordered
  <2>4. ASSUME world.live, NEW d \in Calls, call'[d].at = "bracket", NEW i \in DOMAIN windows
        PROVE  EndsBy(windows[i], call'[d].start + SumIn(windows, d))
    <3>1. d = c
      BY <1>1, <1>7, <2>4
    <3>2. call'[d].start = world'.frontier /\ SumIn(windows, d) = 0
      BY <1>0, <1>1, <1>4, <1>5, <1>7, <2>4, <3>1 DEF PaidUp
    <3>3. EndsBy(windows[i], world.frontier) /\ windows[i] \in Window
      BY <1>0, <1>1, <2>4, WindowsAre DEF Ordered
    <3> QED
      BY <1>4, <1>8, <3>2, <3>3 DEF EndsBy, Window, Figure
  <2>5. call'[c].at = "bracket" /\ arm'.of = "react" /\ windows' = windows /\ world'.live = world.live
    BY <1>1, <1>4, <1>6, <1>7
  <2> QED
    BY <2>1, <2>2, <2>3, <2>4, <2>5 DEF Ordered
<1> QED
  BY <1>4, <1>10, <1>11, <1>12, <1>13, <1>14 DEF CallInv

\* A crossing inside a bracket: the world waits, the window follows the last.
LEMMA CrossKeeps ==
  ASSUME CallInv, NEW c \in Calls, NEW u \in Replies, Cross(c, u)
  PROVE  CallInv'
<1>0. CallTypes /\ HoldsKnown /\ PaidUp /\ WithinLimit /\ Ordered /\ KeepsUp
  BY DEF CallInv
<1> DEFINE price == Price(u)
           alone == call[c].start = Unreported
           place == IF alone THEN call[c].cursor ELSE call[c].start + SumIn(windows, c)
           w == [of |-> c, began |-> call[c].began, ended |-> Len(windows) + 1, secs |-> price,
                 at |-> place, crossed |-> call[c].at # "refused"]
           n == Len(windows)
<1>1. /\ call[c].at = "bracket" /\ call[c].trips < MaxTrips
      /\ arm' = arm /\ world' = world /\ held' = held /\ meter' = meter
  BY DEF Cross
<1>a. windows' = Append(windows, w)
  BY SumOfIsIn DEF Cross, Settle
<1>d. call' = [d \in Calls |-> [call[d] EXCEPT
              !.trips = IF d = c THEN call[d].trips + 1 ELSE call[d].trips, !.began = n + 1,
              !.cursor = IF alone THEN call[d].cursor + price ELSE call[d].cursor]]
  BY DEF Cross
<1>2. /\ \A d \in Calls : CallTyped(call[d], arm.of)
      /\ WorldTyped(world) /\ MeterTyped(meter) /\ DOMAIN call = Calls
  BY <1>0 DEF CallTypes
<1>3. arm.of = "react" /\ Freezes /\ (Freezes' <=> Freezes)
  <2>1. arm.of # "sora"
    BY <1>1, <1>2 DEF CallTyped, Stages
  <2> QED
    BY <1>0, <1>1, <2>1 DEF CallTypes, Arms, Freezes
<1>4. price \in Nat /\ SumIn(windows, c) \in Nat /\ SumIn(windows, "all") \in Nat
  BY <1>0, PriceIsNat, SumIsNat
<1>5. n \in Nat /\ DOMAIN windows = 1..n /\ \A i \in DOMAIN windows : windows[i] \in Window /\ windows[i].of \in Calls
  BY <1>0, WindowsAre
<1> HIDE DEF price
<1>6. /\ DOMAIN call' = Calls
      /\ \A d \in Calls : /\ DOMAIN call'[d] = DOMAIN call[d] /\ call'[d].at = call[d].at
                           /\ call'[d].start = call[d].start /\ call'[d].began = n + 1
                           /\ call'[d].trips = (IF d = c THEN call[d].trips + 1 ELSE call[d].trips)
                           /\ call'[d].cursor = (IF alone THEN call[d].cursor + price ELSE call[d].cursor)
  BY <1>2, <1>d DEF CallTyped
<1>7. call[c].began = n
  BY <1>0, <1>3 DEF Ordered
<1>8. place \in Nat
  BY <1>2, <1>4 DEF CallTyped, Figure
<1> HIDE DEF alone
<1>p. world.live => call[c].start \in Nat /\ place = call[c].start + SumIn(windows, c)
  <2>1. world.live => c \in DOMAIN held
    BY <1>0, <1>1, <1>3 DEF HoldsKnown, Out
  <2>2. world.live => call[c].start \in Nat
    BY <1>0, <2>1 DEF HoldsKnown, CallTypes
  <2> QED
    BY <2>2, CallConstants DEF alone
<1> HIDE DEF place
<1>9. w \in Window
  <2>1. (call[c].at # "refused") \in BOOLEAN
    OBVIOUS
  <2> QED
    BY <1>4, <1>5, <1>7, <1>8, <2>1 DEF Window, Figure
<1>10. /\ w.of = c /\ w.began = n /\ w.ended = n + 1 /\ w.secs = price /\ w.at = place
  BY <1>7
<1> HIDE DEF w
<1>11. /\ windows' \in Seq(Window) /\ Len(windows') = n + 1 /\ DOMAIN windows' = 1..(n + 1)
       /\ windows'[n + 1] = w /\ \A i \in DOMAIN windows : windows'[i] = windows[i]
       /\ SumIn(windows', "all") = SumIn(windows, "all") + price
       /\ SumIn(windows', c) = SumIn(windows, c) + price
       /\ \A d \in Calls : d # c => SumIn(windows', d) = SumIn(windows, d)
  <2>1. /\ windows' \in Seq(Window) /\ Len(windows') = n + 1 /\ DOMAIN windows' = 1..(n + 1)
        /\ windows'[n + 1] = w /\ \A i \in DOMAIN windows : windows'[i] = windows[i]
        /\ \A d : SumIn(windows', d) = SumIn(windows, d) + (IF d \in {w.of, "all"} THEN w.secs ELSE 0)
    BY <1>0, <1>9, <1>a, WindowAppended
  <2>2. \A d \in Calls : d # "all" /\ SumIn(windows, d) \in Nat
    BY <1>0, CallConstants, SumIsNat
  <2> QED
    BY <1>10, <2>1, <2>2
<1> HIDE DEF n
<1>12. CallTypes'
  <2>1. \A d \in Calls : CallTyped(call'[d], "react")
    <3> TAKE d \in Calls
    <3>1. CallTyped(call[d], "react") /\ call[c].trips \in Nat
      BY <1>2, <1>3 DEF CallTyped
    <3>2. call'[d].trips \in 0..MaxTrips
      BY <1>1, <1>6, <3>1, CallConstants DEF CallTyped
    <3>3. call'[d].cursor \in Nat
      BY <1>4, <1>6, <3>1 DEF CallTyped
    <3>4. call'[d].at \in {"idle", "bracket", "over"} /\ (call'[d].at = "idle" => call'[d].trips < MaxTrips)
      BY <1>1, <1>6, <3>1 DEF CallTyped, Stages
    <3> QED
      BY <1>5, <1>6, <3>1, <3>2, <3>3, <3>4 DEF CallTyped, Stages
  <2> QED
    BY <1>0, <1>1, <1>3, <1>6, <1>11, <2>1 DEF CallTypes
<1>13. HoldsKnown'
  <2>1. \A d \in DOMAIN held' : held'[d] = call'[d].start /\ held'[d] <= world'.frontier
    BY <1>0, <1>1, <1>6 DEF HoldsKnown, CallTypes
  <2>2. world'.live => \A d \in Calls : d \in DOMAIN held' <=> Out(call'[d].at)
    BY <1>0, <1>1, <1>3, <1>6 DEF HoldsKnown
  <2>3. \A d, e \in Calls : call'[d].at = "bracket" /\ call'[e].at = "bracket" => d = e
    BY <1>0, <1>6 DEF HoldsKnown
  <2>4. ~world'.live => DOMAIN held' = {}
    BY <1>0, <1>1 DEF HoldsKnown
  <2> QED
    BY <1>3, <2>1, <2>2, <2>3, <2>4 DEF HoldsKnown
<1>14. PaidUp'
  <2>1. world.now \in Nat /\ world.ran \in Nat
    BY <1>2 DEF WorldTyped
  <2>2. ASSUME world'.live, NEW d \in Calls, call'[d].at = "bracket"
        PROVE  world'.now + SumIn(windows', d) = world'.ran + SumIn(windows', "all")
    <3>1. d = c
      BY <1>0, <1>1, <1>6, <2>2 DEF HoldsKnown
    <3>2. world.now + SumIn(windows, c) = world.ran + SumIn(windows, "all")
      BY <1>0, <1>1, <1>3, <2>2 DEF PaidUp
    <3>3. /\ SumIn(windows', d) = SumIn(windows, c) + price
          /\ SumIn(windows', "all") = SumIn(windows, "all") + price
      BY <1>11, <3>1
    <3>4. world'.now = world.now /\ world'.ran = world.ran
      BY <1>1
    <3> QED
      BY <1>4, <2>1, <3>2, <3>3, <3>4
  <2>3. \A d \in Calls : call'[d].at = "idle" => SumIn(windows', d) = 0
    BY <1>0, <1>1, <1>3, <1>6, <1>11 DEF PaidUp
  <2>4. call'[c].at = "bracket"
    BY <1>1, <1>6
  <2> QED
    BY <2>2, <2>3, <2>4 DEF PaidUp
<1>15. WithinLimit'
  <2>1. ASSUME NEW i \in DOMAIN windows', windows'[i].crossed PROVE call'[windows'[i].of].trips > 0
    <3>1. CASE i = n + 1
      BY <1>2, <1>6, <1>10, <1>11, <3>1 DEF CallTyped
    <3>2. CASE i # n + 1
      <4>1. i \in DOMAIN windows /\ windows'[i] = windows[i]
        BY <1>5, <1>11, <3>2
      <4>2. call[windows[i].of].trips > 0 /\ windows[i].of \in Calls
        BY <1>0, <1>5, <2>1, <4>1 DEF WithinLimit
      <4> QED
        BY <1>2, <1>6, <4>1, <4>2 DEF CallTyped
    <3> QED
      BY <3>1, <3>2
  <2>2. Crossers' = Crossers
    <3>1. \A d \in Calls : d # c => call'[d].at = call[d].at /\ call'[d].trips = call[d].trips
      BY <1>6
    <3>2. c \in Crossers /\ c \in Crossers'
      BY <1>1, <1>6 DEF Crossers
    <3> QED
      BY <3>1, <3>2 DEF Crossers
  <2> QED
    BY <1>0, <1>1, <2>1, <2>2 DEF WithinLimit
<1>16. Ordered'
  <2>1. \A i \in DOMAIN windows' : i = n + 1 \/ (i \in DOMAIN windows /\ windows'[i] = windows[i] /\ i <= n)
    BY <1>5, <1>11
  <2>2. \A i \in DOMAIN windows' : windows'[i].ended = i /\ windows'[i].began < i
    BY <1>0, <1>5, <1>10, <1>11, <2>1 DEF Ordered
  <2>3. \A d \in Calls : call'[d].began = Len(windows')
    BY <1>6, <1>11
  <2>4. ASSUME world.live, NEW i \in DOMAIN windows PROVE EndsBy(windows[i], place)
    BY <1>0, <1>1, <1>3, <1>p, <2>4 DEF Ordered
  <2>5. ASSUME world.live, NEW j \in DOMAIN windows' PROVE Starts(windows'[j], windows')
    <3>1. CASE j = n + 1
      <4>1. \A i \in DOMAIN windows' : i <= n => i \in DOMAIN windows /\ windows'[i] = windows[i]
        BY <1>5, <2>1
      <4> QED
        BY <1>10, <1>11, <2>4, <2>5, <3>1, <4>1 DEF Starts
    <3>2. CASE j # n + 1
      <4>1. j \in DOMAIN windows /\ windows'[j] = windows[j] /\ j <= n
        BY <2>1, <3>2
      <4>2. windows[j].began < j /\ windows[j].began \in Nat /\ Starts(windows[j], windows)
        BY <1>0, <1>3, <1>5, <2>5, <4>1 DEF Ordered, Window
      <4>3. \A i \in DOMAIN windows' : i <= windows[j].began => i \in DOMAIN windows /\ windows'[i] = windows[i]
        BY <1>5, <1>11, <2>1, <4>1, <4>2
      <4> QED
        BY <4>1, <4>2, <4>3 DEF Starts
    <3> QED
      BY <3>1, <3>2
  <2>6. ASSUME world.live, NEW d \in Calls, call'[d].at = "bracket", NEW i \in DOMAIN windows'
        PROVE  EndsBy(windows'[i], call'[d].start + SumIn(windows', d))
    <3>1. d = c
      BY <1>0, <1>1, <1>6, <2>6 DEF HoldsKnown
    <3>2. call'[d].start + SumIn(windows', d) = place + price
      BY <1>4, <1>6, <1>11, <1>p, <2>6, <3>1
    <3>3. CASE i = n + 1
      BY <1>4, <1>8, <1>10, <1>11, <3>2, <3>3 DEF EndsBy
    <3>4. CASE i # n + 1
      <4>1. i \in DOMAIN windows /\ windows'[i] = windows[i] /\ windows[i] \in Window
        BY <1>5, <2>1, <3>4
      <4>2. EndsBy(windows[i], place)
        BY <2>4, <2>6, <4>1
      <4> QED
        BY <1>4, <1>8, <3>2, <4>1, <4>2 DEF EndsBy, Window, Figure
    <3> QED
      BY <3>3, <3>4
  <2>7. arm'.of = "react" /\ world' = world /\ call'[c].at = "bracket"
    BY <1>1, <1>3, <1>6
  <2> QED
    BY <2>2, <2>3, <2>5, <2>6, <2>7 DEF Ordered
<1>17. KeepsUp'
  BY <1>0, <1>1 DEF KeepsUp, Frozen, Pauses
<1> QED
  BY <1>12, <1>13, <1>14, <1>15, <1>16, <1>17 DEF CallInv

\* A bracket closes and the clock catches up with its windows.
LEMMA BracketCloses ==
  ASSUME CallInv, NEW c \in Calls, CloseBracket(c)
  PROVE  CallInv'
<1>0. CallTypes /\ HoldsKnown /\ PaidUp /\ WithinLimit /\ Ordered /\ KeepsUp
  BY DEF CallInv
<1> DEFINE price == SumIn(windows, c)
           q == [call[c] EXCEPT !.at = "over"]
<1>1. /\ call[c].at = "bracket" /\ ResumeGeneration(c, price)
      /\ arm' = arm /\ meter' = meter /\ windows' = windows
  BY SumOfIsIn DEF CloseBracket
<1>d. call' = [call EXCEPT ![c] = q]
  BY DEF CloseBracket, Set
<1>2. /\ CallTyped(call[c], arm.of) /\ WorldTyped(world) /\ MeterTyped(meter) /\ DOMAIN call = Calls
  BY <1>0 DEF CallTypes
<1>3. arm.of = "react" /\ Freezes /\ (Freezes' <=> Freezes)
  <2>1. arm.of # "sora"
    BY <1>1, <1>2 DEF CallTyped, Stages
  <2> QED
    BY <1>0, <1>1, <2>1 DEF CallTypes, Arms, Freezes
<1>4. price \in Nat /\ SumIn(windows, "all") \in Nat
  BY <1>0, SumIsNat
<1>5. DOMAIN windows = 1..Len(windows) /\ \A i \in DOMAIN windows : windows[i] \in Window /\ windows[i].of \in Calls
  BY <1>0, WindowsAre
<1>6. /\ DOMAIN q = DOMAIN call[c] /\ q.at = "over" /\ q.began = call[c].began
      /\ q.trips = call[c].trips /\ q.cursor = call[c].cursor /\ q.start = call[c].start
  BY <1>2 DEF CallTyped
<1>7. /\ DOMAIN call' = Calls /\ call'[c] = q /\ \A d \in Calls : d # c => call'[d] = call[d]
  BY <1>2, <1>d
<1> HIDE DEF q
<1>8. /\ WorldTyped(world') /\ world'.live = world.live /\ world'.ran = world.ran
      /\ world.frontier <= world'.frontier
      /\ DOMAIN held' = DOMAIN held \ {c} /\ \A d \in DOMAIN held' : held'[d] = held[d]
      /\ c \in DOMAIN held => world'.now = world.now + price /\ held[c] + price <= world'.frontier
      /\ KeepsUp'
  BY <1>1, <1>4, ResumePays
<1>9. \A d \in Calls : call'[d].at # "bracket"
  BY <1>0, <1>1, <1>6, <1>7 DEF HoldsKnown
<1>10. world.frontier \in Nat /\ world'.frontier \in Nat /\ world.now \in Nat /\ world.ran \in Nat
  BY <1>2, <1>8 DEF WorldTyped
<1>11. world.live => c \in DOMAIN held /\ held[c] = call[c].start /\ held[c] \in Nat
  BY <1>0, <1>1, <1>3 DEF HoldsKnown, Out, CallTypes
<1>12. CallTypes'
  <2>1. CallTyped(q, "react")
    BY <1>2, <1>3, <1>6 DEF CallTyped, Stages
  <2>2. \A d \in Calls : CallTyped(call'[d], "react")
    BY <1>0, <1>3, <1>7, <2>1 DEF CallTypes
  <2>3. DOMAIN held' \subseteq Calls /\ \A d \in DOMAIN held' : held'[d] \in Nat
    BY <1>0, <1>8 DEF CallTypes
  <2> QED
    BY <1>0, <1>1, <1>3, <1>7, <1>8, <2>2, <2>3 DEF CallTypes
<1>13. HoldsKnown'
  <2>1. ASSUME NEW d \in DOMAIN held' PROVE held'[d] = call'[d].start /\ held'[d] <= world'.frontier
    <3>1. d \in DOMAIN held /\ d # c /\ d \in Calls /\ held'[d] = held[d] /\ held[d] \in Nat
      BY <1>0, <1>8, <2>1 DEF CallTypes
    <3>2. held[d] = call[d].start /\ held[d] <= world.frontier
      BY <1>0, <3>1 DEF HoldsKnown
    <3> QED
      BY <1>7, <1>8, <1>10, <3>1, <3>2
  <2>2. ~world'.live => DOMAIN held' = {}
    BY <1>0, <1>8 DEF HoldsKnown
  <2>3. world'.live => \A d \in Calls : d \in DOMAIN held' <=> Out(call'[d].at)
    BY <1>0, <1>3, <1>6, <1>7, <1>8 DEF HoldsKnown, Out
  <2> QED
    BY <1>3, <1>9, <2>1, <2>2, <2>3 DEF HoldsKnown
<1>14. PaidUp'
  <2>1. ASSUME world'.live PROVE world'.now = world'.ran + SumIn(windows', "all")
    <3>1. world.now + price = world.ran + SumIn(windows, "all")
      BY <1>0, <1>1, <1>3, <1>8, <2>1 DEF PaidUp
    <3> QED
      BY <1>1, <1>8, <1>11, <2>1, <3>1
  <2>2. \A d \in Calls : call'[d].at = "idle" => SumIn(windows', d) = 0
    BY <1>0, <1>1, <1>3, <1>6, <1>7 DEF PaidUp
  <2> QED
    BY <1>9, <2>1, <2>2 DEF PaidUp
<1>15. WithinLimit'
  <2>1. \A i \in DOMAIN windows' : windows'[i].crossed => call'[windows'[i].of].trips > 0
    BY <1>0, <1>1, <1>5, <1>6, <1>7 DEF WithinLimit
  <2>2. Crossers' \subseteq Crossers /\ Crossers \in SUBSET Calls /\ Crossers' \in SUBSET Calls
    BY <1>6, <1>7 DEF Crossers
  <2>3. Cardinality(Crossers') <= Cardinality(Crossers) /\ Cardinality(Crossers') \in Nat
        /\ Cardinality(Crossers) \in Nat
    BY <2>2, HoldersCount, FS_Subset
  <2> QED
    BY <1>0, <1>1, <1>2, <2>1, <2>3 DEF WithinLimit, MeterTyped
<1>16. Ordered'
  <2>1. \A i \in DOMAIN windows : windows[i].ended = i /\ windows[i].began < i
    BY <1>0 DEF Ordered
  <2>2. \A d \in Calls : call'[d].began = Len(windows)
    BY <1>0, <1>3, <1>6, <1>7 DEF Ordered
  <2>3. world.live => \A i \in DOMAIN windows : Starts(windows[i], windows)
    BY <1>0, <1>3 DEF Ordered
  <2>4. ASSUME world.live, NEW i \in DOMAIN windows PROVE EndsBy(windows[i], world'.frontier)
    <3>1. EndsBy(windows[i], call[c].start + price) /\ windows[i] \in Window
      BY <1>0, <1>1, <1>3, <1>5, <2>4 DEF Ordered
    <3> QED
      BY <1>4, <1>8, <1>10, <1>11, <2>4, <3>1 DEF EndsBy, Window, Figure
  <2>5. arm'.of = "react" /\ windows' = windows /\ world'.live = world.live
    BY <1>1, <1>3, <1>8
  <2> QED
    BY <1>9, <2>1, <2>2, <2>3, <2>4, <2>5 DEF Ordered
<1> QED
  BY <1>8, <1>12, <1>13, <1>14, <1>15, <1>16 DEF CallInv

LEMMA CallInvStep == CallInv /\ [CallNext]_callVars => CallInv'
<1> SUFFICES ASSUME CallInv, [CallNext]_callVars PROVE CallInv'
  OBVIOUS
<1>1. CASE Second \/ LoopTurns \/ JudgePauses \/ JudgeResumes \/ Stop
  BY <1>1, WorldMoves
<1>2. ASSUME NEW c \in Calls, Sends(c) PROVE CallInv'
  BY <1>2, SendsKeeps
<1>3. ASSUME NEW c \in Calls, OpenBracket(c) PROVE CallInv'
  BY <1>3, BracketOpens
<1>4. ASSUME NEW c \in Calls, CloseBracket(c) PROVE CallInv'
  BY <1>4, BracketCloses
<1>5. ASSUME NEW c \in Calls, NEW u \in Replies, Returns(c, u) PROVE CallInv'
  BY <1>5, ReturnsKeeps
<1>6. ASSUME NEW c \in Calls, NEW u \in Replies, Cross(c, u) PROVE CallInv'
  BY <1>6, CrossKeeps
<1>7. CASE UNCHANGED callVars
  <2>1. /\ arm' = arm /\ world' = world /\ held' = held /\ call' = call /\ meter' = meter /\ windows' = windows
    BY <1>7 DEF callVars
  <2>2. CallTypes /\ HoldsKnown /\ PaidUp /\ WithinLimit /\ Ordered /\ KeepsUp
    BY DEF CallInv
  <2>3. CallTypes' /\ HoldsKnown' /\ PaidUp'
    BY <2>1, <2>2 DEF CallTypes, HoldsKnown, PaidUp, Freezes
  <2>4. WithinLimit' /\ Ordered' /\ KeepsUp'
    BY <2>1, <2>2 DEF WithinLimit, Crossers, Ordered, KeepsUp, Frozen, Pauses
  <2> QED
    BY <2>3, <2>4 DEF CallInv
<1> QED
  BY <1>1, <1>2, <1>3, <1>4, <1>5, <1>6, <1>7 DEF CallNext

LEMMA CallInvariance == CallSpec => []CallInv
BY CallInvInit, CallInvStep, PTL DEF CallSpec

LEMMA CallInvTyped == CallInv => CallTypeOK
<1> SUFFICES ASSUME CallInv PROVE CallTypeOK
  OBVIOUS
<1>1. CallTypes
  BY DEF CallInv
<1>2. DOMAIN held \subseteq Calls /\ world.judge \in 0..MaxJudge /\ world.now \in Nat
  BY <1>1, CallConstants DEF CallTypes, WorldTyped
<1>3. /\ \A c \in Calls : call[c].at \in {"idle", "flight", "refused", "repair", "bracket", "over"}
      /\ \A c \in Calls : call[c].trips \in 0..MaxTrips
  BY <1>1 DEF CallTypes, CallTyped, Stages
<1>4. meter.admitted \in 0..meter.limit /\ (meter.exceeded => meter.admitted = meter.limit)
  BY <1>1 DEF CallTypes, MeterTyped
<1> QED
  BY <1>2, <1>3, <1>4 DEF CallTypeOK

(* The types of a run's model calls, and the limit on them: one that is    *)
(* exceeded was used up.                                                   *)
THEOREM CallsAreTyped == CallSpec => []CallTypeOK
BY CallInvariance, CallInvTyped, PTL

(* The scenario clock of a benchmarked run is paid for and held only by    *)
(* calls that are out, its charged windows lie in order on one axis, and   *)
(* no event is owed for longer than the world ran, for every number of     *)
(* overlapping calls, every usage a provider reports and every judge pass, *)
(* watchdog or stop in between.                                            *)
THEOREM ScenarioClockIsSound == CallSpec => []ScenarioClockHolds
<1>1. CallInv => ScenarioClockHolds
  <2> SUFFICES ASSUME CallInv PROVE ScenarioClockHolds
    OBVIOUS
  <2>0. CallTypes /\ HoldsKnown /\ PaidUp /\ WithinLimit /\ Ordered /\ KeepsUp
    BY DEF CallInv
  <2>1. /\ Len(windows) \in Nat /\ DOMAIN windows = 1..Len(windows)
        /\ \A i \in DOMAIN windows : windows[i] \in Window /\ windows[i].of \in Calls
    BY <2>0, WindowsAre
  <2>2. PaidFor
    <3>1. world.live /\ Freezes /\ (\A c \in Calls : call[c].at # "bracket")
             => world.now = world.ran + SumOf("all")
      BY <2>0, SumOfIsIn DEF PaidUp
    <3> DEFINE S == {w.of : w \in {x \in Windows : x.crossed}}
    <3>2. S \subseteq Crossers
      <4> SUFFICES ASSUME NEW w \in Windows, w.crossed PROVE w.of \in Crossers
        OBVIOUS
      <4>1. PICK i \in DOMAIN windows : w = windows[i]
        BY <2>1 DEF Windows
      <4> QED
        BY <2>0, <2>1, <4>1 DEF WithinLimit, Crossers
    <3>3. Crossers \in SUBSET Calls
      BY DEF Crossers
    <3> HIDE DEF S
    <3>4. S \in SUBSET Calls
      BY <3>2, <3>3
    <3>5. Cardinality(S) <= Cardinality(Crossers) /\ Cardinality(S) \in Nat /\ Cardinality(Crossers) \in Nat
      BY <3>2, <3>3, <3>4, HoldersCount, FS_Subset
    <3>6. Cardinality(S) <= meter.admitted
      BY <2>0, <3>5 DEF WithinLimit, CallTypes, MeterTyped
    <3> QED
      BY <3>1, <3>6 DEF PaidFor, S
  <2>3. ASSUME arm.of = "sora" \/ world.live PROVE Serial
    <3> SUFFICES ASSUME NEW v \in Windows, NEW w \in Windows, v.at # Unreported, w.at # Unreported,
                        v.ended <= w.began
                 PROVE  v.at + v.secs <= w.at
      BY DEF Serial
    <3>1. PICK i \in DOMAIN windows, j \in DOMAIN windows : v = windows[i] /\ w = windows[j]
      BY <2>1 DEF Windows
    <3>2. Starts(w, windows)
      BY <2>0, <2>3, <3>1 DEF Ordered, CallTypes, Arms
    <3>3. i <= w.began
      BY <2>0, <3>1 DEF Ordered
    <3> QED
      BY <3>1, <3>2, <3>3 DEF Starts, EndsBy
  <2>4. HeldByCalls
    BY <2>0 DEF HeldByCalls, HoldsKnown, Out, CallTypes
  <2> QED
    BY <2>0, <2>2, <2>3, <2>4 DEF ScenarioClockHolds
<1> QED
  BY <1>1, CallInvariance, PTL

-----------------------------------------------------------------------------
(* MCSweep: the parts side by side.                                        *)

(* Every behaviour of the sweep is one of its campaign, of a run's model   *)
(* calls and of a run's ending, so what is proved of a part holds of the   *)
(* whole that the run checks.                                              *)
THEOREM SweepIsItsParts == SweepSpec => CampaignSpec /\ CallSpec /\ RunSpec
<1>1. SweepInit => CampaignInit /\ CallInit /\ RunInit
  BY DEF SweepInit
<1>2. [SweepNext]_sweepVars =>
        [CampaignNext]_campaignVars /\ [CallNext]_callVars /\ [RunNext]_runVars
  BY DEF SweepNext, sweepVars
<1> QED
  BY <1>1, <1>2, PTL DEF SweepSpec, CampaignSpec, CallSpec, RunSpec

(* The types of a sweep of benchmarked runs.                               *)
THEOREM SweepIsTyped == SweepSpec => []SweepTypesOK
<1>1. CampaignTypeOK /\ CallTypeOK /\ RunTypeOK => SweepTypesOK
  BY DEF SweepTypesOK
<1> QED
  BY <1>1, SweepIsItsParts, CampaignIsTyped, CallsAreTyped, RunIsTyped, PTL
=============================================================================

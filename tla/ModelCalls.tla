----------------------------- MODULE ModelCalls -----------------------------
(***************************************************************************)
(* Model calls of a benchmarked run and the scenario clock they stop.      *)
(* Both arms freeze the world around a call and resume it by a price: the  *)
(* S-ORA agent around every crossing of the wire, several of them at once; *)
(* ARE's ReAct agent around a bracket of crossings, one bracket at a time. *)
(* The online judge pauses the same world, and a watchdog or a verdict     *)
(* stops it while calls are still out.                                     *)
(*                                                                         *)
(* What is abstracted: time is whole seconds; the host's clock is the      *)
(* number of settled crossings, which orders them; token counts are small. *)
(***************************************************************************)
EXTENDS Integers, Sequences, FiniteSets

CONSTANTS Calls,      \* logical model calls: an inference, or a ReAct step
          MaxTrips,   \* bound: crossings of one call
          CallLimit,  \* bound: max_logical_calls of a run is 1..CallLimit
          OpenAI,     \* usage blocks of an OpenAI-compatible provider
          Anthropic,  \* usage blocks of Anthropic
          Unreported, \* a figure the provider did not give
          FixedTerm,  \* a0_seconds
          Due,        \* scenario times of scripted events
          MaxRun,     \* bound: seconds the world runs unfrozen
          MaxJudge    \* bound: passes of the online judge

Figure == Nat \cup {Unreported}

\* A run makes finitely many calls; "all" stands for all of them in a sum.
ASSUME CallConstants ==
  /\ IsFiniteSet(Calls) /\ "all" \notin Calls /\ Unreported \notin Nat
  /\ MaxTrips \in Nat \ {0} /\ CallLimit \in Nat \ {0} /\ FixedTerm \in Nat \ {0}
  /\ OpenAI \subseteq [prompt : Nat, cached : Figure, completion : Nat]
  /\ Anthropic \subseteq [fresh : Nat, write : Figure, read : Figure, output : Nat]
  /\ Due \subseteq Nat /\ MaxRun \in Nat /\ MaxJudge \in Nat

VARIABLES
  arm,      \* which agent is benchmarked, and the clock mode of its rows
  world,    \* the charged environment: its clock, pauses and deliveries
  held,     \* outstanding generation tokens, with their start on the charge axis
  call,     \* each logical call
  meter,    \* the limit, admissions, and whether one was refused
  windows   \* settled crossings, in order

callVars == <<arm, world, held, call, meter, windows>>
-----------------------------------------------------------------------------
\* What a provider reports, as total input, the part read from a cache, and output.
Known(n) == IF n = Unreported THEN 0 ELSE n
OpenAIUsage(b) == [input |-> b.prompt, cached |-> b.cached, output |-> b.completion]
AnthropicUsage(b) ==
  [input |-> b.fresh + Known(b.write) + Known(b.read), cached |-> b.read, output |-> b.output]
Usages == {OpenAIUsage(b) : b \in OpenAI} \cup {AnthropicUsage(b) : b \in Anthropic}

Impossible(u) == Known(u.cached) > u.input

\* TotalInputCharge: a second per token that is not read from the cache.
Charge(u) ==
  FixedTerm + (IF Impossible(u) THEN 0 ELSE u.input - Known(u.cached)) + u.output

\* A crossing without usage costs the fixed term; uncharged modes resume by
\* nothing, except that ReAct bills the measured seconds under a wall clock.
Price(u) ==
  CASE arm.clock = "token_charged" -> IF u = Unreported THEN FixedTerm ELSE Charge(u)
    [] arm.clock = "wall" /\ arm.of = "react" -> 1
    [] OTHER -> 0

Freezes == arm.of = "react" \/ arm.clock # "wall"
-----------------------------------------------------------------------------
\* The charged environment.
Pauses == world.judge + Cardinality(DOMAIN held)
Frozen == Pauses > 0
CaughtUp(w) == [w EXCEPT !.told = {e \in Due : e <= w.now}, !.late = 0]
Larger(m, n) == IF m > n THEN m ELSE n

\* Mutant: a token is handed out without a look at the state of the world.
PauseAnyWorld(c) ==
  LET start == IF DOMAIN held = {} THEN world.now ELSE world.frontier
  IN /\ world' = [world EXCEPT !.frontier = start]
     /\ held' = [d \in DOMAIN held \cup {c} |-> IF d = c THEN start ELSE held[d]]

\* pause_generation: the first token takes the current time as its start, the
\* others the frontier; a stopped world hands out no token.
PauseGeneration(c) ==
  IF ~world.live THEN UNCHANGED <<world, held>>
  ELSE LET start == IF DOMAIN held = {} THEN world.now ELSE world.frontier
       IN /\ world' = [world EXCEPT !.frontier = start]
          /\ held' = [d \in DOMAIN held \cup {c} |-> IF d = c THEN start ELSE held[d]]

\* Mutant: the events a freeze skipped wait for the loop's next turn.
ResumeSilently(c, price) ==
  IF c \notin DOMAIN held THEN UNCHANGED <<world, held>>
  ELSE /\ held' = [d \in DOMAIN held \ {c} |-> held[d]]
       /\ world' = [world EXCEPT !.now = @ + price, !.frontier = Larger(@, held[c] + price)]

\* resume_generation: the price moves the clock at once, the last completion
\* thaws the world and delivers what the freeze skipped.
ResumeGeneration(c, price) ==
  IF c \notin DOMAIN held THEN UNCHANGED <<world, held>>
  ELSE LET w == [world EXCEPT !.now = @ + price, !.frontier = Larger(@, held[c] + price)]
       IN /\ held' = [d \in DOMAIN held \ {c} |-> held[d]]
          /\ world' = IF Pauses = 1 THEN CaughtUp(w) ELSE w

Second ==
  /\ world.live /\ ~Frozen /\ world.ran < MaxRun
  /\ world' = [world EXCEPT !.now = @ + 1, !.ran = @ + 1, !.late = @ + 1]
  /\ UNCHANGED <<arm, held, call, meter, windows>>

\* The environment's own loop, which waits while the world is frozen.
LoopTurns ==
  /\ ~Frozen /\ world.looping
  /\ world' = IF world.live THEN CaughtUp(world) ELSE [world EXCEPT !.looping = FALSE]
  /\ UNCHANGED <<arm, held, call, meter, windows>>

JudgePauses ==
  /\ world.live /\ world.judged < MaxJudge
  /\ world' = [world EXCEPT !.judge = @ + 1, !.judged = @ + 1]
  /\ UNCHANGED <<arm, held, call, meter, windows>>

JudgeResumes ==
  /\ world.judge > 0
  /\ LET w == [world EXCEPT !.judge = @ - 1] IN world' = IF Pauses = 1 THEN CaughtUp(w) ELSE w
  /\ UNCHANGED <<arm, held, call, meter, windows>>

\* stop, by a watchdog, a rejecting judge or the end of the timeline.
Stop ==
  /\ world.live
  /\ world' = [world EXCEPT !.live = FALSE, !.judge = 0] /\ held' = <<>>
  /\ UNCHANGED <<arm, call, meter, windows>>
-----------------------------------------------------------------------------
Set(c, at) == call' = [call EXCEPT ![c].at = at]
StartOf(c) == IF c \in DOMAIN held THEN held[c] ELSE Unreported

\* A crossing is over: its window on both axes, its price and its usage.
Settle(c, u, start) ==
  windows' = Append(windows, [of |-> c, began |-> call[c].began, ended |-> Len(windows) + 1,
                                 secs |-> Price(u), at |-> start, crossed |-> call[c].at # "refused"])

\* Mutant: one call more than the limit.
ExhaustedTooLate == meter.admitted > meter.limit
Exhausted == meter.admitted >= meter.limit

\* ClockedSoraLLMClient and MeteredLLMClient up to the await.  A repair is
\* another crossing of an admitted call.
Sends(c) ==
  /\ arm.of = "sora" /\ call[c].at \in {"idle", "repair"}
  /\ IF Freezes THEN PauseGeneration(c) ELSE UNCHANGED <<world, held>>
  /\ LET refused == call[c].at = "idle" /\ Exhausted
     IN /\ call' = [call EXCEPT ![c].at = IF refused THEN "refused" ELSE "flight",
                                ![c].began = Len(windows), ![c].start = StartOf(c)']
        /\ meter' = IF refused THEN [meter EXCEPT !.exceeded = TRUE]
                    ELSE IF call[c].at = "idle" THEN [meter EXCEPT !.admitted = @ + 1] ELSE meter
  /\ UNCHANGED <<arm, windows>>

\* The provider answers, fails or is cancelled, with or without usage, or the
\* meter refused the call; the answer may have to be repaired.
Returns(c, u) ==
  /\ arm.of = "sora"
  /\ call[c].at = "flight" \/ (call[c].at = "refused" /\ u = Unreported)
  /\ Settle(c, u, call[c].start) /\ UNCHANGED meter
  /\ ResumeGeneration(c, Price(u))
  /\ \E at \in {"over", "repair"} :
       /\ at = "repair" => call[c].at = "flight" /\ call[c].trips + 1 < MaxTrips
       /\ call' = [call EXCEPT ![c].at = at,
                      ![c].trips = IF call[c].at = "flight" THEN @ + 1 ELSE @]
  /\ UNCHANGED arm

\* pause_env of a ReAct step, its crossings, and resume_env.
OpenBracket(c) ==
  /\ arm.of = "react" /\ call[c].at = "idle" /\ meter.admitted < meter.limit
  /\ \A d \in Calls : call[d].at \in {"idle", "over"}
  /\ PauseGeneration(c)
  /\ call' = [call EXCEPT ![c].at = "bracket", ![c].start = StartOf(c)']
  /\ meter' = [meter EXCEPT !.admitted = @ + 1]
  /\ UNCHANGED <<arm, windows>>

SumOf(c) ==
  LET s[n \in 0..Len(windows)] ==
        IF n = 0 THEN 0 ELSE s[n - 1] + (IF c \in {windows[n].of, "all"} THEN windows[n].secs ELSE 0)
  IN s[Len(windows)]

\* Without a start of its own a crossing takes the engine's private cursor.
Cross(c, u) ==
  /\ call[c].at = "bracket" /\ call[c].trips < MaxTrips
  /\ LET alone == call[c].start = Unreported
     IN /\ Settle(c, u, IF alone THEN call[c].cursor ELSE call[c].start + SumOf(c))
        /\ call' = [d \in Calls |-> [call[d] EXCEPT
                      !.trips = IF d = c THEN @ + 1 ELSE @, !.began = Len(windows) + 1,
                      !.cursor = IF alone THEN @ + Price(u) ELSE @]]
  /\ UNCHANGED <<arm, world, held, meter>>

CloseBracket(c) ==
  /\ call[c].at = "bracket" /\ ResumeGeneration(c, SumOf(c)) /\ Set(c, "over")
  /\ UNCHANGED <<arm, meter, windows>>
-----------------------------------------------------------------------------
CallInit ==
  /\ arm \in [of : {"sora", "react"}, clock : {"token_charged", "generation_free", "wall"}]
  /\ world = [live |-> TRUE, looping |-> TRUE, now |-> 0, ran |-> 0, late |-> 0, judge |-> 0,
              judged |-> 0, frontier |-> 0, told |-> {e \in Due : e <= 0}]
  /\ held = <<>>
  /\ call = [c \in Calls |-> [at |-> "idle", trips |-> 0, began |-> 0, cursor |-> 0, start |-> Unreported]]
  /\ \E n \in 1..CallLimit :
       meter = [limit |-> n, admitted |-> 0, exceeded |-> FALSE]
  /\ windows = <<>>

Replies == Usages \cup {Unreported}
CallNext ==
  \/ Second \/ LoopTurns \/ JudgePauses \/ JudgeResumes \/ Stop
  \/ \E c \in Calls :
       \/ Sends(c) \/ OpenBracket(c) \/ CloseBracket(c)
       \/ \E u \in Replies : Returns(c, u) \/ Cross(c, u)

CallSpec == CallInit /\ [][CallNext]_callVars
-----------------------------------------------------------------------------
\* What charged_time_union_seconds is asked to unite, which it may only do with
\* crossings that lie on one axis in the order of the wall clock.
Windows == {windows[i] : i \in 1..Len(windows)}
Serial == \A v, w \in {x \in Windows : x.at # Unreported} :
            v.ended <= w.began => v.at + v.secs <= w.at

CallTypeOK ==
  /\ DOMAIN held \subseteq Calls /\ world.judge \in 0..MaxJudge /\ world.now \in Nat
  /\ \A c \in Calls : call[c].at \in {"idle", "flight", "refused", "repair", "bracket", "over"}
  /\ \A c \in Calls : call[c].trips \in 0..MaxTrips
  /\ meter.admitted \in 0..meter.limit /\ (meter.exceeded => meter.admitted = meter.limit)

\* While the world lives, its clock is the seconds it ran unfrozen plus the
\* price of every settled crossing; no more calls crossed than were admitted.
PaidFor ==
  /\ world.live /\ Freezes /\ (\A c \in Calls : call[c].at # "bracket")
       => world.now = world.ran + SumOf("all")
  /\ Cardinality({w.of : w \in {x \in Windows : x.crossed}}) <= meter.admitted

\* What a freeze skipped is delivered before the next call can freeze the world.
KeepsUp == world.live /\ ~Frozen => \A e \in Due \ world.told : e > world.now - world.late

\* A token is released with its crossing, whatever that cost, and by the stop.
HeldByCalls == \A c \in DOMAIN held : world.live /\ call[c].at \in {"flight", "refused", "bracket"}

(* Whatever the order in which overlapping calls and judge passes end, the *)
(* scenario clock is paid for and held only by calls that are out, a       *)
(* crossing that began after another settled starts on the parallel charge *)
(* axis where that one ended or later (of a ReAct run only until the world *)
(* stops), and a running world owes no event for longer than it ran since  *)
(* its last turn.                                                          *)
ScenarioClockHolds ==
  PaidFor /\ HeldByCalls /\ (arm.of = "sora" \/ world.live => Serial) /\ KeepsUp

(* Whichever call or judge pass hangs for good, the watchdog's stop frees  *)
(* the world and no later call freezes it again, so the environment's loop *)
(* is never left parked and always comes to its end.                       *)
WorldThaws == []<>(~Frozen) /\ [](~world.live => <>(~world.looping))
=============================================================================

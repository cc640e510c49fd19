# A verification of the sora runtime in TLA+

`sora` is an agent runtime: a single-threaded `asyncio` loop runs a *decision
cycle* over several concurrent *activities*, each pursuing one goal of the user
by executing a plan in a tool environment. Everything slow (a tool operation, a
model call) runs off the cycle as a task and comes back through a queue that one
phase of the cycle drains. The hard part of the program is not any single
handler; it is that each activity is touched by acks, model results, signals,
messages, timeouts and hard interrupts, in any order, at any of a handful of
points of the tick. These modules model that, check it with TLC on small
instances, and prove the central facts with TLAPS for all instances. Beside the
runtime the repository holds the benchmark it is measured with, whose hard part
is another one: sweeps that run for days, are killed and resumed, and must
neither pay twice nor print a number that is not a comparison. It is modelled
too.

All source paths are relative to the repository root (`src/sora/...` is the
package, `examples/gaia2/...` the benchmark); line numbers are those of
`PROJECT.json`.

## Inventory

| Component | State it keeps | Operations | Hard behaviour | Correct when |
|---|---|---|---|---|
| Decision cycle (`cycle.py`, `_strategies/contracts.py`) | one pending interrupt, the wake flag, the `TickResult` of the tick | `tick` (Observe, Reflect, Situate, Reason, Act with checkpoints between), `interrupt`, `_screen_signal` | interrupts raised at any await; ticks aborted at any checkpoint | an aborted tick leaves nothing half done; no operation is abandoned |
| Activity (`activity.py`) | state, wait, pending operation, pending inference, plan and intention stack, conditions, bindings, history, replan trail | `reset_for_replan`, `discard_inference`, `fail_condition_evaluation`, `frames_held_by_conditions` | many writers | the fields agree with the state |
| Observe (`_strategies/observe.py`, `inference.py`) | percept logs with sequence numbers, property baselines, attention | drains of acks, results, signals, messages; watchdog; suspend and resume; log trimming | late, lost and unexpected answers; evidence evicted before it is judged | nobody is resolved by somebody else's answer; nobody waits for something already gone |
| Reflect (`_strategies/reflect.py`) | background stores | replan on a rejected operation, complete, block | completion while work is owed | no success while something is owed |
| Situate (`_strategies/situate.py`) | rotation cursor, message cursor | create activities, load and unload manuals, pick | cursor moved by two parties | every request gets an activity; everyone gets a turn |
| Reason (`_strategies/reason.py`, `subgoals.py`, `parameters.py`) | none of its own | plan, ground, sub-goals, data operations, reconsideration, conditions, breakers | resuming after each off-cycle call | exactly one step is emitted; the breakers bound the loop |
| Conditions (`_strategies/conditions.py`, `types.py`) | per condition: marks into two logs, evidence, expiry flags; per activity: batch, verdict, queue of fired branches | lift, gate, judge, apply, pursue, expire, retire | evidence arriving during a judgement, failed judgements, deadlines, eviction | at most one branch runs; absence is claimed only when nothing came |
| Interrupts (`_strategies/interrupts.py`) | none | `handle` | several targets in different states | halts what it can and lets operations finish |
| Reconsideration (`_strategies/reconsideration.py`) | per activity: the signature its plan was made in, and where in the logs it looked last | four policies, a gate that compares signatures, a judge, a mechanical discard | world, agent and attention move the same signature | no commitment over a change the plan was not judged against |
| Relevance (`_strategies/relevance.py`) | budget and cursor | judge on idle ticks, amend an activity | off by default | not triggered twice for one change |
| Registry and attention (`environment.py`, `action.py`) | joined workspaces, focused and suppressed tools | join, leave, focus, unfocus; Observe reconciles | recomputed in every Observe, changed in between | seen implies attended implies joined |
| Memory (`memory.py`, `perception.py`) | logs with cursors, property stores, stores of plans and episodes | drain, trim, retrieve; render prompts, parse answers | answers that are readable in part | an answer nobody could read authorizes nothing |
| Model calls (`action.py`, `inference.py`, `llm.py`, `adapters/*_llm.py`) | admissions, usage, totals, rows, what was discarded | fire, repair once, meter, resolve, discard | an answer after the watchdog, after an interrupt, or twice | waste is what was paid and not used |
| Charged clock (`examples/gaia2/simulated_clock.py`, `llm_calls.py`) | pause tokens, the charge frontier, recorded windows | pause and resume by a price, stop | overlapping calls, the judge and a stop on one clock | time is paid for once; the world thaws |
| Run controller (`examples/gaia2/_runner.py`, `adapters/are_sim.py`) | stop reason, truncation, latched expiry | poll, watchdogs, teardown, scoring, terminal cause | three threads end the same run | a run cut short is not scored |
| Batch (`examples/gaia2/batch.py`) | rows, attestation, archives per directory and arm | settle the command line, guard, play, attest; report | directories of different days, edits, aborts | one headline is one sweep; nothing paid is lost |
| Campaign (`examples/gaia2/concurrent.py`, `checkpoints.py`) | plan, lock, markers, attempts, attestation of each job | schedule, play, publish, pause, resume | any process dies at any step | paid once; sealed is complete; it settles |
| Prompt campaign (`examples/gaia2/evaluation/`) | append-only ledger, pinned prompts and judge | run, resume, report | killed and reconfigured | within budget, one pin, deltas of pairs |
| Workspace adapters (`adapters/`) | sessions, queues | connect, invoke, observe | sessions lost | acks are delivered |
| Command line, bootstrap, diagnostics, scaffold | configuration | assembly, input and output | none of interest here | |

Interactions: the cycle calls the strategies in order; `InvokeAction` and the
model-call actions start tasks that push into `result_sink` and
`inference_sink`; adapters push into `signal_sink`, whose hook may raise an
interrupt on the pusher's stack; the transport queues messages; only Observe
drains. `WorkingMemory` is shared by every phase and mutated only inside a tick.
A benchmark run wraps the model clients in the charged clock and the meter, polls
the run controller, and leaves a row; a batch collects rows, a campaign schedules
batches one scenario at a time, and a report reads back what they left on disk.

## The modules

**`ActivityLifecycle`** is the abstract promise about one activity: seven places
and the eleven moves between them. There is no move from *operating* to
*paused*: an interrupt waits for the acknowledgement; there is one from
*deliberating* to *paused*: a model call has nothing to protect. At most one
activity is given a new call in a step.

**`DecisionCycle`** is the cycle. One variable per field that decides what may
happen next (the header lists them). A phase of the tick is an action, and
Observe, which has no await that yields between its drains, is cut into four
(`ObserveAcks`, `ObserveInferences`, `ObserveWaits`, `ObserveMessages`) because
each is a loop of its own. Correspondence:

| Action | Code |
|---|---|
| `Submit`, `OperationReturns`, `OperationRaises`, `InferenceReturns`, `InferenceHangs` | the transport, and the tasks started by `InvokeAction` and `InferAction` and its siblings |
| `Interrupt(target)` | `DecisionCycle.interrupt` and `_screen_signal`: overwrites the single slot, enabled at every boundary |
| `Preempt` | `_preempted` with `DefaultInterruptHandler.handle`; ends the tick |
| `ObserveAcks` | the `result_sink` loop |
| `ObserveInferences` | `_resolve_inferences`, `_expire_stalled_inferences`, `_resolve_inferences` |
| `ObserveWaits` | `_suspend_on_completion_signal`, `_resume_on_signal`, the retirement sweeps |
| `ObserveMessages` | the transport loop and `_resume_on_input`, with the cursor it claims |
| `Reflect` | `reflect` for every activity |
| `Situate` | activity creation, cursor, `RoundRobinActivitySelection.select` |
| `Reason` | one of five outcomes for the pick: starts a model call, commits a step, drops the plan, asks the user, runs out |
| `Act`, `NothingToAct`, `IdleTick` | `_act` and the early returns of the tick |

Pushes between ticks are allowed at one point only (`phase = "acks"`): only
Observe reads the queues, so a push in a later phase is not visible before.
Interrupts are allowed at every boundary, because every checkpoint reads the slot.

What is abstracted: the plan is the number of steps still to emit; the answer of
a tool or a model is chosen when Observe applies it; whether a signal or a
condition has come is a choice of `ObserveWaits` (the `Conditions` module is
about that choice); the counters behind the breakers; activities are identified
with their goals.

**`Conditions`** opens the choice that `DecisionCycle` leaves in `ObserveWaits`
and in Reason: the pending conditions of one activity. A plan step may declare
conditions ("when X is seen, do `then`; if the window closes first, do
`otherwise`"). Each keeps, for each of the two capped percept logs, a mark for
what was judged, one for what was recognized and one for where the last
judgement was fired from, and flags about a retry, a loss and its expiry; the
activity keeps the batch under judgement, the parked verdict and the queue of
branches to pursue. Three sites retire a condition (the clock, a judge asked
while nothing happens, and the verdict itself), each of which may owe an
`otherwise`, and a judgement may be in flight across any of them.

The model reduces the activity to its *place* (ready, terminated, waiting for its
conditions or for the user, or the kind of request in flight), the tick to eight
phases, and the plan to none, some steps or exhausted, over at most one parent
frame. A change in the world is the set of conditions it matches, so a log is a
sequence of sets; an entry the trim drops becomes the empty set, which keeps the
sequence numbers. Correspondence:

| Action | Code |
|---|---|
| `Drain` | a signal or a derived change is appended to its log |
| `ObserveAnswer` | `_resolve_inferences` and the ack loop: a verdict is parked, a plan installed, or a failure drops the plan |
| `Resume` | `_resume_on_signal` |
| `Expire`, `RetireQuiet` | `retire_expired`, `retire_quiet`, with `queue_expiry_branches` inside `_drop_retired` |
| `ObserveEnds` | `reconcile_retained_evidence`, the trim and `_resume_on_input` |
| `Abort` | a checkpoint that takes an interrupt: the tick ends and, when the interrupt is for this activity, it is paused and its model call discarded |
| `Reflect` | the memory stores may lift declarations; then complete, block or leave alone |
| `Unpicked`, `ReasonPass`, `Settle` | not picked; or `_apply_condition_verdict`, `_pursue_fired_condition`, `_evaluate_pending_conditions`, in the order Reason tries them |
| `Body` | the rest of `DefaultReasonStrategy.reason`: infer a plan, pop a frame, run out, run or abandon a step, enter a sub-goal |

Two history variables, read by no guard, let the properties speak of the past:
`unread` holds, per condition, the changes that matched while it was on watch and
that no readable verdict was about; `closedUnfired` the conditions whose
`otherwise` was committed.

What is abstracted: which windows the clock finds spent, what a judge answers
(any subset fires, any subset retires, the answer may be readable in part) and
which activity Situate picks are choices; marks that nothing can read again are
reset, so that states differing only in them are one; the order of the queue and
the pace of the judged sweep are left out; a condition is lifted at most once.

**`Perception`** opens what the cycle treats as a choice: what the agent sees.
Attention is three sets (joined, focused, suppressed); Observe reconciles it,
takes a snapshot, drains signals, derives the changes nobody announced, absorbs
the activity's own declared writes and trims the logs, in that order and in one
action. A plan carries an *anchor* (`reconsider_baseline`) and a *scope* (its
place in the logs); a guarded step is committed only past the checkpoint.

| Action | Code |
|---|---|
| `WorldMoves`, `Speaks` | a tool's property changes, announced or not; a signal that reports no change |
| `StepLands`, `Answered` | the effect of an operation, and the reply that is drained later |
| `Observe` | `DefaultObserveStrategy.observe`: `_reconcile_attention`, `_rebaseline`, `_signature_before_drain`, `_snapshot_properties`, `_derive_property_changes`, `_absorb_acked_writes`, retention |
| `FirePlan`, `ReusePlan` | `InferAction` with the baseline of the moment it fires; a plan from procedural memory, which has none |
| `Reason(step)` | `_reconsider` and the commitment: free, clear, judged, apart, check or invalid |
| `Focus`, `Unfocus`, `Join`, `Leave` | the attention actions, with Situate's filter |

A history variable, `due`, holds the changes that were seen and that the plan was
not judged against. What the code documents as its own to ignore is not put in
it: what a re-anchoring passes over, and what arrives in the drain of an own
write's ack. The absorption of such an ack also drops what is owed of a tool that
was out of view then; the last section tells what the code does with that one.

**`Inference`** is the life of a model call on the agent's side: fired, read,
perhaps repaired once, queued, resolved or discarded, and metered. An answer is a
form, a list of indices and whether it is clean JSON, mended JSON or junk; each
`Parse...` operator is what one parser of `memory.py` makes of it, with its own
fallback. `ObserveInferences` folds the queue with the watchdog's entries.

**`ModelCalls`** is the same call on the benchmark's side: crossings of the wire
that freeze the scenario's world and resume it by a price. `PauseGeneration` and
`ResumeGeneration` are the two halves of `simulated_clock.py`; `Sends` and
`Returns` are the S-ORA client, `OpenBracket`, `Cross` and `CloseBracket` the
baseline's step; `JudgePauses`, `JudgeResumes`, `Stop`, `LoopTurns` and `Second`
the environment.

**`RunVerdict`** is how one run ends. `Poll` is `_StopController`, `WatchesCap`
and `WatchesBoth` the watchdog threads of the two arms, `DurationPasses` and
`JudgeGate` the environment, `AgentReturns` a run that returns or crashes,
`Leave` the teardown with the latched expiry. `Score` is the return of
`validate()`, a synchronous call that only then lets `Write` put down the row;
`SkipScore` is a run that crashed and is not scored. `Cause` is `_terminal_cause`.

**`BatchArtifacts`** has the directories of a batch as a disk: `Ask` is the guard
of a command, `Open` archives what `--overwrite` replaces and opens the files,
`PlayCase` streams a row, `Seal` attests, `Abort` and `LoadFails` are the ways
out, `Edit` is a hand that changes a directory or marks it contaminated. `opened`
are the directories that hold an output.jsonl, be it empty, which is what an abort
before the first row leaves and what the pairing check looks for.
`Withheld` is `_headline_withheld`. **`BatchCommand`** is everything `main`
decides before that: which of the options are refused, which profile, clock and
label the rows will declare, and whether the other arm's rows may be paired with
them.

**`Campaign`** is the supervised sweep. A job is a worker's life from `Boot` to
`Publish`, one file operation a step, so that a death may fall between any two;
the supervisor is `Launch`, `PlanWritten`, `Unpause`, `Round`, `Reap`, `Finish`.
The lock is a file descriptor that workers inherit: `LockHeld` is about live
processes, not about the supervisor. `SupervisorDies`, `WorkerDies` and
`EverythingStops` are the crashes, `AskToPause` the drain marker.

**`PromptCampaign`** is `evaluation`'s run command: `Start` with every refusal,
`PlayEntry` and `AppendRecord`, `RunEnds`, and `RunDies`, which may cut the record
it was appending, or only its newline, so that the next record joins it on a line
that does not parse (`tail`); `EditPins` changes prompts and judge on disk at any time. `Printed` is when
the report shows a paired delta.

`MCDecisionCycle` adds the symmetry of activities; `CycleClaims` states what a
document says and the code does not do. `MCSweep` and `MCRecords` put modules that
share no state side by side: a behaviour moves the part that the variable `part`
names and leaves the others at their initial states, so one run explores each of
them separately under its own bounds.

## The runs

- `cycle_safety` (`CycleSafety.cfg`, pass; `TypeOK`, `AwaitedCallAlive`,
  `SelectionStaysReady`, `RejectedPlanNeverActs`, `OperationRunsToCompletion`,
  `ImplementsLifecycle`). Two activities, plans of two steps, three messages and
  one hard interrupt at any checkpoint: calls and the pick stay coherent, no
  operation is abandoned, and the cycle implements the life cycle.
- `cycle_faults` (`CycleFaults.cfg`, pass; `StateCoherence`, `PhaseDiscipline`,
  `NoResurrection`). Tools that raise, model calls that answer after their
  timeout and two overlapping interrupts: states and calls stay coherent, late
  answers resolve nobody and wake nobody, and each phase finds what the one
  before it must leave.
- `cycle_liveness` (`CycleLiveness.cfg`, pass; `InferenceEventuallyResolves`,
  `InterruptEventuallyDischarged`, `MessageEventuallyClaimed`). With a loop that
  keeps ticking and tools that answer, a hung model call ends, an interrupt is
  discharged and a received message is routed.
- `claim_message` (`ClaimMessage.cfg`, violation; `NoMessageSwallowed`). A
  request received in a tick that was aborted is claimed by the next message
  that resumes a paused activity, and no activity is ever created for it.
- `claim_alive` (`ClaimAlive.cfg`, violation; `MessageEventuallyClaimed`). After
  one tool call that raised, an agent-wide stop is never discharged and every
  later tick is aborted at its first checkpoint.
- `cond_evidence` (`CondEvidence.cfg`, pass; `NoStrandedWait`,
  `AtMostOneBranch`, `OtherwiseOnce`, `OtherwiseProvesAbsence`,
  `OneFiringPerChange`). Two conditions with both branches, one owned by the
  clock and one by a maintenance frame, a log that keeps one entry and two
  changes: judgements that fail or answer in part, evictions and early
  retirement never run two branches, claim a false absence, fire twice for one
  change or leave a wait nothing ends.
- `cond_pauses` (`CondPauses.cfg`, pass; `TypeOK`, `BatchAccounted`,
  `TerminationOwesNothing`, `WatchedFrameStays`, `JudgementsStop`,
  `EvidenceEventuallyJudged`). The same with one change and one hard interrupt
  that may discard any model call: a discarded judgement is accounted for,
  nothing owed is terminated over, a watched frame stays, every change is judged
  and judging stops.
- `claim_then` (`ClaimThen.cfg`, violation; `ThenStaysOwed`). A condition fires,
  its `then` leaves the queue to be planned, the planning call fails, and
  nothing records the branch any more.
- `perception` (`Perception.cfg`, pass; `NoStaleView`, `WriteGuarded`). Two
  tools, one of which the activity's plans name, joined at startup or later,
  under a judged and a mechanical policy, with logs that keep one entry:
  whatever the order of attention steps, world changes, signals, acks and
  Observe, only what is attended is seen and no guarded step is committed over a
  change its plan was not judged against.
- `records` (`Records.cfg`, pass; `RecordTypesOK`, `WasteIsUnused`,
  `UnreadAnswersAuthorizeNothing`, `HeadlineIsOneSweep`, `ArmsComparable`,
  `LedgerHolds`, `NothingPaidIsLost`). Two inferences of one activity, answered
  late, twice, unreadably or in part, beside a background judgement; a batch of
  two cases in three directories written, aborted, edited and overwritten; every
  command line over two profiles; a prompt campaign of two arms killed and
  resumed under a budget.
- `sweep` (`Sweep.cfg`, pass; `SweepTypesOK`, `PaidOnce`, `SealedIsComplete`,
  `ScenarioClockHolds`, `CutShortIsNotCounted`, `SweepSettles`, `WorldThaws`,
  `CapEndsTheSession`). A campaign of a shared job and the one that depends on
  it, with two crashes, pauses or provider failures at any step; two overlapping
  model calls of two crossings under each of the three clocks, with the judge,
  the end of the scenario and the watchdog's stop, any call or judge pass of
  which may hang for good; a run whose duration, wall clock and judge expire in
  any order.
- `claim_signature` (`ClaimSignature.cfg`, violation; `EqualMeansNothingMoved`).
  With the signal log full, a signal arrives, the trim restores the log's
  length, the signature is what it was, and a write is committed without the
  check.

Bounds. Two activities are enough for every interaction in the code, which is
pairwise: an interrupt that targets one and aborts the tick of another, an id
awaited by one and delivered for another, a pick and its rival. Plans of two steps let an operation be rejected with a step of the
same plan left. Three messages allow two requests and an answer to a paused
activity. Call ids are drawn from a pool of two per activity, which is one more
than can be awaited at once, and ids still in flight are never drawn again, as
with `uuid4`. `MaxStops` bounds the interrupts and `MaxLate` the model calls that
were given up and still answer; with `MaxLate = 0` only calls that hang time out.

For `Conditions`, two conditions with both branches are enough for what couples
conditions at all: they share a batch, a queue, a wait and a frame. One is owned
by the clock and the other by a judge; one is declared for a maintenance frame. A
log that keeps one entry makes the second change evict the first, before, during
or after its judgement. `cond_evidence` has the two changes that needs;
`cond_pauses`, whose liveness properties need the whole graph, has one change and
one hard interrupt. Each run has one kind of log: two logs together are covered by
the proofs, which hold for any.

For `Perception`, one tool that the plans name and one that they do not are what
the scope of a discard tells apart; a log that keeps one entry is full after the
first signal. One change of the world, one plain signal, one attention step and
two steps of the activity put every order of them around a planning call, an
operation and a check. The three kinds of steps (declared write, declared read,
unknown) and the two policies that behave differently are all taken.

For `Inference`, two inferences are a call and the one that replaces it, which is
what a late answer can be mistaken for; two supplied elements allow a list that
is complete, short, repeated or stray. For `ModelCalls`, two overlapping calls of
two crossings under each of the three clocks, each usage block once over what a
cache can hold and once below it. For `Campaign`, one capability has one job of each arm, so a job with a
dependency, two workers, two runs, and two mishaps: a crash and one in its
recovery. For `BatchArtifacts`, three directories give one pair and one
capability that the headline misses; two commands overwrite or follow one
another. For `BatchCommand`, two profiles and a third operating point that no
profile freezes. For `PromptCampaign`, three runs for two entries and a budget
that a run of unknown cost can exhaust.

Fairness of `DecisionCycle`. `WF_vars(Tick)`: `Agent.run` loops until it is stopped.
`SF_vars(Answered(a))` for each activity: a task that has been started either
answers or, for a model call, goes silent for good; it runs by itself, and strong
fairness only makes up for the model letting it push at one point of the tick.
Nothing else is assumed: no fairness of the user, of interrupts, of the choices
inside Reason, or of the model's answering.

Fairness of `Conditions` (`FairSpec`). `WF_vars(Tick)` as above.
`SF_vars(ObserveAnswer)`: a model call ends, because the watchdog of Observe ends
one that never answers; an operation has no such bound, so the property about
evidence exempts an activity that waits for one, or for the user.
`SF_vars(ReasonPass)`: an activity that is READY again and again is picked. Situate
rotates over the READY activities, which gives that to an activity that is alone;
with several there is a schedule in which one is passed over (see below), so for
several activities this is an assumption and not a consequence of the code.

Fairness of the calls (`CallFairness` of `MCSweep`). The environment's loop turns,
and the wall-clock watchdog, a thread of its own in either arm, stops the world in
the end. Nothing is asked of a provider, which may never answer
(inference.py:78-88, llm_calls.py:639-642), nor of the judge, which leaves the
environment paused for good when it raises (are_sim.py:300-302): `WorldThaws` has
to hold because the stop clears every pause and no later call can freeze the world
again.

Fairness of one run (`RunFairness` of `RunVerdict`). The watchdog keeps watching,
the session keeps polling, and what follows `validate()` is done (`SkipScore`,
`Write`). That the judge answers, in the run or while scoring, that an activity
finishes or that a limit is met is not assumed, so a run may stay in its scoring
for ever, and `CapEndsTheSession` says so:
the cap ends the agent phase, and the row follows unless `validate()` never returns.

Fairness of `Campaign`: a process that runs goes on, and an operator who launched
a sweep launches it again after it went down. Crashes are bounded by `MaxMishaps`,
as they are in any sweep that ends.

`Perception` and `MCRecords` have safety properties only. Deadlock is checked for
`perception`, as it is for the runs of the cycle whose configurations do not say
otherwise; a sweep and a batch really stop when they are done.

## What is proved

Each theorem holds for every value of the constants that satisfies the assumption
of its module: `CycleConstants`, `ConditionConstants`, `PerceptionConstants`,
`CampaignConstants`, `CallConstants`, `RunConstants`, `CommandConstants`,
`BatchConstants`, `CampaignBudget` and `InferenceConstants`. They say that the
bounds are numbers, that the enumerated inputs have their types, and that the
stand-ins for `None` are none of the values they stand beside; nothing in them
bounds the number of activities, calls, tools, jobs, cases, crashes or restarts
(the four workers of `CampaignConstants` are the limit of the command line).
Every safety invariant and every action property of the passing runs is the
subject of one of these theorems:

- `DecisionCycle_proofs!TypeCorrect` (`TypeOK`): Every reachable state of the
  cycle is well typed, for every set of activities, pool of call ids and bound.
- `DecisionCycle_proofs!StatesAreCoherent` (`StateCoherence`): An activity is
  RUNNING exactly while one call is pending for it and BLOCKED exactly while it
  records what it waits for.
- `DecisionCycle_proofs!PickStaysReady` (`SelectionStaysReady`): What Situate
  picked is still READY when Reason and Act use it.
- `DecisionCycle_proofs!PhasesAreDisciplined` (`PhaseDiscipline`): Each phase
  finds what the one before it must leave.
- `DecisionCycle_proofs!RejectionIsFinal` (`RejectedPlanNeverActs`): No step of
  a plan is committed after one of its operations was rejected.
- `DecisionCycle_proofs!AwaitedCallsStayAlive` (`AwaitedCallAlive`): If tools
  never raise, an awaited operation is running or acknowledged, and awaited by
  one activity only.
- `DecisionCycle_proofs!OperationsRunToCompletion`
  (`OperationRunsToCompletion`): A dispatched operation is awaited until its own
  ack is drained, whatever interrupts, messages and timeouts do.
- `DecisionCycle_proofs!CycleImplementsLifecycle` (`ImplementsLifecycle`): Every
  behaviour of the cycle is a behaviour of ActivityLifecycle under the mapping
  Place.
- `DecisionCycle_proofs!NothingResurrects` (`NoResurrection`): A paused activity
  moves only when a message is drained and a terminated one never does.
- `Conditions_proofs!ConditionTypes` (`TypeOK`): Every variable of the
  conditions keeps its type; a parked verdict only names conditions of its
  batch.
- `Conditions_proofs!BatchesAreAccounted` (`BatchAccounted`): The batch is empty
  exactly when no judgement is in flight and no verdict is parked.
- `Conditions_proofs!WaitsAreSound` (`NoStrandedWait`): An activity blocked on
  its conditions watches one, owes nothing only Reason could do, and Observe
  overlooks no unjudged change for it.
- `Conditions_proofs!TerminationIsClean` (`TerminationOwesNothing`): A
  terminated activity has no condition, judgement, verdict, branch or parent
  frame left.
- `Conditions_proofs!OneBranchOnly` (`AtMostOneBranch`): No condition commits
  both of its branches, and a committed `otherwise` is off watch and settled.
- `Conditions_proofs!OtherwiseIsCommittedOnce` (`OtherwiseOnce`): Whichever
  retirement site runs first, `otherwise` is queued at most once per condition.
- `Conditions_proofs!WatchedFramesStay` (`WatchedFrameStays`): No step leaves a
  maintenance frame while one of its own conditions is on watch.
- `Conditions_evidence!AbsenceIsProved` (`OtherwiseProvesAbsence`): `otherwise`
  is only committed when every change that matched during the window was
  answered, for any number of conditions, logs, changes and any retention.
- `Conditions_evidence!ChangesFireOnce` (`OneFiringPerChange`): A `then` is only
  queued by the verdict that first answers some change of its condition.
- `Perception_proofs!PerceptionHolds`: The inductive invariant of perception: a
  plan's baseline is older than what is in view, and every change the plan owes
  came after it and is told by a log beyond the plan's cursor, or was evicted.
- `Perception_proofs!NothingStaleIsSeen` (`NoStaleView`): Whatever the order of
  attention steps and Observe, what is seen is attended, and what is attended is
  joined and not suppressed.
- `Perception_proofs!WritesAreGuarded` (`WriteGuarded`): For any tools, plans,
  policies and retention, no guarded step is committed past a shut gate or a
  mechanical discard while its plan owes a change that was seen.
- `Campaign_proofs!CampaignIsTyped`: A sweep keeps its types through any number
  of crashes and resumptions.
- `Campaign_proofs!AcceptedIsPaidOnce` (`PaidOnce`): No accepted scenario run is
  played again and no two live workers own one job, however often processes die.
- `Campaign_proofs!AttestationIsComplete` (`SealedIsComplete`): A sealed job has
  an accepted attempt for every run it promises and rows derived from exactly
  those, and a dependent job leaves nothing on disk before its baseline is
  sealed.
- `Campaign_proofs!RefusedOnlyAfterCrash`: A relaunch refuses a root only where
  a crash cut the first write of the plan or of a job's marker
  (RefusalFollowsCrash): the second part of SweepSettles, for every sweep.
- `Sweep_proofs!RunIsTyped`: The run controller keeps its types, for any number
  of inferences.
- `Sweep_proofs!CutShortNeverCounts` (`CutShortIsNotCounted`): A run that a
  watchdog ended, or whose duration ended it under the agent, is never scored,
  whichever thread was first, and a scored run is not labelled a timeout.
- `Sweep_proofs!CallsAreTyped`: The charged clock and its calls keep their
  types, for any calls, limits and prices.
- `Sweep_proofs!ScenarioClockIsSound` (`ScenarioClockHolds`): For any calls,
  trips, limits and prices, the scenario's clock is the time that ran plus the
  price of every settled window and is held only by calls that are out, a later
  crossing starts on the charge axis where an earlier one ended, no more calls
  cross than were admitted, and no event is overdue in a running world.
- `Sweep_proofs!SweepIsItsParts`: Every behaviour of the composed sweep is a
  behaviour of each of its parts, so what is proved of a part holds in the
  composition.
- `Sweep_proofs!SweepIsTyped` (`SweepTypesOK`): The composed sweep is well
  typed.
- `Records_proofs!CommandIsTyped`: A batch command keeps its types.
- `Records_proofs!ArmsAreComparable` (`ArmsComparable`): For any profiles and
  operating points, tokens are charged only at the rates of the profile that
  ran, and two pinned arms share a clock and an operating point.
- `Records_proofs!BatchIsTyped`: A batch's directories keep their types.
- `Records_proofs!HeadlineHolds` (`HeadlineIsOneSweep`): For any directories,
  cases, commands and edits, a headline that is printed is over complete and
  unaltered directories of one clock, manifest and rendering.
- `Records_proofs!PaidArtifactsSurvive` (`NothingPaidIsLost`): No command and no
  failure of one loses rows that were not first moved to an archive.
- `Records_proofs!PromptIsTyped`: The prompt campaign keeps its types.
- `Records_proofs!LedgerBalances` (`LedgerHolds`): For any costs, budget and
  number of restarts, a ledger stays within its budget and under one pin, pays
  for no entry again after a record that completed it, and a printed delta is
  over the entries both arms completed.
- `Records_proofs!InferenceIsTyped`: The agent's side of model calls keeps its
  types, for any answers and reports.
- `Records_proofs!WasteIsAccounted` (`WasteIsUnused`): For any number of
  inferences, answered late or never, the totals are the sums of the rows, the
  waste is the cost of what was discarded, and nothing discarded was used.
- `Records_proofs!UnreadAuthorizesNothing` (`UnreadAnswersAuthorizeNothing`):
  For every answer to every kind of question, a ruling that acts rests on an
  answer of that very inference that was read and says so in every entry.
- `Records_proofs!RecordsAreTheirParts`: Every behaviour of the composed records
  is a behaviour of each of the four parts.
- `Records_proofs!RecordsAreTyped` (`RecordTypesOK`): The composed records are
  well typed.

The argument for the cycle (`DecisionCycle_proofs`).
`TypeOK` is proved first (`TypeInit`, `TypeStep`). The safety invariants are not
inductive one by one: that an activity has one pending call (`StateCoherence`)
needs the pick of Reason and Act to be READY (`SelectionStaysReady`), which
needs that `step` and `selected` are clean when Situate and Reason set them, and
the suspension pass needs its list of just resolved activities to be READY
(`PhaseDiscipline`). Their conjunction `IInv` is inductive; `CoherenceStep`,
`SelectionStep` and `DisciplineStep` prove one conjunct each, with one step per
action. `AwaitedCallsStayAlive` is inductive on top of `IInv` under the
hypothesis that tools do not raise (`claim_alive` shows that it is needed). The
refinement rests on `EveryStepMoves`: every step moves an activity along one of
seven moves in the terms of the code, which `PlaceStep` translates into places.

`Conditions_proofs` and `Conditions_evidence` prove every safety property of
`Conditions` from `ConditionConstants` alone: for any number of conditions and
changes, either or both logs, any retention and any number of interrupts. The
argument has two layers.

`Conditions_proofs` is about control and ownership. `TypeOK` says that a parked
verdict only names conditions of the batch, which is not inductive: a pause clears
the batch, so it must be known that a judgement in flight has parked nothing
(`ControlInv`). `Ownership` says who may be on which list: a deferred branch
belongs to a condition off watch, and no judgement is out over a condition whose
`otherwise` was committed; with it `AtMostOneBranch` carries itself. Their
conjunction `CInv` is inductive, and `NoStrandedWait` and `TerminationOwesNothing`
are on top of it. The delicate part of `NoStrandedWait` is that no gate opens
between the drain and Reason (`GateStaysShut`): the marks of a condition on watch
stand still there, the trim only removes entries, and a condition lifted then
starts behind the last one.

`Conditions_evidence` is about what was seen. `EvidenceInv` says where each unread
change of an undecided condition is: beyond its mark, or the one change the
judgement in flight was asked about (`UnreadInSight`, `EachIsAsked`); that a
rewound mark brings that change back unless the log dropped it; that a branch
deferred to a judgement waits for nothing but that judgement
(`DeferredIsAsked`); and that a condition off watch is decided or deferred
(`RetiredIsDecided`), without which the judged sweep, whose answer may name a
condition the clock has already retired, would decide it twice. One lemma per
kind of step preserves it (`TrimKeepsEvidence` for evictions,
`RewindKeepsEvidence` for failed, partial and discarded judgements), and
`AbsenceIsProved` and `ChangesFireOnce` read the two action properties off it.

The argument for perception (`Perception_proofs`). `WriteGuarded` speaks of the
moment of a commit, and the danger is made many steps before: an anchor or a
cursor taken at the wrong moment. The inductive invariant, `PerceptionInv`,
therefore follows both through every step. `Accounts` says of the *base* (the
anchor, or the signature the pending planning call or check was fired with) that
it is of an earlier perception: each property in it is no newer than what was
last seen, and strictly older for a tool that is owed (`MovedSince`); and of the
cursor that one of the logs tells of every tool that is owed beyond it, or has
evicted the entry (`ToldSince`). `Current` says that what was seen of a tool is
older than a change somebody else made since. `InView` says that after Observe
exactly what is attended is in view. Then a shut gate owes nothing
(`ShutGateOwesNothing`: equal signatures and a strictly older entry exclude each
other), and a mechanical discard that finds nothing relevant owes elsewhere
(`IrrelevantOwesElsewhere`: an evicted entry makes `relevant_change_since` answer
yes). Observe is proved apart, from the view it leaves (`WhatIsLeft`) and what it
adds to the debt (`NewsIsToldAndNewer`); the absorption of an own write may clear
the debt only because the anchor equals the signature before the drain.

The argument for the campaign (`Campaign_proofs`). Between two file operations a
worker acts on what it remembers of its job's directory, so the invariant says
that its memory is right: `KnowsDirectory` (the accepted attempts it collected are
those on disk, the attempt it plays is the last one and of a run that was not
accepted) and `KnowsSeal`. That the memory stays right needs that nobody else
writes the directory, which is the lock: `OneLaunchAtWork` says that whoever still
lives was started by the last launch, across deaths of the supervisor that leave
its workers holding the descriptor. `Waited` carries the order between a baseline
and the job that is paired with it. `PaidOnce`, `SealedIsComplete` and the safety
part of `SweepSettles` (`RefusalFollowsCrash`) are read off `CampaignInv`.

The arguments for one run and its calls (`Sweep_proofs`). For `RunVerdict` the
invariant is what an ending leaves behind (`EndingIsKnown`: a watchdog has flagged
before it stopped the environment, a timeline that stopped anything is past its
duration) and the order of the trial. For `ModelCalls` the equation of the clock
is not inductive: a bracket of the ReAct arm has windows that nobody has paid for
yet, so `PaidUp` subtracts them, which needs that one bracket at most is open and
that the tokens held are exactly the calls that are out (`HoldsKnown`). That calls
take their turn on the charge axis needs the start of each outstanding call to lie
behind every window it began after (`Ordered`). `Totals` has the lemmas about
running totals, which are recursive functions: appending one term adds it, and
totals that differ in one term differ by it. `SweepIsItsParts` shows that a
behaviour of `MCSweep` is one of each module, so the theorems hold in the
composition, which is what the run checks.

The arguments for what is kept (`Records_proofs`). `BatchArtifacts`: an attestation
is always of the rows that a complete run closed the directory with, in the order
of the manifest (`AttestsAClosing`), so what a headline accepts is unaltered; rows
are only in a directory that has its file (`RowsAreOnFile`), so a guard that finds
a directory empty loses nothing.
`PromptCampaign`: a running command knows its ledger (`CommandIsFunded`), and the
record about to be appended was reserved for while the money was there
(`RecordIsReserved`), whether or not its newline survives (`RecordWritten`). `Inference`: `MeterAddsUp` says that the totals
are the sums of the rows and that every inference not discarded has its cost as a
partial cost, so that discarding it moves exactly that cost; `Settled` and
`Awaits` say that a queued result is the only one of its inference and that a
waste has no outcome but an error; `Honest` says that a ruling is what its own
answer was read as, or what its kind makes of an error. `QueueApplied` carries
them through the fold over the queue and the watchdog's entries, and
`ReadAuthorizes` goes through every parser. `RecordsAreTheirParts` is the
composition.

Two corrections of the models came out of the proofs. `WriteGuarded` used to
count a change of a tool that was out of view when an own write was absorbed; no
invariant could be found, and with four attention steps TLC shows why (below). And
alternatives of a few definitions (`Decide`, `Checkpoint`, `Cause`, the parsers)
were written with overlapping `CASE` arms, of which TLC takes the first; they are
now chains of conditions in the order of the code, or have disjoint arms.

Only model-checked: the liveness properties (`InferenceEventuallyResolves`,
`InterruptEventuallyDischarged`, `MessageEventuallyClaimed`, `JudgementsStop`,
`EvidenceEventuallyJudged`, the first part of `SweepSettles`, `WorldThaws`,
`CapEndsTheSession`), because fairness and ENABLED are out of the prover's reach, and
the counterexamples of the four claims. `AwaitedCallsStayAlive` is proved under the
hypothesis that tools do not raise, as the run that checks `AwaitedCallAlive` has
it.

## Findings

- **NoMessageSwallowed** (`claim_message`, src/sora/_strategies/observe.py:488).
  When any message resumes an activity paused on an InputWait, the cursor moves
  to the end of the whole log, not of the batch just drained. A message received
  in an earlier tick that was aborted before Situate is claimed with it and no
  activity is created. docs/concepts/decision-cycle.md:11 says "if an unhandled
  message in working memory doesn't correspond to any existing activity, Situate
  creates one"; the comment at observe.py:485-486 speaks of claiming "this
  batch".
- **MessageEventuallyClaimed** (`claim_alive`, src/sora/action.py:297).
  InvokeAction._call has no except clause (its siblings for model calls have
  one), so a tool.invoke that raises pushes no ack and the activity stays
  RUNNING for ever. The default handler then keeps an agent-wide stop pending
  for ever and every later tick is aborted at its first checkpoint, so no
  message is ever routed again. docs/architecture/adrs/0020-hard-interrupt-and-
  await-input.md:62-63 says a stop means "halt current work, stay alive, await
  instruction."
- **ThenStaysOwed** (`claim_then`, src/sora/_strategies/reason.py:858).
  _pursue_fired_condition pops the firing and starts a planning call for its
  `then`; the goal is recorded in pursued_goals only when that call's plan is
  installed (inference.py:372-378). If the call fails or times out
  (inference.py:282), or an interrupt discards it, reset_for_replan drops the
  plan, the activity's own goal is planned again, and the branch is in no
  record: with its condition retired nothing can re-derive it. activity.py:67
  says pursued_goals holds "`{frame depth: goal}` for every fired condition's
  `then` still owed", and activity.py:76 that it is "Kept across
  `reset_for_replan` so the replacement plan serves the same goal".
- **EqualMeansNothingMoved** (`claim_signature`,
  src/sora/_strategies/reconsideration.py:149). _perception_signature takes
  len(wm.signals) for the signal log. Observe trims that log to
  _SIGNAL_RETENTION entries (observe.py:469-470), so once it is full a signal
  that moves no property leaves the signature as it was: the gate of _reconsider
  (reason.py:433) stays shut and a guarded write is committed without the
  policy's check, for the rest of the run. WorkingMemory.signals_appended
  (memory.py:217), which is monotonic, is not used. The docstring at
  reconsideration.py:152-153 says "Equal signatures mean nothing observable
  moved since the plan was baselined, so the re-check is skipped".

## Other divergences met while modelling

No run is kept for these; each was met by following the code, and the module named
has the steps of it.

- *A stop that an activity outlives* (`DecisionCycle`). ADR-0020 (lines 62-63)
  says a user stop means "halt current work, stay alive, await instruction". The
  default handler pauses READY activities and those in a model call
  (interrupts.py:102); one BLOCKED on a signal or a condition is neither pending
  nor paused. The stop is reported as discharged, a later Observe resumes that
  activity and it acts.
- *A committed step that is lost* (`DecisionCycle`). `step_index` advances in
  Reason (reason.py:376). When a memory backend suspends inside Reason, an
  interrupt for another activity can arrive there; the checkpoint drops the
  `TickResult` (cycle.py:152-153 says that it "carries no staleness") and the
  picked activity, which is not paused, goes on with the step after.
- *A rotation that is not fair* (`DecisionCycle`). decision-cycle.md:11 and the
  docstring at situate.py:29 call the default pick an anti-starvation rotation. It
  restarts at the oldest whenever the last pick has left the READY set
  (situate.py:47). With two older activities that each leave when they are picked
  and are back when the other one is, a third that stays READY is never picked.
- *A blind spot longer than a tick* (`Perception`). The docstring of `_rebaseline`
  (observe.py:724) calls it "a one-tick blind spot". A change that is seen while
  a planning call is in flight leaves the anchor alone; if another activity joins
  a workspace before the plan's first checkpoint, the new anchor takes that
  earlier change in and the write is committed as clear. `WriteGuarded` excuses
  it, as the code means attention to re-anchor.
- *An exact test that is not* (`Perception`). The docstring of
  `_absorb_acked_writes` (observe.py:796-799) calls its comparison "the exact
  test: equal means nothing moved between the anchor and this drain". The signature
  is over what is attended. A tool that was released before the anchor was taken
  changes, is focused by another activity and seen while the own write is in
  flight, and is released again before the ack is drained: the signature is then
  what it was. The ack is absorbed, the scope cursor moves past the change, and after the tool is
  attended again a mechanical discard no longer finds it. It takes four attention
  steps (`MaxShifts = 4`); `WriteGuarded` does not count a tool that is out of view
  at the absorption.
- *A transition nobody sees* (`Perception`). The docstring of `_rebaseline`
  (observe.py:727) lists an explicit focus or unfocus among the transitions that
  re-anchor. `FocusAction` and `UnfocusAction` change `focused_tools` themselves,
  so the next Observe finds the attended set as it should be, reports no transition
  (observe.py:710) and does not re-anchor; the plan pays a spurious check.
- *A cap that does not reach the scoring* (`RunVerdict`). The docstring of
  `_wall_deadline` says that it enforces "one wall deadline across everything inside
  the block, not just the agent phase" (_runner.py:275), and that "a judge blocked
  on the simulation is released the same way", by stopping the environment
  (_runner.py:283-284). `validate()` is a synchronous call after the session's
  teardown (_runner.py:615), which has stopped the environment already: when the
  deadline passes then, the watchdog sets its flag, stops what is stopped and
  retires (_runner.py:293-302), and the flag is only read once `validate()` has
  returned (_runner.py:630-641). A judge that never answers while it scores holds
  the run, and no row is written. `CapEndsTheSession` leaves out exactly this.
- *What a run ended by* (`RunVerdict`). The comment at _runner.py:630 says that "a
  deadline that fired during scoring is still a timeout"; when the session had
  already stopped for another reason the row keeps that reason as its cause and
  only its truncation tells of the deadline. `timeline_expired` (are_sim.py:383)
  is documented as true only when the loop exited for the duration; it compares
  the passed time, so it is also true of an environment that something else
  stopped and whose clock passed the duration before the teardown.
  `_terminal_inference_errors` (_runner.py:348) speaks of errors "after the last
  success"; it takes the order in which the calls were first recorded, so an error
  that came last of an earlier call is not among them. `CutShortIsNotCounted` holds
  in all three cases.
- *Refused calls on the charged axis* (`ModelCalls`). A call that the limit
  refuses leaves a window priced at the fixed term though it never crossed the
  wire, so the union of llm_calls.py:134 may count seconds that no model spent.
- *Pairs whose operating point is not compared* (`BatchCommand`). The docstring at
  batch.py:335-342 says that clock and operating point are checked before a pair is
  paid for; an arm that runs without a profile skips the second
  (batch.py:368).
- *An attempt without its attestation* (`Campaign`). The comment at
  checkpoints.py:183-184 says that "resume refuses rather than trusting partial
  proof" when the process dies between the two files of an attestation.
  `completed()` passes over an attempt that has none (checkpoints.py:128-131), and
  the scenario is played again, as evaluation/CONCURRENT.md:178 says; `Campaign`
  follows the code.
- *Resuming after a crash* (`Campaign`, `PromptCampaign`).
  evaluation/CONCURRENT.md:124-127 offers resume as the recovery after a crash. A
  crash between the temporary file of the first plan or of a job's marker and its
  rename leaves a directory that is neither fresh nor marked
  (checkpoints.py:95-97), and the root is refused: `SweepSettles` says that this
  is the only such case. A torn last line of checkpoint.jsonl makes the next
  `run` fail to parse it (cli.py:373); a last line that lost only its newline
  parses, and the record appended after it makes a line that does not, so the
  start after that is refused; and nothing locks that file between two
  commands.

## The plan

1. `ActivityLifecycle`, `DecisionCycle`, the claims and the proofs (done).
2. `Conditions`: pending conditions of one activity, its proofs and its evidence
   proofs (done).
3. `Perception`: attention, reconciliation, the change gate and its baselines (done).
4. `Inference` and `ModelCalls`: a model call from both of its sides (done).
5. The benchmark: `RunVerdict`, `BatchCommand`, `BatchArtifacts`, `Campaign`,
   `PromptCampaign` (done).
6. Proofs about `Perception`, `Inference`, `Campaign`, `RunVerdict`, `ModelCalls`,
   `BatchCommand`, `BatchArtifacts`, `PromptCampaign` and the two compositions
   (done).
7. `IntentionStack`: frames, pursued goals, depth cap, popping, the frames a live
   condition holds across a plan drop; invariants on depth and on what is owed.
8. Pure algorithms against reference definitions: `diff_values`, watch matching,
   data operations.
9. The session of the MCP adapter, the notification queue of the simulator, and
   the budget and cursor of undeclared relevance.

Abstract specifications worth stating: the life cycle (done); a condition as a
one-shot decision between its two branches; a logical call as one request with
exactly one outcome. Theorems worth proving next: those two refinements, and
inductive invariants of the modules above.

## Partly modelled, or not at all

- Decision cycle: The tick, its phases, checkpoints, interrupts and the external
  action. The hook that pushes a signal is modelled by the interrupt it may
  raise; start-up joins and shutdown of Agent.run are not modelled.
- Activity life cycle: States and waits, discard_inference and the plan drop of
  reset_for_replan; the fields of conditions, bindings and the replan trail are
  not in these modules.
- Observe: acks, inferences and messages: The drains, the watchdog, suspension
  and resumption; percepts, property snapshots, change derivation and attention
  are left out.
- Reflect: Rejection, completion and blocking; storing the episode is outside
  the cycle's state.
- Situate and activity selection: Activity creation and the round robin; loading
  manuals and pruning percepts are not modelled.
- Reason: plan execution: The outcomes of a Reason pass on the state of the
  activity; grounding, sub-goal frames, data operations and breakers are
  choices.
- External and internal actions: Off-cycle dispatch of operations and model
  calls. Workspace, focus, send and data actions do not touch the modelled
  state.
- Pending conditions: Lifting, gates, batched judgement, verdicts, retries,
  expiry branches, retention, retirement by clock and by judge, and the frames a
  condition holds. The pace of the judged sweep (interval and backoff),
  deadlines and watch matching are choices; a condition declared again after it
  was lifted is left out.
- Reconsideration and the change gate: The four policies, the signature gate,
  its baselines, the absorption of an activity's own writes, the re-anchoring
  and the scope of a mechanical discard. Messages, which the signature also
  counts, and the declared purpose of a step are left out.
- Attention and the environment registry: Join, leave, focus, unfocus, the two
  focus policies, suppression, and Situate's filter. Adapters that fail to
  connect, restore() from stored records and the uniqueness of ids are not
  modelled.
- Inference: model calls of the agent: Firing, the repair of an unreadable
  answer, every parser's reading of a whole, partial or unreadable answer, the
  watchdog, discarding, and what each ruling does. The text of prompts and
  answers is abstracted to what a parser tells apart.
- Memory stores: Working memory's logs, baselines and cursors are variables of
  the modules that use them. The file backend, the stores' queries and prompt
  rendering are text and files with one writer.
- Model clients and metering: Admission under the call limit, usage of both
  providers, the meter's totals, rows, waste and outcomes. HTTP retries inside
  the vendors' SDKs are external.
- Run controller and verdict: The stop controller, both watchdogs, teardown,
  scoring, terminal cause and truncation of both arms; of the simulator its
  stop, its pauses and its expiry. Preflight probes and the simulator's
  notification queue are not modelled.
- Batch artifacts, pairing and report: Guards, archives, rows, attestation,
  edits, pairing of arms, the headline and its reasons to be withheld, the
  command line's operating points and labels. Formatting of the report and the
  judge's recordings are left out.
- Prompt campaign: The run command with its refusals, ledger, budget and pins,
  and when a paired delta is printed. Neutral and synthetic campaigns,
  statistics of the report and price tables are not modelled.
- Undeclared relevance: Off by default; it would create activities that start
  BLOCKED on input. How its answer is read is in Inference; its budget and
  cursor are planned.
- Data operations and references: Pure functions on run-time values; planned as
  operators checked against a reference definition.
- Workspace adapters: Planned: the session life cycle of the MCP adapter and the
  notification queue of the simulator. In DecisionCycle a tool answers or
  raises; the part of are_sim.py that a benchmark run meets is in RunVerdict and
  ModelCalls.
- Prompts: Text sent to a model; no state.
- Configuration, command line and diagnostics: Assembly of the objects, terminal
  input and output, and event records; no protocol beyond the interrupt the
  command line raises.
- Other benchmark drivers: Offline analyses and single-run entry points: pure
  functions of recorded files, with no state of their own.

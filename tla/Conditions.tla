----------------------------- MODULE Conditions -----------------------------
(***************************************************************************)
(* The pending conditions of one activity (_strategies/conditions.py): how *)
(* a declared condition is lifted, matched against the retained percept    *)
(* logs, judged by a model call that may fail, fired, retired by a clock   *)
(* or a judge, and how the branch it owes (`then`, or `otherwise` for a    *)
(* window that closed unfired) is queued, deferred, refused and pursued.   *)
(*                                                                         *)
(* What is abstracted: a change is the set of conditions whose watch it    *)
(* matches; Activity.state, blocked_on and the kind of the pending request *)
(* are one variable, place (DecisionCycle.tla keeps them apart and proves  *)
(* them coherent); the plan is none, has steps or is exhausted; the stack  *)
(* has at most one parent frame; the order of Activity.condition_fired is  *)
(* left out; which windows the clock finds spent, what a judge answers and *)
(* which activity Situate picks are choices.  A rejected operation drops   *)
(* the plan when it is observed instead of at the next Reflect.            *)
(***************************************************************************)
EXTENDS Integers, Sequences, FiniteSets

CONSTANTS Waiter,      \* pending conditions, each lifted at most once
          Otherwise,   \* those that declare an `otherwise`
          Clocked,     \* those whose `until` the clock of the workspace owns
          Framed,      \* those declared for a maintenance frame
          Log,         \* the percept logs there are
          Retention,   \* entries a log keeps (256 and 1024 in the code)
          None,        \* "no verdict"
          MaxChanges,  \* bound: changes ever observed
          MaxStops     \* bound: ticks ever aborted by a hard interrupt

ASSUME ConditionConstants ==
  /\ Otherwise \subseteq Waiter /\ Clocked \subseteq Waiter /\ Framed \subseteq Waiter
  /\ Log \subseteq {"signals", "derived"}
  /\ Retention \in Nat /\ MaxChanges \in Nat /\ MaxStops \in Nat
  /\ None \notin [fired : SUBSET Waiter, retired : SUBSET Waiter, failed : BOOLEAN]

VARIABLES
  phase,       \* the next part of the tick to run
  place,       \* where the activity is: its state, its wait or its request
  body,        \* the active plan: "none", "steps" left, or "done"
  frame,       \* a parent frame is suspended on the stack
  governs,     \* conditions whose declared_by is the key of that frame
  log,         \* every entry of a log since the start; {} once it is dropped
  lifted,      \* conditions ever lifted: live ones and retired_conditions
  live,        \* Activity.pending_conditions
  evaluated,   \* evaluated_through, derived_through
  accepted,    \* accepted_signals, accepted_derived
  firedFrom,   \* fired_from_signals, fired_from_derived
  retried,     \* retried_after_failure
  lost,        \* dispatched_evidence_lost
  everFired,   \* ever_fired
  settled,     \* expiry_settled
  owed,        \* expiry_owed
  batch,       \* Activity.condition_batch
  verdict,     \* Activity.condition_verdict
  queue,       \* Activity.condition_fired: branches waiting to be pursued
  sweep,       \* conditions a retirement judgement was asked about
  stops,       \* ticks aborted so far (for the bound)
  unread,      \* history: changes of a window no answer was about yet
  closedUnfired \* history: conditions whose `otherwise` was committed

bodyVars    == <<body, frame, governs>>
watchVars   == <<lifted, live>>
markVars    == <<evaluated, accepted, firedFrom>>
retryVars   == <<retried, lost>>
expiryVars  == <<everFired, settled, owed>>
verdictVars == <<batch, verdict>>
historyVars == <<unread, closedUnfired>>
vars == <<phase, place, bodyVars, log, watchVars, markVars, retryVars,
          expiryVars, verdictVars, queue, sweep, stops, historyVars>>

Phases == {"drain", "expire", "quiet", "retain", "reflect", "reason", "settle", "body"}
Requests == {"operation", "plan", "subgoal", "then", "judging"}
Waits    == {"conditionWait", "inputWait"}
Branches == {"then", "otherwise"}

TypeOK ==
  /\ phase \in Phases
  /\ place \in {"ready", "terminated"} \cup Requests \cup Waits
  /\ body \in {"none", "steps", "done"} /\ frame \in BOOLEAN
  /\ governs \subseteq Framed
  /\ log \in [Log -> Seq(SUBSET Waiter)]
  /\ live \subseteq lifted /\ lifted \subseteq Waiter
  /\ evaluated \in [Waiter -> [Log -> Nat]]
  /\ accepted \in [Waiter -> [Log -> Nat]]
  /\ firedFrom \in [Waiter -> [Log -> Nat]]
  /\ retried \subseteq Waiter /\ lost \subseteq Waiter
  /\ everFired \subseteq Waiter /\ settled \subseteq Waiter /\ owed \subseteq Waiter
  /\ batch \subseteq Waiter
  /\ verdict = None \/ verdict \in [fired : SUBSET batch, retired : SUBSET batch,
                                    failed : BOOLEAN]
  /\ queue \in [Waiter \X Branches -> Nat]
  /\ sweep \subseteq Waiter
  /\ stops \in Nat
  /\ unread \in [Waiter -> SUBSET (Log \X Nat)]
  /\ closedUnfired \subseteq Waiter

Init ==
  /\ phase = "drain" /\ place = "ready"
  /\ body = "none" /\ frame = FALSE
  /\ governs = {}
  /\ log = [l \in Log |-> <<>>]
  /\ lifted = {} /\ live = {}
  /\ evaluated = [w \in Waiter |-> [l \in Log |-> 0]]
  /\ accepted = evaluated /\ firedFrom = evaluated
  /\ retried = {} /\ lost = {}
  /\ everFired = {} /\ settled = {} /\ owed = {}
  /\ batch = {} /\ verdict = None
  /\ queue = [k \in Waiter \X Branches |-> 0]
  /\ sweep = {} /\ stops = 0
  /\ unread = [w \in Waiter |-> {}] /\ closedUnfired = {}

-----------------------------------------------------------------------------
(* Matching.  Entry i of a log has the sequence number i - 1; a mark is    *)
(* the number of entries read, so the entries beyond it are the new ones.  *)

MatchesFrom(w, l, mark) == {i \in 1 .. Len(log[l]) : i > mark /\ w \in log[l][i]}

(* _match_signal, _match_derived.                                          *)
Matches(w, l) == MatchesFrom(w, l, evaluated[w][l])

OpenLogs(w) == {l \in Log : Matches(w, l) # {}}

(* _accepted_match: the first unjudged match, signals before derived.      *)
MatchLog(w) == IF "signals" \in OpenLogs(w) THEN "signals" ELSE "derived"
FirstMatch(w) ==
  CHOOSE i \in Matches(w, MatchLog(w)) : \A j \in Matches(w, MatchLog(w)) : i <= j

(* _eligible_conditions.                                                   *)
Eligible == {w \in live : OpenLogs(w) # {}}

(* _gate_open.                                                             *)
GateOpen(w) == OpenLogs(w) # {} \/ \E l \in Log : accepted[w][l] > evaluated[w][l]

(* The change a judgement in flight is about: the mark was moved onto it.  *)
Asked(w) == {<<l, evaluated[w][l]>> : l \in {m \in Log : firedFrom[w][m] < evaluated[w][m]}}

-----------------------------------------------------------------------------
(* Frames and the body.                                                    *)

Owes(q) == \E k \in Waiter \X Branches : q[k] > 0

(* frames_held_by_conditions: a condition of the frame itself is on watch. *)
Held(watched) == frame /\ governs \cap watched # {}

(* _conditions_hold_frame.                                                 *)
HoldsFrame(q, watched) == Owes(q) \/ verdict # None \/ Held(watched)

(* _body_exhausted.                                                        *)
BodyExhausted(q, watched) == body = "done" /\ (~frame \/ HoldsFrame(q, watched))

(* Slip: a discard clears the whole intention stack.                       *)
DropEveryFrame ==
  body' = "none" /\ frame' = FALSE /\ governs' = {}

(* Activity.reset_for_replan: the plan goes, a held frame stays.           *)
DropPlan ==
  /\ body' = "none"
  /\ frame' = Held(live)
  /\ governs' = IF Held(live) THEN governs ELSE {}

-----------------------------------------------------------------------------
(* Retirement and the branch it may owe.                                   *)

(* Slip: a branch decided at one site is decided again at another.         *)
UndecidedAgain(ws, fired) == (ws \cap Otherwise) \ fired

(* Those whose `otherwise` is neither committed nor refused yet.           *)
Undecided(ws, fired) == (ws \cap Otherwise) \ (fired \cup settled)
Declined(ws, fired)  == {w \in Undecided(ws, fired) : GateOpen(w)}

(* Slip: a judgement that is out does not defer the branch.                *)
NeverDeferred(ws, fired, outstanding) == {}

Deferred(ws, fired, outstanding) ==
  (Undecided(ws, fired) \ Declined(ws, fired)) \cap outstanding
Expiring(ws, fired, outstanding) ==
  Undecided(ws, fired) \ (Declined(ws, fired) \cup Deferred(ws, fired, outstanding))

Queued(thens, otherwises) ==
  LET added == (thens \X {"then"}) \cup (otherwises \X {"otherwise"})
  IN [k \in Waiter \X Branches |-> IF k \in added THEN queue[k] + 1 ELSE queue[k]]

(* Slip: a queued branch does not end the wait while others are watched.   *)
ReleaseIgnoringQueue(left, expiring) == left = {} \/ (frame /\ ~HoldsFrame(queue, left))

(* When _drop_retired ends a ConditionWait.                                *)
Releases(left, expiring) ==
  \/ left = {}
  \/ frame /\ ~HoldsFrame(Queued({}, expiring), left)
  \/ expiring # {}

(* ConditionRetirement._drop_retired, with queue_expiry_branches first.    *)
(* ws may name conditions another site has already retired.                *)
DropRetired(ws) ==
  LET expiring == Expiring(ws, everFired, batch)
      left == live \ ws
  IN /\ settled' = settled \cup Declined(ws, everFired) \cup expiring
     /\ owed' = owed \cup Deferred(ws, everFired, batch)
     /\ queue' = Queued({}, expiring)
     /\ closedUnfired' = closedUnfired \cup expiring
     /\ live' = left
     /\ place' = IF place = "conditionWait" /\ Releases(left, expiring) THEN "ready" ELSE place

(* Slip: the one retry is unbounded.                                       *)
AlwaysRewound(unanswered, watched) == (unanswered \cap watched) \ lost

(* Activity.fail_condition_evaluation: who gets the change back.           *)
Rewound(unanswered, watched) == (unanswered \cap watched) \ (lost \cup retried)

RewoundMarks(ws) == [w \in Waiter |-> IF w \in ws THEN firedFrom[w] ELSE evaluated[w]]

-----------------------------------------------------------------------------
(* Observe.                                                                *)

(* The conditions whose marks something still reads.                       *)
Known == live \cup batch \cup sweep

(* A change a tool announced, or one derived from two snapshots, is logged.*)
Drain(l, watched) ==
  /\ phase = "drain"
  /\ watched \subseteq live \cup batch
  /\ Cardinality({k \in Log \X (1 .. MaxChanges) : k[2] <= Len(log[k[1]])}) < MaxChanges
  /\ log' = [log EXCEPT ![l] = Append(@, watched)]
  /\ unread' = [w \in Waiter |-> IF w \in watched \cap live
                                 THEN unread[w] \cup {<<l, Len(log[l]) + 1>>} ELSE unread[w]]
  /\ UNCHANGED <<phase, place, bodyVars, watchVars, markVars, retryVars, expiryVars,
                 verdictVars, queue, sweep, stops, closedUnfired>>

(* The verdict of a judgement is parked for Reason.  A call that failed or *)
(* an answer that was only partly readable may still name conditions.      *)
JudgementArrives ==
  /\ place = "judging"
  /\ \E fired, retired \in SUBSET batch, failed \in BOOLEAN :
       verdict' = [fired |-> fired, retired |-> retired, failed |-> failed]
  /\ place' = "ready"
  /\ UNCHANGED <<bodyVars, batch>>

(* A plan, or the plan of a fired condition, is installed at this depth;   *)
(* the goal of the latter is recorded against the depth.                   *)
PlanArrives ==
  /\ place \in {"plan", "then"}
  /\ body' \in {"steps", "done"}
  /\ place' = "ready"
  /\ UNCHANGED <<frame, governs, verdictVars>>

(* The plan of a sub-goal is installed over a parent frame.                *)
SubPlanArrives ==
  /\ place = "subgoal"
  /\ body' \in {"steps", "done"}
  /\ frame' = TRUE
  /\ place' = "ready"
  /\ UNCHANGED <<governs, verdictVars>>

(* The answer of an operation (its ack, or the completion signal it waits  *)
(* for after that) or of a model call about the step.                      *)
StepAnswered ==
  /\ place = "operation"
  /\ place' = "ready"
  /\ UNCHANGED <<bodyVars, verdictVars>>

(* A failed planning or grounding call, or a rejected operation.           *)
RequestFails ==
  /\ place \in Requests \ {"judging"}
  /\ DropPlan
  /\ place' = "ready"
  /\ UNCHANGED verdictVars

Answers == JudgementArrives \/ PlanArrives \/ SubPlanArrives \/ StepAnswered \/ RequestFails

(* _resolve_inferences and the ack drain.                                  *)
ObserveAnswer ==
  /\ phase = "drain"
  /\ Answers
  /\ phase' = "expire"
  /\ UNCHANGED <<log, watchVars, markVars, retryVars, expiryVars, queue, sweep, stops,
                 historyVars>>

(* _resume_on_signal; or nothing came that the activity waits for.         *)
Resume ==
  /\ phase = "drain"
  /\ \/ place = "conditionWait" /\ Eligible # {} /\ place' = "ready"
     \/ ~(place = "conditionWait" /\ Eligible # {}) /\ UNCHANGED place
  /\ phase' = "expire"
  /\ UNCHANGED <<bodyVars, log, watchVars, markVars, retryVars, expiryVars, verdictVars,
                 queue, sweep, stops, historyVars>>

Retire(ws) ==
  IF ws = {} THEN UNCHANGED <<place, live, settled, owed, queue, closedUnfired>>
             ELSE DropRetired(ws)

(* retire_expired: the windows the clock finds spent.                      *)
Expire ==
  /\ phase = "expire"
  /\ \E spent \in SUBSET (live \cap Clocked) : Retire(spent)
  /\ phase' = "quiet"
  /\ UNCHANGED <<bodyVars, log, lifted, markVars, retryVars, everFired, verdictVars, sweep,
                 stops, unread>>

(* retire_quiet: a parked answer is applied to the conditions it was asked *)
(* about, however long ago; otherwise, when nothing is READY and nothing   *)
(* is in flight, a judgement of those the clock abstains on may start.     *)
RetireQuiet ==
  /\ phase = "quiet"
  /\ \/ \E done \in SUBSET sweep :
          /\ sweep # {}
          /\ Retire(IF place = "terminated" THEN {} ELSE done)
          /\ sweep' = {}
     \/ /\ sweep = {} /\ place \notin {"ready", "terminated"}
        /\ sweep' = live \ Clocked
        /\ Retire({})
     \/ UNCHANGED sweep /\ Retire({})
  /\ phase' = "retain"
  /\ UNCHANGED <<bodyVars, log, lifted, markVars, retryVars, everFired, verdictVars, stops,
                 unread>>

(* Slip: the scan starts at the evaluation mark even under a judgement.    *)
SinceEvaluated(w) == evaluated[w]

(* Where reconcile_retained_evidence starts reading for a condition.       *)
Since(w) == IF w \in batch THEN firedFrom[w] ELSE evaluated[w]

(* The matches of a live condition that this trim drops.                   *)
Dropped(w, l) == {i \in MatchesFrom(w, l, Since(w)[l]) : i <= Len(log[l]) - Retention}

LostUnjudged == {w \in live : \E l \in Log : \E i \in Dropped(w, l) : i > evaluated[w][l]}
LostDispatched == {w \in live : \E l \in Log : \E i \in Dropped(w, l) : i <= evaluated[w][l]}

Recognized(w, l) == {accepted[w][l]} \cup MatchesFrom(w, l, Since(w)[l])

Forget(marks, kept) == [w \in Waiter |-> IF w \in kept THEN marks[w] ELSE [l \in Log |-> 0]]

(* reconcile_retained_evidence and the trim.  Gate checks record what they *)
(* accept as well; for a live condition this scan records no less, and a   *)
(* retired one found its gate shut or was decided when it was dropped.     *)
Reconcile ==
  /\ accepted' = Forget([w \in Waiter |-> [l \in Log |->
       IF w \in live THEN CHOOSE i \in Recognized(w, l) : \A j \in Recognized(w, l) : j <= i
                     ELSE accepted[w][l]]], Known)
  /\ settled' = settled \cup LostUnjudged
  /\ lost' = (lost \cup LostDispatched) \cap Known
  /\ log' = [l \in Log |-> [i \in 1 .. Len(log[l]) |->
                              IF i <= Len(log[l]) - Retention THEN {} ELSE log[l][i]]]

(* Marks no list leads to any more are garbage; so are the marks a firing  *)
(* came from once its verdict is applied.                                  *)
Collect ==
  /\ evaluated' = Forget(evaluated, Known)
  /\ firedFrom' = Forget(firedFrom, batch)
  /\ retried' = retried \cap Known
  /\ owed' = owed \cap batch
  /\ unread' = [w \in Waiter |-> IF w \in Known THEN unread[w] ELSE {}]

(* The end of Observe: the trim, then _resume_on_input: a message for the  *)
(* paused activity drops its plan.                                         *)
ObserveEnds ==
  /\ phase = "retain"
  /\ Reconcile /\ Collect
  /\ \/ place = "inputWait" /\ place' = "ready" /\ DropPlan
     \/ UNCHANGED <<place, bodyVars>>
  /\ phase' = "reflect"
  /\ UNCHANGED <<watchVars, everFired, verdictVars, queue, sweep, stops, closedUnfired>>

-----------------------------------------------------------------------------
(* A checkpoint that honours a hard interrupt and abandons the tick.  The  *)
(* one after Reason has the effect of one after an Observe that found      *)
(* nothing.                                                                *)

(* Slips: a discarded judgement keeps its batch; every pause clears it.    *)
KeptBatch == batch
NoBatch == {}

(* The batch after Activity.discard_inference.                             *)
RemainingBatch == IF place = "judging" THEN {} ELSE batch

(* The interrupt is for this activity: its model call is discarded, a      *)
(* judgement counting as a failed one, and it awaits the user.             *)
Pause ==
  /\ place \in {"ready"} \cup (Requests \ {"operation"})
  /\ LET unanswered == IF place = "judging" THEN batch ELSE {}
         rewound == Rewound(unanswered, live)
     IN /\ evaluated' = RewoundMarks(rewound)
        /\ retried' = retried \cup rewound
        /\ settled' = settled \cup (unanswered \ rewound)
  /\ batch' = RemainingBatch
  /\ place' = "inputWait"

Abort ==
  /\ phase \in {"reflect", "reason"}
  /\ stops < MaxStops
  /\ stops' = stops + 1
  /\ Pause \/ UNCHANGED <<evaluated, retried, settled, batch, place>>
  /\ phase' = "drain"
  /\ UNCHANGED <<bodyVars, log, watchVars, accepted, firedFrom, lost, everFired, owed, verdict,
                 queue, sweep, historyVars>>

-----------------------------------------------------------------------------
(* Reflect.                                                                *)

(* _lifted: the window reads from where the logs now stand.                *)
Lift(new) ==
  LET marks(old) == [w \in Waiter |-> IF w \in new THEN [l \in Log |-> Len(log[l])] ELSE old[w]]
  IN /\ new \cap lifted = {}
     /\ lifted' = lifted \cup new
     /\ live' = live \cup new
     /\ evaluated' = marks(evaluated)
     /\ accepted' = marks(accepted)

(* Slips: a queued branch does not keep the activity, nor an open gate.    *)
OwesVerdictOnly == verdict # None \/ Eligible # {}
OwesCommittedOnly == Owes(queue) \/ verdict # None

(* What leaves an exhausted activity READY for Reason.                     *)
ReasonOwed == Owes(queue) \/ verdict # None \/ Eligible # {}

Reflect ==
  /\ phase = "reflect"
  /\ \E new \in SUBSET (Waiter \ lifted) :
       /\ new # {} => body # "none" /\ place # "terminated"
       /\ frame \/ new \cap Framed = {}
       /\ Lift(new)
       /\ governs' = governs \cup (new \cap Framed)
       /\ place' = IF place # "ready" \/ body # "done" \/ frame \/ ReasonOwed THEN place
                   ELSE IF live' # {} THEN "conditionWait" ELSE "terminated"
  /\ phase' = "reason"
  /\ UNCHANGED <<body, frame, log, firedFrom, retryVars, expiryVars, verdictVars,
                 queue, sweep, stops, historyVars>>

-----------------------------------------------------------------------------
(* Reason, for the activity when Situate picked it.                        *)

Unpicked ==
  /\ phase = "reason"
  /\ phase' = "drain"
  /\ UNCHANGED <<place, bodyVars, log, watchVars, markVars, retryVars, expiryVars,
                 verdictVars, queue, sweep, stops, historyVars>>

(* Slip: a partial answer gives every change of the batch back.            *)
NobodyAnswered == IF verdict.failed THEN {} ELSE batch

(* The judged conditions whose question was answered readably.             *)
Answered == IF verdict.failed THEN verdict.fired ELSE batch

(* _apply_condition_verdict, up to the choice of what to do next.          *)
ApplyVerdict ==
  /\ phase = "reason" /\ place = "ready"
  /\ verdict # None
  /\ LET retiring == verdict.retired \ Clocked
         rewound == Rewound(batch \ Answered, live \ retiring)
         fired == everFired \cup verdict.fired
         offered == IF verdict.failed THEN {} ELSE retiring \cup (batch \cap owed)
         expiring == Expiring(offered, fired, {})
     IN /\ everFired' = fired
        /\ live' = live \ retiring
        /\ retried' = (retried \ Answered) \cup rewound
        /\ lost' = lost \ Answered
        /\ evaluated' = RewoundMarks(rewound)
        /\ settled' = settled \cup ((batch \ Answered) \ rewound)
                              \cup Declined(offered, fired) \cup expiring
        /\ queue' = Queued(verdict.fired, expiring)
        /\ closedUnfired' = closedUnfired \cup expiring
  /\ unread' = [w \in Waiter |-> IF w \in batch \cap Answered THEN unread[w] \ Asked(w)
                                                             ELSE unread[w]]
  /\ batch' = {} /\ verdict' = None
  /\ phase' = "settle"
  /\ UNCHANGED <<place, bodyVars, log, lifted, accepted, firedFrom, owed, sweep, stops>>

(* _pursue_fired_condition: a queued branch is planned, unless a breaker   *)
(* stops it to ask the user.                                               *)
Pursue ==
  /\ \E k \in Waiter \X Branches :
       /\ queue[k] > 0
       /\ queue' = [queue EXCEPT ![k] = @ - 1]
  /\ place' \in {"then", "inputWait"}

(* The end of _apply_condition_verdict.                                    *)
Settle ==
  /\ phase = "settle"
  /\ \/ Owes(queue) /\ BodyExhausted(queue, live) /\ Pursue
     \/ /\ ~(Owes(queue) /\ BodyExhausted(queue, live))
        /\ place' = IF live # {} /\ BodyExhausted(queue, live) THEN "conditionWait" ELSE place
        /\ UNCHANGED queue
  /\ phase' = "drain"
  /\ UNCHANGED <<bodyVars, log, watchVars, markVars, retryVars, expiryVars, verdictVars,
                 sweep, stops, historyVars>>

PursueQueued ==
  /\ phase = "reason" /\ place = "ready"
  /\ verdict = None
  /\ Owes(queue) /\ BodyExhausted(queue, live)
  /\ Pursue
  /\ phase' = "drain"
  /\ UNCHANGED <<bodyVars, log, watchVars, markVars, retryVars, expiryVars, verdictVars,
                 sweep, stops, historyVars>>

(* _Match.marks_for: the mark passes the match and nothing else.           *)
MarksFor(w) == [evaluated[w] EXCEPT ![MatchLog(w)] = FirstMatch(w)]

(* _evaluate_pending_conditions.                                           *)
Evaluate ==
  /\ phase = "reason" /\ place = "ready"
  /\ verdict = None /\ ~(Owes(queue) /\ BodyExhausted(queue, live))
  /\ Eligible # {}
  /\ firedFrom' = [w \in Waiter |-> IF w \in Eligible THEN evaluated[w] ELSE firedFrom[w]]
  /\ evaluated' = [w \in Waiter |-> IF w \in Eligible THEN MarksFor(w) ELSE evaluated[w]]
  /\ batch' = Eligible
  /\ place' = "judging"
  /\ phase' = "drain"
  /\ UNCHANGED <<bodyVars, log, watchVars, accepted, retryVars, expiryVars, verdict,
                 queue, sweep, stops, historyVars>>

(* Nothing about conditions comes first: the body of the plan.             *)
EnterBody ==
  /\ phase = "reason" /\ place = "ready"
  /\ verdict = None /\ ~(Owes(queue) /\ BodyExhausted(queue, live))
  /\ Eligible = {}
  /\ phase' = "body"
  /\ UNCHANGED <<place, bodyVars, log, watchVars, markVars, retryVars, expiryVars,
                 verdictVars, queue, sweep, stops, historyVars>>

(* Without a plan: one is inferred, or the replan breaker asks the user.   *)
InferPlan ==
  /\ body = "none"
  /\ place' \in {"plan", "inputWait"}
  /\ phase' = "drain"
  /\ UNCHANGED <<bodyVars, lifted, live, evaluated, accepted>>

(* Or one is found in procedural memory, which is only asked for the goal  *)
(* of the activity itself.                                                 *)
PlanFound ==
  /\ body = "none" /\ ~frame
  /\ body' \in {"steps", "done"}
  /\ UNCHANGED <<phase, place, frame, governs, lifted, live, evaluated, accepted>>

(* The plan over the parent is exhausted and nothing holds it: pop.        *)
PopFrame ==
  /\ body = "done" /\ frame /\ ~HoldsFrame(queue, live)
  /\ body' \in {"steps", "done"}
  /\ frame' = FALSE /\ governs' = {}
  /\ UNCHANGED <<phase, place, lifted, live, evaluated, accepted>>

(* Nothing left to run: wait for the conditions, or leave it to Reflect.   *)
RunOut ==
  /\ BodyExhausted(queue, live)
  /\ place' = IF live # {} /\ ~Owes(queue) THEN "conditionWait" ELSE place
  /\ phase' = "drain"
  /\ UNCHANGED <<body, frame, governs, lifted, live, evaluated, accepted>>

(* A step is emitted and run, data operations before it included; or a     *)
(* grounding, a selection or a revalidation is asked of the model first:   *)
(* that call too is "operation" here, since its discard by a pause has the *)
(* effect of its answer and then a pause.                                  *)
RunStep ==
  /\ body = "steps"
  /\ body' \in {"steps", "done"}
  /\ place' \in {"ready", "operation"}
  /\ phase' = "drain"
  /\ UNCHANGED <<frame, governs, lifted, live, evaluated, accepted>>

(* The plan cannot work, or the world outran it.                           *)
AbandonPlan ==
  /\ body = "steps"
  /\ DropPlan
  /\ phase' = "drain"
  /\ UNCHANGED <<place, lifted, live, evaluated, accepted>>

(* A mechanical sub-goal step declares conditions for the current frame    *)
(* and expands in place.                                                   *)
FanOut ==
  /\ body = "steps"
  /\ body' \in {"steps", "done"}
  /\ \E new \in SUBSET (Waiter \ lifted) :
       /\ new # {} /\ (frame \/ new \cap Framed = {})
       /\ Lift(new)
       /\ governs' = governs \cup (new \cap Framed)
  /\ UNCHANGED <<phase, place, frame>>

(* A deliberative sub-goal step is planned, its conditions on watch from   *)
(* now on and owned by the frame it will push; or a breaker asks the user. *)
EnterSubGoal ==
  /\ body = "steps" /\ ~frame
  /\ \/ /\ \E new \in SUBSET (Framed \ lifted) : Lift(new) /\ governs' = new
        /\ place' = "subgoal"
     \/ place' = "inputWait" /\ UNCHANGED <<governs, lifted, live, evaluated, accepted>>
  /\ phase' = "drain"
  /\ UNCHANGED <<body, frame>>

Body ==
  /\ phase = "body"
  /\ \/ InferPlan \/ PlanFound \/ PopFrame \/ RunOut \/ RunStep \/ AbandonPlan \/ FanOut
     \/ EnterSubGoal
  /\ UNCHANGED <<log, firedFrom, retryVars, expiryVars, verdictVars, queue, sweep, stops,
                 historyVars>>

-----------------------------------------------------------------------------

ReasonPass == ApplyVerdict \/ PursueQueued \/ Evaluate \/ EnterBody

Tick == \/ ObserveAnswer \/ Resume \/ Expire \/ RetireQuiet \/ ObserveEnds
        \/ Reflect \/ Unpicked \/ ReasonPass \/ Settle \/ Body

Next == Tick \/ Abort \/ \E l \in Log, watched \in SUBSET Waiter : Drain(l, watched)

Spec == Init /\ [][Next]_vars

(* The loop keeps ticking, a call ends (the watchdog ends one that never   *)
(* answers), and a READY activity is picked again and again.               *)
Fairness == WF_vars(Tick) /\ SF_vars(ObserveAnswer) /\ SF_vars(ReasonPass)

FairSpec == Spec /\ Fairness

-----------------------------------------------------------------------------
(* The batch is what a judgement is out about: it is empty exactly when    *)
(* none is in flight and no verdict is parked, whatever a pause discards.  *)
BatchAccounted == batch = {} <=> place # "judging" /\ verdict = None

(* An activity BLOCKED on its conditions has something left to wait for,   *)
(* owes nothing that only Reason could do, is not kept from a frame it     *)
(* should pop, and no unjudged change for it is overlooked by Observe.     *)
NoStrandedWait ==
  place = "conditionWait" =>
    /\ live # {} /\ ~Owes(queue) /\ verdict = None
    /\ BodyExhausted(queue, live)
    /\ phase \in {"expire", "quiet", "retain", "reflect", "reason"} => Eligible = {}

(* A terminated activity owes nothing: no condition on watch, no judgement *)
(* out, no verdict parked, no branch queued, no parent to return to.       *)
TerminationOwesNothing ==
  place = "terminated" =>
    live = {} /\ batch = {} /\ verdict = None /\ ~Owes(queue) /\ ~frame

(* No condition commits both its branches, and `otherwise` at most once,   *)
(* whichever of the three retirement sites ran, in whatever order.         *)
AtMostOneBranch ==
  /\ everFired \cap closedUnfired = {}
  /\ closedUnfired \subseteq settled \ live

OtherwiseOnce ==
  [][\A w \in Waiter : queue'[<<w, "otherwise">>] > queue[<<w, "otherwise">>] =>
        w \notin closedUnfired]_vars

(* `otherwise` asserts an absence: it is committed only when every change  *)
(* that matched during the window was answered readably, though changes    *)
(* are evicted, answers fail, calls are discarded and windows close early. *)
OtherwiseProvesAbsence ==
  [][\A w \in closedUnfired' \ closedUnfired : unread'[w] = {}]_vars

(* A firing answers a change no earlier verdict answered: one reply is     *)
(* never acted on twice, even after a partial answer and its retry.        *)
OneFiringPerChange ==
  [][\A w \in Waiter : queue'[<<w, "then">>] > queue[<<w, "then">>] =>
        unread'[w] # unread[w] /\ unread'[w] \subseteq unread[w]]_vars

(* A maintenance frame is only left once none of its own conditions is on  *)
(* watch, whether its plan ran out, failed or was discarded.               *)
WatchedFrameStays == [][frame /\ ~frame' => governs \cap live = {}]_vars

(* A world that stops changing stops costing judgements, however often the *)
(* calls fail or are discarded.                                            *)
JudgementsStop == <>[](place # "judging")

(* An unjudged change of a condition on watch is judged, lost to retention *)
(* or outlived by its window, unless the activity waits for the user or    *)
(* for an operation.                                                       *)
EvidenceEventuallyJudged ==
  \A w \in Waiter : w \in Eligible ~> \/ w \notin Eligible \/ place = "judging"
                                      \/ place \in {"inputWait", "operation"}

(* activity.py:67 speaks of a record "for every fired condition's `then`   *)
(* still owed": a branch taken from the queue is planned or owed again.    *)
ThenStaysOwed ==
  [][place = "then" /\ place' # "then" => body' # "none" \/ Owes(queue')]_vars
=============================================================================

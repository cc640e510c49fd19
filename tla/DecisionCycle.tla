--------------------------- MODULE DecisionCycle ---------------------------
(***************************************************************************)
(* The decision cycle of the runtime (src/src/sora/cycle.py) with the      *)
(* default phase strategies, seen as a scheduler of concurrent activities. *)
(* One tick runs Observe, Reflect, Situate, Reason and Act; between two    *)
(* phases there is a checkpoint that honours a pending hard interrupt and  *)
(* abandons the tick.  Operations and model calls run off the cycle and    *)
(* come back through sinks that only Observe drains.                       *)
(*                                                                         *)
(* What is kept: every assignment to Activity.state, blocked_on,           *)
(* pending_operation, pending_inference and last_operation, the plan and   *)
(* its step_index, the message log and its cursor, the interrupt slot, the *)
(* round-robin cursor and the TickResult.                                  *)
(* What is abstracted: a plan is the number of steps it has still to emit, *)
(* those of its parent frames included (a sub-goal counts for the steps it *)
(* expands to, a data operation for none); the counters of the replanning  *)
(* and sub-goal breakers; what a model or a tool answers is chosen when    *)
(* Observe applies the answer; whether a signal or condition a BLOCKED     *)
(* activity waits for has arrived is chosen by Observe (Conditions.tla     *)
(* models that decision); an activity is identified with its goal, because *)
(* Situate keeps goals distinct.                                           *)
(***************************************************************************)
EXTENDS Integers, Sequences, FiniteSets

CONSTANTS Activity,       \* activities, identified with their goals
          Call,           \* ids of operations and inferences (uuid4 in the code)
          None,           \* "no value"
          Everyone,       \* the target of an agent-wide interrupt
          MaxSteps,       \* bound: steps of a plan
          MaxMessages,    \* bound: messages the user ever sends
          MaxStops,       \* bound: hard interrupts ever raised
          MaxLate,        \* bound: timed-out model calls still to answer
          ToolsMayRaise   \* whether Tool.invoke may end in an exception

ASSUME CycleConstants ==
  /\ None \notin Activity \cup Call
  /\ Everyone \notin Activity
  /\ Everyone # None
  /\ MaxSteps \in Nat \ {0}
  /\ MaxMessages \in Nat
  /\ MaxStops \in Nat
  /\ MaxLate \in Nat
  /\ ToolsMayRaise \in BOOLEAN

VARIABLES
  phase,        \* the next part of the tick to run
  state,        \* Activity.state; "absent" before the activity is created
  blockedOn,    \* the variant of Activity.blocked_on
  pendingOp,    \* id in Activity.pending_operation
  pendingInf,   \* id in Activity.pending_inference
  plan,         \* steps left on the intention stack; NoPlan without a plan
  failed,       \* Activity.last_operation is a rejected acknowledgement
  justResolved, \* Observe's local list of activities whose call was accepted
  opTasks,      \* operations running off the cycle
  infTasks,     \* model calls running off the cycle that will still answer
  acks,         \* DecisionCycle.result_sink
  results,      \* DecisionCycle.inference_sink
  inbox,        \* messages queued in the transport
  messages,     \* WorkingMemory.messages
  cursor,       \* WorkingMemory.messages_cursor
  born,         \* index of the message an activity was created from, or 0
  lastId,       \* RoundRobinActivitySelection._last_id
  selected,     \* TickResult.activity
  step,         \* TickResult.step is a committed step
  interrupt,    \* the target of DecisionCycle._interrupt, None when unset
  stops         \* interrupts raised so far (for the bound)

lifeVars    == <<state, blockedOn, pendingOp, pendingInf>>
planVars    == <<plan, failed>>
taskVars    == <<opTasks, infTasks>>
sinkVars    == <<acks, results>>
messageVars == <<messages, cursor, born>>
tickVars    == <<lastId, selected, step>>
stopVars    == <<interrupt, stops>>
vars == <<phase, lifeVars, planVars, justResolved, taskVars, sinkVars, inbox,
          messageVars, tickVars, stopVars>>

NoPlan == -1
Phases == {"acks", "inferences", "waits", "messages",
           "reflect", "situate", "reason", "act"}

(* Between two ticks and at the phase boundaries another task may run.     *)
(* Observe's drains read queues without suspending.                        *)
Boundaries == {"acks", "reflect", "situate", "reason", "act"}

TypeOK ==
  /\ phase \in Phases
  /\ state \in [Activity -> {"absent", "ready", "running", "blocked", "terminated"}]
  /\ blockedOn \in [Activity -> {"nothing", "signal", "condition", "input"}]
  /\ pendingOp \in [Activity -> Call \cup {None}]
  /\ pendingInf \in [Activity -> Call \cup {None}]
  /\ plan \in [Activity -> {NoPlan} \cup (0 .. MaxSteps)]
  /\ failed \in [Activity -> BOOLEAN]
  /\ justResolved \subseteq Activity
  /\ opTasks \subseteq Call /\ infTasks \subseteq Call
  /\ acks \subseteq Call /\ results \subseteq Call
  /\ inbox \in Seq(Activity) /\ messages \in Seq(Activity)
  /\ cursor \in Nat
  /\ born \in [Activity -> Nat]
  /\ lastId \in Activity \cup {None}
  /\ selected \in Activity \cup {None}
  /\ step \in BOOLEAN
  /\ interrupt \in Activity \cup {None, Everyone}
  /\ stops \in Nat

Ready   == {a \in Activity : state[a] = "ready"}
Running == {a \in Activity : state[a] = "running"}
Awaited == {pendingOp[a] : a \in Activity} \cup {pendingInf[a] : a \in Activity}
FreshCalls == Call \ (Awaited \cup opTasks \cup infTasks \cup acks \cup results)
NewCall == CHOOSE c \in FreshCalls : TRUE

Init ==
  /\ phase = "acks"
  /\ state = [a \in Activity |-> "absent"]
  /\ blockedOn = [a \in Activity |-> "nothing"]
  /\ pendingOp = [a \in Activity |-> None]
  /\ pendingInf = [a \in Activity |-> None]
  /\ plan = [a \in Activity |-> NoPlan]
  /\ failed = [a \in Activity |-> FALSE]
  /\ justResolved = {}
  /\ opTasks = {} /\ infTasks = {} /\ acks = {} /\ results = {}
  /\ inbox = <<>> /\ messages = <<>> /\ cursor = 0
  /\ born = [a \in Activity |-> 0]
  /\ lastId = None /\ selected = None /\ step = FALSE
  /\ interrupt = None /\ stops = 0

-----------------------------------------------------------------------------
(* What happens off the cycle.  Only Observe reads the sinks and the       *)
(* transport, so a push during a later phase is the same as one between    *)
(* that tick and the next; interrupts are read at every checkpoint.        *)

(* The user (or a peer) submits a message to the transport.                *)
Submit(g) ==
  /\ phase = "acks"
  /\ Len(messages) + Len(inbox) < MaxMessages
  /\ inbox' = Append(inbox, g)
  /\ UNCHANGED <<phase, lifeVars, planVars, justResolved, taskVars, sinkVars,
                 messageVars, tickVars, stopVars>>

(* InvokeAction._call: the tool answers and the ack is pushed.             *)
OperationReturns(c) ==
  /\ phase = "acks"
  /\ c \in opTasks
  /\ opTasks' = opTasks \ {c}
  /\ acks' = acks \cup {c}
  /\ UNCHANGED <<phase, lifeVars, planVars, justResolved, infTasks, results,
                 inbox, messageVars, tickVars, stopVars>>

(* InvokeAction._call has no except clause: an exception out of            *)
(* tool.invoke ends the task and pushes nothing.                           *)
OperationRaises(c) ==
  /\ phase = "acks"
  /\ ToolsMayRaise
  /\ c \in opTasks
  /\ opTasks' = opTasks \ {c}
  /\ UNCHANGED <<phase, lifeVars, planVars, justResolved, infTasks, sinkVars,
                 inbox, messageVars, tickVars, stopVars>>

(* InferAction._call and its siblings: a result or an error is pushed.     *)
InferenceReturns(c) ==
  /\ phase = "acks"
  /\ c \in infTasks
  /\ infTasks' = infTasks \ {c}
  /\ results' = results \cup {c}
  /\ UNCHANGED <<phase, lifeVars, planVars, justResolved, opTasks, acks,
                 inbox, messageVars, tickVars, stopVars>>

(* The provider never answers: nothing will ever be pushed for this call.  *)
InferenceHangs(c) ==
  /\ phase = "acks"
  /\ c \in infTasks
  /\ infTasks' = infTasks \ {c}
  /\ UNCHANGED <<phase, lifeVars, planVars, justResolved, opTasks, sinkVars,
                 inbox, messageVars, tickVars, stopVars>>

(* DecisionCycle.interrupt, and _screen_signal when the policy promotes a  *)
(* signal: the single slot is overwritten.                                 *)
Interrupt(target) ==
  /\ phase \in Boundaries
  /\ stops < MaxStops
  /\ interrupt' = target
  /\ stops' = stops + 1
  /\ UNCHANGED <<phase, lifeVars, planVars, justResolved, taskVars, sinkVars,
                 inbox, messageVars, tickVars>>

-----------------------------------------------------------------------------
(* Observe.  Four parts of one phase, with no checkpoint between them.     *)

(* Slip: the drain matches on the state alone, not on the id.              *)
ResolvedByAnyAck == {a \in Running : pendingOp[a] # None /\ acks # {}}

(* An ack resolves the activity that is RUNNING on its id and no other.    *)
Resolved == {a \in Running : pendingOp[a] \in acks}

(* The result_sink drain; an ack nobody awaits is discarded.               *)
ObserveAcks ==
  /\ phase = "acks"
  /\ \E rejected \in SUBSET acks :
       LET accepted == {a \in Resolved : pendingOp[a] \notin rejected}
       IN /\ rejected \subseteq {pendingOp[a] : a \in Resolved}
          /\ state' = [a \in Activity |-> IF a \in Resolved THEN "ready" ELSE state[a]]
          /\ pendingOp' = [a \in Activity |-> IF a \in Resolved THEN None ELSE pendingOp[a]]
          /\ failed' = [a \in Activity |->
                          IF a \in Resolved THEN a \notin accepted ELSE failed[a]]
          /\ justResolved' = accepted
  /\ acks' = {}
  /\ phase' = "inferences"
  /\ UNCHANGED <<blockedOn, pendingInf, plan, taskVars, results,
                 inbox, messageVars, tickVars, stopVars>>

(* Calls whose answer nobody awaits any more.                              *)
Late == (infTasks \cup results) \ {pendingInf[a] : a \in Activity}

(* Slip: a result is applied whatever became of its activity.              *)
ConcludedBySubject == {a \in Activity : results # {} /\ born[a] # 0}

(* A result resolves the activity that is RUNNING on its id and no other.  *)
Concluded == {a \in Running : pendingInf[a] \in results}

(* Slip: no watchdog.                                                      *)
NeverExpired == {}

(* The requests the watchdog is sure to find past their deadline.          *)
Expired == {a \in Running : /\ pendingInf[a] # None
                            /\ pendingInf[a] \notin infTasks \cup results}

(* _resolve_inferences, _expire_stalled_inferences, _resolve_inferences:   *)
(* answers that match are applied, then requests past the deadline are     *)
(* failed.  A call that hangs is past its deadline some time; a slow one   *)
(* may be, and then still answers later.  Whatever the kind of the call,   *)
(* the plan ends up installed, kept (a grounding, a verdict, an error that *)
(* degrades in place) or dropped by reset_for_replan with a defect.        *)
ObserveInferences ==
  /\ phase = "inferences"
  /\ \E slow \in SUBSET {a \in Running : pendingInf[a] \in infTasks} :
       LET resolved == Concluded \cup Expired \cup slow
       IN /\ Cardinality(slow) + Cardinality(Late) <= MaxLate \/ slow = {}
          /\ state' = [a \in Activity |-> IF a \in resolved THEN "ready" ELSE state[a]]
          /\ pendingInf' = [a \in Activity |-> IF a \in resolved THEN None ELSE pendingInf[a]]
          /\ \E p \in [resolved -> {NoPlan} \cup (0 .. MaxSteps)] :
               plan' = [a \in Activity |-> IF a \in resolved THEN p[a] ELSE plan[a]]
  /\ results' = {}
  /\ phase' = "waits"
  /\ UNCHANGED <<blockedOn, pendingOp, failed, justResolved, taskVars, acks,
                 inbox, messageVars, tickVars, stopVars>>

(* The activities _resume_on_signal and the sweeps look at.                *)
Waiting == {a \in Activity : blockedOn[a] \in {"signal", "condition"}}

(* _suspend_on_completion_signal, _resume_on_signal and the retirement     *)
(* sweeps: an activity whose operation was just accepted may have to wait  *)
(* for its completion signal, and a wait whose signal or condition came    *)
(* (or whose conditions were retired) ends.                                *)
ObserveWaits ==
  /\ phase = "waits"
  /\ \E suspended \in SUBSET justResolved, resumed \in SUBSET Waiting :
       /\ state' = [a \in Activity |->
                      IF a \in suspended THEN "blocked"
                      ELSE IF a \in resumed THEN "ready" ELSE state[a]]
       /\ blockedOn' = [a \in Activity |->
                      IF a \in suspended THEN "signal"
                      ELSE IF a \in resumed THEN "nothing" ELSE blockedOn[a]]
  /\ justResolved' = {}
  /\ phase' = "messages"
  /\ UNCHANGED <<pendingOp, pendingInf, planVars, taskVars, sinkVars, inbox,
                 messageVars, tickVars, stopVars>>

(* The activities _resume_on_input wakes.                                  *)
AwaitingInput == {a \in Activity : blockedOn[a] = "input"}

(* The transport drain and _resume_on_input: any message wakes every       *)
(* activity paused on an InputWait, drops its plan and claims the log.     *)
ObserveMessages ==
  /\ phase = "messages"
  /\ messages' = messages \o inbox
  /\ inbox' = <<>>
  /\ LET resumed == IF inbox = <<>> THEN {} ELSE AwaitingInput
     IN /\ state' = [a \in Activity |-> IF a \in resumed THEN "ready" ELSE state[a]]
        /\ blockedOn' = [a \in Activity |-> IF a \in resumed THEN "nothing" ELSE blockedOn[a]]
        /\ plan' = [a \in Activity |-> IF a \in resumed THEN NoPlan ELSE plan[a]]
        /\ cursor' = IF resumed # {} THEN Len(messages') ELSE cursor
  /\ phase' = "reflect"
  /\ UNCHANGED <<pendingOp, pendingInf, failed, justResolved, taskVars, sinkVars,
                 born, tickVars, stopVars>>

-----------------------------------------------------------------------------
(* The tick is over: its TickResult is dropped.                            *)
EndTick == phase' = "acks" /\ selected' = None /\ step' = FALSE

(* The checkpoint.                                                         *)

Targets(target) == IF target = Everyone THEN Activity ELSE {target} \cap Activity

(* Slips: an operation in flight does not hold the request; a target that  *)
(* is already paused holds it.                                             *)
NothingInFlight(target) == {}
NotYetReady(target) == {a \in Targets(target) : state[a] \in {"running", "blocked"}}

(* The targets whose operation the handler leaves to finish.               *)
InFlight(target) ==
  {a \in Targets(target) : state[a] = "running" /\ pendingOp[a] # None}

(* Slip: a pause leaves the pending inference in place.                    *)
KeepInference(paused) == pendingInf

(* Activity.discard_inference of the paused activities.                    *)
DiscardInference(paused) ==
  [a \in Activity |-> IF a \in paused THEN None ELSE pendingInf[a]]

(* DecisionCycle._preempted with DefaultInterruptHandler.handle: a target  *)
(* that is READY or only deliberating is paused, one whose operation is in *)
(* flight keeps the request pending, any other is left as it is.  The tick *)
(* is abandoned and with it the TickResult.                                *)
Preempt ==
  /\ phase \in Boundaries \ {"acks"}
  /\ interrupt # None
  /\ LET paused == {a \in Targets(interrupt) \ InFlight(interrupt) :
                      state[a] \in {"ready", "running"}}
     IN /\ state' = [a \in Activity |-> IF a \in paused THEN "blocked" ELSE state[a]]
        /\ blockedOn' = [a \in Activity |-> IF a \in paused THEN "input" ELSE blockedOn[a]]
        /\ pendingInf' = DiscardInference(paused)
        /\ interrupt' = IF InFlight(interrupt) = {} THEN None ELSE interrupt
  /\ EndTick
  /\ UNCHANGED <<pendingOp, planVars, justResolved, taskVars, sinkVars, inbox,
                 messageVars, lastId, stops>>

-----------------------------------------------------------------------------
(* Slip: the failure is judged only when the plan has run out.             *)
RejectedAtTheEnd == {a \in Ready : failed[a] /\ plan[a] = 0}

(* DefaultReflectStrategy.failed.                                          *)
Rejected == {a \in Ready : failed[a]}

(* Reflect, for every activity: a rejected operation drops the plan; an    *)
(* exhausted plan ends the activity, unless it still owes work for a       *)
(* condition (stays READY) or waits for one (BLOCKED).                     *)
Reflect ==
  /\ phase = "reflect"
  /\ interrupt = None
  /\ LET exhausted == {a \in Ready \ Rejected : plan[a] = 0}
     IN \E ended \in SUBSET exhausted : \E waiting \in SUBSET (exhausted \ ended) :
          /\ state' = [a \in Activity |->
                IF a \in ended THEN "terminated"
                ELSE IF a \in waiting THEN "blocked" ELSE state[a]]
          /\ blockedOn' = [a \in Activity |->
                IF a \in waiting THEN "condition" ELSE blockedOn[a]]
          /\ plan' = [a \in Activity |-> IF a \in Rejected THEN NoPlan ELSE plan[a]]
          /\ failed' = [a \in Activity |-> a \notin Rejected /\ failed[a]]
  /\ phase' = "situate"
  /\ UNCHANGED <<pendingOp, pendingInf, justResolved, taskVars, sinkVars, inbox,
                 messageVars, tickVars, stopVars>>

(* RoundRobinActivitySelection.select over the ready set in creation order *)
(* (rank): the one after the last pick, wrapping, or the oldest when the   *)
(* last pick is not in the ready set.                                      *)
IsPick(a, ready, rank) ==
  LET later == {b \in ready : lastId \in ready /\ rank[b] > rank[lastId]}
      among == IF later # {} THEN later ELSE ready
  IN a \in among /\ \A b \in among : rank[a] <= rank[b]

(* Slip: the scheduler is offered the activities awaiting a call, too.     *)
AllLive(newborn) == Ready \cup Running \cup newborn

(* The ready set Situate recomputes after creating activities.             *)
Schedulable(newborn) == Ready \cup newborn

(* Situate: every unclaimed message whose goal no activity has creates     *)
(* one, the log is claimed, then the scheduler picks among the ready.      *)
Situate ==
  /\ phase = "situate"
  /\ interrupt = None
  /\ LET unclaimed == (cursor + 1) .. Len(messages)
         newborn == {messages[i] : i \in unclaimed} \cap {g \in Activity : born[g] = 0}
     IN \E first \in [newborn -> unclaimed] :
          LET rank  == [a \in Activity |-> IF a \in newborn THEN first[a] ELSE born[a]]
              ready == Schedulable(newborn)
          IN /\ \A g \in newborn :
                   /\ messages[first[g]] = g
                   /\ \A i \in unclaimed : i < first[g] => messages[i] # g
             /\ born' = rank
             /\ state' = [a \in Activity |-> IF a \in newborn THEN "ready" ELSE state[a]]
             /\ IF ready = {}
                  THEN selected' = None /\ UNCHANGED lastId
                  ELSE \E a \in ready : /\ IsPick(a, ready, rank)
                                        /\ selected' = a /\ lastId' = a
  /\ cursor' = Len(messages)
  /\ phase' = "reason"
  /\ UNCHANGED <<blockedOn, pendingOp, pendingInf, planVars, justResolved, taskVars,
                 sinkVars, inbox, messages, step, stopVars>>

(* No activity was selected: the idle tick.                                *)
IdleTick ==
  /\ phase = "reason"
  /\ interrupt = None
  /\ selected = None
  /\ EndTick
  /\ UNCHANGED <<lifeVars, planVars, justResolved, taskVars, sinkVars, inbox,
                 messageVars, lastId, stopVars>>

(* Reason starts a model call for the selected activity: a plan, the plan  *)
(* of a sub-goal or of a fired condition, a grounding, a selection, a      *)
(* revalidation or a judgement of conditions.                              *)
ReasonInfers(a) ==
  /\ FreshCalls # {}
  /\ state' = [state EXCEPT ![a] = "running"]
  /\ pendingInf' = [pendingInf EXCEPT ![a] = NewCall]
  /\ infTasks' = infTasks \cup {NewCall}
  /\ UNCHANGED <<blockedOn, pendingOp, plan, step>>

(* Slip: no test that the plan has a step left.                            *)
CommitsPastTheEnd(a) ==
  /\ plan' = [plan EXCEPT ![a] = plan[a] - 1]
  /\ step' = TRUE
  /\ UNCHANGED <<lifeVars, infTasks>>

(* Reason emits a step and moves step_index past it; with no plan, one     *)
(* found in procedural memory is installed first.                          *)
ReasonCommits(a) ==
  /\ \E n \in 1 .. MaxSteps :
       /\ plan[a] \in {n, NoPlan}
       /\ plan' = [plan EXCEPT ![a] = n - 1]
  /\ step' = TRUE
  /\ UNCHANGED <<lifeVars, infTasks>>

(* A plan (or one just found in memory) that cannot work, or that the      *)
(* world outran: reset_for_replan.                                         *)
ReasonDropsPlan(a) ==
  /\ plan' = [plan EXCEPT ![a] = NoPlan]
  /\ UNCHANGED <<lifeVars, infTasks, step>>

(* A breaker stops the activity and asks the user: planning again would    *)
(* loop, or a sub-goal restates a goal or nests too deep.                  *)
ReasonAwaitsInput(a) ==
  /\ state' = [state EXCEPT ![a] = "blocked"]
  /\ blockedOn' = [blockedOn EXCEPT ![a] = "input"]
  /\ UNCHANGED <<pendingOp, pendingInf, plan, infTasks, step>>

(* The body is exhausted (or a plan found in memory is empty): wait for    *)
(* the pending conditions, or leave the rest to Reflect.                   *)
ReasonRunsOut(a) ==
  /\ plan[a] \in {0, NoPlan}
  /\ plan' = [plan EXCEPT ![a] = 0]
  /\ \E waiting \in BOOLEAN :
       /\ state' = [state EXCEPT ![a] = IF waiting THEN "blocked" ELSE "ready"]
       /\ blockedOn' = [blockedOn EXCEPT ![a] = IF waiting THEN "condition" ELSE "nothing"]
  /\ UNCHANGED <<pendingOp, pendingInf, infTasks, step>>

Reason ==
  /\ phase = "reason"
  /\ interrupt = None
  /\ \E a \in Activity :
       /\ a = selected
       /\ \/ ReasonInfers(a)
          \/ ReasonCommits(a)
          \/ ReasonDropsPlan(a)
          \/ ReasonAwaitsInput(a)
          \/ ReasonRunsOut(a)
  /\ phase' = "act"
  /\ UNCHANGED <<failed, justResolved, opTasks, sinkVars, inbox, messageVars,
                 lastId, selected, stopVars>>

(* Reason committed no step: the tick ends.                                *)
NothingToAct ==
  /\ phase = "act"
  /\ interrupt = None
  /\ ~step
  /\ EndTick
  /\ UNCHANGED <<lifeVars, planVars, justResolved, taskVars, sinkVars, inbox,
                 messageVars, lastId, stopVars>>

(* Slip: the task of the call is not kept and never runs.                  *)
InvokeWithoutTask(a) ==
  /\ FreshCalls # {}
  /\ state' = [state EXCEPT ![a] = "running"]
  /\ pendingOp' = [pendingOp EXCEPT ![a] = NewCall]
  /\ UNCHANGED opTasks

(* InvokeAction.execute.                                                   *)
Invoke(a) ==
  /\ FreshCalls # {}
  /\ state' = [state EXCEPT ![a] = "running"]
  /\ pendingOp' = [pendingOp EXCEPT ![a] = NewCall]
  /\ opTasks' = opTasks \cup {NewCall}

(* DecisionCycle._act: an invocation, or an external action (or a skip)    *)
(* that leaves the activity READY.                                         *)
Act ==
  /\ phase = "act"
  /\ interrupt = None
  /\ step
  /\ \/ \E a \in Activity : a = selected /\ Invoke(a)
     \/ UNCHANGED <<state, pendingOp, opTasks>>
  /\ EndTick
  /\ UNCHANGED <<blockedOn, pendingInf, planVars, justResolved, infTasks, sinkVars,
                 inbox, messageVars, lastId, stopVars>>

-----------------------------------------------------------------------------

Tick == \/ ObserveAcks \/ ObserveInferences \/ ObserveWaits \/ ObserveMessages
        \/ Preempt \/ Reflect \/ Situate \/ IdleTick \/ Reason
        \/ NothingToAct \/ Act

OffCycle == \/ \E g \in Activity : Submit(g)
            \/ \E c \in Call : \/ OperationReturns(c)
                               \/ OperationRaises(c)
                               \/ InferenceReturns(c)
                               \/ InferenceHangs(c)
            \/ \E t \in Activity \cup {Everyone} : Interrupt(t)

Next == Tick \/ OffCycle

Spec == Init /\ [][Next]_vars

(* The agent loop never stops ticking, a tool answers, and a model call    *)
(* either answers or does not: nothing is assumed of the model itself.     *)
(* Answers are pushed between ticks only, so the weak fairness of a task   *)
(* that runs by itself is strong fairness here.                            *)
Answered(a) == \/ OperationReturns(pendingOp[a])
               \/ InferenceReturns(pendingInf[a])
               \/ InferenceHangs(pendingInf[a])

Fairness ==
  /\ WF_vars(Tick)
  /\ \A a \in Activity : SF_vars(Answered(a))

FairSpec == Spec /\ Fairness

-----------------------------------------------------------------------------
(* An activity is RUNNING exactly when one call is pending for it, never   *)
(* two, and BLOCKED exactly when it records what it waits for, whatever    *)
(* the order of acks, results, timeouts and interrupts.                    *)
StateCoherence ==
  \A a \in Activity :
    /\ state[a] = "running" <=> (pendingOp[a] # None \/ pendingInf[a] # None)
    /\ pendingOp[a] = None \/ pendingInf[a] = None
    /\ state[a] = "blocked" <=> blockedOn[a] # "nothing"

(* A RUNNING operation is never forgotten: its task runs or its ack is in  *)
(* the sink, and no other activity awaits the same id.                     *)
AwaitedCallAlive ==
  \A a \in Activity : pendingOp[a] # None =>
    /\ pendingOp[a] \in opTasks \cup acks
    /\ \A b \in Activity \ {a} : pendingOp[b] # pendingOp[a]

(* The activity Situate picked is still READY when Reason and Act use the  *)
(* pick, phases and checkpoints later.                                     *)
SelectionStaysReady ==
  selected # None /\ (phase = "reason" \/ (phase = "act" /\ step))
    => state[selected] = "ready"

(* After a rejected operation no step of the plan that issued it is ever   *)
(* committed, even if checkpoints aborted every tick since the ack.        *)
RejectedPlanNeverActs == phase = "act" /\ step => ~failed[selected]

(* Once dispatched an operation is awaited until its own ack is drained:   *)
(* no interrupt, message, timeout or replan abandons it.                   *)
OperationRunsToCompletion ==
  [][\A a \in Activity : pendingOp[a] # None /\ pendingOp'[a] # pendingOp[a]
        => pendingOp[a] \in acks /\ pendingOp'[a] = None]_vars

(* What the next phase may rely on: no exemption from suspension outlives  *)
(* Observe; an activity that was never created carries nothing; TickResult *)
(* fields are set only in the phases that use them; and past Reflect no    *)
(* schedulable activity still has a rejected operation.  With it the       *)
(* invariants above are inductive (DecisionCycle_proofs.tla).              *)
PhaseDiscipline ==
  /\ justResolved # {} => phase \in {"inferences", "waits"}
  /\ \A a \in justResolved : state[a] = "ready"
  /\ \A a \in Activity : born[a] = 0 <=> state[a] = "absent"
  /\ \A a \in Activity : state[a] = "absent" => ~failed[a]
  /\ selected # None => phase \in {"reason", "act"}
  /\ step => phase = "act" /\ selected # None
  /\ phase \in {"situate", "reason", "act"} => \A a \in Ready : ~failed[a]

(* An activity paused for the user only moves when a message is received,  *)
(* and a terminated one never does: a late ack, a late result or a signal  *)
(* does not resurrect it.                                                  *)
NoResurrection ==
  [][\A a \in Activity :
        /\ blockedOn[a] = "input" /\ blockedOn'[a] # "input" => inbox # <<>> /\ inbox' = <<>>
        /\ state[a] = "terminated" => state'[a] = "terminated"]_vars

(* The place of an activity in the abstract life cycle.                    *)
Place(a) ==
  CASE state[a] \in {"absent", "ready", "terminated"} -> state[a]
    [] state[a] = "running" -> IF pendingOp[a] # None THEN "operating" ELSE "deliberating"
    [] state[a] = "blocked" -> IF blockedOn[a] = "input" THEN "paused" ELSE "suspended"

Lifecycle == INSTANCE ActivityLifecycle WITH place <- [a \in Activity |-> Place(a)]

(* The cycle implements the life cycle of ActivityLifecycle.tla.           *)
ImplementsLifecycle == Lifecycle!Spec

(* A model call ends for the activity that awaits it even if the provider  *)
(* never answers (the watchdog).                                           *)
InferenceEventuallyResolves ==
  \A a \in Activity : pendingInf[a] # None ~> pendingInf[a] = None

(* A hard interrupt is discharged, however long its targets' operations    *)
(* take and however many ticks it aborts.                                  *)
InterruptEventuallyDischarged == interrupt # None ~> interrupt = None

(* A message received in a tick that was aborted is still routed later.    *)
MessageEventuallyClaimed == cursor < Len(messages) ~> cursor = Len(messages)
=============================================================================

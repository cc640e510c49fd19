------------------------ MODULE DecisionCycle_proofs ------------------------
(***************************************************************************)
(* Proofs about DecisionCycle for every set of activities, every pool of   *)
(* call ids and every value of the bounds.                                 *)
(***************************************************************************)
EXTENDS DecisionCycle, SequenceTheorems, TLAPS

(* A call id picked for a new call is in the pool and in nobody's use.     *)
LEMMA NewCallIsFresh ==
  ASSUME FreshCalls # {}
  PROVE  NewCall \in FreshCalls
BY DEF NewCall

(* Appending to the transport's queue and draining it into the log.        *)
LEMMA MessageLog ==
  ASSUME NEW s \in Seq(Activity), NEW t \in Seq(Activity), NEW g \in Activity
  PROVE  /\ Append(s, g) \in Seq(Activity)
         /\ s \o t \in Seq(Activity)
         /\ <<>> \in Seq(Activity)
         /\ Len(s) \in Nat
         /\ Len(s \o t) \in Nat
<1>1. s \o t \in Seq(Activity)
  BY ConcatProperties
<1>2. Append(s, g) \in Seq(Activity)
  BY AppendProperties
<1>3. /\ <<>> \in Seq(Activity)
      /\ Len(s) \in Nat
      /\ Len(s \o t) \in Nat
  BY <1>1, LenProperties, EmptySeq
<1> QED
  BY <1>1, <1>2, <1>3

-----------------------------------------------------------------------------
(* Type correctness.                                                       *)

LEMMA TypeInit == Init => TypeOK
<1> SUFFICES ASSUME Init
             PROVE  TypeOK
  OBVIOUS
<1>1. inbox \in Seq(Activity) /\ messages \in Seq(Activity)
  <2>1. <<>> \in Seq(Activity)
    BY EmptySeq
  <2> QED
    BY <2>1 DEF Init
<1> QED
  BY <1>1, CycleConstants DEF Init, TypeOK, Phases, NoPlan

LEMMA TypeStep == TypeOK /\ [Next]_vars => TypeOK'
<1> SUFFICES ASSUME TypeOK, [Next]_vars
             PROVE  TypeOK'
  OBVIOUS
<1> USE CycleConstants DEF TypeOK, Phases, NoPlan, lifeVars, planVars, taskVars,
        sinkVars, messageVars, tickVars, stopVars, EndTick
<1>1. ASSUME NEW g \in Activity, Submit(g) PROVE TypeOK'
  BY <1>1, MessageLog DEF Submit
<1>2. ASSUME NEW c \in Call, OperationReturns(c) PROVE TypeOK'
  BY <1>2 DEF OperationReturns
<1>3. ASSUME NEW c \in Call, OperationRaises(c) PROVE TypeOK'
  BY <1>3 DEF OperationRaises
<1>4. ASSUME NEW c \in Call, InferenceReturns(c) PROVE TypeOK'
  BY <1>4 DEF InferenceReturns
<1>5. ASSUME NEW c \in Call, InferenceHangs(c) PROVE TypeOK'
  BY <1>5 DEF InferenceHangs
<1>6. ASSUME NEW t \in Activity \cup {Everyone}, Interrupt(t) PROVE TypeOK'
  BY <1>6 DEF Interrupt
<1>7. ASSUME ObserveAcks PROVE TypeOK'
  <2>1. failed' \in [Activity -> BOOLEAN] /\ justResolved' \subseteq Activity
    BY <1>7 DEF ObserveAcks, Resolved, Running
  <2>2. state' \in [Activity -> {"absent", "ready", "running", "blocked", "terminated"}]
    BY <1>7 DEF ObserveAcks
  <2>3. pendingOp' \in [Activity -> Call \cup {None}]
    BY <1>7 DEF ObserveAcks
  <2> QED
    BY <1>7, <2>1, <2>2, <2>3 DEF ObserveAcks
<1>8. ASSUME ObserveInferences PROVE TypeOK'
  <2>1. /\ state' \in [Activity -> {"absent", "ready", "running", "blocked", "terminated"}]
        /\ pendingInf' \in [Activity -> Call \cup {None}]
    BY <1>8 DEF ObserveInferences
  <2>2. plan' \in [Activity -> {NoPlan} \cup (0 .. MaxSteps)]
    BY <1>8 DEF ObserveInferences
  <2> QED
    BY <1>8, <2>1, <2>2 DEF ObserveInferences
<1>9. ASSUME ObserveWaits PROVE TypeOK'
  BY <1>9 DEF ObserveWaits, Waiting
<1>10. ASSUME ObserveMessages PROVE TypeOK'
  <2>1. /\ messages \o inbox \in Seq(Activity)
        /\ <<>> \in Seq(Activity)
        /\ Len(messages \o inbox) \in Nat
    BY ConcatProperties, LenProperties, EmptySeq
  <2> QED
    BY <1>10, <2>1 DEF ObserveMessages, AwaitingInput
<1>11. ASSUME Preempt PROVE TypeOK'
  BY <1>11 DEF Preempt, DiscardInference, Targets, InFlight, Boundaries
<1>12. ASSUME Reflect PROVE TypeOK'
  BY <1>12 DEF Reflect, Rejected, Ready
<1>13. ASSUME Situate PROVE TypeOK'
  <2>1. Len(messages) \in Nat
    BY LenProperties
  <2>2. /\ state' \in [Activity -> {"absent", "ready", "running", "blocked", "terminated"}]
        /\ born' \in [Activity -> Nat]
    <3> DEFINE unclaimed == (cursor + 1) .. Len(messages)
               newborn == {messages[i] : i \in unclaimed} \cap {g \in Activity : born[g] = 0}
    <3>1. PICK first \in [newborn -> unclaimed] :
             /\ born' = [a \in Activity |-> IF a \in newborn THEN first[a] ELSE born[a]]
             /\ state' = [a \in Activity |-> IF a \in newborn THEN "ready" ELSE state[a]]
      BY <1>13 DEF Situate
    <3>2. unclaimed \subseteq Nat
      BY <2>1
    <3> HIDE DEF unclaimed, newborn
    <3> QED
      BY <3>1, <3>2
  <2>3. selected' \in Activity \cup {None} /\ lastId' \in Activity \cup {None}
    <3>1. PICK newborn \in SUBSET Activity :
             LET ready == Schedulable(newborn)
             IN IF ready = {} THEN selected' = None /\ UNCHANGED lastId
                ELSE \E a \in ready : selected' = a /\ lastId' = a
      BY <1>13 DEF Situate
    <3> QED
      BY <3>1 DEF Schedulable, Ready
  <2> QED
    BY <1>13, <2>1, <2>2, <2>3 DEF Situate
<1>14. ASSUME IdleTick PROVE TypeOK'
  BY <1>14 DEF IdleTick
<1>15. ASSUME Reason PROVE TypeOK'
  <2> PICK a \in Activity : \/ ReasonInfers(a)
                            \/ ReasonCommits(a)
                            \/ ReasonDropsPlan(a)
                            \/ ReasonAwaitsInput(a)
                            \/ ReasonRunsOut(a)
    BY <1>15 DEF Reason
  <2>1. CASE ReasonInfers(a)
    BY <1>15, <2>1, NewCallIsFresh DEF Reason, ReasonInfers, FreshCalls
  <2>2. CASE ReasonCommits(a)
    BY <1>15, <2>2 DEF Reason, ReasonCommits
  <2>3. CASE ReasonDropsPlan(a)
    BY <1>15, <2>3 DEF Reason, ReasonDropsPlan
  <2>4. CASE ReasonAwaitsInput(a)
    BY <1>15, <2>4 DEF Reason, ReasonAwaitsInput
  <2>5. CASE ReasonRunsOut(a)
    BY <1>15, <2>5 DEF Reason, ReasonRunsOut
  <2> QED
    BY <2>1, <2>2, <2>3, <2>4, <2>5
<1>16. ASSUME NothingToAct PROVE TypeOK'
  BY <1>16 DEF NothingToAct
<1>17. ASSUME Act PROVE TypeOK'
  <2>1. CASE \E a \in Activity : a = selected /\ Invoke(a)
    <3>1. NewCall \in Call
      BY <2>1, NewCallIsFresh DEF Invoke, FreshCalls
    <3>2. /\ state' \in [Activity -> {"absent", "ready", "running", "blocked", "terminated"}]
          /\ pendingOp' \in [Activity -> Call \cup {None}]
          /\ opTasks' \subseteq Call
      BY <2>1, <3>1 DEF Invoke
    <3> QED
      BY <1>17, <3>2 DEF Act
  <2>2. CASE UNCHANGED <<state, pendingOp, opTasks>>
    BY <1>17, <2>2 DEF Act
  <2> QED
    BY <1>17, <2>1, <2>2 DEF Act
<1>18. ASSUME UNCHANGED vars PROVE TypeOK'
  BY <1>18 DEF vars
<1> QED
  BY <1>1, <1>2, <1>3, <1>4, <1>5, <1>6, <1>7, <1>8, <1>9, <1>10, <1>11, <1>12,
     <1>13, <1>14, <1>15, <1>16, <1>17, <1>18 DEF Next, Tick, OffCycle

(* Every reachable state of the cycle is well typed.                       *)
THEOREM TypeCorrect == Spec => []TypeOK
BY TypeInit, TypeStep, PTL DEF Spec

-----------------------------------------------------------------------------
(* The inductive invariant.  StateCoherence alone is not inductive: Reason *)
(* and Act rely on the pick being READY, and the suspension pass of        *)
(* Observe on the activities it was handed being READY.                    *)
IInv == TypeOK /\ StateCoherence /\ SelectionStaysReady /\ PhaseDiscipline

LEMMA InitIInv == Init => IInv
<1> SUFFICES ASSUME Init
             PROVE  IInv
  OBVIOUS
<1>1. TypeOK
  BY TypeInit
<1> QED
  BY <1>1, CycleConstants
  DEF Init, IInv, StateCoherence, SelectionStaysReady, PhaseDiscipline, Ready

(* The pick that Reason and Act work on is READY and waits for nothing.    *)
LEMMA PickIsFree ==
  ASSUME IInv, selected # None, phase = "reason" \/ (phase = "act" /\ step)
  PROVE  /\ selected \in Activity
         /\ state[selected] = "ready"
         /\ pendingOp[selected] = None /\ pendingInf[selected] = None
         /\ blockedOn[selected] = "nothing"
<1>1. selected \in Activity /\ state[selected] = "ready"
  BY DEF IInv, TypeOK, SelectionStaysReady
<1> QED
  BY <1>1 DEF IInv, StateCoherence

(* StateCoherence is preserved by every step.                              *)
LEMMA CoherenceStep == IInv /\ [Next]_vars => StateCoherence'
<1> SUFFICES ASSUME IInv, [Next]_vars
             PROVE  StateCoherence'
  OBVIOUS
<1>0. /\ TypeOK /\ StateCoherence /\ SelectionStaysReady /\ PhaseDiscipline
      /\ None \notin Call
  BY CycleConstants DEF IInv
<1> USE <1>0 DEF StateCoherence
<1>1. ASSUME UNCHANGED lifeVars PROVE StateCoherence'
  BY <1>1 DEF lifeVars
<1>2. ASSUME ObserveAcks PROVE StateCoherence'
  BY <1>2 DEF ObserveAcks, Resolved, Running, TypeOK
<1>3. ASSUME ObserveInferences PROVE StateCoherence'
  BY <1>3 DEF ObserveInferences, Concluded, Expired, Running, TypeOK
<1>4. ASSUME ObserveWaits PROVE StateCoherence'
  <2>1. PICK suspended \in SUBSET justResolved, resumed \in SUBSET Waiting :
           /\ state' = [a \in Activity |->
                 IF a \in suspended THEN "blocked"
                 ELSE IF a \in resumed THEN "ready" ELSE state[a]]
           /\ blockedOn' = [a \in Activity |->
                 IF a \in suspended THEN "signal"
                 ELSE IF a \in resumed THEN "nothing" ELSE blockedOn[a]]
    BY <1>4 DEF ObserveWaits
  <2>2. \A a \in suspended : state[a] = "ready"
    BY DEF PhaseDiscipline
  <2>3. \A a \in resumed : state[a] = "blocked"
    BY DEF Waiting, TypeOK
  <2>4. UNCHANGED <<pendingOp, pendingInf>>
    BY <1>4 DEF ObserveWaits
  <2> QED
    BY <2>1, <2>2, <2>3, <2>4 DEF TypeOK
<1>5. ASSUME ObserveMessages PROVE StateCoherence'
  BY <1>5 DEF ObserveMessages, AwaitingInput, TypeOK
<1>6. ASSUME Preempt PROVE StateCoherence'
  BY <1>6 DEF Preempt, DiscardInference, Targets, InFlight, TypeOK
<1>7. ASSUME Reflect PROVE StateCoherence'
  BY <1>7 DEF Reflect, Rejected, Ready, TypeOK
<1>8. ASSUME Situate PROVE StateCoherence'
  BY <1>8 DEF Situate, PhaseDiscipline, TypeOK
<1>9. ASSUME Reason PROVE StateCoherence'
  <2>1. PICK a \in Activity :
           /\ a = selected
           /\ \/ ReasonInfers(a) \/ ReasonCommits(a) \/ ReasonDropsPlan(a)
              \/ ReasonAwaitsInput(a) \/ ReasonRunsOut(a)
    BY <1>9 DEF Reason
  <2>2. /\ state[a] = "ready" /\ blockedOn[a] = "nothing"
        /\ pendingOp[a] = None /\ pendingInf[a] = None
    BY <1>9, <2>1, PickIsFree, CycleConstants DEF Reason
  <2>3. CASE ReasonInfers(a)
    <3>1. NewCall \in Call
      BY <2>3, NewCallIsFresh DEF ReasonInfers, FreshCalls
    <3> QED
      BY <2>2, <2>3, <3>1 DEF ReasonInfers, TypeOK
  <2>4. CASE ReasonCommits(a) \/ ReasonDropsPlan(a)
    BY <1>1, <2>4 DEF ReasonCommits, ReasonDropsPlan
  <2>5. CASE ReasonAwaitsInput(a)
    BY <2>2, <2>5 DEF ReasonAwaitsInput, TypeOK
  <2>6. CASE ReasonRunsOut(a)
    BY <2>2, <2>6 DEF ReasonRunsOut, TypeOK
  <2> QED
    BY <2>1, <2>3, <2>4, <2>5, <2>6
<1>10. ASSUME Act PROVE StateCoherence'
  <2>1. CASE \E a \in Activity : a = selected /\ Invoke(a)
    <3>1. PICK a \in Activity : a = selected /\ Invoke(a)
      BY <2>1
    <3>2. /\ state[a] = "ready" /\ blockedOn[a] = "nothing"
          /\ pendingOp[a] = None /\ pendingInf[a] = None
      BY <1>10, <3>1, PickIsFree, CycleConstants DEF Act
    <3>3. NewCall \in Call
      BY <3>1, NewCallIsFresh DEF Invoke, FreshCalls
    <3>4. UNCHANGED <<blockedOn, pendingInf>>
      BY <1>10 DEF Act
    <3> QED
      BY <3>1, <3>2, <3>3, <3>4 DEF Invoke, TypeOK
  <2>2. CASE UNCHANGED <<state, pendingOp, opTasks>>
    BY <1>1, <1>10, <2>2 DEF Act, lifeVars
  <2> QED
    BY <1>10, <2>1, <2>2 DEF Act
<1> QED
  BY <1>1, <1>2, <1>3, <1>4, <1>5, <1>6, <1>7, <1>8, <1>9, <1>10
  DEF Next, Tick, OffCycle, Submit, OperationReturns, OperationRaises,
      InferenceReturns, InferenceHangs, Interrupt, IdleTick, NothingToAct, vars

(* The pick is READY in the phases that use it, after every step.          *)
LEMMA SelectionStep == IInv /\ [Next]_vars => SelectionStaysReady'
<1> SUFFICES ASSUME IInv, [Next]_vars
             PROVE  SelectionStaysReady'
  OBVIOUS
<1>0. /\ TypeOK /\ StateCoherence /\ SelectionStaysReady /\ PhaseDiscipline
      /\ None \notin Activity
  BY CycleConstants DEF IInv
<1> USE <1>0 DEF SelectionStaysReady
<1>1. ASSUME UNCHANGED <<phase, state, selected, step>> PROVE SelectionStaysReady'
  BY <1>1
<1>2. ASSUME phase' \notin {"reason", "act"} PROVE SelectionStaysReady'
  BY <1>2
<1>3. ASSUME Situate PROVE SelectionStaysReady'
  <2>1. PICK newborn \in SUBSET Activity :
           /\ state' = [a \in Activity |-> IF a \in newborn THEN "ready" ELSE state[a]]
           /\ LET ready == Schedulable(newborn)
              IN IF ready = {} THEN selected' = None
                 ELSE \E a \in ready : selected' = a
    BY <1>3 DEF Situate
  <2> QED
    BY <2>1 DEF Schedulable, Ready
<1>4. ASSUME Reason PROVE SelectionStaysReady'
  <2>1. PICK a \in Activity :
           /\ a = selected
           /\ \/ ReasonInfers(a) \/ ReasonCommits(a) \/ ReasonDropsPlan(a)
              \/ ReasonAwaitsInput(a) \/ ReasonRunsOut(a)
    BY <1>4 DEF Reason
  <2>2. phase = "reason" /\ phase' = "act" /\ selected' = selected
    BY <1>4 DEF Reason
  <2>3. ~step
    BY <2>2 DEF PhaseDiscipline
  <2>4. CASE ReasonCommits(a)
    BY <2>1, <2>2, <2>4 DEF ReasonCommits, lifeVars
  <2>5. CASE UNCHANGED step
    BY <2>2, <2>3, <2>5
  <2> QED
    BY <2>1, <2>4, <2>5
    DEF ReasonInfers, ReasonDropsPlan, ReasonAwaitsInput, ReasonRunsOut
<1>5. \/ UNCHANGED <<phase, state, selected, step>>
      \/ phase' \notin {"reason", "act"}
      \/ Situate
      \/ Reason
  BY DEF Next, Tick, OffCycle, vars, lifeVars, tickVars, EndTick, Submit,
         OperationReturns, OperationRaises, InferenceReturns, InferenceHangs,
         Interrupt, ObserveAcks, ObserveInferences, ObserveWaits, ObserveMessages,
         Preempt, Reflect, IdleTick, NothingToAct, Act
<1> QED
  BY <1>1, <1>2, <1>3, <1>4, <1>5

(* What each phase relies on holds when the phase runs.                    *)
LEMMA DisciplineStep == IInv /\ [Next]_vars => PhaseDiscipline'
<1> SUFFICES ASSUME IInv, [Next]_vars
             PROVE  PhaseDiscipline'
  OBVIOUS
<1>0. /\ TypeOK /\ StateCoherence /\ SelectionStaysReady /\ PhaseDiscipline
      /\ None \notin Activity /\ None \notin Call
  BY CycleConstants DEF IInv
<1> USE <1>0 DEF PhaseDiscipline
<1>1. ASSUME \/ UNCHANGED vars
             \/ \E g \in Activity : Submit(g)
             \/ \E c \in Call : \/ OperationReturns(c) \/ OperationRaises(c)
                                \/ InferenceReturns(c) \/ InferenceHangs(c)
             \/ \E t \in Activity \cup {Everyone} : Interrupt(t)
      PROVE  PhaseDiscipline'
  <2>1. UNCHANGED <<phase, justResolved, state, born, failed, selected, step>>
    BY <1>1 DEF Submit, OperationReturns, OperationRaises, InferenceReturns,
                InferenceHangs, Interrupt, vars, lifeVars, planVars, messageVars, tickVars
  <2> QED
    BY <2>1 DEF Ready
<1>2. ASSUME ObserveAcks PROVE PhaseDiscipline'
  BY <1>2 DEF ObserveAcks, Resolved, Running, TypeOK, messageVars, tickVars
<1>3. ASSUME ObserveInferences PROVE PhaseDiscipline'
  BY <1>3 DEF ObserveInferences, Concluded, Expired, Running, TypeOK, messageVars, tickVars
<1>4. ASSUME ObserveWaits PROVE PhaseDiscipline'
  <2>1. PICK suspended \in SUBSET justResolved, resumed \in SUBSET Waiting :
           state' = [a \in Activity |->
                 IF a \in suspended THEN "blocked"
                 ELSE IF a \in resumed THEN "ready" ELSE state[a]]
    BY <1>4 DEF ObserveWaits
  <2>2. /\ phase' = "messages" /\ justResolved' = {}
        /\ UNCHANGED <<born, failed, selected, step>> /\ phase = "waits"
    BY <1>4 DEF ObserveWaits, planVars, messageVars, tickVars
  <2>3. \A a \in suspended : state[a] = "ready"
    OBVIOUS
  <2>4. \A a \in resumed : a \in Activity /\ state[a] = "blocked"
    BY DEF Waiting, StateCoherence
  <2>5. \A a \in Activity : state'[a] = "absent" <=> state[a] = "absent"
    BY <2>1, <2>3, <2>4
  <2> QED
    BY <2>2, <2>5
<1>5. ASSUME ObserveMessages PROVE PhaseDiscipline'
  BY <1>5 DEF ObserveMessages, AwaitingInput, StateCoherence, TypeOK, tickVars
<1>6. ASSUME Preempt PROVE PhaseDiscipline'
  BY <1>6 DEF Preempt, EndTick, Boundaries, TypeOK, planVars, messageVars, tickVars
<1>7. ASSUME Reflect PROVE PhaseDiscipline'
  BY <1>7 DEF Reflect, Rejected, Ready, TypeOK, messageVars, tickVars
<1>8. ASSUME Situate PROVE PhaseDiscipline'
  <2> DEFINE unclaimed == (cursor + 1) .. Len(messages)
             newborn == {messages[i] : i \in unclaimed} \cap {g \in Activity : born[g] = 0}
  <2>1. PICK first \in [newborn -> unclaimed] :
           /\ born' = [a \in Activity |-> IF a \in newborn THEN first[a] ELSE born[a]]
           /\ state' = [a \in Activity |-> IF a \in newborn THEN "ready" ELSE state[a]]
    BY <1>8 DEF Situate
  <2>2. phase = "situate" /\ phase' = "reason" /\ UNCHANGED <<justResolved, failed, step>>
    BY <1>8 DEF Situate, planVars
  <2>3. \A i \in unclaimed : i # 0
    <3>1. Len(messages) \in Nat /\ cursor \in Nat
      BY LenProperties DEF TypeOK
    <3> QED
      BY <3>1
  <2>4. \A a \in newborn : a \in Activity /\ state[a] = "absent" /\ ~failed[a]
    OBVIOUS
  <2> HIDE DEF unclaimed, newborn
  <2>5. \A a \in Activity : born'[a] = 0 <=> state'[a] = "absent"
    BY <2>1, <2>3 DEF TypeOK
  <2>6. \A a \in Activity : state'[a] = "ready" => ~failed'[a]
    BY <2>1, <2>2, <2>4 DEF Ready
  <2>7. justResolved = {} /\ ~step
    BY <2>2
  <2>8. \A a \in Activity : state'[a] = "absent" => state[a] = "absent"
    BY <2>1
  <2> QED
    BY <2>2, <2>5, <2>6, <2>7, <2>8 DEF Ready
<1>9. ASSUME IdleTick \/ NothingToAct PROVE PhaseDiscipline'
  BY <1>9 DEF IdleTick, NothingToAct, EndTick, lifeVars, planVars, messageVars
<1>10. ASSUME Reason PROVE PhaseDiscipline'
  <2>1. PICK a \in Activity :
           /\ a = selected
           /\ \/ ReasonInfers(a) \/ ReasonCommits(a) \/ ReasonDropsPlan(a)
              \/ ReasonAwaitsInput(a) \/ ReasonRunsOut(a)
    BY <1>10 DEF Reason
  <2>2. /\ phase = "reason" /\ phase' = "act"
        /\ UNCHANGED <<justResolved, born, failed, selected>>
    BY <1>10 DEF Reason, messageVars
  <2>3. selected # None /\ state[a] = "ready" /\ justResolved = {}
    BY <2>1, <2>2, PickIsFree
  <2>4. /\ \A b \in Activity \ {a} : state'[b] = state[b]
        /\ state'[a] \in {"ready", "running", "blocked"}
    BY <2>1, <2>3 DEF ReasonInfers, ReasonCommits, ReasonDropsPlan, ReasonAwaitsInput,
                      ReasonRunsOut, lifeVars, TypeOK
  <2> QED
    BY <2>1, <2>2, <2>3, <2>4 DEF Ready
<1>11. ASSUME Act PROVE PhaseDiscipline'
  <2>1. /\ phase = "act" /\ phase' = "acks" /\ step' = FALSE /\ selected' = None
        /\ UNCHANGED <<justResolved, born, failed>>
    BY <1>11 DEF Act, EndTick, planVars, messageVars
  <2>2. selected # None /\ selected \in Activity /\ state[selected] = "ready"
    BY <1>11, PickIsFree DEF Act
  <2>3. /\ \A b \in Activity \ {selected} : state'[b] = state[b]
        /\ state'[selected] \in {"ready", "running"}
    BY <1>11, <2>2 DEF Act, Invoke, TypeOK
  <2> QED
    BY <2>1, <2>2, <2>3
<1> QED
  BY <1>1, <1>2, <1>3, <1>4, <1>5, <1>6, <1>7, <1>8, <1>9, <1>10, <1>11
  DEF Next, Tick, OffCycle

LEMMA IInvStep == IInv /\ [Next]_vars => IInv'
<1> SUFFICES ASSUME IInv, [Next]_vars
             PROVE  IInv'
  OBVIOUS
<1>1. TypeOK'
  BY TypeStep DEF IInv
<1> QED
  BY <1>1, CoherenceStep, SelectionStep, DisciplineStep DEF IInv

LEMMA Invariance == Spec => []IInv
BY InitIInv, IInvStep, PTL DEF Spec

(* An activity is RUNNING exactly while one call is pending for it and     *)
(* BLOCKED exactly while it records what it waits for.                     *)
THEOREM StatesAreCoherent == Spec => []StateCoherence
<1>1. IInv => StateCoherence
  BY DEF IInv
<1> QED
  BY <1>1, Invariance, PTL

(* What Situate picked is still READY when Reason and Act use it.          *)
THEOREM PickStaysReady == Spec => []SelectionStaysReady
<1>1. IInv => SelectionStaysReady
  BY DEF IInv
<1> QED
  BY <1>1, Invariance, PTL

(* Each phase finds what the one before it leaves.                         *)
THEOREM PhasesAreDisciplined == Spec => []PhaseDiscipline
<1>1. IInv => PhaseDiscipline
  BY DEF IInv
<1> QED
  BY <1>1, Invariance, PTL

(* No step of a plan is committed after an operation of it was rejected.   *)
THEOREM RejectionIsFinal == Spec => []RejectedPlanNeverActs
<1>1. IInv => RejectedPlanNeverActs
  <2> SUFFICES ASSUME IInv, phase = "act", step
               PROVE  ~failed[selected]
    BY DEF RejectedPlanNeverActs
  <2>1. selected # None
    BY DEF IInv, PhaseDiscipline
  <2>2. selected \in Activity /\ state[selected] = "ready"
    BY <2>1, PickIsFree
  <2> QED
    BY <2>2 DEF IInv, PhaseDiscipline, Ready
<1> QED
  BY <1>1, Invariance, PTL

-----------------------------------------------------------------------------
(* If tools never raise, an operation that is awaited is alive.            *)
LEMMA AliveStep ==
  ASSUME ~ToolsMayRaise
  PROVE  IInv /\ AwaitedCallAlive /\ [Next]_vars => AwaitedCallAlive'
<1> SUFFICES ASSUME IInv, AwaitedCallAlive, [Next]_vars
             PROVE  AwaitedCallAlive'
  OBVIOUS
<1>0. TypeOK /\ StateCoherence /\ None \notin Call
  BY CycleConstants DEF IInv
<1> USE <1>0 DEF AwaitedCallAlive
<1>1. ASSUME UNCHANGED <<pendingOp, opTasks, acks>> PROVE AwaitedCallAlive'
  BY <1>1
<1>2. ASSUME NEW c \in Call, OperationReturns(c) PROVE AwaitedCallAlive'
  BY <1>2 DEF OperationReturns, lifeVars
<1>3. ASSUME ObserveAcks PROVE AwaitedCallAlive'
  BY <1>3 DEF ObserveAcks, Resolved, Running, StateCoherence, TypeOK, taskVars
<1>4. ASSUME Act PROVE AwaitedCallAlive'
  <2>1. CASE UNCHANGED <<state, pendingOp, opTasks>>
    BY <1>1, <1>4, <2>1 DEF Act, sinkVars
  <2>2. CASE \E a \in Activity : a = selected /\ Invoke(a)
    <3>1. PICK a \in Activity : Invoke(a)
      BY <2>2
    <3>2. NewCall \in Call /\ \A b \in Activity : pendingOp[b] # NewCall
      BY <3>1, NewCallIsFresh DEF Invoke, FreshCalls, Awaited
    <3>3. acks' = acks
      BY <1>4 DEF Act, sinkVars
    <3> QED
      BY <3>1, <3>2, <3>3 DEF Invoke, TypeOK
  <2> QED
    BY <1>4, <2>1, <2>2 DEF Act
<1> QED
  BY <1>1, <1>2, <1>3, <1>4
  DEF Next, Tick, OffCycle, Submit, OperationRaises, InferenceReturns, InferenceHangs,
      Interrupt, ObserveInferences, ObserveWaits, ObserveMessages, Preempt, Reflect,
      Situate, IdleTick, Reason, ReasonInfers, ReasonCommits, ReasonDropsPlan,
      ReasonAwaitsInput, ReasonRunsOut, NothingToAct, vars, lifeVars, taskVars, sinkVars

(* A dispatched operation is never forgotten, as long as no tool raises.   *)
THEOREM AwaitedCallsStayAlive ==
  ASSUME ~ToolsMayRaise
  PROVE  Spec => []AwaitedCallAlive
<1>1. Init => AwaitedCallAlive
  BY DEF Init, AwaitedCallAlive
<1> QED
  BY <1>1, AliveStep, Invariance, PTL DEF Spec

(* No interrupt, message, timeout or replan abandons an operation.         *)
THEOREM OperationsRunToCompletion == Spec => OperationRunsToCompletion
<1> DEFINE Kept == \A a \in Activity : pendingOp[a] # None /\ pendingOp'[a] # pendingOp[a]
                     => pendingOp[a] \in acks /\ pendingOp'[a] = None
<1>1. IInv /\ [Next]_vars => [Kept]_vars
  <2> SUFFICES ASSUME IInv, [Next]_vars
               PROVE  Kept
    OBVIOUS
  <2>0. TypeOK
    BY DEF IInv
  <2>1. CASE UNCHANGED pendingOp
    BY <2>1
  <2>2. CASE ObserveAcks
    BY <2>0, <2>2 DEF ObserveAcks, Resolved, Running, TypeOK
  <2>3. CASE \E a \in Activity : a = selected /\ Act /\ Invoke(a)
    <3>1. PICK a \in Activity : a = selected /\ Act /\ Invoke(a)
      BY <2>3
    <3>2. pendingOp[a] = None
      BY <3>1, PickIsFree, CycleConstants DEF Act
    <3> QED
      BY <2>0, <3>1, <3>2 DEF Invoke, TypeOK
  <2> QED
    BY <2>1, <2>2, <2>3
    DEF Next, Tick, OffCycle, Submit, OperationReturns, OperationRaises, InferenceReturns,
        InferenceHangs, Interrupt, ObserveInferences, ObserveWaits, ObserveMessages,
        Preempt, Reflect, Situate, IdleTick, Reason, ReasonInfers, ReasonCommits,
        ReasonDropsPlan, ReasonAwaitsInput, ReasonRunsOut, NothingToAct, Act, vars, lifeVars
<1> QED
  BY <1>1, Invariance, PTL DEF Spec, OperationRunsToCompletion

-----------------------------------------------------------------------------
(* The life cycle of ActivityLifecycle.tla, and what follows for paused    *)
(* and terminated activities.                                              *)

(* Where an activity is, as a function of its state and of what it awaits. *)
LEMMA PlaceOf ==
  ASSUME IInv, NEW a \in Activity
  PROVE  /\ state[a] \in {"absent", "ready", "terminated"} => Place(a) = state[a]
         /\ state[a] = "running" =>
              Place(a) = IF pendingOp[a] # None THEN "operating" ELSE "deliberating"
         /\ state[a] = "blocked" =>
              Place(a) = IF blockedOn[a] = "input" THEN "paused" ELSE "suspended"
         /\ Place(a) \in Lifecycle!Places
<1>1. state[a] \in {"absent", "ready", "running", "blocked", "terminated"}
  BY DEF IInv, TypeOK
<1>2. CASE state[a] \in {"absent", "ready", "terminated"}
  BY <1>2 DEF Place, Lifecycle!Places
<1>3. CASE state[a] = "running"
  BY <1>3 DEF Place, Lifecycle!Places
<1>4. CASE state[a] = "blocked"
  BY <1>4 DEF Place, Lifecycle!Places
<1> QED
  BY <1>1, <1>2, <1>3, <1>4

LEMMA PlaceInit == Init => Lifecycle!Init
BY DEF Init, Place, Lifecycle!Init

(* What a step may do to one activity, in the terms of the code.  The last *)
(* two cases are the only ones that dispatch a call.                       *)
Move(a) ==
  \/ UNCHANGED <<state[a], blockedOn[a], pendingOp[a]>>
  \/ state[a] = "absent"  /\ state'[a] = "ready"
  \/ state[a] = "running" /\ state'[a] = "ready"
  \/ state[a] = "blocked" /\ state'[a] = "ready"
  \/ state[a] = "ready"   /\ state'[a] = "terminated"
  \/ state[a] = "ready"   /\ state'[a] = "blocked"
  \/ state[a] = "running" /\ pendingOp[a] = None
       /\ state'[a] = "blocked" /\ blockedOn'[a] = "input"
  \/ state[a] = "ready"   /\ state'[a] = "running" /\ a = selected

LEMMA EveryStepMoves == IInv /\ [Next]_vars => \A a \in Activity : Move(a)
<1> SUFFICES ASSUME IInv, [Next]_vars, NEW a \in Activity
             PROVE  Move(a)
  OBVIOUS
<1>0. TypeOK /\ StateCoherence /\ PhaseDiscipline
  BY DEF IInv
<1> USE <1>0 DEF Move
<1>1. ASSUME UNCHANGED lifeVars PROVE Move(a)
  BY <1>1 DEF lifeVars
<1>2. ASSUME ObserveAcks PROVE Move(a)
  BY <1>2 DEF ObserveAcks, Resolved, Running, TypeOK
<1>3. ASSUME ObserveInferences PROVE Move(a)
  <2>1. PICK resolved \in SUBSET Running :
           state' = [b \in Activity |-> IF b \in resolved THEN "ready" ELSE state[b]]
    BY <1>3 DEF ObserveInferences, Concluded, Expired, Running
  <2>2. UNCHANGED <<blockedOn, pendingOp>>
    BY <1>3 DEF ObserveInferences
  <2> QED
    BY <2>1, <2>2 DEF Running
<1>4. ASSUME ObserveWaits PROVE Move(a)
  <2>1. PICK suspended \in SUBSET justResolved, resumed \in SUBSET Waiting :
           /\ state' = [b \in Activity |->
                 IF b \in suspended THEN "blocked"
                 ELSE IF b \in resumed THEN "ready" ELSE state[b]]
           /\ blockedOn' = [b \in Activity |->
                 IF b \in suspended THEN "signal"
                 ELSE IF b \in resumed THEN "nothing" ELSE blockedOn[b]]
    BY <1>4 DEF ObserveWaits
  <2>2. \A b \in suspended : state[b] = "ready"
    BY DEF PhaseDiscipline
  <2>3. \A b \in resumed : state[b] = "blocked"
    BY DEF Waiting, StateCoherence
  <2>4. UNCHANGED pendingOp
    BY <1>4 DEF ObserveWaits
  <2> QED
    BY <2>1, <2>2, <2>3, <2>4
<1>5. ASSUME ObserveMessages PROVE Move(a)
  BY <1>5 DEF ObserveMessages, AwaitingInput, StateCoherence, TypeOK
<1>6. ASSUME Preempt PROVE Move(a)
  BY <1>6 DEF Preempt, Targets, InFlight, TypeOK
<1>7. ASSUME Reflect PROVE Move(a)
  BY <1>7 DEF Reflect, Rejected, Ready, TypeOK
<1>8. ASSUME Situate PROVE Move(a)
  BY <1>8 DEF Situate, PhaseDiscipline, TypeOK
<1>9. ASSUME Reason PROVE Move(a)
  <2>1. PICK b \in Activity :
           /\ b = selected
           /\ \/ ReasonInfers(b) \/ ReasonCommits(b) \/ ReasonDropsPlan(b)
              \/ ReasonAwaitsInput(b) \/ ReasonRunsOut(b)
    BY <1>9 DEF Reason
  <2>2. state[b] = "ready" /\ blockedOn[b] = "nothing" /\ pendingOp[b] = None
    BY <1>9, <2>1, PickIsFree, CycleConstants DEF Reason
  <2> QED
    BY <2>1, <2>2 DEF ReasonInfers, ReasonCommits, ReasonDropsPlan, ReasonAwaitsInput,
                      ReasonRunsOut, lifeVars, TypeOK
<1>10. ASSUME Act PROVE Move(a)
  <2>1. blockedOn' = blockedOn
    BY <1>10 DEF Act
  <2>2. CASE UNCHANGED <<state, pendingOp, opTasks>>
    BY <2>1, <2>2
  <2>3. CASE \E b \in Activity : b = selected /\ Invoke(b)
    <3>1. state[selected] = "ready" /\ selected \in Activity
      BY <1>10, <2>3, PickIsFree, CycleConstants DEF Act
    <3> QED
      BY <2>1, <2>3, <3>1 DEF Invoke, TypeOK
  <2> QED
    BY <1>10, <2>2, <2>3 DEF Act
<1> QED
  BY <1>1, <1>2, <1>3, <1>4, <1>5, <1>6, <1>7, <1>8, <1>9, <1>10
  DEF Next, Tick, OffCycle, Submit, OperationReturns, OperationRaises,
      InferenceReturns, InferenceHangs, Interrupt, IdleTick, NothingToAct, vars

LEMMA PlaceStep ==
  IInv /\ IInv' /\ [Next]_vars => [Lifecycle!Next]_[a \in Activity |-> Place(a)]
<1> SUFFICES ASSUME IInv, IInv', [Next]_vars
             PROVE  Lifecycle!Next
  BY DEF Lifecycle!Next
<1>1. \A a \in Activity : Place(a)' \in Lifecycle!Places
  BY DEF IInv, TypeOK, Place, Lifecycle!Places
<1>2. ASSUME NEW a \in Activity
      PROVE  Place(a)' = Place(a) \/ <<Place(a), Place(a)'>> \in Lifecycle!Moves
  <2>1. Move(a)
    BY EveryStepMoves
  <2>2. StateCoherence /\ StateCoherence' /\ TypeOK /\ TypeOK'
    BY DEF IInv
  <2> QED
    BY <2>1, <2>2, PlaceOf DEF Move, Place, Lifecycle!Moves, StateCoherence
<1>3. \A a \in Activity :
         Place(a) = "ready" /\ Place(a)' \in {"operating", "deliberating"} => a = selected
  <2> SUFFICES ASSUME NEW a \in Activity,
                      Place(a) = "ready", Place(a)' \in {"operating", "deliberating"}
               PROVE  a = selected
    OBVIOUS
  <2>1. Move(a)
    BY EveryStepMoves
  <2>2. TypeOK /\ TypeOK'
    BY DEF IInv
  <2> QED
    BY <2>1, <2>2 DEF Move, Place, TypeOK
<1> QED
  BY <1>1, <1>2, <1>3 DEF Lifecycle!Next, Lifecycle!Advanced

(* Every behaviour of the cycle is a behaviour of the life cycle.          *)
THEOREM CycleImplementsLifecycle == Spec => ImplementsLifecycle
BY PlaceInit, PlaceStep, Invariance, PTL DEF Spec, ImplementsLifecycle, Lifecycle!Spec

-----------------------------------------------------------------------------
(* A paused activity moves only when a message is drained, and a           *)
(* terminated one never does.                                              *)
THEOREM NothingResurrects == Spec => NoResurrection
<1> DEFINE Held == \A a \in Activity :
             /\ blockedOn[a] = "input" /\ blockedOn'[a] # "input"
                  => inbox # <<>> /\ inbox' = <<>>
             /\ state[a] = "terminated" => state'[a] = "terminated"
<1>1. IInv /\ [Next]_vars => [Held]_vars
  <2> SUFFICES ASSUME IInv, [Next]_vars, NEW a \in Activity
               PROVE  /\ blockedOn[a] = "input" /\ blockedOn'[a] # "input"
                           => inbox # <<>> /\ inbox' = <<>>
                      /\ state[a] = "terminated" => state'[a] = "terminated"
    OBVIOUS
  <2>0. TypeOK /\ StateCoherence
    BY DEF IInv
  <2>1. Move(a)
    BY EveryStepMoves
  <2>2. state[a] = "terminated" => state'[a] = "terminated"
    BY <2>1 DEF Move
  <2>3. ASSUME blockedOn[a] = "input", blockedOn'[a] # "input"
        PROVE  inbox # <<>> /\ inbox' = <<>>
    <3>1. state[a] = "blocked"
      BY <2>0, <2>3 DEF StateCoherence
    <3>2. CASE ObserveMessages
      BY <2>0, <2>3, <3>2 DEF ObserveMessages, TypeOK
    <3>3. CASE ~ObserveMessages
      <4>1. CASE UNCHANGED blockedOn
        BY <2>3, <4>1
      <4>2. CASE ObserveWaits
        <5>1. a \notin Waiting
          BY <2>3 DEF Waiting
        <5>2. a \notin justResolved
          BY <3>1 DEF IInv, PhaseDiscipline
        <5> QED
          BY <2>0, <2>3, <4>2, <5>1, <5>2 DEF ObserveWaits, TypeOK
      <4>3. CASE Preempt \/ Reflect
        BY <2>0, <2>3, <3>1, <4>3 DEF Preempt, Reflect, Rejected, Ready, TypeOK
      <4>4. CASE Reason
        <5>1. a # selected
          BY <3>1, <4>4, PickIsFree, CycleConstants DEF Reason
        <5> QED
          BY <2>0, <2>3, <4>4, <5>1
          DEF Reason, ReasonInfers, ReasonCommits, ReasonDropsPlan, ReasonAwaitsInput,
              ReasonRunsOut, lifeVars, TypeOK
      <4> QED
        BY <3>3, <4>1, <4>2, <4>3, <4>4
        DEF Next, Tick, OffCycle, Submit, OperationReturns, OperationRaises,
            InferenceReturns, InferenceHangs, Interrupt, ObserveAcks, ObserveInferences,
            Situate, IdleTick, NothingToAct, Act, vars, lifeVars
    <3> QED
      BY <3>2, <3>3
  <2> QED
    BY <2>2, <2>3
<1> QED
  BY <1>1, Invariance, PTL DEF Spec, NoResurrection
=============================================================================

------------------------- MODULE Conditions_proofs -------------------------
(***************************************************************************)
(* Proofs about Conditions for every set of conditions, every retention of *)
(* the logs and every value of the bounds.                                 *)
(***************************************************************************)
EXTENDS Conditions, Totals, SequenceTheorems, TLAPS

-----------------------------------------------------------------------------
(* Choosing an entry of a log.                                             *)

(* A bounded one has a greatest: the newest entry a scan recognizes exists. *)
LEMMA GreatestOf ==
  ASSUME NEW S, S \subseteq Nat, S # {}, NEW n \in Nat, \A i \in S : i <= n
  PROVE  \E i \in S : \A j \in S : j <= i
<1> DEFINE T == {k \in Nat : \E i \in S : k = n - i}
<1>1. T # {}
  <2>1. PICK i \in S : TRUE
    OBVIOUS
  <2>2. n - i \in T
    OBVIOUS
  <2> QED
    BY <2>2
<1>2. PICK k \in T : \A t \in T : k <= t
  <2>1. T \subseteq Nat
    OBVIOUS
  <2> HIDE DEF T
  <2> QED
    BY <1>1, <2>1, LeastOf
<1>3. PICK i \in S : k = n - i
  OBVIOUS
<1>4. ASSUME NEW j \in S
      PROVE  j <= i
  <2>1. n - j \in T
    OBVIOUS
  <2>2. k <= n - j
    BY <1>2, <2>1
  <2> QED
    BY <1>3, <2>2
<1> QED
  BY <1>4

Marks == [Waiter -> [Log -> Nat]]

(* The entry a judgement is fired for is in a log, and no earlier matches. *)
LEMMA FirstMatchIsMatch ==
  ASSUME TypeOK, NEW w \in Waiter, OpenLogs(w) # {}
  PROVE  /\ MatchLog(w) \in Log
         /\ FirstMatch(w) \in Matches(w, MatchLog(w))
         /\ FirstMatch(w) \in Nat
         /\ \A j \in Matches(w, MatchLog(w)) : FirstMatch(w) <= j
<1>1. MatchLog(w) \in OpenLogs(w)
  BY ConditionConstants DEF MatchLog, OpenLogs
<1>2. MatchLog(w) \in Log /\ Matches(w, MatchLog(w)) # {}
  BY <1>1 DEF OpenLogs
<1>3. Len(log[MatchLog(w)]) \in Nat
  BY <1>2, LenProperties DEF TypeOK
<1>4. Matches(w, MatchLog(w)) \subseteq Nat
  BY <1>3 DEF Matches, MatchesFrom
<1>5. \E i \in Matches(w, MatchLog(w)) : \A j \in Matches(w, MatchLog(w)) : i <= j
  BY <1>2, <1>4, LeastOf
<1>6. /\ FirstMatch(w) \in Matches(w, MatchLog(w))
      /\ \A j \in Matches(w, MatchLog(w)) : FirstMatch(w) <= j
  BY <1>5 DEF FirstMatch
<1> QED
  BY <1>2, <1>4, <1>6

(* What a scan recognizes last is a mark.                                  *)
LEMMA RecognizedMark ==
  ASSUME TypeOK, NEW w \in Waiter, NEW l \in Log
  PROVE  (CHOOSE i \in Recognized(w, l) : \A j \in Recognized(w, l) : j <= i) \in Nat
<1>1. Len(log[l]) \in Nat /\ accepted[w][l] \in Nat
  BY LenProperties DEF TypeOK
<1>2. PICK n \in Nat : accepted[w][l] <= n /\ Len(log[l]) <= n
  <2>1. CASE accepted[w][l] <= Len(log[l])
    BY <1>1, <2>1
  <2>2. CASE Len(log[l]) <= accepted[w][l]
    BY <1>1, <2>2
  <2> QED
    BY <1>1, <2>1, <2>2
<1>3. Recognized(w, l) \subseteq Nat /\ Recognized(w, l) # {}
  BY <1>1 DEF Recognized, MatchesFrom
<1>4. \A i \in Recognized(w, l) : i <= n
  BY <1>1, <1>2 DEF Recognized, MatchesFrom
<1>5. \E i \in Recognized(w, l) : \A j \in Recognized(w, l) : j <= i
  BY <1>3, <1>4, GreatestOf
<1> QED
  BY <1>3, <1>5

(* The places where marks are computed keep them marks.                    *)
LEMMA MarksStayMarks ==
  ASSUME TypeOK
  PROVE  /\ \A ws \in SUBSET Waiter : RewoundMarks(ws) \in Marks
         /\ \A kept \in SUBSET Waiter, marks \in Marks : Forget(marks, kept) \in Marks
         /\ \A w \in Waiter : OpenLogs(w) # {} => MarksFor(w) \in [Log -> Nat]
<1>1. \A ws \in SUBSET Waiter : RewoundMarks(ws) \in Marks
  BY DEF RewoundMarks, Marks, TypeOK
<1>2. \A kept \in SUBSET Waiter, marks \in Marks : Forget(marks, kept) \in Marks
  BY DEF Forget, Marks
<1>3. ASSUME NEW w \in Waiter, OpenLogs(w) # {}
      PROVE  MarksFor(w) \in [Log -> Nat]
  BY <1>3, FirstMatchIsMatch DEF MarksFor, TypeOK
<1> QED
  BY <1>1, <1>2, <1>3

-----------------------------------------------------------------------------
(* Retirement, wherever it is called from.                                 *)

(* What one retirement may change, whichever sweep runs it.                *)
LEMMA RetireStep ==
  ASSUME TypeOK, NEW ws \in SUBSET lifted, Retire(ws)
  PROVE  /\ live' = live \ ws
         /\ settled' \subseteq Waiter /\ settled \subseteq settled'
         /\ owed' \subseteq Waiter /\ owed' \subseteq owed \cup (ws \cap batch)
         /\ closedUnfired \subseteq closedUnfired'
         /\ closedUnfired' \subseteq
              closedUnfired \cup ((ws \cap settled') \ (settled \cup everFired \cup batch))
         /\ queue' \in [Waiter \X Branches -> Nat]
         /\ \A w \in Waiter :
              queue'[<<w, "otherwise">>] > queue[<<w, "otherwise">>] => w \notin settled
         /\ place' # place => place = "conditionWait" /\ place' = "ready"
<1> USE DEF TypeOK
<1>1. CASE ws = {}
  <2>1. /\ place' = place /\ live' = live /\ settled' = settled
        /\ owed' = owed /\ queue' = queue /\ closedUnfired' = closedUnfired
    BY <1>1 DEF Retire
  <2>2. ASSUME NEW w \in Waiter
        PROVE  ~ (queue'[<<w, "otherwise">>] > queue[<<w, "otherwise">>])
    <3>1. <<w, "otherwise">> \in Waiter \X Branches
      BY DEF Branches
    <3>2. queue[<<w, "otherwise">>] \in Nat
      BY <3>1
    <3> QED
      BY <2>1, <3>2
  <2> QED
    BY <1>1, <2>1, <2>2
<1>2. CASE ws # {}
  <2> DEFINE expiring == Expiring(ws, everFired, batch)
  <2>1. DropRetired(ws)
    BY <1>2 DEF Retire
  <2>2. /\ expiring \subseteq Waiter
        /\ expiring \subseteq ws \ (settled \cup everFired \cup batch)
        /\ Declined(ws, everFired) \subseteq Waiter
        /\ Deferred(ws, everFired, batch) \subseteq ws \cap batch
    BY DEF Expiring, Undecided, Declined, Deferred
  <2>3. /\ queue' \in [Waiter \X Branches -> Nat]
        /\ \A w \in Waiter :
             queue'[<<w, "otherwise">>] > queue[<<w, "otherwise">>] => w \in expiring
    <3>1. queue' = Queued({}, expiring)
      BY <2>1 DEF DropRetired
    <3> HIDE DEF expiring
    <3>2. queue' \in [Waiter \X Branches -> Nat]
      BY <3>1 DEF Queued
    <3>3. ASSUME NEW w \in Waiter, w \notin expiring
          PROVE  queue'[<<w, "otherwise">>] = queue[<<w, "otherwise">>]
      <4>1. <<w, "otherwise">> \in Waiter \X Branches
        BY DEF Branches
      <4>2. <<w, "otherwise">> \notin ({} \X {"then"}) \cup (expiring \X {"otherwise"})
        BY <3>3
      <4> QED
        BY <3>1, <4>1, <4>2 DEF Queued
    <3>4. \A w \in Waiter : queue[<<w, "otherwise">>] \in Nat
      BY DEF Branches
    <3> QED
      BY <3>2, <3>3, <3>4
  <2> HIDE DEF expiring
  <2>4. /\ live' = live \ ws
        /\ settled' = settled \cup Declined(ws, everFired) \cup expiring
        /\ owed' = owed \cup Deferred(ws, everFired, batch)
        /\ closedUnfired' = closedUnfired \cup expiring
        /\ place' # place => place = "conditionWait" /\ place' = "ready"
    BY <2>1 DEF DropRetired, expiring
  <2> QED
    BY <2>2, <2>3, <2>4
<1> QED
  BY <1>1, <1>2

-----------------------------------------------------------------------------
(* Who holds what.  TypeOK is not inductive without the first part: a      *)
(* parked verdict is about the batch, so the batch may only be discarded   *)
(* when no verdict is parked.                                              *)

(* A judgement in flight has parked nothing yet, and the later parts of a  *)
(* Reason pass run on a READY activity whose verdict has been taken.       *)
ControlInv ==
  /\ BatchAccounted
  /\ place = "judging" => verdict = None
  /\ phase \in {"settle", "body"} => place = "ready" /\ verdict = None

(* Every list holds conditions that were lifted, a deferred branch belongs *)
(* to a condition off watch, and no judgement is out over a condition      *)
(* whose `otherwise` was committed.                                        *)
Ownership ==
  /\ batch \cup sweep \cup owed \cup closedUnfired \subseteq lifted
  /\ owed \cap live = {}
  /\ closedUnfired \cap batch = {}

CInv == TypeOK /\ ControlInv /\ Ownership /\ AtMostOneBranch

(* A new activity holds no condition and owes nothing.                     *)
LEMMA CInvInit == Init => CInv
<1> SUFFICES ASSUME Init
             PROVE  CInv
  OBVIOUS
<1>1. log \in [Log -> Seq(SUBSET Waiter)]
  <2>1. <<>> \in Seq(SUBSET Waiter)
    BY EmptySeq
  <2> QED
    BY <2>1 DEF Init
<1>2. TypeOK
  BY <1>1 DEF Init, TypeOK, Phases, Branches
<1>3. ControlInv
  BY DEF Init, ControlInv, BatchAccounted
<1>4. Ownership /\ AtMostOneBranch
  BY DEF Init, Ownership, AtMostOneBranch
<1> QED
  BY <1>2, <1>3, <1>4 DEF CInv

-----------------------------------------------------------------------------
(* Control and ownership.                                                  *)

(* Every step keeps the batch, the verdict and the phase consistent.       *)
LEMMA ControlStep == TypeOK /\ ControlInv /\ Ownership /\ [Next]_vars => ControlInv'
<1> SUFFICES ASSUME TypeOK, ControlInv, Ownership, [Next]_vars
             PROVE  ControlInv'
  OBVIOUS
<1> USE DEF ControlInv, BatchAccounted, bodyVars, watchVars, markVars, retryVars,
        expiryVars, verdictVars, historyVars
<1>1. ASSUME NEW l \in Log, NEW watched \in SUBSET Waiter, Drain(l, watched)
      PROVE  ControlInv'
  BY <1>1 DEF Drain
<1>2. ASSUME ObserveAnswer PROVE ControlInv'
  <2>1. CASE JudgementArrives
    <3>1. verdict' # None
      <4>1. PICK fired \in SUBSET batch, retired \in SUBSET batch, failed \in BOOLEAN :
              verdict' = [fired |-> fired, retired |-> retired, failed |-> failed]
        BY <2>1 DEF JudgementArrives
      <4>2. batch \subseteq Waiter
        BY DEF TypeOK
      <4>3. verdict' \in [fired : SUBSET Waiter, retired : SUBSET Waiter, failed : BOOLEAN]
        BY <4>1, <4>2
      <4> QED
        BY <4>3, ConditionConstants
    <3> QED
      BY <1>2, <2>1, <3>1 DEF ObserveAnswer, JudgementArrives
  <2>2. CASE PlanArrives
    BY <1>2, <2>2 DEF ObserveAnswer, PlanArrives
  <2>3. CASE SubPlanArrives
    BY <1>2, <2>3 DEF ObserveAnswer, SubPlanArrives
  <2>4. CASE StepAnswered
    BY <1>2, <2>4 DEF ObserveAnswer, StepAnswered
  <2>5. CASE RequestFails
    BY <1>2, <2>5 DEF ObserveAnswer, RequestFails
  <2> QED
    BY <1>2, <2>1, <2>2, <2>3, <2>4, <2>5 DEF ObserveAnswer, Answers
<1>3. ASSUME Resume PROVE ControlInv'
  BY <1>3 DEF Resume
<1>4. ASSUME Expire PROVE ControlInv'
  <2>1. PICK spent \in SUBSET (live \cap Clocked) : Retire(spent)
    BY <1>4 DEF Expire
  <2>2. spent \in SUBSET lifted
    BY DEF TypeOK
  <2>3. place' # place => place = "conditionWait" /\ place' = "ready"
    BY <2>1, <2>2, RetireStep
  <2> QED
    BY <1>4, <2>3 DEF Expire
<1>5. ASSUME RetireQuiet PROVE ControlInv'
  <2>1. PICK ws \in SUBSET lifted : Retire(ws)
    BY <1>5 DEF RetireQuiet, Ownership
  <2>2. place' # place => place = "conditionWait" /\ place' = "ready"
    BY <2>1, RetireStep
  <2> QED
    BY <1>5, <2>2 DEF RetireQuiet
<1>6. ASSUME ObserveEnds PROVE ControlInv'
  BY <1>6 DEF ObserveEnds
<1>7. ASSUME Abort PROVE ControlInv'
  BY <1>7 DEF Abort, Pause, RemainingBatch, Requests
<1>8. ASSUME Reflect PROVE ControlInv'
  BY <1>8 DEF Reflect
<1>9. ASSUME Unpicked PROVE ControlInv'
  BY <1>9 DEF Unpicked
<1>10. ASSUME ApplyVerdict PROVE ControlInv'
  BY <1>10 DEF ApplyVerdict
<1>11. ASSUME PursueQueued PROVE ControlInv'
  BY <1>11 DEF PursueQueued, Pursue
<1>12. ASSUME Evaluate PROVE ControlInv'
  BY <1>12 DEF Evaluate
<1>13. ASSUME EnterBody PROVE ControlInv'
  BY <1>13 DEF EnterBody
<1>14. ASSUME Settle PROVE ControlInv'
  BY <1>14 DEF Settle, Pursue
<1>15. ASSUME Body PROVE ControlInv'
  BY <1>15 DEF Body, InferPlan, PlanFound, PopFrame, RunOut, RunStep, AbandonPlan, FanOut,
     EnterSubGoal
<1>16. CASE UNCHANGED vars
  BY <1>16 DEF vars
<1> QED
  BY <1>1, <1>2, <1>3, <1>4, <1>5, <1>6, <1>7, <1>8, <1>9, <1>10, <1>11, <1>12, <1>13, <1>14,
     <1>15, <1>16 DEF Next, Tick, ReasonPass

(* A retirement keeps the books: what it commits was undecided, was never  *)
(* fired and is not being judged.                                          *)
LEMMA RetireKeepsBooks ==
  ASSUME CInv, NEW ws \in SUBSET lifted, Retire(ws),
         UNCHANGED <<batch, lifted, everFired>>, sweep' \subseteq lifted
  PROVE  Ownership' /\ AtMostOneBranch'
<1>1. /\ live' = live \ ws
      /\ settled \subseteq settled'
      /\ owed' \subseteq owed \cup (ws \cap batch)
      /\ closedUnfired' \subseteq
           closedUnfired \cup ((ws \cap settled') \ (settled \cup everFired \cup batch))
  BY RetireStep DEF CInv
<1> QED
  BY <1>1 DEF CInv, Ownership, AtMostOneBranch

(* Lifting adds only conditions nobody knows.                              *)
LEMMA LiftKeepsBooks ==
  ASSUME CInv, NEW new \in SUBSET Waiter, Lift(new),
         UNCHANGED <<batch, sweep, everFired, settled, owed, closedUnfired>>
  PROVE  Ownership' /\ AtMostOneBranch'
BY DEF CInv, Ownership, AtMostOneBranch, Lift

(* Every step keeps the lists disjoint and commits one branch at most.     *)
LEMMA BooksStep == CInv /\ [Next]_vars => Ownership' /\ AtMostOneBranch'
<1> SUFFICES ASSUME CInv, [Next]_vars
             PROVE  Ownership' /\ AtMostOneBranch'
  OBVIOUS
<1> DEFINE Books == Ownership /\ AtMostOneBranch
<1> USE DEF Ownership, AtMostOneBranch, bodyVars, watchVars, markVars, retryVars,
        expiryVars, verdictVars, historyVars
<1>0. /\ Ownership /\ AtMostOneBranch /\ ControlInv
      /\ live \subseteq lifted /\ Framed \subseteq Waiter
  BY ConditionConstants DEF CInv, TypeOK
<1>1. ASSUME NEW l \in Log, NEW watched \in SUBSET Waiter, Drain(l, watched)
      PROVE  Books'
  BY <1>0, <1>1 DEF Drain
<1>2. ASSUME ObserveAnswer PROVE Books'
  <2>1. UNCHANGED batch
    BY <1>2 DEF ObserveAnswer, Answers, JudgementArrives, PlanArrives, SubPlanArrives,
       StepAnswered, RequestFails
  <2> QED
    BY <1>0, <1>2, <2>1 DEF ObserveAnswer
<1>3. ASSUME Resume PROVE Books'
  BY <1>0, <1>3 DEF Resume
<1>4. ASSUME Expire PROVE Books'
  <2>1. PICK spent \in SUBSET lifted : Retire(spent)
    BY <1>0, <1>4 DEF Expire
  <2>2. UNCHANGED <<batch, lifted, everFired>> /\ sweep' \subseteq lifted
    BY <1>0, <1>4 DEF Expire
  <2> QED
    BY <2>1, <2>2, RetireKeepsBooks
<1>5. ASSUME RetireQuiet PROVE Books'
  <2>1. PICK ws \in SUBSET lifted : Retire(ws)
    BY <1>0, <1>5 DEF RetireQuiet
  <2>2. UNCHANGED <<batch, lifted, everFired>> /\ sweep' \subseteq lifted
    BY <1>0, <1>5 DEF RetireQuiet
  <2> QED
    BY <2>1, <2>2, RetireKeepsBooks
<1>6. ASSUME ObserveEnds PROVE Books'
  BY <1>0, <1>6 DEF ObserveEnds, Reconcile, Collect
<1>7. ASSUME Abort PROVE Books'
  <2>1. CASE Pause
    BY <1>0, <1>7, <2>1 DEF Abort, Pause, RemainingBatch
  <2>2. CASE UNCHANGED <<evaluated, retried, settled, batch, place>>
    BY <1>0, <1>7, <2>2 DEF Abort
  <2> QED
    BY <1>7, <2>1, <2>2 DEF Abort
<1>8. ASSUME Reflect PROVE Books'
  <2>1. PICK new \in SUBSET Waiter : Lift(new)
    BY <1>8 DEF Reflect
  <2>2. UNCHANGED <<batch, sweep, everFired, settled, owed, closedUnfired>>
    BY <1>8 DEF Reflect
  <2> QED
    BY <2>1, <2>2, LiftKeepsBooks
<1>9. ASSUME Unpicked PROVE Books'
  BY <1>0, <1>9 DEF Unpicked
<1>10. ASSUME ApplyVerdict PROVE Books'
  <2> DEFINE retiring == verdict.retired \ Clocked
             fired == everFired \cup verdict.fired
             offered == IF verdict.failed THEN {} ELSE retiring \cup (batch \cap owed)
             expiring == Expiring(offered, fired, {})
  <2>1. verdict.fired \subseteq batch /\ verdict.retired \subseteq batch
    BY <1>10 DEF ApplyVerdict, CInv, TypeOK
  <2>2. /\ everFired' = fired
        /\ live' = live \ retiring
        /\ settled \cup expiring \subseteq settled'
        /\ closedUnfired' = closedUnfired \cup expiring
        /\ batch' = {}
        /\ UNCHANGED <<lifted, owed, sweep>>
    BY <1>10 DEF ApplyVerdict
  <2>3. expiring \subseteq offered \ fired
    BY DEF Expiring, Undecided, Declined, Deferred
  <2>4. offered \subseteq retiring \cup (batch \cap owed)
    OBVIOUS
  <2> HIDE DEF expiring, offered
  <2> QED
    BY <1>0, <2>1, <2>2, <2>3, <2>4
<1>11. ASSUME PursueQueued PROVE Books'
  BY <1>0, <1>11 DEF PursueQueued
<1>12. ASSUME Evaluate PROVE Books'
  BY <1>0, <1>12 DEF Evaluate, Eligible
<1>13. ASSUME EnterBody PROVE Books'
  BY <1>0, <1>13 DEF EnterBody
<1>14. ASSUME Settle PROVE Books'
  BY <1>0, <1>14 DEF Settle
<1>15. ASSUME Body PROVE Books'
  <2>1. UNCHANGED <<batch, sweep, everFired, settled, owed, closedUnfired>>
    BY <1>15 DEF Body
  <2>2. CASE UNCHANGED <<lifted, live>>
    BY <1>0, <2>1, <2>2
  <2>3. CASE \E new \in SUBSET Waiter : Lift(new)
    BY <2>1, <2>3, LiftKeepsBooks
  <2> QED
    BY <1>0, <1>15, <2>2, <2>3 DEF Body, InferPlan, PlanFound, PopFrame, RunOut, RunStep,
       AbandonPlan, FanOut, EnterSubGoal
<1>16. CASE UNCHANGED vars
  BY <1>0, <1>16 DEF vars
<1> QED
  BY <1>1, <1>2, <1>3, <1>4, <1>5, <1>6, <1>7, <1>8, <1>9, <1>10, <1>11, <1>12, <1>13, <1>14,
     <1>15, <1>16 DEF Next, Tick, ReasonPass

-----------------------------------------------------------------------------
(* Type correctness.                                                       *)

(* Lifting sets marks to the ends of the logs.                             *)
LEMMA LiftKeepsTypes ==
  ASSUME TypeOK, NEW new \in SUBSET Waiter, Lift(new)
  PROVE  /\ live' \subseteq lifted' /\ lifted' \subseteq Waiter
         /\ evaluated' \in Marks /\ accepted' \in Marks
<1> DEFINE marks(old) ==
      [w \in Waiter |-> IF w \in new THEN [l \in Log |-> Len(log[l])] ELSE old[w]]
<1>1. [l \in Log |-> Len(log[l])] \in [Log -> Nat]
  BY LenProperties DEF TypeOK
<1>2. marks(evaluated) \in Marks /\ marks(accepted) \in Marks
  BY <1>1 DEF Marks, TypeOK
<1> HIDE DEF marks
<1>3. evaluated' = marks(evaluated) /\ accepted' = marks(accepted)
  BY DEF Lift, marks
<1>4. live' = live \cup new /\ lifted' = lifted \cup new
  BY DEF Lift
<1> QED
  BY <1>2, <1>3, <1>4 DEF TypeOK

(* Dropping the plan keeps the frame or forgets whose it is.               *)
LEMMA DropPlanKeepsTypes ==
  ASSUME TypeOK, DropPlan
  PROVE  body' \in {"none", "steps", "done"} /\ frame' \in BOOLEAN /\ governs' \subseteq Framed
BY DEF TypeOK, DropPlan, Held

(* Taking a branch from the queue leaves no negative count.                *)
LEMMA PursueKeepsTypes ==
  ASSUME TypeOK, Pursue
  PROVE  queue' \in [Waiter \X Branches -> Nat] /\ place' \in {"then", "inputWait"}
<1>1. PICK k \in Waiter \X Branches : queue[k] > 0 /\ queue' = [queue EXCEPT ![k] = @ - 1]
  BY DEF Pursue
<1>2. queue[k] - 1 \in Nat
  BY <1>1 DEF TypeOK
<1> QED
  BY <1>1, <1>2 DEF TypeOK, Pursue

(* Every step keeps the types.                                             *)
LEMMA TypeStep == CInv /\ [Next]_vars => TypeOK'
<1> SUFFICES ASSUME CInv, [Next]_vars
             PROVE  TypeOK'
  OBVIOUS
<1> USE DEF Phases, Requests, Waits, bodyVars, watchVars, markVars, retryVars,
        expiryVars, verdictVars, historyVars
<1>0. TypeOK /\ ControlInv /\ Ownership
  BY DEF CInv
<1>1. ASSUME NEW l \in Log, NEW watched \in SUBSET Waiter, Drain(l, watched)
      PROVE  TypeOK'
  <2>1. log' \in [Log -> Seq(SUBSET Waiter)]
    <3>1. Append(log[l], watched) \in Seq(SUBSET Waiter)
      BY <1>0, AppendProperties DEF TypeOK
    <3> QED
      BY <1>0, <1>1, <3>1 DEF Drain, TypeOK
  <2>2. unread' \in [Waiter -> SUBSET (Log \X Nat)]
    <3>1. Len(log[l]) + 1 \in Nat
      BY <1>0, LenProperties DEF TypeOK
    <3>2. \A w \in Waiter : unread[w] \cup {<<l, Len(log[l]) + 1>>} \in SUBSET (Log \X Nat)
      BY <1>0, <3>1 DEF TypeOK
    <3> QED
      BY <1>0, <1>1, <3>2 DEF Drain, TypeOK
  <2> QED
    BY <1>0, <1>1, <2>1, <2>2 DEF Drain, TypeOK
<1>2. ASSUME ObserveAnswer PROVE TypeOK'
  <2>1. CASE JudgementArrives
    BY <1>0, <1>2, <2>1 DEF ObserveAnswer, JudgementArrives, TypeOK
  <2>2. CASE PlanArrives
    BY <1>0, <1>2, <2>2 DEF ObserveAnswer, PlanArrives, TypeOK
  <2>3. CASE SubPlanArrives
    BY <1>0, <1>2, <2>3 DEF ObserveAnswer, SubPlanArrives, TypeOK
  <2>4. CASE StepAnswered
    BY <1>0, <1>2, <2>4 DEF ObserveAnswer, StepAnswered, TypeOK
  <2>5. CASE RequestFails
    BY <1>0, <1>2, <2>5, DropPlanKeepsTypes DEF ObserveAnswer, RequestFails, TypeOK
  <2> QED
    BY <1>2, <2>1, <2>2, <2>3, <2>4, <2>5 DEF ObserveAnswer, Answers
<1>3. ASSUME Resume PROVE TypeOK'
  BY <1>0, <1>3 DEF Resume, TypeOK
<1>4. ASSUME Expire PROVE TypeOK'
  <2>1. PICK spent \in SUBSET lifted : Retire(spent)
    BY <1>0, <1>4 DEF Expire, TypeOK
  <2>2. /\ live' = live \ spent /\ settled' \subseteq Waiter /\ owed' \subseteq Waiter
        /\ queue' \in [Waiter \X Branches -> Nat] /\ closedUnfired' \subseteq Waiter
        /\ place' # place => place' = "ready"
    BY <1>0, <2>1, RetireStep DEF TypeOK
  <2> QED
    BY <1>0, <1>4, <2>2 DEF Expire, TypeOK
<1>5. ASSUME RetireQuiet PROVE TypeOK'
  <2>1. PICK ws \in SUBSET lifted : Retire(ws)
    BY <1>0, <1>5 DEF RetireQuiet, Ownership
  <2>2. /\ live' = live \ ws /\ settled' \subseteq Waiter /\ owed' \subseteq Waiter
        /\ queue' \in [Waiter \X Branches -> Nat] /\ closedUnfired' \subseteq Waiter
        /\ place' # place => place' = "ready"
    BY <1>0, <2>1, RetireStep DEF TypeOK
  <2>3. sweep' \subseteq Waiter
    BY <1>0, <1>5 DEF RetireQuiet, TypeOK
  <2> QED
    BY <1>0, <1>5, <2>2, <2>3 DEF RetireQuiet, TypeOK
<1>6. ASSUME ObserveEnds PROVE TypeOK'
  <2>1. log' \in [Log -> Seq(SUBSET Waiter)]
    <3>1. ASSUME NEW l \in Log
          PROVE  log'[l] \in Seq(SUBSET Waiter)
      <4>1. log[l] \in Seq(SUBSET Waiter) /\ Len(log[l]) \in Nat
        BY <1>0, LenProperties DEF TypeOK
      <4>2. \A i \in 1 .. Len(log[l]) : log[l][i] \in SUBSET Waiter
        BY <4>1, ElementOfSeq
      <4>3. log'[l] = [i \in 1 .. Len(log[l]) |->
                         IF i <= Len(log[l]) - Retention THEN {} ELSE log[l][i]]
        BY <1>6 DEF ObserveEnds, Reconcile
      <4>4. \A i \in 1 .. Len(log[l]) :
              (IF i <= Len(log[l]) - Retention THEN {} ELSE log[l][i]) \in SUBSET Waiter
        BY <4>2
      <4> QED
        BY <4>1, <4>3, <4>4
    <3>2. log' = [l \in Log |-> log'[l]]
      BY <1>6 DEF ObserveEnds, Reconcile
    <3> QED
      BY <3>1, <3>2
  <2>2. Known \subseteq Waiter
    BY <1>0 DEF Known, TypeOK
  <2>3. accepted' \in Marks
    <3> DEFINE scan == [w \in Waiter |-> [l \in Log |->
                  IF w \in live THEN CHOOSE i \in Recognized(w, l) :
                                       \A j \in Recognized(w, l) : j <= i
                                ELSE accepted[w][l]]]
    <3>1. scan \in Marks
      BY <1>0, RecognizedMark DEF Marks, TypeOK
    <3>2. accepted' = Forget(scan, Known)
      BY <1>6 DEF ObserveEnds, Reconcile
    <3> HIDE DEF scan
    <3> QED
      BY <1>0, <2>2, <3>1, <3>2, MarksStayMarks
  <2>4. evaluated' \in Marks /\ firedFrom' \in Marks
    <3>1. evaluated \in Marks /\ firedFrom \in Marks /\ batch \subseteq Waiter
      BY <1>0 DEF Marks, TypeOK
    <3>2. evaluated' = Forget(evaluated, Known) /\ firedFrom' = Forget(firedFrom, batch)
      BY <1>6 DEF ObserveEnds, Collect
    <3> QED
      BY <1>0, <2>2, <3>1, <3>2, MarksStayMarks
  <2>5. /\ lost' \subseteq Waiter /\ retried' \subseteq Waiter
        /\ settled' \subseteq Waiter /\ owed' \subseteq Waiter
    BY <1>0, <1>6, <2>2 DEF ObserveEnds, Reconcile, Collect, LostUnjudged, TypeOK
  <2>6. unread' \in [Waiter -> SUBSET (Log \X Nat)]
    BY <1>0, <1>6 DEF ObserveEnds, Collect, TypeOK
  <2>7. /\ body' \in {"none", "steps", "done"} /\ frame' \in BOOLEAN /\ governs' \subseteq Framed
        /\ place' \in {"ready", "terminated"} \cup Requests \cup Waits
    BY <1>0, <1>6, DropPlanKeepsTypes DEF ObserveEnds, TypeOK
  <2> QED
    BY <1>0, <1>6, <2>1, <2>3, <2>4, <2>5, <2>6, <2>7 DEF ObserveEnds, Marks, TypeOK
<1>7. ASSUME Abort PROVE TypeOK'
  <2>1. CASE Pause
    <3> DEFINE unanswered == IF place = "judging" THEN batch ELSE {}
               rewound == Rewound(unanswered, live)
    <3>1. unanswered \subseteq Waiter /\ rewound \subseteq Waiter
      BY <1>0 DEF TypeOK, Rewound
    <3>2. evaluated' \in Marks
      BY <1>0, <2>1, <3>1, MarksStayMarks DEF Pause
    <3>3. retried' \subseteq Waiter /\ settled' \subseteq Waiter
      BY <1>0, <2>1, <3>1 DEF Pause, TypeOK
    <3>4. /\ batch' \subseteq Waiter
          /\ verdict = None \/ batch' = batch
      BY <1>0, <2>1 DEF Pause, RemainingBatch, ControlInv, TypeOK
    <3> QED
      BY <1>0, <1>7, <2>1, <3>2, <3>3, <3>4 DEF Abort, Pause, Marks, TypeOK
  <2>2. CASE UNCHANGED <<evaluated, retried, settled, batch, place>>
    BY <1>0, <1>7, <2>2 DEF Abort, TypeOK
  <2> QED
    BY <1>7, <2>1, <2>2 DEF Abort
<1>8. ASSUME Reflect PROVE TypeOK'
  <2>1. PICK new \in SUBSET Waiter : Lift(new) /\ governs' = governs \cup (new \cap Framed)
    BY <1>8 DEF Reflect
  <2>2. /\ live' \subseteq lifted' /\ lifted' \subseteq Waiter
        /\ evaluated' \in Marks /\ accepted' \in Marks
    BY <1>0, <2>1, LiftKeepsTypes
  <2>3. place' \in {place, "conditionWait", "terminated"}
    BY <1>8 DEF Reflect
  <2> QED
    BY <1>0, <1>8, <2>1, <2>2, <2>3 DEF Reflect, Marks, TypeOK
<1>9. ASSUME Unpicked PROVE TypeOK'
  BY <1>0, <1>9 DEF Unpicked, TypeOK
<1>10. ASSUME ApplyVerdict PROVE TypeOK'
  <2> DEFINE retiring == verdict.retired \ Clocked
             rewound == Rewound(batch \ Answered, live \ retiring)
             fired == everFired \cup verdict.fired
             offered == IF verdict.failed THEN {} ELSE retiring \cup (batch \cap owed)
             expiring == Expiring(offered, fired, {})
  <2>1. verdict.fired \subseteq Waiter /\ verdict.retired \subseteq Waiter /\ batch \subseteq Waiter
    BY <1>0, <1>10 DEF ApplyVerdict, TypeOK
  <2>2. /\ rewound \subseteq Waiter /\ fired \subseteq Waiter /\ expiring \subseteq Waiter
        /\ Declined(offered, fired) \subseteq Waiter
    BY <1>0, <2>1 DEF Rewound, Expiring, Undecided, Declined, Deferred, TypeOK
  <2>3. /\ everFired' \subseteq Waiter /\ live' \subseteq live
        /\ retried' \subseteq Waiter /\ lost' \subseteq Waiter
        /\ settled' \subseteq Waiter /\ closedUnfired' \subseteq Waiter
    <3> HIDE DEF rewound, fired, expiring, offered
    <3>1. /\ everFired' = fired
          /\ live' = live \ retiring
          /\ retried' = (retried \ Answered) \cup rewound
          /\ lost' = lost \ Answered
          /\ settled' = settled \cup ((batch \ Answered) \ rewound)
                                \cup Declined(offered, fired) \cup expiring
          /\ closedUnfired' = closedUnfired \cup expiring
      BY <1>10 DEF ApplyVerdict, rewound, fired, expiring, offered
    <3> QED
      BY <1>0, <2>1, <2>2, <3>1 DEF TypeOK
  <2>4. evaluated' \in Marks
    BY <1>0, <1>10, <2>2, MarksStayMarks DEF ApplyVerdict
  <2>5. queue' \in [Waiter \X Branches -> Nat]
    BY <1>0, <1>10 DEF ApplyVerdict, Queued, TypeOK
  <2>6. unread' \in [Waiter -> SUBSET (Log \X Nat)]
    BY <1>0, <1>10 DEF ApplyVerdict, TypeOK
  <2> QED
    BY <1>0, <1>10, <2>3, <2>4, <2>5, <2>6 DEF ApplyVerdict, Marks, TypeOK
<1>11. ASSUME PursueQueued PROVE TypeOK'
  BY <1>0, <1>11, PursueKeepsTypes DEF PursueQueued, TypeOK
<1>12. ASSUME Evaluate PROVE TypeOK'
  <2>1. Eligible \subseteq Waiter /\ \A w \in Eligible : OpenLogs(w) # {}
    BY <1>0 DEF Eligible, OpenLogs, TypeOK
  <2>2. evaluated' \in Marks
    BY <1>0, <1>12, <2>1, MarksStayMarks DEF Evaluate, Marks, TypeOK
  <2>3. firedFrom' \in Marks
    BY <1>0, <1>12 DEF Evaluate, Marks, TypeOK
  <2> QED
    BY <1>0, <1>12, <2>1, <2>2, <2>3 DEF Evaluate, Marks, TypeOK
<1>13. ASSUME EnterBody PROVE TypeOK'
  BY <1>0, <1>13 DEF EnterBody, TypeOK
<1>14. ASSUME Settle PROVE TypeOK'
  <2>1. CASE Pursue
    BY <1>0, <1>14, <2>1, PursueKeepsTypes DEF Settle, TypeOK
  <2>2. CASE place' \in {"conditionWait", place} /\ UNCHANGED queue
    BY <1>0, <1>14, <2>2 DEF Settle, TypeOK
  <2> QED
    BY <1>14, <2>1, <2>2 DEF Settle
<1>15. ASSUME Body PROVE TypeOK'
  <2>1. /\ live' \subseteq lifted' /\ lifted' \subseteq Waiter
        /\ evaluated' \in Marks /\ accepted' \in Marks
    <3>1. CASE UNCHANGED <<lifted, live, evaluated, accepted>>
      BY <1>0, <3>1 DEF Marks, TypeOK
    <3>2. CASE \E new \in SUBSET Waiter : Lift(new)
      BY <1>0, <3>2, LiftKeepsTypes
    <3> QED
      BY <1>15, <3>1, <3>2, ConditionConstants DEF Body, InferPlan, PlanFound, PopFrame, RunOut,
         RunStep, AbandonPlan, FanOut, EnterSubGoal
  <2>2. /\ body' \in {"none", "steps", "done"} /\ frame' \in BOOLEAN /\ governs' \subseteq Framed
    BY <1>0, <1>15, DropPlanKeepsTypes DEF Body, InferPlan, PlanFound, PopFrame, RunOut,
       RunStep, AbandonPlan, FanOut, EnterSubGoal, TypeOK
  <2>3. /\ phase' \in {phase, "drain"}
        /\ place' \in {place, "plan", "inputWait", "conditionWait", "ready", "operation", "subgoal"}
    BY <1>15 DEF Body, InferPlan, PlanFound, PopFrame, RunOut,
       RunStep, AbandonPlan, FanOut, EnterSubGoal
  <2> QED
    BY <1>0, <1>15, <2>1, <2>2, <2>3 DEF Body, Marks, TypeOK
<1>16. CASE UNCHANGED vars
  BY <1>0, <1>16 DEF vars, TypeOK
<1> QED
  BY <1>1, <1>2, <1>3, <1>4, <1>5, <1>6, <1>7, <1>8, <1>9, <1>10, <1>11, <1>12, <1>13, <1>14,
     <1>15, <1>16 DEF Next, Tick, ReasonPass

(* The part of the invariant that carries itself is inductive.             *)
LEMMA CInvStep == CInv /\ [Next]_vars => CInv'
BY TypeStep, ControlStep, BooksStep DEF CInv

-----------------------------------------------------------------------------
(* Termination and waiting.                                                *)

(* An activity only terminates with nothing owed, and owes nothing later.  *)
LEMMA TerminationStep ==
  CInv /\ TerminationOwesNothing /\ [Next]_vars => TerminationOwesNothing'
<1> SUFFICES ASSUME CInv, TerminationOwesNothing, [Next]_vars, place' = "terminated"
             PROVE  live' = {} /\ batch' = {} /\ verdict' = None /\ ~Owes(queue') /\ ~frame'
  BY DEF TerminationOwesNothing, Owes
<1> DEFINE Clean == live = {} /\ batch = {} /\ verdict = None /\ ~Owes(queue) /\ ~frame
<1> USE DEF bodyVars, watchVars, markVars, retryVars, expiryVars, verdictVars, historyVars,
        Owes
<1>0. ControlInv /\ BatchAccounted /\ (place = "terminated" => Clean)
  BY DEF CInv, ControlInv, TerminationOwesNothing
<1>1. ASSUME NEW l \in Log, NEW watched \in SUBSET Waiter, Drain(l, watched)
      PROVE  Clean'
  BY <1>0, <1>1 DEF Drain
<1>2. ASSUME ObserveAnswer PROVE Clean'
  BY <1>0, <1>2 DEF ObserveAnswer, Answers, JudgementArrives, PlanArrives, SubPlanArrives,
     StepAnswered, RequestFails
<1>3. ASSUME Resume PROVE Clean'
  BY <1>0, <1>3 DEF Resume
<1>4. ASSUME Expire PROVE Clean'
  <2>1. PICK spent \in SUBSET live : Retire(spent)
    BY <1>4 DEF Expire
  <2>2. place = "terminated"
    <3>1. spent \in SUBSET lifted
      BY DEF CInv, TypeOK
    <3> QED
      BY <2>1, <3>1, RetireStep DEF CInv
  <2>3. UNCHANGED <<live, queue>>
    BY <1>0, <2>1, <2>2 DEF Retire
  <2> QED
    BY <1>0, <1>4, <2>2, <2>3 DEF Expire
<1>5. ASSUME RetireQuiet PROVE Clean'
  <2>1. PICK ws \in SUBSET lifted : Retire(ws) /\ (place = "terminated" => ws = {})
    BY <1>5 DEF RetireQuiet, CInv, Ownership
  <2>2. place = "terminated"
    BY <2>1, RetireStep DEF CInv
  <2>3. UNCHANGED <<live, queue>>
    BY <2>1, <2>2 DEF Retire
  <2> QED
    BY <1>0, <1>5, <2>2, <2>3 DEF RetireQuiet
<1>6. ASSUME ObserveEnds PROVE Clean'
  BY <1>0, <1>6 DEF ObserveEnds
<1>7. ASSUME Abort PROVE Clean'
  BY <1>0, <1>7 DEF Abort, Pause
<1>8. ASSUME Reflect PROVE Clean'
  <2>1. CASE place = "terminated"
    BY <1>0, <1>8, <2>1 DEF Reflect, Lift
  <2>2. CASE place # "terminated"
    <3>1. place = "ready" /\ ~frame /\ ~ReasonOwed /\ live' = {}
      BY <1>8, <2>2 DEF Reflect
    <3>2. batch = {} /\ verdict = None
      BY <1>0, <3>1 DEF BatchAccounted, ReasonOwed
    <3> QED
      BY <1>8, <3>1, <3>2 DEF Reflect, ReasonOwed
  <2> QED
    BY <2>1, <2>2
<1>9. ASSUME Unpicked PROVE Clean'
  BY <1>0, <1>9 DEF Unpicked
<1>10. ASSUME ReasonPass PROVE Clean'
  BY <1>10 DEF ReasonPass, ApplyVerdict, PursueQueued, Pursue, Evaluate, EnterBody
<1>11. ASSUME Settle PROVE Clean'
  BY <1>0, <1>11 DEF Settle, Pursue, ControlInv
<1>12. ASSUME Body PROVE Clean'
  BY <1>0, <1>12 DEF Body, InferPlan, PlanFound, PopFrame, RunOut, RunStep, AbandonPlan, FanOut,
     EnterSubGoal, ControlInv
<1>13. CASE UNCHANGED vars
  BY <1>0, <1>13 DEF vars
<1> QED
  BY <1>1, <1>2, <1>3, <1>4, <1>5, <1>6, <1>7, <1>8, <1>9, <1>10, <1>11, <1>12, <1>13
     DEF Next, Tick

(* A gate opens only in the drain: afterwards the marks of a condition on  *)
(* watch stand still, its entries can only disappear, and a new condition  *)
(* starts behind the last entry.                                           *)
LEMMA GateStaysShut ==
  ASSUME TypeOK, Eligible = {},
         \A w \in live' : \/ w \in live /\ evaluated'[w] = evaluated[w]
                          \/ w \in Waiter /\ \A l \in Log : evaluated'[w][l] = Len(log[l]),
         \A l \in Log : Len(log'[l]) = Len(log[l]),
         \A l \in Log : \A i \in 1 .. Len(log[l]) : log'[l][i] \subseteq log[l][i]
  PROVE  Eligible' = {}
<1> SUFFICES ASSUME NEW w \in live', NEW l \in Log, NEW i \in 1 .. Len(log'[l]),
                    i > evaluated'[w][l], w \in log'[l][i]
             PROVE  FALSE
  BY DEF Eligible, OpenLogs, Matches, MatchesFrom
<1>1. Len(log[l]) \in Nat /\ i \in 1 .. Len(log[l])
  BY LenProperties DEF TypeOK
<1>2. CASE w \in live /\ evaluated'[w] = evaluated[w]
  <2>1. i \in Matches(w, l)
    BY <1>1, <1>2 DEF Matches, MatchesFrom
  <2> QED
    BY <1>2, <2>1 DEF Eligible, OpenLogs
<1>3. CASE \A k \in Log : evaluated'[w][k] = Len(log[k])
  BY <1>1, <1>3
<1> QED
  BY <1>2, <1>3

(* A condition lifted after the drain starts with its gate shut.           *)
LEMMA LiftOpensNoGate ==
  ASSUME TypeOK, Eligible = {}, NEW new \in SUBSET Waiter, Lift(new), UNCHANGED log
  PROVE  Eligible' = {}
<1>1. \A w \in live' : \/ w \in live /\ evaluated'[w] = evaluated[w]
                       \/ w \in Waiter /\ \A l \in Log : evaluated'[w][l] = Len(log[l])
  BY DEF Lift, TypeOK
<1> QED
  BY <1>1, GateStaysShut

(* A retirement that does not end the wait leaves something to wait for.   *)
LEMMA RetireKeepsWait ==
  ASSUME CInv, NoStrandedWait, NEW ws \in SUBSET lifted, Retire(ws), place' = "conditionWait",
         UNCHANGED <<body, frame, governs, verdict>>
  PROVE  /\ place = "conditionWait"
         /\ live' # {} /\ ~Owes(queue)' /\ verdict' = None /\ BodyExhausted(queue, live)'
<1>1. /\ place = "conditionWait" /\ live # {} /\ ~Owes(queue) /\ verdict = None
      /\ BodyExhausted(queue, live)
  BY RetireStep DEF CInv, NoStrandedWait
<1>2. CASE ws = {}
  BY <1>1, <1>2 DEF Retire, Owes, BodyExhausted, HoldsFrame, Held
<1>3. CASE ws # {}
  <2> DEFINE expiring == Expiring(ws, everFired, batch)
             left == live \ ws
  <2>1. live' = left /\ queue' = Queued({}, expiring) /\ ~Releases(left, expiring)
    BY <1>1, <1>3 DEF Retire, DropRetired
  <2>2. expiring = {} /\ left # {} /\ (frame => HoldsFrame(Queued({}, {}), left))
    BY <2>1 DEF Releases
  <2>3. Queued({}, {}) = queue
    BY DEF Queued, CInv, TypeOK
  <2> HIDE DEF expiring
  <2>4. queue' = queue
    BY <2>1, <2>2, <2>3
  <2> QED
    BY <1>1, <2>1, <2>2, <2>3, <2>4 DEF Owes, BodyExhausted, HoldsFrame, Held
<1> QED
  BY <1>2, <1>3

(* Every step into a ConditionWait, or within one, leaves it sound.        *)
LEMMA WaitStep == CInv /\ NoStrandedWait /\ [Next]_vars => NoStrandedWait'
<1> DEFINE Watching == {"expire", "quiet", "retain", "reflect", "reason"}
           Waits0 == live # {} /\ ~Owes(queue) /\ verdict = None /\ BodyExhausted(queue, live)
           Sound == Waits0 /\ (phase \in Watching => Eligible = {})
<1> SUFFICES ASSUME CInv, NoStrandedWait, [Next]_vars, place' = "conditionWait"
             PROVE  Sound'
  BY DEF NoStrandedWait
<1> USE DEF bodyVars, watchVars, markVars, retryVars, expiryVars, verdictVars, historyVars
<1>0. TypeOK /\ ControlInv /\ Ownership /\ (place = "conditionWait" => Sound)
  BY DEF CInv, NoStrandedWait
<1>a. ASSUME place = "conditionWait", UNCHANGED <<live, queue, verdict, body, frame, governs>>
      PROVE  Waits0'
  BY <1>0, <1>a DEF Owes, BodyExhausted, HoldsFrame, Held
<1>b. ASSUME UNCHANGED <<live, evaluated, log>>
      PROVE  Eligible' = Eligible
  BY <1>b DEF Eligible, OpenLogs, Matches, MatchesFrom
<1>1. ASSUME NEW l \in Log, NEW watched \in SUBSET Waiter, Drain(l, watched)
      PROVE  Sound'
  BY <1>1, <1>a DEF Drain
<1>2. ASSUME ObserveAnswer PROVE Sound'
  BY <1>2 DEF ObserveAnswer, Answers, JudgementArrives, PlanArrives, SubPlanArrives,
     StepAnswered, RequestFails
<1>3. ASSUME Resume PROVE Sound'
  <2>1. place = "conditionWait" /\ Eligible = {}
    BY <1>3 DEF Resume
  <2> QED
    BY <1>3, <1>a, <1>b, <2>1 DEF Resume
<1>4. ASSUME Expire PROVE Sound'
  <2>1. PICK spent \in SUBSET lifted : Retire(spent)
    BY <1>0, <1>4 DEF Expire, TypeOK
  <2>2. place = "conditionWait" /\ Waits0'
    BY <1>4, <2>1, RetireKeepsWait DEF Expire
  <2>3. Eligible = {} /\ live' \subseteq live
    BY <1>0, <1>4, <2>1, <2>2, RetireStep DEF Expire
  <2>4. Eligible' = {}
    BY <1>4, <2>3 DEF Expire, Eligible, OpenLogs, Matches, MatchesFrom
  <2> QED
    BY <2>2, <2>4
<1>5. ASSUME RetireQuiet PROVE Sound'
  <2>1. PICK ws \in SUBSET lifted : Retire(ws)
    BY <1>0, <1>5 DEF RetireQuiet, Ownership
  <2>2. place = "conditionWait" /\ Waits0'
    BY <1>5, <2>1, RetireKeepsWait DEF RetireQuiet
  <2>3. Eligible = {} /\ live' \subseteq live
    BY <1>0, <1>5, <2>1, <2>2, RetireStep DEF RetireQuiet
  <2>4. Eligible' = {}
    BY <1>5, <2>3 DEF RetireQuiet, Eligible, OpenLogs, Matches, MatchesFrom
  <2> QED
    BY <2>2, <2>4
<1>6. ASSUME ObserveEnds PROVE Sound'
  <2>1. place = "conditionWait" /\ UNCHANGED <<body, frame, governs>>
    BY <1>6 DEF ObserveEnds
  <2>2. Waits0'
    BY <1>6, <1>a, <2>1 DEF ObserveEnds
  <2>3. Eligible' = {}
    <3>1. Eligible = {}
      BY <1>0, <1>6, <2>1 DEF ObserveEnds
    <3>2. \A w \in live' : w \in live /\ evaluated'[w] = evaluated[w]
      BY <1>0, <1>6 DEF ObserveEnds, Collect, Forget, Known, TypeOK
    <3>3. ASSUME NEW l \in Log
          PROVE  /\ Len(log'[l]) = Len(log[l])
                 /\ \A i \in 1 .. Len(log[l]) : log'[l][i] \subseteq log[l][i]
      <4>1. Len(log[l]) \in Nat
        BY <1>0, LenProperties DEF TypeOK
      <4>2. log'[l] = [i \in 1 .. Len(log[l]) |->
                         IF i <= Len(log[l]) - Retention THEN {} ELSE log[l][i]]
        BY <1>6 DEF ObserveEnds, Reconcile
      <4> QED
        BY <4>1, <4>2
    <3> QED
      BY <1>0, <3>1, <3>2, <3>3, GateStaysShut
  <2> QED
    BY <2>2, <2>3
<1>7. ASSUME Abort PROVE Sound'
  BY <1>7, <1>a DEF Abort, Pause
<1>8. ASSUME Reflect PROVE Sound'
  <2>1. PICK new \in SUBSET Waiter : Lift(new) /\ governs' = governs \cup (new \cap Framed)
    BY <1>8 DEF Reflect
  <2>2. live' = live \cup new
    BY <2>1 DEF Lift
  <2>3. CASE place = "conditionWait"
    <3>1. Sound /\ Eligible = {}
      BY <1>0, <1>8, <2>3 DEF Reflect
    <3>2. Waits0'
      BY <1>8, <2>1, <2>2, <3>1 DEF Reflect, Owes, BodyExhausted, HoldsFrame, Held
    <3> QED
      BY <1>0, <1>8, <2>1, <3>1, <3>2, LiftOpensNoGate DEF Reflect
  <2>4. CASE place # "conditionWait"
    <3>1. body = "done" /\ ~frame /\ ~ReasonOwed /\ live' # {}
      BY <1>8, <2>4 DEF Reflect
    <3>2. Waits0'
      BY <1>8, <3>1 DEF Reflect, ReasonOwed, Owes, BodyExhausted
    <3>3. Eligible = {}
      BY <3>1 DEF ReasonOwed
    <3> QED
      BY <1>0, <1>8, <2>1, <3>2, <3>3, LiftOpensNoGate DEF Reflect
  <2> QED
    BY <2>3, <2>4
<1>9. ASSUME Unpicked PROVE Sound'
  BY <1>9, <1>a DEF Unpicked
<1>10. ASSUME ReasonPass PROVE Sound'
  BY <1>10 DEF ReasonPass, ApplyVerdict, PursueQueued, Pursue, Evaluate, EnterBody
<1>11. ASSUME Settle PROVE Sound'
  <2>1. place = "ready" /\ verdict = None
    BY <1>0, <1>11 DEF Settle, ControlInv
  <2>2. live # {} /\ ~Owes(queue) /\ BodyExhausted(queue, live) /\ UNCHANGED queue
    BY <1>11, <2>1 DEF Settle, Pursue
  <2> QED
    BY <1>11, <2>1, <2>2 DEF Settle, Owes, BodyExhausted, HoldsFrame, Held
<1>12. ASSUME Body PROVE Sound'
  <2>1. place = "ready" /\ verdict = None
    BY <1>0, <1>12 DEF Body, ControlInv
  <2>2. RunOut /\ live # {} /\ ~Owes(queue)
    BY <1>12, <2>1 DEF Body, InferPlan, PlanFound, PopFrame, RunOut, RunStep, AbandonPlan,
       FanOut, EnterSubGoal
  <2> QED
    BY <1>12, <2>1, <2>2 DEF Body, RunOut, Owes, BodyExhausted, HoldsFrame, Held
<1>13. CASE UNCHANGED vars
  BY <1>a, <1>b, <1>0, <1>13 DEF vars
<1> QED
  BY <1>1, <1>2, <1>3, <1>4, <1>5, <1>6, <1>7, <1>8, <1>9, <1>10, <1>11, <1>12, <1>13
     DEF Next, Tick

-----------------------------------------------------------------------------
(* What a step may never do.                                               *)

(* A branch for an absence is queued only while it is undecided.           *)
LEMMA OtherwiseStep ==
  ASSUME CInv, [Next]_vars, NEW w \in Waiter,
         queue'[<<w, "otherwise">>] > queue[<<w, "otherwise">>]
  PROVE  w \notin settled
<1> DEFINE key == <<w, "otherwise">>
<1> USE DEF bodyVars, watchVars, markVars, retryVars, expiryVars, verdictVars, historyVars
<1>0. /\ TypeOK /\ Ownership
      /\ key \in Waiter \X Branches /\ queue[key] \in Nat
  BY DEF CInv, TypeOK, Branches
<1>1. queue' # queue
  BY <1>0
<1>2. CASE \E ws \in SUBSET lifted : Retire(ws)
  BY <1>0, <1>2, RetireStep
<1>3. CASE Pursue
  <2>1. PICK k \in Waiter \X Branches : queue' = [queue EXCEPT ![k] = @ - 1]
    BY <1>3 DEF Pursue
  <2>2. queue \in [Waiter \X Branches -> Nat]
    BY <1>0 DEF TypeOK
  <2>3. queue'[key] = queue[key] \/ queue'[key] = queue[key] - 1
    BY <1>0, <2>1, <2>2
  <2> QED
    BY <1>0, <2>3
<1>4. CASE ApplyVerdict
  <2>1. PICK fired \in SUBSET Waiter, offered \in SUBSET Waiter :
          queue' = Queued(verdict.fired, Expiring(offered, fired, {}))
    <3> DEFINE retiring == verdict.retired \ Clocked
               fired == everFired \cup verdict.fired
               offered == IF verdict.failed THEN {} ELSE retiring \cup (batch \cap owed)
    <3>1. queue' = Queued(verdict.fired, Expiring(offered, fired, {}))
      BY <1>4 DEF ApplyVerdict
    <3>2. verdict \in [fired : SUBSET batch, retired : SUBSET batch, failed : BOOLEAN]
      BY <1>0, <1>4 DEF ApplyVerdict, TypeOK
    <3>3. fired \subseteq Waiter /\ offered \subseteq Waiter
      BY <1>0, <3>2 DEF TypeOK
    <3> QED
      BY <3>1, <3>3
  <2>2. key \in (verdict.fired \X {"then"})
                 \cup (Expiring(offered, fired, {}) \X {"otherwise"})
    BY <1>0, <2>1 DEF Queued
  <2>3. w \in Expiring(offered, fired, {})
    BY <2>2
  <2> QED
    BY <2>3 DEF Expiring, Undecided
<1>5. CASE UNCHANGED queue
  BY <1>1, <1>5
<1> QED
  <2>1. CASE Expire
    BY <1>0, <1>2, <2>1 DEF Expire, TypeOK
  <2>2. CASE RetireQuiet
    BY <1>0, <1>2, <2>2 DEF RetireQuiet, Ownership
  <2>3. CASE PursueQueued
    BY <1>3, <2>3 DEF PursueQueued
  <2>4. CASE Settle
    BY <1>3, <1>5, <2>4 DEF Settle
  <2>5. CASE ApplyVerdict
    BY <1>4, <2>5
  <2>6. ASSUME \/ ObserveAnswer \/ Resume \/ ObserveEnds \/ Abort \/ Reflect \/ Unpicked
               \/ Evaluate \/ EnterBody \/ Body \/ UNCHANGED vars
               \/ \E l \in Log, watched \in SUBSET Waiter : Drain(l, watched)
        PROVE  UNCHANGED queue
    BY <2>6 DEF ObserveAnswer, Resume, ObserveEnds, Abort, Reflect, Unpicked, Evaluate,
       EnterBody, Body, Drain, vars
  <2> QED
    BY <1>5, <2>1, <2>2, <2>3, <2>4, <2>5, <2>6 DEF Next, Tick, ReasonPass

(* A parent frame goes only where nothing of its own is on watch.          *)
LEMMA FrameStep ==
  ASSUME CInv, [Next]_vars, frame, ~frame'
  PROVE  governs \cap live = {}
<1> USE DEF bodyVars, watchVars
<1>1. ASSUME DropPlan PROVE governs \cap live = {}
  BY <1>1 DEF DropPlan, Held
<1>2. ASSUME ObserveAnswer PROVE governs \cap live = {}
  BY <1>1, <1>2 DEF ObserveAnswer, Answers, JudgementArrives, PlanArrives, SubPlanArrives,
     StepAnswered, RequestFails
<1>3. ASSUME ObserveEnds PROVE governs \cap live = {}
  BY <1>1, <1>3 DEF ObserveEnds
<1>4. ASSUME Body PROVE governs \cap live = {}
  <2>1. PopFrame \/ AbandonPlan
    BY <1>4 DEF Body, InferPlan, PlanFound, RunOut, RunStep, FanOut, EnterSubGoal
  <2>2. ASSUME PopFrame PROVE governs \cap live = {}
    BY <2>2 DEF PopFrame, HoldsFrame, Held
  <2>3. ASSUME AbandonPlan PROVE governs \cap live = {}
    BY <1>1, <2>3 DEF AbandonPlan
  <2> QED
    BY <2>1, <2>2, <2>3
<1>5. ASSUME \/ Resume \/ Expire \/ RetireQuiet \/ Abort \/ Reflect \/ Unpicked
             \/ ReasonPass \/ Settle \/ UNCHANGED vars
             \/ \E l \in Log, watched \in SUBSET Waiter : Drain(l, watched)
      PROVE  UNCHANGED frame
  BY <1>5 DEF Resume, Expire, RetireQuiet, Abort, Reflect, Unpicked, ReasonPass, ApplyVerdict,
     PursueQueued, Evaluate, EnterBody, Settle, Drain, vars
<1> QED
  BY <1>2, <1>3, <1>4, <1>5 DEF Next, Tick

-----------------------------------------------------------------------------
(* The theorems.                                                           *)

(* The inductive invariant.  CInv carries itself; the other two need it.   *)
IInv == CInv /\ TerminationOwesNothing /\ NoStrandedWait

(* Every reachable state satisfies the inductive invariant.                *)
THEOREM Invariance == Spec => []IInv
<1>1. Init => IInv
  BY CInvInit DEF IInv, Init, TerminationOwesNothing, NoStrandedWait
<1>2. IInv /\ [Next]_vars => IInv'
  BY CInvStep, TerminationStep, WaitStep DEF IInv
<1> QED
  BY <1>1, <1>2, PTL DEF Spec

(* Every variable keeps its type: in particular a parked verdict names     *)
(* conditions of the batch it answers, whatever a pause has discarded.     *)
THEOREM ConditionTypes == Spec => []TypeOK
<1>1. IInv => TypeOK
  BY DEF IInv, CInv
<1> QED
  BY <1>1, Invariance, PTL

(* Activity.condition_batch is empty exactly when no judgement is in       *)
(* flight and no verdict is parked.                                        *)
THEOREM BatchesAreAccounted == Spec => []BatchAccounted
<1>1. IInv => BatchAccounted
  BY DEF IInv, CInv, ControlInv
<1> QED
  BY <1>1, Invariance, PTL

(* An activity in a ConditionWait watches something, owes nothing that     *)
(* only Reason does and is not kept from a frame it should pop, whichever  *)
(* of the four sites started the wait and whatever retired meanwhile.      *)
THEOREM WaitsAreSound == Spec => []NoStrandedWait
<1>1. IInv => NoStrandedWait
  BY DEF IInv
<1> QED
  BY <1>1, Invariance, PTL

(* A TERMINATED activity has no condition on watch, no judgement, verdict  *)
(* or branch outstanding and no parent frame.                              *)
THEOREM TerminationIsClean == Spec => []TerminationOwesNothing
<1>1. IInv => TerminationOwesNothing
  BY DEF IInv
<1> QED
  BY <1>1, Invariance, PTL

(* No condition commits both `then` and `otherwise`.                       *)
THEOREM OneBranchOnly == Spec => []AtMostOneBranch
<1>1. IInv => AtMostOneBranch
  BY DEF IInv, CInv
<1> QED
  BY <1>1, Invariance, PTL

(* `otherwise` is queued at most once per condition, by whichever of the   *)
(* clock, the quiet sweep and the verdict comes first.                     *)
THEOREM OtherwiseIsCommittedOnce == Spec => OtherwiseOnce
<1> DEFINE Once == \A w \in Waiter :
             queue'[<<w, "otherwise">>] > queue[<<w, "otherwise">>] => w \notin closedUnfired
<1>1. IInv /\ [Next]_vars => [Once]_vars
  <2> SUFFICES ASSUME IInv, [Next]_vars, NEW w \in Waiter,
                      queue'[<<w, "otherwise">>] > queue[<<w, "otherwise">>]
               PROVE  w \notin closedUnfired
    OBVIOUS
  <2>1. w \notin settled
    BY OtherwiseStep DEF IInv
  <2> QED
    BY <2>1 DEF IInv, CInv, AtMostOneBranch
<1>2. [][Once]_vars <=> OtherwiseOnce
  BY DEF OtherwiseOnce
<1> QED
  BY <1>1, <1>2, Invariance, PTL DEF Spec

(* The parent frame of a maintenance goal is not left while one of its     *)
(* conditions is on watch, by a pop, a failed request, a replan or a user. *)
THEOREM WatchedFramesStay == Spec => WatchedFrameStays
<1>1. IInv /\ [Next]_vars => [frame /\ ~frame' => governs \cap live = {}]_vars
  BY FrameStep DEF IInv
<1> QED
  BY <1>1, Invariance, PTL DEF Spec, WatchedFrameStays

=============================================================================

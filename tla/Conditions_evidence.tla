------------------------ MODULE Conditions_evidence ------------------------
(***************************************************************************)
(* What the model of the conditions promises about evidence, proved for    *)
(* every set of conditions, logs and retention: an absence is only claimed *)
(* when every change of the window was answered, and no change is acted on *)
(* twice.                                                                  *)
(***************************************************************************)
EXTENDS Conditions_proofs

-----------------------------------------------------------------------------
(* The invariant.                                                          *)

(* Entry i of log l is the change the judgement of w is about.             *)
IsAsked(w, l, i) == i = evaluated[w][l] /\ firedFrom[w][l] < evaluated[w][l]

(* The judgement of w is about the one match of l its mark was moved onto, *)
(* which no verdict has answered and which a rewind would find again       *)
(* unless the condition is off watch or the log has dropped it.            *)
Question(w, l) ==
  /\ firedFrom[w][l] < evaluated[w][l]
  /\ \A k \in Log \ {l} : firedFrom[w][k] = evaluated[w][k]
  /\ <<l, evaluated[w][l]>> \in unread[w]
  /\ \A i \in MatchesFrom(w, l, firedFrom[w][l]) : evaluated[w][l] <= i
  /\ w \in live \ lost => evaluated[w][l] \in MatchesFrom(w, l, firedFrom[w][l])

MarksInLogs == \A w \in Waiter, l \in Log : evaluated[w][l] <= Len(log[l])

EachIsAsked == \A w \in batch : \E l \in Log : Question(w, l)

(* A match beyond the mark is a change of the window no answer was about.  *)
MatchesUnread == \A w \in live, l \in Log : \A i \in Matches(w, l) : <<l, i>> \in unread[w]

(* While the absence can still be claimed, the changes without an answer   *)
(* are in sight: beyond the mark, or under judgement.                      *)
UnreadInSight ==
  \A w \in live \ settled, l \in Log, i \in Nat :
    <<l, i>> \in unread[w] => i \in Matches(w, l) \/ (w \in batch /\ IsAsked(w, l, i))

(* A deferred branch waits for the judgement in flight and nothing else.   *)
DeferredIsAsked ==
  \A w \in (batch \cap owed) \ settled, l \in Log, i \in Nat :
    <<l, i>> \in unread[w] => IsAsked(w, l, i)

(* A condition off watch has had its branch decided or deferred.           *)
RetiredIsDecided ==
  (lifted \ live) \cap Otherwise \subseteq everFired \cup settled \cup (owed \cap batch)

UnliftedIsBlank == \A w \in Waiter \ lifted : unread[w] = {}

EvidenceInv ==
  /\ MarksInLogs /\ EachIsAsked /\ MatchesUnread /\ UnreadInSight
  /\ DeferredIsAsked /\ RetiredIsDecided /\ UnliftedIsBlank

evidenceVars == <<log, lifted, live, evaluated, firedFrom, lost, everFired, settled, owed,
                  batch, unread>>

(* A new activity has seen nothing.                                        *)
LEMMA EvidenceInit == Init => EvidenceInv
<1> SUFFICES ASSUME Init
             PROVE  EvidenceInv
  OBVIOUS
<1>1. MarksInLogs
  <2>1. Len(<<>>) = 0
    OBVIOUS
  <2> QED
    BY <2>1 DEF Init, MarksInLogs
<1> QED
  BY <1>1 DEF Init, EvidenceInv, EachIsAsked, MatchesUnread, UnreadInSight, DeferredIsAsked,
     RetiredIsDecided, UnliftedIsBlank

(* The changes a judgement is about, as a set and as a predicate.          *)
LEMMA AskedMembers ==
  ASSUME NEW w, NEW l \in Log, NEW i
  PROVE  <<l, i>> \in Asked(w) <=> IsAsked(w, l, i)
BY DEF Asked, IsAsked

(* An entry in sight is a number of its log.                               *)
LEMMA MatchTypes ==
  ASSUME TypeOK, NEW w \in Waiter, NEW l \in Log, NEW m \in Nat
  PROVE  /\ Len(log[l]) \in Nat
         /\ MatchesFrom(w, l, m) =
              {i \in Nat : 1 <= i /\ i <= Len(log[l]) /\ i > m /\ w \in log[l][i]}
         /\ evaluated[w][l] \in Nat /\ firedFrom[w][l] \in Nat
         /\ Matches(w, l) = MatchesFrom(w, l, evaluated[w][l])
<1>1. Len(log[l]) \in Nat
  BY LenProperties DEF TypeOK
<1>2. evaluated[w][l] \in Nat /\ firedFrom[w][l] \in Nat
  BY DEF TypeOK
<1>3. 1 .. Len(log[l]) = {i \in Nat : 1 <= i /\ i <= Len(log[l])}
  BY <1>1
<1> QED
  BY <1>1, <1>2, <1>3 DEF MatchesFrom, Matches

(* A match lies behind the mark and within the log.                        *)
LEMMA MatchBounds ==
  ASSUME TypeOK, NEW w \in Waiter, NEW l \in Log
  PROVE  /\ evaluated[w][l] \in Nat /\ firedFrom[w][l] \in Nat /\ Len(log[l]) \in Nat
         /\ \A i \in Matches(w, l) : i \in Nat /\ evaluated[w][l] < i /\ i <= Len(log[l])
BY MatchTypes

(* Rewinding a condition on watch puts the change it was asked about back  *)
(* among its matches, and nothing that was answered.                       *)
LEMMA RewindRestores ==
  ASSUME CInv, EvidenceInv, NEW w \in batch \cap live
  PROVE  /\ \A l \in Log : firedFrom[w][l] <= evaluated[w][l]
         /\ \A l \in Log : \A i \in MatchesFrom(w, l, firedFrom[w][l]) : <<l, i>> \in unread[w]
         /\ w \notin lost \cup settled =>
              \A l \in Log, i \in Nat :
                <<l, i>> \in unread[w] => i \in MatchesFrom(w, l, firedFrom[w][l])
<1>0. TypeOK /\ w \in Waiter
  BY DEF CInv, TypeOK
<1>1. PICK q \in Log : Question(w, q)
  BY DEF EvidenceInv, EachIsAsked
<1>2. \A l \in Log : firedFrom[w][l] <= evaluated[w][l]
  <2> SUFFICES ASSUME NEW l \in Log
               PROVE  firedFrom[w][l] <= evaluated[w][l]
    OBVIOUS
  <2>1. evaluated[w][l] \in Nat /\ firedFrom[w][l] \in Nat
    BY <1>0, MatchTypes
  <2> QED
    BY <1>1, <2>1 DEF Question
<1>3. ASSUME NEW l \in Log, NEW i \in MatchesFrom(w, l, firedFrom[w][l])
      PROVE  <<l, i>> \in unread[w]
  <2>1. evaluated[w][l] \in Nat /\ firedFrom[w][l] \in Nat /\ i \in Nat
    BY <1>0, <1>3, MatchTypes
  <2>2. i > evaluated[w][l] \/ (l = q /\ i = evaluated[w][l])
    <3>1. CASE l = q
      BY <1>1, <2>1, <3>1 DEF Question
    <3>2. CASE l # q
      BY <1>1, <2>1, <3>2 DEF Question, MatchesFrom
    <3> QED
      BY <3>1, <3>2
  <2>3. CASE i > evaluated[w][l]
    <3>1. i \in Matches(w, l)
      BY <2>3 DEF MatchesFrom, Matches
    <3> QED
      BY <3>1 DEF EvidenceInv, MatchesUnread
  <2> QED
    BY <1>1, <2>2, <2>3 DEF Question
<1>4. ASSUME w \notin lost \cup settled, NEW l \in Log, NEW i \in Nat, <<l, i>> \in unread[w]
      PROVE  i \in MatchesFrom(w, l, firedFrom[w][l])
  <2>1. i \in Matches(w, l) \/ IsAsked(w, l, i)
    BY <1>4 DEF EvidenceInv, UnreadInSight
  <2>2. CASE i \in Matches(w, l)
    <3>1. firedFrom[w][l] <= evaluated[w][l]
      BY <1>2
    <3>2. evaluated[w][l] \in Nat /\ firedFrom[w][l] \in Nat
      BY <1>0, MatchTypes
    <3> QED
      BY <2>2, <3>1, <3>2 DEF Matches, MatchesFrom
  <2>3. CASE IsAsked(w, l, i)
    <3>1. l = q
      BY <1>0, <1>1, <2>3, MatchTypes DEF IsAsked, Question
    <3> QED
      BY <1>1, <1>4, <2>3, <3>1 DEF IsAsked, Question
  <2> QED
    BY <2>1, <2>2, <2>3
<1> QED
  BY <1>2, <1>3, <1>4

-----------------------------------------------------------------------------
(* The steps.                                                              *)

(* Most of a tick leaves the evidence alone.                               *)
LEMMA EvidenceKept == EvidenceInv /\ UNCHANGED evidenceVars => EvidenceInv'
BY DEF EvidenceInv, evidenceVars, MarksInLogs, EachIsAsked, Question, MatchesUnread,
   UnreadInSight, IsAsked, DeferredIsAsked, RetiredIsDecided, UnliftedIsBlank, Matches,
   MatchesFrom

(* A new change is unread by every condition on watch it matches.          *)
LEMMA DrainKeepsEvidence ==
  ASSUME CInv, EvidenceInv, NEW l \in Log, NEW watched \in SUBSET Waiter, Drain(l, watched)
  PROVE  EvidenceInv'
<1> DEFINE n == Len(log[l]) + 1
<1>0. /\ TypeOK /\ Ownership
      /\ live \subseteq Waiter /\ batch \subseteq Waiter /\ owed \cap live = {}
  BY DEF CInv, TypeOK, Ownership
<1>1. /\ UNCHANGED <<lifted, live, evaluated, firedFrom, lost, everFired, settled, owed, batch>>
      /\ log' = [log EXCEPT ![l] = Append(@, watched)]
      /\ unread' = [w \in Waiter |-> IF w \in watched \cap live THEN unread[w] \cup {<<l, n>>}
                                                               ELSE unread[w]]
      /\ watched \subseteq live \cup batch
  BY DEF Drain, watchVars, markVars, retryVars, expiryVars, verdictVars
<1>2. ASSUME NEW k \in Log
      PROVE  /\ Len(log[k]) \in Nat
             /\ Len(log'[k]) = IF k = l THEN n ELSE Len(log[k])
             /\ \A i \in 1 .. Len(log[k]) : log'[k][i] = log[k][i]
             /\ log'[l][n] = watched
  <2>1. log[k] \in Seq(SUBSET Waiter) /\ log[l] \in Seq(SUBSET Waiter)
    BY <1>0 DEF TypeOK
  <2>2. log'[l] = Append(log[l], watched) /\ (k # l => log'[k] = log[k])
    BY <1>0, <1>1 DEF TypeOK
  <2> QED
    BY <2>1, <2>2, AppendProperties, LenProperties
<1>3. ASSUME NEW w \in Waiter, NEW k \in Log, NEW m \in Nat
      PROVE  /\ MatchesFrom(w, k, m) \subseteq MatchesFrom(w, k, m)'
             /\ \A i \in MatchesFrom(w, k, m)' :
                  i \in MatchesFrom(w, k, m) \/ (k = l /\ i = n /\ w \in watched)
  BY <1>2, <1>3 DEF MatchesFrom
<1>4. MarksInLogs'
  <2> SUFFICES ASSUME NEW w \in Waiter, NEW k \in Log
               PROVE  evaluated[w][k] <= Len(log'[k])
    BY <1>1 DEF MarksInLogs
  <2>1. evaluated[w][k] <= Len(log[k]) /\ evaluated[w][k] \in Nat
    BY <1>0, MatchTypes DEF EvidenceInv, MarksInLogs
  <2> QED
    BY <1>2, <2>1
<1>5. EachIsAsked'
  <2> SUFFICES ASSUME NEW w \in batch
               PROVE  \E q \in Log : Question(w, q)'
    BY <1>1 DEF EachIsAsked
  <2>1. PICK q \in Log : Question(w, q)
    BY DEF EvidenceInv, EachIsAsked
  <2>2. firedFrom[w][q] \in Nat /\ evaluated[w][q] \in Nat /\ evaluated[w][q] <= Len(log[q])
    BY <1>0, MatchTypes DEF EvidenceInv, MarksInLogs
  <2>3. \A i \in MatchesFrom(w, q, firedFrom[w][q])' : evaluated[w][q] <= i
    BY <1>0, <1>1, <1>2, <1>3, <2>1, <2>2 DEF Question
  <2>4. unread[w] \subseteq unread'[w]
    BY <1>0, <1>1
  <2> QED
    BY <1>0, <1>1, <1>3, <2>1, <2>2, <2>3, <2>4 DEF Question
<1>6. MatchesUnread'
  <2> SUFFICES ASSUME NEW w \in live, NEW k \in Log, NEW i \in Matches(w, k)'
               PROVE  <<k, i>> \in unread'[w]
    BY <1>1 DEF MatchesUnread
  <2>1. i \in Matches(w, k) \/ (k = l /\ i = n /\ w \in watched)
    BY <1>0, <1>1, <1>3, MatchTypes DEF Matches
  <2> QED
    BY <1>0, <1>1, <2>1 DEF EvidenceInv, MatchesUnread
<1>7. UnreadInSight'
  <2> SUFFICES ASSUME NEW w \in live \ settled, NEW k \in Log, NEW i \in Nat,
                      <<k, i>> \in unread'[w]
               PROVE  i \in Matches(w, k)' \/ (w \in batch /\ IsAsked(w, k, i))
    BY <1>1 DEF UnreadInSight, IsAsked
  <2>1. CASE <<k, i>> \in unread[w]
    <3>1. i \in Matches(w, k) \/ (w \in batch /\ IsAsked(w, k, i))
      BY <2>1 DEF EvidenceInv, UnreadInSight
    <3> QED
      BY <1>0, <1>1, <1>3, <3>1, MatchTypes DEF Matches
  <2>2. CASE k = l /\ i = n /\ w \in watched
    <3>1. evaluated[w][l] \in Nat /\ evaluated[w][l] <= Len(log[l]) /\ Len(log[l]) \in Nat
      BY <1>0, MatchTypes DEF EvidenceInv, MarksInLogs
    <3> QED
      BY <1>1, <1>2, <2>2, <3>1 DEF Matches, MatchesFrom
  <2> QED
    BY <1>0, <1>1, <2>1, <2>2
<1>8. DeferredIsAsked'
  BY <1>0, <1>1 DEF EvidenceInv, DeferredIsAsked, IsAsked
<1>9. RetiredIsDecided' /\ UnliftedIsBlank'
  BY <1>0, <1>1 DEF EvidenceInv, RetiredIsDecided, UnliftedIsBlank, TypeOK
<1> QED
  BY <1>4, <1>5, <1>6, <1>7, <1>8, <1>9 DEF EvidenceInv

(* A retirement defers or decides the branch of what it takes off watch.   *)
LEMMA RetireKeepsEvidence ==
  ASSUME CInv, EvidenceInv, NEW ws \in SUBSET lifted, Retire(ws),
         UNCHANGED <<log, lifted, evaluated, firedFrom, lost, everFired, batch, unread>>
  PROVE  EvidenceInv'
<1>0. TypeOK /\ Ownership /\ lifted \subseteq Waiter /\ batch \subseteq Waiter
  BY DEF CInv, TypeOK
<1>1. CASE ws = {}
  BY <1>1, EvidenceKept DEF Retire, evidenceVars
<1>2. CASE ws # {}
  <2>1. /\ live' = live \ ws
        /\ settled' = settled \cup Declined(ws, everFired) \cup Expiring(ws, everFired, batch)
        /\ owed' = owed \cup Deferred(ws, everFired, batch)
    BY <1>2 DEF Retire, DropRetired
  <2>2. /\ MarksInLogs' /\ EachIsAsked' /\ MatchesUnread' /\ UnreadInSight'
        /\ UnliftedIsBlank'
    BY <2>1 DEF EvidenceInv, MarksInLogs, EachIsAsked, Question, MatchesUnread, UnreadInSight,
       IsAsked, UnliftedIsBlank, Matches, MatchesFrom
  <2>3. DeferredIsAsked'
    <3> SUFFICES ASSUME NEW w \in (batch \cap owed') \ settled', NEW l \in Log, NEW i \in Nat,
                        <<l, i>> \in unread[w]
                 PROVE  IsAsked(w, l, i)
      BY DEF DeferredIsAsked, IsAsked
    <3>1. w \notin settled
      BY <2>1
    <3>2. CASE w \in owed
      BY <3>1, <3>2 DEF EvidenceInv, DeferredIsAsked
    <3>3. CASE w \in Deferred(ws, everFired, batch)
      <4>1. w \in ws \cap Otherwise /\ w \notin everFired /\ ~GateOpen(w)
        BY <3>3 DEF Deferred, Declined, Undecided
      <4>2. CASE w \in live
        <5>1. i \notin Matches(w, l)
          BY <4>1 DEF GateOpen, OpenLogs
        <5> QED
          BY <3>1, <4>2, <5>1 DEF EvidenceInv, UnreadInSight
      <4>3. CASE w \notin live
        BY <3>1, <3>2, <4>1, <4>3 DEF EvidenceInv, RetiredIsDecided
      <4> QED
        BY <4>2, <4>3
    <3> QED
      BY <2>1, <3>2, <3>3
  <2>4. RetiredIsDecided'
    BY <2>1 DEF EvidenceInv, RetiredIsDecided, Expiring, Deferred, Declined, Undecided
  <2> QED
    BY <2>2, <2>3, <2>4 DEF EvidenceInv
<1> QED
  BY <1>1, <1>2

(* A trim that drops an unanswered change of a condition on watch records  *)
(* it: the absence is settled if no judgement saw the change, and a failed *)
(* judgement is not retried if one did.                                    *)
LEMMA TrimKeepsEvidence ==
  ASSUME CInv, EvidenceInv, ObserveEnds
  PROVE  EvidenceInv'
<1>0. /\ TypeOK /\ Ownership
      /\ live \subseteq Waiter /\ batch \subseteq Waiter
      /\ live \subseteq Known /\ batch \subseteq Known
  BY DEF CInv, TypeOK, Known
<1>1. /\ UNCHANGED <<lifted, live, everFired, batch>>
      /\ evaluated' = Forget(evaluated, Known) /\ firedFrom' = Forget(firedFrom, batch)
      /\ owed' = owed \cap batch
      /\ settled' = settled \cup LostUnjudged
      /\ lost' = (lost \cup LostDispatched) \cap Known
      /\ unread' = [w \in Waiter |-> IF w \in Known THEN unread[w] ELSE {}]
      /\ log' = [l \in Log |-> [i \in 1 .. Len(log[l]) |->
                                  IF i <= Len(log[l]) - Retention THEN {} ELSE log[l][i]]]
  BY DEF ObserveEnds, Reconcile, Collect, watchVars, verdictVars
<1>2. /\ \A w \in live \cup batch : evaluated'[w] = evaluated[w] /\ unread'[w] = unread[w]
      /\ \A w \in batch : firedFrom'[w] = firedFrom[w]
  BY <1>0, <1>1 DEF Forget
<1>3. ASSUME NEW l \in Log
      PROVE  /\ Len(log'[l]) = Len(log[l]) /\ Len(log[l]) \in Nat
             /\ \A i \in 1 .. Len(log[l]) :
                  log'[l][i] = IF i <= Len(log[l]) - Retention THEN {} ELSE log[l][i]
  <2>1. Len(log[l]) \in Nat
    BY <1>0, LenProperties DEF TypeOK
  <2>2. log'[l] = [i \in 1 .. Len(log[l]) |->
                     IF i <= Len(log[l]) - Retention THEN {} ELSE log[l][i]]
    BY <1>1
  <2> QED
    BY <2>1, <2>2
<1>4. ASSUME NEW w \in Waiter, NEW l \in Log, NEW m \in Nat
      PROVE  /\ MatchesFrom(w, l, m)' \subseteq MatchesFrom(w, l, m)
             /\ \A i \in MatchesFrom(w, l, m) :
                  i <= Len(log[l]) - Retention \/ i \in MatchesFrom(w, l, m)'
  BY <1>3, <1>4 DEF MatchesFrom
<1>5. MarksInLogs'
  <2> SUFFICES ASSUME NEW w \in Waiter, NEW l \in Log
               PROVE  evaluated'[w][l] <= Len(log'[l])
    BY DEF MarksInLogs
  <2>1. evaluated'[w][l] = evaluated[w][l] \/ evaluated'[w][l] = 0
    BY <1>1 DEF Forget
  <2> QED
    BY <1>3, <2>1 DEF EvidenceInv, MarksInLogs
<1>6. EachIsAsked'
  <2> SUFFICES ASSUME NEW w \in batch
               PROVE  \E q \in Log : Question(w, q)'
    BY <1>1 DEF EachIsAsked
  <2>1. PICK q \in Log : Question(w, q)
    BY DEF EvidenceInv, EachIsAsked
  <2>2. firedFrom[w][q] \in Nat /\ evaluated[w][q] \in Nat
    BY <1>0, MatchTypes
  <2>3. \A i \in MatchesFrom(w, q, firedFrom[w][q])' : evaluated[w][q] <= i
    BY <1>0, <1>2, <1>4, <2>1, <2>2 DEF Question
  <2>4. ASSUME w \in live' \ lost'
        PROVE  evaluated[w][q] \in MatchesFrom(w, q, firedFrom[w][q])'
    <3>1. w \in live /\ w \notin lost /\ w \notin LostDispatched
      BY <1>0, <1>1, <2>4
    <3>2. evaluated[w][q] \in MatchesFrom(w, q, firedFrom[w][q])
      BY <2>1, <3>1 DEF Question
    <3>3. evaluated[w][q] \notin Dropped(w, q)
      BY <2>2, <3>1 DEF LostDispatched
    <3>4. ~(evaluated[w][q] <= Len(log[q]) - Retention)
      BY <3>2, <3>3 DEF Dropped, Since
    <3> QED
      BY <1>0, <1>2, <1>4, <2>2, <3>2, <3>4
  <2> QED
    BY <1>2, <2>1, <2>3, <2>4 DEF Question
<1>7. MatchesUnread'
  <2> SUFFICES ASSUME NEW w \in live, NEW l \in Log, NEW i \in Matches(w, l)'
               PROVE  <<l, i>> \in unread[w]
    BY <1>1, <1>2 DEF MatchesUnread
  <2>1. i \in Matches(w, l)
    BY <1>0, <1>2, <1>4, MatchTypes DEF Matches
  <2> QED
    BY <2>1 DEF EvidenceInv, MatchesUnread
<1>8. UnreadInSight'
  <2> SUFFICES ASSUME NEW w \in live' \ settled', NEW l \in Log, NEW i \in Nat,
                      <<l, i>> \in unread'[w]
               PROVE  i \in Matches(w, l)' \/ (w \in batch' /\ IsAsked(w, l, i)')
    BY DEF UnreadInSight
  <2>1. w \in live /\ w \notin settled /\ w \notin LostUnjudged /\ <<l, i>> \in unread[w]
    BY <1>1, <1>2
  <2>2. i \in Matches(w, l) \/ (w \in batch /\ IsAsked(w, l, i))
    BY <2>1 DEF EvidenceInv, UnreadInSight
  <2>3. CASE w \in batch /\ IsAsked(w, l, i)
    BY <1>1, <1>2, <2>3 DEF IsAsked
  <2>4. CASE i \in Matches(w, l)
    <3>1. Since(w)[l] \in Nat /\ Since(w)[l] <= evaluated[w][l] /\ evaluated[w][l] \in Nat
      BY <1>0, <2>1, RewindRestores, MatchTypes DEF Since
    <3>2. i \in MatchesFrom(w, l, Since(w)[l]) /\ i > evaluated[w][l]
      BY <2>4, <3>1 DEF Matches, MatchesFrom
    <3>3. i \notin Dropped(w, l)
      BY <2>1, <3>2 DEF LostUnjudged
    <3>4. ~(i <= Len(log[l]) - Retention)
      BY <3>2, <3>3 DEF Dropped
    <3> QED
      BY <1>0, <1>2, <1>4, <2>1, <2>4, <3>1, <3>4 DEF Matches
  <2> QED
    BY <2>2, <2>3, <2>4
<1>9. DeferredIsAsked'
  <2> SUFFICES ASSUME NEW w \in (batch' \cap owed') \ settled', NEW l \in Log, NEW i \in Nat,
                      <<l, i>> \in unread'[w]
               PROVE  IsAsked(w, l, i)'
    BY DEF DeferredIsAsked
  <2>1. w \in (batch \cap owed) \ settled /\ <<l, i>> \in unread[w]
    BY <1>1, <1>2
  <2>2. IsAsked(w, l, i)
    BY <2>1 DEF EvidenceInv, DeferredIsAsked
  <2> QED
    BY <1>2, <2>1, <2>2 DEF IsAsked
<1>10. RetiredIsDecided' /\ UnliftedIsBlank'
  BY <1>1 DEF EvidenceInv, RetiredIsDecided, UnliftedIsBlank
<1> QED
  BY <1>5, <1>6, <1>7, <1>8, <1>9, <1>10 DEF EvidenceInv

(* A failed or discarded judgement gives its change back, or settles it.   *)
LEMMA RewindKeepsEvidence ==
  ASSUME CInv, EvidenceInv, NEW ws \in SUBSET ((batch \cap live) \ lost),
         live' \subseteq live, ws \subseteq live', evaluated' = RewoundMarks(ws),
         batch' = {}, (batch \cap live') \ ws \subseteq settled' \cup
             {w \in batch : unread'[w] = unread[w] \ Asked(w)},
         settled \subseteq settled',
         \A w \in Waiter : \/ unread'[w] = unread[w]
                           \/ w \in batch \ ws /\ unread'[w] = unread[w] \ Asked(w),
         UNCHANGED <<log, lifted>>,
         (lifted \ live') \cap Otherwise \subseteq everFired' \cup settled'
  PROVE  EvidenceInv'
<1>0. /\ TypeOK /\ Ownership
      /\ live \subseteq lifted /\ lifted \subseteq Waiter /\ batch \subseteq lifted
  BY DEF CInv, TypeOK, Ownership
<1>1. \A w \in Waiter : evaluated'[w] = IF w \in ws THEN firedFrom[w] ELSE evaluated[w]
  BY DEF RewoundMarks
<1>2. ASSUME NEW w \in Waiter, NEW l \in Log
      PROVE  Matches(w, l)' = IF w \in ws THEN MatchesFrom(w, l, firedFrom[w][l]) ELSE Matches(w, l)
  BY <1>1 DEF Matches, MatchesFrom
<1>3. MarksInLogs'
  <2> SUFFICES ASSUME NEW w \in Waiter, NEW l \in Log
               PROVE  evaluated'[w][l] <= Len(log[l])
    BY DEF MarksInLogs
  <2>1. evaluated[w][l] <= Len(log[l]) /\ evaluated[w][l] \in Nat /\ firedFrom[w][l] \in Nat
    BY <1>0, MatchTypes DEF EvidenceInv, MarksInLogs
  <2>2. w \in ws => firedFrom[w][l] <= evaluated[w][l]
    BY RewindRestores
  <2>3. Len(log[l]) \in Nat
    BY <1>0, LenProperties DEF TypeOK
  <2> QED
    BY <1>1, <2>1, <2>2, <2>3
<1>4. EachIsAsked' /\ DeferredIsAsked'
  BY DEF EachIsAsked, DeferredIsAsked
<1>5. MatchesUnread'
  <2> SUFFICES ASSUME NEW w \in live', NEW l \in Log, NEW i \in Matches(w, l)'
               PROVE  <<l, i>> \in unread'[w]
    BY DEF MatchesUnread
  <2>1. w \in live /\ w \in Waiter
    BY <1>0
  <2>2. CASE w \in ws
    BY <1>2, <2>1, <2>2, RewindRestores
  <2>3. CASE w \notin ws
    <3>1. i \in Matches(w, l) /\ <<l, i>> \in unread[w]
      BY <1>2, <2>1, <2>3 DEF EvidenceInv, MatchesUnread
    <3>2. ~IsAsked(w, l, i)
      BY <1>0, <2>1, <3>1, MatchTypes DEF IsAsked, Matches, MatchesFrom
    <3> QED
      BY <2>1, <3>1, <3>2, AskedMembers
  <2> QED
    BY <2>2, <2>3
<1>6. UnreadInSight'
  <2> SUFFICES ASSUME NEW w \in live' \ settled', NEW l \in Log, NEW i \in Nat,
                      <<l, i>> \in unread'[w]
               PROVE  i \in Matches(w, l)'
    BY DEF UnreadInSight
  <2>1. w \in live \ settled /\ w \in Waiter /\ <<l, i>> \in unread[w]
    BY <1>0
  <2>2. CASE w \in ws
    BY <1>2, <2>1, <2>2, RewindRestores
  <2>3. CASE w \notin ws
    <3>1. i \in Matches(w, l) \/ (w \in batch /\ IsAsked(w, l, i))
      BY <2>1 DEF EvidenceInv, UnreadInSight
    <3>2. ~(w \in batch /\ IsAsked(w, l, i))
      BY <2>1, <2>3, AskedMembers
    <3> QED
      BY <1>2, <2>1, <2>3, <3>1, <3>2
  <2> QED
    BY <2>2, <2>3
<1>7. RetiredIsDecided' /\ UnliftedIsBlank'
  BY <1>0 DEF EvidenceInv, RetiredIsDecided, UnliftedIsBlank
<1> QED
  BY <1>3, <1>4, <1>5, <1>6, <1>7 DEF EvidenceInv

(* A condition starts with nothing seen and its marks behind the logs.     *)
LEMMA LiftKeepsEvidence ==
  ASSUME CInv, EvidenceInv, NEW new \in SUBSET Waiter, Lift(new),
         UNCHANGED <<log, firedFrom, lost, everFired, settled, owed, batch, unread>>
  PROVE  EvidenceInv'
<1>0. /\ TypeOK /\ Ownership /\ live \subseteq lifted /\ lifted \subseteq Waiter
      /\ batch \subseteq lifted
  BY DEF CInv, TypeOK, Ownership
<1>1. /\ new \cap lifted = {} /\ lifted' = lifted \cup new /\ live' = live \cup new
      /\ \A w \in Waiter : w \notin new => evaluated'[w] = evaluated[w]
      /\ \A w \in new, l \in Log : evaluated'[w][l] = Len(log[l])
  BY DEF Lift
<1>2. \A w \in new : unread[w] = {} /\ \A l \in Log : Matches(w, l)' = {}
  <2> SUFFICES ASSUME NEW w \in new
               PROVE  unread[w] = {} /\ \A l \in Log : Matches(w, l)' = {}
    OBVIOUS
  <2>1. \A l \in Log : Len(log[l]) \in Nat
    BY <1>0, LenProperties DEF TypeOK
  <2> QED
    BY <1>1, <2>1 DEF EvidenceInv, UnliftedIsBlank, Matches, MatchesFrom
<1>3. MarksInLogs'
  <2>1. \A l \in Log : Len(log[l]) \in Nat
    BY <1>0, LenProperties DEF TypeOK
  <2> QED
    BY <1>1, <2>1 DEF EvidenceInv, MarksInLogs
<1>4. EachIsAsked' /\ DeferredIsAsked'
  BY <1>0, <1>1 DEF EvidenceInv, EachIsAsked, Question, DeferredIsAsked, IsAsked, MatchesFrom
<1>5. MatchesUnread' /\ UnreadInSight'
  BY <1>0, <1>1, <1>2 DEF EvidenceInv, MatchesUnread, UnreadInSight, IsAsked, Matches, MatchesFrom
<1>6. RetiredIsDecided' /\ UnliftedIsBlank'
  BY <1>1 DEF EvidenceInv, RetiredIsDecided, UnliftedIsBlank
<1> QED
  BY <1>3, <1>4, <1>5, <1>6 DEF EvidenceInv

(* A judgement is asked about the first unanswered match of each condition.*)
LEMMA EvaluateKeepsEvidence ==
  ASSUME CInv, EvidenceInv, Evaluate
  PROVE  EvidenceInv'
<1>0. /\ TypeOK /\ Ownership /\ batch = {}
      /\ Eligible \subseteq live /\ live \subseteq Waiter /\ owed \cap live = {}
  BY DEF CInv, TypeOK, Ownership, ControlInv, BatchAccounted, Evaluate, Eligible
<1>1. /\ UNCHANGED <<log, lifted, live, lost, everFired, settled, owed, unread>>
      /\ batch' = Eligible
      /\ firedFrom' = [w \in Waiter |-> IF w \in Eligible THEN evaluated[w] ELSE firedFrom[w]]
      /\ evaluated' = [w \in Waiter |-> IF w \in Eligible THEN MarksFor(w) ELSE evaluated[w]]
  BY DEF Evaluate, watchVars, retryVars, expiryVars, historyVars
<1>2. ASSUME NEW w \in Eligible
      PROVE  /\ w \in live /\ w \in Waiter /\ MatchLog(w) \in Log /\ FirstMatch(w) \in Nat
             /\ FirstMatch(w) \in Matches(w, MatchLog(w))
             /\ \A j \in Matches(w, MatchLog(w)) : FirstMatch(w) <= j
             /\ firedFrom'[w] = evaluated[w]
             /\ evaluated'[w] = [evaluated[w] EXCEPT ![MatchLog(w)] = FirstMatch(w)]
             /\ evaluated'[w][MatchLog(w)] = FirstMatch(w)
             /\ \A k \in Log \ {MatchLog(w)} : evaluated'[w][k] = evaluated[w][k]
  <2>1. w \in Waiter /\ OpenLogs(w) # {}
    BY <1>0 DEF Eligible
  <2>2. evaluated[w] \in [Log -> Nat]
    BY <1>0, <2>1 DEF TypeOK
  <2>3. evaluated'[w] = [evaluated[w] EXCEPT ![MatchLog(w)] = FirstMatch(w)]
    BY <1>1, <2>1 DEF MarksFor
  <2>4. /\ MatchLog(w) \in Log /\ FirstMatch(w) \in Nat
        /\ FirstMatch(w) \in Matches(w, MatchLog(w))
        /\ \A j \in Matches(w, MatchLog(w)) : FirstMatch(w) <= j
    BY <1>0, <2>1, FirstMatchIsMatch
  <2> QED
    BY <1>0, <1>1, <2>1, <2>2, <2>3, <2>4
<1>3. MarksInLogs'
  <2> SUFFICES ASSUME NEW w \in Waiter, NEW l \in Log
               PROVE  evaluated'[w][l] <= Len(log[l])
    BY <1>1 DEF MarksInLogs
  <2>1. CASE w \in Eligible /\ l = MatchLog(w)
    BY <1>0, <1>2, <2>1, MatchBounds
  <2>2. CASE ~(w \in Eligible /\ l = MatchLog(w))
    BY <1>1, <1>2, <2>2 DEF EvidenceInv, MarksInLogs
  <2> QED
    BY <2>1, <2>2
<1>4. EachIsAsked'
  <2> SUFFICES ASSUME NEW w \in Eligible
               PROVE  \E q \in Log : Question(w, q)'
    BY <1>1 DEF EachIsAsked
  <2>1. PICK q \in Log, f \in Nat : q = MatchLog(w) /\ f = FirstMatch(w)
    BY <1>2
  <2>2. /\ w \in live /\ w \in Waiter /\ f \in Matches(w, q) /\ \A j \in Matches(w, q) : f <= j
        /\ firedFrom'[w] = evaluated[w] /\ evaluated'[w][q] = f
        /\ \A k \in Log \ {q} : evaluated'[w][k] = evaluated[w][k]
    BY <1>2, <2>1
  <2>3. <<q, f>> \in unread[w]
    BY <2>2 DEF EvidenceInv, MatchesUnread
  <2>4. MatchesFrom(w, q, firedFrom[w][q])' = Matches(w, q)
    BY <1>1, <2>2 DEF Matches, MatchesFrom
  <2>5. evaluated[w][q] < f
    BY <1>0, <2>2, MatchBounds
  <2> QED
    BY <1>1, <2>2, <2>3, <2>4, <2>5 DEF Question
<1>5. MatchesUnread'
  <2> SUFFICES ASSUME NEW w \in live, NEW l \in Log, NEW i \in Matches(w, l)'
               PROVE  <<l, i>> \in unread[w]
    BY <1>1 DEF MatchesUnread
  <2>1. evaluated[w][l] <= evaluated'[w][l] /\ evaluated[w][l] \in Nat /\ evaluated'[w][l] \in Nat
    <3>1. CASE w \in Eligible /\ l = MatchLog(w)
      <4>1. evaluated'[w][l] \in Matches(w, l)
        BY <1>2, <3>1
      <4> QED
        BY <1>0, <4>1, MatchBounds
    <3>2. CASE ~(w \in Eligible /\ l = MatchLog(w))
      <4>1. evaluated'[w][l] = evaluated[w][l]
        BY <1>0, <1>1, <1>2, <3>2
      <4>2. evaluated[w][l] \in Nat
        BY <1>0, MatchBounds
      <4> QED
        BY <4>1, <4>2
    <3> QED
      BY <3>1, <3>2
  <2>2. i \in Matches(w, l)
    BY <1>0, <1>1, <2>1 DEF Matches, MatchesFrom
  <2> QED
    BY <2>2 DEF EvidenceInv, MatchesUnread
<1>6. UnreadInSight'
  <2> SUFFICES ASSUME NEW w \in live \ settled, NEW l \in Log, NEW i \in Nat,
                      <<l, i>> \in unread[w]
               PROVE  i \in Matches(w, l)' \/ (w \in Eligible /\ IsAsked(w, l, i)')
    BY <1>1 DEF UnreadInSight
  <2>1. i \in Matches(w, l)
    BY <1>0 DEF EvidenceInv, UnreadInSight
  <2>2. CASE w \in Eligible /\ l = MatchLog(w)
    <3>1. FirstMatch(w) <= i /\ FirstMatch(w) \in Nat /\ evaluated'[w][l] = FirstMatch(w)
      BY <1>2, <2>1, <2>2
    <3>2. i > FirstMatch(w) => i \in Matches(w, l)'
      BY <1>1, <2>1, <3>1 DEF Matches, MatchesFrom
    <3>3. i = FirstMatch(w) => IsAsked(w, l, i)'
      BY <1>0, <1>2, <2>1, <2>2, <3>1, MatchBounds DEF IsAsked
    <3> QED
      BY <2>2, <3>1, <3>2, <3>3
  <2>3. CASE ~(w \in Eligible /\ l = MatchLog(w))
    <3>1. evaluated'[w][l] = evaluated[w][l]
      BY <1>0, <1>1, <1>2, <2>3
    <3> QED
      BY <1>1, <2>1, <3>1 DEF Matches, MatchesFrom
  <2> QED
    BY <2>2, <2>3
<1>7. DeferredIsAsked' /\ RetiredIsDecided' /\ UnliftedIsBlank'
  BY <1>0, <1>1 DEF EvidenceInv, DeferredIsAsked, RetiredIsDecided, UnliftedIsBlank
<1> QED
  BY <1>3, <1>4, <1>5, <1>6, <1>7 DEF EvidenceInv

(* A pause that discards a judgement counts as its failure.                *)
LEMMA PauseKeepsEvidence ==
  ASSUME CInv, EvidenceInv, Pause,
         UNCHANGED <<log, lifted, live, firedFrom, lost, everFired, owed, unread>>
  PROVE  EvidenceInv'
<1>0. /\ TypeOK /\ Ownership
      /\ live \subseteq lifted /\ lifted \subseteq Waiter /\ batch \subseteq lifted
  BY DEF CInv, TypeOK, Ownership
<1>1. CASE place = "judging"
  <2> DEFINE ws == Rewound(batch, live)
  <2>1. /\ evaluated' = RewoundMarks(ws) /\ settled' = settled \cup (batch \ ws) /\ batch' = {}
    BY <1>1 DEF Pause, RemainingBatch
  <2>2. ws \in SUBSET ((batch \cap live) \ lost)
    BY DEF Rewound
  <2> HIDE DEF ws
  <2>3. (lifted \ live') \cap Otherwise \subseteq everFired' \cup settled'
    BY <1>0, <2>1, <2>2 DEF EvidenceInv, RetiredIsDecided
  <2> QED
    BY <2>1, <2>2, <2>3, RewindKeepsEvidence
<1>2. CASE place # "judging"
  <2>1. Rewound({}, live) = {}
    BY DEF Rewound
  <2>2. evaluated' = RewoundMarks({}) /\ settled' = settled /\ batch' = batch
    BY <1>2, <2>1 DEF Pause, RemainingBatch
  <2>3. evaluated' = evaluated
    BY <1>0, <2>2 DEF RewoundMarks, TypeOK
  <2> QED
    BY <2>2, <2>3, EvidenceKept DEF evidenceVars
<1> QED
  BY <1>1, <1>2

(* A verdict answers the changes asked about, or gives them back.          *)
LEMMA VerdictKeepsEvidence ==
  ASSUME CInv, EvidenceInv, ApplyVerdict
  PROVE  EvidenceInv'
<1> DEFINE retiring == verdict.retired \ Clocked
           ws == Rewound(batch \ Answered, live \ retiring)
           fired == everFired \cup verdict.fired
           offered == IF verdict.failed THEN {} ELSE retiring \cup (batch \cap owed)
<1>0. /\ TypeOK /\ Ownership /\ live \subseteq lifted /\ lifted \subseteq Waiter
      /\ batch \subseteq lifted
      /\ verdict.fired \subseteq batch /\ retiring \subseteq batch /\ Answered \subseteq batch
  <2>1. verdict \in [fired : SUBSET batch, retired : SUBSET batch, failed : BOOLEAN]
    BY DEF CInv, TypeOK, ApplyVerdict
  <2> QED
    BY <2>1 DEF CInv, TypeOK, Ownership, Answered
<1>1. /\ UNCHANGED <<log, lifted, firedFrom, owed>>
      /\ everFired' = fired /\ live' = live \ retiring /\ batch' = {}
      /\ evaluated' = RewoundMarks(ws)
      /\ settled' = settled \cup ((batch \ Answered) \ ws) \cup Declined(offered, fired)
                            \cup Expiring(offered, fired, {})
      /\ unread' = [w \in Waiter |-> IF w \in batch \cap Answered THEN unread[w] \ Asked(w)
                                                                   ELSE unread[w]]
  BY DEF ApplyVerdict, markVars
<1>2. ws \in SUBSET ((batch \cap live) \ lost) /\ ws \subseteq live' /\ ws \cap Answered = {}
  BY <1>1 DEF Rewound
<1>3. (lifted \ live') \cap Otherwise \subseteq everFired' \cup settled'
  <2> SUFFICES ASSUME NEW w \in lifted \cap Otherwise, w \notin live', w \notin fired,
                      w \notin settled'
               PROVE  FALSE
    BY <1>1
  <2>1. w \in batch /\ w \in retiring \cup (batch \cap owed)
    BY <1>0, <1>1 DEF EvidenceInv, RetiredIsDecided
  <2>2. CASE verdict.failed
    BY <1>1, <1>2, <2>1, <2>2 DEF Answered
  <2>3. CASE ~verdict.failed
    BY <1>1, <2>1, <2>3 DEF Expiring, Declined, Deferred, Undecided
  <2> QED
    BY <2>2, <2>3
<1>4. /\ live' \subseteq live
      /\ settled \subseteq settled'
      /\ (batch \cap live') \ ws \subseteq
           settled' \cup {w \in batch : unread'[w] = unread[w] \ Asked(w)}
      /\ \A w \in Waiter : \/ unread'[w] = unread[w]
                           \/ w \in batch \ ws /\ unread'[w] = unread[w] \ Asked(w)
  <2> HIDE DEF ws, fired, offered, retiring
  <2> QED
    BY <1>0, <1>1, <1>2
<1> HIDE DEF ws, fired, offered, retiring
<1> QED
  BY <1>1, <1>2, <1>3, <1>4, RewindKeepsEvidence

(* Every step keeps the evidence accounted for.                            *)
LEMMA EvidenceStep == CInv /\ EvidenceInv /\ [Next]_vars => EvidenceInv'
<1> SUFFICES ASSUME CInv, EvidenceInv, [Next]_vars
             PROVE  EvidenceInv'
  OBVIOUS
<1> USE DEF watchVars, markVars, retryVars, expiryVars, verdictVars, historyVars
<1>1. ASSUME NEW l \in Log, NEW watched \in SUBSET Waiter, Drain(l, watched)
      PROVE  EvidenceInv'
  BY <1>1, DrainKeepsEvidence
<1>2. ASSUME ObserveAnswer PROVE EvidenceInv'
  <2>1. UNCHANGED evidenceVars
    BY <1>2 DEF ObserveAnswer, Answers, JudgementArrives, PlanArrives, SubPlanArrives,
       StepAnswered, RequestFails, evidenceVars
  <2> QED
    BY <2>1, EvidenceKept
<1>3. ASSUME Expire PROVE EvidenceInv'
  <2>1. PICK ws \in SUBSET lifted : Retire(ws)
    BY <1>3 DEF Expire, CInv, TypeOK
  <2>2. UNCHANGED <<log, lifted, evaluated, firedFrom, lost, everFired, batch, unread>>
    BY <1>3 DEF Expire
  <2> QED
    BY <2>1, <2>2, RetireKeepsEvidence
<1>4. ASSUME RetireQuiet PROVE EvidenceInv'
  <2>1. PICK ws \in SUBSET lifted : Retire(ws)
    BY <1>4 DEF RetireQuiet, CInv, Ownership
  <2>2. UNCHANGED <<log, lifted, evaluated, firedFrom, lost, everFired, batch, unread>>
    BY <1>4 DEF RetireQuiet
  <2> QED
    BY <2>1, <2>2, RetireKeepsEvidence
<1>5. ASSUME ObserveEnds PROVE EvidenceInv'
  BY <1>5, TrimKeepsEvidence
<1>6. ASSUME Abort PROVE EvidenceInv'
  <2>1. UNCHANGED <<log, lifted, live, firedFrom, lost, everFired, owed, unread>>
    BY <1>6 DEF Abort
  <2>2. CASE Pause
    BY <2>1, <2>2, PauseKeepsEvidence
  <2>3. CASE UNCHANGED <<evaluated, retried, settled, batch, place>>
    BY <2>1, <2>3, EvidenceKept DEF evidenceVars
  <2> QED
    BY <1>6, <2>2, <2>3 DEF Abort
<1>7. ASSUME Reflect PROVE EvidenceInv'
  <2>1. PICK new \in SUBSET Waiter : Lift(new)
    BY <1>7 DEF Reflect
  <2> QED
    BY <1>7, <2>1, LiftKeepsEvidence DEF Reflect
<1>8. ASSUME ApplyVerdict PROVE EvidenceInv'
  BY <1>8, VerdictKeepsEvidence
<1>9. ASSUME Evaluate PROVE EvidenceInv'
  BY <1>9, EvaluateKeepsEvidence
<1>10. ASSUME Resume \/ Unpicked \/ PursueQueued \/ EnterBody \/ Settle \/ UNCHANGED vars
       PROVE  EvidenceInv'
  <2>1. UNCHANGED evidenceVars
    BY <1>10 DEF Resume, Unpicked, PursueQueued, EnterBody, Settle, vars, evidenceVars
  <2> QED
    BY <2>1, EvidenceKept
<1>11. ASSUME Body PROVE EvidenceInv'
  <2>1. UNCHANGED <<log, firedFrom, lost, everFired, settled, owed, batch, unread>>
    BY <1>11 DEF Body
  <2>2. CASE UNCHANGED <<lifted, live, evaluated>>
    BY <2>1, <2>2, EvidenceKept DEF evidenceVars
  <2>3. CASE \E new \in SUBSET Waiter : Lift(new)
    BY <2>1, <2>3, LiftKeepsEvidence
  <2> QED
    BY <1>11, <2>2, <2>3, ConditionConstants DEF Body, InferPlan, PlanFound, PopFrame, RunOut,
       RunStep, AbandonPlan, FanOut, EnterSubGoal
<1> QED
  BY <1>1, <1>2, <1>3, <1>4, <1>5, <1>6, <1>7, <1>8, <1>9, <1>10, <1>11
     DEF Next, Tick, ReasonPass

(* A shut gate over a condition nobody judges leaves nothing unread.       *)
LEMMA RetiredUnheard ==
  ASSUME CInv, EvidenceInv, NEW ws \in SUBSET lifted, NEW w \in Expiring(ws, everFired, batch)
  PROVE  unread[w] = {}
<1>1. /\ w \in Waiter /\ w \in lifted \cap Otherwise /\ w \notin everFired \cup settled \cup batch
      /\ ~GateOpen(w) /\ unread[w] \subseteq Log \X Nat
  BY DEF Expiring, Deferred, Declined, Undecided, CInv, TypeOK
<1>2. w \in live
  BY <1>1 DEF EvidenceInv, RetiredIsDecided
<1>3. ASSUME NEW l \in Log, NEW i \in Nat, <<l, i>> \in unread[w]
      PROVE  FALSE
  <2>1. i \in Matches(w, l)
    BY <1>1, <1>2, <1>3 DEF EvidenceInv, UnreadInSight
  <2> QED
    BY <1>1, <2>1 DEF GateOpen, OpenLogs
<1> QED
  BY <1>1, <1>3

(* The verdict that commits an absence answered the last unread change.    *)
LEMMA VerdictUnheard ==
  ASSUME CInv, EvidenceInv, ApplyVerdict, NEW w \in closedUnfired', w \notin closedUnfired
  PROVE  unread'[w] = {}
<1>1. PICK fired \in SUBSET Waiter, offered \in SUBSET batch :
        /\ w \in Expiring(offered, fired, {}) /\ ~verdict.failed
        /\ everFired \subseteq fired
  <2> DEFINE retiring == verdict.retired \ Clocked
             fired == everFired \cup verdict.fired
             offered == IF verdict.failed THEN {} ELSE retiring \cup (batch \cap owed)
  <2>1. w \in Expiring(offered, fired, {})
    BY DEF ApplyVerdict
  <2>2. verdict \in [fired : SUBSET batch, retired : SUBSET batch, failed : BOOLEAN]
    BY DEF ApplyVerdict, CInv, TypeOK
  <2>3. fired \subseteq Waiter /\ offered \subseteq batch
    BY <2>2 DEF CInv, TypeOK
  <2>4. ~verdict.failed
    BY <2>1 DEF Expiring, Undecided
  <2> QED
    BY <2>1, <2>3, <2>4
<1>2. /\ w \in Waiter /\ w \in batch \cap Otherwise /\ w \notin everFired \cup settled
      /\ ~GateOpen(w)
  BY <1>1 DEF Expiring, Deferred, Declined, Undecided, CInv, TypeOK
<1>3. unread'[w] = unread[w] \ Asked(w) /\ unread[w] \subseteq Log \X Nat
  BY <1>1, <1>2 DEF ApplyVerdict, Answered, CInv, TypeOK
<1>4. ASSUME NEW l \in Log, NEW i \in Nat, <<l, i>> \in unread[w]
      PROVE  IsAsked(w, l, i)
  <2>1. CASE w \in live
    <3>1. i \notin Matches(w, l)
      BY <1>2 DEF GateOpen, OpenLogs
    <3> QED
      BY <1>2, <1>4, <2>1, <3>1 DEF EvidenceInv, UnreadInSight
  <2>2. CASE w \notin live
    <3>1. w \in owed
      BY <1>2, <2>2 DEF EvidenceInv, RetiredIsDecided, CInv, Ownership
    <3> QED
      BY <1>2, <1>4, <3>1 DEF EvidenceInv, DeferredIsAsked
  <2> QED
    BY <2>1, <2>2
<1> QED
  BY <1>3, <1>4, AskedMembers

(* An absence is committed with nothing unread.                            *)
LEMMA AbsenceStep ==
  ASSUME CInv, EvidenceInv, [Next]_vars, NEW w \in closedUnfired', w \notin closedUnfired
  PROVE  unread'[w] = {}
<1> USE DEF historyVars
<1>1. ASSUME NEW ws \in SUBSET lifted, Retire(ws), UNCHANGED unread
      PROVE  unread'[w] = {}
  <2>1. w \in Expiring(ws, everFired, batch)
    BY <1>1 DEF Retire, DropRetired
  <2> QED
    BY <1>1, <2>1, RetiredUnheard
<1>2. ASSUME Expire PROVE unread'[w] = {}
  BY <1>1, <1>2 DEF Expire, CInv, TypeOK
<1>3. ASSUME RetireQuiet PROVE unread'[w] = {}
  BY <1>1, <1>3 DEF RetireQuiet, CInv, Ownership
<1>4. ASSUME ApplyVerdict PROVE unread'[w] = {}
  BY <1>4, VerdictUnheard
<1>5. ASSUME \/ ObserveAnswer \/ Resume \/ ObserveEnds \/ Abort \/ Reflect \/ Unpicked
             \/ PursueQueued \/ Evaluate \/ EnterBody \/ Settle \/ Body \/ UNCHANGED vars
             \/ \E l \in Log, watched \in SUBSET Waiter : Drain(l, watched)
      PROVE  UNCHANGED closedUnfired
  BY <1>5 DEF ObserveAnswer, Resume, ObserveEnds, Abort, Reflect, Unpicked, PursueQueued,
     Evaluate, EnterBody, Settle, Body, Drain, vars
<1> QED
  BY <1>2, <1>3, <1>4, <1>5 DEF Next, Tick, ReasonPass

(* A firing is queued by the verdict that answers the change it is for.    *)
LEMMA FiringStep ==
  ASSUME CInv, EvidenceInv, [Next]_vars, NEW w \in Waiter,
         queue'[<<w, "then">>] > queue[<<w, "then">>]
  PROVE  unread'[w] # unread[w] /\ unread'[w] \subseteq unread[w]
<1> DEFINE key == <<w, "then">>
<1>0. TypeOK /\ Ownership /\ key \in Waiter \X Branches /\ queue[key] \in Nat
  BY DEF CInv, TypeOK, Branches
<1>1. queue'[key] # queue[key]
  BY <1>0
<1>2. ASSUME NEW ws \in SUBSET lifted, Retire(ws)
      PROVE  FALSE
  <2>1. CASE ws = {}
    BY <1>1, <1>2, <2>1 DEF Retire
  <2>2. CASE ws # {}
    <3>1. PICK expiring : queue' = Queued({}, expiring)
      BY <1>2, <2>2 DEF Retire, DropRetired
    <3>2. key \notin ({} \X {"then"}) \cup (expiring \X {"otherwise"})
      OBVIOUS
    <3> QED
      BY <1>0, <1>1, <3>1, <3>2 DEF Queued
  <2> QED
    BY <2>1, <2>2
<1>3. ASSUME Pursue PROVE FALSE
  <2>1. PICK k \in Waiter \X Branches : queue' = [queue EXCEPT ![k] = @ - 1]
    BY <1>3 DEF Pursue
  <2>2. queue \in [Waiter \X Branches -> Nat]
    BY <1>0 DEF TypeOK
  <2>3. queue'[key] = queue[key] \/ queue'[key] = queue[key] - 1
    BY <1>0, <2>1, <2>2
  <2> QED
    BY <1>0, <2>3
<1>4. ASSUME ApplyVerdict PROVE unread'[w] # unread[w] /\ unread'[w] \subseteq unread[w]
  <2>1. PICK expiring : queue' = Queued(verdict.fired, expiring)
    BY <1>4 DEF ApplyVerdict
  <2>2. key \in (verdict.fired \X {"then"}) \cup (expiring \X {"otherwise"})
    BY <1>0, <1>1, <2>1 DEF Queued
  <2>3. verdict \in [fired : SUBSET batch, retired : SUBSET batch, failed : BOOLEAN]
    BY <1>0, <1>4 DEF ApplyVerdict, TypeOK
  <2>4. w \in batch \cap Answered
    BY <2>2, <2>3 DEF Answered
  <2>5. unread'[w] = unread[w] \ Asked(w)
    BY <1>4, <2>4 DEF ApplyVerdict
  <2>6. PICK l \in Log : Question(w, l)
    BY <2>4 DEF EvidenceInv, EachIsAsked
  <2>7. <<l, evaluated[w][l]>> \in Asked(w) /\ <<l, evaluated[w][l]>> \in unread[w]
    BY <2>6 DEF Question, Asked
  <2> QED
    BY <2>5, <2>7
<1>5. ASSUME \/ ObserveAnswer \/ Resume \/ ObserveEnds \/ Abort \/ Reflect \/ Unpicked
             \/ Evaluate \/ EnterBody \/ Body \/ UNCHANGED vars
             \/ \E l \in Log, watched \in SUBSET Waiter : Drain(l, watched)
      PROVE  UNCHANGED queue
  BY <1>5 DEF ObserveAnswer, Resume, ObserveEnds, Abort, Reflect, Unpicked, Evaluate,
     EnterBody, Body, Drain, vars
<1>6. ~Expire /\ ~RetireQuiet
  BY <1>0, <1>2 DEF Expire, RetireQuiet, TypeOK, Ownership
<1>7. ~PursueQueued /\ ~Settle
  BY <1>1, <1>3 DEF PursueQueued, Settle
<1> QED
  BY <1>1, <1>4, <1>5, <1>6, <1>7 DEF Next, Tick, ReasonPass

-----------------------------------------------------------------------------
(* The theorems.                                                           *)

(* Every reachable state accounts for its evidence.                        *)
THEOREM EvidenceAccounted == Spec => []EvidenceInv
<1>1. Init => EvidenceInv
  BY EvidenceInit
<1>2. IInv /\ EvidenceInv /\ [Next]_vars => EvidenceInv'
  BY EvidenceStep DEF IInv
<1> QED
  BY <1>1, <1>2, Invariance, PTL DEF Spec

(* `otherwise` is only queued when every change that matched its condition *)
(* while it was on watch was answered by a readable verdict: no eviction,  *)
(* failed or discarded judgement, partial answer or early retirement makes *)
(* the runtime act on an absence that was not there.                       *)
THEOREM AbsenceIsProved == Spec => OtherwiseProvesAbsence
<1> DEFINE Heard == \A w \in closedUnfired' \ closedUnfired : unread'[w] = {}
<1>1. IInv /\ EvidenceInv /\ [Next]_vars => [Heard]_vars
  BY AbsenceStep DEF IInv
<1>2. [][Heard]_vars <=> OtherwiseProvesAbsence
  BY DEF OtherwiseProvesAbsence
<1> QED
  BY <1>1, <1>2, Invariance, EvidenceAccounted, PTL DEF Spec

(* A `then` is only queued by a verdict that is the first to answer some   *)
(* change for its condition, also after a partial answer and its retry.    *)
THEOREM ChangesFireOnce == Spec => OneFiringPerChange
<1> DEFINE Fresh == \A w \in Waiter : queue'[<<w, "then">>] > queue[<<w, "then">>] =>
             unread'[w] # unread[w] /\ unread'[w] \subseteq unread[w]
<1>1. IInv /\ EvidenceInv /\ [Next]_vars => [Fresh]_vars
  BY FiringStep DEF IInv
<1>2. [][Fresh]_vars <=> OneFiringPerChange
  BY DEF OneFiringPerChange
<1> QED
  BY <1>1, <1>2, Invariance, EvidenceAccounted, PTL DEF Spec

=============================================================================

--------------------------- MODULE Campaign_proofs ---------------------------
(***************************************************************************)
(* Proofs about Campaign for every number of capabilities, scenarios and   *)
(* workers, and for every number of crashes, failed scenarios and pauses.  *)
(***************************************************************************)
EXTENDS Campaign, SequenceTheorems, WellFoundedInduction, TLAPS

(* The lock: whoever still works for the sweep was started by the last     *)
(* launch, and nobody works while a refused launch is the last word.       *)
OneLaunchAtWork ==
  /\ \A j \in Job, g \in Invocation : worker[j][g].pc \in Live => g = invocation /\ sup # "refused"
  /\ sup \in {"planning", "inspected", "scheduling"} => invocation > 0

\* What was accepted was not played again.
NothingReplayed(j) ==
  \A i \in Usable(j), k \in DOMAIN attempts[j] :
    attempts[j][k].run = attempts[j][i].run => k <= i

\* A worker's memory of its job against the job's directory.
KnowsDirectory(j, g) ==
  LET w == worker[j][g]
  IN /\ w.pc \in {"next", "play", "sum", "attest", "close", "publish"}
          => w.took = Accepted(j) /\ view[j] = Usable(j)
     /\ w.pc \in {"play", "sum", "attest", "accept"}
          => /\ w.at = Len(attempts[j]) /\ w.at \in DOMAIN attempts[j]
             /\ attempts[j][w.at].run \notin w.took
     /\ w.pc \in {"play", "sum", "attest"} => attempts[j][w.at].phase # "sealed"
     /\ w.pc = "accept" /\ attempts[j][w.at].usable
          => Accepted(j) = w.took \cup {attempts[j][w.at].run}
     /\ w.pc = "accept" /\ ~attempts[j][w.at].usable => Accepted(j) = w.took
     /\ w.pc \in {"close", "publish"} => w.took = Case

\* What is done is sealed, what is sealed is not worked on, and who is past the
\* boot has marked the directory.
KnowsSeal(j, g) ==
  /\ worker[j][g].pc \in Live \ {"boot"} => marker[j] # "none"
  /\ worker[j][g].pc = "done" => seal[j] = "sealed"
  /\ seal[j] = "sealed" => worker[j][g].pc \notin Live \ {"boot"}

\* The baseline a job waits for is sealed before the job touches its directory.
BaselineSealed(j) == \A d \in DependsOn(j) : seal[d] = "sealed"
Waited(j) ==
  /\ marker[j] # "none" => BaselineSealed(j)
  /\ \A g \in Invocation : worker[j][g].pc = "boot" => BaselineSealed(j)
  /\ results[j] = "completed" => seal[j] = "sealed"

SealHolds(j) ==
  seal[j] = "sealed" => view[j] = Usable(j) /\ Accepted(j) = Case /\ marker[j] # "none"

JobInv(j) ==
  /\ NothingReplayed(j) /\ SealHolds(j) /\ Waited(j)
  /\ \A g \in Invocation : KnowsDirectory(j, g) /\ KnowsSeal(j, g)

CampaignInv ==
  /\ CampaignTypeOK /\ OneLaunchAtWork /\ RefusalFollowsCrash
  /\ \A j \in Job : JobInv(j)
-----------------------------------------------------------------------------
(* Type correctness.                                                       *)

LEMMA Jobs ==
  /\ \A j \in Job : DependsOn(j) \subseteq Job
  /\ 1 \in Job /\ 1 \in Case /\ 1 \in Invocation
  /\ Invocation \subseteq Nat \ {0} /\ Case \subseteq Nat
BY CampaignConstants DEF Job, Case, Invocation, DependsOn

LEMMA CampaignTypeInit == CampaignInit => CampaignTypeOK
<1> SUFFICES ASSUME CampaignInit PROVE CampaignTypeOK
  OBVIOUS
<1>1. attempts \in [Job -> Seq(Attempt)]
  BY EmptySeq DEF CampaignInit
<1>2. worker \in [Job -> [Invocation -> Seat]]
  <2>1. [pc |-> "off", at |-> 0, took |-> {}] \in Seat
    BY DEF Seat
  <2> QED
    BY <2>1 DEF CampaignInit
<1>3. invocation \in 0 .. (MaxMishaps + 1) /\ mishaps \in 0 .. MaxMishaps
  BY CampaignConstants DEF CampaignInit
<1>4. /\ marker \in [Job -> {"none", "tmp", "written"}] /\ seal \in [Job -> {"none", "summed", "sealed"}]
      /\ view \in [Job -> SUBSET Nat]
      /\ results \in [Job -> {"none", "completed", "paused", "failed", "interrupted"}]
  BY DEF CampaignInit
<1> QED
  BY <1>1, <1>2, <1>3, <1>4 DEF CampaignInit, CampaignTypeOK

\* A sequence of attempts after one was appended or one was updated.
LEMMA AttemptsGrow ==
  ASSUME NEW s \in Seq(Attempt), NEW a \in Attempt
  PROVE  /\ Append(s, a) \in Seq(Attempt) /\ Len(Append(s, a)) = Len(s) + 1
         /\ DOMAIN Append(s, a) = DOMAIN s \cup {Len(s) + 1}
         /\ \A i \in DOMAIN s : Append(s, a)[i] = s[i]
         /\ Append(s, a)[Len(s) + 1] = a
         /\ DOMAIN s = 1 .. Len(s) /\ Len(s) \in Nat
BY AppendProperties, LenProperties

LEMMA AttemptChanges ==
  ASSUME NEW s \in Seq(Attempt), NEW n \in DOMAIN s, NEW a \in Attempt
  PROVE  /\ [s EXCEPT ![n] = a] \in Seq(Attempt) /\ Len([s EXCEPT ![n] = a]) = Len(s)
         /\ DOMAIN [s EXCEPT ![n] = a] = DOMAIN s
         /\ \A i \in DOMAIN s : [s EXCEPT ![n] = a][i] = IF i = n THEN a ELSE s[i]
BY ExceptSeq, LenProperties

\* What a job's directory holds.
LEMMA AttemptsAt ==
  ASSUME CampaignTypeOK, NEW j \in Job
  PROVE  /\ attempts[j] \in Seq(Attempt) /\ Len(attempts[j]) \in Nat
         /\ DOMAIN attempts[j] = 1 .. Len(attempts[j])
         /\ \A i \in DOMAIN attempts[j] : attempts[j][i] \in Attempt /\ attempts[j][i].run \in Case
<1>1. attempts[j] \in Seq(Attempt)
  BY DEF CampaignTypeOK
<1>2. Len(attempts[j]) \in Nat /\ DOMAIN attempts[j] = 1 .. Len(attempts[j])
  BY <1>1, LenProperties
<1>3. \A i \in DOMAIN attempts[j] : attempts[j][i] \in Attempt
  BY <1>1, <1>2, ElementOfSeq
<1> QED
  BY <1>1, <1>2, <1>3 DEF Attempt

\* A non-empty set of naturals has a least element: the next scenario is one
\* that is left.
LEMMA LeastLeft ==
  ASSUME NEW S \in SUBSET Nat, S # {}
  PROVE  LET c == CHOOSE x \in S : \A y \in S : x <= y
         IN  c \in S /\ \A y \in S : c <= y
<1> DEFINE R == {ss \in Nat \X Nat : ss[1] < ss[2]}
<1>1. IsWellFoundedOn(R, Nat)
  BY NatLessThanWellFounded DEF OpToRel
<1> HIDE DEF R
<1>2. \E x \in S : \A y \in S : ~ (<<y, x>> \in R)
  BY <1>1, WFMin
<1>3. \E x \in S : \A y \in S : x <= y
  <2>1. PICK x \in S : \A y \in S : ~ (<<y, x>> \in R)
    BY <1>2
  <2>2. \A y \in S : x \in Nat /\ y \in Nat /\ (y < x => <<y, x>> \in R)
    BY DEF R
  <2>3. ASSUME NEW y \in S PROVE x <= y
    <3>1. x \in Nat /\ y \in Nat
      OBVIOUS
    <3>2. ~ (y < x)
      BY <2>1, <2>2
    <3> QED
      BY <3>1, <3>2
  <2> QED
    BY <2>3
<1> QED
  BY <1>3

\* A worker's seat changes: the others stay.
LEMMA SeatChanges ==
  ASSUME CampaignTypeOK, NEW j \in Job, NEW g \in Invocation, NEW s \in Seat,
         worker' = [worker EXCEPT ![j][g] = s]
  PROVE  /\ worker' \in [Job -> [Invocation -> Seat]]
         /\ \A i \in Job, h \in Invocation : worker'[i][h] = IF i = j /\ h = g THEN s ELSE worker[i][h]
BY DEF CampaignTypeOK

LEMMA SeatEdits ==
  ASSUME NEW s \in Seat, NEW to \in Live \cup Exited, NEW n \in Nat, NEW S \in SUBSET Case
  PROVE  LET moved == [s EXCEPT !.pc = to]
             told == [moved EXCEPT !.took = S]
             sent == [moved EXCEPT !.at = n]
         IN /\ moved \in Seat /\ moved.pc = to /\ moved.at = s.at /\ moved.took = s.took
            /\ told \in Seat /\ told.pc = to /\ told.at = s.at /\ told.took = S
            /\ sent \in Seat /\ sent.pc = to /\ sent.at = n /\ sent.took = s.took
BY DEF Seat

LEMMA WorkerMoves ==
  ASSUME CampaignTypeOK, NEW j \in Job, NEW g \in Invocation, NEW to \in Live \cup Exited, Moves(j, g, to)
  PROVE  /\ worker' \in [Job -> [Invocation -> Seat]]
         /\ \A i \in Job, h \in Invocation : <<i, h>> # <<j, g>> => worker'[i][h] = worker[i][h]
         /\ worker'[j][g].pc = to /\ worker'[j][g].at = worker[j][g].at
         /\ worker'[j][g].took = worker[j][g].took
<1> DEFINE s == [worker[j][g] EXCEPT !.pc = to]
<1>1. worker[j][g] \in Seat
  BY DEF CampaignTypeOK
<1>2. s \in Seat /\ s.pc = to /\ s.at = worker[j][g].at /\ s.took = worker[j][g].took
  BY <1>1 DEF Seat
<1>3. worker' = [worker EXCEPT ![j][g] = s]
  BY DEF Moves
<1> HIDE DEF s
<1>4. /\ worker' \in [Job -> [Invocation -> Seat]]
      /\ \A i \in Job, h \in Invocation : worker'[i][h] = IF i = j /\ h = g THEN s ELSE worker[i][h]
  BY <1>2, <1>3, SeatChanges
<1> QED
  BY <1>2, <1>4

\* One attempt of a job changes.
LEMMA AttemptMoves ==
  ASSUME CampaignTypeOK, NEW j \in Job, NEW n \in DOMAIN attempts[j], NEW a \in Attempt,
         attempts' = [attempts EXCEPT ![j][n] = a]
  PROVE  /\ attempts' \in [Job -> Seq(Attempt)]
         /\ \A i \in Job : i # j => attempts'[i] = attempts[i]
         /\ DOMAIN attempts'[j] = DOMAIN attempts[j] /\ Len(attempts'[j]) = Len(attempts[j])
         /\ \A i \in DOMAIN attempts[j] : attempts'[j][i] = IF i = n THEN a ELSE attempts[j][i]
<1>1. attempts'[j] = [attempts[j] EXCEPT ![n] = a] /\ \A i \in Job : i # j => attempts'[i] = attempts[i]
  BY DEF CampaignTypeOK
<1>2. /\ attempts'[j] \in Seq(Attempt) /\ Len(attempts'[j]) = Len(attempts[j])
      /\ DOMAIN attempts'[j] = DOMAIN attempts[j]
      /\ \A i \in DOMAIN attempts[j] : attempts'[j][i] = IF i = n THEN a ELSE attempts[j][i]
  BY <1>1, AttemptsAt, AttemptChanges
<1>3. attempts' \in [Job -> Seq(Attempt)]
  BY <1>1, <1>2 DEF CampaignTypeOK
<1> QED
  BY <1>1, <1>2, <1>3

\* Play, Sum and Attest each set the phase of the attempt the worker is at.
LEMMA PlayMoves ==
  ASSUME CampaignTypeOK, NEW j \in Job, NEW g \in Invocation, KnowsDirectory(j, g), Play(j, g)
  PROVE  /\ attempts' \in [Job -> Seq(Attempt)]
         /\ \A i \in Job : i # j => attempts'[i] = attempts[i]
         /\ DOMAIN attempts'[j] = DOMAIN attempts[j] /\ Len(attempts'[j]) = Len(attempts[j])
         /\ \A i \in DOMAIN attempts[j] :
              /\ i # worker[j][g].at => attempts'[j][i] = attempts[j][i]
              /\ attempts'[j][i].run = attempts[j][i].run
         /\ attempts'[j][worker[j][g].at].phase = "recorded"
<1>0. PICK u \in BOOLEAN : attempts' = [attempts EXCEPT ![j][worker[j][g].at] =
                                          [@ EXCEPT !.phase = "recorded", !.usable = u]]
  BY DEF Play
<1> DEFINE n == worker[j][g].at
           a == [attempts[j][n] EXCEPT !.phase = "recorded", !.usable = u]
<1>1. n \in DOMAIN attempts[j] /\ attempts[j][n] \in Attempt
  BY AttemptsAt DEF Play, KnowsDirectory
<1>2. a \in Attempt /\ a.run = attempts[j][n].run /\ a.phase = "recorded"
  BY <1>1 DEF Attempt, Phase
<1>3. attempts' = [attempts EXCEPT ![j][n] = a]
  BY <1>0
<1> HIDE DEF a, n
<1>4. n = worker[j][g].at
  BY DEF n
<1> QED
  BY <1>1, <1>2, <1>3, <1>4, AttemptMoves

LEMMA SumMoves ==
  ASSUME CampaignTypeOK, NEW j \in Job, NEW g \in Invocation, KnowsDirectory(j, g), Sum(j, g)
  PROVE  /\ attempts' \in [Job -> Seq(Attempt)]
         /\ \A i \in Job : i # j => attempts'[i] = attempts[i]
         /\ DOMAIN attempts'[j] = DOMAIN attempts[j] /\ Len(attempts'[j]) = Len(attempts[j])
         /\ \A i \in DOMAIN attempts[j] :
              /\ i # worker[j][g].at => attempts'[j][i] = attempts[j][i]
              /\ attempts'[j][i].run = attempts[j][i].run
         /\ attempts'[j][worker[j][g].at].phase = "summed"
         /\ attempts'[j][worker[j][g].at].usable = attempts[j][worker[j][g].at].usable
<1> DEFINE n == worker[j][g].at
           a == [attempts[j][n] EXCEPT !.phase = "summed"]
<1>1. n \in DOMAIN attempts[j] /\ attempts[j][n] \in Attempt
  BY AttemptsAt DEF Sum, KnowsDirectory
<1>2. /\ a \in Attempt /\ a.run = attempts[j][n].run /\ a.phase = "summed"
      /\ a.usable = attempts[j][n].usable
  BY <1>1 DEF Attempt, Phase
<1>3. attempts' = [attempts EXCEPT ![j][n] = a]
  BY DEF Sum
<1> HIDE DEF a, n
<1>4. n = worker[j][g].at
  BY DEF n
<1> QED
  BY <1>1, <1>2, <1>3, <1>4, AttemptMoves

LEMMA AttestMoves ==
  ASSUME CampaignTypeOK, NEW j \in Job, NEW g \in Invocation, KnowsDirectory(j, g), Attest(j, g)
  PROVE  /\ attempts' \in [Job -> Seq(Attempt)]
         /\ \A i \in Job : i # j => attempts'[i] = attempts[i]
         /\ DOMAIN attempts'[j] = DOMAIN attempts[j] /\ Len(attempts'[j]) = Len(attempts[j])
         /\ \A i \in DOMAIN attempts[j] :
              /\ i # worker[j][g].at => attempts'[j][i] = attempts[j][i]
              /\ attempts'[j][i].run = attempts[j][i].run
         /\ attempts'[j][worker[j][g].at].phase = "sealed"
         /\ attempts'[j][worker[j][g].at].usable = attempts[j][worker[j][g].at].usable
<1> DEFINE n == worker[j][g].at
           a == [attempts[j][n] EXCEPT !.phase = "sealed"]
<1>1. n \in DOMAIN attempts[j] /\ attempts[j][n] \in Attempt
  BY AttemptsAt DEF Attest, KnowsDirectory
<1>2. /\ a \in Attempt /\ a.run = attempts[j][n].run /\ a.phase = "sealed"
      /\ a.usable = attempts[j][n].usable
  BY <1>1 DEF Attempt, Phase
<1>3. attempts' = [attempts EXCEPT ![j][n] = a]
  BY DEF Attest
<1> HIDE DEF a, n
<1>4. n = worker[j][g].at
  BY DEF n
<1> QED
  BY <1>1, <1>2, <1>3, <1>4, AttemptMoves

LEMMA CampaignTypeStep == CampaignInv /\ [CampaignNext]_campaignVars => CampaignTypeOK'
<1> SUFFICES ASSUME CampaignInv, [CampaignNext]_campaignVars
             PROVE  CampaignTypeOK'
  OBVIOUS
<1>0. CampaignTypeOK /\ OneLaunchAtWork /\ \A j \in Job, g \in Invocation : KnowsDirectory(j, g)
  BY DEF CampaignInv, JobInv
<1> USE <1>0, CampaignConstants DEF CampaignTypeOK, diskVars, supVars
<1>1. CASE Launch
  <2>1. results' \in [Job -> {"none", "completed", "paused", "failed", "interrupted"}]
    BY <1>1 DEF Launch
  <2>2. invocation' \in 0 .. (MaxMishaps + 1)
    BY <1>1 DEF Launch
  <2> QED
    BY <1>1, <2>1, <2>2 DEF Launch
<1>2. CASE PlanWritten
  BY <1>2 DEF PlanWritten
<1>3. CASE Unpause
  BY <1>3 DEF Unpause
<1>4. CASE Round
  <2>1. invocation \in Invocation
    BY <1>4 DEF Round, OneLaunchAtWork, Invocation
  <2>2. worker' \in [Job -> [Invocation -> Seat]]
    <3>1. ASSUME NEW j \in Job
          PROVE  [worker[j] EXCEPT ![invocation].pc = "boot"] \in [Invocation -> Seat]
      <4>1. worker[j][invocation] \in Seat
        BY <2>1
      <4>2. [worker[j][invocation] EXCEPT !.pc = "boot"] \in Seat
        BY <4>1 DEF Seat, Live
      <4> QED
        BY <2>1, <4>2
    <3> QED
      BY <1>4, <3>1 DEF Round
  <2> QED
    BY <1>4, <2>2 DEF Round
<1>5. CASE Finish
  BY <1>5 DEF Finish
<1>6. ASSUME NEW j \in Job, Reap(j) PROVE CampaignTypeOK'
  BY <1>6 DEF Reap
<1>7. ASSUME NEW j \in Job, NEW g \in Invocation, WorkerStep(j, g) PROVE CampaignTypeOK'
  <2>1. \A to \in Live \cup Exited : Moves(j, g, to) => worker' \in [Job -> [Invocation -> Seat]]
    BY WorkerMoves
  <2> HIDE DEF CampaignTypeOK
  <2>2. CASE Boot(j, g)
    <3>1. worker' \in [Job -> [Invocation -> Seat]]
      BY <2>1, <2>2 DEF Boot, Live, Exited
    <3> QED
      BY <2>2, <3>1 DEF Boot, CampaignTypeOK
  <2>3. CASE Mark(j, g)
    <3>1. worker' \in [Job -> [Invocation -> Seat]]
      BY <2>1, <2>3 DEF Mark, Live, Exited
    <3> QED
      BY <2>3, <3>1 DEF Mark, CampaignTypeOK
  <2>4. CASE Collect(j, g)
    <3>1. Usable(j) \in SUBSET Nat /\ Accepted(j) \in SUBSET Case
      BY AttemptsAt DEF Usable, Accepted
    <3>2. view' \in [Job -> SUBSET Nat]
      BY <2>4, <3>1 DEF Collect, CampaignTypeOK
    <3>3. worker' \in [Job -> [Invocation -> Seat]]
      <4>1. worker[j][g] \in Seat
        BY DEF CampaignTypeOK
      <4>2. [[worker[j][g] EXCEPT !.pc = "next"] EXCEPT !.took = Accepted(j)] \in Seat
        BY <3>1, <4>1 DEF Seat, Live
      <4> QED
        BY <2>1, <2>4, <4>2, SeatChanges DEF Collect, Exited
    <3> QED
      BY <2>4, <3>2, <3>3 DEF Collect, CampaignTypeOK
  <2>5. CASE Boundary(j, g)
    <3> DEFINE left == Case \ worker[j][g].took
               c == CHOOSE x \in left : \A y \in left : x <= y
               a == [run |-> c, phase |-> "started", usable |-> FALSE]
               s == [[worker[j][g] EXCEPT !.pc = "play"] EXCEPT !.at = Len(attempts[j]) + 1]
    <3>1. left # {} => c \in Case
      BY LeastLeft, Jobs
    <3> HIDE DEF c
    <3>2. c \in Case => Append(attempts[j], a) \in Seq(Attempt)
      BY AttemptsGrow, AttemptsAt DEF Attempt, Phase
    <3>3. s \in Seat
      <4>1. worker[j][g] \in Seat
        BY DEF CampaignTypeOK
      <4>2. Len(attempts[j]) + 1 \in Nat
        BY AttemptsAt
      <4> QED
        BY <4>1, <4>2 DEF Seat, Live
    <3>4. worker' \in [Job -> [Invocation -> Seat]]
      BY <2>1, <2>5, <3>3, SeatChanges DEF Boundary, Live, Exited
    <3>5. attempts' \in [Job -> Seq(Attempt)]
      BY <2>5, <3>1, <3>2 DEF Boundary, CampaignTypeOK, c
    <3>6. pause' \in BOOLEAN
      BY <2>5 DEF Boundary, CampaignTypeOK
    <3> QED
      BY <2>5, <3>4, <3>5, <3>6 DEF Boundary, CampaignTypeOK
  <2>6. CASE Play(j, g)
    <3>2. attempts' \in [Job -> Seq(Attempt)]
      BY <2>6, PlayMoves
    <3>3. mishaps' \in 0 .. MaxMishaps
      BY <2>6 DEF Play, CampaignTypeOK
    <3>4. worker' \in [Job -> [Invocation -> Seat]]
      BY <2>1, <2>6 DEF Play, Live
    <3> QED
      BY <2>6, <3>2, <3>3, <3>4 DEF Play, CampaignTypeOK
  <2>7. CASE Sum(j, g)
    <3>1. attempts' \in [Job -> Seq(Attempt)]
      BY <2>7, SumMoves
    <3>2. worker' \in [Job -> [Invocation -> Seat]]
      BY <2>1, <2>7 DEF Sum, Live
    <3> QED
      BY <2>7, <3>1, <3>2 DEF Sum, CampaignTypeOK
  <2>8. CASE Attest(j, g)
    <3>1. attempts' \in [Job -> Seq(Attempt)]
      BY <2>8, AttestMoves
    <3>2. worker' \in [Job -> [Invocation -> Seat]]
      BY <2>1, <2>8 DEF Attest, Live
    <3> QED
      BY <2>8, <3>1, <3>2 DEF Attest, CampaignTypeOK
  <2>9. CASE Accept(j, g)
    <3> DEFINE run == attempts[j][worker[j][g].at].run
               s == [worker[j][g] EXCEPT !.pc = "next", !.took = @ \cup {run}]
    <3>1. run \in Case
      BY <2>9, AttemptsAt DEF Accept, KnowsDirectory
    <3>2. s \in Seat
      <4>1. worker[j][g] \in Seat
        BY DEF CampaignTypeOK
      <4> QED
        BY <3>1, <4>1 DEF Seat, Live
    <3>3. worker' \in [Job -> [Invocation -> Seat]]
      <4>1. CASE attempts[j][worker[j][g].at].usable
        <5>1. worker' = [worker EXCEPT ![j][g] = s]
          BY <2>9, <4>1 DEF Accept
        <5> HIDE DEF s
        <5> QED
          BY <3>2, <5>1, SeatChanges
      <4>2. CASE ~attempts[j][worker[j][g].at].usable
        BY <2>1, <2>9, <4>2 DEF Accept, Exited
      <4> QED
        BY <4>1, <4>2
    <3>4. Usable(j) \in SUBSET Nat
      BY AttemptsAt DEF Usable
    <3>5. view' \in [Job -> SUBSET Nat] /\ pause' \in BOOLEAN
      BY <2>9, <3>4 DEF Accept, CampaignTypeOK
    <3> QED
      BY <2>9, <3>3, <3>5 DEF Accept, CampaignTypeOK
  <2>10. CASE Close(j, g)
    <3>1. worker' \in [Job -> [Invocation -> Seat]]
      BY <2>1, <2>10 DEF Close, Live
    <3> QED
      BY <2>10, <3>1 DEF Close, CampaignTypeOK
  <2>11. CASE Publish(j, g)
    <3>1. worker' \in [Job -> [Invocation -> Seat]]
      BY <2>1, <2>11 DEF Publish, Exited
    <3> QED
      BY <2>11, <3>1 DEF Publish, CampaignTypeOK
  <2> QED
    BY <1>7, <2>2, <2>3, <2>4, <2>5, <2>6, <2>7, <2>8, <2>9, <2>10, <2>11 DEF WorkerStep
<1>8. ASSUME NEW j \in Job, NEW g \in Invocation, WorkerDies(j, g) PROVE CampaignTypeOK'
  <2>1. worker' \in [Job -> [Invocation -> Seat]]
    BY <1>8, WorkerMoves DEF WorkerDies, Exited
  <2> QED
    BY <1>8, <2>1 DEF WorkerDies, Mishap
<1>9. CASE SupervisorDies
  BY <1>9 DEF SupervisorDies, Mishap
<1>10. CASE EverythingStops
  <2>1. invocation \in Invocation
    BY <1>10 DEF EverythingStops, OneLaunchAtWork, Invocation
  <2>2. worker' \in [Job -> [Invocation -> Seat]]
    <3>1. ASSUME NEW j \in Job
          PROVE  [worker[j] EXCEPT ![invocation].pc = IF @ \in Live THEN "failed" ELSE @]
                   \in [Invocation -> Seat]
      <4> DEFINE s == [worker[j][invocation] EXCEPT !.pc = IF @ \in Live THEN "failed" ELSE @]
      <4>1. worker[j][invocation] \in Seat
        BY <2>1
      <4>2. s \in Seat
        BY <4>1 DEF Seat, Exited
      <4> QED
        BY <2>1, <4>2
    <3> QED
      BY <1>10, <3>1 DEF EverythingStops
  <2>3. results' \in [Job -> {"none", "completed", "paused", "failed", "interrupted"}]
    BY <1>10 DEF EverythingStops
  <2> QED
    BY <1>10, <2>2, <2>3 DEF EverythingStops, Mishap
<1>11. CASE AskToPause
  BY <1>11 DEF AskToPause, Mishap
<1>12. CASE UNCHANGED campaignVars
  BY <1>12 DEF campaignVars
<1> QED
  BY <1>1, <1>2, <1>3, <1>4, <1>5, <1>6, <1>7, <1>8, <1>9, <1>10, <1>11, <1>12
     DEF CampaignNext, SupervisorStep
-----------------------------------------------------------------------------
(* One launch at work.                                                     *)

\* What a step of a worker touches: its own job and its own seat.
LEMMA WorkerStepTouches ==
  ASSUME CampaignInv, NEW j \in Job, NEW g \in Invocation, WorkerStep(j, g)
  PROVE  /\ worker[j][g].pc \in Live /\ UNCHANGED <<plan, supVars>>
         /\ \A i \in Job, h \in Invocation : <<i, h>> # <<j, g>> => worker'[i][h] = worker[i][h]
         /\ \A i \in Job : i # j => /\ attempts'[i] = attempts[i] /\ view'[i] = view[i]
                                    /\ seal'[i] = seal[i] /\ marker'[i] = marker[i]
<1> USE DEF supVars
<1>0. CampaignTypeOK
  BY DEF CampaignInv
<1>1. \A to \in Live \cup Exited : Moves(j, g, to) =>
        \A i \in Job, h \in Invocation : <<i, h>> # <<j, g>> => worker'[i][h] = worker[i][h]
  BY <1>0, WorkerMoves
<1>2. \A s : worker' = [worker EXCEPT ![j][g] = s] =>
        \A i \in Job, h \in Invocation : <<i, h>> # <<j, g>> => worker'[i][h] = worker[i][h]
  BY <1>0 DEF CampaignTypeOK
<1>3. /\ \A s : attempts' = [attempts EXCEPT ![j] = s] => \A i \in Job : i # j => attempts'[i] = attempts[i]
      /\ \A s : view' = [view EXCEPT ![j] = s] => \A i \in Job : i # j => view'[i] = view[i]
      /\ \A s : seal' = [seal EXCEPT ![j] = s] => \A i \in Job : i # j => seal'[i] = seal[i]
      /\ \A s : marker' = [marker EXCEPT ![j] = s] => \A i \in Job : i # j => marker'[i] = marker[i]
  BY <1>0 DEF CampaignTypeOK
<1>4. CASE Boot(j, g)
  <2>1. \A i \in Job : i # j => marker'[i] = marker[i]
    BY <1>3, <1>4 DEF Boot
  <2>2. \A i \in Job, h \in Invocation : <<i, h>> # <<j, g>> => worker'[i][h] = worker[i][h]
    BY <1>1, <1>4 DEF Boot, Live, Exited
  <2> QED
    BY <1>4, <2>1, <2>2 DEF Boot, Live
<1>5. CASE Mark(j, g)
  BY <1>1, <1>3, <1>5 DEF Mark, Live
<1>6. CASE Collect(j, g)
  <2>1. \A i \in Job : i # j => view'[i] = view[i]
    BY <1>3, <1>6 DEF Collect
  <2>2. \A i \in Job, h \in Invocation : <<i, h>> # <<j, g>> => worker'[i][h] = worker[i][h]
    <3>1. CASE Duplicate(j)
      BY <1>1, <1>6, <3>1 DEF Collect, Exited
    <3>2. CASE ~Duplicate(j)
      BY <1>2, <1>6, <3>2 DEF Collect
    <3> QED
      BY <3>1, <3>2
  <2> QED
    BY <1>6, <2>1, <2>2 DEF Collect, Live
<1>7. CASE Boundary(j, g)
  <2>1. worker[j][g].pc \in Live /\ UNCHANGED <<plan, supVars, view, seal, marker>>
    BY <1>7 DEF Boundary, Live
  <2>2. \A i \in Job : i # j => attempts'[i] = attempts[i]
    <3>1. attempts' = attempts \/ \E s : attempts' = [attempts EXCEPT ![j] = s]
      BY <1>7 DEF Boundary
    <3> QED
      BY <1>3, <3>1
  <2>3. \A i \in Job, h \in Invocation : <<i, h>> # <<j, g>> => worker'[i][h] = worker[i][h]
    <3>1. \/ \E to \in Live \cup Exited : Moves(j, g, to)
          \/ \E s : worker' = [worker EXCEPT ![j][g] = s]
      BY <1>7 DEF Boundary, Live, Exited
    <3> QED
      BY <1>1, <1>2, <3>1
  <2> QED
    BY <2>1, <2>2, <2>3
<1>8. CASE Play(j, g)
  BY <1>0, <1>1, <1>8, PlayMoves DEF Play, Live, CampaignInv, JobInv
<1>9. CASE Sum(j, g)
  BY <1>0, <1>1, <1>9, SumMoves DEF Sum, Live, CampaignInv, JobInv
<1>10. CASE Attest(j, g)
  BY <1>0, <1>1, <1>10, AttestMoves DEF Attest, Live, CampaignInv, JobInv
<1>11. CASE Accept(j, g)
  <2>1. \A i \in Job : i # j => view'[i] = view[i]
    BY <1>3, <1>11 DEF Accept
  <2>2. \A i \in Job, h \in Invocation : <<i, h>> # <<j, g>> => worker'[i][h] = worker[i][h]
    <3>1. \/ \E to \in Live \cup Exited : Moves(j, g, to)
          \/ \E s : worker' = [worker EXCEPT ![j][g] = s]
      BY <1>11 DEF Accept, Exited
    <3> QED
      BY <1>1, <1>2, <3>1
  <2> QED
    BY <1>11, <2>1, <2>2 DEF Accept, Live
<1>12. CASE Close(j, g)
  BY <1>1, <1>3, <1>12 DEF Close, Live
<1>13. CASE Publish(j, g)
  BY <1>1, <1>3, <1>13 DEF Publish, Live, Exited
<1> QED
  BY <1>4, <1>5, <1>6, <1>7, <1>8, <1>9, <1>10, <1>11, <1>12, <1>13 DEF WorkerStep

LEMMA OneLaunchStep == CampaignInv /\ [CampaignNext]_campaignVars => OneLaunchAtWork'
<1> SUFFICES ASSUME CampaignInv, [CampaignNext]_campaignVars
             PROVE  OneLaunchAtWork'
  OBVIOUS
<1>0. CampaignTypeOK /\ OneLaunchAtWork
  BY DEF CampaignInv
<1> USE <1>0 DEF OneLaunchAtWork, diskVars, supVars
<1>1. CASE Launch
  <2>1. \A j \in Job, g \in Invocation : worker'[j][g].pc \notin Live
    BY <1>1 DEF Launch, LockHeld
  <2>2. invocation' > 0
    BY <1>1, CampaignConstants DEF Launch, CampaignTypeOK
  <2> QED
    BY <2>1, <2>2
<1>2. CASE PlanWritten
  BY <1>2 DEF PlanWritten
<1>3. CASE Unpause
  BY <1>3 DEF Unpause
<1>4. CASE Round
  <2>1. \A j \in Job, g \in Invocation : worker'[j][g] = worker[j][g] \/ g = invocation
    BY <1>4 DEF Round, CampaignTypeOK
  <2> QED
    BY <1>4, <2>1 DEF Round
<1>5. CASE Finish
  BY <1>5 DEF Finish
<1>6. ASSUME NEW j \in Job, Reap(j) PROVE OneLaunchAtWork'
  BY <1>6 DEF Reap
<1>7. ASSUME NEW j \in Job, NEW g \in Invocation, WorkerStep(j, g) PROVE OneLaunchAtWork'
  BY <1>7, WorkerStepTouches
<1>8. ASSUME NEW j \in Job, NEW g \in Invocation, WorkerDies(j, g) PROVE OneLaunchAtWork'
  <2>1. \A i \in Job, h \in Invocation : worker'[i][h].pc \in Live => worker[i][h].pc \in Live
    BY <1>8, WorkerMoves DEF WorkerDies, Live, Exited
  <2> QED
    BY <1>8, <2>1 DEF WorkerDies
<1>9. CASE SupervisorDies
  BY <1>9 DEF SupervisorDies
<1>10. CASE EverythingStops
  <2>1. \A j \in Job, g \in Invocation : worker'[j][g] = worker[j][g] \/ g = invocation
    BY <1>10 DEF EverythingStops, CampaignTypeOK
  <2> QED
    BY <1>10, <2>1 DEF EverythingStops
<1>11. CASE AskToPause
  BY <1>11 DEF AskToPause
<1>12. CASE UNCHANGED campaignVars
  BY <1>12 DEF campaignVars
<1> QED
  BY <1>1, <1>2, <1>3, <1>4, <1>5, <1>6, <1>7, <1>8, <1>9, <1>10, <1>11, <1>12
     DEF CampaignNext, SupervisorStep
-----------------------------------------------------------------------------
(* The directory of a job.                                                 *)

LEMMA SameAttempts ==
  ASSUME NEW j \in Job, attempts'[j] = attempts[j]
  PROVE  /\ Usable(j)' = Usable(j) /\ Accepted(j)' = Accepted(j)
         /\ NothingReplayed(j) => NothingReplayed(j)'
<1>1. Usable(j)' = Usable(j)
  BY DEF Usable
<1>2. Accepted(j)' = Accepted(j)
  BY <1>1 DEF Accepted
<1> QED
  BY <1>1, <1>2 DEF NothingReplayed

\* A job nobody works on, except that a worker of it ends or is admitted.
LEMMA JobFrame ==
  ASSUME NEW j \in Job, JobInv(j),
         attempts'[j] = attempts[j], view'[j] = view[j], seal'[j] = seal[j], marker'[j] = marker[j],
         \A h \in Invocation : \/ worker'[j][h] = worker[j][h]
                               \/ worker'[j][h].pc \in {"failed", "paused"}
                               \/ worker'[j][h].pc = "boot" /\ BaselineSealed(j),
         results'[j] = "completed" => seal[j] = "sealed",
         \A d \in Job : seal[d] = "sealed" => seal'[d] = "sealed"
  PROVE  JobInv(j)'
<1>1. Usable(j)' = Usable(j) /\ Accepted(j)' = Accepted(j) /\ NothingReplayed(j)'
  BY SameAttempts DEF JobInv
<1>2. SealHolds(j)'
  BY <1>1 DEF JobInv, SealHolds
<1>3. Waited(j)'
  BY Jobs DEF JobInv, Waited, BaselineSealed
<1>4. ASSUME NEW h \in Invocation PROVE KnowsDirectory(j, h)' /\ KnowsSeal(j, h)'
  <2>1. CASE worker'[j][h] = worker[j][h]
    BY <1>1, <2>1 DEF JobInv, KnowsDirectory, KnowsSeal
  <2>2. CASE worker'[j][h].pc \in {"failed", "paused", "boot"}
    BY <2>2 DEF KnowsDirectory, KnowsSeal, Live
  <2> QED
    BY <2>1, <2>2
<1> QED
  BY <1>1, <1>2, <1>3, <1>4 DEF JobInv
\* What a worker's own step has to re-establish for its job: the other seats of
\* the job rest, whatever it does.
LEMMA OwnJob ==
  ASSUME CampaignInv, NEW j \in Job, NEW g \in Invocation, WorkerStep(j, g),
         NothingReplayed(j)', SealHolds(j)', KnowsDirectory(j, g)', KnowsSeal(j, g)',
         marker'[j] # "none" => BaselineSealed(j),
         worker'[j][g].pc # "boot",
         \A d \in Job : seal[d] = "sealed" => seal'[d] = "sealed"
  PROVE  JobInv(j)'
<1>0. JobInv(j) /\ OneLaunchAtWork
  BY DEF CampaignInv
<1>1. ASSUME NEW h \in Invocation, h # g PROVE KnowsDirectory(j, h)' /\ KnowsSeal(j, h)'
  <2>1. worker'[j][h] = worker[j][h] /\ worker[j][h].pc \notin Live
    BY <1>0, <1>1, WorkerStepTouches DEF OneLaunchAtWork
  <2>2. KnowsSeal(j, h)'
    BY <1>0, <2>1 DEF JobInv, KnowsSeal
  <2> QED
    BY <2>1, <2>2 DEF KnowsDirectory, Live
<1>2. Waited(j)'
  <2>1. \A h \in Invocation : worker'[j][h].pc = "boot" => worker[j][h].pc = "boot"
    BY WorkerStepTouches
  <2>2. results'[j] = results[j]
    BY WorkerStepTouches DEF supVars
  <2> QED
    BY <1>0, <2>1, <2>2, Jobs DEF JobInv, Waited, BaselineSealed
<1> QED
  BY <1>1, <1>2 DEF JobInv

LEMMA BootKeeps ==
  ASSUME CampaignInv, NEW j \in Job, NEW g \in Invocation, Boot(j, g)
  PROVE  JobInv(j)'
<1>0. CampaignTypeOK /\ JobInv(j) /\ WorkerStep(j, g)
  BY DEF CampaignInv, WorkerStep
<1>1. PICK to \in {"mark", "failed", "collect"} :
        /\ worker'[j][g].pc = to
        /\ to = "mark" => marker[j] = "none"
        /\ to = "collect" => marker[j] # "none" /\ seal[j] # "sealed"
  <2>1. \E to \in {"mark", "failed", "collect"} :
          /\ Moves(j, g, to)
          /\ to = "mark" => marker[j] = "none"
          /\ to = "collect" => marker[j] # "none" /\ seal[j] # "sealed"
    BY DEF Boot
  <2> QED
    BY <1>0, <2>1, WorkerMoves DEF Live, Exited
<1>2. attempts'[j] = attempts[j] /\ view'[j] = view[j] /\ seal' = seal /\ marker'[j] # "none"
  BY <1>0 DEF Boot, CampaignTypeOK
<1>3. Usable(j)' = Usable(j) /\ Accepted(j)' = Accepted(j) /\ NothingReplayed(j)'
  BY <1>0, <1>2, SameAttempts DEF JobInv
<1>4. SealHolds(j)' /\ BaselineSealed(j)
  BY <1>0, <1>2, <1>3 DEF JobInv, SealHolds, Waited, Boot
<1>5. KnowsDirectory(j, g)'
  BY <1>1 DEF KnowsDirectory
<1>6. KnowsSeal(j, g)'
  BY <1>0, <1>1, <1>2 DEF KnowsSeal, JobInv, SealHolds, Live
<1> QED
  BY <1>0, <1>1, <1>2, <1>3, <1>4, <1>5, <1>6, OwnJob

LEMMA MarkKeeps ==
  ASSUME CampaignInv, NEW j \in Job, NEW g \in Invocation, Mark(j, g)
  PROVE  JobInv(j)'
<1>0. CampaignTypeOK /\ JobInv(j) /\ WorkerStep(j, g)
  BY DEF CampaignInv, WorkerStep
<1>1. worker'[j][g].pc = "collect"
  BY <1>0, WorkerMoves DEF Mark, Live
<1>2. attempts'[j] = attempts[j] /\ view'[j] = view[j] /\ seal' = seal /\ marker'[j] # "none"
  BY <1>0 DEF Mark, CampaignTypeOK
<1>3. Usable(j)' = Usable(j) /\ Accepted(j)' = Accepted(j) /\ NothingReplayed(j)'
  BY <1>0, <1>2, SameAttempts DEF JobInv
<1>4. marker[j] # "none" /\ seal[j] # "sealed"
  BY <1>0 DEF JobInv, KnowsSeal, Mark, Live
<1>5. SealHolds(j)' /\ BaselineSealed(j)
  BY <1>0, <1>2, <1>4 DEF JobInv, SealHolds, Waited
<1>6. KnowsDirectory(j, g)' /\ KnowsSeal(j, g)'
  BY <1>1, <1>2, <1>4 DEF KnowsDirectory, KnowsSeal
<1> QED
  BY <1>0, <1>1, <1>2, <1>3, <1>5, <1>6, OwnJob

LEMMA CollectKeeps ==
  ASSUME CampaignInv, NEW j \in Job, NEW g \in Invocation, Collect(j, g)
  PROVE  JobInv(j)'
<1>0. CampaignTypeOK /\ JobInv(j) /\ WorkerStep(j, g)
  BY DEF CampaignInv, WorkerStep
<1>1. attempts'[j] = attempts[j] /\ seal' = seal /\ marker' = marker
  BY DEF Collect
<1>2. Usable(j)' = Usable(j) /\ Accepted(j)' = Accepted(j) /\ NothingReplayed(j)'
  BY <1>0, <1>1, SameAttempts DEF JobInv
<1>3. marker[j] # "none" /\ seal[j] # "sealed"
  BY <1>0 DEF JobInv, KnowsSeal, Collect, Live
<1>4. SealHolds(j)' /\ BaselineSealed(j)
  BY <1>0, <1>1, <1>3 DEF JobInv, SealHolds, Waited
<1>5. CASE Duplicate(j)
  <2>1. worker'[j][g].pc = "failed"
    BY <1>0, <1>5, WorkerMoves DEF Collect, Exited
  <2> QED
    BY <1>0, <1>1, <1>2, <1>3, <1>4, <2>1, OwnJob DEF KnowsDirectory, KnowsSeal, Live
<1>6. CASE ~Duplicate(j)
  <2> DEFINE s == [[worker[j][g] EXCEPT !.pc = "next"] EXCEPT !.took = Accepted(j)]
  <2>1. worker[j][g] \in Seat /\ Accepted(j) \in SUBSET Case
    BY <1>0, AttemptsAt DEF CampaignTypeOK, Usable, Accepted
  <2>2. s \in Seat /\ s.pc = "next" /\ s.took = Accepted(j)
    BY <2>1 DEF Seat, Live
  <2>3. worker' = [worker EXCEPT ![j][g] = s]
    BY <1>6 DEF Collect
  <2> HIDE DEF s
  <2>4. worker'[j][g] = s
    BY <1>0, <2>2, <2>3, SeatChanges
  <2>5. view'[j] = Usable(j)
    BY <1>0, <1>6 DEF Collect, CampaignTypeOK
  <2> QED
    BY <1>0, <1>1, <1>2, <1>3, <1>4, <2>2, <2>4, <2>5, OwnJob DEF KnowsDirectory, KnowsSeal
<1> QED
  BY <1>5, <1>6
\* A fresh attempt is made at a run that was not accepted, and is not usable yet.
LEMMA BoundaryKeeps ==
  ASSUME CampaignInv, NEW j \in Job, NEW g \in Invocation, Boundary(j, g)
  PROVE  JobInv(j)'
<1> DEFINE w == worker[j][g]
           left == Case \ w.took
           c == CHOOSE x \in left : \A y \in left : x <= y
           a == [run |-> c, phase |-> "started", usable |-> FALSE]
           s == [[w EXCEPT !.pc = "play"] EXCEPT !.at = Len(attempts[j]) + 1]
<1>0. CampaignTypeOK /\ JobInv(j) /\ WorkerStep(j, g) /\ w \in Seat
  BY DEF CampaignInv, WorkerStep, CampaignTypeOK
<1>1. view' = view /\ seal' = seal /\ marker' = marker
  BY DEF Boundary
<1>2. marker[j] # "none" /\ seal[j] # "sealed" /\ w.took = Accepted(j) /\ view[j] = Usable(j)
  BY <1>0 DEF JobInv, KnowsSeal, KnowsDirectory, Boundary, Live
<1>3. SealHolds(j)' /\ BaselineSealed(j)
  BY <1>0, <1>1, <1>2 DEF JobInv, SealHolds, Waited
<1>4. CASE left = {} /\ Moves(j, g, "close") /\ UNCHANGED attempts
  <2>1. Usable(j)' = Usable(j) /\ Accepted(j)' = Accepted(j) /\ NothingReplayed(j)'
    BY <1>0, <1>4, SameAttempts DEF JobInv
  <2>2. worker'[j][g].pc = "close" /\ worker'[j][g].took = w.took
    BY <1>0, <1>4, WorkerMoves DEF Live
  <2>3. w.took = Case
    BY <1>0, <1>4 DEF Seat
  <2> QED
    BY <1>0, <1>1, <1>2, <1>3, <2>1, <2>2, <2>3, OwnJob DEF KnowsDirectory, KnowsSeal
<1>5. CASE Moves(j, g, "paused") /\ UNCHANGED attempts
  <2>1. Usable(j)' = Usable(j) /\ Accepted(j)' = Accepted(j) /\ NothingReplayed(j)'
    BY <1>0, <1>5, SameAttempts DEF JobInv
  <2>2. worker'[j][g].pc = "paused"
    BY <1>0, <1>5, WorkerMoves DEF Exited
  <2> QED
    BY <1>0, <1>1, <1>2, <1>3, <2>1, <2>2, OwnJob DEF KnowsDirectory, KnowsSeal, Live
<1>6. CASE /\ left # {} /\ attempts' = [attempts EXCEPT ![j] = Append(@, a)]
           /\ worker' = [worker EXCEPT ![j][g] = s]
  <2>1. c \in Case /\ c \notin w.took
    BY <1>6, LeastLeft, Jobs
  <2>2. a \in Attempt /\ a.run = c /\ a.phase = "started" /\ ~a.usable
    BY <2>1 DEF Attempt, Phase
  <2>3. /\ attempts[j] \in Seq(Attempt) /\ Len(attempts[j]) \in Nat
        /\ DOMAIN attempts[j] = 1 .. Len(attempts[j])
    BY <1>0, AttemptsAt
  <2>4. s \in Seat /\ s.pc = "play" /\ s.at = Len(attempts[j]) + 1 /\ s.took = w.took
    <3>1. \A v \in Seat, n \in Nat : LET e == [[v EXCEPT !.pc = "play"] EXCEPT !.at = n]
                                    IN  e \in Seat /\ e.pc = "play" /\ e.at = n /\ e.took = v.took
      BY DEF Seat, Live
    <3>2. w \in Seat /\ Len(attempts[j]) + 1 \in Nat
      BY <1>0, <2>3
    <3> HIDE DEF w
    <3> QED
      BY <3>1, <3>2
  <2> HIDE DEF c, a, s
  <2>5. worker'[j][g] = s
    BY <1>0, <1>6, <2>4, SeatChanges
  <2>6. attempts'[j] = Append(attempts[j], a)
    BY <1>0, <1>6 DEF CampaignTypeOK
  <2>7. /\ DOMAIN attempts'[j] = DOMAIN attempts[j] \cup {Len(attempts[j]) + 1}
        /\ Len(attempts'[j]) = Len(attempts[j]) + 1
        /\ \A i \in DOMAIN attempts[j] : attempts'[j][i] = attempts[j][i]
        /\ attempts'[j][Len(attempts[j]) + 1] = a
    BY <2>2, <2>3, <2>6, AttemptsGrow
  <2>8. Usable(j)' = Usable(j)
    BY <2>2, <2>7 DEF Usable
  <2>9. Accepted(j)' = Accepted(j)
    BY <2>7, <2>8 DEF Accepted, Usable
  <2>10. NothingReplayed(j)'
    <3> SUFFICES ASSUME NEW i \in Usable(j), NEW k \in DOMAIN attempts'[j],
                        attempts'[j][k].run = attempts'[j][i].run
                 PROVE  k <= i
      BY <2>8 DEF NothingReplayed
    <3>1. i \in DOMAIN attempts[j] /\ attempts[j][i].run \in w.took
      BY <1>2 DEF Usable, Accepted
    <3>2. k # Len(attempts[j]) + 1
      BY <2>1, <2>2, <2>7, <3>1
    <3> QED
      BY <1>0, <2>7, <3>1, <3>2 DEF JobInv, NothingReplayed
  <2>11. KnowsDirectory(j, g)'
    BY <1>1, <1>2, <2>1, <2>2, <2>4, <2>5, <2>7, <2>8, <2>9 DEF KnowsDirectory
  <2>12. KnowsSeal(j, g)'
    BY <1>1, <1>2, <2>4, <2>5 DEF KnowsSeal
  <2> QED
    BY <1>0, <1>1, <1>2, <1>3, <2>4, <2>5, <2>10, <2>11, <2>12, OwnJob
<1> QED
  BY <1>4, <1>5, <1>6 DEF Boundary

\* Until its attestation an attempt does not count as usable.
LEMMA UnsealedCountsForNothing ==
  ASSUME CampaignInv, NEW j \in Job, NEW n \in DOMAIN attempts[j],
         DOMAIN attempts'[j] = DOMAIN attempts[j],
         \A i \in DOMAIN attempts[j] : /\ i # n => attempts'[j][i] = attempts[j][i]
                                       /\ attempts'[j][i].run = attempts[j][i].run,
         attempts[j][n].phase # "sealed", attempts'[j][n].phase # "sealed"
  PROVE  Usable(j)' = Usable(j) /\ Accepted(j)' = Accepted(j) /\ NothingReplayed(j)'
<1>0. JobInv(j)
  BY DEF CampaignInv
<1>1. Usable(j)' = Usable(j)
  BY DEF Usable
<1>2. Accepted(j)' = Accepted(j)
  BY <1>1 DEF Accepted, Usable
<1> QED
  BY <1>0, <1>1, <1>2 DEF JobInv, NothingReplayed, Usable

LEMMA PlayKeeps ==
  ASSUME CampaignInv, NEW j \in Job, NEW g \in Invocation, Play(j, g)
  PROVE  JobInv(j)'
<1> DEFINE n == worker[j][g].at
<1>0. CampaignTypeOK /\ JobInv(j) /\ WorkerStep(j, g) /\ KnowsDirectory(j, g)
  BY DEF CampaignInv, JobInv, WorkerStep
<1>1. view' = view /\ seal' = seal /\ marker' = marker
  BY DEF Play
<1>2. /\ marker[j] # "none" /\ seal[j] # "sealed"
      /\ worker[j][g].took = Accepted(j) /\ view[j] = Usable(j)
      /\ n = Len(attempts[j]) /\ n \in DOMAIN attempts[j]
      /\ attempts[j][n].run \notin worker[j][g].took /\ attempts[j][n].phase # "sealed"
  BY <1>0 DEF JobInv, KnowsSeal, KnowsDirectory, Play, Live
<1>3. SealHolds(j)' /\ BaselineSealed(j)
  BY <1>0, <1>1, <1>2 DEF JobInv, SealHolds, Waited
<1>4. /\ worker'[j][g].pc = "sum" /\ worker'[j][g].at = n
      /\ worker'[j][g].took = worker[j][g].took
  BY <1>0, WorkerMoves DEF Play, Live
<1>5. /\ DOMAIN attempts'[j] = DOMAIN attempts[j] /\ Len(attempts'[j]) = Len(attempts[j])
      /\ \A i \in DOMAIN attempts[j] : /\ i # n => attempts'[j][i] = attempts[j][i]
                                       /\ attempts'[j][i].run = attempts[j][i].run
      /\ attempts'[j][n].phase # "sealed"
  BY <1>0, PlayMoves
<1> HIDE DEF n
<1>6. Usable(j)' = Usable(j) /\ Accepted(j)' = Accepted(j) /\ NothingReplayed(j)'
  BY <1>2, <1>5, UnsealedCountsForNothing
<1>7. KnowsDirectory(j, g)' /\ KnowsSeal(j, g)'
  BY <1>1, <1>2, <1>4, <1>5, <1>6 DEF KnowsDirectory, KnowsSeal
<1> QED
  BY <1>0, <1>1, <1>3, <1>4, <1>6, <1>7, OwnJob

LEMMA SumKeeps ==
  ASSUME CampaignInv, NEW j \in Job, NEW g \in Invocation, Sum(j, g)
  PROVE  JobInv(j)'
<1> DEFINE n == worker[j][g].at
<1>0. CampaignTypeOK /\ JobInv(j) /\ WorkerStep(j, g) /\ KnowsDirectory(j, g)
  BY DEF CampaignInv, JobInv, WorkerStep
<1>1. view' = view /\ seal' = seal /\ marker' = marker
  BY DEF Sum
<1>2. /\ marker[j] # "none" /\ seal[j] # "sealed"
      /\ worker[j][g].took = Accepted(j) /\ view[j] = Usable(j)
      /\ n = Len(attempts[j]) /\ n \in DOMAIN attempts[j]
      /\ attempts[j][n].run \notin worker[j][g].took /\ attempts[j][n].phase # "sealed"
  BY <1>0 DEF JobInv, KnowsSeal, KnowsDirectory, Sum, Live
<1>3. SealHolds(j)' /\ BaselineSealed(j)
  BY <1>0, <1>1, <1>2 DEF JobInv, SealHolds, Waited
<1>4. /\ worker'[j][g].pc = "attest" /\ worker'[j][g].at = n
      /\ worker'[j][g].took = worker[j][g].took
  BY <1>0, WorkerMoves DEF Sum, Live
<1>5. /\ DOMAIN attempts'[j] = DOMAIN attempts[j] /\ Len(attempts'[j]) = Len(attempts[j])
      /\ \A i \in DOMAIN attempts[j] : /\ i # n => attempts'[j][i] = attempts[j][i]
                                       /\ attempts'[j][i].run = attempts[j][i].run
      /\ attempts'[j][n].phase # "sealed"
  BY <1>0, SumMoves
<1> HIDE DEF n
<1>6. Usable(j)' = Usable(j) /\ Accepted(j)' = Accepted(j) /\ NothingReplayed(j)'
  BY <1>2, <1>5, UnsealedCountsForNothing
<1>7. KnowsDirectory(j, g)' /\ KnowsSeal(j, g)'
  BY <1>1, <1>2, <1>4, <1>5, <1>6 DEF KnowsDirectory, KnowsSeal
<1> QED
  BY <1>0, <1>1, <1>3, <1>4, <1>6, <1>7, OwnJob

\* The attested attempt is the last one made: it replays nothing, and nothing
\* was made after it.
LEMMA AttestKeeps ==
  ASSUME CampaignInv, NEW j \in Job, NEW g \in Invocation, Attest(j, g)
  PROVE  JobInv(j)'
<1> DEFINE n == worker[j][g].at
<1>0. CampaignTypeOK /\ JobInv(j) /\ WorkerStep(j, g) /\ KnowsDirectory(j, g)
  BY DEF CampaignInv, JobInv, WorkerStep
<1>1. view' = view /\ seal' = seal /\ marker' = marker
  BY DEF Attest
<1>2. /\ marker[j] # "none" /\ seal[j] # "sealed"
      /\ worker[j][g].took = Accepted(j) /\ view[j] = Usable(j)
      /\ n = Len(attempts[j]) /\ n \in DOMAIN attempts[j]
      /\ attempts[j][n].run \notin worker[j][g].took /\ attempts[j][n].phase # "sealed"
  BY <1>0 DEF JobInv, KnowsSeal, KnowsDirectory, Attest, Live
<1>3. SealHolds(j)' /\ BaselineSealed(j)
  BY <1>0, <1>1, <1>2 DEF JobInv, SealHolds, Waited
<1>4. /\ worker'[j][g].pc = "accept" /\ worker'[j][g].at = n
      /\ worker'[j][g].took = worker[j][g].took
  BY <1>0, WorkerMoves DEF Attest, Live
<1>5. /\ DOMAIN attempts'[j] = DOMAIN attempts[j] /\ Len(attempts'[j]) = Len(attempts[j])
      /\ \A i \in DOMAIN attempts[j] : /\ i # n => attempts'[j][i] = attempts[j][i]
                                       /\ attempts'[j][i].run = attempts[j][i].run
      /\ attempts'[j][n].phase = "sealed" /\ attempts'[j][n].usable = attempts[j][n].usable
  BY <1>0, AttestMoves
<1>6. DOMAIN attempts[j] = 1 .. Len(attempts[j]) /\ Len(attempts[j]) \in Nat
  BY <1>0, AttemptsAt
<1> HIDE DEF n
<1>7. Usable(j)' = Usable(j) \cup {i \in {n} : attempts[j][i].usable}
  BY <1>2, <1>5 DEF Usable
<1>8. Accepted(j)' = Accepted(j) \cup {attempts[j][i].run : i \in {k \in {n} : attempts[j][k].usable}}
  BY <1>5, <1>7, <1>2 DEF Accepted, Usable
<1>9. NothingReplayed(j)'
  <2> SUFFICES ASSUME NEW i \in Usable(j)', NEW k \in DOMAIN attempts[j],
                      attempts[j][k].run = attempts[j][i].run, i \in DOMAIN attempts[j]
               PROVE  k <= i
    BY <1>2, <1>5, <1>7 DEF NothingReplayed, Usable
  <2>1. CASE i = n
    BY <1>2, <1>6, <2>1
  <2>2. CASE i # n
    <3>1. i \in Usable(j)
      BY <1>7, <2>2
    <3> QED
      BY <1>0, <3>1 DEF JobInv, NothingReplayed
  <2> QED
    BY <2>1, <2>2
<1>10. KnowsDirectory(j, g)' /\ KnowsSeal(j, g)'
  BY <1>1, <1>2, <1>4, <1>5, <1>8 DEF KnowsDirectory, KnowsSeal
<1> QED
  BY <1>0, <1>1, <1>3, <1>4, <1>9, <1>10, OwnJob

\* A usable attempt is published as it is remembered; a failed one ends the worker.
LEMMA AcceptKeeps ==
  ASSUME CampaignInv, NEW j \in Job, NEW g \in Invocation, Accept(j, g)
  PROVE  JobInv(j)'
<1> DEFINE a == attempts[j][worker[j][g].at]
<1>0. CampaignTypeOK /\ JobInv(j) /\ WorkerStep(j, g) /\ KnowsDirectory(j, g)
  BY DEF CampaignInv, JobInv, WorkerStep
<1>1. attempts' = attempts /\ seal' = seal /\ marker' = marker
  BY DEF Accept
<1>2. marker[j] # "none" /\ seal[j] # "sealed"
  BY <1>0 DEF JobInv, KnowsSeal, Accept, Live
<1>3. Usable(j)' = Usable(j) /\ Accepted(j)' = Accepted(j) /\ NothingReplayed(j)'
  BY <1>0, <1>1, SameAttempts DEF JobInv
<1>4. SealHolds(j)' /\ BaselineSealed(j)
  BY <1>0, <1>1, <1>2 DEF JobInv, SealHolds, Waited
<1>5. CASE a.usable
  <2> DEFINE s == [worker[j][g] EXCEPT !.pc = "next", !.took = worker[j][g].took \cup {a.run}]
  <2>1. worker[j][g].took \cup {a.run} = Accepted(j)
    BY <1>0, <1>5 DEF KnowsDirectory, Accept
  <2>2. worker[j][g] \in Seat /\ Accepted(j) \in SUBSET Case
    BY <1>0, AttemptsAt DEF CampaignTypeOK, Usable, Accepted
  <2>3. s \in Seat /\ s.pc = "next" /\ s.took = Accepted(j)
    BY <2>1, <2>2 DEF Seat, Live
  <2>4. worker' = [worker EXCEPT ![j][g] = s]
    BY <1>5 DEF Accept
  <2> HIDE DEF s
  <2>5. worker'[j][g] = s
    BY <1>0, <2>3, <2>4, SeatChanges
  <2>6. view'[j] = Usable(j)
    BY <1>0, <1>5 DEF Accept, CampaignTypeOK
  <2> QED
    BY <1>0, <1>1, <1>2, <1>3, <1>4, <2>3, <2>5, <2>6, OwnJob DEF KnowsDirectory, KnowsSeal
<1>6. CASE ~a.usable
  <2>1. worker'[j][g].pc = "failed"
    BY <1>0, <1>6, WorkerMoves DEF Accept, Exited
  <2> QED
    BY <1>0, <1>1, <1>2, <1>3, <1>4, <2>1, OwnJob DEF KnowsDirectory, KnowsSeal, Live
<1> QED
  BY <1>5, <1>6

LEMMA CloseKeeps ==
  ASSUME CampaignInv, NEW j \in Job, NEW g \in Invocation, Close(j, g)
  PROVE  JobInv(j)'
<1>0. CampaignTypeOK /\ JobInv(j) /\ WorkerStep(j, g) /\ KnowsDirectory(j, g)
  BY DEF CampaignInv, JobInv, WorkerStep
<1>1. /\ attempts' = attempts /\ view' = view /\ marker' = marker
      /\ seal' = [seal EXCEPT ![j] = "summed"]
  BY DEF Close
<1>2. marker[j] # "none" /\ seal[j] # "sealed"
  BY <1>0 DEF JobInv, KnowsSeal, Close, Live
<1>3. seal'[j] = "summed" /\ \A d \in Job : seal[d] = "sealed" => seal'[d] = "sealed"
  BY <1>0, <1>1, <1>2 DEF CampaignTypeOK
<1>4. Usable(j)' = Usable(j) /\ Accepted(j)' = Accepted(j) /\ NothingReplayed(j)'
  BY <1>0, <1>1, SameAttempts DEF JobInv
<1>5. SealHolds(j)' /\ BaselineSealed(j)
  BY <1>0, <1>2, <1>3 DEF JobInv, SealHolds, Waited
<1>6. worker'[j][g].pc = "publish" /\ worker'[j][g].took = worker[j][g].took
  BY <1>0, WorkerMoves DEF Close, Live
<1>7. KnowsDirectory(j, g)'
  BY <1>0, <1>1, <1>4, <1>6 DEF KnowsDirectory, Close
<1>8. KnowsSeal(j, g)'
  BY <1>1, <1>2, <1>3, <1>6 DEF KnowsSeal
<1> QED
  BY <1>0, <1>1, <1>3, <1>4, <1>5, <1>6, <1>7, <1>8, OwnJob

\* The seal comes when everything was accepted.
LEMMA PublishKeeps ==
  ASSUME CampaignInv, NEW j \in Job, NEW g \in Invocation, Publish(j, g)
  PROVE  JobInv(j)'
<1>0. CampaignTypeOK /\ JobInv(j) /\ WorkerStep(j, g) /\ KnowsDirectory(j, g)
  BY DEF CampaignInv, JobInv, WorkerStep
<1>1. /\ attempts' = attempts /\ view' = view /\ marker' = marker
      /\ seal' = [seal EXCEPT ![j] = "sealed"]
  BY DEF Publish
<1>2. /\ marker[j] # "none" /\ BaselineSealed(j)
      /\ view[j] = Usable(j) /\ Accepted(j) = Case
  BY <1>0 DEF JobInv, KnowsSeal, KnowsDirectory, Waited, Publish, Live
<1>3. seal'[j] = "sealed" /\ \A d \in Job : seal[d] = "sealed" => seal'[d] = "sealed"
  BY <1>0, <1>1 DEF CampaignTypeOK
<1>4. Usable(j)' = Usable(j) /\ Accepted(j)' = Accepted(j) /\ NothingReplayed(j)'
  BY <1>0, <1>1, SameAttempts DEF JobInv
<1>5. SealHolds(j)'
  BY <1>1, <1>2, <1>4 DEF SealHolds
<1>6. worker'[j][g].pc = "done"
  BY <1>0, WorkerMoves DEF Publish, Exited
<1> QED
  BY <1>0, <1>1, <1>2, <1>3, <1>4, <1>5, <1>6, OwnJob DEF KnowsDirectory, KnowsSeal, Live

\* Whatever a worker does, a sealed job stays sealed.
LEMMA SealsStay ==
  ASSUME CampaignInv, NEW j \in Job, NEW g \in Invocation, WorkerStep(j, g), NEW d \in Job,
         seal[d] = "sealed"
  PROVE  seal'[d] = "sealed"
<1>0. CampaignTypeOK /\ JobInv(j)
  BY DEF CampaignInv
<1>1. CASE Close(j, g)
  <2>1. seal[j] # "sealed"
    BY <1>0, <1>1 DEF JobInv, KnowsSeal, Close, Live
  <2> QED
    BY <1>0, <1>1, <2>1 DEF Close, CampaignTypeOK
<1>2. CASE Publish(j, g)
  BY <1>0, <1>2 DEF Publish, CampaignTypeOK
<1>3. CASE seal' = seal
  BY <1>3
<1> QED
  BY <1>1, <1>2, <1>3
     DEF WorkerStep, Boot, Mark, Collect, Boundary, Play, Sum, Attest, Accept

LEMMA WorkerStepKeeps ==
  ASSUME CampaignInv, NEW j \in Job, NEW g \in Invocation, WorkerStep(j, g), NEW i \in Job
  PROVE  JobInv(i)'
<1>1. CASE i = j
  BY <1>1, BootKeeps, MarkKeeps, CollectKeeps, BoundaryKeeps, PlayKeeps, SumKeeps, AttestKeeps,
     AcceptKeeps, CloseKeeps, PublishKeeps DEF WorkerStep
<1>2. CASE i # j
  <2>1. JobInv(i) /\ (results'[i] = "completed" => seal[i] = "sealed")
    BY WorkerStepTouches DEF CampaignInv, JobInv, Waited, supVars
  <2>2. \A h \in Invocation : worker'[i][h] = worker[i][h]
    BY <1>2, WorkerStepTouches
  <2> QED
    BY <1>2, <2>1, <2>2, WorkerStepTouches, SealsStay, JobFrame
<1> QED
  BY <1>1, <1>2

\* A step that leaves the disk alone, but for the plan and the drain marker.
LEMMA JobRests ==
  ASSUME NEW i \in Job, JobInv(i), UNCHANGED <<marker, attempts, view, seal>>,
         \A h \in Invocation : \/ worker'[i][h] = worker[i][h]
                               \/ worker'[i][h].pc \in {"failed", "paused"}
                               \/ worker'[i][h].pc = "boot" /\ BaselineSealed(i),
         results'[i] = "completed" => seal[i] = "sealed"
  PROVE  JobInv(i)'
BY JobFrame

\* No launch reopens a sealed job, and no job starts before its baseline.
LEMMA JobStep ==
  ASSUME CampaignInv, [CampaignNext]_campaignVars, NEW i \in Job
  PROVE  JobInv(i)'
<1>0. CampaignTypeOK /\ OneLaunchAtWork /\ JobInv(i) /\ \A j \in Job : JobInv(j)
  BY DEF CampaignInv
<1>a. results[i] = "completed" => seal[i] = "sealed"
  BY <1>0 DEF JobInv, Waited
<1>1. CASE Launch
  <2>1. results'[i] = "completed" => seal[i] = "sealed"
    BY <1>1 DEF Launch
  <2> QED
    BY <1>0, <1>1, <2>1, JobRests DEF Launch
<1>2. CASE PlanWritten
  BY <1>0, <1>a, <1>2, JobRests DEF PlanWritten
<1>3. CASE Unpause
  BY <1>0, <1>a, <1>3, JobRests DEF Unpause
<1>4. CASE Round
  <2>1. Eligible \subseteq Job /\ \A j \in Eligible : BaselineSealed(j)
    BY <1>0, Jobs DEF Eligible, BaselineSealed, JobInv, Waited
  <2>2. Admitted \subseteq Eligible
    BY DEF Admitted
  <2>3. invocation \in Invocation
    BY <1>0, <1>4 DEF Round, OneLaunchAtWork, CampaignTypeOK, Invocation
  <2>4. \A h \in Invocation : \/ worker'[i][h] = worker[i][h]
                              \/ worker'[i][h].pc = "boot" /\ BaselineSealed(i)
    <3>1. CASE i \in Admitted
      <4>1. worker'[i] = [worker[i] EXCEPT ![invocation].pc = "boot"]
        BY <1>4, <3>1 DEF Round
      <4>2. worker[i] \in [Invocation -> Seat]
        BY <1>0 DEF CampaignTypeOK
      <4>3. worker'[i][invocation].pc = "boot" /\ \A h \in Invocation : h # invocation => worker'[i][h] = worker[i][h]
        BY <2>3, <4>1, <4>2 DEF Seat
      <4> QED
        BY <2>1, <2>2, <3>1, <4>3
    <3>2. CASE i \notin Admitted
      BY <1>4, <3>2 DEF Round
    <3> QED
      BY <3>1, <3>2
  <2> QED
    BY <1>0, <1>a, <1>4, <2>4, JobRests DEF Round, diskVars, supVars
<1>5. CASE Finish
  BY <1>0, <1>a, <1>5, JobRests DEF Finish, diskVars
<1>6. ASSUME NEW j \in Job, Reap(j) PROVE JobInv(i)'
  <2>1. results'[i] = "completed" => seal[i] = "sealed"
    <3>1. CASE i = j /\ results'[i] = "completed"
      <4>1. invocation \in Invocation
        BY <1>0, <1>6 DEF Reap, OneLaunchAtWork, CampaignTypeOK, Invocation
      <4>2. worker[j][invocation].pc = "done"
        BY <1>0, <1>6, <3>1 DEF Reap, CampaignTypeOK
      <4> QED
        BY <1>0, <3>1, <4>1, <4>2 DEF JobInv, KnowsSeal
    <3>2. CASE i # j
      BY <1>0, <1>a, <1>6, <3>2 DEF Reap, CampaignTypeOK
    <3> QED
      BY <3>1, <3>2
  <2> QED
    BY <1>0, <1>6, <2>1, JobRests DEF Reap
<1>7. ASSUME NEW j \in Job, NEW g \in Invocation, WorkerStep(j, g) PROVE JobInv(i)'
  BY <1>7, WorkerStepKeeps
<1>8. ASSUME NEW j \in Job, NEW g \in Invocation, WorkerDies(j, g) PROVE JobInv(i)'
  <2>1. \A h \in Invocation : worker'[i][h] = worker[i][h] \/ worker'[i][h].pc = "failed"
    BY <1>0, <1>8, WorkerMoves DEF WorkerDies, Exited
  <2> QED
    BY <1>0, <1>a, <1>8, <2>1, JobRests DEF WorkerDies, diskVars, supVars
<1>9. CASE SupervisorDies
  BY <1>0, <1>a, <1>9, JobRests DEF SupervisorDies, diskVars
<1>10. CASE EverythingStops
  <2>1. invocation \in Invocation
    BY <1>0, <1>10 DEF EverythingStops, OneLaunchAtWork, CampaignTypeOK, Invocation
  <2>2. \A h \in Invocation : worker'[i][h] = worker[i][h] \/ worker'[i][h].pc = "failed"
    <3> DEFINE w == worker[i][invocation]
    <3>1. worker[i] \in [Invocation -> Seat] /\ w \in Seat
      BY <1>0, <2>1 DEF CampaignTypeOK
    <3>2. worker'[i] = [worker[i] EXCEPT ![invocation] =
                          [w EXCEPT !.pc = IF w.pc \in Live THEN "failed" ELSE w.pc]]
      BY <1>10 DEF EverythingStops
    <3>3. w.pc \in Live => worker'[i][invocation].pc = "failed"
      BY <2>1, <3>1, <3>2 DEF Seat
    <3>4. w.pc \notin Live => worker'[i][invocation] = w
      BY <2>1, <3>1, <3>2 DEF Seat
    <3>5. \A h \in Invocation : h # invocation => worker'[i][h] = worker[i][h]
      BY <2>1, <3>1, <3>2
    <3> QED
      BY <3>3, <3>4, <3>5
  <2>3. results'[i] = "completed" => seal[i] = "sealed"
    BY <1>a, <1>10 DEF EverythingStops
  <2> QED
    BY <1>0, <1>10, <2>2, <2>3, JobRests DEF EverythingStops, diskVars
<1>11. CASE AskToPause
  BY <1>0, <1>a, <1>11, JobRests DEF AskToPause, supVars
<1>12. CASE UNCHANGED campaignVars
  BY <1>0, <1>a, <1>12, JobRests DEF campaignVars, diskVars, supVars
<1> QED
  BY <1>1, <1>2, <1>3, <1>4, <1>5, <1>6, <1>7, <1>8, <1>9, <1>10, <1>11, <1>12
     DEF CampaignNext, SupervisorStep
-----------------------------------------------------------------------------
(* Refusals, and the theorems.                                             *)

\* While nobody works, markers and the plan stay as a crash left them.
LEMMA RefusalStep == CampaignInv /\ [CampaignNext]_campaignVars => RefusalFollowsCrash'
<1> SUFFICES ASSUME CampaignInv, [CampaignNext]_campaignVars
             PROVE  RefusalFollowsCrash'
  OBVIOUS
<1>0. CampaignTypeOK /\ OneLaunchAtWork /\ RefusalFollowsCrash /\ \A j \in Job : JobInv(j)
  BY DEF CampaignInv
<1>1. CASE Launch
  <2>1. \A j \in Job : Refuses(j) => marker[j] = "tmp"
    <3> SUFFICES ASSUME NEW j \in Job, Refuses(j) PROVE marker[j] = "tmp"
      OBVIOUS
    <3>1. NothingReplayed(j) /\ SealHolds(j)
      BY <1>0 DEF JobInv
    <3>2. ~ Duplicate(j)
      <4> SUFFICES ASSUME NEW k \in Usable(j), NEW l \in Usable(j),
                          attempts[j][k].run = attempts[j][l].run
                   PROVE  k = l
        BY DEF Duplicate
      <4>1. k \in DOMAIN attempts[j] /\ l \in DOMAIN attempts[j]
        BY DEF Usable
      <4>2. k <= l /\ l <= k
        BY <3>1, <4>1 DEF NothingReplayed
      <4> QED
        BY <1>0, <4>1, <4>2, AttemptsAt
    <3> QED
      BY <3>1, <3>2 DEF Refuses, SealHolds
  <2> QED
    BY <1>1, <2>1 DEF Launch, RefusalFollowsCrash
<1>2. ASSUME sup' # "refused" PROVE RefusalFollowsCrash'
  BY <1>2 DEF RefusalFollowsCrash
<1>3. CASE sup' = sup /\ plan' = plan /\ marker' = marker
  BY <1>0, <1>3 DEF RefusalFollowsCrash
<1>4. ASSUME NEW j \in Job, NEW g \in Invocation, WorkerStep(j, g) PROVE RefusalFollowsCrash'
  <2>1. sup # "refused" /\ sup' = sup
    BY <1>0, <1>4, WorkerStepTouches DEF OneLaunchAtWork, supVars
  <2> QED
    BY <1>2, <2>1
<1>5. ASSUME PlanWritten \/ Unpause \/ Finish \/ SupervisorDies \/ EverythingStops
      PROVE  RefusalFollowsCrash'
  BY <1>2, <1>5 DEF PlanWritten, Unpause, Finish, SupervisorDies, EverythingStops
<1>6. ASSUME \/ Round \/ AskToPause \/ UNCHANGED campaignVars
             \/ \E j \in Job : Reap(j) \/ \E g \in Invocation : WorkerDies(j, g)
      PROVE  RefusalFollowsCrash'
  BY <1>3, <1>6 DEF Round, Reap, WorkerDies, AskToPause, campaignVars, diskVars, supVars
<1> QED
  BY <1>1, <1>4, <1>5, <1>6 DEF CampaignNext, SupervisorStep

LEMMA CampaignInvInit == CampaignInit => CampaignInv
<1> SUFFICES ASSUME CampaignInit PROVE CampaignInv
  OBVIOUS
<1>1. OneLaunchAtWork /\ RefusalFollowsCrash
  BY DEF CampaignInit, OneLaunchAtWork, RefusalFollowsCrash, Live
<1>2. \A j \in Job : JobInv(j)
  <2> SUFFICES ASSUME NEW j \in Job PROVE JobInv(j)
    OBVIOUS
  <2>1. Usable(j) = {}
    BY DEF CampaignInit, Usable
  <2>2. NothingReplayed(j) /\ SealHolds(j) /\ Waited(j)
    BY <2>1 DEF CampaignInit, NothingReplayed, SealHolds, Waited
  <2>3. \A g \in Invocation : KnowsDirectory(j, g) /\ KnowsSeal(j, g)
    BY DEF CampaignInit, KnowsDirectory, KnowsSeal, Live
  <2> QED
    BY <2>2, <2>3 DEF JobInv
<1> QED
  BY <1>1, <1>2, CampaignTypeInit DEF CampaignInv

LEMMA CampaignInvStep == CampaignInv /\ [CampaignNext]_campaignVars => CampaignInv'
<1> SUFFICES ASSUME CampaignInv, [CampaignNext]_campaignVars PROVE CampaignInv'
  OBVIOUS
<1>1. \A j \in Job : JobInv(j)'
  BY JobStep
<1> QED
  BY <1>1, CampaignTypeStep, OneLaunchStep, RefusalStep DEF CampaignInv

LEMMA CampaignInvariance == CampaignSpec => []CampaignInv
BY CampaignInvInit, CampaignInvStep, PTL DEF CampaignSpec

(* Every variable of a sweep keeps its type, however often the supervisor, *)
(* a worker or the whole machine dies and is resumed.                      *)
THEOREM CampaignIsTyped == CampaignSpec => []CampaignTypeOK
<1>1. CampaignInv => CampaignTypeOK
  BY DEF CampaignInv
<1> QED
  BY <1>1, CampaignInvariance, PTL

(* A scenario run that was accepted is never paid for again, and no two    *)
(* workers write one job's directory, for every number of jobs, scenarios, *)
(* workers and mishaps.                                                    *)
THEOREM AcceptedIsPaidOnce == CampaignSpec => []PaidOnce
<1>1. CampaignInv => PaidOnce
  <2> SUFFICES ASSUME CampaignInv, NEW j \in Job
               PROVE  /\ NothingReplayed(j)
                      /\ \A g, h \in Invocation :
                           worker[j][g].pc \in Live /\ worker[j][h].pc \in Live => g = h
    BY DEF PaidOnce, NothingReplayed
  <2> QED
    BY DEF CampaignInv, JobInv, OneLaunchAtWork
<1> QED
  BY <1>1, CampaignInvariance, PTL

(* An attestation stands for a complete job whose published rows are its   *)
(* accepted attempts, and no S-ORA job touches the disk before its ReAct   *)
(* baseline is sealed.                                                     *)
THEOREM AttestationIsComplete == CampaignSpec => []SealedIsComplete
<1>1. CampaignInv => SealedIsComplete
  BY DEF CampaignInv, JobInv, SealHolds, Waited, BaselineSealed, SealedIsComplete
<1> QED
  BY <1>1, CampaignInvariance, PTL

(* A resume refuses a root only where a crash cut the first write of the   *)
(* plan or of a checkpoint marker; nothing else a worker or the supervisor *)
(* leaves behind makes the root unusable.                                  *)
THEOREM RefusedOnlyAfterCrash == CampaignSpec => []RefusalFollowsCrash
<1>1. CampaignInv => RefusalFollowsCrash
  BY DEF CampaignInv
<1> QED
  BY <1>1, CampaignInvariance, PTL
=============================================================================

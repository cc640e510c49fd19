--------------------------- MODULE Records_proofs ---------------------------
(***************************************************************************)
(* Proofs about what the evaluation keeps: the command that opens a batch, *)
(* the artifacts it writes, the ledger of the prompt campaign and the      *)
(* agent's inferences with their meter.                                    *)
(***************************************************************************)
EXTENDS MCRecords, Totals, SequenceTheorems, FiniteSetTheorems, TLAPS

-----------------------------------------------------------------------------
(* BatchCommand.                                                           *)

\* The rows of an arm declare what some command that was not refused declares.
CommandInv ==
  /\ declared \in [{"sora", "react"} -> Declarations \cup {Absent}]
  /\ \A a \in {"sora", "react"} : declared[a] # Absent => declared[a].arm = a
  /\ asked \in 0..MaxAsked /\ ArmsComparable

\* A profile a command runs under is one of its candidates, and its operating
\* point is the one that runs.
LEMMA DeclaredIsHonest ==
  ASSUME NEW d \in Declarations
  PROVE  /\ d \in Declared
         /\ d.clock = "token_charged" => d.profile # Absent
         /\ d.profile # Absent => PointOf[d.profile] = d.ran
         /\ d.arm = "react" => d.profile # Absent
<1>1. PICK o \in Options : ~Refused(o) /\ d = Declares(o)
  BY DEF Declarations
<1>2. /\ o.arm \in {"sora", "react"} /\ o.profile \in Profiles \cup {Absent}
      /\ o.charge \in Profiles \cup {Absent} /\ o.config \in Points \cup {Absent}
  BY DEF Options
<1>3. d.arm = o.arm /\ d.clock = Clock(o) /\ d.ran = RunsAt(o) /\ d.label = RunsAt(o)
      /\ d.pinned = ("manifest" \in o.flags)
      /\ d.profile = IF AtFrozenPoint(o) THEN CHOOSE p \in ProfilesFor(o) : TRUE ELSE Absent
  BY <1>1 DEF Declares
<1>4. /\ o.arm = "react" => o.profile \in Profiles
      /\ o.arm = "sora" => o.config \in Points
  BY <1>1, <1>2 DEF Refused, Conflict
<1>5. RunsAt(o) \in Points
  BY <1>2, <1>4, CommandConstants DEF RunsAt
<1>6. ASSUME AtFrozenPoint(o)
      PROVE  d.profile \in ProfilesFor(o) /\ d.profile \in Profiles /\ PointOf[d.profile] = d.ran
  <2>1. Cardinality(ProfilesFor(o)) = 1
    BY <1>1, <1>6 DEF Refused
  <2>2. ProfilesFor(o) # {}
    BY <2>1, FS_EmptySet
  <2>3. d.profile \in ProfilesFor(o)
    BY <1>3, <1>6, <2>2
  <2>4. ProfilesFor(o) \subseteq Profiles
    BY <1>2, <1>4 DEF ProfilesFor
  <2>5. Matches(d.profile, o.config)
    BY <1>1, <1>6, <2>3 DEF Refused, AtFrozenPoint
  <2>6. PointOf[d.profile] = RunsAt(o)
    <3>1. CASE o.arm = "react"
      BY <2>3, <3>1 DEF ProfilesFor, RunsAt
    <3>2. CASE o.arm = "sora"
      BY <1>4, <2>5, <3>2, CommandConstants DEF Matches, RunsAt
    <3> QED
      BY <1>2, <3>1, <3>2
  <2> QED
    BY <1>3, <2>3, <2>4, <2>6
<1>7. d.profile \in Profiles \cup {Absent} /\ (~AtFrozenPoint(o) => d.profile = Absent)
  BY <1>3, <1>6
<1>8. d \in Declared
  <2>1. Clock(o) \in {"wall_clock", "token_charged", "generation_free"}
    BY DEF Clock
  <2>2. d = [arm |-> d.arm, clock |-> d.clock, pinned |-> d.pinned, profile |-> d.profile,
             label |-> d.label, ran |-> d.ran]
    BY <1>1 DEF Declares
  <2>3. d.pinned \in BOOLEAN
    BY <1>3
  <2>4. /\ d.arm \in {"sora", "react"} /\ d.clock \in {"wall_clock", "token_charged", "generation_free"}
        /\ d.profile \in Profiles \cup {Absent} /\ d.label \in Points /\ d.ran \in Points
    BY <1>2, <1>3, <1>5, <1>7, <2>1
  <2> QED
    BY <2>2, <2>3, <2>4 DEF Declared
<1>9. d.clock = "token_charged" => AtFrozenPoint(o)
  BY <1>3 DEF Clock
<1>10. Absent \notin Profiles
  BY CommandConstants
<1> QED
  BY <1>3, <1>6, <1>7, <1>8, <1>9, <1>10 DEF AtFrozenPoint

LEMMA CommandInvInit == CommandInit => CommandInv
BY CommandConstants DEF CommandInit, CommandInv, ArmsComparable

LEMMA CommandInvStep == CommandInv /\ [CommandNext]_commandVars => CommandInv'
<1> SUFFICES ASSUME CommandInv, [CommandNext]_commandVars PROVE CommandInv'
  OBVIOUS
<1>0. declared \in [{"sora", "react"} -> Declarations \cup {Absent}] /\ asked \in 0..MaxAsked
  BY DEF CommandInv
<1>a. Absent \notin Profiles
  BY CommandConstants
<1>1. ASSUME NEW d \in Declarations, Command(d) PROVE CommandInv'
  <2> DEFINE other == IF d.arm = "sora" THEN "react" ELSE "sora"
  <2>1. d.arm \in {"sora", "react"}
    BY DeclaredIsHonest DEF Declared
  <2>2. /\ declared' = [declared EXCEPT ![d.arm] = d] /\ asked' = asked + 1 /\ asked < MaxAsked
        /\ Paired(d, declared[other])
    BY <1>1 DEF Command
  <2>3. /\ declared' \in [{"sora", "react"} -> Declarations \cup {Absent}]
        /\ declared'[d.arm] = d /\ declared'[other] = declared[other]
        /\ {"sora", "react"} = {d.arm, other}
    BY <1>0, <2>1, <2>2
  <2>4. asked' \in 0..MaxAsked
    BY <1>0, <2>2, CommandConstants
  <2>5. \A a \in {"sora", "react"} : declared'[a] # Absent => declared'[a].arm = a
    BY <2>1, <2>3 DEF CommandInv
  <2>6. \A a \in {"sora", "react"} : declared'[a] # Absent => declared'[a] \in Declarations
    BY <2>3
  <2>7. ASSUME \A a \in {"sora", "react"} : declared'[a] # Absent /\ declared'[a].pinned
        PROVE  /\ declared'["sora"].clock = declared'["react"].clock
               /\ declared'["sora"].profile # Absent => declared'["sora"].profile = declared'["react"].profile
    <3>1. declared[other] # Absent /\ d.pinned
      BY <2>1, <2>3, <2>7
    <3>2. /\ declared[other].clock = d.clock
          /\ d.profile \in {Absent, declared[other].profile}
      BY <2>2, <3>1 DEF Paired
    <3>3. CASE d.arm = "sora"
      BY <2>3, <3>2, <3>3
    <3>4. CASE d.arm = "react"
      <4>1. d.profile # Absent
        BY <3>4, DeclaredIsHonest
      <4> QED
        BY <2>3, <3>2, <3>4, <4>1
    <3> QED
      BY <2>1, <3>3, <3>4
  <2>8. \A a \in {"sora", "react"} : declared'[a] # Absent =>
          /\ declared'[a].clock = "token_charged" => declared'[a].profile # Absent
          /\ declared'[a].profile # Absent => PointOf[declared'[a].profile] = declared'[a].ran
    BY <2>6, DeclaredIsHonest
  <2>9. DOMAIN declared' = {"sora", "react"}
    BY <2>3
  <2>10. ArmsComparable'
    BY <2>7, <2>8, <2>9 DEF ArmsComparable
  <2> QED
    BY <2>3, <2>4, <2>5, <2>10 DEF CommandInv
<1>2. ASSUME NEW a \in DOMAIN declared, Clear(a) PROVE CommandInv'
  <2>1. a \in {"sora", "react"} /\ declared' = [declared EXCEPT ![a] = Absent] /\ asked' = asked
    BY <1>0, <1>2 DEF Clear
  <2>2. /\ declared' \in [{"sora", "react"} -> Declarations \cup {Absent}] /\ declared'[a] = Absent
        /\ \A b \in {"sora", "react"} : b # a => declared'[b] = declared[b]
    BY <1>0, <2>1
  <2>3. DOMAIN declared' = {"sora", "react"} /\ DOMAIN declared = {"sora", "react"}
    BY <1>0, <2>2
  <2>4. ArmsComparable'
    BY <2>1, <2>2, <2>3 DEF ArmsComparable, CommandInv
  <2> QED
    BY <1>0, <2>1, <2>2, <2>4 DEF CommandInv
<1>3. CASE UNCHANGED commandVars
  BY <1>3 DEF commandVars, CommandInv, ArmsComparable
<1> QED
  BY <1>1, <1>2, <1>3 DEF CommandNext

LEMMA CommandInvariance == CommandSpec => []CommandInv
BY CommandInvInit, CommandInvStep, PTL DEF CommandSpec

(* What the rows of an arm declare keeps its type, whatever is asked.      *)
THEOREM CommandIsTyped == CommandSpec => []CommandTypeOK
<1>1. CommandInv => CommandTypeOK
  BY DeclaredIsHonest DEF CommandInv, CommandTypeOK
<1> QED
  BY <1>1, CommandInvariance, PTL

(* Two pinned arms that both name a profile were run under one clock and   *)
(* at one operating point, whatever the commands were and in whichever     *)
(* order, for any profiles; and tokens are charged only at the rates of    *)
(* the operating point that ran.                                           *)
THEOREM ArmsAreComparable == CommandSpec => []ArmsComparable
<1>1. CommandInv => ArmsComparable
  BY DEF CommandInv
<1> QED
  BY <1>1, CommandInvariance, PTL
-----------------------------------------------------------------------------
(* BatchArtifacts.                                                         *)

Held == [rows : Seq(Row), stray : BOOLEAN]
Running == [pc : {"loading", "playing"}, at : Place, set : Settings, overwrite : BOOLEAN]

BatchTypes ==
  /\ rows \in [Place -> Seq(Row)] /\ stray \in [Place -> BOOLEAN]
  /\ tainted \subseteq Place /\ opened \subseteq Place
  /\ attested \in [Place -> SUBSET Held] /\ closed \in [Place -> Seq(Row)]
  /\ cmd \in {Idle} \cup Running
  /\ commands \in 0..MaxCommands /\ edits \in 0..MaxEdits

\* The rows of a run are the cases in the order of the manifest.
InManifestOrder(log) == \A i \in DOMAIN log : log[i].case = i

\* An attestation is of the rows a complete run closed the directory with, and
\* only the command that plays a directory writes it.
AttestsAClosing ==
  /\ \A p \in Place : /\ attested[p] = {} \/ \E c \in Held : attested[p] = {c} /\ c.rows = closed[p]
                      /\ closed[p] # <<>> => Len(closed[p]) = Cases /\ InManifestOrder(closed[p])
  /\ cmd \in Running /\ cmd.pc = "playing" =>
       Len(rows[cmd.at]) <= Cases /\ InManifestOrder(rows[cmd.at])

\* Rows are in a directory that has its file, and so are those to come.
RowsAreOnFile ==
  /\ \A p \in Place : rows[p] # <<>> => p \in opened
  /\ cmd \in Running /\ cmd.pc = "playing" => cmd.at \in opened

BatchInv == BatchTypes /\ AttestsAClosing /\ RowsAreOnFile

LEMMA BatchInvInit == BatchInit => BatchInv
<1> SUFFICES ASSUME BatchInit PROVE BatchInv
  OBVIOUS
<1>1. <<>> \in Seq(Row)
  BY EmptySeq
<1>2. BatchTypes
  BY <1>1, BatchConstants DEF BatchInit, BatchTypes
<1>3. AttestsAClosing
  BY DEF BatchInit, AttestsAClosing, Idle, Running
<1>4. RowsAreOnFile
  BY DEF BatchInit, RowsAreOnFile, Idle, Running
<1> QED
  BY <1>2, <1>3, <1>4 DEF BatchInv

\* What a directory holds.
LEMMA RowsAt ==
  ASSUME BatchTypes, NEW p \in Place
  PROVE  /\ rows[p] \in Seq(Row) /\ Len(rows[p]) \in Nat /\ DOMAIN rows[p] = 1 .. Len(rows[p])
         /\ \A i \in DOMAIN rows[p] : rows[p][i] \in Row
<1>1. rows[p] \in Seq(Row)
  BY DEF BatchTypes
<1> QED
  BY <1>1, LenProperties, ElementOfSeq

\* A running command is no idle one.
LEMMA CommandRuns ==
  ASSUME BatchTypes, cmd.pc \in {"loading", "playing"}
  PROVE  cmd \in Running /\ cmd.at \in Place /\ cmd.set \in Settings
BY DEF BatchTypes, Idle, Running

\* A case that is played becomes the next row.
LEMMA RowAppended ==
  ASSUME BatchInv, NEW o \in Outcome, PlayCase(o)
  PROVE  LET p == cmd.at
         IN /\ rows' \in [Place -> Seq(Row)]
            /\ \A q \in Place : q # p => rows'[q] = rows[q]
            /\ Len(rows'[p]) = Len(rows[p]) + 1 /\ Len(rows'[p]) <= Cases
            /\ InManifestOrder(rows'[p])
            /\ rows[p] = SubSeq(rows'[p], 1, Len(rows[p]))
<1> DEFINE p == cmd.at
           r == [case |-> Len(rows[p]) + 1, set |-> cmd.set, outcome |-> o]
<1>0. /\ BatchTypes /\ cmd.pc = "playing" /\ Len(rows[p]) < Cases
      /\ rows' = [rows EXCEPT ![p] = Append(rows[p], r)]
  BY DEF BatchInv, PlayCase
<1>1. p \in Place /\ cmd.set \in Settings /\ cmd \in Running
  BY <1>0, CommandRuns
<1>2. rows[p] \in Seq(Row) /\ Len(rows[p]) \in Nat /\ DOMAIN rows[p] = 1 .. Len(rows[p])
  BY <1>0, <1>1, RowsAt
<1>3. r \in Row /\ r.case = Len(rows[p]) + 1
  BY <1>0, <1>1, <1>2, BatchConstants DEF Row
<1>4. InManifestOrder(rows[p])
  BY <1>0, <1>1 DEF BatchInv, AttestsAClosing
<1> HIDE DEF r
<1>5. rows'[p] = Append(rows[p], r) /\ \A q \in Place : q # p => rows'[q] = rows[q]
  BY <1>0, <1>1 DEF BatchTypes
<1>6. /\ rows'[p] \in Seq(Row) /\ Len(rows'[p]) = Len(rows[p]) + 1
      /\ \A i \in 1 .. Len(rows[p]) : rows'[p][i] = rows[p][i]
      /\ rows'[p][Len(rows[p]) + 1] = r
  BY <1>2, <1>3, <1>5, AppendProperties
<1>7. rows' \in [Place -> Seq(Row)]
  BY <1>0, <1>1, <1>6 DEF BatchTypes
<1>8. DOMAIN rows'[p] = 1 .. (Len(rows[p]) + 1)
  BY <1>6, LenProperties
<1>9. InManifestOrder(rows'[p])
  BY <1>2, <1>3, <1>4, <1>6, <1>8 DEF InManifestOrder
<1>10. rows[p] = SubSeq(rows'[p], 1, Len(rows[p]))
  <2> DEFINE s == SubSeq(rows'[p], 1, Len(rows[p]))
  <2>1. \A i \in 1 .. Len(rows[p]) : rows'[p][i] \in Row
    BY <1>2, <1>6
  <2>2. /\ s \in Seq(Row)
        /\ Len(s) = IF 1 <= Len(rows[p]) THEN Len(rows[p]) - 1 + 1 ELSE 0
        /\ \A i \in 1 .. Len(rows[p]) - 1 + 1 : s[i] = rows'[p][1 + i - 1]
    BY <1>2, <2>1, SubSeqProperties
  <2> HIDE DEF s
  <2>3. Len(s) = Len(rows[p]) /\ \A i \in 1 .. Len(rows[p]) : s[i] = rows[p][i]
    BY <1>2, <1>6, <2>2
  <2>4. s = rows[p]
    BY <1>2, <2>2, <2>3, SeqEqual
  <2> QED
    BY <2>4 DEF s
<1>11. Len(rows[p]) + 1 <= Cases
  BY <1>0, <1>2, BatchConstants
<1> QED
  BY <1>5, <1>6, <1>7, <1>9, <1>10, <1>11

\* Somebody's edit leaves rows, and leaves alone what is being played.
LEMMA EditTouches ==
  ASSUME BatchInv, NEW p \in Place, Edit(p)
  PROVE  /\ rows' \in [Place -> Seq(Row)] /\ stray' \in [Place -> BOOLEAN] /\ tainted' \subseteq Place
         /\ edits' \in 0..MaxEdits /\ edits' # edits
         /\ \A q \in Place : q # p => rows'[q] = rows[q]
         /\ rows[p] = <<>> => rows' = rows
         /\ cmd \in Running /\ cmd.pc = "playing" => cmd.at # p
         /\ UNCHANGED <<opened, attested, archive, cmd, closed, commands>>
<1>0. BatchTypes /\ edits < MaxEdits /\ edits' = edits + 1
  BY DEF BatchInv, Edit
<1>1. edits' \in 0..MaxEdits /\ edits' # edits
  BY <1>0, BatchConstants DEF BatchTypes
<1>2. /\ cmd \in Running /\ cmd.pc = "playing" => cmd.at # p
      /\ UNCHANGED <<opened, attested, archive, cmd, closed, commands>>
  BY DEF Edit, Running, Idle
<1>3. rows[p] \in Seq(Row) /\ DOMAIN rows[p] = 1 .. Len(rows[p])
  BY <1>0, RowsAt
<1>4. /\ rows' \in [Place -> Seq(Row)]
      /\ \A q \in Place : q # p => rows'[q] = rows[q]
  <2>1. ASSUME NEW s \in Seq(Row), rows' = [rows EXCEPT ![p] = s]
        PROVE  rows' \in [Place -> Seq(Row)] /\ \A q \in Place : q # p => rows'[q] = rows[q]
    BY <1>0, <2>1 DEF BatchTypes
  <2>2. ASSUME NEW i \in DOMAIN rows[p], rows' = [rows EXCEPT ![p][i].outcome = "pass"]
        PROVE  \E s \in Seq(Row) : rows' = [rows EXCEPT ![p] = s]
    <3> DEFINE r == [rows[p][i] EXCEPT !.outcome = "pass"]
    <3>1. rows[p][i] \in Row
      BY <1>3, ElementOfSeq
    <3>2. r \in Row
      BY <3>1, BatchConstants DEF Row
    <3>3. rows' = [rows EXCEPT ![p] = [rows[p] EXCEPT ![i] = r]]
      BY <2>2
    <3> HIDE DEF r
    <3>4. [rows[p] EXCEPT ![i] = r] \in Seq(Row)
      BY <1>3, <3>2, ExceptSeq
    <3> QED
      BY <3>3, <3>4
  <2>3. ASSUME rows[p] # <<>>, rows' = [rows EXCEPT ![p] = Tail(rows[p])]
        PROVE  \E s \in Seq(Row) : rows' = [rows EXCEPT ![p] = s]
    BY <1>3, <2>3, HeadTailProperties
  <2>4. CASE rows' = rows
    BY <1>0, <2>4 DEF BatchTypes
  <2>5. \/ \E i \in DOMAIN rows[p] : rows' = [rows EXCEPT ![p][i].outcome = "pass"]
        \/ rows[p] # <<>> /\ rows' = [rows EXCEPT ![p] = Tail(rows[p])]
        \/ rows' = rows
    BY DEF Edit
  <2> QED
    BY <2>1, <2>2, <2>3, <2>4, <2>5
<1>5. stray' \in [Place -> BOOLEAN] /\ tainted' \subseteq Place
  BY <1>0 DEF Edit, BatchTypes
<1>6. rows[p] = <<>> => rows' = rows
  <2>1. rows[p] = <<>> => DOMAIN rows[p] = {}
    BY EmptySeq
  <2> QED
    BY <2>1 DEF Edit
<1> QED
  BY <1>1, <1>2, <1>4, <1>5, <1>6

LEMMA BatchInvStep == BatchInv /\ [BatchNext]_batchVars => BatchInv'
<1> SUFFICES ASSUME BatchInv, [BatchNext]_batchVars PROVE BatchInv'
  OBVIOUS
<1>0. BatchTypes /\ AttestsAClosing /\ RowsAreOnFile
  BY DEF BatchInv
<1>1. ASSUME NEW p \in Place, NEW s \in Settings, NEW o \in BOOLEAN, Ask(p, s, o) PROVE BatchInv'
  <2>1. cmd' \in Running /\ cmd'.pc = "loading"
    BY <1>1 DEF Ask, Running
  <2>2. UNCHANGED <<opened, rows, stray, attested, tainted, closed, edits>> /\ commands' \in 0..MaxCommands
    BY <1>0, <1>1, BatchConstants DEF Ask, BatchTypes
  <2>3. BatchTypes'
    BY <1>0, <2>1, <2>2 DEF BatchTypes
  <2> QED
    BY <1>0, <2>1, <2>2, <2>3 DEF BatchInv, AttestsAClosing, RowsAreOnFile
<1>2. CASE Open
  <2> DEFINE p == cmd.at
  <2>1. p \in Place /\ cmd \in Running
    BY <1>0, <1>2, CommandRuns DEF Open
  <2>2. /\ rows' = [rows EXCEPT ![p] = <<>>] /\ stray' = [stray EXCEPT ![p] = FALSE]
        /\ attested' = [attested EXCEPT ![p] = {}] /\ cmd' = [cmd EXCEPT !.pc = "playing"]
        /\ opened' = opened \cup {p} /\ UNCHANGED <<tainted, closed, commands, edits>>
    BY <1>2 DEF Open
  <2>3. cmd' \in Running /\ cmd'.at = p
    BY <2>1, <2>2 DEF Running
  <2>4. /\ rows' \in [Place -> Seq(Row)] /\ rows'[p] = <<>>
        /\ stray' \in [Place -> BOOLEAN] /\ attested' \in [Place -> SUBSET Held] /\ attested'[p] = {}
        /\ \A q \in Place : q # p => attested'[q] = attested[q] /\ rows'[q] = rows[q]
    <3>1. <<>> \in Seq(Row)
      BY EmptySeq
    <3> QED
      BY <1>0, <2>1, <2>2, <3>1 DEF BatchTypes
  <2>5. BatchTypes'
    BY <1>0, <2>1, <2>2, <2>3, <2>4 DEF BatchTypes
  <2>6. Len(rows'[p]) <= Cases /\ InManifestOrder(rows'[p])
    <3>1. Len(<<>>) = 0 /\ DOMAIN <<>> = {}
      BY EmptySeq
    <3> QED
      BY <2>4, <3>1, BatchConstants DEF InManifestOrder
  <2> HIDE DEF p
  <2>7. AttestsAClosing'
    BY <1>0, <2>2, <2>3, <2>4, <2>6 DEF AttestsAClosing
  <2>8. RowsAreOnFile'
    BY <1>0, <2>2, <2>3, <2>4 DEF RowsAreOnFile
  <2> QED
    BY <2>5, <2>7, <2>8 DEF BatchInv
<1>3. CASE LoadFails \/ Abort
  <2>1. cmd' = Idle /\ UNCHANGED <<opened, rows, stray, attested, tainted, closed, commands, edits>>
    BY <1>3 DEF LoadFails, Abort
  <2>2. cmd' \notin Running
    BY <2>1 DEF Idle, Running
  <2> QED
    BY <1>0, <2>1, <2>2 DEF BatchInv, BatchTypes, AttestsAClosing, RowsAreOnFile
<1>4. ASSUME NEW o \in Outcome, PlayCase(o) PROVE BatchInv'
  <2>1. UNCHANGED <<opened, stray, attested, tainted, cmd, closed, commands, edits>>
        /\ cmd.pc = "playing"
    BY <1>4 DEF PlayCase
  <2>2. /\ rows' \in [Place -> Seq(Row)] /\ Len(rows'[cmd.at]) <= Cases
        /\ InManifestOrder(rows'[cmd.at]) /\ \A q \in Place : q # cmd.at => rows'[q] = rows[q]
    BY <1>4, RowAppended
  <2>3. BatchTypes'
    BY <1>0, <2>1, <2>2 DEF BatchTypes
  <2>4. AttestsAClosing'
    BY <1>0, <2>1, <2>2 DEF AttestsAClosing
  <2>5. cmd \in Running
    BY <1>0, <2>1, CommandRuns
  <2>6. RowsAreOnFile'
    BY <1>0, <2>1, <2>2, <2>5 DEF RowsAreOnFile
  <2> QED
    BY <2>3, <2>4, <2>6 DEF BatchInv
<1>5. CASE Seal
  <2> DEFINE p == cmd.at
  <2>1. p \in Place /\ cmd \in Running /\ cmd.pc = "playing"
    BY <1>0, <1>5, CommandRuns DEF Seal
  <2>2. /\ attested' = [attested EXCEPT ![p] = {Content(p)}] /\ closed' = [closed EXCEPT ![p] = rows[p]]
        /\ cmd' = Idle /\ UNCHANGED <<opened, rows, stray, tainted, commands, edits>> /\ Len(rows[p]) = Cases
    BY <1>5 DEF Seal
  <2>3. Content(p) \in Held /\ Content(p).rows = rows[p]
    BY <1>0, <2>1 DEF Content, Held, BatchTypes
  <2>4. /\ attested' \in [Place -> SUBSET Held] /\ closed' \in [Place -> Seq(Row)]
        /\ attested'[p] = {Content(p)} /\ closed'[p] = rows[p]
        /\ \A q \in Place : q # p => attested'[q] = attested[q] /\ closed'[q] = closed[q]
    BY <1>0, <2>1, <2>2, <2>3 DEF BatchTypes
  <2>5. cmd' \notin Running
    BY <2>2 DEF Idle, Running
  <2>6. BatchTypes'
    BY <1>0, <2>2, <2>4 DEF BatchTypes
  <2>7. InManifestOrder(rows[p])
    BY <1>0, <2>1 DEF AttestsAClosing
  <2> HIDE DEF p
  <2>8. AttestsAClosing'
    BY <1>0, <2>2, <2>3, <2>4, <2>5, <2>7 DEF AttestsAClosing
  <2>9. RowsAreOnFile'
    BY <1>0, <2>2, <2>5 DEF RowsAreOnFile
  <2> QED
    BY <2>6, <2>8, <2>9 DEF BatchInv
<1>6. ASSUME NEW p \in Place, Edit(p) PROVE BatchInv'
  <2>1. /\ rows' \in [Place -> Seq(Row)] /\ stray' \in [Place -> BOOLEAN] /\ tainted' \subseteq Place
        /\ edits' \in 0..MaxEdits
        /\ \A q \in Place : q # p => rows'[q] = rows[q]
        /\ rows[p] = <<>> => rows' = rows
        /\ cmd \in Running /\ cmd.pc = "playing" => cmd.at # p
        /\ UNCHANGED <<opened, attested, cmd, closed, commands>>
    BY <1>6, EditTouches
  <2>2. BatchTypes'
    BY <1>0, <2>1 DEF BatchTypes
  <2>3. cmd \in Running => cmd.at \in Place
    BY DEF Running
  <2>4. AttestsAClosing'
    BY <1>0, <2>1, <2>3 DEF AttestsAClosing
  <2>5. RowsAreOnFile'
    BY <1>0, <2>1 DEF RowsAreOnFile
  <2> QED
    BY <2>2, <2>4, <2>5 DEF BatchInv
<1>7. CASE UNCHANGED batchVars
  BY <1>0, <1>7 DEF batchVars, BatchInv, BatchTypes, AttestsAClosing, RowsAreOnFile
<1> QED
  BY <1>1, <1>2, <1>3, <1>4, <1>5, <1>6, <1>7 DEF BatchNext

LEMMA BatchInvariance == BatchSpec => []BatchInv
BY BatchInvInit, BatchInvStep, PTL DEF BatchSpec

(* The artifacts keep their types, and a directory has one attestation at  *)
(* most, whatever commands and hand edits come in whatever order.          *)
THEOREM BatchIsTyped == BatchSpec => []BatchTypeOK
<1>1. BatchInv => BatchTypeOK
  <2> SUFFICES ASSUME BatchInv PROVE BatchTypeOK
    OBVIOUS
  <2>1. ASSUME NEW p \in Place PROVE Cardinality(attested[p]) <= 1
    <3>1. attested[p] = {} \/ \E c : attested[p] = {c}
      BY DEF BatchInv, AttestsAClosing
    <3>2. CASE attested[p] = {}
      BY <3>2, FS_EmptySet
    <3>3. ASSUME NEW c, attested[p] = {c} PROVE Cardinality(attested[p]) <= 1
      <4>1. Cardinality({c}) = 1
        BY FS_Singleton
      <4> QED
        BY <3>3, <4>1
    <3> QED
      BY <3>1, <3>2, <3>3
  <2> QED
    BY <2>1 DEF BatchInv, BatchTypes, BatchTypeOK, Running
<1> QED
  BY <1>1, BatchInvariance, PTL

\* Finitely many rows declare finitely much.
LEMMA PromotedFinite ==
  ASSUME BatchInv, NEW arm, NEW field
  PROVE  IsFiniteSet(Promoted(arm, field))
<1> DEFINE D == {Distinct(p, field) : p \in Reported(arm)}
<1>0. BatchTypes
  BY DEF BatchInv
<1>1. IsFiniteSet(Reported(arm)) /\ Reported(arm) \subseteq Place
  BY BatchConstants, FS_Subset DEF Reported
<1>2. IsFiniteSet(D)
  <2> DEFINE f == [p \in Reported(arm) |-> Distinct(p, field)]
  <2>1. f \in Surjection(Reported(arm), D)
    BY DEF Surjection
  <2> QED
    BY <1>1, <2>1, FS_Surjection
<1>3. ASSUME NEW T \in D PROVE IsFiniteSet(T)
  <2>1. PICK p \in Reported(arm) : T = Distinct(p, field)
    BY <1>3
  <2> DEFINE f == [i \in DOMAIN rows[p] |-> rows[p][i].set[field]]
  <2>2. f \in Surjection(DOMAIN rows[p], T)
    BY <2>1 DEF Surjection, Distinct
  <2>3. IsFiniteSet(DOMAIN rows[p])
    <3>1. Len(rows[p]) \in Nat /\ DOMAIN rows[p] = 1 .. Len(rows[p])
      BY <1>0, <1>1, RowsAt
    <3>2. IsFiniteSet(1 .. Len(rows[p]))
      <4>1. 1 \in Int /\ Len(rows[p]) \in Int
        BY <3>1
      <4> QED
        BY <4>1, FS_Interval
    <3> QED
      BY <3>1, <3>2
  <2> QED
    BY <2>2, <2>3, FS_Surjection
<1> QED
  BY <1>2, <1>3, FS_UNION DEF Promoted

\* Where at most one thing is declared, any two declarations agree.
LEMMA OneDeclared ==
  ASSUME NEW S, IsFiniteSet(S), ~(Cardinality(S) > 1), NEW x \in S, NEW y \in S
  PROVE  x = y
<1>1. Cardinality(S) \in Nat /\ Cardinality(S) # 0
  BY FS_CardinalityType, FS_EmptySet
<1>2. Cardinality(S) = 1
  BY <1>1
<1> QED
  BY <1>2, FS_Singleton

(* A headline that is printed is one complete, unaltered sweep: re-runs,   *)
(* aborts, hand edits and archived leftovers never add up to one, for any  *)
(* directories, capabilities, cases and settings.                          *)
THEOREM HeadlineHolds == BatchSpec => []HeadlineIsOneSweep
<1>1. BatchInv => HeadlineIsOneSweep
  <2> SUFFICES ASSUME BatchInv, NEW arm \in {"sora", "react"}, ~Withheld(arm),
                      NEW p \in {x \in Place : x.arm = arm}, NEW q \in {x \in Place : x.arm = arm}
               PROVE  /\ closed[p] = rows[p] /\ Len(rows[p]) = Cases /\ \A i \in 1..Cases : Scored(rows[p][i])
                      /\ \A i, k \in 1..Cases :
                           /\ rows[p][i].set.clock = rows[q][k].set.clock
                           /\ rows[p][i].set.manifest = rows[q][k].set.manifest
                           /\ arm = "sora" => rows[p][i].set.prompt = rows[q][k].set.prompt
    BY DEF HeadlineIsOneSweep
  <2>0. BatchTypes /\ AttestsAClosing
    BY DEF BatchInv
  <2>1. \A r \in {x \in Place : x.arm = arm} : r \in Reported(arm)
    <3> SUFFICES ASSUME NEW r \in Place, r.arm = arm PROVE r \in Reported(arm)
      OBVIOUS
    <3>1. r \in [arm : {"sora", "react"}, of : Core]
      BY BatchConstants
    <3>2. r.of \in Core
      BY <3>1
    <3>3. PICK t \in Reported(arm) : t.of = r.of
      BY <3>2 DEF Withheld
    <3>4. t \in [arm : {"sora", "react"}, of : Core] /\ t.arm = arm
      BY BatchConstants DEF Reported
    <3>5. t = r
      BY <3>1, <3>3, <3>4
    <3> QED
      BY <3>3, <3>5
  <2>2. \A r \in Reported(arm) : /\ r \in Place /\ rows[r] # <<>>
                                 /\ closed[r] = rows[r] /\ Len(rows[r]) = Cases
                                 /\ \A i \in 1..Cases : Scored(rows[r][i])
    <3> SUFFICES ASSUME NEW r \in Reported(arm)
                 PROVE  /\ r \in Place /\ rows[r] # <<>> /\ closed[r] = rows[r] /\ Len(rows[r]) = Cases
                        /\ \A i \in 1..Cases : Scored(rows[r][i])
      OBVIOUS
    <3>1. r \in Place /\ rows[r] # <<>> /\ Verifies(r) /\ Covered(r) = 1..Cases
      BY DEF Withheld, Reported
    <3>2. closed[r] = rows[r]
      <4>1. attested[r] = {Content(r)} /\ Content(r).rows = rows[r]
        BY <3>1 DEF Verifies, Content
      <4> QED
        BY <2>0, <3>1, <4>1 DEF AttestsAClosing
    <3>3. Len(rows[r]) = Cases /\ InManifestOrder(rows[r])
      BY <2>0, <3>1, <3>2 DEF AttestsAClosing
    <3>4. DOMAIN rows[r] = 1..Cases
      BY <2>0, <3>1, <3>3, RowsAt
    <3>5. ASSUME NEW i \in 1..Cases PROVE Scored(rows[r][i])
      <4>1. i \in Covered(r)
        BY <3>1
      <4>2. PICK k \in DOMAIN rows[r] : Scored(rows[r][k]) /\ rows[r][k].case = i
        BY <4>1 DEF Covered
      <4>3. k = i
        BY <3>3, <4>2 DEF InManifestOrder
      <4> QED
        BY <4>2, <4>3
    <3> QED
      BY <3>1, <3>2, <3>3, <3>5
  <2>3. p \in Reported(arm) /\ q \in Reported(arm)
    BY <2>1
  <2>4. DOMAIN rows[p] = 1..Cases /\ DOMAIN rows[q] = 1..Cases
    BY <2>0, <2>2, <2>3, RowsAt
  <2>5. ASSUME NEW i \in 1..Cases, NEW k \in 1..Cases, NEW field,
               ~(Cardinality(Promoted(arm, field)) > 1)
        PROVE  rows[p][i].set[field] = rows[q][k].set[field]
    <3>1. rows[p][i].set[field] \in Distinct(p, field) /\ rows[q][k].set[field] \in Distinct(q, field)
      BY <2>4 DEF Distinct
    <3>2. rows[p][i].set[field] \in Promoted(arm, field) /\ rows[q][k].set[field] \in Promoted(arm, field)
      BY <2>3, <3>1 DEF Promoted
    <3> QED
      BY <2>5, <3>2, PromotedFinite, OneDeclared
  <2>6. /\ ~(Cardinality(Promoted(arm, "clock")) > 1)
        /\ ~(Cardinality(Promoted(arm, "manifest")) > 1)
        /\ arm = "sora" => ~(Cardinality(Promoted(arm, "prompt")) > 1)
    <3>1. Promoted(arm, "manifest") = {Manifest}
      BY DEF Withheld
    <3>2. ~(Cardinality(Promoted(arm, "manifest")) > 1)
      BY <3>1, FS_Singleton
    <3> QED
      BY <3>2 DEF Withheld
  <2>7. ASSUME NEW i \in 1..Cases, NEW k \in 1..Cases
        PROVE  /\ rows[p][i].set.clock = rows[q][k].set.clock
               /\ rows[p][i].set.manifest = rows[q][k].set.manifest
               /\ arm = "sora" => rows[p][i].set.prompt = rows[q][k].set.prompt
    BY <2>5, <2>6
  <2> QED
    BY <2>2, <2>3, <2>7
<1> QED
  BY <1>1, BatchInvariance, PTL

(* No command destroys what a sweep paid for: a row that disappears from a *)
(* directory is in the archive, and no directory that verifies is reopened *)
(* - an action property, of every step of every behaviour.                 *)
THEOREM PaidArtifactsSurvive == BatchSpec => NothingPaidIsLost
<1> DEFINE Kept == \A p \in Place :
       edits' = edits /\ rows[p] # <<>> /\ rows'[p] # rows[p] =>
         \/ Len(rows[p]) < Len(rows'[p]) /\ rows[p] = SubSeq(rows'[p], 1, Len(rows[p]))
         \/ ~Verifies(p) /\ Content(p) \in archive'
<1>1. BatchInv /\ [BatchNext]_batchVars => [Kept]_batchVars
  <2> SUFFICES ASSUME BatchInv, BatchNext, NEW p \in Place, edits' = edits, rows[p] # <<>>, rows'[p] # rows[p]
               PROVE  \/ Len(rows[p]) < Len(rows'[p]) /\ rows[p] = SubSeq(rows'[p], 1, Len(rows[p]))
                      \/ ~Verifies(p) /\ Content(p) \in archive'
    OBVIOUS
  <2>0. BatchTypes
    BY DEF BatchInv
  <2>1. CASE Open
    <3>1. cmd.at \in Place
      BY <2>0, <2>1, CommandRuns DEF Open
    <3>2. p = cmd.at
      BY <2>0, <2>1, <3>1 DEF Open, BatchTypes
    <3>3. ~Empty(p)
      BY DEF BatchInv, RowsAreOnFile, Empty
    <3> QED
      BY <2>1, <3>2, <3>3 DEF Open, Writable
  <2>2. ASSUME NEW o \in Outcome, PlayCase(o)
        PROVE  Len(rows[p]) < Len(rows'[p]) /\ rows[p] = SubSeq(rows'[p], 1, Len(rows[p]))
    <3>1. p = cmd.at
      BY <2>2, RowAppended
    <3>2. Len(rows[p]) \in Nat
      BY <2>0, RowsAt
    <3> QED
      BY <2>2, <3>1, <3>2, RowAppended
  <2>3. \A q \in Place : ~Edit(q)
    BY EditTouches
  <2>4. \/ Open \/ \E o \in Outcome : PlayCase(o)
        \/ \E q \in Place : Edit(q)
        \/ rows' = rows
    BY DEF BatchNext, Ask, LoadFails, Seal, Abort
  <2> QED
    BY <2>1, <2>2, <2>3, <2>4
<1>2. BatchSpec => [][Kept]_batchVars
  BY <1>1, BatchInvariance, PTL DEF BatchSpec
<1> QED
  BY <1>2 DEF NothingPaidIsLost
-----------------------------------------------------------------------------
(* PromptCampaign.                                                         *)

\* The last of finitely many places.
LEMMA GreatestOf ==
  ASSUME NEW n \in Nat, NEW S \in SUBSET (1..n), S # {}
  PROVE  Max(S) \in S /\ \A y \in S : Max(S) >= y
<1> DEFINE T == {n - x : x \in S}
<1>1. T \in SUBSET Nat /\ T # {}
  <2>1. ASSUME NEW x \in S PROVE n - x \in Nat
    <3>1. x \in 1..n
      OBVIOUS
    <3> QED
      BY <3>1
  <2> QED
    BY <2>1
<1>2. PICK t \in T : \A u \in T : t <= u
  BY <1>1, LeastOf
<1>3. PICK x \in S : t = n - x
  BY <1>2
<1>4. ASSUME NEW y \in S PROVE x >= y
  <2>1. n - x <= n - y
    BY <1>2, <1>3
  <2>2. x \in Nat /\ y \in Nat
    OBVIOUS
  <2> QED
    BY <2>1, <2>2
<1>5. \E z \in S : \A y \in S : z >= y
  BY <1>4
<1> QED
  BY <1>5 DEF Max

\* What a ledger of records comes to is an amount.
LEMMA SpentIsAmount ==
  ASSUME NEW log \in Seq(Record)
  PROVE  Spent(log) \in Nat
<1> DEFINE n == Len(log)
           f == [k \in 1..n |-> Accounted(log[k])]
           E(s) == [k \in 0..n |-> IF k = 0 THEN 0 ELSE s[k - 1] + Accounted(log[k])]
           paid == CHOOSE s : s = E(s)
<1>1. n \in Nat /\ \A k \in 1..n : log[k] \in Record
  BY LenProperties, ElementOfSeq
<1>2. \A k \in 1..n : f[k] \in Nat /\ f[k] = Accounted(log[k])
  <2> SUFFICES ASSUME NEW k \in 1..n PROVE Accounted(log[k]) \in Nat
    OBVIOUS
  <2>1. log[k].cost \in Costs \cup {Unknown}
    BY <1>1 DEF Record
  <2>2. (IF log[k].cost = Unknown THEN Reserve ELSE log[k].cost) \in Nat /\ JudgeReserve \in Nat
    BY <2>1, CampaignBudget
  <2> QED
    BY <2>2 DEF Accounted
<1>3. PICK s \in [0..n -> Nat] : s[0] = 0 /\ \A k \in 1..n : s[k] = s[k - 1] + f[k]
  <2> HIDE DEF n, f
  <2> QED
    BY <1>1, <1>2, RunningTotal
<1>4. s = E(s)
  <2>1. \A k \in 0..n : s[k] = IF k = 0 THEN 0 ELSE s[k - 1] + Accounted(log[k])
    BY <1>1, <1>2, <1>3
  <2> HIDE DEF n, f
  <2> QED
    BY <1>3, <2>1
<1>5. paid = E(paid)
  <2> HIDE DEF E
  <2> QED
    BY <1>4
<1>6. Spent(log) = paid[n]
  BY DEF Spent
<1> HIDE DEF paid, n, f
<1>7. \A k \in 0..n : paid[k] = IF k = 0 THEN 0 ELSE paid[k - 1] + Accounted(log[k])
  BY <1>5
<1> HIDE DEF E
<1>8. paid[0] = s[0]
  BY <1>1, <1>3, <1>7
<1>9. \A k \in 1..n : paid[k - 1] = s[k - 1] => paid[k] = s[k]
  BY <1>1, <1>2, <1>3, <1>7
<1>10. \A k \in 0..n : paid[k] = s[k]
  <2>1. n \in Nat
    BY <1>1
  <2>2. \A t, u : t[0] = u[0] /\ (\A k \in 1..n : t[k - 1] = u[k - 1] => t[k] = u[k])
                => \A k \in 0..n : t[k] = u[k]
    BY <2>1, OneRunningTotal, Zenon
  <2>3. paid[0] = s[0] /\ (\A k \in 1..n : paid[k - 1] = s[k - 1] => paid[k] = s[k])
        => \A k \in 0..n : paid[k] = s[k]
    BY <2>2, Zenon
  <2> QED
    BY <1>8, <1>9, <2>3
<1> QED
  BY <1>1, <1>3, <1>6, <1>10

PinPair == [prompts : Pins, judge : Pins]
Choosing == [pc : {"next"}, arm : Arm, done : SUBSET (1..Entries), pins : PinPair]
Recording == [pc : {"append"}, arm : Arm, done : SUBSET (1..Entries), pins : PinPair, record : Record]

Tails == [Arm -> {"ended", "open", "torn"}]

PromptTypes ==
  /\ ledger \in [Arm -> Seq(Record)] /\ tail \in Tails
  /\ live \in PinPair /\ started \in 0..MaxStarts
  /\ run \in {Quiet} \cup Choosing \cup Recording

PinnedTo(log, pins) ==
  \A i \in DOMAIN log : log[i].prompts = pins.prompts /\ log[i].judge = pins.judge

\* What a running command knows of its ledger: the records are of its pins, what
\* they completed is done, and the runs that remain are still allowed.
CommandIsFunded ==
  run # Quiet =>
    /\ Completed(ledger[run.arm]) \subseteq run.done
    /\ Len(ledger[run.arm]) + Cardinality(Remaining(run.done)) <= MaxGaiaRuns
    /\ PinnedTo(ledger[run.arm], run.pins)

\* A record that is about to be appended was reserved for, is of an entry that
\* was open, and is of the command's pins.
RecordIsReserved ==
  run.pc = "append" =>
    /\ run.record.entry \in Remaining(run.done)
    /\ Spent(ledger[run.arm]) + Reserve + JudgeReserve <= MaxSpend
    /\ run.record.prompts = run.pins.prompts /\ run.record.judge = run.pins.judge

LedgersBalance == \A a \in Arm : WithinBudget(ledger[a]) /\ OnePin(ledger[a])

PromptInv == PromptTypes /\ CommandIsFunded /\ RecordIsReserved /\ LedgersBalance

LEMMA PromptInvInit == PromptInit => PromptInv
<1> SUFFICES ASSUME PromptInit PROVE PromptInv
  OBVIOUS
<1>1. PromptTypes
  BY CampaignBudget DEF PromptInit, PromptTypes, Tails, PinPair, Quiet
<1>2. run = Quiet /\ Quiet.pc # "append"
  BY DEF PromptInit, Quiet
<1>3. LedgersBalance
  <2> SUFFICES ASSUME NEW a \in Arm PROVE WithinBudget(<<>>) /\ OnePin(<<>>)
    BY DEF LedgersBalance, PromptInit
  <2>1. Len(<<>>) = 0 /\ DOMAIN <<>> = {}
    OBVIOUS
  <2> QED
    BY <2>1, CampaignBudget DEF WithinBudget, OnePin
<1> QED
  BY <1>1, <1>2, <1>3 DEF PromptInv, CommandIsFunded, RecordIsReserved

\* What a ledger completed is of the matrix.
LEMMA CompletedIsOfMatrix ==
  ASSUME NEW log \in Seq(Record)
  PROVE  Completed(log) \in SUBSET (1..Entries)
<1> SUFFICES ASSUME NEW i \in DOMAIN log PROVE log[i].entry \in 1..Entries
  BY DEF Completed
<1>1. DOMAIN log = 1..Len(log) /\ \A k \in 1..Len(log) : log[k] \in Record
  BY LenProperties, ElementOfSeq
<1>2. log[i] \in Record
  BY <1>1
<1> QED
  BY <1>2 DEF Record

\* Which arm a running command plays, and with what.
LEMMA CommandIsLive ==
  ASSUME PromptTypes, run # Quiet
  PROVE  /\ run.arm \in Arm /\ run.done \in SUBSET (1..Entries) /\ run.pins \in PinPair
         /\ run.pc \in {"next", "append"} /\ ledger[run.arm] \in Seq(Record)
         /\ run.pc = "append" => run.record \in Record
BY DEF PromptTypes, Choosing, Recording

\* The entries that remain are finitely many, and one fewer once one is done.
LEMMA RemainingCounts ==
  ASSUME NEW done \in SUBSET (1..Entries)
  PROVE  /\ IsFiniteSet(Remaining(done)) /\ Cardinality(Remaining(done)) \in Nat
         /\ \A e \in Remaining(done) :
              Cardinality(Remaining(done \cup {e})) = Cardinality(Remaining(done)) - 1
<1>1. IsFiniteSet(1..Entries)
  BY CampaignBudget, FS_Interval
<1>2. IsFiniteSet(Remaining(done))
  BY <1>1, FS_Difference DEF Remaining
<1>3. ASSUME NEW e \in Remaining(done)
      PROVE  Cardinality(Remaining(done \cup {e})) = Cardinality(Remaining(done)) - 1
  <2>1. Remaining(done \cup {e}) = Remaining(done) \ {e}
    BY DEF Remaining
  <2> QED
    BY <1>2, <2>1, FS_RemoveElement
<1> QED
  BY <1>2, <1>3, FS_CardinalityType

\* The reserve of what remains covers the reserve of the next entry.
LEMMA ReserveCoversNext ==
  ASSUME NEW done \in SUBSET (1..Entries), Remaining(done) # {}
  PROVE  Reserved(done) \in Nat /\ Reserve + JudgeReserve <= Reserved(done)
<1> DEFINE n == Cardinality(Remaining(done))
           r == Reserve + JudgeReserve
<1>1. n \in Nat /\ n # 0
  BY RemainingCounts, FS_EmptySet
<1>2. r \in Nat
  BY CampaignBudget
<1>3. Reserved(done) = n * r
  BY DEF Reserved
<1> HIDE DEF n, r
<1>4. n * r \in Nat /\ r <= n * r
  BY <1>1, <1>2
<1> QED
  BY <1>3, <1>4 DEF r

\* The ledger after a record that was reserved for.
LEMMA RecordAppended ==
  ASSUME NEW log \in Seq(Record), NEW rec \in Record, NEW pins,
         WithinBudget(log), PinnedTo(log, pins), Len(log) < MaxGaiaRuns,
         Spent(log) + Reserve + JudgeReserve <= MaxSpend,
         rec.entry \notin Completed(log), rec.prompts = pins.prompts, rec.judge = pins.judge
  PROVE  /\ Append(log, rec) \in Seq(Record)
         /\ WithinBudget(Append(log, rec)) /\ OnePin(Append(log, rec))
         /\ PinnedTo(Append(log, rec), pins)
         /\ Completed(Append(log, rec)) \subseteq Completed(log) \cup {rec.entry}
<1> DEFINE new == Append(log, rec)
           n == Len(log)
<1>1. /\ new \in Seq(Record) /\ Len(new) = n + 1 /\ new[n + 1] = rec
      /\ \A i \in 1..n : new[i] = log[i]
  BY AppendProperties
<1>2. n \in Nat /\ DOMAIN log = 1..n /\ DOMAIN new = 1..n + 1
  BY <1>1, LenProperties
<1>3. 1..n + 1 = (1..n) \cup {n + 1}
  BY <1>2
<1> HIDE DEF new, n
<1>4. PinnedTo(new, pins)
  BY <1>1, <1>2, <1>3 DEF PinnedTo
<1>5. OnePin(new)
  BY <1>4 DEF PinnedTo, OnePin
<1>6. Completed(new) \subseteq Completed(log) \cup {rec.entry}
  BY <1>1, <1>2, <1>3 DEF Completed
<1>7. ASSUME NEW i \in DOMAIN new
      PROVE  Spent(SubSeq(new, 1, i - 1)) + Reserve + JudgeReserve <= MaxSpend
  <2>1. SubSeq(new, 1, i - 1) = SubSeq(log, 1, i - 1)
    BY <1>1, <1>2
  <2>2. CASE i = n + 1
    <3>1. SubSeq(log, 1, n) = log
      BY <1>2 DEF n
    <3>2. i - 1 = n
      BY <1>2, <2>2
    <3> QED
      BY <2>1, <3>1, <3>2
  <2>3. CASE i \in 1..n
    BY <2>1, <2>3, <1>2 DEF WithinBudget
  <2> QED
    BY <1>2, <1>3, <2>2, <2>3
<1>8. ASSUME NEW i \in DOMAIN new, NEW k \in DOMAIN new, i < k, new[i].evaluable
      PROVE  new[k].entry # new[i].entry
  <2>1. i \in 1..n /\ new[i] = log[i]
    BY <1>1, <1>2, <1>3, <1>8
  <2>2. CASE k = n + 1
    <3>1. log[i].entry \in Completed(log)
      BY <1>2, <1>8, <2>1 DEF Completed
    <3> QED
      BY <1>1, <2>1, <2>2, <3>1
  <2>3. CASE k \in 1..n
    BY <1>1, <1>2, <1>8, <2>1, <2>3 DEF WithinBudget
  <2> QED
    BY <1>2, <1>3, <2>2, <2>3
<1>9. Len(new) <= MaxGaiaRuns
  BY <1>1, <1>2, CampaignBudget DEF n
<1>10. WithinBudget(new)
  BY <1>7, <1>8, <1>9 DEF WithinBudget
<1> QED
  BY <1>1, <1>4, <1>5, <1>6, <1>10 DEF new

\* Whether its newline survives or not, a record that is written was reserved
\* for: the ledger stays in balance, and what is left of the matrix is funded.
LEMMA RecordWritten ==
  ASSUME PromptInv, run.pc = "append", NEW end \in {"ended", "open"}, Written(end)
  PROVE  /\ ledger' \in [Arm -> Seq(Record)] /\ tail' \in Tails /\ LedgersBalance'
         /\ run.arm \in Arm /\ run.pins \in PinPair
         /\ run.done \cup {run.record.entry} \in SUBSET (1..Entries)
         /\ Completed(ledger'[run.arm]) \subseteq run.done \cup {run.record.entry}
         /\ Len(ledger'[run.arm]) + Cardinality(Remaining(run.done \cup {run.record.entry})) <= MaxGaiaRuns
         /\ PinnedTo(ledger'[run.arm], run.pins)
<1> DEFINE log == ledger[run.arm]
           new == Append(log, run.record)
<1>0. PromptTypes /\ CommandIsFunded /\ RecordIsReserved /\ LedgersBalance
  BY DEF PromptInv
<1>1. /\ run # Quiet /\ ledger' = [ledger EXCEPT ![run.arm] = new]
      /\ tail' = [tail EXCEPT ![run.arm] = IF tail[run.arm] = "ended" THEN end ELSE "torn"]
  BY DEF Written, Quiet
<1>2. /\ run.arm \in Arm /\ run.done \in SUBSET (1..Entries) /\ run.pins \in PinPair
      /\ log \in Seq(Record) /\ run.record \in Record
  BY <1>0, <1>1, CommandIsLive
<1>3. /\ Completed(log) \subseteq run.done /\ PinnedTo(log, run.pins)
      /\ Len(log) + Cardinality(Remaining(run.done)) <= MaxGaiaRuns
  BY <1>0, <1>1 DEF CommandIsFunded
<1>4. /\ run.record.entry \in Remaining(run.done)
      /\ Spent(log) + Reserve + JudgeReserve <= MaxSpend
      /\ run.record.prompts = run.pins.prompts /\ run.record.judge = run.pins.judge
  BY <1>0, <1>1 DEF RecordIsReserved
<1>5. WithinBudget(log)
  BY <1>0, <1>2 DEF LedgersBalance
<1>6. /\ Cardinality(Remaining(run.done)) \in Nat /\ Cardinality(Remaining(run.done)) # 0
      /\ Cardinality(Remaining(run.done \cup {run.record.entry})) = Cardinality(Remaining(run.done)) - 1
  BY <1>2, <1>4, RemainingCounts, FS_EmptySet
<1>7. Len(log) \in Nat /\ Len(new) = Len(log) + 1
  BY <1>2, LenProperties, AppendProperties
<1>8. Len(log) < MaxGaiaRuns
  <2> HIDE DEF log, new
  <2> QED
    BY <1>3, <1>6, <1>7, CampaignBudget
<1>9. run.record.entry \notin Completed(log)
  BY <1>3, <1>4 DEF Remaining
<1>10. /\ new \in Seq(Record) /\ WithinBudget(new) /\ OnePin(new) /\ PinnedTo(new, run.pins)
       /\ Completed(new) \subseteq Completed(log) \cup {run.record.entry}
  <2> HIDE DEF log
  <2> QED
    BY <1>2, <1>3, <1>4, <1>5, <1>8, <1>9, RecordAppended
<1> HIDE DEF new
<1>11. /\ ledger' \in [Arm -> Seq(Record)] /\ ledger'[run.arm] = new
       /\ \A a \in Arm : a # run.arm => ledger'[a] = ledger[a]
  BY <1>0, <1>1, <1>2, <1>10 DEF PromptTypes
<1>12. tail' \in Tails
  BY <1>0, <1>1, <1>2 DEF PromptTypes, Tails
<1>13. run.done \cup {run.record.entry} \in SUBSET (1..Entries)
  BY <1>2, <1>4 DEF Remaining
<1>14. Len(new) + Cardinality(Remaining(run.done \cup {run.record.entry})) <= MaxGaiaRuns
  <2> HIDE DEF log
  <2> QED
    BY <1>3, <1>6, <1>7, CampaignBudget
<1>15. Completed(new) \subseteq run.done \cup {run.record.entry}
  BY <1>3, <1>10
<1>16. LedgersBalance'
  BY <1>0, <1>10, <1>11 DEF LedgersBalance
<1> QED
  BY <1>2, <1>10, <1>11, <1>12, <1>13, <1>14, <1>15, <1>16

LEMMA PromptInvStep == PromptInv /\ [PromptNext]_promptVars => PromptInv'
<1> SUFFICES ASSUME PromptInv, [PromptNext]_promptVars PROVE PromptInv'
  OBVIOUS
<1>0. PromptTypes /\ CommandIsFunded /\ RecordIsReserved /\ LedgersBalance
  BY DEF PromptInv
<1>1. ASSUME NEW a \in Arm, NEW s \in Pins, Start(a, s) PROVE PromptInv'
  <2>1. /\ run' = [pc |-> "next", arm |-> a, done |-> Completed(ledger[a]), pins |-> live]
        /\ ledger' = ledger /\ tail' = tail /\ live' = live
        /\ started' \in 0..MaxStarts
    BY <1>0, <1>1, CampaignBudget DEF Start, PromptTypes
  <2>2. ledger[a] \in Seq(Record)
    BY <1>0 DEF PromptTypes
  <2>3. Completed(ledger[a]) \in SUBSET (1..Entries)
    BY <2>2, CompletedIsOfMatrix
  <2>4. run' \in Choosing
    BY <1>0, <2>1, <2>3 DEF PromptTypes, Choosing
  <2>5. PromptTypes'
    BY <1>0, <2>1, <2>4 DEF PromptTypes
  <2>6. PinnedTo(ledger[a], live)
    BY <1>1 DEF Start, PinnedTo
  <2>7. Len(ledger[a]) + Cardinality(Remaining(Completed(ledger[a]))) <= MaxGaiaRuns
    BY <1>1 DEF Start, WithinPolicy
  <2>8. CommandIsFunded'
    BY <2>1, <2>6, <2>7 DEF CommandIsFunded
  <2>9. RecordIsReserved' /\ LedgersBalance'
    BY <1>0, <2>1 DEF RecordIsReserved, LedgersBalance
  <2> QED
    BY <2>5, <2>8, <2>9 DEF PromptInv
<1>2. ASSUME NEW e \in BOOLEAN, NEW c \in Costs \cup {Unknown}, PlayEntry(e, c) PROVE PromptInv'
  <2> DEFINE log == ledger[run.arm]
             next == CHOOSE x \in Remaining(run.done) : \A f \in Remaining(run.done) : x <= f
             rec == [entry |-> next, evaluable |-> e, cost |-> c,
                     prompts |-> run.pins.prompts, judge |-> run.pins.judge]
  <2>1. /\ run.pc = "next" /\ Remaining(run.done) # {} /\ run # Quiet
        /\ Spent(log) + Reserved(run.done) <= MaxSpend
        /\ run' = [pc |-> "append", arm |-> run.arm, done |-> run.done, pins |-> run.pins, record |-> rec]
        /\ ledger' = ledger /\ tail' = tail /\ live' = live /\ started' = started
    BY <1>2 DEF PlayEntry, Quiet
  <2>2. /\ run.arm \in Arm /\ run.done \in SUBSET (1..Entries) /\ run.pins \in PinPair
        /\ log \in Seq(Record)
    BY <1>0, <2>1, CommandIsLive
  <2>3. next \in Remaining(run.done)
    <3>1. Remaining(run.done) \in SUBSET Nat
      BY DEF Remaining
    <3>2. \E x \in Remaining(run.done) : \A f \in Remaining(run.done) : x <= f
      BY <2>1, <3>1, LeastOf
    <3> QED
      BY <3>2
  <2> HIDE DEF next
  <2>4. rec \in Record
    <3>1. next \in 1..Entries
      BY <2>3 DEF Remaining
    <3>2. run.pins.prompts \in Pins /\ run.pins.judge \in Pins
      BY <2>2 DEF PinPair
    <3>3. e \in BOOLEAN /\ c \in Costs \cup {Unknown}
      OBVIOUS
    <3> QED
      BY <3>1, <3>2, <3>3 DEF Record
  <2>5. rec.entry = next /\ rec.prompts = run.pins.prompts /\ rec.judge = run.pins.judge
    OBVIOUS
  <2> HIDE DEF rec
  <2>6. run' \in Recording
    BY <2>1, <2>2, <2>4 DEF Recording
  <2>7. /\ run'.arm = run.arm /\ run'.done = run.done /\ run'.pins = run.pins
        /\ run'.record = rec /\ run'.pc = "append"
    BY <2>1
  <2>8. PromptTypes'
    BY <1>0, <2>1, <2>6 DEF PromptTypes
  <2>9. CommandIsFunded'
    BY <1>0, <2>1, <2>7 DEF CommandIsFunded
  <2>10. Spent(log) + Reserve + JudgeReserve <= MaxSpend
    <3>1. Reserved(run.done) \in Nat /\ Reserve + JudgeReserve <= Reserved(run.done)
      BY <2>1, <2>2, ReserveCoversNext
    <3>2. Spent(log) \in Nat
      BY <2>2, SpentIsAmount
    <3> HIDE DEF log
    <3> QED
      BY <2>1, <3>1, <3>2, CampaignBudget
  <2>11. RecordIsReserved'
    BY <2>1, <2>3, <2>5, <2>7, <2>10 DEF RecordIsReserved
  <2>12. LedgersBalance'
    BY <1>0, <2>1 DEF LedgersBalance
  <2> QED
    BY <2>8, <2>9, <2>11, <2>12 DEF PromptInv
<1>3. CASE AppendRecord
  <2>1. /\ run.pc = "append" /\ Written("ended")
        /\ run' = [pc |-> "next", arm |-> run.arm, pins |-> run.pins,
                   done |-> run.done \cup {run.record.entry}]
        /\ live' = live /\ started' = started
    BY <1>3 DEF AppendRecord
  <2>2. /\ ledger' \in [Arm -> Seq(Record)] /\ tail' \in Tails /\ LedgersBalance'
        /\ run.arm \in Arm /\ run.pins \in PinPair
        /\ run.done \cup {run.record.entry} \in SUBSET (1..Entries)
        /\ Completed(ledger'[run.arm]) \subseteq run.done \cup {run.record.entry}
        /\ Len(ledger'[run.arm]) + Cardinality(Remaining(run.done \cup {run.record.entry})) <= MaxGaiaRuns
        /\ PinnedTo(ledger'[run.arm], run.pins)
    BY <2>1, RecordWritten
  <2>3. /\ run'.arm = run.arm /\ run'.done = run.done \cup {run.record.entry}
        /\ run'.pins = run.pins /\ run'.pc = "next" /\ run' \in Choosing
    BY <2>1, <2>2 DEF Choosing
  <2>4. PromptTypes'
    BY <1>0, <2>1, <2>2, <2>3 DEF PromptTypes
  <2>5. CommandIsFunded' /\ RecordIsReserved'
    BY <2>2, <2>3 DEF CommandIsFunded, RecordIsReserved
  <2> QED
    BY <2>2, <2>4, <2>5 DEF PromptInv
<1>4. ASSUME run' = Quiet, live' = live, started' = started,
             ledger' \in [Arm -> Seq(Record)], tail' \in Tails, LedgersBalance'
      PROVE  PromptInv'
  <2>1. PromptTypes' /\ Quiet.pc # "append"
    BY <1>0, <1>4 DEF PromptTypes, Quiet
  <2> QED
    BY <1>4, <2>1 DEF PromptInv, CommandIsFunded, RecordIsReserved
<1>5. CASE RunEnds
  BY <1>0, <1>4, <1>5 DEF RunEnds, PromptTypes, LedgersBalance
<1>6. CASE RunDies
  <2>1. run' = Quiet /\ live' = live /\ started' = started
    BY <1>6 DEF RunDies
  <2>2. CASE UNCHANGED <<ledger, tail>>
    BY <1>0, <1>4, <2>1, <2>2 DEF PromptTypes, LedgersBalance
  <2>3. CASE tail' = [tail EXCEPT ![run.arm] = "torn"] /\ UNCHANGED ledger
    <3>1. tail' \in Tails
      BY <1>0, <2>3 DEF PromptTypes, Tails
    <3> QED
      BY <1>0, <1>4, <2>1, <2>3, <3>1 DEF PromptTypes, LedgersBalance
  <2>4. CASE run.pc = "append" /\ Written("open")
    <3>1. ledger' \in [Arm -> Seq(Record)] /\ tail' \in Tails /\ LedgersBalance'
      BY <2>4, RecordWritten
    <3> QED
      BY <1>4, <2>1, <3>1
  <2> QED
    BY <1>6, <2>2, <2>3, <2>4 DEF RunDies
<1>7. CASE EditPins
  <2>1. PromptTypes'
    BY <1>0, <1>7 DEF EditPins, PromptTypes, PinPair
  <2> QED
    BY <1>0, <1>7, <2>1 DEF EditPins, PromptInv, CommandIsFunded, RecordIsReserved, LedgersBalance
<1>8. CASE UNCHANGED promptVars
  <2>1. PromptTypes'
    BY <1>0, <1>8 DEF promptVars, PromptTypes
  <2> QED
    BY <1>0, <1>8, <2>1 DEF promptVars, PromptInv, CommandIsFunded, RecordIsReserved, LedgersBalance
<1> QED
  BY <1>1, <1>2, <1>3, <1>5, <1>6, <1>7, <1>8 DEF PromptNext

LEMMA PromptInvariance == PromptSpec => []PromptInv
BY PromptInvInit, PromptInvStep, PTL DEF PromptSpec

(* Type correctness: the ledgers hold records of the matrix and of known   *)
(* pins, and the running command is one of an arm.                         *)
THEOREM PromptIsTyped == PromptSpec => []PromptTypeOK
<1>1. PromptInv => PromptTypeOK
  <2> SUFFICES ASSUME PromptInv PROVE PromptTypeOK
    OBVIOUS
  <2>1. PromptTypes
    BY DEF PromptInv
  <2> QED
    BY <2>1, CommandIsLive DEF PromptTypes, PromptTypeOK, Tails, PinPair
<1> QED
  BY <1>1, PromptInvariance, PTL

\* In a ledger that pays no entry again after it was completed, the last record
\* of a completed entry is the one that completed it.
LEMMA LastCompletes ==
  ASSUME PromptTypes, NEW a \in Arm, WithinBudget(ledger[a]), NEW entry
  PROVE  (\E r \in LastRecord(a, entry) : r.evaluable) <=> entry \in Completed(ledger[a])
<1> DEFINE log == ledger[a]
           at == {i \in DOMAIN log : log[i].entry = entry}
<1>1. log \in Seq(Record)
  BY DEF PromptTypes
<1>2. Len(log) \in Nat /\ DOMAIN log = 1..Len(log)
  BY <1>1, LenProperties
<1>3. at # {} => Max(at) \in at /\ \A i \in at : Max(at) >= i
  <2>1. at \in SUBSET (1..Len(log))
    BY <1>2
  <2> HIDE DEF at
  <2> QED
    BY <1>2, <2>1, GreatestOf
<1>4. LastRecord(a, entry) = IF at = {} THEN {} ELSE {log[Max(at)]}
  BY DEF LastRecord
<1>5. ASSUME NEW r \in LastRecord(a, entry), r.evaluable PROVE entry \in Completed(log)
  <2>1. at # {} /\ r = log[Max(at)]
    BY <1>4, <1>5
  <2>2. Max(at) \in DOMAIN log /\ log[Max(at)].entry = entry
    BY <1>3, <2>1
  <2> QED
    BY <1>5, <2>1, <2>2 DEF Completed
<1>6. ASSUME entry \in Completed(log) PROVE \E r \in LastRecord(a, entry) : r.evaluable
  <2>1. PICK i \in DOMAIN log : log[i].evaluable /\ log[i].entry = entry
    BY <1>6 DEF Completed
  <2>2. i \in at
    BY <2>1
  <2> DEFINE last == Max(at)
  <2>3. last \in DOMAIN log /\ log[last].entry = entry /\ last >= i
    BY <1>3, <2>2
  <2>4. last = i
    <3>1. ~(i < last)
      BY <2>1, <2>3 DEF WithinBudget
    <3>2. i \in Nat /\ last \in Nat
      BY <1>2, <2>1, <2>3
    <3> HIDE DEF last
    <3> QED
      BY <2>3, <3>1, <3>2
  <2>5. LastRecord(a, entry) = {log[i]}
    BY <1>4, <2>2, <2>4
  <2> QED
    BY <2>1, <2>5
<1> QED
  BY <1>5, <1>6

(* However often a campaign is killed and resumed, no ledger outgrows the  *)
(* budget, pays an entry twice, or mixes prompts or judges; what a report  *)
(* pairs is then exactly what both arms completed.                         *)
THEOREM LedgerBalances == PromptSpec => []LedgerHolds
<1>1. PromptInv => LedgerHolds
  <2> SUFFICES ASSUME PromptInv PROVE LedgerHolds
    OBVIOUS
  <2>1. PromptTypes /\ LedgersBalance
    BY DEF PromptInv
  <2>2. \A a \in Arm : WithinBudget(ledger[a]) /\ OnePin(ledger[a])
    BY <2>1 DEF LedgersBalance
  <2>3. \A a \in Arm : Completed(ledger[a]) \subseteq 1..Entries
    BY <2>1, CompletedIsOfMatrix DEF PromptTypes
  <2>4. \A a \in Arm, entry \in 1..Entries :
          (\E r \in LastRecord(a, entry) : r.evaluable) <=> entry \in Completed(ledger[a])
    BY <2>1, <2>2, LastCompletes
  <2>5. Scores = Completed(ledger["baseline"]) \cap Completed(ledger["candidate"])
    BY <2>3, <2>4 DEF Scores, Arm
  <2> QED
    BY <2>2, <2>5 DEF LedgerHolds
<1> QED
  BY <1>1, PromptInvariance, PTL
-----------------------------------------------------------------------------
(* Inference.                                                              *)

\* What an answer that reads as a value may authorize.
Authorizes(kind, a, v, g) ==
  /\ kind = "condition" /\ ~v.failed => Whole(a) /\ a.form = "list" /\ Strays(a.items) = 0
  /\ kind = "revalidate" /\ v = FALSE => Whole(a) /\ a.form \in {"no", "list"}
  /\ kind = "ground" => Whole(a) /\ Len(v) >= Supplied
  /\ kind = "relevance" /\ v # Nothing => Whole(a) /\ v < Supplied
  /\ kind = "plan" => Whole(a) /\ (g => v = <<>>)

LEMMA StraysCount ==
  ASSUME NEW l \in Seq(Nat)
  PROVE  Strays(l) \in Nat /\ (Strays(l) = 0 => \A n \in DOMAIN l : ~(l[n] >= Supplied))
<1> DEFINE S == {n \in DOMAIN l : l[n] >= Supplied}
<1>1. IsFiniteSet(S)
  <2>1. IsFiniteSet(DOMAIN l)
    BY LenProperties, FS_Interval
  <2> QED
    BY <2>1, FS_Subset
<1>2. Strays(l) = Cardinality(S)
  BY DEF Strays
<1>3. Cardinality(S) \in Nat /\ (Cardinality(S) = 0 <=> S = {})
  BY <1>1, FS_CardinalityType, FS_EmptySet
<1> QED
  BY <1>2, <1>3

\* How an answer reads that is JSON, or nearly.
LEMMA ReadWhole ==
  ASSUME NEW kind \in Kinds, NEW a \in Answer, NEW g, a.read # "junk"
  PROVE  Read(kind, a, g).is = Parsed(kind, a, g).is /\ Read(kind, a, g).value = Parsed(kind, a, g).value
<1>1. Parsed(kind, a, g) = [is |-> Parsed(kind, a, g).is, value |-> Parsed(kind, a, g).value,
                         dropped |-> Parsed(kind, a, g).dropped, repaired |-> Parsed(kind, a, g).repaired]
  BY DEF Parsed, ParsePlan, ParseParams, ParseKeep, ParseVerdict, ParseConditionVerdict, ParseRetirement,
         ParseRelevance, ListOf, Unread, Unresolvable, Reading
<1> HIDE DEF Parsed
<1>2. CASE a.read = "clean"
  BY <1>2 DEF Read
<1>3. CASE a.read = "mended"
  <2>1. Read(kind, a, g) = [Parsed(kind, a, g) EXCEPT !.repaired = Parsed(kind, a, g).repaired + 1]
    BY <1>3 DEF Read
  <2> QED
    BY <1>1, <2>1
<1> QED
  BY <1>2, <1>3 DEF Answer

\* How an answer reads that is not: as one that says nothing.
LEMMA ReadJunk ==
  ASSUME NEW kind \in Kinds, NEW a \in Answer, NEW g, a.read = "junk"
  PROVE  /\ kind # "condition" => Read(kind, a, g) = Parsed(kind, [a EXCEPT !.form = "none"], g)
         /\ kind = "condition" => Read(kind, a, g).value = Verdict(<<>>, TRUE)
<1>1. CASE kind = "condition"
  BY <1>1 DEF Read, Reading
<1>2. CASE kind # "condition"
  BY <1>2 DEF Read
<1> QED
  BY <1>1, <1>2

LEMMA ReadAuthorizes ==
  ASSUME NEW kind \in Kinds, NEW a \in Answer, NEW g, Read(kind, a, g).is = "value"
  PROVE  Authorizes(kind, a, Read(kind, a, g).value, g)
<1> DEFINE b == [a EXCEPT !.form = "none"]
<1>0. a # Nothing /\ a.items \in Seq(Nat) /\ b.form = "none"
  BY InferenceConstants DEF Answer
<1>1. CASE kind = "condition"
  <2>1. CASE a.read = "junk"
    <3>1. Read(kind, a, g).value = Verdict(<<>>, TRUE)
      BY <1>1, <2>1, ReadJunk
    <3>2. Verdict(<<>>, TRUE).failed
      BY DEF Verdict
    <3> QED
      BY <1>1, <3>1, <3>2 DEF Authorizes
  <2>2. CASE a.read # "junk"
    <3>1. Read(kind, a, g).value = Parsed(kind, a, g).value
      BY <2>2, ReadWhole, ReadJunk
    <3>2. Parsed(kind, a, g).value = IF a.form # "list" THEN Verdict(<<>>, TRUE)
                                  ELSE Verdict(Indices(a.items), Strays(a.items) > 0)
      BY <1>1 DEF Parsed, ParseConditionVerdict, ListOf, Reading
    <3>3. Strays(a.items) \in Nat
      BY <1>0, StraysCount
    <3>4. CASE a.form # "list"
      <4>1. Verdict(<<>>, TRUE).failed
        BY DEF Verdict
      <4> QED
        BY <1>1, <3>1, <3>2, <3>4, <4>1 DEF Authorizes
    <3>5. CASE a.form = "list"
      <4>1. Read(kind, a, g).value = Verdict(Indices(a.items), Strays(a.items) > 0)
        BY <3>1, <3>2, <3>5
      <4>3. ASSUME Strays(a.items) > 0 PROVE Read(kind, a, g).value.failed
        <5>1. (Strays(a.items) > 0) = TRUE
          BY <4>3
        <5>2. Read(kind, a, g).value = Verdict(Indices(a.items), TRUE)
          BY <4>1, <5>1, Zenon
        <5>3. Verdict(Indices(a.items), TRUE).failed
          BY DEF Verdict
        <5> QED
          BY <5>2, <5>3
      <4>2. ~Read(kind, a, g).value.failed => Strays(a.items) = 0
        BY <3>3, <4>3
      <4> QED
        BY <1>0, <1>1, <2>2, <3>5, <4>2 DEF Authorizes, Whole
    <3> QED
      BY <3>4, <3>5
  <2> QED
    BY <2>1, <2>2
<1>2. CASE kind = "revalidate"
  <2>1. CASE a.read = "junk"
    <3>1. Parsed(kind, b, g).value = TRUE
      BY <1>0, <1>2 DEF Parsed, ParseVerdict, Reading
    <3> QED
      BY <1>2, <2>1, <3>1, ReadWhole, ReadJunk DEF Authorizes
  <2>2. CASE a.read # "junk"
    <3>1. Read(kind, a, g).value = Parsed(kind, a, g).value
      BY <2>2, ReadWhole, ReadJunk
    <3>2. a.form \notin {"no", "list"} => Parsed(kind, a, g).value = TRUE
      BY <1>2 DEF Parsed, ParseVerdict, Reading
    <3> QED
      BY <1>0, <1>2, <2>2, <3>1, <3>2 DEF Authorizes, Whole
  <2> QED
    BY <2>1, <2>2
<1>3. CASE kind = "ground"
  <2>1. a.read # "junk"
    <3>1. Parsed(kind, b, g).is = "error"
      BY <1>0, <1>3 DEF Parsed, ParseParams, Unread, Reading
    <3> QED
      BY <1>3, <3>1, ReadWhole, ReadJunk
  <2>2. Read(kind, a, g).value = Parsed(kind, a, g).value /\ Parsed(kind, a, g).is = "value"
    BY <2>1, ReadWhole, ReadJunk
  <2>3. ~(Len(a.items) < Supplied) /\ Parsed(kind, a, g).value = a.items
    BY <1>3, <2>2 DEF Parsed, ParseParams, Unread, Unresolvable, Reading
  <2>4. Len(a.items) \in Nat
    BY <1>0, LenProperties
  <2> QED
    BY <1>0, <1>3, <2>1, <2>2, <2>3, <2>4, InferenceConstants DEF Authorizes, Whole
<1>4. CASE kind = "relevance"
  <2>1. CASE a.read = "junk"
    <3>1. Parsed(kind, b, g).value = Nothing
      BY <1>0, <1>4 DEF Parsed, ParseRelevance, Reading
    <3> QED
      BY <1>4, <2>1, <3>1, ReadWhole, ReadJunk DEF Authorizes
  <2>2. CASE a.read # "junk"
    <3>1. Read(kind, a, g).value = Parsed(kind, a, g).value
      BY <2>2, ReadWhole, ReadJunk
    <3>2. \/ Parsed(kind, a, g).value = Nothing
          \/ Len(a.items) = 1 /\ Strays(a.items) = 0 /\ Parsed(kind, a, g).value = a.items[1]
      BY <1>4 DEF Parsed, ParseRelevance, Reading
    <3>3. Len(a.items) = 1 /\ Strays(a.items) = 0 => a.items[1] < Supplied
      <4>1. SUFFICES ASSUME Len(a.items) = 1, Strays(a.items) = 0 PROVE a.items[1] < Supplied
        OBVIOUS
      <4>2. 1 \in DOMAIN a.items /\ a.items[1] \in Nat
        <5>1. 1 \in 1..Len(a.items)
          BY <4>1
        <5> QED
          BY <1>0, <5>1, ElementOfSeq, LenProperties
      <4>3. ~(a.items[1] >= Supplied)
        BY <1>0, <4>1, <4>2, StraysCount
      <4> QED
        BY <4>2, <4>3, InferenceConstants
    <3> QED
      BY <1>0, <1>4, <2>2, <3>1, <3>2, <3>3 DEF Authorizes, Whole
  <2> QED
    BY <2>1, <2>2
<1>5. CASE kind = "plan"
  <2>1. a.read # "junk"
    <3>1. Parsed(kind, b, g).is = "error"
      BY <1>0, <1>5 DEF Parsed, ParsePlan, Unread, Reading
    <3> QED
      BY <1>5, <3>1, ReadWhole, ReadJunk
  <2>2. Read(kind, a, g).value = Parsed(kind, a, g).value /\ Parsed(kind, a, g).is = "value"
    BY <2>1, ReadWhole, ReadJunk
  <2>3. g => Parsed(kind, a, g).value = <<>>
    BY <1>5, <2>2 DEF Parsed, ParsePlan, Unread, Reading
  <2> QED
    BY <1>0, <1>5, <2>1, <2>2, <2>3 DEF Authorizes, Whole
<1>6. CASE kind \in {"select", "retirement"}
  BY <1>6 DEF Authorizes
<1> QED
  BY <1>1, <1>2, <1>3, <1>4, <1>5, <1>6 DEF Kinds, Activities, Judgements

-----------------------------------------------------------------------------
Figures == [calls : Nat, input : Nat, output : Nat, cached : Nat, observed : Nat, unknown : Nat,
            thinking : Nat, dropped : Nat, repaired : Nat, unparsed : Nat]
Costly == [calls : Nat, input : Nat, output : Nat]

LEMMA PlusOfFigures ==
  ASSUME NEW r \in Figures, NEW d \in Figures
  PROVE  /\ Plus(r, d) \in Figures /\ Cost(r) \in Costly
         /\ Cost(Plus(r, d)) = Plus(Cost(r), Cost(d))
BY DEF Figures, Costly, Plus, Cost

LEMMA PlusReorders ==
  ASSUME NEW r \in Figures, NEW d \in Figures, NEW e \in Figures
  PROVE  Plus(Plus(r, d), e) = Plus(Plus(r, e), d) /\ Plus(r, Plus(d, e)) = Plus(Plus(r, d), e)
BY DEF Figures, Plus

LEMMA PlusOfCosts ==
  ASSUME NEW r \in Costly, NEW d \in Costly
  PROVE  Plus(r, d) \in Costly /\ Plus(r, Cost(Zero)) = r /\ Plus(Cost(Zero), r) = r
BY DEF Costly, Plus, Cost, Zero

LEMMA ZeroIsFigures == Zero \in Figures /\ \A r \in Figures : Plus(Zero, r) = r
BY DEF Figures, Plus, Zero

\* What one call adds to the meter.
LEMMA CrossingIsFigures ==
  ASSUME NEW u \in LLMUsage \cup {Silent}
  PROVE  Crossing(u) \in Figures
<1>1. CASE u = Silent
  BY <1>1 DEF Crossing, Zero, Figures
<1>2. CASE u # Silent
  <2>1. /\ u.input \in Nat /\ u.output \in Nat /\ u.answer \in Nat
        /\ u.cached \in Nat \cup {Silent} /\ u.reasoning \in Nat \cup {Silent}
    BY <1>2 DEF LLMUsage, Tokens
  <2>2. Told(u.cached) \in Nat
    BY <2>1 DEF Told
  <2>3. Thinking(u) \in Nat
    BY <2>1 DEF Thinking
  <2>4. (IF u.cached = Silent THEN 0 ELSE u.input) \in Nat /\ (IF u.cached = Silent THEN u.input ELSE 0) \in Nat
    BY <2>1
  <2> QED
    BY <1>2, <2>1, <2>2, <2>3, <2>4 DEF Crossing, Zero, Figures
<1> QED
  BY <1>1, <1>2

LEMMA CountedOf ==
  ASSUME NEW l \in Seq(Nat), NEW P \in SUBSET DOMAIN l
  PROVE  Cardinality(P) \in Nat
<1>1. IsFiniteSet(DOMAIN l)
  BY LenProperties, FS_Interval
<1> QED
  BY <1>1, FS_Subset, FS_CardinalityType

\* What reading an answer adds to it.
LEMMA ReadingIsCounted ==
  ASSUME NEW kind \in Kinds, NEW a \in Answer, NEW g
  PROVE  /\ Read(kind, a, g).dropped \in Nat /\ Read(kind, a, g).repaired \in Nat
         /\ Read(kind, a, g).is \in {"value", "error", "unresolvable"}
<1>1. a.items \in Seq(Nat)
  BY DEF Answer
<1>2. Strays(a.items) \in Nat /\ Repeats(a.items) \in Nat
  BY <1>1, CountedOf DEF Strays, Repeats
<1> DEFINE Counted(r) == /\ r.dropped \in Nat /\ r.repaired \in Nat
                         /\ r.is \in {"value", "error", "unresolvable"}
                         /\ DOMAIN r = {"is", "value", "dropped", "repaired"}
<1>3. ASSUME NEW b, b.items = a.items PROVE Counted(Parsed(kind, b, g))
  <2>1. Counted(ParsePlan(b, g)) /\ Counted(ParseParams(b)) /\ Counted(ParseKeep(b))
    BY <1>2, <1>3 DEF ParsePlan, ParseParams, ParseKeep, ListOf, Unread, Unresolvable, Reading
  <2>2. Counted(ParseVerdict(b)) /\ Counted(ParseConditionVerdict(b))
    BY <1>2, <1>3 DEF ParseVerdict, ParseConditionVerdict, ListOf, Reading
  <2>3. Counted(ParseRetirement(b)) /\ Counted(ParseRelevance(b))
    BY <1>2, <1>3 DEF ParseRetirement, ParseRelevance, ListOf, Reading
  <2> HIDE DEF Counted
  <2> QED
    BY <2>1, <2>2, <2>3 DEF Parsed, Kinds, Activities, Judgements
<1> HIDE DEF Counted
<1>4. Counted(Parsed(kind, a, g)) /\ Counted(Parsed(kind, [a EXCEPT !.form = "none"], g))
  BY <1>3 DEF Answer
<1>5. CASE a.read = "junk"
  <2>1. CASE kind = "condition"
    BY <1>5, <2>1 DEF Read, Reading
  <2>2. CASE kind # "condition"
    BY <1>4, <1>5, <2>2 DEF Read, Counted
  <2> QED
    BY <2>1, <2>2
<1>6. CASE a.read = "clean"
  BY <1>4, <1>6 DEF Read, Counted
<1>7. CASE a.read = "mended"
  <2>1. Read(kind, a, g) = [Parsed(kind, a, g) EXCEPT !.repaired = Parsed(kind, a, g).repaired + 1]
    BY <1>7 DEF Read
  <2> QED
    BY <1>4, <2>1 DEF Counted
<1> QED
  BY <1>5, <1>6, <1>7 DEF Answer

-----------------------------------------------------------------------------
\* The totals of a table of rows, up to each question.
LEMMA TotalsOf ==
  ASSUME NEW g \in [Questions -> Figures]
  PROVE  \E t \in [0..MaxInferences -> Figures] :
           /\ t[0] = g[0] /\ \A k \in 1..MaxInferences : t[k] = Plus(t[k - 1], g[k])
           /\ Sum(g) = t[MaxInferences]
<1> DEFINE N == MaxInferences
           Totals(m) == {t \in [0..m -> Figures] :
                           t[0] = g[0] /\ \A k \in 1..m : t[k] = Plus(t[k - 1], g[k])}
           Bad == {m \in 0..N : Totals(m) = {}}
           E(t) == [k \in 0..N |-> IF k = 0 THEN g[0] ELSE Plus(t[k - 1], g[k])]
           upTo == CHOOSE t : t = E(t)
<1>0. N \in Nat /\ Questions = 0..N /\ Background = 0
  BY InferenceConstants DEF Questions, Infs, Background
<1>1. Totals(N) # {}
  <2>1. SUFFICES ASSUME Bad # {} PROVE FALSE
    <3>1. N \in 0..N
      BY <1>0
    <3> QED
      BY <3>1
  <2>2. PICK m \in Bad : \A l \in Bad : m <= l
    <3>1. Bad \in SUBSET Nat
      OBVIOUS
    <3> HIDE DEF Bad
    <3> QED
      BY <2>1, <3>1, LeastOf
  <2>3. m \in 0..N /\ Totals(m) = {}
    BY <2>2
  <2>4. m # 0
    <3>1. [k \in 0..0 |-> g[0]] \in Totals(0)
      BY <1>0
    <3> QED
      BY <2>3, <3>1
  <2>5. m - 1 \in 0..N /\ ~(m <= m - 1) /\ m \in 1..N
    BY <2>3, <2>4, <1>0
  <2>6. PICK t \in Totals(m - 1) : TRUE
    BY <2>2, <2>5
  <2>7. t \in [0..m - 1 -> Figures] /\ t[0] = g[0] /\ \A k \in 1..m - 1 : t[k] = Plus(t[k - 1], g[k])
    BY <2>6
  <2> DEFINE s == [k \in 0..m |-> IF k = m THEN Plus(t[m - 1], g[m]) ELSE t[k]]
  <2>8. t[m - 1] \in Figures /\ g[m] \in Figures
    BY <2>5, <2>7, <1>0
  <2>9. Plus(t[m - 1], g[m]) \in Figures
    BY <2>8, PlusOfFigures
  <2>10. s \in [0..m -> Figures]
    BY <2>5, <2>7, <2>9
  <2>11. s[0] = g[0]
    BY <2>5, <2>7
  <2>12. ASSUME NEW k \in 1..m PROVE s[k] = Plus(s[k - 1], g[k])
    <3>1. k \in 0..m /\ k - 1 \in 0..m /\ k - 1 # m
      BY <2>5
    <3>2. CASE k = m
      BY <3>1, <3>2
    <3>3. CASE k # m
      <4>1. k \in 1..m - 1
        BY <2>5, <3>3
      <4> QED
        BY <2>7, <3>1, <3>3, <4>1
    <3> QED
      BY <3>2, <3>3
  <2> HIDE DEF s
  <2>13. s \in Totals(m)
    BY <2>10, <2>11, <2>12
  <2> QED
    BY <2>3, <2>13
<1>2. PICK t \in [0..N -> Figures] : t[0] = g[0] /\ \A k \in 1..N : t[k] = Plus(t[k - 1], g[k])
  BY <1>1
<1>3. t = E(t)
  <2>1. \A k \in 0..N : t[k] = IF k = 0 THEN g[0] ELSE Plus(t[k - 1], g[k])
    <3> TAKE k \in 0..N
    <3>1. k = 0 \/ k \in 1..N
      BY <1>0
    <3> QED
      BY <1>2, <3>1
  <2> HIDE DEF N
  <2> QED
    BY <1>2, <2>1
<1>4. upTo = E(upTo)
  <2> HIDE DEF E
  <2> QED
    BY <1>3
<1>5. Sum(g) = upTo[N]
  BY <1>0 DEF Sum
<1> HIDE DEF upTo, N
<1>6. \A k \in 0..N : upTo[k] = IF k = 0 THEN g[0] ELSE Plus(upTo[k - 1], g[k])
  BY <1>4
<1> HIDE DEF E
<1>7. upTo[0] = t[0]
  BY <1>0, <1>2, <1>6
<1>8. \A k \in 1..N : upTo[k - 1] = t[k - 1] => upTo[k] = t[k]
  BY <1>0, <1>2, <1>6
<1>9. \A k \in 0..N : upTo[k] = t[k]
  <2>1. N \in Nat
    BY <1>0
  <2>2. \A u, v : u[0] = v[0] /\ (\A k \in 1..N : u[k - 1] = v[k - 1] => u[k] = v[k])
                => \A k \in 0..N : u[k] = v[k]
    BY <2>1, OneRunningTotal, Zenon
  <2>3. upTo[0] = t[0] /\ (\A k \in 1..N : upTo[k - 1] = t[k - 1] => upTo[k] = t[k])
        => \A k \in 0..N : upTo[k] = t[k]
    BY <2>2, Zenon
  <2> QED
    BY <1>7, <1>8, <2>3
<1>10. Sum(g) = t[N]
  BY <1>0, <1>5, <1>9
<1> QED
  BY <1>2, <1>10 DEF N

\* What one row gains the sum gains.
LEMMA SumGains ==
  ASSUME NEW g \in [Questions -> Figures], NEW h \in [Questions -> Figures],
         NEW i \in Questions, NEW e \in Figures,
         h[i] = Plus(g[i], e), \A j \in Questions : j # i => h[j] = g[j]
  PROVE  Sum(g) \in Figures /\ Sum(h) \in Figures /\ Sum(h) = Plus(Sum(g), e)
<1> DEFINE N == MaxInferences
<1>0. N \in Nat /\ Questions = 0..N
  BY InferenceConstants DEF Questions, Infs, Background
<1>1. PICK t \in [0..N -> Figures] :
        /\ t[0] = g[0] /\ \A k \in 1..N : t[k] = Plus(t[k - 1], g[k])
        /\ Sum(g) = t[N]
  BY TotalsOf
<1>2. PICK u \in [0..N -> Figures] :
        /\ u[0] = h[0] /\ \A k \in 1..N : u[k] = Plus(u[k - 1], h[k])
        /\ Sum(h) = u[N]
  BY TotalsOf
<1> HIDE DEF N
<1> DEFINE Bad == {k \in 0..N : u[k] # IF k >= i THEN Plus(t[k], e) ELSE t[k]}
<1>3. SUFFICES ASSUME Bad # {} PROVE FALSE
  <2>1. N \in 0..N /\ N >= i
    BY <1>0
  <2>2. Bad = {} => u[N] = Plus(t[N], e)
    BY <2>1
  <2> QED
    BY <1>0, <1>1, <1>2, <2>1, <2>2
<1>4. PICK m \in Bad : \A l \in Bad : m <= l
  <2>1. Bad \in SUBSET Nat
    OBVIOUS
  <2> HIDE DEF Bad
  <2> QED
    BY <1>3, <2>1, LeastOf
<1>5. m \in 0..N /\ u[m] # IF m >= i THEN Plus(t[m], e) ELSE t[m]
  BY <1>4
<1>6. m # 0
  BY <1>0, <1>1, <1>2, <1>5
<1>7. m \in 1..N /\ m - 1 \in 0..N /\ m - 1 \notin Bad
  BY <1>0, <1>4, <1>5, <1>6
<1>8. u[m - 1] = IF m - 1 >= i THEN Plus(t[m - 1], e) ELSE t[m - 1]
  BY <1>7
<1>9. u[m] = Plus(u[m - 1], h[m]) /\ t[m] = Plus(t[m - 1], g[m])
  BY <1>1, <1>2, <1>7
<1>10. t[m - 1] \in Figures /\ g[m] \in Figures /\ t[m] \in Figures
  BY <1>0, <1>5, <1>7
<1>11. CASE m > i
  <2>1. u[m - 1] = Plus(t[m - 1], e) /\ h[m] = g[m] /\ m >= i
    BY <1>0, <1>5, <1>8, <1>11
  <2>2. Plus(Plus(t[m - 1], e), g[m]) = Plus(Plus(t[m - 1], g[m]), e)
    BY <1>10, PlusReorders
  <2> QED
    BY <1>5, <1>9, <2>1, <2>2
<1>12. CASE m = i
  <2>1. u[m - 1] = t[m - 1] /\ h[m] = Plus(g[m], e) /\ m >= i
    BY <1>0, <1>5, <1>8, <1>12
  <2>2. Plus(t[m - 1], Plus(g[m], e)) = Plus(Plus(t[m - 1], g[m]), e)
    BY <1>10, PlusReorders
  <2> QED
    BY <1>5, <1>9, <2>1, <2>2
<1>13. CASE m < i
  <2>1. u[m - 1] = t[m - 1] /\ h[m] = g[m] /\ ~(m >= i)
    BY <1>0, <1>5, <1>8, <1>13
  <2> QED
    BY <1>5, <1>9, <2>1
<1> QED
  BY <1>0, <1>5, <1>11, <1>12, <1>13

-----------------------------------------------------------------------------
Outcomes == {Nothing, "value", "error", "unresolvable"}
Meters == [total : Figures, rows : [Questions -> Figures],
           partial : UNION {[S -> Costly] : S \in SUBSET Infs}, wasted : Costly,
           discarded : SUBSET Infs, outcome : [Questions -> Outcomes]]

\* The rows of what was discarded.
Unused(m) == [i \in Questions |-> IF i \in m.discarded THEN m.rows[i] ELSE Zero]

\* The totals add up, and what was not discarded is kept as a partial cost.
MeterAddsUp(m) ==
  /\ m \in Meters /\ m.total = Sum(m.rows) /\ m.wasted = Cost(Sum(Unused(m)))
  /\ DOMAIN m.partial \cap m.discarded = {}
  /\ \A i \in Infs \ m.discarded :
       Cost(m.rows[i]) = IF i \in DOMAIN m.partial THEN m.partial[i] ELSE Cost(Zero)

LEMMA PartialOf ==
  ASSUME NEW m \in Meters
  PROVE  /\ DOMAIN m.partial \in SUBSET Infs /\ \A i \in DOMAIN m.partial : m.partial[i] \in Costly
         /\ m.total \in Figures /\ m.rows \in [Questions -> Figures] /\ m.wasted \in Costly
         /\ m.discarded \in SUBSET Infs /\ m.outcome \in [Questions -> Outcomes]
         /\ Unused(m) \in [Questions -> Figures]
<1>1. /\ m.partial \in UNION {[S -> Costly] : S \in SUBSET Infs}
      /\ m.total \in Figures /\ m.rows \in [Questions -> Figures] /\ m.wasted \in Costly
      /\ m.discarded \in SUBSET Infs /\ m.outcome \in [Questions -> Outcomes]
  BY DEF Meters
<1>2. PICK S \in SUBSET Infs : m.partial \in [S -> Costly]
  BY <1>1
<1>3. Unused(m) \in [Questions -> Figures]
  BY <1>1, ZeroIsFigures DEF Unused
<1> QED
  BY <1>1, <1>2, <1>3

LEMMA OutcomeAddsUp ==
  ASSUME NEW m, MeterAddsUp(m), NEW i \in Questions, NEW is \in Outcomes
  PROVE  /\ MeterAddsUp(LogOutcome(m, i, is)) /\ LogOutcome(m, i, is).discarded = m.discarded
         /\ LogOutcome(m, i, is).outcome =
              [m.outcome EXCEPT ![i] = IF m.outcome[i] = Nothing THEN is ELSE m.outcome[i]]
<1> DEFINE l == LogOutcome(m, i, is)
<1>0. m \in Meters
  BY DEF MeterAddsUp
<1>1. /\ l.total = m.total /\ l.rows = m.rows /\ l.partial = m.partial /\ l.wasted = m.wasted
      /\ l.discarded = m.discarded
      /\ l.outcome = [m.outcome EXCEPT ![i] = IF m.outcome[i] = Nothing THEN is ELSE m.outcome[i]]
      /\ l = [total |-> l.total, rows |-> l.rows, partial |-> l.partial, wasted |-> l.wasted,
              discarded |-> l.discarded, outcome |-> l.outcome]
  BY <1>0 DEF LogOutcome, Meters
<1>2. l.outcome \in [Questions -> Outcomes]
  BY <1>0, <1>1, PartialOf
<1>3. l \in Meters
  <2>1. m.partial \in UNION {[S -> Costly] : S \in SUBSET Infs}
    BY <1>0 DEF Meters
  <2> HIDE DEF l
  <2> QED
    BY <1>0, <1>1, <1>2, <2>1, PartialOf DEF Meters
<1>4. Unused(l) = Unused(m)
  BY <1>1 DEF Unused
<1> HIDE DEF l
<1>5. MeterAddsUp(l)
  BY <1>1, <1>3, <1>4 DEF MeterAddsUp
<1> QED
  BY <1>1, <1>5 DEF l

LEMMA DiscardAddsUp ==
  ASSUME NEW m, MeterAddsUp(m), NEW i \in Infs
  PROVE  /\ MeterAddsUp(LogDiscarded(m, i)) /\ LogDiscarded(m, i).outcome = m.outcome
         /\ LogDiscarded(m, i).discarded = m.discarded \cup {i}
<1> DEFINE l == LogDiscarded(m, i)
<1>0. m \in Meters /\ i \in Questions
  BY DEF MeterAddsUp, Questions
<1>1. /\ l.total = m.total /\ l.rows = m.rows /\ l.outcome = m.outcome
      /\ l.discarded = m.discarded \cup {i}
      /\ l.wasted = IF i \in DOMAIN m.partial THEN Plus(m.wasted, m.partial[i]) ELSE m.wasted
      /\ l.partial = [j \in DOMAIN m.partial \ {i} |-> m.partial[j]]
      /\ l = [total |-> l.total, rows |-> l.rows, partial |-> l.partial, wasted |-> l.wasted,
              discarded |-> l.discarded, outcome |-> l.outcome]
  <2>1. DOMAIN m = {"total", "rows", "partial", "wasted", "discarded", "outcome"}
        /\ m = [total |-> m.total, rows |-> m.rows, partial |-> m.partial, wasted |-> m.wasted,
                discarded |-> m.discarded, outcome |-> m.outcome]
    BY <1>0 DEF Meters
  <2> DEFINE d == m.discarded \cup {i}
             w == IF i \in DOMAIN m.partial THEN Plus(m.wasted, m.partial[i]) ELSE m.wasted
             p == [j \in DOMAIN m.partial \ {i} |-> m.partial[j]]
  <2>2. l = [m EXCEPT !.discarded = d, !.wasted = w, !.partial = p]
    BY DEF LogDiscarded
  <2> HIDE DEF l, d, w, p
  <2>3. l = [total |-> m.total, rows |-> m.rows, partial |-> p, wasted |-> w,
              discarded |-> d, outcome |-> m.outcome]
    BY <2>1, <2>2
  <2> QED
    BY <2>3 DEF d, w, p
<1> HIDE DEF l
<1>2. l.partial \in UNION {[S -> Costly] : S \in SUBSET Infs}
  <2>1. l.partial \in [DOMAIN m.partial \ {i} -> Costly] /\ DOMAIN m.partial \ {i} \in SUBSET Infs
    BY <1>0, <1>1, PartialOf
  <2> QED
    BY <2>1
<1>3. l.wasted \in Costly
  BY <1>0, <1>1, PartialOf, PlusOfCosts
<1>4. l \in Meters
  <2>1. /\ l.total \in Figures /\ l.rows \in [Questions -> Figures]
        /\ l.discarded \in SUBSET Infs /\ l.outcome \in [Questions -> Outcomes]
    BY <1>0, <1>1, PartialOf
  <2> QED
    BY <1>1, <1>2, <1>3, <2>1 DEF Meters
<1>5. l.wasted = Cost(Sum(Unused(l)))
  <2>1. CASE i \in m.discarded
    <3>1. i \notin DOMAIN m.partial
      BY <2>1 DEF MeterAddsUp
    <3>2. l.discarded = m.discarded
      BY <1>1, <2>1
    <3>3. Unused(l) = Unused(m)
      BY <1>1, <3>2 DEF Unused
    <3> QED
      BY <1>1, <3>1, <3>3 DEF MeterAddsUp
  <2>2. CASE i \notin m.discarded
    <3>1. /\ Unused(m)[i] = Zero /\ Unused(l)[i] = m.rows[i]
          /\ \A j \in Questions : j # i => Unused(l)[j] = Unused(m)[j]
      BY <1>0, <1>1, <2>2 DEF Unused
    <3>2. m.rows[i] \in Figures /\ Unused(m) \in [Questions -> Figures] /\ Unused(l) \in [Questions -> Figures]
      BY <1>0, <1>4, PartialOf
    <3>3. Unused(l)[i] = Plus(Unused(m)[i], m.rows[i])
      BY <3>1, <3>2, ZeroIsFigures
    <3>4. Sum(Unused(m)) \in Figures /\ Sum(Unused(l)) = Plus(Sum(Unused(m)), m.rows[i])
      BY <1>0, <3>1, <3>2, <3>3, SumGains
    <3>5. Cost(Sum(Unused(l))) = Plus(m.wasted, Cost(m.rows[i]))
      BY <3>2, <3>4, PlusOfFigures DEF MeterAddsUp
    <3>6. Cost(m.rows[i]) = IF i \in DOMAIN m.partial THEN m.partial[i] ELSE Cost(Zero)
      BY <2>2 DEF MeterAddsUp
    <3>7. m.wasted \in Costly /\ Cost(m.rows[i]) \in Costly
      BY <1>0, <3>2, PartialOf, PlusOfFigures
    <3>8. CASE i \in DOMAIN m.partial
      BY <1>1, <3>5, <3>6, <3>8
    <3>9. CASE i \notin DOMAIN m.partial
      BY <1>1, <3>5, <3>6, <3>7, <3>9, PlusOfCosts
    <3> QED
      BY <3>8, <3>9
  <2> QED
    BY <2>1, <2>2
<1>6. ASSUME NEW j \in Infs \ l.discarded
      PROVE  Cost(l.rows[j]) = IF j \in DOMAIN l.partial THEN l.partial[j] ELSE Cost(Zero)
  <2>1. j \in Infs \ m.discarded /\ j # i
    BY <1>1
  <2> QED
    BY <1>1, <2>1 DEF MeterAddsUp
<1>7. l.total = Sum(l.rows) /\ DOMAIN l.partial \cap l.discarded = {}
  BY <1>1 DEF MeterAddsUp
<1>8. MeterAddsUp(l)
  BY <1>4, <1>5, <1>6, <1>7 DEF MeterAddsUp
<1> QED
  BY <1>1, <1>8 DEF l

LEMMA MeteredAddsUp ==
  ASSUME MeterAddsUp(meter), NEW i \in Questions, NEW e \in Figures,
         i \notin meter.discarded, Metered(i, e)
  PROVE  MeterAddsUp(meter') /\ meter'.discarded = meter.discarded /\ meter'.outcome = meter.outcome
<1> DEFINE m == meter
           l == meter'
<1>0. m \in Meters
  BY DEF MeterAddsUp
<1>1. /\ l.total = Plus(m.total, e) /\ l.rows = [m.rows EXCEPT ![i] = Plus(m.rows[i], e)]
      /\ l.outcome = m.outcome /\ l.discarded = m.discarded /\ l.wasted = m.wasted
      /\ l.partial = IF i = Background THEN m.partial
                     ELSE [j \in DOMAIN m.partial \cup {i} |->
                             IF j # i THEN m.partial[j]
                             ELSE IF i \in DOMAIN m.partial THEN Plus(m.partial[i], Cost(e)) ELSE Cost(e)]
      /\ l = [total |-> l.total, rows |-> l.rows, partial |-> l.partial, wasted |-> l.wasted,
              discarded |-> l.discarded, outcome |-> l.outcome]
  BY <1>0 DEF Metered, Meters
<1>2. /\ m.total \in Figures /\ m.rows \in [Questions -> Figures] /\ m.wasted \in Costly
      /\ m.discarded \in SUBSET Infs /\ m.outcome \in [Questions -> Outcomes]
      /\ DOMAIN m.partial \in SUBSET Infs /\ \A j \in DOMAIN m.partial : m.partial[j] \in Costly
      /\ m.partial \in UNION {[S -> Costly] : S \in SUBSET Infs}
  BY <1>0, PartialOf DEF Meters
<1>3. /\ m.total = Sum(m.rows) /\ m.wasted = Cost(Sum(Unused(m)))
      /\ DOMAIN m.partial \cap m.discarded = {}
      /\ \A j \in Infs \ m.discarded :
           Cost(m.rows[j]) = IF j \in DOMAIN m.partial THEN m.partial[j] ELSE Cost(Zero)
  BY DEF MeterAddsUp
<1>4. Plus(m.total, e) \in Figures /\ Plus(m.rows[i], e) \in Figures /\ Cost(e) \in Costly
  BY <1>2, PlusOfFigures
<1> HIDE DEF m, l
<1>5. l.rows \in [Questions -> Figures]
  BY <1>1, <1>2, <1>4
<1>6. l.partial \in UNION {[S -> Costly] : S \in SUBSET Infs}
  <2>1. CASE i = Background
    BY <1>1, <1>2, <2>1
  <2>2. CASE i # Background
    <3> DEFINE S == DOMAIN m.partial \cup {i}
    <3>1. S \in SUBSET Infs
      BY <1>2, <2>2 DEF Questions
    <3>2. l.partial \in [S -> Costly]
      <4>1. i \in DOMAIN m.partial => Plus(m.partial[i], Cost(e)) \in Costly
        BY <1>2, <1>4, PlusOfCosts
      <4> QED
        BY <1>1, <1>2, <1>4, <2>2, <4>1
    <3> QED
      BY <3>1, <3>2
  <2> QED
    BY <2>1, <2>2
<1>7. l \in Meters
  BY <1>1, <1>2, <1>4, <1>5, <1>6 DEF Meters
<1>8. l.total = Sum(l.rows)
  <2>1. l.rows[i] = Plus(m.rows[i], e) /\ \A j \in Questions : j # i => l.rows[j] = m.rows[j]
    BY <1>1, <1>2
  <2> QED
    BY <1>1, <1>2, <1>3, <1>5, <2>1, SumGains
<1>9. l.wasted = Cost(Sum(Unused(l)))
  <2>1. Unused(l) = Unused(m)
    BY <1>1, <1>2 DEF Unused, m
  <2> QED
    BY <1>1, <1>3, <2>1
<1>10. DOMAIN l.partial \cap l.discarded = {}
  BY <1>1, <1>3 DEF m
<1>11. ASSUME NEW j \in Infs \ l.discarded
       PROVE  Cost(l.rows[j]) = IF j \in DOMAIN l.partial THEN l.partial[j] ELSE Cost(Zero)
  <2>0. j \in Infs \ m.discarded /\ j \in Questions /\ j # Background
    BY <1>1, InferenceConstants DEF Questions, Infs, Background
  <2>1. CASE j # i
    BY <1>1, <1>2, <1>3, <2>0, <2>1
  <2>2. CASE j = i
    <3>1. Cost(l.rows[j]) = Plus(Cost(m.rows[j]), Cost(e))
      BY <1>1, <1>2, <2>0, <2>2, PlusOfFigures
    <3>2. l.partial[j] = IF j \in DOMAIN m.partial THEN Plus(m.partial[j], Cost(e)) ELSE Cost(e)
      BY <1>1, <2>0, <2>2
    <3>3. j \in DOMAIN l.partial
      BY <1>1, <2>0, <2>2
    <3>4. j \notin DOMAIN m.partial => Plus(Cost(m.rows[j]), Cost(e)) = Cost(e)
      BY <1>3, <1>4, <2>0, PlusOfCosts
    <3> QED
      BY <1>3, <2>0, <3>1, <3>2, <3>3, <3>4
  <2> QED
    BY <2>1, <2>2
<1>12. MeterAddsUp(l)
  BY <1>7, <1>8, <1>9, <1>10, <1>11 DEF MeterAddsUp
<1> QED
  BY <1>1, <1>12 DEF l, m

-----------------------------------------------------------------------------
Readings == {Read(q[1], q[2], q[3]).value : q \in Kinds \X Answer \X BOOLEAN} \cup {Nothing}
Result == [of : Infs, is : {"value", "error", "unresolvable"}, value : Readings]

LEMMA ReadIsReading ==
  ASSUME NEW kind \in Kinds, NEW a \in Answer, NEW g \in BOOLEAN
  PROVE  Read(kind, a, g).value \in Readings
<1> DEFINE q == <<kind, a, g>>
<1>1. q \in Kinds \X Answer \X BOOLEAN /\ q[1] = kind /\ q[2] = a /\ q[3] = g
  OBVIOUS
<1> HIDE DEF q
<1>2. Read(kind, a, g).value = Read(q[1], q[2], q[3]).value
  BY <1>1, Zenon
<1> QED
  BY <1>1, <1>2, Zenon DEF Readings

\* The answer of an inquiry that is over reads as v.
ReadAs(q, v, g) ==
  /\ q.at = "over" /\ q.kind \in Kinds /\ q.answer \in Answer
  /\ Read(q.kind, q.answer, g).is = "value" /\ Read(q.kind, q.answer, g).value = v

\* What an inquiry was ruled: nothing, what its kind makes of an error, or what
\* was read.
Honest(q, g) ==
  \/ q.ruling = Nothing
  \/ q.kind = "select"
  \/ q.kind = "condition" /\ q.ruling = Verdict(<<>>, TRUE)
  \/ q.kind = "revalidate" /\ q.ruling = TRUE
  \/ ReadAs(q, q.ruling, g)

Asked(i, q, g) ==
  /\ DOMAIN q = {"at", "kind", "late", "answer", "ruling"}
  /\ q.at \in {"idle", "flight", "repair", "over"}
  /\ q.at = "idle" => q.ruling = Nothing
  /\ q.at # "idle" => q.kind \in (IF i = Background THEN Judgements ELSE Activities)
  /\ Honest(q, g)

Deliberates(m) ==
  /\ DOMAIN m = {"state", "pending", "plan"}
  /\ m.state \in {"ready", "running"} /\ m.pending \in Infs \cup {Nothing}
  /\ m.state = "running" <=> m.pending # Nothing

\* Who is waited for has no outcome yet; a waste has none but an error.
Settled(i, s) ==
  /\ i \in s.meter.discarded => s.inquiry[i].at = "over" /\ s.meter.outcome[i] \in {Nothing, "error"}
  /\ s.inquiry[i].at # "over" => s.meter.outcome[i] \in {Nothing, "error"}
  /\ s.inquiry[i].at = "idle" => s.meter.outcome[i] = Nothing
  /\ s.mind.pending = i =>
       s.inquiry[i].at # "idle" /\ s.meter.outcome[i] = Nothing /\ i \notin s.meter.discarded

Sound(s, g) ==
  /\ DOMAIN s = {"mind", "inquiry", "meter"} /\ DOMAIN s.inquiry = Questions
  /\ Deliberates(s.mind) /\ MeterAddsUp(s.meter)
  /\ \A i \in Questions : Asked(i, s.inquiry[i], g)
  /\ \A i \in Infs : Settled(i, s)

\* A result that is still to be applied: the only one of an inference that is
\* neither wasted nor used; the watchdog's is of the inference that is awaited.
Awaits(res, s, g) ==
  /\ res.of \notin s.meter.discarded /\ s.meter.outcome[res.of] \in {Nothing, "error"}
  /\ s.inquiry[res.of].at = "over" \/ (s.mind.pending = res.of /\ res.is = "error")
  /\ res.is = "value" => ReadAs(s.inquiry[res.of], res.value, g)

AwaitsFrom(n, queue, s, g) ==
  /\ queue \in Seq(Result)
  /\ \A k, l \in DOMAIN queue : queue[k].of = queue[l].of => k = l
  /\ \A k \in DOMAIN queue : k > n => Awaits(queue[k], s, g)

Here == [mind |-> mind, inquiry |-> inquiry, meter |-> meter]

InferenceInv ==
  /\ governed \in BOOLEAN /\ DOMAIN inquiry = Questions
  /\ Deliberates(mind) /\ MeterAddsUp(meter)
  /\ \A i \in Questions : Asked(i, inquiry[i], governed)
  /\ \A i \in Infs : Settled(i, Here)
  /\ results \in Seq(Result)
  /\ \A k, l \in DOMAIN results : results[k].of = results[l].of => k = l
  /\ \A k \in DOMAIN results : Awaits(results[k], Here, governed) /\ inquiry[results[k].of].at = "over"

-----------------------------------------------------------------------------
\* A result of an inference that is not awaited any more is discarded.
LEMMA ResolveStale ==
  ASSUME NEW s, NEW res \in Result, NEW g, Sound(s, g), Awaits(res, s, g), s.mind.pending # res.of
  PROVE  /\ Sound(Resolve(s, res), g)
         /\ \A other \in Result :
              other.of # res.of /\ Awaits(other, s, g) => Awaits(other, Resolve(s, res), g)
<1> DEFINE i == res.of
           r == Resolve(s, res)
<1>1. i \in Infs /\ i \in Questions
  BY DEF Result, Questions
<1>2. r = [s EXCEPT !.meter = LogDiscarded(s.meter, i)]
  BY DEF Resolve
<1>3. /\ DOMAIN s = {"mind", "inquiry", "meter"} /\ DOMAIN s.inquiry = Questions
      /\ Deliberates(s.mind) /\ MeterAddsUp(s.meter)
      /\ \A j \in Questions : Asked(j, s.inquiry[j], g)
      /\ \A j \in Infs : Settled(j, s)
  BY DEF Sound
<1> HIDE DEF i, r
<1>4. /\ DOMAIN r = {"mind", "inquiry", "meter"} /\ r.mind = s.mind /\ r.inquiry = s.inquiry
      /\ r.meter = LogDiscarded(s.meter, i)
  BY <1>2, <1>3
<1>5. /\ MeterAddsUp(r.meter) /\ r.meter.discarded = s.meter.discarded \cup {i}
      /\ r.meter.outcome = s.meter.outcome
  BY <1>1, <1>3, <1>4, DiscardAddsUp
<1>6. s.inquiry[i].at = "over" /\ s.meter.outcome[i] \in {Nothing, "error"} /\ s.mind.pending # i
  BY DEF Awaits, i
<1>7. ASSUME NEW j \in Infs PROVE Settled(j, r)
  BY <1>3, <1>4, <1>5, <1>6 DEF Settled
<1>8. Sound(r, g)
  BY <1>3, <1>4, <1>5, <1>7 DEF Sound
<1>9. ASSUME NEW other \in Result, other.of # i, Awaits(other, s, g) PROVE Awaits(other, r, g)
  BY <1>4, <1>5, <1>9 DEF Awaits
<1> QED
  BY <1>8, <1>9 DEF i, r

\* The result that is awaited ends the deliberation.
LEMMA ResolveAwaited ==
  ASSUME NEW s, NEW res \in Result, NEW g, Sound(s, g), Awaits(res, s, g), s.mind.pending = res.of
  PROVE  /\ Sound(Resolve(s, res), g)
         /\ \A other \in Result :
              other.of # res.of /\ Awaits(other, s, g) => Awaits(other, Resolve(s, res), g)
<1> DEFINE i == res.of
           r == Resolve(s, res)
           kind == s.inquiry[i].kind
           ruling == Ruling(kind, res)
<1>1. i \in Infs /\ i \in Questions /\ i # Background /\ i # Nothing
  BY InferenceConstants DEF Result, Questions, Infs, Background
<1>2. /\ r.mind = [state |-> "ready", pending |-> Nothing,
                    plan |-> IF Replans(kind, res) THEN FALSE ELSE s.mind.plan \/ kind = "plan"]
      /\ r.inquiry = [s.inquiry EXCEPT ![i].ruling = ruling]
      /\ r.meter = LogOutcome(s.meter, i, res.is)
      /\ DOMAIN r = {"mind", "inquiry", "meter"}
  BY DEF Resolve
<1>3. /\ DOMAIN s.inquiry = Questions /\ MeterAddsUp(s.meter)
      /\ \A j \in Questions : Asked(j, s.inquiry[j], g)
      /\ \A j \in Infs : Settled(j, s)
  BY DEF Sound
<1>4. Deliberates(r.mind) /\ r.mind.pending = Nothing
  BY <1>2 DEF Deliberates
<1>5. s.inquiry[i].at # "idle" /\ s.meter.outcome[i] = Nothing /\ i \notin s.meter.discarded
  BY <1>1, <1>3 DEF Settled, i
<1>6. kind \in Activities
  BY <1>1, <1>3, <1>5 DEF Asked
<1> HIDE DEF i, r, ruling
<1>7. /\ DOMAIN r.inquiry = Questions /\ \A j \in Questions : j # i => r.inquiry[j] = s.inquiry[j]
      /\ r.inquiry[i] = [s.inquiry[i] EXCEPT !.ruling = ruling]
  BY <1>1, <1>2, <1>3
<1>8. /\ DOMAIN r.inquiry[i] = {"at", "kind", "late", "answer", "ruling"}
      /\ r.inquiry[i].at = s.inquiry[i].at /\ r.inquiry[i].kind = kind
      /\ r.inquiry[i].answer = s.inquiry[i].answer /\ r.inquiry[i].ruling = ruling
  BY <1>1, <1>3, <1>7 DEF Asked
<1>9. Honest(r.inquiry[i], g)
  <2>1. CASE res.is = "value"
    <3>1. ruling = res.value
      BY <2>1 DEF Ruling, ruling
    <3>2. ReadAs(s.inquiry[i], res.value, g)
      BY <2>1 DEF Awaits, i
    <3> QED
      BY <1>8, <3>1, <3>2 DEF Honest, ReadAs
  <2>2. CASE res.is # "value"
    <3>1. \/ kind = "select" \/ ruling = Nothing
          \/ kind = "condition" /\ ruling = Verdict(<<>>, TRUE)
          \/ kind = "revalidate" /\ ruling = TRUE
      BY <1>6, <2>2 DEF Ruling, Activities, ruling
    <3> QED
      BY <1>8, <3>1 DEF Honest
  <2> QED
    BY <2>1, <2>2
<1>10. Asked(i, r.inquiry[i], g)
  BY <1>1, <1>3, <1>5, <1>8, <1>9 DEF Asked
<1>11. res.is \in Outcomes
  BY DEF Result, Outcomes
<1>12. /\ MeterAddsUp(r.meter) /\ r.meter.discarded = s.meter.discarded
       /\ r.meter.outcome = [s.meter.outcome EXCEPT ![i] =
                               IF s.meter.outcome[i] = Nothing THEN res.is ELSE s.meter.outcome[i]]
  BY <1>1, <1>2, <1>3, <1>11, OutcomeAddsUp
<1>13. s.meter.outcome \in [Questions -> Outcomes]
  BY <1>3, PartialOf DEF MeterAddsUp
<1>14. r.meter.outcome[i] = res.is /\ \A j \in Questions : j # i => r.meter.outcome[j] = s.meter.outcome[j]
  BY <1>1, <1>5, <1>12, <1>13
<1>15. s.inquiry[i].at = "over" \/ res.is = "error"
  BY DEF Awaits, i
<1>16. ASSUME NEW j \in Infs PROVE Settled(j, r)
  <2>0. j \in Questions /\ j # Nothing /\ Settled(j, s)
    BY <1>3, InferenceConstants DEF Questions, Infs
  <2>1. CASE j = i
    BY <1>4, <1>5, <1>8, <1>12, <1>14, <1>15, <2>0, <2>1 DEF Settled
  <2>2. CASE j # i
    BY <1>4, <1>7, <1>12, <1>14, <2>0, <2>2 DEF Settled
  <2> QED
    BY <2>1, <2>2
<1>17. Sound(r, g)
  BY <1>2, <1>3, <1>4, <1>7, <1>10, <1>12, <1>16 DEF Sound
<1>18. ASSUME NEW other \in Result, other.of # i, Awaits(other, s, g) PROVE Awaits(other, r, g)
  <2>1. other.of \in Questions /\ other.of \in Infs
    BY DEF Result, Questions
  <2>2. r.inquiry[other.of] = s.inquiry[other.of] /\ r.meter.outcome[other.of] = s.meter.outcome[other.of]
    BY <1>7, <1>14, <1>18, <2>1
  <2>3. s.inquiry[other.of].at = "over"
    BY <1>18 DEF Awaits, i
  <2> QED
    BY <1>12, <1>18, <2>2, <2>3 DEF Awaits
<1> QED
  BY <1>17, <1>18 DEF i, r

\* The states between the results of a queue.
LEMMA AppliedInOrder ==
  ASSUME NEW queue, Len(queue) \in Nat
  PROVE  \E t : /\ t[0] = Here /\ \A k \in 1..Len(queue) : t[k] = Resolve(t[k - 1], queue[k])
                /\ Resolved(queue) = t[Len(queue)]
<1> DEFINE N == Len(queue)
           Applied(m, t) == /\ t = [k \in 0..m |-> t[k]] /\ t[0] = Here
                            /\ \A k \in 1..m : t[k] = Resolve(t[k - 1], queue[k])
           Bad == {m \in 0..N : ~ \E t : Applied(m, t)}
           E(t) == [k \in 0..N |-> IF k = 0 THEN Here ELSE Resolve(t[k - 1], queue[k])]
           after == CHOOSE t : t = E(t)
<1>0. N \in Nat
  OBVIOUS
<1>5. Resolved(queue) = after[N]
  BY DEF Resolved, Here
<1>1. \E t : Applied(N, t)
  <2> HIDE DEF N
  <2>1. SUFFICES ASSUME Bad # {} PROVE FALSE
    <3>1. N \in 0..N
      BY <1>0
    <3> QED
      BY <3>1
  <2>2. PICK m \in Bad : \A l \in Bad : m <= l
    <3>1. Bad \in SUBSET Nat
      OBVIOUS
    <3> HIDE DEF Bad
    <3> QED
      BY <2>1, <3>1, LeastOf
  <2>3. m \in 0..N /\ ~ \E t : Applied(m, t)
    BY <2>2
  <2>4. m # 0
    <3>1. Applied(0, [k \in 0..0 |-> Here])
      OBVIOUS
    <3> QED
      BY <2>3, <3>1
  <2>5. m - 1 \in 0..N /\ ~(m <= m - 1) /\ m \in 1..N
    BY <2>3, <2>4, <1>0
  <2>6. PICK t : Applied(m - 1, t)
    BY <2>2, <2>5
  <2> DEFINE s == [k \in 0..m |-> IF k = m THEN Resolve(t[m - 1], queue[m]) ELSE t[k]]
  <2>7. t[0] = Here /\ \A k \in 1..m - 1 : t[k] = Resolve(t[k - 1], queue[k])
    BY <2>6
  <2>8. s = [k \in 0..m |-> s[k]] /\ s[0] = Here
    BY <2>5, <2>7
  <2>9. ASSUME NEW k \in 1..m PROVE s[k] = Resolve(s[k - 1], queue[k])
    <3>1. k \in 0..m /\ k - 1 \in 0..m /\ k - 1 # m
      BY <2>5
    <3>2. CASE k = m
      BY <3>1, <3>2
    <3>3. CASE k # m
      <4>1. k \in 1..m - 1
        BY <2>5, <3>3
      <4> QED
        BY <2>7, <3>1, <3>3, <4>1
    <3> QED
      BY <3>2, <3>3
  <2> HIDE DEF s
  <2>10. Applied(m, s)
    BY <2>8, <2>9
  <2> QED
    BY <2>3, <2>10
<1> HIDE DEF N
<1>2. PICK t : Applied(N, t)
  BY <1>1
<1>3. t = E(t)
  <2>1. \A k \in 0..N : t[k] = IF k = 0 THEN Here ELSE Resolve(t[k - 1], queue[k])
    <3> TAKE k \in 0..N
    <3>1. k = 0 \/ k \in 1..N
      BY <1>0
    <3> QED
      BY <1>2, <3>1
  <2> QED
    BY <1>2, <2>1
<1>4. after = E(after)
  <2> HIDE DEF E
  <2> QED
    BY <1>3
<1> HIDE DEF after
<1>6. \A k \in 0..N : after[k] = IF k = 0 THEN Here ELSE Resolve(after[k - 1], queue[k])
  BY <1>4
<1> HIDE DEF E
<1>7. after[0] = Here /\ \A k \in 1..N : after[k] = Resolve(after[k - 1], queue[k])
  BY <1>0, <1>6
<1> QED
  BY <1>5, <1>7 DEF N

\* Applying a queue keeps what is sound.
LEMMA QueueApplied ==
  ASSUME NEW queue, NEW g, Sound(Here, g), AwaitsFrom(0, queue, Here, g)
  PROVE  Sound(Resolved(queue), g)
<1> DEFINE N == Len(queue)
<1>1. N \in Nat /\ DOMAIN queue = 1..N /\ \A k \in 1..N : queue[k] \in Result
  BY LenProperties, ElementOfSeq DEF AwaitsFrom
<1>2. PICK t : /\ t[0] = Here /\ \A k \in 1..N : t[k] = Resolve(t[k - 1], queue[k])
               /\ Resolved(queue) = t[N]
  BY <1>1, AppliedInOrder
<1> HIDE DEF N
<1> DEFINE Fine(k) == /\ Sound(t[k], g)
                      /\ \A l \in 1..N : l > k => Awaits(queue[l], t[k], g)
           Bad == {k \in 0..N : ~Fine(k)}
<1>3. SUFFICES ASSUME Bad # {} PROVE FALSE
  <2>1. N \in 0..N
    BY <1>1
  <2> QED
    BY <1>2, <2>1
<1>4. PICK m \in Bad : \A l \in Bad : m <= l
  <2>1. Bad \in SUBSET Nat
    OBVIOUS
  <2> HIDE DEF Bad
  <2> QED
    BY <1>3, <2>1, LeastOf
<1>5. m \in 0..N /\ ~Fine(m)
  BY <1>4
<1>6. Fine(0)
  BY <1>1, <1>2 DEF AwaitsFrom
<1>7. m # 0
  BY <1>5, <1>6
<1>8. m \in 1..N /\ m - 1 \in 0..N /\ m - 1 \notin Bad /\ m > m - 1
  BY <1>1, <1>4, <1>5, <1>7
<1>9. Fine(m - 1)
  BY <1>8
<1> DEFINE s == t[m - 1]
           res == queue[m]
<1>10. res \in Result /\ Sound(s, g) /\ Awaits(res, s, g) /\ t[m] = Resolve(s, res)
  BY <1>1, <1>2, <1>8, <1>9
<1>11. ASSUME NEW l \in 1..N, l > m
       PROVE  queue[l] \in Result /\ queue[l].of # res.of /\ Awaits(queue[l], s, g)
  <2>1. l > m - 1 /\ l # m
    BY <1>1, <1>8, <1>11
  <2> QED
    BY <1>1, <1>8, <1>9, <2>1 DEF AwaitsFrom
<1> HIDE DEF s, res, Fine
<1>12. /\ Sound(Resolve(s, res), g)
       /\ \A other \in Result :
            other.of # res.of /\ Awaits(other, s, g) => Awaits(other, Resolve(s, res), g)
  BY <1>10, ResolveStale, ResolveAwaited
<1>13. Fine(m)
  BY <1>10, <1>11, <1>12 DEF Fine
<1> QED
  BY <1>5, <1>13

LEMMA HereIsSound ==
  ASSUME InferenceInv
  PROVE  Sound(Here, governed) /\ AwaitsFrom(0, results, Here, governed)
<1>1. /\ Here.mind = mind /\ Here.inquiry = inquiry /\ Here.meter = meter
      /\ DOMAIN Here = {"mind", "inquiry", "meter"}
  BY DEF Here
<1> HIDE DEF Here
<1> QED
  BY <1>1 DEF InferenceInv, Sound, AwaitsFrom

\* What Observe takes: the queue, and the watchdog's word for whom it awaits.
LEMMA QueueAwaits ==
  ASSUME InferenceInv
  PROVE  AwaitsFrom(0, Queue, Here, governed)
<1> DEFINE i == mind.pending
           word == [of |-> i, is |-> "error", value |-> Nothing]
           n == Len(results)
<1>1. /\ Sound(Here, governed) /\ AwaitsFrom(0, results, Here, governed)
      /\ Here.mind = mind /\ Here.meter = meter /\ Here.inquiry = inquiry
  BY HereIsSound DEF Here
<1>2. CASE Queue = results
  BY <1>1, <1>2
<1>3. CASE Queue # results
  <2>1. i # Nothing /\ (\A k \in DOMAIN results : results[k].of # i) /\ Queue = Append(results, word)
    BY <1>3 DEF Queue
  <2>2. i \in Infs /\ Settled(i, Here)
    BY <1>1, <2>1 DEF Sound, Deliberates
  <2>3. word \in Result
    BY <2>2 DEF Result, Readings
  <2>4. results \in Seq(Result)
    BY <1>1 DEF AwaitsFrom
  <2>5. n \in Nat /\ DOMAIN results = 1..n
    BY <2>4, LenProperties
  <2>6. /\ Queue \in Seq(Result) /\ DOMAIN Queue = 1..n + 1 /\ Queue[n + 1] = word
        /\ \A k \in 1..n : Queue[k] = results[k]
    BY <2>1, <2>3, <2>4, AppendProperties, LenProperties
  <2>7. 1..n + 1 = (1..n) \cup {n + 1}
    BY <2>5
  <2>8. word.of = i /\ word.is = "error"
    OBVIOUS
  <2> HIDE DEF n, word
  <2>9. Awaits(word, Here, governed)
    BY <1>1, <2>2, <2>8 DEF Awaits, Settled
  <2>10. \A k, l \in DOMAIN Queue : Queue[k].of = Queue[l].of => k = l
    BY <1>1, <2>1, <2>5, <2>6, <2>7, <2>8 DEF AwaitsFrom
  <2>11. ASSUME NEW k \in DOMAIN Queue, k > 0 PROVE Awaits(Queue[k], Here, governed)
    BY <1>1, <2>5, <2>6, <2>7, <2>9, <2>11 DEF AwaitsFrom
  <2> QED
    BY <2>6, <2>10, <2>11 DEF AwaitsFrom
<1> QED
  BY <1>2, <1>3
-----------------------------------------------------------------------------
LEMMA NothingSpent ==
  ASSUME NEW g \in [Questions -> Figures], \A i \in Questions : g[i] = Zero
  PROVE  Sum(g) = Zero
<1> DEFINE N == MaxInferences
<1>0. N \in Nat /\ Questions = 0..N
  BY InferenceConstants DEF Questions, Infs, Background
<1>1. PICK t \in [0..N -> Figures] :
        /\ t[0] = g[0] /\ \A k \in 1..N : t[k] = Plus(t[k - 1], g[k])
        /\ Sum(g) = t[N]
  BY TotalsOf
<1> HIDE DEF N
<1> DEFINE Bad == {k \in 0..N : t[k] # Zero}
<1>2. SUFFICES ASSUME Bad # {} PROVE FALSE
  <2>1. N \in 0..N
    BY <1>0
  <2> QED
    BY <1>1, <2>1
<1>3. PICK m \in Bad : \A l \in Bad : m <= l
  <2>1. Bad \in SUBSET Nat
    OBVIOUS
  <2> HIDE DEF Bad
  <2> QED
    BY <1>2, <2>1, LeastOf
<1>4. m \in 0..N /\ t[m] # Zero /\ m # 0
  BY <1>0, <1>1, <1>3
<1>5. m \in 1..N /\ m - 1 \in 0..N /\ m - 1 \notin Bad
  BY <1>0, <1>3, <1>4
<1>6. t[m - 1] = Zero /\ g[m] = Zero /\ t[m] = Plus(t[m - 1], g[m])
  BY <1>0, <1>1, <1>5
<1> QED
  BY <1>4, <1>6, ZeroIsFigures

LEMMA InferenceInvInit == InferenceInit => InferenceInv
<1> SUFFICES ASSUME InferenceInit PROVE InferenceInv
  OBVIOUS
<1>1. /\ mind = [state |-> "ready", pending |-> Nothing, plan |-> TRUE]
      /\ inquiry = [i \in Questions |->
           [at |-> "idle", kind |-> Nothing, late |-> FALSE, answer |-> Nothing, ruling |-> Nothing]]
      /\ results = <<>> /\ governed \in BOOLEAN
  BY DEF InferenceInit
<1>2. /\ meter.total = Zero /\ meter.rows = [i \in Questions |-> Zero] /\ meter.partial = <<>>
      /\ meter.wasted = Cost(Zero) /\ meter.discarded = {} /\ meter.outcome = [i \in Questions |-> Nothing]
      /\ meter = [total |-> meter.total, rows |-> meter.rows, partial |-> meter.partial,
                  wasted |-> meter.wasted, discarded |-> meter.discarded, outcome |-> meter.outcome]
  BY DEF InferenceInit
<1>3. Here.mind = mind /\ Here.inquiry = inquiry /\ Here.meter = meter
      /\ DOMAIN Here = {"mind", "inquiry", "meter"}
  BY DEF Here
<1>4. MeterAddsUp(meter)
  <2>1. meter.rows \in [Questions -> Figures] /\ meter.total \in Figures /\ meter.wasted \in Costly
    BY <1>2, ZeroIsFigures, PlusOfFigures
  <2>2. meter.partial \in [{} -> Costly] /\ DOMAIN meter.partial = {}
    BY <1>2
  <2>3. meter.partial \in UNION {[S -> Costly] : S \in SUBSET Infs}
    BY <2>2
  <2>4. meter.outcome \in [Questions -> Outcomes] /\ meter.discarded \in SUBSET Infs
    BY <1>2 DEF Outcomes
  <2>5. meter \in Meters
    BY <1>2, <2>1, <2>3, <2>4 DEF Meters
  <2>6. Unused(meter) = meter.rows /\ Sum(meter.rows) = Zero
    BY <1>2, <2>1, NothingSpent DEF Unused
  <2>7. \A i \in Infs : Cost(meter.rows[i]) = Cost(Zero)
    BY <1>2 DEF Questions
  <2> QED
    BY <1>2, <2>2, <2>5, <2>6, <2>7 DEF MeterAddsUp
<1>5. Deliberates(mind)
  BY <1>1 DEF Deliberates
<1>6. ASSUME NEW i \in Questions PROVE Asked(i, inquiry[i], governed)
  BY <1>1 DEF Asked, Honest
<1>7. ASSUME NEW i \in Infs PROVE Settled(i, Here)
  <2>1. i \in Questions /\ i # Nothing
    BY InferenceConstants DEF Questions, Infs
  <2> QED
    BY <1>1, <1>2, <1>3, <2>1 DEF Settled
<1>8. results \in Seq(Result) /\ DOMAIN results = {} /\ DOMAIN inquiry = Questions
  BY <1>1
<1> QED
  BY <1>1, <1>4, <1>5, <1>6, <1>7, <1>8 DEF InferenceInv

\* A call in flight ends, however it ends.
LEMMA FinishKeeps ==
  ASSUME InferenceInv, NEW i \in Questions, inquiry[i].at \in {"flight", "repair"},
         NEW a, NEW is \in {"value", "error", "unresolvable"}, NEW v \in Readings,
         is = "value" => /\ a \in Answer /\ Read(inquiry[i].kind, a, governed).is = "value"
                         /\ Read(inquiry[i].kind, a, governed).value = v,
         Finish(i, a, is, v), mind' = mind, governed' = governed,
         MeterAddsUp(meter'), meter'.discarded = meter.discarded, meter'.outcome = meter.outcome
  PROVE  InferenceInv'
<1>0. /\ governed \in BOOLEAN /\ DOMAIN inquiry = Questions
      /\ Deliberates(mind) /\ MeterAddsUp(meter)
      /\ \A j \in Questions : Asked(j, inquiry[j], governed)
      /\ \A j \in Infs : Settled(j, Here)
      /\ results \in Seq(Result)
      /\ \A k, l \in DOMAIN results : results[k].of = results[l].of => k = l
      /\ \A k \in DOMAIN results : Awaits(results[k], Here, governed) /\ inquiry[results[k].of].at = "over"
  BY DEF InferenceInv
<1>1. /\ Here.mind = mind /\ Here.inquiry = inquiry /\ Here.meter = meter
      /\ Here'.mind = mind' /\ Here'.inquiry = inquiry' /\ Here'.meter = meter'
  BY DEF Here
<1> DEFINE q == inquiry[i]
           ruling == IF i = Background /\ is = "value" THEN v ELSE q.ruling
<1>2. Asked(i, q, governed) /\ q.at \in {"flight", "repair"}
  BY <1>0
<1>3. /\ DOMAIN inquiry' = Questions
      /\ \A j \in Questions : j # i => inquiry'[j] = inquiry[j]
      /\ inquiry'[i] = [q EXCEPT !.at = "over", !.answer = a, !.ruling = ruling]
  BY <1>0 DEF Finish
<1>4. /\ DOMAIN inquiry'[i] = {"at", "kind", "late", "answer", "ruling"}
      /\ inquiry'[i].at = "over" /\ inquiry'[i].answer = a /\ inquiry'[i].kind = q.kind
      /\ inquiry'[i].ruling = ruling
  <2> HIDE DEF ruling
  <2> QED
    BY <1>2, <1>3 DEF Asked
<1>5. q.kind \in Kinds /\ q.kind \in (IF i = Background THEN Judgements ELSE Activities)
  BY <1>2 DEF Asked, Kinds
<1> HIDE DEF q
<1>6. is = "value" => ReadAs(inquiry'[i], v, governed)
  BY <1>4, <1>5 DEF ReadAs, q
<1>7. Honest(inquiry'[i], governed)
  <2>1. CASE i = Background /\ is = "value"
    BY <1>4, <1>6, <2>1 DEF Honest
  <2>2. CASE ~(i = Background /\ is = "value")
    <3>1. ruling = q.ruling /\ ~ReadAs(q, q.ruling, governed)
      BY <1>2, <2>2 DEF ReadAs
    <3> HIDE DEF ruling
    <3> QED
      BY <1>2, <1>4, <3>1 DEF Asked, Honest
  <2> QED
    BY <2>1, <2>2
<1> HIDE DEF ruling
<1>8. ASSUME NEW j \in Questions PROVE Asked(j, inquiry'[j], governed')
  <2>1. CASE j = i
    BY <1>4, <1>5, <1>7, <2>1 DEF Asked
  <2>2. CASE j # i
    BY <1>0, <1>3, <2>2
  <2> QED
    BY <2>1, <2>2
<1>9. i \in Infs => i \notin meter.discarded /\ meter.outcome[i] \in {Nothing, "error"}
  BY <1>0, <1>1, <1>2 DEF Settled, q
<1>10. ASSUME NEW j \in Infs PROVE Settled(j, Here')
  <2>1. j \in Questions /\ Settled(j, Here)
    BY <1>0 DEF Questions
  <2>2. CASE j = i
    BY <1>1, <1>4, <1>9, <2>1, <2>2 DEF Settled
  <2>3. CASE j # i
    BY <1>1, <1>3, <2>1, <2>3 DEF Settled
  <2> QED
    BY <2>2, <2>3
<1>11. ASSUME NEW k \in DOMAIN results
       PROVE  /\ results[k].of \in Questions /\ results[k].of # i
              /\ Awaits(results[k], Here', governed') /\ inquiry'[results[k].of].at = "over"
  <2>1. results[k] \in Result
    BY <1>0, ElementOfSeq, LenProperties
  <2>2. results[k].of \in Questions /\ results[k].of # i
    BY <1>0, <2>1, <1>2 DEF Result, Questions, q
  <2>3. inquiry'[results[k].of] = inquiry[results[k].of]
    BY <1>3, <2>2
  <2> QED
    BY <1>0, <1>1, <2>2, <2>3 DEF Awaits
<1>12. /\ results' \in Seq(Result)
       /\ \A k, l \in DOMAIN results' : results'[k].of = results'[l].of => k = l
       /\ \A k \in DOMAIN results' :
            Awaits(results'[k], Here', governed') /\ inquiry'[results'[k].of].at = "over"
  <2>1. CASE i = Background
    <3>1. results' = results
      BY <2>1 DEF Finish
    <3> QED
      BY <1>0, <1>11, <3>1
  <2>2. CASE i # Background
    <3> DEFINE res == [of |-> i, is |-> is, value |-> v]
               n == Len(results)
    <3>1. i \in Infs /\ results' = Append(results, res)
      BY <2>2 DEF Finish, Push, Questions
    <3>2. res \in Result
      BY <3>1 DEF Result
    <3>3. n \in Nat /\ DOMAIN results = 1..n
      BY <1>0, LenProperties
    <3>4. /\ results' \in Seq(Result) /\ DOMAIN results' = 1..n + 1 /\ results'[n + 1] = res
          /\ \A k \in 1..n : results'[k] = results[k]
      BY <1>0, <3>1, <3>2, AppendProperties, LenProperties
    <3>5. 1..n + 1 = (1..n) \cup {n + 1}
      BY <3>3
    <3>6. res.of = i /\ res.is = is /\ res.value = v
      OBVIOUS
    <3> HIDE DEF res, n
    <3>7. Awaits(res, Here', governed')
      BY <1>1, <1>4, <1>6, <1>9, <3>1, <3>6 DEF Awaits
    <3>8. \A k, l \in DOMAIN results' : results'[k].of = results'[l].of => k = l
      BY <1>0, <1>11, <3>3, <3>4, <3>5, <3>6
    <3>9. ASSUME NEW k \in DOMAIN results'
          PROVE  Awaits(results'[k], Here', governed') /\ inquiry'[results'[k].of].at = "over"
      BY <1>4, <1>11, <3>3, <3>4, <3>5, <3>6, <3>7
    <3> QED
      BY <3>4, <3>8, <3>9
  <2> QED
    BY <2>1, <2>2
<1> QED
  BY <1>0, <1>3, <1>8, <1>10, <1>12 DEF InferenceInv

LEMMA InferenceInvStep == InferenceInv /\ [InferenceNext]_inferenceVars => InferenceInv'
<1> SUFFICES ASSUME InferenceInv, [InferenceNext]_inferenceVars PROVE InferenceInv'
  OBVIOUS
<1>0. /\ governed \in BOOLEAN /\ DOMAIN inquiry = Questions
      /\ Deliberates(mind) /\ MeterAddsUp(meter)
      /\ \A j \in Questions : Asked(j, inquiry[j], governed)
      /\ \A j \in Infs : Settled(j, Here)
      /\ results \in Seq(Result)
      /\ \A k, l \in DOMAIN results : results[k].of = results[l].of => k = l
      /\ \A k \in DOMAIN results : Awaits(results[k], Here, governed) /\ inquiry[results[k].of].at = "over"
  BY DEF InferenceInv
<1>h. /\ Here.mind = mind /\ Here.inquiry = inquiry /\ Here.meter = meter
      /\ Here'.mind = mind' /\ Here'.inquiry = inquiry' /\ Here'.meter = meter'
  BY DEF Here
<1>r. \A k \in DOMAIN results : results[k].of \in Infs /\ results[k].of \in Questions
  <2>1. DOMAIN results = 1..Len(results)
    BY <1>0, LenProperties
  <2>2. \A k \in 1..Len(results) : results[k] \in Result
    BY <1>0, ElementOfSeq
  <2>3. \A k \in 1..Len(results) : results[k].of \in Infs
    BY <2>2 DEF Result
  <2> QED
    BY <2>1, <2>3 DEF Questions
<1>q. \A i \in Infs : i \in Questions /\ i # Background /\ i # Nothing
  BY InferenceConstants DEF Questions, Infs, Background
\* A question moves on, and no result of it is queued yet.
<1>1. ASSUME NEW i \in Questions, inquiry[i].at # "over", NEW q, Asked(i, q, governed), q.at # "idle",
             DOMAIN inquiry' = Questions, inquiry'[i] = q,
             \A j \in Questions : j # i => inquiry'[j] = inquiry[j],
             q.at # "over", results' = results, governed' = governed,
             MeterAddsUp(meter'), meter'.discarded = meter.discarded, meter'.outcome = meter.outcome,
             Deliberates(mind'),
             mind'.pending = mind.pending \/ (mind'.pending = i /\ inquiry[i].at = "idle")
      PROVE  InferenceInv'
  <2>1. ASSUME NEW j \in Questions PROVE Asked(j, inquiry'[j], governed')
    BY <1>0, <1>1
  <2>2. ASSUME NEW j \in Infs PROVE Settled(j, Here')
    <3>1. j \in Questions /\ Settled(j, Here)
      BY <1>0, <1>q
    <3>2. CASE j = i
      BY <1>1, <1>h, <3>1, <3>2 DEF Settled
    <3>3. CASE j # i
      BY <1>1, <1>h, <3>1, <3>3 DEF Settled
    <3> QED
      BY <3>2, <3>3
  <2>3. ASSUME NEW k \in DOMAIN results
        PROVE  Awaits(results[k], Here', governed') /\ inquiry'[results[k].of].at = "over"
    <3>1. inquiry'[results[k].of] = inquiry[results[k].of]
      BY <1>0, <1>1, <1>r
    <3> QED
      BY <1>0, <1>1, <1>h, <3>1 DEF Awaits
  <2> QED
    BY <1>0, <1>1, <2>1, <2>2, <2>3 DEF InferenceInv
<1>2. ASSUME NEW i \in Infs, NEW kind \in Activities, Infer(i, kind) PROVE InferenceInv'
  <2> DEFINE q == [inquiry[i] EXCEPT !.at = "flight", !.kind = kind]
  <2>1. Asked(i, inquiry[i], governed) /\ inquiry[i].at = "idle"
    BY <1>0, <1>2, <1>q DEF Infer
  <2>2. /\ q.at = "flight" /\ q.kind = kind /\ q.ruling = Nothing
        /\ DOMAIN q = {"at", "kind", "late", "answer", "ruling"}
    BY <2>1 DEF Asked
  <2>3. DOMAIN inquiry' = Questions /\ inquiry'[i] = q /\ \A j \in Questions : j # i => inquiry'[j] = inquiry[j]
    BY <1>0, <1>2, <1>q DEF Infer
  <2> HIDE DEF q
  <2>4. Asked(i, q, governed)
    BY <1>q, <2>2 DEF Asked, Honest
  <2>5. Deliberates(mind') /\ mind'.pending = i
    BY <1>0, <1>2, <1>q DEF Infer, Deliberates
  <2>6. results' = results /\ meter' = meter /\ governed' = governed
    BY <1>2 DEF Infer
  <2> QED
    BY <1>0, <1>1, <1>q, <2>1, <2>2, <2>3, <2>4, <2>5, <2>6
<1>3. ASSUME NEW kind \in Judgements, Judge(kind) PROVE InferenceInv'
  <2> DEFINE q == [inquiry[Background] EXCEPT !.at = "flight", !.kind = kind]
  <2>0. Background \in Questions
    BY DEF Questions
  <2>1. Asked(Background, inquiry[Background], governed) /\ inquiry[Background].at = "idle"
    BY <1>0, <1>3, <2>0 DEF Judge
  <2>2. /\ q.at = "flight" /\ q.kind = kind /\ q.ruling = Nothing
        /\ DOMAIN q = {"at", "kind", "late", "answer", "ruling"}
    BY <2>1 DEF Asked
  <2>3. /\ DOMAIN inquiry' = Questions /\ inquiry'[Background] = q
        /\ \A j \in Questions : j # Background => inquiry'[j] = inquiry[j]
    BY <1>0, <1>3, <2>0 DEF Judge
  <2> HIDE DEF q
  <2>4. Asked(Background, q, governed)
    BY <2>2 DEF Asked, Honest
  <2>5. mind' = mind /\ results' = results /\ meter' = meter /\ governed' = governed
    BY <1>3 DEF Judge
  <2> QED
    BY <1>0, <1>1, <2>0, <2>1, <2>2, <2>3, <2>4, <2>5
<1>4. ASSUME NEW i \in Questions, Replies(i) PROVE InferenceInv'
  <2>0. inquiry[i].at \in {"flight", "repair"} /\ Asked(i, inquiry[i], governed)
    BY <1>0, <1>4 DEF Replies
  <2> DEFINE kind == inquiry[i].kind
  <2>1. PICK a \in Answers[kind], u \in Reports[kind] :
          LET again == inquiry[i].at = "repair"
              r == Read(kind, a, governed)
              failed == r.is = "error" /\ (kind = "plan" => again)
              mended == again /\ r.is = "value"
          IN /\ IF kind = "plan" /\ r.is = "error" /\ ~again
                THEN inquiry' = [inquiry EXCEPT ![i].at = "repair"] /\ UNCHANGED results
                ELSE Finish(i, a, r.is, r.value)
             /\ Metered(i, [Crossing(u) EXCEPT !.dropped = r.dropped,
                             !.repaired = r.repaired + IF mended THEN 1 ELSE 0,
                             !.unparsed = IF failed THEN 1 ELSE 0])
    BY <1>4 DEF Replies
  <2>2. kind \in Kinds
    BY <2>0 DEF Asked, Kinds
  <2>3. a \in Answer /\ u \in LLMUsage \cup {Silent}
    BY <2>1, <2>2, InferenceConstants
  <2> DEFINE r == Read(kind, a, governed)
             again == inquiry[i].at = "repair"
             mend == r.repaired + IF again /\ r.is = "value" THEN 1 ELSE 0
             lost == IF r.is = "error" /\ (kind = "plan" => again) THEN 1 ELSE 0
             e == [Crossing(u) EXCEPT !.dropped = r.dropped, !.repaired = mend, !.unparsed = lost]
  <2>4. r.dropped \in Nat /\ r.repaired \in Nat /\ r.is \in {"value", "error", "unresolvable"}
    BY <2>2, <2>3, ReadingIsCounted
  <2>5. mend \in Nat /\ lost \in Nat
    BY <2>4
  <2>6. Metered(i, e)
    BY <2>1
  <2>7. \/ /\ kind = "plan" /\ r.is = "error" /\ ~again
           /\ inquiry' = [inquiry EXCEPT ![i].at = "repair"] /\ results' = results
        \/ Finish(i, a, r.is, r.value)
    BY <2>1
  <2>8. Crossing(u) \in Figures
    BY <2>3, CrossingIsFigures
  <2>v. r.value \in Readings
    <3>1. governed \in BOOLEAN /\ kind \in Kinds /\ a \in Answer
      BY <1>0, <2>2, <2>3
    <3> HIDE DEF kind
    <3> QED
      BY <3>1, ReadIsReading DEF r
  <2> HIDE DEF r, mend, lost
  <2>9. e \in Figures
    BY <2>4, <2>5, <2>8 DEF Figures
  <2> HIDE DEF e
  <2>10. i \notin meter.discarded
    <3>1. meter.discarded \in SUBSET Infs
      BY <1>0, PartialOf DEF MeterAddsUp
    <3> QED
      BY <1>0, <1>h, <2>0, <3>1 DEF Settled
  <2>11. MeterAddsUp(meter') /\ meter'.discarded = meter.discarded /\ meter'.outcome = meter.outcome
    BY <1>0, <2>6, <2>9, <2>10, MeteredAddsUp
  <2>12. mind' = mind /\ governed' = governed
    BY <1>4 DEF Replies
  <2>13. CASE Finish(i, a, r.is, r.value)
    <3>1. r.is = "value" => /\ a \in Answer /\ Read(inquiry[i].kind, a, governed).is = "value"
                            /\ Read(inquiry[i].kind, a, governed).value = r.value
      BY <2>3 DEF r
    <3> QED
      BY <2>0, <2>4, <2>v, <2>11, <2>12, <2>13, <3>1, FinishKeeps
  <2>14. CASE /\ kind = "plan" /\ r.is = "error" /\ ~again
              /\ inquiry' = [inquiry EXCEPT ![i].at = "repair"] /\ results' = results
    <3> DEFINE q == [inquiry[i] EXCEPT !.at = "repair"]
    <3>1. /\ q.at = "repair" /\ q.kind = inquiry[i].kind /\ q.ruling = inquiry[i].ruling
          /\ DOMAIN q = {"at", "kind", "late", "answer", "ruling"}
      BY <2>0 DEF Asked
    <3>2. DOMAIN inquiry' = Questions /\ inquiry'[i] = q /\ \A j \in Questions : j # i => inquiry'[j] = inquiry[j]
      BY <1>0, <2>14
    <3> HIDE DEF q
    <3>3. Asked(i, q, governed)
      BY <2>0, <3>1 DEF Asked, Honest, ReadAs
    <3> QED
      BY <1>0, <1>1, <2>0, <2>11, <2>12, <2>14, <3>1, <3>2, <3>3
  <2> QED
    BY <2>7, <2>13, <2>14
<1>5. ASSUME NEW i \in Questions, NEW refused \in BOOLEAN, Raises(i, refused) PROVE InferenceInv'
  <2>1. /\ inquiry[i].at \in {"flight", "repair"} /\ Finish(i, Nothing, "error", Nothing)
        /\ mind' = mind /\ governed' = governed
        /\ meter' = meter \/ Metered(i, Crossing(Silent))
    BY <1>5 DEF Raises
  <2>2. i \notin meter.discarded
    <3>1. meter.discarded \in SUBSET Infs
      BY <1>0, PartialOf DEF MeterAddsUp
    <3> QED
      BY <1>0, <1>h, <2>1, <3>1 DEF Settled
  <2>3. Crossing(Silent) \in Figures
    BY CrossingIsFigures
  <2>4. MeterAddsUp(meter') /\ meter'.discarded = meter.discarded /\ meter'.outcome = meter.outcome
    BY <1>0, <2>1, <2>2, <2>3, MeteredAddsUp
  <2>5. Nothing \in Readings
    BY DEF Readings
  <2> QED
    BY <2>1, <2>4, <2>5, FinishKeeps
<1>6. ASSUME NEW i \in Infs, Overdue(i) PROVE InferenceInv'
  <2>1. /\ inquiry' = [inquiry EXCEPT ![i].late = TRUE] /\ mind' = mind /\ results' = results
        /\ meter' = meter /\ governed' = governed
    BY <1>6 DEF Overdue
  <2>2. \A j \in Questions : DOMAIN inquiry[j] = {"at", "kind", "late", "answer", "ruling"}
    BY <1>0 DEF Asked
  <2>3. DOMAIN inquiry' = Questions
        /\ \A j \in Questions : /\ DOMAIN inquiry'[j] = {"at", "kind", "late", "answer", "ruling"}
                               /\ inquiry'[j].at = inquiry[j].at /\ inquiry'[j].kind = inquiry[j].kind
                               /\ inquiry'[j].answer = inquiry[j].answer /\ inquiry'[j].ruling = inquiry[j].ruling
    BY <1>0, <2>1, <2>2
  <2>4. ASSUME NEW j \in Questions, NEW v, NEW g
        PROVE  ReadAs(inquiry'[j], v, g) <=> ReadAs(inquiry[j], v, g)
    BY <2>3 DEF ReadAs
  <2>5. ASSUME NEW j \in Questions PROVE Asked(j, inquiry'[j], governed')
    <3>1. Asked(j, inquiry[j], governed) /\ (ReadAs(inquiry[j], inquiry[j].ruling, governed)
                                             => ReadAs(inquiry'[j], inquiry[j].ruling, governed))
      BY <1>0, <2>4
    <3> QED
      BY <2>1, <2>3, <3>1 DEF Asked, Honest
  <2>6. ASSUME NEW j \in Infs PROVE Settled(j, Here')
    BY <1>0, <1>h, <1>q, <2>1, <2>3 DEF Settled
  <2>7. ASSUME NEW k \in DOMAIN results
        PROVE  Awaits(results[k], Here', governed') /\ inquiry'[results[k].of].at = "over"
    <3>1. Awaits(results[k], Here, governed) /\ inquiry[results[k].of].at = "over" /\ results[k].of \in Questions
      BY <1>0, <1>r
    <3>2. ReadAs(inquiry[results[k].of], results[k].value, governed)
          => ReadAs(inquiry'[results[k].of], results[k].value, governed)
      BY <2>4, <3>1
    <3> QED
      BY <1>h, <2>1, <2>3, <3>1, <3>2 DEF Awaits
  <2> QED
    BY <1>0, <2>1, <2>3, <2>5, <2>6, <2>7 DEF InferenceInv
<1>7. CASE Interrupted
  <2>1. /\ inquiry' = inquiry /\ results' = results /\ meter' = meter /\ governed' = governed
        /\ mind' = [mind EXCEPT !.state = "ready", !.pending = Nothing, !.plan = FALSE]
    BY <1>7 DEF Interrupted
  <2>2. Deliberates(mind') /\ mind'.pending = Nothing
    BY <1>0, <2>1 DEF Deliberates
  <2>3. ASSUME NEW j \in Infs PROVE Settled(j, Here')
    BY <1>0, <1>h, <1>q, <2>1, <2>2 DEF Settled
  <2>4. ASSUME NEW k \in DOMAIN results PROVE Awaits(results[k], Here', governed')
    BY <1>0, <1>h, <2>1 DEF Awaits
  <2> QED
    BY <1>0, <2>1, <2>2, <2>3, <2>4 DEF InferenceInv
<1>8. CASE ObserveInferences
  <2> DEFINE s == Resolved(Queue)
  <2>1. mind' = s.mind /\ inquiry' = s.inquiry /\ meter' = s.meter /\ results' = <<>> /\ governed' = governed
    BY <1>8 DEF ObserveInferences
  <2>2. Sound(s, governed)
    BY HereIsSound, QueueAwaits, QueueApplied
  <2> HIDE DEF s
  <2>3. /\ DOMAIN inquiry' = Questions /\ Deliberates(mind') /\ MeterAddsUp(meter')
        /\ \A j \in Questions : Asked(j, inquiry'[j], governed')
        /\ \A j \in Infs : Settled(j, s)
    BY <2>1, <2>2 DEF Sound
  <2>4. ASSUME NEW j \in Infs PROVE Settled(j, Here')
    BY <1>h, <2>1, <2>3 DEF Settled
  <2>5. results' \in Seq(Result) /\ DOMAIN results' = {}
    BY <2>1
  <2> QED
    BY <1>0, <2>1, <2>3, <2>4, <2>5 DEF InferenceInv
<1>9. CASE UNCHANGED inferenceVars
  <2>1. Here' = Here /\ mind' = mind /\ inquiry' = inquiry /\ results' = results /\ meter' = meter
        /\ governed' = governed
    BY <1>9 DEF inferenceVars, Here
  <2> QED
    BY <1>0, <2>1 DEF InferenceInv
<1> QED
  BY <1>2, <1>3, <1>4, <1>5, <1>6, <1>7, <1>8, <1>9 DEF InferenceNext

LEMMA InferenceInvariance == InferenceSpec => []InferenceInv
BY InferenceInvInit, InferenceInvStep, PTL DEF InferenceSpec

LEMMA InferenceInvTyped == InferenceInv => InferenceTypeOK
<1> SUFFICES ASSUME InferenceInv PROVE InferenceTypeOK
  OBVIOUS
<1>1. mind.state \in {"ready", "running"} /\ mind.pending \in Infs \cup {Nothing}
      /\ (mind.state = "running" <=> mind.pending # Nothing)
  BY DEF InferenceInv, Deliberates
<1>2. \A i \in Questions : inquiry[i].at \in {"idle", "flight", "repair", "over"}
  BY DEF InferenceInv, Asked
<1>3. DOMAIN meter.partial \subseteq Infs
  <2>1. meter \in Meters
    BY DEF InferenceInv, MeterAddsUp
  <2> QED
    BY <2>1, PartialOf
<1>4. \A n \in DOMAIN results : results[n].of \in Infs
  <2>1. DOMAIN results = 1..Len(results) /\ \A k \in 1..Len(results) : results[k] \in Result
    BY LenProperties, ElementOfSeq DEF InferenceInv
  <2> QED
    BY <2>1 DEF Result
<1> QED
  BY <1>1, <1>2, <1>3, <1>4 DEF InferenceTypeOK

(* The types of the activity's deliberation, of its questions, and of the  *)
(* run's meter.                                                            *)
THEOREM InferenceIsTyped == InferenceSpec => []InferenceTypeOK
BY InferenceInvariance, InferenceInvTyped, PTL

(* LLMMeter's waste is exactly the cost of the inferences no result of     *)
(* which was used, and its totals are the sums of its rows, whatever the   *)
(* order in which answers, the watchdog and interrupts arrive.             *)
THEOREM WasteIsAccounted == InferenceSpec => []WasteIsUnused
<1>1. InferenceInv => WasteIsUnused
  <2> SUFFICES ASSUME InferenceInv PROVE WasteIsUnused
    OBVIOUS
  <2>1. MeterAddsUp(meter) /\ \A i \in Infs : Settled(i, Here)
    BY DEF InferenceInv
  <2>2. meter.discarded \subseteq Infs
    <3>1. meter \in Meters
      BY <2>1 DEF MeterAddsUp
    <3> QED
      BY <3>1, PartialOf
  <2>3. \A i \in meter.discarded : meter.outcome[i] \in {Nothing, "error"}
    BY <2>1, <2>2 DEF Settled, Here
  <2>4. Unused(meter) = [i \in Questions |-> IF i \in meter.discarded THEN meter.rows[i] ELSE Zero]
    BY DEF Unused
  <2>5. meter.wasted = Cost(Sum(Unused(meter))) /\ meter.total = Sum(meter.rows)
    BY <2>1 DEF MeterAddsUp
  <2> QED
    BY <2>3, <2>4, <2>5 DEF WasteIsUnused
<1> QED
  BY <1>1, InferenceInvariance, PTL

(* A ruling that fires nothing, replans, writes grounded values or asks    *)
(* the user rests on an answer of that very inference which was read whole *)
(* (ReadAuthorizes), and no late or unreadable one can stand in for it.    *)
THEOREM UnreadAuthorizesNothing == InferenceSpec => []UnreadAnswersAuthorizeNothing
<1>1. ASSUME InferenceInv, NEW i \in Questions, inquiry[i].ruling # Nothing
      PROVE  Authorizes(inquiry[i].kind, inquiry[i].answer, inquiry[i].ruling, governed)
  <2>1. Asked(i, inquiry[i], governed)
    BY <1>1 DEF InferenceInv
  <2>2. CASE inquiry[i].kind = "select"
    BY <2>2 DEF Authorizes
  <2>3. CASE inquiry[i].kind = "condition" /\ inquiry[i].ruling = Verdict(<<>>, TRUE)
    BY <2>3 DEF Authorizes, Verdict
  <2>4. CASE inquiry[i].kind = "revalidate" /\ inquiry[i].ruling = TRUE
    BY <2>4 DEF Authorizes
  <2>5. CASE ReadAs(inquiry[i], inquiry[i].ruling, governed)
    BY <2>5, ReadAuthorizes DEF ReadAs
  <2> QED
    BY <1>1, <2>1, <2>2, <2>3, <2>4, <2>5 DEF Asked, Honest
<1>2. InferenceInv => UnreadAnswersAuthorizeNothing
  BY <1>1 DEF UnreadAnswersAuthorizeNothing, Authorizes
<1> QED
  BY <1>2, InferenceInvariance, PTL

-----------------------------------------------------------------------------
(* MCRecords: the parts side by side.                                      *)

\* A step of the whole is a step of the part that moves and stutters in the others.
LEMMA StepOfParts ==
  [RecordNext]_recordVars =>
    /\ [InferenceNext]_inferenceVars /\ [BatchNext]_batchVars
    /\ [CommandNext]_commandVars /\ [PromptNext]_promptVars
<1> SUFFICES ASSUME [RecordNext]_recordVars
    PROVE  /\ [InferenceNext]_inferenceVars /\ [BatchNext]_batchVars
           /\ [CommandNext]_commandVars /\ [PromptNext]_promptVars
  OBVIOUS
<1>1. CASE Still("inference") /\ InferenceNext
  BY <1>1 DEF Still
<1>2. CASE Still("artifacts") /\ BatchNext
  BY <1>2 DEF Still
<1>3. CASE Still("command") /\ CommandNext
  BY <1>3 DEF Still
<1>4. CASE Still("prompts") /\ PromptNext
  BY <1>4 DEF Still
<1>5. CASE UNCHANGED recordVars
  BY <1>5 DEF recordVars
<1> QED
  BY <1>1, <1>2, <1>3, <1>4, <1>5 DEF RecordNext

(* Every behaviour of the four parts side by side is one of each of them,  *)
(* so what is proved of a part holds of the whole that the run checks.     *)
THEOREM RecordsAreTheirParts ==
  RecordSpec => InferenceSpec /\ BatchSpec /\ CommandSpec /\ PromptSpec
<1>1. RecordInit => InferenceInit /\ BatchInit /\ CommandInit /\ PromptInit
  BY DEF RecordInit
<1> QED
  BY <1>1, StepOfParts, PTL DEF RecordSpec, InferenceSpec, BatchSpec, CommandSpec, PromptSpec

(* The types of what the agent is answered and the evaluation keeps.       *)
THEOREM RecordsAreTyped == RecordSpec => []RecordTypesOK
<1>1. InferenceTypeOK /\ BatchTypeOK /\ CommandTypeOK /\ PromptTypeOK => RecordTypesOK
  BY DEF RecordTypesOK
<1> QED
  BY <1>1, RecordsAreTheirParts, InferenceIsTyped, BatchIsTyped, CommandIsTyped, PromptIsTyped, PTL
=============================================================================

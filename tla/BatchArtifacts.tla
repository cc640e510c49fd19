--------------------------- MODULE BatchArtifacts ---------------------------
(***************************************************************************)
(* The artifacts of examples/gaia2/batch.py: one command plays the cases   *)
(* of one capability for one arm into a directory, streams a row per case, *)
(* and attests the directory once its last file is closed; a report reads  *)
(* the directories back and prints one headline, or the reasons why not.   *)
(*                                                                         *)
(* What is abstracted: what a row declares about the run that wrote it     *)
(* (clock mode, manifest digest, prompt snapshot, profile) is a member of  *)
(* Settings; a checksum is the content it was taken over, so an            *)
(* attestation is the rows and stray files it lists; a scenario's outcome  *)
(* is a choice; counters and seconds are left out.  BatchCommand.tla says  *)
(* which command lines get as far as Ask.                                  *)
(***************************************************************************)
EXTENDS Integers, Sequences, FiniteSets

CONSTANTS Place,        \* directories: [arm : {"sora","react"}, of : capability]
          Core,         \* the capabilities the headline averages over
          Cases,        \* cases of a capability, 1..Cases in manifest order
          Settings,     \* what a run can declare: [clock, manifest, prompt, profile]
          Outcome,      \* of a scenario: "pass", "miss", or "void" when it raised or was cut
          Manifest,     \* the digest of the manifest a report is given
          Unrecorded,   \* stands for an absent digest
          MaxCommands,  \* bound: batch commands
          MaxEdits      \* bound: hand edits and contamination marks

ASSUME BatchConstants ==
  /\ "pass" \in Outcome /\ Outcome \subseteq {"pass", "miss", "void"} /\ IsFiniteSet(Place)
  /\ Place \subseteq [arm : {"sora", "react"}, of : Core]
  /\ \A s \in Settings : DOMAIN s = {"clock", "manifest", "prompt", "profile"}
  /\ Cases \in Nat \ {0} /\ MaxCommands \in Nat /\ MaxEdits \in Nat

VARIABLES
  opened,    \* directories that hold an output.jsonl
  rows,      \* its rows, with the judge's recordings
  stray,     \* the directory holds a file no run of it wrote
  attested,  \* what artifacts.json covers: {} or {[rows, stray]}
  tainted,   \* directories at or below a CONTAMINATED marker
  archive,   \* contents moved aside under replaced/
  cmd,       \* the running command: [at, set, overwrite, pc]
  closed,    \* history: the rows with which the last complete run closed a directory
  commands, edits

batchVars == <<opened, rows, stray, attested, tainted, archive, cmd, closed, commands, edits>>

Idle == [pc |-> "idle"]
Empty(p) == p \notin opened /\ ~stray[p] /\ attested[p] = {}

BatchInit ==
  /\ rows = [p \in Place |-> <<>>] /\ stray = [p \in Place |-> FALSE]
  /\ attested = [p \in Place |-> {}] /\ closed = [p \in Place |-> <<>>]
  /\ opened = {} /\ tainted = {} /\ archive = {} /\ cmd = Idle /\ commands = 0 /\ edits = 0
-----------------------------------------------------------------------------
\* verify_artifact_attestation, without the wording of its reasons.
Content(p) == [rows |-> rows[p], stray |-> stray[p]]
\* Mutant: an attestation is there.
HasAttestation(p) == attested[p] # {}
Verifies(p) == attested[p] = {Content(p)}

\* Mutant: --overwrite opens whatever it finds.
WritableByForce(p, overwrite) == p \notin tainted /\ (Empty(p) \/ overwrite)

\* refuse_contaminated_root.
Writable(p, overwrite) ==
  p \notin tainted /\ (Empty(p) \/ (~Verifies(p) /\ overwrite))

Counterpart(p) == {q \in Place : q.of = p.of /\ q.arm # p.arm}

\* _verify_counterpart_pairing: only a pinned sweep checks, and only against
\* an arm that already opened its file, be it empty.
Pairs(p, s) ==
  s.manifest = Unrecorded \/
  \A q \in Counterpart(p) \cap opened :
    /\ \A i \in DOMAIN rows[q] :
         LET t == rows[q][i].set
         IN /\ t.manifest = s.manifest /\ t.clock = s.clock
            /\ s.profile = Unrecorded \/ t.profile = s.profile
    /\ {rows[q][i].case : i \in DOMAIN rows[q]} = 1..Cases /\ Len(rows[q]) = Cases

Ask(p, s, overwrite) ==
  /\ cmd = Idle /\ commands < MaxCommands
  /\ Pairs(p, s) /\ Writable(p, overwrite)
  /\ cmd' = [pc |-> "loading", at |-> p, set |-> s, overwrite |-> overwrite]
  /\ commands' = commands + 1
  /\ UNCHANGED <<opened, rows, stray, attested, tainted, archive, closed, edits>>

\* The scenarios are loaded: the guard is repeated, leftovers move aside and
\* the output files are opened.
Open ==
  LET p == cmd.at
  IN /\ cmd.pc = "loading" /\ Writable(p, cmd.overwrite)
     /\ archive' = archive \cup (IF Empty(p) THEN {} ELSE {Content(p)})
     /\ opened' = opened \cup {p}
     /\ rows' = [rows EXCEPT ![p] = <<>>] /\ stray' = [stray EXCEPT ![p] = FALSE]
     /\ attested' = [attested EXCEPT ![p] = {}]
     /\ cmd' = [cmd EXCEPT !.pc = "playing"]
     /\ UNCHANGED <<tainted, closed, commands, edits>>

\* The loader returned no usable selection, or the repeated guard refused.
LoadFails ==
  /\ cmd.pc = "loading" /\ cmd' = Idle
  /\ UNCHANGED <<opened, rows, stray, attested, tainted, archive, closed, commands, edits>>

\* One scenario: an error of its own becomes a row and the sweep goes on.
PlayCase(outcome) ==
  LET p == cmd.at
  IN /\ cmd.pc = "playing" /\ Len(rows[p]) < Cases
     /\ rows' = [rows EXCEPT ![p] =
          Append(@, [case |-> Len(@) + 1, set |-> cmd.set, outcome |-> outcome])]
     /\ UNCHANGED <<opened, stray, attested, tainted, archive, cmd, closed, commands, edits>>

\* write_artifact_attestation, after the last file is closed.
Seal ==
  LET p == cmd.at
  IN /\ cmd.pc = "playing" /\ Len(rows[p]) = Cases
     /\ attested' = [attested EXCEPT ![p] = {Content(p)}]
     /\ closed' = [closed EXCEPT ![p] = rows[p]]
     /\ cmd' = Idle
     /\ UNCHANGED <<opened, rows, stray, tainted, archive, commands, edits>>

Abort ==
  /\ cmd.pc = "playing" /\ cmd' = Idle
  /\ UNCHANGED <<opened, rows, stray, attested, tainted, archive, closed, commands, edits>>

\* Somebody edits a directory that no command is writing.
Edit(p) ==
  /\ edits < MaxEdits /\ ~(cmd # Idle /\ cmd.pc = "playing" /\ cmd.at = p)
  /\ edits' = edits + 1
  /\ \/ \E i \in DOMAIN rows[p] :
          rows' = [rows EXCEPT ![p][i].outcome = "pass"] /\ UNCHANGED <<stray, tainted>>
     \/ rows[p] # <<>> /\ rows' = [rows EXCEPT ![p] = Tail(@)] /\ UNCHANGED <<stray, tainted>>
     \/ ~stray[p] /\ stray' = [stray EXCEPT ![p] = TRUE] /\ UNCHANGED <<rows, tainted>>
     \/ p \notin tainted /\ tainted' = tainted \cup {p} /\ UNCHANGED <<rows, stray>>
  /\ UNCHANGED <<opened, attested, archive, cmd, closed, commands>>

BatchNext ==
  \/ \E p \in Place, s \in Settings, o \in BOOLEAN : Ask(p, s, o)
  \/ Open \/ LoadFails \/ Seal \/ Abort
  \/ \E o \in Outcome : PlayCase(o)
  \/ \E p \in Place : Edit(p)

BatchSpec == BatchInit /\ [][BatchNext]_batchVars
-----------------------------------------------------------------------------
(* The report: aggregate and _headline_withheld.                           *)

\* _score_status and _is_scored: errors and cut runs are not misses.
Scored(r) == r.outcome \in {"pass", "miss"}

Distinct(p, field) == {rows[p][i].set[field] : i \in DOMAIN rows[p]}

\* _pass_at_1 as a fraction; <<>> when nothing scored or the rows are mixed.
PassAt1(p) ==
  LET scored == {i \in DOMAIN rows[p] : Scored(rows[p][i])}
      passed == {i \in scored : rows[p][i].outcome = "pass"}
  IN IF scored = {} \/ Cardinality(Distinct(p, "clock")) > 1
        \/ Cardinality(Distinct(p, "manifest")) > 1
     THEN <<>> ELSE <<Cardinality(passed), Cardinality(scored)>>

Reported(arm) == {p \in Place : p.arm = arm /\ p.of \in Core /\ rows[p] # <<>>}
Promoted(arm, field) == UNION {Distinct(p, field) : p \in Reported(arm)}

Covered(p) == {rows[p][i].case : i \in {k \in DOMAIN rows[p] : Scored(rows[p][k])}}

\* A prompt digest is only expected of the arm that reads the prompts.
Withheld(arm) ==
  \/ {p.of : p \in Reported(arm)} # Core
  \/ \E p \in Reported(arm) : PassAt1(p) = <<>> \/ ~Verifies(p) \/ Covered(p) # 1..Cases
  \/ Cardinality(Promoted(arm, "clock")) > 1
  \/ arm = "sora" /\ (Unrecorded \in Promoted(arm, "prompt")
                      \/ Cardinality(Promoted(arm, "prompt")) > 1)
  \/ Promoted(arm, "manifest") # {Manifest}
-----------------------------------------------------------------------------
Row == [case : 1..Cases, set : Settings, outcome : Outcome]

BatchTypeOK ==
  /\ rows \in [Place -> Seq(Row)]
  /\ stray \in [Place -> BOOLEAN] /\ tainted \subseteq Place /\ opened \subseteq Place
  /\ \A p \in Place : Cardinality(attested[p]) <= 1
  /\ cmd # Idle => cmd.pc \in {"loading", "playing"} /\ cmd.at \in Place
  /\ commands \in 0..MaxCommands /\ edits \in 0..MaxEdits

(* A headline, when one is printed, is a mean over what one complete,      *)
(* unaltered run per capability closed, all under one clock, one manifest  *)
(* and one rendering of the prompts: re-runs, aborts, hand edits and       *)
(* archived leftovers in any order never add up to one.                    *)
HeadlineIsOneSweep ==
  \A arm \in {"sora", "react"} :
    ~Withheld(arm) =>
      \A p, q \in {x \in Place : x.arm = arm} :
        /\ closed[p] = rows[p] /\ Len(rows[p]) = Cases /\ \A i \in 1..Cases : Scored(rows[p][i])
        /\ \A i, k \in 1..Cases :
             /\ rows[p][i].set.clock = rows[q][k].set.clock
             /\ rows[p][i].set.manifest = rows[q][k].set.manifest
             /\ arm = "sora" => rows[p][i].set.prompt = rows[q][k].set.prompt

(* No command destroys paid artifacts: what a directory held is still in   *)
(* it or was moved aside, and a directory that verifies is never reopened. *)
NothingPaidIsLost ==
  [][\A p \in Place :
       edits' = edits /\ rows[p] # <<>> /\ rows'[p] # rows[p] =>
         \/ Len(rows[p]) < Len(rows'[p]) /\ rows[p] = SubSeq(rows'[p], 1, Len(rows[p]))
         \/ ~Verifies(p) /\ Content(p) \in archive']_batchVars
=============================================================================

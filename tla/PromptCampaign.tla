--------------------------- MODULE PromptCampaign ---------------------------
(***************************************************************************)
(* The prompt campaign of examples/gaia2/evaluation: `run` plays a matrix  *)
(* of entries for one arm, appends a record of each to checkpoint.jsonl,   *)
(* and is resumed from that file after it died; `report` pairs the records *)
(* of the two arms.  The file is the only budget ledger there is.          *)
(*                                                                         *)
(* What is abstracted: money is counted in units; an entry is a Gaia run   *)
(* (the offline suites cost nothing and cannot fail the budget); the       *)
(* contents of a record are the fields the ledger and the report read; the *)
(* prompts and the judge a process finds when it starts are one value of   *)
(* Pins each, and editing the files does not reach a running process.      *)
(***************************************************************************)
EXTENDS Integers, Sequences, FiniteSetsExt

CONSTANTS Entries,      \* matrix entries of an arm, 1..Entries in matrix order
          Reserve,      \* unknown_gaia_agent_reserve
          JudgeReserve, \* unknown_gaia_judge_reserve
          Costs,        \* what a run's calls can turn out to cost
          MaxSpend,     \* --max-total-spend
          MaxGaiaRuns,  \* --max-gaia-runs
          Pins,         \* renderings of the prompts, versions of judge.json
          Unknown,      \* the cost of a run whose provider reported no usage
          MaxStarts   \* bound: run commands

ASSUME CampaignBudget ==
  /\ Entries \in Nat \ {0} /\ Reserve \in Nat /\ JudgeReserve \in Nat /\ Costs \subseteq Nat
  /\ MaxSpend \in Nat /\ MaxGaiaRuns \in Nat /\ Unknown \notin Nat /\ MaxStarts \in Nat

VARIABLES
  ledger,    \* checkpoint.jsonl of an arm's output directory
  tail,      \* how an arm's file ends: "ended", or "open" when a crash cut the
             \* newline of the last record; "torn" once a line no longer parses
  live,      \* the prompts and the judge profile on disk
  run,       \* the running command
  started    \* commands so far

promptVars == <<ledger, tail, live, run, started>>

Arm == {"baseline", "candidate"}
Quiet == [pc |-> "idle"]

PromptInit ==
  /\ ledger = [a \in Arm |-> <<>>] /\ tail = [a \in Arm |-> "ended"]
  /\ live \in [prompts : Pins, judge : Pins]
  /\ run = Quiet /\ started = 0
-----------------------------------------------------------------------------
\* EvaluationRecord.accounted_agent_cost and the judge's reserve beside it.
Accounted(r) == (IF r.cost = Unknown THEN Reserve ELSE r.cost) + JudgeReserve
Spent(log) ==
  LET paid[n \in 0..Len(log)] == IF n = 0 THEN 0 ELSE paid[n - 1] + Accounted(log[n])
  IN paid[Len(log)]

\* Mutant: an entry whose cost is unknown is played again.
CompletedIfPriced(log) ==
  {log[i].entry : i \in {k \in DOMAIN log : log[k].evaluable /\ log[k].cost # Unknown}}

\* A truncated or unscored trajectory does not complete its entry.
Completed(log) == {log[i].entry : i \in {k \in DOMAIN log : log[k].evaluable}}
Remaining(done) == (1..Entries) \ done
Reserved(done) == Cardinality(Remaining(done)) * (Reserve + JudgeReserve)

\* build_run_matrix: every earlier record counts, also one that completes nothing.
WithinPolicy(log) ==
  /\ Len(log) + Cardinality(Remaining(Completed(log))) <= MaxGaiaRuns
  /\ Spent(log) + Reserved(Completed(log)) <= MaxSpend

\* _run_command up to the first entry, every refusal of it.
Start(a, snapshot) ==
  /\ run = Quiet /\ started < MaxStarts
  /\ snapshot = live.prompts                       \* verify_live_prompts
  /\ tail[a] # "torn"                              \* the checkpoint still parses
  /\ \A i \in DOMAIN ledger[a] : ledger[a][i].judge = live.judge
                                 /\ ledger[a][i].prompts = snapshot
  /\ WithinPolicy(ledger[a])
  /\ run' = [pc |-> "next", arm |-> a, done |-> Completed(ledger[a]), pins |-> live]
  /\ started' = started + 1
  /\ UNCHANGED <<ledger, tail, live>>

\* The next entry that is not completed is played, if the actual costs so far
\* still leave the reserves of everything that remains.
PlayEntry(evaluable, cost) ==
  LET entry == CHOOSE e \in Remaining(run.done) : \A f \in Remaining(run.done) : e <= f
  IN /\ run.pc = "next" /\ Remaining(run.done) # {}
     /\ Spent(ledger[run.arm]) + Reserved(run.done) <= MaxSpend
     /\ run' = [pc |-> "append", arm |-> run.arm, done |-> run.done, pins |-> run.pins,
                record |-> [entry |-> entry, evaluable |-> evaluable, cost |-> cost,
                            prompts |-> run.pins.prompts, judge |-> run.pins.judge]]
     /\ UNCHANGED <<ledger, tail, live, started>>

\* The record goes to the end of the file, where it joins a record whose newline
\* is missing on one line that does not parse; the process keeps both in mind.
Written(end) ==
  /\ ledger' = [ledger EXCEPT ![run.arm] = Append(@, run.record)]
  /\ tail' = [tail EXCEPT ![run.arm] = IF @ = "ended" THEN end ELSE "torn"]

\* In this process the entry counts as completed however it ended.
AppendRecord ==
  /\ run.pc = "append" /\ Written("ended")
  /\ run' = [pc |-> "next", arm |-> run.arm, pins |-> run.pins,
             done |-> run.done \cup {run.record.entry}]
  /\ UNCHANGED <<live, started>>

\* The matrix is finished, or the remaining budget no longer covers it.
RunEnds ==
  /\ run.pc = "next"
  /\ Remaining(run.done) = {} \/ Spent(ledger[run.arm]) + Reserved(run.done) > MaxSpend
  /\ run' = Quiet /\ UNCHANGED <<ledger, tail, live, started>>

\* While it appends, the crash may cut the record, or only its newline.
RunDies ==
  /\ run # Quiet /\ run' = Quiet /\ UNCHANGED <<live, started>>
  /\ \/ UNCHANGED <<ledger, tail>>
     \/ run.pc = "append" /\ tail' = [tail EXCEPT ![run.arm] = "torn"] /\ UNCHANGED ledger
     \/ run.pc = "append" /\ Written("open")

\* Somebody edits a prompt or judge.json; a running process has loaded both.
EditPins == live' \in [prompts : Pins, judge : Pins] /\ UNCHANGED <<ledger, tail, run, started>>

PromptNext ==
  \/ \E a \in Arm, s \in Pins : Start(a, s)
  \/ \E e \in BOOLEAN, c \in Costs \cup {Unknown} : PlayEntry(e, c)
  \/ AppendRecord \/ RunEnds \/ RunDies \/ EditPins

PromptSpec == PromptInit /\ [][PromptNext]_promptVars
-----------------------------------------------------------------------------
(* The report over the two ledgers.                                        *)

\* _paired_runs: of several records of one entry the last one counts.
LastRecord(a, entry) ==
  LET at == {i \in DOMAIN ledger[a] : ledger[a][i].entry = entry}
  IN IF at = {} THEN {} ELSE {ledger[a][Max(at)]}

\* Pairs with a score on both sides (_quality_score, _cluster_pairs).
Scores == {e \in 1..Entries : \A a \in Arm : \E r \in LastRecord(a, e) : r.evaluable}

\* _paired_comparison_withheld, told which snapshot each arm was to run.
WithheldFor(expected) ==
  \E a \in Arm : \E i \in DOMAIN ledger[a] : ledger[a][i].prompts # expected[a]

\* A ledger that does not parse stops the report.
Printed(expected) ==
  (\A a \in Arm : tail[a] # "torn") /\ Scores # {} /\ ~WithheldFor(expected)
-----------------------------------------------------------------------------
Record == [entry : 1..Entries, evaluable : BOOLEAN, cost : Costs \cup {Unknown},
           prompts : Pins, judge : Pins]

PromptTypeOK ==
  /\ ledger \in [Arm -> Seq(Record)] /\ tail \in [Arm -> {"ended", "open", "torn"}]
  /\ live \in [prompts : Pins, judge : Pins] /\ started \in 0..MaxStarts
  /\ run # Quiet => run.pc \in {"next", "append"} /\ run.arm \in Arm /\ run.done \subseteq 1..Entries

\* Every run that was paid for was started while its reserve still fitted under
\* the ceiling, and no entry is paid for again after a record that completed it.
WithinBudget(log) ==
  /\ Len(log) <= MaxGaiaRuns
  /\ \A i \in DOMAIN log : Spent(SubSeq(log, 1, i - 1)) + Reserve + JudgeReserve <= MaxSpend
  /\ \A i, k \in DOMAIN log : i < k /\ log[i].evaluable => log[k].entry # log[i].entry

OnePin(log) ==
  \A i, k \in DOMAIN log : log[i].prompts = log[k].prompts /\ log[i].judge = log[k].judge

(* However often a campaign is killed and resumed, its ledger stays within *)
(* the budget and never holds two renderings of the prompts or two judges, *)
(* also when the files change between and during its commands; so a delta  *)
(* that is printed is one prompt change, and it misses no entry that both  *)
(* arms completed.                                                         *)
LedgerHolds ==
  /\ \A a \in Arm : WithinBudget(ledger[a]) /\ OnePin(ledger[a])
  /\ \A expected \in [Arm -> Pins] :
       Printed(expected) => Scores = Completed(ledger["baseline"]) \cap Completed(ledger["candidate"])
=============================================================================

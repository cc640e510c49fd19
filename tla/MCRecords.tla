------------------------------ MODULE MCRecords ------------------------------
(***************************************************************************)
(* What the agent is answered and what the evaluation keeps of it, each on *)
(* a small instance: inferences and their meter, the artifacts of a batch, *)
(* the command that opens one and the ledger of the prompt campaign.  They *)
(* share no state; a behaviour moves the part that `part` names.           *)
(***************************************************************************)
EXTENDS Inference, BatchArtifacts, BatchCommand, PromptCampaign

VARIABLE part

recordVars == <<inferenceVars, batchVars, commandVars, promptVars, part>>

Directories == {[arm |-> "sora", of |-> "c1"], [arm |-> "sora", of |-> "c2"],
                [arm |-> "react", of |-> "c1"]}
Sweep == [clock |-> "free", manifest |-> "m", prompt |-> "p1", profile |-> "f1"]
Sweeps == {Sweep, [Sweep EXCEPT !.clock = "charged"], [Sweep EXCEPT !.prompt = "p2"]}
PointOfProfile == [p \in Profiles |-> IF p = "f1" THEN "a" ELSE "b"]

\* Answers whose lists are complete, repeat an index, or name a stray (2 is not
\* among the two elements supplied), and answers that are no list or no JSON.
Say(form, items) == [read |-> "clean", form |-> form, items |-> items]
Junk == [read |-> "junk", form |-> "list", items |-> <<>>]
Mended == [read |-> "mended", form |-> "list", items |-> <<0, 0>>]
Said == [plan |-> {Say("list", <<0>>), Say("list", <<2>>), Junk},
         ground |-> {Mended, Say("list", <<0>>), Say("gap", <<>>), Say("no", <<>>)},
         select |-> {Mended, Say("gap", <<>>), Say("no", <<>>)},
         revalidate |-> {Say("yes", <<>>), Say("no", <<>>), Junk},
         condition |-> {Mended, Say("list", <<1, 2>>), Junk},
         retirement |-> {Say("list", <<1>>)},
         relevance |-> {Say("yes", <<1>>), Say("yes", <<2>>)}]
Seen == [input |-> 2, cached |-> 1, output |-> 3, answer |-> 1, reasoning |-> Silent]
Unseen == [input |-> 1, cached |-> Silent, output |-> 1, answer |-> 2, reasoning |-> 1]
Usage == [k \in DOMAIN Said |-> IF k \in {"retirement", "relevance"} THEN {Unseen} ELSE {Seen}]

RecordInit ==
  /\ part \in {"inference", "artifacts", "command", "prompts"}
  /\ InferenceInit /\ BatchInit /\ CommandInit /\ PromptInit
  /\ live = [prompts |-> "p1", judge |-> "p1"]
  /\ part # "inference" => governed

\* Every part but p stays as it is.
Still(p) ==
  /\ part = p /\ UNCHANGED part
  /\ p # "inference" => UNCHANGED inferenceVars
  /\ p # "artifacts" => UNCHANGED batchVars
  /\ p # "command" => UNCHANGED commandVars
  /\ p # "prompts" => UNCHANGED promptVars

RecordNext ==
  \/ Still("inference") /\ InferenceNext
  \/ Still("artifacts") /\ BatchNext
  \/ Still("command") /\ CommandNext
  \/ Still("prompts") /\ PromptNext
RecordSpec == RecordInit /\ [][RecordNext]_recordVars

RecordTypesOK ==
  /\ InferenceTypeOK /\ BatchTypeOK /\ CommandTypeOK /\ PromptTypeOK
=============================================================================

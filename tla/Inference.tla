----------------------------- MODULE Inference -----------------------------
(***************************************************************************)
(* What the agent asks a language model off the cycle, how an answer is    *)
(* read, what Observe does with it, and what the run's meter says it cost. *)
(* One activity deliberates, one inference after another; a judgement of   *)
(* retirement or relevance runs in the background under no inference id.   *)
(*                                                                         *)
(* What is abstracted: a prompt is its kind; an answer is whether its JSON *)
(* could be read and the one field its kind asks for; time is whether the  *)
(* watchdog's deadline has passed; a token count is a small number.        *)
(***************************************************************************)
EXTENDS Integers, Sequences, FiniteSets, SequencesExt

CONSTANTS MaxInferences, \* bound: inferences of the activity
          Supplied,      \* elements, conditions or episodes in a question
          Answers,       \* to each kind, [read, form, items]; a number >= Supplied is a stray
          Reports,       \* what a provider reports as usage, for each kind
          Silent,        \* a figure or a report that was not given
          Nothing        \* no inference, no answer, no ruling

Activities == {"plan", "ground", "select", "revalidate", "condition"}
Judgements == {"retirement", "relevance"}
Kinds == Activities \cup Judgements
Answer == [read : {"clean", "mended", "junk"}, form : {"list", "gap", "yes", "no"}, items : Seq(Nat)]
Tokens == Nat \cup {Silent}
LLMUsage == [input : Nat, cached : Tokens, output : Nat, answer : Nat, reasoning : Tokens]

ASSUME InferenceConstants ==
  /\ MaxInferences \in Nat \ {0} /\ Supplied \in Nat \ {0}
  /\ Nothing \notin Nat \cup Answer /\ Silent \notin Nat \cup LLMUsage
  /\ \A kind \in Kinds : Answers[kind] \subseteq Answer /\ Reports[kind] \subseteq LLMUsage \cup {Silent}

VARIABLES
  mind,     \* the activity: its state, its pending inference, its plan
  inquiry,  \* each question: its kind, the answer it got, the ruling it led to
  results,  \* the inference sink
  meter,    \* LLMMeter: totals, rows, partial costs by inference, waste
  governed  \* the plan asked for is the child of a step with conditions of its own

inferenceVars == <<mind, inquiry, results, meter, governed>>
-----------------------------------------------------------------------------
Infs == 1..MaxInferences
Background == 0
Questions == Infs \cup {Background}

\* The indices a list names: strays are dropped, a repeated index is repaired.
Strays(l) == Cardinality({n \in DOMAIN l : l[n] >= Supplied})
Indices(l) == FoldLeft(LAMBDA out, n : IF n >= Supplied \/ n \in ToSet(out) THEN out ELSE Append(out, n), <<>>, l)
Repeats(l) == Cardinality({n \in DOMAIN l : l[n] < Supplied /\ \E m \in 1..(n - 1) : l[m] = l[n]})

Reading(is, value, dropped, repaired) ==
  [is |-> is, value |-> value, dropped |-> dropped, repaired |-> repaired]
Unread == Reading("error", Nothing, 0, 0)
Unresolvable == Reading("unresolvable", Nothing, 0, 0)
ListOf(a) == Reading("value", Indices(a.items), Strays(a.items), Repeats(a.items))

\* Steps and the conditions they declare; a stray is an unusable condition, and
\* a nested plan may declare none.
ParsePlan(a, nested) ==
  LET plan == Reading("value", Indices(a.items), Strays(a.items), 0)
  IN IF a.form # "list" \/ (nested /\ plan.value # <<>>) THEN Unread ELSE plan

\* Grounded parameters, which must not be fewer than the step supplied.
ParseParams(a) ==
  CASE a.form = "gap" -> Unresolvable
    [] a.form = "list" -> IF Len(a.items) < Supplied THEN Unresolvable ELSE Reading("value", a.items, 0, 0)
    [] OTHER -> Unread

ParseKeep(a) ==
  CASE a.form = "gap" -> Unresolvable [] a.form = "list" -> ListOf(a) [] OTHER -> Unread

\* A verdict that cannot be read keeps the plan; one of the wrong type is truthy.
ParseVerdict(a) ==
  CASE a.form = "yes" -> Reading("value", TRUE, 0, 0)
    [] a.form = "no" -> Reading("value", FALSE, 0, 0)
    [] a.form = "list" -> Reading("value", a.items # <<>>, 0, 1)
    [] OTHER -> Reading("value", TRUE, 1, 0)

Verdict(fired, failed) == [fired |-> fired, failed |-> failed]
\* Mutant: the entries that resolve are believed.
ParseFired(a) ==
  IF a.form # "list" THEN Reading("value", Verdict(<<>>, TRUE), 1, 0)
  ELSE [ListOf(a) EXCEPT !.value = Verdict(@, FALSE)]

ParseConditionVerdict(a) ==
  IF a.form # "list" THEN Reading("value", Verdict(<<>>, TRUE), 1, 0)
  ELSE [ListOf(a) EXCEPT !.value = Verdict(@, Strays(a.items) > 0)]

ParseRetirement(a) == IF a.form = "list" THEN ListOf(a) ELSE Reading("value", <<>>, 1, 0)

ParseRelevance(a) ==
  IF a.form = "yes" /\ Len(a.items) = 1 /\ Strays(a.items) = 0 THEN Reading("value", a.items[1], 0, 0)
  ELSE Reading("value", Nothing, IF a.form = "no" THEN 0 ELSE 1, 0)

Parsed(kind, a, nested) ==
  CASE kind = "plan" -> ParsePlan(a, nested)
    [] kind = "ground" -> ParseParams(a)
    [] kind = "select" -> ParseKeep(a)
    [] kind = "revalidate" -> ParseVerdict(a)
    [] kind = "condition" -> ParseConditionVerdict(a)
    [] kind = "retirement" -> ParseRetirement(a)
    [] OTHER -> ParseRelevance(a)

\* The JSON first: as it stands, mended by dropping what cannot be meant, or
\* beyond repair, where each parser has its own reading of nothing.
Read(kind, a, nested) ==
  CASE a.read = "clean" -> Parsed(kind, a, nested)
    [] a.read = "mended" -> LET r == Parsed(kind, a, nested) IN [r EXCEPT !.repaired = @ + 1]
    [] a.read = "junk" -> IF kind = "condition" THEN Reading("value", Verdict(<<>>, TRUE), 2, 0)
                          ELSE Parsed(kind, [a EXCEPT !.form = "none"], nested)
-----------------------------------------------------------------------------
\* LLMMeter.
Zero == [calls |-> 0, input |-> 0, output |-> 0, cached |-> 0, observed |-> 0, unknown |-> 0,
         thinking |-> 0, dropped |-> 0, repaired |-> 0, unparsed |-> 0]
Plus(r, d) == [f \in DOMAIN r |-> r[f] + d[f]]
Told(n) == IF n = Silent THEN 0 ELSE n
Thinking(u) ==
  IF u.reasoning # Silent THEN u.reasoning ELSE IF u.output > u.answer THEN u.output - u.answer ELSE 0

\* One crossing: a done record, a usage record if the provider reported usage.
Crossing(u) ==
  IF u = Silent THEN [Zero EXCEPT !.calls = 1]
  ELSE [Zero EXCEPT !.calls = 1, !.input = u.input, !.output = u.output,
          !.cached = Told(u.cached), !.thinking = Thinking(u),
          !.observed = IF u.cached = Silent THEN 0 ELSE u.input,
          !.unknown = IF u.cached = Silent THEN u.input ELSE 0]

Cost(e) == [calls |-> e.calls, input |-> e.input, output |-> e.output]
Metered(i, e) ==
  meter' = [meter EXCEPT !.total = Plus(@, e), !.rows[i] = Plus(@, e),
               !.partial = IF i = Background THEN @
                           ELSE [j \in DOMAIN @ \cup {i} |->
                                   IF j # i THEN @[j] ELSE IF i \in DOMAIN @ THEN Plus(@[i], Cost(e)) ELSE Cost(e)]]

\* log_llm_outcome keeps the first; log_llm_discarded moves a cost to the waste.
LogOutcome(l, i, is) == [l EXCEPT !.outcome[i] = IF @ = Nothing THEN is ELSE @]
LogDiscarded(l, i) ==
  [l EXCEPT !.discarded = @ \cup {i},
            !.wasted = IF i \in DOMAIN l.partial THEN Plus(@, l.partial[i]) ELSE @,
            !.partial = [j \in DOMAIN @ \ {i} |-> @[j]]]
-----------------------------------------------------------------------------
Push(i, is, value) == results' = Append(results, [of |-> i, is |-> is, value |-> value])

\* The internal actions that fire an inference: pending, running, in flight.
Infer(i, kind) ==
  /\ mind.state = "ready" /\ inquiry[i].at = "idle" /\ \A j \in 1..(i - 1) : inquiry[j].at # "idle"
  /\ kind # "plan" => mind.plan
  /\ mind' = [mind EXCEPT !.state = "running", !.pending = i]
  /\ inquiry' = [inquiry EXCEPT ![i].at = "flight", ![i].kind = kind]
  /\ UNCHANGED <<results, meter, governed>>

Judge(kind) ==
  /\ inquiry[Background].at = "idle"
  /\ inquiry' = [inquiry EXCEPT ![Background].at = "flight", ![Background].kind = kind]
  /\ UNCHANGED <<mind, results, meter, governed>>

\* A finished call: off the cycle it is queued for Observe, a judgement rules.
Finish(i, a, is, value) ==
  /\ inquiry' = [inquiry EXCEPT ![i].at = "over", ![i].answer = a,
                            ![i].ruling = IF i = Background /\ is = "value" THEN value ELSE @]
  /\ IF i = Background THEN UNCHANGED results ELSE Push(i, is, value)

\* The client raised: a refused call never crossed, a failed one was timed.
Raises(i, refused) ==
  /\ inquiry[i].at \in {"flight", "repair"} /\ (refused => inquiry[i].at = "flight")
  /\ Finish(i, Nothing, "error", Nothing)
  /\ IF refused THEN UNCHANGED meter ELSE Metered(i, Crossing(Silent))
  /\ UNCHANGED <<mind, governed>>

\* An answer is read; a plan that cannot be is asked for once more.
Replies(i) ==
  /\ inquiry[i].at \in {"flight", "repair"}
  /\ \E a \in Answers[inquiry[i].kind], u \in Reports[inquiry[i].kind] :
     LET kind == inquiry[i].kind
         again == inquiry[i].at = "repair"
         r == Read(kind, a, governed)
         failed == r.is = "error" /\ (kind = "plan" => again)
         mended == again /\ r.is = "value"
     IN /\ IF kind = "plan" /\ r.is = "error" /\ ~again
           THEN inquiry' = [inquiry EXCEPT ![i].at = "repair"] /\ UNCHANGED results
           ELSE Finish(i, a, r.is, r.value)
        /\ Metered(i, [Crossing(u) EXCEPT !.dropped = r.dropped,
                         !.repaired = r.repaired + IF mended THEN 1 ELSE 0,
                         !.unparsed = IF failed THEN 1 ELSE 0])
  /\ UNCHANGED <<mind, governed>>

Overdue(i) ==
  /\ mind.pending = i /\ ~inquiry[i].late
  /\ inquiry' = [inquiry EXCEPT ![i].late = TRUE] /\ UNCHANGED <<mind, results, meter, governed>>

\* Mutant: the deliberation is dropped but still awaited.
InterruptedStillPending ==
  /\ mind.state = "running" /\ mind' = [mind EXCEPT !.state = "ready", !.plan = FALSE]
  /\ UNCHANGED <<inquiry, results, meter, governed>>

\* An interrupt or an attention-moving message drops plan and deliberation.
Interrupted ==
  /\ mind.state = "running"
  /\ mind' = [mind EXCEPT !.state = "ready", !.pending = Nothing, !.plan = FALSE]
  /\ UNCHANGED <<inquiry, results, meter, governed>>
-----------------------------------------------------------------------------
\* What a result does to the activity it resolves.
Ruling(kind, res) ==
  IF res.is = "value" THEN res.value
  ELSE CASE kind = "select" /\ res.is = "error" -> <<>>
         [] kind = "condition" -> Verdict(<<>>, TRUE)
         [] kind = "revalidate" -> TRUE
         [] OTHER -> Nothing
Replans(kind, res) ==
  \/ res.is = "unresolvable"
  \/ res.is = "error" /\ kind \in {"plan", "ground"}
  \/ kind = "revalidate" /\ Ruling(kind, res) = FALSE

Resolve(s, res) ==
  IF s.mind.pending # res.of
  THEN [s EXCEPT !.meter = LogDiscarded(s.meter, res.of)]
  ELSE LET kind == s.inquiry[res.of].kind
       IN [mind |-> [state |-> "ready", pending |-> Nothing,
                     plan |-> IF Replans(kind, res) THEN FALSE ELSE s.mind.plan \/ kind = "plan"],
           inquiry |-> [s.inquiry EXCEPT ![res.of].ruling = Ruling(kind, res)],
           meter |-> LogOutcome(s.meter, res.of, res.is)]

\* Mutant: the watchdog does not look at the queue.
QueueLate ==
  LET i == mind.pending
  IN IF i # Nothing /\ inquiry[i].late
     THEN Append(results, [of |-> i, is |-> "error", value |-> Nothing]) ELSE results

\* The watchdog speaks for an inference only when no result is queued for it.
Queue ==
  LET i == mind.pending
  IN IF i # Nothing /\ inquiry[i].late /\ (\A n \in DOMAIN results : results[n].of # i)
     THEN Append(results, [of |-> i, is |-> "error", value |-> Nothing]) ELSE results

\* The results of a queue, applied one after another.
Resolved(queue) ==
  LET after[n \in 0..Len(queue)] ==
        IF n = 0 THEN [mind |-> mind, inquiry |-> inquiry, meter |-> meter]
        ELSE Resolve(after[n - 1], queue[n])
  IN after[Len(queue)]

ObserveInferences ==
  /\ Queue # <<>>
  /\ LET s == Resolved(Queue) IN mind' = s.mind /\ inquiry' = s.inquiry /\ meter' = s.meter
  /\ results' = <<>> /\ UNCHANGED governed
-----------------------------------------------------------------------------
InferenceInit ==
  /\ mind = [state |-> "ready", pending |-> Nothing, plan |-> TRUE]
  /\ inquiry = [i \in Questions |->
       [at |-> "idle", kind |-> Nothing, late |-> FALSE, answer |-> Nothing, ruling |-> Nothing]]
  /\ results = <<>> /\ governed \in BOOLEAN
  /\ meter = [total |-> Zero, rows |-> [i \in Questions |-> Zero], partial |-> <<>>,
               wasted |-> Cost(Zero), discarded |-> {}, outcome |-> [i \in Questions |-> Nothing]]

InferenceNext ==
  \/ \E i \in Infs : Overdue(i) \/ \E kind \in Activities : Infer(i, kind)
  \/ \E kind \in Judgements : Judge(kind)
  \/ \E i \in Questions : Replies(i) \/ \E refused \in BOOLEAN : Raises(i, refused)
  \/ Interrupted \/ ObserveInferences
InferenceSpec == InferenceInit /\ [][InferenceNext]_inferenceVars
-----------------------------------------------------------------------------
InferenceTypeOK ==
  /\ mind.state \in {"ready", "running"} /\ mind.pending \in Infs \cup {Nothing}
  /\ mind.state = "running" <=> mind.pending # Nothing
  /\ \A i \in Questions : inquiry[i].at \in {"idle", "flight", "repair", "over"}
  /\ DOMAIN meter.partial \subseteq Infs /\ \A n \in DOMAIN results : results[n].of \in Infs

(* The meter's waste is what was paid for and not used: an inference is    *)
(* wasted only if no result of it was, whichever of the watchdog, an       *)
(* interrupt and the provider came first, its whole cost is then in the    *)
(* waste, and the totals are the sums of the rows.                         *)
Sum(rows) ==
  LET upTo[n \in 0..MaxInferences] == IF n = 0 THEN rows[Background] ELSE Plus(upTo[n - 1], rows[n])
  IN upTo[MaxInferences]
WasteIsUnused ==
  /\ \A i \in meter.discarded : meter.outcome[i] \in {Nothing, "error"}
  /\ meter.wasted = Cost(Sum([i \in Questions |-> IF i \in meter.discarded THEN meter.rows[i] ELSE Zero]))
  /\ meter.total = Sum(meter.rows)

(* An answer that could not be read whole, or that never came, authorizes  *)
(* nothing: the branch for "nothing fired", a replan, a write with         *)
(* grounded values and a question to the user each need an answer of that  *)
(* inference which says so in every entry.  (That a late answer is not     *)
(* used is in WasteIsUnused.)                                              *)
Whole(a) == a # Nothing /\ a.read # "junk"
UnreadAnswersAuthorizeNothing ==
  \A i \in Questions :
    LET kind == inquiry[i].kind
        a == inquiry[i].answer
        r == inquiry[i].ruling
    IN r # Nothing =>
         /\ kind = "condition" /\ ~r.failed => Whole(a) /\ a.form = "list" /\ Strays(a.items) = 0
         /\ kind = "revalidate" /\ r = FALSE => Whole(a) /\ a.form \in {"no", "list"}
         /\ kind = "ground" => Whole(a) /\ Len(r) >= Supplied
         /\ kind = "relevance" => Whole(a) /\ r < Supplied
         /\ kind = "plan" => Whole(a) /\ (governed => r = <<>>)
=============================================================================

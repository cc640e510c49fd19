----------------------------- MODULE Perception -----------------------------
(***************************************************************************)
(* What the agent sees, and when it must look again before it acts.        *)
(* Observe reconciles attention with the joined tools, takes a snapshot of *)
(* their properties, drains their signals, and derives the changes nobody  *)
(* announced.  An activity's plan is anchored to the perception it was     *)
(* made in; before a step that the policy guards, Reason compares the two. *)
(*                                                                         *)
(* What is abstracted: a tool has one property whose value is a version;   *)
(* a change has no path but its tool; messages, which the signature also   *)
(* counts, are left out; one activity plans and acts, the attention steps  *)
(* are another's.                                                          *)
(***************************************************************************)
EXTENDS Integers, Sequences, FiniteSets, SequencesExt

CONSTANTS Tools,     \* tools of the workspaces that may be joined
          Startup,   \* what may be joined at startup, a set of sets of tools
          Named,     \* the tools the activity's plans refer to
          Policies,  \* context_adaptation settings
          Retention, \* the caps, _SIGNAL_RETENTION and _DERIVED_RETENTION, as one
          MaxMoves,  \* bound: changes of the world that are not the agent's
          MaxVoices, \* bound: signals that report no change
          MaxSteps,  \* bound: external steps of the activity
          MaxShifts, \* bound: focus, unfocus, join and leave steps
          None       \* no anchor, no scope, no verdict, no reply

Cursors == Nat \X Nat
Kinds == {"write", "read", "unknown"}
Step == [tool : Tools, kind : Kinds]

ASSUME PerceptionConstants ==
  /\ IsFiniteSet(Tools) /\ Named \subseteq Tools /\ Startup \subseteq SUBSET Tools
  /\ Retention \in Nat \ {0}
  /\ None \notin (UNION {[S -> Nat] : S \in SUBSET Tools}) \X Nat
  /\ None \notin Cursors \cup Step \cup BOOLEAN

VARIABLES
  world,  \* the value of every tool's property, the tools moved and not yet seen
  sink,   \* pushed signals: their tool, whether they tell of a change, whose
  attn,   \* joined, focused and suppressed tools
  view,   \* properties, property_baseline, the two logs and what they evicted
  act,    \* the activity, its plan's anchor and its pending work
  mode,   \* the policy, the focus policy, the bounds used up, the cycle's phase
  due     \* ghost: seen changes the plan was not judged against, and the last commit

perceptionVars == <<world, sink, attn, view, act, mode, due>>
-----------------------------------------------------------------------------
Signature(v) == <<v.props, Len(v.signals)>>
Cursor(v) == <<v.signalsGone + Len(v.signals), v.changesGone + Len(v.changes)>>
Larger(m, n) == IF m > n THEN m ELSE n
Sources(S) == {s.source : s \in S}
Sunk == {sink[i] : i \in 1..Len(sink)}
NothingDue == [state |-> {}, voice |-> {}, commit |-> None]
Used(bound) == [mode EXCEPT ![bound] = @ + 1]
-----------------------------------------------------------------------------
\* The world, at any moment.  Only a focused tool pushes signals.
PushSignal(t, change, own) ==
  sink' = IF t \in attn.focused THEN Append(sink, [source |-> t, change |-> change, own |-> own]) ELSE sink

WorldMoves(t) ==
  /\ mode.moves < MaxMoves /\ mode' = Used("moves")
  /\ world' = [world EXCEPT !.value[t] = @ + 1, !.foreign = @ \cup {t}]
  /\ PushSignal(t, TRUE, FALSE) \/ UNCHANGED sink
  /\ UNCHANGED <<attn, view, act, due>>

Speaks(t) ==
  /\ mode.voices < MaxVoices /\ mode' = Used("voices")
  /\ t \in attn.focused /\ PushSignal(t, FALSE, FALSE)
  /\ UNCHANGED <<world, attn, view, act, due>>

\* The effect of an operation, announced or not, and its acknowledgement.
StepLands ==
  /\ act.at = "acting" /\ act.step.kind # "read" /\ ~act.landed
  /\ world' = [world EXCEPT !.value[act.step.tool] = @ + 1]
  /\ PushSignal(act.step.tool, TRUE, TRUE) \/ UNCHANGED sink
  /\ act' = [act EXCEPT !.landed = TRUE] /\ UNCHANGED <<attn, view, mode, due>>

\* A reply for whatever is pending: an ack, a plan or its failure, a verdict.
Answered(ok) ==
  /\ act.at \in {"acting", "planning", "checking"} /\ act.reply = None
  /\ act' = [act EXCEPT !.reply = ok] /\ UNCHANGED <<world, sink, attn, view, mode, due>>
-----------------------------------------------------------------------------
\* Observe.
Target == IF mode.narrow /\ act.plan THEN Named \cap attn.joined ELSE attn.joined
\* Mutant: the policy outranks an explicit unfocus.
AttendedByPolicy == Target
Attended == Target \ attn.suppressed
Moved == Attended # attn.focused

DeclaredWrite == act.step.kind = "write" /\ act.step.tool \in attn.joined
SignatureBeforeDrain ==
  IF act.anchor # None /\ act.at = "acting" /\ DeclaredWrite THEN Signature(view) ELSE None

SnapshotProperties == [view EXCEPT !.props = [t \in Attended |-> world.value[t]]]

\* The attention moved, not the world: every anchor is taken anew.
Rebaselined == Moved /\ act.anchor # None
Rebaseline == IF Rebaselined THEN Signature(SnapshotProperties) ELSE act.anchor

DrainSignals(v) == [v EXCEPT !.signals = @ \o [i \in 1..Len(sink) |-> sink[i].source]]

\* A tool seen for the first time has not changed; an announced change is not
\* derived again.
DerivePropertyChanges(v) ==
  LET differs == {t \in Attended \cap DOMAIN v.seen : v.seen[t] # v.props[t]}
      derived == differs \ Sources({s \in Sunk : s.change})
  IN [v EXCEPT !.changes = @ \o SetToSeq(derived),
               !.seen = [t \in DOMAIN @ \cup Attended |-> IF t \in Attended THEN v.props[t] ELSE @[t]]]

\* Mutant: everything since the anchor is taken for the own write's.
AbsorbsAll(anchor) == act.at = "acting" /\ act.reply # None /\ DeclaredWrite /\ anchor # None

\* The activity's own declared write is no news to it, when nothing had moved
\* between its anchor and this drain.
Absorbs(anchor) ==
  /\ act.at = "acting" /\ act.reply # None /\ DeclaredWrite
  /\ anchor # None /\ SignatureBeforeDrain = anchor

Ready(a) == [a EXCEPT !.at = "ready", !.step = None, !.landed = FALSE, !.reply = None, !.asked = None]
Unplanned == [at |-> "ready", step |-> None, landed |-> FALSE, reply |-> None, asked |-> None,
              plan |-> FALSE, anchor |-> None, scope |-> None, verdict |-> None]

\* What the reply resolves, after the absorption: a failed step or planning
\* call drops the plan, a verdict anchors the plan to where it was asked.
Resolved(a) ==
  IF a.reply = None THEN a
  ELSE IF a.at = "checking" THEN Ready([a EXCEPT !.verdict = a.reply, !.anchor = a.asked[1]])
  ELSE IF ~a.reply THEN Unplanned
  ELSE IF a.at = "acting" THEN Ready(a)
  ELSE Ready([a EXCEPT !.plan = TRUE, !.anchor = a.asked[1], !.scope = a.asked[2]])

Trimmed(log) == SubSeq(log, Larger(Len(log) - Retention, 0) + 1, Len(log))
TrimLogs(v) ==
  [v EXCEPT !.signals = Trimmed(@), !.signalsGone = @ + Larger(Len(v.signals) - Retention, 0),
            !.changes = Trimmed(@), !.changesGone = @ + Larger(Len(v.changes) - Retention, 0)]

\* What this drain adds to what the plan owes: changes of the world that were
\* seen to move, and signals; except what the code says it takes as its own, and
\* at an absorption what a tool owed that was out of view when the drain began.
Owing(absorbed) ==
  LET news == world.foreign \cap Attended \cap DOMAIN view.seen
      voices == Sources({s \in Sunk : ~s.own /\ ~s.change})
      old == IF Rebaselined THEN NothingDue ELSE due
  IN [state |-> IF absorbed THEN old.state \cap DOMAIN view.props
                ELSE old.state \cup (IF Rebaselined THEN {} ELSE news),
      voice |-> old.voice \cup (IF absorbed THEN {} ELSE voices), commit |-> None]

Observe ==
  /\ mode.phase = "observe"
  /\ LET v == DerivePropertyChanges(DrainSignals(SnapshotProperties))
         absorbed == Absorbs(Rebaseline)
         a == [act EXCEPT !.anchor = IF absorbed THEN Signature(v) ELSE Rebaseline,
                          !.scope = IF absorbed THEN Cursor(v) ELSE @]
     IN view' = TrimLogs(v) /\ act' = Resolved(a) /\ due' = Owing(absorbed)
  /\ attn' = [attn EXCEPT !.focused = Attended]
  /\ world' = [world EXCEPT !.foreign = @ \ Attended] /\ sink' = <<>>
  /\ mode' = [mode EXCEPT !.phase = "reason"]
-----------------------------------------------------------------------------
\* Situate's filter, then Reason and Act: one step, after which Observe is next.
Filtered(v, tools) == [v EXCEPT !.props = [t \in DOMAIN @ \cap tools |-> @[t]]]
Turn(bound) ==
  /\ mode.phase = "reason"
  /\ mode' = [(IF bound = None THEN mode ELSE Used(bound)) EXCEPT !.phase = "observe"]

\* A plan is asked for, anchored to the perception of this moment.
FirePlan ==
  /\ Turn(None) /\ act.at = "ready" /\ ~act.plan
  /\ act' = [act EXCEPT !.at = "planning", !.asked = <<Signature(view), Cursor(view)>>]
  /\ due' = NothingDue /\ UNCHANGED <<world, sink, attn, view>>

\* A plan is retrieved, and has no anchor until its first checkpoint.
ReusePlan ==
  /\ Turn(None) /\ act.at = "ready" /\ ~act.plan
  /\ act' = [act EXCEPT !.plan = TRUE] /\ UNCHANGED <<world, sink, attn, view, due>>

Decide(kind) ==
  IF mode.policy = "none" \/ (mode.policy # "before_each_op" /\ kind = "read") THEN "skip"
  ELSE IF mode.policy = "replan_on_change" THEN "replan" ELSE "check"

RelevantIn(log, gone, since) ==
  gone > since \/ \E i \in 1..Len(log) : gone + i > since /\ log[i] \in Named
RelevantChangeSince(scope) ==
  \/ scope = None
  \/ RelevantIn(view.signals, view.signalsGone, scope[1])
  \/ RelevantIn(view.changes, view.changesGone, scope[2])

\* Where the checkpoint leads: `judged` for a verdict, `clear` for a gate that
\* is cold, `apart` for a change elsewhere.
Anchored == IF act.anchor = None THEN Signature(view) ELSE act.anchor
Checkpoint(kind) ==
  IF act.verdict # None THEN IF act.verdict THEN "judged" ELSE "invalid"
  ELSE IF Decide(kind) = "skip" THEN "free"
  ELSE IF Signature(view) = Anchored THEN "clear"
  ELSE IF Decide(kind) = "check" THEN "check"
  ELSE IF RelevantChangeSince(act.scope) THEN "invalid" ELSE "apart"

Commit(step, how) ==
  /\ act' = [act EXCEPT !.at = "acting", !.step = step, !.landed = FALSE, !.verdict = None,
               !.anchor = IF how = "apart" THEN Signature(view)
                          ELSE IF how = "judged" THEN @ ELSE Anchored,
               !.scope = IF how = "apart" \/ (how # "judged" /\ act.anchor = None) THEN Cursor(view) ELSE @]
  /\ LET seen == IF how # "judged" /\ act.anchor = None THEN NothingDue ELSE due
         left == IF how = "apart" THEN NothingDue ELSE seen
     IN due' = [left EXCEPT !.commit = [seen EXCEPT !.commit = how, !.state = seen.state \cap attn.focused]]

Reason(step) ==
  /\ act.at = "ready" /\ act.plan /\ mode.steps < MaxSteps
  /\ LET how == Checkpoint(step.kind)
     IN /\ Turn(IF how \in {"check", "invalid"} THEN None ELSE "steps")
        /\ CASE how = "invalid" -> act' = Unplanned /\ UNCHANGED due
             [] how = "check" ->
                  /\ act' = [act EXCEPT !.at = "checking", !.asked = <<Signature(view), None>>,
                                        !.anchor = Anchored]
                  /\ due' = NothingDue
             [] OTHER -> Commit(step, how)
  /\ UNCHANGED <<world, sink, attn, view>>

\* The attention steps of another activity's plan.
Attention(change, dropped) ==
  /\ Turn("shifts") /\ mode.shifts < MaxShifts
  /\ attn' = change /\ view' = Filtered(view, Tools \ dropped)
  /\ UNCHANGED <<world, sink, act, due>>

Focus(t) ==
  /\ t \in attn.joined
  /\ Attention([attn EXCEPT !.focused = @ \cup {t}, !.suppressed = @ \ {t}], {})
Unfocus(t) == Attention([attn EXCEPT !.focused = @ \ {t}, !.suppressed = @ \cup {t}], {t})
Join(t) == t \notin attn.joined /\ Attention([attn EXCEPT !.joined = @ \cup {t}], {})
Leave(t) ==
  /\ t \in attn.joined
  /\ Attention([joined |-> attn.joined \ {t}, focused |-> attn.focused \ {t},
                suppressed |-> attn.suppressed \ {t}], {t})

Rest == Turn(None) /\ UNCHANGED <<world, sink, attn, view, act, due>>
-----------------------------------------------------------------------------
PerceptionInit ==
  /\ world = [value |-> [t \in Tools |-> 0], foreign |-> {}] /\ sink = <<>>
  /\ \E joined \in Startup : attn = [joined |-> joined, focused |-> {}, suppressed |-> {}]
  /\ view = [props |-> <<>>, seen |-> <<>>, signals |-> <<>>, signalsGone |-> 0,
             changes |-> <<>>, changesGone |-> 0]
  /\ act = Unplanned
  /\ mode \in [policy : Policies, narrow : BOOLEAN, phase : {"observe"},
               moves : {0}, voices : {0}, steps : {0}, shifts : {0}]
  /\ due = NothingDue

Steps == [tool : Named \cap attn.joined, kind : Kinds]
PerceptionNext ==
  \/ \E t \in Tools : WorldMoves(t) \/ Speaks(t) \/ Focus(t) \/ Unfocus(t) \/ Join(t) \/ Leave(t)
  \/ StepLands \/ \E ok \in BOOLEAN : Answered(ok)
  \/ Observe \/ FirePlan \/ ReusePlan \/ Rest
  \/ \E step \in Steps : Reason(step)
PerceptionSpec == PerceptionInit /\ [][PerceptionNext]_perceptionVars
-----------------------------------------------------------------------------
Versions(f) == DOMAIN f \subseteq Tools /\ f \in [DOMAIN f -> Nat]
Signed(s) == s = <<s[1], s[2]>> /\ Versions(s[1]) /\ s[2] \in Nat
World == [value : [Tools -> Nat], foreign : SUBSET Tools]
Signal == [source : Tools, change : BOOLEAN, own : BOOLEAN]
Attentions == [joined : SUBSET Tools, focused : SUBSET Tools, suppressed : SUBSET Tools]
Mode == [policy : Policies, narrow : BOOLEAN, phase : {"observe", "reason"},
         moves : Nat, voices : Nat, steps : Nat, shifts : Nat]
Committed == [state : SUBSET Tools, voice : SUBSET Tools, commit : {"free", "clear", "apart", "judged"}]
Dues == [state : SUBSET Tools, voice : SUBSET Tools, commit : Committed \cup {None}]

TypedView(v) ==
  /\ v \in [props : {v.props}, seen : {v.seen}, signals : Seq(Tools), signalsGone : Nat,
            changes : Seq(Tools), changesGone : Nat]
  /\ Versions(v.props) /\ Versions(v.seen)
  /\ Len(v.signals) <= Retention /\ Len(v.changes) <= Retention
TypedAct(a) ==
  /\ a \in [at : {"ready", "planning", "acting", "checking"}, step : Step \cup {None},
            landed : BOOLEAN, reply : BOOLEAN \cup {None}, asked : {a.asked}, plan : BOOLEAN,
            anchor : {a.anchor}, scope : Cursors \cup {None}, verdict : BOOLEAN \cup {None}]
  /\ a.anchor = None \/ Signed(a.anchor)
  /\ a.anchor = None => a.at \in {"ready", "planning"} /\ a.scope = None /\ a.verdict = None
  /\ a.at = "acting" => a.step # None
  /\ a.at = "ready" => a.reply = None
  /\ a.at = "planning" => a.asked = <<a.asked[1], a.asked[2]>> /\ a.asked[2] \in Cursors
  /\ a.at = "checking" => a.asked = <<a.asked[1], None>>
  /\ a.at \in {"planning", "checking"} => Signed(a.asked[1])
PerceptionTypeOK ==
  /\ world \in World /\ sink \in Seq(Signal) /\ attn \in Attentions
  /\ TypedView(view) /\ TypedAct(act) /\ mode \in Mode /\ due \in Dues

(* Nothing is observed that is not attended, nothing attended that is not  *)
(* joined, and a tool the agent chose to stop watching is not watched by   *)
(* policy: whatever the order of focus, unfocus, join, leave and Observe.  *)
NoStaleView ==
  /\ PerceptionTypeOK
  /\ DOMAIN view.props \subseteq attn.focused /\ attn.focused \subseteq attn.joined
  /\ attn.focused \cap attn.suppressed = {}

(* A step that the policy guards is committed without a judgement only     *)
(* when the plan owes none: no change of the world was seen to move since  *)
(* the plan was made or last judged, however many cycles an operation, a   *)
(* planning call or a check was in flight; with a mechanical discard, none *)
(* on a tool the plan names.  What landed while a check was in flight is   *)
(* let past by that check alone.  Excused are what an attention transition *)
(* re-anchors over, what arrives in the drain of the own write's ack, the  *)
(* changes of a tool that is not watched at the commit or was not in view  *)
(* when that ack was drained, and signals once the log is full.            *)
Owed(kind) == IF due.commit.commit = "apart" THEN due.commit[kind] \cap Named ELSE due.commit[kind]
WriteGuarded ==
  due.commit # None /\ due.commit.commit \in {"clear", "apart"} =>
    /\ Owed("state") = {}
    /\ view.signalsGone = 0 => Owed("voice") = {}

(* The docstring of _perception_signature: equal signatures mean nothing   *)
(* observable moved since the plan was baselined.                          *)
EqualMeansNothingMoved ==
  due.commit # None /\ due.commit.commit = "clear" => due.commit.voice = {}
=============================================================================

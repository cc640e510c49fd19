------------------------- MODULE Perception_proofs -------------------------
(***************************************************************************)
(* What the agent sees is what it attends to, and no guarded step goes     *)
(* ahead over a change its plan was not judged against: for any tools,     *)
(* plans, caps and bounds.                                                 *)
(***************************************************************************)
EXTENDS Perception, SequenceTheorems, FiniteSetTheorems, TLAPS

\* What the current or the coming plan was made against: its signature and cursor.
Base(a) == IF a.at \in {"planning", "checking"} THEN a.asked[1] ELSE a.anchor
Since(a) == IF a.at = "planning" THEN a.asked[2] ELSE a.scope

\* Every property seen was current when it was seen, and what moved since is newer.
Current(w, v) ==
  /\ \A t \in DOMAIN v.seen : v.seen[t] <= w.value[t]
  /\ \A t \in DOMAIN v.seen \cap w.foreign : v.seen[t] < w.value[t]
  /\ \A t \in DOMAIN v.props : t \in DOMAIN v.seen /\ v.props[t] = v.seen[t]

\* A log tells of t after the cursor, or has lost what it told.
Tells(t, log, gone, since) == gone > since \/ \E i \in 1..Len(log) : gone + i > since /\ log[i] = t

\* The base is of an earlier perception, and what is owed came after it.
MovedSince(base, v, d) ==
  /\ \A t \in DOMAIN base[1] : t \in DOMAIN v.seen /\ base[1][t] <= v.seen[t]
  /\ \A t \in d.state \cap DOMAIN base[1] : base[1][t] < v.seen[t]
  /\ v.signalsGone = 0 => base[2] <= Len(v.signals)
  /\ v.signalsGone = 0 /\ d.voice # {} => base[2] < Len(v.signals)
ToldSince(since, v, d) ==
  /\ since[1] <= v.signalsGone + Len(v.signals) /\ since[2] <= v.changesGone + Len(v.changes)
  /\ \A t \in d.state : \/ Tells(t, v.signals, v.signalsGone, since[1])
                        \/ Tells(t, v.changes, v.changesGone, since[2])
  /\ v.signalsGone = 0 => \A t \in d.voice : Tells(t, v.signals, v.signalsGone, since[1])

\* The current or coming plan's base and cursor, against the view and its debts.
Accounts ==
  /\ due.state \subseteq DOMAIN view.seen
  /\ Base(act) # None => MovedSince(Base(act), view, due)
  /\ Since(act) # None => ToldSince(Since(act), view, due)

\* After Observe, what is attended is in view; a commit is followed by Observe.
InView == mode.phase = "reason" => DOMAIN view.props = attn.focused
JustCommitted == due.commit # None => mode.phase = "observe"

\* The inductive invariant.
PerceptionInv == NoStaleView /\ Current(world, view) /\ InView /\ Accounts /\ WriteGuarded /\ JustCommitted
-----------------------------------------------------------------------------
\* The first moment.
LEMMA NothingVersioned == Versions(<<>>)
  <1>1. DOMAIN <<>> = {}
    OBVIOUS
  <1> QED
    BY <1>1 DEF Versions

LEMMA SignedIsSomething ==
  ASSUME NEW s, Signed(s)
  PROVE  s # None
  <1> DEFINE f == s[1]
  <1>1. s = <<f, s[2]>> /\ DOMAIN f \in SUBSET Tools /\ f \in [DOMAIN f -> Nat] /\ s[2] \in Nat
    BY DEF Signed, Versions
  <1> HIDE DEF f
  <1>2. \E S \in SUBSET Tools : f \in [S -> Nat]
    BY <1>1
  <1>3. f \in UNION {[S -> Nat] : S \in SUBSET Tools}
    BY <1>2
  <1>4. s \in (UNION {[S -> Nat] : S \in SUBSET Tools}) \X Nat
    BY <1>1, <1>3
  <1> QED
    BY <1>4, PerceptionConstants

LEMMA StartsWell == PerceptionInit => PerceptionInv
  <1> SUFFICES ASSUME PerceptionInit PROVE PerceptionInv
    OBVIOUS
  <1> USE PerceptionConstants
  <1>1. world \in World /\ sink \in Seq(Signal) /\ mode \in Mode
    BY DEF PerceptionInit, World, Mode
  <1>2. attn \in Attentions /\ attn.focused = {} /\ attn.suppressed = {}
    BY DEF PerceptionInit, Attentions
  <1>3. TypedView(view)
    BY NothingVersioned DEF PerceptionInit, TypedView
  <1>4. act = Unplanned /\ TypedAct(act)
    BY DEF PerceptionInit, TypedAct, Unplanned
  <1>5. due = NothingDue /\ due \in Dues
    BY DEF PerceptionInit, NothingDue, Dues
  <1>6. view.props = <<>> /\ view.seen = <<>> /\ DOMAIN view.props = {} /\ DOMAIN view.seen = {}
    BY DEF PerceptionInit
  <1>7. NoStaleView
    BY <1>1, <1>2, <1>3, <1>4, <1>5, <1>6 DEF NoStaleView, PerceptionTypeOK
  <1>8. Current(world, view)
    BY <1>6 DEF Current
  <1>9. InView
    BY DEF PerceptionInit, InView
  <1>10. Accounts
    <2>1. Base(act) = None /\ Since(act) = None
      BY <1>4 DEF Base, Since, Unplanned
    <2> QED
      BY <2>1, <1>5 DEF Accounts, NothingDue
  <1>11. WriteGuarded /\ JustCommitted
    BY <1>5 DEF WriteGuarded, JustCommitted, NothingDue
  <1> QED
    BY <1>7, <1>8, <1>9, <1>10, <1>11 DEF PerceptionInv
-----------------------------------------------------------------------------
\* The world moves, speaks and answers.
LEMMA SinkGrows ==
  ASSUME sink \in Seq(Signal), NEW t \in Tools, NEW change \in BOOLEAN, NEW own \in BOOLEAN,
         PushSignal(t, change, own) \/ UNCHANGED sink
  PROVE  sink' \in Seq(Signal)
  <1>1. [source |-> t, change |-> change, own |-> own] \in Signal
    BY DEF Signal
  <1>2. Append(sink, [source |-> t, change |-> change, own |-> own]) \in Seq(Signal)
    BY <1>1
  <1> QED
    BY <1>2 DEF PushSignal

LEMMA Counted ==
  ASSUME mode \in Mode, NEW bound \in {"moves", "voices", "steps", "shifts"}
  PROVE  Used(bound) \in Mode /\ Used(bound).phase = mode.phase
  BY DEF Used, Mode

\* A value that grows, of a tool that is now owed or is the agent's own doing.
LEMMA WorldGrows ==
  ASSUME PerceptionTypeOK, Current(world, view), NEW x \in Tools, NEW F \in SUBSET Tools,
         world' = [world EXCEPT !.value[x] = @ + 1, !.foreign = F],
         F \subseteq world.foreign \cup {x}
  PROVE  world' \in World /\ Current(world', view)
  <1>1. world \in World /\ TypedView(view)
    BY DEF PerceptionTypeOK
  <1>2. world'.value = [world.value EXCEPT ![x] = @ + 1] /\ world'.foreign = F
    BY <1>1 DEF World
  <1>3. world'.value \in [Tools -> Nat]
    <2> DEFINE value == world.value
    <2>1. value \in [Tools -> Nat]
      BY <1>1 DEF World
    <2>2. world'.value = [value EXCEPT ![x] = value[x] + 1]
      BY <1>2
    <2> HIDE DEF value
    <2>3. [value EXCEPT ![x] = value[x] + 1] \in [Tools -> Nat]
      BY <2>1
    <2> QED
      BY <2>2, <2>3
  <1>4. world' \in World
    BY <1>1, <1>3 DEF World
  <1>5. \A t \in DOMAIN view.seen : t \in Tools /\ view.seen[t] \in Nat
    BY <1>1 DEF TypedView, Versions
  <1>6. \A t \in Tools : world.value[t] \in Nat /\ world'.value[t] = IF t = x THEN world.value[t] + 1 ELSE world.value[t]
    BY <1>1, <1>2 DEF World
  <1> QED
    BY <1>2, <1>4, <1>5, <1>6 DEF Current

\* A step after which what the agent knows is as before, and the world no older.
LEMMA OnlyTheWorld ==
  ASSUME PerceptionInv, UNCHANGED <<attn, view, due>>, mode' \in Mode, mode'.phase = mode.phase,
         world' \in World, Current(world', view), sink' \in Seq(Signal), TypedAct(act'),
         Base(act') = Base(act), Since(act') = Since(act)
  PROVE  PerceptionInv'
  <1>1. PerceptionTypeOK'
    BY DEF PerceptionInv, NoStaleView, PerceptionTypeOK
  <1>2. NoStaleView'
    BY <1>1 DEF PerceptionInv, NoStaleView
  <1>3. Current(world, view)'
    OBVIOUS
  <1>4. Accounts'
    BY DEF PerceptionInv, Accounts
  <1>5. InView' /\ WriteGuarded' /\ JustCommitted'
    BY DEF PerceptionInv, InView, WriteGuarded, JustCommitted, Owed
  <1> QED
    BY <1>1, <1>2, <1>3, <1>4, <1>5 DEF PerceptionInv

LEMMA KeptByTheWorld ==
  ASSUME PerceptionInv, NEW t \in Tools, WorldMoves(t) \/ Speaks(t)
  PROVE  PerceptionInv'
  <1>1. sink \in Seq(Signal) /\ mode \in Mode /\ world \in World /\ TypedAct(act) /\ Current(world, view)
        /\ PerceptionTypeOK
    BY DEF PerceptionInv, NoStaleView, PerceptionTypeOK
  <1>2. CASE WorldMoves(t)
    <2>1. world'.foreign = world.foreign \cup {t} /\ world' = [world EXCEPT !.value[t] = @ + 1, !.foreign = world.foreign \cup {t}]
      BY <1>1, <1>2 DEF WorldMoves, World
    <2>2. world.foreign \cup {t} \in SUBSET Tools
      BY <1>1 DEF World
    <2>3. world' \in World /\ Current(world', view)
      BY <1>1, <2>1, <2>2, WorldGrows
    <2>4. sink' \in Seq(Signal)
      BY <1>1, <1>2, SinkGrows DEF WorldMoves
    <2>5. mode' \in Mode /\ mode'.phase = mode.phase
      BY <1>1, <1>2, Counted DEF WorldMoves
    <2>6. act' = act /\ UNCHANGED <<attn, view, due>>
      BY <1>2 DEF WorldMoves
    <2>7. TypedAct(act') /\ Base(act') = Base(act) /\ Since(act') = Since(act)
      BY <1>1, <2>6
    <2> QED
      BY <2>3, <2>4, <2>5, <2>6, <2>7, OnlyTheWorld
  <1>3. CASE Speaks(t)
    <2>1. sink' \in Seq(Signal)
      BY <1>1, <1>3, SinkGrows DEF Speaks
    <2>2. mode' \in Mode /\ mode'.phase = mode.phase
      BY <1>1, <1>3, Counted DEF Speaks
    <2>3. act' = act /\ world' = world /\ UNCHANGED <<attn, view, due>>
      BY <1>3 DEF Speaks
    <2>4. TypedAct(act') /\ Base(act') = Base(act) /\ Since(act') = Since(act) /\ world' \in World /\ Current(world', view)
      BY <1>1, <2>3
    <2> QED
      BY <2>1, <2>2, <2>3, <2>4, OnlyTheWorld
  <1> QED
    BY <1>2, <1>3

LEMMA KeptByReplies ==
  ASSUME PerceptionInv, StepLands \/ \E ok \in BOOLEAN : Answered(ok)
  PROVE  PerceptionInv'
  <1> USE PerceptionConstants
  <1>1. sink \in Seq(Signal) /\ mode \in Mode /\ world \in World /\ TypedAct(act) /\ Current(world, view)
        /\ PerceptionTypeOK
    BY DEF PerceptionInv, NoStaleView, PerceptionTypeOK
  <1>2. CASE StepLands
    <2>1. act.step \in Step
      BY <1>1, <1>2 DEF TypedAct, StepLands
    <2>2. PICK t \in Tools : t = act.step.tool
      BY <2>1 DEF Step
    <2> DEFINE F == world.foreign
    <2>3. world' = [world EXCEPT !.value[t] = @ + 1, !.foreign = F] /\ F \in SUBSET Tools
          /\ F \subseteq world.foreign \cup {t}
      BY <1>1, <1>2, <2>2 DEF StepLands, World
    <2> HIDE DEF F
    <2>4. world' \in World /\ Current(world', view)
      BY <1>1, <2>2, <2>3, WorldGrows
    <2>5. sink' \in Seq(Signal)
      BY <1>1, <1>2, <2>2, SinkGrows DEF StepLands
    <2>6. act' = [act EXCEPT !.landed = TRUE] /\ UNCHANGED <<attn, view, mode, due>>
      BY <1>2 DEF StepLands
    <2>7. TypedAct(act')
      BY <1>1, <2>6 DEF TypedAct
    <2>8. Base(act') = Base(act) /\ Since(act') = Since(act)
      BY <1>1, <2>6 DEF TypedAct, Base, Since
    <2> QED
      BY <1>1, <2>4, <2>5, <2>6, <2>7, <2>8, OnlyTheWorld
  <1>3. CASE \E ok \in BOOLEAN : Answered(ok)
    <2>1. PICK ok \in BOOLEAN : Answered(ok)
      BY <1>3
    <2>2. act' = [act EXCEPT !.reply = ok] /\ act.at # "ready" /\ UNCHANGED <<world, sink, attn, view, mode, due>>
      BY <2>1 DEF Answered
    <2>3. TypedAct(act')
      BY <1>1, <2>2 DEF TypedAct
    <2>4. Base(act') = Base(act) /\ Since(act') = Since(act)
      BY <1>1, <2>2 DEF TypedAct, Base, Since
    <2> QED
      BY <1>1, <2>2, <2>3, <2>4, OnlyTheWorld
  <1> QED
    BY <1>2, <1>3
-----------------------------------------------------------------------------
\* Attention steps of another activity.
LEMMA TurnEnds ==
  ASSUME mode \in Mode, NEW bound \in {None, "steps", "shifts"}, Turn(bound)
  PROVE  mode.phase = "reason" /\ mode' \in Mode /\ mode'.phase = "observe"
  <1> DEFINE before == IF bound = None THEN mode ELSE Used(bound)
  <1>1. before \in Mode
    BY Counted
  <1>2. mode' = [before EXCEPT !.phase = "observe"] /\ mode.phase = "reason"
    BY DEF Turn
  <1> HIDE DEF before
  <1> QED
    BY <1>1, <1>2 DEF Mode

LEMMA KeptByAttention ==
  ASSUME PerceptionInv, NEW change \in Attentions, NEW dropped \in SUBSET Tools, Attention(change, dropped),
         change.focused \subseteq change.joined, change.focused \cap change.suppressed = {},
         DOMAIN view.props \ dropped \subseteq change.focused
  PROVE  PerceptionInv'
  <1> DEFINE cut == [t \in DOMAIN view.props \cap (Tools \ dropped) |-> view.props[t]]
  <1>1. PerceptionTypeOK /\ TypedView(view) /\ mode \in Mode /\ Current(world, view) /\ Accounts
    BY DEF PerceptionInv, NoStaleView, PerceptionTypeOK
  <1>2. mode' \in Mode /\ mode'.phase = "observe"
    BY <1>1, TurnEnds DEF Attention
  <1>3. view' = [view EXCEPT !.props = cut] /\ attn' = change /\ UNCHANGED <<world, sink, act, due>>
    BY DEF Attention, Filtered
  <1>4. Versions(view.props) /\ Versions(view.seen)
    BY <1>1 DEF TypedView
  <1>5. Versions(cut) /\ DOMAIN cut \subseteq DOMAIN view.props \ dropped /\ \A t \in DOMAIN cut : cut[t] = view.props[t]
    BY <1>4 DEF Versions
  <1> HIDE DEF cut
  <1>6. /\ view'.props = cut /\ view'.seen = view.seen
        /\ view'.signals = view.signals /\ view'.signalsGone = view.signalsGone
        /\ view'.changes = view.changes /\ view'.changesGone = view.changesGone
    BY <1>1, <1>3 DEF TypedView
  <1>7. TypedView(view')
    BY <1>1, <1>3, <1>4, <1>5, <1>6 DEF TypedView
  <1>8. PerceptionTypeOK'
    BY <1>1, <1>2, <1>3, <1>7 DEF PerceptionTypeOK
  <1>9. NoStaleView'
    BY <1>3, <1>5, <1>6, <1>8 DEF NoStaleView
  <1>10. Current(world, view)'
    BY <1>1, <1>3, <1>5, <1>6 DEF Current
  <1>11. Accounts'
    BY <1>1, <1>3, <1>6 DEF Accounts, Base, Since, MovedSince, ToldSince
  <1>12. InView' /\ JustCommitted'
    BY <1>2 DEF InView, JustCommitted
  <1>13. WriteGuarded'
    BY <1>3, <1>6 DEF PerceptionInv, WriteGuarded, Owed
  <1> QED
    BY <1>8, <1>9, <1>10, <1>11, <1>12, <1>13 DEF PerceptionInv

LEMMA KeptByAttentionSteps ==
  ASSUME PerceptionInv, NEW t \in Tools, Focus(t) \/ Unfocus(t) \/ Join(t) \/ Leave(t)
  PROVE  PerceptionInv'
  <1>1. attn \in Attentions
    BY DEF PerceptionInv, NoStaleView, PerceptionTypeOK
  <1>2. DOMAIN view.props \subseteq attn.focused /\ attn.focused \subseteq attn.joined
        /\ attn.focused \cap attn.suppressed = {}
    BY DEF PerceptionInv, NoStaleView
  <1>3. CASE Focus(t)
    <2> DEFINE change == [attn EXCEPT !.focused = @ \cup {t}, !.suppressed = @ \ {t}]
    <2>1. change \in Attentions /\ change.focused = attn.focused \cup {t} /\ change.joined = attn.joined
          /\ change.suppressed = attn.suppressed \ {t}
      BY <1>1 DEF Attentions
    <2>2. Attention(change, {}) /\ t \in attn.joined
      BY <1>3 DEF Focus
    <2> HIDE DEF change
    <2>3. change.focused \subseteq change.joined /\ change.focused \cap change.suppressed = {}
          /\ DOMAIN view.props \ {} \subseteq change.focused
      BY <1>2, <2>1, <2>2
    <2> QED
      BY <2>1, <2>2, <2>3, KeptByAttention
  <1>4. CASE Unfocus(t)
    <2> DEFINE change == [attn EXCEPT !.focused = @ \ {t}, !.suppressed = @ \cup {t}]
    <2>1. change \in Attentions /\ change.focused = attn.focused \ {t} /\ change.joined = attn.joined
          /\ change.suppressed = attn.suppressed \cup {t}
      BY <1>1 DEF Attentions
    <2>2. Attention(change, {t})
      BY <1>4 DEF Unfocus
    <2> HIDE DEF change
    <2>3. change.focused \subseteq change.joined /\ change.focused \cap change.suppressed = {}
          /\ DOMAIN view.props \ {t} \subseteq change.focused
      BY <1>2, <2>1
    <2> QED
      BY <2>1, <2>2, <2>3, KeptByAttention
  <1>5. CASE Join(t)
    <2> DEFINE change == [attn EXCEPT !.joined = @ \cup {t}]
    <2>1. change \in Attentions /\ change.focused = attn.focused /\ change.joined = attn.joined \cup {t}
          /\ change.suppressed = attn.suppressed
      BY <1>1 DEF Attentions
    <2>2. Attention(change, {})
      BY <1>5 DEF Join
    <2> HIDE DEF change
    <2>3. change.focused \subseteq change.joined /\ change.focused \cap change.suppressed = {}
          /\ DOMAIN view.props \ {} \subseteq change.focused
      BY <1>2, <2>1
    <2> QED
      BY <2>1, <2>2, <2>3, KeptByAttention
  <1>6. CASE Leave(t)
    <2> DEFINE change == [joined |-> attn.joined \ {t}, focused |-> attn.focused \ {t},
                          suppressed |-> attn.suppressed \ {t}]
    <2>1. change \in Attentions /\ change.focused = attn.focused \ {t} /\ change.joined = attn.joined \ {t}
          /\ change.suppressed = attn.suppressed \ {t}
      BY <1>1 DEF Attentions
    <2>2. Attention(change, {t})
      BY <1>6 DEF Leave
    <2> HIDE DEF change
    <2>3. change.focused \subseteq change.joined /\ change.focused \cap change.suppressed = {}
          /\ DOMAIN view.props \ {t} \subseteq change.focused
      BY <1>2, <2>1
    <2> QED
      BY <2>1, <2>2, <2>3, KeptByAttention
  <1> QED
    BY <1>3, <1>4, <1>5, <1>6
-----------------------------------------------------------------------------
\* Situate, Reason and Act of the activity itself.
LEMMA HereAndNow ==
  ASSUME TypedView(view), Current(world, view)
  PROVE  /\ Signed(Signature(view)) /\ Cursor(view) \in Cursors
         /\ MovedSince(Signature(view), view, NothingDue) /\ ToldSince(Cursor(view), view, NothingDue)
  <1>1. /\ Versions(view.props) /\ view.signals \in Seq(Tools) /\ view.changes \in Seq(Tools)
        /\ Versions(view.seen) /\ view.signalsGone \in Nat /\ view.changesGone \in Nat
    BY DEF TypedView
  <1>2. Len(view.signals) \in Nat /\ Len(view.changes) \in Nat
    BY <1>1
  <1>3. Signature(view)[1] = view.props /\ Signature(view)[2] = Len(view.signals)
    BY DEF Signature
  <1>4. Signed(Signature(view)) /\ Cursor(view) \in Cursors
    BY <1>1, <1>2 DEF Signed, Signature, Cursor, Cursors
  <1>5. MovedSince(Signature(view), view, NothingDue)
    BY <1>1, <1>2, <1>3 DEF MovedSince, Current, NothingDue, Versions
  <1>6. ToldSince(Cursor(view), view, NothingDue)
    BY <1>1, <1>2 DEF ToldSince, Cursor, NothingDue
  <1> QED
    BY <1>4, <1>5, <1>6

\* A turn of the cycle that leaves the perception alone.
LEMMA AfterTheTurn ==
  ASSUME PerceptionInv, NEW bound \in {None, "steps", "shifts"}, Turn(bound),
         UNCHANGED <<world, sink, attn, view>>, TypedAct(act'), due' \in Dues,
         Accounts', WriteGuarded'
  PROVE  PerceptionInv'
  <1>1. mode' \in Mode /\ mode'.phase = "observe"
    BY TurnEnds DEF PerceptionInv, NoStaleView, PerceptionTypeOK
  <1>2. PerceptionTypeOK'
    BY <1>1 DEF PerceptionInv, NoStaleView, PerceptionTypeOK
  <1>3. NoStaleView' /\ Current(world, view)'
    BY <1>2 DEF PerceptionInv, NoStaleView
  <1>4. InView' /\ JustCommitted'
    BY <1>1 DEF InView, JustCommitted
  <1> QED
    BY <1>2, <1>3, <1>4 DEF PerceptionInv

LEMMA KeptByPlanning ==
  ASSUME PerceptionInv, FirePlan \/ ReusePlan \/ Rest
  PROVE  PerceptionInv'
  <1> USE PerceptionConstants
  <1>1. TypedView(view) /\ TypedAct(act) /\ due \in Dues /\ Current(world, view) /\ Accounts /\ WriteGuarded
    BY DEF PerceptionInv, NoStaleView, PerceptionTypeOK
  <1>2. CASE FirePlan
    <2> DEFINE asked == <<Signature(view), Cursor(view)>>
    <2>1. act' = [act EXCEPT !.at = "planning", !.asked = asked] /\ Turn(None) /\ due' = NothingDue
          /\ UNCHANGED <<world, sink, attn, view>>
      BY <1>2 DEF FirePlan
    <2>2. Signed(Signature(view)) /\ Cursor(view) \in Cursors
      BY <1>1, HereAndNow
    <2>3. asked = <<asked[1], asked[2]>> /\ asked[1] = Signature(view) /\ asked[2] = Cursor(view)
      OBVIOUS
    <2> HIDE DEF asked
    <2>4. TypedAct(act')
      BY <1>1, <2>1, <2>2, <2>3 DEF TypedAct
    <2>5. act'.at = "planning" /\ act'.asked = asked
      BY <1>1, <2>1 DEF TypedAct
    <2>6. Base(act') = Signature(view) /\ Since(act') = Cursor(view)
      BY <2>3, <2>5 DEF Base, Since
    <2>7. due' \in Dues /\ WriteGuarded' /\ due'.state = {}
      BY <2>1 DEF Dues, NothingDue, WriteGuarded
    <2>8. Accounts'
      BY <1>1, <2>1, <2>6, <2>7, HereAndNow DEF Accounts
    <2> QED
      BY <2>1, <2>4, <2>7, <2>8, AfterTheTurn
  <1>3. CASE ReusePlan
    <2>1. act' = [act EXCEPT !.plan = TRUE] /\ Turn(None) /\ UNCHANGED <<world, sink, attn, view, due>>
      BY <1>3 DEF ReusePlan
    <2>2. TypedAct(act') /\ Base(act') = Base(act) /\ Since(act') = Since(act)
      BY <1>1, <2>1 DEF TypedAct, Base, Since
    <2>3. Accounts' /\ WriteGuarded'
      BY <1>1, <2>1, <2>2 DEF Accounts, WriteGuarded, Owed
    <2> QED
      BY <1>1, <2>1, <2>2, <2>3, AfterTheTurn
  <1>4. CASE Rest
    <2>1. Turn(None) /\ UNCHANGED <<world, sink, attn, view, act, due>>
      BY <1>4 DEF Rest
    <2>2. Accounts' /\ WriteGuarded' /\ TypedAct(act')
      BY <1>1, <2>1 DEF Accounts, WriteGuarded, Owed
    <2> QED
      BY <1>1, <2>1, <2>2, AfterTheTurn
  <1> QED
    BY <1>2, <1>3, <1>4
\* What a shut gate says: the plan owes no change in view.
LEMMA ShutGateOwesNothing ==
  ASSUME TypedView(view), Current(world, view), due \in Dues,
         MovedSince(Signature(view), view, due)
  PROVE  due.state \cap DOMAIN view.props = {} /\ (view.signalsGone = 0 => due.voice = {})
  <1>1. Signature(view)[1] = view.props /\ Signature(view)[2] = Len(view.signals)
    BY DEF Signature
  <1>2. Versions(view.props) /\ view.signals \in Seq(Tools)
    BY DEF TypedView
  <1>3. Len(view.signals) \in Nat
    BY <1>2
  <1>4. ASSUME NEW t \in due.state, t \in DOMAIN view.props PROVE FALSE
    <2>1. view.props[t] < view.seen[t] /\ view.props[t] = view.seen[t] /\ view.props[t] \in Nat
      BY <1>1, <1>2, <1>4 DEF MovedSince, Current, Versions
    <2> QED
      BY <2>1
  <1>5. ASSUME view.signalsGone = 0, due.voice # {} PROVE FALSE
    <2>1. Len(view.signals) < Len(view.signals)
      BY <1>1, <1>5 DEF MovedSince
    <2> QED
      BY <1>3, <2>1
  <1> QED
    BY <1>4, <1>5

\* A mechanical discard that finds no relevant change: what is owed is of no tool the plan names.
LEMMA IrrelevantOwesElsewhere ==
  ASSUME due \in Dues, act.scope # None, ToldSince(act.scope, view, due), ~RelevantChangeSince(act.scope)
  PROVE  due.state \cap Named = {} /\ (view.signalsGone = 0 => due.voice \cap Named = {})
  <1>1. ~RelevantIn(view.signals, view.signalsGone, act.scope[1])
        /\ ~RelevantIn(view.changes, view.changesGone, act.scope[2])
    BY DEF RelevantChangeSince
  <1>2. \A t \in Named : ~Tells(t, view.signals, view.signalsGone, act.scope[1])
    BY <1>1 DEF RelevantIn, Tells
  <1>3. \A t \in Named : ~Tells(t, view.changes, view.changesGone, act.scope[2])
    BY <1>1 DEF RelevantIn, Tells
  <1> QED
    BY <1>2, <1>3 DEF ToldSince

LEMMA ReadsCheckpoint ==
  ASSUME TypedAct(act), NEW kind
  PROVE  /\ Checkpoint(kind) \in {"judged", "free", "clear", "apart", "check", "invalid"}
         /\ Checkpoint(kind) = "judged" => act.verdict # None
         /\ Checkpoint(kind) = "clear" => Signature(view) = Anchored
         /\ Checkpoint(kind) = "apart" => Signature(view) # Anchored /\ ~RelevantChangeSince(act.scope)
  BY DEF Checkpoint

LEMMA KeptByCommit ==
  ASSUME PerceptionInv, NEW step \in Step, NEW how \in {"judged", "free", "clear", "apart"},
         how = Checkpoint(step.kind), act.at = "ready", Turn("steps"), Commit(step, how),
         UNCHANGED <<world, sink, attn, view>>
  PROVE  PerceptionInv'
  <1> USE PerceptionConstants
  <1>1. /\ TypedView(view) /\ TypedAct(act) /\ due \in Dues /\ Current(world, view) /\ Accounts
        /\ mode \in Mode /\ InView /\ attn \in Attentions
    BY DEF PerceptionInv, NoStaleView, PerceptionTypeOK
  <1>2. DOMAIN view.props = attn.focused
    BY <1>1, TurnEnds DEF InView
  <1>3. /\ how = "judged" => act.verdict # None
        /\ how = "clear" => Signature(view) = Anchored
        /\ how = "apart" => Signature(view) # Anchored /\ ~RelevantChangeSince(act.scope)
    BY <1>1, ReadsCheckpoint
  <1>4. /\ how = "judged" => act.anchor # None
        /\ act.anchor = None => Anchored = Signature(view) /\ act.scope = None
        /\ act.anchor # None => Anchored = act.anchor /\ Signed(act.anchor)
    BY <1>1, <1>3 DEF TypedAct, Anchored
  <1> DEFINE anew == how = "apart" \/ act.anchor = None
             anchor == IF anew THEN Signature(view) ELSE act.anchor
             scope == IF anew THEN Cursor(view) ELSE act.scope
             seen == IF act.anchor = None THEN NothingDue ELSE due
             left == IF anew THEN NothingDue ELSE due
             commit == [seen EXCEPT !.commit = how, !.state = seen.state \cap attn.focused]
  <1>5. act' = [act EXCEPT !.at = "acting", !.step = step, !.landed = FALSE, !.verdict = None,
                           !.anchor = anchor, !.scope = scope]
    BY <1>4 DEF Commit
  <1>6. due' = [left EXCEPT !.commit = commit]
    BY <1>4 DEF Commit
  <1>7. Signed(Signature(view)) /\ Cursor(view) \in Cursors /\ MovedSince(Signature(view), view, NothingDue)
        /\ ToldSince(Cursor(view), view, NothingDue)
    BY <1>1, HereAndNow
  <1>8. Signed(anchor) /\ scope \in Cursors \cup {None}
    BY <1>1, <1>4, <1>7 DEF TypedAct
  <1>9. Base(act) = act.anchor /\ Since(act) = act.scope
    BY DEF Base, Since
  <1>10. MovedSince(anchor, view, left) /\ (scope # None => ToldSince(scope, view, left))
    BY <1>1, <1>4, <1>7, <1>9 DEF Accounts
  <1>11. seen \in Dues /\ left \in Dues /\ NothingDue \in Dues
    BY <1>1 DEF Dues, NothingDue
  <1>12. commit \in Committed /\ commit.commit = how /\ commit.state = seen.state \cap attn.focused
         /\ commit.voice = seen.voice
    BY <1>11 DEF Dues, Committed
  <1>13. left.state \subseteq DOMAIN view.seen
    BY <1>1 DEF Accounts, NothingDue
  <1>14. how = "clear" => seen.state \cap DOMAIN view.props = {} /\ (view.signalsGone = 0 => seen.voice = {})
    <2>1. CASE act.anchor = None
      BY <2>1 DEF NothingDue
    <2>2. CASE act.anchor # None /\ how = "clear"
      <3>1. MovedSince(Signature(view), view, due)
        BY <1>1, <1>3, <1>4, <1>9, <2>2 DEF Accounts
      <3> QED
        BY <1>1, <2>2, <3>1, ShutGateOwesNothing
    <2> QED
      BY <2>1, <2>2
  <1>15. how = "apart" => seen.state \cap Named = {} /\ (view.signalsGone = 0 => seen.voice \cap Named = {})
    <2>1. CASE act.anchor = None
      BY <2>1 DEF NothingDue
    <2>2. CASE act.anchor # None /\ how = "apart"
      <3>1. act.scope # None
        BY <1>3, <2>2 DEF RelevantChangeSince
      <3>2. ToldSince(act.scope, view, due)
        BY <1>1, <1>9, <3>1 DEF Accounts
      <3> QED
        BY <1>1, <1>3, <2>2, <3>1, <3>2, IrrelevantOwesElsewhere
    <2> QED
      BY <2>1, <2>2
  <1> HIDE DEF anew, anchor, scope, seen, left, commit
  <1>16. TypedAct(act')
    <2>1. anchor # None
      BY <1>8, SignedIsSomething
    <2>2. step # None
      OBVIOUS
    <2> QED
      BY <1>1, <1>5, <1>8, <2>1, <2>2 DEF TypedAct
  <1>17. act'.at = "acting" /\ act'.anchor = anchor /\ act'.scope = scope
    BY <1>1, <1>5 DEF TypedAct
  <1>18. Base(act') = anchor /\ Since(act') = scope
    BY <1>17 DEF Base, Since
  <1>19. due' \in Dues /\ due'.state = left.state /\ due'.voice = left.voice /\ due'.commit = commit
    BY <1>6, <1>11, <1>12 DEF Dues
  <1>20. Accounts'
    BY <1>10, <1>13, <1>18, <1>19 DEF Accounts, MovedSince, ToldSince
  <1>21. WriteGuarded'
    BY <1>2, <1>12, <1>14, <1>15, <1>19 DEF WriteGuarded, Owed
  <1> QED
    BY <1>16, <1>19, <1>20, <1>21, AfterTheTurn

LEMMA KeptByReason ==
  ASSUME PerceptionInv, NEW step \in Steps, Reason(step)
  PROVE  PerceptionInv'
  <1> USE PerceptionConstants
  <1>1. /\ TypedView(view) /\ TypedAct(act) /\ due \in Dues /\ Current(world, view) /\ Accounts
        /\ WriteGuarded
    BY DEF PerceptionInv, NoStaleView, PerceptionTypeOK
  <1>2. step \in Step
    BY DEF Steps, Step
  <1> DEFINE how == Checkpoint(step.kind)
  <1>3. how \in {"judged", "free", "clear", "apart", "check", "invalid"}
    BY <1>1, ReadsCheckpoint
  <1>4. act.at = "ready" /\ UNCHANGED <<world, sink, attn, view>>
    BY DEF Reason
  <1>5. CASE how = "invalid"
    <2>1. Turn(None) /\ act' = Unplanned /\ due' = due
      BY <1>5 DEF Reason
    <2>2. TypedAct(act') /\ Base(act') = None /\ Since(act') = None
      BY <2>1 DEF TypedAct, Unplanned, Base, Since
    <2>3. Accounts' /\ WriteGuarded'
      BY <1>1, <1>4, <2>1, <2>2 DEF Accounts, WriteGuarded, Owed
    <2> QED
      BY <1>1, <1>4, <2>1, <2>2, <2>3, AfterTheTurn
  <1>6. CASE how = "check"
    <2> DEFINE asked == <<Signature(view), None>>
    <2>1. Turn(None) /\ due' = NothingDue /\ act' = [act EXCEPT !.at = "checking", !.asked = asked, !.anchor = Anchored]
      BY <1>6 DEF Reason
    <2>2. Signed(Signature(view)) /\ MovedSince(Signature(view), view, NothingDue)
      BY <1>1, HereAndNow
    <2>3. asked = <<asked[1], None>> /\ asked[1] = Signature(view)
      OBVIOUS
    <2>4. Signed(Anchored)
      BY <1>1, <2>2 DEF Anchored, TypedAct
    <2> HIDE DEF asked
    <2>5. Anchored # None
      BY <2>4, SignedIsSomething
    <2>6. TypedAct(act')
      BY <1>1, <2>1, <2>2, <2>3, <2>4, <2>5 DEF TypedAct
    <2>7. act'.at = "checking" /\ act'.asked = asked /\ act'.scope = act.scope
      BY <1>1, <2>1 DEF TypedAct
    <2>8. Base(act') = Signature(view) /\ Since(act') = act.scope /\ Since(act) = act.scope
      BY <1>4, <2>3, <2>7 DEF Base, Since
    <2>9. due' \in Dues /\ WriteGuarded' /\ due'.state = {} /\ due'.voice = {}
      BY <2>1 DEF Dues, NothingDue, WriteGuarded
    <2>10. act.scope # None => ToldSince(act.scope, view, NothingDue)
      BY <1>1, <2>8 DEF Accounts, ToldSince, NothingDue
    <2>11. Accounts'
      BY <1>4, <2>1, <2>2, <2>8, <2>9, <2>10 DEF Accounts
    <2> QED
      BY <1>4, <2>1, <2>6, <2>9, <2>11, AfterTheTurn
  <1>7. CASE how \in {"judged", "free", "clear", "apart"}
    <2>1. Turn("steps") /\ Commit(step, how)
      BY <1>7 DEF Reason
    <2> QED
      BY <1>2, <1>4, <1>7, <2>1, KeptByCommit
  <1> QED
    BY <1>3, <1>5, <1>6, <1>7
-----------------------------------------------------------------------------
\* Observe: its logs.
LEMMA EnumerationHasAll ==
  ASSUME NEW S, IsFiniteSet(S)
  PROVE  /\ SetToSeq(S) \in Seq(S)
         /\ \A t \in S : \E i \in 1..Len(SetToSeq(S)) : SetToSeq(S)[i] = t
  <1> DEFINE n == Cardinality(S)
             f == SetToSeq(S)
  <1>1. n \in Nat /\ ExistsBijection(1..n, S)
    BY FS_CardinalityType
  <1>2. PICK b \in [1..n -> S] : IsInjective(b)
    BY <1>1 DEF ExistsBijection, Bijection, Injection
  <1>3. f \in [1..n -> S] /\ IsInjective(f)
    BY <1>2 DEF SetToSeq
  <1>4. f \in Injection(1..n, S)
    BY <1>3 DEF Injection
  <1>5. IsFiniteSet(1..n) /\ Cardinality(1..n) = n
    BY <1>1, FS_Interval
  <1> HIDE DEF f
  <1>6. f \in Surjection(1..n, S)
    BY <1>4, <1>5, FS_Injection
  <1>7. \A t \in S : \E i \in 1..n : f[i] = t
    BY <1>6 DEF Surjection
  <1>8. f \in Seq(S) /\ Len(f) = n
    BY <1>1, <1>3
  <1> QED
    BY <1>7, <1>8 DEF f

\* What a log told it tells with more at its end, and the more as well.
LEMMA TellsMore ==
  ASSUME NEW log \in Seq(Tools), NEW more \in Seq(Tools), NEW gone \in Nat, NEW since \in Nat, NEW t
  PROVE  /\ Tells(t, log, gone, since) => Tells(t, log \o more, gone, since)
         /\ since <= gone + Len(log) /\ (\E i \in 1..Len(more) : more[i] = t)
              => Tells(t, log \o more, gone, since)
  <1> DEFINE both == log \o more
  <1>1. Len(log) \in Nat /\ Len(more) \in Nat /\ Len(both) = Len(log) + Len(more)
    BY ConcatProperties
  <1>2. \A i \in 1..Len(log) : both[i] = log[i]
    BY <1>1, ConcatProperties
  <1>3. \A i \in 1..Len(more) : both[Len(log) + i] = more[i]
    BY <1>1, ConcatProperties
  <1> HIDE DEF both
  <1>4. ASSUME Tells(t, log, gone, since) PROVE Tells(t, both, gone, since)
    BY <1>1, <1>2, <1>4 DEF Tells
  <1>5. ASSUME since <= gone + Len(log), NEW i \in 1..Len(more), more[i] = t PROVE Tells(t, both, gone, since)
    <2>1. Len(log) + i \in 1..Len(both) /\ gone + (Len(log) + i) > since
      BY <1>1, <1>5
    <2>2. both[Len(log) + i] = t
      BY <1>3, <1>5
    <2> QED
      BY <2>1, <2>2 DEF Tells
  <1> QED
    BY <1>4, <1>5 DEF both

\* The trim keeps the count and loses nothing it does not count.
LEMMA TrimKeeps ==
  ASSUME NEW log \in Seq(Tools), NEW gone \in Nat
  PROVE  LET short == Trimmed(log)
             lost == gone + Larger(Len(log) - Retention, 0)
         IN /\ short \in Seq(Tools) /\ Len(short) <= Retention /\ lost \in Nat
            /\ lost + Len(short) = gone + Len(log)
            /\ lost = 0 => gone = 0 /\ Len(short) = Len(log)
            /\ \A t : \A since \in Nat : Tells(t, log, gone, since) => Tells(t, short, lost, since)
  <1> USE PerceptionConstants
  <1> DEFINE cut == Larger(Len(log) - Retention, 0)
             short == Trimmed(log)
             lost == gone + cut
  <1>1. Len(log) \in Nat /\ cut \in Nat /\ cut <= Len(log) /\ Len(log) - cut <= Retention
    <2>1. Len(log) \in Nat /\ Retention \in Nat
      BY LenProperties
    <2> QED
      BY <2>1 DEF Larger
  <1>2. short = SubSeq(log, cut + 1, Len(log))
    BY DEF Trimmed
  <1> HIDE DEF cut, short
  <1>3. \A i \in (cut + 1)..Len(log) : log[i] \in Tools
    BY <1>1, ElementOfSeq
  <1>4. cut + 1 \in Int /\ Len(log) \in Int
    BY <1>1
  <1>5. /\ SubSeq(log, cut + 1, Len(log)) \in Seq(Tools)
        /\ Len(SubSeq(log, cut + 1, Len(log))) = IF cut + 1 <= Len(log) THEN Len(log) - (cut + 1) + 1 ELSE 0
        /\ \A i \in 1..(Len(log) - (cut + 1) + 1) : SubSeq(log, cut + 1, Len(log))[i] = log[cut + 1 + i - 1]
    BY <1>3, <1>4, SubSeqProperties
  <1>6. /\ short \in Seq(Tools) /\ Len(short) = Len(log) - cut
        /\ \A i \in 1..(Len(log) - cut) : short[i] = log[cut + i]
    BY <1>1, <1>2, <1>5
  <1>7. ASSUME NEW t, NEW since \in Nat, Tells(t, log, gone, since) PROVE Tells(t, short, gone + cut, since)
    <2>1. CASE gone > since
      BY <1>1, <2>1 DEF Tells
    <2>2. CASE \E i \in 1..Len(log) : gone + i > since /\ log[i] = t
      <3>1. PICK i \in 1..Len(log) : gone + i > since /\ log[i] = t
        BY <2>2
      <3>2. CASE i <= cut
        BY <1>1, <3>1, <3>2 DEF Tells
      <3>3. CASE i > cut
        <4>1. i - cut \in 1..Len(short) /\ (gone + cut) + (i - cut) > since
          BY <1>1, <1>6, <3>1, <3>3
        <4>2. short[i - cut] = t
          BY <1>1, <1>6, <3>1, <3>3
        <4> QED
          BY <4>1, <4>2 DEF Tells
      <3> QED
        BY <1>1, <3>1, <3>2, <3>3
    <2> QED
      BY <1>7, <2>1, <2>2 DEF Tells
  <1>8. short \in Seq(Tools) /\ Len(short) <= Retention /\ lost \in Nat /\ lost + Len(short) = gone + Len(log)
    BY <1>1, <1>6
  <1>9. lost = 0 => gone = 0 /\ Len(short) = Len(log)
    BY <1>1, <1>6
  <1> QED
    BY <1>7, <1>8, <1>9 DEF cut, short
-----------------------------------------------------------------------------
\* Observe: the view it leaves.
Drained == [i \in 1..Len(sink) |-> sink[i].source]
Changed == {t \in Attended \cap DOMAIN view.seen : view.seen[t] # world.value[t]}
Derived == Changed \ Sources({s \in Sunk : s.change})
Taken == DerivePropertyChanges(DrainSignals(SnapshotProperties))

LEMMA AttendedIsJoined ==
  ASSUME attn \in Attentions
  PROVE  Attended \subseteq attn.joined /\ Attended \subseteq Tools /\ Attended \cap attn.suppressed = {}
  BY DEF Attended, Target, Attentions

LEMMA DrainedIsHeard ==
  ASSUME sink \in Seq(Signal)
  PROVE  /\ Drained \in Seq(Tools) /\ Len(Drained) = Len(sink) /\ Sources(Sunk) \subseteq Tools
         /\ \A t \in Sources(Sunk) : \E i \in 1..Len(Drained) : Drained[i] = t
         /\ Sources(Sunk) # {} => Len(sink) > 0
  <1>1. Len(sink) \in Nat /\ \A i \in 1..Len(sink) : sink[i] \in Signal
    BY LenProperties, ElementOfSeq
  <1>2. \A i \in 1..Len(sink) : sink[i].source \in Tools
    BY <1>1 DEF Signal
  <1>3. Drained \in [1..Len(sink) -> Tools]
    BY <1>2 DEF Drained
  <1>4. Drained \in Seq(Tools) /\ Len(Drained) = Len(sink)
    BY <1>1, <1>3
  <1>5. Sources(Sunk) = {sink[i].source : i \in 1..Len(sink)}
    BY DEF Sources, Sunk
  <1>6. \A t \in Sources(Sunk) : \E i \in 1..Len(sink) : sink[i].source = t
    BY <1>5
  <1>7. \A i \in 1..Len(sink) : Drained[i] = sink[i].source
    BY DEF Drained
  <1>8. Sources(Sunk) \subseteq Tools /\ (Sources(Sunk) # {} => Len(sink) > 0)
    BY <1>1, <1>2, <1>6
  <1> QED
    BY <1>4, <1>6, <1>7, <1>8

LEMMA WhatIsTaken ==
  ASSUME PerceptionTypeOK
  PROVE  /\ Taken.props = [t \in Attended |-> world.value[t]]
         /\ Taken.seen = [t \in DOMAIN view.seen \cup Attended |->
                            IF t \in Attended THEN Taken.props[t] ELSE view.seen[t]]
         /\ Taken.signals = view.signals \o Drained /\ Taken.signalsGone = view.signalsGone
         /\ Taken.changes = view.changes \o SetToSeq(Derived) /\ Taken.changesGone = view.changesGone
         /\ Taken = [props |-> Taken.props, seen |-> Taken.seen, signals |-> Taken.signals,
                     signalsGone |-> Taken.signalsGone, changes |-> Taken.changes,
                     changesGone |-> Taken.changesGone]
  <1> DEFINE props == [t \in Attended |-> world.value[t]]
             one == [view EXCEPT !.props = props]
             two == [one EXCEPT !.signals = one.signals \o Drained]
             differs == {t \in Attended \cap DOMAIN two.seen : two.seen[t] # two.props[t]}
             derived == differs \ Sources({s \in Sunk : s.change})
             seen == [t \in DOMAIN two.seen \cup Attended |-> IF t \in Attended THEN two.props[t] ELSE two.seen[t]]
             three == [two EXCEPT !.changes = two.changes \o SetToSeq(derived), !.seen = seen]
  <1>1. Taken = three
    BY DEF Taken, DerivePropertyChanges, DrainSignals, SnapshotProperties, Drained
  <1>2. view \in [props : {view.props}, seen : {view.seen}, signals : Seq(Tools), signalsGone : Nat,
                  changes : Seq(Tools), changesGone : Nat]
    BY DEF PerceptionTypeOK, TypedView
  <1> HIDE DEF props
  <1>3. one = [props |-> props, seen |-> view.seen, signals |-> view.signals, signalsGone |-> view.signalsGone,
               changes |-> view.changes, changesGone |-> view.changesGone]
    BY <1>2
  <1>31. one.signals = view.signals
    BY <1>3
  <1> DEFINE heard == one.signals \o Drained
  <1> HIDE DEF one, heard
  <1>32. two = [one EXCEPT !.signals = heard] /\ heard = view.signals \o Drained
    BY <1>31 DEF heard
  <1> HIDE DEF two
  <1>4. two = [props |-> props, seen |-> view.seen, signals |-> heard,
               signalsGone |-> view.signalsGone, changes |-> view.changes, changesGone |-> view.changesGone]
    BY <1>3, <1>32
  <1>5. two.props = props /\ two.seen = view.seen /\ two.changes = view.changes
    BY <1>4
  <1>6. derived = Derived
    BY <1>5 DEF Derived, Changed, props
  <1>7. seen = [t \in DOMAIN view.seen \cup Attended |-> IF t \in Attended THEN props[t] ELSE view.seen[t]]
    BY <1>5
  <1> DEFINE told == two.changes \o SetToSeq(derived)
  <1>71. told = view.changes \o SetToSeq(derived) /\ three = [two EXCEPT !.changes = told, !.seen = seen]
    BY <1>5
  <1> HIDE DEF derived, seen, told, three
  <1>8. three = [props |-> props, seen |-> seen, signals |-> heard, signalsGone |-> view.signalsGone,
                 changes |-> told, changesGone |-> view.changesGone]
    BY <1>4, <1>71
  <1>9. /\ Taken.props = props /\ Taken.seen = seen
        /\ Taken.signals = view.signals \o Drained /\ Taken.signalsGone = view.signalsGone
        /\ Taken.changes = view.changes \o SetToSeq(derived) /\ Taken.changesGone = view.changesGone
    BY <1>1, <1>8, <1>32, <1>71
  <1>10. Taken = [props |-> Taken.props, seen |-> Taken.seen, signals |-> Taken.signals,
                  signalsGone |-> Taken.signalsGone, changes |-> Taken.changes, changesGone |-> Taken.changesGone]
    BY <1>1, <1>8
  <1> QED
    BY <1>6, <1>7, <1>9, <1>10 DEF props

\* What Observe leaves: the attended tools as they are, and both logs with the news.
Left == TrimLogs(Taken)
Heard(t) == \A since \in Nat :
  since <= view.signalsGone + Len(view.signals) => Tells(t, Left.signals, Left.signalsGone, since)
Noticed(t) == \A since \in Nat :
  since <= view.changesGone + Len(view.changes) => Tells(t, Left.changes, Left.changesGone, since)
NothingLost ==
  /\ \A t : \A since \in Nat : Tells(t, view.signals, view.signalsGone, since)
                            => Tells(t, Left.signals, Left.signalsGone, since)
  /\ \A t : \A since \in Nat : Tells(t, view.changes, view.changesGone, since)
                            => Tells(t, Left.changes, Left.changesGone, since)
  /\ view.signalsGone + Len(view.signals) <= Left.signalsGone + Len(Left.signals)
  /\ view.changesGone + Len(view.changes) <= Left.changesGone + Len(Left.changes)
  /\ Left.signalsGone = 0 => /\ view.signalsGone = 0
                             /\ Len(Left.signals) = Len(view.signals) + Len(sink)
                             /\ Len(Left.signals) = Len(Taken.signals)

LEMMA WhatIsLeft ==
  ASSUME PerceptionTypeOK
  PROVE  /\ TypedView(Left) /\ Cursor(Taken) = Cursor(Left)
         /\ Left.props = [t \in Attended |-> world.value[t]]
         /\ Left.seen = [t \in DOMAIN view.seen \cup Attended |->
                           IF t \in Attended THEN world.value[t] ELSE view.seen[t]]
         /\ NothingLost /\ (\A t \in Sources(Sunk) : Heard(t)) /\ (\A t \in Derived : Noticed(t))
  <1> USE PerceptionConstants
  <1>1. /\ world \in World /\ sink \in Seq(Signal) /\ attn \in Attentions /\ Versions(view.seen)
        /\ view.signals \in Seq(Tools) /\ view.changes \in Seq(Tools)
        /\ view.signalsGone \in Nat /\ view.changesGone \in Nat
    BY DEF PerceptionTypeOK, TypedView
  <1>2. Attended \subseteq Tools /\ Drained \in Seq(Tools) /\ Len(Drained) = Len(sink)
    BY <1>1, AttendedIsJoined, DrainedIsHeard
  <1>3. Derived \subseteq Tools /\ IsFiniteSet(Derived)
    <2>1. Derived \subseteq Tools
      BY <1>2 DEF Derived, Changed
    <2> QED
      BY <2>1, FS_Subset
  <1>4. SetToSeq(Derived) \in Seq(Tools) /\ \A t \in Derived : \E i \in 1..Len(SetToSeq(Derived)) : SetToSeq(Derived)[i] = t
    BY <1>3, EnumerationHasAll, SeqMonotonic
  <1> DEFINE signals == view.signals \o Drained
             changes == view.changes \o SetToSeq(Derived)
  <1>5. signals \in Seq(Tools) /\ changes \in Seq(Tools) /\ Len(signals) = Len(view.signals) + Len(sink)
        /\ Len(changes) = Len(view.changes) + Len(SetToSeq(Derived))
    <2>1. signals \in Seq(Tools) /\ Len(signals) = Len(view.signals) + Len(Drained)
      <3>1. view.signals \in Seq(Tools) /\ Drained \in Seq(Tools)
        BY <1>1, <1>2
      <3> QED
        BY <3>1, ConcatProperties
    <2>2. changes \in Seq(Tools) /\ Len(changes) = Len(view.changes) + Len(SetToSeq(Derived))
      BY <1>1, <1>4, ConcatProperties
    <2> QED
      BY <1>2, <2>1, <2>2
  <1>6. Left = [props |-> Taken.props, seen |-> Taken.seen, signals |-> Trimmed(signals),
                signalsGone |-> view.signalsGone + Larger(Len(signals) - Retention, 0),
                changes |-> Trimmed(changes),
                changesGone |-> view.changesGone + Larger(Len(changes) - Retention, 0)]
    <2> DEFINE v == Taken
    <2>1. v = [props |-> v.props, seen |-> v.seen, signals |-> signals, signalsGone |-> view.signalsGone,
               changes |-> changes, changesGone |-> view.changesGone]
      BY WhatIsTaken
    <2> HIDE DEF v, signals, changes
    <2>2. Left = TrimLogs(v)
      BY DEF Left, v
    <2>21. v.signals = signals /\ v.changes = changes /\ v.signalsGone = view.signalsGone
           /\ v.changesGone = view.changesGone
      BY <2>1
    <2> DEFINE shortS == Trimmed(v.signals)
               goneS == v.signalsGone + Larger(Len(v.signals) - Retention, 0)
               shortC == Trimmed(v.changes)
               goneC == v.changesGone + Larger(Len(v.changes) - Retention, 0)
    <2>22. TrimLogs(v) = [v EXCEPT !.signals = shortS, !.signalsGone = goneS, !.changes = shortC, !.changesGone = goneC]
      BY DEF TrimLogs
    <2>23. shortS = Trimmed(signals) /\ goneS = view.signalsGone + Larger(Len(signals) - Retention, 0)
           /\ shortC = Trimmed(changes) /\ goneC = view.changesGone + Larger(Len(changes) - Retention, 0)
      BY <2>21
    <2> HIDE DEF shortS, goneS, shortC, goneC
    <2>24. TrimLogs(v) = [props |-> v.props, seen |-> v.seen, signals |-> shortS, signalsGone |-> goneS,
                          changes |-> shortC, changesGone |-> goneC]
      BY <2>1, <2>22
    <2>3. TrimLogs(v) = [props |-> v.props, seen |-> v.seen, signals |-> Trimmed(signals),
                signalsGone |-> view.signalsGone + Larger(Len(signals) - Retention, 0),
                changes |-> Trimmed(changes),
                changesGone |-> view.changesGone + Larger(Len(changes) - Retention, 0)]
      BY <2>23, <2>24
    <2> QED
      BY <2>2, <2>3 DEF v
  <1>7. Taken.signals = signals /\ Taken.changes = changes /\ Taken.signalsGone = view.signalsGone
        /\ Taken.changesGone = view.changesGone
    BY WhatIsTaken
  <1>8. /\ Taken.props = [t \in Attended |-> world.value[t]]
        /\ Taken.seen = [t \in DOMAIN view.seen \cup Attended |->
                           IF t \in Attended THEN world.value[t] ELSE view.seen[t]]
    <2>1. Taken.props = [t \in Attended |-> world.value[t]]
      BY WhatIsTaken
    <2>2. Taken.seen = [t \in DOMAIN view.seen \cup Attended |->
                            IF t \in Attended THEN Taken.props[t] ELSE view.seen[t]]
      BY WhatIsTaken
    <2> QED
      BY <2>1, <2>2
  <1> HIDE DEF signals, changes
  <1>9. /\ Trimmed(signals) \in Seq(Tools) /\ Len(Trimmed(signals)) <= Retention
        /\ Left.signalsGone \in Nat /\ Left.signalsGone + Len(Trimmed(signals)) = view.signalsGone + Len(signals)
        /\ Left.signalsGone = 0 => view.signalsGone = 0 /\ Len(Trimmed(signals)) = Len(signals)
        /\ \A t : \A since \in Nat : Tells(t, signals, view.signalsGone, since)
                                   => Tells(t, Trimmed(signals), Left.signalsGone, since)
    BY <1>1, <1>5, <1>6, TrimKeeps
  <1>10. /\ Trimmed(changes) \in Seq(Tools) /\ Len(Trimmed(changes)) <= Retention
         /\ Left.changesGone \in Nat /\ Left.changesGone + Len(Trimmed(changes)) = view.changesGone + Len(changes)
         /\ \A t : \A since \in Nat : Tells(t, changes, view.changesGone, since)
                                   => Tells(t, Trimmed(changes), Left.changesGone, since)
    BY <1>1, <1>5, <1>6, TrimKeeps
  <1>11. Left.signals = Trimmed(signals) /\ Left.changes = Trimmed(changes) /\ Left.props = Taken.props /\ Left.seen = Taken.seen
    BY <1>6
  <1>12. Cursor(Taken) = Cursor(Left)
    BY <1>7, <1>9, <1>10, <1>11 DEF Cursor
  <1>13. Versions(Left.props) /\ Versions(Left.seen)
    <2>1. \A t \in Tools : world.value[t] \in Nat
      BY <1>1 DEF World
    <2> QED
      BY <1>1, <1>2, <1>8, <1>11, <2>1 DEF Versions
  <1>14. TypedView(Left)
    <2>1. Left \in [props : {Left.props}, seen : {Left.seen}, signals : Seq(Tools), signalsGone : Nat,
            changes : Seq(Tools), changesGone : Nat]
      BY <1>6, <1>9, <1>10, <1>11
    <2> QED
      BY <1>9, <1>10, <1>11, <1>13, <2>1 DEF TypedView
  <1>15. Len(sink) \in Nat /\ Len(view.signals) \in Nat /\ Len(view.changes) \in Nat /\ Len(SetToSeq(Derived)) \in Nat
    BY <1>1, <1>4, LenProperties
  <1>16. /\ \A t : \A since \in Nat : Tells(t, view.signals, view.signalsGone, since) => Tells(t, signals, view.signalsGone, since)
         /\ \A t : \A since \in Nat : Tells(t, view.changes, view.changesGone, since) => Tells(t, changes, view.changesGone, since)
    BY <1>1, <1>2, <1>4, TellsMore DEF signals, changes
  <1>17. NothingLost
    <2>1. /\ \A t : \A since \in Nat : Tells(t, view.signals, view.signalsGone, since)
                                        => Tells(t, Left.signals, Left.signalsGone, since)
          /\ \A t : \A since \in Nat : Tells(t, view.changes, view.changesGone, since)
                                        => Tells(t, Left.changes, Left.changesGone, since)
      BY <1>9, <1>10, <1>11, <1>16
    <2>2. Len(Left.signals) = Len(Trimmed(signals)) /\ Len(Left.changes) = Len(Trimmed(changes))
          /\ Len(Taken.signals) = Len(signals)
      BY <1>7, <1>11
    <2>3. view.signalsGone + Len(view.signals) <= Left.signalsGone + Len(Left.signals)
          /\ view.changesGone + Len(view.changes) <= Left.changesGone + Len(Left.changes)
      <3>1. Left.signalsGone + Len(Left.signals) = view.signalsGone + (Len(view.signals) + Len(sink))
        BY <1>5, <1>9, <2>2
      <3>2. Left.changesGone + Len(Left.changes) = view.changesGone + (Len(view.changes) + Len(SetToSeq(Derived)))
        BY <1>5, <1>10, <2>2
      <3> QED
        BY <1>1, <1>15, <3>1, <3>2
    <2>4. Left.signalsGone = 0 => /\ view.signalsGone = 0
                                  /\ Len(Left.signals) = Len(view.signals) + Len(sink)
                                  /\ Len(Left.signals) = Len(Taken.signals)
      BY <1>5, <1>9, <2>2
    <2> QED
      BY <2>1, <2>3, <2>4 DEF NothingLost
  <1>18. ASSUME NEW t \in Sources(Sunk) PROVE Heard(t)
    <2>1. \A since \in Nat : since <= view.signalsGone + Len(view.signals) => Tells(t, signals, view.signalsGone, since)
      BY <1>1, <1>2, DrainedIsHeard, TellsMore DEF signals
    <2> QED
      BY <1>9, <1>11, <2>1 DEF Heard
  <1>19. ASSUME NEW t \in Derived PROVE Noticed(t)
    <2>1. \A since \in Nat : since <= view.changesGone + Len(view.changes) => Tells(t, changes, view.changesGone, since)
      BY <1>1, <1>4, TellsMore DEF changes
    <2> QED
      BY <1>10, <1>11, <2>1 DEF Noticed
  <1> QED
    BY <1>8, <1>11, <1>12, <1>14, <1>17, <1>18, <1>19
-----------------------------------------------------------------------------
\* Observe: what the plan owes after it.
News == world.foreign \cap Attended \cap DOMAIN view.seen

LEMMA NewsIsToldAndNewer ==
  ASSUME PerceptionTypeOK, Current(world, view)
  PROVE  /\ News \subseteq Derived \cup Sources(Sunk)
         /\ \A t \in News : t \in DOMAIN view.seen /\ view.seen[t] < Left.seen[t] /\ t \in Tools
         /\ \A t \in DOMAIN view.seen : t \in DOMAIN Left.seen /\ view.seen[t] <= Left.seen[t]
  <1>1. world \in World /\ Versions(view.seen)
    BY DEF PerceptionTypeOK, TypedView
  <1>2. Left.seen = [t \in DOMAIN view.seen \cup Attended |->
                           IF t \in Attended THEN world.value[t] ELSE view.seen[t]]
    BY WhatIsLeft
  <1>3. \A t \in DOMAIN view.seen : t \in Tools /\ view.seen[t] \in Nat /\ world.value[t] \in Nat
    BY <1>1 DEF World, Versions
  <1>4. \A t \in DOMAIN view.seen : view.seen[t] <= world.value[t] /\ (t \in world.foreign => view.seen[t] < world.value[t])
    BY DEF Current
  <1>5. News \subseteq Changed
    BY <1>3, <1>4 DEF News, Changed
  <1>6. Sources({s \in Sunk : s.change}) \subseteq Sources(Sunk)
    BY DEF Sources
  <1>7. News \subseteq Derived \cup Sources(Sunk)
    BY <1>5, <1>6 DEF Derived
  <1>8. \A t \in News : t \in DOMAIN view.seen /\ view.seen[t] < Left.seen[t] /\ t \in Tools
    BY <1>2, <1>3, <1>4 DEF News
  <1>9. \A t \in DOMAIN view.seen : t \in DOMAIN Left.seen /\ view.seen[t] <= Left.seen[t]
    BY <1>2, <1>3, <1>4
  <1> QED
    BY <1>7, <1>8, <1>9

\* The old base and what came after it, with what this drain adds.
LEMMA BaseStaysBehind ==
  ASSUME PerceptionTypeOK, Current(world, view), NEW base, Signed(base), MovedSince(base, view, due),
         NEW d \in Dues, d.state \subseteq due.state \cup News, d.voice \subseteq due.voice \cup Sources(Sunk)
  PROVE  MovedSince(base, Left, d)
  <1>1. /\ view.signals \in Seq(Tools) /\ sink \in Seq(Signal) /\ Versions(view.seen)
    BY DEF PerceptionTypeOK, TypedView
  <1>2. Len(view.signals) \in Nat /\ Len(sink) \in Nat /\ base[2] \in Nat
    BY <1>1 DEF Signed
  <1>3. TypedView(Left) /\ NothingLost
    BY WhatIsLeft
  <1>4. \A t \in DOMAIN Left.seen : Left.seen[t] \in Nat
    BY <1>3 DEF TypedView, Versions
  <1>5. \A t \in DOMAIN view.seen : view.seen[t] \in Nat
    BY <1>1 DEF Versions
  <1>6. \A t \in DOMAIN base[1] : t \in DOMAIN view.seen /\ base[1][t] <= view.seen[t] /\ base[1][t] \in Nat
    BY DEF MovedSince, Signed, Versions
  <1>7. \A t \in DOMAIN base[1] : t \in DOMAIN Left.seen /\ base[1][t] <= Left.seen[t]
    <2> SUFFICES ASSUME NEW t \in DOMAIN base[1] PROVE t \in DOMAIN Left.seen /\ base[1][t] <= Left.seen[t]
      OBVIOUS
    <2>1. t \in DOMAIN Left.seen /\ view.seen[t] <= Left.seen[t]
      BY <1>6, NewsIsToldAndNewer
    <2> QED
      BY <1>4, <1>5, <1>6, <2>1
  <1>8. \A t \in d.state \cap DOMAIN base[1] : base[1][t] < Left.seen[t]
    <2> SUFFICES ASSUME NEW t \in d.state \cap DOMAIN base[1] PROVE base[1][t] < Left.seen[t]
      OBVIOUS
    <2>1. t \in DOMAIN view.seen /\ t \in DOMAIN Left.seen /\ view.seen[t] <= Left.seen[t]
      BY <1>6, NewsIsToldAndNewer
    <2>2. CASE t \in due.state
      <3>1. base[1][t] < view.seen[t]
        BY <2>2 DEF MovedSince
      <3> QED
        BY <1>4, <1>5, <1>6, <2>1, <3>1
    <2>3. CASE t \in News
      <3>1. view.seen[t] < Left.seen[t]
        BY <2>3, NewsIsToldAndNewer
      <3> QED
        BY <1>4, <1>5, <1>6, <2>1, <3>1
    <2> QED
      BY <2>2, <2>3
  <1>9. ASSUME Left.signalsGone = 0
        PROVE  base[2] <= Len(Left.signals) /\ (d.voice # {} => base[2] < Len(Left.signals))
    <2>1. view.signalsGone = 0 /\ Len(Left.signals) = Len(view.signals) + Len(sink)
      BY <1>3, <1>9 DEF NothingLost
    <2>2. base[2] <= Len(view.signals) /\ (due.voice # {} => base[2] < Len(view.signals))
      BY <2>1 DEF MovedSince
    <2>3. Sources(Sunk) # {} => Len(sink) > 0
      BY <1>1, DrainedIsHeard
    <2>4. d.voice # {} => due.voice # {} \/ Sources(Sunk) # {}
      OBVIOUS
    <2> QED
      BY <1>2, <2>1, <2>2, <2>3, <2>4
  <1> QED
    BY <1>7, <1>8, <1>9 DEF MovedSince

LEMMA CursorStaysBehind ==
  ASSUME PerceptionTypeOK, Current(world, view), NEW since \in Cursors, ToldSince(since, view, due),
         NEW d \in Dues, d.state \subseteq due.state \cup News, d.voice \subseteq due.voice \cup Sources(Sunk)
  PROVE  ToldSince(since, Left, d)
  <1>1. /\ view.signals \in Seq(Tools) /\ view.changes \in Seq(Tools)
        /\ view.signalsGone \in Nat /\ view.changesGone \in Nat
    BY DEF PerceptionTypeOK, TypedView
  <1>2. since[1] \in Nat /\ since[2] \in Nat /\ Len(view.signals) \in Nat /\ Len(view.changes) \in Nat
    BY <1>1 DEF Cursors
  <1>3. /\ NothingLost /\ TypedView(Left) /\ (\A t \in Sources(Sunk) : Heard(t)) /\ (\A t \in Derived : Noticed(t))
    BY WhatIsLeft
  <1>4. since[1] <= view.signalsGone + Len(view.signals) /\ since[2] <= view.changesGone + Len(view.changes)
    BY DEF ToldSince
  <1>5. \A t \in Sources(Sunk) : Tells(t, Left.signals, Left.signalsGone, since[1])
    BY <1>2, <1>3, <1>4 DEF Heard
  <1>6. \A t \in Derived : Tells(t, Left.changes, Left.changesGone, since[2])
    BY <1>2, <1>3, <1>4 DEF Noticed
  <1>7. \A t \in due.state : \/ Tells(t, Left.signals, Left.signalsGone, since[1])
                             \/ Tells(t, Left.changes, Left.changesGone, since[2])
    BY <1>2, <1>3 DEF ToldSince, NothingLost
  <1>8. \A t \in d.state : \/ Tells(t, Left.signals, Left.signalsGone, since[1])
                           \/ Tells(t, Left.changes, Left.changesGone, since[2])
    BY <1>5, <1>6, <1>7, NewsIsToldAndNewer
  <1>9. Left.signalsGone = 0 => \A t \in d.voice : Tells(t, Left.signals, Left.signalsGone, since[1])
    <2>1. ASSUME Left.signalsGone = 0, NEW t \in due.voice PROVE Tells(t, Left.signals, Left.signalsGone, since[1])
      <3>1. view.signalsGone = 0
        BY <1>3, <2>1 DEF NothingLost
      <3>2. Tells(t, view.signals, view.signalsGone, since[1])
        BY <2>1, <3>1 DEF ToldSince
      <3> QED
        BY <1>2, <1>3, <3>2 DEF NothingLost
    <2> QED
      BY <1>5, <2>1
  <1>10. since[1] <= Left.signalsGone + Len(Left.signals) /\ since[2] <= Left.changesGone + Len(Left.changes)
    <2>1. view.signalsGone + Len(view.signals) <= Left.signalsGone + Len(Left.signals)
          /\ view.changesGone + Len(view.changes) <= Left.changesGone + Len(Left.changes)
      BY <1>3 DEF NothingLost
    <2>2. Left.signals \in Seq(Tools) /\ Left.changes \in Seq(Tools) /\ Left.signalsGone \in Nat /\ Left.changesGone \in Nat
      BY <1>3 DEF TypedView
    <2>3. Len(Left.signals) \in Nat /\ Len(Left.changes) \in Nat
      BY <2>2
    <2> DEFINE m1 == view.signalsGone + Len(view.signals)
               m2 == view.changesGone + Len(view.changes)
               n1 == Left.signalsGone + Len(Left.signals)
               n2 == Left.changesGone + Len(Left.changes)
    <2>4. m1 \in Nat /\ m2 \in Nat /\ n1 \in Nat /\ n2 \in Nat
      <3>1. Left.signalsGone \in Nat /\ Left.changesGone \in Nat
        BY <2>2
      <3>2. n1 \in Nat /\ n2 \in Nat
        BY <2>3, <3>1
      <3>3. view.signalsGone \in Nat /\ view.changesGone \in Nat /\ Len(view.signals) \in Nat /\ Len(view.changes) \in Nat
        BY <1>1, <1>2
      <3>4. m1 \in Nat /\ m2 \in Nat
        BY <3>3
      <3> QED
        BY <3>2, <3>4
    <2>5. since[1] <= m1 /\ since[2] <= m2 /\ m1 <= n1 /\ m2 <= n2
      BY <1>4, <2>1
    <2> HIDE DEF m1, m2, n1, n2
    <2>6. since[1] <= n1 /\ since[2] <= n2
      BY <1>2, <2>4, <2>5
    <2> QED
      BY <2>6 DEF n1, n2
  <1> QED
    BY <1>8, <1>9, <1>10 DEF ToldSince
-----------------------------------------------------------------------------
\* Observe as a whole.
Absorbed == Absorbs(Rebaseline)
Told == [act EXCEPT !.anchor = IF Absorbed THEN Signature(Taken) ELSE Rebaseline,
                    !.scope = IF Absorbed THEN Cursor(Taken) ELSE @]

LEMMA SnapshotSignature ==
  ASSUME PerceptionTypeOK
  PROVE  /\ Signature(SnapshotProperties) = <<Left.props, Len(view.signals)>>
         /\ Signature(Taken) = <<Left.props, Len(Taken.signals)>>
         /\ Signed(Signature(SnapshotProperties)) /\ Signed(Signature(Taken))
         /\ \A t \in DOMAIN Left.props : t \in DOMAIN Left.seen /\ Left.props[t] = Left.seen[t] /\ Left.props[t] \in Nat
  <1>1. Left.props = [t \in Attended |-> world.value[t]] /\ TypedView(Left)
        /\ Left.seen = [t \in DOMAIN view.seen \cup Attended |-> IF t \in Attended THEN world.value[t] ELSE view.seen[t]]
    BY WhatIsLeft
  <1>2. Taken.props = [t \in Attended |-> world.value[t]] /\ Taken.signals = view.signals \o Drained
    BY WhatIsTaken
  <1>3. SnapshotProperties.props = [t \in Attended |-> world.value[t]] /\ SnapshotProperties.signals = view.signals
    BY DEF SnapshotProperties, PerceptionTypeOK, TypedView
  <1>4. view.signals \in Seq(Tools) /\ sink \in Seq(Signal)
    BY DEF PerceptionTypeOK, TypedView
  <1>5. Drained \in Seq(Tools)
    BY <1>4, DrainedIsHeard
  <1>6. view.signals \o Drained \in Seq(Tools)
    BY <1>4, <1>5, ConcatProperties
  <1>7. Len(view.signals) \in Nat /\ Len(Taken.signals) \in Nat
    BY <1>2, <1>4, <1>6, LenProperties
  <1>8. Versions(Left.props)
    BY <1>1 DEF TypedView
  <1>9. Signature(SnapshotProperties) = <<Left.props, Len(view.signals)>> /\ Signature(Taken) = <<Left.props, Len(Taken.signals)>>
    BY <1>1, <1>2, <1>3 DEF Signature
  <1>10. Signed(Signature(SnapshotProperties)) /\ Signed(Signature(Taken))
    BY <1>7, <1>8, <1>9 DEF Signed
  <1>11. \A t \in DOMAIN Left.props : Left.props[t] \in Nat
    BY <1>8 DEF Versions
  <1>12. \A t \in DOMAIN Left.props : t \in DOMAIN Left.seen /\ Left.props[t] = Left.seen[t]
    BY <1>1
  <1> QED
    BY <1>9, <1>10, <1>11, <1>12

LEMMA OwingIs ==
  ASSUME PerceptionTypeOK
  PROVE  /\ Owing(Absorbed) \in Dues /\ Owing(Absorbed).commit = None
         /\ Owing(Absorbed).state \subseteq due.state \cup News
         /\ Owing(Absorbed).voice \subseteq due.voice \cup Sources(Sunk)
         /\ Rebaselined => Owing(Absorbed).state = {} /\ Owing(Absorbed).voice \subseteq Sources(Sunk)
         /\ Absorbed => /\ Owing(Absorbed).state \subseteq due.state \cap DOMAIN view.props
                        /\ Owing(Absorbed).voice = IF Rebaselined THEN {} ELSE due.voice
  <1> DEFINE voices == Sources({s \in Sunk : ~s.own /\ ~s.change})
             old == IF Rebaselined THEN NothingDue ELSE due
             state == IF Absorbed THEN old.state \cap DOMAIN view.props
                      ELSE old.state \cup (IF Rebaselined THEN {} ELSE News)
             voice == old.voice \cup (IF Absorbed THEN {} ELSE voices)
  <1>1. Owing(Absorbed) = [state |-> state, voice |-> voice, commit |-> None]
    BY DEF Owing, News
  <1>2. due \in Dues /\ sink \in Seq(Signal) /\ attn \in Attentions
    BY DEF PerceptionTypeOK
  <1>3. voices \subseteq Sources(Sunk)
    BY DEF Sources
  <1>4. Sources(Sunk) \subseteq Tools /\ News \subseteq Tools
    BY <1>2, AttendedIsJoined, DrainedIsHeard DEF News
  <1> HIDE DEF voices
  <1>5. old \in Dues /\ old.state \subseteq due.state /\ old.voice \subseteq due.voice
        /\ (Rebaselined => old.state = {} /\ old.voice = {}) /\ (~Rebaselined => old = due)
    BY <1>2 DEF Dues, NothingDue
  <1>6. old.state \in SUBSET Tools /\ old.voice \in SUBSET Tools
    BY <1>5 DEF Dues
  <1> HIDE DEF old
  <1>7. state \in SUBSET Tools /\ voice \in SUBSET Tools
    BY <1>3, <1>4, <1>6
  <1>8. /\ state \subseteq due.state \cup News /\ voice \subseteq due.voice \cup Sources(Sunk)
        /\ Rebaselined => state = {} /\ voice \subseteq Sources(Sunk)
        /\ Absorbed => state \subseteq due.state \cap DOMAIN view.props
        /\ Absorbed => voice = IF Rebaselined THEN {} ELSE due.voice
    BY <1>3, <1>5
  <1> HIDE DEF state, voice
  <1>9. Owing(Absorbed) \in Dues
    BY <1>1, <1>7 DEF Dues
  <1> QED
    BY <1>1, <1>8, <1>9

\* The accounts after the absorption and before the reply is resolved.
LEMMA ToldAccounts ==
  ASSUME PerceptionInv
  PROVE  /\ TypedAct(Told) /\ Told.at = act.at /\ Told.asked = act.asked /\ Told.reply = act.reply
         /\ Base(Told) # None => MovedSince(Base(Told), Left, Owing(Absorbed))
         /\ Since(Told) # None => ToldSince(Since(Told), Left, Owing(Absorbed))
  <1> USE PerceptionConstants
  <1>1. /\ PerceptionTypeOK /\ TypedView(view) /\ TypedAct(act) /\ due \in Dues /\ Current(world, view) /\ Accounts
        /\ view.signals \in Seq(Tools)
    BY DEF PerceptionInv, NoStaleView, PerceptionTypeOK, TypedView
  <1> DEFINE d == Owing(Absorbed)
             anchor == IF Absorbed THEN Signature(Taken) ELSE Rebaseline
             scope == IF Absorbed THEN Cursor(Taken) ELSE act.scope
  <1>2. Told = [act EXCEPT !.anchor = anchor, !.scope = scope]
    BY DEF Told
  <1>3. Signed(Signature(SnapshotProperties)) /\ Signed(Signature(Taken))
    BY <1>1, SnapshotSignature
  <1>4. Cursor(Taken) = Cursor(Left) /\ TypedView(Left) /\ NothingLost
    BY <1>1, WhatIsLeft
  <1>5. Cursor(Taken) \in Cursors
    <2>1. Left.signals \in Seq(Tools) /\ Left.changes \in Seq(Tools) /\ Left.signalsGone \in Nat /\ Left.changesGone \in Nat
      BY <1>4 DEF TypedView
    <2>2. Len(Left.signals) \in Nat /\ Len(Left.changes) \in Nat
      BY <2>1
    <2> QED
      BY <1>4, <2>1, <2>2 DEF Cursor, Cursors
  <1>6. Absorbed => /\ act.at = "acting" /\ act.anchor # None
                    /\ Rebaseline # None /\ Signature(view) = Rebaseline
    BY <1>1, <1>3, SignedIsSomething DEF Absorbed, Absorbs, SignatureBeforeDrain, Rebaseline, Rebaselined
  <1>7. Rebaseline = IF Rebaselined THEN Signature(SnapshotProperties) ELSE act.anchor
    BY DEF Rebaseline
  <1>8. anchor = None \/ Signed(anchor)
    BY <1>1, <1>3, <1>7 DEF TypedAct
  <1>9. anchor = None <=> act.anchor = None
    BY <1>3, <1>6, <1>7, SignedIsSomething DEF Rebaselined
  <1>10. scope \in Cursors \cup {None} /\ (anchor = None => scope = act.scope)
    BY <1>1, <1>3, <1>5, SignedIsSomething DEF TypedAct
  <1>11. /\ d \in Dues /\ d.state \subseteq due.state \cup News /\ d.voice \subseteq due.voice \cup Sources(Sunk)
         /\ Rebaselined => d.state = {} /\ d.voice \subseteq Sources(Sunk)
         /\ Absorbed => /\ d.state \subseteq due.state \cap DOMAIN view.props
                        /\ d.voice = IF Rebaselined THEN {} ELSE due.voice
    BY <1>1, OwingIs
  <1> HIDE DEF d, anchor, scope
  <1>12. TypedAct(Told)
    BY <1>1, <1>2, <1>8, <1>9, <1>10 DEF TypedAct
  <1>13. Told.at = act.at /\ Told.asked = act.asked /\ Told.reply = act.reply /\ Told.anchor = anchor /\ Told.scope = scope
    BY <1>1, <1>2 DEF TypedAct
  <1>14. CASE Absorbed
    <2>1. Base(Told) = Signature(Taken) /\ Since(Told) = Cursor(Left) /\ Base(act) = act.anchor
      BY <1>4, <1>6, <1>13, <1>14 DEF Base, Since, anchor, scope
    <2>2. d.state = {} /\ (view.signalsGone = 0 => d.voice = {})
      <3>1. CASE Rebaselined
        BY <1>11, <1>14, <3>1
      <3>2. CASE ~Rebaselined
        <4>1. MovedSince(Signature(view), view, due)
          BY <1>1, <1>6, <1>7, <1>14, <2>1, <3>2 DEF Accounts
        <4>2. due.state \cap DOMAIN view.props = {} /\ (view.signalsGone = 0 => due.voice = {})
          BY <1>1, <4>1, ShutGateOwesNothing
        <4> QED
          BY <1>11, <1>14, <3>2, <4>2
      <3> QED
        BY <3>1, <3>2
    <2>3. Signature(Taken)[1] = Left.props /\ Signature(Taken)[2] = Len(Taken.signals)
          /\ \A t \in DOMAIN Left.props : t \in DOMAIN Left.seen /\ Left.props[t] = Left.seen[t] /\ Left.props[t] \in Nat
      BY <1>1, SnapshotSignature
    <2>4. Left.signalsGone = 0 => view.signalsGone = 0 /\ Len(Left.signals) = Len(Taken.signals)
      BY <1>4 DEF NothingLost
    <2>5. Len(Left.signals) \in Nat /\ Len(Left.changes) \in Nat /\ Left.signalsGone \in Nat /\ Left.changesGone \in Nat
      <3>1. Left.signals \in Seq(Tools) /\ Left.changes \in Seq(Tools) /\ Left.signalsGone \in Nat /\ Left.changesGone \in Nat
        BY <1>4 DEF TypedView
      <3> QED
        BY <3>1
    <2>6. MovedSince(Signature(Taken), Left, d)
      BY <2>2, <2>3, <2>4, <2>5 DEF MovedSince
    <2>7. ToldSince(Cursor(Left), Left, d)
      <3>1. Left.signalsGone = 0 => d.voice = {}
        BY <2>2, <2>4
      <3> QED
        BY <2>2, <2>5, <3>1 DEF ToldSince, Cursor
    <2> QED
      BY <1>12, <1>13, <2>1, <2>6, <2>7 DEF d
  <1>15. CASE ~Absorbed
    <2>1. Since(Told) = Since(act)
      BY <1>13, <1>15 DEF Since, scope
    <2>2. Since(act) # None => Since(act) \in Cursors
      BY <1>1 DEF Since, TypedAct
    <2>3. Since(Told) # None => ToldSince(Since(Told), Left, d)
      BY <1>1, <1>11, <2>1, <2>2, CursorStaysBehind DEF Accounts
    <2>4. CASE ~Rebaselined \/ act.at \in {"planning", "checking"}
      <3>1. Base(Told) = Base(act)
        BY <1>7, <1>13, <1>15, <2>4 DEF Base, anchor
      <3>2. Base(act) # None => Signed(Base(act))
        BY <1>1 DEF Base, TypedAct
      <3>3. Base(Told) # None => MovedSince(Base(Told), Left, d)
        BY <1>1, <1>11, <3>1, <3>2, BaseStaysBehind DEF Accounts
      <3> QED
        BY <1>12, <1>13, <2>3, <3>3 DEF d
    <2>5. CASE Rebaselined /\ act.at \notin {"planning", "checking"}
      <3>1. Base(Told) = Signature(SnapshotProperties)
        BY <1>7, <1>13, <1>15, <2>5 DEF Base, anchor
      <3>2. Base(Told)[1] = Left.props /\ Base(Told)[2] = Len(view.signals)
            /\ \A t \in DOMAIN Left.props : t \in DOMAIN Left.seen /\ Left.props[t] = Left.seen[t] /\ Left.props[t] \in Nat
        BY <1>1, <3>1, SnapshotSignature
      <3>3. d.state = {} /\ d.voice \subseteq Sources(Sunk)
        BY <1>11, <2>5
      <3>4. Len(view.signals) \in Nat /\ Len(sink) \in Nat /\ (Sources(Sunk) # {} => Len(sink) > 0)
        <4>1. sink \in Seq(Signal)
          BY <1>1 DEF PerceptionTypeOK
        <4> QED
          BY <1>1, <4>1, DrainedIsHeard
      <3>5. Left.signalsGone = 0 => Len(Left.signals) = Len(view.signals) + Len(sink)
        BY <1>4 DEF NothingLost
      <3>6. Left.signalsGone = 0 => Base(Told)[2] <= Len(Left.signals) /\ (d.voice # {} => Base(Told)[2] < Len(Left.signals))
        BY <3>2, <3>3, <3>4, <3>5
      <3>7. MovedSince(Base(Told), Left, d)
        BY <3>2, <3>3, <3>6 DEF MovedSince
      <3> QED
        BY <1>12, <1>13, <2>3, <3>7 DEF d
    <2> QED
      BY <2>4, <2>5
  <1> QED
    BY <1>14, <1>15

\* What becomes of an activity whose work is done.
LEMMA MadeReady ==
  ASSUME NEW b, b \in [at : {b.at}, step : {b.step}, landed : {b.landed}, reply : {b.reply}, asked : {b.asked},
                       plan : {b.plan}, anchor : {b.anchor}, scope : {b.scope}, verdict : {b.verdict}]
  PROVE  Ready(b) \in [at : {"ready"}, step : {None}, landed : {FALSE}, reply : {None}, asked : {None},
                       plan : {b.plan}, anchor : {b.anchor}, scope : {b.scope}, verdict : {b.verdict}]
  BY DEF Ready

\* A reply settles into what was told, or into nothing.
LEMMA Settles ==
  ASSUME NEW a, TypedAct(a)
  PROVE  /\ TypedAct(Resolved(a))
         /\ Base(Resolved(a)) \in {None, Base(a)} /\ Since(Resolved(a)) \in {None, Since(a)}
  <1> USE PerceptionConstants
  <1>0. a \in [at : {a.at}, step : {a.step}, landed : {a.landed}, reply : {a.reply}, asked : {a.asked},
               plan : {a.plan}, anchor : {a.anchor}, scope : {a.scope}, verdict : {a.verdict}]
    BY DEF TypedAct
  <1>1. CASE a.reply = None
    BY <1>1 DEF Resolved
  <1>2. CASE a.reply # None /\ a.at = "checking"
    <2> DEFINE b == [a EXCEPT !.verdict = a.reply, !.anchor = a.asked[1]]
               r == Ready(b)
    <2>1. Resolved(a) = r
      BY <1>2 DEF Resolved
    <2>2. Signed(a.asked[1]) /\ a.asked[1] # None
      BY <1>2, SignedIsSomething DEF TypedAct
    <2>21. /\ b \in [at : {b.at}, step : {b.step}, landed : {b.landed}, reply : {b.reply}, asked : {b.asked},
                     plan : {b.plan}, anchor : {b.anchor}, scope : {b.scope}, verdict : {b.verdict}]
           /\ b.plan = a.plan /\ b.anchor = a.asked[1] /\ b.scope = a.scope /\ b.verdict = a.reply
      BY <1>0
    <2> HIDE DEF b
    <2>3. r \in [at : {"ready"}, step : {None}, landed : {FALSE}, reply : {None}, asked : {None}, plan : {a.plan},
                 anchor : {a.asked[1]}, scope : {a.scope}, verdict : {a.reply}]
      BY <2>21, MadeReady
    <2> HIDE DEF r
    <2>4. TypedAct(r)
      BY <1>2, <2>2, <2>3 DEF TypedAct
    <2>5. Base(r) = Base(a) /\ Since(r) = Since(a)
      BY <1>2, <2>3 DEF Base, Since
    <2> QED
      BY <2>1, <2>4, <2>5
  <1>3. CASE a.reply # None /\ a.at # "checking" /\ ~a.reply
    <2>1. Resolved(a) = Unplanned
      BY <1>3 DEF Resolved
    <2>2. TypedAct(Unplanned) /\ Base(Unplanned) = None /\ Since(Unplanned) = None
      BY DEF TypedAct, Unplanned, Base, Since
    <2> QED
      BY <2>1, <2>2
  <1>4. CASE a.reply # None /\ a.at = "acting" /\ a.reply
    <2> DEFINE r == Ready(a)
    <2>1. Resolved(a) = r
      BY <1>4 DEF Resolved
    <2>2. r \in [at : {"ready"}, step : {None}, landed : {FALSE}, reply : {None}, asked : {None}, plan : {a.plan},
                 anchor : {a.anchor}, scope : {a.scope}, verdict : {a.verdict}]
      BY <1>0, MadeReady
    <2> HIDE DEF r
    <2>3. TypedAct(r)
      BY <1>4, <2>2 DEF TypedAct
    <2>4. Base(r) = Base(a) /\ Since(r) = Since(a)
      BY <1>4, <2>2 DEF Base, Since
    <2> QED
      BY <2>1, <2>3, <2>4
  <1>5. CASE a.reply # None /\ a.at \notin {"acting", "checking"} /\ a.reply
    <2> DEFINE b == [a EXCEPT !.plan = TRUE, !.anchor = a.asked[1], !.scope = a.asked[2]]
               r == Ready(b)
    <2>1. Resolved(a) = r
      BY <1>5 DEF Resolved
    <2>2. a.at = "planning"
      BY <1>5 DEF TypedAct
    <2>3. Signed(a.asked[1]) /\ a.asked[1] # None /\ a.asked[2] \in Cursors
      BY <2>2, SignedIsSomething DEF TypedAct
    <2>31. /\ b \in [at : {b.at}, step : {b.step}, landed : {b.landed}, reply : {b.reply}, asked : {b.asked},
                     plan : {b.plan}, anchor : {b.anchor}, scope : {b.scope}, verdict : {b.verdict}]
           /\ b.plan = TRUE /\ b.anchor = a.asked[1] /\ b.scope = a.asked[2] /\ b.verdict = a.verdict
      BY <1>0
    <2> HIDE DEF b
    <2>4. r \in [at : {"ready"}, step : {None}, landed : {FALSE}, reply : {None}, asked : {None}, plan : {TRUE},
                 anchor : {a.asked[1]}, scope : {a.asked[2]}, verdict : {a.verdict}]
      BY <2>31, MadeReady
    <2> HIDE DEF r
    <2>5. TypedAct(r)
      BY <2>3, <2>4 DEF TypedAct
    <2>6. Base(r) = Base(a) /\ Since(r) = Since(a)
      BY <2>2, <2>4 DEF Base, Since
    <2> QED
      BY <2>1, <2>5, <2>6
  <1> QED
    BY <1>1, <1>2, <1>3, <1>4, <1>5
LEMMA KeptByObserve ==
  ASSUME PerceptionInv, Observe
  PROVE  PerceptionInv'
  <1>1. /\ PerceptionTypeOK /\ TypedAct(act) /\ world \in World /\ attn \in Attentions /\ mode \in Mode
        /\ Current(world, view) /\ Accounts
    BY DEF PerceptionInv, NoStaleView, PerceptionTypeOK
  <1>2. view' = Left /\ act' = Resolved(Told) /\ due' = Owing(Absorbed)
    BY DEF Observe, Left, Taken, Told, Absorbed
  <1>3. /\ attn' = [attn EXCEPT !.focused = Attended] /\ world' = [world EXCEPT !.foreign = world.foreign \ Attended]
        /\ sink' = <<>> /\ mode' = [mode EXCEPT !.phase = "reason"]
    BY DEF Observe
  <1>4. Attended \subseteq attn.joined /\ Attended \subseteq Tools /\ Attended \cap attn.suppressed = {}
    BY <1>1, AttendedIsJoined
  <1>5. attn' \in Attentions /\ attn'.focused = Attended /\ attn'.joined = attn.joined /\ attn'.suppressed = attn.suppressed
    BY <1>1, <1>3, <1>4 DEF Attentions
  <1>6. world' \in World /\ world'.value = world.value /\ world'.foreign = world.foreign \ Attended
    BY <1>1, <1>3 DEF World
  <1>7. mode' \in Mode /\ mode'.phase = "reason"
    BY <1>1, <1>3 DEF Mode
  <1>8. sink' \in Seq(Signal)
    BY <1>3
  <1>9. /\ TypedView(Left) /\ Left.props = [t \in Attended |-> world.value[t]]
        /\ Left.seen = [t \in DOMAIN view.seen \cup Attended |-> IF t \in Attended THEN world.value[t] ELSE view.seen[t]]
    BY <1>1, WhatIsLeft
  <1>10. TypedAct(act')
    BY <1>2, ToldAccounts, Settles
  <1>11. due' \in Dues /\ due'.commit = None /\ due'.state \subseteq due.state \cup News
    BY <1>1, <1>2, OwingIs
  <1>12. PerceptionTypeOK'
    BY <1>2, <1>5, <1>6, <1>7, <1>8, <1>9, <1>10, <1>11 DEF PerceptionTypeOK
  <1>13. NoStaleView'
    BY <1>2, <1>4, <1>5, <1>9, <1>12 DEF NoStaleView
  <1>14. Current(world', view')
    <2>1. \A t \in Attended : world.value[t] \in Nat
      BY <1>1, <1>4 DEF World
    <2> QED
      BY <1>1, <1>2, <1>6, <1>9, <2>1 DEF Current
  <1>15. InView'
    BY <1>2, <1>5, <1>9 DEF InView
  <1>16. Accounts'
    <2>1. due'.state \subseteq DOMAIN view'.seen
      BY <1>1, <1>2, <1>9, <1>11 DEF Accounts, News
    <2>2. TypedAct(Told)
      BY ToldAccounts
    <2>3. Base(act') \in {None, Base(Told)} /\ Since(act') \in {None, Since(Told)}
      BY <1>2, <2>2, Settles
    <2>4. /\ Base(act') # None => MovedSince(Base(act'), view', due')
          /\ Since(act') # None => ToldSince(Since(act'), view', due')
      BY <1>2, <2>3, ToldAccounts
    <2> QED
      BY <2>1, <2>4 DEF Accounts
  <1>17. WriteGuarded' /\ JustCommitted'
    BY <1>11 DEF WriteGuarded, JustCommitted
  <1> QED
    BY <1>12, <1>13, <1>14, <1>15, <1>16, <1>17 DEF PerceptionInv
-----------------------------------------------------------------------------
LEMMA Untouched ==
  ASSUME PerceptionInv, UNCHANGED perceptionVars
  PROVE  PerceptionInv'
  <1>1. NoStaleView' /\ Current(world, view)' /\ InView' /\ JustCommitted'
    BY DEF PerceptionInv, perceptionVars, NoStaleView, PerceptionTypeOK, InView, JustCommitted
  <1>2. Accounts' /\ WriteGuarded'
    BY DEF PerceptionInv, perceptionVars, Accounts, WriteGuarded, Owed
  <1> QED
    BY <1>1, <1>2 DEF PerceptionInv

(* The inductive invariant of the perception: what each base was taken from *)
(* is older than what is in view, and what the plan owes came after it and  *)
(* is told by a log beyond the plan's cursor.                               *)
THEOREM PerceptionHolds == PerceptionSpec => []PerceptionInv
  <1>1. PerceptionInit => PerceptionInv
    BY StartsWell
  <1>2. PerceptionInv /\ [PerceptionNext]_perceptionVars => PerceptionInv'
    <2> SUFFICES ASSUME PerceptionInv, [PerceptionNext]_perceptionVars PROVE PerceptionInv'
      OBVIOUS
    <2>1. CASE \E t \in Tools : WorldMoves(t) \/ Speaks(t)
      BY <2>1, KeptByTheWorld
    <2>2. CASE \E t \in Tools : Focus(t) \/ Unfocus(t) \/ Join(t) \/ Leave(t)
      BY <2>2, KeptByAttentionSteps
    <2>3. CASE StepLands \/ \E ok \in BOOLEAN : Answered(ok)
      BY <2>3, KeptByReplies
    <2>4. CASE Observe
      BY <2>4, KeptByObserve
    <2>5. CASE FirePlan \/ ReusePlan \/ Rest
      BY <2>5, KeptByPlanning
    <2>6. CASE \E step \in Steps : Reason(step)
      BY <2>6, KeptByReason
    <2>7. CASE UNCHANGED perceptionVars
      BY <2>7, Untouched
    <2> QED
      BY <2>1, <2>2, <2>3, <2>4, <2>5, <2>6, <2>7 DEF PerceptionNext
  <1> QED
    BY <1>1, <1>2, PTL DEF PerceptionSpec

(* Nothing is observed that is not attended, nothing attended that is not   *)
(* joined, nothing watched that was explicitly released: _reconcile_attention *)
(* and Situate's filter, in any order with focus, unfocus, join and leave.  *)
THEOREM NothingStaleIsSeen == PerceptionSpec => []NoStaleView
  <1>1. PerceptionInv => NoStaleView
    BY DEF PerceptionInv
  <1> QED
    BY <1>1, PerceptionHolds, PTL

(* No guarded step is committed over a change the plan was not judged       *)
(* against: the checkpoint of _reconsider, its baselines, the absorption of *)
(* own writes and the scope of a mechanical discard, in every interleaving. *)
THEOREM WritesAreGuarded == PerceptionSpec => []WriteGuarded
  <1>1. PerceptionInv => WriteGuarded
    BY DEF PerceptionInv
  <1> QED
    BY <1>1, PerceptionHolds, PTL
=============================================================================

---------------------------- MODULE BatchCommand ----------------------------
(***************************************************************************)
(* What a command line of examples/gaia2/batch.py comes to: main refuses   *)
(* it, or settles the clock, the model profile and the label of the rows   *)
(* one arm writes.  The two arms of a comparison are two commands, given   *)
(* in any order and each with its own --config, so whether their rows may  *)
(* be compared is decided here and in _verify_counterpart_pairing.         *)
(*                                                                         *)
(* What is abstracted: an operating point is an element of Points and      *)
(* names its model; the manifest's envelope either agrees with the dataset *)
(* options or not; the rows of an arm are what all of them declare.        *)
(***************************************************************************)
EXTENDS Integers, FiniteSets

CONSTANTS Profiles,   \* names in profiles.json
          PointOf,    \* the operating point a profile freezes
          Points,     \* operating points an agent.yaml can describe
          Absent,     \* an option not given, a file that is not there
          MaxAsked    \* bound: commands

ASSUME CommandConstants ==
  PointOf \in [Profiles -> Points] /\ Absent \notin Profiles \cup Points /\ MaxAsked \in Nat

VARIABLES
  declared,  \* what the rows of an arm declare, or Absent
  asked      \* commands so far

commandVars == <<declared, asked>>

Flags == {"wall", "free", "unfrozen", "manifest", "envelope", "limit"}
Options == [arm : {"sora", "react"}, flags : SUBSET Flags,
            profile : Profiles \cup {Absent}, charge : Profiles \cup {Absent},
            config : Points \cup {Absent}, label : Points \cup {Absent}]

CommandInit == declared = [a \in {"sora", "react"} |-> Absent] /\ asked = 0
-----------------------------------------------------------------------------
\* Options that cannot be given together.
Conflict(o) ==
  \/ {"wall", "free"} \subseteq o.flags
  \/ "manifest" \in o.flags /\ ("limit" \in o.flags \/ "envelope" \notin o.flags)
  \/ o.arm = "react" /\ (o.charge # Absent \/ "unfrozen" \in o.flags \/ o.profile = Absent)
  \/ o.arm = "sora" /\ o.profile # Absent
  \/ o.arm = "sora" /\ o.charge # Absent /\ o.flags \cap {"wall", "free", "unfrozen"} # {}
  \/ o.arm = "sora" /\ {"unfrozen", "free"} \subseteq o.flags

\* Mutant: the config is not compared.
MatchesAnything(p, config) == TRUE

\* _operating_point_diffs: without a config there is nothing to differ from.
Matches(p, config) == config = Absent \/ PointOf[p] = config

\* The profiles a command may run under; it is refused unless there is one,
\* or its config is explicitly unfrozen.
ProfilesFor(o) ==
  IF o.arm = "react" THEN {o.profile}
  ELSE IF o.charge # Absent THEN {o.charge}
  ELSE {p \in Profiles : PointOf[p] = o.config}

AtFrozenPoint(o) == o.arm = "react" \/ "unfrozen" \notin o.flags
RunsAt(o) == IF o.arm = "react" THEN PointOf[o.profile] ELSE o.config

Refused(o) ==
  \/ Conflict(o)
  \/ o.arm = "sora" /\ o.config = Absent
  \/ AtFrozenPoint(o) /\ Cardinality(ProfilesFor(o)) # 1
  \/ AtFrozenPoint(o) /\ \E p \in ProfilesFor(o) : ~Matches(p, o.config)
  \/ o.label \notin {Absent, RunsAt(o)}

\* resolve_clock_mode of the charge _resolved_charge leaves.
Clock(o) == IF "free" \in o.flags THEN "generation_free"
            ELSE IF "wall" \in o.flags \/ ~AtFrozenPoint(o) THEN "wall_clock"
            ELSE "token_charged"

Declares(o) ==
  [arm |-> o.arm, clock |-> Clock(o), pinned |-> "manifest" \in o.flags,
   profile |-> IF AtFrozenPoint(o) THEN CHOOSE p \in ProfilesFor(o) : TRUE ELSE Absent,
   label |-> RunsAt(o), ran |-> RunsAt(o)]

\* What the commands that are not refused declare; a refused one writes nothing.
Declarations == {Declares(o) : o \in {x \in Options : ~Refused(x)}}

\* _verify_counterpart_pairing and _verify_counterpart_field.
Paired(d, other) ==
  d.pinned /\ other # Absent =>
    other.pinned /\ other.clock = d.clock /\ d.profile \in {Absent, other.profile}

\* main up to the first scenario, and the rows the run then writes.
Command(d) ==
  /\ asked < MaxAsked /\ asked' = asked + 1
  /\ Paired(d, declared[IF d.arm = "sora" THEN "react" ELSE "sora"])
  /\ declared' = [declared EXCEPT ![d.arm] = d]

\* Somebody clears the output directory.
Clear(a) == declared[a] # Absent /\ declared' = [declared EXCEPT ![a] = Absent] /\ UNCHANGED asked

CommandNext == (\E d \in Declarations : Command(d)) \/ \E a \in DOMAIN declared : Clear(a)
CommandSpec == CommandInit /\ [][CommandNext]_commandVars
-----------------------------------------------------------------------------
Declared == [arm : {"sora", "react"}, clock : {"wall_clock", "token_charged", "generation_free"}, pinned : BOOLEAN,
             profile : Profiles \cup {Absent}, label : Points, ran : Points]

CommandTypeOK == declared \in [{"sora", "react"} -> Declared \cup {Absent}] /\ asked \in 0..MaxAsked

(* What an arm's rows say of the run is so: tokens are only charged at the *)
(* rates of the profile whose operating point ran, whatever --config and   *)
(* --profile were, and pinned arms that both name a profile were run under *)
(* one clock and at one operating point, in whichever order.               *)
ArmsComparable ==
  /\ \A a \in DOMAIN declared : declared[a] # Absent =>
       /\ declared[a].clock = "token_charged" => declared[a].profile # Absent
       /\ declared[a].profile # Absent => PointOf[declared[a].profile] = declared[a].ran
  /\ (\A a \in DOMAIN declared : declared[a] # Absent /\ declared[a].pinned) =>
       /\ declared["sora"].clock = declared["react"].clock
       /\ declared["sora"].profile # Absent => declared["sora"].ran = declared["react"].ran
=============================================================================

---------------------------- MODULE EffectState ----------------------------
(***************************************************************************)
(* One object of any effect on the real-time thread, as its parameters are *)
(* set in any order, any number of times.  Its members are those of        *)
(* Effects, which are what parameters change; process() works with them    *)
(* and changes none.                                                       *)
(***************************************************************************)
EXTENDS Effects

CONSTANT
  Setting  \* effect -> the parameter values it may be given

ASSUME SettingAssumption ==
  /\ DOMAIN Setting = Effect
  /\ \A e \in Effect : Setting[e] \subseteq 0 .. Top

VARIABLES
  effect,   \* which effect
  members,  \* its members
  given     \* history: the last value of each parameter

effectVars == <<effect, members, given>>

-----------------------------------------------------------------------------

EffectInit ==
  /\ effect \in Effect
  /\ members \in Made(effect)
  /\ given = [i \in Index(effect) |-> NotGiven]

Set(index, value) ==
  /\ members' = SetParameter(effect, members, index, value)
  /\ given' = [given EXCEPT ![index] = value]
  /\ UNCHANGED effect

EffectNext == \E index \in Index(effect), value \in Setting[effect] : Set(index, value)

EffectSpec == EffectInit /\ [][EffectNext]_effectVars

-----------------------------------------------------------------------------
(* Properties *)

\* Whatever was set before, and in whatever order, an effect works with the
\* last value of each parameter, as a new object would that is given those:
\* no coefficient is left from an earlier gain, and setting one parameter
\* twice or two in another order makes no difference.  This is what lets a
\* reload rebuild an effect from its configuration.  The coefficient of the
\* high shelf that is not a number when made (simple_eq.cc:45) is never used.
SettingsInUse ==
  /\ SettledOn(effect, members, given)
  /\ effect = "simple_eq" => \A f \in Filter : members[f].c # NotANumber

\* What a sine sounds is the note of C major its parameter selects.  A place
\* past the table is read at the parameter 1.0, whose note would be the 71st,
\* and before the first parameter, when m_index is whatever it is.
Major == <<0, 2, 4, 5, 7, 9, 11>>
NotesAreMajor ==
  effect = "sine_osc" =>
    IF members.m_index \in Note
    THEN /\ Semitone[members.m_index]
              = 12 * (members.m_index \div 7) + Major[(members.m_index % 7) + 1]
         /\ given[0] # NotGiven => members.m_index * Top <= 70 * given[0]
                                   /\ 70 * given[0] < (members.m_index + 1) * Top
    ELSE given[0] \in {NotGiven, Top}

\* The folded wave keeps silence silent and stays in -1 .. 1 at every setting;
\* it is odd and has no jump: it never moves more than its input does.
FoldedIsBounded ==
  effect = "wavefolder" =>
    LET gain == members.m_params[1]
    IN  \A s \in Sample :
          /\ Fold(gain, s) \in -FoldUnit .. FoldUnit
          /\ Fold(gain, -s) = -Fold(gain, s)
          /\ s < Unit => Absolute(Fold(gain, s + 1) - Fold(gain, s)) <= gain

\* The distortion keeps silence silent too, and whichever of its pieces a
\* sample falls into, a positive one stays in -5/3 .. 4/3.  The pieces know no
\* sign: a negative one can become -122/3.
DistortedIsBounded ==
  effect = "simple_dist" =>
    \A s \in Sample :
      LET distorted == Distort(members.m_params[1], s)
      IN  /\ 3 * distorted \in (IF s < 0 THEN -122 ELSE -5) * DistortUnit .. 4 * DistortUnit
          /\ s = 0 => distorted = 0
=============================================================================

------------------------------ MODULE Effects ------------------------------
(***************************************************************************)
(* The thirteen effects (effects/src): what the constructor of each leaves *)
(* in its members and what setParameter makes of them.  A parameter, a     *)
(* float in 0 .. 1, is its numerator over Top.  A member that a parameter  *)
(* is scaled into is a numerator over Top too, in the unit of the code;    *)
(* what a filter computes from its gain by powers and tangents is named by *)
(* the gain that it comes from.                                            *)
(***************************************************************************)
EXTENDS Integers, Sequences

CONSTANTS
  Top,     \* denominator of parameters
  Garbage  \* what memory that nobody has set may hold, as an unsigned number

\* The defaults of the sources, 0.0005 among them, are multiples of 1/Top.
ASSUME ParameterAssumption == Top \in Nat \ {0} /\ Top % 2000 = 0 /\ Garbage \subseteq Nat

\* How many parameters an effect announces: getPluginInfo().parameters.
Announced ==
  [passthrough |-> 2, simple_delay |-> 3, pitchshifter |-> 2, chorus |-> 3,
   reverb1 |-> 2, reverb2 |-> 7, simple_eq |-> 3, svf |-> 5, panner |-> 2,
   sine_osc |-> 1, simple_dist |-> 1, wavefolder |-> 1, white_noise |-> 1]

Effect == DOMAIN Announced
Index(effect) == 0 .. Announced[effect] - 1

-----------------------------------------------------------------------------
(* The bands of simple_eq *)

NoGain == -1   \* m_v0 and m_c before the first gain: 0.0

Nothing == [of |-> "nothing", v0 |-> NoGain]
Boost == [of |-> "boost", v0 |-> NoGain]
Cut(v0) == [of |-> "cut", v0 |-> v0]
NotANumber == [of |-> "nan", v0 |-> NoGain]

\* calcCoeffs, of which only m_c_c depends on the gain.  In the high shelf the
\* gain is taken out again, m_v0 * (tan - 1) / m_v0 * (tan + 1): 0 / 0 at first.
CutCoefficient(filter, v0) ==
  IF filter \notin {"m_high_l", "m_high_r"} THEN Cut(v0)
  ELSE IF v0 = NoGain THEN NotANumber ELSE Cut(NoGain)

MadeBand(filter) == [v0 |-> NoGain, c_c |-> CutCoefficient(filter, NoGain), c |-> Nothing]

\* gain -= 0.5, and the sign of the rest decides.
SetGainStale(filter, band, gain) ==             \* mutant: used, then computed
  [v0 |-> gain, c_c |-> CutCoefficient(filter, gain),
   c |-> IF 2 * gain >= Top THEN Boost ELSE band.c_c]
SetGain(filter, band, gain) ==
  LET c_c == IF 2 * gain >= Top THEN band.c_c ELSE CutCoefficient(filter, gain)
  IN  [v0 |-> gain, c_c |-> c_c, c |-> IF 2 * gain >= Top THEN Boost ELSE c_c]

Filters ==
  [i \in 0 .. 2 |-> CASE i = 0 -> {"m_low_l", "m_low_r"}
                      [] i = 1 -> {"m_peak_l", "m_peak_r"}
                      [] i = 2 -> {"m_high_l", "m_high_r"}]
Filter == UNION {Filters[i] : i \in 0 .. 2}

-----------------------------------------------------------------------------
(* What the members of the effects range over *)

Tables == {"simple_delay", "pitchshifter", "panner", "simple_dist", "wavefolder"}
Coefficient == [of : {"nothing", "boost", "cut", "nan"}, v0 : Int]
Bands == [v0 : Int, c_c : Coefficient, c : Coefficient]
TableMembers(effect) == [m_params : [1 .. Announced[effect] -> Int]]
SvfMembers == [m_params : [1 .. 5 -> Int], m_f1 : Int, m_q1 : Int]
ChorusMembers == [m_step : Int, m_depth : Int, m_drywet : Int]
Reverb1Members == [m_size : Int, m_dryWet : Int]
FilterMembers == [gain_ : Int, fb_gain_ : Int]
Reverb2Members ==
  [predelay_time_ : Int, predelay_filter_ : FilterMembers, decay_ : Int,
   damping_left_ : FilterMembers, damping_right_ : FilterMembers,
   modStep_ : Int, modDepth_ : Int, dryWet_ : Int]

\* What the members of an effect range over.
Members(effect) ==
  CASE effect \in Tables -> TableMembers(effect)
    [] effect = "svf" -> SvfMembers
    [] effect = "chorus" -> ChorusMembers
    [] effect = "reverb1" -> Reverb1Members
    [] effect = "reverb2" -> Reverb2Members
    [] effect = "simple_eq" -> [Filter -> Bands]
    [] effect = "sine_osc" -> [m_index : Int]
    [] effect = "white_noise" -> [m_volume : Int]
    [] effect = "passthrough" -> {<<>>}

-----------------------------------------------------------------------------
(* The constructors.  Each gives the set of what an object may start as. *)

\* m_params of the effects that read their parameters from a table.  The gain
\* of the wavefolder is ten times its parameter, but not at first.
Defaults ==
  [simple_delay |-> <<Top \div 5, 3 * (Top \div 10), Top \div 2>>,
   pitchshifter |-> <<Top \div 2, 0>>,
   panner |-> <<Top \div 2, 0>>,
   simple_dist |-> <<0>>,
   wavefolder |-> <<Top \div 2>>]

Table(effect) == [m_params |-> Defaults[effect]]

\* LPFilter::setGain(gain, fb_gain)
Damped(gain) == [gain_ |-> gain, fb_gain_ |-> Top - gain]

Made(effect) ==
  CASE effect \in DOMAIN Defaults -> {Table(effect)}
    [] effect = "svf" ->
         {[m_params |-> <<Top \div 2, 0, 0, 0, 0>>, m_f1 |-> 0, m_q1 |-> 0]}
    [] effect = "chorus" -> {[m_step |-> 0, m_depth |-> 0, m_drywet |-> 0]}
    [] effect = "reverb1" -> {[m_size |-> 0, m_dryWet |-> 0]}
    [] effect = "reverb2" ->
         {[predelay_time_ |-> 5000 * Top,
           predelay_filter_ |-> Damped(Top - Top \div 2000),
           decay_ |-> Top \div 2,
           damping_left_ |-> Damped(Top - Top \div 2000),
           damping_right_ |-> Damped(Top - Top \div 2000),
           modStep_ |-> 0, modDepth_ |-> 0, dryWet_ |-> 0]}
    [] effect = "simple_eq" -> {[f \in Filter |-> MadeBand(f)]}
    [] effect = "sine_osc" -> {[m_index |-> g] : g \in Garbage}
    [] effect = "white_noise" -> {[m_volume |-> 0]}
    [] effect = "passthrough" -> {<<>>}

-----------------------------------------------------------------------------
(* setParameter, for the indices that an effect announces *)

Scale(effect) == IF effect = "wavefolder" THEN 10 ELSE 1

SetTable(effect, members, index, value) ==
  [m_params |-> [members.m_params EXCEPT ![index + 1] = Scale(effect) * value]]

\* sin of the cutoff, which is named by the cutoff.
SetSvf(members, index, value) ==
  [m_params |-> [members.m_params EXCEPT ![index + 1] = value],
   m_f1 |-> IF index = 0 THEN value ELSE members.m_f1,
   m_q1 |-> IF index = 1 THEN Top - value ELSE members.m_q1]

\* m_step in 1/m_fs, m_depth in 1/100.
SetChorus(members, index, value) ==
  [m_step |-> IF index = 0 THEN 5 * value ELSE members.m_step,
   m_depth |-> IF index = 1 THEN 15 * value ELSE members.m_depth,
   m_drywet |-> IF index = 2 THEN value ELSE members.m_drywet]

SetReverb1(members, index, value) ==
  [m_size |-> IF index = 0 THEN value ELSE members.m_size,
   m_dryWet |-> IF index = 1 THEN value ELSE members.m_dryWet]

SetReverb2(members, index, value) ==
  [predelay_time_ |-> IF index = 0 THEN 20000 * value ELSE members.predelay_time_,
   predelay_filter_ |-> IF index = 1 THEN Damped(value) ELSE members.predelay_filter_,
   decay_ |-> IF index = 2 THEN value ELSE members.decay_,
   damping_left_ |-> IF index = 3 THEN Damped(Top - value) ELSE members.damping_left_,
   damping_right_ |-> IF index = 3 THEN Damped(Top - value) ELSE members.damping_right_,
   modStep_ |-> IF index = 4 THEN 3 * value ELSE members.modStep_,
   modDepth_ |-> IF index = 5 THEN value ELSE members.modDepth_,
   dryWet_ |-> IF index = 6 THEN value ELSE members.dryWet_]

SetEq(members, index, value) ==
  [f \in Filter |->
    IF f \in Filters[index] THEN SetGain(f, members[f], value) ELSE members[f]]

SetParameter(effect, members, index, value) ==
  CASE effect \in DOMAIN Defaults -> SetTable(effect, members, index, value)
    [] effect = "svf" -> SetSvf(members, index, value)
    [] effect = "chorus" -> SetChorus(members, index, value)
    [] effect = "reverb1" -> SetReverb1(members, index, value)
    [] effect = "reverb2" -> SetReverb2(members, index, value)
    [] effect = "simple_eq" -> SetEq(members, index, value)
    [] effect = "sine_osc" -> [m_index |-> (70 * value) \div Top]
    [] effect = "white_noise" -> [m_volume |-> value]
    [] effect = "passthrough" -> members

\* What process() reads of the members.
InUse(effect, members) ==
  CASE effect = "simple_eq" -> [f \in Filter |-> [v0 |-> members[f].v0, c |-> members[f].c]]
    [] effect = "svf" ->
         [m_f1 |-> members.m_f1, m_q1 |-> members.m_q1,
          mix |-> SubSeq(members.m_params, 3, 5)]
    [] OTHER -> members

NotGiven == -1

SetGiven(effect, given, members, i) ==
  IF i \in DOMAIN given /\ given[i] # NotGiven
  THEN SetParameter(effect, members, i, given[i]) ELSE members

\* A new object that is given each parameter once, those in `given`, in the
\* order of the indices: what onApplyConfig does.
Settled(effect, fresh, given) ==
  LET Set(members, i) == SetGiven(effect, given, members, i)
  IN  Set(Set(Set(Set(Set(Set(Set(fresh, 0), 1), 2), 3), 4), 5), 6)

\* The members are, as far as they are read, those of such an object.
SettledOn(effect, members, given) ==
  \E fresh \in Made(effect) :
    InUse(effect, members) = InUse(effect, Settled(effect, fresh, given))

-----------------------------------------------------------------------------
(* The notes of sine_osc, in semitones above the first *)

\* semis, as it is when note i is computed.
SemisOneEarly(i) == IF (i - 1) % 7 \in {1, 5} THEN 1 ELSE 2     \* mutant
Semis(i) == IF (i - 1) % 7 \in {2, 6} THEN 1 ELSE 2

Note == 0 .. 69
Semitone[i \in Note] == IF i = 0 THEN 0 ELSE Semitone[i - 1] + Semis(i)

-----------------------------------------------------------------------------
(* The two effects that bend each sample by itself.  A sample is a         *)
(* numerator over Unit.                                                    *)

Unit == 10
Sample == -Unit .. Unit

Absolute(x) == IF x < 0 THEN -x ELSE x
Sign(x) == IF x < 0 THEN -1 ELSE IF x > 0 THEN 1 ELSE 0

\* std::round(x / d), for d > 0
Rounded(x, d) == Sign(x) * ((2 * Absolute(x) + d) \div (2 * d))

\* wavefolder, over Top * Unit: sign(x) * 2 * |x / 2 - round(x / 2)|
FoldUnit == Top * Unit
FoldByFloor(gain, sample) ==                            \* mutant
  Sign(gain * sample) * (Absolute(gain * sample) % (2 * FoldUnit))
Fold(gain, sample) ==
  LET x == gain * sample
  IN  Sign(x) * Absolute(x - 2 * FoldUnit * Rounded(x, 2 * FoldUnit))

\* distort() of simple_dist, over 3 * Unit ^ 3.  The samples are compared with
\* scaled = (1 - x) * 0.3 by magnitude; what they become has no such symmetry.
Cube(x) == x * x * x
DistortUnit == 3 * Cube(Unit)
DistortNegativeCurve(x, sample) ==               \* mutant: 2 + in * 3 for 2 - in * 3
  IF 10 * Top * Absolute(sample) >= 6 * (Top - x) * Unit /\ x < Top
  THEN DistortUnit - Cube(2 * Unit + 3 * sample)
  ELSE 0
Distort(x, sample) ==
  LET scaled == 3 * (Top - x) * Unit
      magnitude == 10 * Top * Absolute(sample)
  IN  IF magnitude < scaled THEN 2 * sample * (DistortUnit \div Unit)
      ELSE IF magnitude < 2 * scaled THEN DistortUnit
      ELSE IF scaled > 0 THEN DistortUnit - Cube(2 * Unit - 3 * sample)
      ELSE 0
=============================================================================

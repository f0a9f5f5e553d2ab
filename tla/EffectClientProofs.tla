------------------------- MODULE EffectClientProofs -------------------------
(***************************************************************************)
(* Proofs about a client and the effect in it, in four parts:              *)
(*                                                                         *)
(*   1. Effects: what their constructors and setParameter make of the      *)
(*      members, for every unit of the parameters;                         *)
(*   2. EffectState: an object of any effect, whatever its parameters are  *)
(*      set to and for however long it sounds;                             *)
(*   3. JackClient: its construction, what its ring holds, and that it     *)
(*      implements ParameterQueue, for every size of parameter and ring;   *)
(*   4. EffectClient: the processor works with what was written.           *)
(***************************************************************************)
EXTENDS EffectClient, EffectState, SequenceTheorems, WellFoundedInduction, TLAPS

Less == {p \in Nat \X Nat : p[1] < p[2]}

\* Sets of naturals have a least element: what stands for induction here.
LEMMA Least ==
  ASSUME NEW T \in SUBSET Nat, T # {}
  PROVE  \E x \in T : \A y \in T : x <= y
<1>1. IsWellFoundedOn(Less, Nat)
  BY NatLessThanWellFounded, Zenon DEF OpToRel, Less
<1>2. PICK x \in T : \A y \in T : ~(<<y, x>> \in Less)
  BY <1>1, WFMin
<1>3. \A y \in T : ~(y < x)
  BY <1>2 DEF Less
<1> QED BY <1>3

(***************************************************************************)
(* 1. What an effect derives from its parameters; fx stands for any        *)
(* effect.  The later of two settings of one parameter replaces the        *)
(* earlier, two parameters may be set in either order, and, from these, an *)
(* effect that is settled on some values stays so on the new ones after    *)
(* setParameter.                                                           *)
(***************************************************************************)

\* The effects: those with a table of parameters and nothing else, and the
\* other eight.
LEMMA EffectsAre ==
  Effect = Tables \cup {"svf", "chorus", "reverb1", "reverb2", "simple_eq",
                        "sine_osc", "white_noise", "passthrough"}
BY DEF Effect, Announced, Tables

\* Exactly the effects with nothing but a table have defaults for it.
LEMMA TablesAre == DOMAIN Defaults = Tables
BY DEF Defaults, Tables

\* How many parameters each effect announces.
LEMMA AnnouncedAre ==
  /\ Announced["passthrough"] = 2 /\ Announced["simple_delay"] = 3
  /\ Announced["pitchshifter"] = 2 /\ Announced["chorus"] = 3
  /\ Announced["reverb1"] = 2 /\ Announced["reverb2"] = 7
  /\ Announced["simple_eq"] = 3 /\ Announced["svf"] = 5
  /\ Announced["panner"] = 2 /\ Announced["sine_osc"] = 1
  /\ Announced["simple_dist"] = 1 /\ Announced["wavefolder"] = 1
  /\ Announced["white_noise"] = 1
BY DEF Announced

\* An effect with a table has one value for each parameter.
LEMMA MembersOfTable ==
  ASSUME NEW fx \in Tables
  PROVE  Members(fx) = TableMembers(fx)
BY DEF Members, Tables

\* The coefficient of a cut is one, also where it is computed as 0 / 0.
LEMMA CutIsCoefficient ==
  ASSUME NEW filter, NEW v0 \in Int
  PROVE  CutCoefficient(filter, v0) \in Coefficient
<1>1. Cut(v0) \in Coefficient /\ Cut(NoGain) \in Coefficient /\ NotANumber \in Coefficient
  BY DEF Cut, NotANumber, NoGain, Coefficient
<1> QED BY <1>1 DEF CutCoefficient

\* A constructor sets the members to values of their types.
LEMMA MadeIsMembers ==
  ASSUME NEW fx \in Effect, NEW m \in Made(fx)
  PROVE  m \in Members(fx)
<1>1. CASE fx \in Tables
  <2>1. fx \notin {"svf", "chorus", "reverb1", "reverb2", "simple_eq",
                   "sine_osc", "white_noise", "passthrough"}
    BY <1>1 DEF Tables
  <2>2. Made(fx) = {Table(fx)}
    BY <1>1, <2>1, TablesAre DEF Made
  <2>3. m = [m_params |-> Defaults[fx]]
    BY <2>2 DEF Table
  <2>4. Top \div 5 \in Int /\ 3 * (Top \div 10) \in Int /\ Top \div 2 \in Int
    BY ParameterAssumption
  <2>5. Defaults[fx] \in [1 .. Announced[fx] -> Int]
    <3>1. CASE fx = "simple_delay"
      BY <2>4, <3>1, AnnouncedAre DEF Defaults
    <3>2. CASE fx = "pitchshifter"
      BY <2>4, <3>2, AnnouncedAre DEF Defaults
    <3>3. CASE fx = "panner"
      BY <2>4, <3>3, AnnouncedAre DEF Defaults
    <3>4. CASE fx = "simple_dist"
      BY <2>4, <3>4, AnnouncedAre DEF Defaults
    <3>5. CASE fx = "wavefolder"
      BY <2>4, <3>5, AnnouncedAre DEF Defaults
    <3> QED BY <1>1, <3>1, <3>2, <3>3, <3>4, <3>5 DEF Tables
  <2>6. Members(fx) = TableMembers(fx)
    BY <1>1, MembersOfTable
  <2> QED BY <2>3, <2>5, <2>6 DEF TableMembers
<1>2. CASE fx = "svf"
  BY <1>2, TablesAre, ParameterAssumption DEF Made, Members, Tables, SvfMembers
<1>3. CASE fx = "chorus"
  BY <1>3, TablesAre, ParameterAssumption DEF Made, Members, Tables, ChorusMembers
<1>4. CASE fx = "reverb1"
  BY <1>4, TablesAre, ParameterAssumption DEF Made, Members, Tables, Reverb1Members
<1>5. CASE fx = "reverb2"
  BY <1>5, TablesAre, ParameterAssumption DEF Made, Members, Tables, Reverb2Members, FilterMembers, Damped
<1>6. CASE fx = "simple_eq"
  <2>1. m = [f \in Filter |-> MadeBand(f)]
    BY <1>6, TablesAre, ParameterAssumption DEF Made
  <2>2. \A f \in Filter : MadeBand(f) \in Bands
    <3>1. NoGain \in Int /\ Nothing \in Coefficient
      BY DEF NoGain, Nothing, Coefficient
    <3> QED BY <3>1, CutIsCoefficient DEF MadeBand, Bands
  <2>3. Members(fx) = [Filter -> Bands]
    BY <1>6 DEF Members, Tables
  <2> QED BY <2>1, <2>2, <2>3
<1>7. CASE fx = "sine_osc"
  BY <1>7, TablesAre, ParameterAssumption DEF Made, Members, Tables
<1>8. CASE fx = "white_noise"
  BY <1>8, TablesAre, ParameterAssumption DEF Made, Members, Tables
<1>9. CASE fx = "passthrough"
  BY <1>9, TablesAre, ParameterAssumption DEF Made, Members, Tables
<1> QED BY <1>1, <1>2, <1>3, <1>4, <1>5, <1>6, <1>7, <1>8, <1>9, EffectsAre

-----------------------------------------------------------------------------

Others == {"svf", "chorus", "reverb1", "reverb2", "simple_eq", "sine_osc",
           "white_noise", "passthrough"}

\* setParameter of the effects with a table writes the table.
LEMMA SetOfTable ==
  ASSUME NEW fx \in Tables, NEW m, NEW i, NEW v
  PROVE  SetParameter(fx, m, i, v) = SetTable(fx, m, i, v)
BY TablesAre DEF SetParameter, Tables

\* setParameter of the other effects, one by one.
LEMMA SetOfOthers ==
  ASSUME NEW m, NEW i, NEW v
  PROVE  /\ SetParameter("svf", m, i, v) = SetSvf(m, i, v)
         /\ SetParameter("chorus", m, i, v) = SetChorus(m, i, v)
         /\ SetParameter("reverb1", m, i, v) = SetReverb1(m, i, v)
         /\ SetParameter("reverb2", m, i, v) = SetReverb2(m, i, v)
         /\ SetParameter("simple_eq", m, i, v) = SetEq(m, i, v)
         /\ SetParameter("sine_osc", m, i, v) = [m_index |-> (70 * v) \div Top]
         /\ SetParameter("white_noise", m, i, v) = [m_volume |-> v]
         /\ SetParameter("passthrough", m, i, v) = m
BY TablesAre DEF SetParameter, Tables

\* Except in svf and simple_eq, process() reads all of the members.
LEMMA UseOf ==
  ASSUME NEW fx \in Effect \ {"svf", "simple_eq"}, NEW m
  PROVE  InUse(fx, m) = m
BY DEF InUse

\* The parameter indices of the effects without a table of their own.
LEMMA IndexOf ==
  /\ Index("svf") = 0 .. 4 /\ Index("chorus") = 0 .. 2
  /\ Index("reverb1") = 0 .. 1 /\ Index("reverb2") = 0 .. 6
  /\ Index("simple_eq") = 0 .. 2 /\ Index("sine_osc") = 0 .. 0
  /\ Index("white_noise") = 0 .. 0 /\ Index("passthrough") = 0 .. 1
BY AnnouncedAre DEF Index

\* The members of the effects without a table of their own.
LEMMA MembersOf ==
  /\ Members("svf") = SvfMembers
  /\ Members("chorus") = ChorusMembers
  /\ Members("reverb1") = Reverb1Members
  /\ Members("reverb2") = Reverb2Members
  /\ Members("simple_eq") = [Filter -> Bands]
  /\ Members("sine_osc") = [m_index : Int]
  /\ Members("white_noise") = [m_volume : Int]
  /\ Members("passthrough") = {<<>>}
BY DEF Members, Tables

-----------------------------------------------------------------------------
(***************************************************************************)
(* Effect by effect: parameters that are set keep the members what they    *)
(* are, the later of two settings of one parameter replaces the earlier,   *)
(* and two parameters may be set in either order.                          *)
(***************************************************************************)

(***************************************************************************)
(* A table with one value replaced.  It has a name so that no obligation   *)
(* has an update of an update: the translation for the SMT solver takes    *)
(* the places of the two to be different.                                  *)
(***************************************************************************)
Put(q, k, x) == [q EXCEPT ![k] = x]

\* The table with the value replaced, place by place.
LEMMA PutIs ==
  ASSUME NEW q, NEW k, NEW x
  PROVE  /\ DOMAIN Put(q, k, x) = DOMAIN q
         /\ Put(q, k, x) = [o \in DOMAIN q |-> IF o = k THEN x ELSE q[o]]
BY DEF Put

\* The later of two writes to one entry of a table is the one that stays.
LEMMA PutTwice ==
  ASSUME NEW q, NEW k, NEW x, NEW y
  PROVE  Put(Put(q, k, x), k, y) = Put(q, k, y)
<1> DEFINE r == Put(q, k, x)
<1>1. DOMAIN r = DOMAIN q /\ \A o \in DOMAIN q : r[o] = IF o = k THEN x ELSE q[o]
  BY PutIs
<1> HIDE DEF r
<1>2. Put(r, k, y) = [o \in DOMAIN q |-> IF o = k THEN y ELSE r[o]]
  BY <1>1, PutIs
<1>3. Put(q, k, y) = [o \in DOMAIN q |-> IF o = k THEN y ELSE q[o]]
  BY PutIs
<1>4. Put(r, k, y) = Put(q, k, y)
  BY <1>1, <1>2, <1>3
<1> QED BY <1>4 DEF r

\* Writes to two entries of a table do so in any order.
LEMMA PutSwap ==
  ASSUME NEW q, NEW k, NEW x, NEW l, NEW y, k # l
  PROVE  Put(Put(q, k, x), l, y) = Put(Put(q, l, y), k, x)
<1> DEFINE r == Put(q, k, x)
           t == Put(q, l, y)
<1>1. DOMAIN r = DOMAIN q /\ \A o \in DOMAIN q : r[o] = IF o = k THEN x ELSE q[o]
  BY PutIs
<1>2. DOMAIN t = DOMAIN q /\ \A o \in DOMAIN q : t[o] = IF o = l THEN y ELSE q[o]
  BY PutIs
<1> HIDE DEF r, t
<1>3. Put(r, l, y) = [o \in DOMAIN q |-> IF o = l THEN y ELSE r[o]]
  BY <1>1, PutIs
<1>4. Put(t, k, x) = [o \in DOMAIN q |-> IF o = k THEN x ELSE t[o]]
  BY <1>2, PutIs
<1>5. Put(r, l, y) = Put(t, k, x)
  BY <1>1, <1>2, <1>3, <1>4
<1> QED BY <1>5 DEF r, t

\* Effects with a table: types are kept, the last value of an index wins, and
\* two indices do not disturb one another.
LEMMA TableSettings ==
  ASSUME NEW fx \in Tables, NEW m \in TableMembers(fx),
         NEW i \in Index(fx), NEW v \in Int,
         NEW j \in Index(fx), NEW w \in Int
  PROVE  /\ SetTable(fx, m, i, v) \in TableMembers(fx)
         /\ SetTable(fx, SetTable(fx, m, i, v), i, w)
              = SetTable(fx, m, i, w)
         /\ i # j => SetTable(fx, SetTable(fx, m, i, v), j, w)
                       = SetTable(fx, SetTable(fx, m, j, w), i, v)
<1> DEFINE n == Announced[fx]
           p == m.m_params
           s == Scale(fx)
<1>1. n \in Nat /\ s \in Int
  BY AnnouncedAre DEF Tables, Scale
<1>2. i + 1 \in 1 .. n /\ j + 1 \in 1 .. n /\ (i # j => i + 1 # j + 1)
  BY <1>1 DEF Index
<1>3. p \in [1 .. n -> Int]
  BY DEF TableMembers
<1>4. s * v \in Int /\ s * w \in Int
  BY <1>1
<1>5. \A x, k, y : SetTable(fx, x, k, y) = [m_params |-> Put(x.m_params, k + 1, s * y)]
  BY DEF SetTable, Put
<1> HIDE DEF n, s, p
<1>6. Put(p, i + 1, s * v) \in [1 .. n -> Int]
  BY <1>2, <1>3, <1>4 DEF Put
<1>7. Put(Put(p, i + 1, s * v), i + 1, s * w) = Put(p, i + 1, s * w)
  BY PutTwice
<1>8. i # j => Put(Put(p, i + 1, s * v), j + 1, s * w)
                 = Put(Put(p, j + 1, s * w), i + 1, s * v)
  BY <1>2, PutSwap
<1> QED BY <1>5, <1>6, <1>7, <1>8 DEF TableMembers, n, p

\* setParameter of svf, member by member.
LEMMA SvfIs ==
  ASSUME NEW x, NEW k, NEW y
  PROVE  SetSvf(x, k, y) = [m_params |-> Put(x.m_params, k + 1, y),
                            m_f1 |-> IF k = 0 THEN y ELSE x.m_f1,
                            m_q1 |-> IF k = 1 THEN Top - y ELSE x.m_q1]
BY DEF SetSvf, Put

\* setParameter of svf keeps the types of its members.
LEMMA SvfStays ==
  ASSUME NEW m \in SvfMembers, NEW i \in 0 .. 4, NEW v \in Int
  PROVE  SetSvf(m, i, v) \in SvfMembers
<1>1. Put(m.m_params, i + 1, v) \in [1 .. 5 -> Int]
  BY DEF SvfMembers, Put
<1> QED BY <1>1, SvfIs, ParameterAssumption DEF SvfMembers

\* Chorus: types are kept, the last value of an index wins, and two indices do
\* not disturb one another.
LEMMA ChorusSettings ==
  ASSUME NEW m \in ChorusMembers,
         NEW i \in 0 .. 2, NEW v \in Int, NEW j \in 0 .. 2, NEW w \in Int
  PROVE  /\ SetChorus(m, i, v) \in ChorusMembers
         /\ SetChorus(SetChorus(m, i, v), i, w) = SetChorus(m, i, w)
         /\ i # j => SetChorus(SetChorus(m, i, v), j, w)
                       = SetChorus(SetChorus(m, j, w), i, v)
BY DEF SetChorus, ChorusMembers

\* Reverb1: types are kept, the last value of an index wins, and two indices do
\* not disturb one another.
LEMMA Reverb1Settings ==
  ASSUME NEW m \in Reverb1Members,
         NEW i \in 0 .. 1, NEW v \in Int, NEW j \in 0 .. 1, NEW w \in Int
  PROVE  /\ SetReverb1(m, i, v) \in Reverb1Members
         /\ SetReverb1(SetReverb1(m, i, v), i, w) = SetReverb1(m, i, w)
         /\ i # j => SetReverb1(SetReverb1(m, i, v), j, w)
                       = SetReverb1(SetReverb1(m, j, w), i, v)
BY DEF SetReverb1, Reverb1Members

\* A low pass filter that was given a parameter has the coefficients of that
\* parameter.
LEMMA DampedIsFilter ==
  ASSUME NEW v \in Int
  PROVE  Damped(v) \in FilterMembers /\ Damped(Top - v) \in FilterMembers
BY ParameterAssumption DEF Damped, FilterMembers

\* Neither the coefficient in use nor the gain depends on what the band was.
LEMMA GainDecides ==
  ASSUME NEW f, NEW b \in Bands, NEW v \in Int
  PROVE  /\ SetGain(f, b, v) \in Bands
         /\ SetGain(f, b, v).v0 = v
         /\ SetGain(f, b, v).c
              = IF 2 * v >= Top THEN Boost ELSE CutCoefficient(f, v)
<1>1. Boost \in Coefficient /\ CutCoefficient(f, v) \in Coefficient
  BY CutIsCoefficient DEF Boost, Coefficient, NoGain
<1> QED BY <1>1 DEF SetGain, Bands

\* The three gains of the equalizer are for different filters.
LEMMA FiltersApart ==
  ASSUME NEW i \in 0 .. 2, NEW j \in 0 .. 2, i # j
  PROVE  Filters[i] \cap Filters[j] = {}
BY DEF Filters

\* The filters hear only the gain and the chosen coefficient of each band.
LEMMA EqInUse ==
  ASSUME NEW m, NEW l,
         \A f \in Filter : m[f].v0 = l[f].v0 /\ m[f].c = l[f].c
  PROVE  InUse("simple_eq", m) = InUse("simple_eq", l)
BY DEF InUse

\* Two equalizers that are in use alike have the same gain and coefficient in
\* each band.
LEMMA EqInUseOnly ==
  ASSUME NEW m, NEW l, InUse("simple_eq", m) = InUse("simple_eq", l)
  PROVE  \A f \in Filter : m[f].v0 = l[f].v0 /\ m[f].c = l[f].c
<1> DEFINE U(x) == [f \in Filter |-> [v0 |-> x[f].v0, c |-> x[f].c]]
<1>2. U(m) = U(l)
  BY DEF InUse
<1>3. ASSUME NEW f \in Filter
      PROVE  m[f].v0 = l[f].v0 /\ m[f].c = l[f].c
  <2>1. U(m)[f] = U(l)[f]
    BY <1>2
  <2>2. U(m)[f] = [v0 |-> m[f].v0, c |-> m[f].c] /\ U(l)[f] = [v0 |-> l[f].v0, c |-> l[f].c]
    OBVIOUS
  <2> QED BY <2>1, <2>2
<1> QED BY <1>3

\* The equalizer: types are kept; a gain given twice leaves the coefficient of
\* the last one in use, whatever the first one left behind; and two bands do
\* not disturb one another.
LEMMA EqSettings ==
  ASSUME NEW m \in [Filter -> Bands],
         NEW i \in 0 .. 2, NEW v \in Int, NEW j \in 0 .. 2, NEW w \in Int
  PROVE  /\ SetEq(m, i, v) \in [Filter -> Bands]
         /\ InUse("simple_eq", SetEq(SetEq(m, i, v), i, w))
              = InUse("simple_eq", SetEq(m, i, w))
         /\ i # j => SetEq(SetEq(m, i, v), j, w) = SetEq(SetEq(m, j, w), i, v)
<1>1. \A l \in [Filter -> Bands], k \in 0 .. 2, x \in Int :
        SetEq(l, k, x) \in [Filter -> Bands]
  BY GainDecides DEF SetEq
<1>2. ASSUME NEW f \in Filter
      PROVE  /\ SetEq(SetEq(m, i, v), i, w)[f].v0 = SetEq(m, i, w)[f].v0
             /\ SetEq(SetEq(m, i, v), i, w)[f].c = SetEq(m, i, w)[f].c
  <2>1. CASE f \in Filters[i]
    <3>1. /\ SetEq(SetEq(m, i, v), i, w)[f] = SetGain(f, SetEq(m, i, v)[f], w)
          /\ SetEq(m, i, w)[f] = SetGain(f, m[f], w)
      BY <2>1 DEF SetEq
    <3>2. SetEq(m, i, v)[f] \in Bands /\ m[f] \in Bands
      BY <1>1
    <3> QED BY <3>1, <3>2, GainDecides
  <2>2. CASE f \notin Filters[i]
    BY <2>2 DEF SetEq
  <2> QED BY <2>1, <2>2
<1>3. ASSUME i # j, NEW f \in Filter
      PROVE  SetEq(SetEq(m, i, v), j, w)[f] = SetEq(SetEq(m, j, w), i, v)[f]
  <2>1. f \notin Filters[i] \/ f \notin Filters[j]
    BY <1>3, FiltersApart
  <2> QED BY <2>1 DEF SetEq
<1>4. i # j => SetEq(SetEq(m, i, v), j, w) = SetEq(SetEq(m, j, w), i, v)
  BY <1>1, <1>3 DEF SetEq
<1> QED BY <1>1, <1>2, <1>4, EqInUse

\* What the equalizer uses after setParameter depends only on what it used
\* before, not on coefficients of the other kind.
LEMMA EqKeepsUse ==
  ASSUME NEW m \in [Filter -> Bands], NEW l \in [Filter -> Bands],
         InUse("simple_eq", m) = InUse("simple_eq", l),
         NEW i \in 0 .. 2, NEW v \in Int
  PROVE  InUse("simple_eq", SetEq(m, i, v)) = InUse("simple_eq", SetEq(l, i, v))
<1>1. ASSUME NEW f \in Filter
      PROVE  /\ SetEq(m, i, v)[f].v0 = SetEq(l, i, v)[f].v0
             /\ SetEq(m, i, v)[f].c = SetEq(l, i, v)[f].c
  <2>1. CASE f \in Filters[i]
    <3>1. SetEq(m, i, v)[f] = SetGain(f, m[f], v) /\ SetEq(l, i, v)[f] = SetGain(f, l[f], v)
      BY <2>1 DEF SetEq
    <3> QED BY <3>1, GainDecides
  <2>2. CASE f \notin Filters[i]
    BY <2>2, EqInUseOnly DEF SetEq
  <2> QED BY <2>1, <2>2
<1> QED BY <1>1, EqInUse

\* What svf uses after setParameter depends only on what it used before, not on
\* the table entries for cutoff and resonance, which process() does not read.
LEMMA SvfKeepsUse ==
  ASSUME NEW m \in SvfMembers, NEW l \in SvfMembers,
         InUse("svf", m) = InUse("svf", l),
         NEW i \in 0 .. 4, NEW v \in Int
  PROVE  InUse("svf", SetSvf(m, i, v)) = InUse("svf", SetSvf(l, i, v))
<1> DEFINE mix(x) == SubSeq(x.m_params, 3, 5)
<1>1. \A x : InUse("svf", x) = [m_f1 |-> x.m_f1, m_q1 |-> x.m_q1, mix |-> mix(x)]
  BY DEF InUse
<1>2. m.m_f1 = l.m_f1 /\ m.m_q1 = l.m_q1 /\ mix(m) = mix(l)
  BY DEF InUse
<1>3. \A x \in SvfMembers : mix(x) = [k \in 1 .. 3 |-> x.m_params[k + 2]]
  BY DEF SvfMembers
<1>4. m.m_params[3] = l.m_params[3] /\ m.m_params[4] = l.m_params[4]
      /\ m.m_params[5] = l.m_params[5]
  <2>1. \A k \in 1 .. 3 : m.m_params[k + 2] = l.m_params[k + 2]
    BY <1>2, <1>3
  <2>2. m.m_params[1 + 2] = l.m_params[1 + 2] /\ m.m_params[2 + 2] = l.m_params[2 + 2]
        /\ m.m_params[3 + 2] = l.m_params[3 + 2]
    BY <2>1
  <2> QED BY <2>2
<1>5. SetSvf(m, i, v) \in SvfMembers /\ SetSvf(l, i, v) \in SvfMembers
  BY SvfStays
<1>6. mix(SetSvf(m, i, v)) = mix(SetSvf(l, i, v))
  <2>1. \A k \in 1 .. 3 : SetSvf(m, i, v).m_params[k + 2] = SetSvf(l, i, v).m_params[k + 2]
    BY <1>4 DEF SetSvf, SvfMembers
  <2> QED BY <1>3, <1>5, <2>1
<1>7. SetSvf(m, i, v).m_f1 = SetSvf(l, i, v).m_f1 /\ SetSvf(m, i, v).m_q1 = SetSvf(l, i, v).m_q1
  BY <1>2 DEF SetSvf
<1> QED BY <1>1, <1>6, <1>7

-----------------------------------------------------------------------------
(* The same for any effect *)

\* The three facts on which the settings rest, for every effect: types are
\* kept; of two values for one index the last is in use; values for two indices
\* may be given in either order.
LEMMA Settings ==
  ASSUME NEW fx \in Effect, NEW m \in Members(fx),
         NEW i \in Index(fx), NEW v \in Int,
         NEW j \in Index(fx), NEW w \in Int
  PROVE  /\ SetParameter(fx, m, i, v) \in Members(fx)
         /\ InUse(fx, SetParameter(fx, SetParameter(fx, m, i, v), i, w))
              = InUse(fx, SetParameter(fx, m, i, w))
         /\ i # j => SetParameter(fx, SetParameter(fx, m, i, v), j, w)
                       = SetParameter(fx, SetParameter(fx, m, j, w), i, v)
<1>1. CASE fx \in Tables
  BY <1>1, MembersOfTable, SetOfTable, TableSettings
<1>2. CASE fx = "svf"
  <2>1. m \in SvfMembers /\ Members(fx) = SvfMembers /\ i \in 0 .. 4 /\ j \in 0 .. 4
    BY <1>2, MembersOf, IndexOf
  <2>2. \A x, n, y : SetParameter(fx, x, n, y) = SetSvf(x, n, y)
    BY <1>2, SetOfOthers
  <2>3. i # j => i + 1 # j + 1
    BY <2>1
  <2>4. Put(Put(m.m_params, i + 1, v), i + 1, w) = Put(m.m_params, i + 1, w)
    BY PutTwice
  <2>5. i # j => Put(Put(m.m_params, i + 1, v), j + 1, w)
                 = Put(Put(m.m_params, j + 1, w), i + 1, v)
    BY <2>3, PutSwap
  <2>6. SetSvf(m, i, v) \in SvfMembers
    BY <2>1, SvfStays
  <2>7. SetSvf(SetSvf(m, i, v), i, w) = SetSvf(m, i, w)
    BY <2>4, SvfIs
  <2>8. i # j => SetSvf(SetSvf(m, i, v), j, w) = SetSvf(SetSvf(m, j, w), i, v)
    BY <2>5, SvfIs
  <2> QED BY <2>1, <2>2, <2>6, <2>7, <2>8
<1>3. CASE fx = "chorus"
  <2>1. m \in ChorusMembers /\ Members(fx) = ChorusMembers /\ i \in 0 .. 2 /\ j \in 0 .. 2
    BY <1>3, MembersOf, IndexOf
  <2>2. \A x, n, y : SetParameter(fx, x, n, y) = SetChorus(x, n, y)
    BY <1>3, SetOfOthers
  <2>3. /\ SetChorus(m, i, v) \in ChorusMembers
        /\ SetChorus(SetChorus(m, i, v), i, w) = SetChorus(m, i, w)
        /\ i # j => SetChorus(SetChorus(m, i, v), j, w) = SetChorus(SetChorus(m, j, w), i, v)
    BY <2>1, ChorusSettings
  <2> QED BY <2>1, <2>2, <2>3
<1>4. CASE fx = "reverb1"
  <2>1. m \in Reverb1Members /\ Members(fx) = Reverb1Members /\ i \in 0 .. 1 /\ j \in 0 .. 1
    BY <1>4, MembersOf, IndexOf
  <2>2. \A x, n, y : SetParameter(fx, x, n, y) = SetReverb1(x, n, y)
    BY <1>4, SetOfOthers
  <2>3. /\ SetReverb1(m, i, v) \in Reverb1Members
        /\ SetReverb1(SetReverb1(m, i, v), i, w) = SetReverb1(m, i, w)
        /\ i # j => SetReverb1(SetReverb1(m, i, v), j, w) = SetReverb1(SetReverb1(m, j, w), i, v)
    BY <2>1, Reverb1Settings
  <2> QED BY <2>1, <2>2, <2>3
<1>5. CASE fx = "reverb2"
  <2>1. m \in Reverb2Members /\ Members(fx) = Reverb2Members /\ i \in 0 .. 6 /\ j \in 0 .. 6
    BY <1>5, MembersOf, IndexOf
  <2>2. \A x, n, y : SetParameter(fx, x, n, y) = SetReverb2(x, n, y)
    BY <1>5, SetOfOthers
  <2>3. SetReverb2(m, i, v) \in Reverb2Members
    BY <2>1, DampedIsFilter DEF SetReverb2, Reverb2Members
  <2>4. SetReverb2(SetReverb2(m, i, v), i, w) = SetReverb2(m, i, w)
    BY DEF SetReverb2
  <2>5. ASSUME i # j
        PROVE  SetReverb2(SetReverb2(m, i, v), j, w) = SetReverb2(SetReverb2(m, j, w), i, v)
    BY <2>5 DEF SetReverb2
  <2> QED BY <2>1, <2>2, <2>3, <2>4, <2>5
<1>6. CASE fx = "simple_eq"
  <2>1. m \in [Filter -> Bands] /\ Members(fx) = [Filter -> Bands] /\ i \in 0 .. 2 /\ j \in 0 .. 2
    BY <1>6, MembersOf, IndexOf
  <2>2. \A x, n, y : SetParameter(fx, x, n, y) = SetEq(x, n, y)
    BY <1>6, SetOfOthers
  <2>3. /\ SetEq(m, i, v) \in [Filter -> Bands]
        /\ InUse("simple_eq", SetEq(SetEq(m, i, v), i, w)) = InUse("simple_eq", SetEq(m, i, w))
        /\ i # j => SetEq(SetEq(m, i, v), j, w) = SetEq(SetEq(m, j, w), i, v)
    BY <2>1, EqSettings
  <2> QED BY <1>6, <2>1, <2>2, <2>3
<1>7. CASE fx = "sine_osc"
  BY <1>7, MembersOf, IndexOf, SetOfOthers, ParameterAssumption
<1>8. CASE fx = "white_noise"
  BY <1>8, MembersOf, IndexOf, SetOfOthers
<1>9. CASE fx = "passthrough"
  BY <1>9, MembersOf, IndexOf, SetOfOthers
<1> QED BY <1>1, <1>2, <1>3, <1>4, <1>5, <1>6, <1>7, <1>8, <1>9, EffectsAre

\* Two objects of an effect that are in use alike stay so when both are given a
\* parameter.
LEMMA SettingKeepsUse ==
  ASSUME NEW fx \in Effect, NEW m \in Members(fx), NEW l \in Members(fx),
         InUse(fx, m) = InUse(fx, l),
         NEW i \in Index(fx), NEW v \in Int
  PROVE  InUse(fx, SetParameter(fx, m, i, v))
           = InUse(fx, SetParameter(fx, l, i, v))
<1>1. CASE fx = "svf"
  <2>1. Members(fx) = SvfMembers /\ i \in 0 .. 4
    BY <1>1, MembersOf, IndexOf
  <2>2. \A x, n, y : SetParameter(fx, x, n, y) = SetSvf(x, n, y)
    BY <1>1, SetOfOthers
  <2> QED BY <1>1, <2>1, <2>2, SvfKeepsUse
<1>2. CASE fx = "simple_eq"
  <2>1. Members(fx) = [Filter -> Bands] /\ i \in 0 .. 2
    BY <1>2, MembersOf, IndexOf
  <2>2. \A x, n, y : SetParameter(fx, x, n, y) = SetEq(x, n, y)
    BY <1>2, SetOfOthers
  <2> QED BY <1>2, <2>1, <2>2, EqKeepsUse
<1>3. CASE fx \notin {"svf", "simple_eq"}
  BY <1>3, UseOf
<1> QED BY <1>1, <1>2, <1>3

-----------------------------------------------------------------------------
(* Settled *)

Given(fx) == [Index(fx) -> (0 .. Top) \cup {NotGiven}]

(***************************************************************************)
(* The objects m and l after the first k indices of Settled, given the old *)
(* parameters and the same with v at i: until k has passed i they are the  *)
(* same, and then the second is in use what the first is when given v.     *)
(***************************************************************************)
Agree(fx, i, v, m, l, k) ==
  /\ m \in Members(fx) /\ l \in Members(fx)
  /\ IF k <= i THEN l = m
     ELSE InUse(fx, l) = InUse(fx, SetParameter(fx, m, i, v))

\* A pass over the indices with one more value given: up to that index nothing
\* changes; from there on, the value stands instead of the one before.
LEMMA OneIndex ==
  ASSUME NEW fx \in Effect, NEW values \in Given(fx),
         NEW i \in Index(fx), NEW v \in 0 .. Top,
         NEW k \in 0 .. 6, NEW m, NEW l, Agree(fx, i, v, m, l, k)
  PROVE  Agree(fx, i, v, SetGiven(fx, values, m, k),
               SetGiven(fx, [values EXCEPT ![i] = v], l, k), k + 1)
<1> DEFINE mk == SetGiven(fx, values, m, k)
           lk == SetGiven(fx, [values EXCEPT ![i] = v], l, k)
<1> SUFFICES ASSUME m \in Members(fx), l \in Members(fx),
                    IF k <= i THEN l = m
                    ELSE InUse(fx, l) = InUse(fx, SetParameter(fx, m, i, v))
             PROVE  /\ mk \in Members(fx) /\ lk \in Members(fx)
                    /\ IF k + 1 <= i THEN lk = mk
                       ELSE InUse(fx, lk)
                              = InUse(fx, SetParameter(fx, mk, i, v))
  BY DEF Agree
<1> DEFINE Give(x, n, y) == SetParameter(fx, x, n, y)
           after == [values EXCEPT ![i] = v]
<1>1. /\ v \in Int /\ i \in Nat /\ DOMAIN values = Index(fx) /\ DOMAIN after = Index(fx)
      /\ after[i] = v /\ \A n \in Index(fx) : n # i => after[n] = values[n]
      /\ v # NotGiven
  BY ParameterAssumption, AnnouncedAre, EffectsAre DEF Given, Index, NotGiven
<1>2. \A n \in Index(fx) : values[n] # NotGiven => values[n] \in Int
  BY ParameterAssumption DEF Given
<1>3. CASE k \notin Index(fx)
  <2>1. mk = m /\ lk = l
    BY <1>1, <1>3 DEF SetGiven
  <2>2. k > i
    BY <1>3, AnnouncedAre, EffectsAre DEF Index, Tables
  <2> QED BY <1>1, <2>1, <2>2
<1>4. CASE k \in Index(fx) /\ k = i
  <2>1. lk = Give(m, i, v) /\ l = m
    BY <1>1, <1>4 DEF SetGiven
  <2>2. mk = m \/ (values[i] \in Int /\ mk = Give(m, i, values[i]))
    BY <1>1, <1>2, <1>4 DEF SetGiven
  <2>3. /\ Give(m, i, v) \in Members(fx)
        /\ values[i] \in Int =>
              /\ Give(m, i, values[i]) \in Members(fx)
              /\ InUse(fx, Give(Give(m, i, values[i]), i, v)) = InUse(fx, Give(m, i, v))
    BY <1>1, Settings
  <2> QED BY <1>1, <1>4, <2>1, <2>2, <2>3
<1>5. CASE k \in Index(fx) /\ k # i /\ values[k] = NotGiven
  <2>1. mk = m /\ lk = l
    BY <1>1, <1>5 DEF SetGiven
  <2> QED BY <1>1, <1>5, <2>1
<1>6. CASE k \in Index(fx) /\ k # i /\ values[k] # NotGiven
  <2> DEFINE u == values[k]
  <2>1. u \in Int /\ mk = Give(m, k, u) /\ lk = Give(l, k, u)
    BY <1>1, <1>2, <1>6 DEF SetGiven
  <2> HIDE DEF u
  <2>2. /\ Give(m, k, u) \in Members(fx) /\ Give(l, k, u) \in Members(fx)
        /\ Give(m, i, v) \in Members(fx)
        /\ Give(Give(m, i, v), k, u) = Give(Give(m, k, u), i, v)
    BY <1>1, <1>6, <2>1, Settings
  <2>3. CASE k < i
    BY <1>1, <2>1, <2>2, <2>3
  <2>4. CASE k > i
    <3>1. InUse(fx, l) = InUse(fx, Give(m, i, v))
      BY <1>1, <2>4
    <3>2. InUse(fx, Give(l, k, u)) = InUse(fx, Give(Give(m, i, v), k, u))
      BY <1>6, <2>1, <2>2, <3>1, SettingKeepsUse
    <3> QED BY <1>1, <2>1, <2>2, <2>4, <3>2
  <2> QED BY <1>1, <1>6, <2>3, <2>4
<1> QED BY <1>3, <1>4, <1>5, <1>6

\* Settled takes the last value of each parameter, whichever came last.
LEMMA SettledAgain ==
  ASSUME NEW fx \in Effect, NEW fresh \in Made(fx),
         NEW values \in Given(fx), NEW i \in Index(fx), NEW v \in 0 .. Top
  PROVE  /\ Settled(fx, fresh, values) \in Members(fx)
         /\ InUse(fx, Settled(fx, fresh, [values EXCEPT ![i] = v]))
              = InUse(fx, SetParameter(fx, Settled(fx, fresh, values), i, v))
<1> DEFINE S(x, k) == SetGiven(fx, values, x, k)
           L(x, k) == SetGiven(fx, [values EXCEPT ![i] = v], x, k)
           m1 == S(fresh, 0)  m2 == S(m1, 1)  m3 == S(m2, 2)  m4 == S(m3, 3)
           m5 == S(m4, 4)  m6 == S(m5, 5)  m7 == S(m6, 6)
           l1 == L(fresh, 0)  l2 == L(l1, 1)  l3 == L(l2, 2)  l4 == L(l3, 3)
           l5 == L(l4, 4)  l6 == L(l5, 5)  l7 == L(l6, 6)
           Agreed(m, l, k) == Agree(fx, i, v, m, l, k)
<1>i. i \in 0 .. 6
  BY AnnouncedAre, EffectsAre DEF Index, Tables
<1>n. \A m, l : \A k \in 0 .. 6 : Agreed(m, l, k) => Agreed(S(m, k), L(l, k), k + 1)
  BY OneIndex
<1>f. fresh \in Members(fx)
  BY MadeIsMembers
<1> HIDE DEF S, L, Agreed
<1>0. Agreed(fresh, fresh, 0)
  BY <1>i, <1>f DEF Agreed, Agree
<1>1. Agreed(m1, l1, 1)
  BY <1>0, <1>n
<1> HIDE DEF m1, l1
<1>2. Agreed(m2, l2, 2)
  BY <1>1, <1>n
<1> HIDE DEF m2, l2
<1>3. Agreed(m3, l3, 3)
  BY <1>2, <1>n
<1> HIDE DEF m3, l3
<1>4. Agreed(m4, l4, 4)
  BY <1>3, <1>n
<1> HIDE DEF m4, l4
<1>5. Agreed(m5, l5, 5)
  BY <1>4, <1>n
<1> HIDE DEF m5, l5
<1>6. Agreed(m6, l6, 6)
  BY <1>5, <1>n
<1> HIDE DEF m6, l6
<1>7. Agreed(m7, l7, 7)
  BY <1>6, <1>n
<1>8. m7 = Settled(fx, fresh, values)
  BY DEF Settled, m6, m5, m4, m3, m2, m1, S
<1>9. l7 = Settled(fx, fresh, [values EXCEPT ![i] = v])
  BY DEF Settled, l6, l5, l4, l3, l2, l1, L
<1> HIDE DEF m7, l7
<1> QED BY <1>i, <1>7, <1>8, <1>9 DEF Agreed, Agree

(***************************************************************************)
(* What the invariants of EffectState and EffectClient rest on: an effect  *)
(* is settled on nothing when made, and on the new values, if it was on    *)
(* the old ones, after setParameter.                                       *)
(***************************************************************************)
LEMMA MadeIsSettled ==
  ASSUME NEW fx \in Effect, NEW fresh \in Made(fx)
  PROVE  SettledOn(fx, fresh, [i \in Index(fx) |-> NotGiven])
<1> DEFINE values == [i \in Index(fx) |-> NotGiven]
<1>1. \A x, k : SetGiven(fx, values, x, k) = x
  BY DEF SetGiven
<1> HIDE DEF values
<1>2. Settled(fx, fresh, values) = fresh
  BY <1>1 DEF Settled
<1> QED BY <1>2 DEF SettledOn, values

\* A settled object that is given one more parameter is settled on the values
\* with that one replaced.
LEMMA SettledStays ==
  ASSUME NEW fx \in Effect, NEW all \in Members(fx),
         NEW values \in Given(fx), SettledOn(fx, all, values),
         NEW i \in Index(fx), NEW v \in 0 .. Top
  PROVE  /\ SetParameter(fx, all, i, v) \in Members(fx)
         /\ SettledOn(fx, SetParameter(fx, all, i, v), [values EXCEPT ![i] = v])
<1>1. PICK fresh \in Made(fx) :
        InUse(fx, all) = InUse(fx, Settled(fx, fresh, values))
  BY DEF SettledOn
<1>2. v \in Int
  OBVIOUS
<1>3. Settled(fx, fresh, values) \in Members(fx)
  BY SettledAgain
<1>4. InUse(fx, SetParameter(fx, all, i, v))
        = InUse(fx, SetParameter(fx, Settled(fx, fresh, values), i, v))
  BY <1>1, <1>2, <1>3, SettingKeepsUse
<1>5. InUse(fx, SetParameter(fx, all, i, v))
        = InUse(fx, Settled(fx, fresh, [values EXCEPT ![i] = v]))
  BY <1>4, SettledAgain
<1>6. SetParameter(fx, all, i, v) \in Members(fx)
  BY <1>2, Settings
<1> QED BY <1>5, <1>6 DEF SettledOn

(***************************************************************************)
(* 2. One object of an effect: it works with the last values it was given, *)
(* the sine sounds notes of C major, and what bends the wave stays within  *)
(* its bounds.                                                             *)
(***************************************************************************)

\* A band has no coefficient that is not a number in use.
Heard == {Nothing, Boost} \cup {Cut(v0) : v0 \in Int}

\* The members are settled on what was given; what else has to be known is
\* their type, and of the equalizer the coefficients in use.
SettingsInv ==
  /\ effect \in Effect
  /\ members \in Members(effect)
  /\ given \in Given(effect)
  /\ SettledOn(effect, members, given)
  /\ effect = "simple_eq" => \A f \in Filter : members[f].c \in Heard

\* None of the values that process() may use is the NaN.
LEMMA HeardIsANumber ==
  NotANumber \notin Heard
BY DEF NotANumber, Heard, Nothing, Boost, Cut

\* A gain that was set is a number, and the coefficient comes from it.
LEMMA GainIsHeard ==
  ASSUME NEW f, NEW b \in Bands, NEW v \in 0 .. Top
  PROVE  SetGain(f, b, v).c \in Heard
<1>1. SetGain(f, b, v).c = IF 2 * v >= Top THEN Boost ELSE CutCoefficient(f, v)
  BY GainDecides, ParameterAssumption
<1>2. v # NoGain /\ v \in Int /\ NoGain \in Int
  BY ParameterAssumption DEF NoGain
<1>3. CutCoefficient(f, v) \in Heard
  BY <1>2 DEF CutCoefficient, Heard
<1> QED BY <1>1, <1>3 DEF Heard

\* The invariant: setParameter keeps an effect settled, and process() does not
\* touch what parameters have set.
THEOREM SettingsInvariant == EffectSpec => []SettingsInv
<1>1. EffectInit => SettingsInv
  <2> SUFFICES ASSUME EffectInit PROVE SettingsInv
    OBVIOUS
  <2>1. /\ effect \in Effect /\ members \in Made(effect)
        /\ given = [i \in Index(effect) |-> NotGiven]
    BY DEF EffectInit
  <2>2. members \in Members(effect) /\ SettledOn(effect, members, given)
    BY <2>1, MadeIsMembers, MadeIsSettled
  <2>3. given \in Given(effect)
    BY <2>1 DEF Given
  <2>4. ASSUME effect = "simple_eq", NEW f \in Filter
        PROVE  members[f].c \in Heard
    <3>1. members = [g \in Filter |-> MadeBand(g)]
      BY <2>1, <2>4, TablesAre DEF Made, Tables
    <3> QED BY <3>1 DEF MadeBand, Heard
  <2> QED BY <2>1, <2>2, <2>3, <2>4 DEF SettingsInv
<1>2. SettingsInv /\ [EffectNext]_effectVars => SettingsInv'
  <2> SUFFICES ASSUME SettingsInv, [EffectNext]_effectVars PROVE SettingsInv'
    OBVIOUS
  <2>1. CASE UNCHANGED effectVars
    <3>1. UNCHANGED <<effect, members, given>>
      BY <2>1 DEF effectVars
    <3> QED BY <3>1 DEF SettingsInv
  <2>2. ASSUME NEW index \in Index(effect), NEW value \in Setting[effect],
               Set(index, value)
        PROVE  SettingsInv'
    <3>1. value \in 0 .. Top
      BY SettingAssumption DEF SettingsInv
    <3>2. /\ members' = SetParameter(effect, members, index, value)
          /\ given' = [given EXCEPT ![index] = value]
          /\ effect' = effect
      BY <2>2 DEF Set
    <3>3. members' \in Members(effect) /\ SettledOn(effect, members', given')
      BY <3>1, <3>2, SettledStays DEF SettingsInv
    <3>4. given' \in Given(effect)
      BY <3>1, <3>2 DEF SettingsInv, Given
    <3>5. ASSUME effect = "simple_eq", NEW f \in Filter
          PROVE  members'[f].c \in Heard
      <4>1. members \in [Filter -> Bands] /\ members' = SetEq(members, index, value)
        BY <3>2, <3>5, MembersOf, SetOfOthers DEF SettingsInv
      <4>2. members[f] \in Bands /\ members[f].c \in Heard
        BY <3>5, <4>1 DEF SettingsInv
      <4>3. members'[f] = IF f \in Filters[index] THEN SetGain(f, members[f], value)
                          ELSE members[f]
        BY <4>1 DEF SetEq
      <4> QED BY <3>1, <4>2, <4>3, GainIsHeard
    <3> QED BY <3>2, <3>3, <3>4, <3>5 DEF SettingsInv
  <2> QED BY <2>1, <2>2 DEF EffectNext
<1> QED BY <1>1, <1>2, PTL DEF EffectSpec

\* The effect is what a new one would be that is given the last values; no
\* coefficient is left from an earlier gain, and none is 0 / 0.
THEOREM SettingsAlwaysInUse == EffectSpec => []SettingsInUse
<1>1. SettingsInv => SettingsInUse
  BY HeardIsANumber DEF SettingsInv, SettingsInUse
<1> QED BY <1>1, SettingsInvariant, PTL

-----------------------------------------------------------------------------
(* The notes *)

\* Semitones of note i of the scale that starts each octave with Major.
InMajor(i) == 12 * (i \div 7) + Major[(i % 7) + 1]

\* From a note to the next, the scale goes as far as semis says.
LEMMA MajorSteps ==
  ASSUME NEW i \in Note, i # 0
  PROVE  i - 1 \in Note /\ InMajor(i) = InMajor(i - 1) + Semis(i)
<1> DEFINE q == (i - 1) \div 7
           r == (i - 1) % 7
<1>1. q \in Int /\ r \in 0 .. 6 /\ i - 1 = 7 * q + r /\ i - 1 \in Note
  BY DEF Note
<1>2. \A k \in 1 .. 7 : Major[k] = CASE k = 1 -> 0 [] k = 2 -> 2 [] k = 3 -> 4 [] k = 4 -> 5
                                     [] k = 5 -> 7 [] k = 6 -> 9 [] k = 7 -> 11
  BY DEF Major
<1>3. CASE r = 6
  <2>1. i \div 7 = q + 1 /\ i % 7 = 0
    BY <1>1, <1>3 DEF Note
  <2> QED BY <1>1, <1>2, <1>3, <2>1 DEF InMajor, Semis
<1>4. CASE r # 6
  <2>1. i \div 7 = q /\ i % 7 = r + 1
    BY <1>1, <1>4 DEF Note
  <2>2. r \in 0 .. 5 /\ Semis(i) = IF r \in {2, 6} THEN 1 ELSE 2
    BY <1>1, <1>4 DEF Semis
  <2>3. Major[r + 2] = Major[r + 1] + (IF r \in {2, 6} THEN 1 ELSE 2)
    BY <1>2, <2>2
  <2>4. InMajor(i) = 12 * q + Major[r + 2] /\ InMajor(i - 1) = 12 * q + Major[r + 1]
    BY <1>1, <2>1, <2>2 DEF InMajor
  <2>5. Major[r + 1] \in Int
    BY <1>2, <2>2
  <2> QED BY <1>1, <2>2, <2>3, <2>4, <2>5
<1> QED BY <1>3, <1>4

\* The table that the constructor of sine_osc computes note by note is the
\* scale.  The scale is one solution of the recursion; a least note at which
\* the table is another would follow one at which it is the same.
LEMMA ScaleIsMajor == \A i \in Note : Semitone[i] = InMajor(i)
<1> DEFINE g == [i \in Note |-> InMajor(i)]
<1>1. InMajor(0) = 0
  BY DEF InMajor, Major
<1>2. g = [i \in Note |-> IF i = 0 THEN 0 ELSE g[i - 1] + Semis(i)]
  BY <1>1, MajorSteps
<1>3. Semitone = [i \in Note |-> IF i = 0 THEN 0 ELSE Semitone[i - 1] + Semis(i)]
  <2> HIDE DEF g
  <2> QED BY <1>2, Zenon DEF Semitone
<1>4. \A i \in Note : Semitone[i] = IF i = 0 THEN 0 ELSE Semitone[i - 1] + Semis(i)
  BY <1>3
<1> DEFINE T == {i \in Note : Semitone[i] # InMajor(i)}
<1>5. SUFFICES ASSUME T # {} PROVE FALSE
  OBVIOUS
<1>6. PICK x \in T : \A y \in T : x <= y
  <2>1. T \in SUBSET Nat
    BY DEF Note
  <2> QED BY <1>5, <2>1, Least
<1>7. x # 0
  BY <1>1, <1>4
<1>8. x - 1 \in Note /\ InMajor(x) = InMajor(x - 1) + Semis(x)
  BY <1>7, MajorSteps
<1>9. x - 1 \notin T
  BY <1>6, <1>8 DEF Note
<1> QED BY <1>4, <1>7, <1>8, <1>9

\* The index of the note is that of the last parameter, if there was one.
NoteInv ==
  effect = "sine_osc" =>
    /\ members.m_index \in Nat /\ 0 \in DOMAIN given
    /\ given[0] \in {NotGiven} \cup 0 .. Top
    /\ given[0] # NotGiven => members.m_index = (70 * given[0]) \div Top

\* The constructor leaves m_index as it is, setParameter computes it.
THEOREM NoteInvariant == EffectSpec => []NoteInv
<1>1. EffectInit => NoteInv
  <2> SUFFICES ASSUME EffectInit, effect = "sine_osc"
      PROVE  members.m_index \in Nat /\ 0 \in DOMAIN given /\ given[0] = NotGiven
    BY DEF NoteInv
  <2>1. members \in {[m_index |-> g] : g \in Garbage} /\ 0 \in Index(effect)
    BY IndexOf, TablesAre DEF EffectInit, Made, Tables
  <2> QED BY <2>1, ParameterAssumption DEF EffectInit
<1>2. NoteInv /\ [EffectNext]_effectVars => NoteInv'
  <2> SUFFICES ASSUME NoteInv, [EffectNext]_effectVars PROVE NoteInv'
    OBVIOUS
  <2>1. CASE UNCHANGED effectVars
    <3>1. UNCHANGED <<effect, members, given>>
      BY <2>1 DEF effectVars
    <3> QED BY <3>1 DEF NoteInv
  <2>2. ASSUME NEW index \in Index(effect), NEW value \in Setting[effect],
               Set(index, value), effect = "sine_osc"
        PROVE  NoteInv'
    <3>1. value \in 0 .. Top /\ index = 0
      BY <2>2, SettingAssumption, EffectsAre, IndexOf
    <3>2. members' = [m_index |-> (70 * value) \div Top] /\ effect' = effect
      BY <2>2, <3>1, SetOfOthers DEF Set
    <3>3. given' = [given EXCEPT ![0] = value]
      BY <2>2, <3>1 DEF Set
    <3>4. (70 * value) \div Top \in Nat
      <4>1. Top \in Nat \ {0} /\ 70 * value \in Nat
        BY <3>1, ParameterAssumption
      <4> QED BY <4>1
    <3>5. 0 \in DOMAIN given /\ given'[0] = value /\ 0 \in DOMAIN given'
      BY <2>2, <3>3 DEF NoteInv
    <3>6. members'.m_index = (70 * value) \div Top
      BY <3>2
    <3> QED BY <3>1, <3>2, <3>4, <3>5, <3>6 DEF NoteInv
  <2>3. ASSUME NEW index \in Index(effect), NEW value \in Setting[effect],
               Set(index, value), effect # "sine_osc"
        PROVE  NoteInv'
    BY <2>3 DEF Set, NoteInv
  <2> QED BY <2>1, <2>2, <2>3 DEF EffectNext
<1> QED BY <1>1, <1>2, PTL DEF EffectSpec

\* A quotient rounded down.
LEMMA Quotient ==
  ASSUME NEW a \in Nat, NEW d \in Nat \ {0}
  PROVE  LET q == a \div d IN
         q \in Nat /\ q * d <= a /\ a < (q + 1) * d
BY SMT

\* The sine sounds a note of C major, the one its parameter selects, or what
\* lies beyond the table at the parameter 1.0 and before any parameter.
THEOREM NotesAlwaysMajor == EffectSpec => []NotesAreMajor
<1>1. NoteInv => NotesAreMajor
  <2> SUFFICES ASSUME NoteInv, effect = "sine_osc"
      PROVE  IF members.m_index \in Note
             THEN /\ Semitone[members.m_index] = InMajor(members.m_index)
                  /\ given[0] # NotGiven =>
                       /\ members.m_index * Top <= 70 * given[0]
                       /\ 70 * given[0] < (members.m_index + 1) * Top
             ELSE given[0] \in {NotGiven, Top}
    BY DEF NotesAreMajor, InMajor
  <2> DEFINE m == members.m_index
             v == given[0]
  <2>1. m \in Nat /\ v \in {NotGiven} \cup 0 .. Top /\ Top \in Nat \ {0}
    BY ParameterAssumption DEF NoteInv
  <2>2. ASSUME v # NotGiven
        PROVE  v \in 0 .. Top /\ m * Top <= 70 * v /\ 70 * v < (m + 1) * Top
    <3>1. v \in 0 .. Top /\ 70 * v \in Nat /\ m = (70 * v) \div Top
      BY <2>1, <2>2 DEF NoteInv
    <3> HIDE DEF m, v
    <3> QED BY <2>1, <3>1, Quotient
  <2>3. ASSUME m \notin Note, v # NotGiven
        PROVE  v = Top
    <3>1. m >= 70 /\ v \in 0 .. Top /\ m * Top <= 70 * v
      BY <2>1, <2>2, <2>3 DEF Note
    <3> HIDE DEF m, v
    <3>2. 70 * Top <= m * Top
      BY <2>1, <3>1
    <3> QED BY <2>1, <3>1, <3>2
  <2> QED BY <2>1, <2>2, <2>3, ScaleIsMajor
<1> QED BY <1>1, NoteInvariant, PTL

-----------------------------------------------------------------------------
(* The wave shapers *)

\* Twice the fold's unit is the period; rounding to the nearest multiple of it
\* leaves a rest of half of it at most, and no multiple is nearer.
LEMMA NearestMultiple ==
  ASSUME NEW d \in Nat \ {0}, NEW a \in Nat
  PROVE  LET q == (2 * a + d) \div (2 * d) IN
         /\ q \in Nat /\ 2 * Absolute(a - d * q) <= d
         /\ \A k \in Int : Absolute(a - d * q) <= Absolute(a - d * k)
<1> DEFINE q == (2 * a + d) \div (2 * d)
<1>1. 2 * a + d \in Nat /\ 2 * d \in Nat \ {0}
  OBVIOUS
<1>2. q \in Nat /\ q * (2 * d) <= 2 * a + d /\ 2 * a + d < (q + 1) * (2 * d)
  BY <1>1, Quotient
<1> HIDE DEF q
<1> DEFINE m == d * q
<1>3. m \in Nat /\ q * (2 * d) = 2 * m /\ (q + 1) * (2 * d) = 2 * m + 2 * d
  BY <1>2
<1>4. 2 * Absolute(a - m) <= d
  <2> HIDE DEF m
  <2> QED BY <1>2, <1>3 DEF Absolute
<1>5. ASSUME NEW k \in Int
      PROVE  Absolute(a - m) <= Absolute(a - d * k)
  <2>1. d * k \in Int /\ (k < q => d * k <= m - d) /\ (k > q => d * k >= m + d)
    <3>1. CASE k < q
      <4>1. d * k \in Int /\ d * k <= d * (q - 1) /\ d * (q - 1) = m - d
        BY <1>2, <3>1
      <4> HIDE DEF m
      <4> QED BY <1>2, <3>1, <4>1
    <3>2. CASE k > q
      <4>1. d * k \in Int /\ d * k >= d * (q + 1) /\ d * (q + 1) = m + d
        BY <1>2, <3>2
      <4> HIDE DEF m
      <4> QED BY <1>2, <3>2, <4>1
    <3>3. CASE k = q
      BY <1>2, <3>3
    <3> QED BY <3>1, <3>2, <3>3, <1>2
  <2>2. CASE k = q
    BY <1>3, <2>2 DEF Absolute
  <2> DEFINE n == d * k
  <2>3. CASE k # q
    <3>1. n \in Int /\ (n <= m - d \/ n >= m + d)
      BY <1>2, <2>1, <2>3
    <3> HIDE DEF m, n
    <3>2. Absolute(a - m) <= Absolute(a - n)
      BY <1>3, <1>4, <3>1 DEF Absolute
    <3> QED BY <3>2 DEF n
  <2> QED BY <2>2, <2>3
<1> QED BY <1>2, <1>4, <1>5 DEF q

\* How far a is from a multiple of d.
Distance(a, d) == Absolute(a - d * Rounded(a, d))

\* The distance to the nearest multiple is half of d at most; halves are
\* rounded away from 0, so that both sides of 0 are alike.
LEMMA DistanceIs ==
  ASSUME NEW d \in Nat \ {0}, NEW a \in Nat
  PROVE  /\ Rounded(a, d) \in Int /\ Distance(a, d) \in Nat
         /\ 2 * Distance(a, d) <= d
         /\ \A k \in Int : Distance(a, d) <= Absolute(a - d * k)
         /\ Rounded(-a, d) = -Rounded(a, d)
         /\ Distance(0, d) = 0
<1> DEFINE q == (2 * a + d) \div (2 * d)
<1>1. /\ q \in Nat /\ 2 * Absolute(a - d * q) <= d
      /\ \A k \in Int : Absolute(a - d * q) <= Absolute(a - d * k)
  BY NearestMultiple
<1>2. Absolute(a) = a /\ Absolute(-a) = a
  BY DEF Absolute
<1> HIDE DEF q
<1>3. a # 0 => Rounded(a, d) = q /\ Rounded(-a, d) = -q
  BY <1>1, <1>2 DEF Rounded, Sign, q
<1>4. a = 0 => Rounded(a, d) = 0 /\ Rounded(-a, d) = 0
  BY <1>1, <1>2 DEF Rounded, Sign, q
<1>5. a = 0 => q = 0
  <2>1. a = 0 => d * q <= 0
    <3>1. a = 0 => Absolute(a - d * q) <= Absolute(a - d * 0) /\ a - d * 0 = 0
      BY <1>1
    <3>2. d * q \in Nat
      BY <1>1
    <3> QED BY <3>1, <3>2 DEF Absolute
  <2> QED BY <1>1, <2>1
<1>6. Rounded(a, d) = q /\ Rounded(-a, d) = -q
  BY <1>1, <1>3, <1>4, <1>5
<1>7. Distance(0, d) = 0
  BY DEF Distance, Rounded, Sign, Absolute
<1>8. Absolute(a - d * q) \in Nat
  BY <1>1 DEF Absolute
<1> QED BY <1>1, <1>6, <1>7, <1>8 DEF Distance

\* The distance never changes by more than the number does.
LEMMA DistanceMoves ==
  ASSUME NEW d \in Nat \ {0}, NEW a \in Nat, NEW b \in Nat
  PROVE  Distance(b, d) - Distance(a, d) <= Absolute(b - a)
<1> DEFINE k == Rounded(a, d)
           n == d * k
<1>1. k \in Int /\ Distance(b, d) <= Absolute(b - n) /\ Distance(b, d) \in Nat
  BY DistanceIs
<1>2. Distance(a, d) = Absolute(a - n) /\ n \in Int
  BY <1>1 DEF Distance
<1> HIDE DEF n
<1> QED BY <1>1, <1>2 DEF Absolute

\* A sample and its opposite are folded to how far their product with the gain
\* is from a multiple of the period.
LEMMA FoldIs ==
  ASSUME NEW gain \in Nat, NEW s \in 0 .. Unit
  PROVE  /\ gain * s \in Nat
         /\ Fold(gain, s) = Distance(gain * s, 2 * FoldUnit)
         /\ Fold(gain, -s) = -Distance(gain * s, 2 * FoldUnit)
<1> DEFINE d == 2 * FoldUnit
           a == gain * s
<1>1. d \in Nat \ {0}
  BY ParameterAssumption DEF FoldUnit, Unit
<1>2. a \in Nat /\ gain * (-s) = -a
  BY DEF Unit
<1> HIDE DEF a, d
<1>3. /\ Rounded(a, d) \in Int /\ Rounded(-a, d) = -Rounded(a, d)
      /\ Distance(a, d) \in Nat /\ Distance(0, d) = 0
  BY <1>1, <1>2, DistanceIs
<1> DEFINE n == d * Rounded(a, d)
<1>4. n \in Int /\ d * Rounded(-a, d) = -n
  BY <1>1, <1>3
<1>5. Distance(a, d) = Absolute(a - n) /\ Absolute(-a - (-n)) = Absolute(a - n)
  <2> HIDE DEF n
  <2>1. Absolute(-a - (-n)) = Absolute(a - n)
    BY <1>2, <1>4 DEF Absolute
  <2> QED BY <2>1 DEF Distance, n
<1>6. Fold(gain, s) = Sign(a) * Distance(a, d)
  BY DEF Fold, Distance, a, d
<1>7. Fold(gain, -s) = Sign(-a) * Distance(a, d)
  <2>1. Fold(gain, -s) = Sign(-a) * Absolute(-a - d * Rounded(-a, d))
    BY <1>2 DEF Fold, d
  <2> QED BY <1>4, <1>5, <2>1
<1>8. Sign(a) * Distance(a, d) = Distance(a, d) /\ Sign(-a) * Distance(a, d) = -Distance(a, d)
  <2>1. CASE a = 0
    <3>1. Sign(a) = 0 /\ Sign(-a) = 0 /\ Distance(a, d) = 0
      BY <1>3, <2>1 DEF Sign
    <3> QED BY <3>1
  <2>2. CASE a # 0
    <3>1. Sign(a) = 1 /\ Sign(-a) = -1
      BY <1>2, <2>2 DEF Sign
    <3> QED BY <1>3, <3>1
  <2> QED BY <2>1, <2>2
<1>9. /\ a \in Nat /\ Fold(gain, s) = Distance(a, d) /\ Fold(gain, -s) = -Distance(a, d)
  BY <1>2, <1>6, <1>7, <1>8
<1> QED BY <1>9 DEF a, d

\* The wave folder, at any gain.
LEMMA FoldBounded ==
  ASSUME NEW gain \in Nat, NEW s \in Sample
  PROVE  /\ Fold(gain, s) \in -FoldUnit .. FoldUnit
         /\ Fold(gain, -s) = -Fold(gain, s)
         /\ s < Unit => Absolute(Fold(gain, s + 1) - Fold(gain, s)) <= gain
<1> DEFINE d == 2 * FoldUnit
           D(t) == Distance(gain * t, d)
<1>1. d \in Nat \ {0} /\ FoldUnit \in Nat /\ d = 2 * FoldUnit
  BY ParameterAssumption DEF FoldUnit, Unit
<1> HIDE DEF d
<1>2. \A t \in 0 .. Unit : /\ gain * t \in Nat /\ D(t) \in Nat /\ D(t) <= FoldUnit
                           /\ Fold(gain, t) = D(t) /\ Fold(gain, -t) = -D(t)
  <2> TAKE t \in 0 .. Unit
  <2>1. gain * t \in Nat /\ Fold(gain, t) = D(t) /\ Fold(gain, -t) = -D(t)
    BY FoldIs DEF d
  <2>2. D(t) \in Nat /\ 2 * D(t) <= d
    BY <1>1, <2>1, DistanceIs
  <2> HIDE DEF D
  <2> QED BY <1>1, <2>1, <2>2
<1>3. \A t \in 0 .. Unit : t < Unit =>
        D(t + 1) - D(t) <= gain /\ D(t) - D(t + 1) <= gain
  <2> SUFFICES ASSUME NEW t \in 0 .. Unit, t < Unit
               PROVE  D(t + 1) - D(t) <= gain /\ D(t) - D(t + 1) <= gain
    OBVIOUS
  <2> DEFINE a == gain * t
             b == gain * (t + 1)
  <2>1. a \in Nat /\ b \in Nat /\ b - a = gain /\ a - b = -gain
    BY DEF Unit
  <2> HIDE DEF a, b
  <2>2. Distance(b, d) - Distance(a, d) <= Absolute(b - a)
        /\ Distance(a, d) - Distance(b, d) <= Absolute(a - b)
    BY <1>1, <2>1, DistanceMoves
  <2>3. Absolute(b - a) = gain /\ Absolute(a - b) = gain
    BY <2>1 DEF Absolute
  <2> QED BY <2>2, <2>3 DEF a, b
<1> HIDE DEF D
<1>4. CASE s >= 0
  <2>1. s \in 0 .. Unit /\ (s < Unit => s + 1 \in 0 .. Unit)
    BY <1>4 DEF Sample, Unit
  <2>2. Fold(gain, s) = D(s) /\ Fold(gain, -s) = -D(s) /\ D(s) \in Nat /\ D(s) <= FoldUnit
    BY <1>2, <2>1
  <2>3. s < Unit => Absolute(Fold(gain, s + 1) - Fold(gain, s)) <= gain
    <3>1. s < Unit => /\ Fold(gain, s + 1) = D(s + 1) /\ D(s + 1) \in Nat
                      /\ D(s + 1) - D(s) <= gain /\ D(s) - D(s + 1) <= gain
      BY <1>2, <1>3, <2>1
    <3> QED BY <2>2, <3>1 DEF Absolute
  <2> QED BY <1>1, <2>2, <2>3
<1>5. CASE s < 0
  <2> DEFINE t == -s
             u == -(s + 1)
  <2>1. /\ t \in 0 .. Unit /\ u \in 0 .. Unit /\ u < Unit /\ t = u + 1
        /\ s = -t /\ s + 1 = -u /\ -s = t
    BY <1>5 DEF Sample, Unit
  <2> HIDE DEF t, u
  <2>2. /\ Fold(gain, s) = -D(t) /\ Fold(gain, -s) = D(t) /\ Fold(gain, s + 1) = -D(u)
        /\ D(t) \in Nat /\ D(u) \in Nat /\ D(t) <= FoldUnit
    BY <1>2, <2>1
  <2>3. D(t) - D(u) <= gain /\ D(u) - D(t) <= gain
    BY <1>3, <2>1
  <2>4. Absolute(Fold(gain, s + 1) - Fold(gain, s)) <= gain
    BY <2>2, <2>3 DEF Absolute
  <2> QED BY <1>1, <2>2, <2>4
<1> QED BY <1>4, <1>5 DEF Sample, Unit

\* The cube grows with its root.
LEMMA CubeBounded ==
  ASSUME NEW c \in -10 .. 50
  PROVE  /\ Cube(c) \in Int /\ -1000 <= Cube(c) /\ Cube(c) <= 125000
         /\ c <= 20 => Cube(c) <= 8000
<1>1. ASSUME NEW m \in Nat, NEW n \in 0 .. m
      PROVE  n * n * n \in Nat /\ n * n * n <= m * m * m
  <2>1. n * n <= m * m /\ n * n \in Nat /\ m * m \in Nat
    <3>1. n * n <= n * m /\ n * m <= m * m
      BY <1>1
    <3> QED BY <1>1, <3>1
  <2> DEFINE nn == n * n
             mm == m * m
  <2>2. nn \in Nat /\ mm \in Nat /\ nn <= mm
    BY <2>1
  <2> HIDE DEF nn, mm
  <2>3. nn * n <= mm * n /\ mm * n <= mm * m /\ nn * n \in Nat
    BY <1>1, <2>2
  <2>4. mm * n \in Nat /\ mm * m \in Nat
    BY <1>1, <2>2
  <2>5. nn * n <= mm * m
    BY <2>3, <2>4
  <2> QED BY <2>3, <2>5 DEF nn, mm
<1>2. CASE c >= 0
  <2>1. c \in 0 .. 50 /\ (c <= 20 => c \in 0 .. 20)
    BY <1>2
  <2> DEFINE k == c * c * c
  <2>2. k \in Nat /\ k <= 50 * 50 * 50
    BY <1>1, <2>1
  <2>3. c <= 20 => k <= 20 * 20 * 20
    BY <1>1, <2>1
  <2>4. Cube(c) = k
    BY DEF Cube
  <2> HIDE DEF k
  <2> QED BY <2>2, <2>3, <2>4
<1>3. CASE c < 0
  <2> DEFINE e == -c
  <2>1. e \in 0 .. 10 /\ c = -e
    BY <1>3
  <2> HIDE DEF e
  <2> DEFINE k == e * e * e
  <2>2. k \in Nat /\ k <= 10 * 10 * 10
    BY <1>1, <2>1
  <2>3. Cube(c) = -k
    BY <2>1 DEF Cube
  <2> HIDE DEF k
  <2> QED BY <2>1, <2>2, <2>3
<1> QED BY <1>2, <1>3

\* The distortion, at any parameter: which of its four pieces a sample falls
\* into, and how far each of them goes.
LEMMA DistortBounded ==
  ASSUME NEW x \in 0 .. Top, NEW s \in Sample
  PROVE  /\ 3 * Distort(x, s) \in
              (IF s < 0 THEN -122 ELSE -5) * DistortUnit .. 4 * DistortUnit
         /\ s = 0 => Distort(x, s) = 0
<1> DEFINE scaled == 3 * (Top - x) * Unit
           magnitude == 10 * Top * Absolute(s)
<1>1. /\ Top \in Nat \ {0} /\ x \in Nat /\ x <= Top
      /\ s \in Int /\ -10 <= s /\ s <= 10 /\ Absolute(s) \in 0 .. 10
      /\ Unit = 10 /\ Cube(Unit) = 1000 /\ DistortUnit = 3000 /\ DistortUnit \div Unit = 300
  BY ParameterAssumption DEF Sample, Unit, Absolute, Cube, DistortUnit
<1>2. /\ scaled \in Nat /\ scaled <= 30 * Top /\ (x = Top => scaled = 0)
      /\ magnitude \in Nat /\ (s = 0 => magnitude = 0)
  BY <1>1 DEF Absolute
<1>3. Distort(x, s) = IF magnitude < scaled THEN 2 * s * 300
                      ELSE IF magnitude < 2 * scaled THEN 3000
                      ELSE IF scaled > 0 THEN 3000 - Cube(2 * 10 - 3 * s)
                      ELSE 0
  BY <1>1 DEF Distort
<1>4. magnitude < 30 * Top => -2 <= s /\ s <= 2
  <2>1. \A k \in 0 .. 10 : k >= 3 => 10 * Top * k >= 30 * Top
    BY <1>1
  <2>2. magnitude < 30 * Top => Absolute(s) <= 2
    BY <1>1, <2>1
  <2> QED BY <1>1, <2>2 DEF Absolute
<1> HIDE DEF scaled, magnitude
<1> DEFINE bent == 3000 - Cube(2 * 10 - 3 * s)
<1>5. bent \in Int /\ -122000 <= bent /\ bent <= 4000 /\ (s >= 0 => bent >= -5000)
  <2> DEFINE c == 2 * 10 - 3 * s
  <2>1. c \in -10 .. 50 /\ (s >= 0 => c <= 20)
    BY <1>1
  <2> HIDE DEF c
  <2>2. /\ Cube(c) \in Int /\ -1000 <= Cube(c) /\ Cube(c) <= 125000
        /\ c <= 20 => Cube(c) <= 8000
    BY <2>1, CubeBounded
  <2> QED BY <1>1, <2>1, <2>2 DEF c
<1>6. s = 0 => Distort(x, s) = 0
  BY <1>2, <1>3
<1>7. CASE magnitude < scaled
  BY <1>1, <1>2, <1>3, <1>4, <1>7
<1>8. CASE ~(magnitude < scaled)
  <2>1. Distort(x, s) = 0 \/ Distort(x, s) = 3000 \/ Distort(x, s) = bent
    BY <1>3, <1>8
  <2> DEFINE y == Distort(x, s)
             low == (IF s < 0 THEN -122 ELSE -5) * DistortUnit
             high == 4 * DistortUnit
  <2> HIDE DEF bent, y
  <2>2. y \in Int /\ 3 * y <= 12000 /\ 3 * y >= (IF s < 0 THEN -366000 ELSE -15000)
    BY <1>1, <1>5, <2>1 DEF y
  <2>3. low = (IF s < 0 THEN -366000 ELSE -15000) /\ high = 12000
    BY <1>1
  <2> HIDE DEF low, high
  <2>4. low \in Int /\ high \in Int /\ low <= 3 * y /\ 3 * y <= high
    BY <2>2, <2>3
  <2>5. 3 * y \in low .. high
    BY <2>2, <2>4
  <2> QED BY <1>6, <2>5 DEF y, low, high
<1> QED BY <1>6, <1>7, <1>8

\* The first parameter of a wave shaper is within its range, scaled or not.
ShaperInv ==
  effect \in {"wavefolder", "simple_dist"} =>
    /\ DOMAIN members.m_params = 1 .. 1
    /\ members.m_params[1] \in 0 .. Scale(effect) * Top

\* The constructors and setParameter keep it there.
THEOREM ShaperInvariant == EffectSpec => []ShaperInv
<1>1. Top \in Nat \ {0} /\ Top \div 2 \in Nat /\ Top \div 2 <= Top
  BY ParameterAssumption
<1>2. EffectInit => ShaperInv
  <2> SUFFICES ASSUME EffectInit, effect \in {"wavefolder", "simple_dist"}
      PROVE  /\ DOMAIN members.m_params = 1 .. 1
             /\ members.m_params[1] \in 0 .. Scale(effect) * Top
    BY DEF ShaperInv
  <2>1. members = Table(effect)
    BY TablesAre DEF EffectInit, Made, Tables
  <2>2. CASE effect = "wavefolder"
    <3>1. members.m_params = <<Top \div 2>> /\ Scale(effect) = 10
      BY <2>1, <2>2 DEF Table, Defaults, Scale
    <3> QED BY <1>1, <3>1
  <2>3. CASE effect = "simple_dist"
    <3>1. members.m_params = <<0>> /\ Scale(effect) = 1
      BY <2>1, <2>3 DEF Table, Defaults, Scale
    <3> QED BY <1>1, <3>1
  <2> QED BY <2>2, <2>3
<1>3. ShaperInv /\ [EffectNext]_effectVars => ShaperInv'
  <2> SUFFICES ASSUME ShaperInv, [EffectNext]_effectVars PROVE ShaperInv'
    OBVIOUS
  <2>1. CASE UNCHANGED effectVars
    <3>1. UNCHANGED <<effect, members>>
      BY <2>1 DEF effectVars
    <3> QED BY <3>1 DEF ShaperInv
  <2>2. ASSUME NEW index \in Index(effect), NEW value \in Setting[effect],
               Set(index, value), effect \in {"wavefolder", "simple_dist"}
        PROVE  ShaperInv'
    <3>1. effect \in Effect /\ effect \in Tables
      BY <2>2, EffectsAre DEF Tables
    <3>2. value \in 0 .. Top /\ index = 0
      <4>1. Announced[effect] = 1
        BY <2>2, AnnouncedAre
      <4>2. index \in 0 .. 0
        BY <4>1 DEF Index
      <4> QED BY <3>1, <4>2, SettingAssumption
    <3>3. /\ members'.m_params = [members.m_params EXCEPT ![1] = Scale(effect) * value]
          /\ effect' = effect
      <4>1. members' = SetTable(effect, members, index, value) /\ effect' = effect
        BY <2>2, <3>1, SetOfTable DEF Set
      <4> QED BY <3>2, <4>1 DEF SetTable
    <3>4. Scale(effect) * value \in 0 .. Scale(effect) * Top
      BY <1>1, <3>2 DEF Scale
    <3>5. DOMAIN members.m_params = 1 .. 1
      BY <2>2 DEF ShaperInv
    <3> QED BY <3>3, <3>4, <3>5 DEF ShaperInv
  <2>3. ASSUME NEW index \in Index(effect), NEW value \in Setting[effect],
               Set(index, value), effect \notin {"wavefolder", "simple_dist"}
        PROVE  ShaperInv'
    BY <2>3 DEF Set, ShaperInv
  <2> QED BY <2>1, <2>2, <2>3 DEF EffectNext
<1> QED BY <1>2, <1>3, PTL DEF EffectSpec

\* The wave folder stays in -1 .. 1, is odd and never moves faster than the
\* amplified input, whatever the parameters were.
THEOREM FoldedAlwaysBounded == EffectSpec => []FoldedIsBounded
<1>1. ShaperInv => FoldedIsBounded
  <2> SUFFICES ASSUME ShaperInv, effect = "wavefolder" PROVE FoldedIsBounded
    BY DEF FoldedIsBounded
  <2>1. members.m_params[1] \in 0 .. Scale(effect) * Top /\ Scale(effect) = 10
    BY DEF ShaperInv, Scale
  <2>2. members.m_params[1] \in Nat
    BY <2>1, ParameterAssumption
  <2> QED BY <2>2, FoldBounded DEF FoldedIsBounded
<1> QED BY <1>1, ShaperInvariant, PTL

\* The distortion stays within -122/3 .. 4/3, the positive samples within
\* -5/3 .. 4/3, and keeps silence silent, whatever the parameters were.
THEOREM DistortedAlwaysBounded == EffectSpec => []DistortedIsBounded
<1>1. ShaperInv => DistortedIsBounded
  <2> SUFFICES ASSUME ShaperInv, effect = "simple_dist" PROVE DistortedIsBounded
    BY DEF DistortedIsBounded
  <2>1. members.m_params[1] \in 0 .. Scale(effect) * Top /\ Scale(effect) = 1
    BY DEF ShaperInv, Scale
  <2>2. members.m_params[1] \in 0 .. Top
    BY <2>1, ParameterAssumption
  <2> QED BY <2>2, DistortBounded DEF DistortedIsBounded
<1> QED BY <1>1, ShaperInvariant, PTL

(***************************************************************************)
(* 3. The client: what its construction guarantees (LifeInvariant), what   *)
(* the ring holds (FrameInvariant), and the parameter queue it implements. *)
(***************************************************************************)

\* The bytes that a piece of a write publishes.
LEMMA BytesProperties ==
  ASSUME NEW p \in Parameter, NEW first \in Nat, NEW n \in Nat,
         first + n <= ParameterSize
  PROVE  /\ Bytes(p, first, n) \in Seq(Byte)
         /\ Len(Bytes(p, first, n)) = n
         /\ \A k \in 1 .. n : Bytes(p, first, n)[k] = <<p, first + k>>
<1>1. \A k \in 1 .. n : <<p, first + k>> \in Byte
  BY SizeAssumption DEF Byte
<1>2. Bytes(p, first, n) \in [1 .. n -> Byte]
  BY <1>1 DEF Bytes
<1> QED BY <1>2 DEF Bytes

\* The bytes of a whole parameter.
LEMMA EncodeProperties ==
  ASSUME NEW p \in Parameter
  PROVE  /\ Encode(p) \in Seq(Byte)
         /\ Len(Encode(p)) = ParameterSize
         /\ \A k \in 1 .. ParameterSize : Encode(p)[k] = <<p, k>>
<1>1. 0 \in Nat /\ ParameterSize \in Nat /\ 0 + ParameterSize <= ParameterSize
  BY SizeAssumption
<1>2. /\ Bytes(p, 0, ParameterSize) \in Seq(Byte)
      /\ Len(Bytes(p, 0, ParameterSize)) = ParameterSize
      /\ \A k \in 1 .. ParameterSize :
            Bytes(p, 0, ParameterSize)[k] = <<p, 0 + k>>
  BY <1>1, BytesProperties
<1>3. \A k \in 1 .. ParameterSize : 0 + k = k
  BY <1>1
<1> QED BY <1>2, <1>3 DEF Encode

\* Whatever bytes are read, process() makes a parameter or garbage of them.
LEMMA DecodeType ==
  ASSUME NEW bytes
  PROVE  Decode(bytes) \in Parameter \cup {Garbled}
BY DEF Decode

\* The bytes of a parameter that are read together give it back.
LEMMA DecodeEncode ==
  ASSUME NEW p \in Parameter
  PROVE  Decode(Encode(p)) = p
<1>1. ASSUME NEW q \in Parameter, Encode(p) = Encode(q)
      PROVE  p = q
  <2>1. Encode(p)[1] = <<p, 1>> /\ Encode(q)[1] = <<q, 1>>
    BY EncodeProperties, SizeAssumption
  <2> QED BY <1>1, <2>1
<1> QED BY <1>1 DEF Decode

(***************************************************************************)
(* Types, room in the ring and progress of construction are invariant:     *)
(* a client that JACK may call is complete, and what a write has left to   *)
(* publish always fits the ring.                                           *)
(***************************************************************************)
THEOREM LifeInvariant == Spec => []LifeInv
<1>1. Init => LifeInv
  BY SizeAssumption, EnvironmentAssumption
     DEF Init, LifeInv, TypeOK, Room, Constructed, CallbackContextReady, NoContext
<1>2. LifeInv /\ [Next]_vars => LifeInv'
  <2> SUFFICES ASSUME LifeInv, [Next]_vars PROVE LifeInv'
    OBVIOUS
  <2> USE SizeAssumption, EnvironmentAssumption
      DEF LifeInv, TypeOK, Room, Constructed, CallbackContextReady,
          NoContext, FullContext, controlVars, writeVars, rtVars
  <2>1. CASE OpenClient
    BY <2>1 DEF OpenClient
  <2>2. CASE PrepareContext
    BY <2>2 DEF PrepareContext
  <2>3. CASE RegisterPorts
    BY <2>3 DEF RegisterPorts, PortsAssigned
  <2>4. CASE Activate
    BY <2>4 DEF Activate
  <2>5. ASSUME NEW p \in Parameter, StartWrite(p)
        PROVE  LifeInv'
    <3>1. /\ issued' \in Seq(Parameter)
          /\ issued' # <<>>
      BY <2>5 DEF StartWrite
    <3>2. /\ limit' \in 0 .. ParameterSize
          /\ sent' = 0
          /\ Len(ring') + (limit' - sent') <= RingBufferSize - 1
      BY <2>5 DEF StartWrite, RoomForParameter, WriteSpace, Lesser
    <3> QED BY <2>5, <3>1, <3>2 DEF StartWrite
  <2>6. CASE PublishBytes
    <3>1. PICK n \in 1 .. (limit - sent) :
            /\ ring' = ring \o Bytes(issued[Len(issued)], sent, n)
            /\ sent' = sent + n
      BY <2>6 DEF PublishBytes
    <3>2. issued[Len(issued)] \in Parameter
      BY <2>6 DEF PublishBytes
    <3>3. sent \in Nat /\ n \in Nat /\ sent + n <= ParameterSize /\ sent + n <= limit
      BY <2>6 DEF PublishBytes
    <3>4. /\ Bytes(issued[Len(issued)], sent, n) \in Seq(Byte)
          /\ Len(Bytes(issued[Len(issued)], sent, n)) = n
      BY <3>2, <3>3, BytesProperties
    <3>5. ring' \in Seq(Byte) /\ Len(ring') = Len(ring) + n
      <4> HIDE DEF TypeOK, Room, Constructed, CallbackContextReady, LifeInv
      <4>1. ring \in Seq(Byte)
        BY DEF LifeInv, TypeOK
      <4> DEFINE written == Bytes(issued[Len(issued)], sent, n)
      <4>2. written \in Seq(Byte) /\ Len(written) = n /\ ring' = ring \o written
        BY <3>1, <3>4
      <4> HIDE DEF written
      <4> QED BY <4>1, <4>2, ConcatProperties
    <3> QED BY <2>6, <3>1, <3>3, <3>5 DEF PublishBytes
  <2>7. CASE EndWrite
    BY <2>7 DEF EndWrite, WriteOutcome
  <2>8. CASE CloseClient
    BY <2>8 DEF CloseClient, Forget
  <2>9. CASE DestroyMembers
    BY <2>9 DEF DestroyMembers
  <2>10. CASE Terminate
    BY <2>10 DEF Terminate, Forget
  <2>11. CASE RtBegin
    BY <2>11 DEF RtBegin
  <2>12. CASE RtCheckSpace
    BY <2>12 DEF RtCheckSpace
  <2>13. CASE RtRead
    <3> DEFINE size == Lesser(ParameterSize, Len(ring))
    <3>1. size \in 0 .. Len(ring)
      BY DEF Lesser
    <3>2. /\ SubSeq(ring, 1, size) \in Seq(Byte)
          /\ SubSeq(ring, size + 1, Len(ring)) \in Seq(Byte)
          /\ Len(SubSeq(ring, size + 1, Len(ring))) = Len(ring) - size
      BY <3>1, SubSeqProperties
    <3> HIDE DEF size
    <3>3. /\ ring' \in Seq(Byte) /\ Len(ring') <= Len(ring)
          /\ parameter' \in Seq(Byte)
          /\ rt' \in {"set", "process"}
          /\ rt = "read"
          /\ UNCHANGED <<ctl, client, ctx, lives, issued, sent, limit, delivered>>
      BY <2>13, <3>1, <3>2 DEF RtRead, size
    <3>4. RingBufferSize \in Nat /\ Len(ring) \in Nat /\ Len(ring') \in Nat
      BY <3>3
    <3> QED BY <3>3, <3>4
  <2>14. CASE RtSetParameter
    BY <2>14, DecodeType DEF RtSetParameter
  <2>15. CASE RtProcess
    BY <2>15 DEF RtProcess
  <2>16. CASE Stopped \/ UNCHANGED vars
    BY <2>16 DEF Stopped, vars
  <2> QED
    BY <2>1, <2>2, <2>3, <2>4, <2>5, <2>6, <2>7, <2>8, <2>9, <2>10, <2>11,
       <2>12, <2>13, <2>14, <2>15, <2>16
       DEF Next, Control, RealTime
<1> QED BY <1>1, <1>2, PTL DEF Spec

\* process() runs only with its ring, its processor and its ports set.
THEOREM CallbackContextAlwaysReady == Spec => []CallbackContextReady
<1>1. LifeInv => CallbackContextReady
  BY DEF LifeInv
<1> QED BY <1>1, LifeInvariant, PTL

-----------------------------------------------------------------------------
(* Places of parameters in the ring *)

\* Parameters are ParameterSize bytes apart.
LEMMA Multiples ==
  /\ \A i \in Int : i * ParameterSize \in Int
  /\ \A i \in Int : (i + 1) * ParameterSize = i * ParameterSize + ParameterSize
  /\ \A i \in Int : (i - 1) * ParameterSize = i * ParameterSize - ParameterSize
  /\ \A i, j \in Int : i < j => i * ParameterSize + ParameterSize <= j * ParameterSize
  /\ 0 * ParameterSize = 0
<1> DEFINE P == ParameterSize
<1>1. P \in Nat /\ P > 0
  BY SizeAssumption
<1> HIDE DEF P
<1>2. ASSUME NEW i \in Int PROVE i * P \in Int /\ (i + 1) * P = i * P + P /\ (i - 1) * P = i * P - P
  BY <1>1
<1>3. ASSUME NEW i \in Int, NEW j \in Int, i < j PROVE i * P + P <= j * P
  <2>1. PICK e \in Nat : j = i + 1 + e
    <3>1. j - i - 1 \in Nat /\ j = i + 1 + (j - i - 1)
      BY <1>3
    <3> QED BY <3>1
  <2>2. j * P = i * P + P + e * P
    BY <1>1, <2>1
  <2>3. e * P \in Nat
    BY <1>1
  <2> QED BY <1>1, <1>2, <2>2, <2>3
<1>4. 0 * P = 0
  BY <1>1
<1> QED BY <1>2, <1>3, <1>4 DEF P

(***************************************************************************)
(* What a step that leaves the ring, the parameters issued, the parameters *)
(* delivered and those taken as they are must still respect.               *)
(***************************************************************************)
LEMMA FrameUntouched ==
  ASSUME FrameInv, LifeInv',
         UNCHANGED <<ring, issued, sent, delivered>>,
         rt' = "set" <=> rt = "set",
         rt' = "set" => parameter' = parameter,
         rt' = "read" => ParameterAvailable,
         ctl' \notin {"writing", "thrown"} => sent = ParameterSize
  PROVE  FrameInv'
<1>1. Taken' = Taken /\ InRing' = InRing
  BY DEF Taken, InRing
<1>2. Framed'
  BY <1>1 DEF FrameInv, Framed
<1>3. Handling'
  BY <1>1 DEF FrameInv, Handling, ParameterAvailable, Encode, Bytes
<1>4. DeliveredInOrder'
  BY DEF FrameInv, DeliveredInOrder
<1> QED BY <1>2, <1>3, <1>4 DEF FrameInv

\* The types of the counters that Framed and Handling are about.
LEMMA CountTypes ==
  ASSUME FrameInv
  PROVE  /\ Len(issued) \in Nat /\ Len(ring) \in Nat /\ Len(delivered) \in Nat
         /\ Taken \in Nat /\ InRing \in Nat /\ Taken + InRing = Len(issued)
         /\ sent \in Nat /\ sent <= ParameterSize
         /\ ParameterSize \in Nat /\ ParameterSize > 0
<1>1. Len(issued) \in Nat /\ Len(ring) \in Nat /\ Len(delivered) \in Nat
  BY DEF FrameInv, LifeInv, TypeOK
<1>2. Taken \in Nat
  BY <1>1 DEF Taken
<1>3. InRing \in Nat /\ Taken + InRing = Len(issued)
  BY <1>1, <1>2 DEF FrameInv, Handling, InRing
<1>4. sent \in Nat /\ sent <= ParameterSize /\ ParameterSize \in Nat /\ ParameterSize > 0
  BY SizeAssumption DEF FrameInv, LifeInv, TypeOK
<1> QED BY <1>1, <1>2, <1>3, <1>4

\* A client that is closed leaves an empty ring, which is framed.
LEMMA FrameForget ==
  ASSUME LifeInv', Forget
  PROVE  FrameInv'
<1>1. Taken' = 0 /\ InRing' = 0
  BY DEF Forget, Taken, InRing
<1>2. Framed'
  BY <1>1, Multiples, SizeAssumption DEF Forget, Framed
<1>3. Handling'
  BY <1>1 DEF Forget, Handling
<1>4. DeliveredInOrder'
  BY DEF Forget, DeliveredInOrder
<1> QED BY <1>2, <1>3, <1>4 DEF FrameInv

\* A write begins behind whole parameters.
LEMMA FrameStartWrite ==
  ASSUME FrameInv, LifeInv', NEW p \in Parameter, StartWrite(p)
  PROVE  FrameInv'
<1>1. /\ ring' = ring /\ issued' = Append(issued, p) /\ sent' = 0 /\ delivered' = delivered
      /\ rt' = rt /\ parameter' = parameter /\ ctl' = "writing" /\ sent = ParameterSize
  BY DEF StartWrite, rtVars, FrameInv, Handling
<1>2. issued \in Seq(Parameter)
  BY DEF FrameInv, LifeInv, TypeOK
<1>3. /\ Len(issued') = Len(issued) + 1
      /\ \A i \in 1 .. Len(issued) : issued'[i] = issued[i]
  BY <1>1, <1>2, AppendProperties
<1>4. Taken' = Taken
  BY <1>1 DEF Taken
<1>5. InRing' = InRing + 1
  BY <1>3, <1>4, CountTypes DEF InRing
<1>6. Framed'
  <2> DEFINE end == InRing * ParameterSize
  <2> InRing \in Int
    BY CountTypes
  <2>a. end \in Int /\ (InRing + 1) * ParameterSize = end + ParameterSize
    BY Multiples
  <2>1. Len(ring) = end
    <3>1. Len(ring) = end - (ParameterSize - sent)
      BY DEF FrameInv, Framed
    <3> HIDE DEF end
    <3> QED BY <1>1, <2>a, <3>1, CountTypes
  <2>2. Len(ring') = InRing' * ParameterSize - (ParameterSize - sent')
    <3>1. InRing' * ParameterSize = end + ParameterSize
      BY <1>5, <2>a
    <3> HIDE DEF end
    <3> QED BY <1>1, <2>a, <2>1, <3>1, CountTypes
  <2>3. ASSUME NEW i \in 1 .. InRing', NEW b \in 1 .. ParameterSize,
               (i - 1) * ParameterSize + b <= Len(ring')
        PROVE  ring'[(i - 1) * ParameterSize + b] = <<issued'[Taken' + i], b>>
    <3>1. i <= InRing
      <4>1. i - 1 = InRing \/ i <= InRing
        BY <1>5, CountTypes
      <4>2. CASE i - 1 = InRing
        <5>1. (i - 1) * ParameterSize = end
          BY <4>2
        <5> HIDE DEF end
        <5>2. end + b <= end
          BY <1>1, <2>1, <2>3, <5>1
        <5> QED BY <2>a, <5>2, CountTypes
      <4> QED BY <4>1, <4>2
    <3>2. ring[(i - 1) * ParameterSize + b] = <<issued[Taken + i], b>>
      <4>1. i \in 1 .. InRing
        BY <3>1, CountTypes
      <4> QED BY <1>1, <2>3, <4>1 DEF FrameInv, Framed
    <3>3. Taken + i \in 1 .. Len(issued)
      BY <3>1, CountTypes
    <3> QED BY <1>1, <1>3, <1>4, <3>2, <3>3
  <2> QED BY <2>2, <2>3 DEF Framed
<1>7. Handling'
  <2>1. rt = "set" => Taken \in 1 .. Len(issued)
    BY CountTypes DEF Taken
  <2>2. rt = "set" => issued'[Taken'] = issued[Taken]
    BY <1>3, <1>4, <2>1
  <2>3. rt' = "set" => parameter' = Encode(issued'[Taken'])
    BY <1>1, <2>2 DEF FrameInv, Handling
  <2>4. rt' = "read" => ParameterAvailable'
    BY <1>1 DEF FrameInv, Handling, ParameterAvailable
  <2>5. Taken' <= Len(issued')
    BY <1>3, <1>4, CountTypes
  <2> QED BY <1>1, <2>3, <2>4, <2>5 DEF Handling
<1>8. DeliveredInOrder'
  BY <1>1, <1>3, CountTypes DEF FrameInv, DeliveredInOrder
<1> QED BY <1>6, <1>7, <1>8 DEF FrameInv

\* Where the elements of a concatenation come from.
LEMMA ConcatElements ==
  ASSUME NEW S, NEW s \in Seq(S), NEW t \in Seq(S)
  PROVE  /\ Len(s \o t) = Len(s) + Len(t)
         /\ \A q \in 1 .. Len(s) : (s \o t)[q] = s[q]
         /\ \A k \in 1 .. Len(t) : (s \o t)[Len(s) + k] = t[k]
<1>1. Len(s) \in Nat /\ Len(t) \in Nat
  OBVIOUS
<1>2. ASSUME NEW k \in 1 .. Len(t)
      PROVE  /\ Len(s) + k \in 1 .. Len(s) + Len(t)
             /\ ~(Len(s) + k <= Len(s)) /\ Len(s) + k - Len(s) = k
  BY <1>1
<1> QED BY <1>1, <1>2, ConcatProperties

(***************************************************************************)
(* Bytes that are published continue the last parameter issued: a place    *)
(* behind the old end of the ring is one of its bytes.                     *)
(***************************************************************************)
LEMMA FramePublishBytes ==
  ASSUME FrameInv, LifeInv', PublishBytes
  PROVE  FrameInv'
<1>1. PICK n \in 1 .. (limit - sent) :
        /\ ring' = ring \o Bytes(issued[Len(issued)], sent, n)
        /\ sent' = sent + n
  BY DEF PublishBytes
<1>2. UNCHANGED <<issued, delivered, rt, parameter, ctl>> /\ ctl = "writing"
  BY DEF PublishBytes, controlVars, rtVars
<1>3. issued[Len(issued)] \in Parameter
  BY <1>2 DEF FrameInv, LifeInv, TypeOK, Room
<1>4. n \in Nat /\ n > 0 /\ sent \in Nat /\ sent + n <= ParameterSize
  BY SizeAssumption DEF FrameInv, LifeInv, TypeOK
<1> DEFINE written == Bytes(issued[Len(issued)], sent, n)
           end == InRing * ParameterSize
<1>5. /\ written \in Seq(Byte) /\ Len(written) = n
      /\ \A k \in 1 .. n : written[k] = <<issued[Len(issued)], sent + k>>
  BY <1>3, <1>4, BytesProperties
<1>6. ring \in Seq(Byte) /\ ring' = ring \o written
  BY <1>1 DEF FrameInv, LifeInv, TypeOK
<1> HIDE DEF written
<1>7. /\ Len(ring') = Len(ring) + n
      /\ \A q \in 1 .. Len(ring) : ring'[q] = ring[q]
      /\ \A k \in 1 .. n : ring'[Len(ring) + k] = written[k]
  <2>1. /\ Len(ring \o written) = Len(ring) + Len(written)
        /\ \A q \in 1 .. Len(ring) : (ring \o written)[q] = ring[q]
        /\ \A k \in 1 .. Len(written) : (ring \o written)[Len(ring) + k] = written[k]
    <3>1. written \in Seq(Byte) /\ ring \in Seq(Byte)
      BY <1>5, <1>6
    <3> QED BY ONLY <3>1, ConcatElements
  <2>2. Len(written) = n /\ ring' = ring \o written
    BY <1>5, <1>6
  <2> QED BY ONLY <2>1, <2>2
<1>8. Taken' = Taken /\ InRing' = InRing
  BY <1>2 DEF Taken, InRing
<1>9. Len(ring) = end - (ParameterSize - sent)
  BY DEF FrameInv, Framed
<1>10. InRing \in Int /\ end \in Int
  <2>1. InRing \in Int
    BY CountTypes
  <2> QED BY <2>1, Multiples
<1>11. InRing > 0
  <2>1. CASE InRing = 0
    <3>1. end = 0
      BY <2>1, Multiples
    <3> HIDE DEF end
    <3> QED BY <1>4, <1>9, <3>1, CountTypes
  <2> QED BY <2>1, CountTypes
<1>12. ASSUME NEW i \in 1 .. InRing, NEW b \in 1 .. ParameterSize,
              (i - 1) * ParameterSize + b <= Len(ring')
       PROVE  ring'[(i - 1) * ParameterSize + b] = <<issued[Taken + i], b>>
  <2> DEFINE start == (i - 1) * ParameterSize
  <2>1. /\ start \in Nat
        /\ i < InRing => start + ParameterSize <= end - ParameterSize
        /\ i = InRing => start = end - ParameterSize
    <3> DEFINE next == i * ParameterSize
    <3>1. /\ i \in Int /\ i - 1 \in Int /\ start \in Int /\ next \in Int
          /\ 0 * ParameterSize = 0
      BY Multiples
    <3>2. start = next - ParameterSize
      BY <3>1, Multiples
    <3>3. i < InRing => next + ParameterSize <= end
      BY <1>10, <3>1, Multiples
    <3>4. i = InRing => next = end
      OBVIOUS
    <3>5. 0 * ParameterSize + ParameterSize <= next
      <4>1. 0 < i /\ 0 \in Int
        OBVIOUS
      <4> QED BY <3>1, <4>1, Multiples
    <3>6. ParameterSize <= next
      <4> HIDE DEF next
      <4> QED BY <3>1, <3>5, CountTypes
    <3> HIDE DEF start, end, next
    <3> QED BY <1>10, <3>1, <3>2, <3>3, <3>4, <3>6, CountTypes
  <2>2. start + b <= Len(ring')
    BY <1>12
  <2>3. ASSUME start + b <= Len(ring)
        PROVE  ring[start + b] = <<issued[Taken + i], b>>
    BY <2>3 DEF FrameInv, Framed
  <2> HIDE DEF start, end
  <2>4. CASE start + b <= Len(ring)
    <3>1. start + b \in 1 .. Len(ring)
      BY <2>1, <2>4, CountTypes
    <3>2. ring'[start + b] = ring[start + b]
      BY <1>7, <3>1
    <3> QED BY <2>3, <2>4, <3>2 DEF start
  <2>5. CASE start + b > Len(ring)
    <3>1. i = InRing
      <4>1. i <= InRing /\ i \in Int
        BY <1>10
      <4>2. ~(i < InRing)
        BY <1>4, <1>9, <1>10, <2>1, <2>5, CountTypes
      <4> QED BY <1>10, <4>1, <4>2
    <3>2. b - sent \in 1 .. n /\ Len(ring) + (b - sent) = start + b
      <4>1. start = end - ParameterSize /\ start \in Nat /\ b \in Int
        BY <2>1, <3>1
      <4>2. Len(ring') = Len(ring) + n
        BY <1>7
      <4>3. Len(ring) = start + sent
        BY <1>4, <1>9, <1>10, <4>1, CountTypes
      <4> QED BY <1>4, <2>2, <2>5, <4>1, <4>2, <4>3
    <3>3. ring'[start + b] = written[b - sent] /\ sent + (b - sent) = b
      BY <1>4, <1>7, <3>2
    <3>4. Taken + i = Len(issued)
      BY <3>1, CountTypes
    <3> QED BY <1>5, <3>2, <3>3, <3>4 DEF start
  <2> QED BY <2>1, <2>4, <2>5, CountTypes
<1>13. Len(ring') = end - (ParameterSize - sent')
  <2> HIDE DEF end
  <2> QED BY <1>1, <1>4, <1>7, <1>9, <1>10, CountTypes
<1>14. Framed'
  BY <1>2, <1>8, <1>12, <1>13 DEF Framed
<1>15. Handling'
  <2>1. rt' = "read" => ParameterAvailable'
    BY <1>2, <1>4, <1>7, CountTypes DEF FrameInv, Handling, ParameterAvailable
  <2>2. rt' = "set" => parameter' = Encode(issued'[Taken'])
    BY <1>2, <1>8 DEF FrameInv, Handling, Encode, Bytes
  <2> QED BY <1>2, <1>8, <2>1, <2>2 DEF FrameInv, Handling
<1>16. DeliveredInOrder'
  BY <1>2 DEF FrameInv, DeliveredInOrder
<1> QED BY <1>14, <1>15, <1>16 DEF FrameInv

\* The callback takes the bytes of the first parameter, and the rest moves up.
LEMMA FrameRtRead ==
  ASSUME FrameInv, LifeInv', RtRead
  PROVE  FrameInv'
<1> DEFINE end == InRing * ParameterSize
<1>1. /\ UNCHANGED <<issued, sent, limit, delivered, ctl>>
      /\ rt = "read" /\ Len(ring) >= ParameterSize
  BY DEF RtRead, controlVars, writeVars, FrameInv, Handling, ParameterAvailable
<1>2. Lesser(ParameterSize, Len(ring)) = ParameterSize
  BY <1>1, CountTypes DEF Lesser
<1>3. /\ parameter' = SubSeq(ring, 1, ParameterSize)
      /\ ring' = SubSeq(ring, ParameterSize + 1, Len(ring))
      /\ rt' = "set"
  BY <1>2 DEF RtRead
<1>4. ring \in Seq(Byte)
  BY DEF FrameInv, LifeInv, TypeOK
<1>5. /\ Len(parameter') = ParameterSize
      /\ parameter' \in Seq(Byte)
      /\ \A b \in 1 .. ParameterSize : parameter'[b] = ring[b]
  <2>1. ParameterSize \in 1 .. Len(ring)
    BY <1>1, CountTypes
  <2> QED BY <1>3, <1>4, <2>1, CountTypes
<1>6. /\ Len(ring') = Len(ring) - ParameterSize
      /\ \A q \in 1 .. Len(ring') : ring'[q] = ring[ParameterSize + q]
  <2>1. ParameterSize + 1 \in 1 .. Len(ring) + 1 /\ Len(ring) \in Nat
    BY <1>1, CountTypes
  <2>2. Len(ring) - (ParameterSize + 1) + 1 = Len(ring) - ParameterSize
    BY <2>1, CountTypes
  <2>3. \A m \in 1 .. Len(ring) + 1, n \in 0 .. Len(ring) :
          /\ Len(SubSeq(ring, m, n)) = IF m <= n THEN n - m + 1 ELSE 0
          /\ \A q \in 1 .. n - m + 1 : SubSeq(ring, m, n)[q] = ring[m + q - 1]
    BY <1>4, SubSeqProperties
  <2>4. Len(ring) \in 0 .. Len(ring)
    BY <2>1
  <2>5. Len(ring') = Len(ring) - ParameterSize
    BY <1>1, <1>3, <2>1, <2>2, <2>3, <2>4, CountTypes
  <2>6. ASSUME NEW q \in 1 .. Len(ring')
        PROVE  ring'[q] = ring[ParameterSize + q]
    <3>1. ParameterSize + 1 + q - 1 = ParameterSize + q
      BY CountTypes
    <3> QED BY <1>3, <2>1, <2>2, <2>3, <2>4, <2>5, <3>1
  <2> QED BY <2>5, <2>6
<1>7. Taken' = Taken + 1 /\ Taken = Len(delivered)
  BY <1>1, <1>3, CountTypes DEF Taken
<1>8. InRing' = InRing - 1
  BY <1>1, <1>7, CountTypes DEF InRing
<1>9. InRing \in Int /\ end \in Int
  <2>1. InRing \in Int
    BY CountTypes
  <2> QED BY <2>1, Multiples
<1>10. Len(ring) = end - (ParameterSize - sent)
  BY DEF FrameInv, Framed
<1>11. InRing > 0
  <2>1. CASE InRing = 0
    <3>1. end = 0
      BY <2>1, Multiples
    <3> HIDE DEF end
    <3> QED BY <1>1, <1>10, <3>1, CountTypes
  <2> QED BY <2>1, CountTypes
<1>12. Len(ring') = InRing' * ParameterSize - (ParameterSize - sent')
  <2>1. InRing' * ParameterSize = end - ParameterSize
    BY <1>8, <1>9, Multiples
  <2> HIDE DEF end
  <2> QED BY <1>1, <1>6, <1>9, <1>10, <2>1, CountTypes
<1>13. ASSUME NEW i \in 1 .. InRing', NEW b \in 1 .. ParameterSize,
              (i - 1) * ParameterSize + b <= Len(ring')
       PROVE  ring'[(i - 1) * ParameterSize + b] = <<issued'[Taken' + i], b>>
  <2> DEFINE start == (i - 1) * ParameterSize
             next == ((i + 1) - 1) * ParameterSize
  <2>1. /\ i \in Int /\ i - 1 \in Int /\ start \in Int
        /\ next = i * ParameterSize /\ start = i * ParameterSize - ParameterSize
        /\ i * ParameterSize \in Int
    BY Multiples
  <2>2. start >= 0
    <3>1. 0 * ParameterSize + ParameterSize <= i * ParameterSize
      <4>1. 0 < i /\ 0 \in Int
        OBVIOUS
      <4> QED BY <2>1, <4>1, Multiples
    <3>2. 0 * ParameterSize = 0
      BY Multiples
    <3> DEFINE product == i * ParameterSize
    <3>3. start = product - ParameterSize /\ 0 + ParameterSize <= product /\ product \in Int
      BY <2>1, <3>1, <3>2
    <3> HIDE DEF start, product
    <3> QED BY <3>3, CountTypes
  <2>3. next = start + ParameterSize
    <3> DEFINE product == i * ParameterSize
    <3>1. next = product /\ start = product - ParameterSize /\ product \in Int
      BY <2>1
    <3> HIDE DEF start, next, product
    <3> QED BY <3>1, CountTypes
  <2>4. i + 1 \in 1 .. InRing
    BY <1>8, <1>9
  <2>5. next + b <= Len(ring) => ring[next + b] = <<issued[Taken + (i + 1)], b>>
    BY <2>4 DEF FrameInv, Framed
  <2>6. start + b <= Len(ring')
    BY <1>13
  <2> HIDE DEF start, next
  <2>7. start + b \in 1 .. Len(ring') /\ ParameterSize + (start + b) = next + b
    <3>1. Len(ring') \in Int
      BY <1>6, CountTypes
    <3>2. b \in 1 .. ParameterSize
      OBVIOUS
    <3>3. start \in Int /\ ParameterSize \in Nat
      BY <2>1, CountTypes
    <3> QED BY <2>2, <2>3, <2>6, <3>1, <3>2, <3>3
  <2>8. next + b <= Len(ring)
    BY <1>6, <2>7, CountTypes
  <2>9. ring'[start + b] = ring[next + b]
    BY <1>6, <2>7
  <2>10. Taken' + i = Taken + (i + 1)
    BY <1>7, <2>1, CountTypes
  <2> QED BY <1>1, <2>5, <2>8, <2>9, <2>10 DEF start
<1>14. Framed'
  BY <1>12, <1>13 DEF Framed
<1>15. parameter' = Encode(issued'[Taken'])
  <2>1. Taken' \in 1 .. Len(issued)
    BY <1>7, <1>8, <1>11, CountTypes
  <2>2. issued[Taken'] \in Parameter
    BY <2>1 DEF FrameInv, LifeInv, TypeOK
  <2>3. ASSUME NEW b \in 1 .. ParameterSize
        PROVE  parameter'[b] = <<issued[Taken'], b>>
    <3>1. (1 - 1) * ParameterSize + b = b
      BY Multiples
    <3>2. b <= Len(ring) /\ 1 \in 1 .. InRing
      BY <1>1, <1>9, <1>11, CountTypes
    <3>3. ring[b] = <<issued[Taken + 1], b>>
      BY <3>1, <3>2 DEF FrameInv, Framed
    <3> QED BY <1>5, <1>7, <3>3
  <2>4. parameter' = Encode(issued[Taken'])
    <3>1. /\ Encode(issued[Taken']) \in Seq(Byte)
          /\ Len(Encode(issued[Taken'])) = ParameterSize
          /\ \A k \in 1 .. ParameterSize : Encode(issued[Taken'])[k] = <<issued[Taken'], k>>
      BY <2>2, EncodeProperties
    <3> QED BY <1>5, <2>3, <3>1, SeqEqual
  <2> QED BY <1>1, <2>4
<1>16. Handling'
  <2>1. Taken' <= Len(issued')
    BY <1>1, <1>7, <1>8, <1>11, CountTypes
  <2> QED BY <1>1, <1>3, <1>15, <2>1 DEF Handling, FrameInv
<1>17. DeliveredInOrder'
  BY <1>1 DEF FrameInv, DeliveredInOrder
<1> QED BY <1>14, <1>16, <1>17 DEF FrameInv

\* The processor is given the parameter whose bytes were taken.
LEMMA FrameRtSetParameter ==
  ASSUME FrameInv, LifeInv', RtSetParameter
  PROVE  FrameInv'
<1>1. /\ UNCHANGED <<issued, sent, limit, ring, ctl>>
      /\ rt = "set" /\ rt' = "process"
      /\ delivered' = Append(delivered, Decode(parameter))
  BY DEF RtSetParameter, controlVars, writeVars
<1>2. Taken = Len(delivered) + 1
  BY <1>1 DEF Taken
<1>3. issued[Taken] \in Parameter
  <2>1. Taken \in 1 .. Len(issued)
    BY <1>2, CountTypes
  <2> QED BY <2>1 DEF FrameInv, LifeInv, TypeOK
<1>4. Decode(parameter) = issued[Taken]
  <2>1. parameter = Encode(issued[Taken])
    BY <1>1 DEF FrameInv, Handling
  <2> QED BY <1>3, <2>1, DecodeEncode
<1>5. delivered \in Seq(Parameter \cup {Garbled})
  BY DEF FrameInv, LifeInv, TypeOK
<1>6. /\ Len(delivered') = Len(delivered) + 1
      /\ \A i \in 1 .. Len(delivered) : delivered'[i] = delivered[i]
      /\ delivered'[Len(delivered) + 1] = issued[Taken]
  BY <1>1, <1>3, <1>4, <1>5, AppendProperties
<1>7. Taken' = Taken
  BY <1>1, <1>2, <1>6, CountTypes DEF Taken
<1>8. InRing' = InRing
  BY <1>1, <1>7 DEF InRing
<1>9. Framed'
  BY <1>1, <1>7, <1>8 DEF FrameInv, Framed
<1>10. Handling'
  BY <1>1, <1>7 DEF FrameInv, Handling
<1>11. DeliveredInOrder'
  <2>1. ASSUME NEW i \in 1 .. Len(delivered')
        PROVE  delivered'[i] = issued'[i]
    <3>1. CASE i = Len(delivered) + 1
      BY <1>1, <1>2, <1>6, <3>1
    <3>2. CASE i # Len(delivered) + 1
      <4>1. i \in 1 .. Len(delivered)
        BY <1>6, <3>2, CountTypes
      <4> QED BY <1>1, <1>6, <4>1 DEF FrameInv, DeliveredInOrder
    <3> QED BY <3>1, <3>2
  <2>2. Len(delivered') <= Len(issued')
    BY <1>1, <1>2, <1>6, CountTypes
  <2> QED BY <2>1, <2>2 DEF DeliveredInOrder
<1> QED BY <1>9, <1>10, <1>11 DEF FrameInv

(***************************************************************************)
(* The ring keeps its frame: in every instance the bytes in the ring are   *)
(* those of the parameters issued and not taken, in order, and the         *)
(* processor has been given the ones before.                               *)
(***************************************************************************)
THEOREM FrameInvariant == Spec => []FrameInv
<1>1. Init /\ LifeInv => FrameInv
  <2> SUFFICES ASSUME Init, LifeInv PROVE FrameInv
    OBVIOUS
  <2>1. Taken = 0 /\ InRing = 0
    BY DEF Init, Taken, InRing
  <2>2. Framed
    BY <2>1, Multiples, SizeAssumption DEF Init, Framed
  <2>3. Handling /\ DeliveredInOrder
    BY <2>1 DEF Init, Handling, DeliveredInOrder
  <2> QED BY <2>2, <2>3 DEF FrameInv
<1>2. FrameInv /\ LifeInv' /\ [Next]_vars => FrameInv'
  <2> SUFFICES ASSUME FrameInv, LifeInv', [Next]_vars PROVE FrameInv'
    OBVIOUS
  <2>1. CASE OpenClient
    BY <2>1, FrameUntouched DEF OpenClient, writeVars, rtVars, FrameInv, Handling
  <2>2. CASE PrepareContext
    BY <2>2, FrameUntouched DEF PrepareContext, writeVars, rtVars, FrameInv, Handling
  <2>3. CASE RegisterPorts
    BY <2>3, FrameUntouched DEF RegisterPorts, writeVars, rtVars, FrameInv, Handling
  <2>4. CASE Activate
    BY <2>4, FrameUntouched DEF Activate, writeVars, rtVars, FrameInv, Handling
  <2>5. ASSUME NEW p \in Parameter, StartWrite(p) PROVE FrameInv'
    BY <2>5, FrameStartWrite
  <2>6. CASE PublishBytes
    BY <2>6, FramePublishBytes
  <2>7. CASE EndWrite
    BY <2>7, FrameUntouched DEF EndWrite, WriteOutcome, writeVars, rtVars, FrameInv, Handling
  <2>8. CASE CloseClient
    BY <2>8, FrameForget DEF CloseClient
  <2>9. CASE DestroyMembers
    BY <2>9, FrameUntouched DEF DestroyMembers, writeVars, rtVars, FrameInv, Handling
  <2>10. CASE Terminate
    BY <2>10, FrameForget DEF Terminate
  <2>11. CASE RtBegin
    BY <2>11, FrameUntouched DEF RtBegin, controlVars, writeVars, FrameInv, Handling
  <2>12. CASE RtCheckSpace
    BY <2>12, FrameUntouched DEF RtCheckSpace, controlVars, writeVars, FrameInv, Handling
  <2>13. CASE RtRead
    BY <2>13, FrameRtRead
  <2>14. CASE RtSetParameter
    BY <2>14, FrameRtSetParameter
  <2>15. CASE RtProcess
    BY <2>15, FrameUntouched DEF RtProcess, controlVars, writeVars, FrameInv, Handling
  <2>16. CASE Stopped \/ UNCHANGED vars
    BY <2>16, FrameUntouched
       DEF Stopped, vars, controlVars, writeVars, rtVars, FrameInv, Handling
  <2> QED
    BY <2>1, <2>2, <2>3, <2>4, <2>5, <2>6, <2>7, <2>8, <2>9, <2>10, <2>11,
       <2>12, <2>13, <2>14, <2>15, <2>16
       DEF Next, Control, RealTime
<1> QED BY <1>1, <1>2, LifeInvariant, PTL DEF Spec

(***************************************************************************)
(* The parameters reach the processor in the order of the calls of         *)
(* setParameter, none lost, repeated or made of two.                       *)
(***************************************************************************)
THEOREM ParametersDeliveredInOrder == Spec => []DeliveredInOrder
<1>1. FrameInv => DeliveredInOrder
  BY DEF FrameInv
<1> QED BY <1>1, FrameInvariant, PTL

-----------------------------------------------------------------------------
(* Refinement *)

\* Between writes everything that was issued is accepted.
LEMMA AcceptedWhole ==
  ASSUME FrameInv, sent = ParameterSize
  PROVE  Accepted = issued
<1>1. issued \in Seq(Parameter)
  BY DEF FrameInv, LifeInv, TypeOK
<1>2. Accepted = SubSeq(issued, 1, Len(issued))
  BY CountTypes DEF Accepted
<1> QED BY <1>1, <1>2

\* The parameter that is being written has not been taken.
LEMMA AcceptedCut ==
  ASSUME FrameInv, sent < ParameterSize
  PROVE  /\ Accepted = SubSeq(issued, 1, Len(issued) - 1)
         /\ Len(Accepted) = Len(issued) - 1
         /\ Taken <= Len(issued) - 1
<1> DEFINE end == InRing * ParameterSize
<1>1. InRing > 0
  <2>1. CASE InRing = 0
    <3>1. end = 0
      BY <2>1, Multiples
    <3>2. Len(ring) = end - (ParameterSize - sent)
      BY DEF FrameInv, Framed
    <3> HIDE DEF end
    <3> QED BY <3>1, <3>2, CountTypes
  <2> QED BY <2>1, CountTypes
<1>2. Taken <= Len(issued) - 1 /\ Len(issued) - 1 \in 0 .. Len(issued)
  BY <1>1, CountTypes
<1>3. Accepted = SubSeq(issued, 1, Len(issued) - 1)
  BY DEF Accepted
<1>4. issued \in Seq(Parameter)
  BY DEF FrameInv, LifeInv, TypeOK
<1>5. Len(SubSeq(issued, 1, Len(issued) - 1)) = Len(issued) - 1
  BY <1>2, <1>4, CountTypes
<1> QED BY <1>2, <1>3, <1>5

\* Steps that change neither end of the queue are stuttering steps of it.
LEMMA QueueUntouched ==
  ASSUME UNCHANGED <<issued, sent, delivered>>
  PROVE  UNCHANGED Queue!vars
BY DEF Accepted, Queue!vars

(***************************************************************************)
(* The client implements the abstract queue: a write appends its parameter *)
(* when its last byte is published, the callback takes the first one.      *)
(***************************************************************************)
THEOREM QueueRefinement == Spec => Queue!Spec
<1>1. Init => Queue!Init
  <2> SUFFICES ASSUME Init PROVE Queue!Init
    OBVIOUS
  <2>1. issued = <<>> /\ sent = ParameterSize /\ delivered = <<>>
    BY DEF Init
  <2>2. Accepted = <<>>
    BY <2>1, SizeAssumption DEF Accepted
  <2> QED BY <2>1, <2>2 DEF Queue!Init
<1>2. FrameInv /\ FrameInv' /\ [Next]_vars => [Queue!Next]_(Queue!vars)
  <2> SUFFICES ASSUME FrameInv, FrameInv', [Next]_vars
               PROVE  [Queue!Next]_(Queue!vars)
    OBVIOUS
  <2>1. CASE UNCHANGED <<issued, sent, delivered>>
    BY <2>1, QueueUntouched
  <2>2. ASSUME NEW p \in Parameter, StartWrite(p) PROVE [Queue!Next]_(Queue!vars)
    <3>1. /\ issued' = Append(issued, p) /\ sent' = 0 /\ delivered' = delivered
          /\ sent = ParameterSize
      BY <2>2 DEF StartWrite, rtVars, FrameInv, Handling
    <3>2. issued \in Seq(Parameter)
      BY DEF FrameInv, LifeInv, TypeOK
    <3>3. Accepted = issued
      BY <3>1, AcceptedWhole
    <3>4. Accepted' = SubSeq(Append(issued, p), 1, Len(issued))
      <4>1. Len(Append(issued, p)) - 1 = Len(issued)
        BY <3>2
      <4> QED BY <3>1, <4>1, CountTypes DEF Accepted
    <3>5. SubSeq(Append(issued, p), 1, Len(issued)) = issued
      BY <3>2
    <3> QED BY <3>1, <3>3, <3>4, <3>5 DEF Queue!vars
  <2>3. CASE PublishBytes
    <3>1. /\ issued' = issued /\ delivered' = delivered
          /\ sent < ParameterSize /\ issued # <<>>
      BY <2>3, SizeAssumption
         DEF PublishBytes, rtVars, FrameInv, LifeInv, TypeOK, Room
    <3>2. Accepted = SubSeq(issued, 1, Len(issued) - 1)
      BY <3>1, AcceptedCut
    <3>3. CASE sent' < ParameterSize
      BY <3>1, <3>2, <3>3 DEF Accepted, Queue!vars
    <3>4. CASE ~(sent' < ParameterSize)
      <4>1. issued \in Seq(Parameter)
        BY DEF FrameInv, LifeInv, TypeOK
      <4>2. Accepted' = SubSeq(issued, 1, Len(issued))
        BY <3>1, <3>4 DEF Accepted
      <4>3. SubSeq(issued, 1, Len(issued)) = issued
        BY <4>1
      <4>4. /\ issued[Len(issued)] \in Parameter
            /\ issued = Append(SubSeq(issued, 1, Len(issued) - 1), issued[Len(issued)])
        BY <3>1, <4>1
      <4>5. Queue!Accept(issued[Len(issued)])
        BY <3>1, <3>2, <4>2, <4>3, <4>4 DEF Queue!Accept
      <4> QED BY <4>4, <4>5 DEF Queue!Next
    <3> QED BY <3>3, <3>4
  <2>4. CASE Forget
    <3>1. Accepted' = <<>> /\ delivered' = <<>>
      BY <2>4, SizeAssumption DEF Forget, Accepted
    <3> QED BY <3>1 DEF Queue!Next, Queue!Discard
  <2>5. CASE RtSetParameter
    <3>1. /\ UNCHANGED <<issued, sent>> /\ rt = "set"
          /\ delivered' = Append(delivered, Decode(parameter))
      BY <2>5 DEF RtSetParameter, controlVars, writeVars
    <3>2. Taken = Len(delivered) + 1 /\ Taken \in 1 .. Len(issued)
      BY <3>1, CountTypes DEF Taken
    <3>3. Decode(parameter) = issued[Taken]
      <4>1. parameter = Encode(issued[Taken]) /\ issued[Taken] \in Parameter
        BY <3>1, <3>2 DEF FrameInv, Handling, LifeInv, TypeOK
      <4> QED BY <4>1, DecodeEncode
    <3>4. Accepted' = Accepted
      BY <3>1 DEF Accepted
    <3>5. Taken <= Len(Accepted) /\ Accepted[Taken] = issued[Taken]
      <4>1. CASE sent = ParameterSize
        BY <3>2, <4>1, AcceptedWhole
      <4>2. CASE sent < ParameterSize
        <5>1. issued \in Seq(Parameter) /\ Taken \in 1 .. Len(issued) - 1
          BY <3>2, <4>2, AcceptedCut, CountTypes DEF FrameInv, LifeInv, TypeOK
        <5>2. SubSeq(issued, 1, Len(issued) - 1)[Taken] = issued[Taken]
          BY <5>1, CountTypes
        <5> QED BY <4>2, <5>1, <5>2, AcceptedCut
      <4> QED BY <4>1, <4>2, CountTypes
    <3>6. Queue!Deliver
      BY <3>1, <3>2, <3>3, <3>4, <3>5, CountTypes DEF Queue!Deliver
    <3> QED BY <3>6 DEF Queue!Next
  <2>6. CASE OpenClient \/ PrepareContext \/ RegisterPorts \/ Activate \/ EndWrite
             \/ DestroyMembers \/ RtBegin \/ RtCheckSpace \/ RtRead \/ RtProcess
             \/ Stopped \/ UNCHANGED vars
    <3>1. UNCHANGED <<issued, sent, delivered>>
      BY <2>6 DEF OpenClient, PrepareContext, RegisterPorts, Activate, EndWrite,
                  DestroyMembers, RtBegin, RtCheckSpace, RtRead, RtProcess, Stopped,
                  vars, writeVars, rtVars
    <3> QED BY <2>1, <3>1
  <2> QED
    BY <2>2, <2>3, <2>4, <2>5, <2>6 DEF Next, Control, RealTime, CloseClient, Terminate
<1> QED BY <1>1, <1>2, FrameInvariant, PTL DEF Spec, Queue!Spec

(***************************************************************************)
(* 4. The client and its effect.                                           *)
(***************************************************************************)

(* The processor of the client *)

\* Some place is after the others: it is the least distance from the end.
LEMMA LastPlace ==
  ASSUME NEW n \in Nat, NEW at \in SUBSET (1 .. n), at # {}
  PROVE  \E k \in at : \A l \in at : l <= k
<1> DEFINE T == {n - k : k \in at}
<1>1. T \in SUBSET Nat /\ T # {}
  <2>1. \A k \in at : n - k \in Nat
    OBVIOUS
  <2> QED BY <2>1
<1>2. PICK x \in T : \A y \in T : x <= y
  BY <1>1, Least
<1>3. PICK k \in at : x = n - k
  OBVIOUS
<1>4. \A l \in at : n - l \in T /\ n - l >= n - k
  BY <1>2, <1>3
<1> QED BY <1>4

\* A parameter that is appended is the last of its index, and no other's.
LEMMA LastAppended ==
  ASSUME NEW s \in Seq(Parameter), NEW p \in Parameter
  PROVE  LastValues(Append(s, p)) = [LastValues(s) EXCEPT ![p.index] = p.value]
<1> DEFINE t == Append(s, p)
           n == Len(s)
           In(q, i) == {k \in DOMAIN q : q[k].index = i}
           Last(at) == CHOOSE k \in at : \A l \in at : l <= k
           Value(q, i) == IF In(q, i) = {} THEN NotGiven ELSE q[Last(In(q, i))].value
<1>1. /\ n \in Nat /\ DOMAIN s = 1 .. n /\ DOMAIN t = 1 .. n + 1
      /\ t[n + 1] = p /\ \A k \in 1 .. n : t[k] = s[k]
  OBVIOUS
<1>2. \A q : LastValues(q) = [i \in Index(ProcessorEffect) |-> Value(q, i)]
  BY DEF LastValues
<1> HIDE DEF t, n
<1>3. Value(t, p.index) = p.value
  <2>1. n + 1 \in In(t, p.index) /\ \A l \in In(t, p.index) : l <= n + 1 /\ l \in Int
    BY <1>1
  <2>2. Last(In(t, p.index)) = n + 1
    <3> DEFINE at == In(t, p.index)
    <3>1. n + 1 \in at /\ n + 1 \in Int /\ \A l \in at : l <= n + 1 /\ l \in Int
      BY <1>1, <2>1
    <3> HIDE DEF at
    <3>2. Last(at) \in at /\ \A l \in at : l <= Last(at)
      BY <3>1
    <3>3. n + 1 <= Last(at) /\ Last(at) <= n + 1 /\ Last(at) \in Int
      BY <3>1, <3>2
    <3>4. Last(at) = n + 1
      BY <3>1, <3>3
    <3> QED BY <3>4 DEF at
  <2> QED BY <1>1, <2>1, <2>2
<1>4. ASSUME NEW i, i # p.index
      PROVE  Value(t, i) = Value(s, i)
  <2>1. In(t, i) = In(s, i)
    BY <1>1, <1>4
  <2>2. CASE In(s, i) # {}
    <3>1. In(s, i) \in SUBSET (1 .. n)
      BY <1>1
    <3>2. \E k \in In(s, i) : \A l \in In(s, i) : l <= k
      BY <1>1, <2>2, <3>1, LastPlace
    <3>3. Last(In(s, i)) \in In(s, i)
      BY <3>2
    <3>4. t[Last(In(s, i))] = s[Last(In(s, i))]
      BY <1>1, <3>1, <3>3
    <3> HIDE DEF In, Last
    <3>5. t[Last(In(t, i))] = s[Last(In(s, i))]
      BY <2>1, <3>4
    <3> QED BY <2>1, <2>2, <3>5
  <2> QED BY <2>1, <2>2
<1> HIDE DEF Value
<1>5. ASSUME NEW i \in Index(ProcessorEffect)
      PROVE  LastValues(t)[i] = [LastValues(s) EXCEPT ![p.index] = p.value][i]
  BY <1>2, <1>3, <1>4
<1>6. LastValues(t) = [LastValues(s) EXCEPT ![p.index] = p.value]
  BY <1>2, <1>5
<1> QED BY <1>6 DEF t

\* A parameter has an index and a value of the effect.
LEMMA ParameterIs ==
  ASSUME NEW p \in Parameter
  PROVE  p.index \in Index(ProcessorEffect) /\ p.value \in 0 .. Top
<1>1. p \in [index : Index(ProcessorEffect), value : 0 .. Top]
  BY ProcessorAssumption
<1> QED BY <1>1

\* The last value of each index in a sequence of parameters is one that the
\* processor may have been given.
LEMMA LastValuesAreGiven ==
  ASSUME NEW s \in Seq(Parameter)
  PROVE  LastValues(s) \in Given(ProcessorEffect)
<1> DEFINE In(i) == {k \in DOMAIN s : s[k].index = i}
           Last(at) == CHOOSE k \in at : \A l \in at : l <= k
<1>1. ASSUME NEW i \in Index(ProcessorEffect), In(i) # {}
      PROVE  s[Last(In(i))].value \in 0 .. Top
  <2>1. In(i) \in SUBSET (1 .. Len(s)) /\ Len(s) \in Nat
    OBVIOUS
  <2>2. \E k \in In(i) : \A l \in In(i) : l <= k
    BY <1>1, <2>1, LastPlace
  <2>3. Last(In(i)) \in In(i)
    BY <2>2
  <2>4. s[Last(In(i))] \in Parameter
    BY <2>3
  <2> QED BY <2>4, ParameterIs
<1>2. LastValues(s) = [i \in Index(ProcessorEffect) |->
                         IF In(i) = {} THEN NotGiven ELSE s[Last(In(i))].value]
  BY DEF LastValues
<1> QED BY <1>1, <1>2 DEF Given

(***************************************************************************)
(* Every processor that may still be given something is settled on what it *)
(* was given; a client that is not active has given nothing.               *)
(***************************************************************************)
ProcessorInv ==
  /\ client # "active" => delivered = <<>>
  /\ ctx.processor /\ ctl # "closed" =>
       /\ processor \in Members(ProcessorEffect)
       /\ SettledOn(ProcessorEffect, processor, LastValues(delivered))

\* With an effect in it, the client still takes only the steps of JackClient.
LEMMA StepOfClient ==
  ASSUME [NextWithProcessor]_clientVars
  PROVE  [Next]_vars
BY DEF NextWithProcessor, clientVars, PrepareProcessor, DestroyProcessor,
       RealTimeWithProcessor, SetProcessorParameter, OtherRealTime, OtherControl,
       Next, Control, RealTime

\* What a client with an effect in it does is what a client does.
THEOREM ClientWithProcessor == SpecWithProcessor => Spec
<1>1. InitWithProcessor => Init
  BY DEF InitWithProcessor
<1> QED BY <1>1, StepOfClient, PTL DEF SpecWithProcessor, Spec

\* What is delivered is parameters.
LEMMA DeliveredParameters ==
  ASSUME FrameInv
  PROVE  delivered \in Seq(Parameter)
<1>1. Len(delivered) \in Nat /\ delivered \in [1 .. Len(delivered) -> Parameter \cup {Garbled}]
  BY DEF FrameInv, LifeInv, TypeOK
<1>2. \A k \in 1 .. Len(delivered) : delivered[k] \in Parameter
  BY CountTypes DEF FrameInv, LifeInv, TypeOK, DeliveredInOrder
<1>3. delivered \in [1 .. Len(delivered) -> Parameter]
  BY <1>1, <1>2
<1> QED BY <1>1, <1>3

\* The processor is given a whole parameter, and is settled on it.
LEMMA ProcessorSettles ==
  ASSUME FrameInv, ProcessorInv, SetProcessorParameter
  PROVE  ProcessorInv'
<1>1. /\ UNCHANGED <<client, ctx, ctl, issued>> /\ rt = "set"
      /\ delivered' = Append(delivered, Decode(parameter))
  BY DEF SetProcessorParameter, RtSetParameter, controlVars, writeVars
<1>2. client = "active" /\ ctx.processor
  BY <1>1 DEF FrameInv, LifeInv, CallbackContextReady, FullContext
<1>c. ctl # "closed" /\ ctl' = ctl
  BY <1>1, <1>2 DEF FrameInv, LifeInv, Constructed
<1> DEFINE p == issued[Taken]
<1>3. p \in Parameter /\ parameter = Encode(p)
  <2>1. Taken \in 1 .. Len(issued)
    BY <1>1, CountTypes DEF Taken
  <2> QED BY <1>1, <2>1 DEF FrameInv, LifeInv, TypeOK, Handling
<1> HIDE DEF p
<1>4. Decode(parameter) = p
  BY <1>3, DecodeEncode
<1>5. processor \in Members(ProcessorEffect) /\ processor # Garbled
      /\ SettledOn(ProcessorEffect, processor, LastValues(delivered))
  BY <1>2, <1>c, GarbledAssumption DEF ProcessorInv
<1>6. processor' = SetParameter(ProcessorEffect, processor, p.index, p.value)
  BY <1>3, <1>4, <1>5 DEF SetProcessorParameter
<1>7. delivered \in Seq(Parameter)
  BY DeliveredParameters
<1>8. LastValues(delivered') = [LastValues(delivered) EXCEPT ![p.index] = p.value]
  BY <1>1, <1>3, <1>4, <1>7, LastAppended
<1>9. /\ ProcessorEffect \in Effect /\ LastValues(delivered) \in Given(ProcessorEffect)
      /\ p.index \in Index(ProcessorEffect) /\ p.value \in 0 .. Top
  BY <1>3, <1>7, ProcessorAssumption, LastValuesAreGiven, ParameterIs
<1> DEFINE last == LastValues(delivered)
<1> HIDE DEF last
<1>10. /\ processor' \in Members(ProcessorEffect)
       /\ SettledOn(ProcessorEffect, processor', LastValues(delivered'))
  <2>1. /\ last \in Given(ProcessorEffect)
        /\ SettledOn(ProcessorEffect, processor, last)
        /\ LastValues(delivered') = [last EXCEPT ![p.index] = p.value]
    BY <1>5, <1>8, <1>9 DEF last
  <2>2. /\ SetParameter(ProcessorEffect, processor, p.index, p.value) \in Members(ProcessorEffect)
        /\ SettledOn(ProcessorEffect,
                     SetParameter(ProcessorEffect, processor, p.index, p.value),
                     [last EXCEPT ![p.index] = p.value])
    BY <1>5, <1>9, <2>1, SettledStays
  <2> QED BY <1>6, <2>1, <2>2
<1> QED BY <1>1, <1>2, <1>10 DEF ProcessorInv

(***************************************************************************)
(* The invariant of a client with its effect.                              *)
(***************************************************************************)
THEOREM ProcessorInvariant == SpecWithProcessor => [](FrameInv /\ ProcessorInv)
<1>1. InitWithProcessor => ProcessorInv
  BY DEF InitWithProcessor, Init, NoContext, ProcessorInv
<1>2. FrameInv /\ ProcessorInv /\ [NextWithProcessor]_clientVars => ProcessorInv'
  <2> SUFFICES ASSUME FrameInv, ProcessorInv, [NextWithProcessor]_clientVars
               PROVE  ProcessorInv'
    OBVIOUS
  <2>1. CASE PrepareProcessor
    <3>1. /\ UNCHANGED <<client, delivered>> /\ ctl = "opened"
          /\ processor' \in Made(ProcessorEffect)
      BY <2>1 DEF PrepareProcessor, PrepareContext, rtVars
    <3>2. client # "active" /\ delivered = <<>>
      BY <3>1 DEF FrameInv, LifeInv, Constructed, ProcessorInv
    <3>3. LastValues(<<>>) = [i \in Index(ProcessorEffect) |-> NotGiven]
      BY DEF LastValues
    <3>4. /\ processor' \in Members(ProcessorEffect)
          /\ SettledOn(ProcessorEffect, processor', LastValues(delivered'))
      BY <3>1, <3>2, <3>3, ProcessorAssumption, MadeIsMembers, MadeIsSettled
    <3> QED BY <3>1, <3>2, <3>4 DEF ProcessorInv
  <2>2. CASE SetProcessorParameter
    BY <2>2, ProcessorSettles
  <2>3. CASE DestroyProcessor
    BY <2>3 DEF DestroyProcessor, DestroyMembers, Terminate, Forget, rtVars, NoContext,
                ProcessorInv
  <2>4. CASE OpenClient /\ UNCHANGED processor
    BY <2>4 DEF OpenClient, rtVars, ProcessorInv, FrameInv, LifeInv, Constructed
  <2>5. CASE (RegisterPorts \/ Activate) /\ UNCHANGED processor
    BY <2>5 DEF RegisterPorts, PortsAssigned, Activate, rtVars, ProcessorInv,
                FrameInv, LifeInv, TypeOK, Constructed
  <2>6. CASE CloseClient /\ UNCHANGED processor
    BY <2>6 DEF CloseClient, Forget, ProcessorInv
  <2>7. CASE /\ UNCHANGED <<client, ctx, delivered, processor>>
             /\ ctl = "closed" => ctl' = "closed"
    BY <2>7 DEF ProcessorInv
  <2> QED
    BY <2>1, <2>2, <2>3, <2>4, <2>5, <2>6, <2>7
    DEF NextWithProcessor, RealTimeWithProcessor, OtherRealTime, OtherControl, clientVars,
        vars, StartWrite, PublishBytes, EndWrite, Stopped, RtBegin, RtCheckSpace, RtRead,
        RtProcess, controlVars, rtVars, writeVars
<1> QED BY <1>1, <1>2, ClientWithProcessor, FrameInvariant, PTL DEF SpecWithProcessor

\* What was written has all been delivered when the ring is empty.
LEMMA EmptyRing ==
  ASSUME FrameInv, ctl = "ready", ring = <<>>, rt # "set"
  PROVE  delivered = issued
<1> DEFINE end == InRing * ParameterSize
<1>1. Len(ring) = 0 /\ sent = ParameterSize
  BY DEF FrameInv, Handling
<1>2. InRing \in Int /\ end \in Int /\ end = 0
  <2>1. InRing \in Int
    BY CountTypes
  <2>2. end \in Int /\ Len(ring) = end - (ParameterSize - sent)
    BY <2>1, Multiples DEF FrameInv, Framed
  <2> HIDE DEF end
  <2> QED BY <1>1, <2>1, <2>2, CountTypes
<1>3. InRing = 0
  <2>1. CASE InRing > 0
    <3>1. 0 * ParameterSize + ParameterSize <= end /\ 0 * ParameterSize = 0
      BY <1>2, <2>1, Multiples
    <3> HIDE DEF end
    <3> QED BY <1>2, <3>1, CountTypes
  <2> QED BY <2>1, CountTypes
<1>4. Len(delivered) = Len(issued)
  BY <1>3, CountTypes DEF Taken, InRing
<1>5. delivered \in Seq(Parameter) /\ issued \in Seq(Parameter)
  BY DeliveredParameters DEF FrameInv, LifeInv, TypeOK
<1>6. \A k \in 1 .. Len(issued) : delivered[k] = issued[k]
  BY <1>4 DEF FrameInv, DeliveredInOrder
<1> QED BY <1>4, <1>5, <1>6, SeqEqual

(***************************************************************************)
(* Whatever is written to a client, in whatever order, once its ring is    *)
(* empty its effect is what a new one would be that is given the last      *)
(* value of each parameter: for every effect, ring, and interleaving of    *)
(* the two threads.                                                        *)
(***************************************************************************)
THEOREM SettingsAlwaysTakeEffect == SpecWithProcessor => []SettingsTakeEffect
<1>1. FrameInv /\ ProcessorInv => SettingsTakeEffect
  <2> SUFFICES ASSUME FrameInv, ProcessorInv, ctl = "ready", ring = <<>>,
                      rt \notin {"read", "set"}
               PROVE  SettledOn(ProcessorEffect, processor, LastValues(issued))
    BY DEF SettingsTakeEffect
  <2>1. ctx.processor
    BY DEF FrameInv, LifeInv, Constructed, FullContext
  <2>2. delivered = issued
    BY EmptyRing
  <2> QED BY <2>1, <2>2 DEF ProcessorInv
<1> QED BY <1>1, ProcessorInvariant, PTL
=============================================================================

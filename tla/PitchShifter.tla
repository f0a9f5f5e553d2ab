--------------------------- MODULE PitchShifter ---------------------------
(***************************************************************************)
(* The pitch shifter: samples are written around a delay line at m_index   *)
(* and read at two heads, half a line apart, that move with the phase; a   *)
(* triangular fade makes each head silent where it jumps.  Phases are      *)
(* floats, in 1/One of the line: the same integer is m_phase in 1/One and  *)
(* phase, that is m_phase * DelayLineSize, in 1/Unit of a place.           *)
(***************************************************************************)
EXTENDS FloatFormat

CONSTANT
  DelayLineSize  \* places of the line

One == DelayLineSize * Unit

\* The line has 2048 places.
ASSUME PhaseAssumption ==
  /\ DelayLineSize \in Nat /\ DelayLineSize >= 4
  /\ One % 2 = 0
  /\ 2 * One < Power[Precision + MaxExponent]
  /\ IsFloat(One) /\ Step(One) <= Unit

Place == 0 .. DelayLineSize - 1

\* 2 * m_params[Pitch] / DelayLineSize, for parameters in 0 .. 1.
PhaseStep == {s \in 0 .. 2 * Unit : IsFloat(s)}

VARIABLES
  m_index,   \* place written last
  m_phase,   \* of the first head, in 1/One
  pitch,     \* m_params[Pitch], as the step it makes of the phase
  written,   \* history: the places that a sample was written to
  samples    \* history: how many samples, up to a lap of the line

vars == <<m_index, m_phase, pitch, written, samples>>

-----------------------------------------------------------------------------

\* A phase of the line or more goes back by a line; no phase or less goes on
\* by one, and that includes the phase that has just gone back to nothing.
WrapToStart(p) == IF p >= One THEN 0 ELSE p                 \* mutant
WrapAbove(p) == IF p >= One THEN Round(p - One) ELSE p
WrapBelow(p) == IF p <= 0 THEN Round(p + One) ELSE p

Advance(p, s) == WrapBelow(WrapAbove(Round(p + s)))

\* The second head in double, which is exact here.
OppositeKept(p) == p + One \div 2                           \* mutant
Opposite(p) ==
  LET q == p + One \div 2
  IN  IF q >= One THEN q - One ELSE q

\* Weights in 1/One.
FadeInTheMiddle(p) ==                                       \* mutant
  2 * (IF 2 * p >= One THEN p - One \div 2 ELSE One \div 2 - p)
Fade(p) == 2 * (IF 2 * p >= One THEN One - p ELSE p)

\* interpolate() takes a float: the place and the place after it.
Head(position, weight) ==
  LET i == Round(position) \div Unit
  IN  [place |-> i,
       fraction |-> Round(position) % Unit,
       next |-> IF i + 1 >= DelayLineSize THEN 0 ELSE i + 1,
       weight |-> weight]

FirstHead == Head(m_phase, Fade(m_phase))
SecondHead == Head(Opposite(m_phase), One - Fade(m_phase))
Heads == {FirstHead, SecondHead}

IndexPastEnd ==                                             \* mutant
  IF m_index + 1 > DelayLineSize THEN 0 ELSE m_index + 1
NextIndex == IF m_index + 1 >= DelayLineSize THEN 0 ELSE m_index + 1

-----------------------------------------------------------------------------

\* The lines are reserved, so that std::fill fills nothing.
Init ==
  /\ m_index = 0
  /\ m_phase = 0
  /\ pitch = Unit
  /\ written = {}
  /\ samples = 0

SetPitch(s) ==
  /\ pitch' = s
  /\ UNCHANGED <<m_index, m_phase, written, samples>>

\* One sample: it is written, the heads are read, the phase advances.
\* A state lies between two samples: its heads are those the next one reads.
Process ==
  /\ m_index' = NextIndex
  /\ written' = written \cup {m_index'}
  /\ samples' = IF samples < DelayLineSize THEN samples + 1 ELSE samples
  /\ m_phase' = Advance(m_phase, pitch)
  /\ UNCHANGED pitch

Next == Process \/ \E s \in PhaseStep : SetPitch(s)

Spec == Init /\ [][Next]_vars

-----------------------------------------------------------------------------
(* Properties *)

\* The phase never leaves the line, its end included; the index never does.
TypeOK ==
  /\ m_index \in Place
  /\ m_phase \in 0 .. One /\ IsFloat(m_phase)
  /\ pitch \in PhaseStep
  /\ written \subseteq Place
  /\ samples \in 0 .. DelayLineSize

\* After the first lap everything that is heard was written: the index visits
\* every place.  Only the place past the end, which no sample ever reaches, is
\* still read: the first head has no weight there, and the second one is there
\* only when a position less than a float step away was rounded, with a weight
\* as small.  The weight silences the value only if that is a finite number,
\* which the code leaves to chance.  What is mixed in is in the line, always.
HeardIsWritten ==
  \A h \in Heads :
    /\ h.next \in Place
    /\ samples = DelayLineSize =>
         /\ h.next \in written
         /\ h.place \notin written =>
              /\ h.place = DelayLineSize
              /\ h.fraction = 0
              /\ h.weight <= Step(One - 1)

\* The heads fade in and out: between two samples the weight of the first one,
\* and with it that of the second, changes by no more than twice the step of
\* the phase; and a head that goes from the end of the line back to its start
\* has no more weight than that before and after.  It is this jump that the
\* fade hides; a head that meets m_index elsewhere is not silenced.
Distance(a, b) == Magnitude(a - b)
WentBack(position) == position' < position
NoClick ==
  [][Process =>
       LET most == 2 * (pitch + Step(One))
       IN  /\ Distance(FirstHead.weight, FirstHead'.weight) <= most
           /\ WentBack(m_phase) =>
                FirstHead.weight <= most /\ FirstHead'.weight <= most
           /\ WentBack(Opposite(m_phase)) =>
                SecondHead.weight <= most /\ SecondHead'.weight <= most]_vars

\* The heads keep pace with the pitch.  In the middle of the parameter, and
\* where the phase is a whole number of places, as it is from the start, the
\* first head moves as fast as the samples are written and keeps its distance
\* from m_index, through every wrap; at no pitch above half the float step at
\* 1.0 does it ever stand still.  The second one is half a line from it.
HeadsKeepPace ==
  [][Process =>
       /\ pitch = Unit /\ m_phase % Unit = 0 =>
            (m_index' - FirstHead'.place) % DelayLineSize
              = (m_index - FirstHead.place) % DelayLineSize
       /\ 2 * pitch > Step(One) => m_phase' # m_phase]_vars
=============================================================================

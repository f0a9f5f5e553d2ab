------------------------- MODULE PitchShifterProofs -------------------------
(***************************************************************************)
(* Proofs about PitchShifter, for every length of the line, every format   *)
(* of float that counts its places and every pitch: what a sample makes of *)
(* the phase, and, from this, that the phase stays in the line, what the   *)
(* heads read there, how their weights change and how they move.           *)
(***************************************************************************)
EXTENDS PitchShifter, FloatFormatProofs

-----------------------------------------------------------------------------
(* The line *)

\* Four places at least; the line is an even number of the finest steps.
LEMMA LineIs ==
  /\ DelayLineSize \in Nat /\ Unit \in Nat \ {0} /\ One \in Nat
  /\ 4 * Unit <= One
  /\ \E half \in Nat : One = 2 * half /\ One \div 2 = half
  /\ InRange(2 * One) /\ InRange(One) /\ 2 * One \in Nat
<1>1. Unit \in Nat \ {0}
  BY UnitIs
<1> DEFINE U == Unit
<1> HIDE DEF U
<1>2. DelayLineSize * U \in Nat /\ 4 * U <= DelayLineSize * U
  BY <1>1, PhaseAssumption DEF U
<1>3. One \in Nat /\ 4 * Unit <= One
  BY <1>2 DEF U, One
<1>4. One = 2 * (One \div 2) /\ One \div 2 \in Nat
  <2>1. One % 2 = 0
    BY PhaseAssumption
  <2> DEFINE w == One
  <2> HIDE DEF w
  <2>2. w \in Nat /\ w % 2 = 0 => w = 2 * (w \div 2) /\ w \div 2 \in Nat
    BY SMT
  <2> QED BY <1>3, <2>1, <2>2 DEF w
<1>5. 2 * One < Power[Precision + MaxExponent]
  BY PhaseAssumption
<1>6. Power[Precision + MaxExponent] \in Nat
  BY PowerIs, FloatAssumption DEF Exponent
<1>7. InRange(2 * One) /\ InRange(One)
  BY <1>3, <1>5, <1>6 DEF InRange, Magnitude
<1> QED BY <1>1, <1>3, <1>4, <1>7, PhaseAssumption

\* Floats distinguish the places of the line, and of a second one by half.
LEMMA GridOfPhase ==
  ASSUME NEW x \in Nat, x <= 2 * One
  PROVE  /\ InRange(x) /\ Step(x) \in Nat \ {0} /\ Step(One) \in Nat \ {0}
         /\ Step(One) <= Unit /\ Step(x) <= 2 * Step(One)
         /\ \E k \in Nat \ {0} : 2 * Step(One) = k * Step(x)
         /\ x <= One => /\ Step(x) <= Step(One)
                        /\ \E k \in Nat \ {0} : Step(One) = k * Step(x)
         /\ x >= One => \E k \in Nat \ {0} : Step(x) = k * Step(One)
<1>1. /\ InRange(x) /\ Magnitude(x) = x /\ Magnitude(One) = One
      /\ Magnitude(2 * One) = 2 * One
  BY LineIs, PowerIs, FloatAssumption DEF InRange, Magnitude, Exponent
<1>2. /\ Step(x) \in Nat \ {0} /\ Step(One) \in Nat \ {0}
      /\ x <= One => /\ Step(x) <= Step(One)
                     /\ \E k \in Nat \ {0} : Step(One) = k * Step(x)
  BY <1>1, LineIs, StepsDivide
<1>3. x >= One => \E k \in Nat \ {0} : Step(x) = k * Step(One)
  BY <1>1, LineIs, StepsDivide
<1>4. /\ Step(2 * One) \in Nat \ {0} /\ Step(x) <= Step(2 * One)
      /\ \E k \in Nat \ {0} : Step(2 * One) = k * Step(x)
  BY <1>1, LineIs, StepsDivide
<1>5. /\ Step(2 * One) <= 2 * Step(One)
      /\ \E k \in Nat \ {0} : 2 * Step(One) = k * Step(2 * One)
  BY LineIs, StepDoubles
<1>6. \E k \in Nat \ {0} : 2 * Step(One) = k * Step(x)
  <2> DEFINE w == Step(x)
  <2>1. PICK k \in Nat \ {0} : Step(2 * One) = k * w
    BY <1>4
  <2>2. PICK j \in Nat \ {0} : 2 * Step(One) = j * Step(2 * One)
    BY <1>5
  <2>3. w \in Nat
    BY <1>2
  <2> HIDE DEF w
  <2>4. 2 * Step(One) = (j * k) * w /\ j * k \in Nat \ {0}
    BY <2>1, <2>2, <2>3
  <2> QED BY <2>4 DEF w
<1> QED BY <1>1, <1>2, <1>3, <1>4, <1>5, <1>6, PhaseAssumption

\* Multiples of the step around a larger number are floats.
LEMMA CoarserAreFloats ==
  ASSUME NEW x \in Nat, x <= One, NEW k \in Int, x = k * Step(One)
  PROVE  IsFloat(x)
<1>1. x <= 2 * One
  BY LineIs
<1>2. PICK j \in Nat \ {0} : Step(One) = j * Step(x)
  BY <1>1, GridOfPhase
<1>3. InRange(x) /\ Step(x) \in Nat
  BY <1>1, GridOfPhase
<1>4. x = (k * j) * Step(x) /\ k * j \in Int
  <2> DEFINE w == Step(x)
  <2>1. w \in Nat /\ x = k * (j * w)
    BY <1>2, <1>3
  <2> HIDE DEF w
  <2>2. k * (j * w) = (k * j) * w
    BY <1>2, <2>1
  <2> QED BY <1>2, <2>1, <2>2 DEF w
<1> QED BY <1>3, <1>4, FloatIs

\* A place is whole steps of any number in the line, so that its multiples are
\* floats.
LEMMA UnitIsWhole ==
  ASSUME NEW x \in Nat, x <= One
  PROVE  \E k \in Nat \ {0} : Unit = k * Step(x)
<1>1. PICK e \in Exponent : Unit = Power[e]
  BY UnitAssumption DEF Exponent
<1>2. x <= 2 * One /\ InRange(One)
  BY LineIs
<1>3. InRange(x) /\ Step(x) <= Unit
  <2>1. /\ InRange(x) /\ Step(x) \in Nat \ {0} /\ Step(One) \in Nat \ {0}
        /\ Step(One) <= Unit /\ Step(x) <= Step(One)
    BY <1>2, GridOfPhase
  <2> QED BY <2>1, LineIs
<1>4. PICK f : Step(x) = Power[f] /\ f \in Exponent
  BY <1>3, StepIs
<1>5. e \in Exponent /\ Power[f] <= Power[e]
  BY <1>1, <1>3, <1>4, BinadeIs
<1>6. f <= e
  <2>1. e < f => 2 * Power[e] <= Power[f]
    BY <1>4, <1>5, PowersGrow
  <2>2. Power[e] \in Nat \ {0} /\ Power[f] \in Nat \ {0} /\ e \in Nat /\ f \in Nat
    BY <1>4, <1>5, PowerIs, FloatAssumption DEF Exponent
  <2> QED BY <1>5, <2>1, <2>2
<1> QED BY <1>1, <1>4, <1>5, <1>6, PowersDivide

\* The place after the end of the line is a float too: it is below the next
\* power of two, or it is that power.
LEMMA PastTheEnd == IsFloat(One + Unit)
<1>1. PICK e : IsExponent(One, e) /\ Step(One) = Power[e] /\ e \in Exponent
  BY LineIs, StepIs
<1>2. PICK u \in Exponent : Unit = Power[u]
  BY UnitAssumption DEF Exponent
<1>3. /\ One \in Nat /\ Unit \in Nat \ {0} /\ 4 * Unit <= One /\ Magnitude(One) = One
      /\ e \in 0 .. MaxExponent /\ One < Power[e + Precision]
      /\ Power[e + Precision] \in Nat /\ Power[e] \in Nat \ {0}
  BY <1>1, LineIs, BinadeIs DEF IsExponent, Magnitude
<1>4. /\ u \in Exponent /\ e + Precision \in Exponent /\ u \in Nat /\ e + Precision \in Nat
  BY <1>2, <1>3, BinadeIs DEF Exponent
<1>5. u < e + Precision
  <2>1. e + Precision <= u => Power[e + Precision] <= Power[u]
    BY <1>4, PowersDivide
  <2> QED BY <1>2, <1>3, <1>4, <2>1
<1>6. One + Unit <= Power[e + Precision]
  <2> DEFINE U == Unit
             b == Power[e + Precision]
  <2>1. PICK k \in Nat \ {0} : b = k * U
    BY <1>2, <1>4, <1>5, PowersDivide
  <2>2. One = DelayLineSize * U /\ DelayLineSize \in Nat
    BY LineIs DEF One
  <2> HIDE DEF U, b
  <2>3. U \in Nat \ {0} /\ DelayLineSize * U < k * U
    BY <1>3, <2>1, <2>2 DEF U, b
  <2>4. DelayLineSize < k
    BY <2>1, <2>2, <2>3
  <2>5. (k - DelayLineSize) * U >= U /\ (k - DelayLineSize) * U = k * U - DelayLineSize * U
    BY <2>1, <2>2, <2>3, <2>4
  <2> QED BY <2>1, <2>2, <2>3, <2>5 DEF U, b
<1>7. \E k \in Int : One + Unit = k * Power[e]
  <2> DEFINE w == Power[e]
  <2>1. PICK h \in Int : One = h * w
    BY <1>1, LineIs, FloatIs, PhaseAssumption
  <2>2. PICK j \in Nat \ {0} : Unit = j * w
    BY <1>1, <1>3, UnitIsWhole
  <2> HIDE DEF w
  <2>3. w \in Nat /\ h * w + j * w = (h + j) * w
    BY <1>3, <2>1, <2>2 DEF w
  <2>4. One + Unit = (h + j) * w /\ h + j \in Int
    BY <2>1, <2>2, <2>3
  <2> QED BY <2>4 DEF w
<1>8. One + Unit \in Nat /\ InRange(One + Unit)
  <2>1. One + Unit \in Nat /\ One + Unit <= 2 * One
    BY <1>3
  <2> QED BY <2>1, GridOfPhase
<1> QED BY <1>1, <1>6, <1>7, <1>8, MultiplesAreFloats

-----------------------------------------------------------------------------
(* The phase *)

Phases == {p \in 0 .. One : IsFloat(p)}

\* What the phase is before it goes back: it moves by the step, but for the
\* rounding, and by less than a line.
LEMMA SumIs ==
  ASSUME NEW p \in Phases, NEW s \in PhaseStep
  PROVE  LET r == Round(p + s) IN
         /\ p \in Nat /\ p <= One /\ s \in Nat
         /\ r \in Nat /\ p <= r /\ r <= 2 * One
         /\ r <= p + s + Step(One) /\ r < p + One
         /\ r > One => \E k \in Int : r = k * Step(One)
         /\ r \in Phases \/ r > One
         /\ 2 * s > Step(One) => r > p
<1> DEFINE x == p + s
           r == Round(x)
<1>1. /\ p \in Nat /\ p <= One /\ IsFloat(p) /\ s \in Nat /\ s <= 2 * Unit
      /\ x \in Nat /\ x <= One + 2 * Unit /\ p <= x
  BY LineIs DEF Phases, PhaseStep
<1>2. x <= 2 * One /\ p <= 2 * One
  BY <1>1, LineIs
<1>3. /\ InRange(x) /\ Step(x) \in Nat \ {0} /\ Step(One) \in Nat \ {0}
      /\ Step(One) <= Unit /\ Step(x) <= 2 * Step(One)
      /\ Step(p) \in Nat \ {0} /\ Step(p) <= Step(One)
  BY <1>1, <1>2, GridOfPhase
<1> HIDE DEF x
<1>4. r \in Nat /\ p <= r /\ (2 * s > Step(p) => r > p)
  BY <1>1, <1>3, StepAdded DEF x
<1>5. r <= x + Step(One)
  <2>1. 2 * Magnitude(r - x) <= Step(x)
    BY <1>3, Rounding
  <2> QED BY <1>1, <1>3, <1>4, <2>1 DEF Magnitude
<1>6. PICK h \in Int : One = h * Step(One)
  BY LineIs, FloatIs, PhaseAssumption
<1>7. r <= 2 * One
  <2>1. PICK k \in Nat \ {0} : 2 * Step(One) = k * Step(x)
    BY <1>1, <1>2, GridOfPhase
  <2>2. 2 * One = (h * k) * Step(x) /\ h * k \in Int
    <3> DEFINE w == Step(x)
               t == Step(One)
    <3>1. w \in Nat /\ t \in Nat /\ One = h * t /\ 2 * t = k * w
      BY <1>3, <1>6, <2>1
    <3> HIDE DEF w, t
    <3>2. 2 * (h * t) = h * (k * w) /\ h * (k * w) = (h * k) * w
      BY <2>1, <3>1
    <3> QED BY <2>1, <3>1, <3>2 DEF w
  <2> QED BY <1>2, <1>3, <2>2, RoundingKeepsOrder
<1>8. r > One => x > One
  <2>1. SUFFICES ASSUME x <= One PROVE r <= One
    BY <1>1, <1>4, LineIs
  <2>2. PICK k \in Nat \ {0} : Step(One) = k * Step(x)
    BY <1>1, <1>2, <2>1, GridOfPhase
  <2>3. One = (h * k) * Step(x) /\ h * k \in Int
    <3> DEFINE w == Step(x)
    <3>1. w \in Nat /\ One = h * (k * w)
      BY <1>3, <1>6, <2>2
    <3> HIDE DEF w
    <3>2. h * (k * w) = (h * k) * w
      BY <2>2, <3>1
    <3> QED BY <2>2, <3>1, <3>2 DEF w
  <2> QED BY <1>3, <2>1, <2>3, RoundingKeepsOrder
<1>9. ASSUME r > One
      PROVE  \E k \in Int : r = k * Step(One)
  <2>1. PICK k \in Nat \ {0} : Step(x) = k * Step(One)
    BY <1>1, <1>2, <1>8, <1>9, LineIs, GridOfPhase
  <2>2. PICK q \in Int : r \in {q * Step(x), (q + 1) * Step(x)}
    BY <1>3, Rounding
  <2>3. PICK m \in Int : r = m * Step(x)
    BY <2>2
  <2>4. r = (m * k) * Step(One) /\ m * k \in Int
    <3> DEFINE w == Step(One)
    <3>1. w \in Nat /\ r = m * (k * w)
      BY <1>3, <2>1, <2>3
    <3> HIDE DEF w, r
    <3>2. m * (k * w) = (m * k) * w
      BY <2>1, <3>1
    <3> QED BY <2>1, <3>1, <3>2 DEF w
  <2> QED BY <2>4
<1>10. r \in Phases \/ r > One
  <2>1. r <= 2 * One => InRange(r)
    BY <1>4, GridOfPhase
  <2>2. IsFloat(r)
    BY <1>1, <1>3, <1>7, <2>1, RoundIsFloat
  <2> QED BY <1>4, <2>2, LineIs DEF Phases
<1>11. 2 * s > Step(One) => r > p
  BY <1>1, <1>3, <1>4
<1>12. r <= p + s + Step(One) /\ r < p + One
  BY <1>1, <1>3, <1>4, <1>5, LineIs DEF x
<1> QED BY <1>1, <1>4, <1>7, <1>9, <1>10, <1>11, <1>12 DEF x

\* What a sample makes of the phase: it goes back by a line, without rounding,
\* and where it would be nothing it is the whole line.
LEMMA AdvanceIs ==
  ASSUME NEW p \in Phases, NEW s \in PhaseStep
  PROVE  LET r == Round(p + s) IN
         Advance(p, s) \in Phases
         /\ Advance(p, s) = IF r = 0 \/ r = One THEN One
                            ELSE IF r < One THEN r ELSE r - One
<1> DEFINE r == Round(p + s)
<1>1. /\ r \in Nat /\ r <= 2 * One /\ (r > One => \E k \in Int : r = k * Step(One))
      /\ r \in Phases \/ r > One
  BY SumIs
<1>2. One \in Nat /\ One > 0 /\ InRange(One) /\ IsFloat(One)
  BY LineIs, PhaseAssumption
<1>3. Round(0) = 0 /\ Round(One) = One
  <2>1. InRange(0) /\ Step(0) \in Nat
    BY LineIs, GridOfPhase
  <2>2. 0 * Step(0) = 0
    BY <2>1
  <2> QED BY <1>2, <2>1, <2>2, RoundingKeepsOrder DEF IsFloat
<1>4. ASSUME r > One
      PROVE  r - One \in Phases /\ Round(r - One) = r - One
  <2>1. PICK k \in Int : r = k * Step(One)
    BY <1>1, <1>4
  <2>2. PICK h \in Int : One = h * Step(One)
    BY <1>2, FloatIs
  <2>3. r - One \in Nat /\ r - One <= One
    BY <1>1, <1>2, <1>4
  <2>4. r - One = (k - h) * Step(One) /\ k - h \in Int
    <3> DEFINE w == Step(One)
    <3>1. w \in Nat
      BY <1>2, GridOfPhase
    <3> HIDE DEF w
    <3>2. (k - h) * w = k * w - h * w
      BY <3>1
    <3> QED BY <2>1, <2>2, <3>2 DEF w
  <2>5. IsFloat(r - One)
    BY <2>3, <2>4, CoarserAreFloats
  <2> QED BY <1>2, <2>3, <2>5 DEF Phases, IsFloat
<1> HIDE DEF r
<1>5. CASE r = 0
  BY <1>2, <1>3, <1>5 DEF Advance, WrapAbove, WrapBelow, Phases, r
<1>6. CASE 0 < r /\ r < One
  <2>1. Advance(p, s) = r
    BY <1>1, <1>2, <1>6 DEF Advance, WrapAbove, WrapBelow, r
  <2> QED BY <1>1, <1>2, <1>6, <2>1 DEF r
<1>7. CASE r = One
  <2>1. r - One = 0
    BY <1>2, <1>7
  <2> QED BY <1>2, <1>3, <1>7, <2>1 DEF Advance, WrapAbove, WrapBelow, Phases, r
<1>8. CASE r > One
  <2>1. Advance(p, s) = r - One
    BY <1>1, <1>2, <1>4, <1>8 DEF Advance, WrapAbove, WrapBelow, r
  <2> QED BY <1>1, <1>2, <1>4, <1>8, <2>1 DEF r
<1> QED BY <1>1, <1>2, <1>5, <1>6, <1>7, <1>8

-----------------------------------------------------------------------------
(* The invariant *)

\* In the first lap the samples go to the places from 1 on, one after the
\* other; the last of them goes to place 0, and then every place was written.
Lap ==
  IF samples < DelayLineSize
  THEN m_index = samples /\ written = 1 .. samples
  ELSE written = Place

\* The phase is a float of the line; the index and the places written are
\* those of the lap.
ShifterInv ==
  /\ m_index \in Place
  /\ m_phase \in Phases
  /\ pitch \in PhaseStep
  /\ samples \in 0 .. DelayLineSize
  /\ Lap

\* Every sample keeps it, at any pitch.
THEOREM ShifterInvariant == Spec => []ShifterInv
<1>1. /\ DelayLineSize \in Nat /\ DelayLineSize >= 4 /\ One \in Nat /\ Unit \in Nat
      /\ 4 * Unit <= One /\ 0 \in Place
  BY LineIs, PhaseAssumption DEF Place
<1>2. Init => ShifterInv
  <2> SUFFICES ASSUME Init PROVE ShifterInv
    OBVIOUS
  <2>1. IsFloat(0) /\ IsFloat(Unit)
    <3>1. InRange(0) /\ Step(0) \in Nat /\ 0 * Step(0) = 0
      <4>1. InRange(0) /\ Step(0) \in Nat
        BY <1>1, GridOfPhase
      <4> QED BY <4>1
    <3>2. PICK k \in Int : Unit = k * Step(Unit)
      BY <1>1, UnitIsWhole
    <3>3. InRange(Unit)
      BY <1>1, GridOfPhase
    <3> QED BY <3>1, <3>2, <3>3, FloatIs
  <2>2. 1 .. 0 = {}
    OBVIOUS
  <2> QED BY <1>1, <2>1, <2>2 DEF Init, ShifterInv, Lap, Phases, PhaseStep
<1>3. ShifterInv /\ [Next]_vars => ShifterInv'
  <2> SUFFICES ASSUME ShifterInv, [Next]_vars PROVE ShifterInv'
    OBVIOUS
  <2>1. CASE Process
    <3>1. m_phase' \in Phases /\ pitch' = pitch
      BY <2>1, AdvanceIs DEF Process, ShifterInv
    <3>2. m_index' \in Place /\ samples' \in 0 .. DelayLineSize
      BY <1>1, <2>1 DEF Process, ShifterInv, NextIndex, Place
    <3>3. Lap'
      <4>1. CASE samples = DelayLineSize
        <5>1. written = Place /\ samples' = samples
          BY <1>1, <2>1, <4>1 DEF Process, ShifterInv, Lap
        <5>2. written' = Place
          BY <2>1, <3>2, <5>1 DEF Process
        <5> QED BY <1>1, <4>1, <5>1, <5>2 DEF Lap
      <4>2. CASE samples < DelayLineSize
        <5>1. /\ m_index = samples /\ written = 1 .. samples
              /\ samples' = samples + 1 /\ samples \in Nat
              /\ m_index' = IF samples + 1 >= DelayLineSize THEN 0 ELSE samples + 1
              /\ written' = 1 .. samples \cup {m_index'}
          BY <1>1, <2>1, <4>2 DEF Process, ShifterInv, Lap, NextIndex
        <5>2. CASE samples + 1 < DelayLineSize
          <6>1. m_index' = samples + 1 /\ 1 .. samples \cup {samples + 1} = 1 .. samples + 1
            BY <1>1, <5>1, <5>2
          <6> QED BY <1>1, <5>1, <5>2, <6>1 DEF Lap
        <5>3. CASE samples + 1 = DelayLineSize
          <6>1. m_index' = 0 /\ 1 .. samples \cup {0} = Place
            BY <1>1, <5>1, <5>3 DEF Place
          <6> QED BY <1>1, <5>1, <5>3, <6>1 DEF Lap, Place
        <5> QED BY <1>1, <4>2, <5>1, <5>2, <5>3
      <4> QED BY <1>1, <4>1, <4>2 DEF ShifterInv
    <3> QED BY <3>1, <3>2, <3>3 DEF ShifterInv
  <2>2. ASSUME NEW s \in PhaseStep, SetPitch(s)
        PROVE  ShifterInv'
    BY <2>2 DEF SetPitch, ShifterInv, Lap
  <2>3. CASE UNCHANGED vars
    BY <2>3 DEF vars, ShifterInv, Lap
  <2> QED BY <2>1, <2>2, <2>3 DEF Next
<1> QED BY <1>2, <1>3, PTL DEF Spec

\* The phase never leaves the line, its end included, and stays a float; the
\* index never leaves it.
THEOREM TypeInvariant == Spec => []TypeOK
<1>1. ShifterInv => TypeOK
  <2> SUFFICES ASSUME ShifterInv PROVE written \subseteq Place
    BY DEF ShifterInv, TypeOK, Phases
  <2>1. CASE samples < DelayLineSize
    BY <2>1, PhaseAssumption DEF ShifterInv, Lap, Place
  <2>2. CASE ~(samples < DelayLineSize)
    BY <2>2 DEF ShifterInv, Lap
  <2> QED BY <2>1, <2>2
<1> QED BY <1>1, ShifterInvariant, PTL

-----------------------------------------------------------------------------
(* The heads *)

\* A number of steps of a place is in that place of the line.
LEMMA PlaceOf ==
  ASSUME NEW x \in Nat
  PROVE  /\ x \div Unit \in Nat /\ x % Unit \in Nat
         /\ x = (x \div Unit) * Unit + (x % Unit)
         /\ x < One => x \div Unit \in Place
         /\ x = One => x \div Unit = DelayLineSize /\ x % Unit = 0
<1> DEFINE q == x \div Unit
           r == x % Unit
           U == Unit
<1>1. U \in Nat \ {0} /\ DelayLineSize \in Nat /\ One = DelayLineSize * U
  BY LineIs DEF One
<1>2. q \in Int /\ r \in Int /\ x = q * U + r /\ 0 <= r /\ r < U
  BY <1>1, DivMod
<1>3. x = One => q = DelayLineSize /\ r = 0
  <2>1. One = DelayLineSize * U + 0
    BY <1>1
  <2> QED BY <1>1, <2>1, DivUnique
<1> HIDE DEF q, r, U
<1>4. q >= 0
  <2>1. CASE q <= -1
    <3>1. q * U <= -U
      BY <1>1, <1>2, <2>1
    <3> QED BY <1>1, <1>2, <3>1
  <2> QED BY <1>2, <2>1
<1>5. x < One => q < DelayLineSize
  <2>1. CASE q >= DelayLineSize
    <3>1. q * U >= DelayLineSize * U
      BY <1>1, <1>2, <2>1
    <3> QED BY <1>1, <1>2, <3>1
  <2> QED BY <1>1, <1>2, <2>1
<1>6. x < One => q \in Place
  BY <1>1, <1>2, <1>4, <1>5 DEF Place
<1> QED BY <1>2, <1>3, <1>4, <1>6 DEF q, r, U

\* The second head is rounded to the end of the line only from less than a step.
LEMMA OppositeIs ==
  ASSUME NEW p \in Phases
  PROVE  LET o == Opposite(p)
             r == Round(o)
         IN  /\ o \in Nat /\ r \in Nat /\ r <= One
             /\ r = One => One - Fade(p) <= Step(One - 1)
<1> DEFINE o == Opposite(p)
           r == Round(o)
<1>1. PICK half \in Nat : One = 2 * half /\ One \div 2 = half
  BY LineIs
<1>2. /\ p \in Nat /\ p <= One /\ One \in Nat /\ One > 0 /\ half > 0
      /\ Unit \in Nat /\ Unit > 0 /\ 4 * Unit <= One
  BY <1>1, LineIs DEF Phases
<1>3. /\ o = IF p + half >= One THEN p + half - One ELSE p + half
      /\ o \in Nat /\ o < One /\ Fade(p) = 2 * (IF 2 * p >= One THEN One - p ELSE p)
  BY <1>1, <1>2 DEF Opposite, Fade
<1> HIDE DEF o
<1>4. InRange(o) /\ Step(o) \in Nat \ {0} /\ Step(o) <= Unit
  <2>1. o <= 2 * One /\ o <= One
    BY <1>2, <1>3
  <2>2. /\ InRange(o) /\ Step(o) \in Nat \ {0} /\ Step(One) \in Nat \ {0}
        /\ Step(One) <= Unit /\ Step(o) <= Step(One)
    BY <1>3, <2>1, GridOfPhase
  <2> QED BY <1>2, <2>2
<1>5. r \in Nat /\ 2 * (r - o) <= Step(o)
  <2>1. r \in Nat /\ 2 * Magnitude(r - o) <= Step(o)
    BY <1>3, <1>4, Rounding, RoundIsFloat
  <2> QED BY <1>3, <1>4, <2>1 DEF Magnitude
<1>6. r <= One
  <2>1. PICK k \in Nat \ {0} : Step(One) = k * Step(o)
    <3>1. o <= One /\ o <= 2 * One
      BY <1>2, <1>3
    <3> QED BY <1>3, <3>1, GridOfPhase
  <2>2. PICK h \in Int : One = h * Step(One)
    BY LineIs, FloatIs, PhaseAssumption
  <2>3. One = (h * k) * Step(o) /\ h * k \in Int
    <3> DEFINE w == Step(o)
    <3>1. w \in Nat /\ One = h * (k * w)
      BY <1>4, <2>1, <2>2
    <3> HIDE DEF w
    <3>2. h * (k * w) = (h * k) * w
      BY <2>1, <3>1
    <3> QED BY <2>1, <3>1, <3>2 DEF w
  <2> QED BY <1>2, <1>3, <1>4, <2>3, RoundingKeepsOrder
<1>7. ASSUME r = One
      PROVE  One - Fade(p) <= Step(One - 1)
  <2>1. 2 * (One - o) <= Step(o)
    BY <1>5, <1>7
  <2>2. p < half
    BY <1>1, <1>2, <1>3, <1>4, <2>1
  <2>3. One - Fade(p) = 2 * (One - o)
    BY <1>1, <1>2, <1>3, <2>2
  <2>4. Step(o) <= Step(One - 1) /\ Step(One - 1) \in Nat
    <3>1. /\ One - 1 \in Nat /\ One - 1 <= 2 * One /\ o <= One - 1
          /\ Magnitude(o) = o /\ Magnitude(One - 1) = One - 1
      BY <1>2, <1>3 DEF Magnitude
    <3>2. InRange(One - 1)
      BY <3>1, GridOfPhase
    <3> QED BY <1>4, <3>1, <3>2, StepsDivide
  <2> QED BY <1>2, <1>3, <1>4, <2>1, <2>3, <2>4
<1> QED BY <1>3, <1>5, <1>6, <1>7 DEF o

\* What one head reads, wherever it is in the line.
LEMMA HeadIs ==
  ASSUME NEW position, NEW weight, Round(position) \in Nat, Round(position) <= One
  PROVE  LET h == Head(position, weight) IN
         /\ h.next \in Place /\ h.weight = weight
         /\ h.place \notin Place => /\ h.place = DelayLineSize /\ h.fraction = 0
                                    /\ Round(position) = One
<1> DEFINE r == Round(position)
<1>1. /\ r \div Unit \in Nat /\ r % Unit \in Nat
      /\ r < One => r \div Unit \in Place
      /\ r = One => r \div Unit = DelayLineSize /\ r % Unit = 0
  BY PlaceOf
<1>2. r \in Nat /\ r <= One /\ One \in Nat /\ DelayLineSize \in Nat \ {0}
  BY LineIs, PhaseAssumption
<1> HIDE DEF r
<1> DEFINE i == r \div Unit
<1> HIDE DEF i
<1>3. /\ i \in Nat /\ (r < One => i \in Place)
      /\ r = One => i = DelayLineSize /\ r % Unit = 0
  BY <1>1 DEF i
<1>4. Head(position, weight) =
        [place |-> i, fraction |-> r % Unit,
         next |-> IF i + 1 >= DelayLineSize THEN 0 ELSE i + 1, weight |-> weight]
  BY DEF Head, i, r
<1>5. (IF i + 1 >= DelayLineSize THEN 0 ELSE i + 1) \in Place
  BY <1>2, <1>3 DEF Place
<1>6. i \notin Place => r = One
  BY <1>2, <1>3
<1> QED BY <1>3, <1>4, <1>5, <1>6 DEF r

\* After the first lap everything that is heard was written: a head reads past
\* the end of the line only where its weight is none, or next to none.
THEOREM HeardAlwaysWritten == Spec => []HeardIsWritten
<1>1. ShifterInv => HeardIsWritten
  <2> SUFFICES ASSUME ShifterInv, NEW h \in Heads
      PROVE  /\ h.next \in Place
             /\ samples = DelayLineSize =>
                  /\ h.next \in written
                  /\ h.place \notin written =>
                       /\ h.place = DelayLineSize
                       /\ h.fraction = 0
                       /\ h.weight <= Step(One - 1)
    BY DEF HeardIsWritten
  <2>1. m_phase \in Phases /\ m_phase \in Nat /\ m_phase <= One /\ Round(m_phase) = m_phase
    BY LineIs DEF ShifterInv, Phases, IsFloat
  <2>2. samples = DelayLineSize => written = Place
    BY PhaseAssumption DEF ShifterInv, Lap
  <2>3. CASE h = FirstHead
    <3>1. /\ h.next \in Place /\ h.weight = Fade(m_phase)
          /\ h.place \notin Place => /\ h.place = DelayLineSize /\ h.fraction = 0
                                     /\ m_phase = One
      BY <2>1, <2>3, HeadIs DEF FirstHead
    <3>2. m_phase = One => Fade(m_phase) = 0
      BY LineIs DEF Fade
    <3>3. 0 <= Step(One - 1)
      <4>1. One - 1 \in Nat /\ One - 1 <= 2 * One
        BY LineIs
      <4>2. Step(One - 1) \in Nat
        BY <4>1, GridOfPhase
      <4> QED BY <4>2
    <3> QED BY <2>2, <3>1, <3>2, <3>3
  <2>4. CASE h = SecondHead
    <3>1. /\ Round(Opposite(m_phase)) \in Nat /\ Round(Opposite(m_phase)) <= One
          /\ Round(Opposite(m_phase)) = One => One - Fade(m_phase) <= Step(One - 1)
      BY <2>1, OppositeIs
    <3>2. /\ h.next \in Place /\ h.weight = One - Fade(m_phase)
          /\ h.place \notin Place => /\ h.place = DelayLineSize /\ h.fraction = 0
                                     /\ Round(Opposite(m_phase)) = One
      BY <2>4, <3>1, HeadIs DEF SecondHead
    <3> QED BY <2>2, <3>1, <3>2
  <2> QED BY <2>3, <2>4 DEF Heads
<1> QED BY <1>1, ShifterInvariant, PTL

\* Between two samples the weight of a head changes by no more than twice the
\* step, also where it jumps: the fade is twice the distance to the nearer end,
\* and the line is a circle to it.
LEMMA FadeMoves ==
  ASSUME NEW p \in Phases, NEW s \in PhaseStep
  PROVE  Distance(Fade(p), Fade(Advance(p, s))) <= 2 * (s + Step(One))
<1> DEFINE r == Round(p + s)
           t == Step(One)
           a == Advance(p, s)
<1>1. /\ p \in Nat /\ p <= One /\ s \in Nat /\ r \in Nat /\ p <= r /\ r <= 2 * One
      /\ r <= p + s + t /\ r < p + One
  BY SumIs
<1>2. One \in Nat /\ t \in Nat
  BY LineIs, GridOfPhase
<1>3. a = IF r = 0 \/ r = One THEN One ELSE IF r < One THEN r ELSE r - One
  BY AdvanceIs
<1> HIDE DEF r, t, a
<1>4. Distance(Fade(p), Fade(a)) <= 2 * (r - p)
  <2> DEFINE f == IF 2 * p >= One THEN One - p ELSE p
             g == IF 2 * a >= One THEN One - a ELSE a
  <2>1. f \in Int /\ g \in Int /\ f - g <= r - p /\ g - f <= r - p
    BY <1>1, <1>2, <1>3
  <2>2. Fade(p) = 2 * f /\ Fade(a) = 2 * g
    BY DEF Fade
  <2> HIDE DEF f, g
  <2> QED BY <1>1, <2>1, <2>2 DEF Distance, Magnitude
<1>5. Distance(Fade(p), Fade(a)) \in Int
  BY <1>1, <1>2, <1>3 DEF Distance, Fade, Magnitude
<1> QED BY <1>1, <1>2, <1>4, <1>5 DEF a, t

\* A head that goes back comes from less than a step before the end of the
\* line to less than a step after its start, where the fade is small; the
\* second head does when the first one is in the middle.
LEMMA FadeHidesJumps ==
  ASSUME NEW p \in Phases, NEW s \in PhaseStep
  PROVE  LET a == Advance(p, s)
             most == 2 * (s + Step(One))
         IN  /\ a < p => Fade(p) <= most /\ Fade(a) <= most
             /\ Opposite(a) < Opposite(p) => One - Fade(p) <= most /\ One - Fade(a) <= most
<1> DEFINE r == Round(p + s)
           t == Step(One)
           a == Advance(p, s)
<1>1. /\ p \in Nat /\ p <= One /\ s \in Nat /\ r \in Nat /\ p <= r /\ r <= 2 * One
      /\ r <= p + s + t /\ r < p + One
  BY SumIs
<1>2. PICK half \in Nat : One = 2 * half /\ One \div 2 = half
  BY LineIs
<1>3. One \in Nat /\ One > 0 /\ t \in Nat
  BY LineIs, GridOfPhase
<1>4. a = IF r = 0 \/ r = One THEN One ELSE IF r < One THEN r ELSE r - One
  BY AdvanceIs
<1>5. /\ Fade(p) = 2 * (IF p >= half THEN One - p ELSE p)
      /\ Fade(a) = 2 * (IF a >= half THEN One - a ELSE a)
  BY <1>1, <1>2, <1>3, <1>4 DEF Fade
<1>6. /\ Opposite(p) = IF p >= half THEN p - half ELSE p + half
      /\ Opposite(a) = IF a >= half THEN a - half ELSE a + half
  BY <1>1, <1>2, <1>3, <1>4 DEF Opposite
<1> HIDE DEF r, t, a
<1>7. a < p => Fade(p) <= 2 * (s + t) /\ Fade(a) <= 2 * (s + t)
  <2> SUFFICES ASSUME a < p PROVE Fade(p) <= 2 * (s + t) /\ Fade(a) <= 2 * (s + t)
    OBVIOUS
  <2>1. r > One /\ a = r - One
    BY <1>1, <1>3, <1>4
  <2> QED BY <1>1, <1>2, <1>3, <1>5, <2>1
<1>8. Opposite(a) < Opposite(p) =>
        One - Fade(p) <= 2 * (s + t) /\ One - Fade(a) <= 2 * (s + t)
  <2> SUFFICES ASSUME Opposite(a) < Opposite(p)
               PROVE  One - Fade(p) <= 2 * (s + t) /\ One - Fade(a) <= 2 * (s + t)
    OBVIOUS
  <2>1. /\ r > One => a = r - One
        /\ r <= One => a = r \/ a = One
        /\ a \in Nat /\ a <= One
    BY <1>1, <1>3, <1>4
  <2>2. CASE half <= s + t
    <3>1. Fade(p) >= 0 /\ Fade(a) >= 0 /\ Fade(p) \in Int /\ Fade(a) \in Int
      BY <1>1, <1>2, <1>3, <1>5, <2>1
    <3> QED BY <1>1, <1>2, <1>3, <2>2, <3>1
  <2>3. CASE s + t < half
    <3>1. p < half /\ half <= a
      BY <1>1, <1>2, <1>3, <1>6, <2>1, <2>3
    <3>2. a = r
      BY <1>1, <1>2, <1>3, <1>4, <1>6, <2>1, <2>3, <3>1
    <3> QED BY <1>1, <1>2, <1>3, <1>5, <3>1, <3>2
  <2> QED BY <1>1, <1>2, <1>3, <2>2, <2>3
<1> QED BY <1>7, <1>8 DEF a, t

\* No click, at any pitch.
THEOREM NeverClicks == Spec => NoClick
<1> DEFINE most == 2 * (pitch + Step(One))
           Quiet == /\ Distance(FirstHead.weight, FirstHead'.weight) <= most
                    /\ WentBack(m_phase) =>
                         FirstHead.weight <= most /\ FirstHead'.weight <= most
                    /\ WentBack(Opposite(m_phase)) =>
                         SecondHead.weight <= most /\ SecondHead'.weight <= most
<1>1. ShifterInv /\ Process => Quiet
  <2> SUFFICES ASSUME ShifterInv, Process PROVE Quiet
    OBVIOUS
  <2>1. /\ m_phase \in Phases /\ pitch \in PhaseStep /\ m_phase' = Advance(m_phase, pitch)
    BY DEF ShifterInv, Process
  <2>2. /\ FirstHead.weight = Fade(m_phase) /\ FirstHead'.weight = Fade(m_phase')
        /\ SecondHead.weight = One - Fade(m_phase) /\ SecondHead'.weight = One - Fade(m_phase')
    BY DEF FirstHead, SecondHead, Head
  <2>3. Opposite(m_phase)' = Opposite(m_phase')
    BY DEF Opposite
  <2> QED BY <2>1, <2>2, <2>3, FadeMoves, FadeHidesJumps DEF WentBack
<1> QED BY <1>1, ShifterInvariant, PTL DEF NoClick

-----------------------------------------------------------------------------
(* The pace of the heads *)

\* Places count around the line.
LEMMA AroundTheLine ==
  ASSUME NEW x \in Int
  PROVE  /\ (x + DelayLineSize) % DelayLineSize = x % DelayLineSize
         /\ (x - DelayLineSize) % DelayLineSize = x % DelayLineSize
<1> DEFINE S == DelayLineSize
           q == x \div S
           r == x % S
<1>1. S \in Nat \ {0}
  BY PhaseAssumption
<1> HIDE DEF S
<1>2. q \in Int /\ r \in Int /\ x = q * S + r /\ 0 <= r /\ r < S
  BY <1>1, DivMod
<1> HIDE DEF q, r
<1>3. (q + 1) * S = q * S + S /\ (q - 1) * S = q * S - S
  BY <1>1, <1>2
<1>4. x + S = (q + 1) * S + r /\ x - S = (q - 1) * S + r
  BY <1>1, <1>2, <1>3
<1>5. (x + S) % S = r
  BY <1>1, <1>2, <1>4, DivUnique
<1>6. (x - S) % S = r
  BY <1>1, <1>2, <1>4, DivUnique
<1> QED BY <1>5, <1>6 DEF r, S

\* A whole number of places, and one more, is not rounded; from the last place
\* the phase goes on to the end of the line, and from there to place 1.
LEMMA WholePlaces ==
  ASSUME NEW p \in Phases, NEW k \in 0 .. DelayLineSize, p = k * Unit
  PROVE  Advance(p, Unit)
           = (IF k = DelayLineSize THEN 1 ELSE k + 1) * Unit
<1> DEFINE U == Unit
           x == p + U
<1>1. /\ DelayLineSize \in Nat /\ DelayLineSize >= 4 /\ U \in Nat \ {0}
      /\ One \in Nat /\ 4 * U <= One /\ One = DelayLineSize * U
      /\ k \in Nat /\ p \in Nat /\ p <= One
  BY LineIs, PhaseAssumption DEF One, Phases
<1>2. U \in PhaseStep
  <2>1. PICK j \in Nat \ {0} : U = j * Step(U)
    BY <1>1, UnitIsWhole
  <2>2. InRange(U)
    BY <1>1, GridOfPhase
  <2> QED BY <1>1, <2>1, <2>2, FloatIs DEF PhaseStep
<1>3. /\ U <= One /\ x \in Nat /\ x <= 2 * One
      /\ x = (k + 1) * U
  BY <1>1
<1>4. k < DelayLineSize => x <= One /\ (x = One <=> k + 1 = DelayLineSize)
  <2> HIDE DEF x, U
  <2>1. ASSUME k + 1 < DelayLineSize
        PROVE  x < One
    <3>1. (DelayLineSize - (k + 1)) * U >= U
      BY <1>1, <2>1
    <3>2. (DelayLineSize - (k + 1)) * U = DelayLineSize * U - (k + 1) * U
      BY <1>1
    <3> QED BY <1>1, <1>3, <3>1, <3>2
  <2>2. k + 1 = DelayLineSize => x = One
    BY <1>1, <1>3
  <2> QED BY <1>1, <1>3, <2>1, <2>2
<1>5. k = DelayLineSize => x = One + U
  BY <1>1
<1>6. Round(x) = x
  <2>1. CASE k < DelayLineSize
    <3>1. PICK j \in Nat \ {0} : U = j * Step(x)
      BY <1>3, <1>4, <2>1, UnitIsWhole
    <3>2. InRange(x) /\ Step(x) \in Nat
      BY <1>3, GridOfPhase
    <3>3. x = ((k + 1) * j) * Step(x) /\ (k + 1) * j \in Int
      <4> DEFINE w == Step(x)
                 m == k + 1
      <4>1. w \in Nat /\ m \in Nat /\ x = m * (j * w)
        BY <1>1, <1>3, <3>1, <3>2
      <4> HIDE DEF w, m, x
      <4>2. m * (j * w) = (m * j) * w
        BY <3>1, <4>1
      <4>3. m * j \in Int
        BY <3>1, <4>1
      <4> QED BY <4>1, <4>2, <4>3 DEF w, m
    <3> QED BY <3>2, <3>3, FloatIs DEF IsFloat
  <2>2. CASE k = DelayLineSize
    BY <1>1, <1>5, <2>2, PastTheEnd DEF IsFloat
  <2>3. k < DelayLineSize \/ k = DelayLineSize
    BY <1>1
  <2> QED BY <2>1, <2>2, <2>3
<1>7. Advance(p, U) = IF x = One THEN One ELSE IF x < One THEN x ELSE x - One
  <2>1. x # 0
    BY <1>1
  <2> QED BY <1>2, <1>6, <2>1, AdvanceIs
<1> HIDE DEF x, U
<1>8. CASE k < DelayLineSize
  BY <1>1, <1>3, <1>4, <1>7, <1>8 DEF U
<1>9. CASE k = DelayLineSize
  <2>1. x - One = U /\ x > One /\ U = 1 * U
    BY <1>1, <1>5, <1>9
  <2>2. Advance(p, U) = U
    BY <1>1, <1>3, <1>7, <2>1
  <2>3. (IF k = DelayLineSize THEN 1 ELSE k + 1) = 1
    BY <1>9
  <2> QED BY <2>1, <2>2, <2>3 DEF U
<1> QED BY <1>1, <1>8, <1>9

\* In the middle of the parameter the heads keep their distance from the index,
\* and a step of more than half a float at 1.0 always moves them.
THEOREM HeadsAlwaysKeepPace == Spec => HeadsKeepPace
<1>1. ASSUME ShifterInv, Process, pitch = Unit, m_phase % Unit = 0
      PROVE  (m_index' - FirstHead'.place) % DelayLineSize
               = (m_index - FirstHead.place) % DelayLineSize
  <2>1. /\ m_phase \in Phases /\ m_index \in Place /\ m_phase' = Advance(m_phase, Unit)
        /\ m_index' = NextIndex
    BY <1>1 DEF ShifterInv, Process
  <2>2. /\ DelayLineSize \in Nat /\ DelayLineSize >= 4 /\ Unit \in Nat \ {0} /\ One \in Nat
        /\ m_phase \in Nat /\ m_phase <= One
    BY <2>1, LineIs, PhaseAssumption DEF Phases
  <2> DEFINE k == m_phase \div Unit
  <2>3. k \in 0 .. DelayLineSize /\ m_phase = k * Unit
    <3>1. /\ k \in Nat /\ m_phase = k * Unit + 0
          /\ m_phase < One => k \in Place
          /\ m_phase = One => k = DelayLineSize
      BY <1>1, <2>2, PlaceOf
    <3> HIDE DEF k
    <3>2. k * Unit \in Nat
      BY <2>2, <3>1
    <3> QED BY <2>2, <3>1, <3>2 DEF Place
  <2> DEFINE l == IF k = DelayLineSize THEN 1 ELSE k + 1
  <2> HIDE DEF k
  <2>4. l \in 0 .. DelayLineSize /\ m_phase' = l * Unit
    BY <2>1, <2>2, <2>3, WholePlaces
  <2> HIDE DEF l
  <2>5. FirstHead.place = k /\ FirstHead'.place = l
    <3>1. \A n \in Int : (n * Unit) \div Unit = n
      <4> TAKE n \in Int
      <4>1. n * Unit \in Int /\ n * Unit = n * Unit + 0
        BY <2>2
      <4> QED BY <2>2, <4>1, DivUnique
    <3>2. m_phase' \in Phases
      <4>1. Unit \in PhaseStep
        BY <1>1 DEF ShifterInv
      <4> QED BY <2>1, <4>1, AdvanceIs
    <3>3. Round(m_phase) = m_phase /\ Round(m_phase') = m_phase'
      BY <2>1, <3>2 DEF Phases, IsFloat
    <3>4. m_phase \div Unit = k /\ m_phase' \div Unit = l
      BY <2>3, <2>4, <3>1
    <3>5. FirstHead.place = Round(m_phase) \div Unit
      BY DEF FirstHead, Head
    <3>6. FirstHead'.place = Round(m_phase') \div Unit
      BY DEF FirstHead, Head
    <3> QED BY <3>3, <3>4, <3>5, <3>6
  <2> DEFINE d == m_index - k
  <2>6. d \in Int /\ m_index' - l \in {d, d - DelayLineSize, d + DelayLineSize}
    BY <2>1, <2>2, <2>3 DEF NextIndex, Place, l
  <2> HIDE DEF d
  <2>7. (m_index' - l) % DelayLineSize = d % DelayLineSize
    BY <2>6, AroundTheLine
  <2> QED BY <2>5, <2>7 DEF d
<1>2. ASSUME ShifterInv, Process, 2 * pitch > Step(One)
      PROVE  m_phase' # m_phase
  <2> DEFINE r == Round(m_phase + pitch)
  <2>1. /\ m_phase \in Phases /\ pitch \in PhaseStep /\ m_phase' = Advance(m_phase, pitch)
    BY <1>2 DEF ShifterInv, Process
  <2>2. /\ m_phase \in Nat /\ r \in Nat /\ r > m_phase /\ r < m_phase + One /\ One \in Nat
        /\ m_phase <= One
    BY <1>2, <2>1, LineIs, SumIs
  <2>3. m_phase' = IF r = 0 \/ r = One THEN One ELSE IF r < One THEN r ELSE r - One
    BY <2>1, AdvanceIs
  <2> HIDE DEF r
  <2> QED BY <2>2, <2>3
<1>3. ShifterInv /\ Process =>
        /\ pitch = Unit /\ m_phase % Unit = 0 =>
             (m_index' - FirstHead'.place) % DelayLineSize
               = (m_index - FirstHead.place) % DelayLineSize
        /\ 2 * pitch > Step(One) => m_phase' # m_phase
  BY <1>1, <1>2
<1> QED BY <1>3, ShifterInvariant, PTL DEF HeadsKeepPace
=============================================================================

--------------------------- MODULE Reverb2Proofs ---------------------------
(***************************************************************************)
(* Proofs about Reverb2, for every format of float that counts the places  *)
(* of its lines, every sample rate, all settings of predelay and           *)
(* modulation, and however long the reverb runs: where its taps read.      *)
(***************************************************************************)
EXTENDS Reverb2, FloatFormatProofs

\* Every line has a size, a positive number.
LEMMA SizesPositive ==
  \A l \in Line : size_[l] \in Nat \ {0} /\ Buffer(size_[l])
<1>1. \A l \in Line : size_[l] \in Nat \ {0}
  BY DEF size_, Line, Diffusion1BaseDelayLeft, Diffusion1BaseDelayRight
<1> QED BY <1>1, FormatAssumption DEF Buffer

\* The indices stay in their lines: Wrap sets each back at the end.
THEOREM TypeInvariant == Spec => []TypeOK
<1>1. Init => TypeOK
  BY RateAssumption, SizesPositive DEF Init, TypeOK
<1>2. TypeOK /\ [Next]_vars => TypeOK'
  <2> SUFFICES ASSUME TypeOK, [Next]_vars PROVE TypeOK'
    OBVIOUS
  <2>1. CASE Process
    <3>1. \A l \in Line : Wrap(index_[l] + 1, size_[l]) \in Nat
                          /\ Wrap(index_[l] + 1, size_[l]) < size_[l]
      BY SizesPositive DEF TypeOK, Wrap
    <3> QED BY <2>1, <3>1, RateAssumption DEF Process, TypeOK
  <2>2. CASE Remake
    BY <2>2, RateAssumption, SizesPositive DEF Remake, TypeOK
  <2>3. CASE UNCHANGED vars
    BY <2>3 DEF vars, TypeOK
  <2> QED BY <2>1, <2>2, <2>3 DEF Next
<1> QED BY <1>1, <1>2, PTL DEF Spec

-----------------------------------------------------------------------------
(* Delays *)

\* A delay up to some whole number of samples in the line is rounded to a
\* float up to that number.
LEMMA RoundedDelay ==
  ASSUME NEW size, Buffer(size), NEW n \in Nat, n < size,
         NEW x \in Nat, x <= n * Unit
  PROVE  DelayOf(size, Round(x)) /\ Round(x) <= n * Unit
<1>1. /\ size \in Nat \ {0} /\ n * Unit \in Nat /\ (size - 1) * Unit \in Nat
      /\ size * Unit \in Nat /\ n * Unit <= (size - 1) * Unit
      /\ (size - 1) * Unit <= size * Unit
  <2>1. size \in Nat \ {0}
    BY DEF Buffer
  <2>2. n <= size - 1 /\ (n < size - 1 => n * Unit + Unit <= (size - 1) * Unit)
    BY <2>1, UnitIs
  <2>3. n * Unit <= (size - 1) * Unit
    <3>1. CASE n < size - 1
      BY <2>1, <2>2, <3>1, UnitIs
    <3>2. CASE n = size - 1
      BY <2>1, <3>2, UnitIs
    <3> QED BY <2>1, <2>2, <3>1, <3>2
  <2>4. (size - 1) * Unit = size * Unit - Unit /\ size * Unit \in Int
    BY <2>1, UnitIs
  <2>5. n * Unit \in Nat /\ (size - 1) * Unit \in Nat
    BY <2>1, UnitIs
  <2> QED BY <2>1, <2>3, <2>4, <2>5, UnitIs
<1>2. Magnitude(x) = x /\ x <= size * Unit
  BY <1>1 DEF Magnitude
<1>3. InRange(x)
  BY <1>2, GridOfLine
<1>4. PICK k \in Int : n * Unit = k * Step(x)
  BY <1>2, SamplesAreSteps
<1>5. Round(x) \in Int /\ Round(x) <= n * Unit
  BY <1>3, <1>4, RoundingKeepsOrder
<1>6. Round(x) \in Nat /\ (InRange(Round(x)) => IsFloat(Round(x)))
  BY <1>3, RoundIsFloat
<1>7. InRange(Round(x))
  <2>1. Magnitude(Round(x)) <= size * Unit
    BY <1>1, <1>5, <1>6 DEF Magnitude
  <2> QED BY <1>6, <2>1, GridOfLine
<1> QED BY <1>1, <1>5, <1>6, <1>7 DEF DelayOf

\* Whole samples are floats.
LEMMA WholeDelay ==
  ASSUME NEW size, Buffer(size), NEW n \in Nat, n < size
  PROVE  DelayOf(size, n * Unit)
<1>1. n * Unit \in Nat
  BY UnitIs
<1>2. DelayOf(size, Round(n * Unit)) /\ Round(n * Unit) <= n * Unit
  BY <1>1, RoundedDelay
<1>3. Magnitude(n * Unit) = n * Unit /\ n * Unit <= size * Unit
  <2>1. size \in Nat /\ n * Unit + Unit <= size * Unit /\ size * Unit \in Int
    BY UnitIs DEF Buffer
  <2> QED BY <1>1, <2>1, UnitIs DEF Magnitude
<1>4. PICK k \in Int : n * Unit = k * Step(n * Unit)
  BY <1>1, <1>3, SamplesAreSteps
<1>5. InRange(n * Unit)
  BY <1>1, <1>3, GridOfLine
<1>6. Round(n * Unit) = n * Unit
  BY <1>4, <1>5, FloatIs DEF IsFloat
<1> QED BY <1>2, <1>6

\* The exact product lies on the grid, below the samples it does not exceed.
LEMMA ExactIs ==
  ASSUME NEW k \in Nat, NEW fs \in Nat, NEW n \in Nat, k * fs <= DesignRate * n
  PROVE  Exact(k, fs) \in Nat /\ Exact(k, fs) <= n * Unit
<1> DEFINE x == k * fs
           q == x \div DesignRate
           r == x % DesignRate
           rest == (r * Unit) \div DesignRate
<1>1. x \in Nat /\ x <= 29761 * n
  BY DEF DesignRate
<1> HIDE DEF x
<1>2. q \in Nat /\ r \in 0 .. 29760 /\ x = q * 29761 + r
  BY <1>1 DEF DesignRate
<1> HIDE DEF q, r
<1>3. q <= n /\ (q = n => r = 0)
  BY <1>1, <1>2
<1>4. Unit \in Nat \ {0} /\ q * Unit \in Nat /\ n * Unit \in Nat /\ r * Unit \in Nat
  BY <1>2, UnitIs
<1>5. r * Unit <= 29760 * Unit
  <2>1. CASE r = 29760
    BY <2>1, <1>4
  <2>2. CASE r < 29760
    <3>1. r * Unit + Unit <= 29760 * Unit
      BY <1>2, <2>2, UnitIs
    <3> QED BY <1>4, <3>1
  <2>3. r = 29760 \/ r < 29760
    BY <1>2
  <2> QED BY <2>1, <2>2, <2>3
<1>6. rest \in Nat /\ rest < Unit
  <2> DEFINE p == r * Unit
  <2>1. p \in Nat /\ p <= 29760 * Unit
    BY <1>4, <1>5
  <2> HIDE DEF p
  <2>2. p \div 29761 \in Nat /\ p \div 29761 < Unit
    BY <1>4, <2>1
  <2> QED BY <2>2 DEF p, DesignRate
<1> HIDE DEF rest
<1>7. q < n => q * Unit + Unit <= n * Unit
  BY <1>2, UnitIs
<1>8. q = n => rest = 0
  <2>1. r = 0 => (r * Unit) \div DesignRate = 0
    <3>1. r = 0 => r * Unit = 0
      BY <1>4
    <3> QED BY <3>1 DEF DesignRate
  <2> QED BY <1>3, <2>1 DEF rest
<1>9. Exact(k, fs) = q * Unit + rest
  BY DEF Exact, q, r, rest, x
<1> QED BY <1>2, <1>3, <1>4, <1>6, <1>7, <1>8, <1>9

\* With two samples to spare in the line, the product is a delay of the line,
\* whichever way it is rounded.
LEMMA ScaledIs ==
  ASSUME NEW size, Buffer(size), NEW k \in Nat, NEW fs \in Nat, size - 3 \in Nat,
         k * fs <= DesignRate * (size - 3), NEW d \in Scaled(k, fs)
  PROVE  DelayOf(size, d)
<1> DEFINE x == Exact(k, fs)
<1>1. x \in Nat /\ x <= (size - 3) * Unit
  BY ExactIs
<1> HIDE DEF x
<1>2. size \in Nat /\ Unit \in Nat \ {0} /\ (size - 3) * Unit \in Int /\ size * Unit \in Int
  BY UnitIs DEF Buffer
<1>3. (size - 3) * Unit = size * Unit - 3 * Unit /\ (size - 1) * Unit = size * Unit - Unit
  BY <1>2, UnitIs
<1>4. Step(x) \in Nat /\ Step(x) <= Unit
  <2>1. Magnitude(x) <= size * Unit
    BY <1>1, <1>2, <1>3 DEF Magnitude
  <2>2. Step(x) \in Nat \ {0} /\ \E j \in Nat \ {0} : Unit = j * Step(x)
    BY <1>1, <2>1, GridOfLine
  <2>3. PICK j \in Nat \ {0} : Unit = j * Step(x)
    BY <2>2
  <2> DEFINE s == Step(x)
  <2> HIDE DEF s
  <2>4. s \in Nat \ {0} /\ j * s >= s
    <3>1. s \in Nat \ {0}
      BY <2>2 DEF s
    <3> QED BY <3>1
  <2> QED BY <2>3, <2>4 DEF s
<1>5. PICK y \in (x - Step(x) .. x + Step(x) + 1) \cap Nat : d = Round(y)
  BY DEF Scaled, x
<1>6. y \in Nat /\ y <= (size - 1) * Unit
  BY <1>1, <1>2, <1>3, <1>4, <1>5
<1>7. size - 1 \in Nat /\ size - 1 < size
  BY <1>2
<1> QED BY <1>5, <1>6, <1>7, RoundedDelay

\* Every tap at a rate that fits is a delay of its line.
LEMMA TapsAreDelays ==
  ASSUME NEW fs \in RatesThatFit, NEW t \in Taps[fs]
  PROVE  t.line \in Line /\ DelayOf(size_[t.line], t.delay)
<1>1. fs \in Nat /\ fs \in SampleRates /\ RateFits(fs)
  BY RateAssumption DEF RatesThatFit
<1>2. t \in FullTaps \cup PredelayTaps \cup ModulatedTaps \cup OutputTaps(fs)
  BY <1>1 DEF Taps
<1>3. CASE t \in FullTaps
  <2>1. PICK l \in Line : t = Read(l, (size_[l] - 1) * Unit)
    BY <1>3 DEF FullTaps
  <2>2. size_[l] - 1 \in Nat /\ size_[l] - 1 < size_[l] /\ Buffer(size_[l])
    BY SizesPositive
  <2> QED BY <2>1, <2>2, WholeDelay DEF Read
<1>4. CASE t \in PredelayTaps
  <2>1. PICK d \in PredelayTimes : t = Read("predelay", d)
    BY <1>4 DEF PredelayTaps
  <2>2. "predelay" \in Line /\ size_["predelay"] = 20001
    BY DEF Line, size_
  <2> QED BY <2>1, <2>2, SettingAssumption DEF Read, DelayOf
<1>5. CASE t \in ModulatedTaps
  <2>1. PICK m \in Modulations :
          \/ t = Read("diffusion1Left", Round((Diffusion1BaseDelayLeft - 1) * Unit + m))
          \/ t = Read("diffusion1Right", Round((Diffusion1BaseDelayRight - 1) * Unit + m))
    BY <1>5 DEF ModulatedTaps
  <2>2. /\ "diffusion1Left" \in Line /\ size_["diffusion1Left"] = 1123
        /\ "diffusion1Right" \in Line /\ size_["diffusion1Right"] = 1473
    BY DEF Line, size_, Diffusion1BaseDelayLeft, Diffusion1BaseDelayRight
  <2>3. m \in Int /\ -(128 * Unit) <= m /\ m <= 128 * Unit /\ Unit \in Nat \ {0}
    <3>1. m \in -128 * Unit .. 128 * Unit /\ Unit \in Nat \ {0}
      BY SettingAssumption, UnitIs
    <3> QED BY <3>1
  <2>4. 994 * Unit + m \in Nat /\ 994 * Unit + m <= 1122 * Unit
    BY <2>3
  <2>5. 1344 * Unit + m \in Nat /\ 1344 * Unit + m <= 1472 * Unit
    BY <2>3
  <2>6. Buffer(1123) /\ Buffer(1473)
    BY <2>2, SizesPositive
  <2>7. DelayOf(1123, Round(994 * Unit + m)) /\ DelayOf(1473, Round(1344 * Unit + m))
    BY <2>4, <2>5, <2>6, RoundedDelay
  <2>8. Diffusion1BaseDelayLeft - 1 = 994 /\ Diffusion1BaseDelayRight - 1 = 1344
    BY DEF Diffusion1BaseDelayLeft, Diffusion1BaseDelayRight
  <2> QED BY <2>1, <2>2, <2>7, <2>8 DEF Read
<1>6. CASE t \in OutputTaps(fs)
  <2>0. PICK o \in DelayTaps \cup AllpassTaps :
          \E d \in Scaled(o[2], fs) : t = Read(o[1], d) \/ t = Read(o[1], Whole(d) * Unit)
    <3>1. PICK S \in {{Read(o[1], d) : d \in Scaled(o[2], fs)} : o \in DelayTaps}
                    \cup {{Read(o[1], Whole(d) * Unit) : d \in Scaled(o[2], fs)} : o \in AllpassTaps} :
                 t \in S
      BY <1>6 DEF OutputTaps
    <3>2. \/ \E o \in DelayTaps : S = {Read(o[1], d) : d \in Scaled(o[2], fs)}
          \/ \E o \in AllpassTaps : S = {Read(o[1], Whole(d) * Unit) : d \in Scaled(o[2], fs)}
      BY <3>1
    <3> QED BY <3>1, <3>2
  <2>1. PICK d \in Scaled(o[2], fs) : t = Read(o[1], d) \/ t = Read(o[1], Whole(d) * Unit)
    BY <2>0
  <2>2. o[1] \in Line /\ o[2] \in Nat /\ size_[o[1]] - 3 \in Nat
    BY DEF DelayTaps, AllpassTaps, Line, size_
  <2>3. o[2] * fs <= DesignRate * (size_[o[1]] - 3)
    BY <1>1 DEF RateFits
  <2>4. Buffer(size_[o[1]]) /\ DelayOf(size_[o[1]], d)
    <3>1. Buffer(size_[o[1]])
      BY <2>2, SizesPositive
    <3> QED BY <1>1, <2>1, <2>2, <2>3, <3>1, ScaledIs
  <2>5. DelayOf(size_[o[1]], Whole(d) * Unit)
    <3>1. Whole(d) \in 0 .. size_[o[1]] - 1
      BY <2>4, DelayIs
    <3>2. Whole(d) \in Nat /\ Whole(d) < size_[o[1]]
      <4>1. size_[o[1]] \in Nat
        BY <2>2, SizesPositive
      <4> QED BY <3>1, <4>1
    <3> QED BY <2>4, <3>2, WholeDelay
  <2> QED BY <2>1, <2>2, <2>4, <2>5 DEF Read
<1> QED BY <1>2, <1>3, <1>4, <1>5, <1>6

-----------------------------------------------------------------------------
(* Places *)

\* Where a tap of delay d on a line of that size reads at the index w: at a
\* place of the age that the delay says, or just past the end.
TapRight(size, w, d, place) ==
  \/ /\ place \in 0 .. size - 1
     /\ ((w - place - 1) % size) + 1 \in Ages(size, d)
  \/ place = size /\ NearlyWhole(size, d) /\ w = Whole(d)

\* Counted around the line, the age is the distance from the index, in this
\* lap or the one before.
LEMMA AgeAround ==
  ASSUME NEW size \in Nat \ {0}, NEW w \in 0 .. size - 1, NEW place \in 0 .. size - 1
  PROVE  ((w - place - 1) % size) + 1
           = IF place < w THEN w - place ELSE w - place + size
<1>1. CASE place < w
  <2>1. w - place - 1 = 0 * size + (w - place - 1)
    OBVIOUS
  <2>2. w - place - 1 \in Int /\ 0 <= w - place - 1 /\ w - place - 1 < size
    BY <1>1
  <2>3. (w - place - 1) % size = w - place - 1
    BY <2>1, <2>2, DivUnique
  <2> QED BY <1>1, <2>3
<1>2. CASE ~(place < w)
  <2> DEFINE r == w - place - 1 + size
  <2>1. w - place - 1 = (-1) * size + r
    OBVIOUS
  <2>2. r \in Int /\ 0 <= r /\ r < size /\ w - place - 1 \in Int
    BY <1>2
  <2> HIDE DEF r
  <2>3. (w - place - 1) % size = r
    BY <2>1, <2>2, DivUnique
  <2> QED BY <1>2, <2>3 DEF r
<1> QED BY <1>1, <1>2

LEMMA TapIs ==
  ASSUME NEW size, Buffer(size), NEW w \in 0 .. size - 1, NEW d, DelayOf(size, d)
  PROVE  TapRight(size, w, d, Whole(Position(size, w, d)))
<1> DEFINE n == EndOf(size, w, d)
           W == Whole(d)
           R == Rest(d)
           i == Whole(Position(size, w, d))
           age == ((w - i - 1) % size) + 1
<1>1. /\ n \in Int /\ i \in Int
      /\ \/ i = n /\ (R = 0 \/ NearlyWhole(size, d))
         \/ i = n - 1 /\ R # 0
  BY PlaceIs
<1>2. \/ n = w - W /\ 0 <= W /\ W <= w /\ (R # 0 => W < w)
      \/ n = w - W + size /\ w <= W /\ W <= size - 1 /\ (W = w => R # 0)
         /\ (W = size - 1 => R = 0)
  BY EndIs
<1>3. W \in 0 .. size - 1 /\ R \in Int /\ size \in Nat \ {0}
  BY DelayIs, UnitIs DEF Buffer
<1>4. i \in 0 .. size - 1 => age = IF i < w THEN w - i ELSE w - i + size
  BY <1>3, AgeAround
<1>5. Ages(size, d) = LET whole == IF W = 0 THEN size ELSE W
                      IN  IF R = 0 THEN {whole}
                          ELSE IF NearlyWhole(size, d) THEN {whole, W + 1}
                          ELSE {W + 1}
  BY DEF Ages
<1> HIDE DEF n, W, R, i, age
<1>6. CASE i = n /\ (R = 0 \/ NearlyWhole(size, d))
  <2>1. \/ i \in 0 .. size - 1
        \/ i = size /\ w = W /\ R # 0
    BY <1>1, <1>2, <1>3, <1>6
  <2>2. ASSUME i \in 0 .. size - 1
        PROVE  age = IF W = 0 THEN size ELSE W
    BY <1>2, <1>3, <1>4, <1>6, <2>2
  <2>3. ASSUME i \in 0 .. size - 1
        PROVE  age \in Ages(size, d)
    BY <1>5, <1>6, <2>2, <2>3
  <2> QED BY <1>6, <2>1, <2>3 DEF TapRight, i, W, age
<1>7. CASE i = n - 1 /\ R # 0
  <2>1. i \in 0 .. size - 1 /\ age = W + 1
    <3>1. i \in 0 .. size - 1
      BY <1>1, <1>2, <1>3, <1>7
    <3> QED BY <1>2, <1>3, <1>4, <1>7, <3>1
  <2>2. age \in Ages(size, d)
    BY <1>5, <1>7, <2>1
  <2> QED BY <2>1, <2>2 DEF TapRight, i, age
<1> QED BY <1>1, <1>6, <1>7

LEMMA TapsRight ==
  ASSUME TypeOK, fs_ \in RatesThatFit, NEW t \in Taps[fs_]
  PROVE  TapRight(size_[t.line], index_[t.line], t.delay, PlaceOf(t))
<1>1. t.line \in Line /\ DelayOf(size_[t.line], t.delay)
  BY TapsAreDelays
<1>2. Buffer(size_[t.line]) /\ size_[t.line] \in Nat \ {0}
  BY <1>1, SizesPositive
<1>3. index_[t.line] \in 0 .. size_[t.line] - 1
  BY <1>1, <1>2 DEF TypeOK
<1> QED BY <1>1, <1>2, <1>3, TapIs DEF PlaceOf

\* At every rate that the lines fit, a tap leaves its line by one place at
\* most, and only for a delay that is just above a whole number, where the
\* index meets it: so it is for any predelay, any depth and phase of the
\* modulation, and in every format of float that counts the places.
THEOREM TapsAlwaysStrayOnlyByRounding == Spec => []TapsStrayOnlyByRounding
<1>1. TypeOK => TapsStrayOnlyByRounding
  BY TapsRight DEF TapsStrayOnlyByRounding, TapRight
<1> QED BY <1>1, TypeInvariant, PTL

\* The taps that stay in their lines hear what their delays say, up to the
\* rounding of a delay just above a whole number; a tap of no delay is a whole
\* line late.
THEOREM TapsAlwaysHonourDelays == Spec => []TapsHonourDelays
<1>1. TypeOK => TapsHonourDelays
  <2> SUFFICES ASSUME TypeOK, fs_ \in RatesThatFit, NEW t \in Taps[fs_],
                      PlaceOf(t) < size_[t.line]
               PROVE  ((index_[t.line] - PlaceOf(t) - 1) % size_[t.line]) + 1
                        \in Ages(size_[t.line], t.delay)
    BY DEF TapsHonourDelays
  <2>1. TapRight(size_[t.line], index_[t.line], t.delay, PlaceOf(t))
    BY TapsRight
  <2>2. size_[t.line] \in Nat
    BY TapsAreDelays, SizesPositive
  <2> QED BY <2>1, <2>2 DEF TapRight
<1> QED BY <1>1, TypeInvariant, PTL

\* 54114 Hz is the last rate that fits: 44100 and 48000 do, and 88200 and
\* 96000 do not.  The first tap to leave its line is the one at 3627.
THEOREM RatesThatFitAre == \A fs \in Nat : RateFits(fs) <=> fs <= 54114
<1> TAKE fs \in Nat
<1>1. /\ size_["delay1Left"] = 6598 /\ size_["delay1Right"] = 6248
      /\ size_["delay2Left"] = 5512 /\ size_["delay2Right"] = 4687
      /\ size_["diffusion2Left"] = 2667 /\ size_["diffusion2Right"] = 3935
  BY DEF size_
<1>2. ASSUME RateFits(fs) PROVE fs <= 54114
  <2>1. <<"delay1Left", 3627>> \in DelayTaps
    BY DEF DelayTaps
  <2>2. 3627 * fs <= DesignRate * (6598 - 3)
    BY <1>1, <1>2, <2>1 DEF RateFits
  <2> QED BY <2>2 DEF DesignRate
<1>3. ASSUME fs <= 54114 PROVE RateFits(fs)
  <2> SUFFICES ASSUME NEW o \in DelayTaps \cup AllpassTaps
               PROVE  o[2] * fs <= DesignRate * (size_[o[1]] - 3)
    BY DEF RateFits
  <2>1. CASE o \in DelayTaps
    BY <1>1, <1>3, <2>1 DEF DelayTaps, DesignRate
  <2>2. CASE o \in AllpassTaps
    BY <1>1, <1>3, <2>2 DEF AllpassTaps, DesignRate
  <2> QED BY <2>1, <2>2
<1> QED BY <1>2, <1>3
=============================================================================

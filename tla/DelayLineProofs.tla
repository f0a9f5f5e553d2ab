--------------------------- MODULE DelayLineProofs ---------------------------
(***************************************************************************)
(* Proofs about DelayLine, for every size of the buffer, every format of   *)
(* float that counts its samples and every delay: where a tap of some      *)
(* delay reads, and what is in the buffer there.                           *)
(***************************************************************************)
EXTENDS DelayLine, FloatFormatProofs

\* The buffer and its delays are of the kind that the lemmas are about.
LEMMA BufferOfLine ==
  Buffer(Size) /\ \A d \in AllDelays : DelayOf(Size, d)
<1>1. (Size - 1) * Unit \in Int
  BY UnitIs, LineAssumption
<1> QED BY <1>1, LineAssumption DEF Buffer, DelayOf, AllDelays

-----------------------------------------------------------------------------
(* Ages *)

\* The ages of what is in the buffer b when the index is w: what place w holds
\* is the sample itself or the oldest one.
Aged(b, w, n) ==
  \A k \in Place :
    n - b[k] = IF k < w THEN w - k
               ELSE IF k > w THEN w - k + Size
               ELSE IF line = "simple" THEN 0 ELSE Size

\* A tap of delay d at the index w finds the age that DelayHonoured says, or a
\* place past the end as StrayOnlyByRounding says, and for chorus a sample and
\* the one after it.
TapRight(t, w, d) ==
  /\ t.delay = d /\ t.index = w
  /\ ~Stray(t.place) =>
       t.age \in IF Rest(d) = 0 THEN {AgeOf(Whole(d))}
                 ELSE IF NearlyWhole(Size, d) THEN {AgeOf(Whole(d)), Whole(d) + 1}
                 ELSE {Whole(d) + 1}
  /\ Stray(t.place) => t.place = Size /\ NearlyWhole(Size, d) /\ w = Whole(d)
  /\ line = "chorus" /\ d >= Unit /\ ~Stray(t.place) =>
       /\ Magnitude(t.age * Unit - t.fraction - d) <= HalfStep(Size)
       /\ t.fraction # 0 => t.second = t.age - 1

\* A tap of a line whose cells have the ages their places say hears the age
\* that the delay says.
LEMMA TapIs ==
  ASSUME NEW w \in Place, NEW d \in AllDelays, NEW b, NEW u, NEW n,
         Aged(b, w, n)
  PROVE  TapRight(TapOf(w, d, b, u, n), w, d)
<1> DEFINE W == Whole(d)
           R == Rest(d)
           i == Whole(Position(Size, w, d))
           f == Rest(Position(Size, w, d))
           e == EndOf(Size, w, d)
           t == TapOf(w, d, b, u, n)
           Age(k) == IF Stray(k) THEN 0 ELSE n - b[k]
<1>1. /\ t.delay = d /\ t.index = w /\ t.place = i /\ t.fraction = f
      /\ t.age = Age(i) /\ t.second = Age(SecondPlace(i))
  BY DEF TapOf
<1>2. /\ e \in Int /\ i \in Int /\ f \in 0 .. Unit - 1 /\ HalfStep(Size) \in Nat
      /\ \/ i = e /\ f = 0 /\ (R = 0 \/ NearlyWhole(Size, d))
         \/ i = e - 1 /\ R # 0 /\ Magnitude(Unit - R - f) <= HalfStep(Size)
  BY BufferOfLine, PlaceIs DEF Place
<1>3. \/ e = w - W /\ 0 <= W /\ W <= w /\ (R # 0 => W < w)
      \/ e = w - W + Size /\ w <= W /\ W <= Size - 1 /\ (W = w => R # 0)
         /\ (W = Size - 1 => R = 0)
  BY BufferOfLine, EndIs DEF Place
<1>4. /\ W \in 0 .. Size - 1 /\ R \in 0 .. Unit - 1 /\ d = W * Unit + R
      /\ W * Unit \in Int /\ (W + 1) * Unit = W * Unit + Unit
      /\ Size \in Nat \ {0} /\ Unit \in Nat \ {0} /\ w \in Nat /\ w <= Size - 1
  BY BufferOfLine, DelayIs, UnitIs, LineAssumption DEF Place
<1>5. \A k \in Int : Stray(k) <=> k < 0 \/ k >= Size
  BY <1>4 DEF Stray, Place
<1> HIDE DEF W, R, i, f, e, t
<1>6. Stray(i) => i = Size /\ NearlyWhole(Size, d) /\ w = W
  BY <1>2, <1>3, <1>4, <1>5
<1>7. ASSUME ~Stray(i)
      PROVE  Age(i) = IF i < w THEN w - i
                      ELSE IF i > w THEN w - i + Size
                      ELSE IF line = "simple" THEN 0 ELSE Size
  <2>1. i \in Place
    BY <1>7 DEF Stray
  <2> QED BY <1>7, <2>1 DEF Aged
<1>8. ASSUME ~Stray(i)
      PROVE  \/ i = e /\ f = 0 /\ (R = 0 \/ NearlyWhole(Size, d)) /\ Age(i) = AgeOf(W)
             \/ i = e - 1 /\ R # 0 /\ Magnitude(Unit - R - f) <= HalfStep(Size) /\ Age(i) = W + 1
  BY <1>2, <1>3, <1>4, <1>5, <1>7, <1>8 DEF AgeOf
<1>9. NearlyWhole(Size, d) <=> R \in 1 .. HalfStep(Size)
  BY DEF NearlyWhole, R
<1>10. ASSUME line = "chorus", d >= Unit, ~Stray(i)
       PROVE  /\ Magnitude(Age(i) * Unit - f - d) <= HalfStep(Size)
              /\ f # 0 => Age(SecondPlace(i)) = Age(i) - 1
  <2>1. W > 0
    <3>1. CASE W = 0
      <4>1. W * Unit = 0
        BY <1>4, <3>1
      <4> QED BY <1>4, <1>10, <4>1
    <3> QED BY <1>4, <3>1
  <2>2. CASE i = e /\ f = 0 /\ (R = 0 \/ NearlyWhole(Size, d)) /\ Age(i) = AgeOf(W)
    <3>1. Age(i) = W
      BY <1>4, <2>1, <2>2 DEF AgeOf
    <3>2. Age(i) * Unit - f - d = -R
      BY <1>4, <2>2, <3>1
    <3>3. R <= HalfStep(Size)
      BY <1>2, <1>4, <1>9, <2>2
    <3> QED BY <1>2, <1>4, <2>2, <3>2, <3>3 DEF Magnitude
  <2>3. CASE i = e - 1 /\ R # 0 /\ Magnitude(Unit - R - f) <= HalfStep(Size) /\ Age(i) = W + 1
    <3>1. Age(i) * Unit - f - d = Unit - R - f
      <4>1. Age(i) * Unit = W * Unit + Unit
        BY <1>4, <2>3
      <4> QED BY <1>2, <1>4, <4>1
    <3>2. f # 0 => Age(SecondPlace(i)) = Age(i) - 1
      <4> DEFINE j == SecondPlace(i)
      <4>1. /\ j \in Int /\ 0 <= j /\ j < Size
            /\ (i + 1 < Size /\ j = i + 1) \/ (i = Size - 1 /\ j = 0)
        BY <1>2, <1>4, <1>5, <1>10 DEF SecondPlace
      <4> HIDE DEF j
      <4>2. j \in Place /\ ~Stray(j)
        BY <1>4, <1>5, <4>1 DEF Place
      <4>3. Age(j) = IF j < w THEN w - j
                     ELSE IF j > w THEN w - j + Size
                     ELSE IF line = "simple" THEN 0 ELSE Size
        BY <4>2 DEF Aged
      <4>4. j # w /\ (j = 0 => i = Size - 1)
        BY <1>2, <1>3, <1>4, <1>5, <1>10, <2>1, <2>3, <4>1
      <4>5. Age(j) = W
        BY <1>2, <1>3, <1>4, <1>5, <1>10, <2>1, <2>3, <4>1, <4>3, <4>4
      <4> QED BY <1>4, <2>3, <4>5 DEF j
    <3> QED BY <2>3, <3>1, <3>2
  <2> QED BY <1>8, <1>10, <2>2, <2>3
<1>11. ~Stray(i) => Age(i) \in IF R = 0 THEN {AgeOf(W)}
                              ELSE IF NearlyWhole(Size, d) THEN {AgeOf(W), W + 1}
                              ELSE {W + 1}
  BY <1>8
<1> QED BY <1>1, <1>6, <1>10, <1>11 DEF W, R, t, TapRight

-----------------------------------------------------------------------------
(* The invariant *)

\* Every place holds the newest of the samples that belong there.
Newest ==
  \A i \in Place : buffer[i] = now - index + i - (IF i < index THEN 0 ELSE Size)

LineInv ==
  /\ TypeOK
  /\ Newest
  /\ UnsetHasACause
  /\ DelayHonoured
  /\ StrayOnlyByRounding
  /\ InterpolatesAtDelay

\* What the other properties say of one tap.
LEMMA TapHolds ==
  ASSUME NEW w \in Place, NEW d \in Delays(line), NEW b, NEW u, NEW n,
         Aged(b, w, n), tap' = TapOf(w, d, b, u, n), line' = line
  PROVE  DelayHonoured' /\ StrayOnlyByRounding' /\ InterpolatesAtDelay'
<1> DEFINE t == TapOf(w, d, b, u, n)
<1>1. d \in AllDelays /\ (line = "chorus" => d >= Unit)
  BY DEF Delays
<1>2. TapRight(t, w, d)
  BY <1>1, TapIs
<1> HIDE DEF t
<1>3. tap' = t
  BY DEF t
<1>4. \A k : AgeOf(k)' = AgeOf(k)
  BY DEF AgeOf
<1>5. DelayHonoured'
  BY <1>2, <1>3, <1>4 DEF DelayHonoured, TapRight
<1>6. StrayOnlyByRounding'
  BY <1>2, <1>3 DEF StrayOnlyByRounding, TapRight
<1>7. InterpolatesAtDelay'
  BY <1>1, <1>2, <1>3 DEF InterpolatesAtDelay, TapRight
<1> QED BY <1>5, <1>6, <1>7

\* Before a write the place of the next sample holds the oldest one.
LEMMA AgedBefore ==
  ASSUME TypeOK, Newest, line # "simple"
  PROVE  index \in Place /\ Aged(buffer, index, now)
<1>1. /\ index \in Place /\ buffer \in [Place -> Int] /\ now \in Nat /\ Size \in Nat
  BY LineAssumption DEF TypeOK
<1> QED BY <1>1 DEF Newest, Aged, Place

\* SimpleDelay taps after the write, with the index brought back.
LEMMA AgedAfter ==
  ASSUME TypeOK, Newest, line = "simple",
         buffer' = [buffer EXCEPT ![Wrapped(index)] = now]
  PROVE  Wrapped(index) \in Place /\ Aged(buffer', Wrapped(index), now)
<1> DEFINE w == Wrapped(index)
<1>1. index \in 0 .. Size /\ buffer \in [Place -> Int] /\ now \in Nat /\ Size \in Nat \ {0}
  BY LineAssumption DEF TypeOK
<1>2. w \in Place /\ (index < Size => w = index) /\ (index = Size => w = 0)
  BY <1>1 DEF Wrapped, Place
<1>3. buffer' = [buffer EXCEPT ![w] = now]
  OBVIOUS
<1> HIDE DEF w
<1>4. ASSUME NEW k \in Place
      PROVE  now - buffer'[k] = IF k < w THEN w - k
                                ELSE IF k > w THEN w - k + Size ELSE 0
  <2>1. buffer'[k] = IF k = w THEN now ELSE buffer[k]
    BY <1>1, <1>3
  <2>2. buffer[k] = now - index + k - (IF k < index THEN 0 ELSE Size)
    BY DEF Newest
  <2> QED BY <1>1, <1>2, <2>1, <2>2 DEF Place
<1> QED BY <1>2, <1>4 DEF Aged, w

\* The write of a sample.
LEMMA NewestAfter ==
  ASSUME TypeOK, Newest, NEW fedBack, Put(Wrapped(index), fedBack),
         \/ line # "simple" /\ index' = Wrapped(index + 1)
         \/ line = "simple" /\ index' = Wrapped(index) + 1,
         line' = line
  PROVE  /\ Newest' /\ now' \in 0 .. MaxSamples
         /\ buffer' \in [Place -> -Size .. MaxSamples]
         /\ index' \in (IF line = "simple" THEN 0 .. Size ELSE Place)
         /\ unset' \subseteq Place
<1> DEFINE w == Wrapped(index)
<1>1. /\ index \in 0 .. Size /\ (line # "simple" => index < Size)
      /\ buffer \in [Place -> -Size .. MaxSamples] /\ now \in Nat /\ now <= MaxSamples
      /\ Size \in Nat \ {0} /\ MaxSamples \in Nat /\ unset \subseteq Place
  <2>1. Size \in Nat \ {0} /\ MaxSamples \in Nat
    BY LineAssumption
  <2>2. index \in 0 .. Size /\ (line # "simple" => index < Size)
    BY <2>1 DEF TypeOK, Place
  <2> QED BY <2>1, <2>2 DEF TypeOK
<1>2. w \in Place /\ (index < Size => w = index) /\ (index = Size => w = 0)
  BY <1>1 DEF Wrapped, Place
<1>3. /\ buffer' = [buffer EXCEPT ![w] = now] /\ now' = now + 1 /\ now < MaxSamples
      /\ unset' \subseteq unset \cup {w}
  BY DEF Put
<1>4. /\ line = "simple" => index' = w + 1
      /\ line # "simple" => w = index /\ index' = IF w + 1 = Size THEN 0 ELSE w + 1
  BY <1>1, <1>2 DEF Wrapped
<1> HIDE DEF w
<1>5. now' \in 0 .. MaxSamples /\ now \in -Size .. MaxSamples
  BY <1>1, <1>3
<1>6. buffer' \in [Place -> -Size .. MaxSamples] /\ unset' \subseteq Place
  BY <1>1, <1>2, <1>3, <1>5
<1>7. index' \in (IF line = "simple" THEN 0 .. Size ELSE Place)
  BY <1>1, <1>2, <1>4 DEF Place
<1>8. ASSUME NEW k \in Place
      PROVE  buffer'[k] = now' - index' + k - (IF k < index' THEN 0 ELSE Size)
  <2>1. buffer'[k] = IF k = w THEN now ELSE buffer[k]
    BY <1>1, <1>3
  <2>2. buffer[k] = now - index + k - (IF k < index THEN 0 ELSE Size)
    BY DEF Newest
  <2>3. k \in 0 .. Size - 1 /\ w \in 0 .. Size - 1 /\ buffer[k] \in Int
    BY <1>1, <1>2 DEF Place
  <2> DEFINE old == buffer[k]
             new == buffer'[k]
             later == index'
  <2>4. new = (IF k = w THEN now ELSE old) /\ old = now - index + k - (IF k < index THEN 0 ELSE Size)
    BY <2>1, <2>2
  <2> HIDE DEF old, new, later
  <2>5. CASE line = "simple"
    <3>1. later = w + 1
      BY <1>4, <2>5 DEF later
    <3>2. new = (now + 1) - later + k - (IF k < later THEN 0 ELSE Size)
      BY <1>1, <1>2, <2>3, <2>4, <3>1
    <3> QED BY <1>3, <3>2 DEF new, later
  <2>6. CASE line # "simple"
    <3>1. w = index /\ later = IF w + 1 = Size THEN 0 ELSE w + 1
      BY <1>4, <2>6 DEF later
    <3>2. new = (now + 1) - later + k - (IF k < later THEN 0 ELSE Size)
      BY <1>1, <2>3, <2>4, <3>1
    <3> QED BY <1>3, <3>2 DEF new, later
  <2> QED BY <2>5, <2>6
<1> QED BY <1>5, <1>6, <1>7, <1>8 DEF Newest

\* Delays that a line is given.
LEMMA TapType ==
  ASSUME NEW w \in Place, NEW d \in Delays(line), NEW b, NEW u, NEW n, NEW t,
         t = TapOf(w, d, b, u, n)
  PROVE  /\ t.delay \in Delays(line)
         /\ t.unset => Stray(t.place) \/ u # {}
BY DEF TapOf


\* A line just made: places hold the numbers of the samples before the first.
LEMMA Emptied ==
  ASSUME NEW b, b = [i \in Place |-> i - Size]
  PROVE  /\ b \in [Place -> -Size .. MaxSamples]
         /\ \A i \in Place : b[i] = 0 - 0 + i - (IF i < 0 THEN 0 ELSE Size)
         /\ 0 \in Place /\ 0 \in 0 .. Size /\ 0 \in 0 .. MaxSamples
<1>1. Size \in Nat \ {0} /\ MaxSamples \in Nat
  BY LineAssumption
<1>2. \A i \in Place : i \in Int /\ 0 <= i /\ i <= Size - 1
  BY <1>1 DEF Place
<1>3. 0 \in Place
  BY <1>1 DEF Place
<1>4. \A i \in Place : i - Size \in -Size .. MaxSamples
  BY <1>1, <1>2
<1>5. \A i \in Place : b[i] = 0 - 0 + i - (IF i < 0 THEN 0 ELSE Size)
  BY <1>1, <1>2
<1> QED BY <1>1, <1>3, <1>4, <1>5

(***************************************************************************)
(* The invariant: whatever delays the taps of a line have, and however     *)
(* often it is made again, its places hold the newest samples, and what    *)
(* the last tap found is what the properties say.                          *)
(***************************************************************************)
THEOREM LineInvariant == Spec => []LineInv
<1>1. Init => LineInv
  <2> SUFFICES ASSUME Init PROVE LineInv
    OBVIOUS
  <2>1. /\ line \in Lines /\ buffer = [i \in Place |-> i - Size] /\ index = 0 /\ now = 0
        /\ unset = (IF line = "simple" THEN Place ELSE {})
        /\ tap = NoTap /\ strayed = FALSE
    BY DEF Init, UnsetWhenMade
  <2>2. /\ buffer \in [Place -> -Size .. MaxSamples]
        /\ \A i \in Place : buffer[i] = 0 - 0 + i - (IF i < 0 THEN 0 ELSE Size)
        /\ 0 \in Place /\ 0 \in 0 .. Size /\ 0 \in 0 .. MaxSamples
    BY <2>1, Emptied
  <2>3. TypeOK /\ Newest
    BY <2>1, <2>2 DEF TypeOK, Newest
  <2> QED
    BY <2>1, <2>3
    DEF LineInv, UnsetHasACause, DelayHonoured, StrayOnlyByRounding, InterpolatesAtDelay
<1>2. LineInv /\ [Next]_vars => LineInv'
  <2> SUFFICES ASSUME LineInv, [Next]_vars PROVE LineInv'
    OBVIOUS
  <2> USE DEF LineInv
  <2>1. CASE Remake
    <3>1. /\ line' \in Lines /\ buffer' = [i \in Place |-> i - Size] /\ index' = 0 /\ now' = 0
          /\ unset' = (IF line' = "simple" THEN Place ELSE {})
          /\ tap' = NoTap /\ strayed' = FALSE
      BY <2>1 DEF Remake, UnsetWhenMade
    <3>2. /\ buffer' \in [Place -> -Size .. MaxSamples]
          /\ \A i \in Place : buffer'[i] = 0 - 0 + i - (IF i < 0 THEN 0 ELSE Size)
          /\ 0 \in Place /\ 0 \in 0 .. Size /\ 0 \in 0 .. MaxSamples
      BY <3>1, Emptied
    <3>3. TypeOK' /\ Newest'
      BY <3>1, <3>2 DEF TypeOK, Newest
    <3> QED
      BY <3>1, <3>3
      DEF UnsetHasACause, DelayHonoured, StrayOnlyByRounding, InterpolatesAtDelay
  <2>2. ASSUME NEW d \in Delays(line), Filter(d)
        PROVE  LineInv'
    <3> DEFINE t == TapOf(index, d, buffer, unset, now)
    <3>1. /\ line = "filter" /\ line' = line /\ tap' = t
          /\ strayed' = (strayed \/ Stray(t.place))
          /\ Put(index, t.unset) /\ index' = Wrapped(index + 1)
      BY <2>2 DEF Filter, Tapped
    <3>2. index \in Place /\ Aged(buffer, index, now) /\ Wrapped(index) = index
      BY <3>1, AgedBefore, LineAssumption DEF Wrapped, Place
    <3>3. DelayHonoured' /\ StrayOnlyByRounding' /\ InterpolatesAtDelay'
      BY <3>1, <3>2, TapHolds
    <3>4. t.delay \in Delays(line) /\ (t.unset => Stray(t.place) \/ unset # {})
      BY <3>2, TapType
    <3> HIDE DEF t
    <3>5. /\ Newest' /\ now' \in 0 .. MaxSamples /\ unset' \subseteq Place
          /\ buffer' \in [Place -> -Size .. MaxSamples]
          /\ index' \in (IF line = "simple" THEN 0 .. Size ELSE Place)
      BY <3>1, <3>2, NewestAfter
    <3>6. TypeOK'
      BY <3>1, <3>4, <3>5 DEF TypeOK, Delays
    <3>7. UnsetHasACause'
      BY <3>1, <3>4 DEF UnsetHasACause, Put
    <3> QED BY <3>3, <3>5, <3>6, <3>7
  <2>3. CASE Write
    <3>1. /\ line # "simple" /\ line' = line /\ UNCHANGED <<tap, strayed>>
          /\ Put(index, FALSE) /\ index' = Wrapped(index + 1)
      BY <2>3 DEF Write
    <3>2. index \in Place /\ Wrapped(index) = index
      BY <3>1, AgedBefore, LineAssumption DEF Wrapped, Place
    <3>3. DelayHonoured' /\ StrayOnlyByRounding' /\ InterpolatesAtDelay'
      BY <3>1 DEF DelayHonoured, StrayOnlyByRounding, InterpolatesAtDelay, AgeOf
    <3>4. /\ Newest' /\ now' \in 0 .. MaxSamples /\ unset' \subseteq Place
          /\ buffer' \in [Place -> -Size .. MaxSamples]
          /\ index' \in (IF line = "simple" THEN 0 .. Size ELSE Place)
      BY <3>1, <3>2, NewestAfter
    <3>5. TypeOK'
      BY <3>1, <3>4 DEF TypeOK, Delays
    <3>6. UnsetHasACause'
      BY <3>1 DEF UnsetHasACause, Put
    <3> QED BY <3>3, <3>4, <3>5, <3>6
  <2>4. ASSUME NEW d \in Delays(line), Read(d)
        PROVE  LineInv'
    <3> DEFINE t == TapOf(index, d, buffer, unset, now)
    <3>1. /\ line # "simple" /\ tap' = t /\ strayed' = (strayed \/ Stray(t.place))
          /\ UNCHANGED <<line, buffer, unset, index, now>>
      BY <2>4 DEF Read, Tapped
    <3>2. index \in Place /\ Aged(buffer, index, now)
      BY <3>1, AgedBefore
    <3>3. DelayHonoured' /\ StrayOnlyByRounding' /\ InterpolatesAtDelay'
      BY <3>1, <3>2, TapHolds
    <3>4. t.delay \in Delays(line) /\ (t.unset => Stray(t.place) \/ unset # {})
      BY <3>2, TapType
    <3> HIDE DEF t
    <3>5. TypeOK'
      BY <3>1, <3>4 DEF TypeOK, Delays
    <3>6. Newest'
      BY <3>1 DEF Newest
    <3>7. UnsetHasACause'
      BY <3>1, <3>4 DEF UnsetHasACause
    <3> QED BY <3>3, <3>5, <3>6, <3>7
  <2>5. ASSUME NEW d \in Delays(line), Process(d)
        PROVE  LineInv'
    <3> DEFINE w == Wrapped(index)
               t == TapOf(w, d, buffer', unset', now)
               before == TapOf(w, d, buffer, unset, now)
    <3>1. /\ line = "simple" /\ line' = line /\ tap' = t
          /\ strayed' = (strayed \/ Stray(t.place))
          /\ Put(w, before.unset) /\ index' = w + 1
      BY <2>5 DEF Process, Tapped
    <3>2. w \in Place /\ Aged(buffer', w, now)
      BY <3>1, AgedAfter DEF Put
    <3>3. DelayHonoured' /\ StrayOnlyByRounding' /\ InterpolatesAtDelay'
      BY <3>1, <3>2, TapHolds
    <3>4. t.delay \in Delays(line)
      BY <3>2, TapType
    <3> HIDE DEF t, before
    <3>5. /\ Newest' /\ now' \in 0 .. MaxSamples /\ unset' \subseteq Place
          /\ buffer' \in [Place -> -Size .. MaxSamples]
          /\ index' \in (IF line = "simple" THEN 0 .. Size ELSE Place)
      BY <3>1, NewestAfter
    <3>6. TypeOK'
      BY <3>1, <3>4, <3>5 DEF TypeOK, Delays
    <3>7. UnsetHasACause'
      BY <3>1 DEF UnsetHasACause
    <3> QED BY <3>3, <3>5, <3>6, <3>7
  <2>6. CASE UNCHANGED vars
    BY <2>6 DEF vars, TypeOK, Newest, UnsetHasACause, DelayHonoured, StrayOnlyByRounding,
                InterpolatesAtDelay, AgeOf, Delays
  <2> QED BY <2>1, <2>2, <2>3, <2>4, <2>5, <2>6 DEF Next
<1> QED BY <1>1, <1>2, PTL DEF Spec

\* The variables keep their ranges, and every write is in the buffer.
THEOREM TypeInvariant == Spec => []TypeOK
<1>1. LineInv => TypeOK
  BY DEF LineInv
<1> QED BY <1>1, LineInvariant, PTL

\* A delay of d samples hears the sample written ceil(d) samples ago, on every
\* kind of line, at every place of the index, through its wrap, and in every
\* format of float that counts the samples of the buffer.
THEOREM DelayAlwaysHonoured == Spec => []DelayHonoured
<1>1. LineInv => DelayHonoured
  BY DEF LineInv
<1> QED BY <1>1, LineInvariant, PTL

\* A tap leaves the buffer by one place at most, and only for a delay that is
\* whole but for half a step of the floats.
THEOREM StraysOnlyByRounding == Spec => []StrayOnlyByRounding
<1>1. LineInv => StrayOnlyByRounding
  BY DEF LineInv
<1> QED BY <1>1, LineInvariant, PTL

\* The neighbours that chorus mixes are consecutive, and as old as the delay.
THEOREM AlwaysInterpolatesAtDelay == Spec => []InterpolatesAtDelay
<1>1. LineInv => InterpolatesAtDelay
  BY DEF LineInv
<1> QED BY <1>1, LineInvariant, PTL

\* What nobody has set is heard only in SimpleDelay, or after a stray tap.
THEOREM UnsetAlwaysHasACause == Spec => []UnsetHasACause
<1>1. LineInv => UnsetHasACause
  BY DEF LineInv
<1> QED BY <1>1, LineInvariant, PTL
=============================================================================

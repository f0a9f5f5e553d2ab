----------------------------- MODULE DelayLine -----------------------------
(***************************************************************************)
(* The delay lines of the effects: a circular buffer of samples, the place *)
(* `index` of the next sample, and a tap that is some delay, a float,      *)
(* behind it.  Four lines of the sources differ in the order of their      *)
(* steps and in how the buffer is made:                                    *)
(*                                                                         *)
(*   "filter"  Allpass and FbComb of reverb1.cc, Allpass of reverb2.cc:    *)
(*             tap, then write what was tapped and the input;              *)
(*   "delay"   Delay of reverb2.cc: write and read are separate;           *)
(*   "chorus"  DelayLine of chorus.cc: the same, and a read interpolates   *)
(*             between two places;                                         *)
(*   "simple"  SimpleDelay: tap, write, tap again, and the index wraps     *)
(*             before it is used instead of after.                         *)
(*                                                                         *)
(* A sample is its number: a cell holds the number of the write that set   *)
(* it, and cells that no write has set hold the negative numbers that      *)
(* earlier writes would have had.  Delays count in 1/Unit of a sample.     *)
(***************************************************************************)
EXTENDS FloatFormat

CONSTANTS
  Size,        \* places of the buffer
  MaxSamples   \* bound: samples in the life of a line

ASSUME LineAssumption == Size \in Nat \ {0} /\ MaxSamples \in Nat /\ Fits(Size)

Lines == {"filter", "delay", "chorus", "simple"}

\* Any length up to Size - 1 samples; the sources keep below it with
\* parameters in 0 .. 1.  The chorus taps 180 samples back at least.
AllDelays == {d \in 0 .. (Size - 1) * Unit : IsFloat(d)}
Delays(kind) ==
  IF kind = "chorus" THEN {d \in AllDelays : d >= Unit} ELSE AllDelays

Place == 0 .. Size - 1
NoTap == [delay |-> -1, place |-> 0, unset |-> FALSE]

VARIABLES
  line,    \* which of the four
  buffer,  \* place -> number of the sample in it
  unset,   \* places whose content comes from memory nobody has set
  index,   \* m_index, index_, m_w
  now,     \* number of the next sample
  tap,     \* what the last read found
  strayed  \* history: a tap has gone past the end of the buffer

vars == <<line, buffer, unset, index, now, tap, strayed>>

-----------------------------------------------------------------------------
(* Taps *)

\* The place after i, for the interpolation.
SecondNotWrapped(i) == i + 1                  \* mutant
SecondPlace(i) == IF i + 1 >= Size THEN 0 ELSE i + 1

\* A read past the end finds whatever is there.
Stray(i) == i \notin Place

\* What a read of delay d finds, when the index is w, in a buffer b with the
\* unset places u and for the sample numbered n: ages are 1 for the sample
\* before n.  The conversion to a place drops the fraction.
TapOf(w, d, b, u, n) ==
  LET i == Whole(Position(Size, w, d))
      j == SecondPlace(i)
      Age(k) == IF Stray(k) THEN 0 ELSE n - b[k]
  IN  [delay |-> d, index |-> w, place |-> i, age |-> Age(i),
       fraction |-> Rest(Position(Size, w, d)), second |-> Age(j),
       unset |-> Stray(i) \/ i \in u \/ (line = "chorus" /\ j \in u)]

-----------------------------------------------------------------------------
(* Making a line *)

\* resize clears; reserve leaves a vector of size 0, std::fill of which
\* clears nothing, over memory that nobody has set.
ChorusReserved(kind) == IF kind \in {"simple", "chorus"} THEN Place ELSE {}
                                              \* mutant: reserve for resize
UnsetWhenMade(kind) == IF kind = "simple" THEN Place ELSE {}

Init ==
  /\ line \in Lines
  /\ buffer = [i \in Place |-> i - Size]
  /\ unset = UnsetWhenMade(line)
  /\ index = 0
  /\ now = 0
  /\ tap = NoTap
  /\ strayed = FALSE

\* The controller closes the effect and makes a new one, of any kind.
Remake ==
  /\ line' \in Lines
  /\ buffer' = [i \in Place |-> i - Size]
  /\ unset' = UnsetWhenMade(line')
  /\ index' = 0
  /\ now' = 0
  /\ tap' = NoTap
  /\ strayed' = FALSE

-----------------------------------------------------------------------------
(* Samples *)

WrapLate(i) == IF i > Size THEN 0 ELSE i      \* mutant: > for >=
Wrapped(i) == IF i >= Size THEN 0 ELSE i

\* The next sample goes to place i.  What is fed back into an unset or a
\* stray place is no better than it was.
Put(i, fedBack) ==
  /\ now < MaxSamples
  /\ buffer' = [buffer EXCEPT ![i] = now]
  /\ unset' = IF fedBack THEN unset \cup {i} ELSE unset \ {i}
  /\ now' = now + 1

Tapped(t) ==
  /\ tap' = t
  /\ strayed' = (strayed \/ Stray(t.place))

\* Allpass::filter, FbComb::filter, Allpass::process.
Filter(d) ==
  LET t == TapOf(index, d, buffer, unset, now)
  IN  /\ line = "filter"
      /\ Tapped(t)
      /\ Put(index, t.unset)
      /\ index' = Wrapped(index + 1)
      /\ UNCHANGED line

\* Delay::write, DelayLine::write.
Write ==
  /\ line \in {"delay", "chorus"}
  /\ Put(index, FALSE)
  /\ index' = Wrapped(index + 1)
  /\ UNCHANGED <<line, tap, strayed>>

\* Delay::read, DelayLine::read.
Read(d) ==
  /\ line \in {"delay", "chorus"}
  /\ Tapped(TapOf(index, d, buffer, unset, now))
  /\ UNCHANGED <<line, buffer, unset, index, now>>

\* SimpleDelay::process, one sample.  The index wraps before it is used, and
\* what is heard is tapped after the write, at the place that was tapped
\* before it for the feedback.
Process(d) ==
  LET w == Wrapped(index)
  IN  /\ line = "simple"
      /\ Put(w, TapOf(w, d, buffer, unset, now).unset)
      /\ Tapped(TapOf(w, d, buffer', unset', now))
      /\ index' = w + 1
      /\ UNCHANGED line

Next ==
  \/ Remake \/ Write
  \/ \E d \in Delays(line) : Filter(d) \/ Read(d) \/ Process(d)

Spec == Init /\ [][Next]_vars

-----------------------------------------------------------------------------
(* Properties *)

\* No delay: SimpleDelay hears the sample itself, the other lines the oldest
\* one, which the next write replaces.
AgeOf(k) == IF k > 0 THEN k ELSE IF line = "simple" THEN 0 ELSE Size

\* The variables keep their ranges: above all, every write is in the buffer.
TypeOK ==
  /\ line \in Lines
  /\ buffer \in [Place -> -Size .. MaxSamples]
  /\ unset \subseteq Place
  /\ index \in (IF line = "simple" THEN 0 .. Size ELSE Place)
  /\ now \in 0 .. MaxSamples
  /\ tap = NoTap \/ tap.delay \in Delays(line)
  /\ strayed \in BOOLEAN

\* A delay of d samples hears the sample written ceil(d) samples ago, at any
\* place of the index and through its wrap; a delay just above a whole number
\* may be rounded to it.  No delay is the longest but in SimpleDelay: this is
\* what Reverb1 does to its left side while Size is 0 (reverb1.cc:94).
DelayHonoured ==
  tap # NoTap /\ ~Stray(tap.place) =>
    tap.age \in
      IF Rest(tap.delay) = 0 THEN {AgeOf(Whole(tap.delay))}
      ELSE IF NearlyWhole(Size, tap.delay)
        THEN {AgeOf(Whole(tap.delay)), Whole(tap.delay) + 1}
        ELSE {Whole(tap.delay) + 1}

\* A tap can leave the buffer, by one place: `m < 0` is made `m += size`,
\* which is rounded to size when m is close to 0.  That takes a delay that is
\* whole but for half a float step, and the one index that it meets there.
StrayOnlyByRounding ==
  tap # NoTap /\ Stray(tap.place) =>
    /\ tap.place = Size
    /\ NearlyWhole(Size, tap.delay)
    /\ tap.index = Whole(tap.delay)

\* The two neighbours that chorus mixes are one sample apart, and their mix is
\* as old as the delay, but for the rounding.
InterpolatesAtDelay ==
  line = "chorus" /\ tap # NoTap /\ ~Stray(tap.place) =>
    /\ Magnitude(tap.age * Unit - tap.fraction - tap.delay) <= HalfStep(Size)
    /\ tap.fraction # 0 => tap.second = tap.age - 1

\* What nobody has set is heard, or fed back into the line, only in
\* SimpleDelay, whose lines are reserved and not resized, or after a tap has
\* left the buffer; feedback then keeps it.
UnsetHasACause ==
  unset # {} \/ (tap # NoTap /\ tap.unset) => line = "simple" \/ strayed

=============================================================================

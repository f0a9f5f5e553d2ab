------------------------------ MODULE Reverb2 ------------------------------
(***************************************************************************)
(* The plate reverb: lines of fixed sizes, each with its own index, and    *)
(* the taps on them.  Fourteen taps of the output are placed by a design   *)
(* made for 29761 Hz and scale with the sample rate; the lines do not.     *)
(* Delays are floats, in 1/Unit of a sample, and so are the positions that *)
(* they lead to.                                                           *)
(***************************************************************************)
EXTENDS FloatFormat

CONSTANTS
  SampleRates,    \* rates that the JACK server may run at
  PredelayTimes,  \* of 20000 * param.value, for parameters in 0 .. 1
  Modulations,    \* of sin(...) * 128.0 * modDepth_, for parameters in 0 .. 1
  MaxSamples      \* bound: samples in the life of a reverb

DesignRate == 29761

Diffusion1BaseDelayLeft == 995
Diffusion1BaseDelayRight == 1345

size_ ==
  [predelay |-> 20001,
   input1 |-> 210, input2 |-> 148, input3 |-> 561, input4 |-> 410,
   diffusion1Left |-> Diffusion1BaseDelayLeft + 128,
   diffusion2Left |-> 2667, delay1Left |-> 6598, delay2Left |-> 5512,
   diffusion1Right |-> Diffusion1BaseDelayRight + 128,
   diffusion2Right |-> 3935, delay1Right |-> 6248, delay2Right |-> 4687]

Line == DOMAIN size_

ASSUME RateAssumption ==
  SampleRates \subseteq Nat \ {0} /\ SampleRates # {} /\ MaxSamples \in Nat

ASSUME FormatAssumption == \A l \in Line : Fits(size_[l])

ASSUME SettingAssumption ==
  /\ \A d \in PredelayTimes : d \in 0 .. 20000 * Unit /\ IsFloat(d)
  /\ \A m \in Modulations : m \in -128 * Unit .. 128 * Unit

VARIABLES
  fs_,     \* sample rate when the reverb was made
  index_,  \* place of the next sample, of every line
  samples  \* bound: samples processed

vars == <<fs_, index_, samples>>

-----------------------------------------------------------------------------
(* Taps: a line and a delay *)

Read(l, d) == [line |-> l, delay |-> d]

\* size() - 1: the input diffusers, the decay diffusers and the loop.
FullTaps ==
  {Read(l, (size_[l] - 1) * Unit) :
     l \in Line \ {"predelay", "diffusion1Left", "diffusion1Right"}}

PredelayTaps == {Read("predelay", d) : d \in PredelayTimes}

\* A double, converted to the float that Allpass::process takes.
ModulatedTaps ==
  UNION {{Read("diffusion1Left", Round((Diffusion1BaseDelayLeft - 1) * Unit + m)),
          Read("diffusion1Right", Round((Diffusion1BaseDelayRight - 1) * Unit + m))}
          : m \in Modulations}

\* k * ratio, where ratio = fs_ / 29761.0, both rounded: one of the floats
\* around the exact product.
Exact(k, fs) ==
  ((k * fs) \div DesignRate) * Unit + (((k * fs) % DesignRate) * Unit) \div DesignRate
Scaled(k, fs) ==
  LET x == Exact(k, fs)
  IN  {Round(y) : y \in (x - Step(x) .. x + Step(x) + 1) \cap Nat}

\* The taps of the output: those of a Delay, and those of Allpass::tap, which
\* takes an integer.
DelayTaps ==
  {<<"delay1Right", 266>>, <<"delay1Right", 2974>>, <<"delay2Right", 1996>>,
   <<"delay1Left", 1990>>, <<"delay2Left", 1066>>,
   <<"delay1Left", 353>>, <<"delay1Left", 3627>>, <<"delay2Left", 2673>>,
   <<"delay2Right", 2111>>, <<"delay2Right", 121>>}
AllpassTaps ==
  {<<"diffusion2Right", 1913>>, <<"diffusion2Left", 187>>,
   <<"diffusion2Left", 1228>>, <<"diffusion2Right", 335>>}
OutputTaps(fs) ==
  UNION ({{Read(o[1], d) : d \in Scaled(o[2], fs)} : o \in DelayTaps}
         \cup {{Read(o[1], Whole(d) * Unit) : d \in Scaled(o[2], fs)} : o \in AllpassTaps})

\* A function, so that the taps of each rate are computed once.
Taps ==
  [fs \in SampleRates |-> FullTaps \cup PredelayTaps \cup ModulatedTaps \cup OutputTaps(fs)]

\* `m` is an index of the buffer as it is converted: without its fraction.
PlaceOf(t) == Whole(Position(size_[t.line], index_[t.line], t.delay))

-----------------------------------------------------------------------------

LateWrap(i, size) == IF i > size THEN 0 ELSE i   \* mutant: > for >=
Wrap(i, size) == IF i >= size THEN 0 ELSE i

Init ==
  /\ fs_ \in SampleRates
  /\ index_ = [l \in Line |-> 0]
  /\ samples = 0

\* One sample: it goes through every line once, whose index advances.
Process ==
  /\ samples < MaxSamples
  /\ index_' = [l \in Line |-> Wrap(index_[l] + 1, size_[l])]
  /\ samples' = samples + 1
  /\ UNCHANGED fs_

\* The controller makes the effect again, for a server of another rate.
Remake ==
  /\ fs_' \in SampleRates
  /\ index_' = [l \in Line |-> 0]
  /\ samples' = 0

Next == Process \/ Remake

Spec == Init /\ [][Next]_vars

-----------------------------------------------------------------------------
(* Properties *)

\* Every index is a place of its line, at every sample.
TypeOK ==
  /\ fs_ \in SampleRates
  /\ index_ \in [Line -> Nat]
  /\ \A l \in Line : index_[l] < size_[l]
  /\ samples \in 0 .. MaxSamples

\* The lines are long enough for the taps of the output, with two samples to
\* spare for their rounding.  The lines of 29761 Hz do at 44100 and 48000.
RateFits(fs) ==
  \A o \in DelayTaps \cup AllpassTaps : o[2] * fs <= DesignRate * (size_[o[1]] - 3)
RatesThatFit == {fs \in SampleRates : RateFits(fs)}

\* No tap of any kind leaves its line, at any index and through the wraps that
\* happen at different samples in different lines, but by one place, where a
\* position next to the end is rounded to it: that takes a delay just above a
\* whole number, and the one index that it meets there.
TapsStrayOnlyByRounding ==
  fs_ \in RatesThatFit =>
    \A t \in Taps[fs_] :
      LET size == size_[t.line]
          place == PlaceOf(t)
      IN  \/ place \in 0 .. size - 1
          \/ /\ place = size
             /\ NearlyWhole(size, t.delay)
             /\ index_[t.line] = Whole(t.delay)

\* A tap that stays in its line hears the sample written ceil(delay) samples
\* ago, or one less where the delay is just above a whole number; one of no
\* delay hears the oldest sample: predelay 0 is the longest predelay.
Ages(size, d) ==
  LET whole == IF Whole(d) = 0 THEN size ELSE Whole(d)
  IN  IF Rest(d) = 0 THEN {whole}
      ELSE IF NearlyWhole(size, d) THEN {whole, Whole(d) + 1}
      ELSE {Whole(d) + 1}
TapsHonourDelays ==
  fs_ \in RatesThatFit =>
    \A t \in Taps[fs_] :
      LET size == size_[t.line]
          place == PlaceOf(t)
      IN  place < size => ((index_[t.line] - place - 1) % size) + 1 \in Ages(size, t.delay)
=============================================================================

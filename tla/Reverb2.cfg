\* Two usual rates and one that the lines are too short for; long enough for
\* the longest line to wrap.  A sample is 2^15 steps, and numbers are less
\* than 2^30: delays of 256 samples and more are the floats of the program.
CONSTANTS
  SampleRates = {44100, 48000, 96000}
  PredelayTimes <- MCPredelayTimes
  Modulations <- MCModulations
  Precision = 24
  MaxExponent = 6
  Unit = 32768
  MaxSamples = 20010
SPECIFICATION Spec
INVARIANTS TypeOK TapsStrayOnlyByRounding TapsHonourDelays

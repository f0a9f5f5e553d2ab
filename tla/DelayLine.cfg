\* Six places, an eighth of a sample, floats of 4 digits: at the end of the
\* buffer floats are half a sample apart.  The index wraps twice.
CONSTANTS
  Size = 6
  Unit = 8
  Precision = 4
  MaxExponent = 4
  MaxSamples = 14
SPECIFICATION Spec
INVARIANTS TypeOK DelayHonoured StrayOnlyByRounding InterpolatesAtDelay UnsetHasACause

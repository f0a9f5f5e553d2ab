\* A line of 8 places, an eighth of a place in the phase, floats of 5 digits:
\* the floats below 1.0 are a quarter of a place apart, those above half of
\* one.
CONSTANTS
  DelayLineSize = 8
  Unit = 8
  Precision = 5
  MaxExponent = 3
SPECIFICATION Spec
INVARIANTS TypeOK HeardIsWritten
PROPERTIES NoClick HeadsKeepPace

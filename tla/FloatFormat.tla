---------------------------- MODULE FloatFormat ----------------------------
(***************************************************************************)
(* The `float` in which the effects compute delays and phases, on a grid   *)
(* of integers: one is the finest step considered.  A float keeps          *)
(* Precision binary digits, so that the distance between neighbours grows  *)
(* with the number; a result that falls between two of them is rounded to  *)
(* the nearer one, to the even one in a tie.  The build's float has 24.    *)
(* With it, what all circular buffers of the effects share: the position   *)
(* that lies some delay behind the index.                                  *)
(***************************************************************************)
EXTENDS Integers

CONSTANTS
  Precision,   \* binary digits of a float
  MaxExponent, \* bound: numbers are less than 2^(Precision + MaxExponent)
  Unit         \* steps of the grid in a sample, or a place of a buffer

ASSUME FloatAssumption == Precision \in Nat \ {0} /\ MaxExponent \in Nat

\* 2^n.  A function, so that its laws can be proved.
Power[n \in 0 .. Precision + MaxExponent] == IF n = 0 THEN 1 ELSE 2 * Power[n - 1]

ASSUME UnitAssumption == \E e \in 0 .. Precision + MaxExponent : Unit = Power[e]

Magnitude(x) == IF x < 0 THEN -x ELSE x

\* The distance of the floats around x.
Step(x) ==
  Power[CHOOSE e \in 0 .. MaxExponent :
          /\ Magnitude(x) < Power[e + Precision]
          /\ e = 0 \/ Magnitude(x) >= Power[e - 1 + Precision]]

Round(x) ==
  LET step == Step(x)
      below == x \div step
      rest == x % step
      up == 2 * rest > step \/ (2 * rest = step /\ below % 2 = 1)
  IN  (IF up THEN below + 1 ELSE below) * step

IsFloat(x) == Round(x) = x

-----------------------------------------------------------------------------
(* Positions in a buffer *)

\* Floats count the places of a buffer of that size.
Fits(size) ==
  /\ size * Unit < Power[Precision + MaxExponent]
  /\ IsFloat(size * Unit) /\ Step(size * Unit) <= Unit

\* index - delay, brought back into the buffer: `auto m = index - delay;
\* if (m < 0) m += size`.  Both are float operations.
OneTooFar(size, w, d) ==                     \* mutant: delay + 1 is taken off
  LET m == Round(w * Unit - Unit - d)
  IN  IF m < 0 THEN Round(m + size * Unit) ELSE m
OneShort(size, w, d) ==                      \* mutant: size - 1 is added
  LET m == Round(w * Unit - d)
  IN  IF m < 0 THEN Round(m + size * Unit - Unit) ELSE m
WrapAtZero(size, w, d) ==                    \* mutant: <= for <
  LET m == Round(w * Unit - d)
  IN  IF m <= 0 THEN Round(m + size * Unit) ELSE m
Position(size, w, d) ==
  LET m == Round(w * Unit - d)
  IN  IF m < 0 THEN Round(m + size * Unit) ELSE m

Whole(d) == d \div Unit
Rest(d) == d % Unit

\* Half the distance of the floats just below the end of the buffer: the
\* most by which a position is rounded.
HalfStep(size) == Step(size * Unit - 1) \div 2
NearlyWhole(size, d) == Rest(d) \in 1 .. HalfStep(size)
=============================================================================

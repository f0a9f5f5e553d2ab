----------------------------- MODULE MCReverb2 -----------------------------
(* The lines of Reverb2 have the sizes of the program here too, and the    *)
(* floats their 24 digits.                                                 *)
EXTENDS Reverb2

\* The ends, the value when made, and floats next to whole numbers.
MCPredelayTimes ==
  {0, 1, Unit - 1, Unit, Unit + 1, 5000 * Unit, 5000 * Unit + 16,
   20000 * Unit - 64, 20000 * Unit}

\* The deepest, none, and what rounds the float after 994 and 1344 either way.
MCModulations ==
  {-128 * Unit, 1 - 128 * Unit, -1, 0, 1, 2, 3, 5, 128 * Unit - 1, 128 * Unit}
=============================================================================

--------------------------- MODULE MCEffectState ---------------------------
(* Instances of EffectState small enough for TLC.                          *)
EXTENDS EffectState

\* Both ends, the middle, and values next to them; for the sine every note and
\* places between.  Reverb2 has seven parameters: their ends.
MCSetting ==
  [e \in Effect |->
    CASE e = "sine_osc" -> {50 * i : i \in 0 .. 40}
      [] e = "reverb2" -> {0, Top}
      [] OTHER -> {0, 1, Top \div 2 - 1, Top \div 2, Top}]

\* Inside the table of notes, just past it and far off.
MCGarbage == {0, 69, 70, 100000}
=============================================================================

--------------------------- MODULE MCEffectClient ---------------------------
(* Instances of EffectClient small enough for TLC.                         *)
EXTENDS EffectClient

\* Three gains of one band of the equalizer, whose coefficients depend on the
\* gains before: a cut, another cut, and a boost; and a cut of another band.
MCParameter ==
  [index : {0}, value : {0, Top \div 4, Top}] \cup [index : {2}, value : {0}]
=============================================================================

-------------------------- MODULE MCPitchShifter --------------------------
(* Instances of PitchShifter small enough for TLC.                         *)
EXTENDS PitchShifter
=============================================================================

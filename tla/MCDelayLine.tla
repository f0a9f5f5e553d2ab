---------------------------- MODULE MCDelayLine ----------------------------
(* Instances of DelayLine small enough for TLC.                            *)
EXTENDS DelayLine
=============================================================================

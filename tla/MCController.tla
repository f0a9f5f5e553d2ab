---------------------------- MODULE MCController ----------------------------
(* Instances of Controller small enough for TLC.                           *)
EXTENDS Controller, TLC

CONSTANTS A, B, v1, v2

Fx(name, params) == [name |-> name, parameters |-> params]

MCParameterIndex == 0 .. 1

MCParameterLists == {<<>>, <<v1>>, <<v2>>, <<v1, v2>>}

MCDefaultConfig == <<Fx(A, <<v1, v2>>)>>

\* No effect, two, three; a chain that names one effect twice.
MCConfigs == {<<>>, <<Fx(A, <<v1>>), Fx(B, <<v2>>)>>, <<Fx(A, <<>>), Fx(A, <<v1>>), Fx(B, <<>>)>>}

\* One more than the longest chain needs.
MCClientId == 1 .. 4
=============================================================================

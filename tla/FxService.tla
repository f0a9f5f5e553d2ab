------------------------------ MODULE FxService ------------------------------
(***************************************************************************)
(* What the controller promises a listener: the sound that goes from the   *)
(* capture ports to the playback ports passes through all effects of one   *)
(* configuration, in its order, from one routing of the capture ports, or  *)
(* there is silence.  Configuration and routing are replaced in silence    *)
(* only.                                                                   *)
(***************************************************************************)
EXTENDS Naturals, Sequences

CONSTANTS
  Name,  \* names of effects
  Side   \* left and right: the ports of a client, of capture and of playback

VARIABLES
  configuration,  \* the names of its effects in order, and the number of the
                  \* configuration, which tells two with the same effects apart
  sounding        \* the ways sound takes: effects, capture port, playback port

vars == <<configuration, sounding>>

Silence == {}

\* Each playback port gets its sound from one capture port.
Ways(routing) ==
  {[effects |-> configuration.effects, from |-> routing[to], to |-> to] : to \in Side}

Init ==
  /\ configuration = [number |-> 0, effects |-> <<>>]
  /\ sounding = Silence

Configure ==
  /\ sounding = Silence
  /\ configuration'.effects \in Seq(Name)
  /\ configuration' = [number |-> configuration.number + 1, effects |-> configuration'.effects]
  /\ UNCHANGED sounding

Start ==
  /\ sounding = Silence
  /\ \E routing \in [Side -> Side] : sounding' \subseteq Ways(routing)
  /\ UNCHANGED configuration

Stop ==
  /\ sounding' = Silence
  /\ UNCHANGED configuration

Next == Configure \/ Start \/ Stop

Spec == Init /\ [][Next]_vars
=============================================================================

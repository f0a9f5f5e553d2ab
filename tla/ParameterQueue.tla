--------------------------- MODULE ParameterQueue ---------------------------
(***************************************************************************)
(* What one JACK client promises about the parameters it is given:         *)
(* JackClientImpl::setParameter accepts parameters on the control thread,  *)
(* the process callback hands them to the audio processor, first in first  *)
(* out, each one exactly once, none invented and none changed, until the   *)
(* client goes away.                                                       *)
(***************************************************************************)
EXTENDS Naturals, Sequences

CONSTANT Parameter      \* the values of struct AudioProcessor::Parameter

VARIABLES
  accepted,   \* the parameters accepted in the life of this client, in order
  delivered   \* those already handed to AudioProcessor::setParameter

vars == <<accepted, delivered>>

Init == accepted = <<>> /\ delivered = <<>>

Accept(p) ==
  /\ accepted' = Append(accepted, p)
  /\ UNCHANGED delivered

Deliver ==
  /\ Len(delivered) < Len(accepted)
  /\ delivered' = Append(delivered, accepted[Len(delivered) + 1])
  /\ UNCHANGED accepted

\* The client is closed, or the process ends: what is pending is dropped.
Discard == accepted' = <<>> /\ delivered' = <<>>

Next == Deliver \/ Discard \/ \E p \in Parameter : Accept(p)

Spec == Init /\ [][Next]_vars

\* An accepted parameter does not stay pending for ever.
FairSpec == Spec /\ WF_vars(Deliver)
=============================================================================

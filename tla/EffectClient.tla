---------------------------- MODULE EffectClient ----------------------------
(***************************************************************************)
(* A JACK client with the processor it owns: JackClient, and the object of *)
(* some effect (Effects) in the place of what JackClient says only that it *)
(* is given the parameters.  The processor is made when the context is     *)
(* prepared, is given its parameters by the callback, and goes with the    *)
(* members.                                                                *)
(***************************************************************************)
EXTENDS JackClient, Effects

CONSTANTS
  ProcessorEffect,  \* the effect of this client
  NoProcessor

ASSUME ProcessorAssumption ==
  /\ ProcessorEffect \in Effect
  /\ Parameter \subseteq [index : Index(ProcessorEffect), value : 0 .. Top]

\* Bytes are no members.
ASSUME GarbledAssumption == Garbled \notin Members(ProcessorEffect)

VARIABLE processor  \* the members of m_processCtx.processor

clientVars == <<vars, processor>>

-----------------------------------------------------------------------------

InitWithProcessor == Init /\ processor = NoProcessor

\* The factory makes the processor.
PrepareProcessor == PrepareContext /\ processor' \in Made(ProcessorEffect)

\* Bytes that are no parameter would leave members that are none.
SetProcessorParameter ==
  /\ RtSetParameter
  /\ LET p == Decode(parameter) IN
       processor' = IF p \in Parameter /\ processor # Garbled
                    THEN SetParameter(ProcessorEffect, processor, p.index, p.value)
                    ELSE Garbled

DestroyProcessor == (DestroyMembers \/ Terminate) /\ processor' = NoProcessor

\* The other steps of the two threads leave it alone.
OtherControl ==
  \/ OpenClient \/ RegisterPorts \/ Activate
  \/ (\E p \in Parameter : StartWrite(p)) \/ PublishBytes \/ EndWrite
  \/ CloseClient \/ Stopped

OtherRealTime == RtBegin \/ RtCheckSpace \/ RtRead \/ RtProcess

RealTimeWithProcessor ==
  SetProcessorParameter \/ (OtherRealTime /\ UNCHANGED processor)

NextWithProcessor ==
  \/ PrepareProcessor \/ DestroyProcessor \/ RealTimeWithProcessor
  \/ OtherControl /\ UNCHANGED processor

SpecWithProcessor == InitWithProcessor /\ [][NextWithProcessor]_clientVars

\* The scheduling is that of JackClient.
FairSpecWithProcessor ==
  /\ SpecWithProcessor
  /\ WF_clientVars(RealTimeWithProcessor)
  /\ WF_clientVars((PublishBytes \/ EndWrite) /\ UNCHANGED processor)

-----------------------------------------------------------------------------
(* Properties *)

\* The last value of each parameter in a sequence of them.
LastValues(parameters) ==
  [i \in Index(ProcessorEffect) |->
    LET at == {k \in DOMAIN parameters : parameters[k].index = i} IN
      IF at = {} THEN NotGiven
      ELSE parameters[CHOOSE k \in at : \A l \in at : l <= k].value]

\* When the control thread has written its parameters and the callback has
\* emptied the ring, the effect works with the last value that was written for
\* each of its parameters, although the two never met: nothing was lost,
\* overtaken or mixed between PUT /config/<index> and the filter that uses it.
SettingsTakeEffect ==
  ctl = "ready" /\ ring = <<>> /\ rt \notin {"read", "set"} =>
    SettledOn(ProcessorEffect, processor, LastValues(issued))
=============================================================================

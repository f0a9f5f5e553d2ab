----------------------------- MODULE JackClient -----------------------------
(***************************************************************************)
(* One JackClientImpl object (engine/src/jack_client.cc) and the two       *)
(* threads that touch it: the control thread, which constructs it, writes  *)
(* parameters into its ring buffer and destroys it, and the JACK real-time *)
(* thread, which calls process() once per period while the client is       *)
(* active.                                                                 *)
(*                                                                         *)
(* The ring buffer is JACK's: a single-writer single-reader byte queue     *)
(* that holds one byte less than its size, writes as many of the bytes it  *)
(* is given as fit when the call begins, and may publish them to the       *)
(* reader in pieces (it copies around its end in two steps).               *)
(***************************************************************************)
EXTENDS Naturals, Sequences

CONSTANTS
  Parameter,       \* the values of struct AudioProcessor::Parameter
  Garbled,         \* bytes that no call of setParameter wrote together
  ParameterSize,   \* sizeof(AudioProcessor::Parameter); 8 in the code
  RingBufferSize,  \* RingBufferSize; 8192 in the code
  MaxLives,        \* bound: objects constructed one after the other
  MaxWrites        \* bound: calls of setParameter in the life of an object

ASSUME SizeAssumption ==
  /\ ParameterSize \in Nat \ {0}
  /\ RingBufferSize \in Nat \ {0}

ASSUME EnvironmentAssumption ==
  /\ Garbled \notin Parameter
  /\ MaxLives \in Nat
  /\ MaxWrites \in Nat

VARIABLES
  ctl,        \* where the control thread is
  client,     \* m_client, as JACK sees it
  ctx,        \* which members of m_processCtx are set
  ring,       \* the published bytes in m_processCtx.ringBuffer
  issued,     \* history: the arguments of setParameter in this life
  sent,       \* bytes of the last of them that are published
  limit,      \* bytes of it that jack_ringbuffer_write found room for
  rt,         \* where the real-time thread is in process()
  parameter,  \* the local variable of process(), as bytes
  delivered,  \* history: the arguments of processor->setParameter
  lives       \* objects constructed so far

controlVars == <<ctl, client, ctx, lives>>
writeVars == <<issued, sent, limit>>
rtVars == <<rt, parameter, delivered>>
vars == <<controlVars, ring, writeVars, rtVars>>

-----------------------------------------------------------------------------
(* Bytes *)

Byte == Parameter \X (1 .. ParameterSize)

Bytes(p, first, n) == [k \in 1 .. n |-> <<p, first + k>>]

Encode(p) == Bytes(p, 0, ParameterSize)

Decode(bytes) ==
  IF \E p \in Parameter : bytes = Encode(p)
  THEN CHOOSE p \in Parameter : bytes = Encode(p)
  ELSE Garbled

Lesser(m, n) == IF m <= n THEN m ELSE n

\* jack_ringbuffer_write_space
WriteSpace == RingBufferSize - 1 - Len(ring)

\* The bytes of a parameter that jack_ringbuffer_write will write.
RoomForParameter == Lesser(ParameterSize, WriteSpace)

\* The test at the head of process().
AnyByteAvailable == Len(ring) > 0                    \* mutant
MoreThanAParameterAvailable == Len(ring) > ParameterSize  \* mutant
ParameterAvailable == Len(ring) >= ParameterSize

\* The test at the end of setParameter: return, or throw.
OutcomeIgnored == "ready"                            \* mutant
WriteOutcome == IF limit = ParameterSize THEN "ready" ELSE "thrown"

PortsLeftUnset == ctx                                \* mutant
PortsAssigned == [ctx EXCEPT !.ports = TRUE]

-----------------------------------------------------------------------------
NoContext == [ringBuffer |-> FALSE, processor |-> FALSE, ports |-> FALSE]

FullContext == [ringBuffer |-> TRUE, processor |-> TRUE, ports |-> TRUE]

Init ==
  /\ ctl = "none"
  /\ client = "closed"
  /\ ctx = NoContext
  /\ lives = 0
  /\ ring = <<>>
  /\ issued = <<>>
  /\ sent = ParameterSize
  /\ limit = ParameterSize
  /\ rt = "idle"
  /\ parameter = <<>>
  /\ delivered = <<>>

(* The constructor; the external calls that it checks may fail. *)

OpenClient ==
  /\ ctl = "none"
  /\ lives < MaxLives
  /\ lives' = lives + 1
  /\ \/ ctl' = "opened" /\ client' = "open"
     \/ ctl' = "thrown" /\ UNCHANGED client
  /\ UNCHANGED <<ctx, ring, writeVars, rtVars>>

PrepareContext ==
  /\ ctl = "opened"
  /\ ctl' = "prepared"
  /\ ctx' = [ctx EXCEPT !.ringBuffer = TRUE, !.processor = TRUE]
  /\ UNCHANGED <<client, lives, ring, writeVars, rtVars>>

RegisterPorts ==
  /\ ctl = "prepared"
  /\ \/ ctl' = "registered" /\ ctx' = PortsAssigned
     \/ ctl' = "thrown" /\ UNCHANGED ctx
  /\ UNCHANGED <<client, lives, ring, writeVars, rtVars>>

Activate ==
  /\ ctl = "registered"
  /\ \/ ctl' = "ready" /\ client' = "active"
     \/ ctl' = "thrown" /\ UNCHANGED client
  /\ UNCHANGED <<ctx, lives, ring, writeVars, rtVars>>

(* JackClientImpl::setParameter *)

StartWrite(p) ==
  /\ ctl = "ready"
  /\ Len(issued) < MaxWrites
  /\ ctl' = "writing"
  /\ issued' = Append(issued, p)
  /\ sent' = 0
  /\ limit' = RoomForParameter
  /\ UNCHANGED <<client, ctx, lives, ring, rtVars>>

PublishBytes ==
  /\ ctl = "writing"
  /\ \E n \in 1 .. (limit - sent) :
       /\ ring' = ring \o Bytes(issued[Len(issued)], sent, n)
       /\ sent' = sent + n
  /\ UNCHANGED <<controlVars, issued, limit, rtVars>>

EndWrite ==
  /\ ctl = "writing"
  /\ sent = limit
  /\ ctl' = WriteOutcome
  /\ UNCHANGED <<client, ctx, lives, ring, writeVars, rtVars>>

(***************************************************************************)
(* The destructor: jack_client_close returns when no callback is running   *)
(* and none will run again; then the members go.  The ring buffer itself   *)
(* is never freed, but nothing refers to it any more.                      *)
(***************************************************************************)
Forget ==
  /\ ring' = <<>>
  /\ issued' = <<>>
  /\ sent' = ParameterSize
  /\ limit' = ParameterSize
  /\ rt' = "idle"
  /\ parameter' = <<>>
  /\ delivered' = <<>>

CloseClient ==
  /\ ctl = "ready"
  /\ rt = "idle"
  /\ ctl' = "closed"
  /\ client' = "closed"
  /\ Forget
  /\ UNCHANGED <<ctx, lives>>

DestroyMembers ==
  /\ ctl = "closed"
  /\ ctl' = "none"
  /\ ctx' = NoContext
  /\ UNCHANGED <<client, lives, ring, writeVars, rtVars>>

\* An exception has left the constructor or setParameter, and nothing below
\* or in main catches it: the process ends.
Terminate ==
  /\ ctl = "thrown"
  /\ ctl' = "terminated"
  /\ client' = "closed"
  /\ ctx' = NoContext
  /\ Forget
  /\ UNCHANGED lives

Control ==
  \/ OpenClient \/ PrepareContext \/ RegisterPorts \/ Activate
  \/ (\E p \in Parameter : StartWrite(p)) \/ PublishBytes \/ EndWrite
  \/ CloseClient \/ DestroyMembers \/ Terminate

-----------------------------------------------------------------------------
(* process(), the callback *)

RtBegin ==
  /\ client = "active"
  /\ rt = "idle"
  /\ rt' = "check"
  /\ UNCHANGED <<controlVars, ring, writeVars, parameter, delivered>>

RtCheckSpace ==
  /\ rt = "check"
  /\ rt' = IF ParameterAvailable THEN "read" ELSE "process"
  /\ UNCHANGED <<controlVars, ring, writeVars, parameter, delivered>>

RtRead ==
  /\ rt = "read"
  /\ LET size == Lesser(ParameterSize, Len(ring)) IN
       /\ parameter' = SubSeq(ring, 1, size)
       /\ ring' = SubSeq(ring, size + 1, Len(ring))
       /\ rt' = IF size = ParameterSize THEN "set" ELSE "process"
  /\ UNCHANGED <<controlVars, writeVars, delivered>>

RtSetParameter ==
  /\ rt = "set"
  /\ delivered' = Append(delivered, Decode(parameter))
  /\ parameter' = <<>>
  /\ rt' = "process"
  /\ UNCHANGED <<controlVars, ring, writeVars>>

RtProcess ==
  /\ rt = "process"
  /\ rt' = "idle"
  /\ parameter' = <<>>
  /\ UNCHANGED <<controlVars, ring, writeVars, delivered>>

RealTime == RtBegin \/ RtCheckSpace \/ RtRead \/ RtSetParameter \/ RtProcess

\* The last object is gone, or the process has ended.
Stopped ==
  /\ ctl = "terminated" \/ (ctl = "none" /\ lives = MaxLives)
  /\ UNCHANGED vars

Next == Control \/ RealTime \/ Stopped

Spec == Init /\ [][Next]_vars

(***************************************************************************)
(* JACK calls process() every period while the client is active, and a     *)
(* call that has begun returns; a write that has begun ends.  Nothing      *)
(* obliges the control thread to make further calls.                       *)
(***************************************************************************)
FairSpec == Spec /\ WF_vars(RealTime) /\ WF_vars(PublishBytes \/ EndWrite)

-----------------------------------------------------------------------------
(* Properties *)

\* The values the variables range over.
TypeOK ==
  /\ ctl \in {"none", "opened", "prepared", "registered", "ready", "writing",
              "closed", "thrown", "terminated"}
  /\ client \in {"closed", "open", "active"}
  /\ ctx \in [ringBuffer : BOOLEAN, processor : BOOLEAN, ports : BOOLEAN]
  /\ ring \in Seq(Byte)
  /\ issued \in Seq(Parameter)
  /\ sent \in 0 .. ParameterSize
  /\ limit \in 0 .. ParameterSize
  /\ rt \in {"idle", "check", "read", "set", "process"}
  /\ parameter \in Seq(Byte)
  /\ delivered \in Seq(Parameter \cup {Garbled})
  /\ lives \in 0 .. MaxLives

(***************************************************************************)
(* The callback dereferences ringBuffer, processor and the four ports with *)
(* no check: whenever it runs, all of them are set and not yet destroyed,  *)
(* however construction, writes and destruction interleave with it.        *)
(***************************************************************************)
CallbackContextReady == rt # "idle" => client = "active" /\ ctx = FullContext

(***************************************************************************)
(* The parameters that reach the processor are those that were written, in *)
(* the order they were written, none skipped, repeated or pieced together  *)
(* from the bytes of two, although the callback runs between the bytes of  *)
(* a write.                                                                *)
(***************************************************************************)
DeliveredInOrder ==
  /\ Len(delivered) <= Len(issued)
  /\ \A i \in 1 .. Len(delivered) : delivered[i] = issued[i]

(***************************************************************************)
(* Parameters taken out of the ring so far, the one the callback is        *)
(* holding included.                                                       *)
(***************************************************************************)
Taken == Len(delivered) + (IF rt = "set" THEN 1 ELSE 0)

InRing == Len(issued) - Taken

(***************************************************************************)
(* The ring holds the parameters issued and not yet taken, each as its     *)
(* ParameterSize bytes, the last one perhaps cut short: a reader that      *)
(* takes ParameterSize bytes at a time never loses the frame.              *)
(***************************************************************************)
Framed ==
  /\ Len(ring) = InRing * ParameterSize - (ParameterSize - sent)
  /\ \A i \in 1 .. InRing, b \in 1 .. ParameterSize :
       (i - 1) * ParameterSize + b <= Len(ring) =>
         ring[(i - 1) * ParameterSize + b] = <<issued[Taken + i], b>>

(***************************************************************************)
(* The bytes in the ring and those of the write in progress fit; a write   *)
(* in progress is of the last parameter issued.                            *)
(***************************************************************************)
Room ==
  /\ Len(ring) <= RingBufferSize - 1
  /\ ctl = "writing" =>
       /\ issued # <<>>
       /\ sent <= limit
       /\ Len(ring) + (limit - sent) <= RingBufferSize - 1

(***************************************************************************)
(* How far construction has come, at each place of the control thread; in  *)
(* particular no client stays open in the JACK server behind a constructor *)
(* that failed, except while the exception ends the process.               *)
(***************************************************************************)
Constructed ==
  /\ ctl = "prepared" => ctx.ringBuffer /\ ctx.processor
  /\ ctl = "registered" => ctx = FullContext
  /\ ctl \in {"ready", "writing"} => client = "active"
  /\ client = "active" => ctx = FullContext /\ ctl \in {"ready", "writing", "thrown"}
  /\ client = "open" => ctl \in {"opened", "prepared", "registered", "thrown"}

\* What the callback and the writer know of the bytes they are handling.
Handling ==
  /\ ctl \notin {"writing", "thrown"} => sent = ParameterSize
  /\ Taken <= Len(issued)
  /\ rt = "read" => ParameterAvailable
  /\ rt = "set" => parameter = Encode(issued[Taken])

(***************************************************************************)
(* The inductive invariants: LifeInv of construction and of the room in    *)
(* the ring, FrameInv of what the ring holds besides.                      *)
(***************************************************************************)
LifeInv == TypeOK /\ Room /\ Constructed /\ CallbackContextReady

FrameInv == LifeInv /\ Handling /\ Framed /\ DeliveredInOrder

(***************************************************************************)
(* A parameter counts as accepted when its last byte is published.         *)
(***************************************************************************)
Accepted ==
  SubSeq(issued, 1, IF sent < ParameterSize THEN Len(issued) - 1 ELSE Len(issued))

Queue == INSTANCE ParameterQueue WITH accepted <- Accepted, delivered <- delivered

\* The client implements the abstract parameter queue, liveness included.
ImplementsQueue == Queue!FairSpec
=============================================================================

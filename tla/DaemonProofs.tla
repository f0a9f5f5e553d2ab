---------------------------- MODULE DaemonProofs ----------------------------
(***************************************************************************)
(* Machine-checked proofs about Daemon, for every command line, every port *)
(* and any number of requests at any time from the opening of the port on: *)
(* the handlers of the HTTP server find what they use.                     *)
(***************************************************************************)
EXTENDS Daemon, SequenceTheorems, TLAPS

Callback == {RegistrationOrder[i] : i \in 1 .. 7}

(* The inductive invariant *)

DaemonTypeOK ==
  /\ main \in {"options", "listen", "construct", "register", "configure", "run", "ended"}
  /\ registered \in Seq(Callback)
  /\ controller \in BOOLEAN
  /\ arrived \in Seq(Requests)
  /\ calling \in Callback \cup {NoCallback}

\* main registers the callbacks in their order, one by one, after it has made
\* the controller, and all of them before it serves a request.
StartInOrder ==
  /\ main \in {"options", "listen", "construct"} => registered = <<>>
  /\ main = "register" => Len(registered) < 7
  /\ main \in {"register", "configure", "run"} =>
       /\ controller
       /\ \A i \in 1 .. Len(registered) : registered[i] = RegistrationOrder[i]
  /\ main \in {"configure", "run"} => Len(registered) = 7

\* A callback is called for the first request, from io_context::run only.
CalledFromRun ==
  calling # NoCallback =>
    main = "run" /\ arrived # <<>> /\ calling = Route(Head(arrived))

DaemonInv == DaemonTypeOK /\ StartInOrder /\ CalledFromRun

-----------------------------------------------------------------------------

\* ControllerImpl::start sets seven callbacks, one after the other.
LEMMA RegistrationOrderLength ==
  /\ Len(RegistrationOrder) = 7
  /\ \A i \in 1 .. 7 : RegistrationOrder[i] \in Callback
  /\ NoCallback \notin Callback
BY DEF RegistrationOrder, Callback, NoCallback

\* The route of a request is no callback, or one that main registers.
LEMMA RouteIsRegistered ==
  ASSUME NEW r
  PROVE  Route(r) \in Callback \cup {NoCallback}
<1>1. /\ RegistrationOrder[1] = "applyConfig" /\ RegistrationOrder[2] = "getPlugins"
      /\ RegistrationOrder[3] = "getConfig" /\ RegistrationOrder[4] = "setParameters"
      /\ RegistrationOrder[5] = "reload" /\ RegistrationOrder[6] = "applyGlobalSettings"
      /\ RegistrationOrder[7] = "getGlobalSettings"
  BY DEF RegistrationOrder
<1>2. {"getPlugins", "getConfig", "applyConfig", "setParameters", "reload",
       "getGlobalSettings", "applyGlobalSettings"} \subseteq Callback
  BY <1>1 DEF Callback
<1> QED BY <1>2 DEF Route

\* When the process ends no callback is running and nothing is promised.
LEMMA EndKeepsInvariant ==
  ASSUME DaemonInv, End
  PROVE  DaemonInv'
<1>1. arrived' \in Seq(Requests)
  BY DEF End
<1> QED
  BY <1>1 DEF End, DaemonInv, DaemonTypeOK, StartInOrder, CalledFromRun

-----------------------------------------------------------------------------

\* DaemonInv holds in every state: whenever requests arrive, main registers the
\* callbacks in their order, and one is called only from io_context::run, for
\* the first request.
THEOREM DaemonInvariant == Spec => []DaemonInv
<1> USE DaemonAssumption
<1>1. Init => DaemonInv
  <2> SUFFICES ASSUME Init PROVE DaemonInv
    OBVIOUS
  <2>1. registered \in Seq(Callback) /\ arrived \in Seq(Requests)
    BY DEF Init
  <2> QED
    BY <2>1 DEF Init, DaemonInv, DaemonTypeOK, StartInOrder, CalledFromRun
<1>2. DaemonInv /\ [Next]_vars => DaemonInv'
  <2> SUFFICES ASSUME DaemonInv, [Next]_vars PROVE DaemonInv'
    OBVIOUS
  <2>0. DaemonTypeOK /\ StartInOrder /\ CalledFromRun
    BY DEF DaemonInv
  <2>1. CASE ReadOptions
    <3>1. CASE End
      BY <3>1, EndKeepsInvariant
    <3>2. CASE ~End
      BY <2>0, <2>1, <3>2
      DEF ReadOptions, startVars, serverVars, DaemonInv, DaemonTypeOK, StartInOrder, CalledFromRun
    <3> QED BY <3>1, <3>2
  <2>2. CASE Listen
    BY <2>0, <2>2 DEF Listen, serverVars, DaemonInv, DaemonTypeOK, StartInOrder, CalledFromRun
  <2>3. CASE ConstructController
    <3>1. Len(registered) = 0
      BY <2>0, <2>3 DEF ConstructController, StartInOrder
    <3> QED
      BY <2>0, <2>3, <3>1
      DEF ConstructController, serverVars, DaemonInv, DaemonTypeOK, StartInOrder, CalledFromRun
  <2>4. CASE RegisterCallback
    <3>1. /\ main = "register" /\ Len(registered) \in Nat /\ Len(registered) < 7
          /\ registered \in Seq(Callback) /\ controller
          /\ main' = NextStart
          /\ UNCHANGED <<controller, arrived, calling>>
          /\ registered' = Append(registered, RegistrationOrder[Len(registered) + 1])
      BY <2>0, <2>4 DEF RegisterCallback, startVars, serverVars, DaemonTypeOK, StartInOrder
    <3>2. RegistrationOrder[Len(registered) + 1] \in Callback
      BY <3>1, RegistrationOrderLength
    <3>3. /\ registered' \in Seq(Callback)
          /\ Len(registered') = Len(registered) + 1
          /\ \A i \in 1 .. Len(registered) : registered'[i] = registered[i]
          /\ registered'[Len(registered) + 1] = RegistrationOrder[Len(registered) + 1]
      BY <3>1, <3>2, AppendProperties
    <3>4. main' = IF Len(registered) + 1 < 7 THEN "register" ELSE "configure"
      BY <3>1, RegistrationOrderLength DEF NextStart
    <3>5. \A i \in 1 .. Len(registered') : registered'[i] = RegistrationOrder[i]
      BY <2>0, <3>1, <3>3 DEF StartInOrder
    <3> QED
      BY <2>0, <3>1, <3>3, <3>4, <3>5
      DEF DaemonInv, DaemonTypeOK, StartInOrder, CalledFromRun
  <2>5. CASE ApplyDefaultConfig
    BY <2>0, <2>5
    DEF ApplyDefaultConfig, startVars, serverVars, DaemonInv, DaemonTypeOK, StartInOrder, CalledFromRun
  <2>6. CASE StartFails
    BY <2>6, EndKeepsInvariant DEF StartFails
  <2>7. CASE AnswerAtOnce
    <3>1. arrived \in Seq(Requests) /\ arrived # <<>> /\ calling = NoCallback
      BY <2>0, <2>7 DEF AnswerAtOnce, Serving, DaemonTypeOK, CalledFromRun
    <3>2. arrived' \in Seq(Requests)
      BY <2>7, <3>1, HeadTailProperties DEF AnswerAtOnce
    <3> QED
      BY <2>0, <2>7, <3>1, <3>2
      DEF AnswerAtOnce, startVars, DaemonInv, DaemonTypeOK, StartInOrder, CalledFromRun
  <2>8. CASE CallBack
    <3>1. calling' \in Callback \cup {NoCallback}
      BY <2>8, RouteIsRegistered DEF CallBack
    <3> QED
      BY <2>0, <2>8, <3>1
      DEF CallBack, Serving, startVars, DaemonInv, DaemonTypeOK, StartInOrder, CalledFromRun
  <2>9. CASE Answer
    <3>1. arrived \in Seq(Requests) /\ arrived # <<>>
      BY <2>0, <2>9 DEF Answer, DaemonTypeOK, CalledFromRun
    <3>2. arrived' \in Seq(Requests)
      BY <2>9, <3>1, HeadTailProperties DEF Answer
    <3> QED
      BY <2>0, <2>9, <3>1, <3>2
      DEF Answer, startVars, DaemonInv, DaemonTypeOK, StartInOrder, CalledFromRun
  <2>10. CASE CallbackEndsProcess
    BY <2>10, EndKeepsInvariant DEF CallbackEndsProcess
  <2>11. CASE RunReturns
    BY <2>11, EndKeepsInvariant DEF RunReturns
  <2>12. ASSUME NEW r \in Requests, Arrive(r)
         PROVE  DaemonInv'
    <3>1. arrived \in Seq(Requests) /\ arrived' = Append(arrived, r)
      BY <2>0, <2>12 DEF Arrive, DaemonTypeOK
    <3>2. /\ arrived' \in Seq(Requests) /\ arrived' # <<>>
          /\ arrived # <<>> => Head(arrived') = Head(arrived)
      BY <3>1, AppendProperties
    <3> QED
      BY <2>0, <2>12, <3>1, <3>2
      DEF Arrive, startVars, DaemonInv, DaemonTypeOK, StartInOrder, CalledFromRun
  <2>13. CASE UNCHANGED vars
    BY <2>0, <2>13
    DEF vars, startVars, serverVars, DaemonInv, DaemonTypeOK, StartInOrder, CalledFromRun
  <2> QED
    BY <2>1, <2>2, <2>3, <2>4, <2>5, <2>6, <2>7, <2>8, <2>9, <2>10, <2>11, <2>12, <2>13
    DEF Next, Start, Serve, Stopped
<1> QED BY <1>1, <1>2, PTL DEF Spec

-----------------------------------------------------------------------------
(***************************************************************************)
(* No request, however early it came, makes the backend call a function    *)
(* that is not set, or one whose controller is gone.                       *)
(***************************************************************************)
THEOREM CallbackAlwaysUsable == Spec => []CallbackUsable
<1>1. DaemonInv => CallbackUsable
  <2> SUFFICES ASSUME DaemonInv, calling # NoCallback
               PROVE  controller /\ \E i \in 1 .. Len(registered) : registered[i] = calling
    BY DEF CallbackUsable
  <2>1. /\ calling \in Callback
        /\ controller
        /\ Len(registered) = 7
        /\ \A i \in 1 .. Len(registered) : registered[i] = RegistrationOrder[i]
    BY DEF DaemonInv, DaemonTypeOK, StartInOrder, CalledFromRun
  <2>2. PICK i \in 1 .. 7 : calling = RegistrationOrder[i]
    BY <2>1 DEF Callback
  <2> QED BY <2>1, <2>2
<1> QED BY <1>1, DaemonInvariant, PTL
=============================================================================

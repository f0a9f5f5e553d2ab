------------------------------- MODULE Daemon -------------------------------
(***************************************************************************)
(* The process: main (src/main.cc) and its HTTP server, the configuration  *)
(* backend (config_backend/src/configuration_backend_impl.cc).  Main reads *)
(* its options, makes the backend listen, builds the controller, registers *)
(* the controller's callbacks with the backend and applies the default     *)
(* configuration; then io_context::run serves one request after the other, *)
(* those included that arrived since the port is open.                     *)
(*                                                                         *)
(* What a callback does is the subject of Controller; here it returns or   *)
(* throws, and nothing catches what it throws.                             *)
(***************************************************************************)
EXTENDS Integers, Sequences

CONSTANTS
  PortNumber,     \* values of --backend-port, a uint32_t
  DefaultPort,    \* 5396 in the code
  PortModulus,    \* 2^16: the listener takes a uint16_t
  Requests,       \* requests that may come
  MaxRequests     \* bound: how many come

Method == {"GET", "PUT", "POST", "OPTIONS", "DELETE"}

\* "item" is /config/<number>, "root" is /, "other" any path not named here.
Path == {"plugins", "config", "item", "reload", "globalsettings", "root", "other"}

(***************************************************************************)
(* The number of a request is the index in the path /config/<number>, and  *)
(* the number of effects in the body of PUT /config.                       *)
(***************************************************************************)
ASSUME DaemonAssumption ==
  /\ PortNumber \cup {DefaultPort} \subseteq Nat
  /\ PortModulus \in Nat \ {0}
  /\ Requests \subseteq [method : Method, path : Path, number : Nat]
  /\ MaxRequests \in Nat

VARIABLES
  main,        \* where main is
  options,     \* the command line
  announced,   \* the port that was printed
  listening,   \* the port that is open
  stopped,     \* has io_context::stop been called?
  registered,  \* the callbacks that the backend holds, in order
  controller,  \* the ControllerImpl and the backend it owns: are they alive?
  effects,     \* length of the current configuration
  arrived,     \* requests that wait, in the order of their arrival
  calling,     \* the callback that the first of them is calling
  received     \* number of requests that came

startVars == <<options, announced, listening, stopped>>
serverVars == <<arrived, calling, received>>
vars == <<main, startVars, registered, controller, effects, serverVars>>

NoPort == -1
NoCallback == "none"

Init ==
  /\ main = "options"
  /\ options \in [help : BOOLEAN, pluginDir : BOOLEAN, port : PortNumber \cup {DefaultPort}]
  /\ announced = NoPort
  /\ listening = NoPort
  /\ stopped = FALSE
  /\ registered = <<>>
  /\ controller = FALSE
  /\ effects = 0
  /\ arrived = <<>>
  /\ calling = NoCallback
  /\ received = 0

-----------------------------------------------------------------------------
(* main *)

\* main has returned, or an exception has left it.
End ==
  /\ main' = "ended"
  /\ controller' = FALSE
  /\ listening' = NoPort
  /\ arrived' = <<>>
  /\ calling' = NoCallback
  /\ UNCHANGED <<options, announced, stopped, registered, effects, received>>

\* --plugin-dir is declared as a vector<string> and read as a string.
ReadOptions ==
  /\ main = "options"
  /\ IF options.help \/ options.pluginDir
     THEN End
     ELSE /\ main' = "listen"
          /\ UNCHANGED <<startVars, registered, controller, effects, serverVars>>

AsUint16(port) == port % PortModulus

\* onError stops the io_context for two kinds of error, and prints the others.
Listen ==
  /\ main = "listen"
  /\ main' = "construct"
  /\ announced' = options.port
  /\ \/ listening' = AsUint16(options.port) /\ UNCHANGED stopped
     \/ stopped' \in BOOLEAN /\ UNCHANGED listening
  /\ UNCHANGED <<options, registered, controller, effects, serverVars>>

ConstructController ==
  /\ main = "construct"
  /\ main' = "register"
  /\ controller' = TRUE
  /\ UNCHANGED <<startVars, registered, effects, serverVars>>

RegistrationOrder ==
  <<"applyConfig", "getPlugins", "getConfig", "setParameters", "reload",
    "applyGlobalSettings", "getGlobalSettings">>

RunsAtOnce == "run"                                        \* mutant
NextStart == IF Len(registered) + 1 < Len(RegistrationOrder) THEN "register" ELSE "configure"

RegisterCallback ==
  /\ main = "register"
  /\ registered' = Append(registered, RegistrationOrder[Len(registered) + 1])
  /\ main' = NextStart
  /\ UNCHANGED <<startVars, controller, effects, serverVars>>

ApplyDefaultConfig ==
  /\ main = "configure"
  /\ main' = "run"
  /\ effects' = 1
  /\ UNCHANGED <<startVars, registered, controller, serverVars>>

\* The plugin handler or the default configuration throws.
StartFails == main \in {"construct", "configure"} /\ End

StopForgotten == FALSE                                     \* mutant
StopSeen == stopped

\* io_context::run returns; the controller is destroyed, and the backend in it.
RunReturns ==
  /\ main = "run"
  /\ StopSeen
  /\ End

-----------------------------------------------------------------------------
(* The HTTP server, inside io_context::run *)

Route(r) ==
  CASE r.method = "GET" /\ r.path = "plugins" -> "getPlugins"
    [] r.method = "GET" /\ r.path \in {"config", "item"} -> "getConfig"
    [] r.method = "PUT" /\ r.path = "config" -> "applyConfig"
    [] r.method = "PUT" /\ r.path = "item" -> "setParameters"
    [] r.method = "POST" /\ r.path = "reload" -> "reload"
    [] r.method = "GET" /\ r.path = "globalsettings" -> "getGlobalSettings"
    [] r.method = "PUT" /\ r.path = "globalsettings" -> "applyGlobalSettings"
    [] OTHER -> NoCallback

\* The kernel takes connections as soon as the port is open.
Arrive(r) ==
  /\ listening # NoPort
  /\ received < MaxRequests
  /\ received' = received + 1
  /\ arrived' = Append(arrived, r)
  /\ UNCHANGED <<main, startVars, registered, controller, effects, calling>>

Serving == main = "run" /\ ~stopped /\ arrived # <<>>

NoLastRoute == FALSE                                       \* mutant

\* OPTIONS, and paths with no route but the last, are answered at once.
AnswerAtOnce ==
  /\ Serving
  /\ Route(Head(arrived)) = NoCallback
  /\ arrived' = Tail(arrived)
  /\ UNCHANGED <<main, startVars, registered, controller, effects, calling, received>>

CallBack ==
  /\ Serving
  /\ calling = NoCallback
  /\ Route(Head(arrived)) # NoCallback
  /\ calling' = Route(Head(arrived))
  /\ UNCHANGED <<main, startVars, registered, controller, effects, arrived, received>>

Answer ==
  /\ calling # NoCallback
  /\ calling' = NoCallback
  /\ arrived' = Tail(arrived)
  /\ effects' = IF calling = "applyConfig" THEN Head(arrived).number ELSE effects
  /\ UNCHANGED <<main, startVars, registered, controller, received>>

(***************************************************************************)
(* Callbacks that rebuild the chain or write parameters may throw.         *)
(* GET /config/<number> reads past the end of the configuration without    *)
(* a check: an answer of any kind, or the end of the process.              *)
(***************************************************************************)
MayEnd(r) ==
  \/ r.method \in {"PUT", "POST"}
  \/ r.path = "item" /\ r.number >= effects

CallbackEndsProcess ==
  /\ calling # NoCallback
  /\ MayEnd(Head(arrived))
  /\ End

Start == ReadOptions \/ Listen \/ ConstructController \/ RegisterCallback
         \/ ApplyDefaultConfig \/ StartFails

Serve == AnswerAtOnce \/ CallBack \/ Answer \/ CallbackEndsProcess \/ RunReturns

\* The process is gone, or waits in io_context::run for good.
Stopped ==
  /\ \/ main = "ended"
     \/ main = "run" /\ arrived = <<>> /\ (listening = NoPort \/ received = MaxRequests)
  /\ UNCHANGED vars

Next == Start \/ Serve \/ (\E r \in Requests : Arrive(r)) \/ Stopped

Spec == Init /\ [][Next]_vars

\* The process is scheduled.
FairSpec == Spec /\ WF_vars(Start) /\ WF_vars(Serve)

-----------------------------------------------------------------------------
(* Properties *)

(***************************************************************************)
(* The backend calls its std::function members with no check, although it  *)
(* listens before any of them is set: a handler runs only while the        *)
(* callback it calls is registered and the controller that the callback    *)
(* captured is alive, also for requests that came during start-up.         *)
(***************************************************************************)
CallbackUsable ==
  calling # NoCallback =>
    controller /\ \E i \in 1 .. Len(registered) : registered[i] = calling

(***************************************************************************)
(* Requests that arrived, at start-up or later, do not wait for ever: they *)
(* are served, or the process ends and their connections with it.          *)
(***************************************************************************)
RequestsServed == arrived # <<>> ~> arrived = <<>>

(***************************************************************************)
(* A process whose port is taken or forbidden goes through the whole of    *)
(* its start, stop having been called before run, and then does end.       *)
(***************************************************************************)
FailedListenEnds == stopped ~> main = "ended"

(***************************************************************************)
(* "Starting configuration backend on %s:%u"                               *)
(* (configuration_backend_impl.cc:194): the port that is printed is the    *)
(* one that is opened.                                                     *)
(***************************************************************************)
ListensWhereAnnounced == listening # NoPort => listening = announced

(***************************************************************************)
(* "set plugin directory" (main.cc:28): the option sets the directory, and *)
(* the daemon starts.                                                      *)
(***************************************************************************)
PluginDirAccepted ==
  options.pluginDir /\ ~options.help => (main = "ended" => announced # NoPort)
=============================================================================

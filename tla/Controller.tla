----------------------------- MODULE Controller -----------------------------
(***************************************************************************)
(* ControllerImpl (engine/src/controller.cc), with the JACK clients of its *)
(* effect chain, the connections between their ports, and the plugin       *)
(* handler it owns.  The control thread serves one HTTP request at a time  *)
(* (configuration_backend_impl.cc) to its end; the JACK threads run the    *)
(* clients' callbacks between any two of its steps.                        *)
(*                                                                         *)
(* A client stands for a JackClientImpl that was constructed: its ring is  *)
(* ParameterQueue, which JackClient implements.  A handler stands for what *)
(* FxPluginHandler makes of the plugin directory.  An exception anywhere   *)
(* in a request ends the process: nothing in the repository catches it.    *)
(***************************************************************************)
EXTENDS Integers, FiniteSets, Sequences, SequencesExt

CONSTANTS
  Name,           \* names of effects
  Value,          \* values of parameters (ParameterValue)
  Unset,          \* the value an AudioProcessor starts with
  ParameterIndex, \* the indices 0 .. n of parameters
  Configs,        \* bodies of PUT /config
  ParameterLists, \* bodies of PUT /config/<index>
  DefaultConfig,  \* conf, in ControllerImpl::start
  RingCapacity,   \* parameters that fit a ring; 1023 in the code
  CapturePorts,   \* number of capture ports given or found
  ClientId,       \* bound: what the JACK server calls its clients, from 1 on
  MaxRequests     \* bound: requests that change something

Effect == [name : Name, parameters : ParameterLists]

ASSUME RequestAssumption ==
  /\ Configs \cup {DefaultConfig} \subseteq Seq(Effect)
  /\ ParameterLists \subseteq Seq(Value)
  /\ \A ps \in ParameterLists : \A i \in 1 .. Len(ps) : i - 1 \in ParameterIndex

ASSUME ResourceAssumption ==
  /\ RingCapacity \in Nat
  /\ CapturePorts \in Nat
  /\ ClientId \subseteq Nat \ {0}
  /\ MaxRequests \in Nat
  /\ Unset \notin Value

VARIABLES
  ctl,              \* where the control thread is
  config,           \* the argument of onApplyConfig
  client,           \* the client onApplyConfig or onSetParameters writes to
  writes,           \* the parameters it has still to write there
  m_currentConfig,
  m_globalSettings,
  m_pluginHandler,
  m_fxChain,        \* sequence of clients
  clients,          \* the clients open in the JACK server
  links,            \* the connections in the JACK server
  directory,        \* names of the plugins in the plugin directory
  requested,        \* history: what clients asked for, position -> values
  requests,         \* requests served so far
  applied           \* history: how often onApplyConfig assigned its argument

local == <<config, client, writes>>
members == <<m_currentConfig, m_globalSettings, m_pluginHandler, m_fxChain>>
server == <<clients, links>>
history == <<requested, requests, applied>>
vars == <<ctl, local, members, server, directory, history>>

-----------------------------------------------------------------------------
(* Ports, connections, clients *)

Side == {"left", "right"}

(* A port is the side of a client, or of the system: <<System, side>> is a *)
(* capture port where a connection begins, a playback port where it ends.  *)
System == 0

Port == (ClientId \cup {System}) \X Side

NoClient == -1

Link(from, to, ok) == {<<<<from, s>>, <<to, s>>>> : s \in ok}

LinksOf(c) == {l \in links : c \in {l[1][1], l[2][1]}}

Client(name) ==
  [name |-> name, generation |-> m_pluginHandler.generation,
   ring |-> <<>>, values |-> [k \in ParameterIndex |-> Unset]]

\* Any id that is free; ClientId bounds the clients the server can hold.
FreshId == CHOOSE c \in ClientId : c \notin DOMAIN clients

With(f, x, v) == [y \in DOMAIN f \cup {x} |-> IF y = x THEN v ELSE f[y]]

Without(f, x) == [y \in DOMAIN f \ {x} |-> f[y]]

None == [x \in {} |-> 0]

Names(effects) == [i \in DOMAIN effects |-> effects[i].name]

NoHandler == [alive |-> FALSE, generation |-> 0, plugins |-> {}]

-----------------------------------------------------------------------------
(* Parameters *)

\* The loop for (i = 0; i < params.size(); ++i) setParameter({i, params[i]}).
WritesFromOne(params) ==                                 \* mutant
  [i \in 1 .. Len(params) |-> [index |-> i, value |-> params[i]]]
Writes(params) ==
  [i \in 1 .. Len(params) |-> [index |-> i - 1, value |-> params[i]]]

Apply(values, parameter) == [values EXCEPT ![parameter.index] = parameter.value]

\* values after a sequence of parameters
ApplyAll(values, parameters) ==
  [k \in DOMAIN values |->
    LET at == {i \in 1 .. Len(parameters) : parameters[i].index = k} IN
      IF at = {} THEN values[k]
      ELSE parameters[CHOOSE i \in at : \A j \in at : j <= i].value]

DefaultValues == [k \in ParameterIndex |-> Unset]

-----------------------------------------------------------------------------
Init ==
  /\ ctl = "factory"
  /\ config = DefaultConfig
  /\ client = NoClient
  /\ writes = <<>>
  /\ m_currentConfig = <<>>
  /\ m_globalSettings = [monoInput |-> FALSE]
  /\ m_pluginHandler = NoHandler
  /\ m_fxChain = <<>>
  /\ clients = None
  /\ links = {}
  /\ directory \in SUBSET Name
  /\ requested = <<>>
  /\ requests = 0
  /\ applied = 0

(* The requests *)

Receive == ctl = "idle" /\ requests < MaxRequests /\ requests' = requests + 1

PutConfig(c) ==
  /\ Receive
  /\ ctl' = "clear"
  /\ config' = c
  /\ UNCHANGED <<client, writes, members, server, directory, requested, applied>>

SettingsStored(mono) == UNCHANGED m_globalSettings      \* mutant
StoreSettings(mono) == m_globalSettings' = [monoInput |-> mono]

\* onApplyConfig(m_currentConfig), rather than new connections for the old chain.
Reconnect == ctl' = IF m_fxChain = <<>> THEN "clear" ELSE "capture"   \* mutant
Rebuild == ctl' = "clear"

PutGlobalSettings(mono) ==
  /\ Receive
  /\ StoreSettings(mono)
  /\ Rebuild
  /\ config' = m_currentConfig
  /\ UNCHANGED <<client, writes, m_currentConfig, m_pluginHandler, m_fxChain,
                 server, directory, requested, applied>>

PostReload ==
  /\ Receive
  /\ ctl' = "reload"
  /\ config' = m_currentConfig
  /\ UNCHANGED <<client, writes, members, server, directory, requested, applied>>

FrontClient(index) == Head(m_fxChain)                   \* mutant
ClientAt(index) == m_fxChain[index + 1]

PutParameters(index, params) ==
  /\ Receive
  /\ \/ /\ index >= Len(m_fxChain)
        /\ UNCHANGED <<ctl, client, writes, requested>>
     \/ /\ index < Len(m_fxChain)
        /\ ctl' = "put"
        /\ client' = ClientAt(index)
        /\ writes' = Writes(params)
        /\ requested' = [requested EXCEPT ![index + 1] = ApplyAll(@, Writes(params))]
  /\ UNCHANGED <<config, members, server, directory, applied>>

\* io_context::run returns: the controller is destroyed, then main ends.
Shutdown ==
  /\ ctl = "idle"
  /\ ctl' = "shutdown"
  /\ UNCHANGED <<local, members, server, directory, history>>

(* m_fxChain.clear(): the clients are destroyed first to last. *)

CloseClient ==
  /\ ctl \in {"clear", "reload", "shutdown"}
  /\ m_fxChain # <<>>
  /\ clients' = Without(clients, Head(m_fxChain))
  /\ links' = links \ LinksOf(Head(m_fxChain))
  /\ m_fxChain' = Tail(m_fxChain)
  /\ UNCHANGED <<ctl, local, m_currentConfig, m_globalSettings, m_pluginHandler,
                 directory, history>>

(* onReload; the controller's constructor and destructor *)

ChainNotCleared == TRUE                       \* mutant
ChainCleared == m_fxChain = <<>>

ResetHandler ==
  /\ ctl \in {"reload", "shutdown"}
  /\ ChainCleared
  /\ m_pluginHandler' = [m_pluginHandler EXCEPT !.alive = FALSE, !.plugins = {}]
  /\ ctl' = IF ctl = "reload" THEN "factory" ELSE "terminated"
  /\ UNCHANGED <<local, m_currentConfig, m_globalSettings, m_fxChain, server,
                 directory, history>>

MakeHandler ==
  /\ ctl = "factory"
  /\ \/ /\ m_pluginHandler' = [alive |-> TRUE, plugins |-> directory,
                               generation |-> m_pluginHandler.generation + 1]
        /\ ctl' = "clear"
     \/ ctl' = "thrown" /\ UNCHANGED m_pluginHandler
  /\ UNCHANGED <<local, m_currentConfig, m_globalSettings, m_fxChain, server,
                 directory, history>>

(* onApplyConfig *)

\* The early return for an empty configuration, before the assignment.
OnlyNonEmpty == IF config = <<>> THEN m_currentConfig ELSE config   \* mutant
ConfigApplied == config

ApplyConfig ==
  /\ ctl = "clear"
  /\ ChainCleared
  /\ m_currentConfig' = ConfigApplied
  /\ ctl' = IF config = <<>> THEN "idle" ELSE "create"
  /\ requested' = [i \in 1 .. Len(config) |->
                    ApplyAll(DefaultValues, Writes(config[i].parameters))]
  /\ applied' = applied + 1
  /\ UNCHANGED <<local, m_globalSettings, m_pluginHandler, m_fxChain, server,
                 directory, requests>>

\* Another attempt instead of an exception.
CreateAgain == ctl = "create" /\ UNCHANGED vars           \* mutant

\* getPlugin finds no such plugin, or the JackClientImpl constructor throws.
CreateFails ==
  /\ ctl = "create"
  /\ ctl' = "thrown"
  /\ UNCHANGED <<local, members, server, directory, history>>

CreateClient ==
  /\ ctl = "create"
  /\ LET effect == config[Len(m_fxChain) + 1]
     IN
       /\ effect.name \in m_pluginHandler.plugins
       /\ ~ClientId \subseteq DOMAIN clients
       /\ client' = FreshId
       /\ clients' = With(clients, FreshId, Client(effect.name))
       /\ writes' = Writes(effect.parameters)
  /\ ctl' = "write"
  /\ UNCHANGED <<config, members, links, directory, history>>

\* JackClientImpl::setParameter
WriteParameter ==
  /\ ctl \in {"write", "put"}
  /\ writes # <<>>
  /\ IF Len(clients[client].ring) < RingCapacity
     THEN /\ clients' = [clients EXCEPT ![client].ring = Append(@, Head(writes))]
          /\ writes' = Tail(writes)
          /\ UNCHANGED ctl
     ELSE ctl' = "thrown" /\ UNCHANGED <<clients, writes>>
  /\ UNCHANGED <<config, client, members, links, directory, history>>

EndWrites ==
  /\ ctl \in {"write", "put"}
  /\ writes = <<>>
  /\ ctl' = IF ctl = "write" THEN "connect" ELSE "idle"
  /\ client' = IF ctl = "write" THEN client ELSE NoClient
  /\ UNCHANGED <<config, writes, members, server, directory, history>>

\* Of two calls of jack_connect, either may fail, and then both throw.
Connect(from, to, ok) == links' = links \cup Link(from, to, ok)

ConnectInputs ==
  /\ ctl = "connect"
  /\ \E ok \in SUBSET Side :
       /\ IF m_fxChain = <<>> THEN UNCHANGED links
          ELSE Connect(Last(m_fxChain), client, ok)
       /\ IF m_fxChain = <<>> \/ ok = Side
          THEN /\ m_fxChain' = Append(m_fxChain, client)
               /\ client' = NoClient
               /\ ctl' = IF Len(m_fxChain) + 1 < Len(config) THEN "create" ELSE "capture"
          ELSE ctl' = "thrown" /\ UNCHANGED <<client, m_fxChain>>
  /\ UNCHANGED <<config, writes, m_currentConfig, m_globalSettings,
                 m_pluginHandler, clients, directory, history>>

RightCaptureByPorts == IF CapturePorts < 2 THEN "left" ELSE "right"   \* mutant
RightCapture ==
  IF m_globalSettings.monoInput \/ CapturePorts < 2 THEN "left" ELSE "right"

\* JackClientImpl::connectInputsToCapturePorts on m_fxChain.front()
ConnectCapture ==
  /\ ctl = "capture"
  /\ \E ok \in SUBSET Side :
       LET front == Head(m_fxChain)
           made == {<<<<System, IF s = "right" THEN RightCapture ELSE s>>, <<front, s>>>> :
                      s \in ok}
       IN /\ CapturePorts = 0 => ok = {}
          /\ links' = links \cup made
          /\ ctl' = IF ok = Side THEN "playback" ELSE "thrown"
  /\ UNCHANGED <<local, members, clients, directory, history>>

\* JackClientImpl::connectOutputsToPlaybackPorts on m_fxChain.back()
ConnectPlayback ==
  /\ ctl = "playback"
  /\ \E ok \in SUBSET Side :
       /\ Connect(Last(m_fxChain), System, ok)
       /\ ctl' = IF ok = Side THEN "idle" ELSE "thrown"
  /\ UNCHANGED <<local, members, clients, directory, history>>

\* std::terminate: the JACK server drops the clients of the process.
Terminate ==
  /\ ctl = "thrown"
  /\ ctl' = "terminated"
  /\ clients' = None
  /\ links' = {}
  /\ m_fxChain' = <<>>
  /\ m_pluginHandler' = [m_pluginHandler EXCEPT !.alive = FALSE, !.plugins = {}]
  /\ UNCHANGED <<local, m_currentConfig, m_globalSettings, directory, history>>

Serve ==
  \/ CloseClient \/ ResetHandler \/ MakeHandler
  \/ ApplyConfig \/ CreateFails \/ CreateClient \/ WriteParameter \/ EndWrites
  \/ ConnectInputs \/ ConnectCapture \/ ConnectPlayback
  \/ Terminate

Request ==
  \/ \E c \in Configs : PutConfig(c)
  \/ \E mono \in BOOLEAN : PutGlobalSettings(mono)
  \/ \E index \in 0 .. Len(m_fxChain), params \in ParameterLists : PutParameters(index, params)
  \/ PostReload

(* The JACK thread of a client: process(), which takes one parameter. *)

MoreThanOnePending(c) == Len(clients[c].ring) > 1         \* mutant
ParameterPending(c) == clients[c].ring # <<>>

Process(c) ==
  /\ c \in DOMAIN clients
  /\ ParameterPending(c)
  /\ clients' = [clients EXCEPT ![c].values = Apply(@, Head(clients[c].ring)),
                                ![c].ring = Tail(@)]
  /\ UNCHANGED <<ctl, local, members, links, directory, history>>

(* Plugins are installed in and removed from the plugin directory. *)

ChangeDirectory ==
  /\ directory' \in SUBSET Name \ {directory}
  /\ UNCHANGED <<ctl, local, members, server, history>>

Next ==
  \/ Serve \/ Request \/ Shutdown
  \/ (\E c \in ClientId : Process(c))
  \/ ChangeDirectory

Spec == Init /\ [][Next]_vars

(***************************************************************************)
(* A request that is being served goes on, and the JACK server runs the    *)
(* callbacks of its clients.  No request need come.                        *)
(***************************************************************************)
FairSpec == Spec /\ WF_vars(Serve) /\ \A c \in ClientId : WF_vars(Process(c))

-----------------------------------------------------------------------------
(* Properties *)

Parameter == [index : ParameterIndex, value : Value]

Values == [ParameterIndex -> Value \cup {Unset}]

\* The values the variables range over.
TypeOK ==
  /\ ctl \in {"idle", "factory", "clear", "reload", "shutdown", "create", "write",
              "put", "connect", "capture", "playback", "thrown", "terminated"}
  /\ config \in Seq(Effect)
  /\ client \in ClientId \cup {NoClient}
  /\ writes \in Seq(Parameter)
  /\ m_currentConfig \in Seq(Effect)
  /\ m_globalSettings \in [monoInput : BOOLEAN]
  /\ m_pluginHandler \in [alive : BOOLEAN, plugins : SUBSET Name, generation : Nat]
  /\ m_fxChain \in Seq(ClientId)
  /\ DOMAIN clients \subseteq ClientId
  /\ clients \in [DOMAIN clients ->
       [name : Name, generation : Nat, ring : Seq(Parameter), values : Values]]
  /\ links \subseteq Port \X Port
  /\ directory \subseteq Name
  /\ requested \in Seq(Values)
  /\ requests \in 0 .. MaxRequests
  /\ applied \in Nat

(***************************************************************************)
(* Sound goes from one side of the system to the other along a path of     *)
(* clients: from the capture port into the first, from each into the next, *)
(* from the last to the playback port.  A client lets through what comes   *)
(* in at a side on the same side.                                          *)
(***************************************************************************)
Paths(from, to) ==
  {p \in UNION {[1 .. n -> DOMAIN clients] : n \in 1 .. Cardinality(DOMAIN clients)} :
    /\ <<<<System, from>>, <<p[1], to>>>> \in links
    /\ \A i \in 1 .. Len(p) - 1 : <<<<p[i], to>>, <<p[i + 1], to>>>> \in links
    /\ <<<<p[Len(p)], to>>, <<System, to>>>> \in links}

Along(p) == [i \in 1 .. Len(p) |-> clients[p[i]].name]

\* Every way that sound takes: the effects it passes, and between which ports.
Heard ==
  UNION {{[effects |-> Along(p), from |-> from, to |-> to] : p \in Paths(from, to)} :
           from \in Side, to \in Side}

(***************************************************************************)
(* What sounds passes all effects of the current configuration in its      *)
(* order: never a part of it, the remains of the one before, or both.      *)
(***************************************************************************)
WholeConfigOrSilence == \A way \in Heard : way.effects = Names(m_currentConfig)

Service == INSTANCE FxService WITH
  configuration <- [number |-> applied, effects |-> Names(m_currentConfig)],
  sounding <- Heard

(***************************************************************************)
(* Between two configurations there is silence, even if they have the same *)
(* effects, and between two routings of one: a capture port is never       *)
(* exchanged under the sound, and no side is added to the other or taken   *)
(* from it.                                                                *)
(***************************************************************************)
ImplementsService == Service!Spec

(***************************************************************************)
(* Every client that JACK may call runs code of the handler that is alive: *)
(* reload and shutdown unload no plugin whose processor is still called.   *)
(***************************************************************************)
ProcessorCodeMapped ==
  \A c \in DOMAIN clients :
    m_pluginHandler.alive /\ clients[c].generation = m_pluginHandler.generation

(***************************************************************************)
(* Between requests the open clients are those of the chain, each once,    *)
(* and they are the effects of the current configuration: no failure and   *)
(* no reconfiguration leaves a stray client in the JACK graph.             *)
(***************************************************************************)
ChainIsCurrentConfig ==
  ctl = "idle" =>
    /\ [i \in 1 .. Len(m_fxChain) |-> clients[m_fxChain[i]].name] = Names(m_currentConfig)
    /\ DOMAIN clients = {m_fxChain[i] : i \in 1 .. Len(m_fxChain)}
    /\ Cardinality(DOMAIN clients) = Len(m_fxChain)

(***************************************************************************)
(* Between requests the connections are those of the chain, all of them    *)
(* and no others: from the capture ports that the current global settings  *)
(* say into both inputs of the first effect, from each effect into the     *)
(* next, and from the last to the playback ports.                          *)
(***************************************************************************)
RightFrom == IF CapturePorts > 1 /\ ~m_globalSettings.monoInput THEN "right" ELSE "left"

InputsOf(front) ==
  {<<<<System, "left">>, <<front, "left">>>>, <<<<System, RightFrom>>, <<front, "right">>>>}

Neighbours ==
  {<<<<m_fxChain[i], s>>, <<m_fxChain[i + 1], s>>>> : i \in 1 .. Len(m_fxChain) - 1, s \in Side}

OutputsOf(back) == {<<<<back, s>>, <<System, s>>>> : s \in Side}

RoutingIsCurrent ==
  ctl = "idle" =>
    links = IF m_fxChain = <<>> THEN {}
            ELSE InputsOf(m_fxChain[1]) \cup Neighbours \cup OutputsOf(m_fxChain[Len(m_fxChain)])

(***************************************************************************)
(* Between requests the parameters that every processor has, once its ring *)
(* is empty, are the last ones asked for at its place in the chain, by the *)
(* configuration or by a later PUT: whatever the callbacks consumed while  *)
(* they were written, and although positions were given new clients.       *)
(***************************************************************************)
LastRequestWins ==
  ctl = "idle" =>
    \A i \in 1 .. Len(m_fxChain) :
      ApplyAll(clients[m_fxChain[i]].values, clients[m_fxChain[i]].ring) = requested[i]

(***************************************************************************)
(* "Current configuration" (controller.cc:140) is what onGetConfig returns *)
(* and what reload and global settings build again: its parameters are     *)
(* those the effects have been given.                                      *)
(***************************************************************************)
CurrentConfigIsCurrent ==
  ctl = "idle" =>
    \A i \in 1 .. Len(m_fxChain) :
      requested[i] = ApplyAll(DefaultValues, Writes(m_currentConfig[i].parameters))

\* A request that is received is served, or ends the process.
RequestEnds == ctl # "idle" ~> ctl \in {"idle", "terminated"}

\* Parameters that were written reach the processor, or its client is closed.
ParametersArrive ==
  \A c \in ClientId :
    c \in DOMAIN clients ~> c \notin DOMAIN clients \/ clients[c].ring = <<>>
=============================================================================

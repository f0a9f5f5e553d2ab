-------------------------- MODULE ControllerProofs --------------------------
(***************************************************************************)
(* Machine-checked proofs about Controller, for every set of effects,      *)
(* configurations and parameter lists, rings and chains of every length    *)
(* and any number of requests: what goes through the chain (wholeness,     *)
(* routing, code), what its processors are set to, and that the controller *)
(* implements FxService.                                                   *)
(***************************************************************************)
EXTENDS Controller, FiniteSetTheorems, SequenceTheorems, WellFoundedInduction, TLAPS

(* The inductive invariant *)

Position == 1 .. Len(m_fxChain)

Chain == {m_fxChain[i] : i \in Position}

\* The places of the control thread where there is a chain, or part of one, of
\* the current configuration, and those where it is complete.
Building == ctl \in {"create", "write", "connect"}
Complete == ctl \in {"idle", "put", "capture", "playback"}

\* Clients that are open are those of the chain, each at one place, and the
\* one that is being made.
ClientsOfChain ==
  /\ \A i, j \in Position : m_fxChain[i] = m_fxChain[j] => i = j
  /\ Chain \subseteq DOMAIN clients
  /\ DOMAIN clients \subseteq Chain \cup {client}
  /\ ctl \in {"factory", "terminated"} => m_fxChain = <<>>
  /\ ctl \in {"write", "connect"} => client \in DOMAIN clients /\ client \notin Chain
  /\ ctl = "put" => client \in Chain
  /\ ctl \notin {"write", "connect", "put", "thrown", "terminated"} => client = NoClient

\* The handler that is alive made every processor there is.
CodeOfHandler ==
  /\ ProcessorCodeMapped
  /\ ctl \in {"factory", "terminated"} => DOMAIN clients = {}
  /\ ~m_pluginHandler.alive => m_pluginHandler.plugins = {}

\* Position by position the chain becomes the current configuration.
EffectAt(i) == m_currentConfig[i].name

ChainSoFar ==
  /\ Building \/ ctl \in {"capture", "playback"} => config = m_currentConfig
  /\ Building => Len(m_fxChain) < Len(m_currentConfig)
  /\ Complete => Len(m_fxChain) = Len(m_currentConfig)
  /\ ctl \in {"capture", "playback"} => m_fxChain # <<>>
  /\ Building \/ Complete => \A i \in Position : clients[m_fxChain[i]].name = EffectAt(i)
  /\ ctl \in {"write", "connect"} => clients[client].name = EffectAt(Len(m_fxChain) + 1)

\* A connection is one within the chain, into its first client or out of its
\* last; after a failure that is certain only if the chain is fed.
WithinChain(l) ==
  \E i \in 1 .. Len(m_fxChain) - 1, s \in Side :
    l = <<<<m_fxChain[i], s>>, <<m_fxChain[i + 1], s>>>>

IntoChain(l) ==
  m_fxChain # <<>> /\ \E s, t \in Side : l = <<<<System, s>>, <<m_fxChain[1], t>>>>

OutOfChain(l) ==
  m_fxChain # <<>> /\ \E s \in Side :
    l = <<<<m_fxChain[Len(m_fxChain)], s>>, <<System, s>>>>

Fed == \E l \in links : l[1][1] = System

LinksAlongChain ==
  /\ ctl # "thrown" \/ Fed =>
       \A l \in links : WithinChain(l) \/ IntoChain(l) \/ OutOfChain(l)
  /\ Building => \A l \in links : l[2][1] # System

\* Only a chain that is the whole of the current configuration is fed.
FedIsWhole ==
  Fed =>
    /\ ~Building /\ ctl # "capture"
    /\ Len(m_fxChain) = Len(m_currentConfig)
    /\ \A i \in Position : clients[m_fxChain[i]].name = EffectAt(i)

\* Both inputs of the first client are as the global settings have them.
InputsAsSet ==
  ctl \in {"idle", "put", "playback"} /\ m_fxChain # <<>> =>
    {l \in links : l[1][1] = System} = InputsOf(Head(m_fxChain))

\* What a client's processor will have when its ring is empty, and when what
\* the control thread has still to write there has gone through it as well.
Settled(c) == ApplyAll(clients[c].values, clients[c].ring)

Due(c) == IF c = client THEN ApplyAll(Settled(c), writes) ELSE Settled(c)

ParametersDue ==
  /\ Len(requested) = Len(m_currentConfig)
  /\ Building \/ ctl \in {"capture", "playback"} =>
       \A i \in 1 .. Len(m_currentConfig) :
         requested[i] = ApplyAll(DefaultValues, Writes(m_currentConfig[i].parameters))
  /\ Building \/ Complete => \A i \in Position : Due(m_fxChain[i]) = requested[i]
  /\ ctl \in {"write", "connect"} => Due(client) = requested[Len(m_fxChain) + 1]
  /\ ctl = "connect" => writes = <<>>

ControllerInv ==
  /\ TypeOK
  /\ ClientsOfChain
  /\ CodeOfHandler
  /\ ChainSoFar
  /\ LinksAlongChain
  /\ FedIsWhole
  /\ InputsAsSet
  /\ ParametersDue

-----------------------------------------------------------------------------
(* Parameters *)

Less == {p \in Nat \X Nat : p[1] < p[2]}

\* The order of the naturals, in the form in which the arguments by a least
\* element below use it.
LEMMA LessIsWellFounded == IsWellFoundedOn(Less, Nat)
BY NatLessThanWellFounded, Zenon DEF OpToRel, Less

\* Sets of naturals have a least element: what stands for induction here.
LEMMA Least ==
  ASSUME NEW T \in SUBSET Nat, T # {}
  PROVE  \E x \in T : \A y \in T : x <= y
<1>1. PICK x \in T : \A y \in T : ~(<<y, x>> \in Less)
  BY LessIsWellFounded, WFMin
<1>2. \A y \in T : ~(y < x)
  BY <1>1 DEF Less
<1> QED BY <1>2

\* A place in a sequence that is not after all the others of its kind is before one.
LEMMA LastOf ==
  ASSUME NEW n \in Nat, NEW at \in SUBSET (1 .. n), at # {}
  PROVE  \E i \in at : \A j \in at : j <= i
<1> DEFINE T == {n - i : i \in at}
<1>1. T \in SUBSET Nat /\ T # {}
  <2>1. \A i \in at : n - i \in Nat
    OBVIOUS
  <2> QED BY <2>1
<1>2. PICK x \in T : \A y \in T : x <= y
  BY <1>1, Least
<1>3. PICK i \in at : x = n - i
  OBVIOUS
<1>4. \A j \in at : n - i <= n - j
  BY <1>2, <1>3
<1>5. \A j \in at : j <= i
  BY <1>4
<1> QED BY <1>5

\* The last of the parameters with an index gives the value ...
LEMMA ApplyAllLast ==
  ASSUME NEW values \in Values, NEW ps \in Seq(Parameter), NEW k \in ParameterIndex,
         NEW i \in 1 .. Len(ps), ps[i].index = k,
         \A j \in 1 .. Len(ps) : ps[j].index = k => j <= i
  PROVE  ApplyAll(values, ps)[k] = ps[i].value
<1> DEFINE at == {j \in 1 .. Len(ps) : ps[j].index = k}
<1>1. i \in at /\ at # {} /\ \A j \in at : j <= i
  OBVIOUS
<1>2. (CHOOSE l \in at : \A j \in at : j <= l) = i
  <2>1. \A l \in at : (\A j \in at : j <= l) => l = i
    BY <1>1
  <2> QED BY <1>1, <2>1
<1>3. DOMAIN values = ParameterIndex
  BY DEF Values
<1> QED BY <1>1, <1>2, <1>3 DEF ApplyAll

\* ... and an index that none of them has keeps its own.
LEMMA ApplyAllNone ==
  ASSUME NEW values \in Values, NEW ps \in Seq(Parameter), NEW k \in ParameterIndex,
         \A j \in 1 .. Len(ps) : ps[j].index # k
  PROVE  ApplyAll(values, ps)[k] = values[k]
<1>1. {j \in 1 .. Len(ps) : ps[j].index = k} = {}
  OBVIOUS
<1>2. DOMAIN values = ParameterIndex
  BY DEF Values
<1> QED BY <1>1, <1>2 DEF ApplyAll

\* Of these two there is always one.
LEMMA LastOrNone ==
  ASSUME NEW ps \in Seq(Parameter), NEW k
  PROVE  \/ \E i \in 1 .. Len(ps) :
              /\ ps[i].index = k
              /\ \A j \in 1 .. Len(ps) : ps[j].index = k => j <= i
         \/ \A j \in 1 .. Len(ps) : ps[j].index # k
<1> DEFINE at == {j \in 1 .. Len(ps) : ps[j].index = k}
<1>1. CASE at = {}
  BY <1>1
<1>2. CASE at # {}
  <2>1. Len(ps) \in Nat /\ at \in SUBSET (1 .. Len(ps))
    OBVIOUS
  <2>2. \E i \in at : \A j \in at : j <= i
    BY <1>2, <2>1, LastOf
  <2> QED BY <2>2
<1> QED BY <1>1, <1>2

\* Applying any parameters to a processor's values leaves values.
LEMMA ApplyAllType ==
  ASSUME NEW values \in Values, NEW ps \in Seq(Parameter)
  PROVE  ApplyAll(values, ps) \in Values
<1>1. DOMAIN values = ParameterIndex
  BY DEF Values
<1>2. ApplyAll(values, ps) = [k \in ParameterIndex |-> ApplyAll(values, ps)[k]]
  BY <1>1 DEF ApplyAll
<1>3. \A k \in ParameterIndex : ApplyAll(values, ps)[k] \in Value \cup {Unset}
  <2> TAKE k \in ParameterIndex
  <2>1. CASE \A j \in 1 .. Len(ps) : ps[j].index # k
    BY <2>1, ApplyAllNone DEF Values
  <2>2. ASSUME NEW i \in 1 .. Len(ps), ps[i].index = k,
               \A j \in 1 .. Len(ps) : ps[j].index = k => j <= i
        PROVE  ApplyAll(values, ps)[k] \in Value
    <3>1. ps[i] \in Parameter
      OBVIOUS
    <3> QED BY <2>2, <3>1, ApplyAllLast DEF Parameter
  <2> QED BY <2>1, <2>2, LastOrNone
<1> QED BY <1>2, <1>3 DEF Values

\* Values that agree at every index are the same.
LEMMA SameValues ==
  ASSUME NEW v \in Values, NEW w \in Values, \A k \in ParameterIndex : v[k] = w[k]
  PROVE  v = w
BY DEF Values

\* A ring with nothing in it changes nothing.
LEMMA ApplyAllEmpty ==
  ASSUME NEW values \in Values
  PROVE  ApplyAll(values, <<>>) = values
<1>1. <<>> \in Seq(Parameter) /\ \A j \in 1 .. Len(<<>>) : FALSE
  OBVIOUS
<1>2. \A k \in ParameterIndex : ApplyAll(values, <<>>)[k] = values[k]
  BY <1>1, ApplyAllNone
<1> QED BY <1>1, <1>2, ApplyAllType, SameValues

\* A parameter changes the value at its index and no other (setParameter of the
\* processors).
LEMMA ApplyType ==
  ASSUME NEW values \in Values, NEW p \in Parameter
  PROVE  /\ Apply(values, p) \in Values
         /\ Apply(values, p)[p.index] = p.value
         /\ \A k \in ParameterIndex : k # p.index => Apply(values, p)[k] = values[k]
BY DEF Values, Parameter, Apply

\* A parameter that comes last is applied last.
LEMMA ApplyAllAppend ==
  ASSUME NEW values \in Values, NEW ps \in Seq(Parameter), NEW p \in Parameter
  PROVE  ApplyAll(values, Append(ps, p)) = Apply(ApplyAll(values, ps), p)
<1> DEFINE qs == Append(ps, p)
           before == ApplyAll(values, ps)
<1>1. /\ qs \in Seq(Parameter) /\ Len(qs) = Len(ps) + 1 /\ Len(ps) \in Nat
      /\ \A j \in 1 .. Len(ps) : qs[j] = ps[j]
      /\ qs[Len(ps) + 1] = p
  BY AppendProperties
<1>2. before \in Values /\ ApplyAll(values, qs) \in Values
  BY <1>1, ApplyAllType
<1> HIDE DEF qs, before
<1>3. ASSUME NEW k \in ParameterIndex
      PROVE  ApplyAll(values, qs)[k] = Apply(before, p)[k]
  <2>1. CASE k = p.index
    <3>1. ApplyAll(values, qs)[k] = p.value
      <4>1. Len(ps) + 1 \in 1 .. Len(qs) /\ qs[Len(ps) + 1].index = k
        BY <1>1, <2>1
      <4>2. \A j \in 1 .. Len(qs) : qs[j].index = k => j <= Len(ps) + 1
        BY <1>1
      <4> QED BY <1>1, <4>1, <4>2, ApplyAllLast
    <3> QED BY <2>1, <3>1, <1>2, ApplyType
  <2>2. CASE k # p.index
    <3>1. Apply(before, p)[k] = before[k]
      BY <2>2, <1>2, ApplyType
    <3>2. CASE \A j \in 1 .. Len(ps) : ps[j].index # k
      <4>1. \A j \in 1 .. Len(qs) : qs[j].index # k
        BY <3>2, <2>2, <1>1
      <4> QED BY <4>1, <3>1, <3>2, <1>1, ApplyAllNone DEF before
    <3>3. ASSUME NEW i \in 1 .. Len(ps), ps[i].index = k,
                 \A j \in 1 .. Len(ps) : ps[j].index = k => j <= i
          PROVE  ApplyAll(values, qs)[k] = Apply(before, p)[k]
      <4>1. i \in 1 .. Len(qs) /\ qs[i] = ps[i]
        BY <1>1
      <4>2. \A j \in 1 .. Len(qs) : qs[j].index = k => j <= i
        BY <3>3, <2>2, <1>1
      <4>3. ApplyAll(values, qs)[k] = ps[i].value
        BY <4>1, <4>2, <3>3, <1>1, ApplyAllLast
      <4>4. before[k] = ps[i].value
        BY <3>3, ApplyAllLast DEF before
      <4> QED BY <4>3, <4>4, <3>1
    <3> QED BY <3>2, <3>3, LastOrNone
  <2> QED BY <2>1, <2>2
<1>4. Apply(before, p) \in Values
  BY <1>2, ApplyType
<1> QED BY <1>2, <1>3, <1>4, SameValues DEF qs, before

\* A parameter that comes first is applied first.
LEMMA ApplyAllHead ==
  ASSUME NEW values \in Values, NEW ps \in Seq(Parameter), ps # <<>>
  PROVE  ApplyAll(Apply(values, Head(ps)), Tail(ps)) = ApplyAll(values, ps)
<1> DEFINE p == Head(ps)
           qs == Tail(ps)
           first == Apply(values, p)
<1>1. /\ p \in Parameter /\ p = ps[1]
      /\ qs \in Seq(Parameter) /\ Len(qs) = Len(ps) - 1 /\ Len(ps) \in Nat /\ Len(ps) > 0
      /\ \A j \in 1 .. Len(qs) : qs[j] = ps[j + 1]
  BY HeadTailProperties
<1>2. first \in Values
  BY <1>1, ApplyType
<1>3. ApplyAll(first, qs) \in Values /\ ApplyAll(values, ps) \in Values
  BY <1>1, <1>2, ApplyAllType
<1> HIDE DEF p, qs, first
<1>4. ASSUME NEW k \in ParameterIndex
      PROVE  ApplyAll(first, qs)[k] = ApplyAll(values, ps)[k]
  <2>1. ASSUME NEW i \in 1 .. Len(qs), qs[i].index = k,
               \A j \in 1 .. Len(qs) : qs[j].index = k => j <= i
        PROVE  ApplyAll(first, qs)[k] = ApplyAll(values, ps)[k]
    <3>1. ApplyAll(first, qs)[k] = qs[i].value
      BY <1>1, <1>2, <2>1, ApplyAllLast
    <3>2. i + 1 \in 1 .. Len(ps) /\ ps[i + 1] = qs[i]
      BY <1>1
    <3>3. ASSUME NEW j \in 1 .. Len(ps), ps[j].index = k
          PROVE  j <= i + 1
      <4>1. CASE j = 1
        BY <4>1
      <4>2. CASE j # 1
        <5>1. j - 1 \in 1 .. Len(qs) /\ qs[j - 1] = ps[j]
          BY <4>2, <1>1
        <5> QED BY <5>1, <3>3, <2>1
      <4> QED BY <4>1, <4>2
    <3>4. ApplyAll(values, ps)[k] = ps[i + 1].value
      BY <3>2, <3>3, <2>1, ApplyAllLast
    <3> QED BY <3>1, <3>2, <3>4
  <2>2. CASE \A j \in 1 .. Len(qs) : qs[j].index # k
    <3>1. ApplyAll(first, qs)[k] = first[k]
      BY <1>1, <1>2, <2>2, ApplyAllNone
    <3>2. \A j \in 1 .. Len(ps) : j # 1 => ps[j].index # k
      <4> TAKE j \in 1 .. Len(ps)
      <4>1. j # 1 => j - 1 \in 1 .. Len(qs) /\ qs[j - 1] = ps[j]
        BY <1>1
      <4> QED BY <4>1, <2>2
    <3>3. CASE k = p.index
      <4>1. 1 \in 1 .. Len(ps) /\ ps[1].index = k
        BY <3>3, <1>1
      <4>2. \A j \in 1 .. Len(ps) : ps[j].index = k => j <= 1
        BY <3>2
      <4>3. ApplyAll(values, ps)[k] = ps[1].value
        BY <4>1, <4>2, ApplyAllLast
      <4>4. first[k] = p.value
        BY <3>3, <1>1, ApplyType DEF first
      <4> QED BY <4>3, <4>4, <3>1, <1>1
    <3>4. CASE k # p.index
      <4>1. \A j \in 1 .. Len(ps) : ps[j].index # k
        BY <3>2, <3>4, <1>1
      <4>2. ApplyAll(values, ps)[k] = values[k]
        BY <4>1, ApplyAllNone
      <4>3. first[k] = values[k]
        BY <3>4, <1>1, ApplyType DEF first
      <4> QED BY <4>2, <4>3, <3>1
    <3> QED BY <3>3, <3>4
  <2> QED BY <1>1, <2>1, <2>2, LastOrNone
<1> QED BY <1>3, <1>4, SameValues DEF p, qs, first

\* The parameters of a list are parameters.
LEMMA WritesType ==
  ASSUME NEW params \in ParameterLists
  PROVE  Writes(params) \in Seq(Parameter)
<1>1. params \in Seq(Value) /\ Len(params) \in Nat
  BY RequestAssumption
<1>2. \A i \in 1 .. Len(params) : [index |-> i - 1, value |-> params[i]] \in Parameter
  BY <1>1, RequestAssumption DEF Parameter
<1>3. Writes(params) \in [1 .. Len(params) -> Parameter]
  BY <1>2 DEF Writes
<1> QED BY <1>1, <1>3

\* What a new processor starts with are values.
LEMMA DefaultValuesType == DefaultValues \in Values
BY DEF DefaultValues, Values

-----------------------------------------------------------------------------
(* Clients *)

\* What is called neither the system nor a client that is not there.
LEMMA ClientIds ==
  /\ System \notin ClientId
  /\ NoClient \notin ClientId
  /\ NoClient # System
BY ResourceAssumption DEF System, NoClient

\* A new client takes a name that no open client has.
LEMMA FreshIdIsFree ==
  ASSUME ~ClientId \subseteq DOMAIN clients
  PROVE  FreshId \in ClientId /\ FreshId \notin DOMAIN clients
BY DEF FreshId

\* Without a client that is being made, the clients are those of the chain.
LEMMA ClientsAreChain ==
  ASSUME TypeOK, ClientsOfChain, client = NoClient \/ client \in Chain
  PROVE  DOMAIN clients = Chain
<1>1. /\ Chain \subseteq DOMAIN clients /\ DOMAIN clients \subseteq Chain \cup {client}
      /\ DOMAIN clients \subseteq ClientId
  BY DEF TypeOK, ClientsOfChain
<1>2. ASSUME NEW c \in DOMAIN clients
      PROVE  c \in Chain
  BY <1>1, ClientIds
<1> QED BY <1>1, <1>2

\* With no client, nothing is connected.
LEMMA NoLinksOfEmptyChain ==
  ASSUME TypeOK, LinksAlongChain, m_fxChain = <<>>, ctl # "thrown"
  PROVE  links = {}
<1>1. Len(m_fxChain) = 0
  OBVIOUS
<1>2. \A l \in links : FALSE
  BY <1>1 DEF LinksAlongChain, WithinChain, IntoChain, OutOfChain
<1> QED BY <1>2

-----------------------------------------------------------------------------
(* One lemma for each action *)

\* The controller starts with an empty chain and no clients, where the
\* invariant holds.
LEMMA InitEstablishes == ASSUME Init PROVE ControllerInv
<1> USE DEF Init
<1>1. DOMAIN clients = {} /\ Len(m_fxChain) = 0
  BY DEF None
<1>2. TypeOK
  <2>1. /\ m_fxChain \in Seq(ClientId) /\ writes \in Seq(Parameter)
        /\ m_currentConfig \in Seq(Effect) /\ requested \in Seq(Values)
    OBVIOUS
  <2>2. config \in Seq(Effect) /\ 0 \in 0 .. MaxRequests
    BY RequestAssumption, ResourceAssumption
  <2>3. clients \in [DOMAIN clients ->
          [name : Name, generation : Nat, ring : Seq(Parameter), values : Values]]
    BY <1>1 DEF None
  <2>4. m_pluginHandler \in [alive : BOOLEAN, plugins : SUBSET Name, generation : Nat]
    BY DEF NoHandler
  <2> QED BY <1>1, <2>1, <2>2, <2>3, <2>4 DEF TypeOK
<1>3. ClientsOfChain /\ CodeOfHandler /\ ChainSoFar
  BY <1>1 DEF ClientsOfChain, Chain, Position, CodeOfHandler, ProcessorCodeMapped,
              NoHandler, ChainSoFar, Building, Complete
<1>4. LinksAlongChain /\ FedIsWhole /\ InputsAsSet
  BY DEF LinksAlongChain, FedIsWhole, InputsAsSet, Fed, Building
<1>5. ParametersDue
  BY DEF ParametersDue, Building, Complete
<1> QED BY <1>2, <1>3, <1>4, <1>5 DEF ControllerInv

\* The requests that lead to a new chain change nothing yet.
LEMMA RequestsKeep ==
  ASSUME ControllerInv, ctl = "idle", ctl' \in {"clear", "reload", "shutdown"},
         TypeOK',
         UNCHANGED <<client, writes, m_currentConfig, m_pluginHandler, m_fxChain,
                     server, directory, requested>>
  PROVE  ControllerInv'
<1> USE DEF ControllerInv, server
<1>1. ClientsOfChain' /\ CodeOfHandler' /\ ChainSoFar'
  BY DEF ClientsOfChain, Chain, Position, CodeOfHandler, ProcessorCodeMapped,
         ChainSoFar, Building, Complete
<1>2. LinksAlongChain'
  BY DEF LinksAlongChain, WithinChain, IntoChain, OutOfChain, Fed, Building
<1>3. FedIsWhole' /\ InputsAsSet'
  BY DEF FedIsWhole, Fed, Building, Position, EffectAt, InputsAsSet
<1>4. ParametersDue'
  BY DEF ParametersDue, Building, Complete
<1> QED BY <1>1, <1>2, <1>3, <1>4

\* A request is counted, and the count stays within its bound.
LEMMA ReceiveType ==
  ASSUME TypeOK, Receive
  PROVE  requests' \in 0 .. MaxRequests
BY ResourceAssumption DEF TypeOK, Receive

\* onApplyConfig begins: the chain that sounds is still the old one.
LEMMA PutConfigKeeps ==
  ASSUME ControllerInv, NEW c \in Configs, PutConfig(c)
  PROVE  ControllerInv'
<1>1. TypeOK'
  <2>1. config' \in Seq(Effect)
    BY RequestAssumption DEF PutConfig
  <2> QED BY <2>1, ReceiveType DEF ControllerInv, TypeOK, PutConfig, members, server
<1> QED BY <1>1, RequestsKeep DEF PutConfig, Receive, members

\* onApplyGlobalSettings begins: the settings are stored, and the old chain
\* still sounds.
LEMMA PutGlobalSettingsKeeps ==
  ASSUME ControllerInv, NEW mono \in BOOLEAN, PutGlobalSettings(mono)
  PROVE  ControllerInv'
<1>1. TypeOK'
  BY ReceiveType DEF ControllerInv, TypeOK, PutGlobalSettings, StoreSettings, Rebuild, server
<1> QED BY <1>1, RequestsKeep DEF PutGlobalSettings, Rebuild, Receive

\* onReload begins: nothing is unloaded or closed yet.
LEMMA PostReloadKeeps ==
  ASSUME ControllerInv, PostReload
  PROVE  ControllerInv'
<1>1. TypeOK'
  BY ReceiveType DEF ControllerInv, TypeOK, PostReload, members, server
<1> QED BY <1>1, RequestsKeep DEF PostReload, Receive, members

\* The controller's destructor begins with the chain as it is.
LEMMA ShutdownKeeps ==
  ASSUME ControllerInv, Shutdown
  PROVE  ControllerInv'
<1>1. TypeOK'
  BY DEF ControllerInv, TypeOK, Shutdown, local, members, server, history
<1> QED BY <1>1, RequestsKeep DEF Shutdown, local, members, history

\* The parameters become due at their position, and nowhere else.
LEMMA PutParametersKeeps ==
  ASSUME ControllerInv, NEW index \in 0 .. Len(m_fxChain), NEW params \in ParameterLists,
         PutParameters(index, params)
  PROVE  ControllerInv'
<1> USE DEF ControllerInv
<1>1. /\ ctl = "idle" /\ client = NoClient
      /\ requests' \in 0 .. MaxRequests
      /\ UNCHANGED <<config, members, server, directory, applied>>
  BY ReceiveType DEF PutParameters, Receive, ClientsOfChain
<1>2. CASE UNCHANGED <<ctl, client, writes, requested>>
  <2>1. TypeOK'
    BY <1>1, <1>2 DEF TypeOK, members, server
  <2> QED
    BY <1>1, <1>2, <2>1
    DEF members, server, ClientsOfChain, Chain, Position, CodeOfHandler, ProcessorCodeMapped,
        ChainSoFar, Building, Complete, EffectAt, LinksAlongChain, WithinChain, IntoChain,
        OutOfChain, Fed, FedIsWhole, InputsAsSet, InputsOf, RightFrom, ParametersDue, Due, Settled
<1>3. CASE ~UNCHANGED <<ctl, client, writes, requested>>
  <2>1. /\ index < Len(m_fxChain) /\ ctl' = "put"
        /\ client' = m_fxChain[index + 1] /\ writes' = Writes(params)
        /\ requested' = [requested EXCEPT ![index + 1] = ApplyAll(@, Writes(params))]
    BY <1>3 DEF PutParameters, ClientAt
  <2>2. /\ Len(requested) = Len(m_fxChain)
        /\ index + 1 \in Position /\ client' \in Chain /\ client' \in ClientId
    BY <1>1, <2>1 DEF ChainSoFar, Complete, ParametersDue, Position, Chain, TypeOK
  <2>3. Writes(params) \in Seq(Parameter)
    BY WritesType
  <2>4. requested[index + 1] \in Values
    BY <2>2 DEF TypeOK, Position
  <2>5. /\ requested' \in Seq(Values) /\ Len(requested') = Len(requested)
        /\ requested'[index + 1] = ApplyAll(requested[index + 1], Writes(params))
        /\ \A i \in Position : i # index + 1 => requested'[i] = requested[i]
    <3>1. ApplyAll(requested[index + 1], Writes(params)) \in Values
      BY <2>3, <2>4, ApplyAllType
    <3> QED BY <3>1, <2>1, <2>2 DEF TypeOK, Position
  <2>6. TypeOK'
    BY <1>1, <2>1, <2>2, <2>3, <2>5 DEF TypeOK, members, server
  <2>7. ClientsOfChain' /\ CodeOfHandler' /\ ChainSoFar'
    <3>1. DOMAIN clients = Chain
      BY <1>1, ClientsAreChain
    <3>2. ClientsOfChain'
      BY <1>1, <2>1, <2>2, <3>1 DEF members, server, ClientsOfChain, Chain, Position
    <3> QED
      BY <1>1, <2>1, <3>2
      DEF members, server, Position, CodeOfHandler, ProcessorCodeMapped, ChainSoFar, Building,
          Complete, EffectAt
  <2>8. LinksAlongChain' /\ FedIsWhole' /\ InputsAsSet'
    BY <1>1, <2>1
    DEF members, server, LinksAlongChain, WithinChain, IntoChain, OutOfChain, Fed,
        FedIsWhole, Building, Position, EffectAt, InputsAsSet, InputsOf, RightFrom
  <2>9. ParametersDue'
    <3>1. ASSUME NEW i \in Position
          PROVE  Due(m_fxChain[i])' = requested'[i]
      <4>1. /\ Settled(m_fxChain[i])' = Settled(m_fxChain[i])
            /\ m_fxChain'[i] = m_fxChain[i]
        BY <1>1 DEF Settled, members, server
      <4>2. Settled(m_fxChain[i]) = requested[i]
        <5>1. m_fxChain[i] # client
          BY <1>1, ClientIds DEF TypeOK, Position
        <5> QED BY <5>1, <1>1 DEF ParametersDue, Complete, Due
      <4>3. CASE i = index + 1
        BY <4>1, <4>2, <4>3, <2>1, <2>5 DEF Due
      <4>4. CASE i # index + 1
        <5>1. m_fxChain[i] # client'
          BY <4>4, <2>1, <2>2 DEF ClientsOfChain
        <5> QED BY <5>1, <4>1, <4>2, <4>4, <2>5 DEF Due
      <4> QED BY <4>3, <4>4
    <3> QED
      BY <3>1, <1>1, <2>1, <2>5
      DEF ParametersDue, Building, Complete, Position, members
  <2> QED BY <2>6, <2>7, <2>8, <2>9
<1> QED BY <1>2, <1>3

\* Closing the first client of the chain takes the sound away at once, and the
\* rest keeps its connections.
LEMMA CloseClientKeeps ==
  ASSUME ControllerInv, CloseClient
  PROVE  ControllerInv'
<1> USE DEF ControllerInv
<1> DEFINE h == m_fxChain[1]
<1>1. /\ ctl \in {"clear", "reload", "shutdown"} /\ m_fxChain # <<>>
      /\ clients' = Without(clients, h)
      /\ links' = links \ LinksOf(h)
      /\ m_fxChain' = Tail(m_fxChain)
      /\ client = NoClient
      /\ UNCHANGED <<ctl, config, client, writes, m_currentConfig, m_globalSettings,
                     m_pluginHandler, directory, requested, requests, applied>>
  BY DEF CloseClient, local, history, ClientsOfChain
<1>2. /\ h \in ClientId /\ 1 \in Position
      /\ m_fxChain' \in Seq(ClientId)
      /\ Len(m_fxChain) \in Nat \ {0} /\ Len(m_fxChain') = Len(m_fxChain) - 1
      /\ \A i \in 1 .. Len(m_fxChain') : m_fxChain'[i] = m_fxChain[i + 1]
  BY <1>1, HeadTailProperties DEF TypeOK, Position
<1>3. /\ DOMAIN clients' = DOMAIN clients \ {h}
      /\ \A c \in DOMAIN clients' : clients'[c] = clients[c]
  BY <1>1 DEF Without
<1>4. DOMAIN clients = Chain
  BY <1>1, ClientsAreChain
<1>5. \A i \in Position : i # 1 => m_fxChain[i] # h
  BY <1>2 DEF ClientsOfChain
<1> HIDE DEF h
<1>6. TypeOK'
  <2>1. clients' \in [DOMAIN clients' ->
          [name : Name, generation : Nat, ring : Seq(Parameter), values : Values]]
    BY <1>1, <1>3 DEF TypeOK, Without
  <2>2. links' \subseteq Port \X Port
    BY <1>1 DEF TypeOK
  <2> QED BY <1>1, <1>2, <1>3, <2>1, <2>2 DEF TypeOK
<1>7. ClientsOfChain'
  <2>1. \A i, j \in Position' : m_fxChain'[i] = m_fxChain'[j] => i = j
    <3> TAKE i, j \in Position'
    <3>1. /\ i + 1 \in Position /\ j + 1 \in Position
          /\ m_fxChain'[i] = m_fxChain[i + 1] /\ m_fxChain'[j] = m_fxChain[j + 1]
      BY <1>2 DEF Position
    <3> QED BY <3>1, <1>2 DEF ClientsOfChain, Position
  <2>2. Chain' \subseteq DOMAIN clients'
    <3>1. ASSUME NEW i \in Position'
          PROVE  m_fxChain'[i] \in DOMAIN clients'
      <4>1. i + 1 \in Position /\ i + 1 # 1 /\ m_fxChain'[i] = m_fxChain[i + 1]
        BY <1>2 DEF Position
      <4> QED BY <4>1, <1>3, <1>4, <1>5 DEF Chain
    <3> QED BY <3>1 DEF Chain
  <2>3. DOMAIN clients' \subseteq Chain'
    <3>1. ASSUME NEW c \in DOMAIN clients'
          PROVE  c \in Chain'
      <4>1. PICK i \in Position : m_fxChain[i] = c
        BY <1>3, <1>4 DEF Chain
      <4>2. i # 1
        BY <4>1, <1>3 DEF h
      <4>3. i - 1 \in Position' /\ m_fxChain'[i - 1] = c
        BY <4>1, <4>2, <1>2 DEF Position
      <4> QED BY <4>3 DEF Chain
    <3> QED BY <3>1
  <2> QED BY <1>1, <2>1, <2>2, <2>3 DEF ClientsOfChain
<1>8. CodeOfHandler' /\ ChainSoFar'
  BY <1>1, <1>3 DEF CodeOfHandler, ProcessorCodeMapped, ChainSoFar, Building, Complete
<1>9. ASSUME NEW l \in links'
      PROVE  l[1][1] # System /\ (WithinChain(l)' \/ OutOfChain(l)')
  <2>1. l \in links /\ l[1][1] # h /\ l[2][1] # h
    BY <1>1 DEF LinksOf
  <2>2. CASE WithinChain(l)
    <3>1. PICK i \in 1 .. Len(m_fxChain) - 1, s \in Side :
            l = <<<<m_fxChain[i], s>>, <<m_fxChain[i + 1], s>>>>
      BY <2>2 DEF WithinChain
    <3>2. i # 1 /\ i \in Position
      BY <2>1, <3>1, <1>2 DEF Position, h
    <3>3. /\ i - 1 \in 1 .. Len(m_fxChain') - 1
          /\ m_fxChain'[i - 1] = m_fxChain[i] /\ m_fxChain'[(i - 1) + 1] = m_fxChain[i + 1]
      BY <3>1, <3>2, <1>2 DEF Position
    <3>4. WithinChain(l)'
      BY <3>1, <3>3 DEF WithinChain
    <3>5. m_fxChain[i] # System
      BY <3>2, ClientIds DEF TypeOK, Position
    <3> QED BY <3>1, <3>4, <3>5
  <2>3. CASE IntoChain(l)
    BY <2>1, <2>3 DEF IntoChain, h
  <2>4. CASE OutOfChain(l)
    <3>1. PICK s \in Side : l = <<<<m_fxChain[Len(m_fxChain)], s>>, <<System, s>>>>
      BY <2>4 DEF OutOfChain
    <3>2. Len(m_fxChain) # 1 /\ Len(m_fxChain) \in Position
      BY <2>1, <3>1, <1>2 DEF Position, h
    <3>3. m_fxChain' # <<>> /\ m_fxChain'[Len(m_fxChain')] = m_fxChain[Len(m_fxChain)]
      BY <3>2, <1>2 DEF Position
    <3>4. m_fxChain[Len(m_fxChain)] # System
      BY <3>2, ClientIds DEF TypeOK, Position
    <3> QED BY <3>1, <3>3, <3>4 DEF OutOfChain
  <2> QED BY <1>1, <2>1, <2>2, <2>3, <2>4 DEF LinksAlongChain
<1>10. LinksAlongChain' /\ FedIsWhole' /\ InputsAsSet'
  BY <1>1, <1>9 DEF LinksAlongChain, Building, FedIsWhole, Fed, InputsAsSet
<1>11. ParametersDue'
  BY <1>1 DEF ParametersDue, Building, Complete
<1> QED BY <1>6, <1>7, <1>8, <1>10, <1>11

\* The handler goes when no client is left.
LEMMA ResetHandlerKeeps ==
  ASSUME ControllerInv, ResetHandler
  PROVE  ControllerInv'
<1> USE DEF ControllerInv
<1>1. /\ ctl \in {"reload", "shutdown"} /\ ctl' \in {"factory", "terminated"}
      /\ m_fxChain = <<>> /\ client = NoClient
      /\ m_pluginHandler' = [m_pluginHandler EXCEPT !.alive = FALSE, !.plugins = {}]
      /\ UNCHANGED <<config, client, writes, m_currentConfig, m_globalSettings, m_fxChain,
                     clients, links, directory, requested, requests, applied>>
  BY DEF ResetHandler, ChainCleared, local, server, history, ClientsOfChain
<1>2. DOMAIN clients = {}
  BY <1>1, ClientsAreChain DEF Chain, Position
<1>3. links = {}
  BY <1>1, NoLinksOfEmptyChain
<1>4. TypeOK'
  BY <1>1 DEF TypeOK
<1>5. ClientsOfChain' /\ CodeOfHandler' /\ ChainSoFar'
  <2>1. m_pluginHandler'.plugins = {}
    BY <1>1 DEF TypeOK
  <2> QED
    BY <1>1, <1>2, <2>1 DEF ClientsOfChain, Chain, Position, CodeOfHandler,
       ProcessorCodeMapped, ChainSoFar, Building, Complete
<1>6. LinksAlongChain' /\ FedIsWhole' /\ InputsAsSet' /\ ParametersDue'
  BY <1>1, <1>3 DEF LinksAlongChain, FedIsWhole, Fed, InputsAsSet, ParametersDue,
     Building, Complete
<1> QED BY <1>4, <1>5, <1>6

\* The next handler comes when no client is there.
LEMMA MakeHandlerKeeps ==
  ASSUME ControllerInv, MakeHandler
  PROVE  ControllerInv'
<1> USE DEF ControllerInv
<1>1. /\ ctl = "factory" /\ ctl' \in {"clear", "thrown"}
      /\ m_fxChain = <<>> /\ client = NoClient /\ DOMAIN clients = {}
      /\ \/ m_pluginHandler' = [alive |-> TRUE, plugins |-> directory,
                               generation |-> m_pluginHandler.generation + 1]
         \/ m_pluginHandler' = m_pluginHandler
      /\ UNCHANGED <<config, client, writes, m_currentConfig, m_globalSettings, m_fxChain,
                     clients, links, directory, requested, requests, applied>>
  BY DEF MakeHandler, local, server, history, ClientsOfChain, CodeOfHandler
<1>2. links = {}
  BY <1>1, NoLinksOfEmptyChain
<1>3. TypeOK'
  <2>1. m_pluginHandler' \in [alive : BOOLEAN, plugins : SUBSET Name, generation : Nat]
    <3>1. m_pluginHandler.generation + 1 \in Nat /\ directory \in SUBSET Name
      BY DEF TypeOK
    <3>2. m_pluginHandler \in [alive : BOOLEAN, plugins : SUBSET Name, generation : Nat]
      BY DEF TypeOK
    <3>3. [alive |-> TRUE, plugins |-> directory, generation |-> m_pluginHandler.generation + 1]
            \in [alive : BOOLEAN, plugins : SUBSET Name, generation : Nat]
      BY <3>1
    <3> QED BY <1>1, <3>2, <3>3
  <2> QED BY <1>1, <2>1 DEF TypeOK
<1>4. ClientsOfChain' /\ CodeOfHandler' /\ ChainSoFar'
  <2>1. ~m_pluginHandler'.alive => m_pluginHandler'.plugins = {}
    BY <1>1 DEF CodeOfHandler
  <2> QED
    BY <1>1, <2>1 DEF ClientsOfChain, Chain, Position, CodeOfHandler, ProcessorCodeMapped,
       ChainSoFar, Building, Complete
<1>5. LinksAlongChain' /\ FedIsWhole' /\ InputsAsSet' /\ ParametersDue'
  BY <1>1, <1>2 DEF LinksAlongChain, FedIsWhole, Fed, InputsAsSet, ParametersDue,
     Building, Complete
<1> QED BY <1>3, <1>4, <1>5

\* The configuration changes when no client is there.
LEMMA ApplyConfigKeeps ==
  ASSUME ControllerInv, ApplyConfig
  PROVE  ControllerInv'
<1> USE DEF ControllerInv
<1>1. /\ ctl = "clear" /\ ctl' = IF config = <<>> THEN "idle" ELSE "create"
      /\ m_fxChain = <<>> /\ client = NoClient
      /\ m_currentConfig' = config
      /\ requested' = [i \in 1 .. Len(config) |->
                        ApplyAll(DefaultValues, Writes(config[i].parameters))]
      /\ UNCHANGED <<config, client, writes, m_globalSettings, m_pluginHandler, m_fxChain,
                     clients, links, directory, requests>>
      /\ applied' = applied + 1
  BY DEF ApplyConfig, ChainCleared, ConfigApplied, local, server, ClientsOfChain
<1>2. DOMAIN clients = {} /\ Len(m_fxChain) = 0
  <2>1. m_fxChain = <<>> /\ client = NoClient
    BY <1>1
  <2>2. Position = {} /\ Len(m_fxChain) = 0
    BY <2>1 DEF Position
  <2>3. DOMAIN clients = Chain
    BY <2>1, ClientsAreChain
  <2> QED BY <2>2, <2>3 DEF Chain
<1>3. links = {}
  BY <1>1, NoLinksOfEmptyChain
<1>4. config \in Seq(Effect) /\ Len(config) \in Nat
  BY DEF TypeOK
<1>5. requested' \in Seq(Values) /\ Len(requested') = Len(config)
  <2>1. \A i \in 1 .. Len(config) :
          ApplyAll(DefaultValues, Writes(config[i].parameters)) \in Values
    <3> TAKE i \in 1 .. Len(config)
    <3>1. config[i].parameters \in ParameterLists
      <4>1. config[i] \in Effect
        BY <1>4
      <4> QED BY <4>1 DEF Effect
    <3> QED BY <3>1, WritesType, DefaultValuesType, ApplyAllType
  <2>2. requested' \in [1 .. Len(config) -> Values]
    BY <1>1, <2>1
  <2> QED BY <1>4, <2>2
<1>6. TypeOK'
  BY <1>1, <1>5 DEF TypeOK
<1>7. ClientsOfChain' /\ CodeOfHandler'
  BY <1>1, <1>2 DEF ClientsOfChain, Chain, Position, CodeOfHandler, ProcessorCodeMapped
<1>8. ChainSoFar'
  <2>1. config # <<>> => Len(config) > 0
    BY <1>4
  <2>2. config = <<>> => Len(config) = 0
    OBVIOUS
  <2> QED BY <1>1, <1>2, <1>4, <2>1, <2>2 DEF ChainSoFar, Building, Complete, Position
<1>9. LinksAlongChain' /\ FedIsWhole' /\ InputsAsSet'
  BY <1>1, <1>3 DEF LinksAlongChain, FedIsWhole, Fed, InputsAsSet
<1>10. ParametersDue'
  BY <1>1, <1>2, <1>4, <1>5 DEF ParametersDue, Building, Complete, Position
<1> QED BY <1>6, <1>7, <1>8, <1>9, <1>10

\* A client that cannot be made ends the process; the chain as far as it was
\* built is not fed.
LEMMA CreateFailsKeeps ==
  ASSUME ControllerInv, CreateFails
  PROVE  ControllerInv'
<1> USE DEF ControllerInv
<1>1. /\ ctl = "create" /\ ctl' = "thrown" /\ client = NoClient
      /\ UNCHANGED <<config, client, writes, m_currentConfig, m_globalSettings,
                     m_pluginHandler, m_fxChain, clients, links, directory, requested,
                     requests, applied>>
  BY DEF CreateFails, local, members, server, history, ClientsOfChain
<1>2. TypeOK' /\ ClientsOfChain' /\ CodeOfHandler' /\ ChainSoFar'
  BY <1>1 DEF TypeOK, ClientsOfChain, Chain, Position, CodeOfHandler, ProcessorCodeMapped,
     ChainSoFar, Building, Complete
<1>3. ~Fed'
  BY <1>1 DEF FedIsWhole, Building, Fed
<1>4. LinksAlongChain' /\ FedIsWhole' /\ InputsAsSet' /\ ParametersDue'
  BY <1>1, <1>3 DEF LinksAlongChain, Building, Complete, FedIsWhole, InputsAsSet, ParametersDue
<1> QED BY <1>2, <1>4

\* A new client has all its parameters still to come, and is none of the chain.
LEMMA CreateClientKeeps ==
  ASSUME ControllerInv, CreateClient
  PROVE  ControllerInv'
<1> USE DEF ControllerInv
<1> DEFINE effect == config[Len(m_fxChain) + 1]
<1>1. /\ ctl = "create" /\ ctl' = "write" /\ client = NoClient
      /\ effect.name \in m_pluginHandler.plugins
      /\ ~ClientId \subseteq DOMAIN clients
      /\ client' = FreshId
      /\ clients' = With(clients, client', Client(effect.name))
      /\ writes' = Writes(effect.parameters)
      /\ config = m_currentConfig /\ Len(m_fxChain) < Len(m_currentConfig)
      /\ UNCHANGED <<config, m_currentConfig, m_globalSettings, m_pluginHandler, m_fxChain,
                     links, directory, requested, requests, applied>>
  BY DEF CreateClient, members, history, ClientsOfChain, ChainSoFar, Building
<1>2. /\ client' \in ClientId /\ client' \notin DOMAIN clients
      /\ DOMAIN clients' = DOMAIN clients \cup {client'}
      /\ clients'[client'] = Client(effect.name)
      /\ \A c \in DOMAIN clients : clients'[c] = clients[c] /\ c # client'
  <2>1. client' \in ClientId /\ client' \notin DOMAIN clients
    BY <1>1, FreshIdIsFree
  <2>2. /\ DOMAIN clients' = DOMAIN clients \cup {client'}
        /\ clients'[client'] = Client(effect.name)
        /\ \A c \in DOMAIN clients : c # client' => clients'[c] = clients[c]
    BY <1>1 DEF With
  <2> QED BY <2>1, <2>2
<1>3. DOMAIN clients = Chain
  BY <1>1, ClientsAreChain
<1>4. effect \in Effect /\ effect = m_currentConfig[Len(m_fxChain) + 1]
      /\ Len(m_fxChain) \in Nat /\ Len(m_fxChain) + 1 \in 1 .. Len(m_currentConfig)
  BY <1>1 DEF TypeOK
<1> HIDE DEF effect
<1>5. effect.name \in Name /\ effect.parameters \in ParameterLists
  BY <1>4 DEF Effect
<1>6. writes' \in Seq(Parameter)
  BY <1>1, <1>5, WritesType
<1>7. /\ Client(effect.name) \in
           [name : Name, generation : Nat, ring : Seq(Parameter), values : Values]
      /\ Client(effect.name).name = effect.name
      /\ Client(effect.name).generation = m_pluginHandler.generation
      /\ Client(effect.name).ring = <<>>
      /\ Client(effect.name).values = DefaultValues
  <2>1. m_pluginHandler.generation \in Nat
    BY DEF TypeOK
  <2>2. <<>> \in Seq(Parameter)
    OBVIOUS
  <2> QED BY <1>5, <2>1, <2>2, DefaultValuesType DEF Client, DefaultValues
<1>8. TypeOK'
  <2>1. \A c \in DOMAIN clients' : clients'[c] \in
           [name : Name, generation : Nat, ring : Seq(Parameter), values : Values]
    BY <1>2, <1>7 DEF TypeOK
  <2>2. clients' \in [DOMAIN clients' ->
           [name : Name, generation : Nat, ring : Seq(Parameter), values : Values]]
    BY <1>1, <2>1 DEF With
  <2> QED BY <1>1, <1>2, <1>6, <2>2 DEF TypeOK
<1>9. ClientsOfChain'
  BY <1>1, <1>2, <1>3 DEF ClientsOfChain, Chain, Position
<1>10. CodeOfHandler'
  <2>1. m_pluginHandler.alive
    BY <1>1 DEF CodeOfHandler
  <2> QED BY <1>1, <1>2, <1>7, <2>1 DEF CodeOfHandler, ProcessorCodeMapped
<1>11. ASSUME NEW i \in Position
       PROVE  /\ m_fxChain[i] \in DOMAIN clients /\ m_fxChain[i] # client
              /\ m_fxChain[i] # client' /\ clients'[m_fxChain[i]] = clients[m_fxChain[i]]
  <2>1. m_fxChain[i] \in DOMAIN clients /\ m_fxChain[i] \in ClientId
    BY <1>3 DEF Chain, Position, TypeOK
  <2> QED BY <1>1, <1>2, <2>1, ClientIds
<1>12. ChainSoFar'
  <2>1. \A i \in Position : clients'[m_fxChain[i]].name = m_currentConfig[i].name
    BY <1>1, <1>11 DEF ChainSoFar, Building, EffectAt
  <2> QED BY <1>1, <1>2, <1>4, <1>7, <2>1
    DEF ChainSoFar, Building, Complete, EffectAt, Position
<1>13. LinksAlongChain'
  BY <1>1 DEF LinksAlongChain, WithinChain, IntoChain, OutOfChain, Building
<1>14. FedIsWhole' /\ InputsAsSet'
  BY <1>1 DEF FedIsWhole, Fed, Building, InputsAsSet
<1>15. ParametersDue'
  <2>1. \A i \in Position : Due(m_fxChain[i])' = requested'[i]
    BY <1>1, <1>11 DEF ParametersDue, Building, Due, Settled
  <2>2. Due(client)' = requested'[Len(m_fxChain) + 1]
    <3>1. Settled(client)' = DefaultValues
      BY <1>2, <1>7, ApplyAllEmpty, DefaultValuesType DEF Settled
    <3>2. requested[Len(m_fxChain) + 1] = ApplyAll(DefaultValues, Writes(effect.parameters))
      BY <1>1, <1>4 DEF ParametersDue, Building
    <3> QED BY <1>1, <3>1, <3>2 DEF Due
  <2> QED BY <1>1, <2>1, <2>2 DEF ParametersDue, Building, Complete, Position
<1> QED BY <1>8, <1>9, <1>10, <1>12, <1>13, <1>14, <1>15

\* Steps that move parameters from a list to a ring, or from there to the
\* processor, and change nothing else.
LEMMA TransfersKeep ==
  ASSUME ControllerInv, TypeOK',
         UNCHANGED <<ctl, config, client, m_currentConfig, m_globalSettings,
                     m_pluginHandler, m_fxChain, links, requested>>,
         DOMAIN clients' = DOMAIN clients,
         \A c \in DOMAIN clients : /\ clients'[c].name = clients[c].name
                                   /\ clients'[c].generation = clients[c].generation
                                   /\ Due(c)' = Due(c),
         ctl = "connect" => writes' = writes
  PROVE  ControllerInv'
<1> USE DEF ControllerInv
<1>1. \A i \in Position : m_fxChain[i] \in DOMAIN clients
  BY DEF ClientsOfChain, Chain
<1>2. ClientsOfChain' /\ CodeOfHandler' /\ InputsAsSet'
  BY DEF ClientsOfChain, Chain, Position, CodeOfHandler, ProcessorCodeMapped, InputsAsSet, InputsOf, RightFrom
<1>3. ChainSoFar'
  BY <1>1 DEF ClientsOfChain, ChainSoFar, Building, Complete, EffectAt, Position
<1>4. LinksAlongChain'
  BY DEF LinksAlongChain, WithinChain, IntoChain, OutOfChain, Building, Fed
<1>5. FedIsWhole'
  BY <1>1 DEF FedIsWhole, Fed, Building, EffectAt, Position
<1>6. ParametersDue'
  <2>1. ASSUME NEW i \in Position
        PROVE  Due(m_fxChain[i])' = Due(m_fxChain[i])
    BY <1>1 DEF Due, Settled
  <2>2. client \in DOMAIN clients => Due(client)' = Due(client)
    BY DEF Due, Settled
  <2> QED BY <2>1, <2>2 DEF ClientsOfChain, ParametersDue, Building, Complete, Position
<1> QED BY <1>2, <1>3, <1>4, <1>5, <1>6

\* setParameter moves the next parameter to the ring, or throws.
LEMMA WriteParameterKeeps ==
  ASSUME ControllerInv, WriteParameter
  PROVE  ControllerInv'
<1> USE DEF ControllerInv
<1>1. /\ ctl \in {"write", "put"} /\ writes # <<>>
      /\ client \in DOMAIN clients /\ client \in ClientId
      /\ UNCHANGED <<config, client, m_currentConfig, m_globalSettings, m_pluginHandler,
                     m_fxChain, links, directory, requested, requests, applied>>
  BY DEF WriteParameter, members, history, ClientsOfChain, TypeOK
<1>2. CASE Len(clients[client].ring) < RingCapacity
  <2> DEFINE h == Head(writes)
             record == [name : Name, generation : Nat, ring : Seq(Parameter), values : Values]
  <2>1. /\ clients' = [clients EXCEPT ![client].ring = Append(@, h)]
        /\ writes' = Tail(writes) /\ ctl' = ctl
    BY <1>2 DEF WriteParameter
  <2>2. h \in Parameter /\ writes' \in Seq(Parameter)
    BY <1>1, <2>1, HeadTailProperties DEF TypeOK
  <2>3. clients \in [DOMAIN clients -> record] /\ clients[client] \in record
    BY <1>1 DEF TypeOK
  <2>4. Append(clients[client].ring, h) \in Seq(Parameter)
    BY <2>2, <2>3, AppendProperties
  <2> HIDE DEF h
  <2>5. /\ DOMAIN clients' = DOMAIN clients
        /\ clients' \in [DOMAIN clients' -> record]
        /\ clients'[client] = [clients[client] EXCEPT !.ring = Append(clients[client].ring, h)]
        /\ \A c \in DOMAIN clients : c # client => clients'[c] = clients[c]
    BY <1>1, <2>1, <2>3, <2>4
  <2>6. /\ clients'[client].name = clients[client].name
        /\ clients'[client].generation = clients[client].generation
        /\ clients'[client].values = clients[client].values
        /\ clients'[client].ring = Append(clients[client].ring, h)
    BY <2>3, <2>5
  <2>7. Due(client)' = Due(client)
    <3>1. clients[client].values \in Values /\ clients[client].ring \in Seq(Parameter)
      BY <2>3
    <3>2. Settled(client)' = Apply(Settled(client), h)
      BY <1>1, <2>2, <2>6, <3>1, ApplyAllAppend DEF Settled
    <3>3. Settled(client) \in Values
      BY <3>1, ApplyAllType DEF Settled
    <3>4. ApplyAll(Apply(Settled(client), h), Tail(writes)) = ApplyAll(Settled(client), writes)
      BY <1>1, <3>3, ApplyAllHead DEF TypeOK, h
    <3> QED BY <1>1, <2>1, <3>2, <3>4 DEF Due
  <2>8. TypeOK'
    BY <1>1, <2>1, <2>2, <2>5 DEF TypeOK
  <2>9. ASSUME NEW c \in DOMAIN clients
        PROVE  /\ clients'[c].name = clients[c].name
               /\ clients'[c].generation = clients[c].generation
               /\ Due(c)' = Due(c)
    <3>1. CASE c = client
      BY <1>1, <3>1, <2>6, <2>7 DEF Due, Settled
    <3>2. CASE c # client
      BY <1>1, <3>2, <2>5 DEF Due, Settled
    <3> QED BY <3>1, <3>2
  <2> QED BY <1>1, <2>1, <2>5, <2>8, <2>9, TransfersKeep
<1>3. CASE ~(Len(clients[client].ring) < RingCapacity)
  <2>1. ctl' = "thrown" /\ UNCHANGED <<clients, writes>>
    BY <1>3 DEF WriteParameter
  <2>2. TypeOK' /\ ClientsOfChain' /\ CodeOfHandler' /\ ChainSoFar'
    BY <1>1, <2>1 DEF TypeOK, ClientsOfChain, Chain, Position, CodeOfHandler,
       ProcessorCodeMapped, ChainSoFar, Building, Complete
  <2>3. LinksAlongChain'
    BY <1>1, <2>1 DEF LinksAlongChain, WithinChain, IntoChain, OutOfChain, Building, Fed
  <2>4. FedIsWhole' /\ InputsAsSet' /\ ParametersDue'
    BY <1>1, <2>1 DEF FedIsWhole, Fed, Building, Complete, Position, EffectAt, InputsAsSet,
       ParametersDue
  <2> QED BY <2>2, <2>3, <2>4
<1> QED BY <1>2, <1>3

\* process() moves the first parameter of a ring to its processor.
LEMMA ProcessKeeps ==
  ASSUME ControllerInv, NEW c \in ClientId, Process(c)
  PROVE  ControllerInv'
<1> USE DEF ControllerInv
<1> DEFINE record == [name : Name, generation : Nat, ring : Seq(Parameter), values : Values]
           h == Head(clients[c].ring)
<1>1. /\ c \in DOMAIN clients /\ clients[c].ring # <<>>
      /\ clients' = [clients EXCEPT ![c].values = Apply(@, h), ![c].ring = Tail(@)]
      /\ UNCHANGED <<ctl, config, client, writes, m_currentConfig, m_globalSettings,
                     m_pluginHandler, m_fxChain, links, directory, requested, requests, applied>>
  BY DEF Process, ParameterPending, local, members, history
<1>2. /\ clients \in [DOMAIN clients -> record] /\ clients[c] \in record
      /\ clients[c].values \in Values /\ clients[c].ring \in Seq(Parameter)
  BY <1>1 DEF TypeOK
<1>3. h \in Parameter /\ Tail(clients[c].ring) \in Seq(Parameter)
  BY <1>1, <1>2, HeadTailProperties
<1>4. Apply(clients[c].values, h) \in Values
  BY <1>2, <1>3, ApplyType
<1> HIDE DEF h
<1>5. /\ DOMAIN clients' = DOMAIN clients
      /\ clients'[c] = [clients[c] EXCEPT !.values = Apply(clients[c].values, h),
                                          !.ring = Tail(clients[c].ring)]
      /\ \A d \in DOMAIN clients : d # c => clients'[d] = clients[d]
  BY <1>1, <1>2
<1>6. /\ clients'[c] \in record
      /\ clients'[c].name = clients[c].name
      /\ clients'[c].generation = clients[c].generation
      /\ clients'[c].values = Apply(clients[c].values, h)
      /\ clients'[c].ring = Tail(clients[c].ring)
  BY <1>2, <1>3, <1>4, <1>5
<1>7. clients' \in [DOMAIN clients' -> record]
  BY <1>1, <1>2, <1>5, <1>6
<1>8. Settled(c)' = Settled(c)
  BY <1>1, <1>2, <1>6, ApplyAllHead DEF Settled, h
<1>9. \A d \in DOMAIN clients : /\ clients'[d].name = clients[d].name
                                /\ clients'[d].generation = clients[d].generation
                                /\ Due(d)' = Due(d)
  <2> TAKE d \in DOMAIN clients
  <2>1. CASE d = c
    BY <1>1, <1>6, <1>8, <2>1 DEF Due
  <2>2. CASE d # c
    BY <1>1, <1>5, <2>2 DEF Due, Settled
  <2> QED BY <2>1, <2>2
<1>10. TypeOK'
  BY <1>1, <1>5, <1>7 DEF TypeOK
<1> QED BY <1>1, <1>5, <1>9, <1>10, TransfersKeep

\* When all is written, nothing is due that the ring does not hold.
LEMMA EndWritesKeeps ==
  ASSUME ControllerInv, EndWrites
  PROVE  ControllerInv'
<1> USE DEF ControllerInv
<1>1. /\ ctl \in {"write", "put"} /\ writes = <<>>
      /\ ctl' = IF ctl = "write" THEN "connect" ELSE "idle"
      /\ client' = IF ctl = "write" THEN client ELSE NoClient
      /\ UNCHANGED <<config, writes, m_currentConfig, m_globalSettings, m_pluginHandler,
                     m_fxChain, clients, links, directory, requested, requests, applied>>
  BY DEF EndWrites, members, server, history
<1>2. TypeOK'
  BY <1>1 DEF TypeOK
<1>3. ClientsOfChain'
  <2>1. CASE ctl = "write"
    BY <1>1, <2>1 DEF ClientsOfChain, Chain, Position
  <2>2. CASE ctl = "put"
    <3>1. DOMAIN clients = Chain
      BY <2>2, ClientsAreChain DEF ClientsOfChain
    <3> QED BY <1>1, <2>2, <3>1 DEF ClientsOfChain, Chain, Position
  <2> QED BY <1>1, <2>1, <2>2
<1>4. CodeOfHandler' /\ ChainSoFar' /\ FedIsWhole' /\ InputsAsSet'
  BY <1>1 DEF CodeOfHandler, ProcessorCodeMapped, ChainSoFar, Building, Complete, EffectAt,
     Position, FedIsWhole, Fed, InputsAsSet, InputsOf, RightFrom
<1>5. LinksAlongChain'
  BY <1>1 DEF LinksAlongChain, WithinChain, IntoChain, OutOfChain, Building, Fed
<1>6. ParametersDue'
  <2>1. ASSUME NEW c \in DOMAIN clients
        PROVE  Due(c)' = Due(c)
    <3>1. Settled(c) \in Values
      BY ApplyAllType DEF Settled, TypeOK
    <3>2. ApplyAll(Settled(c), writes) = Settled(c)
      BY <1>1, <3>1, ApplyAllEmpty
    <3> QED BY <1>1, <3>2 DEF Due, Settled
  <2>2. ASSUME NEW i \in Position
        PROVE  Due(m_fxChain[i])' = Due(m_fxChain[i])
    <3>1. m_fxChain[i] \in DOMAIN clients
      BY DEF ClientsOfChain, Chain
    <3> QED BY <1>1, <2>1, <3>1 DEF Due, Settled
  <2>3. CASE ctl = "write"
    <3>1. Due(client)' = Due(client)
      BY <1>1, <2>3 DEF Due, Settled
    <3> QED
      BY <1>1, <2>2, <2>3, <3>1 DEF ParametersDue, Building, Complete, Position
  <2>4. CASE ctl = "put"
    BY <1>1, <2>2, <2>4 DEF ParametersDue, Building, Complete, Position
  <2> QED BY <1>1, <2>3, <2>4
<1> QED BY <1>2, <1>3, <1>4, <1>5, <1>6

\* What can be connected.
LEMMA LinkType ==
  ASSUME NEW from \in ClientId \cup {System}, NEW to \in ClientId \cup {System},
         NEW ok \in SUBSET Side
  PROVE  Link(from, to, ok) \subseteq Port \X Port
BY DEF Link, Port

\* A chain that is not empty has a first and a last client, and neither is the
\* system.
LEMMA LastOfChain ==
  ASSUME TypeOK, m_fxChain # <<>>
  PROVE  /\ Last(m_fxChain) = m_fxChain[Len(m_fxChain)]
         /\ Len(m_fxChain) \in Nat \ {0} /\ Len(m_fxChain) \in Position
         /\ Last(m_fxChain) \in ClientId /\ Last(m_fxChain) # System
         /\ Head(m_fxChain) = m_fxChain[1] /\ 1 \in Position
         /\ m_fxChain[1] \in ClientId /\ m_fxChain[1] # System
BY ClientIds DEF TypeOK, Last, Position

\* The chain is one client longer, connected to its last, or stays without
\* inputs and outputs.
LEMMA ConnectInputsKeeps ==
  ASSUME ControllerInv, ConnectInputs
  PROVE  ControllerInv'
<1> USE DEF ControllerInv
<1>1. /\ ctl = "connect" /\ writes = <<>>
      /\ client \in DOMAIN clients /\ client \in ClientId /\ client \notin Chain
      /\ Len(m_fxChain) \in Nat /\ Len(m_fxChain) < Len(m_currentConfig)
      /\ config = m_currentConfig
      /\ UNCHANGED <<config, writes, m_currentConfig, m_globalSettings, m_pluginHandler,
                     clients, directory, requested, requests, applied>>
  BY DEF ConnectInputs, history, ClientsOfChain, ChainSoFar, ParametersDue, Building, TypeOK
<1>2. PICK ok \in SUBSET Side :
        /\ IF m_fxChain = <<>> THEN UNCHANGED links
           ELSE links' = links \cup Link(Last(m_fxChain), client, ok)
        /\ IF m_fxChain = <<>> \/ ok = Side
           THEN /\ m_fxChain' = Append(m_fxChain, client)
                /\ client' = NoClient
                /\ ctl' = IF Len(m_fxChain) + 1 < Len(config) THEN "create" ELSE "capture"
           ELSE ctl' = "thrown" /\ UNCHANGED <<client, m_fxChain>>
  BY DEF ConnectInputs, Connect
<1>3. \A l \in links : l[1][1] # System /\ l[2][1] # System
  BY <1>1 DEF FedIsWhole, Fed, LinksAlongChain, Building
<1>4. /\ links' \subseteq Port \X Port
      /\ \A l \in links' : l[1][1] # System /\ l[2][1] # System
  <2>1. CASE m_fxChain = <<>>
    BY <2>1, <1>2, <1>3 DEF TypeOK
  <2>2. CASE m_fxChain # <<>>
    <3>1. Last(m_fxChain) \in ClientId /\ Last(m_fxChain) # System /\ client # System
      BY <2>2, <1>1, LastOfChain, ClientIds
    <3>2. Link(Last(m_fxChain), client, ok) \subseteq Port \X Port
      BY <3>1, <1>1, LinkType
    <3>3. \A l \in Link(Last(m_fxChain), client, ok) : l[1][1] # System /\ l[2][1] # System
      BY <3>1 DEF Link
    <3> QED BY <2>2, <1>2, <1>3, <3>2, <3>3 DEF TypeOK
  <2> QED BY <2>1, <2>2
<1>5. ~Fed'
  BY <1>4 DEF Fed
<1>6. CASE m_fxChain = <<>> \/ ok = Side
  <2> DEFINE n == Len(m_fxChain)
  <2>1. /\ m_fxChain' \in Seq(ClientId)
        /\ Len(m_fxChain') = n + 1 /\ m_fxChain' # <<>>
        /\ \A i \in Position : m_fxChain'[i] = m_fxChain[i]
        /\ m_fxChain'[n + 1] = client
        /\ Position' = Position \cup {n + 1}
    <3>1. m_fxChain' = Append(m_fxChain, client) /\ m_fxChain \in Seq(ClientId)
      BY <1>2, <1>6 DEF TypeOK
    <3>2. /\ m_fxChain' \in Seq(ClientId) /\ Len(m_fxChain') = n + 1
          /\ \A i \in 1 .. n : m_fxChain'[i] = m_fxChain[i]
          /\ m_fxChain'[n + 1] = client
      BY <1>1, <3>1, AppendProperties
    <3> QED BY <1>1, <3>2 DEF Position
  <2>2. /\ client' = NoClient
        /\ ctl' = IF n + 1 < Len(m_currentConfig) THEN "create" ELSE "capture"
    BY <1>1, <1>2, <1>6
  <2> HIDE DEF n
  <2>3. \A i \in Position : m_fxChain[i] \in Chain /\ m_fxChain[i] # client
    BY <1>1 DEF Chain
  <2>4. TypeOK'
    BY <1>1, <1>4, <2>1, <2>2 DEF TypeOK
  <2>5. Chain' = Chain \cup {client}
    BY <2>1 DEF Chain
  <2>6. ClientsOfChain'
    <3>1. \A i, j \in Position' : m_fxChain'[i] = m_fxChain'[j] => i = j
      BY <2>1, <2>3 DEF ClientsOfChain
    <3> QED BY <1>1, <2>2, <2>5, <3>1 DEF ClientsOfChain
  <2>7. CodeOfHandler'
    BY <1>1, <2>2 DEF CodeOfHandler, ProcessorCodeMapped
  <2>8. ChainSoFar'
    <3>1. \A i \in Position' : clients[m_fxChain'[i]].name = m_currentConfig[i].name
      BY <1>1, <2>1 DEF ChainSoFar, Building, EffectAt, n
    <3>2. Len(m_currentConfig) \in Nat
      BY DEF TypeOK
    <3> QED
      BY <1>1, <2>1, <2>2, <3>1, <3>2 DEF ChainSoFar, Building, Complete, EffectAt, n
  <2>9. LinksAlongChain'
    <3>1. ASSUME NEW l \in links'
          PROVE  WithinChain(l)'
      <4>1. CASE l \in links
        <5>1. WithinChain(l)
          BY <4>1, <1>1, <1>3 DEF LinksAlongChain, IntoChain, OutOfChain
        <5>2. PICK i \in 1 .. Len(m_fxChain) - 1, s \in Side :
                l = <<<<m_fxChain[i], s>>, <<m_fxChain[i + 1], s>>>>
          BY <5>1 DEF WithinChain
        <5>3. /\ i \in Position /\ i + 1 \in Position
              /\ i \in 1 .. Len(m_fxChain') - 1
          BY <1>1, <2>1 DEF Position, n
        <5> QED BY <5>2, <5>3, <2>1 DEF WithinChain
      <4>2. CASE l \notin links
        <5>1. m_fxChain # <<>> /\ l \in Link(Last(m_fxChain), client, ok)
          BY <4>2, <1>2
        <5>2. PICK s \in Side : l = <<<<m_fxChain[n], s>>, <<client, s>>>>
          BY <5>1, LastOfChain DEF Link, n
        <5>3. n \in Position /\ n \in 1 .. Len(m_fxChain') - 1
          BY <5>1, <2>1, LastOfChain DEF Position, n
        <5>4. m_fxChain'[n] = m_fxChain[n] /\ m_fxChain'[n + 1] = client
          BY <5>3, <2>1
        <5> QED BY <5>2, <5>3, <5>4 DEF WithinChain
      <4> QED BY <4>1, <4>2
    <3> QED BY <1>4, <3>1 DEF LinksAlongChain
  <2>10. FedIsWhole' /\ InputsAsSet'
    BY <1>5, <2>2 DEF FedIsWhole, InputsAsSet
  <2>11. ParametersDue'
    <3>1. ASSUME NEW i \in Position
          PROVE  Settled(m_fxChain'[i]) = requested[i] /\ m_fxChain'[i] # NoClient
      <4>1. m_fxChain[i] # NoClient
        BY ClientIds DEF TypeOK, Position
      <4> QED BY <1>1, <2>1, <2>3, <4>1 DEF ParametersDue, Building, Due
    <3>2. Settled(client) = requested[n + 1]
      <4>1. Settled(client) \in Values
        BY <1>1, ApplyAllType DEF Settled, TypeOK
      <4>2. Due(client) = Settled(client)
        BY <1>1, <4>1, ApplyAllEmpty DEF Due
      <4> QED BY <1>1, <4>2 DEF ParametersDue, n
    <3>3. ASSUME NEW i \in Position'
          PROVE  Due(m_fxChain[i])' = requested'[i]
      <4>1. m_fxChain'[i] # NoClient
        BY <3>1, <2>1, <1>1, ClientIds
      <4>2. Settled(m_fxChain'[i]) = requested[i]
        BY <3>1, <3>2, <2>1
      <4>3. Settled(m_fxChain[i])' = Settled(m_fxChain'[i])
        BY <1>1 DEF Settled
      <4> QED BY <1>1, <2>2, <4>1, <4>2, <4>3 DEF Due
    <3> QED
      BY <1>1, <2>2, <3>3 DEF ParametersDue, Building, Complete, Position
  <2> QED BY <2>4, <2>6, <2>7, <2>8, <2>9, <2>10, <2>11
<1>7. CASE ~(m_fxChain = <<>> \/ ok = Side)
  <2>1. ctl' = "thrown" /\ UNCHANGED <<client, m_fxChain>>
    BY <1>2, <1>7
  <2>2. TypeOK' /\ ClientsOfChain' /\ CodeOfHandler' /\ ChainSoFar'
    BY <1>1, <1>4, <2>1 DEF TypeOK, ClientsOfChain, Chain, Position, CodeOfHandler,
       ProcessorCodeMapped, ChainSoFar, Building, Complete
  <2>3. LinksAlongChain' /\ FedIsWhole' /\ InputsAsSet' /\ ParametersDue'
    BY <1>1, <1>5, <2>1 DEF LinksAlongChain, FedIsWhole, InputsAsSet, ParametersDue,
       Building, Complete
  <2> QED BY <2>2, <2>3
<1> QED BY <1>6, <1>7

\* The inputs of a chain that is complete.
LEMMA ConnectCaptureKeeps ==
  ASSUME ControllerInv, ConnectCapture
  PROVE  ControllerInv'
<1> USE DEF ControllerInv
<1> DEFINE front == m_fxChain[1]
           made(ok) == {<<<<System, IF s = "right" THEN RightCapture ELSE s>>, <<front, s>>>> :
                          s \in ok}
<1>1. /\ ctl = "capture" /\ m_fxChain # <<>> /\ client = NoClient
      /\ UNCHANGED <<config, client, writes, m_currentConfig, m_globalSettings,
                     m_pluginHandler, m_fxChain, clients, directory, requested, requests, applied>>
  BY DEF ConnectCapture, local, members, history, ClientsOfChain, ChainSoFar
<1>2. front = Head(m_fxChain) /\ front \in ClientId /\ front # System
  BY <1>1, LastOfChain
<1>3. PICK ok \in SUBSET Side : /\ links' = links \cup made(ok)
                                /\ ctl' = IF ok = Side THEN "playback" ELSE "thrown"
  BY <1>2 DEF ConnectCapture
<1>4. RightCapture \in Side
  BY DEF RightCapture, Side
<1> HIDE DEF front
<1>5. \A l \in made(ok) : l \in Port \X Port /\ l[1][1] = System /\ IntoChain(l)
  <2>1. ASSUME NEW s \in Side
        PROVE  LET l == <<<<System, IF s = "right" THEN RightCapture ELSE s>>, <<front, s>>>>
               IN  l \in Port \X Port /\ l[1][1] = System /\ IntoChain(l)
    BY <1>1, <1>2, <1>4 DEF Port, IntoChain, front
  <2> QED BY <2>1
<1> HIDE DEF made
<1>6. TypeOK'
  BY <1>1, <1>3, <1>5 DEF TypeOK
<1>7. ClientsOfChain' /\ CodeOfHandler' /\ ChainSoFar'
  BY <1>1, <1>3 DEF ClientsOfChain, Chain, Position, CodeOfHandler, ProcessorCodeMapped,
     ChainSoFar, Building, Complete, EffectAt
<1>8. LinksAlongChain'
  <2>1. \A l \in links' : WithinChain(l) \/ IntoChain(l) \/ OutOfChain(l)
    BY <1>1, <1>3, <1>5 DEF LinksAlongChain
  <2> QED BY <1>1, <1>3, <2>1
    DEF LinksAlongChain, WithinChain, IntoChain, OutOfChain, Building
<1>9. FedIsWhole'
  BY <1>1, <1>3 DEF FedIsWhole, ChainSoFar, Building, Complete, Position, EffectAt
<1>10. InputsAsSet'
  <2>1. {l \in links' : l[1][1] = System} = made(ok)
    <3>1. \A l \in links : l[1][1] # System
      BY <1>1 DEF FedIsWhole, Fed
    <3> QED BY <1>3, <1>5, <3>1
  <2>2. ok = Side => made(ok) = InputsOf(front)
    <3>1. RightCapture = IF CapturePorts > 1 /\ ~m_globalSettings.monoInput
                         THEN "right" ELSE "left"
      BY ResourceAssumption DEF RightCapture, TypeOK
    <3> QED BY <3>1 DEF made, InputsOf, RightFrom, Side
  <2> QED BY <1>1, <1>2, <1>3, <2>1, <2>2 DEF InputsAsSet, InputsOf, RightFrom
<1>11. ParametersDue'
  BY <1>1, <1>3 DEF ParametersDue, Building, Complete, Position, Due, Settled
<1> QED BY <1>6, <1>7, <1>8, <1>9, <1>10, <1>11

\* Its outputs.
LEMMA ConnectPlaybackKeeps ==
  ASSUME ControllerInv, ConnectPlayback
  PROVE  ControllerInv'
<1> USE DEF ControllerInv
<1>1. /\ ctl = "playback" /\ m_fxChain # <<>> /\ client = NoClient
      /\ UNCHANGED <<config, client, writes, m_currentConfig, m_globalSettings,
                     m_pluginHandler, m_fxChain, clients, directory, requested, requests, applied>>
  BY DEF ConnectPlayback, local, members, history, ClientsOfChain, ChainSoFar
<1>2. PICK ok \in SUBSET Side : /\ links' = links \cup Link(Last(m_fxChain), System, ok)
                                /\ ctl' = IF ok = Side THEN "idle" ELSE "thrown"
  BY DEF ConnectPlayback, Connect
<1>3. \A l \in Link(Last(m_fxChain), System, ok) :
        l \in Port \X Port /\ l[1][1] # System /\ OutOfChain(l)
  <2>1. Last(m_fxChain) = m_fxChain[Len(m_fxChain)]
        /\ Last(m_fxChain) \in ClientId /\ Last(m_fxChain) # System
    BY <1>1, LastOfChain
  <2>2. Link(Last(m_fxChain), System, ok) \subseteq Port \X Port
    BY <2>1, LinkType
  <2>3. ASSUME NEW s \in ok
        PROVE  LET l == <<<<Last(m_fxChain), s>>, <<System, s>>>>
               IN  l[1][1] # System /\ OutOfChain(l)
    BY <1>1, <2>1 DEF OutOfChain
  <2> QED BY <2>2, <2>3 DEF Link
<1>4. TypeOK'
  BY <1>1, <1>2, <1>3 DEF TypeOK
<1>5. ClientsOfChain' /\ CodeOfHandler' /\ ChainSoFar'
  BY <1>1, <1>2 DEF ClientsOfChain, Chain, Position, CodeOfHandler, ProcessorCodeMapped,
     ChainSoFar, Building, Complete, EffectAt
<1>6. LinksAlongChain'
  <2>1. \A l \in links' : WithinChain(l) \/ IntoChain(l) \/ OutOfChain(l)
    BY <1>1, <1>2, <1>3 DEF LinksAlongChain
  <2> QED BY <1>1, <1>2, <2>1
    DEF LinksAlongChain, WithinChain, IntoChain, OutOfChain, Building
<1>7. FedIsWhole'
  BY <1>1, <1>2 DEF FedIsWhole, ChainSoFar, Building, Complete, Position, EffectAt
<1>8. InputsAsSet'
  <2>1. {l \in links' : l[1][1] = System} = {l \in links : l[1][1] = System}
    BY <1>2, <1>3
  <2> QED BY <1>1, <1>2, <2>1 DEF InputsAsSet, InputsOf, RightFrom
<1>9. ParametersDue'
  BY <1>1, <1>2 DEF ParametersDue, Building, Complete, Position, Due, Settled
<1> QED BY <1>4, <1>5, <1>6, <1>7, <1>8, <1>9

\* The end of the process takes everything with it.
LEMMA TerminateKeeps ==
  ASSUME ControllerInv, Terminate
  PROVE  ControllerInv'
<1> USE DEF ControllerInv
<1>1. /\ ctl' = "terminated" /\ links' = {} /\ m_fxChain' = <<>>
      /\ clients' = None /\ DOMAIN clients' = {}
      /\ m_pluginHandler' = [m_pluginHandler EXCEPT !.alive = FALSE, !.plugins = {}]
      /\ UNCHANGED <<config, client, writes, m_currentConfig, m_globalSettings, directory,
                     requested, requests, applied>>
  BY DEF Terminate, local, history, None
<1>2. TypeOK'
  <2>1. clients' \in [DOMAIN clients' ->
          [name : Name, generation : Nat, ring : Seq(Parameter), values : Values]]
    BY <1>1 DEF None
  <2>2. m_pluginHandler' \in [alive : BOOLEAN, plugins : SUBSET Name, generation : Nat]
    BY <1>1 DEF TypeOK
  <2>3. m_fxChain' \in Seq(ClientId) /\ DOMAIN clients' \subseteq ClientId
    BY <1>1
  <2> QED BY <1>1, <2>1, <2>2, <2>3 DEF TypeOK
<1>3. ClientsOfChain' /\ CodeOfHandler' /\ ChainSoFar'
  <2>1. m_pluginHandler'.plugins = {}
    BY <1>1 DEF TypeOK
  <2>2. Len(m_fxChain') = 0
    BY <1>1
  <2> QED BY <1>1, <2>1, <2>2 DEF ClientsOfChain, Chain, Position, CodeOfHandler,
     ProcessorCodeMapped, ChainSoFar, Building, Complete
<1>4. LinksAlongChain' /\ FedIsWhole' /\ InputsAsSet' /\ ParametersDue'
  BY <1>1 DEF LinksAlongChain, Fed, FedIsWhole, InputsAsSet, ParametersDue, Building, Complete
<1> QED BY <1>2, <1>3, <1>4

\* Files in the plugin directory come and go; the handler in use does not
\* notice.
LEMMA ChangeDirectoryKeeps ==
  ASSUME ControllerInv, ChangeDirectory
  PROVE  ControllerInv'
<1>1. /\ directory' \subseteq Name
      /\ UNCHANGED <<ctl, config, client, writes, m_currentConfig, m_globalSettings,
                     m_pluginHandler, m_fxChain, clients, links, requested, requests, applied>>
  BY DEF ChangeDirectory, local, members, server, history
<1>2. TypeOK'
  BY <1>1 DEF ControllerInv, TypeOK
<1>3. \A c \in DOMAIN clients : Due(c)' = Due(c)
  BY <1>1 DEF Due, Settled
<1> QED BY <1>1, <1>2, <1>3, TransfersKeep

\* The invariant speaks of the variables only.
LEMMA StutterKeeps ==
  ASSUME ControllerInv, UNCHANGED vars
  PROVE  ControllerInv'
<1>1. UNCHANGED <<ctl, config, client, writes, m_currentConfig, m_globalSettings, directory,
                  m_pluginHandler, m_fxChain, clients, links, requested, requests, applied>>
  BY DEF vars, local, members, server, history
<1>2. TypeOK'
  BY <1>1 DEF ControllerInv, TypeOK
<1>3. \A c \in DOMAIN clients : Due(c)' = Due(c)
  BY <1>1 DEF Due, Settled
<1> QED BY <1>1, <1>2, <1>3, TransfersKeep

\* ControllerInv holds in every state: whichever requests come, whatever fails,
\* and wherever the callbacks of the clients interrupt, the links, the chain
\* and the requested parameters are those of the statement of controller.cc
\* that the control thread is at.
THEOREM ControllerInvariant == Spec => []ControllerInv
<1>1. Init => ControllerInv
  BY InitEstablishes
<1>2. ControllerInv /\ [Next]_vars => ControllerInv'
  <2> SUFFICES ASSUME ControllerInv, [Next]_vars PROVE ControllerInv'
    OBVIOUS
  <2>1. CASE Serve
    BY <2>1, CloseClientKeeps, ResetHandlerKeeps, MakeHandlerKeeps, ApplyConfigKeeps,
       CreateFailsKeeps, CreateClientKeeps, WriteParameterKeeps, EndWritesKeeps,
       ConnectInputsKeeps, ConnectCaptureKeeps, ConnectPlaybackKeeps, TerminateKeeps
    DEF Serve
  <2>2. CASE Request
    BY <2>2, PutConfigKeeps, PutGlobalSettingsKeeps, PutParametersKeeps, PostReloadKeeps
    DEF Request
  <2>3. CASE Shutdown
    BY <2>3, ShutdownKeeps
  <2>4. CASE \E c \in ClientId : Process(c)
    BY <2>4, ProcessKeeps
  <2>5. CASE ChangeDirectory
    BY <2>5, ChangeDirectoryKeeps
  <2>6. CASE UNCHANGED vars
    BY <2>6, StutterKeeps
  <2> QED BY <2>1, <2>2, <2>3, <2>4, <2>5, <2>6 DEF Next
<1> QED BY <1>1, <1>2, PTL DEF Spec

-----------------------------------------------------------------------------
(* What follows at once *)

\* The variables keep their types.
THEOREM TypeInvariant == Spec => []TypeOK
<1>1. ControllerInv => TypeOK
  BY DEF ControllerInv
<1> QED BY <1>1, ControllerInvariant, PTL

\* Neither reload nor shutdown nor an exception unloads the code of a client.
THEOREM ProcessorCodeAlwaysMapped == Spec => []ProcessorCodeMapped
<1>1. ControllerInv => ProcessorCodeMapped
  BY DEF ControllerInv, CodeOfHandler
<1> QED BY <1>1, ControllerInvariant, PTL

\* Between requests the clients are the current configuration, each once.
THEOREM ChainAlwaysCurrentConfig == Spec => []ChainIsCurrentConfig
<1>1. ControllerInv => ChainIsCurrentConfig
  <2> SUFFICES ASSUME ControllerInv, ctl = "idle"
               PROVE  /\ [i \in 1 .. Len(m_fxChain) |-> clients[m_fxChain[i]].name]
                           = Names(m_currentConfig)
                      /\ DOMAIN clients = {m_fxChain[i] : i \in 1 .. Len(m_fxChain)}
                      /\ Cardinality(DOMAIN clients) = Len(m_fxChain)
    BY DEF ChainIsCurrentConfig
  <2> USE DEF ControllerInv
  <2> DEFINE n == Len(m_fxChain)
  <2>1. n \in Nat /\ m_fxChain \in Seq(ClientId) /\ m_currentConfig \in Seq(Effect)
    BY DEF TypeOK
  <2>2. DOMAIN m_currentConfig = 1 .. n
    BY <2>1 DEF ChainSoFar, Complete
  <2>3. \A i \in 1 .. n : clients[m_fxChain[i]].name = m_currentConfig[i].name
    BY DEF ChainSoFar, Complete, Position, EffectAt
  <2>4. DOMAIN clients = {m_fxChain[i] : i \in 1 .. n}
    BY ClientsAreChain DEF ClientsOfChain, Chain, Position
  <2>5. Cardinality(DOMAIN clients) = n
    <3> DEFINE f == [i \in 1 .. n |-> m_fxChain[i]]
    <3>1. IsFiniteSet(1 .. n) /\ Cardinality(1 .. n) = n
      <4>1. 1 \in Int /\ n \in Int /\ (IF 1 > n THEN 0 ELSE n - 1 + 1) = n
        BY <2>1
      <4> HIDE DEF n
      <4> QED BY <4>1, FS_Interval
    <3>2. f \in [1 .. n -> DOMAIN clients]
      BY <2>4
    <3>3. \A i, j \in 1 .. n : f[i] = f[j] => i = j
      BY DEF ClientsOfChain, Position
    <3>4. \A c \in DOMAIN clients : \E i \in 1 .. n : f[i] = c
      BY <2>4
    <3>5. f \in Bijection(1 .. n, DOMAIN clients)
      BY <3>2, <3>3, <3>4 DEF Bijection, Injection, Surjection, IsInjective
    <3>6. ExistsBijection(1 .. n, DOMAIN clients)
      BY <3>5 DEF ExistsBijection
    <3> QED BY <3>1, <3>6, FS_Bijection
  <2> QED BY <2>2, <2>3, <2>4, <2>5 DEF Names
<1> QED BY <1>1, ControllerInvariant, PTL

\* No value that was asked for is lost to one that was asked for before it.
THEOREM LastRequestAlwaysWins == Spec => []LastRequestWins
<1>1. ControllerInv => LastRequestWins
  <2> SUFFICES ASSUME ControllerInv, ctl = "idle", NEW i \in 1 .. Len(m_fxChain)
               PROVE  ApplyAll(clients[m_fxChain[i]].values, clients[m_fxChain[i]].ring)
                        = requested[i]
    BY DEF LastRequestWins
  <2>1. Due(m_fxChain[i]) = requested[i]
    BY DEF ControllerInv, ParametersDue, Complete, Position
  <2>2. m_fxChain[i] # client
    BY ClientIds DEF ControllerInv, TypeOK, ClientsOfChain
  <2> QED BY <2>1, <2>2 DEF Due, Settled
<1> QED BY <1>1, ControllerInvariant, PTL

-----------------------------------------------------------------------------
(* The connections *)

\* From the first client on, the neighbours of the chain are connected; its
\* outputs are connected last.
LinksMade ==
  /\ Building \/ Complete => Neighbours \subseteq links
  /\ ctl \in {"idle", "put"} /\ m_fxChain # <<>> =>
       OutputsOf(m_fxChain[Len(m_fxChain)]) \subseteq links
  /\ ctl \in {"capture", "playback"} => \A l \in links : l[2][1] # System

\* Steps that connect nothing, close nothing and go to no new place of a chain.
LEMMA LinksStayMade ==
  ASSUME LinksMade, UNCHANGED <<m_fxChain, links>>,
         (Building \/ Complete)' => Building \/ Complete \/ m_fxChain = <<>>,
         ctl' \in {"idle", "put"} => ctl \in {"idle", "put"} \/ m_fxChain = <<>>,
         ctl' \in {"capture", "playback"} => ctl \in {"capture", "playback"}
  PROVE  LinksMade'
<1>1. m_fxChain = <<>> => Neighbours = {}
  BY DEF Neighbours
<1>2. Neighbours' = Neighbours
  BY DEF Neighbours
<1>3. \A c : OutputsOf(c)' = OutputsOf(c)
  BY DEF OutputsOf
<1> HIDE DEF Neighbours
<1> QED BY <1>1, <1>2, <1>3 DEF LinksMade

\* The new client is connected to its neighbour at both sides, and to no
\* playback port.
LEMMA ConnectInputsMakes ==
  ASSUME ControllerInv, LinksMade, ConnectInputs
  PROVE  LinksMade'
<1> USE DEF ControllerInv
<1> DEFINE n == Len(m_fxChain)
<1>1. /\ ctl = "connect" /\ client \in ClientId /\ n \in Nat /\ m_fxChain \in Seq(ClientId)
      /\ \A l \in links : l[2][1] # System
      /\ Neighbours \subseteq links
  BY DEF ConnectInputs, ClientsOfChain, LinksAlongChain, LinksMade, Building, TypeOK
<1>2. PICK ok \in SUBSET Side :
        /\ IF m_fxChain = <<>> THEN UNCHANGED links
           ELSE links' = links \cup Link(Last(m_fxChain), client, ok)
        /\ IF m_fxChain = <<>> \/ ok = Side
           THEN /\ m_fxChain' = Append(m_fxChain, client)
                /\ client' = NoClient
                /\ ctl' = IF n + 1 < Len(config) THEN "create" ELSE "capture"
           ELSE ctl' = "thrown" /\ UNCHANGED <<client, m_fxChain>>
  BY DEF ConnectInputs, Connect
<1>3. CASE ~(m_fxChain = <<>> \/ ok = Side)
  BY <1>2, <1>3 DEF LinksMade, Building, Complete
<1>4. CASE m_fxChain = <<>> \/ ok = Side
  <2>1. /\ Len(m_fxChain') = n + 1 /\ m_fxChain'[n + 1] = client
        /\ \A i \in 1 .. n : m_fxChain'[i] = m_fxChain[i]
    BY <1>1, <1>2, <1>4, AppendProperties
  <2>2. ASSUME NEW i \in 1 .. Len(m_fxChain') - 1, NEW s \in Side
        PROVE  <<<<m_fxChain'[i], s>>, <<m_fxChain'[i + 1], s>>>> \in links'
    <3>1. i \in 1 .. n
      BY <1>1, <2>1
    <3>2. CASE i < n
      <4>1. <<<<m_fxChain[i], s>>, <<m_fxChain[i + 1], s>>>> \in Neighbours
        BY <1>1, <3>1, <3>2 DEF Neighbours
      <4>2. i + 1 \in 1 .. n /\ links \subseteq links'
        BY <1>1, <1>2, <3>1, <3>2
      <4> QED BY <4>1, <4>2, <1>1, <2>1, <3>1
    <3>3. CASE i = n
      <4>1. m_fxChain # <<>> /\ Last(m_fxChain) = m_fxChain[n]
        BY <1>1, <3>1, <3>3, LastOfChain
      <4>2. <<<<m_fxChain[n], s>>, <<client, s>>>> \in Link(Last(m_fxChain), client, ok)
        BY <1>4, <4>1 DEF Link
      <4> QED BY <1>2, <2>1, <3>1, <3>3, <4>1, <4>2
    <3> QED BY <1>1, <3>1, <3>2, <3>3
  <2>3. \A l \in links' : l[2][1] # System
    BY <1>1, <1>2, ClientIds DEF Link
  <2>4. (Neighbours \subseteq links)'
    BY <2>2 DEF Neighbours
  <2> QED BY <1>2, <1>4, <2>3, <2>4 DEF LinksMade
<1> QED BY <1>3, <1>4

\* The inputs of the first client are no outputs.
LEMMA ConnectCaptureMakes ==
  ASSUME ControllerInv, LinksMade, ConnectCapture
  PROVE  LinksMade'
<1>1. /\ ctl = "capture" /\ ctl' \in {"playback", "thrown"} /\ m_fxChain' = m_fxChain
      /\ links \subseteq links'
      /\ m_fxChain # <<>>
      /\ \A l \in links' : l \in links \/ l[2][1] = Head(m_fxChain)
  BY DEF ConnectCapture, members, ControllerInv, ChainSoFar
<1>2. Head(m_fxChain) # System
  BY <1>1, LastOfChain DEF ControllerInv
<1>3. Neighbours' = Neighbours
  BY <1>1 DEF Neighbours
<1> QED BY <1>1, <1>2, <1>3 DEF LinksMade, Complete

\* Both outputs of the last client, or an exception.
LEMMA ConnectPlaybackMakes ==
  ASSUME ControllerInv, LinksMade, ConnectPlayback
  PROVE  LinksMade'
<1>1. /\ ctl = "playback" /\ m_fxChain' = m_fxChain /\ m_fxChain # <<>>
  BY DEF ConnectPlayback, members, ControllerInv, ChainSoFar
<1>2. PICK ok \in SUBSET Side : /\ links' = links \cup Link(Last(m_fxChain), System, ok)
                                /\ ctl' = IF ok = Side THEN "idle" ELSE "thrown"
  BY DEF ConnectPlayback, Connect
<1>3. Link(Last(m_fxChain), System, Side) = OutputsOf(m_fxChain[Len(m_fxChain)])
  BY <1>1, LastOfChain DEF ControllerInv, Link, OutputsOf
<1>4. Neighbours' = Neighbours
  BY <1>1 DEF Neighbours
<1>5. OutputsOf(m_fxChain[Len(m_fxChain)])' = OutputsOf(m_fxChain[Len(m_fxChain)])
  BY <1>1 DEF OutputsOf
<1> QED BY <1>1, <1>2, <1>3, <1>4, <1>5 DEF LinksMade, Building, Complete

\* A chain is connected from its first client to its last, and then to the
\* playback ports, whatever comes between.
THEOREM LinksAlwaysMade == Spec => []LinksMade
<1>1. Init => LinksMade
  BY DEF Init, LinksMade, Building, Complete
<1>2. ControllerInv /\ LinksMade /\ [Next]_vars => LinksMade'
  <2> SUFFICES ASSUME ControllerInv, LinksMade, [Next]_vars PROVE LinksMade'
    OBVIOUS
  <2>1. CASE CloseClient \/ Terminate
    BY <2>1 DEF CloseClient, Terminate, LinksMade, Building, Complete
  <2>2. CASE ConnectInputs \/ ConnectCapture \/ ConnectPlayback
    BY <2>2, ConnectInputsMakes, ConnectCaptureMakes, ConnectPlaybackMakes
  <2>3. CASE ResetHandler \/ MakeHandler \/ ApplyConfig
    BY <2>3, LinksStayMade
    DEF ResetHandler, MakeHandler, ApplyConfig, ChainCleared, server, Building, Complete
  <2>4. CASE CreateFails \/ CreateClient \/ WriteParameter \/ EndWrites
    BY <2>4, LinksStayMade
    DEF CreateFails, CreateClient, WriteParameter, EndWrites, members, server, Building, Complete
  <2>5. CASE Request
    BY <2>5, LinksStayMade
    DEF Request, PutConfig, PutGlobalSettings, Rebuild, PutParameters, PostReload, Receive,
        members, server, Building, Complete
  <2>6. CASE Shutdown \/ ChangeDirectory \/ (\E c \in ClientId : Process(c)) \/ UNCHANGED vars
    BY <2>6, LinksStayMade
    DEF Shutdown, ChangeDirectory, Process, vars, members, server, Building, Complete
  <2> QED BY <2>1, <2>2, <2>3, <2>4, <2>5, <2>6 DEF Next, Serve
<1> QED BY <1>1, <1>2, ControllerInvariant, PTL DEF Spec

\* Between requests nothing is connected but the chain, and that throughout: its
\* inputs as the global settings say, its clients one to the next, its outputs.
THEOREM RoutingAlwaysCurrent == Spec => []RoutingIsCurrent
<1>1. ControllerInv /\ LinksMade => RoutingIsCurrent
  <2> SUFFICES ASSUME ControllerInv, LinksMade, ctl = "idle", m_fxChain # <<>>
               PROVE  links = InputsOf(m_fxChain[1]) \cup Neighbours
                                \cup OutputsOf(m_fxChain[Len(m_fxChain)])
    BY NoLinksOfEmptyChain DEF RoutingIsCurrent, ControllerInv
  <2> USE DEF ControllerInv
  <2>1. {l \in links : l[1][1] = System} = InputsOf(m_fxChain[1])
    BY LastOfChain DEF InputsAsSet
  <2>2. Neighbours \subseteq links /\ OutputsOf(m_fxChain[Len(m_fxChain)]) \subseteq links
    BY DEF LinksMade, Complete
  <2>3. ASSUME NEW l \in links
        PROVE  l \in InputsOf(m_fxChain[1]) \cup Neighbours
                       \cup OutputsOf(m_fxChain[Len(m_fxChain)])
    <3>1. CASE WithinChain(l)
      BY <3>1 DEF WithinChain, Neighbours
    <3>2. CASE IntoChain(l)
      <4>1. l[1][1] = System
        BY <3>2 DEF IntoChain
      <4> QED BY <4>1, <2>1
    <3>3. CASE OutOfChain(l)
      BY <3>3 DEF OutOfChain, OutputsOf
    <3> QED BY <3>1, <3>2, <3>3 DEF LinksAlongChain
  <2> QED BY <2>1, <2>2, <2>3
<1> QED BY <1>1, ControllerInvariant, LinksAlwaysMade, PTL

-----------------------------------------------------------------------------
(* The sound *)

(***************************************************************************)
(* A path of sound is the chain: it begins with its first client, the only *)
(* one that is fed, goes on from each to the next, and ends with the last. *)
(* Were the path to leave the chain, it would do so at a first place.      *)
(***************************************************************************)
LEMMA PathIsChain ==
  ASSUME ControllerInv, NEW from \in Side, NEW s \in Side, NEW p \in Paths(from, s)
  PROVE  /\ Fed
         /\ Len(p) = Len(m_fxChain)
         /\ \A i \in Position : p[i] = m_fxChain[i]
<1> USE DEF ControllerInv
<1>1. PICK n \in 1 .. Cardinality(DOMAIN clients) : p \in [1 .. n -> DOMAIN clients]
  BY DEF Paths
<1>2. /\ n \in Nat \ {0} /\ Len(p) = n
      /\ \A i \in 1 .. n : p[i] \in ClientId /\ p[i] # System
  <2>1. n \in Nat \ {0}
    BY <1>1
  <2>2. p \in Seq(DOMAIN clients) /\ Len(p) = n
    BY <1>1, <2>1
  <2>3. DOMAIN clients \subseteq ClientId
    BY DEF TypeOK
  <2> QED BY <1>1, <2>1, <2>2, <2>3, ClientIds
<1>3. <<<<System, from>>, <<p[1], s>>>> \in links
  BY DEF Paths
<1>4. \A i \in 1 .. n - 1 : <<<<p[i], s>>, <<p[i + 1], s>>>> \in links
  BY <1>2 DEF Paths
<1>5. <<<<p[n], s>>, <<System, s>>>> \in links
  BY <1>2 DEF Paths
<1>6. Fed
  BY <1>3 DEF Fed
<1>7. \A l \in links : WithinChain(l) \/ IntoChain(l) \/ OutOfChain(l)
  BY <1>6 DEF LinksAlongChain
<1>8. /\ Len(m_fxChain) \in Nat
      /\ \A i \in Position : m_fxChain[i] \in ClientId /\ m_fxChain[i] # System
      /\ \A i, j \in Position : m_fxChain[i] = m_fxChain[j] => i = j
  BY ClientIds DEF TypeOK, Position, ClientsOfChain
<1>9. m_fxChain # <<>> /\ Len(m_fxChain) > 0 /\ p[1] = m_fxChain[1]
  <2> DEFINE l == <<<<System, from>>, <<p[1], s>>>>
  <2>1. ~WithinChain(l)
    BY <1>8 DEF WithinChain, Position
  <2>2. ~OutOfChain(l)
    BY <1>2 DEF OutOfChain
  <2>3. IntoChain(l)
    BY <1>3, <1>7, <2>1, <2>2
  <2> QED BY <2>3, <1>8 DEF IntoChain
<1>10. ASSUME NEW i \in Position, i < n, p[i] = m_fxChain[i]
       PROVE  i + 1 \in Position /\ p[i + 1] = m_fxChain[i + 1]
  <2> DEFINE l == <<<<p[i], s>>, <<p[i + 1], s>>>>
  <2>1. i \in 1 .. n - 1 /\ l \in links /\ i \in 1 .. n /\ i + 1 \in 1 .. n
    BY <1>2, <1>4, <1>8, <1>10 DEF Position
  <2>2. ~IntoChain(l)
    BY <1>2, <2>1 DEF IntoChain
  <2>3. ~OutOfChain(l)
    BY <1>2, <2>1 DEF OutOfChain
  <2>4. PICK j \in 1 .. Len(m_fxChain) - 1 : p[i] = m_fxChain[j] /\ p[i + 1] = m_fxChain[j + 1]
    BY <1>7, <2>1, <2>2, <2>3 DEF WithinChain
  <2>5. j = i
    <3>1. j \in Position /\ m_fxChain[j] = m_fxChain[i]
      BY <1>8, <1>10, <2>4 DEF Position
    <3> QED BY <3>1, <1>8
  <2> QED BY <2>4, <2>5, <1>8 DEF Position
<1>11. \A i \in 1 .. n : i \in Position /\ p[i] = m_fxChain[i]
  <2> DEFINE T == {i \in 1 .. n : ~(i \in Position /\ p[i] = m_fxChain[i])}
  <2>1. SUFFICES ASSUME T # {} PROVE FALSE
    OBVIOUS
  <2>2. T \in SUBSET Nat
    BY <1>2
  <2>3. PICK i \in T : \A j \in T : i <= j
    BY <2>1, <2>2, Least
  <2>4. i # 1
    BY <1>8, <1>9, <2>3 DEF Position
  <2>5. i - 1 \in 1 .. n /\ i - 1 \notin T
    BY <1>2, <2>3, <2>4
  <2>6. i - 1 \in Position /\ i - 1 < n /\ p[i - 1] = m_fxChain[i - 1]
    BY <2>3, <2>5
  <2>7. (i - 1) + 1 \in Position /\ p[(i - 1) + 1] = m_fxChain[(i - 1) + 1]
    BY <2>6, <1>10
  <2> QED BY <2>3, <2>7
<1>12. n = Len(m_fxChain)
  <2> DEFINE l == <<<<p[n], s>>, <<System, s>>>>
  <2>1. n \in 1 .. n /\ n \in Position /\ p[n] = m_fxChain[n]
    BY <1>2, <1>11
  <2>2. ~WithinChain(l)
    BY <1>8 DEF WithinChain, Position
  <2>3. ~IntoChain(l)
    BY <1>2, <2>1 DEF IntoChain
  <2>4. OutOfChain(l)
    BY <1>5, <1>7, <2>2, <2>3
  <2>5. p[n] = m_fxChain[Len(m_fxChain)] /\ Len(m_fxChain) \in Position
    BY <2>4, <1>8, <1>9 DEF OutOfChain, Position
  <2> QED BY <2>1, <2>5, <1>8
<1> QED BY <1>2, <1>6, <1>11, <1>12 DEF Position

\* What the invariant says of the links at each place leaves no way for a part
\* of a chain to sound.
LEMMA InvariantIsWhole == ASSUME ControllerInv PROVE WholeConfigOrSilence
<1> SUFFICES ASSUME NEW from \in Side, NEW s \in Side, NEW p \in Paths(from, s)
             PROVE  Along(p) = Names(m_currentConfig)
  BY DEF WholeConfigOrSilence, Heard
<1>1. /\ Fed /\ Len(p) = Len(m_fxChain)
      /\ \A i \in Position : p[i] = m_fxChain[i]
  BY PathIsChain
<1>2. /\ Len(m_fxChain) = Len(m_currentConfig)
      /\ \A i \in Position : clients[m_fxChain[i]].name = m_currentConfig[i].name
  BY <1>1 DEF ControllerInv, FedIsWhole, EffectAt
<1>3. DOMAIN m_currentConfig = 1 .. Len(m_currentConfig)
  BY DEF ControllerInv, TypeOK
<1> QED BY <1>1, <1>2, <1>3 DEF Along, Names, Position

\* While a chain is taken down, built and connected client by client and port
\* by port, and wherever that fails, what sounds is all of it or nothing.
THEOREM WholeConfigOrSilenceAlways == Spec => []WholeConfigOrSilence
<1>1. ControllerInv => WholeConfigOrSilence
  BY InvariantIsWhole
<1> QED BY <1>1, ControllerInvariant, PTL

-----------------------------------------------------------------------------
(* The controller implements FxService *)

\* No client, no sound.
LEMMA SilentWithoutClients ==
  ASSUME DOMAIN clients = {}
  PROVE  Heard = {}
<1>1. ASSUME NEW n \in 1 .. Cardinality(DOMAIN clients), NEW p \in [1 .. n -> DOMAIN clients]
      PROVE  FALSE
  <2>1. 1 \in 1 .. n
    OBVIOUS
  <2>2. p[1] \in DOMAIN clients
    BY <2>1
  <2> QED BY <2>2
<1>2. \A from, to \in Side : Paths(from, to) = {}
  BY <1>1 DEF Paths
<1> QED BY <1>2 DEF Heard

\* No connection from a capture port, no sound.
LEMMA SilentUnlessFed ==
  ASSUME ~Fed
  PROVE  Heard = {}
<1>1. \A from, to \in Side : Paths(from, to) = {}
  BY DEF Paths, Fed
<1> QED BY <1>1 DEF Heard

\* No connection to a playback port, no sound.
LEMMA SilentWithoutPlayback ==
  ASSUME \A l \in links : l[2][1] # System
  PROVE  Heard = {}
<1>1. \A from, to \in Side : Paths(from, to) = {}
  BY DEF Paths
<1> QED BY <1>1 DEF Heard

\* The sound depends on the connections and the effects of the clients only.
LEMMA SameSound ==
  ASSUME links' = links, DOMAIN clients' = DOMAIN clients,
         \A c \in DOMAIN clients : clients'[c].name = clients[c].name
  PROVE  Heard' = Heard
<1>1. \A from, to \in Side : Paths(from, to)' = Paths(from, to)
  BY DEF Paths
<1>2. ASSUME NEW from \in Side, NEW to \in Side, NEW p \in Paths(from, to)
      PROVE  Along(p)' = Along(p)
  <2>1. PICK n \in 1 .. Cardinality(DOMAIN clients) : p \in [1 .. n -> DOMAIN clients]
    BY DEF Paths
  <2>2. Len(p) = n /\ \A i \in 1 .. n : p[i] \in DOMAIN clients
    <3>1. n \in Nat
      OBVIOUS
    <3>2. p \in Seq(DOMAIN clients) /\ Len(p) = n
      BY <2>1, <3>1
    <3> QED BY <2>1, <3>2
  <2> QED BY <2>2 DEF Along
<1>3. ASSUME NEW from \in Side, NEW to \in Side
      PROVE  {[effects |-> Along(p), from |-> from, to |-> to] : p \in Paths(from, to)}'
               = {[effects |-> Along(p), from |-> from, to |-> to] : p \in Paths(from, to)}
  BY <1>1, <1>2
<1> QED BY <1>3 DEF Heard

\* The routing that the global settings ask for.
Routing == [to \in Side |-> IF to = "left" THEN "left" ELSE RightFrom]

\* A chain whose inputs are as the settings have them sounds that way.
LEMMA HeardAsRouted ==
  ASSUME ControllerInv, m_fxChain # <<>>,
         {l \in links : l[1][1] = System} = InputsOf(m_fxChain[1])
  PROVE  \A way \in Heard :
           way \in {[effects |-> Names(m_currentConfig), from |-> Routing[to], to |-> to] :
                      to \in Side}
<1>1. SUFFICES ASSUME NEW from \in Side, NEW to \in Side, NEW p \in Paths(from, to)
               PROVE  Along(p) = Names(m_currentConfig) /\ from = Routing[to]
  BY DEF Heard
<1>2. Along(p) = Names(m_currentConfig)
  <2> DEFINE ways(f, s) == {[effects |-> Along(q), from |-> f, to |-> s] : q \in Paths(f, s)}
  <2>1. [effects |-> Along(p), from |-> from, to |-> to] \in ways(from, to)
    OBVIOUS
  <2>2. ways(from, to) \in {ways(f, s) : f \in Side, s \in Side}
    OBVIOUS
  <2>3. [effects |-> Along(p), from |-> from, to |-> to] \in Heard
    <3> HIDE DEF ways
    <3>1. [effects |-> Along(p), from |-> from, to |-> to] \in UNION {ways(f, s) : f \in Side, s \in Side}
      BY <2>1, <2>2
    <3> QED BY <3>1 DEF Heard, ways
  <2> QED BY <2>3, InvariantIsWhole DEF WholeConfigOrSilence
<1>3. p[1] = m_fxChain[1] /\ <<<<System, from>>, <<p[1], to>>>> \in links
  BY PathIsChain, LastOfChain DEF Paths, ControllerInv
<1>4. <<<<System, from>>, <<m_fxChain[1], to>>>> \in InputsOf(m_fxChain[1])
  BY <1>3
<1> QED BY <1>2, <1>4 DEF InputsOf, Routing, Side

\* The names of a chain are a sequence of names.
LEMMA NamesType ==
  ASSUME NEW effects \in Seq(Effect)
  PROVE  Names(effects) \in Seq(Name)
<1>1. /\ Len(effects) \in Nat /\ DOMAIN effects = 1 .. Len(effects)
      /\ \A i \in 1 .. Len(effects) : effects[i] \in Effect
  OBVIOUS
<1>2. \A i \in 1 .. Len(effects) : effects[i].name \in Name
  BY <1>1 DEF Effect
<1>3. Names(effects) \in [1 .. Len(effects) -> Name]
  BY <1>1, <1>2 DEF Names
<1> QED BY <1>1, <1>3

\* What does not touch the connections or the effects of the clients.
LEMMA SoundKept ==
  ASSUME ControllerInv,
         \/ ResetHandler \/ MakeHandler \/ CreateFails \/ WriteParameter \/ EndWrites
         \/ Request \/ Shutdown \/ ChangeDirectory \/ UNCHANGED vars
         \/ \E c \in ClientId : Process(c)
  PROVE  Heard' = Heard
<1>1. links' = links
  BY DEF ResetHandler, MakeHandler, CreateFails, WriteParameter, EndWrites, Request, PutConfig,
         PutGlobalSettings, PutParameters, PostReload, Shutdown, ChangeDirectory, Process, vars,
         server
<1>2. CASE clients' = clients
  BY <1>1, <1>2, SameSound
<1>3. CASE WriteParameter
  <2>1. \/ clients' = clients
        \/ clients' = [clients EXCEPT ![client].ring = Append(@, Head(writes))]
    BY <1>3 DEF WriteParameter
  <2>2. ASSUME clients' = [clients EXCEPT ![client].ring = Append(@, Head(writes))]
        PROVE  /\ DOMAIN clients' = DOMAIN clients
               /\ \A c \in DOMAIN clients : clients'[c].name = clients[c].name
    BY <2>2 DEF ControllerInv, TypeOK
  <2> QED BY <1>1, <1>2, <2>1, <2>2, SameSound
<1>4. CASE \E c \in ClientId : Process(c)
  BY <1>1, <1>4, SameSound DEF Process
<1> QED
  BY <1>2, <1>3, <1>4
  DEF ResetHandler, MakeHandler, CreateFails, EndWrites, Request, PutConfig,
      PutGlobalSettings, PutParameters, PostReload, Shutdown, ChangeDirectory, vars, server

(***************************************************************************)
(* A request replaces the configuration when there is no client; of the    *)
(* steps that leave the configuration, those that build a chain are silent *)
(* up to the last, which starts the sound as it is routed, and the sound   *)
(* stops when the first client is closed.                                  *)
(***************************************************************************)
THEOREM ControllerImplementsService == Spec => ImplementsService
<1>1. Init => Service!Init
  <2> SUFFICES ASSUME Init PROVE Service!Init
    OBVIOUS
  <2>1. Names(m_currentConfig) = <<>>
    BY DEF Init, Names
  <2>2. Heard = {}
    BY SilentWithoutClients DEF Init, None
  <2> QED BY <2>1, <2>2 DEF Init, Service!Init, Service!Silence
<1>2. ControllerInv /\ ControllerInv' /\ LinksMade /\ LinksMade' /\ [Next]_vars
        => [Service!Next]_(Service!vars)
  <2> SUFFICES ASSUME ControllerInv, ControllerInv', LinksMade, LinksMade', [Next]_vars
               PROVE  [Service!Next]_(Service!vars)
    OBVIOUS
  <2> DEFINE configured == [number |-> applied, effects |-> Names(m_currentConfig)]
  <2>1. CASE ApplyConfig
    <3>1. /\ m_currentConfig' = config /\ clients' = clients /\ applied' = applied + 1
          /\ m_fxChain = <<>> /\ client = NoClient
      BY <2>1 DEF ApplyConfig, ChainCleared, ConfigApplied, server, ControllerInv, ClientsOfChain
    <3>2. DOMAIN clients = {} /\ (DOMAIN clients = {})'
      <4>1. DOMAIN clients = {}
        BY <3>1, ClientsAreChain DEF ControllerInv, Chain, Position
      <4> QED BY <3>1, <4>1
    <3>3. Heard = {} /\ (Heard = {})'
      BY <3>2, SilentWithoutClients, PTL
    <3>4. Names(m_currentConfig)' \in Seq(Name)
      BY <3>1, NamesType DEF ControllerInv, TypeOK
    <3> QED
      BY <3>1, <3>3, <3>4 DEF Service!Next, Service!Configure, Service!Silence
  <2>2. ASSUME ~ApplyConfig
        PROVE  configured' = configured
    <3>1. UNCHANGED <<m_currentConfig, applied>>
      BY <2>2 DEF Next, Serve, Request, CloseClient, ResetHandler, MakeHandler, CreateFails,
         CreateClient, WriteParameter, EndWrites, ConnectInputs, ConnectCapture,
         ConnectPlayback, Terminate, PutConfig, PutGlobalSettings, PutParameters, PostReload,
         Shutdown, Process, ChangeDirectory, vars, members, history
    <3> QED BY <3>1
  <2>3. ASSUME (Heard = {})', configured' = configured
        PROVE  [Service!Next]_(Service!vars)
    BY <2>3 DEF Service!Next, Service!Stop, Service!Silence
  <2>4. CASE CreateClient \/ ConnectInputs
    <3>1. ctl \in {"create", "connect"} /\ ctl' \in {"write", "create", "capture", "thrown"}
      BY <2>4 DEF CreateClient, ConnectInputs
    <3>2. \A l \in links' : l[2][1] # System
      <4>1. \A l \in links : l[2][1] # System
        BY <3>1 DEF ControllerInv, LinksAlongChain, Building
      <4>2. client \in ClientId \/ CreateClient
        BY <2>4 DEF ConnectInputs, ControllerInv, TypeOK, ClientsOfChain
      <4> QED BY <2>4, <4>1, <4>2, ClientIds DEF CreateClient, ConnectInputs, Connect, Link
    <3>3. (\A l \in links : l[2][1] # System)'
      BY <3>2
    <3>4. (Heard = {})'
      BY <3>3, SilentWithoutPlayback, PTL
    <3>5. ~ApplyConfig
      BY <3>1 DEF ApplyConfig
    <3> QED BY <2>2, <2>3, <3>4, <3>5
  <2>5. CASE ConnectCapture
    <3>1. ctl = "capture" /\ m_fxChain # <<>>
      BY <2>5 DEF ConnectCapture, ControllerInv, ChainSoFar
    <3>2. Head(m_fxChain) # System
      BY <3>1, LastOfChain DEF ControllerInv
    <3>3. (\A l \in links : l[2][1] # System)'
      BY <2>5, <3>1, <3>2 DEF ConnectCapture, LinksMade
    <3>4. (Heard = {})'
      BY <3>3, SilentWithoutPlayback, PTL
    <3>5. ~ApplyConfig
      BY <3>1 DEF ApplyConfig
    <3> QED BY <2>2, <2>3, <3>4, <3>5
  <2>6. CASE ConnectPlayback
    <3>1. /\ ctl = "playback" /\ m_fxChain # <<>> /\ UNCHANGED <<m_fxChain, m_globalSettings>>
      BY <2>6 DEF ConnectPlayback, members, ControllerInv, ChainSoFar
    <3>2. ~ApplyConfig
      BY <3>1 DEF ApplyConfig
    <3>3. Heard = {}
      BY <3>1, SilentWithoutPlayback DEF LinksMade
    <3>4. {l \in links' : l[1][1] = System} = InputsOf(m_fxChain[1])
      <4>1. {l \in links : l[1][1] = System} = InputsOf(m_fxChain[1])
        BY <3>1, LastOfChain DEF ControllerInv, InputsAsSet
      <4>2. PICK ok \in SUBSET Side : links' = links \cup Link(Last(m_fxChain), System, ok)
        BY <2>6 DEF ConnectPlayback, Connect
      <4>3. \A l \in Link(Last(m_fxChain), System, ok) : l[1][1] # System
        BY <3>1, LastOfChain DEF Link, ControllerInv
      <4> QED BY <4>1, <4>2, <4>3
    <3>5. ({l \in links : l[1][1] = System} = InputsOf(m_fxChain[1]))' /\ (m_fxChain # <<>>)'
      BY <3>1, <3>4 DEF InputsOf, RightFrom
    <3>6. (\A way \in Heard :
             way \in {[effects |-> Names(m_currentConfig), from |-> Routing[to], to |-> to] :
                        to \in Side})'
      BY <3>5, HeardAsRouted, PTL
    <3>7. Routing' = Routing /\ Names(m_currentConfig)' = Names(m_currentConfig)
      BY <2>6 DEF ConnectPlayback, members, Routing, RightFrom
    <3>8. Routing \in [Side -> Side]
      BY DEF Routing, RightFrom, Side
    <3>9. Heard' \subseteq Service!Ways(Routing)
      BY <3>6, <3>7 DEF Service!Ways
    <3> QED
      BY <2>2, <3>2, <3>3, <3>8, <3>9 DEF Service!Next, Service!Start, Service!Silence
  <2>7. CASE CloseClient
    <3>1. /\ ctl \in {"clear", "reload", "shutdown"} /\ m_fxChain # <<>>
          /\ links' = links \ LinksOf(Head(m_fxChain))
      BY <2>7 DEF CloseClient
    <3>2. ASSUME NEW l \in links, l[1][1] = System
          PROVE  l \in LinksOf(Head(m_fxChain))
      <4>1. WithinChain(l) \/ IntoChain(l) \/ OutOfChain(l)
        BY <3>1 DEF ControllerInv, LinksAlongChain
      <4>2. ~WithinChain(l)
        BY <3>2, ClientIds DEF WithinChain, ControllerInv, TypeOK
      <4>3. ~OutOfChain(l)
        BY <3>1, <3>2, LastOfChain DEF OutOfChain, ControllerInv
      <4> QED BY <3>1, <4>1, <4>2, <4>3, LastOfChain DEF IntoChain, LinksOf, ControllerInv
    <3>3. ~Fed'
      BY <3>1, <3>2 DEF Fed
    <3>4. (Heard = {})'
      BY <3>3, SilentUnlessFed, PTL
    <3>5. m_currentConfig' = m_currentConfig /\ applied' = applied
      BY <2>7 DEF CloseClient, history
    <3> QED BY <2>3, <3>4, <3>5
  <2>8. CASE Terminate
    <3>1. (DOMAIN clients = {})'
      BY <2>8 DEF Terminate, None
    <3>2. (Heard = {})'
      BY <3>1, SilentWithoutClients, PTL
    <3>3. ~ApplyConfig
      BY <2>8 DEF Terminate, ApplyConfig
    <3> QED BY <2>2, <2>3, <3>2, <3>3
  <2>9. CASE \/ ResetHandler \/ MakeHandler \/ CreateFails \/ WriteParameter \/ EndWrites
             \/ Request \/ Shutdown \/ ChangeDirectory \/ UNCHANGED vars
             \/ \E c \in ClientId : Process(c)
    <3>1. Heard' = Heard
      BY <2>9, SoundKept
    <3> QED BY <2>1, <2>2, <3>1 DEF Service!vars
  <2> QED BY <2>1, <2>4, <2>5, <2>6, <2>7, <2>8, <2>9 DEF Next, Serve
<1> QED
  BY <1>1, <1>2, ControllerInvariant, LinksAlwaysMade, PTL
  DEF Spec, Service!Spec, ImplementsService
=============================================================================

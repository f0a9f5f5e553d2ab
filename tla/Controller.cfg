\* Chains of up to three effects, two plugins, rings of two parameters, two
\* capture ports, three requests after the start.
CONSTANTS
  A = A
  B = B
  v1 = v1
  v2 = v2
  Name = {A, B}
  Value = {v1, v2}
  Unset = Unset
  ParameterIndex <- MCParameterIndex
  Configs <- MCConfigs
  ParameterLists <- MCParameterLists
  DefaultConfig <- MCDefaultConfig
  RingCapacity = 2
  CapturePorts = 2
  ClientId <- MCClientId
  MaxRequests = 3
SPECIFICATION FairSpec
INVARIANTS TypeOK WholeConfigOrSilence ProcessorCodeMapped ChainIsCurrentConfig
           RoutingIsCurrent LastRequestWins
PROPERTIES  RequestEnds ParametersArrive

\* What GET /config and a reload know of parameters that were changed.
CONSTANTS
  A = A
  B = B
  v1 = v1
  v2 = v2
  Name = {A, B}
  Value = {v1, v2}
  Unset = Unset
  ParameterIndex <- MCParameterIndex
  Configs <- MCConfigs
  ParameterLists <- MCParameterLists
  DefaultConfig <- MCDefaultConfig
  RingCapacity = 2
  CapturePorts = 2
  ClientId <- MCClientId
  MaxRequests = 1
SPECIFICATION Spec
INVARIANT CurrentConfigIsCurrent

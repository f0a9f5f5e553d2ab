CONSTANTS
  PortNumber <- MCPortNumber
  DefaultPort = 1
  PortModulus = 4
  Requests <- MCRequests
  MaxRequests = 0
SPECIFICATION Spec
INVARIANT PluginDirAccepted

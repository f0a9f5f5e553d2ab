\* Start-up and service, two requests that arrive at any time.
CONSTANTS
  PortNumber <- MCPortNumber
  DefaultPort = 1
  PortModulus = 4
  Requests <- MCRequests
  MaxRequests = 2
SPECIFICATION FairSpec
INVARIANT CallbackUsable
PROPERTIES RequestsServed FailedListenEnds

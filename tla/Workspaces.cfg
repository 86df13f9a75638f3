SPECIFICATION FairSpec
CONSTANTS
  H1 = H1
  H2 = H2
  Hosts = {H1, H2}
  Keys = {1, 2}
  OwnerOf <- MCOwnerOf
  Peers <- MCPeers
  Instances <- MCInstances
  Limit = 1
  NoKey = NoKey
  NoPass = NoPass
  OwesNothing = OwesNothing
INVARIANT InUseIsKept
PROPERTIES ProcessKeepsDirectory WantedIsKept OwedIsTaken ImplementsLock
CHECK_DEADLOCK FALSE

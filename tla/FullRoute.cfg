CONSTANTS
  Tunnels = 2
  Adapters <- MCAdapters
  Hosts = {"file", "owned", "beside", "windows"}
  Network = {"home", "away"}
  Metric <- MCMetric
  Gateway = {"home"}
  Carries <- MCCarries
  FamilyOf <- MCFamilyOf
  Servers <- MCServers
  Bypass <- MCBypass
  OnLink <- MCOnLink
  MaxMoves = 1
  MaxFaults = 1
SPECIFICATION FairSpec
PROPERTIES
  EveryEndCleansUp
INVARIANTS BridgeIsGuarded ConnectedIsProtected EndIsPublishedLast

CONSTANTS
  Command = {c1}
  Maintenance = maintenance
  Lease = {l1}
  Tunnel = {t1}
  None = None
  MaxAttempts = 2
  MaxFaults = 1
SPECIFICATION FairSpec
INVARIANTS ClientIsConsistent StoppedStaysStopped
PROPERTIES StopReturns StrayEngineGoes LostTunnelIsReplaced

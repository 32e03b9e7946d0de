CONSTANTS
  Tunnel = {t1, t2}
  Connection = {c1}
  Reaper = Reaper
  Main = Main
  None = None
  LeaseTtl = 2
  RetryDelay = 1
  MaxDropped = 1
  MaxUnrestored = 1
  MaxTorn = 1
SPECIFICATION FairSpec
INVARIANTS
    TunnelIsManaged
    ResolverIsSafe
PROPERTIES
    BrokerGoesOn

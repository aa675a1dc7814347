SPECIFICATION FairSpec
CONSTANTS
  Requests = {r1}
  Keys = {k1}
  NoKey = NoKey
  Usages = {"ok", "critical"}
  MaxInvites = 1
  Faults = {"crash"}
  MaxFaults = 1
  MaxInFlight = 1
PROPERTIES
  CriticalRemovesAccess

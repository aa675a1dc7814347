SPECIFICATION Spec
CONSTANTS
  Requests = {r1, r2}
  Keys = {k1, k2}
  NoKey = NoKey
  Usages = {"ok", "critical"}
  MaxInvites = 1
  Faults = {}
  MaxFaults = 0
  MaxInFlight = 2
PROPERTIES
  OneTimeToken

SPECIFICATION FairSpec
CONSTANTS
  Requests = {r1}
  Keys = {k1}
  NoKey = NoKey
  Usages = {"ok", "warning", "critical"}
  MaxInvites = 1
  Faults = {"crash", "record", "access", "removal"}
  MaxFaults = 1
  MaxInFlight = 1
PROPERTIES
  RetirementFinishes
  LapsedInviteExpires
  CriticalLosesAccess
  QuotaSuspensionEnds

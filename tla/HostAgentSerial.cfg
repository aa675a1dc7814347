SPECIFICATION Spec
CONSTANTS
  Requests = {r1}
  Keys = {k1, k2}
  NoKey = NoKey
  Usages = {"ok", "critical"}
  MaxInvites = 2
  Faults = {"crash", "record", "access", "removal"}
  MaxFaults = 2
  MaxInFlight = 1
INVARIANTS
  TypeOK
  AccessMatchesState
  RecordIsReadable
  ClosedHasNoAccess
PROPERTIES
  OneTimeToken
  LifecycleSpec

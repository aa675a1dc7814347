SPECIFICATION Spec
CONSTANTS
  None = None
  a1 = a1
  a2 = a2
  h1 = h1
  h2 = h2
  k1 = k1
  k2 = k2
  i1 = i1
  i2 = i2
  Peers = {p1, p2}
  Hosts = {h1, h2}
  HostKeys = {k1, k2}
  Allocs = {a1, a2}
  Invites = {i1, i2}
  AllocOf <- MCAllocOf
  HostOf <- MCHostOf
  KeyOf <- MCKeyOf
  MaxEdits = 2
  MaxClicks = 2
  MaxVisits = 2
  MaxCalls = 2
INVARIANTS
  TypeOK
  RecordIsOneInvites
  ResultsMatchTarget
  BusyHasCall
PROPERTIES
  KnownKeyIsKept
CHECK_DEADLOCK FALSE
SYMMETRY Symmetry

SPECIFICATION Spec
CONSTANTS
  Addrs = {a1}
  Tokens = {k1, k2}
  Configs = {c1, c2}
  None = None
  MaxClicks = 4
  MaxCalls = 2
INVARIANTS
  TypeOK
  BusyHasWork
  LoopbackInviteWasTold
  MismatchIsSaid
CHECK_DEADLOCK FALSE

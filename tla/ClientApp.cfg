SPECIFICATION Spec
CONSTANTS
  None = None
  Targets = {t1}
  Folders = {f1}
  Passwords = {w1}
  Tools = {"ready"}
  Reports = {"reachable", "auth_failed"}
  MaxClicks = 3
  MaxCalls = 2
INVARIANTS
  TypeOK
  DoneJobIsStored
  RunningJobHasWork
  WaitingPageHasCall
  PasswordShownIsHeld
  JobsAreSafe
  ReadinessIsCurrent
  LabShownIsTheLab
  FailedDrillBlocks
CHECK_DEADLOCK FALSE

SPECIFICATION FairSpec
CONSTANTS
  Users = {u1, u2}
  MaxRestarts = 2
INVARIANTS
  TypeOK
  NoLostReload
PROPERTIES
  AdmittedCanLogIn

SPECIFICATION AuthSpec
CONSTANTS
  here = here
  there = there
  ann = ann
  old = old
  new = new
  Addresses = {here, there}
  Limit = 2
  Window = 2
  MaxBuckets = 1
  Users = {ann}
  Fingerprints = {old, new}
  NoAccount = NoAccount
  IdleSeconds = 2
  AbsoluteSeconds = 3
  MaxUserSessions = 2
  MaxLogins = 3
  MaxNow = 4
  MaxChanges = 2
SYMMETRY Same
CHECK_DEADLOCK FALSE
INVARIANTS
  AuthTypeOK
  EndsInTime
  RefusedForGood
  FewSessions
  ThrottleHolds

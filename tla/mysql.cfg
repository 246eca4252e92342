SPECIFICATION Spec
CONSTANTS
  Callers = {c1, c2}
  t0 = t0
  Tokens = {t0, t1}
  Mixes <- MCMixes
  Seed <- MCSeed
  NormalizeHost <- MCNormalizeHost
  AdminName = "root"
  AdminPassword = "p"
  SessionTTL = 1
  DefaultLimit = 1
  MaxLimit = 2
  MaxCalls = 3
  MaxFaults = 2
  MaxTime = 1
SYMMETRY MCSymmetry
INVARIANTS TablesOK GrantsExplained NotFoundExplained NoOrphanMembers LoggedUnlessStruck SessionsHaveLogins BodiesKeptByRule EntriesComplete ListingsLatest
PROPERTIES UpdatesExplained AccessImplemented
CHECK_DEADLOCK FALSE

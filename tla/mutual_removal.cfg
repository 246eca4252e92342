SPECIFICATION ApiSpec
CONSTANTS
  Names <- MCNames
  Fold <- MCFold
  Passwords = {"p"}
  RawHosts = {}
  NormalizeHost <- MCNoHosts
  Tokens = {t1, t2}
  Checkers = {}
  MemberSets = {}
  PolicyForms = {}
  AdminName = "root"
  AdminPassword = "p"
  SessionTTL = 0
  MaxID = 9
  MaxTime = 1
  Requests = {r1, r2}
INVARIANT AdminRoleHeld

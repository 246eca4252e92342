SPECIFICATION FairApiSpec
CONSTANTS
  Names <- MCNames
  Fold <- MCFold
  Passwords = {"p"}
  RawHosts = {}
  NormalizeHost <- MCNoHosts
  Tokens = {t1}
  Checkers = {}
  MemberSets <- MCMemberSets
  PolicyForms <- MCPolicyForms
  AdminName = "root"
  AdminPassword = "p"
  SessionTTL = 0
  MaxID = 8
  MaxTime = 1
  Requests = {r1, r2}
INVARIANTS AuditComplete DirectoryExplained
PROPERTY EventuallyLogged

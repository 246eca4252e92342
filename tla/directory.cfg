SPECIFICATION Spec
CONSTANTS
  Names <- MCNames
  Fold <- MCFold
  Passwords = {"p"}
  RawHosts <- MCRawHosts
  NormalizeHost <- MCNormalizeHost
  Tokens = {t1}
  Checkers = {}
  MemberSets <- MCMemberSets
  PolicyForms <- MCPolicyForms
  AdminName = "root"
  AdminPassword = "p"
  SessionTTL = 0
  MaxID = 4
  MaxTime = 1
INVARIANTS TypeOK UserIndexOK AppIndexOK IdsDistinct
PROPERTIES IdsNeverReused RightsOnlyFromGrants AccessImplemented

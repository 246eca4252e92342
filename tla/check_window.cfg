SPECIFICATION WindowSpec
CONSTANTS
  Names <- MCNames
  Fold <- MCFold
  Passwords = {"p"}
  RawHosts <- MCRawHosts
  NormalizeHost <- MCNormalizeHost
  Tokens = {t1}
  Checkers = {c1}
  MemberSets = {}
  PolicyForms <- MCPolicyForms
  AdminName = "root"
  AdminPassword = "p"
  SessionTTL = 0
  MaxID = 4
  MaxTime = 1
INVARIANTS GrantJustified DenialJustified

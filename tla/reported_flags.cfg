SPECIFICATION AuditSpec
CONSTANTS
  Names <- MCNames
  Fold <- MCFold
  Passwords = {"p"}
  RawHosts <- MCRawHosts
  NormalizeHost <- MCNormalizeHost
  Tokens = {t1}
  Checkers = {}
  MemberSets = {}
  PolicyForms = {}
  AdminName = "root"
  AdminPassword = "p"
  SessionTTL = 0
  MaxID = 4
  MaxTime = 0
  Requests = {r1}
  Phone <- MCPhone
  Card <- MCCard
  DefaultMaxBodyBytes = 4
  RuleForms <- MCRuleForms
  Reports <- MCReports
  AdminReports <- MCAdminReports
  Filters <- MCFilters
  Upper <- MCUpper
  DefaultLimit = 1
  MaxLimit = 2
  MaxLogs = 2
INVARIANT FlagsTruthful

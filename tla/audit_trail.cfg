SPECIFICATION AuditSpec
CONSTANTS
  Names <- MCNames
  Fold <- MCFold
  Passwords = {"p"}
  RawHosts <- MCRawHosts
  NormalizeHost <- MCNormalizeHost
  Tokens = {t1, t2}
  Checkers = {}
  MemberSets = {}
  PolicyForms = {}
  AdminName = "root"
  AdminPassword = "p"
  SessionTTL = 0
  MaxID = 7
  MaxTime = 1
  Requests = {r1}
  Phone <- MCPhone
  Card <- MCCard
  DefaultMaxBodyBytes = 4
  RuleForms <- MCRuleForms
  Reports <- MCReports
  AdminReports <- MCAdminReports
  Filters <- MCFilters
  Upper <- MCUpper
  DefaultLimit = 1
  MaxLimit = 2
  MaxLogs = 2
SYMMETRY MCSymmetry
INVARIANTS TrailOK ViewsAudited ListingsExact DirectoryExplained AdminRoleHeld
PROPERTY BodiesOnlyByRule

SPECIFICATION PayloadSpec
CONSTANTS
  Phone <- MCPhone
  Card <- MCCard
  DefaultMaxBodyBytes = 7
  Reported = {"x", "w", "u", "d", "s", "k", "b"}
  MaxLen = 5
  MaxBytes = 4
INVARIANTS StoredRedacted StoredFits
CHECK_DEADLOCK FALSE

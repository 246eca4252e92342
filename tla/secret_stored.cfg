SPECIFICATION PayloadSpec
CONSTANTS
  Phone <- MCPhone
  Card <- MCCard
  DefaultMaxBodyBytes = 7
  Reported = {"x", "w", "s"}
  MaxLen = 3
  MaxBytes = 4
INVARIANT NoSecretStored
CHECK_DEADLOCK FALSE

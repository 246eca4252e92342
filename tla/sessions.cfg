SPECIFICATION FairSpec
CONSTANTS
  Names <- MCTwoNames
  Fold <- MCTwoFolds
  Passwords = {"p", "q"}
  RawHosts = {}
  NormalizeHost <- MCNoHosts
  Tokens = {t1, t2}
  Checkers = {}
  MemberSets = {}
  PolicyForms = {}
  AdminName = "root"
  AdminPassword = "p"
  SessionTTL = 1
  MaxID = 4
  MaxTime = 3
INVARIANTS SessionsOwned LoginsLogged
PROPERTIES SessionsNeverRevived SessionsDieOut

------------------------- MODULE MemoryStoreProofs -------------------------
(***************************************************************************)
(* Proofs about MemoryStore, for every value of its constants.             *)
(***************************************************************************)
EXTENDS MemoryStore, FiniteSetTheorems, TLAPS

----------------------------------------------------------------------------
(* Maps.                                                                   *)

(* Put defines k and leaves the other keys alone.                          *)
LEMMA PutFacts ==
  ASSUME NEW m, NEW k, NEW v
  PROVE  /\ DOMAIN Put(m, k, v) = DOMAIN m \cup {k}
         /\ Put(m, k, v)[k] = v
         /\ \A x \in DOMAIN m : x # k => Put(m, k, v)[x] = m[x]
BY DEF Put

(* Put keeps the type of the values.                                       *)
LEMMA PutType ==
  ASSUME NEW D, NEW S, NEW m \in [D -> S], NEW k, NEW v \in S
  PROVE  Put(m, k, v) \in [D \cup {k} -> S]
BY DEF Put

(* Drop forgets the keys of K and leaves the others alone.                 *)
LEMMA DropFacts ==
  ASSUME NEW m, NEW K
  PROVE  /\ DOMAIN Drop(m, K) = DOMAIN m \ K
         /\ \A x \in DOMAIN m \ K : Drop(m, K)[x] = m[x]
BY DEF Drop

(* Drop keeps the type of the values.                                      *)
LEMMA DropType ==
  ASSUME NEW D, NEW S, NEW m \in [D -> S], NEW K
  PROVE  Drop(m, K) \in [D \ K -> S]
BY DEF Drop

----------------------------------------------------------------------------
(* Type correctness.                                                       *)

LEMMA InitType == Init => TypeOK
<1> SUFFICES ASSUME Init PROVE TypeOK
  OBVIOUS
<1>1. users \in [DOMAIN users -> User] /\ Ids(users)
  <2> DEFINE u == [name |-> AdminName, status |-> "active",
                   admin |-> TRUE, password |-> AdminPassword]
  <2>1. u \in User
    BY NamesAssumption DEF User, Statuses
  <2>2. users \in [{} \cup {1} -> User]
    <3>1. NoEntries \in [{} -> User]
      BY DEF NoEntries
    <3> QED BY <2>1, <3>1, PutType DEF Init
  <2>3. DOMAIN users = {1} /\ nextID - 1 = 1
    BY <2>2 DEF Init
  <2> QED BY <2>2, <2>3 DEF Ids
<1>2. userByName \in [DOMAIN userByName -> 1..(nextID - 1)] /\ DOMAIN userByName \subseteq Keys
  <2>1. NoEntries \in [{} -> 1..1] /\ 1 \in 1..1
    BY DEF NoEntries
  <2>2. userByName \in [{} \cup {Fold[AdminName]} -> 1..1]
    BY <2>1, PutType DEF Init
  <2>3. DOMAIN userByName = {Fold[AdminName]} /\ nextID - 1 = 1
    BY <2>2 DEF Init
  <2> QED BY <2>2, <2>3, NamesAssumption DEF Keys
<1>3. checks \in [Checkers -> Check]
  <2>1. Checkers # {} => IdleCheck \in Check
    BY CheckersAssumption DEF IdleCheck, Check, Outcomes
  <2> QED BY <2>1 DEF Init
<1>4. /\ groups \in [DOMAIN groups -> SUBSET Nat] /\ Ids(groups)
      /\ apps \in [DOMAIN apps -> App] /\ Ids(apps)
      /\ appByHost \in [DOMAIN appByHost -> 1..(nextID - 1)]
      /\ DOMAIN appByHost \subseteq Domains
      /\ policies \in [DOMAIN policies -> Policy] /\ Ids(policies)
      /\ sessions \in [DOMAIN sessions -> Session]
      /\ DOMAIN sessions \subseteq issued
  BY DEF Init, NoEntries, Ids
<1>5. nextID \in Nat \ {0} /\ issued \subseteq Tokens /\ loginLogs \in Seq(LoginLog) /\ now \in Nat
  BY DEF Init
<1> QED BY <1>1, <1>2, <1>3, <1>4, <1>5 DEF TypeOK

LEMMA AuthenticateType ==
  ASSUME TypeOK, NEW name \in Names, NEW password \in Passwords, NEW t \in Tokens,
         Authenticate(name, password, t)
  PROVE  TypeOK'
<1> DEFINE id == userByName[Fold[name]]
           s  == [user |-> id, expires |-> now + SessionTTL]
<1>1. nextID' \in Nat \ {0} /\ nextID' = nextID + 1
  BY DEF Authenticate, LogLogin, TakeID, TypeOK
<1>2. s \in Session
  BY BoundsAssumption DEF TypeOK, Authenticate, ValidLogin, Session
<1>3. sessions' \in [DOMAIN sessions' -> Session] /\ DOMAIN sessions' \subseteq issued' /\ issued' \subseteq Tokens
  <2>1. sessions' \in [DOMAIN sessions \cup {t} -> Session]
    BY <1>2, PutType DEF TypeOK, Authenticate
  <2> QED BY <2>1 DEF TypeOK, Authenticate
<1>4. loginLogs' \in Seq(LoginLog)
  BY DEF TypeOK, Authenticate, LogLogin, LoginEntry, LoginLog
<1> QED BY <1>1, <1>3, <1>4 DEF TypeOK, Authenticate, Ids, directory

LEMMA RejectLoginType ==
  ASSUME TypeOK, NEW name \in Names, NEW password \in Passwords,
         RejectLogin(name, password)
  PROVE  TypeOK'
<1>1. nextID' \in Nat \ {0} /\ nextID' = nextID + 1
  BY DEF RejectLogin, LogLogin, TakeID, TypeOK
<1>2. loginLogs' \in Seq(LoginLog)
  BY DEF TypeOK, RejectLogin, LogLogin, LoginEntry, LoginLog
<1> QED BY <1>1, <1>2 DEF TypeOK, RejectLogin, Ids, directory

(* Whatever keeps everything but some sessions and the checks keeps the type. *)
LEMMA DropSessionsType ==
  ASSUME TypeOK, NEW K, sessions' = Drop(sessions, K) \/ sessions' = sessions,
         checks' \in [Checkers -> Check],
         UNCHANGED <<directory, loginLogs, issued, nextID, now>>
  PROVE  TypeOK'
<1>1. sessions' \in [DOMAIN sessions' -> Session] /\ DOMAIN sessions' \subseteq issued
  <2>1. CASE sessions' = sessions
    BY <2>1 DEF TypeOK
  <2>2. CASE sessions' = Drop(sessions, K)
    <3>1. sessions' \in [DOMAIN sessions \ K -> Session]
      BY <2>2, DropType DEF TypeOK
    <3> QED BY <3>1 DEF TypeOK
  <2> QED BY <2>1, <2>2
<1> QED BY <1>1 DEF TypeOK, Ids, directory

LEMMA LogoutType ==
  ASSUME TypeOK, NEW t \in Tokens, Logout(t)
  PROVE  TypeOK'
BY DropSessionsType DEF Logout, TypeOK

LEMMA UserBySessionType ==
  ASSUME TypeOK, NEW t \in Tokens, UserBySession(t)
  PROVE  TypeOK'
BY DropSessionsType DEF UserBySession, PurgeIfDead, TypeOK

LEMMA CheckRejectType ==
  ASSUME TypeOK, NEW c \in Checkers, NEW t \in Tokens, NEW h \in RawHosts,
         CheckReject(c, t, h)
  PROVE  TypeOK'
<1>1. checks' \in [Checkers -> Check]
  BY DEF TypeOK, CheckReject, Check, Outcomes
<1> QED BY <1>1, DropSessionsType DEF CheckReject, PurgeIfDead

LEMMA CheckLookupType ==
  ASSUME TypeOK, NEW c \in Checkers, NEW t \in Tokens, NEW h \in RawHosts,
         CheckLookup(c, t, h)
  PROVE  TypeOK'
<1>1. users[sessions[t].user].admin \in BOOLEAN /\ sessions[t].user \in Nat
  BY DEF TypeOK, CheckLookup, Authenticated, Live, User, Session
<1>2. checks' \in [Checkers -> Check]
  BY <1>1 DEF TypeOK, CheckLookup, Check
<1> QED BY <1>2, DropSessionsType DEF CheckLookup, logins

LEMMA CheckDecideType ==
  ASSUME TypeOK, NEW c \in Checkers, CheckDecide(c)
  PROVE  TypeOK'
<1>1. \A user, admin, host : Decision(user, admin, host) \in Outcomes
  BY DEF Decision, Outcomes
<1>2. checks' \in [Checkers -> Check]
  BY <1>1 DEF TypeOK, CheckDecide, Check
<1> QED BY <1>2, DropSessionsType DEF CheckDecide, logins

LEMMA CreateUserType ==
  ASSUME TypeOK, NEW name \in Names, NEW password \in Passwords, NEW admin \in BOOLEAN,
         CreateUser(name, password, admin)
  PROVE  TypeOK'
<1> DEFINE u == [name |-> name, status |-> "active", admin |-> admin, password |-> password]
<1>1. nextID' \in Nat \ {0} /\ nextID' = nextID + 1 /\ nextID \in 1..(nextID' - 1)
      /\ 1..(nextID - 1) \subseteq 1..(nextID' - 1)
  BY DEF CreateUser, TakeID, TypeOK
<1>2. users' \in [DOMAIN users' -> User] /\ Ids(users)'
  <2>1. u \in User
    BY DEF User, Statuses
  <2>2. users' \in [DOMAIN users \cup {nextID} -> User]
    BY <2>1, PutType DEF TypeOK, CreateUser
  <2> QED BY <1>1, <2>2 DEF TypeOK, Ids
<1>3. userByName' \in [DOMAIN userByName' -> 1..(nextID' - 1)] /\ DOMAIN userByName' \subseteq Keys
  <2>1. userByName \in [DOMAIN userByName -> 1..(nextID' - 1)]
    BY <1>1 DEF TypeOK
  <2>2. userByName' \in [DOMAIN userByName \cup {Fold[name]} -> 1..(nextID' - 1)]
    BY <1>1, <2>1, PutType DEF CreateUser
  <2> QED BY <2>2 DEF TypeOK, Keys
<1> QED BY <1>1, <1>2, <1>3 DEF TypeOK, CreateUser, Ids, logins

LEMMA UpdateUserType ==
  ASSUME TypeOK, NEW id \in DOMAIN users, NEW status \in Statuses \cup {""},
         NEW admin \in BOOLEAN, NEW password \in Passwords \cup {""},
         UpdateUser(id, status, admin, password)
  PROVE  TypeOK'
<1> DEFINE old == users[id]
           new == [old EXCEPT !.status   = IF status = "" THEN old.status ELSE status,
                              !.admin    = admin,
                              !.password = IF password = "" THEN old.password ELSE password]
<1>1. users' \in [DOMAIN users -> User]
  <2>1. old \in User
    BY DEF TypeOK
  <2>2. new \in User
    BY <2>1 DEF User
  <2>3. users' = [users EXCEPT ![id] = new]
    BY DEF UpdateUser
  <2> QED BY <2>2, <2>3 DEF TypeOK
<1> QED BY <1>1 DEF TypeOK, UpdateUser, Ids, logins

LEMMA DeleteUserType ==
  ASSUME TypeOK, NEW id \in DOMAIN users, DeleteUser(id)
  PROVE  TypeOK'
<1>1. users' \in [DOMAIN users \ {id} -> User]
  BY DropType DEF TypeOK, DeleteUser
<1>2. userByName' \in [DOMAIN userByName \ {Fold[users[id].name]} -> 1..(nextID - 1)]
  BY DropType DEF TypeOK, DeleteUser, IndexKey
<1>3. groups' \in [DOMAIN groups -> SUBSET Nat]
  BY DEF TypeOK, DeleteUser
<1>4. \E K : policies' \in [DOMAIN policies \ K -> Policy]
  BY DropType DEF TypeOK, DeleteUser
<1>5. \E K : sessions' \in [DOMAIN sessions \ K -> Session]
  BY DropType DEF TypeOK, DeleteUser
<1> QED BY <1>1, <1>2, <1>3, <1>4, <1>5 DEF TypeOK, DeleteUser, Ids

LEMMA CreateGroupType ==
  ASSUME TypeOK, NEW members \in MemberSets, CreateGroup(members)
  PROVE  TypeOK'
<1>1. nextID' \in Nat \ {0} /\ nextID' = nextID + 1
  BY DEF CreateGroup, TakeID, TypeOK
<1>2. groups' \in [DOMAIN groups \cup {nextID} -> SUBSET Nat]
  BY RequestsAssumption, PutType DEF TypeOK, CreateGroup
<1> QED BY <1>1, <1>2 DEF TypeOK, CreateGroup, Ids, logins

LEMMA UpdateGroupType ==
  ASSUME TypeOK, NEW id \in DOMAIN groups, NEW members \in MemberSets,
         UpdateGroup(id, members)
  PROVE  TypeOK'
<1>1. groups' \in [DOMAIN groups -> SUBSET Nat]
  BY RequestsAssumption DEF TypeOK, UpdateGroup
<1> QED BY <1>1 DEF TypeOK, UpdateGroup, Ids, logins

LEMMA DeleteGroupType ==
  ASSUME TypeOK, NEW id \in DOMAIN groups, DeleteGroup(id)
  PROVE  TypeOK'
<1>1. groups' \in [DOMAIN groups \ {id} -> SUBSET Nat]
  BY DropType DEF TypeOK, DeleteGroup
<1>2. \E K : policies' \in [DOMAIN policies \ K -> Policy]
  BY DropType DEF TypeOK, DeleteGroup
<1> QED BY <1>1, <1>2 DEF TypeOK, DeleteGroup, Ids, logins

LEMMA CreateAppType ==
  ASSUME TypeOK, NEW raw \in RawHosts, NEW enabled \in BOOLEAN, CreateApp(raw, enabled)
  PROVE  TypeOK'
<1> DEFINE host == NormalizeHost[raw]
           app  == [domain |-> host, enabled |-> enabled]
<1>1. nextID' \in Nat \ {0} /\ nextID' = nextID + 1 /\ nextID \in 1..(nextID' - 1)
      /\ 1..(nextID - 1) \subseteq 1..(nextID' - 1)
  BY DEF CreateApp, TakeID, TypeOK
<1>2. apps' \in [DOMAIN apps \cup {nextID} -> App]
  <2>1. app \in App
    BY DEF App, Domains
  <2> QED BY <2>1, PutType DEF TypeOK, CreateApp
<1>3. appByHost' \in [DOMAIN appByHost \cup {host} -> 1..(nextID' - 1)]
  <2>1. appByHost \in [DOMAIN appByHost -> 1..(nextID' - 1)]
    BY <1>1 DEF TypeOK
  <2> QED BY <1>1, <2>1, PutType DEF CreateApp
<1>4. host \in Domains
  BY DEF Domains
<1>5. Ids(apps)'
  BY <1>1, <1>2 DEF TypeOK, Ids
<1> QED BY <1>1, <1>2, <1>3, <1>4, <1>5 DEF TypeOK, CreateApp, Ids, logins

LEMMA UpdateAppType ==
  ASSUME TypeOK, NEW id \in DOMAIN apps, NEW raw \in RawHosts, NEW enabled \in BOOLEAN,
         UpdateApp(id, raw, enabled)
  PROVE  TypeOK'
<1> DEFINE host == NormalizeHost[raw]
           app  == [domain |-> IF host = "" THEN apps[id].domain ELSE host,
                    enabled |-> enabled]
           rest == Drop(appByHost, {apps[id].domain})
<1>1. host \in Domains
  BY DEF Domains
<1>2. apps' \in [DOMAIN apps -> App]
  <2>1. app \in App
    BY <1>1 DEF TypeOK, App
  <2>2. apps' = [apps EXCEPT ![id] = app]
    BY DEF UpdateApp
  <2> QED BY <2>1, <2>2 DEF TypeOK
<1>3. appByHost' \in [DOMAIN appByHost' -> 1..(nextID - 1)] /\ DOMAIN appByHost' \subseteq Domains
  <2>1. CASE host = ""
    BY <2>1 DEF TypeOK, UpdateApp
  <2>2. CASE host # ""
    <3>1. rest \in [DOMAIN appByHost \ {apps[id].domain} -> 1..(nextID - 1)]
      BY DropType DEF TypeOK
    <3>2. id \in 1..(nextID - 1)
      BY DEF TypeOK, Ids
    <3>3. appByHost' \in [(DOMAIN appByHost \ {apps[id].domain}) \cup {host} -> 1..(nextID - 1)]
      BY <2>2, <3>1, <3>2, PutType DEF UpdateApp, Rehosted
    <3> QED BY <1>1, <3>3 DEF TypeOK
  <2> QED BY <2>1, <2>2
<1> QED BY <1>2, <1>3 DEF TypeOK, UpdateApp, Ids, logins

LEMMA DeleteAppType ==
  ASSUME TypeOK, NEW id \in DOMAIN apps, DeleteApp(id)
  PROVE  TypeOK'
<1>1. apps' \in [DOMAIN apps \ {id} -> App]
  BY DropType DEF TypeOK, DeleteApp
<1>2. appByHost' \in [DOMAIN appByHost \ {apps[id].domain} -> 1..(nextID - 1)]
  BY DropType DEF TypeOK, DeleteApp
<1>3. \E K : policies' \in [DOMAIN policies \ K -> Policy]
  BY DropType DEF TypeOK, DeleteApp
<1> QED BY <1>1, <1>2, <1>3 DEF TypeOK, DeleteApp, Ids, logins

LEMMA CreatePolicyType ==
  ASSUME TypeOK, NEW form \in PolicyForms, CreatePolicy(form)
  PROVE  TypeOK'
<1>1. nextID' \in Nat \ {0} /\ nextID' = nextID + 1
  BY DEF CreatePolicy, TakeID, TypeOK
<1>2. Defaulted(form) \in Policy
  <2>1. form \in Policy
    BY RequestsAssumption
  <2> QED BY <2>1 DEF Policy, Effects, Defaulted
<1>3. policies' \in [DOMAIN policies \cup {nextID} -> Policy]
  BY <1>2, PutType DEF TypeOK, CreatePolicy
<1> QED BY <1>1, <1>3 DEF TypeOK, CreatePolicy, Ids, logins

LEMMA DeletePolicyType ==
  ASSUME TypeOK, NEW id \in DOMAIN policies, DeletePolicy(id)
  PROVE  TypeOK'
<1>1. policies' \in [DOMAIN policies \ {id} -> Policy]
  BY DropType DEF TypeOK, DeletePolicy
<1> QED BY <1>1 DEF TypeOK, DeletePolicy, Ids, logins

LEMMA TickType ==
  ASSUME TypeOK, Tick
  PROVE  TypeOK'
BY DEF TypeOK, Tick, Ids, directory, logins

LEMMA NextType == TypeOK /\ [Next]_vars => TypeOK'
<1> SUFFICES ASSUME TypeOK, [Next]_vars PROVE TypeOK'
  OBVIOUS
<1>1. CASE LoginNext
  BY <1>1, AuthenticateType, RejectLoginType DEF LoginNext
<1>2. CASE SessionNext
  BY <1>2, LogoutType, UserBySessionType DEF SessionNext
<1>3. CASE CheckNext
  BY <1>3, CheckRejectType, CheckLookupType, CheckDecideType DEF CheckNext
<1>4. CASE DirectoryNext
  BY <1>4, CreateUserType, UpdateUserType, DeleteUserType,
     CreateGroupType, UpdateGroupType, DeleteGroupType,
     CreateAppType, UpdateAppType, DeleteAppType,
     CreatePolicyType, DeletePolicyType DEF DirectoryNext
<1>5. CASE Tick
  BY <1>5, TickType
<1>6. CASE UNCHANGED vars
  BY <1>6 DEF TypeOK, Ids, vars, directory, logins
<1> QED BY <1>1, <1>2, <1>3, <1>4, <1>5, <1>6 DEF Next

(* In every reachable state each variable of the store has its type, and ids *)
(* of entities lie below the counter (TypeOK), whatever the constants are.   *)
THEOREM TypeCorrect == Spec => []TypeOK
<1>1. Init => TypeOK
  BY InitType
<1>2. TypeOK /\ [Next]_vars => TypeOK'
  BY NextType
<1> QED BY <1>1, <1>2, PTL DEF Spec

----------------------------------------------------------------------------
(* The index maps.                                                         *)

LEMMA CreateUserIndex ==
  ASSUME TypeOK, UserIndexOK, NEW name \in Names, NEW password \in Passwords,
         NEW admin \in BOOLEAN, CreateUser(name, password, admin)
  PROVE  UserIndexOK'
<1>1. nextID \notin DOMAIN users
  BY DEF TypeOK, Ids
<1>2. /\ DOMAIN users' = DOMAIN users \cup {nextID}
      /\ users'[nextID].name = name
      /\ \A x \in DOMAIN users : users'[x] = users[x]
  BY <1>1 DEF CreateUser, Put
<1>3. /\ DOMAIN userByName' = DOMAIN userByName \cup {Fold[name]}
      /\ userByName'[Fold[name]] = nextID
      /\ \A key \in DOMAIN userByName : userByName'[key] = userByName[key]
  BY DEF CreateUser, Put
<1>4. Fold[name] \notin DOMAIN userByName
  BY DEF CreateUser
<1> QED BY <1>1, <1>2, <1>3, <1>4 DEF UserIndexOK

LEMMA UpdateUserIndex ==
  ASSUME TypeOK, UserIndexOK, NEW id \in DOMAIN users, NEW status, NEW admin, NEW password,
         UpdateUser(id, status, admin, password)
  PROVE  UserIndexOK'
<1> DEFINE old == users[id]
           new == [old EXCEPT !.status   = IF status = "" THEN old.status ELSE status,
                              !.admin    = admin,
                              !.password = IF password = "" THEN old.password ELSE password]
<1>1. new.name = old.name
  <2>1. old \in User
    BY DEF TypeOK
  <2> QED BY <2>1 DEF User
<1>2. users' = [users EXCEPT ![id] = new] /\ userByName' = userByName
  BY DEF UpdateUser
<1> HIDE DEF new
<1>3. DOMAIN users' = DOMAIN users /\ \A x \in DOMAIN users : users'[x].name = users[x].name
  BY <1>1, <1>2
<1> QED BY <1>2, <1>3 DEF UserIndexOK

LEMMA DeleteUserIndex ==
  ASSUME TypeOK, UserIndexOK, NEW id \in DOMAIN users, DeleteUser(id)
  PROVE  UserIndexOK'
<1> DEFINE key == Fold[users[id].name]
<1>1. /\ DOMAIN users' = DOMAIN users \ {id}
      /\ \A x \in DOMAIN users \ {id} : users'[x] = users[x]
  BY DEF DeleteUser, Drop
<1>2. /\ DOMAIN userByName' = DOMAIN userByName \ {key}
      /\ \A k \in DOMAIN userByName \ {key} : userByName'[k] = userByName[k]
  BY DEF DeleteUser, IndexKey, Drop
<1>3. \A x \in DOMAIN users : Fold[users[x].name] = key => x = id
  BY DEF UserIndexOK
<1> QED BY <1>1, <1>2, <1>3 DEF UserIndexOK

LEMMA NextUserIndex == TypeOK /\ UserIndexOK /\ [Next]_vars => UserIndexOK'
<1> SUFFICES ASSUME TypeOK, UserIndexOK, [Next]_vars PROVE UserIndexOK'
  OBVIOUS
<1> USE DEF vars, directory, logins
<1>1. UNCHANGED <<users, userByName>> => UserIndexOK'
  BY DEF UserIndexOK
<1>2. CASE LoginNext
  BY <1>1, <1>2 DEF LoginNext, Authenticate, RejectLogin
<1>3. CASE SessionNext
  BY <1>1, <1>3 DEF SessionNext, Logout, UserBySession
<1>4. CASE CheckNext
  BY <1>1, <1>4 DEF CheckNext, CheckReject, CheckLookup, CheckDecide
<1>5. CASE DirectoryNext
  BY <1>1, <1>5, CreateUserIndex, UpdateUserIndex, DeleteUserIndex
     DEF DirectoryNext, CreateGroup, UpdateGroup, DeleteGroup,
         CreateApp, UpdateApp, DeleteApp, CreatePolicy, DeletePolicy
<1>6. CASE Tick
  BY <1>1, <1>6 DEF Tick
<1>7. CASE UNCHANGED vars
  BY <1>1, <1>7
<1> QED BY <1>2, <1>3, <1>4, <1>5, <1>6, <1>7 DEF Next

(* userByName and users describe the same relation in every reachable state, *)
(* whatever sequence of creations, updates and deletions led there.          *)
THEOREM UserIndexCorrect == Spec => []UserIndexOK
<1>1. Init => UserIndexOK
  BY DEF Init, NoEntries, Put, UserIndexOK
<1>2. TypeOK /\ UserIndexOK /\ [Next]_vars => UserIndexOK'
  BY NextUserIndex
<1> QED BY <1>1, <1>2, TypeCorrect, PTL DEF Spec

LEMMA CreateAppIndex ==
  ASSUME TypeOK, AppIndexOK, NEW raw \in RawHosts, NEW enabled \in BOOLEAN,
         CreateApp(raw, enabled)
  PROVE  AppIndexOK'
<1> DEFINE host == NormalizeHost[raw]
<1>1. nextID \notin DOMAIN apps
  BY DEF TypeOK, Ids
<1>2. /\ DOMAIN apps' = DOMAIN apps \cup {nextID}
      /\ apps'[nextID].domain = host
      /\ \A x \in DOMAIN apps : apps'[x] = apps[x]
  BY <1>1 DEF CreateApp, Put
<1>3. /\ DOMAIN appByHost' = DOMAIN appByHost \cup {host}
      /\ appByHost'[host] = nextID
      /\ \A h \in DOMAIN appByHost : appByHost'[h] = appByHost[h]
  BY DEF CreateApp, Put
<1>4. host \notin DOMAIN appByHost
  BY DEF CreateApp
<1> QED BY <1>1, <1>2, <1>3, <1>4 DEF AppIndexOK

LEMMA UpdateAppIndex ==
  ASSUME TypeOK, AppIndexOK, NEW id \in DOMAIN apps, NEW raw \in RawHosts,
         NEW enabled \in BOOLEAN, UpdateApp(id, raw, enabled)
  PROVE  AppIndexOK'
<1> DEFINE host == NormalizeHost[raw]
           old  == apps[id].domain
           rest == Drop(appByHost, {old})
<1>1. /\ DOMAIN apps' = DOMAIN apps
      /\ apps'[id].domain = IF host = "" THEN old ELSE host
      /\ \A x \in DOMAIN apps \ {id} : apps'[x] = apps[x]
  BY DEF UpdateApp
<1>2. CASE host = ""
  <2>1. appByHost' = appByHost /\ \A x \in DOMAIN apps : apps'[x].domain = apps[x].domain
    BY <1>1, <1>2 DEF UpdateApp
  <2>2. {apps'[x].domain : x \in DOMAIN apps'} = {apps[x].domain : x \in DOMAIN apps}
    BY <1>1, <2>1
  <2>3. DOMAIN apps' = DOMAIN apps
    BY <1>1
  <2> QED BY <2>1, <2>2, <2>3 DEF AppIndexOK
<1>3. CASE host # ""
  <2>1. appByHost' = Put(rest, host, id)
    BY <1>3 DEF UpdateApp, Rehosted
  <2>2. /\ DOMAIN appByHost' = (DOMAIN appByHost \ {old}) \cup {host}
        /\ appByHost'[host] = id
        /\ \A h \in DOMAIN appByHost \ {old} : h # host => appByHost'[h] = appByHost[h]
    BY <2>1 DEF Put, Drop
  <2>3. host \in DOMAIN appByHost => appByHost[host] = id
    BY <1>3 DEF UpdateApp
  <2>4. \A x \in DOMAIN apps \ {id} : apps[x].domain # old /\ apps[x].domain # host
    BY <2>3 DEF AppIndexOK
  <2>5. apps'[id].domain = host /\ appByHost[old] = id /\ old \in DOMAIN appByHost
    BY <1>1, <1>3 DEF AppIndexOK
  <2>6. \A h \in DOMAIN appByHost' :
          appByHost'[h] \in DOMAIN apps' /\ apps'[appByHost'[h]].domain = h
    <3> SUFFICES ASSUME NEW h \in DOMAIN appByHost'
                 PROVE  appByHost'[h] \in DOMAIN apps' /\ apps'[appByHost'[h]].domain = h
      OBVIOUS
    <3>1. CASE h = host
      BY <1>1, <2>2, <2>5, <3>1
    <3>2. CASE h # host
      <4>1. h \in DOMAIN appByHost \ {old} /\ appByHost'[h] = appByHost[h]
        BY <2>2, <3>2
      <4>2. appByHost[h] \in DOMAIN apps /\ apps[appByHost[h]].domain = h
        BY <4>1 DEF AppIndexOK
      <4>3. appByHost[h] # id
        BY <4>1, <4>2
      <4> QED BY <1>1, <4>1, <4>2, <4>3
    <3> QED BY <3>1, <3>2
  <2>7. \A x \in DOMAIN apps' :
          apps'[x].domain \in DOMAIN appByHost' /\ appByHost'[apps'[x].domain] = x
    <3> SUFFICES ASSUME NEW x \in DOMAIN apps'
                 PROVE  apps'[x].domain \in DOMAIN appByHost' /\ appByHost'[apps'[x].domain] = x
      OBVIOUS
    <3>1. CASE x = id
      BY <2>2, <2>5, <3>1
    <3>2. CASE x # id
      <4>1. apps'[x] = apps[x] /\ apps[x].domain # old /\ apps[x].domain # host
        BY <1>1, <2>4, <3>2
      <4>2. apps[x].domain \in DOMAIN appByHost /\ appByHost[apps[x].domain] = x
        BY <1>1 DEF AppIndexOK
      <4> QED BY <2>2, <4>1, <4>2
    <3> QED BY <3>1, <3>2
  <2>8. DOMAIN appByHost' = {apps'[x].domain : x \in DOMAIN apps'}
    BY <2>6, <2>7
  <2> QED BY <2>6, <2>7, <2>8 DEF AppIndexOK
<1> QED BY <1>2, <1>3

LEMMA DeleteAppIndex ==
  ASSUME TypeOK, AppIndexOK, NEW id \in DOMAIN apps, DeleteApp(id)
  PROVE  AppIndexOK'
<1> DEFINE host == apps[id].domain
<1>1. /\ DOMAIN apps' = DOMAIN apps \ {id}
      /\ \A x \in DOMAIN apps \ {id} : apps'[x] = apps[x]
  BY DEF DeleteApp, Drop
<1>2. /\ DOMAIN appByHost' = DOMAIN appByHost \ {host}
      /\ \A h \in DOMAIN appByHost \ {host} : appByHost'[h] = appByHost[h]
  BY DEF DeleteApp, Drop
<1>3. \A x \in DOMAIN apps : apps[x].domain = host => x = id
  BY DEF AppIndexOK
<1> QED BY <1>1, <1>2, <1>3 DEF AppIndexOK

LEMMA NextAppIndex == TypeOK /\ AppIndexOK /\ [Next]_vars => AppIndexOK'
<1> SUFFICES ASSUME TypeOK, AppIndexOK, [Next]_vars PROVE AppIndexOK'
  OBVIOUS
<1> USE DEF vars, directory, logins
<1>1. UNCHANGED <<apps, appByHost>> => AppIndexOK'
  BY DEF AppIndexOK
<1>2. CASE LoginNext
  BY <1>1, <1>2 DEF LoginNext, Authenticate, RejectLogin
<1>3. CASE SessionNext
  BY <1>1, <1>3 DEF SessionNext, Logout, UserBySession
<1>4. CASE CheckNext
  BY <1>1, <1>4 DEF CheckNext, CheckReject, CheckLookup, CheckDecide
<1>5. CASE DirectoryNext
  BY <1>1, <1>5, CreateAppIndex, UpdateAppIndex, DeleteAppIndex
     DEF DirectoryNext, CreateUser, UpdateUser, DeleteUser,
         CreateGroup, UpdateGroup, DeleteGroup, CreatePolicy, DeletePolicy
<1>6. CASE Tick
  BY <1>1, <1>6 DEF Tick
<1>7. CASE UNCHANGED vars
  BY <1>1, <1>7
<1> QED BY <1>2, <1>3, <1>4, <1>5, <1>6, <1>7 DEF Next

(* appByHost and apps describe the same relation in every reachable state,   *)
(* so a host leads to the one application that owns it or to none.           *)
THEOREM AppIndexCorrect == Spec => []AppIndexOK
<1>1. Init => AppIndexOK
  BY DEF Init, NoEntries, AppIndexOK
<1>2. TypeOK /\ AppIndexOK /\ [Next]_vars => AppIndexOK'
  BY NextAppIndex
<1> QED BY <1>1, <1>2, TypeCorrect, PTL DEF Spec

----------------------------------------------------------------------------
(* Sessions.                                                               *)

LEMMA NextSessionsOwned == TypeOK /\ SessionsOwned /\ [Next]_vars => SessionsOwned'
<1> SUFFICES ASSUME TypeOK, SessionsOwned, [Next]_vars PROVE SessionsOwned'
  OBVIOUS
<1> USE DEF vars, directory, logins
<1>1. ASSUME DOMAIN users \subseteq DOMAIN users', DOMAIN sessions' \subseteq DOMAIN sessions,
             \A t \in DOMAIN sessions' : sessions'[t] = sessions[t]
      PROVE  SessionsOwned'
  BY <1>1 DEF SessionsOwned
<1>2. ASSUME NEW name \in Names, NEW password \in Passwords, NEW t \in Tokens,
             Authenticate(name, password, t)
      PROVE  SessionsOwned'
  <2>1. userByName[Fold[name]] \in DOMAIN users
    BY <1>2 DEF Authenticate, ValidLogin
  <2>2. DOMAIN sessions' = DOMAIN sessions \cup {t} /\ sessions'[t].user = userByName[Fold[name]]
        /\ \A x \in DOMAIN sessions \ {t} : sessions'[x] = sessions[x]
    BY <1>2 DEF Authenticate, Put
  <2>3. users' = users
    BY <1>2 DEF Authenticate
  <2> QED BY <2>1, <2>2, <2>3 DEF SessionsOwned
<1>3. ASSUME NEW id \in DOMAIN users, DeleteUser(id)
      PROVE  SessionsOwned'
  <2>1. DOMAIN sessions' = {t \in DOMAIN sessions : sessions[t].user # id}
        /\ \A t \in DOMAIN sessions' : sessions'[t] = sessions[t]
    BY <1>3 DEF DeleteUser, SessionsOf, Drop
  <2>2. DOMAIN users' = DOMAIN users \ {id}
    BY <1>3 DEF DeleteUser, Drop
  <2> QED BY <2>1, <2>2 DEF SessionsOwned
<1>4. ASSUME NEW name \in Names, NEW password \in Passwords, NEW admin \in BOOLEAN,
             CreateUser(name, password, admin)
      PROVE  SessionsOwned'
  BY <1>1, <1>4 DEF CreateUser, Put
<1>5. ASSUME NEW id \in DOMAIN users, NEW status, NEW admin, NEW password,
             UpdateUser(id, status, admin, password)
      PROVE  SessionsOwned'
  BY <1>1, <1>5 DEF UpdateUser
<1>6. ASSUME NEW t \in Tokens, PurgeIfDead(t), users' = users
      PROVE  SessionsOwned'
  BY <1>1, <1>6 DEF PurgeIfDead, Drop
<1>7. UNCHANGED <<users, sessions>> => SessionsOwned'
  BY DEF SessionsOwned
<1>8. CASE LoginNext
  BY <1>2, <1>7, <1>8 DEF LoginNext, RejectLogin
<1>9. CASE SessionNext
  <2>1. ASSUME NEW t \in Tokens, Logout(t) PROVE SessionsOwned'
    BY <1>1, <2>1 DEF Logout, Drop
  <2> QED BY <1>6, <1>9, <2>1 DEF SessionNext, UserBySession
<1>10. CASE CheckNext
  BY <1>6, <1>7, <1>10 DEF CheckNext, CheckReject, CheckLookup, CheckDecide
<1>11. CASE DirectoryNext
  BY <1>3, <1>4, <1>5, <1>7, <1>11
     DEF DirectoryNext, CreateGroup, UpdateGroup, DeleteGroup,
         CreateApp, UpdateApp, DeleteApp, CreatePolicy, DeletePolicy
<1>12. CASE Tick \/ UNCHANGED vars
  BY <1>7, <1>12 DEF Tick
<1> QED BY <1>8, <1>9, <1>10, <1>11, <1>12 DEF Next

(* No session outlives its user, whenever the user logged in and however it  *)
(* was updated before DeleteUser removed it.                                 *)
THEOREM SessionsAlwaysOwned == Spec => []SessionsOwned
<1>1. Init => SessionsOwned
  BY DEF Init, NoEntries, SessionsOwned
<1>2. TypeOK /\ SessionsOwned /\ [Next]_vars => SessionsOwned'
  BY NextSessionsOwned
<1> QED BY <1>1, <1>2, TypeCorrect, PTL DEF Spec

(* One step: a token issued before it keeps its session or loses it.         *)
LEMMA NextSessionsKept ==
  [Next]_vars => \A t \in issued \cap DOMAIN sessions' :
                   t \in DOMAIN sessions /\ sessions'[t] = sessions[t]
<1> DEFINE Kept == \A t \in issued \cap DOMAIN sessions' :
                     t \in DOMAIN sessions /\ sessions'[t] = sessions[t]
<1> SUFFICES ASSUME [Next]_vars PROVE Kept
  OBVIOUS
<1> USE DEF vars, directory, logins
<1>1. ASSUME NEW K, sessions' = Drop(sessions, K) PROVE Kept
  BY <1>1 DEF Drop
<1>2. sessions' = sessions => Kept
  OBVIOUS
<1>3. ASSUME NEW name, NEW password, NEW t, Authenticate(name, password, t) PROVE Kept
  BY <1>3 DEF Authenticate, Put
<1>4. ASSUME NEW t, PurgeIfDead(t) PROVE Kept
  BY <1>1, <1>2, <1>4 DEF PurgeIfDead
<1> HIDE DEF Kept
<1>5. CASE LoginNext
  BY <1>2, <1>3, <1>5 DEF LoginNext, RejectLogin
<1>6. CASE SessionNext
  BY <1>1, <1>4, <1>6 DEF SessionNext, Logout, UserBySession
<1>7. CASE CheckNext
  BY <1>2, <1>4, <1>7 DEF CheckNext, CheckReject, CheckLookup, CheckDecide
<1>8. CASE DirectoryNext
  BY <1>1, <1>2, <1>8
     DEF DirectoryNext, CreateUser, UpdateUser, DeleteUser, CreateGroup, UpdateGroup, DeleteGroup,
         CreateApp, UpdateApp, DeleteApp, CreatePolicy, DeletePolicy
<1>9. CASE Tick \/ UNCHANGED vars
  BY <1>2, <1>9 DEF Tick
<1> QED BY <1>5, <1>6, <1>7, <1>8, <1>9 DEF Next

(* A token once issued is never extended, re-pointed or revived.             *)
THEOREM SessionsStayDead == Spec => SessionsNeverRevived
<1>1. [Next]_vars => [\A t \in issued \cap DOMAIN sessions' :
                        t \in DOMAIN sessions /\ sessions'[t] = sessions[t]]_vars
  BY NextSessionsKept
<1> QED BY <1>1, PTL DEF Spec, SessionsNeverRevived

----------------------------------------------------------------------------
(* Identifiers.  Every step either allocates nothing, or gives nextID to one *)
(* entity, or to one entry of the login log.                                 *)

Grows(u, g, a, p) ==
  /\ DOMAIN users' \subseteq DOMAIN users \cup u
  /\ DOMAIN groups' \subseteq DOMAIN groups \cup g
  /\ DOMAIN apps' \subseteq DOMAIN apps \cup a
  /\ DOMAIN policies' \subseteq DOMAIN policies \cup p

AllocatesNothing == Grows({}, {}, {}, {}) /\ loginLogs' = loginLogs /\ nextID' = nextID

AllocatesEntity ==
  /\ \/ Grows({nextID}, {}, {}, {})
     \/ Grows({}, {nextID}, {}, {})
     \/ Grows({}, {}, {nextID}, {})
     \/ Grows({}, {}, {}, {nextID})
  /\ loginLogs' = loginLogs
  /\ nextID' = nextID + 1

AllocatesEntry ==
  /\ Grows({}, {}, {}, {})
  /\ \E entry \in LoginLog : entry.id = nextID /\ loginLogs' = Append(loginLogs, entry)
  /\ nextID' = nextID + 1

Allocation == AllocatesNothing \/ AllocatesEntity \/ AllocatesEntry

LEMMA NextAllocates == TypeOK /\ [Next]_vars => Allocation
<1> SUFFICES ASSUME TypeOK, [Next]_vars PROVE Allocation
  OBVIOUS
<1> USE DEF vars, directory, logins
<1>1. ASSUME NEW name \in Names, NEW password \in Passwords, NEW t \in Tokens,
             Authenticate(name, password, t)
      PROVE  Allocation
  BY <1>1 DEF Authenticate, LogLogin, LoginEntry, TakeID, LoginLog, TypeOK, Allocation, AllocatesEntry, Grows
<1>2. ASSUME NEW name \in Names, NEW password \in Passwords, RejectLogin(name, password)
      PROVE  Allocation
  BY <1>2 DEF RejectLogin, LogLogin, LoginEntry, TakeID, LoginLog, TypeOK, Allocation, AllocatesEntry, Grows
<1>3. UNCHANGED <<users, groups, apps, policies, loginLogs, nextID>> => Allocation
  BY DEF Allocation, AllocatesNothing, Grows
<1>4. ASSUME NEW name, NEW password, NEW admin, CreateUser(name, password, admin)
      PROVE  Allocation
  BY <1>4 DEF CreateUser, TakeID, Put, Allocation, AllocatesEntity, Grows
<1>5. ASSUME NEW id, NEW status, NEW admin, NEW password, UpdateUser(id, status, admin, password)
      PROVE  Allocation
  BY <1>5 DEF UpdateUser, Allocation, AllocatesNothing, Grows
<1>6. ASSUME NEW id, DeleteUser(id) PROVE Allocation
  BY <1>6 DEF DeleteUser, Drop, Allocation, AllocatesNothing, Grows
<1>7. ASSUME NEW members, CreateGroup(members) PROVE Allocation
  BY <1>7 DEF CreateGroup, TakeID, Put, Allocation, AllocatesEntity, Grows
<1>8. ASSUME NEW id, NEW members, UpdateGroup(id, members) PROVE Allocation
  BY <1>8 DEF UpdateGroup, Allocation, AllocatesNothing, Grows
<1>9. ASSUME NEW id, DeleteGroup(id) PROVE Allocation
  BY <1>9 DEF DeleteGroup, Drop, Allocation, AllocatesNothing, Grows
<1>10. ASSUME NEW raw, NEW enabled, CreateApp(raw, enabled) PROVE Allocation
  BY <1>10 DEF CreateApp, TakeID, Put, Allocation, AllocatesEntity, Grows
<1>11. ASSUME NEW id, NEW raw, NEW enabled, UpdateApp(id, raw, enabled) PROVE Allocation
  BY <1>11 DEF UpdateApp, Allocation, AllocatesNothing, Grows
<1>12. ASSUME NEW id, DeleteApp(id) PROVE Allocation
  BY <1>12 DEF DeleteApp, Drop, Allocation, AllocatesNothing, Grows
<1>13. ASSUME NEW form, CreatePolicy(form) PROVE Allocation
  BY <1>13 DEF CreatePolicy, TakeID, Put, Allocation, AllocatesEntity, Grows
<1>14. ASSUME NEW id, DeletePolicy(id) PROVE Allocation
  BY <1>14 DEF DeletePolicy, Drop, Allocation, AllocatesNothing, Grows
<1>15. CASE LoginNext
  BY <1>1, <1>2, <1>15 DEF LoginNext
<1>16. CASE SessionNext \/ CheckNext \/ Tick \/ UNCHANGED vars
  BY <1>3, <1>16 DEF SessionNext, Logout, UserBySession, CheckNext, CheckReject,
                     CheckLookup, CheckDecide, Tick
<1>17. CASE DirectoryNext
  BY <1>4, <1>5, <1>6, <1>7, <1>8, <1>9, <1>10, <1>11, <1>12, <1>13, <1>14, <1>17
     DEF DirectoryNext
<1> QED BY <1>15, <1>16, <1>17 DEF Next

(* An id that was given away never comes to name something new.              *)
THEOREM IdsStayRetired == Spec => IdsNeverReused
<1> DEFINE Retired ==
      /\ DOMAIN users' \subseteq DOMAIN users \cup {nextID}
      /\ DOMAIN groups' \subseteq DOMAIN groups \cup {nextID}
      /\ DOMAIN apps' \subseteq DOMAIN apps \cup {nextID}
      /\ DOMAIN policies' \subseteq DOMAIN policies \cup {nextID}
      /\ nextID' >= nextID
      /\ nextID \in DOMAIN users' \cup DOMAIN groups' \cup DOMAIN apps' \cup DOMAIN policies'
           => nextID' > nextID
<1>1. ASSUME TypeOK, Allocation PROVE Retired
  <2>1. nextID \in Nat /\ nextID \notin DOMAIN users \cup DOMAIN groups \cup DOMAIN apps \cup DOMAIN policies
    BY <1>1 DEF TypeOK, Ids
  <2> QED BY <1>1, <2>1 DEF Allocation, AllocatesNothing, AllocatesEntity, AllocatesEntry, Grows
<1>2. TypeOK /\ [Next]_vars => [Retired]_vars
  BY <1>1, NextAllocates
<1> QED BY <1>2, TypeCorrect, PTL DEF Spec, IdsNeverReused

(* IdsDistinct is inductive once the log's ids are known to lie below nextID. *)
IdInv == IdsDistinct /\ \A i \in DOMAIN loginLogs : loginLogs[i].id < nextID

LEMMA NextIdInv == TypeOK /\ IdInv /\ [Next]_vars => IdInv'
<1> SUFFICES ASSUME TypeOK, IdInv, Allocation PROVE IdInv'
  BY NextAllocates
<1> DEFINE Logged == {loginLogs[i].id : i \in DOMAIN loginLogs}
<1>1. /\ nextID \in Nat
      /\ nextID \notin DOMAIN users /\ nextID \notin DOMAIN groups
      /\ nextID \notin DOMAIN apps /\ nextID \notin DOMAIN policies
      /\ \A i \in DOMAIN loginLogs : loginLogs[i].id \in Nat
      /\ nextID \notin Logged
  <2>1. /\ nextID \in Nat
        /\ nextID \notin DOMAIN users /\ nextID \notin DOMAIN groups
        /\ nextID \notin DOMAIN apps /\ nextID \notin DOMAIN policies
    BY DEF TypeOK, Ids
  <2>2. \A i \in DOMAIN loginLogs : loginLogs[i] \in LoginLog
    BY DEF TypeOK
  <2>3. \A i \in DOMAIN loginLogs : loginLogs[i].id \in Nat
    BY <2>2 DEF LoginLog
  <2>4. nextID \notin Logged
    BY <2>1, <2>3 DEF IdInv
  <2> QED BY <2>1, <2>3, <2>4
<1>2. CASE AllocatesNothing \/ AllocatesEntity
  BY <1>1, <1>2 DEF AllocatesNothing, AllocatesEntity, Grows, IdInv, IdsDistinct
<1>3. CASE AllocatesEntry
  <2>1. PICK entry \in LoginLog : entry.id = nextID /\ loginLogs' = Append(loginLogs, entry)
    BY <1>3 DEF AllocatesEntry
  <2>2. /\ DOMAIN loginLogs = 1..Len(loginLogs)
        /\ DOMAIN loginLogs' = 1..(Len(loginLogs) + 1) /\ Len(loginLogs) \in Nat
        /\ loginLogs'[Len(loginLogs) + 1].id = nextID
        /\ \A i \in DOMAIN loginLogs : loginLogs'[i] = loginLogs[i]
    BY <2>1 DEF TypeOK
  <2>3. {loginLogs'[i].id : i \in DOMAIN loginLogs'} = Logged \cup {nextID}
    BY <2>2
  <2>4. \A i, j \in DOMAIN loginLogs' : i < j => loginLogs'[i].id < loginLogs'[j].id
    BY <1>1, <2>2 DEF IdInv, IdsDistinct
  <2>5. \A i \in DOMAIN loginLogs' : loginLogs'[i].id < nextID'
    BY <1>1, <1>3, <2>2 DEF AllocatesEntry, IdInv
  <2> HIDE DEF Logged
  <2>6. /\ DOMAIN users' \subseteq DOMAIN users /\ DOMAIN groups' \subseteq DOMAIN groups
        /\ DOMAIN apps' \subseteq DOMAIN apps /\ DOMAIN policies' \subseteq DOMAIN policies
    BY <1>3 DEF AllocatesEntry, Grows
  <2>7. /\ DOMAIN users \cap (DOMAIN groups \cup DOMAIN apps \cup DOMAIN policies \cup Logged) = {}
        /\ DOMAIN groups \cap (DOMAIN apps \cup DOMAIN policies \cup Logged) = {}
        /\ DOMAIN apps \cap (DOMAIN policies \cup Logged) = {}
        /\ DOMAIN policies \cap Logged = {}
    BY DEF IdInv, IdsDistinct, Logged
  <2>8. /\ DOMAIN users' \cap (DOMAIN groups' \cup DOMAIN apps' \cup DOMAIN policies' \cup Logged \cup {nextID}) = {}
        /\ DOMAIN groups' \cap (DOMAIN apps' \cup DOMAIN policies' \cup Logged \cup {nextID}) = {}
        /\ DOMAIN apps' \cap (DOMAIN policies' \cup Logged \cup {nextID}) = {}
        /\ DOMAIN policies' \cap (Logged \cup {nextID}) = {}
    BY <1>1, <2>6, <2>7
  <2> QED BY <2>3, <2>4, <2>5, <2>8 DEF IdInv, IdsDistinct
<1> QED BY <1>2, <1>3 DEF Allocation

(* No id ever names two things, and the login log is in id order.            *)
THEOREM IdsAlwaysDistinct == Spec => []IdsDistinct
<1>1. Init => IdInv
  BY DEF Init, NoEntries, Put, IdInv, IdsDistinct
<1>2. TypeOK /\ IdInv /\ [Next]_vars => IdInv'
  BY NextIdInv
<1>3. IdInv => IdsDistinct
  BY DEF IdInv
<1> QED BY <1>1, <1>2, <1>3, TypeCorrect, PTL DEF Spec

----------------------------------------------------------------------------
(* Rights.                                                                 *)

(* One step: a policy that was there before is unchanged or gone.            *)
LEMMA NextPoliciesKept ==
  TypeOK /\ [Next]_vars => \A k \in DOMAIN policies \cap DOMAIN policies' :
                             policies'[k] = policies[k]
<1> DEFINE Kept == \A k \in DOMAIN policies \cap DOMAIN policies' : policies'[k] = policies[k]
<1> SUFFICES ASSUME TypeOK, [Next]_vars PROVE Kept
  OBVIOUS
<1> USE DEF vars, directory, logins
<1>1. ASSUME NEW K, policies' = Drop(policies, K) PROVE Kept
  BY <1>1 DEF Drop
<1>2. policies' = policies => Kept
  OBVIOUS
<1>3. ASSUME NEW form, CreatePolicy(form) PROVE Kept
  <2>1. nextID \notin DOMAIN policies
    BY DEF TypeOK, Ids
  <2> QED BY <1>3, <2>1 DEF CreatePolicy, Put
<1> HIDE DEF Kept
<1>4. CASE LoginNext
  BY <1>2, <1>4 DEF LoginNext, Authenticate, RejectLogin
<1>5. CASE SessionNext \/ CheckNext \/ Tick \/ UNCHANGED vars
  BY <1>2, <1>5 DEF SessionNext, Logout, UserBySession, CheckNext, CheckReject,
                    CheckLookup, CheckDecide, Tick
<1>6. CASE DirectoryNext
  BY <1>1, <1>2, <1>3, <1>6
     DEF DirectoryNext, CreateUser, UpdateUser, DeleteUser, CreateGroup, UpdateGroup, DeleteGroup,
         CreateApp, UpdateApp, DeleteApp, DeletePolicy
<1> QED BY <1>4, <1>5, <1>6 DEF Next

(* Access is closed by default: only a new policy, a new group member or the *)
(* clock gives anybody a right.                                              *)
THEOREM RightsComeFromGrants == Spec => RightsOnlyFromGrants
<1> DEFINE NoGrant == /\ DOMAIN policies' \subseteq DOMAIN policies
                      /\ \A g \in DOMAIN groups' : g \in DOMAIN groups /\ groups'[g] \subseteq groups[g]
                      /\ now' = now
           NoGain  == \A user \in DOMAIN users, app \in DOMAIN apps :
                        Allowed(user, app)' => Allowed(user, app)
<1>1. ASSUME TypeOK, [Next]_vars, NoGrant PROVE NoGain
  <2> SUFFICES ASSUME NEW user, NEW app, Allowed(user, app)' PROVE Allowed(user, app)
    OBVIOUS
  <2>1. PICK k \in DOMAIN policies' :
          policies'[k].app = app /\ InForce(policies[k])' /\ AppliesTo(policies[k], user)'
    BY DEF Allowed
  <2>2. k \in DOMAIN policies /\ policies'[k] = policies[k]
    BY <1>1, <2>1, NextPoliciesKept
  <2>3. InForce(policies[k])
    BY <1>1, <2>1, <2>2 DEF InForce
  <2>4. AppliesTo(policies[k], user)
    BY <1>1, <2>1, <2>2 DEF AppliesTo
  <2> QED BY <2>1, <2>2, <2>3, <2>4 DEF Allowed
<1>2. TypeOK /\ [Next]_vars => [NoGrant => NoGain]_vars
  BY <1>1
<1> QED BY <1>2, TypeCorrect, PTL DEF Spec, RightsOnlyFromGrants

----------------------------------------------------------------------------
(* The login log.                                                          *)

Successes == {i \in DOMAIN loginLogs : loginLogs[i].result = "success"}

LoginInv == IsFiniteSet(issued) /\ LoginsLogged

LEMMA AuthenticateLogged ==
  ASSUME TypeOK, LoginInv, NEW name \in Names, NEW password \in Passwords, NEW t \in Tokens,
         Authenticate(name, password, t)
  PROVE  LoginInv'
<1> DEFINE n == Len(loginLogs) + 1
           entry == [id |-> nextID, name |-> name, result |-> "success"]
<1>1. loginLogs' = Append(loginLogs, entry) /\ Len(loginLogs) \in Nat
      /\ DOMAIN loginLogs = 1..Len(loginLogs)
  BY DEF Authenticate, LogLogin, LoginEntry, TypeOK
<1>2. DOMAIN loginLogs' = 1..n /\ loginLogs'[n] = entry
      /\ \A i \in DOMAIN loginLogs : loginLogs'[i] = loginLogs[i]
  BY <1>1 DEF TypeOK
<1>3. Successes' = Successes \cup {n} /\ n \notin Successes
  BY <1>1, <1>2 DEF Successes
<1>4. IsFiniteSet(Successes)
  <2>1. IsFiniteSet(1..Len(loginLogs))
    BY <1>1, FS_Interval
  <2>2. Successes \subseteq 1..Len(loginLogs)
    BY <1>1 DEF Successes
  <2> QED BY <2>1, <2>2, FS_Subset
<1>5. issued' = issued \cup {t} /\ t \notin issued
  BY DEF Authenticate
<1>6. IsFiniteSet(issued) /\ Cardinality(issued) = Cardinality(Successes)
  BY DEF LoginInv, LoginsLogged, Successes
<1>7. Cardinality(Successes') = Cardinality(Successes) + 1
  BY <1>3, <1>4, FS_AddElement
<1>8. IsFiniteSet(issued') /\ Cardinality(issued') = Cardinality(issued) + 1
  BY <1>5, <1>6, FS_AddElement
<1> QED BY <1>6, <1>7, <1>8 DEF LoginInv, LoginsLogged, Successes

LEMMA RejectLoginLogged ==
  ASSUME TypeOK, LoginInv, NEW name \in Names, NEW password \in Passwords,
         RejectLogin(name, password)
  PROVE  LoginInv'
<1> DEFINE n == Len(loginLogs) + 1
           entry == [id |-> nextID, name |-> name, result |-> "failure"]
<1>1. loginLogs' = Append(loginLogs, entry) /\ Len(loginLogs) \in Nat
      /\ DOMAIN loginLogs = 1..Len(loginLogs)
  BY DEF RejectLogin, LogLogin, LoginEntry, TypeOK
<1>2. DOMAIN loginLogs' = 1..n /\ loginLogs'[n] = entry
      /\ \A i \in DOMAIN loginLogs : loginLogs'[i] = loginLogs[i]
  BY <1>1 DEF TypeOK
<1>3. Successes' = Successes
  BY <1>1, <1>2 DEF Successes
<1> QED BY <1>3 DEF RejectLogin, LoginInv, LoginsLogged, Successes

LEMMA NextLoginInv == TypeOK /\ LoginInv /\ [Next]_vars => LoginInv'
<1> SUFFICES ASSUME TypeOK, LoginInv, [Next]_vars PROVE LoginInv'
  OBVIOUS
<1> USE DEF vars, directory, logins
<1>1. UNCHANGED <<issued, loginLogs>> => LoginInv'
  BY DEF LoginInv, LoginsLogged
<1>2. CASE LoginNext
  BY <1>2, AuthenticateLogged, RejectLoginLogged DEF LoginNext
<1>3. CASE SessionNext \/ CheckNext \/ Tick \/ UNCHANGED vars
  BY <1>1, <1>3 DEF SessionNext, Logout, UserBySession, CheckNext, CheckReject,
                    CheckLookup, CheckDecide, Tick
<1>4. CASE DirectoryNext
  BY <1>1, <1>4
     DEF DirectoryNext, CreateUser, UpdateUser, DeleteUser, CreateGroup, UpdateGroup, DeleteGroup,
         CreateApp, UpdateApp, DeleteApp, CreatePolicy, DeletePolicy
<1> QED BY <1>2, <1>3, <1>4 DEF Next

(* Every token handed out has its success entry in the login log, and no     *)
(* success entry is there without one.                                       *)
THEOREM LoginsAlwaysLogged == Spec => []LoginsLogged
<1>1. Init => LoginInv
  <2> SUFFICES ASSUME Init PROVE LoginInv
    OBVIOUS
  <2>1. issued = {} /\ {i \in DOMAIN loginLogs : loginLogs[i].result = "success"} = {}
    BY DEF Init
  <2> QED BY <2>1, FS_EmptySet DEF LoginInv, LoginsLogged
<1>2. TypeOK /\ LoginInv /\ [Next]_vars => LoginInv'
  BY NextLoginInv
<1>3. LoginInv => LoginsLogged
  BY DEF LoginInv
<1> QED BY <1>1, <1>2, <1>3, TypeCorrect, PTL DEF Spec
=============================================================================

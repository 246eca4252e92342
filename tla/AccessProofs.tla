---------------------------- MODULE AccessProofs ----------------------------
(***************************************************************************)
(* The access check of the in-memory store, for every value of the         *)
(* constants: the store implements AccessSpec, each method mapping to one  *)
(* step of the promise or to a stutter, and every answer of CheckAccess is *)
(* justified, with any number of checkers, users and applications.         *)
(***************************************************************************)
EXTENDS MemoryAccess, CheckWindow, MemoryStoreProofs

----------------------------------------------------------------------------
(* The state AccessSpec sees, key by key.                                  *)

LEMMA AccountFacts ==
  /\ DOMAIN Accounts = DOMAIN users
  /\ \A id \in DOMAIN users : Accounts[id] = AccountOf(id)
BY DEF Accounts

LEMMA SiteFacts ==
  /\ DOMAIN Sites = DOMAIN apps
  /\ \A id \in DOMAIN apps : Sites[id] = SiteOf(id)
BY DEF Sites

LEMMA HolderFacts ==
  /\ DOMAIN Holders = {t \in DOMAIN sessions : Live(t)}
  /\ \A t \in DOMAIN Holders : Holders[t] = sessions[t].user
BY DEF Holders

LEMMA GrantFacts ==
  /\ Grants \subseteq (DOMAIN users) \X (DOMAIN apps)
  /\ \A u \in DOMAIN users, a \in DOMAIN apps : <<u, a>> \in Grants <=> Allowed(u, a)
BY DEF Grants

(* What leaves the directory alone leaves the grants alone.                *)
LEMMA GrantsKept ==
  ASSUME UNCHANGED <<directory, now>>
  PROVE  UNCHANGED <<Accounts, Sites, Grants>>
BY DEF directory, Accounts, AccountOf, Sites, SiteOf, Grants, Allowed, InForce, AppliesTo

(* The ids given away never become fewer.                                  *)
LEMMA SpentGrows ==
  ASSUME TypeOK, nextID' = nextID \/ nextID' = nextID + 1
  PROVE  Spent \subseteq Spent'
<1>1. 1..(nextID - 1) \subseteq 1..(nextID' - 1)
  BY DEF TypeOK
<1> QED BY <1>1 DEF Spent

----------------------------------------------------------------------------
(* Sessions.                                                               *)

LEMMA SessionsDropped ==
  ASSUME NEW K, sessions' = Drop(sessions, K),
         UNCHANGED <<directory, issued, nextID, now>>
  PROVE  Access!SignOut
<1> DEFINE T == K \cap DOMAIN Holders
<1>1. UNCHANGED <<Accounts, Sites, Grants>>
  BY GrantsKept
<1>2. Spent' = Spent
  BY DEF Spent
<1>3. Holders' = Access!Without(Holders, T)
  <2>1. DOMAIN sessions' = DOMAIN sessions \ K /\ \A t \in DOMAIN sessions' : sessions'[t] = sessions[t]
    BY DEF Drop
  <2>2. {t \in DOMAIN sessions' : Live(t)'} = (DOMAIN Holders) \ T
    BY <2>1, HolderFacts DEF Live
  <2>3. Holders' = [t \in (DOMAIN Holders) \ T |-> sessions'[t].user]
    BY <2>2 DEF Holders
  <2>4. \A t \in (DOMAIN Holders) \ T : sessions'[t].user = Holders[t]
    BY <2>1, <2>2, HolderFacts
  <2> HIDE DEF T
  <2> QED BY <2>3, <2>4 DEF Access!Without
<1>4. T \in SUBSET DOMAIN Holders
  OBVIOUS
<1> QED BY <1>1, <1>2, <1>3, <1>4 DEF Access!SignOut

LEMMA AuthenticateMaps ==
  ASSUME TypeOK, UserIndexOK, NEW name \in Names, NEW password \in Passwords, NEW t \in Tokens,
         Authenticate(name, password, t)
  PROVE  Access!SignIn(t)
<1> DEFINE id == userByName[Fold[name]]
<1>1. UNCHANGED <<Accounts, Sites, Grants>>
  BY GrantsKept DEF Authenticate
<1>2. Spent \subseteq Spent'
  BY SpentGrows DEF Authenticate, LogLogin, TakeID
<1>3. id \in DOMAIN Accounts
  BY AccountFacts DEF Authenticate, ValidLogin
<1>4. Holders' = Access!With(Holders, t, id)
  <2>1. t \notin DOMAIN sessions
    BY DEF TypeOK, Authenticate
  <2>2. /\ DOMAIN sessions' = DOMAIN sessions \cup {t}
        /\ sessions'[t] = [user |-> id, expires |-> now + SessionTTL]
        /\ \A s \in DOMAIN sessions : sessions'[s] = sessions[s]
    BY <2>1 DEF Authenticate, Put
  <2>3. ~(now > now + SessionTTL) /\ now' = now
    BY BoundsAssumption DEF TypeOK, Authenticate
  <2>4. {s \in DOMAIN sessions' : Live(s)'} = (DOMAIN Holders) \cup {t}
    BY <2>1, <2>2, <2>3, HolderFacts DEF Live
  <2>5. Holders' = [s \in (DOMAIN Holders) \cup {t} |-> sessions'[s].user]
    BY <2>4 DEF Holders
  <2>6. /\ t \notin DOMAIN Holders
        /\ \A s \in DOMAIN Holders : sessions'[s].user = Holders[s]
        /\ sessions'[t].user = id
    BY <2>1, <2>2, HolderFacts
  <2> HIDE DEF id
  <2> QED BY <2>5, <2>6 DEF Access!With
<1> QED BY <1>1, <1>2, <1>3, <1>4 DEF Authenticate, Access!SignIn

LEMMA TickMaps ==
  ASSUME TypeOK, Tick
  PROVE  Access!Pass
<1> DEFINE T == {t \in DOMAIN Holders : ~Live(t)'}
<1>1. UNCHANGED <<Accounts, Sites, Spent>>
  BY DEF Tick, directory, Accounts, AccountOf, Sites, SiteOf, Spent
<1>2. Grants' \subseteq (DOMAIN Accounts) \X (DOMAIN Sites)
  <2>1. Grants' \subseteq (DOMAIN users') \X (DOMAIN apps')
    BY DEF Grants
  <2> QED BY <2>1, AccountFacts, SiteFacts DEF Tick, directory
<1>3. Holders' = Access!Without(Holders, T)
  <2>1. sessions' = sessions /\ now' = now + 1
    BY DEF Tick, logins
  <2>2. \A t \in DOMAIN sessions : Live(t)' => Live(t)
    BY <2>1 DEF TypeOK, Session, Live
  <2>3. {t \in DOMAIN sessions' : Live(t)'} = (DOMAIN Holders) \ T
    BY <2>1, <2>2, HolderFacts
  <2>4. Holders' = [t \in (DOMAIN Holders) \ T |-> sessions[t].user]
    BY <2>1, <2>3 DEF Holders
  <2>5. \A t \in (DOMAIN Holders) \ T : sessions[t].user = Holders[t]
    BY HolderFacts
  <2> HIDE DEF T
  <2> QED BY <2>4, <2>5 DEF Access!Without
<1>4. issued' = issued /\ T \in SUBSET DOMAIN Holders
  BY DEF Tick, logins
<1> QED BY <1>1, <1>2, <1>3, <1>4 DEF Access!Pass

----------------------------------------------------------------------------
(* Accounts.                                                               *)

(* What leaves sessions and clock alone leaves the holders alone.          *)
LEMMA HoldersKept ==
  ASSUME UNCHANGED <<sessions, now>>
  PROVE  Holders' = Holders
BY DEF Holders, Live

LEMMA AllowedKept ==
  ASSUME UNCHANGED <<groups, policies, now>>
  PROVE  \A u, a : Allowed(u, a)' <=> Allowed(u, a)
BY DEF Allowed, InForce, AppliesTo

LEMMA CreateUserMaps ==
  ASSUME TypeOK, UserIndexOK, NEW name \in Names, NEW password \in Passwords, NEW admin \in BOOLEAN,
         CreateUser(name, password, admin)
  PROVE  /\ nextID \in DOMAIN Accounts' \ DOMAIN Accounts
         /\ Access!OpenAccount(nextID)
<1>1. nextID \notin DOMAIN users /\ nextID \in Nat \ {0} /\ nextID' = nextID + 1
  BY DEF TypeOK, Ids, CreateUser, TakeID
<1>2. /\ DOMAIN users' = DOMAIN users \cup {nextID}
      /\ users'[nextID].name = name
      /\ \A id \in DOMAIN users : users'[id] = users[id]
  BY <1>1 DEF CreateUser, Put
<1>3. /\ DOMAIN Accounts' = DOMAIN Accounts \cup {nextID}
      /\ Accounts'[nextID].name = Fold[name]
      /\ \A id \in DOMAIN Accounts : Accounts'[id] = Accounts[id]
  BY <1>1, <1>2 DEF Accounts, AccountOf
<1>4. Accounts' = Access!With(Accounts, nextID, Accounts'[nextID])
  <2>1. Accounts' = [id \in DOMAIN Accounts' |-> Accounts'[id]]
    BY DEF Accounts
  <2> QED BY <1>1, <1>3, <2>1, AccountFacts DEF Access!With
<1>5. Access!Unnamed(Accounts'[nextID].name)
  <2>1. \A id \in DOMAIN users : Fold[users[id].name] # Fold[name]
    BY DEF CreateUser, UserIndexOK
  <2> QED BY <1>3, <2>1, AccountFacts DEF Access!Unnamed, AccountOf
<1>6. UNCHANGED <<Sites, Holders, issued>>
  BY HoldersKept DEF CreateUser, logins, Sites, SiteOf
<1>7. Grants \subseteq Grants' /\ Grants' \ Grants \subseteq {nextID} \X (DOMAIN Sites)
  <2>1. \A u, a : Allowed(u, a)' <=> Allowed(u, a)
    BY AllowedKept DEF CreateUser
  <2>2. Grants' = {g \in (DOMAIN users \cup {nextID}) \X (DOMAIN apps) : Allowed(g[1], g[2])}
    BY <1>2, <2>1 DEF CreateUser, Grants
  <2> QED BY <2>2, SiteFacts DEF Grants
<1>8. <<"account", nextID>> \notin Spent /\ Spent \cup {<<"account", nextID>>} \subseteq Spent'
  <2>1. nextID \notin 1..(nextID - 1) /\ nextID \in 1..(nextID' - 1)
    BY <1>1
  <2>2. Spent \subseteq Spent'
    BY <1>1, SpentGrows
  <2> QED BY <2>1, <2>2 DEF Spent
<1> QED BY <1>1, <1>3, <1>4, <1>5, <1>6, <1>7, <1>8, AccountFacts DEF Access!OpenAccount

LEMMA UpdateUserMaps ==
  ASSUME TypeOK, NEW id \in DOMAIN users, NEW status \in Statuses \cup {""},
         NEW admin \in BOOLEAN, NEW password \in Passwords \cup {""},
         UpdateUser(id, status, admin, password)
  PROVE  /\ id \in DOMAIN Accounts \cap DOMAIN Accounts'
         /\ Access!ChangeAccount(id)
<1>1. /\ DOMAIN users' = DOMAIN users
      /\ users'[id].name = users[id].name
      /\ \A k \in DOMAIN users \ {id} : users'[k] = users[k]
  <2>1. users[id] \in User
    BY DEF TypeOK
  <2> QED BY <2>1 DEF UpdateUser, User
<1>2. /\ DOMAIN Accounts' = DOMAIN Accounts
      /\ Accounts'[id].name = Accounts[id].name
      /\ \A k \in DOMAIN Accounts \ {id} : Accounts'[k] = Accounts[k]
  BY <1>1 DEF Accounts, AccountOf
<1>3. Accounts' = Access!With(Accounts, id, Accounts'[id])
  <2>1. Accounts' = [k \in DOMAIN Accounts' |-> Accounts'[k]]
    BY DEF Accounts
  <2>2. DOMAIN Accounts = DOMAIN Accounts \cup {id}
    BY AccountFacts
  <2> QED BY <1>2, <2>1, <2>2 DEF Access!With
<1>4. UNCHANGED <<Sites, Holders, issued, Spent>>
  BY HoldersKept DEF UpdateUser, logins, Sites, SiteOf, Spent
<1>5. Grants' = Grants
  <2>1. \A u, a : Allowed(u, a)' <=> Allowed(u, a)
    BY AllowedKept DEF UpdateUser
  <2> QED BY <1>1, <2>1 DEF UpdateUser, Grants
<1> QED BY <1>2, <1>3, <1>4, <1>5, AccountFacts DEF Access!ChangeAccount

(* The cascade of DeleteUser takes from nobody else.                       *)
LEMMA DeleteUserMaps ==
  ASSUME TypeOK, NEW id \in DOMAIN users, DeleteUser(id)
  PROVE  /\ id \in DOMAIN Accounts \ DOMAIN Accounts'
         /\ Access!CloseAccount(id)
<1> DEFINE T == {t \in DOMAIN Holders : Holders[t] = id}
<1>1. DOMAIN users' = DOMAIN users \ {id} /\ \A k \in DOMAIN users' : users'[k] = users[k]
  BY DEF DeleteUser, Drop
<1>2. Accounts' = Access!Without(Accounts, {id})
  BY <1>1 DEF Accounts, AccountOf, Access!Without
<1>3. Holders' = Access!Without(Holders, T)
  <2>1. /\ DOMAIN sessions' = DOMAIN sessions \ SessionsOf(id)
        /\ \A t \in DOMAIN sessions' : sessions'[t] = sessions[t]
    BY DEF DeleteUser, Drop
  <2>2. {t \in DOMAIN sessions' : Live(t)'} = (DOMAIN Holders) \ T
    BY <2>1, HolderFacts DEF DeleteUser, Live, SessionsOf
  <2>3. Holders' = [t \in (DOMAIN Holders) \ T |-> sessions'[t].user]
    BY <2>2 DEF Holders
  <2>4. \A t \in (DOMAIN Holders) \ T : sessions'[t].user = Holders[t]
    BY <2>1, <2>2, HolderFacts
  <2> HIDE DEF T
  <2> QED BY <2>3, <2>4 DEF Access!Without
<1>4. Grants' = {g \in Grants : g[1] # id}
  <2>1. /\ DOMAIN policies' = DOMAIN policies \ PoliciesOf("user", id)
        /\ \A k \in DOMAIN policies' : policies'[k] = policies[k]
    BY DEF DeleteUser, Drop
  <2>2. \A p : \A u \in DOMAIN users \ {id} : AppliesTo(p, u)' <=> AppliesTo(p, u)
    BY DEF DeleteUser, AppliesTo
  <2>3. \A p : InForce(p)' <=> InForce(p)
    BY DEF DeleteUser, InForce
  <2>4. \A u \in DOMAIN users \ {id} : \A a : Allowed(u, a)' <=> Allowed(u, a)
    <3>1. \A u \in DOMAIN users \ {id} : \A k \in DOMAIN policies :
            AppliesTo(policies[k], u) => k \in DOMAIN policies'
      BY <2>1 DEF AppliesTo, PoliciesOf
    <3> QED BY <2>1, <2>2, <2>3, <3>1 DEF Allowed
  <2> QED BY <1>1, <2>4 DEF DeleteUser, Grants
<1>5. UNCHANGED <<Sites, issued, Spent>>
  BY DEF DeleteUser, Sites, SiteOf, Spent
<1>6. id \in DOMAIN Accounts \ DOMAIN Accounts'
  BY <1>1 DEF Accounts
<1> QED BY <1>2, <1>3, <1>4, <1>5, <1>6 DEF Access!CloseAccount

----------------------------------------------------------------------------
(* Groups, policies, and what is not seen at all.                          *)

LEMMA DecreeMaps ==
  ASSUME TypeOK, UNCHANGED <<users, apps, sessions, issued, now>>,
         nextID' = nextID \/ nextID' = nextID + 1
  PROVE  Access!Decree
<1>1. UNCHANGED <<Accounts, Sites, Holders>>
  BY HoldersKept DEF Accounts, AccountOf, Sites, SiteOf
<1>2. Grants' \subseteq (DOMAIN Accounts) \X (DOMAIN Sites)
  <2>1. Grants' \subseteq (DOMAIN users') \X (DOMAIN apps')
    BY DEF Grants
  <2> QED BY <2>1, AccountFacts, SiteFacts
<1>3. Spent \subseteq Spent'
  BY SpentGrows
<1> QED BY <1>1, <1>2, <1>3 DEF Access!Decree

----------------------------------------------------------------------------
(* Applications.                                                           *)

LEMMA CreateAppMaps ==
  ASSUME TypeOK, AppIndexOK, NEW raw \in RawHosts, NEW enabled \in BOOLEAN, CreateApp(raw, enabled)
  PROVE  /\ nextID \in DOMAIN Sites' \ DOMAIN Sites
         /\ Access!OpenSite(nextID)
<1> DEFINE host == NormalizeHost[raw]
<1>1. nextID \notin DOMAIN apps /\ nextID \in Nat \ {0} /\ nextID' = nextID + 1
  BY DEF TypeOK, Ids, CreateApp, TakeID
<1>2. /\ DOMAIN apps' = DOMAIN apps \cup {nextID}
      /\ apps'[nextID].domain = host
      /\ \A id \in DOMAIN apps : apps'[id] = apps[id]
  BY <1>1 DEF CreateApp, Put
<1>3. /\ DOMAIN Sites' = DOMAIN Sites \cup {nextID}
      /\ Sites'[nextID].host = host
      /\ \A id \in DOMAIN Sites : Sites'[id] = Sites[id]
  BY <1>1, <1>2 DEF Sites, SiteOf
<1>4. Sites' = Access!With(Sites, nextID, Sites'[nextID])
  <2>1. Sites' = [id \in DOMAIN Sites' |-> Sites'[id]]
    BY DEF Sites
  <2> QED BY <1>1, <1>3, <2>1, SiteFacts DEF Access!With
<1>5. Access!Unhosted(Sites'[nextID].host)
  <2>1. \A id \in DOMAIN apps : apps[id].domain # host
    BY DEF CreateApp, AppIndexOK
  <2> QED BY <1>3, <2>1, SiteFacts DEF Access!Unhosted, SiteOf
<1>6. UNCHANGED <<Accounts, Holders, issued>>
  BY HoldersKept DEF CreateApp, logins, Accounts, AccountOf
<1>7. Grants \subseteq Grants' /\ Grants' \ Grants \subseteq (DOMAIN Accounts) \X {nextID}
  <2>1. \A u, a : Allowed(u, a)' <=> Allowed(u, a)
    BY AllowedKept DEF CreateApp
  <2>2. Grants' = {g \in (DOMAIN users) \X (DOMAIN apps \cup {nextID}) : Allowed(g[1], g[2])}
    BY <1>2, <2>1 DEF CreateApp, Grants
  <2> QED BY <2>2, AccountFacts DEF Grants
<1>8. <<"site", nextID>> \notin Spent /\ Spent \cup {<<"site", nextID>>} \subseteq Spent'
  <2>1. nextID \notin 1..(nextID - 1) /\ nextID \in 1..(nextID' - 1)
    BY <1>1
  <2>2. Spent \subseteq Spent'
    BY <1>1, SpentGrows
  <2> QED BY <2>1, <2>2 DEF Spent
<1> QED BY <1>1, <1>3, <1>4, <1>5, <1>6, <1>7, <1>8, SiteFacts DEF Access!OpenSite

(* A move to another host finds it free: the index map says so for all apps. *)
LEMMA UpdateAppMaps ==
  ASSUME TypeOK, AppIndexOK, NEW id \in DOMAIN apps, NEW raw \in RawHosts, NEW enabled \in BOOLEAN,
         UpdateApp(id, raw, enabled)
  PROVE  /\ id \in DOMAIN Sites \cap DOMAIN Sites'
         /\ Access!ChangeSite(id)
<1> DEFINE host == NormalizeHost[raw]
<1>1. /\ DOMAIN apps' = DOMAIN apps
      /\ apps'[id].domain = IF host = "" THEN apps[id].domain ELSE host
      /\ \A k \in DOMAIN apps \ {id} : apps'[k] = apps[k]
  BY DEF UpdateApp
<1>2. /\ DOMAIN Sites' = DOMAIN Sites
      /\ Sites'[id].host = IF host = "" THEN Sites[id].host ELSE host
      /\ \A k \in DOMAIN Sites \ {id} : Sites'[k] = Sites[k]
  BY <1>1 DEF Sites, SiteOf
<1>3. Sites' = Access!With(Sites, id, Sites'[id])
  <2>1. Sites' = [k \in DOMAIN Sites' |-> Sites'[k]]
    BY DEF Sites
  <2>2. DOMAIN Sites = DOMAIN Sites \cup {id}
    BY SiteFacts
  <2> QED BY <1>2, <2>1, <2>2 DEF Access!With
<1>4. Sites'[id].host = Sites[id].host \/ Access!Unhosted(Sites'[id].host)
  <2>1. CASE host = ""
    BY <1>2, <2>1
  <2>2. CASE host # ""
    <3>1. host \in DOMAIN appByHost => appByHost[host] = id
      BY <2>2 DEF UpdateApp
    <3>2. \A k \in DOMAIN apps : apps[k].domain = host => k = id
      <4>1. \A k \in DOMAIN apps : apps[k].domain \in DOMAIN appByHost /\ appByHost[apps[k].domain] = k
        BY DEF AppIndexOK
      <4> HIDE DEF host
      <4> QED BY <3>1, <4>1
    <3>3. Sites'[id].host = host /\ \A k \in DOMAIN Sites : k \in DOMAIN apps /\ Sites[k].host = apps[k].domain
      <4>1. Sites'[id].host = host
        BY <1>2, <2>2
      <4>2. \A k \in DOMAIN Sites : k \in DOMAIN apps /\ Sites[k].host = apps[k].domain
        BY SiteFacts DEF SiteOf
      <4> QED BY <4>1, <4>2
    <3> HIDE DEF host
    <3>4. CASE apps[id].domain = host
      BY <3>3, <3>4, SiteFacts
    <3>5. CASE apps[id].domain # host
      <4>1. \A k \in DOMAIN Sites : Sites[k].host # host
        BY <3>2, <3>3, <3>5
      <4> QED BY <3>3, <4>1 DEF Access!Unhosted
    <3> QED BY <3>4, <3>5
  <2> QED BY <2>1, <2>2
<1>5. UNCHANGED <<Accounts, Holders, issued, Spent>>
  BY HoldersKept DEF UpdateApp, logins, Accounts, AccountOf, Spent
<1>6. Grants' = Grants
  <2>1. \A u, a : Allowed(u, a)' <=> Allowed(u, a)
    BY AllowedKept DEF UpdateApp
  <2> QED BY <1>1, <2>1 DEF UpdateApp, Grants
<1> QED BY <1>2, <1>3, <1>4, <1>5, <1>6, SiteFacts DEF Access!ChangeSite

LEMMA DeleteAppMaps ==
  ASSUME TypeOK, NEW id \in DOMAIN apps, DeleteApp(id)
  PROVE  /\ id \in DOMAIN Sites \ DOMAIN Sites'
         /\ Access!CloseSite(id)
<1>1. DOMAIN apps' = DOMAIN apps \ {id} /\ \A k \in DOMAIN apps' : apps'[k] = apps[k]
  BY DEF DeleteApp, Drop
<1>2. Sites' = Access!Without(Sites, {id})
  BY <1>1 DEF Sites, SiteOf, Access!Without
<1>3. id \in DOMAIN Sites \ DOMAIN Sites'
  BY <1>1 DEF Sites
<1>4. Grants' = {g \in Grants : g[2] # id}
  <2>1. /\ DOMAIN policies' = {k \in DOMAIN policies : policies[k].app # id}
        /\ \A k \in DOMAIN policies' : policies'[k] = policies[k]
    BY DEF DeleteApp, Drop
  <2>2. \A p : (InForce(p)' <=> InForce(p)) /\ \A u : AppliesTo(p, u)' <=> AppliesTo(p, u)
    BY DEF DeleteApp, InForce, AppliesTo
  <2>3. \A u : \A a \in DOMAIN apps \ {id} : Allowed(u, a)' <=> Allowed(u, a)
    BY <2>1, <2>2 DEF Allowed
  <2> QED BY <1>1, <2>3 DEF DeleteApp, Grants
<1>5. UNCHANGED <<Accounts, Holders, issued, Spent>>
  BY HoldersKept DEF DeleteApp, logins, Accounts, AccountOf, Spent
<1> QED BY <1>2, <1>3, <1>4, <1>5 DEF Access!CloseSite

----------------------------------------------------------------------------
(* The refinement.                                                         *)

LEMMA InitMaps == Init => Access!Init
<1> SUFFICES ASSUME Init PROVE Access!Init
  OBVIOUS
<1>1. DOMAIN users = {1} /\ DOMAIN apps = {} /\ DOMAIN sessions = {} /\ nextID - 1 = 1
  BY DEF Init, Put, NoEntries
<1>2. DOMAIN Accounts = {1} /\ DOMAIN Sites = {} /\ DOMAIN Holders = {}
  BY <1>1 DEF Accounts, Sites, Holders
<1>3. {"account"} \X (DOMAIN Accounts) \subseteq Spent /\ {"site"} \X (DOMAIN Sites) \subseteq Spent
  BY <1>1, <1>2 DEF Spent
<1>4. Grants \subseteq (DOMAIN Accounts) \X (DOMAIN Sites)
  BY AccountFacts, SiteFacts DEF Grants
<1> QED BY <1>2, <1>3, <1>4 DEF Access!Init

LEMMA StepMaps ==
  ASSUME TypeOK, UserIndexOK, AppIndexOK, [Next]_vars
  PROVE  Access!Next \/ UNCHANGED Access!vars
<1>1. CASE UNCHANGED vars
  BY <1>1, DecreeMaps DEF vars, directory, logins, Access!Next
<1>2. CASE LoginNext
  <2> PICK name \in Names, password \in Passwords :
        (\E t \in Tokens : Authenticate(name, password, t)) \/ RejectLogin(name, password)
    BY <1>2 DEF LoginNext
  <2>1. CASE RejectLogin(name, password)
    BY <2>1, DecreeMaps DEF RejectLogin, LogLogin, TakeID, directory, Access!Next
  <2>2. CASE \E t \in Tokens : Authenticate(name, password, t)
    BY <2>2, AuthenticateMaps DEF Access!Next
  <2> QED BY <2>1, <2>2
<1>3. CASE SessionNext
  <2> PICK t \in Tokens : Logout(t) \/ UserBySession(t)
    BY <1>3 DEF SessionNext
  <2>1. CASE Logout(t)
    BY <2>1, SessionsDropped DEF Logout, Access!Next
  <2>2. CASE UserBySession(t)
    <3>1. CASE sessions' = Drop(sessions, {t})
      BY <2>2, <3>1, SessionsDropped DEF UserBySession, Access!Next
    <3>2. CASE sessions' = sessions
      BY <2>2, <3>2, DecreeMaps DEF UserBySession, directory, Access!Next
    <3> QED BY <2>2, <3>1, <3>2 DEF UserBySession, PurgeIfDead
  <2> QED BY <2>1, <2>2
<1>4. CASE CheckNext
  <2> PICK c \in Checkers :
        \/ \E t \in Tokens, h \in RawHosts : CheckReject(c, t, h) \/ CheckLookup(c, t, h)
        \/ CheckDecide(c)
    BY <1>4 DEF CheckNext
  <2>1. ASSUME NEW t \in Tokens, NEW h \in RawHosts, CheckReject(c, t, h)
        PROVE  Access!Next
    <3>1. CASE sessions' = Drop(sessions, {t})
      BY <2>1, <3>1, SessionsDropped DEF CheckReject, Access!Next
    <3>2. CASE sessions' = sessions
      BY <2>1, <3>2, DecreeMaps DEF CheckReject, directory, Access!Next
    <3> QED BY <2>1, <3>1, <3>2 DEF CheckReject, PurgeIfDead
  <2>2. ASSUME NEW t \in Tokens, NEW h \in RawHosts, CheckLookup(c, t, h)
        PROVE  Access!Next
    BY <2>2, DecreeMaps DEF CheckLookup, directory, logins, Access!Next
  <2>3. CASE CheckDecide(c)
    BY <2>3, DecreeMaps DEF CheckDecide, directory, logins, Access!Next
  <2> QED BY <2>1, <2>2, <2>3
<1>5. CASE DirectoryNext
  <2>1. ASSUME NEW name \in Names, NEW password \in Passwords, NEW admin \in BOOLEAN,
               CreateUser(name, password, admin)
        PROVE  Access!Next
    BY <2>1, CreateUserMaps DEF Access!Next
  <2>2. ASSUME NEW id \in DOMAIN users, DeleteUser(id)
        PROVE  Access!Next
    BY <2>2, DeleteUserMaps DEF Access!Next
  <2>3. ASSUME NEW id \in DOMAIN users, NEW status \in Statuses \cup {""},
               NEW admin \in BOOLEAN, NEW password \in Passwords \cup {""},
               UpdateUser(id, status, admin, password)
        PROVE  Access!Next
    BY <2>3, UpdateUserMaps DEF Access!Next
  <2>4. ASSUME NEW members \in MemberSets, CreateGroup(members)
        PROVE  Access!Next
    BY <2>4, DecreeMaps DEF CreateGroup, TakeID, logins, Access!Next
  <2>5. ASSUME NEW id \in DOMAIN groups, DeleteGroup(id)
        PROVE  Access!Next
    BY <2>5, DecreeMaps DEF DeleteGroup, logins, Access!Next
  <2>6. ASSUME NEW id \in DOMAIN groups, NEW members \in MemberSets, UpdateGroup(id, members)
        PROVE  Access!Next
    BY <2>6, DecreeMaps DEF UpdateGroup, logins, Access!Next
  <2>7. ASSUME NEW raw \in RawHosts, NEW enabled \in BOOLEAN, CreateApp(raw, enabled)
        PROVE  Access!Next
    BY <2>7, CreateAppMaps DEF Access!Next
  <2>8. ASSUME NEW id \in DOMAIN apps, DeleteApp(id)
        PROVE  Access!Next
    BY <2>8, DeleteAppMaps DEF Access!Next
  <2>9. ASSUME NEW id \in DOMAIN apps, NEW raw \in RawHosts, NEW enabled \in BOOLEAN,
               UpdateApp(id, raw, enabled)
        PROVE  Access!Next
    BY <2>9, UpdateAppMaps DEF Access!Next
  <2>10. ASSUME NEW form \in PolicyForms, CreatePolicy(form)
         PROVE  Access!Next
    BY <2>10, DecreeMaps DEF CreatePolicy, TakeID, logins, Access!Next
  <2>11. ASSUME NEW id \in DOMAIN policies, DeletePolicy(id)
         PROVE  Access!Next
    BY <2>11, DecreeMaps DEF DeletePolicy, logins, Access!Next
  <2> QED BY <1>5, <2>1, <2>2, <2>3, <2>4, <2>5, <2>6, <2>7, <2>8, <2>9, <2>10, <2>11
          DEF DirectoryNext
<1>6. CASE Tick
  BY <1>6, TickMaps DEF Access!Next
<1> QED BY <1>1, <1>2, <1>3, <1>4, <1>5, <1>6 DEF Next

(* The in-memory store keeps the promise of store.Backend: every behaviour    *)
(* of its methods is one of AccessSpec, through all index maps and cascades. *)
THEOREM AccessRefined == Spec => AccessImplemented
<1>1. Init => Access!Init
  BY InitMaps
<1>2. TypeOK /\ UserIndexOK /\ AppIndexOK /\ [Next]_vars => [Access!Next]_(Access!vars)
  BY StepMaps
<1>3. Spec => []TypeOK /\ []UserIndexOK /\ []AppIndexOK
  BY TypeCorrect, UserIndexCorrect, AppIndexCorrect
<1> QED BY <1>1, <1>2, <1>3, PTL DEF Spec, AccessImplemented, Access!Spec

windowVars == <<vars, seen>>

(* What a call has met that is about to decide: every fact of the present,   *)
(* and what its copy of the user says.                                     *)
Met(c) ==
  /\ FactsOf(c) \subseteq seen[c]
  /\ "signedIn" \in seen[c]
  /\ checks[c].admin => "administrator" \in seen[c]
  /\ ~checks[c].admin => "notAdministrator" \in seen[c]

Granted(c) ==
  checks[c].outcome = "granted"
    => /\ "signedIn" \in seen[c]
       /\ {"administrator", "enabled"} \subseteq seen[c] \/ "authorized" \in seen[c]

Denied(c) ==
  /\ checks[c].outcome = "notfound" => "unknown" \in seen[c]
  /\ checks[c].outcome = "forbidden"
       => "disabled" \in seen[c] \/ {"notAdministrator", "notAuthorized"} \subseteq seen[c]

(* The answers are justified, and calls under way have met what justifies    *)
(* the answers they may come to.                                           *)
WindowInv ==
  /\ TypeOK
  /\ DOMAIN seen = Checkers
  /\ \A c \in Checkers : checks[c].phase = "decide" => Met(c) /\ checks[c].outcome = "none"
  /\ \A c \in Checkers : Granted(c) /\ Denied(c)

----------------------------------------------------------------------------
(* One fact at a time.                                                     *)

LEMMA FactFacts ==
  ASSUME NEW c
  PROVE  /\ "signedIn" \in FactsOf(c) <=> SignedIn(c)
         /\ "administrator" \in FactsOf(c) <=> Administrator(c)
         /\ "enabled" \in FactsOf(c) <=> Enabled(c)
         /\ "authorized" \in FactsOf(c) <=> Authorized(c)
         /\ "notAdministrator" \in FactsOf(c) <=> ~Administrator(c)
         /\ "disabled" \in FactsOf(c) <=> Known(c) /\ ~Enabled(c)
         /\ "notAuthorized" \in FactsOf(c) <=> Known(c) /\ ~Authorized(c)
         /\ "unknown" \in FactsOf(c) <=> ~Known(c)
BY DEF FactsOf, Facts

(* A call that was not told to decide keeps what it has and what it met.     *)
LEMMA OthersKept ==
  ASSUME WindowInv, NEW c \in Checkers, checks'[c] = checks[c], Observe
  PROVE  /\ checks'[c].phase = "decide" => Met(c)' /\ checks'[c].outcome = "none"
         /\ Granted(c)' /\ Denied(c)'
<1>1. CASE checks[c].phase = "decide"
  <2>1. seen'[c] = seen[c] \cup FactsOf(c)'
    BY <1>1 DEF Observe
  <2>2. Met(c)'
    BY <1>1, <2>1 DEF WindowInv, Met
  <2>3. checks'[c].outcome = "none"
    BY <1>1 DEF WindowInv
  <2> QED BY <2>2, <2>3 DEF Granted, Denied
<1>2. CASE checks[c].phase # "decide"
  <2>1. seen'[c] = seen[c]
    BY <1>2 DEF Observe
  <2> QED BY <1>2, <2>1 DEF WindowInv, Granted, Denied
<1> QED BY <1>1, <1>2

LEMMA RejectJustified ==
  ASSUME WindowInv, NEW c \in Checkers, NEW t, NEW h, CheckReject(c, t, h)
  PROVE  checks'[c].phase = "idle" /\ Granted(c)' /\ Denied(c)'
<1>1. checks[c] \in Check
  BY DEF WindowInv, TypeOK
<1>2. checks'[c].outcome = "unauthorized" /\ checks'[c].phase = "idle"
  BY <1>1 DEF WindowInv, TypeOK, CheckReject, Check
<1> QED BY <1>2 DEF Granted, Denied

LEMMA LookupJustified ==
  ASSUME WindowInv, NEW c \in Checkers, NEW t, NEW h, CheckLookup(c, t, h), Observe
  PROVE  Met(c)' /\ checks'[c].outcome = "none"
<1>1. checks'[c] = [phase |-> "decide", token |-> t, host |-> h, user |-> sessions[t].user,
                    admin |-> users[sessions[t].user].admin, outcome |-> "none"]
  BY DEF WindowInv, TypeOK, CheckLookup
<1>2. seen'[c] = FactsOf(c)'
  BY <1>1 DEF WindowInv, CheckLookup, Observe
<1>3. UNCHANGED <<users, sessions, now>> /\ Authenticated(t)
  BY DEF CheckLookup, directory, logins
<1>4. SignedIn(c)'
  BY <1>1, <1>3 DEF SignedIn, Authenticated, Live
<1>5. Administrator(c)' <=> checks'[c].admin
  BY <1>1, <1>3, <1>4 DEF Administrator
<1>6. /\ "signedIn" \in FactsOf(c)' <=> SignedIn(c)'
      /\ "administrator" \in FactsOf(c)' <=> Administrator(c)'
      /\ "notAdministrator" \in FactsOf(c)' <=> ~Administrator(c)'
  BY DEF FactsOf, Facts
<1> QED BY <1>1, <1>2, <1>4, <1>5, <1>6 DEF Met

(* The decision follows from facts of the instant it is made at, which the   *)
(* call has met, and from the role it met at the lookup.                    *)
LEMMA DecisionJustified ==
  ASSUME WindowInv, NEW c \in Checkers, CheckDecide(c), Observe
  PROVE  checks'[c].phase = "idle" /\ Granted(c)' /\ Denied(c)'
<1> DEFINE host == NormalizeHost[checks[c].host]
<1>1. checks[c] \in Check /\ checks[c].phase = "decide"
  BY DEF WindowInv, TypeOK, CheckDecide
<1>2. /\ checks'[c].phase = "idle"
      /\ checks'[c].outcome = Decision(checks[c].user, checks[c].admin, host)
  BY <1>1 DEF WindowInv, TypeOK, CheckDecide, Check
<1>3. seen'[c] = seen[c]
  BY <1>2 DEF Observe
<1>4. Met(c)
  BY <1>1 DEF WindowInv
<1>5. Granted(c)'
  <2>1. CASE Decision(checks[c].user, checks[c].admin, host) = "granted"
    <3>1. Enabled(c) /\ (checks[c].admin \/ Authorized(c))
      BY <2>1 DEF Decision, Enabled, Authorized, Known, Target
    <3> QED BY <1>3, <1>4, <3>1, FactFacts DEF Met, Granted
  <2> QED BY <1>2, <2>1 DEF Granted
<1>6. Denied(c)'
  <2>1. CASE Decision(checks[c].user, checks[c].admin, host) = "notfound"
    <3>1. ~Known(c)
      BY <2>1 DEF Decision, Known
    <3> QED BY <1>2, <1>3, <1>4, <2>1, <3>1, FactFacts DEF Met, Denied
  <2>2. CASE Decision(checks[c].user, checks[c].admin, host) = "forbidden"
    <3>1. Known(c) /\ (~Enabled(c) \/ (~checks[c].admin /\ ~Authorized(c)))
      BY <2>2 DEF Decision, Enabled, Authorized, Known, Target
    <3> QED BY <1>2, <1>3, <1>4, <2>2, <3>1, FactFacts DEF Met, Denied
  <2> QED BY <1>2, <2>1, <2>2 DEF Denied
<1> QED BY <1>2, <1>5, <1>6

----------------------------------------------------------------------------
(* The invariant.                                                          *)

LEMMA WindowInitInv == WindowInit => WindowInv
<1> SUFFICES ASSUME WindowInit PROVE WindowInv
  OBVIOUS
<1>1. TypeOK
  BY InitType DEF WindowInit
<1>2. \A c \in Checkers : checks[c].phase = "idle" /\ checks[c].outcome = "none"
  BY DEF WindowInit, Init, IdleCheck
<1> QED BY <1>1, <1>2 DEF WindowInit, WindowInv, Granted, Denied

LEMMA WindowStepInv == WindowInv /\ [WindowNext]_windowVars => WindowInv'
<1> SUFFICES ASSUME WindowInv, [WindowNext]_windowVars PROVE WindowInv'
  OBVIOUS
<1>1. TypeOK'
  BY NextType DEF WindowInv, WindowNext, windowVars
<1>2. CASE UNCHANGED windowVars
  <2>1. UNCHANGED <<users, groups, apps, appByHost, policies, sessions, now, checks, seen>>
    BY <1>2 DEF windowVars, vars, directory, logins
  <2>2. \A c \in Checkers : FactsOf(c)' = FactsOf(c)
    BY <2>1 DEF FactsOf, SignedIn, Administrator, Known, Target, Enabled, Authorized,
                Authenticated, Live, Allowed, InForce, AppliesTo
  <2> QED BY <1>1, <2>1, <2>2 DEF WindowInv, Met, Granted, Denied
<1>3. CASE WindowNext
  <2>1. DOMAIN seen' = Checkers /\ Observe /\ Next
    BY <1>3 DEF WindowNext, Observe
  <2>2. ASSUME NEW c \in Checkers
        PROVE  /\ checks'[c].phase = "decide" => Met(c)' /\ checks'[c].outcome = "none"
               /\ Granted(c)' /\ Denied(c)'
    <3>1. CASE checks'[c] = checks[c]
      BY <2>1, <3>1, OthersKept
    <3>2. CASE \E t \in Tokens, h \in RawHosts : CheckReject(c, t, h)
      BY <3>2, RejectJustified
    <3>3. CASE \E t \in Tokens, h \in RawHosts : CheckLookup(c, t, h)
      BY <2>1, <3>3, LookupJustified DEF Granted, Denied
    <3>4. CASE CheckDecide(c)
      BY <2>1, <3>4, DecisionJustified
    <3>5. \/ checks'[c] = checks[c]
          \/ \E t \in Tokens, h \in RawHosts : CheckReject(c, t, h) \/ CheckLookup(c, t, h)
          \/ CheckDecide(c)
      <4>1. CASE CheckNext
        <5> PICK d \in Checkers :
              \/ \E t \in Tokens, h \in RawHosts : CheckReject(d, t, h) \/ CheckLookup(d, t, h)
              \/ CheckDecide(d)
          BY <4>1 DEF CheckNext
        <5>1. CASE d = c
          BY <5>1
        <5>2. CASE d # c
          BY <5>2 DEF WindowInv, TypeOK, CheckReject, CheckLookup, CheckDecide
        <5> QED BY <5>1, <5>2
      <4>2. CASE ~CheckNext
        <5>1. checks' = checks
          BY <2>1, <4>2 DEF Next, LoginNext, SessionNext, DirectoryNext, Tick, Authenticate, RejectLogin,
               Logout, UserBySession, CreateUser, UpdateUser, DeleteUser, CreateGroup, UpdateGroup,
               DeleteGroup, CreateApp, UpdateApp, DeleteApp, CreatePolicy, DeletePolicy
        <5> QED BY <5>1
      <4> QED BY <4>1, <4>2
    <3> QED BY <3>1, <3>2, <3>3, <3>4, <3>5
  <2> QED BY <1>1, <2>1, <2>2 DEF WindowInv
<1> QED BY <1>2, <1>3

LEMMA WindowInvariant == WindowSpec => []WindowInv
BY WindowInitInv, WindowStepInv, PTL DEF WindowSpec, windowVars

(* No call of CheckAccess grants what no instant of the call justified,       *)
(* whatever comes between its two critical sections.                        *)
THEOREM GrantsAlwaysJustified == WindowSpec => []GrantJustified
<1>1. WindowInv => GrantJustified
  BY DEF WindowInv, GrantJustified, Granted
<1> QED BY <1>1, WindowInvariant, PTL

(* No call turns anybody away without a reason it met.                      *)
THEOREM DenialsAlwaysJustified == WindowSpec => []DenialJustified
<1>1. WindowInv => DenialJustified
  BY DEF WindowInv, DenialJustified, Denied
<1> QED BY <1>1, WindowInvariant, PTL
=============================================================================

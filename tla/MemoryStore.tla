---------------------------- MODULE MemoryStore ----------------------------
(***************************************************************************)
(* The in-memory backend of the access gateway, internal/store/memory.go:  *)
(* the directory (users, groups, applications, policies and the two index  *)
(* maps), the sessions, the login log, and the two-step access check.      *)
(*                                                                         *)
(* Every method of MemoryStore takes s.mu for its whole body, so a method  *)
(* is one action, except CheckAccess, which locks twice: once inside       *)
(* UserBySession and once for the decision.  A method that fails leaves    *)
(* the store as it was; only a failed login writes something.              *)
(*                                                                         *)
(* Abstracted: display names, descriptions, back-end addresses, timestamps *)
(* of creation and update.  A password hash is the password it verifies.   *)
(* Random tokens never repeat: a login draws one that was never issued.    *)
(***************************************************************************)
EXTENDS Integers, Sequences, FiniteSets

CONSTANTS
  Names,          \* usernames as clients write them
  Fold,           \* strings.ToLower on Names
  Passwords,      \* non-empty passwords
  RawHosts,       \* host names as requests carry them
  NormalizeHost,  \* normalizeHost on RawHosts; may yield ""
  Tokens,         \* session tokens that can be drawn or presented
  Checkers,       \* goroutines serving /auth/check
  MemberSets,     \* user id lists a group request can carry
  PolicyForms,    \* policies a request can carry
  AdminName, AdminPassword,   \* arguments of BootstrapAdmin
  SessionTTL,     \* session lifetime, in ticks
  MaxID,          \* bound: ids allocated in a behaviour
  MaxTime         \* bound: ticks of the clock

Unbounded == -1                  \* a nil NotBefore or NotAfter
Statuses  == {"active", "disabled"}            \* "disabled": any other string
Subjects  == {"user", "group", "other"}         \* "other": any other string
Effects   == {"", "allow", "other"}             \* likewise

ASSUME NamesAssumption ==
  /\ AdminName \in Names
  /\ AdminPassword \in Passwords
  /\ "" \notin Passwords
  /\ DOMAIN Fold = Names

ASSUME HostsAssumption == DOMAIN NormalizeHost = RawHosts

ASSUME CheckersAssumption == Checkers # {} => Tokens # {} /\ RawHosts # {}

ASSUME BoundsAssumption ==
  /\ SessionTTL \in Nat
  /\ MaxID \in Nat
  /\ MaxTime \in Nat

Keys    == {Fold[n] : n \in Names}
Domains == {NormalizeHost[h] : h \in RawHosts}

User    == [name : Names, status : Statuses, admin : BOOLEAN, password : Passwords]
App     == [domain : Domains, enabled : BOOLEAN]
Policy  == [app : Nat, subject : Subjects, subjectID : Nat, effect : Effects,
            notBefore : Int, notAfter : Int]
Session == [user : Nat, expires : Nat]
LoginLog == [id : Nat, name : Names, result : {"success", "failure"}]

Outcomes == {"granted", "unauthorized", "notfound", "forbidden"}
Check == [phase : {"idle", "decide"}, token : Tokens, host : RawHosts,
          user : Nat, admin : BOOLEAN, outcome : Outcomes \cup {"none"}]

ASSUME RequestsAssumption ==
  /\ MemberSets \subseteq SUBSET Nat
  /\ PolicyForms \subseteq Policy

VARIABLES
  users,       \* id -> User
  userByName,  \* folded name -> user id
  groups,      \* id -> set of member ids
  apps,        \* id -> App
  appByHost,   \* normalized host -> app id
  policies,    \* id -> Policy
  sessions,    \* token -> Session
  loginLogs,   \* sequence of LoginLog, oldest first
  nextID,      \* the one id counter
  issued,      \* tokens drawn so far
  now,         \* the clock
  checks       \* per checker: where its CheckAccess call stands

directory == <<users, userByName, groups, apps, appByHost, policies>>
logins    == <<sessions, loginLogs, issued>>
vars      == <<directory, logins, nextID, now, checks>>

----------------------------------------------------------------------------
(* Go maps.                                                                *)

NoEntries    == [x \in {} |-> x]
Put(m, k, v) == [x \in DOMAIN m \cup {k} |-> IF x = k THEN v ELSE m[x]]
Drop(m, K)   == [x \in DOMAIN m \ K |-> m[x]]

Room     == nextID <= MaxID                 \* bound: an id is left to allocate
Daylight == now + SessionTTL < MaxTime      \* bound: the clock outlives a new session

----------------------------------------------------------------------------
(* Queries.                                                                *)

Live(t) == t \in DOMAIN sessions /\ ~(now > sessions[t].expires)

Authenticated(t) ==
  /\ Live(t)
  /\ sessions[t].user \in DOMAIN users
  /\ users[sessions[t].user].status = "active"

ValidLogin(name, password) ==
  /\ Fold[name] \in DOMAIN userByName
  /\ LET id == userByName[Fold[name]]
     IN  /\ id \in DOMAIN users
         /\ users[id].status = "active"
         /\ users[id].password = password

InForce(p) ==
  /\ p.effect = "allow"
  /\ p.notBefore = Unbounded \/ ~(now < p.notBefore)
  /\ p.notAfter = Unbounded \/ ~(now > p.notAfter)

AppliesTo(p, user) ==
  \/ p.subject = "user" /\ p.subjectID = user
  \/ /\ p.subject = "group"
     /\ p.subjectID \in DOMAIN groups
     /\ user \in groups[p.subjectID]

(* Faulty Allowed: an application without a policy is open to everybody.    *)
AllowedByDefault(user, app) ==
  \/ \A k \in DOMAIN policies : policies[k].app # app
  \/ \E k \in DOMAIN policies :
       policies[k].app = app /\ InForce(policies[k]) /\ AppliesTo(policies[k], user)

Allowed(user, app) ==
  \E k \in DOMAIN policies :
    /\ policies[k].app = app
    /\ InForce(policies[k])
    /\ AppliesTo(policies[k], user)

----------------------------------------------------------------------------
(* The id counter: s.id().                                                 *)

TakeIDStale == nextID' = nextID          \* faulty: the counter does not advance
TakeID      == nextID' = nextID + 1

----------------------------------------------------------------------------
(* Logins and sessions.                                                    *)

LoginEntry(name, result) == [id |-> nextID, name |-> name, result |-> result]

(* Faulty LogLogin: successful logins left out; an id used twice.           *)
LogFailureOnly(name, result) ==
  IF result = "success" THEN UNCHANGED <<loginLogs, nextID>>
  ELSE loginLogs' = Append(loginLogs, LoginEntry(name, result)) /\ TakeID

LogWithStaleID(name, result) ==
  Len(loginLogs) < MaxID /\ loginLogs' = Append(loginLogs, LoginEntry(name, result)) /\ UNCHANGED nextID

LogLogin(name, result) ==
  loginLogs' = Append(loginLogs, LoginEntry(name, result)) /\ TakeID

Authenticate(name, password, t) ==
  /\ Room /\ Daylight
  /\ ValidLogin(name, password)
  /\ t \in Tokens \ issued
  /\ issued' = issued \cup {t}
  /\ sessions' = Put(sessions, t, [user    |-> userByName[Fold[name]],
                                   expires |-> now + SessionTTL])
  /\ LogLogin(name, "success")
  /\ UNCHANGED <<directory, now, checks>>

RejectLogin(name, password) ==
  /\ Room
  /\ ~ValidLogin(name, password)
  /\ LogLogin(name, "failure")
  /\ UNCHANGED <<directory, sessions, issued, now, checks>>

Logout(t) ==
  /\ sessions' = Drop(sessions, {t})
  /\ UNCHANGED <<directory, loginLogs, issued, nextID, now, checks>>

(* Faulty PurgeIfDead: using a session prolongs it.                         *)
PurgeOrProlong(t) ==
  sessions' = IF Live(t) THEN [sessions EXCEPT ![t].expires = now + SessionTTL]
              ELSE Drop(sessions, {t})

PurgeIfDead(t) == sessions' = IF Live(t) THEN sessions ELSE Drop(sessions, {t})

UserBySession(t) ==
  /\ PurgeIfDead(t)
  /\ UNCHANGED <<directory, loginLogs, issued, nextID, now, checks>>

----------------------------------------------------------------------------
(* CheckAccess: the session lookup and the decision are separate critical  *)
(* sections; the user read by the first is a copy the second relies on.    *)

CheckReject(c, t, h) ==
  /\ checks[c].phase = "idle"
  /\ ~Authenticated(t)
  /\ PurgeIfDead(t)
  /\ checks' = [checks EXCEPT ![c] = [@ EXCEPT !.token = t, !.host = h,
                                               !.outcome = "unauthorized"]]
  /\ UNCHANGED <<directory, loginLogs, issued, nextID, now>>

CheckLookup(c, t, h) ==
  /\ checks[c].phase = "idle"
  /\ Authenticated(t)
  /\ LET id == sessions[t].user
     IN  checks' = [checks EXCEPT ![c] =
                      [phase |-> "decide", token |-> t, host |-> h, user |-> id,
                       admin |-> users[id].admin, outcome |-> "none"]]
  /\ UNCHANGED <<directory, logins, nextID, now>>

(* Faulty decisions: the enabled flag ignored, the role ignored.            *)
DecisionIgnoresEnabled(user, admin, host) ==
  IF host \notin DOMAIN appByHost THEN "notfound"
  ELSE IF admin \/ Allowed(user, appByHost[host]) THEN "granted" ELSE "forbidden"

DecisionIgnoresRole(user, admin, host) ==
  IF host \notin DOMAIN appByHost THEN "notfound"
  ELSE LET app == appByHost[host]
       IN  IF apps[app].enabled /\ Allowed(user, app) THEN "granted" ELSE "forbidden"

Decision(user, admin, host) ==
  IF host \notin DOMAIN appByHost THEN "notfound"
  ELSE LET app == appByHost[host]
       IN  IF apps[app].enabled /\ (admin \/ Allowed(user, app))
             THEN "granted" ELSE "forbidden"

CheckDecide(c) ==
  /\ checks[c].phase = "decide"
  /\ LET k == checks[c]
     IN  checks' = [checks EXCEPT ![c] =
                      [k EXCEPT !.phase   = "idle",
                                !.outcome = Decision(k.user, k.admin, NormalizeHost[k.host])]]
  /\ UNCHANGED <<directory, logins, nextID, now>>

----------------------------------------------------------------------------
(* Users.  An empty status or password in an update keeps the old one; the *)
(* admin flag is always overwritten, and sessions survive an update.       *)

CreateUser(name, password, admin) ==
  /\ Room
  /\ Fold[name] \notin DOMAIN userByName
  /\ users' = Put(users, nextID, [name |-> name, status |-> "active",
                                  admin |-> admin, password |-> password])
  /\ userByName' = Put(userByName, Fold[name], nextID)
  /\ TakeID
  /\ UNCHANGED <<groups, apps, appByHost, policies, logins, now, checks>>

UpdateUser(id, status, admin, password) ==
  /\ id \in DOMAIN users
  /\ LET user == users[id]
     IN  users' = [users EXCEPT ![id] =
           [user EXCEPT !.status   = IF status = "" THEN user.status ELSE status,
                        !.admin    = admin,
                        !.password = IF password = "" THEN user.password ELSE password]]
  /\ UNCHANGED <<userByName, groups, apps, appByHost, policies, logins, nextID, now, checks>>

PoliciesOf(subject, id) ==
  {k \in DOMAIN policies : policies[k].subject = subject /\ policies[k].subjectID = id}

IndexKeyUnfolded(id) == users[id].name          \* faulty: not lowered
IndexKey(id)         == Fold[users[id].name]

NoSessions(id) == {}                            \* faulty: sessions survive
SessionsOf(id) == {t \in DOMAIN sessions : sessions[t].user = id}

DeleteUser(id) ==
  /\ id \in DOMAIN users
  /\ users' = Drop(users, {id})
  /\ userByName' = Drop(userByName, {IndexKey(id)})
  /\ groups' = [g \in DOMAIN groups |-> groups[g] \ {id}]
  /\ policies' = Drop(policies, PoliciesOf("user", id))
  /\ sessions' = Drop(sessions, SessionsOf(id))
  /\ UNCHANGED <<apps, appByHost, loginLogs, issued, nextID, now, checks>>

----------------------------------------------------------------------------
(* Groups.  Member ids are stored as given, whether or not such users exist. *)

CreateGroup(members) ==
  /\ Room
  /\ groups' = Put(groups, nextID, members)
  /\ TakeID
  /\ UNCHANGED <<users, userByName, apps, appByHost, policies, logins, now, checks>>

UpdateGroup(id, members) ==
  /\ id \in DOMAIN groups
  /\ groups' = [groups EXCEPT ![id] = members]
  /\ UNCHANGED <<users, userByName, apps, appByHost, policies, logins, nextID, now, checks>>

DeleteGroup(id) ==
  /\ id \in DOMAIN groups
  /\ groups' = Drop(groups, {id})
  /\ policies' = Drop(policies, PoliciesOf("group", id))
  /\ UNCHANGED <<users, userByName, apps, appByHost, logins, nextID, now, checks>>

----------------------------------------------------------------------------
(* Applications.  BootstrapApp is CreateApp with enabled = TRUE.           *)

CreateApp(raw, enabled) ==
  /\ Room
  /\ NormalizeHost[raw] \notin DOMAIN appByHost
  /\ apps' = Put(apps, nextID, [domain |-> NormalizeHost[raw], enabled |-> enabled])
  /\ appByHost' = Put(appByHost, NormalizeHost[raw], nextID)
  /\ TakeID
  /\ UNCHANGED <<users, userByName, groups, policies, logins, now, checks>>

RehostedTwice(id, host) == Put(appByHost, host, id)     \* faulty: old host stays
Rehosted(id, host)      == Put(Drop(appByHost, {apps[id].domain}), host, id)

UpdateApp(id, raw, enabled) ==
  LET host == NormalizeHost[raw] IN
  /\ id \in DOMAIN apps
  /\ (host # "" /\ host \in DOMAIN appByHost) => appByHost[host] = id
  /\ appByHost' = IF host = "" THEN appByHost ELSE Rehosted(id, host)
  /\ apps' = [apps EXCEPT ![id] =
                [domain |-> IF host = "" THEN @.domain ELSE host, enabled |-> enabled]]
  /\ UNCHANGED <<users, userByName, groups, policies, logins, nextID, now, checks>>

(* Faulty DeleteApp: only the route and the policies go.                    *)
DeleteAppRouteOnly(id) ==
  /\ id \in DOMAIN apps
  /\ appByHost' = Drop(appByHost, {apps[id].domain})
  /\ policies' = Drop(policies, {k \in DOMAIN policies : policies[k].app = id})
  /\ UNCHANGED <<users, userByName, groups, apps, logins, nextID, now, checks>>

DeleteApp(id) ==
  /\ id \in DOMAIN apps
  /\ apps' = Drop(apps, {id})
  /\ appByHost' = Drop(appByHost, {apps[id].domain})
  /\ policies' = Drop(policies, {k \in DOMAIN policies : policies[k].app = id})
  /\ UNCHANGED <<users, userByName, groups, logins, nextID, now, checks>>

----------------------------------------------------------------------------
(* Policies.  Neither the application nor the subject need exist.          *)

Defaulted(form) == [form EXCEPT !.effect = IF form.effect = "" THEN "allow" ELSE form.effect]

CreatePolicy(form) ==
  /\ Room
  /\ policies' = Put(policies, nextID, Defaulted(form))
  /\ TakeID
  /\ UNCHANGED <<users, userByName, groups, apps, appByHost, logins, now, checks>>

(* Faulty DeletePolicy: the id allocated last is given back.                *)
DeletePolicyFreesID(id) ==
  /\ id \in DOMAIN policies
  /\ policies' = Drop(policies, {id})
  /\ nextID' = IF id = nextID - 1 THEN id ELSE nextID
  /\ UNCHANGED <<users, userByName, groups, apps, appByHost, logins, now, checks>>

DeletePolicy(id) ==
  /\ id \in DOMAIN policies
  /\ policies' = Drop(policies, {id})
  /\ UNCHANGED <<users, userByName, groups, apps, appByHost, logins, nextID, now, checks>>

----------------------------------------------------------------------------
Tick ==
  /\ now < MaxTime
  /\ now' = now + 1
  /\ UNCHANGED <<directory, logins, nextID, checks>>

IdleCheck == [phase |-> "idle", token |-> CHOOSE t \in Tokens : TRUE,
              host |-> CHOOSE h \in RawHosts : TRUE, user |-> 0, admin |-> FALSE,
              outcome |-> "none"]

(* NewMemoryStore followed by BootstrapAdmin.                              *)
Init ==
  /\ users = Put(NoEntries, 1, [name |-> AdminName, status |-> "active",
                                admin |-> TRUE, password |-> AdminPassword])
  /\ userByName = Put(NoEntries, Fold[AdminName], 1)
  /\ groups = NoEntries /\ apps = NoEntries /\ appByHost = NoEntries /\ policies = NoEntries
  /\ sessions = NoEntries /\ loginLogs = <<>> /\ issued = {}
  /\ nextID = 2
  /\ now = 0
  /\ checks = [c \in Checkers |-> IdleCheck]

LoginNext ==
  \E name \in Names, password \in Passwords :
    \/ \E t \in Tokens : Authenticate(name, password, t)
    \/ RejectLogin(name, password)

SessionNext == \E t \in Tokens : Logout(t) \/ UserBySession(t)

CheckNext ==
  \E c \in Checkers :
    \/ \E t \in Tokens, h \in RawHosts : CheckReject(c, t, h) \/ CheckLookup(c, t, h)
    \/ CheckDecide(c)

DirectoryNext ==
  \/ \E name \in Names, password \in Passwords, admin \in BOOLEAN :
       CreateUser(name, password, admin)
  \/ \E id \in DOMAIN users : DeleteUser(id)
  \/ \E id \in DOMAIN users, status \in Statuses \cup {""}, admin \in BOOLEAN,
        password \in Passwords \cup {""} : UpdateUser(id, status, admin, password)
  \/ \E members \in MemberSets : CreateGroup(members)
  \/ \E id \in DOMAIN groups : DeleteGroup(id)
  \/ \E id \in DOMAIN groups, members \in MemberSets : UpdateGroup(id, members)
  \/ \E raw \in RawHosts, enabled \in BOOLEAN : CreateApp(raw, enabled)
  \/ \E id \in DOMAIN apps : DeleteApp(id)
  \/ \E id \in DOMAIN apps, raw \in RawHosts, enabled \in BOOLEAN : UpdateApp(id, raw, enabled)
  \/ \E form \in PolicyForms : CreatePolicy(form)
  \/ \E id \in DOMAIN policies : DeletePolicy(id)

Next == LoginNext \/ SessionNext \/ CheckNext \/ DirectoryNext \/ Tick

Spec == Init /\ [][Next]_vars

(* Time passes, and a goroutine inside CheckAccess runs on.  Nothing obliges *)
(* a client to send another request.                                        *)
FairSpec == Spec /\ WF_vars(Tick) /\ \A c \in Checkers : WF_vars(CheckDecide(c))

----------------------------------------------------------------------------
(* Properties.                                                             *)

Ids(m) == DOMAIN m \subseteq 1..(nextID - 1)

(* Every map holds records of its type under ids that were allocated, every *)
(* session carries a token that was issued, and the log, the clock and the  *)
(* checks are well formed: the shapes the methods of MemoryStore rely on.   *)
TypeOK ==
  /\ nextID \in Nat \ {0}
  /\ users \in [DOMAIN users -> User] /\ Ids(users)
  /\ userByName \in [DOMAIN userByName -> 1..(nextID - 1)]
  /\ DOMAIN userByName \subseteq Keys
  /\ groups \in [DOMAIN groups -> SUBSET Nat] /\ Ids(groups)
  /\ apps \in [DOMAIN apps -> App] /\ Ids(apps)
  /\ appByHost \in [DOMAIN appByHost -> 1..(nextID - 1)]
  /\ DOMAIN appByHost \subseteq Domains
  /\ policies \in [DOMAIN policies -> Policy] /\ Ids(policies)
  /\ sessions \in [DOMAIN sessions -> Session]
  /\ DOMAIN sessions \subseteq issued
  /\ issued \subseteq Tokens
  /\ loginLogs \in Seq(LoginLog)
  /\ now \in Nat
  /\ checks \in [Checkers -> Check]

(* userByName and users stay two views of one relation: each user is indexed *)
(* under its folded name and nowhere else, so two users never share a name   *)
(* up to case and a deleted name is free again (CreateUser, DeleteUser).      *)
UserIndexOK ==
  /\ DOMAIN userByName = {Fold[users[id].name] : id \in DOMAIN users}
  /\ \A key \in DOMAIN userByName :
       /\ userByName[key] \in DOMAIN users
       /\ Fold[users[userByName[key]].name] = key
  /\ \A id \in DOMAIN users : userByName[Fold[users[id].name]] = id

(* appByHost and apps likewise, through every change of host an UpdateApp may *)
(* make: no host serves two applications, and none is left routed to an       *)
(* application that was deleted or moved away.                                *)
AppIndexOK ==
  /\ DOMAIN appByHost = {apps[id].domain : id \in DOMAIN apps}
  /\ \A host \in DOMAIN appByHost :
       /\ appByHost[host] \in DOMAIN apps
       /\ apps[appByHost[host]].domain = host
  /\ \A id \in DOMAIN apps : appByHost[apps[id].domain] = id

(* One counter numbers users, groups, applications, policies and log entries: *)
(* no id ever names two things, and the log is in id order.                   *)
IdsDistinct ==
  LET logged == {loginLogs[i].id : i \in DOMAIN loginLogs}
  IN  /\ DOMAIN users \cap (DOMAIN groups \cup DOMAIN apps \cup DOMAIN policies \cup logged) = {}
      /\ DOMAIN groups \cap (DOMAIN apps \cup DOMAIN policies \cup logged) = {}
      /\ DOMAIN apps \cap (DOMAIN policies \cup logged) = {}
      /\ DOMAIN policies \cap logged = {}
      /\ \A i, j \in DOMAIN loginLogs : i < j => loginLogs[i].id < loginLogs[j].id

(* An id that was used is never given to something new, so a policy or group  *)
(* that still names a deleted user, group or application can never come to    *)
(* mean another one (CreatePolicy and CreateGroup do not validate ids).       *)
IdsNeverReused ==
  [][ /\ DOMAIN users' \subseteq DOMAIN users \cup {nextID}
      /\ DOMAIN groups' \subseteq DOMAIN groups \cup {nextID}
      /\ DOMAIN apps' \subseteq DOMAIN apps \cup {nextID}
      /\ DOMAIN policies' \subseteq DOMAIN policies \cup {nextID}
      /\ nextID' >= nextID
      /\ nextID \in DOMAIN users' \cup DOMAIN groups' \cup DOMAIN apps' \cup DOMAIN policies'
           => nextID' > nextID ]_vars

(* A session always belongs to a user that exists: DeleteUser takes all the   *)
(* sessions of the user with it, whenever and however often it logged in.     *)
SessionsOwned ==
  \A t \in DOMAIN sessions : sessions[t].user \in DOMAIN users

(* A token that was issued is never extended, never handed to another user    *)
(* and never comes back after a logout, an expiry or a deletion.              *)
SessionsNeverRevived ==
  [][ \A t \in issued \cap DOMAIN sessions' :
        t \in DOMAIN sessions /\ sessions'[t] = sessions[t] ]_vars

(* "Both successful and failed logins are logged": each issued token has its  *)
(* success entry, and nothing else has one.                                   *)
LoginsLogged ==
  Cardinality(issued) = Cardinality({i \in DOMAIN loginLogs : loginLogs[i].result = "success"})

(* Access is closed by default: a step that adds no policy and no group       *)
(* member, while the clock stands still, gives no user a right it did not     *)
(* have (the deletions and their cascades only take rights away).             *)
RightsOnlyFromGrants ==
  [][ (/\ DOMAIN policies' \subseteq DOMAIN policies
       /\ \A g \in DOMAIN groups' : g \in DOMAIN groups /\ groups'[g] \subseteq groups[g]
       /\ now' = now)
      => \A user \in DOMAIN users, app \in DOMAIN apps :
           Allowed(user, app)' => Allowed(user, app) ]_vars

(* Every session comes to an end for good, whatever requests it is used for: *)
(* nothing UserBySession, UpdateUser or a new login does prolongs it.        *)
SessionsDieOut == \A t \in Tokens : t \in issued ~> [](~Authenticated(t))
=============================================================================

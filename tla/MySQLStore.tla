----------------------------- MODULE MySQLStore -----------------------------
(***************************************************************************)
(* The MySQL backend, internal/store/mysql.go over db/schema.sql, called   *)
(* by concurrent requests.  A request is a sequence of SQL statements; each *)
(* is atomic in the database, and other requests run between two of them.  *)
(* A transaction takes effect at its commit: the row locks of InnoDB keep  *)
(* the rows it touched as they were until then.  After a method that       *)
(* changed something the handler logs it by AddAdminLog, so that the last  *)
(* statement of an administration request is that insert.                  *)
(*                                                                         *)
(* A statement may fail: without effect, or with its effect and only the   *)
(* answer lost.  The process may stop between two statements; the tables   *)
(* stay, and BootstrapAdmin runs again before the next request.            *)
(*                                                                         *)
(* Abstracted: display texts and times of creation; updated_at only where  *)
(* it decides whether a row changed.  A tick is one second, the precision  *)
(* of DATETIME.  A name stands for all spellings its column holds equal, a *)
(* hash for its password.  AUTO_INCREMENT gives no id twice (MySQL 8); the *)
(* gaps that failing inserts leave in it are left out.                     *)
(***************************************************************************)
EXTENDS Integers, Sequences, FiniteSets

CONSTANTS
  Callers,        \* goroutines that serve requests
  Mixes,          \* sets of requests; a behaviour draws its requests from one
  Seed,           \* the tables when the behaviour begins
  NormalizeHost,  \* normalizeHost on the hosts requests carry; may yield ""
  Tokens,         \* session tokens that can be drawn
  AdminName, AdminPassword,   \* arguments of BootstrapAdmin
  SessionTTL,     \* session lifetime, in ticks
  MaxCalls,       \* bound: requests in a behaviour
  MaxFaults,      \* bound: failing statements and stops in a behaviour
  MaxTime         \* bound: ticks of the clock

Unbounded == -1                                     \* NULL in not_before, not_after
Objects   == {"user", "group", "app", "policy", "body_rule"}
Numbered  == Objects \cup {"access_log"}             \* AUTO_INCREMENT
Tables    == Numbered \cup {"members", "sessions", "loginLogs", "adminLogs", "bodies", "auto"}
Column    == [user |-> "name", group |-> "name", app |-> "domain"]   \* UNIQUE

VARIABLES
  db,       \* the tables: a function from ids to rows for each of Objects,
            \*   members, sessions, loginLogs, adminLogs, access_log, bodies,
            \*   and auto, the next id of each table that numbers its rows
  calls,    \* per caller: where its request stands
  server,   \* "up" or "down"
  now, faults, started,       \* the clock and the counters of the bounds
  mix,      \* the set of requests this behaviour draws from
  issued,   \* history: tokens that ever had a session
  seen      \* history: facts met during the latest call of each caller

bounds == <<now, started, mix>>
vars   == <<db, calls, server, faults, bounds, issued, seen>>

NoRequest == [object |-> "none", action |-> "none"]
NoRow     == [none |-> TRUE]
NoEntry   == [object |-> "none", id |-> 0, action |-> "none"]
Idle      == [req |-> NoRequest, pc |-> "end", got |-> NoRow, did |-> NoEntry,
              struck |-> FALSE, since |-> 0, answer |-> "none"]

(* Behaviours begin with tables an earlier one left behind, all its requests *)
(* answered and none of its statements failed.                              *)
ASSUME SeedAssumption ==
  /\ DOMAIN Seed = Tables /\ DOMAIN Seed.auto = Numbered
  /\ \A table \in Numbered : /\ Seed.auto[table] \in Nat \ {0}
                             /\ DOMAIN Seed[table] \subseteq 1..(Seed.auto[table] - 1)
  /\ \A object \in DOMAIN Column : \A i, j \in DOMAIN Seed[object] :
       Seed[object][i][Column[object]] = Seed[object][j][Column[object]] => i = j
  /\ \A id \in DOMAIN Seed.app :
       /\ DOMAIN Seed.app[id] = {"domain", "enabled"}
       /\ \E host \in DOMAIN NormalizeHost : Seed.app[id].domain = NormalizeHost[host]
  /\ \A t \in DOMAIN Seed.sessions : Seed.sessions[t].user \in 1..(Seed.auto.user - 1)
  /\ \A m \in Seed.members : m[1] \in DOMAIN Seed.group
  /\ \A log \in {"loginLogs", "adminLogs"} : Seed[log] \in Seq({Seed[log][i] : i \in DOMAIN Seed[log]})

(* The routes there are, and what their requests hold.                      *)
RequestOK(req) ==
  /\ req.action \in {"create", "update", "delete", "login", "logout", "check", "report", "view"}
  /\ req.action \in {"create", "update", "delete"} => req.object \in Objects
  /\ req.action = "update" =>
       /\ req.object # "policy"
       /\ req.object = "user" => {"status", "admin", "password"} \subseteq DOMAIN req
       /\ req.object = "app" => {"domain", "enabled"} \subseteq DOMAIN req
  /\ req.action \in {"create", "update"} /\ req.object = "app" => req.domain \in DOMAIN NormalizeHost

ASSUME MixesAssumption == \A requests \in Mixes : \A req \in requests : RequestOK(req)

ASSUME BoundsAssumption ==
  /\ SessionTTL \in Nat /\ MaxCalls \in Nat /\ MaxFaults \in Nat /\ MaxTime \in Nat

----------------------------------------------------------------------------
(* The tables and the queries on them.                                     *)

Put(m, k, v) == [x \in DOMAIN m \cup {k} |-> IF x = k THEN v ELSE m[x]]
Drop(m, K)   == [x \in DOMAIN m \ K |-> m[x]]

(* Some other row has the unique column of this one.                        *)
Taken(object, id, row) ==
  /\ object \in DOMAIN Column
  /\ \E k \in DOMAIN db[object] \ {id} :
       db[object][k][Column[object]] = row[Column[object]]

RepeatsMember(req) ==
  /\ req.object = "group"
  /\ \E i, j \in DOMAIN req.members : i # j /\ req.members[i] = req.members[j]

(* The rows that are written, and what is in them of a request.             *)
UserRow(req) ==
  [name |-> req.name, status |-> "active", admin |-> req.admin, password |-> req.password]

(* Faulty AppRow: the host as the request has it.                           *)
AppRowRaw(req) == [domain |-> req.domain, enabled |-> req.enabled]

AppRow(req) == [domain |-> NormalizeHost[req.domain], enabled |-> req.enabled]
GroupRow(req) == [name |-> req.name, stamp |-> now]
RuleRow(req) == [rule |-> req.rule, stamp |-> now]
PolicyRow(req) == [req.row EXCEPT !.effect = IF @ = "" THEN "allow" ELSE @]

Stored(req) ==
  CASE req.object = "user"      -> UserRow(req)
    [] req.object = "app"       -> AppRow(req)
    [] req.object = "group"     -> GroupRow(req)
    [] req.object = "body_rule" -> RuleRow(req)
    [] req.object = "policy"    -> PolicyRow(req)

(* The number of affected rows is 1: the row is there and would change.      *)
Affected(object, id, row) == id \in DOMAIN db[object] /\ db[object][id] # row

(* replaceGroupMembers.                                                    *)
SetMembers(d, req, id) ==
  IF req.object # "group" THEN d
  ELSE [d EXCEPT !.members = {m \in @ : m[1] # id} \cup {<<id, req.members[i]>> : i \in DOMAIN req.members}]

(* UserBySession, appByDomain and the two queries of allowed.               *)
SignedIn(t) ==
  /\ t \in DOMAIN db.sessions
  /\ db.sessions[t].expires > now
  /\ db.sessions[t].user \in DOMAIN db.user
  /\ db.user[db.sessions[t].user].status = "active"

Hosting(host) == {id \in DOMAIN db.app : db.app[id].domain = NormalizeHost[host]}

InForce(p, at) ==
  /\ p.effect = "allow"
  /\ p.notBefore = Unbounded \/ p.notBefore <= at
  /\ p.notAfter = Unbounded \/ p.notAfter >= at

ByUser(user, app, at) ==
  \E k \in DOMAIN db.policy :
    LET p == db.policy[k]
    IN  p.app = app /\ p.subject = "user" /\ p.subjectID = user /\ InForce(p, at)

ByGroup(user, app, at) ==
  \E k \in DOMAIN db.policy :
    LET p == db.policy[k]
    IN  p.app = app /\ p.subject = "group" /\ <<p.subjectID, user>> \in db.members /\ InForce(p, at)

----------------------------------------------------------------------------
(* What a call met.  Facts are judged by the tables, for the user and the   *)
(* application of the call once it knows them.                             *)

Facts == {"signedIn", "administrator", "enabled", "authorized", "missing", "unchanged", "overtaken"}

Subject(c) ==
  IF "user" \in DOMAIN c.got THEN {c.got.user}
  ELSE IF c.req.token \in DOMAIN db.sessions THEN {db.sessions[c.req.token].user} ELSE {}

Target(c) == IF "app" \in DOMAIN c.got THEN {c.got.app} ELSE Hosting(c.req.host)

Met(fact, c) ==
  CASE fact = "signedIn"      -> c.req.action = "check" /\ SignedIn(c.req.token)
    [] fact = "administrator" -> /\ c.req.action = "check" /\ SignedIn(c.req.token)
                                 /\ db.user[db.sessions[c.req.token].user].admin
    [] fact = "enabled"       -> /\ c.req.action = "check"
                                 /\ \E app \in Hosting(c.req.host) : db.app[app].enabled
    [] fact = "authorized"    -> /\ c.req.action = "check"
                                 /\ \E user \in Subject(c), app \in Target(c), at \in c.since..now :
                                      ByUser(user, app, at) \/ ByGroup(user, app, at)
    [] fact = "missing"       ->
         CASE c.req.action \in {"update", "delete"} -> c.req.id \notin DOMAIN db[c.req.object]
           [] c.req.action = "create" -> "id" \in DOMAIN c.got /\ c.got.id \notin DOMAIN db[c.req.object]
           [] c.req.action = "check"  -> Hosting(c.req.host) = {}
           [] c.req.action = "view"   -> c.req.id \notin DOMAIN db.access_log
           [] OTHER -> FALSE
    [] fact = "unchanged"     -> /\ c.req.action = "update"
                                 /\ c.req.object \in {"group", "body_rule"}
                                 /\ c.req.id \in DOMAIN db[c.req.object]
                                 /\ db[c.req.object][c.req.id] = Stored(c.req)
    [] fact = "overtaken"     -> /\ c.pc = "write"
                                 /\ c.req.id \in DOMAIN db[c.req.object]
                                 /\ db[c.req.object][c.req.id] # c.got

FactsOf(r) == {fact \in Facts : Met(fact, calls[r])}

Observe ==
  /\ issued' = issued \cup DOMAIN db'.sessions
  /\ seen' = [r \in Callers |->
       IF calls'[r].pc # "end"
         THEN (IF calls[r].pc = "end" THEN {} ELSE seen[r]) \cup FactsOf(r)'
       ELSE IF calls'[r].answer \in {"granted", "notfound"} THEN seen[r] ELSE {}]

----------------------------------------------------------------------------
(* Calls and statements.                                                   *)

At(r, pc)    == server = "up" /\ calls[r].pc = pc
To(c, pc)    == [c EXCEPT !.pc = pc]
End(c, how)  == [Idle EXCEPT !.did = c.did, !.struck = c.struck, !.answer = how]
Did(c, id)   == [c EXCEPT !.got = [id |-> id],
                          !.did = [object |-> c.req.object, id |-> id, action |-> c.req.action]]

(* The id a request is about: that of its path, or the one its insert got.  *)
IdOf(c) == IF c.req.action = "create" THEN c.got.id ELSE c.req.id

(* One statement of caller r's request: afterwards the tables are after and *)
(* the call goes on as ok; or it fails, and the call goes on as failed.     *)
Statement(r, after, ok, failed) ==
  LET Goes(call) == calls' = [calls EXCEPT ![r] = call]
  IN  /\ \/ db' = after /\ Goes(ok) /\ UNCHANGED faults
         \/ /\ faults < MaxFaults
            /\ faults' = faults + 1
            /\ \/ db' = db /\ Goes([failed EXCEPT !.struck = TRUE])
               \/ /\ after # db
                  /\ db' = after /\ Goes([failed EXCEPT !.struck = TRUE, !.did = ok.did])
      /\ UNCHANGED <<server, bounds>>
      /\ Observe

Query(r, ok, failed) == Statement(r, db, ok, failed)

----------------------------------------------------------------------------
(* AddAdminLog, called by auditAdmin: an error is dropped.                  *)
AddAdminLog(r) ==
  /\ At(r, "audit")
  /\ LET c == calls[r]
     IN  Statement(r, [db EXCEPT !.adminLogs = Append(@, c.did)], End(c, "ok"), End(c, "ok"))

----------------------------------------------------------------------------
(* Creation.  CreateUser and CreateApp look for the name first, taking an   *)
(* error for "not there"; all but CreateGroup read the new row back, and    *)
(* report an error if that fails.                                          *)

Exists(r) ==
  /\ At(r, "exists")
  /\ LET c == calls[r]
     IN  Query(r, IF Taken(c.req.object, 0, Stored(c.req)) THEN End(c, "exists") ELSE To(c, "insert"),
                  To(c, "insert"))

(* Faulty Insert: ids counted from the rows there are.                      *)
InsertReusesID(r) ==
  /\ At(r, "insert")
  /\ LET c   == calls[r]
         row == Stored(c.req)
         id  == 1 + Cardinality(DOMAIN db[c.req.object])
     IN  IF Taken(c.req.object, 0, row) \/ RepeatsMember(c.req) THEN Query(r, End(c, "error"), End(c, "error"))
         ELSE Statement(r, SetMembers([db EXCEPT ![c.req.object] = Put(@, id, row),
                                                 !.auto[c.req.object] = id + 1], c.req, id),
                        To(Did(c, id), IF c.req.object = "group" THEN "audit" ELSE "readBack"),
                        End(c, "error"))

Insert(r) ==
  /\ At(r, "insert")
  /\ LET c   == calls[r]
         row == Stored(c.req)
         id  == db.auto[c.req.object]
         new == [db EXCEPT ![c.req.object] = Put(@, id, row), !.auto[c.req.object] = id + 1]
     IN  IF Taken(c.req.object, 0, row) \/ RepeatsMember(c.req)
           THEN Query(r, End(c, "error"), End(c, "error"))
           ELSE Statement(r, SetMembers(new, c.req, id),
                          To(Did(c, id), IF c.req.object = "group" THEN "audit" ELSE "readBack"),
                          End(c, "error"))

(* Faulty ReadBack: every error is taken for a missing row.                 *)
ReadBackAnyError(r) ==
  /\ At(r, "readBack")
  /\ LET c == calls[r]
     IN  Query(r, IF IdOf(c) \in DOMAIN db[c.req.object] THEN To(c, "audit") ELSE End(c, "notfound"),
                  End(c, "notfound"))

ReadBack(r) ==
  /\ At(r, "readBack")
  /\ LET c == calls[r]
     IN  Query(r, IF IdOf(c) \in DOMAIN db[c.req.object] THEN To(c, "audit") ELSE End(c, "notfound"),
                  End(c, "error"))

----------------------------------------------------------------------------
(* Update of a user or an application: read the row, then write all its     *)
(* columns, whatever happened to it in between.                            *)

(* Faulty UserMerged: a status not named is the default of the column.      *)
UserMergedByDefault(req, row) ==
  [row EXCEPT !.status = IF req.status = "" THEN "active" ELSE req.status, !.admin = req.admin]

UserMerged(req, row) ==
  [row EXCEPT !.status   = IF req.status = "" THEN @ ELSE req.status,
              !.admin    = req.admin,
              !.password = IF req.password = "" THEN @ ELSE req.password]

AppMerged(req, row) ==
  [domain  |-> IF req.domain = "" THEN row.domain ELSE NormalizeHost[req.domain],
   enabled |-> req.enabled]

Merged(req, row) == IF req.object = "user" THEN UserMerged(req, row) ELSE AppMerged(req, row)

ReadRow(r) ==
  /\ At(r, "read")
  /\ LET c == calls[r]
     IN  Query(r, IF c.req.id \in DOMAIN db[c.req.object]
                    THEN [To(c, "write") EXCEPT !.got = db[c.req.object][c.req.id]]
                    ELSE End(c, "notfound"),
                  End(c, "error"))

WriteRow(r) ==
  /\ At(r, "write")
  /\ LET c     == calls[r]
         row   == Merged(c.req, c.got)
         there == c.req.id \in DOMAIN db[c.req.object]
     IN  IF there /\ Taken(c.req.object, c.req.id, row)
           THEN Query(r, End(c, "exists"), End(c, "error"))
           ELSE Statement(r, IF there THEN [db EXCEPT ![c.req.object][c.req.id] = row] ELSE db,
                          To(Did(c, c.req.id), "audit"), End(c, "error"))

(* Update of a group (in a transaction with its members) or a body rule: in *)
(* one statement, and a row it does not change counts as missing.           *)
(* Faulty: the number of affected rows is not looked at.                    *)
ReplaceUnchecked(r) ==
  /\ At(r, "replace")
  /\ LET c   == calls[r]
         row == Stored(c.req)
         new == IF Affected(c.req.object, c.req.id, row)
                THEN [db EXCEPT ![c.req.object][c.req.id] = row] ELSE db
     IN  Statement(r, SetMembers(new, c.req, c.req.id),
                   To(Did(c, c.req.id), "readBack"), End(c, "error"))

Replace(r) ==
  /\ At(r, "replace")
  /\ LET c       == calls[r]
         row     == Stored(c.req)
         changes == Affected(c.req.object, c.req.id, row)
         refused == Taken(c.req.object, c.req.id, row) \/ RepeatsMember(c.req)
     IN  \/ /\ ~changes
            /\ Query(r, End(c, "notfound"), End(c, "error"))
         \/ /\ changes /\ refused
            /\ Query(r, End(c, "error"), End(c, "error"))
         \/ /\ changes /\ ~refused
            /\ Statement(r, SetMembers([db EXCEPT ![c.req.object][c.req.id] = row], c.req, c.req.id),
                         To(Did(c, c.req.id), "readBack"), End(c, "error"))

----------------------------------------------------------------------------
(* Deletion: the row first, then what refers to it, each in a statement     *)
(* whose error is dropped.                                                 *)

Cascade == [user  |-> <<"members", "policies", "sessions">>,
            group |-> <<"members", "policies">>,
            app   |-> <<"policies", "rules">>,
            policy |-> <<>>, body_rule |-> <<>>]

Names(policy, object, id) ==
  IF object = "app" THEN policy.app = id
  ELSE policy.subject = object /\ policy.subjectID = id

Cleaned(what, object, id) ==
  CASE what = "members"  -> [db EXCEPT !.members = {m \in @ : m[IF object = "group" THEN 1 ELSE 2] # id}]
    [] what = "policies" -> [db EXCEPT !.policy = Drop(@, {k \in DOMAIN @ : Names(@[k], object, id)})]
    [] what = "sessions" -> [db EXCEPT !.sessions = Drop(@, {t \in DOMAIN @ : @[t].user = id})]
    [] what = "rules"    -> [db EXCEPT !.body_rule = Drop(@, {k \in DOMAIN @ : @[k].rule.app = id})]

CleanNext(c, rest) ==
  IF rest = <<>> THEN To(c, "audit") ELSE [To(c, "clean") EXCEPT !.got = [rest |-> rest]]

(* Faulty DeleteRow: nothing to clean up, so nothing more to do.            *)
DeleteRowUnlogged(r) ==
  /\ At(r, "row")
  /\ LET c == calls[r]
         next == CleanNext(Did(c, c.req.id), Cascade[c.req.object])
     IN  IF c.req.id \notin DOMAIN db[c.req.object] THEN Query(r, End(c, "notfound"), End(c, "error"))
         ELSE Statement(r, [db EXCEPT ![c.req.object] = Drop(@, {c.req.id})],
                        IF next.pc = "audit" THEN End(next, "ok") ELSE next, End(c, "error"))

DeleteRow(r) ==
  /\ At(r, "row")
  /\ LET c == calls[r]
     IN  IF c.req.id \notin DOMAIN db[c.req.object]
           THEN Query(r, End(c, "notfound"), End(c, "error"))
           ELSE Statement(r, [db EXCEPT ![c.req.object] = Drop(@, {c.req.id})],
                          CleanNext(Did(c, c.req.id), Cascade[c.req.object]), End(c, "error"))

CleanUp(r) ==
  /\ At(r, "clean")
  /\ LET c    == calls[r]
         next == CleanNext(c, Tail(c.got.rest))
     IN  Statement(r, Cleaned(Head(c.got.rest), c.req.object, c.req.id), next, next)

----------------------------------------------------------------------------
(* Sessions.                                                               *)

LoginEntry(req, result) == [name |-> req.name, result |-> result]

Credentials(r) ==
  /\ At(r, "credentials")
  /\ LET c == calls[r]
         Good == {id \in DOMAIN db.user : /\ db.user[id].name = c.req.name
                                          /\ db.user[id].status = "active"
                                          /\ db.user[id].password = c.req.password}
     IN  Query(r, IF Good = {} THEN To(c, "logFailure")
                  ELSE [To(c, "signIn") EXCEPT !.got = [user |-> CHOOSE id \in Good : TRUE]],
                  To(c, "logFailure"))

LogFailure(r) ==
  /\ At(r, "logFailure")
  /\ LET c == calls[r]
     IN  Statement(r, [db EXCEPT !.loginLogs = Append(@, LoginEntry(c.req, "failure"))],
                   End(c, "denied"), End(c, "denied"))

(* Faulty SignIn: no transaction, the log entry first.                      *)
SignInThenLog(r) ==
  /\ At(r, "signIn")
  /\ \/ /\ "logged" \notin DOMAIN calls[r].got
        /\ LET c == calls[r]
           IN  Statement(r, [db EXCEPT !.loginLogs = Append(@, LoginEntry(c.req, "success"))],
                         [c EXCEPT !.got = [user |-> c.got.user, logged |-> TRUE]], End(c, "error"))
     \/ /\ "logged" \in DOMAIN calls[r].got
        /\ \E t \in Tokens \ issued :
             LET c       == calls[r]
                 session == [user |-> c.got.user, expires |-> now + SessionTTL]
             IN  Statement(r, [db EXCEPT !.sessions = Put(@, t, session)], End(c, "ok"), End(c, "error"))

SignIn(r) ==
  /\ At(r, "signIn")
  /\ \E t \in Tokens \ issued :
       LET c       == calls[r]
           session == [user |-> c.got.user, expires |-> now + SessionTTL]
       IN  Statement(r, [db EXCEPT !.sessions  = Put(@, t, session),
                                   !.loginLogs = Append(@, LoginEntry(c.req, "success"))],
                     End(c, "ok"), End(c, "error"))

Logout(r) ==
  /\ At(r, "logout")
  /\ LET c == calls[r]
     IN  Statement(r, [db EXCEPT !.sessions = Drop(@, {c.req.token})], End(c, "ok"), End(c, "ok"))

----------------------------------------------------------------------------
(* CheckAccess: the session with its user, the application, the policies    *)
(* for the user, the policies for its groups.                              *)

UserBySession(r) ==
  /\ At(r, "session")
  /\ LET c == calls[r]
         t == c.req.token
     IN  Query(r, IF ~SignedIn(t) THEN End(c, "unauthorized")
                  ELSE LET user == db.sessions[t].user
                       IN  [To(c, "app") EXCEPT !.got = [user |-> user, admin |-> db.user[user].admin]],
                  End(c, "unauthorized"))

AppByDomain(r) ==
  /\ At(r, "app")
  /\ LET c == calls[r]
     IN  Query(r, IF Hosting(c.req.host) = {} THEN End(c, "notfound")
                  ELSE LET app == CHOOSE id \in Hosting(c.req.host) : TRUE
                       IN  IF ~db.app[app].enabled THEN End(c, "forbidden")
                           ELSE IF c.got.admin THEN End(c, "granted")
                           ELSE [To(c, "userPolicies") EXCEPT
                                   !.got = [user |-> c.got.user, app |-> app, at |-> now]],
                  End(c, "forbidden"))

AllowedToUser(r) ==
  /\ At(r, "userPolicies")
  /\ LET c == calls[r]
     IN  Query(r, IF ByUser(c.got.user, c.got.app, c.got.at) THEN End(c, "granted")
                  ELSE To(c, "groupPolicies"),
                  To(c, "groupPolicies"))

(* Faulty AllowedToGroup: only an answer of zero policies turns down.       *)
AllowedUnlessZero(r) ==
  /\ At(r, "groupPolicies")
  /\ LET c == calls[r]
     IN  Query(r, End(c, IF ByGroup(c.got.user, c.got.app, c.got.at) THEN "granted" ELSE "forbidden"),
                  End(c, "granted"))

AllowedToGroup(r) ==
  /\ At(r, "groupPolicies")
  /\ LET c == calls[r]
     IN  Query(r, End(c, IF ByGroup(c.got.user, c.got.app, c.got.at) THEN "granted" ELSE "forbidden"),
                  End(c, "forbidden"))

----------------------------------------------------------------------------
(* Requests, failures, time.                                               *)

First(req) ==
  CASE req.action = "create" -> IF req.object \in {"user", "app"} THEN "exists" ELSE "insert"
    [] req.action = "update" -> IF req.object \in {"user", "app"} THEN "read" ELSE "replace"
    [] req.action = "delete" -> "row"
    [] req.action = "login"  -> "credentials"
    [] req.action = "logout" -> "logout"
    [] req.action = "check"  -> "session"
    [] req.action = "report" -> "host"
    [] req.action = "view"   -> "entry"

Start(r) ==
  /\ At(r, "end")
  /\ started < MaxCalls
  /\ started' = started + 1
  /\ \E req \in mix :
       calls' = [calls EXCEPT ![r] = [Idle EXCEPT !.req = req, !.pc = First(req), !.since = now]]
  /\ UNCHANGED <<db, server, now, faults, mix>>
  /\ Observe

Crash ==
  /\ server = "up" /\ faults < MaxFaults
  /\ server' = "down"
  /\ calls' = [r \in Callers |-> Idle]
  /\ faults' = faults + 1
  /\ UNCHANGED <<db, bounds>>
  /\ Observe

(* BootstrapAdmin; no other request runs.                                   *)
Restart ==
  /\ server = "down"
  /\ server' = "up"
  /\ LET admin == [name |-> AdminName, status |-> "active", admin |-> TRUE, password |-> AdminPassword]
     IN  db' = IF Taken("user", 0, admin) THEN db
               ELSE [db EXCEPT !.user = Put(@, db.auto.user, admin), !.auto.user = @ + 1]
  /\ UNCHANGED <<calls, faults, bounds>>
  /\ Observe

Tick ==
  /\ now < MaxTime
  /\ now' = now + 1
  /\ UNCHANGED <<db, calls, server, faults, started, mix>>
  /\ Observe

DirectoryStep(r) ==
  \/ Exists(r) \/ Insert(r) \/ ReadBack(r) \/ ReadRow(r) \/ WriteRow(r) \/ Replace(r)
  \/ DeleteRow(r) \/ CleanUp(r) \/ AddAdminLog(r)

AccessStep(r) ==
  \/ Credentials(r) \/ LogFailure(r) \/ SignIn(r) \/ Logout(r)
  \/ UserBySession(r) \/ AppByDomain(r) \/ AllowedToUser(r) \/ AllowedToGroup(r)

----------------------------------------------------------------------------
Init ==
  /\ db = Seed
  /\ calls = [r \in Callers |-> Idle]
  /\ server = "up"
  /\ now = 0 /\ faults = 0 /\ started = 0
  /\ mix \in Mixes
  /\ issued = DOMAIN Seed.sessions
  /\ seen = [r \in Callers |-> {}]

----------------------------------------------------------------------------
(* Properties.  The next-state relation, with the steps of the access audit, *)
(* is in MySQLAudit.                                                       *)

(* The tables hold well-formed rows under ids given away by their counters;  *)
(* hosts are stored normalized, so that a lookup can find them, and unique   *)
(* columns are unique.                                                      *)
TablesOK ==
  /\ \A object \in Objects : \A id \in DOMAIN db[object] : id \in 1..(db.auto[object] - 1)
  /\ \A object \in DOMAIN Column : \A i, j \in DOMAIN db[object] :
       db[object][i][Column[object]] = db[object][j][Column[object]] => i = j
  /\ \A id \in DOMAIN db.app : \E host \in DOMAIN NormalizeHost : db.app[id].domain = NormalizeHost[host]
  /\ \A t \in DOMAIN db.sessions : db.sessions[t].user \in 1..(db.auto.user - 1)
  /\ server \in {"up", "down"} /\ now \in 0..MaxTime /\ faults \in 0..MaxFaults
  /\ \A r \in Callers : seen[r] \subseteq Facts

(* CheckAccess grants only what the tables justify: while it read them, one   *)
(* statement at a time, the caller was signed in, the application enabled,   *)
(* and the caller an administrator or authorized; failing statements turn    *)
(* callers down and never let one in.                                       *)
GrantsExplained ==
  \A r \in Callers : calls[r].answer = "granted" =>
    /\ {"signedIn", "enabled"} \subseteq seen[r]
    /\ {"administrator", "authorized"} \cap seen[r] # {}

(* "Not found" is said only of what was not there at some time during the     *)
(* call, or, by an update of a group or a rule, of a row it did not change:  *)
(* a repeated or idle update is answered 404.  A failure is never taken for  *)
(* absence.                                                                 *)
NotFoundExplained ==
  \A r \in Callers : calls[r].answer = "notfound" => {"missing", "unchanged"} \cap seen[r] # {}

Sets(req, column) ==
  column \in DOMAIN req /\ (column \in {"status", "password", "domain"} => req[column] # "")

(* An update writes the whole row it read: a status, role or host its request *)
(* does not name may change all the same, but only back to what the call     *)
(* read, and only when another request changed the row in between: that is   *)
(* the lost update, and the one way to change a column without naming it.   *)
UpdatesExplained ==
  [][ \A r \in Callers :
        calls[r].pc = "write" /\ calls'[r].pc # "write" /\ db' # db =>
          LET req == calls[r].req
              old == db[req.object][req.id]
              new == db'[req.object][req.id]
          IN  \A column \in DOMAIN new :
                new[column] # old[column] /\ ~Sets(req, column) =>
                  "overtaken" \in seen[r] /\ new[column] = calls[r].got[column] ]_vars

(* No membership stays behind a group that is gone, whatever order its        *)
(* deletion and the replacement of its members take, except while the        *)
(* deletion is still cleaning up, or after a failure.                       *)
NoOrphanMembers ==
  \A m \in db.members :
    \/ m[1] \in DOMAIN db.group
    \/ faults > 0
    \/ \E r \in Callers : calls[r].pc = "clean" /\ calls[r].req.object = "group" /\ calls[r].req.id = m[1]

(* What a request did is in the administration log once it is over, unless    *)
(* one of its statements failed, or somebody deleted the object meanwhile:   *)
(* then the method reports "not found" for work it has done.                *)
LoggedUnlessStruck ==
  \A r \in Callers :
    LET c == calls[r]
    IN  c.pc = "end" /\ c.did # NoEntry /\ ~c.struck =>
          \/ \E i \in DOMAIN db.adminLogs : db.adminLogs[i] = c.did
          \/ /\ c.did.action # "delete" /\ c.answer = "notfound"
             /\ c.did.id \notin DOMAIN db[c.did.object]

(* Each session opened since has its entry in the login log and no new entry  *)
(* is without one, whichever statement of the login failed and whenever the  *)
(* process stopped.                                                         *)
SessionsHaveLogins ==
  Cardinality({i \in DOMAIN db.loginLogs : i > Len(Seed.loginLogs) /\ db.loginLogs[i].result = "success"})
    = Cardinality(issued \ DOMAIN Seed.sessions)

AccountOf(id) == [name   |-> db.user[id].name,
                  active |-> db.user[id].status = "active",
                  admin  |-> db.user[id].admin]
SiteOf(id)    == [host |-> db.app[id].domain, enabled |-> db.app[id].enabled]
LiveTokens    == {t \in DOMAIN db.sessions : /\ db.sessions[t].expires > now
                                             /\ db.sessions[t].user \in DOMAIN db.user}

Access == INSTANCE AccessSpec WITH
  accounts <- [id \in DOMAIN db.user |-> AccountOf(id)],
  sites    <- [id \in DOMAIN db.app |-> SiteOf(id)],
  grants   <- {g \in (DOMAIN db.user) \X (DOMAIN db.app) :
                 ByUser(g[1], g[2], now) \/ ByGroup(g[1], g[2], now)},
  holder   <- [t \in LiveTokens |-> db.sessions[t].user],
  drawn    <- issued,
  spent    <- ({"account"} \X (1..(db.auto.user - 1))) \cup ({"site"} \X (1..(db.auto.app - 1)))

(* Statement by statement, with failures and restarts, the tables keep the    *)
(* promise the in-memory store keeps: joins hide what a deletion has not yet *)
(* removed, and ids that do not come back keep it hidden for good.           *)
AccessImplemented == Access!Spec
=============================================================================

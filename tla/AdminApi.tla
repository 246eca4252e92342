------------------------------ MODULE AdminApi ------------------------------
(***************************************************************************)
(* The administration routes of internal/httpapi/server.go on top of the   *)
(* in-memory store.  A request goes through three critical sections of the *)
(* store, and others may come between any two of them:                     *)
(*                                                                         *)
(*   requireAdmin   UserBySession, and a copy of the caller is kept        *)
(*   the handler    one operation of the store, after checks of the copy   *)
(*   auditAdmin     AddAdminLog, only when the operation succeeded         *)
(*                                                                         *)
(* What a request asks for is chosen when its operation runs; the handlers *)
(* read the path and the body before, and nothing else.                    *)
(***************************************************************************)
EXTENDS MemoryStore

CONSTANT Requests       \* goroutines serving administration requests

ASSUME ServersAssumption == IsFiniteSet(Requests)

VARIABLES
  reqs,        \* per request: its phase, its caller, the entry it has to log
  adminLogs,   \* sequence of admin log entries, oldest first
  performed    \* history: entries of the operations done, in that order

apiVars == <<reqs, adminLogs, performed>>

Objects    == {"user", "group", "app", "policy", "body_rule", "access_log"}
Actions    == {"create", "update", "delete", "view_body"}
AdminEntry == [admin : Nat, object : Objects, objectID : Nat, action : Actions]
NoEntry    == [admin |-> 0, object |-> "user", objectID |-> 0, action |-> "create"]

(* Bound: every request under way may still take two ids, one for what it   *)
(* creates and one for its log entry, and n more can be taken now.          *)
Spare(n) == nextID + 2 * Cardinality({r \in Requests : reqs[r].phase # "idle"}) + n - 1 <= MaxID

----------------------------------------------------------------------------
RequireAdmin(r, t) ==
  /\ reqs[r].phase = "idle" /\ Spare(2)
  /\ Authenticated(t) /\ users[sessions[t].user].admin
  /\ UserBySession(t)
  /\ reqs' = [reqs EXCEPT ![r] = [phase |-> "execute", admin |-> sessions[t].user,
                                  entry |-> NoEntry]]
  /\ UNCHANGED <<adminLogs, performed>>

(* The operation succeeded: the request goes on to auditAdmin.              *)
Performed(r, object, id, action) ==
  LET entry == [admin |-> reqs[r].admin, object |-> object,
                objectID |-> id, action |-> action]
  IN  /\ reqs' = [reqs EXCEPT ![r] = [@ EXCEPT !.phase = "audit", !.entry = entry]]
      /\ performed' = Append(performed, entry)
      /\ UNCHANGED adminLogs

(* Faulty MayUpdate: the guard is missing.                                  *)
MayUpdateAnything(caller, id, admin) == TRUE

(* An administrator may neither drop its own role nor delete itself.        *)
MayUpdate(caller, id, admin) == id = caller => admin
MayDelete(caller, id)        == id # caller

UserRequest(r) ==
  \/ \E name \in Names, password \in Passwords, admin \in BOOLEAN :
       CreateUser(name, password, admin) /\ Performed(r, "user", nextID, "create")
  \/ \E id \in DOMAIN users, status \in Statuses \cup {""}, admin \in BOOLEAN,
        password \in Passwords \cup {""} :
       /\ MayUpdate(reqs[r].admin, id, admin)
       /\ UpdateUser(id, status, admin, password)
       /\ Performed(r, "user", id, "update")
  \/ \E id \in DOMAIN users :
       /\ MayDelete(reqs[r].admin, id)
       /\ DeleteUser(id)
       /\ Performed(r, "user", id, "delete")

GroupRequest(r) ==
  \/ \E members \in MemberSets :
       CreateGroup(members) /\ Performed(r, "group", nextID, "create")
  \/ \E id \in DOMAIN groups, members \in MemberSets :
       UpdateGroup(id, members) /\ Performed(r, "group", id, "update")
  \/ \E id \in DOMAIN groups :
       DeleteGroup(id) /\ Performed(r, "group", id, "delete")

AppRequest(r) ==
  \/ \E raw \in RawHosts, enabled \in BOOLEAN :
       CreateApp(raw, enabled) /\ Performed(r, "app", nextID, "create")
  \/ \E id \in DOMAIN apps, raw \in RawHosts, enabled \in BOOLEAN :
       UpdateApp(id, raw, enabled) /\ Performed(r, "app", id, "update")
  \/ \E id \in DOMAIN apps :
       DeleteApp(id) /\ Performed(r, "app", id, "delete")

PolicyRequest(r) ==
  \/ \E form \in PolicyForms :
       CreatePolicy(form) /\ Performed(r, "policy", nextID, "create")
  \/ \E id \in DOMAIN policies :
       DeletePolicy(id) /\ Performed(r, "policy", id, "delete")

Execute(r) ==
  /\ reqs[r].phase = "execute"
  /\ UserRequest(r) \/ GroupRequest(r) \/ AppRequest(r) \/ PolicyRequest(r)

(* 400, 404, 409, or a route that only reads: nothing changes, nothing is logged. *)
Answer(r) ==
  /\ reqs[r].phase = "execute"
  /\ reqs' = [reqs EXCEPT ![r].phase = "idle"]
  /\ UNCHANGED <<vars, adminLogs, performed>>

(* Faulty auditAdmin: deletions are not written.                            *)
AuditSkipsDeletions(r) ==
  /\ reqs[r].phase = "audit"
  /\ IF reqs[r].entry.action = "delete"
       THEN UNCHANGED <<adminLogs, nextID>>
       ELSE /\ adminLogs' = Append(adminLogs, [id |-> nextID, entry |-> reqs[r].entry])
            /\ TakeID
  /\ reqs' = [reqs EXCEPT ![r].phase = "idle"]
  /\ UNCHANGED <<directory, logins, now, checks, performed>>

(* Faulty auditAdmin: requests wait for each other.                         *)
AuditWaitsForOthers(r) ==
  /\ reqs[r].phase = "audit"
  /\ \A q \in Requests \ {r} : reqs[q].phase # "audit"
  /\ adminLogs' = Append(adminLogs, [id |-> nextID, entry |-> reqs[r].entry])
  /\ TakeID
  /\ reqs' = [reqs EXCEPT ![r].phase = "idle"]
  /\ UNCHANGED <<directory, logins, now, checks, performed>>

AuditAdmin(r) ==
  /\ reqs[r].phase = "audit"
  /\ adminLogs' = Append(adminLogs, [id |-> nextID, entry |-> reqs[r].entry])
  /\ TakeID
  /\ reqs' = [reqs EXCEPT ![r].phase = "idle"]
  /\ UNCHANGED <<directory, logins, now, checks, performed>>

Environment ==
  /\ \/ Spare(1) /\ LoginNext
     \/ SessionNext
     \/ CheckNext
     \/ Tick
  /\ UNCHANGED apiVars

ApiInit ==
  /\ Init
  /\ reqs = [r \in Requests |-> [phase |-> "idle", admin |-> 0, entry |-> NoEntry]]
  /\ adminLogs = <<>>
  /\ performed = <<>>

ApiNext ==
  \/ \E r \in Requests :
       \/ \E t \in Tokens : RequireAdmin(r, t)
       \/ Execute(r)
       \/ Answer(r)
       \/ AuditAdmin(r)
  \/ Environment

ApiSpec == ApiInit /\ [][ApiNext]_<<vars, apiVars>>

(* A handler that started runs to its end.                                  *)
FairApiSpec ==
  ApiSpec /\ \A r \in Requests :
    WF_<<vars, apiVars>>(Execute(r) \/ Answer(r)) /\ WF_<<vars, apiVars>>(AuditAdmin(r))

----------------------------------------------------------------------------
(* Properties.                                                             *)

Logged(i) == adminLogs[i].entry

(* "Administration operations must be written to the audit log": however the *)
(* requests interleave, the log holds exactly the operations performed, each *)
(* as often as it was performed and under the caller's id, but for those     *)
(* whose requests have yet to write theirs.                                  *)
AuditComplete ==
  LET Times(e, S) == Cardinality({i \in DOMAIN S : S[i] = e})
      Logs        == [i \in DOMAIN adminLogs |-> Logged(i)]
      Pending(e)  == Cardinality({r \in Requests : reqs[r].phase = "audit" /\ reqs[r].entry = e})
  IN  \A e \in {performed[i] : i \in DOMAIN performed} \cup {Logs[i] : i \in DOMAIN Logs} :
        Times(e, performed) = Times(e, Logs) + Pending(e)

(* Each operation performed is logged in the end.  There are fewer than       *)
(* MaxID - 1 of them: the administrator and its login take two of the ids.   *)
EventuallyLogged ==
  \A n \in 1..(MaxID - 2) : Len(performed) >= n ~> Len(adminLogs) >= n

(* Every change is made by a request: what the directory holds beyond the    *)
(* bootstrapped administrator was created by a logged or pending operation,  *)
(* and what an operation deleted is gone.                                    *)
DirectoryExplained ==
  LET Done(object, action) ==
        {performed[i].objectID : i \in {j \in DOMAIN performed :
           performed[j].object = object /\ performed[j].action = action}}
      Left(object) == Done(object, "create") \ Done(object, "delete")
  IN  /\ DOMAIN users = (Left("user") \cup {1}) \ Done("user", "delete")
      /\ DOMAIN groups = Left("group")
      /\ DOMAIN apps = Left("app")
      /\ DOMAIN policies \subseteq Left("policy")

(* The guards on an administrator's own account keep the role in the world:  *)
(* while requests come one at a time, somebody is an administrator.          *)
AdminRoleHeld == \E id \in DOMAIN users : users[id].admin
=============================================================================

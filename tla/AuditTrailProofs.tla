-------------------------- MODULE AuditTrailProofs --------------------------
(***************************************************************************)
(* The body rules, the access log and its views, for every value of the    *)
(* constants: any number of requests under way, any reports, rules, limits *)
(* and listings.                                                           *)
(***************************************************************************)
EXTENDS AuditTrail, AdminApiProofs, BodyPayloadProofs
LOCAL INSTANCE SequencesExt
LOCAL INSTANCE FiniteSetsExt

(* A rule as the store keeps it, and an entry whose bodies a rule kept.       *)
RuleOK(rule) ==
  /\ rule.app \in Nat /\ rule.match # "" /\ rule.maxBytes \in Nat \ {0}
  /\ rule.request \in BOOLEAN /\ rule.response \in BOOLEAN
  /\ rule.request \/ rule.response

RulesInv ==
  \A k \in DOMAIN bodyRules : k \in 1..(nextID - 1) /\ RuleOK(bodyRules[k])

SideOK(log, flag, body) ==
  body.present => /\ flag /\ log.rule \in 1..(log.id - 1)
                  /\ \A n \in DOMAIN body.text : body.text[n] \notin {"k", "b"}

EntryOK(log) ==
  SideOK(log, log.hasRequest, log.request) /\ SideOK(log, log.hasResponse, log.response)

LogsInv ==
  /\ accessLogs \in Seq(AccessLog)
  /\ \A i \in DOMAIN accessLogs :
       /\ EntryOK(accessLogs[i])
       /\ accessLogs[i].id < nextID /\ accessLogs[i].at <= now
       /\ \A j \in 1..(i - 1) : accessLogs[j].id < accessLogs[i].id

(* A request that has yet to log a view logs it under its caller's id.        *)
RequestsInv ==
  /\ reqs \in [Requests -> Request]
  /\ \A r \in Requests : reqs[r].phase = "audit" =>
       /\ reqs[r].entry.admin = reqs[r].admin
       /\ reqs[r].entry.action = "view_body" => reqs[r].entry.object = "access_log"

----------------------------------------------------------------------------
(* The steps of requests that leave the trail alone.                        *)

LEMMA ExecuteDoes ==
  ASSUME TypeOK, NEW r \in Requests, Execute(r)
  PROVE  \E object \in Objects, id \in Nat, action \in {"create", "update", "delete"} :
           Performed(r, object, id, action)
<1>1. nextID \in Nat /\ \A m \in {users, groups, apps, policies} : \A id \in DOMAIN m : id \in Nat
  BY DEF TypeOK, Ids
<1>2. CASE UserRequest(r)
  <2>1. \E id \in Nat, action \in {"create", "update", "delete"} : Performed(r, "user", id, action)
    BY <1>1, <1>2 DEF UserRequest
  <2> QED BY <2>1 DEF Objects
<1>3. CASE GroupRequest(r)
  <2>1. \E id \in Nat, action \in {"create", "update", "delete"} : Performed(r, "group", id, action)
    BY <1>1, <1>3 DEF GroupRequest
  <2> QED BY <2>1 DEF Objects
<1>4. CASE AppRequest(r)
  <2>1. \E id \in Nat, action \in {"create", "update", "delete"} : Performed(r, "app", id, action)
    BY <1>1, <1>4 DEF AppRequest
  <2> QED BY <2>1 DEF Objects
<1>5. CASE PolicyRequest(r)
  <2>1. \E id \in Nat, action \in {"create", "update", "delete"} : Performed(r, "policy", id, action)
    BY <1>1, <1>5 DEF PolicyRequest
  <2> QED BY <2>1 DEF Objects
<1> QED BY <1>2, <1>3, <1>4, <1>5 DEF Execute

(* The store stays well formed under the steps that are new here.             *)
LEMMA TakeIDType ==
  ASSUME TypeOK, TakeID, UNCHANGED <<directory, logins, now, checks>>
  PROVE  TypeOK' /\ nextID' = nextID + 1 /\ now' = now
<1>1. nextID' \in Nat \ {0} /\ nextID' = nextID + 1 /\ 1..(nextID - 1) \subseteq 1..(nextID' - 1)
  BY DEF TakeID, TypeOK
<1> QED BY <1>1 DEF TypeOK, Ids, directory, logins

LEMMA StoreSame ==
  ASSUME TypeOK, UNCHANGED <<directory, logins, nextID, now, checks>>
  PROVE  TypeOK' /\ nextID' = nextID /\ now' = now
BY DEF TypeOK, Ids, directory, logins

(* Ids and time only go up.                                                 *)
Onward == TypeOK' /\ nextID <= nextID' /\ now <= now'

LEMMA NextOnward ==
  ASSUME TypeOK, [Next]_vars
  PROVE  Onward
<1>1. nextID \in Nat /\ now \in Nat
  BY DEF TypeOK
<1>2. TypeOK'
  BY NextType
<1>3. nextID <= nextID'
  BY <1>1, NextAllocates DEF Allocation, AllocatesNothing, AllocatesEntity, AllocatesEntry
<1>4. now <= now'
  <2>1. CASE UNCHANGED vars
    BY <1>1, <2>1 DEF vars
  <2>2. CASE LoginNext
    BY <1>1, <2>2 DEF LoginNext, Authenticate, RejectLogin
  <2>3. CASE SessionNext
    BY <1>1, <2>3 DEF SessionNext, Logout, UserBySession
  <2>4. CASE CheckNext
    <3>1. ASSUME NEW c, NEW t, NEW h, CheckReject(c, t, h) PROVE now' = now
      BY <3>1 DEF CheckReject
    <3>2. ASSUME NEW c, NEW t, NEW h, CheckLookup(c, t, h) PROVE now' = now
      BY <3>2 DEF CheckLookup
    <3>3. ASSUME NEW c, CheckDecide(c) PROVE now' = now
      BY <3>3 DEF CheckDecide
    <3> QED BY <1>1, <2>4, <3>1, <3>2, <3>3 DEF CheckNext
  <2>5. CASE DirectoryNext
    <3>1. ASSUME NEW a, NEW b, NEW c, CreateUser(a, b, c) PROVE now' = now
      BY <3>1 DEF CreateUser
    <3>2. ASSUME NEW a, NEW b, NEW c, NEW d, UpdateUser(a, b, c, d) PROVE now' = now
      BY <3>2 DEF UpdateUser
    <3>3. ASSUME NEW a, DeleteUser(a) \/ DeleteGroup(a) \/ DeleteApp(a) \/ DeletePolicy(a) PROVE now' = now
      BY <3>3 DEF DeleteUser, DeleteGroup, DeleteApp, DeletePolicy
    <3>4. ASSUME NEW a, CreateGroup(a) \/ CreatePolicy(a) PROVE now' = now
      BY <3>4 DEF CreateGroup, CreatePolicy
    <3>5. ASSUME NEW a, NEW b, UpdateGroup(a, b) \/ CreateApp(a, b) PROVE now' = now
      BY <3>5 DEF UpdateGroup, CreateApp
    <3>6. ASSUME NEW a, NEW b, NEW c, UpdateApp(a, b, c) PROVE now' = now
      BY <3>6 DEF UpdateApp
    <3>7. now' = now
      BY <2>5, <3>1, <3>2, <3>3, <3>4, <3>5, <3>6, Zenon DEF DirectoryNext
    <3> QED BY <1>1, <3>7
  <2>6. CASE Tick
    BY <1>1, <2>6 DEF Tick
  <2> QED BY <2>1, <2>2, <2>3, <2>4, <2>5, <2>6 DEF Next
<1> QED BY <1>2, <1>3, <1>4 DEF Onward

(* Steps of the store, of logging in and of requests for its objects.        *)
Elsewhere ==
  \/ UNCHANGED auditVars
  \/ \E r \in Requests :
       (Execute(r) \/ Answer(r) \/ \E t \in Tokens : RequireAdmin(r, t)) /\ UNCHANGED trailVars
  \/ Environment /\ UNCHANGED trailVars

LEMMA ElsewhereFacts ==
  ASSUME TypeOK, RequestsInv, Elsewhere
  PROVE  Onward /\ RequestsInv' /\ UNCHANGED trailVars /\ adminLogs' = adminLogs
<1>1. CASE UNCHANGED auditVars
  <2>1. Onward
    BY <1>1, NextOnward DEF auditVars
  <2> QED BY <1>1, <2>1 DEF auditVars, apiVars, RequestsInv
<1>2. CASE Environment /\ UNCHANGED trailVars
  <2>1. Onward
    BY <1>2, NextOnward DEF Environment, Next
  <2> QED BY <1>2, <2>1 DEF Environment, apiVars, RequestsInv
<1>3. ASSUME NEW r \in Requests, Execute(r), UNCHANGED trailVars
      PROVE  Onward /\ RequestsInv' /\ adminLogs' = adminLogs
  <2>1. DirectoryNext
    BY <1>3 DEF Execute, UserRequest, GroupRequest, AppRequest, PolicyRequest, DirectoryNext
  <2>2. Onward
    BY <2>1, NextOnward DEF Next
  <2>3. PICK object \in Objects, id \in Nat, action \in {"create", "update", "delete"} :
          Performed(r, object, id, action)
    BY <1>3, ExecuteDoes
  <2> DEFINE entry == [admin |-> reqs[r].admin, object |-> object, objectID |-> id, action |-> action]
             req   == [reqs[r] EXCEPT !.phase = "audit", !.entry = entry]
  <2>4. reqs' = [reqs EXCEPT ![r] = req] /\ adminLogs' = adminLogs
    BY <2>3 DEF Performed
  <2>5. reqs[r] \in Request /\ entry \in AdminEntry
    BY DEF RequestsInv, Request, AdminEntry, Actions
  <2>6. req \in Request /\ req.entry = entry /\ req.admin = reqs[r].admin
    BY <2>5 DEF Request
  <2>7. entry.admin = reqs[r].admin /\ entry.action # "view_body"
    OBVIOUS
  <2> HIDE DEF entry, req
  <2>8. RequestsInv'
    BY <2>4, <2>6, <2>7 DEF RequestsInv
  <2> QED BY <2>2, <2>4, <2>8
<1>4. ASSUME NEW r \in Requests, Answer(r)
      PROVE  Onward /\ RequestsInv' /\ adminLogs' = adminLogs
  <2>1. Onward
    BY <1>4, NextOnward DEF Answer
  <2> QED BY <1>4, <2>1 DEF Answer, RequestsInv, Request
<1>5. ASSUME NEW r \in Requests, NEW t \in Tokens, RequireAdmin(r, t)
      PROVE  Onward /\ RequestsInv' /\ adminLogs' = adminLogs
  <2>1. Onward
    BY <1>5, NextOnward DEF RequireAdmin, Next, SessionNext
  <2>2. sessions[t].user \in Nat
    BY <1>5 DEF RequireAdmin, Authenticated, Live, TypeOK, Session
  <2>3. [phase |-> "execute", admin |-> sessions[t].user, entry |-> NoEntry] \in Request
    BY <2>2 DEF Request, NoEntry, AdminEntry, Objects, Actions
  <2>4. RequestsInv'
    BY <1>5, <2>3 DEF RequireAdmin, RequestsInv
  <2> QED BY <1>5, <2>1, <2>4 DEF RequireAdmin
<1> QED BY <1>1, <1>2, <1>3, <1>4, <1>5 DEF Elsewhere, auditVars

(* What stays as it was stays well formed.                                  *)
LEMMA RulesFrame ==
  ASSUME TypeOK, RulesInv, Onward, bodyRules' = bodyRules
  PROVE  RulesInv'
<1>1. nextID \in Nat /\ nextID' \in Nat /\ nextID <= nextID'
  BY DEF TypeOK, Onward
<1>2. ASSUME NEW k \in DOMAIN bodyRules PROVE k \in 1..(nextID' - 1) /\ RuleOK(bodyRules[k])
  <2>1. k \in 1..(nextID - 1) /\ RuleOK(bodyRules[k])
    BY DEF RulesInv
  <2>2. k \in 1..(nextID' - 1)
    BY <1>1, <2>1
  <2> QED BY <2>1, <2>2
<1> QED BY <1>2 DEF RulesInv, RuleOK

LEMMA EntryType ==
  ASSUME LogsInv, NEW i \in DOMAIN accessLogs
  PROVE  /\ accessLogs[i] \in AccessLog
         /\ accessLogs[i].id \in Nat /\ accessLogs[i].at \in Nat
<1>1. accessLogs[i] \in AccessLog
  BY DEF LogsInv
<1> QED BY <1>1 DEF AccessLog

LEMMA LogsFrame ==
  ASSUME TypeOK, LogsInv, Onward, accessLogs' = accessLogs
  PROVE  LogsInv'
<1>1. nextID \in Nat /\ nextID' \in Nat /\ nextID <= nextID' /\ now \in Nat /\ now' \in Nat /\ now <= now'
  BY DEF TypeOK, Onward
<1>2. ASSUME NEW i \in DOMAIN accessLogs
      PROVE  accessLogs[i].id < nextID' /\ accessLogs[i].at <= now'
  <2>1. accessLogs[i].id \in Nat /\ accessLogs[i].at \in Nat
    BY EntryType
  <2>2. accessLogs[i].id < nextID /\ accessLogs[i].at <= now
    BY DEF LogsInv
  <2> QED BY <1>1, <2>1, <2>2
<1> QED BY <1>2 DEF LogsInv, EntryOK, SideOK

(* A request that has performed something goes on to log it.                 *)
LEMMA PerformedRequests ==
  ASSUME RequestsInv, NEW r \in Requests, NEW object \in Objects, NEW id \in Nat, NEW action \in Actions,
         action = "view_body" => object = "access_log",
         Performed(r, object, id, action)
  PROVE  RequestsInv'
<1> DEFINE entry == [admin |-> reqs[r].admin, object |-> object, objectID |-> id, action |-> action]
           req   == [reqs[r] EXCEPT !.phase = "audit", !.entry = entry]
<1>1. reqs' = [reqs EXCEPT ![r] = req]
  BY DEF Performed
<1>2. reqs[r] \in Request /\ entry \in AdminEntry
  BY DEF RequestsInv, Request, AdminEntry
<1>3. req \in Request /\ req.entry = entry /\ req.admin = reqs[r].admin
  BY <1>2 DEF Request
<1>4. entry.admin = reqs[r].admin /\ (entry.action = "view_body" => entry.object = "access_log")
  OBVIOUS
<1> HIDE DEF entry, req
<1> QED BY <1>1, <1>3, <1>4 DEF RequestsInv

----------------------------------------------------------------------------
(* Changes of the rules.                                                    *)

LEMMA NormalizedOK ==
  ASSUME NEW form \in RuleForms, ValidBodyRule(form)
  PROVE  RuleOK(NormalizeBodyAuditRule(form))
<1>1. form \in Rule
  BY AuditAssumption
<1>2. Limit(form.maxBytes) \in Nat \ {0}
  <2>1. form.maxBytes \in Nat
    BY <1>1 DEF Rule
  <2> QED BY <2>1, PayloadAssumption DEF Limit
<1> DEFINE match == IF form.match = "" THEN "prefix" ELSE form.match
           methods == {Upper[m] : m \in form.methods} \ {""}
           bytes == Limit(form.maxBytes)
<1>3. NormalizeBodyAuditRule(form) =
        [form EXCEPT !.match = match, !.methods = methods, !.maxBytes = bytes]
  BY DEF NormalizeBodyAuditRule
<1>4. match # ""
  OBVIOUS
<1> HIDE DEF match, methods, bytes
<1>5. LET rule == [form EXCEPT !.match = match, !.methods = methods, !.maxBytes = bytes] IN
      /\ rule.app = form.app /\ rule.match = match /\ rule.maxBytes = bytes
      /\ rule.request = form.request /\ rule.response = form.response
  BY <1>1 DEF Rule
<1>6. form.app \in Nat /\ form.request \in BOOLEAN /\ form.response \in BOOLEAN /\ (form.request \/ form.response)
  BY <1>1 DEF Rule, ValidBodyRule
<1> QED BY <1>2, <1>3, <1>4, <1>5, <1>6 DEF RuleOK, bytes

LEMMA RuleStep ==
  ASSUME TypeOK, RequestsInv, RulesInv, NEW r \in Requests, RuleRequest(r)
  PROVE  Onward /\ RequestsInv' /\ RulesInv' /\ UNCHANGED <<accessLogs, shown, adminLogs>>
<1>0. nextID \in Nat \ {0} /\ now \in Nat
  BY DEF TypeOK
<1>1. \A id \in DOMAIN bodyRules : id \in Nat
  BY DEF RulesInv
<1>2. UNCHANGED <<directory, logins, now, checks, accessLogs, shown>>
  BY DEF RuleRequest
<1>3. ASSUME NEW id \in Nat, NEW action \in {"create", "update", "delete"},
             Performed(r, "body_rule", id, action)
      PROVE  RequestsInv' /\ adminLogs' = adminLogs
  <2>1. "body_rule" \in Objects /\ action \in Actions /\ action # "view_body"
    BY DEF Objects, Actions
  <2> QED BY <1>3, <2>1, PerformedRequests DEF Performed
<1>4. ASSUME nextID' = nextID PROVE Onward
  BY <1>0, <1>2, <1>4, StoreSame DEF Onward
<1>5. ASSUME NEW form \in RuleForms, ValidBodyRule(form), CreateBodyAuditRule(form),
             Performed(r, "body_rule", nextID, "create")
      PROVE  Onward /\ RequestsInv' /\ RulesInv' /\ adminLogs' = adminLogs
  <2> DEFINE rule == NormalizeBodyAuditRule(form)
  <2>1. RuleOK(rule)
    BY <1>5, NormalizedOK
  <2> HIDE DEF rule
  <2>2. bodyRules' = Put(bodyRules, nextID, rule) /\ TakeID
    BY <1>5 DEF CreateBodyAuditRule, rule
  <2>3. Onward /\ nextID' = nextID + 1
    BY <1>0, <1>2, <2>2, TakeIDType DEF Onward
  <2>4. ASSUME NEW k \in DOMAIN bodyRules' PROVE k \in 1..(nextID' - 1) /\ RuleOK(bodyRules'[k])
    <3>1. CASE k = nextID
      BY <1>0, <2>1, <2>2, <2>3, <3>1 DEF Put
    <3>2. CASE k # nextID
      <4>1. k \in DOMAIN bodyRules /\ bodyRules'[k] = bodyRules[k]
        BY <2>2, <3>2 DEF Put
      <4> QED BY <1>0, <2>3, <4>1 DEF RulesInv
    <3> QED BY <3>1, <3>2
  <2>5. RulesInv'
    BY <2>4 DEF RulesInv, RuleOK
  <2> QED BY <1>0, <1>3, <1>5, <2>3, <2>5
<1>6. ASSUME NEW id \in DOMAIN bodyRules, NEW form \in RuleForms, ValidBodyRule(form),
             UpdateBodyAuditRule(id, form), Performed(r, "body_rule", id, "update")
      PROVE  Onward /\ RequestsInv' /\ RulesInv' /\ adminLogs' = adminLogs
  <2> DEFINE rule == NormalizeBodyAuditRule(form)
  <2>1. RuleOK(rule)
    BY <1>6, NormalizedOK
  <2> HIDE DEF rule
  <2>2. bodyRules' = [bodyRules EXCEPT ![id] = rule] /\ nextID' = nextID
    BY <1>6 DEF UpdateBodyAuditRule, rule
  <2>3. \A k \in DOMAIN bodyRules' : k \in 1..(nextID' - 1) /\ RuleOK(bodyRules'[k])
    BY <2>1, <2>2 DEF RulesInv
  <2>4. RulesInv'
    BY <2>3 DEF RulesInv, RuleOK
  <2> QED BY <1>1, <1>3, <1>4, <1>6, <2>2, <2>4
<1>7. ASSUME NEW id \in DOMAIN bodyRules, DeleteBodyAuditRule(id),
             Performed(r, "body_rule", id, "delete")
      PROVE  Onward /\ RequestsInv' /\ RulesInv' /\ adminLogs' = adminLogs
  <2>1. bodyRules' = Drop(bodyRules, {id}) /\ nextID' = nextID
    BY <1>7 DEF DeleteBodyAuditRule
  <2>2. \A k \in DOMAIN bodyRules' : k \in 1..(nextID' - 1) /\ RuleOK(bodyRules'[k])
    BY <2>1 DEF RulesInv, Drop
  <2>3. RulesInv'
    BY <2>2 DEF RulesInv, RuleOK
  <2> QED BY <1>1, <1>3, <1>4, <1>7, <2>1, <2>3
<1> QED BY <1>2, <1>5, <1>6, <1>7 DEF RuleRequest

----------------------------------------------------------------------------
(* Looking at an entry.                                                     *)

View      == [admin : Nat, log : Nat]
LogRow    == [id : Nat, entry : AdminEntry \cup AdminReports]
EntryFor(view) ==
  [admin |-> view.admin, object |-> "access_log", objectID |-> view.log, action |-> "view_body"]
Rows(L, e) == Cardinality({j \in DOMAIN L : L[j].entry = e})

(* No administrator was sent a body more often than the log of the           *)
(* administration has it.                                                    *)
ViewsInv ==
  /\ shown \in Seq(View)
  /\ adminLogs \in Seq(LogRow)
  /\ \A view \in View : Count(view, shown) <= Rows(adminLogs, EntryFor(view))

LEMMA RowsAppend ==
  ASSUME NEW V, NEW L \in Seq(V), NEW row \in V, NEW e
  PROVE  /\ Rows(L, e) \in Nat
         /\ Rows(Append(L, row), e) = IF row.entry = e THEN Rows(L, e) + 1 ELSE Rows(L, e)
<1> DEFINE places == {j \in DOMAIN L : L[j].entry = e}
           M == Append(L, row)
           n == Len(L) + 1
<1>1. IsFiniteSet(places)
  <2>1. IsFiniteSet(1..Len(L)) /\ places \subseteq 1..Len(L)
    BY FS_Interval
  <2> QED BY <2>1, FS_Subset
<1>2. n \notin places
  OBVIOUS
<1>3. DOMAIN M = DOMAIN L \cup {n} /\ M[n] = row /\ n \notin DOMAIN L /\ \A j \in DOMAIN L : M[j] = L[j]
  OBVIOUS
<1>4. {j \in DOMAIN M : M[j].entry = e} = IF row.entry = e THEN places \cup {n} ELSE places
  <2> HIDE DEF M, n
  <2> QED BY <1>3
<1>5. Cardinality(places) \in Nat /\ Cardinality(places \cup {n}) = Cardinality(places) + 1
  BY <1>1, <1>2, FS_AddElement, FS_CardinalityType
<1> QED BY <1>4, <1>5 DEF Rows

(* An entry that is not flagged has no body, so sending it shows none.       *)
LEMMA ViewStep ==
  ASSUME TypeOK, RequestsInv, LogsInv, NEW r \in Requests, ViewRequest(r)
  PROVE  Onward /\ RequestsInv' /\ UNCHANGED <<bodyRules, accessLogs, shown, adminLogs>>
<1>1. PICK i \in DOMAIN accessLogs :
        /\ \/ /\ accessLogs[i].hasRequest \/ accessLogs[i].hasResponse
              /\ Performed(r, "access_log", accessLogs[i].id, "view_body")
              /\ UNCHANGED shown
           \/ /\ ~(accessLogs[i].hasRequest \/ accessLogs[i].hasResponse)
              /\ reqs' = [reqs EXCEPT ![r].phase = "idle"]
              /\ Show(reqs[r].admin, accessLogs[i])
              /\ UNCHANGED <<adminLogs, performed>>
        /\ UNCHANGED <<vars, bodyRules, accessLogs>>
  BY DEF ViewRequest
<1>2. Onward
  BY <1>1, NextOnward
<1>3. CASE Performed(r, "access_log", accessLogs[i].id, "view_body") /\ UNCHANGED shown
  <2>1. accessLogs[i].id \in Nat /\ "access_log" \in Objects /\ "view_body" \in Actions
    BY EntryType DEF Objects, Actions
  <2>2. RequestsInv'
    BY <1>3, <2>1, PerformedRequests
  <2> QED BY <1>1, <1>2, <1>3, <2>2 DEF Performed
<1>4. CASE /\ ~(accessLogs[i].hasRequest \/ accessLogs[i].hasResponse)
           /\ reqs' = [reqs EXCEPT ![r].phase = "idle"]
           /\ Show(reqs[r].admin, accessLogs[i])
           /\ UNCHANGED <<adminLogs, performed>>
  <2>1. EntryOK(accessLogs[i])
    BY DEF LogsInv
  <2>2. ~accessLogs[i].request.present /\ ~accessLogs[i].response.present
    BY <1>4, <2>1 DEF EntryOK, SideOK
  <2>3. shown' = shown
    BY <1>4, <2>2 DEF Show
  <2>4. RequestsInv'
    BY <1>4 DEF RequestsInv, Request
  <2> QED BY <1>1, <1>2, <1>4, <2>3, <2>4
<1> QED BY <1>1, <1>3, <1>4

LEMMA FinishStep ==
  ASSUME TypeOK, RequestsInv, LogsInv, ViewsInv, NEW r \in Requests, Finish(r)
  PROVE  Onward /\ RequestsInv' /\ ViewsInv' /\ UNCHANGED <<bodyRules, accessLogs>>
<1> DEFINE entry == reqs[r].entry
           row   == [id |-> nextID, entry |-> entry]
<1>0. nextID \in Nat /\ now \in Nat
  BY DEF TypeOK
<1>1. AuditAdmin(r) /\ UNCHANGED <<bodyRules, accessLogs>>
  BY DEF Finish
<1>2. Onward
  <2>1. TakeID /\ UNCHANGED <<directory, logins, now, checks>>
    BY <1>1 DEF AuditAdmin
  <2> QED BY <1>0, <2>1, TakeIDType DEF Onward
<1>3. RequestsInv'
  BY <1>1 DEF AuditAdmin, RequestsInv, Request
<1>4. entry \in AdminEntry /\ reqs[r].admin \in Nat
  BY DEF RequestsInv, Request
<1>5. entry.admin = reqs[r].admin /\ (entry.action = "view_body" => entry.object = "access_log")
  BY <1>1 DEF AuditAdmin, RequestsInv
<1>6. row \in LogRow /\ adminLogs' = Append(adminLogs, row) /\ row.entry = entry
  BY <1>0, <1>1, <1>4 DEF AuditAdmin, LogRow
<1> HIDE DEF row
<1>7. adminLogs' \in Seq(LogRow)
  BY <1>6 DEF ViewsInv
<1>8. \A e : /\ Rows(adminLogs, e) \in Nat
             /\ Rows(adminLogs', e) = IF entry = e THEN Rows(adminLogs, e) + 1 ELSE Rows(adminLogs, e)
  BY <1>6, RowsAppend DEF ViewsInv
<1>9. CASE shown' = shown
  <2>1. \A view \in View : Count(view, shown) \in Nat
    <3> TAKE view \in View
    <3> QED BY CountAppend DEF ViewsInv
  <2>2. \A view \in View : Count(view, shown) <= Rows(adminLogs', EntryFor(view))
    <3> TAKE view \in View
    <3>1. Count(view, shown) <= Rows(adminLogs, EntryFor(view)) /\ Count(view, shown) \in Nat
      BY <2>1 DEF ViewsInv
    <3> HIDE DEF entry
    <3> QED BY <1>8, <3>1
  <2> QED BY <1>1, <1>2, <1>3, <1>7, <1>9, <2>2 DEF ViewsInv
<1>10. ASSUME shown' # shown
       PROVE  ViewsInv'
  <2>1. PICK i \in DOMAIN accessLogs : accessLogs[i].id = entry.objectID /\ Show(reqs[r].admin, accessLogs[i])
    BY <1>10 DEF Finish
  <2>2. entry.action = "view_body"
    BY <1>10 DEF Finish
  <2> DEFINE view == [admin |-> reqs[r].admin, log |-> entry.objectID]
  <2>3. shown' = Append(shown, view)
    BY <1>10, <2>1 DEF Show
  <2>4. view \in View /\ EntryFor(view) = entry
    BY <1>4, <1>5, <2>2 DEF View, EntryFor, AdminEntry
  <2> HIDE DEF view, entry
  <2>5. shown' \in Seq(View)
    BY <2>3, <2>4 DEF ViewsInv
  <2>6. ASSUME NEW v \in View PROVE Count(v, shown') <= Rows(adminLogs', EntryFor(v))
    <3>1. /\ Count(v, shown) \in Nat
          /\ Count(v, shown') = IF view = v THEN Count(v, shown) + 1 ELSE Count(v, shown)
      BY <2>3, <2>4, CountAppend DEF ViewsInv
    <3>2. Count(v, shown) <= Rows(adminLogs, EntryFor(v))
      BY DEF ViewsInv
    <3>3. view = v => EntryFor(v) = entry
      BY <2>4
    <3> QED BY <1>8, <3>1, <3>2, <3>3
  <2> QED BY <1>7, <2>5, <2>6 DEF ViewsInv
<1> QED BY <1>1, <1>2, <1>3, <1>9, <1>10

----------------------------------------------------------------------------
(* Writing an entry.                                                        *)

LEMMA PreparedBody ==
  ASSUME NEW body \in Body, NEW limit \in Nat
  PROVE  /\ PrepareBodyPayload(body, limit) \in Body
         /\ \A n \in DOMAIN PrepareBodyPayload(body, limit).text :
              PrepareBodyPayload(body, limit).text[n] \notin {"k", "b"}
<1> DEFINE out == PrepareBodyPayload(body, limit)
<1>1. body.text \in Text /\ body.truncated \in BOOLEAN /\ body.json \in 0..Len(body.text)
  <2>1. /\ body \in [present : BOOLEAN, text : Seq(Symbols), json : Nat, truncated : BOOLEAN]
        /\ body.json <= Len(body.text)
    BY DEF Body
  <2>2. body.text \in Seq(Symbols) /\ body.json \in Nat /\ body.truncated \in BOOLEAN
    BY <2>1
  <2> QED BY <2>1, <2>2 DEF Text
<1>2. out.text \in Seq(Harmless)
  BY <1>1, PreparedHarmless
<1>3. \E text, truncated : /\ out = NoBody \/ out = [present |-> TRUE, text |-> text, json |-> 0, truncated |-> truncated]
                           /\ truncated \in BOOLEAN
  <2>1. CASE ~body.present \/ body.text = <<>>
    BY <2>1 DEF PrepareBodyPayload
  <2>2. CASE body.present /\ body.text # <<>>
    <3> DEFINE text      == TruncateUTF8(RedactSensitiveBody(body), Limit(limit))
               truncated == body.truncated \/ Size(RedactSensitiveBody(body)) > Limit(limit)
    <3>1. out = [present |-> TRUE, text |-> text, json |-> 0, truncated |-> truncated]
      BY <2>2 DEF PrepareBodyPayload
    <3>2. truncated \in BOOLEAN
      BY <1>1
    <3> HIDE DEF text, truncated, out
    <3> QED BY <3>1, <3>2
  <2> QED BY <2>1, <2>2
<1> HIDE DEF out
<1>4. out.text \in Seq(Symbols)
  BY <1>2, SeqMonotonic DEF Harmless
<1>5. out \in Body
  <2>1. PICK text, truncated :
          /\ out = NoBody \/ out = [present |-> TRUE, text |-> text, json |-> 0, truncated |-> truncated]
          /\ truncated \in BOOLEAN
    BY <1>3
  <2>2. NoBody \in Body
    BY DEF NoBody, Body
  <2>3. CASE out = [present |-> TRUE, text |-> text, json |-> 0, truncated |-> truncated]
    <3>1. text \in Seq(Symbols)
      BY <1>4, <2>3
    <3> QED BY <2>1, <2>3, <3>1 DEF Body
  <2> QED BY <2>1, <2>2, <2>3
<1>6. \A n \in DOMAIN out.text : out.text[n] \notin {"k", "b"}
  <2>1. \A n \in DOMAIN out.text : out.text[n] \in Harmless
    BY <1>2, ElementOfSeq
  <2> QED BY <2>1 DEF Harmless
<1> QED BY <1>5, <1>6 DEF out

(* What one side of an entry becomes under a rule.                           *)
LEMMA KeptFacts ==
  ASSUME NEW wanted \in BOOLEAN, NEW body \in Body, NEW rule, RuleOK(rule)
  PROVE  /\ Kept(wanted, body, rule) \in Body
         /\ Kept(wanted, body, rule).present => wanted
         /\ \A n \in DOMAIN Kept(wanted, body, rule).text : Kept(wanted, body, rule).text[n] \notin {"k", "b"}
<1>1. CASE wanted
  <2>1. rule.maxBytes \in Nat
    BY DEF RuleOK
  <2> QED BY <1>1, <2>1, PreparedBody DEF Kept
<1>2. CASE ~wanted
  BY <1>2 DEF Kept, NoBody, Body
<1> QED BY <1>1, <1>2

(* The rule that decides asks for whatever it keeps.                         *)
Asks(k, log, wanted) ==
  k \in DOMAIN bodyRules /\ BodyAuditRuleMatches(bodyRules[k], log) /\ wanted

LEMMA ApplyFacts ==
  ASSUME RulesInv, nextID \in Nat, NEW log \in AccessLog, log.id = nextID
  PROVE  LET entry == ApplyBodyAuditRule(log) IN
         /\ entry \in AccessLog
         /\ entry.id = log.id /\ entry.at = log.at /\ entry.app = log.app /\ entry.method = log.method
         /\ EntryOK(entry)
         /\ entry.request.present => \E k : Asks(k, log, bodyRules[k].request)
         /\ entry.response.present => \E k : Asks(k, log, bodyRules[k].response)
<1> DEFINE entry == ApplyBodyAuditRule(log)
<1>1. CASE Matching(log) = {}
  <2>1. entry = [log EXCEPT !.request = NoBody, !.response = NoBody]
    BY <1>1 DEF ApplyBodyAuditRule
  <2>2. NoBody \in Body /\ ~NoBody.present
    BY DEF NoBody, Body
  <2> HIDE DEF entry
  <2>3. /\ entry \in AccessLog
        /\ entry.id = log.id /\ entry.at = log.at /\ entry.app = log.app /\ entry.method = log.method
        /\ entry.request = NoBody /\ entry.response = NoBody
    BY <2>1, <2>2 DEF AccessLog
  <2> QED BY <2>2, <2>3 DEF entry, EntryOK, SideOK
<1>2. CASE Matching(log) # {}
  <2> DEFINE k        == Min(Matching(log))
             rule     == bodyRules[k]
             request  == Kept(rule.request, log.request, rule)
             response == Kept(rule.response, log.response, rule)
  <2>1. k \in Matching(log)
    <3>1. Matching(log) \subseteq Nat
      BY DEF Matching, RulesInv
    <3>2. \E x \in Matching(log) : \A y \in Matching(log) : x <= y
      BY <1>2, <3>1, LeastExists
    <3> QED BY <3>2 DEF Min
  <2>2. entry = [log EXCEPT !.rule = k, !.request = request, !.response = response,
                            !.hasRequest = request.present, !.hasResponse = response.present]
    BY <1>2 DEF ApplyBodyAuditRule
  <2> HIDE DEF entry, k
  <2>3. k \in DOMAIN bodyRules /\ BodyAuditRuleMatches(rule, log)
    BY <2>1 DEF Matching
  <2>4. RuleOK(rule) /\ k \in 1..(nextID - 1)
    BY <2>3 DEF RulesInv
  <2> HIDE DEF rule
  <2>5. /\ rule.request \in BOOLEAN /\ rule.response \in BOOLEAN
        /\ log.request \in Body /\ log.response \in Body
    BY <2>4 DEF RuleOK, AccessLog
  <2>6. /\ request \in Body /\ (request.present => rule.request)
        /\ \A n \in DOMAIN request.text : request.text[n] \notin {"k", "b"}
    BY <2>4, <2>5, KeptFacts
  <2>7. /\ response \in Body /\ (response.present => rule.response)
        /\ \A n \in DOMAIN response.text : response.text[n] \notin {"k", "b"}
    BY <2>4, <2>5, KeptFacts
  <2> HIDE DEF request, response
  <2>8. request.present \in BOOLEAN /\ response.present \in BOOLEAN
    BY <2>6, <2>7 DEF Body
  <2>9. /\ entry \in AccessLog
        /\ entry.id = log.id /\ entry.at = log.at /\ entry.app = log.app /\ entry.method = log.method
        /\ entry.request = request /\ entry.response = response /\ entry.rule = k
        /\ entry.hasRequest = request.present /\ entry.hasResponse = response.present
    <3>1. k \in Nat
      BY <2>4
    <3> QED BY <2>2, <2>6, <2>7, <2>8, <3>1 DEF AccessLog
  <2>10. EntryOK(entry)
    BY <2>4, <2>6, <2>7, <2>9 DEF EntryOK, SideOK
  <2>11. /\ request.present => Asks(k, log, bodyRules[k].request)
         /\ response.present => Asks(k, log, bodyRules[k].response)
    BY <2>3, <2>6, <2>7 DEF Asks, rule
  <2> QED BY <2>9, <2>10, <2>11 DEF entry
<1> QED BY <1>1, <1>2

(* A report as the store stamps it, and its entry.                           *)
Stamped(report) ==
  [report EXCEPT !.id = nextID, !.at = now,
                 !.app = IF @ = 0 THEN AppIDForDomain(report.domain) ELSE @]

LEMMA StampedFacts ==
  ASSUME TypeOK, NEW report \in Reports
  PROVE  /\ Stamped(report) \in AccessLog
         /\ Stamped(report).id = nextID /\ Stamped(report).at = now
<1> DEFINE app == IF report.app = 0 THEN AppIDForDomain(report.domain) ELSE report.app
<1>1. report \in AccessLog
  BY AuditAssumption
<1>2. nextID \in Nat /\ now \in Nat
  BY DEF TypeOK
<1>3. AppIDForDomain(report.domain) \in Nat
  BY DEF AppIDForDomain, TypeOK
<1>4. app \in Nat
  BY <1>1, <1>3 DEF AccessLog
<1>5. Stamped(report) = [report EXCEPT !.id = nextID, !.at = now, !.app = app]
  BY DEF Stamped
<1> HIDE DEF app
<1> QED BY <1>1, <1>2, <1>4, <1>5 DEF AccessLog

LEMMA LogStep ==
  ASSUME TypeOK, RulesInv, LogsInv, NEW report \in Reports, AccessAudit(report)
  PROVE  /\ Onward /\ LogsInv' /\ UNCHANGED <<apiVars, bodyRules, shown>>
         /\ accessLogs' = Append(accessLogs, ApplyBodyAuditRule(Stamped(report)))
<1> DEFINE entry == ApplyBodyAuditRule(Stamped(report))
           n     == Len(accessLogs)
<1>0. nextID \in Nat /\ now \in Nat
  BY DEF TypeOK
<1>1. /\ accessLogs' = Append(accessLogs, entry) /\ TakeID
      /\ UNCHANGED <<directory, logins, now, checks, apiVars, bodyRules, shown>>
  BY DEF AccessAudit, AddAccessLog, Stamped
<1>2. Onward /\ nextID' = nextID + 1 /\ now' = now
  BY <1>0, <1>1, TakeIDType DEF Onward
<1>3. entry \in AccessLog /\ entry.id = nextID /\ entry.at = now /\ EntryOK(entry)
  BY <1>0, StampedFacts, ApplyFacts
<1> HIDE DEF entry
<1>4. accessLogs \in Seq(AccessLog)
  BY DEF LogsInv
<1>5. accessLogs' \in Seq(AccessLog) /\ n \in Nat /\ DOMAIN accessLogs = 1..n
  BY <1>1, <1>3, <1>4
<1>6. /\ DOMAIN accessLogs' = 1..(n + 1) /\ accessLogs'[n + 1] = entry
      /\ \A i \in 1..n : accessLogs'[i] = accessLogs[i]
  BY <1>1, <1>4
<1> HIDE DEF n
<1>7. \A i \in 1..n : /\ EntryOK(accessLogs[i])
                      /\ accessLogs[i].id \in Nat /\ accessLogs[i].at \in Nat
                      /\ accessLogs[i].id < nextID /\ accessLogs[i].at <= now
                      /\ \A j \in 1..(i - 1) : accessLogs[j].id < accessLogs[i].id
  BY <1>5, EntryType DEF LogsInv
<1>8. ASSUME NEW i \in 1..(n + 1)
      PROVE  /\ EntryOK(accessLogs'[i])
             /\ accessLogs'[i].id < nextID' /\ accessLogs'[i].at <= now'
             /\ \A j \in 1..(i - 1) : accessLogs'[j].id < accessLogs'[i].id
  <2>1. CASE i = n + 1
    <3>1. accessLogs'[i] = entry
      BY <1>6, <2>1
    <3>2. \A j \in 1..(i - 1) : accessLogs'[j] = accessLogs[j] /\ accessLogs[j].id < nextID
      BY <1>5, <1>6, <1>7, <2>1
    <3>3. \A j \in 1..(i - 1) : accessLogs'[j].id < entry.id
      BY <1>3, <3>2
    <3>4. entry.id < nextID' /\ entry.at <= now'
      BY <1>0, <1>2, <1>3
    <3> QED BY <1>3, <3>1, <3>3, <3>4
  <2>2. CASE i # n + 1
    <3>1. i \in 1..n /\ \A j \in 1..(i - 1) : j \in 1..n
      BY <1>5, <2>2
    <3>2. accessLogs'[i] = accessLogs[i] /\ \A j \in 1..(i - 1) : accessLogs'[j] = accessLogs[j]
      BY <1>6, <3>1
    <3>3. accessLogs[i].id < nextID' /\ accessLogs[i].at <= now'
      <4>1. /\ accessLogs[i].id \in Nat /\ accessLogs[i].at \in Nat
            /\ accessLogs[i].id < nextID /\ accessLogs[i].at <= now
        BY <1>7, <3>1
      <4> QED BY <1>0, <1>2, <4>1
    <3>4. EntryOK(accessLogs[i]) /\ \A j \in 1..(i - 1) : accessLogs[j].id < accessLogs[i].id
      BY <1>7, <3>1
    <3> QED BY <3>2, <3>3, <3>4
  <2> QED BY <2>1, <2>2
<1>9. LogsInv'
  BY <1>5, <1>6, <1>8 DEF LogsInv, EntryOK, SideOK
<1> QED BY <1>1, <1>2, <1>9 DEF entry

LEMMA ReportStep ==
  ASSUME TypeOK, ViewsInv, NEW entry \in AdminReports, AdminAudit(entry)
  PROVE  Onward /\ ViewsInv' /\ UNCHANGED <<reqs, bodyRules, accessLogs>>
<1> DEFINE row == [id |-> nextID, entry |-> entry]
<1>0. nextID \in Nat /\ now \in Nat
  BY DEF TypeOK
<1>1. /\ adminLogs' = Append(adminLogs, row) /\ TakeID
      /\ UNCHANGED <<directory, logins, now, checks, reqs, bodyRules, accessLogs, shown>>
  BY DEF AdminAudit, trailVars
<1>2. Onward
  BY <1>0, <1>1, TakeIDType DEF Onward
<1>3. row \in LogRow
  BY <1>0 DEF LogRow
<1> HIDE DEF row
<1>4. adminLogs' \in Seq(LogRow)
  BY <1>1, <1>3 DEF ViewsInv
<1>5. ASSUME NEW view \in View PROVE Count(view, shown) <= Rows(adminLogs', EntryFor(view))
  <2>1. Count(view, shown) \in Nat
    BY CountAppend DEF ViewsInv
  <2>2. /\ Rows(adminLogs, EntryFor(view)) \in Nat
        /\ \/ Rows(adminLogs', EntryFor(view)) = Rows(adminLogs, EntryFor(view))
           \/ Rows(adminLogs', EntryFor(view)) = Rows(adminLogs, EntryFor(view)) + 1
    BY <1>1, <1>3, RowsAppend DEF ViewsInv
  <2>3. Count(view, shown) <= Rows(adminLogs, EntryFor(view))
    BY DEF ViewsInv
  <2> QED BY <2>1, <2>2, <2>3
<1> QED BY <1>1, <1>2, <1>4, <1>5 DEF ViewsInv

----------------------------------------------------------------------------
(* All of it.                                                               *)

TrailInv == TypeOK /\ RequestsInv /\ RulesInv /\ LogsInv /\ ViewsInv

LEMMA TrailInit == AuditInit => TrailInv
<1> SUFFICES ASSUME AuditInit PROVE TrailInv
  OBVIOUS
<1>1. TypeOK
  BY InitType DEF AuditInit, ApiInit
<1>2. RequestsInv
  BY DEF AuditInit, ApiInit, RequestsInv, Request, AdminEntry, NoEntry, Objects, Actions
<1>3. RulesInv /\ LogsInv
  BY DEF AuditInit, NoEntries, RulesInv, LogsInv
<1>4. ViewsInv
  <2>1. \A e : Count(e, shown) = 0 /\ Rows(adminLogs, e) = 0
    <3>1. shown = <<>> /\ adminLogs = <<>>
      BY DEF AuditInit, ApiInit
    <3> QED BY <3>1, FS_EmptySet DEF Count, Rows
  <2> QED BY <2>1 DEF AuditInit, ApiInit, ViewsInv
<1> QED BY <1>1, <1>2, <1>3, <1>4 DEF TrailInv

LEMMA ViewsFrame ==
  ASSUME ViewsInv, shown' = shown, adminLogs' = adminLogs
  PROVE  ViewsInv'
BY DEF ViewsInv

LEMMA TrailStep ==
  ASSUME TrailInv, [AuditNext]_auditVars
  PROVE  TrailInv'
<1>1. CASE Elsewhere
  BY <1>1, ElsewhereFacts, RulesFrame, LogsFrame, ViewsFrame DEF TrailInv, trailVars, Onward
<1>2. ASSUME NEW r \in Requests, RuleRequest(r) PROVE TrailInv'
  BY <1>2, RuleStep, LogsFrame, ViewsFrame DEF TrailInv, Onward
<1>3. ASSUME NEW r \in Requests, ViewRequest(r) PROVE TrailInv'
  BY <1>3, ViewStep, RulesFrame, LogsFrame, ViewsFrame DEF TrailInv, Onward
<1>4. ASSUME NEW r \in Requests, Finish(r) PROVE TrailInv'
  BY <1>4, FinishStep, RulesFrame, LogsFrame DEF TrailInv, Onward
<1>5. ASSUME NEW report \in Reports, AccessAudit(report) PROVE TrailInv'
  <2>1. RequestsInv'
    BY <1>5, LogStep DEF TrailInv, RequestsInv, apiVars
  <2>2. adminLogs' = adminLogs
    BY <1>5, LogStep DEF TrailInv, apiVars
  <2> QED BY <1>5, <2>1, <2>2, LogStep, RulesFrame, ViewsFrame DEF TrailInv, Onward
<1>6. ASSUME NEW entry \in AdminReports, AdminAudit(entry) PROVE TrailInv'
  <2>1. RequestsInv'
    BY <1>6, ReportStep DEF TrailInv, RequestsInv
  <2> QED BY <1>6, <2>1, ReportStep, RulesFrame, LogsFrame DEF TrailInv, Onward
<1> QED BY <1>1, <1>2, <1>3, <1>4, <1>5, <1>6 DEF AuditNext, Elsewhere

LEMMA TrailAlways == AuditSpec => []TrailInv
<1>1. TrailInv /\ [AuditNext]_auditVars => TrailInv'
  BY TrailStep
<1> QED BY <1>1, TrailInit, PTL DEF AuditSpec

(* The access log is in order under ids of its own, every rule in its normal  *)
(* form, and every body stored is flagged, harmless and kept by an older rule.*)
THEOREM TrailAlwaysOK == AuditSpec => []TrailOK
<1>1. ASSUME TrailInv PROVE TrailOK
  <2>1. ASSUME NEW k \in DOMAIN bodyRules
        PROVE  /\ k < nextID
               /\ bodyRules[k].match # "" /\ bodyRules[k].maxBytes > 0
               /\ bodyRules[k].request \/ bodyRules[k].response
    <3>1. k \in 1..(nextID - 1) /\ RuleOK(bodyRules[k]) /\ nextID \in Nat
      BY <1>1 DEF TrailInv, RulesInv, TypeOK
    <3>2. k < nextID
      BY <3>1
    <3>3. bodyRules[k].maxBytes > 0
      <4>1. bodyRules[k].maxBytes \in Nat \ {0}
        BY <3>1, Zenon DEF RuleOK
      <4> QED BY <4>1
    <3>4. bodyRules[k].match # "" /\ (bodyRules[k].request \/ bodyRules[k].response)
      BY <3>1, Zenon DEF RuleOK
    <3> QED BY <3>2, <3>3, <3>4
  <2>2. ASSUME NEW i \in DOMAIN accessLogs
        PROVE  /\ EntryOK(accessLogs[i])
               /\ accessLogs[i].id < nextID /\ accessLogs[i].at <= now
               /\ \A j \in 1..(i - 1) : accessLogs[j].id < accessLogs[i].id
    BY <1>1 DEF TrailInv, LogsInv
  <2> QED BY <2>1, <2>2 DEF TrailOK, EntryOK, SideOK
<1> QED BY <1>1, TrailAlways, PTL

(* Each time an administrator was sent a body, the administration log has an  *)
(* entry that says so.                                                      *)
THEOREM ViewsAlwaysAudited == AuditSpec => []ViewsAudited
<1>1. ASSUME TrailInv PROVE ViewsAudited
  <2>1. ASSUME NEW i \in DOMAIN shown
        PROVE  Cardinality({j \in DOMAIN shown : shown[j] = shown[i]}) <=
               Cardinality({j \in DOMAIN adminLogs :
                 Logged(j) = [admin |-> shown[i].admin, object |-> "access_log",
                              objectID |-> shown[i].log, action |-> "view_body"]})
    <3>1. shown[i] \in View
      BY <1>1 DEF TrailInv, ViewsInv
    <3>2. Count(shown[i], shown) <= Rows(adminLogs, EntryFor(shown[i]))
      BY <1>1, <3>1 DEF TrailInv, ViewsInv
    <3> QED BY <3>2 DEF Count, Rows, EntryFor, Logged
  <2> QED BY <2>1 DEF ViewsAudited
<1> QED BY <1>1, TrailAlways, PTL

----------------------------------------------------------------------------
(* Bodies enter by rule.                                                    *)

Wants(log, k, asked) ==
  /\ bodyRules[k].enabled /\ asked
  /\ bodyRules[k].app \in {0, log.app}
  /\ bodyRules[k].methods = {} \/ Upper[log.method] \in bodyRules[k].methods

LEMMA AsksWants ==
  ASSUME RulesInv, NEW log, NEW k, NEW asked, Asks(k, log, asked)
  PROVE  k \in DOMAIN bodyRules /\ Wants(log, k, asked)
<1>1. k \in DOMAIN bodyRules /\ asked /\ BodyAuditRuleMatches(bodyRules[k], log)
  BY DEF Asks
<1>2. bodyRules[k].app \in Nat
  BY <1>1 DEF RulesInv, RuleOK
<1>3. bodyRules[k].app > 0 => bodyRules[k].app = log.app
  BY <1>1 DEF BodyAuditRuleMatches
<1>4. bodyRules[k].app \in {0, log.app}
  BY <1>2, <1>3
<1>5. /\ bodyRules[k].enabled
      /\ bodyRules[k].methods = {} \/ Upper[log.method] \in bodyRules[k].methods
  BY <1>1 DEF BodyAuditRuleMatches
<1> QED BY <1>1, <1>4, <1>5 DEF Wants

(* A body enters the access log only while an enabled rule asks for that side *)
(* of that request, whatever the rules were before.                          *)
THEOREM BodiesAlwaysByRule == AuditSpec => BodiesOnlyByRule
<1> DEFINE Entered == Len(accessLogs') > Len(accessLogs) =>
      LET log == Last(accessLogs')
          Asked(side) == \E k \in DOMAIN bodyRules :
            /\ bodyRules[k].enabled /\ bodyRules[k][side]
            /\ bodyRules[k].app \in {0, log.app}
            /\ bodyRules[k].methods = {} \/ Upper[log.method] \in bodyRules[k].methods
      IN  /\ log.request.present => Asked("request")
          /\ log.response.present => Asked("response")
<1>1. ASSUME TrailInv, [AuditNext]_auditVars PROVE Entered
  <2>0. Len(accessLogs) \in Nat
    BY <1>1 DEF TrailInv, LogsInv
  <2>1. CASE accessLogs' = accessLogs
    BY <2>0, <2>1
  <2>2. ASSUME NEW report \in Reports, AccessAudit(report) PROVE Entered
    <3> DEFINE log == ApplyBodyAuditRule(Stamped(report))
    <3>1. accessLogs' = Append(accessLogs, log)
      BY <1>1, <2>2, LogStep DEF TrailInv
    <3>2. Stamped(report) \in AccessLog /\ Stamped(report).id = nextID /\ nextID \in Nat
      BY <1>1, StampedFacts DEF TrailInv, TypeOK
    <3>3. /\ log.app = Stamped(report).app /\ log.method = Stamped(report).method
          /\ log.request.present => \E k : Asks(k, Stamped(report), bodyRules[k].request)
          /\ log.response.present => \E k : Asks(k, Stamped(report), bodyRules[k].response)
          /\ log \in AccessLog
      BY <1>1, <3>2, ApplyFacts DEF TrailInv
    <3> HIDE DEF log
    <3>4. Last(accessLogs') = log
      BY <1>1, <3>1, <3>3 DEF TrailInv, LogsInv, Last
    <3>5. log.request.present => \E k \in DOMAIN bodyRules : Wants(log, k, bodyRules[k]["request"])
      BY <1>1, <3>3, AsksWants DEF Wants, TrailInv
    <3>6. log.response.present => \E k \in DOMAIN bodyRules : Wants(log, k, bodyRules[k]["response"])
      BY <1>1, <3>3, AsksWants DEF Wants, TrailInv
    <3> QED BY <3>4, <3>5, <3>6 DEF Wants
  <2>3. ASSUME NEW r \in Requests, RuleRequest(r) \/ ViewRequest(r) \/ Finish(r)
        PROVE  accessLogs' = accessLogs
    BY <2>3, <1>1 DEF RuleRequest, ViewRequest, Finish
  <2>4. ASSUME NEW entry \in AdminReports, AdminAudit(entry) PROVE accessLogs' = accessLogs
    BY <2>4 DEF AdminAudit, trailVars
  <2>5. Elsewhere => accessLogs' = accessLogs
    BY DEF Elsewhere, auditVars, trailVars
  <2> HIDE DEF Entered
  <2> QED BY <1>1, <2>1, <2>2, <2>3, <2>4, <2>5 DEF AuditNext, Elsewhere
<1>2. TrailInv /\ [AuditNext]_auditVars => [Entered]_auditVars
  BY <1>1
<1> QED BY <1>2, TrailAlways, PTL DEF AuditSpec, BodiesOnlyByRule

----------------------------------------------------------------------------
(* Listings.                                                                *)

(* No two entries have one id.                                              *)
LEMMA IdsApart ==
  ASSUME LogsInv, NEW i \in DOMAIN accessLogs, NEW j \in DOMAIN accessLogs,
         accessLogs[i].id = accessLogs[j].id
  PROVE  i = j
<1>1. i \in Nat /\ j \in Nat
  BY DEF LogsInv
<1>2. accessLogs[i].id \in Nat /\ accessLogs[j].id \in Nat
  BY EntryType
<1>3. i \in 1..(j - 1) => accessLogs[i].id < accessLogs[j].id
  BY DEF LogsInv
<1>4. j \in 1..(i - 1) => accessLogs[j].id < accessLogs[i].id
  BY DEF LogsInv
<1>5. ~(i \in 1..(j - 1)) /\ ~(j \in 1..(i - 1))
  BY <1>2, <1>3, <1>4
<1>6. i \in 1..Len(accessLogs) /\ j \in 1..Len(accessLogs)
  BY DEF LogsInv
<1> QED BY <1>1, <1>5, <1>6

LEMMA EffectiveType ==
  ASSUME NEW limit \in Int
  PROVE  Effective(limit) \in Nat \ {0}
BY AuditAssumption DEF Effective

(* A listing leaves out the first d of the items.                            *)
LeavesOut(d, items, limit) ==
  /\ d \in 0..Len(items)
  /\ d # 0 => Len(items) - d = Effective(limit)
  /\ Len(Latest(items, limit)) = Len(items) - d
  /\ DOMAIN Latest(items, limit) = 1..(Len(items) - d)
  /\ \A j \in 1..(Len(items) - d) : Latest(items, limit)[j] = items[d + j]

LEMMA LatestFacts ==
  ASSUME NEW items, items \in Seq(Items(items)), NEW limit \in Int
  PROVE  \E d : LeavesOut(d, items, limit)
<1> DEFINE size == Effective(limit)
           c    == Len(items)
           d    == Max({0, c - size})
           out  == SubSeq(items, d + 1, c)
           V    == Items(items)
<1>1. size \in Nat \ {0} /\ c \in Nat
  BY EffectiveType
<1>2. out = Latest(items, limit)
  BY DEF Latest
<1>3. \A i \in 1..c : items[i] \in V
  BY DEF Items
<1> HIDE DEF size, c, V
<1>4. d = IF c <= size THEN 0 ELSE c - size
  BY <1>1 DEF Max
<1>5. d \in 0..c /\ (d # 0 => c - d = size)
  BY <1>1, <1>4
<1> HIDE DEF d
<1>6. \A i \in (d + 1)..c : items[i] \in V
  BY <1>1, <1>3, <1>5
<1>7. /\ out \in Seq(V) /\ Len(out) = (IF d + 1 <= c THEN c - (d + 1) + 1 ELSE 0)
      /\ \A j \in 1..(c - (d + 1) + 1) : out[j] = items[(d + 1) + j - 1]
  BY <1>1, <1>5, <1>6, SubSeqProperties
<1> HIDE DEF out
<1>8. Len(out) = c - d
  BY <1>1, <1>5, <1>7
<1>9. DOMAIN out = 1..(c - d)
  BY <1>7, <1>8
<1>10. ASSUME NEW j \in 1..(c - d) PROVE out[j] = items[d + j]
  <2>1. j \in 1..(c - (d + 1) + 1) /\ (d + 1) + j - 1 = d + j
    BY <1>1, <1>5
  <2> QED BY <1>7, <2>1
<1>11. LeavesOut(d, items, limit)
  BY <1>2, <1>5, <1>8, <1>9, <1>10 DEF LeavesOut, size, c
<1> QED BY <1>11

LEMMA StrippedFacts ==
  ASSUME NEW S \in SUBSET Nat, IsFiniteSet(S)
  PROVE  /\ Cardinality(S) \in Nat /\ Len(Stripped(S)) = Cardinality(S)
         /\ Stripped(S) \in Seq(Items(Stripped(S)))
         /\ \A m \in 1..Cardinality(S) : Stripped(S)[m] = StripBodies(accessLogs[InOrder(S)[m]])
<1> DEFINE c == Cardinality(S)
           st == Stripped(S)
<1>1. c \in Nat
  BY FS_CardinalityType
<1>2. DOMAIN st = 1..c /\ \A m \in 1..c : st[m] = StripBodies(accessLogs[InOrder(S)[m]])
  BY DEF Stripped
<1>3. st = [m \in 1..c |-> st[m]]
  BY <1>2 DEF Stripped
<1> HIDE DEF st, c
<1>4. \A m \in 1..c : st[m] \in Items(st)
  BY <1>2 DEF Items
<1>5. st \in [1..c -> Items(st)]
  BY <1>3, <1>4
<1>6. st \in Seq(Items(st))
  BY <1>1, <1>5, SeqDef
<1>7. Len(st) = c
  <2>1. Len(st) \in Nat /\ 1..Len(st) = 1..c
    BY <1>2, <1>6, LenProperties
  <2> QED BY <1>1, <2>1
<1> QED BY <1>1, <1>2, <1>6, <1>7 DEF st, c

ListingOK(filter, limit) ==
  LET out     == ListAccessLogs(filter, limit)
      ids     == {out[j].id : j \in DOMAIN out}
      matches == Selected(filter)
      listed  == {i \in matches : accessLogs[i].id \in ids}
  IN  /\ Len(out) = Cardinality(listed)
      /\ matches # listed => Len(out) = Effective(limit)
      /\ \A i \in matches \ listed, j \in listed : i < j
      /\ \A j \in DOMAIN out : ~out[j].request.present /\ ~out[j].response.present

(* Of the entries selected, the listing gives the last ones in order.        *)
LEMMA ListingFacts ==
  ASSUME LogsInv, NEW filter, NEW limit \in Int
  PROVE  ListingOK(filter, limit)
<1> DEFINE out     == ListAccessLogs(filter, limit)
           matches == Selected(filter)
           ids     == {out[j].id : j \in DOMAIN out}
           listed  == {i \in matches : accessLogs[i].id \in ids}
           c       == Cardinality(matches)
           order   == InOrder(matches)
<1>1. matches \subseteq 1..Len(accessLogs) /\ Len(accessLogs) \in Nat /\ DOMAIN accessLogs = 1..Len(accessLogs)
  BY DEF Selected, LogsInv
<1>2. matches \in SUBSET Nat /\ IsFiniteSet(matches)
  <2>1. IsFiniteSet(1..Len(accessLogs))
    BY <1>1, FS_Interval
  <2>2. \A i \in 1..Len(accessLogs) : i \in Nat
    OBVIOUS
  <2> HIDE DEF matches
  <2> QED BY <1>1, <2>1, <2>2, FS_Subset
<1>3. c \in Nat /\ DOMAIN order = 1..c /\ Items(order) = matches /\ Ascends(order)
  BY <1>2, InOrderFacts, FS_CardinalityType DEF InOrder
<1>4. PICK d \in 0..c :
        /\ d # 0 => c - d = Effective(limit)
        /\ Len(out) = c - d /\ DOMAIN out = 1..(c - d)
        /\ \A j \in 1..(c - d) : out[j] = Stripped(matches)[d + j]
  <2> DEFINE items == Stripped(matches)
  <2>1. Len(items) = c /\ items \in Seq(Items(items))
    BY <1>2, StrippedFacts
  <2>2. out = Latest(items, limit)
    BY DEF ListAccessLogs
  <2> HIDE DEF out, items, c, matches
  <2>3. PICK d : LeavesOut(d, items, limit)
    BY <2>1, LatestFacts
  <2> QED BY <2>1, <2>2, <2>3 DEF LeavesOut, items
<1>5. \A m \in 1..c : Stripped(matches)[m] = StripBodies(accessLogs[order[m]])
  BY <1>2, StrippedFacts
<1> HIDE DEF out, matches, order, c
<1>6. \A m \in 1..c : order[m] \in matches /\ order[m] \in DOMAIN accessLogs
  BY <1>1, <1>3 DEF Items
<1>7. \A i \in matches : \E m \in 1..c : order[m] = i
  BY <1>3 DEF Items
<1>8. ASSUME NEW j \in 1..(c - d)
      PROVE  /\ d + j \in 1..c
             /\ out[j].id = accessLogs[order[d + j]].id
             /\ ~out[j].request.present /\ ~out[j].response.present
  <2>1. d + j \in 1..c
    BY <1>3, <1>4
  <2>2. out[j] = StripBodies(accessLogs[order[d + j]]) /\ accessLogs[order[d + j]] \in AccessLog
    BY <1>4, <1>5, <1>6, <2>1, EntryType
  <2>3. ~NoBody.present
    BY DEF NoBody
  <2> QED BY <2>1, <2>2, <2>3 DEF StripBodies, AccessLog
<1>9. ASSUME NEW m \in 1..c PROVE order[m] \in listed <=> m > d
  <2>1. CASE m > d
    <3>1. m - d \in 1..(c - d) /\ d + (m - d) = m
      BY <1>3, <1>4, <2>1
    <3>2. out[m - d].id = accessLogs[order[m]].id
      BY <1>8, <3>1
    <3>3. accessLogs[order[m]].id \in ids
      BY <1>4, <3>1, <3>2
    <3> QED BY <1>6, <2>1, <3>3
  <2>2. ASSUME order[m] \in listed PROVE m > d
    <3>1. PICK j \in 1..(c - d) : accessLogs[order[m]].id = out[j].id
      BY <1>4, <2>2
    <3>2. accessLogs[order[m]].id = accessLogs[order[d + j]].id /\ d + j \in 1..c
      BY <1>8, <3>1
    <3>3. order[m] = order[d + j]
      BY <1>6, <3>2, IdsApart
    <3>4. m = d + j
      <4>1. m < d + j => order[m] < order[d + j]
        BY <1>3, <3>2 DEF Ascends
      <4>2. d + j < m => order[d + j] < order[m]
        BY <1>3, <3>2 DEF Ascends
      <4>3. order[m] \in Nat
        BY <1>2, <1>6
      <4>4. m \in Nat /\ d + j \in Nat
        BY <1>3, <3>2
      <4> QED BY <3>3, <4>1, <4>2, <4>3, <4>4
    <3> QED BY <1>3, <1>4, <3>4
  <2> QED BY <1>3, <1>4, <2>1, <2>2
<1> HIDE DEF ids, listed
<1>10. listed \subseteq matches
  BY DEF listed
<1>11. Len(out) = Cardinality(listed)
  <2> DEFINE N == 1..(c - d)
             f == [j \in N |-> order[d + j]]
  <2>1. c - d \in Nat
    BY <1>3, <1>4
  <2>2. ASSUME NEW j \in N PROVE d + j \in 1..c /\ f[j] = order[d + j] /\ f[j] \in listed
    <3>1. d + j \in 1..c /\ d + j > d
      BY <1>3, <1>4
    <3> QED BY <1>9, <3>1
  <2>3. ASSUME NEW j \in N, NEW k \in N, f[j] = f[k] PROVE j = k
    <3>1. order[d + j] = order[d + k] /\ d + j \in 1..c /\ d + k \in 1..c
      BY <2>2, <2>3
    <3>2. order[d + j] \in Nat
      BY <1>2, <1>6, <3>1
    <3>3. ~(d + j < d + k) /\ ~(d + k < d + j)
      BY <1>3, <3>1, <3>2 DEF Ascends
    <3> QED BY <1>3, <1>4, <3>3
  <2>4. ASSUME NEW i \in listed PROVE \E j \in N : f[j] = i
    <3>1. PICK m \in 1..c : order[m] = i
      BY <1>7, <1>10
    <3>2. m > d
      BY <1>9, <3>1
    <3>3. m - d \in N /\ d + (m - d) = m
      BY <1>3, <1>4, <3>2
    <3>4. f[m - d] = order[m]
      BY <3>3
    <3> QED BY <3>1, <3>3, <3>4
  <2>5. f \in [N -> listed]
    BY <2>2
  <2> HIDE DEF f
  <2>6. Cardinality(listed) = c - d
    BY <2>1, <2>3, <2>4, <2>5, ListedOnce
  <2> QED BY <1>4, <2>6
<1>12. matches # listed => Len(out) = Effective(limit)
  <2> SUFFICES ASSUME d = 0 PROVE matches = listed
    BY <1>4
  <2>1. \A m \in 1..c : m > d
    BY <1>3, <1>4
  <2> QED BY <1>7, <1>9, <1>10, <2>1
<1>13. \A i \in matches \ listed, j \in listed : i < j
  <2> SUFFICES ASSUME NEW i \in matches \ listed, NEW j \in listed PROVE i < j
    OBVIOUS
  <2>1. PICK m \in 1..c : order[m] = i
    BY <1>7
  <2>2. PICK k \in 1..c : order[k] = j
    BY <1>7, <1>10
  <2>3. ~(m > d) /\ k > d
    BY <1>9, <2>1, <2>2
  <2>4. m < k
    BY <1>3, <1>4, <2>3
  <2> QED BY <1>3, <2>1, <2>2, <2>4 DEF Ascends
<1>14. \A j \in DOMAIN out : ~out[j].request.present /\ ~out[j].response.present
  BY <1>4, <1>8
<1> QED BY <1>11, <1>12, <1>13, <1>14, Zenon DEF ListingOK, out, matches, ids, listed

(* A listing gives the latest entries that match and no other, as many as the *)
(* limit allows, and never a body.                                          *)
THEOREM ListingsAlwaysExact == AuditSpec => []ListingsExact
<1>1. ASSUME TrailInv PROVE ListingsExact
  <2>1. \A limit \in {0, MaxLimit, MaxLimit + 1} : limit \in Int
    BY AuditAssumption
  <2>2. \A filter \in Filters, limit \in {0, MaxLimit, MaxLimit + 1} : ListingOK(filter, limit)
    BY <1>1, <2>1, ListingFacts DEF TrailInv
  <2> QED BY <2>2, Zenon DEF ListingsExact, ListingOK
<1> QED BY <1>1, TrailAlways, PTL
=============================================================================

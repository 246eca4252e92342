--------------------------- MODULE AdminApiProofs ---------------------------
(***************************************************************************)
(* Proofs about AdminApi, for every value of its constants: any number of  *)
(* requests under way, over any names, hosts, groups and policies.         *)
(***************************************************************************)
EXTENDS AdminApi, MemoryStoreProofs, SequenceTheorems

allVars == <<vars, apiVars>>

Request == [phase : {"idle", "execute", "audit"}, admin : Nat, entry : AdminEntry]

(* The store and the requests are well formed.                             *)
ApiTypeOK ==
  /\ TypeOK
  /\ reqs \in [Requests -> Request]
  /\ adminLogs \in Seq([id : Nat, entry : AdminEntry])
  /\ performed \in Seq(AdminEntry)

----------------------------------------------------------------------------
(* What an operation does to the directory, by the entry it is logged with. *)

After(kind, ids, object, id, action) ==
  IF kind # object THEN ids
  ELSE IF action = "create" THEN ids \cup {id}
  ELSE IF action = "delete" THEN ids \ {id}
  ELSE ids

Effect(object, id, action) ==
  /\ DOMAIN users' = After("user", DOMAIN users, object, id, action)
  /\ DOMAIN groups' = After("group", DOMAIN groups, object, id, action)
  /\ DOMAIN apps' = After("app", DOMAIN apps, object, id, action)
  /\ DOMAIN policies' \subseteq After("policy", DOMAIN policies, object, id, action)
  /\ IF action = "create" THEN id = nextID /\ nextID' = nextID + 1
     ELSE id \in 1..(nextID - 1) /\ nextID' = nextID

Done(r) ==
  \E object \in Objects, id \in Nat, action \in Actions :
    Performed(r, object, id, action) /\ Effect(object, id, action)

LEMMA UserRequestDone ==
  ASSUME TypeOK, NEW r \in Requests, UserRequest(r)
  PROVE  Done(r)
<1>1. ASSUME NEW name, NEW password, NEW admin,
             CreateUser(name, password, admin), Performed(r, "user", nextID, "create")
      PROVE  Done(r)
  <2>1. Effect("user", nextID, "create")
    BY <1>1 DEF CreateUser, TakeID, Put, Effect, After
  <2> QED BY <1>1, <2>1 DEF Done, Objects, Actions, TypeOK
<1>2. ASSUME NEW id \in DOMAIN users, NEW status, NEW admin, NEW password,
             UpdateUser(id, status, admin, password), Performed(r, "user", id, "update")
      PROVE  Done(r)
  <2>1. id \in 1..(nextID - 1)
    BY DEF TypeOK, Ids
  <2>2. Effect("user", id, "update")
    BY <1>2, <2>1 DEF UpdateUser, Effect, After
  <2> QED BY <1>2, <2>1, <2>2 DEF Done, Objects, Actions, TypeOK
<1>3. ASSUME NEW id \in DOMAIN users, DeleteUser(id), Performed(r, "user", id, "delete")
      PROVE  Done(r)
  <2>1. id \in 1..(nextID - 1)
    BY DEF TypeOK, Ids
  <2>2. Effect("user", id, "delete")
    BY <1>3, <2>1 DEF DeleteUser, Drop, Effect, After
  <2> QED BY <1>3, <2>1, <2>2 DEF Done, Objects, Actions, TypeOK
<1> QED BY <1>1, <1>2, <1>3 DEF UserRequest

LEMMA GroupRequestDone ==
  ASSUME TypeOK, NEW r \in Requests, GroupRequest(r)
  PROVE  Done(r)
<1>1. ASSUME NEW members, CreateGroup(members), Performed(r, "group", nextID, "create")
      PROVE  Done(r)
  <2>1. Effect("group", nextID, "create")
    BY <1>1 DEF CreateGroup, TakeID, Put, Effect, After
  <2> QED BY <1>1, <2>1 DEF Done, Objects, Actions, TypeOK
<1>2. ASSUME NEW id \in DOMAIN groups, NEW members,
             UpdateGroup(id, members), Performed(r, "group", id, "update")
      PROVE  Done(r)
  <2>1. id \in 1..(nextID - 1)
    BY DEF TypeOK, Ids
  <2>2. Effect("group", id, "update")
    BY <1>2, <2>1 DEF UpdateGroup, Effect, After
  <2> QED BY <1>2, <2>1, <2>2 DEF Done, Objects, Actions, TypeOK
<1>3. ASSUME NEW id \in DOMAIN groups, DeleteGroup(id), Performed(r, "group", id, "delete")
      PROVE  Done(r)
  <2>1. id \in 1..(nextID - 1)
    BY DEF TypeOK, Ids
  <2>2. Effect("group", id, "delete")
    BY <1>3, <2>1 DEF DeleteGroup, Drop, Effect, After
  <2> QED BY <1>3, <2>1, <2>2 DEF Done, Objects, Actions, TypeOK
<1> QED BY <1>1, <1>2, <1>3 DEF GroupRequest

LEMMA AppRequestDone ==
  ASSUME TypeOK, NEW r \in Requests, AppRequest(r)
  PROVE  Done(r)
<1>1. ASSUME NEW raw, NEW enabled, CreateApp(raw, enabled), Performed(r, "app", nextID, "create")
      PROVE  Done(r)
  <2>1. Effect("app", nextID, "create")
    BY <1>1 DEF CreateApp, TakeID, Put, Effect, After
  <2> QED BY <1>1, <2>1 DEF Done, Objects, Actions, TypeOK
<1>2. ASSUME NEW id \in DOMAIN apps, NEW raw, NEW enabled,
             UpdateApp(id, raw, enabled), Performed(r, "app", id, "update")
      PROVE  Done(r)
  <2>1. id \in 1..(nextID - 1)
    BY DEF TypeOK, Ids
  <2>2. Effect("app", id, "update")
    BY <1>2, <2>1 DEF UpdateApp, Effect, After
  <2> QED BY <1>2, <2>1, <2>2 DEF Done, Objects, Actions, TypeOK
<1>3. ASSUME NEW id \in DOMAIN apps, DeleteApp(id), Performed(r, "app", id, "delete")
      PROVE  Done(r)
  <2>1. id \in 1..(nextID - 1)
    BY DEF TypeOK, Ids
  <2>2. Effect("app", id, "delete")
    BY <1>3, <2>1 DEF DeleteApp, Drop, Effect, After
  <2> QED BY <1>3, <2>1, <2>2 DEF Done, Objects, Actions, TypeOK
<1> QED BY <1>1, <1>2, <1>3 DEF AppRequest

LEMMA PolicyRequestDone ==
  ASSUME TypeOK, NEW r \in Requests, PolicyRequest(r)
  PROVE  Done(r)
<1>1. ASSUME NEW form, CreatePolicy(form), Performed(r, "policy", nextID, "create")
      PROVE  Done(r)
  <2>1. Effect("policy", nextID, "create")
    BY <1>1 DEF CreatePolicy, TakeID, Put, Effect, After
  <2> QED BY <1>1, <2>1 DEF Done, Objects, Actions, TypeOK
<1>2. ASSUME NEW id \in DOMAIN policies, DeletePolicy(id), Performed(r, "policy", id, "delete")
      PROVE  Done(r)
  <2>1. id \in 1..(nextID - 1)
    BY DEF TypeOK, Ids
  <2>2. Effect("policy", id, "delete")
    BY <1>2, <2>1 DEF DeletePolicy, Drop, Effect, After
  <2> QED BY <1>2, <2>1, <2>2 DEF Done, Objects, Actions, TypeOK
<1> QED BY <1>1, <1>2 DEF PolicyRequest

LEMMA ExecuteDone ==
  ASSUME TypeOK, NEW r \in Requests, Execute(r)
  PROVE  Done(r)
BY UserRequestDone, GroupRequestDone, AppRequestDone, PolicyRequestDone DEF Execute

----------------------------------------------------------------------------
(* Types.                                                                  *)

LEMMA ExecuteType ==
  ASSUME TypeOK, NEW r \in Requests, Execute(r)
  PROVE  TypeOK'
<1>1. DirectoryNext
  BY DEF Execute, UserRequest, GroupRequest, AppRequest, PolicyRequest, DirectoryNext
<1> QED BY <1>1, NextType DEF Next

LEMMA AuditAdminType ==
  ASSUME TypeOK, NEW r \in Requests, AuditAdmin(r)
  PROVE  TypeOK'
<1>1. nextID' \in Nat \ {0} /\ nextID' = nextID + 1 /\ 1..(nextID - 1) \subseteq 1..(nextID' - 1)
  BY DEF AuditAdmin, TakeID, TypeOK
<1> QED BY <1>1 DEF TypeOK, AuditAdmin, Ids, directory, logins

LEMMA ApiInitType == ApiInit => ApiTypeOK
BY InitType DEF ApiInit, ApiTypeOK, Request, AdminEntry, NoEntry, Objects, Actions

(* The steps of ApiNext, with what each does to the requests and logs.      *)
LEMMA ApiStepType ==
  ASSUME ApiTypeOK, [ApiNext]_allVars
  PROVE  ApiTypeOK'
<1>1. CASE UNCHANGED allVars
  <2>1. TypeOK'
    BY <1>1, NextType DEF ApiTypeOK, allVars
  <2> QED BY <1>1, <2>1 DEF ApiTypeOK, allVars, apiVars
<1>2. ASSUME NEW r \in Requests, NEW t \in Tokens, RequireAdmin(r, t)
      PROVE  ApiTypeOK'
  <2>1. TypeOK'
    BY <1>2, UserBySessionType DEF ApiTypeOK, RequireAdmin
  <2>2. sessions[t].user \in Nat
    BY <1>2 DEF RequireAdmin, Authenticated, Live, ApiTypeOK, TypeOK, Session
  <2>3. NoEntry \in AdminEntry
    BY DEF NoEntry, AdminEntry, Objects, Actions
  <2>4. [phase |-> "execute", admin |-> sessions[t].user, entry |-> NoEntry] \in Request
    BY <2>2, <2>3 DEF Request
  <2>5. reqs' \in [Requests -> Request]
    BY <1>2, <2>4 DEF ApiTypeOK, RequireAdmin
  <2> QED BY <1>2, <2>1, <2>5 DEF ApiTypeOK, RequireAdmin
<1>3. ASSUME NEW r \in Requests, Execute(r)
      PROVE  ApiTypeOK'
  <2>1. TypeOK'
    BY <1>3, ExecuteType DEF ApiTypeOK
  <2>2. PICK object \in Objects, id \in Nat, action \in Actions : Performed(r, object, id, action)
    BY <1>3, ExecuteDone DEF Done, ApiTypeOK
  <2>3. [admin |-> reqs[r].admin, object |-> object, objectID |-> id, action |-> action] \in AdminEntry
    BY DEF ApiTypeOK, Request, AdminEntry
  <2>4. reqs' \in [Requests -> Request]
    <3>1. [reqs[r] EXCEPT !.phase = "audit",
                          !.entry = [admin |-> reqs[r].admin, object |-> object,
                                     objectID |-> id, action |-> action]] \in Request
      BY <2>3 DEF ApiTypeOK, Request
    <3> QED BY <2>2, <3>1 DEF ApiTypeOK, Performed
  <2>5. performed' \in Seq(AdminEntry)
    BY <2>2, <2>3 DEF ApiTypeOK, Performed
  <2>6. adminLogs' = adminLogs
    BY <2>2 DEF Performed
  <2> QED BY <2>1, <2>4, <2>5, <2>6 DEF ApiTypeOK
<1>4. ASSUME NEW r \in Requests, Answer(r)
      PROVE  ApiTypeOK'
  <2>1. TypeOK'
    BY <1>4, NextType DEF ApiTypeOK, Answer
  <2> QED BY <1>4, <2>1 DEF ApiTypeOK, Answer, Request
<1>5. ASSUME NEW r \in Requests, AuditAdmin(r)
      PROVE  ApiTypeOK'
  <2>1. TypeOK'
    BY <1>5, AuditAdminType DEF ApiTypeOK
  <2>2. [id |-> nextID, entry |-> reqs[r].entry] \in [id : Nat, entry : AdminEntry]
    BY DEF ApiTypeOK, TypeOK, Request
  <2>3. adminLogs' \in Seq([id : Nat, entry : AdminEntry])
    BY <1>5, <2>2 DEF ApiTypeOK, AuditAdmin
  <2>4. reqs' \in [Requests -> Request] /\ performed' = performed
    BY <1>5 DEF ApiTypeOK, AuditAdmin, Request
  <2> QED BY <2>1, <2>3, <2>4 DEF ApiTypeOK
<1>6. CASE Environment
  <2>1. TypeOK'
    BY <1>6, NextType DEF ApiTypeOK, Environment, Next
  <2> QED BY <1>6, <2>1 DEF ApiTypeOK, Environment, apiVars
<1> QED BY <1>1, <1>2, <1>3, <1>4, <1>5, <1>6 DEF ApiNext

LEMMA ApiTypeCorrect == ApiSpec => []ApiTypeOK
<1>1. ApiTypeOK /\ [ApiNext]_allVars => ApiTypeOK'
  BY ApiStepType
<1> QED BY <1>1, ApiInitType, PTL DEF ApiSpec, allVars

----------------------------------------------------------------------------
(* The administrator role, while requests come one at a time.              *)

(* Some account has the role: that of the request under way, if any.        *)
RoleInv ==
  /\ AdminRoleHeld
  /\ \A r \in Requests : reqs[r].phase = "execute" =>
       reqs[r].admin \in DOMAIN users /\ users[reqs[r].admin].admin

OneAtATime == \A p, q \in Requests : p = q

(* Neither an update nor a deletion an administrator may ask for takes the   *)
(* role from that administrator.                                           *)
LEMMA CallerKeepsRole ==
  ASSUME ApiTypeOK, NEW r \in Requests, Execute(r),
         reqs[r].admin \in DOMAIN users, users[reqs[r].admin].admin
  PROVE  reqs[r].admin \in DOMAIN users' /\ users'[reqs[r].admin].admin
<1> DEFINE caller == reqs[r].admin
<1>1. users \in [DOMAIN users -> User]
  BY DEF ApiTypeOK, TypeOK
<1>2. ASSUME NEW name, NEW password, NEW admin, CreateUser(name, password, admin)
      PROVE  caller \in DOMAIN users' /\ users'[caller].admin
  <2>1. nextID \notin DOMAIN users
    BY DEF ApiTypeOK, TypeOK, Ids
  <2> QED BY <1>2, <2>1 DEF CreateUser, Put
<1>3. ASSUME NEW id \in DOMAIN users, NEW status, NEW admin \in BOOLEAN, NEW password,
             MayUpdate(caller, id, admin), UpdateUser(id, status, admin, password)
      PROVE  caller \in DOMAIN users' /\ users'[caller].admin
  <2>1. CASE id = caller
    BY <1>1, <1>3, <2>1 DEF MayUpdate, UpdateUser, User
  <2>2. CASE id # caller
    BY <1>3, <2>2 DEF UpdateUser
  <2> QED BY <2>1, <2>2
<1>4. ASSUME NEW id \in DOMAIN users, MayDelete(caller, id), DeleteUser(id)
      PROVE  caller \in DOMAIN users' /\ users'[caller].admin
  BY <1>4 DEF MayDelete, DeleteUser, Drop
<1>5. CASE UserRequest(r)
  BY <1>2, <1>3, <1>4, <1>5 DEF UserRequest
<1>6. CASE GroupRequest(r) \/ AppRequest(r) \/ PolicyRequest(r)
  <2>1. users' = users
    BY <1>6 DEF GroupRequest, AppRequest, PolicyRequest, CreateGroup, UpdateGroup, DeleteGroup,
         CreateApp, UpdateApp, DeleteApp, CreatePolicy, DeletePolicy
  <2> QED BY <2>1
<1> QED BY <1>5, <1>6 DEF Execute

LEMMA RoleStep ==
  ASSUME OneAtATime, ApiTypeOK, RoleInv, [ApiNext]_allVars
  PROVE  RoleInv'
<1>1. ASSUME users' = users, reqs' = reqs
      PROVE  RoleInv'
  BY <1>1 DEF RoleInv, AdminRoleHeld
<1>2. CASE UNCHANGED allVars
  BY <1>1, <1>2 DEF allVars, vars, directory, apiVars
<1>3. ASSUME NEW r \in Requests, NEW t \in Tokens, RequireAdmin(r, t)
      PROVE  RoleInv'
  <2>1. users' = users
    BY <1>3 DEF RequireAdmin, UserBySession, directory
  <2>2. reqs'[r].admin \in DOMAIN users /\ users[reqs'[r].admin].admin
    BY <1>3 DEF RequireAdmin, Authenticated, ApiTypeOK
  <2> QED BY <2>1, <2>2 DEF OneAtATime, RoleInv, AdminRoleHeld
<1>4. ASSUME NEW r \in Requests, Execute(r)
      PROVE  RoleInv'
  <2>1. reqs[r].admin \in DOMAIN users' /\ users'[reqs[r].admin].admin
    BY <1>4, CallerKeepsRole DEF RoleInv, Execute
  <2>2. reqs'[r].phase = "audit"
    <3>1. PICK object, id, action : Performed(r, object, id, action)
      BY <1>4, ExecuteDone DEF Done, ApiTypeOK
    <3> QED BY <3>1 DEF Performed, ApiTypeOK, Request
  <2> QED BY <2>1, <2>2 DEF OneAtATime, RoleInv, AdminRoleHeld
<1>5. ASSUME NEW r \in Requests, Answer(r) \/ AuditAdmin(r)
      PROVE  RoleInv'
  <2>1. users' = users
    BY <1>5 DEF Answer, AuditAdmin, vars, directory
  <2>2. reqs'[r].phase = "idle"
    BY <1>5 DEF Answer, AuditAdmin, ApiTypeOK, Request
  <2> QED BY <2>1, <2>2 DEF OneAtATime, RoleInv, AdminRoleHeld
<1>6. CASE Environment
  <2>1. users' = users
    BY <1>6 DEF Environment, LoginNext, Authenticate, RejectLogin, SessionNext, Logout, UserBySession,
         CheckNext, CheckReject, CheckLookup, CheckDecide, Tick, directory
  <2> QED BY <1>1, <1>6, <2>1 DEF Environment, apiVars
<1> QED BY <1>2, <1>3, <1>4, <1>5, <1>6 DEF ApiNext

(* While requests come one at a time, the guards on the own account keep the  *)
(* administrator role in the world.                                         *)
THEOREM AdminRoleAlwaysHeld == OneAtATime /\ ApiSpec => []AdminRoleHeld
<1>1. ApiInit => RoleInv
  BY DEF ApiInit, Init, Put, NoEntries, RoleInv, AdminRoleHeld
<1>2. OneAtATime /\ ApiTypeOK /\ RoleInv /\ [ApiNext]_allVars => RoleInv'
  BY RoleStep
<1>3. RoleInv => AdminRoleHeld
  BY DEF RoleInv
<1>4. CASE OneAtATime
  <2>1. ApiTypeOK /\ RoleInv /\ [ApiNext]_allVars => RoleInv'
    BY <1>2, <1>4
  <2> QED BY <1>1, <2>1, <1>3, ApiTypeCorrect, PTL DEF ApiSpec, allVars
<1> QED BY <1>4

----------------------------------------------------------------------------
(* The contents of the directory.                                          *)

(* The ids of the operations of a kind.                                     *)
IdsOf(object, action) ==
  {performed[i].objectID : i \in {j \in DOMAIN performed :
     performed[j].object = object /\ performed[j].action = action}}

Left(object) == IdsOf(object, "create") \ IdsOf(object, "delete")

(* DirectoryExplained is inductive once it is known that operations were     *)
(* about ids given away, so that what is created now was never deleted.     *)
DirectoryInv ==
  /\ nextID > 1
  /\ \A object \in Objects, action \in Actions : IdsOf(object, action) \subseteq 1..(nextID - 1)
  /\ DOMAIN users = (Left("user") \cup {1}) \ IdsOf("user", "delete")
  /\ DOMAIN groups = Left("group")
  /\ DOMAIN apps = Left("app")
  /\ DOMAIN policies \subseteq Left("policy")

LEMMA IdsOfPerformed ==
  ASSUME ApiTypeOK, NEW r \in Requests, NEW object \in Objects, NEW id \in Nat, NEW action \in Actions,
         Performed(r, object, id, action)
  PROVE  \A o, a : IdsOf(o, a)' = IF o = object /\ a = action THEN IdsOf(o, a) \cup {id} ELSE IdsOf(o, a)
<1> DEFINE entry == [admin |-> reqs[r].admin, object |-> object, objectID |-> id, action |-> action]
           n == Len(performed) + 1
<1>1. performed' = Append(performed, entry) /\ performed \in Seq(AdminEntry) /\ entry \in AdminEntry
  BY DEF Performed, ApiTypeOK, AdminEntry, Request
<1>2. /\ DOMAIN performed' = DOMAIN performed \cup {n} /\ n \notin DOMAIN performed
      /\ performed'[n] = entry
      /\ \A i \in DOMAIN performed : performed'[i] = performed[i]
  BY <1>1
<1>3. entry.object = object /\ entry.objectID = id /\ entry.action = action
  OBVIOUS
<1> HIDE DEF entry, n
<1> QED BY <1>2, <1>3 DEF IdsOf

LEMMA DirectoryStep ==
  ASSUME ApiTypeOK, DirectoryInv, [ApiNext]_allVars
  PROVE  DirectoryInv'
<1>1. ASSUME UNCHANGED <<performed, directory>>, nextID' >= nextID, nextID' \in Nat
      PROVE  DirectoryInv'
  <2>1. \A o, a : IdsOf(o, a)' = IdsOf(o, a)
    BY <1>1 DEF IdsOf
  <2>2. 1..(nextID - 1) \subseteq 1..(nextID' - 1)
    BY <1>1 DEF ApiTypeOK, TypeOK
  <2>3. UNCHANGED <<users, groups, apps, policies>>
    BY <1>1 DEF directory
  <2>4. DirectoryInv => nextID' > 1
    BY <1>1 DEF DirectoryInv, ApiTypeOK, TypeOK
  <2> QED BY <2>1, <2>2, <2>3, <2>4 DEF DirectoryInv, Left
<1>2. nextID \in Nat
  BY DEF ApiTypeOK, TypeOK
<1>3. CASE UNCHANGED allVars
  BY <1>1, <1>2, <1>3 DEF allVars, vars, apiVars
<1>4. ASSUME NEW r \in Requests, NEW t \in Tokens, RequireAdmin(r, t)
      PROVE  DirectoryInv'
  BY <1>1, <1>2, <1>4 DEF RequireAdmin, UserBySession
<1>5. ASSUME NEW r \in Requests, Execute(r)
      PROVE  DirectoryInv'
  <2>1. PICK object \in Objects, id \in Nat, action \in Actions :
          Performed(r, object, id, action) /\ Effect(object, id, action)
    BY <1>5, ExecuteDone DEF Done, ApiTypeOK
  <2>2. \A o, a : IdsOf(o, a)' = IF o = object /\ a = action THEN IdsOf(o, a) \cup {id} ELSE IdsOf(o, a)
    BY <2>1, IdsOfPerformed
  <2>3. 1..(nextID - 1) \subseteq 1..(nextID' - 1) /\ id \in 1..(nextID' - 1)
    BY <1>2, <2>1 DEF Effect, ApiTypeOK, TypeOK
  <2>4. action = "create" => \A o \in Objects : id \notin IdsOf(o, "delete") /\ id # 1
    <3>1. "delete" \in Actions
      BY DEF Actions
    <3>2. nextID # 1
      BY DEF DirectoryInv
    <3> QED BY <1>2, <2>1, <3>1 DEF Effect, DirectoryInv
  <2>5. \A o \in Objects, a \in Actions : IdsOf(o, a)' \subseteq 1..(nextID' - 1)
    BY <2>2, <2>3 DEF DirectoryInv
  <2>6. nextID' > 1
    BY <1>2, <2>1 DEF Effect, DirectoryInv
  <2> QED BY <2>1, <2>2, <2>4, <2>5, <2>6 DEF Effect, After, DirectoryInv, Left, Objects, Actions
<1>6. ASSUME NEW r \in Requests, Answer(r)
      PROVE  DirectoryInv'
  BY <1>1, <1>2, <1>6 DEF Answer, vars
<1>7. ASSUME NEW r \in Requests, AuditAdmin(r)
      PROVE  DirectoryInv'
  BY <1>1, <1>2, <1>7 DEF AuditAdmin, TakeID
<1>8. CASE Environment
  <2>1. UNCHANGED directory /\ (nextID' = nextID \/ nextID' = nextID + 1)
    BY <1>8 DEF Environment, LoginNext, Authenticate, RejectLogin, LogLogin, TakeID, SessionNext, Logout,
         UserBySession, CheckNext, CheckReject, CheckLookup, CheckDecide, Tick
  <2> QED BY <1>1, <1>2, <1>8, <2>1 DEF Environment, apiVars
<1> QED BY <1>3, <1>4, <1>5, <1>6, <1>7, <1>8 DEF ApiNext

(* Whatever the directory holds beyond the bootstrapped administrator was    *)
(* created by an operation of a request, and what one deleted stays away.    *)
THEOREM DirectoryAlwaysExplained == ApiSpec => []DirectoryExplained
<1>1. ApiInit => DirectoryInv
  BY DEF ApiInit, Init, Put, NoEntries, DirectoryInv, IdsOf, Left
<1>2. ApiTypeOK /\ DirectoryInv /\ [ApiNext]_allVars => DirectoryInv'
  BY DirectoryStep
<1>3. DirectoryInv => DirectoryExplained
  BY DEF DirectoryInv, DirectoryExplained, IdsOf, Left
<1> QED BY <1>1, <1>2, <1>3, ApiTypeCorrect, PTL DEF ApiSpec, allVars

----------------------------------------------------------------------------
(* The administration log.                                                 *)

Count(e, S) == Cardinality({i \in DOMAIN S : S[i] = e})
Entries     == [i \in DOMAIN adminLogs |-> Logged(i)]
Waiting(e)  == {r \in Requests : reqs[r].phase = "audit" /\ reqs[r].entry = e}

AuditInv ==
  \A e \in AdminEntry : Count(e, performed) = Count(e, Entries) + Cardinality(Waiting(e))

LEMMA CountAppend ==
  ASSUME NEW V, NEW S \in Seq(V), NEW x \in V, NEW e
  PROVE  /\ Count(e, S) \in Nat
         /\ Count(e, Append(S, x)) = IF x = e THEN Count(e, S) + 1 ELSE Count(e, S)
<1> DEFINE places == {i \in DOMAIN S : S[i] = e}
           T == Append(S, x)
           n == Len(S) + 1
<1>1. IsFiniteSet(places)
  <2>1. IsFiniteSet(1..Len(S)) /\ places \subseteq 1..Len(S)
    BY FS_Interval
  <2> QED BY <2>1, FS_Subset
<1>2. n \notin places
  OBVIOUS
<1>3. DOMAIN T = DOMAIN S \cup {n} /\ T[n] = x /\ n \notin DOMAIN S /\ \A i \in DOMAIN S : T[i] = S[i]
  OBVIOUS
<1>4. {i \in DOMAIN T : T[i] = e} = IF x = e THEN places \cup {n} ELSE places
  <2> HIDE DEF T, n
  <2> QED BY <1>3
<1>5. Cardinality(places) \in Nat /\ Cardinality(places \cup {n}) = Cardinality(places) + 1
  BY <1>1, <1>2, FS_AddElement, FS_CardinalityType
<1> QED BY <1>4, <1>5 DEF Count

(* The entries of a log, without the ids the rows have.                      *)
LEMMA EntriesOf ==
  ASSUME NEW L \in Seq([id : Nat, entry : AdminEntry])
  PROVE  /\ [i \in DOMAIN L |-> L[i].entry] \in Seq(AdminEntry)
         /\ Len([i \in DOMAIN L |-> L[i].entry]) = Len(L)
<1> DEFINE S == [i \in DOMAIN L |-> L[i].entry]
<1>1. Len(L) \in Nat /\ DOMAIN L = 1..Len(L)
  OBVIOUS
<1>2. \A i \in 1..Len(L) : L[i].entry \in AdminEntry
  <2>1. \A i \in 1..Len(L) : L[i] \in [id : Nat, entry : AdminEntry]
    BY ElementOfSeq
  <2> QED BY <2>1
<1>3. S \in [1..Len(L) -> AdminEntry]
  BY <1>1, <1>2
<1>4. S \in Seq(AdminEntry)
  BY <1>1, <1>3, SeqDef
<1>5. Len(S) = Len(L)
  <2>1. DOMAIN S = 1..Len(L)
    BY <1>1
  <2> HIDE DEF S
  <2> QED BY <1>1, <1>4, <2>1, LenProperties
<1> QED BY <1>4, <1>5

LEMMA EntriesType ==
  ASSUME ApiTypeOK
  PROVE  Entries \in Seq(AdminEntry) /\ Len(Entries) = Len(adminLogs)
BY EntriesOf DEF ApiTypeOK, Entries, Logged

LEMMA EntriesAppend ==
  ASSUME ApiTypeOK, NEW id \in Nat, NEW e \in AdminEntry,
         adminLogs' = Append(adminLogs, [id |-> id, entry |-> e])
  PROVE  Entries' = Append(Entries, e)
<1>1. adminLogs' \in Seq([id : Nat, entry : AdminEntry]) /\ Len(adminLogs') = Len(adminLogs) + 1
  BY DEF ApiTypeOK
<1>2. Entries' \in Seq(AdminEntry) /\ Len(Entries') = Len(adminLogs')
  BY <1>1, EntriesOf DEF Entries, Logged
<1>3. Append(Entries, e) \in Seq(AdminEntry) /\ Len(Append(Entries, e)) = Len(adminLogs) + 1
  <2>1. Entries \in Seq(AdminEntry) /\ Len(Entries) = Len(adminLogs) /\ e \in AdminEntry
    BY EntriesType
  <2> QED BY <2>1, AppendProperties
<1>4. ASSUME NEW i \in 1..Len(Entries')
      PROVE  Entries'[i] = Append(Entries, e)[i]
  <2>1. i \in DOMAIN adminLogs' /\ Entries'[i] = adminLogs'[i].entry
    BY <1>1, <1>2 DEF Entries, Logged
  <2>2. CASE i = Len(adminLogs) + 1
    <3>1. adminLogs'[i] = [id |-> id, entry |-> e]
      BY <2>2 DEF ApiTypeOK
    <3>2. Append(Entries, e)[i] = e
      BY <2>2, EntriesType
    <3> QED BY <2>1, <3>1, <3>2
  <2>3. CASE i # Len(adminLogs) + 1
    <3>1. i \in 1..Len(adminLogs) /\ Len(adminLogs) \in Nat
      BY <1>1, <1>2, <2>3 DEF ApiTypeOK
    <3>2. adminLogs'[i] = adminLogs[i] /\ Entries[i] = adminLogs[i].entry
      BY <3>1 DEF ApiTypeOK, Entries, Logged
    <3>3. Append(Entries, e)[i] = Entries[i]
      BY <3>1, EntriesType
    <3> QED BY <2>1, <3>2, <3>3
  <2> QED BY <2>2, <2>3
<1> QED BY <1>1, <1>2, <1>3, <1>4, SeqEqual

(* A request that starts or stops waiting changes the number by one.         *)
LEMMA WaitingFinite ==
  ASSUME NEW e, NEW r
  PROVE  /\ Cardinality(Waiting(e)) \in Nat
         /\ r \in Requests /\ r \notin Waiting(e) =>
              Cardinality(Waiting(e) \cup {r}) = Cardinality(Waiting(e)) + 1
         /\ r \in Waiting(e) => Cardinality(Waiting(e) \ {r}) = Cardinality(Waiting(e)) - 1
<1>1. IsFiniteSet(Waiting(e))
  BY ServersAssumption, FS_Subset DEF Waiting
<1> QED BY <1>1, FS_CardinalityType, FS_AddElement, FS_RemoveElement

LEMMA AuditStep ==
  ASSUME ApiTypeOK, AuditInv, [ApiNext]_allVars
  PROVE  AuditInv'
<1>1. ASSUME UNCHANGED <<performed, adminLogs>>,
             \A q \in Requests : reqs'[q] = reqs[q] \/ (reqs[q].phase # "audit" /\ reqs'[q].phase # "audit")
      PROVE  AuditInv'
  <2>1. \A e : Waiting(e)' = Waiting(e)
    BY <1>1 DEF Waiting
  <2>2. \A e : Count(e, performed)' = Count(e, performed) /\ Count(e, Entries)' = Count(e, Entries)
    BY <1>1 DEF Count, Entries, Logged
  <2> QED BY <2>1, <2>2 DEF AuditInv
<1>2. CASE UNCHANGED allVars
  BY <1>1, <1>2 DEF allVars, apiVars
<1>3. ASSUME NEW r \in Requests, NEW t \in Tokens, RequireAdmin(r, t)
      PROVE  AuditInv'
  <2>1. UNCHANGED <<performed, adminLogs>>
    BY <1>3 DEF RequireAdmin
  <2>2. \A q \in Requests : reqs'[q] = reqs[q] \/ (reqs[q].phase # "audit" /\ reqs'[q].phase # "audit")
    BY <1>3 DEF RequireAdmin, ApiTypeOK
  <2> QED BY <1>1, <2>1, <2>2
<1>4. ASSUME NEW r \in Requests, Execute(r)
      PROVE  AuditInv'
  <2>1. PICK object \in Objects, id \in Nat, action \in Actions : Performed(r, object, id, action)
    BY <1>4, ExecuteDone DEF Done, ApiTypeOK
  <2> DEFINE entry == [admin |-> reqs[r].admin, object |-> object, objectID |-> id, action |-> action]
  <2>2. entry \in AdminEntry
    BY DEF ApiTypeOK, Request, AdminEntry
  <2>3. performed' = Append(performed, entry) /\ adminLogs' = adminLogs
    BY <2>1 DEF Performed
  <2>4. reqs[r].phase = "execute"
    BY <1>4 DEF Execute
  <2>5. /\ reqs'[r].phase = "audit" /\ reqs'[r].entry = entry
        /\ \A q \in Requests \ {r} : reqs'[q] = reqs[q]
    BY <2>1 DEF Performed, ApiTypeOK, Request
  <2> HIDE DEF entry
  <2>6. ASSUME NEW e \in AdminEntry
        PROVE  (Count(e, performed) = Count(e, Entries) + Cardinality(Waiting(e)))'
    <3>1. Waiting(e)' = IF e = entry THEN Waiting(e) \cup {r} ELSE Waiting(e)
      BY <2>4, <2>5 DEF Waiting
    <3>2. r \notin Waiting(e)
      BY <2>4 DEF Waiting
    <3>3. Cardinality(Waiting(e)') = IF e = entry THEN Cardinality(Waiting(e)) + 1 ELSE Cardinality(Waiting(e))
      BY <3>1, <3>2, WaitingFinite
    <3>4. Count(e, performed') = IF e = entry THEN Count(e, performed) + 1 ELSE Count(e, performed)
      BY <2>2, <2>3, CountAppend DEF ApiTypeOK
    <3>5. Count(e, Entries)' = Count(e, Entries)
      BY <2>3 DEF Count, Entries, Logged
    <3>6. Count(e, Entries) \in Nat
      BY EntriesType, <2>2, CountAppend
    <3>7. Count(e, performed) = Count(e, Entries) + Cardinality(Waiting(e)) /\ Cardinality(Waiting(e)) \in Nat
      BY WaitingFinite DEF AuditInv
    <3>8. Count(e, performed)' = Count(e, performed')
      BY DEF Count
    <3> QED BY <3>3, <3>4, <3>5, <3>6, <3>7, <3>8
  <2> QED BY <2>6 DEF AuditInv
<1>5. ASSUME NEW r \in Requests, Answer(r)
      PROVE  AuditInv'
  <2>1. \A q \in Requests : reqs'[q] = reqs[q] \/ (reqs[q].phase # "audit" /\ reqs'[q].phase # "audit")
    BY <1>5 DEF Answer, ApiTypeOK, Request
  <2> QED BY <1>1, <1>5, <2>1 DEF Answer
<1>6. ASSUME NEW r \in Requests, AuditAdmin(r)
      PROVE  AuditInv'
  <2> DEFINE entry == reqs[r].entry
  <2>1. entry \in AdminEntry
    BY DEF ApiTypeOK, Request
  <2>2. Entries' = Append(Entries, entry)
    BY <1>6, <2>1, EntriesAppend DEF AuditAdmin, ApiTypeOK, TypeOK
  <2>3. reqs[r].phase = "audit" /\ performed' = performed
    BY <1>6 DEF AuditAdmin
  <2>4. reqs'[r].phase = "idle" /\ \A q \in Requests \ {r} : reqs'[q] = reqs[q]
    BY <1>6 DEF AuditAdmin, ApiTypeOK, Request
  <2>5. ASSUME NEW e \in AdminEntry
        PROVE  (Count(e, performed) = Count(e, Entries) + Cardinality(Waiting(e)))'
    <3>1. Waiting(e)' = IF e = entry THEN Waiting(e) \ {r} ELSE Waiting(e)
      BY <2>3, <2>4 DEF Waiting
    <3>2. e = entry => r \in Waiting(e)
      BY <2>3 DEF Waiting
    <3>3. Cardinality(Waiting(e)') = IF e = entry THEN Cardinality(Waiting(e)) - 1 ELSE Cardinality(Waiting(e))
      BY <3>1, <3>2, WaitingFinite
    <3>4. /\ Count(e, Entries) \in Nat
          /\ Count(e, Entries') = IF e = entry THEN Count(e, Entries) + 1 ELSE Count(e, Entries)
      BY <2>1, <2>2, EntriesType, CountAppend
    <3>5. Count(e, performed) = Count(e, Entries) + Cardinality(Waiting(e)) /\ Cardinality(Waiting(e)) \in Nat
      BY WaitingFinite DEF AuditInv
    <3>6. Count(e, performed)' = Count(e, performed) /\ Count(e, Entries)' = Count(e, Entries')
      BY <2>3 DEF Count
    <3> QED BY <3>3, <3>4, <3>5, <3>6
  <2> QED BY <2>5 DEF AuditInv
<1>7. CASE Environment
  BY <1>1, <1>7 DEF Environment, apiVars
<1> QED BY <1>2, <1>3, <1>4, <1>5, <1>6, <1>7 DEF ApiNext

(* "Administration operations must be written to the audit log": in every     *)
(* interleaving of any finite number of requests the log holds each operation *)
(* as often as it was performed, but for those about to be written.           *)
THEOREM AuditAlwaysComplete == ApiSpec => []AuditComplete
<1>1. ApiInit => AuditInv
  <2> SUFFICES ASSUME ApiInit PROVE AuditInv
    OBVIOUS
  <2>1. \A e : {i \in DOMAIN performed : performed[i] = e} = {} /\ {i \in DOMAIN Entries : Entries[i] = e} = {}
    BY DEF ApiInit, Entries
  <2>2. \A e : Waiting(e) = {}
    BY DEF ApiInit, Waiting
  <2> QED BY <2>1, <2>2, FS_EmptySet DEF AuditInv, Count
<1>2. ApiTypeOK /\ AuditInv /\ [ApiNext]_allVars => AuditInv'
  BY AuditStep
<1>3. ApiTypeOK /\ AuditInv => AuditComplete
  <2> SUFFICES ASSUME ApiTypeOK, AuditInv PROVE AuditComplete
    OBVIOUS
  <2>1. \A i \in DOMAIN performed : performed[i] \in AdminEntry
    BY DEF ApiTypeOK
  <2>2. \A i \in DOMAIN Entries : Entries[i] \in AdminEntry
    BY EntriesType
  <2>3. {performed[i] : i \in DOMAIN performed} \cup {Entries[i] : i \in DOMAIN Entries} \subseteq AdminEntry
    BY <2>1, <2>2
  <2> QED BY <2>3 DEF AuditInv, AuditComplete, Count, Waiting, Entries
<1> QED BY <1>1, <1>2, <1>3, ApiTypeCorrect, PTL DEF ApiSpec, allVars
=============================================================================

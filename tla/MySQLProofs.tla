----------------------------- MODULE MySQLProofs -----------------------------
(***************************************************************************)
(* The tables of the MySQL backend, and what its answers say of them, for  *)
(* any number of concurrent requests, failing statements and restarts, and *)
(* any tables to begin with.                                               *)
(***************************************************************************)
EXTENDS MySQLAudit, OrderProofs, FiniteSetTheorems, SequenceTheorems, TLAPS

----------------------------------------------------------------------------
(* What a call looks like where it stands.                                  *)

Fields == {"req", "pc", "got", "did", "struck", "since", "answer"}

(* The request that brings a call to a statement.                           *)
Serves(pc, req) ==
  /\ pc = "exists" => req.action = "create" /\ req.object \in {"user", "app"}
  /\ pc = "insert" => req.action = "create"
  /\ pc = "readBack" => req.action \in {"create", "update"}
  /\ pc \in {"read", "write"} => req.action = "update" /\ req.object \in {"user", "app"}
  /\ pc = "replace" => req.action = "update" /\ req.object \in {"group", "body_rule"}
  /\ pc \in {"row", "clean"} => req.action = "delete"
  /\ pc = "audit" => req.action \in {"create", "update", "delete", "view"}
  /\ pc \in {"credentials", "logFailure", "signIn"} => req.action = "login"
  /\ pc = "logout" => req.action = "logout"
  /\ pc \in {"session", "app", "userPolicies", "groupPolicies"} => req.action = "check"
  /\ pc \in {"host", "rules", "addEntry", "addBody"} => req.action = "report"
  /\ pc \in {"entry", "bodies"} => req.action = "view"

(* What is left to clean up.                                                *)
Rests == [user  |-> {<<"members", "policies", "sessions">>, <<"policies", "sessions">>, <<"sessions">>},
          group |-> {<<"members", "policies">>, <<"policies">>},
          app   |-> {<<"policies", "rules">>, <<"rules">>},
          policy |-> {}, body_rule |-> {}]

(* What it did, and what it got from the tables.                            *)
Entry(c) == [object |-> c.req.object, id |-> IdOf(c), action |-> c.req.action]

DidOK(c) ==
  /\ c.pc \notin {"readBack", "clean", "audit"} => c.did = NoEntry
  /\ c.pc \in {"readBack", "clean"} => c.did = Entry(c)
  /\ c.pc = "audit" /\ c.req.action # "view" => c.did = Entry(c)
  /\ c.pc = "audit" /\ c.req.action = "view" =>
       c.did = [object |-> "access_log", id |-> c.req.id, action |-> "view_body"]

LogFields == {"kind", "app", "rule", "bodies", "flags", "asked"}

GotOK(c) ==
  /\ c.pc \in {"readBack", "audit"} /\ c.req.action = "create" => DOMAIN c.got = {"id"}
  /\ c.pc = "clean" => c.got.rest \in Rests[c.req.object]
  /\ c.pc = "app" => DOMAIN c.got = {"user", "admin"}
  /\ c.pc \in {"userPolicies", "groupPolicies"} => DOMAIN c.got = {"user", "app", "at"}
  /\ c.pc \in {"rules", "addEntry"} => DOMAIN c.got = LogFields /\ c.got.bodies \subseteq Sides
  /\ c.pc = "rules" => c.got.asked = {}
  /\ c.pc = "addEntry" => c.got.bodies \subseteq c.got.asked /\ (c.got.asked # {} => c.got.bodies = c.got.flags)
  /\ c.pc = "addBody" => DOMAIN c.got = {"id", "bodies"} /\ c.got.bodies \subseteq Sides /\ c.got.bodies # {}

CallOK(c) ==
  /\ DOMAIN c = Fields
  /\ c.pc # "end" => /\ c.answer = "none"
                     /\ RequestOK(c.req) /\ ReportOK(c.req)
                     /\ Serves(c.pc, c.req)
                     /\ DidOK(c) /\ GotOK(c)

(* The tables are all there, and their counters above the ids given away.    *)
TablesThere ==
  /\ DOMAIN db = Tables /\ DOMAIN db.auto = Numbered
  /\ \A table \in Numbered : /\ db.auto[table] \in Nat \ {0}
                             /\ DOMAIN db[table] \subseteq 1..(db.auto[table] - 1)

ShapeOK ==
  /\ TablesThere
  /\ DOMAIN calls = Callers /\ \A r \in Callers : CallOK(calls[r])
  /\ mix \in Mixes
  /\ server \in {"up", "down"} /\ now \in 0..MaxTime /\ faults \in 0..MaxFaults

----------------------------------------------------------------------------
(* The operators on calls.                                                  *)

LEMMA ToFacts ==
  ASSUME NEW c, DOMAIN c = Fields, NEW pc
  PROVE  /\ DOMAIN To(c, pc) = Fields /\ To(c, pc).pc = pc
         /\ To(c, pc).req = c.req /\ To(c, pc).got = c.got /\ To(c, pc).did = c.did
         /\ To(c, pc).struck = c.struck /\ To(c, pc).since = c.since /\ To(c, pc).answer = c.answer
BY DEF To, Fields

LEMMA EndFacts ==
  ASSUME NEW c, NEW how
  PROVE  /\ DOMAIN End(c, how) = Fields
         /\ End(c, how).pc = "end" /\ End(c, how).answer = how
         /\ End(c, how).did = c.did /\ End(c, how).struck = c.struck
BY DEF End, Idle, Fields

(* A call that has done its work and goes on.                                *)
LEMMA DidFacts ==
  ASSUME NEW c, DOMAIN c = Fields, NEW id, NEW pc
  PROVE  /\ DOMAIN To(Did(c, id), pc) = Fields /\ To(Did(c, id), pc).pc = pc
         /\ To(Did(c, id), pc).got = [id |-> id]
         /\ To(Did(c, id), pc).did = [object |-> c.req.object, id |-> id, action |-> c.req.action]
         /\ To(Did(c, id), pc).req = c.req /\ To(Did(c, id), pc).struck = c.struck
         /\ To(Did(c, id), pc).since = c.since /\ To(Did(c, id), pc).answer = c.answer
BY DEF Did, To, Fields

LEMMA DidOn ==
  ASSUME NEW c, CallOK(c), c.pc \in {"insert", "write", "replace"}, NEW id,
         c.req.action = "update" => id = c.req.id, NEW pc \in {"audit", "readBack"}
  PROVE  CallOK(To(Did(c, id), pc))
<1>1. DOMAIN c = Fields
  BY DEF CallOK
<1> DEFINE next == To(Did(c, id), pc)
<1>2. /\ DOMAIN next = Fields /\ next.pc = pc
      /\ next.got = [id |-> id] /\ next.req = c.req /\ next.answer = c.answer
      /\ next.did = [object |-> c.req.object, id |-> id, action |-> c.req.action]
  BY <1>1, DidFacts
<1> HIDE DEF next
<1>3. c.req.action \in {"create", "update"} /\ IdOf(next) = id
  BY <1>2 DEF CallOK, Serves, IdOf
<1> QED BY <1>2, <1>3 DEF CallOK, Serves, DidOK, GotOK, Entry, next

(* A statement has its effect or fails, and nobody else's call moves.        *)
LEMMA StatementFacts ==
  ASSUME ShapeOK, NEW r \in Callers, NEW after, NEW ok, NEW failed,
         DOMAIN ok = Fields, DOMAIN failed = Fields, Statement(r, after, ok, failed)
  PROVE  /\ UNCHANGED <<server, now, started, mix>> /\ Observe
         /\ DOMAIN calls' = Callers /\ \A q \in Callers \ {r} : calls'[q] = calls[q]
         /\ DOMAIN calls'[r] = Fields
         /\ \/ db' = after /\ calls'[r] = ok /\ faults' = faults
            \/ /\ faults' = faults + 1 /\ faults < MaxFaults
               /\ calls'[r].struck
               /\ calls'[r].pc = failed.pc /\ calls'[r].req = failed.req /\ calls'[r].got = failed.got
               /\ calls'[r].since = failed.since /\ calls'[r].answer = failed.answer
               /\ \/ db' = db /\ calls'[r].did = failed.did
                  \/ db' = after /\ after # db /\ calls'[r].did = ok.did
BY DEF Statement, ShapeOK, Fields, bounds

LEMMA StatementCalls ==
  ASSUME ShapeOK, NEW r \in Callers, NEW after, NEW ok, NEW failed, Statement(r, after, ok, failed),
         CallOK(ok), CallOK(failed), failed.pc = "end" \/ after = db \/ ok.did = failed.did
  PROVE  \A q \in Callers : CallOK(calls'[q])
<1>1. DOMAIN ok = Fields /\ DOMAIN failed = Fields
  BY DEF CallOK
<1>2. \A q \in Callers \ {r} : CallOK(calls'[q])
  <2>1. \A q \in Callers \ {r} : calls'[q] = calls[q]
    BY <1>1, StatementFacts
  <2> QED BY <2>1 DEF ShapeOK
<1>3. CASE calls'[r] = ok
  BY <1>2, <1>3
<1>4. CASE /\ DOMAIN calls'[r] = Fields
           /\ calls'[r].pc = failed.pc /\ calls'[r].req = failed.req /\ calls'[r].got = failed.got
           /\ calls'[r].answer = failed.answer
           /\ calls'[r].pc = "end" \/ calls'[r].did = failed.did
  <2>2. CASE calls'[r].pc = "end"
    BY <1>2, <1>4, <2>2 DEF CallOK
  <2>3. CASE calls'[r].pc # "end"
    <3>1. DidOK(calls'[r])
      BY <1>4, <2>3 DEF CallOK, DidOK, Entry, IdOf
    <3>2. GotOK(calls'[r])
      BY <1>4, <2>3 DEF CallOK, GotOK
    <3> QED BY <1>2, <1>4, <2>3, <3>1, <3>2 DEF CallOK
  <2> QED BY <2>2, <2>3
<1> QED BY <1>1, <1>3, <1>4, StatementFacts

LEMMA EndOK ==
  ASSUME NEW c, NEW how
  PROVE  CallOK(End(c, how))
BY EndFacts DEF CallOK

----------------------------------------------------------------------------
(* Each statement leaves the call as it should be at the next.               *)

LEMMA CreateCalls ==
  ASSUME ShapeOK, NEW r \in Callers, Exists(r) \/ Insert(r) \/ ReadBack(r)
  PROVE  \A q \in Callers : CallOK(calls'[q])
<1> DEFINE c == calls[r]
<1>0. DOMAIN c = Fields /\ CallOK(c)
  BY DEF ShapeOK, CallOK
<1>1. CASE Exists(r)
  <2>1. c.pc = "exists"
    BY <1>1 DEF Exists, At
  <2>2. CallOK(To(c, "insert"))
    BY <1>0, <2>1, ToFacts DEF CallOK, Serves, DidOK, GotOK, Fields
  <2> QED BY <1>1, <2>2, EndOK, StatementCalls DEF Exists, Query
<1>2. CASE Insert(r)
  <2> DEFINE next == IF c.req.object = "group" THEN "audit" ELSE "readBack"
  <2>1. c.pc = "insert" /\ c.req.action = "create" /\ next \in {"audit", "readBack"}
    BY <1>0, <1>2 DEF Insert, At, CallOK, Serves
  <2> HIDE DEF next
  <2>2. CallOK(To(Did(c, db.auto[c.req.object]), next))
    BY <1>0, <2>1, DidOn
  <2>3. \E after : \/ Statement(r, after, End(c, "error"), End(c, "error"))
                    \/ Statement(r, after, To(Did(c, db.auto[c.req.object]), next), End(c, "error"))
    BY <1>2 DEF Insert, Query, next
  <2>4. CallOK(End(c, "error")) /\ End(c, "error").pc = "end"
    BY EndOK, EndFacts
  <2> QED BY <2>2, <2>3, <2>4, StatementCalls
<1>3. CASE ReadBack(r)
  <2>1. c.pc = "readBack"
    BY <1>3 DEF ReadBack, At
  <2>2. CallOK(To(c, "audit"))
    BY <1>0, <2>1, ToFacts DEF CallOK, Serves, DidOK, GotOK, Fields, Entry, IdOf
  <2> QED BY <1>3, <2>2, EndOK, StatementCalls DEF ReadBack, Query
<1> QED BY <1>1, <1>2, <1>3

LEMMA UpdateCalls ==
  ASSUME ShapeOK, NEW r \in Callers, ReadRow(r) \/ WriteRow(r) \/ Replace(r)
  PROVE  \A q \in Callers : CallOK(calls'[q])
<1> DEFINE c == calls[r]
<1>0. DOMAIN c = Fields /\ CallOK(c)
  BY DEF ShapeOK, CallOK
<1>1. CASE ReadRow(r)
  <2>1. c.pc = "read"
    BY <1>1 DEF ReadRow, At
  <2> DEFINE next == [To(c, "write") EXCEPT !.got = db[c.req.object][c.req.id]]
  <2>2. CallOK(next)
    <3>1. /\ DOMAIN next = Fields /\ next.pc = "write" /\ next.req = c.req
          /\ next.answer = c.answer /\ next.did = c.did
      BY <1>0, ToFacts DEF Fields
    <3>2. RequestOK(c.req) /\ ReportOK(c.req) /\ Serves("read", c.req) /\ DidOK(c) /\ c.answer = "none"
      BY <1>0, <2>1 DEF CallOK
    <3> HIDE DEF next, c
    <3>3. Serves(next.pc, next.req) /\ DidOK(next) /\ GotOK(next)
      BY <2>1, <3>1, <3>2 DEF Serves, DidOK, GotOK
    <3> QED BY <3>1, <3>2, <3>3 DEF CallOK
  <2> QED BY <1>1, <2>2, EndOK, StatementCalls DEF ReadRow, Query
<1>3. CASE WriteRow(r)
  <2>1. c.pc = "write"
    BY <1>3 DEF WriteRow, At
  <2>2. CallOK(To(Did(c, c.req.id), "audit"))
    BY <1>0, <2>1, DidOn
  <2> QED BY <1>3, <2>2, EndOK, EndFacts, StatementCalls DEF WriteRow, Query
<1>4. CASE Replace(r)
  <2>1. c.pc = "replace"
    BY <1>4 DEF Replace, At
  <2>2. CallOK(To(Did(c, c.req.id), "readBack"))
    BY <1>0, <2>1, DidOn
  <2> QED BY <1>4, <2>2, EndOK, EndFacts, StatementCalls DEF Replace, Query
<1> QED BY <1>1, <1>3, <1>4

(* What is left to clean up, one statement later.                           *)
LEMMA RestFacts ==
  ASSUME NEW object \in Objects, NEW rest \in Rests[object]
  PROVE  /\ Head(rest) \in {"members", "policies", "sessions", "rules"}
         /\ Tail(rest) = <<>> \/ Tail(rest) \in Rests[object]
         /\ object = "group" /\ Tail(rest) # <<>> => Head(rest) = "members"
<1>1. /\ Head(<<"members", "policies", "sessions">>) = "members"
      /\ Tail(<<"members", "policies", "sessions">>) = <<"policies", "sessions">>
  BY DEF Head, Tail
<1>2. /\ Head(<<"policies", "sessions">>) = "policies" /\ Tail(<<"policies", "sessions">>) = <<"sessions">>
  OBVIOUS
<1>3. /\ Head(<<"members", "policies">>) = "members" /\ Tail(<<"members", "policies">>) = <<"policies">>
  OBVIOUS
<1>4. /\ Head(<<"policies", "rules">>) = "policies" /\ Tail(<<"policies", "rules">>) = <<"rules">>
  OBVIOUS
<1>5. \A x : Head(<<x>>) = x /\ Tail(<<x>>) = <<>>
  OBVIOUS
<1>6. CASE object = "user"
  <2>1. rest \in {<<"members", "policies", "sessions">>, <<"policies", "sessions">>, <<"sessions">>}
    BY <1>6 DEF Rests
  <2> QED BY <1>1, <1>2, <1>5, <1>6, <2>1 DEF Rests
<1>7. CASE object = "group"
  <2>1. rest \in {<<"members", "policies">>, <<"policies">>}
    BY <1>7 DEF Rests
  <2> QED BY <1>3, <1>5, <1>7, <2>1 DEF Rests
<1>8. CASE object = "app"
  <2>1. rest \in {<<"policies", "rules">>, <<"rules">>}
    BY <1>8 DEF Rests
  <2> QED BY <1>4, <1>5, <1>8, <2>1 DEF Rests
<1> QED BY <1>6, <1>7, <1>8 DEF Rests, Objects

LEMMA CascadeFacts ==
  ASSUME NEW object \in Objects
  PROVE  Cascade[object] = <<>> \/ Cascade[object] \in Rests[object]
BY DEF Cascade, Rests, Objects

LEMMA CleanNextFacts ==
  ASSUME NEW c, DOMAIN c = Fields, NEW rest
  PROVE  LET next == CleanNext(c, rest)
         IN  /\ DOMAIN next = Fields /\ next.pc = IF rest = <<>> THEN "audit" ELSE "clean"
             /\ rest # <<>> => next.got = [rest |-> rest]
             /\ next.did = c.did /\ next.req = c.req /\ next.answer = c.answer
             /\ next.struck = c.struck /\ next.since = c.since
BY DEF CleanNext, To, Fields

LEMMA CleanNextOK ==
  ASSUME NEW c, DOMAIN c = Fields, c.pc # "end" => c.answer = "none",
         c.answer = "none", RequestOK(c.req), ReportOK(c.req), c.req.action = "delete",
         c.did = [object |-> c.req.object, id |-> c.req.id, action |-> "delete"],
         NEW rest, rest = <<>> \/ rest \in Rests[c.req.object]
  PROVE  CallOK(CleanNext(c, rest))
<1> DEFINE next == CleanNext(c, rest)
<1>1. /\ DOMAIN next = Fields /\ next.pc = IF rest = <<>> THEN "audit" ELSE "clean"
      /\ rest # <<>> => next.got = [rest |-> rest]
      /\ next.did = c.did /\ next.req = c.req /\ next.answer = c.answer
  BY CleanNextFacts
<1> HIDE DEF next
<1>2. next.pc = "clean" => next.got.rest \in Rests[next.req.object]
  BY <1>1
<1>3. IdOf(next) = next.req.id
  BY <1>1 DEF IdOf
<1> QED BY <1>1, <1>2, <1>3 DEF CallOK, Serves, DidOK, GotOK, Entry, next

LEMMA DeleteCalls ==
  ASSUME ShapeOK, NEW r \in Callers, DeleteRow(r) \/ CleanUp(r) \/ AddAdminLog(r)
  PROVE  \A q \in Callers : CallOK(calls'[q])
<1> DEFINE c == calls[r]
<1>0. DOMAIN c = Fields /\ CallOK(c)
  BY DEF ShapeOK, CallOK
<1>e. CallOK(End(c, "error")) /\ End(c, "error").pc = "end"
  BY EndOK, EndFacts
<1>1. CASE DeleteRow(r)
  <2>1. c.pc = "row"
    BY <1>1 DEF DeleteRow, At
  <2>2. /\ c.answer = "none" /\ RequestOK(c.req) /\ ReportOK(c.req) /\ c.req.action = "delete"
        /\ c.req.object \in Objects
    BY <1>0, <2>1 DEF CallOK, Serves, RequestOK
  <2> DEFINE done == Did(c, c.req.id)
             rest == Cascade[c.req.object]
  <2>3. /\ DOMAIN done = Fields /\ done.req = c.req /\ done.answer = c.answer /\ done.pc = c.pc
        /\ done.did = [object |-> c.req.object, id |-> c.req.id, action |-> c.req.action]
    BY <1>0 DEF Did, Fields
  <2>4. rest = <<>> \/ rest \in Rests[c.req.object]
    BY <2>2, CascadeFacts
  <2>5. CallOK(CleanNext(done, rest))
    <3> HIDE DEF done, rest
    <3> QED BY <2>2, <2>3, <2>4, CleanNextOK
  <2>6. \E after : \/ Statement(r, after, End(c, "notfound"), End(c, "error"))
                   \/ Statement(r, after, CleanNext(done, rest), End(c, "error"))
    BY <1>1 DEF DeleteRow, Query
  <2> HIDE DEF done, rest
  <2> QED BY <1>e, <2>5, <2>6, EndOK, StatementCalls
<1>2. CASE CleanUp(r)
  <2>1. c.pc = "clean"
    BY <1>2 DEF CleanUp, At
  <2>2. /\ c.answer = "none" /\ RequestOK(c.req) /\ ReportOK(c.req) /\ c.req.action = "delete"
        /\ c.req.object \in Objects /\ c.got.rest \in Rests[c.req.object]
        /\ c.did = [object |-> c.req.object, id |-> c.req.id, action |-> "delete"]
    BY <1>0, <2>1 DEF CallOK, Serves, RequestOK, DidOK, Entry, IdOf, GotOK
  <2> DEFINE rest == Tail(c.got.rest)
  <2>3. rest = <<>> \/ rest \in Rests[c.req.object]
    BY <2>2, RestFacts
  <2>4. CallOK(CleanNext(c, rest))
    <3> HIDE DEF rest
    <3> QED BY <1>0, <2>2, <2>3, CleanNextOK
  <2>5. \E after : Statement(r, after, CleanNext(c, rest), CleanNext(c, rest))
    BY <1>2 DEF CleanUp
  <2> HIDE DEF rest
  <2> QED BY <2>4, <2>5, StatementCalls
<1>3. CASE AddAdminLog(r)
  <2>1. CallOK(End(c, "ok")) /\ End(c, "ok").pc = "end"
    BY EndOK, EndFacts
  <2>2. \E after : Statement(r, after, End(c, "ok"), End(c, "ok"))
    BY <1>3 DEF AddAdminLog
  <2> QED BY <2>1, <2>2, StatementCalls
<1> QED BY <1>1, <1>2, <1>3

LEMMA SessionCalls ==
  ASSUME ShapeOK, NEW r \in Callers, Credentials(r) \/ LogFailure(r) \/ SignIn(r) \/ Logout(r)
  PROVE  \A q \in Callers : CallOK(calls'[q])
<1> DEFINE c == calls[r]
<1>0. DOMAIN c = Fields /\ CallOK(c)
  BY DEF ShapeOK, CallOK
<1>1. CASE Credentials(r)
  <2>1. c.pc = "credentials"
    BY <1>1 DEF Credentials, At
  <2>2. CallOK(To(c, "logFailure"))
    BY <1>0, <2>1, ToFacts DEF CallOK, Serves, DidOK, GotOK
  <2>3. ASSUME NEW got PROVE CallOK([To(c, "signIn") EXCEPT !.got = got])
    <3> DEFINE next == [To(c, "signIn") EXCEPT !.got = got]
    <3>1. /\ DOMAIN next = Fields /\ next.pc = "signIn" /\ next.req = c.req /\ next.answer = c.answer
          /\ next.did = c.did
      BY <1>0, ToFacts DEF Fields
    <3> HIDE DEF next
    <3>2. CallOK(next)
      BY <1>0, <2>1, <3>1 DEF CallOK, Serves, DidOK, GotOK
    <3> QED BY <3>2 DEF next
  <2>4. \E got : \/ Statement(r, db, To(c, "logFailure"), To(c, "logFailure"))
                 \/ Statement(r, db, [To(c, "signIn") EXCEPT !.got = got], To(c, "logFailure"))
    BY <1>1 DEF Credentials, Query
  <2> QED BY <2>2, <2>3, <2>4, StatementCalls
<1>2. CASE LogFailure(r)
  <2>1. \E after : Statement(r, after, End(c, "denied"), End(c, "denied"))
    BY <1>2 DEF LogFailure
  <2> QED BY <2>1, EndOK, EndFacts, StatementCalls
<1>3. CASE SignIn(r)
  <2>1. \E after : Statement(r, after, End(c, "ok"), End(c, "error"))
    BY <1>3 DEF SignIn
  <2> QED BY <2>1, EndOK, EndFacts, StatementCalls
<1>4. CASE Logout(r)
  <2>1. \E after : Statement(r, after, End(c, "ok"), End(c, "ok"))
    BY <1>4 DEF Logout
  <2> QED BY <2>1, EndOK, EndFacts, StatementCalls
<1> QED BY <1>1, <1>2, <1>3, <1>4

LEMMA CheckCalls ==
  ASSUME ShapeOK, NEW r \in Callers,
         UserBySession(r) \/ AppByDomain(r) \/ AllowedToUser(r) \/ AllowedToGroup(r)
  PROVE  \A q \in Callers : CallOK(calls'[q])
<1> DEFINE c == calls[r]
<1>0. DOMAIN c = Fields /\ CallOK(c)
  BY DEF ShapeOK, CallOK
<1>1. CASE UserBySession(r)
  <2>1. c.pc = "session"
    BY <1>1 DEF UserBySession, At
  <2> DEFINE user == db.sessions[c.req.token].user
             next == [To(c, "app") EXCEPT !.got = [user |-> user, admin |-> db.user[user].admin]]
  <2>2. /\ DOMAIN next = Fields /\ next.pc = "app" /\ next.req = c.req /\ next.answer = c.answer
        /\ next.did = c.did /\ DOMAIN next.got = {"user", "admin"}
    BY <1>0, ToFacts DEF Fields
  <2>3. \/ Statement(r, db, End(c, "unauthorized"), End(c, "unauthorized"))
        \/ Statement(r, db, next, End(c, "unauthorized"))
    BY <1>1 DEF UserBySession, Query
  <2> HIDE DEF next
  <2>4. CallOK(next)
    BY <1>0, <2>1, <2>2 DEF CallOK, Serves, DidOK, GotOK
  <2> QED BY <2>3, <2>4, EndOK, StatementCalls
<1>2. CASE AppByDomain(r)
  <2>1. c.pc = "app"
    BY <1>2 DEF AppByDomain, At
  <2> DEFINE next(app) == [To(c, "userPolicies") EXCEPT !.got = [user |-> c.got.user, app |-> app, at |-> now]]
  <2>2. ASSUME NEW app
        PROVE  /\ DOMAIN next(app) = Fields /\ next(app).pc = "userPolicies" /\ next(app).req = c.req
               /\ next(app).answer = c.answer /\ next(app).did = c.did
               /\ DOMAIN next(app).got = {"user", "app", "at"}
    BY <1>0, ToFacts DEF Fields
  <2>3. \/ \E how : Statement(r, db, End(c, how), End(c, "forbidden"))
        \/ \E app : Statement(r, db, next(app), End(c, "forbidden"))
    BY <1>2 DEF AppByDomain, Query
  <2> HIDE DEF next
  <2>4. ASSUME NEW app PROVE CallOK(next(app))
    BY <1>0, <2>1, <2>2 DEF CallOK, Serves, DidOK, GotOK
  <2> QED BY <2>3, <2>4, EndOK, EndFacts, StatementCalls
<1>3. CASE AllowedToUser(r)
  <2>1. c.pc = "userPolicies"
    BY <1>3 DEF AllowedToUser, At
  <2>2. CallOK(To(c, "groupPolicies"))
    BY <1>0, <2>1, ToFacts DEF CallOK, Serves, DidOK, GotOK
  <2>3. \/ Statement(r, db, End(c, "granted"), To(c, "groupPolicies"))
        \/ Statement(r, db, To(c, "groupPolicies"), To(c, "groupPolicies"))
    BY <1>3 DEF AllowedToUser, Query
  <2> QED BY <2>2, <2>3, EndOK, StatementCalls
<1>4. CASE AllowedToGroup(r)
  <2>1. \E how : Statement(r, db, End(c, how), End(c, "forbidden"))
    BY <1>4 DEF AllowedToGroup, Query
  <2> QED BY <2>1, EndOK, EndFacts, StatementCalls
<1> QED BY <1>1, <1>2, <1>3, <1>4

(* What a rule leaves of a report.                                          *)
LEMMA AppliedFacts ==
  ASSUME NEW req, NEW log, DOMAIN log = LogFields, log.bodies \subseteq Sides, log.asked = {}
  PROVE  /\ DOMAIN Applied(req, log) = LogFields /\ Applied(req, log).bodies \subseteq Sides
         /\ Applied(req, log).bodies \subseteq Applied(req, log).asked
         /\ Applied(req, log).asked # {} =>
              /\ Applied(req, log).bodies = Applied(req, log).flags
              /\ Matching(req, log.app) # {} /\ Applied(req, log).rule = Deciding(req, log.app)
<1>1. CASE Matching(req, log.app) = {}
  BY <1>1 DEF Applied, Unmatched, LogFields
<1>2. CASE Matching(req, log.app) # {}
  <2> DEFINE asked == Asked(Deciding(req, log.app))
             kept  == log.bodies \cap asked
  <2>1. Applied(req, log) =
          [log EXCEPT !.rule = Deciding(req, log.app), !.asked = asked, !.bodies = kept, !.flags = kept]
    BY <1>2 DEF Applied
  <2>2. kept \subseteq Sides /\ kept \subseteq asked
    OBVIOUS
  <2> HIDE DEF kept, asked
  <2> QED BY <1>2, <2>1, <2>2 DEF LogFields
<1> QED BY <1>1, <1>2

LEMMA DecidingFacts ==
  ASSUME TablesThere, NEW req, NEW app, Matching(req, app) # {}
  PROVE  /\ Deciding(req, app) \in Matching(req, app)
         /\ Deciding(req, app) \in 1..(db.auto.body_rule - 1)
<1>1. Matching(req, app) \subseteq 1..(db.auto.body_rule - 1) /\ db.auto.body_rule \in Nat
  BY DEF Matching, TablesThere, Numbered, Objects
<1>2. Matching(req, app) \subseteq Nat
  BY <1>1
<1>3. \E k \in Matching(req, app) : \A j \in Matching(req, app) : k <= j
  BY <1>2, LeastExists
<1> QED BY <1>1, <1>3 DEF Deciding

LEMMA ReportCalls ==
  ASSUME ShapeOK, NEW r \in Callers,
         AppOfReport(r) \/ ApplyBodyAuditRule(r) \/ AddEntry(r) \/ AddBody(r)
  PROVE  \A q \in Callers : CallOK(calls'[q])
<1> DEFINE c == calls[r]
<1>0. DOMAIN c = Fields /\ CallOK(c)
  BY DEF ShapeOK, CallOK
<1>1. CASE AppOfReport(r)
  <2>1. c.pc = "host"
    BY <1>1 DEF AppOfReport, At
  <2> DEFINE On(id) == [To(c, "rules") EXCEPT !.got = [LogOf(c.req) EXCEPT !.app = id]]
  <2>2. c.req.bodies \subseteq Sides
    BY <1>0, <2>1 DEF CallOK, Serves, ReportOK
  <2>3. ASSUME NEW id PROVE CallOK(On(id))
    <3>1. /\ DOMAIN On(id) = Fields /\ On(id).pc = "rules" /\ On(id).req = c.req /\ On(id).answer = c.answer
          /\ On(id).did = c.did /\ On(id).got = [LogOf(c.req) EXCEPT !.app = id]
      BY <1>0, ToFacts DEF Fields
    <3>2. DOMAIN On(id).got = LogFields /\ On(id).got.bodies = c.req.bodies /\ On(id).got.asked = {}
      BY <3>1 DEF LogOf, LogFields
    <3> HIDE DEF On
    <3> QED BY <1>0, <2>1, <2>2, <3>1, <3>2 DEF CallOK, Serves, DidOK, GotOK
  <2>4. \/ calls' = [calls EXCEPT ![r] = On(c.req.app)]
        \/ \E app : Statement(r, db, On(app), On(NoApp))
    BY <1>1 DEF AppOfReport, Query
  <2> HIDE DEF On
  <2>5. CASE calls' = [calls EXCEPT ![r] = On(c.req.app)]
    BY <2>3, <2>5 DEF ShapeOK
  <2>6. CASE \E app : Statement(r, db, On(app), On(NoApp))
    BY <2>3, <2>6, StatementCalls
  <2> QED BY <2>4, <2>5, <2>6
<1>2. CASE ApplyBodyAuditRule(r)
  <2>1. c.pc = "rules"
    BY <1>2 DEF ApplyBodyAuditRule, At
  <2>2. DOMAIN c.got = LogFields /\ c.got.bodies \subseteq Sides /\ c.got.asked = {}
    BY <1>0, <2>1 DEF CallOK, GotOK
  <2> DEFINE next(got) == [To(c, "addEntry") EXCEPT !.got = got]
  <2>3. ASSUME NEW got, DOMAIN got = LogFields, got.bodies \subseteq Sides,
               got.bodies \subseteq got.asked, got.asked # {} => got.bodies = got.flags
        PROVE  CallOK(next(got)) /\ next(got).did = c.did
    <3>1. /\ DOMAIN next(got) = Fields /\ next(got).pc = "addEntry" /\ next(got).req = c.req
          /\ next(got).answer = c.answer /\ next(got).did = c.did /\ next(got).got = got
      BY <1>0, ToFacts DEF Fields
    <3> HIDE DEF next
    <3> QED BY <1>0, <2>1, <2>3, <3>1 DEF CallOK, Serves, DidOK, GotOK
  <2>4. Statement(r, db, next(Applied(c.req, c.got)), next(Unmatched(c.got)))
    BY <1>2 DEF ApplyBodyAuditRule, Query
  <2> HIDE DEF next
  <2>5. CallOK(next(Unmatched(c.got)))
    BY <2>2, <2>3 DEF Unmatched, LogFields
  <2>6. CallOK(next(Applied(c.req, c.got)))
    BY <2>2, <2>3, AppliedFacts
  <2> QED BY <2>4, <2>5, <2>6, StatementCalls
<1> DEFINE body(got) == NextBody([c EXCEPT !.got = got])
<1>3. ASSUME NEW got, DOMAIN got = {"id", "bodies"}, got.bodies \subseteq Sides,
             c.pc \in {"addEntry", "addBody"}
      PROVE  CallOK(body(got)) /\ (body(got).pc = "end" \/ body(got).did = c.did)
  <2> DEFINE d == [c EXCEPT !.got = got]
  <2>1. /\ DOMAIN d = Fields /\ d.got = got /\ d.req = c.req /\ d.answer = c.answer /\ d.did = c.did
    BY <1>0 DEF Fields
  <2>2. /\ To(d, "addBody").got = got /\ To(d, "addBody").req = c.req /\ To(d, "addBody").pc = "addBody"
        /\ To(d, "addBody").answer = c.answer /\ To(d, "addBody").did = c.did
        /\ DOMAIN To(d, "addBody") = Fields
    <3> HIDE DEF d
    <3> QED BY <2>1, ToFacts
  <2>3. body(got) = IF got.bodies = {} THEN End(d, "ok") ELSE To(d, "addBody")
    BY <2>1 DEF NextBody
  <2> HIDE DEF d, body
  <2>4. got.bodies # {} => CallOK(To(d, "addBody"))
    BY <1>0, <1>3, <2>2 DEF CallOK, Serves, DidOK, GotOK
  <2> QED BY <2>2, <2>3, <2>4, EndOK, EndFacts
<1>4. CASE AddEntry(r)
  <2>1. c.pc = "addEntry"
    BY <1>4 DEF AddEntry, At
  <2>2. c.got.bodies \subseteq Sides
    BY <1>0, <2>1 DEF CallOK, GotOK
  <2>3. CallOK(body([id |-> db.auto.access_log, bodies |-> c.got.bodies]))
    <3> HIDE DEF body
    <3> QED BY <1>3, <2>1, <2>2
  <2>4. \E after : Statement(r, after, body([id |-> db.auto.access_log, bodies |-> c.got.bodies]), End(c, "ok"))
    BY <1>4 DEF AddEntry
  <2> HIDE DEF body
  <2> QED BY <2>3, <2>4, EndOK, EndFacts, StatementCalls
<1>5. CASE AddBody(r)
  <2>1. c.pc = "addBody"
    BY <1>5 DEF AddBody, At
  <2>2. DOMAIN c.got = {"id", "bodies"} /\ c.got.bodies \subseteq Sides
    BY <1>0, <2>1 DEF CallOK, GotOK
  <2> DEFINE side == IF "request" \in c.got.bodies THEN "request" ELSE "response"
             got  == [c.got EXCEPT !.bodies = @ \ {side}]
  <2>3. [c EXCEPT !.got.bodies = @ \ {side}] = [c EXCEPT !.got = got]
    BY <1>0, <2>2 DEF Fields
  <2>4. \E after : Statement(r, after, body(got), body(got))
    BY <1>5, <2>3 DEF AddBody
  <2>5. DOMAIN got = {"id", "bodies"} /\ got.bodies \subseteq Sides
    BY <2>2
  <2> HIDE DEF body, got
  <2>6. CallOK(body(got))
    BY <1>3, <2>1, <2>5
  <2> QED BY <2>4, <2>6, StatementCalls
<1> QED BY <1>1, <1>2, <1>4, <1>5

LEMMA ViewCalls ==
  ASSUME ShapeOK, NEW r \in Callers, GetEntry(r) \/ LoadBodies(r)
  PROVE  \A q \in Callers : CallOK(calls'[q])
<1> DEFINE c == calls[r]
<1>0. DOMAIN c = Fields /\ CallOK(c)
  BY DEF ShapeOK, CallOK
<1>1. CASE GetEntry(r)
  <2>1. c.pc = "entry"
    BY <1>1 DEF GetEntry, At
  <2> DEFINE next == [To(c, "bodies") EXCEPT !.got = db.access_log[c.req.id]]
  <2>2. /\ DOMAIN next = Fields /\ next.pc = "bodies" /\ next.req = c.req /\ next.answer = c.answer
        /\ next.did = c.did
    BY <1>0, ToFacts DEF Fields
  <2>3. \/ Statement(r, db, End(c, "notfound"), End(c, "error"))
        \/ Statement(r, db, next, End(c, "error"))
    BY <1>1 DEF GetEntry, Query
  <2> HIDE DEF next
  <2>4. CallOK(next)
    BY <1>0, <2>1, <2>2 DEF CallOK, Serves, DidOK, GotOK
  <2> QED BY <2>3, <2>4, EndOK, EndFacts, StatementCalls
<1>2. CASE LoadBodies(r)
  <2>1. c.pc = "bodies"
    BY <1>2 DEF LoadBodies, At
  <2> DEFINE did  == [object |-> "access_log", id |-> c.req.id, action |-> "view_body"]
             next == [To(c, "audit") EXCEPT !.did = did]
  <2>2. /\ DOMAIN next = Fields /\ next.pc = "audit" /\ next.req = c.req /\ next.answer = c.answer
        /\ next.did = did
    BY <1>0, ToFacts DEF Fields
  <2>3. CallOK(next)
    <3> HIDE DEF next
    <3> QED BY <1>0, <2>1, <2>2 DEF CallOK, Serves, DidOK, GotOK
  <2>4. \A shown : Viewed(c, shown) \in {End(c, "ok"), next}
    BY DEF Viewed
  <2>5. \E a, b \in {End(c, "ok"), next} : Statement(r, db, a, b)
    BY <1>2, <2>4 DEF LoadBodies, Query
  <2> HIDE DEF next
  <2>6. \A a \in {End(c, "ok"), next} : CallOK(a)
    BY <2>3, EndOK
  <2> QED BY <2>5, <2>6, StatementCalls
<1> QED BY <1>1, <1>2

----------------------------------------------------------------------------
(* What each statement does to the tables.                                  *)

Keeps(T) == DOMAIN db' = Tables /\ \A table \in Tables \ T : db'[table] = db[table]

(* A query changes nothing.                                                 *)
LEMMA QueryFacts ==
  ASSUME NEW r, NEW ok, NEW failed, Query(r, ok, failed)
  PROVE  db' = db
BY DEF Query, Statement

(* Either the tables stay as they are or they are as the statement says.     *)
LEMMA EffectFacts ==
  ASSUME NEW r, NEW after, NEW ok, NEW failed, Statement(r, after, ok, failed)
  PROVE  db' = db \/ db' = after
BY DEF Statement

LEMMA QueriesOnly ==
  ASSUME NEW r,
         \/ Exists(r) \/ ReadBack(r) \/ ReadRow(r) \/ Credentials(r)
         \/ UserBySession(r) \/ AppByDomain(r) \/ AllowedToUser(r) \/ AllowedToGroup(r)
         \/ AppOfReport(r) \/ ApplyBodyAuditRule(r) \/ GetEntry(r) \/ LoadBodies(r)
  PROVE  db' = db
<1>1. \E ok, failed : Query(r, ok, failed) \/ db' = db
  BY DEF Exists, ReadBack, ReadRow, Credentials, UserBySession, AppByDomain, AllowedToUser, AllowedToGroup,
         AppOfReport, ApplyBodyAuditRule, GetEntry, LoadBodies
<1> QED BY <1>1, QueryFacts

(* The row a request adds, in its table, under the next id.                  *)
AddsRow(object, row) ==
  /\ object \in Objects
  /\ Keeps({object, "auto", "members"})
  /\ db'[object] = Put(db[object], db.auto[object], row)
  /\ db'.auto = [db.auto EXCEPT ![object] = @ + 1]
  /\ ~Taken(object, 0, row)
  /\ \A m \in db'.members : m \in db.members \/ (object = "group" /\ m[1] = db.auto[object])

(* The row it replaces.                                                     *)
SetsRow(object, id, row) ==
  /\ object \in Objects /\ id \in DOMAIN db[object]
  /\ Keeps({object, "members"})
  /\ db'[object] = [db[object] EXCEPT ![id] = row]
  /\ ~Taken(object, id, row)
  /\ object # "group" => db'.members = db.members
  /\ \A m \in db'.members : m \in db.members \/ m[1] = id

LEMMA SetMembersFacts ==
  ASSUME NEW d, DOMAIN d = Tables, NEW req, NEW id, NEW new, new = SetMembers(d, req, id)
  PROVE  /\ DOMAIN new = Tables /\ \A table \in Tables \ {"members"} : new[table] = d[table]
         /\ req.object # "group" => new.members = d.members
         /\ \A m \in new.members : m \in d.members \/ m[1] = id
<1>1. CASE req.object # "group"
  BY <1>1 DEF SetMembers
<1>2. CASE req.object = "group"
  <2> DEFINE members == {m \in d.members : m[1] # id} \cup {<<id, req.members[i]>> : i \in DOMAIN req.members}
  <2>1. SetMembers(d, req, id) = [d EXCEPT !.members = members]
    BY <1>2 DEF SetMembers
  <2>2. \A m \in members : m \in d.members \/ m[1] = id
    OBVIOUS
  <2>3. "members" \in Tables
    BY DEF Tables
  <2> HIDE DEF members
  <2> QED BY <1>2, <2>1, <2>2, <2>3
<1> QED BY <1>1, <1>2

LEMMA AddingFacts ==
  ASSUME TablesThere, NEW object \in Objects, NEW row, NEW id, id = db.auto[object],
         ~Taken(object, 0, row), NEW req, req.object = object,
         db' = SetMembers([db EXCEPT ![object] = Put(@, id, row), !.auto[object] = id + 1], req, id)
  PROVE  AddsRow(object, row)
<1> DEFINE new == [db EXCEPT ![object] = Put(@, id, row), !.auto[object] = id + 1]
<1>1. /\ DOMAIN new = Tables /\ new[object] = Put(db[object], id, row)
      /\ new.auto = [db.auto EXCEPT ![object] = @ + 1]
      /\ \A table \in Tables \ {object, "auto"} : new[table] = db[table]
      /\ new.members = db.members
  BY DEF TablesThere, Objects, Numbered, Tables
<1>2. object # "auto" /\ object # "members" /\ {object, "auto", "members"} \subseteq Tables
  BY DEF Objects, Numbered, Tables
<1>3. db' = SetMembers(new, req, id)
  OBVIOUS
<1> HIDE DEF new
<1>4. /\ DOMAIN db' = Tables /\ \A table \in Tables \ {"members"} : db'[table] = new[table]
      /\ req.object # "group" => db'.members = new.members
      /\ \A m \in db'.members : m \in new.members \/ m[1] = id
  <2>1. DOMAIN new = Tables
    BY <1>1
  <2> QED BY ONLY <2>1, <1>3, SetMembersFacts
<1>5. Keeps({object, "auto", "members"})
  BY <1>1, <1>4 DEF Keeps
<1>6. db'[object] = Put(db[object], id, row) /\ db'.auto = [db.auto EXCEPT ![object] = @ + 1]
  <2>1. object \in Tables \ {"members"} /\ "auto" \in Tables \ {"members"}
    BY <1>2
  <2>2. db'[object] = new[object]
    BY <1>4, <2>1
  <2>3. db'["auto"] = new["auto"]
    BY <1>4, <2>1
  <2> QED BY <1>1, <2>2, <2>3
<1> QED BY <1>1, <1>4, <1>5, <1>6 DEF AddsRow

LEMMA SettingFacts ==
  ASSUME TablesThere, NEW object \in Objects, NEW row, NEW id \in DOMAIN db[object],
         ~Taken(object, id, row), NEW req, req.object = object,
         db' = SetMembers([db EXCEPT ![object][id] = row], req, id)
  PROVE  SetsRow(object, id, row)
<1> DEFINE new == [db EXCEPT ![object][id] = row]
<1>1. /\ DOMAIN new = Tables /\ new[object] = [db[object] EXCEPT ![id] = row]
      /\ \A table \in Tables \ {object} : new[table] = db[table]
      /\ new.members = db.members
  BY DEF TablesThere, Objects, Numbered, Tables
<1>2. object # "members" /\ {object, "members"} \subseteq Tables
  BY DEF Objects, Numbered, Tables
<1>3. db' = SetMembers(new, req, id)
  OBVIOUS
<1> HIDE DEF new
<1>4. /\ DOMAIN db' = Tables /\ \A table \in Tables \ {"members"} : db'[table] = new[table]
      /\ req.object # "group" => db'.members = new.members
      /\ \A m \in db'.members : m \in new.members \/ m[1] = id
  <2>1. DOMAIN new = Tables
    BY <1>1
  <2> QED BY ONLY <2>1, <1>3, SetMembersFacts
<1>5. Keeps({object, "members"})
  BY <1>1, <1>4 DEF Keeps
<1>6. db'[object] = [db[object] EXCEPT ![id] = row]
  BY <1>1, <1>2, <1>4
<1> QED BY <1>1, <1>4, <1>5, <1>6 DEF SetsRow

LEMMA InsertEffect ==
  ASSUME ShapeOK, NEW r \in Callers, Insert(r)
  PROVE  db' = db \/ AddsRow(calls[r].req.object, Stored(calls[r].req))
<1> DEFINE req == calls[r].req
           id  == db.auto[req.object]
           new == [db EXCEPT ![req.object] = Put(@, id, Stored(req)), !.auto[req.object] = id + 1]
<1>1. req.object \in Objects
  BY DEF Insert, At, ShapeOK, CallOK, Serves, RequestOK
<1>2. \/ \E ok, failed : Query(r, ok, failed)
      \/ /\ ~Taken(req.object, 0, Stored(req))
         /\ \E ok, failed : Statement(r, SetMembers(new, req, id), ok, failed)
  BY DEF Insert
<1>3. db' = db \/ (~Taken(req.object, 0, Stored(req)) /\ db' = SetMembers(new, req, id))
  <2> HIDE DEF new
  <2> QED BY <1>2, QueryFacts, EffectFacts
<1> QED BY <1>1, <1>3, AddingFacts DEF ShapeOK

LEMMA WriteEffect ==
  ASSUME ShapeOK, NEW r \in Callers, WriteRow(r)
  PROVE  \/ db' = db
         \/ SetsRow(calls[r].req.object, calls[r].req.id, Merged(calls[r].req, calls[r].got))
<1> DEFINE req == calls[r].req
           id  == req.id
           row == Merged(req, calls[r].got)
           new == [db EXCEPT ![req.object][id] = row]
<1>1. req.object \in Objects \ {"group"}
  BY DEF WriteRow, At, ShapeOK, CallOK, Serves, RequestOK
<1>2. \/ \E ok, failed : Query(r, ok, failed)
      \/ \E ok, failed : Statement(r, db, ok, failed)
      \/ /\ id \in DOMAIN db[req.object] /\ ~Taken(req.object, id, row)
         /\ \E ok, failed : Statement(r, new, ok, failed)
  BY DEF WriteRow
<1>3. new = SetMembers(new, req, id)
  BY <1>1 DEF SetMembers
<1>4. db' = db \/ (id \in DOMAIN db[req.object] /\ ~Taken(req.object, id, row) /\ db' = new)
  <2> HIDE DEF new
  <2> QED BY <1>2, QueryFacts, EffectFacts
<1>5. ASSUME id \in DOMAIN db[req.object], ~Taken(req.object, id, row), db' = new
      PROVE  SetsRow(req.object, id, row)
  <2>1. db' = SetMembers(new, req, id)
    BY <1>3, <1>5
  <2> HIDE DEF row
  <2> QED BY <1>1, <1>5, <2>1, SettingFacts DEF ShapeOK
<1> QED BY <1>4, <1>5

LEMMA ReplaceEffect ==
  ASSUME ShapeOK, NEW r \in Callers, Replace(r)
  PROVE  \/ db' = db
         \/ SetsRow(calls[r].req.object, calls[r].req.id, Stored(calls[r].req))
<1> DEFINE req == calls[r].req
           id  == req.id
           row == Stored(req)
           new == [db EXCEPT ![req.object][id] = row]
<1>1. req.object \in Objects
  BY DEF Replace, At, ShapeOK, CallOK, Serves, RequestOK
<1>2. \/ \E ok, failed : Query(r, ok, failed)
      \/ /\ id \in DOMAIN db[req.object] /\ ~Taken(req.object, id, row)
         /\ \E ok, failed : Statement(r, SetMembers(new, req, id), ok, failed)
  BY DEF Replace, Affected
<1>3. \/ db' = db
      \/ id \in DOMAIN db[req.object] /\ ~Taken(req.object, id, row) /\ db' = SetMembers(new, req, id)
  <2> HIDE DEF new
  <2> QED BY <1>2, QueryFacts, EffectFacts
<1> QED BY <1>1, <1>3, SettingFacts DEF ShapeOK

(* The rows a statement drops from a table.                                  *)
DropsRows(table, K) == Keeps({table}) /\ db'[table] = Drop(db[table], K)

LEMMA DeleteEffect ==
  ASSUME ShapeOK, NEW r \in Callers, DeleteRow(r)
  PROVE  \/ db' = db
         \/ /\ calls[r].req.object \in Objects
            /\ calls[r].req.id \in DOMAIN db[calls[r].req.object]
            /\ DropsRows(calls[r].req.object, {calls[r].req.id})
<1> DEFINE c      == calls[r]
           object == c.req.object
           id     == c.req.id
           new    == [db EXCEPT ![object] = Drop(@, {id})]
<1>1. object \in Objects
  BY DEF DeleteRow, At, ShapeOK, CallOK, Serves, RequestOK
<1>2. db' = db \/ (id \in DOMAIN db[object] /\ db' = new)
  <2> HIDE DEF new
  <2>1. \/ \E ok, failed : Query(r, ok, failed)
        \/ id \in DOMAIN db[object] /\ \E ok, failed : Statement(r, new, ok, failed)
    BY DEF DeleteRow, new
  <2> QED BY <2>1, QueryFacts, EffectFacts
<1>3. /\ DOMAIN new = Tables /\ new[object] = Drop(db[object], {id})
      /\ \A table \in Tables \ {object} : new[table] = db[table]
  BY <1>1 DEF ShapeOK, TablesThere, Objects, Numbered, Tables
<1> HIDE DEF new
<1> QED BY <1>1, <1>2, <1>3 DEF DropsRows, Keeps

(* What a deletion cleans up after itself.                                  *)
CleansUp(what, object, id) ==
  \/ /\ what = "members" /\ Keeps({"members"})
     /\ db'.members = {m \in db.members : m[IF object = "group" THEN 1 ELSE 2] # id}
  \/ what = "policies" /\ DropsRows("policy", {k \in DOMAIN db.policy : Names(db.policy[k], object, id)})
  \/ what = "sessions" /\ DropsRows("sessions", {t \in DOMAIN db.sessions : db.sessions[t].user = id})
  \/ what = "rules" /\ DropsRows("body_rule", {k \in DOMAIN db.body_rule : db.body_rule[k].rule.app = id})

LEMMA CleanEffect ==
  ASSUME ShapeOK, NEW r \in Callers, CleanUp(r)
  PROVE  /\ calls[r].got.rest \in Rests[calls[r].req.object] /\ calls[r].req.object \in Objects
         /\ db' = db \/ CleansUp(Head(calls[r].got.rest), calls[r].req.object, calls[r].req.id)
<1> DEFINE c      == calls[r]
           object == c.req.object
           id     == c.req.id
           what   == Head(c.got.rest)
<1>1. object \in Objects /\ c.got.rest \in Rests[object]
  BY DEF CleanUp, At, ShapeOK, CallOK, Serves, RequestOK, GotOK
<1>2. what \in {"members", "policies", "sessions", "rules"}
  BY <1>1, RestFacts
<1>3. db' = db \/ db' = Cleaned(what, object, id)
  <2>1. \E ok, failed : Statement(r, Cleaned(what, object, id), ok, failed)
    BY DEF CleanUp
  <2> QED BY <2>1, EffectFacts
<1>4. DOMAIN db = Tables /\ {"members", "policy", "sessions", "body_rule"} \subseteq Tables
  BY DEF ShapeOK, TablesThere, Tables, Numbered, Objects
<1> HIDE DEF what, object, id
<1>5. db' = Cleaned(what, object, id) => CleansUp(what, object, id)
  <2>1. CASE what = "members"
    BY <1>4, <2>1 DEF Cleaned, CleansUp, Keeps
  <2>2. CASE what = "policies"
    BY <1>4, <2>2 DEF Cleaned, CleansUp, Keeps, DropsRows
  <2>3. CASE what = "sessions"
    BY <1>4, <2>3 DEF Cleaned, CleansUp, Keeps, DropsRows
  <2>4. CASE what = "rules"
    BY <1>4, <2>4 DEF Cleaned, CleansUp, Keeps, DropsRows
  <2> QED BY <1>2, <2>1, <2>2, <2>3, <2>4
<1> QED BY <1>1, <1>3, <1>5 DEF what, object, id

(* A log grows by one entry.                                                *)
Logs(table, entry) == Keeps({table}) /\ db'[table] = Append(db[table], entry)

LEMMA AdminLogEffect ==
  ASSUME ShapeOK, NEW r \in Callers, AddAdminLog(r)
  PROVE  db' = db \/ Logs("adminLogs", calls[r].did)
<1>1. db' = db \/ db' = [db EXCEPT !.adminLogs = Append(@, calls[r].did)]
  BY EffectFacts DEF AddAdminLog
<1>2. DOMAIN db = Tables /\ "adminLogs" \in Tables
  BY DEF ShapeOK, TablesThere, Tables
<1> QED BY <1>1, <1>2 DEF Logs, Keeps

LEMMA LogFailureEffect ==
  ASSUME ShapeOK, NEW r \in Callers, LogFailure(r)
  PROVE  db' = db \/ Logs("loginLogs", LoginEntry(calls[r].req, "failure"))
<1>1. db' = db \/ db' = [db EXCEPT !.loginLogs = Append(@, LoginEntry(calls[r].req, "failure"))]
  BY EffectFacts DEF LogFailure
<1>2. DOMAIN db = Tables /\ "loginLogs" \in Tables
  BY DEF ShapeOK, TablesThere, Tables
<1> QED BY <1>1, <1>2 DEF Logs, Keeps

(* The session a login opens, and its entry in the login log.                *)
OpensSession(t, user, entry) ==
  /\ t \in Tokens \ issued
  /\ Keeps({"sessions", "loginLogs"})
  /\ db'.sessions = Put(db.sessions, t, [user |-> user, expires |-> now + SessionTTL])
  /\ db'.loginLogs = Append(db.loginLogs, entry)

LEMMA SignInEffect ==
  ASSUME ShapeOK, NEW r \in Callers, SignIn(r)
  PROVE  \/ db' = db
         \/ \E t : OpensSession(t, calls[r].got.user, LoginEntry(calls[r].req, "success"))
<1> DEFINE session == [user |-> calls[r].got.user, expires |-> now + SessionTTL]
           entry   == LoginEntry(calls[r].req, "success")
           new(t)  == [db EXCEPT !.sessions = Put(@, t, session), !.loginLogs = Append(@, entry)]
<1>1. PICK t \in Tokens \ issued : \E ok, failed : Statement(r, new(t), ok, failed)
  BY DEF SignIn
<1>2. db' = db \/ db' = new(t)
  <2> HIDE DEF new
  <2> QED BY <1>1, EffectFacts
<1>3. DOMAIN db = Tables /\ {"sessions", "loginLogs"} \subseteq Tables
  BY DEF ShapeOK, TablesThere, Tables
<1>4. /\ DOMAIN new(t) = Tables /\ \A table \in Tables \ {"sessions", "loginLogs"} : new(t)[table] = db[table]
      /\ new(t).sessions = Put(db.sessions, t, session) /\ new(t).loginLogs = Append(db.loginLogs, entry)
  <2> HIDE DEF session, entry
  <2> QED BY <1>3
<1> HIDE DEF new, entry
<1>5. db' = new(t) => OpensSession(t, calls[r].got.user, entry)
  BY <1>4 DEF OpensSession, Keeps
<1> QED BY <1>2, <1>5 DEF entry

LEMMA LogoutEffect ==
  ASSUME ShapeOK, NEW r \in Callers, Logout(r)
  PROVE  db' = db \/ DropsRows("sessions", {calls[r].req.token})
<1>1. db' = db \/ db' = [db EXCEPT !.sessions = Drop(@, {calls[r].req.token})]
  BY EffectFacts DEF Logout
<1>2. DOMAIN db = Tables /\ "sessions" \in Tables
  BY DEF ShapeOK, TablesThere, Tables
<1> QED BY <1>1, <1>2 DEF DropsRows, Keeps

(* The entry a report becomes, and the bodies that follow it.                *)
AddsEntry(row) ==
  /\ Keeps({"access_log", "auto"})
  /\ db'.access_log = Put(db.access_log, db.auto.access_log, row)
  /\ db'.auto = [db.auto EXCEPT !.access_log = @ + 1]

EntryRow(log) ==
  [kind |-> log.kind, app |-> log.app, rule |-> log.rule, flags |-> log.flags, asked |-> log.asked]

LEMMA AddEntryEffect ==
  ASSUME ShapeOK, NEW r \in Callers, AddEntry(r)
  PROVE  db' = db \/ AddsEntry(EntryRow(calls[r].got))
<1> DEFINE id  == db.auto.access_log
           row == EntryRow(calls[r].got)
           new == [db EXCEPT !.access_log = Put(@, id, row), !.auto.access_log = id + 1]
<1>1. \E ok, failed : Statement(r, new, ok, failed)
  BY DEF AddEntry, EntryRow
<1>2. db' = db \/ db' = new
  <2> HIDE DEF new
  <2> QED BY <1>1, EffectFacts
<1>3. /\ DOMAIN db = Tables /\ {"access_log", "auto"} \subseteq Tables
      /\ DOMAIN db.auto = Numbered /\ "access_log" \in Numbered
  BY DEF ShapeOK, TablesThere, Tables, Numbered
<1>4. /\ DOMAIN new = Tables /\ \A table \in Tables \ {"access_log", "auto"} : new[table] = db[table]
      /\ new.access_log = Put(db.access_log, id, row) /\ new.auto = [db.auto EXCEPT !.access_log = @ + 1]
  <2> HIDE DEF row
  <2> QED BY <1>3
<1> HIDE DEF new, row
<1>5. db' = new => AddsEntry(row)
  BY <1>4 DEF AddsEntry, Keeps
<1> QED BY <1>2, <1>5 DEF row

AddsBody(id, side) == Keeps({"bodies"}) /\ db'.bodies = db.bodies \cup {<<id, side>>}

LEMMA AddBodyEffect ==
  ASSUME ShapeOK, NEW r \in Callers, AddBody(r)
  PROVE  db' = db \/ \E side \in calls[r].got.bodies : AddsBody(calls[r].got.id, side)
<1> DEFINE side == IF "request" \in calls[r].got.bodies THEN "request" ELSE "response"
<1>1. db' = db \/ db' = [db EXCEPT !.bodies = @ \cup {<<calls[r].got.id, side>>}]
  BY EffectFacts DEF AddBody
<1>2. DOMAIN db = Tables /\ "bodies" \in Tables
  BY DEF ShapeOK, TablesThere, Tables
<1>3. side \in calls[r].got.bodies
  BY DEF ShapeOK, CallOK, GotOK, AddBody, At, Sides
<1> HIDE DEF side
<1>4. db' = [db EXCEPT !.bodies = @ \cup {<<calls[r].got.id, side>>}] => AddsBody(calls[r].got.id, side)
  BY <1>2 DEF AddsBody, Keeps
<1> QED BY <1>1, <1>3, <1>4

(* The administrator a restart makes sure of.                                *)
Admin == [name |-> AdminName, status |-> "active", admin |-> TRUE, password |-> AdminPassword]

LEMMA RestartEffect ==
  ASSUME ShapeOK, Restart
  PROVE  db' = db \/ AddsRow("user", Admin)
<1> DEFINE new == [db EXCEPT !.user = Put(@, db.auto.user, Admin), !.auto.user = @ + 1]
<1>1. db' = db \/ (~Taken("user", 0, Admin) /\ db' = new)
  BY DEF Restart, Admin
<1>2. /\ DOMAIN db = Tables /\ {"user", "auto", "members"} \subseteq Tables /\ "user" \in Objects
      /\ DOMAIN db.auto = Numbered /\ "user" \in Numbered
  BY DEF ShapeOK, TablesThere, Tables, Numbered, Objects
<1>3. /\ DOMAIN new = Tables /\ \A table \in Tables \ {"user", "auto"} : new[table] = db[table]
      /\ new.user = Put(db.user, db.auto.user, Admin) /\ new.auto = [db.auto EXCEPT !.user = @ + 1]
      /\ new.members = db.members
  BY <1>2 DEF Admin
<1> HIDE DEF new
<1> QED BY <1>1, <1>2, <1>3 DEF AddsRow, Keeps

----------------------------------------------------------------------------
(* The shape is kept.                                                       *)

Statements(r) == DirectoryStep(r) \/ AccessStep(r) \/ AuditStep(r)

LEMMA FrameFacts ==
  ASSUME ShapeOK, NEW r \in Callers, NEW after, NEW ok, NEW failed, Statement(r, after, ok, failed)
  PROVE  /\ UNCHANGED <<server, now, started, mix>> /\ Observe
         /\ DOMAIN calls' = Callers /\ \A q \in Callers \ {r} : calls'[q] = calls[q]
         /\ faults' \in faults..MaxFaults
<1>1. faults \in 0..MaxFaults /\ MaxFaults \in Nat /\ DOMAIN calls = Callers
  BY BoundsAssumption DEF ShapeOK
<1>2. faults' \in faults..MaxFaults
  BY <1>1 DEF Statement
<1> QED BY <1>1, <1>2 DEF Statement, bounds

(* A statement of one request leaves the others alone.                       *)
LEMMA StepFrame ==
  ASSUME ShapeOK, NEW r \in Callers, Statements(r)
  PROVE  /\ UNCHANGED <<server, now, started, mix>> /\ Observe
         /\ server = "up" /\ calls[r].pc # "end"
         /\ DOMAIN calls' = Callers /\ \A q \in Callers \ {r} : calls'[q] = calls[q]
         /\ faults' \in faults..MaxFaults
<1>1. CASE DirectoryStep(r)
  <2>1. \E after, ok, failed : Statement(r, after, ok, failed)
    BY <1>1 DEF DirectoryStep, Exists, Insert, ReadBack, ReadRow, WriteRow, Replace, DeleteRow, CleanUp,
                AddAdminLog, Query
  <2>2. server = "up" /\ calls[r].pc # "end"
    BY <1>1 DEF DirectoryStep, Exists, Insert, ReadBack, ReadRow, WriteRow, Replace, DeleteRow, CleanUp,
                AddAdminLog, At
  <2> QED BY <2>1, <2>2, FrameFacts
<1>2. CASE AccessStep(r)
  <2>1. \E after, ok, failed : Statement(r, after, ok, failed)
    BY <1>2 DEF AccessStep, Credentials, LogFailure, SignIn, Logout, UserBySession, AppByDomain,
                AllowedToUser, AllowedToGroup, Query
  <2>2. server = "up" /\ calls[r].pc # "end"
    BY <1>2 DEF AccessStep, Credentials, LogFailure, SignIn, Logout, UserBySession, AppByDomain,
                AllowedToUser, AllowedToGroup, At
  <2> QED BY <2>1, <2>2, FrameFacts
<1>3. CASE AuditStep(r)
  <2>1. \/ \E after, ok, failed : Statement(r, after, ok, failed)
        \/ /\ \E c : calls' = [calls EXCEPT ![r] = c]
           /\ UNCHANGED <<faults, server, bounds>> /\ Observe
    BY <1>3 DEF AuditStep, AppOfReport, ApplyBodyAuditRule, AddEntry, AddBody, GetEntry, LoadBodies, Query
  <2>2. server = "up" /\ calls[r].pc # "end"
    BY <1>3 DEF AuditStep, AppOfReport, ApplyBodyAuditRule, AddEntry, AddBody, GetEntry, LoadBodies, At
  <2>3. ASSUME NEW c, calls' = [calls EXCEPT ![r] = c], UNCHANGED <<faults, server, bounds>>, Observe
        PROVE  /\ UNCHANGED <<server, now, started, mix>>
               /\ DOMAIN calls' = Callers /\ \A q \in Callers \ {r} : calls'[q] = calls[q]
               /\ faults' \in faults..MaxFaults
    BY <2>3, BoundsAssumption DEF ShapeOK, bounds
  <2> QED BY <2>1, <2>2, <2>3, FrameFacts
<1> QED BY <1>1, <1>2, <1>3 DEF Statements

LEMMA StepCalls ==
  ASSUME ShapeOK, NEW r \in Callers, Statements(r)
  PROVE  \A q \in Callers : CallOK(calls'[q])
BY CreateCalls, UpdateCalls, DeleteCalls, SessionCalls, CheckCalls, ReportCalls, ViewCalls
   DEF Statements, DirectoryStep, AccessStep, AuditStep

(* What a request's statement may do to the tables.                          *)
StepEffect(r) ==
  LET c      == calls[r]
      object == c.req.object
      id     == c.req.id
  IN  \/ c.pc = "insert" /\ AddsRow(object, Stored(c.req))
      \/ c.pc = "write" /\ SetsRow(object, id, Merged(c.req, c.got))
      \/ c.pc = "replace" /\ SetsRow(object, id, Stored(c.req))
      \/ c.pc = "row" /\ object \in Objects /\ id \in DOMAIN db[object] /\ DropsRows(object, {id})
      \/ /\ c.pc = "clean" /\ object \in Objects /\ c.got.rest \in Rests[object]
         /\ CleansUp(Head(c.got.rest), object, id)
      \/ c.pc = "audit" /\ Logs("adminLogs", c.did)
      \/ c.pc = "logFailure" /\ Logs("loginLogs", LoginEntry(c.req, "failure"))
      \/ c.pc = "signIn" /\ \E t : OpensSession(t, c.got.user, LoginEntry(c.req, "success"))
      \/ c.pc = "logout" /\ DropsRows("sessions", {c.req.token})
      \/ c.pc = "addEntry" /\ AddsEntry(EntryRow(c.got))
      \/ c.pc = "addBody" /\ \E side \in c.got.bodies : AddsBody(c.got.id, side)

LEMMA StepEffects ==
  ASSUME ShapeOK, NEW r \in Callers, Statements(r)
  PROVE  db' = db \/ StepEffect(r)
<1>1. CASE Insert(r)
  BY <1>1, InsertEffect DEF StepEffect, Insert, At
<1>2. CASE WriteRow(r)
  BY <1>2, WriteEffect DEF StepEffect, WriteRow, At
<1>3. CASE Replace(r)
  BY <1>3, ReplaceEffect DEF StepEffect, Replace, At
<1>4. CASE DeleteRow(r)
  BY <1>4, DeleteEffect DEF StepEffect, DeleteRow, At
<1>5. CASE CleanUp(r)
  BY <1>5, CleanEffect DEF StepEffect, CleanUp, At
<1>6. CASE AddAdminLog(r)
  BY <1>6, AdminLogEffect DEF StepEffect, AddAdminLog, At
<1>7. CASE LogFailure(r)
  BY <1>7, LogFailureEffect DEF StepEffect, LogFailure, At
<1>8. CASE SignIn(r)
  BY <1>8, SignInEffect DEF StepEffect, SignIn, At
<1>9. CASE Logout(r)
  BY <1>9, LogoutEffect DEF StepEffect, Logout, At
<1>10. CASE AddEntry(r)
  BY <1>10, AddEntryEffect DEF StepEffect, AddEntry, At
<1>11. CASE AddBody(r)
  BY <1>11, AddBodyEffect DEF StepEffect, AddBody, At
<1> QED BY <1>1, <1>2, <1>3, <1>4, <1>5, <1>6, <1>7, <1>8, <1>9, <1>10, <1>11, QueriesOnly
        DEF Statements, DirectoryStep, AccessStep, AuditStep

LEMMA AddsThere ==
  ASSUME TablesThere, NEW object \in Objects, NEW row, AddsRow(object, row)
  PROVE  TablesThere'
<1>1. object \in Numbered /\ object \notin {"auto", "members", "access_log"} /\ Numbered \subseteq Tables
  BY DEF Objects, Numbered, Tables
<1>2. DOMAIN db' = Tables /\ DOMAIN db'.auto = Numbered
  BY <1>1 DEF TablesThere, AddsRow, Keeps
<1>3. ASSUME NEW table \in Numbered
      PROVE  /\ db'.auto[table] \in Nat \ {0}
             /\ DOMAIN db'[table] \subseteq 1..(db'.auto[table] - 1)
  <2>1. /\ db.auto[table] \in Nat \ {0} /\ DOMAIN db[table] \subseteq 1..(db.auto[table] - 1)
        /\ DOMAIN db.auto = Numbered
    BY <1>3 DEF TablesThere
  <2>2. CASE table = object
    <3>1. db'.auto[table] = db.auto[table] + 1
      BY <2>1, <2>2 DEF AddsRow
    <3>2. DOMAIN db'[table] = DOMAIN db[table] \cup {db.auto[table]}
      BY <2>2 DEF AddsRow, Put
    <3> QED BY <2>1, <3>1, <3>2
  <2>3. CASE table # object
    <3>1. db'.auto[table] = db.auto[table]
      BY <2>1, <2>3 DEF AddsRow
    <3>2. table \in Tables \ {object, "auto", "members"}
      BY <1>1, <2>3 DEF Numbered, Objects
    <3>3. db'[table] = db[table]
      BY <3>2 DEF AddsRow, Keeps
    <3> QED BY <2>1, <3>1, <3>3
  <2> QED BY <2>2, <2>3
<1> QED BY <1>2, <1>3 DEF TablesThere

LEMMA EntryThere ==
  ASSUME TablesThere, NEW row, AddsEntry(row)
  PROVE  TablesThere'
<1>1. DOMAIN db' = Tables /\ DOMAIN db'.auto = Numbered
  BY DEF TablesThere, AddsEntry, Keeps
<1>2. ASSUME NEW table \in Numbered
      PROVE  /\ db'.auto[table] \in Nat \ {0}
             /\ DOMAIN db'[table] \subseteq 1..(db'.auto[table] - 1)
  <2>1. /\ db.auto[table] \in Nat \ {0} /\ DOMAIN db[table] \subseteq 1..(db.auto[table] - 1)
        /\ DOMAIN db.auto = Numbered
    BY <1>2 DEF TablesThere
  <2>2. CASE table = "access_log"
    <3>1. db'.auto[table] = db.auto[table] + 1
      BY <2>1, <2>2 DEF AddsEntry
    <3>2. DOMAIN db'[table] = DOMAIN db[table] \cup {db.auto[table]}
      BY <2>2 DEF AddsEntry, Put
    <3> QED BY <2>1, <3>1, <3>2
  <2>3. CASE table # "access_log"
    <3>1. db'.auto[table] = db.auto[table]
      BY <2>1, <2>3 DEF AddsEntry
    <3>2. table \in Tables \ {"access_log", "auto"}
      BY <2>3 DEF Numbered, Objects, Tables
    <3>3. db'[table] = db[table]
      BY <3>2 DEF AddsEntry, Keeps
    <3> QED BY <2>1, <3>1, <3>3
  <2> QED BY <2>2, <2>3
<1> QED BY <1>1, <1>2 DEF TablesThere

(* Whatever replaces or drops rows leaves the counters as they are.          *)
LEMMA OthersThere ==
  ASSUME TablesThere, NEW T, Keeps(T), "auto" \notin T,
         \A table \in T \cap Numbered : DOMAIN db'[table] \subseteq DOMAIN db[table]
  PROVE  TablesThere'
<1>1. "auto" \in Tables /\ Numbered \subseteq Tables
  BY DEF Tables
<1>2. DOMAIN db' = Tables /\ db'.auto = db.auto
  BY <1>1 DEF Keeps
<1>3. ASSUME NEW table \in Numbered
      PROVE  DOMAIN db'[table] \subseteq DOMAIN db[table]
  BY <1>1 DEF Keeps
<1>4. ASSUME NEW table \in Numbered
      PROVE  /\ db'.auto[table] \in Nat \ {0}
             /\ DOMAIN db'[table] \subseteq 1..(db'.auto[table] - 1)
  <2>1. db.auto[table] \in Nat \ {0} /\ DOMAIN db[table] \subseteq 1..(db.auto[table] - 1)
    BY <1>4 DEF TablesThere
  <2> QED BY <1>2, <1>3, <2>1
<1>5. DOMAIN db'.auto = Numbered
  BY <1>2 DEF TablesThere
<1> QED BY <1>2, <1>4, <1>5 DEF TablesThere

LEMMA StepThere ==
  ASSUME ShapeOK, NEW r \in Callers, StepEffect(r)
  PROVE  TablesThere'
<1>0. TablesThere
  BY DEF ShapeOK
<1>1. ASSUME NEW object, NEW row, AddsRow(object, row)
      PROVE  TablesThere'
  BY <1>0, <1>1, AddsThere DEF AddsRow
<1>2. ASSUME NEW object, NEW id, NEW row, SetsRow(object, id, row)
      PROVE  TablesThere'
  <2>1. object # "auto" /\ "members" \notin Numbered
    BY <1>2 DEF SetsRow, Objects, Numbered
  <2>2. Keeps({object, "members"}) /\ DOMAIN db'[object] = DOMAIN db[object]
    BY <1>2 DEF SetsRow
  <2>3. \A table \in {object, "members"} \cap Numbered : DOMAIN db'[table] \subseteq DOMAIN db[table]
    BY <2>1, <2>2
  <2> QED BY <1>0, <2>1, <2>2, <2>3, OthersThere
<1>3. ASSUME NEW table, NEW K, table # "auto", DropsRows(table, K)
      PROVE  TablesThere'
  <2>1. \A x \in {table} \cap Numbered : DOMAIN db'[x] \subseteq DOMAIN db[x]
    BY <1>3 DEF DropsRows, Drop
  <2> QED BY <1>0, <1>3, <2>1, OthersThere DEF DropsRows
<1>4. ASSUME NEW T, Keeps(T), T \cap (Numbered \cup {"auto"}) = {}
      PROVE  TablesThere'
  BY <1>0, <1>4, OthersThere
<1>5. ASSUME NEW what, NEW object, NEW id, CleansUp(what, object, id)
      PROVE  TablesThere'
  <2>1. CASE Keeps({"members"})
    BY <2>1, <1>4 DEF Numbered, Objects
  <2> QED BY <1>5, <2>1, <1>3 DEF CleansUp
<1>6. ASSUME NEW table, NEW entry, table \in {"adminLogs", "loginLogs"}, Logs(table, entry)
      PROVE  TablesThere'
  BY <1>4, <1>6 DEF Logs, Numbered, Objects
<1>7. ASSUME NEW t, NEW user, NEW entry, OpensSession(t, user, entry)
      PROVE  TablesThere'
  BY <1>4, <1>7 DEF OpensSession, Numbered, Objects
<1>8. ASSUME NEW row, AddsEntry(row)
      PROVE  TablesThere'
  BY <1>0, <1>8, EntryThere
<1>9. ASSUME NEW id, NEW side, AddsBody(id, side)
      PROVE  TablesThere'
  BY <1>4, <1>9 DEF AddsBody, Numbered, Objects
<1>10. "auto" \notin Objects
  BY DEF Objects
<1> QED BY <1>1, <1>2, <1>3, <1>5, <1>6, <1>7, <1>8, <1>9, <1>10 DEF StepEffect

LEMMA StartCall ==
  ASSUME ShapeOK, NEW r \in Callers, Start(r)
  PROVE  /\ UNCHANGED <<db, server, now, faults, mix>> /\ Observe
         /\ server = "up" /\ calls[r].pc = "end"
         /\ DOMAIN calls' = Callers /\ \A q \in Callers \ {r} : calls'[q] = calls[q]
         /\ \E req : /\ RequestOK(req)
                     /\ calls'[r] = [Idle EXCEPT !.req = req, !.pc = First(req), !.since = now]
         /\ CallOK(calls'[r])
<1>1. PICK req \in mix : calls' = [calls EXCEPT ![r] = [Idle EXCEPT !.req = req, !.pc = First(req), !.since = now]]
  BY DEF Start
<1>2. RequestOK(req) /\ ReportOK(req)
  BY <1>1, MixesAssumption, ReportsAssumption DEF ShapeOK
<1> DEFINE c == [Idle EXCEPT !.req = req, !.pc = First(req), !.since = now]
<1>3. DOMAIN c = Fields /\ c.req = req /\ c.pc = First(req) /\ c.answer = "none" /\ c.did = NoEntry
  BY DEF Idle, Fields
<1>4. calls'[r] = c /\ DOMAIN calls' = Callers /\ \A q \in Callers \ {r} : calls'[q] = calls[q]
  BY <1>1 DEF ShapeOK
<1> HIDE DEF c
<1>5. /\ First(req) \in {"exists", "insert", "read", "replace", "row", "credentials", "logout", "session",
                         "host", "entry"}
      /\ Serves(First(req), req)
  <2>1. req.action \in {"create", "update", "delete", "login", "logout", "check", "report", "view"}
        /\ (req.action \in {"create", "update", "delete"} => req.object \in Objects)
        /\ (req.action = "update" => req.object # "policy")
    BY <1>2 DEF RequestOK
  <2> QED BY <2>1 DEF First, Serves, Objects
<1>6. DidOK(c) /\ GotOK(c)
  BY <1>3, <1>5 DEF DidOK, GotOK
<1>7. CallOK(c)
  BY <1>2, <1>3, <1>5, <1>6 DEF CallOK
<1> QED BY <1>1, <1>2, <1>4, <1>7 DEF Start, At, c

LEMMA ShapeStep ==
  ASSUME ShapeOK, [Next]_vars
  PROVE  ShapeOK'
<1>0. MaxFaults \in Nat /\ MaxTime \in Nat
  BY BoundsAssumption
<1>1. CASE Crash
  <2>1. calls' = [r \in Callers |-> Idle] /\ CallOK(Idle)
    BY <1>1 DEF Crash, CallOK, Idle, Fields
  <2>2. faults' \in 0..MaxFaults
    BY <1>0, <1>1 DEF Crash, ShapeOK
  <2> QED BY <1>1, <2>1, <2>2 DEF Crash, bounds, ShapeOK, TablesThere
<1>2. CASE Restart
  <2>1. UNCHANGED <<calls, faults, now, mix>> /\ server' = "up"
    BY <1>2 DEF Restart, bounds
  <2>2. TablesThere'
    <3>1. CASE db' = db
      BY <3>1 DEF ShapeOK, TablesThere
    <3>2. CASE AddsRow("user", Admin)
      BY <3>2, AddsThere DEF ShapeOK, AddsRow
    <3> QED BY <1>2, <3>1, <3>2, RestartEffect
  <2> QED BY <2>1, <2>2 DEF ShapeOK
<1>3. CASE Tick
  BY <1>0, <1>3 DEF Tick, ShapeOK, TablesThere
<1>4. CASE \E r \in Callers : Start(r)
  <2>1. PICK r \in Callers : Start(r)
    BY <1>4
  <2>2. /\ UNCHANGED <<db, server, now, faults, mix>> /\ DOMAIN calls' = Callers
        /\ CallOK(calls'[r]) /\ \A q \in Callers \ {r} : calls'[q] = calls[q]
    BY <2>1, StartCall
  <2>3. \A q \in Callers : CallOK(calls'[q])
    BY <2>2 DEF ShapeOK
  <2> QED BY <2>2, <2>3 DEF ShapeOK, TablesThere
<1>5. CASE \E r \in Callers : Statements(r)
  <2>1. PICK r \in Callers : Statements(r)
    BY <1>5
  <2>2. /\ UNCHANGED <<server, now, mix>> /\ DOMAIN calls' = Callers /\ faults' \in faults..MaxFaults
    BY <2>1, StepFrame
  <2>3. \A q \in Callers : CallOK(calls'[q])
    BY <2>1, StepCalls
  <2>4. TablesThere'
    <3>1. CASE db' = db
      BY <3>1 DEF ShapeOK, TablesThere
    <3> QED BY <2>1, <3>1, StepEffects, StepThere
  <2>5. faults' \in 0..MaxFaults
    BY <1>0, <2>2 DEF ShapeOK
  <2> QED BY <2>2, <2>3, <2>4, <2>5 DEF ShapeOK
<1>6. CASE UNCHANGED vars
  BY <1>6 DEF vars, bounds, ShapeOK, TablesThere
<1> QED BY <1>1, <1>2, <1>3, <1>4, <1>5, <1>6 DEF Next, Statements

LEMMA ShapeInit ==
  ASSUME Init
  PROVE  ShapeOK
<1>1. CallOK(Idle)
  BY DEF CallOK, Idle, Fields
<1>2. TablesThere
  BY SeedAssumption DEF Init, TablesThere
<1> QED BY <1>1, <1>2, BoundsAssumption DEF Init, ShapeOK

(* Requests proceed from statement to statement as their handlers say.       *)
THEOREM Shaped == Spec => []ShapeOK
<1>1. Init => ShapeOK
  BY ShapeInit
<1>2. ShapeOK /\ [Next]_vars => ShapeOK'
  BY ShapeStep
<1> QED BY <1>1, <1>2, PTL DEF Spec

----------------------------------------------------------------------------
(* What a step does to the tables and to the calls, and what holds of them   *)
(* at any time.                                                             *)

(* The steps that change the tables.                                        *)
LEMMA StepKinds ==
  ASSUME ShapeOK, [Next]_vars
  PROVE  \/ db' = db
         \/ server = "down" /\ AddsRow("user", Admin) /\ calls' = calls /\ faults' = faults
         \/ \E r \in Callers : Statements(r) /\ StepEffect(r)
<1>1. CASE Restart
  BY <1>1, RestartEffect DEF Restart
<1>2. CASE \E r \in Callers : Statements(r)
  BY <1>2, StepEffects
<1>3. CASE Crash \/ Tick \/ (\E r \in Callers : Start(r)) \/ UNCHANGED vars
  BY <1>3 DEF Crash, Tick, Start, vars
<1> QED BY <1>1, <1>2, <1>3 DEF Next, Statements

(* Histories.                                                               *)
LEMMA StepHistory ==
  ASSUME ShapeOK, [Next]_vars
  PROVE  Observe \/ UNCHANGED vars
<1>1. CASE \E r \in Callers : Statements(r)
  BY <1>1, StepFrame
<1> QED BY <1>1 DEF Next, Statements, Crash, Restart, Tick, Start

(* How the calls go on.                                                     *)
LEMMA StepsOfCalls ==
  ASSUME ShapeOK, [Next]_vars, NEW r \in Callers, calls'[r] # calls[r]
  PROVE  \/ Statements(r) /\ now' = now
         \/ Start(r)
         \/ Crash /\ calls'[r] = Idle
<1>1. CASE \E q \in Callers : Statements(q)
  <2>1. PICK q \in Callers : Statements(q)
    BY <1>1
  <2> QED BY <2>1, StepFrame
<1>2. CASE \E q \in Callers : Start(q)
  <2>1. PICK q \in Callers : Start(q)
    BY <1>2
  <2> QED BY <2>1, StartCall
<1>3. CASE Crash
  BY <1>3 DEF Crash
<1>4. CASE Restart \/ Tick \/ UNCHANGED vars
  BY <1>4 DEF Restart, Tick, vars
<1> QED BY <1>1, <1>2, <1>3, <1>4 DEF Next, Statements

(* While nothing has failed, no step fails.                                  *)
LEMMA NoFault ==
  ASSUME ShapeOK, [Next]_vars, faults' = 0
  PROVE  faults = 0 /\ faults' = faults /\ ~Crash
<1>1. faults \in Nat /\ MaxFaults \in Nat
  BY BoundsAssumption DEF ShapeOK
<1>2. ~Crash
  BY <1>1 DEF Crash
<1>3. ASSUME NEW r \in Callers, Statements(r) PROVE faults' \in faults..MaxFaults
  BY <1>3, StepFrame
<1>4. CASE \E r \in Callers : Statements(r)
  BY <1>1, <1>2, <1>3, <1>4
<1>5. CASE Restart \/ Tick \/ (\E r \in Callers : Start(r)) \/ UNCHANGED vars
  BY <1>2, <1>5 DEF Restart, Tick, Start, vars
<1> QED BY <1>2, <1>4, <1>5 DEF Next, Statements

(* The changes there are to the rows of one table.                           *)
RowWrites(r, object) ==
  LET c == calls[r]
  IN  /\ c.req.object = object
      /\ \/ c.pc = "insert" /\ AddsRow(object, Stored(c.req))
         \/ c.pc = "write" /\ SetsRow(object, c.req.id, Merged(c.req, c.got))
         \/ c.pc = "replace" /\ SetsRow(object, c.req.id, Stored(c.req))

RowEffect(r, object) ==
  db'[object] = db[object] \/ RowWrites(r, object) \/ \E K : DropsRows(object, K)

RowChange(object) ==
  \/ db'[object] = db[object]
  \/ object = "user" /\ server = "down" /\ AddsRow("user", Admin)
  \/ \E r \in Callers : Statements(r) /\ RowWrites(r, object)
  \/ \E K : DropsRows(object, K)

LEMMA EffectOnRows ==
  ASSUME ShapeOK, NEW r \in Callers, StepEffect(r), NEW object \in Objects
  PROVE  RowEffect(r, object)
<1>0. object \in Tables /\ object \notin {"auto", "members", "sessions", "loginLogs", "adminLogs", "bodies", "access_log"}
  BY DEF Tables, Numbered, Objects
<1>1. ASSUME NEW T, Keeps(T), object \notin T
      PROVE  db'[object] = db[object]
  BY <1>0, <1>1 DEF Keeps
<1>2. ASSUME NEW T, Keeps(T), object \notin T
      PROVE  RowEffect(r, object)
  BY <1>1, <1>2 DEF RowEffect
<1>3. ASSUME NEW other, NEW K, DropsRows(other, K)
      PROVE  RowEffect(r, object)
  BY <1>2, <1>3 DEF DropsRows, RowEffect
<1>4. ASSUME NEW what, NEW other, NEW id, CleansUp(what, other, id)
      PROVE  RowEffect(r, object)
  BY <1>0, <1>2, <1>3, <1>4 DEF CleansUp
<1> DEFINE c == calls[r]
<1>5. CASE c.pc = "insert" /\ AddsRow(c.req.object, Stored(c.req))
  BY <1>0, <1>2, <1>5 DEF AddsRow, RowEffect, RowWrites
<1>6. CASE c.pc = "write" /\ SetsRow(c.req.object, c.req.id, Merged(c.req, c.got))
  BY <1>0, <1>2, <1>6 DEF SetsRow, RowEffect, RowWrites
<1>7. CASE c.pc = "replace" /\ SetsRow(c.req.object, c.req.id, Stored(c.req))
  BY <1>0, <1>2, <1>7 DEF SetsRow, RowEffect, RowWrites
<1>8. CASE \E table \in {"adminLogs", "loginLogs"} : \E entry : Logs(table, entry)
  BY <1>0, <1>2, <1>8 DEF Logs
<1>9. CASE \E t, user, entry : OpensSession(t, user, entry)
  BY <1>0, <1>2, <1>9 DEF OpensSession
<1>10. CASE \E row : AddsEntry(row)
  BY <1>0, <1>2, <1>10 DEF AddsEntry
<1>11. CASE \E id, side : AddsBody(id, side)
  BY <1>0, <1>2, <1>11 DEF AddsBody
<1> HIDE DEF c
<1> QED BY <1>3, <1>4, <1>5, <1>6, <1>7, <1>8, <1>9, <1>10, <1>11 DEF StepEffect, c

LEMMA RowChanges ==
  ASSUME ShapeOK, [Next]_vars, NEW object \in Objects
  PROVE  RowChange(object)
<1>1. CASE db' = db
  BY <1>1 DEF RowChange
<1>2. CASE server = "down" /\ AddsRow("user", Admin)
  <2>1. CASE object = "user"
    BY <1>2, <2>1 DEF RowChange
  <2>2. CASE object # "user"
    BY <1>2, <2>2 DEF RowChange, AddsRow, Keeps, Objects, Numbered, Tables
  <2> QED BY <2>1, <2>2
<1>3. CASE \E r \in Callers : Statements(r) /\ StepEffect(r)
  <2>1. PICK r \in Callers : Statements(r) /\ StepEffect(r)
    BY <1>3
  <2>2. RowEffect(r, object)
    BY <2>1, EffectOnRows
  <2> QED BY <2>1, <2>2 DEF RowEffect, RowChange
<1> QED BY <1>1, <1>2, <1>3, StepKinds

----------------------------------------------------------------------------
(* Where a request may go from a statement.                                 *)

Onwards == [exists |-> {"insert"}, insert |-> {"readBack", "audit"}, readBack |-> {"audit"},
            read |-> {"write"}, write |-> {"audit"}, replace |-> {"readBack"},
            row |-> {"clean", "audit"}, clean |-> {"clean", "audit"}, audit |-> {},
            credentials |-> {"logFailure", "signIn"}, logFailure |-> {}, signIn |-> {}, logout |-> {},
            session |-> {"app"}, app |-> {"userPolicies"}, userPolicies |-> {"groupPolicies"},
            groupPolicies |-> {},
            host |-> {"rules"}, rules |-> {"addEntry"}, addEntry |-> {"addBody"}, addBody |-> {"addBody"},
            entry |-> {"bodies"}, bodies |-> {"audit"}]

(* The answers it may end with there.                                       *)
Endings == [exists |-> {"exists"}, insert |-> {"error"}, readBack |-> {"notfound", "error"},
            read |-> {"notfound", "error"}, write |-> {"exists", "error"}, replace |-> {"notfound", "error"},
            row |-> {"notfound", "error"}, clean |-> {}, audit |-> {"ok"},
            credentials |-> {}, logFailure |-> {"denied"}, signIn |-> {"ok", "error"}, logout |-> {"ok"},
            session |-> {"unauthorized"}, app |-> {"notfound", "forbidden", "granted"},
            userPolicies |-> {"granted"}, groupPolicies |-> {"granted", "forbidden"},
            host |-> {}, rules |-> {}, addEntry |-> {"ok"}, addBody |-> {"ok"},
            entry |-> {"notfound", "error"}, bodies |-> {"ok"}]

(* What its next call is: over, with what it did so far unless it failed, or *)
(* the same request at the next statement.                                  *)
Goes(c, next) ==
  /\ DOMAIN next = Fields
  /\ \/ next.pc = "end" /\ next.answer \in Endings[c.pc] /\ (next.struck \/ next.did = c.did)
     \/ next.pc \in Onwards[c.pc] /\ next.req = c.req /\ next.since = c.since /\ next.answer = c.answer

LEMMA GoesOn ==
  ASSUME ShapeOK, NEW r \in Callers, NEW after, NEW ok, NEW failed, Statement(r, after, ok, failed),
         NEW c, Goes(c, ok), Goes(c, failed)
  PROVE  Goes(c, calls'[r])
BY StatementFacts DEF Goes

LEMMA GoesTo ==
  ASSUME NEW c, DOMAIN c = Fields
  PROVE  /\ \A how \in Endings[c.pc] : Goes(c, End(c, how))
         /\ \A pc \in Onwards[c.pc] : Goes(c, To(c, pc))
         /\ \A pc \in Onwards[c.pc] : \A got : Goes(c, [To(c, pc) EXCEPT !.got = got])
         /\ \A pc \in Onwards[c.pc] : \A id : Goes(c, To(Did(c, id), pc))
         /\ \A pc \in Onwards[c.pc] : \A did : Goes(c, [To(c, pc) EXCEPT !.did = did])
<1>1. \A how \in Endings[c.pc] : Goes(c, End(c, how))
  BY DEF Goes, End, Idle, Fields
<1>2. \A pc \in Onwards[c.pc] : Goes(c, To(c, pc))
  BY DEF Goes, To, Fields
<1>3. \A pc \in Onwards[c.pc] : \A got : Goes(c, [To(c, pc) EXCEPT !.got = got])
  BY DEF Goes, To, Fields
<1>4. \A pc \in Onwards[c.pc] : \A id : Goes(c, To(Did(c, id), pc))
  BY DEF Goes, Did, To, Fields
<1>5. \A pc \in Onwards[c.pc] : \A did : Goes(c, [To(c, pc) EXCEPT !.did = did])
  BY DEF Goes, To, Fields
<1> QED BY <1>1, <1>2, <1>3, <1>4, <1>5

(* The statement a request is at.                                           *)
LEMMA ActionOf ==
  ASSUME NEW r, Statements(r)
  PROVE  LET pc == calls[r].pc
         IN  \/ (Exists(r) /\ pc = "exists") \/ (Insert(r) /\ pc = "insert")
             \/ (ReadBack(r) /\ pc = "readBack") \/ (ReadRow(r) /\ pc = "read")
             \/ (WriteRow(r) /\ pc = "write") \/ (Replace(r) /\ pc = "replace")
             \/ (DeleteRow(r) /\ pc = "row") \/ (CleanUp(r) /\ pc = "clean")
             \/ (AddAdminLog(r) /\ pc = "audit") \/ (Credentials(r) /\ pc = "credentials")
             \/ (LogFailure(r) /\ pc = "logFailure") \/ (SignIn(r) /\ pc = "signIn")
             \/ (Logout(r) /\ pc = "logout") \/ (UserBySession(r) /\ pc = "session")
             \/ (AppByDomain(r) /\ pc = "app") \/ (AllowedToUser(r) /\ pc = "userPolicies")
             \/ (AllowedToGroup(r) /\ pc = "groupPolicies") \/ (AppOfReport(r) /\ pc = "host")
             \/ (ApplyBodyAuditRule(r) /\ pc = "rules") \/ (AddEntry(r) /\ pc = "addEntry")
             \/ (AddBody(r) /\ pc = "addBody") \/ (GetEntry(r) /\ pc = "entry")
             \/ (LoadBodies(r) /\ pc = "bodies")
<1>1. DirectoryStep(r) \/ AccessStep(r) \/ AuditStep(r)
  BY DEF Statements
<1>2. /\ Exists(r) => calls[r].pc = "exists"
      /\ Insert(r) => calls[r].pc = "insert"
      /\ ReadBack(r) => calls[r].pc = "readBack"
      /\ ReadRow(r) => calls[r].pc = "read"
      /\ WriteRow(r) => calls[r].pc = "write"
      /\ Replace(r) => calls[r].pc = "replace"
      /\ DeleteRow(r) => calls[r].pc = "row"
      /\ CleanUp(r) => calls[r].pc = "clean"
      /\ AddAdminLog(r) => calls[r].pc = "audit"
  BY DEF Exists, Insert, ReadBack, ReadRow, WriteRow, Replace, DeleteRow, CleanUp, AddAdminLog, At
<1>3. /\ Credentials(r) => calls[r].pc = "credentials"
      /\ LogFailure(r) => calls[r].pc = "logFailure"
      /\ SignIn(r) => calls[r].pc = "signIn"
      /\ Logout(r) => calls[r].pc = "logout"
      /\ UserBySession(r) => calls[r].pc = "session"
      /\ AppByDomain(r) => calls[r].pc = "app"
      /\ AllowedToUser(r) => calls[r].pc = "userPolicies"
      /\ AllowedToGroup(r) => calls[r].pc = "groupPolicies"
  BY DEF Credentials, LogFailure, SignIn, Logout, UserBySession, AppByDomain, AllowedToUser, AllowedToGroup, At
<1>4. /\ AppOfReport(r) => calls[r].pc = "host"
      /\ ApplyBodyAuditRule(r) => calls[r].pc = "rules"
      /\ AddEntry(r) => calls[r].pc = "addEntry"
      /\ AddBody(r) => calls[r].pc = "addBody"
      /\ GetEntry(r) => calls[r].pc = "entry"
      /\ LoadBodies(r) => calls[r].pc = "bodies"
  BY DEF AppOfReport, ApplyBodyAuditRule, AddEntry, AddBody, GetEntry, LoadBodies, At
<1> QED BY <1>1, <1>2, <1>3, <1>4 DEF DirectoryStep, AccessStep, AuditStep

LEMMA StepGoes ==
  ASSUME ShapeOK, NEW r \in Callers, Statements(r)
  PROVE  Goes(calls[r], calls'[r])
<1> DEFINE c == calls[r]
           Onward == \E after, ok, failed : Statement(r, after, ok, failed) /\ Goes(c, ok) /\ Goes(c, failed)
<1>0. DOMAIN c = Fields /\ CallOK(c)
  BY DEF ShapeOK, CallOK
<1>1. Onward => Goes(c, calls'[r])
  BY GoesOn
<1>2. \A how \in Endings[c.pc] : Goes(c, End(c, how))
  BY <1>0, GoesTo
<1>3. ASSUME NEW pc \in Onwards[c.pc]
      PROVE  /\ Goes(c, To(c, pc))
             /\ \A got : Goes(c, [To(c, pc) EXCEPT !.got = got])
             /\ \A id : Goes(c, To(Did(c, id), pc))
             /\ \A did : Goes(c, [To(c, pc) EXCEPT !.did = did])
  BY <1>0, GoesTo
<1>4. CASE Exists(r) /\ c.pc = "exists"
  <2>1. \E on \in Endings[c.pc] :
          \/ Statement(r, db, End(c, on), To(c, "insert"))
          \/ Statement(r, db, To(c, "insert"), To(c, "insert"))
    BY <1>4 DEF Exists, Query, Endings
  <2>2. "insert" \in Onwards[c.pc]
    BY <1>4 DEF Onwards
  <2> QED BY <1>1, <1>2, <1>3, <2>1, <2>2
<1>5. CASE Insert(r) /\ c.pc = "insert"
  <2> DEFINE id  == db.auto[c.req.object]
             row == Stored(c.req)
             new == [db EXCEPT ![c.req.object] = Put(@, id, row), !.auto[c.req.object] = id + 1]
             after == SetMembers(new, c.req, id)
  <2>1. \/ Statement(r, db, End(c, "error"), End(c, "error"))
        \/ Statement(r, after, To(Did(c, id), "audit"), End(c, "error"))
        \/ Statement(r, after, To(Did(c, id), "readBack"), End(c, "error"))
    BY <1>5 DEF Insert, Query
  <2>2. {"audit", "readBack"} \subseteq Onwards[c.pc] /\ "error" \in Endings[c.pc]
    BY <1>5 DEF Onwards, Endings
  <2> HIDE DEF after
  <2> QED BY <1>1, <1>2, <1>3, <2>1, <2>2
<1>6. CASE ReadBack(r) /\ c.pc = "readBack"
  <2>1. \E how, on \in Endings[c.pc] :
          \/ Statement(r, db, End(c, on), End(c, how))
          \/ Statement(r, db, To(c, "audit"), End(c, how))
    BY <1>6 DEF ReadBack, Query, Endings
  <2>2. "audit" \in Onwards[c.pc]
    BY <1>6 DEF Onwards
  <2> QED BY <1>1, <1>2, <1>3, <2>1, <2>2
<1>7. CASE ReadRow(r) /\ c.pc = "read"
  <2>1. /\ c.req.id \in DOMAIN db[c.req.object] => Statement(r, db, [To(c, "write") EXCEPT !.got = db[c.req.object][c.req.id]], End(c, "error"))
        /\ ~(c.req.id \in DOMAIN db[c.req.object]) => Statement(r, db, End(c, "notfound"), End(c, "error"))
    BY <1>7 DEF ReadRow, Query
  <2>2. "write" \in Onwards[c.pc] /\ {"error", "notfound"} \subseteq Endings[c.pc]
    BY <1>7 DEF Onwards, Endings
  <2> QED BY <1>1, <1>2, <1>3, <2>1, <2>2
<1>8. CASE WriteRow(r) /\ c.pc = "write"
  <2>1. \E how, on \in Endings[c.pc] : \E after, id :
          \/ Statement(r, db, End(c, on), End(c, how))
          \/ Statement(r, after, To(Did(c, id), "audit"), End(c, how))
    BY <1>8 DEF WriteRow, Query, Endings
  <2>2. "audit" \in Onwards[c.pc]
    BY <1>8 DEF Onwards
  <2> QED BY <1>1, <1>2, <1>3, <2>1, <2>2
<1>9. CASE Replace(r) /\ c.pc = "replace"
  <2>1. \E how, on \in Endings[c.pc] : \E after, id :
          \/ Statement(r, db, End(c, on), End(c, how))
          \/ Statement(r, after, To(Did(c, id), "readBack"), End(c, how))
    BY <1>9 DEF Replace, Query, Endings
  <2>2. "readBack" \in Onwards[c.pc]
    BY <1>9 DEF Onwards
  <2> QED BY <1>1, <1>2, <1>3, <2>1, <2>2
<1>10. CASE DeleteRow(r) /\ c.pc = "row"
  <2> DEFINE next == CleanNext(Did(c, c.req.id), Cascade[c.req.object])
  <2>1. \E how, on \in Endings[c.pc] : \E after :
          \/ Statement(r, db, End(c, on), End(c, how))
          \/ Statement(r, after, next, End(c, how))
    BY <1>10 DEF DeleteRow, Query, Endings
  <2>2. Goes(c, next)
    BY <1>0, <1>10 DEF Goes, CleanNext, To, Did, Fields, Onwards
  <2> HIDE DEF next
  <2> QED BY <1>1, <1>2, <2>1, <2>2
<1>11. CASE CleanUp(r) /\ c.pc = "clean"
  <2> DEFINE next == CleanNext(c, Tail(c.got.rest))
  <2>1. \E after : Statement(r, after, next, next)
    BY <1>11 DEF CleanUp
  <2>2. Goes(c, next)
    BY <1>0, <1>11 DEF Goes, CleanNext, To, Fields, Onwards
  <2> HIDE DEF next
  <2> QED BY <1>1, <1>2, <2>1, <2>2
<1>12. CASE AddAdminLog(r) /\ c.pc = "audit"
  <2>1. \E how, on \in Endings[c.pc] : \E after : Statement(r, after, End(c, on), End(c, how))
    BY <1>12 DEF AddAdminLog, Endings
  <2> QED BY <1>1, <1>2, <2>1
<1>13. CASE Credentials(r) /\ c.pc = "credentials"
  <2>1. \E got :
          \/ Statement(r, db, To(c, "logFailure"), To(c, "logFailure"))
          \/ Statement(r, db, [To(c, "signIn") EXCEPT !.got = got], To(c, "logFailure"))
    BY <1>13 DEF Credentials, Query
  <2>2. {"logFailure", "signIn"} \subseteq Onwards[c.pc]
    BY <1>13 DEF Onwards
  <2> QED BY <1>1, <1>2, <1>3, <2>1, <2>2
<1>14. CASE LogFailure(r) /\ c.pc = "logFailure"
  <2>1. \E how, on \in Endings[c.pc] : \E after : Statement(r, after, End(c, on), End(c, how))
    BY <1>14 DEF LogFailure, Endings
  <2> QED BY <1>1, <1>2, <2>1
<1>15. CASE SignIn(r) /\ c.pc = "signIn"
  <2>1. \E how, on \in Endings[c.pc] : \E after : Statement(r, after, End(c, on), End(c, how))
    BY <1>15 DEF SignIn, Endings
  <2> QED BY <1>1, <1>2, <2>1
<1>16. CASE Logout(r) /\ c.pc = "logout"
  <2>1. \E how, on \in Endings[c.pc] : \E after : Statement(r, after, End(c, on), End(c, how))
    BY <1>16 DEF Logout, Endings
  <2> QED BY <1>1, <1>2, <2>1
<1>17. CASE UserBySession(r) /\ c.pc = "session"
  <2> DEFINE user == db.sessions[c.req.token].user
             got  == [user |-> user, admin |-> db.user[user].admin]
  <2>1. \/ Statement(r, db, [To(c, "app") EXCEPT !.got = got], End(c, "unauthorized"))
        \/ Statement(r, db, End(c, "unauthorized"), End(c, "unauthorized"))
    BY <1>17 DEF UserBySession, Query
  <2>2. "app" \in Onwards[c.pc] /\ "unauthorized" \in Endings[c.pc]
    BY <1>17 DEF Onwards, Endings
  <2> HIDE DEF got
  <2> QED BY <1>1, <1>2, <1>3, <2>1, <2>2
<1>18. CASE AppByDomain(r) /\ c.pc = "app"
  <2> DEFINE app == CHOOSE id \in Hosting(c.req.host) : TRUE
             got == [user |-> c.got.user, app |-> app, at |-> now]
  <2>1. \/ Statement(r, db, [To(c, "userPolicies") EXCEPT !.got = got], End(c, "forbidden"))
        \/ Statement(r, db, End(c, "notfound"), End(c, "forbidden"))
        \/ Statement(r, db, End(c, "forbidden"), End(c, "forbidden"))
        \/ Statement(r, db, End(c, "granted"), End(c, "forbidden"))
    BY <1>18 DEF AppByDomain, Query
  <2>2. "userPolicies" \in Onwards[c.pc] /\ {"notfound", "forbidden", "granted"} \subseteq Endings[c.pc]
    BY <1>18 DEF Onwards, Endings
  <2> HIDE DEF got
  <2> QED BY <1>1, <1>2, <1>3, <2>1, <2>2
<1>19. CASE AllowedToUser(r) /\ c.pc = "userPolicies"
  <2>1. \E on \in Endings[c.pc] :
          \/ Statement(r, db, End(c, on), To(c, "groupPolicies"))
          \/ Statement(r, db, To(c, "groupPolicies"), To(c, "groupPolicies"))
    BY <1>19 DEF AllowedToUser, Query, Endings
  <2>2. "groupPolicies" \in Onwards[c.pc]
    BY <1>19 DEF Onwards
  <2> QED BY <1>1, <1>2, <1>3, <2>1, <2>2
<1>20. CASE AllowedToGroup(r) /\ c.pc = "groupPolicies"
  <2>1. \E how, on \in Endings[c.pc] : Statement(r, db, End(c, on), End(c, how))
    BY <1>20 DEF AllowedToGroup, Query, Endings
  <2> QED BY <1>1, <1>2, <2>1
<1>21. CASE AppOfReport(r) /\ c.pc = "host"
  <2>1. \E got, other :
          \/ calls' = [calls EXCEPT ![r] = [To(c, "rules") EXCEPT !.got = got]]
          \/ Statement(r, db, [To(c, "rules") EXCEPT !.got = got], [To(c, "rules") EXCEPT !.got = other])
    BY <1>21 DEF AppOfReport, Query
  <2>2. "rules" \in Onwards[c.pc]
    BY <1>21 DEF Onwards
  <2>3. \A x : calls' = [calls EXCEPT ![r] = x] => calls'[r] = x
    BY DEF ShapeOK
  <2> QED BY <1>1, <1>3, <2>1, <2>2, <2>3
<1>22. CASE ApplyBodyAuditRule(r) /\ c.pc = "rules"
  <2>1. \E got, other : Statement(r, db, [To(c, "addEntry") EXCEPT !.got = got], [To(c, "addEntry") EXCEPT !.got = other])
    BY <1>22 DEF ApplyBodyAuditRule, Query
  <2>2. "addEntry" \in Onwards[c.pc]
    BY <1>22 DEF Onwards
  <2> QED BY <1>1, <1>2, <1>3, <2>1, <2>2
<1>23. ASSUME NEW got, c.pc \in {"addEntry", "addBody"}
       PROVE  Goes(c, NextBody([c EXCEPT !.got = got]))
  BY <1>0, <1>2, <1>23 DEF Goes, NextBody, End, Idle, To, Fields, Onwards, Endings
<1>24. CASE AddEntry(r) /\ c.pc = "addEntry"
  <2> DEFINE id  == db.auto.access_log
             row == EntryRow(c.got)
             new == [db EXCEPT !.access_log = Put(@, id, row), !.auto.access_log = id + 1]
             got == [id |-> id, bodies |-> c.got.bodies]
  <2>1. Statement(r, new, NextBody([c EXCEPT !.got = got]), End(c, "ok"))
    BY <1>24 DEF AddEntry, EntryRow
  <2>2. "ok" \in Endings[c.pc]
    BY <1>24 DEF Endings
  <2> HIDE DEF new, got
  <2> QED BY <1>1, <1>2, <1>23, <1>24, <2>1, <2>2
<1>25. CASE AddBody(r) /\ c.pc = "addBody"
  <2> DEFINE on(x)   == NextBody([c EXCEPT !.got.bodies = x])
             next(x) == NextBody([c EXCEPT !.got = x])
  <2>1. \A x : [c EXCEPT !.got.bodies = x] = [c EXCEPT !.got = [c.got EXCEPT !.bodies = x]]
    OBVIOUS
  <2>2. \E after, x : Statement(r, after, on(x), on(x))
    BY <1>25 DEF AddBody
  <2>3. \E after, x : Statement(r, after, next(x), next(x))
    BY <2>1, <2>2
  <2>4. \A x : Goes(c, next(x))
    BY <1>23, <1>25
  <2> HIDE DEF next
  <2> QED BY <1>1, <2>3, <2>4
<1>26. CASE GetEntry(r) /\ c.pc = "entry"
  <2>1. /\ c.req.id \in DOMAIN db.access_log => Statement(r, db, [To(c, "bodies") EXCEPT !.got = db.access_log[c.req.id]], End(c, "error"))
        /\ ~(c.req.id \in DOMAIN db.access_log) => Statement(r, db, End(c, "notfound"), End(c, "error"))
    BY <1>26 DEF GetEntry, Query
  <2>2. "bodies" \in Onwards[c.pc] /\ {"error", "notfound"} \subseteq Endings[c.pc]
    BY <1>26 DEF Onwards, Endings
  <2> QED BY <1>1, <1>2, <1>3, <2>1, <2>2
<1>27. CASE LoadBodies(r) /\ c.pc = "bodies"
  <2>1. \E x, y : Statement(r, db, Viewed(c, x), Viewed(c, y))
    BY <1>27 DEF LoadBodies, Query
  <2>2. "audit" \in Onwards[c.pc] /\ "ok" \in Endings[c.pc]
    BY <1>27 DEF Onwards, Endings
  <2>3. \A x : Goes(c, Viewed(c, x))
    BY <1>2, <1>3, <2>2 DEF Viewed
  <2> QED BY <1>1, <2>1, <2>3
<1> HIDE DEF c, Onward
<1> QED BY <1>4, <1>5, <1>6, <1>7, <1>8, <1>9, <1>10, <1>11, <1>12, <1>13, <1>14, <1>15,
           <1>16, <1>17, <1>18, <1>19, <1>20, <1>21, <1>22, <1>24, <1>25, <1>26, <1>27, ActionOf DEF c

----------------------------------------------------------------------------
(* Unique columns are unique.                                               *)

Uniques ==
  \A object \in DOMAIN Column : \A i, j \in DOMAIN db[object] :
    db[object][i][Column[object]] = db[object][j][Column[object]] => i = j

UniqueIn(m, column) == \A i, j \in DOMAIN m : m[i][column] = m[j][column] => i = j

LEMMA UniquePut ==
  ASSUME NEW m, NEW k, NEW v, NEW column, UniqueIn(m, column), \A x \in DOMAIN m : m[x][column] # v[column]
  PROVE  UniqueIn(Put(m, k, v), column)
<1> DEFINE new == Put(m, k, v)
<1>1. DOMAIN new = DOMAIN m \cup {k} /\ new[k] = v /\ \A x \in DOMAIN m \ {k} : new[x] = m[x]
  BY DEF Put
<1> HIDE DEF new
<1>2. UniqueIn(new, column)
  BY <1>1 DEF UniqueIn
<1> QED BY <1>2 DEF new

LEMMA UniqueExcept ==
  ASSUME NEW m, NEW k, NEW v, NEW column, UniqueIn(m, column),
         \A x \in DOMAIN m \ {k} : m[x][column] # v[column]
  PROVE  UniqueIn([m EXCEPT ![k] = v], column)
BY DEF UniqueIn

LEMMA UniqueDrop ==
  ASSUME NEW m, NEW K, NEW column, UniqueIn(m, column)
  PROVE  UniqueIn(Drop(m, K), column)
<1> DEFINE new == Drop(m, K)
<1>1. DOMAIN new = DOMAIN m \ K /\ \A x \in DOMAIN m \ K : new[x] = m[x]
  BY DEF Drop
<1> HIDE DEF new
<1>2. UniqueIn(new, column)
  BY <1>1 DEF UniqueIn
<1> QED BY <1>2 DEF new

LEMMA UniquesStep ==
  ASSUME ShapeOK, Uniques, [Next]_vars
  PROVE  Uniques'
<1>1. ASSUME NEW object \in DOMAIN Column
      PROVE  UniqueIn(db'[object], Column[object])
  <2> DEFINE column == Column[object]
  <2>1. object \in Objects /\ 0 \notin DOMAIN db[object]
    BY <1>1 DEF Column, Objects, ShapeOK, TablesThere, Numbered
  <2>2. UniqueIn(db[object], column)
    BY <1>1 DEF Uniques, UniqueIn
  <2>3. ASSUME NEW id, NEW row, ~Taken(object, id, row)
        PROVE  \A x \in DOMAIN db[object] \ {id} : db[object][x][column] # row[column]
    BY <1>1, <2>3 DEF Taken
  <2> HIDE DEF column
  <2>4. ASSUME NEW row, AddsRow(object, row)
        PROVE  UniqueIn(db'[object], column)
    <3>1. db'[object] = Put(db[object], db.auto[object], row) /\ ~Taken(object, 0, row)
      BY <2>4 DEF AddsRow
    <3> QED BY <2>1, <2>2, <2>3, <3>1, UniquePut
  <2>5. ASSUME NEW id, NEW row, SetsRow(object, id, row)
        PROVE  UniqueIn(db'[object], column)
    <3>1. db'[object] = [db[object] EXCEPT ![id] = row] /\ ~Taken(object, id, row)
      BY <2>5 DEF SetsRow
    <3>2. \A x \in DOMAIN db[object] \ {id} : db[object][x][column] # row[column]
      BY <2>3, <3>1
    <3>3. UniqueIn([db[object] EXCEPT ![id] = row], column)
      BY <2>2, <3>2, UniqueExcept
    <3> QED BY <3>1, <3>3
  <2>6. ASSUME NEW K, DropsRows(object, K)
        PROVE  UniqueIn(db'[object], column)
    BY <2>2, <2>6, UniqueDrop DEF DropsRows
  <2>7. (\E row : AddsRow(object, row)) \/ (\E id, row : SetsRow(object, id, row)) => UniqueIn(db'[object], column)
    BY <2>4, <2>5
  <2>8. \A r \in Callers : RowWrites(r, object) => UniqueIn(db'[object], column)
    BY <2>7 DEF RowWrites
  <2>9. server = "down" /\ object = "user" /\ AddsRow("user", Admin) => UniqueIn(db'[object], column)
    BY <2>7
  <2> QED BY <2>1, <2>2, <2>6, <2>8, <2>9, RowChanges DEF RowChange, column
<1> QED BY <1>1 DEF Uniques, UniqueIn

----------------------------------------------------------------------------
(* The hosts of applications are stored as lookups ask for them: those of   *)
(* the rows a request is about to write back too.                           *)

Hosts == {NormalizeHost[host] : host \in DOMAIN NormalizeHost}
SiteRow(row) == DOMAIN row = {"domain", "enabled"} /\ row.domain \in Hosts

HostsOK ==
  /\ \A id \in DOMAIN db.app : SiteRow(db.app[id])
  /\ \A r \in Callers : calls[r].pc = "write" /\ calls[r].req.object = "app" => SiteRow(calls[r].got)

LEMMA SiteWritten ==
  ASSUME NEW req, RequestOK(req), req.action \in {"create", "update"}, req.object = "app"
  PROVE  /\ SiteRow(Stored(req))
         /\ \A row : SiteRow(row) => SiteRow(Merged(req, row))
<1>1. req.domain \in DOMAIN NormalizeHost
  BY DEF RequestOK
<1>2. SiteRow(AppRow(req)) /\ \A row : SiteRow(row) => SiteRow(AppMerged(req, row))
  BY <1>1 DEF SiteRow, AppRow, AppMerged, Hosts
<1> QED BY <1>2 DEF Stored, Merged

Firsts == {"exists", "insert", "read", "replace", "row", "credentials", "logout", "session", "host", "entry"}

LEMMA StartFacts ==
  ASSUME ShapeOK, NEW r \in Callers, Start(r)
  PROVE  /\ calls'[r].pc \in Firsts /\ calls'[r].answer = "none" /\ calls'[r].did = NoEntry
         /\ RequestOK(calls'[r].req) /\ calls'[r].since = now
<1>1. PICK req : RequestOK(req) /\ calls'[r] = [Idle EXCEPT !.req = req, !.pc = First(req), !.since = now]
  BY StartCall
<1>2. /\ calls'[r].pc = First(req) /\ calls'[r].answer = "none" /\ calls'[r].did = NoEntry
      /\ calls'[r].req = req /\ calls'[r].since = now
  BY <1>1 DEF Idle
<1>3. First(req) \in Firsts
  BY <1>1 DEF First, Firsts, RequestOK
<1> QED BY <1>1, <1>2, <1>3

(* A request arrives at a later statement from one of those before it.       *)
LEMMA Arrives ==
  ASSUME ShapeOK, [Next]_vars, NEW r \in Callers, calls'[r] # calls[r], calls'[r].pc \notin Firsts \cup {"end"}
  PROVE  /\ Statements(r) /\ now' = now
         /\ calls'[r].pc \in Onwards[calls[r].pc] /\ calls'[r].req = calls[r].req
         /\ calls'[r].since = calls[r].since
<1>1. ~(Crash /\ calls'[r] = Idle)
  BY DEF Idle
<1>2. Statements(r) /\ now' = now
  BY <1>1, StartFacts, StepsOfCalls
<1>3. Goes(calls[r], calls'[r])
  BY <1>2, StepGoes
<1> QED BY <1>2, <1>3 DEF Goes

(* A row to be written was read from the table.                              *)
LEMMA ArrivesToWrite ==
  ASSUME ShapeOK, [Next]_vars, NEW r \in Callers, calls'[r].pc = "write", calls'[r] # calls[r]
  PROVE  /\ calls[r].pc = "read" /\ calls'[r].req = calls[r].req /\ db' = db
         /\ LET req == calls[r].req
            IN  req.id \in DOMAIN db[req.object] /\ calls'[r].got = db[req.object][req.id]
<1> DEFINE c == calls[r]
<1>1. Statements(r) /\ "write" \in Onwards[c.pc] /\ calls'[r].req = c.req
  BY Arrives DEF Firsts
<1>2. c.pc = "read" /\ ReadRow(r)
  <2> HIDE DEF c
  <2> QED BY <1>1, ActionOf DEF Onwards, c
<1>3. db' = db
  BY <1>2, QueriesOnly
<1>4. DOMAIN c = Fields
  BY DEF ShapeOK, CallOK
<1> DEFINE req  == c.req
           got  == db[req.object][req.id]
           next == [To(c, "write") EXCEPT !.got = got]
<1>5. \/ \E how, on : Statement(r, db, End(c, on), End(c, how))
      \/ req.id \in DOMAIN db[req.object] /\ \E how : Statement(r, db, next, End(c, how))
  BY <1>2 DEF ReadRow, Query
<1>6. DOMAIN next = Fields /\ next.got = got
  BY <1>4, ToFacts DEF Fields
<1> HIDE DEF next, c, got
<1>7. ASSUME NEW how, NEW on, Statement(r, db, End(c, on), End(c, how))
      PROVE  FALSE
  BY <1>7, StatementFacts, EndFacts
<1>8. ASSUME NEW how, Statement(r, db, next, End(c, how))
      PROVE  calls'[r].got = got
  BY <1>6, <1>8, StatementFacts, EndFacts
<1> QED BY <1>1, <1>2, <1>3, <1>5, <1>7, <1>8 DEF c, got

LEMMA HostsStep ==
  ASSUME ShapeOK, HostsOK, [Next]_vars
  PROVE  HostsOK'
<1>1. "app" \in Objects
  BY DEF Objects
<1>2. \A id \in DOMAIN db'.app : SiteRow(db'.app[id])
  <2>1. \A id \in DOMAIN db.app : SiteRow(db.app[id])
    BY DEF HostsOK
  <2>2. ASSUME NEW row, SiteRow(row), AddsRow("app", row)
        PROVE  \A id \in DOMAIN db'.app : SiteRow(db'.app[id])
    <3>1. db'.app = Put(db.app, db.auto.app, row)
      BY <2>2 DEF AddsRow
    <3>2. /\ DOMAIN db'.app = DOMAIN db.app \cup {db.auto.app} /\ db'.app[db.auto.app] = row
          /\ \A x \in DOMAIN db.app \ {db.auto.app} : db'.app[x] = db.app[x]
      BY <3>1 DEF Put
    <3> QED BY <2>1, <2>2, <3>2
  <2>3. ASSUME NEW id, NEW row, SiteRow(row), SetsRow("app", id, row)
        PROVE  \A x \in DOMAIN db'.app : SiteRow(db'.app[x])
    BY <2>1, <2>3 DEF SetsRow
  <2>4. ASSUME NEW K, DropsRows("app", K)
        PROVE  \A x \in DOMAIN db'.app : SiteRow(db'.app[x])
    <3>1. DOMAIN db'.app = DOMAIN db.app \ K /\ \A x \in DOMAIN db.app \ K : db'.app[x] = db.app[x]
      BY <2>4 DEF Drop, DropsRows
    <3> QED BY <2>1, <3>1
  <2>5. ASSUME NEW r \in Callers, RowWrites(r, "app")
        PROVE  \A x \in DOMAIN db'.app : SiteRow(db'.app[x])
    <3> DEFINE c == calls[r]
    <3>1. CallOK(c) /\ c.req.object = "app"
      BY <2>5 DEF ShapeOK, RowWrites
    <3>2. CASE c.pc = "insert" /\ AddsRow("app", Stored(c.req))
      <4>1. SiteRow(Stored(c.req))
        BY <3>1, <3>2, SiteWritten DEF CallOK, Serves
      <4> QED BY <2>2, <3>2, <4>1
    <3>3. CASE c.pc = "write" /\ SetsRow("app", c.req.id, Merged(c.req, c.got))
      <4>1. SiteRow(Merged(c.req, c.got))
        BY <3>1, <3>3, SiteWritten DEF CallOK, Serves, HostsOK
      <4> QED BY <2>3, <3>3, <4>1
    <3>4. c.pc # "replace"
      BY <3>1 DEF CallOK, Serves
    <3> QED BY <2>5, <3>2, <3>3, <3>4 DEF RowWrites
  <2> QED BY <1>1, <2>1, <2>4, <2>5, RowChanges DEF RowChange
<1>3. ASSUME NEW r \in Callers, calls'[r].pc = "write", calls'[r].req.object = "app"
      PROVE  SiteRow(calls'[r].got)
  <2>1. CASE calls'[r] = calls[r]
    BY <1>3, <2>1 DEF HostsOK
  <2>2. CASE calls'[r] # calls[r]
    BY <1>3, <2>2, ArrivesToWrite DEF HostsOK
  <2> QED BY <2>1, <2>2
<1> QED BY <1>2, <1>3 DEF HostsOK

----------------------------------------------------------------------------
(* A session, and a login about to open one, is of an account with an id    *)
(* that was given away.                                                     *)

SignersOK ==
  /\ \A t \in DOMAIN db.sessions : db.sessions[t].user \in 1..(db.auto.user - 1)
  /\ \A r \in Callers : calls[r].pc = "signIn" => calls[r].got.user \in 1..(db.auto.user - 1)

LEMMA AutoGrows ==
  ASSUME ShapeOK, [Next]_vars, NEW table \in Numbered
  PROVE  db.auto[table] <= db'.auto[table] /\ db.auto[table] \in Nat /\ db'.auto[table] \in Nat
<1>1. ShapeOK'
  BY ShapeStep
<1>2. db.auto[table] \in Nat /\ db'.auto[table] \in Nat /\ DOMAIN db.auto = Numbered
  BY <1>1 DEF ShapeOK, TablesThere
<1>3. CASE db'.auto = db.auto
  BY <1>2, <1>3
<1>4. CASE \E object : db'.auto = [db.auto EXCEPT ![object] = @ + 1]
  BY <1>2, <1>4
<1>5. "auto" \in Tables /\ "auto" \notin Objects
  BY DEF Tables, Objects
<1>6. ASSUME NEW T, Keeps(T), "auto" \notin T
      PROVE  db'.auto = db.auto
  BY <1>5, <1>6 DEF Keeps
<1>7. ASSUME NEW r \in Callers, StepEffect(r)
      PROVE  db'.auto = db.auto \/ \E object : db'.auto = [db.auto EXCEPT ![object] = @ + 1]
  <2>1. ASSUME NEW object, NEW row, AddsRow(object, row)
        PROVE  \E x : db'.auto = [db.auto EXCEPT ![x] = @ + 1]
    BY <2>1 DEF AddsRow
  <2>2. ASSUME NEW object, NEW id, NEW row, SetsRow(object, id, row)
        PROVE  db'.auto = db.auto
    BY <1>5, <1>6, <2>2 DEF SetsRow
  <2>3. ASSUME NEW other, NEW K, other # "auto", DropsRows(other, K)
        PROVE  db'.auto = db.auto
    BY <1>6, <2>3 DEF DropsRows
  <2>4. ASSUME NEW what, NEW object, NEW id, CleansUp(what, object, id)
        PROVE  db'.auto = db.auto
    BY <1>6, <2>3, <2>4 DEF CleansUp
  <2>5. \A other \in {"adminLogs", "loginLogs"} : \A entry : Logs(other, entry) => db'.auto = db.auto
    BY <1>6 DEF Logs
  <2>6. \A t, user, entry : OpensSession(t, user, entry) => db'.auto = db.auto
    BY <1>6 DEF OpensSession
  <2>7. ASSUME NEW row, AddsEntry(row)
        PROVE  \E x : db'.auto = [db.auto EXCEPT ![x] = @ + 1]
    BY <2>7 DEF AddsEntry
  <2>8. \A id, side : AddsBody(id, side) => db'.auto = db.auto
    BY <1>6 DEF AddsBody
  <2> QED BY <1>5, <1>7, <2>1, <2>2, <2>3, <2>4, <2>5, <2>6, <2>7, <2>8 DEF StepEffect
<1>8. AddsRow("user", Admin) => \E object : db'.auto = [db.auto EXCEPT ![object] = @ + 1]
  BY DEF AddsRow
<1> QED BY <1>3, <1>4, <1>7, <1>8, StepKinds

SessionChange ==
  \/ db'.sessions = db.sessions
  \/ \E K : DropsRows("sessions", K)
  \/ \E r \in Callers : /\ Statements(r) /\ calls[r].pc = "signIn"
                        /\ \E t : OpensSession(t, calls[r].got.user, LoginEntry(calls[r].req, "success"))

LEMMA SessionChanges ==
  ASSUME ShapeOK, [Next]_vars
  PROVE  SessionChange
<1>1. "sessions" \in Tables \ (Objects \cup {"auto", "members", "access_log", "bodies", "adminLogs", "loginLogs"})
  BY DEF Tables, Objects, Numbered
<1>2. ASSUME NEW T, Keeps(T), "sessions" \notin T
      PROVE  SessionChange
  BY <1>1, <1>2 DEF Keeps, SessionChange
<1>3. ASSUME NEW other, NEW K, DropsRows(other, K)
      PROVE  SessionChange
  BY <1>2, <1>3 DEF DropsRows, SessionChange
<1>4. ASSUME NEW object, NEW row, AddsRow(object, row)
      PROVE  SessionChange
  BY <1>1, <1>2, <1>4 DEF AddsRow
<1>5. ASSUME NEW r \in Callers, Statements(r), StepEffect(r)
      PROVE  SessionChange
  <2> DEFINE c == calls[r]
  <2>1. ASSUME NEW object, NEW id, NEW row, SetsRow(object, id, row)
        PROVE  SessionChange
    BY <1>1, <1>2, <2>1 DEF SetsRow
  <2>2. ASSUME NEW what, NEW object, NEW id, CleansUp(what, object, id)
        PROVE  SessionChange
    BY <1>1, <1>2, <1>3, <2>2 DEF CleansUp
  <2>3. CASE \E other \in {"adminLogs", "loginLogs"} : \E entry : Logs(other, entry)
    BY <1>1, <1>2, <2>3 DEF Logs
  <2>4. CASE c.pc = "signIn" /\ \E t : OpensSession(t, c.got.user, LoginEntry(c.req, "success"))
    BY <1>5, <2>4 DEF SessionChange
  <2>5. CASE \E row : AddsEntry(row)
    BY <1>1, <1>2, <2>5 DEF AddsEntry
  <2>6. CASE \E id, side : AddsBody(id, side)
    BY <1>1, <1>2, <2>6 DEF AddsBody
  <2> HIDE DEF c
  <2> QED BY <1>3, <1>4, <1>5, <2>1, <2>2, <2>3, <2>4, <2>5, <2>6 DEF StepEffect, c
<1>6. db' = db => SessionChange
  BY DEF SessionChange
<1> QED BY <1>4, <1>5, <1>6, StepKinds

(* A login opens a session of an account it found.                          *)
LEMMA ArrivesToSignIn ==
  ASSUME ShapeOK, [Next]_vars, NEW r \in Callers, calls'[r].pc = "signIn", calls'[r] # calls[r]
  PROVE  calls'[r].got.user \in DOMAIN db.user /\ db' = db
<1> DEFINE c == calls[r]
<1>1. Statements(r) /\ "signIn" \in Onwards[c.pc]
  BY Arrives DEF Firsts
<1>2. c.pc = "credentials" /\ Credentials(r)
  <2> HIDE DEF c
  <2> QED BY <1>1, ActionOf DEF Onwards, c
<1>3. db' = db
  BY <1>2, QueriesOnly
<1>4. DOMAIN c = Fields
  BY DEF ShapeOK, CallOK
<1> DEFINE next(user) == [To(c, "signIn") EXCEPT !.got = [user |-> user]]
<1>5. \/ Statement(r, db, To(c, "logFailure"), To(c, "logFailure"))
      \/ \E user \in DOMAIN db.user : Statement(r, db, next(user), To(c, "logFailure"))
  <2> DEFINE Good == {id \in DOMAIN db.user : /\ db.user[id].name = c.req.name
                                              /\ db.user[id].status = "active"
                                              /\ db.user[id].password = c.req.password}
  <2>1. Query(r, IF Good = {} THEN To(c, "logFailure") ELSE next(CHOOSE id \in Good : TRUE), To(c, "logFailure"))
    BY <1>2 DEF Credentials
  <2>2. Good # {} => (CHOOSE id \in Good : TRUE) \in DOMAIN db.user
    OBVIOUS
  <2> HIDE DEF Good, next, c
  <2> QED BY <2>1, <2>2 DEF Query
<1>6. \A user : DOMAIN next(user) = Fields /\ next(user).got.user = user
  BY <1>4, ToFacts DEF Fields
<1>7. DOMAIN To(c, "logFailure") = Fields /\ To(c, "logFailure").pc = "logFailure"
  BY <1>4, ToFacts
<1> HIDE DEF next, c
<1>8. ASSUME Statement(r, db, To(c, "logFailure"), To(c, "logFailure"))
      PROVE  FALSE
  BY <1>7, <1>8, StatementFacts
<1>9. ASSUME NEW user \in DOMAIN db.user, Statement(r, db, next(user), To(c, "logFailure"))
      PROVE  calls'[r].got.user = user
  BY <1>6, <1>7, <1>9, StatementFacts
<1> QED BY <1>3, <1>5, <1>8, <1>9

LEMMA SignersStep ==
  ASSUME ShapeOK, SignersOK, [Next]_vars
  PROVE  SignersOK'
<1>1. db.auto.user <= db'.auto.user /\ db.auto.user \in Nat /\ db'.auto.user \in Nat
  BY AutoGrows DEF Numbered, Objects
<1>2. \A user \in 1..(db.auto.user - 1) : user \in 1..(db'.auto.user - 1)
  BY <1>1
<1>3. ASSUME NEW t \in DOMAIN db'.sessions
      PROVE  db'.sessions[t].user \in 1..(db.auto.user - 1)
  <2>1. CASE db'.sessions = db.sessions
    BY <1>3, <2>1 DEF SignersOK
  <2>2. CASE \E K : DropsRows("sessions", K)
    <3>1. PICK K : db'.sessions = Drop(db.sessions, K)
      BY <2>2 DEF DropsRows
    <3>2. DOMAIN db'.sessions = DOMAIN db.sessions \ K
          /\ \A x \in DOMAIN db.sessions \ K : db'.sessions[x] = db.sessions[x]
      BY <3>1 DEF Drop
    <3> QED BY <1>3, <3>2 DEF SignersOK
  <2>3. ASSUME NEW r \in Callers, calls[r].pc = "signIn", NEW x, NEW entry, OpensSession(x, calls[r].got.user, entry)
        PROVE  db'.sessions[t].user \in 1..(db.auto.user - 1)
    <3> DEFINE session == [user |-> calls[r].got.user, expires |-> now + SessionTTL]
    <3>1. db'.sessions = Put(db.sessions, x, session)
      BY <2>3 DEF OpensSession
    <3>2. /\ DOMAIN db'.sessions = DOMAIN db.sessions \cup {x} /\ db'.sessions[x] = session
          /\ \A y \in DOMAIN db.sessions \ {x} : db'.sessions[y] = db.sessions[y]
      BY <3>1 DEF Put
    <3>3. session.user \in 1..(db.auto.user - 1)
      BY <2>3 DEF SignersOK
    <3> HIDE DEF session
    <3> QED BY <1>3, <3>2, <3>3 DEF SignersOK
  <2> QED BY <2>1, <2>2, <2>3, SessionChanges DEF SessionChange
<1>4. ASSUME NEW r \in Callers, calls'[r].pc = "signIn"
      PROVE  calls'[r].got.user \in 1..(db'.auto.user - 1)
  <2>1. CASE calls'[r] = calls[r]
    BY <1>2, <1>4, <2>1 DEF SignersOK
  <2>2. CASE calls'[r] # calls[r]
    <3>1. calls'[r].got.user \in DOMAIN db.user
      BY <1>4, <2>2, ArrivesToSignIn
    <3> QED BY <1>2, <3>1 DEF ShapeOK, TablesThere, Numbered, Objects
  <2> QED BY <2>1, <2>2
<1> QED BY <1>2, <1>3, <1>4 DEF SignersOK

----------------------------------------------------------------------------
SeenFacts == DOMAIN seen = Callers /\ \A r \in Callers : seen[r] \subseteq Facts

TablesInv == ShapeOK /\ Uniques /\ HostsOK /\ SignersOK /\ SeenFacts

LEMMA TablesStep ==
  ASSUME TablesInv, [Next]_vars
  PROVE  TablesInv'
<1>1. SeenFacts'
  <2>1. CASE Observe
    BY <2>1 DEF Observe, SeenFacts, TablesInv, FactsOf
  <2> QED BY <2>1, StepHistory DEF SeenFacts, TablesInv, vars
<1> QED BY <1>1, ShapeStep, UniquesStep, HostsStep, SignersStep DEF TablesInv

(* What TablesOK rests on.                                                  *)
THEOREM TablesInvariant == Spec => []TablesInv
<1>1. Init => TablesInv
  <2> SUFFICES ASSUME Init
               PROVE  TablesInv
    OBVIOUS
  <2>1. Uniques
    BY SeedAssumption DEF Init, Uniques
  <2>2. \A r \in Callers : calls[r].pc = "end"
    BY DEF Init, Idle
  <2>3. HostsOK
    BY <2>2, SeedAssumption DEF Init, HostsOK, SiteRow, Hosts
  <2>4. SignersOK
    BY <2>2, SeedAssumption DEF Init, SignersOK
  <2>5. SeenFacts
    BY DEF Init, SeenFacts
  <2> QED BY <2>1, <2>3, <2>4, <2>5, ShapeInit DEF TablesInv
<1>2. TablesInv /\ [Next]_vars => TablesInv'
  BY TablesStep
<1> QED BY <1>1, <1>2, PTL DEF Spec

(* The tables stay well-formed: ids from their counters, unique columns      *)
(* unique, hosts as lookups ask for them, sessions of accounts there were.   *)
THEOREM TablesWellFormed == Spec => []TablesOK
<1>1. TablesInv => TablesOK
  <2> SUFFICES ASSUME TablesInv
               PROVE  TablesOK
    OBVIOUS
  <2>1. \A object \in Objects : \A id \in DOMAIN db[object] : id \in 1..(db.auto[object] - 1)
    BY DEF TablesInv, ShapeOK, TablesThere, Numbered
  <2>2. \A id \in DOMAIN db.app : \E host \in DOMAIN NormalizeHost : db.app[id].domain = NormalizeHost[host]
    BY DEF TablesInv, HostsOK, SiteRow, Hosts
  <2> QED BY <2>1, <2>2 DEF TablesInv, TablesOK, ShapeOK, Uniques, SignersOK, SeenFacts
<1> QED BY <1>1, TablesInvariant, PTL

----------------------------------------------------------------------------
(* Sessions and the login log.                                              *)

Openings(log) == {i \in DOMAIN log : i > Len(Seed.loginLogs) /\ log[i].result = "success"}
Opened        == issued \ DOMAIN Seed.sessions

IsLog(log) == \E S : log \in Seq(S)

LoginsInv ==
  /\ (DOMAIN db.sessions) \cup (DOMAIN Seed.sessions) \subseteq issued
  /\ IsLog(db.loginLogs) /\ Len(db.loginLogs) >= Len(Seed.loginLogs)
  /\ IsFiniteSet(Opened)
  /\ Cardinality(Openings(db.loginLogs)) = Cardinality(Opened)

LEMMA LogGrows ==
  ASSUME NEW log, IsLog(log), NEW entry
  PROVE  /\ IsLog(Append(log, entry))
         /\ Len(log) \in Nat /\ Len(Append(log, entry)) = Len(log) + 1 /\ DOMAIN log = 1..Len(log)
         /\ DOMAIN Append(log, entry) = DOMAIN log \cup {Len(log) + 1}
         /\ Append(log, entry)[Len(log) + 1] = entry
         /\ \A i \in DOMAIN log : Append(log, entry)[i] = log[i]
<1>1. PICK S : log \in Seq(S)
  BY DEF IsLog
<1>2. log \in Seq(S \cup {entry}) /\ entry \in S \cup {entry}
  BY <1>1
<1>3. Append(log, entry) \in Seq(S \cup {entry})
  BY <1>2
<1> QED BY <1>2, <1>3 DEF IsLog

LEMMA OpeningsGrow ==
  ASSUME NEW log, IsLog(log), NEW entry, Len(log) >= Len(Seed.loginLogs)
  PROVE  /\ IsFiniteSet(Openings(log)) /\ Len(log) + 1 \notin Openings(log)
         /\ entry.result # "success" => Openings(Append(log, entry)) = Openings(log)
         /\ entry.result = "success" => Openings(Append(log, entry)) = Openings(log) \cup {Len(log) + 1}
<1> DEFINE n == Len(log)
           new == Append(log, entry)
<1>1. /\ n \in Nat /\ DOMAIN log = 1..n /\ DOMAIN new = DOMAIN log \cup {n + 1}
      /\ new[n + 1] = entry /\ \A i \in DOMAIN log : new[i] = log[i]
  BY LogGrows
<1>2. IsFiniteSet(Openings(log))
  <2>1. IsFiniteSet(1..n)
    BY <1>1, FS_Interval
  <2>2. Openings(log) \subseteq 1..n
    BY <1>1 DEF Openings
  <2> QED BY <2>1, <2>2, FS_Subset
<1>3. Len(Seed.loginLogs) \in Nat
  BY SeedAssumption
<1>4. n + 1 > Len(Seed.loginLogs)
  BY <1>1, <1>3
<1>5. n + 1 \notin DOMAIN log
  BY <1>1
<1> HIDE DEF n, new
<1>6. entry.result # "success" => Openings(new) = Openings(log)
  BY <1>1, <1>4 DEF Openings
<1>7. entry.result = "success" => Openings(new) = Openings(log) \cup {n + 1}
  BY <1>1, <1>4 DEF Openings
<1> QED BY <1>2, <1>5, <1>6, <1>7 DEF n, new, Openings

LoginChange ==
  \/ db'.loginLogs = db.loginLogs /\ DOMAIN db'.sessions \subseteq DOMAIN db.sessions
  \/ \E req : /\ db'.loginLogs = Append(db.loginLogs, LoginEntry(req, "failure"))
              /\ db'.sessions = db.sessions
  \/ \E req : \E t \in Tokens \ issued :
       /\ db'.loginLogs = Append(db.loginLogs, LoginEntry(req, "success"))
       /\ DOMAIN db'.sessions = DOMAIN db.sessions \cup {t}

LEMMA LoginChanges ==
  ASSUME ShapeOK, [Next]_vars
  PROVE  LoginChange
<1>1. {"sessions", "loginLogs"} \subseteq Tables \ (Objects \cup {"auto", "members", "access_log", "bodies", "adminLogs"})
  BY DEF Tables, Objects, Numbered
<1>2. ASSUME NEW T, Keeps(T), T \cap {"sessions", "loginLogs"} = {}
      PROVE  LoginChange
  BY <1>1, <1>2 DEF Keeps, LoginChange
<1>3. ASSUME NEW other, NEW K, other # "loginLogs", DropsRows(other, K)
      PROVE  LoginChange
  <2>1. CASE other = "sessions"
    BY <1>1, <1>3, <2>1 DEF Drop, DropsRows, Keeps, LoginChange
  <2>2. CASE other # "sessions"
    BY <1>2, <1>3, <2>2 DEF DropsRows
  <2> QED BY <2>1, <2>2
<1>4. ASSUME NEW object, NEW row, AddsRow(object, row)
      PROVE  LoginChange
  BY <1>1, <1>2, <1>4 DEF AddsRow
<1>5. ASSUME NEW r \in Callers, StepEffect(r)
      PROVE  LoginChange
  <2> DEFINE c == calls[r]
  <2>1. ASSUME NEW object, NEW id, NEW row, SetsRow(object, id, row)
        PROVE  LoginChange
    BY <1>1, <1>2, <2>1 DEF SetsRow
  <2>2. ASSUME NEW what, NEW object, NEW id, CleansUp(what, object, id)
        PROVE  LoginChange
    BY <1>1, <1>2, <1>3, <2>2 DEF CleansUp
  <2>3. CASE \E entry : Logs("adminLogs", entry)
    BY <1>1, <1>2, <2>3 DEF Logs
  <2>4. CASE Logs("loginLogs", LoginEntry(c.req, "failure"))
    BY <1>1, <2>4 DEF Logs, Keeps, LoginChange
  <2>5. CASE \E t : OpensSession(t, c.got.user, LoginEntry(c.req, "success"))
    <3>1. PICK t : OpensSession(t, c.got.user, LoginEntry(c.req, "success"))
      BY <2>5
    <3>2. DOMAIN db'.sessions = DOMAIN db.sessions \cup {t}
      BY <3>1 DEF Put, OpensSession
    <3> QED BY <3>1, <3>2 DEF OpensSession, LoginChange
  <2>6. CASE \E row : AddsEntry(row)
    BY <1>1, <1>2, <2>6 DEF AddsEntry
  <2>7. CASE \E id, side : AddsBody(id, side)
    BY <1>1, <1>2, <2>7 DEF AddsBody
  <2>8. "loginLogs" \notin Objects
    BY <1>1
  <2> HIDE DEF c
  <2> QED BY <1>3, <1>4, <1>5, <2>1, <2>2, <2>3, <2>4, <2>5, <2>6, <2>7, <2>8 DEF StepEffect, c
<1>6. db' = db => LoginChange
  BY DEF LoginChange
<1> QED BY <1>4, <1>5, <1>6, StepKinds

LEMMA LoginsStep ==
  ASSUME ShapeOK, LoginsInv, [Next]_vars
  PROVE  LoginsInv'
<1> DEFINE n == Len(db.loginLogs)
<1>0. Len(Seed.loginLogs) \in Nat
  BY SeedAssumption
<1>1. CASE UNCHANGED vars
  BY <1>1 DEF vars, LoginsInv, Opened
<1>2. CASE Observe
  <2>1. issued' = issued \cup DOMAIN db'.sessions
    BY <1>2 DEF Observe
  <2>2. ASSUME db'.loginLogs = db.loginLogs, DOMAIN db'.sessions \subseteq DOMAIN db.sessions
        PROVE  LoginsInv'
    <3>1. issued' = issued
      BY <2>1, <2>2 DEF LoginsInv
    <3> QED BY <2>2, <3>1 DEF LoginsInv, Opened
  <2>3. ASSUME NEW req, db'.loginLogs = Append(db.loginLogs, LoginEntry(req, "failure")),
               db'.sessions = db.sessions
        PROVE  LoginsInv'
    <3>1. issued' = issued
      BY <2>1, <2>3 DEF LoginsInv
    <3>2. IsLog(db'.loginLogs) /\ Len(db'.loginLogs) = n + 1 /\ n \in Nat
      BY <2>3, LogGrows DEF LoginsInv
    <3>3. Openings(db'.loginLogs) = Openings(db.loginLogs)
      BY <2>3, OpeningsGrow DEF LoginsInv, LoginEntry
    <3> QED BY <1>0, <2>3, <3>1, <3>2, <3>3 DEF LoginsInv, Opened
  <2>4. ASSUME NEW req, NEW t \in Tokens \ issued,
               db'.loginLogs = Append(db.loginLogs, LoginEntry(req, "success")),
               DOMAIN db'.sessions = DOMAIN db.sessions \cup {t}
        PROVE  LoginsInv'
    <3>1. issued' = issued \cup {t}
      BY <2>1, <2>4 DEF LoginsInv
    <3>2. IsLog(db'.loginLogs) /\ Len(db'.loginLogs) = n + 1 /\ n \in Nat
      BY <2>4, LogGrows DEF LoginsInv
    <3>3. /\ Openings(db'.loginLogs) = Openings(db.loginLogs) \cup {n + 1}
          /\ IsFiniteSet(Openings(db.loginLogs)) /\ n + 1 \notin Openings(db.loginLogs)
      BY <2>4, OpeningsGrow DEF LoginsInv, LoginEntry
    <3>4. Opened' = Opened \cup {t} /\ t \notin Opened
      BY <2>4, <3>1 DEF Opened, LoginsInv
    <3>5. /\ Cardinality(Openings(db'.loginLogs)) = Cardinality(Openings(db.loginLogs)) + 1
          /\ Cardinality(Opened') = Cardinality(Opened) + 1 /\ IsFiniteSet(Opened')
      BY <3>3, <3>4, FS_AddElement DEF LoginsInv
    <3> QED BY <1>0, <2>4, <3>1, <3>2, <3>5 DEF LoginsInv
  <2> QED BY <2>2, <2>3, <2>4, LoginChanges DEF LoginChange
<1> QED BY <1>1, <1>2, StepHistory

(* Sessions opened and successes logged go together, in one transaction.     *)
THEOREM LoginsRecorded == Spec => []SessionsHaveLogins
<1>1. Init => LoginsInv
  <2> SUFFICES ASSUME Init
               PROVE  LoginsInv
    OBVIOUS
  <2>1. IsLog(Seed.loginLogs)
    BY SeedAssumption DEF IsLog
  <2>2. /\ Len(Seed.loginLogs) \in Nat /\ DOMAIN Seed.loginLogs = 1..Len(Seed.loginLogs)
    BY <2>1, LogGrows
  <2>3. Openings(Seed.loginLogs) = {} /\ Opened = {}
    BY <2>2 DEF Openings, Opened, Init
  <2>4. IsFiniteSet({}) /\ Cardinality({}) = 0
    BY FS_EmptySet
  <2> QED BY <2>1, <2>2, <2>3, <2>4 DEF Init, LoginsInv
<1>2. ShapeOK /\ LoginsInv /\ [Next]_vars => LoginsInv'
  BY LoginsStep
<1>3. LoginsInv => SessionsHaveLogins
  BY DEF LoginsInv, SessionsHaveLogins, Openings, Opened
<1> QED BY <1>1, <1>2, <1>3, Shaped, PTL DEF Spec

----------------------------------------------------------------------------
(* What answers say of the tables.                                          *)

SeenInv == \A r \in Callers : calls[r].pc # "end" => FactsOf(r) \subseteq seen[r]

LEMMA FactsStill ==
  ASSUME UNCHANGED vars, NEW r
  PROVE  FactsOf(r)' = FactsOf(r)
BY DEF vars, bounds, FactsOf, Met, Subject, Target, Hosting, SignedIn, ByUser, ByGroup, InForce, Stored, GroupRow

LEMMA SeenStep ==
  ASSUME ShapeOK, SeenInv, [Next]_vars
  PROVE  SeenInv'
<1>1. CASE Observe
  BY <1>1 DEF Observe, SeenInv
<1>2. CASE UNCHANGED vars
  <2> SUFFICES ASSUME NEW r \in Callers, calls'[r].pc # "end"
               PROVE  FactsOf(r)' \subseteq seen'[r]
    BY DEF SeenInv
  <2>1. calls'[r].pc = calls[r].pc /\ seen'[r] = seen[r]
    BY <1>2 DEF vars
  <2>2. FactsOf(r)' = FactsOf(r)
    BY <1>2, FactsStill
  <2> QED BY <2>1, <2>2 DEF SeenInv
<1> QED BY <1>1, <1>2, StepHistory

(* A row that is not there, or that would not change.                        *)
LEMMA MissingFacts ==
  ASSUME NEW r \in Callers, CallOK(calls[r]),
         LET c == calls[r]
         IN  \/ c.req.action \in {"update", "delete"} /\ c.req.id \notin DOMAIN db[c.req.object]
             \/ /\ c.req.action = "create" /\ DOMAIN c.got = {"id"}
                /\ c.got.id \notin DOMAIN db[c.req.object]
             \/ c.req.action = "check" /\ Hosting(c.req.host) = {}
             \/ c.req.action = "view" /\ c.req.id \notin DOMAIN db.access_log
  PROVE  "missing" \in FactsOf(r)
<1>1. "missing" \in Facts
  BY DEF Facts
<1>2. Met("missing", calls[r])
  BY DEF Met
<1> QED BY <1>1, <1>2 DEF FactsOf

LEMMA UnchangedFacts ==
  ASSUME NEW r \in Callers,
         LET c == calls[r]
         IN  /\ c.req.action = "update" /\ c.req.object \in {"group", "body_rule"}
             /\ c.req.id \in DOMAIN db[c.req.object] /\ db[c.req.object][c.req.id] = Stored(c.req)
  PROVE  "unchanged" \in FactsOf(r)
<1>1. "unchanged" \in Facts
  BY DEF Facts
<1>2. Met("unchanged", calls[r])
  BY DEF Met
<1> QED BY <1>1, <1>2 DEF FactsOf

LEMMA EndsAs ==
  ASSUME ShapeOK, NEW r \in Callers, NEW after, NEW ok, NEW failed, Statement(r, after, ok, failed),
         DOMAIN ok = Fields, DOMAIN failed = Fields, NEW how, ok.answer # how, failed.answer # how
  PROVE  calls'[r].answer # how
BY StatementFacts

LEMMA SaysNotFound ==
  ASSUME ShapeOK, NEW r \in Callers, Statements(r), calls'[r].answer = "notfound"
  PROVE  {"missing", "unchanged"} \cap FactsOf(r) # {}
<1> DEFINE c == calls[r]
<1>0. DOMAIN c = Fields /\ CallOK(c) /\ c.pc # "end" /\ c.answer = "none"
  BY StepFrame DEF ShapeOK, CallOK
<1>1. "notfound" \in Endings[c.pc]
  BY <1>0, StepGoes DEF Goes
<1>2. ASSUME NEW ok, NEW failed, Statement(r, db, ok, failed), DOMAIN ok = Fields, DOMAIN failed = Fields,
             ok.answer # "notfound", failed.answer # "notfound"
      PROVE  FALSE
  BY <1>2, EndsAs
<1>3. /\ DOMAIN End(c, "error") = Fields /\ End(c, "error").answer = "error"
      /\ DOMAIN End(c, "forbidden") = Fields /\ End(c, "forbidden").answer = "forbidden"
      /\ DOMAIN End(c, "granted") = Fields /\ End(c, "granted").answer = "granted"
  BY EndFacts
<1>4. CASE ReadBack(r) /\ c.pc = "readBack"
  <2>1. IdOf(c) \in DOMAIN db[c.req.object] => Statement(r, db, To(c, "audit"), End(c, "error"))
    BY <1>4 DEF ReadBack, Query
  <2>2. DOMAIN To(c, "audit") = Fields /\ To(c, "audit").answer = "none"
    BY <1>0, ToFacts
  <2>3. IdOf(c) \notin DOMAIN db[c.req.object]
    BY <1>2, <1>3, <2>1, <2>2
  <2>4. \/ c.req.action = "update" /\ c.req.id \notin DOMAIN db[c.req.object]
        \/ c.req.action = "create" /\ DOMAIN c.got = {"id"} /\ c.got.id \notin DOMAIN db[c.req.object]
    BY <1>0, <1>4, <2>3 DEF CallOK, Serves, GotOK, IdOf
  <2> QED BY <1>0, <2>4, MissingFacts
<1>5. CASE ReadRow(r) /\ c.pc = "read"
  <2> DEFINE next == [To(c, "write") EXCEPT !.got = db[c.req.object][c.req.id]]
  <2>1. c.req.id \in DOMAIN db[c.req.object] => Statement(r, db, next, End(c, "error"))
    BY <1>5 DEF ReadRow, Query
  <2>2. DOMAIN next = Fields /\ next.answer = "none"
    BY <1>0, ToFacts DEF Fields
  <2> HIDE DEF next
  <2>3. c.req.id \notin DOMAIN db[c.req.object] /\ c.req.action = "update"
    BY <1>0, <1>2, <1>3, <1>5, <2>1, <2>2 DEF CallOK, Serves
  <2> QED BY <1>0, <2>3, MissingFacts
<1>6. CASE Replace(r) /\ c.pc = "replace"
  <2> DEFINE changes == Affected(c.req.object, c.req.id, Stored(c.req))
             next == To(Did(c, c.req.id), "readBack")
  <2>1. changes => \/ Statement(r, db, End(c, "error"), End(c, "error"))
                   \/ \E after : Statement(r, after, next, End(c, "error"))
    BY <1>6 DEF Replace, Query
  <2>2. DOMAIN next = Fields /\ next.answer = "none"
    BY <1>0 DEF To, Did, Fields
  <2> HIDE DEF next
  <2>3. ~changes
    BY <1>3, <2>1, <2>2, EndsAs
  <2>4. c.req.action = "update" /\ c.req.object \in {"group", "body_rule"}
    BY <1>0, <1>6 DEF CallOK, Serves
  <2>5. \/ c.req.id \notin DOMAIN db[c.req.object]
        \/ c.req.id \in DOMAIN db[c.req.object] /\ db[c.req.object][c.req.id] = Stored(c.req)
    BY <2>3 DEF Affected
  <2> QED BY <1>0, <2>4, <2>5, MissingFacts, UnchangedFacts
<1>7. CASE DeleteRow(r) /\ c.pc = "row"
  <2> DEFINE next == CleanNext(Did(c, c.req.id), Cascade[c.req.object])
  <2>1. c.req.id \in DOMAIN db[c.req.object] => \E after : Statement(r, after, next, End(c, "error"))
    BY <1>7 DEF DeleteRow
  <2>2. DOMAIN next = Fields /\ next.answer = "none"
    BY <1>0 DEF CleanNext, To, Did, Fields
  <2> HIDE DEF next
  <2>3. c.req.id \notin DOMAIN db[c.req.object] /\ c.req.action = "delete"
    BY <1>0, <1>3, <1>7, <2>1, <2>2, EndsAs DEF CallOK, Serves
  <2> QED BY <1>0, <2>3, MissingFacts
<1>8. CASE AppByDomain(r) /\ c.pc = "app"
  <2> DEFINE app == CHOOSE id \in Hosting(c.req.host) : TRUE
             next == [To(c, "userPolicies") EXCEPT !.got = [user |-> c.got.user, app |-> app, at |-> now]]
  <2>1. Hosting(c.req.host) # {} => \/ Statement(r, db, End(c, "forbidden"), End(c, "forbidden"))
                                    \/ Statement(r, db, End(c, "granted"), End(c, "forbidden"))
                                    \/ Statement(r, db, next, End(c, "forbidden"))
    BY <1>8 DEF AppByDomain, Query
  <2>2. DOMAIN next = Fields /\ next.answer = "none"
    BY <1>0, ToFacts DEF Fields
  <2> HIDE DEF next
  <2>3. Hosting(c.req.host) = {} /\ c.req.action = "check"
    BY <1>0, <1>2, <1>3, <1>8, <2>1, <2>2 DEF CallOK, Serves
  <2> QED BY <1>0, <2>3, MissingFacts
<1>9. CASE GetEntry(r) /\ c.pc = "entry"
  <2> DEFINE next == [To(c, "bodies") EXCEPT !.got = db.access_log[c.req.id]]
  <2>1. c.req.id \in DOMAIN db.access_log => Statement(r, db, next, End(c, "error"))
    BY <1>9 DEF GetEntry, Query
  <2>2. DOMAIN next = Fields /\ next.answer = "none"
    BY <1>0, ToFacts DEF Fields
  <2> HIDE DEF next
  <2>3. c.req.id \notin DOMAIN db.access_log /\ c.req.action = "view"
    BY <1>0, <1>2, <1>3, <1>9, <2>1, <2>2 DEF CallOK, Serves
  <2> QED BY <1>0, <2>3, MissingFacts
<1> HIDE DEF c
<1> QED BY <1>1, <1>4, <1>5, <1>6, <1>7, <1>8, <1>9, ActionOf DEF Endings, c

(* How a call that ends keeps what it met.                                   *)
LEMMA AnswersStep ==
  ASSUME ShapeOK, [Next]_vars, NEW r \in Callers, NEW how \in {"granted", "notfound"}, calls'[r].answer = how
  PROVE  \/ calls[r].answer = how /\ seen'[r] = seen[r]
         \/ Statements(r) /\ calls[r].pc # "end" /\ calls'[r].pc = "end" /\ seen'[r] = seen[r]
<1>1. ShapeOK'
  BY ShapeStep
<1>2. calls'[r].pc = "end"
  BY <1>1 DEF ShapeOK, CallOK
<1>3. seen'[r] = seen[r]
  BY <1>2, StepHistory DEF Observe, vars
<1>4. CASE calls'[r] = calls[r]
  BY <1>3, <1>4
<1>5. CASE calls'[r] # calls[r]
  <2>1. ~(Crash /\ calls'[r] = Idle)
    BY DEF Idle
  <2>2. ~Start(r)
    BY StartFacts
  <2>3. Statements(r)
    BY <1>5, <2>1, <2>2, StepsOfCalls
  <2> QED BY <1>2, <1>3, <2>3, StepFrame
<1> QED BY <1>4, <1>5

(* What a call in progress met is in its history.                            *)
THEOREM FactsSeen == Spec => []SeenInv
<1>1. Init => SeenInv
  BY DEF Init, Idle, SeenInv
<1>2. ShapeOK /\ SeenInv /\ [Next]_vars => SeenInv'
  BY SeenStep
<1> QED BY <1>1, <1>2, Shaped, PTL DEF Spec

(* Whoever is told that something is not there was so at some time.           *)
THEOREM AbsenceExplained == Spec => []NotFoundExplained
<1>1. Init => NotFoundExplained
  BY DEF Init, Idle, NotFoundExplained
<1>2. ShapeOK /\ SeenInv /\ NotFoundExplained /\ [Next]_vars => NotFoundExplained'
  <2> SUFFICES ASSUME ShapeOK, SeenInv, NotFoundExplained, [Next]_vars
               PROVE  NotFoundExplained'
    OBVIOUS
  <2> SUFFICES ASSUME NEW r \in Callers, calls'[r].answer = "notfound"
               PROVE  {"missing", "unchanged"} \cap seen'[r] # {}
    BY DEF NotFoundExplained
  <2>1. CASE calls[r].answer = "notfound" /\ seen'[r] = seen[r]
    BY <2>1 DEF NotFoundExplained
  <2>2. CASE Statements(r) /\ calls[r].pc # "end" /\ seen'[r] = seen[r]
    BY <2>2, SaysNotFound DEF SeenInv
  <2> QED BY <2>1, <2>2, AnswersStep
<1> QED BY <1>1, <1>2, Shaped, FactsSeen, PTL DEF Spec

----------------------------------------------------------------------------
(* What a grant rests on, as far as the call has come.                       *)

EarnedBy(r, have) ==
  LET c == calls[r]
  IN  /\ c.pc # "end" => c.since \in 0..now
      /\ c.pc \in {"app", "userPolicies", "groupPolicies"} => "signedIn" \in have
      /\ c.pc = "app" /\ c.got.admin => "administrator" \in have
      /\ c.pc \in {"userPolicies", "groupPolicies"} => "enabled" \in have /\ c.got.at \in c.since..now

EarnedInv == \A r \in Callers : EarnedBy(r, seen[r])

LEMMA ArrivesAtApp ==
  ASSUME ShapeOK, [Next]_vars, NEW r \in Callers, calls'[r].pc = "app", calls'[r] # calls[r]
  PROVE  /\ calls[r].pc = "session" /\ "signedIn" \in FactsOf(r)
         /\ calls'[r].got.admin => "administrator" \in FactsOf(r)
<1> DEFINE c == calls[r]
           t == c.req.token
<1>1. Statements(r) /\ "app" \in Onwards[c.pc]
  BY Arrives DEF Firsts
<1>2. c.pc = "session" /\ UserBySession(r)
  <2> HIDE DEF c
  <2> QED BY <1>1, ActionOf DEF Onwards, c
<1>3. CallOK(c) /\ DOMAIN c = Fields /\ c.req.action = "check"
  BY <1>2 DEF ShapeOK, CallOK, Serves
<1> DEFINE user == db.sessions[t].user
           admin == db.user[user].admin
           got  == [user |-> user, admin |-> admin]
           next == [To(c, "app") EXCEPT !.got = got]
<1>4. \/ Statement(r, db, End(c, "unauthorized"), End(c, "unauthorized"))
      \/ SignedIn(t) /\ Statement(r, db, next, End(c, "unauthorized"))
  BY <1>2 DEF UserBySession, Query
<1>5. DOMAIN next = Fields /\ next.got = got
  BY <1>3, ToFacts DEF Fields
<1>6. got.admin = admin
  OBVIOUS
<1> HIDE DEF next, got
<1>7. SignedIn(t) /\ calls'[r].got = got
  BY <1>4, <1>5, StatementFacts, EndFacts
<1>8. Met("signedIn", c)
  BY <1>3, <1>7 DEF Met
<1>9. admin => Met("administrator", c)
  BY <1>3, <1>7 DEF Met
<1>10. {"signedIn", "administrator"} \subseteq Facts
  BY DEF Facts
<1>11. calls'[r].got.admin => admin
  BY <1>6, <1>7
<1> HIDE DEF admin, t, user
<1> QED BY <1>2, <1>8, <1>9, <1>10, <1>11 DEF FactsOf

LEMMA ArrivesAtPolicies ==
  ASSUME ShapeOK, [Next]_vars, NEW r \in Callers, calls'[r].pc = "userPolicies", calls'[r] # calls[r]
  PROVE  /\ calls[r].pc = "app" /\ "enabled" \in FactsOf(r)
         /\ calls'[r].got.at = now /\ calls'[r].since = calls[r].since /\ now' = now
<1> DEFINE c == calls[r]
<1>1. Statements(r) /\ "userPolicies" \in Onwards[c.pc] /\ calls'[r].since = c.since /\ now' = now
  BY Arrives DEF Firsts
<1>2. c.pc = "app" /\ AppByDomain(r)
  <2> HIDE DEF c
  <2> QED BY <1>1, ActionOf DEF Onwards, c
<1>3. CallOK(c) /\ DOMAIN c = Fields /\ c.req.action = "check"
  BY <1>2 DEF ShapeOK, CallOK, Serves
<1> DEFINE app  == CHOOSE id \in Hosting(c.req.host) : TRUE
           got  == [user |-> c.got.user, app |-> app, at |-> now]
           next == [To(c, "userPolicies") EXCEPT !.got = got]
<1>4. \/ \E how, on : Statement(r, db, End(c, how), End(c, on))
      \/ /\ Hosting(c.req.host) # {} /\ db.app[app].enabled
         /\ Statement(r, db, next, End(c, "forbidden"))
  BY <1>2 DEF AppByDomain, Query
<1>5. DOMAIN next = Fields /\ next.got = got /\ got.at = now
  BY <1>3, ToFacts DEF Fields
<1>6. Hosting(c.req.host) # {} => app \in Hosting(c.req.host)
  OBVIOUS
<1> HIDE DEF next, got, app
<1>7. app \in Hosting(c.req.host) /\ db.app[app].enabled /\ calls'[r].got = got
  BY <1>4, <1>5, <1>6, StatementFacts, EndFacts
<1>8. Met("enabled", c) /\ "enabled" \in Facts
  BY <1>3, <1>7 DEF Met, Facts
<1> QED BY <1>1, <1>2, <1>5, <1>7, <1>8 DEF FactsOf

LEMMA ArrivesAtGroups ==
  ASSUME ShapeOK, [Next]_vars, NEW r \in Callers, calls'[r].pc = "groupPolicies", calls'[r] # calls[r]
  PROVE  /\ calls[r].pc = "userPolicies" /\ calls'[r].got = calls[r].got
         /\ calls'[r].since = calls[r].since /\ now' = now
<1> DEFINE c == calls[r]
<1>1. Statements(r) /\ "groupPolicies" \in Onwards[c.pc] /\ calls'[r].since = c.since /\ now' = now
  BY Arrives DEF Firsts
<1>2. c.pc = "userPolicies" /\ AllowedToUser(r)
  <2> HIDE DEF c
  <2> QED BY <1>1, ActionOf DEF Onwards, c
<1>3. DOMAIN c = Fields
  BY DEF ShapeOK, CallOK
<1>4. \/ Statement(r, db, End(c, "granted"), To(c, "groupPolicies"))
      \/ Statement(r, db, To(c, "groupPolicies"), To(c, "groupPolicies"))
  BY <1>2 DEF AllowedToUser, Query
<1>5. DOMAIN To(c, "groupPolicies") = Fields /\ To(c, "groupPolicies").got = c.got
  BY <1>3, ToFacts
<1>6. calls'[r].got = c.got
  BY <1>4, <1>5, StatementFacts, EndFacts
<1> QED BY <1>1, <1>2, <1>6

LEMMA EarnedStep ==
  ASSUME ShapeOK, SeenInv, EarnedInv, [Next]_vars
  PROVE  EarnedInv'
<1> SUFFICES ASSUME NEW r \in Callers
             PROVE  EarnedBy(r, seen[r])'
  BY DEF EarnedInv
<1> DEFINE c == calls[r]
<1>0. now \in Nat /\ now' \in Nat /\ now <= now'
  <2>1. ShapeOK' /\ MaxTime \in Nat
    BY ShapeStep, BoundsAssumption
  <2>2. now' = now \/ Tick
    <3>1. (\E q \in Callers : Statements(q)) => now' = now
      BY StepFrame
    <3> QED BY <3>1 DEF Next, Statements, Crash, Restart, Start, vars, bounds
  <2> QED BY <2>1, <2>2 DEF ShapeOK, Tick
<1>1. c.pc # "end" => FactsOf(r) \subseteq seen[r]
  BY DEF SeenInv
<1>2. c.pc # "end" /\ calls'[r].pc # "end" => seen[r] \subseteq seen'[r]
  BY StepHistory DEF Observe, vars
<1>3. EarnedBy(r, seen[r])
  BY DEF EarnedInv
<1>4. CASE calls'[r] = calls[r]
  BY <1>0, <1>2, <1>3, <1>4 DEF EarnedBy
<1>5. CASE calls'[r] # calls[r]
  <2>1. calls'[r].pc # "end" => calls'[r].since \in 0..now'
    <3>1. CASE Start(r)
      <4>1. calls'[r].since = now
        BY <3>1, StartFacts
      <4>2. now' = now
        BY <3>1, StartCall
      <4> QED BY <1>0, <4>1, <4>2
    <3>2. CASE Statements(r)
      <4>1. calls'[r].pc = "end" \/ calls'[r].since = c.since
        BY <3>2, StepGoes DEF Goes
      <4>2. c.pc # "end"
        BY <3>2, StepFrame
      <4> QED BY <1>0, <1>3, <4>1, <4>2 DEF EarnedBy
    <3>3. CASE calls'[r] = Idle
      BY <3>3 DEF Idle
    <3> QED BY <1>5, <3>1, <3>2, <3>3, StepsOfCalls
  <2>2. CASE calls'[r].pc = "app"
    <3>1. c.pc = "session" /\ "signedIn" \in FactsOf(r) /\ (calls'[r].got.admin => "administrator" \in FactsOf(r))
      BY <1>5, <2>2, ArrivesAtApp
    <3> HIDE DEF c
    <3>2. "signedIn" \in seen'[r] /\ (calls'[r].got.admin => "administrator" \in seen'[r])
      BY <1>1, <1>2, <2>2, <3>1
    <3> QED BY <2>1, <2>2, <3>2 DEF EarnedBy
  <2>3. CASE calls'[r].pc = "userPolicies"
    <3>1. /\ c.pc = "app" /\ "enabled" \in FactsOf(r)
          /\ calls'[r].got.at = now /\ calls'[r].since = c.since /\ now' = now
      BY <1>5, <2>3, ArrivesAtPolicies
    <3>2. "signedIn" \in seen[r] /\ c.since \in 0..now
      BY <1>3, <3>1 DEF EarnedBy
    <3>3. {"enabled", "signedIn"} \subseteq seen'[r]
      BY <1>1, <1>2, <2>3, <3>1, <3>2
    <3> QED BY <1>0, <2>1, <2>3, <3>1, <3>2, <3>3 DEF EarnedBy
  <2>4. CASE calls'[r].pc = "groupPolicies"
    <3>1. /\ c.pc = "userPolicies" /\ calls'[r].got = c.got
          /\ calls'[r].since = c.since /\ now' = now
      BY <1>5, <2>4, ArrivesAtGroups
    <3>2. {"enabled", "signedIn"} \subseteq seen[r] /\ c.got.at \in c.since..now
      BY <1>3, <3>1 DEF EarnedBy
    <3>3. {"enabled", "signedIn"} \subseteq seen'[r]
      BY <1>2, <2>4, <3>1, <3>2
    <3> QED BY <2>1, <2>4, <3>1, <3>2, <3>3 DEF EarnedBy
  <2> QED BY <2>1, <2>2, <2>3, <2>4 DEF EarnedBy
<1> QED BY <1>4, <1>5

LEMMA SaysGranted ==
  ASSUME ShapeOK, NEW r \in Callers, Statements(r), calls'[r].answer = "granted"
  PROVE  LET c == calls[r]
         IN  \/ /\ c.pc = "app" /\ c.got.admin
                /\ \E app \in Hosting(c.req.host) : db.app[app].enabled
             \/ c.pc = "userPolicies" /\ ByUser(c.got.user, c.got.app, c.got.at)
             \/ c.pc = "groupPolicies" /\ ByGroup(c.got.user, c.got.app, c.got.at)
<1> DEFINE c == calls[r]
<1>0. DOMAIN c = Fields /\ CallOK(c) /\ c.pc # "end" /\ c.answer = "none"
  BY StepFrame DEF ShapeOK, CallOK
<1>1. "granted" \in Endings[c.pc]
  BY <1>0, StepGoes DEF Goes
<1>2. \A how : DOMAIN End(c, how) = Fields /\ End(c, how).answer = how
  BY EndFacts
<1>3. \A pc : DOMAIN To(c, pc) = Fields /\ To(c, pc).answer = "none"
  BY <1>0, ToFacts
<1>4. CASE AppByDomain(r) /\ c.pc = "app"
  <2> DEFINE app == CHOOSE id \in Hosting(c.req.host) : TRUE
             next == [To(c, "userPolicies") EXCEPT !.got = [user |-> c.got.user, app |-> app, at |-> now]]
             good == Hosting(c.req.host) # {} /\ db.app[app].enabled /\ c.got.admin
  <2>1. \/ Statement(r, db, End(c, "notfound"), End(c, "forbidden"))
        \/ Statement(r, db, End(c, "forbidden"), End(c, "forbidden"))
        \/ good
        \/ Statement(r, db, next, End(c, "forbidden"))
    BY <1>4 DEF AppByDomain, Query
  <2>2. DOMAIN next = Fields /\ next.answer = "none"
    BY <1>0, ToFacts DEF Fields
  <2>3. Hosting(c.req.host) # {} => app \in Hosting(c.req.host)
    OBVIOUS
  <2> HIDE DEF next, app
  <2>4. good
    <3> HIDE DEF good
    <3>1. ASSUME NEW ok, ok \in {End(c, "notfound"), End(c, "forbidden"), next},
                 Statement(r, db, ok, End(c, "forbidden"))
          PROVE  FALSE
      <4>1. /\ DOMAIN ok = Fields /\ ok.answer # "granted"
            /\ DOMAIN End(c, "forbidden") = Fields /\ End(c, "forbidden").answer # "granted"
        BY <1>2, <2>2, <3>1
      <4> QED BY <3>1, <4>1, EndsAs
    <3> QED BY <2>1, <3>1
  <2> QED BY <1>4, <2>3, <2>4
<1>5. CASE AllowedToUser(r) /\ c.pc = "userPolicies"
  <2>1. \/ ByUser(c.got.user, c.got.app, c.got.at)
        \/ Statement(r, db, To(c, "groupPolicies"), To(c, "groupPolicies"))
    BY <1>5 DEF AllowedToUser, Query
  <2> QED BY <1>3, <1>5, <2>1, EndsAs
<1>6. CASE AllowedToGroup(r) /\ c.pc = "groupPolicies"
  <2>1. \/ ByGroup(c.got.user, c.got.app, c.got.at)
        \/ Statement(r, db, End(c, "forbidden"), End(c, "forbidden"))
    BY <1>6 DEF AllowedToGroup, Query
  <2> QED BY <1>2, <1>6, <2>1, EndsAs
<1> HIDE DEF c
<1>7. c.pc \in {"app", "userPolicies", "groupPolicies"}
  BY <1>1, ActionOf DEF Endings, c
<1> QED BY <1>4, <1>5, <1>6, <1>7, ActionOf DEF c

LEMMA AuthorizedFacts ==
  ASSUME ShapeOK, NEW r \in Callers, EarnedInv,
         LET c == calls[r]
         IN  \/ c.pc = "userPolicies" /\ ByUser(c.got.user, c.got.app, c.got.at)
             \/ c.pc = "groupPolicies" /\ ByGroup(c.got.user, c.got.app, c.got.at)
  PROVE  "authorized" \in FactsOf(r)
<1> DEFINE c == calls[r]
<1>1. /\ c.req.action = "check" /\ DOMAIN c.got = {"user", "app", "at"}
      /\ c.got.at \in c.since..now
  BY DEF ShapeOK, CallOK, Serves, GotOK, EarnedInv, EarnedBy
<1>2. Subject(c) = {c.got.user} /\ Target(c) = {c.got.app}
  BY <1>1 DEF Subject, Target
<1>3. Met("authorized", c)
  BY <1>1, <1>2 DEF Met
<1> QED BY <1>3 DEF FactsOf, Facts

LEMMA EnabledFacts ==
  ASSUME ShapeOK, NEW r \in Callers, calls[r].pc = "app",
         \E app \in Hosting(calls[r].req.host) : db.app[app].enabled
  PROVE  "enabled" \in FactsOf(r)
<1>1. calls[r].req.action = "check"
  BY DEF ShapeOK, CallOK, Serves
<1>2. Met("enabled", calls[r]) /\ "enabled" \in Facts
  BY <1>1 DEF Met, Facts
<1> QED BY <1>2 DEF FactsOf

(* Nobody is let in but for what the tables said while they were read.       *)
THEOREM GrantsJustified == Spec => []GrantsExplained
<1>1. Init => EarnedInv /\ GrantsExplained
  BY DEF Init, Idle, EarnedInv, EarnedBy, GrantsExplained
<1>2. ShapeOK /\ SeenInv /\ EarnedInv /\ GrantsExplained /\ [Next]_vars => EarnedInv' /\ GrantsExplained'
  <2> SUFFICES ASSUME ShapeOK, SeenInv, EarnedInv, GrantsExplained, [Next]_vars
               PROVE  GrantsExplained'
    BY EarnedStep
  <2> SUFFICES ASSUME NEW r \in Callers, calls'[r].answer = "granted"
               PROVE  /\ {"signedIn", "enabled"} \subseteq seen'[r]
                      /\ {"administrator", "authorized"} \cap seen'[r] # {}
    BY DEF GrantsExplained
  <2>1. CASE calls[r].answer = "granted" /\ seen'[r] = seen[r]
    BY <2>1 DEF GrantsExplained
  <2>2. CASE Statements(r) /\ calls[r].pc # "end" /\ seen'[r] = seen[r]
    <3>1. FactsOf(r) \subseteq seen[r] /\ EarnedBy(r, seen[r])
      BY <2>2 DEF SeenInv, EarnedInv
    <3>2. CASE calls[r].pc = "app" /\ calls[r].got.admin /\ \E app \in Hosting(calls[r].req.host) : db.app[app].enabled
      <4>1. "enabled" \in FactsOf(r)
        BY <3>2, EnabledFacts
      <4>2. {"signedIn", "administrator"} \subseteq seen[r]
        BY <3>1, <3>2 DEF EarnedBy
      <4> QED BY <2>2, <3>1, <4>1, <4>2
    <3>3. CASE \/ calls[r].pc = "userPolicies" /\ ByUser(calls[r].got.user, calls[r].got.app, calls[r].got.at)
               \/ calls[r].pc = "groupPolicies" /\ ByGroup(calls[r].got.user, calls[r].got.app, calls[r].got.at)
      <4>1. "authorized" \in FactsOf(r)
        BY <3>3, AuthorizedFacts
      <4>2. {"signedIn", "enabled"} \subseteq seen[r]
        BY <3>1, <3>3 DEF EarnedBy
      <4> QED BY <2>2, <3>1, <4>1, <4>2
    <3> QED BY <2>2, <3>2, <3>3, SaysGranted
  <2> QED BY <2>1, <2>2, AnswersStep
<1> QED BY <1>1, <1>2, Shaped, FactsSeen, PTL DEF Spec

----------------------------------------------------------------------------
(* Updates that read a row before they write it.                             *)

LEMMA WritesItsOwn ==
  ASSUME ShapeOK, HostsOK, NEW r \in Callers, calls[r].pc = "write",
         NEW column \in DOMAIN Merged(calls[r].req, calls[r].got),
         Merged(calls[r].req, calls[r].got)[column] # calls[r].got[column]
  PROVE  Sets(calls[r].req, column)
<1> DEFINE req == calls[r].req
           got == calls[r].got
<1>1. RequestOK(req) /\ req.action = "update" /\ req.object \in {"user", "app"}
  BY DEF ShapeOK, CallOK, Serves
<1>2. CASE req.object = "user"
  <2>1. {"status", "admin", "password"} \subseteq DOMAIN req
    BY <1>1, <1>2 DEF RequestOK
  <2>2. column \in DOMAIN UserMerged(req, got) /\ UserMerged(req, got)[column] # got[column]
    BY <1>2 DEF Merged
  <2> HIDE DEF req, got
  <2>3. \/ column = "status" /\ req.status # ""
        \/ column = "admin"
        \/ column = "password" /\ req.password # ""
    BY <2>2 DEF UserMerged, got
  <2> QED BY <2>1, <2>3 DEF Sets, req
<1>3. CASE req.object = "app"
  <2>1. {"domain", "enabled"} \subseteq DOMAIN req /\ DOMAIN got = {"domain", "enabled"}
    BY <1>1, <1>3 DEF RequestOK, HostsOK, SiteRow
  <2>2. column \in DOMAIN AppMerged(req, got) /\ AppMerged(req, got)[column] # got[column]
    BY <1>1, <1>3 DEF Merged
  <2>3. column \in {"domain", "enabled"}
    BY <2>2 DEF AppMerged
  <2>5. AppMerged(req, got).domain = IF req.domain = "" THEN got.domain ELSE NormalizeHost[req.domain]
    BY DEF AppMerged
  <2> HIDE DEF req, got
  <2>4. (column = "domain" /\ req.domain # "") \/ column = "enabled"
    <3>1. CASE column = "domain"
      BY <2>2, <2>5, <3>1
    <3> QED BY <2>3, <3>1
  <2> QED BY <2>1, <2>4 DEF Sets, req
<1> QED BY <1>1, <1>2, <1>3

(* An update changes a column its request does not name only back to what   *)
(* the call read, and only if it was overtaken.                             *)
THEOREM UpdatesKeepTheRest == Spec => UpdatesExplained
<1> DEFINE A == \A r \in Callers :
                  calls[r].pc = "write" /\ calls'[r].pc # "write" /\ db' # db =>
                    LET req == calls[r].req
                        old == db[req.object][req.id]
                        new == db'[req.object][req.id]
                    IN  \A column \in DOMAIN new :
                          new[column] # old[column] /\ ~Sets(req, column) =>
                            "overtaken" \in seen[r] /\ new[column] = calls[r].got[column]
<1>1. ShapeOK /\ TablesInv /\ SeenInv /\ [Next]_vars => [A]_vars
  <2> SUFFICES ASSUME ShapeOK, HostsOK, SeenInv, [Next]_vars, NEW r \in Callers,
                      calls[r].pc = "write", calls'[r].pc # "write", db' # db
               PROVE  LET req == calls[r].req
                          old == db[req.object][req.id]
                          new == db'[req.object][req.id]
                      IN  \A column \in DOMAIN new :
                            new[column] # old[column] /\ ~Sets(req, column) =>
                              "overtaken" \in seen[r] /\ new[column] = calls[r].got[column]
    BY DEF TablesInv
  <2> DEFINE req == calls[r].req
             got == calls[r].got
             old == db[req.object][req.id]
             new == db'[req.object][req.id]
  <2>1. Statements(r)
    <3>1. ~Crash
      BY DEF Crash
    <3>2. ~Start(r)
      BY DEF Start
    <3>3. calls'[r] # calls[r]
      OBVIOUS
    <3> QED BY <3>1, <3>2, <3>3, StepsOfCalls
  <2>2. SetsRow(req.object, req.id, Merged(req, got))
    BY <2>1, ActionOf, WriteEffect
  <2>3. req.id \in DOMAIN db[req.object] /\ new = Merged(req, got)
    BY <2>2 DEF SetsRow
  <2>4. old # got => "overtaken" \in seen[r]
    <3>1. old # got => Met("overtaken", calls[r])
      BY <2>3 DEF Met
    <3>2. Met("overtaken", calls[r]) => "overtaken" \in FactsOf(r)
      BY DEF FactsOf, Facts
    <3> QED BY <3>1, <3>2 DEF SeenInv
  <2> SUFFICES ASSUME NEW column \in DOMAIN new, new[column] # old[column], ~Sets(req, column)
               PROVE  "overtaken" \in seen[r] /\ new[column] = got[column]
    OBVIOUS
  <2>5. new[column] = got[column]
    <3>1. column \in DOMAIN Merged(req, got) /\ new[column] = Merged(req, got)[column]
      BY <2>3
    <3> HIDE DEF new
    <3> QED BY <3>1, WritesItsOwn
  <2>6. old # got
    <3> HIDE DEF old, new
    <3> QED BY <2>5
  <2> QED BY <2>4, <2>5, <2>6
<1>2. UpdatesExplained <=> [][A]_vars
  BY DEF UpdatesExplained
<1> QED BY <1>1, <1>2, Shaped, TablesInvariant, FactsSeen, PTL DEF Spec

----------------------------------------------------------------------------
(* The entries of the access log and their bodies.                          *)

AuditChange ==
  \/ db'.access_log = db.access_log /\ db'.bodies = db.bodies
  \/ \E r \in Callers : /\ Statements(r) /\ calls[r].pc = "addEntry"
                        /\ AddsEntry(EntryRow(calls[r].got))
  \/ \E r \in Callers : /\ Statements(r) /\ calls[r].pc = "addBody"
                        /\ \E side \in calls[r].got.bodies : AddsBody(calls[r].got.id, side)

LEMMA AuditChanges ==
  ASSUME ShapeOK, [Next]_vars
  PROVE  AuditChange
<1>1. /\ {"access_log", "bodies"} \subseteq Tables
      /\ {"access_log", "bodies"} \cap (Objects \cup {"auto", "members", "sessions", "adminLogs", "loginLogs"}) = {}
  BY DEF Tables, Objects, Numbered
<1>2. ASSUME NEW T, Keeps(T), {"access_log", "bodies"} \cap T = {}
      PROVE  AuditChange
  BY <1>1, <1>2 DEF Keeps, AuditChange
<1>3. ASSUME NEW other \in Objects \cup {"sessions"}, NEW K, DropsRows(other, K)
      PROVE  AuditChange
  BY <1>1, <1>2, <1>3 DEF DropsRows
<1>4. ASSUME NEW object, NEW row, AddsRow(object, row)
      PROVE  AuditChange
  BY <1>1, <1>2, <1>4 DEF AddsRow
<1>5. ASSUME NEW r \in Callers, Statements(r), StepEffect(r)
      PROVE  AuditChange
  <2> DEFINE c == calls[r]
  <2>1. ASSUME NEW object, NEW id, NEW row, SetsRow(object, id, row)
        PROVE  AuditChange
    BY <1>1, <1>2, <2>1 DEF SetsRow
  <2>2. ASSUME NEW what, NEW object, NEW id, CleansUp(what, object, id)
        PROVE  AuditChange
    <3>1. {"policy", "body_rule"} \subseteq Objects
      BY DEF Objects
    <3> QED BY <1>1, <1>2, <1>3, <2>2, <3>1 DEF CleansUp
  <2>3. CASE \E other \in {"adminLogs", "loginLogs"} : \E entry : Logs(other, entry)
    BY <1>1, <1>2, <2>3 DEF Logs
  <2>4. CASE \E t, user, entry : OpensSession(t, user, entry)
    BY <1>1, <1>2, <2>4 DEF OpensSession
  <2>5. CASE c.pc = "addEntry" /\ AddsEntry(EntryRow(c.got))
    BY <1>5, <2>5 DEF AuditChange
  <2>6. CASE c.pc = "addBody" /\ \E side \in c.got.bodies : AddsBody(c.got.id, side)
    BY <1>5, <2>6 DEF AuditChange
  <2> HIDE DEF c
  <2> QED BY <1>3, <1>4, <1>5, <2>1, <2>2, <2>3, <2>4, <2>5, <2>6 DEF StepEffect, c
<1>6. db' = db => AuditChange
  BY DEF AuditChange
<1> QED BY <1>4, <1>5, <1>6, StepKinds

(* The entry is there before its first body, and a statement that does not   *)
(* fail has written what it should.                                         *)
LEMMA EntryOutcome ==
  ASSUME ShapeOK, NEW r \in Callers, AddEntry(r)
  PROVE  LET c == calls[r]
         IN  /\ calls'[r].pc = "addBody" => /\ AddsEntry(EntryRow(c.got)) /\ faults' = faults
                                            /\ calls'[r].got = [id |-> db.auto.access_log, bodies |-> c.got.bodies]
             /\ faults' = faults /\ c.got.bodies # {} => calls'[r].pc = "addBody"
<1> DEFINE c   == calls[r]
           id  == db.auto.access_log
           row == EntryRow(c.got)
           new == [db EXCEPT !.access_log = Put(@, id, row), !.auto.access_log = id + 1]
           ok  == NextBody([c EXCEPT !.got = [id |-> id, bodies |-> c.got.bodies]])
<1>1. Statement(r, new, ok, End(c, "ok"))
  BY DEF AddEntry, EntryRow
<1>2. /\ DOMAIN db = Tables /\ "auto" \in Tables /\ "access_log" \in Tables
      /\ DOMAIN db.auto = Numbered /\ "access_log" \in Numbered /\ db.auto.access_log \in Nat
  BY DEF ShapeOK, TablesThere, Tables, Numbered
<1>3. new.auto.access_log = id + 1
  BY <1>2
<1>4. new # db
  <2> HIDE DEF new
  <2> QED BY <1>2, <1>3
<1>5. DOMAIN c = Fields
  BY DEF ShapeOK, CallOK
<1>6. /\ DOMAIN ok = Fields
      /\ c.got.bodies # {} => ok.pc = "addBody" /\ ok.got = [id |-> id, bodies |-> c.got.bodies]
      /\ c.got.bodies = {} => ok.pc = "end"
  BY <1>5 DEF NextBody, End, To, Idle, Fields
<1>7. db' = db \/ AddsEntry(row)
  BY AddEntryEffect
<1>8. DOMAIN End(c, "ok") = Fields /\ End(c, "ok").pc = "end"
  BY EndFacts
<1>9. faults \in Nat
  BY BoundsAssumption DEF ShapeOK
<1> HIDE DEF c, new, ok, row
<1>10. \/ db' = new /\ calls'[r] = ok /\ faults' = faults
       \/ faults' = faults + 1 /\ calls'[r].pc = End(c, "ok").pc
  BY <1>1, <1>6, <1>8, StatementFacts
<1>11. CASE db' = new /\ calls'[r] = ok /\ faults' = faults
  BY <1>4, <1>6, <1>7, <1>11 DEF c, row
<1>12. CASE faults' = faults + 1 /\ calls'[r].pc = End(c, "ok").pc
  BY <1>8, <1>9, <1>12
<1> QED BY <1>10, <1>11, <1>12

(* Of the bodies it has to add, a statement leaves all but the one it adds.  *)
LEMMA BodyOutcome ==
  ASSUME ShapeOK, NEW r \in Callers, AddBody(r)
  PROVE  LET c == calls[r]
         IN  \E side \in c.got.bodies :
               /\ calls'[r].pc = "addBody" =>
                    calls'[r].got.id = c.got.id /\ calls'[r].got.bodies = c.got.bodies \ {side}
               /\ calls'[r].pc # "addBody" => c.got.bodies = {side}
               /\ faults' = faults => db'.bodies = db.bodies \cup {<<c.got.id, side>>}
<1> DEFINE c    == calls[r]
           side == IF "request" \in c.got.bodies THEN "request" ELSE "response"
           next == NextBody([c EXCEPT !.got.bodies = @ \ {side}])
           new  == [db EXCEPT !.bodies = @ \cup {<<c.got.id, side>>}]
<1>1. Statement(r, new, next, next)
  BY DEF AddBody
<1>2. /\ DOMAIN c = Fields /\ DOMAIN c.got = {"id", "bodies"} /\ c.got.bodies \subseteq Sides
      /\ c.got.bodies # {}
  BY DEF ShapeOK, CallOK, GotOK, AddBody, At
<1>3. side \in c.got.bodies
  BY <1>2 DEF Sides
<1>4. new.bodies = db.bodies \cup {<<c.got.id, side>>}
  BY DEF ShapeOK, TablesThere, Tables
<1>5. /\ DOMAIN next = Fields
      /\ c.got.bodies \ {side} # {} =>
           next.pc = "addBody" /\ next.got.id = c.got.id /\ next.got.bodies = c.got.bodies \ {side}
      /\ c.got.bodies \ {side} = {} => next.pc = "end"
  <2> DEFINE c2 == [c EXCEPT !.got.bodies = @ \ {side}]
  <2>1. DOMAIN c2 = Fields /\ c2.got.id = c.got.id /\ c2.got.bodies = c.got.bodies \ {side}
    BY <1>2 DEF Fields
  <2> HIDE DEF c2, c, side
  <2>2. /\ DOMAIN NextBody(c2) = Fields
        /\ c2.got.bodies # {} => NextBody(c2).pc = "addBody" /\ NextBody(c2).got = c2.got
        /\ c2.got.bodies = {} => NextBody(c2).pc = "end"
    BY <2>1, ToFacts, EndFacts DEF NextBody
  <2> QED BY <2>1, <2>2 DEF c2
<1>6. faults \in Nat
  BY BoundsAssumption DEF ShapeOK
<1> HIDE DEF new, next, side, c
<1>7. /\ calls'[r].pc = next.pc /\ calls'[r].got = next.got
      /\ faults' = faults => db' = new
  BY <1>1, <1>5, <1>6, StatementFacts
<1> QED BY <1>2, <1>3, <1>4, <1>5, <1>7 DEF c

RuleIDs == 1..(db.auto.body_rule - 1)

(* Who adds an entry has it from a rule that is or was there; who adds its   *)
(* bodies does so to an entry that was.                                     *)
BodiesInv ==
  /\ BodiesKeptByRule
  /\ \A r \in Callers :
       calls[r].pc = "addEntry" /\ calls[r].got.asked # {} => calls[r].got.rule \in RuleIDs
  /\ \A r \in Callers : calls[r].pc = "addBody" =>
       LET got == calls[r].got
       IN  /\ got.id \in DOMAIN db.access_log
           /\ got.bodies \subseteq db.access_log[got.id].flags \cap db.access_log[got.id].asked
           /\ db.access_log[got.id].rule \in RuleIDs

LEMMA ArrivesToEntry ==
  ASSUME ShapeOK, [Next]_vars, NEW r \in Callers, calls'[r].pc = "addEntry", calls'[r] # calls[r]
  PROVE  (calls'[r].got.asked # {} => calls'[r].got.rule \in RuleIDs) /\ db' = db
<1> DEFINE c == calls[r]
<1>1. Statements(r) /\ "addEntry" \in Onwards[c.pc]
  BY Arrives DEF Firsts
<1>2. c.pc = "rules" /\ ApplyBodyAuditRule(r)
  <2> HIDE DEF c
  <2> QED BY <1>1, ActionOf DEF Onwards, c
<1>3. db' = db
  BY <1>2, QueriesOnly
<1>4. DOMAIN c = Fields /\ DOMAIN c.got = LogFields /\ c.got.bodies \subseteq Sides /\ c.got.asked = {}
  BY <1>2 DEF ShapeOK, CallOK, GotOK
<1> DEFINE next(log) == [To(c, "addEntry") EXCEPT !.got = log]
<1>5. \A log : DOMAIN next(log) = Fields /\ next(log).got = log
  BY <1>4, ToFacts DEF Fields
<1>6. Statement(r, db, next(Applied(c.req, c.got)), next(Unmatched(c.got)))
  BY <1>2 DEF ApplyBodyAuditRule, Query
<1> HIDE DEF next, c
<1>7. calls'[r].got \in {Applied(c.req, c.got), Unmatched(c.got)}
  BY <1>5, <1>6, StatementFacts
<1>8. Unmatched(c.got).asked = {}
  BY <1>4 DEF Unmatched, LogFields
<1>9. Applied(c.req, c.got).asked # {} => Applied(c.req, c.got).rule \in RuleIDs
  <2>1. Applied(c.req, c.got).asked # {} =>
          /\ Matching(c.req, c.got.app) # {}
          /\ Applied(c.req, c.got).rule = Deciding(c.req, c.got.app)
    BY <1>4, AppliedFacts
  <2>2. Matching(c.req, c.got.app) # {} => Deciding(c.req, c.got.app) \in RuleIDs
    BY DecidingFacts DEF ShapeOK, RuleIDs
  <2> QED BY <2>1, <2>2
<1> QED BY <1>3, <1>7, <1>8, <1>9

(* Entries stay as they are written.                                        *)
LEMMA EntriesStay ==
  ASSUME ShapeOK, [Next]_vars
  PROVE  /\ RuleIDs \subseteq RuleIDs'
         /\ \A id \in DOMAIN db.access_log : id \in DOMAIN db'.access_log /\ db'.access_log[id] = db.access_log[id]
         /\ \A id \in DOMAIN db'.access_log \ DOMAIN db.access_log :
              \E r \in Callers : /\ calls[r].pc = "addEntry" /\ AddEntry(r) /\ AddsEntry(EntryRow(calls[r].got))
                                 /\ id = db.auto.access_log /\ db'.access_log[id] = EntryRow(calls[r].got)
                                 /\ db'.bodies = db.bodies
<1>1. RuleIDs \subseteq RuleIDs'
  BY AutoGrows DEF RuleIDs, Numbered, Objects
<1>2. db.auto.access_log \notin DOMAIN db.access_log
  BY DEF ShapeOK, TablesThere, Numbered
<1>3. CASE db'.access_log = db.access_log
  BY <1>1, <1>3
<1>4. ASSUME NEW r \in Callers, Statements(r), calls[r].pc = "addEntry", AddsEntry(EntryRow(calls[r].got))
      PROVE  /\ \A id \in DOMAIN db.access_log : id \in DOMAIN db'.access_log /\ db'.access_log[id] = db.access_log[id]
             /\ \A id \in DOMAIN db'.access_log \ DOMAIN db.access_log :
                  /\ AddEntry(r) /\ id = db.auto.access_log /\ db'.access_log[id] = EntryRow(calls[r].got)
                  /\ db'.bodies = db.bodies
  <2>1. AddEntry(r)
    BY <1>4, ActionOf
  <2>2. db'.access_log = Put(db.access_log, db.auto.access_log, EntryRow(calls[r].got)) /\ db'.bodies = db.bodies
    BY <1>4 DEF AddsEntry, Keeps, Tables
  <2>3. /\ DOMAIN db'.access_log = DOMAIN db.access_log \cup {db.auto.access_log}
        /\ db'.access_log[db.auto.access_log] = EntryRow(calls[r].got)
        /\ \A id \in DOMAIN db.access_log \ {db.auto.access_log} : db'.access_log[id] = db.access_log[id]
    BY <2>2 DEF Put
  <2> QED BY <1>2, <2>1, <2>2, <2>3
<1>5. ASSUME NEW id, NEW side, AddsBody(id, side)
      PROVE  db'.access_log = db.access_log
  BY <1>5 DEF AddsBody, Keeps, Tables, Numbered
<1> QED BY <1>1, <1>3, <1>4, <1>5, AuditChanges DEF AuditChange

LEMMA BodiesStep ==
  ASSUME ShapeOK, BodiesInv, [Next]_vars
  PROVE  BodiesInv'
<1> USE EntriesStay
<1>1. ASSUME NEW r \in Callers, calls'[r].pc = "addEntry"
      PROVE  calls'[r].got.asked # {} => calls'[r].got.rule \in RuleIDs'
  <2>1. CASE calls'[r] = calls[r]
    BY <1>1, <2>1 DEF BodiesInv
  <2>2. CASE calls'[r] # calls[r]
    BY <1>1, <2>2, ArrivesToEntry
  <2> QED BY <2>1, <2>2
<1>2. ASSUME NEW r \in Callers, calls'[r].pc = "addBody"
      PROVE  LET got == calls'[r].got
             IN  /\ got.id \in DOMAIN db'.access_log
                 /\ got.bodies \subseteq db'.access_log[got.id].flags \cap db'.access_log[got.id].asked
                 /\ db'.access_log[got.id].rule \in RuleIDs'
  <2>1. CASE calls'[r] = calls[r]
    BY <1>2, <2>1 DEF BodiesInv
  <2>2. CASE calls'[r] # calls[r]
    <3>1. Statements(r) /\ "addBody" \in Onwards[calls[r].pc]
      BY <1>2, <2>2, Arrives DEF Firsts
    <3>2. \/ calls[r].pc = "addEntry" /\ AddEntry(r)
          \/ calls[r].pc = "addBody" /\ AddBody(r)
      <4>1. calls[r].pc \in {"addEntry", "addBody"}
        BY <3>1, ActionOf DEF Onwards
      <4> QED BY <3>1, <4>1, ActionOf
    <3>3. CASE calls[r].pc = "addEntry" /\ AddEntry(r)
      <4> DEFINE got == calls[r].got
                 id  == db.auto.access_log
      <4>1. AddsEntry(EntryRow(got)) /\ calls'[r].got = [id |-> id, bodies |-> got.bodies]
        BY <1>2, <3>3, EntryOutcome
      <4>2. id \in DOMAIN db'.access_log /\ db'.access_log[id] = EntryRow(got)
        BY <4>1 DEF AddsEntry, Put
      <4>3. got.asked # {} => got.rule \in RuleIDs
        BY <3>3 DEF BodiesInv
      <4>4. CallOK(calls[r]) /\ CallOK(calls'[r])
        BY ShapeStep DEF ShapeOK
      <4>5. calls'[r].got.bodies # {}
        BY <1>2, <4>4 DEF CallOK, GotOK
      <4>6. got.asked # {} /\ got.bodies \subseteq got.flags \cap got.asked
        BY <3>3, <4>1, <4>4, <4>5 DEF CallOK, GotOK
      <4> QED BY <4>1, <4>2, <4>3, <4>6 DEF EntryRow
    <3>4. CASE calls[r].pc = "addBody" /\ AddBody(r)
      <4>1. calls'[r].got.id = calls[r].got.id /\ calls'[r].got.bodies \subseteq calls[r].got.bodies
        BY <1>2, <3>4, BodyOutcome
      <4> QED BY <3>4, <4>1 DEF BodiesInv
    <3> QED BY <3>2, <3>3, <3>4
  <2> QED BY <2>1, <2>2
<1>3. ASSUME NEW b \in db'.bodies
      PROVE  /\ b[1] \in DOMAIN db'.access_log
             /\ b[2] \in db'.access_log[b[1]].flags \cap db'.access_log[b[1]].asked
             /\ db'.access_log[b[1]].rule \in RuleIDs'
  <2>1. CASE b \in db.bodies
    BY <2>1 DEF BodiesInv, BodiesKeptByRule, RuleIDs
  <2>2. ASSUME NEW r \in Callers, calls[r].pc = "addBody", NEW side \in calls[r].got.bodies, b = <<calls[r].got.id, side>>
        PROVE  /\ b[1] \in DOMAIN db'.access_log
               /\ b[2] \in db'.access_log[b[1]].flags \cap db'.access_log[b[1]].asked
               /\ db'.access_log[b[1]].rule \in RuleIDs'
    <3> DEFINE id == calls[r].got.id
    <3>1. b[1] = id /\ b[2] = side
      BY <2>2
    <3>2. /\ id \in DOMAIN db.access_log /\ db.access_log[id].rule \in RuleIDs
          /\ side \in db.access_log[id].flags \cap db.access_log[id].asked
      BY <2>2 DEF BodiesInv
    <3> QED BY <3>1, <3>2
  <2>3. \/ db'.bodies = db.bodies
        \/ \E r \in Callers : /\ calls[r].pc = "addBody"
                              /\ \E side \in calls[r].got.bodies : db'.bodies = db.bodies \cup {<<calls[r].got.id, side>>}
    BY AuditChanges DEF AuditChange, AddsEntry, AddsBody, Keeps, Tables
  <2> QED BY <1>3, <2>1, <2>2, <2>3
<1> QED BY <1>1, <1>2, <1>3 DEF BodiesInv, BodiesKeptByRule, RuleIDs

(* No body is kept on a side the rule that decided the report did not ask    *)
(* for, nor for an entry that is not flagged with it and names no rule.      *)
THEOREM BodiesKept == Spec => []BodiesKeptByRule
<1>1. Init => BodiesInv
  BY EntriesAssumption DEF Init, Idle, BodiesInv, BodiesKeptByRule
<1>2. ShapeOK /\ BodiesInv /\ [Next]_vars => BodiesInv'
  BY BodiesStep
<1>3. BodiesInv => BodiesKeptByRule
  BY DEF BodiesInv
<1> QED BY <1>1, <1>2, <1>3, Shaped, PTL DEF Spec

(* Of the sides an entry is flagged with, those it has no body for yet are   *)
(* still in the hands of whoever writes it.                                 *)
Announced(id) == db.access_log[id].asked # {} =>
  \/ db.access_log[id].flags \subseteq BodiesOf(id)
  \/ \E r \in Callers : Writing(r, id) /\ db.access_log[id].flags \subseteq BodiesOf(id) \cup calls[r].got.bodies

CompleteInv == faults = 0 => \A id \in DOMAIN db.access_log : Announced(id)

LEMMA CompleteStep ==
  ASSUME ShapeOK, BodiesInv, CompleteInv, [Next]_vars
  PROVE  CompleteInv'
<1> SUFFICES ASSUME faults' = 0, NEW id \in DOMAIN db'.access_log, db'.access_log[id].asked # {}
             PROVE  Announced(id)'
  BY DEF CompleteInv, Announced
<1> DEFINE flags == db'.access_log[id].flags
           New   == {side \in Sides : <<id, side>> \in db'.bodies}
           Left  == \E r \in Callers : /\ calls'[r].pc = "addBody" /\ calls'[r].got.id = id
                                       /\ flags \subseteq New \cup calls'[r].got.bodies
<1>0. flags \subseteq New \/ Left => Announced(id)'
  BY DEF Announced, Writing, BodiesOf
<1>1. faults = 0 /\ faults' = faults /\ ~Crash
  BY NoFault
<1>2. CASE id \in DOMAIN db.access_log
  <2>1. db'.access_log[id] = db.access_log[id] /\ Announced(id)
    BY <1>1, <1>2, EntriesStay DEF CompleteInv
  <2>2. db.bodies \subseteq db'.bodies
    BY AuditChanges DEF AuditChange, AddsEntry, AddsBody, Keeps, Tables
  <2>3. BodiesOf(id) \subseteq New
    BY <2>2 DEF BodiesOf
  <2>4. CASE flags \subseteq BodiesOf(id)
    BY <1>0, <2>3, <2>4
  <2>5. ASSUME NEW r \in Callers, Writing(r, id), flags \subseteq BodiesOf(id) \cup calls[r].got.bodies
        PROVE  flags \subseteq New \/ Left
    <3>1. CASE calls'[r] = calls[r]
      BY <2>3, <2>5, <3>1 DEF Writing
    <3>2. CASE calls'[r] # calls[r]
      <4>1. Statements(r)
        BY <1>1, <2>5, <3>2, StepsOfCalls DEF Start, At, Writing
      <4>2. AddBody(r)
        BY <2>5, <4>1, ActionOf DEF Writing
      <4>3. PICK side \in calls[r].got.bodies :
              /\ calls'[r].pc = "addBody" =>
                   calls'[r].got.id = calls[r].got.id /\ calls'[r].got.bodies = calls[r].got.bodies \ {side}
              /\ calls'[r].pc # "addBody" => calls[r].got.bodies = {side}
              /\ faults' = faults => db'.bodies = db.bodies \cup {<<calls[r].got.id, side>>}
        BY <4>2, BodyOutcome
      <4>4. side \in Sides
        BY <2>5 DEF ShapeOK, CallOK, GotOK, Writing
      <4>5. side \in New
        BY <1>1, <2>5, <4>3, <4>4 DEF Writing
      <4>6. CASE calls'[r].pc = "addBody"
        <5>1. calls'[r].got.id = id /\ flags \subseteq New \cup calls'[r].got.bodies
          BY <2>3, <2>5, <4>3, <4>5, <4>6 DEF Writing
        <5> QED BY <4>6, <5>1
      <4>7. CASE calls'[r].pc # "addBody"
        BY <2>3, <2>5, <4>3, <4>5, <4>7
      <4> QED BY <4>6, <4>7
    <3> QED BY <3>1, <3>2
  <2> HIDE DEF New, Left, flags
  <2>6. flags \subseteq BodiesOf(id)
        \/ \E r \in Callers : Writing(r, id) /\ flags \subseteq BodiesOf(id) \cup calls[r].got.bodies
    BY <2>1 DEF Announced, flags
  <2> QED BY <1>0, <2>4, <2>5, <2>6
<1>3. CASE id \notin DOMAIN db.access_log
  <2>1. PICK r \in Callers : /\ AddEntry(r) /\ calls[r].pc = "addEntry"
                             /\ id = db.auto.access_log /\ db'.access_log[id] = EntryRow(calls[r].got)
    BY <1>3, EntriesStay
  <2> DEFINE got == calls[r].got
  <2>2. got.asked # {} /\ flags = got.flags
    BY <2>1 DEF EntryRow
  <2>3. got.bodies = got.flags
    BY <2>1, <2>2 DEF ShapeOK, CallOK, GotOK
  <2>4. CASE got.bodies # {}
    <3>1. calls'[r].pc = "addBody" /\ calls'[r].got = [id |-> id, bodies |-> got.bodies]
      BY <1>1, <2>1, <2>4, EntryOutcome
    <3> QED BY <1>0, <2>2, <2>3, <3>1
  <2>5. CASE got.bodies = {}
    BY <1>0, <2>2, <2>3, <2>5
  <2> QED BY <2>4, <2>5
<1> QED BY <1>2, <1>3

(* Unless something failed, an entry decided by a rule has just the bodies   *)
(* it is flagged with once its writer is through.                           *)
THEOREM EntriesGetTheirBodies == Spec => []EntriesComplete
<1>1. Init => CompleteInv
  <2> SUFFICES ASSUME Init, NEW id \in DOMAIN db.access_log, db.access_log[id].asked # {}
               PROVE  db.access_log[id].flags \subseteq BodiesOf(id)
    BY DEF CompleteInv, Announced
  <2> QED BY EntriesAssumption DEF Init, BodiesOf
<1>2. Init => BodiesInv
  BY EntriesAssumption DEF Init, Idle, BodiesInv, BodiesKeptByRule
<1>3. ShapeOK /\ BodiesInv /\ CompleteInv /\ [Next]_vars => (BodiesInv /\ CompleteInv)'
  BY BodiesStep, CompleteStep
<1>4. ShapeOK /\ BodiesInv /\ CompleteInv => EntriesComplete
  <2> SUFFICES ASSUME ShapeOK, BodiesInv, CompleteInv, ~(faults > 0),
                      NEW id \in DOMAIN db.access_log, db.access_log[id].asked # {},
                      \A r \in Callers : ~Writing(r, id)
               PROVE  db.access_log[id].flags = BodiesOf(id)
    BY DEF EntriesComplete
  <2>0. faults = 0
    BY BoundsAssumption DEF ShapeOK
  <2>1. db.access_log[id].flags \subseteq BodiesOf(id)
    BY <2>0 DEF CompleteInv, Announced
  <2>2. ASSUME NEW side \in BodiesOf(id) PROVE side \in db.access_log[id].flags
    <3>1. <<id, side>> \in db.bodies
      BY <2>2 DEF BodiesOf
    <3>2. <<id, side>>[1] = id /\ <<id, side>>[2] = side
      OBVIOUS
    <3> QED BY <3>1, <3>2 DEF BodiesInv, BodiesKeptByRule
  <2> QED BY <2>1, <2>2
<1> QED BY <1>1, <1>2, <1>3, <1>4, Shaped, PTL DEF Spec

----------------------------------------------------------------------------
(* The members of groups.                                                   *)

(* Who is new is a member of a group that is there.                          *)
LEMMA MembersCome ==
  ASSUME ShapeOK, [Next]_vars, NEW m \in db'.members
  PROVE  m \in db.members \/ m[1] \in DOMAIN db'.group
<1>1. "members" \in Tables /\ "members" \notin Objects \cup {"auto", "sessions", "access_log", "bodies", "adminLogs", "loginLogs"}
  BY DEF Tables, Objects, Numbered
<1>2. ASSUME NEW T, Keeps(T), "members" \notin T
      PROVE  m \in db.members
  BY <1>1, <1>2 DEF Keeps
<1>3. ASSUME NEW object, NEW row, AddsRow(object, row)
      PROVE  m \in db.members \/ m[1] \in DOMAIN db'.group
  BY <1>3 DEF AddsRow, Put
<1>4. ASSUME NEW r \in Callers, StepEffect(r)
      PROVE  m \in db.members \/ m[1] \in DOMAIN db'.group
  <2> DEFINE c == calls[r]
  <2>1. ASSUME NEW object, NEW id, NEW row, SetsRow(object, id, row)
        PROVE  m \in db.members \/ m[1] \in DOMAIN db'.group
    BY <2>1 DEF SetsRow
  <2>2. ASSUME NEW other \in Objects \cup {"sessions"}, NEW K, DropsRows(other, K)
        PROVE  m \in db.members
    BY <1>1, <1>2, <2>2 DEF DropsRows
  <2>3. ASSUME NEW what, NEW object, NEW id, CleansUp(what, object, id)
        PROVE  m \in db.members
    <3>1. {"policy", "body_rule"} \subseteq Objects
      BY DEF Objects
    <3> QED BY <2>2, <2>3, <3>1 DEF CleansUp
  <2>4. CASE \E other \in {"adminLogs", "loginLogs"} : \E entry : Logs(other, entry)
    BY <1>1, <1>2, <2>4 DEF Logs
  <2>5. CASE \E t, user, entry : OpensSession(t, user, entry)
    BY <1>1, <1>2, <2>5 DEF OpensSession
  <2>6. CASE \E row : AddsEntry(row)
    BY <1>1, <1>2, <2>6 DEF AddsEntry
  <2>7. CASE \E id, side : AddsBody(id, side)
    BY <1>1, <1>2, <2>7 DEF AddsBody
  <2> HIDE DEF c
  <2> QED BY <1>3, <1>4, <2>1, <2>2, <2>3, <2>4, <2>5, <2>6, <2>7 DEF StepEffect, c
<1> QED BY <1>3, <1>4, StepKinds

(* A row that goes is deleted by a request for it, or goes with another.     *)
LEMMA RowsGo ==
  ASSUME ShapeOK, [Next]_vars, NEW object \in Objects \ {"policy", "body_rule"},
         NEW id \in DOMAIN db[object], id \notin DOMAIN db'[object]
  PROVE  \E r \in Callers : DeleteRow(r) /\ calls[r].req.object = object /\ calls[r].req.id = id
<1>1. object \in Tables /\ object \notin {"auto", "members", "sessions", "access_log", "bodies", "adminLogs", "loginLogs"}
  BY DEF Tables, Objects, Numbered
<1>2. ASSUME NEW T, Keeps(T), object \notin T
      PROVE  FALSE
  BY <1>1, <1>2 DEF Keeps
<1>3. ASSUME NEW x, NEW row, AddsRow(x, row)
      PROVE  FALSE
  <2>1. CASE x = object
    BY <1>3, <2>1 DEF AddsRow, Put
  <2>2. CASE x # object
    BY <1>1, <1>2, <1>3, <2>2 DEF AddsRow
  <2> QED BY <2>1, <2>2
<1>4. ASSUME NEW r \in Callers, StepEffect(r), Statements(r)
      PROVE  DeleteRow(r) /\ calls[r].req.object = object /\ calls[r].req.id = id
  <2> DEFINE c == calls[r]
  <2>1. ASSUME NEW x, NEW k, NEW row, SetsRow(x, k, row)
        PROVE  FALSE
    <3>1. CASE x = object
      BY <2>1, <3>1 DEF SetsRow
    <3>2. CASE x # object
      BY <1>1, <1>2, <2>1, <3>2 DEF SetsRow
    <3> QED BY <3>1, <3>2
  <2>2. ASSUME NEW other, other # object, NEW K, DropsRows(other, K)
        PROVE  FALSE
    BY <1>2, <2>2 DEF DropsRows
  <2>3. ASSUME NEW what, NEW x, NEW k, CleansUp(what, x, k)
        PROVE  FALSE
    BY <1>1, <1>2, <2>2, <2>3 DEF CleansUp
  <2>4. CASE \E other \in {"adminLogs", "loginLogs"} : \E entry : Logs(other, entry)
    BY <1>1, <1>2, <2>4 DEF Logs
  <2>5. CASE \E t, user, entry : OpensSession(t, user, entry)
    BY <1>1, <1>2, <2>5 DEF OpensSession
  <2>6. CASE \E row : AddsEntry(row)
    BY <1>1, <1>2, <2>6 DEF AddsEntry
  <2>7. CASE \E k, side : AddsBody(k, side)
    BY <1>1, <1>2, <2>7 DEF AddsBody
  <2>8. CASE c.pc = "row" /\ DropsRows(c.req.object, {c.req.id})
    <3>1. DeleteRow(r)
      BY <1>4, <2>8, ActionOf
    <3>2. c.req.object = object
      BY <2>2, <2>8
    <3>3. DOMAIN db'[object] = DOMAIN db[object] \ {c.req.id}
      BY <2>8, <3>2 DEF DropsRows, Drop
    <3> QED BY <3>1, <3>2, <3>3
  <2>9. CASE \E K : DropsRows("sessions", K)
    BY <1>1, <2>2, <2>9
  <2> HIDE DEF c
  <2> QED BY <1>3, <1>4, <2>1, <2>3, <2>4, <2>5, <2>6, <2>7, <2>8, <2>9 DEF StepEffect, c
<1> QED BY <1>3, <1>4, StepKinds

(* A deletion that did not fail cleans up next, and takes the members away.  *)
Cleaning(r, id) ==
  /\ calls[r].pc = "clean" /\ calls[r].req.object = "group" /\ calls[r].req.id = id
  /\ calls[r].got.rest = <<"members", "policies">>

LEMMA DeleteOutcome ==
  ASSUME ShapeOK, NEW r \in Callers, DeleteRow(r), calls[r].req.object = "group",
         NEW id \in DOMAIN db.group, calls[r].req.id = id, faults' = faults
  PROVE  Cleaning(r, id)'
<1> DEFINE c    == calls[r]
           next == CleanNext(Did(c, c.req.id), Cascade[c.req.object])
           new  == [db EXCEPT ![c.req.object] = Drop(@, {c.req.id})]
<1>1. Statement(r, new, next, End(c, "error"))
  BY DEF DeleteRow
<1>2. DOMAIN Did(c, c.req.id) = Fields /\ Did(c, c.req.id).req = c.req
  BY DEF ShapeOK, CallOK, Did, Fields
<1>3. Cascade[c.req.object] = <<"members", "policies">> /\ <<"members", "policies">> # <<>>
  BY DEF Cascade
<1>4. /\ DOMAIN next = Fields /\ next.pc = "clean" /\ next.req = c.req
      /\ next.got = [rest |-> <<"members", "policies">>]
  <2> HIDE DEF c
  <2> QED BY <1>2, <1>3, CleanNextFacts
<1>5. faults \in Nat /\ DOMAIN End(c, "error") = Fields
  BY EndFacts, BoundsAssumption DEF ShapeOK
<1> HIDE DEF next, new, c
<1>6. calls'[r] = next
  BY <1>1, <1>4, <1>5, StatementFacts
<1> QED BY <1>4, <1>6 DEF Cleaning, c

LEMMA CleanOutcome ==
  ASSUME ShapeOK, NEW r \in Callers, NEW id, Cleaning(r, id), CleanUp(r), faults' = faults
  PROVE  \A m \in db'.members : m[1] # id
<1> DEFINE c    == calls[r]
           next == CleanNext(c, Tail(c.got.rest))
           new  == Cleaned(Head(c.got.rest), c.req.object, c.req.id)
<1>1. Statement(r, new, next, next)
  BY DEF CleanUp
<1>2. DOMAIN c = Fields /\ DOMAIN next = Fields
  BY CleanNextFacts DEF ShapeOK, CallOK
<1>3. Head(<<"members", "policies">>) = "members"
  OBVIOUS
<1>4. new = [db EXCEPT !.members = {m \in @ : m[1] # id}]
  BY <1>3 DEF Cleaning, Cleaned
<1>5. new.members = {m \in db.members : m[1] # id}
  BY <1>4 DEF ShapeOK, TablesThere, Tables
<1>6. faults \in Nat
  BY BoundsAssumption DEF ShapeOK
<1> HIDE DEF next, new
<1>7. db' = new
  BY <1>1, <1>2, <1>6, StatementFacts
<1> QED BY <1>5, <1>7

MembersInv ==
  faults = 0 => \A m \in db.members : m[1] \in DOMAIN db.group \/ \E r \in Callers : Cleaning(r, m[1])

LEMMA MembersStep ==
  ASSUME ShapeOK, MembersInv, [Next]_vars
  PROVE  MembersInv'
<1> SUFFICES ASSUME faults' = 0, NEW m \in db'.members, m[1] \notin DOMAIN db'.group
             PROVE  \E r \in Callers : Cleaning(r, m[1])'
  BY DEF MembersInv
<1>1. faults = 0 /\ faults' = faults /\ ~Crash
  BY NoFault
<1>2. m \in db.members
  BY MembersCome
<1>3. CASE m[1] \in DOMAIN db.group
  <2>1. PICK r \in Callers : DeleteRow(r) /\ calls[r].req.object = "group" /\ calls[r].req.id = m[1]
    BY <1>3, RowsGo DEF Objects
  <2> QED BY <1>1, <1>3, <2>1, DeleteOutcome
<1>4. ASSUME NEW r \in Callers, Cleaning(r, m[1])
      PROVE  Cleaning(r, m[1])'
  <2>1. CASE calls'[r] = calls[r]
    BY <1>4, <2>1 DEF Cleaning
  <2>2. CASE calls'[r] # calls[r]
    <3>1. Statements(r)
      BY <1>1, <1>4, <2>2, StepsOfCalls DEF Start, At, Cleaning
    <3>2. CleanUp(r)
      BY <1>4, <3>1, ActionOf DEF Cleaning
    <3> QED BY <1>1, <1>4, <3>2, CleanOutcome
  <2> QED BY <2>1, <2>2
<1> QED BY <1>1, <1>2, <1>3, <1>4 DEF MembersInv

(* Groups that go take their memberships with them.                         *)
THEOREM MembersGoWithGroups == Spec => []NoOrphanMembers
<1>1. Init => MembersInv
  BY SeedAssumption DEF Init, MembersInv
<1>2. ShapeOK /\ MembersInv /\ [Next]_vars => MembersInv'
  BY MembersStep
<1>3. ShapeOK /\ MembersInv => NoOrphanMembers
  <2> SUFFICES ASSUME ShapeOK, MembersInv, ~(faults > 0)
               PROVE  NoOrphanMembers
    BY DEF NoOrphanMembers
  <2>1. faults = 0
    BY BoundsAssumption DEF ShapeOK
  <2> QED BY <2>1 DEF MembersInv, Cleaning, NoOrphanMembers
<1> QED BY <1>1, <1>2, <1>3, Shaped, PTL DEF Spec

----------------------------------------------------------------------------
(* The administration log.                                                  *)

LEMMA AdminLogChanges ==
  ASSUME ShapeOK, [Next]_vars
  PROVE  db'.adminLogs = db.adminLogs \/ \E entry : db'.adminLogs = Append(db.adminLogs, entry)
<1> DEFINE Grows == db'.adminLogs = db.adminLogs \/ \E entry : db'.adminLogs = Append(db.adminLogs, entry)
<1>1. "adminLogs" \in Tables /\ "adminLogs" \notin Objects \cup {"auto", "members", "sessions", "access_log", "bodies", "loginLogs"}
  BY DEF Tables, Objects, Numbered
<1>2. ASSUME NEW T, Keeps(T), "adminLogs" \notin T
      PROVE  Grows
  BY <1>1, <1>2 DEF Keeps
<1>3. ASSUME NEW object, NEW row, AddsRow(object, row)
      PROVE  Grows
  BY <1>1, <1>2, <1>3 DEF AddsRow
<1>4. ASSUME NEW r \in Callers, StepEffect(r)
      PROVE  Grows
  <2> DEFINE c == calls[r]
  <2>1. ASSUME NEW object, NEW id, NEW row, SetsRow(object, id, row)
        PROVE  Grows
    BY <1>1, <1>2, <2>1 DEF SetsRow
  <2>2. ASSUME NEW other \in Objects \cup {"sessions"}, NEW K, DropsRows(other, K)
        PROVE  Grows
    BY <1>1, <1>2, <2>2 DEF DropsRows
  <2>3. ASSUME NEW what, NEW object, NEW id, CleansUp(what, object, id)
        PROVE  Grows
    <3>1. {"policy", "body_rule"} \subseteq Objects
      BY DEF Objects
    <3> QED BY <1>1, <1>2, <2>2, <2>3, <3>1 DEF CleansUp
  <2>4. CASE \E entry : Logs("adminLogs", entry)
    BY <2>4 DEF Logs
  <2>5. CASE \E entry : Logs("loginLogs", entry)
    BY <1>1, <1>2, <2>5 DEF Logs
  <2>6. CASE \E t, user, entry : OpensSession(t, user, entry)
    BY <1>1, <1>2, <2>6 DEF OpensSession
  <2>7. CASE \E row : AddsEntry(row)
    BY <1>1, <1>2, <2>7 DEF AddsEntry
  <2>8. CASE \E id, side : AddsBody(id, side)
    BY <1>1, <1>2, <2>8 DEF AddsBody
  <2> HIDE DEF c, Grows
  <2> QED BY <1>3, <1>4, <2>1, <2>2, <2>3, <2>4, <2>5, <2>6, <2>7, <2>8 DEF StepEffect, c
<1> HIDE DEF Grows
<1>5. db' = db => Grows
  BY DEF Grows
<1> QED BY <1>3, <1>4, <1>5, StepKinds DEF Grows

LEMMA AdminLogGrows ==
  ASSUME ShapeOK, IsLog(db.adminLogs), [Next]_vars
  PROVE  /\ IsLog(db'.adminLogs)
         /\ \A i \in DOMAIN db.adminLogs : i \in DOMAIN db'.adminLogs /\ db'.adminLogs[i] = db.adminLogs[i]
<1>1. CASE db'.adminLogs = db.adminLogs
  BY <1>1
<1>2. ASSUME NEW entry, db'.adminLogs = Append(db.adminLogs, entry)
      PROVE  /\ IsLog(db'.adminLogs)
             /\ \A i \in DOMAIN db.adminLogs : i \in DOMAIN db'.adminLogs /\ db'.adminLogs[i] = db.adminLogs[i]
  BY <1>2, LogGrows
<1> QED BY <1>1, <1>2, AdminLogChanges

(* An id given away does not come back.                                     *)
LEMMA GoneForGood ==
  ASSUME ShapeOK, [Next]_vars, NEW object \in Objects, NEW id \in 1..(db.auto[object] - 1), id \notin DOMAIN db[object]
  PROVE  id \in 1..(db'.auto[object] - 1) /\ id \notin DOMAIN db'[object]
<1>1. /\ db.auto[object] \in Nat /\ db'.auto[object] \in Nat /\ db.auto[object] <= db'.auto[object]
      /\ id # db.auto[object]
  BY AutoGrows DEF Numbered
<1>2. ASSUME NEW row, AddsRow(object, row)
      PROVE  id \notin DOMAIN db'[object]
  BY <1>1, <1>2 DEF AddsRow, Put
<1>3. ASSUME NEW k, NEW row, SetsRow(object, k, row)
      PROVE  id \notin DOMAIN db'[object]
  BY <1>3 DEF SetsRow
<1>4. ASSUME NEW K, DropsRows(object, K)
      PROVE  id \notin DOMAIN db'[object]
  BY <1>4 DEF DropsRows, Drop
<1>5. id \notin DOMAIN db'[object]
  BY <1>2, <1>3, <1>4, RowChanges DEF RowChange, RowWrites
<1> QED BY <1>1, <1>5

(* The row a request reads back has an id that was given away.               *)
LEMMA ArrivesToReadBack ==
  ASSUME ShapeOK, [Next]_vars, NEW r \in Callers, calls'[r].pc = "readBack", calls'[r] # calls[r]
  PROVE  IdOf(calls'[r]) \in 1..(db'.auto[calls'[r].req.object] - 1)
<1> DEFINE c      == calls[r]
           object == c.req.object
<1>1. Statements(r) /\ "readBack" \in Onwards[c.pc] /\ calls'[r].req = c.req
  BY Arrives DEF Firsts
<1>2. Insert(r) \/ Replace(r)
  <2>1. c.pc \in {"insert", "replace"}
    BY <1>1, ActionOf DEF Onwards
  <2> QED BY <1>1, <2>1, ActionOf
<1>3. CallOK(c) /\ DOMAIN c = Fields
  BY DEF ShapeOK, CallOK
<1>4. CASE Insert(r)
  <2> DEFINE id  == db.auto[object]
             row == Stored(c.req)
             new == [db EXCEPT ![object] = Put(@, id, row), !.auto[object] = id + 1]
             next(pc) == To(Did(c, id), pc)
             after == SetMembers(new, c.req, id)
  <2>1. c.req.action = "create" /\ object \in Objects
    BY <1>3, <1>4 DEF Insert, At, CallOK, Serves, RequestOK
  <2>2. \/ Query(r, End(c, "error"), End(c, "error"))
        \/ /\ ~Taken(object, 0, row)
           /\ \E pc : Statement(r, after, next(pc), End(c, "error"))
    BY <1>4 DEF Insert
  <2>3. \A pc : DOMAIN next(pc) = Fields /\ next(pc).got = [id |-> id]
    BY <1>3 DEF Did, To, Fields
  <2>4. DOMAIN End(c, "error") = Fields /\ End(c, "error").pc = "end"
    BY EndFacts
  <2> HIDE DEF next, after, c
  <2>5. ~Taken(object, 0, row) /\ db' = after /\ calls'[r].got = [id |-> id]
    BY <2>2, <2>3, <2>4, StatementFacts DEF Query
  <2>6. AddsRow(object, row)
    BY <2>1, <2>5, AddingFacts DEF ShapeOK, after
  <2>7. db'.auto[object] = id + 1 /\ id \in Nat \ {0}
    BY <2>1, <2>6 DEF AddsRow, ShapeOK, TablesThere, Numbered
  <2>8. IdOf(calls'[r]) = id
    BY <1>1, <2>1, <2>5 DEF IdOf, c
  <2>9. calls'[r].req.object = object
    BY <1>1 DEF c
  <2> QED BY <2>7, <2>8, <2>9
<1>5. CASE Replace(r)
  <2>1. c.req.action = "update" /\ object \in Objects
    BY <1>3, <1>5 DEF Replace, At, CallOK, Serves, RequestOK
  <2>2. \/ \E how : Query(r, End(c, how), End(c, "error"))
        \/ c.req.id \in DOMAIN db[object]
    BY <1>5 DEF Replace, Affected
  <2>3. \A how : DOMAIN End(c, how) = Fields /\ End(c, how).pc = "end"
    BY EndFacts
  <2> HIDE DEF c
  <2>4. c.req.id \in DOMAIN db[object]
    BY <2>2, <2>3, StatementFacts DEF Query
  <2>5. /\ db.auto[object] \in Nat /\ db'.auto[object] \in Nat /\ db.auto[object] <= db'.auto[object]
        /\ c.req.id \in 1..(db.auto[object] - 1)
    BY <2>1, <2>4, AutoGrows DEF ShapeOK, TablesThere, Numbered
  <2>6. IdOf(calls'[r]) = c.req.id /\ calls'[r].req.object = object
    BY <1>1, <2>1 DEF IdOf, c
  <2> QED BY <2>5, <2>6
<1> QED BY <1>2, <1>4, <1>5

(* What a request that was not struck did is logged when it ends, or it was   *)
(* about a row that is gone.                                                *)
InLog(c) == \E i \in DOMAIN db.adminLogs : db.adminLogs[i] = c.did

Undone(c) ==
  /\ c.did.action # "delete" /\ c.answer = "notfound"
  /\ c.did.object \in Objects /\ c.did.id \in 1..(db.auto[c.did.object] - 1)
  /\ c.did.id \notin DOMAIN db[c.did.object]

LoggedInv ==
  /\ IsLog(db.adminLogs)
  /\ \A r \in Callers :
       LET c == calls[r]
       IN  /\ c.pc = "end" /\ c.did # NoEntry /\ ~c.struck => InLog(c) \/ Undone(c)
           /\ c.pc = "readBack" => IdOf(c) \in 1..(db.auto[c.req.object] - 1)

LEMMA LogOutcome ==
  ASSUME ShapeOK, IsLog(db.adminLogs), NEW r \in Callers, AddAdminLog(r), ~calls'[r].struck
  PROVE  InLog(calls[r])' /\ calls'[r].did = calls[r].did
<1> DEFINE c   == calls[r]
           new == [db EXCEPT !.adminLogs = Append(@, c.did)]
<1>1. Statement(r, new, End(c, "ok"), End(c, "ok"))
  BY DEF AddAdminLog
<1>2. DOMAIN End(c, "ok") = Fields /\ End(c, "ok").did = c.did
  BY EndFacts
<1>3. new.adminLogs = Append(db.adminLogs, c.did)
  BY DEF ShapeOK, TablesThere, Tables
<1> HIDE DEF new, c
<1>4. db' = new /\ calls'[r].did = c.did
  BY <1>1, <1>2, StatementFacts
<1>5. /\ Len(db.adminLogs) + 1 \in DOMAIN db'.adminLogs
      /\ db'.adminLogs[Len(db.adminLogs) + 1] = c.did
  BY <1>3, <1>4, LogGrows
<1> QED BY <1>4, <1>5 DEF InLog, c

LEMMA ReadBackOutcome ==
  ASSUME ShapeOK, NEW r \in Callers, ReadBack(r), calls'[r].pc = "end", ~calls'[r].struck
  PROVE  /\ calls'[r].answer = "notfound" /\ calls'[r].did = calls[r].did
         /\ IdOf(calls[r]) \notin DOMAIN db[calls[r].req.object] /\ db' = db
<1> DEFINE c == calls[r]
<1>1. /\ IdOf(c) \in DOMAIN db[c.req.object] => Statement(r, db, To(c, "audit"), End(c, "error"))
      /\ IdOf(c) \notin DOMAIN db[c.req.object] => Statement(r, db, End(c, "notfound"), End(c, "error"))
  BY DEF ReadBack, Query
<1>2. /\ DOMAIN c = Fields
      /\ DOMAIN To(c, "audit") = Fields /\ To(c, "audit").pc = "audit"
  BY ToFacts DEF ShapeOK, CallOK
<1>3. \A how : DOMAIN End(c, how) = Fields /\ End(c, how).did = c.did /\ End(c, how).answer = how
  BY EndFacts
<1> HIDE DEF c
<1>4. CASE IdOf(c) \in DOMAIN db[c.req.object]
  BY <1>1, <1>2, <1>3, <1>4, StatementFacts
<1>5. CASE IdOf(c) \notin DOMAIN db[c.req.object]
  BY <1>1, <1>2, <1>3, <1>5, StatementFacts DEF c
<1> QED BY <1>4, <1>5

LEMMA LoggedStep ==
  ASSUME ShapeOK, LoggedInv, [Next]_vars
  PROVE  LoggedInv'
<1>1. IsLog(db.adminLogs) /\ IsLog(db'.adminLogs)
  BY AdminLogGrows DEF LoggedInv
<1>2. ASSUME NEW r \in Callers, calls'[r].pc = "readBack"
      PROVE  IdOf(calls'[r]) \in 1..(db'.auto[calls'[r].req.object] - 1)
  <2>1. CASE calls'[r] = calls[r]
    <3> DEFINE object == calls[r].req.object
    <3>1. object \in Objects
      BY <1>2, <2>1 DEF ShapeOK, CallOK, Serves, RequestOK
    <3>2. db.auto[object] \in Nat /\ db'.auto[object] \in Nat /\ db.auto[object] <= db'.auto[object]
      BY <3>1, AutoGrows DEF Numbered
    <3>3. IdOf(calls[r]) \in 1..(db.auto[object] - 1)
      BY <1>2, <2>1 DEF LoggedInv
    <3> QED BY <2>1, <3>2, <3>3
  <2>2. CASE calls'[r] # calls[r]
    BY <1>2, <2>2, ArrivesToReadBack
  <2> QED BY <2>1, <2>2
<1>3. ASSUME NEW r \in Callers, calls'[r].pc = "end", calls'[r].did # NoEntry, ~calls'[r].struck
      PROVE  (InLog(calls[r]) \/ Undone(calls[r]))'
  <2>1. CASE calls'[r] = calls[r]
    <3>1. InLog(calls[r]) \/ Undone(calls[r])
      BY <1>3, <2>1 DEF LoggedInv
    <3>2. InLog(calls[r]) => InLog(calls[r])'
      BY <1>1, <2>1, AdminLogGrows DEF InLog
    <3>3. Undone(calls[r]) => Undone(calls[r])'
      BY <2>1, GoneForGood DEF Undone
    <3> QED BY <3>1, <3>2, <3>3
  <2>2. CASE calls'[r] # calls[r]
    <3> DEFINE c == calls[r]
    <3>1. Statements(r)
      <4>1. ~Start(r)
        BY <1>3, StartFacts
      <4>2. calls'[r] # Idle
        BY <1>3 DEF Idle
      <4> QED BY <2>2, <4>1, <4>2, StepsOfCalls
    <3>2. calls'[r].did = c.did /\ calls'[r].answer \in Endings[c.pc]
      <4>1. "end" \notin Onwards[c.pc]
        BY <3>1, ActionOf DEF Onwards
      <4> QED BY <1>3, <3>1, <4>1, StepGoes DEF Goes
    <3>3. CallOK(c) /\ c.pc # "end"
      BY <3>1, StepFrame DEF ShapeOK
    <3>4. c.pc \in {"readBack", "clean", "audit"}
      BY <1>3, <3>2, <3>3 DEF CallOK, DidOK
    <3>5. CASE c.pc = "audit"
      <4>1. AddAdminLog(r)
        BY <3>1, <3>5, ActionOf
      <4> QED BY <1>1, <1>3, <4>1, LogOutcome DEF InLog
    <3>6. CASE c.pc = "readBack"
      <4> DEFINE object == c.req.object
      <4>1. ReadBack(r)
        BY <3>1, <3>6, ActionOf
      <4>2. /\ calls'[r].answer = "notfound" /\ calls'[r].did = c.did
            /\ IdOf(c) \notin DOMAIN db[object] /\ db' = db
        BY <1>3, <4>1, ReadBackOutcome
      <4>3. c.did = Entry(c) /\ c.req.action # "delete" /\ object \in Objects
        BY <3>3, <3>6 DEF CallOK, DidOK, Serves, RequestOK
      <4>4. IdOf(c) \in 1..(db.auto[object] - 1)
        BY <3>6 DEF LoggedInv
      <4> QED BY <4>2, <4>3, <4>4 DEF Undone, Entry
    <3>7. c.pc # "clean"
      BY <3>2 DEF Endings
    <3> QED BY <3>4, <3>5, <3>6, <3>7
  <2> QED BY <2>1, <2>2
<1> QED BY <1>1, <1>2, <1>3 DEF LoggedInv

(* What requests did is logged, unless a statement failed.                   *)
THEOREM ActionsLogged == Spec => []LoggedUnlessStruck
<1>1. Init => LoggedInv
  BY SeedAssumption DEF Init, Idle, LoggedInv, IsLog
<1>2. ShapeOK /\ LoggedInv /\ [Next]_vars => LoggedInv'
  BY LoggedStep
<1>3. LoggedInv => LoggedUnlessStruck
  BY DEF LoggedInv, LoggedUnlessStruck, InLog, Undone
<1> QED BY <1>1, <1>2, <1>3, Shaped, PTL DEF Spec

----------------------------------------------------------------------------
(* Listings.                                                                *)

LEMMA SelectedFacts ==
  ASSUME ShapeOK, NEW kind
  PROVE  Selected(kind) \in SUBSET Nat /\ IsFiniteSet(Selected(kind))
<1>1. Selected(kind) \in SUBSET (1..(db.auto.access_log - 1)) /\ db.auto.access_log \in Nat
  BY DEF Selected, ShapeOK, TablesThere, Numbered
<1> DEFINE m == db.auto.access_log - 1
<1>2. m \in Int
  BY <1>1
<1>3. Selected(kind) \in SUBSET (1..m)
  BY <1>1
<1> HIDE DEF m
<1>4. IsFiniteSet(1..m)
  BY <1>2, FS_Interval
<1>5. 1..m \in SUBSET Nat
  BY <1>2
<1> QED BY <1>3, <1>4, <1>5, FS_Subset

LEMMA EffectiveFacts ==
  ASSUME NEW limit \in {0, 1, MaxLimit + 1}
  PROVE  Effective(limit) \in Nat \ {0} /\ Effective(limit) = IF limit \in 1..MaxLimit THEN limit ELSE DefaultLimit
<1>1. MaxLimit \in Nat /\ DefaultLimit \in Nat /\ 1 <= DefaultLimit /\ DefaultLimit <= MaxLimit
  BY LimitsAssumption
<1>2. limit \in Nat /\ (limit = 0 \/ limit = 1 \/ limit = MaxLimit + 1)
  BY <1>1
<1> QED BY <1>1, <1>2 DEF Effective

(* A listing holds the latest there are, in order.                           *)
THEOREM ListingsHoldTheLatest == Spec => []ListingsLatest
<1>1. ShapeOK => ListingsLatest
  <2> SUFFICES ASSUME ShapeOK, NEW kind \in {"", "form", "page"}, NEW limit \in {0, 1, MaxLimit + 1}
               PROVE  LET out    == ListAccessLogs(kind, limit)
                          listed == {out[i] : i \in DOMAIN out}
                      IN  /\ \A i, j \in DOMAIN out : i < j => out[i] < out[j]
                          /\ \A id \in listed : kind \in {"", db.access_log[id].kind}
                          /\ \A id \in Selected(kind) \ listed :
                               /\ \A k \in listed : id < k
                               /\ Len(out) = IF limit \in 1..MaxLimit THEN limit ELSE DefaultLimit
    BY DEF ListingsLatest
  <2> DEFINE S   == Selected(kind)
             n   == Effective(limit)
             T   == Highest(S, n)
             out == ListAccessLogs(kind, limit)
  <2>1. out = InOrder(T) /\ T \in SUBSET S
    BY DEF ListAccessLogs, Highest
  <2>2. \A id \in T : kind \in {"", db.access_log[id].kind}
    BY DEF Selected, Highest
  <2>3. S \in SUBSET Nat /\ IsFiniteSet(S)
    BY SelectedFacts
  <2>4. n \in Nat \ {0} /\ n = IF limit \in 1..MaxLimit THEN limit ELSE DefaultLimit
    BY EffectiveFacts
  <2> HIDE DEF S, n, out
  <2>5. \A id \in S \ T : (\A k \in T : id < k) /\ Cardinality(T) = n
    BY <2>3, <2>4, HighestFacts
  <2> HIDE DEF T
  <2>6. T \in SUBSET Nat /\ IsFiniteSet(T)
    BY <2>1, <2>3, FS_Subset
  <2>7. Len(out) = Cardinality(T) /\ Items(out) = T /\ Ascends(out)
    BY <2>1, <2>6, InOrderFacts
  <2>8. /\ Ascends(out)
        /\ \A id \in Items(out) : kind \in {"", db.access_log[id].kind}
        /\ \A id \in S \ Items(out) :
             /\ \A k \in Items(out) : id < k
             /\ Len(out) = IF limit \in 1..MaxLimit THEN limit ELSE DefaultLimit
    BY <2>2, <2>4, <2>5, <2>7
  <2> QED BY <2>8 DEF S, out, Items, Ascends
<1> QED BY <1>1, Shaped, PTL
=============================================================================

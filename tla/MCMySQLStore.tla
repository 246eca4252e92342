---------------------------- MODULE MCMySQLStore ----------------------------
(* Values of the constants of MySQLStore for TLC: an administrator, a user   *)
(* in a group that a policy lets into an application, and a session of the   *)
(* user.  Each behaviour draws its requests from one of the sets in MCMixes. *)
EXTENDS MySQLAudit, TLC

CONSTANTS t0

Account(name, admin) == [name |-> name, status |-> "active", admin |-> admin, password |-> "p"]
Grant(kind, id, notAfter) ==
  [app |-> 1, subject |-> kind, subjectID |-> id, effect |-> "allow",
   notBefore |-> Unbounded, notAfter |-> notAfter]

RuleOn(sides, kinds, app) ==
  [app |-> app, kinds |-> kinds, enabled |-> TRUE,
   request |-> "request" \in sides, response |-> "response" \in sides]

MCSeed ==
  [user  |-> (1 :> Account("root", TRUE)) @@ (2 :> Account("ann", FALSE)),
   group |-> (1 :> [name |-> "staff", stamp |-> 0]),
   app   |-> (1 :> [domain |-> "oa", enabled |-> TRUE]),
   policy |-> (1 :> Grant("group", 1, Unbounded)),
   body_rule |-> (1 :> [rule |-> RuleOn({"request"}, {"form"}, 1), stamp |-> 0]),
   members |-> {<<1, 2>>},
   sessions |-> (t0 :> [user |-> 2, expires |-> 1]),
   loginLogs |-> <<>>, adminLogs |-> <<>>,
   access_log |-> [id \in {} |-> NoRow], bodies |-> {},
   auto |-> [user |-> 3, group |-> 2, app |-> 2, policy |-> 2, body_rule |-> 2, access_log |-> 1]]

MCHosts == {"oa", "OA:443", "wiki", ":443", ""}
MCNormalizeHost ==
  [h \in MCHosts |-> CASE h \in {"oa", "OA:443"} -> "oa" [] h = "wiki" -> "wiki" [] OTHER -> ""]

Create(object) == [object |-> object, action |-> "create"]
Update(object) == [object |-> object, action |-> "update", id |-> 1]
Delete(object, id) == [object |-> object, action |-> "delete", id |-> id]
CreateUser(name) == Create("user") @@ [name |-> name, admin |-> FALSE, password |-> "p"]
UpdateUser(status, admin) ==
  [object |-> "user", action |-> "update", id |-> 2, status |-> status, admin |-> admin, password |-> ""]
App(domain, enabled) == [domain |-> domain, enabled |-> enabled]
Group(name, members) == [name |-> name, members |-> members]
Check(host) == [object |-> "none", action |-> "check", token |-> t0, host |-> host]
Login(name, password) == [object |-> "none", action |-> "login", name |-> name, password |-> password]

Users  == {CreateUser("bob"), UpdateUser("disabled", FALSE), UpdateUser("", TRUE), Delete("user", 1), Delete("user", 2),
           Login("ann", "p")}
Groups == {Create("group") @@ Group("crew", <<1, 2>>), Create("group") @@ Group("staff", <<2, 2>>),
           Update("group") @@ Group("staff", <<1>>), Update("group") @@ Group("staff", <<2, 2>>),
           Delete("group", 1), Delete("user", 2)}
Apps   == {Create("app") @@ App("OA:443", TRUE), Create("app") @@ App("wiki", TRUE),
           Update("app") @@ App(":443", TRUE), Update("app") @@ App("wiki", FALSE), Delete("app", 1),
           Create("policy") @@ [row |-> [Grant("user", 2, 0) EXCEPT !.app = 2, !.effect = ""]]}
Checks == {Check("oa"), Check("wiki"), Login("ann", "q"), Delete("policy", 1), UpdateUser("disabled", TRUE),
           Update("app") @@ App("", FALSE),
           Create("policy") @@ [row |-> Grant("user", 2, 0)],
           [object |-> "none", action |-> "logout", token |-> t0]}

Report(kind, bodies, flags, app, rule) ==
  [object |-> "access_log", action |-> "report", app |-> app, kind |-> kind, domain |-> "oa",
   bodies |-> bodies, flags |-> flags, rule |-> rule]
Audits == {Report("form", Sides, Sides, NoApp, NoRule), Report("page", {"response"}, {"request"}, 1, 7),
           Create("body_rule") @@ [rule |-> RuleOn(Sides, {"page", "form"}, NoApp)],
           Update("body_rule") @@ [rule |-> RuleOn(Sides, {"form"}, 1)],
           Delete("body_rule", 1),
           [object |-> "none", action |-> "view", id |-> 1]}

MCMixes == {Users, Groups, Apps, Checks, Audits}
MCSymmetry == Permutations(Callers)
=============================================================================

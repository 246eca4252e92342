----------------------------- MODULE MySQLAudit -----------------------------
(***************************************************************************)
(* The access audit of the MySQL backend: AddAccessLog and GetAccessLog,   *)
(* statement by statement, beside the other requests of MySQLStore.        *)
(*                                                                         *)
(* A report has the fields of an entry.  Its path, method and status are   *)
(* its kind, and a rule covers a set of kinds; a body is present or not.   *)
(* What matching, redaction and truncation do is in AuditTrail and         *)
(* BodyPayload.  A listing is one query, and an empty one when that fails.  *)
(***************************************************************************)
EXTENDS MySQLStore, Order

CONSTANTS DefaultLimit, MaxLimit    \* 100 and 500 in the code

NoApp   == 0                      \* NULL in app_id
NoRule  == 0                      \* NULL in body_rule_id
Sides   == {"request", "response"}

(* A report as AccessLog: the rule it names, the bodies it holds, the sides   *)
(* it is flagged with.  asked is history: the sides that the rule which      *)
(* decided asked for when it was read; none before, and without such a rule. *)
LogOf(req) ==
  [kind |-> req.kind, app |-> req.app, rule |-> req.rule, bodies |-> req.bodies,
   flags |-> req.flags, asked |-> {}]

ASSUME LimitsAssumption == MaxLimit \in Nat /\ DefaultLimit \in 1..MaxLimit

(* The entries a behaviour begins with have their bodies.                    *)
ASSUME EntriesAssumption ==
  /\ \A b \in Seed.bodies : /\ b[1] \in DOMAIN Seed.access_log
                            /\ b[2] \in Seed.access_log[b[1]].flags \cap Seed.access_log[b[1]].asked
                            /\ Seed.access_log[b[1]].rule \in 1..(Seed.auto.body_rule - 1)
  /\ \A id \in DOMAIN Seed.access_log :
       Seed.access_log[id].asked # {} =>
         Seed.access_log[id].flags = {side \in Sides : <<id, side>> \in Seed.bodies}

(* A report has a body for a side or not.  It may name any rule and have any  *)
(* flags: the handler takes them as they come.                              *)
ReportOK(req) == req.action = "report" => req.bodies \subseteq Sides

ASSUME ReportsAssumption == \A requests \in Mixes : \A req \in requests : ReportOK(req)

----------------------------------------------------------------------------
(* AddAccessLog: the application of the host, the rules, the entry, then a  *)
(* row for each of its bodies.                                             *)

(* appIDForDomain, asked when the report names no application.              *)
AppOfReport(r) ==
  /\ At(r, "host")
  /\ LET c   == calls[r]
         app == IF Hosting(c.req.domain) = {} THEN NoApp ELSE CHOOSE id \in Hosting(c.req.domain) : TRUE
         On(id) == [To(c, "rules") EXCEPT !.got = [LogOf(c.req) EXCEPT !.app = id]]
     IN  IF c.req.app # NoApp
           THEN /\ calls' = [calls EXCEPT ![r] = On(c.req.app)]
                /\ UNCHANGED <<db, faults, server, bounds>>
                /\ Observe
           ELSE Query(r, On(app), On(NoApp))

Matches(rule, req, app) ==
  rule.enabled /\ rule.app \in {NoApp, app} /\ req.kind \in rule.kinds

Matching(req, app) == {k \in DOMAIN db.body_rule : Matches(db.body_rule[k].rule, req, app)}

(* The oldest of the rules that match: ORDER BY id, and the first wins.      *)
Deciding(req, app) == CHOOSE k \in Matching(req, app) : \A j \in Matching(req, app) : k <= j

(* What the rule captures.                                                  *)
Asked(k) == {side \in Sides : db.body_rule[k].rule[side]}

Unmatched(log) == [log EXCEPT !.bodies = {}]

(* Faulty Applied: the flags are those of the report; without a rule, the    *)
(* bodies are those of the report too.                                      *)
AppliedKeepsFlags(req, log) ==
  IF Matching(req, log.app) = {} THEN Unmatched(log)
  ELSE LET k == Deciding(req, log.app)
       IN  [log EXCEPT !.rule = k, !.asked = Asked(k), !.bodies = @ \cap Asked(k)]

AppliedKeepsBodies(req, log) ==
  IF Matching(req, log.app) = {} THEN log
  ELSE LET k    == Deciding(req, log.app)
           kept == log.bodies \cap Asked(k)
       IN  [log EXCEPT !.rule = k, !.asked = Asked(k), !.bodies = kept, !.flags = kept]

(* applyBodyAuditRule: the first rule that matches decides; without one the  *)
(* bodies go, the flags and the rule id stay as reported.                   *)
Applied(req, log) ==
  IF Matching(req, log.app) = {} THEN Unmatched(log)
  ELSE LET k    == Deciding(req, log.app)
           kept == log.bodies \cap Asked(k)
       IN  [log EXCEPT !.rule = k, !.asked = Asked(k), !.bodies = kept, !.flags = kept]

(* A listing that fails is a listing without rules.                         *)
ApplyBodyAuditRule(r) ==
  /\ At(r, "rules")
  /\ LET c == calls[r]
     IN  Query(r, [To(c, "addEntry") EXCEPT !.got = Applied(c.req, c.got)],
                  [To(c, "addEntry") EXCEPT !.got = Unmatched(c.got)])

NextBody(c) == IF c.got.bodies = {} THEN End(c, "ok") ELSE To(c, "addBody")

AddEntry(r) ==
  /\ At(r, "addEntry")
  /\ LET c   == calls[r]
         id  == db.auto.access_log
         row == [kind |-> c.got.kind, app |-> c.got.app, rule |-> c.got.rule,
                 flags |-> c.got.flags, asked |-> c.got.asked]
     IN  Statement(r, [db EXCEPT !.access_log = Put(@, id, row), !.auto.access_log = id + 1],
                   NextBody([c EXCEPT !.got = [id |-> id, bodies |-> c.got.bodies]]), End(c, "ok"))

(* addAccessLogBody: the request's before the response's, errors dropped.    *)
AddBody(r) ==
  /\ At(r, "addBody")
  /\ LET c    == calls[r]
         side == IF "request" \in c.got.bodies THEN "request" ELSE "response"
         next == NextBody([c EXCEPT !.got.bodies = @ \ {side}])
     IN  Statement(r, [db EXCEPT !.bodies = @ \cup {<<c.got.id, side>>}], next, next)

----------------------------------------------------------------------------
(* GetAccessLog and its handler: the entry, its bodies, and the log of the  *)
(* view if the entry is flagged as having a body.                          *)

GetEntry(r) ==
  /\ At(r, "entry")
  /\ LET c == calls[r]
     IN  Query(r, IF c.req.id \in DOMAIN db.access_log
                    THEN [To(c, "bodies") EXCEPT !.got = db.access_log[c.req.id]]
                    ELSE End(c, "notfound"),
                  End(c, "error"))

BodiesOf(id) == {side \in Sides : <<id, side>> \in db.bodies}

(* What the view goes on with, its body being the sides in shown.           *)
Viewed(c, shown) ==
  IF c.got.flags \cup shown = {} THEN End(c, "ok")
  ELSE [To(c, "audit") EXCEPT !.did = [object |-> "access_log", id |-> c.req.id, action |-> "view_body"]]

LoadBodies(r) ==
  /\ At(r, "bodies")
  /\ LET c == calls[r]
     IN  Query(r, Viewed(c, BodiesOf(c.req.id)), Viewed(c, {}))

----------------------------------------------------------------------------
(* ListAccessLogs: WHERE, then ORDER BY id DESC LIMIT, then sorted by id.   *)

Selected(kind) == {id \in DOMAIN db.access_log : kind \in {"", db.access_log[id].kind}}

Effective(limit) == IF limit <= 0 \/ limit > MaxLimit THEN DefaultLimit ELSE limit

(* Faulty ListAccessLogs: LIMIT without the descending order.               *)
ListOldest(kind, limit) ==
  InOrder({id \in Selected(kind) : Rank(Selected(kind), id) <= Effective(limit)})

ListAccessLogs(kind, limit) == InOrder(Highest(Selected(kind), Effective(limit)))

AuditStep(r) ==
  \/ AppOfReport(r) \/ ApplyBodyAuditRule(r) \/ AddEntry(r) \/ AddBody(r)
  \/ GetEntry(r) \/ LoadBodies(r)

Next ==
  \/ Crash \/ Restart \/ Tick
  \/ \E r \in Callers : Start(r) \/ DirectoryStep(r) \/ AccessStep(r) \/ AuditStep(r)

Spec == Init /\ [][Next]_vars

----------------------------------------------------------------------------
(* Properties.                                                             *)

Writing(r, id) == calls[r].pc = "addBody" /\ calls[r].got.id = id

(* A body row belongs to an entry that is flagged with that side, and the     *)
(* rule that decided the report asked for that side when the report read it; *)
(* the entry names a rule that was there.  Rules are changed and deleted     *)
(* while reports come in, and a report may name any rule, or an id none has. *)
BodiesKeptByRule ==
  \A b \in db.bodies :
    /\ b[1] \in DOMAIN db.access_log
    /\ b[2] \in db.access_log[b[1]].flags \cap db.access_log[b[1]].asked
    /\ db.access_log[b[1]].rule \in 1..(db.auto.body_rule - 1)

(* An entry decided by a rule is flagged with just the bodies it has, once    *)
(* its writer is through, unless a statement failed or the process stopped:  *)
(* only then does it announce a body that never comes.  The flags and the    *)
(* rule id of an entry no rule decided are those of the report.             *)
EntriesComplete ==
  \A id \in DOMAIN db.access_log :
    db.access_log[id].asked # {} =>
      \/ db.access_log[id].flags = BodiesOf(id)
      \/ faults > 0
      \/ \E r \in Callers : Writing(r, id)

(* A listing is in id order and misses nothing it should hold: what matches   *)
(* and is not listed is older than all that is, of which there are then as   *)
(* many as the limit allows.                                                *)
ListingsLatest ==
  \A kind \in {"", "form", "page"}, limit \in {0, 1, MaxLimit + 1} :
    LET out    == ListAccessLogs(kind, limit)
        listed == {out[i] : i \in DOMAIN out}
    IN  /\ \A i, j \in DOMAIN out : i < j => out[i] < out[j]
        /\ \A id \in listed : kind \in {"", db.access_log[id].kind}
        /\ \A id \in Selected(kind) \ listed :
             /\ \A k \in listed : id < k
             /\ Len(out) = IF limit \in 1..MaxLimit THEN limit ELSE DefaultLimit
=============================================================================

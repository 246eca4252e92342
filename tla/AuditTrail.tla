----------------------------- MODULE AuditTrail -----------------------------
(***************************************************************************)
(* Access audit: the body rules and the access log of the in-memory store  *)
(* (internal/store/memory.go) and their routes (internal/httpapi/server.go)*)
(* on top of the administration requests.                                  *)
(*                                                                         *)
(* A report posted to /audit/access has the fields of an access log entry; *)
(* the store overwrites some of them and takes the others as they come.    *)
(* Abstracted: rule names, blanks around fields, durations and user agents.*)
(* The source address is filtered like the user name and left out.         *)
(***************************************************************************)
EXTENDS AdminApi, BodyPayload, Order
LOCAL INSTANCE SequencesExt
LOCAL INSTANCE FiniteSetsExt

CONSTANTS
  RuleForms,       \* body rules a request can carry
  Reports,         \* access log entries as posted, their id and time zero
  AdminReports,    \* administration log entries as posted
  Filters,         \* conditions of a listing
  Upper,           \* strings.ToUpper on methods; "" for a blank one
  DefaultLimit, MaxLimit,     \* 100 and 500 in the code
  MaxLogs          \* bound: entries of the access log

VARIABLES
  bodyRules,   \* id -> body rule
  accessLogs,  \* sequence of access log entries, oldest first
  shown        \* history: who was sent an entry with a body, and which

trailVars == <<bodyRules, accessLogs, shown>>
auditVars == <<vars, apiVars, trailVars>>

Rule == [app : Nat, pattern : Seq(STRING), match : {"", "prefix", "contains", "exact"},
         methods : SUBSET DOMAIN Upper, statusMin : Nat, statusMax : Nat,
         request : BOOLEAN, response : BOOLEAN, maxBytes : Nat, enabled : BOOLEAN]

AccessLog == [id : Nat, at : Nat, app : Nat, rule : Nat, user : STRING, domain : RawHosts,
              path : Seq(STRING), method : DOMAIN Upper, status : Nat,
              hasRequest : BOOLEAN, hasResponse : BOOLEAN, request : Body, response : Body]

ASSUME AuditAssumption ==
  /\ RuleForms \subseteq Rule
  /\ Reports \subseteq AccessLog
  /\ MaxLimit \in Nat /\ DefaultLimit \in 1..MaxLimit

----------------------------------------------------------------------------
(* Body rules.                                                             *)

ValidBodyRule(form) ==
  /\ form.request \/ form.response
  /\ form.statusMin > 0 /\ form.statusMax > 0 => form.statusMin <= form.statusMax

NormalizeBodyAuditRule(form) ==
  [form EXCEPT !.match    = IF @ = "" THEN "prefix" ELSE @,
               !.methods  = {Upper[m] : m \in @} \ {""},
               !.maxBytes = Limit(@)]

CreateBodyAuditRule(form) ==
  /\ bodyRules' = Put(bodyRules, nextID, NormalizeBodyAuditRule(form))
  /\ TakeID

UpdateBodyAuditRule(id, form) ==
  /\ id \in DOMAIN bodyRules
  /\ bodyRules' = [bodyRules EXCEPT ![id] = NormalizeBodyAuditRule(form)]
  /\ UNCHANGED nextID

DeleteBodyAuditRule(id) ==
  /\ id \in DOMAIN bodyRules
  /\ bodyRules' = Drop(bodyRules, {id})
  /\ UNCHANGED nextID

BodyAuditRuleMatches(rule, log) ==
  /\ rule.enabled
  /\ rule.app > 0 => rule.app = log.app
  /\ rule.methods # {} => Upper[log.method] \in rule.methods
  /\ rule.statusMin > 0 => log.status >= rule.statusMin
  /\ rule.statusMax > 0 => log.status <= rule.statusMax
  /\ \/ rule.pattern = <<>>
     \/ rule.match = "exact" /\ log.path = rule.pattern
     \/ rule.match = "contains" /\ rule.pattern \in SubSeqs(log.path)
     \/ rule.match = "prefix" /\ IsPrefix(rule.pattern, log.path)

----------------------------------------------------------------------------
(* The access log.                                                         *)

AppIDForDomain(raw) ==
  IF NormalizeHost[raw] \in DOMAIN appByHost THEN appByHost[NormalizeHost[raw]] ELSE 0

Matching(log) == {k \in DOMAIN bodyRules : BodyAuditRuleMatches(bodyRules[k], log)}

Kept(wanted, body, rule) == IF wanted THEN PrepareBodyPayload(body, rule.maxBytes) ELSE NoBody

(* Faulty: a body the rule does not ask for stays; the flags of the report   *)
(* are left alone.                                                          *)
ApplyKeepsUnwanted(log) ==
  IF Matching(log) = {} THEN [log EXCEPT !.request = NoBody, !.response = NoBody]
  ELSE LET rule == bodyRules[Min(Matching(log))]
       IN  [log EXCEPT !.request = PrepareBodyPayload(@, rule.maxBytes),
                       !.response = PrepareBodyPayload(@, rule.maxBytes),
                       !.hasRequest = TRUE, !.hasResponse = TRUE]

ApplyTrustsFlags(log) ==
  IF Matching(log) = {} THEN [log EXCEPT !.request = NoBody, !.response = NoBody]
  ELSE LET rule == bodyRules[Min(Matching(log))]
       IN  [log EXCEPT !.request = Kept(rule.request, @, rule),
                       !.response = Kept(rule.response, @, rule)]

(* The oldest rule that matches decides.  Without one the bodies go, while   *)
(* the flags and the rule id stay as reported.                               *)
ApplyBodyAuditRule(log) ==
  IF Matching(log) = {} THEN [log EXCEPT !.request = NoBody, !.response = NoBody]
  ELSE LET k        == Min(Matching(log))
           rule     == bodyRules[k]
           request  == Kept(rule.request, log.request, rule)
           response == Kept(rule.response, log.response, rule)
       IN  [log EXCEPT !.rule = k, !.request = request, !.response = response,
                       !.hasRequest = request.present, !.hasResponse = response.present]

AddAccessLog(report) ==
  LET log == [report EXCEPT !.id = nextID, !.at = now,
                            !.app = IF @ = 0 THEN AppIDForDomain(report.domain) ELSE @]
  IN  accessLogs' = Append(accessLogs, ApplyBodyAuditRule(log)) /\ TakeID

(* POST /audit/access and POST /audit/admin.                                *)
AccessAudit(report) ==
  /\ Spare(1) /\ Len(accessLogs) < MaxLogs
  /\ AddAccessLog(report)
  /\ UNCHANGED <<directory, logins, now, checks, apiVars, bodyRules, shown>>

AdminAudit(entry) ==
  /\ Spare(1)
  /\ adminLogs' = Append(adminLogs, [id |-> nextID, entry |-> entry])
  /\ TakeID
  /\ UNCHANGED <<directory, logins, now, checks, reqs, performed, trailVars>>

----------------------------------------------------------------------------
(* Listings: the entries that match, then the latest of them, without bodies. *)

Selects(filter, log) ==
  /\ filter.user # "" => log.user = filter.user
  /\ filter.path # <<>> => filter.path \in SubSeqs(log.path)
  /\ filter.status # 0 => log.status = filter.status
  /\ filter.from # Unbounded => ~(log.at < filter.from)
  /\ filter.to # Unbounded => ~(log.at > filter.to)

Effective(limit) == IF limit <= 0 \/ limit > MaxLimit THEN DefaultLimit ELSE limit

Latest(items, limit) ==
  SubSeq(items, Max({0, Len(items) - Effective(limit)}) + 1, Len(items))

StripBodies(log) == [log EXCEPT !.request = NoBody, !.response = NoBody]

Selected(filter) == {i \in DOMAIN accessLogs : Selects(filter, accessLogs[i])}

(* The entries at the places in S, oldest first.                            *)
Stripped(S) == [n \in 1..Cardinality(S) |-> StripBodies(accessLogs[InOrder(S)[n]])]

(* Faulty: the latest entries, of which those that match.                   *)
ListLatestFirst(filter, limit) ==
  Stripped(Selected(filter) \cap Highest(DOMAIN accessLogs, Effective(limit)))

ListAccessLogs(filter, limit) == Latest(Stripped(Selected(filter)), limit)

----------------------------------------------------------------------------
(* The routes of body rules and of one entry.                              *)

RuleRequest(r) ==
  /\ \/ \E form \in RuleForms :
          /\ ValidBodyRule(form)
          /\ CreateBodyAuditRule(form)
          /\ Performed(r, "body_rule", nextID, "create")
     \/ \E id \in DOMAIN bodyRules, form \in RuleForms :
          /\ ValidBodyRule(form)
          /\ UpdateBodyAuditRule(id, form)
          /\ Performed(r, "body_rule", id, "update")
     \/ \E id \in DOMAIN bodyRules :
          DeleteBodyAuditRule(id) /\ Performed(r, "body_rule", id, "delete")
  /\ UNCHANGED <<directory, logins, now, checks, accessLogs, shown>>

Show(admin, log) ==
  shown' = IF log.request.present \/ log.response.present
           THEN Append(shown, [admin |-> admin, log |-> log.id]) ELSE shown

(* GET /admin/audit/access/{id}: an entry flagged as having a body is sent   *)
(* after the view is logged, any other at once.                             *)
ViewRequest(r) ==
  \E i \in DOMAIN accessLogs :
    LET log == accessLogs[i] IN
    /\ \/ /\ log.hasRequest \/ log.hasResponse
          /\ Performed(r, "access_log", log.id, "view_body")
          /\ UNCHANGED shown
       \/ /\ ~(log.hasRequest \/ log.hasResponse)
          /\ reqs' = [reqs EXCEPT ![r].phase = "idle"]
          /\ Show(reqs[r].admin, log)
          /\ UNCHANGED <<adminLogs, performed>>
    /\ UNCHANGED <<vars, bodyRules, accessLogs>>

Finish(r) ==
  /\ AuditAdmin(r)
  /\ IF reqs[r].entry.action = "view_body"
       THEN \E i \in DOMAIN accessLogs :
              accessLogs[i].id = reqs[r].entry.objectID /\ Show(reqs[r].admin, accessLogs[i])
       ELSE UNCHANGED shown
  /\ UNCHANGED <<bodyRules, accessLogs>>

AuditInit == ApiInit /\ bodyRules = NoEntries /\ accessLogs = <<>> /\ shown = <<>>

AuditNext ==
  \/ \E r \in Requests :
       \/ (Execute(r) \/ Answer(r) \/ \E t \in Tokens : RequireAdmin(r, t)) /\ UNCHANGED trailVars
       \/ reqs[r].phase = "execute" /\ (RuleRequest(r) \/ ViewRequest(r))
       \/ Finish(r)
  \/ \E report \in Reports : AccessAudit(report)
  \/ \E entry \in AdminReports : AdminAudit(entry)
  \/ Environment /\ UNCHANGED trailVars

AuditSpec == AuditInit /\ [][AuditNext]_auditVars

----------------------------------------------------------------------------
(* Properties.                                                             *)

(* The access log is in id order under ids of its own and a rule is stored in *)
(* its normal form; an entry with a body is flagged as having one, names the  *)
(* rule that kept it, which is older, and went through redaction: it holds no *)
(* key=value the patterns look for.                                          *)
TrailOK ==
  /\ \A k \in DOMAIN bodyRules :
       /\ k < nextID
       /\ bodyRules[k].match # "" /\ bodyRules[k].maxBytes > 0
       /\ bodyRules[k].request \/ bodyRules[k].response
  /\ \A i \in DOMAIN accessLogs :
       LET log == accessLogs[i]
           Sound(flag, body) == body.present =>
             /\ flag /\ log.rule \in 1..(log.id - 1)
             /\ \A n \in DOMAIN body.text : body.text[n] \notin {"k", "b"}
       IN  /\ log.id < nextID /\ log.at <= now
           /\ \A j \in 1..(i - 1) : accessLogs[j].id < log.id
           /\ Sound(log.hasRequest, log.request) /\ Sound(log.hasResponse, log.response)

(* "Bodies are recorded only by rule": a body enters the log only while an    *)
(* enabled rule asks for that side of that request, in that application; what *)
(* rules were before or become later makes no difference.                     *)
BodiesOnlyByRule ==
  [][ Len(accessLogs') > Len(accessLogs) =>
        LET log == Last(accessLogs')
            Asked(side) == \E k \in DOMAIN bodyRules :
              /\ bodyRules[k].enabled /\ bodyRules[k][side]
              /\ bodyRules[k].app \in {0, log.app}
              /\ bodyRules[k].methods = {} \/ Upper[log.method] \in bodyRules[k].methods
        IN  /\ log.request.present => Asked("request")
            /\ log.response.present => Asked("response") ]_auditVars

(* "Looking at a log with a body must be written to the administration log":  *)
(* however requests, reports and changes of rules interleave and whatever the *)
(* report claimed, each time an administrator was sent a body an entry of the *)
(* administration log says so.                                                *)
ViewsAudited ==
  \A i \in DOMAIN shown :
    Cardinality({j \in DOMAIN shown : shown[j] = shown[i]}) <=
    Cardinality({j \in DOMAIN adminLogs :
      Logged(j) = [admin |-> shown[i].admin, object |-> "access_log",
                   objectID |-> shown[i].log, action |-> "view_body"]})

(* A listing misses nothing it should hold: every entry that matches and is   *)
(* not listed is older than all those listed, of which there are then as many *)
(* as the limit allows; and no listing carries a body.                        *)
ListingsExact ==
  \A filter \in Filters, limit \in {0, MaxLimit, MaxLimit + 1} :
    LET out     == ListAccessLogs(filter, limit)
        ids     == {out[j].id : j \in DOMAIN out}
        matches == Selected(filter)
        listed  == {i \in matches : accessLogs[i].id \in ids}
    IN  /\ Len(out) = Cardinality(listed)
        /\ matches # listed => Len(out) = Effective(limit)
        /\ \A i \in matches \ listed, j \in listed : i < j
        /\ \A j \in DOMAIN out : ~out[j].request.present /\ ~out[j].response.present

(* docs/development-design-requirements.md:454: a listing gives only the marks *)
(* that tell whether an entry has a body; so the marks should agree with it.   *)
FlagsTruthful ==
  \A i \in DOMAIN accessLogs :
    LET log == accessLogs[i]
    IN  log.hasRequest = log.request.present /\ log.hasResponse = log.response.present
=============================================================================

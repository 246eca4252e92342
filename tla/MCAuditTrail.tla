---------------------------- MODULE MCAuditTrail ----------------------------
(* Values of the constants of AuditTrail for TLC.  Ids: 2 is the login, 3 to  *)
(* MaxID go to accounts, applications, rules and entries of the logs in any   *)
(* order; with a second token ann, made an administrator, can act as well.    *)
EXTENDS AuditTrail, TLC

MCNames == {"root", "ann"}
MCFold  == [n \in MCNames |-> n]
MCRawHosts == {"oa"}
MCNormalizeHost == [h \in MCRawHosts |-> h]

MCPhone == [digits |-> 4, head |-> 1, tail |-> 1]
MCCard  == [digits |-> 5, head |-> 1, tail |-> 1]

MCUpper == [m \in {"post", "POST", "GET"} |-> IF m = "post" THEN "POST" ELSE m]

Anything == [app |-> 0, pattern |-> <<"a">>, match |-> "", methods |-> {}, statusMin |-> 0,
             statusMax |-> 0, request |-> TRUE, response |-> FALSE, maxBytes |-> 0, enabled |-> TRUE]

(* A rule for requests, one for the responses of the application with id 3,   *)
(* one for both that is off, and one the handler refuses.                     *)
MCRuleForms ==
  {Anything,
   [Anything EXCEPT !.app = 3, !.match = "contains", !.pattern = <<"b">>, !.methods = {"post"},
                    !.statusMin = 2, !.statusMax = 3, !.request = FALSE, !.response = TRUE,
                    !.maxBytes = 2],
   [Anything EXCEPT !.match = "exact", !.response = TRUE, !.enabled = FALSE],
   [Anything EXCEPT !.request = FALSE]}

SomeBody(text, json) == [present |-> TRUE, text |-> text, json |-> json, truncated |-> json = 0]

(* What the gateway would send with bodies, the same flagged and naming an    *)
(* application, and an entry that claims a body it does not have.             *)
Plain == [id |-> 0, at |-> 0, app |-> 0, rule |-> 0, user |-> "ann", domain |-> "oa",
          path |-> <<"a", "b">>, method |-> "POST", status |-> 2, hasRequest |-> FALSE,
          hasResponse |-> FALSE, request |-> SomeBody(<<"x", "s", "x">>, 3),
          response |-> SomeBody(<<"x", "s", "k">>, 0)]
Claiming == [Plain EXCEPT !.user = "", !.path = <<"a">>, !.method = "GET", !.status = 4,
                          !.hasRequest = TRUE, !.request = NoBody, !.response = SomeBody(<<>>, 0)]
Named    == [Plain EXCEPT !.app = 3, !.method = "post", !.hasRequest = TRUE,
                          !.hasResponse = TRUE]
MCReports == {Plain, Named, Claiming}

MCSymmetry == Permutations(Tokens)

MCAdminReports == {[admin |-> 1, object |-> "user", objectID |-> 1, action |-> "update"]}

All == [user |-> "", path |-> <<>>, status |-> 0, from |-> Unbounded, to |-> Unbounded]
MCFilters == {All, [All EXCEPT !.user = "ann", !.path = <<"b">>],
              [All EXCEPT !.status = 4], [All EXCEPT !.from = 1], [All EXCEPT !.to = 0]}
=============================================================================

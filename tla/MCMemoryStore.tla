--------------------------- MODULE MCMemoryStore ---------------------------
(* Values of the constants of MemoryStore for TLC.  The first application    *)
(* or group a behaviour creates, and the first user, have ids 2, 3 or 4.     *)
EXTENDS MemoryAccess

MCNames == {"root", "Root", "ann"}
MCFold  == [n \in MCNames |-> IF n = "Root" THEN "root" ELSE n]

(* ":443" normalizes to the empty host, which CreateApp takes as a host and  *)
(* UpdateApp as "keep".                                                      *)
MCRawHosts == {"oa", "Wiki:443", ":443"}
MCNormalizeHost ==
  [h \in MCRawHosts |-> CASE h = "oa" -> "oa" [] h = "Wiki:443" -> "wiki" [] OTHER -> ""]

MCMemberSets == {{}, {1, 2}}

MCPolicyForms ==
  {[app |-> 2, subject |-> "user", subjectID |-> 1, effect |-> "",
    notBefore |-> Unbounded, notAfter |-> Unbounded],
   [app |-> 2, subject |-> "group", subjectID |-> 3, effect |-> "allow",
    notBefore |-> Unbounded, notAfter |-> 1]}

(* For the runs about sessions: two users, no applications, groups, policies. *)
MCTwoNames == {"root", "ann"}
MCTwoFolds == [n \in MCTwoNames |-> n]
MCNoHosts == [h \in {} |-> h]
=============================================================================

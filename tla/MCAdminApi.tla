----------------------------- MODULE MCAdminApi -----------------------------
(* Values of the constants of AdminApi for TLC.                              *)
EXTENDS AdminApi

MCNames == {"root", "ann"}
MCFold  == [n \in MCNames |-> n]

MCNoHosts == [h \in {} |-> h]

MCMemberSets == {{1}}

MCPolicyForms ==
  {[app |-> 3, subject |-> "user", subjectID |-> 1, effect |-> "allow",
    notBefore |-> Unbounded, notAfter |-> Unbounded]}
=============================================================================

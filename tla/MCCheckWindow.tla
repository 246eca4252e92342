--------------------------- MODULE MCCheckWindow ---------------------------
(* Values of the constants of CheckWindow for TLC: one user, who begins as   *)
(* the administrator and can be demoted, one checker, and two policies for   *)
(* that user and the application with id 2, one of them running out.         *)
EXTENDS CheckWindow

MCNames == {"root"}
MCFold  == [n \in MCNames |-> n]

MCRawHosts == {"oa", "wiki"}
MCNormalizeHost == [h \in MCRawHosts |-> h]

MCPolicyForms ==
  {[app |-> 2, subject |-> "user", subjectID |-> 1, effect |-> "allow",
    notBefore |-> Unbounded, notAfter |-> end] : end \in {Unbounded, 0}}
=============================================================================

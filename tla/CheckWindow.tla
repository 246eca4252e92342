---------------------------- MODULE CheckWindow ----------------------------
(***************************************************************************)
(* What a call of CheckAccess may conclude from the store it looks at in   *)
(* two separate critical sections (internal/store/memory.go:137-156) while *)
(* logouts, administration and time go on in between.                      *)
(*                                                                         *)
(* The history variable seen[c] collects the facts that held at some       *)
(* instant between the lookup and the decision of checker c's latest call. *)
(***************************************************************************)
EXTENDS MemoryStore

VARIABLE seen

Facts == {"signedIn", "administrator", "enabled", "authorized",
          "notAdministrator", "disabled", "notAuthorized", "unknown"}

(* Facts about the session token, user and host of checker c's call, in the *)
(* current state of the store.                                             *)
SignedIn(c)      == Authenticated(checks[c].token)
Administrator(c) == SignedIn(c) /\ users[checks[c].user].admin
Known(c)         == NormalizeHost[checks[c].host] \in DOMAIN appByHost
Target(c)        == appByHost[NormalizeHost[checks[c].host]]
Enabled(c)       == Known(c) /\ apps[Target(c)].enabled
Authorized(c)    == Enabled(c) /\ Allowed(checks[c].user, Target(c))

FactsOf(c) ==
  {f \in Facts : CASE f = "signedIn"         -> SignedIn(c)
                   [] f = "administrator"    -> Administrator(c)
                   [] f = "enabled"          -> Enabled(c)
                   [] f = "authorized"       -> Authorized(c)
                   [] f = "notAdministrator" -> ~Administrator(c)
                   [] f = "disabled"         -> Known(c) /\ ~Enabled(c)
                   [] f = "notAuthorized"    -> Known(c) /\ ~Authorized(c)
                   [] f = "unknown"          -> ~Known(c)}

Observe ==
  seen' = [c \in Checkers |->
             IF checks'[c].phase # "decide" THEN seen[c]
             ELSE (IF checks[c].phase = "decide" THEN seen[c] ELSE {}) \cup FactsOf(c)']

WindowInit == Init /\ seen = [c \in Checkers |-> {}]
WindowNext == Next /\ Observe
WindowSpec == WindowInit /\ [][WindowNext]_<<vars, seen>>

----------------------------------------------------------------------------
(* A call that grants access met, between its start and its end, an instant *)
(* at which the session was good, and either one at which its user was a     *)
(* signed-in administrator and one at which the application was enabled, or  *)
(* one at which the application was enabled and a policy in force allowed    *)
(* the user.  A revocation that precedes the call is therefore respected;    *)
(* the instants may differ, because CheckAccess unlocks in between.          *)
GrantJustified ==
  \A c \in Checkers : checks[c].outcome = "granted"
    => /\ "signedIn" \in seen[c]
       /\ {"administrator", "enabled"} \subseteq seen[c] \/ "authorized" \in seen[c]

(* Nobody is turned away without reason: a call answered 404 met an instant   *)
(* without the application; one answered 403 met the application disabled, or *)
(* met both an instant at which its user was no administrator and one at      *)
(* which no policy in force allowed the user.  Here too the instants may      *)
(* differ: a user promoted during the call, whose policy goes right after, is *)
(* turned away although permitted throughout.                                 *)
DenialJustified ==
  \A c \in Checkers :
    /\ checks[c].outcome = "notfound" => "unknown" \in seen[c]
    /\ checks[c].outcome = "forbidden"
         => "disabled" \in seen[c] \/ {"notAdministrator", "notAuthorized"} \subseteq seen[c]
=============================================================================

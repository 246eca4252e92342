----------------------------- MODULE AccessSpec -----------------------------
(***************************************************************************)
(* What a caller of store.Backend (internal/store/backend.go) may rely on, *)
(* whichever back end is behind it: who has an account, which sites there  *)
(* are, which session belongs to whom, and which account has a grant for   *)
(* which site.  Each step changes one of these and says what happens to    *)
(* the others; index maps, cascades of a deletion, SQL statements, clean-  *)
(* up that is late or never comes, and the groups and policies behind a    *)
(* grant are not visible here.                                             *)
(***************************************************************************)
EXTENDS Naturals

CONSTANT Tokens      \* session tokens that can be drawn

VARIABLES
  accounts,   \* account id -> [name, active, admin]
  sites,      \* site id -> [host, enabled]
  grants,     \* pairs <<account, site>>
  holder,     \* live token -> account that signed in with it
  drawn,      \* tokens drawn so far
  spent       \* pairs <<kind, id>> of ids given away so far

vars == <<accounts, sites, grants, holder, drawn, spent>>

With(m, k, v)  == [x \in DOMAIN m \cup {k} |-> IF x = k THEN v ELSE m[x]]
Without(m, K)  == [x \in DOMAIN m \ K |-> m[x]]

Unnamed(name)  == \A id \in DOMAIN accounts : accounts[id].name # name
Unhosted(host) == \A id \in DOMAIN sites : sites[id].host # host

----------------------------------------------------------------------------
(* A token opens one session of one account, if that still exists, and no  *)
(* grant comes of it.                                                      *)
SignIn(t) ==
  /\ t \notin drawn
  /\ drawn' = drawn \cup {t}
  /\ holder' = holder \/ \E id \in DOMAIN accounts : holder' = With(holder, t, id)
  /\ spent \subseteq spent'
  /\ UNCHANGED <<accounts, sites, grants>>

(* Sessions end, by logout or because their time is over; as time passes,  *)
(* grants may begin and end as well.                                       *)
SignOut ==
  /\ \E T \in SUBSET DOMAIN holder : holder' = Without(holder, T)
  /\ UNCHANGED <<accounts, sites, grants, drawn, spent>>

Pass ==
  /\ \E T \in SUBSET DOMAIN holder : holder' = Without(holder, T)
  /\ grants' \subseteq (DOMAIN accounts) \X (DOMAIN sites)
  /\ UNCHANGED <<accounts, sites, drawn, spent>>

(* An account is opened under an id never given away and a name nobody has. *)
(* Only policies that named the id beforehand can give it a grant.         *)
OpenAccount(id) ==
  /\ <<"account", id>> \notin spent
  /\ Unnamed(accounts'[id].name)
  /\ accounts' = With(accounts, id, accounts'[id])
  /\ grants \subseteq grants' /\ grants' \ grants \subseteq {id} \X (DOMAIN sites)
  /\ spent \cup {<<"account", id>>} \subseteq spent'
  /\ UNCHANGED <<sites, holder, drawn>>

ChangeAccount(id) ==
  /\ accounts' = With(accounts, id, accounts'[id])
  /\ accounts'[id].name = accounts[id].name
  /\ UNCHANGED <<sites, grants, holder, drawn, spent>>

(* Closing an account ends its sessions and its grants with it, and nobody  *)
(* else's.                                                                 *)
CloseAccount(id) ==
  /\ accounts' = Without(accounts, {id})
  /\ holder' = Without(holder, {t \in DOMAIN holder : holder[t] = id})
  /\ grants' = {g \in grants : g[1] # id}
  /\ UNCHANGED <<sites, drawn, spent>>

OpenSite(id) ==
  /\ <<"site", id>> \notin spent
  /\ Unhosted(sites'[id].host)
  /\ sites' = With(sites, id, sites'[id])
  /\ grants \subseteq grants' /\ grants' \ grants \subseteq (DOMAIN accounts) \X {id}
  /\ spent \cup {<<"site", id>>} \subseteq spent'
  /\ UNCHANGED <<accounts, holder, drawn>>

ChangeSite(id) ==
  /\ sites'[id].host = sites[id].host \/ Unhosted(sites'[id].host)
  /\ sites' = With(sites, id, sites'[id])
  /\ UNCHANGED <<accounts, grants, holder, drawn, spent>>

CloseSite(id) ==
  /\ sites' = Without(sites, {id})
  /\ grants' = {g \in grants : g[2] # id}
  /\ UNCHANGED <<accounts, holder, drawn, spent>>

(* Groups and policies change: grants come and go, nothing else does.      *)
Decree ==
  /\ grants' \subseteq (DOMAIN accounts) \X (DOMAIN sites)
  /\ spent \subseteq spent'
  /\ UNCHANGED <<accounts, sites, holder, drawn>>

Next ==
  \/ \E t \in Tokens : SignIn(t)
  \/ SignOut \/ Pass \/ Decree
  \/ \E id \in DOMAIN accounts' \ DOMAIN accounts : OpenAccount(id)
  \/ \E id \in DOMAIN accounts \cap DOMAIN accounts' : ChangeAccount(id)
  \/ \E id \in DOMAIN accounts \ DOMAIN accounts' : CloseAccount(id)
  \/ \E id \in DOMAIN sites' \ DOMAIN sites : OpenSite(id)
  \/ \E id \in DOMAIN sites \cap DOMAIN sites' : ChangeSite(id)
  \/ \E id \in DOMAIN sites \ DOMAIN sites' : CloseSite(id)

(* A store may be opened with data in it, sessions included.               *)
Init ==
  /\ DOMAIN holder \subseteq drawn
  /\ \A t \in DOMAIN holder : holder[t] \in DOMAIN accounts
  /\ {"account"} \X (DOMAIN accounts) \subseteq spent
  /\ {"site"} \X (DOMAIN sites) \subseteq spent
  /\ grants \subseteq (DOMAIN accounts) \X (DOMAIN sites)
  /\ \A i, j \in DOMAIN accounts : accounts[i].name = accounts[j].name => i = j
  /\ \A i, j \in DOMAIN sites : sites[i].host = sites[j].host => i = j

Spec == Init /\ [][Next]_vars
=============================================================================

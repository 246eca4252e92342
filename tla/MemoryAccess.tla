---------------------------- MODULE MemoryAccess ----------------------------
(***************************************************************************)
(* The in-memory back end as an implementation of AccessSpec: accounts are *)
(* the users under their folded names, a session counts while it is live,  *)
(* and a grant is what allowedLocked finds among policies and groups.      *)
(***************************************************************************)
EXTENDS MemoryStore

AccountOf(id) == [name   |-> Fold[users[id].name],
                  active |-> users[id].status = "active",
                  admin  |-> users[id].admin]
SiteOf(id)    == [host |-> apps[id].domain, enabled |-> apps[id].enabled]

Accounts == [id \in DOMAIN users |-> AccountOf(id)]
Sites    == [id \in DOMAIN apps |-> SiteOf(id)]
Grants   == {g \in (DOMAIN users) \X (DOMAIN apps) : Allowed(g[1], g[2])}
Holders  == [t \in {s \in DOMAIN sessions : Live(s)} |-> sessions[t].user]
Spent    == {"account", "site"} \X (1..(nextID - 1))

Access == INSTANCE AccessSpec WITH
  accounts <- Accounts, sites <- Sites, grants <- Grants,
  holder <- Holders, drawn <- issued, spent <- Spent

(* The store keeps the promise of the interface: signing in and out moves no *)
(* grant, nothing but a login opens a session and none twice, an account and *)
(* a host are had by one at a time, a deletion takes along the sessions and   *)
(* grants of what it deletes and of nothing else, and ids do not come back.   *)
AccessImplemented == Access!Spec
=============================================================================

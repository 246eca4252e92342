------------------------------ MODULE ConnPool ------------------------------
(***************************************************************************)
(* The connection pool of the MySQL backend (database/sql with             *)
(* SetMaxOpenConns) under requests that list groups and requests that      *)
(* check access.  ListGroups reads its rows from one connection and, for   *)
(* each of them, asks the pool for another to query the members; every     *)
(* other method gives a connection back before it asks again, so that one  *)
(* query stands for them.  No method gives up waiting: none has a context. *)
(***************************************************************************)
EXTENDS Naturals, FiniteSets

CONSTANTS
  Listers, Checkers,   \* goroutines that serve the two kinds of requests
  MaxOpen,             \* connections, a positive number, 20 in the code
  Groups               \* how many rows user_groups has

VARIABLES
  pc,      \* "idle", "waiting", "open", "waitingInner" or "inner"
  rows     \* rows of the outer query still to come

vars    == <<pc, rows>>
Callers == Listers \cup Checkers

Held(r) == CASE pc[r] \in {"idle", "waiting"} -> 0
             [] pc[r] \in {"open", "waitingInner"} -> 1
             [] pc[r] = "inner" -> 2

InUse == Cardinality({<<r, n>> \in Callers \X {1, 2} : n <= Held(r)})
Free  == InUse < MaxOpen

Go(r, from, to) == pc[r] = from /\ pc' = [pc EXCEPT ![r] = to]

Ask(r) == Go(r, "idle", "waiting") /\ UNCHANGED rows

(* The pool hands a connection to one that waits.                           *)
Query(r) ==
  /\ Free
  /\ Go(r, "waiting", "open")
  /\ rows' = [rows EXCEPT ![r] = IF r \in Listers THEN Groups ELSE 0]

NextRow(r) ==
  /\ rows[r] > 0
  /\ Go(r, "open", "waitingInner")
  /\ rows' = [rows EXCEPT ![r] = @ - 1]

GroupMemberIDs(r) == Free /\ Go(r, "waitingInner", "inner") /\ UNCHANGED rows

CloseInner(r) == Go(r, "inner", "open") /\ UNCHANGED rows

(* The last row has been read, or rows.Close: the request is answered.      *)
Close(r) == rows[r] = 0 /\ Go(r, "open", "idle") /\ UNCHANGED rows

Init == pc = [r \in Callers |-> "idle"] /\ rows = [r \in Callers |-> 0]

Serve(r) == NextRow(r) \/ CloseInner(r) \/ Close(r)
Next     == \E r \in Callers : Ask(r) \/ Query(r) \/ GroupMemberIDs(r) \/ Serve(r)

(* A goroutine with its connections runs on.  A freed connection goes to one  *)
(* of those waiting, drawn at random, so none is passed over for ever.       *)
Spec ==
  /\ Init /\ [][Next]_vars
  /\ \A r \in Callers : WF_vars(Serve(r)) /\ SF_vars(Query(r)) /\ SF_vars(GroupMemberIDs(r))

----------------------------------------------------------------------------
(* docs/development-design-requirements.md:769: an authorized user can reach  *)
(* the application; so every check that waits for the database is answered.  *)
ChecksAnswered == \A r \in Checkers : pc[r] = "waiting" ~> pc[r] = "idle"
=============================================================================

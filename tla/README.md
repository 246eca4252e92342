# WeaverZtrust in TLA+

A verification development of the access gateway in `src/`: TLA+ modules for its
components, TLC configurations that check them on small instances, and TLAPS proofs
of what holds for every instance. `PROJECT.json` ties each definition to the lines it
stands for and lists the runs, the mutants, the hazards and the theorems.

## 1. Inventory

A Go service (`internal/`) answers `/auth/check` subrequests of an OpenResty gateway
(`deployments/`), serves an administration page and its API, and keeps its data in
memory or in MySQL behind one interface (`store/backend.go`).

| component | state | operations | interacts with |
|---|---|---|---|
| in-memory store, `store/memory.go` | users, groups, apps, policies, body rules; index maps `userByName`, `appByHost`; `sessions`; three logs; one id counter; one RWMutex | login, logout, session lookup, access check, create/update/delete of each kind, log writes and listings | called by every handler, concurrently |
| MySQL store, `store/mysql.go`, `db/schema.sql` | the same as tables; a pool of 20 connections | the same, as sequences of SQL statements; only a login and the writing of a group with its members are transactions | database, clock |
| HTTP API, `httpapi/server.go` | none of its own; a copy of the caller per request | login, logout, check, audit reports, administration routes | store, gateway, page |
| access audit, `audit/body.go` and the body rules of the stores | body rules, access log | match a rule, redact, truncate, store, view | gateway reports, store |
| gateway, `ztrust_oa.conf` | per request | check subrequest, proxying, audit report on the log phase | `/auth/check`, `/audit/access` |
| administration page, `web/app.js` | the signed-in user and the lists it shows | login, refresh, edits, logout | administration API |
| password hashing, user agent parsing, configuration | none | pure functions | store, API |

What is hard:

* *Concurrency.* `net/http` runs every request in a goroutine. Each method of the
  in-memory store is one critical section, but `CheckAccess` locks twice, and an
  administration request takes three critical sections: session lookup, operation,
  audit entry. Between two of them anything may happen.
* *Two views of one relation.* `userByName`/`users` and `appByHost`/`apps` are kept
  in step by hand, through folding of names, normalization of hosts, changes of host
  and deletions.
* *Dangling references.* Policies, groups and sessions hold bare ids, which nobody
  validates; safety rests on the cascades of the deletions and on ids never being
  used twice.
* *Time.* Sessions and policies expire by comparison with the clock when they are
  used, not by any process that removes them.
* *Failure.* MySQL operations are several statements, some with ignored errors; a
  statement may fail with or without its effect, and the process may stop between two.
  The gateway drops audit reports that take too long.
* *Shared memory.* Answers of the in-memory store hold the member slice of a group, which
  a deletion compacts in place while the answer is being encoded.
* *Limits.* A listing of groups in MySQL asks the pool for a connection while it holds
  one.

What makes each component correct:

* store: the index maps agree with what they index; no session outlives its user, is
  prolonged, or comes back; logins are logged; a right comes only from a policy or a
  membership; every answer of the access check is justified by the store as it was
  during the call;
* administration API: only administrators pass; every operation performed is logged,
  once; the administrator role does not vanish;
* access audit: a body is kept only under a matching rule, redacted before it is cut,
  and the flags of an entry agree with what it holds;
* MySQL store: it does what the in-memory store does, up to the crashes and races of
  its statements;
* gateway: nothing reaches the back end without a positive answer; page: nothing of an
  earlier session shows after a logout.

`PROJECT.json` lists the places where each of these could go wrong ("hazards").

## 2. Plan

| step | module | what | state |
|---|---|---|---|
| 1 | `MemoryStore` | the core: directory, sessions, login log, access check | done |
| 2 | `CheckWindow` | what the access check may conclude across its two critical sections; composes `MemoryStore` with a history | done |
| 3 | `AdminApi` | administration requests in three steps; composes `MemoryStore` with requests and the log | done |
| 4 | `MemoryStoreProofs` | the safety properties of step 1 for every instance | done |
| 5 | `AuditTrail`, `BodyPayload` | body rules, access log, flags, viewing; redaction and truncation as functions, checked over bounded inputs | done |
| 6 | `AccessSpec`, `MemoryAccess` | abstract promise of the back end (who may enter where, without index maps and cascades); `MemoryStore` implements it under a refinement mapping | done |
| 7 | `MySQLStore`, `MySQLAudit`, `ConnPool` | statements, failures, stops and restarts, dropped errors, lost updates, updates answered 404; implements `AccessSpec` too; the pool | done |
| 8 | `GroupListing` | the aliased member slice | done |
| 9 | `AccessProofs`, `AdminApiProofs` | the refinement of step 6, `GrantJustified` and `DenialJustified`, `AuditComplete`, `DirectoryExplained`, `AdminRoleHeld` for one request at a time | done |
| 10 | `OrderProofs`, `GroupListingProofs`, `MySQLProofs`, `BodyPayloadProofs`, `AuditTrailProofs` | every safety property of steps 5, 7 and 8 but the refinement of `MySQLStore` | done |
| 11 | proofs | `MySQLStore` implements `AccessSpec`, statement by statement | next |

Modules to be proved about declare no RECURSIVE operator and keep their parameters as
CONSTANTS with named assumptions; each invariant is a conjunction of named parts.

## 3. The modules

**`MemoryStore`** – one variable per map of `MemoryStore` (Go maps are functions with a
changing domain; `Put` and `Drop` are assignment and `delete`), `nextID` for the counter,
`now` for the clock, `issued` for the tokens drawn so far, and `checks` for the
goroutines inside `CheckAccess`. One action per method, under the method's name;
a failing method changes nothing except that a failed login writes its entry
(`RejectLogin`). `CheckAccess` is `CheckReject` (lookup fails) or `CheckLookup` followed by
`CheckDecide`, with the user's id and role kept in between as the code keeps its copy.
`BootstrapAdmin` is part of `Init`; `BootstrapApp` is `CreateApp` with `enabled = TRUE`.
Abstracted: display texts, back-end addresses and time stamps of records; a hash is the
password it verifies; `Fold` and `NormalizeHost` are constant functions standing for
`strings.ToLower` and `normalizeHost`, which may map several inputs to one and a host to
the empty string; a random token is one never drawn before. When drawing a token fails
(`memory.go:111`), only a time stamp has changed, which the module does not keep.

**`CheckWindow`** – adds `seen`, the facts about a call that held at some instant between
its lookup and its decision. A fact is judged in the state of the store alone, not from
the copy the code works with.

**`AdminApi`** – adds the requests under way, the administration log, and the history of
operations performed. `RequireAdmin`, `Execute` and `AuditAdmin` are the three critical sections;
`Answer` covers every 400, 404 and 409 as well as routes that only read. `MayUpdate` and `MayDelete` are the
guards on the caller's own account. Operations come from `MemoryStore`, conjoined with
what the request does next. `Environment` lets logins, logouts, checks and time go on.

**`AuditTrail`** – extends `AdminApi` with the body rules, the access log, and the history
`shown` of who was sent which entry with a body. `AddAccessLog` is the whole method: the
application by host, the oldest matching rule, `PrepareBodyPayload` for the sides it asks
for, the flags. What a report carries in the other fields is kept as it comes, as the code
does. `AccessAudit` and `AdminAudit` are the two internal routes; `RuleRequest` and `ViewRequest` join
the operations of a request. `ViewRequest` reads the entry; when it is flagged, the request goes on to `Finish`,
which logs the view and only then answers. `ListAccessLogs` is an operator of the state. Paths are
short sequences of symbols, so that "exact", "prefix" and "contains" differ; a body is
a text of `BodyPayload`. Abstracted: names and blanks of rules, times, user agents, the
source address (filtered like the user name).

**`BodyPayload`** – redaction and truncation over texts of symbols: punctuation, letters,
characters of three bytes, digits, a JSON member with a sensitive key, and a sensitive key=value of one
word or of several. Redaction depends on whether the text decodes as JSON (`json`, the length of the value
that `Decode` reads, 0 when it fails): decoded, only that value is kept and its sensitive members
become a key and a mark; otherwise the text is left to the pattern `textSecrets`, which masks key=value up to
the first blank and does not see quoted keys. Then the inner digits of a number that is no part of a word
become masks, and the cut moves down until it is between two characters. The numbers of digits
are constants, small in the runs and 11 and 18 in the code. What follows the first JSON value of a text is
dropped by the code without the truncated mark; `StoredFits` compares with the redacted text.

**`AccessSpec`, `MemoryAccess`** – what a caller of `store.Backend` may rely on, whichever
back end is behind it: accounts, sites, grants, holders of live tokens, what has been
drawn or given away. Each of its steps says what it changes and what may happen to the
rest: opening an account under a fresh id and name, closing one with its sessions and grants,
decreeing grants, signing in and out, and passing of time. It knows neither index maps nor groups,
policies or statements. `MemoryAccess` instantiates it with the mapping `Accounts`,
`Sites`, `Grants`, `Holders`, `Spent`: a grant is a policy in force for the user or one of its groups,
a holder the owner of an unexpired session.

**`MySQLStore`** – `db` holds the tables, `calls` where each request stands: its next statement
(`pc`), what it has read (`got`), what it has done (`did`), whether a statement failed
(`struck`). One action per statement or transaction; `Statement` gives each of them three
outcomes: the effect, a failure without effect, or the effect with its answer lost. The handler's
reaction to an error is what the code does: passed on, dropped (`CleanUp`, `AddAdminLog`), or taken for "no"
(`AllowedToUser`, `AppByDomain`). `Crash` forgets every call and `Restart` runs `BootstrapAdmin`. A transaction is
one step at its commit. `seen` records which facts each call met, for the properties.
The back ends differ where their code does: MySQL's `DeleteApp` removes the body rules of
the application; `UpdateApp` may store the empty host; repeated members are refused by the primary key;
an update that changes no column is answered 404; a creation whose row is gone before it is read back is answered
404 and not logged; an update of a row deleted in between is logged as done; and a row read
and written back in two statements may undo an update in between. Expired sessions are removed by
nobody here; the in-memory store removes one when its token is presented.

**`MySQLAudit`** – extends it with the access audit: a report looks for the application
and the rules, inserts the entry and then each body; a view reads entry and bodies and is
logged. Which rule covers which report is a set of kinds, since `AuditTrail` models
matching. A report may name any rule id and have any flags, as the handler decodes both; when no rule matches they
are written as they came. An entry therefore has a history field, `asked`: the sides that the rule which decided the
report asked for when it was read, none if no rule decided. No guard reads it. `Next` and `Spec` of the MySQL back end are here.

**`Order`** – lists taken from a finite set of numbers: the ids in order, the n highest of
them. Both back ends answer a listing of a log in the order of the ids, at most so many.

**`ConnPool`** – the pool of `database/sql` under listings of groups, which hold a connection
while asking for a second, and requests that use one at a time.

**`GroupListing`** – arrays and slices: a reader has the slice of the group and sends
one element per step; `DeleteUser` holds the lock from `DeleteUser` to `RemoveEnd` and moves one element per
step of `RemoveNext`. Encoder and `removeID` are a data race, which the Go memory model leaves
open; each element is a machine word, read and written whole on 64-bit builds, and the
steps are their interleavings.

**`MC*`** – values of the constants; `MCBodyPayload` also holds the one step that applies
`PrepareBodyPayload` to every input and the properties of its result.

Definitions marked "faulty" are variants of the code with a plausible mistake: a dropped
guard, a missing clean-up, a swapped flag. The specification never uses them; putting one in
the place of the correct definition must make the property it is paired with fail
("mutants" in `PROJECT.json`), which shows that the property depends on the code.

## 4. Runs

| run | bounds | checks | result |
|---|---|---|---|
| `directory` | 3 names, two of them equal when folded; 3 hosts, one normalizing to ""; 3 ids to allocate; 1 tick | `TypeOK`, `UserIndexOK`, `AppIndexOK`, `IdsDistinct`, `IdsNeverReused`, `RightsOnlyFromGrants`, `AccessImplemented` | holds, 109 402 states |
| `sessions` | 2 names, 2 passwords, 2 tokens, 3 ids, lifetime 1 of 3 ticks | `SessionsOwned`, `LoginsLogged`, `SessionsNeverRevived`, `SessionsDieOut` | holds, 95 040 states |
| `check_window` | 1 user, 1 checker, 2 hosts, 2 policies, one of which runs out | `GrantJustified`, `DenialJustified` | holds, 588 074 states |
| `admin_audit` | 2 requests at a time; 2 names, groups and policies, 8 ids | `AuditComplete`, `DirectoryExplained`, `EventuallyLogged` | holds, 344 196 states |
| `audit_trail` | 1 request at a time, 2 administrators, 2 tokens, 7 ids; 1 host, 4 forms of rules, 3 of reports, 2 entries, limits 0, 2 and 3 where 2 is the largest and 1 the default | `TrailOK`, `ViewsAudited`, `ListingsExact`, `DirectoryExplained`, `AdminRoleHeld`, `BodiesOnlyByRule` | holds, 702 675 states |
| `body_payload` | texts of up to 5 of 7 symbols, decoded or not, cut by the reporter or not; limits 1 to 4 and the default 7; numbers of 3 and 4 digits | `StoredRedacted`, `StoredFits` | holds, 422 830 states |
| `mysql` | 3 requests of 2 goroutines out of one of 5 sets, 2 failures or stops, 1 tick, lifetime 1 | `TablesOK`, `GrantsExplained`, `NotFoundExplained`, `NoOrphanMembers`, `LoggedUnlessStruck`, `SessionsHaveLogins`, `BodiesKeptByRule`, `EntriesComplete`, `ListingsLatest`, `UpdatesExplained`, `AccessImplemented` | holds, 768 751 states |
| `group_listing` | 2 readers, members `<<1, 2, 3>>` or `<<2, 2>>`, 2 arrays | `NoStranger`, `ExactUnlessDisturbed`, `RemovalExact` | holds, 278 998 states |
| `pool_exhausted` | 2 listings of 1 group, 1 check, 2 connections | `ChecksAnswered` | violated |
| `mutual_removal` | 2 requests at a time, 2 tokens | `AdminRoleHeld` | violated |
| `secret_stored` | texts of up to 3 of 3 symbols | `NoSecretStored` | violated |
| `reported_flags` | as `audit_trail`, fewer ids | `FlagsTruthful` | violated |

*Bounds.* `MaxID` limits the ids a behaviour allocates and `MaxTime` the ticks. Only
guards of allocating actions mention them (`Room`, `Spare`, `Daylight`). Three ids let a
behaviour create an application, a group and a policy that names both, delete any of
them, and create something again; two hosts that differ and one that is empty give each
case of `UpdateApp`, including a move onto a host another application has. Policies name
ids whether or not they exist, so dangling references, references to things yet to be
created and references of the wrong kind all occur. In `check_window` three ids are an
application, a policy and a login, in any order: the decision depends on one
application and one user, and another would not change it. One policy ends at tick 0, so a
window can straddle its end. With a lifetime of one tick out of three, sessions are used
before, at and after their last instant, and a second login fits. In `mutual_removal`
the ids suffice to create a second administrator, log both in and let both be past `requireAdmin`.
Requests about groups and policies are those of `admin_audit`, about applications those of
`audit_trail`; both have the accounts. In `audit_trail` the ids suffice for two rules and a
report between them, for an application with a rule of its own and a report to its host,
for a rule, a report and a view by an administrator, and for a second administrator that signs in and takes the
role from the first; the forms include a rule for each side, one that is off and one
the handler refuses, and the reports come with and without marks, with and without the bodies they claim. In
`body_payload` five symbols hold a number with a neighbour on either side, or a number of each length behind
a sensitive field, or a JSON value of three symbols with text behind it, and the limits cut each of them in every place. In
`mysql` a behaviour draws its three requests from one of five sets: accounts, groups,
applications, access, audit. Requests of one set touch the same rows, which is where orders matter; three are
enough for two that overlap and a third that meets what they left, or for one that is overtaken twice. Two
failures let a statement fail and its repetition or its clean-up fail as well, or a stop follow a
failure. The seed has an administrator, a user in a group with a policy, an
application and a live session, so that each deletion has something to cascade to. The goroutines are symmetric: no
property names one. In `group_listing` the lists have a first, a middle and a last member to remove and one that
occurs twice, and two arrays let an update come between an answer and the deletion. The pool of two
stands for the twenty of the code.

*Fairness.* `FairSpec` asks that time passes and that a goroutine inside `CheckAccess`
is scheduled again: no lock is held while waiting, so a runnable goroutine proceeds.
`FairApiSpec` asks that a handler that started goes through its steps, for the same reason; whether
`Execute` succeeds or is answered with an error is left open. Nothing obliges a client to
send a request, so nothing is asked of logins, logouts or lookups. Weak fairness suffices
everywhere, since no other action disables a step that a goroutine is about to take.

In `ConnPool` a goroutine that has its connections runs on (weak fairness), and one that waits
is served in the end if connections keep coming free (strong fairness): the pool hands a
freed connection to a waiter drawn at random. Nobody has to ask. `MySQLStore` and `GroupListing` state
no fairness: their properties are about safety.

*What the violated runs show.* (1) `pool_exhausted`: `ListGroups` runs a query per group while its
own rows are open. When as many listings run as there are connections, each holds one and
waits for another, and since no call has a deadline every access check waits for ever too.
With one connection more than listings (`MaxOpen = 3`, 99 states) every check is answered. (2)
`mutual_removal`: the guards "cannot_remove_own_admin_role" and "cannot_delete_self" hold
the role only while requests come one at a time; two administrators can remove each other
at once. (3) `reported_flags`: when no rule matches, the bodies of a report go but the
marks that it has bodies stay, so listings announce bodies that do not exist. The marks err on
one side only: `TrailOK` says that a body is always marked, which is why `ViewsAudited` holds. (4)
`secret_stored`: the document promises that only redacted bodies are kept. A body that looks like JSON and does not decode,
such as one the reporter cut off, falls back to a pattern that does not match a quoted key, and `"password":"x"` is stored as
it came; the rest of `Authorization: Bearer abc` also survives the mask. `StoredRedacted` says what redaction does
achieve: no key=value, no member of a decoded text, no digits of a number.

*What the passing runs concede.* Several properties state the exception the code has. `DenialJustified`: a
user promoted to administrator during a check whose policy is then removed is answered
403 although permitted at every instant, because the role is of the first critical section and the
policies of the second. `UpdatesExplained`: a column an update does not name changes all the same when the row changed between the
update's two statements, and then only back to what it had read: the lost update, which the run does reach.
`NotFoundExplained`: an update of a group or a rule that is there already as asked is answered 404.
`LoggedUnlessStruck`: besides failures, an operation goes unlogged when the row is deleted before it is read
back. `EntriesComplete` and `NoOrphanMembers` hold until something fails, wherever it was (`faults` counts failures of all calls
and stops), and `EntriesComplete` speaks only of entries a rule decided: the flags of the others are the report's.
`LoginsLogged` has no step for a token that cannot be drawn, which leaves no trace but a time stamp.
`ListingsLatest` is about a query that succeeds; one that fails midway yields fewer rows, which is not modelled. `NoStranger`: a disturbed
answer may miss one member and name another twice.

A thing met on the way that no run asserts: the guard of `updateUser` looks at the role
only, so an administrator may set its own status to disabled.

An entry of the administration log is numbered and dated after its operation and apart
from it, so two operations of overlapping requests can appear in the other order;
`AuditComplete` therefore compares the log with the operations as collections.

## 5. Proofs

All theorems are for every value of the constants that satisfies the named assumptions of
the modules: any number of users, hosts, tokens, goroutines, requests, rules, reports, ids and
ticks, texts and lists of any length.

| assumption | says | because |
|---|---|---|
| `NamesAssumption`, `HostsAssumption`, `RequestsAssumption` | `Fold` and `NormalizeHost` are defined on all inputs, the administrator's name and password are among them, forms are records of their type | the code's functions are total, inputs are decoded into those types |
| `CheckersAssumption`, `BoundsAssumption` | a goroutine may check access only where there are tokens and hosts; lifetime and bounds are numbers | types of the constants |
| `ServersAssumption` | there are finitely many requests | goroutines |
| `MembersAssumption` | members are ids above 0 | ids come from counters that begin at 1 |
| `SeedAssumption`, `EntriesAssumption` | the tables a behaviour begins with obey the schema (ids below the counters, unique names and hosts), members have their group, entries their bodies | tables as the program leaves them, see `db/schema.sql` |
| `MixesAssumption`, `ReportsAssumption` | requests of a behaviour are records of the fields their route decodes; a report has a body on a side or not, and any rule id and flags | the handlers decode into these structs |
| `LimitsAssumption`, `AuditAssumption` | the default limit is between 1 and the largest; rules and reports are records of their type | 100 and 500 in the code |
| `PayloadAssumption`, `SizesAssumption` | phone and card numbers have different numbers of digits, at least 1; the default limit is above 0 | 11 and 18 digits, 64 KiB |

`MemoryStoreProofs`, theorems of `Spec`:

* `TypeCorrect`: `TypeOK` is inductive by itself. It has one step per action, and it
  says of every map that its ids lie below the counter, which the other proofs use.
* `UserIndexCorrect`, `AppIndexCorrect`: each index invariant is inductive given `TypeOK`;
  the interesting cases are the deletions and, for applications, `Rehosted`: the old host
  is dropped before the new one is put, so a move onto the own host survives.
* `SessionsAlwaysOwned`: inductive given `TypeOK` and `UserIndexOK`, because a login reads the user through
  the index.
* `SessionsStayDead`: an action property from `TypeOK` alone: a session is written only
  under a token not yet issued, and every session's token was issued.
* `IdsStayRetired` and `IdsAlwaysDistinct`: the lemma `Allocation` says that a step either
  leaves the counter or takes exactly the id it shows. Distinctness is not inductive as it
  stands; `IdInv` adds that all ids, of log entries too, lie below the counter.
* `RightsComeFromGrants`: from `TypeOK` alone, action by action.
* `LoginsAlwaysLogged`: a statement about two cardinalities; `LoginInv` adds that `issued`
  is finite, so that a login adds one to each side.

`AccessProofs`, `AccessRefined`: `Spec` implements `AccessSpec`. The initial state maps to
an initial state; one lemma per method shows that its step maps to one step of `AccessSpec` or a
stutter. The deletions use `TypeOK` (a policy or session that names what is gone is gone), creation and
renaming of hosts use the two index invariants, which say that a name or host missing
from the index is nobody's.

In the same module, `GrantsAlwaysJustified` and `DenialsAlwaysJustified`: neither property is inductive, for an answer
depends on what the call copied. `WindowInv` says of a call about to decide that it has met
every fact of the present and what its copy of the user says; the decision then reads facts
that are already in `seen`, and after it `seen` stays.

`AdminApiProofs`, theorems of `ApiSpec`:

* `AdminRoleAlwaysHeld`, under `OneAtATime` (there is one request at most): `RoleInv` adds
  that the caller between `RequireAdmin` and `Execute` exists and has the role. The guards keep the caller
  in place, and with a single request nobody else can have removed it. `mutual_removal`
  shows that the hypothesis is needed.
* `DirectoryAlwaysExplained`, for any number of requests: `ExecuteDone` reduces the operations to what each adds to
  or takes from a domain; `DirectoryInv` adds that operations are about ids below the
  counter, so what is created now has not been deleted before.
* `AuditAlwaysComplete`, for any finite number of requests: for each entry, the number of times it was performed
  is the number of times it is logged plus the number of requests waiting to log it.
  `Execute` adds one to the first and the last, `AuditAdmin` moves one from the last to the second.

`OrderProofs`: what `InOrder` and `Highest` return for every finite set of numbers. Ranks go
up with the numbers and take every value (an injection between sets of one size), so the
element of rank `i` is well defined and `InOrder` is the set, ascending. `LeastExists`, from well-founded
induction, is what the other modules use in place of induction: the least counterexample
to a claim about numbers has none below it.

`GroupListingProofs`, theorems of `Spec`. Here `TypeOK` says of slices that they lie inside their array.

* `NeverAStranger`: what a reader sent is no longer in the array, so `StrangerInv` speaks of
  what was sent and of what its slice holds now: both were in the group when it was taken. A
  compaction writes only elements of the same array and to places before them.
* `RemovalAlwaysExact` compares the group after a removal with the group before by ranks: an element keeps its
  place among those that stay. `RemovalInv` says, in the middle of a compaction, that the part not yet
  read is as it was and the part read is packed at the front, at the places `Kept` counts.
* `AlwaysExactUnlessDisturbed`: `ExactInv` adds that the slice of an undisturbed reader still holds what
  it has yet to send, and that a removal under way in its array removes nobody.

`MySQLProofs`, theorems of `Spec`, for any number of goroutines, requests and failures. Each rests on `ShapeOK`, the type
invariant of tables and calls: a call at a statement has read what that statement needs.

* `TablesWellFormed`: `TablesInv` adds that unique columns stay unique, that a host stored or about to be
  written is normalized, and that a session, or a login about to open one, is of an id given away.
* `LoginsRecorded`: the property counts; `LoginsInv` says that the entries written since the start are as many as
  the tokens issued since, because the transaction writes both or neither.
* `AbsenceExplained` and `GrantsJustified`: while a call runs every fact of the present is in `seen` (`SeenInv`),
  and `EarnedInv` says what a call must have met to be where it is: one that asks for the application a session
  and, if its copy says so, the role; one that asks for policies an enabled application too.
* `UpdatesKeepTheRest`: an action property from `ShapeOK` and `SeenInv`: each merge starts from the row the call read, so
  a column not named is written as it was read; if the table holds something else, the call has been overtaken.
* `BodiesKept` and `EntriesGetTheirBodies`, for every report, whatever rule it names: `BodiesInv` follows the sides the
  deciding rule asked for from the statement that read it to the entry and its bodies, `CompleteInv` says which bodies
  of an entry a rule decided are still in the hands of a call while nothing has failed.
* `MembersGoWithGroups`: `MembersInv` says that a member row without its group is about to be
  deleted by a call that has deleted the group.
* `ActionsLogged`: `LoggedInv` says of a call that has ended, and in which nothing failed, that what it did is in
  the log, or that the row is gone and the answer was 404; one that reads back has an id given away.
* `ListingsHoldTheLatest`: from `OrderProofs` and the ids being keys.

`BodyPayloadProofs`, theorems of `PayloadSpec`:

* `AlwaysRedacted`. `FieldsRedacted` joins what each symbol becomes; which symbols can be in it is shown for every text by the
  least length at which it would fail, for decoded texts and for those left to the pattern. Masks for phone and card numbers do not disturb
  each other: a number is a whole run of digits, and the two have different lengths (`NumbersApart`), so
  masking the first kind leaves the second as it was (`CardsRemain`). The digits that remain are those outside
  the covered parts, and the cut takes a prefix.
* `StoredAlwaysFits`: of the lengths at which a cut is valid the largest below the limit exists, and the next prefix
  would not fit.

`AuditTrailProofs`, theorems of `AuditSpec`, all from the inductive invariant `TrailInv`:

* `TrailAlwaysOK`: `RulesInv` and `LogsInv` give rules and entries their types, ids below the counter and in
  order. `RequestsInv` says that a request waiting in `Finish` holds an entry under its caller's id.
  `ApplyFacts` is the one fact about writing: the rule that decides exists, is older than the entry,
  asks for what it keeps, and what it keeps is redacted (`PreparedBody`, from `BodyPayloadProofs`).
* `BodiesAlwaysByRule`: the only step that makes the log longer is `AccessAudit`, and `ApplyFacts` names the rule.
* `ViewsAlwaysAudited`: the counts are compared in `ViewsInv`. `Finish` adds one to both. An entry without a mark is sent
  at once, and `LogsInv` says it has no body, so nothing is shown.
* `ListingsAlwaysExact`: the selected places in order (`InOrderFacts`), of which the listing leaves out the first ones;
  since ids ascend, no two entries share one.

Each temporal theorem is the usual combination of initial state, step and consequence by
PTL.

Model-checked only: `SessionsDieOut`, `EventuallyLogged` and `ChecksAnswered` (liveness is out of the
prover's reach), and `AccessImplemented` for the MySQL back end, whose refinement is step 11 of the plan.

## 6. Not modelled

* The gateway, `ztrust_oa.conf`: a configuration of nginx without state of its own. That nothing is
  proxied without a positive answer is what `auth_request` does, outside this code; a report
  it loses is an `AccessAudit` that does not happen, which the models allow.
* The administration page, `web/app.js`: what it shows is its only state, and no property of the
  server rests on it.
* Password hashing (cryptography), user agent parsing (a display heuristic), configuration
  (read once), cookies, headers, JSON and static files (no state).
* In the stores, the listings of users, groups, applications, policies and rules as far as they only
  read; `BootstrapApp`, which is `CreateApp`; display texts and times of creation.
* Of MySQL: deadlocks that InnoDB resolves are statements that fail; gaps in
  `AUTO_INCREMENT`; reads inside the isolation level of a longer transaction, of which the code
  has none. `requireAdmin` in front of a MySQL request is that of `AdminApi`.
* The program's `main` is not in the repository: that `BootstrapAdmin` runs before requests are served is taken from
  its signature and the tests.

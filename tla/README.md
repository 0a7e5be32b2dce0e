# Plystra in TLA+

Plystra is a backend server (Go, PostgreSQL through ent) for multi-tenant
applications: spaces, members, roles and an authorization engine, a plugin
system whose plugins call one another's *capabilities* through the server, and
a generic data store. `cmd/plystrad` serves an HTTP API; every request runs in
its own goroutine, most handlers issue a few SQL statements **outside any
transaction**, two background reconcilers exist in the source, and one cache
lives in the process. What the unit tests, which call one handler at a time,
hardly reach is what happens *between* those statements. This directory models
that: it has a specification of each part that carries a protocol, a
composition of those that share tables, runs that check them with TLC, and
proofs that TLAPS checks.

## 1. Inventory

| Component | State | Operations | Interacts with | Hard because of | Correct when |
|---|---|---|---|---|---|
| Action Gateway execution ledger (`action_executions.go`, `action_execution_reconciler.go`) | table `action_executions`, two unique indexes, audit rows | begin (idempotent), complete (idempotent), list, get; timeout reconciler | plugins' status, permissions, audit | begins and completions race one another and the reconciler; audit rows are separate statements whose errors are dropped | one execution per call, only overdue open rows are timed out, the reconciler's mark is not half overwritten, an acknowledged result stands, everything settles |
| Provider bindings and resolver cache (`capability_provider_bindings.go`, `capability_grants.go:800-880`) | table `capability_provider_bindings`, in-process map with a TTL | upsert, patch (may move a binding), disable, resolve, invalidate | plugin lifecycle, grants | read–modify–write of the epoch, fills that cross an invalidation, identifiers derived from the slot | stale answers are recognisable, invalidation is complete |
| Capability grants (`capability_grants.go`, `capability_grant_reconciler.go`) | table `capability_grants` | issue, reissue, revoke, introspect, outcome receipt; reconciler of missing receipts every 30 s | bindings, resolver, manifests, permissions | a reissue or a receipt crosses the reconciler, an introspection reads two tables, nested grants | revocation is immediate, a rebinding is as long as no update of the binding is lost, one grant per call, lineages are bounded, overdue grants settle |
| App data store (`app_data.go`) | tables `app_data_records`, `app_data_record_revisions`, audit rows | create, update, archive, delete, batches of them, list, search | authorization, models, audit | transactions at READ COMMITTED on a record read before they begin; revision numbers are counts; batches lock rows in the caller's order | gapless revisions, all-or-nothing batches, deleted is deleted, the newest revision is the record |
| Users, sessions and the login limiter (`auth*.go`, `users.go`) | tables `users` and `sessions`, a limiter map in the process | login, refresh, logout; create, patch, disable and restore a user | registration, authorization | refresh racing refresh, logout or a password change; a PATCH and a rehash that write back columns read earlier; window arithmetic | an ended session stays ended; nothing is changed that was not asked, but by an overlap; a lock holds |
| Registration and admin grants (`auth.go`, `admin_grants.go`, `admin_policy.go`) | table `admin_grants`, an advisory lock | register (bootstrap, ordinary, public), create and revoke a grant | users, sessions, the default Space | the lock lives on a connection of its own; the last super administrator is counted before the revocation is written | one bootstrap administrator; the last super grant falls only to an overlap; every registration is answered |
| Authorization engine (`internal/authz`, `authz_loaders.go`) | audit rows | Check, Explain | every handler; reads users, Spaces and nine more tables | twelve queries and no transaction; scopes, groups, Spaces joined in Go | equals a plain reading of the tables; a torn read fails closed; audited before answered |
| Provider governance (`provider_governance.go`) | installations, migration revisions and steps | install, file a revision (replay), review | plugin manifests | identifiers collide, reads go stale, a review looks at no status | a plan that needs a review is held for one, unless it replays a harmless one; what is acknowledged is filed; disabled is disabled |
| Spaces (`spaces.go`) | status of a space | create, patch, disable, restore, activate, fail | registration activates the default one; everything scoped by a space | check and write are separate | status moves as the transition table allows, or by an overlap |
| Provider request contexts (`provider_request_contexts.go`) | one row per context | issue | grants, executions | nothing: one INSERT after checks, and no reader | – |
| Plugins (`plugin_manifest.go`, `plugin_metadata_handlers.go`, `plugin_settings.go`) | plugin rows, declarations, settings | install, enable, disable, uninstall | bindings and their cache, gateway | installation is several statements and no transaction | declarations match the manifest |
| Kernel registry and lifecycle (`internal/kernel`) | modules and their states | register, boot, ready, stop | start-up | sequential | dependencies first, reverse on stop |
| Roles, permissions, groups, members, resources, API keys | rows | CRUD | the authorization engine reads them | each handler changes one row | – |
| Templates, data console, command line, middleware, generated code | – | – | – | – | – |

`PROJECT.json` lists the same components with their sources and status, and
under `hazards` every place where the code is exposed to an order of events
nobody wrote a test for, with the property that watches it or the reason why
none does.

## 2. Modules

| Module | What it is |
|---|---|
| `IdempotentLedger` | abstract: a slot is opened once, for one payload; nothing is withdrawn or reopened |
| `ActionExecution` | the execution ledger; implements `IdempotentLedger` |
| `ProviderBinding` | bindings, plugin lifecycle, resolver and its cache |
| `CapabilityGrant` | grants, their receipts and reconciler, above the binding rows as administrators' stale updates leave them; implements `IdempotentLedger` |
| `VersionedStore` | abstract: a record is the newest version of a growing history, a call adds its versions at once |
| `AppData` | the App Data mutations as concurrent transactions; implements `VersionedStore` |
| `Clock` | the wall clock the handlers of one database read |
| `Sessions` | users, sessions, the limiter and their handlers |
| `Administration` | registration under its advisory lock, admin grants |
| `Spaces` | the life cycle of Spaces |
| `AuthzCheck` | the loaders and the decision of the authorization engine, beside `Entitled`, the plain reading of the tables they are compared with |
| `ProviderGovernance` | installations, migration revisions, reviews |
| `ControlPlane` | the composition of the last five on one clock |
| `MC*` | symmetry sets and, for `AppData` and `ControlPlane`, the calls TLC makes |
| `*Proofs` | the theorems about the module they are named after; `ControlPlaneProofs` also holds those of `Spaces` and `ProviderGovernance`, and that the composition implements its components |

**How the components of the control plane meet.** `ControlPlane` conjoins the
steps of its components and says what each leaves alone. A registration's
commit (`RegistrationCommits`) is one step of three of them, as its transaction
is: the grants of `Administration`, the user and session of `Sessions`, the
default Space of `Spaces`. A check of `AuthzCheck` reads the `user` and `space`
variables the other handlers write. Everything reads `now`. Each component can
be read and proved about alone: its `…Spec` lets its environment do what the
composition does, and `ControlPlaneProofs` shows that it does no more.

**How state and actions correspond to code.** A table is a function from
identifiers to rows (records of the columns that matter) or `NoRow`. A handler
in progress is an element of `task` (`admin`, `resolver`, `sessionTask`,
`adminTask`, …): the name of the
statement it is about to run and the values it holds in local variables, that
is, exactly what it read earlier and will use later. One action is one SQL
statement with the checks around it: `BeginAdmit`/`BeginCreate`/…,
`OutcomeRead`/`OutcomeWrite`, `SweepScan`/`SweepMark`. A unique index is a
guard of the inserting action (`IndexesAdmit`, `CreateConflict`). An update
"by identifier" has no guard on the columns read before; an update with a
WHERE has it as `Markable`. `Abandon` stands for every error return, a client
that goes away, a process that is killed: a handler may stop before any
statement. `map` in `PROJECT.json` gives the lines of each definition, and the
definitions named after what they get wrong (`…WithoutStatusCheck`) are the
mutants: plausible bugs that each property must catch.

**Abstractions common to the ledgers.**

- Space, capability and operation travel together in every key and index and
  are one constant (`Key`, `Op`, `Slot`); principal, resource and input summary
  are one `Payload`.
- Permission, membership, manifest and allowed-caller checks read tables no
  module owns. In `ActionExecution` two of them are variables (`enabled`,
  `allowed`); elsewhere a handler may stop, i.e. the check may fail at any time.
- Audit rows are modelled where something relates them to the ledger
  (`ActionExecution`, `AppData`), left out where nothing reads them.
- Time is a counter; deadlines are compared with the code's own ≤ or <.
- Tokens name rows. That of two racing reissues only the last token is stored
  is listed as a hazard and not modelled.

**Abstractions of single modules.** `CapabilityGrant` has the binding rows by
their identifiers and writes them as the code does, `UpdateOneID` of a row read
earlier: `Rebind(b, op, p, st, seen)` is the write of any administrator's
request that read row `b` when its epoch was `seen`, at any earlier time, and
stores `seen + 1`. Epochs are therefore lost, repeated and turned back, and a
PATCH may move the row to another operation. The requests themselves, with their
reads and the cache, are `ProviderBinding`'s subject; here the resolver may
answer anything the operation was ever actively bound to (`held`), however old.
The identifier-safe form of an idempotency key is taken to be one-to-one; the
reconciler writes the event `missing_<id>`, which is the one value
`MissingReceipt` and is not among the providers' events; a batch is marked in
any order. `ActionExecution`: of `metadata` only the key
`result_unknown_reconciliation` is kept, as the author who wrote it last; the
metadata of a completion overrides the copy of the row's that the completion
read (`MergedReconciliation`), so a provider may write that key itself.
`ProviderBinding`: one process, hence one cache; the TTL is an action that may
remove an entry at any time. `AppData`: `data` stands for the columns a PATCH
may carry, `status` for the one that archive and delete write too; the external
part (visibility at READ COMMITTED, row locks held to the end of the
transaction, the deadlock detector) is marked external in the map.

`Sessions`: an access token and the refresh token minted with it are one pair,
named by the call that minted it; a session is named by the call that opened it;
the Space, Member and UserMember it points at are left out, because nothing here
reads them. `Administration`: levels are super and Space, the permission is `*`;
the advisory lock is PostgreSQL's and external. `AuthzCheck`: the nine tables
beside users and Spaces are one variable, `directory`, that single-row updates
of the administrative API replace (`WriteDirectory`); a group's path, in the
code a dotted string unique in its Space, is the sequence of groups it leads
through (`PathsFit`), and a scope may be any text, as no handler validates it. A
check is one whose context the engine loads: left out are a target the caller
brings along, an inline context (actor, target and grants are the caller's, only
the registry is queried) and a preloaded one (`loadAuthorizationContext`,
`internal/authz/engine.go:140-155`). `ProviderGovernance`: the fields by which a
replay is compared are one value, the bundle; `risky` says that a step of the
plan needs a review, `manual` that the caller asked for one. The calls of these
modules are constants, each made at most once: what a call is asked is
`…Request`, how far it has come `…Task`. In `raced`, `overtaken`, `overlaps`,
`ended`, `passed` and `cleared`, and in `revoked`, `latest`, `held`,
`disturbed`, `late` and `stale` of `CapabilityGrant`, a module keeps history:
that another call has written the row since this one read it, what a call has
undertaken to end, what was true when it began. Actions read history in two
places, and only to say which stale reads are possible: `Rebind` (`latest`) and
`Resolvable` (`held`).

## 3. Runs

Runs take their values from the `.cfg`, mostly model values; `app_data` and the
control plane's runs take their calls from definitions of their MC module.

| Run | Configuration | What it shows |
|---|---|---|
| `action_execution` | 2 rows, 2 requests, 2 providers, 1 executor, 1 key, clock to 2 | two racing begins for *different* providers under one key, both unique indexes, replay and conflict; completion against reconciler; audit; refinement of `IdempotentLedger` |
| `action_execution_result` (violation) | 1 row, 2 requests | two completions that both read the running row are both acknowledged; one result is lost |
| `action_execution_settles` (violation) | 1 row, 1 request, fairness | an execution nobody reports stays running: nothing runs the reconciler |
| `provider_binding` | 1 slot, 2 providers, 2 administrators, 1 resolver, epochs to 3 | invalidation is complete; epochs tell stale answers as long as no update is lost |
| `provider_binding_move` (violation) | 2 slots, moves | after a move the old slot cannot be bound |
| `capability_grant` | 2 grants, 2 plugins, 2 requests of any kind, stale writes of the binding with epochs to 2, clock to 1 | one grant per call; revocation, and rebinding where no update was lost, fail closed; missing outcomes; reconciler; refinement of `IdempotentLedger` |
| `capability_grant_rebind` (violation) | 1 grant, 1 request | concurrent rebinds write one epoch again: a replaced provider and epoch come back, and an introspection begun after the replacement answers active |
| `capability_grant_settles` | 3 nested grants, depth limit 2, 1 request, fairness | lineage limit (three grants are what it takes to exceed 2) and liveness |
| `capability_grant_receipt` (violation) | 1 grant, 2 events, 2 requests | two receipts are both acknowledged; the second replaces the first |
| `app_data` | 2 records, 2 calls at once out of 9 kinds (batches in opposite record orders among them), no new call on a record with 3 revisions | fairness; numbering, audit, PATCH, delete, refinement of `VersionedStore`, and that every transaction ends, database deadlocks included |
| `control_plane` | 26 workloads (`Instance` in `MCControlPlane`) of up to five calls each, with a clock of up to 5, fairness of registrations; 53,646 distinct states | eight invariants and six temporal properties of five components: ended sessions, unasked changes, limiter locks, bootstrap and last administrators, exactness and fail-closed reads of the authorization check, status moves, plans held for reviews, replays, and that every registration is answered |
| `space_activation` (violation) | the same workloads | disable and restore make a provisioning or failed Space active |

**Why the bounds are enough.** Every race in this code is between two writers of
one row, or a writer and a reader, or a handler and the reconciler, and each
involves at most two statements of each; two handlers and the reconciler cover
all of them. Two rows are needed for the unique indexes and for the order of a
batch, three for the lineage limit. Epochs to 3 allow two rebinds after the
creation; in the grant runs, where a stale write may bring any earlier epoch
plus one, epochs to 2 already let a replaced binding come back. What
`capability_grant` does without to be small enough is left to the proofs, which
know no bounds: bindings that are disabled or moved to another operation, and
outcomes that use a grant up (its receipts are failures, the ones that leave a
grant active). The clock needs one tick to a deadline and, where "still overdue"
differs from "just overdue", one more. With at most one row per key the bound on
identifiers ends a behaviour only by refusing further inserts. `control_plane`
chooses its calls by hand instead of enumerating all: each workload of
`Instance` is one race the code is exposed to (a password change, a logout and
two refreshes on one session; two super administrators who revoke each other; a
check among three writes of what it reads), with as many calls as the race has
actors and one bystander, and a clock that runs as far as the window, the lock
or the expiry in question. Checks that no write disturbs cover each scope, a
foreign Space, an unregistered action and a missing Member.

`CHECK_DEADLOCK FALSE` is set for `AppData`, where no more calls arrive when all
records have reached `MaxRevision`, and for the control plane, where each call
of a workload is made once and the clock ends. A *database* deadlock is a state
`DeadlockVictim` leaves, and `CallsFinish` checks that it does; that a
registration does not wait for ever for the advisory lock is
`RegistrationsAnswered`.

**Fairness.** `ActionExecution`: requests that are accepted are served (a
goroutine runs) and time passes; the reconciler gets *none*, because only tests
call `ReconcileActionExecutions`. `CapabilityGrant`: weak fairness of the pass
(`startCapabilityGrantReconciler` runs one every 30 seconds unless
`PLYSTRA_CAPABILITY_GRANT_RECONCILER_ENABLED` turns it off; the run assumes the
default) and strong fairness of the update of each row, which says that the
database does not refuse one particular row for ever. `AppData`: weak fairness
of a handler's statements, strong of the writes, because PostgreSQL queues the
waiters of a row lock, and weak of the deadlock detector. `ControlPlane`: weak
fairness of the steps of each registration: its goroutine runs, and PostgreSQL
hands a free advisory lock to a waiter; nothing is assumed of other calls, of
the lock's connection or of time.

## 4. Findings

`PROJECT.json` gives the quotations; each of the first six is a run that must
fail.

1. `AcknowledgedResultStands` – `completeActionExecution` updates by identifier
   after a check on an earlier read: two providers' results are both answered
   200 and the later write wins, although the code means to answer 409.
2. `EveryExecutionSettles` – `ReconcileActionExecutions` is never scheduled, so
   the required `result_unknown` reconciliation does not happen.
3. `FailsClosed` – concurrent rebinds write the same `binding_epoch`, or an
   earlier one again: the provider and epoch of a replaced binding come back, and
   a grant issued for them is introspected as active although the introspection
   began after its operation was bound anew.
4. `UnboundSlotIsBindable` – a moved binding keeps the identifier of its old
   slot, which can then never be bound.
5. `ReceiptStands` – the same lost update for outcome receipts of grants.
6. `OnlyProvisioningActivates` – disable suspends a Space whatever its status,
   restore activates any suspended or disabled one: a Space becomes active
   without the provisioning the API document calls the only way.

The others came up in translating the handlers. The passing runs contain them,
and the properties named say what remains true beside them:

7. Two super administrators can revoke each other and leave none, and the count
   takes in expired grants (`LastSuperFallsOnlyToOverlap`).
8. An error of the registry query is answered as the decision deny
   (`UndisturbedCheckIsExact` excludes it).
9. A PATCH of a user, and a login's rehash, write back columns that another
   call has changed, an old password or status included
   (`UnaskedChangeNeedsOverlap`).
10. Logout ignores the error of its update, and does not find a session whose
    tokens a refresh has just replaced (`EndedSessionsStayEnded` speaks of
    sessions it did find).
11. A plugin version without a data plane disables its provider installation,
    and no later version enables it (`DisabledInstallationStays`).
12. A replay of a migration plan compares neither the steps nor the wish for a
    manual review: a plan that needs a review is answered 200 over a `planned`
    revision of its key and bundle that was filed with harmless steps
    (`RiskyPlansAreHeld` says that nothing else lets a plan pass without any
    review of its revision).

The passing runs state what remains true in each case: the ledger is never
ambiguous (`KeyNamesOneExecution`), the reconciler's conditional update spares
results (`SweepSparesSettled`, `SweepSparesReceipts`), stale answers are
recognised as long as no update is lost (`StaleIsDetectableIfSerial`), and so are
stale grants, while a revocation is immediate whatever is lost
(`FailsClosedIfSerial`); a plan that needs a review is held unless it replays a
harmless one (`RiskyPlansAreHeld`; a review given before the replay counts, as
it does in the code).

## 5. Proofs

The theorems hold for every size of the constants' sets and every value of the
limits, from the named assumptions on each module's constants only (the binding
theorems take `~Moves` as a hypothesis of their own). In the modules whose calls
are constants they hold for every set of calls and every request in them.
Every safety property a passing run checks, and every refinement of an abstract
specification, is among them.

- `ActionExecutionProofs`: `TypeCorrect`, `BeginIsIdempotent`,
  `MarkIsTruthful`, `AuditIsTruthful`, `SweepIsConditional`, and
  `LedgerIsIdempotent`, the refinement of `IdempotentLedger`, from whose steps
  `SlotsAreUnambiguous` and `NothingIsWithdrawn` follow. Its `IInv` adds
  to the type what lets a step that runs on old reads be judged:
  `HeldRowsExist` and `HeldRowsMatch` (a request in flight names a row that
  exists and still says what the request read of it), `IndexesHold` (the two
  unique indexes), `AnswersMatch` (an answered begin names its execution) and
  `SweepConsistent` (a pass works with a time that has come and audits a row it
  has marked). The lemma that no step withdraws a row or changes whom it was
  begun for (`RowsEndure`) carries each conjunct over every action.
- `ProviderBindingProofs`: `TypeCorrect` without conditions; `CacheIsCoherent`
  and `EpochsTellStaleAnswers` under `~Moves`. Then a row stays in the slot its
  identifier names (`StaysHome`, `UpdatesStayHome`), answers exist only for
  slots with a row (`AnswersOfRows`), and a resolver nobody has overtaken holds
  what the table says (`FreshUnlessOvertaken`). With moves the first of these
  is false, which is what `provider_binding_move` shows.
- `CapabilityGrantProofs`: `TypeCorrect`, `RevocationFailsClosed`,
  `MissingIsFinal`, `SweepIsConditional`, `LedgerIsIdempotent` and its two
  consequences, `LineageIsFounded`, `LineageIsBounded`. `IInv` is the
  type with `HeldRowsExist`, `IndexesHold`, `RevokedAreMarked` (no write clears
  `revoked_at`), `NoneIsLate` (the read of a request stops the one that comes
  after a revocation or a declaration), `MissingIsInactive`, `SweepConsistent`,
  and, for the operations whose bindings nobody has disturbed, `BindingsAtHome`,
  `EpochsBehind` (neither a grant nor an answer is ahead of the binding) and
  `StaleRemain`. `FailsClosedIfSerial` alone is not inductive: it speaks of
  introspections that have found the binding active, and needs `StaleRemain` for
  those that have read only the grant, which needs `EpochsBehind`: where no
  update was lost, each write raises the epoch above every grant's, so a grant
  that is stale once stays so. Without that condition it is false, which
  `capability_grant_rebind` shows; a *revoked* grant needs no such condition.
  `MissingIsFinal` is about steps: a declaration is overwritten, and the grant
  made active again, by nothing but a receipt whose request had read the row
  before it was marked. For the lineage: a grant's depth is a recursion over rows
  that requests of different callers have written. `LineageInv` says that its
  equation has exactly one solution, which stays within `MaxDepth`, and that
  every issue past its check of the parent holds a parent that leaves room. An
  insert extends the solution by a row that is nobody's parent yet, and no other
  step changes a parent, so the proof never goes down a chain.
- `SessionsProofs`: `SessionsTypeCorrect`, `EndedIsFinal`,
  `UnaskedChangeIsOverlap`, `LocksHold`. `IInv` adds to the type
  `EndingIsUnderWay` (what a password change has undertaken to end is ended or
  will be found by the UPDATE it has still to make: the sessions are those of a
  user, and no refresh moves a session to another user or clears its
  revocation), `UnracedRowsAreFresh` (a call nobody has overtaken holds the row
  as it is, so what it writes back changes nothing) and `LocksKnowWhoPassed` (a
  lock in force knows every login that is past the limiter).
- `AdministrationProofs`: `AdministrationTypeCorrect`, `FirstAdminIsUnique`,
  `LastSuperNeedsOverlap`, from `RegistrationsExclude` (a registration in
  progress holds the lock unless a connection was lost), `BootstrapIsFirst` and
  `AnotherSuperStays` (a revocation that has counted and was not overtaken
  leaves another super grant).
- `AuthzCheckProofs`: `UndisturbedChecksAreExact`, `TornReadsFailClosed`,
  `AuditComesFirst`. First the decision alone: what the twelve queries find in
  the tables of one moment decides as those tables entitle the actor
  (`OutcomeIsEntitlement`, over which bindings are candidates and which groups
  are on a path). Then one write among the queries (`TornReadFailsClosed`): a
  table that is read by one query shows the write or does not, so the rows add
  up to one moment, before or after. Only groups are read twice, as the target's
  group and as the anchors of scoped bindings; paths and identifiers never
  change, and an updated group that is both has to be in the Space in both
  readings for the check to allow, so nothing the decision tells apart has
  changed (`TornInGroups`). The invariant `CheckHolds` carries this from query
  to query: some split of the queries and some earlier tables explain what has
  been read, and time only takes entitlement away (`EntitlementEnds`). A check
  that two or more writes run into is promised nothing but its audit row.
- `ControlPlaneProofs`: for Spaces `StatusMovesAreExplained` from
  `DecisionsStand`; for governance `PlansAreHeld`, `PlansAreFiled`,
  `DisabledIsFinal`. `PlansAreHeld` rests on `StatusesAreExplained`: the status
  of a filed revision is `review_required`, or that of a review that was
  answered, or `planned` because a call was acknowledged that filed it with
  harmless steps; what an acknowledged replay finds is then explained too,
  since `PlansAreFiled` gives it a revision of its own bundle. `DisabledIsFinal`
  rests on `InstallsReadFresh`.
  `ImplementsAdministration`, `ImplementsSessions`,
  `ImplementsSpaces`, `ImplementsGovernance` and `ImplementsAuthz` show that a
  behaviour of the composition is a behaviour of each component, so that what
  was proved of a component alone holds in the composition: `TypeCorrect`,
  `ControlPlaneIsSafe`
  and `ControlPlaneOverlaps` collect it.
- `AppDataProofs`: `AppDataTypeCorrect`, `RevisionsAreConsecutive`,
  `RevisionsAreAudited`, `PatchKeepsTheRest`, `DeletedIsFinal`,
  `HistoriesOnlyGrow`, and `StoreIsVersioned`, the refinement of
  `VersionedStore`. The invariant
  `DInv` says of every transaction in progress and every record how what the
  transaction has written and filed continues what is committed
  (`RecordFits`): its revisions follow the committed ones without a gap, each
  has its audit row but the one whose audit is the next statement, the newest is
  the row, and a write over a deleted row keeps it deleted, with its data unless
  the reload that is about to come will not find the row and roll back
  (`KeepsDeleted`). Commits of others do not disturb it because a transaction
  with a revision of a record holds its row lock (`WritersExclude`), so what
  another transaction commits is of records this one has not written; that is
  why a number that is only a count never collides. The refinement needs
  `Traced` (`TransactionsServeTheirCalls`): a transaction in progress stands at
  some operation of one call, its revisions are those of the operations before
  it, each numbered by how often the call has come to that record, and the rest
  is still to do. A commit then applies the whole call in order and every other
  step leaves the store alone (`OnlyCommitsCommit`). The numbers are
  cardinalities (`AskedCounts`), so no induction over a call is needed.

TLC alone checks the three liveness properties `OverdueGrantsSettle`,
`CallsFinish` and `RegistrationsAnswered`: fairness and ENABLED are outside
TLAPS. The invariants they lean on are proved (what a sweep holds, who can hold
a record's lock, that a registration holds the advisory lock). The properties of
the violation runs are false of the code; where a weaker one holds, it has a
theorem (`EpochsTellStaleAnswers`, `RevocationFailsClosed`,
`StatusMovesAreExplained`, `SweepIsConditional`).

## 6. Not modelled

- **Provider request contexts.** One handler that inserts one row after checks
  that belong to other components. No code reads, updates or revokes a row, so
  there is no later step for anything to interleave with.
- **Kernel registry and lifecycle.** One goroutine boots the modules in the
  order of their dependencies before the server serves and stops them after it:
  a depth-first search and a loop, with nothing beside them.
- **Creation and deletion of members, roles, permissions, groups, resources;
  API keys; plugin settings; models of App Data.** Handlers that change one row
  in one statement. Where a modelled component reads such a row, the row is in
  that component's state and the update an action (`WriteDirectory` for checks)
  or the check may go either way at any time (grants, executions, App Data).
- **Installing a plugin's declarations.** A sequence of upserts that a repeated
  install completes; the provider installation that is part of it is modelled,
  with statements that fail.
- **Several processes.** One server process is modelled. The resolver cache and
  the login limiter live in each process: with several, a lock counts per
  process, and a stale answer is recognised by its epoch, as
  `StaleIsDetectableIfSerial` says.
- **Children of a revoked grant.** They stay active: a child is compared with
  its parent only when it is issued, and no property claims more.
- **Checks that bring their context.** A target, an inline context or a preloaded
  one (`internal/authz/engine.go:141-150`, `context_mode.go`). An inline context
  is computed with as it comes, without the actor's rows; a preloaded one is what
  the handler has just read with the same loaders for a second decision with an
  audit row of its own (`internal/api/authz_handlers.go:233-255`).
- **Explain, `switch-member`, listings, searches, `/me`.** They read, or point a
  live session at another Member.
- **Templates, the data console, start-up, middleware, the command line, the
  OpenAPI document.** Input, output and wording.
- **`ent/`.** About 150,000 of the repository's 178,000 lines are the client ent
  generates from the schemas. What matters of it, which columns a query selects
  and an update sets, and which indexes and hooks a schema declares, is in the
  actions that use it and mapped to the handlers and schemas; the share of lines
  `map` covers is small for that reason.

--------------------------- MODULE CapabilityGrant ---------------------------
(***************************************************************************)
(* The ledger of mediated capability grants: the table capability_grants,  *)
(* the handlers that issue, revoke and introspect a grant and that record  *)
(* its outcome, and the reconciler that declares an outcome missing.       *)
(*                                                                         *)
(* As in ActionExecution a handler is a sequence of steps, one for each    *)
(* SQL statement that decides or writes, and the steps of all handlers and *)
(* of the reconciler interleave.  The bindings are ProviderBinding's, seen *)
(* from here: any number of administrators' requests may have read a row   *)
(* at any earlier time and write it by identifier now, with the epoch they *)
(* read plus one, and the resolver may answer, from its cache or late,     *)
(* with anything the operation was ever actively bound to.                 *)
(*                                                                         *)
(* The checks of permissions, principals, plugin states, manifests and     *)
(* allowed callers read other tables and may turn out either way at any    *)
(* time: here a handler may simply stop.  Tokens name rows and are left    *)
(* out, like the audit rows, which nothing here reads.                     *)
(***************************************************************************)
EXTENDS Integers, FiniteSets

CONSTANTS
  Id,             \* identifiers of ledger rows (newEntityID("grt")); bounds the rows
  Plugin,         \* the plugins: callers and providers
  Op,             \* (space, capability, operation): what a binding is for
  Key,            \* idempotency keys
  Payload,        \* (principal, resource, input_summary)
  Event,          \* outcome_event_ids the providers choose
  ReportStatus,   \* the outcome statuses the modelled providers report
  BindStatus,     \* the statuses the modelled administrators give a binding
  Ttl,            \* the times to live a grant can get, in ticks
  Nested,         \* whether a request may name a parent grant
  Reentrant,      \* call_graph.reentrant of the operations
  MaxDepth,       \* call_graph.max_depth of the operations
  Handler,        \* concurrently served HTTP requests
  Limit,          \* batch limit of one reconciler pass
  MaxEpoch,       \* bound of the binding epochs
  MaxTime         \* bound of the clock

OutcomeStatus == {"succeeded", "failed", "result_unknown", "missing"}

NoParent == "no parent_grant_id"
NoReceipt == "no outcome"
MissingReceipt == "missing_ and the row's identifier"

ASSUME ConstantsAssumption ==
  /\ ReportStatus \subseteq OutcomeStatus
  /\ BindStatus \subseteq {"active", "disabled"}
  /\ Ttl \subseteq Nat \ {0}
  /\ Nested \in BOOLEAN /\ Reentrant \in BOOLEAN
  /\ MaxDepth \in Nat \ {0} /\ Limit \in Nat \ {0}
  /\ MaxEpoch \in Nat \ {0} /\ MaxTime \in Nat
  /\ NoParent \notin Id
  /\ {NoReceipt, MissingReceipt} \cap Event = {}

Parent == IF Nested THEN Id \cup {NoParent} ELSE {NoParent}

Request == [caller : Plugin, op : Op, key : Key, payload : Payload, parent : Parent]

(* What resolveCapabilityProvider answers. *)
Answer == [provider : Plugin, epoch : Nat \ {0}]

Row ==
  [caller : Plugin, op : Op, key : Key, payload : Payload, parent : Parent,
   provider : Plugin, epoch : Nat \ {0},
   status : {"active", "revoked", "used", "expired"},
   outcome : {"pending"} \cup OutcomeStatus,
   receipt : Event \cup {NoReceipt, MissingReceipt},   \* metadata.outcome.outcome_event_id
   expiresAt : Nat, dueAt : Nat,                        \* dueAt: expected_outcome_by
   revokedAt : BOOLEAN]                                 \* whether it is set

NoRow == [status |-> "absent"]

Idle == [step |-> "idle"]

IssueTask == [step : {"lookup", "create"}, req : Request, answer : Answer]
ReissueTask == [step : {"reissue"}, id : Id, at : Nat]
RevokeTask == [step : {"revoke"}, id : Id]
IntrospectTask == [step : {"introspect", "vouch"}, id : Id, late : BOOLEAN, stale : BOOLEAN]
OutcomeTask == [step : {"outcome"}, id : Id, outcome : OutcomeStatus, event : Event,
                late : BOOLEAN]

(* What a handler still has to do, with what it has read so far.  late and
   stale are history: the request began when the grant was already revoked
   (for an outcome: already declared missing), and when its binding was
   already another one. *)
Task == {Idle} \cup IssueTask \cup ReissueTask \cup RevokeTask \cup IntrospectTask
        \cup OutcomeTask

(* A reconciler pass, with the rows its scan returned. *)
Sweep == {Idle} \cup [step : {"mark"}, at : Nat, batch : SUBSET Id]

Binding == [op : Op, provider : Plugin, epoch : Nat \ {0}, status : {"active", "disabled"}]
Unbound == [status |-> "absent"]

VARIABLES
  grant,      \* the rows of capability_grants
  binding,    \* the rows of capability_provider_bindings, by the operation they were made for
  now,        \* the clock
  task,       \* what each handler is doing
  sweep,      \* the reconciler
  revoked,    \* history: the grants whose revocation has been written
  latest,     \* history: the highest epoch of each binding row (it had all up to it)
  held,       \* history: what each operation was ever actively bound to
  disturbed   \* history: the operations a binding was moved from or to, or was
              \* written for over an update that the writer had not read

bindings == <<binding, latest, held, disturbed>>
vars == <<grant, binding, now, task, sweep, revoked, latest, held, disturbed>>

Rows == { i \in Id : grant[i] # NoRow }

Init ==
  /\ grant = [i \in Id |-> NoRow]
  /\ binding = [op \in Op |-> Unbound]
  /\ now = 0
  /\ task = [h \in Handler |-> Idle]
  /\ sweep = Idle
  /\ revoked = {}
  /\ latest = [op \in Op |-> 0]
  /\ held = [op \in Op |-> {}]
  /\ disturbed = {}

Finish(h) == task' = [task EXCEPT ![h] = Idle]

-----------------------------------------------------------------------------
(* Issuing: POST /api/v1/capability-grants.                                *)

(* What resolveCapabilityProvider may answer: the operation's active binding as
   the table had it when this request, or the one that filled the cache, read
   it.  ProviderBinding has the cache itself: nothing bounds how late a fill is. *)
Resolvable(op, x) == x \in held[op]

(* parentGrantActive *)
ParentActive(row) ==
  row.status = "active" /\ ~row.revokedAt /\ row.expiresAt > now

(* capabilityGrantLineageDepth: a function of the rows the table has.  (That it
   meets neither a missing parent nor a cycle is the theorem LineageIsFounded.) *)
LineageDepth[i \in Rows] ==
  IF grant[i].parent = NoParent THEN 1 ELSE 1 + LineageDepth[grant[i].parent]

(* A mutant of CallGraphAllows: the new grant itself is not counted. *)
CallGraphAllowsOneMore(req, x) ==
  req.parent # NoParent =>
    /\ req.parent \in Rows
    /\ ParentActive(grant[req.parent])
    /\ grant[req.parent].provider = req.caller
    /\ Reentrant \/ grant[req.parent].provider # x.provider
    /\ LineageDepth[req.parent] <= MaxDepth

(* validateCapabilityCallGraph *)
CallGraphAllows(req, x) ==
  req.parent # NoParent =>
    /\ req.parent \in Rows
    /\ ParentActive(grant[req.parent])
    /\ grant[req.parent].provider = req.caller
    /\ Reentrant \/ grant[req.parent].provider # x.provider
    /\ LineageDepth[req.parent] + 1 <= MaxDepth

IssueAdmit(h, req, x) ==
  /\ task[h] = Idle
  /\ Resolvable(req.op, x)
  /\ CallGraphAllows(req, x)
  /\ task' = [task EXCEPT ![h] = [step |-> "lookup", req |-> req, answer |-> x]]
  /\ UNCHANGED <<grant, bindings, now, sweep, revoked>>

(* The lookup's predicate, and the first unique index.  Not the payload. *)
SameCall(row, req) ==
  row.caller = req.caller /\ row.op = req.op /\ row.key = req.key

(* capabilityGrantReissuable *)
Reissuable(row, x) ==
  /\ row.status = "active" /\ row.outcome = "pending"
  /\ ~row.revokedAt /\ row.expiresAt > now
  /\ row.provider = x.provider /\ row.epoch = x.epoch

IssueReissuable(h) ==
  /\ task[h].step = "lookup"
  /\ \E i \in Rows :
       /\ SameCall(grant[i], task[h].req)
       /\ Reissuable(grant[i], task[h].answer)
       /\ task' = [task EXCEPT ![h] = [step |-> "reissue", id |-> i, at |-> now]]
  /\ UNCHANGED <<grant, bindings, now, sweep, revoked>>

(* 409: the call has a grant that cannot be reissued. *)
IssueDenied(h) ==
  /\ task[h].step = "lookup"
  /\ \E i \in Rows : /\ SameCall(grant[i], task[h].req)
                     /\ ~Reissuable(grant[i], task[h].answer)
  /\ Finish(h)
  /\ UNCHANGED <<grant, bindings, now, sweep, revoked>>

IssueAbsent(h) ==
  /\ task[h].step = "lookup"
  /\ \A i \in Rows : ~SameCall(grant[i], task[h].req)
  /\ task' = [task EXCEPT ![h].step = "create"]
  /\ UNCHANGED <<grant, bindings, now, sweep, revoked>>

ExpiresAt(at, ttl) == at + ttl
DueAt(at, ttl) == at + ttl + ttl \div 2

(* A mutant of ReissuedRow: the row is activated again. *)
ReissuedRowActivated(row, at, ttl) ==
  [row EXCEPT !.expiresAt = ExpiresAt(at, ttl), !.dueAt = DueAt(at, ttl),
              !.status = "active"]

ReissuedRow(row, at, ttl) ==
  [row EXCEPT !.expiresAt = ExpiresAt(at, ttl), !.dueAt = DueAt(at, ttl)]

(* UpdateOneID(existing.ID): no predicate on what the row is by now. *)
Reissue(h) ==
  /\ task[h].step = "reissue"
  /\ \E ttl \in Ttl :
       grant' = [grant EXCEPT ![task[h].id] = ReissuedRow(@, task[h].at, ttl)]
  /\ Finish(h)
  /\ UNCHANGED <<bindings, now, sweep, revoked>>

(* What the unique indexes refuse to hold twice: the call, and the target
   idempotency key, which is made of the provider, the operation and the key. *)
Collides(row, req, provider) ==
  \/ SameCall(row, req)
  \/ row.provider = provider /\ row.op = req.op /\ row.key = req.key

(* A mutant of IndexesAdmit: a table without the caller's unique index. *)
IndexesAdmitWithoutCallerIndex(req, provider) ==
  \A i \in Rows : ~(/\ grant[i].provider = provider
                    /\ grant[i].op = req.op
                    /\ grant[i].key = req.key)

IndexesAdmit(req, provider) ==
  \A i \in Rows : ~Collides(grant[i], req, provider)

NewRow(req, x, ttl) ==
  [caller |-> req.caller, op |-> req.op, key |-> req.key, payload |-> req.payload,
   parent |-> req.parent, provider |-> x.provider, epoch |-> x.epoch,
   status |-> "active", outcome |-> "pending", receipt |-> NoReceipt,
   expiresAt |-> ExpiresAt(now, ttl), dueAt |-> DueAt(now, ttl), revokedAt |-> FALSE]

IssueCreate(h) ==
  /\ task[h].step = "create"
  /\ IndexesAdmit(task[h].req, task[h].answer.provider)
  /\ \E i \in Id \ Rows, ttl \in Ttl :
       grant' = [grant EXCEPT ![i] = NewRow(task[h].req, task[h].answer, ttl)]
  /\ Finish(h)
  /\ UNCHANGED <<bindings, now, sweep, revoked>>

-----------------------------------------------------------------------------
(* Revoking: POST /api/v1/capability-grants/{id}/revoke.                   *)

(* (A grant that is revoked already is answered with, and nothing changes.) *)
RevokeRead(h, i) ==
  /\ task[h] = Idle
  /\ i \in Rows
  /\ ~(grant[i].status = "revoked" /\ grant[i].revokedAt)
  /\ task' = [task EXCEPT ![h] = [step |-> "revoke", id |-> i]]
  /\ UNCHANGED <<grant, bindings, now, sweep, revoked>>

RevokedRow(row) == [row EXCEPT !.status = "revoked", !.revokedAt = TRUE]

RevokeWrite(h) ==
  /\ task[h].step = "revoke"
  /\ grant' = [grant EXCEPT ![task[h].id] = RevokedRow(@)]
  /\ revoked' = revoked \cup {task[h].id}
  /\ Finish(h)
  /\ UNCHANGED <<bindings, now, sweep>>

-----------------------------------------------------------------------------
(* Introspecting: POST /api/v1/grants/introspect.                          *)

(* A mutant of GrantActive: the status alone says whether a grant is revoked. *)
GrantActiveByStatus(row) == row.status = "active" /\ row.expiresAt > now

(* capabilityGrantActive, of a provider that asks about its own grant *)
GrantActive(row) == ~row.revokedAt /\ row.status = "active" /\ row.expiresAt > now

Homes == { b \in Op : binding[b] # Unbound }

(* The rows the unique index (space, capability, operation) would find. *)
BoundTo(op) == { b \in Homes : binding[b].op = op }

(* capabilityGrantBindingActive *)
BindingActive(row) ==
  \E b \in BoundTo(row.op) : /\ binding[b].status = "active"
                             /\ binding[b].provider = row.provider
                             /\ binding[b].epoch = row.epoch

(* The row is read and is active; the binding is looked up later.  (Not
   active: the answer says so, and nothing changes.) *)
IntrospectRead(h, i) ==
  /\ task[h] = Idle
  /\ i \in Rows
  /\ GrantActive(grant[i])
  /\ task' = [task EXCEPT ![h] = [step |-> "introspect", id |-> i,
                                  late |-> i \in revoked,
                                  stale |-> ~BindingActive(grant[i])]]
  /\ UNCHANGED <<grant, bindings, now, sweep, revoked>>

IntrospectBinding(h) ==
  /\ task[h].step = "introspect"
  /\ task' = [task EXCEPT ![h] =
                IF BindingActive(grant[task[h].id]) THEN [@ EXCEPT !.step = "vouch"]
                                                    ELSE Idle]
  /\ UNCHANGED <<grant, bindings, now, sweep, revoked>>

(* The provider is told that the grant is active. *)
IntrospectAnswer(h) ==
  /\ task[h].step = "vouch"
  /\ Finish(h)
  /\ UNCHANGED <<grant, bindings, now, sweep, revoked>>

-----------------------------------------------------------------------------
(* Outcomes: POST /api/v1/capability-outcomes.                             *)

(* The row has no outcome, or none but a pending one.  (The receipt of this
   event: 200; another one: 409; nothing changes.) *)
OutcomeRead(h, i, outcome, event) ==
  /\ task[h] = Idle
  /\ i \in Rows
  /\ grant[i].receipt # NoReceipt => /\ grant[i].receipt # event
                                     /\ grant[i].outcome = "pending"
  /\ task' = [task EXCEPT ![h] = [step |-> "outcome", id |-> i, outcome |-> outcome,
                                  event |-> event,
                                  late |-> grant[i].receipt = MissingReceipt]]
  /\ UNCHANGED <<grant, bindings, now, sweep, revoked>>

(* A mutant of StatusAfter: the grant takes the status of its outcome. *)
StatusOfOutcome(outcome) == outcome

StatusAfter(outcome) ==
  IF outcome \in {"failed", "result_unknown"} THEN "active" ELSE "used"

ReceivedRow(row, outcome, event) ==
  [row EXCEPT !.outcome = outcome, !.status = StatusAfter(outcome), !.receipt = event]

(* UpdateOneID(row.ID): no predicate on the outcome the row has by now. *)
OutcomeWrite(h) ==
  /\ task[h].step = "outcome"
  /\ grant' = [grant EXCEPT ![task[h].id] = ReceivedRow(@, task[h].outcome, task[h].event)]
  /\ Finish(h)
  /\ UNCHANGED <<bindings, now, sweep, revoked>>

(* The request is refused, its client goes away or the process dies. *)
Abandon(h) ==
  /\ task[h] # Idle
  /\ Finish(h)
  /\ UNCHANGED <<grant, bindings, now, sweep, revoked>>

-----------------------------------------------------------------------------
(* ReconcileCapabilityGrantOutcomes                                        *)

Pending(row) == row.status = "active" /\ row.outcome = "pending"

Overdue(row, t) == Pending(row) /\ row.dueAt <= t

(* The first Limit rows by expected_outcome_by. *)
OldestFirst(S) ==
  { B \in SUBSET S :
      /\ Cardinality(B) = (IF Cardinality(S) < Limit THEN Cardinality(S) ELSE Limit)
      /\ \A i \in B, j \in S \ B : grant[i].dueAt <= grant[j].dueAt }

SweepScan ==
  /\ sweep = Idle
  /\ \E B \in OldestFirst({ i \in Rows : Overdue(grant[i], now) }) :
       /\ B # {}
       /\ sweep' = [step |-> "mark", at |-> now, batch |-> B]
  /\ UNCHANGED <<grant, bindings, now, task, revoked>>

(* Mutants of Markable: the update by identifier alone, and an update that
   takes only rows whose window ended before the pass began. *)
MarkableByIdAlone(i) == i \in Rows
MarkableStrictly(i) == i \in Rows /\ Pending(grant[i]) /\ grant[i].dueAt < sweep.at

(* The WHERE of the update: checked again, by the statement that writes. *)
Markable(i) == i \in Rows /\ Overdue(grant[i], sweep.at)

MissingRow(row) ==
  [row EXCEPT !.status = "expired", !.outcome = "missing", !.receipt = MissingReceipt]

(* The order of the batch is that of the scan; any order does here. *)
SweepMark(i) ==
  /\ sweep # Idle
  /\ i \in sweep.batch
  /\ Markable(i)
  /\ grant' = [grant EXCEPT ![i] = MissingRow(@)]
  /\ sweep' = [sweep EXCEPT !.batch = @ \ {i}]
  /\ UNCHANGED <<bindings, now, task, revoked>>

(* updated == 0: the row has an outcome or another window by now. *)
SweepSkip(i) ==
  /\ sweep # Idle
  /\ i \in sweep.batch
  /\ ~Markable(i)
  /\ sweep' = [sweep EXCEPT !.batch = @ \ {i}]
  /\ UNCHANGED <<grant, bindings, now, task, revoked>>

(* The batch is done, or a statement failed and the pass returned its error. *)
SweepEnd ==
  /\ sweep # Idle
  /\ sweep' = Idle
  /\ UNCHANGED <<grant, bindings, now, task, revoked>>

-----------------------------------------------------------------------------
Tick ==
  /\ now < MaxTime
  /\ now' = now + 1
  /\ UNCHANGED <<grant, bindings, task, sweep, revoked>>

(* What is known to have been the operation's active binding, after a write. *)
HeldWith(row) ==
  IF row.status = "active"
  THEN [held EXCEPT ![row.op] = @ \cup {[provider |-> row.provider, epoch |-> row.epoch]}]
  ELSE held

(* POST for an operation that has no row.  The identifier is made of the
   operation: neither it nor the operation may be taken. *)
Bind(op, p, st) ==
  LET row == [op |-> op, provider |-> p, epoch |-> 1, status |-> st] IN
    /\ binding[op] = Unbound
    /\ BoundTo(op) = {}
    /\ binding' = [binding EXCEPT ![op] = row]
    /\ latest' = [latest EXCEPT ![op] = 1]
    /\ held' = HeldWith(row)
    /\ UNCHANGED <<grant, now, task, sweep, revoked, disturbed>>

(* A mutant of RebindEpoch: the update keeps the epoch it has read. *)
RebindEpochKept(seen) == seen

RebindEpoch(seen) == seen + 1

(* POST, PATCH or disable of a row that the request read when its epoch was
   seen.  UpdateOneID(existing.ID): nothing says the row is still as it was
   read.  A PATCH may name another operation, which must be free. *)
Rebind(b, op, p, st, seen) ==
  LET row == [op |-> op, provider |-> p, epoch |-> RebindEpoch(seen), status |-> st] IN
    /\ b \in Homes
    /\ seen <= latest[b]
    /\ row.epoch <= MaxEpoch
    /\ BoundTo(op) \subseteq {b}
    /\ binding' = [binding EXCEPT ![b] = row]
    /\ latest' = [latest EXCEPT ![b] = IF row.epoch > @ THEN row.epoch ELSE @]
    /\ held' = HeldWith(row)
    /\ disturbed' = IF seen = binding[b].epoch /\ op = binding[b].op
                    THEN disturbed ELSE disturbed \cup {op, binding[b].op}
    /\ UNCHANGED <<grant, now, task, sweep, revoked>>

Requested(h) ==
  \/ \E req \in Request, p \in Plugin, e \in 1 .. MaxEpoch :
       IssueAdmit(h, req, [provider |-> p, epoch |-> e])
  \/ \E i \in Id : RevokeRead(h, i) \/ IntrospectRead(h, i)
  \/ \E i \in Id, outcome \in ReportStatus, event \in Event :
       OutcomeRead(h, i, outcome, event)

HandlerStep(h) ==
  \/ IssueReissuable(h) \/ IssueDenied(h) \/ IssueAbsent(h) \/ Reissue(h) \/ IssueCreate(h)
  \/ RevokeWrite(h)
  \/ IntrospectBinding(h) \/ IntrospectAnswer(h)
  \/ OutcomeWrite(h)
  \/ Abandon(h)

SweepStep ==
  \/ SweepScan
  \/ \E i \in Id : SweepMark(i) \/ SweepSkip(i)
  \/ SweepEnd

BindingStep ==
  \E op \in Op, p \in Plugin, st \in BindStatus :
    \/ Bind(op, p, st)
    \/ \E b \in Op, seen \in 1 .. MaxEpoch : Rebind(b, op, p, st, seen)

Next ==
  \/ \E h \in Handler : Requested(h) \/ HandlerStep(h)
  \/ SweepStep
  \/ Tick
  \/ BindingStep

Spec == Init /\ [][Next]_vars

(* plystrad runs the reconciler every 30 seconds, and the update of a row that
   pass after pass finds overdue does not fail for ever. *)
Fairness ==
  /\ WF_vars(SweepStep)
  /\ \A i \in Id : SF_vars(SweepMark(i))

FairSpec == Spec /\ Fairness

-----------------------------------------------------------------------------
(* Properties.                                                             *)

(* Every variable has its type. *)
TypeOK ==
  /\ grant \in [Id -> Row \cup {NoRow}]
  /\ binding \in [Op -> Binding \cup {Unbound}]
  /\ now \in 0 .. MaxTime
  /\ task \in [Handler -> Task]
  /\ sweep \in Sweep
  /\ revoked \subseteq Rows
  /\ latest \in [Op -> Nat]
  /\ held \in [Op -> SUBSET Answer]
  /\ disturbed \subseteq Op

(* What the interface promises: no introspection that began after the grant was
   revoked, or after its operation was bound anew, answers that the grant is
   active.  "Rebinding increments binding_epoch so callers re-request grants
   after provider changes." *)
FailsClosed ==
  \A h \in Handler : task[h].step = "vouch" => ~task[h].late /\ ~task[h].stale

(* What the code keeps of it.  A revocation is immediate, whatever reissues,
   outcomes and rebindings are still on their way; a rebinding is, unless some
   update of that operation's binding was lost to another one, or a binding row
   was moved to or from the operation. *)
FailsClosedIfSerial ==
  \A h \in Handler : task[h].step = "vouch" =>
    /\ ~task[h].late
    /\ task[h].stale => grant[task[h].id].op \in disturbed

(* A grant declared missing stays declared and inactive, but for one thing: a
   receipt whose handler had read the row before the reconciler marked it.  No
   reissue revives the grant, and no request that begins after the mark. *)
MissingStaysInactive ==
  [][\A i \in Rows : grant[i].receipt = MissingReceipt =>
       \/ grant'[i].receipt = MissingReceipt /\ grant'[i].status # "active"
       \/ \E h \in Handler : /\ task[h].step = "outcome" /\ task[h].id = i
                             /\ ~task[h].late
                             /\ grant'[i].receipt = task[h].event]_vars

(* The reconciler never takes a receipt away, nor a window that a reissue has
   just extended: the row was pending and overdue at the very step that marks it. *)
SweepSparesReceipts ==
  [][\A i \in Rows : grant'[i].receipt = MissingReceipt /\ grant[i].receipt # MissingReceipt
       => Overdue(grant[i], now)]_vars

(* No chain of nested calls is longer than the operations allow. *)
LineageBounded == \A i \in Rows : LineageDepth[i] <= MaxDepth

(* The ledger as the callers see it: one entry per caller, operation and key,
   closed when its outcome is known. *)
EntryOf(row) == <<<<row.caller, row.op, row.key>>, <<row.provider, row.payload>>>>

Contract == INSTANCE IdempotentLedger WITH
              Slot    <- Plugin \X Op \X Key,
              Payload <- Plugin \X Payload,
              opened  <- { EntryOf(grant[i]) : i \in Rows },
              closed  <- { EntryOf(grant[i]) : i \in { j \in Rows :
                                                         grant[j].outcome # "pending" } }

(* The ledger implements the idempotent ledger: a call gets one grant for one
   provider, and a known outcome never becomes pending again. *)
ImplementsContract == Contract!Spec

(* A receipt the provider was told 200 for stays: a different one is to get 409
   "Capability grant already has a different terminal outcome receipt". *)
ReceiptStands ==
  [][\A i \in Rows : grant[i].receipt \in Event => grant'[i].receipt = grant[i].receipt]_vars

(* A grant whose outcome window has passed does not stay so: a receipt, a
   revocation, another window or the reconciler ends it. *)
OverdueGrantsSettle ==
  \A i \in Id : (i \in Rows /\ Overdue(grant[i], now))
                  ~> ~(i \in Rows /\ Overdue(grant[i], now))
=============================================================================

--------------------------- MODULE ActionExecution ---------------------------
(***************************************************************************)
(* The Action Gateway's execution ledger: the table action_executions, the *)
(* HTTP handlers that begin and complete an execution, and the reconciler  *)
(* that declares overdue executions result_unknown.                        *)
(*                                                                         *)
(* Every handler is a goroutine that issues one SQL statement at a time    *)
(* outside any transaction, so a handler here is a sequence of steps: one  *)
(* for the checks and the read that decide, one for the write, one for the *)
(* audit row and the answer.  The steps of all handlers and of the         *)
(* reconciler interleave, and a handler may stop between any two of them   *)
(* (client gone, process killed, database error).                          *)
(*                                                                         *)
(* The space, capability and operation of a request are part of its Key:   *)
(* both unique indexes and the lookup carry the three next to the          *)
(* idempotency key.  Payload stands for the principal, the resource and    *)
(* the input summary, which a replay must repeat.                          *)
(***************************************************************************)
EXTENDS Integers, FiniteSets

CONSTANTS
  Id,            \* identifiers of ledger rows (newEntityID("act")); bounds the rows
  Executor,      \* executor plugins
  Provider,      \* provider plugins
  Key,           \* (space, capability, operation, idempotency_key)
  Payload,       \* (principal, resource, input_summary)
  ResultRef,     \* result references a provider can report
  ErrorCode,     \* non-empty error codes a provider can report
  ReportStatus,  \* the terminal statuses the modelled providers report
  Handler,       \* concurrently served HTTP requests
  Timeout,       \* actionExecutionTimeoutAt, in ticks
  Limit,         \* batch limit of one reconciler pass
  MaxTime        \* bound of the clock

Open     == {"running", "pending"}
Terminal == {"succeeded", "failed", "rejected", "cancelled", "timeout",
             "result_unknown"}

NoError      == ""
TimeoutError == "ACTION_EXECUTION_TIMEOUT"
NoResult     == "no result_ref"

ASSUME ConstantsAssumption ==
  /\ Timeout \in Nat \ {0}
  /\ Limit \in Nat \ {0}
  /\ MaxTime \in Nat
  /\ ReportStatus \subseteq Terminal
  /\ NoError \notin ErrorCode

Request ==
  [executor : Executor, provider : Provider, key : Key, payload : Payload]

(* validateActionExecutionCompleteRequest: a success carries no error, every
   other terminal status carries an error code. *)
ValidReport(r) ==
  /\ r.status \in ReportStatus
  /\ r.status = "succeeded" <=> r.error = NoError

(* A mutant of Report: validation lets any status through. *)
ReportWithoutStatusCheck ==
  { r \in [status : Open \cup Terminal, error : ErrorCode \cup {NoError},
           result : ResultRef] : r.status = "succeeded" <=> r.error = NoError }

Report ==
  { r \in [status : Terminal, error : ErrorCode \cup {NoError}, result : ResultRef] :
      ValidReport(r) }

(* Who wrote metadata.result_unknown_reconciliation last: the insert, with the
   deadline, the reconciler, with what it did, or a provider, with whatever the
   metadata of its completion carries under that key. *)
Author == {"begin", "reconciler", "provider"}

Row ==
  [executor : Executor, provider : Provider, key : Key, payload : Payload,
   status : Open \cup Terminal, timeoutAt : Nat,
   error : ErrorCode \cup {NoError, TimeoutError},
   result : ResultRef \cup {NoResult},
   reconciliation : Author]

NoRow == [status |-> "absent"]

Idle == [step |-> "idle"]

(* What a handler still has to do, with what it has read so far. *)
Task ==
       {Idle}
  \cup [step : {"lookup", "create"}, req : Request]
  \cup [step : {"begun"}, req : Request, id : Id]
  \cup [step : {"complete"}, id : Id, report : Report, reconciliation : Author]
  \cup [step : {"completed"}, id : Id, report : Report]

(* A reconciler pass: the rows its scan returned, and the row whose audit it owes. *)
Sweep ==
       {Idle}
  \cup [step : {"mark"}, at : Nat, batch : SUBSET Id]
  \cup [step : {"audit"}, at : Nat, batch : SUBSET Id, id : Id]

VARIABLES
  ledger,      \* the rows of action_executions
  now,         \* the clock
  enabled,     \* the provider plugins whose status is enabled
  allowed,     \* the payloads whose principal is active and authorised
  task,        \* what each handler is doing
  sweep,       \* the reconciler
  audit,       \* audit_logs rows about executions: (execution, event)
  begun,       \* answers 200/201 to begin requests: (request, execution)
  reported     \* answers 200 to completions: (execution, report)

vars == <<ledger, now, enabled, allowed, task, sweep, audit, begun, reported>>
environment == <<now, enabled, allowed>>

Rows == { i \in Id : ledger[i] # NoRow }
OpenRows == { i \in Rows : ledger[i].status \in Open }
TerminalRows == { i \in Rows : ledger[i].status \in Terminal }

Init ==
  /\ ledger = [i \in Id |-> NoRow]
  /\ now = 0
  /\ enabled = Provider
  /\ allowed = Payload
  /\ task = [h \in Handler |-> Idle]
  /\ sweep = Idle
  /\ audit = {}
  /\ begun = {}
  /\ reported = {}

-----------------------------------------------------------------------------
(* Beginning an execution: POST /api/v1/action-executions.                 *)

(* The lookup's predicate, and the row's first unique index. *)
SameCall(row, req) ==
  row.executor = req.executor /\ row.key = req.key

(* What the two unique indexes of the table refuse to hold twice. *)
Collides(row, req) ==
  \/ SameCall(row, req)
  \/ row.provider = req.provider /\ row.key = req.key

(* actionExecutionReplayMatches *)
ReplayMatches(row, req) ==
  /\ SameCall(row, req)
  /\ row.provider = req.provider
  /\ row.payload = req.payload

(* The checks before the lookup: the provider is enabled and offers the
   operation, the principal is active and the engine authorises it. *)
BeginAdmit(h, req) ==
  /\ task[h] = Idle
  /\ req.provider \in enabled
  /\ req.payload \in allowed
  /\ task' = [task EXCEPT ![h] = [step |-> "lookup", req |-> req]]
  /\ UNCHANGED <<ledger, environment, sweep, audit, begun, reported>>

(* The lookup finds an execution of the same call: answer with it. *)
BeginReplay(h) ==
  /\ task[h].step = "lookup"
  /\ \E i \in Rows :
       /\ ReplayMatches(ledger[i], task[h].req)
       /\ begun' = begun \cup {[req |-> task[h].req, id |-> i]}
  /\ task' = [task EXCEPT ![h] = Idle]
  /\ UNCHANGED <<ledger, environment, sweep, audit, reported>>

(* The lookup finds another execution under the key: 409. *)
BeginConflict(h) ==
  /\ task[h].step = "lookup"
  /\ \E i \in Rows : /\ SameCall(ledger[i], task[h].req)
                     /\ ~ReplayMatches(ledger[i], task[h].req)
  /\ task' = [task EXCEPT ![h] = Idle]
  /\ UNCHANGED <<ledger, environment, sweep, audit, begun, reported>>

(* The lookup finds nothing: the handler goes on to insert. *)
BeginAbsent(h) ==
  /\ task[h].step = "lookup"
  /\ \A i \in Rows : ~SameCall(ledger[i], task[h].req)
  /\ task' = [task EXCEPT ![h].step = "create"]
  /\ UNCHANGED <<ledger, environment, sweep, audit, begun, reported>>

NewRow(req) ==
  [executor |-> req.executor, provider |-> req.provider, key |-> req.key,
   payload |-> req.payload, status |-> "running", timeoutAt |-> now + Timeout,
   error |-> NoError, result |-> NoResult, reconciliation |-> "begin"]

(* A mutant of IndexesAdmit: a table without the executor's unique index. *)
IndexesAdmitWithoutExecutorIndex(req) ==
  \A j \in Rows : ~(ledger[j].provider = req.provider /\ ledger[j].key = req.key)

IndexesAdmit(req) == \A j \in Rows : ~Collides(ledger[j], req)

(* The insert, which both unique indexes let through. *)
BeginCreate(h) ==
  /\ task[h].step = "create"
  /\ IndexesAdmit(task[h].req)
  /\ \E i \in Id \ Rows :
       /\ ledger' = [ledger EXCEPT ![i] = NewRow(task[h].req)]
       /\ task' = [task EXCEPT ![h] = [step |-> "begun", req |-> task[h].req, id |-> i]]
  /\ UNCHANGED <<environment, sweep, audit, begun, reported>>

(* A unique index refuses the insert: 409. *)
BeginCreateFailed(h) ==
  /\ task[h].step = "create"
  /\ ~IndexesAdmit(task[h].req)
  /\ task' = [task EXCEPT ![h] = Idle]
  /\ UNCHANGED <<ledger, environment, sweep, audit, begun, reported>>

(* recordActionExecutionAudit drops the error of its insert: the event is
   written or it is not, and the caller is answered either way. *)
Recorded(i, event) ==
  audit' \in {audit, audit \cup {<<i, event>>}}

BeginAnswer(h) ==
  /\ task[h].step = "begun"
  /\ Recorded(task[h].id, "started")
  /\ begun' = begun \cup {[req |-> task[h].req, id |-> task[h].id]}
  /\ task' = [task EXCEPT ![h] = Idle]
  /\ UNCHANGED <<ledger, environment, sweep, reported>>

-----------------------------------------------------------------------------
(* Completing an execution: POST /api/v1/action-executions/{id}/complete.  *)

(* actionExecutionCompletionMatches *)
CompletionMatches(row, report) ==
  /\ row.status = report.status
  /\ row.error = report.error
  /\ row.result = report.result

(* The metadata as the update will write it: the copy that was read, overridden
   by the keys of the request; own says that the reconciliation's is one. *)
MergedReconciliation(row, own) == IF own THEN "provider" ELSE row.reconciliation

(* The row is open when it is read: the handler goes on to update it. *)
CompleteAdmit(h, i, report, own) ==
  /\ task[h] = Idle
  /\ i \in OpenRows
  /\ ledger[i].provider \in enabled
  /\ task' = [task EXCEPT ![h] = [step |-> "complete", id |-> i, report |-> report,
                                  reconciliation |-> MergedReconciliation(ledger[i], own)]]
  /\ UNCHANGED <<ledger, environment, sweep, audit, begun, reported>>

(* The row already has this result: 200.  (With another one: 409, no change.) *)
CompleteReplay(h, i, report) ==
  /\ task[h] = Idle
  /\ i \in TerminalRows
  /\ ledger[i].provider \in enabled
  /\ CompletionMatches(ledger[i], report)
  /\ reported' = reported \cup {[id |-> i, report |-> report]}
  /\ UNCHANGED <<ledger, environment, task, sweep, audit, begun>>

(* SetNillableErrorCode leaves the column alone when the report has no error. *)
ErrorAfter(row, report) ==
  IF report.error = NoError THEN row.error ELSE report.error

(* A mutant: metadata merged by the database instead of into the read copy. *)
CompletedRowMergedInPlace(row, t) ==
  [row EXCEPT !.status = t.report.status, !.error = ErrorAfter(row, t.report),
              !.result = t.report.result,
              !.reconciliation = MergedReconciliation(row, t.reconciliation = "provider")]

CompletedRow(row, t) ==
  [row EXCEPT !.status = t.report.status, !.error = ErrorAfter(row, t.report),
              !.result = t.report.result, !.reconciliation = t.reconciliation]

(* UpdateOneID(row.ID): no predicate on the status the row has by now. *)
CompleteWrite(h) ==
  /\ task[h].step = "complete"
  /\ LET i == task[h].id IN
       /\ ledger' = [ledger EXCEPT ![i] = CompletedRow(@, task[h])]
       /\ task' = [task EXCEPT ![h] = [step |-> "completed", id |-> i,
                                       report |-> task[h].report]]
  /\ UNCHANGED <<environment, sweep, audit, begun, reported>>

CompleteAnswer(h) ==
  /\ task[h].step = "completed"
  /\ Recorded(task[h].id, task[h].report.status)
  /\ reported' = reported \cup {[id |-> task[h].id, report |-> task[h].report]}
  /\ task' = [task EXCEPT ![h] = Idle]
  /\ UNCHANGED <<ledger, environment, sweep, begun>>

(* The client goes away, the database fails or the process dies. *)
Abandon(h) ==
  /\ task[h] # Idle
  /\ task' = [task EXCEPT ![h] = Idle]
  /\ UNCHANGED <<ledger, environment, sweep, audit, begun, reported>>

-----------------------------------------------------------------------------
(* ReconcileActionExecutions                                               *)

Overdue(row, t) == row.status \in Open /\ row.timeoutAt <= t

(* The first Limit rows by timeout_at. *)
OldestFirst(S) ==
  { B \in SUBSET S :
      /\ Cardinality(B) = (IF Cardinality(S) < Limit THEN Cardinality(S) ELSE Limit)
      /\ \A i \in B, j \in S \ B : ledger[i].timeoutAt <= ledger[j].timeoutAt }

SweepScan ==
  /\ sweep = Idle
  /\ \E B \in OldestFirst({ i \in Rows : Overdue(ledger[i], now) }) :
       /\ B # {}
       /\ sweep' = [step |-> "mark", at |-> now, batch |-> B]
  /\ UNCHANGED <<ledger, environment, task, audit, begun, reported>>

NextInBatch(i) ==
  /\ sweep.step = "mark"
  /\ i \in sweep.batch
  /\ \A j \in sweep.batch : ledger[i].timeoutAt <= ledger[j].timeoutAt

MarkedRow(row) ==
  [row EXCEPT !.status = "result_unknown", !.error = TimeoutError,
              !.reconciliation = "reconciler"]

(* A mutant of Markable: the update by identifier alone. *)
MarkableByIdAlone(i) == i \in Rows

(* The WHERE of the update: checked again, by the statement that writes. *)
Markable(i) == i \in Rows /\ Overdue(ledger[i], sweep.at)

(* A mutant of SweepMark: the audit row is written before the update. *)
SweepMarkAuditFirst(i) ==
  /\ NextInBatch(i)
  /\ Markable(i)
  /\ sweep' = [step |-> "audit", at |-> sweep.at, batch |-> sweep.batch, id |-> i]
  /\ UNCHANGED <<ledger, environment, task, audit, begun, reported>>

SweepMark(i) ==
  /\ NextInBatch(i)
  /\ Markable(i)
  /\ ledger' = [ledger EXCEPT ![i] = MarkedRow(@)]
  /\ sweep' = [step |-> "audit", at |-> sweep.at, batch |-> sweep.batch \ {i}, id |-> i]
  /\ UNCHANGED <<environment, task, audit, begun, reported>>

(* updated == 0: somebody completed the row since the scan. *)
SweepSkip(i) ==
  /\ NextInBatch(i)
  /\ ~Markable(i)
  /\ sweep' = [sweep EXCEPT !.batch = @ \ {i}]
  /\ UNCHANGED <<ledger, environment, task, audit, begun, reported>>

SweepAudit ==
  /\ sweep.step = "audit"
  /\ Recorded(sweep.id, "result_unknown")
  /\ sweep' = [step |-> "mark", at |-> sweep.at, batch |-> sweep.batch]
  /\ UNCHANGED <<ledger, environment, task, begun, reported>>

(* The batch is done, or a statement failed and the pass returned its error. *)
SweepEnd ==
  /\ sweep # Idle
  /\ sweep' = Idle
  /\ UNCHANGED <<ledger, environment, task, audit, begun, reported>>

-----------------------------------------------------------------------------
(* The world around the ledger.                                            *)

Tick ==
  /\ now < MaxTime
  /\ now' = now + 1
  /\ UNCHANGED <<ledger, enabled, allowed, task, sweep, audit, begun, reported>>

(* handlePluginLifecycle: an administrator enables or disables a plugin. *)
PluginLifecycle(p) ==
  /\ enabled' \in {enabled \cup {p}, enabled \ {p}}
  /\ UNCHANGED <<ledger, now, allowed, task, sweep, audit, begun, reported>>

(* The principal's binding or its roles change. *)
AuthorizationChange(x) ==
  /\ allowed' \in {allowed \cup {x}, allowed \ {x}}
  /\ UNCHANGED <<ledger, now, enabled, task, sweep, audit, begun, reported>>

BeginStep(h) ==
  \/ BeginReplay(h) \/ BeginConflict(h) \/ BeginAbsent(h)
  \/ BeginCreate(h) \/ BeginCreateFailed(h) \/ BeginAnswer(h)

CompleteStep(h) == CompleteWrite(h) \/ CompleteAnswer(h)

SweepStep ==
  \/ SweepScan
  \/ \E i \in Id : SweepMark(i) \/ SweepSkip(i)
  \/ SweepAudit
  \/ SweepEnd

Next ==
  \/ \E h \in Handler :
       \/ \E req \in Request : BeginAdmit(h, req)
       \/ BeginStep(h)
       \/ \E i \in Id, report \in Report, own \in BOOLEAN : CompleteAdmit(h, i, report, own)
       \/ \E i \in Id, report \in Report : CompleteReplay(h, i, report)
       \/ CompleteStep(h)
       \/ Abandon(h)
  \/ SweepStep
  \/ Tick
  \/ \E p \in Provider : PluginLifecycle(p)
  \/ \E x \in Payload : AuthorizationChange(x)

Spec == Init /\ [][Next]_vars

(* Net/http serves every request it has accepted, and time passes.  Nothing in
   cmd/plystrad ever calls ReconcileActionExecutions, so the reconciler's
   steps get no fairness; nor does a provider, which may never report. *)
Fairness ==
  /\ \A h \in Handler : WF_vars(BeginStep(h) \/ CompleteStep(h))
  /\ WF_vars(Tick)

FairSpec == Spec /\ Fairness

-----------------------------------------------------------------------------
(* Properties.                                                             *)

(* Every variable has its type: in particular an error code or a status the
   request validation refuses never reaches a row. *)
TypeOK ==
  /\ ledger \in [Id -> Row \cup {NoRow}]
  /\ now \in 0 .. MaxTime
  /\ enabled \subseteq Provider
  /\ allowed \subseteq Payload
  /\ task \in [Handler -> Task]
  /\ sweep \in Sweep
  /\ audit \subseteq Id \X ({"started"} \cup Terminal)
  /\ begun \subseteq [req : Request, id : Id]
  /\ reported \subseteq [id : Id, report : Report]

(* Idempotent begin: however many begin requests race, two of them that are
   answered with success under one executor and key were answered with the
   same execution, and with one that was begun for what they both asked. *)
KeyNamesOneExecution ==
  \A b \in begun :
    /\ b.id \in Rows
    /\ ReplayMatches(ledger[b.id], b.req)
    /\ \A c \in begun : SameCall(b.req, c.req) => b.id = c.id /\ b.req = c.req

(* The mark the reconciler leaves in the metadata of a row goes with the status and
   the error code it wrote, whichever completions race with it, and only rows past
   their deadline carry it.  (A provider can write a mark of its own into the
   metadata of its completion; the reconciler's is the one the reconciler wrote.) *)
ReconcilerMarkStands ==
  \A i \in Rows : ledger[i].reconciliation = "reconciler" =>
    /\ ledger[i].status = "result_unknown"
    /\ ledger[i].error = TimeoutError
    /\ ledger[i].timeoutAt <= now

(* The reconciler never takes a result away: a row it marks was open, and
   overdue, at the very step that marks it, not just when it was scanned. *)
SweepSparesSettled ==
  [][\A i \in Rows : /\ ledger'[i].reconciliation = "reconciler"
                     /\ ledger[i].reconciliation # "reconciler"
                     => Overdue(ledger[i], now)]_vars

(* The audit trail is never ahead of the ledger: an execution whose terminal
   event is audited has a terminal result, and stays that way. *)
AuditFollowsLedger ==
  \A a \in audit :
    /\ a[1] \in Rows
    /\ a[2] # "started" => a[1] \in TerminalRows

(* The ledger as the callers see it: entries of calls, closed when terminal. *)
EntryOf(row) == <<<<row.executor, row.key>>, <<row.provider, row.payload>>>>

Contract == INSTANCE IdempotentLedger WITH
              Slot    <- Executor \X Key,
              Payload <- Provider \X Payload,
              opened  <- { EntryOf(ledger[i]) : i \in Rows },
              closed  <- { EntryOf(ledger[i]) : i \in TerminalRows }

(* The ledger implements the idempotent ledger: one entry per call, never
   withdrawn, and a terminal execution never runs again. *)
ImplementsContract == Contract!Spec

(* A provider told 200 finds its result in the ledger from then on, so that it
   can report the same result again: anything else is to get 409 "Action
   execution already has a different terminal result". *)
AcknowledgedResultStands ==
  \A a \in reported : CompletionMatches(ledger[a.id], a.report)

(* Every execution leaves the running state, by a report or by the
   result_unknown reconciliation its row says is required. *)
EveryExecutionSettles ==
  \A i \in Id : i \in OpenRows ~> i \notin OpenRows
=============================================================================

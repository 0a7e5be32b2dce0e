------------------------------- MODULE AppData -------------------------------
(***************************************************************************)
(* The records of the generic App Data store: the tables app_data_records  *)
(* and app_data_record_revisions, the audit rows of their mutations, and   *)
(* the handlers that create, update, archive and delete records one by one *)
(* or in a batch.                                                          *)
(*                                                                         *)
(* A call is a sequence of operations: a single-record endpoint is a call  *)
(* of length one, the batch endpoint any.  Each call writes in one         *)
(* database transaction at PostgreSQL's default isolation (read            *)
(* committed): a statement sees what is committed when it runs and what    *)
(* its own transaction wrote, and an INSERT or UPDATE of a row another     *)
(* transaction has written waits for that transaction to end.  The         *)
(* single-record handlers read the record before they begin the            *)
(* transaction, the batch reads inside it; neither read locks anything,    *)
(* so the two are the same step here.                                      *)
(*                                                                         *)
(* A record's columns are abstracted to two: data stands for the columns a *)
(* PATCH may carry or leave out, status is the other one because archive   *)
(* and delete write it too.                                                *)
(***************************************************************************)
EXTENDS Integers, Sequences, FiniteSets

CONSTANTS
  Record,        \* identifiers of records, the callers' or newEntityID's
  Data,          \* contents of a record
  Call,          \* the calls clients make: sequences of operations
  Handler,       \* concurrently served HTTP requests
  MaxRevision    \* bound: no new call on a record with so many revisions

Kind == {"create", "update", "archive", "delete"}

(* validAppDataRecordStatus *)
RecordStatus == {"active", "disabled", "archived", "deleted"}

Keep == "not in the request"

Op == [kind : Kind, record : Record, data : Data \cup {Keep},
       status : RecordStatus \cup {Keep}]

(* validateAppDataRecordMutation, normalizeAppDataBatchOperation *)
ValidOp(op) ==
  /\ op.kind = "create" => op.data # Keep
  /\ op.kind \in {"archive", "delete"} => op.data = Keep /\ op.status = Keep

ASSUME CallAssumption ==
  /\ Call \subseteq Seq(Op) \ {<<>>}
  /\ \A call \in Call : \A k \in DOMAIN call : ValidOp(call[k])
  /\ Keep \notin Data
  /\ MaxRevision \in Nat

Row == [data : Data, status : RecordStatus, deleted : BOOLEAN]

NoRow == [status |-> "absent"]

(* A revision: the operation that made it and the columns it copied, and, for
   the properties only, whether the record had changed under the operation. *)
Version == [op : Op, data : Data, status : RecordStatus, raced : BOOLEAN]

NoRevision == [n \in {} |-> n]

Idle == [step |-> "idle"]

(* A call in progress: the operations left, what the current one has read and
   counted, and what the transaction has written and not committed. *)
Steps == {"read", "write", "reload", "file", "audit", "commit"}

VARIABLES
  record,    \* app_data_records, as committed
  revision,  \* app_data_record_revisions, as committed: number |-> version
  audit,     \* how many audit rows each record's mutations have, as committed
  task       \* what each handler is doing

vars == <<record, revision, audit, task>>
committed == <<record, revision, audit>>

Init ==
  /\ record = [r \in Record |-> NoRow]
  /\ revision = [r \in Record |-> NoRevision]
  /\ audit = [r \in Record |-> 0]
  /\ task = [h \in Handler |-> Idle]

-----------------------------------------------------------------------------
(* The database as a transaction sees it.                                  *)

Wrote(h, r) == task[h] # Idle /\ task[h].wrote[r] # NoRow

(* The row lock an INSERT or an UPDATE takes is held to the transaction's end. *)
Locked(h, r) == \E g \in Handler \ {h} : Wrote(g, r)

Sees(h, r) == IF Wrote(h, r) THEN task[h].wrote[r] ELSE record[r]

(* The numbers revision rows of r have, as far as h can count them. *)
Numbers(h, r) == DOMAIN revision[r] \cup DOMAIN task[h].filed[r]

(* The filter on deleted_at of loadAppDataRecordByID. *)
Live(row) == row # NoRow /\ ~row.deleted

Current(h) == Head(task[h].todo)

(* Rollback of whatever the transaction wrote, and the error answer. *)
GiveUp(h) == task' = [task EXCEPT ![h] = Idle] /\ UNCHANGED committed

-----------------------------------------------------------------------------
(* One operation of a call, statement by statement.                        *)

StepFor(todo) ==
  IF todo = <<>> THEN "commit"
  ELSE IF Head(todo).kind = "create" THEN "write" ELSE "read"

Admit(h, call) ==
  /\ task[h] = Idle
  /\ \A k \in DOMAIN call : Cardinality(DOMAIN revision[call[k].record]) < MaxRevision
  /\ task' = [task EXCEPT ![h] =
       [step |-> StepFor(call), todo |-> call, seen |-> NoRow, raced |-> FALSE,
        number |-> 0, wrote |-> [r \in Record |-> NoRow],
        filed |-> [r \in Record |-> NoRevision], noted |-> [r \in Record |-> 0]]]
  /\ UNCHANGED committed

ReadRecord(h) ==
  /\ task[h].step = "read"
  /\ Live(Sees(h, Current(h).record))
  /\ task' = [task EXCEPT ![h].step = "write", ![h].seen = Sees(h, Current(h).record)]
  /\ UNCHANGED committed

(* APP_DATA_RECORD_NOT_FOUND *)
RecordNotFound(h) ==
  /\ task[h].step = "read"
  /\ ~Live(Sees(h, Current(h).record))
  /\ GiveUp(h)

(* The write of the current operation leaves the row so. *)
Stage(h, row, raced) ==
  /\ task' = [task EXCEPT ![h].step = "reload", ![h].raced = raced,
                          ![h].wrote[Current(h).record] = row]
  /\ UNCHANGED committed

Writes(h, kinds) ==
  /\ task[h].step = "write"
  /\ Current(h).kind \in kinds
  /\ ~Locked(h, Current(h).record)

(* A mutant of NewRow: no default for a status the request leaves out. *)
NewRowWithoutDefault(op) ==
  [data |-> op.data, status |-> op.status, deleted |-> FALSE]

NewRow(op) ==
  [data |-> op.data, status |-> IF op.status = Keep THEN "active" ELSE op.status,
   deleted |-> FALSE]

CreateRecord(h) ==
  /\ Writes(h, {"create"})
  /\ Sees(h, Current(h).record) = NoRow
  /\ Stage(h, NewRow(Current(h)), FALSE)

(* The primary key refuses the INSERT: APP_DATA_RECORD_CREATE_FAILED. *)
CreateConflict(h) ==
  /\ Writes(h, {"create"})
  /\ Sees(h, Current(h).record) # NoRow
  /\ GiveUp(h)

(* A mutant of Proposed: a PATCH without a status activates the record. *)
ProposedWithDefaults(seen, op) ==
  [data   |-> IF op.data = Keep THEN seen.data ELSE op.data,
   status |-> IF op.status = Keep THEN "active" ELSE op.status]

(* What the PATCH carries, and what was read for the columns it leaves out. *)
Proposed(seen, op) ==
  [data   |-> IF op.data = Keep THEN seen.data ELSE op.data,
   status |-> IF op.status = Keep THEN seen.status ELSE op.status]

(* The UPDATE names the row by its identifier and sets every column, those the
   PATCH left out included; deleted_at alone is not among them. *)
UpdateRecord(h) ==
  /\ Writes(h, {"update"})
  /\ LET now == Sees(h, Current(h).record)
         new == Proposed(task[h].seen, Current(h))
     IN Stage(h, [now EXCEPT !.data = new.data, !.status = new.status],
              now # task[h].seen)

StatusAfter(kind) == IF kind = "delete" THEN "deleted" ELSE "archived"

(* archive and delete set the status, delete also deleted_at. *)
ChangeStatus(h) ==
  /\ Writes(h, {"archive", "delete"})
  /\ LET now  == Sees(h, Current(h).record)
         kind == Current(h).kind
     IN Stage(h, [now EXCEPT !.status = StatusAfter(kind),
                             !.deleted = @ \/ kind = "delete"],
              now # task[h].seen)

(* A mutant of Reloads: every operation reloads the way archive does. *)
ReloadsAnyRow(op, row) == TRUE

(* loadAppDataRecordByIDFromClient after create and update filters deleted
   records; loadAppDataRecordForRevisionFromClient does not. *)
Reloads(op, row) == op.kind \in {"archive", "delete"} \/ Live(row)

(* A mutant of NumberFor: the count lacks the predicate on the record. *)
NumberForAnyRecord(h, r) ==
  Cardinality(UNION { {q} \X Numbers(h, q) : q \in Record }) + 1

NumberFor(h, r) == Cardinality(Numbers(h, r)) + 1

(* The reload of the row and the count of its revisions. *)
ReloadRecord(h) ==
  /\ task[h].step = "reload"
  /\ LET r == Current(h).record IN
       /\ Reloads(Current(h), task[h].wrote[r])
       /\ task' = [task EXCEPT ![h].step = "file", ![h].number = NumberFor(h, r)]
  /\ UNCHANGED committed

(* A mutant of ReloadMissing: an error return that forgets the rollback. *)
ReloadMissingWithoutRollback(h) ==
  /\ task[h].step = "reload"
  /\ ~Reloads(Current(h), task[h].wrote[Current(h).record])
  /\ task' = [task EXCEPT ![h].step = "returned"]
  /\ UNCHANGED committed

(* The row was deleted since it was read: the update is rolled back. *)
ReloadMissing(h) ==
  /\ task[h].step = "reload"
  /\ ~Reloads(Current(h), task[h].wrote[Current(h).record])
  /\ GiveUp(h)

(* A mutant of Filed: the revision copies what the handler read. *)
FiledFromRead(h, row) ==
  [op |-> Current(h), data |-> (IF task[h].seen = NoRow THEN row ELSE task[h].seen).data,
   status |-> row.status, raced |-> task[h].raced]

Filed(h, row) ==
  [op |-> Current(h), data |-> row.data, status |-> row.status, raced |-> task[h].raced]

With(f, n, v) == [m \in DOMAIN f \cup {n} |-> IF m = n THEN v ELSE f[m]]

(* The INSERT of the revision row.  The unique index on (record_id, revision)
   refuses a number that is taken, which only the holder of the record's row
   lock could have taken since the count. *)
FileRevision(h) ==
  /\ task[h].step = "file"
  /\ LET r == Current(h).record IN
       /\ task[h].number \notin Numbers(h, r)
       /\ task' = [task EXCEPT
            ![h].step = "audit",
            ![h].filed[r] = With(@, task[h].number, Filed(h, task[h].wrote[r]))]
  /\ UNCHANGED committed

(* A mutant of AuditMutation: the audit row is not part of the transaction. *)
AuditOutsideTransaction(h) ==
  /\ task[h].step = "audit"
  /\ task' = [task EXCEPT ![h].step = StepFor(Tail(task[h].todo)),
                          ![h].todo = Tail(@), ![h].seen = NoRow, ![h].raced = FALSE]
  /\ audit' = [audit EXCEPT ![Current(h).record] = @ + 1]
  /\ UNCHANGED <<record, revision>>

(* recordMutationAuditWithClient, the operation's last statement. *)
AuditMutation(h) ==
  /\ task[h].step = "audit"
  /\ task' = [task EXCEPT ![h].step = StepFor(Tail(task[h].todo)),
                          ![h].todo = Tail(@), ![h].seen = NoRow, ![h].raced = FALSE,
                          ![h].noted[Current(h).record] = @ + 1]
  /\ UNCHANGED committed

Joined(f, g) ==
  [n \in DOMAIN f \cup DOMAIN g |-> IF n \in DOMAIN g THEN g[n] ELSE f[n]]

Commit(h) ==
  /\ task[h].step = "commit"
  /\ record' = [r \in Record |-> Sees(h, r)]
  /\ revision' = [r \in Record |-> Joined(revision[r], task[h].filed[r])]
  /\ audit' = [r \in Record |-> audit[r] + task[h].noted[r]]
  /\ task' = [task EXCEPT ![h] = Idle]

(* The request is denied, the client goes away, a statement fails or the
   process dies: the deferred Rollback, or the database, undoes it all. *)
Abandon(h) ==
  /\ task[h] # Idle
  /\ GiveUp(h)

(* PostgreSQL fails one statement of a set of transactions that all wait for
   each other. *)
Waiting(h, G) ==
  /\ task[h] # Idle
  /\ task[h].step = "write"
  /\ \E g \in G \ {h} : Wrote(g, Current(h).record)

DeadlockVictim(h) ==
  /\ \E G \in SUBSET Handler : h \in G /\ \A g \in G : Waiting(g, G)
  /\ GiveUp(h)

WriteRecord(h) ==
  CreateRecord(h) \/ CreateConflict(h) \/ UpdateRecord(h) \/ ChangeStatus(h)

Statement(h) ==
  \/ ReadRecord(h) \/ RecordNotFound(h)
  \/ ReloadRecord(h) \/ ReloadMissing(h)
  \/ FileRevision(h) \/ AuditMutation(h)
  \/ Commit(h)

Next ==
  \E h \in Handler :
    \/ \E call \in Call : Admit(h, call)
    \/ Statement(h)
    \/ WriteRecord(h)
    \/ Abandon(h)
    \/ DeadlockVictim(h)

Spec == Init /\ [][Next]_vars

(* A handler whose statement can run runs it.  A write may have to wait again
   and again for others that come and go, but PostgreSQL queues the waiters of
   a row, so a write that can run over and over runs in the end; and its
   deadlock detector fails a statement of every deadlock. *)
Fairness ==
  \A h \in Handler :
    /\ WF_vars(Statement(h))
    /\ SF_vars(WriteRecord(h))
    /\ WF_vars(DeadlockVictim(h))

FairSpec == Spec /\ Fairness

-----------------------------------------------------------------------------
(* Properties.                                                             *)

IsRevisions(f) == DOMAIN f \subseteq Nat /\ f \in [DOMAIN f -> Version]

TaskOK(t) ==
  /\ t = [step |-> t.step, todo |-> t.todo, seen |-> t.seen, raced |-> t.raced,
          number |-> t.number, wrote |-> t.wrote, filed |-> t.filed, noted |-> t.noted]
  /\ t.step \in Steps
  /\ t.todo \in Seq(Op)
  /\ t.seen \in Row \cup {NoRow}
  /\ t.raced \in BOOLEAN
  /\ t.number \in Nat
  /\ t.wrote \in [Record -> Row \cup {NoRow}]
  /\ DOMAIN t.filed = Record /\ \A r \in Record : IsRevisions(t.filed[r])
  /\ t.noted \in [Record -> Nat]

(* Every variable has its type: in particular a placeholder for a column the
   request leaves out never reaches a row or a revision. *)
TypeOK ==
  /\ record \in [Record -> Row \cup {NoRow}]
  /\ DOMAIN revision = Record /\ \A r \in Record : IsRevisions(revision[r])
  /\ audit \in [Record -> Nat]
  /\ DOMAIN task = Handler /\ \A h \in Handler : task[h] = Idle \/ TaskOK(task[h])

(* However calls race, fail or roll back, the committed revisions of a record
   are numbered 1, 2, ... without a gap, although each number is a count taken
   in a transaction that sees only part of what the others do. *)
RevisionsConsecutive ==
  \A r \in Record :
    /\ DOMAIN revision[r] = 1 .. Cardinality(DOMAIN revision[r])
    /\ record[r] = NoRow <=> revision[r] = NoRevision

(* A call's audit rows commit with its revisions or not at all. *)
EveryRevisionIsAudited ==
  \A r \in Record : audit[r] = Cardinality(DOMAIN revision[r])

(* A PATCH changes nothing it does not carry, unless the record changed
   between the handler's read and its update: then, and only then, it takes
   the others' change back. *)
KeepsWhatWasNotAsked ==
  \A r \in Record : \A n \in DOMAIN revision[r] :
    LET new == revision[r][n] IN
      (n > 1 /\ new.op.kind = "update" /\ ~new.raced) =>
        LET old == revision[r][n - 1] IN
          /\ new.op.data = Keep => new.data = old.data
          /\ new.op.status = Keep => new.status = old.status

(* A deleted record is deleted for good, and an update that read it before it
   was deleted does not change what it held. *)
DeletedStaysDeleted ==
  [][\A r \in Record : record[r] # NoRow /\ record[r].deleted =>
       record'[r].deleted /\ record'[r].data = record[r].data]_vars

(* Histories and current versions, for the store's contract. *)
Shape(v) == [data |-> v.data, status |-> v.status]

Contract == INSTANCE VersionedStore WITH
  Absent  <- NoRow,
  history <- [r \in Record |-> [n \in DOMAIN revision[r] |->
               [kind |-> revision[r][n].op.kind, shape |-> Shape(revision[r][n])]]],
  current <- [r \in Record |->
               IF record[r] = NoRow THEN NoRow ELSE Shape(record[r])]

(* The tables implement the versioned store: the newest revision is the record
   as it is read, revisions are never changed, and a call, whatever its
   operations, adds exactly its revisions at once. *)
ImplementsContract == Contract!Spec

(* No call waits for ever, nor does a failed one keep its row locks: every
   transaction commits or is rolled back. *)
CallsFinish == \A h \in Handler : task[h] # Idle ~> task[h] = Idle
=============================================================================

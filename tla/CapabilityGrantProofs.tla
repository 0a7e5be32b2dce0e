------------------------ MODULE CapabilityGrantProofs ------------------------
(***************************************************************************)
(* Theorems about CapabilityGrant and their proofs.                        *)
(*                                                                         *)
(* IInv collects what the steps of a handler know of the rows they name,   *)
(* the two unique indexes, and the reason an introspection fails closed:   *)
(* where no update of a binding was lost and no row was moved, the epoch   *)
(* of a grant is never ahead of its operation's binding, so a grant that   *)
(* is stale once stays stale.  LineageInv has the depth of the calls: the  *)
(* equation that defines LineageDepth has one solution, because the parent *)
(* of a grant is older than the grant.                                     *)
(***************************************************************************)
EXTENDS CapabilityGrant, TLAPS

(* A handler past its read names a row. *)
HeldRowsExist ==
  \A h \in Handler :
    task[h].step \in {"reissue", "revoke", "introspect", "vouch", "outcome"}
      => task[h].id \in Rows

(* The two unique indexes of the table. *)
IndexesHold ==
  \A i, j \in Rows : Collides(grant[i], grant[j], grant[j].provider) => i = j

(* An operation that nobody disturbed is bound by its own row or not at all. *)
BindingsAtHome ==
  \A op \in Op \ disturbed : /\ BoundTo(op) \subseteq {op}
                             /\ op \in Homes => binding[op].op = op

(* The operation has a binding, and one that has got to the epoch. *)
Reached(op, epoch) == op \in Homes /\ epoch <= binding[op].epoch

(* Where no update was lost, neither a grant nor an answer is ahead of the binding. *)
EpochsBehind ==
  /\ \A i \in Rows : grant[i].op \in disturbed \/ Reached(grant[i].op, grant[i].epoch)
  /\ \A h \in Handler : task[h].step \in {"lookup", "create"} =>
       task[h].req.op \in disturbed \/ Reached(task[h].req.op, task[h].answer.epoch)
  /\ \A op \in Op \ disturbed : \A x \in held[op] : Reached(op, x.epoch)

(* No write clears the column a revocation sets. *)
RevokedAreMarked == \A i \in revoked : grant[i].revokedAt

(* No request past its read has come too late: the read stops those that have. *)
NoneIsLate ==
  \A h \in Handler : task[h].step \in {"introspect", "vouch", "outcome"} => ~task[h].late

(* An introspection of a stale grant is still to find that out. *)
StaleRemain ==
  \A h \in Handler : task[h].step = "introspect" /\ task[h].stale
    => grant[task[h].id].op \in disturbed \/ ~BindingActive(grant[task[h].id])

(* A grant declared missing is inactive, and its outcome is known. *)
MissingIsInactive ==
  \A i \in Rows : grant[i].receipt = MissingReceipt
                     => grant[i].status # "active" /\ grant[i].outcome # "pending"

(* A reconciler pass works with a time that has come. *)
SweepConsistent == sweep # Idle => sweep.at <= now

IInv ==
  /\ TypeOK
  /\ HeldRowsExist
  /\ IndexesHold
  /\ EpochsBehind
  /\ RevokedAreMarked
  /\ BindingsAtHome
  /\ NoneIsLate
  /\ StaleRemain
  /\ FailsClosedIfSerial
  /\ MissingIsInactive
  /\ SweepConsistent

-----------------------------------------------------------------------------
(* Shapes.                                                                 *)

(* The step a handler is at says what it carries. *)
LEMMA TaskShape ==
  ASSUME NEW t \in Task
  PROVE  /\ t.step \in {"lookup", "create"} => t \in IssueTask
         /\ t.step = "reissue" => t \in ReissueTask
         /\ t.step = "revoke" => t \in RevokeTask
         /\ t.step \in {"introspect", "vouch"} => t \in IntrospectTask
         /\ t.step = "outcome" => t \in OutcomeTask
<1>1. t = Idle => t.step = "idle"
  BY DEF Idle
<1>2. t \in IssueTask => t.step \in {"lookup", "create"}
  BY DEF IssueTask
<1>3. t \in ReissueTask => t.step = "reissue"
  BY DEF ReissueTask
<1>4. t \in RevokeTask => t.step = "revoke"
  BY DEF RevokeTask
<1>5. t \in IntrospectTask => t.step \in {"introspect", "vouch"}
  BY DEF IntrospectTask
<1>6. t \in OutcomeTask => t.step = "outcome"
  BY DEF OutcomeTask
<1>7. QED
  BY <1>1, <1>2, <1>3, <1>4, <1>5, <1>6 DEF Task

(* The kinds of task are tasks. *)
LEMMA TaskMembers ==
  /\ Idle \in Task
  /\ IssueTask \subseteq Task
  /\ ReissueTask \subseteq Task
  /\ RevokeTask \subseteq Task
  /\ IntrospectTask \subseteq Task
  /\ OutcomeTask \subseteq Task
BY DEF Task

(* What an issue request carries. *)
LEMMA IssueTaskFields ==
  ASSUME NEW t \in IssueTask
  PROVE  /\ t.req \in Request /\ t.answer \in Answer
         /\ t.req.op \in Op
         /\ t.answer.provider \in Plugin /\ t.answer.epoch \in Nat \ {0}
BY DEF IssueTask, Request, Answer

(* What a pass past its scan carries. *)
LEMMA SweepShape ==
  ASSUME NEW s \in Sweep
  PROVE  s # Idle => s.step = "mark" /\ s.at \in Nat /\ s.batch \subseteq Id
BY DEF Sweep, Idle

(* A row is not the absence of one. *)
LEMMA RowIsPresent ==
  ASSUME NEW row \in Row
  PROVE  row # NoRow
BY DEF Row, NoRow

(* The fields the proofs below need. *)
LEMMA RowFields ==
  ASSUME NEW row \in Row
  PROVE  /\ row.caller \in Plugin /\ row.op \in Op /\ row.key \in Key
         /\ row.payload \in Payload /\ row.provider \in Plugin
         /\ row.epoch \in Nat \ {0}
         /\ row.expiresAt \in Nat /\ row.dueAt \in Nat
BY DEF Row

(* Times to live are added and halved within the naturals. *)
LEMMA TimesAreNatural ==
  ASSUME NEW at \in Nat, NEW ttl \in Ttl
  PROVE  ExpiresAt(at, ttl) \in Nat /\ DueAt(at, ttl) \in Nat
<1>1. ttl \in Nat
  BY ConstantsAssumption
<1>2. ttl \div 2 \in Nat
  BY <1>1
<1>3. QED
  BY <1>1, <1>2 DEF ExpiresAt, DueAt

(* What identifies a row, and what it was issued for. *)
SameIdentity(r, s) ==
  /\ r.caller = s.caller /\ r.op = s.op /\ r.key = s.key
  /\ r.payload = s.payload /\ r.parent = s.parent
  /\ r.provider = s.provider /\ r.epoch = s.epoch

(* The four updates of a row leave a row, and its identity alone. *)
LEMMA UpdatedRows ==
  ASSUME NEW row \in Row
  PROVE  /\ \A at \in Nat, ttl \in Ttl :
              LET r == ReissuedRow(row, at, ttl) IN
                /\ r \in Row /\ SameIdentity(r, row)
                /\ r.status = row.status /\ r.outcome = row.outcome
                /\ r.receipt = row.receipt /\ r.revokedAt = row.revokedAt
         /\ LET r == RevokedRow(row) IN
              /\ r \in Row /\ SameIdentity(r, row)
              /\ r.status = "revoked" /\ r.outcome = row.outcome
              /\ r.receipt = row.receipt /\ r.revokedAt
         /\ \A outcome \in OutcomeStatus, event \in Event :
              LET r == ReceivedRow(row, outcome, event) IN
                /\ r \in Row /\ SameIdentity(r, row)
                /\ r.outcome = outcome /\ r.receipt = event
                /\ r.revokedAt = row.revokedAt
         /\ LET r == MissingRow(row) IN
              /\ r \in Row /\ SameIdentity(r, row)
              /\ r.status = "expired" /\ r.outcome = "missing"
              /\ r.receipt = MissingReceipt /\ r.revokedAt = row.revokedAt
<1>1. ASSUME NEW at \in Nat, NEW ttl \in Ttl
      PROVE  LET r == ReissuedRow(row, at, ttl) IN
                /\ r \in Row /\ SameIdentity(r, row)
                /\ r.status = row.status /\ r.outcome = row.outcome
                /\ r.receipt = row.receipt /\ r.revokedAt = row.revokedAt
  BY TimesAreNatural DEF ReissuedRow, SameIdentity, Row
<1>2. LET r == RevokedRow(row) IN
        /\ r \in Row /\ SameIdentity(r, row)
        /\ r.status = "revoked" /\ r.outcome = row.outcome
        /\ r.receipt = row.receipt /\ r.revokedAt
  BY DEF RevokedRow, SameIdentity, Row
<1>3. ASSUME NEW outcome \in OutcomeStatus, NEW event \in Event
      PROVE  LET r == ReceivedRow(row, outcome, event) IN
                /\ r \in Row /\ SameIdentity(r, row)
                /\ r.outcome = outcome /\ r.receipt = event
                /\ r.revokedAt = row.revokedAt
  BY DEF ReceivedRow, StatusAfter, SameIdentity, Row
<1>4. LET r == MissingRow(row) IN
        /\ r \in Row /\ SameIdentity(r, row)
        /\ r.status = "expired" /\ r.outcome = "missing"
        /\ r.receipt = MissingReceipt /\ r.revokedAt = row.revokedAt
  BY DEF MissingRow, SameIdentity, Row, OutcomeStatus
<1>5. QED
  BY <1>1, <1>2, <1>3, <1>4

(* The row an issue request inserts. *)
LEMMA NewRows ==
  ASSUME NEW req \in Request, NEW x \in Answer, NEW ttl \in Ttl, now \in Nat
  PROVE  /\ NewRow(req, x, ttl) \in Row
         /\ NewRow(req, x, ttl).receipt = NoReceipt
         /\ NewRow(req, x, ttl).outcome = "pending"
         /\ NewRow(req, x, ttl).op = req.op
         /\ NewRow(req, x, ttl).epoch = x.epoch
<1>1. ExpiresAt(now, ttl) \in Nat /\ DueAt(now, ttl) \in Nat
  BY TimesAreNatural
<1>2. QED
  BY <1>1 DEF NewRow, Row, Request, Answer

(* The administrators' requests write bindings, and nothing else. *)
LEMMA BindingsAlone ==
  BindingStep => /\ grant' = grant /\ now' = now /\ task' = task
                 /\ sweep' = sweep /\ revoked' = revoked
<1>1. ASSUME NEW op, NEW p, NEW st, Bind(op, p, st)
      PROVE  UNCHANGED <<grant, now, task, sweep, revoked>>
  BY <1>1 DEF Bind
<1>2. ASSUME NEW b, NEW op, NEW p, NEW st, NEW seen, Rebind(b, op, p, st, seen)
      PROVE  UNCHANGED <<grant, now, task, sweep, revoked>>
  BY <1>2 DEF Rebind
<1> QED  BY <1>1, <1>2 DEF BindingStep

-----------------------------------------------------------------------------
(* What a step does to the ledger: nothing, or one insert the indexes admit,
   or one update of one row.                                               *)
GrantMoves ==
  \/ grant' = grant
  \/ \E h \in Handler : IssueCreate(h) \/ Reissue(h) \/ RevokeWrite(h) \/ OutcomeWrite(h)
  \/ \E i \in Id : SweepMark(i)

(* No other step writes the table. *)
LEMMA StepsMoveGrants == [Next]_vars => GrantMoves
BY BindingsAlone DEF GrantMoves, Next, Requested, HandlerStep, SweepStep, vars,
       IssueAdmit, IssueReissuable, IssueDenied, IssueAbsent, RevokeRead,
       IntrospectRead, IntrospectBinding, IntrospectAnswer, OutcomeRead, Abandon,
       SweepScan, SweepSkip, SweepEnd, Tick

(* The update of the row i, from what it was to r. *)
Updated(i, r) ==
  /\ i \in Rows /\ grant[i] \in Row
  /\ r \in Row /\ SameIdentity(r, grant[i])
  /\ grant[i].revokedAt => r.revokedAt
  /\ grant'[i] = r
  /\ \A j \in Id \ {i} : grant'[j] = grant[j]
  /\ Rows' = Rows

(* An EXCEPT that keeps the identity is an update of the row. *)
LEMMA UpdateOfRow ==
  ASSUME TypeOK, NEW i \in Rows, NEW r \in Row,
         SameIdentity(r, grant[i]), grant[i].revokedAt => r.revokedAt,
         grant' = [grant EXCEPT ![i] = r]
  PROVE  Updated(i, r)
<1>1. grant[i] \in Row
  BY DEF TypeOK, Rows
<1>2. r # NoRow
  BY RowIsPresent
<1>3. QED
  BY <1>1, <1>2 DEF Updated, TypeOK, Rows

(* A reissue moves the times of a row, and nothing else. *)
LEMMA ReissueOfRow ==
  ASSUME TypeOK, HeldRowsExist, NEW h \in Handler, Reissue(h)
  PROVE  \E r : /\ Updated(task[h].id, r)
                /\ r.status = grant[task[h].id].status
                /\ r.outcome = grant[task[h].id].outcome
                /\ r.receipt = grant[task[h].id].receipt
<1>1. task[h].id \in Rows /\ task[h].at \in Nat
  BY TaskShape DEF Reissue, HeldRowsExist, TypeOK, ReissueTask
<1>2. PICK ttl \in Ttl :
        grant' = [grant EXCEPT ![task[h].id] = ReissuedRow(@, task[h].at, ttl)]
  BY DEF Reissue
<1>3. grant[task[h].id] \in Row
  BY <1>1 DEF TypeOK, Rows
<1> DEFINE r == ReissuedRow(grant[task[h].id], task[h].at, ttl)
<1>4. /\ r \in Row /\ SameIdentity(r, grant[task[h].id])
      /\ r.status = grant[task[h].id].status /\ r.outcome = grant[task[h].id].outcome
      /\ r.receipt = grant[task[h].id].receipt
      /\ r.revokedAt = grant[task[h].id].revokedAt
  BY <1>1, <1>3, UpdatedRows
<1>5. grant' = [grant EXCEPT ![task[h].id] = r]
  BY <1>2
<1>6. Updated(task[h].id, r)
  BY <1>1, <1>4, <1>5, UpdateOfRow
<1>7. QED
  BY <1>4, <1>6

(* A revocation keeps the outcome and the receipt. *)
LEMMA RevocationOfRow ==
  ASSUME TypeOK, HeldRowsExist, NEW h \in Handler, RevokeWrite(h)
  PROVE  LET r == RevokedRow(grant[task[h].id]) IN
           /\ Updated(task[h].id, r)
           /\ r.status = "revoked" /\ r.revokedAt
           /\ r.outcome = grant[task[h].id].outcome
           /\ r.receipt = grant[task[h].id].receipt
<1>1. task[h].id \in Rows
  BY DEF RevokeWrite, HeldRowsExist
<1>2. grant[task[h].id] \in Row
  BY <1>1 DEF TypeOK, Rows
<1> DEFINE r == RevokedRow(grant[task[h].id])
<1>3. /\ r \in Row /\ SameIdentity(r, grant[task[h].id])
      /\ r.status = "revoked" /\ r.revokedAt
      /\ r.outcome = grant[task[h].id].outcome
      /\ r.receipt = grant[task[h].id].receipt
  BY <1>2, UpdatedRows
<1>4. grant' = [grant EXCEPT ![task[h].id] = r]
  BY DEF RevokeWrite
<1>5. QED
  BY <1>1, <1>3, <1>4, UpdateOfRow

(* A receipt gives the row an outcome. *)
LEMMA ReceiptOfRow ==
  ASSUME TypeOK, HeldRowsExist, NEW h \in Handler, OutcomeWrite(h)
  PROVE  \E r : /\ Updated(task[h].id, r)
                /\ r.outcome \in OutcomeStatus
                /\ r.receipt \in Event
<1>1. task[h].id \in Rows /\ task[h].outcome \in OutcomeStatus /\ task[h].event \in Event
  BY TaskShape DEF OutcomeWrite, HeldRowsExist, TypeOK, OutcomeTask
<1>2. grant[task[h].id] \in Row
  BY <1>1 DEF TypeOK, Rows
<1> DEFINE r == ReceivedRow(grant[task[h].id], task[h].outcome, task[h].event)
<1>3. /\ r \in Row /\ SameIdentity(r, grant[task[h].id])
      /\ r.outcome = task[h].outcome /\ r.receipt = task[h].event
      /\ r.revokedAt = grant[task[h].id].revokedAt
  BY <1>1, <1>2, UpdatedRows
<1>4. grant' = [grant EXCEPT ![task[h].id] = r]
  BY DEF OutcomeWrite
<1>5. Updated(task[h].id, r)
  BY <1>1, <1>3, <1>4, UpdateOfRow
<1>6. QED
  BY <1>1, <1>3, <1>5

(* The row a pass marks is open and overdue at that very step. *)
LEMMA MarkOfRow ==
  ASSUME TypeOK, SweepConsistent, NEW i \in Id, SweepMark(i)
  PROVE  LET r == MissingRow(grant[i]) IN
           /\ Updated(i, r)
           /\ r.status = "expired" /\ r.outcome = "missing"
           /\ r.receipt = MissingReceipt
           /\ Overdue(grant[i], now)
<1>1. i \in Rows /\ Overdue(grant[i], sweep.at) /\ sweep # Idle
  BY DEF SweepMark, Markable
<1>2. grant[i] \in Row
  BY <1>1 DEF TypeOK, Rows
<1> DEFINE r == MissingRow(grant[i])
<1>3. /\ r \in Row /\ SameIdentity(r, grant[i])
      /\ r.status = "expired" /\ r.outcome = "missing"
      /\ r.receipt = MissingReceipt /\ r.revokedAt = grant[i].revokedAt
  BY <1>2, UpdatedRows
<1>4. grant' = [grant EXCEPT ![i] = r]
  BY DEF SweepMark
<1>5. Updated(i, r)
  BY <1>1, <1>3, <1>4, UpdateOfRow
<1>6. sweep.at \in Nat /\ sweep.at <= now /\ now \in Nat /\ grant[i].dueAt \in Nat
  BY <1>1, <1>2, SweepShape, RowFields, ConstantsAssumption DEF TypeOK, SweepConsistent
<1>7. Overdue(grant[i], now)
  BY <1>1, <1>6 DEF Overdue
<1>8. QED
  BY <1>3, <1>5, <1>7

(* An insert adds one row and leaves the others. *)
LEMMA InsertOfRow ==
  ASSUME TypeOK, NEW h \in Handler, IssueCreate(h)
  PROVE  \E i \in Id \ Rows, ttl \in Ttl :
           LET row == NewRow(task[h].req, task[h].answer, ttl) IN
             /\ task[h].req \in Request /\ task[h].answer \in Answer
             /\ row \in Row /\ row.receipt = NoReceipt /\ row.outcome = "pending"
             /\ row.op = task[h].req.op /\ row.epoch = task[h].answer.epoch
             /\ grant'[i] = row
             /\ \A j \in Id \ {i} : grant'[j] = grant[j]
             /\ Rows' = Rows \cup {i}
<1>1. task[h].req \in Request /\ task[h].answer \in Answer /\ now \in Nat
  BY TaskShape, IssueTaskFields, ConstantsAssumption DEF IssueCreate, TypeOK
<1>2. PICK i \in Id \ Rows, ttl \in Ttl :
        grant' = [grant EXCEPT ![i] = NewRow(task[h].req, task[h].answer, ttl)]
  BY DEF IssueCreate
<1> DEFINE row == NewRow(task[h].req, task[h].answer, ttl)
<1>3. /\ row \in Row /\ row.receipt = NoReceipt /\ row.outcome = "pending"
      /\ row.op = task[h].req.op /\ row.epoch = task[h].answer.epoch
  BY <1>1, NewRows
<1>4. row # NoRow
  BY <1>3, RowIsPresent
<1>5. /\ grant'[i] = row
      /\ \A j \in Id \ {i} : grant'[j] = grant[j]
      /\ Rows' = Rows \cup {i}
  BY <1>2, <1>4 DEF TypeOK, Rows
<1>6. QED
  BY <1>1, <1>3, <1>5

-----------------------------------------------------------------------------
(* Rows stay, keep their identity, and stay revoked once they are.         *)
RowsEndure ==
  \A i \in Rows : /\ i \in Rows'
                  /\ SameIdentity(grant'[i], grant[i])
                  /\ grant[i].revokedAt => grant'[i].revokedAt

(* No step deletes a row or changes what it was begun for. *)
LEMMA StepsKeepRows ==
  TypeOK /\ HeldRowsExist /\ SweepConsistent /\ [Next]_vars
    => RowsEndure /\ grant' \in [Id -> Row \cup {NoRow}]
<1> SUFFICES ASSUME TypeOK, HeldRowsExist, SweepConsistent, [Next]_vars
             PROVE  RowsEndure /\ grant' \in [Id -> Row \cup {NoRow}]
  OBVIOUS
<1>0. grant \in [Id -> Row \cup {NoRow}]
  BY DEF TypeOK
<1>1. CASE grant' = grant
  BY <1>0, <1>1 DEF RowsEndure, Rows, SameIdentity
<1>2. ASSUME NEW i, NEW r, Updated(i, r), DOMAIN grant' = Id, grant' = [j \in Id |-> grant'[j]]
      PROVE  RowsEndure /\ grant' \in [Id -> Row \cup {NoRow}]
  <2>1. RowsEndure
    BY <1>2 DEF Updated, RowsEndure, SameIdentity, Rows
  <2>2. \A j \in Id : grant'[j] \in Row \cup {NoRow}
    BY <1>0, <1>2 DEF Updated
  <2>3. QED
    BY <1>2, <2>1, <2>2
<1>3. ASSUME NEW x, NEW y, grant' = [grant EXCEPT ![x] = y]
      PROVE  DOMAIN grant' = Id /\ grant' = [j \in Id |-> grant'[j]]
  BY <1>0, <1>3
<1>4. ASSUME NEW h \in Handler, Reissue(h)
      PROVE  RowsEndure /\ grant' \in [Id -> Row \cup {NoRow}]
  <2>1. PICK ttl \in Ttl :
          grant' = [grant EXCEPT ![task[h].id] =
                      ReissuedRow(grant[task[h].id], task[h].at, ttl)]
    BY <1>4 DEF Reissue
  <2>2. QED
    BY <1>2, <1>3, <1>4, <2>1, ReissueOfRow
<1>5. ASSUME NEW h \in Handler, RevokeWrite(h)
      PROVE  RowsEndure /\ grant' \in [Id -> Row \cup {NoRow}]
  <2>1. grant' = [grant EXCEPT ![task[h].id] = RevokedRow(grant[task[h].id])]
    BY <1>5 DEF RevokeWrite
  <2>2. QED
    BY <1>2, <1>3, <1>5, <2>1, RevocationOfRow
<1>6. ASSUME NEW h \in Handler, OutcomeWrite(h)
      PROVE  RowsEndure /\ grant' \in [Id -> Row \cup {NoRow}]
  <2>1. grant' = [grant EXCEPT ![task[h].id] =
                    ReceivedRow(grant[task[h].id], task[h].outcome, task[h].event)]
    BY <1>6 DEF OutcomeWrite
  <2>2. QED
    BY <1>2, <1>3, <1>6, <2>1, ReceiptOfRow
<1>7. ASSUME NEW i \in Id, SweepMark(i)
      PROVE  RowsEndure /\ grant' \in [Id -> Row \cup {NoRow}]
  <2>1. grant' = [grant EXCEPT ![i] = MissingRow(grant[i])]
    BY <1>7 DEF SweepMark
  <2>2. QED
    BY <1>2, <1>3, <1>7, <2>1, MarkOfRow
<1>8. ASSUME NEW h \in Handler, IssueCreate(h)
      PROVE  RowsEndure /\ grant' \in [Id -> Row \cup {NoRow}]
  <2>1. PICK i \in Id \ Rows, ttl \in Ttl :
          /\ NewRow(task[h].req, task[h].answer, ttl) \in Row
          /\ grant'[i] = NewRow(task[h].req, task[h].answer, ttl)
          /\ \A j \in Id \ {i} : grant'[j] = grant[j]
          /\ Rows' = Rows \cup {i}
    BY <1>8, InsertOfRow
  <2>2. RowsEndure
    BY <2>1 DEF RowsEndure, SameIdentity, Rows
  <2>3. grant' = [j \in Id |-> grant'[j]]
    BY <1>0, <1>8 DEF IssueCreate
  <2>4. \A j \in Id : grant'[j] \in Row \cup {NoRow}
    BY <1>0, <2>1
  <2>5. QED
    BY <2>2, <2>3, <2>4
<1>9. QED
  BY <1>1, <1>4, <1>5, <1>6, <1>7, <1>8, StepsMoveGrants DEF GrantMoves

-----------------------------------------------------------------------------
(* What a step does to a handler, and to the bindings.                     *)
IntrospectionOf(i) ==
  [step |-> "introspect", id |-> i, late |-> i \in revoked,
   stale |-> ~BindingActive(grant[i])]

ReceiptFor(i, outcome, event) ==
  [step |-> "outcome", id |-> i, outcome |-> outcome, event |-> event,
   late |-> grant[i].receipt = MissingReceipt]

TaskMove(h) ==
  \/ task'[h] = task[h]
  \/ task'[h] = Idle
  \/ \E req \in Request, x \in Answer :
       /\ Resolvable(req.op, x) /\ CallGraphAllows(req, x)
       /\ task'[h] = [step |-> "lookup", req |-> req, answer |-> x]
  \/ /\ task[h].step = "lookup"
     /\ task'[h] = [task[h] EXCEPT !.step = "create"]
  \/ \E i \in Rows : task'[h] = [step |-> "reissue", id |-> i, at |-> now]
  \/ \E i \in Rows : task'[h] = [step |-> "revoke", id |-> i]
  \/ \E i \in Rows : GrantActive(grant[i]) /\ task'[h] = IntrospectionOf(i)
  \/ /\ task[h].step = "introspect"
     /\ BindingActive(grant[task[h].id])
     /\ task'[h] = [task[h] EXCEPT !.step = "vouch"]
  \/ \E i \in Rows, outcome \in OutcomeStatus, event \in Event :
       /\ grant[i].receipt = MissingReceipt => grant[i].outcome = "pending"
       /\ task'[h] = ReceiptFor(i, outcome, event)

(* The first step of each request. *)
LEMMA RequestedMoves ==
  ASSUME TypeOK, NEW g \in Handler, Requested(g)
  PROVE  \A h \in Handler : TaskMove(h)
<1>0. task \in [Handler -> Task]
  BY DEF TypeOK
<1>1. ASSUME NEW req \in Request, NEW p \in Plugin, NEW e \in 1 .. MaxEpoch,
             IssueAdmit(g, req, [provider |-> p, epoch |-> e])
      PROVE  \A h \in Handler : TaskMove(h)
  <2> DEFINE x == [provider |-> p, epoch |-> e]
  <2>1. x \in Answer
    BY ConstantsAssumption DEF Answer
  <2>2. /\ Resolvable(req.op, x) /\ CallGraphAllows(req, x)
        /\ task' = [task EXCEPT ![g] = [step |-> "lookup", req |-> req, answer |-> x]]
    BY <1>1 DEF IssueAdmit
  <2> HIDE DEF x
  <2>3. QED
    BY <1>0, <2>1, <2>2 DEF TaskMove
<1>2. ASSUME NEW i \in Id, RevokeRead(g, i)
      PROVE  \A h \in Handler : TaskMove(h)
  BY <1>0, <1>2 DEF RevokeRead, TaskMove
<1>3. ASSUME NEW i \in Id, IntrospectRead(g, i)
      PROVE  \A h \in Handler : TaskMove(h)
  BY <1>0, <1>3 DEF IntrospectRead, TaskMove, IntrospectionOf
<1>4. ASSUME NEW i \in Id, NEW outcome \in ReportStatus, NEW event \in Event,
             OutcomeRead(g, i, outcome, event)
      PROVE  \A h \in Handler : TaskMove(h)
  <2>1. /\ i \in Rows /\ outcome \in OutcomeStatus
        /\ task' = [task EXCEPT ![g] = ReceiptFor(i, outcome, event)]
    BY <1>4, ConstantsAssumption DEF OutcomeRead, ReceiptFor
  <2>2. grant[i].receipt = MissingReceipt => grant[i].outcome = "pending"
    BY <1>4 DEF OutcomeRead, MissingReceipt, NoReceipt
  <2> QED
    BY <1>0, <2>1, <2>2 DEF TaskMove
<1>5. QED
  BY <1>1, <1>2, <1>3, <1>4 DEF Requested

(* The later steps of each request. *)
LEMMA HandlerStepMoves ==
  ASSUME TypeOK, NEW g \in Handler, HandlerStep(g)
  PROVE  \A h \in Handler : TaskMove(h)
<1>0. task \in [Handler -> Task]
  BY DEF TypeOK
<1>1. CASE Finish(g)
  BY <1>0, <1>1 DEF Finish, TaskMove
<1>2. CASE IssueReissuable(g)
  <2>1. PICK i \in Rows :
          task' = [task EXCEPT ![g] = [step |-> "reissue", id |-> i, at |-> now]]
    BY <1>2 DEF IssueReissuable
  <2>2. QED
    BY <1>0, <2>1 DEF TaskMove
<1>3. CASE IssueAbsent(g)
  BY <1>0, <1>3 DEF IssueAbsent, TaskMove
<1>4. CASE IntrospectBinding(g)
  <2>1. CASE BindingActive(grant[task[g].id])
    <3>1. /\ task[g].step = "introspect"
          /\ task' = [task EXCEPT ![g] = [task[g] EXCEPT !.step = "vouch"]]
      BY <1>0, <1>4, <2>1 DEF IntrospectBinding
    <3>2. QED
      BY <1>0, <2>1, <3>1 DEF TaskMove
  <2>2. CASE ~BindingActive(grant[task[g].id])
    <3>1. task' = [task EXCEPT ![g] = Idle]
      BY <1>0, <1>4, <2>2 DEF IntrospectBinding
    <3>2. QED
      BY <1>0, <3>1 DEF TaskMove
  <2>3. QED
    BY <2>1, <2>2
<1>5. IssueDenied(g) \/ Reissue(g) \/ IssueCreate(g) \/ RevokeWrite(g)
        \/ IntrospectAnswer(g) \/ OutcomeWrite(g) \/ Abandon(g) => Finish(g)
  BY DEF IssueDenied, Reissue, IssueCreate, RevokeWrite, IntrospectAnswer, OutcomeWrite,
         Abandon
<1>6. QED
  BY <1>1, <1>2, <1>3, <1>4, <1>5 DEF HandlerStep

(* Every step moves a handler by one of the moves above, or not at all. *)
LEMMA StepsMoveTasks ==
  ASSUME TypeOK, [Next]_vars
  PROVE  \A h \in Handler : TaskMove(h)
<1>1. CASE task' = task
  BY <1>1 DEF TaskMove
<1>2. ASSUME NEW g \in Handler, Requested(g) \/ HandlerStep(g)
      PROVE  \A h \in Handler : TaskMove(h)
  BY <1>2, RequestedMoves, HandlerStepMoves
<1>3. SweepStep \/ Tick \/ UNCHANGED vars \/ BindingStep
      => task' = task
  BY BindingsAlone DEF SweepStep, SweepScan, SweepMark, SweepSkip, SweepEnd, Tick, vars
<1>4. QED
  BY <1>1, <1>2, <1>3 DEF Next

(* A step leaves an undisturbed binding alone or raises its epoch, and adds to
   the answers at most what the binding is now. *)
BindingMoves ==
  /\ disturbed \subseteq disturbed'
  /\ \A op \in Op \ disturbed' :
       /\ op \in Homes => op \in Homes' /\ binding[op].epoch <= binding'[op].epoch
       /\ \A x \in held'[op] : x \in held[op] \/ Reached(op, x.epoch)'
       /\ \A row \in Row : /\ row.op = op /\ Reached(op, row.epoch)
                           /\ ~BindingActive(row)
                         => ~BindingActive(row)'

BindingType ==
  /\ binding \in [Op -> Binding \cup {Unbound}]
  /\ latest \in [Op -> Nat]
  /\ held \in [Op -> SUBSET Answer]
  /\ disturbed \subseteq Op

(* A bound row is not the absence of one. *)
LEMMA BindingIsPresent ==
  ASSUME NEW b \in Binding
  PROVE  /\ b # Unbound
         /\ b.op \in Op /\ b.provider \in Plugin /\ b.epoch \in Nat \ {0}
BY DEF Binding, Unbound

(* What HeldWith adds. *)
LEMMA HeldGrows ==
  ASSUME BindingType, NEW row \in Binding
  PROVE  /\ HeldWith(row) \in [Op -> SUBSET Answer]
         /\ \A op \in Op : \A x \in HeldWith(row)[op] :
              x \in held[op] \/ (op = row.op /\ x.epoch = row.epoch)
<1>1. row.op \in Op /\ [provider |-> row.provider, epoch |-> row.epoch] \in Answer
  BY BindingIsPresent DEF Answer
<1> QED  BY <1>1 DEF HeldWith, BindingType

(* The first binding of an operation disturbs no other. *)
LEMMA BindMoves ==
  ASSUME BindingType, BindingsAtHome, NEW o \in Op, NEW p \in Plugin,
         NEW st \in BindStatus, Bind(o, p, st)
  PROVE  BindingType' /\ BindingMoves /\ BindingsAtHome'
<1> DEFINE row == [op |-> o, provider |-> p, epoch |-> 1, status |-> st]
<1>1. row \in Binding /\ row # Unbound /\ row.op = o /\ row.epoch = 1
  <2>1. row \in Binding
    BY ConstantsAssumption DEF Binding
  <2> QED  BY <2>1, BindingIsPresent
<1>2. /\ binding' = [binding EXCEPT ![o] = row] /\ latest' = [latest EXCEPT ![o] = 1]
      /\ held' = HeldWith(row) /\ disturbed' = disturbed
      /\ binding[o] = Unbound /\ BoundTo(o) = {}
  BY DEF Bind
<1> HIDE DEF row
<1>3. BindingType'
  BY <1>1, <1>2, HeldGrows DEF BindingType
<1>4. /\ \A op \in Op : op # o => binding'[op] = binding[op]
      /\ binding'[o] = row
      /\ o \notin Homes /\ Homes' = Homes \cup {o}
  BY <1>1, <1>2 DEF BindingType, Homes
<1>5. BindingsAtHome'
  BY <1>1, <1>2, <1>4 DEF BindingsAtHome, BoundTo, Homes
<1>6. ASSUME NEW op \in Op \ disturbed'
      PROVE  /\ op \in Homes => op \in Homes' /\ binding[op].epoch <= binding'[op].epoch
             /\ \A x \in held'[op] : x \in held[op] \/ Reached(op, x.epoch)'
             /\ \A r \in Row : /\ r.op = op /\ Reached(op, r.epoch)
                               /\ ~BindingActive(r)
                             => ~BindingActive(r)'
  <2>1. op \in Homes => op # o /\ binding[op] \in Binding
    BY <1>4 DEF BindingType, Homes
  <2>2. op \in Homes => op \in Homes' /\ binding[op].epoch <= binding'[op].epoch
    BY <1>4, <2>1, BindingIsPresent
  <2>3. \A x \in held'[op] : x \in held[op] \/ Reached(op, x.epoch)'
    <3>1. \A x \in held'[op] : x \in held[op] \/ (op = o /\ x.epoch = 1)
      BY <1>1, <1>2, HeldGrows
    <3>2. o \in Homes' /\ binding'[o].epoch = 1
      BY <1>1, <1>4
    <3> QED  BY <3>1, <3>2 DEF Reached
  <2>4. ASSUME NEW r \in Row, r.op = op, Reached(op, r.epoch), ~BindingActive(r)
        PROVE  ~BindingActive(r)'
    <3>1. op # o
      BY <2>1, <2>4 DEF Reached
    <3>2. BoundTo(op)' = BoundTo(op) /\ \A b \in BoundTo(op) : binding'[b] = binding[b]
      BY <1>1, <1>4, <3>1 DEF BoundTo, Homes
    <3> QED  BY <2>4, <3>2 DEF BindingActive
  <2> QED  BY <2>2, <2>3, <2>4
<1> QED  BY <1>2, <1>3, <1>5, <1>6 DEF BindingMoves

(* An update raises the epoch of its operation's binding, or disturbs it. *)
LEMMA RebindMoves ==
  ASSUME BindingType, BindingsAtHome, NEW b \in Op, NEW o \in Op, NEW p \in Plugin,
         NEW st \in BindStatus, NEW seen \in 1 .. MaxEpoch, Rebind(b, o, p, st, seen)
  PROVE  BindingType' /\ BindingMoves /\ BindingsAtHome'
<1> DEFINE row == [op |-> o, provider |-> p, epoch |-> RebindEpoch(seen), status |-> st]
<1>1. row \in Binding /\ row # Unbound /\ row.op = o /\ row.epoch = seen + 1
      /\ seen \in Nat
  <2>1. row \in Binding /\ row.epoch = seen + 1 /\ seen \in Nat
    BY ConstantsAssumption DEF Binding, RebindEpoch
  <2> QED  BY <2>1, BindingIsPresent
<1>2. /\ binding' = [binding EXCEPT ![b] = row]
      /\ latest' = [latest EXCEPT ![b] = IF row.epoch > @ THEN row.epoch ELSE @]
      /\ held' = HeldWith(row)
      /\ disturbed' = IF seen = binding[b].epoch /\ o = binding[b].op
                      THEN disturbed ELSE disturbed \cup {o, binding[b].op}
      /\ b \in Homes /\ BoundTo(o) \subseteq {b}
  BY DEF Rebind
<1> HIDE DEF row
<1>3. binding[b] \in Binding /\ binding[b].op \in Op /\ binding[b].epoch \in Nat
      /\ b \in BoundTo(binding[b].op)
  BY <1>2, BindingIsPresent DEF BindingType, Homes, BoundTo
<1>4. BindingType'
  <2>1. row.epoch \in Nat
    BY <1>1
  <2> QED  BY <1>1, <1>2, <1>3, <2>1, HeldGrows DEF BindingType
<1>5. /\ \A op \in Op : op # b => binding'[op] = binding[op]
      /\ binding'[b] = row
      /\ Homes' = Homes
  BY <1>1, <1>2 DEF BindingType, Homes
<1>6. \A op \in Op \ disturbed' :
        /\ op \notin disturbed
        /\ op = binding[b].op \/ op = o => op = b /\ o = b /\ binding[b].op = b
                                         /\ seen = binding[b].epoch
  <2> SUFFICES ASSUME NEW op \in Op \ disturbed', op = binding[b].op \/ op = o
               PROVE  op = b /\ o = b /\ binding[b].op = b /\ seen = binding[b].epoch
    BY <1>2
  <2>1. seen = binding[b].epoch /\ o = binding[b].op /\ op \notin disturbed
    BY <1>2
  <2>2. BoundTo(op) \subseteq {op} /\ b \in BoundTo(op)
    BY <1>3, <2>1 DEF BindingsAtHome
  <2> QED  BY <2>1, <2>2
<1>7. BindingsAtHome'
  <2> SUFFICES ASSUME NEW op \in Op \ disturbed'
               PROVE  /\ BoundTo(op)' \subseteq {op}
                      /\ op \in Homes' => binding'[op].op = op
    BY DEF BindingsAtHome
  <2>1. BoundTo(op) \subseteq {op} /\ (op \in Homes => binding[op].op = op)
    BY <1>6 DEF BindingsAtHome
  <2>2. BoundTo(op)' \subseteq {op}
    BY <1>1, <1>5, <1>6, <2>1 DEF BoundTo, Homes
  <2>3. op \in Homes' => binding'[op].op = op
    <3>1. CASE op = b
      BY <1>1, <1>2, <1>5, <1>6, <2>1, <3>1
    <3>2. CASE op # b
      BY <1>5, <2>1, <3>2
    <3> QED  BY <3>1, <3>2
  <2> QED  BY <2>2, <2>3
<1>8. ASSUME NEW op \in Op \ disturbed'
      PROVE  /\ op \in Homes => op \in Homes' /\ binding[op].epoch <= binding'[op].epoch
             /\ \A x \in held'[op] : x \in held[op] \/ Reached(op, x.epoch)'
             /\ \A r \in Row : /\ r.op = op /\ Reached(op, r.epoch)
                               /\ ~BindingActive(r)
                             => ~BindingActive(r)'
  <2>1. /\ BoundTo(op) \subseteq {op} /\ BoundTo(op)' \subseteq {op}
        /\ op \in Homes => binding[op].op = op
    BY <1>6, <1>7 DEF BindingsAtHome
  <2>2. op = b => seen = binding[b].epoch /\ o = b
    BY <1>2, <1>6, <2>1
  <2>3. op \in Homes => /\ op \in Homes' /\ binding[op].epoch \in Nat
                        /\ op = b => binding'[op].epoch = binding[op].epoch + 1
                        /\ op # b => binding'[op] = binding[op]
    <3>1. op \in Homes => binding[op] \in Binding
      BY DEF BindingType, Homes
    <3> QED  BY <1>1, <1>5, <2>2, <3>1, BindingIsPresent
  <2>4. op \in Homes => op \in Homes' /\ binding[op].epoch <= binding'[op].epoch
    BY <2>3
  <2>5. \A x \in held'[op] : x \in held[op] \/ Reached(op, x.epoch)'
    <3>1. \A x \in held'[op] : x \in held[op] \/ (op = o /\ x.epoch = row.epoch)
      BY <1>1, <1>2, HeldGrows
    <3>2. op = o => op = b /\ op \in Homes' /\ binding'[op].epoch = row.epoch
      BY <1>2, <1>5, <1>6
    <3>3. row.epoch \in Nat
      BY <1>1
    <3> QED  BY <3>1, <3>2, <3>3 DEF Reached
  <2>6. ASSUME NEW r \in Row, r.op = op, Reached(op, r.epoch), ~BindingActive(r)
        PROVE  ~BindingActive(r)'
    <3>1. op \in Homes /\ r.epoch \in Nat /\ r.epoch <= binding[op].epoch
      BY <2>6, RowFields DEF Reached
    <3>2. CASE op = b
      <4>1. binding'[op].epoch # r.epoch
        BY <2>3, <3>1, <3>2
      <4> QED  BY <2>1, <2>6, <4>1 DEF BindingActive
    <3>3. CASE op # b
      <4>1. binding'[op] = binding[op] /\ op \in BoundTo(op)
        BY <2>1, <2>3, <3>1, <3>3 DEF BoundTo
      <4> QED  BY <2>1, <2>6, <4>1 DEF BindingActive
    <3> QED  BY <3>2, <3>3
  <2> QED  BY <2>4, <2>5, <2>6
<1>9. disturbed \subseteq disturbed'
  BY <1>2
<1> QED  BY <1>4, <1>7, <1>8, <1>9 DEF BindingMoves

(* A step that leaves the bindings alone leaves them as they are. *)
LEMMA BindingsRest ==
  ASSUME BindingType, BindingsAtHome, UNCHANGED bindings
  PROVE  BindingType' /\ BindingMoves /\ BindingsAtHome'
<1>1. /\ binding' = binding /\ latest' = latest /\ held' = held
      /\ disturbed' = disturbed /\ Homes' = Homes
  BY DEF bindings, Homes
<1>2. \A op : BoundTo(op)' = BoundTo(op)
  BY <1>1 DEF BoundTo
<1>3. \A row : BindingActive(row)' <=> BindingActive(row)
  BY <1>1, <1>2 DEF BindingActive
<1>4. \A op \in Homes : binding[op].epoch <= binding'[op].epoch
  <2>1. \A op \in Homes : binding[op] \in Binding
    BY DEF BindingType, Homes
  <2> QED  BY <1>1, <2>1, BindingIsPresent
<1> QED  BY <1>1, <1>2, <1>3, <1>4 DEF BindingType, BindingMoves, BindingsAtHome

(* Nothing but the administrators' requests writes a binding. *)
LEMMA StepsMoveBindings ==
  ASSUME TypeOK, BindingsAtHome, [Next]_vars
  PROVE  BindingType' /\ BindingMoves /\ BindingsAtHome'
<1>1. BindingType
  BY DEF TypeOK, BindingType
<1>2. CASE BindingStep
  BY <1>1, <1>2, BindMoves, RebindMoves DEF BindingStep
<1>3. UNCHANGED vars => UNCHANGED bindings
  BY DEF vars, bindings
<1>4. Next => UNCHANGED bindings \/ BindingStep
  BY DEF Next, Requested, HandlerStep, SweepStep,
         IssueAdmit, IssueReissuable, IssueDenied, IssueAbsent, Reissue, IssueCreate,
         RevokeRead, RevokeWrite, IntrospectRead, IntrospectBinding, IntrospectAnswer,
         OutcomeRead, OutcomeWrite, Abandon, SweepScan, SweepMark, SweepSkip, SweepEnd, Tick
<1> QED  BY <1>1, <1>2, <1>3, <1>4, BindingsRest

-----------------------------------------------------------------------------
(* Types.                                                                  *)
LEMMA TasksStayOfHandlers ==
  ASSUME TypeOK, [Next]_vars
  PROVE  task' = [h \in Handler |-> task'[h]]
<1>0. task \in [Handler -> Task]
  BY DEF TypeOK
<1>1. ASSUME NEW g, NEW t, task' = [task EXCEPT ![g] = t]
      PROVE  task' = [h \in Handler |-> task'[h]]
  BY <1>0, <1>1
<1>2. CASE task' = task
  BY <1>0, <1>2
<1>3. ASSUME NEW g \in Handler, Requested(g)
      PROVE  task' = [h \in Handler |-> task'[h]]
  BY <1>1, <1>3 DEF Requested, IssueAdmit, RevokeRead, IntrospectRead, OutcomeRead
<1>4. ASSUME NEW g \in Handler, HandlerStep(g)
      PROVE  task' = [h \in Handler |-> task'[h]]
  <2>1. CASE Finish(g)
    BY <1>1, <2>1 DEF Finish
  <2>2. CASE IssueReissuable(g)
    BY <1>1, <2>2 DEF IssueReissuable
  <2>3. CASE IssueAbsent(g)
    <3>1. task' = [task EXCEPT ![g] = [task[g] EXCEPT !.step = "create"]]
      BY <1>0, <2>3 DEF IssueAbsent
    <3>2. QED
      BY <1>1, <3>1
  <2>4. CASE IntrospectBinding(g)
    <3>1. \E t : task' = [task EXCEPT ![g] = t]
      BY <1>0, <2>4 DEF IntrospectBinding
    <3>2. QED
      BY <1>1, <3>1
  <2>5. IssueDenied(g) \/ Reissue(g) \/ IssueCreate(g) \/ RevokeWrite(g)
          \/ IntrospectAnswer(g) \/ OutcomeWrite(g) \/ Abandon(g) => Finish(g)
    BY DEF IssueDenied, Reissue, IssueCreate, RevokeWrite, IntrospectAnswer, OutcomeWrite,
           Abandon
  <2>6. QED
    BY <1>4, <2>1, <2>2, <2>3, <2>4, <2>5 DEF HandlerStep
<1>5. SweepStep \/ Tick \/ UNCHANGED vars \/ BindingStep
      => task' = task
  BY BindingsAlone DEF SweepStep, SweepScan, SweepMark, SweepSkip, SweepEnd, Tick, vars
<1>6. QED
  BY <1>2, <1>3, <1>4, <1>5 DEF Next

(* Every handler keeps a task. *)
LEMMA NextTaskType ==
  ASSUME TypeOK, [Next]_vars
  PROVE  task' \in [Handler -> Task]
<1>1. ASSUME NEW h \in Handler
      PROVE  task'[h] \in Task
  <2>0. task[h] \in Task /\ now \in Nat /\ Rows \subseteq Id
    BY ConstantsAssumption DEF TypeOK, Rows
  <2>1. CASE task'[h] = task[h] \/ task'[h] = Idle
    BY <2>0, <2>1, TaskMembers
  <2>2. ASSUME NEW req \in Request, NEW x \in Answer,
               task'[h] = [step |-> "lookup", req |-> req, answer |-> x]
        PROVE  task'[h] \in Task
    <3>1. task'[h] \in IssueTask
      BY <2>2 DEF IssueTask
    <3>2. QED
      BY <3>1, TaskMembers
  <2>3. CASE /\ task[h].step = "lookup"
             /\ task'[h] = [task[h] EXCEPT !.step = "create"]
    <3>1. task[h] \in IssueTask
      BY <2>0, <2>3, TaskShape
    <3>2. task'[h] \in IssueTask
      BY <2>3, <3>1 DEF IssueTask
    <3>3. QED
      BY <3>2, TaskMembers
  <2>4. ASSUME NEW i \in Rows, task'[h] = [step |-> "reissue", id |-> i, at |-> now]
        PROVE  task'[h] \in Task
    <3>1. task'[h] \in ReissueTask
      BY <2>0, <2>4 DEF ReissueTask
    <3>2. QED
      BY <3>1, TaskMembers
  <2>5. ASSUME NEW i \in Rows, task'[h] = [step |-> "revoke", id |-> i]
        PROVE  task'[h] \in Task
    <3>1. task'[h] \in RevokeTask
      BY <2>0, <2>5 DEF RevokeTask
    <3>2. QED
      BY <3>1, TaskMembers
  <2>6. ASSUME NEW i \in Rows, task'[h] = IntrospectionOf(i)
        PROVE  task'[h] \in Task
    <3>1. PICK stale \in BOOLEAN : stale = ~BindingActive(grant[i])
      OBVIOUS
    <3>2. task'[h] \in IntrospectTask
      BY <2>0, <2>6, <3>1 DEF IntrospectTask, IntrospectionOf
    <3>3. QED
      BY <3>2, TaskMembers
  <2>7. CASE /\ task[h].step = "introspect"
             /\ task'[h] = [task[h] EXCEPT !.step = "vouch"]
    <3>1. task[h] \in IntrospectTask
      BY <2>0, <2>7, TaskShape
    <3>2. task'[h] \in IntrospectTask
      BY <2>7, <3>1 DEF IntrospectTask
    <3>3. QED
      BY <3>2, TaskMembers
  <2>8. ASSUME NEW i \in Rows, NEW outcome \in OutcomeStatus, NEW event \in Event,
               task'[h] = ReceiptFor(i, outcome, event)
        PROVE  task'[h] \in Task
    <3>1. task'[h] \in OutcomeTask
      BY <2>0, <2>8 DEF OutcomeTask, ReceiptFor
    <3>2. QED
      BY <3>1, TaskMembers
  <2>9. TaskMove(h)
    BY StepsMoveTasks
  <2>10. QED
    BY <2>1, <2>2, <2>3, <2>4, <2>5, <2>6, <2>7, <2>8, <2>9 DEF TaskMove
<1>2. QED
  BY <1>1, TasksStayOfHandlers

(* The reconciler and the clock keep their types, and a pass the time it began with. *)
LEMMA NextSweepType ==
  ASSUME TypeOK, SweepConsistent, [Next]_vars
  PROVE  /\ sweep' \in Sweep
         /\ now' \in 0 .. MaxTime
         /\ SweepConsistent'
<1>0. now \in 0 .. MaxTime /\ now \in Nat /\ MaxTime \in Nat /\ sweep \in Sweep
  BY ConstantsAssumption DEF TypeOK
<1>1. CASE sweep' = sweep /\ (now' = now \/ Tick)
  <2>1. now' \in 0 .. MaxTime /\ now <= now'
    BY <1>0, <1>1 DEF Tick
  <2>2. sweep # Idle => sweep.at \in Nat
    BY <1>0, SweepShape
  <2>3. QED
    BY <1>0, <1>1, <2>1, <2>2 DEF SweepConsistent
<1>2. CASE SweepScan
  <2>1. now' = now
    BY <1>2 DEF SweepScan
  <2>2. PICK B \in SUBSET Id : sweep' = [step |-> "mark", at |-> now, batch |-> B]
    BY <1>2 DEF SweepScan, OldestFirst, Rows
  <2>3. sweep' \in Sweep /\ sweep'.at = now
    BY <1>0, <2>2 DEF Sweep
  <2>4. QED
    BY <1>0, <2>1, <2>3 DEF SweepConsistent
<1>3. ASSUME NEW i \in Id, SweepMark(i) \/ SweepSkip(i)
      PROVE  /\ sweep' \in Sweep
             /\ now' \in 0 .. MaxTime
             /\ SweepConsistent'
  <2>1. sweep # Idle /\ now' = now /\ sweep' = [sweep EXCEPT !.batch = @ \ {i}]
    BY <1>3 DEF SweepMark, SweepSkip
  <2>2. sweep \in [step : {"mark"}, at : Nat, batch : SUBSET Id]
    BY <1>0, <2>1 DEF Sweep
  <2>3. sweep' \in [step : {"mark"}, at : Nat, batch : SUBSET Id] /\ sweep'.at = sweep.at
    BY <2>1, <2>2
  <2>4. QED
    BY <1>0, <2>1, <2>3 DEF Sweep, SweepConsistent
<1>4. CASE SweepEnd
  BY <1>0, <1>4 DEF SweepEnd, Sweep, SweepConsistent
<1>5. ASSUME NEW h \in Handler, Requested(h) \/ HandlerStep(h)
      PROVE  sweep' = sweep /\ now' = now
  BY <1>5 DEF Requested, HandlerStep, IssueAdmit, IssueReissuable, IssueDenied, IssueAbsent,
              Reissue, IssueCreate, RevokeRead, RevokeWrite, IntrospectRead,
              IntrospectBinding, IntrospectAnswer, OutcomeRead, OutcomeWrite, Abandon
<1>6. UNCHANGED vars \/ BindingStep => sweep' = sweep /\ now' = now
  BY BindingsAlone DEF vars
<1>7. Tick => sweep' = sweep
  BY DEF Tick
<1>8. QED
  BY <1>1, <1>2, <1>3, <1>4, <1>5, <1>6, <1>7 DEF Next, SweepStep

(* The history of revocations grows with the writes that revoke. *)
LEMMA StepsRevoke ==
  ASSUME [Next]_vars
  PROVE  revoked' = revoked \/ \E h \in Handler : RevokeWrite(h)
BY BindingsAlone DEF Next, Requested, HandlerStep, SweepStep, vars,
       IssueAdmit, IssueReissuable, IssueDenied, IssueAbsent, Reissue, IssueCreate,
       RevokeRead, IntrospectRead, IntrospectBinding, IntrospectAnswer, OutcomeRead,
       OutcomeWrite, Abandon, SweepScan, SweepMark, SweepSkip, SweepEnd, Tick

(* Only a revocation enters the history, and no write clears its column. *)
LEMMA NextRevoked ==
  ASSUME TypeOK, HeldRowsExist, SweepConsistent, RevokedAreMarked, [Next]_vars
  PROVE  revoked' \subseteq Rows' /\ RevokedAreMarked'
<1>0. RowsEndure /\ revoked \subseteq Rows
  BY StepsKeepRows DEF TypeOK
<1>1. CASE revoked' = revoked
  BY <1>0, <1>1 DEF RowsEndure, RevokedAreMarked
<1>2. ASSUME NEW h \in Handler, RevokeWrite(h)
      PROVE  revoked' \subseteq Rows' /\ RevokedAreMarked'
  <2>1. task[h].id \in Rows /\ task[h].id \in Rows' /\ grant'[task[h].id].revokedAt
    BY <1>2, RevocationOfRow DEF Updated
  <2>2. revoked' = revoked \cup {task[h].id}
    BY <1>2 DEF RevokeWrite
  <2>3. QED
    BY <1>0, <2>1, <2>2 DEF RowsEndure, RevokedAreMarked
<1>3. QED
  BY <1>1, <1>2, StepsRevoke

(* Every step keeps the types. *)
LEMMA NextType ==
  ASSUME TypeOK, HeldRowsExist, SweepConsistent, RevokedAreMarked, BindingsAtHome,
         [Next]_vars
  PROVE  TypeOK'
BY StepsKeepRows, StepsMoveBindings, NextTaskType, NextSweepType, NextRevoked
   DEF TypeOK, BindingType

-----------------------------------------------------------------------------
(* The conjuncts of the invariant, one by one.                             *)
LEMMA NextHeld ==
  ASSUME TypeOK, HeldRowsExist, SweepConsistent, [Next]_vars
  PROVE  HeldRowsExist'
<1> DEFINE Held == {"reissue", "revoke", "introspect", "vouch", "outcome"}
<1>1. \A i \in Rows : i \in Rows'
  BY StepsKeepRows DEF RowsEndure
<1>2. ASSUME NEW h \in Handler, task'[h].step \in Held
      PROVE  task'[h].id \in Rows
  <2>0. task[h] \in Task
    BY DEF TypeOK
  <2>1. CASE task'[h] = task[h]
    BY <1>2, <2>1 DEF HeldRowsExist
  <2>2. CASE task'[h] = Idle
    BY <1>2, <2>2 DEF Idle
  <2>3. ASSUME NEW req \in Request, NEW x \in Answer,
               task'[h] = [step |-> "lookup", req |-> req, answer |-> x]
        PROVE  FALSE
    <3>1. task'[h].step = "lookup"
      BY <2>3
    <3>2. QED
      BY <1>2, <3>1
  <2>4. CASE /\ task[h].step = "lookup"
             /\ task'[h] = [task[h] EXCEPT !.step = "create"]
    <3>1. task[h] \in IssueTask
      BY <2>0, <2>4, TaskShape
    <3>2. task'[h].step = "create"
      BY <2>4, <3>1 DEF IssueTask
    <3>3. QED
      BY <1>2, <3>2
  <2>5. ASSUME NEW i \in Rows,
               \/ task'[h] = [step |-> "reissue", id |-> i, at |-> now]
               \/ task'[h] = [step |-> "revoke", id |-> i]
               \/ task'[h] = IntrospectionOf(i)
        PROVE  task'[h].id \in Rows
    BY <2>5 DEF IntrospectionOf
  <2>6. CASE /\ task[h].step = "introspect"
             /\ task'[h] = [task[h] EXCEPT !.step = "vouch"]
    <3>1. task[h] \in IntrospectTask
      BY <2>0, <2>6, TaskShape
    <3>2. task'[h].id = task[h].id
      BY <2>6, <3>1 DEF IntrospectTask
    <3>3. QED
      BY <2>6, <3>2 DEF HeldRowsExist
  <2>7. ASSUME NEW i \in Rows, NEW outcome \in OutcomeStatus, NEW event \in Event,
               task'[h] = ReceiptFor(i, outcome, event)
        PROVE  task'[h].id \in Rows
    BY <2>7 DEF ReceiptFor
  <2>8. TaskMove(h)
    BY StepsMoveTasks
  <2>9. QED
    BY <2>1, <2>2, <2>3, <2>4, <2>5, <2>6, <2>7, <2>8 DEF TaskMove
<1>3. QED
  BY <1>1, <1>2 DEF HeldRowsExist

(* Whether two rows collide is a matter of their identities. *)
LEMMA CollisionsOfIdentities ==
  ASSUME NEW r, NEW s, NEW u, NEW v, SameIdentity(r, s), SameIdentity(u, v),
         Collides(r, u, u.provider)
  PROVE  Collides(s, v, v.provider)
BY DEF SameIdentity, Collides, SameCall

(* An insert is refused before it breaks a unique index, and no update can. *)
LEMMA NextIndexes ==
  ASSUME TypeOK, HeldRowsExist, SweepConsistent, IndexesHold, [Next]_vars
  PROVE  IndexesHold'
<1>0. RowsEndure
  BY StepsKeepRows
<1>1. CASE Rows' = Rows
  <2> SUFFICES ASSUME NEW i \in Rows, NEW j \in Rows,
                      Collides(grant'[i], grant'[j], grant'[j].provider)
               PROVE  i = j
    BY <1>1 DEF IndexesHold, Collides, SameCall
  <2>1. SameIdentity(grant'[i], grant[i]) /\ SameIdentity(grant'[j], grant[j])
    BY <1>0 DEF RowsEndure
  <2>2. Collides(grant[i], grant[j], grant[j].provider)
    BY <2>1, CollisionsOfIdentities
  <2>3. QED
    BY <2>2 DEF IndexesHold
<1>2. ASSUME NEW h \in Handler, IssueCreate(h)
      PROVE  IndexesHold'
  <2> DEFINE req == task[h].req
             x == task[h].answer
  <2>1. PICK k \in Id \ Rows, ttl \in Ttl :
          /\ grant'[k] = NewRow(req, x, ttl)
          /\ \A j \in Id \ {k} : grant'[j] = grant[j]
          /\ Rows' = Rows \cup {k}
    BY <1>2, InsertOfRow
  <2>2. \A i \in Rows : i \in Id /\ grant'[i] = grant[i]
    BY <2>1 DEF Rows
  <2>3. \A i \in Rows : ~Collides(grant[i], req, x.provider)
    BY <1>2 DEF IssueCreate, IndexesAdmit
  <2>4. /\ grant'[k].caller = req.caller /\ grant'[k].op = req.op
        /\ grant'[k].key = req.key /\ grant'[k].provider = x.provider
    BY <2>1 DEF NewRow
  <2>5. \A i \in Rows : /\ ~Collides(grant'[i], grant'[k], grant'[k].provider)
                        /\ ~Collides(grant'[k], grant'[i], grant'[i].provider)
    BY <2>2, <2>3, <2>4 DEF Collides, SameCall
  <2>6. \A i, j \in Rows : Collides(grant'[i], grant'[j], grant'[j].provider) => i = j
    BY <2>2 DEF IndexesHold
  <2>7. QED
    BY <2>1, <2>5, <2>6 DEF IndexesHold, Collides, SameCall
<1>3. ASSUME NEW h \in Handler, Reissue(h) \/ RevokeWrite(h) \/ OutcomeWrite(h)
      PROVE  Rows' = Rows
  BY <1>3, ReissueOfRow, RevocationOfRow, ReceiptOfRow DEF Updated
<1>4. ASSUME NEW i \in Id, SweepMark(i)
      PROVE  Rows' = Rows
  BY <1>4, MarkOfRow DEF Updated
<1>5. grant' = grant => Rows' = Rows
  BY DEF Rows
<1>6. QED
  BY <1>1, <1>2, <1>3, <1>4, <1>5, StepsMoveGrants DEF GrantMoves

(* What an undisturbed binding has reached it does not fall behind. *)
LEMMA ReachedStays ==
  ASSUME TypeOK, BindingsAtHome, [Next]_vars, NEW op \in Op, NEW epoch \in Nat,
         op \in disturbed \/ Reached(op, epoch)
  PROVE  (op \in disturbed \/ Reached(op, epoch))'
<1>1. BindingMoves /\ BindingType' /\ BindingType
  BY StepsMoveBindings DEF TypeOK, BindingType
<1>2. CASE op \in disturbed'
  BY <1>2
<1>3. CASE op \notin disturbed'
  <2>1. /\ op \in Homes /\ epoch <= binding[op].epoch
        /\ op \in Homes' /\ binding[op].epoch <= binding'[op].epoch
    BY <1>1, <1>3 DEF BindingMoves, Reached
  <2>2. binding[op] \in Binding /\ binding'[op] \in Binding
    BY <1>1, <2>1 DEF BindingType, Homes
  <2>3. binding[op].epoch \in Nat /\ binding'[op].epoch \in Nat
    BY <2>2, BindingIsPresent
  <2> QED  BY <2>1, <2>3 DEF Reached
<1> QED  BY <1>2, <1>3

(* Bindings only move ahead, and a grant takes its epoch from an answer behind them. *)
LEMMA NextEpochs ==
  ASSUME TypeOK, HeldRowsExist, SweepConsistent, BindingsAtHome, EpochsBehind, [Next]_vars
  PROVE  EpochsBehind'
<1>1. BindingMoves /\ BindingType' /\ BindingType
  BY StepsMoveBindings DEF TypeOK, BindingType
<1>2. ASSUME NEW i \in Rows
      PROVE  (grant[i].op \in disturbed \/ Reached(grant[i].op, grant[i].epoch))'
  <2>1. SameIdentity(grant'[i], grant[i])
    BY StepsKeepRows DEF RowsEndure
  <2>2. grant[i].op \in Op /\ grant[i].epoch \in Nat
    BY RowFields DEF TypeOK, Rows
  <2>3. grant'[i].op = grant[i].op /\ grant'[i].epoch = grant[i].epoch
    BY <2>1 DEF SameIdentity
  <2> DEFINE o == grant[i].op
             e == grant[i].epoch
  <2>4. o \in disturbed \/ Reached(o, e)
    BY DEF EpochsBehind
  <2>5. o \in disturbed' \/ (o \in Homes' /\ e <= binding'[o].epoch)
    BY <2>2, <2>4, ReachedStays DEF Reached
  <2> QED
    BY <2>3, <2>5 DEF Reached
<1>3. ASSUME NEW i \in Rows' \ Rows
      PROVE  (grant[i].op \in disturbed \/ Reached(grant[i].op, grant[i].epoch))'
  <2>1. PICK h \in Handler : IssueCreate(h)
    <3>1. ASSUME NEW h \in Handler, Reissue(h) \/ RevokeWrite(h) \/ OutcomeWrite(h)
          PROVE  FALSE
      BY <3>1, ReissueOfRow, RevocationOfRow, ReceiptOfRow DEF Updated
    <3>2. ASSUME NEW j \in Id, SweepMark(j)
          PROVE  FALSE
      BY <3>2, MarkOfRow DEF Updated
    <3>3. grant' = grant => FALSE
      BY DEF Rows
    <3>4. QED
      BY <3>1, <3>2, <3>3, StepsMoveGrants DEF GrantMoves
  <2> DEFINE o == task[h].req.op
             e == task[h].answer.epoch
  <2>2. /\ o \in Op /\ e \in Nat
        /\ o \in disturbed \/ Reached(o, e)
    BY <2>1, TaskShape, IssueTaskFields DEF IssueCreate, TypeOK, EpochsBehind
  <2>3. grant'[i].op = o /\ grant'[i].epoch = e
    BY <2>1, InsertOfRow
  <2>4. o \in disturbed' \/ (o \in Homes' /\ e <= binding'[o].epoch)
    BY <2>2, ReachedStays DEF Reached
  <2> QED
    BY <2>3, <2>4 DEF Reached
<1>4. ASSUME NEW h \in Handler, task'[h].step \in {"lookup", "create"}
      PROVE  (task[h].req.op \in disturbed \/ Reached(task[h].req.op, task[h].answer.epoch))'
  <2>0. task[h] \in Task
    BY DEF TypeOK
  <2>1. CASE /\ task[h].step \in {"lookup", "create"}
             /\ task'[h].req = task[h].req /\ task'[h].answer = task[h].answer
    <3>1. task[h].req.op \in Op /\ task[h].answer.epoch \in Nat
      BY <2>0, <2>1, TaskShape, IssueTaskFields
    <3> DEFINE o == task[h].req.op
               e == task[h].answer.epoch
    <3>2. o \in disturbed \/ Reached(o, e)
      BY <2>1 DEF EpochsBehind
    <3>3. o \in disturbed' \/ (o \in Homes' /\ e <= binding'[o].epoch)
      BY <3>1, <3>2, ReachedStays DEF Reached
    <3>4. QED
      BY <2>1, <3>3 DEF Reached
  <2>2. CASE task'[h] = Idle
    BY <1>4, <2>2 DEF Idle
  <2>3. ASSUME NEW req \in Request, NEW x \in Answer, Resolvable(req.op, x),
               task'[h] = [step |-> "lookup", req |-> req, answer |-> x]
        PROVE  (task[h].req.op \in disturbed \/ Reached(task[h].req.op, task[h].answer.epoch))'
    <3>1. task'[h].req = req /\ task'[h].answer = x
      BY <2>3
    <3>2. req.op \in Op /\ x.epoch \in Nat
      BY DEF Request, Answer
    <3> DEFINE o == req.op
               e == x.epoch
    <3>3. o \in disturbed \/ Reached(o, e)
      BY <2>3, <3>2 DEF Resolvable, EpochsBehind
    <3>4. o \in disturbed' \/ (o \in Homes' /\ e <= binding'[o].epoch)
      BY <3>2, <3>3, ReachedStays DEF Reached
    <3> HIDE DEF o, e
    <3>5. task'[h].req.op = o /\ task'[h].answer.epoch = e
      BY <3>1 DEF o, e
    <3>6. QED
      BY <3>4, <3>5 DEF Reached
  <2>4. CASE /\ task[h].step = "lookup"
             /\ task'[h] = [task[h] EXCEPT !.step = "create"]
    <3>1. task[h] \in IssueTask
      BY <2>0, <2>4, TaskShape
    <3>2. task'[h].req = task[h].req /\ task'[h].answer = task[h].answer
      BY <2>4, <3>1 DEF IssueTask
    <3>3. QED
      BY <2>1, <2>4, <3>2
  <2>5. ASSUME NEW i \in Rows,
               \/ task'[h] = [step |-> "reissue", id |-> i, at |-> now]
               \/ task'[h] = [step |-> "revoke", id |-> i]
               \/ task'[h] = IntrospectionOf(i)
        PROVE  FALSE
    <3>1. task'[h].step \in {"reissue", "revoke", "introspect"}
      BY <2>5 DEF IntrospectionOf
    <3>2. QED
      BY <1>4, <3>1
  <2>6. CASE /\ task[h].step = "introspect"
             /\ task'[h] = [task[h] EXCEPT !.step = "vouch"]
    <3>1. task[h] \in IntrospectTask
      BY <2>0, <2>6, TaskShape
    <3>2. task'[h].step = "vouch"
      BY <2>6, <3>1 DEF IntrospectTask
    <3>3. QED
      BY <1>4, <3>2
  <2>7. ASSUME NEW i \in Rows, NEW outcome \in OutcomeStatus, NEW event \in Event,
               task'[h] = ReceiptFor(i, outcome, event)
        PROVE  FALSE
    <3>1. task'[h].step = "outcome"
      BY <2>7 DEF ReceiptFor
    <3>2. QED
      BY <1>4, <3>1
  <2>8. TaskMove(h)
    BY StepsMoveTasks
  <2>9. task'[h] = task[h] => task[h].step \in {"lookup", "create"}
    BY <1>4
  <2>10. QED
    BY <2>1, <2>2, <2>3, <2>4, <2>5, <2>6, <2>7, <2>8, <2>9 DEF TaskMove
<1>5. ASSUME NEW op \in Op \ disturbed', NEW x \in held'[op]
      PROVE  Reached(op, x.epoch)'
  <2>1. x \in held[op] \/ Reached(op, x.epoch)'
    BY <1>1 DEF BindingMoves
  <2>2. ASSUME x \in held[op]
        PROVE  Reached(op, x.epoch)'
    <3>1. x.epoch \in Nat
      BY <1>1, <2>2 DEF BindingType, Answer
    <3>2. Reached(op, x.epoch)
      BY <1>1, <2>2 DEF EpochsBehind, BindingMoves
    <3>3. (op \in disturbed \/ Reached(op, x.epoch))'
      BY <3>1, <3>2, ReachedStays
    <3> QED  BY <3>3
  <2> QED  BY <2>1, <2>2
<1>6. QED
  BY <1>2, <1>3, <1>4, <1>5 DEF EpochsBehind

(* A grant whose undisturbed binding has moved on is stale for good. *)
LEMMA StaleStays ==
  ASSUME TypeOK, HeldRowsExist, SweepConsistent, BindingsAtHome, EpochsBehind, [Next]_vars,
         NEW i \in Rows, grant[i].op \in disturbed \/ ~BindingActive(grant[i])
  PROVE  (grant[i].op \in disturbed \/ ~BindingActive(grant[i]))'
<1> DEFINE op == grant[i].op
           r  == grant[i]
<1>1. grant[i] \in Row /\ op \in Op /\ grant[i].epoch \in Nat
  BY RowFields DEF TypeOK, Rows
<1>2. SameIdentity(grant'[i], grant[i])
  BY StepsKeepRows DEF RowsEndure
<1>3. grant'[i].op = op /\ grant'[i].epoch = grant[i].epoch
      /\ grant'[i].provider = grant[i].provider
  BY <1>2 DEF SameIdentity
<1>4. BindingMoves
  BY StepsMoveBindings
<1>5. CASE op \in disturbed'
  BY <1>3, <1>5
<1>6. CASE op \notin disturbed'
  <2>1. op \notin disturbed /\ Reached(op, r.epoch) /\ ~BindingActive(r)
    BY <1>4, <1>6 DEF EpochsBehind, BindingMoves
  <2>2. PICK row \in Row : row = r
    BY <1>1
  <2>3. ~BindingActive(row)'
    BY <1>1, <1>4, <1>6, <2>1, <2>2 DEF BindingMoves
  <2>4. /\ row.op = grant'[i].op /\ row.epoch = grant'[i].epoch
        /\ row.provider = grant'[i].provider
    BY <1>3, <2>2
  <2>5. ~BindingActive(grant[i])'
    BY <2>3, <2>4 DEF BindingActive
  <2> QED  BY <2>5
<1>7. QED
  BY <1>5, <1>6

(* Only a task that has just been read, or that was there before, is past its read. *)
LEMMA PastRead ==
  ASSUME TypeOK, HeldRowsExist, [Next]_vars, NEW h \in Handler,
         task'[h].step \in {"introspect", "vouch", "outcome"}
  PROVE  \/ task'[h] = task[h]
         \/ \E i \in Rows : GrantActive(grant[i]) /\ task'[h] = IntrospectionOf(i)
         \/ /\ task[h].step = "introspect" /\ task'[h].step = "vouch"
            /\ task'[h].id = task[h].id
            /\ task'[h].late = task[h].late /\ task'[h].stale = task[h].stale
            /\ BindingActive(grant[task[h].id])
         \/ \E i \in Rows, outcome \in OutcomeStatus, event \in Event :
              /\ grant[i].receipt = MissingReceipt => grant[i].outcome = "pending"
              /\ task'[h] = ReceiptFor(i, outcome, event)
<1>0. task[h] \in Task
  BY DEF TypeOK
<1>1. CASE task'[h] = Idle
  BY <1>1 DEF Idle
<1>2. ASSUME NEW req, NEW x,
             task'[h] = [step |-> "lookup", req |-> req, answer |-> x]
      PROVE  FALSE
  <2>1. task'[h].step = "lookup"
    BY <1>2
  <2> QED  BY <2>1
<1>3. CASE /\ task[h].step = "lookup"
           /\ task'[h] = [task[h] EXCEPT !.step = "create"]
  <2>1. task[h] \in IssueTask
    BY <1>0, <1>3, TaskShape
  <2>2. task'[h].step = "create"
    BY <1>3, <2>1 DEF IssueTask
  <2> QED  BY <2>2
<1>4. ASSUME NEW i, \/ task'[h] = [step |-> "reissue", id |-> i, at |-> now]
                    \/ task'[h] = [step |-> "revoke", id |-> i]
      PROVE  FALSE
  <2>1. task'[h].step \in {"reissue", "revoke"}
    BY <1>4
  <2> QED  BY <2>1
<1>5. CASE /\ task[h].step = "introspect"
           /\ BindingActive(grant[task[h].id])
           /\ task'[h] = [task[h] EXCEPT !.step = "vouch"]
  <2>1. task[h] \in IntrospectTask
    BY <1>0, <1>5, TaskShape
  <2> QED  BY <1>5, <2>1 DEF IntrospectTask
<1>6. TaskMove(h)
  BY StepsMoveTasks
<1> QED
  BY <1>1, <1>2, <1>3, <1>4, <1>5, <1>6 DEF TaskMove

(* A request that comes too late is stopped at its read. *)
LEMMA NextLate ==
  ASSUME TypeOK, HeldRowsExist, RevokedAreMarked, MissingIsInactive, NoneIsLate, [Next]_vars
  PROVE  NoneIsLate'
<1> SUFFICES ASSUME NEW h \in Handler, task'[h].step \in {"introspect", "vouch", "outcome"}
             PROVE  ~task'[h].late
  BY DEF NoneIsLate
<1>1. ASSUME NEW i \in Rows, GrantActive(grant[i]), task'[h] = IntrospectionOf(i)
      PROVE  ~task'[h].late
  <2>1. i \notin revoked
    BY <1>1 DEF GrantActive, RevokedAreMarked
  <2>2. task'[h].late = (i \in revoked)
    BY <1>1 DEF IntrospectionOf
  <2> QED  BY <2>1, <2>2
<1>2. ASSUME NEW i \in Rows, NEW outcome \in OutcomeStatus, NEW event \in Event,
             grant[i].receipt = MissingReceipt => grant[i].outcome = "pending",
             task'[h] = ReceiptFor(i, outcome, event)
      PROVE  ~task'[h].late
  <2>1. grant[i].receipt # MissingReceipt
    BY <1>2 DEF MissingIsInactive
  <2>2. task'[h].late = (grant[i].receipt = MissingReceipt)
    BY <1>2 DEF ReceiptFor
  <2> QED  BY <2>1, <2>2
<1> QED
  BY <1>1, <1>2, PastRead DEF NoneIsLate

(* The binding check stops an introspection of a stale grant, unless the
   binding was disturbed. *)
LEMMA NextStale ==
  ASSUME TypeOK, HeldRowsExist, SweepConsistent, BindingsAtHome, EpochsBehind,
         RevokedAreMarked, MissingIsInactive, NoneIsLate, StaleRemain,
         FailsClosedIfSerial, [Next]_vars
  PROVE  StaleRemain' /\ FailsClosedIfSerial'
<1>0. disturbed \subseteq disturbed' /\ disturbed \subseteq Op
  BY StepsMoveBindings DEF BindingMoves, TypeOK
<1>1. \A i \in Rows : grant'[i].op = grant[i].op
  BY StepsKeepRows DEF RowsEndure, SameIdentity
<1>2. ASSUME NEW h \in Handler, task'[h].step = "introspect", task'[h].stale
      PROVE  (grant[task[h].id].op \in disturbed \/ ~BindingActive(grant[task[h].id]))'
  <2>1. \E i \in Rows : /\ task'[h].id = i
                        /\ grant[i].op \in disturbed \/ ~BindingActive(grant[i])
    <3>1. CASE task'[h] = task[h]
      BY <1>2, <3>1 DEF StaleRemain, HeldRowsExist
    <3>2. ASSUME NEW i \in Rows, task'[h] = IntrospectionOf(i)
          PROVE  task'[h].id = i /\ ~BindingActive(grant[i])
      <4>1. task'[h].id = i /\ task'[h].stale = ~BindingActive(grant[i])
        BY <3>2 DEF IntrospectionOf
      <4> QED  BY <1>2, <4>1
    <3>3. ASSUME NEW i, NEW outcome, NEW event, task'[h] = ReceiptFor(i, outcome, event)
          PROVE  FALSE
      <4>1. task'[h].step = "outcome"
        BY <3>3 DEF ReceiptFor
      <4> QED  BY <1>2, <4>1
    <3> QED  BY <1>2, <3>1, <3>2, <3>3, PastRead
  <2>2. PICK i \in Rows : /\ task'[h].id = i
                          /\ grant[i].op \in disturbed \/ ~BindingActive(grant[i])
    BY <2>1
  <2>3. (grant[i].op \in disturbed \/ ~BindingActive(grant[i]))'
    BY <2>2, StaleStays
  <2> QED
    BY <2>2, <2>3 DEF BindingActive
<1>3. ASSUME NEW h \in Handler, task'[h].step = "vouch", task'[h].stale
      PROVE  grant'[task'[h].id].op \in disturbed'
  <2>1. CASE task'[h] = task[h]
    BY <1>0, <1>1, <1>3, <2>1 DEF FailsClosedIfSerial, HeldRowsExist
  <2>2. CASE /\ task[h].step = "introspect"
             /\ task'[h].id = task[h].id /\ task'[h].stale = task[h].stale
             /\ BindingActive(grant[task[h].id])
    BY <1>0, <1>1, <1>3, <2>2 DEF StaleRemain, HeldRowsExist
  <2>3. ASSUME NEW i, NEW outcome, NEW event,
               task'[h] = ReceiptFor(i, outcome, event) \/ task'[h] = IntrospectionOf(i)
        PROVE  FALSE
    <3>1. task'[h].step \in {"introspect", "outcome"}
      BY <2>3 DEF ReceiptFor, IntrospectionOf
    <3> QED  BY <1>3, <3>1
  <2> QED
    BY <1>3, <2>1, <2>2, <2>3, PastRead
<1>4. StaleRemain'
  BY <1>2 DEF StaleRemain
<1>5. FailsClosedIfSerial'
  <2>1. NoneIsLate'
    BY NextLate
  <2> QED
    BY <1>3, <2>1 DEF FailsClosedIfSerial, NoneIsLate
<1> QED  BY <1>4, <1>5

(* Only a receipt replaces the mark, and nothing else activates the row. *)
LEMMA NextMissing ==
  ASSUME TypeOK, HeldRowsExist, SweepConsistent, MissingIsInactive, [Next]_vars
  PROVE  MissingIsInactive'
<1>1. ASSUME NEW i, NEW r, Updated(i, r),
             r.receipt = MissingReceipt => r.status # "active" /\ r.outcome # "pending"
      PROVE  MissingIsInactive'
  <2> SUFFICES ASSUME NEW j \in Rows, grant'[j].receipt = MissingReceipt
               PROVE  grant'[j].status # "active" /\ grant'[j].outcome # "pending"
    BY <1>1 DEF MissingIsInactive, Updated
  <2>1. CASE j = i
    BY <1>1, <2>1 DEF Updated
  <2>2. CASE j # i
    BY <1>1, <2>2 DEF Updated, MissingIsInactive, Rows
  <2>3. QED
    BY <2>1, <2>2
<1>2. ASSUME NEW h \in Handler, Reissue(h)
      PROVE  MissingIsInactive'
  <2>1. PICK r : /\ Updated(task[h].id, r)
                 /\ r.status = grant[task[h].id].status
                 /\ r.outcome = grant[task[h].id].outcome
                 /\ r.receipt = grant[task[h].id].receipt
    BY <1>2, ReissueOfRow
  <2>2. r.receipt = MissingReceipt => r.status # "active" /\ r.outcome # "pending"
    BY <2>1 DEF Updated, MissingIsInactive
  <2>3. QED
    BY <1>1, <2>1, <2>2
<1>3. ASSUME NEW h \in Handler, RevokeWrite(h)
      PROVE  MissingIsInactive'
  <2> DEFINE r == RevokedRow(grant[task[h].id])
  <2>1. /\ Updated(task[h].id, r) /\ r.status = "revoked"
        /\ r.outcome = grant[task[h].id].outcome /\ r.receipt = grant[task[h].id].receipt
    BY <1>3, RevocationOfRow
  <2> HIDE DEF r
  <2>2. r.receipt = MissingReceipt => r.status # "active" /\ r.outcome # "pending"
    BY <2>1 DEF Updated, MissingIsInactive
  <2>3. QED
    BY <1>1, <2>1, <2>2
<1>4. ASSUME NEW h \in Handler, OutcomeWrite(h)
      PROVE  MissingIsInactive'
  <2>1. PICK r : Updated(task[h].id, r) /\ r.receipt \in Event
    BY <1>4, ReceiptOfRow
  <2>2. r.receipt # MissingReceipt
    BY <2>1, ConstantsAssumption
  <2>3. QED
    BY <1>1, <2>1, <2>2
<1>5. ASSUME NEW i \in Id, SweepMark(i)
      PROVE  MissingIsInactive'
  <2>1. /\ Updated(i, MissingRow(grant[i])) /\ MissingRow(grant[i]).status # "active"
        /\ MissingRow(grant[i]).outcome # "pending"
    BY <1>5, MarkOfRow
  <2>2. QED
    BY <1>1, <2>1
<1>6. ASSUME NEW h \in Handler, IssueCreate(h)
      PROVE  MissingIsInactive'
  <2>1. PICK k \in Id \ Rows, ttl \in Ttl :
          /\ grant'[k] = NewRow(task[h].req, task[h].answer, ttl)
          /\ grant'[k].receipt = NoReceipt
          /\ \A j \in Id \ {k} : grant'[j] = grant[j]
          /\ Rows' = Rows \cup {k}
    BY <1>6, InsertOfRow
  <2>2. grant'[k].receipt # MissingReceipt
    BY <2>1 DEF NoReceipt, MissingReceipt
  <2>3. \A j \in Rows : grant'[j] = grant[j]
    BY <2>1 DEF Rows
  <2>4. QED
    BY <2>1, <2>2, <2>3 DEF MissingIsInactive
<1>7. CASE grant' = grant
  BY <1>7 DEF MissingIsInactive, Rows
<1>8. QED
  BY <1>2, <1>3, <1>4, <1>5, <1>6, <1>7, StepsMoveGrants DEF GrantMoves

(* The first state satisfies the invariant. *)
LEMMA InitInvariant ==
  Init => IInv
<1> SUFFICES ASSUME Init
             PROVE  IInv
  OBVIOUS
<1>1. Rows = {}
  BY DEF Init, Rows
<1>2. \A h \in Handler : task[h] = Idle
  BY DEF Init
<1>3. Idle.step = "idle"
  BY DEF Idle
<1>4. TypeOK
  <2>1. grant \in [Id -> Row \cup {NoRow}] /\ revoked \subseteq Rows
    BY <1>1 DEF Init
  <2>2. /\ binding \in [Op -> Binding \cup {Unbound}] /\ latest \in [Op -> Nat]
        /\ held \in [Op -> SUBSET Answer] /\ disturbed \subseteq Op
    BY DEF Init
  <2>3. now \in 0 .. MaxTime
    BY ConstantsAssumption DEF Init
  <2>4. task \in [Handler -> Task] /\ sweep \in Sweep
    BY TaskMembers DEF Init, Sweep
  <2>5. QED
    BY <2>1, <2>2, <2>3, <2>4 DEF TypeOK
<1>5. HeldRowsExist /\ NoneIsLate /\ StaleRemain /\ FailsClosedIfSerial
  BY <1>2, <1>3 DEF HeldRowsExist, NoneIsLate, StaleRemain, FailsClosedIfSerial
<1>6. EpochsBehind /\ BindingsAtHome
  <2>1. Homes = {} /\ \A op \in Op : held[op] = {}
    BY DEF Init, Homes
  <2> QED
    BY <1>1, <1>2, <1>3, <2>1 DEF EpochsBehind, BindingsAtHome, BoundTo
<1>7. IndexesHold /\ RevokedAreMarked /\ MissingIsInactive /\ SweepConsistent
  BY <1>1 DEF Init, IndexesHold, RevokedAreMarked, MissingIsInactive, SweepConsistent
<1>8. QED
  BY <1>4, <1>5, <1>6, <1>7 DEF IInv

(* The invariant is inductive. *)
LEMMA StepInvariant ==
  IInv /\ [Next]_vars => IInv'
BY NextType, NextHeld, NextIndexes, NextEpochs, NextRevoked, StepsMoveBindings, NextLate,
   NextStale, NextMissing, NextSweepType DEF IInv

-----------------------------------------------------------------------------
(* The invariant holds of every behaviour of the ledger: everything below
   rests on it.                                                            *)
THEOREM Invariance == Spec => []IInv
<1>1. QED
  BY InitInvariant, StepInvariant, PTL DEF Spec

(* Every variable has its type, for every number of grants, plugins and
   handlers. *)
THEOREM TypeCorrect == Spec => []TypeOK
<1>1. IInv => TypeOK
  BY DEF IInv
<1>2. QED
  BY Invariance, <1>1, PTL

(* An introspection that begins after the grant's revocation was written never
   answers that the grant is active, against every interleaving of reissues,
   outcomes, rebindings and reconciler passes.  One that begins after the
   operation was bound anew does not either, unless an administrator's update
   of that operation's binding was lost to another one, or a binding was moved
   to or from the operation: then the provider and the epoch of a replaced
   binding can come back. *)
THEOREM RevocationFailsClosed == Spec => []FailsClosedIfSerial
<1>1. IInv => FailsClosedIfSerial
  BY DEF IInv
<1>2. QED
  BY Invariance, <1>1, PTL

(* A grant that ReconcileCapabilityGrantOutcomes has declared missing stays
   declared and inactive until a receipt overwrites the declaration, and only a
   handler that had read the row before it was marked can do that. *)
THEOREM MissingIsFinal == Spec => MissingStaysInactive
<1> DEFINE Stays(i) ==
      grant[i].receipt = MissingReceipt =>
        \/ grant'[i].receipt = MissingReceipt /\ grant'[i].status # "active"
        \/ \E h \in Handler : /\ task[h].step = "outcome" /\ task[h].id = i
                              /\ ~task[h].late
                              /\ grant'[i].receipt = task[h].event
<1>1. IInv /\ IInv' /\ [Next]_vars => [\A i \in Rows : Stays(i)]_vars
  <2> SUFFICES ASSUME IInv, IInv', Next, NEW i \in Rows, grant[i].receipt = MissingReceipt,
                      grant'[i].receipt # MissingReceipt
               PROVE  \E h \in Handler : /\ task[h].step = "outcome" /\ task[h].id = i
                                         /\ ~task[h].late
                                         /\ grant'[i].receipt = task[h].event
    <3>1. ASSUME IInv, IInv', Next, NEW i \in Rows, grant'[i].receipt = MissingReceipt
          PROVE  grant'[i].status # "active"
      <4>1. i \in Rows'
        BY <3>1, StepsKeepRows DEF IInv, RowsEndure
      <4> QED  BY <3>1, <4>1 DEF IInv, MissingIsInactive
    <3> QED  BY <3>1
  <2>0. /\ TypeOK /\ HeldRowsExist /\ SweepConsistent
        /\ [Next]_vars
    BY DEF IInv
  <2>1. ASSUME NEW k, NEW r, Updated(k, r), r.receipt \in {grant[k].receipt, MissingReceipt}
        PROVE  FALSE
    <3>1. k = i
      BY <2>1 DEF Updated, Rows
    <3>2. QED
      BY <2>1, <3>1 DEF Updated
  <2>2. ASSUME NEW h \in Handler, Reissue(h) \/ RevokeWrite(h)
        PROVE  FALSE
    BY <2>0, <2>1, <2>2, ReissueOfRow, RevocationOfRow
  <2>3. ASSUME NEW k \in Id, SweepMark(k)
        PROVE  FALSE
    BY <2>0, <2>1, <2>3, MarkOfRow
  <2>4. ASSUME NEW h \in Handler, IssueCreate(h)
        PROVE  FALSE
    <3>1. grant'[i] = grant[i]
      BY <2>0, <2>4, InsertOfRow DEF Rows
    <3>2. QED
      BY <3>1
  <2>5. PICK h \in Handler : OutcomeWrite(h)
    BY <2>0, <2>2, <2>3, <2>4, StepsMoveGrants DEF GrantMoves
  <2>6. /\ task[h].step = "outcome" /\ task[h].id \in Rows
        /\ grant' = [grant EXCEPT ![task[h].id] =
                       ReceivedRow(@, task[h].outcome, task[h].event)]
    BY <2>0, <2>5 DEF OutcomeWrite, HeldRowsExist
  <2>7. ~task[h].late
    BY <2>6 DEF IInv, NoneIsLate
  <2>8. task[h].id = i
    BY <2>0, <2>6 DEF TypeOK, Rows
  <2>9. /\ grant'[i] = ReceivedRow(grant[i], task[h].outcome, task[h].event)
        /\ grant[i] \in Row
    BY <2>0, <2>6, <2>8 DEF TypeOK, Rows
  <2>10. grant'[i].receipt = task[h].event
    BY <2>9 DEF ReceivedRow, Row
  <2> QED
    BY <2>6, <2>7, <2>8, <2>10
<1>2. QED
  BY Invariance, <1>1, PTL DEF Spec, MissingStaysInactive

(* The reconciler marks no grant whose receipt or reissue came before the
   update that marks it. *)
THEOREM SweepIsConditional == Spec => SweepSparesReceipts
<1> DEFINE Spares == \A i \in Rows :
                       grant'[i].receipt = MissingReceipt /\ grant[i].receipt # MissingReceipt
                         => Overdue(grant[i], now)
<1>1. IInv /\ [Next]_vars => [Spares]_vars
  <2> SUFFICES ASSUME IInv, Next, NEW i \in Rows,
                      grant'[i].receipt = MissingReceipt, grant[i].receipt # MissingReceipt
               PROVE  Overdue(grant[i], now)
    OBVIOUS
  <2>0. /\ TypeOK /\ HeldRowsExist /\ SweepConsistent
        /\ [Next]_vars
    BY DEF IInv
  <2>1. ASSUME NEW k, NEW r, Updated(k, r), r.receipt # MissingReceipt
                                            \/ r.receipt = grant[k].receipt
        PROVE  FALSE
    <3>1. k = i
      BY <2>1 DEF Updated, Rows
    <3>2. QED
      BY <2>1, <3>1 DEF Updated
  <2>2. ASSUME NEW h \in Handler, Reissue(h) \/ RevokeWrite(h)
        PROVE  FALSE
    BY <2>0, <2>1, <2>2, ReissueOfRow, RevocationOfRow
  <2>3. ASSUME NEW h \in Handler, OutcomeWrite(h)
        PROVE  FALSE
    <3>1. PICK r : Updated(task[h].id, r) /\ r.receipt \in Event
      BY <2>0, <2>3, ReceiptOfRow
    <3>2. r.receipt # MissingReceipt
      BY <3>1, ConstantsAssumption
    <3>3. QED
      BY <2>1, <3>1, <3>2
  <2>4. ASSUME NEW h \in Handler, IssueCreate(h)
        PROVE  FALSE
    <3>1. grant'[i] = grant[i]
      BY <2>0, <2>4, InsertOfRow DEF Rows
    <3>2. QED
      BY <3>1
  <2>5. ASSUME NEW k \in Id, SweepMark(k)
        PROVE  Overdue(grant[i], now)
    <3>1. Updated(k, MissingRow(grant[k])) /\ Overdue(grant[k], now)
      BY <2>0, <2>5, MarkOfRow
    <3>2. k = i
      BY <3>1 DEF Updated, Rows
    <3>3. QED
      BY <3>1, <3>2
  <2>6. QED
    BY <2>0, <2>2, <2>3, <2>4, <2>5, StepsMoveGrants DEF GrantMoves
<1>2. QED
  BY Invariance, <1>1, PTL DEF Spec, SweepSparesReceipts

-----------------------------------------------------------------------------
(* The lineage of a grant.  LineageDepth is defined by recursion over rows that
   requests of different callers have written, so nothing but the history of the
   table makes it a function at all: the invariant says that the recursion has
   one solution and no other, which every insert extends by one row.            *)
Depths(f) ==
  f = [i \in Rows |-> IF grant[i].parent = NoParent THEN 1 ELSE 1 + f[grant[i].parent]]

(* The parents of rows are rows. *)
ParentsExist ==
  \A i \in Rows : grant[i].parent # NoParent => grant[i].parent \in Rows

(* A request past validateCapabilityCallGraph may be inserted below its parent. *)
RequestsFit(f) ==
  \A h \in Handler : task[h].step \in {"lookup", "create"} =>
    LET p == task[h].req.parent
    IN p # NoParent => p \in Rows /\ f[p] + 1 <= MaxDepth

LineageOf(f) ==
  /\ f \in [Rows -> 1 .. MaxDepth]
  /\ Depths(f)
  /\ \A g : Depths(g) => g = f
  /\ RequestsFit(f)

LineageInv == ParentsExist /\ \E f : LineageOf(f)

(* The one solution is what LineageDepth chooses. *)
LEMMA DepthIsTheSolution ==
  ASSUME NEW f, LineageOf(f)
  PROVE  LineageDepth = f
<1>1. Depths(f) /\ \A g : Depths(g) => g = f
  BY DEF LineageOf
<1>2. LineageDepth = CHOOSE g : Depths(g)
  BY DEF LineageDepth, Depths
<1>3. QED
  BY <1>1, <1>2

(* No update changes a row's parent, so none changes a depth. *)
LEMMA UpdatesKeepLineage ==
  ASSUME LineageInv, RowsEndure, Rows' = Rows
  PROVE  /\ ParentsExist'
         /\ \A f : Depths(f)' <=> Depths(f)
<1>1. \A i \in Rows : grant'[i].parent = grant[i].parent
  BY DEF RowsEndure, SameIdentity
<1>2. ParentsExist'
  BY <1>1 DEF ParentsExist, LineageInv
<1>3. ASSUME NEW f
      PROVE  Depths(f)' <=> Depths(f)
  <2>1. [i \in Rows' |-> IF grant'[i].parent = NoParent THEN 1 ELSE 1 + f[grant'[i].parent]]
        = [i \in Rows |-> IF grant[i].parent = NoParent THEN 1 ELSE 1 + f[grant[i].parent]]
    BY <1>1
  <2>2. QED
    BY <2>1 DEF Depths
<1>4. QED
  BY <1>2, <1>3

(* What a handler between its checks and its insert knows outlasts any step. *)
LEMMA RequestsKeepFitting ==
  ASSUME TypeOK, [Next]_vars, RowsEndure, NEW f, LineageOf(f), NEW d,
         \A i \in Rows : d[i] = f[i]
  PROVE  RequestsFit(d)'
<1>0. /\ \A i \in Rows : i \in Rows'
      /\ RequestsFit(f) /\ LineageDepth = f
  BY DepthIsTheSolution DEF RowsEndure, LineageOf
<1>1. ASSUME NEW h \in Handler, task'[h].step \in {"lookup", "create"},
             task'[h].req.parent # NoParent
      PROVE  task'[h].req.parent \in Rows' /\ d[task'[h].req.parent] + 1 <= MaxDepth
  <2> DEFINE p == task'[h].req.parent
  <2> SUFFICES p \in Rows /\ f[p] + 1 <= MaxDepth
    BY <1>0
  <2>0. task[h] \in Task
    BY DEF TypeOK
  <2>1. CASE task'[h] = task[h]
    BY <1>0, <1>1, <2>1 DEF RequestsFit
  <2>2. CASE task'[h] = Idle
    BY <1>1, <2>2 DEF Idle
  <2>3. ASSUME NEW req \in Request, NEW x \in Answer, CallGraphAllows(req, x),
               task'[h] = [step |-> "lookup", req |-> req, answer |-> x]
        PROVE  p \in Rows /\ f[p] + 1 <= MaxDepth
    <3>1. p = req.parent
      BY <2>3
    <3>2. p \in Rows /\ LineageDepth[p] + 1 <= MaxDepth
      BY <1>1, <2>3, <3>1 DEF CallGraphAllows
    <3>3. QED
      BY <1>0, <3>2
  <2>4. CASE /\ task[h].step = "lookup"
             /\ task'[h] = [task[h] EXCEPT !.step = "create"]
    <3>1. task[h] \in IssueTask
      BY <2>0, <2>4, TaskShape
    <3>2. p = task[h].req.parent
      BY <2>4, <3>1 DEF IssueTask
    <3>3. QED
      BY <1>0, <1>1, <2>4, <3>2 DEF RequestsFit
  <2>5. ASSUME NEW i \in Rows,
               \/ task'[h] = [step |-> "reissue", id |-> i, at |-> now]
               \/ task'[h] = [step |-> "revoke", id |-> i]
               \/ task'[h] = IntrospectionOf(i)
        PROVE  FALSE
    <3>1. task'[h].step \in {"reissue", "revoke", "introspect"}
      BY <2>5 DEF IntrospectionOf
    <3>2. QED
      BY <1>1, <3>1
  <2>6. CASE /\ task[h].step = "introspect"
             /\ task'[h] = [task[h] EXCEPT !.step = "vouch"]
    <3>1. task[h] \in IntrospectTask
      BY <2>0, <2>6, TaskShape
    <3>2. task'[h].step = "vouch"
      BY <2>6, <3>1 DEF IntrospectTask
    <3>3. QED
      BY <1>1, <3>2
  <2>7. ASSUME NEW i \in Rows, NEW outcome \in OutcomeStatus, NEW event \in Event,
               task'[h] = ReceiptFor(i, outcome, event)
        PROVE  FALSE
    <3>1. task'[h].step = "outcome"
      BY <2>7 DEF ReceiptFor
    <3>2. QED
      BY <1>1, <3>1
  <2>8. TaskMove(h)
    BY StepsMoveTasks
  <2>9. QED
    BY <2>1, <2>2, <2>3, <2>4, <2>5, <2>6, <2>7, <2>8 DEF TaskMove
<1>2. QED
  BY <1>1 DEF RequestsFit

(* An insert below a row that is there extends the one solution by one row. *)
LEMMA InsertExtendsLineage ==
  ASSUME TypeOK, [Next]_vars, RowsEndure, LineageInv, NEW h \in Handler, IssueCreate(h)
  PROVE  LineageInv'
<1>1. PICK k \in Id \ Rows, ttl \in Ttl :
        /\ grant'[k] = NewRow(task[h].req, task[h].answer, ttl)
        /\ \A j \in Id \ {k} : grant'[j] = grant[j]
        /\ Rows' = Rows \cup {k}
  BY InsertOfRow
<1>2. PICK f : LineageOf(f)
  BY DEF LineageInv
<1> DEFINE p == task[h].req.parent
           depth == IF p = NoParent THEN 1 ELSE 1 + f[p]
<1>d. PICK d : d = [i \in Rows \cup {k} |-> IF i = k THEN depth ELSE f[i]]
  OBVIOUS
<1>3. /\ grant'[k].parent = p
      /\ \A i \in Rows : grant'[i] = grant[i] /\ i # k
      /\ p # NoParent => p \in Rows /\ f[p] + 1 <= MaxDepth
  BY <1>1, <1>2 DEF NewRow, Rows, LineageOf, RequestsFit, IssueCreate
<1>4. ParentsExist /\ f \in [Rows -> 1 .. MaxDepth] /\ Depths(f) /\ MaxDepth \in Nat \ {0}
  BY <1>2, ConstantsAssumption DEF LineageInv, LineageOf
<1>5. ParentsExist'
  BY <1>1, <1>3, <1>4 DEF ParentsExist
<1>6. d \in [Rows' -> 1 .. MaxDepth]
  <2>1. depth \in 1 .. MaxDepth
    BY <1>3, <1>4
  <2>2. \A i \in Rows : f[i] \in 1 .. MaxDepth
    BY <1>4
  <2> HIDE DEF depth
  <2>3. QED
    BY <1>1, <1>d, <2>1, <2>2
<1>7. d[k] = depth /\ \A i \in Rows : d[i] = f[i]
  BY <1>d, <1>3
<1>8. Depths(d)'
  <2> DEFINE step(i) == IF grant'[i].parent = NoParent THEN 1
                        ELSE 1 + d[grant'[i].parent]
  <2>1. step(k) = d[k]
    BY <1>3, <1>7
  <2>2. ASSUME NEW i \in Rows
        PROVE  step(i) = d[i]
    <3>1. f[i] = IF grant[i].parent = NoParent THEN 1 ELSE 1 + f[grant[i].parent]
      BY <1>4 DEF Depths
    <3>2. grant[i].parent # NoParent => grant[i].parent \in Rows
      BY <1>4 DEF ParentsExist
    <3>3. QED
      BY <1>3, <1>7, <3>1, <3>2
  <2>3. d = [i \in Rows' |-> d[i]]
    BY <1>1, <1>d
  <2>4. d = [i \in Rows' |-> step(i)]
    BY <1>1, <2>1, <2>2, <2>3
  <2>5. QED
    BY <2>4 DEF Depths
<1>9. ASSUME NEW g, Depths(g)'
      PROVE  g = d
  <2> DEFINE r == [i \in Rows |-> g[i]]
  <2>1. g = [i \in Rows' |-> IF grant'[i].parent = NoParent THEN 1
                             ELSE 1 + g[grant'[i].parent]]
    BY <1>9 DEF Depths
  <2>2. Depths(r)
    <3>1. ASSUME NEW i \in Rows
          PROVE  r[i] = IF grant[i].parent = NoParent THEN 1 ELSE 1 + r[grant[i].parent]
      <4>1. r[i] = IF grant[i].parent = NoParent THEN 1 ELSE 1 + g[grant[i].parent]
        BY <1>1, <1>3, <2>1
      <4>2. grant[i].parent # NoParent => r[grant[i].parent] = g[grant[i].parent]
        BY <1>4 DEF ParentsExist
      <4>3. QED
        BY <4>1, <4>2
    <3>2. r = [i \in Rows |-> r[i]]
      OBVIOUS
    <3> HIDE DEF r
    <3>3. QED
      BY <3>1, <3>2 DEF Depths
  <2>3. r = f
    BY <1>2, <2>2 DEF LineageOf
  <2>4. \A i \in Rows : g[i] = f[i]
    BY <2>3
  <2>5. g[k] = depth
    BY <1>1, <1>3, <2>1, <2>4
  <2>6. \A i \in Rows' : g[i] = d[i]
    BY <1>1, <1>7, <2>4, <2>5
  <2>7. g = [i \in Rows' |-> g[i]]
    BY <2>1
  <2>8. d = [i \in Rows' |-> d[i]]
    BY <1>1, <1>d
  <2>9. QED
    BY <2>6, <2>7, <2>8
<1>10. RequestsFit(d)'
  BY <1>2, <1>7, RequestsKeepFitting
<1>11. LineageOf(d)'
  BY <1>6, <1>8, <1>9, <1>10 DEF LineageOf
<1>12. QED
  BY <1>5, <1>11 DEF LineageInv

(* An empty table has an empty lineage. *)
LEMMA InitLineage == Init => LineageInv
<1> SUFFICES ASSUME Init
             PROVE  LineageInv
  OBVIOUS
<1> DEFINE none == [i \in {} |-> 1]
<1>1. Rows = {} /\ \A h \in Handler : task[h] = Idle
  BY DEF Init, Rows
<1>2. ParentsExist /\ RequestsFit(none)
  BY <1>1 DEF ParentsExist, RequestsFit, Idle
<1>3. none \in [Rows -> 1 .. MaxDepth] /\ Depths(none) /\ \A g : Depths(g) => g = none
  BY <1>1 DEF Depths
<1>4. LineageOf(none)
  BY <1>2, <1>3 DEF LineageOf
<1>5. QED
  BY <1>2, <1>4 DEF LineageInv

(* Every step keeps the lineage: an insert extends it, and nothing else touches it. *)
LEMMA NextLineage ==
  IInv /\ LineageInv /\ [Next]_vars => LineageInv'
<1> SUFFICES ASSUME IInv, LineageInv, [Next]_vars
             PROVE  LineageInv'
  OBVIOUS
<1>0. TypeOK /\ HeldRowsExist /\ SweepConsistent
  BY DEF IInv
<1>1. RowsEndure
  BY <1>0, StepsKeepRows
<1>2. CASE Rows' = Rows
  <2>1. PICK f : LineageOf(f)
    BY DEF LineageInv
  <2>2. ParentsExist' /\ \A g : Depths(g)' <=> Depths(g)
    BY <1>1, <1>2, UpdatesKeepLineage
  <2>3. RequestsFit(f)'
    BY <1>0, <1>1, <2>1, RequestsKeepFitting
  <2>4. LineageOf(f)'
    BY <1>2, <2>1, <2>2, <2>3 DEF LineageOf
  <2>5. QED
    BY <2>2, <2>4 DEF LineageInv
<1>3. ASSUME NEW h \in Handler, IssueCreate(h)
      PROVE  LineageInv'
  BY <1>0, <1>1, <1>3, InsertExtendsLineage
<1>4. ASSUME NEW h \in Handler, Reissue(h) \/ RevokeWrite(h) \/ OutcomeWrite(h)
      PROVE  Rows' = Rows
  BY <1>0, <1>4, ReissueOfRow, RevocationOfRow, ReceiptOfRow DEF Updated
<1>5. ASSUME NEW i \in Id, SweepMark(i)
      PROVE  Rows' = Rows
  BY <1>0, <1>5, MarkOfRow DEF Updated
<1>6. grant' = grant => Rows' = Rows
  BY DEF Rows
<1>7. QED
  BY <1>2, <1>3, <1>4, <1>5, <1>6, StepsMoveGrants DEF GrantMoves

(* The ancestors of a grant are all there and never lead back to it. *)
Founded ==
  \E f \in [Rows -> Nat] : \A i \in Rows :
    grant[i].parent # NoParent => /\ grant[i].parent \in Rows
                                  /\ f[grant[i].parent] < f[i]

LEMMA LineageHolds == Spec => []LineageInv
BY InitLineage, NextLineage, Invariance, PTL DEF Spec

(* capabilityGrantLineageDepth never has to answer "parent grant lineage is
   incomplete" or "cycle detected in parent grant lineage": whatever requests
   race, every row's ancestors are rows and form a chain that ends. *)
THEOREM LineageIsFounded == Spec => []Founded
<1>1. LineageInv => Founded
  <2> SUFFICES ASSUME LineageInv
               PROVE  Founded
    OBVIOUS
  <2>1. PICK f : LineageOf(f)
    BY DEF LineageInv
  <2>2. f \in [Rows -> Nat] /\ \A i \in Rows : f[i] \in Nat
    BY <2>1, ConstantsAssumption DEF LineageOf
  <2>3. ASSUME NEW i \in Rows, grant[i].parent # NoParent
        PROVE  grant[i].parent \in Rows /\ f[grant[i].parent] < f[i]
    <3>1. grant[i].parent \in Rows
      BY <2>3 DEF LineageInv, ParentsExist
    <3>2. f[i] = 1 + f[grant[i].parent]
      BY <2>1, <2>3 DEF LineageOf, Depths
    <3>3. QED
      BY <2>2, <3>1, <3>2
  <2>4. QED
    BY <2>2, <2>3 DEF Founded
<1>2. QED
  BY <1>1, LineageHolds, PTL

(* No chain of nested grants is longer than call_graph.max_depth, although the
   depth is checked long before the insert and by handlers that race: the depth
   of a row never changes, so the check cannot become stale. *)
THEOREM LineageIsBounded == Spec => []LineageBounded
<1>1. LineageInv => LineageBounded
  <2> SUFFICES ASSUME LineageInv, NEW i \in Rows
               PROVE  LineageDepth[i] <= MaxDepth
    BY DEF LineageBounded
  <2>1. PICK f : LineageOf(f)
    BY DEF LineageInv
  <2>2. LineageDepth = f /\ f[i] \in 1 .. MaxDepth
    BY <2>1, DepthIsTheSolution DEF LineageOf
  <2>3. QED
    BY <2>2, ConstantsAssumption
<1>2. QED
  BY <1>1, LineageHolds, PTL

-----------------------------------------------------------------------------
(* The ledger implements the idempotent ledger.                            *)
KnownRows == { i \in Rows : grant[i].outcome # "pending" }

(* An empty table is an empty ledger. *)
LEMMA InitContract == Init => Contract!Init
BY DEF Init, Contract!Init, Rows

(* An update that keeps the identity of a row leaves the entries alone. *)
LEMMA UpdatesKeepEntries ==
  ASSUME NEW i, NEW r, Updated(i, r)
  PROVE  /\ { EntryOf(grant[j]) : j \in Rows }' = { EntryOf(grant[j]) : j \in Rows }
         /\ \A j \in Rows : EntryOf(grant'[j]) = EntryOf(grant[j])
         /\ EntryOf(grant[i]) \in Contract!Entry
<1>1. \A j \in Rows : EntryOf(grant'[j]) = EntryOf(grant[j])
  BY DEF Updated, EntryOf, SameIdentity, Rows
<1>2. EntryOf(grant[i]) \in Contract!Entry
  BY DEF Updated, EntryOf, Row, Contract!Entry
<1>3. QED
  BY <1>1, <1>2 DEF Updated, EntryOf

(* Every step opens an entry, closes one, or changes nothing the ledger shows. *)
LEMMA NextContract ==
  IInv /\ [Next]_vars => [Contract!Next]_(Contract!ledgerVars)
<1> SUFFICES ASSUME IInv, [Next]_vars
             PROVE  [Contract!Next]_(Contract!ledgerVars)
  OBVIOUS
<1> DEFINE entries == { EntryOf(grant[i]) : i \in Rows }
           known   == { EntryOf(grant[i]) : i \in { j \in Rows : grant[j].outcome # "pending" } }
<1>0. TypeOK /\ HeldRowsExist /\ SweepConsistent
  BY DEF IInv
<1>1. CASE grant' = grant
  BY <1>1 DEF Contract!ledgerVars, Rows, EntryOf
<1>2. ASSUME NEW i, NEW r, Updated(i, r), r.outcome = grant[i].outcome
      PROVE  [Contract!Next]_(Contract!ledgerVars)
  <2>1. /\ entries' = entries
        /\ \A j \in Rows : EntryOf(grant'[j]) = EntryOf(grant[j])
    BY <1>2, UpdatesKeepEntries
  <2>2. KnownRows' = KnownRows
    BY <1>2 DEF Updated, KnownRows, Rows
  <2>3. known' = known
    BY <2>1, <2>2 DEF KnownRows
  <2>4. QED
    BY <2>1, <2>3 DEF Contract!ledgerVars
<1>3. ASSUME NEW i, NEW r, Updated(i, r), r.outcome # "pending"
      PROVE  [Contract!Next]_(Contract!ledgerVars)
  <2> DEFINE e == EntryOf(grant[i])
  <2>1. /\ entries' = entries
        /\ \A j \in Rows : EntryOf(grant'[j]) = EntryOf(grant[j])
        /\ e \in Contract!Entry
    BY <1>3, UpdatesKeepEntries
  <2>2. KnownRows' = KnownRows \cup {i}
    BY <1>3 DEF Updated, KnownRows, Rows
  <2>3. known' = known \cup {e}
    BY <1>3, <2>1, <2>2 DEF KnownRows, Updated
  <2>4. e \in entries
    BY <1>3 DEF Updated
  <2>5. PICK f \in Contract!Entry : f = e
    BY <2>1
  <2>6. Contract!Close(f)
    BY <2>1, <2>3, <2>4, <2>5 DEF Contract!Close
  <2>7. QED
    BY <2>6 DEF Contract!Next
<1>4. ASSUME NEW h \in Handler, IssueCreate(h)
      PROVE  [Contract!Next]_(Contract!ledgerVars)
  <2> DEFINE req == task[h].req
             x   == task[h].answer
  <2>1. PICK k \in Id \ Rows, ttl \in Ttl :
          /\ req \in Request /\ x \in Answer
          /\ grant'[k] = NewRow(req, x, ttl)
          /\ grant'[k].outcome = "pending"
          /\ \A j \in Id \ {k} : grant'[j] = grant[j]
          /\ Rows' = Rows \cup {k}
    BY <1>0, <1>4, InsertOfRow
  <2> DEFINE e == <<<<req.caller, req.op, req.key>>, <<x.provider, req.payload>>>>
  <2>2. EntryOf(grant'[k]) = e
    BY <2>1 DEF EntryOf, NewRow
  <2>3. \A j \in Rows : grant'[j] = grant[j] /\ j # k
    BY <2>1 DEF Rows
  <2>4. entries' = entries \cup {e}
    BY <2>1, <2>2, <2>3 DEF EntryOf
  <2>5. KnownRows' = KnownRows
    BY <2>1, <2>3 DEF KnownRows
  <2>6. known' = known
    BY <2>3, <2>5 DEF EntryOf, KnownRows
  <2>7. \A f \in entries : f[1] # e[1]
    <3>1. \A j \in Rows : ~SameCall(grant[j], req)
      BY <1>4 DEF IssueCreate, IndexesAdmit, Collides
    <3>2. \A j \in Rows : EntryOf(grant[j])[1] # e[1]
      BY <3>1 DEF EntryOf, SameCall
    <3>3. QED
      BY <3>2
  <2>8. e[1] \in Plugin \X Op \X Key /\ e[2] \in Plugin \X Payload /\ e = <<e[1], e[2]>>
    BY <2>1 DEF Request, Answer
  <2>9. Contract!Open(e[1], e[2])
    BY <2>4, <2>6, <2>7, <2>8 DEF Contract!Open
  <2>10. QED
    BY <2>8, <2>9 DEF Contract!Next
<1>5. ASSUME NEW h \in Handler, Reissue(h)
      PROVE  [Contract!Next]_(Contract!ledgerVars)
  BY <1>0, <1>2, <1>5, ReissueOfRow
<1>6. ASSUME NEW h \in Handler, RevokeWrite(h)
      PROVE  [Contract!Next]_(Contract!ledgerVars)
  BY <1>0, <1>2, <1>6, RevocationOfRow
<1>7. ASSUME NEW h \in Handler, OutcomeWrite(h)
      PROVE  [Contract!Next]_(Contract!ledgerVars)
  <2>1. PICK r : Updated(task[h].id, r) /\ r.outcome \in OutcomeStatus
    BY <1>0, <1>7, ReceiptOfRow
  <2>2. r.outcome # "pending"
    BY <2>1 DEF OutcomeStatus
  <2>3. QED
    BY <1>3, <2>1, <2>2
<1>8. ASSUME NEW i \in Id, SweepMark(i)
      PROVE  [Contract!Next]_(Contract!ledgerVars)
  <2>1. Updated(i, MissingRow(grant[i])) /\ MissingRow(grant[i]).outcome # "pending"
    BY <1>0, <1>8, MarkOfRow
  <2>2. QED
    BY <1>3, <2>1
<1>9. QED
  BY <1>1, <1>4, <1>5, <1>6, <1>7, <1>8, StepsMoveGrants DEF GrantMoves

(* A call gets one grant, for one provider and payload, and an outcome once
   known never becomes pending again, with every handler and the reconciler
   racing on the row. *)
THEOREM LedgerIsIdempotent == Spec => ImplementsContract
<1>1. QED
  BY InitContract, NextContract, Invariance, PTL
  DEF Spec, ImplementsContract, Contract!Spec

(* An entry needs a free slot, and closing needs an entry. *)
LEMMA LedgerStep ==
  Contract!OnePayloadPerSlot /\ [Contract!Next]_(Contract!ledgerVars)
    => Contract!OnePayloadPerSlot'
<1> SUFFICES ASSUME Contract!OnePayloadPerSlot, [Contract!Next]_(Contract!ledgerVars)
             PROVE  Contract!OnePayloadPerSlot'
  OBVIOUS
<1> DEFINE entries == { EntryOf(grant[i]) : i \in Rows }
           settled == { EntryOf(grant[i]) : i \in { j \in Rows : grant[j].outcome # "pending" } }
<1>1. /\ entries \subseteq Contract!Entry /\ settled \subseteq entries
      /\ \A e, f \in entries : e[1] = f[1] => e = f
  BY DEF Contract!OnePayloadPerSlot
<1>2. /\ entries' \subseteq Contract!Entry /\ settled' \subseteq entries'
      /\ \A e, f \in entries' : e[1] = f[1] => e = f
  <2>1. ASSUME NEW s \in Plugin \X Op \X Key, NEW p \in Plugin \X Payload, Contract!Open(s, p)
        PROVE  <1>2!:
    <3>1. <<s, p>> \in Contract!Entry /\ <<s, p>>[1] = s
      BY DEF Contract!Entry
    <3>2. /\ entries' = entries \cup {<<s, p>>} /\ settled' = settled
          /\ \A e \in entries : e[1] # s
      BY <2>1 DEF Contract!Open
    <3> HIDE DEF entries, settled
    <3> QED  BY <1>1, <3>1, <3>2
  <2>2. ASSUME NEW e \in Contract!Entry, Contract!Close(e)
        PROVE  <1>2!:
    <3>1. /\ entries' = entries /\ settled' = settled \cup {e} /\ e \in entries
      BY <2>2 DEF Contract!Close
    <3> HIDE DEF entries, settled
    <3> QED  BY <1>1, <3>1
  <2>3. CASE UNCHANGED Contract!ledgerVars
    <3>1. entries' = entries /\ settled' = settled
      BY <2>3 DEF Contract!ledgerVars
    <3> HIDE DEF entries, settled
    <3> QED  BY <1>1, <3>1
  <2> QED  BY <2>1, <2>2, <2>3 DEF Contract!Next
<1> QED  BY <1>2 DEF Contract!OnePayloadPerSlot

(* No idempotency key ever stands for two payloads, and only a grant that
   exists has a known outcome: an answer of handleIssueCapabilityGrant means what
   its caller takes it to mean. *)
THEOREM SlotsAreUnambiguous == Spec => []Contract!OnePayloadPerSlot
<1>1. Contract!Init => Contract!OnePayloadPerSlot
  BY DEF Contract!Init, Contract!OnePayloadPerSlot
<1> QED
  BY <1>1, LedgerStep, LedgerIsIdempotent, PTL DEF ImplementsContract, Contract!Spec

(* No step withdraws an entry or reopens a closed one. *)
THEOREM NothingIsWithdrawn == Spec => Contract!EntriesStand
<1> DEFINE entries == { EntryOf(grant[i]) : i \in Rows }
           settled == { EntryOf(grant[i]) : i \in { j \in Rows : grant[j].outcome # "pending" } }
<1>1. [Contract!Next]_(Contract!ledgerVars)
        => [entries \subseteq entries' /\ settled \subseteq settled']_(Contract!ledgerVars)
  BY DEF Contract!Next, Contract!Open, Contract!Close, Contract!ledgerVars
<1> QED
  BY <1>1, LedgerIsIdempotent, PTL DEF ImplementsContract, Contract!Spec, Contract!EntriesStand
=============================================================================

------------------------ MODULE ActionExecutionProofs ------------------------
(***************************************************************************)
(* Theorems about ActionExecution and their proofs.                        *)
(*                                                                         *)
(* TypeOK is inductive.  The other invariants rest on what the steps of a  *)
(* handler know of the rows they hold the identifiers of, and on the two   *)
(* unique indexes; IInv collects both.                                     *)
(***************************************************************************)
EXTENDS ActionExecution, TLAPS

(* A handler past its read or its insert names a row, and a row it completed
   is terminal from then on. *)
HeldRowsExist ==
  \A h \in Handler :
    /\ task[h].step \in {"begun", "complete", "completed"} => task[h].id \in Rows
    /\ task[h].step = "completed" => task[h].id \in TerminalRows

(* What the copy a handler took of its row still says. *)
HeldRowsMatch ==
  \A h \in Handler :
    /\ task[h].step = "begun" => ReplayMatches(ledger[task[h].id], task[h].req)
    /\ task[h].step = "complete" => task[h].reconciliation # "reconciler"

(* The two unique indexes of the table. *)
IndexesHold ==
  \A i, j \in Rows : Collides(ledger[i], ledger[j]) => i = j

(* An answer to a begin request names the execution of that request. *)
AnswersMatch ==
  \A b \in begun : b.id \in Rows /\ ReplayMatches(ledger[b.id], b.req)

(* A reconciler pass works with a time that has come, and audits a row it
   has marked. *)
SweepConsistent ==
  /\ sweep # Idle => sweep.at <= now
  /\ sweep.step = "audit" => sweep.id \in TerminalRows

IInv ==
  /\ TypeOK
  /\ HeldRowsExist
  /\ HeldRowsMatch
  /\ IndexesHold
  /\ AnswersMatch
  /\ ReconcilerMarkStands
  /\ SweepConsistent
  /\ AuditFollowsLedger

(* What the set of reports says of its members. *)
LEMMA ReportFields ==
  ASSUME NEW r \in Report
  PROVE  /\ r.status \in Terminal
         /\ r.error \in ErrorCode \cup {NoError}
         /\ r.result \in ResultRef
BY DEF Report

(* The steps a task of each shape can be at tell the shape. *)
LEMMA TaskShape ==
  ASSUME NEW t \in Task
  PROVE  /\ t.step \in {"lookup", "create"} =>
              t \in [step : {"lookup", "create"}, req : Request]
         /\ t.step = "begun" => t \in [step : {"begun"}, req : Request, id : Id]
         /\ t.step = "complete" =>
              t \in [step : {"complete"}, id : Id, report : Report, reconciliation : Author]
         /\ t.step = "completed" => t \in [step : {"completed"}, id : Id, report : Report]
BY DEF Task, Idle

(* What a pass past its scan carries. *)
LEMMA SweepShape ==
  ASSUME NEW s \in Sweep
  PROVE  /\ s.step = "mark" => s \in [step : {"mark"}, at : Nat, batch : SUBSET Id]
         /\ s.step = "audit" =>
              s \in [step : {"audit"}, at : Nat, batch : SUBSET Id, id : Id]
BY DEF Sweep, Idle

(* The insert, the completion and the mark each leave a row behind. *)
LEMMA WrittenRows ==
  /\ \A req \in Request : now \in Nat => NewRow(req) \in Row
  /\ \A row \in Row, report \in Report, author \in Author, i \in Id :
       CompletedRow(row, [step |-> "complete", id |-> i, report |-> report,
                          reconciliation |-> author]) \in Row
  /\ \A row \in Row : MarkedRow(row) \in Row
<1>1. \A req \in Request : now \in Nat => NewRow(req) \in Row
  BY ConstantsAssumption DEF NewRow, Row, Request, Open, Author
<1>2. ASSUME NEW row \in Row, NEW t, t.report \in Report, t.reconciliation \in Author
      PROVE  CompletedRow(row, t) \in Row
  <2>1. t.report.status \in Terminal /\ t.report.result \in ResultRef
    BY <1>2, ReportFields
  <2>2. ErrorAfter(row, t.report) \in ErrorCode \cup {NoError, TimeoutError}
    BY <1>2, ReportFields DEF ErrorAfter, Row
  <2>3. QED
    BY <1>2, <2>1, <2>2 DEF CompletedRow, Row
<1>3. \A row \in Row : MarkedRow(row) \in Row
  BY DEF MarkedRow, Row, Terminal, Author
<1>4. QED
  BY <1>1, <1>2, <1>3

(* What a completion and a mark say, and what they leave alone. *)
SameIdentity(r, s) ==
  /\ r.executor = s.executor
  /\ r.provider = s.provider
  /\ r.key = s.key
  /\ r.payload = s.payload
  /\ r.timeoutAt = s.timeoutAt

(* What the two writes put into a row, and what they leave alone. *)
LEMMA WrittenFields ==
  ASSUME NEW row \in Row, NEW t
  PROVE  /\ SameIdentity(CompletedRow(row, t), row)
         /\ CompletedRow(row, t).status = t.report.status
         /\ CompletedRow(row, t).reconciliation = t.reconciliation
         /\ SameIdentity(MarkedRow(row), row)
         /\ MarkedRow(row).status = "result_unknown"
         /\ MarkedRow(row).error = TimeoutError
         /\ MarkedRow(row).reconciliation = "reconciler"
BY DEF SameIdentity, CompletedRow, MarkedRow, Row

(* An absent row is not a row. *)
LEMMA RowIsPresent ==
  ASSUME NEW row \in Row
  PROVE  row # NoRow
BY DEF Row, NoRow, Open, Terminal

-----------------------------------------------------------------------------
(* The first state has the right types. *)
LEMMA InitType == Init => TypeOK
BY ConstantsAssumption DEF Init, TypeOK, Task, Sweep, Idle

(* Every step keeps the types. *)
LEMMA NextType == TypeOK /\ HeldRowsExist /\ [Next]_vars => TypeOK'
<1> SUFFICES ASSUME TypeOK, HeldRowsExist, [Next]_vars
             PROVE  TypeOK'
  OBVIOUS
<1> USE DEF TypeOK, environment
<1>0. now \in Nat
  BY ConstantsAssumption
<1>1. ASSUME NEW h \in Handler, NEW req \in Request, BeginAdmit(h, req)
      PROVE  TypeOK'
  BY <1>1 DEF BeginAdmit, Task
<1>2. ASSUME NEW h \in Handler, BeginReplay(h)
      PROVE  TypeOK'
  BY <1>2, TaskShape DEF BeginReplay, Rows, Task
<1>3. ASSUME NEW h \in Handler, BeginConflict(h)
      PROVE  TypeOK'
  BY <1>3 DEF BeginConflict, Task
<1>4. ASSUME NEW h \in Handler, BeginAbsent(h)
      PROVE  TypeOK'
  BY <1>4, TaskShape DEF BeginAbsent, Task
<1>5. ASSUME NEW h \in Handler, BeginCreate(h)
      PROVE  TypeOK'
  BY <1>0, <1>5, TaskShape, WrittenRows DEF BeginCreate, Task
<1>6. ASSUME NEW h \in Handler, BeginCreateFailed(h)
      PROVE  TypeOK'
  BY <1>6 DEF BeginCreateFailed, Task
<1>7. ASSUME NEW h \in Handler, BeginAnswer(h)
      PROVE  TypeOK'
  BY <1>7, TaskShape DEF BeginAnswer, Recorded, Task
<1>8. ASSUME NEW h \in Handler, NEW i \in Id, NEW report \in Report, NEW own \in BOOLEAN,
             CompleteAdmit(h, i, report, own)
      PROVE  TypeOK'
  <2>1. MergedReconciliation(ledger[i], own) \in Author
    BY <1>8 DEF CompleteAdmit, OpenRows, Rows, Row, MergedReconciliation, Author
  <2> QED  BY <1>8, <2>1 DEF CompleteAdmit, Task
<1>9. ASSUME NEW h \in Handler, NEW i \in Id, NEW report \in Report,
             CompleteReplay(h, i, report)
      PROVE  TypeOK'
  BY <1>9 DEF CompleteReplay
<1>10. ASSUME NEW h \in Handler, CompleteWrite(h)
       PROVE  TypeOK'
  <2>1. task[h] \in [step : {"complete"}, id : Id, report : Report, reconciliation : Author]
    BY <1>10, TaskShape DEF CompleteWrite
  <2>2. ledger[task[h].id] \in Row
    BY <1>10, <2>1 DEF CompleteWrite, HeldRowsExist, Rows
  <2>3. CompletedRow(ledger[task[h].id], task[h]) \in Row
    BY <2>1, <2>2, WrittenRows
  <2>4. QED
    BY <1>10, <2>1, <2>3 DEF CompleteWrite, Task
<1>11. ASSUME NEW h \in Handler, CompleteAnswer(h)
       PROVE  TypeOK'
  <2>1. task[h] \in [step : {"completed"}, id : Id, report : Report]
    BY <1>11, TaskShape DEF CompleteAnswer
  <2>2. QED
    BY <1>11, <2>1, ReportFields DEF CompleteAnswer, Recorded, Task
<1>12. ASSUME NEW h \in Handler, Abandon(h)
       PROVE  TypeOK'
  BY <1>12 DEF Abandon, Task
<1>13. CASE SweepScan
  BY <1>0, <1>13 DEF SweepScan, OldestFirst, Rows, Sweep
<1>14. ASSUME NEW i \in Id, SweepMark(i)
       PROVE  TypeOK'
  BY <1>14, SweepShape, WrittenRows DEF SweepMark, NextInBatch, Markable, Rows, Sweep
<1>15. ASSUME NEW i \in Id, SweepSkip(i)
       PROVE  TypeOK'
  BY <1>15, SweepShape DEF SweepSkip, NextInBatch, Sweep
<1>16. CASE SweepAudit
  BY <1>16, SweepShape DEF SweepAudit, Recorded, Sweep, Terminal
<1>17. CASE SweepEnd
  BY <1>17 DEF SweepEnd, Sweep
<1>18. CASE Tick
  BY <1>18, ConstantsAssumption DEF Tick
<1>19. ASSUME NEW p \in Provider, PluginLifecycle(p)
       PROVE  TypeOK'
  BY <1>19 DEF PluginLifecycle
<1>20. ASSUME NEW x \in Payload, AuthorizationChange(x)
       PROVE  TypeOK'
  BY <1>20 DEF AuthorizationChange
<1>21. CASE UNCHANGED vars
  BY <1>21 DEF vars
<1>22. QED
  BY <1>1, <1>2, <1>3, <1>4, <1>5, <1>6, <1>7, <1>8, <1>9, <1>10, <1>11, <1>12,
     <1>13, <1>14, <1>15, <1>16, <1>17, <1>18, <1>19, <1>20, <1>21
  DEF Next, BeginStep, CompleteStep, SweepStep

-----------------------------------------------------------------------------
(* Every step keeps the rows, what identifies them, and terminal rows
   terminal.                                                               *)
RowsEndure ==
  \A i \in Rows :
    /\ i \in Rows'
    /\ SameIdentity(ledger'[i], ledger[i])
    /\ i \in TerminalRows => i \in TerminalRows'

(* No step deletes a row or changes what it was begun for. *)
LEMMA StepsKeepRows == TypeOK /\ HeldRowsExist /\ [Next]_vars => RowsEndure
<1> SUFFICES ASSUME TypeOK, HeldRowsExist, [Next]_vars
             PROVE  RowsEndure
  OBVIOUS
<1>1. ASSUME NEW h \in Handler, BeginCreate(h)
      PROVE  RowsEndure
  BY <1>1 DEF BeginCreate, RowsEndure, Rows, TerminalRows, SameIdentity, TypeOK
<1>2. ASSUME NEW h \in Handler, CompleteWrite(h)
      PROVE  RowsEndure
  <2>1. task[h] \in [step : {"complete"}, id : Id, report : Report, reconciliation : Author]
    BY <1>2, TaskShape DEF CompleteWrite, TypeOK
  <2>2. ledger[task[h].id] \in Row
    BY <1>2, <2>1 DEF CompleteWrite, HeldRowsExist, Rows, TypeOK
  <2>3. CompletedRow(ledger[task[h].id], task[h]) \in Row
    BY <2>1, <2>2, WrittenRows
  <2>4. CompletedRow(ledger[task[h].id], task[h]).status \in Terminal
    BY <2>1, <2>2, ReportFields, WrittenFields
  <2>5. /\ \A i \in Rows : i # task[h].id => ledger'[i] = ledger[i]
        /\ ledger'[task[h].id] = CompletedRow(ledger[task[h].id], task[h])
    BY <1>2, <2>1 DEF CompleteWrite, TypeOK, Rows
  <2>6. SameIdentity(CompletedRow(ledger[task[h].id], task[h]), ledger[task[h].id])
    BY <2>2, WrittenFields
  <2>7. CompletedRow(ledger[task[h].id], task[h]) # NoRow
    BY <2>3, RowIsPresent
  <2>8. QED
    BY <2>4, <2>5, <2>6, <2>7
    DEF RowsEndure, Rows, TerminalRows, SameIdentity
<1>3. ASSUME NEW i \in Id, SweepMark(i)
      PROVE  RowsEndure
  <2>1. ledger[i] \in Row /\ MarkedRow(ledger[i]) \in Row
    BY <1>3, WrittenRows DEF SweepMark, Markable, Rows, TypeOK
  <2>2. /\ \A j \in Rows : j # i => ledger'[j] = ledger[j]
        /\ ledger'[i] = MarkedRow(ledger[i])
    BY <1>3 DEF SweepMark, TypeOK, Rows
  <2>3. SameIdentity(MarkedRow(ledger[i]), ledger[i])
    BY <2>1, WrittenFields
  <2>4. MarkedRow(ledger[i]) # NoRow /\ MarkedRow(ledger[i]).status \in Terminal
    BY <2>1, RowIsPresent, WrittenFields DEF Terminal
  <2>5. QED
    BY <2>2, <2>3, <2>4 DEF RowsEndure, Rows, TerminalRows, SameIdentity
<1>4. CASE UNCHANGED ledger
  BY <1>4 DEF RowsEndure, Rows, TerminalRows, SameIdentity
<1>5. QED
  BY <1>1, <1>2, <1>3, <1>4
  DEF Next, BeginStep, CompleteStep, SweepStep, vars, environment,
      BeginAdmit, BeginReplay, BeginConflict, BeginAbsent, BeginCreateFailed,
      BeginAnswer, CompleteAdmit, CompleteReplay, CompleteAnswer, Abandon,
      SweepScan, SweepSkip, SweepAudit, SweepEnd, Tick, PluginLifecycle,
      AuthorizationChange

-----------------------------------------------------------------------------
(* What a step does to the task of one handler: it is left alone, ends, or
   moves on in one of four ways.                                           *)
TaskMoves(g) ==
  \/ task'[g] = task[g]
  \/ task'[g].step \in {"idle", "lookup", "create"}
  \/ BeginCreate(g)
  \/ CompleteWrite(g)
  \/ \E i \in Id, report \in Report, own \in BOOLEAN : CompleteAdmit(g, i, report, own)

(* Every step moves a handler by one of the moves above, or not at all. *)
LEMMA StepsMoveTasks ==
  TypeOK /\ [Next]_vars => \A g \in Handler : TaskMoves(g)
<1> SUFFICES ASSUME TypeOK, [Next]_vars, NEW g \in Handler
             PROVE  TaskMoves(g)
  OBVIOUS
<1> USE DEF TypeOK, TaskMoves, Idle
<1>1. ASSUME NEW h \in Handler, NEW req \in Request, BeginAdmit(h, req)
      PROVE  TaskMoves(g)
  BY <1>1 DEF BeginAdmit
<1>2. ASSUME NEW h \in Handler,
             \/ BeginReplay(h) \/ BeginConflict(h) \/ BeginCreateFailed(h)
             \/ BeginAnswer(h) \/ CompleteAnswer(h) \/ Abandon(h)
      PROVE  TaskMoves(g)
  BY <1>2 DEF BeginReplay, BeginConflict, BeginCreateFailed, BeginAnswer,
              CompleteAnswer, Abandon
<1>3. ASSUME NEW h \in Handler, BeginAbsent(h)
      PROVE  TaskMoves(g)
  BY <1>3, TaskShape DEF BeginAbsent
<1>4. ASSUME NEW h \in Handler, BeginCreate(h)
      PROVE  TaskMoves(g)
  BY <1>4 DEF BeginCreate
<1>5. ASSUME NEW h \in Handler, CompleteWrite(h)
      PROVE  TaskMoves(g)
  BY <1>5 DEF CompleteWrite
<1>6. ASSUME NEW h \in Handler, NEW i \in Id, NEW report \in Report, NEW own \in BOOLEAN,
             CompleteAdmit(h, i, report, own)
      PROVE  TaskMoves(g)
  BY <1>6 DEF CompleteAdmit
<1>7. CASE UNCHANGED task
  BY <1>7
<1>8. QED
  BY <1>1, <1>2, <1>3, <1>4, <1>5, <1>6, <1>7
  DEF Next, BeginStep, CompleteStep, SweepStep, vars, environment,
      CompleteReplay, SweepScan, SweepMark, SweepSkip, SweepAudit, SweepEnd,
      Tick, PluginLifecycle, AuthorizationChange

(* An open row is not the reconciler's. *)
LEMMA OpenRowsUnmarked ==
  TypeOK /\ ReconcilerMarkStands => \A i \in OpenRows : ledger[i].reconciliation # "reconciler"
BY DEF TypeOK, ReconcilerMarkStands, OpenRows, Open, Rows, Row

(* A row a handler or pass holds stays in the table. *)
LEMMA NextHeld ==
  IInv /\ [Next]_vars => HeldRowsExist' /\ HeldRowsMatch'
<1> SUFFICES ASSUME IInv, [Next]_vars, NEW g \in Handler
             PROVE  /\ (/\ task[g].step \in {"begun", "complete", "completed"} =>
                              task[g].id \in Rows
                        /\ task[g].step = "completed" => task[g].id \in TerminalRows)'
                    /\ (/\ task[g].step = "begun" =>
                              ReplayMatches(ledger[task[g].id], task[g].req)
                        /\ task[g].step = "complete" => task[g].reconciliation # "reconciler")'
  BY DEF HeldRowsExist, HeldRowsMatch
<1> USE DEF IInv
<1>1. TaskMoves(g)
  BY StepsMoveTasks
<1>2. RowsEndure
  BY StepsKeepRows
<1>3. task \in [Handler -> Task] /\ ledger \in [Id -> Row \cup {NoRow}]
  BY DEF TypeOK
<1>4. CASE task'[g] = task[g]
  BY <1>2, <1>4 DEF RowsEndure, SameIdentity, HeldRowsExist, HeldRowsMatch,
                    ReplayMatches, SameCall
<1>5. CASE task'[g].step \in {"idle", "lookup", "create"}
  BY <1>5
<1>6. CASE BeginCreate(g)
  <2>1. task[g].req \in Request /\ now \in Nat
    BY <1>3, <1>6, TaskShape, ConstantsAssumption DEF BeginCreate, TypeOK
  <2>2. PICK i \in Id : /\ ledger' = [ledger EXCEPT ![i] = NewRow(task[g].req)]
                        /\ task' = [task EXCEPT ![g] = [step |-> "begun", req |-> task[g].req,
                                                         id |-> i]]
    BY <1>6 DEF BeginCreate, Rows
  <2>3. /\ NewRow(task[g].req) # NoRow
        /\ ReplayMatches(NewRow(task[g].req), task[g].req)
    BY <2>1, WrittenRows, RowIsPresent DEF NewRow, ReplayMatches, SameCall
  <2>4. QED
    BY <1>3, <2>2, <2>3 DEF Rows
<1>7. CASE CompleteWrite(g)
  <2>1. /\ task'[g].step = "completed" /\ task'[g].id = task[g].id
        /\ task[g].id \in Id
        /\ ledger' = [ledger EXCEPT ![task[g].id] = CompletedRow(@, task[g])]
        /\ task[g].report \in Report
    BY <1>3, <1>7, TaskShape DEF CompleteWrite
  <2>2. task[g].id \in Rows
    BY <1>7 DEF CompleteWrite, HeldRowsExist
  <2>3. task[g].id \in Rows'
    BY <1>2, <2>2 DEF RowsEndure
  <2>4. ledger'[task[g].id].status \in Terminal
    BY <1>3, <2>1, <2>2, WrittenFields, ReportFields DEF Rows
  <2>5. QED
    BY <2>1, <2>3, <2>4 DEF TerminalRows
<1>8. ASSUME NEW i \in Id, NEW report \in Report, NEW own \in BOOLEAN,
             CompleteAdmit(g, i, report, own)
      PROVE  /\ task'[g].step = "complete" /\ task'[g].id \in Rows'
             /\ task'[g].reconciliation # "reconciler"
  <2>1. i \in OpenRows /\ i \in Rows /\ ledger[i].reconciliation # "reconciler"
    BY <1>8, OpenRowsUnmarked DEF CompleteAdmit, OpenRows
  <2>2. QED
    BY <1>2, <1>3, <1>8, <2>1 DEF CompleteAdmit, RowsEndure, MergedReconciliation
<1>9. QED
  BY <1>1, <1>4, <1>5, <1>6, <1>7, <1>8 DEF TaskMoves

-----------------------------------------------------------------------------
(* What a step does to the ledger: nothing, or one insert the indexes admit,
   one completion or one mark.                                             *)
LedgerMoves ==
  \/ ledger' = ledger
  \/ \E h \in Handler : BeginCreate(h) \/ CompleteWrite(h)
  \/ \E i \in Id : SweepMark(i)

(* No other step writes the table. *)
LEMMA StepsMoveLedger == [Next]_vars => LedgerMoves
BY DEF LedgerMoves, Next, BeginStep, CompleteStep, SweepStep, vars, environment,
       BeginAdmit, BeginReplay, BeginConflict, BeginAbsent, BeginCreateFailed,
       BeginAnswer, CompleteAdmit, CompleteReplay, CompleteAnswer, Abandon,
       SweepScan, SweepSkip, SweepAudit, SweepEnd, Tick, PluginLifecycle,
       AuthorizationChange

(* What the insert adds. *)
LEMMA InsertedRow ==
  ASSUME IInv, NEW h \in Handler, BeginCreate(h)
  PROVE  \E i \in Id \ Rows :
           /\ ledger' = [ledger EXCEPT ![i] = NewRow(task[h].req)]
           /\ ledger'[i] = NewRow(task[h].req)
           /\ NewRow(task[h].req) \in Row
           /\ \A j \in Rows : ~Collides(ledger[j], task[h].req)
           /\ Rows' = Rows \cup {i}
           /\ \A j \in Rows : ledger'[j] = ledger[j]
<1>1. task[h].req \in Request /\ now \in Nat
  BY TaskShape, ConstantsAssumption DEF BeginCreate, IInv, TypeOK
<1>2. NewRow(task[h].req) \in Row /\ NewRow(task[h].req) # NoRow
  BY <1>1, WrittenRows, RowIsPresent
<1>3. PICK i \in Id \ Rows : ledger' = [ledger EXCEPT ![i] = NewRow(task[h].req)]
  BY DEF BeginCreate
<1>4. \A j \in Rows : ~Collides(ledger[j], task[h].req)
  BY DEF BeginCreate, IndexesAdmit
<1>5. QED
  BY <1>2, <1>3, <1>4 DEF Rows, IInv, TypeOK

(* What the completion and the mark change. *)
LEMMA CompletionOfRow ==
  ASSUME IInv, NEW h \in Handler, CompleteWrite(h)
  PROVE  /\ task[h].id \in Rows
         /\ ledger[task[h].id] \in Row
         /\ task[h].report \in Report
         /\ task[h].reconciliation # "reconciler"
         /\ ledger'[task[h].id] = CompletedRow(ledger[task[h].id], task[h])
         /\ \A j \in Id \ {task[h].id} : ledger'[j] = ledger[j]
         /\ Rows' = Rows
<1>1. /\ task[h] \in [step : {"complete"}, id : Id, report : Report, reconciliation : Author]
      /\ task[h].id \in Rows /\ task[h].reconciliation # "reconciler"
  BY TaskShape DEF CompleteWrite, IInv, TypeOK, HeldRowsExist, HeldRowsMatch
<1>2. /\ ledger[task[h].id] \in Row
      /\ CompletedRow(ledger[task[h].id], task[h]) \in Row
  BY <1>1, WrittenRows DEF IInv, TypeOK, Rows
<1>3. ledger' = [ledger EXCEPT ![task[h].id] = CompletedRow(@, task[h])]
  BY DEF CompleteWrite
<1>4. QED
  BY <1>1, <1>2, <1>3, RowIsPresent DEF Rows, IInv, TypeOK

(* The row a pass marks is open and overdue at that very step. *)
LEMMA MarkOfRow ==
  ASSUME IInv, NEW i \in Id, SweepMark(i)
  PROVE  /\ i \in Rows
         /\ ledger[i] \in Row
         /\ Overdue(ledger[i], sweep.at) /\ Overdue(ledger[i], now)
         /\ ledger'[i] = MarkedRow(ledger[i])
         /\ \A j \in Id \ {i} : ledger'[j] = ledger[j]
         /\ Rows' = Rows
<1>1. i \in Rows /\ Overdue(ledger[i], sweep.at) /\ sweep.step = "mark"
  BY DEF SweepMark, NextInBatch, Markable
<1>2. ledger[i] \in Row /\ MarkedRow(ledger[i]) \in Row
  BY <1>1, WrittenRows DEF IInv, TypeOK, Rows
<1>3. sweep.at \in Nat /\ sweep.at <= now /\ now \in Nat /\ ledger[i].timeoutAt \in Nat
  BY <1>1, <1>2, SweepShape, ConstantsAssumption
  DEF IInv, TypeOK, SweepConsistent, Row, Idle
<1>4. Overdue(ledger[i], now)
  BY <1>1, <1>3 DEF Overdue
<1>5. ledger' = [ledger EXCEPT ![i] = MarkedRow(@)]
  BY DEF SweepMark
<1>6. QED
  BY <1>1, <1>2, <1>4, <1>5, RowIsPresent DEF Rows, IInv, TypeOK

(* An insert is refused before it breaks a unique index, and no update can. *)
LEMMA NextIndexes == IInv /\ [Next]_vars => IndexesHold'
<1> SUFFICES ASSUME IInv, [Next]_vars
             PROVE  IndexesHold'
  OBVIOUS
<1>1. CASE ledger' = ledger
  BY <1>1 DEF IInv, IndexesHold, Rows, Collides, SameCall
<1>2. ASSUME NEW h \in Handler, BeginCreate(h)
      PROVE  IndexesHold'
  <2>1. PICK i \in Id \ Rows :
           /\ ledger'[i] = NewRow(task[h].req)
           /\ \A j \in Rows : ~Collides(ledger[j], task[h].req)
           /\ Rows' = Rows \cup {i}
           /\ \A j \in Rows : ledger'[j] = ledger[j]
    BY <1>2, InsertedRow
  <2>2. \A j \in Rows : /\ ~Collides(ledger'[j], ledger'[i])
                        /\ ~Collides(ledger'[i], ledger'[j])
    BY <2>1 DEF Collides, SameCall, NewRow
  <2>3. \A j, k \in Rows : Collides(ledger'[j], ledger'[k]) => j = k
    BY <2>1 DEF IInv, IndexesHold
  <2>4. QED
    BY <2>1, <2>2, <2>3 DEF IndexesHold, Collides, SameCall
<1>3. ASSUME NEW h \in Handler, CompleteWrite(h)
      PROVE  IndexesHold'
  <2>1. Rows' = Rows /\ \A j \in Rows : SameIdentity(ledger'[j], ledger[j])
    BY <1>3, CompletionOfRow, StepsKeepRows DEF RowsEndure, IInv
  <2>2. QED
    BY <2>1 DEF IInv, IndexesHold, Collides, SameCall, SameIdentity
<1>4. ASSUME NEW i \in Id, SweepMark(i)
      PROVE  IndexesHold'
  <2>1. Rows' = Rows /\ \A j \in Rows : SameIdentity(ledger'[j], ledger[j])
    BY <1>4, MarkOfRow, StepsKeepRows DEF RowsEndure, IInv
  <2>2. QED
    BY <2>1 DEF IInv, IndexesHold, Collides, SameCall, SameIdentity
<1>5. QED
  BY <1>1, <1>2, <1>3, <1>4, StepsMoveLedger DEF LedgerMoves

(* An answered begin stays matched by the row it names. *)
LEMMA NextAnswers == IInv /\ [Next]_vars => AnswersMatch'
<1> SUFFICES ASSUME IInv, [Next]_vars, NEW b \in begun'
             PROVE  b.id \in Rows' /\ ReplayMatches(ledger'[b.id], b.req)
  BY DEF AnswersMatch
<1>1. RowsEndure
  BY StepsKeepRows DEF IInv
<1>2. ASSUME b.id \in Rows, ReplayMatches(ledger[b.id], b.req)
      PROVE  b.id \in Rows' /\ ReplayMatches(ledger'[b.id], b.req)
  BY <1>1, <1>2 DEF RowsEndure, SameIdentity, ReplayMatches, SameCall
<1>3. CASE b \in begun
  BY <1>2, <1>3 DEF IInv, AnswersMatch
<1>4. ASSUME NEW h \in Handler, BeginReplay(h), b \notin begun
      PROVE  b.id \in Rows /\ ReplayMatches(ledger[b.id], b.req)
  BY <1>4 DEF BeginReplay
<1>5. ASSUME NEW h \in Handler, BeginAnswer(h), b \notin begun
      PROVE  b.id \in Rows /\ ReplayMatches(ledger[b.id], b.req)
  BY <1>5 DEF BeginAnswer, IInv, HeldRowsExist, HeldRowsMatch
<1>6. \/ UNCHANGED begun
      \/ \E h \in Handler : BeginReplay(h) \/ BeginAnswer(h)
  BY DEF Next, BeginStep, CompleteStep, SweepStep, vars, environment,
         BeginAdmit, BeginConflict, BeginAbsent, BeginCreate, BeginCreateFailed,
         CompleteAdmit, CompleteReplay, CompleteWrite, CompleteAnswer, Abandon,
         SweepScan, SweepMark, SweepSkip, SweepAudit, SweepEnd, Tick,
         PluginLifecycle, AuthorizationChange
<1>7. QED
  BY <1>2, <1>3, <1>4, <1>5, <1>6

(* The clock only advances. *)
LEMMA NowNeverGoesBack ==
  TypeOK /\ [Next]_vars => now \in Nat /\ now' \in Nat /\ now <= now'
<1> SUFFICES ASSUME TypeOK, [Next]_vars
             PROVE  now \in Nat /\ now' \in Nat /\ now <= now'
  OBVIOUS
<1>1. now \in Nat
  BY ConstantsAssumption DEF TypeOK
<1>2. now' = now \/ now' = now + 1
  BY DEF Next, BeginStep, CompleteStep, SweepStep, vars, environment,
         BeginAdmit, BeginReplay, BeginConflict, BeginAbsent, BeginCreate,
         BeginCreateFailed, BeginAnswer, CompleteAdmit, CompleteReplay,
         CompleteWrite, CompleteAnswer, Abandon, SweepScan, SweepMark,
         SweepSkip, SweepAudit, SweepEnd, Tick, PluginLifecycle,
         AuthorizationChange
<1>3. QED
  BY <1>1, <1>2

(* No completion touches the mark once the row is terminal. *)
LEMMA NextMark == IInv /\ [Next]_vars => ReconcilerMarkStands'
<1> SUFFICES ASSUME IInv, [Next]_vars, NEW i \in Rows', ledger'[i].reconciliation = "reconciler"
             PROVE  /\ ledger'[i].status = "result_unknown"
                    /\ ledger'[i].error = TimeoutError
                    /\ ledger'[i].timeoutAt <= now'
  BY DEF ReconcilerMarkStands
<1>0. now \in Nat /\ now' \in Nat /\ now <= now'
  BY NowNeverGoesBack DEF IInv
<1>1. ASSUME i \in Rows, ledger'[i] = ledger[i]
      PROVE  /\ ledger'[i].status = "result_unknown"
             /\ ledger'[i].error = TimeoutError
             /\ ledger'[i].timeoutAt <= now'
  <2>1. ledger[i] \in Row
    BY <1>1 DEF IInv, TypeOK, Rows
  <2>2. ledger[i].timeoutAt \in Nat
    BY <2>1 DEF Row
  <2>3. QED
    BY <1>0, <1>1, <2>2 DEF IInv, ReconcilerMarkStands
<1>2. CASE ledger' = ledger
  BY <1>1, <1>2 DEF Rows
<1>3. ASSUME NEW h \in Handler, BeginCreate(h)
      PROVE  i \in Rows /\ ledger'[i] = ledger[i]
  <2>1. PICK j \in Id \ Rows :
           /\ ledger'[j] = NewRow(task[h].req)
           /\ Rows' = Rows \cup {j}
           /\ \A k \in Rows : ledger'[k] = ledger[k]
    BY <1>3, InsertedRow
  <2>2. NewRow(task[h].req).reconciliation # "reconciler"
    BY DEF NewRow
  <2>3. QED
    BY <2>1, <2>2
<1>4. ASSUME NEW h \in Handler, CompleteWrite(h)
      PROVE  i \in Rows /\ ledger'[i] = ledger[i]
  <2>1. CompletedRow(ledger[task[h].id], task[h]).reconciliation # "reconciler"
    BY <1>4, CompletionOfRow, WrittenFields
  <2>2. QED
    BY <1>4, <2>1, CompletionOfRow DEF Rows
<1>5. ASSUME NEW j \in Id, SweepMark(j), i # j
      PROVE  i \in Rows /\ ledger'[i] = ledger[i]
  BY <1>5, MarkOfRow DEF Rows
<1>6. CASE SweepMark(i)
  <2>1. i \in Id
    BY DEF Rows
  <2>2. ledger'[i] = MarkedRow(ledger[i]) /\ ledger[i] \in Row /\ Overdue(ledger[i], now)
    BY <1>6, <2>1, MarkOfRow
  <2>3. ledger[i].timeoutAt \in Nat
    BY <2>2 DEF Row
  <2>4. QED
    BY <1>0, <2>2, <2>3, WrittenFields DEF Overdue, SameIdentity
<1>7. QED
  BY <1>1, <1>2, <1>3, <1>4, <1>5, <1>6, StepsMoveLedger DEF LedgerMoves

(* A pass keeps the time it began with. *)
LEMMA NextSweep == IInv /\ [Next]_vars => SweepConsistent'
<1> SUFFICES ASSUME IInv, [Next]_vars
             PROVE  SweepConsistent'
  OBVIOUS
<1> USE DEF SweepConsistent, IInv
<1>1. RowsEndure
  BY StepsKeepRows
<1>2. now \in Nat /\ now' \in Nat /\ now <= now'
  BY NowNeverGoesBack
<1>3. sweep \in Sweep
  BY DEF TypeOK
<1>4. CASE UNCHANGED sweep
  BY <1>1, <1>2, <1>3, <1>4, SweepShape DEF RowsEndure, TerminalRows, Sweep
<1>5. CASE SweepScan
  BY <1>2, <1>5 DEF SweepScan, environment
<1>6. ASSUME NEW i \in Id, SweepMark(i)
      PROVE  SweepConsistent'
  <2>1. ledger'[i].status = "result_unknown" /\ i \in Rows'
    BY <1>6, MarkOfRow, WrittenFields
  <2>2. i \in TerminalRows'
    BY <2>1 DEF TerminalRows, Terminal
  <2>3. sweep # Idle /\ sweep' = [step |-> "audit", at |-> sweep.at,
                                  batch |-> sweep.batch \ {i}, id |-> i]
    BY <1>6 DEF SweepMark, NextInBatch, Idle
  <2>4. sweep.at \in Nat
    BY <1>3, <1>6, SweepShape DEF SweepMark, NextInBatch
  <2>5. QED
    BY <1>2, <2>2, <2>3, <2>4
<1>7. ASSUME NEW i \in Id, SweepSkip(i)
      PROVE  SweepConsistent'
  BY <1>2, <1>3, <1>7, SweepShape DEF SweepSkip, NextInBatch, environment, Idle
<1>8. CASE SweepAudit
  BY <1>2, <1>3, <1>8, SweepShape DEF SweepAudit, environment, Idle
<1>9. CASE SweepEnd
  BY <1>9 DEF SweepEnd, Idle
<1>10. QED
  BY <1>4, <1>5, <1>6, <1>7, <1>8, <1>9
  DEF Next, BeginStep, CompleteStep, SweepStep, vars, environment,
      BeginAdmit, BeginReplay, BeginConflict, BeginAbsent, BeginCreate,
      BeginCreateFailed, BeginAnswer, CompleteAdmit, CompleteReplay,
      CompleteWrite, CompleteAnswer, Abandon, Tick, PluginLifecycle,
      AuthorizationChange

(* The audit row is written after the row it speaks of. *)
LEMMA NextAudit == IInv /\ [Next]_vars => AuditFollowsLedger'
<1> SUFFICES ASSUME IInv, [Next]_vars, NEW a \in audit'
             PROVE  a[1] \in Rows' /\ (a[2] # "started" => a[1] \in TerminalRows')
  BY DEF AuditFollowsLedger
<1> USE DEF IInv
<1>1. RowsEndure
  BY StepsKeepRows
<1>2. ASSUME a[1] \in Rows, a[2] # "started" => a[1] \in TerminalRows
      PROVE  a[1] \in Rows' /\ (a[2] # "started" => a[1] \in TerminalRows')
  BY <1>1, <1>2 DEF RowsEndure
<1>3. CASE a \in audit
  <2>1. a[1] \in Rows /\ (a[2] # "started" => a[1] \in TerminalRows)
    BY <1>3 DEF AuditFollowsLedger
  <2>2. QED
    BY <1>2, <2>1
<1>4. ASSUME NEW h \in Handler, BeginAnswer(h), a \notin audit
      PROVE  a[1] \in Rows /\ a[2] = "started"
  BY <1>4 DEF BeginAnswer, Recorded, HeldRowsExist
<1>5. ASSUME NEW h \in Handler, CompleteAnswer(h), a \notin audit
      PROVE  a[1] \in Rows /\ a[1] \in TerminalRows
  BY <1>5 DEF CompleteAnswer, Recorded, HeldRowsExist
<1>6. ASSUME SweepAudit, a \notin audit
      PROVE  a[1] \in Rows /\ a[1] \in TerminalRows
  BY <1>6 DEF SweepAudit, Recorded, SweepConsistent, TerminalRows
<1>7. \/ UNCHANGED audit \/ SweepAudit
      \/ \E h \in Handler : BeginAnswer(h) \/ CompleteAnswer(h)
  BY DEF Next, BeginStep, CompleteStep, SweepStep, vars, environment,
         BeginAdmit, BeginReplay, BeginConflict, BeginAbsent, BeginCreate,
         BeginCreateFailed, CompleteAdmit, CompleteReplay, CompleteWrite,
         Abandon, SweepScan, SweepMark, SweepSkip, SweepEnd, Tick,
         PluginLifecycle, AuthorizationChange
<1>8. QED
  <2>1. CASE a \notin audit
    <3>1. a \in audit' /\ ~UNCHANGED audit
      BY <2>1
    <3>2. a[1] \in Rows /\ (a[2] # "started" => a[1] \in TerminalRows)
      BY <1>4, <1>5, <1>6, <1>7, <2>1, <3>1
    <3>3. QED
      BY <1>2, <3>2
  <2>2. QED
    BY <1>3, <2>1

(* The first state satisfies the invariant. *)
LEMMA InitInvariant == Init => IInv
<1> SUFFICES ASSUME Init
             PROVE  IInv
  OBVIOUS
<1>1. TypeOK
  BY InitType
<1>2. Rows = {}
  BY DEF Init, Rows
<1>3. QED
  BY <1>1, <1>2
  DEF Init, IInv, HeldRowsExist, HeldRowsMatch, IndexesHold, AnswersMatch,
      ReconcilerMarkStands, SweepConsistent, AuditFollowsLedger, Idle

(* The invariant holds of every behaviour of the ledger: everything below
   rests on it. *)
THEOREM Invariance == Spec => []IInv
<1>1. IInv /\ [Next]_vars => IInv'
  <2> SUFFICES ASSUME IInv, [Next]_vars
               PROVE  IInv'
    OBVIOUS
  <2>1. TypeOK'
    BY NextType DEF IInv
  <2>2. QED
    BY <2>1, NextHeld, NextIndexes, NextAnswers, NextMark, NextSweep, NextAudit
    DEF IInv
<1>2. QED
  BY <1>1, InitInvariant, PTL DEF Spec

(* Every variable has its type, and no status or error code the validation
   refuses ever reaches a row. *)
THEOREM TypeCorrect == Spec => []TypeOK
<1>1. IInv => TypeOK
  BY DEF IInv
<1>2. QED
  BY <1>1, Invariance, PTL

(* However many begin requests race, a successful answer under an executor and
   key always names the same execution, begun for the same request. *)
THEOREM BeginIsIdempotent == Spec => []KeyNamesOneExecution
<1>1. IInv => KeyNamesOneExecution
  <2> SUFFICES ASSUME IInv, NEW b \in begun
               PROVE  /\ b.id \in Rows
                      /\ ReplayMatches(ledger[b.id], b.req)
                      /\ \A c \in begun : SameCall(b.req, c.req) => b.id = c.id /\ b.req = c.req
    BY DEF KeyNamesOneExecution
  <2>1. b.id \in Rows /\ ReplayMatches(ledger[b.id], b.req)
    BY DEF IInv, AnswersMatch
  <2>2. ASSUME NEW c \in begun, SameCall(b.req, c.req)
        PROVE  b.id = c.id /\ b.req = c.req
    <3>1. c.id \in Rows /\ ReplayMatches(ledger[c.id], c.req)
      BY DEF IInv, AnswersMatch
    <3>2. b.id = c.id
      BY <2>1, <2>2, <3>1 DEF IInv, IndexesHold, Collides, ReplayMatches, SameCall
    <3>3. b.req \in Request /\ c.req \in Request
      BY DEF IInv, TypeOK
    <3>4. /\ b.req.executor = c.req.executor /\ b.req.provider = c.req.provider
          /\ b.req.key = c.req.key /\ b.req.payload = c.req.payload
      BY <2>1, <3>1, <3>2 DEF ReplayMatches, SameCall
    <3>5. b.req = c.req
      BY <3>3, <3>4 DEF Request
    <3>6. QED
      BY <3>2, <3>5
  <2>3. QED
    BY <2>1, <2>2
<1>2. QED
  BY <1>1, Invariance, PTL

(* Whatever completions race with it, the mark the reconciler wrote (a provider may
   write one of its own into the same key) stands beside the
   reconciler's own status and error code. *)
THEOREM MarkIsTruthful == Spec => []ReconcilerMarkStands
<1>1. IInv => ReconcilerMarkStands
  BY DEF IInv
<1>2. QED
  BY <1>1, Invariance, PTL

(* A terminal event in the audit trail speaks of a terminal execution. *)
THEOREM AuditIsTruthful == Spec => []AuditFollowsLedger
<1>1. IInv => AuditFollowsLedger
  BY DEF IInv
<1>2. QED
  BY <1>1, Invariance, PTL

(* The step that marks a row finds it open and overdue, however long ago the
   pass scanned it. *)
THEOREM SweepIsConditional == Spec => SweepSparesSettled
<1>1. IInv /\ [Next]_vars =>
        [\A i \in Rows : /\ ledger'[i].reconciliation = "reconciler"
                         /\ ledger[i].reconciliation # "reconciler"
           => Overdue(ledger[i], now)]_vars
  <2> SUFFICES ASSUME IInv, [Next]_vars, NEW i \in Rows,
                      ledger'[i].reconciliation = "reconciler", ledger[i].reconciliation # "reconciler"
               PROVE  Overdue(ledger[i], now)
    OBVIOUS
  <2>1. i \in Id
    BY DEF Rows
  <2>2. CASE ledger' = ledger
    BY <2>2
  <2>3. ASSUME NEW h \in Handler, BeginCreate(h)
        PROVE  ledger'[i] = ledger[i]
    BY <2>3, InsertedRow
  <2>4. ASSUME NEW h \in Handler, CompleteWrite(h)
        PROVE  ledger'[i] = ledger[i] \/ ledger'[i].reconciliation # "reconciler"
    BY <2>1, <2>4, CompletionOfRow, WrittenFields
  <2>5. ASSUME NEW j \in Id, SweepMark(j)
        PROVE  ledger'[i] = ledger[i] \/ Overdue(ledger[i], now)
    BY <2>1, <2>5, MarkOfRow
  <2>6. QED
    BY <2>2, <2>3, <2>4, <2>5, StepsMoveLedger DEF LedgerMoves
<1>2. QED
  BY <1>1, Invariance, PTL DEF Spec, SweepSparesSettled

-----------------------------------------------------------------------------
(* The refinement.                                                         *)

(* An empty table is an empty ledger. *)
LEMMA InitContract == Init => Contract!Init
BY DEF Init, Contract!Init, Rows, TerminalRows

(* Every step opens an entry, closes one, or changes nothing the ledger shows. *)
LEMMA NextContract ==
  IInv /\ IInv' /\ [Next]_vars => [Contract!Next]_(Contract!ledgerVars)
<1> SUFFICES ASSUME IInv, IInv', [Next]_vars
             PROVE  [Contract!Next]_(Contract!ledgerVars)
  OBVIOUS
<1> DEFINE entries  == { EntryOf(ledger[i]) : i \in Rows }
           settled  == { EntryOf(ledger[i]) : i \in TerminalRows }
<1>1. CASE ledger' = ledger
  BY <1>1 DEF Contract!ledgerVars, Rows, TerminalRows, EntryOf
<1>2. ASSUME NEW h \in Handler, BeginCreate(h)
      PROVE  [Contract!Next]_(Contract!ledgerVars)
  <2>1. PICK i \in Id \ Rows :
           /\ ledger'[i] = NewRow(task[h].req)
           /\ NewRow(task[h].req) \in Row
           /\ \A j \in Rows : ~Collides(ledger[j], task[h].req)
           /\ Rows' = Rows \cup {i}
           /\ \A j \in Rows : ledger'[j] = ledger[j]
    BY <1>2, InsertedRow
  <2>2. NewRow(task[h].req).status \notin Terminal
    BY DEF NewRow, Terminal
  <2>3. TerminalRows' = TerminalRows
    BY <2>1, <2>2 DEF TerminalRows
  <2> DEFINE e == EntryOf(NewRow(task[h].req))
  <2>4. entries' = entries \cup {e} /\ settled' = settled
    BY <2>1, <2>3 DEF EntryOf, TerminalRows
  <2>5. \A f \in entries : f[1] # e[1]
    <3>1. \A j \in Rows : EntryOf(ledger[j])[1] # e[1]
      BY <2>1 DEF EntryOf, NewRow, Collides, SameCall
    <3>2. QED
      BY <3>1
  <2>6. /\ e[1] \in Executor \X Key /\ e[2] \in Provider \X Payload
        /\ e = <<e[1], e[2]>>
    BY <2>1 DEF EntryOf, Row
  <2>7. Contract!Open(e[1], e[2])
    BY <2>4, <2>5, <2>6 DEF Contract!Open
  <2>8. QED
    BY <2>6, <2>7 DEF Contract!Next
<1>3. ASSUME NEW i \in Rows, Rows' = Rows, SameIdentity(ledger'[i], ledger[i]),
             ledger'[i].status \in Terminal, ledger[i] \in Row,
             \A j \in Id \ {i} : ledger'[j] = ledger[j]
      PROVE  [Contract!Next]_(Contract!ledgerVars)
  <2>1. \A j \in Rows : EntryOf(ledger'[j]) = EntryOf(ledger[j])
    BY <1>3 DEF Rows, EntryOf, SameIdentity
  <2>2. TerminalRows' = TerminalRows \cup {i}
    BY <1>3 DEF TerminalRows, Rows
  <2> DEFINE e == EntryOf(ledger[i])
  <2>3. entries' = entries /\ settled' = settled \cup {e}
    BY <1>3, <2>1, <2>2 DEF TerminalRows
  <2>4. e \in entries /\ e \in Contract!Entry
    BY <1>3 DEF EntryOf, Row, Contract!Entry
  <2>5. Contract!Close(e)
    BY <2>3, <2>4 DEF Contract!Close
  <2>6. QED
    BY <2>4, <2>5 DEF Contract!Next
<1>4. ASSUME NEW h \in Handler, CompleteWrite(h)
      PROVE  [Contract!Next]_(Contract!ledgerVars)
  <2>1. /\ SameIdentity(ledger'[task[h].id], ledger[task[h].id])
        /\ ledger'[task[h].id].status \in Terminal
    BY <1>4, CompletionOfRow, WrittenFields, ReportFields
  <2>2. QED
    BY <1>3, <1>4, <2>1, CompletionOfRow
<1>5. ASSUME NEW i \in Id, SweepMark(i)
      PROVE  [Contract!Next]_(Contract!ledgerVars)
  <2>1. /\ SameIdentity(ledger'[i], ledger[i])
        /\ ledger'[i].status \in Terminal
    BY <1>5, MarkOfRow, WrittenFields DEF Terminal
  <2>2. QED
    BY <1>3, <1>5, <2>1, MarkOfRow
<1>6. QED
  BY <1>1, <1>2, <1>4, <1>5, StepsMoveLedger DEF LedgerMoves

(* The ledger with its racing handlers and reconciler implements the idempotent
   ledger: one entry per call, never withdrawn, closed for good. *)
THEOREM LedgerIsIdempotent == Spec => ImplementsContract
<1>1. QED
  BY InitContract, NextContract, Invariance, PTL
  DEF Spec, ImplementsContract, Contract!Spec

(* An entry needs a free slot, and closing needs an entry. *)
LEMMA LedgerStep ==
  Contract!OnePayloadPerSlot /\ [Contract!Next]_(Contract!ledgerVars)
    => Contract!OnePayloadPerSlot'
<1> SUFFICES ASSUME Contract!OnePayloadPerSlot, [Contract!Next]_(Contract!ledgerVars)
             PROVE  Contract!OnePayloadPerSlot'
  OBVIOUS
<1> DEFINE entries == { EntryOf(ledger[i]) : i \in Rows }
           settled == { EntryOf(ledger[i]) : i \in TerminalRows }
<1>1. /\ entries \subseteq Contract!Entry /\ settled \subseteq entries
      /\ \A e, f \in entries : e[1] = f[1] => e = f
  BY DEF Contract!OnePayloadPerSlot
<1>2. /\ entries' \subseteq Contract!Entry /\ settled' \subseteq entries'
      /\ \A e, f \in entries' : e[1] = f[1] => e = f
  <2>1. ASSUME NEW s \in Executor \X Key, NEW p \in Provider \X Payload, Contract!Open(s, p)
        PROVE  <1>2!:
    <3>1. <<s, p>> \in Contract!Entry /\ <<s, p>>[1] = s
      BY DEF Contract!Entry
    <3>2. /\ entries' = entries \cup {<<s, p>>} /\ settled' = settled
          /\ \A e \in entries : e[1] # s
      BY <2>1 DEF Contract!Open
    <3> HIDE DEF entries, settled
    <3> QED  BY <1>1, <3>1, <3>2
  <2>2. ASSUME NEW e \in Contract!Entry, Contract!Close(e)
        PROVE  <1>2!:
    <3>1. /\ entries' = entries /\ settled' = settled \cup {e} /\ e \in entries
      BY <2>2 DEF Contract!Close
    <3> HIDE DEF entries, settled
    <3> QED  BY <1>1, <3>1
  <2>3. CASE UNCHANGED Contract!ledgerVars
    <3>1. entries' = entries /\ settled' = settled
      BY <2>3 DEF Contract!ledgerVars
    <3> HIDE DEF entries, settled
    <3> QED  BY <1>1, <3>1
  <2> QED  BY <2>1, <2>2, <2>3 DEF Contract!Next
<1> QED  BY <1>2 DEF Contract!OnePayloadPerSlot

(* No idempotency key ever stands for two payloads, and only an execution that
   exists has a known outcome: an answer of createActionExecution means what
   its caller takes it to mean. *)
THEOREM SlotsAreUnambiguous == Spec => []Contract!OnePayloadPerSlot
<1>1. Contract!Init => Contract!OnePayloadPerSlot
  BY DEF Contract!Init, Contract!OnePayloadPerSlot
<1> QED
  BY <1>1, LedgerStep, LedgerIsIdempotent, PTL DEF ImplementsContract, Contract!Spec

(* No step withdraws an entry or reopens a closed one. *)
THEOREM NothingIsWithdrawn == Spec => Contract!EntriesStand
<1> DEFINE entries == { EntryOf(ledger[i]) : i \in Rows }
           settled == { EntryOf(ledger[i]) : i \in TerminalRows }
<1>1. [Contract!Next]_(Contract!ledgerVars)
        => [entries \subseteq entries' /\ settled \subseteq settled']_(Contract!ledgerVars)
  BY DEF Contract!Next, Contract!Open, Contract!Close, Contract!ledgerVars
<1> QED
  BY <1>1, LedgerIsIdempotent, PTL DEF ImplementsContract, Contract!Spec, Contract!EntriesStand
=============================================================================

---------------------------- MODULE AppDataProofs ----------------------------
(***************************************************************************)
(* Proofs about AppData: the revisions of a record are numbered without a  *)
(* gap and audited one by one, a PATCH keeps what it does not carry unless *)
(* it was overtaken, a deleted record stays as it was deleted, and the     *)
(* tables implement VersionedStore.                                        *)
(*                                                                         *)
(* The invariant DInv says of each transaction in progress how what it has *)
(* written and filed continues what is committed.  It survives the commits *)
(* of others because a transaction that has filed a revision of a record   *)
(* holds the record's row lock.  Traced, on top of it, says which of its   *)
(* call's operations each of those revisions is: with it a commit is one   *)
(* step of the abstract store, and every other step none.                  *)
(***************************************************************************)
EXTENDS AppData, FiniteSetTheorems, SequenceTheorems, TLAPS

Revisions == UNION { [D -> Version] : D \in SUBSET Nat }

GoodOp == {op \in Op : ValidOp(op)}

TaskRecord ==
  [step : Steps, todo : Seq(GoodOp), seen : Row \cup {NoRow}, raced : BOOLEAN, number : Nat,
   wrote : [Record -> Row \cup {NoRow}], filed : [Record -> Revisions],
   noted : [Record -> Nat]]

TypeInv ==
  /\ record \in [Record -> Row \cup {NoRow}]
  /\ revision \in [Record -> Revisions]
  /\ audit \in [Record -> Nat]
  /\ task \in [Handler -> TaskRecord \cup {Idle}]

Count(f) == Cardinality(DOMAIN f)

(* A PATCH op that makes a new version of old keeps the columns it leaves out. *)
KeepsColumns(op, new, old) ==
  /\ op.data = Keep => new.data = old.data
  /\ op.status = Keep => new.status = old.status

VersionKept(new, old) ==
  new.op.kind = "update" /\ ~new.raced => KeepsColumns(new.op, new, old)

-----------------------------------------------------------------------------
(* What is committed of a record: its row, its revisions and how many audit
   rows it has.                                                              *)
CommittedFits(row, revs, audited) ==
  /\ DOMAIN revs = 1 .. Count(revs)
  /\ Count(revs) \in Nat
  /\ row = NoRow <=> Count(revs) = 0
  /\ audited = Count(revs)
  /\ row # NoRow => Shape(revs[Count(revs)]) = Shape(row)
  /\ \A k \in 2 .. Count(revs) : VersionKept(revs[k], revs[k - 1])

-----------------------------------------------------------------------------
(* What a transaction t holds of record r, beside the row and the revisions
   that are committed.                                                       *)
On(t, steps, r) == t.step \in steps /\ Head(t.todo).record = r

(* The number of the newest revision the transaction knows of, and a version. *)
Newest(t, r, revs) == Count(revs) + Count(t.filed[r])

VersionAt(t, r, revs, k) == IF k \in DOMAIN t.filed[r] THEN t.filed[r][k] ELSE revs[k]

(* Its revisions continue the committed ones, each audited by its last statement. *)
FollowsOn(t, r, revs) ==
  /\ Count(t.filed[r]) \in Nat
  /\ DOMAIN t.filed[r] = Count(revs) + 1 .. Newest(t, r, revs)
  /\ t.noted[r] = IF On(t, {"audit"}, r) THEN Count(t.filed[r]) - 1 ELSE Count(t.filed[r])
  /\ On(t, {"file"}, r) => t.number = Newest(t, r, revs) + 1

(* What it has filed it has written; what it has written it has filed, but for
   the row the current operation has just written. *)
FilesWhatItWrote(t, r) ==
  /\ Count(t.filed[r]) # 0 => t.wrote[r] # NoRow
  /\ t.wrote[r] # NoRow /\ Count(t.filed[r]) = 0 => On(t, {"reload", "file"}, r)
  /\ On(t, {"reload", "file", "audit"}, r) => t.wrote[r] # NoRow

(* A record that was read is there to be written. *)
ReadsExist(t, r, row) ==
  On(t, {"write"}, r) /\ Head(t.todo).kind # "create" =>
    t.seen # NoRow /\ (row # NoRow \/ t.wrote[r] # NoRow)

(* A write over a deleted row keeps it, or the reload will not find it. *)
KeepsDeleted(t, r, row) ==
  row # NoRow /\ row.deleted /\ t.wrote[r] # NoRow =>
    /\ t.wrote[r].deleted
    /\ \/ t.wrote[r].data = row.data
       \/ On(t, {"reload"}, r) /\ Head(t.todo).kind = "update"

(* The newest version is the row, and versions keep what was not asked. *)
NewestIsRow(t, r, revs) ==
  Count(t.filed[r]) # 0 /\ ~On(t, {"reload", "file"}, r) =>
    Shape(t.filed[r][Newest(t, r, revs)]) = Shape(t.wrote[r])

FiledKeep(t, r, revs) ==
  \A k \in DOMAIN t.filed[r] : k > 1 => VersionKept(t.filed[r][k], VersionAt(t, r, revs, k - 1))

StagedKeeps(t, r, revs) ==
  On(t, {"reload", "file"}, r) /\ Head(t.todo).kind = "update" /\ ~t.raced =>
    KeepsColumns(Head(t.todo), t.wrote[r], VersionAt(t, r, revs, Newest(t, r, revs)))

RecordFits(t, r, row, revs) ==
  /\ FollowsOn(t, r, revs)
  /\ FilesWhatItWrote(t, r)
  /\ ReadsExist(t, r, row)
  /\ KeepsDeleted(t, r, row)
  /\ NewestIsRow(t, r, revs)
  /\ FiledKeep(t, r, revs)
  /\ StagedKeeps(t, r, revs)

(* An operation is under way until the call is through. *)
Underway(t) == t.step # "commit" => t.todo # <<>>

(* The row lock: two transactions do not write one record. *)
WritersExclude ==
  \A g, h \in Handler : \A r \in Record : Wrote(g, r) /\ Wrote(h, r) => g = h

DInv ==
  /\ TypeInv
  /\ \A r \in Record : CommittedFits(record[r], revision[r], audit[r])
  /\ \A h \in Handler : task[h] # Idle =>
       Underway(task[h]) /\ \A r \in Record : RecordFits(task[h], r, record[r], revision[r])
  /\ WritersExclude

-----------------------------------------------------------------------------
(* Revisions, intervals and rows.                                          *)

LEMMA RevisionsForm ==
  /\ \A f \in Revisions : DOMAIN f \subseteq Nat /\ f \in [DOMAIN f -> Version]
  /\ \A D \in SUBSET Nat : [D -> Version] \subseteq Revisions
BY DEF Revisions

LEMMA IntervalCount ==
  ASSUME NEW f, NEW a \in Nat, NEW b \in Nat, DOMAIN f = a + 1 .. a + b
  PROVE  Count(f) = b
<1>1. Cardinality(a + 1 .. a + b) = IF a + 1 > a + b THEN 0 ELSE a + b - (a + 1) + 1
  BY FS_Interval
<1> QED  BY <1>1 DEF Count

LEMMA NoRevisionIsRevisions == NoRevision \in Revisions /\ Count(NoRevision) = 0
<1>1. NoRevision \in [{} -> Version] /\ DOMAIN NoRevision = {}
  BY DEF NoRevision
<1> QED  BY <1>1, RevisionsForm, FS_EmptySet DEF Count

LEMMA RowsArePresent ==
  /\ \A row \in Row : row # NoRow
  /\ Idle \notin TaskRecord
<1>1. \A row \in Row : row.status # NoRow.status
  BY DEF Row, RecordStatus, NoRow
<1>2. \A t \in TaskRecord : t.step # Idle.step
  BY DEF TaskRecord, Steps, Idle
<1> QED  BY <1>1, <1>2

(* The current operation is one. *)
LEMMA CurrentIsOp ==
  ASSUME NEW t \in TaskRecord, t.todo # <<>>
  PROVE  /\ Head(t.todo) \in Op
         /\ ValidOp(Head(t.todo))
         /\ Head(t.todo).record \in Record
         /\ Tail(t.todo) \in Seq(GoodOp)
<1>1. t.todo \in Seq(GoodOp)
  BY DEF TaskRecord
<1>2. Head(t.todo) \in GoodOp /\ Tail(t.todo) \in Seq(GoodOp)
  BY <1>1, HeadTailProperties
<1> QED  BY <1>2 DEF Op, GoodOp

LEMMA GoodSequences ==
  /\ \A s \in Seq(GoodOp) : s \in Seq(Op)
  /\ \A s \in Seq(Op) : (\A k \in DOMAIN s : ValidOp(s[k])) => s \in Seq(GoodOp)
<1>1. ASSUME NEW s \in Seq(GoodOp)  PROVE s \in Seq(Op)
  <2>1. PICK n \in Nat : s \in [1 .. n -> GoodOp]
    BY SeqDef
  <2>2. s \in [1 .. n -> Op]
    BY <2>1 DEF GoodOp
  <2> QED  BY <2>2, SeqDef
<1>2. ASSUME NEW s \in Seq(Op), \A k \in DOMAIN s : ValidOp(s[k])
      PROVE  s \in Seq(GoodOp)
  <2>1. PICK n \in Nat : s \in [1 .. n -> Op]
    BY SeqDef
  <2>2. s \in [1 .. n -> GoodOp]
    BY <1>2, <2>1 DEF GoodOp
  <2> QED  BY <2>2, SeqDef
<1> QED  BY <1>1, <1>2

-----------------------------------------------------------------------------
(* A transaction moves: the others keep what they hold.                    *)

LEMMA OneTaskMoves ==
  ASSUME DInv, NEW h \in Handler, NEW t,
         task' = [task EXCEPT ![h] = t], UNCHANGED committed,
         t \in TaskRecord, Underway(t),
         \A r \in Record : RecordFits(t, r, record[r], revision[r]),
         \A r \in Record : t.wrote[r] # NoRow => Wrote(h, r) \/ ~Locked(h, r)
  PROVE  DInv'
<1>1. TypeInv'
  BY DEF DInv, TypeInv, committed
<1>2. \A r \in Record : CommittedFits(record'[r], revision'[r], audit'[r])
  BY DEF DInv, committed
<1>3. \A g \in Handler : task'[g] = IF g = h THEN t ELSE task[g]
  BY DEF DInv, TypeInv
<1>4. \A g \in Handler : task'[g] # Idle =>
        Underway(task'[g]) /\ \A r \in Record : RecordFits(task'[g], r, record'[r], revision'[r])
  BY <1>3 DEF DInv, committed
<1>5. \A g \in Handler \ {h} : \A r \in Record : Wrote(g, r) => t.wrote[r] = NoRow
  BY DEF DInv, WritersExclude, Locked
<1>6. WritersExclude'
  BY <1>3, <1>5 DEF DInv, WritersExclude, Wrote, Idle, NoRow
<1> QED
  BY <1>1, <1>2, <1>4, <1>6
  DEF DInv, CommittedFits, Underway, RecordFits, FollowsOn, FilesWhatItWrote, ReadsExist,
      KeepsDeleted, NewestIsRow, FiledKeep, StagedKeeps, Idle, Count, On, Newest, VersionAt,
      VersionKept, KeepsColumns, Shape, NoRow, Keep

LEMMA GivesUp ==
  ASSUME DInv, NEW h \in Handler, GiveUp(h)
  PROVE  DInv'
<1>1. TypeInv'
  BY DEF DInv, TypeInv, committed, GiveUp
<1>2. \A r \in Record : CommittedFits(record'[r], revision'[r], audit'[r])
  BY DEF DInv, committed, GiveUp
<1>3. \A g \in Handler : task'[g] = IF g = h THEN Idle ELSE task[g]
  BY DEF DInv, TypeInv, GiveUp
<1>4. \A g \in Handler : task'[g] # Idle =>
        Underway(task'[g]) /\ \A r \in Record : RecordFits(task'[g], r, record'[r], revision'[r])
  BY <1>3 DEF DInv, committed, GiveUp
<1>5. WritersExclude'
  BY <1>3 DEF DInv, WritersExclude, Wrote, Idle, NoRow
<1> QED
  BY <1>1, <1>2, <1>4, <1>5
  DEF DInv, CommittedFits, Underway, RecordFits, FollowsOn, FilesWhatItWrote, ReadsExist,
      KeepsDeleted, NewestIsRow, FiledKeep, StagedKeeps, Idle, Count, On, Newest, VersionAt,
      VersionKept, KeepsColumns, Shape, NoRow, Keep

(* A record the transaction is not at. *)
Quiet(t, r) == ~On(t, {"reload", "file", "audit"}, r)

LEMMA QuietStep ==
  ASSUME NEW t, NEW u, NEW r, NEW row, NEW revs,
         RecordFits(t, r, row, revs), Quiet(t, r), Quiet(u, r),
         u.wrote[r] = t.wrote[r], u.filed[r] = t.filed[r], u.noted[r] = t.noted[r],
         ReadsExist(u, r, row)
  PROVE  RecordFits(u, r, row, revs)
<1>1. /\ ~On(t, {"audit"}, r) /\ ~On(t, {"file"}, r) /\ ~On(t, {"reload", "file"}, r)
      /\ ~On(t, {"reload"}, r)
      /\ ~On(u, {"audit"}, r) /\ ~On(u, {"file"}, r) /\ ~On(u, {"reload", "file"}, r)
      /\ ~On(u, {"reload"}, r)
  BY DEF Quiet, On
<1>2. FollowsOn(u, r, revs) /\ FilesWhatItWrote(u, r)
  BY <1>1 DEF RecordFits, FollowsOn, FilesWhatItWrote, Newest, Quiet
<1>3. KeepsDeleted(u, r, row) /\ NewestIsRow(u, r, revs)
  BY <1>1 DEF RecordFits, KeepsDeleted, NewestIsRow, Newest
<1>4. FiledKeep(u, r, revs) /\ StagedKeeps(u, r, revs)
  BY <1>1 DEF RecordFits, FiledKeep, StagedKeeps, VersionAt
<1> QED  BY <1>2, <1>3, <1>4 DEF RecordFits

-----------------------------------------------------------------------------
(* The steps of a transaction, one by one.                                 *)

(* What a step of h starts from. *)
LEMMA TaskHeld ==
  ASSUME DInv, NEW h \in Handler, task[h] # Idle
  PROVE  /\ task[h] \in TaskRecord
         /\ Underway(task[h])
         /\ \A r \in Record : RecordFits(task[h], r, record[r], revision[r])
         /\ record \in [Record -> Row \cup {NoRow}]
         /\ revision \in [Record -> Revisions]
         /\ \A r \in Record : CommittedFits(record[r], revision[r], audit[r])
BY DEF DInv, TypeInv

(* A call is admitted with nothing written. *)
LEMMA AdmitStep ==
  ASSUME DInv, NEW h \in Handler, NEW call \in Call, Admit(h, call)
  PROVE  DInv'
<1> DEFINE t == [step |-> StepFor(call), todo |-> call, seen |-> NoRow, raced |-> FALSE,
                 number |-> 0, wrote |-> [r \in Record |-> NoRow],
                 filed |-> [r \in Record |-> NoRevision], noted |-> [r \in Record |-> 0]]
<1>1. call \in Seq(Op) /\ call \in Seq(GoodOp) /\ call # <<>>
  BY CallAssumption, GoodSequences DEF CallAssumption
<1>2. StepFor(call) \in {"read", "write"} /\ (StepFor(call) = "write" => Head(call).kind = "create")
  BY <1>1 DEF StepFor
<1>3. t \in TaskRecord /\ Underway(t)
  BY <1>1, <1>2, NoRevisionIsRevisions DEF TaskRecord, Steps, Underway
<1>4. ASSUME NEW r \in Record  PROVE RecordFits(t, r, record[r], revision[r])
  <2>1. t.wrote[r] = NoRow /\ t.filed[r] = NoRevision /\ t.noted[r] = 0
    OBVIOUS
  <2>2. t.step \in {"read", "write"} /\ (t.step = "write" => Head(t.todo).kind = "create")
    BY <1>2
  <2>3. DOMAIN NoRevision = {} /\ Count(NoRevision) = 0
    BY NoRevisionIsRevisions DEF NoRevision
  <2>4. Count(revision[r]) \in Nat
    BY DEF DInv, CommittedFits
  <2> HIDE DEF t
  <2>5. FollowsOn(t, r, revision[r]) /\ FilesWhatItWrote(t, r)
    BY <2>1, <2>2, <2>3, <2>4 DEF FollowsOn, FilesWhatItWrote, Newest, On
  <2>6. ReadsExist(t, r, record[r]) /\ KeepsDeleted(t, r, record[r])
    BY <2>1, <2>2 DEF ReadsExist, KeepsDeleted, On
  <2>7. /\ NewestIsRow(t, r, revision[r]) /\ FiledKeep(t, r, revision[r])
        /\ StagedKeeps(t, r, revision[r])
    BY <2>1, <2>2, <2>3 DEF NewestIsRow, FiledKeep, StagedKeeps, On
  <2> QED  BY <2>5, <2>6, <2>7 DEF RecordFits
<1>5. task' = [task EXCEPT ![h] = t] /\ UNCHANGED committed
  BY DEF Admit
<1>6. \A r \in Record : t.wrote[r] = NoRow
  OBVIOUS
<1> HIDE DEF t
<1> QED  BY <1>3, <1>4, <1>5, <1>6, OneTaskMoves

LEMMA ReadStep ==
  ASSUME DInv, NEW h \in Handler, task[h] # Idle, ReadRecord(h)
  PROVE  DInv'
<1> DEFINE t == task[h]
<1> DEFINE row == Sees(h, Current(h).record)
<1> DEFINE u == [t EXCEPT !.step = "write", !.seen = row]
<1>1. t \in TaskRecord /\ t.step = "read" /\ t.todo # <<>>
  BY TaskHeld DEF ReadRecord, Underway
<1>2. Current(h) = Head(t.todo) /\ Current(h).record \in Record
  BY <1>1, CurrentIsOp DEF Current
<1>3. row \in Row /\ row # NoRow
  <2>1. row # NoRow
    BY DEF ReadRecord, Live
  <2>2. row \in Row \cup {NoRow}
    BY <1>1, <1>2, TaskHeld DEF Sees, TaskRecord
  <2> QED  BY <2>1, <2>2
<1>4. row = IF t.wrote[Current(h).record] # NoRow THEN t.wrote[Current(h).record]
            ELSE record[Current(h).record]
  BY DEF Sees, Wrote
<1> HIDE DEF row
<1>5. u \in TaskRecord
  BY <1>1, <1>3 DEF TaskRecord, Steps
<1>6. /\ u.step = "write" /\ u.seen = row /\ u.todo = t.todo /\ u.wrote = t.wrote
      /\ u.filed = t.filed /\ u.noted = t.noted
  BY <1>1 DEF TaskRecord
<1>7. task' = [task EXCEPT ![h] = u] /\ UNCHANGED committed
  BY DEF ReadRecord, row
<1> HIDE DEF u
<1>8. ASSUME NEW r \in Record  PROVE RecordFits(u, r, record[r], revision[r])
  <2>1. RecordFits(t, r, record[r], revision[r])
    BY TaskHeld
  <2>2. Quiet(t, r) /\ Quiet(u, r)
    BY <1>1, <1>6 DEF Quiet, On
  <2>3. ReadsExist(u, r, record[r])
    BY <1>2, <1>3, <1>4, <1>6 DEF ReadsExist, On
  <2> HIDE DEF t
  <2> QED  BY <1>6, <2>1, <2>2, <2>3, QuietStep
<1>9. Underway(u) /\ \A r \in Record : u.wrote[r] # NoRow => Wrote(h, r)
  BY <1>1, <1>6 DEF Underway, Wrote
<1> QED  BY <1>5, <1>7, <1>8, <1>9, OneTaskMoves

(* The newest version of a record a transaction is not at is the row it sees. *)
LEMMA NewestShowsRow ==
  ASSUME NEW t, NEW r, NEW row, NEW revs, NEW audited,
         RecordFits(t, r, row, revs), CommittedFits(row, revs, audited),
         ~On(t, {"reload", "file"}, r), row # NoRow \/ t.wrote[r] # NoRow
  PROVE  Shape(VersionAt(t, r, revs, Newest(t, r, revs))) =
           Shape(IF t.wrote[r] # NoRow THEN t.wrote[r] ELSE row)
<1>1. /\ Count(revs) \in Nat /\ Count(t.filed[r]) \in Nat
      /\ DOMAIN t.filed[r] = Count(revs) + 1 .. Newest(t, r, revs)
  BY DEF RecordFits, FollowsOn, CommittedFits
<1>2. CASE t.wrote[r] # NoRow
  <2>1. Count(t.filed[r]) # 0
    BY <1>2 DEF RecordFits, FilesWhatItWrote
  <2>2. Newest(t, r, revs) \in DOMAIN t.filed[r]
    BY <1>1, <2>1 DEF Newest
  <2> QED  BY <1>2, <2>1, <2>2 DEF RecordFits, NewestIsRow, VersionAt
<1>3. CASE t.wrote[r] = NoRow
  <2>1. Count(t.filed[r]) = 0
    BY <1>3 DEF RecordFits, FilesWhatItWrote
  <2>2. Newest(t, r, revs) = Count(revs) /\ Newest(t, r, revs) \notin DOMAIN t.filed[r]
    BY <1>1, <2>1 DEF Newest
  <2> QED  BY <1>3, <2>2 DEF CommittedFits, VersionAt
<1> QED  BY <1>2, <1>3

LEMMA StageStep ==
  ASSUME DInv, NEW h \in Handler, task[h] # Idle, task[h].step = "write",
         ~Locked(h, Current(h).record),
         NEW row \in Row, NEW raced \in BOOLEAN, Stage(h, row, raced),
         LET was == record[Current(h).record]
         IN was # NoRow /\ was.deleted =>
              row.deleted /\ (row.data = was.data \/ Current(h).kind = "update"),
         Current(h).kind = "update" /\ ~raced =>
           /\ Sees(h, Current(h).record) # NoRow
           /\ KeepsColumns(Current(h), row, Sees(h, Current(h).record))
  PROVE  DInv'
<1> DEFINE t == task[h]
<1> DEFINE at == Current(h).record
<1> DEFINE u == [t EXCEPT !.step = "reload", !.raced = raced, !.wrote[at] = row]
<1>1. t \in TaskRecord /\ t.todo # <<>> /\ t.wrote \in [Record -> Row \cup {NoRow}]
  BY TaskHeld DEF Underway, TaskRecord
<1>2. Current(h) = Head(t.todo) /\ at \in Record
  BY <1>1, CurrentIsOp DEF Current
<1>3. row # NoRow
  BY RowsArePresent
<1>4. [t.wrote EXCEPT ![at] = row] \in [Record -> Row \cup {NoRow}]
  BY <1>1
<1>5. u \in TaskRecord
  BY <1>1, <1>4 DEF TaskRecord, Steps
<1>6. /\ u.step = "reload" /\ u.raced = raced /\ u.todo = t.todo
      /\ u.filed = t.filed /\ u.noted = t.noted
      /\ u.wrote = [t.wrote EXCEPT ![at] = row]
  BY <1>1 DEF TaskRecord
<1>7. u.wrote[at] = row /\ \A r \in Record \ {at} : u.wrote[r] = t.wrote[r]
  BY <1>1, <1>2, <1>6
<1>8. task' = [task EXCEPT ![h] = u] /\ UNCHANGED committed
  BY DEF Stage
<1> HIDE DEF u
<1>9. ASSUME NEW r \in Record, r # at  PROVE RecordFits(u, r, record[r], revision[r])
  <2>1. RecordFits(t, r, record[r], revision[r])
    BY TaskHeld
  <2>2. Quiet(t, r) /\ Quiet(u, r) /\ ReadsExist(u, r, record[r])
    BY <1>2, <1>6, <1>9 DEF Quiet, On, ReadsExist
  <2> HIDE DEF t, at
  <2> QED  BY <1>6, <1>7, <1>9, <2>1, <2>2, QuietStep
<1>10. RecordFits(u, at, record[at], revision[at])
  <2> DEFINE revs == revision[at]
  <2>1. RecordFits(t, at, record[at], revs) /\ CommittedFits(record[at], revs, audit[at])
    BY <1>2, TaskHeld
  <2>2. /\ ~On(t, {"audit"}, at) /\ ~On(t, {"file"}, at) /\ ~On(t, {"reload", "file"}, at)
        /\ ~On(u, {"audit"}, at) /\ ~On(u, {"file"}, at) /\ On(u, {"reload", "file"}, at)
        /\ On(u, {"reload"}, at)
    BY <1>2, <1>6 DEF On
  <2> HIDE DEF t, at
  <2>3. FollowsOn(u, at, revs)
    BY <1>6, <2>1, <2>2 DEF RecordFits, FollowsOn, Newest
  <2>4. FilesWhatItWrote(u, at)
    BY <1>3, <1>7, <2>2 DEF FilesWhatItWrote
  <2>5. ReadsExist(u, at, record[at])
    BY <1>6 DEF ReadsExist, On
  <2>6. KeepsDeleted(u, at, record[at])
    BY <1>2, <1>6, <1>7, <2>2 DEF KeepsDeleted, at, t
  <2>7. NewestIsRow(u, at, revs) /\ FiledKeep(u, at, revs)
    BY <1>6, <2>1, <2>2 DEF RecordFits, NewestIsRow, FiledKeep, VersionAt
  <2>8. StagedKeeps(u, at, revs)
    <3> SUFFICES ASSUME Current(h).kind = "update", ~raced
                 PROVE  KeepsColumns(Current(h), row, VersionAt(t, at, revs, Newest(t, at, revs)))
      BY <1>2, <1>6, <1>7 DEF StagedKeeps, VersionAt, Newest
    <3>1. /\ Sees(h, at) # NoRow
          /\ KeepsColumns(Current(h), row, Sees(h, at))
      BY DEF at
    <3>2. Sees(h, at) = IF t.wrote[at] # NoRow THEN t.wrote[at] ELSE record[at]
      BY DEF Sees, Wrote, t
    <3>3. Shape(VersionAt(t, at, revs, Newest(t, at, revs))) = Shape(Sees(h, at))
      BY <2>1, <2>2, <3>1, <3>2, NewestShowsRow
    <3>4. \A v, w : Shape(v) = Shape(w) => v.data = w.data /\ v.status = w.status
      BY DEF Shape
    <3> QED  BY <3>1, <3>3, <3>4 DEF KeepsColumns
  <2> QED  BY <2>3, <2>4, <2>5, <2>6, <2>7, <2>8 DEF RecordFits
<1>11. Underway(u)
  BY <1>1, <1>6 DEF Underway
<1>12. \A r \in Record : u.wrote[r] # NoRow => Wrote(h, r) \/ ~Locked(h, r)
  BY <1>7 DEF Wrote
<1> QED  BY <1>5, <1>8, <1>9, <1>10, <1>11, <1>12, OneTaskMoves

(* What the write of each kind of operation leaves. *)
LEMMA WriteStep ==
  ASSUME DInv, NEW h \in Handler, task[h] # Idle, WriteRecord(h)
  PROVE  DInv'
<1> DEFINE t == task[h]
<1> DEFINE op == Current(h)
<1> DEFINE at == op.record
<1> DEFINE now == Sees(h, at)
<1>1. t.step = "write" /\ ~Locked(h, at)
  BY DEF WriteRecord, CreateRecord, CreateConflict, UpdateRecord, ChangeStatus, Writes
<1>2. t \in TaskRecord /\ t.todo # <<>> /\ RecordFits(t, at, record[at], revision[at])
      /\ op = Head(t.todo) /\ op \in Op /\ ValidOp(op) /\ at \in Record
  <2>1. t \in TaskRecord /\ t.todo # <<>>
    BY <1>1, TaskHeld DEF Underway
  <2>2. op = Head(t.todo) /\ op \in Op /\ ValidOp(op) /\ at \in Record
    BY <2>1, CurrentIsOp DEF Current
  <2> QED  BY <2>1, <2>2, TaskHeld
<1>3. now = (IF t.wrote[at] # NoRow THEN t.wrote[at] ELSE record[at]) /\ now \in Row \cup {NoRow}
  BY <1>2, TaskHeld DEF Sees, Wrote, TaskRecord
<1>4. op.kind # "create" => now \in Row /\ t.seen \in Row
  <2>1. op.kind # "create" => t.seen # NoRow /\ now # NoRow
    BY <1>1, <1>2, <1>3 DEF RecordFits, ReadsExist, On
  <2> QED  BY <1>2, <1>3, <2>1 DEF TaskRecord
<1>5. record[at] # NoRow /\ record[at].deleted /\ now # NoRow =>
        now.deleted /\ now.data = record[at].data
  BY <1>1, <1>2, <1>3 DEF RecordFits, KeepsDeleted, On
<1> HIDE DEF now, t
<1>9. CASE CreateRecord(h)
  <2>1. op.kind = "create" /\ now = NoRow /\ Stage(h, NewRow(op), FALSE)
    BY <1>9 DEF CreateRecord, Writes, now
  <2>2. op.data # Keep
    BY <1>2, <2>1 DEF ValidOp
  <2>3. NewRow(op) \in Row
    BY <1>2, <2>2 DEF NewRow, Row, Op, RecordStatus
  <2>4. record[at] = NoRow
    BY <1>3, <2>1
  <2> QED  BY <1>1, <2>1, <2>3, <2>4, StageStep DEF t
<1>10. CASE UpdateRecord(h)
  <2> DEFINE new == Proposed(t.seen, op)
  <2> DEFINE row == [now EXCEPT !.data = new.data, !.status = new.status]
  <2>1. op.kind = "update" /\ Stage(h, row, now # t.seen)
    BY <1>10 DEF UpdateRecord, Writes, now, t
  <2>2. now \in Row /\ t.seen \in Row
    BY <1>4, <2>1
  <2>3. new.data \in Data /\ new.status \in RecordStatus
    BY <1>2, <2>2 DEF Proposed, Op, Row
  <2>4. /\ op.data = Keep => new.data = t.seen.data
        /\ op.status = Keep => new.status = t.seen.status
    BY DEF Proposed
  <2> HIDE DEF new
  <2>5. row \in Row /\ row.data = new.data /\ row.status = new.status
    BY <2>2, <2>3 DEF Row
  <2>6. row.deleted = now.deleted
    BY <2>2, <2>3 DEF Row
  <2>7. now # NoRow
    BY <2>2, RowsArePresent
  <2> HIDE DEF row
  <2>8. record[at] # NoRow /\ record[at].deleted => row.deleted
    BY <1>5, <2>6, <2>7
  <2>9. ~(now # t.seen) => KeepsColumns(op, row, now)
    BY <2>4, <2>5 DEF KeepsColumns
  <2>10. (now # t.seen) \in BOOLEAN
    OBVIOUS
  <2> QED  BY <1>1, <2>1, <2>5, <2>7, <2>8, <2>9, <2>10, StageStep DEF t, now
<1>11. CASE ChangeStatus(h)
  <2> DEFINE st == StatusAfter(op.kind)
  <2> DEFINE gone == now.deleted \/ op.kind = "delete"
  <2> DEFINE row == [now EXCEPT !.status = st, !.deleted = gone]
  <2>1. op.kind \in {"archive", "delete"} /\ Stage(h, row, now # t.seen)
    BY <1>11 DEF ChangeStatus, Writes, now, t
  <2>2. now \in Row
    BY <1>4, <2>1
  <2>3. st \in RecordStatus /\ gone \in BOOLEAN
    BY <2>2 DEF StatusAfter, RecordStatus, Row
  <2>9. now.deleted => gone
    OBVIOUS
  <2> HIDE DEF st, gone
  <2>4. row \in Row /\ row.data = now.data
    BY <2>2, <2>3 DEF Row
  <2>5. row.deleted = gone
    BY <2>2, <2>3 DEF Row
  <2>6. now # NoRow
    BY <2>2, RowsArePresent
  <2> HIDE DEF row
  <2>7. record[at] # NoRow /\ record[at].deleted => row.deleted /\ row.data = record[at].data
    BY <1>5, <2>4, <2>5, <2>6, <2>9
  <2>8. (now # t.seen) \in BOOLEAN /\ op.kind # "update"
    BY <2>1
  <2> QED  BY <1>1, <2>1, <2>4, <2>7, <2>8, StageStep DEF t
<1>12. CASE CreateConflict(h)
  BY <1>12, GivesUp DEF CreateConflict
<1> QED  BY <1>9, <1>10, <1>11, <1>12 DEF WriteRecord

(* The number counted is the one after the newest. *)
LEMMA ReloadStep ==
  ASSUME DInv, NEW h \in Handler, task[h] # Idle, ReloadRecord(h)
  PROVE  DInv'
<1> DEFINE t == task[h]
<1> DEFINE at == Current(h).record
<1> DEFINE revs == revision[at]
<1> DEFINE number == NumberFor(h, at)
<1> DEFINE u == [t EXCEPT !.step = "file", !.number = number]
<1>1. t \in TaskRecord /\ t.step = "reload" /\ t.todo # <<>>
  BY TaskHeld DEF ReloadRecord, Underway
<1>2. Current(h) = Head(t.todo) /\ at \in Record
  BY <1>1, CurrentIsOp DEF Current
<1>3. RecordFits(t, at, record[at], revs) /\ CommittedFits(record[at], revs, audit[at])
  BY <1>2, TaskHeld
<1>4. number = Newest(t, at, revs) + 1 /\ number \in Nat
  <2> DEFINE n == Count(revs)
  <2> DEFINE m == Count(t.filed[at])
  <2>1. n \in Nat /\ m \in Nat /\ DOMAIN revs = 1 .. n /\ DOMAIN t.filed[at] = n + 1 .. n + m
    BY <1>3 DEF CommittedFits, RecordFits, FollowsOn, Newest
  <2>2. number = Cardinality(DOMAIN revs \cup DOMAIN t.filed[at]) + 1
    BY DEF NumberFor, Numbers
  <2>3. Newest(t, at, revs) = n + m
    BY DEF Newest
  <2> HIDE DEF n, m, number, t, at, revs
  <2>4. DOMAIN revs \cup DOMAIN t.filed[at] = 1 .. n + m
    BY <2>1
  <2>5. Cardinality(1 .. n + m) = n + m
    BY <2>1, FS_Interval
  <2>6. number = n + m + 1
    BY <2>2, <2>4, <2>5
  <2> QED  BY <2>1, <2>3, <2>6
<1>5. Reloads(Head(t.todo), t.wrote[at])
  BY <1>2 DEF ReloadRecord
<1>6. task' = [task EXCEPT ![h] = u] /\ UNCHANGED committed
  BY DEF ReloadRecord
<1> HIDE DEF number
<1>7. u \in TaskRecord
  BY <1>1, <1>4 DEF TaskRecord, Steps
<1>8. /\ u.step = "file" /\ u.number = number /\ u.todo = t.todo /\ u.wrote = t.wrote
      /\ u.filed = t.filed /\ u.noted = t.noted /\ u.raced = t.raced
  BY <1>1 DEF TaskRecord
<1> HIDE DEF u
<1>9. ASSUME NEW r \in Record, r # at  PROVE RecordFits(u, r, record[r], revision[r])
  <2>1. RecordFits(t, r, record[r], revision[r])
    BY TaskHeld
  <2>2. Quiet(t, r) /\ Quiet(u, r) /\ ReadsExist(u, r, record[r])
    BY <1>2, <1>8, <1>9 DEF Quiet, On, ReadsExist
  <2> HIDE DEF t, at
  <2> QED  BY <1>8, <2>1, <2>2, QuietStep
<1>10. RecordFits(u, at, record[at], revs)
  <2>1. /\ ~On(t, {"audit"}, at) /\ ~On(u, {"audit"}, at) /\ On(u, {"file"}, at)
        /\ On(t, {"reload", "file"}, at) /\ On(u, {"reload", "file"}, at)
        /\ On(t, {"reload", "file", "audit"}, at) /\ ~On(u, {"write"}, at)
    BY <1>1, <1>2, <1>8 DEF On
  <2> HIDE DEF t, at, revs
  <2>2. FollowsOn(u, at, revs) /\ FilesWhatItWrote(u, at)
    BY <1>3, <1>4, <1>8, <2>1 DEF RecordFits, FollowsOn, FilesWhatItWrote, Newest
  <2>3. ReadsExist(u, at, record[at]) /\ NewestIsRow(u, at, revs)
    BY <2>1 DEF ReadsExist, NewestIsRow
  <2>4. KeepsDeleted(u, at, record[at])
    BY <1>3, <1>5, <1>8 DEF RecordFits, KeepsDeleted, Reloads, Live
  <2>5. FiledKeep(u, at, revs) /\ StagedKeeps(u, at, revs)
    BY <1>3, <1>8, <2>1 DEF RecordFits, FiledKeep, StagedKeeps, VersionAt, Newest
  <2> QED  BY <2>2, <2>3, <2>4, <2>5 DEF RecordFits
<1>11. Underway(u) /\ \A r \in Record : u.wrote[r] # NoRow => Wrote(h, r)
  BY <1>1, <1>8 DEF Underway, Wrote
<1> QED
  <2> HIDE DEF at, revs
  <2>1. \A r \in Record : RecordFits(u, r, record[r], revision[r])
    BY <1>9, <1>10 DEF revs
  <2> QED  BY <1>6, <1>7, <2>1, <1>11, OneTaskMoves

(* The revision filed is the next one, and it is the row just written. *)
LEMMA FileStep ==
  ASSUME DInv, NEW h \in Handler, task[h] # Idle, FileRevision(h)
  PROVE  DInv'
<1> DEFINE t == task[h]
<1> DEFINE at == Current(h).record
<1> DEFINE revs == revision[at]
<1> DEFINE n == Count(revs)
<1> DEFINE m == Count(t.filed[at])
<1> DEFINE v == Filed(h, t.wrote[at])
<1> DEFINE f == With(t.filed[at], t.number, v)
<1> DEFINE u == [t EXCEPT !.step = "audit", !.filed[at] = f]
<1>1. t \in TaskRecord /\ t.step = "file" /\ t.todo # <<>>
      /\ t.filed \in [Record -> Revisions] /\ t.wrote \in [Record -> Row \cup {NoRow}]
  BY TaskHeld DEF FileRevision, Underway, TaskRecord
<1>2. Current(h) = Head(t.todo) /\ at \in Record /\ Head(t.todo) \in Op
  BY <1>1, CurrentIsOp DEF Current
<1>3. RecordFits(t, at, record[at], revs) /\ CommittedFits(record[at], revs, audit[at])
  BY <1>2, TaskHeld
<1>4. /\ On(t, {"file"}, at) /\ On(t, {"reload", "file"}, at) /\ On(t, {"reload", "file", "audit"}, at)
      /\ ~On(t, {"audit"}, at) /\ ~On(t, {"reload"}, at)
  BY <1>1, <1>2 DEF On
<1>5. /\ n \in Nat /\ m \in Nat /\ t.number = n + m + 1
      /\ DOMAIN t.filed[at] = n + 1 .. n + m /\ t.wrote[at] # NoRow
  BY <1>3, <1>4 DEF CommittedFits, RecordFits, FollowsOn, FilesWhatItWrote, Newest
<1>6. /\ v.op = Head(t.todo) /\ v.raced = t.raced /\ Shape(v) = Shape(t.wrote[at])
      /\ v.data = t.wrote[at].data /\ v.status = t.wrote[at].status
  BY <1>2 DEF Filed, Shape
<1>7. v \in Version
  <2>1. t.wrote[at] \in Row /\ t.raced \in BOOLEAN
    BY <1>1, <1>2, <1>5 DEF TaskRecord
  <2> QED  BY <1>2, <2>1 DEF Filed, Version, Row
<1>8. task' = [task EXCEPT ![h] = u] /\ UNCHANGED committed
  BY DEF FileRevision
<1> HIDE DEF v
<1>9. /\ DOMAIN f = n + 1 .. n + (m + 1)
      /\ f[n + m + 1] = v
      /\ \A k \in n + 1 .. n + m : f[k] = t.filed[at][k]
  <2> HIDE DEF n, m
  <2> QED  BY <1>5 DEF With
<1>10. f \in Revisions
  <2>1. t.filed[at] \in [DOMAIN t.filed[at] -> Version] /\ DOMAIN t.filed[at] \subseteq Nat
    BY <1>1, <1>2, RevisionsForm
  <2>2. f \in [DOMAIN f -> Version]
    BY <1>7, <2>1 DEF With
  <2>3. DOMAIN f \in SUBSET Nat
    <3> HIDE DEF n, m, f
    <3> QED  BY <1>5, <1>9
  <2> HIDE DEF f
  <2> QED  BY <2>2, <2>3, RevisionsForm
<1>11. Count(f) = m + 1
  <2> HIDE DEF n, m, f
  <2> QED  BY <1>5, <1>9, IntervalCount
<1> HIDE DEF f
<1>12. u \in TaskRecord
  <2>1. [t.filed EXCEPT ![at] = f] \in [Record -> Revisions]
    BY <1>1, <1>10
  <2> QED  BY <1>1, <2>1 DEF TaskRecord, Steps
<1>13. /\ u.step = "audit" /\ u.todo = t.todo /\ u.wrote = t.wrote /\ u.noted = t.noted
       /\ u.filed[at] = f /\ \A r \in Record \ {at} : u.filed[r] = t.filed[r]
  BY <1>1, <1>2 DEF TaskRecord
<1> HIDE DEF u
<1>14. ASSUME NEW r \in Record, r # at  PROVE RecordFits(u, r, record[r], revision[r])
  <2>1. RecordFits(t, r, record[r], revision[r])
    BY TaskHeld
  <2>2. Quiet(t, r) /\ Quiet(u, r) /\ ReadsExist(u, r, record[r])
    BY <1>2, <1>13, <1>14 DEF Quiet, On, ReadsExist
  <2> HIDE DEF t, at
  <2> QED  BY <1>13, <1>14, <2>1, <2>2, QuietStep
<1>15. RecordFits(u, at, record[at], revs)
  <2>1. /\ On(u, {"audit"}, at) /\ ~On(u, {"file"}, at) /\ ~On(u, {"reload"}, at)
        /\ ~On(u, {"reload", "file"}, at) /\ ~On(u, {"write"}, at)
    BY <1>2, <1>13 DEF On
  <2>2. Newest(t, at, revs) = n + m /\ Newest(u, at, revs) = n + (m + 1)
    BY <1>11, <1>13 DEF Newest
  <2>3. t.noted[at] = m
    BY <1>3, <1>4 DEF RecordFits, FollowsOn
  <2>4. n = Count(revs)
    OBVIOUS
  <2> HIDE DEF t, at, revs, n, m
  <2>5. FollowsOn(u, at, revs)
    BY <1>5, <1>9, <1>11, <1>13, <2>1, <2>2, <2>3, <2>4 DEF FollowsOn
  <2>6. FilesWhatItWrote(u, at) /\ ReadsExist(u, at, record[at]) /\ StagedKeeps(u, at, revs)
    BY <1>5, <1>11, <1>13, <2>1 DEF FilesWhatItWrote, ReadsExist, StagedKeeps
  <2>7. KeepsDeleted(u, at, record[at])
    BY <1>3, <1>4, <1>13 DEF RecordFits, KeepsDeleted
  <2>8. n + (m + 1) = n + m + 1
    BY <1>5
  <2>9. NewestIsRow(u, at, revs)
    BY <1>6, <1>9, <1>13, <2>2, <2>8 DEF NewestIsRow
  <2>10. FiledKeep(u, at, revs)
    <3> SUFFICES ASSUME NEW k \in DOMAIN f, k > 1
                 PROVE  VersionKept(f[k], VersionAt(u, at, revs, k - 1))
      BY <1>13 DEF FiledKeep
    <3>1. k \in n + 1 .. n + m \/ k = n + m + 1
      BY <1>5, <1>9
    <3>2. VersionAt(u, at, revs, k - 1) = VersionAt(t, at, revs, k - 1)
      <4>1. CASE k - 1 \in n + 1 .. n + m
        BY <1>5, <1>9, <1>13, <4>1 DEF VersionAt
      <4>2. CASE k - 1 \notin n + 1 .. n + m
        <5>1. k - 1 \notin DOMAIN f
          BY <1>5, <1>9, <3>1, <4>2
        <5> QED  BY <1>5, <1>13, <4>2, <5>1 DEF VersionAt
      <4> QED  BY <4>1, <4>2
    <3>3. CASE k \in n + 1 .. n + m
      BY <1>3, <1>5, <1>9, <3>2, <3>3 DEF RecordFits, FiledKeep
    <3>4. CASE k = n + m + 1
      <4>1. k - 1 = Newest(t, at, revs) /\ f[k] = v
        BY <1>5, <1>9, <2>2, <3>4
      <4> QED
        BY <1>3, <1>4, <1>6, <3>2, <4>1
        DEF RecordFits, StagedKeeps, VersionKept, KeepsColumns
    <3> QED  BY <3>1, <3>3, <3>4
  <2> QED  BY <2>5, <2>6, <2>7, <2>9, <2>10 DEF RecordFits
<1>16. Underway(u) /\ \A r \in Record : u.wrote[r] # NoRow => Wrote(h, r)
  BY <1>1, <1>13 DEF Underway, Wrote
<1> QED
  <2> HIDE DEF at, revs
  <2>1. \A r \in Record : RecordFits(u, r, record[r], revision[r])
    BY <1>14, <1>15 DEF revs
  <2> QED  BY <1>8, <1>12, <2>1, <1>16, OneTaskMoves

(* The next operation begins with as many audit rows as revisions. *)
LEMMA AuditStep ==
  ASSUME DInv, NEW h \in Handler, task[h] # Idle, AuditMutation(h)
  PROVE  DInv'
<1> DEFINE t == task[h]
<1> DEFINE at == Current(h).record
<1> DEFINE rest == Tail(t.todo)
<1> DEFINE noted == [t.noted EXCEPT ![at] = @ + 1]
<1> DEFINE u == [t EXCEPT !.step = StepFor(rest), !.todo = rest, !.seen = NoRow,
                          !.raced = FALSE, !.noted = noted]
<1>1. t \in TaskRecord /\ t.step = "audit" /\ t.todo # <<>> /\ t.noted \in [Record -> Nat]
  BY TaskHeld DEF AuditMutation, Underway, TaskRecord
<1>2. Current(h) = Head(t.todo) /\ at \in Record /\ rest \in Seq(GoodOp)
  BY <1>1, CurrentIsOp DEF Current
<1>3. /\ StepFor(rest) \in {"commit", "read", "write"}
      /\ StepFor(rest) # "commit" => rest # <<>>
      /\ StepFor(rest) = "write" => Head(rest).kind = "create"
  BY DEF StepFor
<1>4. task' = [task EXCEPT ![h] = u] /\ UNCHANGED committed
  <2>1. u = [t EXCEPT !.step = StepFor(rest), !.todo = Tail(@), !.seen = NoRow,
                      !.raced = FALSE, !.noted[at] = @ + 1]
    BY <1>1 DEF TaskRecord
  <2> QED  BY <2>1 DEF AuditMutation
<1>5. noted \in [Record -> Nat]
  BY <1>1, <1>2
<1>6. noted[at] = t.noted[at] + 1 /\ \A r \in Record \ {at} : noted[r] = t.noted[r]
  BY <1>1, <1>2
<1> HIDE DEF rest, noted
<1>7. u \in TaskRecord
  BY <1>1, <1>2, <1>3, <1>5 DEF TaskRecord, Steps
<1>8. /\ u.step = StepFor(rest) /\ u.todo = rest /\ u.noted = noted
      /\ u.wrote = t.wrote /\ u.filed = t.filed
  BY <1>1 DEF TaskRecord
<1> HIDE DEF u
<1>9. ASSUME NEW r \in Record  PROVE Quiet(u, r) /\ ReadsExist(u, r, record[r])
  BY <1>3, <1>8 DEF Quiet, On, ReadsExist
<1>10. ASSUME NEW r \in Record, r # at  PROVE RecordFits(u, r, record[r], revision[r])
  <2>1. RecordFits(t, r, record[r], revision[r])
    BY TaskHeld
  <2>2. Quiet(t, r)
    BY <1>2, <1>10 DEF Quiet, On
  <2> HIDE DEF t, at
  <2> QED  BY <1>6, <1>8, <1>9, <1>10, <2>1, <2>2, QuietStep
<1>11. RecordFits(u, at, record[at], revision[at])
  <2>1. RecordFits(t, at, record[at], revision[at])
    BY <1>2, TaskHeld
  <2>2. /\ On(t, {"audit"}, at) /\ ~On(t, {"reload", "file"}, at) /\ ~On(t, {"reload"}, at)
        /\ On(t, {"reload", "file", "audit"}, at)
    BY <1>1, <1>2 DEF On
  <2>3. /\ ~On(u, {"audit"}, at) /\ ~On(u, {"reload", "file"}, at) /\ ~On(u, {"reload"}, at)
        /\ ~On(u, {"file"}, at) /\ ~On(u, {"reload", "file", "audit"}, at)
    BY <1>2, <1>9 DEF Quiet, On
  <2>4. ReadsExist(u, at, record[at])
    BY <1>2, <1>9
  <2> HIDE DEF t, at
  <2>5. u.noted[at] = Count(u.filed[at])
    BY <1>6, <1>8, <2>1, <2>2 DEF RecordFits, FollowsOn
  <2>6. FollowsOn(u, at, revision[at])
    BY <1>8, <2>1, <2>3, <2>5 DEF RecordFits, FollowsOn, Newest
  <2>7. FilesWhatItWrote(u, at)
    BY <1>8, <2>1, <2>2, <2>3 DEF RecordFits, FilesWhatItWrote
  <2>8. KeepsDeleted(u, at, record[at]) /\ NewestIsRow(u, at, revision[at])
    BY <1>8, <2>1, <2>2 DEF RecordFits, KeepsDeleted, NewestIsRow, Newest
  <2>9. FiledKeep(u, at, revision[at]) /\ StagedKeeps(u, at, revision[at])
    BY <1>8, <2>1, <2>3 DEF RecordFits, FiledKeep, StagedKeeps, VersionAt
  <2> QED  BY <2>4, <2>6, <2>7, <2>8, <2>9 DEF RecordFits
<1>12. Underway(u) /\ \A r \in Record : u.wrote[r] # NoRow => Wrote(h, r)
  BY <1>3, <1>8 DEF Underway, Wrote
<1> QED
  <2> HIDE DEF at
  <2>1. \A r \in Record : RecordFits(u, r, record[r], revision[r])
    BY <1>10, <1>11
  <2> QED  BY <1>4, <1>7, <2>1, <1>12, OneTaskMoves

-----------------------------------------------------------------------------
(* What a commit leaves of a record: the row the transaction sees and its
   revisions after the committed ones.                                      *)
LEMMA JoinedFits ==
  ASSUME NEW t, NEW r, NEW row, NEW revs \in Revisions, NEW audited \in Nat,
         t.filed[r] \in Revisions, t.step = "commit",
         RecordFits(t, r, row, revs), CommittedFits(row, revs, audited),
         t.wrote[r] # NoRow
  PROVE  /\ CommittedFits(t.wrote[r], Joined(revs, t.filed[r]), audited + t.noted[r])
         /\ Joined(revs, t.filed[r]) \in Revisions
         /\ t.noted[r] \in Nat
<1> DEFINE n == Count(revs)
<1> DEFINE f == t.filed[r]
<1> DEFINE m == Count(f)
<1> DEFINE all == Joined(revs, f)
<1>1. ~On(t, {"reload", "file"}, r) /\ ~On(t, {"audit"}, r)
  BY DEF On
<1>2. m # 0
  BY <1>1 DEF RecordFits, FilesWhatItWrote
<1>3. /\ n \in Nat /\ m \in Nat /\ DOMAIN revs = 1 .. n /\ DOMAIN f = n + 1 .. n + m
      /\ audited = n /\ t.noted[r] = m
  BY <1>1 DEF CommittedFits, RecordFits, FollowsOn, Newest
<1>4. Newest(t, r, revs) = n + m
  BY DEF Newest
<1>5. Shape(f[n + m]) = Shape(t.wrote[r])
  BY <1>1, <1>2, <1>4 DEF RecordFits, NewestIsRow
<1>6. \A k \in DOMAIN f : k > 1 => VersionKept(f[k], VersionAt(t, r, revs, k - 1))
  BY DEF RecordFits, FiledKeep
<1>7. \A k \in 2 .. n : VersionKept(revs[k], revs[k - 1])
  BY DEF CommittedFits
<1>8. f \in Revisions
  OBVIOUS
<1>9. \A k : VersionAt(t, r, revs, k) = IF k \in DOMAIN f THEN f[k] ELSE revs[k]
  BY DEF VersionAt
<1> HIDE DEF n, m, f
<1>10. /\ DOMAIN all = 1 .. n + m
       /\ \A k \in 1 .. n + m : all[k] = VersionAt(t, r, revs, k)
  BY <1>3, <1>9 DEF Joined
<1>11. all \in Revisions
  <2>1. revs \in [DOMAIN revs -> Version] /\ f \in [DOMAIN f -> Version]
    BY <1>8, RevisionsForm
  <2>2. all \in [DOMAIN all -> Version]
    BY <2>1 DEF Joined
  <2> HIDE DEF all
  <2>3. DOMAIN all \in SUBSET Nat
    BY <1>3, <1>10
  <2> QED  BY <2>2, <2>3, RevisionsForm
<1> HIDE DEF all
<1>12. Count(all) = n + m
  <2>1. Cardinality(1 .. n + m) = n + m
    BY <1>3, FS_Interval
  <2> QED  BY <1>10, <2>1 DEF Count
<1>13. Shape(all[n + m]) = Shape(t.wrote[r])
  <2>1. n + m \in DOMAIN f /\ n + m \in 1 .. n + m
    BY <1>2, <1>3
  <2> QED  BY <1>5, <1>9, <1>10, <2>1
<1>14. ASSUME NEW k \in 2 .. n + m  PROVE VersionKept(all[k], all[k - 1])
  <2>1. k \in 1 .. n + m /\ k - 1 \in 1 .. n + m
    BY <1>3
  <2>2. all[k] = VersionAt(t, r, revs, k) /\ all[k - 1] = VersionAt(t, r, revs, k - 1)
    BY <1>10, <2>1
  <2>3. CASE k \in DOMAIN f
    <3>1. k > 1
      BY <1>3
    <3> QED  BY <1>6, <1>9, <2>2, <2>3, <3>1
  <2>4. CASE k \notin DOMAIN f
    <3>1. k \in 2 .. n /\ k - 1 \notin DOMAIN f
      BY <1>3, <2>4
    <3> QED  BY <1>7, <1>9, <2>2, <2>4, <3>1
  <2> QED  BY <2>3, <2>4
<1>15. CommittedFits(t.wrote[r], all, audited + t.noted[r])
  BY <1>2, <1>3, <1>10, <1>12, <1>13, <1>14 DEF CommittedFits
<1> QED  BY <1>3, <1>11, <1>15 DEF all, f

(* A record the transaction has not written it has not touched. *)
LEMMA JoinedNothing ==
  ASSUME NEW t, NEW r, NEW row, NEW revs \in Revisions,
         t.step = "commit", RecordFits(t, r, row, revs), CommittedFits(row, revs, Count(revs)),
         t.wrote[r] = NoRow
  PROVE  Joined(revs, t.filed[r]) = revs /\ t.noted[r] = 0
<1>1. ~On(t, {"audit"}, r)
  BY DEF On
<1>2. Count(t.filed[r]) = 0
  BY DEF RecordFits, FilesWhatItWrote
<1>3. t.noted[r] = 0
  BY <1>1, <1>2 DEF RecordFits, FollowsOn
<1>4. Count(revs) \in Nat /\ DOMAIN t.filed[r] = Count(revs) + 1 .. Count(revs) + 0
  BY <1>2 DEF CommittedFits, RecordFits, FollowsOn, Newest
<1>5. DOMAIN t.filed[r] = {}
  BY <1>4
<1>6. revs = [k \in DOMAIN revs |-> revs[k]]
  BY RevisionsForm
<1> QED  BY <1>3, <1>5, <1>6 DEF Joined

(* Another transaction has nothing of the record that is committed. *)
LEMMA OtherFits ==
  ASSUME NEW t, NEW r, NEW row, NEW revs, NEW row2, NEW revs2,
         RecordFits(t, r, row, revs), t.wrote[r] = NoRow, Count(revs) \in Nat,
         row2 # NoRow, Count(revs2) \in Nat
  PROVE  RecordFits(t, r, row2, revs2)
<1>1. /\ ~On(t, {"reload", "file", "audit"}, r)
      /\ Count(t.filed[r]) = 0
  BY DEF RecordFits, FilesWhatItWrote
<1>2. ~On(t, {"audit"}, r) /\ ~On(t, {"file"}, r) /\ ~On(t, {"reload", "file"}, r)
  BY <1>1 DEF On
<1>3. DOMAIN t.filed[r] = {} /\ t.noted[r] = 0
  <2>1. DOMAIN t.filed[r] = Count(revs) + 1 .. Count(revs) + 0
    BY <1>1 DEF RecordFits, FollowsOn, Newest
  <2>2. DOMAIN t.filed[r] = {}
    BY <2>1
  <2>3. t.noted[r] = Count(t.filed[r])
    BY <1>2 DEF RecordFits, FollowsOn
  <2> QED  BY <1>1, <2>2, <2>3
<1>4. {} = Count(revs2) + 1 .. Count(revs2) + 0
  OBVIOUS
<1>5. FollowsOn(t, r, revs2)
  BY <1>1, <1>2, <1>3, <1>4 DEF FollowsOn, Newest
<1>6. ReadsExist(t, r, row2)
  BY DEF RecordFits, ReadsExist
<1>7. KeepsDeleted(t, r, row2) /\ NewestIsRow(t, r, revs2)
  BY <1>1 DEF KeepsDeleted, NewestIsRow
<1>8. FiledKeep(t, r, revs2) /\ StagedKeeps(t, r, revs2)
  BY <1>2, <1>3 DEF FiledKeep, StagedKeeps
<1> QED  BY <1>5, <1>6, <1>7, <1>8 DEF RecordFits

LEMMA CommitStep ==
  ASSUME DInv, NEW h \in Handler, task[h] # Idle, Commit(h)
  PROVE  DInv'
<1> DEFINE t == task[h]
<1>1. /\ t \in TaskRecord /\ t.step = "commit"
      /\ t.filed \in [Record -> Revisions] /\ t.wrote \in [Record -> Row \cup {NoRow}]
  BY TaskHeld DEF Commit, TaskRecord
<1>2. \A r \in Record :
        /\ record'[r] = IF t.wrote[r] # NoRow THEN t.wrote[r] ELSE record[r]
        /\ revision'[r] = Joined(revision[r], t.filed[r])
        /\ audit'[r] = audit[r] + t.noted[r]
  BY DEF Commit, Sees, Wrote
<1>3. /\ record' = [r \in Record |-> record'[r]]
      /\ revision' = [r \in Record |-> revision'[r]]
      /\ audit' = [r \in Record |-> audit'[r]]
  BY DEF Commit
<1>4. \A g \in Handler : task'[g] = IF g = h THEN Idle ELSE task[g]
  BY DEF Commit, DInv, TypeInv
<1>5. ASSUME NEW r \in Record
      PROVE  /\ record'[r] \in Row \cup {NoRow} /\ revision'[r] \in Revisions
             /\ audit'[r] \in Nat
             /\ CommittedFits(record'[r], revision'[r], audit'[r])
             /\ t.wrote[r] = NoRow => record'[r] = record[r] /\ revision'[r] = revision[r]
  <2>1. /\ RecordFits(t, r, record[r], revision[r])
        /\ CommittedFits(record[r], revision[r], audit[r])
        /\ record[r] \in Row \cup {NoRow} /\ revision[r] \in Revisions /\ audit[r] \in Nat
        /\ t.filed[r] \in Revisions /\ t.wrote[r] \in Row \cup {NoRow}
    BY <1>1, TaskHeld DEF DInv, TypeInv
  <2>2. audit[r] = Count(revision[r])
    BY <2>1 DEF CommittedFits
  <2>3. t.step = "commit"
    BY <1>1
  <2>4. /\ record'[r] = IF t.wrote[r] # NoRow THEN t.wrote[r] ELSE record[r]
        /\ revision'[r] = Joined(revision[r], t.filed[r])
        /\ audit'[r] = audit[r] + t.noted[r]
    BY <1>2
  <2> HIDE DEF t
  <2>5. CASE t.wrote[r] # NoRow
    <3>1. /\ CommittedFits(t.wrote[r], Joined(revision[r], t.filed[r]), audit[r] + t.noted[r])
          /\ Joined(revision[r], t.filed[r]) \in Revisions
          /\ t.noted[r] \in Nat
      BY <2>1, <2>3, <2>5, JoinedFits
    <3>2. audit[r] + t.noted[r] \in Nat
      BY <2>1, <3>1
    <3> QED  BY <2>1, <2>4, <2>5, <3>1, <3>2
  <2>6. CASE t.wrote[r] = NoRow
    <3>1. Joined(revision[r], t.filed[r]) = revision[r] /\ t.noted[r] = 0
      BY <2>1, <2>2, <2>3, <2>6, JoinedNothing
    <3>2. audit'[r] = audit[r]
      BY <2>1, <2>4, <3>1
    <3> QED  BY <2>1, <2>4, <2>6, <3>1, <3>2
  <2> QED  BY <2>5, <2>6
<1>6. TypeInv'
  <2>1. task' \in [Handler -> TaskRecord \cup {Idle}]
    BY DEF Commit, DInv, TypeInv
  <2>2. /\ record' \in [Record -> Row \cup {NoRow}]
        /\ revision' \in [Record -> Revisions]
        /\ audit' \in [Record -> Nat]
    BY <1>3, <1>5
  <2> QED
    BY <2>1, <2>2
    DEF TypeInv, TaskRecord, Revisions, Row, NoRow, Idle, GoodOp, ValidOp, Op, Version, Steps,
        RecordStatus, Kind, Keep
<1>7. ASSUME NEW g \in Handler, task'[g] # Idle
      PROVE  /\ Underway(task[g])
             /\ task'[g] = task[g]
             /\ \A r \in Record : RecordFits(task[g], r, record'[r], revision'[r])
  <2>1. g # h /\ task'[g] = task[g] /\ task[g] # Idle
    BY <1>4, <1>7
  <2>2. Underway(task[g]) /\ \A r \in Record : RecordFits(task[g], r, record[r], revision[r])
    BY <2>1, TaskHeld
  <2>3. ASSUME NEW r \in Record  PROVE RecordFits(task[g], r, record'[r], revision'[r])
    <3>1. CASE t.wrote[r] = NoRow
      BY <1>5, <2>2, <3>1
    <3>2. CASE t.wrote[r] # NoRow
      <4>1. task[g].wrote[r] = NoRow
        BY <1>1, <2>1, <3>2, RowsArePresent DEF DInv, WritersExclude, Wrote
      <4>2. record'[r] # NoRow
        BY <1>2, <3>2
      <4>3. Count(revision[r]) \in Nat /\ Count(revision'[r]) \in Nat
        BY <1>5 DEF DInv, CommittedFits
      <4>4. RecordFits(task[g], r, record[r], revision[r])
        BY <2>2
      <4> QED  BY <4>1, <4>2, <4>3, <4>4, OtherFits
    <3> QED  BY <3>1, <3>2
  <2> QED  BY <2>1, <2>2, <2>3
<1>8. WritersExclude'
  BY <1>4 DEF DInv, WritersExclude, Wrote, Idle, NoRow
<1>9. \A r \in Record : CommittedFits(record'[r], revision'[r], audit'[r])
  BY <1>5
<1>10. \A g \in Handler : task'[g] # Idle =>
         Underway(task'[g]) /\ \A r \in Record : RecordFits(task'[g], r, record'[r], revision'[r])
  BY <1>7
<1> QED
  BY <1>6, <1>8, <1>9, <1>10
  DEF DInv, CommittedFits, Underway, RecordFits, FollowsOn, FilesWhatItWrote, ReadsExist,
      KeepsDeleted, NewestIsRow, FiledKeep, StagedKeeps, Idle, Count, On, Newest, VersionAt,
      VersionKept, KeepsColumns, Shape, NoRow, Keep

-----------------------------------------------------------------------------
(* The invariant.                                                          *)

LEMMA InitFits == Init => DInv
<1> SUFFICES ASSUME Init  PROVE DInv
  OBVIOUS
<1>1. TypeInv
  BY NoRevisionIsRevisions DEF Init, TypeInv
<1>2. \A r \in Record : CommittedFits(record[r], revision[r], audit[r])
  <2>1. DOMAIN NoRevision = {} /\ Count(NoRevision) = 0
    BY NoRevisionIsRevisions DEF NoRevision
  <2> QED  BY <2>1 DEF Init, CommittedFits
<1>3. WritersExclude
  BY DEF Init, WritersExclude, Wrote
<1> QED  BY <1>1, <1>2, <1>3 DEF DInv, Init

(* A handler that runs a statement has a call. *)
LEMMA StatementsAreOfCalls ==
  ASSUME NEW h \in Handler, Statement(h) \/ WriteRecord(h)
  PROVE  task[h] # Idle
<1>1. Idle.step \notin Steps
  BY DEF Idle, Steps
<1>2. task[h].step \in Steps
  BY DEF Statement, ReadRecord, RecordNotFound, ReloadRecord, ReloadMissing, FileRevision,
         AuditMutation, Commit, WriteRecord, CreateRecord, CreateConflict, UpdateRecord,
         ChangeStatus, Writes, Steps
<1> QED  BY <1>1, <1>2

LEMMA NextFits ==
  ASSUME DInv, [Next]_vars
  PROVE  DInv'
<1>1. CASE UNCHANGED vars
  <2>1. TypeInv'
    BY <1>1 DEF DInv, TypeInv, vars
  <2>2. WritersExclude'
    BY <1>1 DEF DInv, WritersExclude, Wrote, vars, Idle, NoRow
  <2>3. \A r \in Record : CommittedFits(record'[r], revision'[r], audit'[r])
    BY <1>1 DEF DInv, vars
  <2>4. \A g \in Handler : task'[g] # Idle =>
          Underway(task'[g]) /\ \A r \in Record : RecordFits(task'[g], r, record'[r], revision'[r])
    BY <1>1 DEF DInv, vars
  <2> QED
    BY <2>1, <2>2, <2>3, <2>4
    DEF DInv, CommittedFits, Underway, RecordFits, FollowsOn, FilesWhatItWrote, ReadsExist,
        KeepsDeleted, NewestIsRow, FiledKeep, StagedKeeps, Idle, Count, On, Newest, VersionAt,
        VersionKept, KeepsColumns, Shape, NoRow, Keep
<1>2. ASSUME NEW h \in Handler,
             \/ \E call \in Call : Admit(h, call)
             \/ Statement(h) \/ WriteRecord(h) \/ Abandon(h) \/ DeadlockVictim(h)
      PROVE  DInv'
  <2>1. CASE \E call \in Call : Admit(h, call)
    BY <2>1, AdmitStep
  <2>2. CASE task[h] # Idle /\ (Statement(h) \/ WriteRecord(h))
    <3>1. CASE ReadRecord(h)
      BY <2>2, <3>1, ReadStep
    <3>2. CASE RecordNotFound(h) \/ ReloadMissing(h)
      BY <3>2, GivesUp DEF RecordNotFound, ReloadMissing
    <3>3. CASE ReloadRecord(h)
      BY <2>2, <3>3, ReloadStep
    <3>4. CASE FileRevision(h)
      BY <2>2, <3>4, FileStep
    <3>5. CASE AuditMutation(h)
      BY <2>2, <3>5, AuditStep
    <3>6. CASE Commit(h)
      BY <2>2, <3>6, CommitStep
    <3>7. CASE WriteRecord(h)
      BY <2>2, <3>7, WriteStep
    <3> QED  BY <2>2, <3>1, <3>2, <3>3, <3>4, <3>5, <3>6, <3>7 DEF Statement
  <2>3. CASE Abandon(h) \/ DeadlockVictim(h)
    BY <2>3, GivesUp DEF Abandon, DeadlockVictim
  <2> QED  BY <1>2, <2>1, <2>2, <2>3, StatementsAreOfCalls
<1> QED  BY <1>1, <1>2 DEF Next

(* What every transaction has written continues what is committed. *)
THEOREM DataInvariantHolds == Spec => []DInv
<1>1. DInv /\ [Next]_vars => DInv'
  BY NextFits
<1> QED  BY InitFits, <1>1, PTL DEF Spec

(* Every variable has its type: no placeholder reaches a row or a revision. *)
THEOREM AppDataTypeCorrect == Spec => []TypeOK
<1>1. DInv => TypeOK
  <2> SUFFICES ASSUME DInv  PROVE TypeOK
    OBVIOUS
  <2>1. \A f \in Revisions : IsRevisions(f)
    BY RevisionsForm DEF IsRevisions
  <2>2. ASSUME NEW t \in TaskRecord  PROVE TaskOK(t)
    <3>1. t.todo \in Seq(Op)
      BY GoodSequences DEF TaskRecord
    <3>2. DOMAIN t.filed = Record /\ \A r \in Record : IsRevisions(t.filed[r])
      BY <2>1 DEF TaskRecord
    <3> QED  BY <3>1, <3>2 DEF TaskRecord, TaskOK
  <2> QED  BY <2>1, <2>2 DEF DInv, TypeInv, TypeOK
<1> QED  BY DataInvariantHolds, <1>1, PTL

(* Revisions are numbered 1, 2, ... without a gap, whatever races or fails. *)
THEOREM RevisionsAreConsecutive == Spec => []RevisionsConsecutive
<1>1. DInv => RevisionsConsecutive
  <2> SUFFICES ASSUME DInv, NEW r \in Record
               PROVE  /\ DOMAIN revision[r] = 1 .. Cardinality(DOMAIN revision[r])
                      /\ record[r] = NoRow <=> revision[r] = NoRevision
    BY DEF RevisionsConsecutive
  <2>1. CommittedFits(record[r], revision[r], audit[r]) /\ revision[r] \in Revisions
    BY DEF DInv, TypeInv
  <2>2. DOMAIN revision[r] = 1 .. Count(revision[r])
    BY <2>1 DEF CommittedFits
  <2>3. Count(revision[r]) = 0 <=> revision[r] = NoRevision
    <3>1. ASSUME Count(revision[r]) = 0  PROVE revision[r] = NoRevision
      <4>1. DOMAIN revision[r] = {}
        BY <2>2, <3>1
      <4>2. revision[r] = [k \in DOMAIN revision[r] |-> revision[r][k]]
        BY <2>1, RevisionsForm
      <4> QED  BY <4>1, <4>2 DEF NoRevision
    <3> QED  BY <3>1, NoRevisionIsRevisions
  <2> QED  BY <2>1, <2>2, <2>3 DEF CommittedFits, Count
<1> QED  BY DataInvariantHolds, <1>1, PTL

(* A call's audit rows commit with its revisions or not at all. *)
THEOREM RevisionsAreAudited == Spec => []EveryRevisionIsAudited
<1>1. DInv => EveryRevisionIsAudited
  BY DEF DInv, CommittedFits, EveryRevisionIsAudited, Count
<1> QED  BY DataInvariantHolds, <1>1, PTL

(* A PATCH that was not overtaken changes nothing it does not carry. *)
THEOREM PatchKeepsTheRest == Spec => []KeepsWhatWasNotAsked
<1>1. DInv => KeepsWhatWasNotAsked
  <2> SUFFICES ASSUME DInv, NEW r \in Record, NEW n \in DOMAIN revision[r],
                      n > 1, revision[r][n].op.kind = "update", ~revision[r][n].raced
               PROVE  KeepsColumns(revision[r][n].op, revision[r][n], revision[r][n - 1])
    BY DEF KeepsWhatWasNotAsked, KeepsColumns
  <2>1. CommittedFits(record[r], revision[r], audit[r])
    BY DEF DInv
  <2>2. n \in 2 .. Count(revision[r])
    BY <2>1 DEF CommittedFits
  <2> QED  BY <2>1, <2>2 DEF CommittedFits, VersionKept
<1> QED  BY DataInvariantHolds, <1>1, PTL

(* A deleted record is deleted for good, with the data it had. *)
THEOREM DeletedIsFinal == Spec => DeletedStaysDeleted
<1> DEFINE Stays == \A r \in Record : record[r] # NoRow /\ record[r].deleted =>
                     record'[r].deleted /\ record'[r].data = record[r].data
<1>1. ASSUME DInv, [Next]_vars  PROVE Stays
  <2> SUFFICES ASSUME NEW r \in Record, record[r] # NoRow, record[r].deleted
               PROVE  record'[r].deleted /\ record'[r].data = record[r].data
    OBVIOUS
  <2>1. CASE UNCHANGED record
    BY <1>1, <2>1
  <2>2. ASSUME NEW h \in Handler, Commit(h)
        PROVE  record'[r].deleted /\ record'[r].data = record[r].data
    <3>1. record'[r] = Sees(h, r) /\ task[h].step = "commit" /\ task[h] # Idle
      BY <2>2 DEF Commit, Idle
    <3>2. RecordFits(task[h], r, record[r], revision[r])
      BY <1>1, <3>1, TaskHeld
    <3>3. task[h].wrote[r] # NoRow =>
            task[h].wrote[r].deleted /\ task[h].wrote[r].data = record[r].data
      BY <1>1, <3>1, <3>2 DEF RecordFits, KeepsDeleted, On
    <3> QED  BY <1>1, <3>1, <3>3 DEF Sees, Wrote
  <2>3. UNCHANGED record \/ \E h \in Handler : Commit(h)
    BY <1>1
    DEF vars, committed, Next, Statement, WriteRecord, Admit, ReadRecord, RecordNotFound,
        ReloadRecord, ReloadMissing, FileRevision, AuditMutation, Abandon, DeadlockVictim,
        CreateRecord, CreateConflict, UpdateRecord, ChangeStatus, GiveUp, Stage
  <2> QED  BY <2>1, <2>2, <2>3
<1> HIDE DEF Stays
<1>2. DInv /\ [Next]_vars => [Stays]_vars
  BY <1>1
<1> QED  BY DataInvariantHolds, <1>2, PTL DEF Spec, DeletedStaysDeleted, Stays
-----------------------------------------------------------------------------
(* Where a call stands.  It survives the commits of others because a record  *)
(* of which a transaction has filed anything is not theirs to change.        *)

(* How many of the first n operations of a call are on record r. *)
Asked(call, n, r) == Contract!Asked(call, n, r)

(* Transaction t has filed the revisions of the first n operations of call, all
   of them but perhaps the last have their audit rows, and the rest are to do. *)
Stands(t, call, n) ==
  LET done == IF t.step = "audit" THEN n - 1 ELSE n IN
  /\ n \in Nat /\ done \in Nat
  /\ Len(t.todo) = Len(call) - done
  /\ \A i \in 1 .. Len(t.todo) : t.todo[i] = call[done + i]

(* Each of those operations made the revision after those before it. *)
HasFiled(t, r, revs, call, n) ==
  /\ Count(t.filed[r]) = Asked(call, n, r)
  /\ \A k \in 1 .. n : call[k].record = r =>
       /\ Count(revs) + Asked(call, k, r) \in DOMAIN t.filed[r]
       /\ t.filed[r][Count(revs) + Asked(call, k, r)].op = call[k]

Serves(t, revisions, call, n) ==
  Stands(t, call, n) /\ \A r \in Record : HasFiled(t, r, revisions[r], call, n)

(* A record's first revision, and no other, is its creation. *)
CreatedOnce(revs) == \A k \in DOMAIN revs : revs[k].op.kind = "create" <=> k = 1

Creates(t, r, revs) ==
  /\ CreatedOnce(t.filed[r])
  /\ On(t, {"reload", "file"}, r) => (Head(t.todo).kind = "create" <=> Newest(t, r, revs) = 0)

TaskTraced(t, revisions) ==
  /\ t.step = "commit" => t.todo = <<>>
  /\ \E call \in Call : \E n \in Nat : Serves(t, revisions, call, n)
  /\ \A r \in Record : Creates(t, r, revisions[r])

Traced ==
  /\ \A r \in Record : CreatedOnce(revision[r])
  /\ \A h \in Handler : task[h] # Idle => TaskTraced(task[h], revision)

LEMMA AskedCounts ==
  ASSUME NEW call, NEW n \in Nat, NEW r
  PROVE  /\ Asked(call, 0, r) = 0
         /\ Asked(call, n, r) \in Nat
         /\ call[n + 1].record = r => Asked(call, n + 1, r) = Asked(call, n, r) + 1
         /\ call[n + 1].record # r => Asked(call, n + 1, r) = Asked(call, n, r)
<1> DEFINE A(m) == {k \in 1 .. m : call[k].record = r}
<1>1. \A m : Asked(call, m, r) = Cardinality(A(m))
  <2>1. \A S : Contract!Cardinality(S) = Cardinality(S)
    BY Zenon DEF Contract!Cardinality, Cardinality
  <2> QED  BY <2>1 DEF Asked, Contract!Asked
<1>2. A(0) = {}
  OBVIOUS
<1>3. IsFiniteSet(1 .. n) /\ A(n) \subseteq 1 .. n
  BY FS_Interval
<1>4. IsFiniteSet(A(n)) /\ Cardinality(A(n)) \in Nat
  BY <1>3, FS_Subset, FS_CardinalityType
<1>5. 1 .. n + 1 = (1 .. n) \cup {n + 1} /\ n + 1 \notin 1 .. n
  OBVIOUS
<1>6. ASSUME call[n + 1].record = r  PROVE A(n + 1) = A(n) \cup {n + 1} /\ n + 1 \notin A(n)
  BY <1>5, <1>6
<1>7. ASSUME call[n + 1].record # r  PROVE A(n + 1) = A(n)
  BY <1>5, <1>7
<1> HIDE DEF A
<1>8. call[n + 1].record = r => Cardinality(A(n + 1)) = Cardinality(A(n)) + 1
  BY <1>4, <1>6, FS_AddElement
<1> QED  BY <1>1, <1>2, <1>4, <1>7, <1>8, FS_EmptySet

(* The place of a sequence's head and of the elements of its tail. *)
LEMMA TodoIsIndexed ==
  ASSUME NEW t \in TaskRecord, t.todo # <<>>
  PROVE  /\ Len(t.todo) \in Nat /\ Len(t.todo) > 0
         /\ Head(t.todo) = t.todo[1]
         /\ Len(Tail(t.todo)) = Len(t.todo) - 1
         /\ \A i \in 1 .. Len(t.todo) - 1 : Tail(t.todo)[i] = t.todo[i + 1]
<1>1. t.todo \in Seq(GoodOp)
  BY DEF TaskRecord
<1>2. t.todo \in [1 .. Len(t.todo) -> GoodOp] /\ Len(t.todo) \in Nat
  BY <1>1, LenProperties
<1>3. Len(t.todo) # 0
  BY <1>1, EmptySeq
<1>4. /\ Head(t.todo) = t.todo[1]
      /\ Tail(t.todo) \in Seq(GoodOp)
      /\ Len(Tail(t.todo)) = Len(t.todo) - 1
      /\ \A i \in 1 .. Len(Tail(t.todo)) : Tail(t.todo)[i] = t.todo[i + 1]
  BY <1>1, HeadTailProperties
<1> QED  BY <1>2, <1>3, <1>4

-----------------------------------------------------------------------------
(* A transaction moves: it still serves its call, and the others theirs.   *)

LEMMA OneTaskTraced ==
  ASSUME DInv, Traced, NEW h \in Handler, NEW t,
         task' = [task EXCEPT ![h] = t], UNCHANGED committed,
         t # Idle => TaskTraced(t, revision)
  PROVE  Traced'
<1>1. revision' = revision
  BY DEF committed
<1>2. \A g \in Handler : task'[g] = IF g = h THEN t ELSE task[g]
  BY DEF DInv, TypeInv
<1>3. \A g \in Handler : task'[g] # Idle => TaskTraced(task'[g], revision)
  BY <1>2 DEF Traced
<1>4. \A g \in Handler : task'[g] # Idle => TaskTraced(task'[g], revision')
  BY <1>1, <1>3
<1>5. \A r \in Record : CreatedOnce(revision'[r])
  BY <1>1 DEF Traced
<1> QED
  BY <1>4, <1>5
  DEF Traced, TaskTraced, CreatedOnce, Creates, Serves, Stands, HasFiled, Count, On, Newest,
      Idle, Asked

LEMMA GivesUpTraced ==
  ASSUME DInv, Traced, NEW h \in Handler, GiveUp(h)
  PROVE  Traced'
BY OneTaskTraced DEF GiveUp

(* A step that files nothing and goes on with the same operation. *)
LEMMA SameOperation ==
  ASSUME DInv, Traced, NEW h \in Handler, task[h] # Idle, NEW u,
         task' = [task EXCEPT ![h] = u], UNCHANGED committed,
         task[h].step \notin {"audit", "commit"}, u.step \notin {"audit", "commit"},
         u.todo = task[h].todo, u.filed = task[h].filed,
         \A r \in Record : Creates(u, r, revision[r])
  PROVE  Traced'
<1> DEFINE t == task[h]
<1>1. TaskTraced(t, revision)
  BY DEF Traced
<1>2. PICK call \in Call, n \in Nat : Serves(t, revision, call, n)
  BY <1>1 DEF TaskTraced
<1>3. Stands(u, call, n) /\ \A r \in Record : HasFiled(u, r, revision[r], call, n)
  BY <1>2 DEF Serves, Stands, HasFiled
<1>4. TaskTraced(u, revision)
  BY <1>3 DEF TaskTraced, Serves
<1> QED  BY <1>4, OneTaskTraced

LEMMA AdmitTraced ==
  ASSUME DInv, Traced, NEW h \in Handler, NEW call \in Call, Admit(h, call)
  PROVE  Traced'
<1> DEFINE t == [step |-> StepFor(call), todo |-> call, seen |-> NoRow, raced |-> FALSE,
                 number |-> 0, wrote |-> [r \in Record |-> NoRow],
                 filed |-> [r \in Record |-> NoRevision], noted |-> [r \in Record |-> 0]]
<1>1. call \in Seq(Op) /\ call # <<>>
  BY CallAssumption DEF CallAssumption
<1>2. Len(call) \in Nat
  BY <1>1, LenProperties
<1>3. StepFor(call) \in {"read", "write"}
  BY <1>1 DEF StepFor
<1>4. task' = [task EXCEPT ![h] = t] /\ UNCHANGED committed
  BY DEF Admit
<1>5. /\ t.step \in {"read", "write"} /\ t.todo = call
      /\ \A r \in Record : t.filed[r] = NoRevision
  BY <1>3
<1> HIDE DEF t
<1>6. Stands(t, call, 0)
  BY <1>2, <1>5 DEF Stands
<1>7. ASSUME NEW r \in Record
      PROVE  HasFiled(t, r, revision[r], call, 0) /\ Creates(t, r, revision[r])
  <2>1. DOMAIN NoRevision = {} /\ Count(NoRevision) = 0
    BY NoRevisionIsRevisions DEF NoRevision
  <2>2. Asked(call, 0, r) = 0
    BY AskedCounts
  <2> QED  BY <1>5, <2>1, <2>2 DEF HasFiled, Creates, CreatedOnce, On
<1>8. TaskTraced(t, revision)
  BY <1>5, <1>6, <1>7 DEF TaskTraced, Serves
<1> QED  BY <1>4, <1>8, OneTaskTraced

LEMMA ReadTraced ==
  ASSUME DInv, Traced, NEW h \in Handler, task[h] # Idle, ReadRecord(h)
  PROVE  Traced'
<1> DEFINE t == task[h]
<1> DEFINE u == [t EXCEPT !.step = "write", !.seen = Sees(h, Current(h).record)]
<1>1. t \in TaskRecord /\ t.step = "read"
  BY TaskHeld DEF ReadRecord
<1>2. u.step = "write" /\ u.todo = t.todo /\ u.filed = t.filed
  BY <1>1 DEF TaskRecord
<1>3. task' = [task EXCEPT ![h] = u] /\ UNCHANGED committed
  BY DEF ReadRecord
<1> HIDE DEF u
<1>4. \A r \in Record : Creates(u, r, revision[r])
  BY <1>2 DEF Traced, TaskTraced, Creates, On
<1> QED  BY <1>1, <1>2, <1>3, <1>4, SameOperation

(* A creation is the first thing written of a record, and nothing else is. *)
LEMMA StageTraced ==
  ASSUME DInv, Traced, NEW h \in Handler, task[h] # Idle, task[h].step = "write",
         NEW row, NEW raced, Stage(h, row, raced),
         Current(h).kind = "create" <=> Sees(h, Current(h).record) = NoRow
  PROVE  Traced'
<1> DEFINE t == task[h]
<1> DEFINE at == Current(h).record
<1> DEFINE u == [t EXCEPT !.step = "reload", !.raced = raced, !.wrote[at] = row]
<1>1. t \in TaskRecord /\ t.todo # <<>>
  BY TaskHeld DEF Underway
<1>2. Current(h) = Head(t.todo) /\ at \in Record
  BY <1>1, CurrentIsOp DEF Current
<1>3. u.step = "reload" /\ u.todo = t.todo /\ u.filed = t.filed
  BY <1>1 DEF TaskRecord
<1>4. task' = [task EXCEPT ![h] = u] /\ UNCHANGED committed
  BY DEF Stage
<1> HIDE DEF u
<1>5. Sees(h, at) = NoRow <=> record[at] = NoRow /\ t.wrote[at] = NoRow
  BY DEF Sees, Wrote
<1>6. /\ RecordFits(t, at, record[at], revision[at])
      /\ CommittedFits(record[at], revision[at], audit[at])
  BY <1>2, TaskHeld
<1>7. t.wrote[at] = NoRow <=> Count(t.filed[at]) = 0
  <2>1. ~On(t, {"reload", "file"}, at)
    BY DEF On
  <2> QED  BY <1>6, <2>1 DEF RecordFits, FilesWhatItWrote
<1>8. record[at] = NoRow <=> Count(revision[at]) = 0
  BY <1>6 DEF CommittedFits
<1>9. Count(revision[at]) \in Nat /\ Count(t.filed[at]) \in Nat
  BY <1>6 DEF RecordFits, FollowsOn, CommittedFits
<1>10. Head(u.todo).kind = "create" <=> Newest(u, at, revision[at]) = 0
  BY <1>2, <1>3, <1>5, <1>7, <1>8, <1>9 DEF Newest
<1>11. ASSUME NEW r \in Record  PROVE Creates(u, r, revision[r])
  <2>1. CreatedOnce(t.filed[r])
    BY DEF Traced, TaskTraced, Creates
  <2>2. On(u, {"reload", "file"}, r) => r = at
    BY <1>2, <1>3 DEF On
  <2> QED  BY <1>3, <1>10, <2>1, <2>2 DEF Creates
<1> QED  BY <1>3, <1>4, <1>11, SameOperation

LEMMA WriteTraced ==
  ASSUME DInv, Traced, NEW h \in Handler, task[h] # Idle, WriteRecord(h)
  PROVE  Traced'
<1> DEFINE t == task[h]
<1> DEFINE at == Current(h).record
<1>1. t.step = "write" /\ t \in TaskRecord /\ t.todo # <<>>
  BY TaskHeld
  DEF WriteRecord, CreateRecord, CreateConflict, UpdateRecord, ChangeStatus, Writes, Underway
<1>2. Current(h) = Head(t.todo) /\ at \in Record
  BY <1>1, CurrentIsOp DEF Current
<1>3. RecordFits(t, at, record[at], revision[at])
  BY <1>2, TaskHeld
<1>4. Current(h).kind # "create" => Sees(h, at) # NoRow
  BY <1>1, <1>2, <1>3 DEF RecordFits, ReadsExist, On, Sees, Wrote
<1>5. CASE CreateRecord(h)
  BY <1>1, <1>5, StageTraced DEF CreateRecord, Writes
<1>6. CASE UpdateRecord(h)
  BY <1>1, <1>4, <1>6, StageTraced DEF UpdateRecord, Writes
<1>7. CASE ChangeStatus(h)
  BY <1>1, <1>4, <1>7, StageTraced DEF ChangeStatus, Writes
<1>8. CASE CreateConflict(h)
  BY <1>8, GivesUpTraced DEF CreateConflict
<1> QED  BY <1>5, <1>6, <1>7, <1>8 DEF WriteRecord

LEMMA ReloadTraced ==
  ASSUME DInv, Traced, NEW h \in Handler, task[h] # Idle, ReloadRecord(h)
  PROVE  Traced'
<1> DEFINE t == task[h]
<1> DEFINE u == [t EXCEPT !.step = "file", !.number = NumberFor(h, Current(h).record)]
<1>1. t \in TaskRecord /\ t.step = "reload"
  BY TaskHeld DEF ReloadRecord
<1>2. u.step = "file" /\ u.todo = t.todo /\ u.filed = t.filed
  BY <1>1 DEF TaskRecord
<1>3. task' = [task EXCEPT ![h] = u] /\ UNCHANGED committed
  BY DEF ReloadRecord
<1> HIDE DEF u
<1>4. \A r \in Record : Creates(u, r, revision[r])
  BY <1>1, <1>2 DEF Traced, TaskTraced, Creates, On, Newest
<1> QED  BY <1>1, <1>2, <1>3, <1>4, SameOperation

(* The operation's revision comes after those of the operations before it. *)
LEMMA FileTraced ==
  ASSUME DInv, Traced, NEW h \in Handler, task[h] # Idle, FileRevision(h)
  PROVE  Traced'
<1> DEFINE t == task[h]
<1> DEFINE at == Current(h).record
<1> DEFINE revs == revision[at]
<1> DEFINE v == Filed(h, t.wrote[at])
<1> DEFINE f == With(t.filed[at], t.number, v)
<1> DEFINE u == [t EXCEPT !.step = "audit", !.filed[at] = f]
<1>1. t \in TaskRecord /\ t.step = "file" /\ t.todo # <<>> /\ t.filed \in [Record -> Revisions]
  BY TaskHeld DEF FileRevision, Underway, TaskRecord
<1>2. Current(h) = Head(t.todo) /\ at \in Record
  BY <1>1, CurrentIsOp DEF Current
<1>3. RecordFits(t, at, record[at], revs) /\ CommittedFits(record[at], revs, audit[at])
  BY <1>2, TaskHeld
<1>4. On(t, {"file"}, at) /\ On(t, {"reload", "file"}, at)
  BY <1>1, <1>2 DEF On
<1>5. /\ Count(revs) \in Nat /\ Count(t.filed[at]) \in Nat
      /\ DOMAIN t.filed[at] = Count(revs) + 1 .. Count(revs) + Count(t.filed[at])
      /\ t.number = Count(revs) + Count(t.filed[at]) + 1
  BY <1>3, <1>4 DEF RecordFits, FollowsOn, CommittedFits, Newest
<1>6. v.op = Head(t.todo)
  BY <1>2 DEF Filed
<1>7. task' = [task EXCEPT ![h] = u] /\ UNCHANGED committed
  BY DEF FileRevision
<1> HIDE DEF v
<1>8. /\ DOMAIN f = Count(revs) + 1 .. Count(revs) + (Count(t.filed[at]) + 1)
      /\ f[t.number] = v
      /\ \A k \in DOMAIN t.filed[at] : k \in DOMAIN f /\ f[k] = t.filed[at][k]
      /\ \A k \in DOMAIN f : k # t.number => k \in DOMAIN t.filed[at]
  <2> DEFINE n == Count(revs)
  <2> DEFINE m == Count(t.filed[at])
  <2>1. DOMAIN f = DOMAIN t.filed[at] \cup {t.number}
    BY DEF With
  <2>2. n \in Nat /\ m \in Nat /\ DOMAIN t.filed[at] = n + 1 .. n + m /\ t.number = n + m + 1
    BY <1>5
  <2>3. \A k \in DOMAIN f : f[k] = IF k = t.number THEN v ELSE t.filed[at][k]
    BY DEF With
  <2> HIDE DEF f, n, m
  <2>4. DOMAIN f = n + 1 .. n + (m + 1)
    BY <2>1, <2>2
  <2>5. \A k \in DOMAIN t.filed[at] : k \in DOMAIN f /\ k # t.number
    <3> HIDE DEF t, at
    <3> QED  BY <2>1, <2>2
  <2>6. t.number \in DOMAIN f /\ \A k \in DOMAIN f : k # t.number => k \in DOMAIN t.filed[at]
    BY <2>1
  <2> QED  BY <2>3, <2>4, <2>5, <2>6 DEF n, m
<1> HIDE DEF f
<1>9. Count(f) = Count(t.filed[at]) + 1
  BY <1>5, <1>8, IntervalCount
<1>10. /\ u.step = "audit" /\ u.todo = t.todo
       /\ u.filed[at] = f /\ \A r \in Record \ {at} : u.filed[r] = t.filed[r]
  BY <1>1, <1>2 DEF TaskRecord
<1> HIDE DEF u
<1>11. TaskTraced(t, revision)
  BY DEF Traced
<1>12. PICK call \in Call, n \in Nat : Serves(t, revision, call, n)
  BY <1>11 DEF TaskTraced
<1>13. /\ Len(t.todo) = Len(call) - n /\ Len(t.todo) \in Nat /\ Len(t.todo) > 0
       /\ \A i \in 1 .. Len(t.todo) : t.todo[i] = call[n + i]
       /\ Head(t.todo) = call[n + 1]
  <2>1. /\ Len(t.todo) = Len(call) - n
        /\ \A i \in 1 .. Len(t.todo) : t.todo[i] = call[n + i]
    BY <1>1, <1>12 DEF Serves, Stands
  <2> QED  BY <1>1, <2>1, TodoIsIndexed
<1>14. Stands(u, call, n + 1)
  <2>1. n + 1 \in Nat /\ (n + 1) - 1 = n
    OBVIOUS
  <2> QED  BY <1>10, <1>12, <1>13, <2>1 DEF Stands
<1>15. \A r \in Record : HasFiled(t, r, revision[r], call, n)
  BY <1>12 DEF Serves
<1>16. ASSUME NEW r \in Record, r # at  PROVE HasFiled(u, r, revision[r], call, n + 1)
  <2>1. call[n + 1].record # r
    BY <1>2, <1>13, <1>16
  <2>2. Asked(call, n + 1, r) = Asked(call, n, r)
    BY <2>1, AskedCounts
  <2>3. \A k \in 1 .. n + 1 : k \in 1 .. n \/ k = n + 1
    OBVIOUS
  <2>4. u.filed[r] = t.filed[r]
    BY <1>10, <1>16
  <2> QED  BY <1>15, <2>1, <2>2, <2>3, <2>4 DEF HasFiled
<1>17. HasFiled(u, at, revs, call, n + 1)
  <2>1. Asked(call, n + 1, at) = Asked(call, n, at) + 1 /\ Asked(call, n, at) \in Nat
    <3>1. call[n + 1].record = at
      BY <1>2, <1>13
    <3> HIDE DEF at
    <3> QED  BY <3>1, AskedCounts
  <2>2. HasFiled(t, at, revs, call, n)
    BY <1>2, <1>15
  <2>3. t.number = Count(revs) + Asked(call, n + 1, at)
    BY <1>5, <2>1, <2>2 DEF HasFiled
  <2>4. t.number \in DOMAIN f
    BY <1>5, <1>8
  <2>5. ASSUME NEW k \in 1 .. n + 1, call[k].record = at
        PROVE  /\ Count(revs) + Asked(call, k, at) \in DOMAIN f
               /\ f[Count(revs) + Asked(call, k, at)].op = call[k]
    <3>1. CASE k = n + 1
      BY <1>6, <1>8, <1>13, <2>3, <2>4, <3>1
    <3>2. CASE k \in 1 .. n
      BY <1>8, <2>2, <2>5, <3>2 DEF HasFiled
    <3> QED  BY <3>1, <3>2
  <2>6. Count(f) = Asked(call, n + 1, at)
    BY <1>9, <2>1, <2>2 DEF HasFiled
  <2> QED  BY <1>10, <2>5, <2>6 DEF HasFiled
<1>18. Creates(u, at, revs)
  <2>1. Head(t.todo).kind = "create" <=> Count(revs) + Count(t.filed[at]) = 0
    BY <1>2, <1>4, <1>11 DEF TaskTraced, Creates, Newest
  <2>2. CreatedOnce(t.filed[at])
    BY <1>2, <1>11 DEF TaskTraced, Creates
  <2>3. t.number = 1 <=> v.op.kind = "create"
    BY <1>5, <1>6, <2>1
  <2>4. CreatedOnce(f)
    BY <1>8, <2>2, <2>3 DEF CreatedOnce
  <2> QED  BY <1>10, <2>4 DEF Creates, On
<1>19. ASSUME NEW r \in Record, r # at  PROVE Creates(u, r, revision[r])
  BY <1>10, <1>11, <1>19 DEF TaskTraced, Creates, On
<1>20. TaskTraced(u, revision)
  <2> HIDE DEF at, revs
  <2>1. Serves(u, revision, call, n + 1)
    BY <1>14, <1>16, <1>17 DEF Serves, revs
  <2>2. \A r \in Record : Creates(u, r, revision[r])
    BY <1>18, <1>19 DEF revs
  <2>3. n + 1 \in Nat
    OBVIOUS
  <2> QED  BY <1>10, <2>1, <2>2, <2>3 DEF TaskTraced
<1> QED  BY <1>7, <1>20, OneTaskTraced

LEMMA AuditTraced ==
  ASSUME DInv, Traced, NEW h \in Handler, task[h] # Idle, AuditMutation(h)
  PROVE  Traced'
<1> DEFINE t == task[h]
<1> DEFINE rest == Tail(t.todo)
<1> DEFINE noted == [t.noted EXCEPT ![Current(h).record] = @ + 1]
<1> DEFINE u == [t EXCEPT !.step = StepFor(rest), !.todo = rest, !.seen = NoRow,
                          !.raced = FALSE, !.noted = noted]
<1>1. t \in TaskRecord /\ t.step = "audit" /\ t.todo # <<>>
  BY TaskHeld DEF AuditMutation, Underway
<1>2. task' = [task EXCEPT ![h] = u] /\ UNCHANGED committed
  <2>1. u = [t EXCEPT !.step = StepFor(rest), !.todo = Tail(@), !.seen = NoRow,
                      !.raced = FALSE, !.noted[Current(h).record] = @ + 1]
    BY <1>1 DEF TaskRecord
  <2> QED  BY <2>1 DEF AuditMutation
<1>3. u.step = StepFor(rest) /\ u.todo = rest /\ u.filed = t.filed
  BY <1>1 DEF TaskRecord
<1> HIDE DEF u
<1>4. /\ u.step \in {"commit", "read", "write"}
      /\ u.step = "commit" => u.todo = <<>>
  BY <1>3 DEF StepFor
<1>5. TaskTraced(t, revision)
  BY DEF Traced
<1>6. PICK call \in Call, n \in Nat : Serves(t, revision, call, n)
  BY <1>5 DEF TaskTraced
<1>7. /\ n - 1 \in Nat /\ Len(t.todo) = Len(call) - (n - 1)
      /\ \A i \in 1 .. Len(t.todo) : t.todo[i] = call[(n - 1) + i]
  BY <1>1, <1>6 DEF Serves, Stands
<1>8. /\ Len(t.todo) \in Nat /\ Len(t.todo) > 0 /\ Len(rest) = Len(t.todo) - 1
      /\ \A i \in 1 .. Len(t.todo) - 1 : rest[i] = t.todo[i + 1]
  BY <1>1, TodoIsIndexed
<1> HIDE DEF rest
<1>9. Stands(u, call, n)
  <2>1. Len(rest) = Len(call) - n
    BY <1>7, <1>8
  <2>2. ASSUME NEW i \in 1 .. Len(rest)  PROVE rest[i] = call[n + i]
    <3>1. i \in 1 .. Len(t.todo) - 1 /\ i + 1 \in 1 .. Len(t.todo) /\ (n - 1) + (i + 1) = n + i
      BY <1>8, <2>2
    <3> QED  BY <1>7, <1>8, <3>1
  <2> QED  BY <1>3, <1>4, <2>1, <2>2 DEF Stands
<1>10. \A r \in Record : HasFiled(u, r, revision[r], call, n)
  BY <1>3, <1>6 DEF Serves, HasFiled
<1>11. \A r \in Record : Creates(u, r, revision[r])
  BY <1>3, <1>4, <1>5 DEF TaskTraced, Creates, On
<1>12. TaskTraced(u, revision)
  BY <1>4, <1>9, <1>10, <1>11 DEF TaskTraced, Serves
<1> QED  BY <1>2, <1>12, OneTaskTraced

(* What the commit of t makes of the revisions of r. *)
LEMMA CommittedRevisions ==
  ASSUME DInv, NEW h \in Handler, task[h] # Idle, Commit(h), NEW r \in Record
  PROVE  LET old == revision[r]
             new == revision'[r]
             filed == task[h].filed[r]
         IN /\ Count(old) \in Nat /\ Count(filed) \in Nat
            /\ DOMAIN old = 1 .. Count(old)
            /\ DOMAIN filed = Count(old) + 1 .. Count(old) + Count(filed)
            /\ DOMAIN new = 1 .. Count(old) + Count(filed)
            /\ \A k \in DOMAIN old : new[k] = old[k]
            /\ \A k \in DOMAIN filed : new[k] = filed[k]
<1> DEFINE old == revision[r]
<1> DEFINE filed == task[h].filed[r]
<1>1. revision'[r] = Joined(old, filed)
  BY DEF Commit
<1>2. /\ Count(old) \in Nat /\ Count(filed) \in Nat
      /\ DOMAIN old = 1 .. Count(old)
      /\ DOMAIN filed = Count(old) + 1 .. Count(old) + Count(filed)
  BY TaskHeld DEF CommittedFits, RecordFits, FollowsOn, Newest
<1> DEFINE n == Count(old)
<1> DEFINE m == Count(filed)
<1> HIDE DEF old, filed, n, m
<1>3. /\ DOMAIN Joined(old, filed) = 1 .. n + m
      /\ \A k \in DOMAIN old : Joined(old, filed)[k] = old[k]
      /\ \A k \in DOMAIN filed : Joined(old, filed)[k] = filed[k]
  <2>1. n \in Nat /\ m \in Nat /\ DOMAIN old = 1 .. n /\ DOMAIN filed = n + 1 .. n + m
    BY <1>2 DEF n, m
  <2> QED  BY <2>1 DEF Joined
<1> QED  BY <1>1, <1>2, <1>3 DEF old, filed, n, m

LEMMA CommitTraced ==
  ASSUME DInv, Traced, NEW h \in Handler, task[h] # Idle, Commit(h)
  PROVE  Traced'
<1> DEFINE t == task[h]
<1>1. \A g \in Handler : task'[g] = IF g = h THEN Idle ELSE task[g]
  BY DEF Commit, DInv, TypeInv
<1>2. ASSUME NEW r \in Record  PROVE CreatedOnce(revision'[r])
  <2>1. CreatedOnce(revision[r]) /\ CreatedOnce(t.filed[r])
    BY DEF Traced, TaskTraced, Creates
  <2>2. /\ DOMAIN revision'[r] = DOMAIN revision[r] \cup DOMAIN t.filed[r]
        /\ \A k \in DOMAIN revision[r] : revision'[r][k] = revision[r][k]
        /\ \A k \in DOMAIN t.filed[r] : revision'[r][k] = t.filed[r][k]
    <3> DEFINE n == Count(revision[r])
    <3> DEFINE m == Count(t.filed[r])
    <3>1. /\ n \in Nat /\ m \in Nat /\ DOMAIN revision[r] = 1 .. n
          /\ DOMAIN t.filed[r] = n + 1 .. n + m /\ DOMAIN revision'[r] = 1 .. n + m
          /\ \A k \in DOMAIN revision[r] : revision'[r][k] = revision[r][k]
          /\ \A k \in DOMAIN t.filed[r] : revision'[r][k] = t.filed[r][k]
      BY CommittedRevisions
    <3> HIDE DEF n, m
    <3>2. 1 .. n + m = (1 .. n) \cup (n + 1 .. n + m)
      BY <3>1
    <3> QED  BY <3>1, <3>2
  <2> QED  BY <2>1, <2>2 DEF CreatedOnce
<1>3. ASSUME NEW g \in Handler, task'[g] # Idle  PROVE TaskTraced(task[g], revision')
  <2> DEFINE s == task[g]
  <2>1. g # h /\ s # Idle /\ TaskTraced(s, revision)
    BY <1>1, <1>3 DEF Traced
  <2>2. ASSUME NEW r \in Record
        PROVE  \/ revision'[r] = revision[r]
               \/ /\ Count(s.filed[r]) = 0 /\ DOMAIN s.filed[r] = {}
                  /\ ~On(s, {"reload", "file"}, r)
    <3>1. CASE t.wrote[r] = NoRow
      <4>1. t.step = "commit"
        BY DEF Commit
      <4>2. CommittedFits(record[r], revision[r], Count(revision[r]))
        BY TaskHeld DEF CommittedFits
      <4>3. Joined(revision[r], t.filed[r]) = revision[r]
        <5>1. RecordFits(t, r, record[r], revision[r]) /\ revision[r] \in Revisions
          BY TaskHeld
        <5> HIDE DEF t
        <5> QED  BY <3>1, <4>1, <4>2, <5>1, JoinedNothing
      <4>4. revision'[r] = Joined(revision[r], t.filed[r])
        BY DEF Commit
      <4> QED  BY <4>3, <4>4
    <3>2. CASE t.wrote[r] # NoRow
      <4>1. s.wrote[r] = NoRow
        BY <2>1, <3>2 DEF DInv, WritersExclude, Wrote
      <4>2. RecordFits(s, r, record[r], revision[r])
        BY <2>1, TaskHeld
      <4>3. Count(s.filed[r]) = 0 /\ ~On(s, {"reload", "file"}, r)
        BY <4>1, <4>2 DEF RecordFits, FilesWhatItWrote, On
      <4>4. Count(revision[r]) \in Nat
        BY TaskHeld DEF CommittedFits
      <4>5. DOMAIN s.filed[r] = Count(revision[r]) + 1 .. Count(revision[r]) + 0
        BY <4>2, <4>3 DEF RecordFits, FollowsOn, Newest
      <4>6. DOMAIN s.filed[r] = {}
        BY <4>4, <4>5
      <4> QED  BY <4>3, <4>6
    <3> QED  BY <3>1, <3>2
  <2>3. PICK call \in Call, n \in Nat : Serves(s, revision, call, n)
    BY <2>1 DEF TaskTraced
  <2>4. ASSUME NEW r \in Record
        PROVE  HasFiled(s, r, revision'[r], call, n) /\ Creates(s, r, revision'[r])
    <3>1. HasFiled(s, r, revision[r], call, n) /\ Creates(s, r, revision[r])
      BY <2>1, <2>3 DEF Serves, TaskTraced
    <3>2. CASE revision'[r] = revision[r]
      BY <3>1, <3>2
    <3>3. CASE Count(s.filed[r]) = 0 /\ DOMAIN s.filed[r] = {} /\ ~On(s, {"reload", "file"}, r)
      BY <3>1, <3>3 DEF HasFiled, Creates
    <3> QED  BY <2>2, <3>2, <3>3
  <2>5. Stands(s, call, n)
    BY <2>3 DEF Serves
  <2> QED  BY <2>1, <2>4, <2>5 DEF TaskTraced, Serves
<1>4. \A g \in Handler : task'[g] # Idle => TaskTraced(task'[g], revision')
  BY <1>1, <1>3
<1> QED
  BY <1>2, <1>4
  DEF Traced, TaskTraced, CreatedOnce, Creates, Serves, Stands, HasFiled, Count, On, Newest,
      Idle, Asked

LEMMA NextTraced ==
  ASSUME DInv, Traced, [Next]_vars
  PROVE  Traced'
<1>1. CASE UNCHANGED vars
  <2>1. \A r \in Record : CreatedOnce(revision'[r])
    BY <1>1 DEF Traced, vars
  <2>2. \A h \in Handler : task'[h] # Idle => TaskTraced(task'[h], revision')
    BY <1>1 DEF Traced, vars
  <2> QED
    BY <2>1, <2>2
    DEF Traced, TaskTraced, CreatedOnce, Creates, Serves, Stands, HasFiled, Count, On, Newest,
        Idle, Asked
<1>2. ASSUME NEW h \in Handler,
             \/ \E call \in Call : Admit(h, call)
             \/ Statement(h) \/ WriteRecord(h) \/ Abandon(h) \/ DeadlockVictim(h)
      PROVE  Traced'
  <2>1. CASE \E call \in Call : Admit(h, call)
    BY <2>1, AdmitTraced
  <2>2. CASE task[h] # Idle /\ (Statement(h) \/ WriteRecord(h))
    <3>1. CASE ReadRecord(h)
      BY <2>2, <3>1, ReadTraced
    <3>2. CASE RecordNotFound(h) \/ ReloadMissing(h)
      BY <3>2, GivesUpTraced DEF RecordNotFound, ReloadMissing
    <3>3. CASE ReloadRecord(h)
      BY <2>2, <3>3, ReloadTraced
    <3>4. CASE FileRevision(h)
      BY <2>2, <3>4, FileTraced
    <3>5. CASE AuditMutation(h)
      BY <2>2, <3>5, AuditTraced
    <3>6. CASE Commit(h)
      BY <2>2, <3>6, CommitTraced
    <3>7. CASE WriteRecord(h)
      BY <2>2, <3>7, WriteTraced
    <3> QED  BY <2>2, <3>1, <3>2, <3>3, <3>4, <3>5, <3>6, <3>7 DEF Statement
  <2>3. CASE Abandon(h) \/ DeadlockVictim(h)
    BY <2>3, GivesUpTraced DEF Abandon, DeadlockVictim
  <2> QED  BY <1>2, <2>1, <2>2, <2>3, StatementsAreOfCalls
<1> QED  BY <1>1, <1>2 DEF Next

(* Every transaction has filed what its call asks for, operation by operation,
   and a record's first revision, and no other, is its creation.              *)
THEOREM TransactionsServeTheirCalls == Spec => []Traced
<1>1. Init => Traced
  <2>1. DOMAIN NoRevision = {}
    BY DEF NoRevision
  <2> QED  BY <2>1 DEF Init, Traced, CreatedOnce
<1>2. DInv /\ Traced /\ [Next]_vars => Traced'
  BY NextTraced
<1> QED  BY DataInvariantHolds, <1>1, <1>2, PTL DEF Spec

-----------------------------------------------------------------------------
(* The tables implement VersionedStore.                                    *)

Versions(revs) ==
  [n \in DOMAIN revs |-> [kind |-> revs[n].op.kind, shape |-> Shape(revs[n])]]

(* Revisions numbered without a gap are a sequence of versions. *)
LEMMA VersionsForm ==
  ASSUME NEW revs \in Revisions, NEW n \in Nat, DOMAIN revs = 1 .. n
  PROVE  /\ Len(Versions(revs)) = n
         /\ DOMAIN Versions(revs) = 1 .. n
         /\ Versions(revs) = <<>> <=> n = 0
         /\ \A k \in 1 .. n : Versions(revs)[k].kind = revs[k].op.kind
         /\ \A k \in 1 .. n : Versions(revs)[k].shape = Shape(revs[k])
         /\ \A k \in 1 .. n : Versions(revs)[k] = [kind |-> revs[k].op.kind, shape |-> Shape(revs[k])]
<1> DEFINE S == {Versions(revs)[k] : k \in 1 .. n}
<1>1. DOMAIN Versions(revs) = 1 .. n
  BY DEF Versions
<1>2. Versions(revs) \in [1 .. n -> S]
  BY <1>1 DEF Versions
<1>3. Versions(revs) \in Seq(S)
  BY <1>2, SeqDef
<1>4. Len(Versions(revs)) \in Nat /\ DOMAIN Versions(revs) = 1 .. Len(Versions(revs))
  BY <1>3, LenProperties
<1> DEFINE s == Versions(revs)
<1>5. Len(s) = n
  <2> HIDE DEF s, S
  <2>1. Len(s) \in Nat /\ 1 .. Len(s) = 1 .. n
    BY <1>1, <1>4 DEF s
  <2> QED  BY <2>1
<1>6. s = <<>> <=> n = 0
  BY <1>3, <1>5, EmptySeq
<1> QED  BY <1>1, <1>5, <1>6 DEF Versions

LEMMA InitIsContractInit == Init => Contract!Init
<1> SUFFICES ASSUME Init  PROVE Contract!Init
  OBVIOUS
<1>1. \A r \in Record : Versions(revision[r]) = <<>>
  <2>1. NoRevision \in Revisions /\ DOMAIN NoRevision = 1 .. 0
    BY NoRevisionIsRevisions DEF NoRevision
  <2> QED  BY <2>1, VersionsForm DEF Init
<1>2. \A r \in Record : record[r] = NoRow
  BY DEF Init
<1> QED  BY <1>1, <1>2 DEF Contract!Init, Versions

(* Nothing but a commit changes the tables. *)
LEMMA OnlyCommitsCommit ==
  ASSUME [Next]_vars
  PROVE  UNCHANGED committed \/ \E h \in Handler : Commit(h)
<1>1. CASE UNCHANGED vars
  BY <1>1 DEF vars, committed
<1>2. ASSUME NEW h \in Handler,
             \/ \E call \in Call : Admit(h, call)
             \/ Statement(h) \/ WriteRecord(h) \/ Abandon(h) \/ DeadlockVictim(h)
      PROVE  UNCHANGED committed \/ Commit(h)
  <2>1. CASE \E call \in Call : Admit(h, call)
    BY <2>1 DEF Admit
  <2>2. CASE Statement(h)
    BY <2>2 DEF Statement, ReadRecord, RecordNotFound, ReloadRecord, ReloadMissing,
               FileRevision, AuditMutation, GiveUp
  <2>3. CASE WriteRecord(h)
    BY <2>3 DEF WriteRecord, CreateRecord, CreateConflict, UpdateRecord, ChangeStatus,
               GiveUp, Stage
  <2>4. CASE Abandon(h) \/ DeadlockVictim(h)
    BY <2>4 DEF Abandon, DeadlockVictim, GiveUp
  <2> QED  BY <1>2, <2>1, <2>2, <2>3, <2>4
<1> QED  BY <1>1, <1>2 DEF Next

(* A step that commits nothing is none of the store's. *)
LEMMA OthersStutter ==
  ASSUME UNCHANGED committed
  PROVE  UNCHANGED Contract!storeVars
<1>1. record' = record /\ revision' = revision
  BY DEF committed
<1> QED  BY <1>1 DEF Contract!storeVars, Shape

(* A commit applies its call, the whole of it. *)
LEMMA CommitApplies ==
  ASSUME DInv, Traced, DInv', Traced', NEW h \in Handler, Commit(h)
  PROVE  Contract!Next
<1> DEFINE t == task[h]
<1>1. t.step = "commit" /\ t # Idle
  BY DEF Commit, Idle
<1>2. TaskTraced(t, revision) /\ t.todo = <<>>
  BY <1>1 DEF Traced, TaskTraced
<1>3. PICK call \in Call, n \in Nat : Serves(t, revision, call, n)
  BY <1>2 DEF TaskTraced
<1>4. call \in Seq(Op) /\ Len(call) \in Nat /\ DOMAIN call = 1 .. Len(call)
  BY CallAssumption, LenProperties DEF CallAssumption
<1>5. n = Len(call)
  <2>1. Len(t.todo) = Len(call) - n
    BY <1>1, <1>3 DEF Serves, Stands
  <2>2. Len(t.todo) = 0
    BY <1>2
  <2>3. n \in Nat
    BY <1>3
  <2>4. \A a, b \in Nat : 0 = a - b => b = a
    OBVIOUS
  <2>5. 0 = Len(call) - n
    BY <2>1, <2>2
  <2> HIDE DEF t
  <2> QED  BY <1>4, <2>3, <2>4, <2>5
<1>6. ASSUME NEW r \in Record
      PROVE  Contract!Grows(call, r) /\ Contract!StartsWithCreate(r) /\ Contract!ShowsNewest(r)
  <2> DEFINE old == revision[r]
  <2> DEFINE new == revision'[r]
  <2> DEFINE filed == t.filed[r]
  <2> DEFINE m == Count(old)
  <2>1. /\ m \in Nat /\ Count(filed) \in Nat
        /\ DOMAIN old = 1 .. m
        /\ DOMAIN filed = m + 1 .. m + Count(filed)
        /\ DOMAIN new = 1 .. m + Count(filed)
        /\ \A k \in DOMAIN old : new[k] = old[k]
        /\ \A k \in DOMAIN filed : new[k] = filed[k]
    BY <1>1, CommittedRevisions
  <2>2. old \in Revisions /\ new \in Revisions
    BY DEF DInv, TypeInv
  <2>3. HasFiled(t, r, old, call, Len(call))
    BY <1>3, <1>5 DEF Serves
  <2>4. CreatedOnce(new)
    BY DEF Traced
  <2>5. CommittedFits(record'[r], new, audit'[r])
    BY DEF DInv
  <2>6. /\ Count(filed) = Asked(call, Len(call), r)
        /\ \A k \in 1 .. Len(call) : call[k].record = r =>
             m + Asked(call, k, r) \in DOMAIN filed /\ filed[m + Asked(call, k, r)].op = call[k]
    BY <2>3 DEF HasFiled
  <2>7. m + Count(filed) \in Nat /\ Count(new) = m + Count(filed)
    <3>1. Count(new) \in Nat /\ DOMAIN new = 1 .. Count(new)
      BY <2>5 DEF CommittedFits
    <3>2. \A a, b \in Nat : 1 .. a = 1 .. b => a = b
      OBVIOUS
    <3>3. m + Count(filed) \in Nat
      BY <2>1
    <3> QED  BY <2>1, <3>1, <3>2, <3>3
  <2> HIDE DEF old, new, filed, m, t
  <2>8. /\ Len(Versions(old)) = m
        /\ Len(Versions(new)) = m + Count(filed)
        /\ Versions(new) = <<>> <=> m + Count(filed) = 0
    BY <2>1, <2>2, <2>7, VersionsForm
  <2>9. /\ \A k \in 1 .. m : Versions(old)[k] = [kind |-> old[k].op.kind, shape |-> Shape(old[k])]
        /\ \A k \in 1 .. m + Count(filed) :
             Versions(new)[k] = [kind |-> new[k].op.kind, shape |-> Shape(new[k])]
    BY <2>1, <2>2, <2>7, VersionsForm
  <2>10. \A k \in 1 .. m : k \in 1 .. m + Count(filed)
    BY <2>1
  <2>11. \A k \in DOMAIN filed : k \in 1 .. m + Count(filed)
    BY <2>1
  <2>12. Contract!Grows(call, r)
    <3>1. Len(Versions(new)) = Len(Versions(old)) + Contract!Asked(call, Len(call), r)
      BY <2>6, <2>8 DEF Asked
    <3>2. \A k \in 1 .. Len(Versions(old)) : Versions(new)[k] = Versions(old)[k]
      BY <2>1, <2>8, <2>9, <2>10
    <3>3. \A k \in DOMAIN call : call[k].record = r =>
            Versions(new)[Len(Versions(old)) + Contract!Asked(call, k, r)].kind = call[k].kind
      BY <1>4, <2>1, <2>6, <2>8, <2>9, <2>11 DEF Asked
    <3> QED  BY <3>1, <3>2, <3>3 DEF Contract!Grows, Versions, old, new
  <2>13. Contract!StartsWithCreate(r)
    <3>1. \A k \in 1 .. Len(Versions(new)) : Versions(new)[k].kind = "create" <=> k = 1
      BY <2>1, <2>4, <2>8, <2>9 DEF CreatedOnce
    <3> QED  BY <3>1 DEF Contract!StartsWithCreate, Versions, new
  <2>14. Contract!ShowsNewest(r)
    <3> DEFINE now == IF record'[r] = NoRow THEN NoRow ELSE Shape(record'[r])
    <3>1. CASE Versions(new) = <<>>
      <4>1. now = NoRow
        BY <2>5, <2>7, <2>8, <3>1 DEF CommittedFits
      <4> QED  BY <3>1, <4>1 DEF Contract!ShowsNewest, Versions, new
    <3>2. CASE Versions(new) # <<>>
      <4>1. now = Versions(new)[Len(Versions(new))].shape
        <5>1. record'[r] # NoRow /\ Shape(new[Count(new)]) = Shape(record'[r])
          BY <2>5, <2>7, <2>8, <3>2 DEF CommittedFits
        <5>2. Count(new) \in 1 .. m + Count(filed)
          BY <2>7, <2>8, <3>2
        <5> QED  BY <2>7, <2>8, <2>9, <5>1, <5>2
      <4> QED  BY <3>2, <4>1 DEF Contract!ShowsNewest, Versions, new
    <3> QED  BY <3>1, <3>2
  <2> QED  BY <2>12, <2>13, <2>14
<1> QED  BY <1>6 DEF Contract!Next, Contract!Apply

(* The store keeps its promise for every set of calls, batches of any length
   included: each commit adds the versions its call asks for, all at once, and
   the newest version is the record.                                          *)
THEOREM StoreIsVersioned == Spec => ImplementsContract
<1>1. DInv /\ Traced /\ DInv' /\ Traced' /\ [Next]_vars => [Contract!Next]_(Contract!storeVars)
  <2> SUFFICES ASSUME DInv, Traced, DInv', Traced', [Next]_vars
               PROVE  [Contract!Next]_(Contract!storeVars)
    OBVIOUS
  <2>1. UNCHANGED committed \/ \E h \in Handler : Commit(h)
    BY OnlyCommitsCommit
  <2>2. CASE UNCHANGED committed
    BY <2>2, OthersStutter
  <2>3. CASE \E h \in Handler : Commit(h)
    BY <2>3, CommitApplies
  <2> QED  BY <2>1, <2>2, <2>3
<1> QED
  BY DataInvariantHolds, TransactionsServeTheirCalls, InitIsContractInit, <1>1, PTL
  DEF Spec, ImplementsContract, Contract!Spec

(* The history of a record is append-only: no step changes or removes a revision
   that is committed, its copies of the columns and its operation included.    *)
RevisionsStand ==
  [][\A r \in Record : \A k \in DOMAIN revision[r] :
       k \in DOMAIN revision'[r] /\ revision'[r][k] = revision[r][k]]_revision

(* A committed revision is never changed or removed, by whichever operation. *)
THEOREM HistoriesOnlyGrow == Spec => RevisionsStand
<1> DEFINE Stand == \A r \in Record : \A k \in DOMAIN revision[r] :
                      k \in DOMAIN revision'[r] /\ revision'[r][k] = revision[r][k]
<1>1. ASSUME DInv, [Next]_vars  PROVE Stand \/ UNCHANGED revision
  <2>1. CASE UNCHANGED committed
    BY <2>1 DEF committed
  <2>2. ASSUME NEW h \in Handler, Commit(h)  PROVE Stand
    <3> SUFFICES ASSUME NEW r \in Record, NEW k \in DOMAIN revision[r]
                 PROVE  k \in DOMAIN revision'[r] /\ revision'[r][k] = revision[r][k]
      OBVIOUS
    <3>1. task[h] # Idle
      BY <2>2 DEF Commit, Idle
    <3> DEFINE n == Count(revision[r])
    <3> DEFINE m == Count(task[h].filed[r])
    <3>2. /\ n \in Nat /\ m \in Nat /\ DOMAIN revision[r] = 1 .. n
          /\ DOMAIN revision'[r] = 1 .. n + m /\ revision'[r][k] = revision[r][k]
      BY <1>1, <2>2, <3>1, CommittedRevisions
    <3> HIDE DEF n, m
    <3>3. k \in 1 .. n + m
      BY <3>2
    <3> QED  BY <3>2, <3>3
  <2> QED  BY <1>1, <2>1, <2>2, OnlyCommitsCommit
<1> HIDE DEF Stand
<1>2. DInv /\ [Next]_vars => [Stand]_revision
  BY <1>1
<1> QED  BY DataInvariantHolds, <1>2, PTL DEF Spec, RevisionsStand, Stand
=============================================================================

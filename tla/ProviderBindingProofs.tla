------------------------ MODULE ProviderBindingProofs ------------------------
(***************************************************************************)
(* Theorems about ProviderBinding.                                         *)
(*                                                                         *)
(* The types hold whatever the administrators do.  What the cache promises *)
(* is proved for any number of administrators and resolvers whose patches  *)
(* name no other slot (~Moves): a row then stays at its home.              *)
(***************************************************************************)
EXTENDS ProviderBinding, TLAPS

(* The row an update will write exists: no handler deletes rows. *)
UpdatesKnownRow ==
  \A a \in Admin : admin[a].step = "update" => admin[a].home \in Homes

TypeInv == TypeOK /\ UpdatesKnownRow

(* The step a task is at tells its shape. *)
LEMMA AdminTaskShape ==
  ASSUME NEW t \in AdminTask
  PROVE  /\ t.step = "insert" => t \in InsertTask
         /\ t.step = "update" => t \in UpdateTask
         /\ t.step = "invalidate" => t \in InvalidateTask
         /\ t.step = "invalidate plugin" => t \in PluginTask
<1>1. t = Idle => t.step = "idle"
  BY DEF Idle
<1>2. t \in InsertTask => t.step = "insert"
  BY DEF InsertTask
<1>3. t \in UpdateTask => t.step = "update"
  BY DEF UpdateTask
<1>4. t \in InvalidateTask => t.step = "invalidate"
  BY DEF InvalidateTask
<1>5. t \in PluginTask => t.step = "invalidate plugin"
  BY DEF PluginTask
<1>6. QED
  BY <1>1, <1>2, <1>3, <1>4, <1>5 DEF AdminTask

(* What a resolver carries between its steps. *)
LEMMA ResolverTaskShape ==
  ASSUME NEW t \in ResolverTask
  PROVE  /\ t.step # "idle" => t \in ResolveTask
         /\ t # Idle <=> t.step # "idle"
BY DEF ResolverTask, ResolveTask, Idle

(* A row is not the absence of one. *)
LEMMA RowIsPresent ==
  ASSUME NEW row \in Row
  PROVE  row # NoRow
BY DEF Row, NoRow, Status

(* An answer is not the absence of one. *)
LEMMA AnswerIsPresent ==
  ASSUME NEW x \in Answer
  PROVE  x # NoAnswer
BY DEF Answer, NoAnswer

(* The fields the proofs below need. *)
LEMMA RowFields ==
  ASSUME NEW row \in Row
  PROVE  /\ row.slot \in Slot /\ row.provider \in Provider /\ row.status \in Status
         /\ row.epoch \in Nat \ {0} /\ row.epoch + 1 \in Nat \ {0}
BY DEF Row

(* What an update carries between its read and its write. *)
LEMMA UpdateTaskFields ==
  ASSUME NEW t \in UpdateTask
  PROVE  /\ t.home \in Slot /\ t.before \in Slot
         /\ t.slot \in Slot \cup {KeepSlot} /\ t.provider \in Provider \cup {KeepProvider}
         /\ t.status \in Status /\ t.seen \in Nat \ {0} /\ t.epoch \in Nat \ {0}
BY DEF UpdateTask

(* What a task needs to be one of an administrator's. *)
LEMMA AdminTaskMembers ==
  /\ Idle \in AdminTask
  /\ InsertTask \subseteq AdminTask
  /\ UpdateTask \subseteq AdminTask
  /\ InvalidateTask \subseteq AdminTask
  /\ PluginTask \subseteq AdminTask
BY DEF AdminTask

(* A handler that has read a present row makes an update of it. *)
LEMMA UpdateOfKnownRow ==
  ASSUME TypeInv,
         NEW b \in Homes, NEW s \in Slot \cup {KeepSlot}, NEW before \in Slot,
         NEW p \in Provider \cup {KeepProvider}, NEW st \in Status
  PROVE  [step |-> "update", home |-> b, before |-> before, slot |-> s,
          provider |-> p, status |-> st,
          seen |-> binding[b].epoch, epoch |-> binding[b].epoch + 1] \in UpdateTask
<1>1. b \in Slot /\ binding[b] \in Row
  BY DEF TypeInv, TypeOK, Homes
<1>2. QED
  BY <1>1, RowFields DEF UpdateTask

(* The row an update leaves behind. *)
LEMMA UpdatedRowType ==
  ASSUME TypeInv, NEW a \in Admin, admin[a].step = "update"
  PROVE  /\ UpdatedRow(admin[a]) \in Row
         /\ UpdatedRow(admin[a]).epoch = admin[a].epoch
         /\ UpdatedRow(admin[a]).slot = UpdatedSlot(admin[a])
         /\ UpdatedSlot(admin[a]) \in Slot
         /\ admin[a].home \in Slot /\ binding[admin[a].home] \in Row
<1>1. admin[a] \in UpdateTask
  BY AdminTaskShape DEF TypeInv, TypeOK
<1>2. admin[a].home \in Slot /\ binding[admin[a].home] \in Row
  BY <1>1, UpdateTaskFields DEF TypeInv, TypeOK, UpdatesKnownRow, Homes
<1>3. UpdatedSlot(admin[a]) \in Slot
  BY <1>1, <1>2, UpdateTaskFields, RowFields DEF UpdatedSlot
<1>4. QED
  BY <1>1, <1>2, <1>3, UpdateTaskFields, RowFields DEF UpdatedRow, Row

-----------------------------------------------------------------------------
(* The first state has the right types. *)
LEMMA InitType == Init => TypeInv
<1> SUFFICES ASSUME Init PROVE TypeInv
  OBVIOUS
<1>1. \A a \in Admin : admin[a] = Idle
  BY DEF Init
<1>2. UpdatesKnownRow
  BY <1>1 DEF UpdatesKnownRow, Idle
<1>3. TypeOK
  BY AdminTaskMembers DEF Init, TypeOK, ResolverTask
<1>4. QED
  BY <1>2, <1>3 DEF TypeInv

(* Every step keeps the types. *)
LEMMA NextType == TypeInv /\ [Next]_vars => TypeInv'
<1> SUFFICES ASSUME TypeInv, [Next]_vars
             PROVE  TypeInv'
  OBVIOUS
<1> USE DEF TypeInv, TypeOK, UpdatesKnownRow, history
<1>1. ASSUME NEW a \in Admin, NEW s \in Slot, NEW p \in Provider, NEW st \in Status,
             UpsertRead(a, s, p, st)
      PROVE  TypeInv'
  <2>1. PICK b \in BoundTo(s) :
          admin' = [admin EXCEPT ![a] =
                      [step |-> "update", home |-> b, before |-> s, slot |-> KeepSlot,
                       provider |-> p, status |-> st,
                       seen |-> binding[b].epoch, epoch |-> binding[b].epoch + 1]]
    BY <1>1 DEF UpsertRead
  <2>2. b \in Homes
    BY DEF BoundTo
  <2>3. admin'[a] \in UpdateTask
    BY <2>1, <2>2, UpdateOfKnownRow
  <2>4. admin' \in [Admin -> AdminTask]
    BY <2>1, <2>3, AdminTaskMembers
  <2>5. QED
    BY <1>1, <2>1, <2>2, <2>4 DEF UpsertRead, Homes
<1>2. ASSUME NEW a \in Admin, NEW s \in Slot, NEW p \in Provider, NEW st \in Status,
             UpsertAbsent(a, s, p, st)
      PROVE  TypeInv'
  BY <1>2 DEF UpsertAbsent, AdminTask, InsertTask, Homes
<1>3. ASSUME NEW a \in Admin, NEW b \in Slot, NEW p \in Provider, NEW st \in Status,
             PatchRead(a, b, p, st)
      PROVE  TypeInv'
  <2>1. PICK s \in PatchSlots(binding[b]) :
          admin' = [admin EXCEPT ![a] =
                      [step |-> "update", home |-> b, before |-> binding[b].slot, slot |-> s,
                       provider |-> p, status |-> st,
                       seen |-> binding[b].epoch, epoch |-> binding[b].epoch + 1]]
    BY <1>3 DEF PatchRead
  <2>2. b \in Homes /\ binding[b] \in Row
    BY <1>3 DEF PatchRead, Homes
  <2>3. binding[b].slot \in Slot /\ s \in Slot
    BY <2>2, RowFields DEF PatchSlots
  <2>4. admin'[a] \in UpdateTask
    BY <2>1, <2>2, <2>3, UpdateOfKnownRow
  <2>5. admin' \in [Admin -> AdminTask]
    BY <2>1, <2>4, AdminTaskMembers
  <2>6. QED
    BY <1>3, <2>1, <2>2, <2>5 DEF PatchRead, Homes
<1>4. ASSUME NEW a \in Admin, NEW b \in Slot, DisableRead(a, b)
      PROVE  TypeInv'
  <2>1. b \in Homes /\ binding[b] \in Row /\ "disabled" \in Status
    BY <1>4 DEF DisableRead, Homes, Status
  <2>2. admin'[a] \in UpdateTask
    BY <1>4, <2>1, UpdateOfKnownRow, RowFields DEF DisableRead
  <2>3. admin' \in [Admin -> AdminTask]
    BY <1>4, <2>2, AdminTaskMembers DEF DisableRead
  <2>4. QED
    BY <1>4, <2>1, <2>3 DEF DisableRead, Homes
<1>5. ASSUME NEW a \in Admin, NEW p \in Provider, PluginLifecycle(a, p)
      PROVE  TypeInv'
  <2>1. [step |-> "invalidate plugin", provider |-> p] \in AdminTask
    BY AdminTaskMembers DEF PluginTask
  <2>2. QED
    BY <1>5, <2>1 DEF PluginLifecycle, Homes
<1>6. ASSUME NEW a \in Admin, InsertWrite(a)
      PROVE  TypeInv'
  <2>1. admin[a] \in InsertTask
    BY <1>6, AdminTaskShape DEF InsertWrite
  <2> DEFINE row == [slot |-> admin[a].slot, provider |-> admin[a].provider,
                     status |-> admin[a].status, epoch |-> 1]
  <2>2. row \in Row /\ row # NoRow /\ admin[a].slot \in Slot
    BY <2>1, RowIsPresent DEF InsertTask, Row
  <2>3. Homes \subseteq Homes'
    BY <1>6, <2>1, <2>2 DEF InsertWrite, Homes
  <2>4. [step |-> "invalidate", slots |-> {admin[a].slot}] \in AdminTask
    BY <2>2, AdminTaskMembers DEF InvalidateTask
  <2>5. QED
    BY <1>6, <2>1, <2>2, <2>3, <2>4 DEF InsertWrite, InFlight
<1>7. ASSUME NEW a \in Admin, UpdateWrite(a)
      PROVE  TypeInv'
  <2>1. admin[a] \in UpdateTask
    BY <1>7, AdminTaskShape DEF UpdateWrite
  <2>2. UpdatedRow(admin[a]) \in Row /\ UpdatedRow(admin[a]) # NoRow
        /\ UpdatedSlot(admin[a]) \in Slot
    BY <1>7, UpdatedRowType, RowIsPresent DEF UpdateWrite
  <2>3. Homes \subseteq Homes'
    BY <1>7, <2>1, <2>2 DEF UpdateWrite, Homes
  <2>4. admin[a].home \in Slot /\ admin[a].before \in Slot
    BY <2>1, UpdateTaskFields
  <2>5. [step |-> "invalidate", slots |-> {admin[a].before, UpdatedSlot(admin[a])}]
          \in AdminTask
    BY <2>2, <2>4, AdminTaskMembers DEF InvalidateTask
  <2>6. binding' \in [Slot -> Row \cup {NoRow}]
    BY <1>7, <2>2, <2>4 DEF UpdateWrite
  <2>7. admin' \in [Admin -> AdminTask] /\ \A c \in Admin \ {a} : admin'[c] = admin[c]
    BY <1>7, <2>5 DEF UpdateWrite
  <2>8. admin'[a].step # "update"
    BY <1>7, <2>5 DEF UpdateWrite
  <2>9. overtaken' \subseteq Resolver /\ lostUpdate' \in BOOLEAN
    BY <1>7 DEF UpdateWrite, InFlight
  <2>10. UpdatesKnownRow'
    BY <2>3, <2>7, <2>8
  <2>11. QED
    BY <1>7, <2>6, <2>7, <2>9, <2>10 DEF UpdateWrite
<1>8. ASSUME NEW a \in Admin, AdminGivesUp(a)
      PROVE  TypeInv'
  BY <1>8 DEF AdminGivesUp, AdminTask, Idle, Homes
<1>9. ASSUME NEW a \in Admin, Invalidate(a)
      PROVE  TypeInv'
  BY <1>9 DEF Invalidate, Without, AdminTask, Idle, Homes
<1>10. ASSUME NEW a \in Admin, PluginInvalidate(a)
       PROVE  TypeInv'
  BY <1>10 DEF PluginInvalidate, Without, AdminTask, Idle, Homes
<1>11. ASSUME NEW r \in Resolver, NEW s \in Slot, ResolveFromCache(r, s)
       PROVE  TypeInv'
  BY <1>11 DEF ResolveFromCache, ResolverTask, ResolveTask, Homes
<1>12. ASSUME NEW r \in Resolver, NEW s \in Slot, ResolveRead(r, s)
       PROVE  TypeInv'
  BY <1>12 DEF ResolveRead, BoundTo, ResolverTask, ResolveTask, Homes, Row, Answer
<1>13. ASSUME NEW r \in Resolver, ResolveCheck(r)
       PROVE  TypeInv'
  <2>1. resolver[r] \in ResolveTask
    BY <1>13, ResolverTaskShape DEF ResolveCheck, Idle
  <2>2. resolver'[r] \in ResolverTask
    BY <1>13, <2>1 DEF ResolveCheck, ResolverTask, ResolveTask
  <2>3. QED
    BY <1>13, <2>2 DEF ResolveCheck, Homes
<1>14. ASSUME NEW r \in Resolver, ResolveFill(r)
       PROVE  TypeInv'
  <2>1. resolver[r] \in ResolveTask
    BY <1>14, ResolverTaskShape DEF ResolveFill, Idle
  <2>2. resolver'[r] \in ResolverTask
    BY <1>14, <2>1 DEF ResolveFill, ResolverTask, ResolveTask
  <2>3. resolver[r].slot \in Slot /\ resolver[r].answer \in Answer
    BY <2>1 DEF ResolveTask
  <2>4. QED
    BY <1>14, <2>2, <2>3 DEF ResolveFill, Homes
<1>15. ASSUME NEW r \in Resolver, ResolveEnd(r)
       PROVE  TypeInv'
  BY <1>15 DEF ResolveEnd, ResolverTask, Homes
<1>16. ASSUME NEW s \in Slot, CacheExpire(s)
       PROVE  TypeInv'
  BY <1>16 DEF CacheExpire, Without, Homes
<1>17. CASE Restart
  BY <1>17 DEF Restart, AdminTask, ResolverTask, Idle, Homes
<1>18. CASE UNCHANGED vars
  BY <1>18 DEF vars, Homes
<1>19. QED
  BY <1>1, <1>2, <1>3, <1>4, <1>5, <1>6, <1>7, <1>8, <1>9, <1>10, <1>11, <1>12,
     <1>13, <1>14, <1>15, <1>16, <1>17, <1>18
  DEF Next, AdminRequest, AdminStep, ResolverStep

(* Every variable has its type, whatever requests interleave. *)
THEOREM TypeCorrect == Spec => []TypeOK
<1>1. TypeInv => TypeOK
  BY DEF TypeInv
<1>2. QED
  BY <1>1, InitType, NextType, PTL DEF Spec

-----------------------------------------------------------------------------
(* Without moves, a row serves the slot it was created for, ...            *)
StaysHome == \A b \in Homes : binding[b].slot = b

(* ... an update leaves it there and raises the epoch it has read, ...     *)
UpdatesStayHome ==
  \A a \in Admin : admin[a].step = "update" =>
    /\ admin[a].before = admin[a].home
    /\ admin[a].slot \in {KeepSlot, admin[a].home}
    /\ admin[a].epoch = admin[a].seen + 1

(* ... a resolver nobody has overtaken holds what the table says, ...      *)
FreshUnlessOvertaken ==
  \A r \in Resolver : resolver[r].step \in {"check", "fill"} /\ r \notin overtaken
    => Current(resolver[r].slot, resolver[r].answer)

(* ... and there are answers only for slots that have a row.               *)
AnswersOfRows ==
  /\ \A s \in Slot : cache[s] # NoAnswer => s \in Homes
  /\ \A r \in Resolver : resolver[r].step # "idle" => resolver[r].slot \in Homes

HomeInv == TypeInv /\ StaysHome /\ UpdatesStayHome /\ AnswersOfRows
CacheInv == FreshUnlessOvertaken /\ CacheFollowsBindings

(* At home, the row bound to a slot is the slot's own. *)
LEMMA BoundToItself ==
  ASSUME StaysHome, NEW s \in Slot
  PROVE  BoundTo(s) = IF s \in Homes THEN {s} ELSE {}
BY DEF StaysHome, BoundTo, Homes

(* What the two writes do to the table, seen from home. *)
LEMMA InsertAtHome ==
  ASSUME HomeInv, NEW a \in Admin, InsertWrite(a)
  PROVE  LET s == admin[a].slot IN
           /\ s \in Slot /\ s \notin Homes
           /\ Homes' = Homes \cup {s}
           /\ binding'[s].slot = s
           /\ \A c \in Slot \ {s} : binding'[c] = binding[c]
           /\ admin'[a] = [step |-> "invalidate", slots |-> {s}]
           /\ overtaken' = overtaken \cup InFlight({s})
<1>1. admin[a] \in InsertTask
  BY AdminTaskShape DEF HomeInv, TypeInv, TypeOK, InsertWrite
<1> DEFINE s == admin[a].slot
           row == [slot |-> s, provider |-> admin[a].provider,
                   status |-> admin[a].status, epoch |-> 1]
<1>2. s \in Slot /\ row \in Row /\ row # NoRow
  BY <1>1, RowIsPresent DEF InsertTask, Row
<1>3. binding \in [Slot -> Row \cup {NoRow}] /\ admin \in [Admin -> AdminTask]
  BY DEF HomeInv, TypeInv, TypeOK
<1>4. binding' = [binding EXCEPT ![s] = row]
  BY DEF InsertWrite
<1>5. Homes' = Homes \cup {s}
  BY <1>2, <1>3, <1>4 DEF Homes
<1>6. QED
  BY <1>2, <1>3, <1>4, <1>5 DEF InsertWrite

(* Without moves an update stays in the slot it read. *)
LEMMA UpdateAtHome ==
  ASSUME HomeInv, NEW a \in Admin, UpdateWrite(a)
  PROVE  LET s == admin[a].home IN
           /\ s \in Homes /\ s \in Slot
           /\ Homes' = Homes
           /\ binding'[s].slot = s
           /\ binding'[s].epoch = admin[a].seen + 1
           /\ \A c \in Slot \ {s} : binding'[c] = binding[c]
           /\ admin'[a] = [step |-> "invalidate", slots |-> {s}]
           /\ overtaken' = overtaken \cup InFlight({s})
           /\ ~lostUpdate' => ~lostUpdate /\ admin[a].seen = binding[s].epoch
<1> DEFINE t == admin[a]
           s == admin[a].home
<1>1. t.step = "update" /\ s \in Homes /\ s \in Slot
  BY UpdatedRowType DEF UpdateWrite, HomeInv, TypeInv, UpdatesKnownRow
<1>2. t.before = s /\ t.slot \in {KeepSlot, s} /\ t.epoch = t.seen + 1
  BY <1>1 DEF HomeInv, UpdatesStayHome
<1>3. binding[s].slot = s
  BY <1>1 DEF HomeInv, StaysHome
<1>4. UpdatedSlot(t) = s
  BY <1>2, <1>3 DEF UpdatedSlot
<1>5. UpdatedRow(t).slot = s /\ UpdatedRow(t).epoch = t.epoch /\ UpdatedRow(t) # NoRow
  BY <1>1, <1>4, UpdatedRowType, RowIsPresent DEF HomeInv
<1>6. binding \in [Slot -> Row \cup {NoRow}] /\ admin \in [Admin -> AdminTask]
  BY DEF HomeInv, TypeInv, TypeOK
<1>7. binding' = [binding EXCEPT ![s] = UpdatedRow(t)]
  BY DEF UpdateWrite
<1>8. Homes' = Homes
  BY <1>1, <1>5, <1>6, <1>7 DEF Homes
<1>9. admin'[a] = [step |-> "invalidate", slots |-> {s}]
  BY <1>2, <1>4, <1>6 DEF UpdateWrite
<1>10. overtaken' = overtaken \cup InFlight({s})
  BY <1>3, <1>4 DEF UpdateWrite
<1>11. QED
  BY <1>1, <1>2, <1>5, <1>6, <1>7, <1>8, <1>9, <1>10 DEF UpdateWrite

-----------------------------------------------------------------------------
(* At first there is nothing out of its slot. *)
LEMMA InitHome == Init => HomeInv
<1> SUFFICES ASSUME Init PROVE HomeInv
  OBVIOUS
<1>1. /\ \A a \in Admin : admin[a] = Idle
      /\ \A r \in Resolver : resolver[r] = Idle
      /\ \A s \in Slot : binding[s] = NoRow /\ cache[s] = NoAnswer
  BY DEF Init
<1>2. StaysHome /\ UpdatesStayHome /\ AnswersOfRows
  BY <1>1 DEF StaysHome, UpdatesStayHome, AnswersOfRows, Homes, Idle
<1>3. QED
  BY <1>2, InitType DEF HomeInv

(* Without moves every step leaves each row in its slot. *)
LEMMA NextHome == ~Moves /\ HomeInv /\ [Next]_vars => HomeInv'
<1> SUFFICES ASSUME ~Moves, HomeInv, [Next]_vars
             PROVE  HomeInv'
  OBVIOUS
<1> USE DEF history
<1>0. TypeInv' /\ TypeOK
  BY NextType DEF HomeInv, TypeInv
(* A request that only changes what it is about to do itself. *)
<1>1. ASSUME NEW a \in Admin,
             UNCHANGED <<binding, cache, resolver>>,
             \A c \in Admin \ {a} : admin'[c] = admin[c],
             admin'[a].step = "update" =>
               /\ admin'[a].before = admin'[a].home
               /\ admin'[a].slot \in {KeepSlot, admin'[a].home}
               /\ admin'[a].epoch = admin'[a].seen + 1
      PROVE  HomeInv'
  BY <1>0, <1>1 DEF HomeInv, StaysHome, UpdatesStayHome, AnswersOfRows, Homes
<1>2. ASSUME NEW a \in Admin, NEW s \in Slot, NEW p \in Provider, NEW st \in Status,
             UpsertRead(a, s, p, st)
      PROVE  HomeInv'
  <2>1. PICK b \in BoundTo(s) :
          admin' = [admin EXCEPT ![a] =
                      [step |-> "update", home |-> b, before |-> s, slot |-> KeepSlot,
                       provider |-> p, status |-> st,
                       seen |-> binding[b].epoch, epoch |-> binding[b].epoch + 1]]
    BY <1>2 DEF UpsertRead
  <2>2. b = s
    BY BoundToItself DEF HomeInv
  <2>3. QED
    BY <1>0, <1>1, <1>2, <2>1, <2>2 DEF UpsertRead, TypeOK
<1>3. ASSUME NEW a \in Admin, NEW s \in Slot, NEW p \in Provider, NEW st \in Status,
             UpsertAbsent(a, s, p, st)
      PROVE  HomeInv'
  BY <1>0, <1>1, <1>3 DEF UpsertAbsent, TypeOK
<1>4. ASSUME NEW a \in Admin, NEW b \in Slot, NEW p \in Provider, NEW st \in Status,
             PatchRead(a, b, p, st)
      PROVE  HomeInv'
  <2>1. PICK s \in PatchSlots(binding[b]) :
          admin' = [admin EXCEPT ![a] =
                      [step |-> "update", home |-> b, before |-> binding[b].slot, slot |-> s,
                       provider |-> p, status |-> st,
                       seen |-> binding[b].epoch, epoch |-> binding[b].epoch + 1]]
    BY <1>4 DEF PatchRead
  <2>2. binding[b].slot = b /\ s = b
    BY <1>4 DEF PatchRead, PatchSlots, HomeInv, StaysHome
  <2>3. QED
    BY <1>0, <1>1, <1>4, <2>1, <2>2 DEF PatchRead, TypeOK
<1>5. ASSUME NEW a \in Admin, NEW b \in Slot, DisableRead(a, b)
      PROVE  HomeInv'
  <2>1. binding[b].slot = b
    BY <1>5 DEF DisableRead, HomeInv, StaysHome
  <2>2. QED
    BY <1>0, <1>1, <1>5, <2>1 DEF DisableRead, TypeOK
<1>6. ASSUME NEW a \in Admin, NEW p \in Provider, PluginLifecycle(a, p)
      PROVE  HomeInv'
  BY <1>0, <1>1, <1>6 DEF PluginLifecycle, TypeOK
<1>7. ASSUME NEW a \in Admin, AdminGivesUp(a)
      PROVE  HomeInv'
  BY <1>0, <1>1, <1>7 DEF AdminGivesUp, TypeOK, Idle
<1>8. ASSUME NEW a \in Admin, InsertWrite(a)
      PROVE  HomeInv'
  <2>1. StaysHome'
    BY InsertAtHome, <1>8 DEF HomeInv, StaysHome, Homes
  <2>2. UpdatesStayHome'
    BY <1>0, <1>8, InsertAtHome DEF HomeInv, UpdatesStayHome, InsertWrite, TypeOK
  <2>3. AnswersOfRows'
    BY <1>8, InsertAtHome DEF HomeInv, AnswersOfRows, InsertWrite
  <2>4. QED
    BY <1>0, <2>1, <2>2, <2>3 DEF HomeInv
<1>9. ASSUME NEW a \in Admin, UpdateWrite(a)
      PROVE  HomeInv'
  <2>1. StaysHome'
    BY UpdateAtHome, <1>9 DEF HomeInv, StaysHome, Homes
  <2>2. UpdatesStayHome'
    <3>0. admin'[a] = [step |-> "invalidate", slots |-> {admin[a].home}]
      BY <1>9, UpdateAtHome
    <3>1. admin'[a].step # "update"
      BY <3>0
    <3>2. \A c \in Admin \ {a} : admin'[c] = admin[c]
      BY <1>0, <1>9 DEF UpdateWrite, TypeOK
    <3>3. QED
      BY <3>1, <3>2 DEF HomeInv, UpdatesStayHome
  <2>3. AnswersOfRows'
    BY <1>9, UpdateAtHome DEF HomeInv, AnswersOfRows, UpdateWrite
  <2>4. QED
    BY <1>0, <2>1, <2>2, <2>3 DEF HomeInv
<1>10. ASSUME NEW a \in Admin, Invalidate(a) \/ PluginInvalidate(a)
       PROVE  HomeInv'
  <2>1. PICK S : cache' = Without(S)
    BY <1>10 DEF Invalidate, PluginInvalidate
  <2>2. admin' = [admin EXCEPT ![a] = Idle]
    BY <1>10 DEF Invalidate, PluginInvalidate
  <2>3. UpdatesStayHome'
    BY <1>0, <2>2 DEF HomeInv, UpdatesStayHome, TypeOK, Idle
  <2>4. AnswersOfRows'
    BY <1>10, <2>1 DEF Invalidate, PluginInvalidate, Without, HomeInv, AnswersOfRows, Homes
  <2>5. StaysHome'
    BY <1>10 DEF Invalidate, PluginInvalidate, HomeInv, StaysHome, Homes
  <2>6. QED
    BY <1>0, <2>3, <2>4, <2>5 DEF HomeInv
(* A step of a resolver keeps the rows and what the administrators do. *)
<1>11. ASSUME UNCHANGED <<binding, admin>>, AnswersOfRows'
       PROVE  HomeInv'
  BY <1>0, <1>11 DEF HomeInv, StaysHome, UpdatesStayHome, Homes
<1>12. ASSUME NEW r \in Resolver, NEW s \in Slot, ResolveFromCache(r, s)
       PROVE  HomeInv'
  BY <1>0, <1>11, <1>12 DEF ResolveFromCache, HomeInv, AnswersOfRows, Homes, TypeOK
<1>13. ASSUME NEW r \in Resolver, NEW s \in Slot, ResolveRead(r, s)
       PROVE  HomeInv'
  <2>1. s \in Homes
    BY <1>13, BoundToItself DEF ResolveRead, HomeInv
  <2>2. AnswersOfRows'
    BY <1>0, <1>13, <2>1 DEF ResolveRead, HomeInv, AnswersOfRows, Homes, TypeOK
  <2>3. QED
    BY <1>11, <1>13, <2>2 DEF ResolveRead
<1>14. ASSUME NEW r \in Resolver, ResolveCheck(r)
       PROVE  HomeInv'
  <2>1. AnswersOfRows'
    BY <1>0, <1>14 DEF ResolveCheck, HomeInv, AnswersOfRows, Homes, TypeOK
  <2>2. QED
    BY <1>11, <1>14, <2>1 DEF ResolveCheck
<1>15. ASSUME NEW r \in Resolver, ResolveFill(r)
       PROVE  HomeInv'
  <2>1. AnswersOfRows'
    BY <1>0, <1>15 DEF ResolveFill, HomeInv, AnswersOfRows, Homes, TypeOK
  <2>2. QED
    BY <1>11, <1>15, <2>1 DEF ResolveFill
<1>16. ASSUME NEW r \in Resolver, ResolveEnd(r)
       PROVE  HomeInv'
  BY <1>0, <1>11, <1>16 DEF ResolveEnd, HomeInv, AnswersOfRows, Homes, TypeOK, Idle
<1>17. ASSUME NEW s \in Slot, CacheExpire(s)
       PROVE  HomeInv'
  BY <1>11, <1>17 DEF CacheExpire, Without, HomeInv, AnswersOfRows, Homes
<1>18. CASE Restart
  BY <1>0, <1>18 DEF Restart, HomeInv, StaysHome, UpdatesStayHome, AnswersOfRows, Homes, Idle
<1>19. CASE UNCHANGED vars
  BY <1>0, <1>19 DEF vars, HomeInv, StaysHome, UpdatesStayHome, AnswersOfRows, Homes
<1>20. QED
  BY <1>2, <1>3, <1>4, <1>5, <1>6, <1>7, <1>8, <1>9, <1>10, <1>12, <1>13, <1>14,
     <1>15, <1>16, <1>17, <1>18, <1>19
  DEF Next, AdminRequest, AdminStep, ResolverStep

-----------------------------------------------------------------------------
(* The cache.                                                              *)

(* A row nobody writes keeps answering for its slot. *)
LEMMA CurrentOfKeptRow ==
  ASSUME HomeInv, StaysHome', NEW s \in Slot, NEW x,
         binding'[s] = binding[s], Current(s, x)
  PROVE  Current(s, x)'
BY DEF HomeInv, StaysHome, Current, BoundTo, Homes

(* An answer stays current while the row behind it stays. *)
LEMMA CurrentIfTableKept ==
  ASSUME UNCHANGED binding, NEW s, NEW x
  PROVE  Current(s, x)' <=> Current(s, x)
BY DEF Current, BoundTo, Homes

(* A write of one slot's row: that slot is now being invalidated, and the
   resolvers that had read the row are overtaken. *)
LEMMA WriteKeepsCacheInv ==
  ASSUME HomeInv, HomeInv', CacheInv,
         NEW a \in Admin, NEW s \in Slot,
         admin[a].step # "invalidate",
         \A c \in Slot \ {s} : binding'[c] = binding[c],
         \A c \in Admin \ {a} : admin'[c] = admin[c],
         admin'[a] = [step |-> "invalidate", slots |-> {s}],
         overtaken' = overtaken \cup InFlight({s}),
         UNCHANGED <<cache, resolver, suspect>>
  PROVE  CacheInv'
<1>1. Invalidating \subseteq Invalidating' /\ s \in Invalidating'
  BY DEF Invalidating
<1>2. ASSUME NEW c \in Slot, cache[c] # NoAnswer, ~Current(c, cache[c])'
      PROVE  c \in Invalidating' \cup suspect'
  <2>1. CASE c = s
    BY <2>1, <1>1
  <2>2. CASE c # s
    <3>1. ~Current(c, cache[c])
      BY <1>2, <2>2, CurrentOfKeptRow DEF HomeInv
    <3>2. QED
      BY <1>1, <1>2, <3>1 DEF CacheInv, CacheFollowsBindings
  <2>3. QED
    BY <2>1, <2>2
<1>3. CacheFollowsBindings'
  BY <1>2 DEF CacheFollowsBindings
<1>4. ASSUME NEW r \in Resolver, resolver[r].step \in {"check", "fill"},
             r \notin overtaken'
      PROVE  Current(resolver[r].slot, resolver[r].answer)'
  <2>1. resolver[r].slot # s /\ r \notin overtaken
    BY <1>4 DEF InFlight
  <2>2. resolver[r].slot \in Slot
    BY <1>4 DEF HomeInv, AnswersOfRows, Homes
  <2>3. Current(resolver[r].slot, resolver[r].answer)
    BY <1>4, <2>1 DEF CacheInv, FreshUnlessOvertaken
  <2>4. QED
    BY <2>1, <2>2, <2>3, CurrentOfKeptRow DEF HomeInv
<1>5. FreshUnlessOvertaken'
  BY <1>4 DEF FreshUnlessOvertaken
<1>6. QED
  BY <1>3, <1>5 DEF CacheInv

(* An empty cache agrees with every table. *)
LEMMA InitCache == Init => CacheInv
BY DEF Init, CacheInv, FreshUnlessOvertaken, CacheFollowsBindings, Idle

(* Every write that makes an entry stale is followed by its invalidation. *)
LEMMA NextCache == HomeInv /\ HomeInv' /\ CacheInv /\ [Next]_vars => CacheInv'
<1> SUFFICES ASSUME HomeInv, HomeInv', CacheInv, [Next]_vars
             PROVE  CacheInv'
  OBVIOUS
<1> USE DEF history
<1>0. TypeOK
  BY DEF HomeInv, TypeInv
(* Steps that leave the rows, the answers and what is to be invalidated alone. *)
<1>1. ASSUME UNCHANGED <<binding, cache, resolver, history>>,
             Invalidating \subseteq Invalidating'
      PROVE  CacheInv'
  BY <1>1, CurrentIfTableKept DEF CacheInv, FreshUnlessOvertaken, CacheFollowsBindings
<1>2. ASSUME NEW a \in Admin, admin[a].step # "invalidate",
             \A c \in Admin \ {a} : admin'[c] = admin[c]
      PROVE  Invalidating \subseteq Invalidating'
  BY <1>2 DEF Invalidating
<1>3. ASSUME NEW a \in Admin, AdminRequest(a) \/ AdminGivesUp(a)
      PROVE  CacheInv'
  <2>1. admin[a] = Idle \/ admin[a].step \in {"insert", "update"}
    BY <1>3
    DEF AdminRequest, UpsertRead, UpsertAbsent, PatchRead, DisableRead, PluginLifecycle,
        AdminGivesUp
  <2>2. \E x : admin' = [admin EXCEPT ![a] = x]
    BY <1>3
    DEF AdminRequest, UpsertRead, UpsertAbsent, PatchRead, DisableRead, PluginLifecycle,
        AdminGivesUp
  <2>3. admin[a].step # "invalidate" /\ \A c \in Admin \ {a} : admin'[c] = admin[c]
    BY <1>0, <2>1, <2>2 DEF Idle, TypeOK
  <2>4. UNCHANGED <<binding, cache, resolver, history>>
    BY <1>3
    DEF AdminRequest, UpsertRead, UpsertAbsent, PatchRead, DisableRead, PluginLifecycle,
        AdminGivesUp
  <2>5. QED
    BY <1>1, <1>2, <2>3, <2>4
<1>4. ASSUME NEW a \in Admin, InsertWrite(a)
      PROVE  CacheInv'
  <2>1. \A c \in Admin \ {a} : admin'[c] = admin[c]
    BY <1>0, <1>4 DEF InsertWrite, TypeOK
  <2>2. admin[a].step # "invalidate" /\ UNCHANGED <<cache, resolver, suspect>>
    BY <1>4 DEF InsertWrite
  <2>3. QED
    BY <1>4, <2>1, <2>2, InsertAtHome, WriteKeepsCacheInv
<1>5. ASSUME NEW a \in Admin, UpdateWrite(a)
      PROVE  CacheInv'
  <2>1. \A c \in Admin \ {a} : admin'[c] = admin[c]
    BY <1>0, <1>5 DEF UpdateWrite, TypeOK
  <2>2. admin[a].step # "invalidate" /\ UNCHANGED <<cache, resolver, suspect>>
    BY <1>5 DEF UpdateWrite
  <2>3. QED
    BY <1>5, <2>1, <2>2, UpdateAtHome, WriteKeepsCacheInv
<1>6. ASSUME NEW a \in Admin, Invalidate(a)
      PROVE  CacheInv'
  <2>1. \A c \in Admin \ {a} : admin'[c] = admin[c]
    BY <1>0, <1>6 DEF Invalidate, TypeOK
  <2>2. Invalidating \subseteq Invalidating' \cup admin[a].slots
    BY <2>1 DEF Invalidating
  <2>3. cache' = Without(admin[a].slots) /\ UNCHANGED <<binding, resolver, history>>
    BY <1>6 DEF Invalidate, InvalidatedSlots
  <2>4. CacheFollowsBindings'
    BY <2>2, <2>3, CurrentIfTableKept DEF CacheInv, CacheFollowsBindings, Without
  <2>5. QED
    BY <2>3, <2>4, CurrentIfTableKept DEF CacheInv, FreshUnlessOvertaken
(* Entries may go at any time. *)
<1>7. ASSUME NEW S, cache' = Without(S), UNCHANGED <<binding, resolver, history>>,
             Invalidating \subseteq Invalidating'
      PROVE  CacheInv'
  BY <1>7, CurrentIfTableKept
  DEF CacheInv, FreshUnlessOvertaken, CacheFollowsBindings, Without
<1>8. ASSUME NEW a \in Admin, PluginInvalidate(a)
      PROVE  CacheInv'
  <2>1. \A c \in Admin \ {a} : admin'[c] = admin[c]
    BY <1>0, <1>8 DEF PluginInvalidate, TypeOK
  <2>2. admin[a].step # "invalidate"
    BY <1>8 DEF PluginInvalidate
  <2>3. PICK S : cache' = Without(S)
    BY <1>8 DEF PluginInvalidate
  <2>4. QED
    BY <1>2, <1>7, <1>8, <2>1, <2>2, <2>3 DEF PluginInvalidate
<1>9. ASSUME NEW s \in Slot, CacheExpire(s)
      PROVE  CacheInv'
  <2>1. Invalidating' = Invalidating
    BY <1>9 DEF CacheExpire, Invalidating
  <2>2. QED
    BY <1>7, <1>9, <2>1 DEF CacheExpire
<1>10. CASE Restart
  <2>1. \A s \in Slot : cache'[s] = NoAnswer
    BY <1>10 DEF Restart
  <2>2. \A r \in Resolver : resolver'[r].step = "idle"
    BY <1>10 DEF Restart, Idle
  <2>3. QED
    BY <2>1, <2>2 DEF CacheInv, FreshUnlessOvertaken, CacheFollowsBindings
<1>11. ASSUME NEW r \in Resolver, NEW s \in Slot, ResolveFromCache(r, s)
       PROVE  CacheInv'
  <2>1. CacheFollowsBindings'
    BY <1>11, CurrentIfTableKept
    DEF ResolveFromCache, CacheInv, CacheFollowsBindings, Invalidating
  <2>2. FreshUnlessOvertaken'
    BY <1>0, <1>11, CurrentIfTableKept
    DEF ResolveFromCache, CacheInv, FreshUnlessOvertaken, TypeOK
  <2>3. QED
    BY <2>1, <2>2 DEF CacheInv
<1>12. ASSUME NEW r \in Resolver, NEW s \in Slot, ResolveRead(r, s)
       PROVE  CacheInv'
  <2>1. CacheFollowsBindings'
    BY <1>12, CurrentIfTableKept
    DEF ResolveRead, CacheInv, CacheFollowsBindings, Invalidating
  <2>2. Current(resolver'[r].slot, resolver'[r].answer) /\ UNCHANGED binding
    BY <1>0, <1>12 DEF ResolveRead, Current, TypeOK
  <2>3. \A q \in Resolver \ {r} : resolver'[q] = resolver[q]
                                  /\ (q \in overtaken' <=> q \in overtaken)
    BY <1>0, <1>12 DEF ResolveRead, TypeOK
  <2>4. FreshUnlessOvertaken'
    BY <2>2, <2>3, CurrentIfTableKept DEF CacheInv, FreshUnlessOvertaken
  <2>5. QED
    BY <2>1, <2>4 DEF CacheInv
<1>13. ASSUME NEW r \in Resolver, ResolveCheck(r)
       PROVE  CacheInv'
  <2>1. CacheFollowsBindings'
    BY <1>13, CurrentIfTableKept
    DEF ResolveCheck, CacheInv, CacheFollowsBindings, Invalidating
  <2>2. /\ resolver'[r].slot = resolver[r].slot /\ resolver'[r].answer = resolver[r].answer
        /\ resolver[r].step \in {"check", "fill"}
        /\ \A q \in Resolver \ {r} : resolver'[q] = resolver[q]
    BY <1>0, <1>13 DEF ResolveCheck, TypeOK
  <2>3. FreshUnlessOvertaken'
    BY <1>13, <2>2, CurrentIfTableKept DEF ResolveCheck, CacheInv, FreshUnlessOvertaken
  <2>4. QED
    BY <2>1, <2>3 DEF CacheInv
<1>14. ASSUME NEW r \in Resolver, ResolveFill(r)
       PROVE  CacheInv'
  <2> DEFINE s == resolver[r].slot
             x == resolver[r].answer
  <2>1. /\ s \in Slot /\ UNCHANGED <<binding, overtaken>>
        /\ resolver[r].step = "fill"
        /\ cache' = [cache EXCEPT ![s] = x]
        /\ suspect' = IF r \in overtaken THEN suspect \cup {s} ELSE suspect \ {s}
    BY <1>14 DEF ResolveFill, HomeInv, AnswersOfRows, Homes
  <2>2. r \notin overtaken => Current(s, x)
    BY <2>1 DEF CacheInv, FreshUnlessOvertaken
  <2>3. Invalidating' = Invalidating
    BY <1>14 DEF ResolveFill, Invalidating
  <2>4. CacheFollowsBindings'
    BY <1>0, <2>1, <2>2, <2>3, CurrentIfTableKept DEF CacheInv, CacheFollowsBindings, TypeOK
  <2>5. /\ resolver'[r].step = "resolved"
        /\ \A q \in Resolver \ {r} : resolver'[q] = resolver[q]
    BY <1>0, <1>14 DEF ResolveFill, TypeOK
  <2>6. FreshUnlessOvertaken'
    BY <2>1, <2>5, CurrentIfTableKept DEF CacheInv, FreshUnlessOvertaken
  <2>7. QED
    BY <2>4, <2>6 DEF CacheInv
<1>15. ASSUME NEW r \in Resolver, ResolveEnd(r)
       PROVE  CacheInv'
  <2>1. CacheFollowsBindings'
    BY <1>15, CurrentIfTableKept
    DEF ResolveEnd, CacheInv, CacheFollowsBindings, Invalidating
  <2>2. FreshUnlessOvertaken'
    BY <1>0, <1>15, CurrentIfTableKept
    DEF ResolveEnd, CacheInv, FreshUnlessOvertaken, TypeOK, Idle
  <2>3. QED
    BY <2>1, <2>2 DEF CacheInv
<1>16. CASE UNCHANGED vars
  <2>1. Invalidating' = Invalidating
    BY <1>16 DEF vars, Invalidating
  <2>2. QED
    BY <1>1, <1>16, <2>1 DEF vars
<1>17. QED
  BY <1>3, <1>4, <1>5, <1>6, <1>8, <1>9, <1>10, <1>11, <1>12, <1>13, <1>14, <1>15, <1>16
  DEF Next, AdminStep, ResolverStep

-----------------------------------------------------------------------------
(* The epochs.                                                             *)

(* What StaleIsDetectable says of one answer and one row. *)
Detectable(s, x, b) ==
  /\ x.epoch <= binding[b].epoch
  /\ x.epoch = binding[b].epoch => Current(s, x)

(* Where answers can be found. *)
LEMMA AnswerPlaces ==
  ASSUME NEW s \in Slot, NEW x
  PROVE  x \in Answers(s) <=>
           \/ x = cache[s] /\ x # NoAnswer
           \/ \E r \in Resolver : /\ resolver[r].step # "idle"
                                  /\ resolver[r].slot = s
                                  /\ resolver[r].answer = x
BY DEF Answers

(* The answers the proof compares have epochs. *)
LEMMA AnswerTypes ==
  ASSUME TypeOK, NEW s \in Slot, NEW x \in Answers(s)
  PROVE  x \in Answer
<1>1. CASE x = cache[s] /\ x # NoAnswer
  BY <1>1 DEF TypeOK
<1>2. ASSUME NEW r \in Resolver, resolver[r].step # "idle", resolver[r].answer = x
      PROVE  x \in Answer
  BY <1>2, ResolverTaskShape DEF TypeOK, ResolveTask
<1>3. QED
  BY <1>1, <1>2, AnswerPlaces

(* Steps that leave the rows alone and answer nothing new. *)
LEMMA NothingNew ==
  ASSUME HomeInv, StaleIsDetectable, UNCHANGED binding,
         \A s \in Slot : \A x \in Answers(s)' : x \in Answers(s) \/ Current(s, x)
  PROVE  StaleIsDetectable'
<1> SUFFICES ASSUME NEW s \in Slot, NEW x \in Answers(s)', NEW b \in BoundTo(s)'
             PROVE  Detectable(s, x, b)'
  BY DEF StaleIsDetectable, Detectable
<1>1. b \in BoundTo(s) /\ binding[b] \in Row
  BY DEF BoundTo, Homes, HomeInv, TypeInv, TypeOK
<1>2. CASE x \in Answers(s)
  BY <1>1, <1>2, CurrentIfTableKept DEF StaleIsDetectable, Detectable
<1>3. CASE Current(s, x)
  <2>1. x.epoch = binding[b].epoch
    BY <1>1, <1>3, BoundToItself DEF Current, HomeInv
  <2>2. QED
    BY <1>1, <1>3, <2>1, RowFields, CurrentIfTableKept DEF Detectable
<1>4. QED
  BY <1>2, <1>3

(* The next row of a slot has an epoch above every answer about the slot. *)
LEMMA WriteKeepsDetectable ==
  ASSUME HomeInv, HomeInv', StaleIsDetectable, UNCHANGED <<cache, resolver>>,
         NEW s \in Slot,
         \A c \in Slot \ {s} : binding'[c] = binding[c],
         s \in Homes => binding'[s].epoch = binding[s].epoch + 1
  PROVE  StaleIsDetectable'
<1> SUFFICES ASSUME NEW c \in Slot, NEW x \in Answers(c)', NEW b \in BoundTo(c)'
             PROVE  Detectable(c, x, b)'
  BY DEF StaleIsDetectable, Detectable
<1>1. b = c /\ x \in Answers(c)
  <2>1. b \in Homes' /\ binding'[b].slot = c
    BY DEF BoundTo
  <2>2. b = c
    BY <2>1 DEF HomeInv, StaysHome
  <2>3. QED
    BY <2>2 DEF Answers
<1>2. c \in Homes
  BY <1>1, AnswerPlaces DEF HomeInv, AnswersOfRows
<1>3. c \in BoundTo(c)
  BY <1>2, BoundToItself DEF HomeInv
<1>4. Detectable(c, x, c)
  BY <1>1, <1>3 DEF StaleIsDetectable, Detectable
<1>5. CASE c = s
  <2>1. x.epoch \in Nat /\ binding[c].epoch \in Nat
    BY <1>1, <1>2, AnswerTypes, RowFields DEF HomeInv, TypeInv, TypeOK, Homes, Answer
  <2>2. x.epoch < binding'[c].epoch
    BY <1>2, <1>4, <1>5, <2>1 DEF Detectable
  <2>3. binding'[c].epoch = binding[c].epoch + 1
    BY <1>2, <1>5
  <2>4. QED
    BY <1>1, <2>1, <2>2, <2>3 DEF Detectable
<1>6. CASE c # s
  BY <1>1, <1>4, <1>6, CurrentOfKeptRow DEF Detectable, HomeInv
<1>7. QED
  BY <1>5, <1>6

(* At first nobody has an answer. *)
LEMMA InitStale == Init => StaleIsDetectableIfSerial
BY DEF Init, StaleIsDetectableIfSerial, StaleIsDetectable, BoundTo, Homes

(* Every serial update raises the epoch above that of the answers given before. *)
LEMMA NextStale ==
  HomeInv /\ HomeInv' /\ StaleIsDetectableIfSerial /\ [Next]_vars
    => StaleIsDetectableIfSerial'
<1> SUFFICES ASSUME HomeInv, HomeInv', StaleIsDetectableIfSerial, [Next]_vars,
                    ~lostUpdate'
             PROVE  StaleIsDetectable'
  BY DEF StaleIsDetectableIfSerial
<1> USE DEF history
<1>0. TypeOK
  BY DEF HomeInv, TypeInv
<1>1. ASSUME ~lostUpdate, UNCHANGED binding,
             \A s \in Slot : cache'[s] \in {cache[s], NoAnswer},
             \A r \in Resolver : resolver'[r] \in {resolver[r], Idle}
      PROVE  StaleIsDetectable'
  <2>1. \A s \in Slot : \A x \in Answers(s)' : x \in Answers(s)
    BY <1>1 DEF Answers, Idle
  <2>2. QED
    BY <1>1, <2>1, NothingNew DEF StaleIsDetectableIfSerial
<1>2. ASSUME NEW a \in Admin, AdminRequest(a) \/ AdminGivesUp(a)
      PROVE  StaleIsDetectable'
  <2>1. UNCHANGED <<binding, cache, resolver, lostUpdate>>
    BY <1>2
    DEF AdminRequest, UpsertRead, UpsertAbsent, PatchRead, DisableRead, PluginLifecycle,
        AdminGivesUp
  <2>2. QED
    BY <1>1, <2>1
<1>3. ASSUME NEW a \in Admin, InsertWrite(a)
      PROVE  StaleIsDetectable'
  <2>1. UNCHANGED <<cache, resolver, lostUpdate>>
    BY <1>3 DEF InsertWrite
  <2>2. QED
    BY <1>3, <2>1, InsertAtHome, WriteKeepsDetectable DEF StaleIsDetectableIfSerial
<1>4. ASSUME NEW a \in Admin, UpdateWrite(a)
      PROVE  StaleIsDetectable'
  <2>1. UNCHANGED <<cache, resolver>>
    BY <1>4 DEF UpdateWrite
  <2>2. ~lostUpdate /\ admin[a].seen = binding[admin[a].home].epoch
    BY <1>4, UpdateAtHome
  <2>3. QED
    BY <1>4, <2>1, <2>2, UpdateAtHome, WriteKeepsDetectable DEF StaleIsDetectableIfSerial
<1>5. ASSUME NEW S, cache' = Without(S), UNCHANGED <<binding, resolver, lostUpdate>>
      PROVE  StaleIsDetectable'
  BY <1>1, <1>5 DEF Without
<1>6. ASSUME NEW a \in Admin, Invalidate(a) \/ PluginInvalidate(a)
      PROVE  StaleIsDetectable'
  BY <1>5, <1>6 DEF Invalidate, PluginInvalidate
<1>7. ASSUME NEW s \in Slot, CacheExpire(s)
      PROVE  StaleIsDetectable'
  BY <1>5, <1>7 DEF CacheExpire
<1>8. CASE Restart
  BY <1>0, <1>1, <1>8 DEF Restart
<1>9. ASSUME NEW r \in Resolver, NEW s \in Slot, ResolveFromCache(r, s)
      PROVE  StaleIsDetectable'
  <2>1. \A c \in Slot : \A x \in Answers(c)' : x \in Answers(c)
    BY <1>0, <1>9, AnswerPlaces DEF ResolveFromCache, TypeOK, Answers
  <2>2. QED
    BY <1>9, <2>1, NothingNew DEF ResolveFromCache, StaleIsDetectableIfSerial
<1>10. ASSUME NEW r \in Resolver, NEW s \in Slot, ResolveRead(r, s)
       PROVE  StaleIsDetectable'
  <2>1. Current(s, resolver'[r].answer) /\ resolver'[r].slot = s
    BY <1>0, <1>10 DEF ResolveRead, Current, TypeOK
  <2>2. \A q \in Resolver \ {r} : resolver'[q] = resolver[q]
    BY <1>0, <1>10 DEF ResolveRead, TypeOK
  <2>3. \A c \in Slot : \A x \in Answers(c)' : x \in Answers(c) \/ Current(c, x)
    BY <1>10, <2>1, <2>2 DEF ResolveRead, Answers
  <2>4. QED
    BY <1>10, <2>3, NothingNew DEF ResolveRead, StaleIsDetectableIfSerial
<1>11. ASSUME NEW r \in Resolver, ResolveCheck(r)
       PROVE  StaleIsDetectable'
  <2>1. \A c \in Slot : \A x \in Answers(c)' : x \in Answers(c)
    BY <1>0, <1>11 DEF ResolveCheck, Answers, TypeOK
  <2>2. QED
    BY <1>11, <2>1, NothingNew DEF ResolveCheck, StaleIsDetectableIfSerial
<1>12. ASSUME NEW r \in Resolver, ResolveFill(r)
       PROVE  StaleIsDetectable'
  <2>1. \A c \in Slot : \A x \in Answers(c)' : x \in Answers(c)
    BY <1>0, <1>12 DEF ResolveFill, Answers, TypeOK
  <2>2. QED
    BY <1>12, <2>1, NothingNew DEF ResolveFill, StaleIsDetectableIfSerial
<1>13. ASSUME NEW r \in Resolver, ResolveEnd(r)
       PROVE  StaleIsDetectable'
  BY <1>0, <1>1, <1>13 DEF ResolveEnd, TypeOK
<1>14. CASE UNCHANGED vars
  BY <1>1, <1>14 DEF vars
<1>15. QED
  BY <1>2, <1>3, <1>4, <1>6, <1>7, <1>8, <1>9, <1>10, <1>11, <1>12, <1>13, <1>14
  DEF Next, AdminStep, ResolverStep

-----------------------------------------------------------------------------
(* What capabilityProviderCache may hold when bindings are not moved between
   slots: an entry that contradicts the table is about to be invalidated, or
   was filled by a resolver that an administrator's write overtook. *)
THEOREM CacheIsCoherent ==
  ASSUME ~Moves
  PROVE  Spec => []CacheFollowsBindings
<1>1. Init => HomeInv /\ CacheInv
  BY InitHome, InitCache
<1>2. (HomeInv /\ CacheInv) /\ [Next]_vars => (HomeInv /\ CacheInv)'
  BY NextHome, NextCache
<1>3. HomeInv /\ CacheInv => CacheFollowsBindings
  BY DEF CacheInv
<1>4. QED
  BY <1>1, <1>2, <1>3, PTL DEF Spec

(* What introspection relies on when it compares epochs, when bindings are not
   moved between slots: until an administrator's update is lost to another's, no
   answer passes for current that is not. *)
THEOREM EpochsTellStaleAnswers ==
  ASSUME ~Moves
  PROVE  Spec => []StaleIsDetectableIfSerial
<1>1. Init => HomeInv /\ StaleIsDetectableIfSerial
  BY InitHome, InitStale
<1>2. (HomeInv /\ StaleIsDetectableIfSerial) /\ [Next]_vars
        => (HomeInv /\ StaleIsDetectableIfSerial)'
  BY NextHome, NextStale
<1>3. QED
  BY <1>1, <1>2, PTL DEF Spec
=============================================================================

---------------------------- MODULE SessionsProofs ----------------------------
(***************************************************************************)
(* Proofs about Sessions: what an answered password change or logout has   *)
(* ended stays ended, a user's password and status change unasked only by  *)
(* a writer that was overtaken, and a lock of the login limiter is lifted  *)
(* early only by a login that was past it already.                         *)
(***************************************************************************)
EXTENDS Sessions, TLAPS

LoginStages == {"read user", "record failure", "reset attempts", "rehash", "open session"}

(* A call is at a stage of its own handler. *)
StagesFitRequests ==
  \A c \in SessionCall :
    /\ sessionTask[c].stage \in LoginStages => Kind(c) = "login"
    /\ sessionTask[c].stage \in {"check owner", "rotate"} => Kind(c) = "refresh"
    /\ sessionTask[c].stage \in {"write user", "revoke"} => Kind(c) = "patch"

(* The rows of users are never deleted, so one that was read is still there. *)
ReadUsersExist ==
  \A c \in SessionCall :
    sessionTask[c].stage \in {"reset attempts", "rehash", "open session", "write user",
                              "revoke"} =>
      user[Target(c)] # NoUser /\ sessionTask[c].seen # NoUser

(* The sessions a call holds are rows, and rows are of calls that have ended. *)
HeldSessionsExist ==
  \A c \in SessionCall :
    /\ sessionTask[c].found \subseteq Opened
    /\ sessionTask[c].ended \subseteq Opened
    /\ session[c] # NoSession => At(c, "ok")

(* What a password change has undertaken to end is ended, or is found by the
   UPDATE it has still to make. *)
EndingIsUnderWay ==
  \A c \in SessionCall :
    /\ sessionTask[c].stage \notin {"ok", "revoke", "failed"} => sessionTask[c].ended = {}
    /\ At(c, "revoke") =>
         \A s \in sessionTask[c].ended : session[s].revoked \/ session[s].user = Target(c)
    /\ At(c, "ok") => \A s \in sessionTask[c].ended : session[s].revoked

(* A call nobody has overtaken holds the row as it is, and a login that has
   verified its password holds a row with that password. *)
UnracedRowsAreFresh ==
  \A c \in SessionCall :
    /\ sessionTask[c].stage \in {"reset attempts", "rehash", "write user"} =>
         sessionTask[c].raced \/ sessionTask[c].seen = user[Target(c)]
    /\ sessionTask[c].stage \in {"reset attempts", "rehash"} =>
         sessionTask[c].seen.password = SessionRequest[c].password

(* A lock in force knows every login that is past the limiter with its key. *)
LocksKnowWhoPassed ==
  \A k \in Key : InForce(attempts[k]) => PastLimiter(k) \subseteq attempts[k].passed

IInv ==
  /\ SessionsTypeOK
  /\ StagesFitRequests
  /\ ReadUsersExist
  /\ HeldSessionsExist
  /\ EndingIsUnderWay
  /\ UnracedRowsAreFresh
  /\ LocksKnowWhoPassed

-----------------------------------------------------------------------------
(* What a request carries, by its kind. *)
LEMMA SessionRequestFields ==
  ASSUME NEW c \in SessionCall
  PROVE  /\ Kind(c) = "login" =>
              /\ Target(c) \in User
              /\ SessionRequest[c].password \in Password
              /\ SessionRequest[c].address \in Address
         /\ Kind(c) \in {"refresh", "logout"} => SessionRequest[c].pair \in SessionCall
         /\ Kind(c) = "patch" =>
              /\ Target(c) \in User
              /\ SessionRequest[c].password \in Password \cup {Keep}
              /\ SessionRequest[c].status \in UserStatus \cup {Keep}
         /\ Kind(c) = "status" => Target(c) \in User /\ SessionRequest[c].status \in UserStatus
         /\ Kind(c) = "register" =>
              Target(c) \in User /\ SessionRequest[c].password \in Password
         /\ Kind(c) = "create" =>
              /\ Target(c) \in User
              /\ SessionRequest[c].password \in Password
              /\ SessionRequest[c].status \in UserStatus
  BY SessionsAssumption
  DEF SessionsAssumption, Kind, Target, Login, PairRequest, Patch, SetStatus, Registration,
      Creation

(* No row is mistaken for its absence. *)
LEMMA RowsArePresent ==
  /\ \A r \in UserRow : r # NoUser
  /\ \A r \in Row : r # NoSession
  /\ \A r \in Attempts : r # NoAttempts
<1>1. \A r \in UserRow : r.status # NoUser.status
  BY DEF UserRow, NoUser, UserStatus
<1>2. \A r \in Row : DOMAIN r # DOMAIN NoSession
  <2>1. DOMAIN NoSession = {"pair"}  BY DEF NoSession
  <2>2. \A r \in Row : "user" \in DOMAIN r  BY DEF Row
  <2> QED  BY <2>1, <2>2
<1>3. \A r \in Attempts : r.failures # NoAttempts.failures
  BY DEF Attempts, NoAttempts
<1> QED  BY <1>1, <1>2, <1>3

(* The initial state satisfies the invariant. *)
LEMMA InitEstablishes == ClockInit /\ SessionsInit => IInv
<1> SUFFICES ASSUME ClockInit, SessionsInit  PROVE IInv
  OBVIOUS
<1> USE SessionsAssumption DEF ClockInit, SessionsInit
<1>1. SessionsTypeOK
  BY DEF SessionsTypeOK, Progress, Stage, SessionsAssumption
<1>2. StagesFitRequests /\ ReadUsersExist /\ EndingIsUnderWay /\ UnracedRowsAreFresh
  BY DEF StagesFitRequests, ReadUsersExist, EndingIsUnderWay, UnracedRowsAreFresh, LoginStages,
         At
<1>3. HeldSessionsExist
  BY DEF HeldSessionsExist, Opened
<1>4. LocksKnowWhoPassed
  BY DEF LocksKnowWhoPassed, InForce
<1> QED  BY <1>1, <1>2, <1>3, <1>4 DEF IInv
-----------------------------------------------------------------------------
(* The step of one call, and what every step has in common.                *)

CallStep(c) == SessionStep(c) \/ \E opens \in BOOLEAN : RegisterUser(c, opens)

(* Only the call whose step it is moves, and what it leaves behind is gone. *)
LEMMA OneCallMoves ==
  ASSUME SessionsTypeOK, NEW c \in SessionCall, CallStep(c)
  PROVE  /\ \A d \in SessionCall \ {c} :
              /\ sessionTask'[d].stage = sessionTask[d].stage
              /\ sessionTask'[d].seen = sessionTask[d].seen
              /\ sessionTask'[d].found = sessionTask[d].found
              /\ sessionTask'[d].ended = sessionTask[d].ended
              /\ sessionTask[d].raced => sessionTask'[d].raced
         /\ now' = now
<1> USE DEF SessionsTypeOK, Progress
<1>1. CASE \E u, p : GoWriting(c, u, p) /\ now' = now
  BY <1>1 DEF GoWriting
<1>2. CASE \E st \in Stage : Go(c, st) /\ now' = now
  BY <1>2 DEF Go
<1>3. CheckLimiter(c) \/ RecordFailure(c) \/ ResetAttempts(c) \/ OpenSession(c)
      \/ CheckOwner(c) \/ Rotate(c) \/ RevokeSessions(c) \/ StatementFails(c)
      => \E st \in Stage : Go(c, st) /\ now' = now
  BY DEF CheckLimiter, RecordFailure, ResetAttempts, OpenSession, CheckOwner, Rotate,
         RevokeSessions, StatementFails, Stage
<1>4. Rehash(c) \/ WritePatch(c) \/ (\E opens \in BOOLEAN : RegisterUser(c, opens))
      => \E u, p : GoWriting(c, u, p) /\ now' = now
  BY Zenon DEF Rehash, WritePatch, RegisterUser
<1>5. ASSUME WriteStatus(c) \/ CreateUser(c)
      PROVE  \/ \E u, p : GoWriting(c, u, p) /\ now' = now
             \/ \E st \in Stage : Go(c, st) /\ now' = now
  <2>1. "refused" \in Stage  BY DEF Stage
  <2> QED  BY Zenon, <1>5, <2>1 DEF WriteStatus, CreateUser
<1>6. CASE ReadLogin(c) \/ LookUp(c) \/ ReadPatch(c)
  BY <1>6 DEF ReadLogin, LookUp, ReadPatch
<1>7. CASE LogOut(c)
  BY <1>7 DEF LogOut, Go
<1> QED
  BY <1>1, <1>2, <1>3, <1>4, <1>5, <1>6, <1>7 DEF CallStep, SessionStep

-----------------------------------------------------------------------------
(* What the call holds after its step: the stage it has come to, the row of a
   user, the sessions it looked up, and those it has undertaken to end. *)
Holds(c, stage, row, found, ended) ==
  /\ sessionTask'[c].stage = stage
  /\ sessionTask'[c].seen = row
  /\ sessionTask'[c].found = found
  /\ sessionTask'[c].ended = ended
  /\ sessionTask'[c].raced = sessionTask[c].raced

LEMMA WhereACallGoes ==
  ASSUME SessionsTypeOK, NEW c \in SessionCall
  PROVE
    LET t == sessionTask[c]
        HoldsStill(stage) == Holds(c, stage, t.seen, t.found, t.ended)
    IN /\ CheckLimiter(c) =>
            HoldsStill(IF Throttled(c) THEN "refused" ELSE "read user")
       /\ ReadLogin(c) =>
            Holds(c, IF Verified(c) THEN "reset attempts" ELSE "record failure",
                  user[Target(c)], t.found, t.ended)
       /\ RecordFailure(c) => HoldsStill("refused")
       /\ ResetAttempts(c) => HoldsStill(IF t.seen.legacy THEN "rehash" ELSE "open session")
       /\ Rehash(c) => HoldsStill("open session")
       /\ OpenSession(c) => HoldsStill("ok") \/ (HoldsStill("refused") /\ UNCHANGED session)
       /\ LookUp(c) =>
            LET found == Refreshable(SessionRequest[c].pair)
            IN Holds(c, IF found = {} THEN "refused" ELSE "check owner", t.seen, found, t.ended)
       /\ CheckOwner(c) => HoldsStill("rotate") \/ HoldsStill("refused")
       /\ Rotate(c) => HoldsStill("ok")
       /\ LogOut(c) =>
            LET found == Holding(SessionRequest[c].pair)
            IN \/ Revoke(found) /\ Holds(c, "ok", t.seen, t.found, found)
               \/ UNCHANGED session /\ HoldsStill("ok")
       /\ ReadPatch(c) =>
            Holds(c, IF user[Target(c)] = NoUser THEN "refused" ELSE "write user",
                  user[Target(c)], t.found, t.ended)
       /\ WritePatch(c) =>
            IF NewPassword(c) THEN Holds(c, "revoke", t.seen, t.found, Unrevoked(Target(c)))
            ELSE Holds(c, "ok", t.seen, t.found, {})
       /\ RevokeSessions(c) => HoldsStill("ok")
       /\ WriteStatus(c) \/ CreateUser(c) => HoldsStill("ok") \/ HoldsStill("refused")
       /\ \A opens \in BOOLEAN : RegisterUser(c, opens) => HoldsStill("ok")
       /\ StatementFails(c) => HoldsStill("failed")
<1> DEFINE t == sessionTask[c]
           HoldsStill(stage) == Holds(c, stage, t.seen, t.found, t.ended)
<1>1. /\ \A st : Go(c, st) => HoldsStill(st)
      /\ \A u, st : GoWriting(c, u, [sessionTask[c] EXCEPT !.stage = st]) => HoldsStill(st)
  BY DEF Go, GoWriting, Holds, SessionsTypeOK, Progress
<1>a. \A st, set : GoWriting(c, Target(c), [sessionTask[c] EXCEPT !.stage = st, !.ended = set]) =>
        Holds(c, st, t.seen, t.found, set)
  <2> TAKE st, set
  <2> DEFINE p == [sessionTask[c] EXCEPT !.stage = st, !.ended = set]
  <2>1. GoWriting(c, Target(c), p) => sessionTask'[c] = p
    BY DEF GoWriting
  <2>2. /\ p.stage = st /\ p.ended = set /\ p.seen = t.seen /\ p.found = t.found
        /\ p.raced = t.raced
    BY DEF SessionsTypeOK, Progress
  <2> QED  BY <2>1, <2>2 DEF Holds
<1>b. \A st, row : sessionTask' = [sessionTask EXCEPT ![c].stage = st, ![c].seen = row] =>
        Holds(c, st, row, t.found, t.ended)
  BY DEF Holds, SessionsTypeOK, Progress
<1>c. \A st, set : sessionTask' = [sessionTask EXCEPT ![c].stage = st, ![c].found = set] =>
        Holds(c, st, t.seen, set, t.ended)
  BY DEF Holds, SessionsTypeOK, Progress
<1> USE <1>1
<1>2. CheckLimiter(c) => HoldsStill(IF Throttled(c) THEN "refused" ELSE "read user")
  BY DEF CheckLimiter
<1>3. ReadLogin(c) =>
        Holds(c, IF Verified(c) THEN "reset attempts" ELSE "record failure",
              user[Target(c)], t.found, t.ended)
  BY <1>b DEF ReadLogin
<1>4. RecordFailure(c) => HoldsStill("refused")
  BY DEF RecordFailure
<1>5. ResetAttempts(c) => HoldsStill(IF t.seen.legacy THEN "rehash" ELSE "open session")
  BY DEF ResetAttempts
<1>6. Rehash(c) => HoldsStill("open session")
  BY DEF Rehash
<1>7. OpenSession(c) => HoldsStill("ok") \/ (HoldsStill("refused") /\ UNCHANGED session)
  BY DEF OpenSession
<1>8. LookUp(c) =>
        LET found == Refreshable(SessionRequest[c].pair)
        IN Holds(c, IF found = {} THEN "refused" ELSE "check owner", t.seen, found, t.ended)
  BY <1>c DEF LookUp
<1>9. CheckOwner(c) => HoldsStill("rotate") \/ HoldsStill("refused")
  BY DEF CheckOwner
<1>10. Rotate(c) => HoldsStill("ok")
  BY DEF Rotate
<1>11. LogOut(c) =>
         LET found == Holding(SessionRequest[c].pair)
         IN \/ Revoke(found) /\ Holds(c, "ok", t.seen, t.found, found)
            \/ UNCHANGED session /\ HoldsStill("ok")
  BY DEF LogOut, Holds, SessionsTypeOK, Progress
<1>12. ReadPatch(c) =>
         Holds(c, IF user[Target(c)] = NoUser THEN "refused" ELSE "write user",
               user[Target(c)], t.found, t.ended)
  BY <1>b DEF ReadPatch
<1>13. WritePatch(c) =>
         IF NewPassword(c) THEN Holds(c, "revoke", t.seen, t.found, Unrevoked(Target(c)))
         ELSE Holds(c, "ok", t.seen, t.found, {})
  BY <1>a DEF WritePatch
<1>14. RevokeSessions(c) => HoldsStill("ok")
  BY DEF RevokeSessions
<1>15. WriteStatus(c) \/ CreateUser(c) => HoldsStill("ok") \/ HoldsStill("refused")
  BY DEF WriteStatus, CreateUser
<1>16. \A opens \in BOOLEAN : RegisterUser(c, opens) => HoldsStill("ok")
  BY DEF RegisterUser
<1>17. StatementFails(c) => HoldsStill("failed")
  BY DEF StatementFails
<1> QED
  BY <1>2, <1>3, <1>4, <1>5, <1>6, <1>7, <1>8, <1>9, <1>10, <1>11, <1>12, <1>13, <1>14, <1>15,
     <1>16, <1>17

(* The records the handlers write have their types. *)
LEMMA WrittenRows ==
  ASSUME IInv, NEW c \in SessionCall
  PROVE  /\ At(c, "rehash") => Rehashed(c) \in UserRow
         /\ At(c, "write user") => Patched(c) \in UserRow
         /\ \A u \in User : NewSession(c, u) \in Row
         /\ At(c, "rotate") => \A s \in sessionTask[c].found : Rotated(c, s) \in Row
         /\ \A k \in Key : Counted(k) \in Attempts
<1> USE SessionsAssumption, SessionRequestFields DEF IInv, SessionsTypeOK, SessionsAssumption, Progress
<1>1. ASSUME At(c, "rehash")  PROVE Rehashed(c) \in UserRow
  <2>1. Kind(c) = "login" /\ user[Target(c)] # NoUser
    BY <1>1 DEF At, StagesFitRequests, LoginStages, ReadUsersExist
  <2>2. user[Target(c)] \in UserRow
    BY <2>1
  <2> QED  BY <2>1, <2>2 DEF Rehashed, UserRow
<1>2. ASSUME At(c, "write user")  PROVE Patched(c) \in UserRow
  <2>1. Kind(c) = "patch" /\ sessionTask[c].seen # NoUser
    BY <1>2 DEF At, StagesFitRequests, ReadUsersExist
  <2>2. sessionTask[c].seen \in UserRow
    BY <2>1
  <2> QED  BY <2>1, <2>2 DEF Patched, UserRow
<1>3. \A u \in User : NewSession(c, u) \in Row
  BY DEF NewSession, Row
<1>4. ASSUME At(c, "rotate"), NEW s \in sessionTask[c].found  PROVE Rotated(c, s) \in Row
  <2>1. s \in SessionCall /\ session[s] \in Row
    BY DEF HeldSessionsExist, Opened
  <2>2. now + AccessTTL \in Nat
    OBVIOUS
  <2> QED  BY <2>1, <2>2 DEF Rotated, Row
<1>5. ASSUME NEW k \in Key  PROVE Counted(k) \in Attempts
  <2>1. Pruned[k] \in Attempts \cup {NoAttempts}
    BY <1>5 DEF Pruned
  <2>2. PastLimiter(k) \subseteq SessionCall
    BY DEF PastLimiter
  <2>3. InForce(Pruned[k]) => Pruned[k] \in Attempts
    BY <2>1 DEF InForce
  <2> QED  BY <2>1, <2>2, <2>3 DEF Counted, Attempts, InForce
<1> QED  BY <1>1, <1>2, <1>3, <1>4, <1>5

(* What a step changes of a call's progress. *)
LEMMA ProgressUpdates ==
  ASSUME NEW t \in Progress, NEW st \in Stage
  PROVE  /\ [t EXCEPT !.stage = st] \in Progress
         /\ \A row \in UserRow \cup {NoUser} : [t EXCEPT !.stage = st, !.seen = row] \in Progress
         /\ \A set \in SUBSET SessionCall :
              /\ [t EXCEPT !.stage = st, !.found = set] \in Progress
              /\ [t EXCEPT !.stage = st, !.ended = set] \in Progress
  BY DEF Progress

(* How far the calls have come keeps its type. *)
LEMMA TaskTypeStep ==
  ASSUME IInv, NEW c \in SessionCall, CallStep(c)
  PROVE  sessionTask' \in [SessionCall -> Progress]
<1>0. {"ok", "revoke", "refused", "open session", "reset attempts", "record failure",
       "write user", "check owner"} \subseteq Stage
  BY DEF Stage
<1>1. sessionTask \in [SessionCall -> Progress] /\ user \in [User -> UserRow \cup {NoUser}]
  BY DEF IInv, SessionsTypeOK
<1>2. \A st \in Stage : Go(c, st) => sessionTask' \in [SessionCall -> Progress]
  BY <1>1 DEF Go, Progress
<1>3. \A u, p : p \in Progress /\ GoWriting(c, u, p) => sessionTask' \in [SessionCall -> Progress]
  <2>1. \A t \in Progress : [t EXCEPT !.raced = TRUE] \in Progress
    BY DEF Progress
  <2> QED  BY <1>1, <2>1 DEF GoWriting
<1>4. CASE CheckLimiter(c) \/ RecordFailure(c) \/ ResetAttempts(c) \/ OpenSession(c)
           \/ CheckOwner(c) \/ Rotate(c) \/ RevokeSessions(c) \/ StatementFails(c)
  <2>1. \E st \in Stage : Go(c, st)
    BY <1>4 DEF CheckLimiter, RecordFailure, ResetAttempts, OpenSession, CheckOwner, Rotate,
                RevokeSessions, StatementFails, Stage
  <2> QED  BY <1>2, <2>1
<1>5. CASE ReadLogin(c) \/ ReadPatch(c)
  <2>1. Target(c) \in User
    BY <1>5, SessionRequestFields DEF ReadLogin, ReadPatch
  <2>2. user[Target(c)] \in UserRow \cup {NoUser}
    BY <1>1, <2>1
  <2>3. \A st \in Stage : [sessionTask[c] EXCEPT !.stage = st, !.seen = user[Target(c)]] \in Progress
    BY <1>1, <2>2, ProgressUpdates
  <2>4. \E st \in Stage : sessionTask' = [sessionTask EXCEPT
          ![c].stage = st, ![c].seen = user[Target(c)]]
    <3>1. CASE ReadLogin(c)
      BY <1>0, <3>1 DEF ReadLogin
    <3>2. CASE ReadPatch(c)
      BY <1>0, <3>2 DEF ReadPatch
    <3> QED  BY <1>5, <3>1, <3>2
  <2> QED  BY <1>1, <2>3, <2>4
<1>6. CASE LookUp(c)
  <2>1. Refreshable(SessionRequest[c].pair) \in SUBSET SessionCall
    BY DEF Refreshable, Holding, Opened
  <2>2. \A st \in Stage : [sessionTask[c] EXCEPT !.stage = st,
                            !.found = Refreshable(SessionRequest[c].pair)] \in Progress
    BY <1>1, <2>1, ProgressUpdates
  <2> QED  BY <1>0, <1>1, <1>6, <2>2 DEF LookUp
<1>7. CASE LogOut(c)
  <2>1. Holding(SessionRequest[c].pair) \in SUBSET SessionCall /\ "ok" \in Stage
    BY DEF Holding, Opened, Stage
  <2>2. CASE Go(c, "ok")
    BY <1>2, <2>1, <2>2
  <2>3. CASE sessionTask' = [sessionTask EXCEPT
               ![c].stage = "ok", ![c].ended = Holding(SessionRequest[c].pair)]
    BY <1>1, <2>1, <2>3 DEF Progress
  <2> QED  BY <1>7, <2>2, <2>3 DEF LogOut
<1>8. CASE Rehash(c)
  <2>1. [sessionTask[c] EXCEPT !.stage = "open session"] \in Progress
    BY <1>0, <1>1, ProgressUpdates
  <2> QED  BY <1>3, <1>8, <2>1 DEF Rehash
<1>9. CASE WritePatch(c)
  <2>1. Unrevoked(Target(c)) \in SUBSET SessionCall
    BY DEF Unrevoked, Opened
  <2>2. [sessionTask[c] EXCEPT !.stage = IF NewPassword(c) THEN "revoke" ELSE "ok",
           !.ended = IF NewPassword(c) THEN Unrevoked(Target(c)) ELSE {}] \in Progress
    BY <1>0, <1>1, <2>1, ProgressUpdates
  <2> QED  BY <1>3, <1>9, <2>2 DEF WritePatch
<1>10. CASE WriteStatus(c) \/ CreateUser(c) \/ \E opens \in BOOLEAN : RegisterUser(c, opens)
  <2>1. [sessionTask[c] EXCEPT !.stage = "ok"] \in Progress
    BY <1>0, <1>1, ProgressUpdates
  <2>2. \/ Go(c, "refused")
        \/ \E u : GoWriting(c, u, [sessionTask[c] EXCEPT !.stage = "ok"])
    BY <1>10, Zenon DEF WriteStatus, CreateUser, RegisterUser
  <2> QED  BY <1>0, <1>2, <1>3, <2>1, <2>2
<1> QED
  BY <1>4, <1>5, <1>6, <1>7, <1>8, <1>9, <1>10 DEF CallStep, SessionStep

(* Users and sessions keep their types. *)
LEMMA UserTypeStep ==
  ASSUME IInv, NEW c \in SessionCall, CallStep(c)
  PROVE  user' \in [User -> UserRow \cup {NoUser}]
<1>1. user \in [User -> UserRow \cup {NoUser}]
  BY DEF IInv, SessionsTypeOK
<1>2. CASE Rehash(c)
  BY <1>1, <1>2, WrittenRows DEF Rehash
<1>3. CASE WritePatch(c)
  BY <1>1, <1>3, WrittenRows DEF WritePatch
<1>4. CASE WriteStatus(c)
  <2>1. CASE user[Target(c)] = NoUser
    BY <1>1, <1>4, <2>1 DEF WriteStatus
  <2>2. CASE user[Target(c)] # NoUser
    <3>1. user[Target(c)] \in UserRow /\ SessionRequest[c].status \in UserStatus
      BY <1>1, <1>4, <2>2, SessionRequestFields DEF WriteStatus
    <3>2. [user[Target(c)] EXCEPT !.status = SessionRequest[c].status] \in UserRow
      BY <3>1 DEF UserRow
    <3> QED  BY <1>1, <1>4, <2>2, <3>2 DEF WriteStatus
  <2> QED  BY <2>1, <2>2
<1>5. CASE CreateUser(c)
  <2>1. CASE user' = user
    BY <1>1, <2>1
  <2>2. CASE user' # user
    <3>1. [status |-> SessionRequest[c].status, password |-> SessionRequest[c].password,
           legacy |-> FALSE] \in UserRow
      BY <1>5, SessionRequestFields DEF CreateUser, UserRow
    <3> QED  BY <1>1, <1>5, <2>2, <3>1 DEF CreateUser
  <2> QED  BY <2>1, <2>2
<1>6. CASE \E opens \in BOOLEAN : RegisterUser(c, opens)
  <2>1. [status |-> "active", password |-> SessionRequest[c].password, legacy |-> FALSE]
          \in UserRow
    BY <1>6, SessionRequestFields DEF RegisterUser, UserRow, UserStatus
  <2> QED  BY <1>1, <1>6, <2>1 DEF RegisterUser
<1>7. CASE UNCHANGED user
  BY <1>1, <1>7
<1> QED
  BY <1>2, <1>3, <1>4, <1>5, <1>6, <1>7
  DEF CallStep, SessionStep, CheckLimiter, ReadLogin, RecordFailure, ResetAttempts, OpenSession,
      LookUp, CheckOwner, Rotate, LogOut, ReadPatch, RevokeSessions, StatementFails

LEMMA SessionTypeStep ==
  ASSUME IInv, NEW c \in SessionCall, CallStep(c)
  PROVE  session' \in [SessionCall -> Row \cup {NoSession}]
<1>1. session \in [SessionCall -> Row \cup {NoSession}]
  BY DEF IInv, SessionsTypeOK
<1>2. \A set \in SUBSET SessionCall : (\A s \in set : session[s] # NoSession) /\ Revoke(set)
        => session' \in [SessionCall -> Row \cup {NoSession}]
  <2>1. \A r \in Row : [r EXCEPT !.revoked = TRUE] \in Row
    BY DEF Row
  <2> QED  BY <1>1, <2>1 DEF Revoke
<1>3. CASE OpenSession(c)
  <2>1. Target(c) \in User
    BY <1>3, SessionRequestFields DEF OpenSession, At, IInv, StagesFitRequests, LoginStages
  <2> QED  BY <1>1, <1>3, <2>1, WrittenRows DEF OpenSession
<1>4. CASE Rotate(c)
  BY <1>1, <1>4, WrittenRows DEF Rotate
<1>5. CASE LogOut(c)
  <2>1. Holding(SessionRequest[c].pair) \in SUBSET SessionCall
        /\ \A s \in Holding(SessionRequest[c].pair) : session[s] # NoSession
    BY DEF Holding, Opened
  <2> QED  BY <1>1, <1>2, <1>5, <2>1 DEF LogOut
<1>6. CASE RevokeSessions(c)
  <2>1. Unrevoked(Target(c)) \in SUBSET SessionCall
        /\ \A s \in Unrevoked(Target(c)) : session[s] # NoSession
    BY DEF Unrevoked, Opened
  <2> QED  BY <1>2, <1>6, <2>1 DEF RevokeSessions
<1>7. CASE \E opens \in BOOLEAN : RegisterUser(c, opens)
  <2>1. NewSession(c, Target(c)) \in Row
    BY <1>7, SessionRequestFields, WrittenRows DEF RegisterUser
  <2> QED  BY <1>1, <1>7, <2>1 DEF RegisterUser
<1>8. CASE UNCHANGED session
  BY <1>1, <1>8
<1> QED
  BY <1>3, <1>4, <1>5, <1>6, <1>7, <1>8
  DEF CallStep, SessionStep, CheckLimiter, ReadLogin, RecordFailure, ResetAttempts, Rehash,
      LookUp, CheckOwner, ReadPatch, WritePatch, WriteStatus, CreateUser, StatementFails

(* And so does the limiter. *)
LEMMA LimiterTypeStep ==
  ASSUME IInv, NEW c \in SessionCall, CallStep(c)
  PROVE  attempts' \in [Key -> Attempts \cup {NoAttempts}]
<1>1. attempts \in [Key -> Attempts \cup {NoAttempts}]
  BY DEF IInv, SessionsTypeOK
<1>2. Pruned \in [Key -> Attempts \cup {NoAttempts}]
  BY <1>1 DEF Pruned
<1>3. CASE CheckLimiter(c)
  BY <1>2, <1>3 DEF CheckLimiter
<1>4. CASE RecordFailure(c)
  BY <1>2, <1>4, WrittenRows DEF RecordFailure
<1>5. CASE ResetAttempts(c)
  BY <1>1, <1>5 DEF ResetAttempts
<1>6. CASE UNCHANGED attempts
  BY <1>1, <1>6
<1> QED
  BY <1>3, <1>4, <1>5, <1>6
  DEF CallStep, SessionStep, ReadLogin, Rehash, OpenSession, LookUp, CheckOwner, Rotate, LogOut,
      ReadPatch, WritePatch, RevokeSessions, WriteStatus, CreateUser, RegisterUser,
      StatementFails

LEMMA TypeStep ==
  ASSUME IInv, NEW c \in SessionCall, CallStep(c)
  PROVE  SessionsTypeOK'
<1>1. now' \in Nat
  BY OneCallMoves DEF IInv, SessionsTypeOK
<1> QED
  BY <1>1, TaskTypeStep, UserTypeStep, SessionTypeStep, LimiterTypeStep DEF SessionsTypeOK

-----------------------------------------------------------------------------
(* The other conjuncts of the invariant, each preserved by any call.       *)

LEMMA StagesFitStep ==
  ASSUME IInv, NEW c \in SessionCall, CallStep(c)
  PROVE  StagesFitRequests'
<1>1. \A d \in SessionCall \ {c} : sessionTask'[d].stage = sessionTask[d].stage
  BY OneCallMoves DEF IInv
<1>2. /\ sessionTask'[c].stage \in LoginStages => Kind(c) = "login"
      /\ sessionTask'[c].stage \in {"check owner", "rotate"} => Kind(c) = "refresh"
      /\ sessionTask'[c].stage \in {"write user", "revoke"} => Kind(c) = "patch"
  <2> USE WhereACallGoes DEF IInv, StagesFitRequests, LoginStages, At, Holds
  <2>1. CASE CheckLimiter(c) \/ ReadLogin(c) \/ RecordFailure(c) \/ ResetAttempts(c)
             \/ Rehash(c) \/ OpenSession(c)
    BY <2>1 DEF CheckLimiter, ReadLogin, RecordFailure, ResetAttempts, Rehash, OpenSession
  <2>2. CASE LookUp(c) \/ CheckOwner(c) \/ Rotate(c) \/ LogOut(c)
    BY <2>2 DEF LookUp, CheckOwner
  <2>3. CASE ReadPatch(c) \/ WritePatch(c) \/ RevokeSessions(c) \/ StatementFails(c)
    BY <2>3 DEF ReadPatch, WritePatch
  <2>4. CASE WriteStatus(c) \/ CreateUser(c) \/ \E opens \in BOOLEAN : RegisterUser(c, opens)
    BY <2>4
  <2> QED  BY <2>1, <2>2, <2>3, <2>4 DEF CallStep, SessionStep
<1> QED  BY <1>1, <1>2 DEF IInv, StagesFitRequests, Kind, LoginStages

LEMMA ReadUsersExistStep ==
  ASSUME IInv, NEW c \in SessionCall, CallStep(c)
  PROVE  ReadUsersExist'
<1>1. \A u \in User : user[u] # NoUser => user'[u] # NoUser
  <2> USE RowsArePresent, WrittenRows DEF IInv, SessionsTypeOK
  <2>1. CASE Rehash(c) \/ WritePatch(c)
    BY <2>1 DEF Rehash, WritePatch
  <2>2. CASE WriteStatus(c)
    <3>1. ASSUME user[Target(c)] # NoUser
          PROVE  [user[Target(c)] EXCEPT !.status = SessionRequest[c].status] # NoUser
      <4>1. Kind(c) = "status"  BY <2>2 DEF WriteStatus
      <4>2. Target(c) \in User /\ SessionRequest[c].status \in UserStatus
        BY <4>1, SessionRequestFields
      <4>3. user[Target(c)] \in UserRow  BY <3>1, <4>2
      <4>4. [user[Target(c)] EXCEPT !.status = SessionRequest[c].status] \in UserRow
        BY <4>2, <4>3 DEF UserRow
      <4> QED  BY <4>4
    <3> QED  BY <2>2, <3>1 DEF WriteStatus
  <2>3. CASE CreateUser(c) \/ \E opens \in BOOLEAN : RegisterUser(c, opens)
    BY <2>3 DEF CreateUser, RegisterUser
  <2>4. CASE UNCHANGED user
    BY <2>4
  <2> QED
    BY <2>1, <2>2, <2>3, <2>4
    DEF CallStep, SessionStep, CheckLimiter, ReadLogin, RecordFailure, ResetAttempts, OpenSession,
        LookUp, CheckOwner, Rotate, LogOut, ReadPatch, RevokeSessions, StatementFails
<1>2. \A d \in SessionCall \ {c} : /\ sessionTask'[d].stage = sessionTask[d].stage
                                   /\ sessionTask'[d].seen = sessionTask[d].seen
  BY OneCallMoves DEF IInv
<1>3. \A d \in SessionCall : sessionTask[d].stage \in {"reset attempts", "rehash", "open session",
          "write user", "revoke"} => Target(d) \in User
  BY SessionRequestFields DEF IInv, StagesFitRequests, LoginStages
<1>4. sessionTask'[c].stage \in {"reset attempts", "rehash", "open session", "write user",
                                "revoke"} =>
        user'[Target(c)] # NoUser /\ sessionTask'[c].seen # NoUser
  <2> USE WhereACallGoes DEF IInv, ReadUsersExist, At, Holds
  <2>1. CASE ReadLogin(c)
    <3>1. /\ sessionTask'[c].stage \in {"reset attempts", "record failure"}
          /\ sessionTask'[c].stage = "reset attempts" => Verified(c)
          /\ sessionTask'[c].seen = user[Target(c)]
      BY <2>1
    <3>2. UNCHANGED user
      BY <2>1 DEF ReadLogin
    <3> QED  BY <3>1, <3>2 DEF Verified
  <2>2. CASE ReadPatch(c)
    <3>1. /\ sessionTask'[c].stage \in {"refused", "write user"}
          /\ sessionTask'[c].stage = "write user" => user[Target(c)] # NoUser
          /\ sessionTask'[c].seen = user[Target(c)]
      BY <2>2
    <3>2. UNCHANGED user
      BY <2>2 DEF ReadPatch
    <3> QED  BY <3>1, <3>2
  <2>3. CASE ResetAttempts(c) \/ Rehash(c) \/ WritePatch(c)
    <3>1. /\ sessionTask[c].stage \in {"reset attempts", "rehash", "write user"}
          /\ sessionTask'[c].seen = sessionTask[c].seen
      BY <2>3 DEF ResetAttempts, Rehash, WritePatch
    <3> QED  BY <1>1, <1>3, <3>1
  <2>4. CASE CheckLimiter(c) \/ RecordFailure(c) \/ OpenSession(c) \/ LookUp(c) \/ CheckOwner(c)
             \/ Rotate(c) \/ LogOut(c) \/ RevokeSessions(c) \/ StatementFails(c)
    BY <2>4
  <2>5. CASE WriteStatus(c) \/ CreateUser(c) \/ \E opens \in BOOLEAN : RegisterUser(c, opens)
    BY <2>5
  <2> QED  BY <2>1, <2>2, <2>3, <2>4, <2>5 DEF CallStep, SessionStep
<1> QED  BY <1>1, <1>2, <1>3, <1>4 DEF IInv, ReadUsersExist, Target

(* A session, once opened, keeps its user and stays revoked when it is, and a
   call that opens one has ended. *)
LEMMA SessionChanges ==
  ASSUME IInv, NEW c \in SessionCall, CallStep(c)
  PROVE  /\ \A s \in Opened : session'[s] # NoSession /\ session'[s].user = session[s].user
         /\ \A s \in Opened : session[s].revoked => session'[s].revoked
         /\ \A s \in SessionCall : session[s] = NoSession /\ session'[s] # NoSession =>
              s = c /\ sessionTask'[c].stage = "ok"
         /\ session[c] = NoSession
<1>1. session \in [SessionCall -> Row \cup {NoSession}] /\ \A s \in Opened : session[s] \in Row
  BY DEF IInv, SessionsTypeOK, Opened
<1>2. session[c] = NoSession
  <2>1. ~At(c, "ok")
    BY DEF CallStep, SessionStep, At, CheckLimiter, ReadLogin, RecordFailure, ResetAttempts,
           Rehash, OpenSession, HasPair, LookUp, CheckOwner, Rotate, LogOut, ReadPatch,
           WritePatch, RevokeSessions, WriteStatus, CreateUser, RegisterUser, StatementFails
  <2> QED  BY <2>1 DEF IInv, HeldSessionsExist
<1>3. CASE OpenSession(c) \/ \E opens \in BOOLEAN : RegisterUser(c, opens)
  <2>1. sessionTask'[c].stage = "ok" \/ UNCHANGED session
    BY <1>3, WhereACallGoes DEF IInv, Holds
  <2>2. UNCHANGED session \/ session' = [session EXCEPT ![c] = NewSession(c, Target(c))]
    BY <1>3 DEF OpenSession, RegisterUser
  <2> QED  BY <1>1, <1>2, <2>1, <2>2 DEF Opened
<1>4. CASE Rotate(c)
  <2>1. \A s \in sessionTask[c].found : Rotated(c, s) \in Row
                                      /\ Rotated(c, s).user = session[s].user
                                      /\ Rotated(c, s).revoked = session[s].revoked
    <3>1. \A s \in sessionTask[c].found : session[s] \in Row
      BY <1>1 DEF IInv, HeldSessionsExist
    <3>2. \A s \in sessionTask[c].found : Rotated(c, s) \in Row
      BY <1>4, WrittenRows DEF Rotate
    <3>3. \A s \in sessionTask[c].found : /\ Rotated(c, s).user = session[s].user
                                          /\ Rotated(c, s).revoked = session[s].revoked
      BY <3>1 DEF Rotated, Row
    <3> QED  BY <3>2, <3>3
  <2>2. sessionTask[c].found \subseteq Opened
    BY DEF IInv, HeldSessionsExist
  <2> QED  BY <1>1, <1>2, <1>4, <2>1, <2>2, RowsArePresent DEF Rotate, Opened
<1>5. CASE \E set \in SUBSET Opened : Revoke(set)
  <2>1. \A r \in Row : /\ [r EXCEPT !.revoked = TRUE] \in Row
                      /\ [r EXCEPT !.revoked = TRUE].user = r.user
                      /\ [r EXCEPT !.revoked = TRUE].revoked
    BY DEF Row
  <2> QED  BY <1>1, <1>2, <1>5, <2>1, RowsArePresent DEF Revoke, Opened
<1>6. CASE UNCHANGED session
  BY <1>2, <1>6 DEF Opened
<1>7. CASE LogOut(c) \/ RevokeSessions(c)
  <2>1. Holding(SessionRequest[c].pair) \subseteq Opened /\ Unrevoked(Target(c)) \subseteq Opened
    BY DEF Holding, Unrevoked
  <2> QED  BY <1>5, <1>6, <1>7, <2>1 DEF LogOut, RevokeSessions
<1> QED
  BY <1>3, <1>4, <1>6, <1>7
  DEF CallStep, SessionStep, CheckLimiter, ReadLogin, RecordFailure, ResetAttempts, Rehash,
      LookUp, CheckOwner, ReadPatch, WritePatch, WriteStatus, CreateUser, StatementFails

(* The same, one session at a time. *)
LEMMA SessionsEndure ==
  ASSUME IInv, NEW c \in SessionCall, CallStep(c), NEW s \in Opened
  PROVE  s \in Opened' /\ session'[s].user = session[s].user
<1>1. session'[s] # NoSession /\ session'[s].user = session[s].user
  BY SessionChanges
<1> QED  BY <1>1 DEF Opened

LEMMA RevocationsEndure ==
  ASSUME IInv, NEW c \in SessionCall, CallStep(c), NEW s \in Opened, session[s].revoked
  PROVE  session'[s].revoked
BY SessionChanges

LEMMA HeldSessionsExistStep ==
  ASSUME IInv, NEW c \in SessionCall, CallStep(c)
  PROVE  HeldSessionsExist'
<1>1. Opened \subseteq Opened'
  BY SessionsEndure
<1>2. \A d \in SessionCall \ {c} : /\ sessionTask'[d].stage = sessionTask[d].stage
                                   /\ sessionTask'[d].found = sessionTask[d].found
                                   /\ sessionTask'[d].ended = sessionTask[d].ended
  BY OneCallMoves DEF IInv
<1>3. sessionTask'[c].found \subseteq Opened /\ sessionTask'[c].ended \subseteq Opened
  <2>1. /\ Refreshable(SessionRequest[c].pair) \subseteq Opened
        /\ Holding(SessionRequest[c].pair) \subseteq Opened
        /\ Unrevoked(Target(c)) \subseteq Opened
    BY DEF Refreshable, Holding, Unrevoked
  <2>2. sessionTask[c].found \subseteq Opened /\ sessionTask[c].ended \subseteq Opened
    BY DEF IInv, HeldSessionsExist
  <2> QED  BY <2>1, <2>2, WhereACallGoes DEF CallStep, SessionStep, Holds, IInv
<1>4. \A d \in SessionCall : session'[d] # NoSession => sessionTask'[d].stage = "ok"
  <2> SUFFICES ASSUME NEW d \in SessionCall, session'[d] # NoSession
               PROVE  sessionTask'[d].stage = "ok"
    OBVIOUS
  <2>1. CASE session[d] = NoSession
    BY <2>1, SessionChanges
  <2>2. CASE session[d] # NoSession
    <3>1. d # c  BY <2>2, SessionChanges
    <3> QED  BY <1>2, <2>2, <3>1 DEF IInv, HeldSessionsExist, At
  <2> QED  BY <2>1, <2>2
<1> QED
  BY <1>1, <1>2, <1>3, <1>4 DEF IInv, HeldSessionsExist, At

LEMMA EndingIsUnderWayStep ==
  ASSUME IInv, NEW c \in SessionCall, CallStep(c)
  PROVE  EndingIsUnderWay'
<1>1. \A d \in SessionCall \ {c} : /\ sessionTask'[d].stage = sessionTask[d].stage
                                   /\ sessionTask'[d].ended = sessionTask[d].ended
  BY OneCallMoves DEF IInv
<1>2. \A d \in SessionCall : sessionTask[d].ended \subseteq Opened
  BY DEF IInv, HeldSessionsExist
<1>3. ASSUME NEW d \in SessionCall \ {c}
      PROVE  /\ sessionTask'[d].stage \notin {"ok", "revoke", "failed"} => sessionTask'[d].ended = {}
             /\ sessionTask'[d].stage = "revoke" =>
                  \A s \in sessionTask'[d].ended : session'[s].revoked \/ session'[s].user = Target(d)
             /\ sessionTask'[d].stage = "ok" => \A s \in sessionTask'[d].ended : session'[s].revoked
  <2>1. \A s \in sessionTask[d].ended : s \in Opened /\ session'[s].user = session[s].user
    BY <1>2, SessionsEndure
  <2>2. \A s \in sessionTask[d].ended : session[s].revoked => session'[s].revoked
    BY <1>2, RevocationsEndure
  <2> QED  BY <1>1, <2>1, <2>2 DEF IInv, EndingIsUnderWay, At
<1>4. /\ sessionTask'[c].stage \notin {"ok", "revoke", "failed"} => sessionTask'[c].ended = {}
      /\ sessionTask'[c].stage = "revoke" =>
           \A s \in sessionTask'[c].ended : session'[s].revoked \/ session'[s].user = Target(c)
      /\ sessionTask'[c].stage = "ok" => \A s \in sessionTask'[c].ended : session'[s].revoked
  <2>1. \A set \in SUBSET Opened : Revoke(set) => \A s \in set : session'[s].revoked
    BY DEF Revoke, Opened, IInv, SessionsTypeOK, Row
  <2>2. CASE LogOut(c)
    <3>1. Holding(SessionRequest[c].pair) \in SUBSET Opened
      BY DEF Holding
    <3>2. sessionTask[c].ended = {}
      BY <2>2 DEF LogOut, HasPair, At, IInv, EndingIsUnderWay
    <3> QED  BY <2>1, <2>2, <3>1, <3>2, WhereACallGoes DEF IInv, Holds
  <2>3. CASE WritePatch(c)
    <3>1. UNCHANGED session
      BY <2>3 DEF WritePatch
    <3>2. \A s \in Unrevoked(Target(c)) : session[s].user = Target(c)
      BY DEF Unrevoked
    <3> QED  BY <2>3, <3>1, <3>2, WhereACallGoes DEF IInv, Holds
  <2>4. CASE RevokeSessions(c)
    <3>1. Unrevoked(Target(c)) \in SUBSET Opened /\ Revoke(Unrevoked(Target(c)))
      BY <2>4 DEF Unrevoked, RevokeSessions
    <3>2. ASSUME NEW s \in sessionTask[c].ended  PROVE session'[s].revoked
      <4>1. s \in Opened
        BY <1>2
      <4>2. session[s].revoked \/ session[s].user = Target(c)
        BY <2>4 DEF RevokeSessions, IInv, EndingIsUnderWay
      <4>3. CASE session[s].revoked
        BY <4>1, <4>3, RevocationsEndure
      <4>4. CASE ~session[s].revoked
        <5>1. s \in Unrevoked(Target(c))
          BY <4>1, <4>2, <4>4 DEF Unrevoked
        <5> QED  BY <2>1, <3>1, <5>1
      <4> QED  BY <4>3, <4>4
    <3> QED  BY <2>4, <3>2, WhereACallGoes DEF IInv, Holds
  <2>5. CASE StatementFails(c)
    BY <2>5, WhereACallGoes DEF IInv, Holds
  <2>6. ASSUME CallStep(c), ~LogOut(c), ~WritePatch(c), ~RevokeSessions(c), ~StatementFails(c)
        PROVE  sessionTask'[c].ended = {} /\ sessionTask'[c].stage # "revoke"
    <3>1. sessionTask[c].stage \notin {"ok", "revoke", "failed"}
      BY <2>6
      DEF CallStep, SessionStep, At, CheckLimiter, ReadLogin, RecordFailure, ResetAttempts, Rehash,
          OpenSession, HasPair, LookUp, CheckOwner, Rotate, ReadPatch, WriteStatus, CreateUser,
          RegisterUser
    <3>2. sessionTask[c].ended = {}
      BY <3>1 DEF IInv, EndingIsUnderWay
    <3> QED  BY <2>6, <3>2, WhereACallGoes DEF CallStep, SessionStep, IInv, Holds
  <2> QED  BY <2>2, <2>3, <2>4, <2>5, <2>6
<1> QED
  BY <1>3, <1>4 DEF EndingIsUnderWay, At, Target

(* Whoever has read a user's row learns that another call has written it. *)
LEMMA WritesAreNoticed ==
  ASSUME IInv, NEW c \in SessionCall, CallStep(c), NEW d \in SessionCall \ {c}, HasRead(d),
         user'[Target(d)] # user[Target(d)]
  PROVE  sessionTask'[d].raced
<1>1. \A u, p : GoWriting(c, u, p) /\ Target(d) = u => sessionTask'[d].raced
  BY DEF GoWriting, IInv, SessionsTypeOK, Progress
<1>2. \A u, row : user' = [user EXCEPT ![u] = row] => Target(d) = u
  BY DEF IInv, SessionsTypeOK
<1>3. ASSUME NEW u, NEW row, NEW p, user' = [user EXCEPT ![u] = row], GoWriting(c, u, p)
      PROVE  sessionTask'[d].raced
  BY <1>1, <1>2, <1>3
<1>4. CASE Rehash(c)
  BY <1>3, <1>4 DEF Rehash
<1>5. CASE WritePatch(c)
  BY <1>3, <1>5 DEF WritePatch
<1>6. CASE WriteStatus(c)
  BY <1>3, <1>6 DEF WriteStatus
<1>7. CASE CreateUser(c)
  BY <1>3, <1>7 DEF CreateUser
<1>8. CASE \E opens \in BOOLEAN : RegisterUser(c, opens)
  BY <1>3, <1>8 DEF RegisterUser
<1> QED
  BY <1>4, <1>5, <1>6, <1>7, <1>8
  DEF CallStep, SessionStep, CheckLimiter, ReadLogin, RecordFailure, ResetAttempts, OpenSession,
      LookUp, CheckOwner, Rotate, LogOut, ReadPatch, RevokeSessions, StatementFails

LEMMA UnracedRowsAreFreshStep ==
  ASSUME IInv, NEW c \in SessionCall, CallStep(c)
  PROVE  UnracedRowsAreFresh'
<1>1. ASSUME NEW d \in SessionCall \ {c}
      PROVE  /\ sessionTask'[d].stage \in {"reset attempts", "rehash", "write user"} =>
                  sessionTask'[d].raced \/ sessionTask'[d].seen = user'[Target(d)]
             /\ sessionTask'[d].stage \in {"reset attempts", "rehash"} =>
                  sessionTask'[d].seen.password = SessionRequest[d].password
  <2>1. /\ sessionTask'[d].stage = sessionTask[d].stage
        /\ sessionTask'[d].seen = sessionTask[d].seen
        /\ sessionTask[d].raced => sessionTask'[d].raced
    BY OneCallMoves DEF IInv
  <2>2. ASSUME sessionTask[d].stage \in {"reset attempts", "rehash", "write user"},
               ~sessionTask'[d].raced
        PROVE  sessionTask'[d].seen = user'[Target(d)]
    <3>1. HasRead(d)
      BY <2>2 DEF HasRead
    <3>2. user'[Target(d)] = user[Target(d)]
      BY <2>2, <3>1, WritesAreNoticed
    <3> QED  BY <2>1, <2>2, <3>2 DEF IInv, UnracedRowsAreFresh
  <2> QED  BY <2>1, <2>2 DEF IInv, UnracedRowsAreFresh
<1>2. /\ sessionTask'[c].stage \in {"reset attempts", "rehash", "write user"} =>
           sessionTask'[c].raced \/ sessionTask'[c].seen = user'[Target(c)]
      /\ sessionTask'[c].stage \in {"reset attempts", "rehash"} =>
           sessionTask'[c].seen.password = SessionRequest[c].password
  <2>1. CASE ReadLogin(c)
    <3>1. UNCHANGED user
      BY <2>1 DEF ReadLogin
    <3>2. /\ sessionTask'[c].seen = user[Target(c)]
          /\ sessionTask'[c].stage \in {"reset attempts", "record failure"}
          /\ sessionTask'[c].stage = "reset attempts" => Verified(c)
      BY <2>1, WhereACallGoes DEF IInv, Holds
    <3> QED  BY <3>1, <3>2 DEF Verified
  <2>2. CASE ReadPatch(c)
    <3>1. UNCHANGED user
      BY <2>2 DEF ReadPatch
    <3>2. sessionTask'[c].seen = user[Target(c)]
          /\ sessionTask'[c].stage \in {"refused", "write user"}
      BY <2>2, WhereACallGoes DEF IInv, Holds
    <3> QED  BY <3>1, <3>2
  <2>3. CASE ResetAttempts(c)
    <3>1. UNCHANGED user /\ At(c, "reset attempts")
      BY <2>3 DEF ResetAttempts
    <3>2. sessionTask'[c].seen = sessionTask[c].seen /\ sessionTask'[c].raced = sessionTask[c].raced
      BY <2>3, WhereACallGoes DEF IInv, Holds
    <3> QED  BY <3>1, <3>2 DEF IInv, UnracedRowsAreFresh, At
  <2>4. CASE \/ CheckLimiter(c) \/ RecordFailure(c) \/ Rehash(c) \/ OpenSession(c) \/ LookUp(c)
             \/ CheckOwner(c) \/ Rotate(c) \/ LogOut(c) \/ WritePatch(c) \/ RevokeSessions(c)
             \/ WriteStatus(c) \/ CreateUser(c) \/ StatementFails(c)
             \/ \E opens \in BOOLEAN : RegisterUser(c, opens)
    <3>1. sessionTask'[c].stage \notin {"reset attempts", "rehash", "write user"}
      BY <2>4, WhereACallGoes DEF IInv, Holds
    <3> QED  BY <3>1
  <2> QED  BY <2>1, <2>2, <2>3, <2>4 DEF CallStep, SessionStep
<1> QED
  BY <1>1, <1>2 DEF UnracedRowsAreFresh, Target

LEMMA LocksKnowWhoPassedStep ==
  ASSUME IInv, NEW c \in SessionCall, CallStep(c)
  PROVE  LocksKnowWhoPassed'
<1>1. /\ now' = now
      /\ \A d \in SessionCall \ {c} : sessionTask'[d].stage = sessionTask[d].stage
  BY OneCallMoves DEF IInv
<1>2. /\ attempts \in [Key -> Attempts \cup {NoAttempts}]
      /\ now \in Nat
  BY DEF IInv, SessionsTypeOK
<1>3. \A k \in Key : InForce(Pruned[k]) => Pruned[k] = attempts[k]
  BY <1>2 DEF Pruned, InForce
<1> SUFFICES ASSUME NEW k \in Key, attempts'[k] # NoAttempts, attempts'[k].lockedUntil > now,
                    NEW d \in SessionCall, Kind(d) = "login", k \in Keys(d),
                    sessionTask'[d].stage \in {"read user", "record failure", "reset attempts"}
             PROVE  d \in attempts'[k].passed
  BY <1>1 DEF LocksKnowWhoPassed, PastLimiter, InForce, Kind, Keys, Target
<1>4. d \in PastLimiter(k) \/ (d = c /\ CheckLimiter(c) /\ ~Throttled(c))
  <2>1. CASE d # c
    BY <1>1, <2>1 DEF PastLimiter
  <2>2. CASE d = c
    <3>1. CASE CheckLimiter(c)
      BY <2>2, <3>1, WhereACallGoes DEF IInv, Holds
    <3>2. CASE ReadLogin(c) \/ RecordFailure(c) \/ ResetAttempts(c)
      BY <2>2, <3>2 DEF ReadLogin, RecordFailure, ResetAttempts, At, PastLimiter
    <3>3. CASE \/ Rehash(c) \/ OpenSession(c) \/ LookUp(c) \/ CheckOwner(c) \/ Rotate(c)
               \/ LogOut(c) \/ ReadPatch(c) \/ WritePatch(c) \/ RevokeSessions(c)
               \/ WriteStatus(c) \/ CreateUser(c) \/ StatementFails(c)
               \/ \E opens \in BOOLEAN : RegisterUser(c, opens)
      <4>1. sessionTask'[c].stage \notin {"read user", "record failure", "reset attempts"}
        BY <3>3, WhereACallGoes DEF IInv, Holds
      <4> QED  BY <2>2, <4>1
    <3> QED  BY <3>1, <3>2, <3>3 DEF CallStep, SessionStep
  <2> QED  BY <2>1, <2>2
<1>5. ASSUME attempts'[k] = attempts[k]  PROVE d \in attempts'[k].passed
  <2>1. InForce(attempts[k])
    BY <1>5 DEF InForce
  <2>2. d \in PastLimiter(k)
    BY <1>4, <2>1 DEF Throttled
  <2> QED  BY <1>5, <2>1, <2>2 DEF IInv, LocksKnowWhoPassed
<1>6. CASE attempts' = Pruned
  BY <1>3, <1>5, <1>6 DEF InForce
<1>7. CASE ResetAttempts(c)
  <2>1. attempts'[k] = attempts[k]
    BY <1>7 DEF ResetAttempts
  <2> QED  BY <1>5, <2>1
<1>8. CASE RecordFailure(c)
  <2>1. CASE k \notin Keys(c)
    <3>1. attempts'[k] = Pruned[k]
      BY <1>8, <2>1 DEF RecordFailure
    <3> QED  BY <1>3, <1>5, <3>1 DEF InForce
  <2>2. CASE k \in Keys(c)
    <3>1. attempts'[k] = Counted(k)
      BY <1>8, <2>2 DEF RecordFailure
    <3>2. \/ InForce(Pruned[k]) /\ Counted(k).passed = Pruned[k].passed
          \/ Counted(k).passed = PastLimiter(k)
      <4>1. Counted(k).lockedUntil > now
        BY <3>1
      <4> QED  BY <4>1 DEF Counted
    <3>3. d \in PastLimiter(k)
      BY <1>4, <1>8 DEF CheckLimiter, RecordFailure, At
    <3>4. InForce(Pruned[k]) => d \in Pruned[k].passed
      BY <1>3, <3>3 DEF IInv, LocksKnowWhoPassed
    <3> QED  BY <3>1, <3>2, <3>3, <3>4
  <2> QED  BY <2>1, <2>2
<1>9. CASE UNCHANGED attempts
  BY <1>5, <1>9
<1> QED
  BY <1>6, <1>7, <1>8, <1>9
  DEF CallStep, SessionStep, CheckLimiter, ReadLogin, Rehash, OpenSession, LookUp, CheckOwner,
      Rotate, LogOut, ReadPatch, WritePatch, RevokeSessions, WriteStatus, CreateUser,
      RegisterUser, StatementFails

-----------------------------------------------------------------------------
(* The invariant and the theorems.                                         *)

(* The passing of time disturbs no conjunct. *)
LEMMA TickPreserves ==
  ASSUME IInv, Tick, UNCHANGED sessionsTables
  PROVE  IInv'
<1> USE DEF Tick, sessionsTables
<1>1. SessionsTypeOK'
  BY DEF IInv, SessionsTypeOK
<1>2. StagesFitRequests' /\ ReadUsersExist' /\ UnracedRowsAreFresh'
  BY DEF IInv, StagesFitRequests, ReadUsersExist, UnracedRowsAreFresh, Kind, Target, LoginStages
<1>3. HeldSessionsExist' /\ EndingIsUnderWay'
  BY DEF IInv, HeldSessionsExist, EndingIsUnderWay, Opened, At, Target
<1>4. LocksKnowWhoPassed'
  <2> SUFFICES ASSUME NEW k \in Key, attempts[k] # NoAttempts, attempts[k].lockedUntil > now + 1
               PROVE  PastLimiter(k)' \subseteq attempts[k].passed
    BY DEF LocksKnowWhoPassed, InForce
  <2>1. PastLimiter(k)' = PastLimiter(k)
    BY DEF PastLimiter, Kind, Keys, Target
  <2>2. InForce(attempts[k])
    <3>1. attempts[k].lockedUntil \in Nat /\ now \in Nat
      BY DEF IInv, SessionsTypeOK, Attempts
    <3> QED  BY <3>1 DEF InForce
  <2> QED  BY <2>1, <2>2 DEF IInv, LocksKnowWhoPassed
<1> QED  BY <1>1, <1>2, <1>3, <1>4 DEF IInv

LEMMA StepPreserves ==
  ASSUME IInv, [SessionsNext]_sessionsVars
  PROVE  IInv'
<1>1. ASSUME NEW c \in SessionCall, CallStep(c)  PROVE IInv'
  BY <1>1, TypeStep, StagesFitStep, ReadUsersExistStep, HeldSessionsExistStep,
     EndingIsUnderWayStep, UnracedRowsAreFreshStep, LocksKnowWhoPassedStep DEF IInv
<1>2. CASE Tick /\ UNCHANGED sessionsTables
  BY <1>2, TickPreserves
<1>3. CASE UNCHANGED sessionsVars
  BY <1>3
  DEF sessionsVars, sessionsTables, IInv, SessionsTypeOK, StagesFitRequests, ReadUsersExist,
      HeldSessionsExist, EndingIsUnderWay, UnracedRowsAreFresh, LocksKnowWhoPassed, PastLimiter,
      InForce, Opened, At, Kind, Target, Keys, LoginStages
<1> QED  BY <1>1, <1>2, <1>3 DEF SessionsNext, CallStep

THEOREM InvariantHolds == SessionsSpec => []IInv
<1>1. ClockInit /\ SessionsInit => IInv
  BY InitEstablishes
<1>2. IInv /\ [SessionsNext]_sessionsVars => IInv'
  BY StepPreserves
<1> QED  BY <1>1, <1>2, PTL DEF SessionsSpec

(* Users, sessions, the limiter and the calls keep their types, for any users,
   calls, lifetimes and limits. *)
THEOREM SessionsTypeCorrect == SessionsSpec => []SessionsTypeOK
<1>1. IInv => SessionsTypeOK
  BY DEF IInv
<1> QED  BY <1>1, InvariantHolds, PTL

(* A session that an answered password change found open, or an answered logout
   matched, is revoked and stays so, whatever refresh of it was under way
   (handleAuthRefresh updates a session by its identifier). *)
THEOREM EndedIsFinal == SessionsSpec => []EndedSessionsStayEnded
<1>1. IInv => EndedSessionsStayEnded
  BY DEF IInv, EndingIsUnderWay, EndedSessionsStayEnded
<1> QED  BY <1>1, InvariantHolds, PTL

LEMMA UnaskedChangeStep ==
  ASSUME IInv, NEW c \in SessionCall, CallStep(c), NEW u \in User, user[u] # NoUser
  PROVE  /\ user'[u].password # user[u].password /\ ~AsksPassword(c) => sessionTask[c].raced
         /\ user'[u].status # user[u].status /\ ~AsksStatus(c) => sessionTask[c].raced
<1>1. user[u] \in UserRow /\ user \in [User -> UserRow \cup {NoUser}]
  BY DEF IInv, SessionsTypeOK
<1>2. CASE Rehash(c)
  <2>1. Target(c) \in User /\ At(c, "rehash")
    BY <1>2, SessionRequestFields DEF Rehash, At, IInv, StagesFitRequests, LoginStages
  <2>2. CASE u # Target(c)
    BY <1>1, <1>2, <2>2 DEF Rehash
  <2>3. CASE u = Target(c)
    <3>1. user'[u] = [user[u] EXCEPT !.password = SessionRequest[c].password, !.legacy = FALSE]
      BY <1>1, <1>2, <2>3 DEF Rehash, Rehashed
    <3>2. user'[u].status = user[u].status /\ user'[u].password = SessionRequest[c].password
      BY <1>1, <3>1 DEF UserRow
    <3>3. sessionTask[c].raced \/ user[u].password = SessionRequest[c].password
      BY <2>1, <2>3 DEF IInv, UnracedRowsAreFresh, At
    <3> QED  BY <3>2, <3>3
  <2> QED  BY <2>2, <2>3
<1>3. CASE WritePatch(c)
  <2>1. Target(c) \in User /\ At(c, "write user") /\ Kind(c) = "patch"
    BY <1>3, SessionRequestFields DEF WritePatch, At, IInv, StagesFitRequests
  <2>2. CASE u # Target(c)
    BY <1>1, <1>3, <2>2 DEF WritePatch
  <2>3. CASE u = Target(c)
    <3>1. user'[u] = Patched(c)
      BY <1>1, <1>3, <2>3 DEF WritePatch
    <3>2. sessionTask[c].raced \/ sessionTask[c].seen = user[u]
      BY <2>1, <2>3 DEF IInv, UnracedRowsAreFresh, At
    <3>3. /\ SessionRequest[c].password = Keep => Patched(c).password = sessionTask[c].seen.password
          /\ SessionRequest[c].status = Keep => Patched(c).status = sessionTask[c].seen.status
      BY DEF Patched
    <3>4. /\ ~AsksPassword(c) => SessionRequest[c].password = Keep
          /\ ~AsksStatus(c) => SessionRequest[c].status = Keep
      BY <2>1 DEF AsksPassword, AsksStatus, NewPassword
    <3> QED  BY <3>1, <3>2, <3>3, <3>4
  <2> QED  BY <2>2, <2>3
<1>4. CASE WriteStatus(c)
  <2>1. Kind(c) = "status"
    BY <1>4 DEF WriteStatus
  <2>2. AsksStatus(c)
    BY <2>1 DEF AsksStatus
  <2>3. user'[u].password = user[u].password
    <3>1. [user[u] EXCEPT !.status = SessionRequest[c].status].password = user[u].password
      BY <1>1 DEF UserRow
    <3> QED  BY <1>1, <1>4, <3>1 DEF WriteStatus
  <2> QED  BY <2>2, <2>3
<1>5. CASE CreateUser(c) \/ \E opens \in BOOLEAN : RegisterUser(c, opens)
  <2>1. user'[u] = user[u]
    <3>1. CASE CreateUser(c)
      BY <1>1, <3>1 DEF CreateUser
    <3>2. CASE \E opens \in BOOLEAN : RegisterUser(c, opens)
      BY <1>1, <3>2 DEF RegisterUser
    <3> QED  BY <1>5, <3>1, <3>2
  <2> QED  BY <2>1
<1>6. CASE UNCHANGED user
  BY <1>6
<1> QED
  BY <1>2, <1>3, <1>4, <1>5, <1>6
  DEF CallStep, SessionStep, CheckLimiter, ReadLogin, RecordFailure, ResetAttempts, OpenSession,
      LookUp, CheckOwner, Rotate, LogOut, ReadPatch, RevokeSessions, StatementFails

(* A user's password or status changes without a call having asked for it only
   in the write of a call that was overtaken after it had read the row. *)
THEOREM UnaskedChangeIsOverlap == SessionsSpec => UnaskedChangeNeedsOverlap
<1> DEFINE Step ==
      \A u \in User, c \in SessionCall : Moved(c) /\ user[u] # NoUser =>
        /\ user'[u].password # user[u].password /\ ~AsksPassword(c) => sessionTask[c].raced
        /\ user'[u].status # user[u].status /\ ~AsksStatus(c) => sessionTask[c].raced
<1>1. IInv /\ [SessionsNext]_sessionsVars => [Step]_sessionsVars
  <2> SUFFICES ASSUME IInv, SessionsNext, NEW u \in User, NEW c \in SessionCall, Moved(c),
                      user[u] # NoUser
               PROVE  /\ user'[u].password # user[u].password /\ ~AsksPassword(c) =>
                           sessionTask[c].raced
                      /\ user'[u].status # user[u].status /\ ~AsksStatus(c) =>
                           sessionTask[c].raced
    OBVIOUS
  <2>1. PICK d \in SessionCall : CallStep(d)
    BY DEF SessionsNext, CallStep, Moved, sessionsTables
  <2>2. c = d
    BY <2>1, OneCallMoves DEF Moved, IInv
  <2> QED  BY <2>1, <2>2, UnaskedChangeStep
<1> QED  BY <1>1, InvariantHolds, PTL DEF SessionsSpec, UnaskedChangeNeedsOverlap

LEMMA LockStep ==
  ASSUME IInv, NEW c \in SessionCall, CallStep(c), NEW k \in Key, InForce(attempts[k]),
         ~InForce(attempts'[k])
  PROVE  c \in attempts[k].passed /\ Moved(c)
<1>1. /\ attempts \in [Key -> Attempts \cup {NoAttempts}]
      /\ now \in Nat /\ Lockout \in Nat \ {0}
  BY SessionsAssumption DEF IInv, SessionsTypeOK, SessionsAssumption
<1>2. Pruned[k] = attempts[k]
  <2>1. ~Stale(attempts[k])
    BY <1>1 DEF Stale, InForce, Attempts
  <2> QED  BY <1>1, <2>1 DEF Pruned
<1>3. PastLimiter(k) \subseteq attempts[k].passed
  BY DEF IInv, LocksKnowWhoPassed
<1>4. CASE RecordFailure(c)
  <2>1. k \in Keys(c)
    BY <1>2, <1>4 DEF RecordFailure
  <2>2. Kind(c) = "login" /\ At(c, "record failure")
    BY <1>4 DEF RecordFailure, At, IInv, StagesFitRequests, LoginStages
  <2>3. Moved(c)
    BY <1>4, <2>2, WhereACallGoes DEF Moved, At, IInv, Holds
  <2> QED  BY <1>3, <2>1, <2>2, <2>3 DEF PastLimiter, At
<1>5. CASE ResetAttempts(c)
  <2>1. k \in Keys(c)
    BY <1>1, <1>5 DEF ResetAttempts
  <2>2. Kind(c) = "login" /\ At(c, "reset attempts")
    BY <1>5 DEF ResetAttempts, At, IInv, StagesFitRequests, LoginStages
  <2>3. Moved(c)
    BY <1>5, <2>2, WhereACallGoes DEF Moved, At, IInv, Holds
  <2> QED  BY <1>3, <2>1, <2>2, <2>3 DEF PastLimiter, At
<1>6. CASE attempts' = attempts \/ attempts' = Pruned
  BY <1>2, <1>6
<1> QED
  BY <1>4, <1>5, <1>6
  DEF CallStep, SessionStep, CheckLimiter, ReadLogin, Rehash, OpenSession, LookUp, CheckOwner,
      Rotate, LogOut, ReadPatch, WritePatch, RevokeSessions, WriteStatus, CreateUser,
      RegisterUser, StatementFails

(* A lock of the limiter ends before its time only by a login that was past the
   limiter when the lock came into force. *)
THEOREM LocksHold == SessionsSpec => LockEndsByTimeOrInFlight
<1> DEFINE Step ==
      \A k \in Key : InForce(attempts[k]) /\ now' = now =>
        \/ InForce(attempts'[k])
        \/ \E c \in attempts[k].passed : Moved(c)
<1>1. IInv /\ [SessionsNext]_sessionsVars => [Step]_sessionsVars
  <2> SUFFICES ASSUME IInv, SessionsNext, NEW k \in Key, InForce(attempts[k]), now' = now,
                      ~InForce(attempts'[k])
               PROVE  \E c \in attempts[k].passed : Moved(c)
    OBVIOUS
  <2>1. PICK d \in SessionCall : CallStep(d)
    BY DEF SessionsNext, CallStep, sessionsTables
  <2> QED  BY <2>1, LockStep
<1> QED  BY <1>1, InvariantHolds, PTL DEF SessionsSpec, LockEndsByTimeOrInFlight
=============================================================================

------------------------------- MODULE Sessions -------------------------------
(***************************************************************************)
(* Users and their sessions: the tables users and sessions, the in-process *)
(* limiter of failed logins, and the handlers that log in, refresh and log *)
(* out, and that create, patch, disable and restore a user.                *)
(*                                                                         *)
(* A handler is a sequence of statements with no transaction around them;  *)
(* each statement is a step, and the steps of all calls interleave.  An    *)
(* access token and the refresh token minted with it are a pair, named by  *)
(* the call that minted it, and a session is named by the call that opened *)
(* it.  The Space, Member and UserMember a session points at are left out: *)
(* nothing here reads them.                                                *)
(***************************************************************************)
EXTENDS Clock, FiniteSets

CONSTANTS
  User,            \* users, by email
  Password,
  Address,         \* client addresses
  SessionCall,     \* the HTTP requests clients make, each once
  SessionRequest,  \* what each of them asks
  FirstUser,       \* the rows of users before the first request
  AccessTTL, RefreshTTL,  \* accessTokenTTL, refreshTokenTTL
  Limit, Window, Lockout  \* loginAttemptLimiter

UserStatus == {"active", "disabled"}

(* legacy: passwordNeedsRehash of the stored hash. *)
UserRow == [status : UserStatus, password : Password, legacy : BOOLEAN]
NoUser == [status |-> "absent"]

Keep == "not in the request"

Login == [kind : {"login"}, user : User, password : Password, address : Address]
PairRequest == [kind : {"refresh", "logout"}, pair : SessionCall]
Patch == [kind : {"patch"}, user : User, password : Password \cup {Keep},
          status : UserStatus \cup {Keep}]
SetStatus == [kind : {"status"}, user : User, status : UserStatus]
Registration == [kind : {"register"}, user : User, password : Password]
Creation == [kind : {"create"}, user : User, password : Password, status : UserStatus]

ASSUME SessionsAssumption ==
  /\ SessionRequest \in [SessionCall -> Login \cup PairRequest \cup Patch
                                          \cup SetStatus \cup Registration \cup Creation]
  /\ FirstUser \in [User -> UserRow \cup {NoUser}]
  /\ Keep \notin Password
  /\ {AccessTTL, RefreshTTL, Limit, Window, Lockout} \subseteq Nat \ {0}

Row == [user : User, pair : SessionCall, expires : Nat, refreshExpires : Nat,
        revoked : BOOLEAN]
NoSession == [pair |-> "none"]

Key == ({"email"} \X User) \cup ({"ip"} \X Address)

(* lockedUntil is 0 while there is no lock; passed, for a property only, is the
   logins that were past the limiter when the lock came into force. *)
Attempts == [failures : Nat \ {0}, start : Nat, lockedUntil : Nat, lastSeen : Nat,
             passed : SUBSET SessionCall]
NoAttempts == [failures |-> 0]

Stage == {"waiting", "read user", "record failure", "reset attempts", "rehash",
          "open session", "check owner", "rotate", "write user", "revoke",
          "ok", "refused", "failed"}

(* What a call has read, and for the properties only: whether the user's row
   was written since, and the sessions the call has undertaken to end. *)
Progress == [stage : Stage, seen : UserRow \cup {NoUser},
             found : SUBSET SessionCall, raced : BOOLEAN, ended : SUBSET SessionCall]

VARIABLES
  user,         \* users
  session,      \* sessions, by the call that opened them
  attempts,     \* loginAttemptLimiter.records
  sessionTask   \* how far each call has come

sessionsTables == <<user, session, attempts, sessionTask>>
sessionsVars == <<sessionsTables, now>>

SessionsTypeOK ==
  /\ user \in [User -> UserRow \cup {NoUser}]
  /\ session \in [SessionCall -> Row \cup {NoSession}]
  /\ attempts \in [Key -> Attempts \cup {NoAttempts}]
  /\ sessionTask \in [SessionCall -> Progress]
  /\ now \in Nat

SessionsInit ==
  /\ user = FirstUser
  /\ session = [c \in SessionCall |-> NoSession]
  /\ attempts = [k \in Key |-> NoAttempts]
  /\ sessionTask = [c \in SessionCall |->
       [stage |-> "waiting", seen |-> NoUser, found |-> {}, raced |-> FALSE, ended |-> {}]]

-----------------------------------------------------------------------------
Kind(c) == SessionRequest[c].kind
Target(c) == SessionRequest[c].user
At(c, stage) == sessionTask[c].stage = stage

Go(c, stage) == sessionTask' = [sessionTask EXCEPT ![c].stage = stage]

(* The stages of a call that has read the user and may still write it. *)
HasRead(c) == sessionTask[c].stage \in {"record failure", "reset attempts", "rehash",
                                        "open session", "write user", "revoke"}

(* c writes user u and moves on; whoever has read u has read an old row. *)
GoWriting(c, u, progress) ==
  sessionTask' = [d \in SessionCall |->
    IF d = c THEN progress
    ELSE IF HasRead(d) /\ Target(d) = u THEN [sessionTask[d] EXCEPT !.raced = TRUE]
    ELSE sessionTask[d]]

Opened == { s \in SessionCall : session[s] # NoSession }

(* The sessions whose row holds the hashes of pair p. *)
Holding(p) == { s \in Opened : session[s].pair = p }

(* The sessions the UPDATE of revokeUserSessions finds. *)
Unrevoked(u) == { s \in Opened : session[s].user = u /\ ~session[s].revoked }

Revoke(sessions) ==
  session' = [s \in SessionCall |->
    IF s \in sessions THEN [session[s] EXCEPT !.revoked = TRUE] ELSE session[s]]

NewSession(c, u) ==
  [user |-> u, pair |-> c, expires |-> now + AccessTTL,
   refreshExpires |-> now + RefreshTTL, revoked |-> FALSE]

-----------------------------------------------------------------------------
(* The limiter.                                                            *)

(* loginThrottleKeys *)
Keys(c) == { <<"email", Target(c)>>, <<"ip", SessionRequest[c].address>> }

(* pruneLocked *)
Stale(record) ==
  \/ record.lockedUntil # 0 /\ record.lockedUntil < now
  \/ record.lockedUntil = 0 /\ now - record.lastSeen > 2 * Window

Pruned == [k \in Key |-> IF attempts[k] # NoAttempts /\ Stale(attempts[k])
                         THEN NoAttempts ELSE attempts[k]]

InForce(record) == record # NoAttempts /\ record.lockedUntil > now

(* A mutant of Throttled: only the key of the email is asked. *)
ThrottledByEmail(c) == InForce(attempts[<<"email", Target(c)>>])

(* retryAfter is positive. *)
Throttled(c) == \E k \in Keys(c) : InForce(attempts[k])

(* Logins on key k between their check of the limiter and their report to it. *)
PastLimiter(k) ==
  { c \in SessionCall : Kind(c) = "login" /\ k \in Keys(c)
      /\ sessionTask[c].stage \in {"read user", "record failure", "reset attempts"} }

(* A mutant of Counted: a new window starts at no failures. *)
CountedFromZero(k) ==
  LET old == Pruned[k]
      restart == old = NoAttempts \/ now - old.start > Window
      failures == IF restart THEN 0 ELSE old.failures + 1
      until == IF failures >= Limit THEN now + Lockout ELSE IF restart THEN 0 ELSE old.lockedUntil
  IN [failures |-> failures, start |-> IF restart THEN now ELSE old.start,
      lockedUntil |-> until, lastSeen |-> now,
      passed |-> IF until > now THEN PastLimiter(k) ELSE {}]

(* recordAttempt, for one key *)
Counted(k) ==
  LET old == Pruned[k]
      restart == old = NoAttempts \/ now - old.start > Window
      failures == IF restart THEN 1 ELSE old.failures + 1
      kept == IF restart THEN 0 ELSE old.lockedUntil
      until == IF failures >= Limit THEN now + Lockout ELSE kept
  IN [failures |-> failures,
      start |-> IF restart THEN now ELSE old.start,
      lockedUntil |-> until,
      lastSeen |-> now,
      passed |-> IF InForce(old) THEN old.passed
                 ELSE IF until > now THEN PastLimiter(k) ELSE {}]

-----------------------------------------------------------------------------
(* handleAuthLogin                                                         *)

CheckLimiter(c) ==
  /\ Kind(c) = "login" /\ At(c, "waiting")
  /\ attempts' = Pruned
  /\ Go(c, IF Throttled(c) THEN "refused" ELSE "read user")
  /\ UNCHANGED <<user, session, now>>

(* The query by email, and the verification of the password it finds. *)
Verified(c) ==
  LET row == user[Target(c)]
  IN row # NoUser /\ row.status = "active" /\ row.password = SessionRequest[c].password

ReadLogin(c) ==
  /\ Kind(c) = "login" /\ At(c, "read user")
  /\ sessionTask' = [sessionTask EXCEPT
       ![c].stage = IF Verified(c) THEN "reset attempts" ELSE "record failure",
       ![c].seen = user[Target(c)]]
  /\ UNCHANGED <<user, session, attempts, now>>

RecordFailure(c) ==
  /\ At(c, "record failure")
  /\ attempts' = [k \in Key |-> IF k \in Keys(c) THEN Counted(k) ELSE Pruned[k]]
  /\ Go(c, "refused")
  /\ UNCHANGED <<user, session, now>>

ResetAttempts(c) ==
  /\ At(c, "reset attempts")
  /\ attempts' = [k \in Key |-> IF k \in Keys(c) THEN NoAttempts ELSE attempts[k]]
  /\ Go(c, IF sessionTask[c].seen.legacy THEN "rehash" ELSE "open session")
  /\ UNCHANGED <<user, session, now>>

(* UpdateOneID(u.ID).SetPasswordHash: whatever the row holds by now. *)
Rehashed(c) ==
  [user[Target(c)] EXCEPT !.password = SessionRequest[c].password, !.legacy = FALSE]

Rehash(c) ==
  /\ At(c, "rehash")
  /\ user' = [user EXCEPT ![Target(c)] = Rehashed(c)]
  /\ GoWriting(c, Target(c), [sessionTask[c] EXCEPT !.stage = "open session"])
  /\ UNCHANGED <<session, attempts, now>>

(* createSessionForUser, unless the user has no active Member binding. *)
OpenSession(c) ==
  /\ At(c, "open session")
  /\ \/ /\ session' = [session EXCEPT ![c] = NewSession(c, Target(c))]
        /\ Go(c, "ok")
     \/ UNCHANGED session /\ Go(c, "refused")
  /\ UNCHANGED <<user, attempts, now>>

-----------------------------------------------------------------------------
(* handleAuthRefresh and handleAuthLogout: by a pair a client was given.   *)

HasPair(c) == At(c, "waiting") /\ At(SessionRequest[c].pair, "ok")

(* The session query of sessionByRefreshToken. *)
Refreshable(p) ==
  { s \in Holding(p) : ~session[s].revoked /\ session[s].refreshExpires > now }

LookUp(c) ==
  /\ Kind(c) = "refresh" /\ HasPair(c)
  /\ LET found == Refreshable(SessionRequest[c].pair)
     IN sessionTask' = [sessionTask EXCEPT
          ![c].stage = IF found = {} THEN "refused" ELSE "check owner",
          ![c].found = found]
  /\ UNCHANGED <<user, session, attempts, now>>

(* sessionUserActive *)
CheckOwner(c) ==
  /\ At(c, "check owner")
  /\ Go(c, IF \E s \in sessionTask[c].found : user[session[s].user].status = "active"
           THEN "rotate" ELSE "refused")
  /\ UNCHANGED <<user, session, attempts, now>>

(* UpdateOneID-style: by the session's identifier alone. *)
Rotated(c, s) == [session[s] EXCEPT !.pair = c, !.expires = now + AccessTTL]

Rotate(c) ==
  /\ At(c, "rotate")
  /\ session' = [s \in SessionCall |->
       IF s \in sessionTask[c].found THEN Rotated(c, s) ELSE session[s]]
  /\ Go(c, "ok")
  /\ UNCHANGED <<user, attempts, now>>

(* The error of the one UPDATE is ignored: the answer is logged_out anyway. *)
LogOut(c) ==
  /\ Kind(c) = "logout" /\ HasPair(c)
  /\ \/ LET found == Holding(SessionRequest[c].pair)
        IN /\ Revoke(found)
           /\ sessionTask' = [sessionTask EXCEPT ![c].stage = "ok", ![c].ended = found]
     \/ UNCHANGED session /\ Go(c, "ok")
  /\ UNCHANGED <<user, attempts, now>>

-----------------------------------------------------------------------------
(* Users: PATCH, disable, restore, POST; and the row a registration adds. *)

ReadPatch(c) ==
  /\ Kind(c) = "patch" /\ At(c, "waiting")
  /\ sessionTask' = [sessionTask EXCEPT
       ![c].stage = IF user[Target(c)] = NoUser THEN "refused" ELSE "write user",
       ![c].seen = user[Target(c)]]
  /\ UNCHANGED <<user, session, attempts, now>>

(* A mutant of Patched: a request that names no status restores the default. *)
PatchedToDefault(c) ==
  LET req == SessionRequest[c]  seen == sessionTask[c].seen
  IN [status |-> IF req.status = Keep THEN "active" ELSE req.status,
      password |-> IF req.password = Keep THEN seen.password ELSE req.password,
      legacy |-> req.password = Keep /\ seen.legacy]

(* Every column is written: what is not asked for is written as it was read. *)
Patched(c) ==
  LET req == SessionRequest[c]  seen == sessionTask[c].seen
  IN [status |-> IF req.status = Keep THEN seen.status ELSE req.status,
      password |-> IF req.password = Keep THEN seen.password ELSE req.password,
      legacy |-> req.password = Keep /\ seen.legacy]

NewPassword(c) == SessionRequest[c].password # Keep

WritePatch(c) ==
  /\ At(c, "write user")
  /\ user' = [user EXCEPT ![Target(c)] = Patched(c)]
  /\ GoWriting(c, Target(c),
       [sessionTask[c] EXCEPT !.stage = IF NewPassword(c) THEN "revoke" ELSE "ok",
                              !.ended = IF NewPassword(c) THEN Unrevoked(Target(c)) ELSE {}])
  /\ UNCHANGED <<session, attempts, now>>

(* A mutant of RevokeSessions: it skips the sessions whose access token is over. *)
RevokeUnexpiredSessions(c) ==
  /\ At(c, "revoke")
  /\ Revoke({ s \in Unrevoked(Target(c)) : session[s].expires > now })
  /\ Go(c, "ok")
  /\ UNCHANGED <<user, attempts, now>>

RevokeSessions(c) ==
  /\ At(c, "revoke")
  /\ Revoke(Unrevoked(Target(c)))
  /\ Go(c, "ok")
  /\ UNCHANGED <<user, attempts, now>>

(* updateStatus: an UPDATE that needs the row, and nothing else. *)
WriteStatus(c) ==
  /\ Kind(c) = "status" /\ At(c, "waiting")
  /\ LET u == Target(c)  row == user[u]
     IN IF row = NoUser THEN UNCHANGED user /\ Go(c, "refused")
        ELSE /\ user' = [user EXCEPT ![u] = [row EXCEPT !.status = SessionRequest[c].status]]
             /\ GoWriting(c, u, [sessionTask[c] EXCEPT !.stage = "ok"])
  /\ UNCHANGED <<session, attempts, now>>

(* handleUsers: POST; the email is unique. *)
CreateUser(c) ==
  /\ Kind(c) = "create" /\ At(c, "waiting")
  /\ LET req == SessionRequest[c]
     IN IF user[req.user] # NoUser THEN UNCHANGED user /\ Go(c, "refused")
        ELSE /\ user' = [user EXCEPT ![req.user] =
                  [status |-> req.status, password |-> req.password, legacy |-> FALSE]]
             /\ GoWriting(c, req.user, [sessionTask[c] EXCEPT !.stage = "ok"])
  /\ UNCHANGED <<session, attempts, now>>

(* The user and, but for a public registration, the session a registration
   commits together; the email is unique. *)
RegisterUser(c, opens) ==
  /\ Kind(c) = "register" /\ At(c, "waiting")
  /\ user[Target(c)] = NoUser
  /\ user' = [user EXCEPT ![Target(c)] =
       [status |-> "active", password |-> SessionRequest[c].password, legacy |-> FALSE]]
  /\ IF opens THEN session' = [session EXCEPT ![c] = NewSession(c, Target(c))]
     ELSE UNCHANGED session
  /\ GoWriting(c, Target(c), [sessionTask[c] EXCEPT !.stage = "ok"])
  /\ UNCHANGED <<attempts, now>>

-----------------------------------------------------------------------------
(* The statement a call is at fails; what it has written stays. *)
StatementFails(c) ==
  /\ sessionTask[c].stage \in {"read user", "rehash", "open session", "check owner",
                               "rotate", "write user", "revoke"}
  /\ Go(c, "failed")
  /\ UNCHANGED <<user, session, attempts, now>>

SessionStep(c) ==
  \/ CheckLimiter(c) \/ ReadLogin(c) \/ RecordFailure(c) \/ ResetAttempts(c)
  \/ Rehash(c) \/ OpenSession(c)
  \/ LookUp(c) \/ CheckOwner(c) \/ Rotate(c) \/ LogOut(c)
  \/ ReadPatch(c) \/ WritePatch(c) \/ RevokeSessions(c) \/ WriteStatus(c)
  \/ CreateUser(c)
  \/ StatementFails(c)

SessionsNext ==
  \/ Tick /\ UNCHANGED sessionsTables
  \/ \E c \in SessionCall : SessionStep(c) \/ \E opens \in BOOLEAN : RegisterUser(c, opens)

SessionsSpec == ClockInit /\ SessionsInit /\ [][SessionsNext]_sessionsVars

-----------------------------------------------------------------------------
(* Properties.                                                             *)

(* A session that a password change found open, and one that a logout matched,
   are dead for good once that call has been answered: no refresh that looked
   the session up before the revocation brings it back (handleAuthRefresh
   updates by identifier), and no later write does. *)
EndedSessionsStayEnded ==
  \A c \in SessionCall : At(c, "ok") =>
    \A s \in sessionTask[c].ended : session[s].revoked

(* The call whose step this is. *)
Moved(c) == sessionTask'[c].stage # sessionTask[c].stage

AsksPassword(c) == Kind(c) = "register" \/ (Kind(c) = "patch" /\ NewPassword(c))
AsksStatus(c) ==
  \/ Kind(c) \in {"register", "status"}
  \/ Kind(c) = "patch" /\ SessionRequest[c].status # Keep

(* A call changes the password or the status of a user without having been
   asked to only by writing over what another call wrote after it read the row
   (the PATCH writes every column, the login rehashes the password it verified). *)
UnaskedChangeNeedsOverlap ==
  [][\A u \in User, c \in SessionCall : Moved(c) /\ user[u] # NoUser =>
       /\ user'[u].password # user[u].password /\ ~AsksPassword(c) => sessionTask[c].raced
       /\ user'[u].status # user[u].status /\ ~AsksStatus(c) => sessionTask[c].raced
    ]_sessionsVars

(* A lock of the limiter is lifted before its time only by a login that was
   already past the limiter when the lock came into force: its success deletes
   the record, its failure may start a new window (recordAttempt). *)
LockEndsByTimeOrInFlight ==
  [][\A k \in Key : InForce(attempts[k]) /\ now' = now =>
       \/ InForce(attempts'[k])
       \/ \E c \in attempts[k].passed : Moved(c)]_sessionsVars
=============================================================================

---------------------------- MODULE Administration ----------------------------
(***************************************************************************)
(* Administrators: the table admin_grants, the registration of users under *)
(* an advisory lock, which also makes the first super administrator, and   *)
(* the handlers that create and revoke a grant.                            *)
(*                                                                         *)
(* The lock is held by a connection of its own while the queries and the   *)
(* transaction run on others, so a lost connection frees the lock under a  *)
(* registration that goes on.  A registration's transaction is one step:   *)
(* nobody sees its rows before it commits.  Grants are of one Space and    *)
(* carry the permission "*"; users, Members and the Space row the          *)
(* registration writes are the business of other modules.                  *)
(***************************************************************************)
EXTENDS Clock, FiniteSets

CONSTANTS
  AdminUser,      \* users who hold or are given grants
  Seed,           \* makers of the grants there may be at first, one each
  SeedGrant,      \* and their rows
  AdminCall,      \* the HTTP requests clients make, each once
  AdminRequest,   \* what each of them asks
  FeatureSets     \* the settings of the server's environment to consider

Level == {"super", "space"}

GrantRow == [user : AdminUser, level : Level, expires : Nat, revoked : BOOLEAN,
             source : {"seed", "api", "register", "bootstrap"}]
NoGrant == [level |-> "none"]

(* A grant is named by what made it, which makes at most one of each level. *)
GrantId == (Seed \cup AdminCall) \X Level

Token == {"none", "bootstrap", "ordinary", "wrong"}
Feature == {"bootstrap", "public", "ordinary"}

Register == [kind : {"register"}, user : AdminUser, token : Token]
Create == [kind : {"create"}, by : AdminUser, level : Level, user : AdminUser, expires : Nat]
Revocation == [kind : {"revoke"}, by : AdminUser, grant : GrantId]

NoHolder == "nobody"

ASSUME AdministrationAssumption ==
  /\ AdminRequest \in [AdminCall -> Register \cup Create \cup Revocation]
  /\ SeedGrant \in [Seed -> GrantRow]
  /\ \A g \in Seed : SeedGrant[g].source = "seed"
  /\ FeatureSets \subseteq SUBSET Feature
  /\ Seed \cap AdminCall = {}
  /\ NoHolder \notin AdminCall

AdminStage == {"waiting", "check", "public", "ordinary", "bootstrap", "release",
               "create", "load grant", "count", "revoke", "ok", "refused", "failed"}

(* power: the levels of the grants the caller's principal was loaded with;
   answer: what a registration still has to say once it has released the lock;
   overtaken, for a property only: a grant was revoked since the call counted. *)
AdminProgress == [stage : AdminStage, power : SUBSET Level,
                  answer : {"ok", "refused", "failed"}, overtaken : BOOLEAN]

VARIABLES
  feature,      \* which registrations the environment enables
  adminGrant,   \* admin_grants
  registerLock, \* the advisory lock
  adminTask,    \* how far each call has come
  lockLost      \* history: a registration lost its lock while it ran

adminVars == <<feature, adminGrant, registerLock, adminTask, lockLost, now>>
adminTables == <<feature, adminGrant, registerLock, adminTask, lockLost>>

AdministrationTypeOK ==
  /\ feature \subseteq Feature
  /\ adminGrant \in [GrantId -> GrantRow \cup {NoGrant}]
  /\ registerLock \in AdminCall \cup {NoHolder}
  /\ adminTask \in [AdminCall -> AdminProgress]
  /\ lockLost \in BOOLEAN
  /\ now \in Nat

AdministrationInit ==
  /\ feature \in FeatureSets
  /\ \E held \in SUBSET Seed :
       adminGrant = [g \in GrantId |-> IF g[1] \in held /\ SeedGrant[g[1]].level = g[2]
                                       THEN SeedGrant[g[1]] ELSE NoGrant]
  /\ registerLock = NoHolder
  /\ adminTask = [c \in AdminCall |->
       [stage |-> "waiting", power |-> {}, answer |-> "failed", overtaken |-> FALSE]]
  /\ lockLost = FALSE

-----------------------------------------------------------------------------
Asks(c, kind) == AdminRequest[c].kind = kind
IsAt(c, stage) == adminTask[c].stage = stage

Advance(c, stage) == adminTask' = [adminTask EXCEPT ![c].stage = stage]

Granted == { g \in GrantId : adminGrant[g] # NoGrant }

(* The filter of bootstrapRegistrationAvailable and loadActiveAdminGrants. *)
Usable(g) ==
  /\ g \in Granted
  /\ ~adminGrant[g].revoked
  /\ adminGrant[g].expires = NoExpiry \/ adminGrant[g].expires > now

UsableSupers == { g \in GrantId : Usable(g) /\ adminGrant[g].level = "super" }

(* The count of revokeAdminGrant: it does not look at expires_at. *)
CountedSupers ==
  { g \in Granted : adminGrant[g].level = "super" /\ ~adminGrant[g].revoked }

-----------------------------------------------------------------------------
(* handleAuthRegister                                                      *)

(* A mutant of AcquireLock: pg_try_advisory_lock, its answer ignored. *)
TryLock(c) ==
  /\ Asks(c, "register") /\ IsAt(c, "waiting")
  /\ registerLock' = IF registerLock = NoHolder THEN c ELSE registerLock
  /\ Advance(c, "check")
  /\ UNCHANGED <<feature, adminGrant, lockLost, now>>

AcquireLock(c) ==
  /\ Asks(c, "register") /\ IsAt(c, "waiting")
  /\ registerLock = NoHolder
  /\ registerLock' = c
  /\ Advance(c, "check")
  /\ UNCHANGED <<feature, adminGrant, lockLost, now>>

(* REGISTRATION_LOCK_UNAVAILABLE: no connection, or the wait is cancelled. *)
LockUnavailable(c) ==
  /\ Asks(c, "register") /\ IsAt(c, "waiting")
  /\ Advance(c, "failed")
  /\ UNCHANGED <<feature, adminGrant, registerLock, lockLost, now>>

(* registrationAllowed *)
Mode(c) ==
  LET token == AdminRequest[c].token
      first == UsableSupers = {}
  IN IF first /\ "bootstrap" \in feature /\ token # "none"
     THEN IF token = "bootstrap" THEN "bootstrap" ELSE "denied"
     ELSE IF "public" \in feature THEN "public"
     ELSE IF first THEN "denied"
     ELSE IF "ordinary" \in feature /\ token = "ordinary" THEN "ordinary" ELSE "denied"

(* A mutant of CheckMode: an early return that does not release the lock. *)
CheckModeKeepsLock(c) ==
  /\ IsAt(c, "check")
  /\ adminTask' = [adminTask EXCEPT
       ![c].stage = IF Mode(c) = "denied" THEN "refused" ELSE Mode(c)]
  /\ UNCHANGED <<feature, adminGrant, registerLock, lockLost, now>>

CheckMode(c) ==
  /\ IsAt(c, "check")
  /\ adminTask' = [adminTask EXCEPT
       ![c].stage = IF Mode(c) = "denied" THEN "release" ELSE Mode(c),
       ![c].answer = IF Mode(c) = "denied" THEN "refused" ELSE "failed"]
  /\ UNCHANGED <<feature, adminGrant, registerLock, lockLost, now>>

NewGrant(u, level, expires, source) ==
  [user |-> u, level |-> level, expires |-> expires, revoked |-> FALSE, source |-> source]

(* The grants a registration of each mode inserts. *)
Registered(c) ==
  LET u == AdminRequest[c].user  mode == adminTask[c].stage
  IN [g \in GrantId |->
       CASE g = <<c, "space">> /\ mode # "public" -> NewGrant(u, "space", NoExpiry, "register")
         [] g = <<c, "super">> /\ mode = "bootstrap" -> NewGrant(u, "super", NoExpiry, "bootstrap")
         [] OTHER -> adminGrant[g]]

CommitRegistration(c) ==
  /\ adminTask[c].stage \in {"public", "ordinary", "bootstrap"}
  /\ adminGrant' = Registered(c)
  /\ adminTask' = [adminTask EXCEPT ![c].stage = "release", ![c].answer = "ok"]
  /\ UNCHANGED <<feature, registerLock, lockLost, now>>

(* A statement of the transaction fails, and it is rolled back. *)
RollBack(c) ==
  /\ adminTask[c].stage \in {"check", "public", "ordinary", "bootstrap"}
  /\ Advance(c, "release")
  /\ UNCHANGED <<feature, adminGrant, registerLock, lockLost, now>>

ReleaseLock(c) ==
  /\ IsAt(c, "release")
  /\ registerLock' = IF registerLock = c THEN NoHolder ELSE registerLock
  /\ Advance(c, adminTask[c].answer)
  /\ UNCHANGED <<feature, adminGrant, lockLost, now>>

(* PostgreSQL drops a session-level lock with the session that holds it. *)
LoseLock(c) ==
  /\ registerLock = c
  /\ registerLock' = NoHolder
  /\ lockLost' = TRUE
  /\ UNCHANGED <<feature, adminGrant, adminTask, now>>

-----------------------------------------------------------------------------
(* createAdminGrant and revokeAdminGrant.  The middleware loads the caller's
   grants before the handler runs: the handler decides by them to its end.  *)

Power(u) == { adminGrant[g].level : g \in { h \in GrantId : Usable(h) /\ adminGrant[h].user = u } }

LoadPrincipal(c) ==
  /\ AdminRequest[c].kind \in {"create", "revoke"} /\ IsAt(c, "waiting")
  /\ LET power == Power(AdminRequest[c].by)
     IN adminTask' = [adminTask EXCEPT
          ![c].stage = IF power = {} THEN "refused"
                       ELSE IF Asks(c, "create") THEN "create" ELSE "load grant",
          ![c].power = power]
  /\ UNCHANGED <<feature, adminGrant, registerLock, lockLost, now>>

(* canCreateAdminGrantLevel and principalCanDelegatePermissions *)
MayDelegate(c, level) == level = "super" => "super" \in adminTask[c].power

CreateGrant(c) ==
  /\ IsAt(c, "create")
  /\ LET req == AdminRequest[c]
     IN IF MayDelegate(c, req.level)
        THEN /\ adminGrant' = [adminGrant EXCEPT ![<<c, req.level>>] =
                  NewGrant(req.user, req.level, req.expires, "api")]
             /\ Advance(c, "ok")
        ELSE UNCHANGED adminGrant /\ Advance(c, "refused")
  /\ UNCHANGED <<feature, registerLock, lockLost, now>>

LoadGrant(c) ==
  /\ IsAt(c, "load grant")
  /\ LET g == AdminRequest[c].grant
     IN Advance(c,
          IF g \notin Granted \/ ~MayDelegate(c, adminGrant[g].level) THEN "refused"
          ELSE IF adminGrant[g].level = "super" THEN "count" ELSE "revoke")
  /\ UNCHANGED <<feature, adminGrant, registerLock, lockLost, now>>

(* A mutant of CountSupers: one super administrator may go. *)
CountSupersBelowOne(c) ==
  /\ IsAt(c, "count")
  /\ Advance(c, IF Cardinality(CountedSupers) < 1 THEN "refused" ELSE "revoke")
  /\ UNCHANGED <<feature, adminGrant, registerLock, lockLost, now>>

CountSupers(c) ==
  /\ IsAt(c, "count")
  /\ Advance(c, IF Cardinality(CountedSupers) <= 1 THEN "refused" ELSE "revoke")
  /\ UNCHANGED <<feature, adminGrant, registerLock, lockLost, now>>

RevokeGrant(c) ==
  /\ IsAt(c, "revoke")
  /\ adminGrant' = [adminGrant EXCEPT ![AdminRequest[c].grant].revoked = TRUE]
  /\ adminTask' = [d \in AdminCall |->
       IF d = c THEN [adminTask[c] EXCEPT !.stage = "ok"]
       ELSE [adminTask[d] EXCEPT !.overtaken = @ \/ IsAt(d, "revoke")]]
  /\ UNCHANGED <<feature, registerLock, lockLost, now>>

(* The statement a call is at fails. *)
AdminStatementFails(c) ==
  /\ adminTask[c].stage \in {"create", "load grant", "count", "revoke"}
  /\ Advance(c, "failed")
  /\ UNCHANGED <<feature, adminGrant, registerLock, lockLost, now>>

AdminStep(c) ==
  \/ AcquireLock(c) \/ LockUnavailable(c) \/ CheckMode(c) \/ RollBack(c)
  \/ ReleaseLock(c) \/ LoseLock(c)
  \/ LoadPrincipal(c) \/ CreateGrant(c)
  \/ LoadGrant(c) \/ CountSupers(c) \/ RevokeGrant(c) \/ AdminStatementFails(c)

AdministrationNext ==
  \/ Tick /\ UNCHANGED adminTables
  \/ \E c \in AdminCall : AdminStep(c) \/ CommitRegistration(c)

AdministrationSpec ==
  ClockInit /\ AdministrationInit /\ [][AdministrationNext]_adminVars

-----------------------------------------------------------------------------
(* Properties.                                                             *)

(* Registration bootstraps one super administrator: as long as no registration
   loses its lock, no two of them leave usable super grants behind (the check of
   registrationAllowed and the insert are apart; the lock joins them). *)
AtMostOneBootstrapAdmin ==
  \/ lockLost
  \/ Cardinality({ g \in UsableSupers : adminGrant[g].source = "bootstrap" }) <= 1

(* revokeAdminGrant takes the last super grant away only when another revocation
   came between its count and its update (LAST_SUPER_ADMIN, admin_grants.go). *)
LastSuperFallsOnlyToOverlap ==
  [][CountedSupers # {} /\ CountedSupers' = {} =>
       \E c \in AdminCall : IsAt(c, "revoke") /\ adminTask[c].overtaken
                            /\ adminTask'[c].stage = "ok"]_adminVars
=============================================================================

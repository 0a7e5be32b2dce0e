------------------------- MODULE AdministrationProofs -------------------------
(***************************************************************************)
(* Proofs about Administration: the advisory lock keeps registration from  *)
(* making two first administrators, and revocation takes the last super    *)
(* grant away only when two revocations overlap.                           *)
(***************************************************************************)
EXTENDS Administration, FiniteSetTheorems, TLAPS

RegisterStages == {"check", "public", "ordinary", "bootstrap", "release"}

(* A call is at a stage of its own handler. *)
AdminStagesFit ==
  \A c \in AdminCall :
    /\ adminTask[c].stage \in RegisterStages => Asks(c, "register")
    /\ adminTask[c].stage = "create" => Asks(c, "create")
    /\ adminTask[c].stage \in {"load grant", "count", "revoke"} => Asks(c, "revoke")

(* Grants are never deleted: the one a revocation has loaded is there. *)
LoadedGrantsExist ==
  \A c \in AdminCall :
    adminTask[c].stage \in {"count", "revoke"} => adminGrant[AdminRequest[c].grant] # NoGrant

(* The second part of a grant's name is its level. *)
LevelsFit == \A g \in GrantId : adminGrant[g] # NoGrant => adminGrant[g].level = g[2]

(* As long as no lock was lost, a registration in progress holds the lock. *)
RegistrationsExclude ==
  lockLost \/ \A c \in AdminCall : adminTask[c].stage \in RegisterStages => registerLock = c

Bootstrapped == { g \in UsableSupers : adminGrant[g].source = "bootstrap" }

(* A registration that goes on to bootstrap is the first to. *)
BootstrapIsFirst ==
  \/ lockLost
  \/ /\ \A g, h \in Bootstrapped : g = h
     /\ \A c \in AdminCall : IsAt(c, "bootstrap") => Bootstrapped = {}

(* A revocation that has counted, and was not overtaken, leaves another. *)
AnotherSuperStays ==
  \A c \in AdminCall :
    IsAt(c, "revoke") /\ ~adminTask[c].overtaken
    /\ adminGrant[AdminRequest[c].grant].level = "super" =>
      \E h \in CountedSupers : h # AdminRequest[c].grant

AdminIInv ==
  /\ AdministrationTypeOK
  /\ AdminStagesFit
  /\ LoadedGrantsExist
  /\ LevelsFit
  /\ RegistrationsExclude
  /\ BootstrapIsFirst
  /\ AnotherSuperStays

-----------------------------------------------------------------------------
(* What a request carries, by its kind. *)
LEMMA AdminRequestFields ==
  ASSUME NEW c \in AdminCall
  PROVE  /\ Asks(c, "register") => AdminRequest[c].user \in AdminUser
         /\ Asks(c, "create") =>
              /\ AdminRequest[c].level \in Level
              /\ AdminRequest[c].user \in AdminUser
              /\ AdminRequest[c].expires \in Nat
         /\ Asks(c, "revoke") => AdminRequest[c].grant \in GrantId
  BY AdministrationAssumption DEF AdministrationAssumption, Asks, Register, Create, Revocation

LEMMA GrantsArePresent == \A r \in GrantRow : r # NoGrant
<1>1. \A r \in GrantRow : r.level # NoGrant.level
  BY DEF GrantRow, Level, NoGrant
<1> QED  BY <1>1

LEMMA NewGrantIsRow ==
  ASSUME NEW u \in AdminUser, NEW level \in Level, NEW expires \in Nat,
         NEW source \in {"seed", "api", "register", "bootstrap"}
  PROVE  /\ NewGrant(u, level, expires, source) \in GrantRow
         /\ NewGrant(u, level, expires, source).level = level
         /\ NewGrant(u, level, expires, source).source = source
         /\ ~NewGrant(u, level, expires, source).revoked
  BY DEF NewGrant, GrantRow

LEMMA AdminInitEstablishes == ClockInit /\ AdministrationInit => AdminIInv
<1> SUFFICES ASSUME ClockInit, AdministrationInit  PROVE AdminIInv
  OBVIOUS
<1>1. PICK held \in SUBSET Seed :
        adminGrant = [g \in GrantId |-> IF g[1] \in held /\ SeedGrant[g[1]].level = g[2]
                                        THEN SeedGrant[g[1]] ELSE NoGrant]
  BY DEF AdministrationInit
<1>2. \A g \in GrantId : adminGrant[g] # NoGrant =>
        /\ adminGrant[g] \in GrantRow
        /\ adminGrant[g].level = g[2]
        /\ adminGrant[g].source = "seed"
  BY <1>1, AdministrationAssumption DEF AdministrationAssumption
<1>3. AdministrationTypeOK
  BY <1>1, <1>2, AdministrationAssumption
  DEF AdministrationTypeOK, AdministrationAssumption, AdministrationInit, ClockInit, AdminProgress,
      AdminStage
<1>4. AdminStagesFit /\ LoadedGrantsExist /\ AnotherSuperStays /\ RegistrationsExclude
  BY DEF AdministrationInit, AdminStagesFit, LoadedGrantsExist, AnotherSuperStays,
         RegistrationsExclude, RegisterStages, IsAt
<1>5. LevelsFit
  BY <1>2 DEF LevelsFit
<1>6. BootstrapIsFirst
  <2>1. Bootstrapped = {}
    BY <1>2 DEF Bootstrapped, UsableSupers, Usable, Granted
  <2> QED  BY <2>1 DEF BootstrapIsFirst
<1> QED  BY <1>3, <1>4, <1>5, <1>6 DEF AdminIInv

-----------------------------------------------------------------------------
AdminCallStep(c) == AdminStep(c) \/ CommitRegistration(c)

(* Only the call whose step it is moves; a revocation marks the others. *)
LEMMA OneAdminMoves ==
  ASSUME AdministrationTypeOK, NEW c \in AdminCall, AdminCallStep(c)
  PROVE  /\ \A d \in AdminCall \ {c} :
              /\ adminTask'[d].stage = adminTask[d].stage
              /\ adminTask[d].overtaken => adminTask'[d].overtaken
         /\ now' = now
         /\ lockLost => lockLost'
<1> USE DEF AdministrationTypeOK, AdminProgress
<1>1. \A st : Advance(c, st) =>
        \A d \in AdminCall \ {c} : adminTask'[d].stage = adminTask[d].stage
                                   /\ adminTask'[d].overtaken = adminTask[d].overtaken
  BY DEF Advance
<1>2. CASE AcquireLock(c) \/ LockUnavailable(c) \/ RollBack(c) \/ ReleaseLock(c) \/ CreateGrant(c)
           \/ LoadGrant(c) \/ CountSupers(c) \/ AdminStatementFails(c)
  <2>1. \E st : Advance(c, st)
    BY <1>2 DEF AcquireLock, LockUnavailable, RollBack, ReleaseLock, CreateGrant, LoadGrant,
                CountSupers, AdminStatementFails
  <2>2. now' = now /\ lockLost' = lockLost
    BY <1>2 DEF AcquireLock, LockUnavailable, RollBack, ReleaseLock, CreateGrant, LoadGrant,
                CountSupers, AdminStatementFails
  <2> QED  BY <1>1, <2>1, <2>2
<1>3. CASE CheckMode(c)
  BY <1>3 DEF CheckMode
<1>4. CASE CommitRegistration(c)
  BY <1>4 DEF CommitRegistration
<1>5. CASE LoadPrincipal(c)
  BY <1>5 DEF LoadPrincipal
<1>6. CASE RevokeGrant(c)
  BY <1>6 DEF RevokeGrant
<1>7. CASE LoseLock(c)
  BY <1>7 DEF LoseLock
<1> QED
  BY <1>2, <1>3, <1>4, <1>5, <1>6, <1>7 DEF AdminCallStep, AdminStep

(* Where a step takes its call. *)
LEMMA WhereAnAdminCallGoes ==
  ASSUME AdministrationTypeOK, NEW c \in AdminCall
  PROVE  /\ AcquireLock(c) => adminTask'[c].stage = "check"
         /\ LockUnavailable(c) => adminTask'[c].stage = "failed"
         /\ CheckMode(c) =>
              adminTask'[c].stage = IF Mode(c) = "denied" THEN "release" ELSE Mode(c)
         /\ CommitRegistration(c) \/ RollBack(c) => adminTask'[c].stage = "release"
         /\ ReleaseLock(c) => adminTask'[c].stage = adminTask[c].answer
         /\ LoseLock(c) => adminTask' = adminTask
         /\ LoadPrincipal(c) =>
              adminTask'[c].stage = IF Power(AdminRequest[c].by) = {} THEN "refused"
                                    ELSE IF Asks(c, "create") THEN "create" ELSE "load grant"
         /\ CreateGrant(c) => adminTask'[c].stage \in {"ok", "refused"}
         /\ LoadGrant(c) =>
              LET g == AdminRequest[c].grant
              IN adminTask'[c].stage =
                   IF g \notin Granted \/ ~MayDelegate(c, adminGrant[g].level) THEN "refused"
                   ELSE IF adminGrant[g].level = "super" THEN "count" ELSE "revoke"
         /\ CountSupers(c) =>
              adminTask'[c].stage = IF Cardinality(CountedSupers) <= 1 THEN "refused" ELSE "revoke"
         /\ RevokeGrant(c) => adminTask'[c].stage = "ok"
         /\ AdminStatementFails(c) => adminTask'[c].stage = "failed"
<1>1. \A st : Advance(c, st) => adminTask'[c].stage = st
  BY DEF Advance, AdministrationTypeOK, AdminProgress
<1>2. CheckMode(c) => adminTask'[c].stage = IF Mode(c) = "denied" THEN "release" ELSE Mode(c)
  BY DEF CheckMode, AdministrationTypeOK, AdminProgress
<1>3. LoadPrincipal(c) =>
        adminTask'[c].stage = IF Power(AdminRequest[c].by) = {} THEN "refused"
                              ELSE IF Asks(c, "create") THEN "create" ELSE "load grant"
  BY DEF LoadPrincipal, AdministrationTypeOK, AdminProgress
<1>4. CommitRegistration(c) => adminTask'[c].stage = "release"
  BY DEF CommitRegistration, AdministrationTypeOK, AdminProgress
<1>5. RevokeGrant(c) => adminTask'[c].stage = "ok"
  BY DEF RevokeGrant, AdministrationTypeOK, AdminProgress
<1>6. LoadGrant(c) =>
        LET g == AdminRequest[c].grant
        IN adminTask'[c].stage =
             IF g \notin Granted \/ ~MayDelegate(c, adminGrant[g].level) THEN "refused"
             ELSE IF adminGrant[g].level = "super" THEN "count" ELSE "revoke"
  BY <1>1 DEF LoadGrant
<1>7. CountSupers(c) =>
        adminTask'[c].stage = IF Cardinality(CountedSupers) <= 1 THEN "refused" ELSE "revoke"
  BY <1>1 DEF CountSupers
<1>8. /\ AcquireLock(c) => adminTask'[c].stage = "check"
      /\ LockUnavailable(c) => adminTask'[c].stage = "failed"
      /\ RollBack(c) => adminTask'[c].stage = "release"
      /\ ReleaseLock(c) => adminTask'[c].stage = adminTask[c].answer
      /\ LoseLock(c) => adminTask' = adminTask
      /\ CreateGrant(c) => adminTask'[c].stage \in {"ok", "refused"}
      /\ AdminStatementFails(c) => adminTask'[c].stage = "failed"
  BY <1>1 DEF AcquireLock, LockUnavailable, RollBack, ReleaseLock, LoseLock, CreateGrant,
              AdminStatementFails
<1> QED  BY <1>2, <1>3, <1>4, <1>5, <1>6, <1>7, <1>8

-----------------------------------------------------------------------------
(* What a step may do to a grant: nothing, write a row that was not revoked,
   or revoke the one its request names.                                      *)
Kept(g) == adminGrant'[g] = adminGrant[g]

Written(c, g) ==
  /\ adminGrant'[g] \in GrantRow
  /\ adminGrant'[g].level = g[2]
  /\ ~adminGrant'[g].revoked
  /\ adminGrant'[g].source = "bootstrap" =>
       IsAt(c, "bootstrap") /\ CommitRegistration(c) /\ g = <<c, "super">>

RevokedBy(c, g) ==
  /\ RevokeGrant(c) /\ g = AdminRequest[c].grant
  /\ adminGrant'[g] = [adminGrant[g] EXCEPT !.revoked = TRUE]

LEMMA RegisteredGrants ==
  ASSUME AdminIInv, NEW c \in AdminCall, CommitRegistration(c)
  PROVE  /\ adminGrant' \in [GrantId -> GrantRow \cup {NoGrant}]
         /\ \A g \in GrantId : Kept(g) \/ Written(c, g)
<1> DEFINE u == AdminRequest[c].user
<1> DEFINE mode == adminTask[c].stage
<1>1. adminGrant' = [g \in GrantId |->
        CASE g = <<c, "space">> /\ mode # "public" -> NewGrant(u, "space", NoExpiry, "register")
          [] g = <<c, "super">> /\ mode = "bootstrap" -> NewGrant(u, "super", NoExpiry, "bootstrap")
          [] OTHER -> adminGrant[g]]
  BY DEF CommitRegistration, Registered
<1>2. u \in AdminUser
  BY AdminRequestFields DEF AdminIInv, AdminStagesFit, RegisterStages, CommitRegistration
<1>3. NoExpiry \in Nat
  BY DEF NoExpiry
<1> DEFINE space == NewGrant(u, "space", NoExpiry, "register")
<1> DEFINE super == NewGrant(u, "super", NoExpiry, "bootstrap")
<1>4. /\ space \in GrantRow /\ space.level = "space" /\ space.source = "register" /\ ~space.revoked
      /\ super \in GrantRow /\ super.level = "super" /\ super.source = "bootstrap" /\ ~super.revoked
  BY <1>2, <1>3, NewGrantIsRow DEF Level
<1>5. <<c, "space">> # <<c, "super">> /\ <<c, "space">>[2] = "space" /\ <<c, "super">>[2] = "super"
  OBVIOUS
<1>6. adminGrant \in [GrantId -> GrantRow \cup {NoGrant}]
  BY DEF AdminIInv, AdministrationTypeOK
<1> HIDE DEF space, super, mode
<1>7. \A g \in GrantId :
        \/ adminGrant'[g] = adminGrant[g]
        \/ g = <<c, "space">> /\ adminGrant'[g] = space
        \/ g = <<c, "super">> /\ adminGrant'[g] = super /\ mode = "bootstrap"
  BY <1>1, <1>5 DEF space, super
<1>8. \A g \in GrantId : Kept(g) \/ Written(c, g)
  <2> TAKE g \in GrantId
  <2>1. CASE adminGrant'[g] = adminGrant[g]
    BY <2>1 DEF Kept
  <2>2. CASE g = <<c, "space">> /\ adminGrant'[g] = space
    BY <2>2, <1>4, <1>5 DEF Written
  <2>3. CASE g = <<c, "super">> /\ adminGrant'[g] = super /\ mode = "bootstrap"
    BY <2>3, <1>4, <1>5 DEF Written, mode, IsAt
  <2> QED  BY <2>1, <2>2, <2>3, <1>7
<1>9. adminGrant' \in [GrantId -> GrantRow \cup {NoGrant}]
  <2>1. \A g \in GrantId : adminGrant'[g] \in GrantRow \cup {NoGrant}
    BY <1>4, <1>6, <1>7
  <2>2. adminGrant' = [g \in GrantId |-> adminGrant'[g]]
    BY <1>1
  <2> HIDE DEF space
  <2> QED  BY <2>1, <2>2
<1> QED  BY <1>8, <1>9

LEMMA CreatedGrants ==
  ASSUME AdminIInv, NEW c \in AdminCall, CreateGrant(c)
  PROVE  /\ adminGrant' \in [GrantId -> GrantRow \cup {NoGrant}]
         /\ \A g \in GrantId : Kept(g) \/ Written(c, g)
<1> DEFINE req == AdminRequest[c]
<1> DEFINE new == NewGrant(req.user, req.level, req.expires, "api")
<1>1. req.level \in Level /\ req.user \in AdminUser /\ req.expires \in Nat
  BY AdminRequestFields DEF AdminIInv, AdminStagesFit, CreateGrant, IsAt
<1>2. new \in GrantRow /\ new.level = req.level /\ new.source = "api" /\ ~new.revoked
  BY <1>1, NewGrantIsRow
<1>3. adminGrant \in [GrantId -> GrantRow \cup {NoGrant}]
  BY DEF AdminIInv, AdministrationTypeOK
<1>4. adminGrant' = adminGrant \/ adminGrant' = [adminGrant EXCEPT ![<<c, req.level>>] = new]
  BY DEF CreateGrant
<1>5. <<c, req.level>>[2] = req.level
  OBVIOUS
<1> HIDE DEF new
<1>6. \A g \in GrantId : Kept(g) \/ Written(c, g)
  <2> TAKE g \in GrantId
  <2>1. Kept(g) \/ (g = <<c, req.level>> /\ adminGrant'[g] = new)
    BY <1>3, <1>4 DEF Kept
  <2> QED  BY <2>1, <1>2, <1>5 DEF Written
<1> QED  BY <1>2, <1>3, <1>4, <1>6

LEMMA RevokedGrants ==
  ASSUME AdminIInv, NEW c \in AdminCall, RevokeGrant(c)
  PROVE  /\ adminGrant' \in [GrantId -> GrantRow \cup {NoGrant}]
         /\ \A g \in GrantId : Kept(g) \/ RevokedBy(c, g)
         /\ AdminRequest[c].grant \in GrantId
         /\ adminGrant[AdminRequest[c].grant] \in GrantRow
<1> DEFINE gone == AdminRequest[c].grant
<1>1. gone \in GrantId
  BY AdminRequestFields DEF AdminIInv, AdminStagesFit, RevokeGrant, IsAt
<1>2. adminGrant \in [GrantId -> GrantRow \cup {NoGrant}]
  BY DEF AdminIInv, AdministrationTypeOK
<1>3. adminGrant[gone] \in GrantRow
  BY <1>1, <1>2 DEF AdminIInv, LoadedGrantsExist, RevokeGrant, IsAt
<1>4. [adminGrant[gone] EXCEPT !.revoked = TRUE] \in GrantRow
  BY <1>3 DEF GrantRow
<1>5. adminGrant' = [adminGrant EXCEPT ![gone] = [adminGrant[gone] EXCEPT !.revoked = TRUE]]
  BY DEF RevokeGrant
<1>6. \A g \in GrantId : Kept(g) \/ RevokedBy(c, g)
  BY <1>2, <1>5 DEF Kept, RevokedBy
<1> QED  BY <1>1, <1>2, <1>3, <1>4, <1>5, <1>6

LEMMA GrantsMove ==
  ASSUME AdminIInv, NEW c \in AdminCall, AdminCallStep(c)
  PROVE  /\ adminGrant' \in [GrantId -> GrantRow \cup {NoGrant}]
         /\ \A g \in GrantId : Kept(g) \/ Written(c, g) \/ RevokedBy(c, g)
<1>1. CASE UNCHANGED adminGrant
  BY <1>1 DEF AdminIInv, AdministrationTypeOK, Kept
<1>2. CASE CommitRegistration(c)
  BY <1>2, RegisteredGrants
<1>3. CASE CreateGrant(c)
  BY <1>3, CreatedGrants
<1>4. CASE RevokeGrant(c)
  BY <1>4, RevokedGrants
<1>5. AdminStep(c) => CreateGrant(c) \/ RevokeGrant(c) \/ UNCHANGED adminGrant
  BY DEF AdminStep, AcquireLock, LockUnavailable, CheckMode, RollBack, ReleaseLock, LoseLock,
         LoadPrincipal, LoadGrant, CountSupers, AdminStatementFails
<1> QED  BY <1>1, <1>2, <1>3, <1>4, <1>5 DEF AdminCallStep

-----------------------------------------------------------------------------
LEMMA AdminTypeStep ==
  ASSUME AdminIInv, NEW c \in AdminCall, AdminCallStep(c)
  PROVE  AdministrationTypeOK'
<1> DEFINE Tasks == [AdminCall -> AdminProgress]
<1> USE DEF AdminIInv, AdministrationTypeOK
<1>1. {"waiting", "check", "public", "ordinary", "bootstrap", "release", "create", "load grant",
       "count", "revoke", "ok", "refused", "failed"} \subseteq AdminStage
  BY DEF AdminStage
<1>2. \A t \in AdminProgress, st \in AdminStage : [t EXCEPT !.stage = st] \in AdminProgress
  BY DEF AdminProgress
<1>3. \A st \in AdminStage : Advance(c, st) => adminTask' \in Tasks
  BY <1>2 DEF Advance
<1>4. adminTask' \in Tasks
  <2>1. CASE \E st \in AdminStage : Advance(c, st)
    BY <2>1, <1>3
  <2>2. adminTask[c].answer \in {"ok", "refused", "failed"}
    BY DEF AdminProgress
  <2>3. AcquireLock(c) \/ LockUnavailable(c) \/ RollBack(c) \/ ReleaseLock(c) \/ CreateGrant(c)
        \/ LoadGrant(c) \/ CountSupers(c) \/ AdminStatementFails(c) =>
          \E st \in AdminStage : Advance(c, st)
    BY <1>1, <2>2 DEF AcquireLock, LockUnavailable, RollBack, ReleaseLock, CreateGrant, LoadGrant,
                      CountSupers, AdminStatementFails
  <2>4. ASSUME CheckMode(c)  PROVE adminTask' \in Tasks
    <3>1. Mode(c) \in {"bootstrap", "denied", "public", "ordinary"}
      BY DEF Mode
    <3>2. PICK st \in AdminStage, an \in {"ok", "refused", "failed"} :
            adminTask' = [adminTask EXCEPT ![c].stage = st, ![c].answer = an]
      BY <2>4, <3>1, <1>1 DEF CheckMode
    <3> QED  BY <3>2 DEF AdminProgress
  <2>5. ASSUME CommitRegistration(c)  PROVE adminTask' \in Tasks
    BY <2>5, <1>1 DEF CommitRegistration, AdminProgress
  <2>6. ASSUME LoadPrincipal(c)  PROVE adminTask' \in Tasks
    <3>1. \A k \in AdminCall : Power(AdminRequest[k].by) \in SUBSET Level
      BY DEF Power, Usable, Granted, GrantRow
    <3>2. PICK st \in AdminStage, power \in SUBSET Level :
            adminTask' = [adminTask EXCEPT ![c].stage = st, ![c].power = power]
      BY <2>6, <3>1, <1>1 DEF LoadPrincipal
    <3> QED  BY <3>2 DEF AdminProgress
  <2>7. ASSUME RevokeGrant(c)  PROVE adminTask' \in Tasks
    <3>1. \A d \in AdminCall : [adminTask[d] EXCEPT !.overtaken = @ \/ IsAt(d, "revoke")]
                                 \in AdminProgress
      <4> TAKE d \in AdminCall
      <4>1. adminTask[d].overtaken \in BOOLEAN
        BY DEF AdminProgress
      <4>2. (adminTask[d].overtaken \/ IsAt(d, "revoke")) \in BOOLEAN
        BY DEF IsAt
      <4>3. \A t \in AdminProgress, b \in BOOLEAN : [t EXCEPT !.overtaken = b] \in AdminProgress
        BY DEF AdminProgress
      <4> QED  BY <4>2, <4>3
    <3>2. [adminTask[c] EXCEPT !.stage = "ok"] \in AdminProgress
      BY <1>1, <1>2
    <3> QED  BY <2>7, <3>1, <3>2 DEF RevokeGrant
  <2>8. ASSUME LoseLock(c)  PROVE adminTask' \in Tasks
    BY <2>8 DEF LoseLock
  <2> HIDE DEF Tasks
  <2> QED
    BY <2>1, <2>3, <2>4, <2>5, <2>6, <2>7, <2>8 DEF AdminCallStep, AdminStep
<1>5. /\ feature' = feature
      /\ registerLock' \in AdminCall \cup {NoHolder}
      /\ lockLost' \in BOOLEAN
      /\ now' = now
  BY DEF AdminCallStep, AdminStep, AcquireLock, LockUnavailable, CheckMode, RollBack, ReleaseLock,
         LoseLock, LoadPrincipal, CreateGrant, LoadGrant, CountSupers, RevokeGrant,
         AdminStatementFails, CommitRegistration
<1>6. adminGrant' \in [GrantId -> GrantRow \cup {NoGrant}]
  BY GrantsMove
<1> QED  BY <1>4, <1>5, <1>6

LEMMA AdminStagesStep ==
  ASSUME AdminIInv, NEW c \in AdminCall, AdminCallStep(c)
  PROVE  AdminStagesFit'
<1> DEFINE Fits(d) ==
      /\ adminTask[d].stage \in RegisterStages => Asks(d, "register")
      /\ adminTask[d].stage = "create" => Asks(d, "create")
      /\ adminTask[d].stage \in {"load grant", "count", "revoke"} => Asks(d, "revoke")
<1>1. \A d \in AdminCall \ {c} : Fits(d)'
  BY OneAdminMoves DEF AdminIInv, AdminStagesFit, Asks
<1>2. Fits(c)'
  <2>1. Mode(c) \in {"bootstrap", "denied", "public", "ordinary"}
    BY DEF Mode
  <2>2. adminTask[c].answer \in {"ok", "refused", "failed"}
    BY DEF AdminIInv, AdministrationTypeOK, AdminProgress
  <2>3. adminTask' = adminTask \/ \/ adminTask'[c].stage \in RegisterStages /\ Asks(c, "register")
                                  \/ adminTask'[c].stage = "create" /\ Asks(c, "create")
                                  \/ adminTask'[c].stage \in {"load grant", "count", "revoke"}
                                     /\ Asks(c, "revoke")
                                  \/ adminTask'[c].stage \in {"ok", "refused", "failed"}
    <3>1. AcquireLock(c) => Asks(c, "register")
      BY DEF AcquireLock
    <3>2. CheckMode(c) \/ RollBack(c) \/ CommitRegistration(c) => Asks(c, "register")
      BY DEF AdminIInv, AdminStagesFit, CheckMode, RollBack, CommitRegistration, IsAt,
             RegisterStages
    <3>3. LoadPrincipal(c) => Asks(c, "create") \/ Asks(c, "revoke")
      BY DEF LoadPrincipal, Asks
    <3>4. LoadGrant(c) \/ CountSupers(c) => Asks(c, "revoke")
      BY DEF AdminIInv, AdminStagesFit, LoadGrant, CountSupers, IsAt
    <3> QED
      BY <2>1, <2>2, <3>1, <3>2, <3>3, <3>4, WhereAnAdminCallGoes
      DEF AdminIInv, AdminCallStep, AdminStep, RegisterStages
  <2> QED
    BY <2>3 DEF AdminIInv, AdminStagesFit, RegisterStages, Asks
<1> QED  BY <1>1, <1>2 DEF AdminStagesFit

LEMMA AdminRowsStep ==
  ASSUME AdminIInv, NEW c \in AdminCall, AdminCallStep(c)
  PROVE  /\ \A g \in GrantId : adminGrant[g] # NoGrant => adminGrant'[g] # NoGrant
         /\ LevelsFit'
<1>1. \A g \in GrantId : adminGrant[g] # NoGrant => adminGrant[g] \in GrantRow
  BY DEF AdminIInv, AdministrationTypeOK
<1>2. \A r \in GrantRow : /\ [r EXCEPT !.revoked = TRUE] \in GrantRow
                          /\ [r EXCEPT !.revoked = TRUE].level = r.level
  BY DEF GrantRow
<1>3. \A g \in GrantId : RevokedBy(c, g) => adminGrant[g] \in GrantRow
  BY RevokedGrants DEF RevokedBy
<1> USE GrantsArePresent
<1>4. \A g \in GrantId : Kept(g) \/ Written(c, g) \/ RevokedBy(c, g)
  BY GrantsMove
<1>5. \A g \in GrantId : adminGrant[g] # NoGrant => adminGrant'[g] # NoGrant
  BY <1>2, <1>3, <1>4 DEF Kept, Written, RevokedBy
<1>6. \A g \in GrantId : adminGrant'[g] # NoGrant => adminGrant'[g].level = g[2]
  BY <1>2, <1>3, <1>4 DEF Kept, Written, RevokedBy, AdminIInv, LevelsFit
<1> QED  BY <1>5, <1>6 DEF LevelsFit, GrantId

LEMMA LoadedGrantsStep ==
  ASSUME AdminIInv, NEW c \in AdminCall, AdminCallStep(c)
  PROVE  LoadedGrantsExist'
<1>1. \A d \in AdminCall : adminTask'[d].stage \in {"count", "revoke"} =>
        Asks(d, "revoke") /\ adminGrant[AdminRequest[d].grant] # NoGrant
  <2> TAKE d \in AdminCall
  <2> HAVE adminTask'[d].stage \in {"count", "revoke"}
  <2>1. CASE adminTask[d].stage \in {"count", "revoke"}
    BY <2>1 DEF AdminIInv, AdminStagesFit, LoadedGrantsExist
  <2>2. CASE adminTask[d].stage \notin {"count", "revoke"}
    <3>1. d = c
      BY <2>2, OneAdminMoves DEF AdminIInv
    <3>2. Mode(c) \in {"bootstrap", "denied", "public", "ordinary"}
      BY DEF Mode
    <3>3. adminTask[c].answer \in {"ok", "refused", "failed"}
      BY DEF AdminIInv, AdministrationTypeOK, AdminProgress
    <3>4. LoadGrant(c) \/ CountSupers(c)
      BY <2>2, <3>1, <3>2, <3>3, WhereAnAdminCallGoes DEF AdminIInv, AdminCallStep, AdminStep
    <3>5. LoadGrant(c)
      BY <3>4, <2>2, <3>1 DEF CountSupers, IsAt
    <3>6. AdminRequest[c].grant \in Granted
      BY <3>5, <3>1, WhereAnAdminCallGoes DEF AdminIInv
    <3>7. Asks(c, "revoke")
      BY <3>5 DEF AdminIInv, AdminStagesFit, LoadGrant, IsAt
    <3> QED  BY <3>1, <3>6, <3>7 DEF Granted
  <2> QED  BY <2>1, <2>2
<1>2. \A d \in AdminCall : adminTask'[d].stage \in {"count", "revoke"} =>
        AdminRequest[d].grant \in GrantId /\ adminGrant[AdminRequest[d].grant] # NoGrant
  BY <1>1, AdminRequestFields
<1>3. \A d \in AdminCall : adminTask'[d].stage \in {"count", "revoke"} =>
        adminGrant'[AdminRequest[d].grant] # NoGrant
  BY <1>2, AdminRowsStep
<1> QED  BY <1>3 DEF LoadedGrantsExist, NoGrant

-----------------------------------------------------------------------------
(* The lock: a call that enters its registration finds it free, so no other
   registration is under way; only its own release frees it.                 *)
LEMMA ExclusionStep ==
  ASSUME AdminIInv, NEW c \in AdminCall, AdminCallStep(c)
  PROVE  RegistrationsExclude'
<1> SUFFICES ASSUME ~lockLost', NEW d \in AdminCall, adminTask'[d].stage \in RegisterStages
             PROVE  registerLock' = d
  BY DEF RegistrationsExclude, RegisterStages
<1>1. ~lockLost /\ ~LoseLock(c)
  BY OneAdminMoves DEF AdminIInv, LoseLock
<1>2. \A k \in AdminCall : adminTask[k].stage \in RegisterStages => registerLock = k
  BY <1>1 DEF AdminIInv, RegistrationsExclude
<1>3. AcquireLock(c) \/ ReleaseLock(c) \/ UNCHANGED registerLock
  BY <1>1 DEF AdminCallStep, AdminStep, LockUnavailable, CheckMode, RollBack, LoadPrincipal,
              CreateGrant, LoadGrant, CountSupers, RevokeGrant, AdminStatementFails,
              CommitRegistration
<1>4. CASE d # c
  <2>1. registerLock = d
    BY <1>2, <1>4, OneAdminMoves DEF AdminIInv
  <2>2. ~AcquireLock(c)
    BY <2>1, AdministrationAssumption DEF AcquireLock, AdministrationAssumption
  <2>3. ReleaseLock(c) => registerLock' = d
    BY <2>1, <1>4 DEF ReleaseLock
  <2> QED  BY <1>3, <2>1, <2>2, <2>3
<1>5. CASE d = c
  <2>1. AcquireLock(c) => registerLock' = c
    BY DEF AcquireLock
  <2>2. adminTask[c].answer \in {"ok", "refused", "failed"}
    BY DEF AdminIInv, AdministrationTypeOK, AdminProgress
  <2>3. ~ReleaseLock(c)
    BY <1>5, <2>2, WhereAnAdminCallGoes DEF AdminIInv, RegisterStages
  <2>4. ASSUME ~AcquireLock(c)  PROVE adminTask[c].stage \in RegisterStages
    <3>1. CheckMode(c) \/ RollBack(c) \/ CommitRegistration(c) =>
            adminTask[c].stage \in RegisterStages
      BY DEF CheckMode, RollBack, CommitRegistration, IsAt, RegisterStages
    <3> QED
      BY <1>1, <1>5, <2>3, <2>4, <3>1, WhereAnAdminCallGoes
      DEF AdminIInv, AdminCallStep, AdminStep, RegisterStages
  <2> QED  BY <1>2, <1>3, <1>5, <2>1, <2>3, <2>4
<1> QED  BY <1>4, <1>5

(* A grant becomes a usable bootstrap grant only when a registration that was
   at it commits.                                                            *)
LEMMA WhoBootstraps ==
  ASSUME AdminIInv, NEW c \in AdminCall, AdminCallStep(c), NEW g \in Bootstrapped'
  PROVE  g \in Bootstrapped \/ (IsAt(c, "bootstrap") /\ CommitRegistration(c) /\ g = <<c, "super">>)
<1>1. g \in GrantId
  BY DEF Bootstrapped, UsableSupers, GrantId
<1>2. now' = now
  BY OneAdminMoves DEF AdminIInv
<1>3. /\ adminGrant'[g] # NoGrant /\ ~adminGrant'[g].revoked
      /\ adminGrant'[g].expires = NoExpiry \/ adminGrant'[g].expires > now
      /\ adminGrant'[g].level = "super" /\ adminGrant'[g].source = "bootstrap"
  BY <1>2 DEF Bootstrapped, UsableSupers, Usable, Granted, NoGrant, NoExpiry
<1>4. Kept(g) => g \in Bootstrapped
  BY <1>1, <1>3 DEF Kept, Bootstrapped, UsableSupers, Usable, Granted
<1>5. ~RevokedBy(c, g)
  <2>1. \A r \in GrantRow : [r EXCEPT !.revoked = TRUE].revoked
    BY DEF GrantRow
  <2>2. RevokedBy(c, g) => adminGrant[g] \in GrantRow
    BY RevokedGrants DEF RevokedBy
  <2> QED  BY <1>3, <2>1, <2>2 DEF RevokedBy
<1>6. Written(c, g) => IsAt(c, "bootstrap") /\ CommitRegistration(c) /\ g = <<c, "super">>
  BY <1>3 DEF Written
<1> QED  BY <1>1, <1>4, <1>5, <1>6, GrantsMove

LEMMA FirstStep ==
  ASSUME AdminIInv, NEW c \in AdminCall, AdminCallStep(c)
  PROVE  BootstrapIsFirst'
<1> SUFFICES ASSUME ~lockLost'
             PROVE  /\ \A g, h \in Bootstrapped' : g = h
                    /\ \A d \in AdminCall : adminTask'[d].stage = "bootstrap" => Bootstrapped' = {}
  BY DEF BootstrapIsFirst, IsAt
<1>1. ~lockLost /\ ~LoseLock(c)
  BY OneAdminMoves DEF AdminIInv, LoseLock
<1>2. /\ \A g, h \in Bootstrapped : g = h
      /\ \A d \in AdminCall : adminTask[d].stage = "bootstrap" => Bootstrapped = {}
  BY <1>1 DEF AdminIInv, BootstrapIsFirst, IsAt
<1>3. CASE IsAt(c, "bootstrap") /\ CommitRegistration(c)
  <2>1. Bootstrapped' \subseteq {<<c, "super">>}
    BY <1>2, <1>3, WhoBootstraps DEF IsAt
  <2>2. \A d \in AdminCall : adminTask'[d].stage # "bootstrap"
    <3>1. registerLock = c
      BY <1>1, <1>3 DEF AdminIInv, RegistrationsExclude, IsAt, RegisterStages
    <3>2. adminTask'[c].stage = "release"
      BY <1>3, WhereAnAdminCallGoes DEF AdminIInv
    <3>3. \A d \in AdminCall \ {c} : adminTask[d].stage # "bootstrap"
      BY <1>1, <3>1 DEF AdminIInv, RegistrationsExclude, RegisterStages
    <3> QED  BY <3>2, <3>3, OneAdminMoves DEF AdminIInv
  <2> QED  BY <2>1, <2>2
<1>4. CASE ~(IsAt(c, "bootstrap") /\ CommitRegistration(c))
  <2>1. Bootstrapped' \subseteq Bootstrapped
    BY <1>4, WhoBootstraps
  <2>2. ASSUME NEW d \in AdminCall, adminTask'[d].stage = "bootstrap"
        PROVE  Bootstrapped = {}
    <3>1. CASE adminTask[d].stage = "bootstrap"
      BY <1>2, <3>1
    <3>2. CASE adminTask[d].stage # "bootstrap"
      <4>1. d = c
        BY <2>2, <3>2, OneAdminMoves DEF AdminIInv
      <4>2. adminTask[c].answer \in {"ok", "refused", "failed"}
        BY DEF AdminIInv, AdministrationTypeOK, AdminProgress
      <4>3. CheckMode(c)
        BY <1>1, <2>2, <4>1, <4>2, WhereAnAdminCallGoes DEF AdminIInv, AdminCallStep, AdminStep
      <4>4. Mode(c) = "bootstrap"
        BY <2>2, <4>1, <4>3, WhereAnAdminCallGoes DEF AdminIInv
      <4>5. UsableSupers = {}
        BY <4>4 DEF Mode
      <4> QED  BY <4>5 DEF Bootstrapped
    <3> QED  BY <3>1, <3>2
  <2> QED  BY <1>2, <2>1, <2>2
<1> QED  BY <1>3, <1>4

-----------------------------------------------------------------------------
(* Of the super grants a revocation counts, those it does not revoke stay.   *)
LEMMA OtherSupersStay ==
  ASSUME AdminIInv, NEW c \in AdminCall, AdminCallStep(c),
         NEW h \in CountedSupers, ~RevokedBy(c, h)
  PROVE  h \in CountedSupers'
<1>1. /\ h \in GrantId /\ adminGrant[h] # NoGrant
      /\ adminGrant[h].level = "super" /\ ~adminGrant[h].revoked
  BY DEF CountedSupers, Granted
<1>2. h[2] = "super"
  BY <1>1 DEF AdminIInv, LevelsFit
<1>3. adminGrant'[h] # NoGrant
  BY <1>1, AdminRowsStep
<1>4. adminGrant'[h].level = "super" /\ ~adminGrant'[h].revoked
  BY <1>1, <1>2, GrantsMove DEF Kept, Written
<1> QED  BY <1>1, <1>3, <1>4 DEF CountedSupers, Granted, GrantId, NoGrant

LEMMA AnotherStaysStep ==
  ASSUME AdminIInv, NEW c \in AdminCall, AdminCallStep(c)
  PROVE  AnotherSuperStays'
<1> SUFFICES ASSUME NEW d \in AdminCall, adminTask'[d].stage = "revoke",
                    ~adminTask'[d].overtaken,
                    adminGrant'[AdminRequest[d].grant].level = "super"
             PROVE  \E h \in CountedSupers' : h # AdminRequest[d].grant
  BY DEF AnotherSuperStays, IsAt
<1> DEFINE g == AdminRequest[d].grant
<1>1. Asks(d, "revoke")
  BY AdminStagesStep DEF AdminStagesFit, Asks
<1>2. g \in GrantId
  BY <1>1, AdminRequestFields
<1>3. CASE adminTask[d].stage = "revoke"
  <2>1. d # c \/ LoseLock(c)
    <3>1. AdminStatementFails(c) \/ RevokeGrant(c) => d # c
      BY WhereAnAdminCallGoes DEF AdminIInv
    <3>2. ASSUME d = c
          PROVE  AdminStatementFails(c) \/ RevokeGrant(c) \/ LoseLock(c)
      BY <1>3, <3>2 DEF AdminCallStep, AdminStep, AcquireLock, LockUnavailable, CheckMode, RollBack,
             ReleaseLock, LoadPrincipal, CreateGrant, LoadGrant, CountSupers, CommitRegistration,
             IsAt
    <3> QED  BY <3>1, <3>2
  <2>2. ~adminTask[d].overtaken
    BY <2>1, OneAdminMoves DEF AdminIInv, LoseLock
  <2>3. ~RevokeGrant(c)
    <3>1. CASE d = c
      BY <3>1, WhereAnAdminCallGoes DEF AdminIInv
    <3>2. CASE d # c
      <4>1. RevokeGrant(c) => adminTask'[d] = [adminTask[d] EXCEPT !.overtaken = @ \/ IsAt(d, "revoke")]
        BY <3>2 DEF RevokeGrant
      <4>2. \A b : [adminTask[d] EXCEPT !.overtaken = b].overtaken = b
        BY DEF AdminIInv, AdministrationTypeOK, AdminProgress
      <4> QED  BY <1>3, <4>1, <4>2 DEF IsAt
    <3> QED  BY <3>1, <3>2
  <2>4. adminGrant[g].level = "super"
    <3>1. adminGrant[g] # NoGrant
      BY <1>3 DEF AdminIInv, LoadedGrantsExist
    <3>2. adminGrant'[g] # NoGrant
      BY <1>2, <3>1, AdminRowsStep
    <3>3. adminGrant'[g].level = g[2]
      BY <1>2, <3>2, AdminRowsStep DEF LevelsFit, GrantId, NoGrant
    <3> QED  BY <1>2, <3>1, <3>3 DEF AdminIInv, LevelsFit
  <2>5. PICK h \in CountedSupers : h # g
    BY <1>3, <2>2, <2>4 DEF AdminIInv, AnotherSuperStays, IsAt
  <2>6. h \in CountedSupers'
    BY <2>3, <2>5, OtherSupersStay DEF RevokedBy
  <2> QED  BY <2>5, <2>6
<1>4. CASE adminTask[d].stage # "revoke"
  <2>1. d = c
    BY <1>4, OneAdminMoves DEF AdminIInv
  <2>2. Mode(c) \in {"bootstrap", "denied", "public", "ordinary"}
    BY DEF Mode
  <2>3. adminTask[c].answer \in {"ok", "refused", "failed"}
    BY DEF AdminIInv, AdministrationTypeOK, AdminProgress
  <2>4. LoadGrant(c) \/ CountSupers(c)
    BY <1>4, <2>1, <2>2, <2>3, WhereAnAdminCallGoes DEF AdminIInv, AdminCallStep, AdminStep
  <2>5. adminGrant' = adminGrant
    BY <2>4 DEF LoadGrant, CountSupers
  <2>6. ~LoadGrant(c)
    BY <2>1, <2>5, WhereAnAdminCallGoes DEF AdminIInv
  <2>7. ~(Cardinality(CountedSupers) <= 1)
    BY <2>1, <2>4, <2>6, WhereAnAdminCallGoes DEF AdminIInv
  <2>8. CountedSupers # {} /\ CountedSupers # {g}
    <3>1. Cardinality({}) = 0 /\ Cardinality({g}) = 1
      BY FS_EmptySet, FS_Singleton
    <3> QED  BY <2>7, <3>1
  <2>9. PICK h \in CountedSupers : h # g
    BY <2>8
  <2> QED  BY <2>5, <2>9 DEF CountedSupers, Granted, GrantId, NoGrant
<1> QED  BY <1>3, <1>4

-----------------------------------------------------------------------------
LEMMA AdminStepPreserves ==
  ASSUME AdminIInv, NEW c \in AdminCall, AdminCallStep(c)
  PROVE  AdminIInv'
BY AdminTypeStep, AdminStagesStep, AdminRowsStep, LoadedGrantsStep, ExclusionStep, FirstStep,
   AnotherStaysStep
DEF AdminIInv

(* Time takes usable grants away and changes nothing else. *)
LEMMA AdminTickPreserves ==
  ASSUME AdminIInv, Tick, UNCHANGED adminTables
  PROVE  AdminIInv'
<1> USE DEF adminTables
<1>1. now' = now + 1 /\ now' \in Nat
  BY DEF Tick, AdminIInv, AdministrationTypeOK
<1>2. AdministrationTypeOK'
  BY <1>1 DEF AdminIInv, AdministrationTypeOK
<1>3. AdminStagesFit' /\ LoadedGrantsExist' /\ LevelsFit' /\ RegistrationsExclude'
  BY DEF AdminIInv, AdminStagesFit, LoadedGrantsExist, LevelsFit, RegistrationsExclude, Asks,
         RegisterStages, GrantId, NoGrant
<1>4. Bootstrapped' \subseteq Bootstrapped
  <2>1. \A g \in GrantId : adminGrant[g] # NoGrant => adminGrant[g].expires \in Nat
    BY DEF AdminIInv, AdministrationTypeOK, GrantRow
  <2>2. now \in Nat
    BY DEF AdminIInv, AdministrationTypeOK
  <2> QED  BY <1>1, <2>1, <2>2 DEF Bootstrapped, UsableSupers, Usable, Granted, GrantId, NoGrant, NoExpiry
<1>5. BootstrapIsFirst'
  BY <1>4 DEF AdminIInv, BootstrapIsFirst, IsAt
<1>6. AnotherSuperStays'
  BY DEF AdminIInv, AnotherSuperStays, IsAt, CountedSupers, Granted, GrantId, NoGrant
<1> QED  BY <1>2, <1>3, <1>5, <1>6 DEF AdminIInv

LEMMA AdminStutterPreserves ==
  ASSUME AdminIInv, UNCHANGED adminVars
  PROVE  AdminIInv'
<1> USE DEF adminVars
<1>1. AdministrationTypeOK'
  BY DEF AdminIInv, AdministrationTypeOK
<1>2. AdminStagesFit' /\ LoadedGrantsExist' /\ LevelsFit' /\ RegistrationsExclude'
  BY DEF AdminIInv, AdminStagesFit, LoadedGrantsExist, LevelsFit, RegistrationsExclude, Asks,
         RegisterStages, GrantId, NoGrant
<1>3. BootstrapIsFirst'
  BY DEF AdminIInv, BootstrapIsFirst, Bootstrapped, UsableSupers, Usable, Granted, IsAt, GrantId,
         NoGrant, NoExpiry
<1>4. AnotherSuperStays'
  BY DEF AdminIInv, AnotherSuperStays, IsAt, CountedSupers, Granted, GrantId, NoGrant
<1> QED  BY <1>1, <1>2, <1>3, <1>4 DEF AdminIInv

(* Every reachable state of the specification satisfies the invariant. *)
THEOREM AdminInvariantHolds == AdministrationSpec => []AdminIInv
<1>1. AdminIInv /\ [AdministrationNext]_adminVars => AdminIInv'
  BY AdminStepPreserves, AdminTickPreserves, AdminStutterPreserves
  DEF AdministrationNext, AdminCallStep
<1> QED  BY <1>1, AdminInitEstablishes, PTL DEF AdministrationSpec

(* admin_grants, the advisory lock and the calls keep their types. *)
THEOREM AdministrationTypeCorrect == AdministrationSpec => []AdministrationTypeOK
BY AdminInvariantHolds, PTL DEF AdminIInv

(* Registration makes one usable first super administrator as long as no
   registration loses the advisory lock it took (handleAuthRegister). *)
THEOREM FirstAdminIsUnique == AdministrationSpec => []AtMostOneBootstrapAdmin
<1>1. AdminIInv => AtMostOneBootstrapAdmin
  <2> SUFFICES ASSUME AdminIInv, ~lockLost
               PROVE  Cardinality(Bootstrapped) <= 1
    BY DEF AtMostOneBootstrapAdmin, Bootstrapped
  <2>1. \A g, h \in Bootstrapped : g = h
    BY DEF AdminIInv, BootstrapIsFirst
  <2>2. Bootstrapped = {} \/ \E g : Bootstrapped = {g}
    BY <2>1
  <2> QED  BY <2>2, FS_EmptySet, FS_Singleton
<1> QED  BY <1>1, AdminInvariantHolds, PTL

(* revokeAdminGrant takes the last super grant away only in a call that
   another revocation overtook between its count and its update. *)
THEOREM LastSuperNeedsOverlap == AdministrationSpec => LastSuperFallsOnlyToOverlap
<1> DEFINE Falls == CountedSupers # {} /\ CountedSupers' = {} =>
       \E c \in AdminCall : IsAt(c, "revoke") /\ adminTask[c].overtaken
                            /\ adminTask'[c].stage = "ok"
<1>1. AdminIInv /\ [AdministrationNext]_adminVars => Falls
  <2> SUFFICES ASSUME AdminIInv, [AdministrationNext]_adminVars,
                      CountedSupers # {}, CountedSupers' = {}
               PROVE  \E c \in AdminCall : IsAt(c, "revoke") /\ adminTask[c].overtaken
                                           /\ adminTask'[c].stage = "ok"
    OBVIOUS
  <2>1. adminGrant' # adminGrant
    BY DEF CountedSupers, Granted, GrantId, NoGrant
  <2>2. PICK c \in AdminCall : AdminCallStep(c)
    BY <2>1 DEF AdministrationNext, AdminCallStep, adminVars, adminTables
  <2>3. PICK h \in CountedSupers : TRUE
    OBVIOUS
  <2>4. RevokeGrant(c) /\ h = AdminRequest[c].grant
    BY <2>2, OtherSupersStay DEF RevokedBy
  <2>5. adminTask[c].overtaken
    <3>1. ASSUME ~adminTask[c].overtaken  PROVE FALSE
      <4>1. adminGrant[AdminRequest[c].grant].level = "super"
        BY <2>4 DEF CountedSupers
      <4>2. PICK other \in CountedSupers : other # AdminRequest[c].grant
        BY <2>4, <3>1, <4>1 DEF AdminIInv, AnotherSuperStays, RevokeGrant
      <4> QED  BY <2>2, <4>2, OtherSupersStay DEF RevokedBy
    <3> QED  BY <3>1
  <2>6. IsAt(c, "revoke") /\ adminTask'[c].stage = "ok"
    BY <2>4, WhereAnAdminCallGoes DEF AdminIInv, RevokeGrant
  <2> QED  BY <2>5, <2>6
<1>2. AdminIInv /\ [AdministrationNext]_adminVars => [Falls]_adminVars
  BY <1>1
<1> QED
  BY <1>2, AdminInvariantHolds, PTL DEF AdministrationSpec, LastSuperFallsOnlyToOverlap
=============================================================================

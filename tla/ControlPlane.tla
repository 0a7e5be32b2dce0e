----------------------------- MODULE ControlPlane -----------------------------
(***************************************************************************)
(* The control plane of one database: users and sessions, administrators   *)
(* and registration, Spaces, authorization checks and provider governance, *)
(* as the requests of many clients interleave on their tables.             *)
(*                                                                         *)
(* The components meet in three places.  A registration commits, in one    *)
(* transaction, an administrator's grants, a user with a session, and the  *)
(* default Space as active.  A check reads the users and the Spaces the    *)
(* other handlers write.  And all of them read one clock.                  *)
(*                                                                         *)
(* The calls of an instance need not all be made in one run: a workload    *)
(* says which are, until when, how the server is configured, and which     *)
(* administrators it starts with.                                          *)
(***************************************************************************)
EXTENDS Administration, AuthzCheck, ProviderGovernance

CONSTANT Workloads   \* records of calls, until, feature and held

ASSUME ControlPlaneAssumption ==
  /\ \A w \in Workloads : /\ DOMAIN w = {"calls", "until", "feature", "held"}
                          /\ w.until \in Nat
                          /\ w.feature \in FeatureSets
                          /\ w.held \subseteq Seed
  /\ \A c \in AdminCall : AdminRequest[c].kind = "register" =>
       /\ c \in SessionCall
       /\ SessionRequest[c].kind = "register"
       /\ SessionRequest[c].user = AdminRequest[c].user

VARIABLE workload   \* what this run is made of; it never changes


vars == <<now, sessionsTables, adminTables, spacesVars, authzVars, governanceVars, workload>>

TypeOK ==
  /\ SessionsTypeOK
  /\ AdministrationTypeOK
  /\ SpacesTypeOK
  /\ AuthzTypeOK
  /\ GovernanceTypeOK

Init ==
  /\ workload \in Workloads
  /\ ClockInit
  /\ SessionsInit
  /\ AdministrationInit
  /\ feature = workload.feature
  /\ { g[1] : g \in Granted } = workload.held
  /\ SpacesInit
  /\ AuthzInit
  /\ GovernanceInit

-----------------------------------------------------------------------------
Admitted(c) == c \in workload.calls

SessionsStep(c) ==
  /\ Admitted(c)
  /\ SessionStep(c)
  /\ UNCHANGED <<adminTables, spacesVars, governanceVars, workload>>
  /\ ChecksNotice

AdministrationStep(c) ==
  /\ Admitted(c)
  /\ AdminStep(c)
  /\ UNCHANGED <<sessionsTables, spacesVars, authzVars, governanceVars, workload>>

(* The commit of handleAuthRegister, or of handlePublicUserOnlyRegister, which
   writes the user alone. *)
RegistrationCommits(c) ==
  /\ CommitRegistration(c)
  /\ LET whole == ~IsAt(c, "public")
     IN /\ RegisterUser(c, whole)
        /\ IF whole THEN EnsureDefaultSpace ELSE UNCHANGED spacesVars
  /\ UNCHANGED <<governanceVars, workload>>
  /\ ChecksNotice

SpacesStep(c) ==
  /\ Admitted(c)
  /\ SpaceStep(c)
  /\ UNCHANGED <<now, sessionsTables, adminTables, governanceVars, workload>>
  /\ ChecksNotice

AuthzStep ==
  /\ \/ \E c \in Check : Admitted(c) /\ CheckStep(c)
     \/ \E w \in DirectoryWrite : Admitted(w.name) /\ WriteDirectory(w)
  /\ UNCHANGED <<now, sessionsTables, adminTables, spacesVars, governanceVars, workload>>

ProviderStep(c) ==
  /\ Admitted(c)
  /\ GovernanceStep(c)
  /\ UNCHANGED <<now, sessionsTables, adminTables, spacesVars, authzVars, workload>>

TimePasses ==
  /\ now < workload.until
  /\ Tick
  /\ UNCHANGED <<sessionsTables, adminTables, spacesVars, authzVars, governanceVars, workload>>

Next ==
  \/ TimePasses
  \/ AuthzStep
  \/ \E c \in SessionCall : SessionsStep(c)
  \/ \E c \in AdminCall : AdministrationStep(c) \/ RegistrationCommits(c)
  \/ \E c \in SpaceCall : SpacesStep(c)
  \/ \E c \in GovernanceCall : ProviderStep(c)

Spec == Init /\ [][Next]_vars

(* A registration goes on while it can: the server runs its handler, and
   PostgreSQL hands a free advisory lock to a waiter. *)
RegistrationStep(c) ==
  \/ /\ Admitted(c)
     /\ AcquireLock(c) \/ CheckMode(c) \/ RollBack(c) \/ ReleaseLock(c)
     /\ UNCHANGED <<sessionsTables, spacesVars, authzVars, governanceVars, workload>>
  \/ RegistrationCommits(c)

Registering == { c \in AdminCall : Asks(c, "register") }

FairSpec == Spec /\ \A c \in Registering : WF_vars(RegistrationStep(c))

-----------------------------------------------------------------------------
(* Properties.                                                             *)

(* Every registration is answered: whatever comes of it, a registration gives
   the lock back, so the ones that wait for it get their turn. *)
RegistrationsAnswered ==
  \A c \in Registering : Admitted(c) =>
    <>(adminTask[c].stage \in {"ok", "refused", "failed"})
=============================================================================

-------------------------- MODULE ProviderGovernance --------------------------
(***************************************************************************)
(* The provider governance ledger: the tables provider_installations,      *)
(* provider_migration_revisions and provider_migration_steps.  Installing  *)
(* a plugin manifest plans or disables its installation; an administrator  *)
(* files the migration revisions of an active installation and reviews     *)
(* them.  Every handler reads, decides by what it read, and writes by      *)
(* identifier; only the insertion of a revision with its steps is a        *)
(* transaction.                                                            *)
(*                                                                         *)
(* Of a migration plan the model keeps what the ledger decides by: the     *)
(* fields a replay is compared by are one value, its bundle; risky says    *)
(* that some step is destructive, a backfill or bypasses row security.     *)
(***************************************************************************)
EXTENDS Integers, FiniteSets

CONSTANTS
  Plugin,             \* provider plugins
  RevisionKey,        \* what callers name their revisions
  Bundle,             \* bundle hashes and schema versions
  DestructiveBundle,  \* those filed as destructive or bypassing row security
  Identifier,         \* primary keys of revisions
  IdentifierOf,       \* safeIdentifier of a plugin and a revision key: not injective
  GovernanceCall,     \* the HTTP requests clients make, each once
  GovernanceRequest   \* what each of them asks

Install == [kind : {"install"}, plugin : Plugin, dataPlane : BOOLEAN]
FilePlan == [kind : {"file"}, plugin : Plugin, key : RevisionKey, bundle : Bundle,
             risky : BOOLEAN, manual : BOOLEAN]
Review == [kind : {"review"}, id : Identifier, approved : BOOLEAN]

ASSUME GovernanceAssumption ==
  /\ GovernanceRequest \in [GovernanceCall -> Install \cup FilePlan \cup Review]
  /\ IdentifierOf \in [Plugin \X RevisionKey -> Identifier]
  /\ DestructiveBundle \subseteq Bundle

InstallationStatus == {"absent", "planned", "disabled"}
RevisionStatus == {"planned", "review_required", "approved", "rejected"}

Filed == [plugin : Plugin, key : RevisionKey, bundle : Bundle, risky : BOOLEAN,
          manual : BOOLEAN, status : RevisionStatus]
NotFiled == [status |-> "absent"]

(* found: the installation's status as the call has read it; raced, for the
   properties only: the row has been written since. *)
GovernanceProgress ==
  [stage : {"waiting", "write installation", "look up", "insert", "write review",
            "ok", "refused", "failed"},
   found : InstallationStatus, raced : BOOLEAN]

VARIABLES
  installation,    \* the status of each plugin's provider_installations row
  migration,       \* provider_migration_revisions with their steps, by identifier
  governanceTask   \* how far each call has come

governanceVars == <<installation, migration, governanceTask>>

GovernanceTypeOK ==
  /\ installation \in [Plugin -> InstallationStatus]
  /\ migration \in [Identifier -> Filed \cup {NotFiled}]
  /\ governanceTask \in [GovernanceCall -> GovernanceProgress]

GovernanceInit ==
  /\ installation = [p \in Plugin |-> "absent"]
  /\ migration = [i \in Identifier |-> NotFiled]
  /\ governanceTask = [c \in GovernanceCall |->
       [stage |-> "waiting", found |-> "absent", raced |-> FALSE]]

-----------------------------------------------------------------------------
Wants(c, kind) == GovernanceRequest[c].kind = kind
PluginOf(c) == GovernanceRequest[c].plugin
Stands(c, stage) == governanceTask[c].stage = stage

Proceed(c, stage) == governanceTask' = [governanceTask EXCEPT ![c].stage = stage]

(* The calls that have read the installation of p and not finished. *)
Relies(c, p) ==
  /\ governanceTask[c].stage \in {"write installation", "look up", "insert"}
  /\ PluginOf(c) = p

ReadInstallation(c, stage) ==
  governanceTask' = [governanceTask EXCEPT ![c].stage = stage,
                                           ![c].found = installation[PluginOf(c)]]

-----------------------------------------------------------------------------
(* ensureProviderInstallationForManifest, as handlePluginInstall calls it.  *)

ReadForInstall(c) ==
  /\ Wants(c, "install") /\ Stands(c, "waiting")
  /\ ReadInstallation(c,
       IF installation[PluginOf(c)] = "absent" /\ ~GovernanceRequest[c].dataPlane
       THEN "ok" ELSE "write installation")
  /\ UNCHANGED <<installation, migration>>

(* A mutant of InstalledStatus: a data plane plans the installation anew. *)
InstalledAnew(c) == IF GovernanceRequest[c].dataPlane THEN "planned" ELSE "disabled"

(* firstNonEmpty(existing.Status, "planned") when the manifest has a data plane. *)
InstalledStatus(c) ==
  LET found == governanceTask[c].found
  IN IF ~GovernanceRequest[c].dataPlane THEN "disabled"
     ELSE IF found = "absent" THEN "planned" ELSE found

(* An INSERT when the call found no row, which fails if there is one by now. *)
WriteInstallation(c) ==
  /\ Stands(c, "write installation")
  /\ LET p == PluginOf(c)
     IN IF governanceTask[c].found = "absent" /\ installation[p] # "absent"
        THEN Proceed(c, "failed") /\ UNCHANGED installation
        ELSE /\ installation' = [installation EXCEPT ![p] = InstalledStatus(c)]
             /\ governanceTask' = [d \in GovernanceCall |->
                  IF d = c THEN [governanceTask[c] EXCEPT !.stage = "ok"]
                  ELSE [governanceTask[d] EXCEPT !.raced = @ \/ Relies(d, p)]]
  /\ UNCHANGED migration

-----------------------------------------------------------------------------
(* createProviderMigrationRevision                                         *)

ReadForPlan(c) ==
  /\ Wants(c, "file") /\ Stands(c, "waiting")
  /\ ReadInstallation(c,
       IF installation[PluginOf(c)] = "planned" THEN "look up" ELSE "refused")
  /\ UNCHANGED <<installation, migration>>

(* The row the unique index (provider_plugin_id, revision) finds. *)
FiledAs(p, key) ==
  { i \in Identifier : migration[i] # NotFiled /\ migration[i].plugin = p
                                              /\ migration[i].key = key }

(* A mutant of ReplayMatches: the key alone makes a replay. *)
ReplayMatchesByKey(c, i) == migration[i].key = GovernanceRequest[c].key

(* providerMigrationRevisionReplayMatches compares neither the steps nor
   requires_manual_review. *)
ReplayMatches(c, i) == migration[i].bundle = GovernanceRequest[c].bundle

LookUpRevision(c) ==
  /\ Stands(c, "look up")
  /\ LET found == FiledAs(PluginOf(c), GovernanceRequest[c].key)
     IN Proceed(c, IF found = {} THEN "insert"
                   ELSE IF \A i \in found : ReplayMatches(c, i) THEN "ok" ELSE "refused")
  /\ UNCHANGED <<installation, migration>>

NeedsReview(bundle, risky, manual) == manual \/ risky \/ bundle \in DestructiveBundle

(* A mutant of NewRevision: the steps of the plan are not looked at. *)
NewRevisionByBundle(c) ==
  LET req == GovernanceRequest[c]
  IN [plugin |-> req.plugin, key |-> req.key, bundle |-> req.bundle,
      risky |-> req.risky, manual |-> req.manual,
      status |-> IF NeedsReview(req.bundle, FALSE, req.manual)
                 THEN "review_required" ELSE "planned"]

NewRevision(c) ==
  LET req == GovernanceRequest[c]
  IN [plugin |-> req.plugin, key |-> req.key, bundle |-> req.bundle,
      risky |-> req.risky, manual |-> req.manual,
      status |-> IF NeedsReview(req.bundle, req.risky, req.manual)
                 THEN "review_required" ELSE "planned"]

(* The transaction: the row and its steps, or a conflict on either key. *)
InsertRevision(c) ==
  /\ Stands(c, "insert")
  /\ LET id == IdentifierOf[<<PluginOf(c), GovernanceRequest[c].key>>]
         taken == migration[id] # NotFiled
                  \/ FiledAs(PluginOf(c), GovernanceRequest[c].key) # {}
     IN /\ migration' = IF taken THEN migration
                        ELSE [migration EXCEPT ![id] = NewRevision(c)]
        /\ Proceed(c, IF taken THEN "failed" ELSE "ok")
  /\ UNCHANGED installation

-----------------------------------------------------------------------------
(* reviewProviderMigrationRevision: whatever the status of the revision.   *)

ReadForReview(c) ==
  /\ Wants(c, "review") /\ Stands(c, "waiting")
  /\ Proceed(c, IF migration[GovernanceRequest[c].id] = NotFiled
                THEN "refused" ELSE "write review")
  /\ UNCHANGED <<installation, migration>>

VerdictOf(c) == IF GovernanceRequest[c].approved THEN "approved" ELSE "rejected"

WriteReview(c) ==
  /\ Stands(c, "write review")
  /\ migration' = [migration EXCEPT ![GovernanceRequest[c].id].status = VerdictOf(c)]
  /\ Proceed(c, "ok")
  /\ UNCHANGED installation

(* The statement a call is at fails. *)
GovernanceStatementFails(c) ==
  /\ governanceTask[c].stage \in {"write installation", "look up", "insert", "write review"}
  /\ Proceed(c, "failed")
  /\ UNCHANGED <<installation, migration>>

GovernanceStep(c) ==
  \/ ReadForInstall(c) \/ WriteInstallation(c)
  \/ ReadForPlan(c) \/ LookUpRevision(c) \/ InsertRevision(c)
  \/ ReadForReview(c) \/ WriteReview(c) \/ GovernanceStatementFails(c)

GovernanceNext == \E c \in GovernanceCall : GovernanceStep(c)

GovernanceSpec == GovernanceInit /\ [][GovernanceNext]_governanceVars

-----------------------------------------------------------------------------
(* Properties.                                                             *)

Acknowledged(c) == Wants(c, "file") /\ Stands(c, "ok")

PlanNeedsReview(c) ==
  NeedsReview(GovernanceRequest[c].bundle, GovernanceRequest[c].risky,
              GovernanceRequest[c].manual)

(* Some administrator was told that the revision has this status by his review. *)
ReviewedAs(i, status) ==
  \E d \in GovernanceCall : /\ Wants(d, "review") /\ Stands(d, "ok")
                            /\ GovernanceRequest[d].id = i /\ VerdictOf(d) = status

(* Some caller was acknowledged the same plan with steps that need no review. *)
FiledAsHarmless(plugin, key, bundle) ==
  \E d \in GovernanceCall : /\ Acknowledged(d) /\ PluginOf(d) = plugin
                            /\ GovernanceRequest[d].key = key
                            /\ GovernanceRequest[d].bundle = bundle
                            /\ ~PlanNeedsReview(d)

(* Whatever filings, replays and reviews interleave, an acknowledged plan that
   needs a review waits for one or has the verdict of one, unless it was a replay
   over a plan of the same key and bundle that another caller had filed with
   harmless steps.  The verdict may be older than the replay it covers. *)
RiskyPlansAreHeld ==
  \A c \in GovernanceCall : Acknowledged(c) /\ PlanNeedsReview(c) =>
    \E i \in FiledAs(PluginOf(c), GovernanceRequest[c].key) :
      \/ migration[i].status = "review_required"
      \/ ReviewedAs(i, migration[i].status)
      \/ /\ migration[i].status = "planned"
         /\ FiledAsHarmless(PluginOf(c), GovernanceRequest[c].key,
                            GovernanceRequest[c].bundle)

(* A plan that was acknowledged is in the ledger with the bundle it named, though
   two callers may file one revision at once and identifiers may collide. *)
AcknowledgedPlansAreFiled ==
  \A c \in GovernanceCall : Acknowledged(c) =>
    \E i \in FiledAs(PluginOf(c), GovernanceRequest[c].key) :
      migration[i].bundle = GovernanceRequest[c].bundle

(* A disabled installation is active again only by an install that had read it
   before it was disabled (ensureProviderInstallationForManifest keeps the status
   it found): a later manifest with a data plane does not bring it back. *)
DisabledInstallationStays ==
  [][\A p \in Plugin : installation[p] = "disabled" /\ installation'[p] # "disabled" =>
       \E c \in GovernanceCall : /\ Stands(c, "write installation") /\ PluginOf(c) = p
                                 /\ governanceTask[c].raced
                                 /\ governanceTask'[c].stage = "ok"]_governanceVars
=============================================================================

SPECIFICATION FairSpec
CONSTANTS
  MaxTime = 5
  User = {"ann", "bob", "eve", "fay"}
  Password = {"p", "q"}
  Address = {"ip"}
  SessionCall = {"annOk", "annNew", "bobBad", "bobWorse", "eveIn", "refresh1", "refresh2", "logout1", "logout2", "setPassword", "rename", "disableAnn", "disableEve", "addEve", "regEve", "regFay", "regAnn"}
  SessionRequest <- SessionCalls
  FirstUser <- FirstUsers
  AccessTTL = 1
  RefreshTTL = 2
  Limit = 2
  Window = 2
  Lockout = 2
  AdminUser = {"ann", "bob", "eve", "fay"}
  Seed = {"annSuper", "bobSuper", "bobSpace"}
  SeedGrant <- Seeds
  AdminCall = {"regEve", "regFay", "regAnn", "promote", "invite", "intrude", "dropAnn", "dropBob", "dropBobSpace"}
  AdminRequest <- AdminCalls
  FeatureSets = {{}, {"bootstrap"}, {"public"}, {"bootstrap", "ordinary"}}
  Space = {"main", "lab", "annex"}
  FirstSpace <- FirstSpaces
  DefaultSpace = "main"
  SpaceCall = {"activate", "failLab", "retitle", "reset", "wake", "suspendLab", "restoreLab", "suspend", "newSpace", "dupSpace"}
  SpaceRequest <- SpaceCalls
  Check = {"readFile", "writeNote", "writeFile", "meltFile", "readNote", "readPlan", "lostMona", "planMona"}
  CheckRequest <- Checks
  DirectoryWrite <- Updates
  FirstDirectory <- Directory
  Audited = {"allow", "deny"}
  Plugin = {"store"}
  RevisionKey = {"1.0", "1-0"}
  Bundle = {"plain", "drop"}
  DestructiveBundle = {"drop"}
  Identifier = {"1_0", "2"}
  IdentifierOf <- Identifiers
  GovernanceCall = {"install", "retire", "reinstall", "file", "fileRisky", "fileOther", "fileAlias", "approve", "reject"}
  GovernanceRequest <- GovernanceCalls
  Workloads <- Instance
INVARIANTS TypeOK EndedSessionsStayEnded AtMostOneBootstrapAdmin UndisturbedCheckIsExact AllowedOnlyIfEverEntitled DecisionsAreAudited RiskyPlansAreHeld AcknowledgedPlansAreFiled
PROPERTIES UnaskedChangeNeedsOverlap LockEndsByTimeOrInFlight LastSuperFallsOnlyToOverlap StatusMovesAsAskedOrOverlaps DisabledInstallationStays RegistrationsAnswered
CHECK_DEADLOCK FALSE

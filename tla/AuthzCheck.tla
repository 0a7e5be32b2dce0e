------------------------------ MODULE AuthzCheck ------------------------------
(***************************************************************************)
(* The authorization engine: Check loads an actor, the registration of a   *)
(* resource type and action, a target resource and the permission grants   *)
(* of the Member, decides, and writes an audit row before it answers.      *)
(*                                                                         *)
(* Each query of the loaders is a statement of its own and no transaction  *)
(* holds them together, so the decision is made from rows of different     *)
(* moments.  The user and the Space are rows of Sessions and Spaces; the   *)
(* other tables are one variable, directory, whose rows single UPDATEs of  *)
(* the administrative API replace while checks run.                        *)
(*                                                                         *)
(* Left out: checks whose caller brings the target, the whole context      *)
(* inline, or a context loaded beforehand (loadAuthorizationContext).      *)
(***************************************************************************)
EXTENDS Sessions, Spaces, Sequences, Functions

CONSTANTS
  Check,           \* calls of Check
  CheckRequest,    \* the actor, resource and action of each
  DirectoryWrite,  \* the row updates of the administrative API, by name, each once
  FirstDirectory,  \* the tables before the first request
  Audited          \* the decisions AUDIT_WRITE_MODE has written

Gone == [space |-> "no row"]

Prefix(path, n) == SubSeq(path, 1, n)

Verdict == {"allow", "deny"}

(* The columns of a check's request, of a row update, and of the directory. *)
RequestFields == {"user", "member", "binding", "space", "resource", "action"}
Tables == {"binding", "member", "registry", "resource", "group", "memberRole",
           "permission", "rolePermission", "role"}

(* The columns the decision computes with.  (Identifiers are never null.) *)
RowFits(table, row) ==
  /\ table \in {"binding", "member", "memberRole", "permission", "role"} =>
       row # Gone /\ row.active \in BOOLEAN
  /\ table = "binding" => row.expires \in Nat
  /\ table = "rolePermission" => row \in BOOLEAN
  /\ table \in {"group", "resource"} => row # Gone

(* The code's path is a dotted string of names, and unique in a Space (the index on
   space_id and path).  Here it is the groups those names lead through, so that a
   prefix of it that ends in a group of the table is that group's path; two Spaces
   may use one string, which no decision can tell: CrossesSpaces denies before an
   anchor of another Space is compared. *)
PathsFit(groups) ==
  \A g \in DOMAIN groups :
    LET path == groups[g].path
    IN /\ groups[g].id = g
       /\ path \in Seq(Range(path)) /\ path # <<>> /\ path[Len(path)] = g
       /\ \A k \in 1 .. Len(path) : path[k] \in DOMAIN groups =>
            groups[path[k]].path = Prefix(path, k)

TablesFit(db) ==
  /\ \A t \in Tables : \A id \in DOMAIN db[t] : RowFits(t, db[t][id])
  /\ DOMAIN db.rolePermission = (DOMAIN db.role) \X (DOMAIN db.permission)
  /\ PathsFit(db.group)

(* No update of a group moves it: Group.path is Immutable(). *)
ASSUME AuthzAssumption ==
  /\ \A c \in Check : /\ DOMAIN CheckRequest[c] = RequestFields
                      /\ CheckRequest[c].user \in User
  /\ DOMAIN FirstDirectory = Tables
  /\ TablesFit(FirstDirectory)
  /\ \A w \in DirectoryWrite :
       /\ w.table \in Tables
       /\ w.id \in DOMAIN FirstDirectory[w.table]
       /\ RowFits(w.table, w.row)
       /\ w.table = "group" => /\ w.row.id = w.id
                               /\ w.row.path = FirstDirectory.group[w.id].path
  /\ Audited \subseteq Verdict

(* The queries, in the order LoadAuthorizationContext makes them. *)
Queries == <<"user", "binding", "member", "space", "registry", "resource", "group",
             "memberRoles", "permissions", "rolePermissions", "roles", "anchors">>

Unread == {}
Unreadable == "query failed"

(* next is the query a check makes next, 0 once it has loaded enough.
   overlaps, once and last are for the properties only: how many writes came
   between its queries (2 stands for more), and whether the tables entitled the
   actor at some query of it and when it decided. *)
CheckProgress ==
  [stage : {"waiting", "loading", "deciding", "auditing", "answered", "failed"},
   next : 0 .. Len(Queries), verdict : Verdict, overlaps : 0 .. 2,
   once : BOOLEAN, last : BOOLEAN]

VARIABLES
  directory,  \* user_members, members, resource registrations, resources, groups,
              \* member_roles, permissions, role_permissions, roles
  written,    \* the row updates made so far
  checkTask,  \* how far each check has come
  seen,       \* the rows each check has loaded, by query
  auditLog    \* the decisions in audit_logs

authzVars == <<directory, written, checkTask, seen, auditLog>>

AuthzTypeOK ==
  /\ DOMAIN directory = Tables
  /\ written \subseteq DirectoryWrite
  /\ checkTask \in [Check -> CheckProgress]
  /\ auditLog \subseteq Check \X Verdict

AuthzInit ==
  /\ directory = FirstDirectory
  /\ written = {}
  /\ checkTask = [c \in Check |-> [stage |-> "waiting", next |-> 1, verdict |-> "deny",
                                   overlaps |-> 0, once |-> FALSE, last |-> FALSE]]
  /\ seen = [c \in Check |-> [q \in { Queries[i] : i \in DOMAIN Queries } |-> Unread]]
  /\ auditLog = {}

-----------------------------------------------------------------------------
(* The reference: what the tables entitle an actor to.                     *)

(* All a check may read, at one moment. *)
Database == [t \in Tables \cup {"user", "space"} |->
               CASE t = "user" -> user [] t = "space" -> space [] OTHER -> directory[t]]

(* The scopes of a permission, by the resource's owner and by the groups on the
   path of its group: a tree is the anchor with all below it.  No permission
   reaches beyond its Space. *)
Reaches(scope, member, target, targetGroup, anchor) ==
  \/ scope = "space"
  \/ scope = "self" /\ target.owner = member
  \/ /\ anchor # Gone /\ targetGroup # Gone
     /\ \/ scope = "group" /\ targetGroup.id = anchor.id
        \/ scope = "group_tree" /\ anchor.id \in Range(targetGroup.path)

RowOf(table, id) == IF id \in DOMAIN table THEN table[id] ELSE Gone

ActorInGoodStanding(db, at, req) ==
  LET b == RowOf(db.binding, req.binding)
      m == RowOf(db.member, req.member)
  IN /\ db.user[req.user].status = "active"
     /\ db.space[req.space] = "active"
     /\ m # Gone /\ m.active /\ m.space = req.space
     /\ b # Gone /\ b.active
     /\ b.user = req.user /\ b.member = req.member /\ b.space = req.space
     /\ b.expires = NoExpiry \/ b.expires >= at

(* The grants that give the member the action, each through its role. *)
GrantsOf(db, req) ==
  { k \in [grant : DOMAIN db.memberRole, permission : DOMAIN db.permission] :
      LET grant == db.memberRole[k.grant]
          permission == db.permission[k.permission]
          role == RowOf(db.role, grant.role)
      IN /\ grant.member = req.member /\ grant.active
         /\ role # Gone /\ role.active
         /\ db.rolePermission[<<grant.role, k.permission>>]
         /\ permission.active /\ permission.action = req.action }

(* The actor of req is entitled to its action at the time at. *)
Entitled(db, at, req) ==
  LET target == RowOf(db.resource, req.resource)
      group == RowOf(db.group, target.group)
      inSpace(row) == row = Gone \/ row.space = req.space
      grant(k) == db.memberRole[k.grant]
      anchor(k) == RowOf(db.group, grant(k).anchor)
  IN /\ ActorInGoodStanding(db, at, req)
     /\ db.registry[req.action] = "registered"
     /\ target # Gone /\ target.space = req.space /\ inSpace(group)
     /\ \A k \in GrantsOf(db, req) :
          /\ grant(k).space = req.space
          /\ db.role[grant(k).role].space = req.space
          /\ inSpace(anchor(k))
     /\ \E k \in GrantsOf(db, req) :
          Reaches(db.permission[k.permission].scope, req.member, target, group, anchor(k))

EntitledNow(c) == Entitled(Database, now, CheckRequest[c])

-----------------------------------------------------------------------------
(* The loaders.                                                            *)

Req(c) == CheckRequest[c]

(* What query q finds, by what the queries before it have found. *)
Find(db, req, got, q) ==
  CASE q = "user" -> db.user[req.user]
    [] q = "binding" ->
         LET b == RowOf(db.binding, req.binding)
         IN IF b # Gone /\ b.user = req.user /\ b.member = req.member /\ b.space = req.space
            THEN b ELSE Gone
    [] q = "member" -> RowOf(db.member, req.member)
    [] q = "space" -> db.space[req.space]
    [] q = "registry" -> db.registry[req.action]
    [] q = "resource" -> RowOf(db.resource, req.resource)
    [] q = "group" -> RowOf(db.group, got["resource"].group)
    [] q = "memberRoles" ->
         { db.memberRole[g] : g \in { h \in DOMAIN db.memberRole :
             db.memberRole[h].active /\ db.memberRole[h].member = req.member } }
    [] q = "permissions" ->
         { <<p, db.permission[p].scope>> : p \in { h \in DOMAIN db.permission :
             db.permission[h].active /\ db.permission[h].action = req.action } }
    [] q = "rolePermissions" ->
         { rp \in DOMAIN db.rolePermission :
             /\ db.rolePermission[rp]
             /\ \E grant \in got["memberRoles"] : grant.role = rp[1]
             /\ \E p \in got["permissions"] : p[1] = rp[2] }
    [] q = "roles" ->
         { <<r, db.role[r].space>> : r \in { h \in DOMAIN db.role :
             db.role[h].active /\ \E rp \in got["rolePermissions"] : rp[1] = h } }
    [] q = "anchors" ->
         [a \in { grant.anchor : grant \in got["memberRoles"] } |-> RowOf(db.group, a)]

(* ErrNotFound of the row an error answer comes from. *)
Missing(q, value) ==
  \/ q = "user" /\ value = NoUser
  \/ q \in {"binding", "member", "resource"} /\ value = Gone
  \/ q = "space" /\ value = NoSpace

(* The loaders return without the queries that are left. *)
EnoughLoaded(q, value) ==
  \/ q = "registry" /\ value # "registered"
  \/ q \in {"memberRoles", "permissions", "rolePermissions"} /\ value = {}
  \/ q = "anchors"

Begin(c) ==
  /\ checkTask[c].stage = "waiting"
  /\ checkTask' = [checkTask EXCEPT ![c].stage = "loading"]
  /\ UNCHANGED <<directory, written, seen, auditLog>>

Load(c) ==
  /\ checkTask[c].stage = "loading"
  /\ LET i == checkTask[c].next  q == Queries[i]  value == Find(Database, Req(c), seen[c], q)
         stage == IF Missing(q, value) THEN "failed"
                  ELSE IF EnoughLoaded(q, value) THEN "deciding" ELSE "loading"
     IN /\ seen' = [seen EXCEPT ![c][q] = value]
        /\ checkTask' = [checkTask EXCEPT
             ![c].stage = stage,
             ![c].next = IF stage = "loading" THEN i + 1 ELSE 0,
             ![c].once = @ \/ EntitledNow(c)]
  /\ UNCHANGED <<directory, written, auditLog>>

-----------------------------------------------------------------------------
(* The decision, from the rows that were loaded.                           *)

(* LoadPermissionCandidates: a grant, a role of it and a permission of that. *)
Candidates(got) ==
  LET joined == { k \in got["memberRoles"] \X got["roles"] \X got["permissions"] :
                    /\ k[1].role = k[2][1]
                    /\ <<k[2][1], k[3][1]>> \in got["rolePermissions"] }
  IN { [grant |-> k[1], roleSpace |-> k[2][2], scope |-> k[3][2]] : k \in joined }

(* A mutant of ActorDenied: the Space may have any status. *)
ActorDeniedInAnySpace(got, at) ==
  \/ got["user"].status # "active" \/ ~got["member"].active \/ ~got["binding"].active
  \/ got["binding"].expires # NoExpiry /\ got["binding"].expires < at

(* validateActorState *)
ActorDenied(got, at) ==
  \/ got["user"].status # "active"
  \/ ~got["member"].active
  \/ got["space"] # "active"
  \/ ~got["binding"].active
  \/ got["binding"].expires # NoExpiry /\ got["binding"].expires < at

(* A mutant of CrossesSpaces: the Spaces of roles, grants and anchors go unasked. *)
TargetCrossesSpaces(got, s) ==
  got["member"].space # s \/ got["resource"].space # s
  \/ (got["group"] # Gone /\ got["group"].space # s)

(* violatesSameSpace *)
CrossesSpaces(got, s) ==
  \/ got["member"].space # s
  \/ got["resource"].space # s
  \/ got["group"] # Gone /\ got["group"].space # s
  \/ \E k \in Candidates(got) :
       \/ k.roleSpace # s \/ k.grant.space # s
       \/ LET a == got["anchors"][k.grant.anchor] IN a # Gone /\ a.space # s

(* HasPrefix(target.Path, anchor.Path + "."), or the two are equal. *)
Under(path, anchor) ==
  Len(anchor) <= Len(path) /\ Prefix(path, Len(anchor)) = anchor

(* resolveScope: global is reserved, and a scope it does not know covers nothing. *)
Covered(got, req, k) ==
  LET anchor == got["anchors"][k.grant.anchor]
      grouped == anchor # Gone /\ got["group"] # Gone
  IN CASE k.scope = "self" -> got["resource"].owner = req.member
       [] k.scope = "group" -> grouped /\ got["group"].id = anchor.id
       [] k.scope = "group_tree" -> grouped /\ Under(got["group"].path, anchor.path)
       [] k.scope = "space" -> got["resource"].space = got["member"].space
       [] OTHER -> FALSE

Outcome(got, at, req) ==
  IF \/ ActorDenied(got, at)
     \/ got["registry"] # "registered"
     \/ CrossesSpaces(got, req.space)
  THEN "deny"
  ELSE IF \E k \in Candidates(got) : Covered(got, req, k) THEN "allow" ELSE "deny"

Decide(c) ==
  /\ checkTask[c].stage = "deciding"
  /\ checkTask' = [checkTask EXCEPT
       ![c].stage = "auditing",
       ![c].verdict = Outcome(seen[c], now, Req(c)),
       ![c].once = @ \/ EntitledNow(c),
       ![c].last = EntitledNow(c)]
  /\ UNCHANGED <<directory, written, seen, auditLog>>

(* WriteAuditLog; the decision is answered only when this succeeds. *)
Audit(c) ==
  /\ checkTask[c].stage = "auditing"
  /\ LET verdict == checkTask[c].verdict
     IN auditLog' = IF verdict \in Audited THEN auditLog \cup {<<c, verdict>>} ELSE auditLog
  /\ checkTask' = [checkTask EXCEPT ![c].stage = "answered"]
  /\ UNCHANGED <<directory, written, seen>>

(* A query or the INSERT of the audit row fails: an error, no decision. *)
FailedCheck(c) == checkTask' = [checkTask EXCEPT ![c].stage = "failed"]

(* But for the query of the registry: LoadAuthorizationContext returns its error
   beside the actor, and Check, which knows the message of none but the two
   errors of an unregistered name, goes on to decide without a target. *)
RegistryFails(c) ==
  /\ checkTask[c].stage = "loading"
  /\ Queries[checkTask[c].next] = "registry"
  /\ seen' = [seen EXCEPT ![c]["registry"] = Unreadable]
  /\ checkTask' = [checkTask EXCEPT ![c].stage = "deciding", ![c].next = 0]
  /\ UNCHANGED <<directory, written, auditLog>>

(* A mutant of CheckFails: a decision is answered though its audit row was lost. *)
CheckFailsOpen(c) ==
  /\ checkTask[c].stage = "auditing"
  /\ checkTask' = [checkTask EXCEPT ![c].stage = "answered"]
  /\ UNCHANGED <<directory, written, seen, auditLog>>

CheckFails(c) ==
  /\ \/ checkTask[c].stage = "auditing"
     \/ checkTask[c].stage = "loading" /\ Queries[checkTask[c].next] # "registry"
  /\ FailedCheck(c)
  /\ UNCHANGED <<directory, written, seen, auditLog>>

-----------------------------------------------------------------------------
(* Writes while checks run.                                                *)

(* A row some running check may or may not have read has changed. *)
NoteWrite ==
  checkTask' = [c \in Check |->
    IF checkTask[c].stage \in {"loading", "deciding"}
    THEN [checkTask[c] EXCEPT !.overlaps = IF @ = 2 THEN 2 ELSE @ + 1]
    ELSE checkTask[c]]

(* One UPDATE of one row of the directory. *)
WriteDirectory(w) ==
  /\ w \notin written
  /\ directory' = [directory EXCEPT ![w.table][w.id] = w.row]
  /\ written' = written \cup {w}
  /\ NoteWrite
  /\ UNCHANGED <<seen, auditLog>>

CheckStep(c) == Begin(c) \/ Load(c) \/ Decide(c) \/ Audit(c) \/ RegistryFails(c)
                \/ CheckFails(c)

(* A running check learns that a row of a user or a Space has changed. *)
ChecksNotice ==
  /\ IF user' # user \/ space' # space THEN NoteWrite ELSE UNCHANGED checkTask
  /\ UNCHANGED <<directory, written, seen, auditLog>>

(* What the handlers of users and Spaces do to the rows of one check: they write a
   user or a Space, or both when they commit the registration of a new user. *)
OthersStep ==
  /\ \/ user' = user
     \/ space' = space
     \/ \A u \in User : user[u] # NoUser => user'[u] = user[u]
  /\ Tick \/ UNCHANGED now
  /\ ChecksNotice

AuthzNext ==
  \/ /\ (\E c \in Check : CheckStep(c)) \/ (\E w \in DirectoryWrite : WriteDirectory(w))
     /\ UNCHANGED <<user, space, now>>
  \/ OthersStep

AuthzSpec == ClockInit /\ AuthzInit /\ [][AuthzNext]_<<authzVars, user, space, now>>

-----------------------------------------------------------------------------
(* Properties.                                                             *)

Answered(c, verdict) == checkTask[c].stage = "answered" /\ checkTask[c].verdict = verdict

(* A check during which nothing was written and no query failed decides what the
   tables say: Check and its loaders, which filter and join in many places, agree
   with the plain reading of the tables that Entitled is. *)
UndisturbedCheckIsExact ==
  \A c \in Check :
    /\ checkTask[c].stage = "answered" /\ checkTask[c].overlaps = 0
    /\ seen[c]["registry"] # Unreadable
    => (checkTask[c].verdict = "allow" <=> checkTask[c].last)

(* Torn reads fail closed: with one row update anywhere among its queries, a
   check allows only what the tables entitled the actor to at some moment of it
   (LoadAuthorizationContext reads twelve tables without a transaction). *)
AllowedOnlyIfEverEntitled ==
  \A c \in Check : Answered(c, "allow") /\ checkTask[c].overlaps <= 1 => checkTask[c].once

(* A decision that AUDIT_WRITE_MODE wants in the audit log is there before the
   caller hears of it. *)
DecisionsAreAudited ==
  \A c \in Check, verdict \in Audited :
    Answered(c, verdict) => <<c, verdict>> \in auditLog
=============================================================================

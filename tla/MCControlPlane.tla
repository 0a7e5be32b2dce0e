---------------------------- MODULE MCControlPlane ----------------------------
(* A small instance of ControlPlane for TLC.  Every run of it is one of the
   workloads below: a few calls that compete for the same rows. *)
EXTENDS ControlPlane, TLC

(* Sessions: ann's password hash is a legacy one, eve has no row yet. *)
Logins ==
  [ annOk  |-> [kind |-> "login", user |-> "ann", password |-> "p", address |-> "ip"],
    annNew |-> [kind |-> "login", user |-> "ann", password |-> "q", address |-> "ip"],
    bobBad |-> [kind |-> "login", user |-> "bob", password |-> "q", address |-> "ip"],
    bobWorse |-> [kind |-> "login", user |-> "bob", password |-> "q", address |-> "ip"],
    eveIn  |-> [kind |-> "login", user |-> "eve", password |-> "p", address |-> "ip"] ]

ByPair ==
  [ refresh1 |-> [kind |-> "refresh", pair |-> "annOk"],
    refresh2 |-> [kind |-> "refresh", pair |-> "annOk"],
    logout1  |-> [kind |-> "logout", pair |-> "annOk"],
    logout2  |-> [kind |-> "logout", pair |-> "refresh1"] ]

UserEdits ==
  [ setPassword |-> [kind |-> "patch", user |-> "ann", password |-> "q", status |-> Keep],
    rename      |-> [kind |-> "patch", user |-> "ann", password |-> Keep, status |-> Keep],
    disableAnn  |-> [kind |-> "status", user |-> "ann", status |-> "disabled"],
    addEve      |-> [kind |-> "create", user |-> "eve", password |-> "q", status |-> "active"],
    disableEve  |-> [kind |-> "status", user |-> "eve", status |-> "disabled"] ]

Registrations ==
  [ regEve |-> [kind |-> "register", user |-> "eve", password |-> "p"],
    regFay |-> [kind |-> "register", user |-> "fay", password |-> "p"],
    regAnn |-> [kind |-> "register", user |-> "ann", password |-> "p"] ]

SessionCalls == Logins @@ ByPair @@ UserEdits @@ Registrations

FirstUsers == [u \in User |->
  IF u \in {"ann", "bob"} THEN [status |-> "active", password |-> "p", legacy |-> u = "ann"]
  ELSE NoUser]

(* Administration: two super administrators, one of them for a limited time. *)
Seeds ==
  [ annSuper |-> NewGrant("ann", "super", NoExpiry, "seed"),
    bobSuper |-> NewGrant("bob", "super", 2, "seed"),
    bobSpace |-> NewGrant("bob", "space", NoExpiry, "seed") ]

AdminCalls ==
  [ regEve |-> [kind |-> "register", user |-> "eve", token |-> "bootstrap"],
    regFay |-> [kind |-> "register", user |-> "fay", token |-> "bootstrap"],
    regAnn |-> [kind |-> "register", user |-> "ann", token |-> "ordinary"],
    promote |-> [kind |-> "create", by |-> "ann", level |-> "super", user |-> "eve",
                 expires |-> NoExpiry],
    invite  |-> [kind |-> "create", by |-> "bob", level |-> "space", user |-> "eve",
                 expires |-> 2],
    intrude |-> [kind |-> "create", by |-> "bob", level |-> "super", user |-> "bob",
                 expires |-> NoExpiry],
    dropAnn |-> [kind |-> "revoke", by |-> "bob", grant |-> <<"annSuper", "super">>],
    dropBob |-> [kind |-> "revoke", by |-> "ann", grant |-> <<"bobSuper", "super">>],
    dropBobSpace |-> [kind |-> "revoke", by |-> "bob", grant |-> <<"bobSpace", "space">>] ]

(* Spaces: main is the default one; lab is being provisioned. *)
SpaceRow(kind, s, status) == [kind |-> kind, space |-> s, status |-> status]

SpaceCalls ==
  [ activate |-> SpaceRow("activate", "lab", SameStatus),
    failLab  |-> SpaceRow("fail", "lab", SameStatus),
    retitle  |-> SpaceRow("patch", "lab", SameStatus),
    reset    |-> SpaceRow("patch", "lab", "provisioning"),
    wake     |-> SpaceRow("patch", "lab", "active"),
    suspendLab |-> SpaceRow("disable", "lab", SameStatus),
    restoreLab |-> SpaceRow("restore", "lab", SameStatus),
    suspend  |-> SpaceRow("disable", "main", SameStatus),
    newSpace |-> SpaceRow("create", "annex", SameStatus),
    dupSpace |-> SpaceRow("create", "annex", "provisioning") ]

FirstSpaces == [s \in Space |-> CASE s = "main" -> "active" [] s = "lab" -> "provisioning"
                                  [] OTHER -> NoSpace]

(* Authorization: mel acts for ann in main; mona of lab has a role of main. *)
Directory ==
  [ binding |->
      [ annMel |-> [user |-> "ann", member |-> "mel", space |-> "main", active |-> TRUE,
                    expires |-> 2],
        annMona |-> [user |-> "ann", member |-> "mona", space |-> "lab", active |-> TRUE,
                     expires |-> NoExpiry] ],
    member |-> [ mel |-> [space |-> "main", active |-> TRUE],
                 mona |-> [space |-> "lab", active |-> TRUE] ],
    registry |-> [ read |-> "registered", write |-> "registered", melt |-> "no action" ],
    resource |-> [ file |-> [space |-> "main", owner |-> "other", group |-> "team"],
                   note |-> [space |-> "main", owner |-> "mel", group |-> "none"],
                   plan |-> [space |-> "lab", owner |-> "mona", group |-> "none"] ],
    group |-> [ root |-> [id |-> "root", space |-> "main", path |-> <<"root">>],
                team |-> [id |-> "team", space |-> "main", path |-> <<"root", "team">>],
                side |-> [id |-> "side", space |-> "main", path |-> <<"side">>] ],
    memberRole |->
      [ lead |-> [member |-> "mel", role |-> "reader", anchor |-> "root", space |-> "main",
                  active |-> TRUE],
        aide |-> [member |-> "mel", role |-> "helper", anchor |-> "side", space |-> "main",
                  active |-> FALSE],
        stray |-> [member |-> "mona", role |-> "reader", anchor |-> "root", space |-> "main",
                   active |-> TRUE] ],
    permission |->
      [ readTree |-> [action |-> "read", scope |-> "group_tree", active |-> TRUE],
        writeOwn |-> [action |-> "write", scope |-> "self", active |-> TRUE],
        writeAll |-> [action |-> "write", scope |-> "global", active |-> TRUE],
        writeTeam |-> [action |-> "write", scope |-> "group", active |-> TRUE] ],
    rolePermission |->
      [rp \in {"reader", "helper"} \X {"readTree", "writeOwn", "writeAll", "writeTeam"} |->
         rp # <<"helper", "writeOwn">>],
    role |-> [ reader |-> [space |-> "main", active |-> TRUE],
               helper |-> [space |-> "main", active |-> TRUE] ] ]

Update(name, table, id, row) == [name |-> name, table |-> table, id |-> id, row |-> row]

Updates ==
  { Update("grantAide", "memberRole", "aide",
           [Directory.memberRole["aide"] EXCEPT !.active = TRUE]),
    Update("revokeLead", "memberRole", "lead",
           [Directory.memberRole["lead"] EXCEPT !.active = FALSE]),
    Update("disableReader", "role", "reader", [space |-> "main", active |-> FALSE]),
    Update("moveFile", "resource", "file", [Directory.resource["file"] EXCEPT !.group = "side"]),
    Update("expireMel", "binding", "annMel",
           [Directory.binding["annMel"] EXCEPT !.expires = 1]) }

Asked(member, s, resource, action) ==
  [user |-> "ann", member |-> member,
   binding |-> IF member = "mel" THEN "annMel" ELSE "annMona",
   space |-> s, resource |-> resource, action |-> action]

Checks ==
  [ readFile  |-> Asked("mel", "main", "file", "read"),
    writeNote |-> Asked("mel", "main", "note", "write"),
    writeFile |-> Asked("mel", "main", "file", "write"),
    meltFile  |-> Asked("mel", "main", "file", "melt"),
    readNote  |-> Asked("mel", "main", "note", "read"),
    readPlan  |-> Asked("mel", "main", "plan", "read"),
    lostMona  |-> Asked("mona", "main", "file", "read"),
    planMona  |-> Asked("mona", "lab", "plan", "write") ]

(* Governance: the keys 1.0 and 1-0 make one identifier. *)
Identifiers == [pk \in Plugin \X RevisionKey |-> IF pk[2] \in {"1.0", "1-0"} THEN "1_0" ELSE "2"]

File(key, bundle, risky) ==
  [kind |-> "file", plugin |-> "store", key |-> key, bundle |-> bundle, risky |-> risky,
   manual |-> FALSE]

GovernanceCalls ==
  [ install  |-> [kind |-> "install", plugin |-> "store", dataPlane |-> TRUE],
    retire   |-> [kind |-> "install", plugin |-> "store", dataPlane |-> FALSE],
    reinstall |-> [kind |-> "install", plugin |-> "store", dataPlane |-> TRUE],
    file     |-> File("1.0", "plain", FALSE),
    fileRisky |-> File("1.0", "plain", TRUE),
    fileOther |-> File("1.0", "drop", FALSE),
    fileAlias |-> File("1-0", "drop", FALSE),
    approve  |-> [kind |-> "review", id |-> "1_0", approved |-> TRUE],
    reject   |-> [kind |-> "review", id |-> "1_0", approved |-> FALSE] ]

Work(calls, until, features, held) ==
  [calls |-> calls, until |-> until, feature |-> features, held |-> held]

Quiet(calls) == Work(calls, 1, {}, {})

Instance ==
  { \* a password change, a logout and two refreshes compete for one session
    Work({"annOk", "refresh1", "refresh2", "logout1", "setPassword"}, 2, {}, {}),
    Work({"annOk", "refresh1", "logout2", "disableAnn"}, 4, {}, {}),
    Quiet({"annOk", "annNew", "setPassword", "logout1"}),
    \* writers of one user's row, one of them the login's rehash
    Quiet({"annOk", "setPassword", "rename", "disableAnn"}),
    \* a lock of the limiter, a login past it, and a window that ends
    Work({"annOk", "bobBad", "bobWorse"}, 3, {}, {}),
    Work({"annNew", "bobBad", "bobWorse"}, 5, {}, {}),
    \* registrations: bootstrap, ordinary, public, denied
    Work({"regEve", "regFay", "regAnn"}, 1, {"bootstrap", "ordinary"}, {}),
    Work({"regEve", "addEve", "eveIn", "disableEve"}, 1, {"public"}, {}),
    Work({"regEve", "dropBob"}, 3, {"bootstrap"}, {"bobSuper", "annSuper"}),
    \* two super administrators revoke each other
    Work({"dropAnn", "dropBob", "promote"}, 2, {}, {"annSuper", "bobSuper"}),
    Work({"promote", "invite", "intrude", "dropBobSpace"}, 2, {}, {"bobSpace"}),
    \* the life cycle of a Space
    Quiet({"activate", "failLab", "retitle", "restoreLab", "suspendLab"}),
    Quiet({"activate", "reset", "wake", "suspendLab"}),
    Work({"newSpace", "dupSpace", "suspend", "regEve"}, 1, {"bootstrap"}, {}),
    \* a check among the writes of what it reads
    Work({"readFile", "grantAide", "disableReader", "suspend"}, 1, {}, {}),
    Work({"readFile", "revokeLead", "grantAide", "moveFile"}, 1, {}, {}),
    Work({"writeNote", "expireMel", "disableAnn"}, 3, {}, {}),
    Work({"readFile", "suspend", "regEve"}, 1, {"bootstrap"}, {}),
    Quiet({"planMona", "activate"}),
    Quiet({"writeFile", "meltFile"}), Quiet({"readNote"}), Quiet({"readPlan"}),
    Quiet({"lostMona"}),
    \* the ledger of a provider
    Quiet({"install", "retire", "reinstall", "file"}),
    Quiet({"install", "file", "fileRisky", "fileOther", "approve"}),
    Quiet({"install", "fileRisky", "fileAlias", "approve", "reject"}) }
=============================================================================

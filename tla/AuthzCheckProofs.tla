--------------------------- MODULE AuthzCheckProofs ---------------------------
(***************************************************************************)
(* Proofs about the authorization engine: the loaders and the decision     *)
(* compute what the tables entitle an actor to when all rows are of one    *)
(* moment; a check that one write runs into has read rows of two moments,  *)
(* which add up to one of them; and a decision is audited before it is     *)
(* answered.                                                               *)
(***************************************************************************)
EXTENDS AuthzCheck, TLAPS

(***************************************************************************)
(* The decision, for the tables of one moment.                             *)
(***************************************************************************)

QueryNames == { Queries[i] : i \in DOMAIN Queries }

LEMMA QueriesAre ==
  /\ Queries = <<"user", "binding", "member", "space", "registry", "resource", "group",
                 "memberRoles", "permissions", "rolePermissions", "roles", "anchors">>
  /\ Len(Queries) = 12 /\ DOMAIN Queries = 1 .. 12
  /\ QueryNames = {"user", "binding", "member", "space", "registry", "resource", "group",
                   "memberRoles", "permissions", "rolePermissions", "roles", "anchors"}
<1>1. Len(Queries) = 12 /\ DOMAIN Queries = 1 .. 12
  BY DEF Queries
<1>2. 1 .. 12 = {1, 2, 3, 4, 5, 6, 7, 8, 9, 10, 11, 12}
  OBVIOUS
<1>3. QueryNames = { Queries[i] : i \in {1, 2, 3, 4, 5, 6, 7, 8, 9, 10, 11, 12} }
  BY <1>1, <1>2 DEF QueryNames
<1> QED  BY <1>1, <1>3 DEF Queries

(* Rows of a group that the decision does not tell apart. *)
Alike(row, other) ==
  /\ row = Gone <=> other = Gone
  /\ row # Gone => /\ row.id = other.id /\ row.space = other.space /\ row.path = other.path

(* The rows that check req has loaded are those of the tables w, but for groups
   the decision does not tell apart. *)
ReadOf(w, req, got) ==
  /\ \A q \in QueryNames \ {"group", "anchors"} :
       got[q] = Find(w, req, got, q) /\ ~Missing(q, got[q])
  /\ Alike(got["group"], RowOf(w.group, got["resource"].group))
  /\ \A k \in Candidates(got) :
       Alike(got["anchors"][k.grant.anchor], RowOf(w.group, k.grant.anchor))

LEMMA ReadOfGives ==
  ASSUME NEW w, NEW req, NEW got, ReadOf(w, req, got)
  PROVE  /\ got["user"] = w.user[req.user]
         /\ got["binding"] # Gone
         /\ got["binding"] = RowOf(w.binding, req.binding)
         /\ got["binding"].user = req.user /\ got["binding"].member = req.member
         /\ got["binding"].space = req.space
         /\ got["member"] # Gone /\ got["member"] = RowOf(w.member, req.member)
         /\ got["space"] = w.space[req.space]
         /\ got["registry"] = w.registry[req.action]
         /\ got["resource"] # Gone /\ got["resource"] = RowOf(w.resource, req.resource)
BY QueriesAre DEF ReadOf, Find, Missing

(* The candidates of LoadPermissionCandidates are the grants of the member, each
   with its role and a permission of that. *)
LEMMA CandidatesAreGrants ==
  ASSUME NEW w, TablesFit(w), NEW req, NEW got,
         got["memberRoles"] = Find(w, req, got, "memberRoles"),
         got["permissions"] = Find(w, req, got, "permissions"),
         got["rolePermissions"] = Find(w, req, got, "rolePermissions"),
         got["roles"] = Find(w, req, got, "roles")
  PROVE  Candidates(got) =
           { [grant |-> w.memberRole[k.grant],
              roleSpace |-> w.role[w.memberRole[k.grant].role].space,
              scope |-> w.permission[k.permission].scope] : k \in GrantsOf(w, req) }
<1> DEFINE C(g, p) == [grant |-> w.memberRole[g],
                       roleSpace |-> w.role[w.memberRole[g].role].space,
                       scope |-> w.permission[p].scope]
<1>1. got["memberRoles"] = { w.memberRole[g] : g \in { h \in DOMAIN w.memberRole :
             w.memberRole[h].active /\ w.memberRole[h].member = req.member } }
  BY DEF Find
<1>2. got["permissions"] = { <<p, w.permission[p].scope>> : p \in { h \in DOMAIN w.permission :
             w.permission[h].active /\ w.permission[h].action = req.action } }
  BY DEF Find
<1>3. got["rolePermissions"] = { rp \in DOMAIN w.rolePermission :
             /\ w.rolePermission[rp]
             /\ \E grant \in got["memberRoles"] : grant.role = rp[1]
             /\ \E p \in got["permissions"] : p[1] = rp[2] }
  BY DEF Find
<1>4. got["roles"] = { <<r, w.role[r].space>> : r \in { h \in DOMAIN w.role :
             w.role[h].active /\ \E rp \in got["rolePermissions"] : rp[1] = h } }
  BY DEF Find
<1>5. /\ DOMAIN w.rolePermission = (DOMAIN w.role) \X (DOMAIN w.permission)
      /\ \A r \in DOMAIN w.role : w.role[r] # Gone
  BY DEF TablesFit, Tables, RowFits
<1>6. ASSUME NEW k \in GrantsOf(w, req)
      PROVE  C(k.grant, k.permission) \in Candidates(got)
  <2> DEFINE g == k.grant  p == k.permission  r == w.memberRole[k.grant].role
  <2>1. g \in DOMAIN w.memberRole /\ p \in DOMAIN w.permission
    BY <1>6 DEF GrantsOf
  <2>2. /\ w.memberRole[g].member = req.member /\ w.memberRole[g].active
        /\ RowOf(w.role, r) # Gone /\ RowOf(w.role, r).active
        /\ w.rolePermission[<<r, p>>]
        /\ w.permission[p].active /\ w.permission[p].action = req.action
    BY <1>6 DEF GrantsOf
  <2>3. r \in DOMAIN w.role /\ w.role[r].active
    BY <2>2 DEF RowOf
  <2>4. w.memberRole[g] \in got["memberRoles"]
    BY <1>1, <2>1, <2>2
  <2>5. <<p, w.permission[p].scope>> \in got["permissions"]
    BY <1>2, <2>1, <2>2
  <2>6. <<r, p>> \in got["rolePermissions"]
    <3>1. <<r, p>> \in DOMAIN w.rolePermission
      BY <1>5, <2>1, <2>3
    <3> QED  BY <1>3, <2>2, <2>4, <2>5, <3>1
  <2>7. <<r, w.role[r].space>> \in got["roles"]
    BY <1>4, <2>3, <2>6
  <2> DEFINE j == <<w.memberRole[g], <<r, w.role[r].space>>, <<p, w.permission[p].scope>>>>
  <2>8. j \in got["memberRoles"] \X got["roles"] \X got["permissions"]
    BY <2>4, <2>5, <2>7
  <2>9. j[1].role = j[2][1] /\ <<j[2][1], j[3][1]>> \in got["rolePermissions"]
    BY <2>6
  <2>10. C(g, p) = [grant |-> j[1], roleSpace |-> j[2][2], scope |-> j[3][2]]
    OBVIOUS
  <2> QED  BY <2>8, <2>9, <2>10 DEF Candidates
<1>7. ASSUME NEW x \in Candidates(got)
      PROVE  \E k \in GrantsOf(w, req) : x = C(k.grant, k.permission)
  <2>1. PICK j \in got["memberRoles"] \X got["roles"] \X got["permissions"] :
          /\ j[1].role = j[2][1] /\ <<j[2][1], j[3][1]>> \in got["rolePermissions"]
          /\ x = [grant |-> j[1], roleSpace |-> j[2][2], scope |-> j[3][2]]
    BY <1>7 DEF Candidates
  <2>2. PICK g \in DOMAIN w.memberRole :
          j[1] = w.memberRole[g] /\ w.memberRole[g].active /\ w.memberRole[g].member = req.member
    BY <1>1, <2>1
  <2>3. PICK p \in DOMAIN w.permission :
          /\ j[3] = <<p, w.permission[p].scope>>
          /\ w.permission[p].active /\ w.permission[p].action = req.action
    BY <1>2, <2>1
  <2>4. PICK r \in DOMAIN w.role : j[2] = <<r, w.role[r].space>> /\ w.role[r].active
    BY <1>4, <2>1
  <2>5. w.rolePermission[<<r, p>>] /\ w.memberRole[g].role = r
    BY <1>3, <2>1, <2>2, <2>3, <2>4
  <2> DEFINE k == [grant |-> g, permission |-> p]
  <2>6. k \in [grant : DOMAIN w.memberRole, permission : DOMAIN w.permission]
        /\ k.grant = g /\ k.permission = p
    OBVIOUS
  <2>7. RowOf(w.role, r) = w.role[r] /\ w.role[r] # Gone
    BY <1>5 DEF RowOf
  <2>8. k \in GrantsOf(w, req)
    BY <2>2, <2>3, <2>4, <2>5, <2>6, <2>7 DEF GrantsOf
  <2>9. x = C(g, p)
    BY <2>1, <2>2, <2>3, <2>4, <2>5
  <2> QED  BY <2>6, <2>8, <2>9
<1> QED  BY <1>6, <1>7

(* A group lies under an anchor when the anchor is on its path: what the string
   comparison of resolveScope decides, given that paths are made of whole paths. *)
LEMMA UnderIsOnPath ==
  ASSUME NEW groups, PathsFit(groups), NEW g \in DOMAIN groups, NEW a \in DOMAIN groups
  PROVE  Under(groups[g].path, groups[a].path) <=> a \in Range(groups[g].path)
<1> DEFINE P == groups[g].path  A == groups[a].path
<1>1. P \in Seq(Range(P)) /\ A \in Seq(Range(A))
  BY DEF PathsFit
<1>2. A # <<>> /\ A[Len(A)] = a
  BY DEF PathsFit
<1>3. \A k \in 1 .. Len(P) : P[k] \in DOMAIN groups => groups[P[k]].path = Prefix(P, k)
  BY DEF PathsFit
<1>4. Len(P) \in Nat /\ Len(A) \in Nat /\ DOMAIN P = 1 .. Len(P) /\ Len(A) > 0
  BY <1>1, <1>2
<1> HIDE DEF P, A
<1>5. ASSUME Under(P, A)  PROVE a \in Range(P)
  <2>1. Len(A) <= Len(P) /\ SubSeq(P, 1, Len(A)) = A
    BY <1>5 DEF Under, Prefix
  <2>2. SubSeq(P, 1, Len(A))[Len(A)] = P[Len(A)]
    BY <1>1, <1>4, <2>1
  <2> QED  BY <1>2, <1>4, <2>1, <2>2 DEF Range
<1>6. ASSUME a \in Range(P)  PROVE Under(P, A)
  <2>1. PICK k \in 1 .. Len(P) : P[k] = a
    BY <1>4, <1>6 DEF Range
  <2>2. A = SubSeq(P, 1, k)
    BY <1>3, <2>1 DEF Prefix, A
  <2>3. Len(A) = k
    BY <1>1, <1>4, <2>1, <2>2
  <2> QED  BY <1>4, <2>1, <2>2, <2>3 DEF Under, Prefix
<1> QED  BY <1>5, <1>6 DEF P, A

(* resolveScope for one candidate. *)
LEMMA CoveredIsReach ==
  ASSUME NEW w, TablesFit(w), NEW req, NEW got, ReadOf(w, req, got),
         NEW k \in GrantsOf(w, req), NEW c \in Candidates(got),
         c.grant = w.memberRole[k.grant],
         c.scope = w.permission[k.permission].scope,
         got["resource"].space = got["member"].space
  PROVE  Covered(got, req, c)
           <=> Reaches(w.permission[k.permission].scope, req.member,
                       RowOf(w.resource, req.resource),
                       RowOf(w.group, RowOf(w.resource, req.resource).group),
                       RowOf(w.group, w.memberRole[k.grant].anchor))
<1> DEFINE target == RowOf(w.resource, req.resource)
           group == RowOf(w.group, target.group)
           anchor == RowOf(w.group, w.memberRole[k.grant].anchor)
           gotGroup == got["group"]
           gotAnchor == got["anchors"][c.grant.anchor]
<1>1. got["resource"] = target
  BY ReadOfGives
<1>2. Alike(gotGroup, group)
  BY <1>1 DEF ReadOf
<1>3. Alike(gotAnchor, anchor)
  BY DEF ReadOf
<1>5. ASSUME gotAnchor # Gone, gotGroup # Gone
      PROVE  /\ gotGroup.id = gotAnchor.id <=> group.id = anchor.id
             /\ Under(gotGroup.path, gotAnchor.path) <=> anchor.id \in Range(group.path)
  <2>1. group # Gone /\ anchor # Gone
    BY <1>2, <1>3, <1>5 DEF Alike
  <2>2. target.group \in DOMAIN w.group /\ group = w.group[target.group]
    BY <2>1 DEF RowOf
  <2>3. w.memberRole[k.grant].anchor \in DOMAIN w.group
        /\ anchor = w.group[w.memberRole[k.grant].anchor]
    BY <2>1 DEF RowOf
  <2>4. PathsFit(w.group)
    BY DEF TablesFit
  <2>5. anchor.id = w.memberRole[k.grant].anchor
    BY <2>3, <2>4 DEF PathsFit
  <2>6. Under(group.path, anchor.path) <=> anchor.id \in Range(group.path)
    BY <2>2, <2>3, <2>4, <2>5, UnderIsOnPath
  <2> HIDE DEF group, anchor, gotGroup, gotAnchor
  <2> QED  BY <1>2, <1>3, <1>5, <2>6 DEF Alike
<1>6. gotAnchor # Gone <=> anchor # Gone
  BY <1>3 DEF Alike
<1>7. gotGroup # Gone <=> group # Gone
  BY <1>2 DEF Alike
<1>8. Covered(got, req, c) =
        LET grouped == gotAnchor # Gone /\ gotGroup # Gone
        IN CASE c.scope = "self" -> target.owner = req.member
             [] c.scope = "group" -> grouped /\ gotGroup.id = gotAnchor.id
             [] c.scope = "group_tree" -> grouped /\ Under(gotGroup.path, gotAnchor.path)
             [] c.scope = "space" -> got["resource"].space = got["member"].space
             [] OTHER -> FALSE
  BY <1>1 DEF Covered
<1> HIDE DEF target, group, anchor, gotGroup, gotAnchor
<1>9. Covered(got, req, c)
        <=> Reaches(c.scope, req.member, target, group, anchor)
  <2>1. CASE c.scope = "self"
    BY <1>8, <2>1 DEF Reaches
  <2>2. CASE c.scope = "group"
    BY <1>5, <1>6, <1>7, <1>8, <2>2 DEF Reaches
  <2>3. CASE c.scope = "group_tree"
    BY <1>5, <1>6, <1>7, <1>8, <2>3 DEF Reaches
  <2>4. CASE c.scope = "space"
    BY <1>8, <2>4 DEF Reaches
  <2>5. CASE c.scope \notin {"self", "group", "group_tree", "space"}
    BY <1>8, <2>5 DEF Reaches
  <2> QED  BY <2>1, <2>2, <2>3, <2>4, <2>5
<1> QED  BY <1>9 DEF target, group, anchor

(* validateActorState, after GetUserMemberActor has compared the binding. *)
LEMMA ActorStateIsStanding ==
  ASSUME NEW w, TablesFit(w), NEW req, NEW at \in Nat, NEW got, ReadOf(w, req, got),
         got["member"].space = req.space
  PROVE  ~ActorDenied(got, at) <=> ActorInGoodStanding(w, at, req)
<1> DEFINE b == RowOf(w.binding, req.binding)
           m == RowOf(w.member, req.member)
<1>1. /\ got["user"] = w.user[req.user]
      /\ got["binding"] = b /\ b # Gone
      /\ b.user = req.user /\ b.member = req.member /\ b.space = req.space
      /\ got["member"] = m /\ m # Gone
      /\ got["space"] = w.space[req.space]
  BY ReadOfGives
<1>2. b.active \in BOOLEAN /\ b.expires \in Nat /\ m.active \in BOOLEAN
  <2>1. /\ req.binding \in DOMAIN w.binding /\ b = w.binding[req.binding]
        /\ req.member \in DOMAIN w.member /\ m = w.member[req.member]
    BY <1>1 DEF RowOf
  <2>2. RowFits("binding", b) /\ RowFits("member", m)
    BY <2>1 DEF TablesFit, Tables
  <2> HIDE DEF b, m
  <2> QED  BY <2>2 DEF RowFits
<1>3. ActorInGoodStanding(w, at, req) <=>
        /\ w.user[req.user].status = "active"
        /\ w.space[req.space] = "active"
        /\ m # Gone /\ m.active /\ m.space = req.space
        /\ b # Gone /\ b.active
        /\ b.user = req.user /\ b.member = req.member /\ b.space = req.space
        /\ b.expires = NoExpiry \/ b.expires >= at
  BY DEF ActorInGoodStanding
<1> HIDE DEF b, m
<1> QED  BY <1>1, <1>2, <1>3 DEF ActorDenied, NoExpiry

(* Check and its loaders, run over the tables of one moment, allow what those
   tables entitle the actor to, and nothing else. *)
LEMMA OutcomeIsEntitlement ==
  ASSUME NEW w, TablesFit(w), NEW req, NEW at \in Nat, NEW got, ReadOf(w, req, got)
  PROVE  Outcome(got, at, req) = "allow" <=> Entitled(w, at, req)
<1> DEFINE target == RowOf(w.resource, req.resource)
           group == RowOf(w.group, target.group)
           anchor(k) == RowOf(w.group, w.memberRole[k.grant].anchor)
           C(k) == [grant |-> w.memberRole[k.grant],
                    roleSpace |-> w.role[w.memberRole[k.grant].role].space,
                    scope |-> w.permission[k.permission].scope]
           s == req.space
           inSpace(row) == row = Gone \/ row.space = s
           reach(k) == Reaches(w.permission[k.permission].scope, req.member, target, group,
                               anchor(k))
<1>1. Candidates(got) = { C(k) : k \in GrantsOf(w, req) }
  <2>1. {"memberRoles", "permissions", "rolePermissions", "roles"}
           \subseteq QueryNames \ {"group", "anchors"}
    BY QueriesAre
  <2> QED  BY <2>1, CandidatesAreGrants DEF ReadOf
<1>2. /\ got["resource"] = target /\ target # Gone
      /\ got["registry"] = w.registry[req.action]
  BY ReadOfGives
<1>3. inSpace(got["group"]) <=> inSpace(group)
  BY <1>2 DEF ReadOf, Alike
<1>4. \A k \in GrantsOf(w, req) : inSpace(got["anchors"][C(k).grant.anchor]) <=> inSpace(anchor(k))
  <2> SUFFICES ASSUME NEW k \in GrantsOf(w, req)
               PROVE  inSpace(got["anchors"][C(k).grant.anchor]) <=> inSpace(anchor(k))
    OBVIOUS
  <2>1. C(k) \in Candidates(got) /\ C(k).grant = w.memberRole[k.grant]
    BY <1>1
  <2>2. Alike(got["anchors"][C(k).grant.anchor], anchor(k))
    BY <2>1 DEF ReadOf
  <2> QED  BY <2>2 DEF Alike
<1>5. CrossesSpaces(got, s) <=>
        ~ (/\ got["member"].space = s /\ target.space = s /\ inSpace(group)
           /\ \A k \in GrantsOf(w, req) :
                /\ w.memberRole[k.grant].space = s
                /\ w.role[w.memberRole[k.grant].role].space = s
                /\ inSpace(anchor(k)))
  <2>1. (\E k \in Candidates(got) : \/ k.roleSpace # s \/ k.grant.space # s
                                     \/ ~inSpace(got["anchors"][k.grant.anchor]))
        <=> ~ \A k \in GrantsOf(w, req) :
                /\ w.memberRole[k.grant].space = s
                /\ w.role[w.memberRole[k.grant].role].space = s
                /\ inSpace(got["anchors"][C(k).grant.anchor])
    <3> DEFINE in(a) == inSpace(got["anchors"][a])
    <3> HIDE DEF in
    <3> DEFINE bad(x) == x.roleSpace # s \/ x.grant.space # s \/ ~in(x.grant.anchor)
    <3>2. \A k : bad(C(k)) <=> ~ (/\ w.memberRole[k.grant].space = s
                                  /\ w.role[w.memberRole[k.grant].role].space = s
                                  /\ in(C(k).grant.anchor))
      OBVIOUS
    <3>3. (\E x \in Candidates(got) : bad(x)) <=> \E k \in GrantsOf(w, req) : bad(C(k))
      <4> HIDE DEF bad, C
      <4> QED  BY <1>1
    <3>1. (\E k \in Candidates(got) : k.roleSpace # s \/ k.grant.space # s \/ ~in(k.grant.anchor))
          <=> ~ \A k \in GrantsOf(w, req) :
                /\ w.memberRole[k.grant].space = s
                /\ w.role[w.memberRole[k.grant].role].space = s
                /\ in(C(k).grant.anchor)
      BY <3>2, <3>3
    <3> QED  BY <3>1 DEF in
  <2>2. (\E k \in Candidates(got) :
           \/ k.roleSpace # s \/ k.grant.space # s
           \/ LET a == got["anchors"][k.grant.anchor] IN a # Gone /\ a.space # s)
        <=> (\E k \in Candidates(got) : \/ k.roleSpace # s \/ k.grant.space # s
                                         \/ ~inSpace(got["anchors"][k.grant.anchor]))
    OBVIOUS
  <2>3. (got["group"] # Gone /\ got["group"].space # s) <=> ~inSpace(group)
    BY <1>3
  <2> HIDE DEF inSpace, C, anchor, group, target
  <2> QED  BY <1>2, <1>4, <2>1, <2>2, <2>3 DEF CrossesSpaces
<1>6. ASSUME target.space = s, got["member"].space = s
      PROVE  (\E c \in Candidates(got) : Covered(got, req, c))
               <=> \E k \in GrantsOf(w, req) : reach(k)
  <2>1. \A k \in GrantsOf(w, req) : Covered(got, req, C(k)) <=> reach(k)
    <3> SUFFICES ASSUME NEW k \in GrantsOf(w, req)  PROVE Covered(got, req, C(k)) <=> reach(k)
      OBVIOUS
    <3>1. C(k) \in Candidates(got)
      BY <1>1
    <3>2. C(k).grant = w.memberRole[k.grant] /\ C(k).scope = w.permission[k.permission].scope
      OBVIOUS
    <3>3. got["resource"].space = got["member"].space
      BY <1>2, <1>6
    <3> HIDE DEF C
    <3> QED  BY <3>1, <3>2, <3>3, CoveredIsReach
  <2> HIDE DEF C, reach
  <2> QED  BY <1>1, <2>1
<1>7. got["member"].space = s => (~ActorDenied(got, at) <=> ActorInGoodStanding(w, at, req))
  BY ActorStateIsStanding
<1>8. ActorInGoodStanding(w, at, req) => got["member"].space = s
  BY ReadOfGives DEF ActorInGoodStanding
<1>9. Outcome(got, at, req) = "allow" <=>
        /\ ~ActorDenied(got, at) /\ got["registry"] = "registered" /\ ~CrossesSpaces(got, s)
        /\ \E c \in Candidates(got) : Covered(got, req, c)
  BY DEF Outcome
<1>10. Entitled(w, at, req) <=>
        /\ ActorInGoodStanding(w, at, req)
        /\ w.registry[req.action] = "registered"
        /\ target # Gone /\ target.space = s /\ inSpace(group)
        /\ \A k \in GrantsOf(w, req) :
             /\ w.memberRole[k.grant].space = s
             /\ w.role[w.memberRole[k.grant].role].space = s
             /\ inSpace(anchor(k))
        /\ \E k \in GrantsOf(w, req) : reach(k)
  BY DEF Entitled
<1> HIDE DEF target, group, anchor, C, s, inSpace, reach
<1> QED  BY <1>2, <1>5, <1>6, <1>7, <1>8, <1>9, <1>10

(***************************************************************************)
(* Torn reads: rows of two moments, between which one table changed.       *)
(***************************************************************************)

AllTables == Tables \cup {"user", "space"}

(* The table query q reads. *)
TableOf(q) ==
  CASE q = "memberRoles" -> "memberRole" [] q = "permissions" -> "permission"
    [] q = "rolePermissions" -> "rolePermission" [] q = "roles" -> "role"
    [] q = "anchors" -> "group" [] OTHER -> q

(* The tables but T are the same, of users the row of the actor. *)
Agree(w0, w1, req, T) ==
  \A t \in AllTables \ {T} :
    IF t = "user" THEN w0.user[req.user] = w1.user[req.user] ELSE w0[t] = w1[t]

(* One row of the groups was updated, which did not move it. *)
OneGroupUpdated(groups0, groups1) ==
  /\ DOMAIN groups0 = DOMAIN groups1
  /\ \A g \in DOMAIN groups0 : groups0[g].path = groups1[g].path
  /\ \E g : \A h \in DOMAIN groups0 \ {g} : groups0[h] = groups1[h]

(* From tables w0 to tables w1 one statement has written. *)
OneWrite(w0, w1, req) ==
  \E T \in AllTables : /\ Agree(w0, w1, req, T)
                       /\ T = "group" => OneGroupUpdated(w0.group, w1.group)

(* The first n queries have answered, the first m of them from w0. *)
Reading(n, m, w0, w1, req, got) ==
  \A i \in 1 .. n :
    /\ ~Missing(Queries[i], got[Queries[i]])
    /\ got[Queries[i]] = Find(IF i <= m THEN w0 ELSE w1, req, got, Queries[i])

LEMMA FindAgrees ==
  ASSUME NEW w0, NEW w1, NEW req, NEW got, NEW T \in AllTables, Agree(w0, w1, req, T),
         NEW q \in QueryNames, TableOf(q) # T
  PROVE  Find(w0, req, got, q) = Find(w1, req, got, q)
<1>1. \A t \in AllTables \ {T, "user"} : w0[t] = w1[t]
  BY DEF Agree
<1>2. CASE q = "user"
  BY <1>2 DEF Agree, Find, TableOf, AllTables
<1>3. CASE q = "binding"
  <2>1. w0.binding = w1.binding
    BY <1>1, <1>3 DEF TableOf, AllTables, Tables
  <2> QED  BY <1>3, <2>1 DEF Find
<1>4. CASE q \in {"member", "space", "registry", "resource"}
  <2>1. w0[q] = w1[q]
    BY <1>1, <1>4 DEF TableOf, AllTables, Tables
  <2> QED  BY <1>4, <2>1 DEF Find
<1>5. CASE q = "group"
  <2>1. w0.group = w1.group
    BY <1>1, <1>5 DEF TableOf, AllTables, Tables
  <2> QED  BY <1>5, <2>1 DEF Find
<1>6. CASE q = "memberRoles"
  <2>1. w0.memberRole = w1.memberRole
    BY <1>1, <1>6 DEF TableOf, AllTables, Tables
  <2> QED  BY <1>6, <2>1 DEF Find
<1>7. CASE q = "permissions"
  <2>1. w0.permission = w1.permission
    BY <1>1, <1>7 DEF TableOf, AllTables, Tables
  <2> QED  BY <1>7, <2>1 DEF Find
<1>8. CASE q = "rolePermissions"
  <2>1. w0.rolePermission = w1.rolePermission
    BY <1>1, <1>8 DEF TableOf, AllTables, Tables
  <2> QED  BY <1>8, <2>1 DEF Find
<1>9. CASE q = "roles"
  <2>1. w0.role = w1.role
    BY <1>1, <1>9 DEF TableOf, AllTables, Tables
  <2> QED  BY <1>9, <2>1 DEF Find
<1>10. CASE q = "anchors"
  <2>1. w0.group = w1.group
    BY <1>1, <1>10 DEF TableOf, AllTables, Tables
  <2> QED  BY <1>10, <2>1 DEF Find
<1> QED
  BY <1>2, <1>3, <1>4, <1>5, <1>6, <1>7, <1>8, <1>9, <1>10, QueriesAre

(* What the anchor query found, for the candidates. *)
LEMMA AnchorsFound ==
  ASSUME NEW w, NEW req, NEW got, got["anchors"] = Find(w, req, got, "anchors"),
         NEW k \in Candidates(got)
  PROVE  got["anchors"][k.grant.anchor] = RowOf(w.group, k.grant.anchor)
<1>1. k.grant \in got["memberRoles"]
  <2>1. PICK j \in got["memberRoles"] \X got["roles"] \X got["permissions"] :
          k = [grant |-> j[1], roleSpace |-> j[2][2], scope |-> j[3][2]]
    BY DEF Candidates
  <2> QED  BY <2>1
<1>2. got["anchors"] = [a \in { grant.anchor : grant \in got["memberRoles"] } |->
                          RowOf(w.group, a)]
  BY DEF Find
<1>3. k.grant.anchor \in { grant.anchor : grant \in got["memberRoles"] }
  BY <1>1
<1> QED  BY <1>2, <1>3

LEMMA GroupFound ==
  ASSUME NEW w, NEW req, NEW got
  PROVE  Find(w, req, got, "group") = RowOf(w.group, got["resource"].group)
BY DEF Find

(* All queries answered from the tables w. *)
LEMMA WholeReading ==
  ASSUME NEW w, NEW req, NEW got,
         \A q \in QueryNames : ~Missing(q, got[q]) /\ got[q] = Find(w, req, got, q)
  PROVE  ReadOf(w, req, got)
<1>1. {"group", "anchors"} \subseteq QueryNames
  BY QueriesAre
<1>2. Alike(got["group"], RowOf(w.group, got["resource"].group))
  BY <1>1, GroupFound DEF Alike
<1>3. \A k \in Candidates(got) :
        Alike(got["anchors"][k.grant.anchor], RowOf(w.group, k.grant.anchor))
  BY <1>1, AnchorsFound DEF Alike
<1> QED  BY <1>2, <1>3 DEF ReadOf

(* Rows of two moments, between which one table but the groups was written. *)
LEMMA TableReadOnce ==
  ASSUME NEW T \in AllTables \ {"group"}
  PROVE  \E j \in 1 .. 12 : \A i \in 1 .. 12 : i # j => TableOf(Queries[i]) # T
<1>1. \A i \in 1 .. 12 : i \in {1, 2, 3, 4, 5, 6, 7, 8, 9, 10, 11, 12}
  OBVIOUS
<1>2. /\ TableOf(Queries[1]) = "user" /\ TableOf(Queries[2]) = "binding"
      /\ TableOf(Queries[3]) = "member" /\ TableOf(Queries[4]) = "space"
      /\ TableOf(Queries[5]) = "registry" /\ TableOf(Queries[6]) = "resource"
      /\ TableOf(Queries[7]) = "group" /\ TableOf(Queries[8]) = "memberRole"
      /\ TableOf(Queries[9]) = "permission" /\ TableOf(Queries[10]) = "rolePermission"
      /\ TableOf(Queries[11]) = "role" /\ TableOf(Queries[12]) = "group"
  BY DEF Queries, TableOf
<1>3. T \in {"user", "binding", "member", "space", "registry", "resource", "memberRole",
             "permission", "rolePermission", "role"}
  BY DEF AllTables, Tables
<1> DEFINE t(i) == TableOf(Queries[i])
<1>4. \E j \in 1 .. 12 : t(j) = T
  BY <1>2, <1>3
<1>5. \A i, j \in 1 .. 12 : t(i) = t(j) /\ t(i) # "group" => i = j
  BY <1>1, <1>2
<1> HIDE DEF t
<1>6. \E j \in 1 .. 12 : \A i \in 1 .. 12 : i # j => t(i) # T
  BY <1>4, <1>5
<1> QED  BY <1>6 DEF t

LEMMA TornButNotInGroups ==
  ASSUME NEW w0, NEW w1, NEW req, NEW got, NEW m \in Nat, Reading(12, m, w0, w1, req, got),
         NEW T \in AllTables \ {"group"}, Agree(w0, w1, req, T)
  PROVE  ReadOf(w0, req, got) \/ ReadOf(w1, req, got)
<1>1. PICK j \in 1 .. 12 : \A i \in 1 .. 12 : i # j => TableOf(Queries[i]) # T
  BY TableReadOnce
<1>2. \A i \in 1 .. 12 : Queries[i] \in QueryNames
  BY QueriesAre DEF QueryNames
<1>3. \A i \in 1 .. 12 : i # j =>
        Find(w0, req, got, Queries[i]) = Find(w1, req, got, Queries[i])
  BY <1>1, <1>2, FindAgrees
<1>4. \A q \in QueryNames : \E i \in 1 .. 12 : q = Queries[i]
  BY QueriesAre DEF QueryNames
<1>5. CASE j <= m
  <2>1. \A i \in 1 .. 12 : /\ ~Missing(Queries[i], got[Queries[i]])
                           /\ got[Queries[i]] = Find(w0, req, got, Queries[i])
    BY <1>3, <1>5 DEF Reading
  <2>2. \A q \in QueryNames : ~Missing(q, got[q]) /\ got[q] = Find(w0, req, got, q)
    BY <1>4, <2>1
  <2> QED  BY <2>2, WholeReading
<1>6. CASE ~(j <= m)
  <2>1. \A i \in 1 .. 12 : /\ ~Missing(Queries[i], got[Queries[i]])
                           /\ got[Queries[i]] = Find(w1, req, got, Queries[i])
    BY <1>3, <1>6 DEF Reading
  <2>2. \A q \in QueryNames : ~Missing(q, got[q]) /\ got[q] = Find(w1, req, got, q)
    BY <1>4, <2>1
  <2> QED  BY <2>2, WholeReading
<1> QED  BY <1>5, <1>6

(* And when it was a group: the target's group and the anchors are read apart.
   The decision of a check that saw a group before its update and one of its
   anchors after it is one of the two moments' as well: an anchor that is the
   updated group itself must be in the Space, and so must the group have been. *)
LEMMA TornInGroups ==
  ASSUME NEW w0, TablesFit(w0), NEW w1, TablesFit(w1), NEW req, NEW got, NEW at \in Nat,
         NEW m \in Nat, Reading(12, m, w0, w1, req, got), Agree(w0, w1, req, "group"),
         OneGroupUpdated(w0.group, w1.group), Outcome(got, at, req) = "allow"
  PROVE  ReadOf(w0, req, got) \/ ReadOf(w1, req, got)
<1>1. \A q \in QueryNames \ {"group", "anchors"} :
        /\ ~Missing(q, got[q])
        /\ got[q] = Find(w0, req, got, q) /\ got[q] = Find(w1, req, got, q)
  <2> SUFFICES ASSUME NEW q \in QueryNames \ {"group", "anchors"}
               PROVE  /\ ~Missing(q, got[q])
                      /\ got[q] = Find(w0, req, got, q) /\ got[q] = Find(w1, req, got, q)
    OBVIOUS
  <2>1. TableOf(q) # "group" /\ "group" \in AllTables
    BY DEF TableOf, AllTables, Tables
  <2>2. Find(w0, req, got, q) = Find(w1, req, got, q)
    BY <2>1, FindAgrees
  <2>3. PICK i \in 1 .. 12 : q = Queries[i]
    BY QueriesAre DEF QueryNames
  <2> QED  BY <2>2, <2>3 DEF Reading
<1>2. /\ got["group"] = RowOf(IF 7 <= m THEN w0.group ELSE w1.group, got["resource"].group)
      /\ \A k \in Candidates(got) :
           got["anchors"][k.grant.anchor]
             = RowOf(IF 12 <= m THEN w0.group ELSE w1.group, k.grant.anchor)
  <2>1. Queries[7] = "group" /\ Queries[12] = "anchors"
    BY QueriesAre
  <2>2. got["group"] = Find(IF 7 <= m THEN w0 ELSE w1, req, got, "group")
    BY <2>1 DEF Reading
  <2>3. got["anchors"] = Find(IF 12 <= m THEN w0 ELSE w1, req, got, "anchors")
    BY <2>1 DEF Reading
  <2> QED  BY <2>2, <2>3, GroupFound, AnchorsFound
<1>3. CASE m < 7
  <2>1. ~(7 <= m) /\ ~(12 <= m)
    BY <1>3
  <2> QED  BY <1>1, <1>2, <2>1 DEF ReadOf, Alike
<1>4. CASE m >= 12
  <2>1. 7 <= m /\ 12 <= m
    BY <1>4
  <2> QED  BY <1>1, <1>2, <2>1 DEF ReadOf, Alike
<1>5. CASE 7 <= m /\ m < 12
  <2> DEFINE r == got["resource"].group
  <2>1. /\ got["group"] = RowOf(w0.group, r)
        /\ \A k \in Candidates(got) :
             got["anchors"][k.grant.anchor] = RowOf(w1.group, k.grant.anchor)
    BY <1>2, <1>5
  <2>2. PICK g : \A h \in DOMAIN w0.group \ {g} : w0.group[h] = w1.group[h]
    BY DEF OneGroupUpdated
  <2>3. \A h : h # g => RowOf(w0.group, h) = RowOf(w1.group, h)
    BY <2>2 DEF RowOf, OneGroupUpdated
  <2>4. CASE r # g \/ g \notin DOMAIN w0.group
    <3>1. RowOf(w0.group, r) = RowOf(w1.group, r)
      BY <2>3, <2>4 DEF RowOf, OneGroupUpdated
    <3> QED  BY <1>1, <2>1, <3>1 DEF ReadOf, Alike
  <2>5. CASE r = g /\ g \in DOMAIN w0.group /\ \E k \in Candidates(got) : k.grant.anchor = g
    <3>1. PICK k \in Candidates(got) : k.grant.anchor = g
      BY <2>5
    <3>2. /\ RowOf(w0.group, g) = w0.group[g] /\ RowOf(w1.group, g) = w1.group[g]
          /\ g \in DOMAIN w1.group
      BY <2>5 DEF RowOf, OneGroupUpdated
    <3>3. /\ w0.group[g] # Gone /\ w0.group[g].id = g
          /\ w1.group[g] # Gone /\ w1.group[g].id = g
      BY <2>5, <3>2 DEF TablesFit, Tables, RowFits, PathsFit
    <3>4. w0.group[g].path = w1.group[g].path
      BY <2>5 DEF OneGroupUpdated
    <3>5. ~CrossesSpaces(got, req.space)
      BY DEF Outcome
    <3>6. got["group"].space = req.space
      BY <2>1, <2>5, <3>2, <3>3, <3>5 DEF CrossesSpaces
    <3>7. got["anchors"][g].space = req.space
      BY <2>1, <3>1, <3>2, <3>3, <3>5 DEF CrossesSpaces
    <3>8. w0.group[g].space = w1.group[g].space
      BY <2>1, <2>5, <3>1, <3>2, <3>6, <3>7
    <3>9. Alike(got["group"], RowOf(w1.group, r))
      BY <2>1, <2>5, <3>2, <3>3, <3>4, <3>8 DEF Alike
    <3> QED  BY <1>1, <2>1, <3>9 DEF ReadOf, Alike
  <2>6. CASE ~ \E k \in Candidates(got) : k.grant.anchor = g
    BY <1>1, <2>1, <2>3, <2>6 DEF ReadOf, Alike
  <2> QED  BY <2>4, <2>5, <2>6
<1> QED  BY <1>3, <1>4, <1>5

(* A check that one write ran into, and that allows, allows what the tables
   before the write or those after it entitle the actor to. *)
LEMMA TornReadFailsClosed ==
  ASSUME NEW w0, TablesFit(w0), NEW w1, TablesFit(w1), NEW req, NEW got, NEW at \in Nat,
         NEW m \in Nat, Reading(12, m, w0, w1, req, got), OneWrite(w0, w1, req),
         Outcome(got, at, req) = "allow"
  PROVE  Entitled(w0, at, req) \/ Entitled(w1, at, req)
<1>1. PICK T \in AllTables : /\ Agree(w0, w1, req, T)
                             /\ T = "group" => OneGroupUpdated(w0.group, w1.group)
  BY DEF OneWrite
<1>2. ReadOf(w0, req, got) \/ ReadOf(w1, req, got)
  BY <1>1, TornInGroups, TornButNotInGroups
<1> QED  BY <1>2, OutcomeIsEntitlement

(***************************************************************************)
(* What a check has read, step by step.                                    *)
(***************************************************************************)

(* The loaders are done after n queries. *)
Settled(n, got) ==
  \/ got["registry"] = Unreadable
  \/ n > 0 /\ EnoughLoaded(Queries[n], got[Queries[n]])

(* A check that has come as far as t, with the rows got, has made n queries, the
   first m of them before the one write that ran into it, when the tables were w0. *)
HasLoaded(t, got, db, at, req, n, m, w0) ==
  /\ m <= n
  /\ t.stage = "loading" => n = t.next - 1
  /\ t.stage = "deciding" => Settled(n, got)
  /\ t.overlaps = 0 => m = 0
  /\ Reading(n, m, w0, db, req, got)
  /\ n > 0 /\ m = 0 => t.once \/ ~Entitled(db, at, req)
  /\ m > 0 => /\ TablesFit(w0) /\ OneWrite(w0, db, req)
              /\ t.once \/ ~Entitled(w0, at, req)

(* The inductive invariant of one check. *)
CheckHolds(t, got, db, at, req) ==
  /\ t.stage \in {"waiting", "loading"} => t.next \in 1 .. 12
  /\ t.stage = "waiting" => t.next = 1
  /\ t.stage \in {"loading", "deciding"} /\ t.overlaps <= 1 =>
       \E n \in 0 .. 12, m \in 0 .. 12 : \E w0 : HasLoaded(t, got, db, at, req, n, m, w0)
  /\ t.stage \in {"auditing", "answered"} =>
       /\ t.overlaps = 0 /\ got["registry"] # Unreadable => (t.verdict = "allow" <=> t.last)
       /\ t.overlaps <= 1 /\ t.verdict = "allow" => t.once

(* An expiry that has passed does not come back. *)
LEMMA EntitlementEnds ==
  ASSUME NEW w, TablesFit(w), NEW req, NEW at \in Nat, NEW later \in Nat, at <= later,
         Entitled(w, later, req)
  PROVE  Entitled(w, at, req)
<1> DEFINE b == RowOf(w.binding, req.binding)
<1>1. ActorInGoodStanding(w, later, req)
  BY DEF Entitled
<1>2. b # Gone /\ (b.expires = NoExpiry \/ b.expires >= later)
  BY <1>1 DEF ActorInGoodStanding
<1>3. b.expires \in Nat
  <2>1. req.binding \in DOMAIN w.binding /\ b = w.binding[req.binding]
    BY <1>2 DEF RowOf
  <2>2. RowFits("binding", b)
    BY <2>1 DEF TablesFit, Tables
  <2> QED  BY <2>2 DEF RowFits
<1>4. b.expires = NoExpiry \/ b.expires >= at
  <2> HIDE DEF b
  <2> QED  BY <1>2, <1>3
<1>5. ActorInGoodStanding(w, at, req)
  BY <1>1, <1>4 DEF ActorInGoodStanding
<1> QED  BY <1>5 DEF Entitled

LEMMA TimePassesForCheck ==
  ASSUME NEW t, NEW got, NEW db, TablesFit(db), NEW at \in Nat, NEW later \in Nat,
         at <= later, NEW req, CheckHolds(t, got, db, at, req)
  PROVE  CheckHolds(t, got, db, later, req)
<1>1. \A n \in 0 .. 12, m \in 0 .. 12 : \A w0 :
        HasLoaded(t, got, db, at, req, n, m, w0) => HasLoaded(t, got, db, later, req, n, m, w0)
  <2> SUFFICES ASSUME NEW n \in 0 .. 12, NEW m \in 0 .. 12, NEW w0,
                      HasLoaded(t, got, db, at, req, n, m, w0)
               PROVE  HasLoaded(t, got, db, later, req, n, m, w0)
    OBVIOUS
  <2>1. Entitled(db, later, req) => Entitled(db, at, req)
    BY EntitlementEnds
  <2>2. m > 0 /\ Entitled(w0, later, req) => Entitled(w0, at, req)
    BY EntitlementEnds DEF HasLoaded
  <2> QED  BY <2>1, <2>2 DEF HasLoaded
<1> QED  BY <1>1 DEF CheckHolds

(* A write runs into the check: what it has read so far was of the tables before. *)
LEMMA WriteRunsIntoCheck ==
  ASSUME NEW t \in CheckProgress, NEW got, NEW db, TablesFit(db), NEW new, NEW at \in Nat,
         NEW later \in Nat, at <= later, NEW req, CheckHolds(t, got, db, at, req),
         t.stage \in {"loading", "deciding"},
         db.user[req.user] # NoUser => OneWrite(db, new, req)
  PROVE  CheckHolds([t EXCEPT !.overlaps = IF @ = 2 THEN 2 ELSE @ + 1], got, new, later, req)
<1> DEFINE u == [t EXCEPT !.overlaps = IF @ = 2 THEN 2 ELSE @ + 1]
<1>1. /\ u.stage = t.stage /\ u.next = t.next /\ u.once = t.once
      /\ u.overlaps = IF t.overlaps = 2 THEN 2 ELSE t.overlaps + 1
  BY DEF CheckProgress
<1>2. t.overlaps \in 0 .. 2
  BY DEF CheckProgress
<1> HIDE DEF u
<1>3. CheckHolds(t, got, db, later, req)
  BY TimePassesForCheck
<1>4. ASSUME u.overlaps <= 1
      PROVE  \E n \in 0 .. 12, m \in 0 .. 12 : \E w0 : HasLoaded(u, got, new, later, req, n, m, w0)
  <2>1. t.overlaps = 0 /\ u.overlaps = 1
    BY <1>1, <1>2, <1>4
  <2>2. PICK n \in 0 .. 12, m \in 0 .. 12 : \E w0 : HasLoaded(t, got, db, later, req, n, m, w0)
    BY <1>3, <2>1 DEF CheckHolds
  <2>3. PICK w0 : HasLoaded(t, got, db, later, req, n, m, w0)
    BY <2>2
  <2>4. m = 0
    BY <2>1, <2>3 DEF HasLoaded
  <2>5. \A i \in 1 .. n : /\ ~Missing(Queries[i], got[Queries[i]])
                          /\ got[Queries[i]] = Find(db, req, got, Queries[i])
    BY <2>3, <2>4 DEF HasLoaded, Reading
  <2>6. Reading(n, n, db, new, req, got)
    BY <2>5 DEF Reading
  <2>7. n > 0 => OneWrite(db, new, req)
    <3> SUFFICES ASSUME n > 0  PROVE db.user[req.user] # NoUser
      OBVIOUS
    <3>1. Queries[1] = "user" /\ 1 \in 1 .. n
      BY QueriesAre
    <3>2. got["user"] # NoUser /\ got["user"] = Find(db, req, got, "user")
      BY <2>5, <3>1 DEF Missing
    <3> QED  BY <3>2 DEF Find
  <2>8. HasLoaded(u, got, new, later, req, n, n, db)
    BY <1>1, <2>1, <2>3, <2>4, <2>6, <2>7 DEF HasLoaded
  <2> QED  BY <2>8
<1>5. CheckHolds(u, got, new, later, req)
  BY <1>1, <1>3, <1>4 DEF CheckHolds
<1> QED  BY <1>5 DEF u

(* No query uses what a later one finds. *)
LEMMA FindUsesEarlier ==
  ASSUME NEW n \in 0 .. 11, NEW got, NEW more,
         \A i \in 1 .. n : more[Queries[i]] = got[Queries[i]],
         NEW w, NEW req, NEW i \in 1 .. n + 1
  PROVE  Find(w, req, more, Queries[i]) = Find(w, req, got, Queries[i])
<1>1. i \in {1, 2, 3, 4, 5, 6, 7, 8, 9, 10, 11, 12}
  OBVIOUS
<1>2. \A j \in 1 .. 12 : j < i => more[Queries[j]] = got[Queries[j]]
  OBVIOUS
<1>3. CASE i \in {1, 2, 3, 4, 5, 6}
  BY <1>3 DEF Queries, Find
<1>4. CASE i = 7
  <2>1. more["resource"] = got["resource"]
    BY <1>2, <1>4, QueriesAre
  <2> QED  BY <1>4, <2>1 DEF Queries, Find
<1>5. CASE i \in {8, 9}
  BY <1>5 DEF Queries, Find
<1>6. CASE i = 10
  <2>1. more["memberRoles"] = got["memberRoles"] /\ more["permissions"] = got["permissions"]
    BY <1>2, <1>6, QueriesAre
  <2> QED  BY <1>6, <2>1 DEF Queries, Find
<1>7. CASE i = 11
  <2>1. more["rolePermissions"] = got["rolePermissions"]
    BY <1>2, <1>7, QueriesAre
  <2> QED  BY <1>7, <2>1 DEF Queries, Find
<1>8. CASE i = 12
  <2>1. more["memberRoles"] = got["memberRoles"]
    BY <1>2, <1>8, QueriesAre
  <2> QED  BY <1>8, <2>1 DEF Queries, Find
<1> QED  BY <1>1, <1>3, <1>4, <1>5, <1>6, <1>7, <1>8

(* The rows a query adds leave the queries before it as they were. *)
LEMMA EarlierReadingStands ==
  ASSUME NEW n \in 0 .. 11, NEW m, NEW w0, NEW w1, NEW req, NEW got, NEW more,
         \A i \in 1 .. n : more[Queries[i]] = got[Queries[i]],
         Reading(n, m, w0, w1, req, got)
  PROVE  Reading(n, m, w0, w1, req, more)
<1> SUFFICES ASSUME NEW i \in 1 .. n
             PROVE  /\ ~Missing(Queries[i], more[Queries[i]])
                    /\ more[Queries[i]]
                         = Find(IF i <= m THEN w0 ELSE w1, req, more, Queries[i])
  BY DEF Reading
<1>1. \A w : Find(w, req, more, Queries[i]) = Find(w, req, got, Queries[i])
  BY FindUsesEarlier
<1> QED  BY <1>1 DEF Reading

(* A query answers, and the check goes on to the next or to its decision. *)
LEMMA LoadAddsToReading ==
  ASSUME NEW t \in CheckProgress, NEW got, DOMAIN got = QueryNames, NEW db, NEW at, NEW req,
         CheckHolds(t, got, db, at, req), t.stage = "loading",
         NEW value, value = Find(db, req, got, Queries[t.next]),
         ~Missing(Queries[t.next], value),
         NEW u, u.overlaps = t.overlaps, u.once = (t.once \/ Entitled(db, at, req)),
         \/ u.stage = "deciding" /\ EnoughLoaded(Queries[t.next], value)
         \/ u.stage = "loading" /\ ~EnoughLoaded(Queries[t.next], value) /\ u.next = t.next + 1
  PROVE  CheckHolds(u, [got EXCEPT ![Queries[t.next]] = value], db, at, req)
<1> DEFINE i == t.next  q == Queries[i]  more == [got EXCEPT ![q] = value]
<1>1. i \in 1 .. 12
  BY DEF CheckHolds
<1>2. q \in QueryNames /\ more[q] = value
      /\ \A j \in 1 .. i - 1 : more[Queries[j]] = got[Queries[j]]
  <2>1. \A j \in 1 .. 12 : Queries[j] \in QueryNames
    BY QueriesAre DEF QueryNames
  <2>2. \A j, k \in 1 .. 12 : j # k => Queries[j] # Queries[k]
    BY DEF Queries
  <2> QED  BY <1>1, <2>1, <2>2
<1>3. u.stage = "loading" => u.next \in 1 .. 12
  <2>1. u.stage = "loading" => i # 12
    BY QueriesAre DEF EnoughLoaded
  <2> QED  BY <1>1, <2>1
<1>4. ASSUME u.overlaps <= 1
      PROVE  \E n \in 0 .. 12, m \in 0 .. 12 : \E w0 : HasLoaded(u, more, db, at, req, n, m, w0)
  <2>1. PICK n \in 0 .. 12, m \in 0 .. 12 : \E w0 : HasLoaded(t, got, db, at, req, n, m, w0)
    BY <1>4 DEF CheckHolds
  <2>2. PICK w0 : HasLoaded(t, got, db, at, req, n, m, w0)
    BY <2>1
  <2>3. n = i - 1 /\ n \in 0 .. 11 /\ m <= n /\ n + 1 = i /\ n + 1 \in 0 .. 12
    BY <1>1, <2>2 DEF HasLoaded
  <2>4. Reading(n, m, w0, db, req, more)
    BY <1>2, <2>2, <2>3, EarlierReadingStands DEF HasLoaded
  <2>5. more[q] = Find(db, req, more, q)
    <3>1. i \in 1 .. n + 1
      BY <2>3
    <3>2. \A j \in 1 .. n : more[Queries[j]] = got[Queries[j]]
      BY <1>2, <2>3
    <3> HIDE DEF more, i
    <3>3. Find(db, req, more, Queries[i]) = Find(db, req, got, Queries[i])
      BY <2>3, <3>1, <3>2, FindUsesEarlier
    <3> QED  BY <1>2, <3>3 DEF i, more
  <2> HIDE DEF more
  <2>6. Reading(n + 1, m, w0, db, req, more)
    <3> SUFFICES ASSUME NEW j \in 1 .. n + 1
                 PROVE  /\ ~Missing(Queries[j], more[Queries[j]])
                        /\ more[Queries[j]]
                             = Find(IF j <= m THEN w0 ELSE db, req, more, Queries[j])
      BY DEF Reading
    <3>1. CASE j = i
      BY <1>2, <2>3, <2>5, <3>1
    <3>2. CASE j # i
      BY <2>3, <2>4, <3>2 DEF Reading
    <3> QED  BY <3>1, <3>2
  <2>7. u.stage = "deciding" => Settled(n + 1, more)
    BY <1>2, <2>3 DEF Settled
  <2>8. (u.once \/ ~Entitled(db, at, req)) /\ (t.once => u.once)
    OBVIOUS
  <2>9. u.stage = "loading" => n + 1 = u.next - 1
    BY <1>1, <2>3
  <2>10. HasLoaded(u, more, db, at, req, n + 1, m, w0)
    BY <2>2, <2>3, <2>6, <2>7, <2>8, <2>9 DEF HasLoaded
  <2> QED  BY <2>3, <2>10
<1> HIDE DEF more
<1>5. CheckHolds(u, more, db, at, req)
  BY <1>3, <1>4 DEF CheckHolds
<1> QED  BY <1>5 DEF more

(* The query of the registry fails. *)
LEMMA RegistryFailureSettles ==
  ASSUME NEW t \in CheckProgress, NEW got, DOMAIN got = QueryNames, NEW db, NEW at, NEW req,
         CheckHolds(t, got, db, at, req), t.stage = "loading", Queries[t.next] = "registry",
         NEW u, u.overlaps = t.overlaps, u.once = t.once, u.stage = "deciding"
  PROVE  CheckHolds(u, [got EXCEPT !["registry"] = Unreadable], db, at, req)
<1> DEFINE more == [got EXCEPT !["registry"] = Unreadable]
<1>1. t.next = 5
  <2>1. t.next \in {1, 2, 3, 4, 5, 6, 7, 8, 9, 10, 11, 12}
    BY DEF CheckHolds
  <2> QED  BY <2>1 DEF Queries
<1>2. more["registry"] = Unreadable
      /\ \A j \in 1 .. 4 : more[Queries[j]] = got[Queries[j]]
  <2>1. \A j \in 1 .. 4 : Queries[j] \in {"user", "binding", "member", "space"}
    BY DEF Queries
  <2> QED  BY <2>1, QueriesAre
<1>3. ASSUME u.overlaps <= 1
      PROVE  \E n \in 0 .. 12, m \in 0 .. 12 : \E w0 : HasLoaded(u, more, db, at, req, n, m, w0)
  <2>1. PICK n \in 0 .. 12, m \in 0 .. 12 : \E w0 : HasLoaded(t, got, db, at, req, n, m, w0)
    BY <1>3 DEF CheckHolds
  <2>2. PICK w0 : HasLoaded(t, got, db, at, req, n, m, w0)
    BY <2>1
  <2>3. n = 4
    BY <1>1, <2>2 DEF HasLoaded
  <2>4. Reading(n, m, w0, db, req, more)
    <3>1. n \in 0 .. 11 /\ \A j \in 1 .. n : more[Queries[j]] = got[Queries[j]]
      BY <1>2, <2>3
    <3>2. Reading(n, m, w0, db, req, got)
      BY <2>2 DEF HasLoaded
    <3> HIDE DEF more
    <3> QED  BY <3>1, <3>2, EarlierReadingStands
  <2>5. HasLoaded(u, more, db, at, req, n, m, w0)
    BY <1>2, <2>2, <2>4 DEF HasLoaded, Settled
  <2> QED  BY <2>5
<1> HIDE DEF more
<1>4. CheckHolds(u, more, db, at, req)
  BY <1>3 DEF CheckHolds
<1> QED  BY <1>4 DEF more

(* The loaders that return early leave nothing to allow, *)
LEMMA EarlyReturnDenies ==
  ASSUME NEW n \in 0 .. 11, NEW got, Settled(n, got), NEW at, NEW req
  PROVE  Outcome(got, at, req) = "deny"
<1>1. \/ got["registry"] # "registered"
      \/ got["memberRoles"] = {} \/ got["permissions"] = {} \/ got["rolePermissions"] = {}
  <2>1. CASE got["registry"] = Unreadable
    BY <2>1 DEF Unreadable
  <2>2. CASE n > 0 /\ EnoughLoaded(Queries[n], got[Queries[n]])
    <3>1. n \in {1, 2, 3, 4, 5, 6, 7, 8, 9, 10, 11}
      BY <2>2
    <3>2. Queries[n] # "anchors"
      BY <3>1 DEF Queries
    <3> QED  BY <2>2, <3>2 DEF EnoughLoaded
  <2> QED  BY <2>1, <2>2 DEF Settled
<1>2. got["memberRoles"] = {} \/ got["permissions"] = {} \/ got["rolePermissions"] = {}
        => Candidates(got) = {}
  BY DEF Candidates
<1> QED  BY <1>1, <1>2 DEF Outcome

(* and return early only when the tables give the actor nothing. *)
LEMMA EarlyReturnIsUnentitled ==
  ASSUME NEW n \in 1 .. 11, NEW w, TablesFit(w), NEW req, NEW got, NEW at,
         \A i \in 1 .. n : got[Queries[i]] = Find(w, req, got, Queries[i]),
         EnoughLoaded(Queries[n], got[Queries[n]])
  PROVE  ~Entitled(w, at, req)
<1> SUFFICES ASSUME Entitled(w, at, req)  PROVE FALSE
  OBVIOUS
<1>1. PICK k \in GrantsOf(w, req) : TRUE
  BY DEF Entitled
<1> DEFINE g == k.grant  p == k.permission  r == w.memberRole[k.grant].role
<1>2. /\ g \in DOMAIN w.memberRole /\ p \in DOMAIN w.permission
      /\ w.memberRole[g].member = req.member /\ w.memberRole[g].active
      /\ r \in DOMAIN w.role /\ w.rolePermission[<<r, p>>]
      /\ w.permission[p].active /\ w.permission[p].action = req.action
  BY <1>1 DEF GrantsOf, RowOf
<1>3. w.registry[req.action] = "registered"
  BY DEF Entitled
<1>4. n \in {1, 2, 3, 4, 5, 6, 7, 8, 9, 10, 11}
  OBVIOUS
<1>5. CASE n \in {1, 2, 3, 4, 6, 7, 11}
  BY <1>5 DEF Queries, EnoughLoaded
<1>6. CASE n = 5
  <2>1. got["registry"] = w.registry[req.action]
    BY <1>6, QueriesAre DEF Find
  <2> QED  BY <1>3, <1>6, <2>1, QueriesAre DEF EnoughLoaded
<1>7. n >= 8 => w.memberRole[g] \in got["memberRoles"]
  <2> SUFFICES ASSUME n >= 8  PROVE w.memberRole[g] \in got["memberRoles"]
    OBVIOUS
  <2>1. got["memberRoles"] = Find(w, req, got, "memberRoles")
    BY QueriesAre
  <2> QED  BY <1>2, <2>1 DEF Find
<1>8. n >= 9 => <<p, w.permission[p].scope>> \in got["permissions"]
  <2> SUFFICES ASSUME n >= 9  PROVE <<p, w.permission[p].scope>> \in got["permissions"]
    OBVIOUS
  <2>1. got["permissions"] = Find(w, req, got, "permissions")
    BY QueriesAre
  <2> QED  BY <1>2, <2>1 DEF Find
<1>9. n >= 10 => <<r, p>> \in got["rolePermissions"]
  <2> SUFFICES ASSUME n >= 10  PROVE <<r, p>> \in got["rolePermissions"]
    OBVIOUS
  <2>1. got["rolePermissions"] = Find(w, req, got, "rolePermissions")
    BY QueriesAre
  <2>2. got["rolePermissions"] = { rp \in DOMAIN w.rolePermission :
             /\ w.rolePermission[rp]
             /\ \E grant \in got["memberRoles"] : grant.role = rp[1]
             /\ \E x \in got["permissions"] : x[1] = rp[2] }
    BY <2>1 DEF Find
  <2>3. <<r, p>> \in DOMAIN w.rolePermission
    BY <1>2 DEF TablesFit
  <2> QED  BY <1>2, <1>7, <1>8, <2>2, <2>3
<1>10. CASE n = 8
  BY <1>7, <1>10, QueriesAre DEF EnoughLoaded
<1>11. CASE n = 9
  BY <1>8, <1>11, QueriesAre DEF EnoughLoaded
<1>12. CASE n = 10
  BY <1>9, <1>12, QueriesAre DEF EnoughLoaded
<1> QED  BY <1>4, <1>5, <1>6, <1>10, <1>11, <1>12

(* The decision. *)
LEMMA DecisionIsSound ==
  ASSUME NEW t \in CheckProgress, NEW got, NEW db, TablesFit(db), NEW at \in Nat, NEW req,
         CheckHolds(t, got, db, at, req), t.stage = "deciding",
         NEW u, u.overlaps = t.overlaps, u.stage = "auditing",
         u.verdict = Outcome(got, at, req),
         u.once = (t.once \/ Entitled(db, at, req)), u.last = Entitled(db, at, req)
  PROVE  CheckHolds(u, got, db, at, req)
<1>1. ASSUME t.overlaps <= 1
      PROVE  /\ t.overlaps = 0 /\ got["registry"] # Unreadable
                  => (Outcome(got, at, req) = "allow" <=> Entitled(db, at, req))
             /\ Outcome(got, at, req) = "allow" => t.once \/ Entitled(db, at, req)
  <2>1. PICK n \in 0 .. 12, m \in 0 .. 12 : \E w0 : HasLoaded(t, got, db, at, req, n, m, w0)
    BY <1>1 DEF CheckHolds
  <2>2. PICK w0 : HasLoaded(t, got, db, at, req, n, m, w0)
    BY <2>1
  <2>3. CASE n < 12
    <3>1. n \in 0 .. 11 /\ Settled(n, got)
      BY <2>2, <2>3 DEF HasLoaded
    <3>2. Outcome(got, at, req) = "deny"
      BY <3>1, EarlyReturnDenies
    <3>3. ASSUME t.overlaps = 0, got["registry"] # Unreadable
          PROVE  ~Entitled(db, at, req)
      <4>1. n \in 1 .. 11 /\ EnoughLoaded(Queries[n], got[Queries[n]])
        BY <3>1, <3>3 DEF Settled
      <4>2. m = 0
        BY <2>2, <3>3 DEF HasLoaded
      <4>3. \A i \in 1 .. n : got[Queries[i]] = Find(db, req, got, Queries[i])
        BY <2>2, <4>2 DEF HasLoaded, Reading
      <4> QED  BY <4>1, <4>3, EarlyReturnIsUnentitled
    <3> QED  BY <3>2, <3>3
  <2>4. CASE n = 12 /\ m = 0
    <3>1. \A i \in 1 .. 12 : /\ ~Missing(Queries[i], got[Queries[i]])
                             /\ got[Queries[i]] = Find(db, req, got, Queries[i])
      BY <2>2, <2>4 DEF HasLoaded, Reading
    <3>2. \A q \in QueryNames : \E i \in 1 .. 12 : q = Queries[i]
      BY QueriesAre DEF QueryNames
    <3>3. \A q \in QueryNames : ~Missing(q, got[q]) /\ got[q] = Find(db, req, got, q)
      BY <3>1, <3>2
    <3>4. Outcome(got, at, req) = "allow" <=> Entitled(db, at, req)
      BY <3>3, WholeReading, OutcomeIsEntitlement
    <3> QED  BY <3>4
  <2>5. CASE n = 12 /\ m > 0
    <3>1. t.overlaps # 0
      BY <2>2, <2>5 DEF HasLoaded
    <3>2. /\ Reading(12, m, w0, db, req, got) /\ TablesFit(w0) /\ OneWrite(w0, db, req)
          /\ t.once \/ ~Entitled(w0, at, req)
      BY <2>2, <2>5 DEF HasLoaded
    <3>3. Outcome(got, at, req) = "allow" => Entitled(w0, at, req) \/ Entitled(db, at, req)
      BY <3>2, TornReadFailsClosed
    <3> QED  BY <3>1, <3>2, <3>3
  <2> QED  BY <2>3, <2>4, <2>5
<1>2. t.overlaps \in 0 .. 2 /\ (t.overlaps = 0 => t.overlaps <= 1)
  BY DEF CheckProgress
<1>3. (t.once \/ Entitled(db, at, req) => u.once) /\ (u.last <=> Entitled(db, at, req))
  OBVIOUS
<1> QED  BY <1>1, <1>2, <1>3 DEF CheckHolds

(***************************************************************************)
(* A decision is audited before it is answered.                            *)
(***************************************************************************)

AuditIInv == AuthzTypeOK /\ DecisionsAreAudited

LEMMA AuditStep ==
  ASSUME AuditIInv, NEW c \in Check, CheckStep(c)
  PROVE  AuditIInv'
<1> DEFINE Tasks == [Check -> CheckProgress]
<1>1. /\ DOMAIN directory = Tables /\ written \subseteq DirectoryWrite
      /\ checkTask \in Tasks /\ auditLog \subseteq Check \X Verdict
  BY DEF AuditIInv, AuthzTypeOK
<1>2. UNCHANGED <<directory, written>>
  BY DEF CheckStep, Begin, Load, Decide, Audit, RegistryFails, CheckFails
<1>3. ASSUME NEW t \in CheckProgress,
             checkTask' = [checkTask EXCEPT ![c] = t],
             \/ auditLog' = auditLog
             \/ \E v \in Verdict : auditLog' = auditLog \cup {<<c, v>>},
             t.stage = "answered" /\ t.verdict \in Audited => <<c, t.verdict>> \in auditLog'
      PROVE  AuditIInv'
  <2>1. AuthzTypeOK'
    BY <1>1, <1>2, <1>3 DEF AuthzTypeOK
  <2>2. \A d \in Check, v \in Audited :
          checkTask'[d].stage = "answered" /\ checkTask'[d].verdict = v => <<d, v>> \in auditLog'
    BY <1>1, <1>3 DEF AuditIInv, DecisionsAreAudited, Answered
  <2> QED  BY <2>1, <2>2 DEF AuditIInv, DecisionsAreAudited, Answered
<1>4. checkTask[c] \in CheckProgress
  BY <1>1
<1>5. CASE Begin(c) \/ CheckFails(c)
  <2>1. PICK st \in {"loading", "failed"} : checkTask' = [checkTask EXCEPT ![c].stage = st]
    BY <1>5 DEF Begin, CheckFails, FailedCheck
  <2>2. [checkTask[c] EXCEPT !.stage = st] \in CheckProgress
        /\ [checkTask[c] EXCEPT !.stage = st].stage = st
    BY <1>4 DEF CheckProgress
  <2>3. auditLog' = auditLog
    BY <1>5 DEF Begin, CheckFails
  <2> QED  BY <1>3, <2>1, <2>2, <2>3
<1>6. CASE Load(c)
  <2> DEFINE i == checkTask[c].next
  <2> DEFINE value == Find(Database, Req(c), seen[c], Queries[i])
  <2> DEFINE stage == IF Missing(Queries[i], value) THEN "failed"
                      ELSE IF EnoughLoaded(Queries[i], value) THEN "deciding" ELSE "loading"
  <2> DEFINE next == IF stage = "loading" THEN i + 1 ELSE 0
  <2> DEFINE once == checkTask[c].once \/ EntitledNow(c)
  <2>1. stage \in {"failed", "deciding", "loading"}
    OBVIOUS
  <2>2. next \in 0 .. Len(Queries)
    <3>1. Len(Queries) = 12 /\ Queries[12] = "anchors"
      BY DEF Queries
    <3>2. i \in 0 .. 12
      BY <1>4, <3>1 DEF CheckProgress
    <3>3. i = 12 => stage # "loading"
      BY <3>1 DEF EnoughLoaded
    <3> HIDE DEF stage
    <3> QED  BY <3>1, <3>2, <3>3
  <2>3. once \in BOOLEAN
    BY <1>4 DEF CheckProgress, EntitledNow, Entitled
  <2>4. checkTask' = [checkTask EXCEPT ![c].stage = stage, ![c].next = next, ![c].once = once]
    BY <1>6 DEF Load
  <2>5. auditLog' = auditLog
    BY <1>6 DEF Load
  <2> HIDE DEF stage, next, once
  <2> DEFINE t == [checkTask[c] EXCEPT !.stage = stage, !.next = next, !.once = once]
  <2>6. t \in CheckProgress /\ t.stage = stage
    BY <1>4, <2>1, <2>2, <2>3 DEF CheckProgress
  <2>7. checkTask' = [checkTask EXCEPT ![c] = t]
    BY <2>4
  <2> HIDE DEF t
  <2> QED  BY <1>3, <2>1, <2>5, <2>6, <2>7
<1>7. CASE RegistryFails(c)
  <2> DEFINE t == [checkTask[c] EXCEPT !.stage = "deciding", !.next = 0]
  <2>1. t \in CheckProgress /\ t.stage = "deciding"
    <3>1. 0 \in 0 .. Len(Queries)
      BY DEF Queries
    <3> QED  BY <1>4, <3>1 DEF CheckProgress
  <2>2. checkTask' = [checkTask EXCEPT ![c] = t] /\ auditLog' = auditLog
    BY <1>7 DEF RegistryFails
  <2> HIDE DEF t
  <2> QED  BY <1>3, <2>1, <2>2
<1>8. CASE Decide(c)
  <2> DEFINE entitled == EntitledNow(c)
  <2> DEFINE verdict == Outcome(seen[c], now, Req(c))
  <2> DEFINE once == checkTask[c].once \/ entitled
  <2>1. entitled \in BOOLEAN /\ once \in BOOLEAN
    BY <1>4 DEF CheckProgress, EntitledNow, Entitled
  <2>2. verdict \in Verdict
    BY DEF Outcome, Verdict
  <2>3. checkTask' = [checkTask EXCEPT ![c].stage = "auditing", ![c].verdict = verdict,
                                       ![c].once = once, ![c].last = entitled]
        /\ auditLog' = auditLog
    BY <1>8 DEF Decide
  <2> HIDE DEF entitled, verdict, once
  <2> DEFINE t == [checkTask[c] EXCEPT !.stage = "auditing", !.verdict = verdict, !.once = once,
                                       !.last = entitled]
  <2>4. t \in CheckProgress /\ t.stage = "auditing"
    BY <1>4, <2>1, <2>2 DEF CheckProgress
  <2>5. checkTask' = [checkTask EXCEPT ![c] = t]
    BY <2>3
  <2> HIDE DEF t
  <2> QED  BY <1>3, <2>3, <2>4, <2>5
<1>9. CASE Audit(c)
  <2> DEFINE t == [checkTask[c] EXCEPT !.stage = "answered"]
  <2>1. t \in CheckProgress /\ t.verdict = checkTask[c].verdict /\ t.verdict \in Verdict
    BY <1>4 DEF CheckProgress
  <2>2. checkTask' = [checkTask EXCEPT ![c] = t]
        /\ auditLog' = IF checkTask[c].verdict \in Audited
                       THEN auditLog \cup {<<c, checkTask[c].verdict>>} ELSE auditLog
    BY <1>9 DEF Audit
  <2> HIDE DEF t
  <2>3. t.verdict \in Audited => <<c, t.verdict>> \in auditLog'
    BY <2>1, <2>2
  <2> QED  BY <1>3, <2>1, <2>2, <2>3
<1> QED  BY <1>5, <1>6, <1>7, <1>8, <1>9 DEF CheckStep

(* A write that a check may or may not have read takes it no further. *)
LEMMA NoteKeepsAudit ==
  ASSUME AuditIInv, NoteWrite \/ UNCHANGED checkTask,
         DOMAIN directory' = DOMAIN directory, written' \subseteq DirectoryWrite,
         auditLog' = auditLog
  PROVE  AuditIInv'
<1>1. \A t \in CheckProgress, n \in 0 .. 2 :
        /\ [t EXCEPT !.overlaps = n] \in CheckProgress
        /\ [t EXCEPT !.overlaps = n].stage = t.stage
        /\ [t EXCEPT !.overlaps = n].verdict = t.verdict
  BY DEF CheckProgress
<1>2. checkTask \in [Check -> CheckProgress]
  BY DEF AuditIInv, AuthzTypeOK
<1> DEFINE noted(c) == IF checkTask[c].overlaps = 2 THEN 2 ELSE checkTask[c].overlaps + 1
<1>3. \A c \in Check : noted(c) \in 0 .. 2
  BY <1>2 DEF CheckProgress
<1>4. /\ checkTask' \in [Check -> CheckProgress]
      /\ \A c \in Check : /\ checkTask'[c].stage = checkTask[c].stage
                          /\ checkTask'[c].verdict = checkTask[c].verdict
  <2>1. CASE UNCHANGED checkTask
    BY <1>2, <2>1
  <2>2. CASE NoteWrite
    <3>1. checkTask' = [c \in Check |->
            IF checkTask[c].stage \in {"loading", "deciding"}
            THEN [checkTask[c] EXCEPT !.overlaps = noted(c)] ELSE checkTask[c]]
      BY <2>2 DEF NoteWrite
    <3> HIDE DEF noted
    <3>2. \A c \in Check :
            /\ [checkTask[c] EXCEPT !.overlaps = noted(c)] \in CheckProgress
            /\ [checkTask[c] EXCEPT !.overlaps = noted(c)].stage = checkTask[c].stage
            /\ [checkTask[c] EXCEPT !.overlaps = noted(c)].verdict = checkTask[c].verdict
      BY <1>1, <1>2, <1>3
    <3> QED  BY <1>2, <3>1, <3>2
  <2> QED  BY <2>1, <2>2
<1> QED  BY <1>4 DEF AuditIInv, AuthzTypeOK, DecisionsAreAudited, Answered

(***************************************************************************)
(* The directory, and what one write does to the tables.                   *)
(***************************************************************************)

(* Updates keep the identifiers and the columns the decision computes with, and
   leave the groups where they are. *)
DirectoryFits ==
  /\ DOMAIN directory = Tables
  /\ \A t \in Tables : DOMAIN directory[t] = DOMAIN FirstDirectory[t]
  /\ TablesFit(directory)
  /\ \A g \in DOMAIN directory.group : directory.group[g].path = FirstDirectory.group[g].path

LEMMA DatabaseIs ==
  /\ \A t \in Tables : Database[t] = directory[t]
  /\ Database.user = user /\ Database.space = space
BY DEF Database, Tables

LEMMA DatabaseFits ==
  ASSUME DirectoryFits  PROVE TablesFit(Database)
BY DatabaseIs DEF DirectoryFits, TablesFit, Tables

LEMMA WriteKeepsDirectory ==
  ASSUME DirectoryFits, NEW w \in DirectoryWrite, WriteDirectory(w)
  PROVE  /\ DirectoryFits'
         /\ \A t \in Tables \ {w.table} : directory'[t] = directory[t]
         /\ \A id \in DOMAIN directory[w.table] \ {w.id} :
              directory'[w.table][id] = directory[w.table][id]
         /\ \A t \in Tables : DOMAIN directory'[t] = DOMAIN directory[t]
<1> DEFINE T == w.table  new == [directory[T] EXCEPT ![w.id] = w.row]
<1>1. /\ T \in Tables /\ w.id \in DOMAIN directory[T] /\ RowFits(T, w.row)
      /\ T = "group" => w.row.id = w.id /\ w.row.path = FirstDirectory.group[w.id].path
  BY AuthzAssumption DEF AuthzAssumption, DirectoryFits
<1>2. directory' = [directory EXCEPT ![T] = new]
  BY DEF WriteDirectory
<1>3. /\ DOMAIN new = DOMAIN directory[T] /\ new[w.id] = w.row
      /\ \A id \in DOMAIN directory[T] \ {w.id} : new[id] = directory[T][id]
  BY <1>1
<1> HIDE DEF new
<1>4. /\ DOMAIN directory' = Tables /\ directory'[T] = new
      /\ \A t \in Tables \ {T} : directory'[t] = directory[t]
  BY <1>1, <1>2 DEF DirectoryFits
<1>5. \A t \in Tables : DOMAIN directory'[t] = DOMAIN directory[t]
  BY <1>3, <1>4
<1>6. \A t \in Tables : \A id \in DOMAIN directory'[t] : RowFits(t, directory'[t][id])
  <2> SUFFICES ASSUME NEW t \in Tables, NEW id \in DOMAIN directory'[t]
               PROVE  RowFits(t, directory'[t][id])
    OBVIOUS
  <2>1. \A x \in Tables : \A y \in DOMAIN directory[x] : RowFits(x, directory[x][y])
    BY DEF DirectoryFits, TablesFit
  <2> QED  BY <1>1, <1>3, <1>4, <1>5, <2>1
<1>7. \A g \in DOMAIN directory'.group :
        /\ directory'.group[g].path = directory.group[g].path
        /\ directory'.group[g].path = FirstDirectory.group[g].path
        /\ directory'.group[g].id = g
  <2>1. \A g \in DOMAIN directory.group :
          /\ directory.group[g].path = FirstDirectory.group[g].path
          /\ directory.group[g].id = g
    BY DEF DirectoryFits, TablesFit, PathsFit
  <2>2. "group" \in Tables
    BY DEF Tables
  <2> QED  BY <1>1, <1>3, <1>4, <1>5, <2>1, <2>2
<1>8. PathsFit(directory'.group)
  <2>1. PathsFit(directory.group) /\ DOMAIN directory'.group = DOMAIN directory.group
    BY <1>5 DEF DirectoryFits, TablesFit, Tables
  <2> DEFINE Fit(groups, g, path) ==
        /\ path \in Seq(Range(path)) /\ path # <<>> /\ path[Len(path)] = g
        /\ \A k \in 1 .. Len(path) : path[k] \in DOMAIN groups =>
             groups[path[k]].path = Prefix(path, k)
  <2>2. \A groups : PathsFit(groups) <=>
          \A g \in DOMAIN groups : groups[g].id = g /\ Fit(groups, g, groups[g].path)
    BY DEF PathsFit
  <2>3. ASSUME NEW g \in DOMAIN directory'.group
        PROVE  Fit(directory'.group, g, directory'.group[g].path)
    <3>1. PICK path : path = directory.group[g].path
      OBVIOUS
    <3>2. Fit(directory.group, g, path)
      BY <2>1, <2>2, <2>3, <3>1
    <3>3. directory'.group[g].path = path
      BY <1>7, <2>3, <3>1
    <3>4. Fit(directory'.group, g, path)
      BY <1>7, <2>1, <3>2
    <3> HIDE DEF Fit
    <3> QED  BY <3>3, <3>4
  <2> HIDE DEF Fit
  <2> QED  BY <1>7, <2>2, <2>3
<1>9. DOMAIN directory'.rolePermission = (DOMAIN directory'.role) \X (DOMAIN directory'.permission)
  BY <1>5 DEF DirectoryFits, TablesFit, Tables
<1>10. TablesFit(directory)'
  BY <1>6, <1>8, <1>9 DEF TablesFit
<1>11. \A t \in Tables : DOMAIN directory'[t] = DOMAIN FirstDirectory[t]
  BY <1>5 DEF DirectoryFits
<1> QED  BY <1>3, <1>4, <1>5, <1>7, <1>10, <1>11 DEF DirectoryFits

LEMMA UpdateIsOneWrite ==
  ASSUME DirectoryFits, NEW w \in DirectoryWrite, WriteDirectory(w), UNCHANGED <<user, space>>,
         NEW req
  PROVE  OneWrite(Database, Database', req)
<1>1. /\ \A t \in Tables : Database[t] = directory[t] /\ Database'[t] = directory'[t]
      /\ Database.user = user /\ Database'.user = user'
      /\ Database.space = space /\ Database'.space = space'
  <2>1. /\ \A t \in Tables : Database'[t] = directory'[t]
        /\ Database'.user = user' /\ Database'.space = space'
    BY DEF Database, Tables
  <2> QED  BY <2>1, DatabaseIs
<1>2. w.table \in Tables
  BY AuthzAssumption DEF AuthzAssumption
<1>3. \A t \in Tables \ {w.table} : Database[t] = Database'[t]
  BY <1>1, WriteKeepsDirectory
<1>4. Agree(Database, Database', req, w.table)
  <2>1. "user" \notin Tables
    BY DEF Tables
  <2> QED  BY <1>1, <1>3, <2>1 DEF Agree, AllTables
<1>5. ASSUME w.table = "group"
      PROVE  OneGroupUpdated(Database.group, Database'.group)
  <2>1. Database.group = directory.group /\ Database'.group = directory'.group
    BY <1>1 DEF Tables
  <2>2. /\ DOMAIN directory'.group = DOMAIN directory.group
        /\ \A h \in DOMAIN directory.group \ {w.id} : directory.group[h] = directory'.group[h]
    BY <1>5, WriteKeepsDirectory DEF Tables
  <2>3. \A g \in DOMAIN directory.group : directory.group[g].path = directory'.group[g].path
    <3>1. DirectoryFits'
      BY WriteKeepsDirectory
    <3> QED  BY <2>2, <3>1 DEF DirectoryFits
  <2> QED  BY <2>1, <2>2, <2>3 DEF OneGroupUpdated
<1> QED  BY <1>2, <1>4, <1>5 DEF OneWrite, AllTables

(* Other handlers write a user, or a Space, or a new user and a Space. *)
LEMMA OthersIsOneWrite ==
  ASSUME OthersStep, NEW req, req.user \in User, user[req.user] # NoUser
  PROVE  OneWrite(Database, Database', req)
<1>1. /\ \A t \in Tables : Database[t] = Database'[t]
      /\ Database.user = user /\ Database'.user = user'
      /\ Database.space = space /\ Database'.space = space'
  <2>1. directory' = directory
    BY DEF OthersStep, ChecksNotice
  <2>2. /\ \A t \in Tables : Database'[t] = directory'[t]
        /\ Database'.user = user' /\ Database'.space = space'
    BY DEF Database, Tables
  <2> QED  BY <2>1, <2>2, DatabaseIs
<1>2. {"user", "space"} \subseteq AllTables
  BY DEF AllTables
<1>3. CASE space' = space
  <2>1. Agree(Database, Database', req, "user")
    BY <1>1, <1>3 DEF Agree, AllTables
  <2> QED  BY <1>2, <2>1 DEF OneWrite
<1>4. CASE user'[req.user] = user[req.user]
  <2>1. Agree(Database, Database', req, "space")
    BY <1>1, <1>4 DEF Agree, AllTables
  <2> QED  BY <1>2, <2>1 DEF OneWrite
<1> QED  BY <1>3, <1>4 DEF OthersStep

(***************************************************************************)
(* The invariant of all checks.                                            *)
(***************************************************************************)

SeenFits == DOMAIN seen = Check /\ \A c \in Check : DOMAIN seen[c] = QueryNames

ChecksHold == \A c \in Check : CheckHolds(checkTask[c], seen[c], Database, now, Req(c))

AuthzIInv ==
  /\ AuditIInv
  /\ DirectoryFits
  /\ now \in Nat
  /\ SeenFits
  /\ ChecksHold

LEMMA AuthzInitEstablishes == ClockInit /\ AuthzInit => AuthzIInv
<1> SUFFICES ASSUME ClockInit, AuthzInit  PROVE AuthzIInv
  OBVIOUS
<1>1. AuditIInv
  <2>1. 1 \in 0 .. Len(Queries)
    BY DEF Queries
  <2>2. AuthzTypeOK
    BY <2>1, AuthzAssumption DEF AuthzInit, AuthzTypeOK, AuthzAssumption, CheckProgress, Verdict
  <2>3. DecisionsAreAudited
    BY DEF AuthzInit, DecisionsAreAudited, Answered
  <2> QED  BY <2>2, <2>3 DEF AuditIInv
<1>2. DirectoryFits
  BY AuthzAssumption DEF AuthzInit, AuthzAssumption, DirectoryFits, Tables
<1>3. now \in Nat
  BY DEF ClockInit
<1>4. SeenFits
  BY DEF AuthzInit, SeenFits, QueryNames
<1>5. ChecksHold
  <2> SUFFICES ASSUME NEW c \in Check
               PROVE  CheckHolds(checkTask[c], seen[c], Database, now, Req(c))
    BY DEF ChecksHold
  <2>1. checkTask[c].stage = "waiting" /\ checkTask[c].next = 1
    BY DEF AuthzInit
  <2> QED  BY <2>1 DEF CheckHolds
<1> QED  BY <1>1, <1>2, <1>3, <1>4, <1>5 DEF AuthzIInv

(* A step of a check keeps its own invariant and touches no other's. *)
LEMMA CheckStepHolds ==
  ASSUME AuthzIInv, NEW c \in Check, CheckStep(c), UNCHANGED <<user, space, now>>
  PROVE  AuthzIInv'
<1>1. AuditIInv'
  BY AuditStep DEF AuthzIInv
<1>2. UNCHANGED directory
  BY DEF CheckStep, Begin, Load, Decide, Audit, RegistryFails, CheckFails
<1>3. DirectoryFits' /\ Database' = Database /\ now' \in Nat /\ now' = now
  BY <1>2 DEF AuthzIInv, DirectoryFits, Database
<1> DEFINE t == checkTask[c]  got == seen[c]
<1>4. /\ checkTask \in [Check -> CheckProgress] /\ t \in CheckProgress
      /\ DOMAIN seen = Check /\ DOMAIN got = QueryNames /\ TablesFit(Database)
      /\ CheckHolds(t, got, Database, now, Req(c))
  BY DatabaseFits DEF AuthzIInv, AuditIInv, AuthzTypeOK, SeenFits, ChecksHold
<1>5. ASSUME NEW u, NEW more, checkTask'[c] = u, seen'[c] = more,
             \A d \in Check \ {c} : checkTask'[d] = checkTask[d] /\ seen'[d] = seen[d],
             DOMAIN seen' = Check, DOMAIN more = QueryNames,
             CheckHolds(u, more, Database, now, Req(c))
      PROVE  AuthzIInv'
  <2>1. SeenFits'
    BY <1>4, <1>5 DEF AuthzIInv, SeenFits
  <2>2. ASSUME NEW d \in Check
        PROVE  CheckHolds(checkTask'[d], seen'[d], Database', now', Req(d))
    <3>1. CASE d = c
      BY <1>3, <1>5, <3>1
    <3>2. CASE d # c
      <4>1. checkTask'[d] = checkTask[d] /\ seen'[d] = seen[d]
        BY <1>5, <2>2, <3>2
      <4>2. CheckHolds(checkTask[d], seen[d], Database, now, Req(d))
        BY <2>2 DEF AuthzIInv, ChecksHold
      <4> QED  BY <1>3, <4>1, <4>2
    <3> QED  BY <3>1, <3>2
  <2>3. ChecksHold'
    BY <2>2 DEF ChecksHold, Req
  <2> QED  BY <1>1, <1>3, <2>1, <2>3 DEF AuthzIInv
<1>6. ASSUME NEW u, checkTask' = [checkTask EXCEPT ![c] = u], seen' = seen,
             CheckHolds(u, got, Database, now, Req(c))
      PROVE  AuthzIInv'
  BY <1>4, <1>5, <1>6
<1>7. CASE Begin(c)
  <2> DEFINE u == [t EXCEPT !.stage = "loading"]
  <2>1. /\ u.stage = "loading" /\ u.next = t.next /\ u.overlaps = t.overlaps
        /\ t.stage = "waiting"
    BY <1>4, <1>7 DEF Begin, CheckProgress
  <2>2. checkTask' = [checkTask EXCEPT ![c] = u] /\ seen' = seen
    BY <1>7 DEF Begin
  <2> HIDE DEF u
  <2>3. u.next = 1
    BY <1>4, <2>1 DEF CheckHolds
  <2>4. HasLoaded(u, got, Database, now, Req(c), 0, 0, Database)
    BY <2>1, <2>3 DEF HasLoaded, Reading
  <2>5. CheckHolds(u, got, Database, now, Req(c))
    BY <2>1, <2>3, <2>4 DEF CheckHolds
  <2> QED  BY <1>6, <2>2, <2>5
<1>8. CASE Load(c)
  <2> DEFINE i == t.next  q == Queries[i]
             value == Find(Database, Req(c), got, q)
             stage == IF Missing(q, value) THEN "failed"
                      ELSE IF EnoughLoaded(q, value) THEN "deciding" ELSE "loading"
             u == [t EXCEPT !.stage = stage, !.next = IF stage = "loading" THEN i + 1 ELSE 0,
                            !.once = @ \/ EntitledNow(c)]
             more == [got EXCEPT ![q] = value]
  <2>1. /\ checkTask' = [checkTask EXCEPT ![c] = u] /\ seen' = [seen EXCEPT ![c] = more]
        /\ t.stage = "loading"
    <3>1. checkTask' = [checkTask EXCEPT ![c].stage = stage,
                         ![c].next = IF stage = "loading" THEN i + 1 ELSE 0,
                         ![c].once = @ \/ EntitledNow(c)]
          /\ seen' = [seen EXCEPT ![c][q] = value] /\ t.stage = "loading"
      BY <1>8 DEF Load
    <3> HIDE DEF stage, value
    <3> QED  BY <3>1
  <2>2. u.stage = stage /\ u.overlaps = t.overlaps
        /\ u.next = (IF stage = "loading" THEN i + 1 ELSE 0)
        /\ u.once = (t.once \/ Entitled(Database, now, Req(c)))
    <3> HIDE DEF stage
    <3> QED  BY <1>4 DEF CheckProgress, EntitledNow, Req
  <2>3. CASE Missing(q, value)
    <3>1. u.stage = "failed"
      BY <2>2, <2>3
    <3>2. CheckHolds(u, more, Database, now, Req(c))
      <4> HIDE DEF u, more
      <4> QED  BY <3>1 DEF CheckHolds
    <3> HIDE DEF u, q, value
    <3> QED  BY <1>4, <1>5, <2>1, <3>2
  <2>4. CASE ~Missing(q, value)
    <3>1. \/ u.stage = "deciding" /\ EnoughLoaded(q, value)
          \/ u.stage = "loading" /\ ~EnoughLoaded(q, value) /\ u.next = i + 1
      <4> HIDE DEF u
      <4> QED  BY <2>2, <2>4
    <3> HIDE DEF u, value, stage
    <3>2. CheckHolds(u, more, Database, now, Req(c))
      BY <1>4, <2>1, <2>2, <2>4, <3>1, LoadAddsToReading DEF value
    <3> HIDE DEF q
    <3> QED  BY <1>4, <1>5, <2>1, <3>2
  <2> QED  BY <2>3, <2>4
<1>9. CASE Decide(c)
  <2> DEFINE u == [t EXCEPT !.stage = "auditing", !.verdict = Outcome(got, now, Req(c)),
                            !.once = @ \/ EntitledNow(c), !.last = EntitledNow(c)]
  <2>1. checkTask' = [checkTask EXCEPT ![c] = u] /\ seen' = seen /\ t.stage = "deciding"
    BY <1>9 DEF Decide
  <2>2. /\ u.stage = "auditing" /\ u.overlaps = t.overlaps
        /\ u.verdict = Outcome(got, now, Req(c))
        /\ u.once = (t.once \/ Entitled(Database, now, Req(c)))
        /\ u.last = Entitled(Database, now, Req(c))
    BY <1>4 DEF CheckProgress, EntitledNow, Req
  <2> HIDE DEF u
  <2>3. CheckHolds(u, got, Database, now, Req(c))
    BY <1>4, <2>1, <2>2, DecisionIsSound DEF AuthzIInv
  <2> QED  BY <1>6, <2>1, <2>3
<1>10. CASE Audit(c)
  <2> DEFINE u == [t EXCEPT !.stage = "answered"]
  <2>1. /\ u.stage = "answered" /\ u.verdict = t.verdict /\ u.once = t.once
        /\ u.last = t.last /\ u.overlaps = t.overlaps
    BY <1>4 DEF CheckProgress
  <2>2. checkTask' = [checkTask EXCEPT ![c] = u] /\ seen' = seen /\ t.stage = "auditing"
    BY <1>10 DEF Audit
  <2> HIDE DEF u
  <2>3. CheckHolds(u, got, Database, now, Req(c))
    BY <1>4, <2>1, <2>2 DEF CheckHolds
  <2> QED  BY <1>6, <2>2, <2>3
<1>11. CASE RegistryFails(c)
  <2> DEFINE u == [t EXCEPT !.stage = "deciding", !.next = 0]
             more == [got EXCEPT !["registry"] = Unreadable]
  <2>1. /\ checkTask' = [checkTask EXCEPT ![c] = u] /\ seen' = [seen EXCEPT ![c] = more]
        /\ t.stage = "loading" /\ Queries[t.next] = "registry"
    BY <1>11 DEF RegistryFails
  <2>2. u.stage = "deciding" /\ u.overlaps = t.overlaps /\ u.once = t.once
    BY <1>4 DEF CheckProgress
  <2> HIDE DEF u
  <2>3. CheckHolds(u, more, Database, now, Req(c))
    BY <1>4, <2>1, <2>2, RegistryFailureSettles
  <2> QED  BY <1>4, <1>5, <2>1, <2>3
<1>12. CASE CheckFails(c)
  <2> DEFINE u == [t EXCEPT !.stage = "failed"]
  <2>1. u.stage = "failed"
    BY <1>4 DEF CheckProgress
  <2>2. checkTask' = [checkTask EXCEPT ![c] = u] /\ seen' = seen
    BY <1>12 DEF CheckFails, FailedCheck
  <2> HIDE DEF u
  <2>3. CheckHolds(u, got, Database, now, Req(c))
    BY <2>1 DEF CheckHolds
  <2> QED  BY <1>6, <2>2, <2>3
<1> QED  BY <1>7, <1>8, <1>9, <1>10, <1>11, <1>12 DEF CheckStep

(* Writes and the clock. *)
LEMMA NotedWriteHolds ==
  ASSUME AuthzIInv, NoteWrite, UNCHANGED seen, now' \in Nat, now <= now',
         NEW c \in Check,
         user[Req(c).user] # NoUser => OneWrite(Database, Database', Req(c)),
         TablesFit(Database')
  PROVE  CheckHolds(checkTask'[c], seen'[c], Database', now', Req(c))
<1> DEFINE t == checkTask[c]  got == seen[c]
<1>1. /\ t \in CheckProgress /\ TablesFit(Database) /\ now \in Nat
      /\ CheckHolds(t, got, Database, now, Req(c))
      /\ Database.user = user
  BY DatabaseFits, DatabaseIs DEF AuthzIInv, AuditIInv, AuthzTypeOK, ChecksHold
<1>2. checkTask'[c] = IF t.stage \in {"loading", "deciding"}
                      THEN [t EXCEPT !.overlaps = IF @ = 2 THEN 2 ELSE @ + 1] ELSE t
  BY DEF NoteWrite
<1>3. CASE t.stage \in {"loading", "deciding"}
  <2>1. checkTask'[c] = [t EXCEPT !.overlaps = IF @ = 2 THEN 2 ELSE @ + 1]
    BY <1>2, <1>3
  <2>2. seen'[c] = got
    OBVIOUS
  <2> HIDE DEF t, got
  <2>3. CheckHolds([t EXCEPT !.overlaps = IF @ = 2 THEN 2 ELSE @ + 1], got, Database', now', Req(c))
    BY <1>1, <1>3, WriteRunsIntoCheck
  <2> QED  BY <2>1, <2>2, <2>3
<1>4. CASE t.stage \notin {"loading", "deciding"}
  <2>1. checkTask'[c] = t /\ seen'[c] = got
    BY <1>2, <1>4
  <2> HIDE DEF t, got
  <2>2. CheckHolds(t, got, Database', now', Req(c))
    BY <1>1, <1>4 DEF CheckHolds
  <2> QED  BY <2>1, <2>2
<1> QED  BY <1>3, <1>4

LEMMA AuthzStepHolds == AuthzIInv /\ [AuthzNext]_<<authzVars, user, space, now>> => AuthzIInv'
<1> SUFFICES ASSUME AuthzIInv, [AuthzNext]_<<authzVars, user, space, now>>  PROVE AuthzIInv'
  OBVIOUS
<1>1. /\ AuditIInv /\ DirectoryFits /\ now \in Nat /\ SeenFits /\ ChecksHold
      /\ TablesFit(Database)
  BY DatabaseFits DEF AuthzIInv
<1>2. CASE (\E c \in Check : CheckStep(c)) /\ UNCHANGED <<user, space, now>>
  BY <1>2, CheckStepHolds
<1>3. CASE (\E w \in DirectoryWrite : WriteDirectory(w)) /\ UNCHANGED <<user, space, now>>
  <2>1. PICK w \in DirectoryWrite : WriteDirectory(w)
    BY <1>3
  <2>2. /\ NoteWrite /\ UNCHANGED <<seen, auditLog>> /\ now' = now
        /\ DOMAIN directory' = DOMAIN directory /\ written' \subseteq DirectoryWrite
    BY <1>1, <1>3, <2>1 DEF WriteDirectory, AuditIInv, AuthzTypeOK
  <2>3. AuditIInv'
    BY <1>1, <2>2, NoteKeepsAudit
  <2>4. DirectoryFits'
    BY <1>1, <2>1, WriteKeepsDirectory
  <2>5. TablesFit(Database')
    <3>1. TablesFit(Database)'
      BY <2>4, DatabaseFits, PTL
    <3> QED  BY <3>1 DEF TablesFit, PathsFit, RowFits
  <2>6. \A c \in Check : OneWrite(Database, Database', Req(c))
    BY <1>1, <1>3, <2>1, UpdateIsOneWrite
  <2>7. ASSUME NEW c \in Check
        PROVE  CheckHolds(checkTask'[c], seen'[c], Database', now', Req(c))
    <3>1. now' \in Nat /\ now <= now'
      BY <1>1, <2>2
    <3> QED  BY <2>2, <2>5, <2>6, <2>7, <3>1, NotedWriteHolds
  <2>8. ChecksHold' /\ SeenFits'
    BY <1>1, <2>2, <2>7 DEF ChecksHold, SeenFits, Req
  <2> QED  BY <1>1, <2>2, <2>3, <2>4, <2>8 DEF AuthzIInv
<1>4. CASE OthersStep \/ UNCHANGED <<authzVars, user, space, now>>
  <2>1. /\ UNCHANGED <<directory, written, seen, auditLog>>
        /\ now' \in Nat /\ now <= now'
        /\ NoteWrite \/ UNCHANGED checkTask
    BY <1>1, <1>4 DEF OthersStep, ChecksNotice, Tick, authzVars
  <2>2. AuditIInv'
    <3>1. written' \subseteq DirectoryWrite
      BY <1>1, <2>1 DEF AuditIInv, AuthzTypeOK
    <3> QED  BY <1>1, <2>1, <3>1, NoteKeepsAudit
  <2>3. DirectoryFits' /\ SeenFits'
    BY <1>1, <2>1 DEF DirectoryFits, SeenFits
  <2>4. TablesFit(Database')
    <3>1. \A t \in Tables : Database'[t] = Database[t]
      BY <2>1 DEF Database, Tables
    <3> QED  BY <1>1, <3>1 DEF TablesFit, Tables
  <2>5. ASSUME NEW c \in Check
        PROVE  CheckHolds(checkTask'[c], seen'[c], Database', now', Req(c))
    <3>1. CASE user' # user \/ space' # space
      <4>1. NoteWrite /\ OthersStep
        BY <1>4, <3>1 DEF OthersStep, ChecksNotice
      <4>2. Req(c).user \in User
        BY AuthzAssumption DEF AuthzAssumption, Req
      <4> QED  BY <2>1, <2>4, <2>5, <4>1, <4>2, OthersIsOneWrite, NotedWriteHolds
    <3>2. CASE user' = user /\ space' = space
      <4>1. checkTask' = checkTask /\ Database' = Database /\ seen'[c] = seen[c]
        BY <1>4, <2>1, <3>2 DEF OthersStep, ChecksNotice, authzVars, Database
      <4>2. CheckHolds(checkTask[c], seen[c], Database, now', Req(c))
        BY <1>1, <2>1, <2>5, TimePassesForCheck DEF ChecksHold
      <4> QED  BY <4>1, <4>2
    <3> QED  BY <3>1, <3>2
  <2>6. ChecksHold'
    BY <2>5 DEF ChecksHold, Req
  <2> QED  BY <2>1, <2>2, <2>3, <2>6 DEF AuthzIInv
<1> QED  BY <1>2, <1>3, <1>4 DEF AuthzNext

THEOREM AuthzInvariantHolds == AuthzSpec => []AuthzIInv
BY AuthzInitEstablishes, AuthzStepHolds, PTL DEF AuthzSpec

(* A check that no write runs into decides what the tables say: Check, with its
   twelve queries, its filters and joins, its scopes and path prefixes, computes
   the plain reading of the tables, whatever is in them. *)
THEOREM UndisturbedChecksAreExact == AuthzSpec => []UndisturbedCheckIsExact
<1>1. AuthzIInv => UndisturbedCheckIsExact
  BY DEF AuthzIInv, ChecksHold, CheckHolds, UndisturbedCheckIsExact
<1> QED  BY <1>1, AuthzInvariantHolds, PTL

(* A check that reads while one row changes fails closed: what it allows, the
   tables entitled the actor to while the check ran. *)
THEOREM TornReadsFailClosed == AuthzSpec => []AllowedOnlyIfEverEntitled
<1>1. AuthzIInv => AllowedOnlyIfEverEntitled
  BY DEF AuthzIInv, ChecksHold, CheckHolds, AllowedOnlyIfEverEntitled, Answered
<1> QED  BY <1>1, AuthzInvariantHolds, PTL

(* A decision AUDIT_WRITE_MODE wants audited is in audit_logs before it is
   answered: Check answers only when WriteAuditLog has succeeded. *)
THEOREM AuditComesFirst == AuthzSpec => []DecisionsAreAudited
<1>1. AuthzIInv => DecisionsAreAudited
  BY DEF AuthzIInv, AuditIInv
<1> QED  BY <1>1, AuthzInvariantHolds, PTL
=============================================================================

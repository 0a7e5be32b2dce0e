-------------------------- MODULE ControlPlaneProofs --------------------------
(***************************************************************************)
(* Proofs about the control plane: the parts SessionsProofs,               *)
(* AdministrationProofs and AuthzCheckProofs leave, which are Spaces and   *)
(* provider governance, and the composition, which implements the          *)
(* specification of each component and so inherits what is proved of it.   *)
(***************************************************************************)
EXTENDS ControlPlane, SessionsProofs, AdministrationProofs, AuthzCheckProofs

(***************************************************************************)
(* Spaces.                                                                 *)
(***************************************************************************)

(* A call nobody has overtaken has decided by the status the row still has. *)
DecisionsStand ==
  \A c \in SpaceCall : SpaceAt(c, "write") =>
    /\ ~SpaceAsks(c, "create")
    /\ spaceTask[c].next # NoSpace
    /\ \/ spaceTask[c].raced
       \/ /\ space[SpaceOf(c)] # NoSpace
          /\ spaceTask[c].next = Decision(c, space[SpaceOf(c)])

SpacesIInv == SpacesTypeOK /\ DecisionsStand

LEMMA SpaceRequestFields ==
  ASSUME NEW c \in SpaceCall
  PROVE  /\ SpaceOf(c) \in Space
         /\ SpaceRequest[c].kind \in SpaceKind
         /\ SpaceRequest[c].status \in SpaceStatus \cup {SameStatus}
  BY SpacesAssumption DEF SpacesAssumption, SpaceOf

LEMMA DecisionIsStatus ==
  ASSUME NEW c \in SpaceCall, ~SpaceAsks(c, "create"), NEW current \in SpaceStatus
  PROVE  Decision(c, current) \in SpaceStatus \cup {NoSpace}
<1>1. SpaceAsks(c, "patch") \/ SpaceAsks(c, "disable") \/ SpaceAsks(c, "restore")
      \/ SpaceAsks(c, "activate") \/ SpaceAsks(c, "fail")
  BY SpaceRequestFields DEF SpaceAsks, SpaceKind
<1>2. {"active", "suspended", "failed"} \subseteq SpaceStatus
  BY DEF SpaceStatus
<1>3. SpaceRequest[c].status # SameStatus => SpaceRequest[c].status \in SpaceStatus
  BY SpaceRequestFields
<1> QED  BY <1>1, <1>2, <1>3 DEF Decision, SpaceAsks

LEMMA SpacesInitEstablishes == SpacesInit => SpacesIInv
BY SpacesAssumption
DEF SpacesInit, SpacesIInv, SpacesTypeOK, SpacesAssumption, DecisionsStand, SpaceAt, SpaceProgress

(* A write of Space s by someone else overtakes the calls that decided on s. *)
LEMMA InterruptMarks ==
  ASSUME SpacesTypeOK, NEW s \in Space
  PROVE  /\ Interrupt(s) \in [SpaceCall -> SpaceProgress]
         /\ \A c \in SpaceCall :
              /\ Interrupt(s)[c].stage = spaceTask[c].stage
              /\ Interrupt(s)[c].next = spaceTask[c].next
              /\ spaceTask[c].raced => Interrupt(s)[c].raced
              /\ SpaceAt(c, "write") /\ SpaceOf(c) = s => Interrupt(s)[c].raced
<1>1. \A t \in SpaceProgress :
        /\ [t EXCEPT !.raced = TRUE] \in SpaceProgress
        /\ [t EXCEPT !.raced = TRUE].stage = t.stage
        /\ [t EXCEPT !.raced = TRUE].next = t.next
        /\ [t EXCEPT !.raced = TRUE].raced
  BY DEF SpaceProgress
<1>2. \A c \in SpaceCall : spaceTask[c] \in SpaceProgress
  BY DEF SpacesTypeOK
<1> QED  BY <1>1, <1>2 DEF Interrupt

LEMMA ReadSpacePreserves ==
  ASSUME SpacesIInv, NEW c \in SpaceCall, ReadSpace(c)
  PROVE  SpacesIInv'
<1> DEFINE current == space[SpaceOf(c)]
<1> DEFINE next == IF current = NoSpace THEN NoSpace ELSE Decision(c, current)
<1> DEFINE stage == IF next = NoSpace THEN "refused" ELSE "write"
<1>1. current \in SpaceStatus \cup {NoSpace}
  BY SpaceRequestFields DEF SpacesIInv, SpacesTypeOK
<1>2. next \in SpaceStatus \cup {NoSpace}
  BY <1>1, DecisionIsStatus DEF ReadSpace
<1>3. spaceTask' = [spaceTask EXCEPT ![c].stage = stage, ![c].next = next]
      /\ space' = space /\ cleared' = cleared /\ ~SpaceAsks(c, "create")
  BY DEF ReadSpace
<1>4. current # NoSpace => next = Decision(c, current)
  OBVIOUS
<1>5. stage \in {"refused", "write"} /\ (stage = "write" => next # NoSpace /\ current # NoSpace)
  OBVIOUS
<1> HIDE DEF next, stage
<1>6. \A t \in SpaceProgress :
        /\ [t EXCEPT !.stage = stage, !.next = next] \in SpaceProgress
        /\ [t EXCEPT !.stage = stage, !.next = next].stage = stage
        /\ [t EXCEPT !.stage = stage, !.next = next].next = next
  BY <1>2, <1>5 DEF SpaceProgress
<1>7. spaceTask \in [SpaceCall -> SpaceProgress]
  BY DEF SpacesIInv, SpacesTypeOK
<1>8. spaceTask' = [spaceTask EXCEPT ![c] = [spaceTask[c] EXCEPT !.stage = stage, !.next = next]]
  BY <1>3
<1>9. spaceTask' \in [SpaceCall -> SpaceProgress]
      /\ spaceTask'[c].stage = stage /\ spaceTask'[c].next = next
      /\ \A d \in SpaceCall \ {c} : spaceTask'[d] = spaceTask[d]
  BY <1>6, <1>7, <1>8
<1>10. SpacesTypeOK'
  BY <1>3, <1>9 DEF SpacesIInv, SpacesTypeOK
<1>11. DecisionsStand'
  <2> SUFFICES ASSUME NEW d \in SpaceCall, spaceTask'[d].stage = "write"
               PROVE  /\ ~SpaceAsks(d, "create")
                      /\ spaceTask'[d].next # NoSpace
                      /\ \/ spaceTask'[d].raced
                         \/ /\ space[SpaceOf(d)] # NoSpace
                            /\ spaceTask'[d].next = Decision(d, space[SpaceOf(d)])
    BY <1>3 DEF DecisionsStand, SpaceAt, SpaceAsks, SpaceOf, Decision, NoSpace, MayPatch, SameStatus
  <2>1. CASE d = c
    BY <2>1, <1>3, <1>4, <1>5, <1>9
  <2>2. CASE d # c
    BY <2>2, <1>9 DEF SpacesIInv, DecisionsStand, SpaceAt
  <2> QED  BY <2>1, <2>2
<1> QED  BY <1>10, <1>11 DEF SpacesIInv

(* The write of a status overtakes the calls that decided on the Space, and
   leaves the others' decisions. *)
LEMMA WriteSpacePreserves ==
  ASSUME SpacesIInv, NEW c \in SpaceCall, WriteSpace(c)
  PROVE  SpacesIInv'
<1> DEFINE s == SpaceOf(c)
<1>1. s \in Space
  BY SpaceRequestFields
<1>2. /\ space' = [space EXCEPT ![s] = spaceTask[c].next]
      /\ spaceTask' = [Interrupt(s) EXCEPT ![c] = [spaceTask[c] EXCEPT !.stage = "ok"]]
      /\ cleared' = cleared \/ cleared' = cleared \cup {s}
      /\ SpaceAt(c, "write")
  BY DEF WriteSpace
<1>3. spaceTask[c] \in SpaceProgress /\ spaceTask[c].next \in SpaceStatus \cup {NoSpace}
  BY DEF SpacesIInv, SpacesTypeOK, SpaceProgress
<1>4. [spaceTask[c] EXCEPT !.stage = "ok"] \in SpaceProgress
      /\ [spaceTask[c] EXCEPT !.stage = "ok"].stage = "ok"
  BY <1>3 DEF SpaceProgress
<1>5. SpacesTypeOK
  BY DEF SpacesIInv
<1>6. Interrupt(s) \in [SpaceCall -> SpaceProgress]
  BY <1>1, <1>5, InterruptMarks
<1>7. spaceTask' \in [SpaceCall -> SpaceProgress] /\ spaceTask'[c].stage = "ok"
      /\ \A d \in SpaceCall \ {c} : spaceTask'[d] = Interrupt(s)[d]
  BY <1>2, <1>4, <1>6
<1>8. SpacesTypeOK'
  BY <1>1, <1>2, <1>3, <1>7 DEF SpacesIInv, SpacesTypeOK
<1>9. \A t \in Space \ {s} : space'[t] = space[t]
  BY <1>2, <1>5 DEF SpacesTypeOK
<1>10. DecisionsStand'
  <2> SUFFICES ASSUME NEW d \in SpaceCall, spaceTask'[d].stage = "write"
               PROVE  /\ ~SpaceAsks(d, "create")
                      /\ spaceTask'[d].next # NoSpace
                      /\ \/ spaceTask'[d].raced
                         \/ /\ space'[SpaceOf(d)] # NoSpace
                            /\ spaceTask'[d].next = Decision(d, space'[SpaceOf(d)])
    BY DEF DecisionsStand, SpaceAt, SpaceAsks, SpaceOf, Decision, NoSpace, MayPatch, SameStatus
  <2>1. d # c /\ spaceTask'[d] = Interrupt(s)[d]
    BY <1>7
  <2>2. /\ spaceTask[d].stage = "write"
        /\ spaceTask'[d].next = spaceTask[d].next
        /\ spaceTask[d].raced => spaceTask'[d].raced
        /\ SpaceOf(d) = s => spaceTask'[d].raced
    BY <1>1, <1>5, <2>1, InterruptMarks DEF SpaceAt
  <2>3. SpaceOf(d) \in Space
    BY SpaceRequestFields
  <2> QED  BY <1>9, <2>2, <2>3 DEF SpacesIInv, DecisionsStand, SpaceAt
<1> QED  BY <1>8, <1>10 DEF SpacesIInv

(* The default Space is written over, whatever it was. *)
LEMMA EnsureDefaultPreserves ==
  ASSUME SpacesIInv, EnsureDefaultSpace
  PROVE  SpacesIInv'
<1>1. DefaultSpace \in Space
  BY SpacesAssumption DEF SpacesAssumption
<1>2. /\ space' = [space EXCEPT ![DefaultSpace] = "active"]
      /\ spaceTask' = Interrupt(DefaultSpace)
      /\ cleared' = cleared \cup {DefaultSpace}
  BY DEF EnsureDefaultSpace
<1>3. SpacesTypeOK
  BY DEF SpacesIInv
<1>4. /\ spaceTask' \in [SpaceCall -> SpaceProgress]
      /\ \A d \in SpaceCall :
           /\ spaceTask'[d].stage = spaceTask[d].stage
           /\ spaceTask'[d].next = spaceTask[d].next
           /\ spaceTask[d].raced => spaceTask'[d].raced
           /\ SpaceAt(d, "write") /\ SpaceOf(d) = DefaultSpace => spaceTask'[d].raced
  BY <1>1, <1>2, <1>3, InterruptMarks
<1>5. "active" \in SpaceStatus
  BY DEF SpaceStatus
<1>6. SpacesTypeOK'
  BY <1>1, <1>2, <1>3, <1>4, <1>5 DEF SpacesTypeOK
<1>7. \A t \in Space \ {DefaultSpace} : space'[t] = space[t]
  BY <1>2, <1>3 DEF SpacesTypeOK
<1>8. DecisionsStand'
  <2> SUFFICES ASSUME NEW d \in SpaceCall, spaceTask'[d].stage = "write"
               PROVE  /\ ~SpaceAsks(d, "create")
                      /\ spaceTask'[d].next # NoSpace
                      /\ \/ spaceTask'[d].raced
                         \/ /\ space'[SpaceOf(d)] # NoSpace
                            /\ spaceTask'[d].next = Decision(d, space'[SpaceOf(d)])
    BY DEF DecisionsStand, SpaceAt, SpaceAsks, SpaceOf, Decision, NoSpace, MayPatch, SameStatus
  <2>1. SpaceOf(d) \in Space
    BY SpaceRequestFields
  <2> QED  BY <1>4, <1>7, <2>1 DEF SpacesIInv, DecisionsStand, SpaceAt
<1> QED  BY <1>6, <1>8 DEF SpacesIInv

(* A Space is created only where there was none, so no decision is about it. *)
LEMMA CreateSpacePreserves ==
  ASSUME SpacesIInv, NEW c \in SpaceCall, CreateSpace(c) \/ SpaceStatementFails(c)
  PROVE  SpacesIInv'
<1>1. PICK st \in {"ok", "refused", "failed"} : spaceTask' = [spaceTask EXCEPT ![c].stage = st]
  BY DEF CreateSpace, SpaceStatementFails
<1>2. \/ space' = space
      \/ space[SpaceOf(c)] = NoSpace /\ space' = [space EXCEPT ![SpaceOf(c)] = "provisioning"]
  BY DEF CreateSpace, SpaceStatementFails
<1>3. cleared' = cleared
  BY DEF CreateSpace, SpaceStatementFails
<1>4. \A t \in SpaceProgress : [t EXCEPT !.stage = st] \in SpaceProgress
                               /\ [t EXCEPT !.stage = st].stage = st
  BY DEF SpaceProgress
<1>5. /\ spaceTask' \in [SpaceCall -> SpaceProgress]
      /\ spaceTask'[c].stage = st
      /\ \A d \in SpaceCall \ {c} : spaceTask'[d] = spaceTask[d]
  BY <1>1, <1>4 DEF SpacesIInv, SpacesTypeOK
<1>6. "provisioning" \in SpaceStatus /\ SpaceOf(c) \in Space
  BY SpaceRequestFields DEF SpaceStatus
<1>7. SpacesTypeOK'
  BY <1>2, <1>3, <1>5, <1>6 DEF SpacesIInv, SpacesTypeOK
<1>8. \A t \in Space : space[t] = NoSpace \/ space'[t] = space[t]
  BY <1>2, <1>6 DEF SpacesIInv, SpacesTypeOK
<1>9. DecisionsStand'
  <2> SUFFICES ASSUME NEW d \in SpaceCall, spaceTask'[d].stage = "write"
               PROVE  /\ ~SpaceAsks(d, "create")
                      /\ spaceTask'[d].next # NoSpace
                      /\ \/ spaceTask'[d].raced
                         \/ /\ space'[SpaceOf(d)] # NoSpace
                            /\ spaceTask'[d].next = Decision(d, space'[SpaceOf(d)])
    BY DEF DecisionsStand, SpaceAt, SpaceAsks, SpaceOf, Decision, NoSpace, MayPatch, SameStatus
  <2>1. SpaceOf(d) \in Space
    BY SpaceRequestFields
  <2>2. spaceTask'[d] = spaceTask[d]
    BY <1>5
  <2> QED  BY <1>8, <2>1, <2>2 DEF SpacesIInv, DecisionsStand, SpaceAt
<1> QED  BY <1>7, <1>9 DEF SpacesIInv

LEMMA SpacesStutter == SpacesIInv /\ UNCHANGED spacesVars => SpacesIInv'
BY DEF spacesVars, SpacesIInv, SpacesTypeOK, DecisionsStand, SpaceAt, SpaceAsks, SpaceOf, Decision,
       NoSpace, MayPatch, SameStatus

THEOREM SpacesInvariantHolds == SpacesSpec => []SpacesIInv
<1>1. SpacesIInv /\ [SpacesNext]_spacesVars => SpacesIInv'
  BY ReadSpacePreserves, WriteSpacePreserves, EnsureDefaultPreserves, CreateSpacePreserves,
     SpacesStutter
  DEF SpacesNext, SpaceStep
<1> QED  BY <1>1, SpacesInitEstablishes, PTL DEF SpacesSpec

(* What the handlers decide by the status they have read. *)
LEMMA DecisionsMoveDirectly ==
  ASSUME NEW c \in SpaceCall, ~SpaceAsks(c, "create"), NEW current \in SpaceStatus,
         Decision(c, current) # NoSpace
  PROVE  \/ DirectMove(current, Decision(c, current))
         \/ SpaceAsks(c, "activate") /\ current \in {"provisioning", "failed"}
<1>1. SpaceAsks(c, "patch") \/ SpaceAsks(c, "disable") \/ SpaceAsks(c, "restore")
      \/ SpaceAsks(c, "activate") \/ SpaceAsks(c, "fail")
  BY SpaceRequestFields DEF SpaceAsks, SpaceKind
<1> QED  BY <1>1 DEF Decision, SpaceAsks, MayPatch, DirectMove, NoSpace, SpaceStatus

(* A Space's status moves as the handlers decide, or because of an overlap
   (validateSpaceStatusMutation and the provisioning endpoints). *)
THEOREM StatusMovesAreExplained == SpacesSpec => StatusMovesAsAskedOrOverlaps
<1> DEFINE Explained ==
      \A s \in Space :
       \/ DirectMove(space[s], space'[s])
       \/ EnsureDefaultSpace
       \/ \E c \in SpaceCall : /\ spaceTask'[c].stage # spaceTask[c].stage
                               /\ \/ spaceTask[c].raced
                                  \/ /\ SpaceAsks(c, "activate")
                                     /\ space[s] \in {"provisioning", "failed"}
<1>1. ASSUME SpacesIInv, SpacesNext  PROVE Explained
  <2> SUFFICES ASSUME NEW s \in Space, space'[s] # space[s], ~EnsureDefaultSpace
               PROVE  \/ DirectMove(space[s], space'[s])
                      \/ \E c \in SpaceCall :
                           /\ spaceTask'[c].stage # spaceTask[c].stage
                           /\ \/ spaceTask[c].raced
                              \/ /\ SpaceAsks(c, "activate")
                                 /\ space[s] \in {"provisioning", "failed"}
    BY DEF DirectMove, NoSpace
  <2>1. PICK c \in SpaceCall : SpaceStep(c)
    BY <1>1 DEF SpacesNext
  <2>2. WriteSpace(c) \/ CreateSpace(c)
    BY <2>1 DEF SpaceStep, ReadSpace, SpaceStatementFails
  <2>3. CASE CreateSpace(c)
    <3>1. SpaceOf(c) \in Space
      BY SpaceRequestFields
    <3>2. space[s] = NoSpace /\ space'[s] = "provisioning"
      BY <2>3, <3>1, <1>1 DEF CreateSpace, SpacesIInv, SpacesTypeOK
    <3> QED  BY <3>2 DEF DirectMove, NoSpace
  <2>4. CASE WriteSpace(c)
    <3>1. /\ SpaceAt(c, "write")
          /\ space' = [space EXCEPT ![SpaceOf(c)] = spaceTask[c].next]
          /\ spaceTask' = [Interrupt(SpaceOf(c)) EXCEPT
               ![c] = [spaceTask[c] EXCEPT !.stage = "ok"]]
      BY <2>4 DEF WriteSpace
    <3>2. s = SpaceOf(c) /\ space'[s] = spaceTask[c].next
      BY <1>1, <3>1 DEF SpacesIInv, SpacesTypeOK
    <3>3. spaceTask'[c].stage # spaceTask[c].stage
      <4>1. [spaceTask[c] EXCEPT !.stage = "ok"].stage = "ok"
        BY <1>1 DEF SpacesIInv, SpacesTypeOK, SpaceProgress
      <4>2. Interrupt(SpaceOf(c)) \in [SpaceCall -> SpaceProgress]
        BY <1>1, <3>2, InterruptMarks DEF SpacesIInv
      <4>3. spaceTask'[c] = [spaceTask[c] EXCEPT !.stage = "ok"]
        BY <3>1, <4>2
      <4> QED  BY <3>1, <4>1, <4>3 DEF SpaceAt
    <3>4. CASE spaceTask[c].raced
      BY <3>3, <3>4
    <3>5. CASE ~spaceTask[c].raced
      <4>1. /\ ~SpaceAsks(c, "create") /\ space[s] # NoSpace
            /\ spaceTask[c].next = Decision(c, space[s]) /\ spaceTask[c].next # NoSpace
        BY <1>1, <3>1, <3>2, <3>5 DEF SpacesIInv, DecisionsStand
      <4>2. space[s] \in SpaceStatus
        BY <1>1, <4>1 DEF SpacesIInv, SpacesTypeOK
      <4> QED  BY <3>2, <3>3, <4>1, <4>2, DecisionsMoveDirectly
    <3> QED  BY <3>4, <3>5
  <2> QED  BY <2>2, <2>3, <2>4
<1>2. SpacesIInv /\ [SpacesNext]_spacesVars => [Explained]_spacesVars
  BY <1>1
<1> QED  BY <1>2, SpacesInvariantHolds, PTL DEF SpacesSpec, StatusMovesAsAskedOrOverlaps

(***************************************************************************)
(* Provider governance.                                                    *)
(***************************************************************************)

(* A call is at a stage of its own handler. *)
GovernanceStagesFit ==
  \A c \in GovernanceCall :
    /\ Stands(c, "write installation") => Wants(c, "install")
    /\ governanceTask[c].stage \in {"look up", "insert"} => Wants(c, "file")
    /\ Stands(c, "write review") => Wants(c, "review")

(* Revisions are never deleted: those about to be reviewed are there. *)
ReviewedAreFiled ==
  \A c \in GovernanceCall :
    Stands(c, "write review") => migration[GovernanceRequest[c].id] # NotFiled

(* An install nobody has overtaken holds the status the row still has. *)
InstallsReadFresh ==
  \A c \in GovernanceCall : Stands(c, "write installation") =>
    governanceTask[c].raced \/ governanceTask[c].found = installation[PluginOf(c)]

(* The status of a revision is accounted for by a call that was answered: a planned
   one by the harmless plan it was filed as, a reviewed one by that review. *)
StatusIsExplained(i, r) ==
  \/ r.status = "review_required"
  \/ ReviewedAs(i, r.status)
  \/ r.status = "planned" /\ FiledAsHarmless(r.plugin, r.key, r.bundle)

StatusesAreExplained ==
  \A i \in Identifier : migration[i] # NotFiled => StatusIsExplained(i, migration[i])

GovernanceIInv ==
  /\ GovernanceTypeOK
  /\ GovernanceStagesFit
  /\ ReviewedAreFiled
  /\ InstallsReadFresh
  /\ StatusesAreExplained
  /\ AcknowledgedPlansAreFiled

LEMMA GovernanceRequestFields ==
  ASSUME NEW c \in GovernanceCall
  PROVE  /\ Wants(c, "install") => PluginOf(c) \in Plugin
         /\ Wants(c, "file") =>
              LET req == GovernanceRequest[c]
              IN /\ PluginOf(c) \in Plugin /\ req.plugin = PluginOf(c)
                 /\ req.key \in RevisionKey /\ req.bundle \in Bundle
                 /\ req.risky \in BOOLEAN /\ req.manual \in BOOLEAN
                 /\ IdentifierOf[<<PluginOf(c), req.key>>] \in Identifier
         /\ Wants(c, "review") => GovernanceRequest[c].id \in Identifier
         /\ Wants(c, "install") \/ Wants(c, "file") \/ Wants(c, "review")
<1>1. GovernanceRequest[c] \in Install \cup FilePlan \cup Review
  BY GovernanceAssumption DEF GovernanceAssumption
<1>2. \A p \in Plugin, k \in RevisionKey : IdentifierOf[<<p, k>>] \in Identifier
  BY GovernanceAssumption DEF GovernanceAssumption
<1> QED  BY <1>1, <1>2 DEF Wants, PluginOf, Install, FilePlan, Review

LEMMA RevisionsArePresent == \A r \in Filed : r # NotFiled
<1>1. \A r \in Filed : r.status # NotFiled.status
  BY DEF Filed, RevisionStatus, NotFiled
<1> QED  BY <1>1

LEMMA GovernanceInitEstablishes == GovernanceInit => GovernanceIInv
<1> SUFFICES ASSUME GovernanceInit  PROVE GovernanceIInv
  OBVIOUS
<1>1. GovernanceTypeOK
  BY DEF GovernanceInit, GovernanceTypeOK, GovernanceProgress, InstallationStatus
<1>2. GovernanceStagesFit /\ ReviewedAreFiled /\ InstallsReadFresh /\ AcknowledgedPlansAreFiled
  BY DEF GovernanceInit, GovernanceStagesFit, ReviewedAreFiled, InstallsReadFresh,
         AcknowledgedPlansAreFiled, Acknowledged, Stands
<1>3. StatusesAreExplained
  BY DEF GovernanceInit, StatusesAreExplained
<1> QED  BY <1>1, <1>2, <1>3 DEF GovernanceIInv

(* Where a step takes its call; a written installation marks the others. *)
LEMMA OneGovernanceCallMoves ==
  ASSUME GovernanceTypeOK, NEW c \in GovernanceCall
  PROVE  /\ GovernanceStep(c) =>
              /\ governanceTask' \in [GovernanceCall -> GovernanceProgress]
              /\ \A d \in GovernanceCall \ {c} :
                   /\ governanceTask'[d].stage = governanceTask[d].stage
                   /\ governanceTask'[d].found = governanceTask[d].found
                   /\ governanceTask[d].raced => governanceTask'[d].raced
         /\ ReadForInstall(c) =>
              /\ governanceTask'[c].stage \in {"ok", "write installation"}
              /\ governanceTask'[c].found = installation[PluginOf(c)]
         /\ WriteInstallation(c) => governanceTask'[c].stage \in {"ok", "failed"}
         /\ ReadForPlan(c) => governanceTask'[c].stage \in {"look up", "refused"}
         /\ \A st : Proceed(c, st) => governanceTask'[c].stage = st
<1> DEFINE Tasks == [GovernanceCall -> GovernanceProgress]
<1> DEFINE Others == \A d \in GovernanceCall \ {c} :
                       /\ governanceTask'[d].stage = governanceTask[d].stage
                       /\ governanceTask'[d].found = governanceTask[d].found
                       /\ governanceTask[d].raced => governanceTask'[d].raced
<1> DEFINE Stages == {"waiting", "write installation", "look up", "insert", "write review", "ok",
                      "refused", "failed"}
<1>1. governanceTask \in Tasks
  BY DEF GovernanceTypeOK
<1>2. \A t \in GovernanceProgress, st \in Stages :
        [t EXCEPT !.stage = st] \in GovernanceProgress
  BY DEF GovernanceProgress
<1>3. ASSUME NEW st \in Stages, Proceed(c, st)  PROVE governanceTask' \in Tasks
  <2>1. [governanceTask[c] EXCEPT !.stage = st] \in GovernanceProgress
    BY <1>1, <1>2
  <2>2. governanceTask' = [governanceTask EXCEPT ![c] = [governanceTask[c] EXCEPT !.stage = st]]
    BY <1>3 DEF Proceed
  <2> QED  BY <1>1, <2>1, <2>2
<1>4. \A st : Proceed(c, st) => governanceTask'[c].stage = st /\ Others
  BY <1>1 DEF Proceed, GovernanceProgress
<1>5. \A st \in Stages : Wants(c, "install") \/ Wants(c, "file") =>
        (ReadInstallation(c, st) =>
           /\ governanceTask' \in Tasks
           /\ governanceTask'[c].stage = st
           /\ governanceTask'[c].found = installation[PluginOf(c)]
           /\ Others)
  <2> SUFFICES ASSUME NEW st \in Stages, Wants(c, "install") \/ Wants(c, "file"),
                      ReadInstallation(c, st)
               PROVE  /\ governanceTask' \in Tasks
                      /\ governanceTask'[c].stage = st
                      /\ governanceTask'[c].found = installation[PluginOf(c)]
                      /\ Others
    OBVIOUS
  <2>1. installation[PluginOf(c)] \in InstallationStatus
    BY GovernanceRequestFields DEF GovernanceTypeOK
  <2> QED  BY <1>1, <2>1 DEF ReadInstallation, GovernanceProgress
<1>6. ReadForInstall(c) => governanceTask' \in Tasks /\ Others
                           /\ governanceTask'[c].stage \in {"ok", "write installation"}
                           /\ governanceTask'[c].found = installation[PluginOf(c)]
  <2> SUFFICES ASSUME ReadForInstall(c)
               PROVE  governanceTask' \in Tasks /\ Others
                      /\ governanceTask'[c].stage \in {"ok", "write installation"}
                      /\ governanceTask'[c].found = installation[PluginOf(c)]
    OBVIOUS
  <2>1. PICK st \in {"ok", "write installation"} : ReadInstallation(c, st)
    BY DEF ReadForInstall
  <2> QED  BY <1>5, <2>1 DEF ReadForInstall
<1>7. ReadForPlan(c) => governanceTask' \in Tasks /\ Others
                        /\ governanceTask'[c].stage \in {"look up", "refused"}
  <2> SUFFICES ASSUME ReadForPlan(c)
               PROVE  governanceTask' \in Tasks /\ Others
                      /\ governanceTask'[c].stage \in {"look up", "refused"}
    OBVIOUS
  <2>1. PICK st \in {"look up", "refused"} : ReadInstallation(c, st)
    BY DEF ReadForPlan
  <2> QED  BY <1>5, <2>1 DEF ReadForPlan
<1>8. WriteInstallation(c) => governanceTask' \in Tasks /\ Others
                              /\ governanceTask'[c].stage \in {"ok", "failed"}
  <2>1. CASE Proceed(c, "failed")
    BY <1>3, <1>4, <2>1
  <2>2. CASE governanceTask' = [d \in GovernanceCall |->
               IF d = c THEN [governanceTask[c] EXCEPT !.stage = "ok"]
               ELSE [governanceTask[d] EXCEPT !.raced = @ \/ Relies(d, PluginOf(c))]]
    <3>1. \A d \in GovernanceCall : (governanceTask[d].raced \/ Relies(d, PluginOf(c))) \in BOOLEAN
      BY DEF Relies
    <3>2. \A t \in GovernanceProgress, b \in BOOLEAN :
            /\ [t EXCEPT !.raced = b] \in GovernanceProgress
            /\ [t EXCEPT !.raced = b].stage = t.stage
            /\ [t EXCEPT !.raced = b].found = t.found
      BY DEF GovernanceProgress
    <3>3. \A t \in GovernanceProgress, b \in BOOLEAN : [t EXCEPT !.raced = b].raced = b
      BY DEF GovernanceProgress
    <3>4. [governanceTask[c] EXCEPT !.stage = "ok"] \in GovernanceProgress
          /\ [governanceTask[c] EXCEPT !.stage = "ok"].stage = "ok"
      BY <1>1 DEF GovernanceProgress
    <3>5. \A d \in GovernanceCall \ {c} : governanceTask'[d] =
            [governanceTask[d] EXCEPT !.raced = governanceTask[d].raced \/ Relies(d, PluginOf(c))]
      BY <2>2
    <3>6. governanceTask'[c].stage = "ok"
      BY <2>2, <3>4
    <3>7. governanceTask' \in Tasks
      BY <1>1, <2>2, <3>1, <3>2, <3>4
    <3>8. \A d \in GovernanceCall \ {c} :
            /\ governanceTask'[d].stage = governanceTask[d].stage
            /\ governanceTask'[d].found = governanceTask[d].found
      BY <1>1, <3>1, <3>2, <3>5
    <3>9. \A d \in GovernanceCall \ {c} : governanceTask[d].raced => governanceTask'[d].raced
      BY <1>1, <3>1, <3>3, <3>5
    <3> QED  BY <3>6, <3>7, <3>8, <3>9
  <2> QED  BY <2>1, <2>2 DEF WriteInstallation
<1>9. LookUpRevision(c) \/ InsertRevision(c) \/ ReadForReview(c) \/ WriteReview(c)
      \/ GovernanceStatementFails(c) => \E st \in Stages : Proceed(c, st)
  BY DEF LookUpRevision, InsertRevision, ReadForReview, WriteReview, GovernanceStatementFails
<1> HIDE DEF Tasks, Stages
<1>10. GovernanceStep(c) => governanceTask' \in Tasks /\ Others
  BY <1>3, <1>4, <1>6, <1>7, <1>8, <1>9 DEF GovernanceStep
<1> QED  BY <1>4, <1>6, <1>7, <1>8, <1>10 DEF Tasks

(* A step leaves a revision, files one where there was none, or reviews one. *)
LEMMA RevisionsMove ==
  ASSUME GovernanceIInv, NEW c \in GovernanceCall, GovernanceStep(c)
  PROVE  /\ migration' \in [Identifier -> Filed \cup {NotFiled}]
         /\ \A i \in Identifier :
              \/ migration'[i] = migration[i]
              \/ /\ InsertRevision(c) /\ migration[i] = NotFiled
                 /\ migration'[i] = NewRevision(c) /\ migration'[i] \in Filed
              \/ /\ WriteReview(c) /\ i = GovernanceRequest[c].id /\ migration[i] \in Filed
                 /\ migration'[i] \in Filed
                 /\ migration'[i] = [migration[i] EXCEPT !.status = VerdictOf(c)]
<1>1. migration \in [Identifier -> Filed \cup {NotFiled}]
  BY DEF GovernanceIInv, GovernanceTypeOK
<1>2. CASE UNCHANGED migration
  BY <1>1, <1>2
<1>3. CASE InsertRevision(c)
  <2>1. Wants(c, "file")
    BY <1>3 DEF InsertRevision, GovernanceIInv, GovernanceStagesFit, Stands
  <2>2. NewRevision(c) \in Filed
    BY <2>1, GovernanceRequestFields DEF NewRevision, Filed, RevisionStatus
  <2>3. \/ migration' = migration
        \/ \E i \in Identifier : migration[i] = NotFiled
                                 /\ migration' = [migration EXCEPT ![i] = NewRevision(c)]
    BY <1>3, <2>1, GovernanceRequestFields DEF InsertRevision
  <2> QED  BY <1>1, <1>2, <1>3, <2>2, <2>3
<1>4. CASE WriteReview(c)
  <2> DEFINE id == GovernanceRequest[c].id
  <2> DEFINE reviewed == [migration[id] EXCEPT !.status = VerdictOf(c)]
  <2>1. id \in Identifier /\ migration[id] # NotFiled
    BY <1>4, GovernanceRequestFields
    DEF WriteReview, GovernanceIInv, GovernanceStagesFit, ReviewedAreFiled, Stands
  <2>2. migration[id] \in Filed
    BY <1>1, <2>1
  <2>3. \A r \in Filed, st \in RevisionStatus : [r EXCEPT !.status = st] \in Filed
    BY DEF Filed
  <2>4. reviewed \in Filed
    BY <2>2, <2>3 DEF RevisionStatus, VerdictOf
  <2>5. migration' = [migration EXCEPT ![id] = reviewed]
    BY <1>4 DEF WriteReview
  <2> QED  BY <1>1, <1>4, <2>1, <2>2, <2>4, <2>5
<1>5. GovernanceStep(c) => InsertRevision(c) \/ WriteReview(c) \/ UNCHANGED migration
  BY DEF GovernanceStep, ReadForInstall, WriteInstallation, ReadForPlan, LookUpRevision,
         ReadForReview, GovernanceStatementFails
<1> QED  BY <1>2, <1>3, <1>4, <1>5

(* A revision keeps its plugin, its key and its bundle, and stays filed. *)
LEMMA RevisionsStay ==
  ASSUME GovernanceIInv, NEW c \in GovernanceCall, GovernanceStep(c),
         NEW i \in Identifier, migration[i] # NotFiled
  PROVE  /\ migration'[i] # NotFiled
         /\ migration'[i].plugin = migration[i].plugin
         /\ migration'[i].key = migration[i].key
         /\ migration'[i].bundle = migration[i].bundle
<1>1. \A r \in Filed : \A st :
        /\ [r EXCEPT !.status = st].plugin = r.plugin
        /\ [r EXCEPT !.status = st].key = r.key
        /\ [r EXCEPT !.status = st].bundle = r.bundle
  BY DEF Filed
<1>2. migration[i] \in Filed
  BY DEF GovernanceIInv, GovernanceTypeOK
<1>3. \/ migration'[i] = migration[i]
      \/ migration'[i] \in Filed /\ \E st : migration'[i] = [migration[i] EXCEPT !.status = st]
  BY RevisionsMove
<1>4. CASE migration'[i] = migration[i]
  BY <1>4
<1>5. CASE migration'[i] \in Filed /\ \E st : migration'[i] = [migration[i] EXCEPT !.status = st]
  <2>1. migration'[i] # NotFiled
    BY <1>5, RevisionsArePresent
  <2>2. PICK st : migration'[i] = [migration[i] EXCEPT !.status = st]
    BY <1>5
  <2> QED  BY <1>1, <1>2, <2>1, <2>2
<1> QED  BY <1>3, <1>4, <1>5

LEMMA GovernanceStagesStep ==
  ASSUME GovernanceIInv, NEW c \in GovernanceCall, GovernanceStep(c)
  PROVE  GovernanceStagesFit'
<1> DEFINE Fits(d) ==
      /\ governanceTask'[d].stage = "write installation" => Wants(d, "install")
      /\ governanceTask'[d].stage \in {"look up", "insert"} => Wants(d, "file")
      /\ governanceTask'[d].stage = "write review" => Wants(d, "review")
<1>1. GovernanceTypeOK
  BY DEF GovernanceIInv
<1>2. \A d \in GovernanceCall \ {c} : Fits(d)
  BY <1>1, OneGovernanceCallMoves DEF GovernanceIInv, GovernanceStagesFit, Stands
<1>3. Fits(c)
  <2>1. ReadForInstall(c) => Fits(c)
    <3>1. ReadForInstall(c) => Wants(c, "install")
      BY DEF ReadForInstall
    <3> QED  BY <1>1, <3>1, OneGovernanceCallMoves
  <2>2. ReadForPlan(c) => Fits(c)
    <3>1. ReadForPlan(c) => Wants(c, "file")
      BY DEF ReadForPlan
    <3> QED  BY <1>1, <3>1, OneGovernanceCallMoves
  <2>3. WriteInstallation(c) => Fits(c)
    BY <1>1, OneGovernanceCallMoves
  <2>4. LookUpRevision(c) => Wants(c, "file") /\ \E st \in {"insert", "ok", "refused"} : Proceed(c, st)
    BY DEF LookUpRevision, GovernanceIInv, GovernanceStagesFit, Stands
  <2>5. ReadForReview(c) => Wants(c, "review") /\ \E st \in {"refused", "write review"} : Proceed(c, st)
    BY DEF ReadForReview
  <2>6. InsertRevision(c) \/ WriteReview(c) \/ GovernanceStatementFails(c) =>
          \E st \in {"failed", "ok"} : Proceed(c, st)
    BY DEF InsertRevision, WriteReview, GovernanceStatementFails
  <2>7. \A st : Proceed(c, st) => governanceTask'[c].stage = st
    BY <1>1, OneGovernanceCallMoves
  <2> QED  BY <2>1, <2>2, <2>3, <2>4, <2>5, <2>6, <2>7 DEF GovernanceStep
<1> QED  BY <1>2, <1>3 DEF GovernanceStagesFit, Stands, Wants

LEMMA ReviewedAreFiledStep ==
  ASSUME GovernanceIInv, NEW c \in GovernanceCall, GovernanceStep(c)
  PROVE  ReviewedAreFiled'
<1>1. GovernanceTypeOK
  BY DEF GovernanceIInv
<1>2. \A d \in GovernanceCall : governanceTask'[d].stage = "write review" =>
        Wants(d, "review") /\ migration[GovernanceRequest[d].id] # NotFiled
  <2> TAKE d \in GovernanceCall
  <2> HAVE governanceTask'[d].stage = "write review"
  <2>1. Wants(d, "review")
    BY GovernanceStagesStep DEF GovernanceStagesFit, Stands, Wants
  <2>2. CASE governanceTask[d].stage = "write review"
    BY <2>1, <2>2 DEF GovernanceIInv, ReviewedAreFiled, Stands
  <2>3. CASE governanceTask[d].stage # "write review"
    <3>1. d = c
      BY <1>1, <2>3, OneGovernanceCallMoves
    <3>2. ~(ReadForInstall(c) \/ ReadForPlan(c) \/ WriteInstallation(c))
      BY <1>1, <3>1, OneGovernanceCallMoves
    <3>3. ~(LookUpRevision(c) \/ InsertRevision(c) \/ WriteReview(c)
            \/ GovernanceStatementFails(c))
      <4>1. LookUpRevision(c) \/ InsertRevision(c) \/ WriteReview(c)
            \/ GovernanceStatementFails(c) =>
              \E st \in {"insert", "ok", "refused", "failed"} : Proceed(c, st)
        BY DEF LookUpRevision, InsertRevision, WriteReview, GovernanceStatementFails
      <4>2. \A st : Proceed(c, st) => governanceTask'[c].stage = st
        BY <1>1, OneGovernanceCallMoves
      <4> QED  BY <3>1, <4>1, <4>2
    <3>4. ReadForReview(c)
      BY <3>2, <3>3 DEF GovernanceStep
    <3>5. migration[GovernanceRequest[c].id] = NotFiled => Proceed(c, "refused")
      BY <3>4 DEF ReadForReview
    <3>6. Proceed(c, "refused") => governanceTask'[c].stage = "refused"
      BY <1>1, OneGovernanceCallMoves
    <3> QED  BY <2>1, <3>1, <3>5, <3>6
  <2> QED  BY <2>2, <2>3
<1>3. \A d \in GovernanceCall : governanceTask'[d].stage = "write review" =>
        migration'[GovernanceRequest[d].id] # NotFiled
  BY <1>2, GovernanceRequestFields, RevisionsStay
<1> QED  BY <1>3 DEF ReviewedAreFiled, Stands, NotFiled

LEMMA GovernanceTypeStep ==
  ASSUME GovernanceIInv, NEW c \in GovernanceCall, GovernanceStep(c)
  PROVE  GovernanceTypeOK'
<1>1. GovernanceTypeOK
  BY DEF GovernanceIInv
<1>2. governanceTask' \in [GovernanceCall -> GovernanceProgress]
  BY <1>1, OneGovernanceCallMoves
<1>3. migration' \in [Identifier -> Filed \cup {NotFiled}]
  BY RevisionsMove
<1>4. installation' \in [Plugin -> InstallationStatus]
  <2>1. CASE UNCHANGED installation
    BY <1>1, <2>1 DEF GovernanceTypeOK
  <2>2. CASE WriteInstallation(c)
    <3>1. InstalledStatus(c) \in InstallationStatus
      <4>1. governanceTask[c].found \in InstallationStatus
        BY <1>1 DEF GovernanceTypeOK, GovernanceProgress
      <4> QED  BY <4>1 DEF InstalledStatus, InstallationStatus
    <3> QED  BY <1>1, <2>2, <3>1 DEF WriteInstallation, GovernanceTypeOK
  <2> QED
    BY <2>1, <2>2 DEF GovernanceStep, ReadForInstall, ReadForPlan, LookUpRevision, InsertRevision,
       ReadForReview, WriteReview, GovernanceStatementFails
<1> QED  BY <1>2, <1>3, <1>4 DEF GovernanceTypeOK

(* A written installation overtakes the calls that rely on what it was. *)
LEMMA InstallsFreshStep ==
  ASSUME GovernanceIInv, NEW c \in GovernanceCall, GovernanceStep(c)
  PROVE  InstallsReadFresh'
<1>1. GovernanceTypeOK
  BY DEF GovernanceIInv
<1> SUFFICES ASSUME NEW d \in GovernanceCall,
                    governanceTask'[d].stage = "write installation",
                    ~governanceTask'[d].raced
             PROVE  governanceTask'[d].found = installation'[PluginOf(d)]
  BY DEF InstallsReadFresh, Stands, PluginOf
<1>2. CASE d = c
  <2>1. ~(ReadForPlan(c) \/ WriteInstallation(c))
    BY <1>1, <1>2, OneGovernanceCallMoves
  <2>2. ~(LookUpRevision(c) \/ InsertRevision(c) \/ ReadForReview(c) \/ WriteReview(c)
          \/ GovernanceStatementFails(c))
    <3>1. LookUpRevision(c) \/ InsertRevision(c) \/ ReadForReview(c) \/ WriteReview(c)
          \/ GovernanceStatementFails(c) =>
            \E st \in {"insert", "write review", "ok", "refused", "failed"} : Proceed(c, st)
      BY DEF LookUpRevision, InsertRevision, ReadForReview, WriteReview, GovernanceStatementFails
    <3>2. \A st : Proceed(c, st) => governanceTask'[c].stage = st
      BY <1>1, OneGovernanceCallMoves
    <3> QED  BY <1>2, <3>1, <3>2
  <2>3. ReadForInstall(c)
    BY <2>1, <2>2 DEF GovernanceStep
  <2>4. governanceTask'[c].found = installation[PluginOf(c)]
    BY <1>1, <2>3, OneGovernanceCallMoves
  <2> QED  BY <1>2, <2>3, <2>4 DEF ReadForInstall
<1>3. CASE d # c
  <2>1. /\ governanceTask[d].stage = "write installation"
        /\ governanceTask'[d].found = governanceTask[d].found
        /\ governanceTask[d].raced => governanceTask'[d].raced
    BY <1>1, <1>3, OneGovernanceCallMoves
  <2>2. governanceTask[d].found = installation[PluginOf(d)]
    BY <2>1 DEF GovernanceIInv, InstallsReadFresh, Stands
  <2>3. CASE UNCHANGED installation
    BY <2>1, <2>2, <2>3
  <2>4. CASE WriteInstallation(c) /\ ~UNCHANGED installation
    <3>1. installation' = [installation EXCEPT ![PluginOf(c)] = InstalledStatus(c)]
          /\ governanceTask'[d] = [governanceTask[d] EXCEPT !.raced = @ \/ Relies(d, PluginOf(c))]
      BY <1>3, <2>4 DEF WriteInstallation
    <3>2. \A b : [governanceTask[d] EXCEPT !.raced = b].raced = b
      BY <1>1 DEF GovernanceTypeOK, GovernanceProgress
    <3>3. ~Relies(d, PluginOf(c))
      BY <3>1, <3>2
    <3>4. PluginOf(d) # PluginOf(c)
      BY <2>1, <3>3 DEF Relies
    <3>5. installation'[PluginOf(d)] = installation[PluginOf(d)]
      <4>1. PluginOf(d) \in Plugin
        BY <2>1, GovernanceRequestFields DEF GovernanceIInv, GovernanceStagesFit, Stands
      <4> QED  BY <1>1, <3>1, <3>4, <4>1 DEF GovernanceTypeOK
    <3> QED  BY <2>1, <2>2, <3>5
  <2> QED
    BY <2>3, <2>4 DEF GovernanceStep, ReadForInstall, ReadForPlan, LookUpRevision, InsertRevision,
       ReadForReview, WriteReview, GovernanceStatementFails
<1> QED  BY <1>2, <1>3

(* A call that was answered stays answered. *)
LEMMA AnswersStand ==
  ASSUME GovernanceIInv, NEW c \in GovernanceCall, GovernanceStep(c),
         NEW d \in GovernanceCall, Stands(d, "ok")
  PROVE  governanceTask'[d].stage = "ok"
<1>1. GovernanceTypeOK
  BY DEF GovernanceIInv
<1>2. ~Stands(c, "ok")
  BY DEF GovernanceStep, ReadForInstall, WriteInstallation, ReadForPlan, LookUpRevision,
         InsertRevision, ReadForReview, WriteReview, GovernanceStatementFails, Stands
<1> QED  BY <1>1, <1>2, OneGovernanceCallMoves DEF Stands

LEMMA StatusesExplainedStep ==
  ASSUME GovernanceIInv, NEW c \in GovernanceCall, GovernanceStep(c)
  PROVE  StatusesAreExplained'
<1> DEFINE IsOk(d) == governanceTask'[d].stage = "ok"
<1> DEFINE Reviewed(i, status) ==
      \E d \in GovernanceCall : /\ Wants(d, "review") /\ IsOk(d)
                                /\ GovernanceRequest[d].id = i /\ VerdictOf(d) = status
<1> DEFINE Harmless(plugin, key, bundle) ==
      \E d \in GovernanceCall : /\ Wants(d, "file") /\ IsOk(d) /\ PluginOf(d) = plugin
                                /\ GovernanceRequest[d].key = key
                                /\ GovernanceRequest[d].bundle = bundle
                                /\ ~PlanNeedsReview(d)
<1> DEFINE Explained(i, r) ==
      \/ r.status = "review_required"
      \/ Reviewed(i, r.status)
      \/ r.status = "planned" /\ Harmless(r.plugin, r.key, r.bundle)
<1>1. GovernanceTypeOK
  BY DEF GovernanceIInv
<1>2. \A d \in GovernanceCall : Stands(d, "ok") => IsOk(d)
  BY AnswersStand
<1>3. \A i, r : StatusIsExplained(i, r) => Explained(i, r)
  BY <1>2 DEF StatusIsExplained, ReviewedAs, FiledAsHarmless, Acknowledged
<1> SUFFICES ASSUME NEW i \in Identifier, migration'[i] # NotFiled
             PROVE  Explained(i, migration'[i])
  BY DEF StatusesAreExplained, StatusIsExplained, ReviewedAs, FiledAsHarmless, Acknowledged,
         Stands, Wants, PluginOf, PlanNeedsReview, NeedsReview, VerdictOf, NotFiled
<1>4. CASE migration'[i] = migration[i]
  <2>1. StatusIsExplained(i, migration[i])
    BY <1>4 DEF GovernanceIInv, StatusesAreExplained
  <2> HIDE DEF Explained
  <2> QED  BY <1>3, <1>4, <2>1
<1>5. CASE /\ InsertRevision(c) /\ migration[i] = NotFiled
           /\ migration'[i] = NewRevision(c) /\ migration'[i] # migration[i]
  <2>1. Wants(c, "file") /\ IsOk(c)
    <3>1. ~UNCHANGED migration
      BY <1>5
    <3>2. Wants(c, "file") /\ Proceed(c, "ok")
      BY <1>5, <3>1 DEF InsertRevision, GovernanceIInv, GovernanceStagesFit, Stands
    <3> QED  BY <1>1, <3>2, OneGovernanceCallMoves
  <2>2. /\ NewRevision(c).plugin = PluginOf(c)
        /\ NewRevision(c).key = GovernanceRequest[c].key
        /\ NewRevision(c).bundle = GovernanceRequest[c].bundle
        /\ NewRevision(c).status = IF PlanNeedsReview(c) THEN "review_required" ELSE "planned"
    BY <2>1, GovernanceRequestFields DEF NewRevision, PlanNeedsReview
  <2> QED  BY <1>5, <2>1, <2>2
<1>6. CASE /\ WriteReview(c) /\ i = GovernanceRequest[c].id /\ migration[i] \in Filed
           /\ migration'[i] = [migration[i] EXCEPT !.status = VerdictOf(c)]
  <2>1. Wants(c, "review") /\ IsOk(c)
    <3>1. Wants(c, "review") /\ Proceed(c, "ok")
      BY <1>6 DEF WriteReview, GovernanceIInv, GovernanceStagesFit, Stands
    <3> QED  BY <1>1, <3>1, OneGovernanceCallMoves
  <2>2. \A r \in Filed : \A st : [r EXCEPT !.status = st].status = st
    BY DEF Filed
  <2>3. migration'[i].status = VerdictOf(c)
    BY <1>6, <2>2
  <2> QED  BY <1>6, <2>1, <2>3
<1> QED  BY <1>4, <1>5, <1>6, RevisionsMove

(* An acknowledged plan is filed with its bundle, and what explains the status of
   the revision explains why the plan is held. *)
LEMMA ExplainedPlansAreHeld == GovernanceIInv => RiskyPlansAreHeld
<1> SUFFICES ASSUME GovernanceIInv, NEW c \in GovernanceCall, Acknowledged(c)
             PROVE  \E i \in FiledAs(PluginOf(c), GovernanceRequest[c].key) :
                      \/ migration[i].status = "review_required"
                      \/ ReviewedAs(i, migration[i].status)
                      \/ /\ migration[i].status = "planned"
                         /\ FiledAsHarmless(PluginOf(c), GovernanceRequest[c].key,
                                            GovernanceRequest[c].bundle)
  BY DEF RiskyPlansAreHeld
<1>1. PICK i \in FiledAs(PluginOf(c), GovernanceRequest[c].key) :
        migration[i].bundle = GovernanceRequest[c].bundle
  BY DEF GovernanceIInv, AcknowledgedPlansAreFiled
<1>2. /\ i \in Identifier /\ migration[i] # NotFiled /\ migration[i].plugin = PluginOf(c)
      /\ migration[i].key = GovernanceRequest[c].key
  BY DEF FiledAs
<1>3. StatusIsExplained(i, migration[i])
  BY <1>2 DEF GovernanceIInv, StatusesAreExplained
<1> QED  BY <1>1, <1>2, <1>3 DEF StatusIsExplained

LEMMA PlansFiledStep ==
  ASSUME GovernanceIInv, NEW c \in GovernanceCall, GovernanceStep(c)
  PROVE  AcknowledgedPlansAreFiled'
<1> DEFINE Answers(d, i) ==
      /\ migration[i] # NotFiled /\ migration[i].plugin = PluginOf(d)
      /\ migration[i].key = GovernanceRequest[d].key
      /\ migration[i].bundle = GovernanceRequest[d].bundle
<1>1. GovernanceTypeOK
  BY DEF GovernanceIInv
<1> SUFFICES ASSUME NEW d \in GovernanceCall, Wants(d, "file"), governanceTask'[d].stage = "ok"
             PROVE  \E i \in Identifier :
                      /\ migration'[i] # NotFiled /\ migration'[i].plugin = PluginOf(d)
                      /\ migration'[i].key = GovernanceRequest[d].key
                      /\ migration'[i].bundle = GovernanceRequest[d].bundle
  BY DEF AcknowledgedPlansAreFiled, Acknowledged, FiledAs, Stands, Wants, PluginOf, NotFiled
<1>2. CASE \E i \in Identifier : Answers(d, i)
  BY <1>2, RevisionsStay
<1>3. CASE governanceTask[d].stage = "ok"
  BY <1>2, <1>3 DEF GovernanceIInv, AcknowledgedPlansAreFiled, Acknowledged, FiledAs, Stands
<1>4. CASE governanceTask[d].stage # "ok"
  <2>1. d = c
    BY <1>1, <1>4, OneGovernanceCallMoves
  <2>2. ~(ReadForInstall(c) \/ WriteInstallation(c) \/ WriteReview(c))
    BY <2>1 DEF ReadForInstall, WriteInstallation, WriteReview, GovernanceIInv,
                GovernanceStagesFit, Stands, Wants
  <2>3. ~ReadForPlan(c)
    BY <1>1, <2>1, OneGovernanceCallMoves
  <2>4. ~(ReadForReview(c) \/ GovernanceStatementFails(c))
    <3>1. ReadForReview(c) \/ GovernanceStatementFails(c) =>
            \E st \in {"write review", "refused", "failed"} : Proceed(c, st)
      BY DEF ReadForReview, GovernanceStatementFails
    <3>2. \A st : Proceed(c, st) => governanceTask'[c].stage = st
      BY <1>1, OneGovernanceCallMoves
    <3> QED  BY <2>1, <3>1, <3>2
  <2>5. CASE LookUpRevision(c)
    <3> DEFINE found == FiledAs(PluginOf(c), GovernanceRequest[c].key)
    <3>1. Proceed(c, IF found = {} THEN "insert"
                     ELSE IF \A i \in found : ReplayMatches(c, i) THEN "ok" ELSE "refused")
      BY <2>5 DEF LookUpRevision
    <3>2. found # {} /\ \A i \in found : ReplayMatches(c, i)
      BY <1>1, <2>1, <3>1, OneGovernanceCallMoves
    <3>3. PICK i \in found : ReplayMatches(c, i)
      BY <3>2
    <3>4. i \in Identifier /\ Answers(d, i)
      BY <2>1, <3>3 DEF FiledAs, ReplayMatches
    <3> QED  BY <1>2, <3>4
  <2>6. CASE InsertRevision(c)
    <3> DEFINE id == IdentifierOf[<<PluginOf(c), GovernanceRequest[c].key>>]
    <3> DEFINE taken == migration[id] # NotFiled
                        \/ FiledAs(PluginOf(c), GovernanceRequest[c].key) # {}
    <3>1. /\ migration' = IF taken THEN migration ELSE [migration EXCEPT ![id] = NewRevision(c)]
          /\ Proceed(c, IF taken THEN "failed" ELSE "ok")
      BY <2>6 DEF InsertRevision
    <3>2. ~taken
      BY <1>1, <2>1, <3>1, OneGovernanceCallMoves
    <3>3. id \in Identifier
      BY <2>1, GovernanceRequestFields
    <3>4. migration'[id] = NewRevision(c)
      BY <1>1, <3>1, <3>2, <3>3 DEF GovernanceTypeOK
    <3>5. /\ NewRevision(c).plugin = PluginOf(c)
          /\ NewRevision(c).key = GovernanceRequest[c].key
          /\ NewRevision(c).bundle = GovernanceRequest[c].bundle
      BY <2>1, GovernanceRequestFields DEF NewRevision
    <3>6. NewRevision(c) # NotFiled
      BY DEF NewRevision, NotFiled
    <3> QED  BY <2>1, <3>3, <3>4, <3>5, <3>6
  <2> QED  BY <2>2, <2>3, <2>4, <2>5, <2>6 DEF GovernanceStep
<1> QED  BY <1>3, <1>4

LEMMA GovernanceStutter == GovernanceIInv /\ UNCHANGED governanceVars => GovernanceIInv'
<1> SUFFICES ASSUME GovernanceIInv, UNCHANGED governanceVars  PROVE GovernanceIInv'
  OBVIOUS
<1> USE DEF governanceVars, GovernanceIInv
<1>1. GovernanceTypeOK' /\ GovernanceStagesFit' /\ ReviewedAreFiled' /\ InstallsReadFresh'
  BY DEF GovernanceTypeOK, GovernanceStagesFit, ReviewedAreFiled, InstallsReadFresh, Stands, Wants,
         PluginOf, NotFiled
<1>2. StatusesAreExplained'
  BY DEF StatusesAreExplained, StatusIsExplained, ReviewedAs, FiledAsHarmless, Acknowledged,
         Stands, Wants, PluginOf, PlanNeedsReview, NeedsReview, VerdictOf, NotFiled
<1>3. AcknowledgedPlansAreFiled'
  BY DEF AcknowledgedPlansAreFiled, Acknowledged, FiledAs, Stands, Wants, PluginOf, NotFiled
<1> QED  BY <1>1, <1>2, <1>3

THEOREM GovernanceInvariantHolds == GovernanceSpec => []GovernanceIInv
<1>1. ASSUME GovernanceIInv, NEW c \in GovernanceCall, GovernanceStep(c)
      PROVE  GovernanceIInv'
  BY <1>1, GovernanceTypeStep, GovernanceStagesStep, ReviewedAreFiledStep, InstallsFreshStep,
     StatusesExplainedStep, PlansFiledStep
  DEF GovernanceIInv
<1>2. GovernanceIInv /\ [GovernanceNext]_governanceVars => GovernanceIInv'
  BY <1>1, GovernanceStutter DEF GovernanceNext
<1> QED  BY <1>2, GovernanceInitEstablishes, PTL DEF GovernanceSpec

(* However filings, replays and reviews interleave, a plan that needs a review and
   was acknowledged waits for one or has the verdict of one, unless it replays a
   plan of its key and bundle that was filed with harmless steps: two plans filed
   at once are not merged, and the loser of the insertion is not acknowledged. *)
THEOREM PlansAreHeld == GovernanceSpec => []RiskyPlansAreHeld
BY GovernanceInvariantHolds, ExplainedPlansAreHeld, PTL

(* A plan createProviderMigrationRevision has acknowledged is in the ledger,
   with the bundle its caller named. *)
THEOREM PlansAreFiled == GovernanceSpec => []AcknowledgedPlansAreFiled
BY GovernanceInvariantHolds, PTL DEF GovernanceIInv

(* Only an install that read before the disabling revives an installation
   (ensureProviderInstallationForManifest writes the status it found). *)
THEOREM DisabledIsFinal == GovernanceSpec => DisabledInstallationStays
<1> DEFINE Stays ==
      \A p \in Plugin : installation[p] = "disabled" /\ installation'[p] # "disabled" =>
        \E c \in GovernanceCall : /\ Stands(c, "write installation") /\ PluginOf(c) = p
                                  /\ governanceTask[c].raced
                                  /\ governanceTask'[c].stage = "ok"
<1>1. ASSUME GovernanceIInv, GovernanceNext  PROVE Stays
  <2> SUFFICES ASSUME NEW p \in Plugin, installation[p] = "disabled",
                      installation'[p] # "disabled"
               PROVE  \E c \in GovernanceCall :
                        /\ Stands(c, "write installation") /\ PluginOf(c) = p
                        /\ governanceTask[c].raced
                        /\ governanceTask'[c].stage = "ok"
    OBVIOUS
  <2>1. PICK c \in GovernanceCall : GovernanceStep(c)
    BY <1>1 DEF GovernanceNext
  <2>2. WriteInstallation(c)
    BY <2>1 DEF GovernanceStep, ReadForInstall, ReadForPlan, LookUpRevision, InsertRevision,
       ReadForReview, WriteReview, GovernanceStatementFails
  <2>3. GovernanceTypeOK
    BY <1>1 DEF GovernanceIInv
  <2>4. /\ Stands(c, "write installation")
        /\ installation' = [installation EXCEPT ![PluginOf(c)] = InstalledStatus(c)]
        /\ governanceTask' = [d \in GovernanceCall |->
             IF d = c THEN [governanceTask[c] EXCEPT !.stage = "ok"]
             ELSE [governanceTask[d] EXCEPT !.raced = @ \/ Relies(d, PluginOf(c))]]
    BY <2>2 DEF WriteInstallation
  <2>5. p = PluginOf(c) /\ InstalledStatus(c) # "disabled"
    BY <2>3, <2>4 DEF GovernanceTypeOK
  <2>6. governanceTask[c].found # "disabled"
    BY <2>5 DEF InstalledStatus
  <2>7. governanceTask[c].raced
    BY <1>1, <2>4, <2>5, <2>6 DEF GovernanceIInv, InstallsReadFresh
  <2>8. governanceTask'[c].stage = "ok"
    <3>1. governanceTask'[c] = [governanceTask[c] EXCEPT !.stage = "ok"]
      BY <2>4
    <3> QED  BY <2>3, <3>1 DEF GovernanceTypeOK, GovernanceProgress
  <2> QED  BY <2>4, <2>5, <2>7, <2>8
<1>2. GovernanceIInv /\ [GovernanceNext]_governanceVars => [Stays]_governanceVars
  BY <1>1
<1> QED  BY <1>2, GovernanceInvariantHolds, PTL DEF GovernanceSpec, DisabledInstallationStays

(***************************************************************************)
(* The composition implements its components.                              *)
(***************************************************************************)

LEMMA SessionsKeepTime ==
  ASSUME NEW c \in SessionCall, SessionStep(c) \/ \E opens \in BOOLEAN : RegisterUser(c, opens)
  PROVE  now' = now
BY DEF SessionStep, CheckLimiter, ReadLogin, RecordFailure, ResetAttempts, Rehash, OpenSession,
       LookUp, CheckOwner, Rotate, LogOut, ReadPatch, WritePatch, RevokeSessions, WriteStatus,
       CreateUser, StatementFails, RegisterUser, Go, GoWriting

LEMMA AdministrationKeepsTime ==
  ASSUME NEW c \in AdminCall, AdminStep(c) \/ CommitRegistration(c)
  PROVE  now' = now
BY DEF AdminStep, AcquireLock, LockUnavailable, CheckMode, RollBack, ReleaseLock, LoseLock,
       LoadPrincipal, CreateGrant, LoadGrant, CountSupers, RevokeGrant, AdminStatementFails,
       CommitRegistration

(* The requests of many clients that touch the administrators' tables do so
   as Administration says. *)
THEOREM ImplementsAdministration == Spec => AdministrationSpec
<1>1. Init => ClockInit /\ AdministrationInit
  BY DEF Init
<1>2. [Next]_vars => [AdministrationNext]_adminVars
  <2> SUFFICES ASSUME [Next]_vars  PROVE AdministrationNext \/ UNCHANGED adminVars
    OBVIOUS
  <2> USE DEF adminVars, adminTables
  <2>1. CASE TimePasses
    BY <2>1 DEF TimePasses, AdministrationNext
  <2>2. CASE AuthzStep \/ \E c \in SpaceCall : SpacesStep(c)
    BY <2>2 DEF AuthzStep, SpacesStep
  <2>3. CASE \E c \in SessionCall : SessionsStep(c)
    BY <2>3, SessionsKeepTime DEF SessionsStep
  <2>4. CASE \E c \in AdminCall : AdministrationStep(c) \/ RegistrationCommits(c)
    BY <2>4 DEF AdministrationStep, RegistrationCommits, AdministrationNext
  <2>5. CASE \E c \in GovernanceCall : ProviderStep(c)
    BY <2>5 DEF ProviderStep
  <2>6. CASE UNCHANGED vars
    BY <2>6 DEF vars
  <2> QED  BY <2>1, <2>2, <2>3, <2>4, <2>5, <2>6 DEF Next
<1> QED  BY <1>1, <1>2, PTL DEF Spec, AdministrationSpec

(* A registration commits for the user its session request names, so what it
   does to the users and the sessions is a step of Sessions. *)
THEOREM ImplementsSessions == Spec => SessionsSpec
<1>1. Init => ClockInit /\ SessionsInit
  BY DEF Init
<1>2. AdminIInv /\ [Next]_vars => [SessionsNext]_sessionsVars
  <2> SUFFICES ASSUME AdminIInv, [Next]_vars  PROVE SessionsNext \/ UNCHANGED sessionsVars
    OBVIOUS
  <2> USE DEF sessionsVars, sessionsTables
  <2>1. CASE TimePasses
    BY <2>1 DEF TimePasses, SessionsNext
  <2>2. CASE AuthzStep \/ \E c \in SpaceCall : SpacesStep(c)
    BY <2>2 DEF AuthzStep, SpacesStep
  <2>3. CASE \E c \in SessionCall : SessionsStep(c)
    BY <2>3 DEF SessionsStep, SessionsNext
  <2>4. CASE \E c \in AdminCall : AdministrationStep(c)
    BY <2>4, AdministrationKeepsTime DEF AdministrationStep
  <2>5. CASE \E c \in AdminCall : RegistrationCommits(c)
    <3>1. PICK c \in AdminCall : RegistrationCommits(c)
      BY <2>5
    <3>2. Asks(c, "register")
      BY <3>1 DEF RegistrationCommits, CommitRegistration, AdminIInv, AdminStagesFit,
                  RegisterStages
    <3>3. c \in SessionCall
      BY <3>2, ControlPlaneAssumption DEF ControlPlaneAssumption, Asks
    <3>4. \E opens \in BOOLEAN : RegisterUser(c, opens)
      <4>1. (~IsAt(c, "public")) \in BOOLEAN
        BY DEF IsAt
      <4> QED  BY <3>1, <4>1, Zenon DEF RegistrationCommits
    <3> QED  BY <3>3, <3>4 DEF SessionsNext
  <2>6. CASE \E c \in GovernanceCall : ProviderStep(c)
    BY <2>6 DEF ProviderStep
  <2>7. CASE UNCHANGED vars
    BY <2>7 DEF vars
  <2> QED  BY <2>1, <2>2, <2>3, <2>4, <2>5, <2>6, <2>7 DEF Next
<1>3. Spec => []AdminIInv
  BY ImplementsAdministration, AdminInvariantHolds, PTL
<1> QED  BY <1>1, <1>2, <1>3, PTL DEF Spec, SessionsSpec

(* The status of a Space is written by the handlers of Spaces and by nothing
   else but the commit of a registration. *)
THEOREM ImplementsSpaces == Spec => SpacesSpec
<1>1. Init => SpacesInit
  BY DEF Init
<1>2. [Next]_vars => [SpacesNext]_spacesVars
  <2> SUFFICES ASSUME [Next]_vars  PROVE SpacesNext \/ UNCHANGED spacesVars
    OBVIOUS
  <2>1. CASE TimePasses \/ AuthzStep
    BY <2>1 DEF TimePasses, AuthzStep
  <2>2. CASE \E c \in SpaceCall : SpacesStep(c)
    BY <2>2 DEF SpacesStep, SpacesNext
  <2>3. CASE \E c \in SessionCall : SessionsStep(c)
    BY <2>3 DEF SessionsStep
  <2>4. CASE \E c \in AdminCall : AdministrationStep(c) \/ RegistrationCommits(c)
    BY <2>4 DEF AdministrationStep, RegistrationCommits, SpacesNext
  <2>5. CASE \E c \in GovernanceCall : ProviderStep(c)
    BY <2>5 DEF ProviderStep
  <2>6. CASE UNCHANGED vars
    BY <2>6 DEF vars
  <2> QED  BY <2>1, <2>2, <2>3, <2>4, <2>5, <2>6 DEF Next
<1> QED  BY <1>1, <1>2, PTL DEF Spec, SpacesSpec

(* The governance ledger is written by its own handlers. *)
THEOREM ImplementsGovernance == Spec => GovernanceSpec
<1>1. Init => GovernanceInit
  BY DEF Init
<1>2. [Next]_vars => [GovernanceNext]_governanceVars
  BY DEF Next, vars, TimePasses, AuthzStep, SessionsStep, AdministrationStep, RegistrationCommits,
         SpacesStep, ProviderStep, GovernanceNext
<1> QED  BY <1>1, <1>2, PTL DEF Spec, GovernanceSpec

(* A check and the updates of the directory take their own steps; of the other
   handlers it sees a user or a Space written, or both when a registration
   commits, and that one writes the row of a user who was not there. *)
THEOREM ImplementsAuthz == Spec => AuthzSpec
<1>1. Init => ClockInit /\ AuthzInit
  BY DEF Init
<1>2. SessionsTypeOK /\ [Next]_vars => [AuthzNext]_<<authzVars, user, space, now>>
  <2> SUFFICES ASSUME SessionsTypeOK, [Next]_vars
               PROVE   [AuthzNext]_<<authzVars, user, space, now>>
    OBVIOUS
  <2>1. CASE TimePasses
    BY <2>1 DEF TimePasses, AuthzNext, OthersStep, ChecksNotice, sessionsTables, spacesVars,
                authzVars
  <2>2. CASE AuthzStep
    BY <2>2 DEF AuthzStep, AuthzNext, sessionsTables, spacesVars
  <2>3. CASE \E c \in SessionCall : SessionsStep(c)
    <3>1. PICK c \in SessionCall : SessionsStep(c)
      BY <2>3
    <3>2. space' = space /\ ChecksNotice /\ SessionStep(c)
      BY <3>1 DEF SessionsStep, spacesVars
    <3>3. now' = now
      BY <3>2 DEF SessionStep, CheckLimiter, ReadLogin, RecordFailure, ResetAttempts, Rehash,
                  OpenSession, LookUp, CheckOwner, Rotate, LogOut, ReadPatch, WritePatch,
                  RevokeSessions, WriteStatus, CreateUser, StatementFails
    <3> QED  BY <3>2, <3>3 DEF AuthzNext, OthersStep
  <2>4. CASE \E c \in AdminCall : AdministrationStep(c)
    <3>1. PICK c \in AdminCall : AdminStep(c) /\ UNCHANGED <<sessionsTables, spacesVars, authzVars>>
      BY <2>4 DEF AdministrationStep
    <3>2. now' = now
      BY <3>1 DEF AdminStep, AcquireLock, LockUnavailable, CheckMode, RollBack, ReleaseLock,
                  LoseLock, LoadPrincipal, CreateGrant, LoadGrant, CountSupers, RevokeGrant,
                  AdminStatementFails
    <3> QED
      BY <3>1, <3>2 DEF AuthzNext, OthersStep, ChecksNotice, sessionsTables, spacesVars, authzVars
  <2>5. CASE \E c \in AdminCall : RegistrationCommits(c)
    <3>1. PICK c \in AdminCall : RegistrationCommits(c)
      BY <2>5
    <3>2. ChecksNotice /\ now' = now /\ \A u \in User : user[u] # NoUser => user'[u] = user[u]
      BY <3>1 DEF RegistrationCommits, RegisterUser, SessionsTypeOK
    <3> QED  BY <3>2 DEF AuthzNext, OthersStep
  <2>6. CASE \E c \in SpaceCall : SpacesStep(c)
    BY <2>6 DEF SpacesStep, AuthzNext, OthersStep, sessionsTables
  <2>7. CASE \E c \in GovernanceCall : ProviderStep(c)
    BY <2>7 DEF ProviderStep, AuthzNext, OthersStep, ChecksNotice, sessionsTables, spacesVars,
                authzVars
  <2>8. CASE UNCHANGED vars
    BY <2>8 DEF vars, sessionsTables, spacesVars, authzVars
  <2> QED  BY <2>1, <2>2, <2>3, <2>4, <2>5, <2>6, <2>7, <2>8 DEF Next
<1> QED
  BY <1>1, <1>2, ImplementsSessions, SessionsTypeCorrect, PTL DEF Spec, AuthzSpec

(***************************************************************************)
(* What holds of the composition.                                          *)
(***************************************************************************)

(* Every table and every call of the control plane keeps its type. *)
THEOREM TypeCorrect == Spec => []TypeOK
<1>1. SpacesIInv => SpacesTypeOK
  BY DEF SpacesIInv
<1>2. GovernanceIInv => GovernanceTypeOK
  BY DEF GovernanceIInv
<1>3. AuthzIInv => AuthzTypeOK
  BY DEF AuthzIInv, AuditIInv
<1> QED
  BY <1>1, <1>2, <1>3, ImplementsSessions, SessionsTypeCorrect,
     ImplementsAdministration, AdministrationTypeCorrect, ImplementsSpaces, SpacesInvariantHolds,
     ImplementsGovernance, GovernanceInvariantHolds, ImplementsAuthz, AuthzInvariantHolds, PTL
  DEF TypeOK

(* However the requests of all components interleave: sessions that were ended
   stay ended, registration makes one first administrator, acknowledged plans are
   filed, and held for a review as far as RiskyPlansAreHeld says, and checks are
   exact alone, fail closed among writes, and are audited. *)
THEOREM ControlPlaneIsSafe ==
  Spec => [](/\ EndedSessionsStayEnded
             /\ AtMostOneBootstrapAdmin
             /\ RiskyPlansAreHeld
             /\ AcknowledgedPlansAreFiled
             /\ UndisturbedCheckIsExact
             /\ AllowedOnlyIfEverEntitled
             /\ DecisionsAreAudited)
BY ImplementsSessions, EndedIsFinal, ImplementsAdministration, FirstAdminIsUnique,
   ImplementsGovernance, PlansAreHeld, PlansAreFiled, ImplementsAuthz,
   UndisturbedChecksAreExact, TornReadsFailClosed, AuditComesFirst, PTL

(* And what the handlers that read first and write later can do to each other
   is no more than what each component's property allows. *)
THEOREM ControlPlaneOverlaps ==
  Spec => /\ UnaskedChangeNeedsOverlap
          /\ LockEndsByTimeOrInFlight
          /\ LastSuperFallsOnlyToOverlap
          /\ StatusMovesAsAskedOrOverlaps
          /\ DisabledInstallationStays
BY ImplementsSessions, UnaskedChangeIsOverlap, LocksHold, ImplementsAdministration,
   LastSuperNeedsOverlap, ImplementsSpaces, StatusMovesAreExplained, ImplementsGovernance,
   DisabledIsFinal, PTL
=============================================================================

-------------------------------- MODULE Spaces --------------------------------
(***************************************************************************)
(* The life cycle of Spaces: the table spaces, and the handlers that       *)
(* create, patch, disable and restore a Space and that complete or fail    *)
(* its provisioning.  Each but the creation reads the row, decides by what *)
(* it read, and writes by identifier; a PATCH writes every column, so one  *)
(* that names no status writes the status it read.  Name, slug, type and   *)
(* metadata are payload and left out.                                      *)
(***************************************************************************)
EXTENDS Integers

CONSTANTS
  Space,
  FirstSpace,     \* the rows of spaces before the first request
  DefaultSpace,   \* defaultSpaceID, the Space registrations join
  SpaceCall,      \* the HTTP requests clients make, each once
  SpaceRequest    \* what each of them asks

(* validateSpaceStatusMutation *)
SpaceStatus == {"active", "provisioning", "failed", "suspended", "archived", "disabled"}
NoSpace == "absent"

SameStatus == "status not in the request"

SpaceKind == {"create", "patch", "disable", "restore", "activate", "fail"}

ASSUME SpacesAssumption ==
  /\ SpaceRequest \in [SpaceCall -> [kind : SpaceKind, space : Space,
                                     status : SpaceStatus \cup {SameStatus}]]
  /\ FirstSpace \in [Space -> SpaceStatus \cup {NoSpace}]
  /\ DefaultSpace \in Space

(* next: the status a call has decided to write; raced, for the properties only:
   another call has written the row since this one read it. *)
SpaceProgress == [stage : {"waiting", "write", "ok", "refused", "failed"},
                  next : SpaceStatus \cup {NoSpace}, raced : BOOLEAN]

VARIABLES
  space,      \* the status of each row of spaces
  spaceTask,  \* how far each call has come
  cleared     \* history: the Spaces provisioning or a registration has activated

spacesVars == <<space, spaceTask, cleared>>

SpacesTypeOK ==
  /\ space \in [Space -> SpaceStatus \cup {NoSpace}]
  /\ spaceTask \in [SpaceCall -> SpaceProgress]
  /\ cleared \subseteq Space

SpacesInit ==
  /\ space = FirstSpace
  /\ spaceTask = [c \in SpaceCall |-> [stage |-> "waiting", next |-> NoSpace, raced |-> FALSE]]
  /\ cleared = { s \in Space : FirstSpace[s] = "active" }

-----------------------------------------------------------------------------
SpaceOf(c) == SpaceRequest[c].space
SpaceAsks(c, kind) == SpaceRequest[c].kind = kind
SpaceAt(c, stage) == spaceTask[c].stage = stage

(* The status of Space s is written: by the call c, or by a registration. *)
Interrupt(s) ==
  [c \in SpaceCall |-> IF SpaceAt(c, "write") /\ SpaceOf(c) = s
                       THEN [spaceTask[c] EXCEPT !.raced = TRUE] ELSE spaceTask[c]]

(* A mutant of MayPatch: a PATCH may activate a Space. *)
MayPatchToActive(current, next) == current = "active" => next # "provisioning"

(* validateSpaceStatusMutation *)
MayPatch(current, next) ==
  /\ next = "active" => current = "active"
  /\ current = "active" => next # "provisioning"

(* What a handler that has read status current decides to write. *)
Decision(c, current) ==
  LET asked == SpaceRequest[c].status
      patched == IF asked = SameStatus THEN current ELSE asked
  IN CASE SpaceAsks(c, "patch") -> IF MayPatch(current, patched) THEN patched ELSE NoSpace
       [] SpaceAsks(c, "disable") -> "suspended"
       [] SpaceAsks(c, "restore") ->
            IF current \in {"suspended", "disabled"} THEN "active" ELSE NoSpace
       [] SpaceAsks(c, "activate") ->
            IF current \in {"provisioning", "failed"} THEN "active" ELSE NoSpace
       [] SpaceAsks(c, "fail") -> IF current = "provisioning" THEN "failed" ELSE NoSpace

(* loadSpace and the checks of the handlers. *)
ReadSpace(c) ==
  /\ ~SpaceAsks(c, "create") /\ SpaceAt(c, "waiting")
  /\ LET current == space[SpaceOf(c)]
         next == IF current = NoSpace THEN NoSpace ELSE Decision(c, current)
     IN spaceTask' = [spaceTask EXCEPT
          ![c].stage = IF next = NoSpace THEN "refused" ELSE "write",
          ![c].next = next]
  /\ UNCHANGED <<space, cleared>>

(* updateStatus, or the UPDATE of handleSpaceUpdate. *)
WriteSpace(c) ==
  /\ SpaceAt(c, "write")
  /\ LET s == SpaceOf(c)
     IN /\ space' = [space EXCEPT ![s] = spaceTask[c].next]
        /\ spaceTask' = [Interrupt(s) EXCEPT
             ![c] = [spaceTask[c] EXCEPT !.stage = "ok"]]
        /\ cleared' = IF SpaceAsks(c, "activate") THEN cleared \cup {s} ELSE cleared

(* handleSpaceCreate *)
CreateSpace(c) ==
  /\ SpaceAsks(c, "create") /\ SpaceAt(c, "waiting")
  /\ IF space[SpaceOf(c)] = NoSpace /\ SpaceRequest[c].status \in {SameStatus, "provisioning"}
     THEN /\ space' = [space EXCEPT ![SpaceOf(c)] = "provisioning"]
          /\ spaceTask' = [spaceTask EXCEPT ![c].stage = "ok"]
     ELSE /\ UNCHANGED space
          /\ spaceTask' = [spaceTask EXCEPT ![c].stage = "refused"]
  /\ UNCHANGED cleared

SpaceStatementFails(c) ==
  /\ SpaceAt(c, "write")
  /\ spaceTask' = [spaceTask EXCEPT ![c].stage = "failed"]
  /\ UNCHANGED <<space, cleared>>

(* ensureDefaultRegistrationSpace: the default Space, whatever its status. *)
EnsureDefaultSpace ==
  /\ space' = [space EXCEPT ![DefaultSpace] = "active"]
  /\ spaceTask' = Interrupt(DefaultSpace)
  /\ cleared' = cleared \cup {DefaultSpace}

SpaceStep(c) ==
  ReadSpace(c) \/ WriteSpace(c) \/ CreateSpace(c) \/ SpaceStatementFails(c)

SpacesNext == EnsureDefaultSpace \/ \E c \in SpaceCall : SpaceStep(c)

SpacesSpec == SpacesInit /\ [][SpacesNext]_spacesVars

-----------------------------------------------------------------------------
(* Properties.                                                             *)

(* The moves of a Space's status that the direct handlers are meant to make. *)
DirectMove(from, to) ==
  /\ from \in {"provisioning", "failed", "archived", NoSpace} => to # "active"
  /\ from = "active" => to # "provisioning"

(* A Space that is being provisioned, has failed or is archived does not become
   active, and an active one does not go back to provisioning, but by the call
   made for it or by a handler that wrote over a change it had not read. *)
StatusMovesAsAskedOrOverlaps ==
  [][\A s \in Space :
       \/ DirectMove(space[s], space'[s])
       \/ EnsureDefaultSpace
       \/ \E c \in SpaceCall : /\ spaceTask'[c].stage # spaceTask[c].stage
                               /\ \/ spaceTask[c].raced
                                  \/ /\ SpaceAsks(c, "activate")
                                     /\ space[s] \in {"provisioning", "failed"}
    ]_spacesVars

(* What openapi/plystra.v0.0.1.yaml says of provisioning: "It is the only direct
   Core management path that can move provisioning or failed Spaces to active". *)
OnlyProvisioningActivates == \A s \in Space : space[s] = "active" => s \in cleared
=============================================================================

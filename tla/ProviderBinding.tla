--------------------------- MODULE ProviderBinding ---------------------------
(***************************************************************************)
(* Capability provider bindings: the table capability_provider_bindings,   *)
(* the handlers that upsert, patch and disable a binding, the plugin       *)
(* lifecycle, and the in-process cache through which resolveCapability-    *)
(* Provider answers.                                                       *)
(*                                                                         *)
(* A Slot is a (space, capability, operation).  A row's identifier is made *)
(* of the slot it was created for, its home; a PATCH may move the row to   *)
(* another slot.  Handlers read a row, check, write by identifier and then *)
(* invalidate the cache; each of these is a step, and the steps of all     *)
(* handlers interleave.  Endpoint, identity and metadata are payload and   *)
(* left out, and so are the audit rows, which nothing here reads.          *)
(***************************************************************************)
EXTENDS Integers, FiniteSets

CONSTANTS
  Slot,          \* (space, capability, operation)
  Provider,      \* provider plugins
  Admin,         \* concurrently served administrators' requests
  Resolver,      \* concurrently served requests that resolve a provider
  Moves,         \* whether a PATCH may name another slot
  MaxEpoch       \* bound of the epochs

ASSUME ConstantsAssumption ==
  /\ Moves \in BOOLEAN
  /\ MaxEpoch \in Nat \ {0}
  /\ Admin \cap Resolver = {}

Status == {"active", "disabled"}

Row == [slot : Slot, provider : Provider, status : Status, epoch : Nat \ {0}]
NoRow == [status |-> "absent"]

(* What the resolver knows of a slot's binding, and what the cache holds. *)
Answer == [provider : Provider, epoch : Nat \ {0}]
NoAnswer == [epoch |-> 0]

Idle == [step |-> "idle"]

(* A column an update does not set. *)
KeepSlot == "slot unchanged"
KeepProvider == "provider unchanged"

InsertTask == [step : {"insert"}, slot : Slot, provider : Provider, status : Status]
UpdateTask == [step : {"update"}, home : Slot, before : Slot, slot : Slot \cup {KeepSlot},
               provider : Provider \cup {KeepProvider}, status : Status,
               seen : Nat \ {0}, epoch : Nat \ {0}]
InvalidateTask == [step : {"invalidate"}, slots : SUBSET Slot]
PluginTask == [step : {"invalidate plugin"}, provider : Provider]

(* What an administrator's request still has to do, with what it has read. *)
AdminTask == {Idle} \cup InsertTask \cup UpdateTask \cup InvalidateTask \cup PluginTask

ResolveTask == [step : {"check", "fill", "resolved"}, slot : Slot, answer : Answer]
ResolverTask == {Idle} \cup ResolveTask

VARIABLES
  binding,     \* the rows of capability_provider_bindings, by home
  enabled,     \* the plugins whose status is enabled
  cache,       \* capabilityProviderCache
  admin,       \* what each administrator's request is doing
  resolver,    \* what each resolving request is doing
  overtaken,   \* history: the resolvers whose binding was written since they read it
  suspect,     \* history: the slots whose entry an overtaken resolver filled
  lostUpdate   \* history: some update was written over one it had not read

vars == <<binding, enabled, cache, admin, resolver, overtaken, suspect, lostUpdate>>
history == <<overtaken, suspect, lostUpdate>>

Homes == { b \in Slot : binding[b] # NoRow }

(* The rows the unique index (space, capability, operation) would find. *)
BoundTo(s) == { b \in Homes : binding[b].slot = s }

Init ==
  /\ binding = [b \in Slot |-> NoRow]
  /\ enabled = Provider
  /\ cache = [s \in Slot |-> NoAnswer]
  /\ admin = [a \in Admin |-> Idle]
  /\ resolver = [r \in Resolver |-> Idle]
  /\ overtaken = {}
  /\ suspect = {}
  /\ lostUpdate = FALSE

-----------------------------------------------------------------------------
(* Administrators.                                                         *)

(* validateCapabilityProviderBindingMutation *)
ValidMutation(p) == p \in enabled

(* POST, the slot has a row: set everything but the slot. *)
UpsertRead(a, s, p, st) ==
  /\ admin[a] = Idle
  /\ ValidMutation(p)
  /\ \E b \in BoundTo(s) :
       admin' = [admin EXCEPT ![a] =
                   [step |-> "update", home |-> b, before |-> s, slot |-> KeepSlot,
                    provider |-> p, status |-> st,
                    seen |-> binding[b].epoch, epoch |-> binding[b].epoch + 1]]
  /\ UNCHANGED <<binding, enabled, cache, resolver, history>>

(* POST, the slot has no row. *)
UpsertAbsent(a, s, p, st) ==
  /\ admin[a] = Idle
  /\ ValidMutation(p)
  /\ BoundTo(s) = {}
  /\ admin' = [admin EXCEPT ![a] = [step |-> "insert", slot |-> s, provider |-> p,
                                    status |-> st]]
  /\ UNCHANGED <<binding, enabled, cache, resolver, history>>

(* The slots a PATCH of this row can name; none named means the row's own. *)
PatchSlots(row) == IF Moves THEN Slot ELSE {row.slot}

PatchRead(a, b, p, st) ==
  /\ admin[a] = Idle
  /\ b \in Homes
  /\ ValidMutation(p)
  /\ \E s \in PatchSlots(binding[b]) :
       admin' = [admin EXCEPT ![a] =
                   [step |-> "update", home |-> b, before |-> binding[b].slot, slot |-> s,
                    provider |-> p, status |-> st,
                    seen |-> binding[b].epoch, epoch |-> binding[b].epoch + 1]]
  /\ UNCHANGED <<binding, enabled, cache, resolver, history>>

(* A mutant of DisableRead: disabling keeps the epoch. *)
DisableReadKeepsEpoch(a, b) ==
  /\ admin[a] = Idle
  /\ b \in Homes
  /\ admin' = [admin EXCEPT ![a] =
                 [step |-> "update", home |-> b, before |-> binding[b].slot,
                  slot |-> KeepSlot, provider |-> KeepProvider, status |-> "disabled",
                  seen |-> binding[b].epoch, epoch |-> binding[b].epoch]]
  /\ UNCHANGED <<binding, enabled, cache, resolver, history>>

DisableRead(a, b) ==
  /\ admin[a] = Idle
  /\ b \in Homes
  /\ admin' = [admin EXCEPT ![a] =
                 [step |-> "update", home |-> b, before |-> binding[b].slot,
                  slot |-> KeepSlot, provider |-> KeepProvider, status |-> "disabled",
                  seen |-> binding[b].epoch, epoch |-> binding[b].epoch + 1]]
  /\ UNCHANGED <<binding, enabled, cache, resolver, history>>

UpdatedSlot(t) == IF t.slot = KeepSlot THEN binding[t.home].slot ELSE t.slot

(* A mutant of UpdatedRow: a column the request leaves out is written too. *)
UpdatedRowWithEveryColumn(t) ==
  [slot |-> UpdatedSlot(t), provider |-> t.provider, status |-> t.status,
   epoch |-> t.epoch]

UpdatedRow(t) ==
  [slot |-> UpdatedSlot(t),
   provider |-> IF t.provider = KeepProvider THEN binding[t.home].provider ELSE t.provider,
   status |-> t.status,
   epoch |-> t.epoch]

(* The resolvers that are about to answer from a row of these slots. *)
InFlight(S) ==
  { r \in Resolver : resolver[r].step \in {"check", "fill"} /\ resolver[r].slot \in S }

(* The insert: both the primary key and the unique index must be free. *)
InsertWrite(a) ==
  /\ admin[a].step = "insert"
  /\ admin[a].slot \notin Homes
  /\ BoundTo(admin[a].slot) = {}
  /\ binding' = [binding EXCEPT ![admin[a].slot] =
                   [slot |-> admin[a].slot, provider |-> admin[a].provider,
                    status |-> admin[a].status, epoch |-> 1]]
  /\ overtaken' = overtaken \cup InFlight({admin[a].slot})
  /\ admin' = [admin EXCEPT ![a] = [step |-> "invalidate", slots |-> {admin[a].slot}]]
  /\ UNCHANGED <<enabled, cache, resolver, suspect, lostUpdate>>

(* UpdateOneID(existing.ID): nothing says the row is as it was when read. *)
UpdateWrite(a) ==
  /\ admin[a].step = "update"
  /\ admin[a].epoch <= MaxEpoch
  /\ LET t == admin[a] IN
       /\ BoundTo(UpdatedSlot(t)) \subseteq {t.home}
       /\ binding' = [binding EXCEPT ![t.home] = UpdatedRow(t)]
       /\ overtaken' = overtaken \cup InFlight({binding[t.home].slot, UpdatedSlot(t)})
       /\ admin' = [admin EXCEPT ![a] = [step |-> "invalidate",
                                         slots |-> {t.before, UpdatedSlot(t)}]]
       /\ lostUpdate' = (lostUpdate \/ t.seen # binding[t.home].epoch)
  /\ UNCHANGED <<enabled, cache, resolver, suspect>>

(* The write is refused (409), or the request ends before it. *)
AdminGivesUp(a) ==
  /\ admin[a].step \in {"insert", "update"}
  /\ admin' = [admin EXCEPT ![a] = Idle]
  /\ UNCHANGED <<binding, enabled, cache, resolver, history>>

Without(S) == [s \in Slot |-> IF s \in S THEN NoAnswer ELSE cache[s]]

(* A mutant of InvalidatedSlots: invalidate only when the row changed slots. *)
InvalidatedOnMove(t) == IF Cardinality(t.slots) > 1 THEN t.slots ELSE {}

InvalidatedSlots(t) == t.slots

(* invalidateCapabilityProviderBindingCache *)
Invalidate(a) ==
  /\ admin[a].step = "invalidate"
  /\ cache' = Without(InvalidatedSlots(admin[a]))
  /\ admin' = [admin EXCEPT ![a] = Idle]
  /\ UNCHANGED <<binding, enabled, resolver, history>>

(* handlePluginLifecycle: enable, disable or uninstall. *)
PluginLifecycle(a, p) ==
  /\ admin[a] = Idle
  /\ enabled' \in {enabled \cup {p}, enabled \ {p}}
  /\ admin' = [admin EXCEPT ![a] = [step |-> "invalidate plugin", provider |-> p]]
  /\ UNCHANGED <<binding, cache, resolver, history>>

(* invalidateCapabilityProviderCacheForPlugin: the slots the plugin is bound
   to by now, or none when the query fails, which nobody is told. *)
PluginInvalidate(a) ==
  /\ admin[a].step = "invalidate plugin"
  /\ \E S \in {{}, { binding[b].slot : b \in { c \in Homes :
                       binding[c].provider = admin[a].provider } }} :
       cache' = Without(S)
  /\ admin' = [admin EXCEPT ![a] = Idle]
  /\ UNCHANGED <<binding, enabled, resolver, history>>

-----------------------------------------------------------------------------
(* resolveCapabilityProvider                                               *)

ResolveFromCache(r, s) ==
  /\ resolver[r] = Idle
  /\ cache[s] # NoAnswer
  /\ resolver' = [resolver EXCEPT ![r] = [step |-> "resolved", slot |-> s,
                                          answer |-> cache[s]]]
  /\ UNCHANGED <<binding, enabled, cache, admin, history>>

(* The active binding of the slot.  (None: not found, nothing changes.) *)
ResolveRead(r, s) ==
  /\ resolver[r] = Idle
  /\ cache[s] = NoAnswer
  /\ \E b \in BoundTo(s) :
       /\ binding[b].status = "active"
       /\ resolver' = [resolver EXCEPT ![r] =
                         [step |-> "check", slot |-> s,
                          answer |-> [provider |-> binding[b].provider,
                                      epoch |-> binding[b].epoch]]]
  /\ overtaken' = overtaken \ {r}
  /\ UNCHANGED <<binding, enabled, cache, admin, suspect, lostUpdate>>

(* The plugin must be enabled and offer the operation in the right mode. *)
ResolveCheck(r) ==
  /\ resolver[r].step = "check"
  /\ resolver[r].answer.provider \in enabled
  /\ resolver' = [resolver EXCEPT ![r].step = "fill"]
  /\ UNCHANGED <<binding, enabled, cache, admin, history>>

ResolveFill(r) ==
  /\ resolver[r].step = "fill"
  /\ cache' = [cache EXCEPT ![resolver[r].slot] = resolver[r].answer]
  /\ suspect' = IF r \in overtaken THEN suspect \cup {resolver[r].slot}
                                   ELSE suspect \ {resolver[r].slot}
  /\ resolver' = [resolver EXCEPT ![r].step = "resolved"]
  /\ UNCHANGED <<binding, enabled, admin, overtaken, lostUpdate>>

(* The caller has used the answer, or the request ended without one. *)
ResolveEnd(r) ==
  /\ resolver[r] # Idle
  /\ resolver' = [resolver EXCEPT ![r] = Idle]
  /\ UNCHANGED <<binding, enabled, cache, admin, history>>

-----------------------------------------------------------------------------
(* An entry's time to live passes: get no longer returns it, and drops it. *)
CacheExpire(s) ==
  /\ cache[s] # NoAnswer
  /\ cache' = Without({s})
  /\ UNCHANGED <<binding, enabled, admin, resolver, history>>

(* plystrad restarts: requests are gone and the cache is empty. *)
Restart ==
  /\ cache' = [s \in Slot |-> NoAnswer]
  /\ admin' = [a \in Admin |-> Idle]
  /\ resolver' = [r \in Resolver |-> Idle]
  /\ UNCHANGED <<binding, enabled, history>>

AdminRequest(a) ==
  \/ \E s \in Slot, p \in Provider, st \in Status :
       UpsertRead(a, s, p, st) \/ UpsertAbsent(a, s, p, st) \/ PatchRead(a, s, p, st)
  \/ \E b \in Slot : DisableRead(a, b)
  \/ \E p \in Provider : PluginLifecycle(a, p)

AdminStep(a) ==
  \/ InsertWrite(a) \/ UpdateWrite(a) \/ AdminGivesUp(a)
  \/ Invalidate(a) \/ PluginInvalidate(a)

ResolverStep(r) ==
  \/ \E s \in Slot : ResolveFromCache(r, s) \/ ResolveRead(r, s)
  \/ ResolveCheck(r) \/ ResolveFill(r) \/ ResolveEnd(r)

Next ==
  \/ \E a \in Admin : AdminRequest(a) \/ AdminStep(a)
  \/ \E r \in Resolver : ResolverStep(r)
  \/ \E s \in Slot : CacheExpire(s)
  \/ Restart

Spec == Init /\ [][Next]_vars

-----------------------------------------------------------------------------
(* Properties.                                                             *)

TypeOK ==
  /\ binding \in [Slot -> Row \cup {NoRow}]
  /\ enabled \subseteq Provider
  /\ cache \in [Slot -> Answer \cup {NoAnswer}]
  /\ admin \in [Admin -> AdminTask]
  /\ resolver \in [Resolver -> ResolverTask]
  /\ overtaken \subseteq Resolver
  /\ suspect \subseteq Slot
  /\ lostUpdate \in BOOLEAN

(* The slots some administrator's request is still to invalidate. *)
Invalidating ==
  UNION { admin[a].slots : a \in { b \in Admin : admin[b].step = "invalidate" } }

Current(s, answer) ==
  \E b \in BoundTo(s) : /\ binding[b].status = "active"
                        /\ binding[b].provider = answer.provider
                        /\ binding[b].epoch = answer.epoch

(* Invalidation is complete: an entry that contradicts the table is about to be
   invalidated, or was filled by a resolver that read before the write and
   filled after the invalidation. *)
CacheFollowsBindings ==
  \A s \in Slot : cache[s] # NoAnswer /\ ~Current(s, cache[s])
                    => s \in Invalidating \cup suspect

(* The answers that are around: cached, or in the hands of a request. *)
Answers(s) ==
       ({cache[s]} \ {NoAnswer})
  \cup { resolver[r].answer : r \in { q \in Resolver :
           resolver[q].step # "idle" /\ resolver[q].slot = s } }

(* An answer, however stale, gives itself away: it carries a lower epoch than
   the binding, or is what the binding says.  Introspection relies on it when
   it compares the epoch of a grant with the binding's, and the interface
   promises it: "Rebinding increments binding_epoch so callers re-request
   grants after provider changes". *)
StaleIsDetectable ==
  \A s \in Slot : \A x \in Answers(s) : \A b \in BoundTo(s) :
    /\ x.epoch <= binding[b].epoch
    /\ x.epoch = binding[b].epoch => Current(s, x)

(* The same, for as long as no administrator's update is lost to another's. *)
StaleIsDetectableIfSerial == lostUpdate \/ StaleIsDetectable

(* A slot without a row can be given one: POST "binds a Space capability
   operation to an enabled provider plugin". *)
UnboundSlotIsBindable ==
  \A s \in Slot : BoundTo(s) = {} => s \notin Homes
=============================================================================

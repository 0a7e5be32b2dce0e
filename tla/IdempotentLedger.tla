-------------------------- MODULE IdempotentLedger --------------------------
(***************************************************************************)
(* What a ledger keyed by an idempotency key promises, whatever the table, *)
(* the handlers and the background jobs behind it look like: a slot (the   *)
(* caller together with its idempotency key) is opened at most once and    *)
(* for one payload only, an entry is never withdrawn, and a closed entry   *)
(* is never reopened.                                                      *)
(*                                                                         *)
(* ActionExecution and CapabilityGrant implement this specification; their *)
(* proof modules and their runs give the mapping.                          *)
(***************************************************************************)

CONSTANTS
  Slot,      \* callers together with their idempotency keys
  Payload    \* what an entry was opened for

VARIABLES
  opened,    \* the entries: pairs of a slot and the payload it stands for
  closed     \* the entries whose outcome is known

ledgerVars == <<opened, closed>>

Entry == Slot \X Payload

Init ==
  /\ opened = {}
  /\ closed = {}

(* A new entry takes a slot nobody has taken. *)
Open(s, p) ==
  /\ \A e \in opened : e[1] # s
  /\ opened' = opened \cup {<<s, p>>}
  /\ UNCHANGED closed

(* The outcome of an open entry becomes known. *)
Close(e) ==
  /\ e \in opened
  /\ closed' = closed \cup {e}
  /\ UNCHANGED opened

Next ==
  \/ \E s \in Slot, p \in Payload : Open(s, p)
  \/ \E e \in Entry : Close(e)

Spec == Init /\ [][Next]_ledgerVars

(* A slot stands for one payload, and only entries are closed: what a
   caller may conclude from an answer that names its idempotency key. *)
OnePayloadPerSlot ==
  /\ opened \subseteq Entry
  /\ closed \subseteq opened
  /\ \A e, f \in opened : e[1] = f[1] => e = f

(* A slot that is open stays open for the same payload, and a closed entry
   stays closed: what lets the caller of createActionExecution or of
   handleIssueCapabilityGrant retry with its key and act on the answer. *)
EntriesStand ==
  [][opened \subseteq opened' /\ closed \subseteq closed']_ledgerVars
=============================================================================

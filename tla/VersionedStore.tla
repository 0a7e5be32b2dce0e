---------------------------- MODULE VersionedStore ----------------------------
(***************************************************************************)
(* What the generic App Data store promises: a record is the newest        *)
(* version of its history, histories only grow, and a call, a batch of     *)
(* operations included, adds one version for each of its operations, all   *)
(* of them at once or none.                                                *)
(***************************************************************************)
EXTENDS Naturals, Sequences, FiniteSets

CONSTANTS
  Record,   \* identifiers of records
  Call,     \* sequences of operations: [kind |-> ..., record |-> ..., ...]
  Absent    \* what current says of a record nobody has created

VARIABLES
  history,  \* the versions of each record, oldest first: [kind, shape]
  current   \* the record as readers see it

storeVars == <<history, current>>

Init ==
  /\ history = [r \in Record |-> <<>>]
  /\ current = [r \in Record |-> Absent]

(* How many of the first n operations of a call are on record r. *)
Asked(call, n, r) == Cardinality({k \in 1 .. n : call[k].record = r})

(* One more version of r for each operation the call has for it, in the order
   of the operations. *)
Grows(call, r) ==
  LET old == Len(history[r])
  IN /\ Len(history'[r]) = old + Asked(call, Len(call), r)
     /\ \A n \in 1 .. old : history'[r][n] = history[r][n]
     /\ \A k \in DOMAIN call : call[k].record = r =>
          history'[r][old + Asked(call, k, r)].kind = call[k].kind

(* Versions start with the creation, and only one version is a creation. *)
StartsWithCreate(r) ==
  \A n \in 1 .. Len(history'[r]) : history'[r][n].kind = "create" <=> n = 1

ShowsNewest(r) ==
  IF history'[r] = <<>> THEN current'[r] = Absent
  ELSE current'[r] = history'[r][Len(history'[r])].shape

Apply(call) ==
  \A r \in Record : Grows(call, r) /\ StartsWithCreate(r) /\ ShowsNewest(r)

Next == \E call \in Call : Apply(call)

Spec == Init /\ [][Next]_storeVars
=============================================================================

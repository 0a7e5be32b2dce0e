-------------------------- MODULE MCCapabilityGrant --------------------------
(* Small instances of CapabilityGrant for TLC. *)
EXTENDS CapabilityGrant, TLC

(* Handlers, row identifiers, plugins and events are interchangeable. *)
Symmetry == Permutations(Handler) \cup Permutations(Id) \cup Permutations(Plugin)
            \cup Permutations(Event)
=============================================================================

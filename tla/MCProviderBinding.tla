--------------------------- MODULE MCProviderBinding ---------------------------
(* Small instances of ProviderBinding for TLC. *)
EXTENDS ProviderBinding, TLC

(* Requests, slots and plugins are interchangeable among themselves. *)
Symmetry == Permutations(Admin) \cup Permutations(Resolver)
            \cup Permutations(Provider) \cup Permutations(Slot)
=============================================================================

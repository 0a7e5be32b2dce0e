-------------------------- MODULE MCActionExecution --------------------------
(* Small instances of ActionExecution for TLC. *)
EXTENDS ActionExecution, TLC

(* Handlers, row identifiers, executors and providers are interchangeable. *)
Symmetry == Permutations(Handler) \cup Permutations(Id) \cup Permutations(Executor)
            \cup Permutations(Provider)
=============================================================================

-------------------------- MODULE MCSavedExecution --------------------------
(* Small instances of SavedExecution for TLC. *)
EXTENDS SavedExecution, TLC

Names == Permutations(Vmms) \cup Permutations(Arts) \cup Permutations(Ops)

\* Only SpentOperationsRest and FrozenIsGuarded speak of loose starts: these are
\* followed while nobody was killed and the guest has done no work.
Orderly == loose => faults = 0 /\ disk = 0 /\ known = 0
=============================================================================

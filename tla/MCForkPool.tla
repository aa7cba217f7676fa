----------------------------- MODULE MCForkPool -----------------------------
(* Small instances of ForkPool for TLC. *)
EXTENDS ForkPool

CONSTANTS g1, g2, gpu0

\* Both goldens use the one GPU of the host.
OneGpu == [g \in Goldens |-> gpu0]
\* A host without GPU.
NoGpu == [g \in Goldens |-> None]

\* Names are random identifiers: which one is drawn does not matter.
Names == Permutations(Machines) \cup Permutations(Leases) \cup Permutations(Keys)
NamesAndPools == Names \cup Permutations(Pools)

\* Bound of the two-pool run: it does not go past a heartbeat, a failed fill or a
\* pool deletion, which the one-pool runs explore.
QuietHost == beat = {} /\ backoff = {} /\ \A p \in Pools : pools[p] # None => ~pools[p].deleting
=============================================================================

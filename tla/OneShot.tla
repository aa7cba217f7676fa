------------------------------- MODULE OneShot -------------------------------
(***************************************************************************)
(* What the fork pools promise to their clients, without tables, pools,    *)
(* controller or restarts: a worker is stocked, given to one lease at most *)
(* and then spent; a lease is granted one worker, may open once, and ends  *)
(* once, spending its worker in the same step.                             *)
(***************************************************************************)
CONSTANTS Workers, Leases, Nobody

VARIABLES
    worker,   \* "absent", "spare", "given" or "spent"
    lease,    \* "none", "pending", "open" or "ended"
    holds     \* the worker a lease was granted, Nobody before that

promised == <<worker, lease, holds>>

Init ==
    /\ worker = [w \in Workers |-> "absent"]
    /\ lease = [l \in Leases |-> "none"]
    /\ holds = [l \in Leases |-> Nobody]

LiveNow == {l \in Leases : lease[l] \in {"pending", "open"}}
Spare == {w \in Workers : worker[w] = "spare"}

\* A worker is stocked under a name that no lease remembers.
Stock(w) ==
    /\ worker[w] = "absent"
    /\ \A l \in Leases : holds[l] # w
    /\ worker' = [worker EXCEPT ![w] = "spare"]
    /\ UNCHANGED <<lease, holds>>

\* A lease gets a spare worker; unsuitable spares may be discarded on the way.
Grant(l, w, discarded) ==
    /\ lease[l] = "none" /\ worker[w] = "spare" /\ w \notin discarded
    /\ lease' = [lease EXCEPT ![l] = "pending"]
    /\ holds' = [holds EXCEPT ![l] = w]
    /\ worker' = [v \in Workers |-> IF v = w THEN "given"
                                    ELSE IF v \in discarded THEN "spent" ELSE worker[v]]

Open(l) ==
    /\ lease[l] = "pending"
    /\ lease' = [lease EXCEPT ![l] = "open"]
    /\ UNCHANGED <<worker, holds>>

\* Leases end with their workers, and spare workers are discarded.
End(ending, discarded) ==
    /\ lease' = [l \in Leases |-> IF l \in ending THEN "ended" ELSE lease[l]]
    /\ worker' = [w \in Workers |-> IF w \in discarded \cup {holds[l] : l \in ending}
                                    THEN "spent" ELSE worker[w]]
    /\ UNCHANGED holds

Remove(w) ==
    /\ worker[w] = "spent"
    /\ worker' = [worker EXCEPT ![w] = "absent"]
    /\ UNCHANGED <<lease, holds>>

\* Ended leases are forgotten.
Forget(forgotten) ==
    /\ \A l \in forgotten : lease[l] = "ended"
    /\ lease' = [l \in Leases |-> IF l \in forgotten THEN "none" ELSE lease[l]]
    /\ holds' = [l \in Leases |-> IF l \in forgotten THEN Nobody ELSE holds[l]]
    /\ UNCHANGED worker

Next ==
    \/ \E w \in Workers : Stock(w) \/ Remove(w)
    \/ \E l \in Leases, w \in Workers, discarded \in SUBSET Spare : Grant(l, w, discarded)
    \/ \E l \in Leases : Open(l)
    \/ \E ending \in SUBSET LiveNow, discarded \in SUBSET Spare : End(ending, discarded)
    \/ \E forgotten \in SUBSET Leases : Forget(forgotten)

Spec == Init /\ [][Next]_promised
=============================================================================

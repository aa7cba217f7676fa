---------------------------- MODULE MCSupervisor ----------------------------
(* Small instances of Supervisor for TLC.                                   *)
EXTENDS Supervisor, TLC

CONSTANTS r1, r2, v1, v2
\* Requests and process identities are interchangeable.
Names == Permutations(Reqs) \cup Permutations(Vmms)
=============================================================================

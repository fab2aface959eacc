---------------------------- MODULE MCClientCall ----------------------------
(* Small instances of ClientCall for TLC.                                   *)
EXTENDS ClientCall, TLC

CONSTANTS p1, p2, e1, e2

MCCallers == {p1, p2}
MCEndpoints == {e1, e2}

\* The FailModes the callers' Clients may have in each run.
AllFailtry == [p \in MCCallers |-> {"Failtry"}]
AllFailfast == [p \in MCCallers |-> {"Failfast"}]
AllForking == [p \in MCCallers |-> {"Forking"}]
RetryOrFanOut == (p1 :> {"Failover", "Broadcast"}) @@ (p2 :> {"Failtry", "Forking"})

CallerEndpointSymmetry == Permutations(MCCallers) \cup Permutations(MCEndpoints)
EndpointSymmetry == Permutations(MCEndpoints)
=============================================================================

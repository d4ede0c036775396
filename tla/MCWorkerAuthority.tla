-------------------------- MODULE MCWorkerAuthority --------------------------
EXTENDS WorkerAuthority, TLC

CONSTANTS early, late

\* One attestation expires before the end of the clock, the other with it.
Symmetric == Permutations(Callers) \cup Permutations(OperationIds)
ExpiryOf == [a \in Attestations |-> IF a = early THEN 1 ELSE 2]
=============================================================================

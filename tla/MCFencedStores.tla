--------------------------- MODULE MCFencedStores ---------------------------
EXTENDS FencedStores, TLC

\* A launch is claimed, left unknown and reconciled; an ownership proof is
\* claimed and settled.
VersionBound == [s \in Stores |-> IF s = "launch" THEN 3 ELSE 2]

\* Clients and operations are interchangeable.
Symmetric == Permutations(Clients) \cup Permutations(Operations)
=============================================================================

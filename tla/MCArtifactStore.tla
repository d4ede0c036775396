--------------------------- MODULE MCArtifactStore ---------------------------
EXTENDS ArtifactStore, TLC

\* Executions, artifact ids and contents are interchangeable.
Symmetric ==
  Permutations(Executions) \cup Permutations(ArtifactIds) \cup Permutations(Contents)
=============================================================================

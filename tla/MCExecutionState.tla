-------------------------- MODULE MCExecutionState --------------------------
EXTENDS ExecutionState, TLC

\* Keys and tokens are interchangeable, and so are two interventions.
Symmetric == Permutations(Keys) \cup Permutations(Tokens) \cup Permutations(Interventions)
=============================================================================

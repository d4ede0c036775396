--------------------------- MODULE MCProviderSaga ---------------------------
EXTENDS ProviderSaga, TLC

\* Operation ids are interchangeable.
Symmetric == Permutations(Operations)
=============================================================================

--------------------------- MODULE MCPrivateStores ---------------------------
EXTENDS PrivateStores, TLC

Symmetric == Permutations(Callers) \cup Permutations(Events)
=============================================================================

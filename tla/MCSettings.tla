----------------------------- MODULE MCSettings -----------------------------
EXTENDS Settings, TLC

Browsers == Permutations(Page)
=============================================================================

-------------------------- MODULE MCCallbackChain --------------------------
EXTENDS CallbackChain, TLC

Symmetry == Permutations(Callbacks)
=============================================================================

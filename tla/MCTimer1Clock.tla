--------------------------- MODULE MCTimer1Clock ---------------------------
EXTENDS Timer1Clock, TLC

MCDelays == {<<1, 0>>, <<2, 1>>}

\* the largest number of seconds a uint16_t holds, and a millisecond
LongDelays == {<<SecMod - 1, 1>>}

Symmetry == Permutations(Callbacks)
=============================================================================

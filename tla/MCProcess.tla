----------------------------- MODULE MCProcess -----------------------------
EXTENDS Process, TLC
Symm == Permutations(Proc)
=============================================================================

------------------------------ MODULE MCEtimer ------------------------------
EXTENDS Etimer, TLC
Symm == Permutations(Timer) \cup Permutations(Client)
=============================================================================

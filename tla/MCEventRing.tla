---------------------------- MODULE MCEventRing ----------------------------
(* A ring of four entries over a counter type of seven values: the         *)
(* smallest type the ring's arithmetic tolerates.                          *)
EXTENDS EventRing
=============================================================================

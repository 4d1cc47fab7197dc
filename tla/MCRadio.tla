------------------------------- MODULE MCRadio -------------------------------
(* The sizes of the code, scaled down: a frame overfills the FIFO, the     *)
(* longest is read and written in several chunks, the shortest in one.     *)
EXTENDS Radio
=============================================================================

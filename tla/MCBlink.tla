------------------------------- MODULE MCBlink -------------------------------
(* blink_process beside one other client with a timer of its own; a phase  *)
(* of two ticks, of a clock that wraps after six.                          *)
EXTENDS Blink
=============================================================================

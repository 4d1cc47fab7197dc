------------------------------- MODULE Blinker -------------------------------
(***************************************************************************)
(* What blink_process promises: the LED changes again and again, each time *)
(* CLOCK_SECOND ticks or more after the time before.                       *)
(***************************************************************************)
EXTENDS Integers

CONSTANT SECOND        \* CLOCK_SECOND

VARIABLES led,         \* LED_POW is lit
          since        \* the ticks since it changed, counted up to SECOND

Init == led = FALSE /\ since = 0

Tick == since' = (IF since < SECOND THEN since + 1 ELSE since) /\ UNCHANGED led

Change == since = SECOND /\ led' = ~ led /\ since' = 0

Spec == Init /\ [][Tick \/ Change]_<<led, since>>
=============================================================================

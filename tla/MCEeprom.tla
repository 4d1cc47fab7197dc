----------------------------- MODULE MCEeprom -----------------------------
(* One or two chips of three pages each, so that a call may reach into     *)
(* three pages and into the second chip.                                   *)
EXTENDS Eeprom
=============================================================================

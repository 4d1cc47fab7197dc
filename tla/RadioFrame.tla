----------------------------- MODULE RadioFrame -----------------------------
(***************************************************************************)
(* What sending and receiving of BSP/SI4438 share: the sizes of a frame    *)
(* and of the Si446x chip's FIFOs in bytes, the chip's pending interrupts  *)
(* and gRadio_CheckReceived_VariablePacket, which reads and clears them.   *)
(* The program is in Si4438_SendFrame, or it calls Si4438_ReceiveFrame     *)
(* again and again; the chip and the interrupts act between its steps.     *)
(***************************************************************************)
EXTENDS Integers, Sequences

CONSTANTS PhrLen,        \* the frame head: 4
          CrcLen,        \* the checksum: 2
          Fifo,          \* 64
          MaxPayload,    \* aMaxPHYPayloadSize
          Length         \* the payload lengths that are sent, here and elsewhere

ASSUME FrameAssumption ==
  /\ {PhrLen, CrcLen, Fifo, MaxPayload} \subseteq Nat \ {0}
  /\ Length \subseteq 1 .. MaxPayload

VARIABLES mode,          \* "send" in Si4438_SendFrame, else "receive"
          step,          \* "look" at the interrupt flag; "clear" the interrupts
                         \*   read; "act" on them; "reset" and "start": in
                         \*   Receive_init; "error": of the checksum
          RF_int_flag,   \* set by EXTI2_IRQHandler, at a falling edge of nIRQ
          ph_pend,       \* the interrupts that were read
          pend           \* the interrupts pending in the chip; nIRQ is low if any

frameVars == <<mode, step, RF_int_flag, ph_pend, pend>>

Total(n) == PhrLen + n + CrcLen

FrameInit == /\ mode = "receive" /\ step = "look"
             /\ RF_int_flag = FALSE /\ ph_pend = {} /\ pend = {}

(* The flag is cleared; if nIRQ is low, the pending interrupts are read ... *)
Check == /\ step = "look" /\ RF_int_flag
         /\ RF_int_flag' = FALSE
         /\ ph_pend' = pend
         /\ step' = IF pend = {} THEN "look" ELSE "clear"
         /\ UNCHANGED <<mode, pend>>

(* ... and then all are cleared, those raised in between too.              *)
Clear == /\ step = "clear"
         /\ pend' = {}
         /\ step' = "act"
         /\ UNCHANGED <<mode, RF_int_flag, ph_pend>>

(* The program has acted on the interrupts.                                *)
Acted == step' = "look" /\ ph_pend' = {}

(* The chip raises interrupts.                                             *)
Raise(events) == /\ pend' = pend \cup events
                 /\ RF_int_flag' = (RF_int_flag \/ (pend = {} /\ events # {}))
                 /\ UNCHANGED <<mode, step, ph_pend>>
=============================================================================

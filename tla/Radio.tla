-------------------------------- MODULE Radio --------------------------------
(***************************************************************************)
(* The radio of BSP/SI4438 as the main program uses it: it calls           *)
(* Si4438_ReceiveFrame all the time, and Si4438_SendFrame in between.      *)
(***************************************************************************)
EXTENDS RadioSend, RadioReceive

vars == <<frameVars, sendVars, receiveVars>>

Init == FrameInit /\ SendInit /\ ReceiveInit

(* Sending ends any reception, which begins anew afterwards; what is reset *)
(* then is not looked at in between, and reset here.                       *)
Send == (\E n \in Length : StartSend(n)) /\ wireless_phy_init /\ whole' = "no"

Sending == (Feed \/ Ignore \/ SendDone \/ SendTimeout) /\ UNCHANGED receiveVars

Checking == (Check \/ Clear) /\ UNCHANGED <<sendVars, receiveVars>>
Receiving == ReceiveStep /\ UNCHANGED sendVars

(* The chip and the air.                                                   *)
Transmit == (TransmitByte \/ Underflow) /\ UNCHANGED receiveVars
Hear == ((\E n \in Length : Sync(n)) \/ BreakOff) /\ UNCHANGED sendVars
Incoming == Arrive /\ UNCHANGED sendVars

Next == Send \/ Sending \/ Checking \/ Receiving \/ Transmit \/ Hear \/ Incoming

(* The program runs on, and so does the chip once a frame has begun.       *)
Spec == /\ Init /\ [][Next]_vars
        /\ WF_vars(Checking) /\ WF_vars(Sending) /\ WF_vars(Receiving)
        /\ WF_vars(Transmit) /\ WF_vars(Incoming)

-----------------------------------------------------------------------------
Byte == {[n |-> m, i |-> j] : m \in Length, j \in 1 .. Total(MaxPayload)} \cup {Bad}

TypeOK ==
  /\ mode \in {"receive", "send"} /\ step \in {"look", "clear", "act", "reset", "start", "error"}
  /\ RF_int_flag \in BOOLEAN
  /\ LET events == IF mode = "send" THEN {"EMPTY", "SENT"} ELSE {"FULL", "RX"}
     IN  ph_pend \subseteq events /\ pend \subseteq events
  /\ length \in Length \cup {0} /\ remainder \in 0 .. MaxPayload
  /\ sfifo \in Seq(1 .. Total(MaxPayload)) /\ Len(sfifo) <= Fifo
  /\ sending \in BOOLEAN /\ air \in Seq(1 .. Total(MaxPayload))
  /\ RF_receive_flag \in 0 .. 3 /\ timer_out_flag \in BOOLEAN
  /\ payload \in Length \cup {0} /\ pos \in 0 .. BufMax - 1 /\ crc \in BOOLEAN
  /\ rfifo \in Seq(Byte) /\ Len(rfifo) <= Fifo
  /\ coming \in 0 .. Total(MaxPayload) /\ from \in Length \cup {0}
  /\ whole \in {"no", "coming", "in"}
=============================================================================

----------------------------- MODULE RadioReceive -----------------------------
(***************************************************************************)
(* Si4438_ReceiveFrame of BSP/SI4438/wireless_phy.c, which the main        *)
(* program calls again and again, and the receiving side of the chip, with *)
(* the frames other radios send.  Bytes are read in chunks while the frame *)
(* is still coming in.                                                     *)
(*                                                                         *)
(* A byte off the air is [n, i], the i-th of a frame with a payload of n   *)
(* bytes, or Bad.  The head check and the checksum are taken to notice     *)
(* every byte that is not the one expected.                                *)
(***************************************************************************)
EXTENDS RadioFrame

CONSTANTS RxLevel,       \* PKT_RX_THRESHOLD: bytes that raise "almost full"
          RxFirst,       \* what is read with the head at the first such event: 20
          RxChunk,       \* RADIO_RX_ALMOST_FULL_THRESHOLD: at the later ones
          BufMax         \* 254: the bytes the caller's buffer takes

ASSUME ReceiveAssumption ==
  /\ {RxLevel, RxFirst, RxChunk, BufMax} \subseteq Nat \ {0}
  /\ PhrLen + RxFirst <= RxLevel /\ RxChunk <= RxLevel /\ RxLevel < Fifo
  /\ MaxPayload + CrcLen <= BufMax

VARIABLES RF_receive_flag,  \* 0 idle, 1 sync seen, 2 checksum error, 3 reading
          timer_out_flag,
          payload,       \* the payload length that ppdu.FrameLength says; 0: no head
          pos,           \* pPositionInPayload - buf
          crc,           \* crc16_result: are all bytes read so far those of the frame
          rfifo,         \* the receive FIFO
          coming,        \* the bytes the chip still expects of a frame; 0: it
                         \*   looks for the sync word
          from,          \* the payload length of the frame on the air; 0: noise
          whole          \* history: a frame that began on an idle receiver is
                         \*   "coming", or all of it is "in", or neither: "no"

receiveVars == <<RF_receive_flag, timer_out_flag, payload, pos, crc, rfifo, coming, from,
                 whole>>

Bad == [n |-> 0, i |-> 0]

ReceiveInit == /\ RF_receive_flag = 0 /\ timer_out_flag = FALSE
               /\ payload = 0 /\ pos = 0 /\ crc = TRUE
               /\ rfifo = << >> /\ coming = 0 /\ from = 0 /\ whole = "no"

-----------------------------------------------------------------------------
(* vRadio_StartRX: interrupts cleared, FIFO reset, the chip looks for a    *)
(* sync word.                                                              *)
StartRX == pend' = {} /\ rfifo' = << >> /\ coming' = 0 /\ from' = 0

(* wireless_phy_init: the chip is set up anew, then Receive_init.  Sync    *)
(* words are not taken up before its end, since RF_status is RF_IDLE_FLAG. *)
wireless_phy_init == /\ RF_receive_flag' = 0 /\ timer_out_flag' = FALSE
                     /\ payload' = 0 /\ pos' = 0 /\ crc' = TRUE
                     /\ StartRX

(* Receive_init called while the chip receives: RF_receive_flag is cleared *)
(* first; ok says whether the checksum, if there was one, was right.       *)
Receive_init(ok) == /\ RF_receive_flag' = 0
                    /\ payload' = 0 /\ pos' = 0 /\ crc' = ok
                    /\ step' = "reset"
                    /\ UNCHANGED <<pend, timer_out_flag, rfifo, coming, from>>

(* ... then timer_out_flag, also when a sync word came in between that has *)
(* just set both; and then reception begins anew.                          *)
StopTimer == /\ mode = "receive" /\ step = "reset" /\ step' = "start"
             /\ timer_out_flag' = FALSE
             /\ UNCHANGED <<mode, RF_int_flag, ph_pend, pend, RF_receive_flag, payload, pos,
                            crc, rfifo, coming, from, whole>>

Started == /\ mode = "receive" /\ step = "start"
           /\ step' = (IF crc THEN "look" ELSE "error") /\ crc' = TRUE
           /\ StartRX
           /\ UNCHANGED <<mode, RF_int_flag, ph_pend, RF_receive_flag, timer_out_flag, payload,
                          pos, whole>>

(* The k bytes after the first h of the FIFO are those of a frame with n   *)
(* payload bytes, from byte i on.  What the FIFO does not hold is garbage. *)
Right(h, k, n, i) ==
  h + k <= Len(rfifo) /\ \A j \in 1 .. k : rfifo[h + j] = [n |-> n, i |-> i + j - 1]

Complete(n, end) == n + CrcLen <= end \/ end >= BufMax

(* k bytes are read to position p of the buffer, if they fit, those after  *)
(* the first h of the FIFO; ok is the checksum before them.  If that       *)
(* completes a frame with n payload bytes, the checksum decides.           *)
Read(n, h, ok, p, k) ==
  LET fits == p + k <= BufMax
      good == ok /\ (fits => Right(h, k, n, PhrLen + p + 1))
      handed == good /\ p + k = n + CrcLen
  IN IF Complete(n, p + k)
     THEN /\ Receive_init(handed)
          /\ whole' = IF handed THEN "no" ELSE whole
     ELSE /\ step' = "look"
          /\ RF_receive_flag' = 3 /\ timer_out_flag' = TRUE
          /\ payload' = n /\ pos' = p + k /\ crc' = good
          /\ rfifo' = SubSeq(rfifo, (IF fits THEN h + k ELSE h) + 1, Len(rfifo))
          /\ UNCHANGED <<pend, coming, from, whole>>

Reading == mode = "receive" /\ step = "act" /\ ph_pend' = {} /\ UNCHANGED <<mode, RF_int_flag>>

(* After the sync word: the head, and with it what the event lets expect.  *)
ReadFrameHead ==
  /\ Reading /\ RF_receive_flag = 1
  /\ IF rfifo # << >> /\ Right(0, PhrLen, rfifo[1].n, 1)
     THEN Read(rfifo[1].n, PhrLen, TRUE, 0,
               IF "RX" \in ph_pend THEN Len(rfifo) - PhrLen ELSE RxFirst)
     ELSE Receive_init(TRUE) /\ UNCHANGED whole

ReadMore ==
  /\ Reading /\ RF_receive_flag = 3
  /\ Read(payload, 0, crc, pos, IF "RX" \in ph_pend THEN Len(rfifo) ELSE RxChunk)

(* An event without a sync word: wireless_phy_init, then Receive_init.     *)
ReadUnsynced ==
  /\ Reading /\ RF_receive_flag \in {0, 2}
  /\ wireless_phy_init /\ step' = "reset" /\ UNCHANGED whole

(* A wrong checksum: once reception has begun anew, the flag is set to 2;  *)
(* a sync word that was heard in between is forgotten.                     *)
CrcError == /\ step = "error"
            /\ step' = "look"
            /\ RF_receive_flag' = 2
            /\ UNCHANGED <<mode, RF_int_flag, ph_pend, pend, timer_out_flag, payload, pos,
                           crc, rfifo, coming, from, whole>>

TimedOut == mode = "receive" /\ step = "look" /\ ~ RF_int_flag /\ timer_out_flag

(* Mutant of Timeout: what the FIFO still holds is not looked at.          *)
TimeoutBlind ==
  /\ TimedOut /\ wireless_phy_init /\ UNCHANGED step
  /\ whole' = (IF coming > 0 THEN "no" ELSE whole)
  /\ UNCHANGED <<mode, RF_int_flag, ph_pend>>

(* Mutant of Timeout: a frame that is not complete is waited for further.  *)
TimeoutPatient ==
  /\ TimedOut
  /\ LET k == Len(rfifo) IN
     /\ RF_receive_flag = 3 /\ pos + k <= BufMax /\ Complete(payload, pos + k)
     /\ Read(payload, 0, crc, pos, k)
  /\ UNCHANGED <<mode, RF_int_flag, ph_pend>>

(* No event for too long: what the FIFO holds may complete the frame, its  *)
(* last event having been lost; if not, wireless_phy_init.                 *)
Timeout ==
  /\ TimedOut
  /\ LET k == Len(rfifo) IN
     IF RF_receive_flag = 3 /\ pos + k <= BufMax /\ Complete(payload, pos + k)
     THEN Read(payload, 0, crc, pos, k)
     ELSE /\ wireless_phy_init /\ UNCHANGED step
          /\ whole' = IF coming > 0 THEN "no" ELSE whole
  /\ UNCHANGED <<mode, RF_int_flag, ph_pend>>

ReceiveStep == \/ ReadFrameHead \/ ReadMore \/ ReadUnsynced \/ StopTimer \/ Started
               \/ CrcError \/ Timeout

-----------------------------------------------------------------------------
(* The chip takes up the sync word of a frame with n payload bytes, and    *)
(* EXTI9_5_IRQHandler calls sync_word_int unless a frame is being read.    *)
(* That sets rx_flag: the event that the program has just put there may be *)
(* lost by it.                                                             *)
Sync(n) ==
  /\ mode = "receive" /\ coming = 0
  /\ coming' = Total(n) /\ from' = n
  /\ IF RF_receive_flag \in {0, 2}
     THEN /\ RF_receive_flag' = 1 /\ timer_out_flag' = TRUE
          /\ \/ UNCHANGED <<step, ph_pend>>
             \/ step = "act" /\ Acted
     ELSE UNCHANGED <<RF_receive_flag, timer_out_flag, step, ph_pend>>
  /\ whole' = IF RF_receive_flag \in {0, 2} /\ rfifo = << >> /\ pend = {} /\ step = "look"
              THEN "coming" ELSE "no"
  /\ UNCHANGED <<mode, RF_int_flag, pend, payload, pos, crc, rfifo>>

(* A byte comes in; it is lost if the FIFO is full.                        *)
Arrive ==
  /\ coming > 0
  /\ coming' = coming - 1
  /\ LET b == IF from = 0 THEN Bad ELSE [n |-> from, i |-> Total(from) - coming + 1]
     IN  rfifo' = IF Len(rfifo) < Fifo THEN Append(rfifo, b) ELSE rfifo
  /\ whole' = IF Len(rfifo) = Fifo THEN "no"
              ELSE IF whole = "coming" /\ coming = 1 THEN "in" ELSE whole
  /\ Raise((IF Len(rfifo) < RxLevel /\ Len(rfifo') = RxLevel THEN {"FULL"} ELSE {})
           \cup (IF coming = 1 THEN {"RX"} ELSE {}))
  /\ UNCHANGED <<RF_receive_flag, timer_out_flag, payload, pos, crc, from>>

(* The other radio breaks off, or the frame is damaged from here on: the   *)
(* chip takes noise for the rest.                                          *)
BreakOff == /\ coming > 0 /\ from # 0
            /\ from' = 0 /\ whole' = "no"
            /\ UNCHANGED <<frameVars, RF_receive_flag, timer_out_flag, payload, pos, crc,
                           rfifo, coming>>

-----------------------------------------------------------------------------
(* A frame that came in undamaged on an idle receiver is handed to the     *)
(* caller, also when the event of its last byte was cleared unseen with an *)
(* earlier one; unless before that another sync word is heard, the program *)
(* sends, or the time-out runs out in the middle of the frame.             *)
WholeDelivered == whole = "in" ~> whole = "no"

(* The receiver comes back to where it can take up a sync word, whatever   *)
(* was lost of the frame and of the chip's events, if the time-out runs or *)
(* a frame, the next one at the latest, comes in.  A sync word heard in    *)
(* the middle of Receive_init can leave it with neither.                   *)
Served == step = "look" /\ (timer_out_flag \/ coming > 0)
NeverDeaf == RF_receive_flag \in {1, 3} /\ Served ~> RF_receive_flag \in {0, 2}
=============================================================================

------------------------------ MODULE RadioSend ------------------------------
(***************************************************************************)
(* Si4438_SendFrame of BSP/SI4438/wireless_phy.c and the transmitting side *)
(* of the chip.  A frame longer than the chip's FIFO is fed in chunks, each*)
(* when the chip says that the FIFO is almost empty.                       *)
(*                                                                         *)
(* A frame is its positions 1 .. Total(n): PhrLen bytes of head, a payload *)
(* of n bytes, CrcLen bytes of checksum.                                   *)
(***************************************************************************)
EXTENDS RadioFrame

CONSTANTS First,         \* MAX_PACKET_LENGTH: what goes in before the start
          Chunk,         \* RADIO_TX_ALMOST_EMPTY_THRESHOLD: the size of a chunk
          TxFree         \* PKT_TX_THRESHOLD: free bytes that raise "almost empty"

ASSUME SendAssumption ==
  /\ {First, Chunk, TxFree} \subseteq Nat \ {0}
  /\ PhrLen + First + CrcLen <= Fifo
  /\ Chunk + CrcLen <= TxFree /\ TxFree <= Fifo

VARIABLES length,        \* of the frame being sent; 0: none
          remainder,     \* payload bytes still to be written
          sfifo,         \* the transmit FIFO
          sending,       \* the chip transmits
          air            \* history: what it has transmitted of this frame

sendVars == <<length, remainder, sfifo, sending, air>>

SendInit == length = 0 /\ remainder = 0 /\ sfifo = << >> /\ sending = FALSE /\ air = << >>

Span(a, b) == [i \in 1 .. b - a + 1 |-> a + i - 1]

(* Writing to the FIFO: what does not fit is lost.                         *)
Filled(data) == LET all == sfifo \o data
                IN  IF Len(all) <= Fifo THEN all ELSE SubSeq(all, 1, Fifo)

-----------------------------------------------------------------------------
(* set_txd_mode, which clears the interrupts; the head and the first bytes, *)
(* with the checksum if that is all; START_TX with the length of the frame. *)
StartSend(n) ==
  /\ mode = "receive" /\ step = "look"
  /\ mode' = "send"
  /\ pend' = {}
  /\ length' = n
  /\ remainder' = IF n <= First THEN 0 ELSE n - First
  /\ sfifo' = Span(1, IF n <= First THEN Total(n) ELSE PhrLen + First)
  /\ sending' = TRUE
  /\ air' = << >>
  /\ UNCHANGED <<step, RF_int_flag, ph_pend>>

(* Mutant of Return: the interrupts of sending are left pending.           *)
ReturnPending == /\ mode' = "receive" /\ ph_pend' = {}
                 /\ length' = 0 /\ remainder' = 0
                 /\ sfifo' = << >> /\ sending' = FALSE /\ air' = << >>
                 /\ UNCHANGED <<RF_int_flag, pend>>

(* Back to receiving: the chip leaves its transmit state.                  *)
Return == /\ mode' = "receive" /\ pend' = {} /\ ph_pend' = {}
          /\ length' = 0 /\ remainder' = 0
          /\ sfifo' = << >> /\ sending' = FALSE /\ air' = << >>
          /\ UNCHANGED RF_int_flag

(* In wait_tx_ok: the next payload bytes, the last with the checksum.      *)
Position == PhrLen + length - remainder + 1
Piece(p) == IF remainder <= Chunk
            THEN Span(p, p + remainder - 1) \o Span(PhrLen + length + 1, Total(length))
            ELSE Span(p, p + Chunk - 1)

(* The event waited for: TX_EMPTY while there is more to write, then TX_OK. *)
Told == mode = "send" /\ step = "act" /\ "SENT" \in ph_pend /\ remainder = 0
Almost == mode = "send" /\ step = "act" /\ ph_pend = {"EMPTY"} /\ remainder > 0

(* Mutant of Feed: buf is not moved past what went in before the start.    *)
FeedStale == /\ Almost
             /\ sfifo' = Filled(Piece(Position - First))
             /\ remainder' = IF remainder <= Chunk THEN 0 ELSE remainder - Chunk
             /\ Acted
             /\ UNCHANGED <<mode, RF_int_flag, pend, length, sending, air>>

Feed == /\ Almost
        /\ sfifo' = Filled(Piece(Position))
        /\ remainder' = IF remainder <= Chunk THEN 0 ELSE remainder - Chunk
        /\ Acted
        /\ UNCHANGED <<mode, RF_int_flag, pend, length, sending, air>>

(* An event that is not waited for.                                        *)
Ignore == /\ mode = "send" /\ step = "act" /\ ~ Told /\ ~ Almost
          /\ Acted
          /\ UNCHANGED <<mode, RF_int_flag, pend>> /\ UNCHANGED sendVars

(* Si4438_SendFrame returns TRUE, after a Receive_init; no sync word is     *)
(* taken up before its end, for RF_status is still RF_IDLE_FLAG.           *)
SendDone == Told /\ Return /\ step' = "look"

(* Txticktimeout has run out, maybe just when an event came in:            *)
(* wireless_phy_init, after which the chip receives, Receive_init once     *)
(* more, and the call fails.                                               *)
SendTimeout == mode = "send" /\ step = "look" /\ Return /\ step' = "reset"

-----------------------------------------------------------------------------
(* The chip.                                                               *)
TransmitByte ==
  /\ sending /\ sfifo # << >>
  /\ air' = Append(air, sfifo[1])
  /\ sfifo' = Tail(sfifo)
  /\ sending' = (Len(air') < Total(length))
  /\ Raise((IF Fifo - Len(sfifo') = TxFree THEN {"EMPTY"} ELSE {})
           \cup (IF sending' THEN {} ELSE {"SENT"}))
  /\ UNCHANGED <<length, remainder>>

(* The FIFO ran dry in the middle of a frame.                              *)
Underflow == /\ sending /\ sfifo = << >>
             /\ sending' = FALSE
             /\ UNCHANGED <<frameVars, length, remainder, sfifo, air>>

-----------------------------------------------------------------------------
(* Si4438_SendFrame returns TRUE only when all of the frame is out,        *)
(* each byte once and in its place, however late the program answered the  *)
(* chip.                                                                   *)
SentWhole == Told => air = Span(1, Total(length))
=============================================================================

----------------------------- MODULE RadioProofs -----------------------------
(***************************************************************************)
(* For any sizes that the assumptions admit: the node's state keeps its    *)
(* types, and a frame reported sent is whole.                              *)
(***************************************************************************)
EXTENDS Radio, SequenceTheorems, TLAPS

(* The event e was raised and not yet acted on.                            *)
Open(e) == e \in pend \/ (step \in {"clear", "act"} /\ e \in ph_pend)

(* How much of the frame being sent has been written to the FIFO.          *)
Fed == IF remainder = 0 THEN Total(length) ELSE PhrLen + length - remainder

(* The bytes on the air and those in the FIFO are the frame up to there.   *)
InOrder == /\ Len(air) + Len(sfifo) = Fed
           /\ \A i \in 1 .. Len(air) : air[i] = i
           /\ \A i \in 1 .. Len(sfifo) : sfifo[i] = Len(air) + i

(* "Almost empty" still stands when it is acted on, and is raised once.    *)
Room == /\ Open("EMPTY") => Len(sfifo) + TxFree <= Fifo
        /\ step = "act" /\ "EMPTY" \in ph_pend => "EMPTY" \notin pend

(* "Sent" is raised when all of the frame is on the air.                   *)
Out == Open("SENT") => Len(air) = Total(length)

(* While Si4438_SendFrame runs.                                            *)
Sends == /\ coming = 0 /\ length \in Length /\ remainder <= length
         /\ InOrder /\ Room /\ Out

(* Nothing to act on is left over for the next look at the interrupts.     *)
Quiet == /\ step \notin {"clear", "act"} => ph_pend = {}
         /\ sending => mode = "send"

(* The chip expects no more than the rest of the frame on the air.         *)
Remains == from # 0 => coming <= Total(from)

(* TypeOK in the parts that the components of the node keep.               *)
ChipType ==
  /\ mode \in {"receive", "send"} /\ step \in {"look", "clear", "act", "reset", "start", "error"}
  /\ RF_int_flag \in BOOLEAN
  /\ mode = "send" => ph_pend \subseteq {"EMPTY", "SENT"} /\ pend \subseteq {"EMPTY", "SENT"}
  /\ mode # "send" => ph_pend \subseteq {"FULL", "RX"} /\ pend \subseteq {"FULL", "RX"}

SendType ==
  /\ length \in Length \cup {0} /\ remainder \in 0 .. MaxPayload
  /\ sfifo \in Seq(1 .. Total(MaxPayload)) /\ Len(sfifo) <= Fifo
  /\ sending \in BOOLEAN /\ air \in Seq(1 .. Total(MaxPayload))

ReceiveType ==
  /\ RF_receive_flag \in 0 .. 3 /\ timer_out_flag \in BOOLEAN
  /\ payload \in Length \cup {0} /\ pos \in 0 .. BufMax - 1 /\ crc \in BOOLEAN
  /\ rfifo \in Seq(Byte) /\ Len(rfifo) <= Fifo
  /\ coming \in 0 .. Total(MaxPayload) /\ from \in Length \cup {0}
  /\ whole \in {"no", "coming", "in"}

LEMMA Parts == TypeOK <=> ChipType /\ SendType /\ ReceiveType
BY DEF TypeOK, ChipType, SendType, ReceiveType

LEMMA NextParts == ASSUME ChipType', SendType', ReceiveType' PROVE TypeOK'
BY DEF TypeOK, ChipType, SendType, ReceiveType

LEMMA Empty == /\ << >> \in Seq(1 .. Total(MaxPayload)) /\ << >> \in Seq(Byte)
               /\ Len(<< >>) = 0
BY EmptySeq

IInv == TypeOK /\ Quiet /\ Remains /\ (mode = "send" => Sends)

-----------------------------------------------------------------------------
LEMMA Sizes ==
  /\ PhrLen \in Nat /\ CrcLen \in Nat /\ Fifo \in Nat /\ MaxPayload \in Nat
  /\ 0 < PhrLen /\ 0 < CrcLen /\ 0 < Fifo /\ 0 < MaxPayload
  /\ First \in Nat /\ Chunk \in Nat /\ TxFree \in Nat /\ 0 < First /\ 0 < Chunk /\ 0 < TxFree
  /\ PhrLen + First + CrcLen <= Fifo /\ Chunk + CrcLen <= TxFree /\ TxFree <= Fifo
  /\ RxLevel \in Nat /\ RxFirst \in Nat /\ BufMax \in Nat /\ RxChunk \in Nat /\ 0 < BufMax
  /\ \A n \in Length : n \in Nat /\ 1 <= n /\ n <= MaxPayload
BY FrameAssumption, SendAssumption, ReceiveAssumption

LEMMA SpanType ==
  \A a, b, m \in Nat : 1 <= a /\ a <= b + 1 /\ b <= m =>
    /\ Len(Span(a, b)) = b - a + 1
    /\ \A i \in 1 .. b - a + 1 : Span(a, b)[i] = a + i - 1
    /\ Span(a, b) \in Seq(1 .. m)
<1> SUFFICES ASSUME NEW a \in Nat, NEW b \in Nat, NEW m \in Nat, 1 <= a, a <= b + 1, b <= m
             PROVE  /\ Len(Span(a, b)) = b - a + 1
                    /\ \A i \in 1 .. b - a + 1 : Span(a, b)[i] = a + i - 1
                    /\ Span(a, b) \in Seq(1 .. m)
  OBVIOUS
<1>1. PICK n \in Nat : n = b - a + 1
  OBVIOUS
<1>2. Span(a, b) \in [1 .. n -> 1 .. m] /\ \A i \in 1 .. n : Span(a, b)[i] = a + i - 1
  BY <1>1 DEF Span
<1>3. Span(a, b) \in Seq(1 .. m)
  BY <1>2, SeqDef
<1>4. DOMAIN Span(a, b) = 1 .. n
  BY <1>2
<1>5. Len(Span(a, b)) = n
  BY <1>3, <1>4, LenProperties
<1>6. QED
  BY <1>1, <1>2, <1>3, <1>5

(* The prefix of a sequence that fits is all of it.                        *)
LEMMA Fits ==
  ASSUME NEW S, sfifo \in Seq(S), NEW data \in Seq(S), Len(sfifo) + Len(data) <= Fifo
  PROVE  Filled(data) = sfifo \o data
BY ConcatProperties DEF Filled

(* What TypeOK says of the sender.                                         *)
LEMMA SendBasics ==
  ASSUME TypeOK
  PROVE  /\ length \in Nat /\ remainder \in Nat
         /\ Total(length) \in Nat /\ Total(MaxPayload) \in Nat
         /\ length <= MaxPayload /\ Total(length) <= Total(MaxPayload)
         /\ Total(length) = PhrLen + length + CrcLen
         /\ Len(sfifo) \in Nat /\ Len(air) \in Nat
         /\ air \in Seq(1 .. Total(MaxPayload)) /\ sfifo \in Seq(1 .. Total(MaxPayload))
<1>1. length \in Nat /\ length <= MaxPayload
  BY Sizes DEF TypeOK
<1>2. QED
  BY <1>1, Sizes, LenProperties DEF TypeOK, Total

-----------------------------------------------------------------------------
LEMMA InitHolds == Init => IInv
<1> SUFFICES ASSUME Init PROVE IInv
  OBVIOUS
<1> USE DEF Init, FrameInit, SendInit, ReceiveInit
<1>1. Total(MaxPayload) \in Nat
  BY Sizes DEF Total
<1>2. ChipType
  BY DEF ChipType
<1>3. SendType
  <2>1. remainder \in 0 .. MaxPayload /\ Len(sfifo) <= Fifo
    BY Sizes, Empty
  <2>2. sfifo \in Seq(1 .. Total(MaxPayload)) /\ air \in Seq(1 .. Total(MaxPayload))
    BY Empty
  <2>3. QED
    BY <2>1, <2>2 DEF SendType
<1>4. ReceiveType
  <2>1. /\ RF_receive_flag \in 0 .. 3 /\ pos \in 0 .. BufMax - 1
        /\ coming \in 0 .. Total(MaxPayload) /\ Len(rfifo) <= Fifo
    BY <1>1, Sizes, Empty
  <2>2. rfifo \in Seq(Byte)
    BY Empty
  <2>3. QED
    BY <2>1, <2>2 DEF ReceiveType
<1>5. QED
  BY <1>2, <1>3, <1>4, Parts DEF IInv, Quiet, Remains

LEMMA RestartKeeps ==
  ASSUME wireless_phy_init, whole' \in {"no", "coming", "in"}
  PROVE  pend' = {} /\ coming' = 0 /\ ReceiveType' /\ Remains'
<1> USE DEF wireless_phy_init, StartRX
<1>1. Total(MaxPayload) \in Nat
  BY Sizes DEF Total
<1>2. rfifo' \in Seq(Byte) /\ Len(rfifo') <= Fifo
  BY Sizes, Empty
<1>3. /\ RF_receive_flag' \in 0 .. 3 /\ pos' \in 0 .. BufMax - 1
      /\ coming' = 0 /\ coming' \in 0 .. Total(MaxPayload)
  BY <1>1, Sizes
<1>4. payload' \in Length \cup {0} /\ from' = 0 /\ pend' = {}
      /\ timer_out_flag' \in BOOLEAN /\ crc' \in BOOLEAN
  OBVIOUS
<1>5. QED
  BY <1>2, <1>3, <1>4 DEF ReceiveType, Remains

LEMMA StartKeeps == ASSUME IInv, Send PROVE IInv'
<1>1. PICK n \in Length : StartSend(n)
  BY DEF Send
<1>2. wireless_phy_init /\ whole' = "no"
  BY DEF Send
<1>3. n \in Nat /\ 1 <= n /\ n <= MaxPayload /\ length' = n
  BY <1>1, Sizes DEF StartSend
<1>4. mode' = "send" /\ step' = "look" /\ pend' = {} /\ ph_pend' = {} /\ air' = << >>
  BY <1>1 DEF StartSend, IInv, Quiet
<1>5. PICK k : k = IF n <= First THEN Total(n) ELSE PhrLen + First
  OBVIOUS
<1>6. k \in Nat /\ 1 <= k /\ k <= Fifo /\ k <= Total(n) /\ k <= Total(MaxPayload)
      /\ Total(MaxPayload) \in Nat
  BY <1>3, <1>5, Sizes DEF Total
<1>7. sfifo' = Span(1, k) /\ remainder' = (IF n <= First THEN 0 ELSE n - First)
  BY <1>1, <1>5 DEF StartSend
<1>8. /\ sfifo' \in Seq(1 .. Total(MaxPayload)) /\ Len(sfifo') = k
      /\ \A i \in 1 .. k : sfifo'[i] = i
  <2>1. PICK a \in Nat : a = 1 /\ 1 <= a /\ a <= k + 1
    BY <1>6
  <2>2. Len(Span(a, k)) = k - a + 1 /\ \A i \in 1 .. k - a + 1 : Span(a, k)[i] = a + i - 1
    <3>1. k \in Nat /\ k <= k
      BY <1>6
    <3>2. QED
      BY <2>1, <3>1, SpanType
  <2>3. Span(a, k) \in Seq(1 .. Total(MaxPayload))
    BY <1>6, <2>1, SpanType
  <2>4. \A i \in 1 .. k - a + 1 : sfifo'[i] = a + i - 1
    BY <1>7, <2>1, <2>2
  <2>5. k - a + 1 = k /\ \A i \in 1 .. k : a + i - 1 = i
    BY <1>6, <2>1
  <2>6. QED
    BY <1>7, <2>1, <2>2, <2>3, <2>4, <2>5
<1>9. Len(air') = 0 /\ air' \in Seq(1 .. Total(MaxPayload))
  BY <1>4, Empty
<1>10. ChipType'
  BY <1>1, <1>4 DEF StartSend, ChipType, IInv, Parts, TypeOK
<1>11. SendType'
  <2>1. remainder' \in 0 .. MaxPayload /\ sending' \in BOOLEAN
    BY <1>1, <1>3, <1>7, Sizes DEF StartSend
  <2>2. QED
    BY <1>3, <1>6, <1>8, <1>9, <2>1 DEF SendType
<1>12. ReceiveType' /\ Remains' /\ coming' = 0
  BY <1>2, RestartKeeps
<1>13. Fed' = k
  BY <1>3, <1>5, <1>7, Sizes DEF Fed, Total
<1>14. InOrder'
  BY <1>6, <1>8, <1>9, <1>13 DEF InOrder
<1>15. Room' /\ Out'
  BY <1>4 DEF Room, Out, Open
<1>16. Sends'
  BY <1>3, <1>7, <1>12, <1>14, <1>15, Sizes DEF Sends
<1>17. QED
  BY <1>4, <1>10, <1>11, <1>12, <1>16, NextParts DEF IInv, Quiet

LEMMA ReturnKeeps ==
  ASSUME IInv, Return, step' \in {"look", "reset"}, UNCHANGED receiveVars
  PROVE  IInv'
<1>1. ChipType'
  BY DEF Return, ChipType, IInv, TypeOK
<1>2. SendType'
  <2>1. remainder' \in 0 .. MaxPayload /\ Len(sfifo') <= Fifo
    BY Sizes, Empty DEF Return
  <2>2. sfifo' \in Seq(1 .. Total(MaxPayload)) /\ air' \in Seq(1 .. Total(MaxPayload))
    BY Empty DEF Return
  <2>3. QED
    BY <2>1, <2>2 DEF Return, SendType
<1>3. ReceiveType' /\ Remains'
  BY Parts DEF IInv, ReceiveType, Remains, receiveVars
<1>4. QED
  BY <1>1, <1>2, <1>3, NextParts DEF IInv, Quiet, Return

(* The events are done with; what is pending stays.                        *)
LEMMA ActedKeeps ==
  ASSUME IInv, Acted, UNCHANGED <<mode, RF_int_flag, pend, sending>>
  PROVE  /\ ChipType' /\ Quiet' /\ step' = "look"
         /\ \A e \in {"EMPTY", "SENT"} : Open(e)' <=> e \in pend
<1>1. ChipType
  BY Parts DEF IInv
<1>2. QED
  BY <1>1 DEF Acted, ChipType, IInv, Quiet, Open

LEMMA IgnoreKeeps == ASSUME IInv, Ignore, UNCHANGED receiveVars PROVE IInv'
<1>1. ChipType' /\ Quiet' /\ step' = "look" /\ \A e \in {"EMPTY", "SENT"} : Open(e)' <=> e \in pend
  BY ActedKeeps DEF Ignore, sendVars
<1>2. SendType' /\ ReceiveType' /\ Remains'
  BY Parts DEF IInv, Ignore, sendVars, receiveVars, SendType, ReceiveType, Remains
<1>3. mode = "send" => Sends'
  BY <1>1 DEF IInv, Ignore, sendVars, receiveVars, Sends, InOrder, Fed, Room, Out, Open
<1>4. QED
  BY <1>1, <1>2, <1>3, NextParts DEF IInv, Ignore

(* The next piece fits and continues what was written.                     *)
LEMMA NextPiece ==
  ASSUME IInv, Almost
  PROVE  /\ Piece(Position) \in Seq(1 .. Total(MaxPayload))
         /\ Len(sfifo) + Len(Piece(Position)) <= Fifo
         /\ \A i \in 1 .. Len(Piece(Position)) : Piece(Position)[i] = Fed + i
         /\ Fed + Len(Piece(Position)) =
              IF remainder <= Chunk THEN Total(length) ELSE PhrLen + length - (remainder - Chunk)
<1>1. Sends /\ step = "act" /\ ph_pend = {"EMPTY"} /\ remainder > 0
  BY DEF IInv, Almost
<1>2. /\ length \in Nat /\ remainder \in Nat /\ Total(length) \in Nat /\ Total(MaxPayload) \in Nat
      /\ Total(length) <= Total(MaxPayload) /\ Total(length) = PhrLen + length + CrcLen
      /\ Len(sfifo) \in Nat /\ remainder <= length
  BY <1>1, SendBasics DEF IInv, Sends
<1>3. Len(sfifo) + TxFree <= Fifo
  BY <1>1 DEF Sends, Room, Open
<1>4. PICK p : p = Position
  OBVIOUS
<1>5. Fed \in Nat /\ p = Fed + 1 /\ p = PhrLen + length - remainder + 1 /\ p \in Nat /\ p >= 1
  BY <1>1, <1>2, <1>4, Sizes DEF Position, Fed
<1>6. CASE remainder <= Chunk
  <2>1. p + remainder - 1 = PhrLen + length
    BY <1>2, <1>5, Sizes
  <2>2. PICK s : s = Span(p, PhrLen + length)
    OBVIOUS
  <2>3. PICK t : t = Span(PhrLen + length + 1, Total(length))
    OBVIOUS
  <2>4. Piece(p) = s \o t
    BY <1>6, <2>1, <2>2, <2>3 DEF Piece
  <2>5. /\ Len(s) = remainder /\ \A i \in 1 .. remainder : s[i] = p + i - 1
        /\ s \in Seq(1 .. Total(MaxPayload))
    <3>1. /\ p \in Nat /\ PhrLen + length \in Nat /\ 1 <= p /\ p <= PhrLen + length + 1
          /\ PhrLen + length <= Total(MaxPayload) /\ PhrLen + length - p + 1 = remainder
      BY <1>1, <1>2, <1>5, Sizes
    <3>2. PICK b \in Nat : b = PhrLen + length
      BY <3>1
    <3>3. PICK m \in Nat : m = Total(MaxPayload)
      BY <1>2
    <3>4. p \in Nat /\ 1 <= p /\ p <= b + 1 /\ b <= m /\ b - p + 1 = remainder
      BY <1>2, <1>5, <3>1, <3>2, <3>3, Sizes
    <3>5. /\ Len(Span(p, b)) = b - p + 1 /\ \A i \in 1 .. b - p + 1 : Span(p, b)[i] = p + i - 1
          /\ Span(p, b) \in Seq(1 .. m)
      BY <3>2, <3>3, <3>4, SpanType
    <3>6. QED
      BY <2>2, <3>2, <3>3, <3>4, <3>5
  <2>6. /\ Len(t) = CrcLen /\ \A i \in 1 .. CrcLen : t[i] = PhrLen + length + i
        /\ t \in Seq(1 .. Total(MaxPayload))
    <3>1. PICK b \in Nat : b = PhrLen + length + 1
      BY <1>2, Sizes
    <3>2. 1 <= b /\ b <= Total(length) + 1 /\ Total(length) - b + 1 = CrcLen
      BY <1>2, <3>1, Sizes
    <3>3. Len(t) = CrcLen /\ \A i \in 1 .. CrcLen : t[i] = b + i - 1
      BY <1>2, <2>3, <3>1, <3>2, SpanType
    <3>4. t \in Seq(1 .. Total(MaxPayload))
      BY <1>2, <2>3, <3>1, <3>2, SpanType
    <3>5. QED
      BY <1>2, <3>1, <3>3, <3>4, Sizes
  <2>7. /\ s \o t \in Seq(1 .. Total(MaxPayload)) /\ Len(s \o t) = remainder + CrcLen
        /\ \A i \in 1 .. remainder + CrcLen :
             (s \o t)[i] = IF i <= remainder THEN s[i] ELSE t[i - remainder]
    BY <2>5, <2>6, ConcatProperties
  <2>8. \A i \in 1 .. remainder + CrcLen : (s \o t)[i] = Fed + i
    <3>1. TAKE i \in 1 .. remainder + CrcLen
    <3>2. i \in Nat /\ 1 <= i /\ i <= remainder + CrcLen
      BY <1>2, Sizes
    <3>3. CASE i <= remainder
      <4>1. i \in 1 .. remainder /\ (s \o t)[i] = s[i]
        BY <1>2, <2>7, <3>2, <3>3
      <4>2. s[i] = p + i - 1
        BY <2>5, <4>1
      <4>3. QED
        BY <1>2, <1>5, <3>2, <4>1, <4>2, Sizes
    <3>4. CASE i > remainder
      <4>1. i - remainder \in 1 .. CrcLen
        BY <1>2, <3>2, <3>4, Sizes
      <4>2. t[i - remainder] = PhrLen + length + (i - remainder)
        BY <2>6, <4>1
      <4>3. (s \o t)[i] = t[i - remainder]
        <5>1. ~ (i <= remainder)
          BY <1>2, <3>2, <3>4
        <5>2. QED
          BY <2>7, <3>1, <5>1
      <4>4. PhrLen + length + (i - remainder) = Fed + i
        BY <1>2, <1>5, <3>2, Sizes
      <4>5. QED
        BY <4>2, <4>3, <4>4
    <3>5. i <= remainder \/ i > remainder
      BY <1>2, <3>2
    <3>6. QED
      BY <3>3, <3>4, <3>5
  <2>9. Len(sfifo) + (remainder + CrcLen) <= Fifo /\ Fed + (remainder + CrcLen) = Total(length)
    BY <1>2, <1>3, <1>5, <1>6, Sizes
  <2>10. QED
    BY <1>4, <1>6, <2>4, <2>7, <2>8, <2>9
<1>7. CASE ~ (remainder <= Chunk)
  <2>1. PICK b \in Nat : b = p + Chunk - 1
    BY <1>5, Sizes
  <2>2. Piece(p) = Span(p, b)
    BY <1>7, <2>1 DEF Piece
  <2>3. p <= b + 1 /\ b <= Total(MaxPayload) /\ b - p + 1 = Chunk
    BY <1>2, <1>5, <1>7, <2>1, Sizes
  <2>4. Len(Span(p, b)) = Chunk /\ \A i \in 1 .. Chunk : Span(p, b)[i] = p + i - 1
    <3>1. Len(Span(p, b)) = b - p + 1 /\ \A i \in 1 .. b - p + 1 : Span(p, b)[i] = p + i - 1
      BY <1>2, <1>5, <2>1, <2>3, SpanType
    <3>2. QED
      BY <2>3, <3>1
  <2>5. Span(p, b) \in Seq(1 .. Total(MaxPayload))
    BY <1>2, <1>5, <2>1, <2>3, SpanType
  <2>6. /\ Len(sfifo) + Chunk <= Fifo /\ Fed + Chunk = PhrLen + length - (remainder - Chunk)
        /\ \A i \in 1 .. Chunk : p + i - 1 = Fed + i
    BY <1>2, <1>3, <1>5, <1>7, Sizes
  <2>7. QED
    BY <1>4, <1>7, <2>2, <2>4, <2>5, <2>6
<1>8. QED
  BY <1>6, <1>7

LEMMA FeedKeeps == ASSUME IInv, Feed, UNCHANGED receiveVars PROVE IInv'
<1>1. /\ Almost /\ sfifo' = Filled(Piece(Position))
      /\ remainder' = (IF remainder <= Chunk THEN 0 ELSE remainder - Chunk)
      /\ Acted /\ UNCHANGED <<mode, RF_int_flag, pend, length, sending, air>>
  BY DEF Feed
<1>2. /\ ChipType' /\ Quiet' /\ step' = "look"
      /\ \A e \in {"EMPTY", "SENT"} : Open(e)' <=> e \in pend
  BY <1>1, ActedKeeps
<1>3. PICK d : d = Piece(Position)
  OBVIOUS
<1>4. /\ d \in Seq(1 .. Total(MaxPayload)) /\ Len(sfifo) + Len(d) <= Fifo
      /\ \A i \in 1 .. Len(d) : d[i] = Fed + i
      /\ Fed + Len(d) =
           IF remainder <= Chunk THEN Total(length) ELSE PhrLen + length - (remainder - Chunk)
  BY <1>1, <1>3, NextPiece
<1>5. /\ sfifo \in Seq(1 .. Total(MaxPayload)) /\ air \in Seq(1 .. Total(MaxPayload))
      /\ length \in Nat /\ remainder \in Nat /\ Total(length) \in Nat
      /\ Len(sfifo) \in Nat /\ Len(air) \in Nat
  BY SendBasics DEF IInv
<1>6. Sends /\ step = "act" /\ ph_pend = {"EMPTY"} /\ remainder > 0 /\ remainder <= length
  BY <1>1 DEF IInv, Almost, Sends
<1>7. sfifo' = sfifo \o d
  BY <1>1, <1>3, <1>4, <1>5, Fits
<1>8. /\ sfifo' \in Seq(1 .. Total(MaxPayload)) /\ Len(sfifo') = Len(sfifo) + Len(d)
      /\ \A i \in 1 .. Len(sfifo) + Len(d) :
           sfifo'[i] = IF i <= Len(sfifo) THEN sfifo[i] ELSE d[i - Len(sfifo)]
  BY <1>4, <1>5, <1>7, ConcatProperties
<1>9. Len(d) \in Nat
  BY <1>4, LenProperties
<1>10. remainder' \in Nat /\ remainder' <= remainder
  BY <1>1, <1>5, Sizes
<1>11. SendType'
  <2>1. remainder' \in 0 .. MaxPayload
    BY <1>5, <1>10, Parts, Sizes DEF IInv, SendType
  <2>2. QED
    BY <1>1, <1>4, <1>8, <2>1, Parts DEF IInv, SendType
<1>12. ReceiveType' /\ Remains'
  BY Parts DEF IInv, ReceiveType, Remains, receiveVars
<1>13. Fed' = Fed + Len(d)
  <2>1. CASE remainder <= Chunk
    <3>1. remainder' = 0 /\ length' = length
      BY <1>1, <2>1
    <3>2. Fed' = Total(length)
      BY <3>1 DEF Fed, Total
    <3>3. QED
      BY <1>4, <2>1, <3>2
  <2>2. CASE ~ (remainder <= Chunk)
    <3>1. remainder' = remainder - Chunk /\ remainder' # 0 /\ length' = length
      BY <1>1, <1>5, <2>2, Sizes
    <3>2. Fed' = PhrLen + length - (remainder - Chunk)
      BY <3>1 DEF Fed
    <3>3. QED
      BY <1>4, <2>2, <3>2
  <2>3. QED
    BY <2>1, <2>2
<1>14. Fed = Len(air) + Len(sfifo) /\ \A i \in 1 .. Len(air) : air[i] = i
  BY <1>6 DEF Sends, InOrder
<1>15. InOrder'
  <2>1. Len(air') + Len(sfifo') = Fed'
    BY <1>1, <1>5, <1>8, <1>9, <1>13, <1>14
  <2>2. ASSUME NEW i \in 1 .. Len(sfifo') PROVE sfifo'[i] = Len(air') + i
    <3>1. i \in Nat /\ 1 <= i /\ i <= Len(sfifo) + Len(d) /\ air' = air
      BY <1>1, <1>5, <1>8, <1>9
    <3>2. CASE i <= Len(sfifo)
      <4>1. i \in 1 .. Len(sfifo) /\ sfifo'[i] = sfifo[i]
        BY <1>5, <1>8, <1>9, <3>1, <3>2
      <4>2. QED
        BY <1>6, <3>1, <4>1 DEF Sends, InOrder
    <3>3. CASE ~ (i <= Len(sfifo))
      <4>1. i - Len(sfifo) \in 1 .. Len(d) /\ sfifo'[i] = d[i - Len(sfifo)]
        BY <1>5, <1>8, <1>9, <3>1, <3>3
      <4>2. sfifo'[i] = Fed + (i - Len(sfifo))
        BY <1>4, <4>1
      <4>3. QED
        BY <1>5, <1>14, <3>1, <4>2
    <3>4. QED
      BY <3>2, <3>3
  <2>3. QED
    BY <1>1, <1>14, <2>1, <2>2 DEF InOrder
<1>16. Room'
  BY <1>1, <1>2, <1>6 DEF Sends, Room, Almost
<1>17. Out'
  <2>1. Open("SENT")' => Open("SENT")
    BY <1>2 DEF Open
  <2>2. Total(length)' = Total(length) /\ air' = air
    BY <1>1 DEF Total
  <2>3. QED
    BY <1>6, <2>1, <2>2 DEF Sends, Out
<1>18. Sends'
  <2>1. coming' = 0 /\ length' \in Length
    BY <1>1, <1>6 DEF Sends, receiveVars
  <2>2. remainder' <= length'
    BY <1>1, <1>5, <1>6, <1>10
  <2>3. QED
    BY <1>15, <1>16, <1>17, <2>1, <2>2 DEF Sends
<1>19. QED
  BY <1>2, <1>11, <1>12, <1>18, NextParts DEF IInv

LEMMA CheckKeeps == ASSUME IInv, Check, UNCHANGED <<sendVars, receiveVars>> PROVE IInv'
<1>1. ChipType'
  BY Parts DEF IInv, Check, ChipType
<1>2. SendType' /\ ReceiveType' /\ Remains' /\ Quiet'
  BY Parts DEF IInv, Check, sendVars, receiveVars, SendType, ReceiveType, Remains, Quiet
<1>3. \A e : Open(e)' => Open(e)
  BY DEF Check, Open
<1>4. step' # "act" /\ mode' = mode
  BY DEF Check
<1>5. Sends => Sends'
  BY <1>3, <1>4 DEF sendVars, receiveVars, Sends, InOrder, Fed, Total, Room, Out
<1>6. QED
  BY <1>1, <1>2, <1>4, <1>5, NextParts DEF IInv

LEMMA ClearKeeps == ASSUME IInv, Clear, UNCHANGED <<sendVars, receiveVars>> PROVE IInv'
<1>1. ChipType'
  BY Parts DEF IInv, Clear, ChipType
<1>2. SendType' /\ ReceiveType' /\ Remains' /\ Quiet'
  BY Parts DEF IInv, Clear, sendVars, receiveVars, SendType, ReceiveType, Remains, Quiet
<1>3. \A e : Open(e)' => Open(e)
  BY DEF Clear, Open
<1>4. pend' = {} /\ mode' = mode
  BY DEF Clear
<1>5. Sends => Sends'
  BY <1>3, <1>4 DEF sendVars, receiveVars, Sends, InOrder, Fed, Total, Room, Out
<1>6. QED
  BY <1>1, <1>2, <1>4, <1>5, NextParts DEF IInv

LEMMA TransmitKeeps == ASSUME IInv, TransmitByte, UNCHANGED receiveVars PROVE IInv'
<1>1. /\ sending /\ sfifo # << >> /\ air' = Append(air, sfifo[1]) /\ sfifo' = Tail(sfifo)
      /\ sending' = (Len(air') < Total(length)) /\ UNCHANGED <<length, remainder>>
      /\ UNCHANGED <<mode, step, ph_pend>>
  BY DEF TransmitByte, Raise
<1>2. /\ "EMPTY" \in pend' => "EMPTY" \in pend \/ Fifo - Len(sfifo') = TxFree
      /\ "SENT" \in pend' => "SENT" \in pend \/ ~ sending'
      /\ pend' \subseteq pend \cup {"EMPTY", "SENT"}
  BY DEF TransmitByte, Raise
<1>3. mode = "send" /\ Sends /\ ChipType /\ SendType
  BY <1>1, Parts DEF IInv, Quiet
<1>4. /\ sfifo \in Seq(1 .. Total(MaxPayload)) /\ air \in Seq(1 .. Total(MaxPayload))
      /\ Len(sfifo) \in Nat /\ Len(air) \in Nat /\ Total(length) \in Nat
      /\ length \in Nat /\ remainder \in Nat /\ Total(length) = PhrLen + length + CrcLen
  BY SendBasics DEF IInv
<1>5. Len(sfifo) >= 1
  BY <1>1, <1>4, EmptySeq
<1>6. /\ sfifo' \in Seq(1 .. Total(MaxPayload)) /\ Len(sfifo') = Len(sfifo) - 1
      /\ \A i \in 1 .. Len(sfifo') : sfifo'[i] = sfifo[i + 1]
  BY <1>1, <1>4, HeadTailProperties
<1>7. sfifo[1] \in 1 .. Total(MaxPayload) /\ sfifo[1] = Len(air) + 1
  <2>1. 1 \in 1 .. Len(sfifo)
    BY <1>4, <1>5
  <2>2. sfifo[1] \in 1 .. Total(MaxPayload)
    BY <1>4, <2>1, ElementOfSeq
  <2>3. QED
    BY <1>3, <2>1, <2>2 DEF Sends, InOrder
<1>8. /\ air' \in Seq(1 .. Total(MaxPayload)) /\ Len(air') = Len(air) + 1
      /\ \A i \in 1 .. Len(air) : air'[i] = air[i]
      /\ air'[Len(air) + 1] = sfifo[1]
  BY <1>1, <1>4, <1>7, AppendProperties
<1>9. /\ Fed' = Fed /\ Fed = Len(air) + Len(sfifo) /\ Fed <= Total(length)
      /\ \A i \in 1 .. Len(air) : air[i] = i
      /\ \A i \in 1 .. Len(sfifo) : sfifo[i] = Len(air) + i
  <2>1. Fed' = Fed
    BY <1>1 DEF Fed, Total
  <2>2. Fed <= Total(length)
    BY <1>4, Sizes DEF Fed
  <2>3. QED
    BY <1>3, <2>1, <2>2 DEF Sends, InOrder
<1>10. ChipType'
  <2>1. RF_int_flag' \in BOOLEAN
    BY <1>3 DEF TransmitByte, Raise, ChipType
  <2>2. QED
    BY <1>1, <1>2, <1>3, <2>1 DEF ChipType
<1>11. SendType'
  <2>1. sending' \in BOOLEAN
    BY <1>1
  <2>2. Len(sfifo') <= Fifo
    BY <1>3, <1>4, <1>6, Sizes DEF SendType
  <2>3. QED
    BY <1>1, <1>3, <1>6, <1>8, <2>1, <2>2 DEF SendType
<1>12. ReceiveType' /\ Remains' /\ Quiet'
  BY <1>1, <1>3, Parts DEF IInv, ReceiveType, Remains, receiveVars, Quiet
<1>13. InOrder'
  <2>1. Len(air') + Len(sfifo') = Fed'
    BY <1>4, <1>6, <1>8, <1>9
  <2>2. ASSUME NEW i \in 1 .. Len(air') PROVE air'[i] = i
    <3>1. i \in 1 .. Len(air) \/ i = Len(air) + 1
      BY <1>4, <1>8
    <3>2. QED
      BY <1>7, <1>8, <1>9, <3>1
  <2>3. ASSUME NEW i \in 1 .. Len(sfifo') PROVE sfifo'[i] = Len(air') + i
    <3>1. i + 1 \in 1 .. Len(sfifo) /\ Len(air) + (i + 1) = Len(air') + i
      BY <1>4, <1>6, <1>8
    <3>2. QED
      BY <1>6, <1>9, <3>1
  <2>4. QED
    BY <2>1, <2>2, <2>3 DEF InOrder
<1>14. Open("EMPTY") => Len(sfifo) + TxFree <= Fifo
  BY <1>3 DEF Sends, Room
<1>15. Room'
  <2>1. Fifo - Len(sfifo') = TxFree => ~ Open("EMPTY") /\ Len(sfifo') + TxFree <= Fifo
    BY <1>4, <1>6, <1>14, Sizes
  <2>2. Open("EMPTY")' => Len(sfifo') + TxFree <= Fifo
    <3>1. Open("EMPTY")' => Open("EMPTY") \/ Fifo - Len(sfifo') = TxFree
      BY <1>1, <1>2 DEF Open
    <3>2. Open("EMPTY") => Len(sfifo') + TxFree <= Fifo
      BY <1>4, <1>6, <1>14, Sizes
    <3>3. QED
      BY <2>1, <3>1, <3>2
  <2>3. step' = "act" /\ "EMPTY" \in ph_pend' => "EMPTY" \notin pend'
    BY <1>1, <1>2, <1>3, <2>1 DEF Open, Sends, Room
  <2>4. QED
    BY <2>2, <2>3 DEF Room
<1>16. Out'
  <2>1. Open("SENT")' => Open("SENT") \/ ~ sending'
    BY <1>1, <1>2 DEF Open
  <2>2. ~ Open("SENT")
    BY <1>3, <1>4, <1>5, <1>9 DEF Sends, Out
  <2>3. Total(length)' = Total(length)
    BY <1>1 DEF Total
  <2>4. ~ sending' => ~ (Len(air') < Total(length))
    BY <1>1
  <2>5. ~ (Len(air') < Total(length)) => Len(air') = Total(length)
    BY <1>4, <1>5, <1>8, <1>9
  <2>6. QED
    BY <2>1, <2>2, <2>3, <2>4, <2>5 DEF Out
<1>17. Sends'
  <2>1. coming = 0 /\ length \in Length /\ remainder <= length
    BY <1>3 DEF Sends
  <2>2. coming' = coming /\ length' = length /\ remainder' = remainder
    BY <1>1 DEF receiveVars
  <2>3. coming' = 0 /\ length' \in Length /\ remainder' <= length'
    BY <2>1, <2>2
  <2>4. QED
    BY <1>13, <1>15, <1>16, <2>3 DEF Sends
<1>18. QED
  BY <1>10, <1>11, <1>12, <1>17, NextParts DEF IInv

LEMMA UnderflowKeeps == ASSUME IInv, Underflow, UNCHANGED receiveVars PROVE IInv'
<1>1. ChipType' /\ SendType' /\ ReceiveType' /\ Remains' /\ Quiet'
  <2>1. sending' \in BOOLEAN /\ (sending' => mode' = "send")
    BY DEF Underflow
  <2>2. ChipType' /\ ReceiveType' /\ Remains'
    BY Parts DEF IInv, Underflow, frameVars, receiveVars, ChipType, ReceiveType, Remains
  <2>3. SendType'
    BY <2>1, Parts DEF IInv, Underflow, SendType
  <2>4. Quiet'
    BY <2>1 DEF IInv, Underflow, frameVars, Quiet
  <2>5. QED
    BY <2>2, <2>3, <2>4
<1>2. mode' = mode
  BY DEF Underflow, frameVars
<1>3. Sends => Sends'
  BY DEF Underflow, frameVars, receiveVars, Sends, InOrder, Fed, Total, Room, Out, Open
<1>4. QED
  BY <1>1, <1>2, <1>3, NextParts DEF IInv

(* A step of the receiver leaves the sender as it is.                      *)
LEMMA ReceiverOnly ==
  ASSUME IInv, UNCHANGED sendVars, mode' = mode, mode = "receive", RF_int_flag' \in BOOLEAN,
         step' \in {"look", "clear", "act", "reset", "start", "error"},
         ph_pend' \subseteq {"FULL", "RX"}, pend' \subseteq {"FULL", "RX"},
         step' \notin {"clear", "act"} => ph_pend' = {},
         ReceiveType', Remains'
  PROVE  IInv'
<1>1. ChipType'
  BY DEF ChipType
<1>2. SendType'
  BY Parts DEF IInv, SendType, sendVars
<1>3. Quiet'
  BY DEF IInv, Quiet, sendVars
<1>4. QED
  BY <1>1, <1>2, <1>3, NextParts DEF IInv

(* Receive_init leaves the chip alone until its last step.                 *)
LEMMA ReceiveInitKeeps ==
  ASSUME IInv, UNCHANGED sendVars, mode' = mode, mode = "receive", UNCHANGED RF_int_flag,
         ph_pend' = {}, NEW ok \in BOOLEAN, Receive_init(ok), whole' \in {"no", "coming", "in"}
  PROVE  IInv'
<1>1. ChipType /\ ReceiveType /\ Remains
  BY Parts DEF IInv
<1>2. /\ RF_receive_flag' = 0 /\ payload' = 0 /\ pos' = 0 /\ crc' = ok /\ step' = "reset"
      /\ UNCHANGED <<pend, timer_out_flag, rfifo, coming, from>>
  BY DEF Receive_init
<1>3. RF_receive_flag' \in 0 .. 3 /\ pos' \in 0 .. BufMax - 1
  BY <1>2, Sizes
<1>4. ReceiveType'
  BY <1>1, <1>2, <1>3 DEF ReceiveType
<1>5. Remains'
  BY <1>1, <1>2 DEF Remains, Total
<1>6. pend' \subseteq {"FULL", "RX"} /\ RF_int_flag' \in BOOLEAN
  BY <1>1, <1>2 DEF ChipType
<1>7. QED
  BY <1>2, <1>4, <1>5, <1>6, ReceiverOnly

LEMMA StopTimerKeeps == ASSUME IInv, StopTimer, UNCHANGED sendVars PROVE IInv'
<1>1. /\ mode = "receive" /\ step = "reset" /\ step' = "start" /\ timer_out_flag' = FALSE
      /\ UNCHANGED <<mode, RF_int_flag, ph_pend, pend, RF_receive_flag, payload, pos,
                     crc, rfifo, coming, from, whole>>
  BY DEF StopTimer
<1>2. ChipType /\ ReceiveType /\ Remains /\ Quiet
  BY Parts DEF IInv
<1>3. ReceiveType' /\ Remains'
  BY <1>1, <1>2 DEF ReceiveType, Remains, Total
<1>4. QED
  BY <1>1, <1>2, <1>3, ReceiverOnly DEF ChipType, Quiet

LEMMA StartedKeeps == ASSUME IInv, Started, UNCHANGED sendVars PROVE IInv'
<1>1. /\ mode = "receive" /\ step = "start" /\ step' \in {"look", "error"} /\ crc' = TRUE
      /\ pend' = {} /\ rfifo' = << >> /\ coming' = 0 /\ from' = 0
      /\ UNCHANGED <<mode, RF_int_flag, ph_pend, RF_receive_flag, timer_out_flag, payload,
                     pos, whole>>
  BY DEF Started, StartRX
<1>2. ChipType /\ ReceiveType /\ Quiet
  BY Parts DEF IInv
<1>3. coming' \in 0 .. Total(MaxPayload)
  BY <1>1, Sizes DEF Total
<1>4. rfifo' \in Seq(Byte) /\ Len(rfifo') <= Fifo
  BY <1>1, Sizes, Empty
<1>5. ReceiveType' /\ Remains'
  BY <1>1, <1>2, <1>3, <1>4 DEF ReceiveType, Remains
<1>6. QED
  BY <1>1, <1>2, <1>5, ReceiverOnly DEF ChipType, Quiet

LEMMA ReadKeeps ==
  ASSUME IInv, UNCHANGED sendVars, mode' = mode, mode = "receive", UNCHANGED RF_int_flag,
         ph_pend' = {}, NEW n \in Length \cup {0}, NEW h \in Nat, NEW ok \in BOOLEAN,
         NEW p \in Nat, NEW k \in Nat, Read(n, h, ok, p, k)
  PROVE  IInv'
<1> DEFINE fits == p + k <= BufMax
           good == ok /\ (fits => Right(h, k, n, PhrLen + p + 1))
           handed == good /\ p + k = n + CrcLen
<1> USE Parts DEF IInv
<1>1. CASE Complete(n, p + k)
  <2>1. Receive_init(handed) /\ whole' \in {"no", "coming", "in"}
    BY <1>1 DEF Read, ReceiveType
  <2>2. handed \in BOOLEAN
    BY DEF Right
  <2>3. QED
    BY <2>1, <2>2, ReceiveInitKeeps
<1>2. CASE ~ Complete(n, p + k)
  <2>1. /\ step' = "look" /\ RF_receive_flag' = 3 /\ timer_out_flag' = TRUE
        /\ payload' = n /\ pos' = p + k /\ crc' = good
        /\ rfifo' = SubSeq(rfifo, (IF fits THEN h + k ELSE h) + 1, Len(rfifo))
        /\ UNCHANGED <<pend, coming, from, whole>>
    BY <1>2 DEF Read
  <2>2. pos' \in 0 .. BufMax - 1
    BY <1>2, <2>1, Sizes DEF Complete
  <2>3. crc' \in BOOLEAN
    <3>1. good \in BOOLEAN
      BY DEF Right
    <3>2. QED
      BY <2>1, <3>1
  <2>4. PICK m \in Nat : m = (IF fits THEN h + k ELSE h) + 1 /\ m >= 1
    OBVIOUS
  <2>5. rfifo \in Seq(Byte) /\ Len(rfifo) \in Nat /\ Len(rfifo) <= Fifo
    BY LenProperties DEF ReceiveType
  <2>6. rfifo' = SubSeq(rfifo, m, Len(rfifo))
    BY <2>1, <2>4
  <2>7. \A i \in m .. Len(rfifo) : rfifo[i] \in Byte
    <3>1. m .. Len(rfifo) \subseteq 1 .. Len(rfifo)
      BY <2>4, <2>5
    <3>2. QED
      BY <2>5, <3>1, ElementOfSeq
  <2>8. rfifo' \in Seq(Byte) /\ Len(rfifo') = IF m <= Len(rfifo) THEN Len(rfifo) - m + 1 ELSE 0
    BY <2>5, <2>6, <2>7, SubSeqProperties
  <2>9. Len(rfifo') <= Fifo
    BY <2>4, <2>5, <2>8, Sizes
  <2>10. RF_receive_flag' \in 0 .. 3
    BY <2>1
  <2>11. ReceiveType'
    BY <2>1, <2>2, <2>3, <2>8, <2>9, <2>10 DEF ReceiveType
  <2>12. Remains' /\ pend' \subseteq {"FULL", "RX"} /\ RF_int_flag' \in BOOLEAN
    <3>1. pend \subseteq {"FULL", "RX"} /\ RF_int_flag' \in BOOLEAN
      BY DEF ChipType
    <3>2. Total(from)' = Total(from)
      BY <2>1 DEF Total
    <3>3. QED
      BY <2>1, <3>1, <3>2 DEF Remains
  <2>13. QED
    BY <2>1, <2>11, <2>12, ReceiverOnly
<1>3. QED
  BY <1>1, <1>2

LEMMA AgainKeeps ==
  ASSUME IInv, UNCHANGED sendVars, mode' = mode, mode = "receive", UNCHANGED RF_int_flag,
         wireless_phy_init, step' \in {"look", "reset"}, ph_pend' = {},
         whole' \in {"no", "coming", "in"}
  PROVE  IInv'
<1>1. pend' = {} /\ ReceiveType' /\ Remains'
  BY RestartKeeps
<1>2. RF_int_flag' \in BOOLEAN
  BY Parts DEF IInv, ChipType
<1>3. QED
  BY <1>1, <1>2, ReceiverOnly

(* The types that the receiver's steps look at.                            *)
LEMMA ReceiveBasics ==
  ASSUME IInv
  PROVE  /\ pos \in Nat /\ payload \in Length \cup {0} /\ crc \in BOOLEAN
         /\ rfifo \in Seq(Byte) /\ Len(rfifo) \in Nat /\ whole \in {"no", "coming", "in"}
         /\ coming \in Nat /\ Len(rfifo) <= Fifo
<1>1. ReceiveType
  BY Parts DEF IInv
<1>2. rfifo \in Seq(Byte) /\ Len(rfifo) \in Nat
  BY <1>1, LenProperties DEF ReceiveType
<1>3. pos \in Nat /\ coming \in Nat
  <2>1. Total(MaxPayload) \in Nat
    BY SendBasics DEF IInv
  <2>2. QED
    BY <1>1, <2>1, Sizes DEF ReceiveType
<1>4. QED
  BY <1>1, <1>2, <1>3 DEF ReceiveType

LEMMA HeadKeeps == ASSUME IInv, ReadFrameHead, UNCHANGED sendVars PROVE IInv'
<1>1. mode = "receive" /\ mode' = mode /\ ph_pend' = {} /\ UNCHANGED RF_int_flag
  BY DEF ReadFrameHead, Reading
<1>2. CASE rfifo # << >> /\ Right(0, PhrLen, rfifo[1].n, 1)
  <2>1. PICK n, k : n = rfifo[1].n /\ k = IF "RX" \in ph_pend THEN Len(rfifo) - PhrLen ELSE RxFirst
    OBVIOUS
  <2>2. Read(n, PhrLen, TRUE, 0, k)
    BY <1>2, <2>1 DEF ReadFrameHead
  <2>3. PhrLen <= Len(rfifo) /\ \A j \in 1 .. PhrLen : rfifo[j] = [n |-> n, i |-> j]
    <3>1. 0 + PhrLen <= Len(rfifo) /\ \A j \in 1 .. PhrLen : rfifo[0 + j] = [n |-> n, i |-> 1 + j - 1]
      BY <1>2, <2>1 DEF Right
    <3>2. 0 + PhrLen = PhrLen /\ \A j \in 1 .. PhrLen : 0 + j = j /\ 1 + j - 1 = j
      BY Sizes
    <3>3. QED
      BY <3>1, <3>2
  <2>4. k \in Nat
    BY <2>1, <2>3, Sizes, ReceiveBasics
  <2>5. n \in Length \cup {0}
    <3>1. 1 \in 1 .. Len(rfifo)
      BY <2>3, Sizes, ReceiveBasics
    <3>2. rfifo[1] \in Byte
      BY <3>1, ReceiveBasics, ElementOfSeq
    <3>3. QED
      BY <2>1, <3>2 DEF Byte, Bad
  <2>6. PhrLen \in Nat /\ 0 \in Nat /\ TRUE \in BOOLEAN
    BY Sizes
  <2>7. QED
    BY <1>1, <2>2, <2>4, <2>5, <2>6, ReadKeeps
<1>3. CASE ~ (rfifo # << >> /\ Right(0, PhrLen, rfifo[1].n, 1))
  <2>1. Receive_init(TRUE) /\ whole' = whole
    BY <1>3 DEF ReadFrameHead
  <2>2. QED
    BY <1>1, <2>1, ReceiveInitKeeps, ReceiveBasics
<1>4. QED
  BY <1>2, <1>3

LEMMA MoreKeeps == ASSUME IInv, ReadMore, UNCHANGED sendVars PROVE IInv'
<1>1. mode = "receive" /\ mode' = mode /\ ph_pend' = {} /\ UNCHANGED RF_int_flag
  BY DEF ReadMore, Reading
<1>2. PICK k : k = IF "RX" \in ph_pend THEN Len(rfifo) ELSE RxChunk
  OBVIOUS
<1>3. k \in Nat /\ 0 \in Nat /\ Read(payload, 0, crc, pos, k)
  BY <1>2, Sizes, ReceiveBasics DEF ReadMore
<1>4. QED
  BY <1>1, <1>3, ReceiveBasics, ReadKeeps

LEMMA TimeoutKeeps == ASSUME IInv, Timeout, UNCHANGED sendVars PROVE IInv'
<1>1. /\ mode = "receive" /\ mode' = mode /\ UNCHANGED <<RF_int_flag, ph_pend>>
      /\ step = "look" /\ ph_pend' = {}
  BY DEF Timeout, TimedOut, IInv, Quiet
<1>2. PICK k \in Nat : k = Len(rfifo)
  BY ReceiveBasics
<1>3. CASE RF_receive_flag = 3 /\ pos + k <= BufMax /\ Complete(payload, pos + k)
  <2>1. Read(payload, 0, crc, pos, k) /\ 0 \in Nat
    BY <1>2, <1>3 DEF Timeout
  <2>2. QED
    BY <1>1, <2>1, ReceiveBasics, ReadKeeps
<1>4. CASE ~ (RF_receive_flag = 3 /\ pos + k <= BufMax /\ Complete(payload, pos + k))
  <2>1. wireless_phy_init /\ step' = "look" /\ whole' \in {"no", "coming", "in"}
    BY <1>1, <1>2, <1>4, ReceiveBasics DEF Timeout
  <2>2. QED
    BY <1>1, <2>1, AgainKeeps
<1>5. QED
  BY <1>3, <1>4

LEMMA CrcErrorKeeps == ASSUME IInv, CrcError, UNCHANGED sendVars PROVE IInv'
<1>1. /\ step = "error" /\ step' = "look" /\ RF_receive_flag' = 2 /\ ph_pend' = {}
      /\ UNCHANGED <<mode, RF_int_flag, ph_pend, pend, timer_out_flag, payload, pos, crc, rfifo,
                     coming, from, whole>>
  BY DEF CrcError, IInv, Quiet
<1>2. ChipType' /\ SendType'
  BY <1>1, Parts DEF IInv, ChipType, SendType, sendVars
<1>3. ReceiveType'
  <2>1. RF_receive_flag' \in 0 .. 3
    BY <1>1
  <2>2. QED
    BY <1>1, <2>1, Parts DEF IInv, ReceiveType
<1>4. Quiet' /\ Remains'
  BY <1>1 DEF IInv, Quiet, Remains, Total, sendVars
<1>5. \A e : Open(e)' => Open(e)
  BY <1>1 DEF Open
<1>6. Sends => Sends'
  BY <1>1, <1>5 DEF sendVars, Sends, InOrder, Fed, Total, Room, Out
<1>7. QED
  BY <1>1, <1>2, <1>3, <1>4, <1>6, NextParts DEF IInv

LEMMA ReceiveKeeps == ASSUME IInv, ReceiveStep, UNCHANGED sendVars PROVE IInv'
<1>1. CASE ReadUnsynced
  BY <1>1, AgainKeeps, ReceiveBasics DEF ReadUnsynced, Reading
<1>2. QED
  BY <1>1, HeadKeeps, MoreKeeps, StopTimerKeeps, StartedKeeps, CrcErrorKeeps, TimeoutKeeps
     DEF ReceiveStep

LEMMA SyncKeeps == ASSUME IInv, NEW n \in Length, Sync(n), UNCHANGED sendVars PROVE IInv'
<1>1. /\ mode = "receive" /\ mode' = mode /\ coming' = Total(n) /\ from' = n
      /\ UNCHANGED <<RF_int_flag, pend, payload, pos, crc, rfifo>>
  BY DEF Sync
<1>2. ChipType /\ ReceiveType /\ Quiet
  BY Parts DEF IInv
<1>3. /\ step' \in {"look", "clear", "act", "reset", "start", "error"}
      /\ ph_pend' \subseteq {"FULL", "RX"}
      /\ step' \notin {"clear", "act"} => ph_pend' = {}
  BY <1>1, <1>2 DEF Sync, Acted, ChipType, Quiet
<1>4. /\ RF_receive_flag' \in {1, RF_receive_flag} /\ timer_out_flag' \in {TRUE, timer_out_flag}
      /\ whole' \in {"no", "coming"}
  BY DEF Sync
<1>5. coming' \in 0 .. Total(MaxPayload)
  <2>1. Total(n) \in Nat /\ Total(MaxPayload) \in Nat /\ Total(n) <= Total(MaxPayload)
    BY Sizes DEF Total
  <2>2. QED
    BY <1>1, <2>1
<1>6. RF_receive_flag' \in 0 .. 3
  BY <1>2, <1>4 DEF ReceiveType
<1>7. timer_out_flag' \in BOOLEAN
  BY <1>2, <1>4 DEF ReceiveType
<1>8. ReceiveType'
  BY <1>1, <1>2, <1>4, <1>5, <1>6, <1>7 DEF ReceiveType
<1>9. Remains'
  <2>1. Total(from)' = Total(n) /\ Total(n) \in Nat
    BY <1>1, Sizes DEF Total
  <2>2. QED
    BY <1>1, <2>1 DEF Remains
<1>10. pend' \subseteq {"FULL", "RX"} /\ RF_int_flag' \in BOOLEAN
  BY <1>1, <1>2 DEF ChipType
<1>11. QED
  BY <1>1, <1>3, <1>8, <1>9, <1>10, ReceiverOnly

LEMMA ArriveKeeps == ASSUME IInv, Arrive, UNCHANGED sendVars PROVE IInv'
<1>1. coming > 0 /\ coming \in Nat /\ ReceiveType /\ ChipType
  BY ReceiveBasics, Parts DEF Arrive, IInv
<1>2. mode # "send" /\ mode = "receive"
  BY <1>1 DEF IInv, Sends, ChipType
<1>3. /\ coming' = coming - 1 /\ UNCHANGED <<mode, step, ph_pend>>
      /\ UNCHANGED <<RF_receive_flag, timer_out_flag, payload, pos, crc, from>>
      /\ pend' \subseteq pend \cup {"FULL", "RX"} /\ whole' \in {"no", "in", whole}
  BY DEF Arrive, Raise
<1>4. RF_int_flag' \in BOOLEAN
  BY <1>1 DEF Arrive, Raise, ChipType
<1>5. Total(MaxPayload) \in Nat
  BY SendBasics DEF IInv
<1>6. PICK b : b = IF from = 0 THEN Bad ELSE [n |-> from, i |-> Total(from) - coming + 1]
  OBVIOUS
<1>7. b \in Byte
  <2>1. CASE from = 0
    BY <1>6, <2>1 DEF Byte
  <2>2. CASE from # 0
    <3>1. from \in Length /\ coming <= Total(from)
      BY <1>1, <2>2 DEF ReceiveType, IInv, Remains
    <3>2. Total(from) \in Nat /\ Total(from) <= Total(MaxPayload)
      BY <3>1, Sizes DEF Total
    <3>3. Total(from) - coming + 1 \in 1 .. Total(MaxPayload)
      BY <1>1, <1>5, <3>1, <3>2
    <3>4. QED
      BY <1>6, <2>2, <3>1, <3>3 DEF Byte
  <2>3. QED
    BY <2>1, <2>2
<1>8. rfifo' \in Seq(Byte) /\ Len(rfifo') <= Fifo
  <2>1. rfifo' = IF Len(rfifo) < Fifo THEN Append(rfifo, b) ELSE rfifo
    BY <1>6 DEF Arrive
  <2>2. Append(rfifo, b) \in Seq(Byte) /\ Len(Append(rfifo, b)) = Len(rfifo) + 1
    BY <1>7, ReceiveBasics, AppendProperties
  <2>3. QED
    BY <2>1, <2>2, ReceiveBasics, Sizes
<1>9. coming' \in 0 .. Total(MaxPayload)
  BY <1>1, <1>3, <1>5 DEF ReceiveType
<1>10. ReceiveType'
  BY <1>1, <1>3, <1>8, <1>9 DEF ReceiveType
<1>11. Remains'
  <2>1. Total(from)' = Total(from)
    BY <1>3 DEF Total
  <2>2. CASE from # 0
    <3>1. from \in Length /\ coming <= Total(from)
      BY <1>1, <2>2 DEF ReceiveType, IInv, Remains
    <3>2. Total(from) \in Nat
      BY <3>1, Sizes DEF Total
    <3>3. QED
      BY <1>1, <1>3, <2>1, <3>1, <3>2 DEF Remains
  <2>3. QED
    BY <1>3, <2>2 DEF Remains
<1>12. /\ pend' \subseteq {"FULL", "RX"} /\ ph_pend' \subseteq {"FULL", "RX"}
       /\ step' \in {"look", "clear", "act", "reset", "start", "error"}
       /\ step' \notin {"clear", "act"} => ph_pend' = {}
  BY <1>1, <1>2, <1>3 DEF ChipType, IInv, Quiet
<1>13. QED
  BY <1>2, <1>3, <1>4, <1>10, <1>11, <1>12, ReceiverOnly

LEMMA BreakOffKeeps == ASSUME IInv, BreakOff, UNCHANGED sendVars PROVE IInv'
<1>1. /\ from' = 0 /\ whole' = "no" /\ coming > 0
      /\ UNCHANGED <<mode, step, RF_int_flag, ph_pend, pend>>
      /\ UNCHANGED <<RF_receive_flag, timer_out_flag, payload, pos, crc, rfifo, coming>>
  BY DEF BreakOff, frameVars
<1>2. ReceiveType' /\ ChipType /\ Remains' /\ Quiet
  BY <1>1, Parts DEF IInv, ReceiveType, Remains
<1>3. mode = "receive"
  BY <1>1, <1>2, ReceiveBasics DEF IInv, Sends, ChipType
<1>4. QED
  BY <1>1, <1>2, <1>3, ReceiverOnly DEF ChipType, Quiet

-----------------------------------------------------------------------------
LEMMA NextKeeps == ASSUME IInv, [Next]_vars PROVE IInv'
<1>1. CASE Send
  BY <1>1, StartKeeps
<1>2. CASE Sending
  BY <1>2, FeedKeeps, IgnoreKeeps, ReturnKeeps DEF Sending, SendDone, SendTimeout
<1>3. CASE Checking
  BY <1>3, CheckKeeps, ClearKeeps DEF Checking
<1>4. CASE Receiving
  BY <1>4, ReceiveKeeps DEF Receiving
<1>5. CASE Transmit
  BY <1>5, TransmitKeeps, UnderflowKeeps DEF Transmit
<1>6. CASE Hear
  BY <1>6, SyncKeeps, BreakOffKeeps DEF Hear
<1>7. CASE Incoming
  BY <1>7, ArriveKeeps DEF Incoming
<1>8. CASE UNCHANGED vars
  <2>1. ChipType' /\ SendType' /\ ReceiveType' /\ Remains' /\ Quiet'
    BY <1>8, Parts DEF vars, frameVars, sendVars, receiveVars, IInv, ChipType, SendType,
                       ReceiveType, Remains, Total, Quiet
  <2>2. mode' = mode
    BY <1>8 DEF vars, frameVars
  <2>3. Sends => Sends'
    BY <1>8 DEF vars, frameVars, sendVars, receiveVars, Sends, InOrder, Fed, Total, Room, Out, Open
  <2>4. QED
    BY <2>1, <2>2, <2>3, NextParts DEF IInv
<1>9. QED
  BY <1>1, <1>2, <1>3, <1>4, <1>5, <1>6, <1>7, <1>8 DEF Next

LEMMA Invariance == Spec => []IInv
BY InitHolds, NextKeeps, PTL DEF Spec

(* A frame on which Si4438_SendFrame reports success went out whole.       *)
LEMMA ToldWhole == IInv => SentWhole
<1> SUFFICES ASSUME IInv, Told PROVE air = Span(1, Total(length))
  BY DEF SentWhole
<1>1. Sends /\ Open("SENT") /\ remainder = 0
  BY DEF IInv, Told, Open
<1>2. Len(air) = Total(length) /\ \A i \in 1 .. Len(air) : air[i] = i
  BY <1>1 DEF Sends, InOrder, Out
<1>3. PICK m \in Nat : m = Total(length) /\ m <= Total(MaxPayload) /\ m >= 1
  <2>1. Total(length) >= 1
    BY SendBasics, Sizes DEF IInv
  <2>2. QED
    BY <2>1, SendBasics DEF IInv
<1>4. PICK a \in Nat : a = 1 /\ 1 <= a /\ a <= m + 1 /\ m <= m
  BY <1>3
<1>5. /\ Len(Span(a, m)) = m - a + 1 /\ \A i \in 1 .. m - a + 1 : Span(a, m)[i] = a + i - 1
  BY <1>3, <1>4, SpanType
<1>6. Span(a, m) \in Seq(1 .. Total(MaxPayload))
  BY <1>3, <1>4, SpanType, SendBasics DEF IInv
<1>7. Len(Span(a, m)) = Len(air) /\ \A i \in 1 .. Len(air) : air[i] = Span(a, m)[i]
  BY <1>2, <1>3, <1>4, <1>5
<1>8. air \in Seq(1 .. Total(MaxPayload))
  BY SendBasics DEF IInv
<1>9. air = Span(a, m)
  BY <1>6, <1>7, <1>8, SeqEqual
<1>10. QED
  BY <1>3, <1>4, <1>9

(* The node's state keeps its types for any sizes: Si4438_ReceiveFrame     *)
(* writes within the caller's buffer, Si4438_SendFrame reads within the    *)
(* frame, and each acts on interrupts of its own direction only.           *)
THEOREM RadioType == Spec => []TypeOK
BY Invariance, PTL DEF IInv

(* For any sizes of frames, FIFO, chunks and thresholds that the           *)
(* assumptions admit, Si4438_SendFrame returns TRUE only when all of the   *)
(* frame is out, each byte once and in its place.                          *)
THEOREM FrameSent == Spec => []SentWhole
BY Invariance, ToldWhole, PTL
=============================================================================

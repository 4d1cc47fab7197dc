-------------------------- MODULE EventRingProofs --------------------------
(***************************************************************************)
(* For every ring size and counter width that RingAssumption admits, the   *)
(* ring keeps its type and implements the bounded FIFO.                    *)
(***************************************************************************)
EXTENDS EventRing, SequenceTheorems, TLAPS

(* The modulo of a sum of an index and a count: at most one wrap.          *)
LEMMA ModOnce ==
  ASSUME NEW n \in Nat \ {0}, NEW a \in 0 .. 2 * n - 1
  PROVE  a % n = IF a < n THEN a ELSE a - n
<1>1. CASE a < n
  BY <1>1
<1>2. CASE a >= n
  <2>1. a - n \in 0 .. n - 1
    BY <1>2
  <2> QED
    BY <1>2, <2>1, Z3
<1> QED
  BY <1>1, <1>2

(* The same for the ring: where the entry i places after fevent is.        *)
LEMMA RingMod ==
  \A a \in 0 .. 2 * NUMEVENTS - 1 :
      a % NUMEVENTS = IF a < NUMEVENTS THEN a ELSE a - NUMEVENTS
BY ModOnce, RingAssumption

(* Under the assumption on the sizes the casts of process_post and         *)
(* do_event never change a value.                                          *)
LEMMA CastsKeep ==
  ASSUME TypeOK
  PROVE  /\ nevents # NUMEVENTS => /\ Snum = (fevent + nevents) % NUMEVENTS
                                   /\ Snum \in Index
                                   /\ Wrap(nevents + 1) = nevents + 1
         /\ nevents > 0 => Wrap(nevents - 1) = nevents - 1
         /\ Wrap((fevent + 1) % NUMEVENTS) = (fevent + 1) % NUMEVENTS
         /\ (fevent + 1) % NUMEVENTS \in Index
<1>. /\ fevent \in 0 .. NUMEVENTS - 1 /\ nevents \in 0 .. NUMEVENTS
     /\ NUMEVENTS \in Nat \ {0} /\ NumRange \in Nat \ {0}
     /\ NUMEVENTS < NumRange /\ 2 * NUMEVENTS - 2 < NumRange
  BY RingAssumption DEF TypeOK, Index
<1>1. ASSUME NEW v \in 0 .. NumRange - 1
      PROVE  Wrap(v) = v
  BY <1>1, ModOnce DEF Wrap
<1>2. (fevent + 1) % NUMEVENTS \in 0 .. NUMEVENTS - 1
  OBVIOUS
<1>3. Wrap((fevent + 1) % NUMEVENTS) = (fevent + 1) % NUMEVENTS
  BY <1>1, <1>2
<1>4. nevents > 0 => Wrap(nevents - 1) = nevents - 1
  BY <1>1
<1>5. ASSUME nevents # NUMEVENTS
      PROVE  /\ Snum = (fevent + nevents) % NUMEVENTS
             /\ Snum \in Index
             /\ Wrap(nevents + 1) = nevents + 1
  <2>1. fevent + nevents \in 0 .. 2 * NUMEVENTS - 2 /\ nevents + 1 \in 0 .. NUMEVENTS
    BY <1>5
  <2>2. Wrap(nevents + 1) = nevents + 1
    BY <1>1, <2>1
  <2>3. Wrap(fevent + nevents) = fevent + nevents
    BY <1>1, <2>1
  <2>4. Snum = (fevent + nevents) % NUMEVENTS
    BY <2>3 DEF Snum
  <2>5. Snum \in Index
    BY <2>1, <2>4 DEF Index
  <2> QED
    BY <2>2, <2>4, <2>5
<1> QED
  BY <1>2, <1>3, <1>4, <1>5 DEF Index

(* No step drives an index out of the ring or a counter past its size.     *)
THEOREM RingType == Spec => []TypeOK
<1>1. Init => TypeOK
  BY RingAssumption DEF Init, TypeOK, Index
<1>2. TypeOK /\ [Next]_vars => TypeOK'
  <2> SUFFICES ASSUME TypeOK, [Next]_vars
               PROVE  TypeOK'
    OBVIOUS
  <2>1. ASSUME NEW e \in Event, PostOk(e)
        PROVE  TypeOK'
    <3>1. nevents' \in 0 .. NUMEVENTS
      BY <2>1, CastsKeep, RingAssumption DEF PostOk, TypeOK
    <3>2. events' \in [Index -> Event]
      BY <2>1, CastsKeep DEF PostOk, TypeOK
    <3> QED
      BY <2>1, <3>1, <3>2 DEF PostOk, TypeOK
  <2>2. ASSUME NEW e \in Event, PostFull(e)
        PROVE  TypeOK'
    BY <2>2 DEF PostFull, TypeOK
  <2>3. CASE TakeEvent
    <3>1. nevents' \in 0 .. NUMEVENTS /\ fevent' \in Index
      BY <2>3, CastsKeep, RingAssumption DEF TakeEvent, TypeOK
    <3>2. taken' \in Event
      BY <2>3 DEF TakeEvent, TypeOK
    <3> QED
      BY <2>3, <3>1, <3>2 DEF TakeEvent, TypeOK
  <2>4. CASE UNCHANGED vars
    BY <2>4 DEF vars, TypeOK
  <2> QED
    BY <2>1, <2>2, <2>3, <2>4 DEF Next
<1> QED
  BY <1>1, <1>2, PTL DEF Spec

-----------------------------------------------------------------------------
(* The sequence the ring stores has one entry per counted event.           *)
LEMMA StoredType ==
  ASSUME NEW ring \in [Index -> Event], NEW first \in Index, NEW n \in 0 .. NUMEVENTS
  PROVE  /\ Stored(ring, first, n) \in Seq(Event)
         /\ Len(Stored(ring, first, n)) = n
         /\ \A i \in 1 .. n : Stored(ring, first, n)[i] = ring[(first + i - 1) % NUMEVENTS]
<1>1. ASSUME NEW i \in 1 .. n
      PROVE  ring[(first + i - 1) % NUMEVENTS] \in Event
  <2>1. (first + i - 1) % NUMEVENTS \in Index
    BY RingAssumption DEF Index
  <2> QED
    BY <2>1
<1>2. n \in Nat
  BY RingAssumption
<1> QED
  BY <1>1, <1>2 DEF Stored

Shape == /\ Contents \in Seq(Event)
         /\ Len(Contents) = nevents
         /\ \A i \in 1 .. nevents : Contents[i] = events[(fevent + i - 1) % NUMEVENTS]

LEMMA ContentsType == TypeOK => Shape
BY StoredType DEF TypeOK, Contents, Shape

LEMMA ContentsTypeNext == TypeOK' => Shape'
BY ContentsType, PTL

(* A post writes just behind the stored sequence: none of its entries is   *)
(* overwritten.                                                            *)
LEMMA PostAppends ==
  ASSUME TypeOK, TypeOK', NEW e \in Event, PostOk(e)
  PROVE  Contents' = Append(Contents, e)
<1>1. /\ events' = [events EXCEPT ![(fevent + nevents) % NUMEVENTS] = e]
      /\ nevents' = nevents + 1
      /\ fevent' = fevent
      /\ (fevent + nevents) % NUMEVENTS \in Index
      /\ fevent \in 0 .. NUMEVENTS - 1 /\ nevents \in 0 .. NUMEVENTS - 1
      /\ NUMEVENTS \in Nat \ {0}
  <2>1. /\ Snum = (fevent + nevents) % NUMEVENTS /\ Snum \in Index
        /\ Wrap(nevents + 1) = nevents + 1
    BY CastsKeep DEF PostOk
  <2>2. /\ fevent \in 0 .. NUMEVENTS - 1 /\ nevents \in 0 .. NUMEVENTS - 1
        /\ NUMEVENTS \in Nat \ {0}
    BY RingAssumption DEF PostOk, TypeOK, Index
  <2> QED
    BY <2>1, <2>2 DEF PostOk
<1>2. ASSUME NEW i \in 1 .. nevents
      PROVE  events'[(fevent + i - 1) % NUMEVENTS] = events[(fevent + i - 1) % NUMEVENTS]
  <2>1. fevent + i - 1 \in 0 .. 2 * NUMEVENTS - 1 /\ fevent + nevents \in 0 .. 2 * NUMEVENTS - 1
    BY <1>1
  <2>2. (fevent + i - 1) % NUMEVENTS
          = IF fevent + i - 1 < NUMEVENTS THEN fevent + i - 1 ELSE fevent + i - 1 - NUMEVENTS
    BY <1>1, <2>1, RingMod
  <2>3. (fevent + nevents) % NUMEVENTS
          = IF fevent + nevents < NUMEVENTS THEN fevent + nevents ELSE fevent + nevents - NUMEVENTS
    BY <1>1, <2>1, RingMod
  <2>4. (fevent + i - 1) % NUMEVENTS # (fevent + nevents) % NUMEVENTS
    BY <1>1, <2>2, <2>3
  <2>5. (fevent + i - 1) % NUMEVENTS \in Index
    BY <1>1 DEF Index
  <2> QED
    BY <1>1, <2>4, <2>5 DEF TypeOK
<1>3. events'[(fevent + nevents) % NUMEVENTS] = e
  BY <1>1 DEF TypeOK
<1>4. ASSUME NEW i \in 1 .. nevents + 1
      PROVE  Contents'[i] = Append(Contents, e)[i]
  <2>1. Contents'[i] = events'[(fevent' + i - 1) % NUMEVENTS]
    BY <1>1, ContentsTypeNext DEF Shape
  <2>2. CASE i \in 1 .. nevents
    <3>1. Append(Contents, e)[i] = Contents[i] /\ Contents[i] = events[(fevent + i - 1) % NUMEVENTS]
      BY <2>2, ContentsType DEF Shape
    <3> QED
      BY <1>1, <1>2, <2>1, <2>2, <3>1
  <2>3. CASE i = nevents + 1
    <3>1. Append(Contents, e)[i] = e
      BY <2>3, ContentsType DEF Shape
    <3>2. fevent' + i - 1 = fevent + nevents
      BY <1>1, <2>3
    <3> QED
      BY <1>3, <2>1, <3>1, <3>2
  <2>4. i \in 1 .. nevents \/ i = nevents + 1
    BY <1>1
  <2> QED
    BY <2>2, <2>3, <2>4
<1>5. /\ Contents' \in Seq(Event) /\ Len(Contents') = nevents + 1
      /\ Append(Contents, e) \in Seq(Event) /\ Len(Append(Contents, e)) = nevents + 1
  <2>1. Contents' \in Seq(Event) /\ Len(Contents') = nevents + 1
    BY <1>1, ContentsTypeNext DEF Shape
  <2>2. Append(Contents, e) \in Seq(Event) /\ Len(Append(Contents, e)) = nevents + 1
    BY <1>1, ContentsType DEF Shape
  <2> QED
    BY <2>1, <2>2
<1> QED
  BY <1>4, <1>5, SeqEqual

(* do_event takes the oldest entry and leaves the others in their order.   *)
LEMMA TakeRemoves ==
  ASSUME TypeOK, TypeOK', TakeEvent
  PROVE  /\ Contents # << >>
         /\ taken' = Head(Contents)
         /\ Contents' = Tail(Contents)
<1>1. /\ events' = events
      /\ nevents' = nevents - 1
      /\ fevent' = (fevent + 1) % NUMEVENTS
      /\ taken' = events[fevent]
      /\ fevent \in 0 .. NUMEVENTS - 1 /\ nevents \in 1 .. NUMEVENTS
      /\ NUMEVENTS \in Nat \ {0}
  BY CastsKeep, RingAssumption DEF TakeEvent, TypeOK, Index
<1>2. Contents # << >> /\ Head(Contents) = events[fevent]
  <2>1. 1 \in 1 .. nevents /\ fevent + 1 - 1 = fevent /\ fevent % NUMEVENTS = fevent
    BY <1>1, RingMod
  <2>2. Len(Contents) = nevents /\ Contents[1] = events[fevent]
    BY <2>1, ContentsType DEF Shape
  <2> QED
    BY <1>1, <2>1, <2>2, ContentsType DEF Shape
<1>3. ASSUME NEW i \in 1 .. nevents - 1
      PROVE  Contents'[i] = Tail(Contents)[i]
  <2>1. Contents'[i] = events'[(fevent' + i - 1) % NUMEVENTS]
    BY <1>1, ContentsTypeNext DEF Shape
  <2>2. Tail(Contents)[i] = Contents[i + 1]
    BY <1>1, <1>2, ContentsType, HeadTailProperties DEF Shape
  <2>3. Contents[i + 1] = events[(fevent + i) % NUMEVENTS]
    <3>1. i + 1 \in 1 .. nevents /\ fevent + (i + 1) - 1 = fevent + i
      BY <1>1
    <3> QED
      BY <3>1, ContentsType DEF Shape
  <2>4. (fevent + 1) % NUMEVENTS
           = IF fevent + 1 < NUMEVENTS THEN fevent + 1 ELSE fevent + 1 - NUMEVENTS
    BY <1>1, RingMod
  <2>5. (fevent + i) % NUMEVENTS
           = IF fevent + i < NUMEVENTS THEN fevent + i ELSE fevent + i - NUMEVENTS
    BY <1>1, RingMod
  <2>6. CASE fevent + 1 < NUMEVENTS
    <3>1. fevent' + i - 1 = fevent + i
      BY <1>1, <2>4, <2>6
    <3> QED
      BY <1>1, <2>1, <2>2, <2>3, <3>1
  <2>7. CASE fevent + 1 >= NUMEVENTS
    <3>1. fevent' + i - 1 = i - 1 /\ fevent + i - NUMEVENTS = i - 1
      BY <1>1, <2>4, <2>7
    <3>2. (i - 1) % NUMEVENTS = i - 1
      BY <1>1, RingMod
    <3>3. (fevent + i) % NUMEVENTS = i - 1
      BY <1>1, <2>5, <2>7, <3>1
    <3> QED
      BY <1>1, <2>1, <2>2, <2>3, <3>1, <3>2, <3>3
  <2>8. fevent + 1 < NUMEVENTS \/ fevent + 1 >= NUMEVENTS
    BY <1>1
  <2> QED
    BY <2>6, <2>7, <2>8
<1>4. /\ Contents' \in Seq(Event) /\ Len(Contents') = nevents - 1
      /\ Tail(Contents) \in Seq(Event) /\ Len(Tail(Contents)) = nevents - 1
  <2>1. Contents' \in Seq(Event) /\ Len(Contents') = nevents - 1
    BY <1>1, ContentsTypeNext DEF Shape
  <2> QED
    BY <1>1, <1>2, <2>1, ContentsType, HeadTailProperties DEF Shape
<1> QED
  BY <1>1, <1>2, <1>3, <1>4, SeqEqual

(* For every ring size: what process_post and do_event do to the ring is   *)
(* what the bounded FIFO allows.                                           *)
THEOREM RingImplementsQueue == Spec => RingIsQueue
<1>1. Init => Queue!Init
  <2> SUFFICES ASSUME Init
               PROVE  Queue!Init
    OBVIOUS
  <2>1. Contents = << >>
    BY DEF Init, Contents, Stored
  <2> QED
    BY <2>1 DEF Init, Queue!Init
<1>2. TypeOK /\ TypeOK' /\ [Next]_vars => [Queue!Next]_(Queue!vars)
  <2> SUFFICES ASSUME TypeOK, TypeOK', [Next]_vars
               PROVE  [Queue!Next]_(Queue!vars)
    OBVIOUS
  <2>1. ASSUME NEW e \in Event, PostOk(e)
        PROVE  Queue!Post(e)
    <3>1. Len(Contents) < NUMEVENTS
      BY <2>1, ContentsType, RingAssumption DEF PostOk, TypeOK, Shape
    <3> QED
      BY <2>1, <3>1, PostAppends DEF Queue!Post, PostOk
  <2>2. ASSUME NEW e \in Event, PostFull(e)
        PROVE  Queue!Post(e)
    <3>1. Contents' = Contents
      BY <2>2 DEF PostFull, Contents
    <3>2. Len(Contents) = NUMEVENTS
      BY <2>2, ContentsType DEF PostFull, Shape
    <3> QED
      BY <2>2, <3>1, <3>2 DEF PostFull, Queue!Post
  <2>3. CASE TakeEvent
    BY <2>3, TakeRemoves DEF Queue!Take, Queue!Next, TakeEvent
  <2>4. CASE UNCHANGED vars
    BY <2>4 DEF vars, Queue!vars, Contents
  <2> QED
    BY <2>1, <2>2, <2>3, <2>4 DEF Next, Queue!Next
<1> QED
  BY <1>1, <1>2, RingType, PTL DEF Spec, RingIsQueue, Queue!Spec
=============================================================================

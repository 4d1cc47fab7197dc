---------------------------- MODULE EtimerProofs ----------------------------
(***************************************************************************)
(* For any timers, clients, intervals and clock range: the event timers    *)
(* keep their types, the list holds no timer twice, and every timer on it  *)
(* belongs to a live process; the wrapping arithmetic of timer_expired,    *)
(* update_time and SysTick_Handler agrees with the real time to each       *)
(* timer's due time, which no adjustment moves out of its bounds; and      *)
(* every due timer is noticed: next_expiration is the time the tick has to *)
(* look for, or a poll that will look at the whole list is outstanding.    *)
(* The latter needs that no adjustment moves a due time closer.            *)
(***************************************************************************)
EXTENDS Etimer, SequenceTheorems, FiniteSetTheorems, WellFoundedInduction, TLAPS

(* Whose handler runs: a live client's, or that of the client whose timers *)
(* are being dropped; update_time is called by such a handler or, with cur *)
(* NONE, from the scan.                                                    *)
Runs == /\ pc \in {"main", "run", "event", "scan"} => cur = NONE
        /\ pc = "handler" => cur \in alive
        /\ pc \in {"update", "store"} => cur \in alive \cup {NONE}
        /\ pc = "drop" => cur \in Client

IInv == TypeOK /\ ListedOwned /\ Runs

-----------------------------------------------------------------------------
LEMMA WrapTime == \A n \in Int : Wrap(n) \in Time
<1>1. ClockRange \in Nat /\ ClockRange > 0
  BY EtimerAssumption
<1>2. QED
  BY <1>1 DEF Wrap, Time

(* What is left of a list when its i-th entry is taken out.                *)
LEMMA RemoveAtFacts ==
  ASSUME NEW S, NEW s \in Seq(S), NEW i \in DOMAIN s
  PROVE  /\ RemoveAt(s, i) \in Seq(S)
         /\ Len(RemoveAt(s, i)) = Len(s) - 1
         /\ \A j \in DOMAIN RemoveAt(s, i) :
              \E k \in DOMAIN s :
                /\ RemoveAt(s, i)[j] = s[k] /\ k # i
                /\ k = IF j < i THEN j ELSE j + 1
<1> DEFINE a == SubSeq(s, 1, i - 1)
           b == SubSeq(s, i + 1, Len(s))
<1>1. DOMAIN s = 1 .. Len(s) /\ Len(s) \in Nat /\ i \in Int
  BY LenProperties
<1>2. /\ a \in Seq(S) /\ Len(a) = i - 1
      /\ \A j \in 1 .. i - 1 : a[j] = s[j]
  <2>1. \A j \in 1 .. i - 1 : s[j] \in S
    BY <1>1, ElementOfSeq
  <2>2. QED
    BY <1>1, <2>1, SubSeqProperties
<1>3. /\ b \in Seq(S) /\ Len(b) = Len(s) - i
      /\ \A j \in 1 .. Len(s) - i : b[j] = s[i + j]
  <2>1. \A j \in i + 1 .. Len(s) : s[j] \in S
    BY <1>1, ElementOfSeq
  <2>2. /\ b \in Seq(S)
        /\ Len(b) = IF i + 1 <= Len(s) THEN Len(s) - (i + 1) + 1 ELSE 0
        /\ \A j \in 1 .. Len(s) - (i + 1) + 1 : b[j] = s[i + 1 + j - 1]
    BY <1>1, <2>1, SubSeqProperties
  <2>3. QED
    BY <1>1, <2>2
<1> DEFINE c == a \o b
<1>4. RemoveAt(s, i) = c
  BY DEF RemoveAt
<1> HIDE DEF a, b
<1>5. Len(a) + Len(b) = Len(s) - 1
  BY <1>1, <1>2, <1>3
<1>6. /\ c \in Seq(S) /\ Len(c) = Len(a) + Len(b)
      /\ \A j \in 1 .. Len(a) + Len(b) :
           c[j] = IF j <= Len(a) THEN a[j] ELSE b[j - Len(a)]
  BY <1>2, <1>3, ConcatProperties
<1> HIDE DEF c
<1>7. \A j \in 1 .. Len(s) - 1 : c[j] = IF j < i THEN s[j] ELSE s[j + 1]
  <2> SUFFICES ASSUME NEW j \in 1 .. Len(s) - 1
               PROVE  c[j] = IF j < i THEN s[j] ELSE s[j + 1]
    OBVIOUS
  <2>1. c[j] = IF j <= i - 1 THEN a[j] ELSE b[j - (i - 1)]
    BY <1>2, <1>5, <1>6
  <2>2. CASE j < i
    BY <1>1, <1>2, <2>1, <2>2
  <2>3. CASE ~ (j < i)
    <3>1. j - (i - 1) \in 1 .. Len(s) - i
      BY <1>1, <2>3
    <3>2. b[j - (i - 1)] = s[i + (j - (i - 1))]
      BY <1>3, <3>1
    <3>3. i + (j - (i - 1)) = j + 1
      BY <1>1
    <3>4. QED
      BY <1>1, <2>1, <2>3, <3>2, <3>3
  <2>4. QED
    BY <2>2, <2>3
<1>8. DOMAIN c = 1 .. Len(s) - 1
  BY <1>5, <1>6, LenProperties
<1>9. ASSUME NEW j \in 1 .. Len(s) - 1
      PROVE  \E k \in 1 .. Len(s) :
               c[j] = s[k] /\ k # i /\ k = IF j < i THEN j ELSE j + 1
  <2>1. CASE j < i
    <3>1. j \in 1 .. Len(s) /\ j # i /\ c[j] = s[j]
      BY <1>1, <1>7, <1>9, <2>1
    <3>2. QED
      BY <2>1, <3>1
  <2>2. CASE ~ (j < i)
    <3>1. j + 1 \in 1 .. Len(s) /\ j + 1 # i /\ c[j] = s[j + 1]
      BY <1>1, <1>7, <1>9, <2>2
    <3>2. QED
      BY <2>2, <3>1
  <2>3. QED
    BY <2>1, <2>2
<1>10. QED
  BY <1>1, <1>4, <1>5, <1>6, <1>8, <1>9

(* A list with a new head.                                                 *)
LEMMA ConsFacts ==
  ASSUME NEW S, NEW s \in Seq(S), NEW e \in S
  PROVE  /\ <<e>> \o s \in Seq(S)
         /\ DOMAIN (<<e>> \o s) = 1 .. Len(s) + 1
         /\ \A j \in 1 .. Len(s) + 1 :
              (<<e>> \o s)[j] = IF j = 1 THEN e ELSE s[j - 1]
<1>1. <<e>> \in Seq(S) /\ Len(<<e>>) = 1 /\ <<e>>[1] = e
  OBVIOUS
<1>2. Len(s) \in Nat
  BY LenProperties
<1>3. QED
  BY <1>1, <1>2, ConcatProperties, LenProperties

(* A non-empty set of natural numbers has a least element.                 *)
LEMMA MinInSet ==
  ASSUME NEW D \in SUBSET Nat, D # {}
  PROVE  Min(D) \in D /\ \A y \in D : Min(D) <= y
<1> DEFINE Less == OpToRel(<, Nat)
<1>1. Less = {ss \in Nat \X Nat : ss[1] < ss[2]}
  BY DEF OpToRel
<1>2. IsWellFoundedOn(Less, Nat)
  BY NatLessThanWellFounded
<1> HIDE DEF Less
<1>3. PICK x \in D : \A y \in D : ~ (<<y, x>> \in Less)
  BY <1>2, WFMin
<1>4. ASSUME NEW y \in D PROVE x <= y
  <2>1. x \in Nat /\ y \in Nat
    BY <1>4
  <2>2. <<y, x>> \in Nat \X Nat /\ <<y, x>>[1] = y /\ <<y, x>>[2] = x
    BY <2>1
  <2>3. ~ (y < x)
    BY <1>1, <1>3, <1>4, <2>2
  <2>4. QED
    BY <2>1, <2>3
<1>5. QED
  BY <1>4 DEF Min

LEMMA UpdateTimeTyped == TypeOK => UpdateTime \in Time
<1> SUFFICES ASSUME TypeOK PROVE UpdateTime \in Time
  OBVIOUS
<1>1. CASE timerlist = << >>
  <2>1. 0 \in Time
    BY EtimerAssumption DEF Time
  <2>2. QED
    BY <1>1, <2>1 DEF UpdateTime
<1>2. CASE timerlist # << >>
  <2>1. \A i \in DOMAIN timerlist : Wrap(Expiration(timerlist[i]) - clock) \in Time
    <3> SUFFICES ASSUME NEW i \in DOMAIN timerlist
                 PROVE  Wrap(Expiration(timerlist[i]) - clock) \in Time
      OBVIOUS
    <3>1. timerlist[i] \in Timer
      BY ElementOfSeq, LenProperties DEF TypeOK
    <3>2. timer[timerlist[i]].start \in Int /\ timer[timerlist[i]].interval \in Int
      BY <3>1 DEF TypeOK, Time
    <3>3. Expiration(timerlist[i]) \in Int
      BY <3>2, WrapTime DEF Expiration, Time
    <3>4. clock \in Int
      BY DEF TypeOK, Time
    <3>5. Expiration(timerlist[i]) - clock \in Int
      BY <3>3, <3>4
    <3>6. QED
      BY <3>5, WrapTime
  <2>2. Distances \in SUBSET Nat /\ Distances # {}
    <3>1. timerlist \in Seq(Timer) /\ Len(timerlist) # 0
      BY <1>2, EmptySeq DEF TypeOK
    <3>2. 1 \in DOMAIN timerlist
      BY <3>1, LenProperties
    <3>3. Time \subseteq Nat
      BY DEF Time
    <3>4. QED
      BY <2>1, <3>2, <3>3 DEF Distances
  <2>3. Min(Distances) \in Int /\ clock \in Int
    <3>1. Min(Distances) \in Distances
      BY <2>2, MinInSet
    <3>2. Min(Distances) \in Nat
      BY <2>2, <3>1, Zenon
    <3>3. clock \in Int
      BY DEF TypeOK, Time
    <3>4. QED
      BY <3>2, <3>3
  <2>4. QED
    BY <1>2, <2>3, WrapTime DEF UpdateTime
<1>3. QED
  BY <1>1, <1>2

-----------------------------------------------------------------------------
(* A timer armed by a client's handler keeps the types, whatever the call. *)
LEMMA AddTimerTyped ==
  ASSUME IInv, NEW t \in Timer, NEW start \in Time, NEW interval \in Nat,
         InHandler, AddTimer(t, start, interval),
         remain' \in [Timer -> Int]
  PROVE  TypeOK'
<1>1. timer' \in [Timer -> [start : Time, interval : Nat, p : Client \cup {NONE}]]
  BY DEF IInv, TypeOK, AddTimer
<1>2. timerlist' \in Seq(Timer)
  BY ConsFacts DEF IInv, TypeOK, AddTimer
<1>3. left' \in 0 .. HandlerOps
  BY EtimerAssumption DEF IInv, TypeOK, AddTimer, InHandler
<1>4. QED
  BY <1>1, <1>2, <1>3 DEF IInv, TypeOK, AddTimer

LEMMA ScanTyped == IInv /\ Scan => TypeOK'
<1> SUFFICES ASSUME IInv, Scan PROVE TypeOK'
  OBVIOUS
<1> USE DEF IInv
<1>1. CASE ScanEnd
  BY <1>1 DEF TypeOK, Scan, ScanEnd
<1>2. CASE pos <= Len(timerlist)
           /\ (ScanPass(timerlist[pos]) \/ ScanFull(timerlist[pos]))
  <2>1. polled' \in BOOLEAN
    BY <1>2 DEF TypeOK, ScanPass, ScanFull
  <2>2. pos' \in Nat \ {0} /\ UNCHANGED <<timerlist, timer, queue, pc>>
    BY <1>2 DEF TypeOK, ScanPass, ScanFull
  <2>3. UNCHANGED <<clock, next_expiration, alive, cur, left, back, next_value, remain, stale>>
    BY DEF Scan
  <2>4. QED
    BY <2>1, <2>2, <2>3 DEF TypeOK
<1>3. CASE pos <= Len(timerlist) /\ ScanFire(timerlist[pos])
  <2>1. pos \in DOMAIN timerlist /\ timerlist[pos] \in Timer
    BY <1>3, LenProperties, ElementOfSeq DEF TypeOK
  <2>2. timerlist' \in Seq(Timer)
    BY <1>3, <2>1, RemoveAtFacts DEF TypeOK, ScanFire
  <2>3. timer[timerlist[pos]].p \in Client
    BY <2>1 DEF TypeOK, ListedOwned, Listed, Scan
  <2>4. [p |-> timer[timerlist[pos]].p, t |-> timerlist[pos]]
          \in [p : Client, t : Timer \cup {NONE}]
    BY <2>1, <2>3
  <2>5. queue' \in Seq([p : Client, t : Timer \cup {NONE}]) /\ Len(queue') <= NUMEVENTS
    BY <1>3, <2>4, AppendProperties, LenProperties, EtimerAssumption DEF TypeOK, ScanFire
  <2>6. timer' \in [Timer -> [start : Time, interval : Nat, p : Client \cup {NONE}]]
    BY <1>3, <2>1 DEF TypeOK, ScanFire
  <2>7. polled' \in BOOLEAN /\ pos' = 1 /\ pc' = "update"
    BY <1>3 DEF TypeOK, ScanFire
  <2>8. UNCHANGED <<clock, next_expiration, alive, cur, left, back, next_value, remain, stale>>
    BY DEF Scan
  <2>9. QED
    BY <2>2, <2>5, <2>6, <2>7, <2>8 DEF TypeOK
<1>4. QED
  BY <1>1, <1>2, <1>3 DEF Scan

LEMMA ClientTyped ==
  ASSUME IInv, NEW t \in Timer,
         \/ \E i \in Interval : EtimerSet(t, i)
         \/ \E td \in Shift : EtimerAdjust(t, td)
         \/ EtimerReset(t) \/ EtimerRestart(t) \/ EtimerStop(t)
  PROVE  TypeOK'
<1> USE DEF IInv
<1>1. /\ timer[t].start \in Time /\ timer[t].interval \in Nat
      /\ clock \in Time /\ remain[t] \in Int
      /\ timer[t].start \in Int
  BY DEF TypeOK, Time
<1>2. Interval \subseteq Nat /\ Shift \subseteq Int
  BY EtimerAssumption
<1>3. CASE \E i \in Interval : EtimerSet(t, i)
  <2>1. PICK i \in Interval : EtimerSet(t, i)
    BY <1>3
  <2>2. remain' \in [Timer -> Int]
    BY <1>2, <2>1 DEF TypeOK, EtimerSet
  <2>3. QED
    BY <1>1, <1>2, <2>1, <2>2, AddTimerTyped DEF EtimerSet
<1>4. CASE \E td \in Shift : EtimerAdjust(t, td)
  <2>1. PICK td \in Shift : EtimerAdjust(t, td)
    BY <1>4
  <2>2. Wrap(timer[t].start + td) \in Time
    BY <1>1, <1>2, WrapTime
  <2>3. timer' \in [Timer -> [start : Time, interval : Nat, p : Client \cup {NONE}]]
    BY <2>1, <2>2 DEF TypeOK, EtimerAdjust
  <2>4. remain' \in [Timer -> Int]
    BY <1>1, <1>2, <2>1 DEF TypeOK, EtimerAdjust
  <2>5. left' \in 0 .. HandlerOps
    BY <2>1, EtimerAssumption DEF TypeOK, EtimerAdjust, InHandler
  <2>6. QED
    BY <2>1, <2>3, <2>4, <2>5 DEF TypeOK, EtimerAdjust
<1>5. CASE EtimerReset(t)
  <2>1. Wrap(timer[t].start + timer[t].interval) \in Time
    BY <1>1, WrapTime
  <2>2. remain' \in [Timer -> Int]
    BY <1>1, <1>5 DEF TypeOK, EtimerReset
  <2>3. QED
    BY <1>1, <1>5, <2>1, <2>2, AddTimerTyped DEF EtimerReset
<1>6. CASE EtimerRestart(t)
  <2>1. remain' \in [Timer -> Int]
    BY <1>1, <1>6 DEF TypeOK, EtimerRestart
  <2>2. QED
    BY <1>1, <1>6, <2>1, AddTimerTyped DEF EtimerRestart
<1>7. CASE EtimerStop(t)
  <2>1. timer' \in [Timer -> [start : Time, interval : Nat, p : Client \cup {NONE}]]
    BY <1>7 DEF TypeOK, EtimerStop
  <2>2. timerlist' \in Seq(Timer)
    BY <1>7, RemoveAtFacts DEF TypeOK, EtimerStop
  <2>3. left' \in 0 .. HandlerOps /\ pc' \in {"handler", "update"}
    BY <1>7, EtimerAssumption DEF TypeOK, EtimerStop, InHandler
  <2>4. QED
    BY <1>7, <2>1, <2>2, <2>3 DEF TypeOK, EtimerStop
<1>8. QED
  BY <1>3, <1>4, <1>5, <1>6, <1>7

LEMMA TypeStep == IInv /\ [Next]_vars => TypeOK'
<1> SUFFICES ASSUME IInv, [Next]_vars PROVE TypeOK'
  OBVIOUS
<1> USE DEF IInv
<1>1. CASE SysTick
  <2>1. clock' \in Time
    BY <1>1, WrapTime DEF TypeOK, SysTick, Time
  <2>2. remain' \in [Timer -> Int]
    BY <1>1, EtimerAssumption DEF TypeOK, SysTick
  <2>3. polled' \in BOOLEAN
    BY <1>1 DEF TypeOK, SysTick
  <2>4. QED
    BY <1>1, <2>1, <2>2, <2>3 DEF TypeOK, SysTick, control
<1>2. CASE \E p \in Client : ClientPoll(p)
  BY <1>2, EtimerAssumption DEF TypeOK, ClientPoll, EnterHandler
<1>3. CASE ProcessRun
  <2>1. polled' \in BOOLEAN /\ pc' \in {"scan", "event"} /\ pos' = 1
    BY <1>3, Zenon DEF ProcessRun
  <2>2. QED
    BY <1>3, <2>1 DEF TypeOK, ProcessRun
<1>4. CASE DoEvent
  <2>1. CASE queue = << >>
    BY <1>4, <2>1 DEF TypeOK, DoEvent
  <2>2. CASE queue # << >>
    <3>1. /\ Head(queue) \in [p : Client, t : Timer \cup {NONE}]
          /\ Tail(queue) \in Seq([p : Client, t : Timer \cup {NONE}])
          /\ Len(Tail(queue)) = Len(queue) - 1
      BY <2>2, HeadTailProperties DEF TypeOK
    <3>2. Len(queue) \in Nat
      BY LenProperties DEF TypeOK
    <3>3. queue' = Tail(queue)
      BY <1>4, <2>2 DEF DoEvent
    <3>4. Len(queue') <= NUMEVENTS
      BY <3>1, <3>2, <3>3, EtimerAssumption DEF TypeOK
    <3>5. /\ pc' \in {"handler", "main"} /\ cur' \in Client \cup {NONE}
          /\ left' \in 0 .. HandlerOps /\ back' \in {"main", "run"}
      BY <1>4, <2>2, <3>1, EtimerAssumption DEF TypeOK, DoEvent, EnterHandler
    <3>6. QED
      BY <1>4, <3>1, <3>3, <3>4, <3>5 DEF TypeOK, DoEvent
  <2>3. QED
    BY <2>1, <2>2
<1>5. CASE Scan
  BY <1>5, ScanTyped
<1>6. CASE UpdateRead
  BY <1>6, UpdateTimeTyped DEF TypeOK, UpdateRead
<1>7. CASE UpdateStore
  BY <1>7 DEF TypeOK, UpdateStore
<1>8. CASE Return
  BY <1>8, EtimerAssumption DEF TypeOK, Return
<1>9. CASE Exit
  BY <1>9, EtimerAssumption DEF TypeOK, Exit
<1>10. CASE DropTimer
  <2>1. timerlist' \in Seq(Timer)
    BY <1>10, RemoveAtFacts DEF TypeOK, DropTimer
  <2>2. QED
    BY <1>10, <2>1 DEF TypeOK, DropTimer, control
<1>11. CASE DropDone
  BY <1>11 DEF TypeOK, DropDone
<1>12. CASE \E p \in Client : Post(p)
  <2>1. PICK p \in Client : Post(p)
    BY <1>12
  <2>2. left' \in 0 .. HandlerOps
    BY <2>1, EtimerAssumption DEF TypeOK, Post, InHandler
  <2>3. queue' \in Seq([p : Client, t : Timer \cup {NONE}]) /\ Len(queue') <= NUMEVENTS
    <3>1. [p |-> p, t |-> NONE] \in [p : Client, t : Timer \cup {NONE}]
      OBVIOUS
    <3>2. CASE Len(queue) = NUMEVENTS
      BY <2>1, <3>2 DEF TypeOK, Post
    <3>3. CASE Len(queue) # NUMEVENTS
      <4>1. queue' = Append(queue, [p |-> p, t |-> NONE])
        BY <2>1, <3>3 DEF Post
      <4>2. Len(queue) \in Nat
        BY LenProperties DEF TypeOK
      <4>3. QED
        BY <3>1, <3>3, <4>1, <4>2, AppendProperties, EtimerAssumption DEF TypeOK
    <3>4. QED
      BY <3>2, <3>3
  <2>4. QED
    BY <2>1, <2>2, <2>3 DEF TypeOK, Post
<1>13. CASE \E t \in Timer : \/ \E i \in Interval : EtimerSet(t, i)
                             \/ \E td \in Shift : EtimerAdjust(t, td)
                             \/ EtimerReset(t) \/ EtimerRestart(t) \/ EtimerStop(t)
  BY <1>13, ClientTyped
<1>14. CASE UNCHANGED vars
  BY <1>14 DEF TypeOK, vars
<1>15. QED
  BY <1>1, <1>2, <1>3, <1>4, <1>5, <1>6, <1>7, <1>8, <1>9, <1>10, <1>11, <1>12,
     <1>13, <1>14 DEF Next, Main
-----------------------------------------------------------------------------
(* Steps that leave list, owners and live clients alone.                   *)
LEMMA QuietOwned ==
  ASSUME IInv, UNCHANGED <<timerlist, timer, alive>>,
         pc = "drop" => pc' = "drop" /\ cur' = cur
  PROVE  ListedOwned'
<1>1. \A t : Listed(t)' <=> Listed(t)
  BY DEF Listed
<1>2. QED
  BY <1>1 DEF IInv, ListedOwned

(* What a list without repetitions loses when an entry is taken out.       *)
LEMMA RemoveListed ==
  ASSUME IInv, NEW i \in DOMAIN timerlist, timerlist' = RemoveAt(timerlist, i)
  PROVE  /\ \A j, k \in DOMAIN timerlist' : timerlist'[j] = timerlist'[k] => j = k
         /\ \A t : Listed(t)' => Listed(t) /\ t # timerlist[i]
<1>1. DOMAIN timerlist' = 1 .. Len(timerlist) - 1 /\ Len(timerlist) \in Nat
  BY RemoveAtFacts, LenProperties DEF IInv, TypeOK
<1>2. \A j \in DOMAIN timerlist' :
        \E k \in DOMAIN timerlist : /\ timerlist'[j] = timerlist[k] /\ k # i
                                    /\ k = IF j < i THEN j ELSE j + 1
  BY RemoveAtFacts DEF IInv, TypeOK
<1>3. \A j, k \in DOMAIN timerlist : timerlist[j] = timerlist[k] => j = k
  BY DEF IInv, ListedOwned
<1>4. i \in Int
  BY LenProperties DEF IInv, TypeOK
<1>5. ASSUME NEW j \in DOMAIN timerlist', NEW k \in DOMAIN timerlist',
             timerlist'[j] = timerlist'[k]
      PROVE  j = k
  <2>1. PICK m \in DOMAIN timerlist : /\ timerlist'[j] = timerlist[m]
                                      /\ m = IF j < i THEN j ELSE j + 1
    BY <1>2
  <2>2. PICK n \in DOMAIN timerlist : /\ timerlist'[k] = timerlist[n]
                                      /\ n = IF k < i THEN k ELSE k + 1
    BY <1>2
  <2>3. m = n
    BY <1>3, <1>5, <2>1, <2>2
  <2>4. j \in Int /\ k \in Int
    BY <1>1
  <2>5. QED
    BY <1>4, <2>1, <2>2, <2>3, <2>4
<1>6. ASSUME NEW t, Listed(t)' PROVE Listed(t) /\ t # timerlist[i]
  <2>1. PICK j \in DOMAIN timerlist' : timerlist'[j] = t
    BY <1>6 DEF Listed
  <2>2. PICK k \in DOMAIN timerlist : timerlist'[j] = timerlist[k] /\ k # i
    BY <1>2
  <2>3. QED
    BY <1>3, <2>1, <2>2 DEF Listed
<1>7. QED
  BY <1>5, <1>6

(* A timer that leaves the list may lose its owner.                        *)
LEMMA RemoveOwned ==
  ASSUME IInv, NEW i \in DOMAIN timerlist, timerlist' = RemoveAt(timerlist, i),
         timer' = timer \/ timer' = [timer EXCEPT ![timerlist[i]].p = NONE],
         alive' = alive, pc = "drop" => pc' = "drop" /\ cur' = cur
  PROVE  ListedOwned'
<1>1. \A t \in Timer : t # timerlist[i] => timer'[t].p = timer[t].p
  BY DEF IInv, TypeOK
<1>2. QED
  BY <1>1, RemoveListed DEF IInv, ListedOwned

(* A timer armed by a handler belongs to that handler's live client.       *)
LEMMA AddTimerOwned ==
  ASSUME IInv, NEW t \in Timer, NEW start \in Time, NEW interval \in Nat,
         InHandler, AddTimer(t, start, interval)
  PROVE  ListedOwned'
<1> USE DEF IInv
<1>1. pc = "handler" /\ cur \in alive /\ alive' = alive
  BY DEF InHandler, Runs, AddTimer
<1>2. /\ timer'[t].p = cur
      /\ \A u \in Timer : u # t => timer'[u].p = timer[u].p
  BY DEF TypeOK, AddTimer
<1>3. \A u \in Timer : Listed(u) => timer[u].p \in alive
  BY <1>1 DEF ListedOwned
<1>4. CASE timerlist' = timerlist
  <2>1. \A u : Listed(u)' <=> Listed(u)
    BY <1>4 DEF Listed
  <2>2. QED
    BY <1>1, <1>2, <1>3, <1>4, <2>1 DEF ListedOwned
<1>5. CASE timerlist' # timerlist
  <2>1. timerlist' = <<t>> \o timerlist /\ ~ (timer[t].p # NONE /\ Listed(t))
    BY <1>5 DEF AddTimer
  <2>2. ~ Listed(t)
    BY <1>3, <2>1, EtimerAssumption DEF TypeOK
  <2>3. /\ DOMAIN timerlist' = 1 .. Len(timerlist) + 1
        /\ \A j \in 1 .. Len(timerlist) + 1 :
             timerlist'[j] = IF j = 1 THEN t ELSE timerlist[j - 1]
    BY <2>1, ConsFacts DEF TypeOK
  <2>4. DOMAIN timerlist = 1 .. Len(timerlist) /\ Len(timerlist) \in Nat
    BY LenProperties DEF TypeOK
  <2>5. \A j \in 1 .. Len(timerlist) + 1 : j # 1 => j - 1 \in DOMAIN timerlist
    BY <2>4
  <2>6. \A j \in DOMAIN timerlist' : j # 1 => /\ timerlist'[j] = timerlist[j - 1]
                                              /\ timerlist'[j] # t
    BY <2>2, <2>3, <2>5 DEF Listed
  <2>7. timerlist'[1] = t
    BY <2>3, <2>4
  <2>8. ASSUME NEW j \in DOMAIN timerlist', NEW k \in DOMAIN timerlist',
               timerlist'[j] = timerlist'[k]
        PROVE  j = k
    <3>1. CASE j = 1 \/ k = 1
      BY <2>6, <2>7, <2>8, <3>1
    <3>2. CASE j # 1 /\ k # 1
      <4>1. timerlist[j - 1] = timerlist[k - 1]
        BY <2>6, <2>8, <3>2
      <4>2. j - 1 = k - 1
        BY <2>3, <2>5, <3>2, <4>1 DEF ListedOwned
      <4>3. QED
        BY <2>3, <4>2
    <3>3. QED
      BY <3>1, <3>2
  <2>9. ASSUME NEW u \in Timer, Listed(u)' PROVE timer'[u].p \in alive'
    <3>1. PICK j \in DOMAIN timerlist' : timerlist'[j] = u
      BY <2>9 DEF Listed
    <3>2. CASE u = t
      BY <1>1, <1>2, <3>2
    <3>3. CASE u # t
      <4>1. j # 1
        BY <2>7, <3>1, <3>3
      <4>2. Listed(u)
        BY <2>3, <2>5, <2>6, <3>1, <4>1 DEF Listed
      <4>3. QED
        BY <1>1, <1>2, <1>3, <3>3, <4>2
    <3>4. QED
      BY <3>2, <3>3
  <2>10. QED
    BY <2>8, <2>9 DEF ListedOwned
<1>6. QED
  BY <1>4, <1>5

LEMMA ClientOwned ==
  ASSUME IInv, NEW t \in Timer,
         \/ \E i \in Interval : EtimerSet(t, i)
         \/ \E td \in Shift : EtimerAdjust(t, td)
         \/ EtimerReset(t) \/ EtimerRestart(t) \/ EtimerStop(t)
  PROVE  ListedOwned'
<1> USE DEF IInv
<1>1. /\ timer[t].start \in Int /\ timer[t].interval \in Nat /\ clock \in Time
  BY DEF TypeOK, Time
<1>2. Interval \subseteq Nat
  BY EtimerAssumption
<1>3. CASE \E i \in Interval : EtimerSet(t, i)
  BY <1>1, <1>2, <1>3, AddTimerOwned DEF EtimerSet
<1>4. CASE \E td \in Shift : EtimerAdjust(t, td)
  <2>1. PICK td \in Shift : EtimerAdjust(t, td)
    BY <1>4
  <2>2. \A u \in Timer : timer'[u].p = timer[u].p
    BY <2>1 DEF TypeOK, EtimerAdjust
  <2>3. \A u : Listed(u)' <=> Listed(u)
    BY <2>1 DEF Listed, EtimerAdjust
  <2>4. pc # "drop" /\ timerlist' = timerlist /\ alive' = alive
    BY <2>1 DEF EtimerAdjust, InHandler
  <2>5. QED
    BY <2>2, <2>3, <2>4 DEF ListedOwned
<1>5. CASE EtimerReset(t)
  <2>1. Wrap(timer[t].start + timer[t].interval) \in Time
    BY <1>1, WrapTime
  <2>2. QED
    BY <1>1, <1>5, <2>1, AddTimerOwned DEF EtimerReset
<1>6. CASE EtimerRestart(t)
  BY <1>1, <1>6, AddTimerOwned DEF EtimerRestart
<1>7. CASE EtimerStop(t)
  <2>1. pc # "drop" /\ alive' = alive /\ timer' = [timer EXCEPT ![t].p = NONE]
    BY <1>7 DEF EtimerStop, InHandler
  <2>2. CASE ~ Listed(t) /\ timerlist' = timerlist
    <3>1. \A u \in Timer : u # t => timer'[u].p = timer[u].p
      BY <2>1 DEF TypeOK
    <3>2. \A u : Listed(u)' <=> Listed(u)
      BY <2>2 DEF Listed
    <3>3. QED
      BY <2>1, <2>2, <3>1, <3>2 DEF ListedOwned
  <2>3. CASE \E i \in DOMAIN timerlist : /\ timerlist[i] = t
                                         /\ timerlist' = RemoveAt(timerlist, i)
    BY <2>1, <2>3, RemoveOwned
  <2>4. QED
    BY <1>7, <2>2, <2>3 DEF EtimerStop
<1>8. QED
  BY <1>3, <1>4, <1>5, <1>6, <1>7
LEMMA OwnedStep == IInv /\ [Next]_vars => ListedOwned'
<1> SUFFICES ASSUME IInv, [Next]_vars PROVE ListedOwned'
  OBVIOUS
<1>1. CASE SysTick
  BY <1>1, QuietOwned DEF SysTick, control
<1>2. CASE \E p \in Client : ClientPoll(p) \/ Post(p)
  BY <1>2, QuietOwned DEF ClientPoll, Post, InHandler
<1>3. CASE ProcessRun \/ DoEvent \/ UpdateRead \/ UpdateStore \/ Return
  BY <1>3, QuietOwned DEF ProcessRun, DoEvent, UpdateRead, UpdateStore, Return
<1>4. CASE Scan
  <2>1. CASE ScanEnd
    BY <1>4, <2>1, QuietOwned DEF Scan, ScanEnd
  <2>2. CASE pos <= Len(timerlist)
             /\ (ScanPass(timerlist[pos]) \/ ScanFull(timerlist[pos]))
    BY <1>4, <2>2, QuietOwned DEF Scan, ScanPass, ScanFull
  <2>3. CASE pos <= Len(timerlist) /\ ScanFire(timerlist[pos])
    <3>1. pos \in DOMAIN timerlist
      BY <2>3, LenProperties DEF IInv, TypeOK
    <3>2. QED
      BY <1>4, <2>3, <3>1, RemoveOwned DEF Scan, ScanFire
  <2>4. QED
    BY <1>4, <2>1, <2>2, <2>3 DEF Scan
<1>5. CASE Exit
  <2>1. \A t : Listed(t)' <=> Listed(t)
    BY <1>5 DEF Exit, Listed
  <2>2. \A t \in Timer : Listed(t) => timer[t].p \in alive
    BY <1>5 DEF IInv, ListedOwned, Exit
  <2>3. /\ pc' = "drop" /\ cur' = cur /\ alive' = alive \ {cur}
        /\ timerlist' = timerlist /\ timer' = timer
    BY <1>5 DEF Exit
  <2>4. QED
    BY <2>1, <2>2, <2>3 DEF IInv, ListedOwned
<1>6. CASE DropTimer
  BY <1>6, RemoveOwned DEF DropTimer, control
<1>7. CASE DropDone
  <2>1. \A t : Listed(t)' <=> Listed(t)
    BY <1>7 DEF DropDone, Listed
  <2>2. \A t \in Timer : Listed(t) => timer[t].p # cur
    BY <1>7 DEF DropDone, Owned, Listed
  <2>3. timerlist' = timerlist /\ timer' = timer /\ alive' = alive
    BY <1>7 DEF DropDone
  <2>4. QED
    BY <2>1, <2>2, <2>3 DEF IInv, ListedOwned
<1>8. CASE \E t \in Timer : \/ \E i \in Interval : EtimerSet(t, i)
                            \/ \E td \in Shift : EtimerAdjust(t, td)
                            \/ EtimerReset(t) \/ EtimerRestart(t) \/ EtimerStop(t)
  BY <1>8, ClientOwned
<1>9. CASE UNCHANGED vars
  BY <1>9, QuietOwned DEF vars
<1>10. QED
  BY <1>1, <1>2, <1>3, <1>4, <1>5, <1>6, <1>7, <1>8, <1>9 DEF Next, Main

LEMMA RunsStep == IInv /\ [Next]_vars => Runs'
<1> SUFFICES ASSUME IInv, [Next]_vars PROVE Runs'
  OBVIOUS
<1> USE DEF IInv
<1>1. NONE \notin Client /\ alive \subseteq Client
  BY EtimerAssumption DEF TypeOK
<1>2. CASE SysTick
  BY <1>2 DEF Runs, SysTick, control
<1>3. CASE \E p \in Client : ClientPoll(p) \/ Post(p)
  BY <1>3 DEF Runs, ClientPoll, EnterHandler, Post, InHandler
<1>4. CASE ProcessRun
  <2>1. pc' \in {"scan", "event"} /\ cur' = cur /\ cur = NONE
    BY <1>4, Zenon DEF Runs, ProcessRun
  <2>2. QED
    BY <2>1 DEF Runs
<1>5. CASE DoEvent
  BY <1>5 DEF Runs, DoEvent, EnterHandler
<1>6. CASE Scan
  <2>1. pc = "scan" /\ cur' = cur /\ cur = NONE
    BY <1>6 DEF Runs, Scan
  <2>2. pc' \in {"scan", "event", "update"}
    BY <1>6 DEF Scan, ScanEnd, ScanPass, ScanFire, ScanFull
  <2>3. QED
    BY <2>1, <2>2 DEF Runs
<1>7. CASE UpdateRead \/ UpdateStore
  BY <1>1, <1>7 DEF Runs, UpdateRead, UpdateStore
<1>8. CASE Return
  BY <1>8 DEF Runs, Return, TypeOK
<1>9. CASE Exit
  BY <1>1, <1>9 DEF Runs, Exit
<1>10. CASE DropTimer
  BY <1>10 DEF Runs, DropTimer, control
<1>11. CASE DropDone
  BY <1>11 DEF Runs, DropDone, TypeOK
<1>12. CASE \E t \in Timer : \/ \E i \in Interval : EtimerSet(t, i)
                             \/ \E td \in Shift : EtimerAdjust(t, td)
                             \/ EtimerReset(t) \/ EtimerRestart(t) \/ EtimerStop(t)
  <2>1. pc = "handler" /\ cur' = cur /\ alive' = alive /\ pc' \in {"update", "handler"}
    BY <1>12 DEF EtimerSet, EtimerAdjust, EtimerReset, EtimerRestart, EtimerStop,
                 AddTimer, InHandler
  <2>2. QED
    BY <2>1 DEF Runs
<1>13. CASE UNCHANGED vars
  BY <1>13 DEF Runs, vars
<1>14. QED
  BY <1>2, <1>3, <1>4, <1>5, <1>6, <1>7, <1>8, <1>9, <1>10, <1>11, <1>12, <1>13
     DEF Next, Main

LEMMA InitInv == Init => IInv
<1> SUFFICES ASSUME Init PROVE IInv
  OBVIOUS
<1>1. TypeOK
  <2>1. 0 \in Time /\ 0 \in 0 .. HandlerOps /\ 0 <= NUMEVENTS
    BY EtimerAssumption DEF Time
  <2>2. << >> \in Seq(Timer) /\ << >> \in Seq([p : Client, t : Timer \cup {NONE}])
    BY EmptySeq
  <2>3. Len(queue) <= NUMEVENTS
    BY <2>1 DEF Init
  <2>4. [start : {0}, interval : {0}, p : {NONE}]
          \subseteq [start : Time, interval : Nat, p : Client \cup {NONE}]
    BY <2>1
  <2>5. timer \in [Timer -> [start : Time, interval : Nat, p : Client \cup {NONE}]]
    BY <2>4 DEF Init
  <2>6. remain \in [Timer -> Int]
    BY EtimerAssumption DEF Init
  <2>7. timerlist \in Seq(Timer) /\ queue \in Seq([p : Client, t : Timer \cup {NONE}])
    BY <2>2 DEF Init
  <2>8. /\ clock \in Time /\ next_expiration \in Time /\ next_value \in Time
        /\ polled \in BOOLEAN /\ stale \in BOOLEAN /\ alive \subseteq Client
    BY <2>1 DEF Init
  <2>9. /\ pc = "main" /\ cur \in Client \cup {NONE} /\ left \in 0 .. HandlerOps
        /\ back = "main" /\ pos \in Nat \ {0}
    BY <2>1 DEF Init
  <2>10. QED
    BY <2>3, <2>5, <2>6, <2>7, <2>8, <2>9 DEF TypeOK
<1>2. ListedOwned
  BY DEF Init, ListedOwned, Listed
<1>3. Runs
  BY DEF Init, Runs
<1>4. QED
  BY <1>1, <1>2, <1>3 DEF IInv

LEMMA InvHolds == Spec => []IInv
<1>1. IInv /\ [Next]_vars => IInv'
  BY TypeStep, OwnedStep, RunsStep DEF IInv
<1>2. QED
  BY <1>1, InitInv, PTL DEF Spec

(* The event timers keep their types: the clock and next_expiration wrap   *)
(* in their type, and the scan never posts more events than the queue      *)
(* takes.                                                                  *)
THEOREM TimerType == Spec => []TypeOK
<1>1. IInv => TypeOK
  BY DEF IInv
<1>2. QED
  BY <1>1, InvHolds, PTL

(* timerlist holds no timer twice, so no walk over it runs in a circle,    *)
(* and every timer on it belongs to a live process or to one whose timers  *)
(* etimer_process is just dropping.                                        *)
THEOREM TimersOwned == Spec => []ListedOwned
<1>1. IInv => ListedOwned
  BY DEF IInv
<1>2. QED
  BY <1>1, InvHolds, PTL

-----------------------------------------------------------------------------
(* A clock value c, a start, an interval and the time that remains belong  *)
(* together: the timer's age is known, although clock values wrap.         *)
Track(c, start, interval, r) ==
  /\ interval \in Interval
  /\ r \in Int /\ r <= interval /\ - MaxLate <= r
  /\ c = Wrap(start + (interval - r))

(* This is so for the timers on the list, and for those off it that became *)
(* due so short a time ago that they may be reset.                         *)
Live(t) == Listed(t) \/ - MaxLate < remain[t]
Tracked == \A t \in Timer :
             Live(t) => Track(clock, timer[t].start, timer[t].interval, remain[t])

-----------------------------------------------------------------------------
(* Clock arithmetic, written out: at most one wrap either way.             *)
LEMMA WrapOnce ==
  \A a \in - ClockRange .. 2 * ClockRange - 1 :
    Wrap(a) = IF a < 0 THEN a + ClockRange
              ELSE IF a < ClockRange THEN a ELSE a - ClockRange
<1> DEFINE n == ClockRange
<1> SUFFICES ASSUME NEW a \in - n .. 2 * n - 1
             PROVE  a % n = IF a < 0 THEN a + n ELSE IF a < n THEN a ELSE a - n
  BY DEF Wrap
<1>1. n \in Nat \ {0}
  BY EtimerAssumption
<1> HIDE DEF n
<1>2. CASE a < 0
  <2>1. a + n \in 0 .. n - 1
    BY <1>1, <1>2
  <2>2. QED
    BY <1>1, <1>2, <2>1, Z3
<1>3. CASE 0 <= a /\ a < n
  BY <1>1, <1>3
<1>4. CASE n <= a
  <2>1. a - n \in 0 .. n - 1
    BY <1>1, <1>4
  <2>2. QED
    BY <1>1, <1>4, <2>1, Z3
<1>5. QED
  BY <1>1, <1>2, <1>3, <1>4

(* What a tracked timer's clock values are.                                *)
LEMMA TrackArith ==
  ASSUME NEW c \in Time, NEW start \in Time, NEW interval, NEW r,
         Track(c, start, interval, r)
  PROVE  /\ interval \in Nat /\ interval + MaxLate + 1 < ClockRange
         /\ Wrap(c - start) = interval - r
         /\ Wrap(Wrap(c - start) + 1) = interval - r + 1
         /\ r > 0 => Wrap(Wrap(start + interval) - c) = r
         /\ r > 0 => Wrap(c + r) = Wrap(start + interval)
         /\ - MaxLate < r => Track(Wrap(c + 1), start, interval, r - 1)
<1>1. /\ interval \in Nat /\ interval + MaxLate + 1 < ClockRange /\ MaxLate \in Nat
      /\ ClockRange \in Nat /\ r \in Int /\ r <= interval /\ - MaxLate <= r
      /\ interval \in Interval
  BY EtimerAssumption DEF Track
<1>2. /\ c \in Int /\ 0 <= c /\ c < ClockRange
      /\ start \in Int /\ 0 <= start /\ start < ClockRange
  BY <1>1 DEF Time
<1>3. c = IF start + (interval - r) < ClockRange THEN start + (interval - r)
          ELSE start + (interval - r) - ClockRange
  BY <1>1, <1>2, WrapOnce DEF Track
<1>4. Wrap(c - start) = interval - r
  BY <1>1, <1>2, <1>3, WrapOnce
<1>5. Wrap(Wrap(c - start) + 1) = interval - r + 1
  BY <1>1, <1>4, WrapOnce
<1>6. Wrap(start + interval) = IF start + interval < ClockRange THEN start + interval
                               ELSE start + interval - ClockRange
  BY <1>1, <1>2, WrapOnce
<1>7. r > 0 => Wrap(Wrap(start + interval) - c) = r
  BY <1>1, <1>2, <1>3, <1>6, WrapOnce
<1>8. r > 0 => Wrap(c + r) = Wrap(start + interval)
  BY <1>1, <1>2, <1>3, <1>6, WrapOnce
<1>9. Wrap(c + 1) = IF c + 1 < ClockRange THEN c + 1 ELSE c + 1 - ClockRange
  BY <1>1, <1>2, WrapOnce
<1>10. ASSUME - MaxLate < r
       PROVE  Track(Wrap(c + 1), start, interval, r - 1)
  <2>1. Wrap(start + (interval - (r - 1))) =
          IF start + (interval - (r - 1)) < ClockRange THEN start + (interval - (r - 1))
          ELSE start + (interval - (r - 1)) - ClockRange
    BY <1>1, <1>2, <1>10, WrapOnce
  <2>2. Wrap(c + 1) = Wrap(start + (interval - (r - 1)))
    BY <1>1, <1>2, <1>3, <1>9, <1>10, <2>1
  <2>3. QED
    BY <1>1, <1>10, <2>2 DEF Track
<1>11. QED
  BY <1>1, <1>4, <1>5, <1>7, <1>8, <1>10

(* A timer started now; one reset, whose new interval starts where the old *)
(* one ended; one adjusted by no more than its age.                        *)
LEMMA TrackStart ==
  ASSUME NEW c \in Time, NEW i \in Interval
  PROVE  Track(c, c, i, i)
<1>1. i \in Nat /\ MaxLate \in Nat /\ c \in Int /\ 0 <= c /\ c < ClockRange /\ ClockRange \in Nat
  BY EtimerAssumption DEF Time
<1>2. c + (i - i) = c /\ Wrap(c) = c
  BY <1>1, WrapOnce
<1>3. QED
  BY <1>1, <1>2 DEF Track

LEMMA TrackReset ==
  ASSUME NEW c \in Time, NEW start \in Time, NEW i, NEW r, Track(c, start, i, r), r <= 0
  PROVE  Track(c, Wrap(start + i), i, r + i)
<1>1. /\ i \in Nat /\ i + MaxLate + 1 < ClockRange /\ MaxLate \in Nat
      /\ ClockRange \in Nat /\ r \in Int /\ - MaxLate <= r /\ i \in Interval
      /\ c = Wrap(start + (i - r))
  BY EtimerAssumption DEF Track
<1>2. start \in Int /\ 0 <= start /\ start < ClockRange
  BY <1>1 DEF Time
<1>3. Wrap(start + i) = IF start + i < ClockRange THEN start + i ELSE start + i - ClockRange
  BY <1>1, <1>2, WrapOnce
<1>4. c = IF start + (i - r) < ClockRange THEN start + (i - r)
          ELSE start + (i - r) - ClockRange
  BY <1>1, <1>2, WrapOnce
<1>5. i - (r + i) = - r
  BY <1>1
<1>6. Wrap(Wrap(start + i) + (- r)) = c
  BY <1>1, <1>2, <1>3, <1>4, WrapOnce
<1>7. QED
  BY <1>1, <1>5, <1>6 DEF Track

LEMMA TrackAdjust ==
  ASSUME NEW c \in Time, NEW start \in Time, NEW i, NEW r, NEW td \in Int,
         Track(c, start, i, r), td <= i - r, 0 < r + td
  PROVE  Track(c, Wrap(start + td), i, r + td)
<1>1. /\ i \in Nat /\ i + MaxLate + 1 < ClockRange /\ MaxLate \in Nat
      /\ ClockRange \in Nat /\ r \in Int /\ - MaxLate <= r /\ r <= i /\ i \in Interval
      /\ c = Wrap(start + (i - r))
  BY EtimerAssumption DEF Track
<1>2. start \in Int /\ 0 <= start /\ start < ClockRange
  BY <1>1 DEF Time
<1>3. Wrap(start + td) = IF start + td < 0 THEN start + td + ClockRange
                         ELSE IF start + td < ClockRange THEN start + td
                         ELSE start + td - ClockRange
  BY <1>1, <1>2, WrapOnce
<1>4. c = IF start + (i - r) < ClockRange THEN start + (i - r)
          ELSE start + (i - r) - ClockRange
  BY <1>1, <1>2, WrapOnce
<1>5. Wrap(Wrap(start + td) + (i - (r + td))) = c
  BY <1>1, <1>2, <1>3, <1>4, WrapOnce
<1>6. QED
  BY <1>1, <1>5 DEF Track

-----------------------------------------------------------------------------
(* What a step does to the timers: it is a tick, arms or adjusts one timer *)
(* and leaves the others alone, or arms none.                              *)
Same(u) == /\ timer'[u].start = timer[u].start
           /\ timer'[u].interval = timer[u].interval
           /\ remain'[u] = remain[u]

Armed(t) ==
  /\ clock' = clock
  /\ \A u \in Timer : u # t => Same(u) /\ (Listed(u)' <=> Listed(u))
  /\ Track(clock, timer'[t].start, timer'[t].interval, remain'[t])

Unarmed ==
  /\ clock' = clock
  /\ \A u \in Timer : Same(u) /\ (Listed(u)' => Listed(u))

LEMMA ArmListed ==
  ASSUME IInv, NEW t \in Timer, NEW start \in Time, NEW interval \in Nat,
         InHandler, AddTimer(t, start, interval)
  PROVE  /\ Listed(t)'
         /\ \A u \in Timer : u # t => (Listed(u)' <=> Listed(u))
<1>1. CASE timerlist' = timerlist
  <2>1. \A u : Listed(u)' <=> Listed(u)
    BY <1>1 DEF Listed
  <2>2. (timer[t].p # NONE /\ Listed(t)) \/ timerlist = <<t>> \o timerlist
    BY <1>1 DEF AddTimer
  <2>3. timerlist # <<t>> \o timerlist
    <3>1. Len(<<t>> \o timerlist) = Len(timerlist) + 1 /\ Len(timerlist) \in Nat
      BY ConsFacts, LenProperties DEF IInv, TypeOK
    <3>2. QED
      BY <3>1
  <2>4. QED
    BY <2>1, <2>2, <2>3
<1>2. CASE timerlist' # timerlist
  <2>1. timerlist' = <<t>> \o timerlist
    BY <1>2 DEF AddTimer
  <2>2. /\ DOMAIN timerlist' = 1 .. Len(timerlist) + 1
        /\ \A j \in 1 .. Len(timerlist) + 1 :
             timerlist'[j] = IF j = 1 THEN t ELSE timerlist[j - 1]
    BY <2>1, ConsFacts DEF IInv, TypeOK
  <2>3. DOMAIN timerlist = 1 .. Len(timerlist) /\ Len(timerlist) \in Nat
    BY LenProperties DEF IInv, TypeOK
  <2>4. Listed(t)'
    <3>1. 1 \in DOMAIN timerlist' /\ timerlist'[1] = t
      BY <2>2, <2>3
    <3>2. QED
      BY <3>1 DEF Listed
  <2>5. ASSUME NEW u \in Timer, u # t, Listed(u)' PROVE Listed(u)
    <3>1. PICK j \in DOMAIN timerlist' : timerlist'[j] = u
      BY <2>5 DEF Listed
    <3>2. j # 1 /\ timerlist'[j] = timerlist[j - 1] /\ j - 1 \in DOMAIN timerlist
      BY <2>2, <2>3, <2>5, <3>1
    <3>3. QED
      BY <3>1, <3>2 DEF Listed
  <2>6. ASSUME NEW u \in Timer, u # t, Listed(u) PROVE Listed(u)'
    <3>1. PICK j \in DOMAIN timerlist : timerlist[j] = u
      BY <2>6 DEF Listed
    <3>2. j + 1 \in DOMAIN timerlist' /\ j + 1 # 1 /\ j + 1 - 1 = j
      BY <2>2, <2>3
    <3>3. timerlist'[j + 1] = timerlist[j]
      BY <2>2, <3>2
    <3>4. QED
      BY <3>1, <3>2, <3>3 DEF Listed
  <2>7. QED
    BY <2>4, <2>5, <2>6
<1>3. QED
  BY <1>1, <1>2

(* A client's call arms its timer so that its clock values belong together.*)
LEMMA ClientArms ==
  ASSUME IInv, Tracked, NEW t \in Timer,
         \/ \E i \in Interval : EtimerSet(t, i)
         \/ ~ AnyShift /\ \E td \in Shift : EtimerAdjust(t, td)
         \/ EtimerReset(t) \/ EtimerRestart(t)
  PROVE  Armed(t)
<1>1. /\ timer[t].start \in Time /\ timer[t].interval \in Nat
      /\ clock \in Time /\ remain \in [Timer -> Int]
      /\ timer \in [Timer -> [start : Time, interval : Nat, p : Client \cup {NONE}]]
  BY DEF IInv, TypeOK
<1>2. Interval \subseteq Nat /\ Shift \subseteq Int
  BY EtimerAssumption
<1>3. ASSUME NEW start \in Time, NEW interval \in Nat, NEW r \in Int,
             InHandler, AddTimer(t, start, interval), remain' = [remain EXCEPT ![t] = r],
             Track(clock, start, interval, r)
      PROVE  Armed(t)
  <2>1. \A u \in Timer : u # t => (Listed(u)' <=> Listed(u))
    BY <1>3, ArmListed
  <2>2. \A u \in Timer : u # t => Same(u)
    BY <1>1, <1>3 DEF Same, AddTimer
  <2>3. /\ timer'[t].start = start /\ timer'[t].interval = interval
        /\ remain'[t] = r /\ clock' = clock
    BY <1>1, <1>3 DEF AddTimer
  <2>4. QED
    BY <1>3, <2>1, <2>2, <2>3 DEF Armed
<1>4. CASE \E i \in Interval : EtimerSet(t, i)
  <2>1. PICK i \in Interval : EtimerSet(t, i)
    BY <1>4
  <2>2. i \in Nat /\ i \in Int /\ Track(clock, clock, i, i)
    BY <1>1, <1>2, TrackStart
  <2>3. QED
    BY <1>1, <1>3, <2>1, <2>2 DEF EtimerSet
<1>5. CASE ~ AnyShift /\ \E td \in Shift : EtimerAdjust(t, td)
  <2>1. PICK td \in Shift : EtimerAdjust(t, td)
    BY <1>5
  <2>2. /\ Listed(t) /\ td <= timer[t].interval - remain[t] /\ 0 < remain[t] + td
        /\ timer' = [timer EXCEPT ![t].start = Wrap(@ + td)]
        /\ remain' = [remain EXCEPT ![t] = @ + td]
        /\ clock' = clock /\ timerlist' = timerlist
    BY <1>5, <2>1 DEF EtimerAdjust
  <2>3. Track(clock, timer[t].start, timer[t].interval, remain[t])
    BY <2>2 DEF Tracked, Live
  <2>4. Track(clock, Wrap(timer[t].start + td), timer[t].interval, remain[t] + td)
    BY <1>1, <1>2, <2>2, <2>3, TrackAdjust
  <2>5. /\ timer'[t].start = Wrap(timer[t].start + td)
        /\ timer'[t].interval = timer[t].interval
        /\ remain'[t] = remain[t] + td
    BY <1>1, <2>2
  <2>6. \A u \in Timer : u # t => Same(u)
    BY <1>1, <2>2 DEF Same
  <2>7. \A u : Listed(u)' <=> Listed(u)
    BY <2>2 DEF Listed
  <2>8. QED
    BY <2>2, <2>4, <2>5, <2>6, <2>7 DEF Armed
<1>6. CASE EtimerReset(t)
  <2>1. Track(clock, timer[t].start, timer[t].interval, remain[t]) /\ remain[t] <= 0
    BY <1>6 DEF Tracked, Live, EtimerReset
  <2>2. Track(clock, Wrap(timer[t].start + timer[t].interval), timer[t].interval,
              remain[t] + timer[t].interval)
    BY <1>1, <2>1, TrackReset
  <2>3. Wrap(timer[t].start + timer[t].interval) \in Time
    BY <1>1, WrapTime DEF Time
  <2>4. remain[t] + timer[t].interval \in Int
    BY <1>1
  <2>5. QED
    BY <1>1, <1>3, <1>6, <2>2, <2>3, <2>4 DEF EtimerReset
<1>7. CASE EtimerRestart(t)
  <2>1. Track(clock, clock, timer[t].interval, timer[t].interval)
    BY <1>1, <1>7, TrackStart DEF EtimerRestart
  <2>2. timer[t].interval \in Nat /\ timer[t].interval \in Int
    BY <1>1
  <2>3. QED
    BY <1>1, <1>3, <1>7, <2>1, <2>2 DEF EtimerRestart
<1>8. QED
  BY <1>4, <1>5, <1>6, <1>7

LEMMA QuietUnarmed ==
  ASSUME UNCHANGED <<clock, timer, timerlist, remain>>
  PROVE  Unarmed
BY DEF Unarmed, Same, Listed

(* Every other step of the main program arms no timer.                     *)
LEMMA OthersUnarmed ==
  ASSUME IInv,
         \/ ProcessRun \/ DoEvent \/ Scan \/ UpdateRead \/ UpdateStore \/ Return \/ Exit
         \/ DropTimer \/ DropDone
         \/ \E p \in Client : ClientPoll(p) \/ Post(p)
         \/ \E t \in Timer : EtimerStop(t)
         \/ UNCHANGED vars
  PROVE  Unarmed
<1>1. timer \in [Timer -> [start : Time, interval : Nat, p : Client \cup {NONE}]]
  BY DEF IInv, TypeOK
<1>2. CASE \/ ProcessRun \/ DoEvent \/ UpdateRead \/ UpdateStore \/ Return \/ Exit \/ DropDone
           \/ \E p \in Client : ClientPoll(p) \/ Post(p)
           \/ UNCHANGED vars
  BY <1>2, QuietUnarmed DEF ProcessRun, DoEvent, UpdateRead, UpdateStore, Return, Exit,
     DropDone, ClientPoll, Post, vars
<1>3. ASSUME NEW i \in DOMAIN timerlist, timerlist' = RemoveAt(timerlist, i),
             timer' = timer \/ timer' = [timer EXCEPT ![timerlist[i]].p = NONE],
             UNCHANGED <<clock, remain>>
      PROVE  Unarmed
  <2>1. \A u \in Timer : Same(u)
    BY <1>1, <1>3 DEF Same
  <2>2. QED
    BY <1>3, <2>1, RemoveListed DEF Unarmed
<1>4. CASE Scan
  <2>1. CASE ScanEnd \/ (pos <= Len(timerlist)
                         /\ (ScanPass(timerlist[pos]) \/ ScanFull(timerlist[pos])))
    BY <1>4, <2>1, QuietUnarmed DEF Scan, ScanEnd, ScanPass, ScanFull
  <2>2. CASE pos <= Len(timerlist) /\ ScanFire(timerlist[pos])
    <3>1. pos \in DOMAIN timerlist
      BY <2>2, LenProperties DEF IInv, TypeOK
    <3>2. QED
      BY <1>3, <1>4, <2>2, <3>1 DEF Scan, ScanFire
  <2>3. QED
    BY <1>4, <2>1, <2>2 DEF Scan
<1>5. CASE DropTimer
  BY <1>3, <1>5 DEF DropTimer
<1>6. CASE \E t \in Timer : EtimerStop(t)
  <2>1. PICK t \in Timer : EtimerStop(t)
    BY <1>6
  <2>2. CASE timerlist' = timerlist
    <3>1. \A u \in Timer : Same(u)
      BY <1>1, <2>1 DEF Same, EtimerStop
    <3>2. \A u : Listed(u)' <=> Listed(u)
      BY <2>2 DEF Listed
    <3>3. QED
      BY <2>1, <3>1, <3>2 DEF Unarmed, EtimerStop
  <2>3. CASE timerlist' # timerlist
    BY <1>3, <2>1, <2>3 DEF EtimerStop
  <2>4. QED
    BY <2>2, <2>3
<1>7. QED
  BY <1>2, <1>4, <1>5, <1>6

LEMMA TrackedBy ==
  ASSUME IInv, Tracked, SysTick \/ Unarmed \/ \E t \in Timer : Armed(t)
  PROVE  Tracked'
<1>1. /\ timer \in [Timer -> [start : Time, interval : Nat, p : Client \cup {NONE}]]
      /\ clock \in Time /\ remain \in [Timer -> Int] /\ MaxLate \in Nat
  BY EtimerAssumption DEF IInv, TypeOK
<1>2. CASE SysTick
  <2> SUFFICES ASSUME NEW u \in Timer, Live(u)'
               PROVE  Track(clock', timer'[u].start, timer'[u].interval, remain'[u])
    BY DEF Tracked
  <2>1. /\ clock' = Wrap(clock + 1) /\ timer' = timer /\ timerlist' = timerlist
        /\ remain'[u] = IF remain[u] > - MaxLate THEN remain[u] - 1 ELSE remain[u]
        /\ Listed(u) => remain[u] > - MaxLate
    BY <1>2 DEF SysTick
  <2>2. Listed(u)' <=> Listed(u)
    BY <2>1 DEF Listed
  <2>3. remain[u] > - MaxLate
    BY <1>1, <2>1, <2>2 DEF Live
  <2>4. Track(clock, timer[u].start, timer[u].interval, remain[u])
    BY <1>1, <2>3 DEF Tracked, Live
  <2>5. timer[u].start \in Time /\ remain'[u] = remain[u] - 1 /\ - MaxLate < remain[u]
    BY <1>1, <2>1, <2>3
  <2>6. Track(Wrap(clock + 1), timer[u].start, timer[u].interval, remain[u] - 1)
    BY <1>1, <2>4, <2>5, TrackArith
  <2>7. QED
    BY <2>1, <2>5, <2>6
<1>3. ASSUME NEW t \in Timer, Armed(t) PROVE Tracked'
  BY <1>1, <1>3 DEF Tracked, Armed, Live, Same
<1>4. CASE Unarmed
  BY <1>1, <1>4 DEF Tracked, Unarmed, Live, Same
<1>5. QED
  BY <1>2, <1>3, <1>4

LEMMA TrackedStep == IInv /\ Tracked /\ ~ AnyShift /\ [Next]_vars => Tracked'
<1> SUFFICES ASSUME IInv, Tracked, ~ AnyShift, [Next]_vars PROVE Tracked'
  OBVIOUS
<1>1. CASE SysTick
  BY <1>1, TrackedBy
<1>2. CASE \E t \in Timer : \/ \E i \in Interval : EtimerSet(t, i)
                            \/ \E td \in Shift : EtimerAdjust(t, td)
                            \/ EtimerReset(t) \/ EtimerRestart(t)
  BY <1>2, TrackedBy, ClientArms
<1>3. CASE \/ ProcessRun \/ DoEvent \/ Scan \/ UpdateRead \/ UpdateStore \/ Return \/ Exit
           \/ DropTimer \/ DropDone
           \/ \E p \in Client : ClientPoll(p) \/ Post(p)
           \/ \E t \in Timer : EtimerStop(t)
           \/ UNCHANGED vars
  BY <1>3, TrackedBy, OthersUnarmed
<1>4. QED
  BY <1>1, <1>2, <1>3 DEF Next, Main

-----------------------------------------------------------------------------
(* A list keeps the entries that are not taken out.                        *)
LEMMA RemoveKeeps ==
  ASSUME IInv, NEW i \in DOMAIN timerlist, timerlist' = RemoveAt(timerlist, i),
         NEW t, Listed(t), t # timerlist[i]
  PROVE  Listed(t)'
<1>1. /\ DOMAIN timerlist = 1 .. Len(timerlist) /\ Len(timerlist) \in Nat
      /\ DOMAIN timerlist' = 1 .. Len(timerlist) - 1 /\ i \in Int
  BY RemoveAtFacts, LenProperties DEF IInv, TypeOK
<1>2. PICK k \in DOMAIN timerlist : timerlist[k] = t /\ k # i
  BY DEF Listed
<1>3. \A j \in DOMAIN timerlist' :
        \E m \in DOMAIN timerlist : /\ timerlist'[j] = timerlist[m]
                                    /\ m = IF j < i THEN j ELSE j + 1
  BY RemoveAtFacts DEF IInv, TypeOK
<1>4. CASE k < i
  <2>1. k \in DOMAIN timerlist' /\ k < i
    BY <1>1, <1>4
  <2>2. QED
    BY <1>2, <1>3, <2>1 DEF Listed
<1>5. CASE ~ (k < i)
  <2>1. k - 1 \in DOMAIN timerlist' /\ ~ (k - 1 < i) /\ k - 1 + 1 = k
    BY <1>1, <1>2, <1>5
  <2>2. QED
    BY <1>2, <1>3, <2>1 DEF Listed
<1>6. QED
  BY <1>4, <1>5

(* timer_expired is true of a listed timer just when it is due.            *)
LEMMA ExpiredIsDue ==
  ASSUME IInv, Tracked, NEW t \in Timer, Listed(t)
  PROVE  TimerExpired(t) <=> remain[t] <= 0
<1>1. /\ timer[t].start \in Time /\ clock \in Time /\ remain[t] \in Int
      /\ Track(clock, timer[t].start, timer[t].interval, remain[t])
  BY DEF IInv, TypeOK, Tracked, Live
<1>2. /\ timer[t].interval \in Nat
      /\ Wrap(Wrap(clock - timer[t].start) + 1) = timer[t].interval - remain[t] + 1
  BY <1>1, TrackArith
<1>3. QED
  BY <1>1, <1>2 DEF TimerExpired

LEMMA ScanTimer ==
  ASSUME IInv, pos <= Len(timerlist)
  PROVE  pos \in DOMAIN timerlist /\ timerlist[pos] \in Timer /\ Listed(timerlist[pos])
<1>1. pos \in DOMAIN timerlist
  BY LenProperties DEF IInv, TypeOK
<1>2. QED
  BY <1>1, ElementOfSeq, LenProperties DEF IInv, TypeOK, Listed

(* Only a due timer is taken off the list by the scan.                     *)
LEMMA FiresDue ==
  ASSUME IInv, Tracked, [Next]_vars, pc = "scan", NEW t \in Timer, Listed(t), ~ Listed(t)'
  PROVE  remain[t] <= 0
<1>1. timerlist' # timerlist
  BY DEF Listed
<1>2. Scan
  BY <1>1 DEF Next, Main, vars, SysTick, ProcessRun, DoEvent, UpdateRead, UpdateStore, Return,
     Exit, DropTimer, DropDone, ClientPoll, Post, EtimerSet, EtimerAdjust, EtimerReset,
     EtimerRestart, EtimerStop, InHandler
<1>3. pos <= Len(timerlist) /\ ScanFire(timerlist[pos])
  BY <1>1, <1>2 DEF Scan, ScanEnd, ScanPass, ScanFull
<1>4. pos \in DOMAIN timerlist /\ t = timerlist[pos]
  BY <1>3, RemoveKeeps, ScanTimer DEF ScanFire
<1>5. QED
  BY <1>3, <1>4, ExpiredIsDue DEF ScanFire

LEMMA TrackedInit == Init => Tracked
BY EtimerAssumption DEF Init, Tracked, Live, Listed

LEMMA TrackedHolds == ASSUME ~ AnyShift PROVE Spec => [](IInv /\ Tracked)
<1>1. IInv /\ Tracked /\ [Next]_vars => IInv' /\ Tracked'
  BY TrackedStep, TypeStep, OwnedStep, RunsStep DEF IInv
<1>2. QED
  BY <1>1, InitInv, TrackedInit, PTL DEF Spec

(* No timer fires before it is due, whatever the clock was when it was     *)
(* set, reset or restarted, and however often the clock has wrapped since; *)
(* adjustments must keep the start before now and the due time after.      *)
THEOREM FiresInTime == ASSUME ~ AnyShift PROVE Spec => NeverEarly
<1>1. IInv /\ Tracked /\ [Next]_vars =>
        [\A t \in Timer : pc = "scan" /\ Listed(t) /\ ~ Listed(t)' => remain[t] <= 0]_vars
  BY FiresDue
<1>2. QED
  BY <1>1, TrackedHolds, PTL DEF Spec, NeverEarly

-----------------------------------------------------------------------------
(* v is the expiration time of a timer that is due no later than any.      *)
Good(v) == \E t \in Timer : /\ Listed(t) /\ Expiration(t) = v
                            /\ \A u \in Timer : Listed(u) => remain[t] <= remain[u]

(* The clock will reach v, and no listed timer is due before that.         *)
Ahead(v) == \E d \in 1 .. ClockRange - 1 :
              v = Wrap(clock + d) /\ \A u \in Timer : Listed(u) => d <= remain[u]

Updating == pc \in {"update", "store"}

(* A due timer will be looked at: by the poll, by the rest of the scan, or *)
(* by the scan that starts again once the time is updated.                 *)
Served == \/ stale \/ polled \/ NoneDue
          \/ pc = "scan" /\ \E i \in DOMAIN timerlist : i >= pos /\ remain[timerlist[i]] <= 0
          \/ Updating /\ cur = NONE

Timely ==
  /\ NextIsEarliest
  /\ pc = "store" /\ timerlist # << >> /\ NoneDue => Good(next_value)
  /\ Updating /\ cur = NONE => pos = 1
  /\ Served
  /\ Updating /\ cur # NONE /\ ~ stale /\ ~ polled /\ timerlist # << >> /\ NoneDue =>
       Ahead(next_expiration)

-----------------------------------------------------------------------------
(* Some timer is listed just when the list is not empty.                   *)
LEMMA SomeListed == TypeOK => (timerlist # << >> <=> \E t \in Timer : Listed(t))
<1> SUFFICES ASSUME TypeOK PROVE timerlist # << >> <=> \E t \in Timer : Listed(t)
  OBVIOUS
<1>1. timerlist \in Seq(Timer) /\ Len(timerlist) \in Nat /\ DOMAIN timerlist = 1 .. Len(timerlist)
  BY LenProperties DEF TypeOK
<1>2. ASSUME timerlist # << >> PROVE \E t \in Timer : Listed(t)
  <2>1. 1 \in DOMAIN timerlist
    BY <1>1, <1>2, EmptySeq
  <2>2. timerlist[1] \in Timer
    BY <1>1, <2>1, ElementOfSeq
  <2>3. QED
    BY <2>1, <2>2 DEF Listed
<1>3. ASSUME NEW t \in Timer, Listed(t) PROVE timerlist # << >>
  BY <1>3 DEF Listed
<1>4. QED
  BY <1>2, <1>3

(* While no timer is due, the earliest expiration is ahead of the clock.   *)
LEMMA GoodAhead ==
  ASSUME IInv, Tracked, NoneDue, NEW v, Good(v)
  PROVE  Ahead(v)
<1>1. PICK t \in Timer : /\ Listed(t) /\ Expiration(t) = v
                         /\ \A u \in Timer : Listed(u) => remain[t] <= remain[u]
  BY DEF Good
<1>2. /\ timer[t].start \in Time /\ clock \in Time /\ remain[t] \in Int /\ remain[t] > 0
      /\ Track(clock, timer[t].start, timer[t].interval, remain[t])
  BY <1>1 DEF IInv, TypeOK, Tracked, Live, NoneDue
<1>3. /\ timer[t].interval \in Nat /\ timer[t].interval + MaxLate + 1 < ClockRange
      /\ Wrap(clock + remain[t]) = Expiration(t)
  BY <1>2, TrackArith DEF Expiration
<1>4. remain[t] <= timer[t].interval /\ MaxLate \in Nat /\ ClockRange \in Nat
  BY <1>2, EtimerAssumption DEF Track
<1>5. remain[t] \in 1 .. ClockRange - 1
  BY <1>2, <1>3, <1>4
<1>6. QED
  BY <1>1, <1>3, <1>5 DEF Ahead

(* update_time's wrapping distances find the earliest expiration.          *)
LEMMA UpdateFinds ==
  ASSUME IInv, Tracked, NoneDue, timerlist # << >>
  PROVE  Good(UpdateTime)
<1>1. /\ timerlist \in Seq(Timer) /\ clock \in Time /\ remain \in [Timer -> Int]
      /\ \A t \in Timer : timer[t].start \in Time
  BY DEF IInv, TypeOK
<1>2. ASSUME NEW i \in DOMAIN timerlist
      PROVE  /\ timerlist[i] \in Timer /\ Listed(timerlist[i])
             /\ remain[timerlist[i]] \in Nat
             /\ Wrap(Expiration(timerlist[i]) - clock) = remain[timerlist[i]]
             /\ Wrap(clock + remain[timerlist[i]]) = Expiration(timerlist[i])
  <2>1. timerlist[i] \in Timer /\ Listed(timerlist[i])
    BY <1>1, ElementOfSeq, LenProperties DEF Listed
  <2> DEFINE t == timerlist[i]
  <2>2. remain[t] > 0 /\ remain[t] \in Int /\ timer[t].start \in Time
        /\ Track(clock, timer[t].start, timer[t].interval, remain[t])
    BY <1>1, <2>1 DEF NoneDue, Tracked, Live
  <2> HIDE DEF t
  <2>3. /\ Wrap(Wrap(timer[t].start + timer[t].interval) - clock) = remain[t]
        /\ Wrap(clock + remain[t]) = Wrap(timer[t].start + timer[t].interval)
    BY <1>1, <2>2, TrackArith
  <2>4. QED
    BY <2>1, <2>2, <2>3 DEF Expiration, t
<1>3. Distances = {remain[timerlist[i]] : i \in DOMAIN timerlist}
  BY <1>2 DEF Distances
<1>4. Distances \in SUBSET Nat
  BY <1>2, <1>3
<1>5. Distances # {}
  <2>1. 1 \in DOMAIN timerlist
    BY <1>1, EmptySeq, LenProperties
  <2>2. QED
    BY <1>3, <2>1
<1>6. Min(Distances) \in Distances /\ \A y \in Distances : Min(Distances) <= y
  BY <1>4, <1>5, MinInSet
<1>7. PICK i \in DOMAIN timerlist : Min(Distances) = remain[timerlist[i]]
  BY <1>3, <1>6
<1>8. UpdateTime = Expiration(timerlist[i])
  BY <1>2, <1>7 DEF UpdateTime
<1>9. ASSUME NEW u \in Timer, Listed(u) PROVE remain[timerlist[i]] <= remain[u]
  <2>1. PICK j \in DOMAIN timerlist : timerlist[j] = u
    BY <1>9 DEF Listed
  <2>2. remain[u] \in Distances
    BY <1>3, <2>1
  <2>3. QED
    BY <1>6, <1>7, <2>2
<1>10. QED
  BY <1>2, <1>8, <1>9 DEF Good

-----------------------------------------------------------------------------
(* A tick brings all listed timers one nearer.                             *)
LEMMA TickUniform ==
  ASSUME IInv, SysTick
  PROVE  /\ \A u : Listed(u)' <=> Listed(u)
         /\ \A u \in Timer : Listed(u) => remain'[u] = remain[u] - 1 /\ remain[u] \in Int
         /\ \A u : Expiration(u)' = Expiration(u)
         /\ NoneDue' => NoneDue
         /\ \A v : Good(v) => Good(v)'
<1>1. /\ timerlist' = timerlist /\ timer' = timer /\ remain \in [Timer -> Int]
      /\ \A u \in Timer : Listed(u) => remain[u] > - MaxLate
      /\ remain' = [u \in Timer |-> IF remain[u] > - MaxLate THEN remain[u] - 1 ELSE remain[u]]
  BY DEF SysTick, IInv, TypeOK
<1>2. \A u : Listed(u)' <=> Listed(u)
  BY <1>1 DEF Listed
<1>3. \A u \in Timer : Listed(u) => remain'[u] = remain[u] - 1 /\ remain[u] \in Int
  BY <1>1
<1>4. \A u : Expiration(u)' = Expiration(u)
  BY <1>1 DEF Expiration
<1>5. NoneDue' => NoneDue
  BY <1>2, <1>3 DEF NoneDue
<1>6. ASSUME NEW v, Good(v) PROVE Good(v)'
  <2>1. PICK t \in Timer : /\ Listed(t) /\ Expiration(t) = v
                           /\ \A u \in Timer : Listed(u) => remain[t] <= remain[u]
    BY <1>6 DEF Good
  <2>2. Listed(t)' /\ Expiration(t)' = v
    BY <1>2, <1>4, <2>1
  <2>3. \A u \in Timer : Listed(u)' => remain'[t] <= remain'[u]
    BY <1>2, <1>3, <2>1
  <2>4. QED
    BY <2>2, <2>3 DEF Good
<1>7. QED
  BY <1>2, <1>3, <1>4, <1>5, <1>6

(* The comparison in SysTick_Handler finds the tick at which the first     *)
(* timer falls due.                                                        *)
LEMMA TickNotices ==
  ASSUME IInv, SysTick, timerlist # << >>, Ahead(next_expiration)
  PROVE  polled' \/ (NoneDue' /\ Ahead(next_expiration)')
<1>1. PICK d \in 1 .. ClockRange - 1 :
        /\ next_expiration = Wrap(clock + d)
        /\ \A u \in Timer : Listed(u) => d <= remain[u]
  BY DEF Ahead
<1>2. /\ clock' = Wrap(clock + 1) /\ next_expiration' = next_expiration
      /\ polled' = (polled \/ (timerlist # << >> /\ next_expiration <= clock'))
  BY DEF SysTick
<1>3. clock \in Int /\ 0 <= clock /\ clock < ClockRange /\ ClockRange \in Nat
  BY EtimerAssumption DEF IInv, TypeOK, Time
<1>4. Wrap(clock + 1) = IF clock + 1 < ClockRange THEN clock + 1 ELSE clock + 1 - ClockRange
  BY <1>3, WrapOnce
<1>5. CASE d = 1
  <2>1. clock' \in Int /\ next_expiration = clock'
    BY <1>1, <1>2, <1>3, <1>4, <1>5
  <2>2. next_expiration <= clock'
    BY <2>1
  <2>3. QED
    BY <1>2, <2>2, Zenon
<1>6. CASE d # 1
  <2>1. d - 1 \in 1 .. ClockRange - 1
    BY <1>1, <1>3, <1>6
  <2>2. Wrap(clock + d) = IF clock + d < ClockRange THEN clock + d ELSE clock + d - ClockRange
    BY <1>1, <1>3, WrapOnce
  <2>3. Wrap(clock' + (d - 1)) = Wrap(clock + d)
    BY <1>1, <1>2, <1>3, <1>4, <2>1, <2>2, WrapOnce
  <2>4. \A u \in Timer : Listed(u)' => d - 1 <= remain'[u] /\ remain'[u] \in Int
    BY <1>1, TickUniform
  <2>5. next_expiration' = Wrap(clock' + (d - 1))
    BY <1>1, <1>2, <2>3
  <2>6. Ahead(next_expiration)'
    BY <2>1, <2>4, <2>5 DEF Ahead
  <2>7. NoneDue'
    BY <2>1, <2>4 DEF NoneDue
  <2>8. QED
    BY <2>6, <2>7
<1>7. QED
  BY <1>5, <1>6

-----------------------------------------------------------------------------
(* The steps one by one.  A tick.                                          *)
LEMMA TickTimely ==
  ASSUME IInv, Tracked, Timely, SysTick
  PROVE  Timely'
<1>1. /\ timerlist' = timerlist /\ next_expiration' = next_expiration
      /\ next_value' = next_value /\ stale' = stale /\ pc' = pc /\ cur' = cur /\ pos' = pos
      /\ Updating' = Updating
  BY DEF SysTick, control, Updating
<1>2. /\ \A u : Listed(u)' <=> Listed(u)
      /\ \A u \in Timer : Listed(u) => remain'[u] = remain[u] - 1 /\ remain[u] \in Int
      /\ NoneDue' => NoneDue
      /\ \A v : Good(v) => Good(v)'
  BY TickUniform
<1>3. NextIsEarliest'
  <2> SUFFICES ASSUME ~ Updating, ~ stale, timerlist # << >>, NoneDue'
               PROVE  Good(next_expiration)'
    BY <1>1 DEF NextIsEarliest, Good, Updating
  <2>1. Good(next_expiration)
    BY <1>2 DEF Timely, NextIsEarliest, Good, Updating
  <2>2. QED
    BY <1>1, <1>2, <2>1 DEF Good
<1>4. (pc = "store" /\ timerlist # << >> /\ NoneDue => Good(next_value))'
  <2> SUFFICES ASSUME pc = "store", timerlist # << >>, NoneDue'
               PROVE  Good(next_value)'
    BY <1>1
  <2>1. Good(next_value)
    BY <1>2 DEF Timely
  <2>2. QED
    BY <1>1, <1>2, <2>1 DEF Good
<1>5. (Updating /\ cur = NONE => pos = 1)'
  BY <1>1 DEF Timely
<1>6. polled => polled'
  BY Zenon DEF SysTick
<1>7. ASSUME NoneDue, ~ polled', ~ NoneDue', ~ stale, ~ (Updating /\ cur = NONE) PROVE FALSE
  <2>1. timerlist # << >>
    BY <1>1, <1>2, <1>7, SomeListed DEF NoneDue, IInv
  <2>2. Ahead(next_expiration)
    <3>1. CASE Updating
      BY <1>6, <1>7, <2>1, <3>1 DEF Timely
    <3>2. CASE ~ Updating
      <4>1. Good(next_expiration)
        BY <1>7, <2>1, <3>2 DEF Timely, NextIsEarliest, Good, Updating
      <4>2. QED
        BY <1>7, <4>1, GoodAhead
    <3>3. QED
      BY <3>1, <3>2
  <2>3. QED
    BY <1>7, <2>1, <2>2, TickNotices
<1>8. Served'
  <2>1. CASE pc = "scan" /\ \E i \in DOMAIN timerlist : i >= pos /\ remain[timerlist[i]] <= 0
    <3>1. PICK i \in DOMAIN timerlist : i >= pos /\ remain[timerlist[i]] <= 0
      BY <2>1
    <3>2. timerlist[i] \in Timer /\ Listed(timerlist[i])
      BY ElementOfSeq, LenProperties DEF IInv, TypeOK, Listed
    <3>3. remain'[timerlist[i]] <= 0
      BY <1>2, <3>1, <3>2
    <3>4. QED
      BY <1>1, <2>1, <3>1, <3>3 DEF Served
  <2>2. CASE stale \/ polled \/ NoneDue \/ (Updating /\ cur = NONE)
    BY <1>1, <1>6, <1>7, <2>2 DEF Served
  <2>3. QED
    BY <2>1, <2>2 DEF Timely, Served
<1>9. (Updating /\ cur # NONE /\ ~ stale /\ ~ polled /\ timerlist # << >> /\ NoneDue =>
         Ahead(next_expiration))'
  <2> SUFFICES ASSUME Updating, cur # NONE, ~ stale, ~ polled', timerlist # << >>, NoneDue'
               PROVE  Ahead(next_expiration)'
    BY <1>1
  <2>1. Ahead(next_expiration)
    BY <1>2, <1>6 DEF Timely
  <2>2. QED
    BY <2>1, TickNotices
<1>10. QED
  BY <1>3, <1>4, <1>5, <1>8, <1>9 DEF Timely

(* A step between updates that leaves the list and the times alone.        *)
LEMMA CalmTimely ==
  ASSUME Timely, Unarmed, ~ Updating, ~ Updating', Served',
         UNCHANGED <<timerlist, remain, next_expiration, stale>>
  PROVE  Timely'
<1>1. \A u \in Timer : (Listed(u)' <=> Listed(u)) /\ Expiration(u)' = Expiration(u)
  BY DEF Listed, Expiration, Unarmed, Same
<1>2. NoneDue' <=> NoneDue
  BY <1>1 DEF NoneDue
<1>3. Good(next_expiration) => Good(next_expiration)'
  BY <1>1 DEF Good
<1>4. NextIsEarliest'
  <2> SUFFICES ASSUME ~ stale, timerlist # << >>, NoneDue
               PROVE  Good(next_expiration)'
    BY <1>2 DEF NextIsEarliest, Good
  <2>1. Good(next_expiration)
    BY DEF Timely, NextIsEarliest, Good, Updating
  <2>2. QED
    BY <1>3, <2>1
<1>5. pc' # "store"
  BY DEF Updating
<1>6. QED
  BY <1>4, <1>5 DEF Timely

(* Outside the scan and the update, due timers are seen to by a poll.      *)
LEMMA CalmServed ==
  ASSUME Served, ~ Updating, pc # "scan", stale => stale', polled => polled',
         NoneDue => NoneDue'
  PROVE  Served'
BY DEF Served

LEMMA RunTimely ==
  ASSUME IInv, Tracked, Timely,
         \/ ProcessRun \/ DoEvent \/ Return \/ Exit \/ DropDone
         \/ \E p \in Client : ClientPoll(p) \/ Post(p)
         \/ \E t \in Timer : EtimerStop(t) /\ timerlist' = timerlist
  PROVE  Timely'
<1>1. Unarmed
  BY OthersUnarmed
<1>2. UNCHANGED <<timerlist, remain, next_expiration, stale>>
  BY DEF ProcessRun, DoEvent, Return, Exit, DropDone, ClientPoll, Post, EtimerStop
<1>3. ~ Updating /\ pc # "scan"
  BY DEF ProcessRun, DoEvent, Return, Exit, DropDone, ClientPoll, Post, EtimerStop,
     InHandler, Updating
<1>4. NoneDue' <=> NoneDue
  BY <1>2 DEF NoneDue, Listed
<1>5. ~ Updating'
  <2>1. CASE \E t \in Timer : EtimerStop(t) /\ timerlist' = timerlist
    <3>1. PICK t \in Timer : EtimerStop(t) /\ timerlist' = timerlist
      BY <2>1
    <3>2. ASSUME NEW i \in DOMAIN timerlist, timerlist' = RemoveAt(timerlist, i) PROVE FALSE
      <4>1. Len(timerlist') = Len(timerlist) - 1 /\ Len(timerlist) \in Nat
        BY <3>2, RemoveAtFacts, LenProperties DEF IInv, TypeOK
      <4>2. QED
        BY <3>1, <4>1
    <3>3. QED
      BY <3>1, <3>2 DEF EtimerStop, Updating
  <2>2. CASE \/ ProcessRun \/ DoEvent \/ Return \/ Exit \/ DropDone
             \/ \E p \in Client : ClientPoll(p) \/ Post(p)
    BY <2>2 DEF ProcessRun, DoEvent, Return, Exit, DropDone, ClientPoll, Post, EnterHandler,
       InHandler, IInv, TypeOK, Updating
  <2>3. QED
    BY <2>1, <2>2
<1>6. Served'
  <2>1. CASE ProcessRun /\ polled
    <3>1. pc' = "scan" /\ pos' = 1
      BY <2>1 DEF ProcessRun
    <3>2. ASSUME ~ NoneDue PROVE \E i \in DOMAIN timerlist : i >= 1 /\ remain[timerlist[i]] <= 0
      <4>1. PICK t \in Timer : Listed(t) /\ ~ (remain[t] > 0)
        BY <3>2 DEF NoneDue
      <4>2. PICK i \in DOMAIN timerlist : timerlist[i] = t
        BY <4>1 DEF Listed
      <4>3. i >= 1 /\ remain[t] \in Int
        BY LenProperties DEF IInv, TypeOK
      <4>4. QED
        BY <4>1, <4>2, <4>3
    <3>3. QED
      BY <1>2, <1>4, <3>1, <3>2 DEF Served
  <2>2. CASE ~ (ProcessRun /\ polled)
    <3>1. polled => polled'
      BY <2>2 DEF ProcessRun, DoEvent, Return, Exit, DropDone, ClientPoll, Post, EtimerStop
    <3>2. QED
      BY <1>2, <1>3, <1>4, <3>1, CalmServed DEF Timely
  <2>3. QED
    BY <2>1, <2>2
<1>7. QED
  BY <1>1, <1>2, <1>3, <1>5, <1>6, CalmTimely

LEMMA ScanTimely ==
  ASSUME IInv, Tracked, Timely, Scan
  PROVE  Timely'
<1>1. pc = "scan" /\ cur' = cur /\ cur = NONE /\ UNCHANGED <<remain, next_expiration, stale>>
  BY DEF Scan, IInv, Runs
<1>2. Unarmed
  BY OthersUnarmed
<1>3. CASE \/ ScanEnd
           \/ pos <= Len(timerlist) /\ (ScanPass(timerlist[pos]) \/ ScanFull(timerlist[pos]))
  <2>1. timerlist' = timerlist /\ pc' \in {"scan", "event"}
    BY <1>1, <1>3 DEF ScanEnd, ScanPass, ScanFull
  <2>2. NoneDue' <=> NoneDue
    BY <1>1, <2>1 DEF NoneDue, Listed
  <2>3. Served'
    <3>1. CASE \E i \in DOMAIN timerlist : i >= pos /\ remain[timerlist[i]] <= 0
      <4>1. PICK i \in DOMAIN timerlist : i >= pos /\ remain[timerlist[i]] <= 0
        BY <3>1
      <4>2. /\ i \in Int /\ pos \in Int /\ Len(timerlist) \in Nat
            /\ pos <= Len(timerlist)
        BY <4>1, LenProperties DEF IInv, TypeOK
      <4>3. CASE ScanFull(timerlist[pos])
        BY <4>3 DEF ScanFull, Served
      <4>4. CASE ScanPass(timerlist[pos])
        <5>1. i # pos
          BY <4>1, <4>2, <4>4, ScanTimer, ExpiredIsDue DEF ScanPass
        <5>2. i >= pos' /\ pc' = "scan"
          BY <1>1, <4>1, <4>2, <4>4, <5>1 DEF ScanPass
        <5>3. QED
          BY <1>1, <2>1, <4>1, <5>2 DEF Served
      <4>5. QED
        BY <1>3, <4>2, <4>3, <4>4 DEF ScanEnd
    <3>2. CASE stale \/ polled \/ NoneDue
      <4>1. polled => polled'
        BY <1>3 DEF ScanEnd, ScanPass, ScanFull
      <4>2. QED
        BY <1>1, <2>2, <3>2, <4>1 DEF Served
    <3>3. QED
      BY <1>1, <3>1, <3>2 DEF Timely, Served, Updating
  <2>4. QED
    BY <1>1, <1>2, <2>1, <2>3, CalmTimely DEF Updating
<1>4. CASE pos <= Len(timerlist) /\ ScanFire(timerlist[pos])
  <2>1. pc' = "update" /\ pos' = 1 /\ cur' = NONE
    BY <1>1, <1>4 DEF ScanFire
  <2>2. QED
    BY <2>1 DEF Timely, NextIsEarliest, Served, Updating
<1>5. QED
  BY <1>3, <1>4 DEF Scan

LEMMA UpdateTimely ==
  ASSUME IInv, Tracked, Timely, UpdateRead \/ UpdateStore
  PROVE  Timely'
<1>1. UNCHANGED <<clock, timerlist, timer, remain, cur, pos, polled>>
  BY DEF UpdateRead, UpdateStore
<1>2. \A u \in Timer : (Listed(u)' <=> Listed(u)) /\ Expiration(u)' = Expiration(u)
  BY <1>1 DEF Listed, Expiration
<1>3. /\ NoneDue' <=> NoneDue
      /\ \A v : Good(v)' <=> Good(v)
  BY <1>1, <1>2 DEF NoneDue, Good
<1>4. CASE UpdateRead
  <2>1. /\ pc = "update" /\ pc' = "store" /\ next_value' = UpdateTime
        /\ next_expiration' = next_expiration /\ stale' = stale
    BY <1>4 DEF UpdateRead
  <2>2. (pc = "store" /\ timerlist # << >> /\ NoneDue => Good(next_value))'
    <3> SUFFICES ASSUME timerlist # << >>, NoneDue PROVE Good(next_value)'
      BY <1>1, <1>3
    <3>1. Good(UpdateTime)
      BY UpdateFinds
    <3>2. QED
      BY <1>1, <1>2, <2>1, <3>1 DEF Good
  <2>3. Served'
    BY <1>1, <1>3, <2>1 DEF Timely, Served, Updating
  <2>4. Ahead(next_expiration)' <=> Ahead(next_expiration)
    BY <1>1, <1>2, <2>1 DEF Ahead
  <2>5. NextIsEarliest'
    BY <2>1 DEF NextIsEarliest
  <2>6. QED
    BY <1>1, <1>3, <2>1, <2>2, <2>3, <2>4, <2>5 DEF Timely, Updating
<1>5. CASE UpdateStore
  <2>1. /\ pc = "store" /\ pc' = IF cur = NONE THEN "scan" ELSE "handler"
        /\ next_expiration' = next_value /\ stale' = (stale /\ ~ NoneDue)
    BY <1>5 DEF UpdateStore
  <2>2. NextIsEarliest'
    <3> SUFFICES ASSUME timerlist # << >>, NoneDue PROVE Good(next_expiration)'
      BY <1>1, <1>3 DEF NextIsEarliest, Good
    <3>1. Good(next_value)
      BY <2>1 DEF Timely
    <3>2. QED
      BY <1>1, <1>2, <2>1, <3>1 DEF Good
  <2>3. Served'
    <3>1. CASE cur # NONE \/ NoneDue
      BY <1>1, <1>3, <2>1, <3>1, Zenon DEF Timely, Served, Updating
    <3>2. CASE cur = NONE /\ ~ NoneDue
      <4>1. PICK t \in Timer : Listed(t) /\ ~ (remain[t] > 0)
        BY <3>2 DEF NoneDue
      <4>2. PICK i \in DOMAIN timerlist : timerlist[i] = t
        BY <4>1 DEF Listed
      <4>3. i >= 1 /\ remain[t] \in Int
        BY LenProperties DEF IInv, TypeOK
      <4>4. pos' = 1 /\ pc' = "scan"
        BY <1>1, <2>1, <3>2 DEF Timely, Updating
      <4>5. i >= pos' /\ remain'[timerlist'[i]] <= 0 /\ i \in DOMAIN timerlist'
        BY <1>1, <4>1, <4>2, <4>3, <4>4
      <4>6. QED
        BY <4>4, <4>5 DEF Served
    <3>3. QED
      BY <3>1, <3>2
  <2>4. pc' \notin {"update", "store"}
    BY <2>1
  <2>5. QED
    BY <2>2, <2>3, <2>4 DEF Timely, Updating
<1>6. QED
  BY <1>4, <1>5

(* A call that asks for a poll; one that asks for none, and brings no due  *)
(* time closer; an exit, which says that next_expiration stays behind.     *)
LEMMA PolledTimely ==
  ASSUME IInv, pc = "handler", pc' = "update", cur' = cur, polled'
  PROVE  Timely'
<1>1. cur # NONE
  BY EtimerAssumption DEF IInv, TypeOK, Runs
<1>2. QED
  BY <1>1 DEF Timely, NextIsEarliest, Served, Updating

LEMMA LaterTimely ==
  ASSUME IInv, IInv', Tracked, Timely, pc = "handler", pc' = "update",
         UNCHANGED <<clock, cur, polled, stale, next_expiration>>,
         \A u \in Timer : Listed(u)' => Listed(u) /\ remain[u] <= remain'[u]
  PROVE  Timely'
<1>1. remain \in [Timer -> Int] /\ remain' \in [Timer -> Int] /\ ClockRange \in Nat
  BY EtimerAssumption DEF IInv, TypeOK
<1>2. NoneDue => NoneDue'
  BY <1>1 DEF NoneDue
<1>3. Served'
  BY <1>2, CalmServed DEF Timely, Updating
<1>4. ASSUME ~ stale, ~ polled, timerlist' # << >> PROVE Ahead(next_expiration)'
  <2>1. NoneDue
    BY <1>4 DEF Timely, Served, Updating
  <2>2. timerlist # << >>
    <3>1. 1 \in DOMAIN timerlist' /\ timerlist'[1] \in Timer
      BY <1>4, EmptySeq, ElementOfSeq, LenProperties DEF IInv, TypeOK
    <3>2. Listed(timerlist'[1])
      BY <3>1 DEF Listed
    <3>3. QED
      BY <3>1, <3>2, SomeListed DEF IInv
  <2>3. Good(next_expiration)
    BY <1>4, <2>1, <2>2 DEF Timely, NextIsEarliest, Good
  <2>4. PICK d \in 1 .. ClockRange - 1 :
          /\ next_expiration = Wrap(clock + d)
          /\ \A u \in Timer : Listed(u) => d <= remain[u]
    BY <2>1, <2>3, GoodAhead DEF Ahead
  <2>5. \A u \in Timer : Listed(u)' => d <= remain'[u]
    BY <1>1, <2>4
  <2>6. QED
    BY <2>4, <2>5 DEF Ahead
<1>5. cur # NONE
  BY EtimerAssumption DEF IInv, TypeOK, Runs
<1>6. QED
  BY <1>3, <1>4, <1>5 DEF Timely, NextIsEarliest, Updating

LEMMA DropTimely == DropTimer => Timely'
BY DEF DropTimer, control, Timely, NextIsEarliest, Served, Updating

LEMMA ClientTimely ==
  ASSUME IInv, IInv', Tracked, Timely, NEW t \in Timer,
         \/ \E i \in Interval : EtimerSet(t, i)
         \/ Shift \subseteq Nat /\ \E td \in Shift : EtimerAdjust(t, td)
         \/ EtimerReset(t) \/ EtimerRestart(t) \/ EtimerStop(t)
  PROVE  Timely'
<1>1. remain \in [Timer -> Int] /\ timerlist \in Seq(Timer)
  BY DEF IInv, TypeOK
<1>2. CASE (\E i \in Interval : EtimerSet(t, i)) \/ EtimerReset(t) \/ EtimerRestart(t)
  BY <1>2, PolledTimely DEF EtimerSet, EtimerReset, EtimerRestart, AddTimer, InHandler
<1>3. CASE Shift \subseteq Nat /\ \E td \in Shift : EtimerAdjust(t, td)
  <2>1. PICK td \in Shift : EtimerAdjust(t, td)
    BY <1>3
  <2>2. td \in Nat /\ remain' = [remain EXCEPT ![t] = @ + td] /\ timerlist' = timerlist
    BY <1>3, <2>1 DEF EtimerAdjust
  <2>3. \A u \in Timer : Listed(u)' => Listed(u) /\ remain[u] <= remain'[u]
    BY <1>1, <2>2 DEF Listed
  <2>4. /\ pc = "handler" /\ pc' = "update"
        /\ UNCHANGED <<clock, cur, polled, stale, next_expiration>>
    BY <2>1 DEF EtimerAdjust, InHandler
  <2>5. QED
    BY <2>3, <2>4, LaterTimely
<1>4. CASE EtimerStop(t) /\ timerlist' = timerlist
  BY <1>4, RunTimely
<1>5. CASE EtimerStop(t) /\ timerlist' # timerlist
  <2>1. \A u \in Timer : Listed(u)' => Listed(u)
    BY <1>5, OthersUnarmed DEF Unarmed
  <2>2. \A u \in Timer : remain[u] <= remain'[u]
    BY <1>1, <1>5 DEF EtimerStop
  <2>3. /\ pc = "handler" /\ pc' = "update"
        /\ UNCHANGED <<clock, cur, polled, stale, next_expiration>>
    BY <1>5 DEF EtimerStop, InHandler
  <2>4. QED
    BY <2>1, <2>2, <2>3, LaterTimely
<1>6. QED
  BY <1>2, <1>3, <1>4, <1>5

-----------------------------------------------------------------------------
LEMMA StillTimely == Timely /\ UNCHANGED vars => Timely'
BY DEF vars, Timely, NextIsEarliest, NoneDue, Good, Served, Ahead, Updating, Listed, Expiration

LEMMA TimelyStep ==
  IInv /\ IInv' /\ Tracked /\ Timely /\ ~ AnyShift /\ Shift \subseteq Nat /\ [Next]_vars
    => Timely'
<1> SUFFICES ASSUME IInv, IInv', Tracked, Timely, ~ AnyShift, Shift \subseteq Nat, [Next]_vars
             PROVE  Timely'
  OBVIOUS
<1>1. CASE UNCHANGED vars
  BY <1>1, StillTimely
<1>2. QED
  BY <1>1, TickTimely, RunTimely, ScanTimely, UpdateTimely, DropTimely, ClientTimely
     DEF Next, Main

LEMMA TimelyInit == Init => Timely
BY DEF Init, Timely, NextIsEarliest, Served, NoneDue, Updating, Listed

LEMMA TimelyHolds == ASSUME ~ AnyShift, Shift \subseteq Nat PROVE Spec => []Timely
<1>1. IInv /\ IInv' /\ Tracked /\ Timely /\ [Next]_vars => Timely'
  BY TimelyStep
<1>2. QED
  BY <1>1, TimelyInit, TrackedHolds, PTL DEF Spec

(* Between passes with no poll outstanding no listed timer is due, unless  *)
(* an exit left next_expiration behind: SysTick_Handler sees every timer   *)
(* fall due, between any two steps of update_time and across wraps, as     *)
(* long as no adjustment moves a due time closer.                          *)
THEOREM DueIsNoticed == ASSUME ~ AnyShift, Shift \subseteq Nat PROVE Spec => []ExpiryNoticed
<1>1. Timely => ExpiryNoticed
  BY DEF Timely, Served, ExpiryNoticed, NoneOverdue, Updating
<1>2. QED
  BY <1>1, TimelyHolds, PTL

(* etimer_next_expiration_time answers with the earliest expiration of the *)
(* listed timers while none is due and no exit left it behind.             *)
THEOREM NextExpiration == ASSUME ~ AnyShift, Shift \subseteq Nat PROVE Spec => []NextIsEarliest
<1>1. Timely => NextIsEarliest
  BY DEF Timely
<1>2. QED
  BY <1>1, TimelyHolds, PTL
=============================================================================

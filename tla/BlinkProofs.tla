----------------------------- MODULE BlinkProofs -----------------------------
(***************************************************************************)
(* For any timers, other clients, intervals and clock range: blink_process *)
(* on the event timers is the blinker of module Blinker.                   *)
(***************************************************************************)
EXTENDS Blink, EtimerProofs

(* Where blink_process is and what it has done so far.                     *)
Stage == /\ blink_process \in alive
         /\ at \in {"boot", "begin", "dark", "lit"} /\ led = (at = "lit")
         /\ at = "boot" => pc = "main"
         /\ since \in Nat /\ since <= SECOND

(* While it waits, its timer is not found expired before it is due, and    *)
(* when it is due the LED is old enough.                                   *)
Patient == at \in {"dark", "lit"} =>
             /\ timer[et].p = NONE => remain[et] <= 0
             /\ since < SECOND => SECOND <= since + remain[et]

BlinkInv == IInv /\ Tracked /\ Stage /\ Patient

-----------------------------------------------------------------------------
LEMMA BlinkInitHolds == BlinkInit => BlinkInv
<1> SUFFICES ASSUME BlinkInit PROVE BlinkInv
  OBVIOUS
<1>1. Init /\ IInv /\ Tracked
  BY InitInv, TrackedInit DEF BlinkInit
<1>2. Stage
  <2>1. 0 \in Nat /\ 0 <= SECOND
    BY BlinkAssumption, EtimerAssumption
  <2>2. QED
    BY <1>1, <2>1, BlinkAssumption DEF Stage, BlinkInit, Init
<1>3. Patient
  BY DEF Patient, BlinkInit
<1>4. QED
  BY <1>1, <1>2, <1>3 DEF BlinkInv

(* The rest of the program, one step.                                      *)
Rest == Loop \/ Others \/ \E p \in Client : ClientPoll(p)

(* The calls of the other clients that arm a timer.                        *)
ArmOther(t) == \/ \E i \in Interval : EtimerSet(t, i)
               \/ EtimerReset(t) \/ EtimerRestart(t)

LEMMA RestSteps ==
  ASSUME Rest
  PROVE  \/ Loop \/ Return \/ Exit \/ \E p \in Client : ClientPoll(p)
         \/ \E t \in Timer \ {et} : ArmOther(t) \/ EtimerStop(t)
BY DEF Rest, Others, ArmOther

LEMMA SecondIsInterval == SECOND \in Interval /\ SECOND \in Nat /\ 0 < SECOND
BY BlinkAssumption, EtimerAssumption

(* The INIT event changes nothing of the timers.                           *)
LEMMA AutostartKeeps == ASSUME BlinkInv, Autostart PROVE IInv' /\ Tracked'
<1>1. /\ pc = "main" /\ pc' = "handler" /\ cur' = blink_process /\ left' = HandlerOps
      /\ back' = "main"
      /\ UNCHANGED <<clock, timerlist, timer, next_expiration, polled, queue, alive, pos,
                     next_value, remain, stale>>
  BY DEF Autostart, EnterHandler
<1>2. TypeOK'
  <2>1. left' \in 0 .. HandlerOps
    BY <1>1, EtimerAssumption
  <2>2. cur' \in Client \cup {NONE}
    BY <1>1, BlinkAssumption
  <2>3. QED
    BY <1>1, <2>1, <2>2 DEF BlinkInv, IInv, TypeOK
<1>3. ListedOwned'
  BY <1>1, QuietOwned DEF BlinkInv
<1>4. Runs'
  BY <1>1 DEF Runs, BlinkInv, Stage
<1>5. Tracked'
  BY <1>1, QuietUnarmed, TrackedBy DEF BlinkInv
<1>6. QED
  BY <1>2, <1>3, <1>4, <1>5 DEF IInv

(* All other steps are steps of Etimer.                                    *)
LEMMA ProgramSteps == [Program \/ Tick]_allVars => Autostart \/ [Next]_vars
<1> SUFFICES ASSUME [Program \/ Tick]_allVars, ~ Autostart PROVE [Next]_vars
  OBVIOUS
<1>1. CASE Begin \/ Proceed
  <2>1. EtimerSet(et, SECOND) /\ et \in Timer /\ SECOND \in Interval
    BY <1>1, BlinkAssumption DEF Begin, Proceed, Arm
  <2>2. QED
    BY <2>1 DEF Next, Main
<1>2. CASE Wait \/ Tick \/ UNCHANGED allVars
  BY <1>2 DEF Wait, Tick, allVars, Next, Main
<1>3. CASE Rest
  BY <1>3, RestSteps DEF Next, Main, Loop, ArmOther
<1>4. QED
  BY <1>1, <1>2, <1>3 DEF Program, Rest

LEMMA TimersKeep ==
  ASSUME BlinkInv, [Program \/ Tick]_allVars
  PROVE  IInv' /\ Tracked'
<1>1. CASE Autostart
  BY <1>1, AutostartKeeps
<1>2. CASE ~ Autostart
  <2>1. IInv'
    BY <1>2, ProgramSteps, TypeStep, OwnedStep, RunsStep DEF BlinkInv, IInv
  <2>2. CASE Begin \/ Proceed
    <3>1. Armed(et) /\ et \in Timer
      BY <2>2, ClientArms, BlinkAssumption DEF Begin, Proceed, Arm, BlinkInv
    <3>2. QED
      BY <2>1, <3>1, TrackedBy DEF BlinkInv
  <2>3. CASE Wait \/ UNCHANGED allVars
    <3>1. Unarmed
      BY <2>3, OthersUnarmed DEF Wait, allVars, BlinkInv
    <3>2. QED
      BY <2>1, <3>1, TrackedBy DEF BlinkInv
  <2>4. CASE Tick
    BY <2>1, <2>4, TrackedBy DEF BlinkInv, Tick
  <2>5. CASE Rest
    <3>1. CASE \E t \in Timer \ {et} : ArmOther(t)
      <4>1. \E t \in Timer : Armed(t)
        BY <3>1, ClientArms DEF ArmOther, BlinkInv
      <4>2. QED
        BY <2>1, <4>1, TrackedBy DEF BlinkInv
    <3>2. CASE ~ \E t \in Timer \ {et} : ArmOther(t)
      <4>1. Unarmed
        BY <2>5, <3>2, RestSteps, OthersUnarmed DEF BlinkInv, Loop
      <4>2. QED
        BY <2>1, <4>1, TrackedBy DEF BlinkInv
    <3>3. QED
      BY <3>1, <3>2
  <2>6. QED
    BY <1>2, <2>2, <2>3, <2>4, <2>5 DEF Program, Rest
<1>3. QED
  BY <1>1, <1>2

(* The tick finds every timer of the program fall due.                     *)
LEMMA ProgramTimely ==
  ASSUME BlinkInv, Timely, [Program \/ Tick]_allVars
  PROVE  Timely'
<1>1. IInv /\ IInv' /\ Tracked
  BY TimersKeep DEF BlinkInv
<1>2. CASE Autostart
  <2>1. /\ pc = "main" /\ pc' = "handler"
        /\ UNCHANGED <<clock, timerlist, timer, next_expiration, polled, remain, stale>>
    BY <1>2 DEF Autostart, EnterHandler
  <2>2. Unarmed
    BY <2>1, QuietUnarmed
  <2>3. Served'
    BY <2>1, CalmServed DEF Timely, Updating, NoneDue, Listed
  <2>4. QED
    BY <2>1, <2>2, <2>3, CalmTimely DEF Updating
<1>3. CASE Begin \/ Proceed
  BY <1>1, <1>3, ClientTimely, BlinkAssumption DEF Begin, Proceed, Arm
<1>4. CASE Wait \/ UNCHANGED allVars
  BY <1>1, <1>4, RunTimely, StillTimely DEF Wait, allVars
<1>5. CASE Tick
  BY <1>1, <1>5, TickTimely DEF Tick
<1>6. CASE Rest
  <2>1. CASE Loop
    BY <1>1, <2>1, RunTimely, ScanTimely, UpdateTimely, DropTimely DEF Loop
  <2>2. CASE Return \/ Exit \/ \E p \in Client : ClientPoll(p)
    BY <1>1, <2>2, RunTimely
  <2>3. CASE \E t \in Timer \ {et} : ArmOther(t) \/ EtimerStop(t)
    BY <1>1, <2>3, ClientTimely DEF ArmOther
  <2>4. QED
    BY <1>6, <2>1, <2>2, <2>3, RestSteps
<1>7. QED
  BY <1>2, <1>3, <1>4, <1>5, <1>6 DEF Program, Rest

-----------------------------------------------------------------------------
(* Nobody else touches the timer of blink_process, save the scan when it   *)
(* is due.                                                                 *)
LEMMA EtAlone ==
  ASSUME BlinkInv, Rest
  PROVE  /\ remain'[et] = remain[et]
         /\ timer'[et].p = NONE => timer[et].p = NONE \/ remain[et] <= 0
<1>1. /\ timer \in [Timer -> [start : Time, interval : Nat, p : Client \cup {NONE}]]
      /\ remain \in [Timer -> Int] /\ et \in Timer
  BY BlinkAssumption DEF BlinkInv, IInv, TypeOK
<1>2. CASE Scan
  <2>1. remain' = remain
    BY <1>2 DEF Scan
  <2>2. CASE timer' = timer
    BY <2>1, <2>2
  <2>3. CASE timer' # timer
    <3>1. PICK t : pos <= Len(timerlist) /\ t = timerlist[pos] /\ ScanFire(t)
      BY <1>2, <2>3 DEF Scan, ScanEnd, ScanPass, ScanFull
    <3>2. t \in Timer /\ Listed(t)
      BY <3>1, ScanTimer DEF BlinkInv
    <3>3. CASE t = et
      BY <2>1, <3>1, <3>2, <3>3, ExpiredIsDue DEF BlinkInv, ScanFire
    <3>4. CASE t # et
      <4>1. timer'[et].p = timer[et].p
        BY <1>1, <3>1, <3>4 DEF ScanFire
      <4>2. QED
        BY <2>1, <4>1
    <3>5. QED
      BY <3>3, <3>4
  <2>4. QED
    BY <2>2, <2>3
<1>3. CASE \E t \in Timer \ {et} : ArmOther(t) \/ EtimerStop(t)
  <2>1. PICK t \in Timer \ {et} : ArmOther(t) \/ EtimerStop(t)
    BY <1>3
  <2>2. remain'[et] = remain[et]
    BY <1>1, <2>1 DEF ArmOther, EtimerSet, EtimerReset, EtimerRestart, EtimerStop
  <2>3. timer'[et].p = timer[et].p
    BY <1>1, <2>1 DEF ArmOther, EtimerSet, EtimerReset, EtimerRestart, EtimerStop, AddTimer
  <2>4. QED
    BY <2>2, <2>3
<1>4. CASE \/ ProcessRun \/ DoEvent \/ UpdateRead \/ UpdateStore \/ DropTimer \/ DropDone
           \/ Return \/ Exit \/ \E p \in Client : ClientPoll(p)
  <2>1. remain' = remain /\ timer' = timer
    BY <1>4 DEF ProcessRun, DoEvent, UpdateRead, UpdateStore, DropTimer, DropDone, Return, Exit,
                ClientPoll
  <2>2. QED
    BY <2>1
<1>5. QED
  BY <1>2, <1>3, <1>4, RestSteps DEF Loop

LEMMA RestKeeps ==
  ASSUME BlinkInv, Rest, at # "boot", UNCHANGED blinkVars
  PROVE  Stage' /\ Patient'
<1>1. blink_process \in alive'
  <2>1. CASE alive' = alive
    BY <2>1 DEF BlinkInv, Stage
  <2>2. CASE alive' # alive
    <3>1. Exit /\ cur # blink_process
      BY <2>2 DEF Rest, Loop, Others, ClientPoll, ProcessRun, DoEvent, Scan, UpdateRead,
                  UpdateStore, DropTimer, DropDone, Return, EtimerSet, EtimerReset,
                  EtimerRestart, EtimerStop, AddTimer
    <3>2. QED
      BY <3>1 DEF Exit, BlinkInv, Stage
  <2>3. QED
    BY <2>1, <2>2
<1>2. Stage'
  BY <1>1 DEF blinkVars, BlinkInv, Stage
<1>3. Patient'
  BY EtAlone DEF blinkVars, BlinkInv, Patient
<1>4. QED
  BY <1>2, <1>3

(* A phase begins: the timer is set for CLOCK_SECOND.                      *)
LEMMA ArmKeeps ==
  ASSUME BlinkInv, Begin \/ Proceed
  PROVE  Stage' /\ Patient'
<1>1. /\ EtimerSet(et, SECOND) /\ et \in Timer /\ cur = blink_process /\ pc = "handler"
  BY BlinkAssumption DEF Begin, Proceed, Arm, Awake
<1>2. remain'[et] = SECOND /\ timer'[et].p = blink_process /\ alive' = alive
  BY <1>1 DEF EtimerSet, AddTimer, BlinkInv, IInv, TypeOK
<1>3. blink_process # NONE
  BY BlinkAssumption, EtimerAssumption
<1>4. at' \in {"dark", "lit"} /\ led' = (at' = "lit") /\ since' \in {since, 0}
  BY DEF Begin, Proceed, BlinkInv, Stage
<1>5. since' \in Nat /\ since' <= SECOND
  BY <1>4, SecondIsInterval DEF BlinkInv, Stage
<1>6. Stage'
  BY <1>2, <1>4, <1>5 DEF Stage, BlinkInv
<1>7. Patient'
  <2>1. remain'[et] = SECOND /\ since' \in Nat /\ SECOND \in Nat
    BY <1>2, <1>5, SecondIsInterval
  <2>2. timer'[et].p # NONE
    BY <1>2, <1>3
  <2>3. \A m, n \in Nat : n <= m + n
    OBVIOUS
  <2>4. SECOND <= since' + SECOND
    BY <2>1, <2>3
  <2>5. SECOND <= since' + remain'[et]
    BY <2>1, <2>4, Zenon
  <2>6. QED
    BY <2>2, <2>5 DEF Patient
<1>8. QED
  BY <1>6, <1>7

LEMMA TickKeeps ==
  ASSUME BlinkInv, Tick
  PROVE  Stage' /\ Patient'
<1>1. /\ remain \in [Timer -> Int] /\ et \in Timer /\ MaxLate \in Nat /\ since \in Nat
      /\ SECOND \in Nat /\ since <= SECOND
  BY BlinkAssumption, EtimerAssumption DEF BlinkInv, IInv, TypeOK, Stage
<1>2. /\ since' = (IF since < SECOND THEN since + 1 ELSE since)
      /\ remain'[et] = (IF remain[et] > - MaxLate THEN remain[et] - 1 ELSE remain[et])
      /\ UNCHANGED <<at, led, timer, alive, pc>>
  BY <1>1 DEF Tick, SysTick, control
<1>3. since' \in Nat /\ since' <= SECOND
  BY <1>1, <1>2
<1>4. Stage'
  BY <1>2, <1>3 DEF BlinkInv, Stage
<1>5. ASSUME remain[et] <= 0 PROVE remain'[et] <= 0
  BY <1>1, <1>2, <1>5
<1>6. ASSUME since < SECOND => SECOND <= since + remain[et], since' < SECOND
      PROVE  SECOND <= since' + remain'[et]
  BY <1>1, <1>2, <1>6
<1>7. Patient'
  BY <1>2, <1>5, <1>6 DEF BlinkInv, Patient
<1>8. QED
  BY <1>4, <1>7

LEMMA BlinkKeeps == ASSUME BlinkInv, [Program \/ Tick]_allVars PROVE BlinkInv'
<1>1. CASE Autostart
  <2>1. Stage' /\ Patient'
    BY <1>1 DEF Autostart, EnterHandler, BlinkInv, Stage, Patient
  <2>2. QED
    BY <2>1, TimersKeep DEF BlinkInv
<1>2. CASE Wait \/ UNCHANGED allVars
  <2>1. UNCHANGED <<timer, remain, alive>> /\ UNCHANGED blinkVars
    BY <1>2 DEF Wait, Return, allVars, vars
  <2>2. at' = "boot" => pc' = pc
    BY <1>2 DEF Wait, Awake, allVars, vars, BlinkInv, Stage, blinkVars
  <2>3. Stage' /\ Patient'
    BY <2>1, <2>2 DEF BlinkInv, Stage, Patient, blinkVars
  <2>4. QED
    BY <2>3, TimersKeep DEF BlinkInv
<1>3. QED
  BY <1>1, <1>2, TimersKeep, ArmKeeps, TickKeeps, RestKeeps DEF BlinkInv, Program, Rest

-----------------------------------------------------------------------------
(* The LED is switched only when it is old enough.                         *)
LEMMA ProceedChanges == ASSUME BlinkInv, Proceed PROVE Abstract!Change
<1>1. at # "boot" /\ at # "begin" /\ timer[et].p = NONE
  BY DEF Proceed, Awake, etimer_expired, BlinkInv, Stage
<1>2. at \in {"dark", "lit"} /\ led = (at = "lit") /\ since \in Nat /\ since <= SECOND
  BY <1>1 DEF BlinkInv, Stage
<1>3. remain[et] <= 0 /\ (since < SECOND => SECOND <= since + remain[et])
  BY <1>1, <1>2 DEF BlinkInv, Patient
<1>4. remain[et] \in Int /\ SECOND \in Nat
  BY BlinkAssumption, SecondIsInterval DEF BlinkInv, IInv, TypeOK
<1>5. since = SECOND
  BY <1>2, <1>3, <1>4
<1>6. led' = ~ led /\ since' = 0
  BY <1>2 DEF Proceed
<1>7. QED
  BY <1>5, <1>6 DEF Abstract!Change

LEMMA StepIsBlinker ==
  ASSUME BlinkInv, [Program \/ Tick]_allVars
  PROVE  [Abstract!Tick \/ Abstract!Change]_<<led, since>>
<1>1. CASE Tick
  BY <1>1 DEF Tick, Abstract!Tick
<1>2. CASE Proceed
  BY <1>2, ProceedChanges
<1>3. CASE ~ Tick /\ ~ Proceed
  BY <1>3 DEF Program, Autostart, Begin, Wait, blinkVars, allVars
<1>4. QED
  BY <1>1, <1>2, <1>3

(* Whatever the other clients do with their timers, whoever polls          *)
(* blink_process and however the clock wraps, the LED changes only when    *)
(* CLOCK_SECOND ticks or more have passed, and from on to off and back.    *)
THEOREM BlinkImplementsBlinker == BlinkSpec => LedIsBlinker
<1>1. BlinkInit => Abstract!Init
  BY DEF BlinkInit, Abstract!Init
<1>2. QED
  BY <1>1, BlinkInitHolds, BlinkKeeps, StepIsBlinker, PTL
     DEF BlinkSpec, LedIsBlinker, Abstract!Spec

(* In the whole program nobody calls etimer_adjust, and the promises of    *)
(* the event timers hold without a condition on its callers: a timer has   *)
(* one place on the list and a living owner, a tick notices every timer    *)
(* that falls due, save while an exit has left next_expiration stale, the  *)
(* next expiration reported is the earliest, and no timer fires early,     *)
(* blink_process's included.                                               *)
THEOREM ProgramTimers ==
  BlinkSpec => [](ListedOwned /\ ExpiryNoticed /\ NextIsEarliest) /\ NeverEarly
<1>1. BlinkInit => Timely
  BY TimelyInit DEF BlinkInit
<1>2. BlinkInv /\ Timely => ListedOwned /\ ExpiryNoticed /\ NextIsEarliest
  BY DEF BlinkInv, IInv, Timely, Served, ExpiryNoticed, NoneOverdue, Updating
<1>3. BlinkInv /\ [Program \/ Tick]_allVars =>
        [\A t \in Timer : pc = "scan" /\ Listed(t) /\ ~ Listed(t)' => remain[t] <= 0]_vars
  <2> SUFFICES ASSUME BlinkInv, [Program \/ Tick]_allVars, pc = "scan",
                      NEW t \in Timer, Listed(t), ~ Listed(t)'
               PROVE  remain[t] <= 0
    OBVIOUS
  <2>1. [Next]_vars
    BY ProgramSteps DEF Autostart
  <2>2. QED
    BY <2>1, FiresDue DEF BlinkInv
<1>4. QED
  BY <1>1, <1>2, <1>3, BlinkInitHolds, BlinkKeeps, ProgramTimely, PTL DEF BlinkSpec, NeverEarly
=============================================================================

-------------------------------- MODULE Blink --------------------------------
(***************************************************************************)
(* The program of USER_APP/contiki-main.c: blink_process on the event      *)
(* timers, kernel pass and tick interrupt of Etimer, beside other clients  *)
(* that set, reset, restart and stop timers of their own and may end.      *)
(* Other interrupts poll any process, so that blink_process wakes up for   *)
(* events that are not its timer's.                                        *)
(***************************************************************************)
EXTENDS Etimer

CONSTANTS blink_process,
          et,                  \* its timer
          SECOND               \* CLOCK_SECOND

ASSUME BlinkAssumption ==
  blink_process \in Client /\ et \in Timer /\ SECOND \in Interval \ {0}

VARIABLES at,                  \* where blink_process waits
          led,                 \* LED_POW is lit
          since                \* history: ticks since it changed, up to SECOND

blinkVars == <<at, led, since>>
allVars == <<vars, blinkVars>>

-----------------------------------------------------------------------------
BlinkInit == Init /\ at = "boot" /\ led = FALSE /\ since = 0

(* main's autostart_start: the INIT event is delivered before the loop.    *)
Autostart == /\ at = "boot" /\ pc = "main"
             /\ EnterHandler(blink_process, "main")
             /\ at' = "begin"
             /\ UNCHANGED <<clock, timerlist, timer, next_expiration, polled, queue,
                            alive, pos, next_value, remain, stale, led, since>>

etimer_expired == timer[et].p = NONE
Awake == pc = "handler" /\ cur = blink_process

Arm == EtimerSet(et, SECOND)

(* Mutants of Proceed: wakes at any event, and forgets to set the timer.   *)
ProceedAny == /\ Awake /\ at # "begin"
              /\ Arm
              /\ led' = (at = "dark")
              /\ at' = IF led' THEN "lit" ELSE "dark"
              /\ since' = 0

ProceedUnarmed == /\ Awake /\ at # "begin" /\ left > 0
                  /\ etimer_expired
                  /\ led' = (at = "dark")
                  /\ at' = IF led' THEN "lit" ELSE "armed"
                  /\ since' = 0
                  /\ left' = left - 1
                  /\ UNCHANGED <<clock, timerlist, timer, next_expiration, polled, queue,
                                 alive, pc, cur, back, pos, next_value, remain, stale>>

Begin == /\ Awake /\ at = "begin"
         /\ Arm
         /\ at' = "dark"
         /\ UNCHANGED <<led, since>>

(* The wait ends at whatever event finds the timer expired: the LED is     *)
(* switched and the timer set for the next phase.                          *)
Proceed == /\ Awake /\ at # "begin"
           /\ etimer_expired
           /\ Arm
           /\ led' = (at = "dark")
           /\ at' = IF led' THEN "lit" ELSE "dark"
           /\ since' = 0

(* It yields after setting the timer, or at once when it has not expired.  *)
Wait == /\ Awake /\ at # "begin"
        /\ left = 0 \/ ~ etimer_expired
        /\ Return
        /\ UNCHANGED blinkVars

(* The rest of the program, with the other clients' handlers.              *)
Loop == ProcessRun \/ DoEvent \/ Scan \/ UpdateRead \/ UpdateStore \/ DropTimer \/ DropDone

Others == /\ cur # blink_process
          /\ \/ Return \/ Exit
             \/ \E t \in Timer \ {et} :
                  \/ \E i \in Interval : EtimerSet(t, i)
                  \/ EtimerReset(t) \/ EtimerRestart(t) \/ EtimerStop(t)

Program == \/ Autostart \/ Begin \/ Proceed \/ Wait
           \/ /\ at # "boot"
              /\ Loop \/ Others \/ \E p \in Client : ClientPoll(p)
              /\ UNCHANGED blinkVars

Tick == /\ SysTick
        /\ since' = IF since < SECOND THEN since + 1 ELSE since
        /\ UNCHANGED <<at, led>>

BlinkSpec == /\ BlinkInit /\ [][Program \/ Tick]_allVars
             /\ WF_allVars(Program) /\ WF_allVars(Tick)

-----------------------------------------------------------------------------
(* The LED never changes before CLOCK_SECOND ticks have passed: not when   *)
(* the process is woken by polls or by events that were queued before the  *)
(* timer was set anew, and not when the clock wraps.                       *)
Abstract == INSTANCE Blinker
LedIsBlinker == Abstract!Spec

(* It goes on and off for ever, whatever the other clients do with their   *)
(* timers, unless one of them ends and leaves next_expiration behind.      *)
KeepsBlinking == \A lit \in BOOLEAN : led = lit ~> led # lit \/ stale
=============================================================================

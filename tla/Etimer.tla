------------------------------- MODULE Etimer -------------------------------
(***************************************************************************)
(* Event timers: core/sys/etimer.c and timer.c, the SysTick interrupt of   *)
(* cpu/arm/stm32f103/clock.c and the main loop that runs them.  The        *)
(* interrupt may come between any two steps of the main program; what the  *)
(* two share is the clock, timerlist, next_expiration and the poll flag of *)
(* etimer_process.  Clock values are kept modulo ClockRange.               *)
(*                                                                         *)
(* Of the process kernel only the order of a pass is kept: polls, among    *)
(* them that of etimer_process, then one event.  Client processes run a    *)
(* handler of at most HandlerOps timer calls; it may end the process.      *)
(***************************************************************************)
EXTENDS Integers, SequencesExt

CONSTANTS Timer,        \* the struct etimer objects
          Client,       \* the processes that use them
          NONE,         \* PROCESS_NONE; also no process
          NUMEVENTS,    \* PROCESS_CONF_NUMEVENTS
          ClockRange,   \* the number of values of clock_time_t (2^32)
          Interval,     \* the intervals clients ask for
          Shift,        \* the differences clients pass to etimer_adjust
          AnyShift,     \* may they move a start into the future, or a due time
                        \*   into the past
          Chatter,      \* do clients post events of their own
          HandlerOps,   \* bound: timer calls in one run of a handler
          MaxLate       \* bound: ticks the main loop may be late for a timer, and
                        \*   a client for resetting one

ASSUME EtimerAssumption ==
  /\ NONE \notin Client \cup Timer
  /\ NUMEVENTS \in Nat \ {0}
  /\ ClockRange \in Nat \ {0}
  /\ Interval \subseteq Nat /\ Interval # {}
  /\ Shift \subseteq Int /\ AnyShift \in BOOLEAN /\ Chatter \in BOOLEAN
  /\ HandlerOps \in Nat /\ MaxLate \in Nat
  /\ \A i \in Interval : i + MaxLate + 1 < ClockRange

VARIABLES clock,             \* current_clock
          timerlist,         \* the list, first timer first
          timer,             \* t->timer.start, t->timer.interval, t->p
          next_expiration,
          polled,            \* a poll of etimer_process is outstanding
          queue,             \* posted events: receiver and timer, NONE for
                             \*   an event that is not TIMER
          alive,             \* the clients that have not exited
          pc, cur, left,     \* the main program: where, in whose handler,
                             \*   with how many calls to go
          back,              \* where the handler returns to
          pos,               \* the timer under etimer_process's cursor
          next_value,        \* the value update_time is about to store
          remain,            \* history: ticks from now to the timer's due time,
                             \*   at least - MaxLate
          stale              \* history: an exit dropped timers, and next_expiration
                             \*   was not yet updated with no timer due

vars == <<clock, timerlist, timer, next_expiration, polled, queue, alive,
          pc, cur, left, back, pos, next_value, remain, stale>>

control == <<pc, cur, left, back, pos, next_value>>

Time == 0 .. ClockRange - 1
Wrap(n) == n % ClockRange                 \* arithmetic of clock_time_t

Listed(t) == \E i \in DOMAIN timerlist : timerlist[i] = t
Expiration(t) == Wrap(timer[t].start + timer[t].interval)

(* Mutant of TimerExpired: one tick early.                                 *)
TimerExpiredEarly(t) == timer[t].interval <= Wrap(Wrap(clock - timer[t].start) + 1)

(* timer_expired(): the age of the timer plus one exceeds the interval.    *)
TimerExpired(t) == timer[t].interval < Wrap(Wrap(clock - timer[t].start) + 1)

(* Mutant of UpdateTime: compares expiration times, not distances from now. *)
UpdateTimePlain == IF timerlist = << >> THEN 0
                   ELSE Min({Expiration(timerlist[i]) : i \in DOMAIN timerlist})

(* update_time()'s result: now plus the shortest distance, counted with    *)
(* wrap-around, to the expiration of a listed timer; 0 for an empty list.  *)
Distances == {Wrap(Expiration(timerlist[i]) - clock) : i \in DOMAIN timerlist}
UpdateTime == IF timerlist = << >> THEN 0 ELSE Wrap(clock + Min(Distances))

(* No listed timer has reached its due time.                               *)
NoneDue == \A t \in Timer : Listed(t) => remain[t] > 0

-----------------------------------------------------------------------------
(* main before its loop: the clients are started, each with an INIT event. *)
Init == /\ clock \in Time
        /\ timerlist = << >>
        /\ timer \in [Timer -> [start : {0}, interval : {0}, p : {NONE}]]
        /\ next_expiration = 0
        /\ polled = FALSE
        /\ queue = << >>
        /\ alive = Client
        /\ pc = "main" /\ cur = NONE /\ left = 0 /\ back = "main"
        /\ pos = 1 /\ next_value = 0
        /\ remain = [t \in Timer |-> - MaxLate]
        /\ stale = FALSE

(* SysTick_Handler.  The comparison with next_expiration is a plain one.   *)
(* The guard is the bound on the main loop's delay.                        *)
SysTick ==
  /\ \A t \in Timer : Listed(t) => remain[t] > - MaxLate
  /\ clock' = Wrap(clock + 1)
  /\ polled' = (polled \/ (timerlist # << >> /\ next_expiration <= clock'))
  /\ remain' = [t \in Timer |-> IF remain[t] > - MaxLate THEN remain[t] - 1 ELSE remain[t]]
  /\ UNCHANGED <<timerlist, timer, next_expiration, queue, alive, stale, control>>

-----------------------------------------------------------------------------
(* A pass of the main loop: a handler polled by another interrupt, or the  *)
(* INIT handler, may come first; then the poll of etimer_process, then one *)
(* event.                                                                  *)
EnterHandler(p, to) == pc' = "handler" /\ cur' = p /\ left' = HandlerOps /\ back' = to

ClientPoll(p) == /\ pc = "main"
                 /\ p \in alive
                 /\ EnterHandler(p, "run")
                 /\ UNCHANGED <<clock, timerlist, timer, next_expiration, polled, queue,
                                alive, pos, next_value, remain, stale>>

ProcessRun == /\ pc \in {"main", "run"}
              /\ polled' = FALSE
              /\ pc' = IF polled THEN "scan" ELSE "event"
              /\ pos' = 1
              /\ UNCHANGED <<clock, timerlist, timer, next_expiration, queue, alive,
                             cur, left, back, next_value, remain, stale>>

DoEvent ==
  /\ pc = "event"
  /\ \/ /\ queue = << >>
        /\ pc' = "main"
        /\ UNCHANGED <<queue, cur, left, back>>
     \/ /\ queue # << >>
        /\ queue' = Tail(queue)
        /\ IF Head(queue).p \in alive
           THEN EnterHandler(Head(queue).p, "main")
           ELSE pc' = "main" /\ UNCHANGED <<cur, left, back>>
  /\ UNCHANGED <<clock, timerlist, timer, next_expiration, polled, alive,
                 pos, next_value, remain, stale>>

-----------------------------------------------------------------------------
(* etimer_process on a POLL event: from the label again over the list.     *)
ScanPass(t) ==
  /\ ~ TimerExpired(t)
  /\ pos' = pos + 1
  /\ UNCHANGED <<timerlist, timer, queue, polled, pc>>

(* Mutant of ScanFire: posts without looking at the room in the queue.     *)
ScanFireUnchecked(t) ==
  /\ TimerExpired(t)
  /\ queue' = Append(queue, [p |-> timer[t].p, t |-> t])
  /\ timer' = [timer EXCEPT ![t].p = NONE]
  /\ timerlist' = RemoveAt(timerlist, pos)
  /\ pos' = 1
  /\ pc' = "update"
  /\ UNCHANGED polled

(* process_post took the TIMER event: the timer leaves the list, the time  *)
(* is updated and the scan starts again.                                   *)
ScanFire(t) ==
  /\ TimerExpired(t)
  /\ Len(queue) < NUMEVENTS
  /\ queue' = Append(queue, [p |-> timer[t].p, t |-> t])
  /\ timer' = [timer EXCEPT ![t].p = NONE]
  /\ timerlist' = RemoveAt(timerlist, pos)
  /\ pos' = 1
  /\ pc' = "update"
  /\ UNCHANGED polled

(* Mutant of ScanFull: no further poll is asked for.                       *)
ScanFullSilent(t) ==
  /\ TimerExpired(t)
  /\ Len(queue) = NUMEVENTS
  /\ pos' = pos + 1
  /\ UNCHANGED <<timerlist, timer, queue, polled, pc>>

(* The queue is full: ask for another poll and go on.                      *)
ScanFull(t) ==
  /\ TimerExpired(t)
  /\ Len(queue) = NUMEVENTS
  /\ polled' = TRUE
  /\ pos' = pos + 1
  /\ UNCHANGED <<timerlist, timer, queue, pc>>

ScanEnd ==
  /\ pos > Len(timerlist)
  /\ pc' = "event"
  /\ UNCHANGED <<timerlist, timer, queue, polled, pos>>

Scan == /\ pc = "scan"
        /\ \/ ScanEnd
           \/ /\ pos <= Len(timerlist)
              /\ LET t == timerlist[pos] IN ScanPass(t) \/ ScanFire(t) \/ ScanFull(t)
        /\ UNCHANGED <<clock, next_expiration, alive, cur, left, back,
                       next_value, remain, stale>>

(* update_time, called from the scan (cur is NONE) or from a client: the   *)
(* clock is read once, next_expiration stored some ticks later.            *)
UpdateRead == /\ pc = "update"
              /\ next_value' = UpdateTime
              /\ pc' = "store"
              /\ UNCHANGED <<clock, timerlist, timer, next_expiration, polled, queue,
                             alive, cur, left, back, pos, remain, stale>>

UpdateStore == /\ pc = "store"
               /\ next_expiration' = next_value
               /\ pc' = IF cur = NONE THEN "scan" ELSE "handler"
               /\ stale' = (stale /\ ~ NoneDue)
               /\ UNCHANGED <<clock, timerlist, timer, polled, queue, alive,
                              cur, left, back, pos, next_value, remain>>

-----------------------------------------------------------------------------
(* A handler's calls.                                                      *)
InHandler == pc = "handler" /\ left > 0

(* Mutants of AddTimer: without the walk over the list, and without the    *)
(* poll.                                                                   *)
AddTimerTwice(t, start, interval) ==
  /\ polled' = TRUE
  /\ timer' = [timer EXCEPT ![t] = [start |-> start, interval |-> interval, p |-> cur]]
  /\ timerlist' = <<t>> \o timerlist
  /\ pc' = "update"
  /\ left' = left - 1
  /\ UNCHANGED <<clock, next_expiration, queue, alive, cur, back, pos, next_value, stale>>

AddTimerUnpolled(t, start, interval) ==
  /\ timer' = [timer EXCEPT ![t] = [start |-> start, interval |-> interval, p |-> cur]]
  /\ timerlist' = IF timer[t].p # NONE /\ Listed(t) THEN timerlist
                  ELSE <<t>> \o timerlist
  /\ pc' = "update"
  /\ left' = left - 1
  /\ UNCHANGED <<clock, next_expiration, polled, queue, alive, cur, back, pos,
                 next_value, stale>>

(* add_timer: a poll is requested first; a timer that has an owner and is  *)
(* on the list stays where it is.                                          *)
AddTimer(t, start, interval) ==
  /\ polled' = TRUE
  /\ timer' = [timer EXCEPT ![t] = [start |-> start, interval |-> interval, p |-> cur]]
  /\ timerlist' = IF timer[t].p # NONE /\ Listed(t) THEN timerlist
                  ELSE <<t>> \o timerlist
  /\ pc' = "update"
  /\ left' = left - 1
  /\ UNCHANGED <<clock, next_expiration, queue, alive, cur, back, pos, next_value, stale>>

EtimerSet(t, interval) == /\ InHandler
                          /\ AddTimer(t, clock, interval)
                          /\ remain' = [remain EXCEPT ![t] = interval]

(* For a timer that expired not long ago: the new interval starts where    *)
(* the old one ended.                                                      *)
EtimerReset(t) ==
  /\ InHandler
  /\ ~ Listed(t) /\ - MaxLate < remain[t] /\ remain[t] <= 0
  /\ AddTimer(t, Wrap(timer[t].start + timer[t].interval), timer[t].interval)
  /\ remain' = [remain EXCEPT ![t] = @ + timer[t].interval]

EtimerRestart(t) == /\ InHandler
                    /\ timer[t].interval \in Interval
                    /\ AddTimer(t, clock, timer[t].interval)
                    /\ remain' = [remain EXCEPT ![t] = timer[t].interval]

EtimerAdjust(t, td) ==
  /\ InHandler
  /\ Listed(t)
  /\ AnyShift \/ (td <= timer[t].interval - remain[t] /\ 0 < remain[t] + td)
  /\ timer' = [timer EXCEPT ![t].start = Wrap(@ + td)]
  /\ remain' = [remain EXCEPT ![t] = @ + td]
  /\ pc' = "update"
  /\ left' = left - 1
  /\ UNCHANGED <<clock, timerlist, next_expiration, polled, queue, alive, cur,
                 back, pos, next_value, stale>>

(* etimer_stop: only a timer found on the list makes it update the time.   *)
EtimerStop(t) ==
  /\ InHandler
  /\ timer' = [timer EXCEPT ![t].p = NONE]
  /\ \/ /\ ~ Listed(t)
        /\ pc' = "handler"
        /\ UNCHANGED timerlist
     \/ \E i \in DOMAIN timerlist :
          /\ timerlist[i] = t
          /\ timerlist' = RemoveAt(timerlist, i)
          /\ pc' = "update"
  /\ left' = left - 1
  /\ UNCHANGED <<clock, next_expiration, polled, queue, alive, cur, back, pos,
                 next_value, remain, stale>>

Post(p) == /\ InHandler /\ Chatter
           /\ queue' = IF Len(queue) = NUMEVENTS THEN queue
                       ELSE Append(queue, [p |-> p, t |-> NONE])
           /\ left' = left - 1
           /\ UNCHANGED <<clock, timerlist, timer, next_expiration, polled, alive, pc,
                          cur, back, pos, next_value, remain, stale>>

Return == /\ pc = "handler"
          /\ pc' = back
          /\ cur' = NONE
          /\ left' = 0
          /\ UNCHANGED <<clock, timerlist, timer, next_expiration, polled, queue, alive,
                         back, pos, next_value, remain, stale>>

(* The process ends; etimer_process, told EXITED, takes its timers off     *)
(* the list one by one and leaves next_expiration as it is.                *)
Exit == /\ pc = "handler"
        /\ alive' = alive \ {cur}
        /\ pc' = "drop"
        /\ left' = 0
        /\ UNCHANGED <<clock, timerlist, timer, next_expiration, polled, queue, cur,
                       back, pos, next_value, remain, stale>>

Owned(i) == timer[timerlist[i]].p = cur

DropTimer == /\ pc = "drop"
             /\ \E i \in DOMAIN timerlist :
                  /\ Owned(i)
                  /\ \A j \in 1 .. i - 1 : ~ Owned(j)
                  /\ timerlist' = RemoveAt(timerlist, i)
             /\ stale' = TRUE
             /\ UNCHANGED <<clock, timer, next_expiration, polled, queue, alive, remain,
                            control>>

DropDone == /\ pc = "drop"
            /\ \A i \in DOMAIN timerlist : ~ Owned(i)
            /\ pc' = back
            /\ cur' = NONE
            /\ UNCHANGED <<clock, timerlist, timer, next_expiration, polled, queue, alive,
                           left, back, pos, next_value, remain, stale>>

-----------------------------------------------------------------------------
Main == \/ ProcessRun \/ DoEvent \/ Scan \/ UpdateRead \/ UpdateStore \/ Return \/ Exit
        \/ DropTimer \/ DropDone
        \/ \E p \in Client : ClientPoll(p) \/ Post(p)
        \/ \E t \in Timer :
             \/ \E i \in Interval : EtimerSet(t, i)
             \/ \E td \in Shift : EtimerAdjust(t, td)
             \/ EtimerReset(t) \/ EtimerRestart(t) \/ EtimerStop(t)

Next == Main \/ SysTick

Spec == Init /\ [][Next]_vars

-----------------------------------------------------------------------------
TypeOK ==
  /\ clock \in Time /\ next_expiration \in Time /\ next_value \in Time
  /\ timerlist \in Seq(Timer)
  /\ timer \in [Timer -> [start : Time, interval : Nat, p : Client \cup {NONE}]]
  /\ polled \in BOOLEAN /\ stale \in BOOLEAN
  /\ queue \in Seq([p : Client, t : Timer \cup {NONE}]) /\ Len(queue) <= NUMEVENTS
  /\ alive \subseteq Client
  /\ pc \in {"main", "run", "event", "scan", "handler", "update", "store", "drop"}
  /\ cur \in Client \cup {NONE} /\ left \in 0 .. HandlerOps
  /\ back \in {"main", "run"} /\ pos \in Nat \ {0}
  /\ remain \in [Timer -> Int]

(* A timer is on the list once at most, and has an owner while it is: the  *)
(* owner is alive, so the event its expiry posts finds a receiver.         *)
ListedOwned ==
  /\ \A i, j \in DOMAIN timerlist : timerlist[i] = timerlist[j] => i = j
  /\ \A t \in Timer : Listed(t) =>
       timer[t].p \in alive \/ (pc = "drop" /\ timer[t].p = cur)

(* Between passes, with no poll outstanding, no listed timer is due: the   *)
(* tick at which one falls due asks for the poll, whatever ticks came      *)
(* between the steps of update_time and however the clock wrapped.         *)
NoneOverdue == (pc = "main" /\ ~ polled) => NoneDue

(* The same, save from an exit that dropped timers and left               *)
(* next_expiration behind until a later update_time repairs it: the        *)
(* comparison with a left-behind value fails once the clock wraps.         *)
ExpiryNoticed == stale \/ NoneOverdue

(* etimer_next_expiration_time is the earliest expiration of the listed    *)
(* timers while none of them is due, across wraps of the clock; not while  *)
(* it is being updated, nor after an exit.                                 *)
NextIsEarliest ==
  pc \notin {"update", "store"} /\ ~ stale /\ timerlist # << >> /\ NoneDue =>
    \E t \in Timer : /\ Listed(t) /\ Expiration(t) = next_expiration
                     /\ \A u \in Timer : Listed(u) => remain[t] <= remain[u]

(* A timer fires at its due time or later, never before.                   *)
NeverEarly ==
  [][\A t \in Timer : pc = "scan" /\ Listed(t) /\ ~ Listed(t)' => remain[t] <= 0]_vars

(* A timer that falls due is fired, re-armed, stopped or dropped with its  *)
(* owner: it does not stay due forever on the list.                        *)
Overdue(t) == Listed(t) /\ remain[t] <= 0
DueIsServed == \A t \in Timer : (Overdue(t) /\ ~ stale) ~> (~ Overdue(t) \/ stale)
=============================================================================

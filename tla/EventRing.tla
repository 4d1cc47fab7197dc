----------------------------- MODULE EventRing -----------------------------
(***************************************************************************)
(* The event ring of core/sys/process.c: events[], fevent, nevents, and    *)
(* the two operations on it, process_post and the first half of do_event.  *)
(* Both counters are process_num_events_t, an unsigned char; the index of  *)
(* a post is cast to that type before the modulo is taken.                 *)
(***************************************************************************)
EXTENDS Integers, Sequences

CONSTANTS Event,        \* struct event_data: event, data and receiver
          NUMEVENTS,    \* PROCESS_CONF_NUMEVENTS
          NumRange      \* the number of values of process_num_events_t (256)

(* nevents can hold NUMEVENTS, and the sum process_post forms fits the     *)
(* type it is cast to: 32 events and 256 values in this port.              *)
ASSUME RingAssumption ==
  /\ Event # {}
  /\ NUMEVENTS \in Nat \ {0}
  /\ NumRange \in Nat
  /\ NUMEVENTS < NumRange
  /\ 2 * NUMEVENTS - 2 < NumRange

VARIABLES events, fevent, nevents,
          taken,        \* do_event's static ev, data and receiver
          ret           \* process_post's return value

vars == <<events, fevent, nevents, taken, ret>>

Index == 0 .. NUMEVENTS - 1

Wrap(n) == n % NumRange                  \* (process_num_events_t) n

(* Mutant: the cursor of a post runs one entry ahead. *)
SnumNext == Wrap(fevent + nevents + 1) % NUMEVENTS

Snum == Wrap(fevent + nevents) % NUMEVENTS

-----------------------------------------------------------------------------
(* process_init clears the counters; what events[] and do_event's statics  *)
(* hold then is never read.                                                *)
Init == /\ events \in [Index -> Event]
        /\ fevent = 0
        /\ nevents = 0
        /\ taken \in Event
        /\ ret = "OK"

PostFull(e) == /\ nevents = NUMEVENTS
               /\ ret' = "FULL"
               /\ UNCHANGED <<events, fevent, nevents, taken>>

PostOk(e) == /\ nevents # NUMEVENTS
             /\ events' = [events EXCEPT ![Snum] = e]
             /\ nevents' = Wrap(nevents + 1)
             /\ ret' = "OK"
             /\ UNCHANGED <<fevent, taken>>

(* Mutant: fevent advances without wrapping at the end of the ring. *)
TakeEventRunsOn == /\ nevents > 0
                   /\ taken' = events[fevent]
                   /\ fevent' = Wrap(fevent + 1)
                   /\ nevents' = Wrap(nevents - 1)
                   /\ UNCHANGED <<events, ret>>

TakeEvent == /\ nevents > 0
             /\ taken' = events[fevent]
             /\ fevent' = Wrap((fevent + 1) % NUMEVENTS)
             /\ nevents' = Wrap(nevents - 1)
             /\ UNCHANGED <<events, ret>>

Next == TakeEvent \/ \E e \in Event : PostOk(e) \/ PostFull(e)

Spec == Init /\ [][Next]_vars

-----------------------------------------------------------------------------
(* Type invariant: the counters stay within the ring, so no index is out   *)
(* of events[] and a post never finds more than NUMEVENTS events.          *)
TypeOK == /\ events \in [Index -> Event]
          /\ fevent \in Index
          /\ nevents \in 0 .. NUMEVENTS
          /\ taken \in Event
          /\ ret \in {"OK", "FULL"}

(* The queue the ring stores: nevents entries from fevent on.              *)
Stored(ring, first, n) == [i \in 1 .. n |-> ring[(first + i - 1) % NUMEVENTS]]

Contents == Stored(events, fevent, nevents)

Queue == INSTANCE EventQueue WITH queue <- Contents

(* The ring of process_post and do_event implements the bounded FIFO: no   *)
(* event is overwritten, skipped or delivered twice, however the two       *)
(* counters wrap.                                                          *)
RingIsQueue == Queue!Spec
=============================================================================

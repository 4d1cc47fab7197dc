---------------------------- MODULE EventQueue ----------------------------
(***************************************************************************)
(* What process_post and do_event promise about asynchronous events: a     *)
(* first-in first-out queue of at most NUMEVENTS events, a post to a full  *)
(* queue refused, and nothing lost, duplicated or reordered in between.    *)
(***************************************************************************)
EXTENDS Integers, Sequences

CONSTANTS Event,      \* what is posted: an event, its data and its receiver
          NUMEVENTS   \* PROCESS_CONF_NUMEVENTS

VARIABLES queue,      \* the events posted and not yet taken, oldest first
          taken,      \* the event do_event took last
          ret         \* what the last process_post returned

vars == <<queue, taken, ret>>

Init == /\ queue = << >>
        /\ taken \in Event
        /\ ret = "OK"

Post(e) == /\ taken' = taken
           /\ \/ /\ Len(queue) < NUMEVENTS
                 /\ queue' = Append(queue, e)
                 /\ ret' = "OK"
              \/ /\ Len(queue) = NUMEVENTS
                 /\ queue' = queue
                 /\ ret' = "FULL"

Take == /\ queue # << >>
        /\ taken' = Head(queue)
        /\ queue' = Tail(queue)
        /\ ret' = ret

Next == Take \/ \E e \in Event : Post(e)

Spec == Init /\ [][Next]_vars
=============================================================================

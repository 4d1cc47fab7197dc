------------------------------ MODULE Process ------------------------------
(***************************************************************************)
(* The process kernel, core/sys/process.c: the linked list of processes,   *)
(* synchronous and queued events, poll requests from interrupts, start and *)
(* exit.  Handlers (the protothreads) run on the one C stack and call the  *)
(* kernel back; the stack of kernel and handler activations is therefore   *)
(* part of the state, one frame per activation, and every walk over the    *)
(* list keeps its cursor in a frame while handlers change the list.        *)
(*                                                                         *)
(* What a handler does is left open: at most HandlerOps kernel calls, then *)
(* it returns.  An interrupt may call process_poll between any two steps.  *)
(***************************************************************************)
EXTENDS Integers, Sequences, FiniteSets

CONSTANTS Proc,           \* the struct process objects of the program
          NULL,           \* the null pointer; also PROCESS_BROADCAST
          NUMEVENTS,      \* PROCESS_CONF_NUMEVENTS
          UserEvent,      \* the events handlers post, "EXIT" perhaps among them
          HandlerOps,     \* bound: kernel calls in one run of a handler
          Calls,          \* the kernel functions handlers call
          ExitActive      \* may process_exit name a process that is on the stack

ASSUME ProcessAssumption ==
  /\ NULL \notin Proc
  /\ NUMEVENTS \in Nat \ {0}
  /\ HandlerOps \in Nat
  /\ ExitActive \in BOOLEAN
  /\ Calls \subseteq {"post", "synch", "start", "exit", "poll"}

VARIABLES process_list,     \* the head of the list
          next,             \* p->next, kept by processes that left the list too
          state,            \* p->state
          needspoll,        \* p->needspoll
          poll_requested,
          process_current,
          queue,            \* the event ring, as the FIFO EventRing implements
          stack,            \* the activations in progress, innermost last
          owed              \* history: polls asked of the current incarnation

vars == <<process_list, next, state, needspoll, poll_requested,
          process_current, queue, stack, owed>>

list == <<process_list, next>>
polls == <<needspoll, poll_requested, owed>>

Ptr == Proc \cup {NULL}
Event == UserEvent \cup {"INIT", "POLL", "EXIT", "EXITED"}

-----------------------------------------------------------------------------
(* Frames.  "boot" is main before its loop, "event" is process_run about   *)
(* to enter do_event; "poll" and "polled" are do_poll before and after the *)
(* call for cur; "bcast", "deliver" and "delivered" the broadcast loop of  *)
(* do_event; "call" the thread function run by call_process, "direct" the  *)
(* same run by exit_process itself; "synch" the end of process_post_synch; *)
(* "exit" and "told" the loop of exit_process and "unlink" what follows.   *)
ThreadOp == {"call", "direct"}
Op == {"boot", "event", "poll", "polled", "bcast", "deliver", "delivered",
       "synch", "exit", "told", "unlink"} \cup ThreadOp

Frame == [op    : Op,
          p     : Ptr,                \* the process run, or the one exiting
          ev    : Event,
          cur   : Ptr,                \* the cursor of the walk
          saved : Ptr,                \* caller, old_current
          from  : Ptr,                \* fromprocess
          left  : 0 .. HandlerOps,    \* kernel calls the handler may still make
          due   : SUBSET Proc]        \* history: whom the walk has yet to reach

Blank == [op |-> "event", p |-> NULL, ev |-> "INIT", cur |-> NULL,
          saved |-> NULL, from |-> NULL, left |-> 0, due |-> {}]

Top == stack[Len(stack)]
Pop(s) == SubSeq(s, 1, Len(s) - 1)
Goto(f) == [stack EXCEPT ![Len(stack)] = f]
At(ops) == stack # << >> /\ Top.op \in ops

(* The nodes a walk from c reaches: the least set that holds c, unless     *)
(* that is NULL, and is closed under next.                                 *)
Ahead(c) == {q \in Proc : \A S \in SUBSET Proc :
               (c \in S \cup {NULL} /\ \A x \in S : next[x] \in S \cup {NULL}) => q \in S}
OnList(p) == p \in Ahead(process_list)

Active(p) == \E i \in DOMAIN stack : stack[i].op \in ThreadOp /\ stack[i].p = p
Exiting(p) == \E i \in DOMAIN stack :
                stack[i].op \in {"exit", "told", "unlink"} /\ stack[i].p = p

-----------------------------------------------------------------------------
(* Mutant of CallProcess: calls a process that is CALLED, too.             *)
CallProcessAgain(p, ev, s, st) ==
  IF st[p] # "NONE"
  THEN /\ process_current' = p
       /\ state' = [st EXCEPT ![p] = "CALLED"]
       /\ stack' = Append(s, [Blank EXCEPT !.op = "call", !.p = p, !.ev = ev,
                                           !.left = HandlerOps])
  ELSE /\ state' = st
       /\ stack' = s
       /\ UNCHANGED process_current

(* call_process(p, ev): with the stack s it returns to, and the states st  *)
(* it finds.  A process that is not RUNNING, a CALLED one too, is skipped. *)
CallProcess(p, ev, s, st) ==
  IF st[p] = "RUNNING"
  THEN /\ process_current' = p
       /\ state' = [st EXCEPT ![p] = "CALLED"]
       /\ stack' = Append(s, [Blank EXCEPT !.op = "call", !.p = p, !.ev = ev,
                                           !.left = HandlerOps])
  ELSE /\ state' = st
       /\ stack' = s
       /\ UNCHANGED process_current

(* Mutant of ExitProcess: the walk starts behind p, not at the head.       *)
ExitProcessBehind(p, from, s) ==
  /\ \/ /\ ~ OnList(p)
        /\ stack' = s
        /\ UNCHANGED <<state, owed>>
     \/ /\ OnList(p)
        /\ state[p] = "NONE"
        /\ stack' = Append(s, [Blank EXCEPT !.op = "unlink", !.p = p,
                                            !.saved = process_current])
        /\ UNCHANGED <<state, owed>>
     \/ /\ OnList(p)
        /\ state[p] # "NONE"
        /\ state' = [state EXCEPT ![p] = "NONE"]
        /\ owed' = owed \ {p}
        /\ stack' = Append([i \in DOMAIN s |-> [s[i] EXCEPT !.due = @ \ {p}]],
                           [Blank EXCEPT !.op = "exit", !.p = p, !.from = from,
                                         !.saved = process_current,
                                         !.cur = next[p],
                                         !.due = {q \in Proc \ {p} : state[q] # "NONE"}])
  /\ UNCHANGED <<list, needspoll, poll_requested, process_current, queue>>

(* exit_process(p, from) up to its loop, returning to the stack s.         *)
ExitProcess(p, from, s) ==
  /\ \/ /\ ~ OnList(p)
        /\ stack' = s
        /\ UNCHANGED <<state, owed>>
     \/ /\ OnList(p)
        /\ state[p] = "NONE"
        /\ stack' = Append(s, [Blank EXCEPT !.op = "unlink", !.p = p,
                                            !.saved = process_current])
        /\ UNCHANGED <<state, owed>>
     \/ /\ OnList(p)
        /\ state[p] # "NONE"
        /\ state' = [state EXCEPT ![p] = "NONE"]
        /\ owed' = owed \ {p}
        /\ stack' = Append([i \in DOMAIN s |-> [s[i] EXCEPT !.due = @ \ {p}]],
                           [Blank EXCEPT !.op = "exit", !.p = p, !.from = from,
                                         !.saved = process_current,
                                         !.cur = process_list,
                                         !.due = {q \in Proc \ {p} : state[q] # "NONE"}])
  /\ UNCHANGED <<list, needspoll, poll_requested, process_current, queue>>

(* Mutant of ProcessStart: without the check that p is not on the list.    *)
ProcessStartAgain(p, s) ==
  /\ next' = [next EXCEPT ![p] = process_list]
  /\ process_list' = p
  /\ CallProcess(p, "INIT",
                 Append(s, [Blank EXCEPT !.op = "synch", !.saved = process_current]),
                 [state EXCEPT ![p] = "RUNNING"])
  /\ UNCHANGED <<polls, queue>>

(* process_start(p), returning to the stack s.                             *)
ProcessStart(p, s) ==
  /\ \/ /\ OnList(p)
        /\ stack' = s
        /\ UNCHANGED <<list, state, process_current>>
     \/ /\ ~ OnList(p)
        /\ next' = [next EXCEPT ![p] = process_list]
        /\ process_list' = p
        /\ CallProcess(p, "INIT",
                       Append(s, [Blank EXCEPT !.op = "synch", !.saved = process_current]),
                       [state EXCEPT ![p] = "RUNNING"])
  /\ UNCHANGED <<polls, queue>>

(* Mutant of ProcessPoll: only the process's own flag is set.              *)
ProcessPollQuiet(p) ==
  IF state[p] \in {"RUNNING", "CALLED"}
  THEN /\ needspoll' = [needspoll EXCEPT ![p] = TRUE]
       /\ owed' = owed \cup {p}
       /\ UNCHANGED poll_requested
  ELSE UNCHANGED polls

(* process_poll(p).                                                        *)
ProcessPoll(p) ==
  IF state[p] \in {"RUNNING", "CALLED"}
  THEN /\ needspoll' = [needspoll EXCEPT ![p] = TRUE]
       /\ poll_requested' = TRUE
       /\ owed' = owed \cup {p}
  ELSE UNCHANGED polls

-----------------------------------------------------------------------------
(* main after process_init, about to start the processes in Boot one by    *)
(* one; the order of the autostart table is left open.                     *)
Init == /\ process_list = NULL
        /\ next = [p \in Proc |-> NULL]
        /\ state = [p \in Proc |-> "NONE"]
        /\ needspoll = [p \in Proc |-> FALSE]
        /\ poll_requested = FALSE
        /\ process_current = NULL
        /\ queue = << >>
        /\ \E Boot \in SUBSET Proc :
             stack = <<[Blank EXCEPT !.op = "boot", !.due = Boot]>>
        /\ owed = {}

BootStart(p) == /\ At({"boot"})
                /\ p \in Top.due
                /\ ProcessStart(p, Goto([Top EXCEPT !.due = @ \ {p}]))

BootDone == /\ At({"boot"})
            /\ Top.due = {}
            /\ stack' = Pop(stack)
            /\ UNCHANGED <<list, state, polls, process_current, queue>>

-----------------------------------------------------------------------------
(* process_run, called by main again and again.                            *)
PollFrame == [Blank EXCEPT !.op = "poll", !.cur = process_list]

ProcessRun ==
  /\ stack = << >>
  /\ poll_requested' = FALSE
  /\ stack' = IF poll_requested THEN <<Blank, PollFrame>> ELSE <<Blank>>
  /\ UNCHANGED <<list, state, needspoll, owed, process_current, queue>>

(* Mutant of DoPoll: poll_requested is cleared when the walk ends.         *)
DoPollClears ==
  /\ At({"poll"})
  /\ LET p == Top.cur IN
     \/ /\ p = NULL
        /\ poll_requested' = FALSE
        /\ stack' = Pop(stack)
        /\ UNCHANGED <<state, needspoll, owed, process_current>>
     \/ /\ p # NULL
        /\ ~ needspoll[p]
        /\ stack' = Goto([Top EXCEPT !.cur = next[p]])
        /\ UNCHANGED <<state, polls, process_current>>
     \/ /\ p # NULL
        /\ needspoll[p]
        /\ needspoll' = [needspoll EXCEPT ![p] = FALSE]
        /\ owed' = owed \ {p}
        /\ CallProcess(p, "POLL", Goto([Top EXCEPT !.op = "polled"]),
                       [state EXCEPT ![p] = "RUNNING"])
        /\ UNCHANGED poll_requested
  /\ UNCHANGED <<list, queue>>

(* One round of do_poll's loop.  Nothing an interrupt does between the     *)
(* test of needspoll and the call is lost: it comes before the test or     *)
(* sets the flag again after it was cleared.                               *)
DoPoll ==
  /\ At({"poll"})
  /\ LET p == Top.cur IN
     \/ /\ p = NULL
        /\ stack' = Pop(stack)
        /\ UNCHANGED <<state, needspoll, owed, process_current>>
     \/ /\ p # NULL
        /\ ~ needspoll[p]
        /\ stack' = Goto([Top EXCEPT !.cur = next[p]])
        /\ UNCHANGED <<state, needspoll, owed, process_current>>
     \/ /\ p # NULL
        /\ needspoll[p]
        /\ needspoll' = [needspoll EXCEPT ![p] = FALSE]
        /\ owed' = owed \ {p}
        /\ CallProcess(p, "POLL", Goto([Top EXCEPT !.op = "polled"]),
                       [state EXCEPT ![p] = "RUNNING"])
  /\ UNCHANGED <<list, poll_requested, queue>>

PollNext == /\ At({"polled"})
            /\ stack' = Goto([Top EXCEPT !.op = "poll", !.cur = next[@]])
            /\ UNCHANGED <<list, state, polls, process_current, queue>>

(* do_event: nothing queued, a broadcast, or an event for one process.     *)
DoEvent ==
  /\ At({"event"})
  /\ \/ /\ queue = << >>
        /\ stack' = Pop(stack)
        /\ UNCHANGED <<state, process_current, queue>>
     \/ /\ queue # << >>
        /\ Head(queue).p = NULL
        /\ queue' = Tail(queue)
        /\ stack' = Goto([Blank EXCEPT !.op = "bcast", !.ev = Head(queue).ev,
                                       !.cur = process_list,
                                       !.due = {q \in Proc : state[q] # "NONE"}])
        /\ UNCHANGED <<state, process_current>>
     \/ /\ queue # << >>
        /\ Head(queue).p # NULL
        /\ queue' = Tail(queue)
        /\ LET p == Head(queue).p
               ev == Head(queue).ev
           IN  CallProcess(p, ev, Pop(stack),
                           IF ev = "INIT" THEN [state EXCEPT ![p] = "RUNNING"] ELSE state)
  /\ UNCHANGED <<list, polls>>

(* Mutant of BcastTest: do_poll is called again and again before each      *)
(* delivery, until no poll is requested.                                   *)
BcastTestWhile ==
  /\ At({"bcast"})
  /\ \/ /\ Top.cur = NULL
        /\ stack' = Pop(stack)
        /\ UNCHANGED poll_requested
     \/ /\ Top.cur # NULL
        /\ poll_requested' = FALSE
        /\ stack' = IF poll_requested
                    THEN Append(stack, PollFrame)
                    ELSE Goto([Top EXCEPT !.op = "deliver"])
  /\ UNCHANGED <<list, state, needspoll, owed, process_current, queue>>

(* The broadcast loop: polls asked for meanwhile are served before each    *)
(* delivery; the cursor moves on when the delivery has returned.           *)
BcastTest ==
  /\ At({"bcast"})
  /\ \/ /\ Top.cur = NULL
        /\ stack' = Pop(stack)
        /\ UNCHANGED poll_requested
     \/ /\ Top.cur # NULL
        /\ poll_requested' = FALSE
        /\ stack' = IF poll_requested
                    THEN Append(Goto([Top EXCEPT !.op = "deliver"]), PollFrame)
                    ELSE Goto([Top EXCEPT !.op = "deliver"])
  /\ UNCHANGED <<list, state, needspoll, owed, process_current, queue>>

BcastDeliver ==
  /\ At({"deliver"})
  /\ CallProcess(Top.cur, Top.ev,
                 Goto([Top EXCEPT !.op = "delivered",
                                  !.due = IF state[Top.cur] = "RUNNING"
                                          THEN @ \ {Top.cur} ELSE @]),
                 state)
  /\ UNCHANGED <<list, polls, queue>>

BcastNext == /\ At({"delivered"})
             /\ stack' = Goto([Top EXCEPT !.op = "bcast", !.cur = next[@]])
             /\ UNCHANGED <<list, state, polls, process_current, queue>>

-----------------------------------------------------------------------------
(* The loop of exit_process, the EXIT event to the process itself, and the *)
(* removal from the list.                                                  *)
ExitTell ==
  /\ At({"exit"})
  /\ Top.cur # NULL
  /\ \/ /\ Top.cur = Top.p
        /\ stack' = Goto([Top EXCEPT !.op = "told"])
        /\ UNCHANGED <<state, process_current>>
     \/ /\ Top.cur # Top.p
        /\ CallProcess(Top.cur, "EXITED",
                       Goto([Top EXCEPT !.op = "told",
                                        !.due = IF state[Top.cur] = "RUNNING"
                                                THEN @ \ {Top.cur} ELSE @]),
                       state)
  /\ UNCHANGED <<list, polls, queue>>

ExitNext == /\ At({"told"})
            /\ stack' = Goto([Top EXCEPT !.op = "exit", !.cur = next[@]])
            /\ UNCHANGED <<list, state, polls, process_current, queue>>

ExitSelf ==
  /\ At({"exit"})
  /\ Top.cur = NULL
  /\ LET s == Goto([Top EXCEPT !.op = "unlink"])
     IN  IF Top.p # Top.from
         THEN /\ process_current' = Top.p
              /\ stack' = Append(s, [Blank EXCEPT !.op = "direct", !.p = Top.p,
                                                  !.ev = "EXIT", !.left = HandlerOps])
         ELSE stack' = s /\ UNCHANGED process_current
  /\ UNCHANGED <<list, state, polls, queue>>

(* Mutants of Unlink: the head of the list is not treated apart, and the   *)
(* process that leaves loses its own link.                                 *)
UnlinkInner ==
  /\ At({"unlink"})
  /\ LET p == Top.p
     IN next' = [q \in Proc |-> IF OnList(q) /\ next[q] = p THEN next[p] ELSE next[q]]
  /\ process_current' = Top.saved
  /\ stack' = Pop(stack)
  /\ UNCHANGED <<process_list, state, polls, queue>>

UnlinkClears ==
  /\ At({"unlink"})
  /\ LET p == Top.p IN
     /\ process_list' = IF p = process_list THEN next[p] ELSE process_list
     /\ next' = [q \in Proc |-> IF q = p THEN NULL
                                ELSE IF OnList(q) /\ next[q] = p THEN next[p] ELSE next[q]]
  /\ process_current' = Top.saved
  /\ stack' = Pop(stack)
  /\ UNCHANGED <<state, polls, queue>>

Unlink ==
  /\ At({"unlink"})
  /\ LET p == Top.p IN
     IF p = process_list
     THEN process_list' = next[p] /\ UNCHANGED next
     ELSE /\ next' = [q \in Proc |-> IF OnList(q) /\ next[q] = p THEN next[p] ELSE next[q]]
          /\ UNCHANGED process_list
  /\ process_current' = Top.saved
  /\ stack' = Pop(stack)
  /\ UNCHANGED <<state, polls, queue>>

(* Mutant of SynchReturn: the caller is not restored.                      *)
SynchReturnForgets == /\ At({"synch"})
                      /\ stack' = Pop(stack)
                      /\ UNCHANGED <<list, state, polls, process_current, queue>>

SynchReturn == /\ At({"synch"})
               /\ process_current' = Top.saved
               /\ stack' = Pop(stack)
               /\ UNCHANGED <<list, state, polls, queue>>

-----------------------------------------------------------------------------
(* A handler makes a kernel call ...                                       *)
InHandler(call) == At(ThreadOp) /\ Top.left > 0 /\ call \in Calls
Counted == Goto([Top EXCEPT !.left = @ - 1])

(* Mutant of Post: the queue is never full.                                *)
PostUnchecked(p, ev) == /\ InHandler("post")
                        /\ queue' = Append(queue, [ev |-> ev, p |-> p])
                        /\ stack' = Counted
                        /\ UNCHANGED <<list, state, polls, process_current>>

Post(p, ev) == /\ InHandler("post")
               /\ queue' = IF Len(queue) = NUMEVENTS THEN queue      \* ERR_FULL
                           ELSE Append(queue, [ev |-> ev, p |-> p])
               /\ stack' = Counted
               /\ UNCHANGED <<list, state, polls, process_current>>

PostSynch(p, ev) ==
  /\ InHandler("synch")
  /\ CallProcess(p, ev,
                 Append(Counted, [Blank EXCEPT !.op = "synch", !.saved = process_current]),
                 state)
  /\ UNCHANGED <<list, polls, queue>>

Start(p) == InHandler("start") /\ ProcessStart(p, Counted)

Exit(p) == /\ InHandler("exit")
           /\ ExitActive \/ (~ Active(p) /\ ~ Exiting(p))
           /\ ExitProcess(p, process_current, Counted)

Poll(p) == /\ InHandler("poll")
           /\ ProcessPoll(p)
           /\ stack' = Counted
           /\ UNCHANGED <<list, state, process_current, queue>>

(* ... or returns.  call_process ends the process that returned EXITED or  *)
(* ENDED, or was told to EXIT; exit_process ignores what the thread said.  *)
ReturnYield == /\ At({"call"})
               /\ Top.ev # "EXIT"
               /\ state' = [state EXCEPT ![Top.p] = "RUNNING"]
               /\ stack' = Pop(stack)
               /\ UNCHANGED <<list, polls, process_current, queue>>

ReturnEnded == /\ At({"call"})
               /\ ExitProcess(Top.p, Top.p, Pop(stack))

ReturnDirect == /\ At({"direct"})
                /\ stack' = Pop(stack)
                /\ UNCHANGED <<list, state, polls, process_current, queue>>

(* An interrupt handler asks for a poll, as SysTick does for etimer.       *)
Interrupt(p) == /\ ProcessPoll(p)
                /\ UNCHANGED <<list, state, process_current, queue, stack>>

-----------------------------------------------------------------------------
Kernel == \/ BootDone \/ ProcessRun \/ DoPoll \/ PollNext \/ DoEvent
          \/ BcastTest \/ BcastDeliver \/ BcastNext
          \/ ExitTell \/ ExitNext \/ ExitSelf \/ Unlink \/ SynchReturn
          \/ \E p \in Proc : BootStart(p)

Handler == \/ ReturnYield \/ ReturnEnded \/ ReturnDirect
           \/ \E p \in Ptr, ev \in UserEvent : Post(p, ev)
           \/ \E p \in Proc, ev \in UserEvent : PostSynch(p, ev)
           \/ \E p \in Proc : Start(p) \/ Exit(p) \/ Poll(p)

Next == Kernel \/ Handler \/ \E p \in Proc : Interrupt(p)

Spec == Init /\ [][Next]_vars

(* The processor always executes the next instruction of the main program. *)
Fairness == WF_vars(Kernel \/ Handler)
FairSpec == Spec /\ Fairness

-----------------------------------------------------------------------------
TypeOK == /\ process_list \in Ptr
          /\ next \in [Proc -> Ptr]
          /\ state \in [Proc -> {"NONE", "RUNNING", "CALLED"}]
          /\ needspoll \in [Proc -> BOOLEAN]
          /\ poll_requested \in BOOLEAN
          /\ process_current \in Ptr
          /\ queue \in Seq([ev : UserEvent, p : Ptr])
          /\ Len(queue) <= NUMEVENTS
          /\ stack \in Seq(Frame)
          /\ owed \in SUBSET Proc

(* Whatever a handler called and however deep that nested, process_current *)
(* names the handler's own process again when the call returns: timers and *)
(* posts it makes then are booked on the right process.                    *)
CurrentIsRunner == At(ThreadOp) => process_current = Top.p

(* The state CALLED marks exactly the processes whose handler is on the    *)
(* stack: no handler is entered again before it returned, and none stays   *)
(* marked, unreachable for events, after it did.                           *)
CalledOnce ==
  /\ \A p \in Proc : state[p] = "CALLED" <=>
       \E i \in DOMAIN stack : stack[i].op = "call" /\ stack[i].p = p
  /\ \A i, j \in DOMAIN stack :
       stack[i].op \in ThreadOp /\ stack[j].op \in ThreadOp
         /\ stack[i].p = stack[j].p => i = j

(* The list and the states agree: a process that is running is listed, and *)
(* one that is listed is running or being taken out; process.h:384 offers  *)
(* process_exit for "the currently executing process" as well.             *)
StateListAgree == \A p \in Proc : /\ state[p] # "NONE" => OnList(p)
                                  /\ OnList(p) => state[p] # "NONE" \/ Exiting(p)

(* The list stays a list: no node is met twice on a walk.                  *)
ListAcyclic == \A p \in Proc : OnList(p) => p \notin Ahead(next[p])

(* A poll asked of a running process is not forgotten: do_poll will be     *)
(* entered again, or its walk has that process still ahead.                *)
Cursor(f) == IF f.op \in {"polled", "delivered", "told"} THEN next[f.cur] ELSE f.cur
NoLostPoll ==
  \A p \in owed : /\ needspoll[p]
                  /\ \/ poll_requested
                     \/ \E i \in DOMAIN stack : /\ stack[i].op \in {"poll", "polled"}
                                                /\ p \in Ahead(Cursor(stack[i]))

(* A broadcast reaches every process that was running when it was taken    *)
(* from the queue and has not exited since, whatever the polls and         *)
(* handlers in between did to the list under the cursor.                   *)
BroadcastReachesAll ==
  At({"bcast"}) /\ Top.cur = NULL => Top.due = {}

(* An exit is announced to every process that was running and not itself   *)
(* in the middle of a call.                                                *)
ExitReachesIdle ==
  At({"unlink"}) => \A q \in Top.due : Active(q)

(* process_run always returns to main's loop.                              *)
RunReturns == []<>(stack = << >>)

(* A poll asked of a process reaches it, unless the process exits first.   *)
PollServed == \A p \in Proc : p \in owed ~> p \notin owed
=============================================================================

--------------------------- MODULE ProcessProofs ---------------------------
(***************************************************************************)
(* For any set of processes, any queue size and handlers of any length.    *)
(* First, whatever process_exit is called with: the kernel keeps its type, *)
(* and process_current names the process whose handler runs.  Then the     *)
(* process list under the walks over it: it has no cycle and holds exactly *)
(* the processes that run or are being taken out, no handler is entered    *)
(* twice, no poll is forgotten, and broadcasts and exits reach everyone    *)
(* they should.  That part needs of the program that process_exit is not   *)
(* called for a process on the stack, and that no handler posts INIT; the  *)
(* code checks neither.                                                    *)
(***************************************************************************)
EXTENDS Process, SequenceTheorems, TLAPS

(* The activations that put process_current back when they return.         *)
Restoring == {"synch", "exit", "told", "unlink"}

(* What makes CurrentIsRunner inductive: above a suspended handler lies an *)
(* activation that has saved the handler's process.                        *)
Restores(s) == \A i \in 1 .. Len(s) - 1 :
                 s[i].op \in ThreadOp => /\ s[i + 1].op \in Restoring
                                         /\ s[i + 1].saved = s[i].p

(* The pointers an activation follows are not NULL.                        *)
Held(f) == /\ f.op \in ThreadOp \cup {"exit", "told", "unlink"} => f.p \in Proc
           /\ f.op \in {"polled", "deliver", "delivered", "told"} => f.cur \in Proc

Saved(s) == Restores(s) /\ \A i \in 1 .. Len(s) : Held(s[i])

Runner(s, c) == s # << >> /\ s[Len(s)].op \in ThreadOp => c = s[Len(s)].p

IInv == TypeOK /\ Saved(stack) /\ Runner(stack, process_current)

(* No handler is innermost on s: a kernel function is, or main.            *)
KernelTop(s) == s = << >> \/ s[Len(s)].op \notin ThreadOp

-----------------------------------------------------------------------------
LEMMA BlankFrame == Blank \in Frame
BY ProcessAssumption DEF Blank, Frame, Op, ThreadOp, Ptr, Event

(* Frames made from frames are frames.                                     *)
LEMMA FrameUpdates ==
  ASSUME NEW f \in Frame
  PROVE  /\ \A op \in Op : [f EXCEPT !.op = op] \in Frame
         /\ \A c \in Ptr : [f EXCEPT !.cur = c] \in Frame
         /\ \A d \in SUBSET Proc : [f EXCEPT !.due = d] \in Frame
         /\ \A op \in Op, c \in Ptr : [f EXCEPT !.op = op, !.cur = c] \in Frame
         /\ \A op \in Op, c \in Ptr : [f EXCEPT !.op = op, !.saved = c] \in Frame
         /\ \A op \in Op, d \in SUBSET Proc : [f EXCEPT !.op = op, !.due = d] \in Frame
         /\ \A n \in 0 .. HandlerOps : [f EXCEPT !.left = n] \in Frame
         /\ \A op \in Op, p, c \in Ptr :
              [f EXCEPT !.op = op, !.p = p, !.saved = c] \in Frame
         /\ \A op \in Op, p \in Ptr, ev \in Event, n \in 0 .. HandlerOps :
              [f EXCEPT !.op = op, !.p = p, !.ev = ev, !.left = n] \in Frame
         /\ \A op \in Op, ev \in Event, c \in Ptr, d \in SUBSET Proc :
              [f EXCEPT !.op = op, !.ev = ev, !.cur = c, !.due = d] \in Frame
         /\ \A op \in Op, p, from, c, q \in Ptr, d \in SUBSET Proc :
              [f EXCEPT !.op = op, !.p = p, !.from = from, !.saved = c,
                        !.cur = q, !.due = d] \in Frame
BY DEF Frame

(* The fields a frame has, and the constants that fill them.               *)
LEMMA FrameFields ==
  /\ \A f \in Frame : /\ f.op \in Op /\ f.p \in Ptr /\ f.ev \in Event
                      /\ f.cur \in Ptr /\ f.saved \in Ptr /\ f.from \in Ptr
                      /\ f.left \in 0 .. HandlerOps /\ f.due \in SUBSET Proc
                      /\ f = [op |-> f.op, p |-> f.p, ev |-> f.ev, cur |-> f.cur,
                              saved |-> f.saved, from |-> f.from,
                              left |-> f.left, due |-> f.due]
  /\ ThreadOp \subseteq Op
  /\ Restoring \subseteq Op
  /\ Restoring \cap ThreadOp = {}
  /\ {"boot", "event", "poll", "polled", "bcast", "deliver", "delivered"} \subseteq Op
  /\ Proc \subseteq Ptr
  /\ NULL \in Ptr
  /\ UserEvent \subseteq Event
  /\ {"INIT", "POLL", "EXIT", "EXITED"} \subseteq Event
  /\ HandlerOps \in 0 .. HandlerOps
BY ProcessAssumption DEF Frame, Op, ThreadOp, Restoring, Ptr, Event

LEMMA PopStack ==
  ASSUME NEW s \in Seq(Frame), s # << >>, Saved(s)
  PROVE  /\ Pop(s) \in Seq(Frame)
         /\ Saved(Pop(s))
         /\ Pop(s) = << >> \/ Pop(s)[Len(Pop(s))] = s[Len(s) - 1]
         /\ Pop(s) # << >> => Len(s) - 1 \in 1 .. Len(s)
<1>1. /\ Len(s) \in Nat \ {0}
      /\ \A i \in 1 .. Len(s) : s[i] \in Frame
  BY EmptySeq, ElementOfSeq, LenProperties
<1>2. /\ Pop(s) \in Seq(Frame)
      /\ Len(Pop(s)) = Len(s) - 1
      /\ \A i \in 1 .. Len(s) - 1 : Pop(s)[i] = s[i]
  <2>1. \A i \in 1 .. Len(s) - 1 : s[i] \in Frame
    BY <1>1
  <2>2. ASSUME NEW n \in Nat, \A i \in 1 .. n : s[i] \in Frame
        PROVE  /\ SubSeq(s, 1, n) \in Seq(Frame)
               /\ Len(SubSeq(s, 1, n)) = n
               /\ \A i \in 1 .. n : SubSeq(s, 1, n)[i] = s[i]
    <3>1. /\ SubSeq(s, 1, n) \in Seq(Frame)
          /\ Len(SubSeq(s, 1, n)) = IF 1 <= n THEN n - 1 + 1 ELSE 0
          /\ \A i \in 1 .. n - 1 + 1 : SubSeq(s, 1, n)[i] = s[1 + i - 1]
      BY <2>2, SubSeqProperties, Z3
    <3> QED
      BY <3>1
  <2>3. Len(s) - 1 \in Nat
    BY <1>1
  <2> QED
    BY <2>1, <2>2, <2>3 DEF Pop
<1>3. Saved(Pop(s))
  BY <1>1, <1>2 DEF Saved, Restores
<1>4. Pop(s) # << >> => Len(Pop(s)) \in Nat \ {0}
  BY <1>2, EmptySeq
<1> QED
  BY <1>1, <1>2, <1>3, <1>4

LEMMA PushStack ==
  ASSUME NEW s \in Seq(Frame), Saved(s), NEW f \in Frame, Held(f),
         KernelTop(s) \/ (f.op \in Restoring /\ f.saved = s[Len(s)].p)
  PROVE  /\ Append(s, f) \in Seq(Frame)
         /\ Saved(Append(s, f))
         /\ Append(s, f) # << >>
         /\ Append(s, f)[Len(Append(s, f))] = f
<1>1. /\ Append(s, f) \in Seq(Frame)
      /\ Len(Append(s, f)) = Len(s) + 1
      /\ Append(s, f)[Len(s) + 1] = f
      /\ \A i \in 1 .. Len(s) : Append(s, f)[i] = s[i]
      /\ Len(s) \in Nat
  BY LenProperties, AppendProperties
<1>2. s = << >> => Len(s) = 0
  OBVIOUS
<1>3. Restores(Append(s, f))
  <2> SUFFICES ASSUME NEW i \in 1 .. Len(s), Append(s, f)[i].op \in ThreadOp
               PROVE  /\ Append(s, f)[i + 1].op \in Restoring
                      /\ Append(s, f)[i + 1].saved = Append(s, f)[i].p
    BY <1>1 DEF Restores
  <2>1. CASE i = Len(s)
    BY <1>1, <1>2, <2>1 DEF KernelTop
  <2>2. CASE i # Len(s)
    BY <1>1, <2>2 DEF Saved, Restores
  <2> QED
    BY <2>1, <2>2
<1>4. \A i \in 1 .. Len(Append(s, f)) : Held(Append(s, f)[i])
  BY <1>1 DEF Saved
<1> QED
  BY <1>1, <1>3, <1>4, EmptySeq DEF Saved

LEMMA GotoStack ==
  ASSUME stack \in Seq(Frame), stack # << >>, Saved(stack), NEW f \in Frame, Held(f),
         Top.op \in Restoring => f.op \in Restoring /\ f.saved = Top.saved
  PROVE  /\ Goto(f) \in Seq(Frame)
         /\ Saved(Goto(f))
         /\ Goto(f) # << >>
         /\ Goto(f)[Len(Goto(f))] = f
<1>1. Len(stack) \in Nat \ {0}
  BY EmptySeq
<1>2. /\ Goto(f) \in Seq(Frame)
      /\ Len(Goto(f)) = Len(stack)
      /\ \A j \in 1 .. Len(stack) : Goto(f)[j] = IF j = Len(stack) THEN f ELSE stack[j]
  BY <1>1, ExceptSeq DEF Goto
<1>3. Restores(Goto(f))
  <2> SUFFICES ASSUME NEW i \in 1 .. Len(stack) - 1, Goto(f)[i].op \in ThreadOp
               PROVE  /\ Goto(f)[i + 1].op \in Restoring
                      /\ Goto(f)[i + 1].saved = Goto(f)[i].p
    BY <1>2 DEF Restores
  <2>1. Goto(f)[i] = stack[i] /\ stack[i].op \in ThreadOp
    BY <1>1, <1>2
  <2>2. stack[i + 1].op \in Restoring /\ stack[i + 1].saved = stack[i].p
    BY <2>1 DEF Saved, Restores
  <2>3. CASE i + 1 = Len(stack)
    BY <1>1, <1>2, <2>1, <2>2, <2>3 DEF Top
  <2>4. CASE i + 1 # Len(stack)
    BY <1>1, <1>2, <2>1, <2>2, <2>4
  <2> QED
    BY <2>3, <2>4
<1>4. \A i \in 1 .. Len(Goto(f)) : Held(Goto(f)[i])
  BY <1>2 DEF Saved
<1> QED
  BY <1>1, <1>2, <1>3, <1>4, EmptySeq DEF Saved

-----------------------------------------------------------------------------
(* A call of a handler, made by a kernel function that is innermost.       *)
LEMMA CallKeeps ==
  ASSUME NEW s \in Seq(Frame), Saved(s), KernelTop(s),
         NEW p \in Proc, NEW ev \in Event,
         NEW st \in [Proc -> {"NONE", "RUNNING", "CALLED"}],
         process_current \in Ptr, CallProcess(p, ev, s, st)
  PROVE  /\ stack' \in Seq(Frame)
         /\ Saved(stack')
         /\ Runner(stack', process_current')
         /\ process_current' \in Ptr
         /\ state' \in [Proc -> {"NONE", "RUNNING", "CALLED"}]
<1>1. CASE st[p] = "RUNNING"
  <2> DEFINE f == [Blank EXCEPT !.op = "call", !.p = p, !.ev = ev, !.left = HandlerOps]
  <2>0. f \in Frame /\ f.p = p /\ Held(f)
    <3>1. "call" \in Op
      BY FrameFields DEF ThreadOp
    <3>2. f \in Frame
      BY <3>1, BlankFrame, FrameFields, FrameUpdates
    <3>3. f.op = "call" /\ f.p = p
      BY <3>2, BlankFrame DEF Frame
    <3> QED
      BY <3>2, <3>3 DEF Held
  <2>1. /\ process_current' = p /\ stack' = Append(s, f)
        /\ state' = [st EXCEPT ![p] = "CALLED"]
    BY <1>1 DEF CallProcess
  <2> HIDE DEF f
  <2>2. stack' \in Seq(Frame) /\ Saved(stack') /\ stack'[Len(stack')] = f
    BY <2>0, <2>1, PushStack
  <2> QED
    BY <2>0, <2>1, <2>2 DEF Runner, Ptr
<1>2. CASE st[p] # "RUNNING"
  BY <1>2 DEF CallProcess, Runner, KernelTop
<1> QED
  BY <1>1, <1>2

(* The end of a process, begun from a handler or after one has returned.   *)
LEMMA ExitKeeps ==
  ASSUME TypeOK, NEW s \in Seq(Frame), Saved(s), Runner(s, process_current),
         NEW p \in Proc, NEW from \in Ptr, ExitProcess(p, from, s)
  PROVE  IInv'
<1>1. /\ UNCHANGED <<list, needspoll, poll_requested, process_current, queue>>
      /\ process_current \in Ptr /\ process_list \in Ptr
  BY DEF ExitProcess, TypeOK
<1>2. CASE stack' = s /\ UNCHANGED <<state, owed>>
  BY <1>1, <1>2 DEF IInv, TypeOK, list
<1>3. CASE /\ stack' = Append(s, [Blank EXCEPT !.op = "unlink", !.p = p,
                                               !.saved = process_current])
           /\ UNCHANGED <<state, owed>>
  <2> DEFINE f == [Blank EXCEPT !.op = "unlink", !.p = p, !.saved = process_current]
  <2>1. f \in Frame
    BY <1>1, BlankFrame, FrameFields, FrameUpdates DEF Restoring
  <2>2. f.op = "unlink" /\ f.saved = process_current /\ Held(f)
    BY BlankFrame DEF Frame, Held, ThreadOp
  <2>3. stack' = Append(s, f)
    BY <1>3
  <2> HIDE DEF f
  <2>4. KernelTop(s) \/ f.saved = s[Len(s)].p
    BY <2>2 DEF KernelTop, Runner
  <2>5. stack' \in Seq(Frame) /\ Saved(stack') /\ stack'[Len(stack')] = f
    BY <2>1, <2>2, <2>3, <2>4, PushStack DEF Restoring
  <2>6. Runner(stack', process_current')
    BY <2>2, <2>5 DEF Runner, ThreadOp
  <2> QED
    BY <1>1, <1>3, <2>5, <2>6 DEF IInv, TypeOK, list
<1>4. CASE /\ state' = [state EXCEPT ![p] = "NONE"]
           /\ owed' = owed \ {p}
           /\ stack' = Append([i \in DOMAIN s |-> [s[i] EXCEPT !.due = @ \ {p}]],
                              [Blank EXCEPT !.op = "exit", !.p = p, !.from = from,
                                            !.saved = process_current,
                                            !.cur = process_list,
                                            !.due = {q \in Proc \ {p} : state[q] # "NONE"}])
  <2> DEFINE t == [i \in DOMAIN s |-> [s[i] EXCEPT !.due = @ \ {p}]]
             f == [Blank EXCEPT !.op = "exit", !.p = p, !.from = from,
                                !.saved = process_current, !.cur = process_list,
                                !.due = {q \in Proc \ {p} : state[q] # "NONE"}]
  <2>1. f \in Frame
    BY <1>1, BlankFrame, FrameFields, FrameUpdates DEF Restoring
  <2>2. f.op = "exit" /\ f.saved = process_current /\ Held(f)
    BY BlankFrame DEF Frame, Held, ThreadOp
  <2>3. stack' = Append(t, f)
    BY <1>4
  <2>4. /\ Len(s) \in Nat /\ DOMAIN s = 1 .. Len(s)
        /\ \A i \in 1 .. Len(s) : s[i] \in Frame
    BY LenProperties, ElementOfSeq
  <2>5. ASSUME NEW i \in 1 .. Len(s)
        PROVE  /\ t[i] \in Frame
               /\ t[i].op = s[i].op /\ t[i].p = s[i].p /\ t[i].saved = s[i].saved
               /\ t[i].cur = s[i].cur
    <3>1. s[i] \in Frame /\ s[i].due \ {p} \in SUBSET Proc
      BY <2>4, FrameFields
    <3>2. t[i] = [s[i] EXCEPT !.due = s[i].due \ {p}]
      BY <2>4
    <3>3. t[i] \in Frame
      BY <3>1, <3>2, FrameUpdates
    <3> QED
      BY <3>1, <3>2, <3>3 DEF Frame
  <2>6. t \in Seq(Frame) /\ Len(t) = Len(s)
    BY <2>4, <2>5
  <2> HIDE DEF f, t
  <2>7. Saved(t) /\ Runner(t, process_current)
    <3>1. s = << >> <=> Len(s) = 0
      OBVIOUS
    <3>2. t = << >> <=> Len(t) = 0
      BY <2>6
    <3>3. Saved(t)
      BY <2>4, <2>5, <2>6, SMTT(30) DEF Saved, Restores, Held
    <3>4. t # << >> => t[Len(t)].op = s[Len(s)].op /\ t[Len(t)].p = s[Len(s)].p
      BY <2>4, <2>5, <2>6, <3>2
    <3> QED
      BY <2>6, <3>1, <3>2, <3>3, <3>4 DEF Runner
  <2>8. KernelTop(t) \/ f.saved = t[Len(t)].p
    BY <2>2, <2>7 DEF KernelTop, Runner
  <2>9. stack' \in Seq(Frame) /\ Saved(stack') /\ stack'[Len(stack')] = f
    BY <2>1, <2>2, <2>3, <2>6, <2>7, <2>8, PushStack DEF Restoring
  <2>10. Runner(stack', process_current')
    BY <2>2, <2>9 DEF Runner, ThreadOp
  <2> QED
    BY <1>1, <1>4, <2>9, <2>10 DEF IInv, TypeOK, list
<1> QED
  BY <1>2, <1>3, <1>4 DEF ExitProcess

(* The start of a process, from a handler or from main.                    *)
LEMMA StartKeeps ==
  ASSUME TypeOK, NEW s \in Seq(Frame), Saved(s), Runner(s, process_current),
         NEW p \in Proc, ProcessStart(p, s)
  PROVE  IInv'
<1>1. UNCHANGED <<polls, queue>> /\ process_current \in Ptr /\ process_list \in Ptr
  BY DEF ProcessStart, TypeOK
<1>2. CASE stack' = s /\ UNCHANGED <<list, state, process_current>>
  BY <1>1, <1>2 DEF IInv, TypeOK, list, polls
<1> DEFINE f == [Blank EXCEPT !.op = "synch", !.saved = process_current]
<1>3. CASE /\ next' = [next EXCEPT ![p] = process_list]
           /\ process_list' = p
           /\ CallProcess(p, "INIT", Append(s, f), [state EXCEPT ![p] = "RUNNING"])
  <2>1. f \in Frame /\ f.op = "synch" /\ f.saved = process_current /\ Held(f)
    <3>1. f \in Frame
      BY <1>1, BlankFrame, FrameFields, FrameUpdates DEF Restoring
    <3>2. f.op = "synch" /\ f.saved = process_current
      BY <3>1, BlankFrame DEF Frame
    <3> QED
      BY <3>1, <3>2 DEF Held, ThreadOp
  <2> HIDE DEF f
  <2>2. KernelTop(s) \/ f.saved = s[Len(s)].p
    BY <2>1 DEF KernelTop, Runner
  <2>3. /\ Append(s, f) \in Seq(Frame) /\ Saved(Append(s, f))
        /\ KernelTop(Append(s, f))
    BY <2>1, <2>2, PushStack DEF Restoring, KernelTop, ThreadOp
  <2>4. [state EXCEPT ![p] = "RUNNING"] \in [Proc -> {"NONE", "RUNNING", "CALLED"}]
    BY DEF TypeOK
  <2>5. /\ stack' \in Seq(Frame) /\ Saved(stack') /\ Runner(stack', process_current')
        /\ process_current' \in Ptr
        /\ state' \in [Proc -> {"NONE", "RUNNING", "CALLED"}]
    BY <1>1, <1>3, <2>3, <2>4, CallKeeps, FrameFields
  <2>6. next' \in [Proc -> Ptr] /\ process_list' \in Ptr
    BY <1>1, <1>3, FrameFields DEF TypeOK
  <2> QED
    BY <1>1, <2>5, <2>6 DEF IInv, TypeOK, polls
<1> QED
  BY <1>2, <1>3 DEF ProcessStart

-----------------------------------------------------------------------------
(* The innermost frame of a stack that has one.                            *)
LEMMA TopFrame ==
  ASSUME TypeOK, stack # << >>
  PROVE  Top \in Frame /\ stack \in Seq(Frame) /\ Len(stack) \in Nat \ {0}
BY EmptySeq, ElementOfSeq, LenProperties DEF TypeOK, Top

LEMMA TopHeld ==
  ASSUME TypeOK, stack # << >>, Saved(stack)
  PROVE  Held(Top)
BY TopFrame DEF Saved, Top

(* Going back to what lies below: a handler there finds its process saved  *)
(* in the frame that goes, and only such a frame lies above a handler.     *)
LEMMA PopRunner ==
  ASSUME TypeOK, stack # << >>, Saved(stack), NEW c,
         Top.op \in Restoring => c = Top.saved
  PROVE  /\ Pop(stack) \in Seq(Frame)
         /\ Saved(Pop(stack))
         /\ Runner(Pop(stack), c)
         /\ Top.op \notin Restoring => KernelTop(Pop(stack))
<1>1. /\ Pop(stack) \in Seq(Frame)
      /\ Saved(Pop(stack))
      /\ Pop(stack) = << >> \/ Pop(stack)[Len(Pop(stack))] = stack[Len(stack) - 1]
      /\ Pop(stack) # << >> => Len(stack) - 1 \in 1 .. Len(stack)
  BY TopFrame, PopStack
<1>2. ASSUME Pop(stack) # << >>, stack[Len(stack) - 1].op \in ThreadOp
      PROVE  Top.op \in Restoring /\ Top.saved = stack[Len(stack) - 1].p
  <2>1. Len(stack) - 1 \in 1 .. Len(stack) - 1 /\ (Len(stack) - 1) + 1 = Len(stack)
    BY <1>1, <1>2, TopFrame
  <2> QED
    BY <1>2, <2>1 DEF Saved, Restores, Top
<1> QED
  BY <1>1, <1>2 DEF Runner, KernelTop

(* The innermost frame changes, and stays what it is: a handler's frame of *)
(* the same process, or a frame of the kernel that saved the same process. *)
LEMMA GotoRunner ==
  ASSUME TypeOK, stack # << >>, Saved(stack), Runner(stack, process_current),
         NEW f \in Frame, Held(f),
         Top.op \in Restoring => f.op \in Restoring /\ f.saved = Top.saved,
         f.op \in ThreadOp => f.op = Top.op /\ f.p = Top.p
  PROVE  /\ Goto(f) \in Seq(Frame)
         /\ Saved(Goto(f))
         /\ Runner(Goto(f), process_current)
         /\ f.op \notin ThreadOp => KernelTop(Goto(f))
<1>1. /\ Goto(f) \in Seq(Frame) /\ Saved(Goto(f)) /\ Goto(f)[Len(Goto(f))] = f
  BY TopFrame, GotoStack
<1> QED
  BY <1>1 DEF Runner, KernelTop, Top

-----------------------------------------------------------------------------
LEMMA BootSteps ==
  ASSUME IInv, BootDone \/ \E p \in Proc : BootStart(p)
  PROVE  IInv'
<1> USE DEF IInv
<1>1. CASE BootDone
  <2>1. Top.op \notin Restoring /\ stack # << >>
    BY <1>1 DEF BootDone, At, Restoring
  <2>2. stack' \in Seq(Frame) /\ Saved(stack') /\ Runner(stack', process_current')
    BY <1>1, <2>1, PopRunner DEF BootDone
  <2> QED
    BY <1>1, <2>2 DEF BootDone, TypeOK, list, polls
<1>2. ASSUME NEW p \in Proc, BootStart(p)
      PROVE  IInv'
  <2> DEFINE f == [Top EXCEPT !.due = @ \ {p}]
  <2>1. stack # << >> /\ Top.op = "boot" /\ ProcessStart(p, Goto(f)) /\ Top \in Frame
    BY <1>2, TopFrame DEF BootStart, At
  <2>2. f \in Frame /\ f.op = "boot" /\ Held(f)
    <3>1. f \in Frame
      <4>1. Top.due \ {p} \in SUBSET Proc
        BY <2>1, FrameFields
      <4> QED
        BY <2>1, <4>1, FrameUpdates
    <3>2. f.op = "boot"
      BY <2>1, <3>1 DEF Frame
    <3> QED
      BY <3>1, <3>2 DEF Held, ThreadOp
  <2> HIDE DEF f
  <2>3. /\ Goto(f) \in Seq(Frame) /\ Saved(Goto(f)) /\ Runner(Goto(f), process_current)
    BY <2>1, <2>2, GotoRunner DEF Restoring, ThreadOp
  <2> QED
    BY <2>1, <2>3, StartKeeps
<1> QED
  BY <1>1, <1>2

(* process_run and do_poll.                                                *)
LEMMA PollSteps ==
  ASSUME IInv, ProcessRun \/ DoPoll \/ PollNext
  PROVE  IInv'
<1> USE DEF IInv
<1>1. CASE ProcessRun
  <2>1. /\ PollFrame \in Frame /\ PollFrame.op = "poll" /\ Blank.op = "event"
        /\ Held(Blank) /\ Held(PollFrame)
    <3>1. PollFrame \in Frame
      BY BlankFrame, FrameFields, FrameUpdates DEF PollFrame, TypeOK
    <3>2. PollFrame.op = "poll" /\ Blank.op = "event"
      BY BlankFrame DEF Frame, PollFrame, Blank
    <3> QED
      BY <3>1, <3>2 DEF Held, ThreadOp
  <2>2. stack' = <<Blank>> \/ stack' = <<Blank, PollFrame>>
    BY <1>1 DEF ProcessRun
  <2>3. stack' \in Seq(Frame) /\ Saved(stack') /\ Runner(stack', process_current')
    <3>1. CASE stack' = <<Blank>>
      BY <2>1, <3>1, BlankFrame DEF Saved, Restores, Runner, ThreadOp
    <3>2. CASE stack' = <<Blank, PollFrame>>
      BY <2>1, <3>2, BlankFrame DEF Saved, Restores, Runner, ThreadOp
    <3> QED
      BY <2>2, <3>1, <3>2
  <2> QED
    BY <1>1, <2>3 DEF ProcessRun, TypeOK, list
<1>2. CASE DoPoll
  <2>1. /\ stack # << >> /\ Top.op = "poll" /\ Top \in Frame
        /\ UNCHANGED <<list, poll_requested, queue>>
    BY <1>2, TopFrame DEF DoPoll, At
  <2>2. CASE Top.cur = NULL
    <3>1. stack' = Pop(stack) /\ UNCHANGED <<state, needspoll, owed, process_current>>
      BY <1>2, <2>2 DEF DoPoll
    <3>2. stack' \in Seq(Frame) /\ Saved(stack') /\ Runner(stack', process_current')
      BY <2>1, <3>1, PopRunner DEF Restoring
    <3> QED
      BY <2>1, <3>1, <3>2 DEF TypeOK, list
  <2>3. CASE Top.cur # NULL /\ ~ needspoll[Top.cur]
    <3> DEFINE f == [Top EXCEPT !.cur = next[Top.cur]]
    <3>1. stack' = Goto(f) /\ UNCHANGED <<state, needspoll, owed, process_current>>
      BY <1>2, <2>3 DEF DoPoll
    <3>2. next[Top.cur] \in Ptr
      BY <2>1, <2>3, FrameFields DEF TypeOK, Ptr
    <3>3. f \in Frame /\ f.op = "poll" /\ Held(f)
      <4>1. f \in Frame
        BY <2>1, <3>2, FrameUpdates
      <4>2. f.op = "poll"
        BY <2>1, <4>1 DEF Frame
      <4> QED
        BY <4>1, <4>2 DEF Held, ThreadOp
    <3> HIDE DEF f
    <3>4. stack' \in Seq(Frame) /\ Saved(stack') /\ Runner(stack', process_current')
      BY <2>1, <3>1, <3>3, GotoRunner DEF Restoring, ThreadOp
    <3> QED
      BY <2>1, <3>1, <3>4 DEF TypeOK, list
  <2>4. CASE Top.cur # NULL /\ needspoll[Top.cur]
    <3> DEFINE f == [Top EXCEPT !.op = "polled"]
    <3>1. /\ needspoll' = [needspoll EXCEPT ![Top.cur] = FALSE]
          /\ owed' = owed \ {Top.cur}
          /\ CallProcess(Top.cur, "POLL", Goto(f), [state EXCEPT ![Top.cur] = "RUNNING"])
      BY <1>2, <2>4 DEF DoPoll
    <3>2. Top.cur \in Proc
      BY <2>1, <2>4, FrameFields DEF Ptr
    <3>3. f \in Frame /\ f.op = "polled" /\ Held(f)
      <4>1. f \in Frame
        BY <2>1, FrameFields, FrameUpdates
      <4>2. f.op = "polled" /\ f.cur = Top.cur
        BY <2>1, <4>1 DEF Frame
      <4> QED
        BY <3>2, <4>1, <4>2 DEF Held, ThreadOp
    <3> HIDE DEF f
    <3>4. Goto(f) \in Seq(Frame) /\ Saved(Goto(f)) /\ KernelTop(Goto(f))
      BY <2>1, <3>3, GotoRunner DEF Restoring, ThreadOp
    <3>5. [state EXCEPT ![Top.cur] = "RUNNING"] \in [Proc -> {"NONE", "RUNNING", "CALLED"}]
      BY DEF TypeOK
    <3>6. /\ stack' \in Seq(Frame) /\ Saved(stack') /\ Runner(stack', process_current')
          /\ process_current' \in Ptr
          /\ state' \in [Proc -> {"NONE", "RUNNING", "CALLED"}]
      BY <3>1, <3>2, <3>4, <3>5, CallKeeps, FrameFields DEF TypeOK
    <3> QED
      BY <2>1, <3>1, <3>6 DEF TypeOK, list
  <2> QED
    BY <2>2, <2>3, <2>4
<1>3. CASE PollNext
  <2> DEFINE f == [Top EXCEPT !.op = "poll", !.cur = next[Top.cur]]
  <2>1. /\ stack # << >> /\ Top.op = "polled" /\ Top \in Frame
        /\ UNCHANGED <<list, state, polls, process_current, queue>>
        /\ stack' = Goto(f)
    BY <1>3, TopFrame DEF PollNext, At
  <2>2. next[Top.cur] \in Ptr
    BY <2>1, TopHeld DEF Held, TypeOK
  <2>3. f \in Frame /\ f.op = "poll" /\ Held(f)
    <3>1. f \in Frame
      BY <2>1, <2>2, FrameFields, FrameUpdates
    <3>2. f.op = "poll"
      BY <2>1, <3>1 DEF Frame
    <3> QED
      BY <3>1, <3>2 DEF Held, ThreadOp
  <2> HIDE DEF f
  <2>4. stack' \in Seq(Frame) /\ Saved(stack') /\ Runner(stack', process_current')
    BY <2>1, <2>3, GotoRunner DEF Restoring, ThreadOp
  <2> QED
    BY <2>1, <2>4 DEF TypeOK, list, polls
<1> QED
  BY <1>1, <1>2, <1>3

(* do_event.                                                               *)
LEMMA EventStep ==
  ASSUME IInv, DoEvent
  PROVE  IInv'
<1> USE DEF IInv
<1>1. /\ stack # << >> /\ Top.op = "event" /\ Top \in Frame
      /\ UNCHANGED <<list, polls>>
  BY TopFrame DEF DoEvent, At
<1>2. CASE queue = << >>
  <2>1. stack' = Pop(stack) /\ UNCHANGED <<state, process_current, queue>>
    BY <1>2 DEF DoEvent
  <2>2. stack' \in Seq(Frame) /\ Saved(stack') /\ Runner(stack', process_current')
    BY <1>1, <2>1, PopRunner DEF Restoring
  <2> QED
    BY <1>1, <2>1, <2>2 DEF TypeOK, list, polls
<1>3. ASSUME queue # << >>
      PROVE  /\ Head(queue) \in [ev : UserEvent, p : Ptr]
             /\ Tail(queue) \in Seq([ev : UserEvent, p : Ptr])
             /\ Len(Tail(queue)) <= NUMEVENTS
  <2> DEFINE E == [ev : UserEvent, p : Ptr]
  <2>1. queue \in Seq(E) /\ Len(queue) <= NUMEVENTS
    BY DEF TypeOK
  <2> HIDE DEF E
  <2>2. /\ Head(queue) \in E /\ Tail(queue) \in Seq(E)
        /\ Len(Tail(queue)) = Len(queue) - 1 /\ Len(queue) \in Nat
    BY <1>3, <2>1, HeadTailProperties, LenProperties
  <2>3. Len(Tail(queue)) <= NUMEVENTS
    BY <2>1, <2>2, ProcessAssumption
  <2> QED
    BY <2>2, <2>3 DEF E
<1>4. CASE queue # << >> /\ Head(queue).p = NULL
  <2> DEFINE d == {q \in Proc : state[q] # "NONE"}
             f == [Blank EXCEPT !.op = "bcast", !.ev = Head(queue).ev,
                                !.cur = process_list, !.due = d]
  <2>1. /\ stack' = Goto(f) /\ queue' = Tail(queue) /\ UNCHANGED <<state, process_current>>
    BY <1>4 DEF DoEvent
  <2>2. f \in Frame /\ f.op = "bcast" /\ Held(f)
    <3>1. f \in Frame
      <4>1. Head(queue).ev \in Event /\ process_list \in Ptr /\ d \in SUBSET Proc
        BY <1>3, <1>4, FrameFields DEF TypeOK
      <4> QED
        BY <4>1, BlankFrame, FrameFields, FrameUpdates
    <3>2. f.op = "bcast"
      BY BlankFrame DEF Frame
    <3> QED
      BY <3>1, <3>2 DEF Held, ThreadOp
  <2> HIDE DEF f
  <2>3. stack' \in Seq(Frame) /\ Saved(stack') /\ Runner(stack', process_current')
    BY <1>1, <2>1, <2>2, GotoRunner DEF Restoring, ThreadOp
  <2> QED
    BY <1>1, <1>3, <1>4, <2>1, <2>3 DEF TypeOK, list, polls
<1>5. CASE queue # << >> /\ Head(queue).p # NULL
  <2> DEFINE p == Head(queue).p
             ev == Head(queue).ev
             st == IF ev = "INIT" THEN [state EXCEPT ![p] = "RUNNING"] ELSE state
  <2>1. queue' = Tail(queue) /\ CallProcess(p, ev, Pop(stack), st)
    BY <1>5 DEF DoEvent
  <2>2. p \in Proc /\ ev \in Event
    BY <1>3, <1>5, FrameFields DEF Ptr
  <2>3. st \in [Proc -> {"NONE", "RUNNING", "CALLED"}]
    BY <2>2 DEF TypeOK
  <2> HIDE DEF p, ev, st
  <2>4. Pop(stack) \in Seq(Frame) /\ Saved(Pop(stack)) /\ KernelTop(Pop(stack))
    BY <1>1, PopRunner DEF Restoring
  <2>5. /\ stack' \in Seq(Frame) /\ Saved(stack') /\ Runner(stack', process_current')
        /\ process_current' \in Ptr
        /\ state' \in [Proc -> {"NONE", "RUNNING", "CALLED"}]
    BY <2>1, <2>2, <2>3, <2>4, CallKeeps DEF TypeOK
  <2> QED
    BY <1>1, <1>3, <1>5, <2>1, <2>5 DEF TypeOK, list, polls
<1> QED
  BY <1>2, <1>4, <1>5

(* One round of a walk that tells the process under the cursor: the frame  *)
(* goes from op to after, and the process is called.                       *)
LEMMA TellKeeps ==
  ASSUME IInv, stack # << >>, NEW after, NEW d \in SUBSET Proc, NEW ev \in Event,
         \/ Top.op = "deliver" /\ after = "delivered"
         \/ Top.op = "exit" /\ after = "told" /\ Top.cur # NULL,
         CallProcess(Top.cur, ev, Goto([Top EXCEPT !.op = after, !.due = d]), state),
         UNCHANGED <<list, polls, queue>>
  PROVE  IInv'
<1> USE DEF IInv
<1> DEFINE f == [Top EXCEPT !.op = after, !.due = d]
<1>1. Top \in Frame /\ Held(Top) /\ Top.cur \in Proc
  BY TopFrame, TopHeld, FrameFields DEF Held, Ptr
<1>2. /\ f \in Frame /\ f.op = after /\ Held(f) /\ f.saved = Top.saved
  <2>1. f \in Frame
    BY <1>1, FrameFields, FrameUpdates DEF Restoring
  <2>2. f.op = after /\ f.cur = Top.cur /\ f.p = Top.p /\ f.saved = Top.saved
    BY <1>1, <2>1 DEF Frame
  <2> QED
    BY <1>1, <2>1, <2>2 DEF Held, ThreadOp
<1> HIDE DEF f
<1>3. Goto(f) \in Seq(Frame) /\ Saved(Goto(f)) /\ KernelTop(Goto(f))
  BY <1>2, GotoRunner DEF Restoring, ThreadOp
<1>4. /\ stack' \in Seq(Frame) /\ Saved(stack') /\ Runner(stack', process_current')
      /\ process_current' \in Ptr
      /\ state' \in [Proc -> {"NONE", "RUNNING", "CALLED"}]
  BY <1>1, <1>3, CallKeeps DEF TypeOK, f
<1> QED
  BY <1>4 DEF TypeOK, list, polls

(* The broadcast loop.                                                     *)
LEMMA BcastSteps ==
  ASSUME IInv, BcastTest \/ BcastDeliver \/ BcastNext
  PROVE  IInv'
<1> USE DEF IInv
<1>1. CASE BcastTest
  <2>1. /\ stack # << >> /\ Top.op = "bcast" /\ Top \in Frame
        /\ UNCHANGED <<list, state, needspoll, owed, process_current, queue>>
    BY <1>1, TopFrame DEF BcastTest, At
  <2>2. CASE Top.cur = NULL
    <3>1. stack' = Pop(stack) /\ UNCHANGED poll_requested
      BY <1>1, <2>2 DEF BcastTest
    <3>2. stack' \in Seq(Frame) /\ Saved(stack') /\ Runner(stack', process_current')
      BY <2>1, <3>1, PopRunner DEF Restoring
    <3> QED
      BY <2>1, <3>1, <3>2 DEF TypeOK, list
  <2>3. CASE Top.cur # NULL
    <3> DEFINE f == [Top EXCEPT !.op = "deliver"]
    <3>1. /\ stack' = Goto(f) \/ stack' = Append(Goto(f), PollFrame)
          /\ poll_requested' = FALSE
      BY <1>1, <2>3 DEF BcastTest
    <3>2. f \in Frame /\ f.op = "deliver" /\ Held(f)
      <4>1. f \in Frame
        BY <2>1, FrameFields, FrameUpdates
      <4>2. f.op = "deliver" /\ f.cur = Top.cur
        BY <2>1, <4>1 DEF Frame
      <4>3. Top.cur \in Proc
        BY <2>1, <2>3, FrameFields DEF Ptr
      <4> QED
        BY <4>1, <4>2, <4>3 DEF Held, ThreadOp
    <3> HIDE DEF f
    <3>3. /\ Goto(f) \in Seq(Frame) /\ Saved(Goto(f)) /\ KernelTop(Goto(f))
          /\ Runner(Goto(f), process_current)
      BY <2>1, <3>2, GotoRunner DEF Restoring, ThreadOp
    <3>4. PollFrame \in Frame /\ PollFrame.op = "poll" /\ Held(PollFrame)
      <4>1. PollFrame \in Frame
        BY BlankFrame, FrameFields, FrameUpdates DEF PollFrame, TypeOK
      <4>2. PollFrame.op = "poll"
        BY BlankFrame DEF Frame, PollFrame
      <4> QED
        BY <4>1, <4>2 DEF Held, ThreadOp
    <3>5. stack' \in Seq(Frame) /\ Saved(stack') /\ Runner(stack', process_current')
      <4>1. CASE stack' = Goto(f)
        BY <2>1, <3>3, <4>1
      <4>2. CASE stack' = Append(Goto(f), PollFrame)
        BY <3>3, <3>4, <4>2, PushStack DEF Runner, ThreadOp
      <4> QED
        BY <3>1, <4>1, <4>2
    <3> QED
      BY <2>1, <3>1, <3>5 DEF TypeOK, list
  <2> QED
    BY <2>2, <2>3
<1>2. CASE BcastDeliver
  <2> DEFINE d == IF state[Top.cur] = "RUNNING" THEN Top.due \ {Top.cur} ELSE Top.due
  <2>1. /\ stack # << >> /\ Top.op = "deliver" /\ Top \in Frame
        /\ UNCHANGED <<list, polls, queue>>
        /\ CallProcess(Top.cur, Top.ev, Goto([Top EXCEPT !.op = "delivered", !.due = d]), state)
    BY <1>2, TopFrame DEF BcastDeliver, At
  <2>2. d \in SUBSET Proc /\ Top.ev \in Event
    BY <2>1, FrameFields
  <2> HIDE DEF d
  <2> QED
    BY <2>1, <2>2, TellKeeps
<1>3. CASE BcastNext
  <2> DEFINE f == [Top EXCEPT !.op = "bcast", !.cur = next[Top.cur]]
  <2>1. /\ stack # << >> /\ Top.op = "delivered" /\ Top \in Frame
        /\ UNCHANGED <<list, state, polls, process_current, queue>>
        /\ stack' = Goto(f)
    BY <1>3, TopFrame DEF BcastNext, At
  <2>2. next[Top.cur] \in Ptr
    BY <2>1, TopHeld DEF Held, TypeOK
  <2>3. f \in Frame /\ f.op = "bcast" /\ Held(f)
    <3>1. f \in Frame
      BY <2>1, <2>2, FrameFields, FrameUpdates
    <3>2. f.op = "bcast"
      BY <2>1, <3>1 DEF Frame
    <3> QED
      BY <3>1, <3>2 DEF Held, ThreadOp
  <2> HIDE DEF f
  <2>4. stack' \in Seq(Frame) /\ Saved(stack') /\ Runner(stack', process_current')
    BY <2>1, <2>3, GotoRunner DEF Restoring, ThreadOp
  <2> QED
    BY <2>1, <2>4 DEF TypeOK, list, polls
<1> QED
  BY <1>1, <1>2, <1>3

(* The loop and the end of exit_process, the end of process_post_synch.    *)
LEMMA ExitSteps ==
  ASSUME IInv, ExitTell \/ ExitNext \/ ExitSelf
  PROVE  IInv'
<1> USE DEF IInv
<1>1. CASE ExitTell
  <2>1. /\ stack # << >> /\ Top.op = "exit" /\ Top \in Frame /\ Top.cur # NULL
        /\ UNCHANGED <<list, polls, queue>>
    BY <1>1, TopFrame DEF ExitTell, At
  <2>2. CASE Top.cur = Top.p
    <3> DEFINE f == [Top EXCEPT !.op = "told"]
    <3>1. stack' = Goto(f) /\ UNCHANGED <<state, process_current>>
      BY <1>1, <2>2 DEF ExitTell
    <3>2. f \in Frame /\ f.op = "told" /\ f.saved = Top.saved /\ Held(f)
      <4>1. f \in Frame
        BY <2>1, FrameFields, FrameUpdates DEF Restoring
      <4>2. f.op = "told" /\ f.cur = Top.cur /\ f.p = Top.p /\ f.saved = Top.saved
        BY <2>1, <4>1 DEF Frame
      <4>3. Top.cur \in Proc
        BY <2>1, FrameFields DEF Ptr
      <4> QED
        BY <2>2, <4>1, <4>2, <4>3 DEF Held, ThreadOp
    <3> HIDE DEF f
    <3>3. stack' \in Seq(Frame) /\ Saved(stack') /\ Runner(stack', process_current')
      BY <2>1, <3>1, <3>2, GotoRunner DEF Restoring, ThreadOp
    <3> QED
      BY <2>1, <3>1, <3>3 DEF TypeOK, list, polls
  <2>3. CASE Top.cur # Top.p
    <3> DEFINE d == IF state[Top.cur] = "RUNNING" THEN Top.due \ {Top.cur} ELSE Top.due
    <3>1. CallProcess(Top.cur, "EXITED", Goto([Top EXCEPT !.op = "told", !.due = d]), state)
      BY <1>1, <2>3 DEF ExitTell
    <3>2. d \in SUBSET Proc
      BY <2>1, FrameFields
    <3> HIDE DEF d
    <3> QED
      BY <2>1, <3>1, <3>2, TellKeeps, FrameFields
  <2> QED
    BY <2>2, <2>3
<1>2. CASE ExitNext
  <2> DEFINE f == [Top EXCEPT !.op = "exit", !.cur = next[Top.cur]]
  <2>1. /\ stack # << >> /\ Top.op = "told" /\ Top \in Frame /\ Held(Top)
        /\ UNCHANGED <<list, state, polls, process_current, queue>>
        /\ stack' = Goto(f)
    BY <1>2, TopFrame, TopHeld DEF ExitNext, At
  <2>2. next[Top.cur] \in Ptr
    BY <2>1 DEF Held, TypeOK
  <2>3. f \in Frame /\ f.op = "exit" /\ f.saved = Top.saved /\ Held(f)
    <3>1. f \in Frame
      BY <2>1, <2>2, FrameFields, FrameUpdates DEF Restoring
    <3>2. f.op = "exit" /\ f.p = Top.p /\ f.saved = Top.saved
      BY <2>1, <3>1 DEF Frame
    <3> QED
      BY <2>1, <3>1, <3>2 DEF Held, ThreadOp
  <2> HIDE DEF f
  <2>4. stack' \in Seq(Frame) /\ Saved(stack') /\ Runner(stack', process_current')
    BY <2>1, <2>3, GotoRunner DEF Restoring, ThreadOp
  <2> QED
    BY <2>1, <2>4 DEF TypeOK, list, polls
<1>3. CASE ExitSelf
  <2> DEFINE f == [Top EXCEPT !.op = "unlink"]
             g == [Blank EXCEPT !.op = "direct", !.p = Top.p, !.ev = "EXIT",
                                !.left = HandlerOps]
  <2>1. /\ stack # << >> /\ Top.op = "exit" /\ Top \in Frame /\ Held(Top) /\ Top.p \in Proc
        /\ UNCHANGED <<list, state, polls, queue>>
        /\ \/ process_current' = Top.p /\ stack' = Append(Goto(f), g)
           \/ stack' = Goto(f) /\ UNCHANGED process_current
    BY <1>3, TopFrame, TopHeld DEF ExitSelf, At, Held
  <2>2. f \in Frame /\ f.op = "unlink" /\ f.saved = Top.saved /\ Held(f)
    <3>1. f \in Frame
      BY <2>1, FrameFields, FrameUpdates DEF Restoring
    <3>2. f.op = "unlink" /\ f.p = Top.p /\ f.saved = Top.saved
      BY <2>1, <3>1 DEF Frame
    <3> QED
      BY <2>1, <3>1, <3>2 DEF Held, ThreadOp
  <2>3. g \in Frame /\ g.op = "direct" /\ g.p = Top.p /\ Held(g)
    <3>1. g \in Frame
      BY <2>1, BlankFrame, FrameFields, FrameUpdates DEF ThreadOp
    <3>2. g.op = "direct" /\ g.p = Top.p
      BY BlankFrame DEF Frame
    <3> QED
      BY <2>1, <3>1, <3>2 DEF Held, ThreadOp
  <2> HIDE DEF f, g
  <2>4. /\ Goto(f) \in Seq(Frame) /\ Saved(Goto(f)) /\ KernelTop(Goto(f))
        /\ Runner(Goto(f), process_current)
    BY <2>1, <2>2, GotoRunner DEF Restoring, ThreadOp
  <2>5. /\ stack' \in Seq(Frame) /\ Saved(stack') /\ Runner(stack', process_current')
        /\ process_current' \in Ptr
    <3>1. CASE process_current' = Top.p /\ stack' = Append(Goto(f), g)
      <4>1. /\ stack' \in Seq(Frame) /\ Saved(stack') /\ stack'[Len(stack')] = g
        BY <2>3, <2>4, <3>1, PushStack
      <4> QED
        BY <2>1, <2>3, <3>1, <4>1, FrameFields DEF Runner
    <3>2. CASE stack' = Goto(f) /\ UNCHANGED process_current
      BY <2>4, <3>2 DEF TypeOK
    <3> QED
      BY <2>1, <3>1, <3>2
  <2> QED
    BY <2>1, <2>5 DEF TypeOK, list, polls
<1> QED
  BY <1>1, <1>2, <1>3

LEMMA ReturnSteps ==
  ASSUME IInv, Unlink \/ SynchReturn \/ ReturnYield \/ ReturnDirect
  PROVE  IInv'
<1> USE DEF IInv
<1>1. /\ stack # << >> /\ Top \in Frame /\ Held(Top)
      /\ stack' = Pop(stack) /\ UNCHANGED <<polls, queue>>
      /\ Top.op \in Restoring => process_current' = Top.saved
      /\ Top.op \notin Restoring => process_current' = process_current
  <2>1. stack # << >>
    BY DEF Unlink, SynchReturn, ReturnYield, ReturnDirect, At
  <2> QED
    BY <2>1, TopFrame, TopHeld
       DEF Unlink, SynchReturn, ReturnYield, ReturnDirect, At, Restoring
<1>2. /\ stack' \in Seq(Frame) /\ Saved(stack') /\ Runner(stack', process_current')
      /\ process_current' \in Ptr
  BY <1>1, PopRunner, FrameFields DEF TypeOK
<1>3. /\ process_list' \in Ptr /\ next' \in [Proc -> Ptr]
      /\ state' \in [Proc -> {"NONE", "RUNNING", "CALLED"}]
  <2>1. CASE Unlink
    <3>1. Top.p \in Proc
      BY <1>1, <2>1 DEF Unlink, At, Held
    <3>2. CASE Top.p = process_list
      BY <2>1, <3>1, <3>2 DEF Unlink, TypeOK
    <3>3. CASE Top.p # process_list
      <4>1. /\ next' = [q \in Proc |-> IF OnList(q) /\ next[q] = Top.p
                                       THEN next[Top.p] ELSE next[q]]
            /\ process_list' = process_list /\ state' = state
        BY <2>1, <3>3 DEF Unlink
      <4> QED
        BY <3>1, <4>1 DEF TypeOK
    <3> QED
      BY <3>2, <3>3
  <2>2. CASE SynchReturn \/ ReturnYield \/ ReturnDirect
    BY <2>2 DEF SynchReturn, ReturnYield, ReturnDirect, list, TypeOK
  <2> QED
    BY <2>1, <2>2
<1> QED
  BY <1>1, <1>2, <1>3 DEF TypeOK, polls

(* The innermost handler makes one of its calls: its frame stays.          *)
LEMMA CountedKeeps ==
  ASSUME IInv, NEW call, InHandler(call)
  PROVE  /\ stack # << >> /\ Counted \in Seq(Frame) /\ Saved(Counted)
         /\ Runner(Counted, process_current)
         /\ Counted # << >> /\ Counted[Len(Counted)].p = Top.p
         /\ process_current = Top.p /\ Top.p \in Proc
<1> USE DEF IInv
<1> DEFINE f == [Top EXCEPT !.left = Top.left - 1]
<1>1. /\ stack # << >> /\ Top \in Frame /\ Held(Top) /\ Top.left > 0
      /\ Top.op \in ThreadOp /\ Counted = Goto(f) /\ stack \in Seq(Frame)
  BY TopFrame, TopHeld DEF InHandler, At, Counted
<1>2. f \in Frame /\ f.op = Top.op /\ f.p = Top.p /\ Held(f)
  <2>1. f \in Frame
    <3>1. Top.left - 1 \in 0 .. HandlerOps
      BY <1>1, FrameFields, ProcessAssumption
    <3> QED
      BY <1>1, <3>1, FrameUpdates
  <2>2. f.op = Top.op /\ f.p = Top.p /\ f.cur = Top.cur
    BY <1>1, <2>1 DEF Frame
  <2> QED
    BY <1>1, <2>1, <2>2 DEF Held
<1> HIDE DEF f
<1>3. Top.op \notin Restoring
  BY <1>1 DEF Restoring, ThreadOp
<1>4. /\ Counted \in Seq(Frame) /\ Saved(Counted) /\ Runner(Counted, process_current)
      /\ Counted # << >> /\ Counted[Len(Counted)] = f
  BY <1>1, <1>2, <1>3, GotoRunner, GotoStack
<1>5. process_current = Top.p /\ Top.p \in Proc
  BY <1>1 DEF Runner, Top, Held
<1> QED
  BY <1>1, <1>2, <1>4, <1>5

LEMMA CallSteps ==
  ASSUME IInv,
         \/ \E p \in Ptr, ev \in UserEvent : Post(p, ev)
         \/ \E p \in Proc, ev \in UserEvent : PostSynch(p, ev)
         \/ \E p \in Proc : Start(p) \/ Exit(p) \/ Poll(p)
  PROVE  IInv'
<1> USE DEF IInv
<1>1. ASSUME NEW p \in Ptr, NEW ev \in UserEvent, Post(p, ev)
      PROVE  IInv'
  <2> DEFINE E == [ev : UserEvent, p : Ptr]
             e == [ev |-> ev, p |-> p]
  <2>1. /\ InHandler("post") /\ stack' = Counted
        /\ UNCHANGED <<list, state, polls, process_current>>
        /\ queue' = IF Len(queue) = NUMEVENTS THEN queue ELSE Append(queue, e)
        /\ e \in E
    BY <1>1 DEF Post
  <2>2. queue \in Seq(E) /\ Len(queue) <= NUMEVENTS
    BY DEF TypeOK
  <2> HIDE DEF E, e
  <2>3. queue' \in Seq(E) /\ Len(queue') <= NUMEVENTS
    <3>1. CASE Len(queue) = NUMEVENTS
      BY <2>1, <2>2, <3>1
    <3>2. CASE Len(queue) # NUMEVENTS
      <4>1. /\ Append(queue, e) \in Seq(E) /\ Len(Append(queue, e)) = Len(queue) + 1
            /\ Len(queue) \in Nat
        BY <2>1, <2>2, AppendProperties, LenProperties
      <4> QED
        BY <2>1, <2>2, <3>2, <4>1, ProcessAssumption
    <3> QED
      BY <3>1, <3>2
  <2>4. stack' \in Seq(Frame) /\ Saved(stack') /\ Runner(stack', process_current')
    BY <2>1, CountedKeeps
  <2> QED
    BY <2>1, <2>3, <2>4 DEF TypeOK, list, polls, E
<1>2. ASSUME NEW p \in Proc, NEW ev \in UserEvent, PostSynch(p, ev)
      PROVE  IInv'
  <2> DEFINE f == [Blank EXCEPT !.op = "synch", !.saved = process_current]
  <2>1. /\ InHandler("synch") /\ UNCHANGED <<list, polls, queue>>
        /\ CallProcess(p, ev, Append(Counted, f), state)
    BY <1>2 DEF PostSynch
  <2>2. f \in Frame /\ f.op = "synch" /\ f.saved = process_current /\ Held(f)
    <3>1. f \in Frame
      BY BlankFrame, FrameFields, FrameUpdates DEF Restoring, TypeOK
    <3>2. f.op = "synch" /\ f.saved = process_current
      BY <3>1, BlankFrame DEF Frame
    <3> QED
      BY <3>1, <3>2 DEF Held, ThreadOp
  <2> HIDE DEF f
  <2>3. /\ Append(Counted, f) \in Seq(Frame) /\ Saved(Append(Counted, f))
        /\ KernelTop(Append(Counted, f))
    <3>1. /\ Counted \in Seq(Frame) /\ Saved(Counted)
          /\ f.saved = Counted[Len(Counted)].p
      BY <2>1, <2>2, CountedKeeps
    <3> QED
      BY <2>2, <3>1, PushStack DEF Restoring, KernelTop, ThreadOp
  <2>4. /\ stack' \in Seq(Frame) /\ Saved(stack') /\ Runner(stack', process_current')
        /\ process_current' \in Ptr
        /\ state' \in [Proc -> {"NONE", "RUNNING", "CALLED"}]
    BY <2>1, <2>3, CallKeeps, FrameFields DEF TypeOK
  <2> QED
    BY <2>1, <2>4 DEF TypeOK, list, polls
<1>3. ASSUME NEW p \in Proc, Start(p)
      PROVE  IInv'
  BY <1>3, CountedKeeps, StartKeeps DEF Start
<1>4. ASSUME NEW p \in Proc, Exit(p)
      PROVE  IInv'
  <2>1. InHandler("exit") /\ ExitProcess(p, process_current, Counted)
    BY <1>4 DEF Exit
  <2> QED
    BY <2>1, CountedKeeps, ExitKeeps DEF TypeOK
<1>5. ASSUME NEW p \in Proc, Poll(p)
      PROVE  IInv'
  <2>1. /\ InHandler("poll") /\ ProcessPoll(p) /\ stack' = Counted
        /\ UNCHANGED <<list, state, process_current, queue>>
    BY <1>5 DEF Poll
  <2>2. stack' \in Seq(Frame) /\ Saved(stack') /\ Runner(stack', process_current')
    BY <2>1, CountedKeeps
  <2> QED
    BY <2>1, <2>2 DEF ProcessPoll, TypeOK, list, polls
<1> QED
  BY <1>1, <1>2, <1>3, <1>4, <1>5

LEMMA EndedStep ==
  ASSUME IInv, ReturnEnded
  PROVE  IInv'
<1> USE DEF IInv
<1>1. /\ stack # << >> /\ Top.op = "call" /\ Top \in Frame /\ Top.p \in Proc
      /\ ExitProcess(Top.p, Top.p, Pop(stack))
  BY TopFrame, TopHeld DEF ReturnEnded, At, Held, ThreadOp
<1>2. Pop(stack) \in Seq(Frame) /\ Saved(Pop(stack)) /\ Runner(Pop(stack), process_current)
  BY <1>1, PopRunner DEF Restoring
<1> QED
  BY <1>1, <1>2, ExitKeeps, FrameFields

LEMMA InterruptStep ==
  ASSUME IInv, NEW p \in Proc, Interrupt(p)
  PROVE  IInv'
<1>1. ProcessPoll(p) /\ UNCHANGED <<list, state, process_current, queue, stack>>
  BY DEF Interrupt
<1> QED
  BY <1>1 DEF IInv, ProcessPoll, TypeOK, Saved, Runner, list, polls

-----------------------------------------------------------------------------
LEMMA InitHolds == Init => IInv
<1> SUFFICES ASSUME Init
             PROVE  IInv
  OBVIOUS
<1>1. PICK Boot \in SUBSET Proc : stack = <<[Blank EXCEPT !.op = "boot", !.due = Boot]>>
  BY DEF Init
<1> DEFINE f == [Blank EXCEPT !.op = "boot", !.due = Boot]
<1>2. f \in Frame /\ f.op = "boot" /\ Held(f)
  <2>1. f \in Frame
    BY BlankFrame, FrameFields, FrameUpdates
  <2>2. f.op = "boot"
    BY <2>1, BlankFrame DEF Frame
  <2> QED
    BY <2>1, <2>2 DEF Held, ThreadOp
<1> HIDE DEF f
<1>3. stack = <<f>>
  BY <1>1 DEF f
<1>4. stack \in Seq(Frame) /\ Saved(stack) /\ Runner(stack, process_current)
  BY <1>2, <1>3 DEF Saved, Restores, Runner, ThreadOp
<1>5. queue \in Seq([ev : UserEvent, p : Ptr]) /\ Len(queue) <= NUMEVENTS
  BY ProcessAssumption DEF Init
<1> QED
  BY <1>4, <1>5, FrameFields DEF Init, IInv, TypeOK

LEMMA StepKeeps == IInv /\ [Next]_vars => IInv'
<1> SUFFICES ASSUME IInv, [Next]_vars
             PROVE  IInv'
  OBVIOUS
<1>1. CASE Kernel
  BY <1>1, BootSteps, PollSteps, EventStep, BcastSteps, ExitSteps, ReturnSteps DEF Kernel
<1>2. CASE Handler
  BY <1>2, ReturnSteps, EndedStep, CallSteps DEF Handler
<1>3. CASE \E p \in Proc : Interrupt(p)
  BY <1>3, InterruptStep
<1>4. CASE UNCHANGED vars
  BY <1>4 DEF vars, IInv, TypeOK, Saved, Runner
<1> QED
  BY <1>1, <1>2, <1>3, <1>4 DEF Next

(* The kernel keeps its type: the queue its bound, the pointers and the    *)
(* activations their form, for every program of processes.                 *)
THEOREM KernelType == Spec => []TypeOK
<1>1. IInv => TypeOK
  BY DEF IInv
<1> QED
  BY <1>1, InitHolds, StepKeeps, PTL DEF Spec

(* PROCESS_CURRENT() in a handler is the handler's own process, at any     *)
(* depth of synchronous posts, starts and exits, for every program.        *)
THEOREM CurrentRuns == Spec => []CurrentIsRunner
<1>1. IInv => CurrentIsRunner
  BY DEF IInv, CurrentIsRunner, Runner, At, Top
<1> QED
  BY <1>1, InitHolds, StepKeeps, PTL DEF Spec

-----------------------------------------------------------------------------
(* The nodes met on the way from h when n holds the links.                 *)
Reach(n, h) == {q \in Proc : \A S \in SUBSET Proc :
                  (h \in S \cup {NULL} /\ \A x \in S : n[x] \in S \cup {NULL}) => q \in S}

Links == [Proc -> Ptr]

-----------------------------------------------------------------------------
(* A walk: it holds its start, is closed under the links, and is the least *)
(* such set.                                                               *)
LEMMA ReachLeast ==
  ASSUME NEW n \in Links, NEW h \in Ptr
  PROVE  /\ Reach(n, h) \in SUBSET Proc
         /\ h \in Reach(n, h) \cup {NULL}
         /\ \A x \in Reach(n, h) : n[x] \in Reach(n, h) \cup {NULL}
         /\ \A S \in SUBSET Proc :
              (h \in S \cup {NULL} /\ \A x \in S : n[x] \in S \cup {NULL})
                => Reach(n, h) \subseteq S
<1>1. Reach(n, h) \in SUBSET Proc
  BY DEF Reach
<1>2. h \in Reach(n, h) \cup {NULL}
  BY DEF Reach, Ptr
<1>3. ASSUME NEW x \in Reach(n, h), n[x] # NULL
      PROVE  n[x] \in Reach(n, h)
  <2>1. x \in Proc /\ n[x] \in Proc
    BY <1>1, <1>3 DEF Links, Ptr
  <2> QED
    BY <1>3, <2>1 DEF Reach
<1>4. ASSUME NEW S \in SUBSET Proc, h \in S \cup {NULL}, \A x \in S : n[x] \in S \cup {NULL}
      PROVE  Reach(n, h) \subseteq S
  BY <1>4 DEF Reach
<1> QED
  BY <1>1, <1>2, <1>3, <1>4

LEMMA ReachNull == ASSUME NEW n \in Links PROVE Reach(n, NULL) = {}
<1> DEFINE None == {}
<1>1. None \in SUBSET Proc /\ NULL \in None \cup {NULL} /\ NULL \in Ptr
  BY DEF Ptr
<1>2. \A x \in None : n[x] \in None \cup {NULL}
  OBVIOUS
<1> HIDE DEF None
<1>3. Reach(n, NULL) \subseteq None
  BY <1>1, <1>2, ReachLeast
<1> QED
  BY <1>3 DEF None

(* What lies ahead of a node on the way lies on the way.                   *)
LEMMA ReachAhead ==
  ASSUME NEW n \in Links, NEW h \in Ptr, NEW c \in Reach(n, h) \cup {NULL}
  PROVE  Reach(n, c) \subseteq Reach(n, h)
<1>1. c \in Ptr
  BY DEF Reach, Ptr
<1> QED
  BY <1>1, ReachLeast

(* The way from a node is the node and the way from its link.              *)
LEMMA ReachStep ==
  ASSUME NEW n \in Links, NEW c \in Proc
  PROVE  /\ c \in Reach(n, c)
         /\ Reach(n, c) = {c} \cup Reach(n, n[c])
<1>1. c \in Ptr /\ n[c] \in Ptr
  BY DEF Ptr, Links
<1>2. c \in Reach(n, c)
  BY <1>1, ReachLeast, ProcessAssumption
<1>3. Reach(n, n[c]) \subseteq Reach(n, c)
  BY <1>1, <1>2, ReachLeast, ReachAhead
<1>4. Reach(n, c) \subseteq {c} \cup Reach(n, n[c])
  <2> DEFINE T == {c} \cup Reach(n, n[c])
  <2>1. T \in SUBSET Proc /\ c \in T
    BY <1>1, ReachLeast
  <2>2. \A x \in T : n[x] \in T \cup {NULL}
    BY <1>1, ReachLeast
  <2> HIDE DEF T
  <2>3. Reach(n, c) \subseteq T
    BY <1>1, <2>1, <2>2, ReachLeast
  <2> QED
    BY <2>3 DEF T
<1> QED
  BY <1>2, <1>3, <1>4

(* Links that agree on the way lead the same way.                          *)
LEMMA ReachSame ==
  ASSUME NEW n \in Links, NEW m \in Links, NEW c \in Ptr,
         \A x \in Reach(n, c) : m[x] = n[x]
  PROVE  Reach(m, c) = Reach(n, c)
<1>1. Reach(m, c) \subseteq Reach(n, c)
  BY ReachLeast
<1>2. Reach(n, c) \subseteq Reach(m, c)
  <2> DEFINE T == Reach(m, c) \cap Reach(n, c)
  <2>1. T \in SUBSET Proc /\ c \in T \cup {NULL}
    BY ReachLeast
  <2>2. ASSUME NEW x \in T PROVE n[x] \in T \cup {NULL}
    <3>1. x \in Reach(m, c) /\ x \in Reach(n, c) /\ m[x] = n[x]
      OBVIOUS
    <3> QED
      BY <3>1, ReachLeast
  <2> HIDE DEF T
  <2>3. Reach(n, c) \subseteq T
    BY <2>1, <2>2, ReachLeast
  <2> QED
    BY <2>3 DEF T
<1> QED
  BY <1>1, <1>2

(* process_start puts a node in front.                                     *)
InFront(n, h, p) == [n EXCEPT ![p] = h]

LEMMA ReachFront ==
  ASSUME NEW n \in Links, NEW h \in Ptr, NEW p \in Proc, p \notin Reach(n, h)
  PROVE  /\ InFront(n, h, p) \in Links
         /\ InFront(n, h, p)[p] = h
         /\ \A x \in Proc \ {p} : InFront(n, h, p)[x] = n[x]
         /\ \A c \in Reach(n, h) \cup {NULL} : Reach(InFront(n, h, p), c) = Reach(n, c)
         /\ Reach(InFront(n, h, p), p) = {p} \cup Reach(n, h)
<1> DEFINE m == InFront(n, h, p)
<1>1. m \in Links /\ m[p] = h /\ \A x \in Proc \ {p} : m[x] = n[x]
  BY DEF Links, InFront
<1> HIDE DEF m
<1>2. ASSUME NEW c \in Ptr, Reach(n, c) \subseteq Reach(n, h)
      PROVE  Reach(m, c) = Reach(n, c)
  <2>1. \A x \in Reach(n, c) : m[x] = n[x]
    BY <1>1, <1>2, ReachLeast
  <2> QED
    BY <1>1, <2>1, ReachSame
<1>3. ASSUME NEW c \in Reach(n, h) \cup {NULL}
      PROVE  Reach(m, c) = Reach(n, c)
  <2>1. c \in Ptr
    BY <1>3 DEF Reach, Ptr
  <2> QED
    BY <1>2, <1>3, <2>1, ReachAhead
<1>4. Reach(m, h) = Reach(n, h)
  BY <1>2
<1>5. Reach(m, p) = {p} \cup Reach(m, h)
  <2>1. Reach(m, p) = {p} \cup Reach(m, m[p])
    BY <1>1, ReachStep
  <2> QED
    BY <1>1, <2>1
<1> QED
  BY <1>1, <1>3, <1>4, <1>5 DEF m

(* exit_process takes a node out, wherever it is: every other node on the  *)
(* way from a node that stays, or from the one that goes, is still met.    *)
Without(n, h, p) == [q \in Proc |-> IF q \in Reach(n, h) /\ n[q] = p THEN n[p] ELSE n[q]]

LEMMA ReachWithout ==
  ASSUME NEW n \in Links, NEW h \in Ptr, NEW p \in Proc,
         NEW c \in Reach(n, h) \cup {NULL}
  PROVE  /\ Without(n, h, p) \in Links
         /\ Reach(Without(n, h, p), c) \subseteq Reach(n, c)
         /\ c # p => Reach(n, c) \ {p} \subseteq Reach(Without(n, h, p), c)
<1> DEFINE m == Without(n, h, p)
<1>1. /\ m \in Links
      /\ \A q \in Reach(n, h) : m[q] = IF n[q] = p THEN n[p] ELSE n[q]
  BY DEF Without, Links, Reach
<1>2. c \in Ptr /\ Reach(n, c) \subseteq Reach(n, h)
  BY ReachAhead DEF Reach, Ptr
<1> HIDE DEF m
<1>3. Reach(m, c) \subseteq Reach(n, c)
  <2>1. ASSUME NEW x \in Reach(n, c) PROVE m[x] \in Reach(n, c) \cup {NULL}
    <3>1. x \in Reach(n, h) /\ n[x] \in Reach(n, c) \cup {NULL}
      BY <1>2, ReachLeast
    <3>2. CASE n[x] = p
      <4>1. p \in Reach(n, c)
        BY <3>1, <3>2, ProcessAssumption
      <4> QED
        BY <1>1, <1>2, <3>1, <3>2, <4>1, ReachLeast
    <3>3. CASE n[x] # p
      BY <1>1, <3>1, <3>3
    <3> QED
      BY <3>2, <3>3
  <2>2. Reach(n, c) \in SUBSET Proc /\ c \in Reach(n, c) \cup {NULL}
    BY <1>2, ReachLeast
  <2> QED
    BY <1>1, <1>2, <2>1, <2>2, ReachLeast
<1>4. ASSUME c # p
      PROVE  Reach(n, c) \ {p} \subseteq Reach(m, c)
  <2> DEFINE T == Reach(m, c) \cap Reach(n, c)
  <2>1. /\ T \in SUBSET Proc /\ c \in T \cup {NULL} /\ T \subseteq Reach(n, h)
        /\ \A x \in T : /\ n[x] \in Reach(n, c) \cup {NULL}
                        /\ m[x] \in Reach(m, c) \cup {NULL}
    BY <1>1, <1>2, ReachLeast
  <2>2. ASSUME NEW x \in T, n[x] # p
        PROVE  n[x] \in T \cup {NULL}
    BY <1>1, <2>1, <2>2
  <2>3. ASSUME NEW x \in T, n[x] = p
        PROVE  /\ p \in Reach(n, c)
               /\ n[p] \in T \cup {p} \cup {NULL}
    <3>1. p \in Reach(n, c)
      BY <2>1, <2>3, ProcessAssumption
    <3>2. n[p] \in Reach(n, c) \cup {NULL}
      BY <1>2, <3>1, ReachLeast
    <3>3. m[x] = n[p]
      BY <1>1, <2>1, <2>3
    <3> QED
      BY <2>1, <3>1, <3>2, <3>3
  <2> HIDE DEF T
  <2>4. CASE \A x \in T : n[x] # p
    <3>1. Reach(n, c) \subseteq T
      BY <1>2, <2>1, <2>2, <2>4, ReachLeast
    <3> QED
      BY <3>1 DEF T
  <2>5. CASE \E x \in T : n[x] = p
    <3> DEFINE U == T \cup {p}
    <3>1. \A x \in U : n[x] \in U \cup {NULL}
      BY <2>2, <2>3, <2>5
    <3>2. U \in SUBSET Proc /\ c \in U \cup {NULL}
      BY <2>1
    <3> HIDE DEF U
    <3>3. Reach(n, c) \subseteq U
      BY <1>2, <3>1, <3>2, ReachLeast
    <3> QED
      BY <3>3 DEF T, U
  <2> QED
    BY <2>4, <2>5
<1> QED
  BY <1>1, <1>3, <1>4 DEF m

(* No node is met twice on a way.                                          *)
NoCycle(n, h) == \A x \in Reach(n, h) : x \notin Reach(n, n[x])

LEMMA FrontKeeps ==
  ASSUME NEW n \in Links, NEW h \in Ptr, NEW p \in Proc, p \notin Reach(n, h),
         NoCycle(n, h)
  PROVE  NoCycle(InFront(n, h, p), p)
<1> DEFINE m == InFront(n, h, p)
<1>1. /\ m \in Links /\ m[p] = h /\ \A x \in Proc \ {p} : m[x] = n[x]
      /\ \A c \in Reach(n, h) \cup {NULL} : Reach(m, c) = Reach(n, c)
      /\ Reach(m, p) = {p} \cup Reach(n, h)
  BY ReachFront
<1> HIDE DEF m
<1>2. p \notin Reach(m, m[p])
  <2>1. Reach(m, h) = Reach(n, h)
    BY <1>1, ReachLeast
  <2> QED
    BY <1>1, <2>1
<1>3. ASSUME NEW x \in Reach(n, h)
      PROVE  x \notin Reach(m, m[x])
  <2>1. m[x] = n[x] /\ n[x] \in Reach(n, h) \cup {NULL} /\ x \in Proc
    BY <1>1, ReachLeast
  <2>2. Reach(m, n[x]) = Reach(n, n[x])
    BY <1>1, <2>1
  <2> QED
    BY <2>1, <2>2 DEF NoCycle
<1> QED
  BY <1>1, <1>2, <1>3 DEF NoCycle, m

(* The list after exit_process has taken p out, at the head or not: it     *)
(* holds the other nodes, and from each node of the old list, p too, the   *)
(* link leads on to what was ahead.                                        *)
LEMMA Removed ==
  ASSUME NEW n \in Links, NEW h \in Ptr, NEW p \in Reach(n, h), NoCycle(n, h),
         NEW m, NEW g,
         IF p = h THEN g = n[p] /\ m = n ELSE g = h /\ m = Without(n, h, p)
  PROVE  /\ m \in Links /\ g \in Ptr
         /\ Reach(m, g) = Reach(n, h) \ {p}
         /\ NoCycle(m, g)
         /\ \A c \in Reach(n, h) : /\ m[c] \in Reach(m, g) \cup {NULL}
                                  /\ Reach(n, n[c]) \ {p} \subseteq Reach(m, m[c])
<1>1. /\ p \in Proc /\ p # NULL /\ n[p] # p
      /\ \A x \in Reach(n, h) : x \in Proc /\ n[x] \in Reach(n, h) \cup {NULL}
  <2>1. p \in Proc /\ \A x \in Reach(n, h) : x \in Proc /\ n[x] \in Reach(n, h) \cup {NULL}
    BY ReachLeast
  <2>2. p \notin Reach(n, n[p])
    BY DEF NoCycle
  <2>3. p \in Reach(n, p)
    BY <2>1, ReachStep
  <2> QED
    BY <2>1, <2>2, <2>3, ProcessAssumption
<1>2. /\ m \in Links /\ g \in Ptr
      /\ \A c \in Reach(n, h) \cup {NULL} :
           /\ Reach(m, c) \subseteq Reach(n, c)
           /\ c # p => Reach(n, c) \ {p} \subseteq Reach(m, c)
  <2>1. CASE p = h
    BY <1>1, <2>1 DEF Links
  <2>2. CASE p # h
    BY <1>1, <2>2, ReachWithout
  <2> QED
    BY <2>1, <2>2
<1>3. /\ \A c \in Reach(n, h) : m[c] = IF n[c] = p THEN n[p] ELSE n[c]
  <2>1. CASE p # h
    BY <1>1, <2>1 DEF Without
  <2>2. CASE p = h
    <3>1. ASSUME NEW c \in Reach(n, h)
          PROVE  n[c] # p
      <4>1. CASE c = p
        BY <1>1, <4>1
      <4>2. CASE c # p
        <5>1. c \in Reach(n, n[p])
          BY <1>1, <2>2, <4>2, ReachStep
        <5>2. n[p] \in Ptr
          BY <1>1 DEF Links
        <5>3. n[c] \in Reach(n, n[p]) \cup {NULL}
          BY <5>1, <5>2, ReachLeast
        <5>4. p \notin Reach(n, n[p])
          BY DEF NoCycle
        <5> QED
          BY <1>1, <5>3, <5>4
      <4> QED
        BY <4>1, <4>2
    <3> QED
      BY <2>2, <3>1
  <2> QED
    BY <2>1, <2>2
<1>4. Reach(m, g) = Reach(n, h) \ {p}
  <2>1. CASE p = h
    <3>1. m = n /\ g = n[p] /\ Reach(n, p) = {p} \cup Reach(n, n[p])
      BY <1>1, <2>1, ReachStep
    <3>2. p \notin Reach(n, n[p])
      BY DEF NoCycle
    <3> QED
      BY <2>1, <3>1, <3>2
  <2>2. CASE p # h
    <3>1. g = h /\ h \in Reach(n, h) \cup {NULL}
      BY <2>2, ReachLeast
    <3>2. /\ Reach(m, h) \subseteq Reach(n, h)
          /\ Reach(n, h) \ {p} \subseteq Reach(m, h)
      BY <1>2, <2>2, <3>1
    <3>3. p \notin Reach(m, h)
      <4> DEFINE T == Reach(n, h) \ {p}
      <4>1. T \in SUBSET Proc /\ h \in T \cup {NULL}
        BY <1>1, <2>2, <3>1
      <4>2. ASSUME NEW x \in T PROVE m[x] \in T \cup {NULL}
        BY <1>1, <1>3
      <4> HIDE DEF T
      <4>3. Reach(m, h) \subseteq T
        BY <1>2, <4>1, <4>2, ReachLeast
      <4> QED
        BY <4>3 DEF T
    <3> QED
      BY <3>1, <3>2, <3>3
  <2> QED
    BY <2>1, <2>2
<1>5. NoCycle(m, g)
  <2> SUFFICES ASSUME NEW x \in Reach(n, h) \ {p}
               PROVE  x \notin Reach(m, m[x])
    BY <1>4 DEF NoCycle
  <2>1. x \notin Reach(n, n[x])
    BY DEF NoCycle
  <2>2. CASE n[x] = p
    <3>1. m[x] = n[p] /\ n[p] \in Reach(n, h) \cup {NULL}
      BY <1>1, <1>3, <2>2
    <3>2. Reach(m, n[p]) \subseteq Reach(n, n[p])
      BY <1>2, <3>1
    <3>3. Reach(n, n[p]) \subseteq Reach(n, p)
      BY <1>1, ReachStep
    <3> QED
      BY <2>1, <2>2, <3>1, <3>2, <3>3
  <2>3. CASE n[x] # p
    <3>1. m[x] = n[x] /\ n[x] \in Reach(n, h) \cup {NULL}
      BY <1>1, <1>3, <2>3
    <3>2. Reach(m, n[x]) \subseteq Reach(n, n[x])
      BY <1>2, <3>1
    <3> QED
      BY <2>1, <3>1, <3>2
  <2> QED
    BY <2>2, <2>3
<1>6. ASSUME NEW c \in Reach(n, h)
      PROVE  /\ m[c] \in Reach(m, g) \cup {NULL}
             /\ Reach(n, n[c]) \ {p} \subseteq Reach(m, m[c])
  <2>1. CASE n[c] = p
    <3>1. m[c] = n[p] /\ n[p] \in Reach(n, h) \cup {NULL} /\ n[p] # p
      BY <1>1, <1>3, <2>1
    <3>2. Reach(n, n[p]) \ {p} \subseteq Reach(m, n[p])
      BY <1>2, <3>1
    <3>3. Reach(n, p) = {p} \cup Reach(n, n[p])
      BY <1>1, ReachStep
    <3> QED
      BY <1>4, <2>1, <3>1, <3>2, <3>3
  <2>2. CASE n[c] # p
    <3>1. m[c] = n[c] /\ n[c] \in Reach(n, h) \cup {NULL}
      BY <1>1, <1>3, <2>2
    <3>2. Reach(n, n[c]) \ {p} \subseteq Reach(m, n[c])
      BY <1>2, <2>2, <3>1
    <3> QED
      BY <1>4, <2>2, <3>1, <3>2
  <2> QED
    BY <2>1, <2>2
<1> QED
  BY <1>2, <1>4, <1>5, <1>6

-----------------------------------------------------------------------------
(* The activations that hold a process: calls of its handler, and its end. *)
ExitOp == {"exit", "told", "unlink"}
Busy == {"call"} \cup ExitOp

(* The state of a process says which activation holds it.                  *)
Marks(s, st) ==
  /\ \A p \in Proc : st[p] = "CALLED" =>
       \E i \in 1 .. Len(s) : s[i].op = "call" /\ s[i].p = p
  /\ \A i \in 1 .. Len(s) : s[i].op = "call" => st[s[i].p] = "CALLED"
  /\ \A i \in 1 .. Len(s) : s[i].op \in ExitOp => st[s[i].p] = "NONE"

(* What lies on what: main and do_event at the bottom, do_poll on nothing  *)
(* but these, so that no handler is suspended below it; each process held  *)
(* once; a polled process stays held until its poll has returned.          *)
Nests(s) ==
  /\ \A i, j \in 1 .. Len(s) :
       s[i].op \in Busy /\ s[j].op \in Busy /\ s[i].p = s[j].p => i = j
  /\ \A i \in 1 .. Len(s) : s[i].op = "direct" =>
       i - 1 \in 1 .. Len(s) /\ s[i - 1].op = "unlink" /\ s[i - 1].p = s[i].p
  /\ \A i \in 1 .. Len(s) :
       s[i].op \in {"boot", "event", "bcast", "deliver", "delivered"} => i = 1
  /\ \A i \in 1 .. Len(s) :
       s[i].op \in {"poll", "polled"} => i = 2 /\ s[1].op \in {"event", "deliver"}
  /\ \A i \in 1 .. Len(s) - 1 :
       /\ s[i].op # "poll"
       /\ s[i].op = "polled" => s[i + 1].op \in Busy /\ s[i + 1].p = s[i].cur

(* The list: who runs or is being taken out is on it, nobody else, once.   *)
Linked(s, st, n, h) ==
  /\ \A p \in Proc : st[p] # "NONE" => p \in Reach(n, h)
  /\ \A i \in 1 .. Len(s) : s[i].op \in ExitOp => s[i].p \in Reach(n, h)
  /\ \A p \in Reach(n, h) : st[p] = "NONE" =>
       \E i \in 1 .. Len(s) : s[i].op \in ExitOp /\ s[i].p = p
  /\ NoCycle(n, h)

(* do_poll walks the list, also when it has just polled a process that     *)
(* ended: the link of that one still leads to the list.                    *)
Walks(s, n, h) ==
  /\ \A i \in 1 .. Len(s) : s[i].op = "poll" => s[i].cur \in Reach(n, h) \cup {NULL}
  /\ \A i \in 1 .. Len(s) : s[i].op = "polled" => n[s[i].cur] \in Reach(n, h) \cup {NULL}

Shaped(s, st, n, h) == Marks(s, st) /\ Nests(s) /\ Linked(s, st, n, h) /\ Walks(s, n, h)

States == [Proc -> {"NONE", "RUNNING", "CALLED"}]

(* The last activation of a stack.                                         *)
Last(s) == s[Len(s)]

-----------------------------------------------------------------------------
(* Stacks activation by activation.                                        *)
LEMMA Frames ==
  ASSUME NEW s \in Seq(Frame), Saved(s)
  PROVE  /\ Len(s) \in Nat
         /\ s # << >> => Len(s) \in 1 .. Len(s)
         /\ \A i \in 1 .. Len(s) :
              /\ s[i] \in Frame /\ s[i].op \in Op /\ s[i].p \in Ptr /\ s[i].cur \in Ptr
              /\ s[i].op \in Busy \cup {"direct"} => s[i].p \in Proc
              /\ s[i].op = "polled" => s[i].cur \in Proc
<1>1. /\ Len(s) \in Nat /\ s # << >> => Len(s) # 0
      /\ \A i \in 1 .. Len(s) : s[i] \in Frame
  BY EmptySeq, ElementOfSeq, LenProperties
<1>2. \A i \in 1 .. Len(s) : Held(s[i])
  BY DEF Saved
<1> QED
  BY <1>1, <1>2, FrameFields DEF Held, Busy, ExitOp, ThreadOp

LEMMA Pushed ==
  ASSUME NEW s \in Seq(Frame), NEW f \in Frame
  PROVE  /\ Len(Append(s, f)) = Len(s) + 1
         /\ Append(s, f)[Len(s) + 1] = f
         /\ \A i \in 1 .. Len(s) : Append(s, f)[i] = s[i]
         /\ \A i \in 1 .. Len(s) + 1 : i # Len(s) + 1 => i \in 1 .. Len(s)
BY LenProperties, AppendProperties

LEMMA Popped ==
  ASSUME NEW s \in Seq(Frame), s # << >>
  PROVE  /\ Len(Pop(s)) = Len(s) - 1
         /\ \A i \in 1 .. Len(s) - 1 : Pop(s)[i] = s[i] /\ i \in 1 .. Len(s)
         /\ \A i \in 1 .. Len(s) : i # Len(s) => i \in 1 .. Len(s) - 1
<1>1. /\ Len(s) \in Nat \ {0} /\ Len(s) - 1 \in Nat
      /\ \A i \in 1 .. Len(s) : s[i] \in Frame
  BY EmptySeq, ElementOfSeq, LenProperties
<1>2. ASSUME NEW n \in Nat, \A i \in 1 .. n : s[i] \in Frame
      PROVE  /\ Len(SubSeq(s, 1, n)) = n
             /\ \A i \in 1 .. n : SubSeq(s, 1, n)[i] = s[i]
  <2>1. /\ Len(SubSeq(s, 1, n)) = IF 1 <= n THEN n - 1 + 1 ELSE 0
        /\ \A i \in 1 .. n - 1 + 1 : SubSeq(s, 1, n)[i] = s[1 + i - 1]
    BY <1>2, SubSeqProperties, Z3
  <2> QED
    BY <2>1
<1>3. \A i \in 1 .. Len(s) - 1 : i \in 1 .. Len(s) /\ s[i] \in Frame
  BY <1>1
<1>4. /\ Len(SubSeq(s, 1, Len(s) - 1)) = Len(s) - 1
      /\ \A i \in 1 .. Len(s) - 1 : SubSeq(s, 1, Len(s) - 1)[i] = s[i]
  <2> DEFINE k == Len(s) - 1
  <2>1. k \in Nat /\ \A i \in 1 .. k : s[i] \in Frame
    BY <1>1, <1>3
  <2> HIDE DEF k
  <2>2. /\ Len(SubSeq(s, 1, k)) = k
        /\ \A i \in 1 .. k : SubSeq(s, 1, k)[i] = s[i]
    BY <1>2, <2>1
  <2> QED
    BY <2>2 DEF k
<1> QED
  BY <1>1, <1>3, <1>4 DEF Pop

LEMMA Replaced ==
  ASSUME stack \in Seq(Frame), stack # << >>, NEW f \in Frame
  PROVE  /\ Len(Goto(f)) = Len(stack)
         /\ Goto(f)[Len(stack)] = f
         /\ \A i \in 1 .. Len(stack) : i # Len(stack) => Goto(f)[i] = stack[i]
<1>1. Len(stack) \in Nat \ {0}
  BY EmptySeq, LenProperties
<1>2. /\ Len(Goto(f)) = Len(stack)
      /\ \A j \in 1 .. Len(stack) : Goto(f)[j] = IF j = Len(stack) THEN f ELSE stack[j]
  BY <1>1, ExceptSeq DEF Goto
<1> QED
  BY <1>1, <1>2

-----------------------------------------------------------------------------
(* A running process becomes held: it is called, or its exit begins.       *)
LEMMA HoldShape ==
  ASSUME NEW s \in Seq(Frame), Saved(s), NEW st \in States, NEW n \in Links, NEW h \in Ptr,
         Shaped(s, st, n, h), NEW p \in Proc, st[p] = "RUNNING",
         NEW f \in Frame, f.p = p, NEW v,
         \/ f.op = "call" /\ v = "CALLED"
         \/ f.op = "exit" /\ v = "NONE",
         s # << >> => /\ Last(s).op # "poll"
                      /\ Last(s).op = "polled" => Last(s).cur = p
  PROVE  Shaped(Append(s, f), [st EXCEPT ![p] = v], n, h)
<1> DEFINE t == Append(s, f)
           sv == [st EXCEPT ![p] = v]
<1>1. /\ Len(s) \in Nat /\ Len(t) = Len(s) + 1 /\ t[Len(s) + 1] = f
      /\ \A i \in 1 .. Len(s) : /\ t[i] = s[i]
                                /\ s[i].op \in Busy \cup {"direct"} => s[i].p \in Proc
      /\ \A i \in 1 .. Len(s) + 1 : i # Len(s) + 1 => i \in 1 .. Len(s)
  BY Pushed, Frames
<1>2. /\ sv[p] = v /\ \A q \in Proc \ {p} : sv[q] = st[q]
      /\ sv \in States
  BY DEF States
<1>3. \A i \in 1 .. Len(s) : s[i].op \in Busy => s[i].p # p
  <2> SUFFICES ASSUME NEW i \in 1 .. Len(s), s[i].op \in Busy, s[i].p = p
               PROVE  FALSE
    OBVIOUS
  <2> QED
    BY DEF Shaped, Marks, Busy
<1> HIDE DEF t, sv
<1>4. Marks(t, sv)
  <2>1. ASSUME NEW q \in Proc, sv[q] = "CALLED"
        PROVE  \E i \in 1 .. Len(t) : t[i].op = "call" /\ t[i].p = q
    <3>1. CASE q = p
      BY <1>1, <1>2, <2>1, <3>1
    <3>2. CASE q # p
      <4>1. PICK i \in 1 .. Len(s) : s[i].op = "call" /\ s[i].p = q
        BY <1>2, <2>1, <3>2 DEF Shaped, Marks
      <4> QED
        BY <1>1, <4>1
    <3> QED
      BY <3>1, <3>2
  <2>2. ASSUME NEW i \in 1 .. Len(t)
        PROVE  /\ t[i].op = "call" => sv[t[i].p] = "CALLED"
               /\ t[i].op \in ExitOp => sv[t[i].p] = "NONE"
    <3>1. CASE i = Len(s) + 1
      BY <1>1, <1>2, <3>1 DEF ExitOp
    <3>2. CASE i # Len(s) + 1
      BY <1>1, <1>2, <1>3, <3>2 DEF Shaped, Marks, Busy
    <3> QED
      BY <3>1, <3>2
  <2> QED
    BY <2>1, <2>2 DEF Marks
<1>5. Nests(t)
  <2>1. ASSUME NEW i \in 1 .. Len(t), NEW j \in 1 .. Len(t),
               t[i].op \in Busy, t[j].op \in Busy, t[i].p = t[j].p
        PROVE  i = j
    BY <1>1, <1>3, <2>1 DEF Shaped, Nests
  <2>2. ASSUME NEW i \in 1 .. Len(t)
        PROVE  /\ t[i].op = "direct" =>
                    i - 1 \in 1 .. Len(t) /\ t[i - 1].op = "unlink" /\ t[i - 1].p = t[i].p
               /\ t[i].op \in {"boot", "event", "bcast", "deliver", "delivered"} => i = 1
               /\ t[i].op \in {"poll", "polled"} => i = 2 /\ t[1].op \in {"event", "deliver"}
    <3>1. CASE i = Len(s) + 1
      BY <1>1, <3>1
    <3>2. CASE i # Len(s) + 1
      <4>1. i \in 1 .. Len(s) /\ t[i] = s[i] /\ 1 \in 1 .. Len(s) /\ t[1] = s[1]
        BY <1>1, <3>2
      <4>2. \A j \in 1 .. Len(s) : j \in 1 .. Len(t) /\ t[j] = s[j]
        BY <1>1
      <4> QED
        BY <4>1, <4>2 DEF Shaped, Nests
    <3> QED
      BY <3>1, <3>2
  <2>3. ASSUME NEW i \in 1 .. Len(t) - 1
        PROVE  /\ t[i].op # "poll"
               /\ t[i].op = "polled" => t[i + 1].op \in Busy /\ t[i + 1].p = t[i].cur
    <3>1. i \in 1 .. Len(s) /\ t[i] = s[i]
      BY <1>1
    <3>2. CASE i = Len(s)
      <4>1. s # << >> /\ Last(s) = s[i] /\ t[i + 1] = f
        BY <1>1, <3>2, EmptySeq DEF Last
      <4> QED
        BY <3>1, <4>1 DEF Busy, ExitOp
    <3>3. CASE i # Len(s)
      <4>1. i \in 1 .. Len(s) - 1 /\ t[i + 1] = s[i + 1]
        BY <1>1, <3>1, <3>3
      <4> QED
        BY <3>1, <4>1 DEF Shaped, Nests
    <3> QED
      BY <3>2, <3>3
  <2> QED
    BY <2>1, <2>2, <2>3 DEF Nests
<1>6. Linked(t, sv, n, h)
  <2>1. \A q \in Proc : sv[q] # "NONE" => q \in Reach(n, h)
    BY <1>2 DEF Shaped, Linked
  <2>2. p \in Reach(n, h)
    BY DEF Shaped, Linked
  <2>3. \A i \in 1 .. Len(t) : t[i].op \in ExitOp => t[i].p \in Reach(n, h)
    BY <1>1, <2>2 DEF Shaped, Linked
  <2>4. ASSUME NEW q \in Reach(n, h), sv[q] = "NONE"
        PROVE  \E i \in 1 .. Len(t) : t[i].op \in ExitOp /\ t[i].p = q
    <3>1. CASE q = p
      <4>1. f.op \in ExitOp
        BY <1>2, <2>4, <3>1 DEF ExitOp
      <4> QED
        BY <1>1, <3>1, <4>1
    <3>2. CASE q # p
      <4>1. q \in Proc /\ st[q] = "NONE"
        BY <1>2, <2>4, <3>2, ReachLeast
      <4>2. PICK i \in 1 .. Len(s) : s[i].op \in ExitOp /\ s[i].p = q
        BY <4>1 DEF Shaped, Linked
      <4> QED
        BY <1>1, <4>2
    <3> QED
      BY <3>1, <3>2
  <2> QED
    BY <2>1, <2>3, <2>4 DEF Shaped, Linked
<1>7. Walks(t, n, h)
  BY <1>1 DEF Shaped, Walks
<1> QED
  BY <1>4, <1>5, <1>6, <1>7 DEF Shaped, t, sv

(* An activation that holds nobody: a post, a poll walk at the bottom, or  *)
(* the exiting process's own handler.                                      *)
LEMMA PushShape ==
  ASSUME NEW s \in Seq(Frame), Saved(s), NEW st, NEW n, NEW h, Shaped(s, st, n, h),
         NEW f \in Frame, s # << >>, Last(s).op \notin {"poll", "polled"},
         \/ f.op = "synch"
         \/ /\ f.op = "poll" /\ f.cur \in Reach(n, h) \cup {NULL}
            /\ Last(s).op \in {"event", "deliver"}
         \/ f.op = "direct" /\ Last(s).op = "unlink" /\ Last(s).p = f.p
  PROVE  Shaped(Append(s, f), st, n, h)
<1> DEFINE t == Append(s, f)
<1>1. /\ Len(s) \in Nat /\ Len(t) = Len(s) + 1 /\ t[Len(s) + 1] = f
      /\ \A i \in 1 .. Len(s) : t[i] = s[i] /\ i \in 1 .. Len(t)
      /\ \A i \in 1 .. Len(t) : i # Len(s) + 1 => i \in 1 .. Len(s)
      /\ Len(s) \in 1 .. Len(s) /\ Last(s) = s[Len(s)]
  BY Pushed, Frames DEF Last
<1>2. f.op \notin Busy
  BY DEF Busy, ExitOp
<1> HIDE DEF t
<1>3. Marks(t, st)
  BY <1>1, <1>2 DEF Shaped, Marks, Busy
<1>4. Nests(t)
  <2>1. ASSUME NEW i \in 1 .. Len(t), NEW j \in 1 .. Len(t),
               t[i].op \in Busy, t[j].op \in Busy, t[i].p = t[j].p
        PROVE  i = j
    BY <1>1, <1>2, <2>1 DEF Shaped, Nests
  <2>2. ASSUME NEW i \in 1 .. Len(t)
        PROVE  /\ t[i].op = "direct" =>
                    i - 1 \in 1 .. Len(t) /\ t[i - 1].op = "unlink" /\ t[i - 1].p = t[i].p
               /\ t[i].op \in {"boot", "event", "bcast", "deliver", "delivered"} => i = 1
               /\ t[i].op \in {"poll", "polled"} => i = 2 /\ t[1].op \in {"event", "deliver"}
    <3>1. CASE i = Len(s) + 1
      <4>1. t[i] = f /\ i - 1 = Len(s) /\ t[i - 1] = Last(s) /\ i - 1 \in 1 .. Len(t)
        BY <1>1, <3>1
      <4>2. CASE f.op = "poll"
        <5>1. Len(s) = 1
          BY <1>1, <4>2 DEF Shaped, Nests
        <5> QED
          BY <3>1, <4>1, <4>2, <5>1
      <4> QED
        BY <4>1, <4>2
    <3>2. CASE i # Len(s) + 1
      <4>1. i \in 1 .. Len(s) /\ t[i] = s[i] /\ 1 \in 1 .. Len(s) /\ t[1] = s[1]
        BY <1>1, <3>2
      <4> QED
        BY <1>1, <4>1 DEF Shaped, Nests
    <3> QED
      BY <3>1, <3>2
  <2>3. ASSUME NEW i \in 1 .. Len(t) - 1
        PROVE  /\ t[i].op # "poll"
               /\ t[i].op = "polled" => t[i + 1].op \in Busy /\ t[i + 1].p = t[i].cur
    <3>1. i \in 1 .. Len(s) /\ t[i] = s[i]
      BY <1>1
    <3>2. CASE i = Len(s)
      BY <1>1, <3>1, <3>2
    <3>3. CASE i # Len(s)
      <4>1. i \in 1 .. Len(s) - 1 /\ t[i + 1] = s[i + 1]
        BY <1>1, <3>1, <3>3
      <4> QED
        BY <3>1, <4>1 DEF Shaped, Nests
    <3> QED
      BY <3>2, <3>3
  <2> QED
    BY <2>1, <2>2, <2>3 DEF Nests
<1>5. Linked(t, st, n, h)
  BY <1>1, <1>2 DEF Shaped, Linked, Busy
<1>6. Walks(t, n, h)
  BY <1>1 DEF Shaped, Walks
<1> QED
  BY <1>3, <1>4, <1>5, <1>6 DEF Shaped, t

(* An activation goes on: it keeps its place in the nesting.               *)
Kin(e, f) ==
  /\ e.op = "call" <=> f.op = "call"
  /\ e.op \in ExitOp <=> f.op \in ExitOp
  /\ f.op \in Busy \cup {"direct"} => e.p = f.p
  /\ f.op = "direct" => e.op = "direct"
  /\ f.op \in {"boot", "event", "bcast", "deliver", "delivered"} =>
       e.op \in {"boot", "event", "bcast", "deliver", "delivered"}
  /\ f.op \in {"poll", "polled"} => e.op \in {"poll", "polled"}

LEMMA GotoShape ==
  ASSUME stack \in Seq(Frame), stack # << >>, Saved(stack), NEW st, NEW n, NEW h,
         Shaped(stack, st, n, h), NEW f \in Frame, Kin(Top, f),
         f.op = "poll" => f.cur \in Reach(n, h) \cup {NULL},
         f.op = "polled" => n[f.cur] \in Reach(n, h) \cup {NULL}
  PROVE  Shaped(Goto(f), st, n, h) /\ Goto(f) # << >> /\ Last(Goto(f)) = f
<1> DEFINE t == Goto(f)
           l == Len(stack)
<1>1. /\ l \in Nat /\ Len(t) = l /\ t[l] = f /\ l \in 1 .. l /\ stack[l] = Top
      /\ \A i \in 1 .. l : i # l => t[i] = stack[i]
  BY Replaced, Frames DEF Top
<1>2. \A i \in 1 .. l : /\ t[i].op = "call" <=> stack[i].op = "call"
                        /\ t[i].op \in ExitOp <=> stack[i].op \in ExitOp
                        /\ t[i].op \in Busy <=> stack[i].op \in Busy
                        /\ t[i].op \in Busy \cup {"direct"} => t[i].p = stack[i].p
  BY <1>1 DEF Kin, Busy
<1> HIDE DEF t, l
<1>3. Marks(t, st)
  BY <1>1, <1>2 DEF Shaped, Marks, Busy, l
<1>4. Nests(t)
  <2>0. l = Len(stack)
    BY DEF l
  <2>1. ASSUME NEW i \in 1 .. Len(t), NEW j \in 1 .. Len(t),
               t[i].op \in Busy, t[j].op \in Busy, t[i].p = t[j].p
        PROVE  i = j
    BY <1>1, <1>2, <2>0, <2>1 DEF Shaped, Nests
  <2>2. ASSUME NEW i \in 1 .. Len(t), t[i].op = "direct"
        PROVE  i - 1 \in 1 .. Len(t) /\ t[i - 1].op = "unlink" /\ t[i - 1].p = t[i].p
    <3>1. stack[i].op = "direct" /\ t[i].p = stack[i].p
      BY <1>1, <1>2, <2>2 DEF Kin
    <3>2. i - 1 \in 1 .. l /\ stack[i - 1].op = "unlink" /\ stack[i - 1].p = stack[i].p
      BY <1>1, <2>0, <3>1 DEF Shaped, Nests
    <3>3. i - 1 # l
      BY <1>1
    <3> QED
      BY <1>1, <3>1, <3>2, <3>3
  <2>3. ASSUME NEW i \in 1 .. Len(t)
        PROVE  /\ t[i].op \in {"boot", "event", "bcast", "deliver", "delivered"} => i = 1
               /\ t[i].op \in {"poll", "polled"} => i = 2 /\ t[1].op \in {"event", "deliver"}
    <3>1. /\ t[i].op \in {"boot", "event", "bcast", "deliver", "delivered"} =>
               stack[i].op \in {"boot", "event", "bcast", "deliver", "delivered"}
          /\ t[i].op \in {"poll", "polled"} => stack[i].op \in {"poll", "polled"}
      BY <1>1 DEF Kin
    <3>2. /\ stack[i].op \in {"boot", "event", "bcast", "deliver", "delivered"} => i = 1
          /\ stack[i].op \in {"poll", "polled"} =>
               i = 2 /\ stack[1].op \in {"event", "deliver"}
      BY <1>1, <2>0 DEF Shaped, Nests
    <3>3. i = 2 => t[1] = stack[1]
      BY <1>1
    <3> QED
      BY <3>1, <3>2, <3>3
  <2>4. ASSUME NEW i \in 1 .. Len(t) - 1
        PROVE  /\ t[i].op # "poll"
               /\ t[i].op = "polled" => t[i + 1].op \in Busy /\ t[i + 1].p = t[i].cur
    <3>1. i \in 1 .. l - 1 /\ i + 1 \in 1 .. l /\ t[i] = stack[i]
      BY <1>1
    <3> QED
      BY <1>2, <2>0, <3>1 DEF Shaped, Nests
  <2> QED
    BY <2>1, <2>2, <2>3, <2>4 DEF Nests
<1>5. Linked(t, st, n, h)
  BY <1>1, <1>2 DEF Shaped, Linked, Busy, l
<1>6. Walks(t, n, h)
  BY <1>1 DEF Shaped, Walks, l
<1>7. t # << >> /\ Last(t) = f
  BY <1>1, EmptySeq DEF Last
<1> QED
  BY <1>3, <1>4, <1>5, <1>6, <1>7 DEF Shaped, t

(* The history of a walk is no part of the shape.                          *)
LEMMA DueShape ==
  ASSUME NEW s \in Seq(Frame), NEW t \in Seq(Frame), NEW st, NEW n, NEW h,
         Shaped(s, st, n, h), Len(t) = Len(s),
         \A i \in 1 .. Len(s) : t[i].op = s[i].op /\ t[i].p = s[i].p /\ t[i].cur = s[i].cur
  PROVE  Shaped(t, st, n, h)
<1>0. Len(s) \in Nat
  BY LenProperties
<1>1. Marks(t, st)
  BY DEF Shaped, Marks
<1>2. Nests(t)
  <2>1. ASSUME NEW i \in 1 .. Len(t)
        PROVE  /\ t[i].op = "direct" =>
                    i - 1 \in 1 .. Len(t) /\ t[i - 1].op = "unlink" /\ t[i - 1].p = t[i].p
               /\ t[i].op \in {"boot", "event", "bcast", "deliver", "delivered"} => i = 1
               /\ t[i].op \in {"poll", "polled"} => i = 2 /\ t[1].op \in {"event", "deliver"}
    BY <1>0 DEF Shaped, Nests
  <2>2. ASSUME NEW i \in 1 .. Len(t) - 1
        PROVE  /\ t[i].op # "poll"
               /\ t[i].op = "polled" => t[i + 1].op \in Busy /\ t[i + 1].p = t[i].cur
    <3>1. i \in 1 .. Len(s) - 1 /\ i \in 1 .. Len(s) /\ i + 1 \in 1 .. Len(s)
      BY <1>0
    <3> QED
      BY <3>1 DEF Shaped, Nests
  <2>3. \A i, j \in 1 .. Len(t) : t[i].op \in Busy /\ t[j].op \in Busy /\ t[i].p = t[j].p => i = j
    BY DEF Shaped, Nests
  <2> QED
    BY <2>1, <2>2, <2>3 DEF Nests
<1>3. Linked(t, st, n, h)
  BY DEF Shaped, Linked
<1>4. Walks(t, n, h)
  BY DEF Shaped, Walks
<1> QED
  BY <1>1, <1>2, <1>3, <1>4 DEF Shaped

(* A polled process whose activation is suspended is on the list.          *)
LEMMA PolledListed ==
  ASSUME NEW s \in Seq(Frame), Saved(s), NEW st \in States, NEW n, NEW h,
         Shaped(s, st, n, h), NEW i \in 1 .. Len(s) - 1, s[i].op = "polled"
  PROVE  s[i].cur \in Reach(n, h)
<1>1. /\ i + 1 \in 1 .. Len(s) /\ s[i + 1].op \in Busy /\ s[i + 1].p = s[i].cur
      /\ s[i + 1].p \in Proc
  <2>1. i + 1 \in 1 .. Len(s)
    BY Frames
  <2>2. s[i + 1].op \in Busy /\ s[i + 1].p = s[i].cur
    BY DEF Shaped, Nests
  <2> QED
    BY <2>1, <2>2, Frames
<1>2. CASE s[i + 1].op = "call"
  BY <1>1, <1>2 DEF Shaped, Marks, Linked
<1>3. CASE s[i + 1].op \in ExitOp
  BY <1>1, <1>3 DEF Shaped, Linked
<1> QED
  BY <1>1, <1>2, <1>3 DEF Busy

(* The last activation returns.                                            *)
LEMMA PopNests ==
  ASSUME NEW s \in Seq(Frame), s # << >>, Nests(s)
  PROVE  Nests(Pop(s))
<1> DEFINE t == Pop(s)
<1>1. /\ Len(s) \in Nat \ {0} /\ Len(t) = Len(s) - 1
      /\ \A i \in 1 .. Len(t) : t[i] = s[i] /\ i \in 1 .. Len(s)
  BY Popped, EmptySeq
<1> HIDE DEF t
<1>2. ASSUME NEW i \in 1 .. Len(t)
      PROVE  /\ t[i].op = "direct" =>
                  i - 1 \in 1 .. Len(t) /\ t[i - 1].op = "unlink" /\ t[i - 1].p = t[i].p
             /\ t[i].op \in {"boot", "event", "bcast", "deliver", "delivered"} => i = 1
             /\ t[i].op \in {"poll", "polled"} => i = 2 /\ t[1].op \in {"event", "deliver"}
  <2>1. /\ i \in 1 .. Len(s) /\ t[i] = s[i] /\ 1 \in 1 .. Len(t) /\ t[1] = s[1]
        /\ i - 1 \in 1 .. Len(s) => i - 1 \in 1 .. Len(t) /\ t[i - 1] = s[i - 1]
    BY <1>1
  <2> QED
    BY <2>1 DEF Nests
<1>3. ASSUME NEW i \in 1 .. Len(t) - 1
      PROVE  /\ t[i].op # "poll"
             /\ t[i].op = "polled" => t[i + 1].op \in Busy /\ t[i + 1].p = t[i].cur
  <2>1. i \in 1 .. Len(s) - 1 /\ t[i] = s[i] /\ t[i + 1] = s[i + 1]
    BY <1>1
  <2> QED
    BY <2>1 DEF Nests
<1>4. \A i, j \in 1 .. Len(t) : t[i].op \in Busy /\ t[j].op \in Busy /\ t[i].p = t[j].p => i = j
  BY <1>1 DEF Nests
<1> QED
  BY <1>2, <1>3, <1>4 DEF Nests, t

LEMMA PopShape ==
  ASSUME NEW s \in Seq(Frame), s # << >>, NEW st, NEW n, NEW h, Shaped(s, st, n, h),
         Last(s).op \notin Busy
  PROVE  Shaped(Pop(s), st, n, h)
<1> DEFINE t == Pop(s)
<1>1. /\ Len(s) \in Nat \ {0} /\ Len(t) = Len(s) - 1
      /\ \A i \in 1 .. Len(t) : t[i] = s[i] /\ i \in 1 .. Len(s)
      /\ \A i \in 1 .. Len(s) : s[i].op \in Busy => i \in 1 .. Len(t)
  BY Popped, EmptySeq DEF Last
<1>2. Nests(t)
  BY PopNests DEF Shaped
<1> HIDE DEF t
<1>3. Marks(t, st)
  BY <1>1, SMTT(30) DEF Shaped, Marks, Busy
<1>4. Linked(t, st, n, h)
  BY <1>1 DEF Shaped, Linked, Busy
<1>5. Walks(t, n, h)
  BY <1>1 DEF Shaped, Walks
<1> QED
  BY <1>2, <1>3, <1>4, <1>5 DEF Shaped, t

(* A handler returns, and its process runs.                                *)
LEMMA ReturnShape ==
  ASSUME NEW s \in Seq(Frame), s # << >>, Saved(s), NEW st \in States,
         NEW n \in Links, NEW h \in Ptr, Shaped(s, st, n, h),
         Last(s).op = "call", NEW p, Last(s).p = p
  PROVE  /\ Shaped(Pop(s), [st EXCEPT ![p] = "RUNNING"], n, h)
         /\ Pop(s) # << >> => /\ Last(Pop(s)).op # "poll"
                              /\ Last(Pop(s)).op = "polled" => Last(Pop(s)).cur = p
<1> DEFINE t == Pop(s)
           sv == [st EXCEPT ![p] = "RUNNING"]
           l == Len(s)
<1>1. /\ l \in Nat \ {0} /\ l \in 1 .. l /\ s[l].op = "call" /\ s[l].p = p /\ Len(t) = l - 1
      /\ \A i \in 1 .. Len(t) : t[i] = s[i] /\ i \in 1 .. l
      /\ \A i \in 1 .. l : i # l => i \in 1 .. Len(t)
      /\ \A i \in 1 .. l : s[i].op \in Busy => s[i].p \in Proc
  BY Popped, EmptySeq, Frames DEF Last
<1>2. p \in Proc /\ st[p] = "CALLED"
  BY <1>1 DEF Shaped, Marks, Busy
<1>3. sv[p] = "RUNNING" /\ \A q \in Proc \ {p} : sv[q] = st[q]
  BY <1>2 DEF States
<1>4. Nests(t)
  BY PopNests DEF Shaped
<1>5. t # << >> => Len(t) \in 1 .. l - 1 /\ Last(t) = s[Len(t)] /\ Len(t) + 1 = l
  <2>1. t # << >> => Len(t) # 0
    <3>1. t \in Seq(Frame)
      BY PopStack
    <3> QED
      BY <3>1, EmptySeq
  <2> QED
    BY <1>1, <2>1 DEF Last
<1>6. \A i \in 1 .. Len(t) : s[i].op \in Busy => s[i].p # p
  BY <1>1 DEF Shaped, Nests, Busy
<1> HIDE DEF t, sv
<1>7. Marks(t, sv)
  <2>1. ASSUME NEW q \in Proc, sv[q] = "CALLED"
        PROVE  \E i \in 1 .. Len(t) : t[i].op = "call" /\ t[i].p = q
    <3>1. q # p /\ st[q] = "CALLED"
      BY <1>3, <2>1
    <3>2. PICK i \in 1 .. l : s[i].op = "call" /\ s[i].p = q
      BY <3>1 DEF Shaped, Marks
    <3> QED
      BY <1>1, <3>1, <3>2
  <2>2. ASSUME NEW i \in 1 .. Len(t)
        PROVE  /\ t[i].op = "call" => sv[t[i].p] = "CALLED"
               /\ t[i].op \in ExitOp => sv[t[i].p] = "NONE"
    <3>1. t[i] = s[i] /\ i \in 1 .. Len(s)
      BY <1>1
    <3>2. s[i].op \in Busy => sv[s[i].p] = st[s[i].p]
      BY <1>1, <1>3, <1>6, <3>1
    <3> QED
      BY <3>1, <3>2 DEF Shaped, Marks, Busy
  <2> QED
    BY <2>1, <2>2 DEF Marks
<1>8. Linked(t, sv, n, h)
  <2>1. \A q \in Proc : sv[q] # "NONE" => q \in Reach(n, h)
    BY <1>2, <1>3 DEF Shaped, Linked
  <2>2. ASSUME NEW q \in Reach(n, h), sv[q] = "NONE"
        PROVE  \E i \in 1 .. Len(t) : t[i].op \in ExitOp /\ t[i].p = q
    <3>1. q # p /\ st[q] = "NONE"
      BY <1>3, <2>2, ReachLeast
    <3>2. PICK i \in 1 .. l : s[i].op \in ExitOp /\ s[i].p = q
      BY <3>1 DEF Shaped, Linked
    <3> QED
      BY <1>1, <3>1, <3>2
  <2>3. \A i \in 1 .. Len(t) : t[i].op \in ExitOp => t[i].p \in Reach(n, h)
    BY <1>1 DEF Shaped, Linked
  <2> QED
    BY <2>1, <2>2, <2>3 DEF Shaped, Linked
<1>9. Walks(t, n, h)
  BY <1>1 DEF Shaped, Walks
<1>10. t # << >> => Last(t).op # "poll" /\ (Last(t).op = "polled" => Last(t).cur = p)
  <2> SUFFICES ASSUME t # << >>
               PROVE  Last(t).op # "poll" /\ (Last(t).op = "polled" => Last(t).cur = p)
    OBVIOUS
  <2>1. Len(t) \in 1 .. Len(s) - 1 /\ Last(t) = s[Len(t)] /\ s[Len(t) + 1].p = p
    BY <1>1, <1>5
  <2> QED
    BY <2>1 DEF Shaped, Nests
<1> QED
  BY <1>4, <1>7, <1>8, <1>9, <1>10 DEF Shaped, t, sv

(* The end of exit_process: the list without p.                            *)
LEMMA UnlinkShape ==
  ASSUME NEW s \in Seq(Frame), s # << >>, Saved(s), NEW st \in States,
         NEW n \in Links, NEW h \in Ptr, Shaped(s, st, n, h),
         Last(s).op = "unlink", NEW p, Last(s).p = p, NEW m, NEW g,
         IF p = h THEN g = n[p] /\ m = n ELSE g = h /\ m = Without(n, h, p)
  PROVE  Shaped(Pop(s), st, m, g) /\ p \in Reach(n, h)
<1> DEFINE t == Pop(s)
           l == Len(s)
<1>1. /\ l \in Nat \ {0} /\ l \in 1 .. l /\ s[l].op = "unlink" /\ s[l].p = p /\ Len(t) = l - 1
      /\ \A i \in 1 .. Len(t) : t[i] = s[i] /\ i \in 1 .. l /\ i \in 1 .. l - 1
      /\ \A i \in 1 .. l : i # l => i \in 1 .. Len(t)
      /\ \A i \in 1 .. l : s[i].op \in Busy => s[i].p \in Proc
  BY Popped, EmptySeq, Frames DEF Last
<1>2. p \in Proc /\ st[p] = "NONE" /\ p \in Reach(n, h) /\ NoCycle(n, h)
  BY <1>1 DEF Shaped, Marks, Linked, Busy, ExitOp
<1>3. /\ m \in Links /\ g \in Ptr
      /\ Reach(m, g) = Reach(n, h) \ {p}
      /\ NoCycle(m, g)
      /\ \A c \in Reach(n, h) : m[c] \in Reach(m, g) \cup {NULL}
  BY <1>2, Removed
<1>4. Nests(t)
  BY PopNests DEF Shaped
<1>5. \A i \in 1 .. Len(t) : s[i].op \in Busy => s[i].p # p
  BY <1>1 DEF Shaped, Nests, Busy, ExitOp
<1> HIDE DEF t
<1>6. Marks(t, st)
  <2>1. ASSUME NEW q \in Proc, st[q] = "CALLED"
        PROVE  \E i \in 1 .. Len(t) : t[i].op = "call" /\ t[i].p = q
    <3>1. PICK i \in 1 .. l : s[i].op = "call" /\ s[i].p = q
      BY <2>1 DEF Shaped, Marks
    <3> QED
      BY <1>1, <3>1
  <2> QED
    BY <1>1, <2>1 DEF Shaped, Marks
<1>7. Linked(t, st, m, g)
  <2>1. \A q \in Proc : st[q] # "NONE" => q \in Reach(m, g)
    BY <1>2, <1>3 DEF Shaped, Linked
  <2>2. ASSUME NEW q \in Reach(m, g), st[q] = "NONE"
        PROVE  \E i \in 1 .. Len(t) : t[i].op \in ExitOp /\ t[i].p = q
    <3>1. q # p /\ q \in Reach(n, h)
      BY <1>3
    <3>2. PICK i \in 1 .. l : s[i].op \in ExitOp /\ s[i].p = q
      BY <2>2, <3>1 DEF Shaped, Linked
    <3> QED
      BY <1>1, <3>1, <3>2
  <2>3. \A i \in 1 .. Len(t) : t[i].op \in ExitOp => t[i].p \in Reach(m, g)
    BY <1>1, <1>3, <1>5 DEF Shaped, Linked, Busy
  <2> QED
    BY <1>3, <2>1, <2>2, <2>3 DEF Linked
<1>8. Walks(t, m, g)
  <2>1. ASSUME NEW i \in 1 .. Len(t), t[i].op = "poll"
        PROVE  FALSE
    BY <1>1, <2>1 DEF Shaped, Nests
  <2>2. ASSUME NEW i \in 1 .. Len(t), t[i].op = "polled"
        PROVE  m[t[i].cur] \in Reach(m, g) \cup {NULL}
    <3>1. i \in 1 .. Len(s) - 1 /\ s[i].op = "polled" /\ t[i] = s[i]
      BY <1>1, <2>2
    <3>2. s[i].cur \in Reach(n, h)
      BY <3>1, PolledListed
    <3> QED
      BY <1>3, <3>1, <3>2
  <2> QED
    BY <2>1, <2>2 DEF Walks
<1> QED
  BY <1>2, <1>4, <1>6, <1>7, <1>8 DEF Shaped, t

(* process_start: a process that is not on the list becomes its head.      *)
LEMMA StartShape ==
  ASSUME NEW s \in Seq(Frame), s # << >>, Saved(s), NEW st \in States,
         NEW n \in Links, NEW h \in Ptr, Shaped(s, st, n, h),
         Last(s).op \notin {"poll", "polled"}, NEW p \in Proc, p \notin Reach(n, h)
  PROVE  Shaped(s, [st EXCEPT ![p] = "RUNNING"], InFront(n, h, p), p)
<1> DEFINE m == InFront(n, h, p)
           sv == [st EXCEPT ![p] = "RUNNING"]
<1>1. sv[p] = "RUNNING" /\ \A q \in Proc \ {p} : sv[q] = st[q]
  BY DEF States
<1>2. /\ m \in Links /\ Reach(m, p) = {p} \cup Reach(n, h) /\ NoCycle(m, p)
      /\ \A x \in Proc \ {p} : m[x] = n[x]
  BY ReachFront, FrontKeeps DEF Shaped, Linked
<1>3. st[p] = "NONE"
  BY DEF Shaped, Linked
<1>4. \A i \in 1 .. Len(s) : s[i].op \in Busy => s[i].p \in Proc \ {p}
  <2> SUFFICES ASSUME NEW i \in 1 .. Len(s), s[i].op \in Busy
               PROVE  s[i].p \in Proc \ {p}
    OBVIOUS
  <2>1. s[i].p \in Proc
    BY Frames
  <2> QED
    BY <1>3, <2>1 DEF Shaped, Marks, Linked, Busy
<1> HIDE DEF m, sv
<1>5. Marks(s, sv)
  BY <1>1, <1>4 DEF Shaped, Marks, Busy
<1>6. Linked(s, sv, m, p)
  <2>1. \A q \in Reach(n, h) : q \in Proc \ {p}
    BY ReachLeast
  <2> QED
    BY <1>1, <1>2, <2>1 DEF Shaped, Linked
<1>7. Walks(s, m, p)
  <2>1. \A i \in 1 .. Len(s) : s[i].op \in {"poll", "polled"} => i \in 1 .. Len(s) - 1
    BY Frames DEF Last
  <2>2. ASSUME NEW i \in 1 .. Len(s), s[i].op = "poll"
        PROVE  FALSE
    BY <2>1, <2>2 DEF Shaped, Nests
  <2>3. ASSUME NEW i \in 1 .. Len(s), s[i].op = "polled"
        PROVE  m[s[i].cur] \in Reach(m, p) \cup {NULL}
    <3>1. s[i].cur \in Reach(n, h)
      BY <2>1, <2>3, PolledListed
    <3>2. m[s[i].cur] = n[s[i].cur]
      BY <1>2, <3>1, ReachLeast
    <3> QED
      BY <1>2, <2>3, <3>2 DEF Shaped, Walks
  <2> QED
    BY <2>2, <2>3 DEF Walks
<1> QED
  BY <1>5, <1>6, <1>7 DEF Shaped, m, sv

(* do_poll runs below no handler, so that whoever is listed is RUNNING.    *)
LEMMA PollAlone ==
  ASSUME NEW s \in Seq(Frame), s # << >>, Saved(s), NEW st \in States, NEW n \in Links,
         NEW h \in Ptr, Shaped(s, st, n, h), Last(s).op = "poll"
  PROVE  \A q \in Reach(n, h) : st[q] = "RUNNING"
<1>1. Len(s) \in 1 .. Len(s) /\ s[Len(s)].op = "poll"
  BY Frames DEF Last
<1>2. Len(s) = 2 /\ s[1].op \in {"event", "deliver"}
  BY <1>1 DEF Shaped, Nests
<1>3. \A i \in 1 .. Len(s) : s[i].op \notin Busy
  <2>1. \A i \in 1 .. Len(s) : i = 1 \/ i = 2
    BY <1>2
  <2> QED
    BY <1>1, <1>2, <2>1 DEF Busy, ExitOp
<1>4. ASSUME NEW q \in Reach(n, h)
      PROVE  st[q] = "RUNNING"
  <2>1. q \in Proc /\ st[q] \in {"NONE", "RUNNING", "CALLED"}
    BY ReachLeast DEF States
  <2> QED
    BY <1>3, <2>1 DEF Shaped, Marks, Linked, Busy
<1> QED
  BY <1>4

-----------------------------------------------------------------------------
(* The inductive invariant, and what the program has to keep to.           *)
LInv == IInv /\ Shaped(stack, state, next, process_list)

Disciplined == ~ ExitActive /\ "INIT" \notin UserEvent

LEMMA Listing ==
  /\ \A p \in Proc : OnList(p) <=> p \in Reach(next, process_list)
  /\ TypeOK => next \in Links /\ process_list \in Ptr /\ state \in States
BY DEF OnList, Ahead, Reach, TypeOK, Links, States

LEMMA CallShape ==
  ASSUME NEW s \in Seq(Frame), Saved(s), NEW st \in States, NEW n \in Links, NEW h \in Ptr,
         Shaped(s, st, n, h), NEW p \in Proc, NEW ev \in Event, CallProcess(p, ev, s, st),
         s # << >> => /\ Last(s).op # "poll"
                      /\ Last(s).op = "polled" => Last(s).cur = p
  PROVE  Shaped(stack', state', n, h)
<1>1. CASE st[p] = "RUNNING"
  <2> DEFINE f == [Blank EXCEPT !.op = "call", !.p = p, !.ev = ev, !.left = HandlerOps]
  <2>1. f \in Frame /\ f.op = "call" /\ f.p = p
    <3>1. f \in Frame
      BY BlankFrame, FrameFields, FrameUpdates DEF ThreadOp
    <3>2. f.op = "call" /\ f.p = p
      BY <3>1, BlankFrame DEF Frame
    <3> QED
      BY <3>1, <3>2
  <2>2. stack' = Append(s, f) /\ state' = [st EXCEPT ![p] = "CALLED"]
    BY <1>1 DEF CallProcess
  <2> HIDE DEF f
  <2> QED
    BY <1>1, <2>1, <2>2, HoldShape
<1>2. CASE st[p] # "RUNNING"
  BY <1>2 DEF CallProcess
<1> QED
  BY <1>1, <1>2

(* process_post_synch and process_start put their own frame below the call. *)
LEMMA SynchFrame ==
  ASSUME NEW s \in Seq(Frame), Saved(s), Runner(s, process_current), process_current \in Ptr,
         NEW st, NEW n, NEW h, Shaped(s, st, n, h), s # << >>,
         Last(s).op \notin {"poll", "polled"},
         NEW u, u = Append(s, [Blank EXCEPT !.op = "synch", !.saved = process_current])
  PROVE  /\ u \in Seq(Frame) /\ Saved(u) /\ Shaped(u, st, n, h)
         /\ u # << >> /\ Last(u).op = "synch"
<1> DEFINE f == [Blank EXCEPT !.op = "synch", !.saved = process_current]
<1>1. f \in Frame /\ f.op = "synch" /\ f.saved = process_current /\ Held(f)
  <2>1. f \in Frame
    BY BlankFrame, FrameFields, FrameUpdates DEF Restoring
  <2>2. f.op = "synch" /\ f.saved = process_current
    BY <2>1, BlankFrame DEF Frame
  <2> QED
    BY <2>1, <2>2 DEF Held, ThreadOp
<1>2. u = Append(s, f)
  OBVIOUS
<1> HIDE DEF f
<1>3. KernelTop(s) \/ f.saved = s[Len(s)].p
  BY <1>1 DEF KernelTop, Runner
<1>4. u \in Seq(Frame) /\ Saved(u) /\ u # << >> /\ Last(u) = f
  BY <1>1, <1>2, <1>3, PushStack DEF Restoring, Last
<1>5. Shaped(u, st, n, h)
  BY <1>1, <1>2, PushShape
<1> QED
  BY <1>1, <1>4, <1>5

LEMMA ProcessStartShape ==
  ASSUME TypeOK, NEW s \in Seq(Frame), Saved(s), Runner(s, process_current), s # << >>,
         Shaped(s, state, next, process_list), Last(s).op \notin {"poll", "polled"},
         NEW p \in Proc, ProcessStart(p, s)
  PROVE  Shaped(stack', state', next', process_list')
<1>1. CASE stack' = s /\ UNCHANGED <<list, state, process_current>>
  BY <1>1 DEF list
<1>2. CASE /\ ~ OnList(p)
           /\ next' = [next EXCEPT ![p] = process_list]
           /\ process_list' = p
           /\ CallProcess(p, "INIT",
                          Append(s, [Blank EXCEPT !.op = "synch", !.saved = process_current]),
                          [state EXCEPT ![p] = "RUNNING"])
  <2> DEFINE u == Append(s, [Blank EXCEPT !.op = "synch", !.saved = process_current])
             st == [state EXCEPT ![p] = "RUNNING"]
             n == InFront(next, process_list, p)
  <2>1. /\ next \in Links /\ process_list \in Ptr /\ state \in States
        /\ p \notin Reach(next, process_list) /\ process_current \in Ptr
    BY <1>2, Listing DEF TypeOK
  <2>2. Shaped(s, st, n, p)
    BY <2>1, StartShape
  <2>3. n \in Links /\ p \in Ptr /\ st \in States /\ next' = n /\ process_list' = p
    BY <1>2, <2>1, ReachFront DEF States, Ptr, InFront
  <2>4. CallProcess(p, "INIT", u, st)
    BY <1>2
  <2> HIDE DEF n, st
  <2>5. /\ u \in Seq(Frame) /\ Saved(u) /\ Shaped(u, st, n, p)
        /\ u # << >> /\ Last(u).op = "synch"
    BY <2>1, <2>2, SynchFrame
  <2> HIDE DEF u
  <2>6. Shaped(stack', state', n, p)
    BY <2>3, <2>4, <2>5, CallShape, FrameFields
  <2> QED
    BY <2>3, <2>6
<1> QED
  BY <1>1, <1>2 DEF ProcessStart

(* exit_process strikes the process from the histories of the walks.       *)
LEMMA StruckFrames ==
  ASSUME NEW s \in Seq(Frame), Saved(s), NEW p \in Proc,
         NEW t, t = [i \in DOMAIN s |-> [s[i] EXCEPT !.due = @ \ {p}]]
  PROVE  /\ t \in Seq(Frame) /\ Len(t) = Len(s) /\ Len(s) \in Nat /\ Saved(t)
         /\ \A i \in 1 .. Len(s) : /\ t[i].op = s[i].op /\ t[i].p = s[i].p
                                   /\ t[i].cur = s[i].cur
<1>1. /\ Len(s) \in Nat /\ DOMAIN s = 1 .. Len(s)
      /\ \A i \in 1 .. Len(s) : s[i] \in Frame
  BY LenProperties, ElementOfSeq
<1>2. ASSUME NEW i \in 1 .. Len(s)
      PROVE  /\ t[i] \in Frame
             /\ t[i].op = s[i].op /\ t[i].p = s[i].p /\ t[i].saved = s[i].saved
             /\ t[i].cur = s[i].cur
  <2>1. s[i] \in Frame /\ s[i].due \ {p} \in SUBSET Proc
    BY <1>1, FrameFields
  <2>2. t[i] = [s[i] EXCEPT !.due = s[i].due \ {p}]
    BY <1>1
  <2>3. t[i] \in Frame
    BY ONLY <2>1, <2>2, FrameUpdates, ZenonT(60)
  <2> QED
    BY <2>1, <2>2, <2>3 DEF Frame
<1>3. t \in Seq(Frame) /\ Len(t) = Len(s)
  BY <1>1, <1>2
<1>4. Saved(t)
  BY <1>1, <1>2, <1>3 DEF Saved, Restores, Held
<1> QED
  BY <1>1, <1>2, <1>3, <1>4

(* exit_process of a process on the list, which runs once what called it   *)
(* has returned to s.                                                      *)
LEMMA ProcessExitShape ==
  ASSUME TypeOK, NEW s \in Seq(Frame), Saved(s), NEW p \in Proc, NEW from \in Ptr,
         NEW st \in States, Shaped(s, st, next, process_list),
         st[p] = "RUNNING", state[p] # "NONE", OnList(p),
         [st EXCEPT ![p] = "NONE"] = [state EXCEPT ![p] = "NONE"],
         s # << >> => /\ Last(s).op # "poll"
                      /\ Last(s).op = "polled" => Last(s).cur = p,
         ExitProcess(p, from, s)
  PROVE  Shaped(stack', state', next', process_list')
<1> DEFINE t == [i \in DOMAIN s |-> [s[i] EXCEPT !.due = @ \ {p}]]
           f == [Blank EXCEPT !.op = "exit", !.p = p, !.from = from,
                              !.saved = process_current, !.cur = process_list,
                              !.due = {q \in Proc \ {p} : state[q] # "NONE"}]
<1>1. /\ UNCHANGED list /\ process_current \in Ptr
      /\ next \in Links /\ process_list \in Ptr
  BY Listing DEF ExitProcess, TypeOK
<1>2. f \in Frame /\ f.op = "exit" /\ f.p = p
  <2>1. f \in Frame
    BY <1>1, BlankFrame, FrameFields, FrameUpdates DEF Restoring
  <2>2. f.op = "exit" /\ f.p = p
    BY <2>1, BlankFrame DEF Frame
  <2> QED
    BY <2>1, <2>2
<1>3. /\ t \in Seq(Frame) /\ Len(t) = Len(s) /\ Len(s) \in Nat /\ Saved(t)
      /\ \A i \in 1 .. Len(s) : /\ t[i].op = s[i].op /\ t[i].p = s[i].p
                                /\ t[i].cur = s[i].cur
  BY StruckFrames
<1>6. stack' = Append(t, f) /\ state' = [state EXCEPT ![p] = "NONE"]
  BY DEF ExitProcess
<1> HIDE DEF f, t
<1>7. Shaped(t, st, next, process_list)
  BY <1>3, DueShape
<1>9. t # << >> => s # << >> /\ Last(t).op = Last(s).op /\ Last(t).cur = Last(s).cur
  <2>1. t # << >> => Len(t) # 0
    BY <1>3, EmptySeq
  <2> QED
    BY <1>3, <2>1 DEF Last
<1>10. Shaped(stack', [st EXCEPT ![p] = "NONE"], next, process_list)
  BY <1>1, <1>2, <1>3, <1>6, <1>7, <1>9, HoldShape
<1> QED
  BY <1>1, <1>6, <1>10 DEF list

-----------------------------------------------------------------------------
LEMMA Ready ==
  ASSUME LInv, stack # << >>
  PROVE  /\ stack \in Seq(Frame) /\ Saved(stack) /\ Runner(stack, process_current)
         /\ Shaped(stack, state, next, process_list)
         /\ TypeOK /\ Top \in Frame /\ Held(Top) /\ Last(stack) = Top
         /\ Top = stack[Len(stack)] /\ Len(stack) \in 1 .. Len(stack)
         /\ next \in Links /\ process_list \in Ptr /\ state \in States
         /\ process_current \in Ptr
BY TopFrame, TopHeld, Listing DEF LInv, IInv, TypeOK, Last, Top

(* The frame goes on and nothing else changes.                             *)
LEMMA GoOnShape ==
  ASSUME LInv, stack # << >>, NEW f \in Frame, Kin(Top, f), stack' = Goto(f),
         UNCHANGED <<list, state>>,
         f.op = "poll" => f.cur \in Reach(next, process_list) \cup {NULL},
         f.op = "polled" => next[f.cur] \in Reach(next, process_list) \cup {NULL}
  PROVE  Shaped(stack', state', next', process_list')
<1>1. Shaped(Goto(f), state, next, process_list)
  BY Ready, GotoShape
<1> QED
  BY <1>1 DEF list

(* An activation that holds nobody returns.                                *)
LEMMA GoBackShape ==
  ASSUME LInv, stack # << >>, Top.op \notin Busy, stack' = Pop(stack),
         UNCHANGED <<list, state>>
  PROVE  Shaped(stack', state', next', process_list')
<1>1. Shaped(Pop(stack), state, next, process_list)
  BY Ready, PopShape
<1> QED
  BY <1>1 DEF list

LEMMA BootShape ==
  ASSUME LInv, BootDone \/ \E p \in Proc : BootStart(p)
  PROVE  Shaped(stack', state', next', process_list')
<1>1. CASE BootDone
  BY <1>1, GoBackShape DEF BootDone, At, Busy, ExitOp
<1>2. ASSUME NEW p \in Proc, BootStart(p)
      PROVE  Shaped(stack', state', next', process_list')
  <2> DEFINE f == [Top EXCEPT !.due = @ \ {p}]
  <2>1. stack # << >> /\ Top.op = "boot" /\ ProcessStart(p, Goto(f))
    BY <1>2 DEF BootStart, At
  <2>2. f \in Frame /\ f.op = "boot" /\ Held(f)
    <3>1. f \in Frame
      <4>1. Top.due \ {p} \in SUBSET Proc
        BY <2>1, Ready, FrameFields
      <4> QED
        BY <2>1, <4>1, Ready, FrameUpdates
    <3>2. f.op = "boot"
      BY <2>1, <3>1, Ready DEF Frame
    <3> QED
      BY <3>1, <3>2 DEF Held, ThreadOp
  <2> HIDE DEF f
  <2>3. /\ Goto(f) \in Seq(Frame) /\ Saved(Goto(f)) /\ Runner(Goto(f), process_current)
    BY <2>1, <2>2, Ready, GotoRunner DEF Restoring, ThreadOp
  <2>4. Kin(Top, f)
    BY <2>1, <2>2 DEF Kin, ExitOp, Busy
  <2>5. /\ Shaped(Goto(f), state, next, process_list)
        /\ Goto(f) # << >> /\ Last(Goto(f)) = f
    BY <2>1, <2>2, <2>4, Ready, GotoShape
  <2> QED
    BY <2>1, <2>2, <2>3, <2>5, Ready, ProcessStartShape
<1> QED
  BY <1>1, <1>2

LEMMA PollWalkShape ==
  ASSUME LInv, ProcessRun \/ DoPoll \/ PollNext
  PROVE  Shaped(stack', state', next', process_list')
<1>1. CASE ProcessRun
  <2>1. /\ PollFrame.op = "poll" /\ PollFrame.cur = process_list /\ Blank.op = "event"
    BY BlankFrame DEF Frame, PollFrame, Blank
  <2>2. /\ stack = << >> /\ UNCHANGED <<list, state>>
        /\ Shaped(stack, state, next, process_list)
        /\ next \in Links /\ process_list \in Ptr
        /\ stack' = <<Blank>> \/ stack' = <<Blank, PollFrame>>
    BY <1>1, Listing DEF ProcessRun, LInv, IInv
  <2>3. process_list \in Reach(next, process_list) \cup {NULL}
    BY <2>2, ReachLeast
  <2>4. /\ \A p \in Proc : state[p] # "CALLED"
        /\ \A p \in Reach(next, process_list) : state[p] # "NONE"
    BY <2>2 DEF Shaped, Marks, Linked
  <2>5. Len(stack') \in {1, 2} /\ stack'[1] = Blank /\ (Len(stack') = 2 => stack'[2] = PollFrame)
    BY <2>2
  <2>6. /\ \A i \in 1 .. Len(stack') : i = 1 \/ i = 2
        /\ \A i \in 1 .. Len(stack') - 1 : i = 1
        /\ \A i \in 1 .. Len(stack') : /\ i = 1 => stack'[i] = Blank
                                       /\ i = 2 => stack'[i] = PollFrame
    <3>1. CASE Len(stack') = 1
      BY <2>5, <3>1
    <3>2. CASE Len(stack') = 2
      BY <2>5, <3>2
    <3> QED
      BY <2>5, <3>1, <3>2
  <2>7. Marks(stack', state)
    BY <2>1, <2>4, <2>6 DEF Marks, ExitOp
  <2>8. Nests(stack')
    BY <2>1, <2>5, <2>6 DEF Nests, Busy, ExitOp
  <2>9. Linked(stack', state, next, process_list)
    BY <2>1, <2>2, <2>4, <2>6 DEF Shaped, Linked, ExitOp
  <2>10. Walks(stack', next, process_list)
    BY <2>1, <2>3, <2>6 DEF Walks
  <2> QED
    BY <2>2, <2>7, <2>8, <2>9, <2>10 DEF Shaped, list
<1>2. CASE DoPoll
  <2>1. stack # << >> /\ Top.op = "poll" /\ UNCHANGED list
    BY <1>2 DEF DoPoll, At
  <2>2. Top.cur \in Reach(next, process_list) \cup {NULL}
    BY <2>1, Ready DEF Shaped, Walks
  <2>3. CASE Top.cur = NULL
    <3>1. stack' = Pop(stack) /\ UNCHANGED state
      BY <1>2, <2>3 DEF DoPoll
    <3> QED
      BY <2>1, <3>1, GoBackShape DEF Busy, ExitOp
  <2>4. CASE Top.cur # NULL /\ ~ needspoll[Top.cur]
    <3> DEFINE f == [Top EXCEPT !.cur = next[Top.cur]]
    <3>1. stack' = Goto(f) /\ UNCHANGED state
      BY <1>2, <2>4 DEF DoPoll
    <3>2. next[Top.cur] \in Reach(next, process_list) \cup {NULL}
      BY <2>1, <2>2, <2>4, Ready, ReachLeast
    <3>3. f \in Frame /\ f.op = "poll" /\ f.cur = next[Top.cur]
      <4>1. f \in Frame
        <5>1. next[Top.cur] \in Ptr
          BY <3>2 DEF Reach, Ptr
        <5> QED
          BY <2>1, <5>1, Ready, FrameUpdates
      <4> QED
        BY <2>1, <4>1, Ready DEF Frame
    <3> HIDE DEF f
    <3>4. Kin(Top, f)
      BY <2>1, <3>3 DEF Kin, Busy, ExitOp
    <3> QED
      BY <2>1, <3>1, <3>2, <3>3, <3>4, GoOnShape
  <2>5. CASE Top.cur # NULL /\ needspoll[Top.cur]
    <3> DEFINE f == [Top EXCEPT !.op = "polled"]
               st == [state EXCEPT ![Top.cur] = "RUNNING"]
    <3>1. CallProcess(Top.cur, "POLL", Goto(f), st)
      BY <1>2, <2>5 DEF DoPoll
    <3>2. Top.cur \in Proc /\ state[Top.cur] = "RUNNING"
      BY <2>1, <2>2, <2>5, Ready, PollAlone, ReachLeast
    <3>3. st = state
      BY <2>1, <3>2, Ready DEF States
    <3>4. f \in Frame /\ f.op = "polled" /\ f.cur = Top.cur /\ Held(f)
      <4>1. f \in Frame
        BY <2>1, Ready, FrameFields, FrameUpdates
      <4>2. f.op = "polled" /\ f.cur = Top.cur
        BY <2>1, <4>1, Ready DEF Frame
      <4> QED
        BY <3>2, <4>1, <4>2 DEF Held, ThreadOp
    <3> HIDE DEF f, st
    <3>5. Goto(f) \in Seq(Frame) /\ Saved(Goto(f))
      BY <2>1, <3>4, Ready, GotoRunner DEF Restoring, ThreadOp
    <3>6. Kin(Top, f)
      BY <2>1, <3>4 DEF Kin, Busy, ExitOp
    <3>7. next[f.cur] \in Reach(next, process_list) \cup {NULL}
      BY <2>1, <2>2, <2>5, <3>4, Ready, ReachLeast
    <3>8. /\ Shaped(Goto(f), state, next, process_list)
          /\ Goto(f) # << >> /\ Last(Goto(f)) = f
      BY <2>1, <3>4, <3>6, <3>7, Ready, GotoShape
    <3>9. Shaped(stack', state', next, process_list)
      BY <2>1, <3>1, <3>2, <3>3, <3>4, <3>5, <3>8, Ready, CallShape, FrameFields
    <3> QED
      BY <2>1, <3>9 DEF list
  <2> QED
    BY <2>3, <2>4, <2>5
<1>3. CASE PollNext
  <2> DEFINE f == [Top EXCEPT !.op = "poll", !.cur = next[Top.cur]]
  <2>1. stack # << >> /\ Top.op = "polled" /\ UNCHANGED <<list, state>> /\ stack' = Goto(f)
    BY <1>3 DEF PollNext, At
  <2>2. next[Top.cur] \in Reach(next, process_list) \cup {NULL}
    BY <2>1, Ready DEF Shaped, Walks
  <2>3. f \in Frame /\ f.op = "poll" /\ f.cur = next[Top.cur]
    <3>1. next[Top.cur] \in Ptr
      BY <2>2 DEF Reach, Ptr
    <3>2. f \in Frame
      BY <2>1, <3>1, Ready, FrameFields, FrameUpdates
    <3> QED
      BY <2>1, <3>2, Ready DEF Frame
  <2> HIDE DEF f
  <2>4. Kin(Top, f)
    BY <2>1, <2>3 DEF Kin, Busy, ExitOp
  <2> QED
    BY <2>1, <2>2, <2>3, <2>4, GoOnShape
<1> QED
  BY <1>1, <1>2, <1>3

LEMMA EventShape ==
  ASSUME LInv, Disciplined, DoEvent
  PROVE  Shaped(stack', state', next', process_list')
<1>1. stack # << >> /\ Top.op = "event" /\ UNCHANGED list
  BY DEF DoEvent, At
<1>2. CASE queue = << >>
  BY <1>1, <1>2, GoBackShape DEF DoEvent, Busy, ExitOp
<1>3. ASSUME queue # << >>
      PROVE  Head(queue) \in [ev : UserEvent, p : Ptr]
  <2> DEFINE E == [ev : UserEvent, p : Ptr]
  <2>1. queue \in Seq(E)
    BY <1>1, Ready DEF TypeOK
  <2> HIDE DEF E
  <2>2. Head(queue) \in E
    BY <1>3, <2>1, HeadTailProperties
  <2> QED
    BY <2>2 DEF E
<1>4. CASE queue # << >> /\ Head(queue).p = NULL
  <2> DEFINE d == {q \in Proc : state[q] # "NONE"}
             f == [Blank EXCEPT !.op = "bcast", !.ev = Head(queue).ev,
                                !.cur = process_list, !.due = d]
  <2>1. stack' = Goto(f) /\ UNCHANGED state
    BY <1>4 DEF DoEvent
  <2>2. f \in Frame /\ f.op = "bcast"
    <3>1. f \in Frame
      <4>1. Head(queue).ev \in Event /\ process_list \in Ptr /\ d \in SUBSET Proc
        BY <1>1, <1>3, <1>4, Ready, FrameFields
      <4> QED
        BY <4>1, BlankFrame, FrameFields, FrameUpdates
    <3> QED
      BY <3>1, BlankFrame DEF Frame
  <2> HIDE DEF f
  <2>3. Kin(Top, f)
    BY <1>1, <2>2 DEF Kin, Busy, ExitOp
  <2> QED
    BY <1>1, <2>1, <2>2, <2>3, GoOnShape
<1>5. CASE queue # << >> /\ Head(queue).p # NULL
  <2> DEFINE p == Head(queue).p
             ev == Head(queue).ev
  <2>1. p \in Proc /\ ev \in Event /\ ev # "INIT"
    BY <1>3, <1>5, FrameFields DEF Ptr, Disciplined
  <2>2. CallProcess(p, ev, Pop(stack), state)
    BY <1>5, <2>1 DEF DoEvent
  <2> HIDE DEF p, ev
  <2>3. Pop(stack) \in Seq(Frame) /\ Saved(Pop(stack))
    BY <1>1, Ready, PopRunner DEF Restoring
  <2>4. Len(stack) = 1
    BY <1>1, Ready DEF Shaped, Nests
  <2>5. Pop(stack) = << >>
    BY <1>1, <2>3, <2>4, Ready, Popped, EmptySeq
  <2>6. Shaped(Pop(stack), state, next, process_list)
    BY <1>1, Ready, PopShape DEF Busy, ExitOp
  <2>7. Shaped(stack', state', next, process_list)
    BY <1>1, <2>1, <2>2, <2>3, <2>5, <2>6, Ready, CallShape
  <2> QED
    BY <1>1, <2>7 DEF list
<1> QED
  BY <1>2, <1>4, <1>5

(* A walk tells the process under its cursor.                              *)
LEMMA TellShape ==
  ASSUME LInv, stack # << >>, NEW after, NEW d \in SUBSET Proc, NEW ev \in Event,
         \/ Top.op = "deliver" /\ after = "delivered"
         \/ Top.op = "exit" /\ after = "told" /\ Top.cur # NULL,
         CallProcess(Top.cur, ev, Goto([Top EXCEPT !.op = after, !.due = d]), state),
         UNCHANGED list
  PROVE  Shaped(stack', state', next', process_list')
<1> DEFINE f == [Top EXCEPT !.op = after, !.due = d]
<1>1. Top \in Frame /\ Held(Top) /\ Top.cur \in Proc
  BY Ready, FrameFields DEF Held, Ptr
<1>2. f \in Frame /\ f.op = after /\ f.p = Top.p /\ Held(f) /\ f.saved = Top.saved
  <2>1. f \in Frame
    BY <1>1, FrameFields, FrameUpdates DEF Restoring
  <2>2. f.op = after /\ f.cur = Top.cur /\ f.p = Top.p /\ f.saved = Top.saved
    BY <1>1, <2>1 DEF Frame
  <2> QED
    BY <1>1, <2>1, <2>2 DEF Held, ThreadOp
<1>3. CallProcess(Top.cur, ev, Goto(f), state)
  OBVIOUS
<1> HIDE DEF f
<1>4. Goto(f) \in Seq(Frame) /\ Saved(Goto(f))
  BY <1>2, Ready, GotoRunner DEF Restoring, ThreadOp
<1>5. Kin(Top, f)
  BY <1>2 DEF Kin, Busy, ExitOp
<1>6. Shaped(Goto(f), state, next, process_list) /\ Goto(f) # << >> /\ Last(Goto(f)) = f
  BY <1>2, <1>5, Ready, GotoShape
<1>7. Shaped(stack', state', next, process_list)
  BY <1>1, <1>2, <1>3, <1>4, <1>6, Ready, CallShape
<1> QED
  BY <1>7 DEF list

LEMMA BcastShape ==
  ASSUME LInv, BcastTest \/ BcastDeliver \/ BcastNext
  PROVE  Shaped(stack', state', next', process_list')
<1>1. CASE BcastTest
  <2>1. stack # << >> /\ Top.op = "bcast" /\ UNCHANGED <<list, state>>
    BY <1>1 DEF BcastTest, At
  <2>2. CASE Top.cur = NULL
    BY <1>1, <2>1, <2>2, GoBackShape DEF BcastTest, Busy, ExitOp
  <2>3. CASE Top.cur # NULL
    <3> DEFINE f == [Top EXCEPT !.op = "deliver"]
    <3>1. stack' = Goto(f) \/ stack' = Append(Goto(f), PollFrame)
      BY <1>1, <2>3 DEF BcastTest
    <3>2. f \in Frame /\ f.op = "deliver" /\ Held(f)
      <4>1. f \in Frame
        BY <2>1, Ready, FrameFields, FrameUpdates
      <4>2. f.op = "deliver" /\ f.cur = Top.cur
        BY <2>1, <4>1, Ready DEF Frame
      <4>3. Top.cur \in Proc
        BY <2>1, <2>3, Ready, FrameFields DEF Ptr
      <4> QED
        BY <4>1, <4>2, <4>3 DEF Held, ThreadOp
    <3> HIDE DEF f
    <3>3. Goto(f) \in Seq(Frame) /\ Saved(Goto(f))
      BY <2>1, <3>2, Ready, GotoRunner DEF Restoring, ThreadOp
    <3>4. Kin(Top, f)
      BY <2>1, <3>2 DEF Kin, Busy, ExitOp
    <3>5. /\ Shaped(Goto(f), state, next, process_list)
          /\ Goto(f) # << >> /\ Last(Goto(f)) = f
      BY <2>1, <3>2, <3>4, Ready, GotoShape
    <3>6. /\ PollFrame \in Frame /\ PollFrame.op = "poll"
          /\ PollFrame.cur \in Reach(next, process_list) \cup {NULL}
      <4>1. PollFrame \in Frame
        BY <2>1, Ready, BlankFrame, FrameFields, FrameUpdates DEF PollFrame
      <4>2. PollFrame.op = "poll" /\ PollFrame.cur = process_list
        BY BlankFrame DEF Frame, PollFrame
      <4> QED
        BY <2>1, <4>1, <4>2, Ready, ReachLeast
    <3>7. Shaped(Append(Goto(f), PollFrame), state, next, process_list)
      BY <3>2, <3>3, <3>5, <3>6, PushShape
    <3> QED
      BY <2>1, <3>1, <3>5, <3>7 DEF list
  <2> QED
    BY <2>2, <2>3
<1>2. CASE BcastDeliver
  <2> DEFINE d == IF state[Top.cur] = "RUNNING" THEN Top.due \ {Top.cur} ELSE Top.due
  <2>1. /\ stack # << >> /\ Top.op = "deliver" /\ UNCHANGED list
        /\ CallProcess(Top.cur, Top.ev, Goto([Top EXCEPT !.op = "delivered", !.due = d]), state)
    BY <1>2 DEF BcastDeliver, At
  <2>2. d \in SUBSET Proc /\ Top.ev \in Event
    BY <2>1, Ready, FrameFields
  <2> HIDE DEF d
  <2> QED
    BY <2>1, <2>2, TellShape
<1>3. CASE BcastNext
  <2> DEFINE f == [Top EXCEPT !.op = "bcast", !.cur = next[Top.cur]]
  <2>1. /\ stack # << >> /\ Top.op = "delivered" /\ UNCHANGED <<list, state>>
        /\ stack' = Goto(f)
    BY <1>3 DEF BcastNext, At
  <2>2. f \in Frame /\ f.op = "bcast"
    <3>1. next[Top.cur] \in Ptr
      BY <2>1, Ready DEF Held, Links
    <3>2. f \in Frame
      BY <2>1, <3>1, Ready, FrameFields, FrameUpdates
    <3> QED
      BY <2>1, <3>2, Ready DEF Frame
  <2> HIDE DEF f
  <2>3. Kin(Top, f)
    BY <2>1, <2>2 DEF Kin, Busy, ExitOp
  <2> QED
    BY <2>1, <2>2, <2>3, GoOnShape
<1> QED
  BY <1>1, <1>2, <1>3

LEMMA ExitShape ==
  ASSUME LInv, ExitTell \/ ExitNext \/ ExitSelf
  PROVE  Shaped(stack', state', next', process_list')
<1>1. CASE ExitTell
  <2>1. stack # << >> /\ Top.op = "exit" /\ Top.cur # NULL /\ UNCHANGED list
    BY <1>1 DEF ExitTell, At
  <2>2. CASE Top.cur = Top.p
    <3> DEFINE f == [Top EXCEPT !.op = "told"]
    <3>1. stack' = Goto(f) /\ UNCHANGED state
      BY <1>1, <2>2 DEF ExitTell
    <3>2. f \in Frame /\ f.op = "told" /\ f.p = Top.p
      <4>1. f \in Frame
        BY <2>1, Ready, FrameFields, FrameUpdates DEF Restoring
      <4> QED
        BY <2>1, <4>1, Ready DEF Frame
    <3> HIDE DEF f
    <3>3. Kin(Top, f)
      BY <2>1, <3>2 DEF Kin, Busy, ExitOp
    <3> QED
      BY <2>1, <3>1, <3>2, <3>3, GoOnShape
  <2>3. CASE Top.cur # Top.p
    <3> DEFINE d == IF state[Top.cur] = "RUNNING" THEN Top.due \ {Top.cur} ELSE Top.due
    <3>1. CallProcess(Top.cur, "EXITED", Goto([Top EXCEPT !.op = "told", !.due = d]), state)
      BY <1>1, <2>3 DEF ExitTell
    <3>2. d \in SUBSET Proc
      BY <2>1, Ready, FrameFields
    <3> HIDE DEF d
    <3> QED
      BY <2>1, <3>1, <3>2, TellShape, FrameFields
  <2> QED
    BY <2>2, <2>3
<1>2. CASE ExitNext
  <2> DEFINE f == [Top EXCEPT !.op = "exit", !.cur = next[Top.cur]]
  <2>1. /\ stack # << >> /\ Top.op = "told" /\ UNCHANGED <<list, state>>
        /\ stack' = Goto(f)
    BY <1>2 DEF ExitNext, At
  <2>2. f \in Frame /\ f.op = "exit" /\ f.p = Top.p
    <3>1. next[Top.cur] \in Ptr
      BY <2>1, Ready DEF Held, Links
    <3>2. f \in Frame
      BY <2>1, <3>1, Ready, FrameFields, FrameUpdates DEF Restoring
    <3> QED
      BY <2>1, <3>2, Ready DEF Frame
  <2> HIDE DEF f
  <2>3. Kin(Top, f)
    BY <2>1, <2>2 DEF Kin, Busy, ExitOp
  <2> QED
    BY <2>1, <2>2, <2>3, GoOnShape
<1>3. CASE ExitSelf
  <2> DEFINE f == [Top EXCEPT !.op = "unlink"]
             g == [Blank EXCEPT !.op = "direct", !.p = Top.p, !.ev = "EXIT",
                                !.left = HandlerOps]
  <2>1. /\ stack # << >> /\ Top.op = "exit" /\ UNCHANGED <<list, state>>
        /\ stack' = Append(Goto(f), g) \/ stack' = Goto(f)
    BY <1>3 DEF ExitSelf, At
  <2>2. f \in Frame /\ f.op = "unlink" /\ f.p = Top.p /\ f.saved = Top.saved /\ Held(f)
    <3>1. f \in Frame
      BY <2>1, Ready, FrameFields, FrameUpdates DEF Restoring
    <3>2. f.op = "unlink" /\ f.p = Top.p /\ f.saved = Top.saved
      BY <2>1, <3>1, Ready DEF Frame
    <3> QED
      BY <2>1, <3>1, <3>2, Ready DEF Held, ThreadOp
  <2>3. g \in Frame /\ g.op = "direct" /\ g.p = Top.p
    <3>1. g \in Frame
      BY <2>1, Ready, BlankFrame, FrameFields, FrameUpdates DEF ThreadOp
    <3> QED
      BY <3>1, BlankFrame DEF Frame
  <2> HIDE DEF f, g
  <2>4. Goto(f) \in Seq(Frame) /\ Saved(Goto(f))
    BY <2>1, <2>2, Ready, GotoRunner DEF Restoring, ThreadOp
  <2>5. Kin(Top, f)
    BY <2>1, <2>2 DEF Kin, Busy, ExitOp
  <2>6. /\ Shaped(Goto(f), state, next, process_list)
        /\ Goto(f) # << >> /\ Last(Goto(f)) = f
    BY <2>1, <2>2, <2>5, Ready, GotoShape
  <2>7. Shaped(Append(Goto(f), g), state, next, process_list)
    BY <2>2, <2>3, <2>4, <2>6, PushShape
  <2> QED
    BY <2>1, <2>6, <2>7 DEF list
<1> QED
  BY <1>1, <1>2, <1>3

LEMMA UnlinkStepShape ==
  ASSUME LInv, Unlink
  PROVE  Shaped(stack', state', next', process_list')
<1>1. stack # << >> /\ Top.op = "unlink" /\ stack' = Pop(stack) /\ UNCHANGED state
  BY DEF Unlink, At
<1>2. IF Top.p = process_list
      THEN process_list' = next[Top.p] /\ next' = next
      ELSE process_list' = process_list /\ next' = Without(next, process_list, Top.p)
  BY Listing DEF Unlink, Without
<1>3. Shaped(Pop(stack), state, next', process_list')
  BY <1>1, <1>2, Ready, UnlinkShape
<1> QED
  BY <1>1, <1>3

LEMMA ReturnsShape ==
  ASSUME LInv, SynchReturn \/ ReturnYield \/ ReturnDirect \/ ReturnEnded
  PROVE  Shaped(stack', state', next', process_list')
<1>1. CASE SynchReturn
  BY <1>1, GoBackShape DEF SynchReturn, At, Busy, ExitOp
<1>2. CASE ReturnDirect
  BY <1>2, GoBackShape DEF ReturnDirect, At, Busy, ExitOp
<1>3. CASE ReturnYield
  <2>1. /\ stack # << >> /\ Top.op = "call" /\ UNCHANGED list /\ stack' = Pop(stack)
        /\ state' = [state EXCEPT ![Top.p] = "RUNNING"]
    BY <1>3 DEF ReturnYield, At
  <2>2. Shaped(Pop(stack), [state EXCEPT ![Top.p] = "RUNNING"], next, process_list)
    BY <2>1, Ready, ReturnShape
  <2> QED
    BY <2>1, <2>2 DEF list
<1>4. CASE ReturnEnded
  <2> DEFINE p == Top.p
             st == [state EXCEPT ![p] = "RUNNING"]
  <2>1. stack # << >> /\ Top.op = "call" /\ ExitProcess(p, p, Pop(stack))
    BY <1>4 DEF ReturnEnded, At
  <2>2. /\ Shaped(Pop(stack), st, next, process_list)
        /\ Pop(stack) # << >> => /\ Last(Pop(stack)).op # "poll"
                                 /\ Last(Pop(stack)).op = "polled" => Last(Pop(stack)).cur = p
    BY <2>1, Ready, ReturnShape
  <2>3. p \in Proc
    BY <2>1, Ready DEF Held, ThreadOp
  <2>4. state[p] = "CALLED" /\ OnList(p)
    BY <2>1, <2>3, Ready, Listing DEF Shaped, Marks, Linked
  <2>5. /\ st \in States /\ st[p] = "RUNNING"
        /\ [st EXCEPT ![p] = "NONE"] = [state EXCEPT ![p] = "NONE"]
    BY <2>1, <2>3, Ready DEF States
  <2>6. Pop(stack) \in Seq(Frame) /\ Saved(Pop(stack)) /\ TypeOK /\ p \in Ptr
    BY <2>1, <2>3, Ready, PopStack, FrameFields
  <2> HIDE DEF p, st
  <2> QED
    BY <2>1, <2>2, <2>3, <2>4, <2>5, <2>6, ProcessExitShape
<1> QED
  BY <1>1, <1>2, <1>3, <1>4

LEMMA CountedShape ==
  ASSUME LInv, NEW call, InHandler(call)
  PROVE  /\ Shaped(Counted, state, next, process_list)
         /\ Counted # << >> /\ Last(Counted).op \in ThreadOp
         /\ Counted \in Seq(Frame) /\ Saved(Counted) /\ Runner(Counted, process_current)
         /\ TypeOK /\ stack # << >> /\ process_current \in Ptr
<1> DEFINE f == [Top EXCEPT !.left = Top.left - 1]
<1>1. /\ stack # << >> /\ Top.left > 0 /\ Top.op \in ThreadOp /\ Counted = Goto(f)
  BY DEF InHandler, At, Counted
<1>2. f \in Frame /\ f.op = Top.op /\ f.p = Top.p
  <2>1. f \in Frame
    <3>1. Top.left - 1 \in 0 .. HandlerOps
      BY <1>1, Ready, FrameFields, ProcessAssumption
    <3> QED
      BY <1>1, <3>1, Ready, FrameUpdates
  <2> QED
    BY <1>1, <2>1, Ready DEF Frame
<1> HIDE DEF f
<1>3. Kin(Top, f)
  BY <1>1, <1>2 DEF Kin
<1>4. Shaped(Goto(f), state, next, process_list) /\ Goto(f) # << >> /\ Last(Goto(f)) = f
  BY <1>1, <1>2, <1>3, Ready, GotoShape DEF ThreadOp
<1>5. Counted \in Seq(Frame) /\ Saved(Counted) /\ Runner(Counted, process_current)
  BY CountedKeeps DEF LInv
<1> QED
  BY <1>1, <1>2, <1>4, <1>5, Ready

LEMMA HandlerShape ==
  ASSUME LInv, Disciplined,
         \/ \E p \in Ptr, ev \in UserEvent : Post(p, ev)
         \/ \E p \in Proc, ev \in UserEvent : PostSynch(p, ev)
         \/ \E p \in Proc : Start(p) \/ Exit(p) \/ Poll(p)
  PROVE  Shaped(stack', state', next', process_list')
<1>1. ASSUME NEW p \in Ptr, NEW ev \in UserEvent, Post(p, ev)
      PROVE  Shaped(stack', state', next', process_list')
  BY <1>1, CountedShape DEF Post, list
<1>2. ASSUME NEW p \in Proc, NEW ev \in UserEvent, PostSynch(p, ev)
      PROVE  Shaped(stack', state', next', process_list')
  <2> DEFINE u == Append(Counted, [Blank EXCEPT !.op = "synch", !.saved = process_current])
  <2>1. InHandler("synch") /\ UNCHANGED list /\ CallProcess(p, ev, u, state)
    BY <1>2 DEF PostSynch
  <2>2. /\ u \in Seq(Frame) /\ Saved(u) /\ Shaped(u, state, next, process_list)
        /\ u # << >> /\ Last(u).op = "synch"
    BY <2>1, CountedShape, SynchFrame DEF ThreadOp
  <2> HIDE DEF u
  <2>3. stack # << >>
    BY <2>1, CountedShape
  <2>4. Shaped(stack', state', next, process_list)
    BY <2>1, <2>2, <2>3, Ready, CallShape, FrameFields
  <2> QED
    BY <2>1, <2>4 DEF list
<1>3. ASSUME NEW p \in Proc, Start(p)
      PROVE  Shaped(stack', state', next', process_list')
  <2>1. InHandler("start") /\ ProcessStart(p, Counted)
    BY <1>3 DEF Start
  <2> QED
    BY <2>1, CountedShape, ProcessStartShape DEF ThreadOp
<1>4. ASSUME NEW p \in Proc, Exit(p)
      PROVE  Shaped(stack', state', next', process_list')
  <2>1. /\ InHandler("exit") /\ ExitProcess(p, process_current, Counted)
        /\ ~ Active(p) /\ ~ Exiting(p)
    BY <1>4 DEF Exit, Disciplined
  <2>2. stack # << >> /\ process_current \in Ptr
    BY <2>1, CountedShape
  <2>3. CASE ~ OnList(p)
    BY <2>1, <2>3, CountedShape DEF ExitProcess, list
  <2>4. CASE OnList(p)
    <3>1. DOMAIN stack = 1 .. Len(stack)
      BY <2>2, Ready, LenProperties
    <3>2. /\ \A i \in 1 .. Len(stack) : stack[i].op = "call" => stack[i].p # p
          /\ \A i \in 1 .. Len(stack) : stack[i].op \in ExitOp => stack[i].p # p
      BY <2>1, <3>1 DEF Active, Exiting, ThreadOp, ExitOp
    <3>3. state[p] # "CALLED" /\ state[p] # "NONE"
      BY <2>2, <2>4, <3>2, Ready, Listing DEF Shaped, Marks, Linked
    <3>4. state[p] = "RUNNING"
      BY <2>2, <3>3, Ready DEF States
    <3>5. /\ Last(Counted).op # "poll" /\ Last(Counted).op # "polled"
          /\ Counted \in Seq(Frame) /\ Saved(Counted)
          /\ Shaped(Counted, state, next, process_list)
      BY <2>1, CountedShape DEF ThreadOp
    <3> QED
      BY <2>1, <2>2, <2>4, <3>4, <3>5, Ready, ProcessExitShape
  <2> QED
    BY <2>3, <2>4
<1>5. ASSUME NEW p \in Proc, Poll(p)
      PROVE  Shaped(stack', state', next', process_list')
  BY <1>5, CountedShape DEF Poll, list
<1> QED
  BY <1>1, <1>2, <1>3, <1>4, <1>5

LEMMA InitShape == Init => Shaped(stack, state, next, process_list)
<1> SUFFICES ASSUME Init
             PROVE  Shaped(stack, state, next, process_list)
  OBVIOUS
<1>1. PICK Boot \in SUBSET Proc : stack = <<[Blank EXCEPT !.op = "boot", !.due = Boot]>>
  BY DEF Init
<1> DEFINE f == [Blank EXCEPT !.op = "boot", !.due = Boot]
<1>2. f.op = "boot"
  BY BlankFrame DEF Frame
<1>3. stack = <<f>>
  BY <1>1
<1> HIDE DEF f
<1>4. Len(stack) = 1 /\ \A i \in 1 .. Len(stack) : i = 1 /\ stack[i] = f
  BY <1>3
<1>5. next \in Links /\ process_list = NULL
  BY DEF Init, Links, Ptr
<1>6. Reach(next, process_list) = {}
  BY <1>5, ReachNull
<1>7. \A p \in Proc : state[p] = "NONE"
  BY DEF Init
<1>8. Marks(stack, state)
  BY <1>2, <1>4, <1>7 DEF Marks, ExitOp
<1>9. Nests(stack)
  BY <1>2, <1>4 DEF Nests, Busy, ExitOp
<1>10. Linked(stack, state, next, process_list)
  BY <1>2, <1>4, <1>6, <1>7 DEF Linked, NoCycle, ExitOp
<1>11. Walks(stack, next, process_list)
  BY <1>2, <1>4 DEF Walks
<1> QED
  BY <1>8, <1>9, <1>10, <1>11 DEF Shaped

LEMMA StepShape ==
  ASSUME LInv, Disciplined, [Next]_vars
  PROVE  LInv'
<1>1. IInv'
  BY StepKeeps DEF LInv
<1>2. Shaped(stack', state', next', process_list')
  <2>1. CASE Kernel
    BY <2>1, BootShape, PollWalkShape, EventShape, BcastShape, ExitShape,
       UnlinkStepShape, ReturnsShape DEF Kernel
  <2>2. CASE Handler
    BY <2>2, ReturnsShape, HandlerShape DEF Handler
  <2>3. CASE \E p \in Proc : Interrupt(p)
    BY <2>3 DEF Interrupt, list, LInv
  <2>4. CASE UNCHANGED vars
    BY <2>4 DEF vars, LInv
  <2> QED
    BY <2>1, <2>2, <2>3, <2>4 DEF Next
<1> QED
  BY <1>1, <1>2 DEF LInv

-----------------------------------------------------------------------------
(* The states of the processes tell which handlers are on the stack, and   *)
(* no handler is on it twice: no event, poll or start reaches a process in *)
(* the middle of its own handler, however the calls nest.                  *)
THEOREM HandlersOnce ==
  ASSUME Disciplined
  PROVE  Spec => []CalledOnce
<1>1. LInv => CalledOnce
  <2> SUFFICES ASSUME LInv
               PROVE  CalledOnce
    OBVIOUS
  <2>1. stack \in Seq(Frame) /\ Saved(stack) /\ Shaped(stack, state, next, process_list)
    BY DEF LInv, IInv, TypeOK
  <2>2. DOMAIN stack = 1 .. Len(stack) /\ Len(stack) \in Nat
    BY <2>1, LenProperties
  <2>3. \A p \in Proc : state[p] = "CALLED" <=>
          \E i \in DOMAIN stack : stack[i].op = "call" /\ stack[i].p = p
    BY <2>1, <2>2 DEF Shaped, Marks
  <2>4. ASSUME NEW i \in 1 .. Len(stack), NEW j \in 1 .. Len(stack),
               stack[i].op \in ThreadOp, stack[j].op \in ThreadOp, stack[i].p = stack[j].p
        PROVE  i = j
    <3>1. \A k \in 1 .. Len(stack) : stack[k].op = "direct" =>
            k - 1 \in 1 .. Len(stack) /\ stack[k - 1].op = "unlink" /\ stack[k - 1].p = stack[k].p
      BY <2>1 DEF Shaped, Nests
    <3>2. CASE stack[i].op = "call" /\ stack[j].op = "call"
      BY <2>1, <2>4, <3>2 DEF Shaped, Nests, Busy
    <3>3. CASE stack[i].op = "direct" /\ stack[j].op = "direct"
      <4>1. i - 1 = j - 1
        BY <2>1, <2>4, <3>1, <3>3 DEF Shaped, Nests, Busy, ExitOp
      <4> QED
        BY <4>1
    <3>4. \A k, l \in 1 .. Len(stack) :
            stack[k].op = "call" /\ stack[l].op = "direct" => stack[k].p # stack[l].p
      <4> SUFFICES ASSUME NEW k \in 1 .. Len(stack), NEW l \in 1 .. Len(stack),
                          stack[k].op = "call", stack[l].op = "direct",
                          stack[k].p = stack[l].p
                   PROVE  FALSE
        OBVIOUS
      <4>1. state[stack[k].p] = "CALLED"
        BY <2>1 DEF Shaped, Marks
      <4>2. state[stack[l - 1].p] = "NONE" /\ stack[l - 1].p = stack[l].p
        BY <2>1, <3>1 DEF Shaped, Marks, ExitOp
      <4> QED
        BY <4>1, <4>2
    <3> QED
      BY <2>4, <3>2, <3>3, <3>4 DEF ThreadOp
  <2> QED
    BY <2>2, <2>3, <2>4 DEF CalledOnce
<1>2. Init => LInv
  BY InitHolds, InitShape DEF LInv
<1>3. LInv /\ [Next]_vars => LInv'
  BY StepShape
<1> QED
  BY <1>1, <1>2, <1>3, PTL DEF Spec

(* A running process is on the list, where events, polls and the next      *)
(* start find it, and a process on the list runs or is just being ended.   *)
THEOREM RunningIsListed ==
  ASSUME Disciplined
  PROVE  Spec => []StateListAgree
<1>1. LInv => StateListAgree
  <2> SUFFICES ASSUME LInv
               PROVE  StateListAgree
    OBVIOUS
  <2>1. Shaped(stack, state, next, process_list) /\ DOMAIN stack = 1 .. Len(stack)
    BY LenProperties DEF LInv, IInv, TypeOK
  <2> QED
    BY <2>1, Listing DEF StateListAgree, Exiting, Shaped, Linked, ExitOp
<1>2. Init => LInv
  BY InitHolds, InitShape DEF LInv
<1>3. LInv /\ [Next]_vars => LInv'
  BY StepShape
<1> QED
  BY <1>1, <1>2, <1>3, PTL DEF Spec

(* Every walk over the list ends: no node leads back to itself, whatever   *)
(* handlers started and ended in the course of it.                         *)
THEOREM ListHasNoCycle ==
  ASSUME Disciplined
  PROVE  Spec => []ListAcyclic
<1>1. LInv => ListAcyclic
  <2> SUFFICES ASSUME LInv, NEW p \in Proc, OnList(p)
               PROVE  p \notin Ahead(next[p])
    BY DEF ListAcyclic
  <2>1. p \in Reach(next, process_list) /\ NoCycle(next, process_list)
    BY Listing DEF LInv, Shaped, Linked
  <2>2. Ahead(next[p]) = Reach(next, next[p])
    BY DEF Ahead, Reach
  <2> QED
    BY <2>1, <2>2 DEF NoCycle
<1>2. Init => LInv
  BY InitHolds, InitShape DEF LInv
<1>3. LInv /\ [Next]_vars => LInv'
  BY StepShape
<1> QED
  BY <1>1, <1>2, <1>3, PTL DEF Spec

-----------------------------------------------------------------------------
(* Polls.  The walk of do_poll that a frame stands for has q ahead.        *)
Seeks(f, n, q) == \/ f.op = "poll" /\ q \in Reach(n, f.cur)
                  \/ f.op = "polled" /\ q \in Reach(n, n[f.cur])

Asked(q) == poll_requested \/ \E i \in 1 .. Len(stack) : Seeks(stack[i], next, q)

PInv == \A q \in owed : needspoll[q] /\ state[q] # "NONE" /\ Asked(q)

(* From s to t every poll walk is where it was.                            *)
WalkKept(s, t) ==
  \A i \in 1 .. Len(s) : s[i].op \in {"poll", "polled"} =>
    i \in 1 .. Len(t) /\ t[i].op = s[i].op /\ t[i].cur = s[i].cur

LEMMA AnyFrame ==
  ASSUME NEW s \in Seq(Frame), NEW f
  PROVE  s \in Seq(Frame \cup {f}) /\ Len(s) \in Nat
<1>1. /\ Len(s) \in Nat /\ DOMAIN s = 1 .. Len(s)
      /\ \A i \in 1 .. Len(s) : s[i] \in Frame
  BY LenProperties, ElementOfSeq
<1> QED
  BY <1>1

LEMMA WalkSteps ==
  /\ \A s : WalkKept(s, s)
  /\ \A s, t, u : WalkKept(s, t) /\ WalkKept(t, u) => WalkKept(s, u)
BY DEF WalkKept

LEMMA WalkPush ==
  ASSUME NEW s \in Seq(Frame), NEW f
  PROVE  WalkKept(s, Append(s, f))
<1> DEFINE S == Frame \cup {f}
<1>1. s \in Seq(S) /\ f \in S /\ Len(s) \in Nat
  BY AnyFrame
<1> HIDE DEF S
<1>2. /\ Len(Append(s, f)) = Len(s) + 1
      /\ \A i \in 1 .. Len(s) : Append(s, f)[i] = s[i]
  BY <1>1, AppendProperties
<1> QED
  BY <1>1, <1>2 DEF WalkKept

LEMMA WalkPop ==
  ASSUME NEW s \in Seq(Frame), s # << >>, Last(s).op \notin {"poll", "polled"}
  PROVE  WalkKept(s, Pop(s))
<1>1. /\ Len(Pop(s)) = Len(s) - 1
      /\ \A i \in 1 .. Len(s) - 1 : Pop(s)[i] = s[i]
      /\ \A i \in 1 .. Len(s) : i # Len(s) => i \in 1 .. Len(s) - 1
  BY Popped
<1> QED
  BY <1>1 DEF WalkKept, Last

LEMMA WalkGoto ==
  ASSUME stack \in Seq(Frame), stack # << >>, Top.op \notin {"poll", "polled"}, NEW f
  PROVE  WalkKept(stack, Goto(f))
<1> DEFINE S == Frame \cup {f}
<1>1. stack \in Seq(S) /\ f \in S /\ Len(stack) \in 1 .. Len(stack)
  <2>1. Len(stack) \in Nat \ {0}
    BY EmptySeq
  <2> QED
    BY <2>1, AnyFrame
<1> HIDE DEF S
<1>2. /\ Len(Goto(f)) = Len(stack)
      /\ \A i \in 1 .. Len(stack) : Goto(f)[i] = IF i = Len(stack) THEN f ELSE stack[i]
  BY <1>1, ExceptSeq DEF Goto
<1> QED
  BY <1>2 DEF WalkKept, Top

LEMMA WalkCall ==
  ASSUME NEW s \in Seq(Frame), NEW st \in States, NEW p \in Proc, NEW ev \in Event,
         CallProcess(p, ev, s, st)
  PROVE  /\ WalkKept(s, stack')
         /\ \A q \in Proc : st[q] # "NONE" => state'[q] # "NONE"
<1>1. CASE st[p] = "RUNNING"
  <2> DEFINE f == [Blank EXCEPT !.op = "call", !.p = p, !.ev = ev, !.left = HandlerOps]
  <2>1. f \in Frame
    BY BlankFrame, FrameFields, FrameUpdates DEF ThreadOp
  <2>2. stack' = Append(s, f) /\ state' = [st EXCEPT ![p] = "CALLED"]
    BY <1>1 DEF CallProcess
  <2> HIDE DEF f
  <2> QED
    BY <2>1, <2>2, WalkPush DEF States
<1>2. CASE st[p] # "RUNNING"
  BY <1>2, WalkSteps DEF CallProcess
<1> QED
  BY <1>1, <1>2

(* What keeps the polls: the walks go on as they were, and their cursors   *)
(* still lead to whoever is owed a poll.                                   *)
LEMMA PollsKept ==
  ASSUME PInv, owed \in SUBSET Proc, WalkKept(stack, stack'),
         owed' \subseteq owed, needspoll' = needspoll, poll_requested' = poll_requested,
         \A q \in owed' : state[q] # "NONE" => state'[q] # "NONE",
         \A q \in owed', i \in 1 .. Len(stack) :
            Seeks(stack[i], next, q) => Seeks(stack[i], next', q)
  PROVE  PInv'
<1> SUFFICES ASSUME NEW q \in owed'
             PROVE  needspoll'[q] /\ state'[q] # "NONE" /\ Asked(q)'
  BY DEF PInv
<1>1. needspoll'[q] /\ state'[q] # "NONE" /\ Asked(q)
  BY DEF PInv
<1>2. CASE poll_requested
  BY <1>1, <1>2 DEF Asked
<1>3. CASE \E i \in 1 .. Len(stack) : Seeks(stack[i], next, q)
  <2>1. PICK i \in 1 .. Len(stack) : Seeks(stack[i], next, q)
    BY <1>3
  <2>2. Seeks(stack[i], next', q)
    BY <2>1
  <2>3. i \in 1 .. Len(stack') /\ Seeks(stack'[i], next', q)
    BY <2>2 DEF WalkKept, Seeks
  <2> QED
    BY <1>1, <2>3 DEF Asked
<1> QED
  BY <1>1, <1>2, <1>3 DEF Asked

(* Steps that leave the list and the polls alone.                          *)
LEMMA PollsAlone ==
  ASSUME LInv, PInv, WalkKept(stack, stack'), UNCHANGED <<list, polls>>,
         \A q \in Proc : state[q] # "NONE" => state'[q] # "NONE"
  PROVE  PInv'
<1>1. /\ next' = next /\ needspoll' = needspoll /\ owed' = owed
      /\ poll_requested' = poll_requested /\ owed \in SUBSET Proc
  BY DEF LInv, IInv, TypeOK, list, polls
<1> QED
  BY <1>1, PollsKept

LEMMA OnlyGoto ==
  ASSUME LInv, PInv, stack # << >>, Top.op \notin {"poll", "polled"},
         NEW f, stack' = Goto(f), UNCHANGED <<list, state, polls>>
  PROVE  PInv'
<1>1. WalkKept(stack, stack')
  BY Ready, WalkGoto
<1> QED
  BY <1>1, PollsAlone

LEMMA OnlyPop ==
  ASSUME LInv, PInv, stack # << >>, Top.op \notin {"poll", "polled"},
         stack' = Pop(stack), UNCHANGED <<list, polls>>,
         \A q \in Proc : state[q] # "NONE" => state'[q] # "NONE"
  PROVE  PInv'
<1>1. WalkKept(stack, stack')
  BY Ready, WalkPop
<1> QED
  BY <1>1, PollsAlone

LEMMA OnlyCall ==
  ASSUME LInv, PInv, stack # << >>, NEW s \in Seq(Frame), WalkKept(stack, s),
         NEW p \in Proc, NEW ev \in Event, CallProcess(p, ev, s, state),
         UNCHANGED <<list, polls>>
  PROVE  PInv'
<1>1. WalkKept(stack, stack') /\ \A q \in Proc : state[q] # "NONE" => state'[q] # "NONE"
  BY Ready, WalkCall, WalkSteps
<1> QED
  BY <1>1, PollsAlone

(* Starting p leads no cursor elsewhere: p was not on the list.            *)
LEMMA StartPolls ==
  ASSUME LInv, PInv, stack # << >>, Top.op \notin {"poll", "polled"},
         NEW s \in Seq(Frame), Saved(s), Runner(s, process_current), WalkKept(stack, s),
         NEW p \in Proc, ProcessStart(p, s)
  PROVE  PInv'
<1>1. UNCHANGED polls
  BY DEF ProcessStart
<1>2. CASE stack' = s /\ UNCHANGED <<list, state, process_current>>
  BY <1>1, <1>2, PollsAlone
<1>3. CASE /\ ~ OnList(p)
           /\ next' = [next EXCEPT ![p] = process_list]
           /\ CallProcess(p, "INIT",
                          Append(s, [Blank EXCEPT !.op = "synch", !.saved = process_current]),
                          [state EXCEPT ![p] = "RUNNING"])
  <2> DEFINE f == [Blank EXCEPT !.op = "synch", !.saved = process_current]
             st == [state EXCEPT ![p] = "RUNNING"]
  <2>1. f \in Frame
    BY Ready, BlankFrame, FrameFields, FrameUpdates DEF Restoring
  <2>2. CallProcess(p, "INIT", Append(s, f), st) /\ st \in States
    BY <1>3, Ready DEF States
  <2>3. \A q \in Proc : state[q] # "NONE" => st[q] # "NONE"
    BY Ready DEF States
  <2> HIDE DEF f, st
  <2>4. Append(s, f) \in Seq(Frame) /\ WalkKept(s, Append(s, f))
    BY <2>1, WalkPush, AppendProperties
  <2>5. /\ WalkKept(stack, stack')
        /\ \A q \in Proc : state[q] # "NONE" => state'[q] # "NONE"
    BY <2>2, <2>3, <2>4, WalkCall, WalkSteps, FrameFields
  <2>6. /\ p \notin Reach(next, process_list) /\ next' = InFront(next, process_list, p)
        /\ \A x \in Proc \ {p} : next'[x] = next[x]
        /\ \A c \in Reach(next, process_list) \cup {NULL} : Reach(next', c) = Reach(next, c)
    <3>1. next \in Links /\ process_list \in Ptr /\ p \notin Reach(next, process_list)
      BY <1>3, Ready, Listing
    <3>2. next' = InFront(next, process_list, p)
      BY <1>3 DEF InFront
    <3> QED
      BY <3>1, <3>2, ReachFront
  <2>7. ASSUME NEW q \in Proc, NEW i \in 1 .. Len(stack), Seeks(stack[i], next, q)
        PROVE  Seeks(stack[i], next', q)
    <3>1. i \in 1 .. Len(stack) - 1 /\ stack[i].op = "polled"
      <4>1. stack[i].op \in {"poll", "polled"} /\ i # Len(stack)
        BY <2>7, Ready DEF Seeks
      <4>2. i \in 1 .. Len(stack) - 1
        BY <4>1, Ready
      <4> QED
        BY <4>1, <4>2, Ready DEF Shaped, Nests
    <3>2. stack[i].cur \in Reach(next, process_list)
      BY <3>1, Ready, PolledListed
    <3>3. /\ next'[stack[i].cur] = next[stack[i].cur]
          /\ next[stack[i].cur] \in Reach(next, process_list) \cup {NULL}
      BY <2>6, <3>2, Ready, ReachLeast
    <3> QED
      BY <2>6, <2>7, <3>1, <3>3 DEF Seeks
  <2>8. /\ needspoll' = needspoll /\ owed' = owed
        /\ poll_requested' = poll_requested /\ owed \in SUBSET Proc
    BY <1>1, Ready DEF TypeOK, polls
  <2> QED
    BY <2>5, <2>7, <2>8, PollsKept
<1> QED
  BY <1>2, <1>3 DEF ProcessStart

(* A process that ends is owed no poll.                                    *)
LEMMA ExitPolls ==
  ASSUME LInv, PInv, stack # << >>, NEW s \in Seq(Frame), Saved(s), WalkKept(stack, s),
         NEW p \in Proc, NEW from \in Ptr, ExitProcess(p, from, s)
  PROVE  PInv'
<1>1. /\ next' = next /\ needspoll' = needspoll /\ poll_requested' = poll_requested
      /\ UNCHANGED list /\ owed \in SUBSET Proc
  BY Ready DEF ExitProcess, list, TypeOK
<1>2. CASE stack' = s /\ UNCHANGED <<state, owed>>
  BY <1>1, <1>2, PollsKept
<1>3. CASE /\ stack' = Append(s, [Blank EXCEPT !.op = "unlink", !.p = p,
                                               !.saved = process_current])
           /\ UNCHANGED <<state, owed>>
  <2>1. WalkKept(stack, stack')
    BY <1>3, WalkPush, WalkSteps
  <2> QED
    BY <1>1, <1>3, <2>1, PollsKept
<1>4. CASE /\ state' = [state EXCEPT ![p] = "NONE"]
           /\ owed' = owed \ {p}
           /\ stack' = Append([i \in DOMAIN s |-> [s[i] EXCEPT !.due = @ \ {p}]],
                              [Blank EXCEPT !.op = "exit", !.p = p, !.from = from,
                                            !.saved = process_current,
                                            !.cur = process_list,
                                            !.due = {q \in Proc \ {p} : state[q] # "NONE"}])
  <2> DEFINE t == [i \in DOMAIN s |-> [s[i] EXCEPT !.due = @ \ {p}]]
             f == [Blank EXCEPT !.op = "exit", !.p = p, !.from = from,
                                !.saved = process_current, !.cur = process_list,
                                !.due = {q \in Proc \ {p} : state[q] # "NONE"}]
  <2>1. stack' = Append(t, f)
    BY <1>4
  <2>2. /\ t \in Seq(Frame) /\ Len(t) = Len(s)
        /\ \A i \in 1 .. Len(s) : t[i].op = s[i].op /\ t[i].cur = s[i].cur
    BY StruckFrames
  <2> HIDE DEF t, f
  <2>3. WalkKept(s, t) /\ WalkKept(t, stack')
    BY <2>1, <2>2, WalkPush DEF WalkKept
  <2>4. WalkKept(stack, stack')
    BY <2>3, WalkSteps
  <2>5. \A q \in owed' : state[q] # "NONE" => state'[q] # "NONE"
    BY <1>1, <1>4, Ready DEF States
  <2> QED
    BY <1>1, <1>4, <2>4, <2>5, PollsKept
<1> QED
  BY <1>2, <1>3, <1>4 DEF ExitProcess

(* Whoever leaves the list was not owed a poll, and from a polled process, *)
(* itself the one that leaves perhaps, the walk still meets the others.    *)
LEMMA UnlinkPolls ==
  ASSUME LInv, PInv, Unlink
  PROVE  PInv'
<1> DEFINE p == Top.p
<1>1. stack # << >> /\ Top.op = "unlink" /\ stack' = Pop(stack) /\ UNCHANGED <<state, polls>>
  BY DEF Unlink, At
<1>2. IF p = process_list
      THEN process_list' = next[p] /\ next' = next
      ELSE process_list' = process_list /\ next' = Without(next, process_list, p)
  BY Listing DEF Unlink, Without
<1>3. p \in Reach(next, process_list) /\ state[p] = "NONE" /\ NoCycle(next, process_list)
  BY <1>1, Ready DEF Shaped, Marks, Linked, ExitOp
<1>4. \A c \in Reach(next, process_list) :
         Reach(next, next[c]) \ {p} \subseteq Reach(next', next'[c])
  BY <1>1, <1>2, <1>3, Ready, Removed
<1>5. WalkKept(stack, stack')
  BY <1>1, Ready, WalkPop
<1> HIDE DEF p
<1>6. ASSUME NEW q \in owed, NEW i \in 1 .. Len(stack), Seeks(stack[i], next, q)
      PROVE  Seeks(stack[i], next', q)
  <2>1. i \in 1 .. Len(stack) - 1 /\ stack[i].op = "polled"
    <3>1. stack[i].op \in {"poll", "polled"} /\ i # Len(stack)
      BY <1>1, <1>6, Ready DEF Seeks
    <3>2. i \in 1 .. Len(stack) - 1
      BY <1>1, <3>1, Ready
    <3> QED
      BY <1>1, <3>1, <3>2, Ready DEF Shaped, Nests
  <2>2. stack[i].cur \in Reach(next, process_list)
    BY <1>1, <2>1, Ready, PolledListed
  <2>3. q # p
    BY <1>3, <1>6 DEF PInv
  <2>4. q \in Reach(next, next[stack[i].cur])
    BY <1>6, <2>1 DEF Seeks
  <2> QED
    BY <1>4, <2>1, <2>2, <2>3, <2>4 DEF Seeks
<1>7. /\ needspoll' = needspoll /\ owed' = owed
      /\ poll_requested' = poll_requested /\ owed \in SUBSET Proc
  BY <1>1, Ready DEF TypeOK, polls
<1> QED
  BY <1>1, <1>5, <1>6, <1>7, PollsKept

(* The poll walk itself: a frame's cursor moves on from whom it polled, or *)
(* from one that asked for no poll.                                        *)
LEMMA WalkOn ==
  ASSUME LInv, PInv, stack # << >>, Top.op \in {"poll", "polled"},
         owed' \subseteq owed, poll_requested' = poll_requested,
         \A q \in owed' : needspoll'[q] /\ state'[q] # "NONE",
         NEW s, Len(s) = Len(stack), WalkKept(s, stack'),
         \A q \in owed' : Seeks(Top, next, q) => Seeks(Last(s), next', q)
  PROVE  PInv'
<1> SUFFICES ASSUME NEW q \in owed'
             PROVE  Asked(q)'
  BY DEF PInv
<1>1. Asked(q)
  BY DEF PInv
<1>2. CASE poll_requested
  BY <1>2 DEF Asked
<1>3. CASE \E i \in 1 .. Len(stack) : Seeks(stack[i], next, q)
  <2>1. PICK i \in 1 .. Len(stack) : Seeks(stack[i], next, q)
    BY <1>3
  <2>2. stack[i].op \in {"poll", "polled"} /\ Len(stack) \in 1 .. Len(stack)
        /\ Top = stack[Len(stack)]
    BY <2>1, Ready DEF Seeks
  <2>3. i = Len(stack)
    BY <2>2, Ready DEF Shaped, Nests
  <2>4. Seeks(Last(s), next', q)
    BY <2>1, <2>2, <2>3
  <2>5. Len(s) \in 1 .. Len(stack') /\ Seeks(stack'[Len(s)], next', q)
    BY <2>2, <2>4 DEF WalkKept, Seeks, Last
  <2> QED
    BY <2>5 DEF Asked
<1> QED
  BY <1>1, <1>2, <1>3 DEF Asked

LEMMA WalkPolls ==
  ASSUME LInv, PInv, DoPoll \/ PollNext
  PROVE  PInv'
<1>1. CASE DoPoll
  <2>1. /\ stack # << >> /\ Top.op = "poll" /\ UNCHANGED list
        /\ poll_requested' = poll_requested
    BY <1>1 DEF DoPoll, At
  <2>2. Top.cur \in Reach(next, process_list) \cup {NULL}
    BY <2>1, Ready DEF Shaped, Walks
  <2>3. CASE Top.cur = NULL
    <3>1. stack' = Pop(stack) /\ UNCHANGED <<state, needspoll, owed>>
      BY <1>1, <2>3 DEF DoPoll
    <3>2. \A q \in owed : poll_requested
      <4> SUFFICES ASSUME NEW q \in owed, ~ poll_requested
                   PROVE  FALSE
        OBVIOUS
      <4>1. PICK i \in 1 .. Len(stack) : Seeks(stack[i], next, q)
        BY DEF PInv, Asked
      <4>2. stack[i].op \in {"poll", "polled"}
        BY <4>1 DEF Seeks
      <4>3. i = Len(stack)
        BY <2>1, <4>2, Ready DEF Shaped, Nests
      <4>4. q \in Reach(next, NULL)
        BY <2>1, <2>3, <4>1, <4>3, Ready DEF Seeks
      <4> QED
        BY <2>1, <4>4, Ready, ReachNull
    <3> QED
      BY <2>1, <3>1, <3>2 DEF PInv, Asked
  <2>4. CASE Top.cur # NULL /\ ~ needspoll[Top.cur]
    <3> DEFINE f == [Top EXCEPT !.cur = next[Top.cur]]
    <3>1. stack' = Goto(f) /\ UNCHANGED <<state, needspoll, owed>>
      BY <1>1, <2>4 DEF DoPoll
    <3>2. Top.cur \in Proc /\ next[Top.cur] \in Ptr
      BY <2>1, <2>2, <2>4, Ready, ReachLeast DEF Links
    <3>3. f \in Frame /\ f.op = "poll" /\ f.cur = next[Top.cur]
      <4>1. f \in Frame
        BY <2>1, <3>2, Ready, FrameUpdates
      <4> QED
        BY <2>1, <4>1, Ready DEF Frame
    <3> HIDE DEF f
    <3>4. ASSUME NEW q \in owed, Seeks(Top, next, q)
          PROVE  Seeks(f, next, q)
      <4>1. q \in Reach(next, Top.cur) /\ q # Top.cur
        BY <2>1, <2>4, <3>4 DEF Seeks, PInv
      <4> QED
        BY <2>1, <3>2, <3>3, <4>1, Ready, ReachStep DEF Seeks
    <3>5. Len(Goto(f)) = Len(stack) /\ Last(Goto(f)) = f
      BY <2>1, <3>3, Ready, Replaced DEF Last
    <3>6. WalkKept(Goto(f), stack') /\ next' = next
      BY <2>1, <3>1, WalkSteps DEF list
    <3>7. \A q \in owed' : needspoll'[q] /\ state'[q] # "NONE"
      BY <3>1 DEF PInv
    <3> QED
      BY <2>1, <3>1, <3>4, <3>5, <3>6, <3>7, WalkOn
  <2>5. CASE Top.cur # NULL /\ needspoll[Top.cur]
    <3> DEFINE f == [Top EXCEPT !.op = "polled"]
               st == [state EXCEPT ![Top.cur] = "RUNNING"]
    <3>1. /\ CallProcess(Top.cur, "POLL", Goto(f), st)
          /\ needspoll' = [needspoll EXCEPT ![Top.cur] = FALSE]
          /\ owed' = owed \ {Top.cur}
      BY <1>1, <2>5 DEF DoPoll
    <3>2. Top.cur \in Proc
      BY <2>1, <2>2, <2>5, Ready, ReachLeast
    <3>3. st \in States /\ \A q \in Proc : state[q] # "NONE" => st[q] # "NONE"
      BY <2>1, Ready DEF States
    <3>4. f \in Frame /\ f.op = "polled" /\ f.cur = Top.cur /\ Held(f)
      <4>1. f \in Frame
        BY <2>1, Ready, FrameFields, FrameUpdates
      <4>2. f.op = "polled" /\ f.cur = Top.cur
        BY <2>1, <4>1, Ready DEF Frame
      <4> QED
        BY <3>2, <4>1, <4>2 DEF Held, ThreadOp
    <3> HIDE DEF f, st
    <3>5. Goto(f) \in Seq(Frame) /\ Len(Goto(f)) = Len(stack) /\ Last(Goto(f)) = f
      <4>1. Goto(f) \in Seq(Frame)
        BY <2>1, <3>4, Ready, GotoRunner DEF Restoring, ThreadOp
      <4> QED
        BY <2>1, <3>4, <4>1, Ready, Replaced DEF Last
    <3>6. /\ WalkKept(Goto(f), stack')
          /\ \A q \in Proc : st[q] # "NONE" => state'[q] # "NONE"
      BY <3>1, <3>2, <3>3, <3>5, WalkCall, FrameFields
    <3>7. /\ owed' \subseteq owed /\ owed \in SUBSET Proc /\ next' = next
          /\ \A q \in owed' : q \in Proc /\ q # Top.cur
      BY <2>1, <3>1, Ready DEF TypeOK, list
    <3>8. \A q \in owed' : needspoll'[q] /\ state'[q] # "NONE"
      <4>1. \A q \in Proc \ {Top.cur} : needspoll'[q] = needspoll[q]
        BY <2>1, <3>1, Ready DEF TypeOK
      <4> QED
        BY <3>3, <3>6, <3>7, <4>1 DEF PInv
    <3>9. ASSUME NEW q \in owed', Seeks(Top, next, q)
          PROVE  Seeks(f, next', q)
      <4>1. q \in Reach(next, Top.cur) /\ q # Top.cur
        BY <2>1, <3>7, <3>9 DEF Seeks
      <4> QED
        BY <2>1, <3>2, <3>4, <3>7, <4>1, Ready, ReachStep DEF Seeks
    <3> QED
      BY <2>1, <3>5, <3>6, <3>7, <3>8, <3>9, WalkOn
  <2> QED
    BY <2>3, <2>4, <2>5
<1>2. CASE PollNext
  <2> DEFINE f == [Top EXCEPT !.op = "poll", !.cur = next[Top.cur]]
  <2>1. /\ stack # << >> /\ Top.op = "polled" /\ stack' = Goto(f)
        /\ UNCHANGED <<list, state, polls>>
    BY <1>2 DEF PollNext, At
  <2>2. f \in Frame /\ f.op = "poll" /\ f.cur = next[Top.cur]
    <3>1. next[Top.cur] \in Ptr
      BY <2>1, Ready DEF Held, Links
    <3>2. f \in Frame
      BY <2>1, <3>1, Ready, FrameFields, FrameUpdates
    <3> QED
      BY <2>1, <3>2, Ready DEF Frame
  <2> HIDE DEF f
  <2>3. Len(Goto(f)) = Len(stack) /\ Last(Goto(f)) = f
    BY <2>1, <2>2, Ready, Replaced DEF Last
  <2>4. WalkKept(Goto(f), stack') /\ next' = next
    BY <2>1, WalkSteps DEF list
  <2>5. /\ owed' = owed /\ poll_requested' = poll_requested
        /\ \A q \in owed' : needspoll'[q] /\ state'[q] # "NONE"
    BY <2>1 DEF polls, PInv
  <2>6. \A q \in owed' : Seeks(Top, next, q) => Seeks(f, next', q)
    BY <2>1, <2>2, <2>4 DEF Seeks
  <2> QED
    BY <2>1, <2>3, <2>4, <2>5, <2>6, WalkOn
<1> QED
  BY <1>1, <1>2

(* A walk begins: whoever is owed a poll is on the list.                   *)
LEMMA OwedListed ==
  ASSUME LInv, PInv, owed \in SUBSET Proc, NEW q \in owed
  PROVE  Seeks(PollFrame, next, q)
<1>1. PollFrame.op = "poll" /\ PollFrame.cur = process_list
  BY BlankFrame DEF Frame, PollFrame
<1>2. q \in Reach(next, process_list)
  BY DEF LInv, PInv, Shaped, Linked
<1> QED
  BY <1>1, <1>2 DEF Seeks

LEMMA BeginPolls ==
  ASSUME LInv, PInv, ProcessRun \/ BcastTest
  PROVE  PInv'
<1>0. owed \in SUBSET Proc /\ poll_requested \in BOOLEAN /\ stack \in Seq(Frame)
  BY DEF LInv, IInv, TypeOK
<1>1. CASE ProcessRun
  <2>1. /\ stack = << >> /\ UNCHANGED <<list, state, needspoll, owed>>
        /\ poll_requested => stack' = <<Blank, PollFrame>>
    BY <1>1 DEF ProcessRun
  <2>2. \A q \in owed : poll_requested
    BY <2>1 DEF PInv, Asked
  <2>3. ASSUME NEW q \in owed
        PROVE  Asked(q)'
    <3>1. stack' = <<Blank, PollFrame>>
      BY <2>1, <2>2
    <3>2. 2 \in 1 .. Len(stack') /\ stack'[2] = PollFrame /\ next' = next
      BY <2>1, <3>1 DEF list
    <3>3. Seeks(PollFrame, next, q)
      BY <1>0, OwedListed
    <3> QED
      BY <3>2, <3>3 DEF Asked
  <2> QED
    BY <2>1, <2>3 DEF PInv
<1>2. CASE BcastTest
  <2>1. /\ stack # << >> /\ Top.op = "bcast" /\ UNCHANGED <<list, state, needspoll, owed>>
    BY <1>2 DEF BcastTest, At
  <2>2. CASE Top.cur = NULL
    <3>1. stack' = Pop(stack) /\ UNCHANGED <<list, state, polls>>
      BY <1>2, <2>1, <2>2 DEF BcastTest, polls
    <3> QED
      BY <2>1, <3>1, OnlyPop
  <2>3. CASE Top.cur # NULL /\ ~ poll_requested
    <3>1. /\ stack' = Goto([Top EXCEPT !.op = "deliver"])
          /\ poll_requested' = FALSE
      BY <1>2, <2>3 DEF BcastTest
    <3>2. poll_requested' = poll_requested
      BY <1>0, <2>3, <3>1
    <3>3. UNCHANGED polls
      BY <2>1, <3>2 DEF polls
    <3> QED
      BY <2>1, <3>1, <3>3, OnlyGoto
  <2>4. CASE Top.cur # NULL /\ poll_requested
    <3> DEFINE f == [Top EXCEPT !.op = "deliver"]
    <3>1. stack' = Append(Goto(f), PollFrame)
      BY <1>2, <2>4 DEF BcastTest
    <3>2. f \in Frame /\ f.op = "deliver" /\ Held(f)
      <4>1. f \in Frame
        BY <2>1, Ready, FrameFields, FrameUpdates
      <4>2. f.op = "deliver" /\ f.cur = Top.cur
        BY <2>1, <4>1, Ready DEF Frame
      <4>3. Top.cur \in Proc
        BY <2>1, <2>4, Ready, FrameFields DEF Ptr
      <4> QED
        BY <4>1, <4>2, <4>3 DEF Held, ThreadOp
    <3>3. PollFrame \in Frame
      BY <2>1, Ready, BlankFrame, FrameFields, FrameUpdates DEF PollFrame
    <3> HIDE DEF f
    <3>4. Goto(f) \in Seq(Frame)
      BY <2>1, <3>2, Ready, GotoRunner DEF Restoring, ThreadOp
    <3>5. Len(stack') \in 1 .. Len(stack') /\ stack'[Len(stack')] = PollFrame
      BY <3>1, <3>3, <3>4, Pushed, LenProperties
    <3>6. ASSUME NEW q \in owed
          PROVE  Asked(q)'
      <4>1. Seeks(PollFrame, next, q) /\ next' = next
        BY <1>0, <2>1, OwedListed DEF list
      <4> QED
        BY <3>5, <4>1 DEF Asked
    <3> QED
      BY <2>1, <3>6 DEF PInv
  <2> QED
    BY <1>0, <2>2, <2>3, <2>4
<1> QED
  BY <1>1, <1>2

(* process_poll by a handler or an interrupt: do_poll is asked for.        *)
LEMMA AskPolls ==
  ASSUME LInv, PInv, NEW p \in Proc, ProcessPoll(p), UNCHANGED state,
         WalkKept(stack, stack'), UNCHANGED list
  PROVE  PInv'
<1>1. CASE state[p] \in {"RUNNING", "CALLED"}
  <2>1. /\ needspoll' = [needspoll EXCEPT ![p] = TRUE] /\ poll_requested' = TRUE
        /\ owed' = owed \cup {p} /\ state' = state
    BY <1>1 DEF ProcessPoll
  <2>2. needspoll \in [Proc -> BOOLEAN] /\ owed \in SUBSET Proc
    BY DEF LInv, IInv, TypeOK
  <2>3. \A q \in owed' : needspoll'[q] /\ state'[q] # "NONE"
    BY <1>1, <2>1, <2>2 DEF PInv
  <2> QED
    BY <2>1, <2>3 DEF PInv, Asked
<1>2. CASE state[p] \notin {"RUNNING", "CALLED"}
  BY <1>2, PollsAlone DEF ProcessPoll
<1> QED
  BY <1>1, <1>2

LEMMA KernelPolls ==
  ASSUME LInv, PInv, Disciplined, Kernel
  PROVE  PInv'
<1>1. CASE BootDone
  BY <1>1, OnlyPop DEF BootDone, At
<1>2. CASE DoEvent
  <2>1. stack # << >> /\ Top.op = "event" /\ UNCHANGED <<list, polls>>
    BY <1>2 DEF DoEvent, At
  <2>2. CASE queue = << >>
    BY <1>2, <2>1, <2>2, OnlyPop DEF DoEvent
  <2>3. CASE queue # << >> /\ Head(queue).p = NULL
    BY <1>2, <2>1, <2>3, OnlyGoto DEF DoEvent
  <2>4. CASE queue # << >> /\ Head(queue).p # NULL
    <3> DEFINE E == [ev : UserEvent, p : Ptr]
               p == Head(queue).p
               ev == Head(queue).ev
    <3>1. queue \in Seq(E)
      BY <2>1, Ready DEF TypeOK
    <3> HIDE DEF E
    <3>2. Head(queue) \in E
      BY <2>4, <3>1, HeadTailProperties
    <3>3. p \in Proc /\ ev \in Event /\ ev # "INIT"
      BY <2>4, <3>2, FrameFields DEF Ptr, Disciplined, E
    <3>4. CallProcess(p, ev, Pop(stack), state)
      BY <1>2, <2>4, <3>3 DEF DoEvent
    <3> HIDE DEF p, ev
    <3>5. Pop(stack) \in Seq(Frame) /\ WalkKept(stack, Pop(stack))
      BY <2>1, Ready, PopStack, WalkPop
    <3> QED
      BY <2>1, <3>3, <3>4, <3>5, OnlyCall
  <2> QED
    BY <2>2, <2>3, <2>4
<1>3. CASE BcastDeliver \/ ExitTell
  <2>1. ASSUME NEW f \in Frame, NEW ev \in Event, stack # << >>,
               Top.op \in {"deliver", "exit"}, Top.cur \in Proc,
               f.op \notin {"poll", "polled"},
               CallProcess(Top.cur, ev, Goto(f), state), UNCHANGED <<list, polls>>
        PROVE  PInv'
    <3>1. Goto(f) \in Seq(Frame) /\ WalkKept(stack, Goto(f))
      <4>1. Len(stack) \in 1 .. Len(stack) /\ stack \in Seq(Frame)
        BY <2>1, Ready
      <4>2. Goto(f) \in Seq(Frame)
        BY <4>1, ExceptSeq DEF Goto
      <4> QED
        BY <2>1, <4>1, <4>2, WalkGoto
    <3> QED
      BY <2>1, <3>1, OnlyCall
  <2>2. CASE BcastDeliver
    <3> DEFINE d == IF state[Top.cur] = "RUNNING" THEN Top.due \ {Top.cur} ELSE Top.due
               f == [Top EXCEPT !.op = "delivered", !.due = d]
    <3>1. /\ stack # << >> /\ Top.op = "deliver" /\ UNCHANGED <<list, polls>>
          /\ CallProcess(Top.cur, Top.ev, Goto(f), state)
      BY <2>2 DEF BcastDeliver, At
    <3>2. d \in SUBSET Proc /\ Top.ev \in Event /\ Top.cur \in Proc
      BY <3>1, Ready, FrameFields DEF Held
    <3> HIDE DEF d
    <3>3. f \in Frame /\ f.op = "delivered"
      <4>1. f \in Frame
        BY <3>1, <3>2, Ready, FrameFields, FrameUpdates
      <4> QED
        BY <3>1, <4>1, Ready DEF Frame
    <3> HIDE DEF f
    <3> QED
      BY <2>1, <3>1, <3>2, <3>3
  <2>3. CASE ExitTell
    <3>1. stack # << >> /\ Top.op = "exit" /\ Top.cur # NULL /\ UNCHANGED <<list, polls>>
      BY <2>3 DEF ExitTell, At
    <3>2. CASE Top.cur = Top.p
      BY <2>3, <3>1, <3>2, OnlyGoto DEF ExitTell
    <3>3. CASE Top.cur # Top.p
      <4> DEFINE d == IF state[Top.cur] = "RUNNING" THEN Top.due \ {Top.cur} ELSE Top.due
                 f == [Top EXCEPT !.op = "told", !.due = d]
      <4>1. CallProcess(Top.cur, "EXITED", Goto(f), state)
        BY <2>3, <3>3 DEF ExitTell
      <4>2. d \in SUBSET Proc /\ Top.cur \in Proc
        BY <3>1, Ready, FrameFields DEF Ptr
      <4> HIDE DEF d
      <4>3. f \in Frame /\ f.op = "told"
        <5>1. f \in Frame
          BY <3>1, <4>2, Ready, FrameFields, FrameUpdates DEF Restoring
        <5> QED
          BY <3>1, <5>1, Ready DEF Frame
      <4> HIDE DEF f
      <4> QED
        BY <2>1, <3>1, <4>1, <4>2, <4>3, FrameFields
    <3> QED
      BY <3>2, <3>3
  <2> QED
    BY <1>3, <2>2, <2>3
<1>4. CASE BcastNext \/ ExitNext
  <2>1. /\ stack # << >> /\ Top.op \in {"delivered", "told"} /\ UNCHANGED <<list, state, polls>>
        /\ \E f : stack' = Goto(f)
    BY <1>4 DEF BcastNext, ExitNext, At
  <2> QED
    BY <2>1, OnlyGoto
<1>5. CASE ExitSelf
  <2> DEFINE f == [Top EXCEPT !.op = "unlink"]
             g == [Blank EXCEPT !.op = "direct", !.p = Top.p, !.ev = "EXIT",
                                !.left = HandlerOps]
  <2>1. /\ stack # << >> /\ Top.op = "exit" /\ UNCHANGED <<list, state, polls>>
        /\ stack' = Append(Goto(f), g) \/ stack' = Goto(f)
    BY <1>5 DEF ExitSelf, At
  <2>2. f \in Frame
    BY <2>1, Ready, FrameFields, FrameUpdates DEF Restoring
  <2> HIDE DEF f, g
  <2>3. Goto(f) \in Seq(Frame) /\ WalkKept(stack, Goto(f))
    <3>1. Len(stack) \in 1 .. Len(stack) /\ stack \in Seq(Frame)
      BY <2>1, Ready
    <3>2. Goto(f) \in Seq(Frame)
      BY <2>2, <3>1, ExceptSeq DEF Goto
    <3> QED
      BY <2>1, <3>1, <3>2, WalkGoto
  <2>4. WalkKept(stack, stack')
    <3> DEFINE s == Goto(f)
    <3>1. s \in Seq(Frame) /\ WalkKept(stack, s)
      BY <2>3
    <3>2. stack' = Append(s, g) \/ stack' = s
      BY <2>1
    <3> HIDE DEF s
    <3>3. WalkKept(s, Append(s, g))
      BY <3>1, WalkPush
    <3>4. WalkKept(stack, Append(s, g))
      BY <3>1, <3>3, WalkSteps
    <3> QED
      BY <3>1, <3>2, <3>4
  <2> QED
    BY <2>1, <2>4, PollsAlone
<1>6. CASE SynchReturn
  BY <1>6, OnlyPop DEF SynchReturn, At
<1>7. ASSUME NEW p \in Proc, BootStart(p)
      PROVE  PInv'
  <2> DEFINE f == [Top EXCEPT !.due = @ \ {p}]
  <2>1. stack # << >> /\ Top.op = "boot" /\ ProcessStart(p, Goto(f))
    BY <1>7 DEF BootStart, At
  <2>2. f \in Frame /\ f.op = "boot" /\ Held(f)
    <3>1. f \in Frame
      <4>1. Top.due \ {p} \in SUBSET Proc
        BY <2>1, Ready, FrameFields
      <4> QED
        BY <2>1, <4>1, Ready, FrameUpdates
    <3>2. f.op = "boot"
      BY <2>1, <3>1, Ready DEF Frame
    <3> QED
      BY <3>1, <3>2 DEF Held, ThreadOp
  <2> HIDE DEF f
  <2>3. /\ Goto(f) \in Seq(Frame) /\ Saved(Goto(f)) /\ Runner(Goto(f), process_current)
    BY <2>1, <2>2, Ready, GotoRunner DEF Restoring, ThreadOp
  <2>4. WalkKept(stack, Goto(f))
    BY <2>1, Ready, WalkGoto
  <2> QED
    BY <2>1, <2>3, <2>4, StartPolls
<1> QED
  BY <1>1, <1>2, <1>3, <1>4, <1>5, <1>6, <1>7, WalkPolls, BeginPolls, UnlinkPolls DEF Kernel

LEMMA HandlerPolls ==
  ASSUME LInv, PInv, Handler
  PROVE  PInv'
<1>0. ASSUME NEW call, InHandler(call)
      PROVE  /\ stack # << >> /\ Top.op \notin {"poll", "polled"}
             /\ Counted \in Seq(Frame) /\ Saved(Counted) /\ Runner(Counted, process_current)
             /\ WalkKept(stack, Counted) /\ process_current \in Ptr
  <2>1. stack # << >> /\ Top.op \in ThreadOp
    BY <1>0 DEF InHandler, At
  <2>2. WalkKept(stack, Counted)
    BY <2>1, Ready, WalkGoto DEF Counted, ThreadOp
  <2> QED
    BY <1>0, <2>1, <2>2, CountedShape DEF ThreadOp
<1>1. CASE ReturnYield
  <2>1. /\ stack # << >> /\ Top.op = "call" /\ stack' = Pop(stack) /\ UNCHANGED <<list, polls>>
        /\ state' = [state EXCEPT ![Top.p] = "RUNNING"]
    BY <1>1 DEF ReturnYield, At
  <2>2. \A q \in Proc : state[q] # "NONE" => state'[q] # "NONE"
    BY <2>1, Ready DEF States
  <2> QED
    BY <2>1, <2>2, OnlyPop
<1>2. CASE ReturnEnded
  <2>1. stack # << >> /\ Top.op = "call" /\ ExitProcess(Top.p, Top.p, Pop(stack))
    BY <1>2 DEF ReturnEnded, At
  <2>2. Pop(stack) \in Seq(Frame) /\ Saved(Pop(stack)) /\ WalkKept(stack, Pop(stack))
    BY <2>1, Ready, PopStack, WalkPop
  <2>3. Top.p \in Proc /\ Top.p \in Ptr
    BY <2>1, Ready, FrameFields DEF Held, ThreadOp
  <2> QED
    BY <2>1, <2>2, <2>3, ExitPolls
<1>3. CASE ReturnDirect
  BY <1>3, OnlyPop DEF ReturnDirect, At
<1>4. ASSUME NEW p \in Ptr, NEW ev \in UserEvent, Post(p, ev)
      PROVE  PInv'
  <2>1. InHandler("post") /\ stack' = Counted /\ UNCHANGED <<list, state, polls>>
    BY <1>4 DEF Post
  <2> QED
    BY <1>0, <2>1, PollsAlone
<1>5. ASSUME NEW p \in Proc, NEW ev \in UserEvent, PostSynch(p, ev)
      PROVE  PInv'
  <2> DEFINE f == [Blank EXCEPT !.op = "synch", !.saved = process_current]
  <2>1. InHandler("synch") /\ UNCHANGED <<list, polls>>
        /\ CallProcess(p, ev, Append(Counted, f), state)
    BY <1>5 DEF PostSynch
  <2>2. f \in Frame
    BY <1>0, <2>1, BlankFrame, FrameFields, FrameUpdates DEF Restoring
  <2> HIDE DEF f
  <2>3. Append(Counted, f) \in Seq(Frame) /\ WalkKept(stack, Append(Counted, f))
    BY <1>0, <2>1, <2>2, WalkPush, WalkSteps, AppendProperties
  <2> QED
    BY <1>0, <2>1, <2>3, OnlyCall, FrameFields
<1>6. ASSUME NEW p \in Proc, Start(p)
      PROVE  PInv'
  BY <1>0, <1>6, StartPolls DEF Start
<1>7. ASSUME NEW p \in Proc, Exit(p)
      PROVE  PInv'
  BY <1>0, <1>7, ExitPolls DEF Exit
<1>8. ASSUME NEW p \in Proc, Poll(p)
      PROVE  PInv'
  BY <1>0, <1>8, AskPolls DEF Poll
<1> QED
  BY <1>1, <1>2, <1>3, <1>4, <1>5, <1>6, <1>7, <1>8 DEF Handler

LEMMA StepPolls ==
  ASSUME LInv, PInv, Disciplined, [Next]_vars
  PROVE  PInv'
<1>1. CASE Kernel
  BY <1>1, KernelPolls
<1>2. CASE Handler
  BY <1>2, HandlerPolls
<1>3. ASSUME NEW p \in Proc, Interrupt(p)
      PROVE  PInv'
  <2>1. ProcessPoll(p) /\ UNCHANGED <<list, state>> /\ stack' = stack
    BY <1>3 DEF Interrupt
  <2> QED
    BY <2>1, AskPolls, WalkSteps
<1>4. CASE UNCHANGED vars
  BY <1>4 DEF vars, PInv, Asked
<1> QED
  BY <1>1, <1>2, <1>3, <1>4 DEF Next

(* A poll asked of a process, by an interrupt between any two steps, is    *)
(* not forgotten while that process lives: do_poll will be entered again,  *)
(* or its walk, over a list that handlers change, has the process ahead.   *)
THEOREM PollsNotLost ==
  ASSUME Disciplined
  PROVE  Spec => []NoLostPoll
<1> DEFINE Inv == LInv /\ PInv
<1>1. Inv => NoLostPoll
  <2> SUFFICES ASSUME Inv, NEW p \in owed
               PROVE  /\ needspoll[p]
                      /\ \/ poll_requested
                         \/ \E i \in DOMAIN stack : /\ stack[i].op \in {"poll", "polled"}
                                                    /\ p \in Ahead(Cursor(stack[i]))
    BY DEF NoLostPoll
  <2>1. needspoll[p] /\ Asked(p)
    BY DEF PInv
  <2>2. ASSUME NEW i \in 1 .. Len(stack), Seeks(stack[i], next, p)
        PROVE  /\ stack[i].op \in {"poll", "polled"}
               /\ p \in Ahead(Cursor(stack[i]))
    BY <2>2 DEF Seeks, Cursor, Ahead, Reach
  <2>3. DOMAIN stack = 1 .. Len(stack)
    BY LenProperties DEF LInv, IInv, TypeOK
  <2> QED
    BY <2>1, <2>2, <2>3 DEF Asked
<1>2. Init => Inv
  <2>1. Init => PInv
    BY DEF Init, PInv
  <2> QED
    BY <2>1, InitHolds, InitShape DEF LInv
<1>3. Inv /\ [Next]_vars => Inv'
  BY StepShape, StepPolls
<1> QED
  BY <1>1, <1>2, <1>3, PTL DEF Spec

-----------------------------------------------------------------------------
(* Announcements.  From wherever a cursor stands, a node of the list is    *)
(* still met after another was put in front, also when the cursor's own    *)
(* node was.                                                               *)
LEMMA FrontMeets ==
  ASSUME NEW n \in Links, NEW h \in Ptr, NEW p \in Proc, p \notin Reach(n, h),
         NEW q \in Reach(n, h)
  PROVE  /\ \A c \in Ptr : q \in Reach(n, c) => q \in Reach(InFront(n, h, p), c)
         /\ \A c \in Proc : q \in Reach(n, n[c]) =>
              q \in Reach(InFront(n, h, p), InFront(n, h, p)[c])
<1> DEFINE m == InFront(n, h, p)
<1>1. /\ m \in Links /\ m[p] = h /\ \A x \in Proc \ {p} : m[x] = n[x]
      /\ \A c \in Reach(n, h) \cup {NULL} : Reach(m, c) = Reach(n, c)
  BY ReachFront
<1> HIDE DEF m
<1>2. q \in Reach(m, h)
  <2>1. h \in Reach(n, h) \cup {NULL}
    BY ReachLeast
  <2> QED
    BY <1>1, <2>1
<1>3. ASSUME NEW c \in Ptr, q \in Reach(n, c)
      PROVE  q \in Reach(m, c)
  <2> DEFINE T == Reach(m, c)
  <2>1. T \in SUBSET Proc /\ c \in T \cup {NULL} /\ \A x \in T : m[x] \in T \cup {NULL}
    BY <1>1, ReachLeast
  <2>2. CASE p \in T
    <3>1. h \in T \cup {NULL}
      BY <1>1, <2>1, <2>2
    <3>2. Reach(m, h) \subseteq T
      BY <1>1, <3>1, ReachAhead
    <3> QED
      BY <1>2, <3>2
  <2>3. CASE p \notin T
    <3>1. \A x \in T : n[x] \in T \cup {NULL}
      BY <1>1, <2>1, <2>3
    <3> HIDE DEF T
    <3>2. Reach(n, c) \subseteq T
      BY <2>1, <3>1, ReachLeast
    <3> QED
      BY <1>3, <3>2 DEF T
  <2> QED
    BY <2>2, <2>3
<1>4. ASSUME NEW c \in Proc, q \in Reach(n, n[c])
      PROVE  q \in Reach(m, m[c])
  <2>1. n[c] \in Ptr
    BY DEF Links
  <2> QED
    BY <1>1, <1>2, <1>3, <1>4, <2>1
<1> QED
  BY <1>3, <1>4 DEF m

(* So is every node but the one that was taken out.                        *)
LEMMA OutMeets ==
  ASSUME NEW n \in Links, NEW h \in Ptr, NEW p \in Reach(n, h), NoCycle(n, h),
         NEW m, m = n \/ m = Without(n, h, p), NEW q \in Proc \ {p}
  PROVE  /\ \A c \in Ptr : q \in Reach(n, c) => q \in Reach(m, c)
         /\ \A c \in Proc : q \in Reach(n, n[c]) => q \in Reach(m, m[c])
<1>1. CASE m = n
  BY <1>1
<1>2. CASE m = Without(n, h, p)
  <2>1. p \in Proc /\ n[p] \in Ptr /\ n[p] # p
    <3>1. p \in Proc
      BY ReachLeast
    <3>2. p \in Reach(n, p) /\ p \notin Reach(n, n[p])
      BY <3>1, ReachStep DEF NoCycle
    <3> QED
      BY <3>1, <3>2 DEF Links
  <2>2. /\ m \in Links
        /\ \A x \in Proc : m[x] = n[x] \/ (n[x] = p /\ m[x] = n[p])
        /\ m[p] = n[p]
    BY <1>2, <2>1 DEF Without, Links
  <2>3. ASSUME NEW c \in Ptr, q \in Reach(n, c)
        PROVE  q \in Reach(m, c)
    <3> DEFINE T == Reach(m, c)
               U == T \cup {p}
    <3>1. T \in SUBSET Proc /\ c \in T \cup {NULL} /\ \A x \in T : m[x] \in T \cup {NULL}
      BY <2>2, ReachLeast
    <3> HIDE DEF T
    <3>2. CASE \A x \in T : n[x] \in T \cup {NULL}
      <4>1. Reach(n, c) \subseteq T
        BY <3>1, <3>2, ReachLeast
      <4> QED
        BY <2>3, <4>1 DEF T
    <3>3. CASE \E x \in T : n[x] \notin T \cup {NULL}
      <4>1. n[p] \in T \cup {NULL}
        BY <2>2, <3>1, <3>3
      <4>2. \A x \in U : n[x] \in U \cup {NULL}
        BY <2>2, <3>1, <4>1
      <4>3. U \in SUBSET Proc /\ c \in U \cup {NULL}
        BY <2>1, <3>1
      <4> HIDE DEF U
      <4>4. Reach(n, c) \subseteq U
        BY <4>2, <4>3, ReachLeast
      <4> QED
        BY <2>3, <4>4 DEF T, U
    <3> QED
      BY <3>2, <3>3
  <2>4. ASSUME NEW c \in Proc, q \in Reach(n, n[c])
        PROVE  q \in Reach(m, m[c])
    <3>1. CASE m[c] = n[c]
      <4>1. n[c] \in Ptr
        BY DEF Links
      <4> QED
        BY <2>3, <2>4, <3>1, <4>1
    <3>2. CASE n[c] = p /\ m[c] = n[p]
      <4>1. q \in Reach(n, n[p])
        BY <2>1, <2>4, <3>2, ReachStep
      <4> QED
        BY <2>1, <2>3, <3>2, <4>1
    <3> QED
      BY <2>2, <3>1, <3>2
  <2> QED
    BY <2>3, <2>4
<1> QED
  BY <1>1, <1>2

(* The walk that a broadcast or an exit stands for has q ahead; q's own    *)
(* handler is suspended below the walk, which then passed it over.         *)
Telling == {"bcast", "deliver", "delivered", "exit", "told", "unlink"}
Meets(f, n, q) == \/ f.op \in {"bcast", "deliver", "exit"} /\ q \in Reach(n, f.cur)
                  \/ f.op \in {"delivered", "told"} /\ q \in Reach(n, n[f.cur])
Skipped(s, i, q) == \E j \in 1 .. Len(s) : j < i /\ s[j].op = "call" /\ s[j].p = q

DuesMet(s, n, st) ==
  \A i \in 1 .. Len(s) : s[i].op \in Telling =>
    \A q \in s[i].due : st[q] # "NONE" /\ (Meets(s[i], n, q) \/ Skipped(s, i, q))

DInv == DuesMet(stack, next, state)

LEMMA DuesPush ==
  ASSUME NEW s \in Seq(Frame), NEW f \in Frame, NEW n, NEW st, DuesMet(s, n, st),
         f.op \in Telling => \A q \in f.due : st[q] # "NONE" /\ Meets(f, n, q)
  PROVE  DuesMet(Append(s, f), n, st)
<1> DEFINE t == Append(s, f)
<1>1. /\ Len(s) \in Nat /\ Len(t) = Len(s) + 1 /\ t[Len(s) + 1] = f
      /\ \A i \in 1 .. Len(s) : t[i] = s[i]
      /\ \A i \in 1 .. Len(s) + 1 : i # Len(s) + 1 => i \in 1 .. Len(s)
  BY Pushed, LenProperties
<1> HIDE DEF t
<1> SUFFICES ASSUME NEW i \in 1 .. Len(t), t[i].op \in Telling, NEW q \in t[i].due
             PROVE  st[q] # "NONE" /\ (Meets(t[i], n, q) \/ Skipped(t, i, q))
  BY DEF DuesMet, t
<1>2. CASE i = Len(s) + 1
  BY <1>1, <1>2
<1>3. CASE i # Len(s) + 1
  <2>1. i \in 1 .. Len(s) /\ t[i] = s[i]
    BY <1>1, <1>3
  <2>2. st[q] # "NONE" /\ (Meets(s[i], n, q) \/ Skipped(s, i, q))
    BY <2>1 DEF DuesMet
  <2>3. Skipped(s, i, q) => Skipped(t, i, q)
    BY <1>1 DEF Skipped
  <2> QED
    BY <2>1, <2>2, <2>3
<1> QED
  BY <1>2, <1>3

LEMMA DuesPop ==
  ASSUME NEW s \in Seq(Frame), s # << >>, NEW n, NEW st, DuesMet(s, n, st)
  PROVE  DuesMet(Pop(s), n, st)
<1> DEFINE t == Pop(s)
<1>1. /\ Len(s) \in Nat \ {0} /\ Len(t) = Len(s) - 1
      /\ \A i \in 1 .. Len(s) - 1 : t[i] = s[i] /\ i \in 1 .. Len(s)
  BY Popped, EmptySeq, LenProperties
<1> HIDE DEF t
<1> SUFFICES ASSUME NEW i \in 1 .. Len(t), t[i].op \in Telling, NEW q \in t[i].due
             PROVE  st[q] # "NONE" /\ (Meets(t[i], n, q) \/ Skipped(t, i, q))
  BY DEF DuesMet, t
<1>2. i \in 1 .. Len(s) /\ t[i] = s[i]
  BY <1>1
<1>3. st[q] # "NONE" /\ (Meets(s[i], n, q) \/ Skipped(s, i, q))
  BY <1>2 DEF DuesMet
<1>4. Skipped(s, i, q) => Skipped(t, i, q)
  BY <1>1 DEF Skipped
<1> QED
  BY <1>2, <1>3, <1>4

LEMMA DuesGoto ==
  ASSUME stack \in Seq(Frame), stack # << >>, NEW f \in Frame, NEW n, NEW st,
         DuesMet(stack, n, st),
         f.op \in Telling => \A q \in f.due :
           st[q] # "NONE" /\ (Meets(f, n, q) \/ Skipped(stack, Len(stack), q))
  PROVE  DuesMet(Goto(f), n, st)
<1> DEFINE t == Goto(f)
<1>1. /\ Len(stack) \in Nat /\ Len(t) = Len(stack) /\ t[Len(stack)] = f
      /\ \A i \in 1 .. Len(stack) : i # Len(stack) => t[i] = stack[i]
  BY Replaced, LenProperties
<1> HIDE DEF t
<1>2. ASSUME NEW i \in 1 .. Len(stack), NEW q, Skipped(stack, i, q)
      PROVE  Skipped(t, i, q)
  <2>1. PICK j \in 1 .. Len(stack) : j < i /\ stack[j].op = "call" /\ stack[j].p = q
    BY <1>2 DEF Skipped
  <2>2. j # Len(stack)
    BY <1>1, <2>1
  <2> QED
    BY <1>1, <2>1, <2>2 DEF Skipped
<1> SUFFICES ASSUME NEW i \in 1 .. Len(t), t[i].op \in Telling, NEW q \in t[i].due
             PROVE  st[q] # "NONE" /\ (Meets(t[i], n, q) \/ Skipped(t, i, q))
  BY DEF DuesMet, t
<1>3. CASE i = Len(stack)
  BY <1>1, <1>2, <1>3
<1>4. CASE i # Len(stack)
  <2>1. i \in 1 .. Len(stack) /\ t[i] = stack[i]
    BY <1>1, <1>4
  <2>2. st[q] # "NONE" /\ (Meets(stack[i], n, q) \/ Skipped(stack, i, q))
    BY <2>1 DEF DuesMet
  <2> QED
    BY <1>2, <2>1, <2>2
<1> QED
  BY <1>3, <1>4

(* Other states and links serve as well, if those that live do still, and  *)
(* are still met.                                                          *)
LEMMA DuesOn ==
  ASSUME NEW s \in Seq(Frame), Saved(s), NEW n, NEW m, NEW st, NEW sv, DuesMet(s, n, st),
         \A q \in Proc : st[q] # "NONE" =>
           /\ sv[q] # "NONE"
           /\ \A c \in Ptr : q \in Reach(n, c) => q \in Reach(m, c)
           /\ \A c \in Proc : q \in Reach(n, n[c]) => q \in Reach(m, m[c])
  PROVE  DuesMet(s, m, sv)
<1> SUFFICES ASSUME NEW i \in 1 .. Len(s), s[i].op \in Telling, NEW q \in s[i].due
             PROVE  sv[q] # "NONE" /\ (Meets(s[i], m, q) \/ Skipped(s, i, q))
  BY DEF DuesMet
<1>1. st[q] # "NONE" /\ (Meets(s[i], n, q) \/ Skipped(s, i, q))
  BY DEF DuesMet
<1>2. q \in Proc /\ s[i].cur \in Ptr /\ (s[i].op \in {"delivered", "told"} => s[i].cur \in Proc)
  BY Frames, FrameFields DEF Saved, Held
<1>3. Meets(s[i], n, q) => Meets(s[i], m, q)
  BY <1>1, <1>2 DEF Meets
<1> QED
  BY <1>1, <1>2, <1>3

LEMMA DuesCall ==
  ASSUME NEW s \in Seq(Frame), Saved(s), NEW st \in States, NEW n, DuesMet(s, n, st),
         NEW p \in Proc, NEW ev \in Event, CallProcess(p, ev, s, st)
  PROVE  DuesMet(stack', n, state')
<1>1. CASE st[p] = "RUNNING"
  <2> DEFINE f == [Blank EXCEPT !.op = "call", !.p = p, !.ev = ev, !.left = HandlerOps]
  <2>1. f \in Frame /\ f.op = "call"
    <3>1. f \in Frame
      BY BlankFrame, FrameFields, FrameUpdates DEF ThreadOp
    <3> QED
      BY <3>1, BlankFrame DEF Frame
  <2>2. stack' = Append(s, f) /\ state' = [st EXCEPT ![p] = "CALLED"]
    BY <1>1 DEF CallProcess
  <2> HIDE DEF f
  <2>3. \A q \in Proc : st[q] # "NONE" => state'[q] # "NONE"
    BY <2>2 DEF States
  <2>4. DuesMet(s, n, state')
    BY <2>3, DuesOn
  <2> QED
    BY <2>1, <2>2, <2>4, DuesPush DEF Telling
<1>2. CASE st[p] # "RUNNING"
  BY <1>2 DEF CallProcess
<1> QED
  BY <1>1, <1>2

LEMMA DuesStart ==
  ASSUME LInv, stack # << >>, NEW s \in Seq(Frame), Saved(s), Runner(s, process_current),
         s # << >> /\ Last(s).op \notin {"poll", "polled"}, Shaped(s, state, next, process_list),
         DuesMet(s, next, state), NEW p \in Proc, ProcessStart(p, s)
  PROVE  DInv'
<1>1. CASE stack' = s /\ UNCHANGED <<list, state, process_current>>
  BY <1>1 DEF DInv, list
<1>2. CASE /\ ~ OnList(p)
           /\ next' = [next EXCEPT ![p] = process_list]
           /\ CallProcess(p, "INIT",
                          Append(s, [Blank EXCEPT !.op = "synch", !.saved = process_current]),
                          [state EXCEPT ![p] = "RUNNING"])
  <2> DEFINE f == [Blank EXCEPT !.op = "synch", !.saved = process_current]
             st == [state EXCEPT ![p] = "RUNNING"]
             u == Append(s, f)
  <2>1. f \in Frame /\ f.op = "synch"
    <3>1. f \in Frame
      BY Ready, BlankFrame, FrameFields, FrameUpdates DEF Restoring
    <3> QED
      BY <3>1, BlankFrame DEF Frame
  <2>2. CallProcess(p, "INIT", u, st) /\ st \in States
    BY <1>2, Ready DEF States
  <2>3. \A q \in Proc : state[q] # "NONE" => st[q] # "NONE"
    BY Ready DEF States
  <2>4. u \in Seq(Frame) /\ Saved(u)
    BY Ready, SynchFrame
  <2> HIDE DEF f, st
  <2>5. /\ p \notin Reach(next, process_list) /\ next' = InFront(next, process_list, p)
        /\ next \in Links /\ process_list \in Ptr
    BY <1>2, Ready, Listing DEF InFront
  <2>6. ASSUME NEW q \in Proc, state[q] # "NONE"
        PROVE  /\ st[q] # "NONE"
               /\ \A c \in Ptr : q \in Reach(next, c) => q \in Reach(next', c)
               /\ \A c \in Proc : q \in Reach(next, next[c]) => q \in Reach(next', next'[c])
    <3>1. q \in Reach(next, process_list)
      BY <2>6, Ready DEF Shaped, Linked
    <3> QED
      BY <2>3, <2>5, <2>6, <3>1, FrontMeets
  <2>7. DuesMet(s, next', st)
    BY <2>6, DuesOn
  <2>8. DuesMet(u, next', st)
    BY <2>1, <2>7, DuesPush DEF Telling
  <2> HIDE DEF u
  <2> QED
    BY <2>2, <2>4, <2>8, DuesCall, FrameFields DEF DInv
<1> QED
  BY <1>1, <1>2 DEF ProcessStart

LEMMA DuesExit ==
  ASSUME LInv, stack # << >>, NEW s \in Seq(Frame), Saved(s), DuesMet(s, next, state),
         NEW p \in Proc, NEW from \in Ptr, ExitProcess(p, from, s)
  PROVE  DInv'
<1>1. next' = next
  BY DEF ExitProcess, list
<1>2. CASE stack' = s /\ UNCHANGED <<state, owed>>
  BY <1>1, <1>2 DEF DInv
<1>3. CASE /\ stack' = Append(s, [Blank EXCEPT !.op = "unlink", !.p = p,
                                               !.saved = process_current])
           /\ UNCHANGED <<state, owed>>
  <2> DEFINE f == [Blank EXCEPT !.op = "unlink", !.p = p, !.saved = process_current]
  <2>1. f \in Frame /\ f.due = {}
    <3>1. f \in Frame
      BY Ready, BlankFrame, FrameFields, FrameUpdates DEF Restoring
    <3> QED
      BY <3>1, BlankFrame DEF Frame, Blank
  <2>2. stack' = Append(s, f) /\ state' = state
    BY <1>3
  <2> HIDE DEF f
  <2> QED
    BY <1>1, <2>1, <2>2, DuesPush DEF DInv
<1>4. CASE /\ state' = [state EXCEPT ![p] = "NONE"]
           /\ stack' = Append([i \in DOMAIN s |-> [s[i] EXCEPT !.due = @ \ {p}]],
                              [Blank EXCEPT !.op = "exit", !.p = p, !.from = from,
                                            !.saved = process_current,
                                            !.cur = process_list,
                                            !.due = {q \in Proc \ {p} : state[q] # "NONE"}])
  <2> DEFINE D == {q \in Proc \ {p} : state[q] # "NONE"}
             t == [i \in DOMAIN s |-> [s[i] EXCEPT !.due = @ \ {p}]]
             f == [Blank EXCEPT !.op = "exit", !.p = p, !.from = from,
                                !.saved = process_current, !.cur = process_list,
                                !.due = D]
  <2>1. stack' = Append(t, f)
    BY <1>4
  <2>2. /\ t \in Seq(Frame) /\ Len(t) = Len(s) /\ Len(s) \in Nat
        /\ \A i \in 1 .. Len(s) : /\ t[i].op = s[i].op /\ t[i].p = s[i].p
                                  /\ t[i].cur = s[i].cur
    BY StruckFrames
  <2>3. \A i \in 1 .. Len(s) : t[i].due = s[i].due \ {p}
    <3>1. DOMAIN s = 1 .. Len(s) /\ \A i \in 1 .. Len(s) : s[i] \in Frame
      BY LenProperties, ElementOfSeq
    <3> QED
      BY <3>1 DEF Frame
  <2>4. f \in Frame /\ f.op = "exit" /\ f.cur = process_list /\ f.due = D
    <3>1. D \in SUBSET Proc
      OBVIOUS
    <3>2. process_list \in Ptr /\ process_current \in Ptr /\ p \in Ptr
      BY Ready, FrameFields
    <3> HIDE DEF D
    <3> QED
      BY <3>1, <3>2, BlankFrame, FrameFields DEF Frame, Op, Blank
  <2>5. \A q \in Proc : state[q] # "NONE" /\ q # p => state'[q] # "NONE"
    BY <1>4, Ready DEF States
  <2>6. \A q \in D : state'[q] # "NONE" /\ q \in Reach(next, process_list)
    BY <2>5, Ready DEF Shaped, Linked
  <2> HIDE DEF t, f, D
  <2>7. DuesMet(t, next, state')
    <3> SUFFICES ASSUME NEW i \in 1 .. Len(t), t[i].op \in Telling, NEW q \in t[i].due
                 PROVE  state'[q] # "NONE" /\ (Meets(t[i], next, q) \/ Skipped(t, i, q))
      BY DEF DuesMet
    <3>1. i \in 1 .. Len(s) /\ s[i].op \in Telling /\ q \in s[i].due /\ q # p
      BY <2>2, <2>3
    <3>2. state[q] # "NONE" /\ (Meets(s[i], next, q) \/ Skipped(s, i, q))
      BY <3>1 DEF DuesMet
    <3>3. q \in Proc
      BY <3>1, Frames, FrameFields
    <3>4. Meets(s[i], next, q) => Meets(t[i], next, q)
      BY <2>2, <3>1 DEF Meets
    <3>5. Skipped(s, i, q) => Skipped(t, i, q)
      BY <2>2 DEF Skipped
    <3> QED
      BY <2>5, <3>1, <3>2, <3>3, <3>4, <3>5
  <2>8. \A q \in f.due : state'[q] # "NONE" /\ Meets(f, next, q)
    BY <2>4, <2>6 DEF Meets
  <2> QED
    BY <1>1, <2>1, <2>2, <2>4, <2>7, <2>8, DuesPush DEF DInv
<1> QED
  BY <1>2, <1>3, <1>4 DEF ExitProcess

(* Whoever leaves the list is due to be told by nobody.                    *)
LEMMA DuesUnlink ==
  ASSUME LInv, DInv, Unlink
  PROVE  DInv'
<1> DEFINE p == Top.p
<1>1. stack # << >> /\ Top.op = "unlink" /\ stack' = Pop(stack) /\ state' = state
  BY DEF Unlink, At
<1>2. next' = next \/ next' = Without(next, process_list, p)
  BY Listing DEF Unlink, Without
<1>3. p \in Reach(next, process_list) /\ state[p] = "NONE" /\ NoCycle(next, process_list)
  BY <1>1, Ready DEF Shaped, Marks, Linked, ExitOp
<1> HIDE DEF p
<1>4. ASSUME NEW q \in Proc, state[q] # "NONE"
      PROVE  /\ \A c \in Ptr : q \in Reach(next, c) => q \in Reach(next', c)
             /\ \A c \in Proc : q \in Reach(next, next[c]) => q \in Reach(next', next'[c])
  <2>1. q \in Proc \ {p}
    BY <1>3, <1>4
  <2> QED
    BY <1>1, <1>2, <1>3, <2>1, Ready, OutMeets
<1>5. DuesMet(Pop(stack), next, state) /\ Pop(stack) \in Seq(Frame) /\ Saved(Pop(stack))
  BY <1>1, Ready, DuesPop, PopStack DEF DInv
<1>6. DuesMet(Pop(stack), next', state)
  BY <1>4, <1>5, DuesOn
<1> QED
  BY <1>1, <1>6 DEF DInv

LEMMA GotoDues ==
  ASSUME LInv, DInv, stack # << >>, NEW f \in Frame, stack' = Goto(f), UNCHANGED <<list, state>>,
         f.op \in Telling => \A q \in f.due :
           state[q] # "NONE" /\ (Meets(f, next, q) \/ Skipped(stack, Len(stack), q))
  PROVE  DInv'
<1>1. DuesMet(Goto(f), next, state)
  BY Ready, DuesGoto DEF DInv
<1> QED
  BY <1>1 DEF DInv, list

LEMMA PopDues ==
  ASSUME LInv, DInv, stack # << >>, stack' = Pop(stack), UNCHANGED list,
         \A q \in Proc : state[q] # "NONE" => state'[q] # "NONE"
  PROVE  DInv'
<1>1. DuesMet(Pop(stack), next, state) /\ Pop(stack) \in Seq(Frame) /\ Saved(Pop(stack))
  BY Ready, DuesPop, PopStack DEF DInv
<1>2. DuesMet(Pop(stack), next, state')
  BY <1>1, DuesOn
<1> QED
  BY <1>2 DEF DInv, list

LEMMA TopDues ==
  ASSUME LInv, DInv, stack # << >>, Top.op \in Telling, NEW q \in Top.due
  PROVE  state[q] # "NONE" /\ (Meets(Top, next, q) \/ Skipped(stack, Len(stack), q))
BY Ready DEF DInv, DuesMet

(* The process at the cursor is called, or passed over because its handler *)
(* is suspended below; the others are ahead.                               *)
LEMMA TellDues ==
  ASSUME LInv, DInv, stack # << >>, Top.op \in {"deliver", "exit"}, Top.cur \in Proc,
         NEW q \in Top.due, state[Top.cur] = "RUNNING" => q # Top.cur
  PROVE  /\ state[q] # "NONE"
         /\ q \in Reach(next, next[Top.cur]) \/ Skipped(stack, Len(stack), q)
<1>1. state[q] # "NONE" /\ (q \in Reach(next, Top.cur) \/ Skipped(stack, Len(stack), q))
  BY TopDues DEF Telling, Meets
<1>2. CASE q = Top.cur
  <2>1. q \in Proc /\ state[q] = "CALLED"
    BY <1>1, <1>2, Ready DEF States
  <2>2. PICK i \in 1 .. Len(stack) : stack[i].op = "call" /\ stack[i].p = q
    BY <2>1, Ready DEF Shaped, Marks
  <2>3. i # Len(stack)
    BY <2>2, Ready
  <2>4. i < Len(stack)
    BY <2>3, Ready, LenProperties
  <2> QED
    BY <1>1, <2>2, <2>4 DEF Skipped
<1>3. CASE q # Top.cur
  BY <1>1, <1>3, Ready, ReachStep
<1> QED
  BY <1>2, <1>3

LEMMA RunDues ==
  ASSUME LInv, DInv, ProcessRun \/ BootDone \/ SynchReturn \/ PollNext
  PROVE  DInv'
<1>1. CASE ProcessRun
  <2>1. Blank.op = "event" /\ PollFrame.op = "poll"
    BY BlankFrame DEF Frame, Blank, PollFrame
  <2>2. CASE stack' = <<Blank>>
    BY <2>1, <2>2 DEF DInv, DuesMet, Telling
  <2>3. CASE stack' = <<Blank, PollFrame>>
    <3>1. ASSUME NEW i \in 1 .. Len(stack')
          PROVE  stack'[i] \in {Blank, PollFrame}
      BY <2>3
    <3> QED
      BY <2>1, <3>1 DEF DInv, DuesMet, Telling
  <2> QED
    BY <1>1, <2>2, <2>3 DEF ProcessRun
<1>2. CASE BootDone
  BY <1>2, PopDues DEF BootDone, At
<1>3. CASE SynchReturn
  BY <1>3, PopDues DEF SynchReturn, At
<1>4. CASE PollNext
  <2> DEFINE f == [Top EXCEPT !.op = "poll", !.cur = next[Top.cur]]
  <2>1. /\ stack # << >> /\ Top.op = "polled" /\ stack' = Goto(f) /\ UNCHANGED <<list, state>>
    BY <1>4 DEF PollNext, At
  <2>2. f \in Frame /\ f.op = "poll"
    <3>1. next[Top.cur] \in Ptr
      BY <2>1, Ready DEF Held, Links
    <3>2. f \in Frame
      BY <2>1, <3>1, Ready, FrameFields, FrameUpdates
    <3> QED
      BY <2>1, <3>2, Ready DEF Frame
  <2> HIDE DEF f
  <2> QED
    BY <2>1, <2>2, GotoDues DEF Telling
<1> QED
  BY <1>1, <1>2, <1>3, <1>4

LEMMA PollDues ==
  ASSUME LInv, DInv, DoPoll
  PROVE  DInv'
<1>1. stack # << >> /\ Top.op = "poll" /\ UNCHANGED list
  BY DEF DoPoll, At
<1>2. Top.cur \in Reach(next, process_list) \cup {NULL}
  BY <1>1, Ready DEF Shaped, Walks
<1>3. CASE Top.cur = NULL
  BY <1>1, <1>3, PopDues DEF DoPoll
<1>4. CASE Top.cur # NULL /\ ~ needspoll[Top.cur]
  <2> DEFINE f == [Top EXCEPT !.cur = next[Top.cur]]
  <2>1. stack' = Goto(f) /\ UNCHANGED state
    BY <1>4 DEF DoPoll
  <2>2. f \in Frame /\ f.op = "poll"
    <3>1. next[Top.cur] \in Ptr
      BY <1>1, <1>2, <1>4, Ready, ReachLeast DEF Links
    <3>2. f \in Frame
      BY <1>1, <3>1, Ready, FrameUpdates
    <3> QED
      BY <1>1, <3>2, Ready DEF Frame
  <2> HIDE DEF f
  <2> QED
    BY <1>1, <2>1, <2>2, GotoDues DEF Telling
<1>5. CASE Top.cur # NULL /\ needspoll[Top.cur]
  <2> DEFINE f == [Top EXCEPT !.op = "polled"]
             st == [state EXCEPT ![Top.cur] = "RUNNING"]
  <2>1. CallProcess(Top.cur, "POLL", Goto(f), st)
    BY <1>5 DEF DoPoll
  <2>2. Top.cur \in Proc
    BY <1>1, <1>2, <1>5, Ready, ReachLeast
  <2>3. st \in States /\ \A q \in Proc : state[q] # "NONE" => st[q] # "NONE"
    BY <1>1, Ready DEF States
  <2>4. f \in Frame /\ f.op = "polled" /\ Held(f)
    <3>1. f \in Frame
      BY <1>1, Ready, FrameFields, FrameUpdates
    <3>2. f.op = "polled" /\ f.cur = Top.cur
      BY <1>1, <3>1, Ready DEF Frame
    <3> QED
      BY <2>2, <3>1, <3>2 DEF Held, ThreadOp
  <2> HIDE DEF f, st
  <2>5. Goto(f) \in Seq(Frame) /\ Saved(Goto(f))
    BY <1>1, <2>4, Ready, GotoRunner DEF Restoring, ThreadOp
  <2>6. DuesMet(Goto(f), next, state)
    BY <1>1, <2>4, Ready, DuesGoto DEF DInv, Telling
  <2>7. DuesMet(Goto(f), next, st)
    BY <2>3, <2>5, <2>6, DuesOn
  <2>8. DuesMet(stack', next, state')
    BY <2>1, <2>2, <2>3, <2>5, <2>7, DuesCall, FrameFields
  <2> QED
    BY <1>1, <2>8 DEF DInv, list
<1> QED
  BY <1>3, <1>4, <1>5

(* A broadcast begins with everyone who runs ahead of it.                  *)
LEMMA EventDues ==
  ASSUME LInv, DInv, Disciplined, DoEvent
  PROVE  DInv'
<1>1. stack # << >> /\ Top.op = "event" /\ UNCHANGED list
  BY DEF DoEvent, At
<1>2. CASE queue = << >>
  BY <1>1, <1>2, PopDues DEF DoEvent
<1>3. CASE queue # << >>
  <2> DEFINE E == [ev : UserEvent, p : Ptr]
             p == Head(queue).p
             ev == Head(queue).ev
  <2>1. queue \in Seq(E)
    BY <1>1, Ready DEF TypeOK
  <2> HIDE DEF E
  <2>2. Head(queue) \in E
    BY <1>3, <2>1, HeadTailProperties
  <2>3. p \in Ptr /\ ev \in Event /\ ev # "INIT"
    BY <2>2, FrameFields DEF Disciplined, E
  <2>4. CASE p = NULL
    <3> DEFINE D == {q \in Proc : state[q] # "NONE"}
               f == [Blank EXCEPT !.op = "bcast", !.ev = ev, !.cur = process_list, !.due = D]
    <3>1. stack' = Goto(f) /\ UNCHANGED state
      BY <1>3, <2>4 DEF DoEvent
    <3>2. D \in SUBSET Proc /\ \A q \in D : state[q] # "NONE" /\ q \in Reach(next, process_list)
      BY <1>1, Ready DEF Shaped, Linked
    <3> HIDE DEF D, ev
    <3>3. f \in Frame
      BY <1>1, <2>3, <3>2, Ready, BlankFrame, FrameFields, FrameUpdates
    <3>4. f.op = "bcast" /\ f.cur = process_list /\ f.due = D
      BY <3>3, BlankFrame DEF Frame
    <3> HIDE DEF f
    <3>5. \A q \in f.due : state[q] # "NONE" /\ Meets(f, next, q)
      BY <3>2, <3>4 DEF Meets
    <3> QED
      BY <1>1, <3>1, <3>3, <3>5, GotoDues
  <2>5. CASE p # NULL
    <3>1. p \in Proc
      BY <2>3, <2>5 DEF Ptr
    <3>2. CallProcess(p, ev, Pop(stack), state)
      BY <1>3, <2>3, <2>5 DEF DoEvent
    <3> HIDE DEF p, ev
    <3>3. Pop(stack) \in Seq(Frame) /\ Saved(Pop(stack)) /\ DuesMet(Pop(stack), next, state)
      BY <1>1, Ready, PopStack, DuesPop DEF DInv
    <3>4. DuesMet(stack', next, state')
      BY <1>1, <2>3, <3>1, <3>2, <3>3, Ready, DuesCall
    <3> QED
      BY <1>1, <3>4 DEF DInv, list
  <2> QED
    BY <2>4, <2>5
<1> QED
  BY <1>2, <1>3

LEMMA BcastDues ==
  ASSUME LInv, DInv, BcastTest
  PROVE  DInv'
<1> DEFINE f == [Top EXCEPT !.op = "deliver"]
<1>1. stack # << >> /\ Top.op = "bcast" /\ UNCHANGED <<list, state>>
  BY DEF BcastTest, At
<1>2. CASE Top.cur = NULL
  BY <1>1, <1>2, PopDues DEF BcastTest
<1>3. CASE Top.cur # NULL
  <2>1. stack' = Goto(f) \/ stack' = Append(Goto(f), PollFrame)
    BY <1>3 DEF BcastTest
  <2>2. f \in Frame /\ f.op = "deliver" /\ f.due = Top.due /\ f.cur = Top.cur
    <3>1. f \in Frame
      BY <1>1, Ready, FrameFields, FrameUpdates
    <3> QED
      BY <1>1, <3>1, Ready DEF Frame
  <2> HIDE DEF f
  <2>3. \A q \in f.due :
          state[q] # "NONE" /\ (Meets(f, next, q) \/ Skipped(stack, Len(stack), q))
    BY <1>1, <2>2, TopDues DEF Telling, Meets
  <2>4. DuesMet(Goto(f), next, state)
    BY <1>1, <2>2, <2>3, Ready, DuesGoto DEF DInv
  <2>5. Held(f)
    BY <1>1, <1>3, <2>2, Ready, FrameFields DEF Held, ThreadOp, Ptr
  <2>6. Goto(f) \in Seq(Frame)
    BY <1>1, <2>2, <2>5, Ready, GotoRunner DEF Restoring, ThreadOp
  <2>7. PollFrame \in Frame /\ PollFrame.op = "poll"
    <3>1. PollFrame \in Frame
      BY <1>1, Ready, BlankFrame, FrameFields, FrameUpdates DEF PollFrame
    <3> QED
      BY <3>1, BlankFrame DEF Frame, PollFrame
  <2>8. DuesMet(Append(Goto(f), PollFrame), next, state)
    BY <2>4, <2>6, <2>7, DuesPush DEF Telling
  <2> QED
    BY <1>1, <2>1, <2>4, <2>8 DEF DInv, list
<1> QED
  BY <1>2, <1>3

(* One process is told of the broadcast, or of the exit.                   *)
LEMMA TellingDues ==
  ASSUME LInv, DInv, BcastDeliver \/ ExitTell
  PROVE  DInv'
<1> DEFINE d == IF state[Top.cur] = "RUNNING" THEN Top.due \ {Top.cur} ELSE Top.due
           o == IF Top.op = "deliver" THEN "delivered" ELSE "told"
           f == [Top EXCEPT !.op = o, !.due = d]
           g == [Top EXCEPT !.op = "told"]
<1>1. /\ stack # << >> /\ Top.op \in {"deliver", "exit"} /\ UNCHANGED list
      /\ Top.op = "exit" => Top.cur # NULL
      /\ \/ \E ev \in {Top.ev, "EXITED"} : CallProcess(Top.cur, ev, Goto(f), state)
         \/ Top.op = "exit" /\ Top.cur = Top.p /\ stack' = Goto(g) /\ UNCHANGED state
  <2>1. CASE BcastDeliver
    <3>1. Top.op = "deliver"
      BY <2>1 DEF BcastDeliver, At
    <3> QED
      BY <2>1, <3>1 DEF BcastDeliver, At
  <2>2. CASE ExitTell
    <3>1. Top.op = "exit"
      BY <2>2 DEF ExitTell, At
    <3> QED
      BY <2>2, <3>1 DEF ExitTell, At
  <2> QED
    BY <2>1, <2>2
<1>2. Top.cur \in Proc /\ Top.ev \in Event /\ "EXITED" \in Event
  <2>1. Top.cur \in Ptr
    BY <1>1, Ready, FrameFields
  <2> QED
    BY <1>1, <2>1, Ready, FrameFields DEF Held, Ptr
<1>3. /\ d \in SUBSET Proc /\ o \in {"delivered", "told"} /\ o \in Op
      /\ Top.op \in Restoring <=> o = "told"
  BY <1>1, Ready, FrameFields DEF Restoring
<1>4. \A q \in d : q \in Top.due /\ (state[Top.cur] = "RUNNING" => q # Top.cur)
  OBVIOUS
<1> HIDE DEF d, o
<1>5. f \in Frame /\ f.op = o /\ f.due = d /\ f.cur = Top.cur /\ f.p = Top.p /\ f.saved = Top.saved
  <2>1. f \in Frame
    BY <1>1, <1>3, Ready, FrameUpdates
  <2> QED
    BY <1>1, <2>1, Ready DEF Frame
<1> HIDE DEF f
<1>6. CASE \E ev \in {Top.ev, "EXITED"} : CallProcess(Top.cur, ev, Goto(f), state)
  <2>1. PICK ev \in Event : CallProcess(Top.cur, ev, Goto(f), state)
    BY <1>2, <1>6
  <2>2. ASSUME NEW q \in f.due
        PROVE  state[q] # "NONE" /\ (Meets(f, next, q) \/ Skipped(stack, Len(stack), q))
    <3>1. /\ state[q] # "NONE"
          /\ q \in Reach(next, next[Top.cur]) \/ Skipped(stack, Len(stack), q)
      BY <1>1, <1>2, <1>4, <1>5, TellDues
    <3> QED
      BY <1>3, <1>5, <3>1 DEF Meets
  <2>3. Held(f)
    <3>1. o = "told" => Top.p \in Proc
      BY <1>1, <1>3, Ready DEF Held, Restoring
    <3> QED
      BY <1>2, <1>3, <1>5, <3>1 DEF Held, ThreadOp
  <2>4. Goto(f) \in Seq(Frame) /\ Saved(Goto(f))
    <3>1. f.op \notin ThreadOp /\ (Top.op \in Restoring => f.op \in Restoring)
      BY <1>3, <1>5 DEF Restoring, ThreadOp
    <3> QED
      BY <1>1, <1>5, <2>3, <3>1, Ready, GotoRunner
  <2>5. DuesMet(Goto(f), next, state)
    BY <1>1, <1>5, <2>2, Ready, DuesGoto DEF DInv
  <2>6. DuesMet(stack', next, state')
    BY <1>1, <1>2, <2>1, <2>4, <2>5, Ready, DuesCall
  <2> QED
    BY <1>1, <2>6 DEF DInv, list
<1>7. CASE Top.op = "exit" /\ Top.cur = Top.p /\ stack' = Goto(g) /\ UNCHANGED state
  <2>1. g \in Frame /\ g.op = "told" /\ g.due = Top.due /\ g.cur = Top.cur
    <3>1. g \in Frame
      BY <1>1, Ready, FrameFields, FrameUpdates DEF Restoring
    <3> QED
      BY <1>1, <3>1, Ready DEF Frame
  <2> HIDE DEF g
  <2>2. state[Top.p] = "NONE"
    BY <1>1, <1>7, Ready DEF Shaped, Marks, ExitOp
  <2>3. ASSUME NEW q \in g.due
        PROVE  state[q] # "NONE" /\ (Meets(g, next, q) \/ Skipped(stack, Len(stack), q))
    <3>1. /\ state[q] # "NONE"
          /\ q \in Reach(next, next[Top.cur]) \/ Skipped(stack, Len(stack), q)
      BY <1>1, <1>2, <1>7, <2>1, <2>2, TellDues
    <3> QED
      BY <2>1, <3>1 DEF Meets
  <2> QED
    BY <1>1, <1>7, <2>1, <2>3, GotoDues
<1> QED
  BY <1>1, <1>6, <1>7

(* The cursor moves on, or has met everyone.                               *)
LEMMA NextDues ==
  ASSUME LInv, DInv, BcastNext \/ ExitNext \/ ExitSelf
  PROVE  DInv'
<1>1. CASE BcastNext \/ ExitNext
  <2>1. PICK o \in {"bcast", "exit"} :
          /\ stack # << >> /\ Top.op \in {"delivered", "told"} /\ UNCHANGED <<list, state>>
          /\ stack' = Goto([Top EXCEPT !.op = o, !.cur = next[Top.cur]])
    <3>1. CASE BcastNext
      <4>1. "bcast" \in {"bcast", "exit"} /\ Top.op = "delivered"
        BY <3>1 DEF BcastNext, At
      <4> QED
        BY <3>1, <4>1 DEF BcastNext, At
    <3>2. CASE ExitNext
      <4>1. "exit" \in {"bcast", "exit"} /\ Top.op = "told"
        BY <3>2 DEF ExitNext, At
      <4> QED
        BY <3>2, <4>1 DEF ExitNext, At
    <3> QED
      BY <1>1, <3>1, <3>2
  <2> DEFINE f == [Top EXCEPT !.op = o, !.cur = next[Top.cur]]
  <2>2. f \in Frame /\ f.op = o /\ f.due = Top.due /\ f.cur = next[Top.cur]
    <3>1. next[Top.cur] \in Ptr /\ o \in Op
      BY <2>1, Ready DEF Held, Links, Op
    <3>2. f \in Frame
      BY <2>1, <3>1, Ready, FrameUpdates
    <3> QED
      BY <2>1, <3>2, Ready DEF Frame
  <2>3. stack' = Goto(f)
    BY <2>1
  <2> HIDE DEF f
  <2>4. ASSUME NEW q \in f.due
        PROVE  state[q] # "NONE" /\ (Meets(f, next, q) \/ Skipped(stack, Len(stack), q))
    <3>1. state[q] # "NONE" /\ (Meets(Top, next, q) \/ Skipped(stack, Len(stack), q))
      BY <2>1, <2>2, TopDues DEF Telling
    <3>2. Meets(Top, next, q) => Meets(f, next, q)
      BY <2>1, <2>2 DEF Meets
    <3> QED
      BY <3>1, <3>2
  <2> QED
    BY <2>1, <2>2, <2>3, <2>4, GotoDues
<1>2. CASE ExitSelf
  <2> DEFINE f == [Top EXCEPT !.op = "unlink"]
             g == [Blank EXCEPT !.op = "direct", !.p = Top.p, !.ev = "EXIT",
                                !.left = HandlerOps]
             s == Goto(f)
  <2>1. /\ stack # << >> /\ Top.op = "exit" /\ Top.cur = NULL /\ UNCHANGED <<list, state>>
        /\ stack' = Append(s, g) \/ stack' = s
    BY <1>2 DEF ExitSelf, At
  <2>2. f \in Frame /\ f.op = "unlink" /\ f.due = Top.due /\ f.p = Top.p /\ f.saved = Top.saved
    <3>1. f \in Frame
      BY <2>1, Ready, FrameFields, FrameUpdates DEF Restoring
    <3> QED
      BY <2>1, <3>1, Ready DEF Frame
  <2>3. g \in Frame /\ g.op = "direct"
    <3>1. g \in Frame
      BY <2>1, Ready, BlankFrame, FrameFields, FrameUpdates DEF ThreadOp
    <3> QED
      BY <3>1, BlankFrame DEF Frame
  <2> HIDE DEF f, g
  <2>4. ASSUME NEW q \in f.due
        PROVE  state[q] # "NONE" /\ Skipped(stack, Len(stack), q)
    <3>1. state[q] # "NONE" /\ (Meets(Top, next, q) \/ Skipped(stack, Len(stack), q))
      BY <2>1, <2>2, TopDues DEF Telling
    <3>2. ~ Meets(Top, next, q)
      BY <2>1, Ready, ReachNull DEF Meets
    <3> QED
      BY <3>1, <3>2
  <2>5. DuesMet(s, next, state)
    BY <2>1, <2>2, <2>4, Ready, DuesGoto DEF DInv
  <2>6. s \in Seq(Frame)
    <3>1. Held(f)
      BY <2>1, <2>2, Ready DEF Held, ThreadOp
    <3> QED
      BY <2>1, <2>2, <3>1, Ready, GotoRunner DEF Restoring, ThreadOp
  <2> HIDE DEF s
  <2>7. DuesMet(Append(s, g), next, state)
    BY <2>3, <2>5, <2>6, DuesPush DEF Telling
  <2> QED
    BY <2>1, <2>5, <2>7 DEF DInv, list
<1> QED
  BY <1>1, <1>2

LEMMA KernelDues ==
  ASSUME LInv, DInv, Disciplined, Kernel
  PROVE  DInv'
<1>1. ASSUME NEW p \in Proc, BootStart(p)
      PROVE  DInv'
  <2> DEFINE f == [Top EXCEPT !.due = @ \ {p}]
             s == Goto(f)
  <2>1. stack # << >> /\ Top.op = "boot" /\ ProcessStart(p, s)
    BY <1>1 DEF BootStart, At
  <2>2. f \in Frame /\ f.op = "boot" /\ Held(f)
    <3>1. f \in Frame
      <4>1. Top.due \ {p} \in SUBSET Proc
        BY <2>1, Ready, FrameFields
      <4> QED
        BY <2>1, <4>1, Ready, FrameUpdates
    <3>2. f.op = "boot"
      BY <2>1, <3>1, Ready DEF Frame
    <3> QED
      BY <3>1, <3>2 DEF Held, ThreadOp
  <2> HIDE DEF f
  <2>3. s \in Seq(Frame) /\ Saved(s) /\ Runner(s, process_current)
    BY <2>1, <2>2, Ready, GotoRunner DEF Restoring, ThreadOp
  <2>4. DuesMet(s, next, state)
    BY <2>1, <2>2, Ready, DuesGoto DEF DInv, Telling
  <2>5. Shaped(s, state, next, process_list)
    BY <2>1, <2>2, Ready, GotoShape DEF Kin, Busy, ExitOp
  <2>6. s # << >> /\ Last(s).op \notin {"poll", "polled"}
    BY <2>1, <2>2, Ready, Replaced, LenProperties DEF Last
  <2> HIDE DEF s
  <2> QED
    BY <2>1, <2>3, <2>4, <2>5, <2>6, DuesStart
<1> QED
  BY <1>1, RunDues, PollDues, EventDues, BcastDues, TellingDues, NextDues, DuesUnlink DEF Kernel

LEMMA HandlerDues ==
  ASSUME LInv, DInv, Handler
  PROVE  DInv'
<1>0. ASSUME NEW call, InHandler(call)
      PROVE  /\ stack # << >> /\ Counted # << >> /\ Last(Counted).op \in ThreadOp
             /\ Counted \in Seq(Frame) /\ Saved(Counted) /\ Runner(Counted, process_current)
             /\ Shaped(Counted, state, next, process_list)
             /\ DuesMet(Counted, next, state) /\ process_current \in Ptr
  <2> DEFINE f == [Top EXCEPT !.left = Top.left - 1]
  <2>1. /\ stack # << >> /\ Top.left > 0 /\ Top.op \in ThreadOp /\ Counted = Goto(f)
    BY <1>0 DEF InHandler, At, Counted
  <2>2. f \in Frame /\ f.op = Top.op
    <3>1. Top.left - 1 \in 0 .. HandlerOps
      BY <2>1, Ready, FrameFields, ProcessAssumption
    <3>2. f \in Frame
      BY <2>1, <3>1, Ready, FrameUpdates
    <3> QED
      BY <2>1, <3>2, Ready DEF Frame
  <2> HIDE DEF f
  <2>3. DuesMet(Counted, next, state)
    BY <2>1, <2>2, Ready, DuesGoto DEF DInv, Telling, ThreadOp
  <2> QED
    BY <1>0, <2>3, CountedShape
<1>1. CASE ReturnYield
  <2>1. /\ stack # << >> /\ Top.op = "call" /\ stack' = Pop(stack) /\ UNCHANGED list
        /\ state' = [state EXCEPT ![Top.p] = "RUNNING"]
    BY <1>1 DEF ReturnYield, At
  <2>2. \A q \in Proc : state[q] # "NONE" => state'[q] # "NONE"
    BY <2>1, Ready DEF States
  <2> QED
    BY <2>1, <2>2, PopDues
<1>2. CASE ReturnEnded
  <2>1. stack # << >> /\ Top.op = "call" /\ ExitProcess(Top.p, Top.p, Pop(stack))
    BY <1>2 DEF ReturnEnded, At
  <2>2. Pop(stack) \in Seq(Frame) /\ Saved(Pop(stack)) /\ DuesMet(Pop(stack), next, state)
    BY <2>1, Ready, PopStack, DuesPop DEF DInv
  <2>3. Top.p \in Proc /\ Top.p \in Ptr
    BY <2>1, Ready, FrameFields DEF Held, ThreadOp
  <2> QED
    BY <2>1, <2>2, <2>3, DuesExit
<1>3. CASE ReturnDirect
  BY <1>3, PopDues DEF ReturnDirect, At
<1>4. ASSUME stack' = Counted, UNCHANGED <<list, state>>, NEW call, InHandler(call)
      PROVE  DInv'
  BY <1>0, <1>4 DEF DInv, list
<1>5. ASSUME NEW p \in Proc, NEW ev \in UserEvent, PostSynch(p, ev)
      PROVE  DInv'
  <2> DEFINE f == [Blank EXCEPT !.op = "synch", !.saved = process_current]
             u == Append(Counted, f)
  <2>1. InHandler("synch") /\ UNCHANGED list /\ CallProcess(p, ev, u, state)
    BY <1>5 DEF PostSynch
  <2>2. f \in Frame /\ f.op = "synch"
    <3>1. f \in Frame
      BY <1>0, <2>1, BlankFrame, FrameFields, FrameUpdates DEF Restoring
    <3> QED
      BY <3>1, BlankFrame DEF Frame
  <2>3. u \in Seq(Frame) /\ Saved(u)
    BY <1>0, <2>1, SynchFrame DEF ThreadOp
  <2> HIDE DEF f
  <2>4. DuesMet(u, next, state)
    BY <1>0, <2>1, <2>2, DuesPush DEF Telling
  <2> HIDE DEF u
  <2>5. DuesMet(stack', next, state')
    BY <1>0, <2>1, <2>3, <2>4, Ready, DuesCall, FrameFields
  <2> QED
    BY <2>1, <2>5 DEF DInv, list
<1>6. ASSUME NEW p \in Proc, Start(p)
      PROVE  DInv'
  BY <1>0, <1>6, DuesStart DEF Start, ThreadOp
<1>7. ASSUME NEW p \in Proc, Exit(p)
      PROVE  DInv'
  BY <1>0, <1>7, DuesExit DEF Exit
<1> QED
  BY <1>1, <1>2, <1>3, <1>4, <1>5, <1>6, <1>7 DEF Handler, Post, Poll

LEMMA StepDues ==
  ASSUME LInv, DInv, Disciplined, [Next]_vars
  PROVE  DInv'
<1>1. CASE Kernel
  BY <1>1, KernelDues
<1>2. CASE Handler
  BY <1>2, HandlerDues
<1>3. CASE \/ \E p \in Proc : Interrupt(p)
           \/ UNCHANGED vars
  <2>1. stack' = stack /\ next' = next /\ state' = state
    BY <1>3 DEF Interrupt, vars, list
  <2> QED
    BY <2>1 DEF DInv
<1> QED
  BY <1>1, <1>2, <1>3 DEF Next

LEMMA DuesHold == ASSUME Disciplined PROVE Spec => [](LInv /\ DInv)
<1>1. Init => LInv /\ DInv
  <2> SUFFICES ASSUME Init
               PROVE  DInv
    BY InitHolds, InitShape DEF LInv
  <2>1. PICK Boot \in SUBSET Proc : stack = <<[Blank EXCEPT !.op = "boot", !.due = Boot]>>
    BY DEF Init
  <2> DEFINE f == [Blank EXCEPT !.op = "boot", !.due = Boot]
  <2>2. f.op = "boot"
    BY BlankFrame DEF Frame
  <2>3. stack = <<f>>
    BY <2>1
  <2> HIDE DEF f
  <2>4. \A i \in 1 .. Len(stack) : stack[i] = f
    BY <2>3
  <2> QED
    BY <2>2, <2>4 DEF DInv, DuesMet, Telling
<1>2. LInv /\ DInv /\ [Next]_vars => LInv' /\ DInv'
  BY StepShape, StepDues
<1> QED
  BY <1>1, <1>2, PTL DEF Spec

(* A broadcast reaches everyone who ran when do_event took it, unless they *)
(* exited since: starts and exits under its cursor, even of the node it    *)
(* rests on, lead it past nobody.                                          *)
THEOREM BroadcastComplete ==
  ASSUME Disciplined
  PROVE  Spec => []BroadcastReachesAll
<1>1. LInv /\ DInv => BroadcastReachesAll
  <2> SUFFICES ASSUME LInv, DInv, stack # << >>, Top.op = "bcast", Top.cur = NULL
               PROVE  Top.due = {}
    BY DEF BroadcastReachesAll, At
  <2>1. Len(stack) = 1
    BY Ready DEF Shaped, Nests
  <2> SUFFICES ASSUME NEW q \in Top.due
               PROVE  FALSE
    OBVIOUS
  <2>2. q \in Reach(next, NULL) \/ Skipped(stack, 1, q)
    BY <2>1, TopDues DEF Telling, Meets
  <2>3. ~ Skipped(stack, 1, q)
    BY <2>1 DEF Skipped
  <2> QED
    BY <2>2, <2>3, Ready, ReachNull
<1> QED
  BY <1>1, DuesHold, PTL

(* An exit is announced to everyone who ran when exit_process began, but   *)
(* for those in the middle of a call, whom call_process passes over.       *)
THEOREM ExitAnnounced ==
  ASSUME Disciplined
  PROVE  Spec => []ExitReachesIdle
<1>1. LInv /\ DInv => ExitReachesIdle
  <2> SUFFICES ASSUME LInv, DInv, stack # << >>, Top.op = "unlink", NEW q \in Top.due
               PROVE  Active(q)
    BY DEF ExitReachesIdle, At
  <2>1. Skipped(stack, Len(stack), q)
    BY TopDues DEF Telling, Meets
  <2>2. DOMAIN stack = 1 .. Len(stack)
    BY Ready, LenProperties
  <2> QED
    BY <2>1, <2>2 DEF Active, Skipped, ThreadOp
<1> QED
  BY <1>1, DuesHold, PTL

=============================================================================

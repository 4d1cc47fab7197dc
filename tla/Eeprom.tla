------------------------------- MODULE Eeprom -------------------------------
(***************************************************************************)
(* The EEPROM driver BSP/eeprom.c on its bit-banged two-wire bus: a write  *)
(* is split over the chips and their pages, and each page is sent again    *)
(* until the chip took all of it; a read fetches byte by byte.  One step   *)
(* is the part of a transfer up to an acknowledge that matters; any of     *)
(* them may be missed, and power may fail between any two.                 *)
(*                                                                         *)
(* Contents are named relative to the last call: Old is what a cell held   *)
(* when the call began, i > 0 the i-th byte of the call's data, Stray what *)
(* no caller wrote.                                                        *)
(***************************************************************************)
EXTENDS Integers, SequencesExt

CONSTANTS PageSize,     \* PAGE_SIZE
          Bank,         \* SIZE_64K, the cells of one chip
          MaxNum,       \* bound: the longest call
          MaxRead,      \* bound: the longest read
          MayHold,      \* may a chip be left driving SDA
          MaxAstray     \* bound: no failure that is not looked at once so many
                        \*   bytes of the call met one

ASSUME EepromAssumption ==
  /\ PageSize \in Nat \ {0} /\ Bank \in Nat \ {0} /\ Bank % PageSize = 0
  /\ MaxNum \in 1 .. Bank - 1 /\ MaxRead \in 1 .. MaxNum
  /\ MayHold \in BOOLEAN /\ MaxAstray \in Nat

VARIABLES build,        \* DEV_TYPE, and MEM_SIZE in chips
          mem,          \* the cells of all chips
          ptr,          \* the address register of the chip addressed; forgotten
                        \*   when the transfer is over
          latch,        \* EEPROM: bytes sent and not yet programmed
          cycle,        \* EEPROM: the chips whose write cycle is running
          held,         \* a chip drives SDA low and waits for a clock
          pc, op,       \* where, in eeprom_write or eeprom_read; "cut": a write, by
                        \*   the loss of power
          addr, num,    \* the call's arguments
          plan,         \* the transfers still to make, the current one first
          sent,         \* bytes of the current transfer sent
          got,          \* what a read put into the caller's buffer
          missed,       \* history: the bytes of a read that met an error
          astray,       \* history: those that met a failure not looked at
          wait_eeprom_idle

bus == <<latch, cycle, held>>
call == <<op, addr, num>>
vars == <<build, mem, ptr, bus, pc, call, plan, sent, got, missed, astray, wait_eeprom_idle>>

Old == 0
Stray == MaxNum + 1
Kept == <<0, 0>>                           \* the caller's byte, untouched
Wrong == <<0, 1>>                          \* a byte, but not that of the address
Chips == 1 .. build.chips
Cell == Chips \X (0 .. Bank - 1)
Selected == IF build.chips = 1 THEN 1 ELSE Head(plan).chip    \* SEL_CHIP1, 2
Cur == <<Selected, ptr>>

(* The cell the i-th byte of a call belongs to.                            *)
Home(i) == <<((addr + i - 1) \div Bank) + 1, (addr + i - 1) % Bank>>
Homes == {Home(i) : i \in 1 .. num}

-----------------------------------------------------------------------------
(* A part of a call, or of a part: n bytes from a on, all on one chip, the *)
(* from-th of the buffer and those after it.                               *)
Part(chip, a, n, from) == [chip |-> chip, a |-> a, n |-> n, from |-> from]

(* Mutant of BankWrite: the first page is not cut at its end.              *)
BankWriteUncut(part) == <<part>>

(* eeprom_write_bank: the rest of the first page, the full pages, and the  *)
(* last page when it is not the first; a call that ends with a page makes  *)
(* a last transfer of no bytes to the page after it.                       *)
BankWrite(part) ==
  LET end == part.a + part.n
      cur_blk == part.a \div PageSize
      last_blk == end \div PageSize
      head == Min({part.n, PageSize - (part.a % PageSize)})
      full == Max({last_blk - cur_blk - 1, 0})
      Blk(k, m) == Part(part.chip, ((cur_blk + k) * PageSize) % Bank, m,
                        part.from + head + (k - 1) * PageSize)
  IN  <<Part(part.chip, part.a, head, part.from)>>
      \o [k \in 1 .. full |-> Blk(k, PageSize)]
      \o (IF last_blk = cur_blk + full + 1
          THEN <<Blk(full + 1, end % PageSize)>> ELSE << >>)

(* Mutant of BankRead: the second part fills the buffer from its start.    *)
BankReadAgain(part) == [i \in 1 .. part.n |-> Part(part.chip, part.a + i - 1, 1, i - 1)]

(* eeprom_read_bytes.                                                      *)
BankRead(part) ==
  [i \in 1 .. part.n |-> Part(part.chip, part.a + i - 1, 1, part.from + i - 1)]

(* eeprom_write and eeprom_read: a call that reaches the end of the first  *)
(* chip is made in two parts.                                              *)
Transfers(o, part) == IF o = "write" THEN BankWrite(part) ELSE BankRead(part)

Split(o, a, n) ==
  IF a >= Bank THEN Transfers(o, Part(2, a - Bank, n, 0))
  ELSE IF a + n < Bank THEN Transfers(o, Part(1, a, n, 0))
  ELSE Transfers(o, Part(1, a, Bank - a, 0)) \o Transfers(o, Part(2, 0, n - (Bank - a), Bank - a))

-----------------------------------------------------------------------------
Init == /\ build \in [dev : {"FRAM", "EEPROM"}, chips : {1, 2}]
        /\ mem = [x \in Cell |-> Old]
        /\ ptr = 0 /\ latch = << >> /\ cycle = {} /\ held = FALSE
        /\ pc = "idle" /\ op = "none" /\ addr = 0 /\ num = 0
        /\ plan = << >> /\ sent = 0 /\ got = << >> /\ missed = {} /\ astray = {}
        /\ wait_eeprom_idle = FALSE

(* A call within the memory.  The write cycle the last call started may    *)
(* still be running: its bytes count as Old.                               *)
Begin(o, a, n) == /\ pc = "idle"
                  /\ a + n <= build.chips * Bank
                  /\ pc' = "poll"
                  /\ op' = o /\ addr' = a /\ num' = n
                  /\ plan' = Split(o, a, n)
                  /\ mem' = [x \in Cell |-> Old]
                  /\ latch' = [x \in DOMAIN latch |-> Old]
                  /\ missed' = {} /\ astray' = {}
                  /\ UNCHANGED <<build, ptr, cycle, held, sent, wait_eeprom_idle>>

eeprom_write(a, n) == Begin("write", a, n) /\ got' = << >>

eeprom_read(a, n) == Begin("read", a, n) /\ got' = [i \in 1 .. n |-> Kept]

(* Somebody marks that he waits for the driver to become idle.             *)
Waiter == /\ pc # "idle"
          /\ ~ wait_eeprom_idle
          /\ wait_eeprom_idle' = TRUE
          /\ UNCHANGED <<build, mem, ptr, bus, pc, call, plan, sent, got, missed, astray>>

(* Mutant of Done: whoever waits is forgotten.                             *)
DoneSilent == /\ plan' = Tail(plan)
              /\ pc' = IF plan' = << >> THEN "idle" ELSE "poll"
              /\ sent' = 0 /\ ptr' = 0
              /\ UNCHANGED wait_eeprom_idle

(* A transfer is over; with the last one the call returns.                 *)
Done == /\ plan' = Tail(plan)
        /\ pc' = IF plan' = << >> THEN "idle" ELSE "poll"
        /\ sent' = 0 /\ ptr' = 0
        /\ wait_eeprom_idle' = (wait_eeprom_idle /\ pc' # "idle")

-----------------------------------------------------------------------------
(* Mutant of Ready: does not wait for the write cycle.                     *)
ReadyBusy == /\ pc = "poll"
             /\ ~ held
             /\ pc' = "address"
             /\ latch' = Restrict(latch, {x \in DOMAIN latch : x[1] \in cycle})
             /\ UNCHANGED <<build, mem, ptr, cycle, held, call, plan, sent, got, missed, astray,
                            wait_eeprom_idle>>

(* while(is_eeprom_busy()): a START, which needs SDA to be free and makes  *)
(* a chip forget bytes that no STOP followed, and the device address,      *)
(* which a chip in its write cycle does not acknowledge.                   *)
Ready == /\ pc = "poll"
         /\ ~ held /\ Selected \notin cycle
         /\ pc' = "address"
         /\ latch' = Restrict(latch, {x \in DOMAIN latch : x[1] \in cycle})
         /\ UNCHANGED <<build, mem, ptr, cycle, held, call, plan, sent, got, missed, astray,
                        wait_eeprom_idle>>

(* START, device and cell address; for a read also START and device again. *)
(* All of it reached the chip.                                             *)
Address == /\ pc = "address"
           /\ ptr' = Head(plan).a
           /\ pc' = IF op = "write" THEN "data" ELSE "receive"
           /\ UNCHANGED <<build, mem, latch, cycle, held, call, plan, sent, got, missed, astray,
                          wait_eeprom_idle>>

(* Where the chip's address register stands after a byte at p: that of an  *)
(* EEPROM stays within the page.                                           *)
After(p) == IF build.dev = "FRAM" THEN (p + 1) % Bank
            ELSE p - (p % PageSize) + ((p + 1) % PageSize)

(* The chip takes a byte: an FRAM stores it at once, an EEPROM latches it. *)
Take == LET i == Head(plan).from + sent + 1
        IN  /\ ptr' = After(ptr)
            /\ IF build.dev = "FRAM"
               THEN mem' = [mem EXCEPT ![Cur] = i] /\ UNCHANGED latch
               ELSE /\ latch' = [x \in DOMAIN latch \cup {Cur} |-> IF x = Cur THEN i ELSE latch[x]]
                    /\ UNCHANGED mem

Data == /\ pc = "data"
        /\ sent < Head(plan).n
        /\ Take
        /\ sent' = sent + 1
        /\ UNCHANGED <<build, cycle, held, pc, call, plan, got, missed, astray, wait_eeprom_idle>>

(* TWI_STOP starts the write cycle of what was latched.                    *)
Stop == /\ pc = "data"
        /\ sent = Head(plan).n
        /\ cycle' = {x[1] : x \in DOMAIN latch}
        /\ Done
        /\ UNCHANGED <<build, mem, latch, held, call, got, missed, astray>>

Receive == /\ pc = "receive"
           /\ got' = [got EXCEPT ![Head(plan).from + 1] = IF mem[Cur] = Old THEN Cur ELSE Wrong]
           /\ Done
           /\ UNCHANGED <<build, mem, bus, call, missed, astray>>

(* Mutant of WriteNack: the transfer goes on to the next page.             *)
WriteNackPassed ==
  /\ op = "write"
  /\ pc = "address" \/ (pc = "data" /\ sent < Head(plan).n)
  /\ Done
  /\ UNCHANGED <<build, mem, bus, call, got, missed, astray>>

(* A missing acknowledge in a write: the page is written again from its    *)
(* start.  The chip may have taken the byte all the same.                  *)
WriteNack == /\ op = "write"
             /\ \/ /\ pc = "address"
                   /\ UNCHANGED <<mem, ptr, latch>>
                \/ /\ pc = "data" /\ sent < Head(plan).n
                   /\ Take \/ UNCHANGED <<mem, ptr, latch>>
             /\ pc' = "poll"
             /\ sent' = 0
             /\ UNCHANGED <<build, cycle, held, call, plan, got, missed, astray, wait_eeprom_idle>>

(* In a read, of a device address or of the low byte of the cell address,  *)
(* which are looked at: the byte is given up; the error eeprom_read_byte   *)
(* returns is not looked at.  A chip that took the read address and was    *)
(* not heard puts the first bit on the bus, and the next START finds SDA   *)
(* low if that bit is 0.                                                   *)
ReadNack == /\ pc = "address" /\ op = "read"
            /\ missed' = missed \cup {Head(plan).from + 1}
            /\ Done
            /\ held' \in {FALSE, MayHold}
            /\ UNCHANGED <<build, mem, latch, cycle, call, got, astray>>

(* The answer to the high byte of the cell address is not looked at: a     *)
(* chip that did not take it, but the low one, sends a byte from elsewhere. *)
HighByteLost == /\ pc = "address" /\ op = "read" /\ Cardinality(astray) < MaxAstray
                /\ got' = [got EXCEPT ![Head(plan).from + 1] = Wrong]
                /\ astray' = astray \cup {Head(plan).from + 1}
                /\ Done
                /\ UNCHANGED <<build, mem, bus, call, missed>>

(* Nor is the second START, for the read address: a chip that did not see  *)
(* it is still being written to.  It takes what follows as data, one byte, *)
(* or a second one while the processor, having heard an acknowledge, reads *)
(* what it leaves on the bus itself; an EEPROM then gets its STOP, too.    *)
StartFails ==
  LET i == Head(plan).from + 1
      first == <<Selected, Head(plan).a>>
      second == <<Selected, After(Head(plan).a)>>
  IN /\ pc = "address" /\ op = "read" /\ Cardinality(astray) < MaxAstray
     /\ \E heard \in BOOLEAN, cells \in {{}, {first}, {first, second}} :
          /\ ~ heard => cells # {first, second}
          /\ mem' = [x \in Cell |-> IF build.dev = "FRAM" /\ x \in cells THEN Stray ELSE mem[x]]
          /\ IF build.dev = "EEPROM" /\ heard
             THEN /\ latch' = [x \in DOMAIN latch \cup cells |->
                                  IF x \in cells THEN Stray ELSE latch[x]]
                  /\ cycle' = {x[1] : x \in DOMAIN latch'}
             ELSE UNCHANGED <<latch, cycle>>
          /\ got' = IF heard THEN [got EXCEPT ![i] = Wrong] ELSE got
          /\ missed' = IF heard THEN missed ELSE missed \cup {i}
          /\ astray' = astray \cup {i} \cup {j \in 1 .. num : Home(j) \in cells}
     /\ Done
     /\ UNCHANGED <<build, held, call>>

-----------------------------------------------------------------------------
(* The chip's own step, and the loss of power, which leaves any part of a  *)
(* running cycle done.                                                     *)
Program(cells) == mem' = [x \in Cell |-> IF x \in cells THEN latch[x] ELSE mem[x]]

CycleEnd(c) ==
  /\ c \in cycle
  /\ Program({x \in DOMAIN latch : x[1] = c})
  /\ latch' = Restrict(latch, {x \in DOMAIN latch : x[1] # c})
  /\ cycle' = cycle \ {c}
  /\ UNCHANGED <<build, ptr, held, pc, call, plan, sent, got, missed, astray, wait_eeprom_idle>>

PowerLoss ==
  /\ \E cells \in SUBSET {x \in DOMAIN latch : x[1] \in cycle} : Program(cells)
  /\ ptr' = 0 /\ latch' = << >> /\ cycle' = {} /\ held' = FALSE
  /\ pc' = "idle" /\ plan' = << >> /\ sent' = 0
  /\ op' = IF op \in {"write", "cut"} THEN "cut" ELSE "none"
  /\ got' = << >> /\ missed' = {} /\ astray' = {} /\ wait_eeprom_idle' = FALSE
  /\ UNCHANGED <<build, addr, num>>

-----------------------------------------------------------------------------
Main == \/ Ready \/ Address \/ Data \/ Stop \/ Receive
        \/ WriteNack \/ ReadNack \/ HighByteLost \/ StartFails

Next == \/ \E a \in 0 .. 2 * Bank - 1, n \in 1 .. MaxNum : eeprom_write(a, n)
        \/ \E a \in 0 .. 2 * Bank - 1, n \in 1 .. MaxRead : eeprom_read(a, n)
        \/ Waiter \/ Main \/ PowerLoss
        \/ \E c \in Chips : CycleEnd(c)

Spec == Init /\ [][Next]_vars

(* The processor goes on, write cycles end, and no byte that is sent again *)
(* and again is refused for ever.                                          *)
FairSpec == /\ Spec
            /\ WF_vars(Main)
            /\ SF_vars(Ready) /\ SF_vars(Address)
            /\ \A i \in 0 .. PageSize : SF_vars(Data /\ sent = i)
            /\ \A c \in 1 .. 2 : WF_vars(CycleEnd(c))

-----------------------------------------------------------------------------
TypeOK == /\ build \in [dev : {"FRAM", "EEPROM"}, chips : {1, 2}]
          /\ mem \in [Cell -> 0 .. Stray]
          /\ ptr \in 0 .. Bank - 1
          /\ DOMAIN latch \subseteq Cell /\ \A x \in DOMAIN latch : latch[x] \in 0 .. Stray
          /\ cycle \subseteq Chips /\ held \in BOOLEAN
          /\ pc \in {"idle", "poll", "address", "data", "receive"}
          /\ op \in {"none", "write", "read", "cut"}
          /\ addr \in 0 .. build.chips * Bank - 1 /\ num \in 0 .. MaxNum
          /\ \A t \in ToSet(plan) : /\ t.a \in 0 .. Bank - 1
                                    /\ t.n \in 0 .. PageSize
                                    /\ t.from + t.n <= num
          /\ sent \in 0 .. PageSize
          /\ \A i \in DOMAIN got : got[i] \in Cell \cup {Kept, Wrong}
          /\ missed \subseteq 1 .. num /\ astray \subseteq 1 .. num
          /\ wait_eeprom_idle \in BOOLEAN

(* When eeprom_write returns, the chip has, or is programming, each byte   *)
(* at its address and nothing else changed, whatever was refused and       *)
(* repeated on the way, and at the ends of pages and chips.                *)
Written ==
  pc = "idle" /\ op = "write" =>
    /\ \A i \in 1 .. num : Home(i) \in DOMAIN latch \/ mem[Home(i)] = i
    /\ \A i \in 1 .. num : Home(i) \in DOMAIN latch => latch[Home(i)] = i
    /\ \A x \in DOMAIN latch : x \in Homes \/ latch[x] = Old
    /\ \A x \in Cell : x \in Homes \/ mem[x] = Old

(* Wherever power fails, a cell is as before or has its byte of the call,  *)
(* and on one chip no page is touched before the pages ahead of it are     *)
(* complete.                                                               *)
PagesInOrder ==
  op \in {"write", "cut"} =>
    /\ \A x \in Cell \ Homes : mem[x] = Old
    /\ \A i \in 1 .. num : mem[Home(i)] \in {Old, i}
    /\ \A i, j \in 1 .. num :
         /\ i < j /\ mem[Home(j)] = j /\ Home(i)[1] = Home(j)[1]
         /\ Home(i)[2] \div PageSize # Home(j)[2] \div PageSize
         => mem[Home(i)] = i

(* eeprom_read reports no error: each byte of the caller's buffer comes    *)
(* from its own address, or was left untouched because its transfer met an *)
(* error, or is wrong, because of a failure that eeprom_read_byte does not *)
(* look at, of its own transfer or of that of a byte whose cell is near.   *)
ReadBack ==
  pc = "idle" /\ op = "read" =>
    \A i \in 1 .. num : \/ got[i] = Home(i)
                        \/ got[i] = Kept /\ i \in missed
                        \/ got[i] = Wrong /\ i \in astray

(* Whoever waits for the driver is released: every call returns.           *)
WaiterReleased == wait_eeprom_idle ~> ~ wait_eeprom_idle
=============================================================================

# Verification of the Contiki port for STM32F103 (MDK_contiki)

This directory holds TLA+ models of the firmware in this repository, the TLC
runs that check them on small instances, and TLAPS proofs of what holds for
every instance. `PROJECT.json` lists the runs, the mutants that show each
property can fail, the source lines behind each definition, the findings, the
hazards and the theorems.

## 1. The system

The repository is a Keil MDK project for an STM32F103 board. The program that
`MDK_contiki.uvprojx` links is the Contiki 2.7 process kernel and event timers
(five files of `contiki-2.7`), a board support package in `BSP/`, and one
process, `blink_process`, in `USER_APP/contiki-main.c`. The other three
thousand files of `contiki-2.7` and the peripheral library in `RTE/` are
third-party code, mostly not linked.

There are no threads. The main program runs on one stack; interrupts (SysTick,
TIM3, RTC, USART2) run on top of it and share a few words with it.

| Component | State | Operations | Interacts with |
|---|---|---|---|
| event queue (`process.c`) | `events[32]`, `fevent`, `nevents` (both `unsigned char`) | `process_post`, the head of `do_event` | every handler posts; `process_run` takes |
| process kernel (`process.c`, `autostart.c`) | `process_list` and the `next` pointers, `state`, `needspoll`, `poll_requested`, `process_current` | `process_start`, `process_exit`, `process_post_synch`, `process_poll`, `process_run`, `do_poll`, `do_event`, `call_process`, `exit_process` | calls handlers, which call it back; interrupts call `process_poll` |
| event timers (`etimer.c`, `timer.c`) | `timerlist`, `next_expiration`, each timer's start, interval and owner | `etimer_set/reset/restart/adjust/stop`, `etimer_process` (POLL, EXITED), `update_time` | posts TIMER events; polled by SysTick; told of exits by the kernel |
| clock tick (`clock.c`) | `current_clock`, `second_countdown`, `current_seconds` | `SysTick_Handler`, `clock_time` | reads `timerlist` and `next_expiration`, polls `etimer_process` |
| main loop, blink process (`contiki-main.c`) | `et`, the LED, where `blink_process` waits | starts `etimer_process` and the autostart table, then `process_run` for ever; `blink_process` sets its timer and switches the LED | kernel, event timers |
| serial flash (`SPI.c`) | the chip, `SPIFLASH_PAGETMP`, `SPIFLASH_LASTWADDR`, `SPIFLASH_LASTwrite` | `SPIFLASH_WriteBuffer`, `SPIFLASH_Write`, `SPIFLASH_WriteImmed`, `SPIFLASH_Read` | chip commands; power loss |
| EEPROM (`eeprom.c`) | the chips, `eeprom_status`, `wait_eeprom_idle` | `eeprom_write`, `eeprom_write_bank`, `eeprom_write_page`, `eeprom_read` | bit-banged TWI, unbounded waits and retries |
| real-time clock (`RTC.C`) | `g_sec` | `RTC_Set`, `RTC_Get`, `RTC_GetWeek`, `Time_Pasted`, `Time_comp` | RTC interrupt counts seconds |
| console (`USART.C`) | `RxData`, `RxDataLen`, `EndOfCom` | `USART2_IRQHandler` | none reads `EndOfCom` |
| delay (`Time.c`, `bsp.c`) | `Tim3_systick` | `real_delay` | TIM3 interrupt |
| radio (`BSP/SI4438`) | `RF_receive_flag`, `timer_out_flag`, `RF_int_flag`, `ppdu`, the position in the caller's buffer; the chip's FIFOs and interrupts | `Si4438_SendFrame`, `Si4438_ReceiveFrame`, `gRadio_CheckReceived_VariablePacket`, two interrupt handlers | the chip raises interrupts at any moment; not linked into this program |

### What is hard here

* Handlers run inside kernel loops and change what the loops walk over: a
  broadcast, the announcement of an exit and the poll walk all keep a pointer
  into the process list while handlers start, end and restart processes.
* The same kernel functions nest to any depth on one stack, and
  `process_current` and the CALLED state are restored by hand on each way out.
* Interrupts set poll flags and read the timer list between any two
  instructions; no section of the kernel disables them.
* Clock values wrap, and the code compares them in two ways: by distance from
  now (`update_time`, `timer_expired`) and plainly (`SysTick_Handler`).
* The queue has a limit; `etimer_process` must retry when a post is refused.
* The flash driver keeps a page in RAM between calls, and its state must be
  right for whatever write comes next and whenever power fails.
* The EEPROM driver repeats a page until every byte was acknowledged, while the
  chip may have taken bytes of the failed attempts, and is deaf while it programs.
* A radio frame is longer than the chip's FIFO: it is written and read in pieces,
  on events that come at any moment and are cleared by a read-then-clear that
  loses those raised in between; time-outs race late events.

What makes each part correct: the queue is a bounded FIFO; a running process is
on the list exactly once, is never re-entered and always runs as
`process_current`; a poll, a broadcast and an exit announcement reach whom they
should; a timer has one place and a living owner, fires at or after its due
time and is not forgotten; the LED keeps changing and never early; chip and page
buffer together hold what was written; an EEPROM write that returned is complete
and one cut short left a prefix of pages; the clock shows the civil calendar; a
frame reported sent is whole, a frame heard whole is delivered, and the receiver
recovers whenever its time-out runs or another frame comes in.

## 2. The modules

| Module | Models | Notes |
|---|---|---|
| `EventQueue` | what the queue promises: a bounded FIFO | abstract specification |
| `EventRing` | the ring and its counters | refines `EventQueue` (`RingIsQueue`) |
| `EventRingProofs` | | theorems about `EventRing` |
| `Process` | the process kernel with its nested activations | uses the FIFO for the ring, as proved |
| `ProcessProofs` | | theorems about `Process` |
| `Etimer` | event timers, tick interrupt, main loop | keeps of the kernel only the order of a pass |
| `EtimerProofs` | | theorems about `Etimer` |
| `Blinker` | what `blink_process` promises: a LED that changes no sooner than `CLOCK_SECOND` | abstract specification |
| `Blink` | `blink_process` composed with the timers, the kernel pass and the tick | extends `Etimer`, refines `Blinker` (`LedIsBlinker`) |
| `BlinkProofs` | | theorems about `Blink`, and about the timers within it |
| `SpiFlash` | buffered and immediate flash writes, reads, power loss | |
| `SpiFlashProofs` | | theorems about `SpiFlash` |
| `Eeprom` | EEPROM writes and reads over pages and chips, missed acknowledges, power loss | |
| `EepromProofs` | | theorems about `Eeprom` |
| `Calendar` | what the clock promises: the civil calendar, second by second | abstract specification |
| `Rtc` | the second counter and its conversions | refines `Calendar` (`IsCalendar`) |
| `RtcProofs` | | theorems about `Rtc` |
| `RadioFrame` | frame and FIFO sizes, the chip's interrupts and their read-then-clear | used by the next two |
| `RadioSend` | `Si4438_SendFrame` and the transmitter | |
| `RadioReceive` | `Si4438_ReceiveFrame`, the receiver and the air | |
| `Radio` | the half-duplex node: both, sharing chip and interrupts | composition |
| `RadioProofs` | | theorems about `Radio` |
| `MC*` | TLC instances and symmetry | |

Definitions named `...Again`, `...Unchecked` and the like, each introduced as a
"Mutant of", are the model with one plausible mistake. They are used by nothing
but the runs that confirm a property notices the mistake.

### EventRing

`events`, `fevent` and `nevents` are the C variables; `taken` is what
`do_event` copied out, `ret` what `process_post` returned. `NumRange` is the
number of values of the counters' type, so `Wrap` is the cast in
`process_post`. The refinement maps `queue` to the `nevents` entries from
`fevent` on. `RingAssumption` is what the arithmetic needs, and this port (32
entries, 256 values) meets it with room to spare.

### Process

The list is `process_list` and `next`, with `next` kept by processes that left
it, as in C: a cursor resting on such a process still follows its pointer. The
state of the computation is `stack`, one frame for each activation: main before
its loop (`boot`), a `do_poll` walk (`poll`, `polled`), a `do_event` broadcast
(`bcast`, `deliver`, `delivered`), a handler called by `call_process` (`call`) or
directly by `exit_process` (`direct`), the end of `process_post_synch`
(`synch`), and `exit_process` (`exit`, `told`, `unlink`). Each frame keeps the C
locals (`cur`, `saved`, `from`). A handler is arbitrary: it makes up to
`HandlerOps` kernel calls of the kinds in `Calls` and then yields or ends.
`Interrupt(p)` is a `process_poll` between any two steps.

Three history fields record obligations and guide nothing: `owed` (polls
requested of the current incarnation), and `due` in walking frames (processes
that the walk has yet to reach). `ExitActive` says whether `process_exit` may
name a process whose handler is on the stack; the code allows it, and
`process_selfexit` shows what follows. The other runs keep it FALSE, which
is a limit of what they show. The data argument of events is abstracted away.
Every process is assumed to have a thread function.

A `process_poll` is one step, and so is one round of `do_poll` up to its call:
an interrupt between the test of `needspoll` and its reset has the effect of
one before the test, because the handler that is then called runs after it.

### Etimer

`timerlist` is a sequence. `timer[t]` has the three C fields. Time is modulo
`ClockRange`, standing for the 2^32 values of `clock_time_t`. `update_time` is
two steps, `UpdateRead` and `UpdateStore`, with ticks between them; the scan of
`etimer_process` is one step per timer, and the removal after a
successful post one step. `polled` is the poll flag of `etimer_process`
together with `poll_requested`. The order of a pass is `do_poll`, then one
event; other interrupts may poll a client first (`ClientPoll`).

`remain` (history) counts real ticks to a timer's due time and never wraps: the
properties compare the wrapping arithmetic of the code with it. `stale`
(history) is set when an exit drops timers and cleared by the next
`update_time` that finds none due: the code repairs `next_expiration` only then.

An exit is `Exit` followed by the drop of the process's timers. The other
clients' handlers for EXITED, which the kernel calls during the same walk, are not
modelled here (`Process` has them); neither is a broadcast, during which polls
are served between deliveries.

Preconditions on callers, part of the guards and named in the constants: a
timer is reset only after it expired and less than `MaxLate` ticks late; with
`AnyShift` FALSE an adjustment moves neither the start after now nor the due
time before now. `EtimerAssumption` asks that an interval plus the delay fit the
clock's width.

### SpiFlash

One step per chip command, so that `PowerLoss` comes between any two of them.
`lastwaddr` is the page of `SPIFLASH_LASTWADDR`, since only that is used. Erase
and page program are the external chip's operations, and are taken as all or nothing;
the bits of a page whose program was interrupted are not modelled.
`EndOnPage` says whether callers end a buffered write at a page boundary.
`WriteImmed` is `SPIFLASH_WriteImmed`, which works on its own `PAGETMP`
(`pagetmp`) page by page: `ImmedErase` reads and erases, `ImmedWrite` programs.
`Apart` says whether its callers keep off the page in the buffer and reach the
end of their first page; the code needs both and checks neither (`Overrun` is
the memory behind the caller's data that the code copies otherwise). `Read` is
`SPIFLASH_Read`, and `OthersKept` is stated with it. `want` (history) is the
memory as callers wrote it, and `dirty` the pages whose latest bytes may not be
on the chip.

### Blink

`Blink` extends `Etimer` and replaces one arbitrary client by `blink_process`:
`at` is where its protothread waits (`begin`, `dark`, `lit`), `led` the LED,
`since` (history) the ticks since the LED changed. `Proceed` is one pass of the
thread from a wait to the next: it tests `etimer_expired`, switches the LED and
sets the timer. `Wait` is the return at a wait that is not over. Everything else
of `Etimer` goes on around it: the other clients set, reset, restart and stop timers
and may end, and `ClientPoll` wakes `blink_process` with polls it did not ask
for. `Autostart` is the INIT event that `autostart_start` delivers before
the main loop. The process never ends, so `Exit` is left to the others.

### Eeprom

`build` is the compile-time choice of FRAM or EEPROM (`DEV_TYPE`) and of one or
two chips (`MEM_SIZE`). `Split` is the split of a call over the chips,
`BankWrite` that of a part over pages, an empty last transfer included, and `BankRead`
over bytes; together they give `plan`, the transfers a call will make, which is
fixed when it begins.
The steps of a transfer are the wait (`Ready`), the address (`Address`), each byte
(`Data`), and the STOP (`Stop`) that starts an EEPROM's write cycle. `WriteNack`
is a missed acknowledge at any of these, after which the page is begun again,
and the chip may or may not have taken the byte. In a read the code looks at the
first START, the two device addresses and the low byte of the cell address, and
gives the byte up (`ReadNack`). It does not look at the answer to the high byte
(`HighByteLost`: another cell is read) nor at the second START (`StartFails`: the
chip, still in the write, takes what follows as data, and an FRAM, or an EEPROM
that gets its STOP, has a cell overwritten).
The chip (`Take`, `CycleEnd`) is external: an FRAM stores each byte, an EEPROM
latches bytes within one page and programs them after the STOP, cell by cell as
far as power failures can tell; its address register counts for one transfer only.
Cells hold the index of the byte written, relative to the last call, so that any byte
at a wrong place is seen, or `Stray` if no caller wrote it. `missed` and `astray`
(history) are the bytes of a read whose failure is looked at and those that one
not looked at can reach, the bytes of the cells overwritten among them. The model
takes it that the chip sees a START that the processor reports as made.

`MayHold` says whether a chip may be left driving SDA low after a read that was
given up; the run excludes it, the findings say what it leads to.

### Rtc

`g_sec` is kept as days and seconds of the day, because TLC's integers are
narrower than the product; nothing overflows 32 bits before 2100. `YearsBefore`
and `MonthsBefore` are what the loops of `RTC_Set`, `Time_Pasted` and
`Time_comp` add up: 365 days for each year passed and one more for each leap
year, the table's days for each month and one more after February. The loops of
`RTC_Get` subtract the same numbers until what is left is less than the next
one: `YearOf` and `MonthOf` are the year and the month at which they stop, and
`RTC_Get` includes the year 0 that the code leaves for the first day of 1970.
`Calendar` defines dates independently: by carrying from field to field, and the
weekday by counting days. `IsCalendar` maps `now` to `RTC_Get(g_sec)`. `mark` and
`since` are a time that a caller read and the seconds since. `RtcAssumption`
says that callers pass months, days and times within their fields, which
`RTC_Set` does not check, and that the date of the build is of the range; the
year of a setting is arbitrary.

### Radio

A frame is its byte positions, head, payload and checksum; a byte received is a
position of a frame with its length, or noise. So a byte lost, doubled or out of
place is seen, and `crc` is exact: it says whether all bytes read are the
frame's; that the real checksum finds every damage is an assumption. `step`
separates reading the chip's interrupts (`Check`), clearing them (`Clear`) and
acting on them: `Raise` may come in between, and what it adds is then cleared
unseen. `Sync` is the interrupt of the sync word, which also overwrites
`rx_flag`, so that an event just read is lost; that is its second disjunct. A
receive action reads the FIFO in one step, bytes that arrive meanwhile counting
as later ones. `BreakOff` turns the rest of a frame into noise.

`Receive_init`, called while the chip receives, is three steps, because a sync word
may be heard between its lines: it clears `RF_receive_flag`, then `timer_out_flag`
(`StopTimer`), then starts reception anew (`Started`). `wireless_phy_init` is one: it
begins by setting `RF_status` to idle, so that sync words are not taken up before
its end.

A time-out may strike at any look at which no event is flagged; the code
tests the event (wireless_phy.c:688) some lines before the clock (800). An event raised between the two
with the time just run out is not modelled: the time-out is 100 ms, and at 10 kbps the next
event of a frame comes within 40 ms of the one before. Time-outs earlier than the
clock allows are in the model.

The sizes are constants with the relations the code's values meet: head 4,
checksum 2, FIFO 64, payload up to 252, 58 payload bytes before the start of
transmission and then chunks of 30, "almost empty" and "almost full" at 48, 20 and 40
bytes read at the first and the later events, buffer 254.
`whole` (history) follows a frame that found the receiver idle.

## 3. The runs

| Run | Instance | Shows |
|---|---|---|
| `event_ring` | 4 entries, counters of 7 values, 2 events | the ring is a FIFO through all wraps |
| `process` | 3 processes, queue of 1, one call per handler run | type, `CurrentIsRunner`, `CalledOnce`, `StateListAgree`, `ListAcyclic`, `NoLostPoll`, `BroadcastReachesAll`, `ExitReachesIdle` |
| `process_live` | 2 processes, two calls per handler run, no restarts | `RunReturns`, `PollServed` |
| `process_selfexit` | `process_exit` of an active process | a process runs that is not on the list |
| `etimer` | 2 timers, 2 processes, 7 clock values, ticks up to 2 late | `ListedOwned`, `ExpiryNoticed`, `NextIsEarliest`, `NeverEarly` |
| `blink` | `blink_process` and another client, 2 timers, queue of 1, 6 clock values | `LedIsBlinker`, `KeepsBlinking`, `DueIsServed` |
| `etimer_exit_wrap` | 2 processes, one exits | a timer is overdue with no poll requested |
| `spi_flash` | 3 pages of 2 bytes, buffered and immediate writes of 1 to 4 bytes | `NothingLost`, `BufferIsPage`, `OnePageUnsaved`, `OthersKept` |
| `spi_boundary` | the same, writes may end on a boundary | a page is overwritten with its neighbour |
| `eeprom` | 1 or 2 chips of 3 pages of 2 cells, FRAM or EEPROM, writes of 1 to 5 and reads of 1 to 3 bytes anywhere | `Written`, `PagesInOrder`, `ReadBack`, `WaiterReleased` |
| `rtc` | the ends of days, months, years and centuries, 1970 to 2099 | `Elapsed`, `IsCalendar` |
| `radio` | FIFO of 4, frames of 3 and 6 bytes, chunks of 1 and 2 | `SentWhole`, `WholeDelivered`, `NeverDeaf` |

The three runs that expect a violation belong to findings in `PROJECT.json`, each
with the text it contradicts. The other findings carry no run: they are
behaviours the models contain, which show when a constant is changed
(`AnyShift` with a positive `Shift` for `etimer_adjust`, `MayHold`, `Apart`) or
which a property leaves out (`ExitReachesIdle` speaks of processes that are not
on the stack; `RunReturns` is checked with handlers that start no process, and says
nothing of those that extend a broadcast by doing so; `WaiterReleased` is checked
with `MayHold` false; `ReadBack` allows for the failures that `eeprom_read_byte` does not
look at; `NeverDeaf` asks for a running time-out or a frame coming in).

### Bounds

* Three processes are enough for a cursor, a process that leaves and one that is
  restarted elsewhere; the nesting they allow (a process inside the call of another
  inside a broadcast) reaches every frame kind and every pair of walks.
  `HandlerOps` bounds the calls in one activation, not their number over time:
  handlers run again and again.
* The `process` run leaves the handlers' own `process_poll` to the interrupt,
  which can do it at the same moments; `process_live` has both.
* A queue of one entry makes "full" frequent and the order of two entries
  impossible; order is the subject of `event_ring`, where it is proved for all
  sizes.
* The clock has a few values more than the longest interval plus the delays, so
  that it wraps within every few steps and every position of a timer relative
  to the wrap occurs. `MaxLate` bounds how late the main loop may be.
* Two timers are enough for an earliest one, one that is not, and a list with a
  first and a later element; two owners for an exit that drops one and not
  the other.
* `blink` has one timer beside that of `blink_process` and a second of two ticks,
  less than half of the clock's range; a queue of one makes every refusal occur.
* In `eeprom` a call covers up to four pages and both chips, starts and ends at
  every offset, and the last cycle of the previous call may still run. A read goes
  byte by byte, so that three of them (`MaxRead`) give a first, a last and one with
  neighbours on both sides, over the ends of pages and of a chip. A call meets one failure
  that is not looked at (`MaxAstray`), which can already reach the byte after, and the one
  at the start of the page; any number of those looked at.
* `rtc` starts two seconds before midnight of every day of 1970 to 1973, 1996 to
  2004 and 2096 to 2098 and of every month's last day in between, and is set again
  to times where other fields carry. It ticks in the seconds around the ends of
  a minute, of the twelfth hour and of the day only (`Window`).
* In `radio` the long frame overfills the FIFO by half, is sent in three chunks
  and read in two or more, and the short one goes in one; the relations between the
  sizes are those of the code. One frame follows another without end.
* Three pages of two bytes give writes within a page, across one boundary, and
  over a full page between two others.

### Fairness

`Process` assumes weak fairness of the main program as a whole (`Kernel` or
`Handler` step): the processor executes the next instruction. Handlers return
because their number of calls is bounded: a handler that loops for ever hangs
the C program too. No fairness is assumed of interrupts, and they may come
endlessly often. `Etimer` assumes the same of `Main`, and of the tick, which
hardware produces; the guard of `SysTick` is a bound on the delay of the main
loop, not a claim about the hardware.

`Blink` assumes it of the program (`Program`) and of the tick. `Eeprom` assumes weak fairness
of the processor and of the end of a write cycle, and strong fairness of the
steps that a missed acknowledge undoes: a byte that is sent again and again is
acknowledged in the end; with a chip that refuses for ever, the driver's retry
loops do not end. `Radio` assumes weak fairness of the program's steps, of the
transmitter and of the bytes of a frame that has begun, none of frames
beginning or of calls of `Si4438_SendFrame`.

`KeepsBlinking` excepts the time after an exit that left `next_expiration` stale
(`etimer_exit_wrap` shows why). `DueIsServed` is checked with clients that post no events of their own. With
endless chatter, a queue that is full at each scan starves the timers; nothing in
the code prevents that, and it is listed as a hazard.

## 4. The proofs

All proofs are checked by TLAPS for every value of the constants that the named
assumptions admit.

* `EventRingProofs`: `RingType` (`[]TypeOK`) is inductive by itself once
  `CastsKeep` shows, from `RingAssumption`, that no cast changes a value.
  `RingImplementsQueue` (`RingIsQueue`) shows that a post appends to the stored
  sequence (`PostAppends`: the slot written is none of the stored ones) and a take
  removes its head (`TakeRemoves`: the wrap of `fevent` shifts each index by
  one).
* `ProcessProofs`: `KernelType` (`[]TypeOK`) and `CurrentRuns`
  (`[]CurrentIsRunner`) from one invariant `IInv`, with a lemma for each kernel
  function that several actions call (`CallKeeps`, `ExitKeeps`, `StartKeeps`).
  `CurrentIsRunner` speaks of the innermost activation only and is not
  inductive: `Restores` adds that the activation above a suspended handler has
  saved that handler's process, so that it is back in `process_current` when
  the handler continues; `Held` adds that the pointers an activation follows
  are not NULL, which the types of the next state need.
  It also proves `HandlersOnce` (`[]CalledOnce`), `RunningIsListed`
  (`[]StateListAgree`), `ListHasNoCycle` (`[]ListAcyclic`), `PollsNotLost`
  (`[]NoLostPoll`), `BroadcastComplete` (`[]BroadcastReachesAll`) and `ExitAnnounced`
  (`[]ExitReachesIdle`). `Reach(n, h)`, the nodes met from `h` along the links `n`, is
  the least set that holds `h` and is closed under `n`, which needs no recursion; the
  first lemmas say what `process_start` (`ReachFront`) and `exit_process`
  (`ReachWithout`) do to it. The invariant `Shaped` relates list, states and stack:
  `Marks` (a handler on the stack is `CALLED`, a process being ended `NONE`), `Nests`
  (no process is held by two activations; `do_poll` and `do_event` run below no
  handler, since only main's loop calls them), `Linked` (the list from
  `process_list` has no cycle and holds just the processes that run or are being
  ended) and `Walks` (the cursor of `do_poll` is on the list, or its process has left
  it and still leads back to it). `PInv` adds that whoever is owed a poll is flagged,
  lives, and is ahead of a walk of `do_poll` or of one that `poll_requested` will
  start. A process started meanwhile goes to the front, behind every cursor, and one
  that ends takes its poll with it. `DInv` says the same of the walks of `do_event`
  and `exit_process`: whoever is due is ahead of the cursor, or its handler is suspended
  below the walk, which passed it over. Their cursors may rest on a process that
  has left the list, and even on one that was put in front again; `FrontMeets` and
  `OutMeets` show that whoever is on the list is met from there all the same. The
  theorems assume `Disciplined`: no
  `process_exit` of a process on the stack (`process_selfexit` shows what it does to
  the list), and no handler that posts `PROCESS_EVENT_INIT`, for which `do_event`
  declares the receiver `RUNNING` even when it has left the list. The code checks
  neither; the program of this port does neither.
* `EtimerProofs`: `TimerType` (`[]TypeOK`) and `TimersOwned` (`[]ListedOwned`)
  from one invariant, `TypeOK`, `ListedOwned` and a third part that
  (`Runs`) says whose handler is running where, so that `add_timer` books a
  timer on a living process and the drop after an exit removes all of its
  timers.
  It also proves `FiresInTime` (`NeverEarly`).  The invariant `Tracked` ties the
  wrapping clock to the real time: the clock is the timer's start plus its age
  (interval less `remain`), modulo `ClockRange`, for every timer on the list and
  every one that may still be reset.  Since an age stays below the range of the
  clock (`EtimerAssumption`), `timer_expired` is true just when the timer is due
  (`ExpiredIsDue`).  It assumes `~ AnyShift`: an `etimer_adjust` that moves a start
  into the future makes the age negative, and the code fires at once.
  It proves `DueIsNoticed` (`[]ExpiryNoticed`) and `NextExpiration`
  (`[]NextIsEarliest`) from one invariant, `Timely`, on top of `Tracked`.  Its parts
  say what `next_expiration` and the value `update_time` is about to store are
  while no timer is due, that during an update by a client the old value still
  lies ahead of the clock and before every due time (`Ahead`), so that a tick that
  comes in between finds it, and that a due timer is met by a poll, by the rest of
  the scan or by the scan's next round (`Served`).  `TickNotices` is the heart:
  comparing with `<=` suffices because the clock meets the value exactly.  The
  theorems assume `~ AnyShift` and `Shift \subseteq Nat`: `etimer_adjust` asks for no
  poll, and one that moves a due time closer can be overtaken by the tick.
* `SpiFlashProofs`: all five properties of `SpiFlash` from one invariant.  `Placed`
  says, at each point of a call, which bytes still wait in `rest`, which are in the page
  being put together in `tmp`, and that all others are in the buffer or on the
  chip.  `Marked` says that `dirty` is exactly the pages the call has yet to write
  and the buffered page when it is unsaved.  `Shape` says that the data end inside
  a page: this is where `~ EndOnPage` is needed, for a write that ends on a page's
  end leaves a buffer that names the wrong page (`spi_boundary`).  `Apart` is needed
  for `SPIFLASH_WriteImmed`.
* `BlinkProofs`: `BlinkImplementsBlinker` (`LedIsBlinker`), the refinement that the
  run `blink` checks.  `Patient` ties the LED's age to its timer: the age and the ticks that
  remain make up `CLOCK_SECOND`, and the owner field that `etimer_expired` tests is
  `PROCESS_NONE` only when the timer is due.  That nobody but the scan clears it, and
  only of a due timer, is `EtAlone`, from `ExpiredIsDue` of `EtimerProofs`.
  `ProgramTimers` carries `ListedOwned`, `ExpiryNoticed`, `NextIsEarliest` and
  `NeverEarly` over to the composition. Every step of `Blink` but the delivery of INIT,
  which sets a timer, is a step of `Etimer` that is not an `etimer_adjust`
  (`ProgramSteps`); so the assumptions that `EtimerProofs` makes about adjustments are not
  needed for the program as it is.
* `RtcProofs`: `TypeCorrect` (`[]TypeOK`), `TimeMeasured` (`[]Elapsed`) and
  `ShowsCalendar` (`IsCalendar`), for any settings. A number of leap years is a
  cardinality and a number of days a recursive function; both are brought to
  closed forms. Induction being out of reach, the least year or month at which
  a form would fail is taken and the one before it looked at (`Least`). From
  these follow that `YearOf` and `MonthOf` name one year and month, that
  `RTC_Get` and `Seccount` undo each other, that the day after a date is the
  date that `Calendar` carries to (`NextDate`: the same month, the next, or the
  next year), and that the formula of `RTC_GetWeek` counts days modulo 7
  (`WeekCounted`), which is `Calendar`'s weekday. The invariant says that `mark`
  was read off a counter of the range and that `since` is the difference to it
  (`Measured`). The theorems are about behaviours in which the date stays after
  1970-01-01 and does not pass 2099 (`InRange`): the first day of 1970 is shown
  with the year 0, which is among the findings, and after 2099 `RTC_GetWeek` and
  the range of legal years end. `ShowsCalendar` also assumes that the clock is
  set to no day that its month lacks (`DatesExist`); 31 April is stored as 1 May, which
  is not what the caller gave.
* `EepromProofs`: `TypeCorrect` (`[]TypeOK`), `WriteComplete` (`[]Written`),
  `PagesOrdered` (`[]PagesInOrder`) and `ReadRight` (`[]ReadBack`), from one invariant.
  The first half of the module is about the operators: `WritePlan` and `ReadPlan` say that
  the transfers `Split` makes of a call follow upon each other without a gap
  (`Chained`), and that the bytes of each belong side by side in one page of one chip
  (`Fits`), whatever the address and the length; `Cover` and `Block` are the page
  arithmetic of `eeprom_write_bank`, `Division`, `Quotient` and `Multiples` that of the
  integers. `Past` counts the bytes whose transfers are over. The invariant says that each
  of these is `Safe` (stored, or latched in a write cycle that runs), that those of
  the transfer under way are `Taken`, that a write touches nothing outside the call
  and a read leaves only stray bytes (`Contents`), and where bytes may be latched (`Latched`): only on a chip in its write
  cycle, or on the chip selected now, by a transfer under way or given up. `Ordered` is
  `PagesInOrder` with the latched bytes counted as begun; it is kept because a
  transfer begins only on a chip whose write cycle is over (`Ready`), when every
  byte of an earlier page is stored. `Fetched` says what a read has put into the buffer,
  and that the cells it has still to fetch are as they were (`Clean`) or counted as
  astray. `Settles` covers what the end of a
  write cycle and a loss of power have in common. Nothing is assumed but
  `EepromAssumption`: that chips end with a page and a call is shorter than a chip.
* `RadioProofs`: `RadioType` (`[]TypeOK`) and `FrameSent` (`[]SentWhole`).  `InOrder`
  says that the bytes on the air followed by those in the FIFO are the frame as far
  as it was written; `Room`, that "almost empty" still stands when the program gets to act on
  it, so that the next chunk fits (`NextPiece`, from `SendAssumption`), and that it
  is not raised twice for one chunk; `Out`, that "sent" means the end of the frame.

Every safety property and every refinement that the passing runs check are proved, under
the assumptions named above. Only model-checked: liveness (`RunReturns`, `PollServed`,
`KeepsBlinking`, `DueIsServed`, `WaiterReleased`, `WholeDelivered`, `NeverDeaf`), which
is out of the prover's reach.

## 5. Not modelled

The console, the millisecond delay, the build information and byte helpers, for
the reasons in `PROJECT.json`. Of the modelled parts: `process_alloc_event`,
`autostart_exit` and the seconds counter; the MRAM functions of `SPI.c`;
`eeprom_write_byte` and `eeprom_read_sequential`, the bits of a byte on the bus,
and the build of `eeprom.c` with `SPIMARM`; of the radio, the build with `LOW_RATE_CHECK`,
channels and hopping, signal strength, interrupts the chip is not set up to
raise, a failing `Rf_set`, and the commands' encoding. Register
set-up is nowhere modelled. The C data arguments of events, and protothreads as
such, are abstracted away.

The repository's lines are nearly all third-party: the unused bulk of
`contiki-2.7` (network stacks, file systems, other processors) and the STM32 and
CMSIS headers and libraries, with which this project has no more to do than
linking a few files. The project's own code
(`BSP/`, `USER_APP/`) is some fifteen thousand lines, most of them register
definitions, font and configuration tables and register set-up. The share of the repository that the
map covers is therefore small and cannot become large; it is the share of what
the firmware itself decides that the models aim at.

## 6. Plan

What could be stated and proved next:

* the safety half of the liveness properties, as invariants: that some poll, event or
  interrupt is outstanding whenever `KeepsBlinking` or `NeverDeaf` has something to wait
  for, so that only the fairness is left to TLC;
* for `RadioReceive`, that a frame handed to the caller is a frame that was on the air,
  byte for byte;
* for `SpiFlash`, what remains true when a write does end on a page's end.

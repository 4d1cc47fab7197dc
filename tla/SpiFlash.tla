------------------------------ MODULE SpiFlash ------------------------------
(***************************************************************************)
(* The serial flash driver of BSP/SPI.c.  The chip erases and programs     *)
(* whole pages; SPIFLASH_WriteBuffer keeps the page written last in        *)
(* SPIFLASH_PAGETMP and programs it when a write leaves that page or       *)
(* SPIFLASH_Write asks for it.  SPIFLASH_WriteImmed and SPIFLASH_Read go   *)
(* to the chip past that buffer.  Each step is one command to the chip, so *)
(* that power may fail between any two of them.                            *)
(***************************************************************************)
EXTENDS Integers, Sequences

CONSTANTS PageSize,     \* SPIFLASH_PAGESIZE
          Pages,        \* SPIFLASH_M25PE16_MEM / SPIFLASH_PAGESIZE
          Byte,
          Erased,       \* 0xFF: what an erased page reads as
          MaxLen,       \* bound: the longest write
          EndOnPage,    \* may a buffered write end at the end of a page
          Apart         \* do immediate writes keep off the buffered page, and
                        \*   take their first page to its end

ASSUME FlashAssumption ==
  /\ PageSize \in Nat \ {0} /\ Pages \in Nat \ {0} /\ MaxLen \in Nat
  /\ Erased \in Byte
  /\ EndOnPage \in BOOLEAN /\ Apart \in BOOLEAN

VARIABLES flash,          \* the chip
          tmp,            \* SPIFLASH_PAGETMP
          lastwaddr,      \* the page SPIFLASH_LASTWADDR lies in; None: 0xFFFFFFFF
          lastwrite,      \* SPIFLASH_LASTwrite == 1
          pagetmp,        \* PAGETMP, the page SPIFLASH_WriteImmed works on
          pc, op,         \* where in which call
          addr, rest,     \* WriteAddr, and the data still to be placed
          want,           \* history: the bytes callers wrote, or power loss left
          dirty           \* history: the pages whose latest bytes may be only in
                          \*   the buffer or in the call

vars == <<flash, tmp, lastwaddr, lastwrite, pagetmp, pc, op, addr, rest, want, dirty>>

None == -1
Mem == Pages * PageSize
Addr == 0 .. Mem - 1
Page == 0 .. Pages - 1
Offset == 0 .. PageSize - 1
PageOf(a) == a \div PageSize
OffsetOf(a) == a % PageSize
PagesOf(a, n) == {PageOf(x) : x \in a .. a + n - 1}
Data == UNION {[1 .. n -> Byte] : n \in 1 .. MaxLen}

Image(mem, p) == [o \in Offset |-> mem[p * PageSize + o]]
Overlay(img, o, data) ==
  [i \in Offset |-> IF i \in o .. o + Len(data) - 1 THEN data[i - o + 1] ELSE img[i]]

(* The two commands that change the chip.                                  *)
ErasePage(p) == flash' = [a \in Addr |-> IF PageOf(a) = p THEN Erased ELSE flash[a]]
WritePage(p, img) == flash' = [a \in Addr |-> IF PageOf(a) = p THEN img[OffsetOf(a)]
                                              ELSE flash[a]]

(* SPIFLASH_Read.                                                          *)
Read(a, n) == [i \in 1 .. n |-> flash[a + i - 1]]

-----------------------------------------------------------------------------
Init == /\ flash \in [Addr -> {Erased}]
        /\ tmp \in [Offset -> {Erased}] /\ pagetmp = tmp
        /\ lastwaddr = None /\ lastwrite = FALSE
        /\ pc = "idle" /\ op = "write" /\ addr = 0 /\ rest = << >>
        /\ want = flash
        /\ dirty = {}

(* SPIFLASH_WriteBuffer: a write past the end of the chip is refused.      *)
Refused(a, data) == a + Len(data) > Mem

Called(a, data) ==
  /\ pc = "idle"
  /\ EndOnPage \/ (a + Len(data)) % PageSize # 0
  /\ op' = "write"
  /\ addr' = a
  /\ rest' = data
  /\ want' = [x \in Addr |-> IF x \in a .. a + Len(data) - 1 THEN data[x - a + 1]
                             ELSE want[x]]
  /\ dirty' = dirty \cup PagesOf(a, Len(data))
  /\ UNCHANGED <<flash, tmp, lastwaddr, lastwrite, pagetmp>>

(* Mutants of Write: no range check; the buffered page is not saved.       *)
WriteAnywhere(a, data) ==
  /\ Called(a, data)
  /\ pc' = IF PageOf(a) = lastwaddr THEN "fill"
           ELSE IF lastwaddr # None /\ lastwrite THEN "save" ELSE "load"

WriteUnsaved(a, data) ==
  /\ ~ Refused(a, data)
  /\ Called(a, data)
  /\ pc' = IF PageOf(a) = lastwaddr THEN "fill" ELSE "load"

Write(a, data) ==
  /\ ~ Refused(a, data)
  /\ Called(a, data)
  /\ pc' = IF PageOf(a) = lastwaddr THEN "fill"
           ELSE IF lastwaddr # None /\ lastwrite THEN "save" ELSE "load"

(* SPIFLASH_Write.                                                         *)
Flush == /\ pc = "idle"
         /\ lastwrite
         /\ pc' = "save"
         /\ op' = "flush"
         /\ UNCHANGED <<flash, tmp, lastwaddr, lastwrite, pagetmp, addr, rest, want, dirty>>

(* SPIFLASH_Write_Page: the buffered page is erased, then programmed.      *)
SaveErase == /\ pc = "save"
             /\ ErasePage(lastwaddr)
             /\ pc' = "saving"
             /\ UNCHANGED <<tmp, lastwaddr, lastwrite, pagetmp, op, addr, rest, want, dirty>>

SaveWrite == /\ pc = "saving"
             /\ WritePage(lastwaddr, tmp)
             /\ lastwrite' = FALSE
             /\ pc' = IF op = "flush" THEN "idle" ELSE "load"
             /\ dirty' = dirty \ ({lastwaddr} \ PagesOf(addr, Len(rest)))
             /\ UNCHANGED <<tmp, lastwaddr, pagetmp, op, addr, rest, want>>

(* Mutant of Load: the page is not read before it is changed.              *)
LoadNothing == /\ pc = "load"
               /\ pc' = "fill"
               /\ UNCHANGED <<flash, tmp, lastwaddr, lastwrite, pagetmp, op, addr, rest, want, dirty>>

Load == /\ pc = "load"
        /\ tmp' = Image(flash, PageOf(addr))
        /\ pc' = "fill"
        /\ UNCHANGED <<flash, lastwaddr, lastwrite, pagetmp, op, addr, rest, want, dirty>>

(* The part for the first page goes into the buffer.  A write within one   *)
(* page ends here, "within" being what the code's comparison of the pages  *)
(* of WriteAddr and WriteAddr + NumByteToWrite makes of it.                *)
WithinPage == PageOf(addr) = PageOf(addr + Len(rest))

Fill ==
  /\ pc = "fill"
  /\ tmp' = Overlay(tmp, OffsetOf(addr), rest)
  /\ \/ /\ WithinPage
        /\ lastwaddr' = PageOf(addr)
        /\ lastwrite' = TRUE
        /\ pc' = "idle"
        /\ rest' = << >>
     \/ /\ ~ WithinPage
        /\ pc' = "erase"
        /\ rest' = SubSeq(rest, PageSize - OffsetOf(addr) + 1, Len(rest))
        /\ UNCHANGED <<lastwaddr, lastwrite, pagetmp>>
  /\ UNCHANGED <<flash, pagetmp, op, addr, want, dirty>>

(* Each full page is erased and programmed at once ...                     *)
PageErase == /\ pc = "erase"
             /\ ErasePage(PageOf(addr))
             /\ pc' = "program"
             /\ UNCHANGED <<tmp, lastwaddr, lastwrite, pagetmp, op, addr, rest, want, dirty>>

PageWrite == /\ pc = "program"
             /\ WritePage(PageOf(addr), tmp)
             /\ addr' = (PageOf(addr) + 1) * PageSize
             /\ pc' = "next"
             /\ dirty' = dirty \ {PageOf(addr)}
             /\ UNCHANGED <<tmp, lastwaddr, lastwrite, pagetmp, op, rest, want>>

Middle == /\ pc = "next"
          /\ Len(rest) >= PageSize
          /\ tmp' = Overlay(tmp, 0, rest)
          /\ rest' = SubSeq(rest, PageSize + 1, Len(rest))
          /\ pc' = "erase"
          /\ UNCHANGED <<flash, lastwaddr, lastwrite, pagetmp, op, addr, want, dirty>>

(* Mutant of Last: the rest is laid over the page programmed before it.    *)
LastUnread == /\ pc = "next"
              /\ Len(rest) < PageSize
              /\ tmp' = Overlay(tmp, 0, rest)
              /\ lastwaddr' = PageOf(addr)
              /\ lastwrite' = TRUE
              /\ pc' = "idle"
              /\ rest' = << >>
              /\ UNCHANGED <<flash, pagetmp, op, addr, want, dirty>>

(* ... and what is left is laid over the next page, in the buffer.         *)
Last == /\ pc = "next"
        /\ Len(rest) < PageSize
        /\ tmp' = IF rest = << >> THEN tmp ELSE Overlay(Image(flash, PageOf(addr)), 0, rest)
        /\ lastwaddr' = PageOf(addr)
        /\ lastwrite' = TRUE
        /\ pc' = "idle"
        /\ rest' = << >>
        /\ UNCHANGED <<flash, pagetmp, op, addr, want, dirty>>

-----------------------------------------------------------------------------
(* SPIFLASH_WriteImmed.  The range check sees the length left after the    *)
(* first page; only calls within the chip are made here, and none is       *)
(* refused.  The first page is always taken to its end, by bytes that lie  *)
(* behind the caller's when the write ends earlier.                        *)
Overrun(a, n) == [1 .. IF OffsetOf(a) + n < PageSize THEN PageSize - OffsetOf(a) - n ELSE 0
                  -> Byte]

WriteImmed(a, data) ==
  /\ pc = "idle"
  /\ a + Len(data) <= Mem
  /\ Apart => /\ OffsetOf(a) + Len(data) >= PageSize
              /\ lastwaddr \notin PagesOf(a, Len(data))
  /\ \E beyond \in Overrun(a, Len(data)) : rest' = data \o beyond
  /\ op' = "immed"
  /\ addr' = a
  /\ want' = [x \in Addr |-> IF x \in a .. a + Len(data) - 1 THEN data[x - a + 1]
                             ELSE want[x]]
  /\ dirty' = dirty \cup PagesOf(a, Len(data))
  /\ pc' = "immed"
  /\ UNCHANGED <<flash, tmp, lastwaddr, lastwrite, pagetmp>>

(* Mutant of ImmedErase: the rest of the last page is not read first.      *)
ImmedEraseUnread == /\ pc = "immed"
                    /\ pagetmp' = Overlay(pagetmp, OffsetOf(addr), rest)
                    /\ ErasePage(PageOf(addr))
                    /\ pc' = "immediate"
                    /\ UNCHANGED <<tmp, lastwaddr, lastwrite, op, addr, rest, want, dirty>>

(* Each page in turn: read, unless it is written whole, erased ...         *)
ImmedErase == /\ pc = "immed"
              /\ pagetmp' = Overlay(Image(flash, PageOf(addr)), OffsetOf(addr), rest)
              /\ ErasePage(PageOf(addr))
              /\ pc' = "immediate"
              /\ UNCHANGED <<tmp, lastwaddr, lastwrite, op, addr, rest, want, dirty>>

(* ... and programmed.  PAGETMP is not looked at again and cleared here.   *)
ImmedWrite ==
  /\ pc = "immediate"
  /\ WritePage(PageOf(addr), pagetmp)
  /\ pagetmp' = [o \in Offset |-> Erased]
  /\ rest' = SubSeq(rest, PageSize - OffsetOf(addr) + 1, Len(rest))
  /\ pc' = IF rest' = << >> THEN "idle" ELSE "immed"
  /\ addr' = IF rest' = << >> THEN 0 ELSE (PageOf(addr) + 1) * PageSize
  /\ dirty' = dirty \ {PageOf(addr)}
  /\ UNCHANGED <<tmp, lastwaddr, lastwrite, op, want>>

-----------------------------------------------------------------------------
(* Power fails, and SPI_Configuration runs again.                          *)
PowerLoss == /\ tmp' = [o \in Offset |-> Erased]
             /\ pagetmp' = tmp'
             /\ lastwaddr' = None
             /\ lastwrite' = FALSE
             /\ pc' = "idle" /\ op' = "write" /\ addr' = 0 /\ rest' = << >>
             /\ want' = flash
             /\ dirty' = {}
             /\ UNCHANGED flash

Next == \/ \E a \in Addr, data \in Data : Write(a, data) \/ WriteImmed(a, data)
        \/ ImmedErase \/ ImmedWrite
        \/ Flush \/ SaveErase \/ SaveWrite \/ Load \/ Fill
        \/ PageErase \/ PageWrite \/ Middle \/ Last \/ PowerLoss

Spec == Init /\ [][Next]_vars

-----------------------------------------------------------------------------
TypeOK == /\ flash \in [Addr -> Byte] /\ want \in [Addr -> Byte]
          /\ tmp \in [Offset -> Byte] /\ pagetmp \in [Offset -> Byte]
          /\ lastwaddr \in 0 .. Pages \cup {None}
          /\ lastwrite \in BOOLEAN
          /\ pc \in {"idle", "save", "saving", "load", "fill", "erase", "program", "next",
                    "immed", "immediate"}
          /\ op \in {"write", "flush", "immed"}
          /\ addr \in 0 .. Mem /\ (EndOnPage \/ addr # Mem)
          /\ rest \in Seq(Byte)
          /\ dirty \subseteq Page

(* Between calls the chip and the buffered page together hold what was     *)
(* written: no write is lost when the buffer moves on to another page.     *)
NothingLost ==
  pc = "idle" => \A a \in Addr :
    want[a] = IF lastwrite /\ PageOf(a) = lastwaddr THEN tmp[OffsetOf(a)] ELSE flash[a]

(* A write to the page written last lays its bytes over the buffer without *)
(* reading the chip: the buffer must hold that page, saved or not.         *)
BufferIsPage == pc = "idle" /\ lastwaddr # None => tmp = Image(want, lastwaddr)

(* A power failure between calls costs the bytes of one page at most.      *)
OnePageUnsaved == pc = "idle" /\ dirty # {} => lastwrite /\ dirty = {lastwaddr}

(* Whatever the moment power fails, a page that no unfinished write and no *)
(* unsaved buffer concerns reads back as it was written; an immediate      *)
(* write is among them once it has returned.                               *)
OthersKept == \A a \in Addr : PageOf(a) \notin dirty => Read(a, 1) = <<want[a]>>
=============================================================================

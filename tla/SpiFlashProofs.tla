--------------------------- MODULE SpiFlashProofs ---------------------------
(***************************************************************************)
(* For any page size, chip size and length of writes: as long as no        *)
(* buffered write ends at the end of a page and immediate writes keep off  *)
(* the buffered page and fill their first one, no byte is lost, and a      *)
(* power failure harms no page but those the call and the buffer hold.     *)
(***************************************************************************)
EXTENDS SpiFlash, SequenceTheorems, TLAPS

(* The first address of the page that holds x, and of the one after.       *)
Start(x) == PageOf(x) * PageSize
NextStart == Start(addr) + PageSize

-----------------------------------------------------------------------------
LEMMA Sizes == PageSize \in Nat /\ 0 < PageSize /\ Pages \in Nat /\ 0 < Pages /\ Mem \in Nat
<1>1. PageSize \in Nat \ {0} /\ Pages \in Nat \ {0}
  BY FlashAssumption
<1>2. \A m, n \in Nat : m * n \in Nat
  OBVIOUS
<1>3. QED
  BY <1>1, <1>2 DEF Mem

LEMMA Division ==
  ASSUME NEW x \in Nat
  PROVE  /\ PageOf(x) \in Nat /\ OffsetOf(x) \in Nat /\ OffsetOf(x) < PageSize
         /\ x = PageOf(x) * PageSize + OffsetOf(x)
<1> DEFINE n == PageSize
<1>1. n \in Nat \ {0}
  BY FlashAssumption
<1> SUFFICES /\ x \div n \in Nat /\ x % n \in Nat /\ x % n < n
             /\ x = (x \div n) * n + (x % n)
  BY DEF PageOf, OffsetOf
<1> HIDE DEF n
<1>2. x \div n \in Int /\ x % n \in 0 .. n - 1 /\ x = n * (x \div n) + (x % n)
  BY <1>1, Z3
<1>4. x \div n >= 0
  BY <1>1, Z3
<1>5. QED
  BY <1>1, <1>2, <1>4, Z3

(* Pages do not overlap.                                                   *)
LEMMA Multiples ==
  ASSUME NEW p \in Nat, NEW q \in Nat
  PROVE  /\ p * PageSize \in Nat
         /\ p < q => p * PageSize + PageSize <= q * PageSize
         /\ (p + 1) * PageSize = p * PageSize + PageSize
<1> DEFINE n == PageSize
<1>1. n \in Nat
  BY FlashAssumption
<1> HIDE DEF n
<1>2. p * n \in Nat /\ (p + 1) * n = p * n + n
  BY <1>1, Z3
<1>3. ASSUME p < q PROVE p * n + n <= q * n
  <2>1. PICK k \in Nat : q = p + 1 + k
    <3>1. q - p - 1 \in Nat /\ q = p + 1 + (q - p - 1)
      BY <1>3
    <3>2. QED
      BY <3>1
  <2>2. q * n = p * n + n + k * n /\ k * n \in Nat
    BY <1>1, <2>1, Z3
  <2>3. QED
    BY <1>1, <1>2, <2>2
<1>4. QED
  BY <1>2, <1>3 DEF n

LEMMA PageFacts ==
  /\ \A x \in Nat : /\ Start(x) \in Nat /\ PageOf(x) \in Nat /\ OffsetOf(x) \in Offset
                    /\ Start(x) <= x /\ x < Start(x) + PageSize
                    /\ OffsetOf(x) = x - Start(x)
  /\ \A x, y \in Nat :
       /\ PageOf(x) = PageOf(y) <=> Start(x) <= y /\ y < Start(x) + PageSize
       /\ PageOf(x) = PageOf(y) => Start(x) = Start(y)
       /\ PageOf(x) # PageOf(y) => Start(x) + PageSize <= Start(y)
                                   \/ Start(y) + PageSize <= Start(x)
<1>1. ASSUME NEW x \in Nat
      PROVE  /\ Start(x) \in Nat /\ PageOf(x) \in Nat /\ OffsetOf(x) \in Offset
             /\ Start(x) <= x /\ x < Start(x) + PageSize /\ OffsetOf(x) = x - Start(x)
  <2>1. /\ PageOf(x) \in Nat /\ OffsetOf(x) \in Nat /\ OffsetOf(x) < PageSize
        /\ x = Start(x) + OffsetOf(x)
    BY Division DEF Start
  <2>2. Start(x) \in Nat
    BY <2>1, Multiples DEF Start
  <2>3. QED
    BY <2>1, <2>2, Sizes DEF Offset
<1>2. ASSUME NEW x \in Nat, NEW y \in Nat
      PROVE  /\ PageOf(x) = PageOf(y) => Start(x) = Start(y)
             /\ PageOf(x) < PageOf(y) => Start(x) + PageSize <= Start(y)
  BY <1>1, Multiples DEF Start
<1>3. ASSUME NEW x \in Nat, NEW y \in Nat
      PROVE  PageOf(x) # PageOf(y) => Start(x) + PageSize <= Start(y)
                                      \/ Start(y) + PageSize <= Start(x)
  <2>1. PageOf(x) \in Nat /\ PageOf(y) \in Nat
    BY <1>1
  <2>2. PageOf(x) # PageOf(y) => PageOf(x) < PageOf(y) \/ PageOf(y) < PageOf(x)
    BY <2>1
  <2>3. QED
    BY <1>2, <2>2
<1>4. ASSUME NEW x \in Nat, NEW y \in Nat
      PROVE  PageOf(x) = PageOf(y) <=> Start(x) <= y /\ y < Start(x) + PageSize
  <2>1. /\ Start(x) \in Nat /\ Start(y) \in Nat
        /\ Start(y) <= y /\ y < Start(y) + PageSize
    BY <1>1
  <2>2. PageOf(x) = PageOf(y) => Start(x) = Start(y)
    BY <1>2
  <2>3. PageOf(x) # PageOf(y) => Start(x) + PageSize <= Start(y)
                                 \/ Start(y) + PageSize <= Start(x)
    BY <1>3
  <2>4. QED
    BY <2>1, <2>2, <2>3, Sizes
<1>5. QED
  BY <1>1, <1>2, <1>3, <1>4

(* The page after that of x begins where the page of x ends.               *)
LEMMA NextPage ==
  ASSUME NEW x \in Nat
  PROVE  /\ (PageOf(x) + 1) * PageSize = Start(x) + PageSize
         /\ Start(x) + PageSize \in Nat
         /\ Start(Start(x) + PageSize) = Start(x) + PageSize
<1> DEFINE y == (PageOf(x) + 1) * PageSize
<1>1. PageOf(x) \in Nat /\ Start(x) \in Nat
  BY PageFacts
<1>2. y = Start(x) + PageSize /\ y \in Nat
  BY <1>1, Multiples, Sizes DEF Start
<1>3. PageOf(y) = PageOf(x) + 1
  <2>1. /\ PageOf(y) \in Nat
        /\ PageOf(y) * PageSize <= y /\ y < PageOf(y) * PageSize + PageSize
    BY <1>2, PageFacts DEF Start
  <2>2. PageOf(y) * PageSize \in Nat
    BY <2>1, Multiples
  <2>3. ~ (PageOf(y) < PageOf(x) + 1)
    BY <1>1, <1>2, <2>1, <2>2, Multiples, Sizes
  <2>4. ~ (PageOf(x) + 1 < PageOf(y))
    BY <1>1, <1>2, <2>1, <2>2, Multiples, Sizes
  <2>5. QED
    BY <1>1, <2>1, <2>3, <2>4
<1>4. QED
  BY <1>2, <1>3 DEF Start

(* The chip ends at the end of a page.                                     *)
LEMMA LastPage ==
  /\ \A x \in Addr : /\ x \in Nat /\ x < Mem /\ PageOf(x) \in Page
                     /\ Start(x) + PageSize <= Mem
  /\ \A x \in Nat : PageOf(x) \in Page => x \in Addr
<1>1. ASSUME NEW x \in Nat
      PROVE  /\ x < Mem => PageOf(x) \in Page /\ Start(x) + PageSize <= Mem
             /\ PageOf(x) \in Page => x < Mem
  <2>1. /\ PageOf(x) \in Nat /\ Start(x) \in Nat /\ Start(x) <= x /\ x < Start(x) + PageSize
        /\ Start(x) = PageOf(x) * PageSize /\ Mem = Pages * PageSize
    BY PageFacts DEF Start, Mem
  <2>2. PageOf(x) < Pages => Start(x) + PageSize <= Mem
    BY <2>1, Sizes, Multiples
  <2>3. Pages < PageOf(x) => Mem + PageSize <= Start(x)
    BY <2>1, Sizes, Multiples
  <2>4. Pages = PageOf(x) => Mem = Start(x)
    BY <2>1
  <2>5. QED
    BY <2>1, <2>2, <2>3, <2>4, Sizes DEF Page
<1>2. QED
  BY <1>1, Sizes DEF Addr

(* The bytes of a page's image.                                            *)
LEMMA ImageAt ==
  ASSUME NEW mem, NEW x \in Nat
  PROVE  Image(mem, PageOf(x))[OffsetOf(x)] = mem[x]
<1>1. OffsetOf(x) \in Offset /\ x = Start(x) + OffsetOf(x) /\ Start(x) = PageOf(x) * PageSize
  BY PageFacts DEF Start, Offset
<1>2. QED
  BY <1>1 DEF Image
-----------------------------------------------------------------------------
(* The page whose latest bytes are only in SPIFLASH_PAGETMP.               *)
Unsaved == IF lastwrite THEN {lastwaddr} ELSE {}

(* The bytes that wait in rest are those wanted from base on, as far as    *)
(* they lie behind lo; tmp holds the others of the pages B, the chip the   *)
(* others of the pages C.                                                  *)
Waits(x, base, lo) == lo <= x /\ x < base + Len(rest)
Places(base, lo, B, C) ==
  \A x \in Addr :
    IF Waits(x, base, lo) THEN want[x] = rest[x - base + 1]
    ELSE /\ PageOf(x) \in B => tmp[OffsetOf(x)] = want[x]
         /\ PageOf(x) \in C => flash[x] = want[x]

Placed ==
  /\ pc \in {"idle", "save", "saving", "immed"} =>
       Places(addr, addr, {lastwaddr}, Page \ Unsaved)
  /\ pc \in {"load", "next"} => Places(addr, addr, {}, Page)
  /\ pc = "fill" => Places(addr, addr, {PageOf(addr)}, Page \ {PageOf(addr)})
  /\ pc \in {"erase", "program"} =>
       Places(NextStart, NextStart, {PageOf(addr)}, Page \ {PageOf(addr)})
  /\ pc = "immediate" =>
       /\ Places(addr, NextStart, {lastwaddr}, Page \ (Unsaved \cup {PageOf(addr)}))
       /\ \A x \in Addr : PageOf(x) = PageOf(addr) => pagetmp[OffsetOf(x)] = want[x]

(* There are bytes to place, and they end on the chip, inside a page.      *)
Ends(base) == /\ rest # << >>
              /\ base + Len(rest) < Mem
              /\ OffsetOf(base + Len(rest)) # 0

Shape ==
  /\ lastwaddr # Pages /\ (lastwrite => lastwaddr # None)
  /\ pc \in {"save", "saving"} => lastwrite
  /\ pc = "idle" \/ op = "flush" => rest = << >>
  /\ op = "flush" => pc \in {"idle", "save", "saving"}
  /\ pc \in {"load", "fill", "next"} \/ (pc \in {"save", "saving"} /\ op # "flush") =>
       Ends(addr)
  /\ pc \in {"erase", "program"} => Ends(NextStart)
  /\ pc = "next" => OffsetOf(addr) = 0
  /\ pc \in {"immed", "immediate"} => /\ rest # << >> /\ addr + Len(rest) <= Mem
                                      /\ lastwaddr \notin PagesOf(addr, Len(rest))

(* What the call still has to write, and what the buffer keeps unsaved.    *)
Due == IF pc \in {"erase", "program"} THEN {PageOf(addr)} \cup PagesOf(NextStart, Len(rest))
       ELSE PagesOf(addr, Len(rest))
Late == IF pc \in {"idle", "save", "saving", "immed", "immediate"} THEN Unsaved ELSE {}
Marked == dirty = Due \cup Late

IInv == TypeOK /\ Shape /\ Placed /\ Marked

-----------------------------------------------------------------------------
LEMMA Basics ==
  ASSUME TypeOK, ~ EndOnPage
  PROVE  /\ addr \in Nat /\ addr \in Addr /\ addr < Mem /\ PageOf(addr) \in Page
         /\ Len(rest) \in Nat /\ DOMAIN rest = 1 .. Len(rest)
         /\ \A i \in 1 .. Len(rest) : rest[i] \in Byte
         /\ rest = << >> <=> Len(rest) = 0
<1>1. addr \in Nat /\ addr < Mem
  BY Sizes DEF TypeOK
<1>2. addr \in Addr
  BY <1>1, Sizes DEF Addr
<1>3. Len(rest) \in Nat /\ DOMAIN rest = 1 .. Len(rest)
  BY LenProperties DEF TypeOK
<1>4. \A i \in 1 .. Len(rest) : rest[i] \in Byte
  BY <1>3, ElementOfSeq DEF TypeOK
<1>5. rest = << >> <=> Len(rest) = 0
  BY EmptySeq DEF TypeOK
<1>6. QED
  BY <1>1, <1>2, <1>3, <1>4, <1>5, LastPage

(* No page is behind an empty range; the pages of a range are that of its  *)
(* first byte and those of what lies behind it.                            *)
LEMMA SplitPages ==
  ASSUME NEW a \in Nat, NEW n \in Nat
  PROVE  /\ n = 0 => PagesOf(a, n) = {}
         /\ n > 0 => /\ PageOf(a) \in PagesOf(a, n)
                     /\ PagesOf(a, n) = {PageOf(a)} \cup
                          PagesOf(Start(a) + PageSize, a + n - (Start(a) + PageSize))
         /\ PageOf(a) \notin PagesOf(Start(a) + PageSize, a + n - (Start(a) + PageSize))
         /\ a + n <= Mem => PagesOf(a, n) \subseteq Page
<1> DEFINE b == Start(a) + PageSize
<1>1. /\ Start(a) \in Nat /\ b \in Nat /\ Start(a) <= a /\ a < b
  BY PageFacts, Sizes
<1>2. b + (a + n - b) - 1 = a + n - 1
  BY <1>1
<1>3. PagesOf(b, a + n - b) = {PageOf(x) : x \in b .. a + n - 1}
  BY <1>2 DEF PagesOf
<1>4. \A x \in Nat : PageOf(x) = PageOf(a) <=> Start(a) <= x /\ x < b
  BY PageFacts
<1> HIDE DEF b
<1>5. ASSUME n > 0 PROVE a \in a .. a + n - 1
  BY <1>5
<1>6. \A x \in a .. a + n - 1 : x \in Nat /\ (x \in b .. a + n - 1 \/ (Start(a) <= x /\ x < b))
  BY <1>1
<1>7. \A x \in b .. a + n - 1 : x \in a .. a + n - 1 /\ x \in Nat /\ ~ (x < b)
  BY <1>1
<1>8. n > 0 => PagesOf(a, n) = {PageOf(a)} \cup PagesOf(b, a + n - b)
  BY <1>3, <1>4, <1>5, <1>6, <1>7 DEF PagesOf
<1>9. PageOf(a) \notin PagesOf(b, a + n - b)
  BY <1>3, <1>4, <1>7
<1>10. n = 0 => PagesOf(a, n) = {}
  BY DEF PagesOf
<1>11. n > 0 => PageOf(a) \in PagesOf(a, n)
  BY <1>5 DEF PagesOf
<1>12. ASSUME a + n <= Mem PROVE PagesOf(a, n) \subseteq Page
  <2>1. \A x \in a .. a + n - 1 : x \in Addr
    BY <1>12, Sizes DEF Addr
  <2>2. QED
    BY <2>1, LastPage DEF PagesOf
<1>13. QED
  BY <1>8, <1>9, <1>10, <1>11, <1>12 DEF b

LEMMA RestPages ==
  ASSUME NEW a \in Nat, NEW n \in Nat, NEW x \in Nat, a <= x, x < a + n
  PROVE  PageOf(x) \in PagesOf(a, n)
BY DEF PagesOf

(* A byte's place, for the comparisons below.                              *)
LEMMA Place ==
  ASSUME TypeOK, ~ EndOnPage, NEW x \in Addr
  PROVE  /\ x \in Nat /\ x < Mem /\ PageOf(x) \in Page /\ OffsetOf(x) \in Offset
         /\ Start(x) \in Nat /\ Start(x) <= x /\ x < Start(x) + PageSize
         /\ OffsetOf(x) = x - Start(x)
         /\ Start(addr) \in Nat /\ Start(addr) <= addr /\ addr < Start(addr) + PageSize
         /\ OffsetOf(addr) = addr - Start(addr) /\ OffsetOf(addr) \in Offset
         /\ PageOf(x) = PageOf(addr) <=> Start(addr) <= x /\ x < Start(addr) + PageSize
         /\ PageOf(x) = PageOf(addr) => Start(x) = Start(addr)
BY Basics, PageFacts, LastPage

LEMMA InitInv == Init => IInv
<1> SUFFICES ASSUME Init PROVE IInv
  OBVIOUS
<1>1. 0 \in 0 .. Mem /\ 0 # Mem /\ Erased \in Byte /\ << >> \in Seq(Byte)
  <2>1. Start(0) \in Nat /\ PageOf(0) \in Nat
    BY PageFacts
  <2>2. Mem # 0
    BY Sizes DEF Mem
  <2>3. QED
    BY <2>2, Sizes, FlashAssumption, EmptySeq
<1>2. TypeOK
  BY <1>1 DEF Init, TypeOK
<1>3. Len(rest) = 0 /\ lastwaddr = -1
  BY DEF Init, None
<1>4. Shape
  BY <1>3, Sizes DEF Init, Shape, None
<1>5. Placed
  BY <1>3, LastPage DEF Init, Placed, Places, Waits, Page
<1>6. Marked
  BY <1>3, SplitPages DEF Init, Marked, Due, Late, Unsaved
<1>7. QED
  BY <1>2, <1>4, <1>5, <1>6 DEF IInv

-----------------------------------------------------------------------------
LEMMA ChipEnd == OffsetOf(Mem) = 0
<1>1. Mem \in Nat /\ Start(Mem) <= Mem /\ Mem < Start(Mem) + PageSize
      /\ Start(Mem) \in Nat /\ PageOf(Mem) \in Nat /\ OffsetOf(Mem) = Mem - Start(Mem)
  BY Sizes, PageFacts
<1>2. PageOf(Mem) < Pages => Start(Mem) + PageSize <= Mem
  BY <1>1, Sizes, Multiples DEF Start, Mem
<1>3. Pages < PageOf(Mem) => Mem + PageSize <= Start(Mem)
  BY <1>1, Sizes, Multiples DEF Start, Mem
<1>4. Pages = PageOf(Mem) => Start(Mem) = Mem
  BY DEF Start, Mem
<1>5. QED
  BY <1>1, <1>2, <1>3, <1>4, Sizes

LEMMA DataFacts ==
  ASSUME NEW data \in Data
  PROVE  /\ data \in Seq(Byte) /\ Len(data) \in Nat \ {0} /\ data # << >>
         /\ \A i \in 1 .. Len(data) : data[i] \in Byte
<1>1. PICK n \in 1 .. MaxLen : data \in [1 .. n -> Byte]
  BY DEF Data
<1>2. n \in Nat /\ n > 0
  BY <1>1
<1>3. data \in Seq(Byte) /\ Len(data) = n
  BY <1>1, <1>2, SeqDef, LenProperties
<1>4. QED
  BY <1>1, <1>2, <1>3, EmptySeq

(* Between calls.                                                          *)
LEMMA AtRest ==
  ASSUME IInv, ~ EndOnPage, pc = "idle"
  PROVE  /\ rest = << >> /\ Len(rest) = 0 /\ dirty = Unsaved
         /\ \A x \in Addr : /\ PageOf(x) = lastwaddr => tmp[OffsetOf(x)] = want[x]
                            /\ PageOf(x) \notin Unsaved => flash[x] = want[x]
<1>1. rest = << >> /\ Len(rest) = 0
  BY DEF IInv, Shape
<1>2. \A x \in Addr : x \in Nat /\ PageOf(x) \in Page /\ addr \in Nat
  BY Basics, LastPage DEF IInv
<1>3. \A x \in Addr : ~ Waits(x, addr, addr)
  BY <1>1, <1>2 DEF Waits
<1>4. dirty = Unsaved
  BY <1>1, <1>2, Basics, SplitPages DEF IInv, Marked, Due, Late
<1>5. QED
  BY <1>1, <1>2, <1>3, <1>4 DEF IInv, Placed, Places

LEMMA WriteKeeps ==
  ASSUME IInv, ~ EndOnPage, NEW a \in Addr, NEW data \in Data, Write(a, data)
  PROVE  IInv'
<1>1. /\ pc = "idle" /\ a + Len(data) <= Mem /\ OffsetOf(a + Len(data)) # 0
      /\ op' = "write" /\ addr' = a /\ rest' = data
      /\ want' = [x \in Addr |-> IF x \in a .. a + Len(data) - 1 THEN data[x - a + 1]
                                 ELSE want[x]]
      /\ dirty' = dirty \cup PagesOf(a, Len(data))
      /\ UNCHANGED <<flash, tmp, lastwaddr, lastwrite, pagetmp>>
      /\ pc' = IF PageOf(a) = lastwaddr THEN "fill"
               ELSE IF lastwaddr # None /\ lastwrite THEN "save" ELSE "load"
  <2>1. a + Len(data) <= Mem
    BY LastPage, DataFacts, Sizes DEF Write, Refused
  <2>2. QED
    BY <2>1 DEF Write, Called, OffsetOf
<1>2. /\ a \in Nat /\ a < Mem /\ PageOf(a) \in Page /\ Mem \in Nat
      /\ data \in Seq(Byte) /\ Len(data) \in Nat \ {0} /\ data # << >>
      /\ \A i \in 1 .. Len(data) : data[i] \in Byte
  BY LastPage, DataFacts, Sizes
<1>3. /\ rest = << >> /\ Len(rest) = 0 /\ dirty = Unsaved
      /\ \A x \in Addr : /\ PageOf(x) = lastwaddr => tmp[OffsetOf(x)] = want[x]
                         /\ PageOf(x) \notin Unsaved => flash[x] = want[x]
  BY <1>1, AtRest
<1>4. \A x \in Addr : x \in Nat /\ PageOf(x) \in Page
  BY LastPage
<1>5. PagesOf(a, Len(data)) \subseteq Page /\ PageOf(a) \in PagesOf(a, Len(data))
  BY <1>1, <1>2, SplitPages
<1>6. TypeOK'
  <2>1. want' \in [Addr -> Byte]
    BY <1>1, <1>2, <1>4 DEF IInv, TypeOK
  <2>2. addr' \in 0 .. Mem /\ addr' # Mem
    BY <1>1, <1>2
  <2>3. dirty' \subseteq Page
    BY <1>1, <1>5 DEF IInv, TypeOK
  <2>4. QED
    BY <1>1, <1>2, <2>1, <2>2, <2>3 DEF IInv, TypeOK
<1>7. a + Len(data) < Mem
  BY <1>1, <1>2, ChipEnd
<1>8. Shape'
  BY <1>1, <1>2, <1>7, Zenon DEF IInv, Shape, Ends
<1>9. ASSUME NEW x \in Addr
      PROVE  IF Waits(x, addr, addr)' THEN want'[x] = data[x - a + 1] ELSE want'[x] = want[x]
  BY <1>1, <1>2, <1>4 DEF Waits
<1>10. Placed'
  <2>1. CASE PageOf(a) = lastwaddr
    <3>1. Places(addr, addr, {PageOf(addr)}, Page \ {PageOf(addr)})'
      BY <1>1, <1>3, <1>9, <2>1 DEF Places, Unsaved
    <3>2. QED
      BY <1>1, <2>1, <3>1 DEF Placed
  <2>2. CASE PageOf(a) # lastwaddr /\ lastwrite
    <3>1. Places(addr, addr, {lastwaddr}, Page \ Unsaved)'
      BY <1>1, <1>3, <1>9, <2>2 DEF Places, Unsaved
    <3>2. QED
      BY <1>1, <2>2, <3>1 DEF Placed, IInv, Shape
  <2>3. CASE PageOf(a) # lastwaddr /\ ~ lastwrite
    <3>1. Places(addr, addr, {}, Page)'
      BY <1>1, <1>3, <1>9, <2>3 DEF Places, Unsaved
    <3>2. QED
      BY <1>1, <2>3, <3>1 DEF Placed
  <2>4. QED
    BY <2>1, <2>2, <2>3
<1>11. Marked'
  <2>1. Due' = PagesOf(a, Len(data))
    BY <1>1 DEF Due
  <2>2. dirty' = Unsaved \cup PagesOf(a, Len(data)) /\ Unsaved' = Unsaved
    BY <1>1, <1>3 DEF Unsaved
  <2>3. CASE pc' = "save"
    BY <1>1, <2>1, <2>2, <2>3 DEF Marked, Late
  <2>4. CASE pc' # "save"
    <3>1. Late' = {} /\ Unsaved \subseteq PagesOf(a, Len(data))
      BY <1>1, <1>5, <2>4 DEF Late, Unsaved, IInv, Shape
    <3>2. QED
      BY <2>1, <2>2, <3>1 DEF Marked
  <2>5. QED
    BY <2>3, <2>4
<1>12. QED
  BY <1>6, <1>8, <1>10, <1>11 DEF IInv

LEMMA FlushKeeps ==
  ASSUME IInv, ~ EndOnPage, Flush
  PROVE  IInv'
<1>1. /\ pc = "idle" /\ lastwrite /\ pc' = "save" /\ op' = "flush"
      /\ UNCHANGED <<flash, tmp, lastwaddr, lastwrite, pagetmp, addr, rest, want, dirty>>
  BY DEF Flush
<1>2. rest = << >> /\ Len(rest) = 0
  BY <1>1, AtRest
<1>3. TypeOK'
  BY <1>1 DEF IInv, TypeOK
<1>4. Shape'
  BY <1>1, <1>2 DEF IInv, Shape
<1>5. Placed'
  BY <1>1 DEF IInv, Placed, Places, Waits, Unsaved
<1>6. Marked'
  BY <1>1 DEF IInv, Marked, Due, Late, Unsaved, NextStart, Start
<1>7. QED
  BY <1>3, <1>4, <1>5, <1>6 DEF IInv

(* Erasing a page other than those whose bytes are needed from the chip.   *)
LEMMA EraseFacts ==
  ASSUME NEW p, ErasePage(p), flash \in [Addr -> Byte]
  PROVE  /\ flash' \in [Addr -> Byte]
         /\ \A x \in Addr : PageOf(x) # p => flash'[x] = flash[x]
BY FlashAssumption DEF ErasePage

LEMMA WriteFacts ==
  ASSUME NEW p, NEW img \in [Offset -> Byte], WritePage(p, img), flash \in [Addr -> Byte]
  PROVE  /\ flash' \in [Addr -> Byte]
         /\ \A x \in Addr : flash'[x] = IF PageOf(x) = p THEN img[OffsetOf(x)] ELSE flash[x]
<1>1. \A x \in Addr : OffsetOf(x) \in Offset
  BY LastPage, PageFacts
<1>2. QED
  BY <1>1 DEF WritePage

LEMMA SaveEraseKeeps ==
  ASSUME IInv, ~ EndOnPage, SaveErase
  PROVE  IInv'
<1>1. /\ pc = "save" /\ pc' = "saving" /\ ErasePage(lastwaddr)
      /\ UNCHANGED <<tmp, lastwaddr, lastwrite, pagetmp, op, addr, rest, want, dirty>>
  BY DEF SaveErase
<1>2. /\ flash' \in [Addr -> Byte]
      /\ \A x \in Addr : PageOf(x) # lastwaddr => flash'[x] = flash[x]
  BY <1>1, EraseFacts DEF IInv, TypeOK
<1>3. lastwrite
  BY <1>1 DEF IInv, Shape
<1>4. TypeOK'
  BY <1>1, <1>2 DEF IInv, TypeOK
<1>5. Shape'
  BY <1>1 DEF IInv, Shape, Ends
<1>6. Placed'
  BY <1>1, <1>2, <1>3 DEF IInv, Placed, Places, Waits, Unsaved
<1>7. Marked'
  BY <1>1 DEF IInv, Marked, Due, Late, Unsaved
<1>8. QED
  BY <1>4, <1>5, <1>6, <1>7 DEF IInv

LEMMA SaveWriteKeeps ==
  ASSUME IInv, ~ EndOnPage, SaveWrite
  PROVE  IInv'
<1>1. /\ pc = "saving" /\ WritePage(lastwaddr, tmp) /\ lastwrite' = FALSE
      /\ pc' = IF op = "flush" THEN "idle" ELSE "load"
      /\ dirty' = dirty \ ({lastwaddr} \ PagesOf(addr, Len(rest)))
      /\ UNCHANGED <<tmp, lastwaddr, pagetmp, op, addr, rest, want>>
  BY DEF SaveWrite
<1>2. /\ flash' \in [Addr -> Byte]
      /\ \A x \in Addr : flash'[x] = IF PageOf(x) = lastwaddr THEN tmp[OffsetOf(x)]
                                     ELSE flash[x]
  BY <1>1, WriteFacts DEF IInv, TypeOK
<1>3. lastwrite
  BY <1>1 DEF IInv, Shape
<1>4. TypeOK'
  BY <1>1, <1>2 DEF IInv, TypeOK
<1>5. Shape'
  BY <1>1 DEF IInv, Shape, Ends
<1>6. Placed'
  <2>1. Places(addr, addr, {lastwaddr}, Page \ {lastwaddr})
    BY <1>1, <1>3 DEF IInv, Placed, Unsaved
  <2>2. Places(addr, addr, {lastwaddr}, Page)'
    BY <1>1, <1>2, <2>1 DEF Places, Waits
  <2>3. pc' \in {"idle", "load"} /\ Unsaved' = {}
    BY <1>1 DEF Unsaved
  <2>4. QED
    BY <2>2, <2>3 DEF Placed, Places
<1>7. Marked'
  <2>1. dirty = PagesOf(addr, Len(rest)) \cup {lastwaddr}
    BY <1>1, <1>3 DEF IInv, Marked, Due, Late, Unsaved
  <2>2. dirty' = PagesOf(addr, Len(rest))
    BY <1>1, <2>1
  <2>3. Due' = PagesOf(addr, Len(rest)) /\ Late' = {}
    BY <1>1 DEF Due, Late, Unsaved
  <2>4. QED
    BY <2>2, <2>3 DEF Marked
<1>8. QED
  BY <1>4, <1>5, <1>6, <1>7 DEF IInv

-----------------------------------------------------------------------------
(* The image of a page, and data laid over an image from addr on.          *)
LEMMA ImageType ==
  ASSUME TypeOK, NEW p \in Page
  PROVE  Image(flash, p) \in [Offset -> Byte]
<1>1. /\ p \in Nat /\ p * PageSize \in Nat
      /\ p * PageSize + PageSize <= Mem
  BY Multiples, Sizes DEF Page, Mem
<1>2. \A o \in Offset : p * PageSize + o \in Addr
  BY <1>1, Sizes DEF Offset, Addr
<1>3. QED
  BY <1>2 DEF Image, TypeOK

LEMMA Overlaid ==
  ASSUME TypeOK, ~ EndOnPage, NEW img \in [Offset -> Byte]
  PROVE  /\ Overlay(img, OffsetOf(addr), rest) \in [Offset -> Byte]
         /\ \A x \in Addr : PageOf(x) = PageOf(addr) =>
              Overlay(img, OffsetOf(addr), rest)[OffsetOf(x)] =
                IF Waits(x, addr, addr) THEN rest[x - addr + 1] ELSE img[OffsetOf(x)]
<1> DEFINE o == OffsetOf(addr)
<1>1. o \in Nat /\ Len(rest) \in Nat /\ \A i \in 1 .. Len(rest) : rest[i] \in Byte
  BY Basics, PageFacts DEF Offset
<1>2. \A i \in Offset : i \in Nat
  BY DEF Offset
<1>3. Overlay(img, o, rest) \in [Offset -> Byte]
  <2> SUFFICES ASSUME NEW i \in Offset
               PROVE  (IF i \in o .. o + Len(rest) - 1 THEN rest[i - o + 1] ELSE img[i]) \in Byte
    BY DEF Overlay
  <2>1. i \in o .. o + Len(rest) - 1 => i - o + 1 \in 1 .. Len(rest)
    BY <1>1, <1>2
  <2>2. QED
    BY <1>1, <2>1
<1>4. ASSUME NEW x \in Addr, PageOf(x) = PageOf(addr)
      PROVE  Overlay(img, o, rest)[OffsetOf(x)] =
               IF Waits(x, addr, addr) THEN rest[x - addr + 1] ELSE img[OffsetOf(x)]
  <2>1. /\ x \in Nat /\ addr \in Nat /\ Start(addr) \in Nat /\ OffsetOf(x) \in Offset
        /\ OffsetOf(x) = x - Start(addr) /\ o = addr - Start(addr)
    BY <1>4, Place, Basics
  <2>2. OffsetOf(x) - o + 1 = x - addr + 1
    BY <2>1
  <2>3. OffsetOf(x) \in o .. o + Len(rest) - 1 <=> Waits(x, addr, addr)
    BY <1>1, <2>1 DEF Waits
  <2>4. Overlay(img, o, rest)[OffsetOf(x)] =
          IF OffsetOf(x) \in o .. o + Len(rest) - 1 THEN rest[OffsetOf(x) - o + 1]
          ELSE img[OffsetOf(x)]
    BY <2>1 DEF Overlay
  <2>5. QED
    BY <2>2, <2>3, <2>4
<1>5. QED
  BY <1>3, <1>4

(* The page after that of addr.                                            *)
LEMMA NextFacts ==
  ASSUME TypeOK, ~ EndOnPage
  PROVE  /\ NextStart = Start(addr) + PageSize /\ NextStart \in Nat
         /\ Start(addr) \in Nat /\ Start(addr) <= addr /\ addr < NextStart
         /\ Start(NextStart) = NextStart /\ OffsetOf(NextStart) = 0
         /\ (PageOf(addr) + 1) * PageSize = NextStart
         /\ \A x \in Nat : PageOf(x) = PageOf(addr) <=> Start(addr) <= x /\ x < NextStart
<1>1. addr \in Nat
  BY Basics
<1>2. NextStart = Start(addr) + PageSize
  BY DEF NextStart
<1>3. /\ NextStart \in Nat /\ Start(NextStart) = NextStart
      /\ (PageOf(addr) + 1) * PageSize = NextStart
  BY <1>1, <1>2, NextPage
<1>4. OffsetOf(NextStart) = NextStart - Start(NextStart)
  BY <1>3, PageFacts
<1>5. Start(addr) \in Nat /\ Start(addr) <= addr /\ addr < NextStart
  BY <1>1, <1>2, PageFacts
<1>6. \A x \in Nat : PageOf(x) = PageOf(addr) <=> Start(addr) <= x /\ x < NextStart
  BY <1>1, <1>2, PageFacts
<1>7. QED
  BY <1>2, <1>3, <1>4, <1>5, <1>6

(* What is left when the part for the page of addr is cut off.             *)
LEMMA CutRest ==
  ASSUME TypeOK, ~ EndOnPage,
         rest' = SubSeq(rest, PageSize - OffsetOf(addr) + 1, Len(rest))
  PROVE  /\ rest' \in Seq(Byte)
         /\ Len(rest') = IF NextStart <= addr + Len(rest) THEN addr + Len(rest) - NextStart ELSE 0
         /\ \A x \in Nat : NextStart <= x /\ x < addr + Len(rest) =>
              rest'[x - NextStart + 1] = rest[x - addr + 1]
<1>1. PICK m \in Nat : m = PageSize - OffsetOf(addr) + 1 /\ m >= 2
                       /\ m = NextStart - addr + 1
  <2>1. /\ addr \in Nat /\ Start(addr) \in Nat /\ OffsetOf(addr) = addr - Start(addr)
        /\ addr < Start(addr) + PageSize /\ PageSize \in Nat
        /\ NextStart = Start(addr) + PageSize
    BY Basics, PageFacts, Sizes DEF NextStart
  <2>2. QED
    BY <2>1
<1>2. PICK n \in Nat : n = Len(rest) /\ \A i \in 1 .. n : rest[i] \in Byte
  BY Basics
<1>3. PICK a \in Nat, b \in Nat : addr = a /\ NextStart = b
  BY Basics, NextFacts
<1>4. /\ rest' \in Seq(Byte)
      /\ Len(rest') = IF m <= n THEN n - m + 1 ELSE 0
      /\ \A i \in 1 .. n - m + 1 : rest'[i] = rest[m + i - 1]
  <2>1. rest' = SubSeq(rest, m, n)
    BY <1>1, <1>2
  <2>2. \A i \in m .. n : rest[i] \in Byte
    BY <1>1, <1>2
  <2>3. m \in Int /\ n \in Int
    OBVIOUS
  <2>4. /\ SubSeq(rest, m, n) \in Seq(Byte)
        /\ Len(SubSeq(rest, m, n)) = IF m <= n THEN n - m + 1 ELSE 0
        /\ \A i \in 1 .. n - m + 1 : SubSeq(rest, m, n)[i] = rest[m + i - 1]
    BY <2>2, <2>3, SubSeqProperties
  <2>5. QED
    BY <2>1, <2>4
<1>5. Len(rest') = IF b <= a + n THEN a + n - b ELSE 0
  BY <1>1, <1>3, <1>4
<1>6. ASSUME NEW x \in Nat, b <= x, x < a + n
      PROVE  rest'[x - b + 1] = rest[x - a + 1]
  <2>1. x - b + 1 \in 1 .. n - m + 1 /\ m + (x - b + 1) - 1 = x - a + 1
    BY <1>1, <1>3, <1>6
  <2>2. QED
    BY <1>4, <2>1
<1>7. QED
  BY <1>2, <1>3, <1>4, <1>5, <1>6

LEMMA LoadKeeps ==
  ASSUME IInv, ~ EndOnPage, Load
  PROVE  IInv'
<1>1. /\ pc = "load" /\ pc' = "fill" /\ tmp' = Image(flash, PageOf(addr))
      /\ UNCHANGED <<flash, lastwaddr, lastwrite, pagetmp, op, addr, rest, want, dirty>>
  BY DEF Load
<1>2. TypeOK'
  BY <1>1, Basics, ImageType DEF IInv, TypeOK
<1>3. Shape'
  BY <1>1 DEF IInv, Shape, Ends
<1>4. Placed'
  <2>1. Places(addr, addr, {}, Page)
    BY <1>1 DEF IInv, Placed
  <2>2. \A x \in Addr : PageOf(x) = PageOf(addr) => tmp'[OffsetOf(x)] = flash[x]
    BY <1>1, ImageAt, LastPage
  <2>3. \A x \in Addr : PageOf(x) \in Page
    BY LastPage
  <2>4. Places(addr, addr, {PageOf(addr)}, Page \ {PageOf(addr)})'
    BY <1>1, <2>1, <2>2, <2>3 DEF Places, Waits
  <2>5. QED
    BY <1>1, <2>4 DEF Placed
<1>5. Marked'
  BY <1>1 DEF IInv, Marked, Due, Late
<1>6. QED
  BY <1>2, <1>3, <1>4, <1>5 DEF IInv

LEMMA FillKeeps ==
  ASSUME IInv, ~ EndOnPage, Fill
  PROVE  IInv'
<1>1. /\ pc = "fill" /\ tmp' = Overlay(tmp, OffsetOf(addr), rest)
      /\ UNCHANGED <<flash, pagetmp, op, addr, want, dirty>>
  BY DEF Fill
<1>2. /\ tmp' \in [Offset -> Byte]
      /\ \A x \in Addr : PageOf(x) = PageOf(addr) =>
           tmp'[OffsetOf(x)] = IF Waits(x, addr, addr) THEN rest[x - addr + 1]
                               ELSE tmp[OffsetOf(x)]
  BY <1>1, Overlaid DEF IInv, TypeOK
<1>3. Places(addr, addr, {PageOf(addr)}, Page \ {PageOf(addr)})
  BY <1>1 DEF IInv, Placed
<1>4. \A x \in Addr : PageOf(x) = PageOf(addr) => tmp'[OffsetOf(x)] = want[x]
  BY <1>2, <1>3 DEF Places
<1>5. /\ addr \in Nat /\ Len(rest) \in Nat \ {0} /\ addr + Len(rest) < Mem
      /\ addr + Len(rest) \in Nat /\ OffsetOf(addr + Len(rest)) # 0
      /\ PageOf(addr) \in Page /\ op # "flush"
  BY <1>1, Basics DEF IInv, Shape, Ends
<1>6. /\ NextStart = Start(addr) + PageSize /\ NextStart \in Nat /\ OffsetOf(NextStart) = 0
      /\ Start(addr) \in Nat /\ Start(addr) <= addr /\ addr < NextStart
      /\ \A x \in Nat : PageOf(x) = PageOf(addr) <=> Start(addr) <= x /\ x < NextStart
  BY NextFacts DEF IInv
<1>7. WithinPage <=> addr + Len(rest) < NextStart
  <2>1. PageOf(addr + Len(rest)) = PageOf(addr) <=> addr + Len(rest) < NextStart
    BY <1>5, <1>6
  <2>2. QED
    BY <2>1 DEF WithinPage
<1>8. dirty = {PageOf(addr)} \cup PagesOf(NextStart, addr + Len(rest) - NextStart)
  <2>1. dirty = PagesOf(addr, Len(rest))
    BY <1>1 DEF IInv, Marked, Due, Late
  <2>2. Len(rest) \in Nat /\ Len(rest) > 0
    BY <1>5
  <2>3. QED
    BY <1>5, <1>6, <2>1, <2>2, SplitPages
<1>9. CASE WithinPage
  <2>1. /\ lastwaddr' = PageOf(addr) /\ lastwrite' = TRUE /\ pc' = "idle" /\ rest' = << >>
    BY <1>9 DEF Fill
  <2>2. Len(rest') = 0
    BY <2>1
  <2>3. TypeOK'
    <3>1. lastwaddr' \in 0 .. Pages
      BY <1>5, <2>1, Sizes DEF Page
    <3>2. rest' \in Seq(Byte)
      BY <2>1, EmptySeq
    <3>3. QED
      BY <1>1, <1>2, <2>1, <3>1, <3>2 DEF IInv, TypeOK
  <2>4. Shape'
    BY <1>1, <1>5, <2>1, Sizes DEF Shape, Page, None
  <2>5. Placed'
    <3>1. \A x \in Addr : ~ Waits(x, addr, addr)' /\ x \in Nat /\ PageOf(x) \in Page
      BY <1>1, <1>5, <2>2, LastPage DEF Waits
    <3>2. \A x \in Addr : Waits(x, addr, addr) => PageOf(x) = PageOf(addr)
      BY <1>5, <1>6, <1>7, <1>9, <3>1 DEF Waits
    <3>3. \A x \in Addr : PageOf(x) # PageOf(addr) => flash[x] = want[x]
      BY <1>3, <3>1, <3>2 DEF Places
    <3>4. Places(addr, addr, {lastwaddr}, Page \ Unsaved)'
      BY <1>1, <1>4, <2>1, <3>1, <3>3 DEF Places, Unsaved
    <3>5. QED
      BY <2>1, <3>4 DEF Placed
  <2>6. Marked'
    <3>1. PagesOf(NextStart, addr + Len(rest) - NextStart) = {}
      <4>1. NextStart + (addr + Len(rest) - NextStart) - 1 < NextStart
        BY <1>5, <1>6, <1>7, <1>9
      <4>2. \A x : x \notin NextStart .. NextStart + (addr + Len(rest) - NextStart) - 1
        BY <1>5, <1>6, <4>1
      <4>3. QED
        BY <4>2 DEF PagesOf
    <3>2. PagesOf(addr, Len(rest))' = {}
      BY <1>1, <1>5, <2>2, SplitPages
    <3>3. QED
      BY <1>1, <1>8, <2>1, <3>1, <3>2 DEF Marked, Due, Late, Unsaved
  <2>7. QED
    BY <2>3, <2>4, <2>5, <2>6 DEF IInv
<1>10. CASE ~ WithinPage
  <2>1. /\ pc' = "erase" /\ UNCHANGED <<lastwaddr, lastwrite>>
        /\ rest' = SubSeq(rest, PageSize - OffsetOf(addr) + 1, Len(rest))
    BY <1>10 DEF Fill
  <2>2. NextStart < addr + Len(rest)
    BY <1>5, <1>6, <1>7, <1>10
  <2>3. /\ rest' \in Seq(Byte) /\ Len(rest') = addr + Len(rest) - NextStart
        /\ \A x \in Nat : NextStart <= x /\ x < addr + Len(rest) =>
             rest'[x - NextStart + 1] = rest[x - addr + 1]
    <3>1. /\ rest' \in Seq(Byte)
          /\ Len(rest') = IF NextStart <= addr + Len(rest) THEN addr + Len(rest) - NextStart
                          ELSE 0
          /\ \A x \in Nat : NextStart <= x /\ x < addr + Len(rest) =>
               rest'[x - NextStart + 1] = rest[x - addr + 1]
      BY <2>1, CutRest DEF IInv
    <3>2. NextStart <= addr + Len(rest)
      BY <1>5, <1>6, <2>2
    <3>3. QED
      BY <3>1, <3>2
  <2>4. NextStart' = NextStart /\ rest' # << >> /\ NextStart + Len(rest') = addr + Len(rest)
    BY <1>1, <1>5, <1>6, <2>2, <2>3 DEF NextStart, Start
  <2>5. TypeOK'
    BY <1>1, <1>2, <2>1, <2>3 DEF IInv, TypeOK
  <2>6. Shape'
    BY <1>1, <1>5, <2>1, <2>4 DEF IInv, Shape, Ends
  <2>7. Placed'
    <3>1. ASSUME NEW x \in Addr
          PROVE  /\ Waits(x, NextStart, NextStart)' <=> NextStart <= x /\ x < addr + Len(rest)
                 /\ x \in Nat /\ PageOf(x) \in Page
                 /\ Waits(x, addr, addr) /\ ~ (NextStart <= x) => PageOf(x) = PageOf(addr)
                 /\ NextStart <= x /\ x < addr + Len(rest) => Waits(x, addr, addr)
      <4>1. x \in Nat /\ PageOf(x) \in Page
        BY LastPage
      <4>2. Waits(x, NextStart, NextStart)' <=> NextStart <= x /\ x < addr + Len(rest)
        BY <2>4 DEF Waits
      <4>3. Waits(x, addr, addr) <=> addr <= x /\ x < addr + Len(rest)
        BY DEF Waits
      <4>4. QED
        BY <1>5, <1>6, <4>1, <4>2, <4>3
    <3>2. Places(NextStart, NextStart, {PageOf(addr)}, Page \ {PageOf(addr)})'
      <4> SUFFICES ASSUME NEW x \in Addr
                   PROVE  IF NextStart <= x /\ x < addr + Len(rest)
                          THEN want[x] = rest'[x - NextStart + 1]
                          ELSE /\ PageOf(x) = PageOf(addr) => tmp'[OffsetOf(x)] = want[x]
                               /\ PageOf(x) # PageOf(addr) => flash[x] = want[x]
        BY <1>1, <2>4, <3>1 DEF Places
      <4>1. CASE NextStart <= x /\ x < addr + Len(rest)
        BY <1>3, <2>3, <3>1, <4>1 DEF Places
      <4>2. CASE ~ (NextStart <= x /\ x < addr + Len(rest))
        <5>1. PageOf(x) # PageOf(addr) => ~ Waits(x, addr, addr)
          BY <3>1, <4>2 DEF Waits
        <5>2. PageOf(x) # PageOf(addr) => flash[x] = want[x]
          BY <1>3, <3>1, <5>1 DEF Places
        <5>3. QED
          BY <1>4, <4>2, <5>2
      <4>3. QED
        BY <4>1, <4>2
    <3>3. QED
      BY <2>1, <3>2 DEF Placed
  <2>8. Marked'
    BY <1>1, <1>8, <2>1, <2>3, <2>4 DEF Marked, Due, Late
  <2>9. QED
    BY <2>5, <2>6, <2>7, <2>8 DEF IInv
<1>11. QED
  BY <1>9, <1>10

LEMMA PageEraseKeeps ==
  ASSUME IInv, ~ EndOnPage, PageErase
  PROVE  IInv'
<1>1. /\ pc = "erase" /\ pc' = "program" /\ ErasePage(PageOf(addr))
      /\ UNCHANGED <<tmp, lastwaddr, lastwrite, pagetmp, op, addr, rest, want, dirty>>
      /\ NextStart' = NextStart
  BY DEF PageErase, NextStart, Start
<1>2. /\ flash' \in [Addr -> Byte]
      /\ \A x \in Addr : PageOf(x) # PageOf(addr) => flash'[x] = flash[x]
  BY <1>1, EraseFacts DEF IInv, TypeOK
<1>3. TypeOK'
  BY <1>1, <1>2 DEF IInv, TypeOK
<1>4. Shape'
  BY <1>1 DEF IInv, Shape, Ends
<1>5. Placed'
  <2>1. Places(NextStart, NextStart, {PageOf(addr)}, Page \ {PageOf(addr)})
    BY <1>1 DEF IInv, Placed
  <2>2. Places(NextStart, NextStart, {PageOf(addr)}, Page \ {PageOf(addr)})'
    BY <1>1, <1>2, <2>1 DEF Places, Waits
  <2>3. QED
    BY <1>1, <2>2 DEF Placed
<1>6. Marked'
  BY <1>1 DEF IInv, Marked, Due, Late
<1>7. QED
  BY <1>3, <1>4, <1>5, <1>6 DEF IInv

LEMMA PageWriteKeeps ==
  ASSUME IInv, ~ EndOnPage, PageWrite
  PROVE  IInv'
<1>1. /\ pc = "program" /\ WritePage(PageOf(addr), tmp) /\ addr' = NextStart
      /\ pc' = "next" /\ dirty' = dirty \ {PageOf(addr)}
      /\ UNCHANGED <<tmp, lastwaddr, lastwrite, pagetmp, op, rest, want>>
  BY NextFacts DEF PageWrite, IInv
<1>2. /\ flash' \in [Addr -> Byte]
      /\ \A x \in Addr : flash'[x] = IF PageOf(x) = PageOf(addr) THEN tmp[OffsetOf(x)]
                                     ELSE flash[x]
  BY <1>1, WriteFacts DEF IInv, TypeOK
<1>3. /\ NextStart \in Nat /\ OffsetOf(NextStart) = 0 /\ NextStart = Start(addr) + PageSize
      /\ \A x \in Nat : PageOf(x) = PageOf(addr) => x < NextStart
  BY NextFacts DEF IInv
<1>4. Ends(NextStart) /\ op # "flush" /\ Len(rest) \in Nat
  BY <1>1, Basics DEF IInv, Shape
<1>5. TypeOK'
  <2>1. addr' \in 0 .. Mem /\ addr' # Mem
    BY <1>1, <1>3, <1>4, Sizes DEF Ends
  <2>2. QED
    BY <1>1, <1>2, <2>1 DEF IInv, TypeOK
<1>6. Shape'
  BY <1>1, <1>3, <1>4 DEF IInv, Shape, Ends
<1>7. Placed'
  <2>1. Places(NextStart, NextStart, {PageOf(addr)}, Page \ {PageOf(addr)})
    BY <1>1 DEF IInv, Placed
  <2>2. \A x \in Addr : PageOf(x) \in Page
    BY LastPage
  <2>3. Places(addr, addr, {}, Page)'
    BY <1>1, <1>2, <2>1, <2>2 DEF Places, Waits
  <2>4. QED
    BY <1>1, <2>3 DEF Placed
<1>8. Marked'
  <2>1. dirty = {PageOf(addr)} \cup PagesOf(NextStart, Len(rest))
    BY <1>1 DEF IInv, Marked, Due, Late
  <2>2. PageOf(addr) \notin PagesOf(NextStart, Len(rest))
    <3>1. \A x \in NextStart .. NextStart + Len(rest) - 1 : x \in Nat /\ ~ (x < NextStart)
      BY <1>3, <1>4
    <3>2. QED
      BY <1>3, <3>1 DEF PagesOf
  <2>3. QED
    BY <1>1, <2>1, <2>2 DEF Marked, Due, Late
<1>9. QED
  BY <1>5, <1>6, <1>7, <1>8 DEF IInv

(* At the beginning of a page, with data up to no page's end.              *)
LEMMA AtNext ==
  ASSUME IInv, ~ EndOnPage, pc = "next"
  PROVE  /\ addr \in Nat /\ Len(rest) \in Nat \ {0} /\ addr + Len(rest) \in Nat
         /\ op # "flush" /\ PageOf(addr) \in Page /\ OffsetOf(addr) = 0
         /\ NextStart = addr + PageSize /\ addr + Len(rest) # NextStart
         /\ addr + Len(rest) < Mem /\ OffsetOf(addr + Len(rest)) # 0
         /\ \A x \in Nat : PageOf(x) = PageOf(addr) <=> addr <= x /\ x < NextStart
         /\ Places(addr, addr, {}, Page)
         /\ dirty = {PageOf(addr)} \cup PagesOf(NextStart, addr + Len(rest) - NextStart)
<1>1. /\ addr \in Nat /\ Len(rest) \in Nat \ {0} /\ op # "flush" /\ PageOf(addr) \in Page
      /\ OffsetOf(addr) = 0 /\ addr + Len(rest) < Mem /\ OffsetOf(addr + Len(rest)) # 0
      /\ Places(addr, addr, {}, Page)
  BY Basics DEF IInv, Shape, Ends, Placed
<1>2. OffsetOf(addr) = addr - Start(addr)
  BY <1>1, PageFacts
<1>3. /\ NextStart = Start(addr) + PageSize /\ OffsetOf(NextStart) = 0 /\ Start(addr) \in Nat
      /\ \A x \in Nat : PageOf(x) = PageOf(addr) <=> Start(addr) <= x /\ x < NextStart
  BY NextFacts DEF IInv
<1>4. Start(addr) = addr
  BY <1>1, <1>2, <1>3
<1>5. dirty = PagesOf(addr, Len(rest))
  BY DEF IInv, Marked, Due, Late
<1>6. dirty = {PageOf(addr)} \cup PagesOf(NextStart, addr + Len(rest) - NextStart)
  <2>1. Len(rest) \in Nat /\ Len(rest) > 0
    BY <1>1
  <2>2. QED
    BY <1>1, <1>3, <1>5, <2>1, SplitPages
<1>7. QED
  BY <1>1, <1>3, <1>4, <1>6

LEMMA MiddleKeeps ==
  ASSUME IInv, ~ EndOnPage, Middle
  PROVE  IInv'
<1>1. /\ pc = "next" /\ Len(rest) >= PageSize /\ pc' = "erase"
      /\ tmp' = Overlay(tmp, 0, rest) /\ rest' = SubSeq(rest, PageSize + 1, Len(rest))
      /\ UNCHANGED <<flash, lastwaddr, lastwrite, pagetmp, op, addr, want, dirty>>
      /\ NextStart' = NextStart
  BY DEF Middle, NextStart, Start
<1>2. /\ addr \in Nat /\ Len(rest) \in Nat \ {0} /\ addr + Len(rest) \in Nat
      /\ op # "flush" /\ PageOf(addr) \in Page /\ OffsetOf(addr) = 0
      /\ NextStart = addr + PageSize /\ addr + Len(rest) # NextStart
      /\ addr + Len(rest) < Mem /\ OffsetOf(addr + Len(rest)) # 0
      /\ \A x \in Nat : PageOf(x) = PageOf(addr) <=> addr <= x /\ x < NextStart
      /\ Places(addr, addr, {}, Page)
      /\ dirty = {PageOf(addr)} \cup PagesOf(NextStart, addr + Len(rest) - NextStart)
  BY <1>1, AtNext
<1>3. NextStart \in Nat /\ NextStart < addr + Len(rest)
  BY <1>1, <1>2, Sizes
<1>4. /\ rest' \in Seq(Byte) /\ Len(rest') = addr + Len(rest) - NextStart
      /\ \A x \in Nat : NextStart <= x /\ x < addr + Len(rest) =>
           rest'[x - NextStart + 1] = rest[x - addr + 1]
  <2>1. PageSize - OffsetOf(addr) + 1 = PageSize + 1
    BY <1>2, Sizes
  <2>2. /\ rest' \in Seq(Byte)
        /\ Len(rest') = IF NextStart <= addr + Len(rest) THEN addr + Len(rest) - NextStart
                        ELSE 0
        /\ \A x \in Nat : NextStart <= x /\ x < addr + Len(rest) =>
             rest'[x - NextStart + 1] = rest[x - addr + 1]
    BY <1>1, <2>1, CutRest DEF IInv
  <2>3. NextStart <= addr + Len(rest)
    BY <1>2, <1>3
  <2>4. QED
    BY <2>2, <2>3
<1>5. NextStart + Len(rest') = addr + Len(rest) /\ rest' # << >>
  BY <1>2, <1>3, <1>4
<1>6. /\ tmp' \in [Offset -> Byte]
      /\ \A x \in Addr : PageOf(x) = PageOf(addr) => tmp'[OffsetOf(x)] = want[x]
  <2>1. /\ tmp' \in [Offset -> Byte]
        /\ \A x \in Addr : PageOf(x) = PageOf(addr) =>
             tmp'[OffsetOf(x)] = IF Waits(x, addr, addr) THEN rest[x - addr + 1]
                                 ELSE tmp[OffsetOf(x)]
    BY <1>1, <1>2, Overlaid DEF IInv, TypeOK
  <2>2. \A x \in Addr : PageOf(x) = PageOf(addr) => Waits(x, addr, addr)
    <3> SUFFICES ASSUME NEW x \in Addr, PageOf(x) = PageOf(addr) PROVE Waits(x, addr, addr)
      OBVIOUS
    <3>1. x \in Nat /\ addr <= x /\ x < NextStart
      BY <1>2, LastPage
    <3>2. QED
      BY <1>2, <1>3, <3>1 DEF Waits
  <2>3. QED
    BY <1>2, <2>1, <2>2 DEF Places
<1>7. TypeOK'
  BY <1>1, <1>4, <1>6 DEF IInv, TypeOK
<1>8. Shape'
  BY <1>1, <1>2, <1>5 DEF IInv, Shape, Ends
<1>9. Placed'
  <2>1. ASSUME NEW x \in Addr
        PROVE  /\ Waits(x, NextStart, NextStart)' => want[x] = rest'[x - NextStart + 1]
               /\ ~ Waits(x, NextStart, NextStart)' /\ PageOf(x) # PageOf(addr) =>
                    flash[x] = want[x]
    <3>1. x \in Nat /\ PageOf(x) \in Page
      BY LastPage
    <3>2. Waits(x, NextStart, NextStart)' <=> NextStart <= x /\ x < addr + Len(rest)
      BY <1>1, <1>5 DEF Waits
    <3>3. Waits(x, addr, addr) <=> addr <= x /\ x < addr + Len(rest)
      BY DEF Waits
    <3>4. NextStart <= x => addr <= x
      BY <1>2, <3>1, Sizes
    <3>5. Waits(x, addr, addr) /\ PageOf(x) # PageOf(addr) => NextStart <= x
      BY <1>2, <1>3, <3>1, <3>3
    <3>6. QED
      BY <1>2, <1>4, <3>1, <3>2, <3>3, <3>4, <3>5 DEF Places
  <2>2. Places(NextStart, NextStart, {PageOf(addr)}, Page \ {PageOf(addr)})'
    BY <1>1, <1>6, <2>1 DEF Places
  <2>3. QED
    BY <1>1, <2>2 DEF Placed
<1>10. Marked'
  <2>1. Len(rest') = addr + Len(rest) - NextStart
    BY <1>4
  <2>2. QED
    BY <1>1, <1>2, <2>1 DEF Marked, Due, Late
<1>11. QED
  BY <1>7, <1>8, <1>9, <1>10 DEF IInv

LEMMA LastKeeps ==
  ASSUME IInv, ~ EndOnPage, Last
  PROVE  IInv'
<1>1. /\ pc = "next" /\ Len(rest) < PageSize /\ pc' = "idle" /\ rest' = << >>
      /\ lastwaddr' = PageOf(addr) /\ lastwrite' = TRUE
      /\ tmp' = IF rest = << >> THEN tmp ELSE Overlay(Image(flash, PageOf(addr)), 0, rest)
      /\ UNCHANGED <<flash, pagetmp, op, addr, want, dirty>>
  BY DEF Last
<1>2. /\ addr \in Nat /\ Len(rest) \in Nat \ {0} /\ addr + Len(rest) \in Nat
      /\ op # "flush" /\ PageOf(addr) \in Page /\ OffsetOf(addr) = 0
      /\ NextStart = addr + PageSize /\ addr + Len(rest) # NextStart
      /\ \A x \in Nat : PageOf(x) = PageOf(addr) <=> addr <= x /\ x < NextStart
      /\ Places(addr, addr, {}, Page)
      /\ dirty = {PageOf(addr)} \cup PagesOf(NextStart, addr + Len(rest) - NextStart)
  BY <1>1, AtNext
<1>3. rest # << >> /\ Len(rest') = 0
  BY <1>1, <1>2
<1>4. NextStart \in Nat /\ addr + Len(rest) < NextStart
  BY <1>1, <1>2, Sizes
<1>5. /\ tmp' \in [Offset -> Byte]
      /\ \A x \in Addr : PageOf(x) = PageOf(addr) => tmp'[OffsetOf(x)] = want[x]
  <2> DEFINE img == Image(flash, PageOf(addr))
  <2>1. img \in [Offset -> Byte]
    BY <1>2, ImageType DEF IInv
  <2>2. \A x \in Addr : PageOf(x) = PageOf(addr) => img[OffsetOf(x)] = flash[x]
    BY ImageAt, LastPage
  <2>3. tmp' = Overlay(img, OffsetOf(addr), rest)
    BY <1>1, <1>2, <1>3
  <2> HIDE DEF img
  <2>4. /\ tmp' \in [Offset -> Byte]
        /\ \A x \in Addr : PageOf(x) = PageOf(addr) =>
             tmp'[OffsetOf(x)] = IF Waits(x, addr, addr) THEN rest[x - addr + 1]
                                 ELSE img[OffsetOf(x)]
    BY <2>1, <2>3, Overlaid DEF IInv
  <2>5. QED
    BY <1>2, <2>2, <2>4 DEF Places
<1>6. TypeOK'
  <2>1. lastwaddr' \in 0 .. Pages
    BY <1>1, <1>2, Sizes DEF Page
  <2>2. rest' \in Seq(Byte)
    BY <1>1, EmptySeq
  <2>3. QED
    BY <1>1, <1>5, <2>1, <2>2 DEF IInv, TypeOK
<1>7. Shape'
  BY <1>1, <1>2, Sizes DEF Shape, Page, None
<1>8. Placed'
  <2>1. ASSUME NEW x \in Addr
        PROVE  /\ ~ Waits(x, addr, addr)' /\ PageOf(x) \in Page
               /\ PageOf(x) # PageOf(addr) => flash[x] = want[x]
    <3>1. x \in Nat /\ PageOf(x) \in Page
      BY LastPage
    <3>2. ~ Waits(x, addr, addr)'
      BY <1>1, <1>2, <1>3, <3>1 DEF Waits
    <3>3. Waits(x, addr, addr) => PageOf(x) = PageOf(addr)
      BY <1>2, <1>4, <3>1 DEF Waits
    <3>4. QED
      BY <1>2, <3>1, <3>2, <3>3 DEF Places
  <2>2. Places(addr, addr, {lastwaddr}, Page \ Unsaved)'
    BY <1>1, <1>5, <2>1 DEF Places, Unsaved
  <2>3. QED
    BY <1>1, <2>2 DEF Placed
<1>9. Marked'
  <2>1. PagesOf(NextStart, addr + Len(rest) - NextStart) = {}
    <3>1. NextStart + (addr + Len(rest) - NextStart) - 1 < NextStart
      BY <1>2, <1>4
    <3>2. \A x : x \notin NextStart .. NextStart + (addr + Len(rest) - NextStart) - 1
      BY <1>2, <1>4, <3>1
    <3>3. QED
      BY <3>2 DEF PagesOf
  <2>2. PagesOf(addr, Len(rest))' = {}
    BY <1>1, <1>2, <1>3, SplitPages
  <2>3. QED
    BY <1>1, <1>2, <2>1, <2>2 DEF Marked, Due, Late, Unsaved
<1>10. QED
  BY <1>6, <1>7, <1>8, <1>9 DEF IInv

(* A write that reaches the end of its first page takes nothing from       *)
(* behind the caller's bytes.                                              *)
LEMMA NoOverrun ==
  ASSUME NEW a \in Addr, NEW data \in Data, OffsetOf(a) + Len(data) >= PageSize,
         NEW beyond \in Overrun(a, Len(data))
  PROVE  data \o beyond = data
<1>1. OffsetOf(a) + Len(data) \in Nat /\ PageSize \in Nat
  <2>1. a \in Nat /\ Len(data) \in Nat /\ PageSize \in Nat
    BY LastPage, DataFacts, Sizes
  <2>2. OffsetOf(a) \in Nat
    BY <2>1, PageFacts DEF Offset
  <2>3. QED
    BY <2>1, <2>2
<1>2. beyond \in [1 .. 0 -> Byte]
  BY <1>1 DEF Overrun
<1>3. beyond \in Seq(Byte) /\ Len(beyond) = 0
  BY <1>2, SeqDef, LenProperties
<1>4. beyond = << >>
  BY <1>3, EmptySeq
<1>5. QED
  BY <1>4, DataFacts, ConcatEmptySeq

LEMMA WriteImmedKeeps ==
  ASSUME IInv, ~ EndOnPage, Apart, NEW a \in Addr, NEW data \in Data, WriteImmed(a, data)
  PROVE  IInv'
<1>1. /\ pc = "idle" /\ a + Len(data) <= Mem
      /\ OffsetOf(a) + Len(data) >= PageSize /\ lastwaddr \notin PagesOf(a, Len(data))
      /\ op' = "immed" /\ addr' = a /\ pc' = "immed"
      /\ want' = [x \in Addr |-> IF x \in a .. a + Len(data) - 1 THEN data[x - a + 1]
                                 ELSE want[x]]
      /\ dirty' = dirty \cup PagesOf(a, Len(data))
      /\ UNCHANGED <<flash, tmp, lastwaddr, lastwrite, pagetmp>>
  BY DEF WriteImmed
<1>2. /\ a \in Nat /\ a < Mem /\ PageOf(a) \in Page
      /\ data \in Seq(Byte) /\ Len(data) \in Nat \ {0} /\ data # << >>
      /\ \A i \in 1 .. Len(data) : data[i] \in Byte
  BY LastPage, DataFacts
<1>3. rest' = data
  BY <1>1, NoOverrun DEF WriteImmed
<1>4. /\ dirty = Unsaved
      /\ \A x \in Addr : /\ PageOf(x) = lastwaddr => tmp[OffsetOf(x)] = want[x]
                         /\ PageOf(x) \notin Unsaved => flash[x] = want[x]
  BY <1>1, AtRest
<1>5. \A x \in Addr : x \in Nat /\ PageOf(x) \in Page
  BY LastPage
<1>6. TypeOK'
  <2>1. want' \in [Addr -> Byte]
    BY <1>1, <1>2, <1>5 DEF IInv, TypeOK
  <2>2. addr' \in 0 .. Mem /\ addr' # Mem
    BY <1>1, <1>2, Sizes
  <2>3. dirty' \subseteq Page
    BY <1>1, <1>2, SplitPages DEF IInv, TypeOK
  <2>4. QED
    BY <1>1, <1>2, <1>3, <2>1, <2>2, <2>3 DEF IInv, TypeOK
<1>7. Shape'
  BY <1>1, <1>2, <1>3 DEF IInv, Shape
<1>8. Placed'
  <2>1. ASSUME NEW x \in Addr
        PROVE  IF Waits(x, addr, addr)' THEN want'[x] = data[x - a + 1] ELSE want'[x] = want[x]
    BY <1>1, <1>2, <1>3, <1>5 DEF Waits
  <2>2. Places(addr, addr, {lastwaddr}, Page \ Unsaved)'
    BY <1>1, <1>3, <1>4, <2>1 DEF Places, Unsaved
  <2>3. QED
    BY <1>1, <2>2 DEF Placed
<1>9. Marked'
  BY <1>1, <1>3, <1>4 DEF Marked, Due, Late, Unsaved
<1>10. QED
  BY <1>6, <1>7, <1>8, <1>9 DEF IInv

LEMMA ImmedEraseKeeps ==
  ASSUME IInv, ~ EndOnPage, ImmedErase
  PROVE  IInv'
<1>1. /\ pc = "immed" /\ pc' = "immediate" /\ ErasePage(PageOf(addr))
      /\ pagetmp' = Overlay(Image(flash, PageOf(addr)), OffsetOf(addr), rest)
      /\ UNCHANGED <<tmp, lastwaddr, lastwrite, op, addr, rest, want, dirty>>
      /\ NextStart' = NextStart /\ Unsaved' = Unsaved
  BY DEF ImmedErase, NextStart, Start, Unsaved
<1>2. /\ flash' \in [Addr -> Byte]
      /\ \A x \in Addr : PageOf(x) # PageOf(addr) => flash'[x] = flash[x]
  BY <1>1, EraseFacts DEF IInv, TypeOK
<1>3. /\ addr \in Nat /\ PageOf(addr) \in Page /\ Len(rest) \in Nat \ {0}
      /\ lastwaddr \notin PagesOf(addr, Len(rest))
      /\ Places(addr, addr, {lastwaddr}, Page \ Unsaved)
  BY <1>1, Basics DEF IInv, Shape, Placed
<1>4. PageOf(addr) # lastwaddr
  <2>1. Len(rest) \in Nat /\ Len(rest) > 0
    BY <1>3
  <2>2. QED
    BY <1>3, <2>1, SplitPages
<1>5. /\ pagetmp' \in [Offset -> Byte]
      /\ \A x \in Addr : PageOf(x) = PageOf(addr) => pagetmp'[OffsetOf(x)] = want[x]
  <2> DEFINE img == Image(flash, PageOf(addr))
  <2>1. img \in [Offset -> Byte]
    BY <1>3, ImageType DEF IInv
  <2>2. \A x \in Addr : PageOf(x) = PageOf(addr) => img[OffsetOf(x)] = flash[x]
    BY ImageAt, LastPage
  <2>3. pagetmp' = Overlay(img, OffsetOf(addr), rest)
    BY <1>1
  <2> HIDE DEF img
  <2>4. /\ pagetmp' \in [Offset -> Byte]
        /\ \A x \in Addr : PageOf(x) = PageOf(addr) =>
             pagetmp'[OffsetOf(x)] = IF Waits(x, addr, addr) THEN rest[x - addr + 1]
                                     ELSE img[OffsetOf(x)]
    BY <2>1, <2>3, Overlaid DEF IInv
  <2>5. PageOf(addr) \in Page \ Unsaved
    BY <1>3, <1>4 DEF Unsaved
  <2>6. QED
    BY <1>3, <2>2, <2>4, <2>5 DEF Places
<1>6. TypeOK'
  BY <1>1, <1>2, <1>5 DEF IInv, TypeOK
<1>7. Shape'
  BY <1>1 DEF IInv, Shape
<1>8. Placed'
  <2>1. ASSUME NEW x \in Addr
        PROVE  /\ Waits(x, addr, NextStart) => Waits(x, addr, addr)
               /\ Waits(x, addr, addr) /\ ~ Waits(x, addr, NextStart) =>
                    PageOf(x) = PageOf(addr)
    <3>1. x \in Nat
      BY LastPage
    <3>2. /\ NextStart \in Nat /\ Start(addr) \in Nat /\ Start(addr) <= addr /\ addr < NextStart
          /\ PageOf(x) = PageOf(addr) <=> Start(addr) <= x /\ x < NextStart
      BY <3>1, NextFacts DEF IInv
    <3>3. QED
      BY <1>3, <3>1, <3>2 DEF Waits
  <2>2. Places(addr, NextStart, {lastwaddr}, Page \ (Unsaved \cup {PageOf(addr)}))'
    <3>1. \A x \in Addr : Waits(x, addr, NextStart)' <=> Waits(x, addr, NextStart)
      BY <1>1 DEF Waits
    <3>2. QED
      BY <1>1, <1>2, <1>3, <1>4, <2>1, <3>1 DEF Places
  <2>3. QED
    BY <1>1, <1>5, <2>2 DEF Placed
<1>9. Marked'
  BY <1>1 DEF IInv, Marked, Due, Late
<1>10. QED
  BY <1>6, <1>7, <1>8, <1>9 DEF IInv

LEMMA ImmedWriteKeeps ==
  ASSUME IInv, ~ EndOnPage, ImmedWrite
  PROVE  IInv'
<1>1. /\ pc = "immediate" /\ WritePage(PageOf(addr), pagetmp)
      /\ pagetmp' = [o \in Offset |-> Erased]
      /\ rest' = SubSeq(rest, PageSize - OffsetOf(addr) + 1, Len(rest))
      /\ pc' = IF rest' = << >> THEN "idle" ELSE "immed"
      /\ addr' = IF rest' = << >> THEN 0 ELSE NextStart
      /\ dirty' = dirty \ {PageOf(addr)}
      /\ UNCHANGED <<tmp, lastwaddr, lastwrite, op, want>> /\ Unsaved' = Unsaved
  BY NextFacts DEF ImmedWrite, Unsaved, IInv
<1>2. /\ flash' \in [Addr -> Byte]
      /\ \A x \in Addr : flash'[x] = IF PageOf(x) = PageOf(addr) THEN pagetmp[OffsetOf(x)]
                                     ELSE flash[x]
  BY <1>1, WriteFacts DEF IInv, TypeOK
<1>3. /\ addr \in Nat /\ PageOf(addr) \in Page /\ Len(rest) \in Nat \ {0}
      /\ addr + Len(rest) <= Mem /\ op # "flush"
      /\ lastwaddr \notin PagesOf(addr, Len(rest))
      /\ Places(addr, NextStart, {lastwaddr}, Page \ (Unsaved \cup {PageOf(addr)}))
      /\ \A x \in Addr : PageOf(x) = PageOf(addr) => pagetmp[OffsetOf(x)] = want[x]
  BY <1>1, Basics DEF IInv, Shape, Placed
<1>4. /\ rest' \in Seq(Byte)
      /\ Len(rest') = IF NextStart <= addr + Len(rest) THEN addr + Len(rest) - NextStart ELSE 0
      /\ \A x \in Nat : NextStart <= x /\ x < addr + Len(rest) =>
           rest'[x - NextStart + 1] = rest[x - addr + 1]
  BY <1>1, CutRest DEF IInv
<1>5. NextStart \in Nat /\ addr < NextStart /\ NextStart = Start(addr) + PageSize
  BY NextFacts DEF IInv
<1>6. /\ rest' = << >> <=> Len(rest') = 0
      /\ rest' = << >> <=> addr + Len(rest) <= NextStart
  BY <1>3, <1>4, <1>5, EmptySeq
<1>7. /\ PagesOf(addr, Len(rest)) =
           {PageOf(addr)} \cup PagesOf(NextStart, addr + Len(rest) - NextStart)
      /\ PageOf(addr) \notin PagesOf(NextStart, addr + Len(rest) - NextStart)
  <2>1. Len(rest) \in Nat /\ Len(rest) > 0
    BY <1>3
  <2>2. QED
    BY <1>3, <1>5, <2>1, SplitPages
<1>8. PagesOf(addr', Len(rest')) = PagesOf(NextStart, addr + Len(rest) - NextStart)
  <2>1. CASE rest' = << >>
    <3>1. addr' = 0 /\ Len(rest') = 0 /\ addr + Len(rest) <= NextStart
      BY <1>1, <1>6, <2>1
    <3>2. \A x : x \notin NextStart .. NextStart + (addr + Len(rest) - NextStart) - 1
      BY <1>3, <1>5, <3>1
    <3>3. \A x : x \notin addr' .. addr' + Len(rest') - 1
      BY <3>1
    <3>4. QED
      BY <3>2, <3>3 DEF PagesOf
  <2>2. CASE rest' # << >>
    <3>1. addr' = NextStart /\ Len(rest') = addr + Len(rest) - NextStart
      BY <1>1, <1>3, <1>4, <1>5, <1>6, <2>2
    <3>2. QED
      BY <3>1
  <2>3. QED
    BY <2>1, <2>2
<1>9. TypeOK'
  <2>1. addr' \in 0 .. Mem /\ addr' # Mem
    <3>1. Mem \in Nat /\ Mem # 0
      BY LastPage, Basics, Sizes DEF IInv
    <3>2. rest' # << >> => NextStart < Mem
      BY <1>3, <1>5, <1>6, <3>1
    <3>3. QED
      BY <1>1, <1>5, <3>1, <3>2
  <2>2. pagetmp' \in [Offset -> Byte]
    BY <1>1, FlashAssumption
  <2>3. QED
    BY <1>1, <1>2, <1>4, <2>1, <2>2 DEF IInv, TypeOK
<1>10. Shape'
  <2>1. rest' # << >> => addr' + Len(rest') <= Mem
    BY <1>1, <1>3, <1>4, <1>5, <1>6
  <2>2. lastwaddr \notin PagesOf(addr', Len(rest'))
    BY <1>3, <1>7, <1>8
  <2>3. QED
    BY <1>1, <1>3, <2>1, <2>2 DEF IInv, Shape
<1>11. Placed'
  <2>1. ASSUME NEW x \in Addr
        PROVE  IF Waits(x, addr, addr)'
               THEN want[x] = rest'[x - addr' + 1]
               ELSE /\ PageOf(x) = lastwaddr => tmp[OffsetOf(x)] = want[x]
                    /\ PageOf(x) \notin Unsaved => flash'[x] = want[x]
    <3>1. x \in Nat /\ PageOf(x) \in Page
      BY LastPage
    <3>2. Waits(x, addr, addr)' <=> Waits(x, addr, NextStart)
      <4>1. Waits(x, addr, NextStart) <=> NextStart <= x /\ x < addr + Len(rest)
        BY DEF Waits
      <4>2. Waits(x, addr, addr)' <=> addr' <= x /\ x < addr' + Len(rest')
        BY DEF Waits
      <4>3. CASE rest' = << >>
        <5>1. Len(rest') = 0 /\ addr' = 0 /\ addr + Len(rest) <= NextStart
          BY <1>1, <1>6, <4>3
        <5>2. QED
          BY <1>3, <1>5, <3>1, <4>1, <4>2, <5>1
      <4>4. CASE rest' # << >>
        <5>1. addr' = NextStart /\ Len(rest') = addr + Len(rest) - NextStart
          BY <1>1, <1>4, <1>6, <4>4
        <5>2. NextStart + (addr + Len(rest) - NextStart) = addr + Len(rest)
          BY <1>3, <1>5
        <5>3. QED
          BY <4>1, <4>2, <5>1, <5>2
      <4>5. QED
        BY <4>3, <4>4
    <3>3. CASE Waits(x, addr, NextStart)
      <4>1. NextStart <= x /\ x < addr + Len(rest)
        BY <3>3 DEF Waits
      <4>2. addr' = NextStart
        BY <1>1, <1>3, <1>5, <1>6, <3>1, <4>1
      <4>3. QED
        BY <1>3, <1>4, <3>1, <3>2, <3>3, <4>1, <4>2 DEF Places
    <3>4. CASE ~ Waits(x, addr, NextStart)
      BY <1>2, <1>3, <3>1, <3>2, <3>4 DEF Places
    <3>5. QED
      BY <3>3, <3>4
  <2>2. Places(addr, addr, {lastwaddr}, Page \ Unsaved)'
    BY <1>1, <2>1 DEF Places
  <2>3. pc' \in {"idle", "immed"}
    BY <1>1
  <2>4. QED
    BY <2>2, <2>3 DEF Placed
<1>12. Marked'
  <2>1. dirty = PagesOf(addr, Len(rest)) \cup Unsaved
    BY <1>1 DEF IInv, Marked, Due, Late
  <2>2. PageOf(addr) \notin Unsaved
    BY <1>3, <1>7 DEF Unsaved
  <2>3. dirty' = PagesOf(addr', Len(rest')) \cup Unsaved
    BY <1>1, <1>7, <1>8, <2>1, <2>2
  <2>4. QED
    BY <1>1, <2>3 DEF Marked, Due, Late
<1>13. QED
  BY <1>9, <1>10, <1>11, <1>12 DEF IInv

LEMMA PowerLossKeeps ==
  ASSUME IInv, ~ EndOnPage, PowerLoss
  PROVE  IInv'
<1>1. /\ tmp' = [o \in Offset |-> Erased] /\ pagetmp' = tmp'
      /\ lastwaddr' = None /\ lastwrite' = FALSE
      /\ pc' = "idle" /\ op' = "write" /\ addr' = 0 /\ rest' = << >>
      /\ want' = flash /\ dirty' = {} /\ flash' = flash
  BY DEF PowerLoss
<1>2. Len(rest') = 0 /\ Mem \in Nat /\ 0 # Mem
  BY <1>1, LastPage, Basics, Sizes DEF IInv
<1>3. TypeOK'
  <2>1. tmp' \in [Offset -> Byte] /\ pagetmp' \in [Offset -> Byte]
    BY <1>1, FlashAssumption
  <2>2. addr' \in 0 .. Mem /\ addr' # Mem /\ rest' \in Seq(Byte)
    BY <1>1, <1>2, EmptySeq
  <2>3. QED
    BY <1>1, <2>1, <2>2 DEF IInv, TypeOK
<1>4. Shape'
  BY <1>1, Sizes DEF Shape, None
<1>5. Placed'
  <2>1. \A x \in Addr : x \in Nat /\ PageOf(x) \in Nat
    BY LastPage DEF Page
  <2>2. \A x \in Addr : ~ Waits(x, addr, addr)' /\ PageOf(x) # lastwaddr'
    BY <1>1, <1>2, <2>1 DEF Waits, None
  <2>3. Places(addr, addr, {lastwaddr}, Page \ Unsaved)'
    BY <1>1, <2>2 DEF Places
  <2>4. QED
    BY <1>1, <2>3 DEF Placed
<1>6. Marked'
  BY <1>1, <1>2, SplitPages DEF Marked, Due, Late, Unsaved
<1>7. QED
  BY <1>3, <1>4, <1>5, <1>6 DEF IInv

-----------------------------------------------------------------------------
LEMMA StepKeeps == IInv /\ ~ EndOnPage /\ Apart /\ [Next]_vars => IInv'
<1> SUFFICES ASSUME IInv, ~ EndOnPage, Apart, [Next]_vars PROVE IInv'
  OBVIOUS
<1>1. CASE UNCHANGED vars
  BY <1>1 DEF vars, IInv, TypeOK, Shape, Placed, Marked, Places, Waits, Ends, Due, Late,
     Unsaved, NextStart, Start
<1>2. QED
  BY <1>1, WriteKeeps, WriteImmedKeeps, ImmedEraseKeeps, ImmedWriteKeeps, FlushKeeps,
     SaveEraseKeeps, SaveWriteKeeps, LoadKeeps, FillKeeps, PageEraseKeeps, PageWriteKeeps,
     MiddleKeeps, LastKeeps, PowerLossKeeps DEF Next

LEMMA InvHolds == ASSUME ~ EndOnPage, Apart PROVE Spec => []IInv
<1>1. IInv /\ [Next]_vars => IInv'
  BY StepKeeps
<1>2. QED
  BY <1>1, InitInv, PTL DEF Spec

(* The driver keeps its types: no write leaves the chip, and its cursors   *)
(* stay on it.                                                             *)
THEOREM FlashType == ASSUME ~ EndOnPage, Apart PROVE Spec => []TypeOK
<1>1. IInv => TypeOK
  BY DEF IInv
<1>2. QED
  BY <1>1, InvHolds, PTL

(* Between calls chip and buffer together hold all that was written.       *)
THEOREM NoWriteLost == ASSUME ~ EndOnPage, Apart PROVE Spec => []NothingLost
<1>1. IInv => NothingLost
  <2> SUFFICES ASSUME IInv, pc = "idle", NEW a \in Addr
               PROVE  want[a] = IF lastwrite /\ PageOf(a) = lastwaddr THEN tmp[OffsetOf(a)]
                                ELSE flash[a]
    BY DEF NothingLost
  <2>1. QED
    BY AtRest DEF Unsaved
<1>2. QED
  BY <1>1, InvHolds, PTL

(* The buffer always holds the page it is said to hold, so that a write to *)
(* that page may lay its bytes over it without reading the chip.           *)
THEOREM BufferHolds == ASSUME ~ EndOnPage, Apart PROVE Spec => []BufferIsPage
<1>1. IInv => BufferIsPage
  <2> SUFFICES ASSUME IInv, pc = "idle", lastwaddr # None PROVE tmp = Image(want, lastwaddr)
    BY DEF BufferIsPage
  <2>1. lastwaddr \in Page
    BY Sizes DEF IInv, TypeOK, Shape, Page
  <2>2. ASSUME NEW o \in Offset PROVE tmp[o] = want[lastwaddr * PageSize + o]
    <3> DEFINE x == lastwaddr * PageSize + o
    <3>1. lastwaddr \in Nat /\ lastwaddr * PageSize \in Nat /\ o \in Nat /\ o < PageSize
      BY <2>1, Multiples, Sizes DEF Page, Offset
    <3>2. x \in Nat
      BY <3>1
    <3>3. PageOf(x) = lastwaddr
      <4>1. /\ PageOf(x) \in Nat /\ PageOf(x) * PageSize <= x
            /\ x < PageOf(x) * PageSize + PageSize
        BY <3>2, PageFacts DEF Start
      <4>2. PageOf(x) * PageSize \in Nat
        BY <4>1, Multiples
      <4>3. ~ (PageOf(x) < lastwaddr)
        BY <3>1, <4>1, <4>2, Multiples, Sizes
      <4>4. ~ (lastwaddr < PageOf(x))
        BY <3>1, <4>1, <4>2, Multiples, Sizes
      <4>5. QED
        BY <3>1, <4>1, <4>3, <4>4
    <3>4. x \in Addr
      BY <2>1, <3>2, <3>3, LastPage
    <3>5. OffsetOf(x) = o
      BY <3>1, <3>2, <3>3, PageFacts DEF Start
    <3>6. QED
      BY <3>3, <3>4, <3>5, AtRest
  <2>3. QED
    BY <2>2 DEF Image, IInv, TypeOK
<1>2. QED
  BY <1>1, InvHolds, PTL

(* A power failure between calls costs the bytes of one page at most.      *)
THEOREM OnePageLate == ASSUME ~ EndOnPage, Apart PROVE Spec => []OnePageUnsaved
<1>1. IInv => OnePageUnsaved
  BY AtRest DEF OnePageUnsaved, Unsaved
<1>2. QED
  BY <1>1, InvHolds, PTL

(* Whatever the moment power fails, the pages no unfinished write and no   *)
(* unsaved buffer concerns read back as they were written.                 *)
THEOREM OtherPagesKept == ASSUME ~ EndOnPage, Apart PROVE Spec => []OthersKept
<1>1. IInv => OthersKept
  <2> SUFFICES ASSUME IInv, NEW a \in Addr, PageOf(a) \notin dirty
               PROVE  Read(a, 1) = <<want[a]>>
    BY DEF OthersKept
  <2>1. /\ a \in Nat /\ PageOf(a) \in Page /\ addr \in Nat /\ Len(rest) \in Nat
        /\ rest = << >> <=> Len(rest) = 0
        /\ NextStart \in Nat /\ addr < NextStart
    BY LastPage, Basics, NextFacts DEF IInv
  <2>2. PageOf(a) \notin Due /\ PageOf(a) \notin Late
    BY DEF IInv, Marked
  <2>3. CASE pc \in {"erase", "program"}
    <3>1. PageOf(a) # PageOf(addr) /\ ~ Waits(a, NextStart, NextStart)
      BY <2>1, <2>2, <2>3, RestPages DEF Due, Waits
    <3>2. flash[a] = want[a]
      BY <2>1, <2>3, <3>1 DEF IInv, Placed, Places
    <3>3. QED
      BY <2>1, <3>2 DEF Read
  <2>4. CASE pc \notin {"erase", "program"}
    <3>1. PageOf(a) \notin PagesOf(addr, Len(rest))
      BY <2>2, <2>4 DEF Due
    <3>2. ~ Waits(a, addr, addr)
      BY <2>1, <3>1, RestPages DEF Waits
    <3>3. pc \in {"fill", "immediate"} => PageOf(a) # PageOf(addr)
      <4>1. pc \in {"fill", "immediate"} => Len(rest) > 0
        BY <2>1 DEF IInv, Shape, Ends
      <4>2. QED
        BY <2>1, <3>1, <4>1, SplitPages
    <3>4. pc = "immediate" => ~ Waits(a, addr, NextStart)
      BY <2>1, <3>2 DEF Waits
    <3>5. flash[a] = want[a]
      <4>1. CASE pc \in {"idle", "save", "saving", "immed"}
        BY <2>1, <2>2, <3>2, <4>1 DEF IInv, Placed, Places, Late
      <4>2. CASE pc \in {"load", "next"}
        BY <2>1, <3>2, <4>2 DEF IInv, Placed, Places
      <4>3. CASE pc = "fill"
        BY <2>1, <3>2, <3>3, <4>3 DEF IInv, Placed, Places
      <4>4. CASE pc = "immediate"
        BY <2>1, <2>2, <3>3, <3>4, <4>4 DEF IInv, Placed, Places, Late
      <4>5. QED
        BY <2>4, <4>1, <4>2, <4>3, <4>4 DEF IInv, TypeOK
    <3>6. QED
      BY <2>1, <3>5 DEF Read
  <2>5. QED
    BY <2>3, <2>4
<1>2. QED
  BY <1>1, InvHolds, PTL
=============================================================================

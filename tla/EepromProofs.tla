---------------------------- MODULE EepromProofs ----------------------------
(***************************************************************************)
(* For any page, chip and longest call: a write that returns is complete   *)
(* however often its pages were refused, power leaves the pages of a chip  *)
(* changed in order, and a read returns the bytes asked for, leaves them   *)
(* out, or gets them wrong where the code does not look at a failure.      *)
(***************************************************************************)
EXTENDS Eeprom, SequenceTheorems, TLAPS

Transfer == [chip : {1, 2}, a : 0 .. Bank - 1, n : 0 .. PageSize, from : Nat]

(* Home, of a call at ad.                                                  *)
Place(ad, i) == <<((ad + i - 1) \div Bank) + 1, (ad + i - 1) % Bank>>

(* A transfer is of bytes of the call of nm bytes at ad, which belong side *)
(* by side in one page.                                                    *)
Fits(t, ad, nm, chips) ==
  /\ t \in Transfer
  /\ t.from + t.n <= nm
  /\ t.chip \in 1 .. chips \/ t.n = 0
  /\ (t.a % PageSize) + t.n <= PageSize
  /\ \A i \in 1 .. t.n : Place(ad, t.from + i) = <<t.chip, t.a + i - 1>>

(* Transfers that follow upon each other carry the bytes after the lo-th   *)
(* up to the hi-th.                                                        *)
Chained(p, lo, hi) ==
  /\ \A k \in DOMAIN p : p[k].from = IF k = 1 THEN lo ELSE p[k - 1].from + p[k - 1].n
  /\ hi = IF p = << >> THEN lo ELSE p[Len(p)].from + p[Len(p)].n

(* The bytes of the call whose transfers are over.                         *)
Past == IF plan = << >> THEN num ELSE Head(plan).from

Planned ==
  /\ plan \in Seq(Transfer)
  /\ \A k \in DOMAIN plan : Fits(plan[k], addr, num, build.chips) /\ (op = "read" => plan[k].n = 1)
  /\ Chained(plan, Past, num)
  /\ addr + num <= build.chips * Bank

(* Where the call is in its current transfer.                              *)
Stage ==
  /\ pc = "idle" <=> plan = << >>
  /\ pc # "idle" => op \in {"write", "read"}
  /\ pc = "data" => op = "write"
  /\ pc = "receive" => op = "read" /\ ptr = Head(plan).a
  /\ pc # "data" => sent = 0
  /\ pc = "data" => /\ sent <= Head(plan).n
                    /\ sent < Head(plan).n => ptr = Head(plan).a + sent

(* A chip is not addressed during its write cycle; bytes whose write cycle *)
(* has not been started are those of a transfer under way or given up.     *)
Latched ==
  /\ build.dev = "FRAM" => DOMAIN latch = {}
  /\ pc \in {"address", "data"} => Selected \notin cycle
  /\ pc = "address" => \A x \in DOMAIN latch : x[1] \in cycle
  /\ \A x \in DOMAIN latch :
       x[1] \in cycle \/ (op = "write" /\ pc \in {"poll", "data"} /\ x[1] = Selected)

(* A write leaves in a cell what it held or its byte of the call; a read   *)
(* may leave what no caller wrote.                                         *)
Writing == op \in {"write", "cut"}
Proper(x, v) == v = Old \/ IF Writing THEN v \in 1 .. num /\ x = Home(v) ELSE v = Stray
Contents ==
  /\ \A x \in Cell : Proper(x, mem[x])
  /\ \A x \in DOMAIN latch : Proper(x, latch[x]) /\ (latch[x] = Old => mem[x] = Old)

(* The i-th byte is stored, or latched in a write cycle that runs.         *)
Safe(i) == IF Home(i) \in DOMAIN latch THEN latch[Home(i)] = i /\ Home(i)[1] \in cycle
           ELSE mem[Home(i)] = i
Taken(i) == IF build.dev = "FRAM" THEN mem[Home(i)] = i
            ELSE Home(i) \in DOMAIN latch /\ latch[Home(i)] = i
Complete ==
  op = "write" => /\ \A i \in 1 .. Past : Safe(i)
                  /\ pc = "data" => \A i \in Past + 1 .. Past + sent : Taken(i)

(* A byte is on its way to a page only when the pages before are stored.   *)
Begun(j) == mem[Home(j)] = j \/ (Home(j) \in DOMAIN latch /\ latch[Home(j)] = j)
Before(i, j) == /\ i < j /\ Home(i)[1] = Home(j)[1]
                /\ Home(i)[2] \div PageSize # Home(j)[2] \div PageSize
Ordered == \A i, j \in 1 .. num : Before(i, j) /\ Begun(j) => mem[Home(i)] = i

(* What a read has put into the buffer so far, and that the cells it has   *)
(* still to fetch are as they were, unless a byte went astray to them.     *)
Byte(i) == got[i] = Home(i) \/ (got[i] = Wrong /\ i \in astray)
Clean(x) == mem[x] = Old /\ (x \in DOMAIN latch => latch[x] = Old)
Fetched ==
  op = "read" =>
    /\ DOMAIN got = 1 .. num
    /\ \A i \in 1 .. num : got[i] = Kept \/ (i <= Past /\ Byte(i))
    /\ \A i \in 1 .. Past : got[i] = Kept => i \in missed
    /\ \A i \in Past + 1 .. num : Clean(Home(i)) \/ i \in astray

IInv == TypeOK /\ Planned /\ Stage /\ Latched /\ Contents /\ Complete /\ Ordered /\ Fetched

-----------------------------------------------------------------------------
LEMMA Sizes == /\ PageSize \in Nat /\ 0 < PageSize /\ Bank \in Nat /\ 0 < Bank
               /\ Bank % PageSize = 0 /\ MaxNum \in Nat /\ 0 < MaxNum /\ MaxNum < Bank
               /\ MaxRead \in Nat /\ MaxRead <= MaxNum
               /\ Stray \in Nat /\ Stray = MaxNum + 1
BY EepromAssumption DEF Stray

LEMMA MinMax ==
  ASSUME NEW x \in Int, NEW y \in Int
  PROVE  /\ Min({x, y}) = IF x <= y THEN x ELSE y
         /\ Max({x, y}) = IF x <= y THEN y ELSE x
<1>1. Min({x, y}) \in {x, y} /\ \A z \in {x, y} : Min({x, y}) <= z
  <2>1. \E w \in {x, y} : \A z \in {x, y} : w <= z
    OBVIOUS
  <2>2. QED
    BY <2>1, Zenon DEF Min
<1>2. Max({x, y}) \in {x, y} /\ \A z \in {x, y} : Max({x, y}) >= z
  <2>1. \E w \in {x, y} : \A z \in {x, y} : w >= z
    OBVIOUS
  <2>2. QED
    BY <2>1, Zenon DEF Max
<1> DEFINE mn == Min({x, y})
           mx == Max({x, y})
<1>3. mn \in {x, y} /\ mn <= x /\ mn <= y /\ mx \in {x, y} /\ mx >= x /\ mx >= y
  BY <1>1, <1>2
<1> HIDE DEF mn, mx
<1>4. /\ mn = IF x <= y THEN x ELSE y
      /\ mx = IF x <= y THEN y ELSE x
  BY <1>3
<1>5. QED
  BY <1>4 DEF mn, mx

(* Division by the page size.                                              *)
LEMMA Division ==
  ASSUME NEW x \in Nat
  PROVE  /\ x \div PageSize \in Nat /\ x % PageSize \in Nat /\ x % PageSize < PageSize
         /\ (x \div PageSize) * PageSize \in Nat
         /\ x = (x \div PageSize) * PageSize + (x % PageSize)
<1> DEFINE n == PageSize
<1>1. n \in Nat \ {0}
  BY Sizes
<1> SUFFICES /\ x \div n \in Nat /\ x % n \in Nat /\ x % n < n
             /\ (x \div n) * n \in Nat
             /\ x = (x \div n) * n + (x % n)
  OBVIOUS
<1> HIDE DEF n
<1>2. x \div n \in Int /\ x % n \in 0 .. n - 1 /\ x = n * (x \div n) + (x % n)
  BY <1>1, Z3
<1>3. x \div n >= 0
  BY <1>1, Z3
<1>4. (x \div n) * n = n * (x \div n) /\ (x \div n) * n \in Int
  BY <1>2, <1>1, Z3
<1>5. x % n <= x
  BY <1>1, <1>2, <1>3, Z3
<1>6. QED
  BY <1>1, <1>2, <1>3, <1>4, <1>5

(* What determines a quotient and a remainder.                             *)
LEMMA Quotient ==
  ASSUME NEW q \in Nat, NEW r \in Nat, r < PageSize
  PROVE  /\ (q * PageSize + r) \div PageSize = q
         /\ (q * PageSize + r) % PageSize = r
<1> DEFINE n == PageSize
<1>1. n \in Nat \ {0} /\ r < n
  BY Sizes
<1> SUFFICES (q * n + r) \div n = q /\ (q * n + r) % n = r
  OBVIOUS
<1> HIDE DEF n
<1>2. q * n \in Nat
  BY <1>1, Z3
<1>3. QED
  BY <1>1, <1>2, Z3

(* Pages do not overlap.                                                   *)
LEMMA Multiples ==
  ASSUME NEW p \in Nat, NEW q \in Nat
  PROVE  /\ p * PageSize \in Nat
         /\ p < q => p * PageSize + PageSize <= q * PageSize
         /\ (p + q) * PageSize = p * PageSize + q * PageSize
         /\ (p + 1) * PageSize = p * PageSize + PageSize
<1> DEFINE n == PageSize
<1>1. n \in Nat
  BY Sizes
<1> HIDE DEF n
<1>2. p * n \in Nat /\ (p + 1) * n = p * n + n /\ (p + q) * n = p * n + q * n
  BY <1>1, Z3
<1>3. ASSUME p < q PROVE p * n + n <= q * n
  <2>1. PICK k \in Nat : q = p + 1 + k
    <3>1. q - p - 1 \in Nat /\ q = p + 1 + (q - p - 1)
      BY <1>3
    <3>2. QED
      BY <3>1
  <2>2. q * n = p * n + n + k * n /\ k * n \in Nat
    BY <1>1, <2>1, Z3
  <2>3. QED
    BY <1>1, <1>2, <2>2
<1>4. QED
  BY <1>2, <1>3 DEF n

(* A chip ends with a page.                                                *)
LEMMA ChipEnd ==
  ASSUME NEW x \in 0 .. Bank - 1
  PROVE  x - (x % PageSize) + PageSize <= Bank
<1> DEFINE p == x \div PageSize
           b == Bank \div PageSize
<1>1. /\ p \in Nat /\ p * PageSize \in Nat /\ x % PageSize \in Nat
      /\ x = p * PageSize + (x % PageSize)
  BY Division, Sizes
<1>2. b \in Nat /\ b * PageSize \in Nat /\ Bank = b * PageSize
  BY Division, Sizes
<1>3. p < b
  <2>1. ~ (b < p)
    BY <1>1, <1>2, Multiples, Sizes
  <2>2. b # p
    BY <1>1, <1>2, Sizes
  <2>3. QED
    BY <1>1, <1>2, <2>1, <2>2
<1>4. p * PageSize + PageSize <= b * PageSize
  BY <1>1, <1>2, <1>3, Multiples
<1>5. QED
  BY <1>1, <1>2, <1>4, Sizes

(* The bytes of a transfer are on the page of its first one.               *)
LEMMA WithinPage ==
  ASSUME NEW x \in Nat, NEW k \in Nat, (x % PageSize) + k < PageSize
  PROVE  /\ (x + k) \div PageSize = x \div PageSize
         /\ (x + k) % PageSize = (x % PageSize) + k
<1>1. /\ x \div PageSize \in Nat /\ x % PageSize \in Nat
      /\ (x \div PageSize) * PageSize \in Nat
      /\ x = (x \div PageSize) * PageSize + (x % PageSize)
  BY Division
<1>2. x + k = (x \div PageSize) * PageSize + ((x % PageSize) + k)
  BY <1>1
<1>3. QED
  BY <1>1, <1>2, Quotient

(* Addresses of the first and of the second chip.                          *)
LEMMA BankOf ==
  ASSUME NEW x \in 0 .. 2 * Bank - 1
  PROVE  /\ x \div Bank = IF x < Bank THEN 0 ELSE 1
         /\ x % Bank = IF x < Bank THEN x ELSE x - Bank
<1> DEFINE n == Bank
<1>1. n \in Nat \ {0} /\ x \in Nat /\ x < 2 * n
  BY Sizes
<1> SUFFICES /\ x \div n = IF x < n THEN 0 ELSE 1
             /\ x % n = IF x < n THEN x ELSE x - n
  OBVIOUS
<1> HIDE DEF n
<1>2. QED
  BY <1>1, Z3

-----------------------------------------------------------------------------
LEMMA PlaceFacts ==
  ASSUME NEW ad \in Nat, NEW nm \in Nat, NEW chips \in {1, 2}, ad + nm <= chips * Bank,
         NEW i \in 1 .. nm
  PROVE  /\ ad + i - 1 < Bank => Place(ad, i) = <<1, ad + i - 1>>
         /\ ~ (ad + i - 1 < Bank) => Place(ad, i) = <<2, ad + i - 1 - Bank>>
         /\ Place(ad, i)[1] \in 1 .. chips /\ Place(ad, i)[2] \in 0 .. Bank - 1
         /\ Place(ad, i) = <<Place(ad, i)[1], Place(ad, i)[2]>>
         /\ \A j \in 1 .. nm : Place(ad, j) = Place(ad, i) => j = i
<1>0. chips * Bank = Bank \/ (chips = 2 /\ chips * Bank = 2 * Bank)
  BY Sizes
<1>1. ASSUME NEW j \in 1 .. nm, NEW x, x = ad + j - 1
      PROVE  /\ Place(ad, j) = IF x < Bank THEN <<1, x>> ELSE <<2, x - Bank>>
             /\ chips = 1 => x < Bank
             /\ x \in Nat /\ x < 2 * Bank
  <2>1. x \in 0 .. 2 * Bank - 1 /\ (chips = 1 => x < Bank)
    BY <1>0, <1>1, Sizes
  <2>2. Place(ad, j) = <<(x \div Bank) + 1, x % Bank>>
    BY <1>1 DEF Place
  <2>3. /\ x \div Bank = IF x < Bank THEN 0 ELSE 1
        /\ x % Bank = IF x < Bank THEN x ELSE x - Bank
    BY <2>1, BankOf
  <2>4. (x \div Bank) + 1 = IF x < Bank THEN 1 ELSE 2
    BY <2>1, <2>3, Sizes
  <2>5. Place(ad, j) = IF x < Bank THEN <<1, x>> ELSE <<2, x - Bank>>
    BY <2>2, <2>3, <2>4, Zenon
  <2>6. QED
    BY <2>1, <2>5, Sizes
<1>2. ASSUME NEW j \in 1 .. nm
      PROVE  /\ ad + j - 1 < Bank => Place(ad, j) = <<1, ad + j - 1>>
             /\ ~ (ad + j - 1 < Bank) => Place(ad, j) = <<2, ad + j - 1 - Bank>>
             /\ chips = 1 => ad + j - 1 < Bank
             /\ ad + j - 1 \in Nat /\ ad + j - 1 < 2 * Bank
  <2> DEFINE x == ad + j - 1
  <2>1. x = ad + j - 1
    OBVIOUS
  <2> HIDE DEF x
  <2>2. /\ Place(ad, j) = IF x < Bank THEN <<1, x>> ELSE <<2, x - Bank>>
        /\ chips = 1 => x < Bank
        /\ x \in Nat /\ x < 2 * Bank
    BY <1>1, <2>1
  <2>3. /\ chips = 1 => ad + j - 1 < Bank
        /\ ad + j - 1 \in Nat /\ ad + j - 1 < 2 * Bank
    BY <2>1, <2>2
  <2>4. ad + j - 1 < Bank => Place(ad, j) = <<1, ad + j - 1>>
    BY <2>1, <2>2
  <2>5. ~ (ad + j - 1 < Bank) => Place(ad, j) = <<2, ad + j - 1 - Bank>>
    <3>1. (x - Bank) = (ad + j - 1 - Bank)
      BY <2>1, <2>2, Sizes
    <3>2. ~ (x < Bank) => Place(ad, j) = <<2, x - Bank>>
      BY <2>2
    <3>3. QED
      BY <2>1, <3>1, <3>2, Zenon
  <2>6. QED
    BY <2>3, <2>4, <2>5
<1>3. Place(ad, i)[1] \in 1 .. chips /\ Place(ad, i)[2] \in 0 .. Bank - 1
  <2>1. CASE ad + i - 1 < Bank
    <3>1. Place(ad, i)[1] = 1 /\ Place(ad, i)[2] = ad + i - 1
      BY <1>2, <2>1
    <3>2. QED
      BY <1>2, <2>1, <3>1, Sizes
  <2>2. CASE ~ (ad + i - 1 < Bank)
    <3>1. Place(ad, i)[1] = 2 /\ Place(ad, i)[2] = ad + i - 1 - Bank
      BY <1>2, <2>2
    <3>2. QED
      BY <1>2, <2>2, <3>1, Sizes
  <2>3. QED
    BY <2>1, <2>2
<1>4. ASSUME NEW j \in 1 .. nm, Place(ad, j) = Place(ad, i)
      PROVE  j = i
  <2> DEFINE Chip(k) == IF ad + k - 1 < Bank THEN 1 ELSE 2
             Offset(k) == IF ad + k - 1 < Bank THEN ad + k - 1 ELSE ad + k - 1 - Bank
  <2>1. Place(ad, i) = <<Chip(i), Offset(i)>> /\ Place(ad, j) = <<Chip(j), Offset(j)>>
    BY <1>2
  <2>2. Chip(i) = Chip(j) /\ Offset(i) = Offset(j)
    <3> HIDE DEF Chip, Offset
    <3>1. QED
      BY <1>4, <2>1
  <2>3. QED
    BY <2>2, Sizes
<1>5. Place(ad, i) = <<Place(ad, i)[1], Place(ad, i)[2]>>
  BY DEF Place
<1>6. QED
  BY <1>2, <1>3, <1>4, <1>5

-----------------------------------------------------------------------------
(* Sequences of transfers.                                                 *)
LEMMA ChainConcat ==
  ASSUME NEW p \in Seq(Transfer), NEW q \in Seq(Transfer), NEW lo, NEW mid, NEW hi,
         Chained(p, lo, mid), Chained(q, mid, hi)
  PROVE  /\ p \o q \in Seq(Transfer)
         /\ Chained(p \o q, lo, hi)
         /\ \A k \in DOMAIN (p \o q) : (\E j \in DOMAIN p : (p \o q)[k] = p[j])
                                     \/ (\E j \in DOMAIN q : (p \o q)[k] = q[j])
<1> DEFINE r == p \o q
<1>1. /\ r \in Seq(Transfer) /\ Len(r) = Len(p) + Len(q)
      /\ \A k \in 1 .. Len(p) + Len(q) : r[k] = IF k <= Len(p) THEN p[k] ELSE q[k - Len(p)]
  BY ConcatProperties
<1>2. /\ Len(p) \in Nat /\ Len(q) \in Nat /\ DOMAIN p = 1 .. Len(p) /\ DOMAIN q = 1 .. Len(q)
      /\ DOMAIN r = 1 .. Len(p) + Len(q)
  BY <1>1, LenProperties
<1>3. (p = << >> <=> Len(p) = 0) /\ (q = << >> <=> Len(q) = 0) /\ (r = << >> <=> Len(r) = 0)
  BY <1>1, EmptySeq
<1> HIDE DEF r
<1>4. ASSUME NEW k \in DOMAIN r
      PROVE  /\ r[k].from = IF k = 1 THEN lo ELSE r[k - 1].from + r[k - 1].n
             /\ (\E j \in DOMAIN p : r[k] = p[j]) \/ (\E j \in DOMAIN q : r[k] = q[j])
  <2>1. CASE k <= Len(p)
    <3>1. k \in DOMAIN p /\ r[k] = p[k] /\ (k # 1 => r[k - 1] = p[k - 1])
      BY <1>1, <1>2, <2>1
    <3>2. QED
      BY <3>1 DEF Chained
  <2>2. CASE k = Len(p) + 1
    <3>1. 1 \in DOMAIN q /\ r[k] = q[1] /\ q[1].from = mid
      <4>1. 1 \in DOMAIN q /\ k \in 1 .. Len(p) + Len(q) /\ ~ (k <= Len(p)) /\ k - Len(p) = 1
        BY <1>2, <2>2
      <4>2. QED
        BY <1>1, <4>1 DEF Chained
    <3>2. k # 1 => p # << >> /\ r[k - 1] = p[Len(p)]
      BY <1>1, <1>2, <1>3, <2>2
    <3>3. k = 1 => mid = lo
      BY <1>2, <1>3, <2>2 DEF Chained
    <3>4. QED
      BY <3>1, <3>2, <3>3 DEF Chained
  <2>3. CASE k > Len(p) + 1
    <3>1. /\ k - Len(p) \in DOMAIN q /\ k - Len(p) # 1 /\ k # 1 /\ r[k] = q[k - Len(p)]
          /\ r[k - 1] = q[(k - Len(p)) - 1]
      <4>1. k - 1 \in 1 .. Len(p) + Len(q) /\ ~ (k - 1 <= Len(p))
            /\ (k - 1) - Len(p) = (k - Len(p)) - 1
        BY <1>2, <2>3
      <4>2. QED
        BY <1>1, <1>2, <2>3, <4>1
    <3>2. QED
      BY <3>1 DEF Chained
  <2>4. QED
    BY <1>2, <2>1, <2>2, <2>3
<1>5. hi = IF r = << >> THEN lo ELSE r[Len(r)].from + r[Len(r)].n
  <2>1. CASE q = << >>
    <3>1. hi = mid /\ (r = << >> <=> p = << >>) /\ Len(r) = Len(p)
      BY <1>1, <1>2, <1>3, <2>1 DEF Chained
    <3>2. p # << >> => r[Len(r)] = p[Len(p)]
      BY <1>1, <1>2, <1>3, <3>1
    <3>3. QED
      BY <3>1, <3>2 DEF Chained
  <2>2. CASE q # << >>
    <3>1. r # << >> /\ r[Len(r)] = q[Len(q)]
      <4>1. Len(q) > 0 /\ Len(r) \in 1 .. Len(p) + Len(q) /\ ~ (Len(r) <= Len(p))
            /\ Len(r) - Len(p) = Len(q)
        BY <1>1, <1>2, <1>3, <2>2
      <4>2. QED
        BY <1>1, <1>3, <4>1
    <3>2. QED
      BY <2>2, <3>1 DEF Chained
  <2>3. QED
    BY <2>1, <2>2
<1>6. QED
  BY <1>1, <1>4, <1>5 DEF Chained, r

LEMMA ChainTail ==
  ASSUME NEW p \in Seq(Transfer), p # << >>, NEW lo, NEW hi, Chained(p, lo, hi)
  PROVE  /\ Head(p) = p[1] /\ 1 \in DOMAIN p /\ Head(p) \in Transfer /\ Head(p).from = lo
         /\ Tail(p) \in Seq(Transfer)
         /\ \A k \in DOMAIN Tail(p) : k + 1 \in DOMAIN p /\ Tail(p)[k] = p[k + 1]
         /\ Chained(Tail(p), lo + Head(p).n, hi)
         /\ Tail(p) = << >> => hi = lo + Head(p).n
         /\ Tail(p) # << >> => Head(Tail(p)).from = lo + Head(p).n
<1> DEFINE r == Tail(p)
<1>1. /\ Head(p) = p[1] /\ Head(p) \in Transfer
      /\ r \in Seq(Transfer) /\ Len(r) = Len(p) - 1
      /\ \A k \in 1 .. Len(r) : r[k] = p[k + 1]
  BY HeadTailProperties
<1>2. /\ Len(p) \in Nat /\ Len(p) > 0 /\ DOMAIN p = 1 .. Len(p) /\ DOMAIN r = 1 .. Len(p) - 1
  BY <1>1, LenProperties, EmptySeq
<1>3. r = << >> <=> Len(p) = 1
  <2>1. r = << >> <=> Len(r) = 0
    BY <1>1, EmptySeq
  <2>2. QED
    BY <1>1, <1>2, <2>1
<1>4. r # << >> => Head(r) = r[1] /\ 1 \in DOMAIN r
  BY <1>1, <1>2, <1>3, HeadTailProperties
<1> HIDE DEF r
<1>5. 1 \in DOMAIN p /\ p[1].from = lo
  BY <1>2 DEF Chained
<1>6. ASSUME NEW k \in DOMAIN r
      PROVE  /\ k + 1 \in DOMAIN p /\ r[k] = p[k + 1]
             /\ r[k].from = IF k = 1 THEN lo + p[1].n ELSE r[k - 1].from + r[k - 1].n
  <2>1. k + 1 \in DOMAIN p /\ r[k] = p[k + 1] /\ k + 1 # 1 /\ (k + 1) - 1 = k
    BY <1>1, <1>2
  <2>2. r[k].from = p[k].from + p[k].n
    BY <2>1 DEF Chained
  <2>3. k # 1 => r[k - 1] = p[k]
    <3>1. k # 1 => k - 1 \in 1 .. Len(r) /\ (k - 1) + 1 = k
      BY <1>1, <1>2
    <3>2. QED
      BY <1>1, <3>1
  <2>4. QED
    BY <1>5, <2>1, <2>2, <2>3
<1>7. hi = IF r = << >> THEN lo + p[1].n ELSE r[Len(r)].from + r[Len(r)].n
  <2>1. hi = p[Len(p)].from + p[Len(p)].n
    BY DEF Chained
  <2>2. r # << >> => r[Len(r)] = p[Len(p)]
    BY <1>1, <1>2, <1>3
  <2>3. QED
    BY <1>3, <1>5, <2>1, <2>2
<1>8. Chained(r, lo + p[1].n, hi)
  BY <1>6, <1>7 DEF Chained
<1>9. QED
  BY <1>1, <1>4, <1>5, <1>6, <1>7, <1>8 DEF r

-----------------------------------------------------------------------------
(* The part of a call of nm bytes at ad that lies on one chip.             *)
OnChip(part, ad, nm, chips) ==
  /\ part \in [chip : {1, 2}, a : 0 .. Bank - 1, n : Nat, from : Nat]
  /\ part.a + part.n <= Bank
  /\ part.from + part.n <= nm
  /\ part.chip \in 1 .. chips \/ part.n = 0
  /\ \A i \in 1 .. part.n : Place(ad, part.from + i) = <<part.chip, part.a + i - 1>>

(* p makes the transfers of part.                                          *)
Makes(p, part, ad, nm, chips) ==
  /\ p \in Seq(Transfer)
  /\ Chained(p, part.from, part.from + part.n)
  /\ \A k \in DOMAIN p : Fits(p[k], ad, nm, chips)

LEMMA PartFits ==
  ASSUME NEW ad, NEW nm \in Nat, NEW chips, NEW part, OnChip(part, ad, nm, chips),
         NEW d \in Nat, NEW m \in 0 .. PageSize, d + m <= part.n,
         NEW a \in 0 .. Bank - 1, m = 0 \/ a = part.a + d, (a % PageSize) + m <= PageSize
  PROVE  /\ Part(part.chip, a, m, part.from + d) \in Transfer
         /\ Fits(Part(part.chip, a, m, part.from + d), ad, nm, chips)
<1> DEFINE t == Part(part.chip, a, m, part.from + d)
<1>1. /\ part.chip \in {1, 2} /\ part.a \in Nat /\ part.n \in Nat /\ part.from \in Nat
      /\ part.from + part.n <= nm /\ (part.chip \in 1 .. chips \/ part.n = 0)
  BY DEF OnChip
<1>2. /\ t.chip = part.chip /\ t.a = a /\ t.n = m /\ t.from = part.from + d
      /\ t = [chip |-> part.chip, a |-> a, n |-> m, from |-> part.from + d]
  BY DEF Part
<1>3. t \in Transfer
  BY <1>1, <1>2 DEF Transfer
<1> HIDE DEF t
<1>4. t.from + t.n <= nm
  BY <1>1, <1>2, Sizes
<1>5. t.chip \in 1 .. chips \/ t.n = 0
  BY <1>1, <1>2, Sizes
<1>6. ASSUME NEW i \in 1 .. t.n
      PROVE  Place(ad, t.from + i) = <<t.chip, t.a + i - 1>>
  <2>1. i \in Nat /\ 1 <= i /\ i <= m /\ m # 0 /\ d + i \in 1 .. part.n
    BY <1>1, <1>2, Sizes
  <2>2. Place(ad, part.from + (d + i)) = <<part.chip, part.a + (d + i) - 1>>
    BY <2>1 DEF OnChip
  <2>3. /\ part.from + (d + i) = t.from + i
        /\ part.a + (d + i) - 1 = t.a + i - 1
    BY <1>1, <1>2, <2>1
  <2>4. QED
    BY <1>2, <2>2, <2>3
<1>7. QED
  BY <1>2, <1>3, <1>4, <1>5, <1>6 DEF Fits, t

(* eeprom_read_bytes.                                                      *)
LEMMA BankReadMakes ==
  ASSUME NEW ad, NEW nm \in Nat, NEW chips, NEW part, OnChip(part, ad, nm, chips)
  PROVE  /\ Makes(BankRead(part), part, ad, nm, chips)
         /\ \A k \in DOMAIN BankRead(part) : BankRead(part)[k].n = 1
<1> DEFINE p == BankRead(part)
<1>1. /\ part.n \in Nat /\ part.a \in 0 .. Bank - 1 /\ part.a + part.n <= Bank
      /\ part.from \in Nat
  BY DEF OnChip
<1>2. DOMAIN p = 1 .. part.n
  BY DEF BankRead
<1>3. ASSUME NEW i \in 1 .. part.n
      PROVE  /\ p[i] \in Transfer /\ Fits(p[i], ad, nm, chips)
             /\ p[i].n = 1 /\ p[i].from = part.from + (i - 1)
  <2>1. /\ i - 1 \in Nat /\ part.a + (i - 1) \in 0 .. Bank - 1 /\ (i - 1) + 1 <= part.n
        /\ part.a + i - 1 = part.a + (i - 1) /\ part.from + i - 1 = part.from + (i - 1)
    BY <1>1, Sizes
  <2>2. p[i] = Part(part.chip, part.a + (i - 1), 1, part.from + (i - 1))
    BY <2>1 DEF BankRead
  <2>3. ((part.a + (i - 1)) % PageSize) + 1 <= PageSize /\ 1 \in 0 .. PageSize
    BY <2>1, Division, Sizes
  <2>4. /\ Part(part.chip, part.a + (i - 1), 1, part.from + (i - 1)) \in Transfer
        /\ Fits(Part(part.chip, part.a + (i - 1), 1, part.from + (i - 1)), ad, nm, chips)
    BY <2>1, <2>3, PartFits
  <2>5. QED
    BY <2>2, <2>4 DEF Part
<1>4. p \in Seq(Transfer) /\ Len(p) = part.n
  <2>1. p \in [1 .. part.n -> Transfer]
    BY <1>3 DEF BankRead
  <2>2. QED
    BY <1>1, <2>1, SeqDef, LenProperties
<1>5. p = << >> <=> part.n = 0
  BY <1>4, EmptySeq
<1> HIDE DEF p
<1>6. ASSUME NEW k \in 1 .. part.n
      PROVE  p[k].from = IF k = 1 THEN part.from ELSE p[k - 1].from + p[k - 1].n
  <2>1. k # 1 => k - 1 \in 1 .. part.n
    BY <1>1
  <2>2. QED
    BY <1>1, <1>3, <2>1
<1>7. part.from + part.n = IF p = << >> THEN part.from ELSE p[Len(p)].from + p[Len(p)].n
  <2>1. CASE part.n = 0
    BY <1>1, <1>5, <2>1
  <2>2. CASE part.n # 0
    <3>1. part.n \in 1 .. part.n /\ part.from + part.n = part.from + (part.n - 1) + 1
      BY <1>1, <2>2
    <3>2. p[part.n].from = part.from + (part.n - 1) /\ p[part.n].n = 1
      BY <1>3, <3>1
    <3>3. QED
      BY <1>4, <1>5, <2>2, <3>1, <3>2
  <2>3. QED
    BY <2>1, <2>2
<1>8. QED
  BY <1>2, <1>3, <1>4, <1>6, <1>7 DEF Makes, Chained, p

(* The pages that a part covers.                                           *)
LEMMA Cover ==
  ASSUME NEW a \in Nat, NEW n \in Nat
  PROVE  LET c == a \div PageSize
             l == (a + n) \div PageSize
         IN  /\ c \in Nat /\ l \in Nat /\ c <= l
             /\ l = c => (a % PageSize) + n < PageSize
             /\ l > c => /\ PageSize - (a % PageSize) \in 1 .. n
                         /\ a + (PageSize - (a % PageSize)) = (c + 1) * PageSize
             /\ l * PageSize \in Nat /\ a + n = l * PageSize + ((a + n) % PageSize)
<1> DEFINE c == a \div PageSize
           l == (a + n) \div PageSize
<1>1. /\ c \in Nat /\ c * PageSize \in Nat /\ a % PageSize \in Nat /\ a % PageSize < PageSize
      /\ a = c * PageSize + (a % PageSize)
  BY Division
<1>2. /\ l \in Nat /\ l * PageSize \in Nat /\ (a + n) % PageSize \in Nat
      /\ (a + n) % PageSize < PageSize /\ a + n = l * PageSize + ((a + n) % PageSize)
  <2>1. a + n \in Nat
    OBVIOUS
  <2>2. QED
    BY <2>1, Division
<1> DEFINE o == a % PageSize
           m == (a + n) % PageSize
           C == c * PageSize
           L == l * PageSize
<1>3. /\ C \in Nat /\ L \in Nat /\ o \in Nat /\ m \in Nat /\ o < PageSize /\ m < PageSize
      /\ a = C + o /\ a + n = L + m
  BY <1>1, <1>2
<1>4. /\ c < l => C + PageSize <= L
      /\ l < c => L + PageSize <= C
      /\ (c + 1) * PageSize = C + PageSize
  BY <1>1, <1>2, Multiples
<1> HIDE DEF o, m, C, L
<1>5. ~ (l < c)
  BY <1>1, <1>2, <1>3, <1>4, Sizes
<1>6. l = c => C = L
  BY DEF C, L
<1>7. l = c => o + n < PageSize
  BY <1>3, <1>6, Sizes
<1>8. l > c => PageSize - o \in 1 .. n /\ a + (PageSize - o) = (c + 1) * PageSize
  BY <1>1, <1>2, <1>3, <1>4, Sizes
<1>9. QED
  BY <1>1, <1>2, <1>5, <1>7, <1>8 DEF o

LEMMA Block ==
  ASSUME NEW a \in Nat, NEW n \in Nat,
         NEW k \in 1 .. ((a + n) \div PageSize) - (a \div PageSize)
  PROVE  LET c == a \div PageSize
             l == (a + n) \div PageSize
         IN  /\ (PageSize - (a % PageSize)) + (k - 1) * PageSize \in Nat
             /\ a + ((PageSize - (a % PageSize)) + (k - 1) * PageSize) = (c + k) * PageSize
             /\ (c + k) * PageSize \in Nat /\ (k - 1) * PageSize \in Nat
             /\ (c + k) * PageSize <= a + n
             /\ k < l - c => (c + k) * PageSize + PageSize <= a + n
             /\ ((c + k) * PageSize) % PageSize = 0
             /\ (k - 1) * PageSize + PageSize = ((k + 1) - 1) * PageSize
<1> DEFINE c == a \div PageSize
           l == (a + n) \div PageSize
           head == PageSize - (a % PageSize)
           K == (k - 1) * PageSize
           B == (c + k) * PageSize
           L == l * PageSize
<1>1. /\ c \in Nat /\ l \in Nat /\ l > c /\ head \in 1 .. n /\ a + head = (c + 1) * PageSize
      /\ L \in Nat /\ a + n = L + ((a + n) % PageSize) /\ (a + n) % PageSize \in Nat
  <2>1. c \in Nat /\ l \in Nat /\ k \in Nat /\ 1 <= k
    <3>1. c \in Nat /\ l \in Nat /\ k \in 1 .. l - c
      BY Cover
    <3> HIDE DEF c, l
    <3>2. QED
      BY <3>1
  <2>2. l > c
    <3>1. k \in 1 .. l - c
      OBVIOUS
    <3> HIDE DEF c, l
    <3>2. QED
      BY <2>1, <3>1
  <2>3. (a + n) % PageSize \in Nat
    <3>1. a + n \in Nat
      OBVIOUS
    <3>2. QED
      BY <3>1, Division
  <2>4. QED
    BY <2>1, <2>2, <2>3, Cover
<1>2. K \in Nat /\ k - 1 \in Nat /\ (c + 1) + (k - 1) = c + k /\ c + k \in Nat /\ c + k <= l
      /\ (k - 1) + 1 = (k + 1) - 1 /\ ((k - 1) + 1) * PageSize = K + PageSize
  <2>1. k - 1 \in Nat /\ (c + 1) + (k - 1) = c + k /\ c + k \in Nat /\ c + k <= l
        /\ (k - 1) + 1 = (k + 1) - 1
    BY <1>1
  <2>2. QED
    BY <2>1, Multiples
<1>3. B \in Nat /\ B = (c + 1) * PageSize + K
  BY <1>1, <1>2, Multiples
<1>4. B <= L /\ (c + k < l => B + PageSize <= L)
  <2>1. c + k < l => B + PageSize <= L
    BY <1>1, <1>2, Multiples
  <2>2. c + k = l => B = L
    OBVIOUS
  <2>3. c + k < l \/ c + k = l
    BY <1>1, <1>2
  <2>4. QED
    BY <1>1, <1>3, <2>1, <2>2, <2>3, Sizes
<1>5. B % PageSize = 0
  <2>1. ((c + k) * PageSize + 0) % PageSize = 0
    BY <1>2, Quotient, Sizes
  <2>2. QED
    BY <1>3, <2>1
<1>6. (k - 1) * PageSize + PageSize = ((k + 1) - 1) * PageSize
  BY <1>2
<1>7. k < l - c => c + k < l
  BY <1>1
<1> HIDE DEF K, B, L, head
<1>8. /\ head + K \in Nat /\ a + (head + K) = B /\ B <= a + n
      /\ k < l - c => B + PageSize <= a + n
  BY <1>1, <1>2, <1>3, <1>4, <1>7, Sizes
<1>9. QED
  BY <1>2, <1>3, <1>5, <1>6, <1>8 DEF K, B, head

LEMMA ChainOne ==
  ASSUME NEW t \in Transfer
  PROVE  /\ <<t>> \in Seq(Transfer) /\ DOMAIN <<t>> = {1} /\ <<t>>[1] = t
         /\ Chained(<<t>>, t.from, t.from + t.n)
<1>1. <<t>> \in Seq(Transfer) /\ Len(<<t>>) = 1 /\ DOMAIN <<t>> = {1} /\ <<t>>[1] = t
      /\ <<t>> # << >>
  OBVIOUS
<1>2. QED
  BY <1>1 DEF Chained

LEMMA ChainNone ==
  ASSUME NEW lo
  PROVE  /\ << >> \in Seq(Transfer) /\ Chained(<< >>, lo, lo) /\ DOMAIN << >> = {}
BY DEF Chained

(* eeprom_write_bank.                                                      *)
LEMMA BankWriteMakes ==
  ASSUME NEW ad, NEW nm \in Nat, NEW chips, NEW part, OnChip(part, ad, nm, chips)
  PROVE  Makes(BankWrite(part), part, ad, nm, chips)
<1> DEFINE a == part.a
           n == part.n
           c == part.a \div PageSize
           l == (part.a + part.n) \div PageSize
           head == Min({part.n, PageSize - (part.a % PageSize)})
           full == Max({l - c - 1, 0})
           Blk(k, m) == Part(part.chip, ((c + k) * PageSize) % Bank, m,
                             part.from + head + (k - 1) * PageSize)
           p1 == <<Part(part.chip, part.a, head, part.from)>>
           p2 == [k \in 1 .. full |-> Blk(k, PageSize)]
           p3 == IF l = c + full + 1 THEN <<Blk(full + 1, (part.a + part.n) % PageSize)>>
                 ELSE << >>
           mid == part.from + head
           far == part.from + head + full * PageSize
<1>1. BankWrite(part) = p1 \o p2 \o p3
  BY Zenon DEF BankWrite
<1>2. /\ part.chip \in {1, 2} /\ a \in Nat /\ a \in 0 .. Bank - 1 /\ n \in Nat /\ part.from \in Nat
      /\ a + n <= Bank
  BY DEF OnChip
<1>3. /\ c \in Nat /\ l \in Nat /\ c <= l
      /\ l = c => (a % PageSize) + n < PageSize
      /\ l > c => PageSize - (a % PageSize) \in 1 .. n
      /\ a % PageSize \in Nat /\ a % PageSize < PageSize
      /\ (a + n) % PageSize \in Nat /\ (a + n) % PageSize < PageSize
  <2>1. a + n \in Nat
    BY <1>2
  <2>2. QED
    BY <1>2, <2>1, Cover, Division
<1>4. /\ head = IF l = c THEN n ELSE PageSize - (a % PageSize)
      /\ full = IF l = c THEN 0 ELSE l - c - 1
      /\ head \in Nat /\ full \in Nat /\ head <= n
      /\ (a % PageSize) + head <= PageSize
  <2> DEFINE o == a % PageSize
  <2>1. /\ o \in Nat /\ o < PageSize /\ (l = c => o + n < PageSize)
        /\ l > c => PageSize - o \in 1 .. n
    BY <1>3
  <2>2. /\ head = IF n <= PageSize - o THEN n ELSE PageSize - o
        /\ full = IF l - c - 1 <= 0 THEN 0 ELSE l - c - 1
    <3>1. PageSize - o \in Int /\ l - c - 1 \in Int /\ n \in Int /\ 0 \in Int
      BY <1>2, <1>3, <2>1, Sizes
    <3>2. QED
      BY <3>1, MinMax
  <2> HIDE DEF o, head, full, l, c, a, n
  <2>3. QED
    BY <1>2, <1>3, <2>1, <2>2, Sizes DEF o

<1>5. /\ Part(part.chip, a, head, part.from) \in Transfer
      /\ Fits(Part(part.chip, a, head, part.from), ad, nm, chips)
  <2>1. 0 \in Nat /\ head \in 0 .. PageSize /\ 0 + head <= part.n /\ a = part.a + 0
        /\ part.from = part.from + 0
    BY <1>2, <1>3, <1>4, Sizes
  <2>2. Part(part.chip, a, head, part.from + 0) \in Transfer
        /\ Fits(Part(part.chip, a, head, part.from + 0), ad, nm, chips)
    BY <1>2, <1>4, <2>1, PartFits
  <2>3. QED
    BY <2>1, <2>2
<1> HIDE DEF c, l, head, full, Blk
<1>6. ASSUME NEW k \in 1 .. l - c, NEW m \in 0 .. PageSize,
             \/ k < l - c /\ m = PageSize
             \/ k = l - c /\ m = (a + n) % PageSize
      PROVE  /\ Blk(k, m) \in Transfer /\ Fits(Blk(k, m), ad, nm, chips)
             /\ Blk(k, m).n = m /\ Blk(k, m).from = mid + (k - 1) * PageSize
             /\ mid + (k - 1) * PageSize \in Nat
             /\ k < l - c => (mid + (k - 1) * PageSize) + PageSize = mid + ((k + 1) - 1) * PageSize
             /\ k = l - c => (mid + (k - 1) * PageSize) + m = part.from + n
  <2> USE DEF c, l, head, full, Blk
  <2> DEFINE K == (k - 1) * PageSize
             B == (c + k) * PageSize
             d == head + K
  <2>1. /\ d \in Nat /\ a + d = B /\ B \in Nat /\ K \in Nat /\ B <= a + n
        /\ (k < l - c => B + PageSize <= a + n) /\ B % PageSize = 0
        /\ K + PageSize = ((k + 1) - 1) * PageSize
    <3>1. head = PageSize - (a % PageSize)
      BY <1>3, <1>4
    <3> HIDE DEF head, full, Blk, p1, p2, p3, mid, far
    <3>2. QED
      BY <1>2, <3>1, Block
  <2>2. k = l - c => B = l * PageSize /\ a + n = B + ((a + n) % PageSize)
    <3>1. k = l - c => c + k = l
      BY <1>3
    <3>2. a + n = l * PageSize + ((a + n) % PageSize)
      BY <1>2, Cover
    <3>3. QED
      BY <3>1, <3>2
  <2> HIDE DEF K, B, head, l, c, full
  <2>3. /\ d + m <= n
        /\ k = l - c => d + m = n
    <3>1. /\ a \in Nat /\ n \in Nat /\ k \in Int /\ l - c \in Int /\ m \in Nat
          /\ d \in Nat /\ B \in Nat /\ a + d = B /\ PageSize \in Nat
      BY <1>2, <1>3, <2>1, Sizes
    <3>2. k < l - c => m = PageSize /\ B + PageSize <= a + n
      BY <1>6, <2>1, <3>1
    <3>3. k = l - c => a + n = B + m
      BY <1>6, <2>2, <3>1
    <3>4. k < l - c \/ k = l - c
      BY <1>6
    <3> HIDE DEF a, n, d
    <3>5. QED
      BY <3>1, <3>2, <3>3, <3>4
  <2> DEFINE A == B % Bank
  <2>4. /\ A \in 0 .. Bank - 1 /\ (m = 0 \/ A = a + d)
        /\ (A % PageSize) + m <= PageSize
    <3>1. B < Bank => B % Bank = B
      BY <2>1, BankOf, Sizes
    <3>2. m # 0 => B < Bank
      BY <1>2, <1>6, <2>1, <2>3, Sizes
    <3>3. B % Bank \in 0 .. Bank - 1
      <4> DEFINE b == Bank
      <4>1. b \in Nat \ {0}
        BY Sizes
      <4> HIDE DEF b
      <4>2. B % b \in 0 .. b - 1
        BY <2>1, <4>1, Z3
      <4>3. QED
        BY <4>2 DEF b
    <3>4. m # 0 => A % PageSize = 0
      BY <2>1, <3>1, <3>2
    <3>5. A % PageSize \in Nat /\ A % PageSize < PageSize
      BY <3>3, Division, Sizes
    <3> HIDE DEF A
    <3>6. (A % PageSize) + m <= PageSize
      BY <3>4, <3>5, Sizes
    <3>7. QED
      BY <2>1, <3>1, <3>2, <3>3, <3>6 DEF A
  <2>5. /\ Part(part.chip, A, m, part.from + d) \in Transfer
        /\ Fits(Part(part.chip, A, m, part.from + d), ad, nm, chips)
    <3> HIDE DEF A, d
    <3>1. QED
      BY <2>1, <2>3, <2>4, PartFits
  <2>6. part.from + d = part.from + head + K /\ part.from + d = mid + K
    BY <1>2, <1>4, <2>1
  <2>7. Blk(k, m) = Part(part.chip, A, m, part.from + d)
    BY <2>6 DEF A, B, K, c
  <2>8. Blk(k, m).n = m /\ Blk(k, m).from = mid + K
    BY <2>6, <2>7 DEF Part
  <2>9. /\ mid + K \in Nat
        /\ (mid + K) + PageSize = mid + (K + PageSize)
        /\ k = l - c => (mid + K) + m = part.from + n
    <3>1. /\ part.from \in Nat /\ head \in Nat /\ K \in Nat /\ m \in Nat /\ n \in Nat
          /\ k = l - c => head + K + m = n
      BY <1>2, <1>4, <2>1, <2>3, Sizes
    <3>2. PageSize \in Nat
      BY Sizes
    <3> HIDE DEF n
    <3>3. QED
      BY <3>1, <3>2
  <2> HIDE DEF mid, Blk
  <2>10. QED
    BY <2>1, <2>5, <2>7, <2>8, <2>9 DEF K

<1>7. p1 \in Seq(Transfer) /\ Chained(p1, part.from, mid)
      /\ \A k \in DOMAIN p1 : Fits(p1[k], ad, nm, chips)
  <2> DEFINE t == Part(part.chip, a, head, part.from)
  <2>1. t \in Transfer /\ Fits(t, ad, nm, chips) /\ t.from = part.from /\ t.n = head
    BY <1>5 DEF Part
  <2> HIDE DEF t
  <2>2. /\ <<t>> \in Seq(Transfer) /\ DOMAIN <<t>> = {1} /\ <<t>>[1] = t
        /\ Chained(<<t>>, part.from, part.from + head)
    BY <2>1, ChainOne
  <2>3. QED
    BY <2>1, <2>2 DEF t
<1>8. \A k \in 1 .. full : k \in 1 .. l - c /\ k < l - c
  BY <1>3, <1>4
<1>9. ASSUME NEW k \in 1 .. full
      PROVE  /\ p2[k] \in Transfer /\ Fits(p2[k], ad, nm, chips)
             /\ p2[k].n = PageSize /\ p2[k].from = mid + (k - 1) * PageSize
             /\ p2[k].from + p2[k].n = mid + ((k + 1) - 1) * PageSize
  <2>1. k \in 1 .. l - c /\ k < l - c /\ PageSize \in 0 .. PageSize
    BY <1>4, <1>8, Sizes
  <2>2. p2[k] = Blk(k, PageSize)
    OBVIOUS
  <2>3. /\ Blk(k, PageSize) \in Transfer /\ Fits(Blk(k, PageSize), ad, nm, chips)
        /\ Blk(k, PageSize).n = PageSize /\ Blk(k, PageSize).from = mid + (k - 1) * PageSize
        /\ (mid + (k - 1) * PageSize) + PageSize = mid + ((k + 1) - 1) * PageSize
    <3> DEFINE m == PageSize
    <3>1. m \in 0 .. PageSize /\ m = PageSize
      BY <2>1
    <3> HIDE DEF mid, n, a, m
    <3>2. /\ Blk(k, m) \in Transfer /\ Fits(Blk(k, m), ad, nm, chips)
          /\ Blk(k, m).n = m /\ Blk(k, m).from = mid + (k - 1) * PageSize
          /\ (mid + (k - 1) * PageSize) + PageSize = mid + ((k + 1) - 1) * PageSize
      BY <1>6, <2>1, <3>1
    <3>3. QED
      BY <3>1, <3>2
  <2> HIDE DEF p2, mid
  <2>4. QED
    BY <2>2, <2>3
<1>10. p2 \in Seq(Transfer) /\ Chained(p2, mid, far)
      /\ \A k \in DOMAIN p2 : Fits(p2[k], ad, nm, chips)
  <2>1. p2 \in [1 .. full -> Transfer] /\ DOMAIN p2 = 1 .. full
    BY <1>9
  <2> HIDE DEF p2
  <2>2. p2 \in Seq(Transfer) /\ Len(p2) = full
    <3>1. full \in Nat
      BY <1>4
    <3>2. p2 \in Seq(Transfer)
      BY <2>1, <3>1, SeqDef
    <3>3. QED
      BY <2>1, <3>1, <3>2, LenProperties
  <2>3. p2 = << >> <=> full = 0
    BY <2>2, EmptySeq
  <2>4. mid \in Nat
    BY <1>2, <1>4
  <2> HIDE DEF head, full, mid, l, c
  <2>5. ASSUME NEW k \in 1 .. full
        PROVE  p2[k].from = IF k = 1 THEN mid ELSE p2[k - 1].from + p2[k - 1].n
    <3>1. CASE k = 1
      <4>1. p2[k].from = mid + (1 - 1) * PageSize
        BY <1>9, <3>1
      <4>2. (1 - 1) * PageSize = 0
        BY Sizes
      <4>3. QED
        BY <2>4, <3>1, <4>1, <4>2
    <3>2. CASE k # 1
      <4>1. k - 1 \in 1 .. full /\ (k - 1) + 1 = k
        BY <1>4, <3>2
      <4>2. p2[k - 1].from + p2[k - 1].n = mid + (((k - 1) + 1) - 1) * PageSize
        BY <1>9, <4>1
      <4>3. p2[k].from = mid + (k - 1) * PageSize
        BY <1>9
      <4>4. QED
        BY <3>2, <4>1, <4>2, <4>3
    <3>3. QED
      BY <3>1, <3>2
  <2>6. far = IF p2 = << >> THEN mid ELSE p2[Len(p2)].from + p2[Len(p2)].n
    <3>1. far = mid + full * PageSize
      BY DEF mid
    <3>2. CASE full = 0
      <4>1. full * PageSize = 0
        BY <3>2, Sizes
      <4>2. QED
        BY <2>3, <2>4, <3>1, <3>2, <4>1
    <3>3. CASE full # 0
      <4>1. full \in 1 .. full /\ (full + 1) - 1 = full
        <5>1. full \in Nat
          BY <1>4
        <5>2. QED
          BY <3>3, <5>1
      <4>2. p2[full].from + p2[full].n = mid + ((full + 1) - 1) * PageSize
        BY <1>9, <4>1
      <4>3. QED
        BY <2>2, <2>3, <3>1, <3>3, <4>1, <4>2
    <3>4. QED
      BY <3>2, <3>3
  <2>7. QED
    BY <1>9, <2>1, <2>2, <2>5, <2>6 DEF Chained
<1>11. p3 \in Seq(Transfer) /\ Chained(p3, far, part.from + n)
      /\ \A k \in DOMAIN p3 : Fits(p3[k], ad, nm, chips)
  <2>1. CASE l = c
    <3>1. p3 = << >> /\ full = 0
      BY <1>3, <1>4, <2>1
    <3>2. far = part.from + n
      <4>1. head = n
        BY <1>4, <2>1
      <4>2. full * PageSize = 0
        BY <3>1, Sizes
      <4> HIDE DEF head, full, n
      <4>3. QED
        BY <1>2, <4>1, <4>2
    <3> HIDE DEF p3, far
    <3>3. QED
      BY <3>1, <3>2, ChainNone
  <2>2. CASE l # c
    <3> DEFINE m == (part.a + part.n) % PageSize
               t == Blk(full + 1, m)
    <3>1. /\ full + 1 = l - c /\ l = c + full + 1 /\ full + 1 \in 1 .. l - c
          /\ m \in 0 .. PageSize /\ m = (a + n) % PageSize
      <4>1. /\ full = l - c - 1 /\ m \in Nat /\ m < PageSize
        BY <1>3, <1>4, <2>2
      <4> HIDE DEF full, l, c
      <4>2. QED
        BY <1>3, <2>2, <4>1, Sizes
    <3>2. p3 = <<t>>
      BY <3>1
    <3>3. (full + 1) - 1 = full
      BY <1>4
    <3> HIDE DEF Blk, full, l, c, m, p3
    <3>4. /\ t \in Transfer /\ Fits(t, ad, nm, chips)
          /\ t.n = m /\ t.from = mid + ((full + 1) - 1) * PageSize
          /\ (mid + ((full + 1) - 1) * PageSize) + m = part.from + n
      BY <1>6, <3>1
    <3>5. t.from = far /\ t.from + t.n = part.from + n
      <4>1. far = mid + full * PageSize
        OBVIOUS
      <4> HIDE DEF far, mid, t
      <4>2. QED
        BY <3>3, <3>4, <4>1
    <3> HIDE DEF t, far, mid
    <3>6. /\ <<t>> \in Seq(Transfer) /\ DOMAIN <<t>> = {1} /\ <<t>>[1] = t
          /\ Chained(<<t>>, far, part.from + n)
      BY <3>4, <3>5, ChainOne
    <3>7. QED
      BY <3>2, <3>4, <3>6
  <2>3. QED
    BY <2>1, <2>2
<1>12. QED
  <2> HIDE DEF p1, p2, p3, mid, far
  <2>1. /\ p1 \o p2 \in Seq(Transfer) /\ Chained(p1 \o p2, part.from, far)
        /\ \A k \in DOMAIN (p1 \o p2) : Fits((p1 \o p2)[k], ad, nm, chips)
    BY <1>7, <1>10, ChainConcat
  <2> DEFINE q == p1 \o p2
  <2> HIDE DEF q
  <2>2. /\ q \o p3 \in Seq(Transfer) /\ Chained(q \o p3, part.from, part.from + n)
        /\ \A k \in DOMAIN (q \o p3) : Fits((q \o p3)[k], ad, nm, chips)
    <3>1. /\ q \in Seq(Transfer) /\ Chained(q, part.from, far)
          /\ \A k \in DOMAIN q : Fits(q[k], ad, nm, chips)
      BY <2>1 DEF q
    <3> HIDE DEF n
    <3>2. QED
      BY <1>11, <3>1, ChainConcat
  <2>3. QED
    BY <1>1, <2>2 DEF q, Makes

(* The parts a call is made in.                                            *)
LEMMA PartOnChip ==
  ASSUME NEW ad \in Nat, NEW nm \in Nat, NEW chips \in {1, 2}, ad + nm <= chips * Bank,
         NEW c \in {1, 2}, NEW a \in 0 .. Bank - 1, NEW n \in Nat, NEW from \in Nat,
         a + n <= Bank, from + n <= nm,
         n = 0 \/ ad + from = (IF c = 1 THEN a ELSE Bank + a)
  PROVE  OnChip(Part(c, a, n, from), ad, nm, chips)
<1> DEFINE part == Part(c, a, n, from)
<1>1. /\ part.chip = c /\ part.a = a /\ part.n = n /\ part.from = from
      /\ part \in [chip : {1, 2}, a : 0 .. Bank - 1, n : Nat, from : Nat]
  BY DEF Part
<1> HIDE DEF part
<1>2. ASSUME NEW i \in 1 .. n
      PROVE  /\ Place(ad, from + i) = <<c, a + i - 1>> /\ from + i \in 1 .. nm
             /\ Place(ad, from + i)[1] \in 1 .. chips
  <2>1. from + i \in 1 .. nm
    OBVIOUS
  <2> DEFINE j == from + i
  <2>2. /\ ad + j - 1 < Bank => Place(ad, j) = <<1, ad + j - 1>>
        /\ ~ (ad + j - 1 < Bank) => Place(ad, j) = <<2, ad + j - 1 - Bank>>
        /\ Place(ad, j)[1] \in 1 .. chips
    <3> HIDE DEF j
    <3>1. QED
      BY <2>1, PlaceFacts DEF j
  <2>3. CASE c = 1
    <3>1. ad + j - 1 = a + i - 1 /\ a + i - 1 < Bank
      BY <2>3, Sizes
    <3>2. QED
      BY <2>1, <2>2, <2>3, <3>1
  <2>4. CASE c = 2
    <3>1. ad + j - 1 - Bank = a + i - 1 /\ ~ (ad + j - 1 < Bank)
      BY <2>4, Sizes
    <3>2. QED
      BY <2>1, <2>2, <2>4, <3>1
  <2>5. QED
    BY <2>3, <2>4
<1>3. c \in 1 .. chips \/ n = 0
  <2>1. n # 0 => 1 \in 1 .. n
    OBVIOUS
  <2>2. n # 0 => Place(ad, from + 1)[1] = c /\ Place(ad, from + 1)[1] \in 1 .. chips
    BY <1>2, <2>1
  <2>3. QED
    BY <2>2
<1>4. QED
  BY <1>1, <1>2, <1>3 DEF OnChip, part

LEMMA Parts ==
  ASSUME NEW ad \in 0 .. 2 * Bank - 1, NEW nm \in 1 .. MaxNum, NEW chips \in {1, 2},
         ad + nm <= chips * Bank
  PROVE  /\ ad >= Bank => OnChip(Part(2, ad - Bank, nm, 0), ad, nm, chips)
         /\ ad < Bank /\ ad + nm >= Bank =>
              /\ OnChip(Part(1, ad, Bank - ad, 0), ad, nm, chips)
              /\ OnChip(Part(2, 0, nm - (Bank - ad), Bank - ad), ad, nm, chips)
         /\ ad < Bank /\ ad + nm < Bank => OnChip(Part(1, ad, nm, 0), ad, nm, chips)
<1>1. ad \in Nat /\ nm \in Nat /\ Bank \in Nat /\ 0 < Bank /\ nm < Bank /\ nm # 0
  BY Sizes
<1>2. ad + nm <= 2 * Bank
  <2>1. CASE chips = 1
    BY <1>1, <2>1
  <2>2. CASE chips = 2
    BY <1>1, <2>2
  <2>3. QED
    BY <2>1, <2>2
<1>3. ASSUME ad >= Bank PROVE OnChip(Part(2, ad - Bank, nm, 0), ad, nm, chips)
  <2>1. /\ ad - Bank \in 0 .. Bank - 1 /\ (ad - Bank) + nm <= Bank /\ 0 + nm <= nm
        /\ ad + 0 = Bank + (ad - Bank) /\ 0 \in Nat
    BY <1>1, <1>2, <1>3
  <2>2. QED
    BY <1>1, <2>1, PartOnChip
<1>4. ASSUME ad < Bank, ad + nm >= Bank
      PROVE  /\ OnChip(Part(1, ad, Bank - ad, 0), ad, nm, chips)
             /\ OnChip(Part(2, 0, nm - (Bank - ad), Bank - ad), ad, nm, chips)
  <2>1. /\ ad \in 0 .. Bank - 1 /\ Bank - ad \in Nat /\ ad + (Bank - ad) <= Bank
        /\ 0 + (Bank - ad) <= nm /\ ad + 0 = ad /\ 0 \in Nat
    BY <1>1, <1>4
  <2>2. /\ 0 \in 0 .. Bank - 1 /\ nm - (Bank - ad) \in Nat /\ 0 + (nm - (Bank - ad)) <= Bank
        /\ (Bank - ad) + (nm - (Bank - ad)) <= nm /\ ad + (Bank - ad) = Bank + 0
    BY <1>1, <1>4
  <2> DEFINE k == Bank - ad
  <2> HIDE DEF k
  <2>3. OnChip(Part(1, ad, k, 0), ad, nm, chips)
    BY <1>1, <2>1, PartOnChip DEF k
  <2>4. OnChip(Part(2, 0, nm - k, k), ad, nm, chips)
    BY <1>1, <2>1, <2>2, PartOnChip DEF k
  <2>5. QED
    BY <2>3, <2>4 DEF k
<1>5. ASSUME ad < Bank, ad + nm < Bank PROVE OnChip(Part(1, ad, nm, 0), ad, nm, chips)
  <2>1. /\ ad \in 0 .. Bank - 1 /\ ad + nm <= Bank /\ 0 + nm <= nm /\ ad + 0 = ad /\ 0 \in Nat
    BY <1>1, <1>5
  <2>2. QED
    BY <1>1, <2>1, PartOnChip
<1>6. QED
  BY <1>3, <1>4, <1>5

(* eeprom_write and eeprom_read: a call's transfers carry all its bytes.   *)
LEMMA WritePlan ==
  ASSUME NEW ad \in 0 .. 2 * Bank - 1, NEW nm \in 1 .. MaxNum, NEW chips \in {1, 2},
         ad + nm <= chips * Bank
  PROVE  /\ Split("write", ad, nm) \in Seq(Transfer)
         /\ Chained(Split("write", ad, nm), 0, nm)
         /\ \A k \in DOMAIN Split("write", ad, nm) :
              Fits(Split("write", ad, nm)[k], ad, nm, chips)
<1> DEFINE p == Split("write", ad, nm)
<1> SUFFICES /\ p \in Seq(Transfer) /\ Chained(p, 0, nm)
             /\ \A k \in DOMAIN p : Fits(p[k], ad, nm, chips)
  OBVIOUS
<1>1. ad \in Nat /\ nm \in Nat /\ Bank \in Nat /\ 0 < Bank
  BY Sizes
<1>2. CASE ad >= Bank
  <2> DEFINE part == Part(2, ad - Bank, nm, 0)
  <2>1. OnChip(part, ad, nm, chips) /\ part.from = 0 /\ part.n = nm
    BY <1>2, Parts DEF Part
  <2>2. p = BankWrite(part)
    BY <1>2 DEF Split, Transfers
  <2> HIDE DEF p, part
  <2>3. Makes(BankWrite(part), part, ad, nm, chips)
    BY <1>1, <2>1, BankWriteMakes
  <2>4. 0 + nm = nm
    BY <1>1
  <2>5. QED
    BY <2>1, <2>2, <2>3, <2>4 DEF Makes
<1>3. CASE ad < Bank /\ ad + nm >= Bank
  <2> DEFINE one == Part(1, ad, Bank - ad, 0)
             two == Part(2, 0, nm - (Bank - ad), Bank - ad)
  <2>1. /\ OnChip(one, ad, nm, chips) /\ one.from = 0 /\ one.n = Bank - ad
        /\ OnChip(two, ad, nm, chips) /\ two.from = Bank - ad /\ two.n = nm - (Bank - ad)
    BY <1>3, Parts DEF Part
  <2>2. p = BankWrite(one) \o BankWrite(two)
    BY <1>1, <1>3 DEF Split, Transfers
  <2>3. 0 + (Bank - ad) = Bank - ad /\ (Bank - ad) + (nm - (Bank - ad)) = nm
    BY <1>1
  <2> HIDE DEF p, one, two
  <2>4. Makes(BankWrite(one), one, ad, nm, chips) /\ Makes(BankWrite(two), two, ad, nm, chips)
    BY <1>1, <2>1, BankWriteMakes
  <2> DEFINE q == BankWrite(one)
             r == BankWrite(two)
             k == Bank - ad
  <2>5. /\ q \in Seq(Transfer) /\ Chained(q, 0, k)
        /\ r \in Seq(Transfer) /\ Chained(r, k, nm)
        /\ \A j \in DOMAIN q : Fits(q[j], ad, nm, chips)
        /\ \A j \in DOMAIN r : Fits(r[j], ad, nm, chips)
    BY <2>1, <2>3, <2>4 DEF Makes
  <2>6. p = q \o r
    BY <2>2
  <2> HIDE DEF q, r, k
  <2>7. QED
    BY <2>5, <2>6, ChainConcat
<1>4. CASE ad < Bank /\ ad + nm < Bank
  <2> DEFINE part == Part(1, ad, nm, 0)
  <2>1. OnChip(part, ad, nm, chips) /\ part.from = 0 /\ part.n = nm
    BY <1>4, Parts DEF Part
  <2>2. p = BankWrite(part)
    BY <1>1, <1>4 DEF Split, Transfers
  <2> HIDE DEF p, part
  <2>3. Makes(BankWrite(part), part, ad, nm, chips)
    BY <1>1, <2>1, BankWriteMakes
  <2>4. 0 + nm = nm
    BY <1>1
  <2>5. QED
    BY <2>1, <2>2, <2>3, <2>4 DEF Makes
<1>5. QED
  BY <1>1, <1>2, <1>3, <1>4

LEMMA ReadPlan ==
  ASSUME NEW ad \in 0 .. 2 * Bank - 1, NEW nm \in 1 .. MaxNum, NEW chips \in {1, 2},
         ad + nm <= chips * Bank
  PROVE  /\ Split("read", ad, nm) \in Seq(Transfer)
         /\ Chained(Split("read", ad, nm), 0, nm)
         /\ \A k \in DOMAIN Split("read", ad, nm) :
              /\ Fits(Split("read", ad, nm)[k], ad, nm, chips)
              /\ Split("read", ad, nm)[k].n = 1
<1> DEFINE p == Split("read", ad, nm)
<1> SUFFICES /\ p \in Seq(Transfer) /\ Chained(p, 0, nm)
             /\ \A k \in DOMAIN p : Fits(p[k], ad, nm, chips) /\ p[k].n = 1
  OBVIOUS
<1>1. ad \in Nat /\ nm \in Nat /\ Bank \in Nat /\ 0 < Bank
  BY Sizes
<1>2. CASE ad >= Bank
  <2> DEFINE part == Part(2, ad - Bank, nm, 0)
  <2>1. OnChip(part, ad, nm, chips) /\ part.from = 0 /\ part.n = nm
    BY <1>2, Parts DEF Part
  <2>2. p = BankRead(part)
    BY <1>2 DEF Split, Transfers
  <2> HIDE DEF p, part
  <2>3. Makes(BankRead(part), part, ad, nm, chips)
    BY <1>1, <2>1, BankReadMakes
  <2>4. \A k \in DOMAIN BankRead(part) : BankRead(part)[k].n = 1
    BY <1>1, <2>1, BankReadMakes
  <2>5. 0 + nm = nm
    BY <1>1
  <2>6. QED
    BY <2>1, <2>2, <2>3, <2>4, <2>5 DEF Makes
<1>3. CASE ad < Bank /\ ad + nm >= Bank
  <2> DEFINE one == Part(1, ad, Bank - ad, 0)
             two == Part(2, 0, nm - (Bank - ad), Bank - ad)
  <2>1. /\ OnChip(one, ad, nm, chips) /\ one.from = 0 /\ one.n = Bank - ad
        /\ OnChip(two, ad, nm, chips) /\ two.from = Bank - ad /\ two.n = nm - (Bank - ad)
    BY <1>3, Parts DEF Part
  <2>2. p = BankRead(one) \o BankRead(two)
    BY <1>1, <1>3 DEF Split, Transfers
  <2>3. 0 + (Bank - ad) = Bank - ad /\ (Bank - ad) + (nm - (Bank - ad)) = nm
    BY <1>1
  <2> HIDE DEF p, one, two
  <2>4. /\ Makes(BankRead(one), one, ad, nm, chips) /\ Makes(BankRead(two), two, ad, nm, chips)
        /\ \A k \in DOMAIN BankRead(one) : BankRead(one)[k].n = 1
        /\ \A k \in DOMAIN BankRead(two) : BankRead(two)[k].n = 1
    BY <1>1, <2>1, BankReadMakes
  <2> DEFINE q == BankRead(one)
             r == BankRead(two)
             k == Bank - ad
  <2>5. /\ q \in Seq(Transfer) /\ Chained(q, 0, k)
        /\ r \in Seq(Transfer) /\ Chained(r, k, nm)
        /\ \A j \in DOMAIN q : Fits(q[j], ad, nm, chips) /\ q[j].n = 1
        /\ \A j \in DOMAIN r : Fits(r[j], ad, nm, chips) /\ r[j].n = 1
    BY <2>1, <2>3, <2>4 DEF Makes
  <2>6. p = q \o r
    BY <2>2
  <2> HIDE DEF q, r, k
  <2>7. QED
    BY <2>5, <2>6, ChainConcat
<1>4. CASE ad < Bank /\ ad + nm < Bank
  <2> DEFINE part == Part(1, ad, nm, 0)
  <2>1. OnChip(part, ad, nm, chips) /\ part.from = 0 /\ part.n = nm
    BY <1>4, Parts DEF Part
  <2>2. p = BankRead(part)
    BY <1>1, <1>4 DEF Split, Transfers
  <2> HIDE DEF p, part
  <2>3. Makes(BankRead(part), part, ad, nm, chips)
    BY <1>1, <2>1, BankReadMakes
  <2>4. \A k \in DOMAIN BankRead(part) : BankRead(part)[k].n = 1
    BY <1>1, <2>1, BankReadMakes
  <2>5. 0 + nm = nm
    BY <1>1
  <2>6. QED
    BY <2>1, <2>2, <2>3, <2>4, <2>5 DEF Makes
<1>5. QED
  BY <1>1, <1>2, <1>3, <1>4

-----------------------------------------------------------------------------
LEMMA HomeFacts ==
  ASSUME TypeOK, Planned
  PROVE  /\ num \in Nat /\ build.chips \in {1, 2}
         /\ \A i \in 1 .. num : /\ Home(i) = Place(addr, i) /\ Home(i) \in Cell
                                /\ Home(i)[1] \in Chips
                                /\ Home(i) = <<Home(i)[1], Home(i)[2]>>
         /\ \A i, j \in 1 .. num : Home(i) = Home(j) => i = j
<1>1. addr \in Nat /\ num \in Nat /\ build.chips \in {1, 2}
  BY Sizes DEF TypeOK
<1>2. addr + num <= build.chips * Bank
  BY DEF Planned
<1>3. \A i : Home(i) = Place(addr, i)
  BY DEF Home, Place
<1>4. ASSUME NEW i \in 1 .. num
      PROVE  /\ Home(i) \in Cell /\ Home(i)[1] \in Chips
             /\ Home(i) = <<Home(i)[1], Home(i)[2]>>
             /\ \A j \in 1 .. num : Home(j) = Home(i) => j = i
  <2>1. /\ Place(addr, i)[1] \in 1 .. build.chips /\ Place(addr, i)[2] \in 0 .. Bank - 1
        /\ Place(addr, i) = <<Place(addr, i)[1], Place(addr, i)[2]>>
        /\ \A j \in 1 .. num : Place(addr, j) = Place(addr, i) => j = i
    BY <1>1, <1>2, PlaceFacts
  <2>2. QED
    BY <1>3, <2>1 DEF Cell, Chips
<1>5. QED
  BY <1>1, <1>3, <1>4

(* The transfer under way.                                                 *)
LEMMA Current ==
  ASSUME IInv, pc # "idle"
  PROVE  /\ plan # << >> /\ Head(plan) = plan[1] /\ 1 \in DOMAIN plan
         /\ Head(plan) \in Transfer /\ Past = Head(plan).from
         /\ Past \in Nat /\ Past + Head(plan).n <= num /\ Head(plan).n \in 0 .. PageSize
         /\ Head(plan).a \in 0 .. Bank - 1
         /\ (Head(plan).a % PageSize) + Head(plan).n <= PageSize
         /\ op = "read" => Head(plan).n = 1
         /\ Selected \in Chips
         /\ \A i \in 1 .. Head(plan).n :
              /\ Past + i \in 1 .. num /\ Home(Past + i) = <<Selected, Head(plan).a + i - 1>>
              /\ Head(plan).a + i - 1 \in 0 .. Bank - 1
<1> DEFINE t == Head(plan)
<1>1. plan # << >> /\ plan \in Seq(Transfer) /\ Chained(plan, Past, num)
  BY DEF IInv, Stage, Planned
<1>2. t = plan[1] /\ 1 \in DOMAIN plan /\ t \in Transfer /\ Past = t.from
  BY <1>1, ChainTail
<1>3. Fits(t, addr, num, build.chips) /\ (op = "read" => t.n = 1)
  BY <1>2 DEF IInv, Planned
<1> HIDE DEF t
<1>4. /\ t.from \in Nat /\ t.n \in 0 .. PageSize /\ t.a \in 0 .. Bank - 1 /\ t.chip \in {1, 2}
      /\ t.from + t.n <= num /\ (t.a % PageSize) + t.n <= PageSize
      /\ t.chip \in 1 .. build.chips \/ t.n = 0
  BY <1>2, <1>3 DEF Fits, Transfer
<1>5. /\ Selected = IF build.chips = 1 THEN 1 ELSE t.chip
      /\ build.chips \in {1, 2} /\ num \in Nat
  BY HomeFacts DEF Selected, IInv, t
<1>6. Selected \in Chips
  BY <1>4, <1>5 DEF Chips
<1>7. t.n # 0 => Selected = t.chip
  BY <1>4, <1>5
<1>8. ASSUME NEW i \in 1 .. t.n
      PROVE  /\ Past + i \in 1 .. num /\ Home(Past + i) = <<Selected, t.a + i - 1>>
             /\ t.a + i - 1 \in 0 .. Bank - 1
  <2>1. t.from + i \in 1 .. num /\ t.n # 0
    BY <1>4, <1>5
  <2>2. Home(t.from + i) \in Cell /\ Home(t.from + i) = Place(addr, t.from + i)
    BY <2>1, HomeFacts DEF IInv
  <2>3. Place(addr, t.from + i) = <<t.chip, t.a + i - 1>>
    BY <1>3 DEF Fits
  <2>4. <<t.chip, t.a + i - 1>> \in Cell
    BY <2>2, <2>3
  <2>5. t.a + i - 1 \in 0 .. Bank - 1
    BY <2>4 DEF Cell
  <2>6. QED
    BY <1>2, <1>7, <2>1, <2>2, <2>3, <2>5
<1>9. QED
  BY <1>1, <1>2, <1>3, <1>4, <1>6, <1>8 DEF t

LEMMA PlanTypes ==
  ASSUME NEW p, NEW ad, NEW nm, NEW chips, \A k \in DOMAIN p : Fits(p[k], ad, nm, chips)
  PROVE  \A t \in ToSet(p) : /\ t.a \in 0 .. Bank - 1
                             /\ t.n \in 0 .. PageSize
                             /\ t.from + t.n <= nm
BY DEF ToSet, Fits, Transfer

LEMMA PastFacts ==
  ASSUME IInv
  PROVE  Past \in 0 .. num
<1>1. num \in Nat
  BY HomeFacts DEF IInv
<1>2. CASE pc = "idle"
  BY <1>1, <1>2 DEF IInv, Stage, Past
<1>3. CASE pc # "idle"
  BY <1>1, <1>3, Current
<1>4. QED
  BY <1>2, <1>3

(* When a transfer is over.                                                *)
LEMMA NextTransfer ==
  ASSUME IInv, pc # "idle", Done, UNCHANGED <<build, addr, num, op>>
  PROVE  /\ Planned' /\ Past' = Past + Head(plan).n
         /\ pc' \in {"idle", "poll"} /\ sent' = 0 /\ (pc' = "idle" <=> plan' = << >>)
         /\ wait_eeprom_idle' \in BOOLEAN /\ ptr' = 0 /\ ptr' \in 0 .. Bank - 1
<1>1. plan # << >> /\ plan \in Seq(Transfer) /\ Chained(plan, Past, num)
  BY DEF IInv, Stage, Planned
<1>2. /\ Tail(plan) \in Seq(Transfer)
      /\ \A k \in DOMAIN Tail(plan) : k + 1 \in DOMAIN plan /\ Tail(plan)[k] = plan[k + 1]
      /\ Chained(Tail(plan), Past + Head(plan).n, num)
      /\ Tail(plan) = << >> => num = Past + Head(plan).n
      /\ Tail(plan) # << >> => Head(Tail(plan)).from = Past + Head(plan).n
  BY <1>1, ChainTail
<1>3. /\ plan' = Tail(plan) /\ sent' = 0
      /\ pc' = IF plan' = << >> THEN "idle" ELSE "poll"
      /\ wait_eeprom_idle' \in BOOLEAN /\ ptr' = 0 /\ ptr' \in 0 .. Bank - 1
  BY Sizes DEF Done, IInv, TypeOK
<1>4. Past' = Past + Head(plan).n
  BY <1>2, <1>3 DEF Past
<1>5. Planned'
  <2>1. \A k \in DOMAIN plan : /\ Fits(plan[k], addr, num, build.chips)
                               /\ op = "read" => plan[k].n = 1
    BY DEF IInv, Planned
  <2>2. addr + num <= build.chips * Bank
    BY DEF IInv, Planned
  <2>3. \A k \in DOMAIN plan' : /\ Fits(plan'[k], addr, num, build.chips)
                                /\ op = "read" => plan'[k].n = 1
    BY <1>2, <1>3, <2>1
  <2>4. Chained(plan', Past', num) /\ plan' \in Seq(Transfer)
    BY <1>2, <1>3, <1>4
  <2>5. QED
    BY <2>2, <2>3, <2>4, Zenon DEF Planned
<1>6. QED
  BY <1>3, <1>4, <1>5

-----------------------------------------------------------------------------
LEMMA InitInv == Init => IInv
<1> SUFFICES ASSUME Init PROVE IInv
  OBVIOUS
<1>1. /\ build.chips \in {1, 2} /\ mem = [x \in Cell |-> Old] /\ DOMAIN latch = {} /\ DOMAIN got = {}
      /\ plan = << >> /\ num = 0 /\ addr = 0 /\ pc = "idle" /\ op = "none" /\ sent = 0
  BY DEF Init
<1>2. Past = 0 /\ build.chips * Bank \in Nat /\ 0 < build.chips * Bank
  <2>1. build.chips * Bank \in Nat /\ 0 < build.chips * Bank
    BY <1>1, Sizes
  <2>2. QED
    BY <1>1, <2>1 DEF Past
<1>3. Planned
  BY <1>1, <1>2, ChainNone DEF Planned
<1>4. TypeOK
  <2>1. mem \in [Cell -> 0 .. Stray] /\ 0 \in 0 .. Bank - 1 /\ 0 \in 0 .. MaxNum
        /\ 0 \in 0 .. build.chips * Bank - 1 /\ 0 \in 0 .. PageSize
    BY <1>1, <1>2, Sizes DEF Old
  <2>2. \A t \in ToSet(plan) : /\ t.a \in 0 .. Bank - 1
                               /\ t.n \in 0 .. PageSize
                               /\ t.from + t.n <= num
    BY <1>3, PlanTypes DEF Planned
  <2>3. missed \subseteq 1 .. num /\ astray \subseteq 1 .. num /\ cycle \subseteq Chips
    BY DEF Init
  <2>4. QED
    BY <1>1, <2>1, <2>2, <2>3 DEF Init, TypeOK
<1>5. Stage /\ Latched /\ Contents /\ Complete /\ Fetched
  BY <1>1 DEF Stage, Latched, Contents, Complete, Fetched, Proper
<1>6. Ordered
  BY <1>1 DEF Ordered
<1>7. QED
  BY <1>3, <1>4, <1>5, <1>6 DEF IInv

(* A call of n bytes at a has the transfers of its plan still to make.     *)
LEMMA BeginKeeps ==
  ASSUME IInv, NEW o \in {"write", "read"}, NEW a \in 0 .. 2 * Bank - 1, NEW n \in 1 .. MaxNum,
         Begin(o, a, n),
         plan' \in Seq(Transfer), Chained(plan', 0, n),
         \A k \in DOMAIN plan' : /\ Fits(plan'[k], a, n, build.chips)
                                 /\ o = "read" => plan'[k].n = 1,
         got' = IF o = "write" THEN << >> ELSE [i \in 1 .. n |-> Kept]
  PROVE  IInv'
<1>1. /\ pc = "idle" /\ pc' = "poll" /\ op' = o /\ addr' = a /\ num' = n
      /\ mem' = [x \in Cell |-> Old] /\ latch' = [x \in DOMAIN latch |-> Old]
      /\ missed' = {} /\ astray' = {} /\ a + n <= build.chips * Bank
      /\ UNCHANGED <<build, ptr, cycle, held, sent, wait_eeprom_idle>>
  BY DEF Begin
<1>2. plan' # << >> /\ Past' = 0
  <2>1. plan' # << >>
    BY DEF Chained
  <2>2. Head(plan').from = 0
    BY <2>1, ChainTail
  <2>3. QED
    BY <2>1, <2>2 DEF Past
<1>3. Planned'
  BY <1>1, <1>2 DEF Planned
<1>4. TypeOK'
  <2>1. mem' \in [Cell' -> 0 .. Stray] /\ Cell' = Cell /\ Chips' = Chips
    BY <1>1, Sizes DEF Old, Cell, Chips
  <2>2. \A t \in ToSet(plan') : /\ t.a \in 0 .. Bank - 1
                                /\ t.n \in 0 .. PageSize
                                /\ t.from + t.n <= num'
    BY <1>1, PlanTypes
  <2>3. addr' \in 0 .. build'.chips * Bank - 1 /\ num' \in 0 .. MaxNum
    <3>1. build.chips \in {1, 2}
      BY DEF IInv, TypeOK
    <3>2. CASE build.chips = 1
      BY <1>1, <3>2, Sizes
    <3>3. CASE build.chips = 2
      BY <1>1, <3>3, Sizes
    <3>4. QED
      BY <3>1, <3>2, <3>3
  <2>4. DOMAIN latch' \subseteq Cell /\ \A x \in DOMAIN latch' : latch'[x] \in 0 .. Stray
    BY <1>1, Sizes DEF IInv, TypeOK, Old
  <2>5. missed' \subseteq 1 .. num' /\ astray' \subseteq 1 .. num' /\ op' \in {"none", "write", "read", "cut"}
        /\ pc' \in {"idle", "poll", "address", "data", "receive"}
    BY <1>1
  <2>6. \A i \in DOMAIN got' : got'[i] \in Cell \cup {Kept, Wrong}
    OBVIOUS
  <2>7. /\ build' \in [dev : {"FRAM", "EEPROM"}, chips : {1, 2}]
        /\ ptr' \in 0 .. Bank - 1 /\ cycle' \subseteq Chips /\ held' \in BOOLEAN
        /\ sent' \in 0 .. PageSize /\ wait_eeprom_idle' \in BOOLEAN
    BY <1>1 DEF IInv, TypeOK
  <2>8. QED
    BY <2>1, <2>2, <2>3, <2>4, <2>5, <2>6, <2>7 DEF TypeOK
<1>5. Stage'
  BY <1>1, <1>2 DEF IInv, Stage
<1>6. Latched'
  <2>1. \A x \in DOMAIN latch' : x[1] \in cycle'
    BY <1>1 DEF IInv, Latched
  <2>2. build'.dev = "FRAM" => DOMAIN latch' = {}
    BY <1>1 DEF IInv, Latched
  <2>3. QED
    BY <1>1, <2>1, <2>2 DEF Latched
<1>7. Contents'
  <2>1. \A x \in Cell' : mem'[x] = Old
    BY <1>1 DEF Cell, Chips
  <2>2. \A x \in DOMAIN latch' : latch'[x] = Old /\ mem'[x] = Old
    BY <1>1 DEF IInv, TypeOK
  <2>3. QED
    BY <2>1, <2>2 DEF Contents, Proper
<1>8. Complete'
  BY <1>1, <1>2 DEF Complete
<1>9. \A j \in 1 .. num' : Home(j)' \in Cell
  <2> SUFFICES ASSUME NEW j \in 1 .. n PROVE Home(j)' \in Cell
    BY <1>1
  <2>1. build.chips \in {1, 2} /\ a \in Nat /\ n \in Nat
    BY DEF IInv, TypeOK
  <2>2. /\ Place(a, j)[1] \in 1 .. build.chips /\ Place(a, j)[2] \in 0 .. Bank - 1
        /\ Place(a, j) = <<Place(a, j)[1], Place(a, j)[2]>>
    BY <1>1, <2>1, PlaceFacts, SMTT(30)
  <2>3. Home(j)' = Place(a, j)
    BY <1>1 DEF Home, Place
  <2>4. QED
    BY <2>2, <2>3 DEF Cell, Chips
<1>10. Ordered'
  <2>1. \A j \in 1 .. num' : ~ Begun(j)'
    <3> SUFFICES ASSUME NEW j \in 1 .. num' PROVE ~ Begun(j)'
      OBVIOUS
    <3>1. mem'[Home(j)'] = Old /\ (Home(j)' \in DOMAIN latch' => latch'[Home(j)'] = Old)
      BY <1>1, <1>9
    <3>2. j # Old
      BY <1>1 DEF Old
    <3>3. QED
      BY <3>1, <3>2 DEF Begun
  <2>2. QED
    BY <2>1, Zenon DEF Ordered
<1>11. Fetched'
  <2>1. \A x \in Cell : mem'[x] = Old /\ (x \in DOMAIN latch' => latch'[x] = Old)
    BY <1>1
  <2>2. \A i \in Past' + 1 .. num' : Clean(Home(i))'
    BY <1>1, <1>2, <1>9, <2>1 DEF Clean
  <2>3. QED
    BY <1>1, <1>2, <2>2 DEF Fetched
<1>12. QED
  BY <1>3, <1>4, <1>5, <1>6, <1>7, <1>8, <1>10, <1>11 DEF IInv

LEMMA CallKeeps ==
  ASSUME IInv, NEW a \in 0 .. 2 * Bank - 1, NEW n \in 1 .. MaxNum,
         eeprom_write(a, n) \/ eeprom_read(a, n)
  PROVE  IInv'
<1>1. build.chips \in {1, 2}
  BY DEF IInv, TypeOK
<1>2. CASE eeprom_write(a, n)
  <2>1. /\ Begin("write", a, n) /\ plan' = Split("write", a, n) /\ got' = << >>
        /\ a + n <= build.chips * Bank
    BY <1>2 DEF eeprom_write, Begin
  <2>2. /\ plan' \in Seq(Transfer) /\ Chained(plan', 0, n)
        /\ \A k \in DOMAIN plan' : Fits(plan'[k], a, n, build.chips)
    BY <1>1, <2>1, WritePlan
  <2>3. QED
    BY <2>1, <2>2, BeginKeeps
<1>3. CASE eeprom_read(a, n)
  <2>1. /\ Begin("read", a, n) /\ plan' = Split("read", a, n)
        /\ got' = [i \in 1 .. n |-> Kept] /\ a + n <= build.chips * Bank
    BY <1>3 DEF eeprom_read, Begin
  <2>2. /\ plan' \in Seq(Transfer) /\ Chained(plan', 0, n)
        /\ \A k \in DOMAIN plan' : Fits(plan'[k], a, n, build.chips) /\ plan'[k].n = 1
    BY <1>1, <2>1, ReadPlan
  <2>3. QED
    BY <2>1, <2>2, BeginKeeps
<1>4. QED
  BY <1>2, <1>3

-----------------------------------------------------------------------------
LEMMA SameCall ==
  ASSUME UNCHANGED <<build, addr, num>>
  PROVE  /\ Cell' = Cell /\ Chips' = Chips
         /\ \A i : Home(i)' = Home(i)
         /\ \A i, j : Before(i, j)' <=> Before(i, j)
<1>1. Cell' = Cell /\ Chips' = Chips
  BY DEF Cell, Chips
<1>2. \A i : Home(i)' = Home(i)
  BY DEF Home
<1>3. \A i, j : Before(i, j)' <=> Before(i, j)
  BY <1>2 DEF Before
<1>4. QED
  BY <1>1, <1>2, <1>3

(* A step that leaves the buffer alone, and clean cells clean.             *)
LEMMA FetchedKept ==
  ASSUME IInv, UNCHANGED <<build, addr, num, op, got, missed, astray>>, Past' = Past,
         \A x \in Cell : Clean(x) => Clean(x)'
  PROVE  Fetched'
<1>1. \A i : Home(i)' = Home(i)
  BY SameCall
<1>2. SUFFICES ASSUME op = "read"
               PROVE  /\ DOMAIN got = 1 .. num
                      /\ \A i \in 1 .. num : got[i] = Kept \/ (i <= Past /\ Byte(i))
                      /\ \A i \in 1 .. Past : got[i] = Kept => i \in missed
                      /\ \A i \in Past + 1 .. num : Clean(Home(i))' \/ i \in astray
  BY <1>1 DEF Fetched, Byte, Kept, Wrong
<1>3. Past \in Nat /\ \A i \in 1 .. num : Home(i) \in Cell
  BY PastFacts, HomeFacts DEF IInv
<1>4. \A i \in Past + 1 .. num : i \in 1 .. num /\ (Clean(Home(i)) \/ i \in astray)
  <2>1. \A i \in Past + 1 .. num : Clean(Home(i)) \/ i \in astray
    BY <1>2 DEF IInv, Fetched
  <2>2. num \in Nat
    BY HomeFacts DEF IInv
  <2>3. \A i \in Past + 1 .. num : i \in 1 .. num
    BY <1>3, <2>2
  <2>4. QED
    BY <2>1, <2>3
<1>5. \A i \in Past + 1 .. num : Clean(Home(i))' \/ i \in astray
  BY <1>1, <1>3, <1>4 DEF Clean
<1>6. QED
  BY <1>2, <1>5 DEF IInv, Fetched

LEMMA SamePlan ==
  ASSUME UNCHANGED <<build, addr, num, op, plan>>, Planned
  PROVE  Planned' /\ Past' = Past /\ Selected' = Selected
<1>1. Past' = Past /\ Selected' = Selected
  BY DEF Past, Selected
<1>2. QED
  BY <1>1 DEF Planned

(* Some latched cells are programmed, they and perhaps more are dropped.   *)
LEMMA Settles ==
  ASSUME IInv, UNCHANGED <<build, addr, num>>, Writing' <=> Writing, NEW cells \in SUBSET DOMAIN latch,
         mem' = [x \in Cell |-> IF x \in cells THEN latch[x] ELSE mem[x]],
         DOMAIN latch' \subseteq DOMAIN latch \ cells,
         \A x \in DOMAIN latch' : latch'[x] = latch[x]
  PROVE  /\ mem' \in [Cell' -> 0 .. Stray]
         /\ DOMAIN latch' \subseteq Cell' /\ \A x \in DOMAIN latch' : latch'[x] \in 0 .. Stray
         /\ Contents' /\ Ordered'
<1>1. /\ Cell' = Cell /\ \A i : Home(i)' = Home(i)
      /\ \A i, j : Before(i, j)' <=> Before(i, j)
  BY SameCall
<1>2. /\ mem \in [Cell -> 0 .. Stray]
      /\ DOMAIN latch \subseteq Cell /\ \A x \in DOMAIN latch : latch[x] \in 0 .. Stray
  BY DEF IInv, TypeOK
<1>3. /\ \A x \in Cell : Proper(x, mem[x])
      /\ \A x \in DOMAIN latch : Proper(x, latch[x]) /\ (latch[x] = Old => mem[x] = Old)
  BY DEF IInv, Contents
<1>4. mem' \in [Cell' -> 0 .. Stray]
  BY <1>1, <1>2
<1>5. DOMAIN latch' \subseteq Cell' /\ \A x \in DOMAIN latch' : latch'[x] \in 0 .. Stray
  BY <1>1, <1>2
<1>6. Contents'
  <2>1. \A x \in Cell' : Proper(x, mem'[x])
    BY <1>1, <1>2, <1>3
  <2>2. \A x \in DOMAIN latch' : Proper(x, latch'[x]) /\ (latch'[x] = Old => mem'[x] = Old)
    BY <1>2, <1>3
  <2>3. num' = num
    OBVIOUS
  <2>4. QED
    BY <1>1, <2>1, <2>2, <2>3 DEF Contents, Proper
<1>7. Ordered'
  <2> SUFFICES ASSUME NEW i \in 1 .. num, NEW j \in 1 .. num, Before(i, j), Begun(j)'
               PROVE  mem'[Home(i)] = i
    BY <1>1 DEF Ordered
  <2>1. Home(i) \in Cell /\ Home(j) \in Cell /\ num \in Nat
    BY HomeFacts DEF IInv
  <2>2. mem'[Home(j)] = j \/ (Home(j) \in DOMAIN latch' /\ latch'[Home(j)] = j)
    BY <1>1 DEF Begun
  <2>3. mem[Home(j)] = j \/ (Home(j) \in DOMAIN latch /\ latch[Home(j)] = j)
    BY <2>1, <2>2
  <2>4. mem[Home(i)] = i
    BY <2>3 DEF IInv, Ordered, Begun
  <2>5. CASE Home(i) \in cells
    <3>1. latch[Home(i)] # Old
      BY <1>3, <2>1, <2>4, <2>5 DEF Old
    <3>2. Writing
      <4>1. j # Old /\ j # Stray
        BY <2>1, Sizes DEF Old, IInv, TypeOK
      <4>2. QED
        BY <1>3, <2>1, <2>3, <4>1 DEF Proper
    <3>3. latch[Home(i)] \in 1 .. num /\ Home(i) = Home(latch[Home(i)])
      BY <1>3, <2>5, <3>1, <3>2 DEF Proper
    <3>4. latch[Home(i)] = i
      BY <3>3, HomeFacts DEF IInv
    <3>5. QED
      BY <2>1, <2>5, <3>4
  <2>6. CASE Home(i) \notin cells
    BY <2>1, <2>4, <2>6
  <2>7. QED
    BY <2>5, <2>6
<1>8. QED
  BY <1>4, <1>5, <1>6, <1>7

LEMMA WaiterKeeps ==
  ASSUME IInv, Waiter
  PROVE  IInv'
<1>1. /\ UNCHANGED <<build, mem, ptr, bus, pc, call, plan, sent, got, missed, astray>>
      /\ wait_eeprom_idle' = TRUE
  BY DEF Waiter
<1>2. UNCHANGED <<build, mem, ptr, latch, cycle, held, pc, op, addr, num, plan, sent, got, missed, astray>>
  BY <1>1 DEF bus, call
<1>3. Planned' /\ Past' = Past /\ Selected' = Selected
  BY <1>2, SamePlan DEF IInv
<1>4. /\ Cell' = Cell /\ Chips' = Chips /\ \A i : Home(i)' = Home(i)
      /\ \A i, j : Before(i, j)' <=> Before(i, j)
  BY <1>2, SameCall
<1>5. TypeOK'
  BY <1>1, <1>2, <1>4 DEF IInv, TypeOK
<1>6. Stage' /\ Latched'
  BY <1>2, <1>3 DEF IInv, Stage, Latched
<1>7. Contents' /\ Complete'
  BY <1>2, <1>3, <1>4 DEF IInv, Contents, Proper, Writing, Complete, Safe, Taken
<1>8. Ordered' /\ Fetched'
  BY <1>2, <1>3, <1>4 DEF IInv, Ordered, Begun, Fetched, Byte, Clean
<1>9. QED
  BY <1>3, <1>5, <1>6, <1>7, <1>8 DEF IInv

LEMMA Keeps ==
  ASSUME IInv, UNCHANGED <<build, addr, num, mem>>, Writing' <=> Writing,
         DOMAIN latch' \subseteq DOMAIN latch, \A x \in DOMAIN latch' : latch'[x] = latch[x]
  PROVE  /\ mem' \in [Cell' -> 0 .. Stray]
         /\ DOMAIN latch' \subseteq Cell' /\ \A x \in DOMAIN latch' : latch'[x] \in 0 .. Stray
         /\ Contents' /\ Ordered'
<1>1. mem' = [x \in Cell |-> mem[x]]
  BY DEF IInv, TypeOK
<1> DEFINE cells == {}
<1>2. /\ cells \in SUBSET DOMAIN latch /\ DOMAIN latch' \subseteq DOMAIN latch \ cells
      /\ mem' = [x \in Cell |-> IF x \in cells THEN latch[x] ELSE mem[x]]
  BY <1>1
<1> HIDE DEF cells
<1>3. QED
  BY <1>2, Settles DEF Writing

LEMMA ReadyKeeps ==
  ASSUME IInv, Ready
  PROVE  IInv'
<1>1. /\ pc = "poll" /\ Selected \notin cycle /\ pc' = "address"
      /\ latch' = Restrict(latch, {x \in DOMAIN latch : x[1] \in cycle})
      /\ UNCHANGED <<build, mem, ptr, cycle, held, call, plan, sent, got, missed, astray,
                     wait_eeprom_idle>>
  BY DEF Ready
<1>2. UNCHANGED <<build, mem, ptr, cycle, held, op, addr, num, plan, sent, got, missed, astray,
                  wait_eeprom_idle>>
  BY <1>1 DEF call
<1>3. /\ DOMAIN latch' = {x \in DOMAIN latch : x[1] \in cycle}
      /\ \A x \in DOMAIN latch' : latch'[x] = latch[x]
  BY <1>1 DEF Restrict
<1>4. Planned' /\ Past' = Past /\ Selected' = Selected
  BY <1>2, SamePlan DEF IInv
<1>5. Cell' = Cell /\ Chips' = Chips /\ \A i : Home(i)' = Home(i)
  BY <1>2, SameCall
<1>6. /\ mem' \in [Cell' -> 0 .. Stray]
      /\ DOMAIN latch' \subseteq Cell' /\ \A x \in DOMAIN latch' : latch'[x] \in 0 .. Stray
      /\ Contents' /\ Ordered'
  BY <1>2, <1>3, Keeps DEF Writing
<1>7. TypeOK'
  BY <1>1, <1>2, <1>5, <1>6 DEF IInv, TypeOK
<1>8. Stage'
  BY <1>1, <1>2 DEF IInv, Stage
<1>9. Latched'
  BY <1>1, <1>2, <1>3, <1>4 DEF IInv, Latched
<1>10. Complete'
  <2> SUFFICES ASSUME op = "write", NEW i \in 1 .. Past PROVE Safe(i)'
    BY <1>1, <1>2, <1>4 DEF Complete
  <2>1. Safe(i)
    BY DEF IInv, Complete
  <2>2. QED
    BY <1>2, <1>3, <1>5, <2>1 DEF Safe
<1>11. Fetched'
  <2>1. \A x \in Cell : Clean(x) => Clean(x)'
    BY <1>2, <1>3 DEF Clean
  <2>2. QED
    BY <1>2, <1>4, <2>1, FetchedKept
<1>12. QED
  BY <1>4, <1>6, <1>7, <1>8, <1>9, <1>10, <1>11 DEF IInv

LEMMA AddressKeeps ==
  ASSUME IInv, Address
  PROVE  IInv'
<1>1. /\ pc = "address" /\ ptr' = Head(plan).a
      /\ pc' = IF op = "write" THEN "data" ELSE "receive"
      /\ UNCHANGED <<build, mem, latch, cycle, held, op, addr, num, plan, sent, got, missed, astray,
                     wait_eeprom_idle>>
  BY DEF Address, call
<1>2. Planned' /\ Past' = Past /\ Selected' = Selected
  BY <1>1, SamePlan DEF IInv
<1>3. Cell' = Cell /\ Chips' = Chips /\ \A i : Home(i)' = Home(i)
  BY <1>1, SameCall
<1>4. /\ mem' \in [Cell' -> 0 .. Stray]
      /\ DOMAIN latch' \subseteq Cell' /\ \A x \in DOMAIN latch' : latch'[x] \in 0 .. Stray
      /\ Contents' /\ Ordered'
  BY <1>1, Keeps DEF Writing
<1>5. /\ Head(plan).a \in 0 .. Bank - 1 /\ Head(plan).n \in Nat
      /\ sent = 0 /\ op \in {"write", "read"} /\ plan # << >>
  BY <1>1, Current, Sizes DEF IInv, Stage
<1>6. TypeOK'
  BY <1>1, <1>3, <1>4, <1>5 DEF IInv, TypeOK
<1>7. Stage'
  BY <1>1, <1>5 DEF Stage
<1>8. Latched'
  BY <1>1, <1>2 DEF IInv, Latched
<1>9. Complete'
  <2>1. Past + 0 = Past
    BY PastFacts
  <2>2. op = "write" => \A i \in 1 .. Past : Safe(i)
    BY DEF IInv, Complete
  <2>3. Past \in Int
    BY PastFacts
  <2>4. \A i \in Past + 1 .. Past + sent : FALSE
    BY <1>5, <2>3
  <2>5. QED
    BY <1>1, <1>2, <1>3, <2>2, <2>4 DEF Complete, Safe
<1>10. Fetched'
  <2>1. \A x \in Cell : Clean(x) => Clean(x)'
    BY <1>1 DEF Clean
  <2>2. QED
    BY <1>1, <1>2, <2>1, FetchedKept
<1>11. QED
  BY <1>2, <1>4, <1>6, <1>7, <1>8, <1>9, <1>10 DEF IInv

(* A byte of a read is over: it was fetched, left alone, or met a failure  *)
(* that is not looked at; the cells of the bytes after it are as they were *)
(* or count among those that went astray.                                  *)
LEMMA FetchedOn ==
  ASSUME IInv, op = "read", pc \in {"address", "receive"}, Done,
         UNCHANGED <<build, addr, num, op>>, missed \subseteq missed', astray \subseteq astray',
         DOMAIN got' = 1 .. num, \A i \in 1 .. num : i # Past + 1 => got'[i] = got[i],
         \/ got'[Past + 1] = Kept /\ Past + 1 \in missed'
         \/ got'[Past + 1] = Home(Past + 1)
         \/ got'[Past + 1] = Wrong /\ Past + 1 \in astray',
         \A i \in Past + 2 .. num : Clean(Home(i)) => Clean(Home(i))' \/ i \in astray'
  PROVE  Fetched'
<1>1. Past' = Past + 1 /\ Past \in Nat /\ Past + 1 \in 1 .. num /\ num \in Nat
  <2>1. Head(plan).n = 1 /\ 1 \in 1 .. 1 /\ pc # "idle"
    BY Current
  <2>2. Past \in Nat /\ Past + 1 \in 1 .. num /\ Past' = Past + Head(plan).n
    BY <2>1, Current, NextTransfer
  <2>3. QED
    BY <2>1, <2>2, HomeFacts DEF IInv
<1>2. \A i : Home(i)' = Home(i)
  BY SameCall
<1>3. /\ \A i \in 1 .. num : got[i] = Kept \/ (i <= Past /\ Byte(i))
      /\ \A i \in 1 .. Past : got[i] = Kept => i \in missed
      /\ \A i \in Past + 1 .. num : Clean(Home(i)) \/ i \in astray
  BY DEF IInv, Fetched
<1>4. Home(Past + 1) # Kept /\ Wrong # Kept
  <2>1. Home(Past + 1) \in Cell /\ Kept \notin Cell
    BY <1>1, HomeFacts DEF IInv, Cell, Chips, Kept
  <2>2. QED
    BY <2>1 DEF Wrong, Kept
<1>5. ASSUME NEW i \in 1 .. num
      PROVE  got'[i] = Kept \/ (i <= Past' /\ Byte(i)')
  <2>1. CASE i = Past + 1
    BY <1>1, <1>2, <2>1 DEF Byte
  <2>2. CASE i # Past + 1
    BY <1>1, <1>2, <1>3, <2>2 DEF Byte
  <2>3. QED
    BY <2>1, <2>2
<1>6. ASSUME NEW i \in 1 .. Past', got'[i] = Kept
      PROVE  i \in missed'
  <2>1. CASE i = Past + 1
    BY <1>4, <1>6, <2>1
  <2>2. CASE i # Past + 1
    BY <1>1, <1>3, <1>6, <2>2
  <2>3. QED
    BY <2>1, <2>2
<1>7. ASSUME NEW i \in Past' + 1 .. num
      PROVE  Clean(Home(i))' \/ i \in astray'
  <2>1. i \in Past + 2 .. num /\ i \in Past + 1 .. num
    BY <1>1
  <2>2. QED
    BY <1>3, <2>1
<1>8. QED
  BY <1>5, <1>6, <1>7 DEF Fetched

LEMMA ReceiveKeeps ==
  ASSUME IInv, Receive
  PROVE  IInv'
<1>1. /\ pc = "receive" /\ Done
      /\ got' = [got EXCEPT ![Head(plan).from + 1] = IF mem[Cur] = Old THEN Cur ELSE Wrong]
      /\ UNCHANGED <<build, mem, latch, cycle, held, op, addr, num, missed, astray>>
  BY DEF Receive, call, bus
<1>2. op = "read" /\ ptr = Head(plan).a
  BY <1>1 DEF IInv, Stage
<1>3. /\ Planned' /\ Past' = Past + 1
      /\ pc' \in {"idle", "poll"} /\ sent' = 0 /\ (pc' = "idle" <=> plan' = << >>)
      /\ wait_eeprom_idle' \in BOOLEAN /\ ptr' \in 0 .. Bank - 1
  BY <1>1, <1>2, NextTransfer, Current
<1>4. Cell' = Cell /\ Chips' = Chips /\ \A i : Home(i)' = Home(i)
  BY <1>1, SameCall
<1>5. /\ mem' \in [Cell' -> 0 .. Stray]
      /\ DOMAIN latch' \subseteq Cell' /\ \A x \in DOMAIN latch' : latch'[x] \in 0 .. Stray
      /\ Contents' /\ Ordered'
  BY <1>1, Keeps DEF Writing
<1>6. /\ Past = Head(plan).from /\ Past \in Nat /\ Past + 1 \in 1 .. num
      /\ Cur = Home(Past + 1) /\ Cur \in Cell
  <2>1. Head(plan).n = 1 /\ 1 \in 1 .. 1
    BY <1>1, <1>2, Current
  <2>2. /\ Past = Head(plan).from /\ Past \in Nat /\ Past + 1 \in 1 .. num
        /\ Home(Past + 1) = <<Selected, Head(plan).a + 1 - 1>> /\ Head(plan).a \in Int
    BY <1>1, <2>1, Current
  <2>3. Head(plan).a + 1 - 1 = ptr
    BY <1>2, <2>2
  <2>4. Home(Past + 1) \in Cell
    BY <2>2, HomeFacts DEF IInv
  <2>5. QED
    BY <2>2, <2>3, <2>4 DEF Cur
<1>7. /\ DOMAIN got = 1 .. num /\ DOMAIN got' = 1 .. num
      /\ \A i \in 1 .. num : i # Past + 1 => got'[i] = got[i]
      /\ got'[Past + 1] = IF mem[Cur] = Old THEN Home(Past + 1) ELSE Wrong
  BY <1>1, <1>2, <1>6 DEF IInv, Fetched
<1>8. TypeOK'
  <2>1. \A i \in DOMAIN got' : got'[i] \in Cell \cup {Kept, Wrong}
    BY <1>6, <1>7 DEF IInv, TypeOK
  <2>2. 0 \in 0 .. PageSize
    BY Sizes
  <2>3. \A t \in ToSet(plan') : /\ t.a \in 0 .. Bank - 1
                                /\ t.n \in 0 .. PageSize
                                /\ t.from + t.n <= num'
    BY <1>3, PlanTypes DEF Planned
  <2>4. QED
    BY <1>1, <1>3, <1>4, <1>5, <2>1, <2>2, <2>3 DEF IInv, TypeOK
<1>9. Stage'
  BY <1>1, <1>2, <1>3 DEF Stage
<1>10. Latched'
  BY <1>1, <1>2, <1>3 DEF IInv, Latched
<1>11. Complete'
  BY <1>1, <1>2 DEF Complete
<1>12. Fetched'
  <2>1. Past + 1 \in Past + 1 .. num /\ (Clean(Home(Past + 1)) \/ Past + 1 \in astray)
    BY <1>2, <1>6 DEF IInv, Fetched
  <2>2. got'[Past + 1] = Home(Past + 1) \/ (got'[Past + 1] = Wrong /\ Past + 1 \in astray')
    BY <1>1, <1>6, <1>7, <2>1 DEF Clean
  <2>3. \A i \in Past + 2 .. num : Clean(Home(i)) => Clean(Home(i))'
    BY <1>1, <1>4 DEF Clean
  <2>4. QED
    BY <1>1, <1>2, <1>7, <2>2, <2>3, FetchedOn
<1>13. QED
  BY <1>3, <1>5, <1>8, <1>9, <1>10, <1>11, <1>12 DEF IInv

LEMMA ReadNackKeeps ==
  ASSUME IInv, ReadNack
  PROVE  IInv'
<1>1. /\ pc = "address" /\ op = "read" /\ Done /\ held' \in {FALSE, MayHold}
      /\ missed' = missed \cup {Head(plan).from + 1}
      /\ UNCHANGED <<build, mem, latch, cycle, op, addr, num, got, astray>>
  BY DEF ReadNack, call
<1>2. /\ Planned' /\ Past' = Past + 1
      /\ pc' \in {"idle", "poll"} /\ sent' = 0 /\ (pc' = "idle" <=> plan' = << >>)
      /\ wait_eeprom_idle' \in BOOLEAN /\ ptr' \in 0 .. Bank - 1
  BY <1>1, NextTransfer, Current
<1>3. Cell' = Cell /\ Chips' = Chips /\ \A i : Home(i)' = Home(i)
  BY <1>1, SameCall
<1>4. /\ mem' \in [Cell' -> 0 .. Stray]
      /\ DOMAIN latch' \subseteq Cell' /\ \A x \in DOMAIN latch' : latch'[x] \in 0 .. Stray
      /\ Contents' /\ Ordered'
  BY <1>1, Keeps DEF Writing
<1>5. Past = Head(plan).from /\ Past \in Nat /\ Past + 1 \in 1 .. num
  <2>1. Head(plan).n = 1 /\ 1 \in 1 .. 1
    BY <1>1, Current
  <2>2. QED
    BY <1>1, <2>1, Current
<1>6. TypeOK'
  <2>1. held' \in BOOLEAN /\ 0 \in 0 .. PageSize /\ missed' \subseteq 1 .. num
    <3>1. held' \in BOOLEAN /\ 0 \in 0 .. PageSize
      <4>1. MayHold \in BOOLEAN
        BY EepromAssumption
      <4>2. held' \in BOOLEAN
        BY <1>1, <4>1
      <4>3. QED
        BY <4>2, Sizes
    <3>2. missed \subseteq 1 .. num
      BY DEF IInv, TypeOK
    <3>3. QED
      BY <1>1, <1>5, <3>1, <3>2
  <2>2. \A t \in ToSet(plan') : /\ t.a \in 0 .. Bank - 1
                                /\ t.n \in 0 .. PageSize
                                /\ t.from + t.n <= num'
    BY <1>2, PlanTypes DEF Planned
  <2>3. QED
    BY <1>1, <1>2, <1>3, <1>4, <2>1, <2>2 DEF IInv, TypeOK
<1>7. Stage'
  BY <1>1, <1>2 DEF Stage
<1>8. Latched'
  BY <1>1, <1>2 DEF IInv, Latched
<1>9. Complete'
  BY <1>1 DEF Complete
<1>10. Fetched'
  <2>1. DOMAIN got = 1 .. num /\ \A i \in 1 .. num : got[i] = Kept \/ i <= Past
    BY <1>1 DEF IInv, Fetched
  <2>2. got[Past + 1] = Kept /\ Past + 1 \in missed'
    BY <1>1, <1>5, <2>1
  <2>3. \A i \in Past + 2 .. num : Clean(Home(i)) => Clean(Home(i))'
    BY <1>1, <1>3 DEF Clean
  <2>4. QED
    BY <1>1, <2>1, <2>2, <2>3, FetchedOn
<1>11. QED
  BY <1>2, <1>4, <1>6, <1>7, <1>8, <1>9, <1>10 DEF IInv

LEMMA HighByteLostKeeps ==
  ASSUME IInv, HighByteLost
  PROVE  IInv'
<1>1. /\ pc = "address" /\ op = "read" /\ Done
      /\ got' = [got EXCEPT ![Head(plan).from + 1] = Wrong]
      /\ astray' = astray \cup {Head(plan).from + 1}
      /\ UNCHANGED <<build, mem, latch, cycle, held, op, addr, num, missed>>
  BY DEF HighByteLost, call, bus
<1>2. /\ Planned' /\ Past' = Past + 1
      /\ pc' \in {"idle", "poll"} /\ sent' = 0 /\ (pc' = "idle" <=> plan' = << >>)
      /\ wait_eeprom_idle' \in BOOLEAN /\ ptr' \in 0 .. Bank - 1
  BY <1>1, NextTransfer, Current
<1>3. Cell' = Cell /\ Chips' = Chips /\ \A i : Home(i)' = Home(i)
  BY <1>1, SameCall
<1>4. /\ mem' \in [Cell' -> 0 .. Stray]
      /\ DOMAIN latch' \subseteq Cell' /\ \A x \in DOMAIN latch' : latch'[x] \in 0 .. Stray
      /\ Contents' /\ Ordered'
  BY <1>1, Keeps DEF Writing
<1>5. Past = Head(plan).from /\ Past \in Nat /\ Past + 1 \in 1 .. num
  <2>1. Head(plan).n = 1 /\ 1 \in 1 .. 1
    BY <1>1, Current
  <2>2. QED
    BY <1>1, <2>1, Current
<1>6. /\ DOMAIN got' = 1 .. num /\ got'[Past + 1] = Wrong
      /\ \A i \in 1 .. num : i # Past + 1 => got'[i] = got[i]
  BY <1>1, <1>5 DEF IInv, Fetched
<1>7. TypeOK'
  <2>1. ASSUME NEW i \in DOMAIN got' PROVE got'[i] \in Cell \cup {Kept, Wrong}
    <3>1. i \in 1 .. num /\ DOMAIN got = 1 .. num
      BY <1>1, <1>6 DEF IInv, Fetched
    <3>2. got[i] \in Cell \cup {Kept, Wrong}
      BY <3>1 DEF IInv, TypeOK
    <3>3. CASE i = Past + 1
      BY <1>6, <3>3
    <3>4. CASE i # Past + 1
      BY <1>6, <3>1, <3>2, <3>4, ZenonT(60)
    <3>5. QED
      BY <3>3, <3>4
  <2>2. 0 \in 0 .. PageSize /\ astray' \subseteq 1 .. num
    <3>1. astray' = astray \cup {Past + 1} /\ astray \subseteq 1 .. num
      BY <1>1, <1>5 DEF IInv, TypeOK
    <3>2. 0 \in 0 .. PageSize
      BY Sizes
    <3>3. QED
      BY <1>5, <3>1, <3>2
  <2>3. \A t \in ToSet(plan') : /\ t.a \in 0 .. Bank - 1
                                /\ t.n \in 0 .. PageSize
                                /\ t.from + t.n <= num'
    BY <1>2, PlanTypes DEF Planned
  <2>4. QED
    BY <1>1, <1>2, <1>3, <1>4, <2>1, <2>2, <2>3 DEF IInv, TypeOK
<1>8. Stage' /\ Complete'
  BY <1>1, <1>2 DEF Stage, Complete
<1>9. Latched'
  BY <1>1, <1>2 DEF IInv, Latched
<1>10. Fetched'
  <2>1. \A i \in Past + 2 .. num : Clean(Home(i)) => Clean(Home(i))'
    BY <1>1, <1>3 DEF Clean
  <2>2. Past + 1 \in astray' /\ astray \subseteq astray'
    BY <1>1, <1>5
  <2>3. QED
    BY <1>1, <1>6, <2>1, <2>2, FetchedOn
<1>11. QED
  BY <1>2, <1>4, <1>7, <1>8, <1>9, <1>10 DEF IInv

(* The byte after one stays on the chip.                                   *)
LEMMA AfterOnChip ==
  ASSUME NEW p \in 0 .. Bank - 1
  PROVE  After(p) \in 0 .. Bank - 1
<1>1. p \in Nat /\ p + 1 \in Nat
  BY Sizes
<1>2. CASE build.dev = "FRAM"
  <2>1. p + 1 \in 0 .. 2 * Bank - 1
    BY Sizes
  <2>2. (p + 1) % Bank = IF p + 1 < Bank THEN p + 1 ELSE (p + 1) - Bank
    BY <2>1, BankOf
  <2>3. QED
    BY <1>2, <2>2, Sizes DEF After
<1>3. CASE build.dev # "FRAM"
  <2> DEFINE o == p % PageSize
             z == (p + 1) % PageSize
  <2>1. o \in Nat /\ o <= p
    <3>1. /\ p % PageSize \in Nat /\ (p \div PageSize) * PageSize \in Nat
          /\ p = (p \div PageSize) * PageSize + (p % PageSize)
      BY <1>1, Division
    <3>2. QED
      BY <1>1, <3>1
  <2>2. z \in Nat /\ z < PageSize
    BY <1>1, Division
  <2>3. After(p) = (p - o) + z /\ p - o + PageSize <= Bank
    BY <1>3, ChipEnd DEF After
  <2> HIDE DEF o, z
  <2>4. QED
    BY <2>1, <2>2, <2>3, Sizes
<1>4. QED
  BY <1>2, <1>3

LEMMA StartFailsKeeps ==
  ASSUME IInv, StartFails
  PROVE  IInv'
<1> DEFINE i == Head(plan).from + 1
           first == <<Selected, Head(plan).a>>
           second == <<Selected, After(Head(plan).a)>>
<1>1. /\ pc = "address" /\ op = "read" /\ Done
      /\ UNCHANGED <<build, held, op, addr, num>>
  BY DEF StartFails, call
<1>2. PICK heard \in BOOLEAN, cells \in {{}, {first}, {first, second}} :
        /\ mem' = [x \in Cell |-> IF build.dev = "FRAM" /\ x \in cells THEN Stray ELSE mem[x]]
        /\ IF build.dev = "EEPROM" /\ heard
           THEN /\ latch' = [x \in DOMAIN latch \cup cells |->
                                IF x \in cells THEN Stray ELSE latch[x]]
                /\ cycle' = {x[1] : x \in DOMAIN latch'}
           ELSE UNCHANGED <<latch, cycle>>
        /\ got' = IF heard THEN [got EXCEPT ![i] = Wrong] ELSE got
        /\ missed' = IF heard THEN missed ELSE missed \cup {i}
        /\ astray' = astray \cup {i} \cup {j \in 1 .. num : Home(j) \in cells}
  BY DEF StartFails
<1>3. /\ Planned' /\ Past' = Past + 1
      /\ pc' \in {"idle", "poll"} /\ sent' = 0 /\ (pc' = "idle" <=> plan' = << >>)
      /\ wait_eeprom_idle' \in BOOLEAN /\ ptr' \in 0 .. Bank - 1
  BY <1>1, NextTransfer, Current
<1>4. Cell' = Cell /\ Chips' = Chips /\ \A j : Home(j)' = Home(j)
  BY <1>1, SameCall
<1>5. Past = Head(plan).from /\ Past \in Nat /\ i = Past + 1 /\ i \in 1 .. num
  <2>1. Head(plan).n = 1 /\ 1 \in 1 .. 1
    BY <1>1, Current
  <2>2. QED
    BY <1>1, <2>1, Current
<1>6. cells \subseteq Cell
  <2>1. Selected \in Chips /\ Head(plan).a \in 0 .. Bank - 1
    BY <1>1, Current
  <2>2. After(Head(plan).a) \in 0 .. Bank - 1
    BY <2>1, AfterOnChip
  <2>3. first \in Cell /\ second \in Cell
    BY <2>1, <2>2 DEF Cell
  <2>4. QED
    BY <2>3
<1> HIDE DEF i, first, second
<1>7. /\ mem \in [Cell -> 0 .. Stray]
      /\ DOMAIN latch \subseteq Cell /\ \A x \in DOMAIN latch : latch[x] \in 0 .. Stray
      /\ build.dev = "FRAM" => DOMAIN latch = {}
      /\ build.dev \in {"FRAM", "EEPROM"} /\ Stray \in 0 .. Stray /\ Stray # Old
      /\ \A x \in DOMAIN latch : x[1] \in cycle
  BY <1>1, Sizes DEF IInv, TypeOK, Latched, Old
(* The cells written to have a stray byte, or are to have it; all else is  *)
(* kept, and what is latched is in its write cycle.                        *)
<1>8. /\ mem' \in [Cell -> 0 .. Stray]
      /\ DOMAIN latch' \subseteq Cell /\ \A x \in DOMAIN latch' : latch'[x] \in 0 .. Stray
      /\ \A x \in Cell : mem'[x] = mem[x] \/ (x \in cells /\ mem'[x] = Stray /\ DOMAIN latch' = {})
      /\ \A x \in DOMAIN latch' :
           (x \in DOMAIN latch /\ latch'[x] = latch[x]) \/ (x \in cells /\ latch'[x] = Stray)
      /\ build.dev = "FRAM" => DOMAIN latch' = {}
      /\ \A x \in DOMAIN latch' : x[1] \in cycle'
      /\ cycle' \subseteq Chips
  <2>1. CASE build.dev = "EEPROM" /\ heard
    <3>1. /\ mem' = mem
          /\ latch' = [x \in DOMAIN latch \cup cells |-> IF x \in cells THEN Stray ELSE latch[x]]
          /\ cycle' = {x[1] : x \in DOMAIN latch'}
      BY <1>2, <1>7, <2>1
    <3>2. \A x \in Cell : x[1] \in Chips
      BY DEF Cell
    <3>3. DOMAIN latch' \subseteq Cell
      BY <1>6, <1>7, <3>1
    <3>4. cycle' \subseteq Chips /\ \A x \in DOMAIN latch' : x[1] \in cycle'
      BY <3>1, <3>2, <3>3
    <3>5. QED
      BY <1>7, <2>1, <3>1, <3>3, <3>4
  <2>2. CASE build.dev = "EEPROM" /\ ~ heard
    <3>1. mem' = mem /\ latch' = latch /\ cycle' = cycle
      BY <1>2, <1>7, <2>2
    <3>2. cycle \subseteq Chips
      BY DEF IInv, TypeOK
    <3>3. QED
      BY <1>7, <2>2, <3>1, <3>2
  <2>3. CASE build.dev = "FRAM"
    <3>1. /\ mem' = [x \in Cell |-> IF x \in cells THEN Stray ELSE mem[x]]
          /\ latch' = latch /\ cycle' = cycle /\ DOMAIN latch' = {}
      BY <1>2, <1>7, <2>3
    <3>2. cycle \subseteq Chips
      BY DEF IInv, TypeOK
    <3>3. QED
      BY <1>7, <3>1, <3>2
  <2>4. QED
    BY <1>7, <2>1, <2>2, <2>3
<1>9. Contents' /\ Ordered'
  <2>1. \A x \in Cell : mem[x] = Old \/ mem[x] = Stray
    BY <1>1 DEF IInv, Contents, Proper, Writing
  <2>2. \A x \in DOMAIN latch : (latch[x] = Old \/ latch[x] = Stray) /\ (latch[x] = Old => mem[x] = Old)
    BY <1>1 DEF IInv, Contents, Proper, Writing
  <2>3. \A x \in Cell : mem'[x] = Old \/ mem'[x] = Stray
    BY <1>8, <2>1
  <2>4. \A x \in DOMAIN latch' : (latch'[x] = Old \/ latch'[x] = Stray) /\ (latch'[x] = Old => mem'[x] = Old)
    BY <1>7, <1>8, <2>2
  <2>5. Contents'
    BY <1>1, <1>4, <2>3, <2>4 DEF Contents, Proper, Writing
  <2>6. ASSUME NEW j \in 1 .. num PROVE ~ Begun(j)'
    <3>1. Home(j) \in Cell /\ num \in 0 .. MaxNum
      BY HomeFacts DEF IInv, TypeOK
    <3>2. j # Old /\ j # Stray
      BY <3>1, Sizes DEF Old
    <3>3. QED
      BY <1>4, <2>3, <2>4, <3>1, <3>2 DEF Begun
  <2>7. QED
    BY <1>1, <2>5, <2>6 DEF Ordered
<1>10. /\ DOMAIN got = 1 .. num /\ DOMAIN got' = 1 .. num
       /\ \A j \in 1 .. num : j # i => got'[j] = got[j]
       /\ got'[i] = (IF heard THEN Wrong ELSE Kept) /\ (~ heard => i \in missed')
  <2>1. DOMAIN got = 1 .. num /\ (got[i] = Kept \/ i <= Past)
    BY <1>1, <1>5 DEF IInv, Fetched
  <2>2. got[i] = Kept
    BY <1>5, <2>1
  <2>3. QED
    BY <1>2, <1>5, <2>1, <2>2
<1>11. /\ missed \subseteq missed' /\ missed' \subseteq 1 .. num
       /\ astray \subseteq astray' /\ astray' \subseteq 1 .. num /\ i \in astray'
       /\ \A j \in 1 .. num : Home(j) \in cells => j \in astray'
  BY <1>2, <1>5 DEF IInv, TypeOK
<1>12. TypeOK'
  <2>1. \A j \in DOMAIN got' : got'[j] \in Cell \cup {Kept, Wrong}
    BY <1>5, <1>10 DEF IInv, TypeOK
  <2>2. 0 \in 0 .. PageSize
    BY Sizes
  <2>3. \A t \in ToSet(plan') : /\ t.a \in 0 .. Bank - 1
                                /\ t.n \in 0 .. PageSize
                                /\ t.from + t.n <= num'
    BY <1>3, PlanTypes DEF Planned
  <2>4. QED
    BY <1>1, <1>3, <1>4, <1>8, <1>11, <2>1, <2>2, <2>3 DEF IInv, TypeOK
<1>13. Stage' /\ Complete'
  BY <1>1, <1>3 DEF Stage, Complete
<1>14. Latched'
  BY <1>1, <1>3, <1>8 DEF Latched
<1>15. Fetched'
  <2>1. ASSUME NEW j \in Past + 2 .. num, Clean(Home(j))
        PROVE  Clean(Home(j))' \/ j \in astray'
    <3>1. j \in 1 .. num /\ Home(j) \in Cell
      <4>1. j \in 1 .. num
        BY <1>5, HomeFacts DEF IInv
      <4>2. QED
        BY <4>1, HomeFacts DEF IInv
    <3>2. CASE Home(j) \in cells
      BY <1>11, <3>1, <3>2
    <3>3. CASE Home(j) \notin cells
      BY <1>4, <1>8, <2>1, <3>1, <3>3 DEF Clean
    <3>4. QED
      BY <3>2, <3>3
  <2>2. QED
    BY <1>1, <1>5, <1>10, <1>11, <2>1, FetchedOn
<1>16. QED
  BY <1>3, <1>4, <1>8, <1>9, <1>12, <1>13, <1>14, <1>15 DEF IInv

(* What the chip takes is the next byte, where it belongs.                 *)
LEMMA TakeKeeps ==
  ASSUME IInv, pc = "data", sent < Head(plan).n, Take,
         UNCHANGED <<build, cycle, op, addr, num, plan>>
  PROVE  /\ op = "write" /\ sent \in Nat /\ Past + (sent + 1) \in 1 .. num
         /\ mem' \in [Cell' -> 0 .. Stray] /\ ptr' \in 0 .. Bank - 1
         /\ DOMAIN latch' \subseteq Cell' /\ \A x \in DOMAIN latch' : latch'[x] \in 0 .. Stray
         /\ sent + 1 < Head(plan).n => ptr' = Head(plan).a + (sent + 1)
         /\ build.dev = "FRAM" => DOMAIN latch' = {}
         /\ \A x \in DOMAIN latch' : x[1] \in cycle \/ x[1] = Selected
         /\ Contents' /\ Ordered'
         /\ \A i \in 1 .. Past : Safe(i)'
         /\ \A i \in Past + 1 .. Past + (sent + 1) : Taken(i)'
<1> DEFINE b == Past + (sent + 1)
           t == Head(plan)
<1>1. /\ t = plan[1] /\ Past = t.from /\ Past \in Nat /\ t.n \in 0 .. PageSize
      /\ t.a \in 0 .. Bank - 1 /\ (t.a % PageSize) + t.n <= PageSize /\ Selected \in Chips
      /\ \A i \in 1 .. t.n :
           /\ Past + i \in 1 .. num /\ Home(Past + i) = <<Selected, t.a + i - 1>>
           /\ t.a + i - 1 \in 0 .. Bank - 1
  BY Current
<1>2. op = "write" /\ ptr = t.a + sent /\ sent \in Nat /\ ptr \in 0 .. Bank - 1
  BY DEF IInv, Stage, TypeOK
<1> HIDE DEF t
<1>3. sent + 1 \in 1 .. t.n /\ t.a + (sent + 1) - 1 = ptr
  BY <1>1, <1>2 DEF t
<1>4. b \in 1 .. num /\ Cur = Home(b) /\ Cur \in Cell
  <2>1. b \in 1 .. num /\ Home(b) = <<Selected, ptr>>
    BY <1>1, <1>3
  <2>2. QED
    BY <2>1, HomeFacts DEF Cur, IInv
<1>5. t.from + sent + 1 = b
  BY <1>1, <1>2
<1>6. num \in Nat /\ num \in 0 .. MaxNum /\ b \in 0 .. Stray /\ b # Old /\ b \in Nat
  BY <1>4, Sizes, HomeFacts DEF IInv, TypeOK, Old
<1> HIDE DEF b
<1>7. /\ build.dev = "FRAM" =>
           mem' = [mem EXCEPT ![Cur] = b] /\ ptr' = (ptr + 1) % Bank /\ latch' = latch
      /\ build.dev # "FRAM" =>
           /\ latch' = [x \in DOMAIN latch \cup {Cur} |-> IF x = Cur THEN b ELSE latch[x]]
           /\ ptr' = (ptr - (ptr % PageSize)) + ((ptr + 1) % PageSize)
           /\ mem' = mem
  BY <1>5 DEF Take, After, t
<1>8. /\ Cell' = Cell /\ Chips' = Chips /\ \A i : Home(i)' = Home(i)
      /\ \A i, j : Before(i, j)' <=> Before(i, j)
  BY SameCall
<1>9. /\ mem \in [Cell -> 0 .. Stray]
      /\ DOMAIN latch \subseteq Cell /\ \A x \in DOMAIN latch : latch[x] \in 0 .. Stray
      /\ build.dev = "FRAM" => DOMAIN latch = {}
  BY DEF IInv, TypeOK, Latched
(* In both builds the byte is then in Cur, and all else is kept.           *)
<1>10. /\ mem' \in [Cell -> 0 .. Stray]
       /\ DOMAIN latch' \subseteq Cell /\ \A x \in DOMAIN latch' : latch'[x] \in 0 .. Stray
       /\ build.dev = "FRAM" => DOMAIN latch' = {} /\ mem'[Cur] = b
       /\ build.dev # "FRAM" => DOMAIN latch' = DOMAIN latch \cup {Cur} /\ latch'[Cur] = b
       /\ \A x \in Cell : x = Cur \/ mem'[x] = mem[x]
       /\ \A x \in DOMAIN latch : x = Cur \/ latch'[x] = latch[x]
       /\ mem'[Cur] = mem[Cur] \/ mem'[Cur] = b
  <2>1. CASE build.dev = "FRAM"
    BY <1>4, <1>6, <1>7, <1>9, <2>1
  <2>2. CASE build.dev # "FRAM"
    BY <1>4, <1>6, <1>7, <1>9, <2>2
  <2>3. QED
    BY <2>1, <2>2
<1>11. ptr' \in 0 .. Bank - 1 /\ (sent + 1 < t.n => ptr' = t.a + (sent + 1))
  <2>1. sent + 1 < t.n => ptr + 1 = t.a + (sent + 1) /\ ptr + 1 \in 0 .. Bank - 1
    <3>1. sent + 1 < t.n => sent + 2 \in 1 .. t.n
      BY <1>1, <1>2
    <3>2. sent + 1 < t.n => t.a + (sent + 2) - 1 \in 0 .. Bank - 1
      BY <1>1, <3>1
    <3>3. QED
      BY <1>1, <1>2, <3>2
  <2>2. CASE build.dev = "FRAM"
    <3>1. ptr' = (ptr + 1) % Bank /\ ptr + 1 \in 0 .. Bank
      BY <1>2, <1>7, <2>2, Sizes
    <3>2. ptr + 1 \in 0 .. 2 * Bank - 1
      BY <3>1, Sizes
    <3>3. (ptr + 1) % Bank = IF ptr + 1 < Bank THEN ptr + 1 ELSE (ptr + 1) - Bank
      BY <3>2, BankOf
    <3>4. QED
      BY <2>1, <3>1, <3>3, Sizes
  <2>3. CASE build.dev # "FRAM"
    <3> DEFINE o == ptr % PageSize
               z == (ptr + 1) % PageSize
    <3>1. ptr' = (ptr - o) + z /\ ptr - o + PageSize <= Bank
      BY <1>2, <1>7, <2>3, ChipEnd
    <3>2. o \in Nat /\ o <= ptr
      <4>1. ptr \in Nat
        BY <1>2
      <4>2. /\ ptr % PageSize \in Nat /\ (ptr \div PageSize) * PageSize \in Nat
            /\ ptr = (ptr \div PageSize) * PageSize + (ptr % PageSize)
        BY <4>1, Division
      <4>3. QED
        BY <4>1, <4>2
    <3>3. z \in Nat /\ z < PageSize
      <4>1. ptr + 1 \in Nat
        BY <1>2
      <4>2. QED
        BY <4>1, Division
    <3>4. sent + 1 < t.n => z = o + 1
      <4>1. /\ t.a % PageSize \in Nat /\ t.a \in Nat
            /\ sent + 1 < t.n => (t.a % PageSize) + (sent + 1) < PageSize
        BY <1>1, <1>2, Division, Sizes
      <4>2. sent + 1 < t.n => (t.a % PageSize) + sent < PageSize
        BY <1>2, <4>1, Sizes
      <4>3. sent + 1 < t.n => /\ (t.a + (sent + 1)) % PageSize = (t.a % PageSize) + (sent + 1)
                              /\ (t.a + sent) % PageSize = (t.a % PageSize) + sent
        BY <1>2, <4>1, <4>2, WithinPage
      <4>4. ptr + 1 = t.a + (sent + 1)
        BY <1>1, <1>2
      <4>5. sent + 1 < t.n => z = (t.a % PageSize) + (sent + 1) /\ o = (t.a % PageSize) + sent
        BY <1>2, <4>3, <4>4
      <4> HIDE DEF z, o
      <4>6. QED
        BY <1>2, <4>1, <4>5
    <3> HIDE DEF o, z
    <3>5. ptr \in Nat /\ PageSize \in Nat /\ Bank \in Nat /\ sent + 1 < t.n => ptr' = ptr + 1
      BY <1>2, <3>1, <3>2, <3>4, Sizes
    <3>6. ptr' \in 0 .. Bank - 1
      BY <1>2, <3>1, <3>2, <3>3, Sizes
    <3>7. QED
      BY <1>1, <1>2, <2>1, <3>5, <3>6, Sizes
  <2>4. QED
    BY <2>2, <2>3
<1>12. Selected \notin cycle
  BY DEF IInv, Latched
<1>13. \A x \in DOMAIN latch' : x[1] \in cycle \/ x[1] = Selected
  <2>1. \A x \in DOMAIN latch : x[1] \in cycle \/ x[1] = Selected
    BY DEF IInv, Latched
  <2>2. Cur[1] = Selected
    BY DEF Cur
  <2>3. \A x \in DOMAIN latch' : x \in DOMAIN latch \/ x = Cur
    BY <1>10
  <2>4. QED
    BY <2>1, <2>2, <2>3
<1>14. \A i \in 1 .. num : Home(i) \in Cell /\ (Home(i) = Cur => i = b)
  BY <1>4, HomeFacts DEF IInv
<1>15. \A i \in 1 .. Past : i \in 1 .. num /\ i # b /\ Safe(i)
  <2>1. \A i \in 1 .. Past : i \in 1 .. num /\ i # b
    BY <1>1, <1>2, <1>4, <1>6 DEF b
  <2>2. \A i \in 1 .. Past : Safe(i)
    BY <1>2 DEF IInv, Complete
  <2>3. QED
    BY <2>1, <2>2
<1>16. Contents'
  <2>1. \A x \in Cell : Proper(x, mem[x])
    BY DEF IInv, Contents
  <2>2. \A x \in DOMAIN latch : Proper(x, latch[x]) /\ (latch[x] = Old => mem[x] = Old)
    BY DEF IInv, Contents
  <2>3. Proper(Cur, b)
    BY <1>2, <1>4 DEF Proper, Writing
  <2>4. \A x \in Cell : Proper(x, mem'[x])
    BY <1>10, <2>1, <2>3
  <2>5. ASSUME NEW x \in DOMAIN latch'
        PROVE  Proper(x, latch'[x]) /\ (latch'[x] = Old => mem'[x] = Old)
    <3>1. CASE x = Cur
      BY <1>6, <1>10, <2>3, <2>5, <3>1
    <3>2. CASE x # Cur
      BY <1>9, <1>10, <2>2, <2>5, <3>2
    <3>3. QED
      BY <3>1, <3>2
  <2>6. num' = num
    OBVIOUS
  <2>7. QED
    BY <1>8, <2>4, <2>5, <2>6 DEF Contents, Proper, Writing
<1>17. Ordered'
  <2> SUFFICES ASSUME NEW i \in 1 .. num, NEW j \in 1 .. num, Before(i, j), Begun(j)'
               PROVE  mem'[Home(i)] = i
    BY <1>8 DEF Ordered
  <2>1. mem'[Home(j)] = j \/ (Home(j) \in DOMAIN latch' /\ latch'[Home(j)] = j)
    BY <1>8 DEF Begun
  <2>2. Home(i) \in Cell /\ Home(j) \in Cell /\ (Home(i) = Cur => i = b) /\ (Home(j) = Cur => j = b)
    BY <1>14
  <2>3. CASE j = b
    <3>1. /\ i < b /\ Home(i)[1] = Selected
          /\ Home(i)[2] \div PageSize # ptr \div PageSize
      BY <1>4, <2>3 DEF Before, Cur
    <3>2. i \in 1 .. Past
      <4>1. SUFFICES ASSUME i > Past PROVE FALSE
        BY <1>1, <1>4
      <4> DEFINE k == i - Past
      <4>2. k \in 1 .. t.n /\ k - 1 \in Nat /\ k - 1 < sent /\ i = Past + k
        BY <1>1, <1>2, <1>3, <3>1, <4>1 DEF b
      <4>3. Home(i)[2] = t.a + k - 1
        <5> HIDE DEF k
        <5>1. QED
          BY <1>1, <4>2
      <4>4. /\ t.a \in Nat /\ t.a % PageSize \in Nat
            /\ (t.a % PageSize) + (k - 1) < PageSize /\ (t.a % PageSize) + sent < PageSize
        <5>0. t.a \in Nat
          BY <1>1
        <5>1. t.a \in Nat /\ t.a % PageSize \in Nat
          BY <5>0, Division
        <5> HIDE DEF k
        <5>2. QED
          BY <1>1, <1>2, <1>3, <4>2, <5>1, Sizes
      <4>5. /\ (t.a + (k - 1)) \div PageSize = t.a \div PageSize
            /\ (t.a + sent) \div PageSize = t.a \div PageSize
        <5> DEFINE m == k - 1
        <5>1. m \in Nat /\ (t.a % PageSize) + m < PageSize
          BY <4>2, <4>4
        <5> HIDE DEF m
        <5>2. (t.a + m) \div PageSize = t.a \div PageSize
          BY <4>4, <5>1, WithinPage
        <5>3. (t.a + sent) \div PageSize = t.a \div PageSize
          BY <1>2, <4>4, WithinPage
        <5>4. QED
          BY <5>2, <5>3 DEF m
      <4>6. t.a + k - 1 = t.a + (k - 1)
        BY <4>2, <4>4
      <4>7. QED
        BY <1>2, <3>1, <4>3, <4>5, <4>6
    <3>3. Safe(i) /\ i # b
      BY <1>15, <3>2
    <3>4. Home(i) \notin DOMAIN latch
      BY <1>12, <3>1, <3>3 DEF Safe
    <3>5. QED
      BY <1>10, <2>2, <3>3, <3>4 DEF Safe
  <2>4. CASE j # b
    <3>1. mem[Home(j)] = j \/ (Home(j) \in DOMAIN latch /\ latch[Home(j)] = j)
      <4>1. Home(j) # Cur
        BY <2>2, <2>4
      <4>2. Home(j) \in DOMAIN latch' => Home(j) \in DOMAIN latch
        BY <1>9, <1>10, <4>1
      <4>3. QED
        BY <1>10, <2>1, <2>2, <4>1, <4>2
    <3>2. mem[Home(i)] = i
      BY <3>1 DEF IInv, Ordered, Begun
    <3>3. QED
      BY <1>10, <2>2, <3>2
  <2>5. QED
    BY <2>3, <2>4
<1>18. ASSUME NEW i \in 1 .. Past PROVE Safe(i)'
  <2>1. Home(i) # Cur /\ Home(i) \in Cell /\ Safe(i)
    BY <1>14, <1>15
  <2>2. Home(i) \in DOMAIN latch' <=> Home(i) \in DOMAIN latch
    BY <1>9, <1>10, <2>1
  <2>3. QED
    BY <1>8, <1>10, <2>1, <2>2 DEF Safe
<1>19. ASSUME NEW i \in Past + 1 .. b PROVE Taken(i)'
  <2>1. i \in 1 .. num
    BY <1>1, <1>4, <1>6
  <2>2. CASE i = b
    BY <1>4, <1>8, <1>10, <2>2 DEF Taken
  <2>3. CASE i # b
    <3>1. i \in Past + 1 .. Past + sent
      <4>1. Past \in Nat /\ sent \in Nat /\ b = Past + (sent + 1)
        BY <1>1, <1>2 DEF b
      <4>2. QED
        BY <2>3, <4>1
    <3>2. Taken(i) /\ Home(i) # Cur /\ Home(i) \in Cell
      BY <1>2, <1>14, <2>1, <2>3, <3>1 DEF IInv, Complete
    <3>3. QED
      BY <1>8, <1>10, <3>2 DEF Taken
  <2>4. QED
    BY <2>2, <2>3
<1>20. QED
  BY <1>2, <1>4, <1>8, <1>10, <1>11, <1>13, <1>16, <1>17, <1>18, <1>19 DEF b, t

LEMMA DataKeeps ==
  ASSUME IInv, Data
  PROVE  IInv'
<1>1. /\ pc = "data" /\ sent < Head(plan).n /\ Take /\ sent' = sent + 1
      /\ UNCHANGED <<build, cycle, held, pc, op, addr, num, plan, got, missed, astray, wait_eeprom_idle>>
  BY DEF Data, call
<1>2. /\ op = "write" /\ sent \in Nat /\ Past + (sent + 1) \in 1 .. num
      /\ mem' \in [Cell' -> 0 .. Stray] /\ ptr' \in 0 .. Bank - 1
      /\ DOMAIN latch' \subseteq Cell' /\ \A x \in DOMAIN latch' : latch'[x] \in 0 .. Stray
      /\ sent + 1 < Head(plan).n => ptr' = Head(plan).a + (sent + 1)
      /\ build.dev = "FRAM" => DOMAIN latch' = {}
      /\ \A x \in DOMAIN latch' : x[1] \in cycle \/ x[1] = Selected
      /\ Contents' /\ Ordered'
      /\ \A i \in 1 .. Past : Safe(i)'
      /\ \A i \in Past + 1 .. Past + (sent + 1) : Taken(i)'
  BY <1>1, TakeKeeps
<1>3. Planned' /\ Past' = Past /\ Selected' = Selected
  BY <1>1, SamePlan DEF IInv
<1>4. Cell' = Cell /\ Chips' = Chips
  BY <1>1, SameCall
<1>5. Head(plan).n \in 0 .. PageSize /\ plan # << >>
  BY <1>1, Current
<1>6. TypeOK'
  <2>1. sent' \in 0 .. PageSize
    BY <1>1, <1>2, <1>5, Sizes
  <2>2. QED
    BY <1>1, <1>2, <1>4, <2>1 DEF IInv, TypeOK
<1>7. Stage'
  <2>1. sent' <= Head(plan').n /\ (sent' < Head(plan').n => ptr' = Head(plan').a + sent')
    BY <1>1, <1>2, <1>5
  <2>2. QED
    BY <1>1, <1>2, <1>5, <2>1 DEF Stage
<1>8. Latched'
  <2>1. Selected' \notin cycle'
    BY <1>1, <1>3 DEF IInv, Latched
  <2>2. QED
    BY <1>1, <1>2, <1>3, <2>1 DEF Latched
<1>9. Complete'
  BY <1>1, <1>2, <1>3 DEF Complete
<1>10. Fetched'
  BY <1>1, <1>2 DEF Fetched
<1>11. QED
  BY <1>2, <1>3, <1>6, <1>7, <1>8, <1>9, <1>10 DEF IInv

LEMMA WriteNackKeeps ==
  ASSUME IInv, WriteNack
  PROVE  IInv'
<1>1. /\ op = "write" /\ pc' = "poll" /\ sent' = 0
      /\ UNCHANGED <<build, cycle, held, op, addr, num, plan, got, missed, astray, wait_eeprom_idle>>
  BY DEF WriteNack, call
<1>2. /\ Planned' /\ Past' = Past /\ Selected' = Selected
      /\ Cell' = Cell /\ Chips' = Chips /\ \A i : Home(i)' = Home(i)
  BY <1>1, SamePlan, SameCall DEF IInv
<1>3. pc \in {"address", "data"} /\ plan # << >>
  <2>1. pc \in {"address", "data"}
    BY DEF WriteNack
  <2>2. QED
    BY <2>1, Current
<1>4. /\ mem' \in [Cell' -> 0 .. Stray] /\ ptr' \in 0 .. Bank - 1
      /\ DOMAIN latch' \subseteq Cell' /\ \A x \in DOMAIN latch' : latch'[x] \in 0 .. Stray
      /\ build.dev = "FRAM" => DOMAIN latch' = {}
      /\ \A x \in DOMAIN latch' : x[1] \in cycle \/ x[1] = Selected
      /\ Contents' /\ Ordered'
      /\ \A i \in 1 .. Past : Safe(i)'
  <2>1. CASE pc = "data" /\ sent < Head(plan).n /\ Take
    BY <1>1, <2>1, TakeKeeps
  <2>2. CASE UNCHANGED <<mem, ptr, latch>>
    <3>1. /\ mem' \in [Cell' -> 0 .. Stray]
          /\ DOMAIN latch' \subseteq Cell' /\ \A x \in DOMAIN latch' : latch'[x] \in 0 .. Stray
          /\ Contents' /\ Ordered'
      BY <1>1, <2>2, Keeps DEF Writing
    <3>2. /\ build.dev = "FRAM" => DOMAIN latch = {}
          /\ \A x \in DOMAIN latch : x[1] \in cycle \/ x[1] = Selected
      BY DEF IInv, Latched
    <3>3. \A i \in 1 .. Past : Safe(i)
      BY <1>1 DEF IInv, Complete
    <3>4. \A i \in 1 .. Past : Safe(i)'
      BY <1>1, <1>2, <2>2, <3>3 DEF Safe
    <3>5. ptr' \in 0 .. Bank - 1
      BY <2>2 DEF IInv, TypeOK
    <3>6. QED
      BY <2>2, <3>1, <3>2, <3>4, <3>5
  <2>3. QED
    BY <2>1, <2>2 DEF WriteNack
<1>5. TypeOK'
  <2>1. 0 \in 0 .. PageSize
    BY Sizes
  <2>2. QED
    BY <1>1, <1>2, <1>4, <2>1 DEF IInv, TypeOK
<1>6. Stage'
  BY <1>1, <1>3 DEF Stage
<1>7. Latched'
  BY <1>1, <1>2, <1>4 DEF Latched
<1>8. Complete'
  BY <1>1, <1>2, <1>4 DEF Complete
<1>9. Fetched'
  BY <1>1 DEF Fetched
<1>10. QED
  BY <1>2, <1>4, <1>5, <1>6, <1>7, <1>8, <1>9 DEF IInv

LEMMA StopKeeps ==
  ASSUME IInv, Stop
  PROVE  IInv'
<1>1. /\ pc = "data" /\ sent = Head(plan).n /\ Done
      /\ cycle' = {x[1] : x \in DOMAIN latch}
      /\ UNCHANGED <<build, mem, latch, held, op, addr, num, got, missed, astray>>
  BY DEF Stop, call
<1>2. /\ Planned' /\ Past' = Past + sent
      /\ pc' \in {"idle", "poll"} /\ sent' = 0 /\ (pc' = "idle" <=> plan' = << >>)
      /\ wait_eeprom_idle' \in BOOLEAN /\ ptr' \in 0 .. Bank - 1
  BY <1>1, NextTransfer
<1>3. Cell' = Cell /\ Chips' = Chips /\ \A i : Home(i)' = Home(i)
  BY <1>1, SameCall
<1>4. /\ mem' \in [Cell' -> 0 .. Stray]
      /\ DOMAIN latch' \subseteq Cell' /\ \A x \in DOMAIN latch' : latch'[x] \in 0 .. Stray
      /\ Contents' /\ Ordered'
  BY <1>1, Keeps DEF Writing
<1>5. op = "write"
  BY <1>1 DEF IInv, Stage
<1>6. TypeOK'
  <2>1. cycle' \subseteq Chips /\ 0 \in 0 .. PageSize
    <3>1. \A x \in Cell : x[1] \in Chips
      BY DEF Cell
    <3>2. DOMAIN latch \subseteq Cell
      BY DEF IInv, TypeOK
    <3>3. QED
      BY <1>1, <3>1, <3>2, Sizes
  <2>2. \A t \in ToSet(plan') : /\ t.a \in 0 .. Bank - 1
                                /\ t.n \in 0 .. PageSize
                                /\ t.from + t.n <= num'
    BY <1>2, PlanTypes DEF Planned
  <2>3. QED
    BY <1>1, <1>2, <1>3, <1>4, <2>1, <2>2 DEF IInv, TypeOK
<1>7. Stage'
  BY <1>1, <1>2, <1>5 DEF Stage
<1>8. Latched'
  <2>1. \A x \in DOMAIN latch' : x[1] \in cycle'
    BY <1>1
  <2>2. build'.dev = "FRAM" => DOMAIN latch' = {}
    BY <1>1 DEF IInv, Latched
  <2>3. QED
    BY <1>2, <2>1, <2>2 DEF Latched
<1>9. Complete'
  <2>1. /\ \A i \in 1 .. Past : Safe(i)
        /\ \A i \in Past + 1 .. Past + sent : Taken(i)
    BY <1>1, <1>5 DEF IInv, Complete
  <2>2. ASSUME NEW i \in 1 .. Past' PROVE Safe(i)'
    <3>1. Past \in Nat /\ sent \in Nat
      BY <1>1, PastFacts, HomeFacts, Current DEF IInv
    <3>2. CASE i <= Past
      <4>1. Safe(i)
        BY <2>1, <3>1, <3>2
      <4>2. QED
        BY <1>1, <1>3, <4>1 DEF Safe
    <3>3. CASE ~ (i <= Past)
      <4>1. Taken(i)
        BY <1>2, <2>1, <3>1, <3>3
      <4>2. build.dev = "FRAM" => DOMAIN latch = {}
        BY DEF IInv, Latched
      <4>3. QED
        BY <1>1, <1>3, <4>1, <4>2 DEF Safe, Taken
    <3>4. QED
      BY <3>2, <3>3
  <2>3. QED
    BY <1>2, <2>2 DEF Complete
<1>10. Fetched'
  BY <1>1, <1>5 DEF Fetched
<1>11. QED
  BY <1>2, <1>4, <1>6, <1>7, <1>8, <1>9, <1>10 DEF IInv

LEMMA CycleEndKeeps ==
  ASSUME IInv, NEW c \in Chips, CycleEnd(c)
  PROVE  IInv'
<1> DEFINE cells == {x \in DOMAIN latch : x[1] = c}
<1>1. /\ c \in cycle /\ cycle' = cycle \ {c}
      /\ UNCHANGED <<build, ptr, held, pc, op, addr, num, plan, sent, got, missed, astray, wait_eeprom_idle>>
  BY DEF CycleEnd, call
<1>2. /\ mem' = [x \in Cell |-> IF x \in cells THEN latch[x] ELSE mem[x]]
      /\ cells \in SUBSET DOMAIN latch /\ \A x : x \in cells <=> x \in DOMAIN latch /\ x[1] = c
  BY DEF CycleEnd, Program
<1>3. /\ DOMAIN latch' = DOMAIN latch \ cells
      /\ \A x \in DOMAIN latch' : latch'[x] = latch[x]
  BY DEF CycleEnd, Restrict
<1> HIDE DEF cells
<1>4. /\ mem' \in [Cell' -> 0 .. Stray]
      /\ DOMAIN latch' \subseteq Cell' /\ \A x \in DOMAIN latch' : latch'[x] \in 0 .. Stray
      /\ Contents' /\ Ordered'
  BY <1>1, <1>2, <1>3, Settles DEF Writing
<1>5. /\ Planned' /\ Past' = Past /\ Selected' = Selected
      /\ Cell' = Cell /\ Chips' = Chips /\ \A i : Home(i)' = Home(i)
  BY <1>1, SamePlan, SameCall DEF IInv
<1>6. TypeOK'
  BY <1>1, <1>4, <1>5 DEF IInv, TypeOK
<1>7. Stage'
  BY <1>1 DEF IInv, Stage
<1>8. Latched'
  BY <1>1, <1>2, <1>3, <1>5 DEF IInv, Latched
<1>9. Complete'
  <2> SUFFICES ASSUME op = "write"
               PROVE  /\ \A i \in 1 .. Past : Safe(i)'
                      /\ pc = "data" => \A i \in Past + 1 .. Past + sent : Taken(i)'
    BY <1>1, <1>5 DEF Complete
  <2>1. Past \in 0 .. num /\ num \in Nat
    BY PastFacts, HomeFacts DEF IInv
  <2>2. ASSUME NEW i \in 1 .. Past PROVE Safe(i)'
    <3>1. Safe(i) /\ Home(i) \in Cell
      BY <2>1, HomeFacts DEF IInv, Complete
    <3>2. QED
      BY <1>1, <1>2, <1>3, <1>5, <3>1 DEF Safe
  <2>3. ASSUME pc = "data", NEW i \in Past + 1 .. Past + sent PROVE Taken(i)'
    <3>1. Taken(i)
      BY <2>3 DEF IInv, Complete
    <3>2. CASE build.dev = "FRAM"
      <4>1. DOMAIN latch = {} /\ mem \in [Cell -> 0 .. Stray]
        BY <3>2 DEF IInv, Latched, TypeOK
      <4>2. mem' = mem
        BY <1>2, <4>1
      <4>3. QED
        BY <1>1, <1>5, <3>1, <3>2, <4>2 DEF Taken
    <3>3. CASE build.dev # "FRAM"
      <4>1. Home(i) \in DOMAIN latch /\ latch[Home(i)] = i
        BY <3>1, <3>3 DEF Taken
      <4>2. Home(i)[1] = Selected /\ Selected # c
        <5>1. sent <= Head(plan).n /\ Selected \notin cycle
          BY <2>3 DEF IInv, Stage, Latched
        <5>2. i - Past \in 1 .. Head(plan).n /\ i = Past + (i - Past)
          BY <2>1, <2>3, <5>1, Current DEF IInv, TypeOK
        <5>3. Home(i) = <<Selected, Head(plan).a + (i - Past) - 1>>
          BY <2>3, <5>2, Current
        <5>4. QED
          BY <1>1, <5>1, <5>3
      <4>3. Home(i) \in DOMAIN latch'
        BY <1>2, <1>3, <4>1, <4>2
      <4>4. QED
        BY <1>1, <1>3, <1>5, <3>3, <4>1, <4>3 DEF Taken
    <3>4. QED
      BY <3>2, <3>3
  <2>4. QED
    BY <2>2, <2>3
<1>10. Fetched'
  <2>1. \A x \in Cell : Clean(x) => Clean(x)'
    BY <1>2, <1>3 DEF Clean
  <2>2. QED
    BY <1>1, <1>5, <2>1, FetchedKept
<1>11. QED
  BY <1>4, <1>5, <1>6, <1>7, <1>8, <1>9, <1>10 DEF IInv

LEMMA PowerLossKeeps ==
  ASSUME IInv, PowerLoss
  PROVE  IInv'
<1>1. /\ ptr' = 0 /\ latch' = << >> /\ cycle' = {} /\ held' = FALSE
      /\ pc' = "idle" /\ plan' = << >> /\ sent' = 0
      /\ op' = IF op \in {"write", "cut"} THEN "cut" ELSE "none"
      /\ got' = << >> /\ missed' = {} /\ astray' = {} /\ wait_eeprom_idle' = FALSE
      /\ UNCHANGED <<build, addr, num>>
  BY DEF PowerLoss
<1>2. PICK cells \in SUBSET {x \in DOMAIN latch : x[1] \in cycle} : Program(cells)
  BY DEF PowerLoss
<1>3. /\ cells \in SUBSET DOMAIN latch
      /\ mem' = [x \in Cell |-> IF x \in cells THEN latch[x] ELSE mem[x]]
  BY <1>2 DEF Program
<1>4. DOMAIN latch' = {}
  BY <1>1
<1>5. /\ mem' \in [Cell' -> 0 .. Stray]
      /\ DOMAIN latch' \subseteq Cell' /\ \A x \in DOMAIN latch' : latch'[x] \in 0 .. Stray
      /\ Contents' /\ Ordered'
  BY <1>1, <1>3, <1>4, Settles DEF Writing
<1>6. Past' = num /\ Planned'
  <2>1. Past' = num
    BY <1>1 DEF Past
  <2>2. QED
    BY <1>1, <2>1, ChainNone DEF IInv, Planned
<1>7. TypeOK'
  <2>1. 0 \in 0 .. Bank - 1 /\ 0 \in 0 .. PageSize /\ cycle' \subseteq Chips'
        /\ missed' \subseteq 1 .. num' /\ astray' \subseteq 1 .. num'
    BY <1>1, Sizes
  <2>2. \A t \in ToSet(plan') : /\ t.a \in 0 .. Bank - 1
                                /\ t.n \in 0 .. PageSize
                                /\ t.from + t.n <= num'
    BY <1>6, PlanTypes DEF Planned
  <2>3. \A i \in DOMAIN got' : got'[i] \in Cell' \cup {Kept, Wrong}
    BY <1>1
  <2>4. /\ build' \in [dev : {"FRAM", "EEPROM"}, chips : {1, 2}]
        /\ addr' \in 0 .. build'.chips * Bank - 1 /\ num' \in 0 .. MaxNum
    BY <1>1 DEF IInv, TypeOK
  <2>5. /\ ptr' \in 0 .. Bank - 1 /\ held' \in BOOLEAN /\ wait_eeprom_idle' \in BOOLEAN
        /\ pc' \in {"idle", "poll", "address", "data", "receive"}
        /\ op' \in {"none", "write", "read", "cut"} /\ sent' \in 0 .. PageSize
    BY <1>1, <2>1
  <2>6. QED
    BY <1>5, <2>1, <2>2, <2>3, <2>4, <2>5 DEF TypeOK
<1>8. Stage' /\ Latched' /\ Complete' /\ Fetched'
  BY <1>1, <1>4 DEF Stage, Latched, Complete, Fetched
<1>9. QED
  BY <1>5, <1>6, <1>7, <1>8 DEF IInv

(* The inductive step.                                                     *)
LEMMA StepKeeps == IInv /\ [Next]_vars => IInv'
<1> SUFFICES ASSUME IInv, [Next]_vars PROVE IInv'
  OBVIOUS
<1>1. ASSUME NEW a \in 0 .. 2 * Bank - 1, NEW n \in 1 .. MaxNum,
             eeprom_write(a, n) \/ eeprom_read(a, n)
      PROVE  IInv'
  BY <1>1, CallKeeps
<1>2. ASSUME NEW a \in 0 .. 2 * Bank - 1, NEW n \in 1 .. MaxRead, eeprom_read(a, n)
      PROVE  IInv'
  <2>1. n \in 1 .. MaxNum
    BY Sizes
  <2>2. QED
    BY <1>1, <1>2, <2>1
<1>3. CASE Waiter
  BY <1>3, WaiterKeeps
<1>4. CASE Main
  BY <1>4, ReadyKeeps, AddressKeeps, DataKeeps, StopKeeps, ReceiveKeeps, WriteNackKeeps,
     ReadNackKeeps, HighByteLostKeeps, StartFailsKeeps DEF Main
<1>5. CASE PowerLoss
  BY <1>5, PowerLossKeeps
<1>6. ASSUME NEW c \in Chips, CycleEnd(c) PROVE IInv'
  BY <1>6, CycleEndKeeps
<1>7. CASE UNCHANGED vars
  <2>1. UNCHANGED <<build, mem, ptr, latch, cycle, held, pc, op, addr, num, plan, sent, got,
                    missed, astray, wait_eeprom_idle>>
    BY <1>7 DEF vars, bus, call
  <2>2. Planned' /\ Past' = Past /\ Selected' = Selected
    BY <2>1, SamePlan DEF IInv
  <2>3. /\ Cell' = Cell /\ Chips' = Chips /\ \A i : Home(i)' = Home(i)
        /\ \A i, j : Before(i, j)' <=> Before(i, j)
    BY <2>1, SameCall
  <2>4. TypeOK' /\ Stage' /\ Latched'
    BY <2>1, <2>2, <2>3 DEF IInv, TypeOK, Stage, Latched
  <2>5. Contents' /\ Complete'
    BY <2>1, <2>2, <2>3 DEF IInv, Contents, Proper, Writing, Complete, Safe, Taken
  <2>6. Ordered' /\ Fetched'
    BY <2>1, <2>2, <2>3 DEF IInv, Ordered, Begun, Fetched, Byte, Clean
  <2>7. QED
    BY <2>2, <2>4, <2>5, <2>6 DEF IInv
<1>8. QED
  BY <1>1, <1>2, <1>3, <1>4, <1>5, <1>6, <1>7 DEF Next

-----------------------------------------------------------------------------
(* What the invariant says of a call that is over, and of power cut.       *)
LEMMA FinishedWrite == IInv => Written
<1> SUFFICES ASSUME IInv, pc = "idle", op = "write"
             PROVE  /\ \A i \in 1 .. num : Home(i) \in DOMAIN latch \/ mem[Home(i)] = i
                    /\ \A i \in 1 .. num : Home(i) \in DOMAIN latch => latch[Home(i)] = i
                    /\ \A x \in DOMAIN latch : x \in Homes \/ latch[x] = Old
                    /\ \A x \in Cell : x \in Homes \/ mem[x] = Old
  BY DEF Written
<1>1. Past = num
  BY DEF IInv, Stage, Past
<1>2. \A i \in 1 .. num : Safe(i)
  BY <1>1 DEF IInv, Complete
<1>3. \A x, v : Proper(x, v) => v = Old \/ x \in Homes
  BY DEF Proper, Writing, Homes
<1>4. /\ \A x \in Cell : Proper(x, mem[x])
      /\ \A x \in DOMAIN latch : Proper(x, latch[x])
  BY DEF IInv, Contents
<1>5. QED
  BY <1>2, <1>3, <1>4 DEF Safe

LEMMA OrderedPages == IInv => PagesInOrder
<1> SUFFICES ASSUME IInv, Writing
             PROVE  /\ \A x \in Cell \ Homes : mem[x] = Old
                    /\ \A i \in 1 .. num : mem[Home(i)] \in {Old, i}
                    /\ \A i, j \in 1 .. num : Before(i, j) /\ mem[Home(j)] = j => mem[Home(i)] = i
  BY DEF PagesInOrder, Before, Writing
<1>1. \A x \in Cell : Proper(x, mem[x])
  BY DEF IInv, Contents
<1>2. \A x \in Cell \ Homes : mem[x] = Old
  BY <1>1 DEF Proper, Homes
<1>3. ASSUME NEW i \in 1 .. num PROVE mem[Home(i)] \in {Old, i}
  <2>1. Home(i) \in Cell /\ \A j \in 1 .. num : Home(i) = Home(j) => j = i
    BY HomeFacts DEF IInv
  <2>2. Proper(Home(i), mem[Home(i)])
    BY <1>1, <2>1
  <2>3. QED
    BY <2>1, <2>2 DEF Proper
<1>4. \A i, j \in 1 .. num : Before(i, j) /\ mem[Home(j)] = j => mem[Home(i)] = i
  BY DEF IInv, Ordered, Begun
<1>5. QED
  BY <1>2, <1>3, <1>4

LEMMA FinishedRead == IInv => ReadBack
<1> SUFFICES ASSUME IInv, pc = "idle", op = "read", NEW i \in 1 .. num
             PROVE  \/ got[i] = Home(i)
                    \/ got[i] = Kept /\ i \in missed
                    \/ got[i] = Wrong /\ i \in astray
  BY DEF ReadBack
<1>1. Past = num
  BY DEF IInv, Stage, Past
<1>2. QED
  BY <1>1 DEF IInv, Fetched, Byte

(* The driver's state keeps its type, with the transfers of the plan       *)
(* inside the chip and the call, for every page and chip size.             *)
THEOREM TypeCorrect == Spec => []TypeOK
<1>1. IInv => TypeOK
  BY DEF IInv
<1>2. QED
  BY <1>1, InitInv, StepKeeps, PTL DEF Spec

(* When eeprom_write returns, each byte of the call is stored at its       *)
(* address or in a write cycle that runs, and no other cell was changed,   *)
(* however often a page was refused and sent again.                        *)
THEOREM WriteComplete == Spec => []Written
<1>1. QED
  BY FinishedWrite, InitInv, StepKeeps, PTL DEF Spec

(* Wherever power fails, each cell is as before or has its byte, and the   *)
(* pages of a chip were changed in order.                                  *)
THEOREM PagesOrdered == Spec => []PagesInOrder
<1>1. QED
  BY OrderedPages, InitInv, StepKeeps, PTL DEF Spec

(* When eeprom_read returns, each byte of the buffer is the one at its     *)
(* address, was left alone because its transfer failed, or is wrong and a  *)
(* failure that eeprom_read_byte does not look at hit its transfer or that *)
(* of a byte whose cell is near.                                           *)
THEOREM ReadRight == Spec => []ReadBack
<1>1. QED
  BY FinishedRead, InitInv, StepKeeps, PTL DEF Spec
=============================================================================

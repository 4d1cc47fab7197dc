----------------------------- MODULE RtcProofs -----------------------------
(***************************************************************************)
(* For any dates it is set to, and any seconds in which it ticks: while    *)
(* the date is one after 1970-01-01 and not past 2099, the clock keeps its *)
(* type, measures the time that passes and shows the civil calendar.  The  *)
(* loops over years and months are brought to closed forms; as the         *)
(* provers know no induction over data, the first year or month at which a *)
(* form would fail is looked at, and shown not to be the first.            *)
(***************************************************************************)
EXTENDS Rtc, WellFoundedInduction, FiniteSetTheorems, TLAPS

-----------------------------------------------------------------------------
(* The days counted.                                                       *)

(* A set of numbers that is not empty has a least one.                     *)
LEMMA Least ==
  ASSUME NEW S \in SUBSET Nat, S # {}
  PROVE  \E n \in S : \A m \in S : n <= m
<1>1. PICK n \in S : \A m \in S : ~ (<<m, n>> \in OpToRel(<, Nat))
  BY NatLessThanWellFounded, WFMin
<1>2. \A m \in S : ~ (m < n)
  BY <1>1, Zenon DEF OpToRel
<1>3. QED
  BY <1>2

(* The leap years of the range are every fourth, but not 2100.             *)
LEMMA LeapYears ==
  ASSUME NEW y \in 1970 .. 2107
  PROVE  Is_LeapYear(y) <=> y % 4 = 0 /\ y # 2100
<1>1. y % 400 = 0 => y = 2000
  BY Z3
<1>2. y % 100 = 0 <=> y \in {2000, 2100}
  BY Z3
<1>3. QED
  BY <1>1, <1>2, Z3 DEF Is_LeapYear

Leaps(y) == {x \in 1970 .. y - 1 : Is_LeapYear(x)}
LeapCount(y) == ((y - 1969) \div 4) - (IF y > 2100 THEN 1 ELSE 0)

(* One year more is in the set, or it is not a leap year.                  *)
LEMMA LeapsStep ==
  ASSUME NEW y \in 1971 .. 2107
  PROVE  /\ IsFiniteSet(Leaps(y - 1))
         /\ Cardinality(Leaps(y)) = Cardinality(Leaps(y - 1)) + IF Is_LeapYear(y - 1) THEN 1 ELSE 0
<1>1. IsFiniteSet(Leaps(y - 1))
  <2>1. IsFiniteSet(1970 .. (y - 1) - 1)
    BY FS_Interval
  <2>2. Leaps(y - 1) \in SUBSET (1970 .. (y - 1) - 1)
    BY DEF Leaps
  <2>3. QED
    BY <2>1, <2>2, FS_Subset
<1>2. CASE Is_LeapYear(y - 1)
  <2>1. Leaps(y) = Leaps(y - 1) \cup {y - 1}
    BY <1>2 DEF Leaps
  <2>2. y - 1 \notin Leaps(y - 1)
    BY DEF Leaps
  <2>3. QED
    BY <1>1, <1>2, <2>1, <2>2, FS_AddElement
<1>3. CASE ~ Is_LeapYear(y - 1)
  <2>1. Leaps(y) = Leaps(y - 1)
    <3>1. ASSUME NEW x \in Leaps(y) PROVE x \in Leaps(y - 1)
      <4>1. x \in 1970 .. y - 1 /\ Is_LeapYear(x)
        BY DEF Leaps
      <4>2. ASSUME x = y - 1 PROVE FALSE
        BY <1>3, <4>1, <4>2
      <4>3. x \in 1970 .. (y - 1) - 1
        BY <4>1, <4>2
      <4>4. QED
        BY <4>1, <4>3 DEF Leaps
    <3>2. Leaps(y - 1) \subseteq Leaps(y)
      BY DEF Leaps
    <3>3. QED
      BY <3>1, <3>2
  <2>2. QED
    BY <1>1, <1>3, <2>1, FS_CardinalityType
<1>4. QED
  BY <1>1, <1>2, <1>3

LEMMA LeapsCounted == \A y \in 1970 .. 2107 : Cardinality(Leaps(y)) = LeapCount(y)
<1> DEFINE Wrong == {y \in 1970 .. 2107 : Cardinality(Leaps(y)) # LeapCount(y)}
<1>1. SUFFICES ASSUME Wrong # {} PROVE FALSE
  OBVIOUS
<1>2. PICK y \in Wrong : \A x \in Wrong : y <= x
  <2>1. Wrong \in SUBSET Nat
    OBVIOUS
  <2> HIDE DEF Wrong
  <2>2. QED
    BY <1>1, <2>1, Least
<1>3. y \in 1970 .. 2107
  OBVIOUS
<1>4. y # 1970
  <2>1. Leaps(1970) = {}
    BY DEF Leaps
  <2>2. Cardinality(Leaps(1970)) = LeapCount(1970)
    BY <2>1, FS_EmptySet, Z3 DEF LeapCount
  <2>3. QED
    BY <2>2
<1>5. y - 1 \in 1970 .. 2107 /\ y \in 1971 .. 2107
  BY <1>3, <1>4
<1>6. Cardinality(Leaps(y - 1)) = LeapCount(y - 1)
  <2>1. y - 1 \notin Wrong
    <3> HIDE DEF Wrong
    <3>1. QED
      BY <1>2, <1>3
  <2>2. QED
    BY <1>5, <2>1
<1>7. Is_LeapYear(y - 1) <=> (y - 1) % 4 = 0 /\ y - 1 # 2100
  BY <1>5, LeapYears
<1>8. LeapCount(y) = LeapCount(y - 1) + IF Is_LeapYear(y - 1) THEN 1 ELSE 0
  BY <1>5, <1>7, Z3 DEF LeapCount
<1>9. Cardinality(Leaps(y)) = LeapCount(y)
  BY <1>5, <1>6, <1>8, LeapsStep
<1>10. QED
  BY <1>9

LEMMA YearsCounted ==
  ASSUME NEW y \in 1970 .. 2107
  PROVE  YearsBefore[y] = 365 * (y - 1970) + LeapCount(y)
<1>1. YearsBefore[y] = 365 * (y - 1970) + Cardinality(Leaps(y))
  BY DEF YearsBefore, Leaps
<1>2. QED
  BY <1>1, LeapsCounted

(* The months before m, but for February, alternate in length.             *)
MonthCount(m) == 30 * (m - 1) + ((m + IF m > 8 THEN 1 ELSE 0) \div 2)
                 - IF m < 3 THEN 0 ELSE 2

LEMMA MonthStep ==
  ASSUME NEW m \in 2 .. 13
  PROVE  MonthCount(m) = MonthCount(m - 1) + month_table[m - 1]
BY Z3 DEF MonthCount, month_table

(* The recursive definition has a solution, so it defines one.             *)
LEMMA MonthsLoop ==
  \A m \in 1 .. 13 : PlainMonths[m] = IF m = 1 THEN 0 ELSE PlainMonths[m - 1] + month_table[m - 1]
<1> DEFINE Body(f) == [m \in 1 .. 13 |-> IF m = 1 THEN 0 ELSE f[m - 1] + month_table[m - 1]]
           Closed == [m \in 1 .. 13 |-> MonthCount(m)]
<1>1. Closed = Body(Closed)
  <2>1. ASSUME NEW m \in 1 .. 13
        PROVE  MonthCount(m) = IF m = 1 THEN 0 ELSE Closed[m - 1] + month_table[m - 1]
    <3>1. CASE m = 1
      BY <3>1, Z3 DEF MonthCount
    <3>2. CASE m # 1
      <4>1. m \in 2 .. 13 /\ m - 1 \in 1 .. 13
        BY <3>2
      <4>2. Closed[m - 1] = MonthCount(m - 1)
        BY <4>1
      <4>3. QED
        BY <3>2, <4>1, <4>2, MonthStep
    <3>3. QED
      BY <3>1, <3>2
  <2>2. QED
    BY <2>1
<1>2. PlainMonths = CHOOSE f : f = Body(f)
  BY DEF PlainMonths
<1>3. PlainMonths = Body(PlainMonths)
  <2> HIDE DEF Body, Closed
  <2>1. QED
    BY <1>1, <1>2
<1>4. QED
  BY <1>3

LEMMA MonthsCounted == \A m \in 1 .. 13 : PlainMonths[m] = MonthCount(m)
<1>1. PlainMonths[1] = MonthCount(1)
  BY MonthsLoop, Z3 DEF MonthCount
<1>2. ASSUME NEW m \in 2 .. 13, PlainMonths[m - 1] = MonthCount(m - 1)
      PROVE  PlainMonths[m] = MonthCount(m)
  BY <1>2, MonthsLoop, MonthStep
<1>3. PlainMonths[2] = MonthCount(2)
  BY <1>1, <1>2
<1>4. PlainMonths[3] = MonthCount(3)
  BY <1>3, <1>2
<1>5. PlainMonths[4] = MonthCount(4)
  BY <1>4, <1>2
<1>6. PlainMonths[5] = MonthCount(5)
  BY <1>5, <1>2
<1>7. PlainMonths[6] = MonthCount(6)
  BY <1>6, <1>2
<1>8. PlainMonths[7] = MonthCount(7)
  BY <1>7, <1>2
<1>9. PlainMonths[8] = MonthCount(8)
  BY <1>8, <1>2
<1>10. PlainMonths[9] = MonthCount(9)
  BY <1>9, <1>2
<1>11. PlainMonths[10] = MonthCount(10)
  BY <1>10, <1>2
<1>12. PlainMonths[11] = MonthCount(11)
  BY <1>11, <1>2
<1>13. PlainMonths[12] = MonthCount(12)
  BY <1>12, <1>2
<1>14. PlainMonths[13] = MonthCount(13)
  BY <1>13, <1>2
<1>15. QED
  BY <1>1, <1>3, <1>4, <1>5, <1>6, <1>7, <1>8, <1>9, <1>10, <1>11, <1>12, <1>13, <1>14

-----------------------------------------------------------------------------
(* The search for the year and the month.                                  *)

(* The legal years, their ends, and the last day of 2099.                  *)
Years == 1970 .. 2099
Ends == 1970 .. 2100
LastDay == 47481

(* The numbers in the sets below that have names.                          *)
LEMMA Limits == DAY = 86400 /\ LastDay = 47481 /\ MAX_DAY = 49710
BY DEF DAY, LastDay, MAX_DAY

YearDays(y) == IF Is_LeapYear(y) THEN 366 ELSE 365

LEMMA YearsAtEnds == YearsBefore[1970] = 0 /\ YearsBefore[2100] = LastDay + 1
<1>1. YearsBefore[1970] = 365 * (1970 - 1970) + LeapCount(1970)
  BY YearsCounted
<1>2. YearsBefore[2100] = 365 * (2100 - 1970) + LeapCount(2100)
  BY YearsCounted
<1>3. QED
  BY <1>1, <1>2, Z3 DEF LeapCount, LastDay

LEMMA YearBounds ==
  ASSUME NEW y \in 1970 .. 2099
  PROVE  /\ YearsBefore[y] \in Nat /\ YearsBefore[y + 1] \in Nat
         /\ 365 * (y - 1970) <= YearsBefore[y]
         /\ YearsBefore[y + 1] <= 366 * (y - 1969)
         /\ YearsBefore[y + 1] = YearsBefore[y] + YearDays(y)
<1>1. YearsBefore[y] = 365 * (y - 1970) + LeapCount(y)
  BY YearsCounted
<1>2. YearsBefore[y + 1] = 365 * ((y + 1) - 1970) + LeapCount(y + 1)
  <2>1. y + 1 \in 1970 .. 2107
    OBVIOUS
  <2>2. QED
    BY <2>1, YearsCounted
<1>3. LeapCount(y) \in 0 .. y - 1970 /\ LeapCount(y + 1) \in 0 .. y - 1969
  BY Z3 DEF LeapCount
<1>4. LeapCount(y + 1) = LeapCount(y) + IF y % 4 = 0 THEN 1 ELSE 0
  BY Z3 DEF LeapCount
<1>5. Is_LeapYear(y) <=> y % 4 = 0
  BY LeapYears
<1>6. LeapCount(y + 1) = LeapCount(y) + IF Is_LeapYear(y) THEN 1 ELSE 0
  BY <1>4, <1>5
<1>7. QED
  BY <1>1, <1>2, <1>3, <1>6 DEF YearDays

LEMMA YearLength ==
  ASSUME NEW y \in Years
  PROVE  /\ YearsBefore[y] \in Nat /\ YearsBefore[y + 1] \in Nat
         /\ YearsBefore[y + 1] = YearsBefore[y] + YearDays(y)
BY YearBounds DEF Years

LEMMA YearsOrdered ==
  ASSUME NEW y \in Ends, NEW z \in Ends, y < z
  PROVE  /\ YearsBefore[y + 1] \in Nat /\ YearsBefore[z] \in Nat
         /\ YearsBefore[y + 1] <= YearsBefore[z]
<1>0. y \in 1970 .. 2100 /\ z \in 1970 .. 2100 /\ y < z
  BY DEF Ends
<1>1. YearsBefore[y + 1] = 365 * ((y + 1) - 1970) + LeapCount(y + 1)
  <2>1. y + 1 \in 1970 .. 2107
    BY <1>0
  <2>2. QED
    BY <2>1, YearsCounted
<1>2. YearsBefore[z] = 365 * (z - 1970) + LeapCount(z)
  BY <1>0, YearsCounted
<1>3. LeapCount(y + 1) <= LeapCount(z) /\ LeapCount(y + 1) \in Nat /\ LeapCount(z) \in Nat
  BY <1>0, Z3 DEF LeapCount
<1>4. QED
  BY <1>0, <1>1, <1>2, <1>3

(* RTC_Get finds the year of any day from 1970 to 2099.                    *)
LEMMA YearFound ==
  ASSUME NEW d \in Nat, d <= LastDay
  PROVE  /\ YearOf(d) \in Years
         /\ YearsBefore[YearOf(d)] <= d
         /\ d < YearsBefore[YearOf(d) + 1]
<1>0. d <= 47481 /\ YearsBefore[2100] = 47482
  BY Limits, YearsAtEnds
<1> DEFINE Later == {y \in Ends : d < YearsBefore[y]}
           Candidates == 1970 + (d \div 366) .. 1970 + (d \div 365)
<1>1. 2100 \in Later
  BY <1>0 DEF Ends
<1>2. PICK z \in Later : \A x \in Later : z <= x
  <2>1. Later \in SUBSET Nat
    BY DEF Ends
  <2> HIDE DEF Later
  <2>2. QED
    BY <1>1, <2>1, Least
<1>3. z \in 1970 .. 2100 /\ d < YearsBefore[z]
  BY DEF Ends
<1>4. z # 1970
  BY <1>0, <1>3, YearsAtEnds
<1>5. PICK y \in 1970 .. 2099 : z = y + 1
  <2>1. z - 1 \in 1970 .. 2099 /\ z = (z - 1) + 1
    BY <1>3, <1>4
  <2>2. QED
    BY <2>1
<1>6. y \notin Later
  <2> HIDE DEF Later
  <2>1. QED
    BY <1>2, <1>5
<1>7. /\ YearsBefore[y] \in Nat /\ 365 * (y - 1970) <= YearsBefore[y]
       /\ YearsBefore[y + 1] \in Nat /\ YearsBefore[y + 1] <= 366 * (y - 1969)
  BY <1>5, YearBounds
<1>8. YearsBefore[y] <= d
  BY <1>0, <1>5, <1>7, <1>6 DEF Ends
<1>9. y \in Candidates
  <2>1. 365 * (y - 1970) <= d /\ d < 366 * (y - 1969)
    BY <1>0, <1>3, <1>5, <1>7, <1>8
  <2>2. QED
    BY <1>0, <2>1, Z3
<1>10. \E x \in Candidates : YearsBefore[x] <= d /\ d < YearsBefore[x + 1]
  BY <1>3, <1>5, <1>8, <1>9
<1>11. YearOf(d) \in Candidates /\ YearsBefore[YearOf(d)] <= d /\ d < YearsBefore[YearOf(d) + 1]
  <2> HIDE DEF Candidates
  <2>1. YearOf(d) = CHOOSE x \in Candidates : YearsBefore[x] <= d /\ d < YearsBefore[x + 1]
    BY DEF YearOf, Candidates
  <2>2. QED
    BY <1>10, <2>1
<1>12. YearOf(d) \in 1970 .. 2100
  BY <1>0, <1>11, Z3
<1>13. YearOf(d) # 2100
  BY <1>0, <1>11
<1>14. QED
  BY <1>11, <1>12, <1>13 DEF Years

(* No other year would do.                                                 *)
LEMMA OneYear ==
  ASSUME NEW y \in Years, NEW z \in Years, NEW d \in Nat,
         YearsBefore[y] <= d, d < YearsBefore[y + 1],
         YearsBefore[z] <= d, d < YearsBefore[z + 1]
  PROVE  y = z
<1>1. y \in Ends /\ z \in Ends /\ y \in Int /\ z \in Int
  BY DEF Years, Ends
<1>2. ASSUME y < z
      PROVE  /\ YearsBefore[y + 1] \in Nat /\ YearsBefore[z] \in Nat
             /\ YearsBefore[y + 1] <= YearsBefore[z]
  BY <1>1, <1>2, YearsOrdered, Zenon
<1>3. ASSUME z < y
      PROVE  /\ YearsBefore[z + 1] \in Nat /\ YearsBefore[y] \in Nat
             /\ YearsBefore[z + 1] <= YearsBefore[y]
  BY <1>1, <1>3, YearsOrdered, Zenon
<1>4. QED
  BY <1>1, <1>2, <1>3

LEMMA MonthsOrdered ==
  ASSUME NEW y
  PROVE  /\ MonthsBefore(y, 1) = 0
         /\ MonthsBefore(y, 13) = YearDays(y)
         /\ \A m \in 1 .. 13 : /\ MonthsBefore(y, m) \in Nat
                               /\ MonthsBefore(y, m) <= 31 * (m - 1)
         /\ \A m, n \in 1 .. 13 : m < n => MonthsBefore(y, m + 1) <= MonthsBefore(y, n)
         /\ \A m \in 1 .. 12 : MonthsBefore(y, m + 1) - MonthsBefore(y, m) \in 28 .. 31
<1> DEFINE Leap == IF Is_LeapYear(y) THEN 1 ELSE 0
<1>1. Leap \in 0 .. 1
  OBVIOUS
<1>2. \A m \in 1 .. 13 : MonthsBefore(y, m) = MonthCount(m) + IF m > 2 THEN Leap ELSE 0
  BY MonthsCounted DEF MonthsBefore
<1>3. MonthsBefore(y, 13) = YearDays(y)
  <2>1. MonthCount(13) = 365
    BY Z3 DEF MonthCount
  <2>2. QED
    BY <1>2, <2>1 DEF YearDays
<1> HIDE DEF Leap
<1>4. MonthsBefore(y, 1) = 0
  BY <1>1, <1>2, Z3 DEF MonthCount
<1>5. ASSUME NEW m \in 1 .. 13
      PROVE  MonthsBefore(y, m) \in Nat /\ MonthsBefore(y, m) <= 31 * (m - 1)
  <2>1. MonthsBefore(y, m) = MonthCount(m) + IF m > 2 THEN Leap ELSE 0
    BY <1>2
  <2>2. QED
    BY <1>1, <2>1, Z3 DEF MonthCount
<1>6. ASSUME NEW m \in 1 .. 13, NEW n \in 1 .. 13, m < n
      PROVE  MonthsBefore(y, m + 1) <= MonthsBefore(y, n)
  <2>1. /\ MonthsBefore(y, m + 1) = MonthCount(m + 1) + IF m + 1 > 2 THEN Leap ELSE 0
        /\ MonthsBefore(y, n) = MonthCount(n) + IF n > 2 THEN Leap ELSE 0
    BY <1>2, <1>6
  <2>2. QED
    BY <1>1, <1>6, <2>1, Z3 DEF MonthCount
<1>7. ASSUME NEW m \in 1 .. 12
      PROVE  MonthsBefore(y, m + 1) - MonthsBefore(y, m) \in 28 .. 31
  <2>1. /\ MonthsBefore(y, m + 1) = MonthCount(m + 1) + IF m + 1 > 2 THEN Leap ELSE 0
        /\ MonthsBefore(y, m) = MonthCount(m) + IF m > 2 THEN Leap ELSE 0
    BY <1>2
  <2>2. QED
    BY <1>1, <2>1, Z3 DEF MonthCount
<1>8. QED
  BY <1>3, <1>4, <1>5, <1>6, <1>7

(* RTC_Get finds the month of any day of a year.                           *)
LEMMA MonthFound ==
  ASSUME NEW y, NEW d \in Nat, d < YearDays(y)
  PROVE  /\ MonthOf(y, d) \in 1 .. 12
         /\ MonthsBefore(y, MonthOf(y, d)) <= d
         /\ d < MonthsBefore(y, MonthOf(y, d) + 1)
<1> DEFINE Later == {m \in 1 .. 13 : d < MonthsBefore(y, m)}
           Candidates == 1 + (d \div 31) .. 12
<1>1. 13 \in Later
  BY MonthsOrdered DEF YearDays
<1>2. PICK n \in Later : \A x \in Later : n <= x
  <2>1. Later \in SUBSET Nat
    OBVIOUS
  <2> HIDE DEF Later
  <2>2. QED
    BY <1>1, <2>1, Least
<1>3. n \in 2 .. 13 /\ n - 1 \in 1 .. 12 /\ d < MonthsBefore(y, n)
  BY MonthsOrdered
<1>4. n - 1 \notin Later
  <2> HIDE DEF Later
  <2>1. QED
    BY <1>2, <1>3
<1>5. MonthsBefore(y, n - 1) <= d
  BY <1>3, <1>4, MonthsOrdered
<1>6. n - 1 \in Candidates
  <2>1. d < 31 * (n - 1)
    BY <1>3, MonthsOrdered
  <2>2. QED
    BY <1>3, <2>1, Z3
<1>7. \E m \in Candidates : MonthsBefore(y, m) <= d /\ d < MonthsBefore(y, m + 1)
  <2>1. (n - 1) + 1 = n
    BY <1>3
  <2>2. QED
    BY <1>3, <1>5, <1>6, <2>1
<1>8. MonthOf(y, d) \in Candidates /\ MonthsBefore(y, MonthOf(y, d)) <= d
      /\ d < MonthsBefore(y, MonthOf(y, d) + 1)
  <2> HIDE DEF Candidates
  <2>1. MonthOf(y, d) = CHOOSE m \in Candidates : MonthsBefore(y, m) <= d /\ d < MonthsBefore(y, m + 1)
    BY Zenon DEF MonthOf, Candidates
  <2>2. QED
    BY <1>7, <2>1
<1>9. MonthOf(y, d) \in 1 .. 12
  BY <1>8, Z3
<1>10. QED
  BY <1>8, <1>9

LEMMA OneMonth ==
  ASSUME NEW y, NEW m \in 1 .. 12, NEW n \in 1 .. 12, NEW d \in Nat,
         MonthsBefore(y, m) <= d, d < MonthsBefore(y, m + 1),
         MonthsBefore(y, n) <= d, d < MonthsBefore(y, n + 1)
  PROVE  m = n
<1>1. /\ MonthsBefore(y, m) \in Nat /\ MonthsBefore(y, m + 1) \in Nat
      /\ MonthsBefore(y, n) \in Nat /\ MonthsBefore(y, n + 1) \in Nat
  BY MonthsOrdered
<1>2. /\ m < n => MonthsBefore(y, m + 1) <= MonthsBefore(y, n)
      /\ n < m => MonthsBefore(y, n + 1) <= MonthsBefore(y, m)
  BY MonthsOrdered
<1>3. QED
  BY <1>1, <1>2

-----------------------------------------------------------------------------
(* Dates and days.                                                         *)

(* The day d of month m of year y exists, and is before 2100.              *)
Exists(y, m, d) == /\ y \in Years /\ m \in 1 .. 12 /\ d \in Nat \ {0}
                   /\ d <= MonthsBefore(y, m + 1) - MonthsBefore(y, m)

DayOf(y, m, d) == YearsBefore[y] + MonthsBefore(y, m) + d - 1

Days == 1 .. LastDay
Seconds == 0 .. DAY - 1
Counters == [day : Days, sec : Seconds]

LEMMA SecondsAre == \A s \in Seconds : s \in Nat /\ s <= DAY - 1
<1>1. DAY \in Nat
  BY Limits
<1>2. QED
  BY <1>1 DEF Seconds

(* The day of a date lies in its year and its month.                       *)
LEMMA DayWithin ==
  ASSUME NEW y, NEW m, NEW d, Exists(y, m, d)
  PROVE  /\ DayOf(y, m, d) \in Nat /\ DayOf(y, m, d) <= LastDay
         /\ YearsBefore[y] <= DayOf(y, m, d) /\ DayOf(y, m, d) < YearsBefore[y + 1]
         /\ MonthsBefore(y, m) <= DayOf(y, m, d) - YearsBefore[y]
         /\ DayOf(y, m, d) - YearsBefore[y] < MonthsBefore(y, m + 1)
         /\ YearsBefore[y] \in Nat /\ MonthsBefore(y, m) \in Nat /\ d \in 1 .. 31
<1>1. y \in Years /\ m \in 1 .. 12 /\ d \in Nat \ {0}
      /\ d <= MonthsBefore(y, m + 1) - MonthsBefore(y, m)
  BY DEF Exists
<1>2. /\ YearsBefore[y] \in Nat /\ YearsBefore[y + 1] \in Nat
      /\ YearsBefore[y + 1] = YearsBefore[y] + YearDays(y)
  BY <1>1, YearLength, Zenon
<1>3. MonthsBefore(y, m) \in Nat /\ MonthsBefore(y, m + 1) \in Nat
      /\ MonthsBefore(y, 13) = YearDays(y)
  BY <1>1, MonthsOrdered
<1>4. MonthsBefore(y, m + 1) <= MonthsBefore(y, 13)
  <2>1. CASE m = 12
    BY <2>1, <1>3
  <2>2. CASE m # 12
    <3>1. m + 1 \in 1 .. 13 /\ 13 \in 1 .. 13 /\ m + 1 < 13 /\ m \in 1 .. 13 /\ m < 13
      BY <1>1, <2>2
    <3>2. QED
      BY <3>1, MonthsOrdered
  <2>3. QED
    BY <2>1, <2>2
<1>5. YearsBefore[y + 1] <= LastDay + 1 /\ LastDay \in Nat
  <2>1. PICK z \in Ends : z = 2100
    BY DEF Ends
  <2>2. y \in Ends /\ y < z
    BY <1>1, <2>1 DEF Years, Ends
  <2>3. YearsBefore[y + 1] <= YearsBefore[z]
    BY <2>2, YearsOrdered, Zenon
  <2>4. QED
    BY <2>1, <2>3, YearsAtEnds DEF LastDay
<1>6. d \in 1 .. 31
  BY <1>1, MonthsOrdered
<1>7. QED
  BY <1>1, <1>2, <1>3, <1>4, <1>5, <1>6 DEF DayOf, YearDays

(* A day is the day of one date only.                                      *)
LEMMA OneDate ==
  ASSUME NEW y, NEW m, NEW d, Exists(y, m, d),
         NEW yy, NEW mm, NEW dd, Exists(yy, mm, dd),
         DayOf(y, m, d) = DayOf(yy, mm, dd)
  PROVE  y = yy /\ m = mm /\ d = dd
<1>1. y = yy
  <2>1. y \in Years /\ yy \in Years /\ DayOf(y, m, d) \in Nat
    BY DayWithin DEF Exists
  <2>2. /\ YearsBefore[y] <= DayOf(y, m, d) /\ DayOf(y, m, d) < YearsBefore[y + 1]
        /\ YearsBefore[yy] <= DayOf(y, m, d) /\ DayOf(y, m, d) < YearsBefore[yy + 1]
    BY DayWithin
  <2>3. QED
    BY <2>1, <2>2, OneYear, Zenon
<1>2. m = mm
  <2>1. m \in 1 .. 12 /\ mm \in 1 .. 12
    BY DEF Exists
  <2>2. DayOf(y, m, d) - YearsBefore[y] \in Nat
    BY DayWithin
  <2>3. /\ MonthsBefore(y, m) <= DayOf(y, m, d) - YearsBefore[y]
        /\ DayOf(y, m, d) - YearsBefore[y] < MonthsBefore(y, m + 1)
    BY DayWithin
  <2>4. /\ MonthsBefore(y, mm) <= DayOf(y, m, d) - YearsBefore[y]
        /\ DayOf(y, m, d) - YearsBefore[y] < MonthsBefore(y, mm + 1)
    BY <1>1, DayWithin
  <2>5. QED
    BY <2>1, <2>2, <2>3, <2>4, OneMonth
<1>3. d = dd
  BY <1>1, <1>2, DayWithin DEF DayOf
<1>4. QED
  BY <1>1, <1>2, <1>3

(* The year, the month and the day RTC_Get finds make the date of the day. *)
LEMMA Found ==
  ASSUME NEW n \in Nat, n <= LastDay
  PROVE  \E y, m, d : /\ Exists(y, m, d) /\ n = DayOf(y, m, d)
                      /\ y = YearOf(n) /\ m = MonthOf(y, n - YearsBefore[y])
                      /\ d = n - YearsBefore[y] - MonthsBefore(y, m) + 1
<1>1. PICK y \in Years : y = YearOf(n) /\ YearsBefore[y] <= n /\ n < YearsBefore[y + 1]
  <2>1. /\ YearOf(n) \in Years /\ YearsBefore[YearOf(n)] <= n
        /\ n < YearsBefore[YearOf(n) + 1]
    BY YearFound, Zenon
  <2>2. QED
    BY <2>1, Zenon
<1>2. PICK b \in Nat : b = YearsBefore[y] /\ YearsBefore[y + 1] = b + YearDays(y)
  <2>1. YearsBefore[y] \in Nat /\ YearsBefore[y + 1] = YearsBefore[y] + YearDays(y)
    BY YearLength, Zenon
  <2>2. QED
    BY <2>1, Zenon
<1>3. PICK l \in Nat : l = n - b
  BY <1>1, <1>2
<1>4. l < YearDays(y)
  BY <1>1, <1>2, <1>3 DEF YearDays
<1>5. PICK m \in 1 .. 12 : m = MonthOf(y, l) /\ MonthsBefore(y, m) <= l /\ l < MonthsBefore(y, m + 1)
  <2>1. /\ MonthOf(y, l) \in 1 .. 12 /\ MonthsBefore(y, MonthOf(y, l)) <= l
        /\ l < MonthsBefore(y, MonthOf(y, l) + 1)
    BY <1>4, MonthFound, Zenon
  <2>2. QED
    BY <2>1, Zenon
<1>6. MonthsBefore(y, m) \in Nat /\ MonthsBefore(y, m + 1) \in Nat
  BY MonthsOrdered
<1>7. PICK d \in Nat : d = l - MonthsBefore(y, m) + 1
  BY <1>5, <1>6
<1>8. d \in Nat \ {0} /\ d <= MonthsBefore(y, m + 1) - MonthsBefore(y, m)
  BY <1>5, <1>6, <1>7
<1>9. n = b + MonthsBefore(y, m) + d - 1 /\ d = n - b - MonthsBefore(y, m) + 1
  BY <1>3, <1>6, <1>7
<1>10. Exists(y, m, d)
  BY <1>8, Zenon DEF Exists
<1>11. n = DayOf(y, m, d) /\ d = n - YearsBefore[y] - MonthsBefore(y, m) + 1
  BY <1>2, <1>9, Zenon DEF DayOf
<1>12. m = MonthOf(y, n - YearsBefore[y])
  BY <1>2, <1>3, <1>5, Zenon
<1>13. QED
  BY <1>1, <1>10, <1>11, <1>12, Zenon

Now(g, y, m, d) ==
  [year |-> y, mon |-> m, day |-> d, week |-> RTC_GetWeek(y, m, d),
   hour |-> g.sec \div 3600, min |-> (g.sec % 3600) \div 60, sec |-> g.sec % 60]

(* What the clock shows: the date of the day counted, and the time of day. *)
LEMMA Shown ==
  ASSUME NEW g \in Counters
  PROVE  \E y, m, d : Exists(y, m, d) /\ g.day = DayOf(y, m, d) /\ RTC_Get(g) = Now(g, y, m, d)
<1>1. PICK n \in Nat : n = g.day /\ n <= LastDay /\ n # 0
  <2>1. g.day \in Days
    BY Zenon DEF Counters
  <2>2. PICK n \in Days : n = g.day
    BY <2>1, Zenon
  <2>3. n \in Nat /\ n <= LastDay /\ n # 0
    BY DEF Days
  <2>4. QED
    BY <2>2, <2>3, Zenon
<1>2. PICK y, m, d : /\ Exists(y, m, d) /\ n = DayOf(y, m, d)
                     /\ y = YearOf(n) /\ m = MonthOf(y, n - YearsBefore[y])
                     /\ d = n - YearsBefore[y] - MonthsBefore(y, m) + 1
  BY <1>1, Found, Zenon
<1>3. RTC_Get(g) = Now(g, y, m, d)
  <2>1. (IF g.day = 0 THEN 0 ELSE YearOf(g.day)) = y
    BY <1>1, <1>2, Zenon
  <2>2. (IF g.day = 0 THEN 0 ELSE g.day - YearsBefore[y]) = n - YearsBefore[y]
    BY <1>1, Zenon
  <2>3. QED
    <3>1. RTC_Get(g) =
            LET year == IF g.day = 0 THEN 0 ELSE YearOf(g.day)
                left == IF g.day = 0 THEN 0 ELSE g.day - YearsBefore[year]
                mon == MonthOf(year, left)
            IN Now(g, year, mon, left - MonthsBefore(year, mon) + 1)
      BY DEF RTC_Get, Now
    <3>2. QED
      BY <1>2, <2>1, <2>2, <3>1
<1>4. QED
  BY <1>1, <1>2, <1>3, Zenon

-----------------------------------------------------------------------------
(* The weekday.                                                            *)

LEMMA SameRest ==
  ASSUME NEW x \in Int, NEW z \in Int, NEW k \in Int, x = z + 7 * k
  PROVE  x % 7 = z % 7
BY Z3

(* 1970-01-01 was a Thursday, 4.                                           *)
LEMMA WeekCounted ==
  ASSUME NEW y, NEW m, NEW d, Exists(y, m, d)
  PROVE  RTC_GetWeek(y, m, d) = (DayOf(y, m, d) + 4) % 7
<1>1. y \in 1970 .. 2099 /\ m \in 1 .. 12 /\ d \in Nat
  BY DEF Exists, Years
<1>2. PICK a \in 70 .. 199 : a = y - 1900
  BY <1>1
<1>3. PICK q \in Nat, r \in 0 .. 3 : a = 4 * q + r
  <2>1. a \div 4 \in Nat /\ a % 4 \in 0 .. 3 /\ a = 4 * (a \div 4) + (a % 4)
    BY Z3
  <2>2. QED
    BY <2>1
<1>4. a \div 4 = q /\ (a % 4 = 0 <=> r = 0)
  BY <1>3, Z3
<1>5. (y % 100) + (IF y \div 100 > 19 THEN 100 ELSE 0) = a
  <2>1. y < 2000 => y \div 100 = 19 /\ y % 100 = y - 1900
    BY <1>1, Z3
  <2>2. y >= 2000 => y \div 100 = 20 /\ y % 100 = y - 2000
    BY <1>1, Z3
  <2>3. QED
    BY <1>1, <1>2, <2>1, <2>2
<1>6. PICK w \in 0 .. 6, k \in Int : w = week_table[m] /\ MonthCount(m) = w + 7 * k
  <2>1. /\ week_table[1] = 0 /\ week_table[2] = 3 /\ week_table[3] = 3 /\ week_table[4] = 6
        /\ week_table[5] = 1 /\ week_table[6] = 4 /\ week_table[7] = 6 /\ week_table[8] = 2
        /\ week_table[9] = 5 /\ week_table[10] = 0 /\ week_table[11] = 3 /\ week_table[12] = 5
    BY DEF week_table
  <2> DEFINE weeks == <<0, 4, 8, 12, 17, 21, 25, 30, 34, 39, 43, 47>>
  <2>2. /\ weeks[1] = 0 /\ weeks[2] = 4 /\ weeks[3] = 8 /\ weeks[4] = 12
        /\ weeks[5] = 17 /\ weeks[6] = 21 /\ weeks[7] = 25 /\ weeks[8] = 30
        /\ weeks[9] = 34 /\ weeks[10] = 39 /\ weeks[11] = 43 /\ weeks[12] = 47
    OBVIOUS
  <2> HIDE DEF weeks
  <2>3. week_table[m] \in 0 .. 6 /\ weeks[m] \in Int
    BY <1>1, <2>1, <2>2
  <2>4. MonthCount(m) = week_table[m] + 7 * weeks[m]
    BY <1>1, <2>1, <2>2, Z3 DEF MonthCount
  <2>5. QED
    BY <2>3, <2>4
<1>7. DayOf(y, m, d) = 365 * (y - 1970) + LeapCount(y) + MonthCount(m)
                       + (IF r = 0 /\ m > 2 THEN 1 ELSE 0) + d - 1
  <2>1. YearsBefore[y] = 365 * (y - 1970) + LeapCount(y)
    BY <1>1, YearsCounted
  <2>2. PlainMonths[m] = MonthCount(m)
    BY <1>1, MonthsCounted
  <2>3. Is_LeapYear(y) <=> y % 4 = 0
    BY <1>1, LeapYears
  <2>4. y % 4 = 0 <=> r = 0
    BY <1>1, <1>2, <1>3, Z3
  <2>5. LeapCount(y) \in Int /\ MonthCount(m) \in Int
    BY <1>1, <1>6, Z3 DEF LeapCount
  <2>6. MonthsBefore(y, m) = MonthCount(m) + IF r = 0 /\ m > 2 THEN 1 ELSE 0
    BY <2>2, <2>3, <2>4 DEF MonthsBefore
  <2>7. QED
    BY <1>1, <2>1, <2>5, <2>6 DEF DayOf
<1>8. LeapCount(y) = q - 18 + (IF r = 0 THEN 0 ELSE 1)
  BY <1>1, <1>2, <1>3, Z3 DEF LeapCount
<1> DEFINE back == IF r = 0 /\ m < 3 THEN 1 ELSE 0
           x == a + q + d + w - back
           temp == ((a + q) % 7) + d + w
<1>9. DayOf(y, m, d) + 4 = x + 7 * (52 * (a - 70) - 12 + k)
  BY <1>1, <1>2, <1>6, <1>7, <1>8
<1>10. RTC_GetWeek(y, m, d) = (IF a % 4 = 0 /\ m < 3 THEN temp - 1 ELSE temp) % 7
  BY <1>4, <1>5, <1>6 DEF RTC_GetWeek
<1>11. RTC_GetWeek(y, m, d) = (temp - back) % 7
  BY <1>1, <1>4, <1>10
<1>12. x = (temp - back) + 7 * ((a + q) \div 7) /\ (a + q) \div 7 \in Int
  <2>1. a + q = 7 * ((a + q) \div 7) + ((a + q) % 7) /\ (a + q) \div 7 \in Int /\ (a + q) % 7 \in Int
    BY Z3
  <2>2. QED
    BY <1>1, <2>1
<1>13. x \in Int /\ temp - back \in Int /\ DayOf(y, m, d) + 4 \in Int
  <2>1. (a + q) % 7 \in Int
    BY Z3
  <2>2. QED
    BY <1>1, <1>9, <2>1
<1>14. x % 7 = (temp - back) % 7
  <2> HIDE DEF x, temp, back
  <2>1. QED
    BY <1>12, <1>13, SameRest
<1>15. (DayOf(y, m, d) + 4) % 7 = x % 7
  <2> HIDE DEF x
  <2>1. 52 * (a - 70) - 12 + k \in Int
    OBVIOUS
  <2>2. QED
    BY <1>9, <1>13, <2>1, SameRest
<1>16. QED
  BY <1>11, <1>14, <1>15

(* The weekday of the calendar, which counts days since the year 1.        *)
LEMMA WeekRight ==
  ASSUME NEW y, NEW m, NEW d, Exists(y, m, d)
  PROVE  RTC_GetWeek(y, m, d) = Civil!Weekday(y, m, d)
<1>1. y \in 1970 .. 2099 /\ m \in 1 .. 12 /\ d \in Nat
  BY DEF Exists, Years
<1>2. DayOf(y, m, d) = 365 * (y - 1970) + LeapCount(y) + MonthsBefore(y, m) + d - 1
  <2>1. YearsBefore[y] = 365 * (y - 1970) + LeapCount(y)
    BY <1>1, YearsCounted
  <2>2. QED
    BY <2>1 DEF DayOf
<1>3. Civil!DaysBeforeMonth(y, m) = MonthsBefore(y, m)
  <2>1. PlainMonths[m] = MonthCount(m)
    BY <1>1, MonthsCounted
  <2>2. Civil!Leap(y) <=> Is_LeapYear(y)
    BY DEF Civil!Leap, Is_LeapYear
  <2>3. QED
    BY <1>1, <2>1, <2>2 DEF Civil!DaysBeforeMonth, MonthsBefore, MonthCount
<1>4. MonthsBefore(y, m) \in Nat
  BY <1>1, MonthsOrdered
<1>5. PICK p \in 1969 .. 2098 : p = y - 1
  BY <1>1
<1>6. (p \div 4) - (p \div 100) + (p \div 400) = LeapCount(y) + 477
  <2>1. p < 2000 => p \div 100 = 19 /\ p \div 400 = 4
    BY Z3
  <2>2. p >= 2000 => p \div 100 = 20 /\ p \div 400 = 5
    BY Z3
  <2>3. (p \div 4) - 15 = LeapCount(y) + 477
    BY <1>1, <1>5, Z3 DEF LeapCount
  <2>4. p \div 4 \in Int
    BY Z3
  <2>5. QED
    BY <2>1, <2>2, <2>3, <2>4
<1>7. LeapCount(y) \in Int
  BY <1>1, Z3 DEF LeapCount
<1>8. Civil!DayNumber(y, m, d) = (DayOf(y, m, d) + 4) + 7 * 102737
  <2>1. Civil!DayNumber(y, m, d) =
          365 * p + (p \div 4) - (p \div 100) + (p \div 400) + MonthsBefore(y, m) + d
    BY <1>3, <1>5 DEF Civil!DayNumber
  <2>2. p \div 4 \in Int /\ p \div 100 \in Int /\ p \div 400 \in Int
    BY Z3
  <2>3. QED
    BY <1>1, <1>2, <1>4, <1>5, <1>6, <1>7, <2>1, <2>2
<1>9. DayOf(y, m, d) + 4 \in Int
  BY <1>1, <1>2, <1>4, <1>7
<1>10. Civil!DayNumber(y, m, d) % 7 = (DayOf(y, m, d) + 4) % 7
  <2>1. Civil!DayNumber(y, m, d) \in Int /\ 102737 \in Int
    BY <1>8, <1>9
  <2>2. QED
    BY <1>8, <1>9, <2>1, SameRest
<1>11. QED
  BY <1>10, WeekCounted DEF Civil!Weekday

-----------------------------------------------------------------------------
(* From the counter to the date and back.                                  *)

(* n seconds into a day it is h:i:s.                                       *)
TimeIs(n, h, i, s) == /\ h \in 0 .. 23 /\ i \in 0 .. 59 /\ s \in 0 .. 59
                      /\ n = h * 3600 + i * 60 + s

LEMMA TimeShown ==
  ASSUME NEW n, NEW h, NEW i, NEW s, TimeIs(n, h, i, s)
  PROVE  n \div 3600 = h /\ (n % 3600) \div 60 = i /\ n % 60 = s
<1>1. /\ h \in 0 .. 23 /\ i \in 0 .. 59 /\ s \in 0 .. 59
      /\ n = h * 3600 + i * 60 + s /\ n \in Int
  BY DEF TimeIs
<1>2. n \div 3600 = h /\ n % 3600 = 60 * i + s
  BY <1>1, Z3
<1>3. (60 * i + s) \div 60 = i
  BY <1>1, Z3
<1>4. n % 60 = s
  <2>1. n = s + 60 * (60 * h + i)
    BY <1>1
  <2>2. QED
    BY <1>1, <2>1, Z3
<1>5. QED
  BY <1>2, <1>3, <1>4

LEMMA TimeSplit == ASSUME NEW n \in Seconds PROVE \E h, i, s : TimeIs(n, h, i, s)
<1>1. n \in Nat /\ n < 86400
  <2>1. n \in Nat /\ n <= DAY - 1
    BY SecondsAre
  <2>2. QED
    BY <2>1, Limits
<1> DEFINE h == n \div 3600
           u == n % 3600
           i == u \div 60
           s == u % 60
<1>2. h \in Nat /\ u \in Nat /\ u < 3600 /\ n = 3600 * h + u
  BY <1>1, Z3
<1> HIDE DEF h, u
<1>3. i \in Nat /\ s \in Nat /\ s < 60 /\ u = 60 * i + s
  BY <1>2, Z3
<1> HIDE DEF i, s
<1>4. h \in 0 .. 23 /\ i \in 0 .. 59 /\ s \in 0 .. 59 /\ n = h * 3600 + i * 60 + s
  <2>1. h \in 0 .. 23
    BY <1>1, <1>2
  <2>2. i \in 0 .. 59 /\ s \in 0 .. 59
    BY <1>2, <1>3
  <2>3. n = h * 3600 + i * 60 + s
    BY <1>1, <1>2, <1>3
  <2>4. QED
    BY <2>1, <2>2, <2>3
<1>5. TimeIs(n, h, i, s)
  BY <1>4, Zenon DEF TimeIs
<1>6. QED
  BY <1>5

(* The clock at g shows the date y, m, d and the time h, i, s.             *)
Date(y, m, d, h, i, s) ==
  [year |-> y, mon |-> m, day |-> d, week |-> RTC_GetWeek(y, m, d),
   hour |-> h, min |-> i, sec |-> s]

Shows(g, y, m, d, h, i, s) ==
  /\ Exists(y, m, d) /\ g.day = DayOf(y, m, d) /\ TimeIs(g.sec, h, i, s)
  /\ RTC_Get(g) = Date(y, m, d, h, i, s)

LEMMA NowIs ==
  ASSUME NEW g, NEW y, NEW m, NEW d, NEW h, NEW i, NEW s, TimeIs(g.sec, h, i, s)
  PROVE  Now(g, y, m, d) = Date(y, m, d, h, i, s)
BY TimeShown DEF Now, Date

LEMMA ShownParts ==
  ASSUME NEW g \in Counters
  PROVE  \E y, m, d, h, i, s : Shows(g, y, m, d, h, i, s)
<1>1. PICK y, m, d : Exists(y, m, d) /\ g.day = DayOf(y, m, d) /\ RTC_Get(g) = Now(g, y, m, d)
  BY Shown, Zenon
<1>2. g.sec \in Seconds
  BY Zenon DEF Counters
<1>3. PICK h, i, s : TimeIs(g.sec, h, i, s)
  BY <1>2, TimeSplit, Zenon
<1>4. RTC_Get(g) = Date(y, m, d, h, i, s)
  BY <1>1, <1>3, NowIs
<1>5. Shows(g, y, m, d, h, i, s)
  BY <1>1, <1>3, <1>4, Zenon DEF Shows
<1>6. QED
  BY <1>5

(* Whatever shows a counter of the range is what RTC_Get returns.          *)
LEMMA OneTime ==
  ASSUME NEW g \in Counters, NEW y, NEW m, NEW d, Exists(y, m, d), g.day = DayOf(y, m, d),
         NEW h, NEW i, NEW s, TimeIs(g.sec, h, i, s)
  PROVE  RTC_Get(g) = Date(y, m, d, h, i, s)
<1>1. PICK yy, mm, dd : Exists(yy, mm, dd) /\ g.day = DayOf(yy, mm, dd) /\ RTC_Get(g) = Now(g, yy, mm, dd)
  BY Shown, Zenon
<1>2. yy = y /\ mm = m /\ dd = d
  <2>1. DayOf(y, m, d) = DayOf(yy, mm, dd)
    BY <1>1, Zenon
  <2>2. QED
    BY <1>1, <2>1, OneDate
<1>3. QED
  BY <1>1, <1>2, NowIs

(* Seccount undoes RTC_Get.                                                *)
LEMMA RoundTrip == ASSUME NEW g \in Counters PROVE Seccount(RTC_Get(g)) = g
<1>1. PICK y, m, d, h, i, s : Shows(g, y, m, d, h, i, s)
  BY ShownParts, Zenon
<1>2. RTC_Get(g) = Date(y, m, d, h, i, s)
  BY <1>1, Zenon DEF Shows
<1>3. g.day = YearsBefore[y] + MonthsBefore(y, m) + d - 1
  BY <1>1, Zenon DEF Shows, DayOf
<1>4. g.sec = h * 3600 + i * 60 + s
  BY <1>1 DEF Shows, TimeIs
<1>5. Seccount(Date(y, m, d, h, i, s)) = [day |-> YearsBefore[y] + MonthsBefore(y, m) + d - 1,
                                          sec |-> h * 3600 + i * 60 + s]
  BY DEF Seccount, Date
<1>6. g = [day |-> g.day, sec |-> g.sec]
  BY DEF Counters
<1>7. QED
  BY <1>2, <1>3, <1>4, <1>5, <1>6

-----------------------------------------------------------------------------
(* The clock measures.                                                     *)

InRange == g_sec.day \in Days

(* The mark was read off a counter of the range, since which the seconds   *)
(* in "since" have passed.                                                 *)
Measured(a) == a \in Counters /\ mark = RTC_Get(a) /\ Difference(g_sec, a) = since

IInv == /\ set \in Time_Def /\ Legal(set)
        /\ g_sec \in Counters
        /\ since \in Nat
        /\ \E a : Measured(a)

LEMMA DaysAre == \A n \in Days : n \in Nat /\ n <= LastDay /\ n \in 0 .. MAX_DAY
<1>1. PICK last \in Nat, max \in Nat : last = LastDay /\ max = MAX_DAY /\ last <= max
  BY Limits
<1>2. \A n \in 1 .. last : n \in Nat /\ n <= last /\ n \in 0 .. max
  BY <1>1
<1>3. QED
  BY <1>1, <1>2, Zenon DEF Days

LEMMA SecondIs == ASSUME NEW n \in Nat, n < 86400 PROVE n \in Seconds
<1>1. PICK day \in Nat : day = 86400
  OBVIOUS
<1>2. n <= day - 1
  BY <1>1
<1>3. n \in 0 .. day - 1
  BY <1>2
<1>4. DAY = day
  BY <1>1, Limits
<1>5. QED
  BY <1>3, <1>4 DEF Seconds

LEMMA NextSeconds == ASSUME NEW s \in Seconds, s # DAY - 1 PROVE s + 1 \in Seconds
<1>1. s \in Nat /\ s <= DAY - 1
  BY SecondsAre
<1>2. s + 1 \in Nat /\ s + 1 < 86400
  BY <1>1, Limits
<1>3. QED
  BY <1>2, SecondIs

LEMMA CounterParts ==
  ASSUME NEW g \in Counters
  PROVE  /\ g.day \in Days /\ g.day \in Nat /\ g.day <= LastDay
         /\ g.sec \in Seconds /\ g.sec \in Nat /\ g.sec <= DAY - 1
         /\ g = [day |-> g.day, sec |-> g.sec]
<1>1. g.day \in Days /\ g.sec \in Seconds
  BY Zenon DEF Counters
<1>2. g = [day |-> g.day, sec |-> g.sec]
  BY DEF Counters
<1>3. QED
  BY <1>1, <1>2, DaysAre, SecondsAre, Zenon

LEMMA SeccountType ==
  ASSUME NEW t \in Time_Def, Legal(t)
  PROVE  Seccount(t) \in [day : Nat, sec : Seconds]
<1>1. PICK y \in Years : y = t.year
  BY DEF Legal, Years
<1>2. PICK m \in 1 .. 12, d \in 1 .. 31, h \in 0 .. 23, i \in 0 .. 59, s \in 0 .. 59 :
        m = t.mon /\ d = t.day /\ h = t.hour /\ i = t.min /\ s = t.sec
  <2>1. /\ t.mon \in 1 .. 12 /\ t.day \in 1 .. 31
        /\ t.hour \in 0 .. 23 /\ t.min \in 0 .. 59 /\ t.sec \in 0 .. 59
    BY Zenon DEF Time_Def
  <2>2. QED
    BY <2>1, Zenon
<1>3. YearsBefore[y] \in Nat
  BY YearLength, Zenon
<1>4. MonthsBefore(y, m) \in Nat
  BY MonthsOrdered
<1>5. YearsBefore[y] + MonthsBefore(y, m) + d - 1 \in Nat
  BY <1>3, <1>4
<1>6. h * 3600 + i * 60 + s \in Seconds
  <2>1. h * 3600 + i * 60 + s \in Nat /\ h * 3600 + i * 60 + s < 86400
    OBVIOUS
  <2>2. QED
    BY <2>1, SecondIs
<1>7. Seccount(t) = [day |-> YearsBefore[y] + MonthsBefore(y, m) + d - 1,
                     sec |-> h * 3600 + i * 60 + s]
  BY <1>1, <1>2 DEF Seccount
<1>8. QED
  BY <1>5, <1>6, <1>7

LEMMA DifferenceSelf == ASSUME NEW g \in Counters PROVE Difference(g, g) = 0
<1>1. g.day \in Nat /\ g.sec \in Nat
  BY CounterParts
<1>2. QED
  BY <1>1 DEF Difference, DAY

(* RTC_Set and Init: the mark is read off the new counter.                 *)
LEMMA JustSet ==
  ASSUME NEW t \in Time_Def, Legal(t), set = t, g_sec = Seccount(t),
         mark = RTC_Get(g_sec), since = 0, InRange
  PROVE  IInv
<1>1. g_sec \in Counters
  BY SeccountType DEF InRange, Counters
<1>2. Measured(g_sec)
  BY <1>1, DifferenceSelf DEF Measured
<1>3. QED
  BY <1>1, <1>2 DEF IInv

LEMMA InitHolds == Init /\ InRange => IInv
<1>1. SUFFICES ASSUME Init, InRange PROVE IInv
  OBVIOUS
<1>2. set \in Time_Def /\ Legal(set)
  BY <1>1, RtcAssumption DEF Init, Legal
<1>3. QED
  BY <1>1, <1>2, JustSet DEF Init

(* A second later the counter is one more, in whole days and seconds.      *)
LEMMA Ticked ==
  ASSUME g_sec \in Counters, InRange', RTC_IRQHandler
  PROVE  /\ g_sec' \in Counters
         /\ \A a \in Counters : Difference(g_sec', a) = Difference(g_sec, a) + 1
         /\ g_sec.sec # DAY - 1 => g_sec'.day = g_sec.day /\ g_sec'.sec = g_sec.sec + 1
         /\ g_sec.sec = DAY - 1 => g_sec'.day = g_sec.day + 1 /\ g_sec'.sec = 0
<1>1. g_sec.day \in Nat /\ g_sec.sec \in Nat /\ g_sec.sec <= DAY - 1 /\ DAY = 86400
  BY CounterParts DEF DAY
<1>2. CASE g_sec.sec = DAY - 1
  <2>1. g_sec' = [day |-> g_sec.day + 1, sec |-> 0]
    BY <1>2 DEF RTC_IRQHandler
  <2>2. g_sec' \in Counters
    <3>1. g_sec.day + 1 \in Days
      BY <2>1 DEF InRange
    <3>2. 0 \in Seconds
      BY DEF Seconds, DAY
    <3>3. QED
      BY <2>1, <3>1, <3>2 DEF Counters
  <2>3. ASSUME NEW a \in Counters
        PROVE  Difference(g_sec', a) = Difference(g_sec, a) + 1
    <3>1. a.day \in Nat /\ a.sec \in Nat
      BY CounterParts
    <3>2. QED
      BY <1>1, <1>2, <2>1, <3>1 DEF Difference
  <2>4. QED
    BY <1>2, <2>1, <2>2, <2>3
<1>3. CASE g_sec.sec # DAY - 1
  <2>1. g_sec' = [g_sec EXCEPT !.sec = @ + 1]
    BY <1>3 DEF RTC_IRQHandler
  <2>2. g_sec' = [day |-> g_sec.day, sec |-> g_sec.sec + 1]
    BY <2>1, CounterParts
  <2>3. g_sec' \in Counters
    <3>1. g_sec.sec + 1 \in Seconds
      BY <1>3, CounterParts, NextSeconds, Zenon
    <3>2. g_sec.day \in Days
      BY DEF Counters
    <3>3. QED
      BY <2>2, <3>1, <3>2 DEF Counters
  <2>4. ASSUME NEW a \in Counters
        PROVE  Difference(g_sec', a) = Difference(g_sec, a) + 1
    <3>1. a.day \in Nat /\ a.sec \in Nat
      BY CounterParts
    <3>2. QED
      BY <1>1, <2>2, <3>1 DEF Difference
  <2>5. QED
    BY <1>3, <2>2, <2>3, <2>4
<1>4. QED
  BY <1>2, <1>3

LEMMA StepKeeps == IInv /\ InRange /\ InRange' /\ [Next]_vars => IInv'
<1>1. SUFFICES ASSUME IInv, InRange, InRange', [Next]_vars PROVE IInv'
  OBVIOUS
<1>2. CASE \E t \in Settings : RTC_Set(t)
  <2>1. PICK t \in Settings : RTC_Set(t)
    BY <1>2
  <2>2. t \in Time_Def /\ Legal(t)
    BY <2>1, RtcAssumption DEF RTC_Set
  <2>3. g_sec' \in Counters
    <3>1. g_sec' \in [day : Nat, sec : Seconds]
      BY <2>1, <2>2, SeccountType DEF RTC_Set
    <3>2. g_sec'.day \in Days
      BY <1>1 DEF InRange
    <3>3. QED
      BY <3>1, <3>2 DEF Counters
  <2>4. Measured(g_sec)'
    BY <2>1, <2>3, DifferenceSelf DEF Measured, RTC_Set
  <2>5. set' \in Time_Def /\ Legal(set)' /\ since' \in Nat
    BY <2>1, <2>2 DEF RTC_Set, Legal
  <2>6. QED
    BY <2>3, <2>4, <2>5 DEF IInv
<1>3. CASE Read
  <2>1. g_sec' = g_sec /\ g_sec \in Counters /\ set' = set
    BY <1>1, <1>3 DEF IInv, Read
  <2>2. Measured(g_sec)'
    BY <1>3, <2>1, DifferenceSelf DEF Measured, Read
  <2>3. QED
    BY <1>1, <1>3, <2>1, <2>2 DEF IInv, Read, Legal
<1>4. CASE RTC_IRQHandler
  <2>1. PICK a : Measured(a)
    BY <1>1 DEF IInv
  <2>2. g_sec' \in Counters /\ Difference(g_sec', a) = Difference(g_sec, a) + 1
    BY <1>1, <1>4, <2>1, Ticked DEF IInv, Measured
  <2>3. since' = since + 1 /\ mark' = mark /\ set' = set /\ since \in Nat
    BY <1>1, <1>4 DEF IInv, RTC_IRQHandler
  <2>4. Measured(a)'
    BY <2>1, <2>2, <2>3 DEF Measured
  <2>5. QED
    BY <1>1, <2>2, <2>3, <2>4 DEF IInv, Legal
<1>5. CASE UNCHANGED vars
  BY <1>1, <1>5 DEF vars, IInv, Measured, Legal
<1>6. QED
  BY <1>1, <1>2, <1>3, <1>4, <1>5 DEF Next

(* A date that is shown is legal and has a month and a day.                *)
LEMMA ShownLegal ==
  ASSUME NEW g \in Counters
  PROVE  Legal(RTC_Get(g)) /\ RTC_Get(g).mon \in 1 .. 12 /\ RTC_Get(g).day \in 1 .. 31
<1>1. PICK y, m, d, h, i, s : Shows(g, y, m, d, h, i, s)
  BY ShownParts, Zenon
<1>2. RTC_Get(g).year = y /\ RTC_Get(g).mon = m /\ RTC_Get(g).day = d
  BY <1>1 DEF Shows, Date
<1>3. y \in Years /\ m \in 1 .. 12 /\ d \in 1 .. 31
  BY <1>1, DayWithin, Zenon DEF Shows, Exists
<1>4. QED
  BY <1>2, <1>3 DEF Legal, Years

(* While the clock is in its range it shows legal dates, and the counter   *)
(* holds whole days and the seconds of a day, whatever it is set to.       *)
THEOREM TypeCorrect == Spec /\ []InRange => []TypeOK
<1>1. IInv => TypeOK
  <2>1. SUFFICES ASSUME IInv PROVE TypeOK
    OBVIOUS
  <2>2. PICK a \in Counters : mark = RTC_Get(a)
    BY <2>1, Zenon DEF IInv, Measured
  <2>3. g_sec \in [day : 0 .. MAX_DAY, sec : 0 .. DAY - 1]
    <3>1. g_sec \in [day : Days, sec : Seconds]
      BY <2>1 DEF IInv, Counters
    <3>2. QED
      BY <3>1, DaysAre, SecondsAre DEF Seconds
  <2>4. QED
    BY <2>1, <2>2, <2>3, ShownLegal DEF IInv, TypeOK
<1>2. QED
  BY <1>1, InitHolds, StepKeeps, PTL DEF Spec

(* Time_Pasted and Time_comp measure the seconds that passed since any     *)
(* time read off the clock, over the ends of days, months and years.       *)
THEOREM TimeMeasured == Spec /\ []InRange => []Elapsed
<1>1. IInv => Elapsed
  <2>1. SUFFICES ASSUME IInv PROVE Elapsed
    OBVIOUS
  <2>2. PICK a : Measured(a)
    BY <2>1 DEF IInv
  <2>3. a \in Counters /\ g_sec \in Counters /\ mark = RTC_Get(a) /\ Difference(g_sec, a) = since
    BY <2>1, <2>2 DEF IInv, Measured
  <2>4. Legal(mark) /\ Legal(RTC_Get(g_sec))
    BY <2>3, ShownLegal
  <2>5. Seccount(mark) = a /\ Seccount(RTC_Get(g_sec)) = g_sec
    BY <2>3, RoundTrip
  <2>6. QED
    BY <2>3, <2>4, <2>5 DEF Elapsed, Time_Pasted, Time_comp
<1>2. QED
  BY <1>1, InitHolds, StepKeeps, PTL DEF Spec

-----------------------------------------------------------------------------
(* The clock shows the civil calendar.                                     *)

(* What the clock is set to is a day of the calendar.                      *)
DatesExist ==
  \A t \in Settings \cup BuildTimes : Legal(t) => t.day <= Civil!MonthLength(t.year, t.mon)

LEMMA LengthRight ==
  ASSUME NEW y, NEW m \in 1 .. 12
  PROVE  Civil!MonthLength(y, m) = MonthsBefore(y, m + 1) - MonthsBefore(y, m)
<1>1. PlainMonths[m] = MonthCount(m) /\ PlainMonths[m + 1] = MonthCount(m + 1)
  BY MonthsCounted
<1>2. Civil!Leap(y) <=> Is_LeapYear(y)
  BY DEF Civil!Leap, Is_LeapYear
<1> DEFINE leap == IF Is_LeapYear(y) THEN 1 ELSE 0
<1>3. MonthsBefore(y, m + 1) - MonthsBefore(y, m) =
        MonthCount(m + 1) - MonthCount(m) + IF m = 2 THEN leap ELSE 0
  <2>1. MonthCount(m + 1) \in Int /\ MonthCount(m) \in Int
    BY Z3 DEF MonthCount
  <2>2. QED
    BY <1>1, <2>1 DEF MonthsBefore
<1>4. MonthCount(m + 1) - MonthCount(m) =
        IF m = 2 THEN 28 ELSE IF m \in {4, 6, 9, 11} THEN 30 ELSE 31
  BY Z3 DEF MonthCount
<1>5. CASE m = 2
  BY <1>2, <1>3, <1>4, <1>5 DEF Civil!MonthLength
<1>6. CASE m \in {4, 6, 9, 11}
  <2>1. Civil!MonthLength(y, m) = 30
    BY <1>6 DEF Civil!MonthLength
  <2>2. QED
    BY <1>3, <1>4, <1>6, <2>1
<1>7. CASE m # 2 /\ m \notin {4, 6, 9, 11}
  <2>1. Civil!MonthLength(y, m) = 31
    BY <1>7 DEF Civil!MonthLength
  <2>2. QED
    BY <1>3, <1>4, <1>7, <2>1
<1>8. QED
  BY <1>5, <1>6, <1>7

(* The day after, within the month, the year or the range.                 *)
NextDate(y, m, d, yy, mm, dd) ==
  \/ d < Civil!MonthLength(y, m) /\ yy = y /\ mm = m /\ dd = d + 1
  \/ d = Civil!MonthLength(y, m) /\ m < 12 /\ yy = y /\ mm = m + 1 /\ dd = 1
  \/ d = Civil!MonthLength(y, m) /\ m = 12 /\ yy = y + 1 /\ mm = 1 /\ dd = 1

LEMMA NextDay ==
  ASSUME NEW y, NEW m, NEW d, Exists(y, m, d), DayOf(y, m, d) < LastDay
  PROVE  \E yy, mm, dd : /\ NextDate(y, m, d, yy, mm, dd) /\ Exists(yy, mm, dd)
                         /\ DayOf(yy, mm, dd) = DayOf(y, m, d) + 1
<1>1. y \in Years /\ m \in 1 .. 12 /\ d \in Nat \ {0}
      /\ d <= MonthsBefore(y, m + 1) - MonthsBefore(y, m)
  BY DEF Exists
<1>2. Civil!MonthLength(y, m) = MonthsBefore(y, m + 1) - MonthsBefore(y, m)
  BY <1>1, LengthRight
<1>3. /\ YearsBefore[y] \in Nat /\ YearsBefore[y + 1] \in Nat
      /\ YearsBefore[y + 1] = YearsBefore[y] + YearDays(y)
  BY <1>1, YearLength, Zenon
<1>4. MonthsBefore(y, m) \in Nat /\ MonthsBefore(y, m + 1) \in Nat
  BY <1>1, MonthsOrdered
<1>5. CASE d < Civil!MonthLength(y, m)
  <2>1. Exists(y, m, d + 1)
    BY <1>1, <1>2, <1>4, <1>5 DEF Exists
  <2>2. DayOf(y, m, d + 1) = DayOf(y, m, d) + 1
    BY <1>1, <1>3, <1>4 DEF DayOf
  <2>3. NextDate(y, m, d, y, m, d + 1)
    BY <1>5 DEF NextDate
  <2>4. QED
    BY <2>1, <2>2, <2>3
<1>6. CASE d = Civil!MonthLength(y, m) /\ m < 12
  <2>1. m + 1 \in 1 .. 12
    BY <1>1, <1>6
  <2>2. MonthsBefore(y, (m + 1) + 1) - MonthsBefore(y, m + 1) \in 28 .. 31
    BY <2>1, MonthsOrdered
  <2>3. Exists(y, m + 1, 1)
    BY <1>1, <2>1, <2>2 DEF Exists
  <2>4. DayOf(y, m + 1, 1) = DayOf(y, m, d) + 1
    BY <1>1, <1>2, <1>3, <1>4, <1>6 DEF DayOf
  <2>5. NextDate(y, m, d, y, m + 1, 1)
    BY <1>6 DEF NextDate
  <2>6. QED
    BY <2>3, <2>4, <2>5
<1>7. CASE d = Civil!MonthLength(y, m) /\ m = 12
  <2>1. MonthsBefore(y, m + 1) = YearDays(y) /\ YearDays(y) \in Nat
    BY <1>7, MonthsOrdered DEF YearDays
  <2>2. DayOf(y, m, d) = YearsBefore[y + 1] - 1
    BY <1>1, <1>2, <1>3, <1>4, <1>7, <2>1 DEF DayOf
  <2>3. y + 1 \in Years
    <3>1. YearsBefore[y + 1] # LastDay + 1
      BY <1>3, <2>2, Limits
    <3>2. y # 2099
      BY <3>1, YearsAtEnds
    <3>3. QED
      BY <1>1, <3>2 DEF Years
  <2>4. MonthsBefore(y + 1, 1) = 0 /\ MonthsBefore(y + 1, 1 + 1) - MonthsBefore(y + 1, 1) \in 28 .. 31
    BY MonthsOrdered
  <2>5. Exists(y + 1, 1, 1)
    BY <2>3, <2>4 DEF Exists
  <2>6. DayOf(y + 1, 1, 1) = DayOf(y, m, d) + 1
    BY <1>3, <2>2, <2>4 DEF DayOf
  <2>7. NextDate(y, m, d, y + 1, 1, 1)
    BY <1>7 DEF NextDate
  <2>8. QED
    BY <2>5, <2>6, <2>7
<1>8. QED
  BY <1>1, <1>2, <1>4, <1>5, <1>6, <1>7

(* The weekday goes on by one.                                             *)
LEMMA NextWeek ==
  ASSUME NEW y, NEW m, NEW d, Exists(y, m, d), NEW yy, NEW mm, NEW dd, Exists(yy, mm, dd),
         DayOf(yy, mm, dd) = DayOf(y, m, d) + 1
  PROVE  RTC_GetWeek(yy, mm, dd) = (RTC_GetWeek(y, m, d) + 1) % 7
<1>1. PICK n \in Nat : n = DayOf(y, m, d)
  <2>1. DayOf(y, m, d) \in Nat
    BY DayWithin
  <2>2. QED
    BY <2>1
<1>2. RTC_GetWeek(y, m, d) = (n + 4) % 7 /\ RTC_GetWeek(yy, mm, dd) = ((n + 1) + 4) % 7
  BY <1>1, WeekCounted
<1>3. ((n + 1) + 4) % 7 = (((n + 4) % 7) + 1) % 7
  BY Z3
<1>4. QED
  BY <1>2, <1>3

(* Each interrupt moves what is shown to the next second.                  *)
LEMMA SecondLater ==
  ASSUME g_sec \in Counters, InRange', RTC_IRQHandler
  PROVE  RTC_Get(g_sec') = Civil!NextSecond(RTC_Get(g_sec))
<1>1. PICK y, m, d, h, i, s : Shows(g_sec, y, m, d, h, i, s)
  BY ShownParts, Zenon
<1>2. /\ Exists(y, m, d) /\ g_sec.day = DayOf(y, m, d) /\ TimeIs(g_sec.sec, h, i, s)
      /\ RTC_Get(g_sec) = Date(y, m, d, h, i, s)
  BY <1>1, Zenon DEF Shows
<1>3. /\ h \in 0 .. 23 /\ i \in 0 .. 59 /\ s \in 0 .. 59
      /\ g_sec.sec = h * 3600 + i * 60 + s
  BY <1>2 DEF TimeIs
<1>4. g_sec' \in Counters
  BY Ticked, Zenon
<1>5. CASE ~ (h = 23 /\ i = 59 /\ s = 59)
  <2>1. g_sec.sec # DAY - 1
    <3>1. g_sec.sec # 86399
      BY <1>3, <1>5
    <3>2. QED
      BY <3>1, Limits
  <2>2. g_sec'.day = g_sec.day /\ g_sec'.sec = g_sec.sec + 1
    BY <2>1, Ticked
  <2>3. ASSUME NEW hh, NEW ii, NEW ss, TimeIs(g_sec.sec + 1, hh, ii, ss)
        PROVE  RTC_Get(g_sec') = Date(y, m, d, hh, ii, ss)
    BY <1>2, <1>4, <2>2, <2>3, OneTime
  <2>4. CASE s < 59
    <3>1. TimeIs(g_sec.sec + 1, h, i, s + 1)
      BY <1>3, <2>4 DEF TimeIs
    <3>2. Civil!NextSecond(Date(y, m, d, h, i, s)) = Date(y, m, d, h, i, s + 1)
      BY <2>4 DEF Civil!NextSecond, Date
    <3>3. QED
      BY <1>2, <2>3, <3>1, <3>2
  <2>5. CASE s = 59 /\ i < 59
    <3>1. TimeIs(g_sec.sec + 1, h, i + 1, 0)
      BY <1>3, <2>5 DEF TimeIs
    <3>2. ~ (s < 59)
      BY <2>5
    <3>3. Civil!NextSecond(Date(y, m, d, h, i, s)) = Date(y, m, d, h, i + 1, 0)
      BY <2>5, <3>2 DEF Civil!NextSecond, Date
    <3>4. QED
      BY <1>2, <2>3, <3>1, <3>3
  <2>6. CASE s = 59 /\ i = 59
    <3>1. h < 23
      BY <1>3, <1>5, <2>6
    <3>2. TimeIs(g_sec.sec + 1, h + 1, 0, 0)
      BY <1>3, <2>6, <3>1 DEF TimeIs
    <3>3. ~ (s < 59) /\ ~ (i < 59)
      BY <2>6
    <3>4. Civil!NextSecond(Date(y, m, d, h, i, s)) = Date(y, m, d, h + 1, 0, 0)
      BY <3>1, <3>3 DEF Civil!NextSecond, Date
    <3>5. QED
      BY <1>2, <2>3, <3>2, <3>4
  <2>7. QED
    BY <1>3, <2>4, <2>5, <2>6
<1>6. CASE h = 23 /\ i = 59 /\ s = 59
  <2>1. g_sec.sec = DAY - 1
    BY <1>3, <1>6, Limits
  <2>2. g_sec'.day = g_sec.day + 1 /\ g_sec'.sec = 0
    BY <2>1, Ticked
  <2>3. DayOf(y, m, d) < LastDay
    <3>1. g_sec'.day <= LastDay
      BY <1>4, CounterParts, Zenon
    <3>2. g_sec.day \in Nat
      BY CounterParts, Zenon
    <3>3. QED
      BY <1>2, <2>2, <3>1, <3>2, Limits
  <2>4. PICK yy, mm, dd : /\ NextDate(y, m, d, yy, mm, dd) /\ Exists(yy, mm, dd)
                          /\ DayOf(yy, mm, dd) = DayOf(y, m, d) + 1
    BY <1>2, <2>3, NextDay, Zenon
  <2>5. TimeIs(g_sec'.sec, 0, 0, 0)
    BY <2>2 DEF TimeIs
  <2>6. RTC_Get(g_sec') = Date(yy, mm, dd, 0, 0, 0)
    <3>1. g_sec'.day = DayOf(yy, mm, dd)
      BY <1>2, <2>2, <2>4
    <3>2. QED
      BY <1>4, <2>4, <2>5, <3>1, OneTime
  <2>7. RTC_GetWeek(yy, mm, dd) = (RTC_GetWeek(y, m, d) + 1) % 7
    BY <1>2, <2>4, NextWeek
  <2>8. Civil!NextDay(Date(y, m, d, h, i, s)) = Date(yy, mm, dd, 0, 0, 0)
    <3>1. m \in Int
      BY <1>2 DEF Exists
    <3>2. d \in Int
      BY <1>2 DEF Exists
    <3>3. CASE d < Civil!MonthLength(y, m) /\ yy = y /\ mm = m /\ dd = d + 1
      BY <2>7, <3>3 DEF Civil!NextDay, Date
    <3>4. CASE d = Civil!MonthLength(y, m) /\ m < 12 /\ yy = y /\ mm = m + 1 /\ dd = 1
      <4>1. ~ (d < Civil!MonthLength(y, m))
        BY <3>2, <3>4
      <4>2. QED
        BY <2>7, <3>4, <4>1 DEF Civil!NextDay, Date
    <3>5. CASE d = Civil!MonthLength(y, m) /\ m = 12 /\ yy = y + 1 /\ mm = 1 /\ dd = 1
      <4>1. ~ (d < Civil!MonthLength(y, m))
        BY <3>2, <3>5
      <4>2. ~ (m < 12)
        BY <3>5
      <4>3. QED
        BY <2>7, <3>5, <4>1, <4>2 DEF Civil!NextDay, Date
    <3>6. QED
      BY <2>4, <3>3, <3>4, <3>5 DEF NextDate
  <2>9. Civil!NextSecond(Date(y, m, d, h, i, s)) = Civil!NextDay(Date(y, m, d, h, i, s))
    BY <1>6 DEF Civil!NextSecond, Date
  <2>10. QED
    BY <1>2, <2>6, <2>8, <2>9
<1>7. QED
  BY <1>5, <1>6

(* What the clock is set to is what it shows, with the weekday.            *)
LEMMA SetShown ==
  ASSUME NEW t \in Time_Def, Legal(t), t.day <= Civil!MonthLength(t.year, t.mon),
         Seccount(t).day \in Days
  PROVE  RTC_Get(Seccount(t)) = Civil!WithWeek(t)
<1>1. /\ t.mon \in 1 .. 12 /\ t.day \in 1 .. 31
      /\ t.hour \in 0 .. 23 /\ t.min \in 0 .. 59 /\ t.sec \in 0 .. 59
  BY Zenon DEF Time_Def
<1>2. t.year \in Years
  BY DEF Legal, Years
<1>3. Civil!MonthLength(t.year, t.mon) = MonthsBefore(t.year, t.mon + 1) - MonthsBefore(t.year, t.mon)
  BY <1>1, LengthRight, Zenon
<1>4. \A n \in 1 .. 31 : n \in Nat \ {0}
  OBVIOUS
<1>5. Exists(t.year, t.mon, t.day)
  BY <1>1, <1>2, <1>3, <1>4, Zenon DEF Exists
<1>6. Seccount(t) \in Counters
  BY SeccountType DEF Counters
<1>7. Seccount(t).day = DayOf(t.year, t.mon, t.day)
  BY DEF Seccount, DayOf
<1>8. TimeIs(Seccount(t).sec, t.hour, t.min, t.sec)
  BY <1>1 DEF Seccount, TimeIs
<1>9. RTC_Get(Seccount(t)) = Date(t.year, t.mon, t.day, t.hour, t.min, t.sec)
  BY <1>5, <1>6, <1>7, <1>8, OneTime
<1>10. RTC_GetWeek(t.year, t.mon, t.day) = Civil!Weekday(t.year, t.mon, t.day)
  BY <1>5, WeekRight
<1>11. Civil!WithWeek(t) = Date(t.year, t.mon, t.day, t.hour, t.min, t.sec)
  BY <1>10 DEF Civil!WithWeek, Date, Time_Def
<1>12. QED
  BY <1>9, <1>11

(* A setting of the calendar.                                              *)
LEMMA SetIsSet ==
  ASSUME DatesExist, NEW t \in Settings, RTC_Set(t), InRange'
  PROVE  Civil!Set
<1>1. t \in Time_Def /\ Legal(t) /\ g_sec' = Seccount(t) /\ set' = t
  BY RtcAssumption DEF RTC_Set
<1>2. t.day <= Civil!MonthLength(t.year, t.mon) /\ Seccount(t).day \in Days
  BY <1>1 DEF DatesExist, InRange
<1>3. RTC_Get(g_sec') = Civil!WithWeek(set')
  BY <1>1, <1>2, SetShown
<1>4. QED
  BY <1>3 DEF Civil!Set

(* Every step sets the calendar, moves it on or leaves it as it is.        *)
LEMMA StepIsCalendar ==
  ASSUME DatesExist, IInv, InRange', [Next]_vars
  PROVE  Civil!Set \/ Civil!Tick \/ UNCHANGED <<RTC_Get(g_sec), set>>
<1>1. ASSUME RTC_IRQHandler PROVE Civil!Tick
  <2>1. RTC_Get(g_sec') = Civil!NextSecond(RTC_Get(g_sec)) /\ set' = set
    BY <1>1, SecondLater DEF IInv, RTC_IRQHandler
  <2>2. QED
    BY <2>1 DEF Civil!Tick
<1>2. Read \/ UNCHANGED vars => UNCHANGED <<RTC_Get(g_sec), set>>
  BY DEF Read, vars
<1>3. QED
  BY <1>1, <1>2, SetIsSet DEF Next

(* The clock shows the civil calendar: RTC_Get undoes RTC_Set, and each    *)
(* interrupt moves date, time and weekday to those of the next second.     *)
THEOREM ShowsCalendar ==
  ASSUME DatesExist
  PROVE  Spec /\ []InRange => IsCalendar
<1>1. Init /\ InRange => Civil!Init
  <2>1. SUFFICES ASSUME Init, InRange PROVE Civil!Init
    OBVIOUS
  <2>2. set \in BuildTimes /\ set \in Time_Def /\ Legal(set) /\ g_sec = Seccount(set)
    BY <2>1, RtcAssumption DEF Init, Legal
  <2>3. set.day <= Civil!MonthLength(set.year, set.mon) /\ Seccount(set).day \in Days
    BY <2>1, <2>2 DEF DatesExist, InRange
  <2>4. QED
    BY <2>2, <2>3, SetShown DEF Civil!Init
<1>2. IInv /\ InRange' /\ [Next]_vars => [Civil!Tick \/ Civil!Set]_<<RTC_Get(g_sec), set>>
  BY StepIsCalendar
<1>3. QED
  BY <1>1, <1>2, InitHolds, StepKeeps, PTL DEF Spec, IsCalendar, Civil!Spec
=============================================================================

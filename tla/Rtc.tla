-------------------------------- MODULE Rtc --------------------------------
(***************************************************************************)
(* The real-time clock BSP/RTC.C: a second counter, incremented by an      *)
(* interrupt, and the conversions between it and the calendar, which count *)
(* through years and months.  The counter is kept as the pair of its whole *)
(* days and the seconds left; up to 2099 its 32 bits hold every value.     *)
(***************************************************************************)
EXTENDS Integers, FiniteSets

CONSTANTS Settings,     \* what RTC_Set is called with
          BuildTimes,   \* the dates BSP_RTC_init may set
          Window        \* bound: the seconds of a day in which the clock ticks

(* A date as callers give it: RTC_Set itself checks no more than the year. *)
Time_Def == [year : Nat, mon : 1 .. 12, day : 1 .. 31, hour : 0 .. 23,
             min : 0 .. 59, sec : 0 .. 59, week : Nat]

ASSUME RtcAssumption ==
  /\ Settings \subseteq Time_Def
  /\ BuildTimes \subseteq {t \in Time_Def : t.year \in 1970 .. 2099}

VARIABLES g_sec,
          set,          \* history: what RTC_Set last took
          mark,         \* a time some caller read, to measure from
          since         \* history: the seconds that passed after mark was read

vars == <<g_sec, set, mark, since>>

DAY == 86400
MAX_DAY == 49710        \* the day on which the 32 bits of g_sec end
month_table == <<31, 28, 31, 30, 31, 30, 31, 31, 30, 31, 30, 31>>
week_table == <<0, 3, 3, 6, 1, 4, 6, 2, 5, 0, 3, 5>>

(* Mutant of Is_LeapYear: without the rule for centuries.                  *)
Is_LeapYearPlain(year) == year % 4 = 0 /\ year % 100 # 0

Is_LeapYear(year) == (year % 4 = 0 /\ year % 100 # 0) \/ year % 400 = 0

(* The loops that add up the days of the years before y, 365 each and one  *)
(* more for a leap year, and of the months before m, with 29 February.     *)
YearsBefore ==
  [y \in 1970 .. 2107 |-> 365 * (y - 1970) + Cardinality({x \in 1970 .. y - 1 : Is_LeapYear(x)})]

PlainMonths[m \in 1 .. 13] == IF m = 1 THEN 0 ELSE PlainMonths[m - 1] + month_table[m - 1]

MonthsBefore(y, m) == PlainMonths[m] + IF Is_LeapYear(y) /\ m > 2 THEN 1 ELSE 0

(* Mutant of Seccount: leap years get no day more in February.             *)
SeccountPlain(t) ==
  [day |-> YearsBefore[t.year] + PlainMonths[t.mon] + t.day - 1,
   sec |-> t.hour * 3600 + t.min * 60 + t.sec]

(* The seconds RTC_Set, Time_Pasted and Time_comp count up to a date: the  *)
(* days of the years and months before it, its day and its time.           *)
Seccount(t) ==
  [day |-> YearsBefore[t.year] + MonthsBefore(t.year, t.mon) + t.day - 1,
   sec |-> t.hour * 3600 + t.min * 60 + t.sec]

(* g_sec - seccount, for dates at most a few days apart.                   *)
Difference(a, b) == (a.day - b.day) * DAY + a.sec - b.sec

RTC_GetWeek(year, month, day) ==
  LET yearL == (year % 100) + (IF year \div 100 > 19 THEN 100 ELSE 0)
      temp == ((yearL + (yearL \div 4)) % 7) + day + week_table[month]
  IN (IF yearL % 4 = 0 /\ month < 3 THEN temp - 1 ELSE temp) % 7

(* RTC_Get takes whole years off the days from 1970 on, then whole months: *)
(* it stops at the first that the days left do not fill.  A year has 365   *)
(* or 366 days and a month at most 31, which bounds where that can be.     *)
YearOf(d) == CHOOSE y \in 1970 + (d \div 366) .. 1970 + (d \div 365) :
               YearsBefore[y] <= d /\ d < YearsBefore[y + 1]
MonthOf(y, d) == CHOOSE m \in 1 + (d \div 31) .. 12 :
                   MonthsBefore(y, m) <= d /\ d < MonthsBefore(y, m + 1)

(* On the first day of 1970 no year is counted, and the year stays 0.      *)
RTC_Get(g) ==
  LET year == IF g.day = 0 THEN 0 ELSE YearOf(g.day)
      left == IF g.day = 0 THEN 0 ELSE g.day - YearsBefore[year]
      mon == MonthOf(year, left)
      day == left - MonthsBefore(year, mon) + 1
  IN [year |-> year, mon |-> mon, day |-> day, week |-> RTC_GetWeek(year, mon, day),
      hour |-> g.sec \div 3600, min |-> (g.sec % 3600) \div 60, sec |-> g.sec % 60]

Legal(t) == t.year \in 1970 .. 2099

-----------------------------------------------------------------------------
(* BSP_RTC_init sets the clock to the time of the build.                   *)
Init == /\ set \in BuildTimes
        /\ g_sec = Seccount(set)
        /\ mark = RTC_Get(g_sec)
        /\ since = 0

(* Mutant of RTC_Set: takes any year.                                      *)
RTC_SetAny(t) == /\ set' = t
                 /\ g_sec' = Seccount(t)
                 /\ mark' = RTC_Get(g_sec')
                 /\ since' = 0

(* RTC_Set refuses years outside the range; a caller measures anew.        *)
RTC_Set(t) == /\ Legal(t)
              /\ set' = t
              /\ g_sec' = Seccount(t)
              /\ mark' = RTC_Get(g_sec')
              /\ since' = 0

(* Somebody reads the clock.                                               *)
Read == /\ mark' = RTC_Get(g_sec)
        /\ since' = 0
        /\ UNCHANGED <<g_sec, set>>

RTC_IRQHandler == /\ g_sec.sec \in Window
                  /\ g_sec' = IF g_sec.sec = DAY - 1 THEN [day |-> g_sec.day + 1, sec |-> 0]
                              ELSE [g_sec EXCEPT !.sec = @ + 1]
                  /\ since' = since + 1
                  /\ UNCHANGED <<set, mark>>

Next == (\E t \in Settings : RTC_Set(t)) \/ Read \/ RTC_IRQHandler

Spec == Init /\ [][Next]_vars

-----------------------------------------------------------------------------
TypeOK == /\ Legal(set)
          /\ g_sec \in [day : 0 .. MAX_DAY, sec : 0 .. DAY - 1]
          /\ Legal(mark) /\ mark.mon \in 1 .. 12 /\ mark.day \in 1 .. 31
          /\ since \in Nat

Time_Pasted(Oldtime) ==
  IF Legal(Oldtime) THEN Difference(g_sec, Seccount(Oldtime)) ELSE 0

Time_comp(Oldtime, Newtime) ==
  IF Legal(Oldtime) /\ Legal(Newtime) THEN Difference(Seccount(Newtime), Seccount(Oldtime)) ELSE 0

(* The time shown is that of the civil calendar: RTC_Get undoes RTC_Set,   *)
(* and each interrupt moves it to the next second, through the ends of     *)
(* minutes, months, leap years and centuries, weekday included.            *)
Civil == INSTANCE Calendar WITH now <- RTC_Get(g_sec)
IsCalendar == Civil!Spec

(* The seconds between a time that was read and now, by either function,   *)
(* are those that passed, across the end of any day, month or year.        *)
Elapsed == /\ Time_Pasted(mark) = since
           /\ Time_comp(mark, RTC_Get(g_sec)) = since
=============================================================================

------------------------------ MODULE Calendar ------------------------------
(***************************************************************************)
(* What the clock of BSP/RTC.C promises: the date and time of day in the   *)
(* civil calendar, with the weekday, stepping from second to second, and   *)
(* replaced when the clock is set.                                         *)
(***************************************************************************)
EXTENDS Integers

VARIABLES now,          \* Time_Def
          set           \* what the clock was last set to

Leap(y) == (y % 4 = 0 /\ y % 100 # 0) \/ y % 400 = 0
MonthLength(y, m) == CASE m = 2 -> IF Leap(y) THEN 29 ELSE 28
                       [] m \in {4, 6, 9, 11} -> 30
                       [] OTHER -> 31

(* The weekday, Sunday 0, by counting days since the year 1.               *)
DaysBeforeMonth(y, m) == 30 * (m - 1) + ((m + IF m > 8 THEN 1 ELSE 0) \div 2)
                         - IF m < 3 THEN 0 ELSE IF Leap(y) THEN 1 ELSE 2
DayNumber(y, m, d) == LET p == y - 1
                      IN 365 * p + (p \div 4) - (p \div 100) + (p \div 400)
                         + DaysBeforeMonth(y, m) + d
Weekday(y, m, d) == DayNumber(y, m, d) % 7

WithWeek(t) == [t EXCEPT !.week = Weekday(t.year, t.mon, t.day)]

(* The second after t: each field carries into the next.                   *)
NextDay(t) ==
  LET week == (t.week + 1) % 7
      s == [t EXCEPT !.sec = 0, !.min = 0, !.hour = 0, !.week = week]
  IN IF t.day < MonthLength(t.year, t.mon) THEN [s EXCEPT !.day = t.day + 1]
     ELSE IF t.mon < 12 THEN [s EXCEPT !.day = 1, !.mon = t.mon + 1]
     ELSE [s EXCEPT !.day = 1, !.mon = 1, !.year = t.year + 1]

NextSecond(t) ==
  IF t.sec < 59 THEN [t EXCEPT !.sec = t.sec + 1]
  ELSE IF t.min < 59 THEN [t EXCEPT !.sec = 0, !.min = t.min + 1]
  ELSE IF t.hour < 23 THEN [t EXCEPT !.sec = 0, !.min = 0, !.hour = t.hour + 1]
  ELSE NextDay(t)

-----------------------------------------------------------------------------
Init == now = WithWeek(set)
Tick == now' = NextSecond(now) /\ UNCHANGED set
Set == now' = WithWeek(set')

Spec == Init /\ [][Tick \/ Set]_<<now, set>>
=============================================================================

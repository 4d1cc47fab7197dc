------------------------------- MODULE MCRtc -------------------------------
(* Every day of the years around the ends of the range and around 2000,    *)
(* and the ends of each month in between, two seconds before midnight; the *)
(* clock is set again to a few times at which other fields carry, and to   *)
(* a year outside the range.                                               *)
EXTENDS Rtc

At(y, m, d, h, mi, s) == [year |-> y, mon |-> m, day |-> d, hour |-> h, min |-> mi,
                          sec |-> s, week |-> 0]

Full == (1970 .. 1973) \cup (1996 .. 2004) \cup (2096 .. 2098)

Epoch == At(1970, 1, 1, 23, 59, 58)
MCBuildTimes ==
  ({At(y, m, d, 23, 59, 58) : y \in Full, m \in 1 .. 12, d \in 1 .. 28}
  \cup {At(y, m, MonthsBefore(y, m + 1) - MonthsBefore(y, m), 23, 59, 58) : y \in 1970 .. 2099, m \in 1 .. 12})
  \ {Epoch, At(2099, 12, 31, 23, 59, 58)}

MCSettings == {At(1999, 12, 31, 12, 59, 59), At(2000, 2, 28, 0, 0, 59),
               At(2100, 1, 1, 0, 0, 59)}

MCWindow == {59, 46799, 86398, 86399}
=============================================================================

------------------------------- MODULE MCSeries -------------------------------
(***************************************************************************)
(* An instance of Series: a year of two months, of 31 and 28 days, the     *)
(* first of which is a Thursday; days of 12 units, with clock changes of   *)
(* one unit in the nights to day 17 and to day 45.                         *)
(***************************************************************************)
EXTENDS Series

YearLength == 59
MCLastDay == 64

MCCalendar ==
  [d \in 0..MCLastDay |->
     LET day == d % YearLength
         january == day < 31
     IN [weekday |-> (d + 4) % 7,
         month |-> IF january THEN 1 ELSE 2,
         date |-> IF january THEN day + 1 ELSE day - 30,
         last |-> IF january THEN 31 ELSE 28]]

OptionsOf(freq, interval, weekdays, monthdays, months) ==
  [freq |-> freq, interval |-> interval, byweekday |-> weekdays, bymonthday |-> monthdays,
   bymonth |-> months]

(* Every second week, plain monthly and yearly, a day of every month, the fifth weekday *)
MCApiRules ==
  {OptionsOf("weekly", 2, {}, {}, {}), OptionsOf("monthly", 1, {}, {}, {}),
   OptionsOf("yearly", 1, {}, {}, {}), OptionsOf("yearly", 1, {}, {2}, {}),
   OptionsOf("monthly", 1, {[day |-> 5, n |-> 5]}, {}, {})}

Pattern(freq, weekdays, mode, n, day) ==
  [NoRecurrence EXCEPT !.freq = freq, !.weekdays = weekdays, !.monthlyMode = mode,
                       !.monthDay = n, !.nth = IF n \in {-1} \cup 1..4 THEN n ELSE 1, !.nthWeekday = day]

MCConfigs ==
  LET counted == {Pattern("weekly", {5}, "day", 1, 1), Pattern("monthly", {}, "nthWeekday", 3, 0)}
  IN {[c EXCEPT !.count = 4] : c \in counted}
       \cup {[NoRecurrence EXCEPT !.freq = "weekly", !.weekdays = {0, 5}, !.until = 20 * DayLength - 5]}
       \cup {[NoRecurrence EXCEPT !.freq = "yearly", !.yearDay = 2, !.count = 2]}

(* By day, at the hour that the clock skips and at the one it has twice, and on *)
(* the day that it skips it                                                     *)
MCStarts == {29 * DayLength + 9, 1 * DayLength + 1, 1 * DayLength, 17 * DayLength + 1}
=============================================================================

---------------------------- MODULE CalendarLayout ----------------------------
(***************************************************************************)
(* How the calendar puts events on its grid: client/src/utils/             *)
(* calendarUtils.ts, the date arithmetic of utils/date.ts and what the     *)
(* views of components/calendar make of it.                                *)
(*                                                                         *)
(* Days are counted from the first day of the month MonthStarts[1], times  *)
(* are instants and counted from its midnight.  On the day ChangeDay the   *)
(* clock is put back by Shift (forward, if it is negative) when ChangeAt   *)
(* of that day has passed; a clock shows DayLength units a day.  Weeks     *)
(* begin on days divisible by WeekLength, 7 in the code.                   *)
(***************************************************************************)
EXTENDS Integers, SequencesExt

CONSTANTS
  DayLength,
  MinBlock,      \* MIN_BLOCK_MINUTES
  TailEnd,       \* OVERNIGHT_TAIL_END_HOUR
  WeekLength,
  MonthStarts,   \* first days of consecutive months; the last ends the calendar
  ChangeDay, ChangeAt, Shift

ASSUME LayoutAssumption ==
  /\ {DayLength, MinBlock, TailEnd, WeekLength} \subseteq Nat \ {0}
  /\ MinBlock <= DayLength /\ TailEnd < DayLength
  /\ MonthStarts \in Seq(Nat) /\ Len(MonthStarts) >= 2 /\ MonthStarts[1] = 0
  /\ \A m \in 1..(Len(MonthStarts) - 1) : MonthStarts[m] + WeekLength <= MonthStarts[m + 1]

(* The clock is changed by night, before the hour TailEnd, and on its day. *)
ASSUME ClockAssumption ==
  /\ ChangeDay \in Nat /\ ChangeAt \in Nat /\ Shift \in Int
  /\ Shift <= ChangeAt /\ ChangeAt <= TailEnd /\ ChangeAt <= TailEnd + Shift

Days == 0..(MonthStarts[Len(MonthStarts)] - 1)
MonthOf(d) == CHOOSE m \in 1..(Len(MonthStarts) - 1) : MonthStarts[m] <= d /\ d < MonthStarts[m + 1]

StartOfWeek(d) == d - (d % WeekLength)
StartOfMonth(d) == MonthStarts[MonthOf(d)]

(* monthGridRange: the full weeks that cover the month *)
MonthGridRange(monthStart) ==
  LET last == MonthStarts[MonthOf(monthStart) + 1] - 1
  IN StartOfWeek(monthStart)..(StartOfWeek(last) + WeekLength - 1)

(* new Date(year, month, day) of a day, and at the hour TailEnd *)
Midnight(d) == d * DayLength + (IF d > ChangeDay THEN Shift ELSE 0)
Morning(d) == Midnight(d) + TailEnd + (IF d = ChangeDay THEN Shift ELSE 0)

(* getDate, and getMinutesSinceMidnight: what the clock shows *)
DayOf(t) ==
  CASE t < ChangeDay * DayLength -> t \div DayLength
    [] t >= Midnight(ChangeDay + 1) -> (t - Shift) \div DayLength
    [] OTHER -> ChangeDay
BeforeChange(t) == t < Midnight(ChangeDay) + ChangeAt
Clock(t) ==
  t - Midnight(DayOf(t)) - (IF DayOf(t) = ChangeDay /\ ~BeforeChange(t) THEN Shift ELSE 0)

-----------------------------------------------------------------------------
(* splitEventsByDay: the part of each event that falls on day d, if any *)
OnDay(e, d) ==
  e.start < Midnight(d + 1) /\ (e.end > Midnight(d) \/ e.start >= Midnight(d))

Segment(e, d) ==
  [event |-> e,
   start |-> IF e.start < Midnight(d) THEN Midnight(d) ELSE e.start,
   end |-> IF e.end > Midnight(d + 1) THEN Midnight(d + 1) ELSE e.end,
   continuesBefore |-> e.start < Midnight(d),
   continuesAfter |-> e.end > Midnight(d + 1)]

SplitByDay(events, d) == {Segment(e, d) : e \in {x \in events : OnDay(x, d)}}

(* isOvernightTail: the morning end of an event that began the day before *)
IsOvernightTail(s) ==
  /\ s.continuesBefore
  /\ s.event.start >= Midnight(DayOf(s.start) - 1)
  /\ s.event.end <= Morning(DayOf(s.start))

-----------------------------------------------------------------------------
(* layoutDay.  The events of a day, in the order of their starts: those that *)
(* start together keep the order they were listed in, which is any.          *)
LayoutEnd_AsIs(s) == s.end
LayoutEnd(s) == IF s.end >= s.start + MinBlock THEN s.end ELSE s.start + MinBlock

Orders(segments) ==
  {q \in SetToSeqs(segments) : \A i \in 1..(Len(q) - 1) : q[i].start <= q[i + 1].start}

(* A group goes on as long as the next event starts before all of it ended. *)
NextInGroups(groups, s) ==
  LET goesOn == groups # <<>> /\ \E x \in Range(Last(groups)) : s.start < LayoutEnd(x)
  IN IF goesOn THEN ReplaceAt(groups, Len(groups), Append(Last(groups), s))
     ELSE Append(groups, <<s>>)

(* the groups once the first n events of the order are in them *)
GroupsAfter(q) ==
  LET after[n \in 0..Len(q)] == IF n = 0 THEN <<>> ELSE NextInGroups(after[n - 1], q[n])
  IN after
Groups(q) == GroupsAfter(q)[Len(q)]

(* Within a group an event goes to the first column that is free by then. *)
IsFree(column, s) == LayoutEnd(Last(column)) <= s.start

NextInColumns(columns, s) ==
  LET free == {i \in 1..Len(columns) : IsFree(columns[i], s)} IN
  IF free = {} THEN Append(columns, <<s>>)
  ELSE LET i == CHOOSE i \in free : \A j \in free : i <= j
       IN ReplaceAt(columns, i, Append(columns[i], s))

ColumnsAfter(group) ==
  LET after[n \in 0..Len(group)] ==
        IF n = 0 THEN <<>> ELSE NextInColumns(after[n - 1], group[n])
  IN after
Columns(group) == ColumnsAfter(group)[Len(group)]

(* A block spans one column: widening it is skipped for every block, because *)
(* group.includes looks among the segments for a copy of one of them.        *)
Span == 1
Place(s, columns) ==
  CHOOSE i \in 1..Len(columns) : s \in Range(columns[i])
Placed(q) ==
  UNION {LET columns == Columns(g) IN
         {[segment |-> s, col |-> Place(s, columns), span |-> Span] : s \in Range(g)} :
         g \in Range(Groups(q))}

-----------------------------------------------------------------------------
(* getSegmentGridMinutes: from where to where a block is drawn, by the     *)
(* clock.  One that would run past the bottom of the grid is moved up.     *)
GridStart(s) ==
  IF Clock(s.start) > DayLength - MinBlock THEN DayLength - MinBlock ELSE Clock(s.start)
GridEnd(s) ==
  LET end == IF DayOf(s.end) # DayOf(s.start) THEN DayLength ELSE Clock(s.end) IN
  IF end >= GridStart(s) + MinBlock THEN end ELSE GridStart(s) + MinBlock

MovedUp(s) == Clock(s.start) > DayLength - MinBlock

Covers(p, r) ==
  /\ p.col < r.col + r.span /\ r.col < p.col + p.span
  /\ GridStart(p.segment) < GridEnd(r.segment) /\ GridStart(r.segment) < GridEnd(p.segment)
=============================================================================

------------------------------- MODULE Calendar -------------------------------
(***************************************************************************)
(* The page of the calendar: client/src/routes/_app/calendar/index.tsx and *)
(* components/calendar/Calendar.tsx.  Its place is in the URL; parts that  *)
(* the URL lacks come from the tab's sessionStorage (the day and the       *)
(* resources last viewed) and from localStorage (the view and the number   *)
(* of days last picked), which other tabs write as well.  From the place   *)
(* follow the range that is fetched and the days that are drawn.           *)
(***************************************************************************)
EXTENDS CalendarLayout, FiniteSets

CONSTANTS
  Resources,
  DayRanges,     \* the numbers of days that can be picked
  ScreenDays,    \* as many as fit the screen
  Today,
  Schedules,     \* what the server may have: sets of items
  MaxMoves,      \* bound on the steps the user takes, per schedule
  None

VARIABLES
  items,       \* reservations, restrictions and blocks on the server, with their rows
  loaded,      \* whether the list of resources has arrived
  open,        \* whether the calendar is the page that is shown
  url,         \* its search parameters
  remembered,  \* sessionStorage: kuutar.calendar.view
  stored,      \* localStorage: the view mode and the number of days
  last,        \* history: the day and the resources last viewed
  moves

vars == <<items, loaded, open, url, remembered, stored, last, moves>>

Modes == {"days", "month"}
Rows == [resource : Resources \cup {None}, start : Nat, end : Nat, reserved : BOOLEAN]
Items == [kind : {"reservation", "restriction", "block"}, cancelled : BOOLEAN, rows : SUBSET Rows]

ASSUME CalendarAssumption ==
  /\ DayRanges \subseteq Nat \ {0} /\ {1, WeekLength, ScreenDays} \subseteq DayRanges
  /\ {Today, Today + 1} \subseteq Days /\ MaxMoves \in [Schedules -> Nat]
  /\ \A schedule \in Schedules : IsFiniteSet(schedule)
  /\ \A schedule \in Schedules : \A i \in schedule :
       /\ i.kind \in {"reservation", "restriction", "block"} /\ i.cancelled \in BOOLEAN
       /\ IsFiniteSet(i.rows)
       /\ \A r \in i.rows : r.start \in Nat /\ r.end \in Nat /\ r.start < r.end
  /\ None \notin Days /\ None \notin Modes

Views == [start : Days \cup {None}, resources : (SUBSET Resources) \cup {None}]
Bare == [start |-> None, view |-> None, days |-> None, resources |-> None]

TypeOK ==
  /\ items \in Schedules
  /\ {loaded, open} \subseteq BOOLEAN
  /\ url \in [start : Days \cup {None}, view : Modes \cup {None}, days : DayRanges \cup {None},
              resources : (SUBSET Resources) \cup {None}]
  /\ remembered \in Views /\ last \in Views
  /\ stored \in [view : Modes \cup {None}, days : DayRanges \cup {None}]
  /\ moves \in 0..MaxMoves[items]

-----------------------------------------------------------------------------
(* CalendarRoutePage: the place a URL stands for, with what was remembered *)
Or(x, y) == IF x # None THEN x ELSE y

EffectiveView(u) == Or(u.view, Or(stored.view, "days"))
EffectiveDays(u) == Or(u.days, Or(stored.days, ScreenDays))
DefaultStart(u) ==
  CASE EffectiveView(u) = "month" -> StartOfMonth(Today)
    [] EffectiveView(u) # "month" /\ EffectiveDays(u) = WeekLength -> StartOfWeek(Today)
    [] OTHER -> Today
EffectiveStart(u) == Or(u.start, Or(remembered.start, DefaultStart(u)))
EffectiveResources(u) == Or(u.resources, remembered.resources)

(* Calendar: the days that are shown *)
IsMonth == EffectiveView(url) = "month"
Start == IF IsMonth THEN StartOfMonth(EffectiveStart(url)) ELSE EffectiveStart(url)
VisibleDays ==
  IF IsMonth THEN MonthGridRange(Start) ELSE Start..(Start + EffectiveDays(url) - 1)

ActiveResources ==
  LET selected == EffectiveResources(url) IN
  IF selected # None /\ selected # {} THEN selected ELSE Resources

(* The lists are asked for from the start of the first day that is shown *)
(* to the end of the last one.                                           *)
FetchRange_WithoutLastDay ==
  LET first == CHOOSE d \in VisibleDays : \A x \in VisibleDays : d <= x
      past == CHOOSE d \in VisibleDays : \A x \in VisibleDays : x <= d
  IN [start |-> Midnight(first), end |-> Midnight(past)]
FetchRange ==
  LET first == CHOOSE d \in VisibleDays : \A x \in VisibleDays : d <= x
      past == 1 + CHOOSE d \in VisibleDays : \A x \in VisibleDays : x <= d
  IN [start |-> Midnight(first), end |-> Midnight(past)]

Fetched(i) == {r \in i.rows : r.start < FetchRange.end /\ r.end > FetchRange.start}

(* calendarEvents: one event for the rows of an item that share their times, *)
(* a block's rows each by themselves                                         *)
Event(i, start, end, resources) ==
  [item |-> i, start |-> start, end |-> end, resources |-> resources]

Grouped(i, rows) ==
  {Event(i, r.start, r.end, {x.resource : x \in {y \in rows : y.start = r.start /\ y.end = r.end}}) :
     r \in rows}

EventsOf(i) ==
  LET active == {r \in Fetched(i) : r.resource \in ActiveResources} IN
  CASE i.kind = "reservation" -> IF i.cancelled THEN {} ELSE Grouped(i, active)
    [] i.kind = "restriction" ->
         IF ActiveResources = {} THEN {}
         ELSE Grouped(i, active \cup {r \in Fetched(i) : r.resource = None})
    [] i.kind = "block" ->
         {Event(i, r.start, r.end, {r.resource}) : r \in {x \in active : ~x.reserved}}

CalendarEvents == IF loaded THEN UNION {EventsOf(i) : i \in items} ELSE {}

(* WeekView with DayColumn, and MonthView, which lists reservations only *)
DayColumn(d) == SplitByDay(CalendarEvents, d)

MonthCell(d) ==
  {s \in SplitByDay({e \in CalendarEvents : e.item.kind = "reservation"}, d) : ~IsOvernightTail(s)}

-----------------------------------------------------------------------------
(* The page with the URL u is rendered: its effects remember the day and the *)
(* resources, and select all resources when none were ever selected.         *)
Rendered(u, arrived) ==
  LET selected == IF arrived /\ EffectiveResources(u) = None THEN Resources ELSE EffectiveResources(u)
  IN /\ url' = IF arrived /\ EffectiveResources(u) = None THEN [u EXCEPT !.resources = Resources] ELSE u
     /\ remembered' = [start |-> EffectiveStart(u), resources |-> selected]
     /\ last' = remembered'

Moves == moves < MaxMoves[items] /\ moves' = moves + 1

(* handleSearchChange: a view or a number of days that is picked is stored. *)
Merged(f, g) == [x \in DOMAIN g |-> IF x \in DOMAIN f THEN f[x] ELSE g[x]]

SearchChange(next) ==
  /\ open /\ Moves
  /\ stored' = Merged([x \in DOMAIN next \cap {"view", "days"} |-> next[x]], stored)
  /\ Rendered(Merged(next, url), loaded)
  /\ UNCHANGED <<items, loaded, open>>

MoveStart_ByShownDays(direction) ==
  LET next == Start + direction * Cardinality(VisibleDays)
  IN next \in Days /\ SearchChange([start |-> next])
MoveStart(direction) ==
  LET next == IF IsMonth THEN MonthOf(Start) + direction ELSE Start + direction * EffectiveDays(url)
      day == IF IsMonth THEN MonthStarts[next] ELSE next
  IN /\ IsMonth => next \in 1..(Len(MonthStarts) - 1)
     /\ day \in Days
     /\ SearchChange([start |-> day])

PickDate(d) == SearchChange([start |-> d])

(* handleViewChange: from a month to its days around today, or to the 1st *)
ChangeView(mode) ==
  LET day == IF MonthOf(Today) = MonthOf(Start) THEN Today ELSE Start
      first == IF EffectiveDays(url) = WeekLength THEN StartOfWeek(day) ELSE day
  IN /\ mode # EffectiveView(url)
     /\ SearchChange([view |-> mode, start |-> IF mode = "month" THEN StartOfMonth(Start) ELSE first])

ChangeDays(n) ==
  /\ ~IsMonth
  /\ SearchChange([days |-> n, start |-> IF n = WeekLength THEN StartOfWeek(Start) ELSE Start])

DayClick(d) ==
  /\ IsMonth /\ d \in VisibleDays \cap Days
  /\ SearchChange([view |-> "days", days |-> 1, start |-> d])

(* With none selected all are active, so the next click takes one away. *)
ToggleResource(r) ==
  /\ loaded
  /\ SearchChange([resources |-> IF r \in ActiveResources THEN ActiveResources \ {r}
                                 ELSE ActiveResources \cup {r}])

-----------------------------------------------------------------------------
(* A link opens the calendar: a bare one, that of a resource, or a shared URL. *)
OpenLink(u) ==
  /\ ~open /\ Moves
  /\ open' = TRUE
  /\ Rendered(u, loaded)
  /\ UNCHANGED <<items, loaded, stored>>

Return == OpenLink(Bare)

Leave ==
  /\ open
  /\ open' = FALSE
  /\ UNCHANGED <<items, loaded, url, remembered, stored, last, moves>>

ResourcesArrive ==
  /\ open /\ ~loaded
  /\ loaded' = TRUE
  /\ Rendered(url, TRUE)
  /\ UNCHANGED <<items, open, stored, moves>>

OtherTab ==
  /\ Moves
  /\ \E mode \in Modes, n \in DayRanges : stored' \in {[stored EXCEPT !.view = mode], [stored EXCEPT !.days = n]}
  /\ UNCHANGED <<items, loaded, open, url, remembered, last>>

Init ==
  /\ items \in Schedules
  /\ loaded \in BOOLEAN /\ open = FALSE
  /\ url = Bare /\ remembered = [start |-> None, resources |-> None] /\ last = remembered
  /\ stored \in [view : {None}, days : DayRanges \cup {None}]
  /\ moves = 0

Links ==
  {Bare} \cup [start : {None}, view : {None}, days : {None}, resources : {{r} : r \in Resources}]
    \cup [start : {Today + 1}, view : {None, "month"}, days : {None, WeekLength}, resources : {{}, Resources}]

Next ==
  \/ \E u \in Links : OpenLink(u)
  \/ Leave \/ ResourcesArrive \/ OtherTab
  \/ \E direction \in {-1, 1} : MoveStart(direction)
  \/ \E d \in Days : PickDate(d) \/ DayClick(d)
  \/ \E mode \in Modes : ChangeView(mode)
  \/ \E n \in DayRanges : ChangeDays(n)
  \/ \E r \in Resources : ToggleResource(r)

Spec == Init /\ [][Next]_vars

-----------------------------------------------------------------------------
Shown == open /\ loaded

(* What the user is to see of an item: its rows on the active resources, as  *)
(* long as there are any those of all resources, and of a block those that   *)
(* are free                                                                  *)
Visible(i, r) ==
  /\ \/ r.resource \in ActiveResources
     \/ i.kind = "restriction" /\ r.resource = None /\ ActiveResources # {}
  /\ ~(i.kind = "reservation" /\ i.cancelled) /\ ~(i.kind = "block" /\ r.reserved)
Touches(r, d) == r.start < Midnight(d + 1) /\ r.end > Midnight(d)

Of(segments, i, r) ==
  {s \in segments : s.event.item = i /\ s.event.start = r.start /\ s.event.end = r.end}
StaysOvernight(r, d) == DayOf(r.start) = d - 1 /\ r.end <= Morning(d)

(* On the days that are shown each of them finds a row that touches the day, *)
(* once, whatever range was fetched for the view; the month lists a          *)
(* reservation that ends by morning only on the day before.                  *)
ShownOnItsDays ==
  Shown => \A d \in VisibleDays :
    LET segments == IF IsMonth THEN MonthCell(d) ELSE DayColumn(d) IN
    \A i \in items : \A r \in i.rows :
    LET expected == /\ Visible(i, r) /\ Touches(r, d)
                    /\ IsMonth => i.kind = "reservation" /\ ~StaysOvernight(r, d)
    IN /\ expected => Of(segments, i, r) # {}
       /\ Of(segments, i, r) # {} => Touches(r, d)
       /\ i.kind # "block" => Cardinality(Of(segments, i, r)) <= 1

(* Among the events of a day no block lies over another one, in whatever     *)
(* order they were listed, unless it was moved up from the end of the day or *)
(* the clock was put back between them: the grid has one row for the hour    *)
(* that the clock shows twice, so an event that begins less than that after  *)
(* the other one has ended is drawn at the same time.                        *)
PutBackBetween(s, x) ==
  BeforeChange(s.start) /\ ~BeforeChange(x.start) /\ x.start < LayoutEnd(s) + Shift

NothingHidden ==
  Shown /\ ~IsMonth => \A d \in VisibleDays : \A q \in Orders(DayColumn(d)) :
    \A p, r \in Placed(q) :
      p # r /\ Covers(p, r) =>
        \/ MovedUp(p.segment) \/ MovedUp(r.segment)
        \/ PutBackBetween(p.segment, r.segment) \/ PutBackBetween(r.segment, p.segment)

(* Paging reaches every day: what is shown next begins where this ends, at the *)
(* latest, and goes on beyond it; back again shows the same days.  Changing    *)
(* the view keeps today, or else the first day, in sight.                      *)
Beyond(these, those) ==
  /\ \E d \in these : d + 1 \in those
  /\ \E d \in those : \A x \in these : x < d
NoDaySkipped ==
  [][open =>
     /\ MoveStart(1) => Beyond(VisibleDays, VisibleDays')
     /\ MoveStart(-1) => Beyond(VisibleDays', VisibleDays)
     /\ ChangeView("month") => Start \in VisibleDays'
     /\ ChangeView("days") =>
          (IF Today \in Days /\ MonthOf(Today) = MonthOf(Start) THEN Today ELSE Start) \in VisibleDays'
    ]_vars

=============================================================================

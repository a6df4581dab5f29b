-------------------------------- MODULE Series --------------------------------
(***************************************************************************)
(* Recurring series on the client: the rules of utils/rruleUtils.ts, the   *)
(* controls of components/RecurrenceFields.tsx that change them, and       *)
(* utils/series.ts, which detaches one occurrence and reopens a series for *)
(* editing.  Reservations, restrictions and reservable blocks share all of *)
(* it; the module follows one series on one resource.                      *)
(*                                                                         *)
(* A Date is an instant.  A floating date is the local wall clock's        *)
(* reading, which is what rules hold and what rrule.js computes with.  The *)
(* clock is put forward at SpringAt and back at AutumnAt.                  *)
(***************************************************************************)
EXTENDS Integers, FiniteSets, FiniteSetsExt

CONSTANTS
  LastDay,     \* the calendar's days are 0..LastDay
  Calendar,    \* each day's weekday, day of the month, month and its last day
  DayLength,   \* the wall clock's units per day
  SpringAt, AutumnAt, Shift,   \* the clock changes, and by how much
  ApiRules,    \* patterns of rules that were not written by the form
  Configs,     \* patterns of series that were
  Starts,      \* wall-clock starts, of series and in the form
  Durations,
  Counts,      \* inputs of the count field
  MaxEdits,    \* bound on the changes made in forms
  MaxSaves,    \* bound on saving and detaching
  None

CalendarDays == [weekday : 0..6, date : 1..31, month : 1..12, last : 28..31]
AllDays == 0..6

(* The options of a rule that decide on its days.  interval stands for all *)
(* that the form can't express.                                            *)
RuleOptions ==
  [freq : {"daily", "weekly", "monthly", "yearly"}, interval : Nat \ {0},
   byweekday : SUBSET [day : AllDays, n : Int], bymonthday : SUBSET ({-1} \cup 1..31),
   bymonth : SUBSET (1..12)]

(* RRuleConfig: what the form holds of a series *)
ConfigType ==
  [freq : {"none", "weekly", "monthly", "yearly", "custom"}, weekdays : SUBSET AllDays,
   monthlyMode : {"day", "nthWeekday"}, monthDay : {-1} \cup 1..31, nth : {-1} \cup 1..4,
   nthWeekday : AllDays, yearMonth : 1..12, yearDay : 1..31,
   until : Nat \cup {None}, count : Nat, exdates : SUBSET Nat, custom : RuleOptions \cup {None}]

(* A stored rule.  zoned: it names its time zone and holds floating dates;  *)
(* a rule of an earlier version holds instants.                             *)
Rules ==
  [options : RuleOptions, until : Nat \cup {None}, count : Nat, zoned : BOOLEAN,
   dtstart : Nat, exdates : SUBSET Nat]

(* The clock is put forward at night, the same day before and after. *)
ASSUME SeriesAssumption ==
  /\ LastDay \in Nat /\ Calendar \in [0..LastDay -> CalendarDays]
  /\ {DayLength, Shift} \subseteq Nat \ {0} /\ {SpringAt, AutumnAt} \subseteq Nat
  /\ SpringAt + 2 * Shift <= AutumnAt /\ (SpringAt % DayLength) + 2 * Shift <= DayLength
  /\ ApiRules \subseteq RuleOptions
  /\ Configs \subseteq {c \in ConfigType : c.freq \in {"weekly", "monthly", "yearly"} /\ c.exdates = {}}
  /\ Starts \subseteq 0..(DayLength * LastDay) /\ Durations \subseteq Nat \ {0}
  /\ Counts \subseteq Nat /\ {MaxEdits, MaxSaves} \subseteq Nat
  /\ None \notin Nat \cup RuleOptions \cup ConfigType \cup Rules

-----------------------------------------------------------------------------
(* toFloating and fromFloating: a reading that the clock skips is taken as if *)
(* it had not been put forward yet, one it has twice as the first of them.    *)
OffsetAt(i) == IF SpringAt <= i /\ i < AutumnAt THEN Shift ELSE 0
ToFloating(i) == i + OffsetAt(i)
FromFloating_Utc(w) == w
FromFloating(w) ==
  IF SpringAt + Shift <= w /\ w - Shift < AutumnAt THEN w - Shift ELSE w

Skipped(w) == SpringAt <= w /\ w < SpringAt + Shift

DayOf(w) == w \div DayLength
TimeOf(w) == w % DayLength
On(i) == Calendar[DayOf(ToFloating(i))]
EndOfDay(i) == (DayOf(ToFloating(i)) + 1) * DayLength - 1    \* setHours(23, 59, 59, 999), floating

-----------------------------------------------------------------------------
NoOptions == [freq |-> "weekly", interval |-> 1, byweekday |-> {}, bymonthday |-> {}, bymonth |-> {}]
Every(day) == [day |-> day, n |-> 0]

NoRecurrence ==
  [freq |-> "none", weekdays |-> {}, monthlyMode |-> "day", monthDay |-> 1, nth |-> 1,
   nthWeekday |-> 1, yearMonth |-> 1, yearDay |-> 1, until |-> None, count |-> 0,
   exdates |-> {}, custom |-> None]

NthWeekdayOfMonth(c) == IF c.date > 28 THEN -1 ELSE (c.date + 6) \div 7

(* recurrenceDefaults *)
WithDefaults(config, i) ==
  LET c == On(i) IN
  [config EXCEPT !.weekdays = {c.weekday}, !.monthlyMode = "day", !.monthDay = c.date,
     !.nth = NthWeekdayOfMonth(c), !.nthWeekday = c.weekday, !.yearMonth = c.month, !.yearDay = c.date]

(* rrule.js: the days a pattern falls on, seen from the first one *)
NthOf(c, n) == IF n = -1 THEN c.last - c.date < 7 ELSE (c.date + 6) \div 7 = n
InMonthdays(c, monthdays) == c.date \in monthdays \/ (-1 \in monthdays /\ c.date = c.last)

FallsOn(o, first, d) ==
  LET c == Calendar[d]
      s == Calendar[first]
      onWeekday == \E w \in o.byweekday : w.day = c.weekday /\ (w.n = 0 \/ NthOf(c, w.n))
      unrestricted == o.byweekday = {} /\ o.bymonthday = {}
      weekOf(x) == (x - ((Calendar[x].weekday + 6) % 7)) \div 7
  IN /\ o.byweekday # {} => onWeekday
     /\ o.bymonthday # {} => InMonthdays(c, o.bymonthday)
     /\ o.bymonth # {} => c.month \in o.bymonth
     /\ CASE o.freq = "daily" -> TRUE
          [] o.freq = "weekly" -> /\ unrestricted => c.weekday = s.weekday
                                  /\ (weekOf(d) - weekOf(first)) % o.interval = 0
          [] o.freq = "monthly" -> unrestricted => c.date = s.date
          [] o.freq = "yearly" -> /\ unrestricted => c.date = s.date
                                  /\ unrestricted /\ o.bymonth = {} => c.month = s.month

(* all(): from dtstart on, until the end or for so many times *)
Recurrences(o, dtstart, until, count) ==
  LET first == DayOf(dtstart)
      days == {d \in first..LastDay : FallsOn(o, first, d)}
      counted == {d \in days : count = 0 \/ Cardinality({e \in days : e <= d}) <= count}
      starts == {d * DayLength + TimeOf(dtstart) : d \in counted}
  IN {w \in starts : until = None \/ w <= until}

-----------------------------------------------------------------------------
(* readPattern: the form's fields for a rule's options, as they would be in *)
(* config, or None for what the form can't express                          *)
ReadWeekly(o, config, s) ==
  LET fallback == IF o.freq = "daily" THEN AllDays ELSE {s.weekday} IN
  IF o.bymonthday # {} \/ o.bymonth # {} \/ (\E w \in o.byweekday : w.n # 0) THEN None
  ELSE [config EXCEPT !.freq = "weekly",
          !.weekdays = IF o.byweekday # {} THEN {w.day : w \in o.byweekday} ELSE fallback]

ReadMonthly(o, config, s) ==
  CASE o.bymonth # {} -> None
    [] o.bymonth = {} /\ o.byweekday = {} /\ o.bymonthday = {} ->
         [config EXCEPT !.freq = "monthly", !.monthlyMode = "day", !.monthDay = s.date]
    [] o.bymonth = {} /\ o.byweekday = {} /\ (\E n \in o.bymonthday : o.bymonthday = {n}) ->
         [config EXCEPT !.freq = "monthly", !.monthlyMode = "day",
                        !.monthDay = CHOOSE n \in o.bymonthday : TRUE]
    [] o.bymonth = {} /\ o.bymonthday = {}
         /\ (\E w \in o.byweekday : o.byweekday = {w} /\ w.n \in {-1} \cup 1..4) ->
         LET w == CHOOSE w \in o.byweekday : TRUE IN
         [config EXCEPT !.freq = "monthly", !.monthlyMode = "nthWeekday",
                        !.nth = w.n, !.nthWeekday = w.day]
    [] OTHER -> None

ReadYearly(o, config, s) ==
  LET one(S, default) == IF S = {} THEN default ELSE CHOOSE n \in S : TRUE
      yearDay == one(o.bymonthday, s.date)
  IN IF o.byweekday # {} \/ Cardinality(o.bymonth) > 1 \/ Cardinality(o.bymonthday) > 1
        \/ yearDay \notin 1..31 THEN None
     ELSE [config EXCEPT !.freq = "yearly", !.yearMonth = one(o.bymonth, s.month), !.yearDay = yearDay]

ReadPattern(o, config, s) ==
  CASE o.interval # 1 -> None
    [] o.interval = 1 /\ o.freq \in {"daily", "weekly"} -> ReadWeekly(o, config, s)
    [] o.interval = 1 /\ o.freq = "monthly" -> ReadMonthly(o, config, s)
    [] o.interval = 1 /\ o.freq = "yearly" -> ReadYearly(o, config, s)

(* patternOptions: the options of a form's pattern, None without recurrence *)
PatternOptions(config, s) ==
  LET days == IF config.weekdays = {} THEN {s.weekday} ELSE config.weekdays IN
  CASE config.freq = "none" -> None
    [] config.freq = "custom" -> config.custom
    [] config.freq = "weekly" /\ days = AllDays -> [NoOptions EXCEPT !.freq = "daily"]
    [] config.freq = "weekly" /\ days # AllDays ->
         [NoOptions EXCEPT !.byweekday = {Every(d) : d \in days}]
    [] config.freq = "monthly" /\ config.monthlyMode = "day" ->
         [NoOptions EXCEPT !.freq = "monthly", !.bymonthday = {config.monthDay}]
    [] config.freq = "monthly" /\ config.monthlyMode = "nthWeekday" ->
         [NoOptions EXCEPT !.freq = "monthly",
                           !.byweekday = {[day |-> config.nthWeekday, n |-> config.nth]}]
    [] config.freq = "yearly" ->
         [NoOptions EXCEPT !.freq = "yearly", !.bymonth = {config.yearMonth},
                           !.bymonthday = {config.yearDay}]

(* endOptions: a count, or the end of the last day, which is the first if none is set *)
UntilOf(config, start) ==
  CASE config.count # 0 -> None
    [] config.count = 0 /\ config.until # None -> EndOfDay(config.until)
    [] OTHER -> EndOfDay(start)

-----------------------------------------------------------------------------
Rule_ExdatesAsInstants(options, config, start) ==
  [options |-> options, until |-> UntilOf(config, start), count |-> config.count, zoned |-> TRUE,
   dtstart |-> ToFloating(start), exdates |-> config.exdates]
Rule(options, config, start) ==
  [options |-> options, until |-> UntilOf(config, start), count |-> config.count, zoned |-> TRUE,
   dtstart |-> ToFloating(start), exdates |-> {ToFloating(x) : x \in config.exdates}]

(* parseRRule *)
ToLocal(rule, d) == IF rule.zoned THEN FromFloating(d) ELSE d

ParseRRule(rule) ==
  IF rule = None THEN NoRecurrence
  ELSE LET dtstart == ToLocal(rule, rule.dtstart)
           pattern == ReadPattern(rule.options, WithDefaults(NoRecurrence, dtstart), On(dtstart))
           config == IF pattern # None THEN pattern
                     ELSE [WithDefaults(NoRecurrence, dtstart) EXCEPT !.freq = "custom",
                                                                      !.custom = rule.options]
       IN [config EXCEPT !.until = IF rule.until = None THEN None ELSE FromFloating(rule.until),
                         !.count = rule.count,
                         !.exdates = {ToLocal(rule, x) : x \in rule.exdates}]

(* listSeriesStarts: every start of the pattern, also the excluded ones *)
ListSeriesStarts(start, config) ==
  LET o == PatternOptions(config, On(start)) IN
  IF o = None THEN {start}
  ELSE {FromFloating(w) : w \in Recurrences(o, ToFloating(start), UntilOf(config, start), config.count)}

(* generateOccurrences: the rows and the rule *)
Row(start, end) == [start |-> start, end |-> end]

GenerateOccurrences(start, end, config) ==
  LET o == PatternOptions(config, On(start))
      rule == Rule(o, config, start)
      duration == ToFloating(end) - ToFloating(start)
      floating == Recurrences(o, rule.dtstart, rule.until, rule.count) \ rule.exdates
  IN CASE end <= start -> [rows |-> {}, rule |-> None]
       [] end > start /\ o = None -> [rows |-> {Row(start, end)}, rule |-> None]
       [] end > start /\ o # None ->
            [rows |-> {Row(FromFloating(w), FromFloating(w + duration)) : w \in floating}, rule |-> rule]

(* addExdate *)
AddExdate_AsInstant(rule, i) == [rule EXCEPT !.exdates = @ \cup {i}]
AddExdate(rule, i) ==
  [rule EXCEPT !.exdates = @ \cup {IF rule.zoned THEN ToFloating(i) ELSE i}]

(* seriesFirstTimes: the times an edit form starts from; it needs a row *)
FirstRow(rows) == CHOOSE r \in rows : \A x \in rows : r.start <= x.start

SeriesFirstTimes_FromRows(rule, rows) == FirstRow(rows)
SeriesFirstTimes(rule, rows) ==
  LET first == FirstRow(rows) IN
  IF rule = None THEN first
  ELSE LET dtstart == ToLocal(rule, rule.dtstart)
       IN Row(dtstart, dtstart + (first.end - first.start))

-----------------------------------------------------------------------------
VARIABLES
  stored,     \* the series on the server: its rule and its rows
  form,       \* the open form
  touched,    \* history: which of the form's fields were changed
  detached,   \* history: the days whose occurrence was detached, by a rule with a time zone
  edits, saves

vars == <<stored, form, touched, detached, edits, saves>>

Closed == [open |-> FALSE, start |-> 0, end |-> 0, config |-> NoRecurrence]

TypeOK ==
  /\ stored \in [rule : Rules \cup {None}, rows : SUBSET [start : Nat, end : Nat]]
  /\ form \in [open : BOOLEAN, start : Nat, end : Nat, config : ConfigType]
  /\ touched \subseteq {"times", "pattern", "end", "exceptions"}
  /\ detached \subseteq 0..LastDay /\ edits \in 0..MaxEdits /\ saves \in 0..MaxSaves

(* A series as an earlier version stored it: it kept the time of UTC. *)
Legacy(start, end, config) ==
  LET new == GenerateOccurrences(start, end, config)
      utc(w) == w - OffsetAt(start)
  IN [rule |-> [new.rule EXCEPT !.zoned = FALSE, !.dtstart = start,
                                !.until = IF @ = None THEN None ELSE utc(@)],
      rows |-> {Row(utc(ToFloating(r.start)), utc(ToFloating(r.start)) + (end - start)) : r \in new.rows}]

(* A series that was stored by way of the API, with a rule of its own *)
FromApi(start, end, options) ==
  GenerateOccurrences(start, end, [NoRecurrence EXCEPT !.freq = "custom", !.custom = options, !.count = 3])

Init ==
  /\ \E w \in Starts, d \in Durations :
       LET start == FromFloating(w)
           end == FromFloating(w + d)
       IN /\ start < end
          /\ \/ \E c \in Configs : stored \in {GenerateOccurrences(start, end, c), Legacy(start, end, c)}
             \/ \E o \in ApiRules : stored = FromApi(start, end, o)
          /\ stored.rows # {} /\ \A r \in stored.rows : r.start < r.end
  /\ form = Closed /\ touched = {} /\ detached = {} /\ edits = 0 /\ saves = 0

-----------------------------------------------------------------------------
(* An input of type datetime-local holds the reading of the wall clock. *)
Local(i) == FromFloating(ToFloating(i))

FormOf(s) ==
  LET first == SeriesFirstTimes(s.rule, s.rows) IN
  [open |-> TRUE, start |-> Local(first.start), end |-> Local(first.end), config |-> ParseRRule(s.rule)]

OpenEdit ==
  /\ ~form.open /\ saves < MaxSaves
  /\ stored.rows # {}
  /\ form' = FormOf(stored) /\ touched' = {}
  /\ UNCHANGED <<stored, detached, edits, saves>>

(* onChange of RecurrenceFields *)
Change(config, field) ==
  /\ form.open /\ edits < MaxEdits
  /\ edits' = edits + 1
  /\ form' = [form EXCEPT !.config = config] /\ touched' = touched \cup {field}
  /\ UNCHANGED <<stored, detached, saves>>

SetFreq(freq) ==
  LET config == IF form.config.freq = "none" THEN WithDefaults(form.config, form.start)
                ELSE form.config
  IN /\ freq # form.config.freq
     /\ Change(IF freq = "none" THEN NoRecurrence
               ELSE [config EXCEPT !.freq = freq, !.exdates = {}], "pattern")

(* The exceptions belong to the dates of one pattern. *)
SetPattern(config) == Change([config EXCEPT !.exdates = {}], "pattern")

ToggleWeekday(day) ==
  LET days == IF day \in form.config.weekdays THEN form.config.weekdays \ {day}
              ELSE form.config.weekdays \cup {day}
  IN /\ form.config.freq = "weekly"
     /\ days # {}
     /\ SetPattern([form.config EXCEPT !.weekdays = days])

SetWeekdays(days) ==
  /\ form.config.freq = "weekly"
  /\ SetPattern([form.config EXCEPT !.weekdays = days])

SetMonthly ==
  /\ form.config.freq = "monthly"
  /\ \/ \E mode \in {"day", "nthWeekday"} : SetPattern([form.config EXCEPT !.monthlyMode = mode])
     \/ /\ form.config.monthlyMode = "day"
        /\ \E n \in {-1} \cup 28..31 : SetPattern([form.config EXCEPT !.monthDay = n])
     \/ /\ form.config.monthlyMode = "nthWeekday"
        /\ \/ \E n \in {-1, 1} : SetPattern([form.config EXCEPT !.nth = n])
           \/ \E d \in {0, 1} : SetPattern([form.config EXCEPT !.nthWeekday = d])

SetYearly ==
  /\ form.config.freq = "yearly"
  /\ \/ \E n \in {1, 2} : SetPattern([form.config EXCEPT !.yearMonth = n])
     \/ \E n \in {1, 29, 31} : SetPattern([form.config EXCEPT !.yearDay = n])

SetEnd ==
  /\ form.config.freq # "none"
  /\ \/ /\ form.config.count = 0
        /\ \/ Change([form.config EXCEPT !.count = 10], "end")
           \/ \E w \in Starts : Change([form.config EXCEPT !.until = FromFloating(DayOf(w) * DayLength)], "end")
           \/ Change([form.config EXCEPT !.until = None], "end")
     \/ /\ form.config.count # 0
        /\ \/ Change([form.config EXCEPT !.count = 0], "end")
           \/ \E n \in Counts : Change([form.config EXCEPT !.count = Max({2, Min({500, n})})], "end")

(* toggleExdate, for the dates that are listed if there are several *)
Candidates == ListSeriesStarts(form.start, form.config)

ToggleExdate(date) ==
  /\ form.config.freq # "none" /\ Cardinality(Candidates) > 1
  /\ Change([form.config EXCEPT !.exdates = IF date \in @ THEN @ \ {date} ELSE @ \cup {date}], "exceptions")

-----------------------------------------------------------------------------
(* The forms' start and end: a start that passes the end takes it along. *)
Retimed(start, end) ==
  /\ form.open /\ edits < MaxEdits
  /\ edits' = edits + 1
  /\ form' = [form EXCEPT !.start = start, !.end = end] /\ touched' = touched \cup {"times"}
  /\ UNCHANGED <<stored, detached, saves>>

ChangeStart(start) ==
  LET duration == form.end - form.start
      passes == duration > 0 /\ start >= form.end
  IN Retimed(start, IF passes THEN Local(start + duration) ELSE form.end)

ChangeEnd(end) == Retimed(form.start, end)

(* Saving sends the rows and the rule, which replace those of the series.  The *)
(* form wants a start before the end, the server the same of every row.        *)
Generated == GenerateOccurrences(form.start, form.end, form.config)

Save ==
  /\ form.open /\ saves < MaxSaves
  /\ form.start < form.end
  /\ \A r \in Generated.rows : r.start < r.end
  /\ stored' = Generated
  /\ form' = Closed
  /\ saves' = saves + 1
  /\ detached' = IF touched \subseteq {"end"} THEN detached ELSE {}
  /\ UNCHANGED <<touched, edits>>

(* canSplitOccurrence, planSplit and the split of the server *)
Detach(r) ==
  /\ ~form.open /\ saves < MaxSaves
  /\ stored.rule # None
  /\ stored.rows # {r}
  /\ stored' = [rows |-> stored.rows \ {r}, rule |-> AddExdate(stored.rule, r.start)]
  /\ detached' = IF stored.rule.zoned THEN detached \cup {DayOf(ToFloating(r.start))} ELSE detached
  /\ saves' = saves + 1
  /\ UNCHANGED <<form, touched, edits>>

Edit ==
  \/ \E freq \in {"none", "weekly", "monthly", "yearly"} : SetFreq(freq)
  \/ \E day \in AllDays : ToggleWeekday(day)
  \/ \E days \in {AllDays, 1..5} : SetWeekdays(days)
  \/ SetMonthly \/ SetYearly \/ SetEnd
  \/ \E date \in Candidates : ToggleExdate(date)
  \/ \E w \in Starts : ChangeStart(FromFloating(w)) \/ ChangeEnd(FromFloating(w))

Next == OpenEdit \/ (form.open /\ Edit) \/ Save \/ \E r \in stored.rows : Detach(r)

Spec == Init /\ [][Next]_vars

-----------------------------------------------------------------------------
(* The occurrences during which the clock changes have a length of their own. *)
ClockChanges(r) == OffsetAt(r.start) # OffsetAt(r.end)
Undisturbed(rows) == \A r \in rows : ~ClockChanges(r)

(* A yearly rule on a day of every month: the form has a month for it. *)
ReadAsAnother(o) ==
  o.interval = 1 /\ o.freq = "yearly" /\ o.byweekday = {} /\ o.bymonth = {} /\ o.bymonthday # {}

(* A rule whose days and clock the form follows: the API or an earlier version *)
(* may have stored others.                                                     *)
Followed(rule) ==
  /\ rule.zoned /\ ~ReadAsAnother(rule.options)
  /\ \A w \in Recurrences(rule.options, rule.dtstart, rule.until, rule.count) : ~Skipped(w)

(* The form that opens on a series would save it as it is: rule, exceptions, *)
(* an excluded first occurrence and a count come back as they were written,  *)
(* across the clock changes, whether the form, the API or a detachment wrote *)
(* the rule.                                                                 *)
OpenedAsSaved ==
  LET f == FormOf(stored)
      first == SeriesFirstTimes(stored.rule, stored.rows)
  IN /\ stored.rows # {} /\ Undisturbed(stored.rows \cup {first})
     /\ stored.rule # None => Followed(stored.rule)
     => GenerateOccurrences(f.start, f.end, f.config).rows = stored.rows

(* A detached occurrence does not come back when the series is edited later, *)
(* as long as neither its times nor its pattern or exceptions are changed,   *)
(* unless the clock skips its hour, so that it took place at another one.    *)
DetachedStaysAway ==
  [][Save /\ touched \subseteq {"end"}
       => \A r \in stored'.rows :
            DayOf(ToFloating(r.start)) \in detached
              => TimeOf(ToFloating(r.start)) # TimeOf(ToFloating(form.start))]_vars

(* What is ticked in the list of dates is what will be saved, but for an hour *)
(* that the clock skips, or has twice.                                        *)
TickedIsSaved ==
  LET skipped == \E x \in Candidates : TimeOf(ToFloating(x)) # TimeOf(ToFloating(form.start))
      twice == \E x \in form.config.exdates : Local(x) # x
  IN form.open /\ form.start < form.end /\ form.config.freq # "none" /\ ~skipped /\ ~twice
       => {r.start : r \in Generated.rows} = Candidates \ form.config.exdates

(* Every occurrence starts and ends at the wall-clock times of the form, but *)
(* for a time that the clock skips that day.                                 *)
SameWallClock ==
  LET times(start, end) == <<TimeOf(ToFloating(start)), ToFloating(end) - ToFloating(start)>>
      day(r) == DayOf(ToFloating(r.start)) * DayLength
      skips(r) == LET w == day(r) + TimeOf(ToFloating(form.start)) IN
                  Skipped(w) \/ Skipped(w + ToFloating(form.end) - ToFloating(form.start))
  IN form.open => \A r \in Generated.rows :
                    skips(r) \/ times(r.start, r.end) = times(form.start, form.end)
=============================================================================

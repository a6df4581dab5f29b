---------------------------- MODULE Series_proofs ----------------------------
(***************************************************************************)
(* Theorems about Series, for any calendar, length of the day and clock    *)
(* changes, and whatever patterns are stored: a series opens as it was     *)
(* saved, a detached occurrence stays away, what is ticked is what is      *)
(* saved, and every occurrence is at the wall-clock times of the form.     *)
(***************************************************************************)
EXTENDS Series, FiniteSetTheorems, WellFoundedInduction, TLAPS

LEMMA Sizes ==
  /\ DayLength \in Nat /\ DayLength > 0 /\ Shift \in Nat /\ Shift > 0
  /\ SpringAt \in Nat /\ AutumnAt \in Nat /\ SpringAt + 2 * Shift <= AutumnAt
  /\ LastDay \in Nat
  BY SeriesAssumption

-----------------------------------------------------------------------------
(* Instants and readings of the wall clock *)

(* A reading that the clock does not skip is that of the instant it stands for; *)
(* one that it skips is read later, by as much as the clock is put forward.     *)
LEMMA ReadingOf ==
  ASSUME NEW w \in Int
  PROVE  /\ FromFloating(w) \in Int
         /\ ~Skipped(w) => ToFloating(FromFloating(w)) = w
         /\ Skipped(w) => FromFloating(w) = w /\ ToFloating(w) = w + Shift
         /\ w \in Nat => FromFloating(w) \in Nat
         /\ FromFloating(w) <= w /\ w <= ToFloating(FromFloating(w))
  BY Sizes DEF FromFloating, ToFloating, OffsetAt, Skipped

(* No instant reads as a skipped time. *)
LEMMA InstantOf ==
  ASSUME NEW i \in Int
  PROVE  /\ ToFloating(i) \in Int /\ ~Skipped(ToFloating(i)) /\ i <= ToFloating(i)
         /\ i \in Nat => ToFloating(i) \in Nat /\ Local(i) \in Nat
         /\ Local(i) \in Int /\ ToFloating(Local(i)) = ToFloating(i) /\ Local(Local(i)) = Local(i)
  BY Sizes DEF FromFloating, ToFloating, OffsetAt, Skipped, Local

LEMMA FirstOfTwo ==
  ASSUME NEW w \in Int
  PROVE  Local(FromFloating(w)) = FromFloating(w)
  BY Sizes DEF FromFloating, ToFloating, OffsetAt, Skipped, Local

LEMMA LaterReadings ==
  ASSUME NEW w \in Int, NEW x \in Int, ~Skipped(w), ~Skipped(x), w < x
  PROVE  FromFloating(w) < FromFloating(x)
  BY Sizes DEF FromFloating, Skipped

LEMMA LaterInstants ==
  ASSUME NEW i \in Int, NEW j \in Int, Local(i) = i, Local(j) = j, i < j
  PROVE  ToFloating(i) < ToFloating(j)
  BY Sizes DEF FromFloating, ToFloating, OffsetAt, Local

-----------------------------------------------------------------------------
(* Days and times of day *)

LEMMA DayAndTime ==
  ASSUME NEW w \in Nat
  PROVE  /\ DayOf(w) \in Nat /\ TimeOf(w) \in 0..(DayLength - 1)
         /\ w = DayLength * DayOf(w) + TimeOf(w)
  BY Sizes DEF DayOf, TimeOf

LEMMA OfDayAndTime ==
  ASSUME NEW d \in Nat, NEW t \in 0..(DayLength - 1)
  PROVE  /\ d * DayLength \in Nat /\ d * DayLength + t \in Nat
         /\ DayOf(d * DayLength + t) = d /\ TimeOf(d * DayLength + t) = t
<1> DEFINE w == d * DayLength + t
           p == DayOf(w)
           u == TimeOf(w)
<1>1. DayLength \in Nat /\ DayLength > 0
  BY Sizes
<1>2. d * DayLength \in Nat /\ w \in Nat
  BY <1>1
<1>3. p \in Nat /\ u \in 0..(DayLength - 1) /\ w = DayLength * p + u
  BY <1>2, DayAndTime
<1>4. w = DayLength * d + t
  BY <1>1
<1> HIDE DEF w, p, u
<1>5. ~ p < d
  <2> SUFFICES ASSUME p + 1 <= d PROVE FALSE
    BY <1>3
  <2>1. DayLength * (p + 1) <= DayLength * d
    BY <1>1, <1>3
  <2> QED
    BY <1>1, <1>3, <1>4, <2>1
<1>6. ~ d < p
  <2> SUFFICES ASSUME d + 1 <= p PROVE FALSE
    BY <1>3
  <2>1. DayLength * (d + 1) <= DayLength * p
    BY <1>1, <1>3
  <2> QED
    BY <1>1, <1>3, <1>4, <2>1
<1>7. p = d /\ u = t
  BY <1>1, <1>3, <1>4, <1>5, <1>6
<1> QED
  BY <1>2, <1>7 DEF w, p, u

(* The hour that is skipped does not reach midnight. *)
LEMMA SkippedAtNight ==
  ASSUME NEW w \in Nat, Skipped(w)
  PROVE  DayOf(w + Shift) = DayOf(w) /\ TimeOf(w + Shift) = TimeOf(w) + Shift
<1> DEFINE p == DayOf(SpringAt)
           t == TimeOf(SpringAt)
           k == w - SpringAt
<1>1. p \in Nat /\ t \in 0..(DayLength - 1) /\ SpringAt = DayLength * p + t /\ t + 2 * Shift <= DayLength
  BY Sizes, DayAndTime, SeriesAssumption DEF TimeOf
<1>2. k \in Nat /\ k < Shift /\ w = SpringAt + k
  BY Sizes DEF Skipped
<1> HIDE DEF p, t, k
<1>3. t + k \in 0..(DayLength - 1) /\ t + k + Shift \in 0..(DayLength - 1)
  BY <1>1, <1>2, Sizes
<1>4. w = p * DayLength + (t + k) /\ w + Shift = p * DayLength + (t + k + Shift)
  BY <1>1, <1>2, Sizes
<1>5. DayOf(w) = p /\ TimeOf(w) = t + k
  BY <1>1, <1>3, <1>4, OfDayAndTime
<1>6. DayOf(w + Shift) = p /\ TimeOf(w + Shift) = t + k + Shift
  BY <1>1, <1>3, <1>4, OfDayAndTime
<1> QED
  BY <1>5, <1>6

(* A reading that comes back from its instant is of the same day, and of the same *)
(* time unless it was skipped.                                                    *)
LEMMA ReadAgain ==
  ASSUME NEW w \in Nat
  PROVE  /\ DayOf(ToFloating(FromFloating(w))) = DayOf(w)
         /\ TimeOf(ToFloating(FromFloating(w))) = TimeOf(w) <=> ~Skipped(w)
<1>1. CASE ~Skipped(w)
  BY <1>1, ReadingOf
<1>2. CASE Skipped(w)
  <2>1. ToFloating(FromFloating(w)) = w + Shift
    BY <1>2, ReadingOf
  <2>2. DayOf(w + Shift) = DayOf(w) /\ TimeOf(w + Shift) = TimeOf(w) + Shift
    BY <1>2, SkippedAtNight
  <2>3. TimeOf(w) \in Nat
    BY DayAndTime
  <2> QED
    BY <1>2, <2>1, <2>2, <2>3, Sizes
<1> QED
  BY <1>1, <1>2

(* The end of a day is read as the end of that day. *)
LEMMA EndOfDayIs ==
  ASSUME NEW i \in Nat
  PROVE  /\ EndOfDay(i) \in Nat /\ Shift <= EndOfDay(i) /\ ToFloating(i) <= EndOfDay(i)
         /\ EndOfDay(FromFloating(EndOfDay(i))) = EndOfDay(i)
<1> DEFINE d == DayOf(ToFloating(i))
           e == d * DayLength + (DayLength - 1)
<1>1. ToFloating(i) \in Nat
  BY InstantOf
<1>2. d \in Nat /\ TimeOf(ToFloating(i)) \in 0..(DayLength - 1)
      /\ ToFloating(i) = DayLength * d + TimeOf(ToFloating(i))
  BY <1>1, DayAndTime
<1> HIDE DEF d
<1>3. EndOfDay(i) = e
  BY <1>2, Sizes DEF EndOfDay, d
<1>4. d * DayLength \in Nat /\ e \in Nat /\ DayOf(e) = d /\ TimeOf(e) = DayLength - 1
  <2> DEFINE last == DayLength - 1
  <2>1. last \in 0..(DayLength - 1)
    BY Sizes
  <2> HIDE DEF last
  <2>2. d * DayLength \in Nat /\ d * DayLength + last \in Nat
        /\ DayOf(d * DayLength + last) = d /\ TimeOf(d * DayLength + last) = last
    BY <1>2, <2>1, OfDayAndTime
  <2> QED
    BY <2>2 DEF last
<1>5. ToFloating(i) <= e
  BY <1>2, <1>4, Sizes
<1> HIDE DEF e
<1>6. Shift <= e
  <2>1. DayLength - 1 <= e
    BY <1>2, <1>4, Sizes DEF e
  <2>2. 2 * Shift <= DayLength
    <3>1. SpringAt % DayLength \in Nat
      BY Sizes, DayAndTime DEF TimeOf
    <3> QED
      BY <3>1, Sizes, SeriesAssumption
  <2> QED
    BY <1>4, <2>1, <2>2, Sizes
<1>7. ~Skipped(e)
  <2> SUFFICES ASSUME Skipped(e) PROVE FALSE
    OBVIOUS
  <2>1. TimeOf(e + Shift) = TimeOf(e) + Shift
    BY <1>4, SkippedAtNight
  <2>2. e + Shift \in Nat
    BY <1>4, Sizes
  <2>3. TimeOf(e + Shift) \in 0..(DayLength - 1)
    BY <2>2, DayAndTime
  <2> QED
    BY <1>4, <2>1, <2>3, Sizes
<1>8. ToFloating(FromFloating(e)) = e
  BY <1>4, <1>7, ReadingOf
<1>9. EndOfDay(FromFloating(e)) = e
  BY <1>2, <1>4, <1>8, Sizes DEF EndOfDay, e
<1> QED
  BY <1>3, <1>4, <1>5, <1>6, <1>9

(* Every recurrence is on a day of the calendar and at the time of the first one. *)
LEMMA RecurrencesAre ==
  ASSUME NEW o, NEW dtstart \in Nat, NEW until, NEW count,
         NEW w \in Recurrences(o, dtstart, until, count)
  PROVE  /\ w \in Nat /\ dtstart <= w
         /\ DayOf(w) \in 0..LastDay /\ TimeOf(w) = TimeOf(dtstart)
         /\ w = DayOf(w) * DayLength + TimeOf(dtstart)
<1> DEFINE first == DayOf(dtstart)
           t == TimeOf(dtstart)
<1>1. first \in Nat /\ t \in 0..(DayLength - 1) /\ dtstart = DayLength * first + t
  BY DayAndTime
<1>2. PICK d \in first..LastDay : w = d * DayLength + t
  BY DEF Recurrences
<1> HIDE DEF first, t
<1>3. d \in Nat /\ first <= d
  BY <1>1, <1>2, Sizes
<1>4. w \in Nat /\ DayOf(w) = d /\ TimeOf(w) = t
  BY <1>1, <1>2, <1>3, OfDayAndTime
<1>5. dtstart <= w
  <2>1. DayLength * first <= DayLength * d
    BY <1>1, <1>3, Sizes
  <2> QED
    BY <1>1, <1>2, <1>3, <2>1, Sizes
<1> QED
  BY <1>2, <1>3, <1>4, <1>5, Sizes DEF t

-----------------------------------------------------------------------------
(* The form reads a rule's pattern and writes one that falls on the same days *)

LEMMA NoneIsApart ==
  /\ None \notin Nat /\ None \notin RuleOptions /\ None \notin ConfigType /\ None \notin Rules
  BY SeriesAssumption

LEMMA CalendarIs == \A d \in 0..LastDay : Calendar[d] \in CalendarDays
  BY SeriesAssumption

(* FallsOn for a rule that the form can express, by the day and the first day *)
OnListedDays(o, c) ==
  /\ o.byweekday # {} =>
       \E w \in o.byweekday : w.day = c.weekday /\ (w.n = 0 \/ NthOf(c, w.n))
  /\ o.bymonthday # {} => InMonthdays(c, o.bymonthday)
  /\ o.bymonth # {} => c.month \in o.bymonth
Bare(o) == o.byweekday = {} /\ o.bymonthday = {}
LikeTheFirst(o, s, c) ==
  /\ o.freq = "weekly" /\ Bare(o) => c.weekday = s.weekday
  /\ o.freq \in {"monthly", "yearly"} /\ Bare(o) => c.date = s.date
  /\ o.freq = "yearly" /\ Bare(o) /\ o.bymonth = {} => c.month = s.month

LEMMA FallsOnIs ==
  ASSUME NEW o \in RuleOptions, o.interval = 1, NEW first \in 0..LastDay, NEW d \in 0..LastDay
  PROVE  FallsOn(o, first, d) <=> /\ OnListedDays(o, Calendar[d])
                                  /\ LikeTheFirst(o, Calendar[first], Calendar[d])
<1> DEFINE weekOf(x) == (x - ((Calendar[x].weekday + 6) % 7)) \div 7
           gap == weekOf(d) - weekOf(first)
<1>1. Calendar[d].weekday \in Nat /\ Calendar[first].weekday \in Nat
  BY CalendarIs DEF CalendarDays
<1>2. weekOf(d) \in Int /\ weekOf(first) \in Int
  <2>1. ASSUME NEW x \in Int, NEW y \in Nat PROVE (x - ((y + 6) % 7)) \div 7 \in Int
    OBVIOUS
  <2>2. d \in Int /\ first \in Int
    BY Sizes
  <2> QED
    BY <1>1, <2>1, <2>2
<1> HIDE DEF weekOf
<1>3. gap % 1 = 0
  <2> HIDE DEF gap
  <2>1. gap \in Int
    BY <1>2 DEF gap
  <2> QED
    BY <2>1
<1>4. FallsOn(o, first, d) <=>
        /\ OnListedDays(o, Calendar[d])
        /\ CASE o.freq = "daily" -> TRUE
             [] o.freq = "weekly" -> (Bare(o) => Calendar[d].weekday = Calendar[first].weekday)
                                       /\ gap % o.interval = 0
             [] o.freq = "monthly" -> (Bare(o) => Calendar[d].date = Calendar[first].date)
             [] o.freq = "yearly" -> /\ Bare(o) => Calendar[d].date = Calendar[first].date
                                     /\ Bare(o) /\ o.bymonth = {} =>
                                          Calendar[d].month = Calendar[first].month
  BY DEF FallsOn, OnListedDays, Bare, weekOf
<1>5. o.freq \in {"daily", "weekly", "monthly", "yearly"}
  BY DEF RuleOptions
<1> HIDE DEF gap
<1> QED
  BY <1>3, <1>4, <1>5 DEF LikeTheFirst

(* What the form writes, spelled out *)
Written(freq, weekdays, monthdays, months) ==
  [freq |-> freq, interval |-> 1, byweekday |-> weekdays, bymonthday |-> monthdays, bymonth |-> months]

LEMMA WrittenIs ==
  ASSUME NEW freq \in {"daily", "weekly", "monthly", "yearly"},
         NEW weekdays \in SUBSET [day : AllDays, n : Int],
         NEW monthdays \in SUBSET ({-1} \cup 1..31), NEW months \in SUBSET (1..12)
  PROVE  Written(freq, weekdays, monthdays, months) \in RuleOptions
  BY DEF Written, RuleOptions

WeekdaysOf(config, s) == IF config.weekdays = {} THEN {s.weekday} ELSE config.weekdays

LEMMA PatternOptionsAre ==
  ASSUME NEW config, NEW s
  PROVE  /\ config.freq = "none" => PatternOptions(config, s) = None
         /\ config.freq = "custom" => PatternOptions(config, s) = config.custom
         /\ config.freq = "weekly" /\ WeekdaysOf(config, s) = AllDays =>
              PatternOptions(config, s) = Written("daily", {}, {}, {})
         /\ config.freq = "weekly" /\ WeekdaysOf(config, s) # AllDays =>
              PatternOptions(config, s)
                = Written("weekly", {Every(d) : d \in WeekdaysOf(config, s)}, {}, {})
         /\ config.freq = "monthly" /\ config.monthlyMode = "day" =>
              PatternOptions(config, s) = Written("monthly", {}, {config.monthDay}, {})
         /\ config.freq = "monthly" /\ config.monthlyMode = "nthWeekday" =>
              PatternOptions(config, s)
                = Written("monthly", {[day |-> config.nthWeekday, n |-> config.nth]}, {}, {})
         /\ config.freq = "yearly" =>
              PatternOptions(config, s) = Written("yearly", {}, {config.yearDay}, {config.yearMonth})
<1> DEFINE days == WeekdaysOf(config, s)
<1>1. ASSUME config.freq = "none" PROVE PatternOptions(config, s) = None
  BY <1>1 DEF PatternOptions
<1>2. ASSUME config.freq = "custom" PROVE PatternOptions(config, s) = config.custom
  BY <1>2 DEF PatternOptions
<1>3. ASSUME config.freq = "weekly", days = AllDays
      PROVE  PatternOptions(config, s) = Written("daily", {}, {}, {})
  <2>1. PatternOptions(config, s) = [NoOptions EXCEPT !.freq = "daily"]
    BY <1>3 DEF PatternOptions, WeekdaysOf
  <2> QED
    BY <2>1 DEF NoOptions, Written
<1>4. ASSUME config.freq = "weekly", days # AllDays
      PROVE  PatternOptions(config, s) = Written("weekly", {Every(d) : d \in days}, {}, {})
  <2>1. PatternOptions(config, s) = [NoOptions EXCEPT !.byweekday = {Every(d) : d \in days}]
    BY <1>4 DEF PatternOptions, WeekdaysOf
  <2> QED
    BY <2>1 DEF NoOptions, Written
<1>5. ASSUME config.freq = "monthly", config.monthlyMode = "day"
      PROVE  PatternOptions(config, s) = Written("monthly", {}, {config.monthDay}, {})
  <2>1. PatternOptions(config, s)
          = [NoOptions EXCEPT !.freq = "monthly", !.bymonthday = {config.monthDay}]
    BY <1>5 DEF PatternOptions
  <2> QED
    BY <2>1 DEF NoOptions, Written
<1>6. ASSUME config.freq = "monthly", config.monthlyMode = "nthWeekday"
      PROVE  PatternOptions(config, s)
               = Written("monthly", {[day |-> config.nthWeekday, n |-> config.nth]}, {}, {})
  <2>1. PatternOptions(config, s)
          = [NoOptions EXCEPT !.freq = "monthly",
                              !.byweekday = {[day |-> config.nthWeekday, n |-> config.nth]}]
    BY <1>6 DEF PatternOptions
  <2> QED
    BY <2>1 DEF NoOptions, Written
<1>7. ASSUME config.freq = "yearly"
      PROVE  PatternOptions(config, s) = Written("yearly", {}, {config.yearDay}, {config.yearMonth})
  <2>1. PatternOptions(config, s)
          = [NoOptions EXCEPT !.freq = "yearly", !.bymonth = {config.yearMonth},
                              !.bymonthday = {config.yearDay}]
    BY <1>7 DEF PatternOptions
  <2> QED
    BY <2>1 DEF NoOptions, Written
<1> QED
  BY <1>1, <1>2, <1>3, <1>4, <1>5, <1>6, <1>7

(* A pattern of the form is a rule's. *)
LEMMA PatternIsARule ==
  ASSUME NEW config \in ConfigType, NEW s \in CalendarDays, config.freq # "none",
         config.freq = "custom" => config.custom # None
  PROVE  PatternOptions(config, s) \in RuleOptions
<1> DEFINE days == WeekdaysOf(config, s)
           nth == [day |-> config.nthWeekday, n |-> config.nth]
<1>1. config.freq \in {"weekly", "monthly", "yearly", "custom"}
      /\ config.monthlyMode \in {"day", "nthWeekday"}
  BY DEF ConfigType
<1>2. {Every(d) : d \in days} \subseteq [day : AllDays, n : Int]
  BY DEF ConfigType, CalendarDays, AllDays, Every, WeekdaysOf
<1>3. {nth} \subseteq [day : AllDays, n : Int] /\ {config.monthDay} \subseteq {-1} \cup 1..31
      /\ {config.yearMonth} \subseteq 1..12 /\ {config.yearDay} \subseteq {-1} \cup 1..31
  BY DEF ConfigType
<1>4. CASE config.freq = "custom"
  BY <1>4, PatternOptionsAre DEF ConfigType
<1>5. CASE config.freq = "weekly"
  <2>1. Written("daily", {}, {}, {}) \in RuleOptions
    BY WrittenIs
  <2>2. Written("weekly", {Every(d) : d \in days}, {}, {}) \in RuleOptions
    BY <1>2, WrittenIs
  <2> QED
    BY <1>5, <2>1, <2>2, PatternOptionsAre
<1>6. CASE config.freq = "monthly"
  <2>1. Written("monthly", {}, {config.monthDay}, {}) \in RuleOptions
    BY <1>3, WrittenIs
  <2>2. Written("monthly", {nth}, {}, {}) \in RuleOptions
    BY <1>3, WrittenIs
  <2> QED
    BY <1>1, <1>6, <2>1, <2>2, PatternOptionsAre
<1>7. CASE config.freq = "yearly"
  <2>1. Written("yearly", {}, {config.yearDay}, {config.yearMonth}) \in RuleOptions
    BY <1>3, WrittenIs
  <2> QED
    BY <1>7, <2>1, PatternOptionsAre
<1> QED
  BY <1>1, <1>4, <1>5, <1>6, <1>7

(* Two rules that the form can express fall on the same days. *)
Falls(o, s, c) == OnListedDays(o, c) /\ LikeTheFirst(o, s, c)
SameDays(o, q, s) ==
  q \in RuleOptions /\ q.interval = 1 /\ \A c \in CalendarDays : Falls(q, s, c) <=> Falls(o, s, c)

(* What readWeekly makes of a rule is written as a rule for the same days. *)
LEMMA WeeklyReadBack ==
  ASSUME NEW o \in RuleOptions, o.interval = 1, o.freq \in {"daily", "weekly"},
         NEW config \in ConfigType, NEW s \in CalendarDays,
         NEW p, p = ReadWeekly(o, config, s), p # None
  PROVE  p \in ConfigType /\ p.freq = "weekly" /\ SameDays(o, PatternOptions(p, s), s)
<1> DEFINE fallback == IF o.freq = "daily" THEN AllDays ELSE {s.weekday}
           days == IF o.byweekday # {} THEN {w.day : w \in o.byweekday} ELSE fallback
<1>1. /\ o.bymonthday = {} /\ o.bymonth = {} /\ \A w \in o.byweekday : w.n = 0
      /\ p = [config EXCEPT !.freq = "weekly", !.weekdays = days]
  BY DEF ReadWeekly
<1>2. /\ s.weekday \in AllDays /\ \A w \in o.byweekday : w.day \in AllDays
      /\ \A c \in CalendarDays : c.weekday \in AllDays
  BY DEF CalendarDays, RuleOptions, AllDays
<1>3. days \subseteq AllDays /\ days # {}
  BY <1>2 DEF AllDays
<1> HIDE DEF days
<1>4. p \in ConfigType /\ p.freq = "weekly" /\ p.weekdays = days
  BY ZenonT(40), <1>1, <1>3 DEF ConfigType
<1>5. \A c \in CalendarDays : Falls(o, s, c) <=> c.weekday \in days
  <2> SUFFICES ASSUME NEW c \in CalendarDays
               PROVE  Falls(o, s, c) <=> c.weekday \in days
    OBVIOUS
  <2>1. CASE o.byweekday # {}
    BY <1>1, <2>1 DEF days, Falls, OnListedDays, LikeTheFirst, Bare
  <2>2. CASE o.byweekday = {} /\ o.freq = "daily"
    BY <1>1, <1>2, <2>2 DEF days, Falls, OnListedDays, LikeTheFirst, Bare
  <2>3. CASE o.byweekday = {} /\ o.freq = "weekly"
    BY <1>1, <1>2, <2>3 DEF days, Falls, OnListedDays, LikeTheFirst, Bare
  <2> QED
    BY <2>1, <2>2, <2>3
<1>6. CASE days = AllDays
  <2> DEFINE q == Written("daily", {}, {}, {})
  <2>1. PatternOptions(p, s) = q /\ q \in RuleOptions /\ q.interval = 1
    <3>1. PatternOptions(p, s) = q
      BY <1>3, <1>4, <1>6, PatternOptionsAre DEF WeekdaysOf
    <3> QED
      BY <3>1, WrittenIs DEF Written
  <2>2. \A c \in CalendarDays : Falls(q, s, c)
    BY DEF Falls, OnListedDays, LikeTheFirst, Written
  <2> QED
    BY <1>2, <1>4, <1>5, <1>6, <2>1, <2>2 DEF SameDays
<1>7. CASE days # AllDays
  <2> DEFINE q == Written("weekly", {Every(d) : d \in days}, {}, {})
  <2>1. PatternOptions(p, s) = q /\ q \in RuleOptions /\ q.interval = 1
    <3>1. PatternOptions(p, s) = q
      BY <1>3, <1>4, <1>7, PatternOptionsAre DEF WeekdaysOf
    <3>2. {Every(d) : d \in days} \subseteq [day : AllDays, n : Int]
      BY <1>3 DEF Every
    <3> QED
      BY <3>1, <3>2, WrittenIs DEF Written
  <2>2. ASSUME NEW c \in CalendarDays
        PROVE  Falls(q, s, c) <=> c.weekday \in days
    <3>1. q.byweekday = {Every(d) : d \in days} /\ q.byweekday # {}
      BY <1>3 DEF Written
    <3>2. (\E w \in q.byweekday : w.day = c.weekday /\ (w.n = 0 \/ NthOf(c, w.n)))
            <=> c.weekday \in days
      <4> HIDE DEF q
      <4>1. ASSUME c.weekday \in days
            PROVE  Every(c.weekday) \in q.byweekday /\ Every(c.weekday).day = c.weekday
                     /\ Every(c.weekday).n = 0
        BY <3>1, <4>1 DEF Every
      <4>2. ASSUME NEW w \in q.byweekday, w.day = c.weekday
            PROVE  c.weekday \in days
        BY <3>1, <4>2 DEF Every
      <4> QED
        BY <4>1, <4>2
    <3>3. q.bymonthday = {} /\ q.bymonth = {} /\ q.freq = "weekly"
      BY DEF Written
    <3> HIDE DEF q
    <3> QED
      BY <3>1, <3>2, <3>3 DEF Falls, OnListedDays, LikeTheFirst, Bare
  <2> QED
    BY <1>4, <1>5, <2>1, <2>2 DEF SameDays
<1> QED
  BY <1>6, <1>7

LEMMA MonthlyReadBack ==
  ASSUME NEW o \in RuleOptions, o.interval = 1, o.freq = "monthly",
         NEW config \in ConfigType, NEW s \in CalendarDays,
         NEW p, p = ReadMonthly(o, config, s), p # None
  PROVE  p \in ConfigType /\ p.freq = "monthly" /\ SameDays(o, PatternOptions(p, s), s)
<1>1. o.bymonth = {}
  BY DEF ReadMonthly
<1>2. /\ s.date \in 1..31
      /\ \A c \in CalendarDays : c.date \in 1..31
      /\ o.bymonthday \subseteq {-1} \cup 1..31 /\ o.byweekday \subseteq [day : AllDays, n : Int]
  BY DEF CalendarDays, RuleOptions
<1>3. ASSUME NEW n \in {-1} \cup 1..31,
             p = [config EXCEPT !.freq = "monthly", !.monthlyMode = "day", !.monthDay = n],
             \A c \in CalendarDays : Falls(o, s, c) <=> InMonthdays(c, {n})
      PROVE  p \in ConfigType /\ p.freq = "monthly" /\ SameDays(o, PatternOptions(p, s), s)
  <2> DEFINE q == Written("monthly", {}, {n}, {})
  <2>1. p \in ConfigType /\ p.freq = "monthly" /\ p.monthlyMode = "day" /\ p.monthDay = n
    BY ZenonT(40), <1>3 DEF ConfigType
  <2>2. PatternOptions(p, s) = q /\ q \in RuleOptions /\ q.interval = 1
    <3>1. PatternOptions(p, s) = q
      BY <2>1, PatternOptionsAre
    <3>2. {n} \subseteq {-1} \cup 1..31
      OBVIOUS
    <3> QED
      BY <3>1, <3>2, WrittenIs DEF Written
  <2>3. \A c \in CalendarDays : Falls(q, s, c) <=> InMonthdays(c, {n})
    BY DEF Falls, OnListedDays, LikeTheFirst, Bare, Written
  <2> QED
    BY <1>3, <2>1, <2>2, <2>3 DEF SameDays
<1>4. CASE o.byweekday = {} /\ o.bymonthday = {}
  <2>1. p = [config EXCEPT !.freq = "monthly", !.monthlyMode = "day", !.monthDay = s.date]
    BY <1>1, <1>4 DEF ReadMonthly
  <2>2. \A c \in CalendarDays : Falls(o, s, c) <=> InMonthdays(c, {s.date})
    BY <1>1, <1>2, <1>4 DEF Falls, OnListedDays, LikeTheFirst, Bare, InMonthdays
  <2> QED
    BY <1>2, <1>3, <2>1, <2>2
<1>5. CASE o.byweekday = {} /\ \E n \in o.bymonthday : o.bymonthday = {n}
  <2> DEFINE n == CHOOSE n \in o.bymonthday : TRUE
  <2>1. n \in o.bymonthday /\ o.bymonthday = {n}
    BY <1>5
  <2>2. p = [config EXCEPT !.freq = "monthly", !.monthlyMode = "day", !.monthDay = n]
    BY <1>1, <1>5 DEF ReadMonthly
  <2> HIDE DEF n
  <2>3. \A c \in CalendarDays : Falls(o, s, c) <=> InMonthdays(c, {n})
    BY <1>1, <1>5, <2>1 DEF Falls, OnListedDays, LikeTheFirst, Bare
  <2> QED
    BY <1>2, <1>3, <2>1, <2>2, <2>3
<1>6. CASE /\ o.bymonthday = {}
           /\ \E w \in o.byweekday : o.byweekday = {w} /\ w.n \in {-1} \cup 1..4
  <2> DEFINE w == CHOOSE w \in o.byweekday : TRUE
             q == Written("monthly", {w}, {}, {})
  <2>1. w \in o.byweekday /\ o.byweekday = {w} /\ w.n \in {-1} \cup 1..4
    BY <1>6
  <2>2. p = [config EXCEPT !.freq = "monthly", !.monthlyMode = "nthWeekday",
                           !.nth = w.n, !.nthWeekday = w.day]
    BY <1>1, <1>6 DEF ReadMonthly
  <2> HIDE DEF w
  <2>3. w \in [day : AllDays, n : Int] /\ [day |-> w.day, n |-> w.n] = w
    BY <1>2, <2>1
  <2>4. /\ p \in ConfigType /\ p.freq = "monthly" /\ p.monthlyMode = "nthWeekday"
        /\ p.nth = w.n /\ p.nthWeekday = w.day
    BY <2>1, <2>2, <2>3 DEF ConfigType
  <2>5. PatternOptions(p, s) = q
    BY <2>3, <2>4, PatternOptionsAre
  <2>6. q \in RuleOptions /\ q.interval = 1
    BY <2>3, WrittenIs DEF Written
  <2>7. \A c \in CalendarDays : Falls(q, s, c) <=> Falls(o, s, c)
    BY <1>1, <1>6, <2>1 DEF Falls, OnListedDays, LikeTheFirst, Bare, Written
  <2> QED
    BY <2>4, <2>5, <2>6, <2>7 DEF SameDays
<1> QED
  BY <1>1, <1>4, <1>5, <1>6 DEF ReadMonthly

LEMMA YearlyReadBack ==
  ASSUME NEW o \in RuleOptions, o.interval = 1, o.freq = "yearly",
         NEW config \in ConfigType, NEW s \in CalendarDays,
         NEW p, p = ReadYearly(o, config, s), p # None
  PROVE  /\ p \in ConfigType /\ p.freq = "yearly"
         /\ ~ReadAsAnother(o) => SameDays(o, PatternOptions(p, s), s)
<1> DEFINE one(S, default) == IF S = {} THEN default ELSE CHOOSE n \in S : TRUE
           m == one(o.bymonth, s.month)
           n == one(o.bymonthday, s.date)
           q == Written("yearly", {}, {n}, {m})
<1>1. /\ o.byweekday = {} /\ ~ Cardinality(o.bymonth) > 1 /\ ~ Cardinality(o.bymonthday) > 1
      /\ n \in 1..31 /\ p = [config EXCEPT !.freq = "yearly", !.yearMonth = m, !.yearDay = n]
  BY DEF ReadYearly
<1>2. /\ s.date \in 1..31 /\ s.month \in 1..12
      /\ o.bymonth \subseteq 1..12 /\ o.bymonthday \subseteq {-1} \cup 1..31
  BY DEF CalendarDays, RuleOptions
<1>3. o.bymonth \in {{}, {m}} /\ o.bymonthday \in {{}, {n}}
  <2>1. ASSUME NEW S, IsFiniteSet(S), ~ Cardinality(S) > 1, NEW x \in S
        PROVE  S = {x}
    <3>1. Cardinality(S) \in Nat /\ Cardinality(S \ {x}) = Cardinality(S) - 1
          /\ IsFiniteSet(S \ {x}) /\ Cardinality(S \ {x}) \in Nat
      BY <2>1, FS_CardinalityType, FS_RemoveElement
    <3>2. S \ {x} = {}
      BY <2>1, <3>1, FS_EmptySet
    <3> QED
      BY <3>2
  <2>2. IsFiniteSet(o.bymonth)
    <3>1. IsFiniteSet(1..12)
      <4> DEFINE lo == 1
                 hi == 12
      <4>1. lo \in Int /\ hi \in Int
        OBVIOUS
      <4> HIDE DEF lo, hi
      <4>2. IsFiniteSet(lo..hi)
        BY <4>1, FS_Interval
      <4> QED
        BY <4>2 DEF lo, hi
    <3> QED
      BY <1>2, <3>1, FS_Subset
  <2>3. IsFiniteSet(o.bymonthday)
    <3>1. IsFiniteSet((-1)..31)
      <4> DEFINE lo == -1
                 hi == 31
      <4>1. lo \in Int /\ hi \in Int
        OBVIOUS
      <4> HIDE DEF lo, hi
      <4>2. IsFiniteSet(lo..hi)
        BY <4>1, FS_Interval
      <4> QED
        BY <4>2 DEF lo, hi
    <3>2. o.bymonthday \subseteq (-1)..31
      BY <1>2
    <3> QED
      BY <3>1, <3>2, FS_Subset
  <2>4. o.bymonth # {} => m \in o.bymonth
    OBVIOUS
  <2>5. o.bymonthday # {} => n \in o.bymonthday
    OBVIOUS
  <2> HIDE DEF m, n
  <2>6. o.bymonth # {} => o.bymonth = {m}
    BY <1>1, <2>1, <2>2, <2>4
  <2>7. o.bymonthday # {} => o.bymonthday = {n}
    BY <1>1, <2>1, <2>3, <2>5
  <2> QED
    BY <2>6, <2>7
<1>4. /\ m \in 1..12
      /\ o.bymonth = {} => m = s.month
      /\ o.bymonthday = {} => n = s.date
  BY <1>2
<1> HIDE DEF m, n
<1>5. p \in ConfigType /\ p.freq = "yearly" /\ p.yearMonth = m /\ p.yearDay = n
  BY ZenonT(40), <1>1, <1>4 DEF ConfigType
<1>6. PatternOptions(p, s) = q /\ q \in RuleOptions /\ q.interval = 1
  <2>1. PatternOptions(p, s) = q
    BY <1>5, PatternOptionsAre
  <2>2. {n} \subseteq {-1} \cup 1..31 /\ {m} \subseteq 1..12
    BY <1>1, <1>4
  <2> QED
    BY <2>1, <2>2, WrittenIs DEF Written
<1>7. ASSUME NEW c \in CalendarDays, ~ReadAsAnother(o)
      PROVE  Falls(q, s, c) <=> Falls(o, s, c)
  <2>1. c.date \in 1..31 /\ c.month \in 1..12 /\ n # -1
    BY <1>1 DEF CalendarDays
  <2>2. Falls(q, s, c) <=> c.date = n /\ c.month = m
    BY <2>1 DEF Falls, OnListedDays, LikeTheFirst, Bare, Written, InMonthdays
  <2>3. CASE o.bymonthday = {}
    BY <1>1, <1>3, <1>4, <2>2, <2>3 DEF Falls, OnListedDays, LikeTheFirst, Bare
  <2>4. CASE o.bymonthday = {n} /\ o.bymonth = {m}
    BY <1>1, <1>3, <2>1, <2>2, <2>4 DEF Falls, OnListedDays, LikeTheFirst, Bare, InMonthdays
  <2>5. ~ (o.bymonthday = {n} /\ o.bymonth = {})
    BY <1>1, <1>7 DEF ReadAsAnother
  <2> QED
    BY <1>3, <2>3, <2>4, <2>5
<1> QED
  BY <1>5, <1>6, <1>7 DEF SameDays

(* What parseRRule makes of a rule, with its end and exceptions *)
LEMMA PatternReadBack ==
  ASSUME NEW o \in RuleOptions, NEW config \in ConfigType, NEW s \in CalendarDays,
         NEW p, p = ReadPattern(o, config, s), p # None
  PROVE  /\ o.interval = 1
         /\ p \in ConfigType /\ p.freq \in {"weekly", "monthly", "yearly"}
         /\ ~ReadAsAnother(o) => SameDays(o, PatternOptions(p, s), s)
<1>1. o.interval = 1 /\ o.freq \in {"daily", "weekly", "monthly", "yearly"}
  BY DEF ReadPattern, RuleOptions
<1>2. CASE o.freq \in {"daily", "weekly"}
  <2>1. p = ReadWeekly(o, config, s)
    BY <1>1, <1>2 DEF ReadPattern
  <2> QED
    BY <1>1, <1>2, <2>1, WeeklyReadBack
<1>3. CASE o.freq = "monthly"
  <2>1. p = ReadMonthly(o, config, s)
    BY <1>1, <1>3 DEF ReadPattern
  <2> QED
    BY <1>1, <1>3, <2>1, MonthlyReadBack
<1>4. CASE o.freq = "yearly"
  <2>1. p = ReadYearly(o, config, s)
    BY <1>1, <1>4 DEF ReadPattern
  <2> QED
    BY <1>1, <1>4, <2>1, YearlyReadBack
<1> QED
  BY <1>1, <1>2, <1>3, <1>4

-----------------------------------------------------------------------------
(* Reading and writing rules *)

InCalendar(i) == DayOf(ToFloating(i)) \in 0..LastDay
Sound(config) == config \in ConfigType /\ (config.freq = "custom" => config.custom # None)

LEMMA NothingIsAConfig == NoRecurrence \in ConfigType /\ Sound(NoRecurrence)
  BY NoneIsApart DEF NoRecurrence, ConfigType, Sound, AllDays

LEMMA DefaultsAre ==
  ASSUME NEW config \in ConfigType, NEW i, InCalendar(i)
  PROVE  /\ On(i) \in CalendarDays
         /\ WithDefaults(config, i) \in ConfigType
         /\ WithDefaults(config, i).freq = config.freq /\ WithDefaults(config, i).custom = config.custom
<1> DEFINE c == On(i)
           m == NthWeekdayOfMonth(c)
<1>1. c \in CalendarDays
  BY CalendarIs DEF On, InCalendar
<1> HIDE DEF c
<1>2. /\ c.weekday \in AllDays /\ c.date \in 1..31 /\ c.month \in 1..12
  BY <1>1 DEF CalendarDays, AllDays
<1>3. m \in {-1} \cup 1..4
  BY <1>2 DEF NthWeekdayOfMonth
<1> HIDE DEF m
<1>4. WithDefaults(config, i) =
        [config EXCEPT !.weekdays = {c.weekday}, !.monthlyMode = "day", !.monthDay = c.date,
           !.nth = m, !.nthWeekday = c.weekday, !.yearMonth = c.month, !.yearDay = c.date]
  BY DEF WithDefaults, c, m
<1>5. WithDefaults(config, i) =
        [freq |-> config.freq, weekdays |-> {c.weekday}, monthlyMode |-> "day", monthDay |-> c.date,
         nth |-> m, nthWeekday |-> c.weekday, yearMonth |-> c.month, yearDay |-> c.date,
         until |-> config.until, count |-> config.count, exdates |-> config.exdates,
         custom |-> config.custom]
  BY <1>4 DEF ConfigType
<1> QED
  BY <1>1, <1>2, <1>3, <1>5 DEF ConfigType, c

LEMMA UntilIs ==
  ASSUME NEW config \in ConfigType, NEW start \in Nat
  PROVE  LET until == UntilOf(config, start) IN
         /\ config.count # 0 => until = None
         /\ config.count = 0 => /\ until \in Nat /\ Shift <= until
                                /\ EndOfDay(FromFloating(until)) = until
<1>1. config.count \in Nat /\ config.until \in Nat \cup {None}
  BY DEF ConfigType
<1>2. CASE config.count # 0
  BY <1>2 DEF UntilOf
<1>3. CASE config.count = 0 /\ config.until # None
  <2>1. UntilOf(config, start) = EndOfDay(config.until)
    BY <1>3 DEF UntilOf
  <2> QED
    BY <1>1, <1>3, <2>1, EndOfDayIs
<1>4. CASE config.count = 0 /\ config.until = None
  <2>1. UntilOf(config, start) = EndOfDay(start)
    BY <1>4 DEF UntilOf
  <2> QED
    BY <1>4, <2>1, EndOfDayIs
<1> QED
  BY <1>2, <1>3, <1>4

(* A rule's end and exceptions are not part of its pattern. *)
AlikeInPattern(p, q) ==
  /\ q.freq = p.freq /\ q.weekdays = p.weekdays /\ q.monthlyMode = p.monthlyMode
  /\ q.monthDay = p.monthDay /\ q.nth = p.nth /\ q.nthWeekday = p.nthWeekday
  /\ q.yearMonth = p.yearMonth /\ q.yearDay = p.yearDay /\ q.custom = p.custom

LEMMA EndIsNoPattern ==
  ASSUME NEW p \in ConfigType, NEW q, AlikeInPattern(p, q), NEW s
  PROVE  PatternOptions(q, s) = PatternOptions(p, s)
<1>1. AlikeInPattern(p, q)
  OBVIOUS
<1>2. /\ p.freq \in {"none", "weekly", "monthly", "yearly", "custom"}
      /\ p.monthlyMode \in {"day", "nthWeekday"}
  BY DEF ConfigType
<1>3. CASE p.freq \in {"none", "custom"}
  BY <1>1, <1>3, PatternOptionsAre DEF AlikeInPattern
<1>4. CASE p.freq = "weekly"
  <2>1. WeekdaysOf(q, s) = WeekdaysOf(p, s)
    BY <1>1 DEF AlikeInPattern, WeekdaysOf
  <2> QED
    BY ZenonT(40), <1>1, <1>4, <2>1, PatternOptionsAre DEF AlikeInPattern
<1>5. CASE p.freq = "monthly"
  <2>1. CASE p.monthlyMode = "day"
    BY ZenonT(40), <1>1, <1>5, <2>1, PatternOptionsAre DEF AlikeInPattern
  <2>2. CASE p.monthlyMode = "nthWeekday"
    <3> DEFINE days(c) == {[day |-> c.nthWeekday, n |-> c.nth]}
    <3>1. days(q) = days(p)
      BY <1>1 DEF AlikeInPattern
    <3>2. \A c : c.freq = "monthly" /\ c.monthlyMode = "nthWeekday" =>
                PatternOptions(c, s) = Written("monthly", days(c), {}, {})
      BY PatternOptionsAre
    <3> HIDE DEF days
    <3> QED
      BY <1>1, <1>5, <2>2, <3>1, <3>2 DEF AlikeInPattern
  <2> QED
    BY <1>2, <2>1, <2>2
<1>6. CASE p.freq = "yearly"
  BY ZenonT(40), <1>1, <1>6, PatternOptionsAre DEF AlikeInPattern
<1> QED
  BY <1>2, <1>3, <1>4, <1>5, <1>6

(* What is read of a rule in a form falls on its days. *)
SamePattern(o, q, s) == q = o \/ (o.interval = 1 /\ SameDays(o, q, s))

LEMMA ParsedRule ==
  ASSUME NEW rule \in Rules, NEW begin, begin = ToLocal(rule, rule.dtstart), InCalendar(begin),
         NEW config, config = ParseRRule(rule)
  PROVE  /\ Sound(config) /\ config.freq # "none"
         /\ config.until = IF rule.until = None THEN None ELSE FromFloating(rule.until)
         /\ config.count = rule.count
         /\ config.exdates = {ToLocal(rule, x) : x \in rule.exdates}
         /\ ~ReadAsAnother(rule.options) =>
              SamePattern(rule.options, PatternOptions(config, On(begin)), On(begin))
<1> DEFINE base == WithDefaults(NoRecurrence, begin)
           pattern == ReadPattern(rule.options, base, On(begin))
           other == [base EXCEPT !.freq = "custom", !.custom = rule.options]
           read == IF pattern # None THEN pattern ELSE other
           until == IF rule.until = None THEN None ELSE FromFloating(rule.until)
           exdates == {ToLocal(rule, x) : x \in rule.exdates}
<1>1. rule # None /\ rule.options \in RuleOptions /\ rule.options # None
  BY NoneIsApart DEF Rules
<1>2. config = [read EXCEPT !.until = until, !.count = rule.count, !.exdates = exdates]
  BY <1>1 DEF ParseRRule
<1>3. base \in ConfigType /\ On(begin) \in CalendarDays
  BY NothingIsAConfig, DefaultsAre
<1> HIDE DEF base
<1>4. /\ read \in ConfigType /\ read.freq \in {"weekly", "monthly", "yearly", "custom"}
      /\ read.freq = "custom" => read.custom # None
      /\ ~ReadAsAnother(rule.options) =>
           SamePattern(rule.options, PatternOptions(read, On(begin)), On(begin))
  <2>1. CASE pattern # None
    <3>1. /\ rule.options.interval = 1
          /\ pattern \in ConfigType /\ pattern.freq \in {"weekly", "monthly", "yearly"}
          /\ ~ReadAsAnother(rule.options) =>
               SameDays(rule.options, PatternOptions(pattern, On(begin)), On(begin))
      BY <1>1, <1>3, <2>1, PatternReadBack
    <3> QED
      BY <2>1, <3>1 DEF SamePattern
  <2>2. CASE pattern = None
    <3>1. other \in ConfigType /\ other.freq = "custom" /\ other.custom = rule.options
      BY <1>1, <1>3 DEF ConfigType
    <3> HIDE DEF other
    <3>2. read = other
      BY <2>2
    <3>3. PatternOptions(other, On(begin)) = rule.options
      BY <3>1, PatternOptionsAre
    <3> HIDE DEF read
    <3> QED
      BY <1>1, <3>1, <3>2, <3>3 DEF SamePattern
  <2> QED
    BY <2>1, <2>2
<1> HIDE DEF read
<1>5. until \in Nat \cup {None} /\ rule.count \in Nat /\ exdates \in SUBSET Nat
  <2>1. ASSUME NEW x \in Nat PROVE ToLocal(rule, x) \in Nat /\ FromFloating(x) \in Nat
    BY ReadingOf DEF ToLocal
  <2> QED
    BY <2>1 DEF Rules
<1> HIDE DEF until, exdates
<1>6. /\ config \in ConfigType /\ config.freq = read.freq /\ config.custom = read.custom
      /\ config.until = until /\ config.count = rule.count /\ config.exdates = exdates
  BY ZenonT(40), <1>2, <1>4, <1>5 DEF ConfigType
<1>7. PatternOptions(config, On(begin)) = PatternOptions(read, On(begin))
  <2>1. read \in ConfigType /\ AlikeInPattern(read, config)
    BY <1>2, <1>4, <1>5 DEF ConfigType, AlikeInPattern
  <2> QED
    BY <2>1, EndIsNoPattern
<1> QED
  BY <1>4, <1>6, <1>7 DEF Sound, until, exdates

LEMMA SameRecurrences ==
  ASSUME NEW o \in RuleOptions, NEW q, NEW dtstart \in Nat, DayOf(dtstart) \in 0..LastDay,
         SamePattern(o, q, Calendar[DayOf(dtstart)]), NEW until, NEW count
  PROVE  Recurrences(q, dtstart, until, count) = Recurrences(o, dtstart, until, count)
<1> DEFINE first == DayOf(dtstart)
<1>1. CASE q = o
  BY <1>1
<1>2. CASE o.interval = 1 /\ SameDays(o, q, Calendar[first])
  <2>1. q \in RuleOptions /\ q.interval = 1
    BY <1>2 DEF SameDays
  <2>2. ASSUME NEW d \in first..LastDay
        PROVE  FallsOn(q, first, d) <=> FallsOn(o, first, d)
    <3>1. d \in 0..LastDay /\ Calendar[d] \in CalendarDays
      BY CalendarIs, Sizes
    <3>2. Falls(q, Calendar[first], Calendar[d]) <=> Falls(o, Calendar[first], Calendar[d])
      BY <1>2, <3>1 DEF SameDays
    <3> QED
      BY <1>2, <2>1, <3>1, <3>2, FallsOnIs DEF Falls
  <2>3. {d \in first..LastDay : FallsOn(q, first, d)} = {d \in first..LastDay : FallsOn(o, first, d)}
    BY <2>2
  <2> QED
    BY <2>3 DEF Recurrences
<1> QED
  BY <1>1, <1>2 DEF SamePattern

-----------------------------------------------------------------------------
(* What is stored *)

OccurringOf(rule) == Recurrences(rule.options, rule.dtstart, rule.until, rule.count)
RowAt(w, length) == Row(FromFloating(w), FromFloating(w + length))
ClockKept(rule) == \A w \in OccurringOf(rule) : ~Skipped(w)

(* The rows are those of the rule, all of one length by the wall clock, and the *)
(* rule holds what instants and ends of days read as.                           *)
FollowsRule(rule, rows) ==
  /\ ~Skipped(rule.dtstart) /\ DayOf(rule.dtstart) \in 0..LastDay
  /\ \A x \in rule.exdates : ~Skipped(x)
  /\ rule.count # 0 => rule.until = None
  /\ rule.count = 0 => rule.until # None /\ EndOfDay(FromFloating(rule.until)) = rule.until
  /\ \A r \in rows : \E w \in OccurringOf(rule) : r.start = FromFloating(w)
  /\ ClockKept(rule) => \E length \in Nat \ {0} :
       rows = {RowAt(w, length) : w \in OccurringOf(rule) \ rule.exdates}

(* An instant that an input field can hold *)
Readable(i) == i \in Nat /\ Local(i) = i

StoredOK ==
  /\ \A r \in stored.rows : r.start < r.end
  /\ stored.rule = None => \E s, e \in Nat : /\ s < e /\ Readable(s) /\ Readable(e) /\ InCalendar(s)
                                             /\ stored.rows = {Row(s, e)}
  /\ stored.rule # None => InCalendar(ToLocal(stored.rule, stored.rule.dtstart))
  /\ stored.rule # None /\ stored.rule.zoned => FollowsRule(stored.rule, stored.rows)

FormOK ==
  /\ Sound(form.config)
  /\ Readable(form.start) /\ Readable(form.end) /\ InCalendar(form.start)

(* The detached days are excepted, unless their hour was skipped. *)
DetachedOK ==
  \A d \in detached :
    /\ stored.rule # None /\ stored.rule.zoned
    /\ LET w == d * DayLength + TimeOf(stored.rule.dtstart) IN Skipped(w) \/ w \in stored.rule.exdates

(* As long as only its end was changed, the form has the stored start and exceptions. *)
FormKeeps ==
  form.open /\ touched \subseteq {"end"} /\ stored.rule # None /\ stored.rule.zoned =>
    /\ form.start = FromFloating(stored.rule.dtstart)
    /\ form.config.freq # "none"
    /\ form.config.exdates = {FromFloating(x) : x \in stored.rule.exdates}

SeriesInv == TypeOK /\ StoredOK /\ FormOK /\ DetachedOK /\ FormKeeps

(* generateOccurrences, case by case *)
LEMMA GenerateIs ==
  ASSUME NEW start \in Nat, NEW end \in Nat, InCalendar(start), NEW config, Sound(config),
         NEW gen, gen = GenerateOccurrences(start, end, config)
  PROVE  /\ end <= start => gen = [rows |-> {}, rule |-> None]
         /\ start < end /\ config.freq = "none" => gen = [rows |-> {Row(start, end)}, rule |-> None]
         /\ start < end /\ config.freq # "none" =>
              LET rule == Rule(PatternOptions(config, On(start)), config, start)
                  length == ToFloating(end) - ToFloating(start)
              IN /\ rule \in Rules /\ rule.zoned
                 /\ gen = [rows |-> {RowAt(w, length) : w \in OccurringOf(rule) \ rule.exdates},
                           rule |-> rule]
                 /\ gen.rows \subseteq [start : Nat, end : Nat]
<1> DEFINE o == PatternOptions(config, On(start))
           rule == Rule(o, config, start)
           length == ToFloating(end) - ToFloating(start)
<1>1. config \in ConfigType /\ On(start) \in CalendarDays /\ None \notin RuleOptions
  BY CalendarIs, NoneIsApart DEF Sound, On, InCalendar
<1>2. CASE end <= start
  BY <1>2 DEF GenerateOccurrences
<1>3. CASE start < end /\ config.freq = "none"
  <2>1. o = None
    BY <1>3, PatternOptionsAre
  <2> QED
    BY <1>3, <2>1 DEF GenerateOccurrences
<1>4. CASE start < end /\ config.freq # "none"
  <2>1. o \in RuleOptions /\ o # None
    BY <1>1, <1>4, PatternIsARule DEF Sound
  <2>2. ToFloating(start) \in Nat /\ ToFloating(end) \in Nat
    BY InstantOf
  <2> HIDE DEF o
  <2>3. rule = [options |-> o, until |-> UntilOf(config, start), count |-> config.count,
                zoned |-> TRUE, dtstart |-> ToFloating(start),
                exdates |-> {ToFloating(x) : x \in config.exdates}]
    BY DEF Rule
  <2>4. UntilOf(config, start) \in Nat \cup {None} /\ config.count \in Nat
    BY <1>1, UntilIs DEF ConfigType
  <2>5. {ToFloating(x) : x \in config.exdates} \in SUBSET Nat
    <3>1. \A x \in config.exdates : ToFloating(x) \in Nat
      BY <1>1, InstantOf DEF ConfigType
    <3> QED
      BY <3>1
  <2>6. rule \in Rules /\ rule.zoned
    BY <2>1, <2>2, <2>3, <2>4, <2>5 DEF Rules
  <2>7. gen = [rows |-> {RowAt(w, length) : w \in OccurringOf(rule) \ rule.exdates}, rule |-> rule]
    <3>1. OccurringOf(rule) = Recurrences(o, rule.dtstart, rule.until, rule.count)
      BY <2>3 DEF OccurringOf
    <3>2. gen = [rows |-> {Row(FromFloating(w), FromFloating(w + length)) :
                             w \in Recurrences(o, rule.dtstart, rule.until, rule.count) \ rule.exdates},
                 rule |-> rule]
      BY <1>4, <2>1 DEF GenerateOccurrences, o
    <3> HIDE DEF rule, length
    <3> QED
      BY <3>1, <3>2 DEF RowAt
  <2>8. ASSUME NEW w \in OccurringOf(rule)
        PROVE  RowAt(w, length) \in [start : Nat, end : Nat]
    <3>1. w \in Nat /\ ToFloating(start) <= w
      BY <2>2, <2>3, RecurrencesAre DEF OccurringOf
    <3>2. w + length \in Nat
      BY <2>2, <3>1
    <3> HIDE DEF length
    <3> QED
      BY <3>1, <3>2, ReadingOf DEF RowAt, Row
  <2> HIDE DEF rule, length
  <2>9. gen.rows \subseteq [start : Nat, end : Nat]
    BY <2>7, <2>8
  <2> QED
    BY <1>4, <2>6, <2>7, <2>9 DEF rule, length, o
<1> QED
  BY <1>2, <1>3, <1>4

(* What a form writes is followed by its rows. *)
LEMMA GeneratedFollows ==
  ASSUME NEW start, Readable(start), NEW end, Readable(end), InCalendar(start), start < end,
         NEW config, Sound(config), config.freq # "none",
         NEW gen, gen = GenerateOccurrences(start, end, config)
  PROVE  /\ gen.rule \in Rules /\ gen.rule # None /\ gen.rule.zoned
         /\ gen.rule.dtstart = ToFloating(start)
         /\ gen.rule.exdates = {ToFloating(x) : x \in config.exdates}
         /\ FollowsRule(gen.rule, gen.rows)
<1> DEFINE o == PatternOptions(config, On(start))
           rule == Rule(o, config, start)
           length == ToFloating(end) - ToFloating(start)
<1>1. start \in Nat /\ end \in Nat /\ config \in ConfigType
  BY DEF Readable, Sound
<1>2. /\ rule \in Rules /\ rule.zoned
      /\ gen.rows = {RowAt(w, length) : w \in OccurringOf(rule) \ rule.exdates} /\ gen.rule = rule
  BY <1>1, GenerateIs
<1>3. /\ rule.dtstart = ToFloating(start) /\ rule.until = UntilOf(config, start)
      /\ rule.count = config.count /\ rule.exdates = {ToFloating(x) : x \in config.exdates}
  BY DEF Rule
<1> HIDE DEF rule, o
<1>4. rule # None
  BY <1>2, NoneIsApart
<1>5. ~Skipped(rule.dtstart) /\ DayOf(rule.dtstart) \in 0..LastDay
  BY <1>1, <1>3, InstantOf DEF InCalendar
<1>6. \A x \in rule.exdates : ~Skipped(x)
  <2>1. \A x \in config.exdates : x \in Int
    BY <1>1 DEF ConfigType
  <2> QED
    BY <1>3, <2>1, InstantOf
<1>7. /\ rule.count # 0 => rule.until = None
      /\ rule.count = 0 => rule.until # None /\ EndOfDay(FromFloating(rule.until)) = rule.until
  BY <1>1, <1>3, UntilIs, NoneIsApart
<1>8. length \in Nat \ {0}
  <2>1. ToFloating(start) < ToFloating(end) /\ ToFloating(start) \in Nat /\ ToFloating(end) \in Nat
    BY <1>1, LaterInstants, InstantOf DEF Readable
  <2> QED
    BY <2>1
<1> HIDE DEF length
<1>9. \A r \in gen.rows : \E w \in OccurringOf(rule) : r.start = FromFloating(w)
  BY <1>2 DEF RowAt, Row
<1>10. FollowsRule(rule, gen.rows)
  BY <1>2, <1>5, <1>6, <1>7, <1>8, <1>9 DEF FollowsRule
<1> QED
  BY <1>2, <1>3, <1>4, <1>10

(* A row that is detached becomes an exception of its rule. *)
LEMMA DetachedFollows ==
  ASSUME NEW rule \in Rules, rule.zoned, NEW rows, FollowsRule(rule, rows), NEW r \in rows, r.start \in Nat
  PROVE  /\ AddExdate(rule, r.start) \in Rules
         /\ FollowsRule(AddExdate(rule, r.start), rows \ {r})
<1> DEFINE i == ToFloating(r.start)
           new == AddExdate(rule, r.start)
<1>1. i \in Nat /\ ~Skipped(i)
  BY InstantOf
<1> HIDE DEF i
<1>2. /\ new \in Rules /\ new.options = rule.options /\ new.until = rule.until /\ new.zoned
      /\ new.count = rule.count /\ new.dtstart = rule.dtstart /\ new.exdates = rule.exdates \cup {i}
  BY <1>1 DEF AddExdate, Rules, i
<1> HIDE DEF new
<1>3. OccurringOf(new) = OccurringOf(rule)
  BY <1>2 DEF OccurringOf
<1>4. ASSUME ClockKept(rule)
      PROVE  \E length \in Nat \ {0} :
               rows \ {r} = {RowAt(w, length) : w \in OccurringOf(new) \ new.exdates}
  <2>1. PICK length \in Nat \ {0} :
          rows = {RowAt(w, length) : w \in OccurringOf(rule) \ rule.exdates}
    BY <1>4 DEF FollowsRule
  <2>2. PICK v \in OccurringOf(rule) \ rule.exdates : r = RowAt(v, length)
    BY <2>1
  <2>3. \A w \in OccurringOf(rule) : w \in Nat /\ ~Skipped(w)
    BY <1>4, RecurrencesAre DEF ClockKept, OccurringOf, Rules
  <2>4. r.start = FromFloating(v) /\ i = v
    BY <2>2, <2>3, ReadingOf DEF RowAt, Row, i
  <2>5. ASSUME NEW w \in OccurringOf(rule), w # v
        PROVE  RowAt(w, length) # r
    <3>1. FromFloating(w) # FromFloating(v)
      <4>1. w \in Int /\ v \in Int /\ ~Skipped(w) /\ ~Skipped(v)
        BY <2>2, <2>3
      <4>2. FromFloating(w) \in Int /\ FromFloating(v) \in Int
        BY <4>1, ReadingOf
      <4>3. CASE w < v
        BY <4>1, <4>2, <4>3, LaterReadings
      <4>4. CASE v < w
        BY <4>1, <4>2, <4>4, LaterReadings
      <4> QED
        BY <2>5, <4>1, <4>3, <4>4
    <3> QED
      BY <2>4, <3>1 DEF RowAt, Row
  <2> QED
    BY <1>2, <1>3, <2>1, <2>2, <2>4, <2>5
<1>5. ClockKept(new) = ClockKept(rule)
  BY <1>3 DEF ClockKept
<1> QED
  BY <1>1, <1>2, <1>3, <1>4, <1>5 DEF FollowsRule, new

(* A legacy rule keeps its shape. *)
LEMMA LegacyDetached ==
  ASSUME NEW rule \in Rules, NEW i \in Nat
  PROVE  /\ AddExdate(rule, i) \in Rules /\ AddExdate(rule, i).zoned = rule.zoned
         /\ AddExdate(rule, i).dtstart = rule.dtstart
<1>1. ToFloating(i) \in Nat
  BY InstantOf
<1>2. PICK x \in Nat : AddExdate(rule, i) = [rule EXCEPT !.exdates = @ \cup {x}]
  BY <1>1 DEF AddExdate
<1> QED
  BY <1>2 DEF Rules

-----------------------------------------------------------------------------
(* The invariant *)

LEMMA FirstRowIs ==
  ASSUME NEW rows \in SUBSET [start : Nat, end : Nat], rows # {}
  PROVE  FirstRow(rows) \in rows /\ \A x \in rows : FirstRow(rows).start <= x.start
<1> DEFINE S == {r.start : r \in rows}
<1>1. S \in SUBSET Nat /\ S # {}
  OBVIOUS
<1>2. PICK m \in S : \A x \in S : ~ (<<x, m>> \in OpToRel(<, Nat))
  <2> HIDE DEF S
  <2> QED
    BY <1>1, NatLessThanWellFounded, WFMin
<1>3. PICK r \in rows : r.start = m
  BY <1>2
<1>4. \A x \in rows : r.start <= x.start
  <2> SUFFICES ASSUME NEW x \in rows, x.start < r.start
               PROVE  FALSE
    OBVIOUS
  <2>1. x.start \in S /\ x.start \in Nat /\ m \in Nat /\ x.start < m
    BY <1>3
  <2>2. <<x.start, m>> \in OpToRel(<, Nat)
    BY <2>1 DEF OpToRel
  <2> QED
    BY <1>2, <2>1, <2>2
<1> QED
  BY <1>3, <1>4 DEF FirstRow

LEMMA TwoAreCompared ==
  ASSUME NEW a \in Nat, NEW b \in Nat
  PROVE  Max({a, b}) \in Nat /\ Min({a, b}) \in Nat
BY DEF Max, Min

(* The form that opens *)
LEMMA OpenedForm ==
  ASSUME TypeOK, StoredOK, stored.rows # {}, NEW f, f = FormOf(stored)
  PROVE  /\ f \in [open : BOOLEAN, start : Nat, end : Nat, config : ConfigType] /\ f.open
         /\ Sound(f.config) /\ Readable(f.start) /\ Readable(f.end) /\ InCalendar(f.start)
         /\ f.config = ParseRRule(stored.rule)
         /\ stored.rule # None => /\ f.config.freq # "none"
                                  /\ f.start = Local(ToLocal(stored.rule, stored.rule.dtstart))
<1> DEFINE first == SeriesFirstTimes(stored.rule, stored.rows)
           row == FirstRow(stored.rows)
<1>1. stored.rows \in SUBSET [start : Nat, end : Nat] /\ (stored.rule # None => stored.rule \in Rules)
  BY DEF TypeOK
<1>2. row \in stored.rows /\ row.start \in Nat /\ row.end \in Nat /\ row.start < row.end
  BY <1>1, FirstRowIs DEF StoredOK
<1> HIDE DEF row
<1>3. /\ first.start \in Nat /\ first.end \in Nat /\ InCalendar(first.start)
      /\ Sound(ParseRRule(stored.rule))
      /\ stored.rule # None => /\ first.start = ToLocal(stored.rule, stored.rule.dtstart)
                               /\ ParseRRule(stored.rule).freq # "none"
  <2>1. CASE stored.rule = None
    <3>1. first = row
      BY <2>1 DEF SeriesFirstTimes, row
    <3>2. InCalendar(row.start)
      BY <1>2, <2>1 DEF StoredOK, Row
    <3>3. ParseRRule(stored.rule) = NoRecurrence
      BY <2>1 DEF ParseRRule
    <3> HIDE DEF first
    <3> QED
      BY <1>2, <2>1, <3>1, <3>2, <3>3, NothingIsAConfig
  <2>2. CASE stored.rule # None
    <3> DEFINE begin == ToLocal(stored.rule, stored.rule.dtstart)
    <3>1. stored.rule \in Rules /\ stored.rule.dtstart \in Nat
      BY <1>1, <2>2 DEF Rules
    <3>2. begin \in Nat /\ InCalendar(begin)
      BY <2>2, <3>1, ReadingOf DEF ToLocal, StoredOK
    <3>3. first = Row(begin, begin + (row.end - row.start))
      BY <2>2 DEF SeriesFirstTimes, row
    <3> HIDE DEF begin, first
    <3>4. first.start = begin /\ first.end \in Nat
      BY <1>2, <3>2, <3>3 DEF Row
    <3>5. Sound(ParseRRule(stored.rule)) /\ ParseRRule(stored.rule).freq # "none"
      BY <3>1, <3>2, ParsedRule DEF begin
    <3> QED
      BY <2>2, <3>2, <3>4, <3>5 DEF begin
  <2> QED
    BY <2>1, <2>2
<1>4. f = [open |-> TRUE, start |-> Local(first.start), end |-> Local(first.end),
           config |-> ParseRRule(stored.rule)]
  BY DEF FormOf
<1> HIDE DEF first
<1>5. Readable(Local(first.start)) /\ Readable(Local(first.end)) /\ InCalendar(Local(first.start))
  BY <1>3, InstantOf DEF Readable, InCalendar
<1> QED
  BY <1>3, <1>4, <1>5 DEF Sound, Readable

(* The inputs of a start or an end *)
LEMMA StartsAre ==
  ASSUME NEW w \in Starts
  PROVE  /\ w \in Nat /\ FromFloating(w) \in Nat
         /\ Readable(FromFloating(w)) /\ InCalendar(FromFloating(w))
<1>1. w \in 0..(DayLength * LastDay)
  BY SeriesAssumption
<1>2. w \in Nat /\ w <= DayLength * LastDay
  BY <1>1, Sizes
<1>3. DayOf(w) \in Nat /\ TimeOf(w) \in Nat /\ w = DayLength * DayOf(w) + TimeOf(w)
  BY <1>2, DayAndTime
<1> DEFINE d == DayOf(w)
<1> HIDE DEF d
<1>4. d \in 0..LastDay
  <2> SUFFICES ASSUME LastDay + 1 <= d
               PROVE  FALSE
    BY <1>3, Sizes DEF d
  <2>1. d \in Nat
    BY <1>3 DEF d
  <2>2. DayLength * (LastDay + 1) <= DayLength * d
    BY <2>1, Sizes
  <2>3. DayLength * (LastDay + 1) = DayLength * LastDay + DayLength
    BY Sizes
  <2>4. w = DayLength * d + TimeOf(w)
    BY <1>3 DEF d
  <2> QED
    BY <1>2, <1>3, <2>1, <2>2, <2>3, <2>4, Sizes
<1>5. InCalendar(FromFloating(w))
  BY <1>2, <1>4, ReadAgain DEF InCalendar, d
<1> QED
  BY <1>2, <1>5, ReadingOf, FirstOfTwo DEF Readable

(* What an earlier version stored *)
LEMMA LegacyIs ==
  ASSUME NEW start, Readable(start), NEW end, Readable(end), InCalendar(start), start < end,
         NEW config, Sound(config), config.freq # "none", config.exdates = {},
         NEW old, old = Legacy(start, end, config)
  PROVE  /\ old \in [rule : Rules, rows : SUBSET [start : Nat, end : Nat]]
         /\ old.rule.dtstart = start /\ ~old.rule.zoned
<1> DEFINE new == GenerateOccurrences(start, end, config)
           utc(w) == w - OffsetAt(start)
           until == IF new.rule.until = None THEN None ELSE utc(new.rule.until)
           row(r) == Row(utc(ToFloating(r.start)), utc(ToFloating(r.start)) + (end - start))
<1>1. start \in Nat /\ end \in Nat /\ config \in ConfigType
  BY DEF Readable, Sound
<1>2. /\ new.rule \in Rules /\ new.rule # None /\ new.rule.zoned
      /\ new.rule.dtstart = ToFloating(start) /\ FollowsRule(new.rule, new.rows)
      /\ new.rule = Rule(PatternOptions(config, On(start)), config, start)
  BY <1>1, GeneratedFollows, GenerateIs
<1>3. old = [rule |-> [new.rule EXCEPT !.zoned = FALSE, !.dtstart = start, !.until = until],
             rows |-> {row(r) : r \in new.rows}]
  BY DEF Legacy
<1>4. OffsetAt(start) \in Nat /\ OffsetAt(start) <= Shift /\ ToFloating(start) = start + OffsetAt(start)
  BY Sizes DEF OffsetAt, ToFloating
<1>5. until \in Nat \cup {None}
  <2>1. new.rule.until = UntilOf(config, start)
    BY <1>2 DEF Rule
  <2>2. new.rule.until # None => new.rule.until \in Nat /\ Shift <= new.rule.until
    BY <1>1, <2>1, UntilIs DEF ConfigType
  <2> HIDE DEF new
  <2> QED
    BY <1>4, <2>2, Sizes
<1>6. ASSUME NEW r \in new.rows
      PROVE  row(r) \in [start : Nat, end : Nat]
  <2>1. PICK w \in OccurringOf(new.rule) : r.start = FromFloating(w)
    BY <1>2 DEF FollowsRule
  <2>2. w \in Nat /\ ToFloating(start) <= w
    BY <1>2, <2>1, RecurrencesAre DEF OccurringOf, Rules
  <2>3. ToFloating(r.start) \in Int /\ w <= ToFloating(r.start)
    BY <2>1, <2>2, ReadingOf, InstantOf
  <2>4. utc(ToFloating(r.start)) \in Nat
    BY <1>1, <1>4, <2>2, <2>3
  <2> HIDE DEF utc
  <2> QED
    BY <1>1, <2>4 DEF Row
<1> HIDE DEF new, until, row
<1>7. old.rows \subseteq [start : Nat, end : Nat]
  BY <1>3, <1>6
<1>8. old.rule \in Rules /\ old.rule.dtstart = start /\ ~old.rule.zoned
  <2>1. old.rule = [new.rule EXCEPT !.zoned = FALSE, !.dtstart = start, !.until = until]
    BY <1>3
  <2>2. ASSUME NEW rule \in Rules, NEW u \in Nat \cup {None}
        PROVE  LET other == [rule EXCEPT !.zoned = FALSE, !.dtstart = start, !.until = u] IN
               other \in Rules /\ other.dtstart = start /\ ~other.zoned
    BY <1>1 DEF Rules
  <2> QED
    BY ZenonT(40), <1>2, <1>5, <2>1, <2>2
<1> QED
  BY <1>3, <1>7, <1>8

LEMMA ClosedIsSound == Readable(0) /\ InCalendar(0) /\ Sound(NoRecurrence)
<1>1. FromFloating(0) = 0 /\ Local(0) = 0
  BY Sizes DEF ToFloating, OffsetAt, Local, FromFloating
<1>2. DayOf(0) = 0
  <2> DEFINE z == 0
  <2>1. z \in Nat /\ z \in 0..(DayLength - 1) /\ z * DayLength + z = 0
    BY Sizes
  <2>2. DayOf(z * DayLength + z) = z
    <3> HIDE DEF z
    <3> QED
      BY <2>1, OfDayAndTime
  <2> QED
    BY <2>1, <2>2
<1> QED
  BY <1>1, <1>2, ReadAgain, Sizes, NothingIsAConfig DEF Readable, InCalendar

LEMMA InvHoldsFirst == Init => SeriesInv
<1> SUFFICES ASSUME Init
             PROVE  SeriesInv
  OBVIOUS
<1>1. PICK w \in Starts, d \in Durations :
        LET start == FromFloating(w)
            end == FromFloating(w + d)
        IN /\ start < end
           /\ \/ \E c \in Configs :
                   stored \in {GenerateOccurrences(start, end, c), Legacy(start, end, c)}
              \/ \E o \in ApiRules : stored = FromApi(start, end, o)
           /\ stored.rows # {} /\ \A r \in stored.rows : r.start < r.end
  BY DEF Init
<1> DEFINE start == FromFloating(w)
           end == FromFloating(w + d)
<1>2. Readable(start) /\ InCalendar(start)
  BY StartsAre
<1>3. Readable(end)
  <2>1. w + d \in Nat
    BY StartsAre, SeriesAssumption
  <2> QED
    BY <2>1, ReadingOf, FirstOfTwo DEF Readable
<1>4. start < end /\ start \in Nat /\ end \in Nat
  BY <1>1, <1>2, <1>3 DEF Readable
<1> HIDE DEF start, end
<1>5. ASSUME NEW c, Sound(c), c.freq # "none", stored = GenerateOccurrences(start, end, c)
      PROVE  /\ stored \in [rule : Rules, rows : SUBSET [start : Nat, end : Nat]]
             /\ stored.rule.dtstart = ToFloating(start) /\ stored.rule.zoned
             /\ FollowsRule(stored.rule, stored.rows)
  <2>1. /\ stored.rule \in Rules /\ stored.rule.dtstart = ToFloating(start) /\ stored.rule.zoned
        /\ FollowsRule(stored.rule, stored.rows)
    BY <1>2, <1>3, <1>4, <1>5, GeneratedFollows
  <2>2. stored.rows \subseteq [start : Nat, end : Nat] /\ stored = [rule |-> stored.rule, rows |-> stored.rows]
    <3> DEFINE rule == Rule(PatternOptions(c, On(start)), c, start)
               length == ToFloating(end) - ToFloating(start)
               rows == {RowAt(x, length) : x \in OccurringOf(rule) \ rule.exdates}
    <3>1. stored = [rows |-> rows, rule |-> rule] /\ stored.rows \subseteq [start : Nat, end : Nat]
      BY <1>2, <1>4, <1>5, GenerateIs
    <3> HIDE DEF rule, rows
    <3> QED
      BY <3>1
  <2> QED
    BY <2>1, <2>2
<1> DEFINE Sane(old) ==
             /\ old \in [rule : Rules, rows : SUBSET [start : Nat, end : Nat]]
             /\ InCalendar(ToLocal(old.rule, old.rule.dtstart))
             /\ old.rule.zoned => FollowsRule(old.rule, old.rows)
<1>6. Sane(stored)
  <2>1. FromFloating(ToFloating(start)) = start
    BY <1>2 DEF Readable, Local
  <2>2. ASSUME NEW c \in Configs
        PROVE  Sound(c) /\ c.freq # "none" /\ c.exdates = {}
    BY SeriesAssumption DEF Sound
  <2>3. ASSUME NEW c \in Configs, stored = GenerateOccurrences(start, end, c)
        PROVE  Sane(stored)
    BY <1>2, <1>5, <2>1, <2>2, <2>3 DEF ToLocal
  <2>4. ASSUME NEW c \in Configs, stored = Legacy(start, end, c)
        PROVE  Sane(stored)
    BY <1>2, <1>3, <1>4, <2>2, <2>4, LegacyIs DEF ToLocal
  <2>5. ASSUME NEW o \in ApiRules, stored = FromApi(start, end, o)
        PROVE  Sane(stored)
    <3> DEFINE c == [NoRecurrence EXCEPT !.freq = "custom", !.custom = o, !.count = 3]
    <3>1. o \in RuleOptions /\ o # None
      BY SeriesAssumption
    <3>2. Sound(c) /\ c.freq # "none"
      BY <3>1, NothingIsAConfig DEF Sound, ConfigType
    <3>3. stored = GenerateOccurrences(start, end, c)
      BY <2>5 DEF FromApi
    <3> HIDE DEF c
    <3> QED
      BY <1>2, <1>5, <2>1, <3>2, <3>3 DEF ToLocal
  <2> QED
    BY <1>1, <2>3, <2>4, <2>5 DEF start, end
<1>7. \A r \in stored.rows : r.start < r.end
  BY <1>1
<1>8. Readable(0) /\ InCalendar(0)
  BY ClosedIsSound
<1>9. TypeOK
  <2>1. form \in [open : BOOLEAN, start : Nat, end : Nat, config : ConfigType]
    BY NothingIsAConfig DEF Init, Closed
  <2>2. edits \in 0..MaxEdits /\ saves \in 0..MaxSaves /\ touched = {} /\ detached = {}
    BY SeriesAssumption DEF Init
  <2> QED
    BY <1>6, <2>1, <2>2 DEF TypeOK
<1>10. StoredOK
  <2>1. stored.rule # None
    BY <1>6, NoneIsApart
  <2> QED
    BY <1>6, <1>7, <2>1 DEF StoredOK
<1>11. FormOK
  BY <1>8, NothingIsAConfig DEF Init, Closed, FormOK
<1>12. DetachedOK /\ FormKeeps
  BY DEF Init, Closed, DetachedOK, FormKeeps
<1> QED
  BY <1>9, <1>10, <1>11, <1>12 DEF SeriesInv

(* A change of the form leaves what is stored alone. *)
LEMMA FormStep ==
  ASSUME SeriesInv, form.open, UNCHANGED <<stored, detached>>, saves' = saves, edits' \in 0..MaxEdits,
         NEW field \in {"times", "pattern", "end", "exceptions"}, touched' = touched \cup {field},
         form' \in [open : BOOLEAN, start : Nat, end : Nat, config : ConfigType],
         Sound(form'.config), Readable(form'.start), Readable(form'.end), InCalendar(form'.start),
         field = "end" => /\ form'.start = form.start
                          /\ form'.config.freq = form.config.freq
                          /\ form'.config.exdates = form.config.exdates
  PROVE  SeriesInv'
<1>1. TypeOK'
  BY DEF SeriesInv, TypeOK
<1>2. StoredOK'
  BY DEF SeriesInv, StoredOK
<1>3. FormOK'
  BY DEF FormOK
<1>4. DetachedOK'
  BY DEF SeriesInv, DetachedOK
<1>5. FormKeeps'
  <2> SUFFICES ASSUME touched' \subseteq {"end"}, stored.rule # None, stored.rule.zoned
               PROVE  /\ form'.start = FromFloating(stored.rule.dtstart)
                      /\ form'.config.freq # "none"
                      /\ form'.config.exdates = {FromFloating(x) : x \in stored.rule.exdates}
    BY DEF FormKeeps
  <2>1. field = "end" /\ touched \subseteq {"end"}
    OBVIOUS
  <2> QED
    BY <2>1 DEF SeriesInv, FormKeeps
<1> QED
  BY <1>1, <1>2, <1>3, <1>4, <1>5 DEF SeriesInv

LEMMA ChangeKeeps ==
  ASSUME SeriesInv, NEW config, Sound(config), NEW field \in {"pattern", "end", "exceptions"},
         Change(config, field),
         field = "end" => config.freq = form.config.freq /\ config.exdates = form.config.exdates
  PROVE  SeriesInv'
<1>1. /\ form.open /\ edits < MaxEdits /\ edits' = edits + 1 /\ saves' = saves
      /\ form' = [form EXCEPT !.config = config] /\ touched' = touched \cup {field}
      /\ UNCHANGED <<stored, detached>>
  BY DEF Change
<1>2. form \in [open : BOOLEAN, start : Nat, end : Nat, config : ConfigType] /\ edits \in 0..MaxEdits
  BY DEF SeriesInv, TypeOK
<1>3. config \in ConfigType
  BY DEF Sound
<1>4. /\ form' \in [open : BOOLEAN, start : Nat, end : Nat, config : ConfigType]
      /\ form'.config = config /\ form'.start = form.start /\ form'.end = form.end
  BY <1>1, <1>2, <1>3
<1>5. edits' \in 0..MaxEdits
  BY <1>1, <1>2, SeriesAssumption
<1>6. Readable(form'.start) /\ Readable(form'.end) /\ InCalendar(form'.start) /\ Sound(form'.config)
  BY <1>4 DEF SeriesInv, FormOK
<1> QED
  BY <1>1, <1>4, <1>5, <1>6, FormStep

LEMMA RetimedKeeps ==
  ASSUME SeriesInv, NEW start, Readable(start), InCalendar(start), NEW end, Readable(end),
         Retimed(start, end)
  PROVE  SeriesInv'
<1>1. /\ form.open /\ edits < MaxEdits /\ edits' = edits + 1 /\ saves' = saves
      /\ form' = [form EXCEPT !.start = start, !.end = end] /\ touched' = touched \cup {"times"}
      /\ UNCHANGED <<stored, detached>>
  BY DEF Retimed
<1>2. form \in [open : BOOLEAN, start : Nat, end : Nat, config : ConfigType] /\ edits \in 0..MaxEdits
  BY DEF SeriesInv, TypeOK
<1>3. start \in Nat /\ end \in Nat
  BY DEF Readable
<1>4. /\ form' \in [open : BOOLEAN, start : Nat, end : Nat, config : ConfigType]
      /\ form'.config = form.config /\ form'.start = start /\ form'.end = end
  BY <1>1, <1>2, <1>3
<1>5. edits' \in 0..MaxEdits
  BY <1>1, <1>2, SeriesAssumption
<1>6. Sound(form'.config)
  BY <1>4 DEF SeriesInv, FormOK
<1> QED
  BY <1>1, <1>4, <1>5, <1>6, FormStep

(* The exceptions are dropped with the pattern. *)
LEMMA PatternKeeps ==
  ASSUME SeriesInv, NEW config, Sound(config), SetPattern(config)
  PROVE  SeriesInv'
<1>1. Sound([config EXCEPT !.exdates = {}])
  BY DEF Sound, ConfigType
<1> QED
  BY <1>1, ChangeKeeps DEF SetPattern

LEMMA SetFreqKeeps ==
  ASSUME SeriesInv, form.open, NEW freq \in {"none", "weekly", "monthly", "yearly"}, SetFreq(freq)
  PROVE  SeriesInv'
<1> DEFINE base == IF form.config.freq = "none" THEN WithDefaults(form.config, form.start)
                   ELSE form.config
           config == IF freq = "none" THEN NoRecurrence
                     ELSE [base EXCEPT !.freq = freq, !.exdates = {}]
<1>1. form.config \in ConfigType /\ InCalendar(form.start)
  BY DEF SeriesInv, FormOK, Sound
<1>2. base \in ConfigType
  BY <1>1, DefaultsAre
<1> HIDE DEF base
<1>3. Sound(config)
  <2>1. ASSUME freq # "none" PROVE Sound([base EXCEPT !.freq = freq, !.exdates = {}])
    BY <1>2, <2>1 DEF Sound, ConfigType
  <2> QED
    BY <2>1, NothingIsAConfig
<1>4. Change(config, "pattern")
  BY DEF SetFreq, base
<1> HIDE DEF config
<1> QED
  BY <1>3, <1>4, ChangeKeeps

LEMMA PatternFieldsKeep ==
  ASSUME SeriesInv, form.open,
         \/ \E day \in AllDays : ToggleWeekday(day)
         \/ \E days \in {AllDays, 1..5} : SetWeekdays(days)
         \/ SetMonthly \/ SetYearly
  PROVE  SeriesInv'
<1> DEFINE c == form.config
<1>1. Sound(c) /\ c \in ConfigType
  BY DEF SeriesInv, FormOK, Sound
<1> HIDE DEF c
<1>2. ASSUME NEW days \in SUBSET AllDays PROVE Sound([c EXCEPT !.weekdays = days])
  BY <1>1 DEF Sound, ConfigType
<1>3. ASSUME NEW mode \in {"day", "nthWeekday"} PROVE Sound([c EXCEPT !.monthlyMode = mode])
  BY <1>1 DEF Sound, ConfigType
<1>4. ASSUME NEW n \in {-1} \cup 1..31 PROVE Sound([c EXCEPT !.monthDay = n])
  BY <1>1 DEF Sound, ConfigType
<1>5. ASSUME NEW n \in {-1} \cup 1..4 PROVE Sound([c EXCEPT !.nth = n])
  BY <1>1 DEF Sound, ConfigType
<1>6. ASSUME NEW d \in AllDays PROVE Sound([c EXCEPT !.nthWeekday = d])
  BY <1>1 DEF Sound, ConfigType
<1>7. ASSUME NEW n \in 1..12 PROVE Sound([c EXCEPT !.yearMonth = n])
  BY <1>1 DEF Sound, ConfigType
<1>8. ASSUME NEW n \in 1..31 PROVE Sound([c EXCEPT !.yearDay = n])
  BY <1>1 DEF Sound, ConfigType
<1>9. ASSUME NEW day \in AllDays, ToggleWeekday(day)
      PROVE  SeriesInv'
  <2> DEFINE days == IF day \in c.weekdays THEN c.weekdays \ {day} ELSE c.weekdays \cup {day}
  <2>1. days \in SUBSET AllDays
    BY <1>1 DEF ConfigType
  <2>2. SetPattern([c EXCEPT !.weekdays = days])
    BY <1>9 DEF ToggleWeekday, c
  <2> HIDE DEF days
  <2> QED
    BY <1>2, <2>1, <2>2, PatternKeeps
<1>10. ASSUME NEW days \in {AllDays, 1..5}, SetWeekdays(days)
       PROVE  SeriesInv'
  <2>1. days \in SUBSET AllDays /\ SetPattern([c EXCEPT !.weekdays = days])
    BY <1>10 DEF SetWeekdays, AllDays, c
  <2> QED
    BY <1>2, <2>1, PatternKeeps
<1>11. ASSUME SetMonthly
       PROVE  SeriesInv'
  <2>1. ASSUME NEW mode \in {"day", "nthWeekday"}, SetPattern([c EXCEPT !.monthlyMode = mode])
        PROVE  SeriesInv'
    BY <1>3, <2>1, PatternKeeps
  <2>2. ASSUME NEW n \in {-1} \cup 28..31, SetPattern([c EXCEPT !.monthDay = n])
        PROVE  SeriesInv'
    <3>1. n \in {-1} \cup 1..31
      OBVIOUS
    <3> QED
      BY <1>4, <2>2, <3>1, PatternKeeps
  <2>3. ASSUME NEW n \in {-1, 1}, SetPattern([c EXCEPT !.nth = n])
        PROVE  SeriesInv'
    BY <1>5, <2>3, PatternKeeps
  <2>4. ASSUME NEW d \in {0, 1}, SetPattern([c EXCEPT !.nthWeekday = d])
        PROVE  SeriesInv'
    <3>1. d \in AllDays
      BY DEF AllDays
    <3> QED
      BY <1>6, <2>4, <3>1, PatternKeeps
  <2> QED
    BY <1>11, <2>1, <2>2, <2>3, <2>4 DEF SetMonthly, c
<1>12. ASSUME SetYearly
       PROVE  SeriesInv'
  <2>1. ASSUME NEW n \in {1, 2}, SetPattern([c EXCEPT !.yearMonth = n])
        PROVE  SeriesInv'
    BY <1>7, <2>1, PatternKeeps
  <2>2. ASSUME NEW n \in {1, 29, 31}, SetPattern([c EXCEPT !.yearDay = n])
        PROVE  SeriesInv'
    <3>1. n \in 1..31
      OBVIOUS
    <3> QED
      BY <1>8, <2>2, <3>1, PatternKeeps
  <2> QED
    BY <1>12, <2>1, <2>2 DEF SetYearly, c
<1> QED
  BY <1>9, <1>10, <1>11, <1>12

LEMMA SetEndKeeps ==
  ASSUME SeriesInv, form.open, SetEnd
  PROVE  SeriesInv'
<1> DEFINE c == form.config
<1>1. Sound(c) /\ c \in ConfigType
  BY DEF SeriesInv, FormOK, Sound
<1> HIDE DEF c
<1>2. ASSUME NEW n \in Nat, Change([c EXCEPT !.count = n], "end")
      PROVE  SeriesInv'
  <2> DEFINE new == [c EXCEPT !.count = n]
  <2>1. Sound(new) /\ new.freq = c.freq /\ new.exdates = c.exdates
    BY <1>1 DEF Sound, ConfigType
  <2> HIDE DEF new
  <2> QED
    BY <1>2, <2>1, ChangeKeeps DEF c, new
<1>3. ASSUME NEW u \in Nat \cup {None}, Change([c EXCEPT !.until = u], "end")
      PROVE  SeriesInv'
  <2> DEFINE new == [c EXCEPT !.until = u]
  <2>1. Sound(new) /\ new.freq = c.freq /\ new.exdates = c.exdates
    BY <1>1 DEF Sound, ConfigType
  <2> HIDE DEF new
  <2> QED
    BY <1>3, <2>1, ChangeKeeps DEF c, new
<1>4. ASSUME NEW w \in Starts PROVE FromFloating(DayOf(w) * DayLength) \in Nat
  <2>1. DayOf(w) \in Nat
    BY StartsAre, DayAndTime
  <2>2. DayOf(w) * DayLength \in Nat
    BY <2>1, Sizes
  <2> QED
    BY <2>2, ReadingOf
<1>5. ASSUME NEW n \in Counts PROVE Max({2, Min({500, n})}) \in Nat
  <2>1. Min({500, n}) \in Nat
    <3>1. n \in Nat /\ 500 \in Nat
      BY SeriesAssumption
    <3> QED
      BY <3>1, TwoAreCompared
  <2> QED
    BY <2>1, TwoAreCompared
<1>6. \/ \E n \in {0, 10} : Change([c EXCEPT !.count = n], "end")
      \/ \E w \in Starts : Change([c EXCEPT !.until = FromFloating(DayOf(w) * DayLength)], "end")
      \/ Change([c EXCEPT !.until = None], "end")
      \/ \E n \in Counts : Change([c EXCEPT !.count = Max({2, Min({500, n})})], "end")
  BY ZenonT(30) DEF SetEnd, c
<1>7. CASE \E n \in {0, 10} : Change([c EXCEPT !.count = n], "end")
  <2>1. \A n \in {0, 10} : n \in Nat
    OBVIOUS
  <2> QED
    BY <1>2, <1>7, <2>1
<1>8. CASE \E w \in Starts : Change([c EXCEPT !.until = FromFloating(DayOf(w) * DayLength)], "end")
  BY <1>3, <1>4, <1>8
<1>9. CASE Change([c EXCEPT !.until = None], "end")
  BY <1>3, <1>9
<1>10. CASE \E n \in Counts : Change([c EXCEPT !.count = Max({2, Min({500, n})})], "end")
  BY <1>2, <1>5, <1>10
<1> QED
  BY <1>6, <1>7, <1>8, <1>9, <1>10

(* The dates that the form lists *)
LEMMA CandidatesAre ==
  ASSUME FormOK
  PROVE  /\ Candidates \subseteq Nat
         /\ form.config.freq # "none" =>
              LET rule == Rule(PatternOptions(form.config, On(form.start)), form.config, form.start) IN
              Candidates = {FromFloating(w) : w \in OccurringOf(rule)}
<1> DEFINE o == PatternOptions(form.config, On(form.start))
           rule == Rule(o, form.config, form.start)
<1>1. /\ form.start \in Nat /\ InCalendar(form.start) /\ On(form.start) \in CalendarDays
      /\ Sound(form.config) /\ form.config \in ConfigType
  BY CalendarIs DEF FormOK, Readable, Sound, On, InCalendar
<1>2. CASE form.config.freq = "none"
  <2>1. o = None
    BY <1>2, PatternOptionsAre
  <2> QED
    BY <1>1, <1>2, <2>1 DEF Candidates, ListSeriesStarts
<1>3. CASE form.config.freq # "none"
  <2>1. o \in RuleOptions /\ o # None
    BY <1>1, <1>3, PatternIsARule, NoneIsApart DEF Sound
  <2> HIDE DEF o
  <2>2. OccurringOf(rule)
          = Recurrences(o, ToFloating(form.start), UntilOf(form.config, form.start), form.config.count)
    BY DEF OccurringOf, Rule
  <2>3. Candidates = {FromFloating(w) : w \in OccurringOf(rule)}
    BY <2>1, <2>2 DEF Candidates, ListSeriesStarts, o
  <2>4. ASSUME NEW w \in OccurringOf(rule) PROVE FromFloating(w) \in Nat
    <3>1. ToFloating(form.start) \in Nat
      BY <1>1, InstantOf
    <3>2. w \in Nat
      BY <2>2, <3>1, RecurrencesAre
    <3> QED
      BY <3>2, ReadingOf
  <2> HIDE DEF rule
  <2> QED
    BY <2>3, <2>4 DEF rule, o
<1> QED
  BY <1>2, <1>3

LEMMA ToggleKeeps ==
  ASSUME SeriesInv, form.open, NEW date \in Candidates, ToggleExdate(date)
  PROVE  SeriesInv'
<1> DEFINE c == form.config
           exdates == IF date \in c.exdates THEN c.exdates \ {date} ELSE c.exdates \cup {date}
<1>1. Sound(c) /\ c \in ConfigType
  BY DEF SeriesInv, FormOK, Sound
<1>2. date \in Nat
  BY CandidatesAre DEF SeriesInv
<1> HIDE DEF c
<1>3. exdates \in SUBSET Nat
  BY <1>1, <1>2 DEF ConfigType
<1> HIDE DEF exdates
<1>4. Sound([c EXCEPT !.exdates = exdates])
  BY <1>1, <1>3 DEF Sound, ConfigType
<1>5. Change([c EXCEPT !.exdates = exdates], "exceptions")
  BY DEF ToggleExdate, c, exdates
<1> QED
  BY <1>4, <1>5, ChangeKeeps

LEMMA TimesKeep ==
  ASSUME SeriesInv, form.open, NEW w \in Starts,
         ChangeStart(FromFloating(w)) \/ ChangeEnd(FromFloating(w))
  PROVE  SeriesInv'
<1> DEFINE input == FromFloating(w)
           duration == form.end - form.start
           end == IF duration > 0 /\ input >= form.end THEN Local(input + duration) ELSE form.end
<1>1. Readable(input) /\ InCalendar(input) /\ input \in Nat
  BY StartsAre
<1>2. Readable(form.start) /\ Readable(form.end) /\ InCalendar(form.start)
  BY DEF SeriesInv, FormOK
<1> HIDE DEF input
<1>3. Readable(end)
  <2>1. ASSUME duration > 0 PROVE input + duration \in Nat
    BY <1>1, <1>2, <2>1 DEF Readable
  <2> HIDE DEF duration
  <2> QED
    BY <1>2, <2>1, InstantOf DEF Readable
<1>4. CASE ChangeStart(input)
  <2>1. Retimed(input, end)
    BY <1>4 DEF ChangeStart
  <2> HIDE DEF end
  <2> QED
    BY <1>1, <1>3, <2>1, RetimedKeeps
<1>5. CASE ChangeEnd(input)
  BY <1>1, <1>2, <1>5, RetimedKeeps DEF ChangeEnd
<1> QED
  BY <1>4, <1>5 DEF input

LEMMA EditKeeps ==
  ASSUME SeriesInv, form.open, Edit
  PROVE  SeriesInv'
<1>1. CASE \E freq \in {"none", "weekly", "monthly", "yearly"} : SetFreq(freq)
  BY <1>1, SetFreqKeeps
<1>2. CASE \/ \E day \in AllDays : ToggleWeekday(day)
           \/ \E days \in {AllDays, 1..5} : SetWeekdays(days)
           \/ SetMonthly \/ SetYearly
  BY <1>2, PatternFieldsKeep
<1>3. CASE SetEnd
  BY <1>3, SetEndKeeps
<1>4. CASE \E date \in Candidates : ToggleExdate(date)
  BY <1>4, ToggleKeeps
<1>5. CASE \E w \in Starts : ChangeStart(FromFloating(w)) \/ ChangeEnd(FromFloating(w))
  BY <1>5, TimesKeep
<1> QED
  BY <1>1, <1>2, <1>3, <1>4, <1>5 DEF Edit

LEMMA OpenKeeps ==
  ASSUME SeriesInv, OpenEdit
  PROVE  SeriesInv'
<1>1. /\ ~form.open /\ stored.rows # {} /\ form' = FormOf(stored) /\ touched' = {}
      /\ UNCHANGED <<stored, detached, edits, saves>>
  BY DEF OpenEdit
<1>2. TypeOK /\ StoredOK /\ DetachedOK
  BY DEF SeriesInv
<1>3. /\ form' \in [open : BOOLEAN, start : Nat, end : Nat, config : ConfigType]
      /\ Sound(form'.config) /\ Readable(form'.start) /\ Readable(form'.end) /\ InCalendar(form'.start)
      /\ form'.config = ParseRRule(stored.rule)
      /\ stored.rule # None => /\ form'.config.freq # "none"
                               /\ form'.start = Local(ToLocal(stored.rule, stored.rule.dtstart))
  BY <1>1, <1>2, OpenedForm
<1>4. TypeOK'
  BY <1>1, <1>2, <1>3 DEF TypeOK
<1>5. StoredOK' /\ DetachedOK'
  BY <1>1, <1>2 DEF StoredOK, DetachedOK
<1>6. FormOK'
  BY <1>3 DEF FormOK
<1>7. FormKeeps'
  <2> SUFFICES ASSUME stored.rule # None, stored.rule.zoned
               PROVE  /\ form'.start = FromFloating(stored.rule.dtstart)
                      /\ form'.config.freq # "none"
                      /\ form'.config.exdates = {FromFloating(x) : x \in stored.rule.exdates}
    BY <1>1 DEF FormKeeps
  <2>1. stored.rule \in Rules /\ InCalendar(ToLocal(stored.rule, stored.rule.dtstart))
    BY <1>2 DEF TypeOK, StoredOK
  <2>2. form'.start = FromFloating(stored.rule.dtstart)
    <3>1. stored.rule.dtstart \in Int
      BY <2>1 DEF Rules
    <3> QED
      BY <1>3, <3>1, FirstOfTwo DEF ToLocal
  <2>3. form'.config.exdates = {ToLocal(stored.rule, x) : x \in stored.rule.exdates}
    BY <1>3, <2>1, ParsedRule
  <2> QED
    BY <1>3, <2>2, <2>3 DEF ToLocal
<1> QED
  BY <1>4, <1>5, <1>6, <1>7 DEF SeriesInv

LEMMA SaveKeeps ==
  ASSUME SeriesInv, Save
  PROVE  SeriesInv'
<1> DEFINE c == form.config
           keeps == touched \subseteq {"end"}
<1>1. /\ form.open /\ saves < MaxSaves /\ form.start < form.end
      /\ \A r \in stored'.rows : r.start < r.end
      /\ stored' = GenerateOccurrences(form.start, form.end, c)
      /\ form' = Closed /\ saves' = saves + 1 /\ UNCHANGED <<touched, edits>>
      /\ detached' = IF keeps THEN detached ELSE {}
  BY DEF Save, Generated
<1>2. /\ Sound(c) /\ Readable(form.start) /\ Readable(form.end) /\ InCalendar(form.start)
      /\ form.start \in Nat /\ form.end \in Nat
  BY DEF SeriesInv, FormOK, Readable
<1> HIDE DEF c
<1>3. ASSUME c.freq # "none"
      PROVE  /\ stored' \in [rule : Rules, rows : SUBSET [start : Nat, end : Nat]]
             /\ stored'.rule # None /\ stored'.rule.zoned
             /\ stored'.rule.dtstart = ToFloating(form.start)
             /\ stored'.rule.exdates = {ToFloating(x) : x \in c.exdates}
             /\ FollowsRule(stored'.rule, stored'.rows)
  <2>1. /\ stored'.rule \in Rules /\ stored'.rule # None /\ stored'.rule.zoned
        /\ stored'.rule.dtstart = ToFloating(form.start)
        /\ stored'.rule.exdates = {ToFloating(x) : x \in c.exdates}
        /\ FollowsRule(stored'.rule, stored'.rows)
    BY <1>1, <1>2, <1>3, GeneratedFollows
  <2>2. stored'.rows \subseteq [start : Nat, end : Nat]
        /\ stored' = [rule |-> stored'.rule, rows |-> stored'.rows]
    <3> DEFINE rule == Rule(PatternOptions(c, On(form.start)), c, form.start)
               length == ToFloating(form.end) - ToFloating(form.start)
               rows == {RowAt(x, length) : x \in OccurringOf(rule) \ rule.exdates}
    <3>1. stored' = [rows |-> rows, rule |-> rule] /\ stored'.rows \subseteq [start : Nat, end : Nat]
      BY <1>1, <1>2, <1>3, GenerateIs
    <3> HIDE DEF rule, rows
    <3> QED
      BY <3>1
  <2> QED
    BY <2>1, <2>2
<1>4. ASSUME c.freq = "none"
      PROVE  stored' = [rows |-> {Row(form.start, form.end)}, rule |-> None]
  BY <1>1, <1>2, <1>4, GenerateIs
<1>5. TypeOK'
  <2>1. stored' \in [rule : Rules \cup {None}, rows : SUBSET [start : Nat, end : Nat]]
    <3>1. CASE c.freq # "none"
      BY <1>3, <3>1
    <3>2. CASE c.freq = "none"
      BY <1>2, <1>4, <3>2 DEF Row
    <3> QED
      BY <3>1, <3>2
  <2>2. form' \in [open : BOOLEAN, start : Nat, end : Nat, config : ConfigType]
    BY <1>1, NothingIsAConfig DEF Closed
  <2>3. saves' \in 0..MaxSaves
    BY <1>1, SeriesAssumption DEF SeriesInv, TypeOK
  <2>4. /\ edits' \in 0..MaxEdits /\ touched' \subseteq {"times", "pattern", "end", "exceptions"}
        /\ detached' \subseteq 0..LastDay
    BY <1>1 DEF SeriesInv, TypeOK
  <2> QED
    BY <2>1, <2>2, <2>3, <2>4 DEF TypeOK
<1>6. StoredOK'
  <2>1. CASE c.freq # "none"
    <3>1. ToLocal(stored'.rule, stored'.rule.dtstart) = form.start
      BY <1>2, <1>3, <2>1 DEF ToLocal, Readable, Local
    <3> QED
      BY <1>1, <1>2, <1>3, <2>1, <3>1 DEF StoredOK
  <2>2. CASE c.freq = "none"
    BY <1>1, <1>2, <1>4, <2>2 DEF StoredOK
  <2> QED
    BY <2>1, <2>2
<1>7. FormOK'
  BY <1>1, ClosedIsSound DEF FormOK, Closed
<1>8. DetachedOK'
  <2> SUFFICES ASSUME keeps, NEW d \in detached
               PROVE  /\ stored'.rule # None /\ stored'.rule.zoned
                      /\ LET w == d * DayLength + TimeOf(stored'.rule.dtstart)
                         IN  Skipped(w) \/ w \in stored'.rule.exdates
    BY <1>1 DEF DetachedOK
  <2> DEFINE old == stored.rule
             new == stored'.rule
  <2>1. /\ old # None /\ old.zoned
        /\ LET w == d * DayLength + TimeOf(old.dtstart) IN Skipped(w) \/ w \in old.exdates
    BY DEF SeriesInv, DetachedOK
  <2>2. form.start = FromFloating(old.dtstart) /\ c.freq # "none"
        /\ c.exdates = {FromFloating(x) : x \in old.exdates}
    BY <1>1, <2>1 DEF SeriesInv, FormKeeps, c
  <2>3. old \in Rules /\ FollowsRule(old, stored.rows)
    BY <2>1 DEF SeriesInv, TypeOK, StoredOK
  <2>4. /\ new # None /\ new.zoned /\ new.dtstart = ToFloating(form.start)
        /\ new.exdates = {ToFloating(x) : x \in c.exdates}
    BY <1>3, <2>2
  <2> HIDE DEF old, new
  <2>5. new.dtstart = old.dtstart
    <3>1. old.dtstart \in Int /\ ~Skipped(old.dtstart)
      BY <2>3 DEF Rules, FollowsRule
    <3> QED
      BY <2>2, <2>4, <3>1, ReadingOf
  <2>6. old.exdates \subseteq new.exdates
    <3> SUFFICES ASSUME NEW x \in old.exdates
                 PROVE  x \in new.exdates
      OBVIOUS
    <3>1. x \in Int /\ ~Skipped(x)
      BY <2>3 DEF Rules, FollowsRule
    <3>2. ToFloating(FromFloating(x)) = x
      BY <3>1, ReadingOf
    <3> QED
      BY <2>2, <2>4, <3>2
  <2> QED
    BY <2>1, <2>4, <2>5, <2>6 DEF new
<1>9. FormKeeps'
  BY <1>1 DEF FormKeeps, Closed
<1> QED
  BY <1>5, <1>6, <1>7, <1>8, <1>9 DEF SeriesInv

LEMMA DetachKeeps ==
  ASSUME SeriesInv, NEW r \in stored.rows, Detach(r)
  PROVE  SeriesInv'
<1> DEFINE old == stored.rule
           new == AddExdate(old, r.start)
           day == DayOf(ToFloating(r.start))
<1>1. /\ ~form.open /\ saves < MaxSaves /\ old # None
      /\ stored' = [rows |-> stored.rows \ {r}, rule |-> new]
      /\ detached' = IF old.zoned THEN detached \cup {day} ELSE detached
      /\ saves' = saves + 1 /\ UNCHANGED <<form, touched, edits>>
  BY DEF Detach
<1>2. /\ TypeOK /\ StoredOK /\ FormOK /\ DetachedOK
      /\ stored.rows \subseteq [start : Nat, end : Nat] /\ r.start \in Nat
  BY DEF SeriesInv, TypeOK
<1>3. old \in Rules /\ InCalendar(ToLocal(old, old.dtstart)) /\ (old.zoned => FollowsRule(old, stored.rows))
  BY <1>1, <1>2 DEF TypeOK, StoredOK
<1> HIDE DEF old
<1>4. /\ new \in Rules /\ new.zoned = old.zoned /\ new.dtstart = old.dtstart
      /\ new # None
  BY <1>2, <1>3, LegacyDetached, NoneIsApart
<1>5. old.zoned => /\ FollowsRule(new, stored.rows \ {r})
                   /\ new.exdates = old.exdates \cup {ToFloating(r.start)}
  <2>1. ASSUME old.zoned PROVE new.exdates = old.exdates \cup {ToFloating(r.start)}
    BY <1>3, <2>1 DEF AddExdate, Rules
  <2> QED
    BY <1>2, <1>3, <2>1, DetachedFollows
<1>6. ASSUME old.zoned
      PROVE  /\ day \in 0..LastDay
             /\ LET w == day * DayLength + TimeOf(old.dtstart)
                IN  Skipped(w) \/ w = ToFloating(r.start)
  <2>1. PICK w \in OccurringOf(old) : r.start = FromFloating(w)
    BY <1>3, <1>6 DEF FollowsRule
  <2>2. /\ w \in Nat /\ DayOf(w) \in 0..LastDay
        /\ w = DayOf(w) * DayLength + TimeOf(old.dtstart)
    BY <1>3, RecurrencesAre DEF OccurringOf, Rules
  <2>3. day = DayOf(w) /\ (~Skipped(w) => ToFloating(r.start) = w)
    BY <2>1, <2>2, ReadAgain, ReadingOf
  <2> QED
    BY <2>2, <2>3
<1> HIDE DEF new, day
<1>7. TypeOK'
  <2>1. stored' \in [rule : Rules \cup {None}, rows : SUBSET [start : Nat, end : Nat]]
    BY <1>1, <1>2, <1>4
  <2>2. saves' \in 0..MaxSaves
    BY <1>1, <1>2, SeriesAssumption DEF TypeOK
  <2>3. detached' \subseteq 0..LastDay
    BY <1>1, <1>2, <1>6 DEF TypeOK
  <2> QED
    BY <1>1, <1>2, <2>1, <2>2, <2>3 DEF TypeOK
<1>8. StoredOK'
  <2>1. ToLocal(new, new.dtstart) = ToLocal(old, old.dtstart)
    BY <1>4 DEF ToLocal
  <2>2. \A x \in stored'.rows : x.start < x.end
    BY <1>1, <1>2 DEF StoredOK
  <2>3. stored'.rule = new /\ stored'.rows = stored.rows \ {r}
    BY <1>1
  <2> QED
    BY <1>3, <1>4, <1>5, <2>1, <2>2, <2>3 DEF StoredOK
<1>9. FormOK'
  BY <1>1, <1>2 DEF FormOK
<1>10. DetachedOK'
  <2> SUFFICES ASSUME NEW d \in detached'
               PROVE  /\ new # None /\ new.zoned
                      /\ LET w == d * DayLength + TimeOf(new.dtstart)
                         IN  Skipped(w) \/ w \in new.exdates
    BY <1>1 DEF DetachedOK
  <2>1. CASE d \in detached
    <3>1. /\ old.zoned
          /\ LET w == d * DayLength + TimeOf(old.dtstart) IN Skipped(w) \/ w \in old.exdates
      BY <1>2, <2>1 DEF DetachedOK, old
    <3> QED
      BY <1>4, <1>5, <3>1
  <2>2. CASE d \notin detached
    <3>1. old.zoned /\ d = day
      BY <1>1, <2>2
    <3> QED
      BY <1>4, <1>5, <1>6, <3>1
  <2> QED
    BY <2>1, <2>2
<1>11. FormKeeps'
  BY <1>1 DEF FormKeeps
<1> QED
  BY <1>7, <1>8, <1>9, <1>10, <1>11 DEF SeriesInv

LEMMA StepKeepsInv == SeriesInv /\ [Next]_vars => SeriesInv'
<1> SUFFICES ASSUME SeriesInv, [Next]_vars
             PROVE  SeriesInv'
  OBVIOUS
<1>1. CASE OpenEdit
  BY <1>1, OpenKeeps
<1>2. CASE form.open /\ Edit
  BY <1>2, EditKeeps
<1>3. CASE Save
  BY <1>3, SaveKeeps
<1>4. CASE \E r \in stored.rows : Detach(r)
  BY <1>4, DetachKeeps
<1>5. CASE UNCHANGED vars
  BY <1>5 DEF vars, SeriesInv, TypeOK, StoredOK, FormOK, DetachedOK, FormKeeps
<1> QED
  BY <1>1, <1>2, <1>3, <1>4, <1>5 DEF Next

(* What the form opens with, changes and saves, and what a detachment leaves, is *)
(* a series whose rows are those of its rule: RecurrenceFields, series.ts.       *)
THEOREM SeriesInvariance == Spec => []SeriesInv
<1>1. Init => SeriesInv
  BY InvHoldsFirst
<1>2. SeriesInv /\ [Next]_vars => SeriesInv'
  BY StepKeepsInv
<1> QED
  BY <1>1, <1>2, PTL DEF Spec

-----------------------------------------------------------------------------
(* The properties *)

(* The rows that the form would send, seen as those of its rule *)
LEMMA GeneratedAre ==
  ASSUME FormOK, form.start < form.end, form.config.freq # "none",
         NEW rule, rule = Rule(PatternOptions(form.config, On(form.start)), form.config, form.start),
         NEW length, length = ToFloating(form.end) - ToFloating(form.start)
  PROVE  /\ Generated.rows = {RowAt(w, length) : w \in OccurringOf(rule) \ rule.exdates}
         /\ Generated.rule = rule
         /\ Candidates = {FromFloating(w) : w \in OccurringOf(rule)}
         /\ rule.exdates = {ToFloating(x) : x \in form.config.exdates}
         /\ rule.dtstart = ToFloating(form.start)
         /\ ToFloating(form.start) \in Nat /\ ToFloating(form.end) \in Nat
         /\ \A w \in OccurringOf(rule) :
              /\ w \in Nat /\ TimeOf(w) = TimeOf(ToFloating(form.start))
              /\ w = DayOf(w) * DayLength + TimeOf(ToFloating(form.start))
<1>1. /\ form.start \in Nat /\ form.end \in Nat /\ InCalendar(form.start) /\ Sound(form.config)
  BY DEF FormOK, Readable
<1>2. ToFloating(form.start) \in Nat /\ ToFloating(form.end) \in Nat
  BY <1>1, InstantOf
<1>3. /\ Generated.rows = {RowAt(w, length) : w \in OccurringOf(rule) \ rule.exdates}
      /\ Generated.rule = rule
  <2> DEFINE gen == Generated
  <2>1. gen = GenerateOccurrences(form.start, form.end, form.config)
    BY DEF Generated
  <2> HIDE DEF gen
  <2>2. gen = [rows |-> {RowAt(w, length) : w \in OccurringOf(rule) \ rule.exdates}, rule |-> rule]
    BY <1>1, <2>1, GenerateIs
  <2> QED
    BY <2>2 DEF gen
<1>4. rule.exdates = {ToFloating(x) : x \in form.config.exdates} /\ rule.dtstart = ToFloating(form.start)
  BY DEF Rule
<1>5. Candidates = {FromFloating(w) : w \in OccurringOf(rule)}
  BY CandidatesAre
<1>6. \A w \in OccurringOf(rule) :
        /\ w \in Nat /\ TimeOf(w) = TimeOf(ToFloating(form.start))
        /\ w = DayOf(w) * DayLength + TimeOf(ToFloating(form.start))
  BY <1>2, <1>4, RecurrencesAre DEF OccurringOf
<1> QED
  BY <1>2, <1>3, <1>4, <1>5, <1>6

LEMMA TickedInState == SeriesInv => TickedIsSaved
<1> SUFFICES ASSUME SeriesInv, form.start < form.end, form.config.freq # "none",
                    ~ \E x \in Candidates : TimeOf(ToFloating(x)) # TimeOf(ToFloating(form.start)),
                    ~ \E x \in form.config.exdates : Local(x) # x
             PROVE  {r.start : r \in Generated.rows} = Candidates \ form.config.exdates
  BY DEF TickedIsSaved
<1> DEFINE rule == Rule(PatternOptions(form.config, On(form.start)), form.config, form.start)
           length == ToFloating(form.end) - ToFloating(form.start)
           Occ == OccurringOf(rule)
           X == form.config.exdates
<1>1. /\ Generated.rows = {RowAt(w, length) : w \in Occ \ rule.exdates}
      /\ Candidates = {FromFloating(w) : w \in Occ}
      /\ rule.exdates = {ToFloating(x) : x \in X}
      /\ \A w \in Occ : w \in Nat /\ TimeOf(w) = TimeOf(ToFloating(form.start))
  BY GeneratedAre DEF SeriesInv
<1> HIDE DEF length, Occ, rule
<1>2. ASSUME NEW w \in Occ
      PROVE  ToFloating(FromFloating(w)) = w
  <2>1. w \in Nat /\ TimeOf(w) = TimeOf(ToFloating(form.start)) /\ FromFloating(w) \in Candidates
    BY <1>1
  <2>2. TimeOf(ToFloating(FromFloating(w))) = TimeOf(w)
    BY <2>1
  <2> QED
    BY <2>1, <2>2, ReadAgain, ReadingOf
<1>3. ASSUME NEW w \in Occ
      PROVE  w \in rule.exdates <=> FromFloating(w) \in X
  <2>1. \A x \in X : FromFloating(ToFloating(x)) = x
    BY DEF Local
  <2> QED
    BY <1>1, <1>2, <2>1
<1>4. \A w \in Occ : RowAt(w, length).start = FromFloating(w)
  BY DEF RowAt, Row
<1>5. {r.start : r \in Generated.rows} = {FromFloating(w) : w \in Occ \ rule.exdates}
  <2> DEFINE row(w) == RowAt(w, length)
  <2>1. \A w \in Occ : row(w).start = FromFloating(w)
    BY <1>4
  <2>2. Generated.rows = {row(w) : w \in Occ \ rule.exdates}
    BY <1>1
  <2> HIDE DEF row
  <2> QED
    BY <2>1, <2>2
<1> QED
  BY <1>1, <1>3, <1>5

LEMMA AtIsInt ==
  ASSUME NEW i \in Int, NEW j \in Int
  PROVE  DayOf(i) * DayLength + TimeOf(j) \in Int
<1>1. DayOf(i) \in Int /\ TimeOf(j) \in Int
  BY Sizes DEF DayOf, TimeOf
<1> QED
  BY <1>1, Sizes

LEMMA ClockInState == SeriesInv => SameWallClock
<1> DEFINE times(start, end) == <<TimeOf(ToFloating(start)), ToFloating(end) - ToFloating(start)>>
           at(r) == DayOf(ToFloating(r.start)) * DayLength + TimeOf(ToFloating(form.start))
           skips(r) == Skipped(at(r)) \/ Skipped(at(r) + ToFloating(form.end) - ToFloating(form.start))
<1> SUFFICES ASSUME SeriesInv, NEW r \in Generated.rows, ~skips(r)
             PROVE  times(r.start, r.end) = times(form.start, form.end)
  BY DEF SameWallClock
<1>1. /\ FormOK /\ form.start \in Nat /\ form.end \in Nat /\ InCalendar(form.start) /\ Sound(form.config)
  BY DEF SeriesInv, FormOK, Readable
<1>2. form.start < form.end
  <2>1. ASSUME form.end <= form.start PROVE Generated.rows = {}
    <3>1. Generated = [rows |-> {}, rule |-> None]
      BY <1>1, <2>1, GenerateIs DEF Generated
    <3> QED
      BY <3>1
  <2> QED
    BY <1>1, <2>1
<1>3. CASE form.config.freq = "none"
  <2>1. Generated = [rows |-> {Row(form.start, form.end)}, rule |-> None]
    BY <1>1, <1>2, <1>3, GenerateIs DEF Generated
  <2>2. r = Row(form.start, form.end)
    BY <2>1
  <2>3. r.start = form.start /\ r.end = form.end
    BY <2>2 DEF Row
  <2> QED
    BY <2>3
<1>4. CASE form.config.freq # "none"
  <2> DEFINE rule == Rule(PatternOptions(form.config, On(form.start)), form.config, form.start)
             begin == ToFloating(form.start)
             length == ToFloating(form.end) - begin
             Occ == OccurringOf(rule)
  <2>1. /\ Generated.rows = {RowAt(w, length) : w \in Occ \ rule.exdates}
        /\ begin \in Nat /\ ToFloating(form.end) \in Nat
        /\ \A w \in Occ : /\ w \in Nat /\ TimeOf(w) = TimeOf(begin)
                          /\ w = DayOf(w) * DayLength + TimeOf(begin)
    BY <1>1, <1>2, <1>4, GeneratedAre
  <2>2. length \in Int /\ begin + length = ToFloating(form.end)
    BY <2>1
  <2>3. ~Skipped(at(r)) /\ ~Skipped(at(r) + length)
    <3>1. at(r) \in Int
      <4>1. r.start \in Int
        <5>1. PICK w \in Occ : r = RowAt(w, length)
          BY <2>1
        <5>2. w \in Int /\ r.start = FromFloating(w)
          BY <2>1, <5>1 DEF RowAt, Row
        <5> QED
          BY <5>2, ReadingOf
      <4>2. ToFloating(r.start) \in Int /\ ToFloating(form.start) \in Int
        BY <2>1, <4>1, InstantOf
      <4> QED
        BY <4>2, AtIsInt
    <3>2. at(r) + length = at(r) + ToFloating(form.end) - ToFloating(form.start)
      <4> HIDE DEF at
      <4> QED
        BY <2>1, <3>1
    <3> QED
      BY <3>2
  <2> HIDE DEF Occ, rule, length, begin
  <2>4. PICK w \in Occ : r = RowAt(w, length)
    BY <2>1
  <2>5. r.start = FromFloating(w) /\ r.end = FromFloating(w + length)
    BY <2>4 DEF RowAt, Row
  <2>6. at(r) = w
    BY <2>1, <2>4, <2>5, ReadAgain DEF begin
  <2>7. ToFloating(r.start) = w /\ ToFloating(r.end) = w + length
    <3>1. w \in Int /\ w + length \in Int /\ ~Skipped(w) /\ ~Skipped(w + length)
      BY <2>1, <2>2, <2>3, <2>4, <2>6
    <3> QED
      BY <2>5, <3>1, ReadingOf
  <2>8. TimeOf(w) = TimeOf(begin) /\ (w + length) - w = length
    BY <2>1, <2>2, <2>4
  <2> QED
    BY <2>7, <2>8 DEF begin, length
<1> QED
  BY <1>3, <1>4

LEMMA DetachedInStep ==
  ASSUME SeriesInv, Save, touched \subseteq {"end"}, NEW r \in stored'.rows,
         DayOf(ToFloating(r.start)) \in detached
  PROVE  TimeOf(ToFloating(r.start)) # TimeOf(ToFloating(form.start))
<1> SUFFICES ASSUME TimeOf(ToFloating(r.start)) = TimeOf(ToFloating(form.start))
             PROVE  FALSE
  OBVIOUS
<1> DEFINE d == DayOf(ToFloating(r.start))
           rule == Rule(PatternOptions(form.config, On(form.start)), form.config, form.start)
           length == ToFloating(form.end) - ToFloating(form.start)
<1>1. /\ form.open /\ form.start < form.end /\ stored' = Generated
      /\ detached' = detached
  BY DEF Save
<1>2. /\ stored'.rule # None
      /\ LET w == d * DayLength + TimeOf(stored'.rule.dtstart) IN Skipped(w) \/ w \in stored'.rule.exdates
  <2>1. DetachedOK'
    BY SaveKeeps DEF SeriesInv
  <2>2. d \in detached'
    BY <1>1
  <2> HIDE DEF d
  <2> QED
    BY <2>1, <2>2 DEF DetachedOK
<1>3. FormOK /\ form.config.freq # "none"
  <2>1. FormOK
    BY DEF SeriesInv
  <2>2. stored.rule # None /\ stored.rule.zoned
    BY DEF SeriesInv, DetachedOK
  <2> QED
    BY <1>1, <2>1, <2>2 DEF SeriesInv, FormKeeps
<1>4. /\ stored'.rows = {RowAt(w, length) : w \in OccurringOf(rule) \ rule.exdates}
      /\ stored'.rule = rule /\ rule.dtstart = ToFloating(form.start)
      /\ \A w \in OccurringOf(rule) :
           /\ w \in Nat /\ TimeOf(w) = TimeOf(ToFloating(form.start))
           /\ w = DayOf(w) * DayLength + TimeOf(ToFloating(form.start))
  BY <1>1, <1>3, GeneratedAre
<1> HIDE DEF rule, length
<1>5. PICK w \in OccurringOf(rule) : w \notin rule.exdates /\ r = RowAt(w, length)
  BY <1>4
<1>6. r.start = FromFloating(w) /\ w \in Nat
  BY <1>4, <1>5 DEF RowAt, Row
<1>7. d = DayOf(w) /\ ~Skipped(w)
  BY <1>4, <1>5, <1>6, ReadAgain
<1> HIDE DEF d
<1> QED
  BY <1>2, <1>4, <1>5, <1>7

(* A row that the clock change leaves alone has its rule's length. *)
LEMMA LengthOfRow ==
  ASSUME NEW w \in Nat, ~Skipped(w), NEW length \in Nat \ {0}, NEW row, row = RowAt(w, length),
         ~ClockChanges(row)
  PROVE  row.end - row.start = length
<1>1. row.start = FromFloating(w) /\ row.end = FromFloating(w + length)
  BY DEF RowAt, Row
<1>2. ToFloating(row.start) = w
  BY <1>1, ReadingOf
<1>3. OffsetAt(row.start) = OffsetAt(row.end)
  BY DEF ClockChanges
<1>4. w + length \in Int /\ row.start \in Int /\ row.end \in Int
  BY <1>1, ReadingOf
<1>5. CASE ~Skipped(w + length)
  <2>1. ToFloating(row.end) = w + length
    BY <1>1, <1>4, <1>5, ReadingOf
  <2> QED
    BY <1>2, <1>3, <1>4, <2>1, Sizes DEF ToFloating, OffsetAt
<1>6. CASE Skipped(w + length)
  BY <1>1, <1>3, <1>4, <1>6, Sizes DEF OffsetAt, FromFloating, Skipped
<1> QED
  BY <1>5, <1>6

(* The times of the form that opens on a rule's rows *)
LEMMA OpenedTimes ==
  ASSUME NEW D \in Nat, ~Skipped(D), NEW length \in Nat \ {0}, NEW begin, begin = FromFloating(D),
         ~ClockChanges(Row(begin, begin + length))
  PROVE  /\ Local(begin) = begin /\ begin < Local(begin + length)
         /\ ToFloating(Local(begin + length)) - ToFloating(begin) = length
<1>1. begin \in Nat /\ begin + length \in Nat /\ ToFloating(begin) = D /\ Local(begin) = begin
  BY ReadingOf, FirstOfTwo
<1>2. OffsetAt(begin) = OffsetAt(begin + length)
  BY DEF ClockChanges, Row
<1>3. ToFloating(begin + length) = D + length
  BY <1>1, <1>2, Sizes DEF ToFloating, OffsetAt
<1>4. ~Skipped(D + length) /\ ToFloating(Local(begin + length)) = D + length
  BY <1>1, <1>3, InstantOf
<1>5. Local(begin + length) = FromFloating(D + length)
  BY <1>3 DEF Local
<1>6. begin < Local(begin + length)
  BY <1>4, <1>5, LaterReadings
<1> QED
  BY <1>1, <1>4, <1>6

(* What a form that opens on a rule writes: the same days, end and exceptions *)
LEMMA RuleComesBack ==
  ASSUME NEW rule \in Rules, rule.zoned, ~ReadAsAnother(rule.options),
         NEW rows, FollowsRule(rule, rows),
         NEW begin, begin = FromFloating(rule.dtstart), InCalendar(begin),
         NEW config, config = ParseRRule(rule),
         NEW new, new = Rule(PatternOptions(config, On(begin)), config, begin)
  PROVE  /\ Sound(config) /\ config.freq # "none"
         /\ OccurringOf(new) = OccurringOf(rule) /\ new.exdates = rule.exdates
<1>1. /\ rule.dtstart \in Nat /\ rule.options \in RuleOptions /\ rule.until \in Nat \cup {None}
      /\ rule.count \in Nat /\ rule.exdates \subseteq Nat
  BY DEF Rules
<1>2. /\ ~Skipped(rule.dtstart) /\ DayOf(rule.dtstart) \in 0..LastDay /\ \A x \in rule.exdates : ~Skipped(x)
      /\ rule.count # 0 => rule.until = None
      /\ rule.count = 0 => rule.until # None /\ EndOfDay(FromFloating(rule.until)) = rule.until
  BY DEF FollowsRule
<1>3. begin = ToLocal(rule, rule.dtstart) /\ begin \in Nat /\ ToFloating(begin) = rule.dtstart
      /\ On(begin) = Calendar[DayOf(rule.dtstart)]
  BY <1>1, <1>2, ReadingOf DEF ToLocal, On
<1>4. /\ Sound(config) /\ config.freq # "none"
      /\ config.until = IF rule.until = None THEN None ELSE FromFloating(rule.until)
      /\ config.count = rule.count
      /\ config.exdates = {ToLocal(rule, x) : x \in rule.exdates}
      /\ SamePattern(rule.options, PatternOptions(config, On(begin)), On(begin))
  BY <1>3, ParsedRule
<1> DEFINE o == PatternOptions(config, On(begin))
<1>5. /\ new.options = o /\ new.until = UntilOf(config, begin) /\ new.count = config.count
      /\ new.dtstart = ToFloating(begin) /\ new.exdates = {ToFloating(x) : x \in config.exdates}
  BY DEF Rule
<1> HIDE DEF o
<1>6. new.until = rule.until
  <2>1. CASE rule.count # 0
    BY <1>2, <1>4, <1>5, <2>1 DEF UntilOf
  <2>2. CASE rule.count = 0
    <3>1. rule.until \in Nat /\ FromFloating(rule.until) \in Nat /\ FromFloating(rule.until) # None
      BY <1>1, <1>2, <2>2, ReadingOf, NoneIsApart
    <3>2. config.until = FromFloating(rule.until) /\ config.count = 0
      BY <1>2, <1>4, <2>2
    <3>3. UntilOf(config, begin) = EndOfDay(config.until)
      BY <3>1, <3>2 DEF UntilOf
    <3> QED
      BY <1>2, <1>5, <2>2, <3>2, <3>3
  <2> QED
    BY <2>1, <2>2
<1>7. new.exdates = rule.exdates
  <2>1. \A x \in rule.exdates : ToFloating(ToLocal(rule, x)) = x
    BY <1>1, <1>2, ReadingOf DEF ToLocal
  <2> QED
    BY <1>4, <1>5, <2>1
<1>8. OccurringOf(new) = OccurringOf(rule)
  <2>1. SamePattern(rule.options, o, Calendar[DayOf(rule.dtstart)])
    BY <1>3, <1>4 DEF o
  <2>2. Recurrences(o, rule.dtstart, rule.until, rule.count)
          = Recurrences(rule.options, rule.dtstart, rule.until, rule.count)
    BY <1>1, <1>2, <2>1, SameRecurrences
  <2> QED
    BY <1>3, <1>4, <1>5, <1>6, <2>2 DEF OccurringOf
<1> QED
  BY <1>4, <1>7, <1>8

LEMMA OpensInState == SeriesInv => OpenedAsSaved
<1> DEFINE f == FormOf(stored)
           first == SeriesFirstTimes(stored.rule, stored.rows)
           row == FirstRow(stored.rows)
           rule == stored.rule
<1> SUFFICES ASSUME SeriesInv, stored.rows # {}, Undisturbed(stored.rows \cup {first}),
                    rule # None => Followed(rule)
             PROVE  GenerateOccurrences(f.start, f.end, f.config).rows = stored.rows
  BY DEF OpenedAsSaved
<1>1. /\ TypeOK /\ StoredOK /\ stored.rows \in SUBSET [start : Nat, end : Nat]
  BY DEF SeriesInv, TypeOK
<1>2. row \in stored.rows
  BY <1>1, FirstRowIs
<1>3. f = [open |-> TRUE, start |-> Local(first.start), end |-> Local(first.end),
           config |-> ParseRRule(rule)]
  BY DEF FormOf
<1>4. CASE rule = None
  <2>1. PICK s \in Nat, e \in Nat : /\ s < e /\ Readable(s) /\ Readable(e) /\ InCalendar(s)
                                    /\ stored.rows = {Row(s, e)}
    BY <1>1, <1>4 DEF StoredOK
  <2>2. first = Row(s, e)
    BY <1>2, <1>4, <2>1 DEF SeriesFirstTimes
  <2> HIDE DEF first, f
  <2>3. f.start = s /\ f.end = e /\ f.config = NoRecurrence
    BY <1>3, <1>4, <2>1, <2>2 DEF Row, Readable, ParseRRule
  <2>4. GenerateOccurrences(s, e, NoRecurrence) = [rows |-> {Row(s, e)}, rule |-> None]
    <3>1. NoRecurrence.freq = "none"
      BY DEF NoRecurrence
    <3> QED
      BY <2>1, <3>1, NothingIsAConfig, GenerateIs
  <2> QED
    BY <2>1, <2>3, <2>4
<1>5. CASE rule # None
  <2> DEFINE begin == FromFloating(rule.dtstart)
             D == rule.dtstart
  <2>1. /\ rule \in Rules /\ D \in Nat /\ rule.zoned /\ ~ReadAsAnother(rule.options)
        /\ ClockKept(rule) /\ FollowsRule(rule, stored.rows) /\ ~Skipped(D)
        /\ InCalendar(ToLocal(rule, D))
    <3>1. rule \in Rules
      BY <1>1, <1>5 DEF TypeOK
    <3>2. D \in Nat
      BY <3>1 DEF Rules
    <3>3. rule.zoned /\ ~ReadAsAnother(rule.options) /\ ClockKept(rule)
      BY <1>5 DEF Followed, ClockKept, OccurringOf
    <3>4. FollowsRule(rule, stored.rows) /\ InCalendar(ToLocal(rule, D))
      BY <1>1, <1>5, <3>3 DEF StoredOK
    <3> QED
      BY <3>1, <3>2, <3>3, <3>4 DEF FollowsRule
  <2>2. begin = ToLocal(rule, D) /\ begin \in Nat
    BY <2>1, ReadingOf DEF ToLocal
  <2>3. PICK length \in Nat \ {0} :
          stored.rows = {RowAt(w, length) : w \in OccurringOf(rule) \ rule.exdates}
    BY <2>1 DEF FollowsRule
  <2>4. PICK v \in OccurringOf(rule) : row = RowAt(v, length)
    BY <1>2, <2>3
  <2>5. v \in Nat /\ ~Skipped(v)
    BY <2>1, <2>4, RecurrencesAre DEF ClockKept, OccurringOf
  <2>6. ~ClockChanges(row) /\ ~ClockChanges(first)
    BY <1>2 DEF Undisturbed
  <2>7. first = Row(begin, begin + (row.end - row.start))
    BY <1>5, <2>2 DEF SeriesFirstTimes
  <2> HIDE DEF row, first, f, begin
  <2>8. row.end - row.start = length
    BY <2>4, <2>5, <2>6, LengthOfRow
  <2>9. first = Row(begin, begin + length)
    BY <2>7, <2>8
  <2>10. /\ Local(begin) = begin /\ begin < Local(begin + length)
         /\ ToFloating(Local(begin + length)) - ToFloating(begin) = length
    BY <2>1, <2>6, <2>9, OpenedTimes DEF begin
  <2>11. f.start = begin /\ f.end = Local(begin + length) /\ f.config = ParseRRule(rule)
    BY <1>3, <2>9, <2>10 DEF Row
  <2> DEFINE config == f.config
             new == Rule(PatternOptions(config, On(begin)), config, begin)
             gen == GenerateOccurrences(f.start, f.end, f.config)
  <2>12. /\ Sound(config) /\ config.freq # "none"
         /\ OccurringOf(new) = OccurringOf(rule) /\ new.exdates = rule.exdates
    <3>1. begin = FromFloating(rule.dtstart) /\ InCalendar(begin)
      BY <2>1, <2>2 DEF begin
    <3> QED
      BY <2>1, <2>11, <3>1, RuleComesBack
  <2>13. f.end \in Nat /\ f.start \in Nat /\ f.start < f.end /\ InCalendar(f.start)
    BY <2>1, <2>2, <2>10, <2>11, <2>3, InstantOf
  <2>14. gen = [rows |-> {RowAt(w, length) : w \in OccurringOf(new) \ new.exdates}, rule |-> new]
    <3> DEFINE other == Rule(PatternOptions(config, On(f.start)), config, f.start)
               span == ToFloating(f.end) - ToFloating(f.start)
    <3>1. other = new /\ span = length
      BY <2>10, <2>11
    <3> HIDE DEF config
    <3>2. gen = [rows |-> {RowAt(w, span) : w \in OccurringOf(other) \ other.exdates}, rule |-> other]
      BY <2>12, <2>13, GenerateIs DEF config
    <3> HIDE DEF other, span, gen, new
    <3> QED
      BY <3>1, <3>2
  <2> HIDE DEF new, gen
  <2>15. gen.rows = {RowAt(w, length) : w \in OccurringOf(new) \ new.exdates}
    BY <2>14
  <2> QED
    BY <2>3, <2>12, <2>15 DEF gen
<1> QED
  BY <1>4, <1>5

-----------------------------------------------------------------------------
(* What a form opens with is the series: FormOf of seriesFirstTimes and parseRRule, *)
(* then saved by generateOccurrences, gives the stored rows back.                   *)
THEOREM OpensAsSaved == Spec => []OpenedAsSaved
<1>1. SeriesInv => OpenedAsSaved
  BY OpensInState
<1> QED
  BY <1>1, SeriesInvariance, PTL

(* The dates that RecurrenceFields lists from listSeriesStarts, without those that *)
(* are excepted, are those that generateOccurrences sends.                         *)
THEOREM TickedIsKept == Spec => []TickedIsSaved
<1>1. SeriesInv => TickedIsSaved
  BY TickedInState
<1> QED
  BY <1>1, SeriesInvariance, PTL

(* generateOccurrences keeps the wall-clock times across the clock changes. *)
THEOREM KeepsWallClock == Spec => []SameWallClock
<1>1. SeriesInv => SameWallClock
  BY ClockInState
<1> QED
  BY <1>1, SeriesInvariance, PTL

(* What planSplit detached with addExdate is not generated again. *)
THEOREM DetachedIsGone == Spec => DetachedStaysAway
<1> DEFINE Stays == Save /\ touched \subseteq {"end"}
                      => \A r \in stored'.rows :
                           DayOf(ToFloating(r.start)) \in detached
                             => TimeOf(ToFloating(r.start)) # TimeOf(ToFloating(form.start))
<1>1. SeriesInv => Stays
  BY DetachedInStep
<1>2. SeriesInv /\ [Next]_vars => [Stays]_vars
  BY <1>1
<1> QED
  BY <1>2, SeriesInvariance, PTL DEF Spec, DetachedStaysAway
=============================================================================

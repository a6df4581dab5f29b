---------------------------- MODULE Client_proofs ----------------------------
(***************************************************************************)
(* Theorems about what the client shows.                                   *)
(*                                                                         *)
(* Calendar, for months, weeks and days of any length and whatever the     *)
(* server has: what is shown is on its days and only there, in view, and   *)
(* paging through the days or the months leaves none out.                  *)
(*                                                                         *)
(* QueryCache, for any number of entries and of mutations in flight: what  *)
(* a mutation has changed is not served from the cache as it was before.   *)
(***************************************************************************)
EXTENDS Calendar, QueryCache, SequenceTheorems, FiniteSetTheorems, WellFoundedInduction, TLAPS

-----------------------------------------------------------------------------
(* Weeks and months *)

MonthCount == Len(MonthStarts) - 1

LEMMA LayoutFacts ==
  /\ DayLength \in Nat \ {0} /\ WeekLength \in Nat \ {0} /\ TailEnd \in Nat \ {0}
  /\ TailEnd < DayLength
  /\ MonthCount \in Nat \ {0} /\ DOMAIN MonthStarts = 1..(MonthCount + 1)
  /\ \A m \in 1..(MonthCount + 1) : MonthStarts[m] \in Nat
  /\ MonthStarts[1] = 0
  /\ \A m \in 1..MonthCount : MonthStarts[m] + WeekLength <= MonthStarts[m + 1]
  /\ Days = 0..(MonthStarts[MonthCount + 1] - 1)
<1>1. MonthStarts \in Seq(Nat) /\ Len(MonthStarts) \in Nat /\ Len(MonthStarts) >= 2
  BY LayoutAssumption
<1>2. MonthCount \in Nat \ {0} /\ MonthCount + 1 = Len(MonthStarts)
  <2>1. ASSUME NEW n \in Nat, n >= 2
        PROVE  n - 1 \in Nat \ {0} /\ (n - 1) + 1 = n
    BY <2>1
  <2> QED
    BY <1>1, <2>1 DEF MonthCount
<1>3. DOMAIN MonthStarts = 1..Len(MonthStarts) /\ \A m \in 1..Len(MonthStarts) : MonthStarts[m] \in Nat
  BY <1>1
<1> QED
  BY <1>2, <1>3, LayoutAssumption DEF MonthCount, Days

LEMMA MonthFacts ==
  /\ MonthCount \in Nat /\ MonthCount >= 1
  /\ \A m \in 1..(MonthCount + 1) : MonthStarts[m] \in Nat
BY LayoutFacts

(* A set of naturals that is not empty has a first one. *)
LEMMA HasFirst ==
  ASSUME NEW S \in SUBSET Nat, S # {}
  PROVE  \E m \in S : \A x \in S : m <= x
<1>1. PICK m \in S : \A x \in S : ~ (<<x, m>> \in OpToRel(<, Nat))
  BY NatLessThanWellFounded, WFMin
<1>2. \A x \in S : m <= x
  <2> SUFFICES ASSUME NEW x \in S, ~ (m <= x)
               PROVE  FALSE
    OBVIOUS
  <2>1. x \in Nat /\ m \in Nat /\ x < m
    OBVIOUS
  <2>2. <<x, m>> \in OpToRel(<, Nat)
    BY <2>1 DEF OpToRel
  <2> QED
    BY <1>1, <2>2
<1> QED
  BY <1>2

LEMMA MonthsIncrease ==
  ASSUME NEW m \in 1..(MonthCount + 1), NEW n \in 1..(MonthCount + 1), m < n
  PROVE  MonthStarts[m] < MonthStarts[n]
<1> DEFINE bad == {k \in Nat : /\ k \in 1..(MonthCount + 1)
                               /\ \E j \in 1..(MonthCount + 1) : j < k /\ MonthStarts[j] >= MonthStarts[k]}
<1> SUFFICES ASSUME MonthStarts[m] >= MonthStarts[n]
             PROVE  FALSE
  BY LayoutFacts
<1>1. n \in bad
  BY LayoutFacts
<1>2. PICK k \in bad : \A x \in bad : k <= x
  <2> HIDE DEF bad
  <2>1. bad \in SUBSET Nat
    BY DEF bad
  <2> QED
    BY <1>1, <2>1, HasFirst
<1>3. PICK j \in 1..(MonthCount + 1) : j < k /\ MonthStarts[j] >= MonthStarts[k]
  BY <1>2
<1>4. k \in 2..(MonthCount + 1) /\ k - 1 \in 1..MonthCount /\ (k - 1) + 1 = k /\ j \in Nat
      /\ MonthCount \in Nat
  BY <1>2, <1>3, LayoutFacts
<1>5. MonthStarts[k - 1] < MonthStarts[k]
  <2>1. /\ MonthStarts[k - 1] + WeekLength <= MonthStarts[(k - 1) + 1] /\ WeekLength \in Nat \ {0}
        /\ k - 1 \in 1..(MonthCount + 1) /\ k \in 1..(MonthCount + 1)
    BY <1>4, LayoutFacts
  <2>2. MonthStarts[k - 1] \in Nat /\ MonthStarts[k] \in Nat
    BY <2>1, LayoutFacts
  <2> QED
    BY <1>4, <2>1, <2>2
<1> DEFINE x == MonthStarts[j]
           y == MonthStarts[k - 1]
           z == MonthStarts[k]
<1>8. x \in Nat /\ y \in Nat /\ z \in Nat /\ x >= z /\ y < z /\ j \in 1..(MonthCount + 1)
      /\ k - 1 \in 1..(MonthCount + 1)
  <2>1. k - 1 \in 1..(MonthCount + 1) /\ k \in 1..(MonthCount + 1)
    BY <1>4
  <2> QED
    BY <1>3, <1>5, <2>1, MonthFacts
<1>6. CASE j = k - 1
  <2>1. x = y
    BY <1>6
  <2> HIDE DEF x, y, z
  <2> QED
    BY <1>8, <2>1
<1>7. CASE j < k - 1
  <2>1. k - 1 \notin bad
    BY <1>2, <1>4
  <2>2. ~ (x >= y)
    BY <1>4, <1>7, <1>8, <2>1
  <2> HIDE DEF x, y, z
  <2> QED
    BY <1>8, <2>2
<1> QED
  BY <1>3, <1>4, <1>6, <1>7

(* Every day is in a month, and in one. *)
LEMMA MonthIs ==
  ASSUME NEW d \in Days
  PROVE  /\ MonthOf(d) \in 1..MonthCount
         /\ MonthStarts[MonthOf(d)] <= d /\ d < MonthStarts[MonthOf(d) + 1]
         /\ \A m \in 1..MonthCount : MonthStarts[m] <= d /\ d < MonthStarts[m + 1] => m = MonthOf(d)
<1> DEFINE after == {m \in Nat : m \in 1..MonthCount /\ d < MonthStarts[m + 1]}
<1>0. d \in Nat /\ d < MonthStarts[MonthCount + 1] /\ MonthCount \in Nat \ {0}
  BY LayoutFacts
<1>1. \E m \in 1..MonthCount : MonthStarts[m] <= d /\ d < MonthStarts[m + 1]
  <2>1. MonthCount \in after
    BY <1>0
  <2>2. PICK m \in after : \A x \in after : m <= x
    <3> HIDE DEF after
    <3>1. after \in SUBSET Nat
      BY DEF after
    <3> QED
      BY <2>1, <3>1, HasFirst
  <2>3. m \in 1..MonthCount /\ d < MonthStarts[m + 1]
    BY <2>2
  <2>4. CASE m = 1
    BY <1>0, <2>3, <2>4, LayoutFacts
  <2>5. CASE m # 1
    <3>1. m - 1 \in 1..MonthCount /\ (m - 1) + 1 = m /\ m - 1 \notin after
      BY <1>0, <2>2, <2>3, <2>5
    <3>2. ~ (d < MonthStarts[m]) /\ MonthStarts[m] \in Nat
      BY <1>0, <2>3, <3>1, LayoutFacts
    <3> QED
      BY <1>0, <2>3, <3>2
  <2> QED
    BY <2>4, <2>5
<1>2. MonthOf(d) \in 1..MonthCount /\ MonthStarts[MonthOf(d)] <= d /\ d < MonthStarts[MonthOf(d) + 1]
  BY <1>1 DEF MonthOf, MonthCount
<1>3. ASSUME NEW m \in 1..MonthCount, NEW n \in 1..MonthCount, m < n,
             d < MonthStarts[m + 1], MonthStarts[n] <= d
      PROVE  FALSE
  <2>1. m + 1 \in 1..(MonthCount + 1) /\ n \in 1..(MonthCount + 1) /\ (m + 1 = n \/ m + 1 < n)
    BY <1>0, <1>3
  <2>2. MonthStarts[m + 1] \in Nat /\ MonthStarts[n] \in Nat
    BY <2>1, MonthFacts
  <2>3. MonthStarts[m + 1] <= MonthStarts[n]
    <3>1. CASE m + 1 = n
      BY <2>2, <3>1
    <3>2. CASE m + 1 < n
      <4>1. MonthStarts[m + 1] < MonthStarts[n]
        BY <2>1, <3>2, MonthsIncrease
      <4> QED
        BY <2>2, <4>1
    <3> QED
      BY <2>1, <3>1, <3>2
  <2> QED
    BY <1>0, <1>3, <2>2, <2>3
<1>4. ASSUME NEW m \in 1..MonthCount, MonthStarts[m] <= d, d < MonthStarts[m + 1]
      PROVE  m = MonthOf(d)
  <2> DEFINE k == MonthOf(d)
  <2>1. ~ (m < k) /\ ~ (k < m)
    BY <1>2, <1>3, <1>4
  <2>2. m \in Nat /\ k \in Nat
    BY <1>0, <1>2
  <2> HIDE DEF k
  <2>3. m = k
    BY <2>1, <2>2
  <2> QED
    BY <2>3 DEF k
<1> QED
  BY <1>2, <1>4

LEMMA StartOfMonthIs ==
  ASSUME NEW d \in Days
  PROVE  /\ StartOfMonth(d) \in Days /\ StartOfMonth(d) <= d
         /\ MonthOf(StartOfMonth(d)) = MonthOf(d) /\ StartOfMonth(StartOfMonth(d)) = StartOfMonth(d)
<1> DEFINE m == MonthOf(d)
           s == MonthStarts[m]
<1>1. m \in 1..MonthCount /\ s <= d /\ d < MonthStarts[m + 1]
  BY MonthIs
<1>2. s \in Nat /\ MonthStarts[m + 1] \in Nat /\ d \in Nat /\ d < MonthStarts[MonthCount + 1]
      /\ MonthStarts[MonthCount + 1] \in Nat
  <2>1. m \in 1..(MonthCount + 1) /\ m + 1 \in 1..(MonthCount + 1) /\ MonthCount + 1 \in 1..(MonthCount + 1)
    <3>1. \A k \in 1..MonthCount : k \in 1..(MonthCount + 1) /\ k + 1 \in 1..(MonthCount + 1)
      BY MonthFacts
    <3>2. MonthCount + 1 \in 1..(MonthCount + 1)
      BY MonthFacts
    <3> QED
      BY <1>1, <3>1, <3>2
  <2>2. s \in Nat /\ MonthStarts[m + 1] \in Nat /\ MonthStarts[MonthCount + 1] \in Nat
    <3> HIDE DEF m
    <3> QED
      BY <2>1, MonthFacts
  <2>3. d \in 0..(MonthStarts[MonthCount + 1] - 1)
    BY LayoutFacts
  <2>4. d \in Nat /\ d < MonthStarts[MonthCount + 1]
    BY <2>2, <2>3
  <2> QED
    BY <2>2, <2>4
<1>3. s \in Days /\ s < MonthStarts[m + 1]
  <2> HIDE DEF s, m
  <2> QED
    BY <1>1, <1>2, LayoutFacts
<1>4. m = MonthOf(s)
  <2>1. s <= s /\ s = MonthStarts[m]
    BY <1>2
  <2> HIDE DEF s, m
  <2> QED
    BY <1>1, <1>3, <2>1, MonthIs
<1>5. StartOfMonth(d) = s
  BY DEF StartOfMonth
<1>6. StartOfMonth(s) = s
  BY <1>4 DEF StartOfMonth
<1> QED
  BY <1>1, <1>3, <1>4, <1>5, <1>6

LEMMA MonthStartIs ==
  ASSUME NEW k \in 1..MonthCount
  PROVE  /\ MonthStarts[k] \in Days /\ MonthOf(MonthStarts[k]) = k
         /\ StartOfMonth(MonthStarts[k]) = MonthStarts[k]
         /\ MonthStarts[k + 1] \in Nat /\ MonthStarts[k] + WeekLength <= MonthStarts[k + 1]
<1> DEFINE x == MonthStarts[k]
           y == MonthStarts[k + 1]
           end == MonthStarts[MonthCount + 1]
<1>1. /\ k \in 1..(MonthCount + 1) /\ k + 1 \in 1..(MonthCount + 1) /\ MonthCount + 1 \in 1..(MonthCount + 1)
      /\ k + 1 = MonthCount + 1 \/ k + 1 < MonthCount + 1
  BY LayoutFacts
<1>2. x \in Nat /\ y \in Nat /\ end \in Nat
  BY <1>1, LayoutFacts
<1>3. x + WeekLength <= y /\ WeekLength \in Nat \ {0}
  BY LayoutFacts
<1>4. y <= end
  BY <1>1, <1>2, MonthsIncrease
<1>5. x \in 0..(end - 1) /\ x <= x /\ x < y
  <2> HIDE DEF x, y, end
  <2> QED
    BY <1>2, <1>3, <1>4
<1>6. x \in Days
  BY <1>5, LayoutFacts
<1>7. k = MonthOf(x)
  BY <1>5, <1>6, MonthIs
<1> QED
  BY <1>2, <1>3, <1>6, <1>7 DEF StartOfMonth

(* A day is in its week, and the weeks of two days a week apart are, too. *)
LEMMA StartOfWeekIs ==
  ASSUME NEW d \in Nat
  PROVE  /\ StartOfWeek(d) \in Nat /\ StartOfWeek(d) <= d /\ d < StartOfWeek(d) + WeekLength
         /\ \A x \in Nat : d + WeekLength <= x => StartOfWeek(d) + WeekLength <= StartOfWeek(x)
<1> DEFINE W == WeekLength
<1>1. W \in Nat /\ W > 0
  BY LayoutFacts
<1>2. ASSUME NEW x \in Nat
      PROVE  /\ x \div W \in Nat /\ x % W \in 0..(W - 1) /\ x = W * (x \div W) + (x % W)
             /\ StartOfWeek(x) = W * (x \div W)
  <2>1. x \div W \in Nat /\ x % W \in 0..(W - 1) /\ x = W * (x \div W) + (x % W)
    BY <1>1
  <2> QED
    BY <1>1, <2>1 DEF StartOfWeek
<1>3. ASSUME NEW x \in Nat, d + W <= x
      PROVE  StartOfWeek(d) + W <= StartOfWeek(x)
  <2> DEFINE p == d \div W
             q == x \div W
  <2>1. /\ p \in Nat /\ q \in Nat /\ d % W \in 0..(W - 1) /\ x % W \in 0..(W - 1)
        /\ d = W * p + (d % W) /\ x = W * q + (x % W)
        /\ StartOfWeek(d) = W * p /\ StartOfWeek(x) = W * q
    BY <1>2
  <2> HIDE DEF p, q, W
  <2>2. W * p + W < W * q + W
    BY <1>1, <1>3, <2>1
  <2>3. p < q
    <3> SUFFICES ASSUME q <= p
                 PROVE  FALSE
      BY <2>1
    <3>1. W * q <= W * p
      BY <1>1, <2>1
    <3> QED
      BY <1>1, <2>1, <2>2, <3>1
  <2>4. W * (p + 1) <= W * q
    BY <1>1, <2>1, <2>3
  <2> QED
    BY <1>1, <2>1, <2>4
<1>4. StartOfWeek(d) \in Nat /\ StartOfWeek(d) <= d /\ d < StartOfWeek(d) + W
  BY <1>1, <1>2
<1> QED
  BY <1>3, <1>4

(* The grid of a month: full weeks around all of its days *)
LEMMA GridIs ==
  ASSUME NEW d \in Days
  PROVE  LET past == MonthStarts[MonthOf(d) + 1]
             grid == StartOfWeek(d)..(StartOfWeek(past - 1) + WeekLength - 1)
         IN /\ MonthGridRange(d) = grid
            /\ past \in Nat /\ d < past
            /\ StartOfWeek(d) \in Nat /\ StartOfWeek(past - 1) \in Nat
            /\ StartOfWeek(d) <= d
            /\ past <= StartOfWeek(past - 1) + WeekLength
<1> DEFINE past == MonthStarts[MonthOf(d) + 1]
<1>1. past \in Nat /\ d < past /\ d \in Nat
  <2>1. MonthOf(d) + 1 \in 1..(MonthCount + 1)
    <3>1. \A k \in 1..MonthCount : k + 1 \in 1..(MonthCount + 1)
      BY MonthFacts
    <3> QED
      BY <3>1, MonthIs
  <2> QED
    BY <2>1, MonthIs, LayoutFacts
<1>2. past - 1 \in Nat
  BY <1>1
<1>3. MonthGridRange(d) = StartOfWeek(d)..(StartOfWeek(past - 1) + WeekLength - 1)
  BY DEF MonthGridRange
<1>4. StartOfWeek(d) \in Nat /\ StartOfWeek(d) <= d
      /\ StartOfWeek(past - 1) \in Nat /\ past - 1 < StartOfWeek(past - 1) + WeekLength
  BY <1>1, <1>2, StartOfWeekIs
<1>5. past <= StartOfWeek(past - 1) + WeekLength
  <2> DEFINE w == StartOfWeek(past - 1)
  <2>1. w \in Nat /\ past - 1 < w + WeekLength
    BY <1>4
  <2> HIDE DEF w, past
  <2>2. past <= w + WeekLength
    BY <1>1, <2>1, LayoutFacts
  <2> QED
    BY <2>2 DEF w
<1> QED
  BY <1>1, <1>3, <1>4, <1>5

-----------------------------------------------------------------------------
(* The place of the page *)

Urls ==
  [start : Days \cup {None}, view : Modes \cup {None}, days : DayRanges \cup {None},
   resources : (SUBSET Resources) \cup {None}]
Preferences == [view : Modes \cup {None}, days : DayRanges \cup {None}]

LEMMA CalendarFacts ==
  /\ Today \in Days /\ Today + 1 \in Days /\ None \notin Days /\ None \notin Modes
  /\ DayRanges \subseteq Nat \ {0}
  /\ 1 \in DayRanges /\ WeekLength \in DayRanges /\ ScreenDays \in DayRanges
  /\ Days \subseteq Nat
BY CalendarAssumption, LayoutFacts

LEMMA Typed ==
  ASSUME TypeOK
  PROVE  /\ url \in Urls /\ stored \in Preferences /\ remembered \in Views
         /\ loaded \in BOOLEAN /\ open \in BOOLEAN
BY DEF TypeOK, Urls, Preferences

(* Wherever the parts of a place come from, they make one. *)
LEMMA EffectiveTyped ==
  ASSUME TypeOK, NEW u \in Urls
  PROVE  /\ EffectiveView(u) \in Modes
         /\ EffectiveDays(u) \in DayRanges
         /\ DefaultStart(u) \in Days /\ EffectiveStart(u) \in Days
         /\ EffectiveResources(u) \in (SUBSET Resources) \cup {None}
<1>1. /\ stored.view \in Modes \cup {None} /\ stored.days \in DayRanges \cup {None}
      /\ remembered.start \in Days \cup {None}
      /\ remembered.resources \in (SUBSET Resources) \cup {None}
      /\ u.start \in Days \cup {None} /\ u.view \in Modes \cup {None} /\ u.days \in DayRanges \cup {None}
      /\ u.resources \in (SUBSET Resources) \cup {None}
  BY Typed DEF Preferences, Views, Urls
<1>2. EffectiveView(u) \in Modes
  BY <1>1 DEF EffectiveView, Or, Modes
<1>3. EffectiveDays(u) \in DayRanges
  BY <1>1, CalendarFacts DEF EffectiveDays, Or
<1>4. StartOfMonth(Today) \in Days
  BY StartOfMonthIs, CalendarFacts
<1>5. StartOfWeek(Today) \in Days
  <2>1. StartOfWeek(Today) \in Nat /\ StartOfWeek(Today) <= Today /\ Today \in Nat
    BY StartOfWeekIs, CalendarFacts
  <2>2. Today <= MonthStarts[MonthCount + 1] - 1 /\ MonthStarts[MonthCount + 1] \in Nat
    <3>1. MonthCount + 1 \in 1..(MonthCount + 1)
      BY LayoutFacts
    <3> QED
      BY <3>1, CalendarFacts, LayoutFacts
  <2> DEFINE w == StartOfWeek(Today)
  <2>3. w \in Nat /\ w <= Today
    BY <2>1
  <2> HIDE DEF w
  <2>4. w \in Days
    BY <2>1, <2>2, <2>3, LayoutFacts
  <2> QED
    BY <2>4 DEF w
<1>6. DefaultStart(u) \in Days
  BY <1>4, <1>5, CalendarFacts DEF DefaultStart
<1>7. EffectiveStart(u) \in Days
  BY <1>1, <1>6 DEF EffectiveStart, Or
<1>8. EffectiveResources(u) \in (SUBSET Resources) \cup {None}
  BY <1>1 DEF EffectiveResources, Or
<1> QED
  BY <1>2, <1>3, <1>6, <1>7, <1>8

(* The days that are shown: some days from the start on, or the grid of a month *)
LEMMA ShownDays ==
  ASSUME TypeOK
  PROVE  /\ Start \in Days
         /\ IsMonth => /\ Start = StartOfMonth(Start)
                       /\ VisibleDays = MonthGridRange(Start)
         /\ ~IsMonth => VisibleDays = Start..(Start + EffectiveDays(url) - 1)
         /\ \E first, end \in Nat : first <= end /\ VisibleDays = first..end
<1>1. EffectiveStart(url) \in Days /\ EffectiveDays(url) \in Nat \ {0}
  BY Typed, EffectiveTyped, CalendarFacts
<1>2. Start \in Days /\ (IsMonth => Start = StartOfMonth(Start))
  BY <1>1, StartOfMonthIs DEF Start
<1>3. CASE IsMonth
  <2>1. VisibleDays = MonthGridRange(Start)
    BY <1>3 DEF VisibleDays
  <2> DEFINE past == MonthStarts[MonthOf(Start) + 1]
             w == StartOfWeek(past - 1)
             v == StartOfWeek(Start)
  <2>2. /\ VisibleDays = v..(w + WeekLength - 1) /\ past \in Nat /\ Start < past
        /\ v \in Nat /\ w \in Nat /\ v <= Start /\ past <= w + WeekLength
    BY <1>2, <2>1, GridIs
  <2> HIDE DEF past, w, v
  <2>3. w + WeekLength - 1 \in Nat /\ v <= w + WeekLength - 1
    BY <1>2, <2>2, CalendarFacts, LayoutFacts
  <2> QED
    BY <1>2, <1>3, <2>1, <2>2, <2>3
<1>4. CASE ~IsMonth
  <2>1. VisibleDays = Start..(Start + EffectiveDays(url) - 1)
    BY <1>4 DEF VisibleDays
  <2>2. Start \in Nat
    BY <1>2, CalendarFacts
  <2> DEFINE n == EffectiveDays(url)
             x == Start
  <2>3. n \in Nat \ {0} /\ x \in Nat
    BY <1>1, <2>2
  <2> HIDE DEF n, x
  <2>4. x + n - 1 \in Nat /\ x <= x + n - 1
    BY <2>3
  <2> QED
    BY <1>2, <1>4, <2>1, <2>3, <2>4 DEF n, x
<1> QED
  BY <1>3, <1>4

(* A step that the user takes to a place, of which next gives some parts *)
Parts(next) ==
  /\ next = [x \in DOMAIN next |-> next[x]]
  /\ DOMAIN next \subseteq {"start", "view", "days", "resources"}
  /\ "start" \in DOMAIN next => next["start"] \in Days
  /\ "view" \in DOMAIN next => next["view"] \in Modes
  /\ "days" \in DOMAIN next => next["days"] \in DayRanges
  /\ "resources" \in DOMAIN next => next["resources"] \in SUBSET Resources

LEMMA RenderedPlace ==
  ASSUME TypeOK, NEW u \in Urls, NEW arrived \in BOOLEAN, Rendered(u, arrived)
  PROVE  /\ url' \in Urls /\ remembered' \in Views /\ last' \in Views
         /\ url'.start = u.start /\ url'.view = u.view /\ url'.days = u.days
         /\ remembered'.start = EffectiveStart(u)
<1> DEFINE selected == IF arrived /\ EffectiveResources(u) = None THEN Resources ELSE EffectiveResources(u)
<1>1. EffectiveStart(u) \in Days /\ selected \in (SUBSET Resources) \cup {None}
  BY EffectiveTyped
<1>2. /\ url' = IF arrived /\ EffectiveResources(u) = None THEN [u EXCEPT !.resources = Resources] ELSE u
      /\ remembered' = [start |-> EffectiveStart(u), resources |-> selected] /\ last' = remembered'
  BY DEF Rendered
<1>3. remembered' \in Views /\ remembered'.start = EffectiveStart(u)
  BY <1>1, <1>2 DEF Views
<1>4. [u EXCEPT !.resources = Resources] \in Urls
  BY DEF Urls
<1>5. url' \in Urls /\ url'.start = u.start /\ url'.view = u.view /\ url'.days = u.days
  BY <1>2, <1>4 DEF Urls
<1> QED
  BY <1>2, <1>3, <1>5

LEMMA MergedPlace ==
  ASSUME NEW u \in Urls, NEW next, Parts(next)
  PROVE  /\ Merged(next, u) \in Urls
         /\ Merged(next, u).start = IF "start" \in DOMAIN next THEN next["start"] ELSE u.start
         /\ Merged(next, u).view = IF "view" \in DOMAIN next THEN next["view"] ELSE u.view
         /\ Merged(next, u).days = IF "days" \in DOMAIN next THEN next["days"] ELSE u.days
BY DEF Merged, Urls, Parts

LEMMA MergedPreferences ==
  ASSUME NEW f \in Preferences, NEW next, Parts(next)
  PROVE  LET g == Merged([x \in DOMAIN next \cap {"view", "days"} |-> next[x]], f) IN
         /\ g \in Preferences
         /\ g.view = IF "view" \in DOMAIN next THEN next["view"] ELSE f.view
         /\ g.days = IF "days" \in DOMAIN next THEN next["days"] ELSE f.days
BY DEF Merged, Preferences, Parts

LEMMA SearchChangeStep ==
  ASSUME TypeOK, NEW next, Parts(next), SearchChange(next)
  PROVE  /\ TypeOK'
         /\ url'.start = IF "start" \in DOMAIN next THEN next["start"] ELSE url.start
         /\ url'.view = IF "view" \in DOMAIN next THEN next["view"] ELSE url.view
         /\ url'.days = IF "days" \in DOMAIN next THEN next["days"] ELSE url.days
         /\ stored'.view = IF "view" \in DOMAIN next THEN next["view"] ELSE stored.view
         /\ stored'.days = IF "days" \in DOMAIN next THEN next["days"] ELSE stored.days
<1>1. /\ stored' = Merged([x \in DOMAIN next \cap {"view", "days"} |-> next[x]], stored)
      /\ Rendered(Merged(next, url), loaded) /\ UNCHANGED <<items, loaded, open>>
      /\ moves < MaxMoves[items] /\ moves' = moves + 1
  BY DEF SearchChange, Moves
<1>2. url \in Urls /\ stored \in Preferences /\ loaded \in BOOLEAN
  BY Typed
<1> DEFINE u == Merged(next, url)
<1>3. u \in Urls
  BY <1>2, MergedPlace
<1>4. /\ url' \in Urls /\ remembered' \in Views /\ last' \in Views
      /\ url'.start = u.start /\ url'.view = u.view /\ url'.days = u.days
  <2> HIDE DEF u
  <2>1. Rendered(u, loaded)
    BY <1>1 DEF u
  <2> QED
    BY <1>2, <1>3, <2>1, RenderedPlace
<1>5. /\ stored' \in Preferences
      /\ stored'.view = IF "view" \in DOMAIN next THEN next["view"] ELSE stored.view
      /\ stored'.days = IF "days" \in DOMAIN next THEN next["days"] ELSE stored.days
  BY <1>1, <1>2, MergedPreferences
<1>6. moves' \in 0..MaxMoves[items]' /\ items' \in Schedules
  BY <1>1, CalendarAssumption DEF TypeOK
<1>7. TypeOK'
  BY <1>1, <1>4, <1>5, <1>6 DEF TypeOK, Urls, Preferences
<1> QED
  BY <1>2, <1>4, <1>5, <1>7, MergedPlace

LEMMA InitTyped == Init => TypeOK
<1> SUFFICES ASSUME Init
             PROVE  TypeOK
  OBVIOUS
<1>1. /\ items \in Schedules /\ loaded \in BOOLEAN /\ open = FALSE /\ url = Bare
      /\ remembered = [start |-> None, resources |-> None] /\ last = remembered
      /\ stored \in [view : {None}, days : DayRanges \cup {None}] /\ moves = 0
  BY DEF Init
<1>2. MaxMoves[items] \in Nat
  BY <1>1, CalendarAssumption
<1>3. url \in Urls
  BY <1>1 DEF Bare, Urls
<1>4. remembered \in Views
  BY <1>1 DEF Views
<1>5. stored \in Preferences
  BY <1>1 DEF Preferences
<1>6. moves \in 0..MaxMoves[items]
  BY <1>1, <1>2
<1>7. {loaded, open} \subseteq BOOLEAN
  BY <1>1
<1> QED
  BY <1>1, <1>3, <1>4, <1>5, <1>6, <1>7 DEF TypeOK, Urls, Preferences

LEMMA LinksAreUrls == Links \subseteq Urls
<1> SUFFICES ASSUME NEW u \in Links
             PROVE  u \in Urls
  OBVIOUS
<1>1. CASE u = Bare
  BY <1>1 DEF Bare, Urls
<1>2. CASE u \in [start : {None}, view : {None}, days : {None}, resources : {{r} : r \in Resources}]
  BY <1>2 DEF Urls
<1>3. CASE u \in [start : {Today + 1}, view : {None, "month"}, days : {None, WeekLength},
                  resources : {{}, Resources}]
  BY <1>3, CalendarFacts DEF Urls, Modes
<1> QED
  BY <1>1, <1>2, <1>3 DEF Links

(* What the user's steps give of the next place *)
LEMMA StepParts ==
  /\ \A d \in Days : Parts([start |-> d])
  /\ \A d \in Days, mode \in Modes : Parts([view |-> mode, start |-> d])
  /\ \A d \in Days, n \in DayRanges : Parts([days |-> n, start |-> d])
  /\ \A d \in Days, n \in DayRanges : Parts([view |-> "days", days |-> n, start |-> d])
  /\ \A set \in SUBSET Resources : Parts([resources |-> set])
BY DEF Parts, Modes

LEMMA WeekStartIsDay ==
  ASSUME NEW d \in Days
  PROVE  StartOfWeek(d) \in Days
<1>1. StartOfWeek(d) \in Nat /\ StartOfWeek(d) <= d /\ d \in Nat
  BY StartOfWeekIs, CalendarFacts
<1> DEFINE w == StartOfWeek(d)
           end == MonthStarts[MonthCount + 1]
<1>2. end \in Nat /\ d <= end - 1
  <2>1. MonthCount + 1 \in 1..(MonthCount + 1)
    BY LayoutFacts
  <2> QED
    BY <1>1, <2>1, LayoutFacts
<1>3. w \in 0..(end - 1)
  <2>1. w \in Nat /\ w <= d
    BY <1>1
  <2> HIDE DEF w, end
  <2> QED
    BY <1>1, <1>2, <2>1
<1> QED
  BY <1>3, LayoutFacts

(* A change of the view or of the number of days *)
LEMMA ChangeViewParts ==
  ASSUME TypeOK, NEW mode \in Modes, ChangeView(mode)
  PROVE  LET day == IF MonthOf(Today) = MonthOf(Start) THEN Today ELSE Start
             first == IF EffectiveDays(url) = WeekLength THEN StartOfWeek(day) ELSE day
             start == IF mode = "month" THEN StartOfMonth(Start) ELSE first
         IN start \in Days /\ SearchChange([view |-> mode, start |-> start])
<1>1. Start \in Days /\ Today \in Days
  BY ShownDays, CalendarFacts
<1>2. StartOfMonth(Start) \in Days /\ StartOfWeek(Start) \in Days /\ StartOfWeek(Today) \in Days
  BY <1>1, StartOfMonthIs, WeekStartIsDay
<1> QED
  BY <1>1, <1>2 DEF ChangeView

LEMMA TypeStep == TypeOK /\ [Next]_vars => TypeOK'
<1> SUFFICES ASSUME TypeOK, [Next]_vars
             PROVE  TypeOK'
  OBVIOUS
<1>0. /\ url \in Urls /\ stored \in Preferences /\ remembered \in Views /\ loaded \in BOOLEAN
      /\ Start \in Days /\ WeekLength \in DayRanges
  BY Typed, ShownDays, CalendarFacts
<1>1. ASSUME NEW u \in Links, OpenLink(u)
      PROVE  TypeOK'
  <2>1. /\ open' = TRUE /\ Rendered(u, loaded) /\ UNCHANGED <<items, loaded, stored>>
        /\ moves < MaxMoves[items] /\ moves' = moves + 1
    BY <1>1 DEF OpenLink, Moves
  <2>2. url' \in Urls /\ remembered' \in Views /\ last' \in Views
    BY <1>0, <1>1, <2>1, LinksAreUrls, RenderedPlace
  <2>3. moves' \in 0..MaxMoves[items]' /\ items' \in Schedules
    BY <2>1, CalendarAssumption DEF TypeOK
  <2> QED
    BY <1>0, <2>1, <2>2, <2>3 DEF TypeOK, Urls, Preferences
<1>2. CASE Leave
  BY <1>2 DEF Leave, TypeOK
<1>3. CASE ResourcesArrive
  <2>1. /\ loaded' = TRUE /\ Rendered(url, TRUE) /\ UNCHANGED <<items, open, stored, moves>>
    BY <1>3 DEF ResourcesArrive
  <2>2. url' \in Urls /\ remembered' \in Views /\ last' \in Views
    BY <1>0, <2>1, RenderedPlace
  <2> QED
    BY <2>1, <2>2 DEF TypeOK, Urls
<1>4. CASE OtherTab
  <2>1. /\ \E mode \in Modes, n \in DayRanges :
             stored' \in {[stored EXCEPT !.view = mode], [stored EXCEPT !.days = n]}
        /\ UNCHANGED <<items, loaded, open, url, remembered, last>>
        /\ moves < MaxMoves[items] /\ moves' = moves + 1
    BY <1>4 DEF OtherTab, Moves
  <2>2. stored' \in Preferences
    BY <1>0, <2>1 DEF Preferences
  <2>3. moves' \in 0..MaxMoves[items]' /\ items' \in Schedules
    BY <2>1, CalendarAssumption DEF TypeOK
  <2> QED
    BY <2>1, <2>2, <2>3 DEF TypeOK, Preferences
<1>5. ASSUME NEW direction \in {-1, 1}, MoveStart(direction)
      PROVE  TypeOK'
  <2>1. PICK day \in Days : SearchChange([start |-> day])
    BY <1>5 DEF MoveStart
  <2> QED
    BY <2>1, StepParts, SearchChangeStep
<1>6. ASSUME NEW d \in Days, PickDate(d)
      PROVE  TypeOK'
  BY <1>6, StepParts, SearchChangeStep DEF PickDate
<1>7. ASSUME NEW d \in Days, DayClick(d)
      PROVE  TypeOK'
  <2>1. Parts([view |-> "days", days |-> 1, start |-> d])
    BY StepParts, CalendarFacts
  <2> QED
    BY <1>7, <2>1, SearchChangeStep DEF DayClick
<1>8. ASSUME NEW mode \in Modes, ChangeView(mode)
      PROVE  TypeOK'
  BY <1>8, ChangeViewParts, StepParts, SearchChangeStep
<1>9. ASSUME NEW n \in DayRanges, ChangeDays(n)
      PROVE  TypeOK'
  <2>1. PICK d \in Days : SearchChange([days |-> n, start |-> d])
    BY <1>0, <1>9, WeekStartIsDay DEF ChangeDays
  <2> QED
    BY <2>1, StepParts, SearchChangeStep
<1>10. ASSUME NEW r \in Resources, ToggleResource(r)
       PROVE  TypeOK'
  <2>1. ActiveResources \subseteq Resources
    BY <1>0, EffectiveTyped DEF ActiveResources
  <2>2. PICK set \in SUBSET Resources : SearchChange([resources |-> set])
    BY <1>10, <2>1 DEF ToggleResource
  <2> QED
    BY <2>2, StepParts, SearchChangeStep
<1>11. CASE UNCHANGED vars
  BY <1>11 DEF vars, TypeOK
<1> QED
  BY <1>1, <1>2, <1>3, <1>4, <1>5, <1>6, <1>7, <1>8, <1>9, <1>10, <1>11 DEF Next

-----------------------------------------------------------------------------
(* From one month to the next, and from some days to as many more *)

LEMMA NextMonth ==
  ASSUME NEW m \in 1..MonthCount, m + 1 \in 1..MonthCount
  PROVE  Beyond(MonthGridRange(MonthStarts[m]), MonthGridRange(MonthStarts[m + 1]))
<1> DEFINE x == MonthStarts[m]
           y == MonthStarts[m + 1]
           z == MonthStarts[(m + 1) + 1]
           W == WeekLength
<1>1. /\ x \in Nat /\ y \in Nat /\ z \in Nat /\ x + W <= y /\ y + W <= z /\ W \in Nat \ {0}
  BY MonthStartIs, LayoutFacts, CalendarFacts
<1>2. x \in Days /\ y \in Days /\ MonthOf(x) = m /\ MonthOf(y) = m + 1
  BY MonthStartIs
<1> DEFINE a == StartOfWeek(x)
           b == StartOfWeek(y - 1)
           c == StartOfWeek(y)
           e == StartOfWeek(z - 1)
<1>4. /\ MonthGridRange(x) = a..(b + W - 1) /\ a \in Nat /\ b \in Nat /\ a <= x /\ y <= b + W
      /\ MonthGridRange(y) = c..(e + W - 1) /\ c \in Nat /\ e \in Nat /\ c <= y /\ z <= e + W
  BY <1>2, GridIs
<1>5. b + W <= e
  <2>1. y - 1 \in Nat /\ z - 1 \in Nat /\ (y - 1) + W <= z - 1
    BY <1>1
  <2> HIDE DEF x, y, z
  <2> QED
    BY <2>1, StartOfWeekIs
<1> HIDE DEF a, b, c, e, W, x, y, z
<1>6. y - 1 \in a..(b + W - 1) /\ (y - 1) + 1 \in c..(e + W - 1)
  BY <1>1, <1>4
<1>7. /\ e + W - 1 \in c..(e + W - 1)
      /\ \A d \in a..(b + W - 1) : d < e + W - 1
  BY <1>1, <1>4, <1>5
<1>8. Beyond(MonthGridRange(x), MonthGridRange(y))
  BY <1>4, <1>6, <1>7 DEF Beyond
<1> QED
  BY <1>8 DEF x, y

LEMMA NextDays ==
  ASSUME NEW a \in Nat, NEW n \in Nat \ {0}
  PROVE  Beyond(a..(a + n - 1), (a + n)..((a + n) + n - 1))
<1>1. a + n - 1 \in a..(a + n - 1) /\ (a + n - 1) + 1 \in (a + n)..((a + n) + n - 1)
  OBVIOUS
<1>2. /\ a + n \in (a + n)..((a + n) + n - 1)
      /\ \A d \in a..(a + n - 1) : d < a + n
  OBVIOUS
<1> QED
  BY <1>1, <1>2 DEF Beyond

(* What a step that only moves the start, or picks a view, leaves alone *)
LEMMA MovedPlace ==
  ASSUME TypeOK, NEW day \in Days, SearchChange([start |-> day])
  PROVE  /\ TypeOK'
         /\ IsMonth' = IsMonth /\ EffectiveDays(url)' = EffectiveDays(url)
         /\ Start' = IF IsMonth THEN StartOfMonth(day) ELSE day
<1> DEFINE next == [start |-> day]
<1>1. DOMAIN next = {"start"} /\ next["start"] = day /\ Parts(next)
  BY StepParts
<1>2. /\ TypeOK' /\ url'.start = day /\ url'.view = url.view /\ url'.days = url.days
      /\ stored'.view = stored.view /\ stored'.days = stored.days
  <2> HIDE DEF next
  <2>1. "view" \notin DOMAIN next /\ "days" \notin DOMAIN next /\ "start" \in DOMAIN next
    BY <1>1
  <2>2. SearchChange(next)
    BY DEF next
  <2> QED
    BY <1>1, <2>1, <2>2, SearchChangeStep
<1>3. IsMonth' = IsMonth /\ EffectiveDays(url)' = EffectiveDays(url)
  BY <1>2 DEF IsMonth, EffectiveView, EffectiveDays, Or
<1>4. EffectiveStart(url)' = day
  BY <1>2, CalendarFacts DEF EffectiveStart, Or
<1> QED
  BY <1>2, <1>3, <1>4 DEF Start

LEMMA PickedView ==
  ASSUME TypeOK, NEW mode \in Modes, NEW day \in Days, SearchChange([view |-> mode, start |-> day])
  PROVE  /\ TypeOK'
         /\ IsMonth' = (mode = "month") /\ EffectiveDays(url)' = EffectiveDays(url)
         /\ Start' = IF mode = "month" THEN StartOfMonth(day) ELSE day
<1> DEFINE next == [view |-> mode, start |-> day]
<1>1. DOMAIN next = {"view", "start"} /\ next["start"] = day /\ next["view"] = mode /\ Parts(next)
  BY StepParts
<1>2. /\ TypeOK' /\ url'.start = day /\ url'.view = mode /\ url'.days = url.days
      /\ stored'.days = stored.days /\ stored'.view = mode
  <2> HIDE DEF next
  <2>1. "view" \in DOMAIN next /\ "days" \notin DOMAIN next /\ "start" \in DOMAIN next
    BY <1>1
  <2>2. SearchChange(next)
    BY DEF next
  <2> QED
    BY <1>1, <2>1, <2>2, SearchChangeStep
<1>3. IsMonth' = (mode = "month") /\ EffectiveDays(url)' = EffectiveDays(url)
  BY <1>2, CalendarFacts DEF IsMonth, EffectiveView, EffectiveDays, Or
<1>4. EffectiveStart(url)' = day
  BY <1>2, CalendarFacts DEF EffectiveStart, Or
<1> QED
  BY <1>2, <1>3, <1>4 DEF Start

-----------------------------------------------------------------------------
(* What the calendar guarantees *)

(* Wherever the parts of its place come from, the page has one: URL, storage *)
(* and history keep their types through the handlers of the calendar route.  *)
THEOREM CalendarTyped == Spec => []TypeOK
BY InitTyped, TypeStep, PTL DEF Spec

LEMMA MovesOn == TypeOK /\ MoveStart(1) => Beyond(VisibleDays, VisibleDays')
<1> SUFFICES ASSUME TypeOK, MoveStart(1)
             PROVE  Beyond(VisibleDays, VisibleDays')
  OBVIOUS
<1>0. Start \in Days /\ Start \in Nat /\ EffectiveDays(url) \in Nat \ {0}
  BY ShownDays, Typed, EffectiveTyped, CalendarFacts
<1>1. CASE IsMonth
  <2> DEFINE m == MonthOf(Start)
  <2>1. /\ m \in 1..MonthCount /\ m + 1 \in 1..MonthCount
        /\ MonthStarts[m + 1] \in Days /\ SearchChange([start |-> MonthStarts[m + 1]])
    BY <1>0, <1>1, MonthIs DEF MoveStart, MonthCount
  <2>2. Start = MonthStarts[m] /\ VisibleDays = MonthGridRange(Start)
    BY <1>1, ShownDays DEF StartOfMonth
  <2> DEFINE day == MonthStarts[m + 1]
  <2>3. TypeOK' /\ IsMonth' /\ Start' = StartOfMonth(day)
    <3>1. day \in Days /\ SearchChange([start |-> day])
      BY <2>1
    <3> HIDE DEF day
    <3> QED
      BY <1>1, <3>1, MovedPlace
  <2>4. StartOfMonth(day) = day
    BY <2>1, MonthStartIs
  <2>5. VisibleDays' = MonthGridRange(day)
    BY <2>3, <2>4 DEF VisibleDays
  <2> HIDE DEF m
  <2> QED
    BY <2>1, <2>2, <2>5, NextMonth
<1>2. CASE ~IsMonth
  <2> DEFINE n == EffectiveDays(url)
             day == Start + n
  <2>1. n \in Nat \ {0} /\ day \in Days /\ SearchChange([start |-> day])
    BY <1>0, <1>2 DEF MoveStart
  <2>2. ~IsMonth' /\ EffectiveDays(url)' = n /\ Start' = day
    <3> HIDE DEF day
    <3> QED
      BY <1>2, <2>1, MovedPlace
  <2>3. VisibleDays = Start..(Start + n - 1) /\ VisibleDays' = day..(day + n - 1)
    BY <1>2, <2>2 DEF VisibleDays
  <2> HIDE DEF n
  <2> QED
    BY <1>0, <2>1, <2>3, NextDays
<1> QED
  BY <1>1, <1>2

LEMMA MovesBack == TypeOK /\ MoveStart(-1) => Beyond(VisibleDays', VisibleDays)
<1> SUFFICES ASSUME TypeOK, MoveStart(-1)
             PROVE  Beyond(VisibleDays', VisibleDays)
  OBVIOUS
<1>0. Start \in Days /\ Start \in Nat /\ EffectiveDays(url) \in Nat \ {0}
  BY ShownDays, Typed, EffectiveTyped, CalendarFacts
<1>1. CASE IsMonth
  <2> DEFINE m == MonthOf(Start) - 1
             day == MonthStarts[m]
  <2>1. m \in 1..MonthCount /\ m + 1 \in 1..MonthCount /\ m + 1 = MonthOf(Start)
        /\ SearchChange([start |-> day])
    <3>1. MonthOf(Start) \in 1..MonthCount /\ MonthCount \in Nat
      BY <1>0, MonthIs, LayoutFacts
    <3>2. m = MonthOf(Start) + -1
      BY <3>1
    <3>3. m \in 1..(Len(MonthStarts) - 1) /\ SearchChange([start |-> day])
      <4> HIDE DEF m
      <4> QED
        BY <1>1, <3>2 DEF MoveStart
    <3>4. m \in 1..MonthCount
      BY <3>3 DEF MonthCount
    <3> QED
      BY <3>1, <3>3, <3>4
  <2>2. Start = MonthStarts[m + 1] /\ VisibleDays = MonthGridRange(Start)
    <3>1. Start = MonthStarts[MonthOf(Start)] /\ VisibleDays = MonthGridRange(Start)
      BY <1>1, ShownDays DEF StartOfMonth
    <3> QED
      BY <2>1, <3>1
  <2> HIDE DEF m
  <2>3. day \in Days /\ StartOfMonth(day) = day
    BY <2>1, MonthStartIs
  <2>4. IsMonth' /\ Start' = StartOfMonth(day)
    <3> HIDE DEF day
    <3> QED
      BY <1>1, <2>1, <2>3, MovedPlace
  <2>5. VisibleDays' = MonthGridRange(day)
    BY <2>3, <2>4 DEF VisibleDays
  <2> QED
    BY <2>1, <2>2, <2>5, NextMonth
<1>2. CASE ~IsMonth
  <2> DEFINE n == EffectiveDays(url)
             day == Start + (-1) * n
  <2>1. n \in Nat \ {0} /\ day \in Days /\ SearchChange([start |-> day])
    BY <1>0, <1>2 DEF MoveStart
  <2>2. ~IsMonth' /\ EffectiveDays(url)' = n /\ Start' = day
    <3> HIDE DEF day
    <3> QED
      BY <1>2, <2>1, MovedPlace
  <2>3. VisibleDays = Start..(Start + n - 1) /\ VisibleDays' = day..(day + n - 1)
    BY <1>2, <2>2 DEF VisibleDays
  <2>4. day \in Nat /\ Start = day + n
    BY <1>0, <2>1, CalendarFacts
  <2> HIDE DEF n, day
  <2> QED
    BY <2>1, <2>3, <2>4, NextDays
<1> QED
  BY <1>1, <1>2

LEMMA KeepsInSight ==
  /\ TypeOK /\ ChangeView("month") => Start \in VisibleDays'
  /\ TypeOK /\ ChangeView("days") =>
       (IF Today \in Days /\ MonthOf(Today) = MonthOf(Start) THEN Today ELSE Start) \in VisibleDays'
<1>1. ASSUME TypeOK, ChangeView("month")
      PROVE  Start \in VisibleDays'
  <2>0. Start \in Days /\ "month" \in Modes
    BY <1>1, ShownDays DEF Modes
  <2> DEFINE day == StartOfMonth(Start)
  <2>1. day \in Days /\ SearchChange([view |-> "month", start |-> day])
    BY <1>1, <2>0, ChangeViewParts
  <2>2. day <= Start /\ StartOfMonth(day) = day /\ MonthOf(day) = MonthOf(Start)
    BY <2>0, StartOfMonthIs
  <2>3. IsMonth' /\ Start' = day
    <3> HIDE DEF day
    <3> QED
      BY <1>1, <2>0, <2>1, <2>2, PickedView
  <2>4. VisibleDays' = MonthGridRange(day)
    BY <2>3 DEF VisibleDays
  <2> DEFINE past == MonthStarts[MonthOf(day) + 1]
             v == StartOfWeek(day)
             w == StartOfWeek(past - 1)
  <2>5. /\ MonthGridRange(day) = v..(w + WeekLength - 1) /\ past \in Nat
        /\ v \in Nat /\ w \in Nat /\ v <= day /\ past <= w + WeekLength
    <3> HIDE DEF day
    <3> QED
      BY <2>1, GridIs
  <2>6. Start < past /\ Start \in Nat /\ day \in Nat /\ WeekLength \in Nat
    BY <2>0, <2>1, <2>2, MonthIs, CalendarFacts, LayoutFacts
  <2> HIDE DEF past, v, w, day
  <2>7. Start \in v..(w + WeekLength - 1)
    BY <2>2, <2>5, <2>6
  <2> QED
    BY <2>4, <2>5, <2>7
<1>2. ASSUME TypeOK, ChangeView("days")
      PROVE  (IF MonthOf(Today) = MonthOf(Start) THEN Today ELSE Start) \in VisibleDays'
  <2>0. Start \in Days /\ "days" \in Modes /\ Today \in Days
    BY <1>2, ShownDays, CalendarFacts DEF Modes
  <2> DEFINE day == IF MonthOf(Today) = MonthOf(Start) THEN Today ELSE Start
             first == IF EffectiveDays(url) = WeekLength THEN StartOfWeek(day) ELSE day
             n == EffectiveDays(url)
  <2>1. first \in Days /\ SearchChange([view |-> "days", start |-> first])
    BY <1>2, <2>0, ChangeViewParts
  <2>2. n \in Nat \ {0}
    BY <1>2, Typed, EffectiveTyped, CalendarFacts
  <2>3. ~IsMonth' /\ EffectiveDays(url)' = n /\ Start' = first
    <3> HIDE DEF first
    <3> QED
      BY <1>2, <2>0, <2>1, PickedView
  <2>4. VisibleDays' = first..(first + n - 1)
    BY <2>3 DEF VisibleDays
  <2>5. day \in Nat /\ first \in Nat
    BY <2>0, <2>1, CalendarFacts
  <2>6. first <= day /\ day <= first + n - 1
    <3>1. CASE n = WeekLength
      <4> DEFINE w == StartOfWeek(day)
      <4>1. w \in Nat /\ w <= day /\ day < w + WeekLength
        <5> HIDE DEF day
        <5> QED
          BY <2>5, StartOfWeekIs
      <4>2. first = w
        BY <3>1
      <4> HIDE DEF w, day, n, first
      <4> QED
        BY <2>2, <2>5, <3>1, <4>1, <4>2
    <3>2. CASE n # WeekLength
      <4>1. first = day
        BY <3>2
      <4> HIDE DEF day, n, first
      <4> QED
        BY <2>2, <2>5, <4>1
    <3> QED
      BY <3>1, <3>2
  <2> HIDE DEF first, n, day
  <2>7. day \in first..(first + n - 1)
    BY <2>2, <2>5, <2>6
  <2> QED
    BY <2>4, <2>7 DEF day
<1> QED
  BY <1>1, <1>2, CalendarFacts

(* The arrows and the switch between the views (handleDateChange,           *)
(* handleViewChange): paging shows every day, however long the months are,  *)
(* and a change of the view keeps today, or the first day shown, in sight.  *)
THEOREM PagingSkipsNoDay == Spec => NoDaySkipped
<1> DEFINE Paging ==
      /\ MoveStart(1) => Beyond(VisibleDays, VisibleDays')
      /\ MoveStart(-1) => Beyond(VisibleDays', VisibleDays)
      /\ ChangeView("month") => Start \in VisibleDays'
      /\ ChangeView("days") =>
           (IF Today \in Days /\ MonthOf(Today) = MonthOf(Start) THEN Today ELSE Start) \in VisibleDays'
<1>1. TypeOK => [open => Paging]_vars
  BY MovesOn, MovesBack, KeepsInSight
<1> QED
  BY <1>1, CalendarTyped, PTL DEF NoDaySkipped

-----------------------------------------------------------------------------
(* What is fetched, and the events that are made of it *)

LEMMA ClockFacts ==
  /\ ChangeDay \in Nat /\ ChangeAt \in Nat /\ Shift \in Int
  /\ DayLength + Shift > 0 /\ Shift <= ChangeAt
BY LayoutFacts, ClockAssumption

LEMMA Multiples ==
  /\ DayLength \in Nat /\ DayLength > 0
  /\ \A d \in Nat : d * DayLength \in Nat
  /\ \A d, x \in Nat : d < x => d * DayLength + DayLength <= x * DayLength
  /\ \A d \in Nat : (d + 1) * DayLength = d * DayLength + DayLength
<1>1. DayLength \in Nat /\ DayLength > 0
  BY LayoutFacts
<1>2. ASSUME NEW d \in Nat
      PROVE  d * DayLength \in Nat /\ (d + 1) * DayLength = d * DayLength + DayLength
  BY <1>1
<1>3. ASSUME NEW d \in Nat, NEW x \in Nat, d < x
      PROVE  d * DayLength + DayLength <= x * DayLength
  <2>1. d + 1 \in Nat /\ d + 1 <= x
    BY <1>3
  <2>2. (d + 1) * DayLength <= x * DayLength
    BY <1>1, <2>1
  <2> QED
    BY <1>2, <2>2
<1> QED
  BY <1>1, <1>2, <1>3

(* A day is DayLength long, the one on which the clock is put back longer. *)
LEMMA MidnightIs ==
  /\ \A d \in Nat : /\ Midnight(d) \in Nat /\ Midnight(d + 1) \in Nat
                    /\ Midnight(d) < Midnight(d + 1)
                    /\ Midnight(d + 1) =
                         Midnight(d) + DayLength + (IF d = ChangeDay THEN Shift ELSE 0)
  /\ \A d, x \in Nat : d <= x => Midnight(d) <= Midnight(x)
  /\ Midnight(0) = 0
<1> DEFINE M == [d \in Nat |-> d * DayLength]
<1>1. \A d \in Nat : Midnight(d) = M[d] + (IF d > ChangeDay THEN Shift ELSE 0)
  BY DEF Midnight
<1>2. /\ \A d \in Nat : M[d] \in Nat /\ M[d + 1] = M[d] + DayLength
      /\ \A d, x \in Nat : d < x => M[d] + DayLength <= M[x]
  BY Multiples
<1>0. M[0] = 0
  BY Multiples
<1> HIDE DEF M
<1>3. ASSUME NEW d \in Nat
      PROVE  /\ Midnight(d) \in Nat
             /\ Midnight(d + 1) = Midnight(d) + DayLength + (IF d = ChangeDay THEN Shift ELSE 0)
  <2>1. M[d] \in Nat /\ M[d + 1] = M[d] + DayLength /\ d + 1 \in Nat
    BY <1>2
  <2>2. CASE d > ChangeDay
    <3>1. M[ChangeDay] \in Nat /\ M[ChangeDay] + DayLength <= M[d]
      BY <1>2, <2>2, ClockFacts
    <3>2. Midnight(d) = M[d] + Shift /\ Midnight(d + 1) = M[d + 1] + Shift /\ d # ChangeDay
      BY <1>1, <2>1, <2>2, ClockFacts
    <3> QED
      BY <2>1, <3>1, <3>2, ClockFacts, Multiples
  <2>3. CASE d <= ChangeDay
    BY <1>1, <2>1, <2>3, ClockFacts, Multiples
  <2> QED
    BY <2>2, <2>3, ClockFacts
<1>4. ASSUME NEW d \in Nat
      PROVE  Midnight(d) < Midnight(d + 1)
  BY <1>3, <1>4, ClockFacts, Multiples
<1>5. ASSUME NEW d \in Nat, NEW x \in Nat, d <= x
      PROVE  Midnight(d) <= Midnight(x)
  <2>1. CASE d = x
    BY <1>3, <2>1
  <2>2. CASE d # x
    <3>1. M[d] + DayLength <= M[x] /\ M[d] \in Nat /\ M[x] \in Nat
      BY <1>2, <1>5, <2>2
    <3>2. d > ChangeDay => x > ChangeDay
      BY <1>5, ClockFacts
    <3> QED
      BY <1>1, <3>1, <3>2, ClockFacts, Multiples
  <2> QED
    BY <2>1, <2>2
<1>6. Midnight(0) = 0
  BY <1>0, <1>1, ClockFacts
<1>7. \A d \in Nat : d + 1 \in Nat
  OBVIOUS
<1> QED
  BY <1>3, <1>4, <1>5, <1>6, <1>7

(* The range covers every day that is shown from midnight to midnight. *)
LEMMA FetchRangeCovers ==
  ASSUME TypeOK, NEW d \in VisibleDays
  PROVE  /\ d \in Nat
         /\ FetchRange.start \in Nat /\ FetchRange.end \in Nat
         /\ FetchRange.start <= Midnight(d) /\ Midnight(d + 1) <= FetchRange.end
<1>1. PICK a, b \in Nat : a <= b /\ VisibleDays = a..b
  BY ShownDays
<1>2. (CHOOSE x \in VisibleDays : \A y \in VisibleDays : x <= y) = a
  BY <1>1
<1>3. (CHOOSE x \in VisibleDays : \A y \in VisibleDays : y <= x) = b
  BY <1>1
<1>4. FetchRange = [start |-> Midnight(a), end |-> Midnight(1 + b)]
  BY <1>2, <1>3 DEF FetchRange
<1>5. d \in Nat /\ a <= d /\ d + 1 <= 1 + b /\ d + 1 \in Nat /\ 1 + b \in Nat
  BY <1>1
<1> QED
  BY <1>1, <1>4, <1>5, MidnightIs

LEMMA ItemsAre ==
  ASSUME TypeOK, NEW i \in items
  PROVE  /\ i.kind \in {"reservation", "restriction", "block"}
         /\ \A r \in i.rows : r.start \in Nat /\ r.end \in Nat /\ r.start < r.end
BY CalendarAssumption DEF TypeOK

LEMMA GroupedAre ==
  ASSUME NEW i, NEW rows
  PROVE  /\ \A r \in rows : \E e \in Grouped(i, rows) : e.start = r.start /\ e.end = r.end
         /\ \A e \in Grouped(i, rows) :
              e.item = i /\ \E r \in rows : e.start = r.start /\ e.end = r.end
         /\ \A e, f \in Grouped(i, rows) : e.start = f.start /\ e.end = f.end => e = f
<1> DEFINE Sharing(a, b) == {x.resource : x \in {y \in rows : y.start = a /\ y.end = b}}
           Of2(a, b) == Event(i, a, b, Sharing(a, b))
<1>1. Grouped(i, rows) = {Of2(r.start, r.end) : r \in rows}
  BY DEF Grouped
<1>2. \A a, b : Of2(a, b).item = i /\ Of2(a, b).start = a /\ Of2(a, b).end = b
  BY DEF Event
<1> HIDE DEF Of2
<1> QED
  BY <1>1, <1>2

(* Every row that the user is to see is in an event with its times, events  *)
(* have the times of rows, and only blocks have several events at one time. *)
LEMMA EventsAre ==
  ASSUME TypeOK, NEW i \in items
  PROVE  /\ \A r \in Fetched(i) : Visible(i, r) =>
              \E e \in EventsOf(i) : e.start = r.start /\ e.end = r.end
         /\ \A e \in EventsOf(i) : e.item = i /\ \E r \in i.rows : e.start = r.start /\ e.end = r.end
         /\ i.kind # "block" => \A e, f \in EventsOf(i) : e.start = f.start /\ e.end = f.end => e = f
<1> DEFINE active == {r \in Fetched(i) : r.resource \in ActiveResources}
           everywhere == {r \in Fetched(i) : r.resource = None}
<1>0. Fetched(i) \subseteq i.rows
  BY DEF Fetched
<1>1. CASE i.kind = "reservation"
  <2>1. EventsOf(i) = IF i.cancelled THEN {} ELSE Grouped(i, active)
    BY <1>1 DEF EventsOf
  <2>2. \A r \in Fetched(i) : Visible(i, r) => r \in active /\ ~i.cancelled
    BY <1>1 DEF Visible
  <2>3. active \subseteq i.rows
    BY <1>0
  <2> HIDE DEF active
  <2> QED
    BY <1>1, <2>1, <2>2, <2>3, GroupedAre
<1>2. CASE i.kind = "restriction"
  <2> DEFINE rows == active \cup everywhere
  <2>1. EventsOf(i) = IF ActiveResources = {} THEN {} ELSE Grouped(i, rows)
    BY <1>2 DEF EventsOf
  <2>2. \A r \in Fetched(i) : Visible(i, r) => r \in rows /\ ActiveResources # {}
    BY <1>2 DEF Visible
  <2>3. rows \subseteq i.rows
    BY <1>0
  <2> HIDE DEF rows
  <2> QED
    BY <1>2, <2>1, <2>2, <2>3, GroupedAre
<1>3. CASE i.kind = "block"
  <2>1. EventsOf(i) = {Event(i, r.start, r.end, {r.resource}) : r \in {x \in active : ~x.reserved}}
    BY <1>3 DEF EventsOf
  <2>2. \A r \in Fetched(i) : Visible(i, r) => r \in active /\ ~r.reserved
    BY <1>3 DEF Visible
  <2>3. active \subseteq i.rows
    BY <1>0
  <2>4. \A r : LET e == Event(i, r.start, r.end, {r.resource}) IN
                 e.item = i /\ e.start = r.start /\ e.end = r.end
    BY DEF Event
  <2> DEFINE Single(r) == Event(i, r.start, r.end, {r.resource})
  <2>5. EventsOf(i) = {Single(r) : r \in {x \in active : ~x.reserved}}
    BY <2>1
  <2>6. \A r : Single(r).item = i /\ Single(r).start = r.start /\ Single(r).end = r.end
    BY <2>4
  <2> HIDE DEF active, Single
  <2>7. \A r \in Fetched(i) : Visible(i, r) => \E e \in EventsOf(i) : e.start = r.start /\ e.end = r.end
    BY <2>2, <2>5, <2>6
  <2>8. \A e \in EventsOf(i) : e.item = i /\ \E r \in i.rows : e.start = r.start /\ e.end = r.end
    BY <2>3, <2>5, <2>6
  <2> QED
    BY <1>3, <2>7, <2>8
<1> QED
  BY <1>1, <1>2, <1>3, ItemsAre

LEMMA CalendarEventsAre ==
  ASSUME TypeOK, loaded
  PROVE  /\ \A i \in items : EventsOf(i) \subseteq CalendarEvents
         /\ \A e \in CalendarEvents : e.item \in items /\ e \in EventsOf(e.item)
<1>1. CalendarEvents = UNION {EventsOf(i) : i \in items}
  BY DEF CalendarEvents
<1>2. \A i \in items : \A e \in EventsOf(i) : e.item = i
  BY EventsAre
<1> QED
  BY <1>1, <1>2

(* Of an event only what falls on a day is drawn on it. *)
LEMMA SegmentIs ==
  ASSUME NEW e, NEW d
  PROVE  /\ Segment(e, d).event = e
         /\ Segment(e, d).continuesBefore = (e.start < Midnight(d))
         /\ Segment(e, d).start = IF e.start < Midnight(d) THEN Midnight(d) ELSE e.start
BY DEF Segment

LEMMA Quotient ==
  ASSUME NEW t \in Nat, NEW d \in Nat, d * DayLength <= t, t < d * DayLength + DayLength
  PROVE  t \div DayLength = d
<1> DEFINE D == DayLength
           q == t \div D
           p == t % D
<1>1. D \in Nat /\ D > 0
  BY LayoutFacts
<1>2. q \in Nat /\ p \in 0..(D - 1) /\ t = D * q + p
  BY <1>1
<1>3. D * q = q * D /\ q * D \in Nat /\ d * D \in Nat
  BY <1>1, <1>2, Multiples
<1>4. \A x, y \in Nat : x < y => x * D + D <= y * D
  BY Multiples
<1> HIDE DEF D, q, p
<1>5. ~(q < d)
  BY <1>1, <1>2, <1>3, <1>4 DEF D
<1>6. ~(d < q)
  BY <1>1, <1>2, <1>3, <1>4 DEF D
<1> QED
  BY <1>2, <1>5, <1>6 DEF q, D

(* From one midnight to the next it is that day, and the clock shows the time *)
(* since midnight, but for what it was put back by then.                      *)
LEMMA DayIs ==
  ASSUME NEW t \in Nat, NEW d \in Nat, Midnight(d) <= t, t < Midnight(d + 1)
  PROVE  /\ DayOf(t) = d
         /\ Clock(t) = t - Midnight(d) - (IF d = ChangeDay /\ ~BeforeChange(t) THEN Shift ELSE 0)
<1>0. d + 1 \in Nat /\ Midnight(d) \in Nat /\ ChangeDay \in Nat /\ ChangeDay + 1 \in Nat
  BY MidnightIs, ClockFacts
<1>1. DayOf(t) = d
  <2>1. CASE d < ChangeDay
    <3>1. Midnight(d) = d * DayLength /\ Midnight(d + 1) = d * DayLength + DayLength
      BY <1>0, <2>1, Multiples DEF Midnight
    <3>2. d * DayLength + DayLength <= ChangeDay * DayLength /\ ChangeDay * DayLength \in Nat
      BY <1>0, <2>1, Multiples
    <3>3. t < ChangeDay * DayLength /\ d * DayLength \in Nat
      BY <3>1, <3>2, Multiples
    <3>4. t \div DayLength = d
      BY <3>1, Quotient
    <3>5. ~(t >= Midnight(ChangeDay + 1))
      <4>0. d + 1 <= ChangeDay + 1
        BY <1>0, <2>1
      <4>1. Midnight(d + 1) <= Midnight(ChangeDay + 1) /\ Midnight(ChangeDay + 1) \in Nat
        BY <1>0, <4>0, MidnightIs
      <4>2. Midnight(d + 1) \in Nat
        BY MidnightIs
      <4> QED
        BY <4>1, <4>2
    <3> QED
      BY <3>3, <3>4, <3>5, Zenon DEF DayOf
  <2>2. CASE d = ChangeDay
    <3>1. Midnight(d) = ChangeDay * DayLength
      <4>1. ~(d > ChangeDay)
        BY <1>0, <2>2
      <4>2. d * DayLength \in Nat
        BY Multiples
      <4>3. Midnight(d) = d * DayLength
        BY <4>1, <4>2 DEF Midnight
      <4> QED
        BY <2>2, <4>3, Zenon
    <3>2. ~(t < Midnight(d))
      BY <1>0
    <3>3. ~(t >= Midnight(d + 1))
      <4>1. Midnight(d + 1) \in Nat
        BY MidnightIs
      <4> QED
        BY <4>1
    <3>4. ~(t < ChangeDay * DayLength) /\ ~(t >= Midnight(ChangeDay + 1))
      BY <2>2, <3>1, <3>2, <3>3, Zenon
    <3> QED
      BY <2>2, <3>4, Zenon DEF DayOf
  <2>3. CASE d > ChangeDay
    <3>1. Midnight(d) = d * DayLength + Shift /\ Midnight(d + 1) = d * DayLength + DayLength + Shift
      BY <1>0, <2>3, Multiples, ClockFacts DEF Midnight
    <3>2. /\ ChangeDay * DayLength + DayLength <= d * DayLength
          /\ ChangeDay * DayLength \in Nat /\ d * DayLength \in Nat
      BY <1>0, <2>3, Multiples
    <3>3. t - Shift \in Nat /\ d * DayLength <= t - Shift /\ t - Shift < d * DayLength + DayLength
      BY <3>1, <3>2, ClockFacts, Multiples
    <3>4. ~(t < ChangeDay * DayLength)
      BY <3>1, <3>2, ClockFacts, Multiples
    <3>5. t >= Midnight(ChangeDay + 1)
      <4>1. ChangeDay + 1 <= d
        BY <1>0, <2>3
      <4>2. Midnight(ChangeDay + 1) <= Midnight(d) /\ Midnight(ChangeDay + 1) \in Nat
        BY <1>0, <4>1, MidnightIs
      <4> QED
        BY <1>0, <4>2
    <3>6. (t - Shift) \div DayLength = d
      BY <3>3, Quotient
    <3> QED
      BY <3>4, <3>5, <3>6 DEF DayOf
  <2> QED
    BY <1>0, <2>1, <2>2, <2>3
<1> QED
  BY <1>1 DEF Clock

(* What the month leaves out as the morning of the day before, is. *)
LEMMA TailsStayOvernight ==
  ASSUME NEW e, NEW r, NEW d \in Nat, r.start \in Nat, r.end \in Nat,
         e.start = r.start, e.end = r.end, IsOvernightTail(Segment(e, d))
  PROVE  StaysOvernight(r, d)
<1> DEFINE s == Segment(e, d)
<1>1. /\ s.continuesBefore /\ s.event.start >= Midnight(DayOf(s.start) - 1)
      /\ s.event.end <= Morning(DayOf(s.start))
  BY DEF IsOvernightTail
<1>2. s.event = e /\ r.start < Midnight(d) /\ s.start = Midnight(d)
  BY <1>1, SegmentIs
<1> HIDE DEF s
<1>3. DayOf(Midnight(d)) = d
  BY MidnightIs, DayIs
<1>4. r.start >= Midnight(d - 1) /\ r.end <= Morning(d)
  BY <1>1, <1>2, <1>3
<1>5. d # 0
  BY <1>2, MidnightIs
<1>6. d - 1 \in Nat /\ (d - 1) + 1 = d
  BY <1>5
<1>7. Midnight(d - 1) \in Nat
  BY <1>6, MidnightIs
<1>8. DayOf(r.start) = d - 1
  BY <1>2, <1>4, <1>6, <1>7, DayIs
<1> QED
  BY <1>4, <1>8 DEF StaysOvernight

LEMMA ShownWhereItIs ==
  ASSUME TypeOK, loaded, NEW d \in VisibleDays, NEW i \in items, NEW r \in i.rows
  PROVE  LET segments == IF IsMonth THEN MonthCell(d) ELSE DayColumn(d)
             expected == /\ Visible(i, r) /\ Touches(r, d)
                         /\ IsMonth => i.kind = "reservation" /\ ~StaysOvernight(r, d)
         IN /\ expected => Of(segments, i, r) # {}
            /\ Of(segments, i, r) # {} => Touches(r, d)
            /\ i.kind # "block" => Cardinality(Of(segments, i, r)) <= 1
<1> DEFINE segments == IF IsMonth THEN MonthCell(d) ELSE DayColumn(d)
           expected == /\ Visible(i, r) /\ Touches(r, d)
                       /\ IsMonth => i.kind = "reservation" /\ ~StaysOvernight(r, d)
<1>1. /\ r.start \in Nat /\ r.end \in Nat /\ r.start < r.end
      /\ d \in Nat /\ Midnight(d) \in Nat /\ Midnight(d + 1) \in Nat
      /\ Midnight(d) < Midnight(d + 1)
  <2>1. d \in Nat
    BY FetchRangeCovers
  <2>2. Midnight(d) \in Nat /\ Midnight(d + 1) \in Nat /\ Midnight(d) < Midnight(d + 1)
    BY <2>1, MidnightIs
  <2>3. r.start \in Nat /\ r.end \in Nat /\ r.start < r.end
    BY ItemsAre
  <2> QED
    BY <2>1, <2>2, <2>3
<1>2. \A s \in segments : \E e \in CalendarEvents : s = Segment(e, d) /\ OnDay(e, d)
  BY DEF MonthCell, DayColumn, SplitByDay
<1>3. \A s \in Of(segments, i, r) : \E e \in EventsOf(i) :
        s = Segment(e, d) /\ OnDay(e, d) /\ e.start = r.start /\ e.end = r.end
  <2> SUFFICES ASSUME NEW s \in Of(segments, i, r)
               PROVE  \E e \in EventsOf(i) :
                        s = Segment(e, d) /\ OnDay(e, d) /\ e.start = r.start /\ e.end = r.end
    OBVIOUS
  <2> HIDE DEF segments
  <2>1. s \in segments /\ s.event.item = i /\ s.event.start = r.start /\ s.event.end = r.end
    BY DEF Of
  <2>2. PICK e \in CalendarEvents : s = Segment(e, d) /\ OnDay(e, d)
    BY <1>2, <2>1
  <2> QED
    BY <2>1, <2>2, SegmentIs, CalendarEventsAre
<1>4. ASSUME expected
      PROVE  Of(segments, i, r) # {}
  <2>1. r \in Fetched(i)
    <3>1. r.start < Midnight(d + 1) /\ r.end > Midnight(d)
      BY <1>4 DEF Touches
    <3>2. /\ FetchRange.start \in Nat /\ FetchRange.end \in Nat
          /\ FetchRange.start <= Midnight(d) /\ Midnight(d + 1) <= FetchRange.end
      BY FetchRangeCovers
    <3>3. r.start < FetchRange.end /\ r.end > FetchRange.start
      BY <1>1, <3>1, <3>2
    <3> QED
      BY <3>3 DEF Fetched
  <2>2. PICK e \in EventsOf(i) : e.start = r.start /\ e.end = r.end
    BY <1>4, <2>1, EventsAre
  <2>3. e \in CalendarEvents /\ e.item = i /\ OnDay(e, d)
    BY <1>4, <2>2, EventsAre, CalendarEventsAre DEF OnDay, Touches
  <2>4. Segment(e, d) \in segments
    <3>1. CASE IsMonth
      <4>1. ~IsOvernightTail(Segment(e, d)) /\ e.item.kind = "reservation"
        BY <1>1, <1>4, <2>2, <2>3, <3>1, TailsStayOvernight
      <4> QED
        BY <2>3, <3>1, <4>1 DEF MonthCell, SplitByDay
    <3>2. CASE ~IsMonth
      BY <2>3, <3>2 DEF DayColumn, SplitByDay
    <3> QED
      BY <3>1, <3>2
  <2> HIDE DEF segments
  <2>5. Segment(e, d) \in Of(segments, i, r)
    BY <2>2, <2>3, <2>4, SegmentIs DEF Of
  <2> QED
    BY <2>5
<1>5. ASSUME NEW s \in Of(segments, i, r)
      PROVE  Touches(r, d)
  <2>1. PICK e \in EventsOf(i) : OnDay(e, d) /\ e.start = r.start /\ e.end = r.end
    BY <1>3
  <2> QED
    BY <1>1, <2>1 DEF OnDay, Touches
<1>6. ASSUME i.kind # "block"
      PROVE  Cardinality(Of(segments, i, r)) <= 1
  <2> DEFINE found == Of(segments, i, r)
  <2>1. \A s, t \in found : s = t
    BY <1>3, <1>6, EventsAre
  <2> HIDE DEF found
  <2>2. ASSUME found = {}
        PROVE  Cardinality(found) = 0
    BY <2>2, FS_EmptySet
  <2>3. ASSUME NEW s \in found
        PROVE  Cardinality(found) = 1
    <3>1. found = {s}
      BY <2>1, <2>3
    <3>2. Cardinality({s}) = 1
      BY FS_Singleton
    <3> QED
      BY <3>1, <3>2
  <2>4. Cardinality(found) = 0 \/ Cardinality(found) = 1
    BY <2>2, <2>3
  <2>5. Cardinality(found) <= 1
    BY <2>4
  <2> QED
    BY <2>5 DEF found
<1> QED
  BY <1>4, <1>5, <1>6

(* calendarEvents with splitEventsByDay and isOvernightTail: whatever the    *)
(* server has and however the page got where it is, every row of an active   *)
(* resource is on each day that it touches, on no other, and once, only in   *)
(* the month not on the morning that an overnight reservation ends.          *)
THEOREM EverythingOnItsDays == Spec => []ShownOnItsDays
<1>1. TypeOK => ShownOnItsDays
  BY ShownWhereItIs DEF ShownOnItsDays, Shown
<1> QED
  BY <1>1, CalendarTyped, PTL

-----------------------------------------------------------------------------
(* Steps that are repeated, and rows of events *)

(* What holds of 0 and passes from each number to the next holds up to n. *)
LEMMA Climb ==
  ASSUME NEW n \in Nat, NEW P, 0 \in P, \A i \in 1..n : i - 1 \in P => i \in P
  PROVE  0..n \subseteq P
<1> DEFINE bad == (0..n) \ P
<1> SUFFICES ASSUME bad # {}
             PROVE  FALSE
  OBVIOUS
<1>1. bad \in SUBSET Nat
  OBVIOUS
<1> HIDE DEF bad
<1>2. PICK i \in bad : \A x \in bad : i <= x
  BY <1>1, HasFirst
<1> USE DEF bad
<1>3. i # 0 /\ i \in 1..n
  OBVIOUS
<1>4. i - 1 \in 0..n /\ ~ (i <= i - 1)
  BY <1>3
<1>5. i - 1 \in P
  BY <1>2, <1>4
<1> QED
  BY <1>3, <1>5

(* Stepping n times from a value always leads somewhere. *)
Closed(n, V, step) == \A v \in V : \A i \in 1..n : step[<<v, i>>] \in V
Ways(n, V, base, step) ==
  {f \in [0..n -> V] : f[0] = base /\ \A i \in 1..n : f[i] = step[<<f[i - 1], i>>]}

LEMMA Accumulates ==
  ASSUME NEW n \in Nat, NEW V, NEW base \in V, NEW step, Closed(n, V, step)
  PROVE  Ways(n, V, base, step) # {}
<1> DEFINE Way(k, f) == f[0] = base /\ \A i \in 1..k : f[i] = step[<<f[i - 1], i>>]
           P == {k \in 0..n : \E f \in [0..k -> V] : Way(k, f)}
<1>1. 0 \in P
  <2> DEFINE f == [i \in 0..0 |-> base]
  <2>1. f \in [0..0 -> V] /\ f[0] = base
    OBVIOUS
  <2> HIDE DEF f
  <2>2. Way(0, f)
    BY <2>1
  <2> HIDE DEF Way
  <2> QED
    BY <2>1, <2>2
<1>2. ASSUME NEW i \in 1..n, i - 1 \in P
      PROVE  i \in P
  <2>1. PICK f \in [0..(i - 1) -> V] : Way(i - 1, f)
    BY <1>2
  <2> DEFINE next == step[<<f[i - 1], i>>]
             g == [k \in 0..i |-> IF k = i THEN next ELSE f[k]]
  <2>2. next \in V
    <3>1. f[i - 1] \in V
      BY <2>1
    <3> QED
      BY <3>1 DEF Closed
  <2>3. g[i] = step[<<f[i - 1], i>>] /\ \A k \in 0..(i - 1) : g[k] = f[k]
    OBVIOUS
  <2>4. g \in [0..i -> V]
    <3> HIDE DEF next
    <3> QED
      BY <2>1, <2>2
  <2> HIDE DEF g, next
  <2>5. ASSUME NEW k \in 1..i
        PROVE  g[k] = step[<<g[k - 1], k>>]
    <3>1. CASE k = i
      <4>1. i - 1 \in 0..(i - 1)
        OBVIOUS
      <4>2. g[i - 1] = f[i - 1]
        BY <2>3, <4>1
      <4> QED
        BY <2>3, <3>1, <4>2
    <3>2. CASE k # i
      <4>1. k \in 1..(i - 1) /\ k \in 0..(i - 1) /\ k - 1 \in 0..(i - 1)
        BY <3>2
      <4>2. f[k] = step[<<f[k - 1], k>>]
        BY <2>1, <4>1
      <4> QED
        BY <2>3, <4>1, <4>2
    <3> QED
      BY <3>1, <3>2
  <2>6. g[0] = base
    BY <2>1, <2>3
  <2>7. Way(i, g)
    BY <2>5, <2>6
  <2> HIDE DEF Way
  <2> QED
    BY <2>4, <2>7
<1> HIDE DEF P
<1>3. n \in P
  BY <1>1, <1>2, Climb
<1> QED
  BY <1>3 DEF P, Ways

-----------------------------------------------------------------------------
(* Rows of events: the groups of a day, the columns of a group *)
Piles(S) == Seq(Seq(S) \ {<<>>})

(* after is rows with s put on top of the i-th, or on one of its own behind. *)
PutOn(after, rows, i, s) ==
  /\ Len(after) = IF i = Len(rows) + 1 THEN Len(rows) + 1 ELSE Len(rows)
  /\ \A j \in 1..Len(rows) : j # i => after[j] = rows[j]
  /\ after[i] = IF i = Len(rows) + 1 THEN <<s>> ELSE Append(rows[i], s)

LEMMA PutBehind ==
  ASSUME NEW S, NEW rows \in Piles(S), NEW s \in S
  PROVE  /\ Append(rows, <<s>>) \in Piles(S)
         /\ PutOn(Append(rows, <<s>>), rows, Len(rows) + 1, s)
<1> DEFINE T == Seq(S) \ {<<>>}
           unit == <<s>>
           after == Append(rows, unit)
<1>1. unit \in T
  OBVIOUS
<1>2. rows \in Seq(T) /\ Len(rows) \in Nat
  BY DEF Piles
<1> HIDE DEF T, unit
<1>3. /\ after \in Seq(T) /\ Len(after) = Len(rows) + 1
      /\ \A j \in 1..Len(rows) : after[j] = rows[j]
      /\ after[Len(rows) + 1] = unit
  BY <1>1, <1>2, AppendProperties
<1> HIDE DEF after
<1>4. PutOn(after, rows, Len(rows) + 1, s)
  BY <1>2, <1>3 DEF PutOn, unit
<1> QED
  BY <1>3, <1>4 DEF Piles, T, after, unit

LEMMA PutOver ==
  ASSUME NEW S, NEW rows \in Piles(S), NEW s \in S, NEW i \in 1..Len(rows)
  PROVE  /\ ReplaceAt(rows, i, Append(rows[i], s)) \in Piles(S)
         /\ PutOn(ReplaceAt(rows, i, Append(rows[i], s)), rows, i, s)
<1> DEFINE T == Seq(S) \ {<<>>}
           longer == Append(rows[i], s)
           after == ReplaceAt(rows, i, longer)
<1>1. rows \in Seq(T) /\ Len(rows) \in Nat /\ rows[i] \in T
  BY DEF Piles
<1>2. longer \in T
  BY <1>1, AppendProperties
<1> HIDE DEF T, longer
<1>3. after = [rows EXCEPT ![i] = longer]
  BY DEF ReplaceAt
<1>4. after \in Seq(T) /\ Len(after) = Len(rows)
  BY <1>1, <1>2, <1>3
<1>5. after[i] = longer /\ \A j \in 1..Len(rows) : j # i => after[j] = rows[j]
  BY <1>1, <1>3
<1> HIDE DEF after
<1>6. i # Len(rows) + 1
  BY <1>1
<1>7. PutOn(after, rows, i, s)
  BY <1>4, <1>5, <1>6 DEF PutOn, longer
<1> QED
  BY <1>4, <1>7 DEF Piles, T, after, longer

(* What is in a row then *)
LEMMA RangeAfterAppend ==
  ASSUME NEW S, NEW t \in Seq(S), NEW s \in S
  PROVE  Range(Append(t, s)) = Range(t) \cup {s}
<1> DEFINE u == Append(t, s)
<1>1. /\ u \in Seq(S) /\ Len(u) = Len(t) + 1
      /\ \A k \in 1..Len(t) : u[k] = t[k]
      /\ u[Len(t) + 1] = s
  BY AppendProperties
<1> HIDE DEF u
<1>2. DOMAIN u = 1..(Len(t) + 1) /\ DOMAIN t = 1..Len(t) /\ Len(t) \in Nat
  BY <1>1
<1>3. Range(u) = Range(t) \cup {s}
  BY <1>1, <1>2 DEF Range
<1> QED
  BY <1>3 DEF u

LEMMA InRow ==
  ASSUME NEW S, NEW t \in Seq(S), NEW s \in S
  PROVE  /\ Append(t, s) \in Seq(S) /\ Len(Append(t, s)) = Len(t) + 1
         /\ \A k \in 1..Len(t) : Append(t, s)[k] = t[k]
         /\ Append(t, s)[Len(t) + 1] = s
         /\ Range(<<s>>) = {s} /\ Len(<<s>>) = 1 /\ <<s>>[1] = s
         /\ Range(t) \subseteq S
<1>1. Range(<<s>>) = {s} /\ Len(<<s>>) = 1 /\ <<s>>[1] = s
  BY DEF Range
<1>2. DOMAIN t = 1..Len(t)
  OBVIOUS
<1>3. Range(t) \subseteq S
  BY <1>2 DEF Range
<1> QED
  BY <1>1, <1>3, AppendProperties

(* Events with times *)
Timed(S) == \A s \in S : s.start \in Nat /\ s.end \in Nat

LEMMA LayoutEnds ==
  ASSUME NEW S, Timed(S), NEW s \in S
  PROVE  /\ LayoutEnd(s) \in Nat /\ s.start \in Nat /\ s.start < LayoutEnd(s)
         /\ LayoutEnd(s) = IF s.end >= s.start + MinBlock THEN s.end ELSE s.start + MinBlock
         /\ MinBlock \in Nat \ {0}
<1>1. MinBlock \in Nat \ {0}
  BY LayoutAssumption
<1> QED
  BY <1>1 DEF Timed, LayoutEnd

LEMMA GroupStep ==
  ASSUME NEW S, Timed(S), NEW groups \in Piles(S), NEW s \in S
  PROVE  /\ NextInGroups(groups, s) \in Piles(S)
         /\ \/ Len(groups) # 0 /\ PutOn(NextInGroups(groups, s), groups, Len(groups), s)
            \/ /\ PutOn(NextInGroups(groups, s), groups, Len(groups) + 1, s)
               /\ Len(groups) # 0 => \A x \in Range(groups[Len(groups)]) : LayoutEnd(x) <= s.start
<1> DEFINE goesOn == groups # <<>> /\ \E x \in Range(Last(groups)) : s.start < LayoutEnd(x)
<1>1. /\ Len(groups) \in Nat /\ Len(groups) = 0 <=> groups = <<>>
      /\ \A i \in 1..Len(groups) : groups[i] \in Seq(S)
  <2>1. groups \in Seq(Seq(S) \ {<<>>})
    BY DEF Piles
  <2> QED
    BY <2>1
<1>2. NextInGroups(groups, s) = IF goesOn THEN ReplaceAt(groups, Len(groups), Append(groups[Len(groups)], s))
                                ELSE Append(groups, <<s>>)
  BY DEF NextInGroups, Last
<1>3. CASE goesOn
  <2>1. Len(groups) \in 1..Len(groups)
    BY <1>1, <1>3
  <2> QED
    BY <1>2, <1>3, <2>1, PutOver
<1>4. CASE ~goesOn
  <2>1. ASSUME Len(groups) # 0, NEW x \in Range(groups[Len(groups)])
        PROVE  LayoutEnd(x) <= s.start
    <3>1. Len(groups) \in 1..Len(groups)
      BY <1>1, <2>1
    <3>2. x \in S
      BY <1>1, <2>1, <3>1, InRow
    <3>3. ~(s.start < LayoutEnd(x))
      BY <1>1, <1>4, <2>1 DEF Last
    <3>4. LayoutEnd(x) \in Nat /\ s.start \in Nat
      BY <3>2, LayoutEnds
    <3> QED
      BY <3>3, <3>4
  <2> QED
    BY <1>2, <1>4, <2>1, PutBehind
<1> QED
  BY <1>3, <1>4

LEMMA ColumnStep ==
  ASSUME NEW S, Timed(S), NEW columns \in Piles(S), NEW s \in S
  PROVE  /\ NextInColumns(columns, s) \in Piles(S)
         /\ \/ \E i \in 1..Len(columns) : IsFree(columns[i], s) /\ PutOn(NextInColumns(columns, s), columns, i, s)
            \/ PutOn(NextInColumns(columns, s), columns, Len(columns) + 1, s)
<1> DEFINE free == {i \in 1..Len(columns) : IsFree(columns[i], s)}
<1>1. CASE free = {}
  <2>1. NextInColumns(columns, s) = Append(columns, <<s>>)
    BY <1>1 DEF NextInColumns
  <2> QED
    BY <2>1, PutBehind
<1>2. CASE free # {}
  <2>1. free \in SUBSET Nat
    OBVIOUS
  <2> DEFINE i == CHOOSE i \in free : \A j \in free : i <= j
  <2>2. i \in free
    <3> HIDE DEF free
    <3> QED
      BY <1>2, <2>1, HasFirst
  <2>3. NextInColumns(columns, s) = ReplaceAt(columns, i, Append(columns[i], s))
    BY <1>2 DEF NextInColumns
  <2> HIDE DEF i
  <2>4. i \in 1..Len(columns) /\ IsFree(columns[i], s)
    BY <2>2
  <2> QED
    BY <2>3, <2>4, PutOver
<1> QED
  BY <1>1, <1>2

(* Both are what their recursion says. *)
LEMMA GroupsAre ==
  ASSUME NEW S, Timed(S), NEW q \in Seq(S)
  PROVE  /\ GroupsAfter(q)[0] = <<>>
         /\ \A n \in 1..Len(q) : GroupsAfter(q)[n] = NextInGroups(GroupsAfter(q)[n - 1], q[n])
<1> DEFINE V == Piles(S)
           step == [p \in V \X (1..Len(q)) |-> NextInGroups(p[1], q[p[2]])]
           Rule(f) == f = [n \in 0..Len(q) |-> IF n = 0 THEN <<>> ELSE NextInGroups(f[n - 1], q[n])]
<1>1. <<>> \in V /\ Len(q) \in Nat
  BY DEF Piles
<1>2. ASSUME NEW v \in V, NEW n \in 1..Len(q)
      PROVE  step[<<v, n>>] = NextInGroups(v, q[n]) /\ step[<<v, n>>] \in V
  <2>1. q[n] \in S
    OBVIOUS
  <2>2. step[<<v, n>>] = NextInGroups(v, q[n])
    OBVIOUS
  <2> QED
    BY <2>1, <2>2, GroupStep
<1> HIDE DEF step, V
<1>3. PICK f \in [0..Len(q) -> V] : f[0] = <<>> /\ \A n \in 1..Len(q) : f[n] = step[<<f[n - 1], n>>]
  <2> DEFINE base == <<>>
             length == Len(q)
  <2>1. base \in V /\ length \in Nat /\ Closed(length, V, step)
    BY <1>1, <1>2 DEF Closed
  <2> HIDE DEF base, length
  <2>2. Ways(length, V, base, step) # {}
    BY <2>1, Accumulates
  <2> QED
    BY <2>2 DEF base, length, Ways
<1>4. \A n \in 0..Len(q) : f[n] = IF n = 0 THEN <<>> ELSE NextInGroups(f[n - 1], q[n])
  <2> SUFFICES ASSUME NEW n \in 0..Len(q), n # 0
               PROVE  f[n] = NextInGroups(f[n - 1], q[n])
    BY <1>3
  <2>1. n \in 1..Len(q) /\ n - 1 \in 0..Len(q)
    BY <1>1
  <2> QED
    BY <1>2, <1>3, <2>1
<1>5. Rule(f)
  BY <1>3, <1>4
<1>6. GroupsAfter(q) = CHOOSE g : Rule(g)
  BY DEF GroupsAfter
<1>7. Rule(GroupsAfter(q))
  <2> HIDE DEF Rule
  <2> QED
    BY <1>5, <1>6
<1> DEFINE g == GroupsAfter(q)
<1> HIDE DEF g
<1>8. g = [n \in 0..Len(q) |-> IF n = 0 THEN <<>> ELSE NextInGroups(g[n - 1], q[n])]
  BY <1>7 DEF g
<1>9. g[0] = <<>> /\ \A n \in 1..Len(q) : g[n] = NextInGroups(g[n - 1], q[n])
  BY <1>1, <1>8
<1> QED
  BY <1>9 DEF g

LEMMA ColumnsAre ==
  ASSUME NEW S, Timed(S), NEW q \in Seq(S)
  PROVE  /\ ColumnsAfter(q)[0] = <<>>
         /\ \A n \in 1..Len(q) : ColumnsAfter(q)[n] = NextInColumns(ColumnsAfter(q)[n - 1], q[n])
<1> DEFINE V == Piles(S)
           step == [p \in V \X (1..Len(q)) |-> NextInColumns(p[1], q[p[2]])]
           Rule(f) == f = [n \in 0..Len(q) |-> IF n = 0 THEN <<>> ELSE NextInColumns(f[n - 1], q[n])]
<1>1. <<>> \in V /\ Len(q) \in Nat
  BY DEF Piles
<1>2. ASSUME NEW v \in V, NEW n \in 1..Len(q)
      PROVE  step[<<v, n>>] = NextInColumns(v, q[n]) /\ step[<<v, n>>] \in V
  <2>1. q[n] \in S
    OBVIOUS
  <2>2. step[<<v, n>>] = NextInColumns(v, q[n])
    OBVIOUS
  <2> QED
    BY <2>1, <2>2, ColumnStep
<1> HIDE DEF step, V
<1>3. PICK f \in [0..Len(q) -> V] : f[0] = <<>> /\ \A n \in 1..Len(q) : f[n] = step[<<f[n - 1], n>>]
  <2> DEFINE base == <<>>
             length == Len(q)
  <2>1. base \in V /\ length \in Nat /\ Closed(length, V, step)
    BY <1>1, <1>2 DEF Closed
  <2> HIDE DEF base, length
  <2>2. Ways(length, V, base, step) # {}
    BY <2>1, Accumulates
  <2> QED
    BY <2>2 DEF base, length, Ways
<1>4. \A n \in 0..Len(q) : f[n] = IF n = 0 THEN <<>> ELSE NextInColumns(f[n - 1], q[n])
  <2> SUFFICES ASSUME NEW n \in 0..Len(q), n # 0
               PROVE  f[n] = NextInColumns(f[n - 1], q[n])
    BY <1>3
  <2>1. n \in 1..Len(q) /\ n - 1 \in 0..Len(q)
    BY <1>1
  <2> QED
    BY <1>2, <1>3, <2>1
<1>5. Rule(f)
  BY <1>3, <1>4
<1>6. ColumnsAfter(q) = CHOOSE g : Rule(g)
  BY DEF ColumnsAfter
<1>7. Rule(ColumnsAfter(q))
  <2> HIDE DEF Rule
  <2> QED
    BY <1>5, <1>6
<1> DEFINE g == ColumnsAfter(q)
<1> HIDE DEF g
<1>8. g = [n \in 0..Len(q) |-> IF n = 0 THEN <<>> ELSE NextInColumns(g[n - 1], q[n])]
  BY <1>7 DEF g
<1>9. g[0] = <<>> /\ \A n \in 1..Len(q) : g[n] = NextInColumns(g[n - 1], q[n])
  BY <1>1, <1>8
<1> QED
  BY <1>9 DEF g

(* What is in a row after s was put on the i-th *)
Held(rows, j) == IF j \in 1..Len(rows) THEN Range(rows[j]) ELSE {}

LEMMA PutParts ==
  ASSUME NEW S, NEW rows \in Piles(S), NEW s \in S, NEW i \in 1..(Len(rows) + 1), NEW after,
         PutOn(after, rows, i, s)
  PROVE  /\ 1..Len(rows) \subseteq 1..Len(after) /\ i \in 1..Len(after)
         /\ \A j \in 1..Len(after) : j # i => j \in 1..Len(rows) /\ after[j] = rows[j]
         /\ \A j \in 1..Len(after) : Range(after[j]) = Held(rows, j) \cup (IF j = i THEN {s} ELSE {})
         /\ \A j \in 1..Len(rows) : rows[j] \in Seq(S) /\ Range(rows[j]) \subseteq S /\ Range(rows[j]) # {}
<1>1. /\ Len(rows) \in Nat
      /\ \A j \in 1..Len(rows) : rows[j] \in Seq(S) /\ rows[j] # <<>>
  <2>1. rows \in Seq(Seq(S) \ {<<>>})
    BY DEF Piles
  <2> QED
    BY <2>1
<1>2. ASSUME NEW j \in 1..Len(rows)
      PROVE  Range(rows[j]) \subseteq S /\ Range(rows[j]) # {}
  <2>1. rows[j][1] \in Range(rows[j])
    <3>1. 1 \in DOMAIN rows[j]
      BY <1>1
    <3> QED
      BY <3>1 DEF Range
  <2> QED
    BY <1>1, <2>1, InRow
<1>3. Len(after) = IF i = Len(rows) + 1 THEN Len(rows) + 1 ELSE Len(rows)
  BY DEF PutOn
<1>4. 1..Len(rows) \subseteq 1..Len(after) /\ i \in 1..Len(after)
  BY <1>1, <1>3
<1>5. \A j \in 1..Len(after) : j # i => j \in 1..Len(rows) /\ after[j] = rows[j]
  BY <1>1, <1>3 DEF PutOn
<1>6. Range(after[i]) = Held(rows, i) \cup {s}
  <2>1. CASE i = Len(rows) + 1
    <3>1. after[i] = <<s>> /\ i \notin 1..Len(rows)
      BY <1>1, <2>1 DEF PutOn
    <3>2. Range(<<s>>) = {s}
      BY DEF Range
    <3> QED
      BY <3>1, <3>2 DEF Held
  <2>2. CASE i # Len(rows) + 1
    <3> DEFINE row == rows[i]
    <3>1. after[i] = Append(row, s) /\ i \in 1..Len(rows) /\ row \in Seq(S)
      BY <1>1, <2>2 DEF PutOn
    <3> HIDE DEF row
    <3>2. Range(Append(row, s)) = Range(row) \cup {s}
      BY <3>1, RangeAfterAppend
    <3> QED
      BY <3>1, <3>2 DEF Held, row
  <2> QED
    BY <2>1, <2>2
<1> QED
  BY <1>1, <1>2, <1>4, <1>5, <1>6 DEF Held

Sorted(q) == \A i \in 1..(Len(q) - 1) : q[i].start <= q[i + 1].start

(* After n events: every group has ended when a later one begins, and none *)
(* of their events is later than the next.                                 *)
GroupsInOrder(groups, q, n) ==
  /\ \A a, b \in 1..Len(groups) : a < b =>
       \A x \in Range(groups[a]), y \in Range(groups[b]) : LayoutEnd(x) <= y.start
  /\ n < Len(q) => \A a \in 1..Len(groups) : \A x \in Range(groups[a]) : x.start <= q[n + 1].start

LEMMA NextInOrder ==
  ASSUME NEW S, Timed(S), NEW q \in Seq(S), Sorted(q), NEW n \in 1..Len(q),
         NEW groups \in Piles(S), GroupsInOrder(groups, q, n - 1)
  PROVE  GroupsInOrder(NextInGroups(groups, q[n]), q, n)
<1> DEFINE s == q[n]
           after == NextInGroups(groups, s)
<1>1. s \in S /\ s.start \in Nat /\ n \in Nat /\ Len(q) \in Nat /\ Len(groups) \in Nat
  BY LayoutEnds DEF Piles
<1>2. \A a \in 1..Len(groups) : \A x \in Range(groups[a]) : x.start <= s.start
  BY <1>1 DEF GroupsInOrder
<1>3. PICK i \in 1..(Len(groups) + 1) :
        /\ PutOn(after, groups, i, s) /\ i \in {Len(groups), Len(groups) + 1}
        /\ i = Len(groups) + 1 /\ Len(groups) # 0 =>
             \A x \in Range(groups[Len(groups)]) : LayoutEnd(x) <= s.start
  <2>1. \/ Len(groups) # 0 /\ PutOn(after, groups, Len(groups), s)
        \/ /\ PutOn(after, groups, Len(groups) + 1, s)
           /\ Len(groups) # 0 => \A x \in Range(groups[Len(groups)]) : LayoutEnd(x) <= s.start
    BY <1>1, GroupStep
  <2> HIDE DEF after
  <2>2. CASE Len(groups) # 0 /\ PutOn(after, groups, Len(groups), s)
    <3>1. Len(groups) \in 1..(Len(groups) + 1) /\ Len(groups) # Len(groups) + 1
      BY <1>1, <2>2
    <3> QED
      BY <2>2, <3>1
  <2>3. CASE /\ PutOn(after, groups, Len(groups) + 1, s)
             /\ Len(groups) # 0 => \A x \in Range(groups[Len(groups)]) : LayoutEnd(x) <= s.start
    <3>1. Len(groups) + 1 \in 1..(Len(groups) + 1)
      BY <1>1
    <3> QED
      BY <2>3, <3>1
  <2> QED
    BY <2>1, <2>2, <2>3
<1> HIDE DEF after
<1>4. /\ 1..Len(groups) \subseteq 1..Len(after) /\ i \in 1..Len(after)
      /\ \A j \in 1..Len(after) : j # i => j \in 1..Len(groups) /\ after[j] = groups[j]
      /\ \A j \in 1..Len(after) : Range(after[j]) = Held(groups, j) \cup (IF j = i THEN {s} ELSE {})
      /\ \A j \in 1..Len(groups) : Range(groups[j]) \subseteq S /\ Range(groups[j]) # {}
  BY <1>1, <1>3, PutParts
<1> HIDE DEF s
<1>5. ASSUME NEW a \in 1..Len(groups), a < i, NEW x \in Range(groups[a])
      PROVE  LayoutEnd(x) <= s.start
  <2>1. x \in S /\ LayoutEnd(x) \in Nat
    BY <1>4, LayoutEnds
  <2>2. CASE a = Len(groups)
    BY <1>1, <1>3, <1>5, <2>2
  <2>3. CASE a < Len(groups)
    <3>1. Len(groups) \in 1..Len(groups)
      BY <1>1, <2>3
    <3>2. PICK y \in Range(groups[Len(groups)]) : TRUE
      BY <1>4, <3>1
    <3>3. y.start <= s.start /\ LayoutEnd(x) <= y.start /\ y.start \in Nat
      BY <1>2, <1>4, <1>5, <2>3, <3>1, <3>2, LayoutEnds DEF GroupsInOrder
    <3> QED
      BY <1>1, <2>1, <3>3
  <2> QED
    BY <1>1, <2>2, <2>3
<1>6. ASSUME NEW a \in 1..Len(after), NEW b \in 1..Len(after), a < b,
             NEW x \in Range(after[a]), NEW y \in Range(after[b])
      PROVE  LayoutEnd(x) <= y.start
  <2>1. a \in Nat /\ b \in Nat /\ i \in Nat /\ Len(after) = IF i = Len(groups) + 1 THEN Len(groups) + 1 ELSE Len(groups)
    BY <1>1, <1>3 DEF PutOn
  <2>3. a # i /\ a \in 1..Len(groups) /\ x \in Range(groups[a])
    BY <1>1, <1>3, <1>4, <1>6, <2>1
  <2>4. CASE y = s /\ b = i
    BY <1>5, <1>6, <2>3, <2>4
  <2>5. CASE b \in 1..Len(groups) /\ y \in Range(groups[b])
    BY <1>6, <2>3, <2>5 DEF GroupsInOrder
  <2>6. y \in Held(groups, b) \cup (IF b = i THEN {s} ELSE {})
    BY <1>4, <1>6
  <2>7. (b \in 1..Len(groups) /\ y \in Range(groups[b])) \/ (y = s /\ b = i)
    BY <2>6 DEF Held
  <2> QED
    BY <2>4, <2>5, <2>7
<1>7. ASSUME n < Len(q), NEW a \in 1..Len(after), NEW x \in Range(after[a])
      PROVE  x.start <= q[n + 1].start
  <2>1. s.start <= q[n + 1].start /\ q[n + 1] \in S
    <3>1. n \in 1..(Len(q) - 1) /\ n + 1 \in 1..Len(q)
      BY <1>1, <1>7
    <3> QED
      BY <3>1 DEF Sorted, s
  <2>2. q[n + 1].start \in Nat
    BY <2>1, LayoutEnds
  <2>3. x = s \/ (a \in 1..Len(groups) /\ x \in Range(groups[a]))
    BY <1>4, <1>7 DEF Held
  <2>4. x.start <= s.start /\ x.start \in Nat
    BY <1>1, <1>2, <1>4, <2>3, LayoutEnds
  <2> DEFINE u == x.start
             v == s.start
             w == q[n + 1].start
  <2>5. u <= v /\ v <= w /\ u \in Nat /\ v \in Nat /\ w \in Nat
    BY <1>1, <2>1, <2>2, <2>4
  <2> HIDE DEF u, v, w
  <2>6. u <= w
    BY <2>5
  <2> QED
    BY <2>6 DEF u, w
<1>8. GroupsInOrder(after, q, n)
  BY <1>6, <1>7 DEF GroupsInOrder
<1> QED
  BY <1>8 DEF after, s

(* After n events: in a column each event begins when those before it have *)
(* ended, and every event so far is in one.                                *)
ColumnsInOrder(columns, q, n) ==
  /\ \A a \in 1..Len(columns) : \A k, l \in 1..Len(columns[a]) :
       k < l => LayoutEnd(columns[a][k]) <= columns[a][l].start
  /\ \A m \in 1..n : \E a \in 1..Len(columns) : q[m] \in Range(columns[a])

LEMMA NextInColumn ==
  ASSUME NEW S, Timed(S), NEW q \in Seq(S), NEW n \in 1..Len(q),
         NEW columns \in Piles(S), ColumnsInOrder(columns, q, n - 1)
  PROVE  ColumnsInOrder(NextInColumns(columns, q[n]), q, n)
<1> DEFINE s == q[n]
           after == NextInColumns(columns, s)
<1>1. s \in S /\ s.start \in Nat /\ n \in Nat /\ Len(q) \in Nat /\ Len(columns) \in Nat
  BY LayoutEnds DEF Piles
<1>2. PICK i \in 1..(Len(columns) + 1) :
        PutOn(after, columns, i, s) /\ (i # Len(columns) + 1 => IsFree(columns[i], s))
  <2>1. \/ \E i \in 1..Len(columns) : IsFree(columns[i], s) /\ PutOn(after, columns, i, s)
        \/ PutOn(after, columns, Len(columns) + 1, s)
    BY <1>1, ColumnStep
  <2> HIDE DEF after
  <2>2. Len(columns) + 1 \in 1..(Len(columns) + 1) /\ 1..Len(columns) \subseteq 1..(Len(columns) + 1)
    BY <1>1
  <2> QED
    BY <2>1, <2>2
<1> HIDE DEF after, s
<1>3. /\ 1..Len(columns) \subseteq 1..Len(after) /\ i \in 1..Len(after)
      /\ \A j \in 1..Len(after) : j # i => j \in 1..Len(columns) /\ after[j] = columns[j]
      /\ \A j \in 1..Len(after) : Range(after[j]) = Held(columns, j) \cup (IF j = i THEN {s} ELSE {})
      /\ \A j \in 1..Len(columns) : columns[j] \in Seq(S) /\ Range(columns[j]) # {}
  BY <1>1, <1>2, PutParts
<1>4. ASSUME NEW k \in 1..Len(after[i]), NEW l \in 1..Len(after[i]), k < l
      PROVE  LayoutEnd(after[i][k]) <= after[i][l].start
  <2>1. CASE i = Len(columns) + 1
    <3>1. after[i] = <<s>>
      BY <2>1, <1>2 DEF PutOn
    <3>2. Len(<<s>>) = 1
      OBVIOUS
    <3> QED
      BY <1>4, <3>1, <3>2
  <2>2. CASE i # Len(columns) + 1
    <3> DEFINE column == columns[i]
    <3>1. i \in 1..Len(columns) /\ after[i] = Append(column, s) /\ column \in Seq(S)
      BY <1>1, <1>2, <1>3, <2>2 DEF PutOn
    <3> HIDE DEF column
    <3>2. /\ Len(after[i]) = Len(column) + 1 /\ Len(column) \in Nat
          /\ \A m \in 1..Len(column) : after[i][m] = column[m] /\ column[m] \in S
          /\ after[i][Len(column) + 1] = s
      BY <1>1, <3>1, InRow
    <3>3. k \in 1..Len(column) /\ k \in Nat /\ l \in Nat
      BY <1>4, <3>2
    <3>4. CASE l \in 1..Len(column)
      BY <1>4, <3>1, <3>2, <3>3, <3>4 DEF ColumnsInOrder, column
    <3>5. CASE l = Len(column) + 1
      <4> DEFINE top == column[Len(column)]
                 below == column[k]
      <4>1. LayoutEnd(top) <= s.start
        BY <1>2, <2>2 DEF IsFree, Last, column
      <4>2. Len(column) \in 1..Len(column)
        BY <3>2, <3>3
      <4>3. LayoutEnd(top) \in Nat /\ top.start \in Nat /\ top.start < LayoutEnd(top) /\ LayoutEnd(below) \in Nat
        BY <3>2, <3>3, <4>2, LayoutEnds
      <4>4. k # Len(column) => LayoutEnd(below) <= top.start
        <5>1. k # Len(column) => k < Len(column)
          BY <3>2, <3>3
        <5> QED
          BY <3>1, <3>3, <4>2, <5>1 DEF ColumnsInOrder, column
      <4>5. k = Len(column) => below = top
        OBVIOUS
      <4> HIDE DEF top, below
      <4>6. LayoutEnd(below) <= s.start
        BY <1>1, <4>1, <4>3, <4>4, <4>5
      <4>7. after[i][k] = below /\ after[i][l] = s
        BY <3>2, <3>3, <3>5 DEF below
      <4> QED
        BY <4>6, <4>7
    <3> QED
      BY <1>4, <3>2, <3>4, <3>5
  <2> QED
    BY <2>1, <2>2
<1>5. ASSUME NEW a \in 1..Len(after), NEW k \in 1..Len(after[a]), NEW l \in 1..Len(after[a]), k < l
      PROVE  LayoutEnd(after[a][k]) <= after[a][l].start
  <2>1. CASE a = i
    BY <1>4, <1>5, <2>1
  <2>2. CASE a # i
    BY <1>3, <1>5, <2>2 DEF ColumnsInOrder
  <2> QED
    BY <2>1, <2>2
<1>6. ASSUME NEW m \in 1..n
      PROVE  \E a \in 1..Len(after) : q[m] \in Range(after[a])
  <2>1. CASE m = n
    BY <1>3, <2>1 DEF s
  <2>2. CASE m # n
    <3>1. m \in 1..(n - 1)
      BY <1>1, <2>2
    <3>2. PICK a \in 1..Len(columns) : q[m] \in Range(columns[a])
      BY <3>1 DEF ColumnsInOrder
    <3>3. a \in 1..Len(after) /\ q[m] \in Range(after[a])
      BY <1>3, <3>2 DEF Held
    <3> QED
      BY <3>3
  <2> QED
    BY <2>1, <2>2
<1>7. ColumnsInOrder(after, q, n)
  BY <1>5, <1>6 DEF ColumnsInOrder
<1> QED
  BY <1>7 DEF after, s

LEMMA GroupsSorted ==
  ASSUME NEW S, Timed(S), NEW q \in Seq(S), Sorted(q)
  PROVE  Groups(q) \in Piles(S) /\ GroupsInOrder(Groups(q), q, Len(q))
<1> DEFINE g == GroupsAfter(q)
           P == {n \in 0..Len(q) : g[n] \in Piles(S) /\ GroupsInOrder(g[n], q, n)}
<1>1. Len(q) \in Nat /\ <<>> \in Piles(S)
  BY DEF Piles
<1>2. g[0] = <<>> /\ \A n \in 1..Len(q) : g[n] = NextInGroups(g[n - 1], q[n])
  BY GroupsAre
<1> HIDE DEF g
<1>3. 0 \in P
  BY <1>1, <1>2 DEF GroupsInOrder
<1>4. ASSUME NEW n \in 1..Len(q), n - 1 \in P
      PROVE  n \in P
  <2> DEFINE before == g[n - 1]
  <2>1. before \in Piles(S) /\ GroupsInOrder(before, q, n - 1) /\ g[n] = NextInGroups(before, q[n])
    BY <1>2, <1>4
  <2>2. q[n] \in S /\ n \in 0..Len(q)
    BY <1>1
  <2> HIDE DEF before
  <2>3. g[n] \in Piles(S)
    BY <2>1, <2>2, GroupStep
  <2>4. GroupsInOrder(g[n], q, n)
    BY <2>1, NextInOrder
  <2> QED
    BY <2>2, <2>3, <2>4
<1>5. Len(q) \in P
  <2> HIDE DEF P
  <2>1. 0..Len(q) \subseteq P
    BY <1>1, <1>3, <1>4, Climb
  <2> QED
    BY <1>1, <2>1
<1> QED
  BY <1>5 DEF g, Groups

LEMMA ColumnsSorted ==
  ASSUME NEW S, Timed(S), NEW q \in Seq(S)
  PROVE  Columns(q) \in Piles(S) /\ ColumnsInOrder(Columns(q), q, Len(q))
<1> DEFINE g == ColumnsAfter(q)
           P == {n \in 0..Len(q) : g[n] \in Piles(S) /\ ColumnsInOrder(g[n], q, n)}
<1>1. Len(q) \in Nat /\ <<>> \in Piles(S)
  BY DEF Piles
<1>2. g[0] = <<>> /\ \A n \in 1..Len(q) : g[n] = NextInColumns(g[n - 1], q[n])
  BY ColumnsAre
<1> HIDE DEF g
<1>3. 0 \in P
  BY <1>1, <1>2 DEF ColumnsInOrder
<1>4. ASSUME NEW n \in 1..Len(q), n - 1 \in P
      PROVE  n \in P
  <2> DEFINE before == g[n - 1]
  <2>1. before \in Piles(S) /\ ColumnsInOrder(before, q, n - 1) /\ g[n] = NextInColumns(before, q[n])
    BY <1>2, <1>4
  <2>2. q[n] \in S /\ n \in 0..Len(q)
    BY <1>1
  <2> HIDE DEF before
  <2>3. g[n] \in Piles(S)
    BY <2>1, <2>2, ColumnStep
  <2>4. ColumnsInOrder(g[n], q, n)
    BY <2>1, NextInColumn
  <2> QED
    BY <2>2, <2>3, <2>4
<1>5. Len(q) \in P
  <2> HIDE DEF P
  <2>1. 0..Len(q) \subseteq P
    BY <1>1, <1>3, <1>4, Climb
  <2> QED
    BY <1>1, <2>1
<1> QED
  BY <1>5 DEF g, Columns

(* Every event of a group is in the column it is placed in. *)
LEMMA PlaceIs ==
  ASSUME NEW S, Timed(S), NEW q \in Seq(S), NEW s \in Range(q)
  PROVE  /\ Place(s, Columns(q)) \in 1..Len(Columns(q))
         /\ s \in Range(Columns(q)[Place(s, Columns(q))])
<1>1. DOMAIN q = 1..Len(q) /\ Len(q) \in Nat
  OBVIOUS
<1>2. PICK m \in 1..Len(q) : q[m] = s
  BY <1>1 DEF Range
<1>3. \E i \in 1..Len(Columns(q)) : s \in Range(Columns(q)[i])
  <2>1. ColumnsInOrder(Columns(q), q, Len(q))
    BY ColumnsSorted
  <2> QED
    BY <1>2, <2>1 DEF ColumnsInOrder
<1> QED
  BY <1>3 DEF Place

(* Two that are placed in one column are not there at the same time. *)
LEMMA OneAfterTheOther ==
  ASSUME NEW S, Timed(S), NEW q \in Seq(S), Sorted(q),
         NEW p \in Placed(q), NEW r \in Placed(q), p # r,
         p.col < r.col + r.span, r.col < p.col + p.span
  PROVE  /\ p.segment \in S /\ r.segment \in S
         /\ \/ LayoutEnd(p.segment) <= r.segment.start
            \/ LayoutEnd(r.segment) <= p.segment.start
<1> DEFINE groups == Groups(q)
<1>1. groups \in Piles(S) /\ GroupsInOrder(groups, q, Len(q))
  BY GroupsSorted
<1>2. /\ DOMAIN groups = 1..Len(groups) /\ Len(groups) \in Nat
      /\ \A a \in 1..Len(groups) : groups[a] \in Seq(S)
  <2>1. groups \in Seq(Seq(S) \ {<<>>})
    BY <1>1 DEF Piles
  <2> HIDE DEF groups
  <2> QED
    BY <2>1
<1>3. ASSUME NEW x \in Placed(q)
      PROVE  \E a \in 1..Len(groups) :
               x.segment \in Range(groups[a]) /\ x.segment \in S
               /\ x = [segment |-> x.segment, col |-> Place(x.segment, Columns(groups[a])), span |-> 1]
  <2>1. PICK g \in Range(groups) : \E s \in Range(g) : x = [segment |-> s, col |-> Place(s, Columns(g)), span |-> 1]
    BY DEF Placed, Span
  <2>2. PICK s \in Range(g) : x = [segment |-> s, col |-> Place(s, Columns(g)), span |-> 1]
    BY <2>1
  <2> HIDE DEF groups
  <2>3. PICK a \in 1..Len(groups) : g = groups[a]
    BY <1>2 DEF Range
  <2>4. s \in S
    <3>1. g \in Seq(S)
      BY <1>2, <2>3
    <3>2. DOMAIN g = 1..Len(g)
      BY <3>1
    <3> QED
      BY <2>2, <3>1, <3>2 DEF Range
  <2>5. x.segment = s
    BY <2>2
  <2> QED
    BY <2>2, <2>3, <2>4, <2>5
<1>4. PICK a \in 1..Len(groups) :
        /\ p.segment \in Range(groups[a]) /\ p.segment \in S
        /\ p = [segment |-> p.segment, col |-> Place(p.segment, Columns(groups[a])), span |-> 1]
  BY <1>3
<1>5. PICK b \in 1..Len(groups) :
        /\ r.segment \in Range(groups[b]) /\ r.segment \in S
        /\ r = [segment |-> r.segment, col |-> Place(r.segment, Columns(groups[b])), span |-> 1]
  BY <1>3
<1> HIDE DEF groups
<1>6. CASE a = b
  <2> DEFINE group == groups[a]
             columns == Columns(group)
             s == p.segment
             t == r.segment
  <2>1. group \in Seq(S) /\ s \in Range(group) /\ t \in Range(group)
    BY <1>2, <1>4, <1>5, <1>6
  <2>2. /\ p = [segment |-> s, col |-> Place(s, columns), span |-> 1]
        /\ r = [segment |-> t, col |-> Place(t, columns), span |-> 1]
    BY <1>4, <1>5, <1>6
  <2>3. p.col = Place(s, columns) /\ r.col = Place(t, columns) /\ p.span = 1 /\ r.span = 1
    <3> HIDE DEF s, t, columns
    <3> QED
      BY <2>2
  <2>4. s # t
    <3> HIDE DEF s, t, columns
    <3> QED
      BY <2>2
  <2> HIDE DEF group, s, t
  <2>5. /\ Place(s, columns) \in 1..Len(columns) /\ s \in Range(columns[Place(s, columns)])
        /\ Place(t, columns) \in 1..Len(columns) /\ t \in Range(columns[Place(t, columns)])
    BY <2>1, PlaceIs
  <2>6. columns \in Piles(S) /\ ColumnsInOrder(columns, group, Len(group))
    BY <2>1, ColumnsSorted
  <2> HIDE DEF columns
  <2> DEFINE i == Place(s, columns)
             j == Place(t, columns)
             column == columns[i]
  <2>7. i = j
    <3>1. i < j + 1 /\ j < i + 1
      BY <2>3
    <3>2. i \in Nat /\ j \in Nat
      BY <2>5
    <3> HIDE DEF i, j
    <3> QED
      BY <3>1, <3>2
  <2>8. s \in Range(column) /\ t \in Range(column)
    BY <2>5, <2>7
  <2>9. column \in Seq(S) /\ i \in 1..Len(columns)
    <3>1. columns \in Seq(Seq(S) \ {<<>>})
      BY <2>6 DEF Piles
    <3> HIDE DEF i
    <3> QED
      BY <2>5, <3>1 DEF i
  <2>10. \A k, l \in 1..Len(column) : k < l => LayoutEnd(column[k]) <= column[l].start
    BY <2>6, <2>9 DEF ColumnsInOrder
  <2> HIDE DEF column, i, j
  <2>11. DOMAIN column = 1..Len(column) /\ Len(column) \in Nat
    BY <2>9
  <2>12. PICK k \in 1..Len(column) : column[k] = s
    BY <2>8, <2>11 DEF Range
  <2>13. PICK l \in 1..Len(column) : column[l] = t
    BY <2>8, <2>11 DEF Range
  <2>14. k < l \/ l < k
    BY <2>4, <2>11, <2>12, <2>13
  <2>15. LayoutEnd(s) <= t.start \/ LayoutEnd(t) <= s.start
    BY <2>10, <2>12, <2>13, <2>14
  <2> QED
    BY <1>4, <1>5, <2>15 DEF s, t
<1>7. CASE a # b
  <2>1. a < b \/ b < a
    BY <1>2, <1>7
  <2> QED
    BY <1>1, <1>4, <1>5, <2>1 DEF GroupsInOrder
<1> QED
  BY <1>6, <1>7

LEMMA ImageIsFinite ==
  ASSUME NEW S, IsFiniteSet(S), NEW f
  PROVE  IsFiniteSet({f[x] : x \in S})
<1> DEFINE T == {f[x] : x \in S}
           g == [x \in S |-> f[x]]
<1>1. g \in Surjection(S, T)
  BY DEF Surjection
<1> HIDE DEF g, T
<1>2. IsFiniteSet(T)
  BY <1>1, FS_Surjection
<1> QED
  BY <1>2 DEF T

(* There are finitely many events, and finitely many parts of them on a day. *)
LEMMA EventsAreFinite ==
  ASSUME TypeOK, NEW i \in items
  PROVE  IsFiniteSet(EventsOf(i))
<1> DEFINE active == {r \in Fetched(i) : r.resource \in ActiveResources}
           everywhere == {r \in Fetched(i) : r.resource = None}
<1>1. IsFiniteSet(i.rows)
  BY CalendarAssumption DEF TypeOK
<1>2. Fetched(i) \subseteq i.rows
  BY DEF Fetched
<1>3. ASSUME NEW rows, rows \subseteq i.rows
      PROVE  IsFiniteSet(Grouped(i, rows))
  <2> DEFINE event == [r \in rows |->
               Event(i, r.start, r.end, {x.resource : x \in {y \in rows : y.start = r.start /\ y.end = r.end}})]
  <2>1. IsFiniteSet(rows)
    BY <1>1, <1>3, FS_Subset
  <2>2. Grouped(i, rows) = {event[r] : r \in rows}
    BY DEF Grouped
  <2> HIDE DEF event
  <2> QED
    BY <2>1, <2>2, ImageIsFinite
<1>4. active \subseteq i.rows /\ everywhere \subseteq i.rows
  BY <1>2
<1>5. CASE i.kind = "reservation"
  <2>1. EventsOf(i) = IF i.cancelled THEN {} ELSE Grouped(i, active)
    BY <1>5 DEF EventsOf
  <2> HIDE DEF active
  <2> QED
    BY <1>3, <1>4, <2>1, FS_EmptySet
<1>6. CASE i.kind = "restriction"
  <2> DEFINE rows == active \cup everywhere
  <2>1. EventsOf(i) = IF ActiveResources = {} THEN {} ELSE Grouped(i, rows)
    BY <1>6 DEF EventsOf
  <2>2. rows \subseteq i.rows
    BY <1>4
  <2> HIDE DEF rows
  <2> QED
    BY <1>3, <2>1, <2>2, FS_EmptySet
<1>7. CASE i.kind = "block"
  <2> DEFINE rows == {x \in active : ~x.reserved}
             event == [r \in rows |-> Event(i, r.start, r.end, {r.resource})]
  <2>1. EventsOf(i) = {Event(i, r.start, r.end, {r.resource}) : r \in rows}
    BY <1>7 DEF EventsOf
  <2>2. rows \subseteq i.rows
    BY <1>4
  <2> HIDE DEF rows
  <2>3. IsFiniteSet(rows)
    BY <1>1, <2>2, FS_Subset
  <2>4. EventsOf(i) = {event[r] : r \in rows}
    BY <2>1
  <2> HIDE DEF event
  <2> QED
    BY <2>3, <2>4, ImageIsFinite
<1> QED
  BY <1>5, <1>6, <1>7, ItemsAre

LEMMA DayColumnIsFinite ==
  ASSUME TypeOK, loaded, NEW d
  PROVE  IsFiniteSet(DayColumn(d))
<1>1. IsFiniteSet(items)
  BY CalendarAssumption DEF TypeOK
<1> DEFINE of == [i \in items |-> EventsOf(i)]
           sets == {of[i] : i \in items}
<1>2. \A T \in sets : IsFiniteSet(T)
  BY EventsAreFinite
<1>3. CalendarEvents = UNION sets
  BY DEF CalendarEvents
<1> HIDE DEF of
<1>4. IsFiniteSet(sets)
  BY <1>1, ImageIsFinite
<1> HIDE DEF sets
<1>5. IsFiniteSet(CalendarEvents)
  BY <1>2, <1>3, <1>4, FS_UNION
<1> DEFINE here == {x \in CalendarEvents : OnDay(x, d)}
           part == [e \in here |-> Segment(e, d)]
<1>6. DayColumn(d) = {part[e] : e \in here}
  BY DEF DayColumn, SplitByDay
<1>7. IsFiniteSet(here)
  BY <1>5, FS_Subset
<1> HIDE DEF here, part
<1> QED
  BY <1>6, <1>7, ImageIsFinite

(* What is on a day begins and ends within it. *)
LEMMA SegmentsAre ==
  ASSUME TypeOK, loaded, NEW d \in VisibleDays, NEW s \in DayColumn(d)
  PROVE  /\ s.start \in Nat /\ s.end \in Nat /\ s.start < s.end
         /\ Midnight(d) <= s.start /\ s.start < Midnight(d + 1)
         /\ s.end <= Midnight(d + 1)
<1>1. PICK e \in CalendarEvents : OnDay(e, d) /\ s = Segment(e, d)
  BY DEF DayColumn, SplitByDay
<1>2. e.start \in Nat /\ e.end \in Nat /\ e.start < e.end
  <2>1. e.item \in items /\ e \in EventsOf(e.item)
    BY CalendarEventsAre
  <2>2. PICK r \in e.item.rows : e.start = r.start /\ e.end = r.end
    BY <2>1, EventsAre
  <2> QED
    BY <2>1, <2>2, ItemsAre
<1>3. /\ Midnight(d) \in Nat /\ Midnight(d + 1) \in Nat
      /\ Midnight(d) < Midnight(d + 1)
  BY FetchRangeCovers, MidnightIs
<1>4. /\ s.start = IF e.start < Midnight(d) THEN Midnight(d) ELSE e.start
      /\ s.end = IF e.end > Midnight(d + 1) THEN Midnight(d + 1) ELSE e.end
  BY <1>1 DEF Segment
<1>5. e.start < Midnight(d + 1) /\ (e.end > Midnight(d) \/ e.start >= Midnight(d))
  BY <1>1 DEF OnDay
<1> QED
  BY <1>2, <1>3, <1>4, <1>5

(* Of two in one column the later one is drawn below the earlier one, unless *)
(* the clock was put back between them.                                      *)
LEMMA DrawnBelow ==
  ASSUME TypeOK, loaded, NEW d \in VisibleDays, NEW s \in DayColumn(d), NEW x \in DayColumn(d),
         ~MovedUp(s), ~MovedUp(x), ~PutBackBetween(s, x), LayoutEnd(s) <= x.start
  PROVE  GridEnd(s) <= GridStart(x)
<1> DEFINE m == Midnight(d)
           end == Midnight(d + 1)
           late(t) == d = ChangeDay /\ ~BeforeChange(t)
           off(t) == IF late(t) THEN Shift ELSE 0
<1>1. /\ s.start \in Nat /\ s.end \in Nat /\ s.start < s.end /\ m <= s.start
      /\ x.start \in Nat /\ x.start < end
  BY SegmentsAre
<1>2. d \in Nat /\ m \in Nat /\ end \in Nat /\ Shift \in Int /\ MinBlock \in Nat \ {0}
  BY FetchRangeCovers, MidnightIs, ClockFacts, LayoutAssumption
<1>3. LayoutEnd(s) = IF s.end >= s.start + MinBlock THEN s.end ELSE s.start + MinBlock
  BY DEF LayoutEnd
<1> HIDE DEF m, end
<1>4. s.end <= x.start /\ s.start + MinBlock <= x.start
  BY <1>1, <1>2, <1>3
<1>5. \A t \in {s.start, s.end, x.start} : t \in Nat /\ m <= t /\ t < end
  BY <1>1, <1>2, <1>4
<1>6. \A t \in {s.start, s.end, x.start} : DayOf(t) = d /\ Clock(t) = t - m - off(t)
  BY <1>2, <1>5, DayIs DEF m, end
<1>7. GridStart(x) = x.start - m - off(x.start)
  BY <1>6 DEF GridStart, MovedUp
<1>8. GridStart(s) = s.start - m - off(s.start)
  BY <1>6 DEF GridStart, MovedUp
<1>9. \/ GridEnd(s) = s.end - m - off(s.end)
      \/ GridEnd(s) = s.start - m - off(s.start) + MinBlock
  BY <1>6, <1>8 DEF GridEnd
<1>10. /\ BeforeChange(x.start) => BeforeChange(s.end)
       /\ BeforeChange(s.end) => BeforeChange(s.start)
  <2>1. Midnight(ChangeDay) + ChangeAt \in Int
    BY ClockFacts, MidnightIs
  <2> QED
    BY <1>1, <1>4, <2>1 DEF BeforeChange
<1>11. /\ off(x.start) = IF late(x.start) THEN Shift ELSE 0
       /\ off(s.start) = IF late(s.start) THEN Shift ELSE 0
       /\ off(s.end) = IF late(s.end) THEN Shift ELSE 0
       /\ late(x.start) /\ ~late(s.start) => LayoutEnd(s) + Shift <= x.start
       /\ late(s.start) => late(s.end)
       /\ late(s.end) => late(x.start)
  <2>1. late(x.start) /\ ~late(s.start) => LayoutEnd(s) + Shift <= x.start
    BY <1>1, <1>2, <1>3 DEF PutBackBetween
  <2> QED
    BY <1>10, <2>1
<1> HIDE DEF off, late
<1>12. off(x.start) \in Int /\ off(s.start) \in Int /\ off(s.end) \in Int
  BY <1>2, <1>11
<1>13. s.end - off(s.end) <= x.start - off(x.start)
  BY <1>1, <1>2, <1>3, <1>4, <1>11
<1>14. s.start + MinBlock - off(s.start) <= x.start - off(x.start)
  BY <1>1, <1>2, <1>3, <1>4, <1>11
<1> QED
  BY <1>1, <1>2, <1>7, <1>9, <1>12, <1>13, <1>14

LEMMA GridTimes ==
  ASSUME TypeOK, loaded, NEW d \in VisibleDays, NEW s \in DayColumn(d)
  PROVE  GridStart(s) \in Int /\ GridEnd(s) \in Int
<1>1. s.start \in Nat /\ s.end \in Nat
  BY SegmentsAre
<1>2. /\ MinBlock \in Nat /\ DayLength \in Nat /\ d \in Nat
      /\ Shift \in Int
  BY LayoutAssumption, LayoutFacts, ClockFacts, FetchRangeCovers
<1>3. DayOf(s.start) = d /\ Clock(s.start) \in Int
  <2>1. /\ Midnight(d) <= s.start /\ s.start < Midnight(d + 1) /\ Midnight(d) \in Nat
    BY <1>2, SegmentsAre, MidnightIs
  <2> QED
    BY <1>1, <1>2, <2>1, DayIs
<1>4. GridStart(s) \in Int
  BY <1>2, <1>3 DEF GridStart
<1>5. DayOf(s.end) = d => Clock(s.end) \in Int
  <2>1. Midnight(d) \in Nat
    BY <1>2, MidnightIs
  <2>2. DayOf(s.end) = d =>
          Clock(s.end) = s.end - Midnight(d) - (IF d = ChangeDay /\ ~BeforeChange(s.end) THEN Shift ELSE 0)
    BY DEF Clock
  <2> QED
    BY <1>1, <1>2, <2>1, <2>2
<1> QED
  BY <1>2, <1>3, <1>4, <1>5 DEF GridEnd

LEMMA OrdersAre ==
  ASSUME TypeOK, loaded, NEW d, NEW q \in Orders(DayColumn(d))
  PROVE  q \in Seq(DayColumn(d)) /\ Sorted(q)
<1> DEFINE S == DayColumn(d)
           n == Cardinality(S)
<1>1. n \in Nat
  BY DayColumnIsFinite, FS_CardinalityType
<1>2. q \in [1..n -> S] /\ \A i \in 1..(Len(q) - 1) : q[i].start <= q[i + 1].start
  BY DEF Orders, SetToSeqs
<1> HIDE DEF S, n
<1>3. q \in Seq(S)
  BY <1>1, <1>2
<1> QED
  BY <1>2, <1>3 DEF S, Sorted

LEMMA NothingOver ==
  ASSUME TypeOK, loaded, NEW d \in VisibleDays, NEW q \in Orders(DayColumn(d)),
         NEW p \in Placed(q), NEW r \in Placed(q), p # r, Covers(p, r)
  PROVE  \/ MovedUp(p.segment) \/ MovedUp(r.segment)
         \/ PutBackBetween(p.segment, r.segment) \/ PutBackBetween(r.segment, p.segment)
<1> DEFINE s == p.segment
           t == r.segment
<1> SUFFICES ASSUME ~MovedUp(s), ~MovedUp(t), ~PutBackBetween(s, t), ~PutBackBetween(t, s)
             PROVE  FALSE
  OBVIOUS
<1>1. Timed(DayColumn(d))
  BY SegmentsAre DEF Timed
<1>2. s \in DayColumn(d) /\ t \in DayColumn(d) /\ (LayoutEnd(s) <= t.start \/ LayoutEnd(t) <= s.start)
  <2>1. q \in Seq(DayColumn(d)) /\ Sorted(q)
    BY OrdersAre
  <2>2. p.col < r.col + r.span /\ r.col < p.col + p.span
    BY DEF Covers
  <2> QED
    BY <1>1, <2>1, <2>2, OneAfterTheOther
<1>3. GridStart(s) < GridEnd(t) /\ GridStart(t) < GridEnd(s)
  BY DEF Covers
<1> HIDE DEF s, t
<1>4. /\ GridStart(s) \in Int /\ GridEnd(s) \in Int
      /\ GridStart(t) \in Int /\ GridEnd(t) \in Int
  BY <1>2, GridTimes
<1>5. CASE LayoutEnd(s) <= t.start
  <2>1. GridEnd(s) <= GridStart(t)
    BY <1>2, <1>5, DrawnBelow
  <2> QED
    BY <1>3, <1>4, <2>1
<1>6. CASE LayoutEnd(t) <= s.start
  <2>1. GridEnd(t) <= GridStart(s)
    BY <1>2, <1>6, DrawnBelow
  <2> QED
    BY <1>3, <1>4, <2>1
<1> QED
  BY <1>2, <1>5, <1>6

(* On a day no event lies over another one: for whatever is on it, in every *)
(* order it may be listed, layoutDay gives two events that are drawn at one *)
(* time different columns, short ones that are drawn longer included, also  *)
(* on the day that the clock is changed, but for what begins in the hour it *)
(* is put back by, after what ended before.                                 *)
THEOREM NothingLiesHidden == Spec => []NothingHidden
<1>1. TypeOK => NothingHidden
  BY NothingOver DEF NothingHidden, Shown
<1> QED
  BY <1>1, CalendarTyped, PTL

-----------------------------------------------------------------------------
(* The cache: which keys show a row, and which of them a hook sees to *)

(* Which keys show a row *)
Shows(k, row) == <<k, row>> \in Reads
ReservationKeys ==
  {List("reservations"), <<"reservations", "my-list">>, Detail("reservations", "it"),
   Detail("reservations", "new"), BatchPrint}
BlockKeys ==
  {List("reservable-blocks"), Detail("reservable-blocks", "it"), Detail("reservable-blocks", "new")}
RestrictionKeys ==
  {List("restrictions"), Detail("restrictions", "it"), Detail("restrictions", "new")}

LEMMA ReservationReaders ==
  ASSUME NEW k
  PROVE  /\ Shows(k, It("reservations")) => k \in ReservationKeys \cup {Search, Stats}
         /\ Shows(k, RowsOf("reservations")) => k \in ReservationKeys \cup {Search, Stats}
         /\ Shows(k, OwnerNames) => k \in ReservationKeys \cup {Search}
         /\ Shows(k, Occupancy) => k \in BlockKeys
         /\ Shows(k, It("blocks")) => k \in BlockKeys \ {Detail("reservable-blocks", "new")}
         /\ Shows(k, RowsOf("blocks")) => k \in BlockKeys \ {Detail("reservable-blocks", "it")}
         /\ Shows(k, It("restrictions")) => k \in RestrictionKeys \ {Detail("restrictions", "new")}
         /\ Shows(k, RowsOf("restrictions")) => k \in RestrictionKeys \ {Detail("restrictions", "it")}
BY DEF Shows, Reads, ReservationQueries, BlockQueries, RestrictionQueries, ContractQueries,
   ResourceQueries, CollectionQueries, GroupQueries, UserQueries, AuthQueries, SessionQueries,
   TemplateQueries, OutlookQueries, SearchQueries, StatsQueries, ListAndItem, Both, It, RowsOf,
   OwnerNames, Occupancy, List, Detail, Search, Stats, BatchPrint, ReservationKeys, BlockKeys,
   RestrictionKeys

LEMMA OtherReaders ==
  ASSUME NEW k
  PROVE  /\ Shows(k, It("contracts")) => k \in {List("contracts"), Detail("contracts", "it")}
         /\ Shows(k, RowsOf("contracts")) => k = List("contracts")
         /\ Shows(k, It("resources")) => k \in {ResourceList, Detail("resources", "it"), Stats}
         /\ Shows(k, RowsOf("resources")) => k \in {ResourceList, Stats}
         /\ Shows(k, It("collections")) => k \in {List("collections"), Detail("collections", "it")}
         /\ Shows(k, RowsOf("collections")) => k = List("collections")
         /\ Shows(k, It("groups")) => k \in {List("groups"), Detail("groups", "it"), Stats}
         /\ Shows(k, RowsOf("groups")) => k \in {List("groups"), Stats}
         /\ Shows(k, It("users")) => k \in {List("users"), Detail("users", "it"), Me, Stats}
         /\ Shows(k, RowsOf("users")) => k \in {List("users"), Stats}
         /\ Shows(k, It("sessions")) => k \in {MySessions, UserSessions}
         /\ Shows(k, RowsOf("sessions")) => k \in {MySessions, UserSessions}
         /\ Shows(k, It("viewer")) => k \in {ResourceList, Detail("resources", "it"), Me}
         /\ Shows(k, It("templates")) => k = Templates
         /\ Shows(k, It("outlook")) => k = Outlook
BY DEF Shows, Reads, ReservationQueries, BlockQueries, RestrictionQueries, ContractQueries,
   ResourceQueries, CollectionQueries, GroupQueries, UserQueries, AuthQueries, SessionQueries,
   TemplateQueries, OutlookQueries, SearchQueries, StatsQueries, ListAndItem, Both, It, RowsOf,
   OwnerNames, Occupancy, List, Detail, Search, Stats, BatchPrint

LEMMA KeyOfQuery ==
  ASSUME NEW queries, NEW k, NEW row, <<k, row>> \in queries
  PROVE  k \in KeysOf(queries)
BY DEF KeysOf

(* After the mutation m the key k is refetched, or written by the answer, or *)
(* known to lag.                                                             *)
SeenTo(m, k) ==
  \/ \E p \in m.invalidates : IsPrefix(p, k)
  \/ k \in UNION {m.sets, m.merges, m.removes}
  \/ <<m.name, k>> \in KnownLags

LEMMA FirstIsPrefix ==
  ASSUME NEW S, NEW s \in Seq(S), Len(s) >= 1
  PROVE  IsPrefix(<<s[1]>>, s)
<1>1. \A t \in Seq(S) : Len(t) >= 1 => SubSeq(t, 1, 1) = <<t[1]>>
  <2> SUFFICES ASSUME NEW t \in Seq(S), Len(t) >= 1
               PROVE  SubSeq(t, 1, 1) = <<t[1]>>
    OBVIOUS
  <2>1. SubSeq(t, 1, 1) \in Seq(S) /\ Len(SubSeq(t, 1, 1)) = 1 /\ SubSeq(t, 1, 1)[1] = t[1]
    <3>1. \A i \in 1..1 : t[i] \in S
      OBVIOUS
    <3>2. /\ SubSeq(t, 1, 1) \in Seq(S)
          /\ Len(SubSeq(t, 1, 1)) = IF 1 <= 1 THEN 1 - 1 + 1 ELSE 0
          /\ \A i \in 1..1 - 1 + 1 : SubSeq(t, 1, 1)[i] = t[1 + i - 1]
      BY <3>1, SubSeqProperties
    <3> QED
      BY <3>2
  <2>2. t[1] \in S
    OBVIOUS
  <2> DEFINE first == SubSeq(t, 1, 1)
             unit == <<t[1]>>
  <2>3. unit \in Seq(S) /\ Len(unit) = 1 /\ unit[1] = t[1]
    BY <2>2
  <2>4. Len(first) = 1 /\ first \in Seq(S) /\ first[1] = t[1]
    BY <2>1
  <2> HIDE DEF first, unit
  <2>5. \A i \in 1..Len(first) : first[i] = unit[i]
    BY <2>3, <2>4
  <2>6. first = unit
    BY <2>3, <2>4, <2>5, SeqEqual
  <2> QED
    BY <2>6 DEF first, unit
<1>2. s[1] \in S /\ <<s[1]>> \in Seq(S) /\ Len(<<s[1]>>) = 1 /\ <<s[1]>>[1] = s[1]
  OBVIOUS
<1> QED
  BY <1>1, <1>2 DEF IsPrefix

LEMMA IsPrefixOf ==
  ASSUME NEW d, NEW x, NEW y, NEW z
  PROVE  /\ IsPrefix(<<d>>, <<d>>) /\ IsPrefix(<<d>>, <<d, x>>)
         /\ IsPrefix(<<d>>, <<d, x, y>>) /\ IsPrefix(<<d>>, <<d, x, y, z>>)
<1> DEFINE S == {d, x, y, z}
<1>1. IsPrefix(<<<<d>>[1]>>, <<d>>)
  <2>1. <<d>> \in Seq(S) /\ Len(<<d>>) >= 1
    OBVIOUS
  <2> QED
    BY <2>1, FirstIsPrefix
<1>2. IsPrefix(<<<<d, x>>[1]>>, <<d, x>>)
  <2>1. <<d, x>> \in Seq(S) /\ Len(<<d, x>>) >= 1
    OBVIOUS
  <2> QED
    BY <2>1, FirstIsPrefix
<1>3. IsPrefix(<<<<d, x, y>>[1]>>, <<d, x, y>>)
  <2>1. <<d, x, y>> \in Seq(S) /\ Len(<<d, x, y>>) >= 1
    OBVIOUS
  <2> QED
    BY <2>1, FirstIsPrefix
<1>4. IsPrefix(<<<<d, x, y, z>>[1]>>, <<d, x, y, z>>)
  <2>1. <<d, x, y, z>> \in Seq(S) /\ Len(<<d, x, y, z>>) >= 1
    OBVIOUS
  <2> QED
    BY <2>1, FirstIsPrefix
<1> QED
  BY <1>1, <1>2, <1>3, <1>4

LEMMA DomainPrefixes ==
  /\ \A k \in ReservationKeys : IsPrefix(Reservations, k)
  /\ \A k \in BlockKeys : IsPrefix(Blocks, k)
  /\ \A k \in RestrictionKeys : IsPrefix(Restrictions, k)
  /\ \A k \in {List("contracts"), Detail("contracts", "it")} : IsPrefix(Contracts, k)
  /\ \A k \in {ResourceList, Detail("resources", "it")} : IsPrefix(ResourceList, k)
  /\ \A k \in {List("users"), Detail("users", "it"), UserSessions} : IsPrefix(<<"users">>, k)
<1>1. \A k \in ReservationKeys : IsPrefix(Reservations, k)
  BY IsPrefixOf DEF Reservations, ReservationKeys, List, Detail, BatchPrint
<1>2. \A k \in BlockKeys : IsPrefix(Blocks, k)
  BY IsPrefixOf DEF Blocks, BlockKeys, List, Detail
<1>3. \A k \in RestrictionKeys : IsPrefix(Restrictions, k)
  BY IsPrefixOf DEF Restrictions, RestrictionKeys, List, Detail
<1>4. \A k \in {List("contracts"), Detail("contracts", "it")} : IsPrefix(Contracts, k)
  BY IsPrefixOf DEF Contracts, List, Detail
<1>5. \A k \in {ResourceList, Detail("resources", "it")} : IsPrefix(ResourceList, k)
  BY IsPrefixOf DEF ResourceList, Detail
<1>6. \A k \in {List("users"), Detail("users", "it"), UserSessions} : IsPrefix(<<"users">>, k)
  BY IsPrefixOf DEF UserSessions, List, Detail
<1> QED
  BY <1>1, <1>2, <1>3, <1>4, <1>5, <1>6

LEMMA OwnPrefix == 
  /\ \A k \in {List("collections"), List("groups"), List("users"), MySessions, UserSessions, Outlook} : IsPrefix(k, k)
BY DEF IsPrefix, List, MySessions, UserSessions, Outlook

LEMMA EverythingIsPrefix == \A k \in {ResourceList, Detail("resources", "it"), Me, MySessions, UserSessions} : IsPrefix(Everything, k)
BY DEF IsPrefix, Everything, ResourceList, Detail, Me, MySessions, UserSessions

LEMMA KeysOfTables ==
  /\ ReservationKeys \subseteq KeysOf(ReservationQueries)
  /\ BlockKeys \subseteq KeysOf(BlockQueries)
  /\ {List("contracts"), Detail("contracts", "it")} \subseteq KeysOf(ContractQueries)
<1>1. \A k \in ReservationKeys : <<k, OwnerNames>> \in ReservationQueries
  BY DEF ReservationKeys, ReservationQueries
<1>2. \A k \in BlockKeys : <<k, Occupancy>> \in BlockQueries
  BY DEF BlockKeys, BlockQueries
<1>3. \A k \in {List("contracts"), Detail("contracts", "it")} : <<k, It("contracts")>> \in ContractQueries
  BY DEF ContractQueries, ListAndItem, Both
<1> QED
  BY <1>1, <1>2, <1>3, KeyOfQuery

LEMMA KnownReaders ==
  /\ \A e \in ReservationWrites \cup OutlookWrites, k \in {Search, Stats} : <<e.name, k>> \in KnownLags
  /\ \A e \in ResourceWrites \cup GroupWrites \cup UserWrites \cup BatchUserWrites :
       <<e.name, Stats>> \in KnownLags
  /\ \A e \in OutlookWrites, k \in BlockKeys : <<e.name, k>> \in KnownLags
  /\ \A e \in ResourceWrites, k \in {List("contracts"), Detail("contracts", "it")} : <<e.name, k>> \in KnownLags
<1>1. \A e \in OutlookWrites : e.name = "runOutlookSync"
  BY DEF OutlookWrites, Effect
<1>2. \A w : \A e \in w : e.name \in Names(w)
  BY DEF Names
<1> QED
  BY <1>1, <1>2, KeysOfTables DEF KnownLags

LEMMA ReservationCover == \A m \in ReservationWrites : \A k, row : row \in m.writes /\ Shows(k, row) => SeenTo(m, k)
<1> SUFFICES ASSUME NEW m \in ReservationWrites, NEW k, NEW row, row \in m.writes, Shows(k, row)
             PROVE  SeenTo(m, k)
  OBVIOUS
<1>1. /\ row \in {It("reservations"), RowsOf("reservations"), Occupancy}
      /\ Reservations \in m.invalidates
      /\ Blocks \in m.invalidates \/ row # Occupancy
  BY DEF ReservationWrites, ReservationTable, Setting, Removing, Effect, Both, It, RowsOf, Occupancy, Detail
<1>2. CASE k \in ReservationKeys
  BY <1>1, <1>2, DomainPrefixes DEF SeenTo
<1>3. CASE k \in {Search, Stats}
  BY <1>3, KnownReaders DEF SeenTo
<1>4. CASE k \in BlockKeys /\ row = Occupancy
  BY <1>1, <1>4, DomainPrefixes DEF SeenTo
<1> QED
  BY <1>1, <1>2, <1>3, <1>4, ReservationReaders

LEMMA OutlookCover == \A m \in OutlookWrites : \A k, row : row \in m.writes /\ Shows(k, row) => SeenTo(m, k)
<1> SUFFICES ASSUME NEW m \in OutlookWrites, NEW k, NEW row, row \in m.writes, Shows(k, row)
             PROVE  SeenTo(m, k)
  OBVIOUS
<1>1. /\ row \in {It("reservations"), RowsOf("reservations"), Occupancy, It("outlook")}
      /\ {Reservations, Outlook} \subseteq m.invalidates
  BY DEF OutlookWrites, Effect, Both
<1>2. CASE k \in ReservationKeys \cup {Outlook}
  BY <1>1, <1>2, DomainPrefixes, OwnPrefix DEF SeenTo
<1>3. CASE k \in {Search, Stats} \cup BlockKeys
  BY <1>3, KnownReaders DEF SeenTo
<1> QED
  BY <1>1, <1>2, <1>3, ReservationReaders, OtherReaders

LEMMA BlockCover ==
  \A m \in BlockWrites \cup RestrictionWrites : \A k, row : row \in m.writes /\ Shows(k, row) => SeenTo(m, k)
<1> SUFFICES ASSUME NEW m \in BlockWrites \cup RestrictionWrites, NEW k, NEW row,
                    row \in m.writes, Shows(k, row)
             PROVE  SeenTo(m, k)
  OBVIOUS
<1>1. CASE m \in BlockWrites
  <2>1. row \in {It("blocks"), RowsOf("blocks")} /\ Blocks \in m.invalidates
    BY <1>1 DEF BlockWrites, SplittableWrites, Setting, Removing, Effect, Both, Detail
  <2> QED
    BY <2>1, ReservationReaders, DomainPrefixes DEF SeenTo
<1>2. CASE m \in RestrictionWrites
  <2>1. row \in {It("restrictions"), RowsOf("restrictions")} /\ Restrictions \in m.invalidates
    BY <1>2 DEF RestrictionWrites, SplittableWrites, Setting, Removing, Effect, Both, Detail
  <2> QED
    BY <2>1, ReservationReaders, DomainPrefixes DEF SeenTo
<1> QED
  BY <1>1, <1>2

LEMMA ContractCover ==
  \A m \in ContractWrites \cup ResourceWrites : \A k, row : row \in m.writes /\ Shows(k, row) => SeenTo(m, k)
<1> SUFFICES ASSUME NEW m \in ContractWrites \cup ResourceWrites, NEW k, NEW row,
                    row \in m.writes, Shows(k, row)
             PROVE  SeenTo(m, k)
  OBVIOUS
<1>1. CASE m \in ContractWrites
  <2>1. row \in {It("contracts"), RowsOf("contracts")} /\ Contracts \in m.invalidates
    BY <1>1 DEF ContractWrites, Setting, Effect, Detail
  <2> QED
    BY <2>1, OtherReaders, DomainPrefixes DEF SeenTo
<1>2. CASE m \in ResourceWrites
  <2>1. /\ row \in {It("resources"), RowsOf("resources"), It("contracts")}
        /\ ResourceList \in m.invalidates
    BY <1>2 DEF ResourceWrites, Setting, Removing, Effect, Both, Detail, It, RowsOf
  <2>2. CASE k \in {List("contracts"), Detail("contracts", "it")}
    BY <1>2, <2>2, KnownReaders DEF SeenTo
  <2>3. CASE k \in {ResourceList, Detail("resources", "it")}
    BY <2>1, <2>3, DomainPrefixes DEF SeenTo
  <2>4. CASE k = Stats
    BY <1>2, <2>4, KnownReaders DEF SeenTo
  <2> QED
    BY <2>1, <2>2, <2>3, <2>4, OtherReaders
<1> QED
  BY <1>1, <1>2

LEMMA GroupCover ==
  \A m \in CollectionWrites \cup GroupWrites : \A k, row : row \in m.writes /\ Shows(k, row) => SeenTo(m, k)
<1> SUFFICES ASSUME NEW m \in CollectionWrites \cup GroupWrites, NEW k, NEW row,
                    row \in m.writes, Shows(k, row)
             PROVE  SeenTo(m, k)
  OBVIOUS
<1>1. CASE m \in CollectionWrites
  <2>1. /\ row \in {It("collections"), RowsOf("collections")} /\ List("collections") \in m.invalidates
        /\ row = It("collections") => Detail("collections", "it") \in m.sets \cup m.removes
    BY <1>1 DEF CollectionWrites, Setting, Removing, Effect, Both, Detail, It, RowsOf
  <2> QED
    BY <2>1, OtherReaders, OwnPrefix DEF SeenTo
<1>2. CASE m \in GroupWrites
  <2>1. /\ row \in {It("groups"), RowsOf("groups")} /\ List("groups") \in m.invalidates
        /\ row = It("groups") => Detail("groups", "it") \in m.sets \cup m.removes
    BY <1>2 DEF GroupWrites, Setting, Removing, Effect, Both, Detail, It, RowsOf
  <2>2. CASE k = Stats
    BY <1>2, <2>2, KnownReaders DEF SeenTo
  <2>3. CASE k = List("groups")
    BY <2>1, <2>3, OwnPrefix DEF SeenTo
  <2>4. CASE k = Detail("groups", "it") /\ row = It("groups")
    BY <2>1, <2>4 DEF SeenTo
  <2> QED
    BY <2>1, <2>2, <2>3, <2>4, OtherReaders
<1> QED
  BY <1>1, <1>2

LEMMA UserCover == \A m \in UserWrites : \A k, row : row \in m.writes /\ Shows(k, row) => SeenTo(m, k)
<1> SUFFICES ASSUME NEW m \in UserWrites, NEW k, NEW row, row \in m.writes, Shows(k, row)
             PROVE  SeenTo(m, k)
  OBVIOUS
<1>1. /\ row \in {It("users"), RowsOf("users"), OwnerNames, It("sessions"), RowsOf("sessions")}
      /\ List("users") \in m.invalidates
      /\ row = It("users") =>
           /\ Detail("users", "it") \in m.sets \cup m.removes
           /\ Me \in m.sets \/ m.name \in {"updateUser", "deleteUser"}
      /\ row = OwnerNames => m.name \in {"updateUser", "updateMe"}
      /\ row \in {It("sessions"), RowsOf("sessions")} =>
           \/ m.name \in {"updateUser", "updateMe"}
           \/ m.name = "deleteUser" /\ UserSessions \in m.removes
  BY DEF UserWrites, Setting, Removing, Effect, Both, Detail, It, RowsOf, OwnerNames
<1>2. CASE k = List("users")
  <2>1. IsPrefix(List("users"), k)
    BY <1>2, OwnPrefix
  <2> QED
    BY <1>1, <2>1 DEF SeenTo
<1>7. CASE k = Detail("users", "it") /\ row = It("users")
  BY <1>1, <1>7 DEF SeenTo
<1>3. CASE k = Me /\ row = It("users")
  BY <1>1, <1>3 DEF SeenTo, KnownLags
<1>4. CASE k \in ReservationKeys \cup {Search} /\ row = OwnerNames
  BY <1>1, <1>4, KeysOfTables DEF SeenTo, KnownLags
<1>5. CASE k \in {MySessions, UserSessions} /\ row \in {It("sessions"), RowsOf("sessions")}
  BY <1>1, <1>5 DEF SeenTo, KnownLags
<1>6. CASE k = Stats
  BY <1>6, KnownReaders DEF SeenTo
<1> QED
  BY <1>1, <1>2, <1>3, <1>4, <1>5, <1>6, <1>7, ReservationReaders, OtherReaders

LEMMA BatchCover == \A m \in BatchUserWrites : \A k, row : row \in m.writes /\ Shows(k, row) => SeenTo(m, k)
<1> SUFFICES ASSUME NEW m \in BatchUserWrites, NEW k, NEW row, row \in m.writes, Shows(k, row)
             PROVE  SeenTo(m, k)
  OBVIOUS
<1>1. /\ row \in {It("users"), RowsOf("users"), OwnerNames}
      /\ <<"users">> \in m.invalidates
      /\ m.name \in {"batchUpsertUsers", "bulkUpdateUsers"}
  BY DEF BatchUserWrites, Effect, Both
<1>2. CASE k \in {List("users"), Detail("users", "it")}
  BY <1>1, <1>2, DomainPrefixes DEF SeenTo
<1>3. CASE k \in {Me, Search} \cup ReservationKeys
  BY <1>1, <1>3, KeysOfTables DEF SeenTo, KnownLags
<1>4. CASE k = Stats
  BY <1>4, KnownReaders DEF SeenTo
<1> QED
  BY <1>1, <1>2, <1>3, <1>4, ReservationReaders, OtherReaders

LEMMA SessionCover ==
  \A m \in SessionWrites \cup AuthWrites : \A k, row : row \in m.writes /\ Shows(k, row) => SeenTo(m, k)
<1> SUFFICES ASSUME NEW m \in SessionWrites \cup AuthWrites, NEW k, NEW row,
                    row \in m.writes, Shows(k, row)
             PROVE  SeenTo(m, k)
  OBVIOUS
<1>1. CASE m \in SessionWrites
  <2>1. /\ row \in {It("sessions"), RowsOf("sessions")}
        /\ \/ MySessions \in m.invalidates /\ m.name \in {"revokeMySession", "logoutOtherSessions"}
           \/ UserSessions \in m.invalidates /\ m.name \in {"revokeUserSession", "revokeAllUserSessions"}
    BY <1>1 DEF SessionWrites, Effect, Both
  <2>2. k \in {MySessions, UserSessions}
    BY <2>1, OtherReaders
  <2> QED
    BY <2>1, <2>2, OwnPrefix DEF SeenTo, KnownLags
<1>2. CASE m \in AuthWrites
  <2>1. row \in {It("viewer"), RowsOf("sessions")} /\ Everything \in m.invalidates
    BY <1>2 DEF AuthWrites, Effect
  <2> QED
    BY <2>1, OtherReaders, EverythingIsPrefix DEF SeenTo
<1> QED
  BY <1>1, <1>2

LEMMA TemplateCover == \A m \in TemplateWrites : \A k, row : row \in m.writes /\ Shows(k, row) => SeenTo(m, k)
<1> SUFFICES ASSUME NEW m \in TemplateWrites, NEW k, NEW row, row \in m.writes, Shows(k, row)
             PROVE  SeenTo(m, k)
  OBVIOUS
<1>1. row = It("templates") /\ Templates \in m.merges
  BY DEF TemplateWrites, Effect
<1> QED
  BY <1>1, OtherReaders DEF SeenTo

(* The hooks of client/src/hooks fit together: each sees to every key that *)
(* shows what its mutation writes, but for the known lags.                 *)
THEOREM HooksSeeToTheirKeys ==
  \A m \in Mutations, k \in Keys : \A row \in m.writes : <<k, row>> \in Reads => SeenTo(m, k)
BY ReservationCover, OutlookCover, BlockCover, ContractCover, GroupCover, UserCover, BatchCover,
   SessionCover, TemplateCover DEF Mutations, Shows

(* Only the templates are patched, and a hook does one thing to a key. *)
LEMMA OneEffect ==
  \A m \in Mutations :
    /\ m.merges \subseteq {Templates}
    /\ It("templates") \in m.writes => Templates \in m.merges
    /\ m.merges = {} \/ (m.sets = {} /\ m.removes = {})
    /\ m.sets = {} \/ m.removes = {}
<1> DEFINE Plain(m) == /\ m.merges = {} /\ It("templates") \notin m.writes
                       /\ m.sets = {} \/ m.removes = {}
<1>1. \A m \in TemplateWrites : m.merges = {Templates} /\ m.sets = {} /\ m.removes = {}
  BY DEF TemplateWrites, Effect
<1>2. \A m \in ReservationWrites \cup BlockWrites \cup RestrictionWrites \cup ContractWrites : Plain(m)
  BY DEF ReservationWrites, ReservationTable, BlockWrites, RestrictionWrites, SplittableWrites,
         ContractWrites, Setting, Removing, Effect, Both, It, RowsOf, Occupancy, Detail
<1>3. \A m \in ResourceWrites \cup CollectionWrites \cup GroupWrites \cup UserWrites : Plain(m)
  BY DEF ResourceWrites, CollectionWrites, GroupWrites, UserWrites, Setting, Removing, Effect, Both,
         It, RowsOf, OwnerNames, Detail
<1>4. \A m \in BatchUserWrites \cup SessionWrites \cup OutlookWrites \cup AuthWrites : Plain(m)
  BY DEF BatchUserWrites, SessionWrites, OutlookWrites, AuthWrites, Effect, Both, It, RowsOf,
         OwnerNames, Occupancy
<1> QED
  BY <1>1, <1>2, <1>3, <1>4 DEF Mutations

LEMMA TemplatesShow == \A row : <<Templates, row>> \in Reads => row = It("templates")
BY DEF Reads, ReservationQueries, BlockQueries, RestrictionQueries, ContractQueries,
   ResourceQueries, CollectionQueries, GroupQueries, UserQueries, AuthQueries, SessionQueries,
   TemplateQueries, OutlookQueries, SearchQueries, StatsQueries, ListAndItem, List, Detail, Search,
   Stats, BatchPrint, Templates, Me, MySessions, UserSessions, Outlook, ResourceList

(* What a fetch's answer, and the data of an entry, may lack of what settled. *)
AnswerHas(f, x) == f.pc = "answered" => x.write \in f.answer
Retained(e, x) == <<x.m.name, key>> \in KnownLags \/ x.write \in e.data
(* The list of templates is patched where it is, stale or not. *)
Serves(e) == Has(e) /\ (~e.stale \/ key = Templates)

CacheInv ==
  /\ CacheTypeOK
  /\ \A r \in Slots : run[r].pc # "idle" => run[r].m \in Mutations
  /\ \A r \in Slots : run[r].write # 0 =>
       run[r].write \in run[r].answer /\ run[r].write \in server /\ Touched(run[r].m)
  /\ \A x \in settled : x.write \in server
  /\ \A x \in settled : AnswerHas(fetch, x)
  /\ Serves(entry) => \A x \in settled : Retained(entry, x)

Entries == [data : (SUBSET Writes) \cup {Absent}, stale : BOOLEAN]
Fetches == [pc : {"none", "sent", "answered"}, answer : SUBSET Writes]
Runs == [pc : {"idle", "sent", "written"}, m : Mutations \cup {Absent}, write : 0..MaxWrites,
         answer : SUBSET Writes]
Notes == [m : Mutations, write : Writes, ok : BOOLEAN]

LEMMA CacheTyped ==
  CacheTypeOK <=> /\ key \in Keys /\ mounted \in BOOLEAN /\ entry \in Entries /\ fetch \in Fetches
                  /\ server \in SUBSET Writes /\ run \in [Slots -> Runs] /\ settled \subseteq Notes
BY DEF CacheTypeOK, Entries, Fetches, Runs, Notes

LEMMA Counted ==
  ASSUME CacheTypeOK
  PROVE  IsFiniteSet(server) /\ Cardinality(server) \in Nat
<1>1. IsFiniteSet(1..MaxWrites)
  BY QueryCacheAssumption, FS_Interval
<1>2. server \in SUBSET (1..MaxWrites)
  BY DEF CacheTypeOK, Writes
<1>3. IsFiniteSet(server)
  BY <1>1, <1>2, FS_Subset
<1> QED
  BY <1>3, FS_CardinalityType

LEMMA NextWrite ==
  ASSUME CacheTypeOK, Cardinality(server) + 1 <= MaxWrites
  PROVE  Cardinality(server) + 1 \in Writes
BY Counted, QueryCacheAssumption DEF Writes

LEMMA NoRunIs == NoRun \in Runs /\ NoRun.pc = "idle" /\ NoRun.write = 0
BY QueryCacheAssumption DEF NoRun, Runs

LEMMA CacheInitInv == CacheInit => CacheInv
<1> SUFFICES ASSUME CacheInit PROVE CacheInv
  OBVIOUS
<1>1. NoEntry \in Entries /\ NoFetch \in Fetches
  BY DEF NoEntry, Entries, NoFetch, Fetches
<1>2. NoRun \in Runs
  BY NoRunIs
<1>3. run \in [Slots -> Runs]
  BY <1>2 DEF CacheInit
<1>4. CacheTypeOK
  BY <1>1, <1>3, CacheTyped DEF CacheInit
<1> QED
  BY <1>4 DEF CacheInit, CacheInv, NoFetch, NoRun, NoEntry, AnswerHas, Retained

(* The parts of the invariant after a step, which keeps the key *)
LEMMA InvAfter ==
  ASSUME key' = key, key \in Keys, mounted' \in BOOLEAN, entry' \in Entries, fetch' \in Fetches,
         server' \in SUBSET Writes, run' \in [Slots -> Runs], settled' \subseteq Notes,
         \A r \in Slots : run'[r].pc # "idle" => run'[r].m \in Mutations,
         \A r \in Slots : run'[r].write # 0 =>
           run'[r].write \in run'[r].answer /\ run'[r].write \in server' /\ Touched(run'[r].m),
         \A x \in settled' : x.write \in server',
         \A x \in settled' : AnswerHas(fetch', x),
         Serves(entry') => \A x \in settled' : Retained(entry', x)
  PROVE  CacheInv'
<1>1. CacheTypeOK'
  BY DEF CacheTypeOK, Entries, Fetches, Runs, Notes
<1>2. \A m : Touched(m)' <=> \E row \in m.writes : <<key, row>> \in Reads
  BY DEF Touched
<1> QED
  BY <1>1 DEF CacheInv, AnswerHas, Retained, Serves, Has, Touched

LEMMA InvBefore ==
  ASSUME CacheInv
  PROVE  /\ key \in Keys /\ mounted \in BOOLEAN /\ entry \in Entries /\ fetch \in Fetches
         /\ server \in SUBSET Writes /\ run \in [Slots -> Runs] /\ settled \subseteq Notes
         /\ \A r \in Slots : run[r].pc # "idle" => run[r].m \in Mutations
         /\ \A r \in Slots : run[r].write # 0 =>
              run[r].write \in run[r].answer /\ run[r].write \in server /\ Touched(run[r].m)
         /\ \A x \in settled : x.write \in server
         /\ \A x \in settled : AnswerHas(fetch, x)
         /\ Serves(entry) => \A x \in settled : Retained(entry, x)
BY CacheTyped DEF CacheInv

(* Steps that leave the mutations alone *)
LEMMA PageSteps ==
  ASSUME CacheInv, Mount \/ Unmount \/ Focus \/ GoStale \/ Collect
  PROVE  CacheInv'
<1>1. UNCHANGED <<key, server, run, settled>>
  BY DEF Mount, Unmount, Focus, GoStale, Collect
<1>2. fetch' \in {fetch, Request} /\ mounted' \in BOOLEAN
  BY InvBefore DEF Mount, Unmount, Focus, GoStale, Collect
<1>3. entry' \in {entry, NoEntry} \/ (GoStale /\ entry' = [entry EXCEPT !.stale = TRUE])
  BY DEF Mount, Unmount, Focus, GoStale, Collect
<1>4. entry' \in Entries
  <2>1. NoEntry \in Entries /\ entry \in Entries
    BY InvBefore DEF NoEntry, Entries
  <2> QED
    BY <1>3, <2>1 DEF Entries
<1>5. fetch' \in Fetches
  BY <1>2, InvBefore DEF Request, Fetches
<1>7. \A x \in settled : AnswerHas(fetch', x)
  BY <1>2, InvBefore DEF AnswerHas, Request
<1>8. Serves(entry') => Serves(entry) /\ entry'.data = entry.data
  BY <1>3, InvBefore DEF Serves, Has, NoEntry, GoStale, Entries
<1>9. Serves(entry') => \A x \in settled : Retained(entry', x)
  BY <1>8, InvBefore DEF Retained
<1> QED
  BY <1>1, <1>2, <1>4, <1>5, <1>7, <1>9, InvBefore, InvAfter

LEMMA EntryIs ==
  /\ NoEntry \in Entries
  /\ \A d \in SUBSET Writes, b \in BOOLEAN : [data |-> d, stale |-> b] \in Entries
BY DEF NoEntry, Entries

LEMMA FetchSteps ==
  ASSUME CacheInv, Answer \/ FetchDone \/ FetchFails \/ Logout
  PROVE  CacheInv'
<1>1. UNCHANGED <<key, mounted, server, run, settled>>
  BY DEF Answer, FetchDone, FetchFails, Logout
<1>2. fetch' \in Fetches
  BY InvBefore DEF Answer, FetchDone, FetchFails, Logout, NoFetch, Fetches
<1>3. entry' \in Entries
  <2>1. CASE FetchDone
    <3>1. fetch.answer \in SUBSET Writes /\ (key \in NeverFresh) \in BOOLEAN
      BY InvBefore DEF Fetches
    <3> QED
      BY <2>1, <3>1, EntryIs DEF FetchDone
  <2>2. CASE Answer \/ FetchFails \/ Logout
    BY <2>2, InvBefore, EntryIs DEF Answer, FetchFails, Logout
  <2> QED
    BY <2>1, <2>2
<1>4. ASSUME NEW x \in settled
      PROVE  AnswerHas(fetch', x)
  <2>1. CASE Answer
    BY <2>1, InvBefore DEF Answer, AnswerHas
  <2>2. CASE FetchDone \/ FetchFails \/ Logout
    BY <2>2 DEF FetchDone, FetchFails, Logout, NoFetch, AnswerHas
  <2> QED
    BY <2>1, <2>2
<1>5. ASSUME Serves(entry'), NEW x \in settled
      PROVE  Retained(entry', x)
  <2>1. CASE Answer \/ FetchFails
    BY <1>5, <2>1, InvBefore DEF Answer, FetchFails
  <2>2. CASE FetchDone
    BY <1>5, <2>2, InvBefore DEF FetchDone, AnswerHas, Retained
  <2>3. CASE Logout
    BY <1>5, <2>3 DEF Logout, Serves, Has, NoEntry
  <2> QED
    BY <2>1, <2>2, <2>3
<1> QED
  BY <1>1, <1>2, <1>3, <1>4, <1>5, InvBefore, InvAfter

(* An invalidation: the data stay, and are served only if they were. *)
LEMMA Marking ==
  ASSUME NEW invalid \in BOOLEAN, NEW e \in Entries
  PROVE  /\ EntryMarked(invalid, e) \in Entries
         /\ EntryMarked(invalid, e).data = e.data
         /\ Serves(EntryMarked(invalid, e)) => Serves(e)
         /\ invalid /\ Serves(EntryMarked(invalid, e)) => key = Templates
BY DEF EntryMarked, Entries, Serves, Has

LEMMA Refetching ==
  ASSUME fetch \in Fetches, NEW removed \in BOOLEAN, NEW invalid \in BOOLEAN, NEW e
  PROVE  /\ FetchAfter(removed, invalid, e) \in Fetches
         /\ \/ FetchAfter(removed, invalid, e) = fetch
            \/ FetchAfter(removed, invalid, e).pc # "answered"
BY DEF FetchAfter, Request, NoFetch, Fetches

LEMMA RefreshStep ==
  ASSUME CacheInv, TokenRefreshed
  PROVE  CacheInv'
<1>1. UNCHANGED <<key, mounted, server, run, settled>>
  BY DEF TokenRefreshed
<1>2. entry' \in Entries /\ entry'.data = entry.data /\ (Serves(entry') => Serves(entry))
  BY InvBefore, Marking DEF TokenRefreshed
<1>3. fetch' \in Fetches /\ (fetch' = fetch \/ fetch'.pc # "answered")
  BY InvBefore, Refetching DEF TokenRefreshed
<1>4. \A x \in settled : AnswerHas(fetch', x)
  BY <1>3, InvBefore DEF AnswerHas
<1>5. Serves(entry') => \A x \in settled : Retained(entry', x)
  BY <1>2, InvBefore DEF Retained
<1> QED
  BY <1>1, <1>2, <1>3, <1>4, <1>5, InvBefore, InvAfter

LEMMA OthersStep ==
  ASSUME CacheInv, OthersWrite
  PROVE  CacheInv'
<1>1. UNCHANGED <<key, mounted, entry, fetch, run, settled>>
  BY DEF OthersWrite
<1>2. server' \in SUBSET Writes /\ server \subseteq server'
  <2>1. Cardinality(server) \in Nat /\ Cardinality(server) + 1 <= MaxWrites
    BY Counted, QueryCacheAssumption DEF OthersWrite, CacheInv
  <2>2. Cardinality(server) + 1 \in Writes
    BY <2>1, NextWrite DEF CacheInv
  <2> QED
    BY <2>2, InvBefore DEF OthersWrite
<1> QED
  BY <1>1, <1>2, InvBefore, InvAfter

LEMMA MutateStep ==
  ASSUME CacheInv, NEW r \in Slots, NEW m \in Mutations, Mutate(r, m)
  PROVE  CacheInv'
<1>1. UNCHANGED <<key, mounted, entry, fetch, server, settled>>
  BY DEF Mutate
<1> DEFINE sent == [pc |-> "sent", m |-> m, write |-> 0, answer |-> {}]
<1>2. sent \in Runs /\ sent.pc = "sent" /\ sent.m = m /\ sent.write = 0
  BY QueryCacheAssumption DEF Runs
<1>3. run' = [run EXCEPT ![r] = sent]
  BY DEF Mutate
<1> HIDE DEF sent
<1>4. run' \in [Slots -> Runs] /\ \A s \in Slots : run'[s] = IF s = r THEN sent ELSE run[s]
  BY <1>2, <1>3, InvBefore
<1> QED
  BY <1>1, <1>2, <1>4, InvBefore, InvAfter

LEMMA CommitStep ==
  ASSUME CacheInv, NEW r \in Slots, Commit(r)
  PROVE  CacheInv'
<1>1. UNCHANGED <<key, mounted, entry, fetch, settled>>
  BY DEF Commit
<1> DEFINE written == Touched(run[r].m)
           n == IF written THEN Cardinality(server) + 1 ELSE 0
           done == [run[r] EXCEPT !.pc = "written", !.write = n, !.answer = server']
<1>2. Cardinality(server) \in Nat
  BY Counted DEF CacheInv
<1>3. n \in 0..MaxWrites /\ (written => n \in Writes) /\ (~written => n = 0)
  BY <1>2, NextWrite, QueryCacheAssumption DEF Commit, CacheInv, Writes
<1>4. server' \in SUBSET Writes /\ server \subseteq server' /\ (written => n \in server')
  BY <1>3, InvBefore DEF Commit
<1>5. run[r] \in Runs /\ run[r].m \in Mutations
  BY InvBefore DEF Commit
<1>6. run' = [run EXCEPT ![r] = done]
  <2>1. run \in [Slots -> Runs]
    BY InvBefore
  <2>2. run' = [run EXCEPT ![r].pc = "written", ![r].write = n, ![r].answer = server']
    BY DEF Commit
  <2> HIDE DEF n, written
  <2> QED
    BY <2>1, <2>2, ZenonT(30)
<1> HIDE DEF written, n
<1>7. done \in Runs /\ done.m = run[r].m /\ done.write = n /\ done.answer = server'
  BY <1>3, <1>4, <1>5 DEF Runs
<1> HIDE DEF done
<1>8. run' \in [Slots -> Runs] /\ \A s \in Slots : run'[s] = IF s = r THEN done ELSE run[s]
  BY <1>6, <1>7, InvBefore
<1>9. \A s \in Slots : run'[s].write # 0 =>
        run'[s].write \in run'[s].answer /\ run'[s].write \in server' /\ Touched(run'[s].m)
  <2> SUFFICES ASSUME NEW s \in Slots, run'[s].write # 0
               PROVE  run'[s].write \in run'[s].answer /\ run'[s].write \in server' /\ Touched(run'[s].m)
    OBVIOUS
  <2>1. CASE s = r
    BY <2>1, <1>3, <1>4, <1>7, <1>8 DEF written
  <2>2. CASE s # r
    BY <2>2, <1>4, <1>8, InvBefore
  <2> QED
    BY <2>1, <2>2
<1>10. \A s \in Slots : run'[s].pc # "idle" => run'[s].m \in Mutations
  BY <1>5, <1>7, <1>8, InvBefore
<1>11. \A x \in settled : x.write \in server'
  BY <1>4, InvBefore
<1> QED
  BY <1>1, <1>4, <1>8, <1>9, <1>10, <1>11, InvBefore, InvAfter

(* What a mutation leaves in the history of those that settled. *)
LEMMA NotesAre ==
  ASSUME settled \subseteq Notes, NEW r \in Slots, run[r] \in Runs, NEW ok \in BOOLEAN,
         run[r].write # 0 => run[r].m \in Mutations
  PROVE  /\ Note(r, ok) \subseteq Notes
         /\ \A x \in Note(r, ok) :
              \/ x \in settled /\ (key \in run[r].m.sets => x.write \in run[r].answer)
              \/ /\ run[r].write # 0 /\ x.m = run[r].m /\ x.write = run[r].write
                 /\ fetch'.pc = "answered" => x.write \in fetch'.answer
<1> DEFINE s == run[r]
           new == [m |-> s.m, write |-> s.write, ok |-> ok]
<1> SUFFICES ASSUME NEW x \in Note(r, ok)
             PROVE  /\ x \in Notes
                    /\ \/ x \in settled /\ (key \in s.m.sets => x.write \in s.answer)
                       \/ /\ s.write # 0 /\ x.m = s.m /\ x.write = s.write
                          /\ fetch'.pc = "answered" => x.write \in fetch'.answer
  OBVIOUS
<1>1. \/ x \in settled /\ (key \in s.m.sets => x.write \in s.answer)
      \/ s.write # 0 /\ x = new /\ (fetch'.pc = "answered" => x.write \in fetch'.answer)
  BY DEF Note
<1>2. CASE x \in settled /\ (key \in s.m.sets => x.write \in s.answer)
  BY <1>2
<1>3. CASE s.write # 0 /\ x = new /\ (fetch'.pc = "answered" => x.write \in fetch'.answer)
  <2>1. s.write \in Writes /\ s.m \in Mutations
    BY <1>3, QueryCacheAssumption DEF Runs, Writes
  <2>2. new \in Notes /\ new.m = s.m /\ new.write = s.write
    BY <2>1 DEF Notes
  <2> HIDE DEF new
  <2> QED
    BY <1>3, <2>2
<1> QED
  BY <1>1, <1>2, <1>3

(* What a key shows and a mutation wrote is seen to, and the list of *)
(* templates by all that write it in the same way.                   *)
LEMMA TouchedIsSeenTo ==
  ASSUME key \in Keys, NEW m \in Mutations, Touched(m)
  PROVE  /\ Invalidated(m) \/ key \in UNION {m.sets, m.merges, m.removes} \/ <<m.name, key>> \in KnownLags
         /\ key = Templates => key \in m.merges
<1>1. PICK row \in m.writes : <<key, row>> \in Reads
  BY DEF Touched
<1>2. SeenTo(m, key)
  BY <1>1, HooksSeeToTheirKeys
<1>3. key = Templates => key \in m.merges
  BY <1>1, TemplatesShow, OneEffect
<1> QED
  BY <1>2, <1>3 DEF SeenTo, Invalidated

(* The entry after its mutation was answered *)
LEMMA SetIs ==
  ASSUME NEW m \in Mutations, NEW write \in 0..MaxWrites, NEW answer \in SUBSET Writes, entry \in Entries,
         NEW set, set = EntrySet(m, write, answer, entry)
  PROVE  /\ set \in Entries
         /\ Serves(set) =>
              \/ key \in m.sets /\ set.data = answer
              \/ /\ Serves(entry) /\ key \notin m.sets
                 /\ entry.data \subseteq set.data
                 /\ key \in m.merges /\ write # 0 => write \in set.data
                 /\ key \notin m.merges => set = entry /\ key \notin m.removes
<1> DEFINE patched == entry.data \cup ({write} \ {0})
<1>1. CASE key \in m.sets
  <2>1. set = [data |-> answer, stale |-> key \in NeverFresh]
    BY <1>1, OneEffect DEF EntrySet
  <2> DEFINE never == key \in NeverFresh
  <2>2. never \in BOOLEAN
    OBVIOUS
  <2>3. set = [data |-> answer, stale |-> never]
    BY <2>1
  <2> HIDE DEF never
  <2>4. set \in Entries
    BY <2>2, <2>3, EntryIs
  <2>5. set.data = answer
    BY <2>3
  <2> QED
    BY <1>1, <2>4, <2>5
<1>2. CASE key \notin m.sets /\ key \in m.merges /\ Has(entry)
  <2>1. set = [data |-> patched, stale |-> FALSE]
    BY <1>2, OneEffect DEF EntrySet
  <2>2. patched \in SUBSET Writes
    BY <1>2, QueryCacheAssumption DEF Has, Entries, Writes
  <2>3. key = Templates
    BY <1>2, OneEffect
  <2>4. set \in Entries
    BY <2>1, <2>2, EntryIs
  <2>5. set.data = patched
    BY <2>1
  <2>6. Serves(entry)
    BY <1>2, <2>3 DEF Serves
  <2> QED
    BY <1>2, <2>4, <2>5, <2>6
<1>3. CASE key \notin m.sets /\ ~(key \in m.merges /\ Has(entry)) /\ key \in m.removes
  <2>1. set = NoEntry
    BY <1>3, OneEffect DEF EntrySet
  <2> QED
    BY <2>1, EntryIs DEF Serves, Has, NoEntry
<1>4. CASE key \notin m.sets /\ ~(key \in m.merges /\ Has(entry)) /\ key \notin m.removes
  <2>1. set = entry
    BY <1>4, OneEffect DEF EntrySet
  <2> QED
    BY <1>4, <2>1 DEF Serves
<1> QED
  BY <1>1, <1>2, <1>3, <1>4

LEMMA SettleStep ==
  ASSUME CacheInv, NEW r \in Slots, Settle(r)
  PROVE  CacheInv'
<1> DEFINE m == run[r].m
           write == run[r].write
           answer == run[r].answer
           set == EntrySet(m, write, answer, entry)
<1>1. UNCHANGED <<key, mounted, server>>
  BY DEF Settle
<1>2. run[r] \in Runs /\ m \in Mutations /\ write \in 0..MaxWrites /\ answer \in SUBSET Writes
  BY InvBefore DEF Settle, Runs
<1>3. /\ set \in Entries
      /\ Serves(set) =>
           \/ key \in m.sets /\ set.data = answer
           \/ /\ Serves(entry) /\ key \notin m.sets
              /\ entry.data \subseteq set.data
              /\ key \in m.merges /\ write # 0 => write \in set.data
              /\ key \notin m.merges => set = entry /\ key \notin m.removes
  BY <1>2, SetIs, InvBefore
<1>4. /\ entry' = EntryMarked(Invalidated(m), set)
      /\ fetch' = FetchAfter(key \in m.removes, Invalidated(m), set)
      /\ run' = [run EXCEPT ![r] = NoRun] /\ settled' = Note(r, TRUE)
  BY DEF Settle
<1>5. Invalidated(m) \in BOOLEAN /\ (key \in m.removes) \in BOOLEAN
  BY DEF Invalidated
<1> HIDE DEF set
<1>6. /\ entry' \in Entries /\ entry'.data = set.data
      /\ Serves(entry') => Serves(set)
      /\ Invalidated(m) /\ Serves(entry') => key = Templates
  BY <1>3, <1>4, <1>5, Marking
<1>7. fetch' \in Fetches /\ (fetch' = fetch \/ fetch'.pc # "answered")
  BY <1>4, <1>5, Refetching, InvBefore
<1>8. /\ run' \in [Slots -> Runs] /\ \A s \in Slots : run'[s] = IF s = r THEN NoRun ELSE run[s]
      /\ NoRun.pc = "idle" /\ NoRun.write = 0
  BY <1>4, InvBefore, NoRunIs
<1>9. /\ settled' \subseteq Notes
      /\ \A x \in settled' :
           \/ x \in settled /\ (key \in m.sets => x.write \in answer)
           \/ /\ write # 0 /\ x.m = m /\ x.write = write
              /\ fetch'.pc = "answered" => x.write \in fetch'.answer
  BY <1>2, <1>4, NotesAre, InvBefore
<1>10. write # 0 => write \in answer /\ write \in server /\ Touched(m)
  BY InvBefore
<1> HIDE DEF m, write, answer
<1>11. ASSUME NEW x \in settled'
       PROVE  x.write \in server /\ AnswerHas(fetch', x)
  BY <1>7, <1>9, <1>10, InvBefore DEF AnswerHas
<1>12. ASSUME Serves(entry'), NEW x \in settled'
       PROVE  Retained(entry', x)
  <2>1. Serves(set) /\ entry'.data = set.data
    BY <1>6, <1>12
  <2>2. CASE x \in settled /\ (key \in m.sets => x.write \in answer)
    <3>1. CASE key \in m.sets /\ set.data = answer
      BY <2>1, <2>2, <3>1 DEF Retained
    <3>2. CASE Serves(entry) /\ entry.data \subseteq set.data
      BY <2>1, <2>2, <3>2, InvBefore DEF Retained
    <3> QED
      BY <1>3, <2>1, <3>1, <3>2
  <2>3. CASE write # 0 /\ x.m = m /\ x.write = write
    <3>1. CASE key \in m.sets /\ set.data = answer
      BY <1>10, <2>1, <2>3, <3>1 DEF Retained
    <3>2. CASE key \notin m.sets /\ key \in m.merges
      BY <1>3, <2>1, <2>3, <3>2 DEF Retained
    <3>3. CASE key \notin m.sets /\ key \notin m.merges
      <4>1. key \notin m.removes
        BY <1>3, <2>1, <3>3
      <4>2. /\ Invalidated(m) \/ key \in UNION {m.sets, m.merges, m.removes} \/ <<m.name, key>> \in KnownLags
            /\ key # Templates
        BY <1>2, <1>10, <2>3, <3>3, TouchedIsSeenTo, InvBefore DEF m
      <4>3. ~Invalidated(m)
        BY <1>6, <1>12, <4>2
      <4> QED
        BY <2>3, <3>3, <4>1, <4>2, <4>3 DEF Retained
    <3> QED
      BY <1>3, <2>1, <3>1, <3>2, <3>3
  <2> QED
    BY <1>9, <2>2, <2>3
<1> QED
  BY <1>1, <1>6, <1>7, <1>8, <1>9, <1>11, <1>12, InvBefore, InvAfter

LEMMA BatchIs ==
  \A m \in BatchUserWrites : m.settled = TRUE /\ m.sets = {} /\ m.merges = {} /\ m.removes = {}
BY DEF BatchUserWrites, Effect

LEMMA SettleErrorStep ==
  ASSUME CacheInv, NEW r \in Slots, SettleError(r)
  PROVE  CacheInv'
<1> DEFINE m == run[r].m
           write == run[r].write
           invalid == m.settled /\ Invalidated(m)
<1>1. UNCHANGED <<key, mounted, server>>
  BY DEF SettleError
<1>2. run[r] \in Runs /\ m \in Mutations
  BY InvBefore DEF SettleError
<1>3. /\ entry' = EntryMarked(invalid, entry)
      /\ fetch' = FetchAfter(FALSE, invalid, entry)
      /\ run' = [run EXCEPT ![r] = NoRun]
      /\ settled' = IF m \in BatchUserWrites THEN Note(r, FALSE) ELSE settled
  BY DEF SettleError
<1>4. invalid \in BOOLEAN
  BY DEF Invalidated
<1>5. m \in BatchUserWrites => invalid = Invalidated(m)
  BY BatchIs DEF Invalidated
<1> HIDE DEF invalid
<1>6. /\ entry' \in Entries /\ entry'.data = entry.data
      /\ Serves(entry') => Serves(entry)
      /\ invalid /\ Serves(entry') => key = Templates
  BY <1>3, <1>4, Marking, InvBefore
<1>7. fetch' \in Fetches /\ (fetch' = fetch \/ fetch'.pc # "answered")
  BY <1>3, <1>4, Refetching, InvBefore
<1>8. /\ run' \in [Slots -> Runs] /\ \A s \in Slots : run'[s] = IF s = r THEN NoRun ELSE run[s]
      /\ NoRun.pc = "idle" /\ NoRun.write = 0
  BY <1>3, InvBefore, NoRunIs
<1>9. /\ settled' \subseteq Notes
      /\ \A x \in settled' :
           \/ x \in settled
           \/ /\ m \in BatchUserWrites /\ write # 0 /\ x.m = m /\ x.write = write
              /\ fetch'.pc = "answered" => x.write \in fetch'.answer
  <2>1. CASE m \in BatchUserWrites
    <3>1. settled' = Note(r, FALSE)
      BY <1>3, <2>1
    <3>2. FALSE \in BOOLEAN
      OBVIOUS
    <3> QED
      BY <1>2, <2>1, <3>1, <3>2, NotesAre, InvBefore
  <2>2. CASE m \notin BatchUserWrites
    BY <1>3, <2>2, InvBefore
  <2> QED
    BY <2>1, <2>2
<1>10. write # 0 => write \in server /\ Touched(m)
  BY InvBefore
<1> HIDE DEF m, write
<1>11. ASSUME NEW x \in settled'
       PROVE  x.write \in server /\ AnswerHas(fetch', x)
  BY <1>7, <1>9, <1>10, InvBefore DEF AnswerHas
<1>12. ASSUME Serves(entry'), NEW x \in settled'
       PROVE  Retained(entry', x)
  <2>1. Serves(entry) /\ entry'.data = entry.data
    BY <1>6, <1>12
  <2>2. CASE x \in settled
    BY <2>1, <2>2, InvBefore DEF Retained
  <2>3. CASE m \in BatchUserWrites /\ write # 0 /\ x.m = m /\ x.write = write
    <3>1. /\ Invalidated(m) \/ <<m.name, key>> \in KnownLags
          /\ key # Templates
      BY <1>2, <1>10, <2>3, BatchIs, TouchedIsSeenTo, InvBefore
    <3> QED
      BY <1>5, <1>6, <1>12, <2>3, <3>1 DEF Retained
  <2> QED
    BY <1>9, <2>2, <2>3
<1> QED
  BY <1>1, <1>6, <1>7, <1>8, <1>9, <1>11, <1>12, InvBefore, InvAfter

LEMMA CacheStep == CacheInv /\ [CacheNext]_cacheVars => CacheInv'
<1> SUFFICES ASSUME CacheInv, [CacheNext]_cacheVars
             PROVE  CacheInv'
  OBVIOUS
<1>1. CASE Mount \/ Unmount \/ Focus \/ GoStale \/ Collect
  BY <1>1, PageSteps
<1>2. CASE Answer \/ FetchDone \/ FetchFails \/ Logout
  BY <1>2, FetchSteps
<1>3. CASE TokenRefreshed
  BY <1>3, RefreshStep
<1>4. CASE OthersWrite
  BY <1>4, OthersStep
<1>5. ASSUME NEW r \in Slots, (\E m \in Concerned[key] : Mutate(r, m)) \/ Commit(r) \/ Settle(r) \/ SettleError(r)
      PROVE  CacheInv'
  <2>1. key \in Keys
    BY InvBefore
  <2>2. Concerned[key] \subseteq Mutations
    BY <2>1 DEF Concerned
  <2> QED
    BY <1>5, <2>2, MutateStep, CommitStep, SettleStep, SettleErrorStep
<1>6. CASE UNCHANGED cacheVars
  <2>1. UNCHANGED <<key, mounted, entry, fetch, server, run, settled>>
    BY <1>6 DEF cacheVars
  <2> QED
    BY <2>1, InvBefore, InvAfter
<1> QED
  BY <1>1, <1>2, <1>3, <1>4, <1>5, <1>6 DEF CacheNext

LEMMA CacheSafe == CacheSpec => []CacheInv
BY CacheInitInv, CacheStep, PTL DEF CacheSpec

(* An entry, a fetch and the mutations in flight are what they should be. *)
THEOREM CacheIsTyped == CacheSpec => []CacheTypeOK
<1>1. CacheInv => CacheTypeOK
  BY DEF CacheInv
<1> QED
  BY <1>1, CacheSafe, PTL

LEMMA ServedRetains ==
  ASSUME CacheInv, ShownAsFresh, NEW x \in settled
  PROVE  ~Lags(x)
BY InvBefore DEF ShownAsFresh, Serves, Retained, Lags

(* onSuccess of the mutation hooks: with any number of mutations in flight no *)
(* entry served as fresh lacks what one that succeeded has written, but for   *)
(* the known lags and what an older answer has overtaken.                     *)
THEOREM SuccessShows == CacheSpec => []SuccessIsShown
<1>1. CacheInv => SuccessIsShown
  BY ServedRetains DEF SuccessIsShown
<1> QED
  BY <1>1, CacheSafe, PTL

(* onSettled of useBatchUpsertUsers and useBulkUpdateUsers: when a batch fails *)
(* for some users, what it wrote of the others is not hidden either.           *)
THEOREM PartialBatchShows == CacheSpec => []PartialBatchIsShown
<1>1. CacheInv => PartialBatchIsShown
  BY ServedRetains DEF PartialBatchIsShown
<1> QED
  BY <1>1, CacheSafe, PTL

==============================================================================

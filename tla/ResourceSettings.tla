--------------------------- MODULE ResourceSettings ---------------------------
(***************************************************************************)
(* The settings of one resource: who may see it, reserve it and be         *)
(* confirmed at once, until when, how long, and under which contracts.     *)
(*                                                                         *)
(* Administrators change them in components/ResourceForm.tsx, opened by    *)
(* routes/_app/resources/create.tsx and edit/$id.tsx; the form says in     *)
(* words who will be allowed what (utils/resourceAccess.ts).  The server   *)
(* stores them (domains/resources/db.rs) and enforces them in the queries  *)
(* that list resources and in the checks on a reservation                  *)
(* (domains/reservations/db.rs).  Several administrators may have the form *)
(* open at once, on what they loaded at different times.                   *)
(*                                                                         *)
(* Name, collection, colour, description, mailbox, recurrence and          *)
(* blocks-only are kept as whether the form accepts them.  Days are        *)
(* numbers; an instant the server keeps is the last one of a UTC day.      *)
(***************************************************************************)
EXTENDS Integers, FiniteSets

CONSTANTS
  Groups, Contracts, Editors,
  GlobalContracts,   \* those of Contracts that are is_global
  Minutes,           \* durations; 0 is the empty field and, stored, no limit
  Existing,          \* what may be stored before the administrators come: Settings
  MaxDay,            \* bound on the days a deadline may be stored for
  DayShift,          \* 1 where the last instant of a UTC day is the next day, else 0
  MaxChanges,        \* bound on the changes administrators make
  Visitor, Admin,    \* someone not signed in, and an administrator
  None, Deleted

Durations == [shortest : Minutes, default : Minutes, longest : Minutes]

ASSUME SettingsAssumption ==
  /\ {Visitor, Admin} \cap Groups = {} /\ Visitor # Admin
  /\ GlobalContracts \subseteq Contracts
  /\ 0 \in Minutes /\ Minutes \subseteq Nat
  /\ MaxDay \in Nat /\ DayShift \in {0, 1} /\ MaxChanges \in Nat
  /\ None \notin Nat

Days == 0..(MaxDay + DayShift)

(* a row of resources with its rows in the three tables of groups and in *)
(* resource_contracts                                                    *)
Settings ==
  [public : BOOLEAN, visible : SUBSET Groups, restricted : BOOLEAN, reserve : SUBSET Groups,
   auto : BOOLEAN, autoGroups : SUBSET Groups, until : (0..MaxDay) \cup {None},
   durations : Durations, contracts : SUBSET Contracts]

ASSUME ExistingAssumption == Existing \subseteq Settings

VARIABLES
  resource,   \* the stored settings; None before creation, Deleted after deletion
  active,     \* the contracts that are is_active
  form,       \* per administrator, the form
  loaded,     \* per administrator, the resource as the query cache has it
  shown,      \* history: what the form said and held when the last save was sent
  changes     \* history: counts to MaxChanges

vars == <<resource, active, form, loaded, shown, changes>>

-----------------------------------------------------------------------------
(* What the server decides. A viewer is a visitor, the member of a group or *)
(* an administrator; every user is in a group.                              *)
SignedIn == Groups \cup {Admin}
Viewers == SignedIn \cup {Visitor}

(* the WHERE of list_all and find_by_id *)
Listed(v, r) ==
  \/ v = Admin \/ r.public \/ v \in r.visible
  \/ r.restricted /\ v \in r.reserve

(* the column can_reserve *)
CanReserve(v, r) == v = Admin \/ ~r.restricted \/ v \in r.reserve

(* validate_resource_visibility *)
PassesVisibility(v, r) ==
  v # Admin => ~(/\ ~r.public /\ v \notin r.visible
                 /\ ~(r.restricted /\ v \in r.reserve))

(* validate_resource_group_access *)
PassesGroupAccess(v, r) == v # Admin => ~(r.restricted /\ v \notin r.reserve)

(* create_reservation and update_reservation take an AuthUser, and make both *)
(* checks of one                                                             *)
MayReserve(v, r) == v \in SignedIn /\ PassesVisibility(v, r) /\ PassesGroupAccess(v, r)

(* should_auto_confirm, of a reservation of this resource alone *)
AutoConfirmed(v, r) == r.auto /\ (r.autoGroups # {} => v \in r.autoGroups)

-----------------------------------------------------------------------------
(* What the form says. *)
Everyone == [kind |-> "everyone", groups |-> {}]
AdminsOnly == [kind |-> "admins", groups |-> {}]
FromGroups(gs) == IF gs = {} THEN AdminsOnly ELSE [kind |-> "groups", groups |-> gs]

(* summarizeResourceAccess; the second form forgets that groups that may   *)
(* reserve see the resource as well                                        *)
Seers_VisibilityOnly(f) == IF f.public THEN Everyone ELSE FromGroups(f.visible)
Seers(f) ==
  IF f.public THEN Everyone
  ELSE FromGroups(f.visible \cup (IF f.restricted THEN f.reserve ELSE {}))
Reservers(f) == IF f.restricted THEN FromGroups(f.reserve) ELSE Seers(f)
Confirmed(f) ==
  IF ~f.auto THEN [kind |-> "approval", groups |-> {}]
  ELSE IF f.autoGroups = {} THEN Everyone ELSE FromGroups(f.autoGroups)

Summary(f) == [see |-> Seers(f), reserve |-> Reservers(f), confirm |-> Confirmed(f)]

(* AccessSummary: whom the sentence it makes of an audience names *)
Names(audience, v) ==
  CASE audience.kind = "everyone" -> TRUE
    [] audience.kind = "groups" -> v = Admin \/ v \in audience.groups
    [] OTHER -> v = Admin

-----------------------------------------------------------------------------
(* The fields. *)
Blank ==
  [public |-> TRUE, visible |-> {}, restricted |-> FALSE, reserve |-> {},
   auto |-> FALSE, autoGroups |-> {}, until |-> None,
   durations |-> [shortest |-> 0, default |-> 0, longest |-> 0],
   contracts |-> {}, filled |-> FALSE]

(* toDateInputValue: the local day of the stored instant *)
ToDateInput(until) == IF until = None THEN None ELSE until + DayShift

(* the contracts the form lists, and those the edit page finds linked: none *)
(* when the query for them failed                                           *)
Offered == active \ GlobalContracts
LinkedTo(r) == {r.contracts \cap Offered, {}}

(* EditResourcePage and the defaultValues of the form *)
Opened(r, links) ==
  [public |-> r.public, visible |-> r.visible, restricted |-> r.restricted,
   reserve |-> r.reserve, auto |-> r.auto, autoGroups |-> r.autoGroups,
   until |-> ToDateInput(r.until), durations |-> r.durations,
   contracts |-> links, filled |-> TRUE]

NoForm == [pc |-> "closed", creates |-> FALSE, touched |-> FALSE, values |-> Blank,
           sent |-> Blank]

Init ==
  /\ resource \in {None} \cup Existing
  /\ active = Contracts
  /\ form = [e \in Editors |-> NoForm]
  /\ loaded = [e \in Editors |-> None]
  /\ shown = None
  /\ changes = 0

Change == changes < MaxChanges /\ changes' = changes + 1

OpenCreate(e) ==
  /\ resource = None /\ form[e].pc = "closed"
  /\ form' = [form EXCEPT ![e] = [NoForm EXCEPT !.pc = "open", !.creates = TRUE]]
  /\ UNCHANGED <<resource, active, loaded, shown, changes>>

(* useResource answers from the cache if it can, and fetches in any case *)
OpenEdit(e) ==
  /\ form[e].pc = "closed"
  /\ \E r \in {loaded[e], resource} \ {None, Deleted} :
       /\ loaded' = [loaded EXCEPT ![e] = r]
       /\ \E links \in LinkedTo(r) :
            form' = [form EXCEPT ![e] =
                       [NoForm EXCEPT !.pc = "open", !.values = Opened(r, links)]]
  /\ UNCHANGED <<resource, active, shown, changes>>

(* A fetch answered while the form is open changes its values only if the *)
(* user has not touched them.                                             *)
Reload(e) ==
  /\ resource \notin {None, Deleted} /\ loaded[e] # None
  /\ loaded' = [loaded EXCEPT ![e] = resource]
  /\ IF form[e].pc = "open" /\ ~form[e].touched /\ ~form[e].creates
       THEN form' = [form EXCEPT ![e].values = Opened(resource, @.contracts)]
       ELSE UNCHANGED form
  /\ UNCHANGED <<resource, active, shown, changes>>

Leave(e) ==
  /\ form[e].pc = "open"
  /\ form' = [form EXCEPT ![e] = NoForm]
  /\ UNCHANGED <<resource, active, loaded, shown, changes>>

-----------------------------------------------------------------------------
(* A change of one field.  The first form of each is what the list of the  *)
(* groups or the toggle hands on.                                          *)
Toggled(g, gs) == IF g \in gs THEN gs \ {g} ELSE gs \cup {g}

SetPublic(f) == [f EXCEPT !.public = ~@]
PickVisible(f, g) == [f EXCEPT !.visible = Toggled(g, @)]
SetRestricted(f) == [f EXCEPT !.restricted = ~@]

(* a group that is newly ticked here must also see the resource *)
PickReserve(f, g) ==
  [f EXCEPT !.reserve = Toggled(g, @),
            !.visible = @ \cup (Toggled(g, f.reserve) \ f.reserve)]
SetAuto(f) == [f EXCEPT !.auto = ~@]
PickAuto(f, g) == [f EXCEPT !.autoGroups = Toggled(g, @)]
SetUntil(f, d) == [f EXCEPT !.until = d]
SetDuration(f, name, m) == [f EXCEPT !.durations[name] = m]
PickContract(f, c) == [f EXCEPT !.contracts = Toggled(c, @)]
Fill(f) == [f EXCEPT !.filled = ~@]

(* the lists of groups are on the page only where they apply *)
Edits(f) ==
  {SetPublic(f), SetRestricted(f), SetAuto(f), Fill(f)}
  \cup (IF f.public THEN {} ELSE {PickVisible(f, g) : g \in Groups})
  \cup (IF f.restricted THEN {PickReserve(f, g) : g \in Groups} ELSE {})
  \cup (IF f.auto THEN {PickAuto(f, g) : g \in Groups} ELSE {})
  \cup {SetUntil(f, d) : d \in (0..MaxDay) \cup {None}}
  \cup {SetDuration(f, n, m) : n \in {"shortest", "default", "longest"}, m \in Minutes}
  \cup {PickContract(f, c) : c \in Offered}

(* fields stay open to change while a save is on its way; it has its payload *)
Edit(e) ==
  /\ form[e].pc \in {"open", "sending"}
  /\ Change
  /\ \E f \in Edits(form[e].values) :
       form' = [form EXCEPT ![e].values = f, ![e].touched = TRUE]
  /\ UNCHANGED <<resource, active, loaded, shown>>

-----------------------------------------------------------------------------
(* The validators of the three durations.  0 is no limit. *)
DurationsFit(d) ==
  /\ d.shortest > 0 /\ d.longest > 0 => d.shortest <= d.longest
  /\ d.default > 0 =>
       /\ d.shortest > 0 => d.default >= d.shortest
       /\ d.longest > 0 => d.default <= d.longest

CanSubmit(f) == f.filled /\ DurationsFit(f.durations)

(* ResourceForm's onSubmit: the deadline is the last instant of the chosen *)
(* day in UTC, the rest is sent as it stands                                *)
Payload(f) ==
  [public |-> f.public, visible |-> f.visible, restricted |-> f.restricted,
   reserve |-> f.reserve, auto |-> f.auto, autoGroups |-> f.autoGroups,
   until |-> f.until, durations |-> f.durations, contracts |-> f.contracts]

(* update: the lists of groups and of contracts are replaced, whatever they *)
(* hold; a duration of 0 clears it; a deadline that is not sent stays.  In  *)
(* the first form an empty list leaves the rows as they are.                *)
Updated_EmptyListsStay(r, p) ==
  [p EXCEPT !.until = IF @ = None THEN r.until ELSE @,
            !.visible = IF @ = {} THEN r.visible ELSE @,
            !.reserve = IF @ = {} THEN r.reserve ELSE @]
Updated(r, p) == [p EXCEPT !.until = IF @ = None THEN r.until ELSE @]

(* the button is disabled while a save runs, and the form keeps a copy *)
Submit(e) ==
  /\ form[e].pc = "open" /\ CanSubmit(form[e].values)
  /\ form[e].values.until \in (0..MaxDay) \cup {None}    \* bound
  /\ form' = [form EXCEPT ![e].pc = "sending", ![e].sent = form[e].values]
  /\ UNCHANGED <<resource, active, loaded, shown, changes>>

(* The rows are written in one transaction, on what is stored by then: a   *)
(* second resource of the name is refused, and so is one that was deleted. *)
(* Then the queries are fetched again and the page is left, unless the     *)
(* answer is lost.                                                         *)
Commit(e) ==
  LET values == form[e].sent IN
  /\ form[e].pc = "sending"
  /\ IF form[e].creates THEN resource = None ELSE resource \notin {None, Deleted}
  /\ resource' = IF form[e].creates THEN Payload(values)
                 ELSE Updated(resource, Payload(values))
  /\ shown' = [summary |-> Summary(values), until |-> values.until,
               contracts |-> values.contracts]
  /\ \/ /\ form' = [form EXCEPT ![e] = NoForm]
        /\ loaded' = [loaded EXCEPT ![e] = resource']
     \/ /\ form' = [form EXCEPT ![e].pc = "open", ![e].sent = Blank]
        /\ UNCHANGED loaded
  /\ UNCHANGED <<active, changes>>

(* The request is refused or lost: the form stays as it is and can be sent *)
(* again.                                                                  *)
Fail(e) ==
  /\ form[e].pc = "sending"
  /\ form' = [form EXCEPT ![e].pc = "open", ![e].sent = Blank]
  /\ UNCHANGED <<resource, active, loaded, shown, changes>>

(* deletion from the page of the resource *)
Delete(e) ==
  /\ Change
  /\ form[e].pc = "closed" /\ loaded[e] # None
  /\ resource \notin {None, Deleted}
  /\ resource' = Deleted
  /\ shown' = None
  /\ loaded' = [loaded EXCEPT ![e] = None]
  /\ UNCHANGED <<active, form>>

(* an administrator activates or deactivates a contract on its own page *)
ToggleActive(c) ==
  /\ Change
  /\ active' = Toggled(c, active)
  /\ UNCHANGED <<resource, form, loaded, shown>>

Next ==
  \/ \E e \in Editors : \/ OpenCreate(e) \/ OpenEdit(e) \/ Reload(e) \/ Leave(e)
                        \/ Edit(e) \/ Submit(e) \/ Commit(e) \/ Fail(e)
                        \/ Delete(e)
  \/ \E c \in Contracts : ToggleActive(c)

SettingsSpec == Init /\ [][Next]_vars

-----------------------------------------------------------------------------
Fields == [public : BOOLEAN, visible : SUBSET Groups, restricted : BOOLEAN,
           reserve : SUBSET Groups, auto : BOOLEAN, autoGroups : SUBSET Groups,
           until : Days \cup {None}, durations : Durations,
           contracts : SUBSET Contracts, filled : BOOLEAN]

(* The types of the state. *)
TypeOK ==
  /\ resource \in Settings \cup {None, Deleted}
  /\ active \subseteq Contracts
  /\ form \in [Editors -> [pc : {"closed", "open", "sending"},
                          creates : BOOLEAN, touched : BOOLEAN,
                          values : Fields, sent : Fields]]
  /\ loaded \in [Editors -> Settings \cup {None}]
  /\ changes \in 0..MaxChanges

(* What the form said when the last save was sent is what the server does: *)
(* it shows the resource to exactly those the sentence on seeing names,    *)
(* lets exactly those of the users reserve it that the sentence on         *)
(* reserving names, by the check on visibility and the one on groups       *)
(* together as well as by the column the calendar reads, and confirms at   *)
(* once the reservations of exactly the groups named; a deadline that was  *)
(* given and the ticked contracts are stored, and the durations never      *)
(* contradict one another; whatever other administrators had saved and     *)
(* this form had not seen.                                                 *)
SavedAsShown ==
  resource \notin {None, Deleted} /\ shown # None =>
    /\ \A v \in Viewers : Listed(v, resource) <=> Names(shown.summary.see, v)
    /\ \A v \in SignedIn :
         /\ MayReserve(v, resource) <=> Names(shown.summary.reserve, v)
         /\ (Listed(v, resource) /\ CanReserve(v, resource))
              <=> Names(shown.summary.reserve, v)
    /\ \A g \in Groups : AutoConfirmed(g, resource) <=> Names(shown.summary.confirm, g)
    /\ shown.until # None => resource.until = shown.until
    /\ resource.contracts = shown.contracts
    /\ DurationsFit(resource.durations)
=============================================================================

---------------------------- MODULE Admin_proofs ----------------------------
(***************************************************************************)
(* Theorems about the administrator's pages: what the form of a resource   *)
(* said is what the server does (ResourceSettings), what a batch of users  *)
(* showed is what its requests do (UserBatch), and a contract is whole and *)
(* printed as it was chosen (Documents).  For any number of groups,        *)
(* addresses, batches, languages and administrators.                       *)
(***************************************************************************)
EXTENDS ResourceSettings, UserBatch, Documents, SequenceTheorems,
        WellFoundedInduction, TLAPS

(* The form of a resource *)

Forms == [pc : {"closed", "open", "sending"}, creates : BOOLEAN, touched : BOOLEAN,
          values : Fields, sent : Fields]

(* What may be sent: the validators passed, on a day within the bound. *)
Sendable(f) == CanSubmit(f) /\ f.until \in (0..MaxDay) \cup {None}

Inv ==
  /\ TypeOK
  /\ \A e \in Editors : form[e].pc = "sending" => Sendable(form[e].sent)
  /\ SavedAsShown

-----------------------------------------------------------------------------
(* Whom the sentences of the form name is whom the queries and, of the users, *)
(* the checks of the server let through, for every resource stored as the     *)
(* form holds it.                                                             *)
LEMMA SummaryIsServed ==
  ASSUME NEW f \in Fields, NEW r \in Settings,
         r.public = f.public, r.visible = f.visible, r.restricted = f.restricted,
         r.reserve = f.reserve, r.auto = f.auto, r.autoGroups = f.autoGroups
  PROVE  /\ \A v \in Viewers : Listed(v, r) <=> Names(Seers(f), v)
         /\ \A v \in SignedIn :
              /\ MayReserve(v, r) <=> Names(Reservers(f), v)
              /\ (Listed(v, r) /\ CanReserve(v, r)) <=> Names(Reservers(f), v)
         /\ \A g \in Groups : AutoConfirmed(g, r) <=> Names(Confirmed(f), g)
<1>1. \A gs, v : Names(FromGroups(gs), v) <=> v = Admin \/ v \in gs
  BY DEF FromGroups, AdminsOnly, Names
<1>2. \A v : Names(Everyone, v)
  BY DEF Everyone, Names
<1>3. \A v : Names([kind |-> "approval", groups |-> {}], v) <=> v = Admin
  BY DEF Names
<1>4. \A v : Names(Seers(f), v) <=>
               v = Admin \/ f.public \/ v \in f.visible \/ (f.restricted /\ v \in f.reserve)
  BY <1>1, <1>2 DEF Seers
<1>5. \A v : Names(Reservers(f), v) <=>
               IF f.restricted THEN v = Admin \/ v \in f.reserve ELSE Names(Seers(f), v)
  BY <1>1 DEF Reservers
<1>6. ASSUME NEW v \in Viewers
      PROVE  Listed(v, r) <=> Names(Seers(f), v)
  BY <1>4 DEF Listed
<1>8. ASSUME NEW v \in SignedIn
      PROVE  /\ MayReserve(v, r) <=> Names(Reservers(f), v)
             /\ (Listed(v, r) /\ CanReserve(v, r)) <=> Names(Reservers(f), v)
  BY <1>4, <1>5 DEF Listed, CanReserve, MayReserve, PassesVisibility, PassesGroupAccess
<1>7. ASSUME NEW g \in Groups
      PROVE  AutoConfirmed(g, r) <=> Names(Confirmed(f), g)
  <2>1. g # Admin
    BY SettingsAssumption
  <2> QED
    BY <1>1, <1>2, <1>3, <2>1 DEF AutoConfirmed, Confirmed
<1> QED
  BY <1>6, <1>7, <1>8

-----------------------------------------------------------------------------
(* The types of what is opened, edited, sent and stored. *)
LEMMA BlankType == Blank \in Fields /\ NoForm \in Forms
<1>1. Blank \in Fields
  BY SettingsAssumption DEF Blank, Fields, Durations
<1> QED
  BY <1>1 DEF NoForm, Forms

LEMMA OpenedType ==
  ASSUME NEW r \in Settings, NEW links \in SUBSET Contracts
  PROVE  Opened(r, links) \in Fields
<1>1. ToDateInput(r.until) \in Days \cup {None}
  BY SettingsAssumption DEF ToDateInput, Days, Settings
<1> QED
  BY <1>1 DEF Opened, Settings, Fields

LEMMA PayloadType ==
  ASSUME NEW f \in Fields, f.until \in (0..MaxDay) \cup {None}
  PROVE  Payload(f) \in Settings
BY DEF Payload, Fields, Settings

LEMMA UpdatedType ==
  ASSUME NEW r \in Settings, NEW p \in Settings
  PROVE  /\ Updated(r, p) \in Settings
         /\ Updated(r, p) = [p EXCEPT !.until = IF p.until = None THEN r.until ELSE p.until]
BY DEF Updated, Settings

LEMMA EditsType ==
  ASSUME NEW f \in Fields, NEW new \in Edits(f), active \subseteq Contracts
  PROVE  new \in Fields
<1> USE DEF Fields
<1>1. \A g \in Groups, gs \in SUBSET Groups : Toggled(g, gs) \in SUBSET Groups
  BY DEF Toggled
<1>2. \A c \in Contracts, cs \in SUBSET Contracts : Toggled(c, cs) \in SUBSET Contracts
  BY DEF Toggled
<1>3. CASE new \in {SetPublic(f), SetRestricted(f), SetAuto(f), Fill(f)}
  BY <1>3 DEF SetPublic, SetRestricted, SetAuto, Fill
<1>4. CASE \E g \in Groups : new = PickVisible(f, g)
  BY <1>1, <1>4 DEF PickVisible
<1>5. CASE \E g \in Groups : new = PickReserve(f, g)
  <2> PICK g \in Groups : new = PickReserve(f, g)
    BY <1>5
  <2>1. Toggled(g, f.reserve) \in SUBSET Groups
    BY <1>1
  <2> QED
    BY <2>1 DEF PickReserve
<1>6. CASE \E g \in Groups : new = PickAuto(f, g)
  BY <1>1, <1>6 DEF PickAuto
<1>7. CASE \E d \in (0..MaxDay) \cup {None} : new = SetUntil(f, d)
  <2>1. 0..MaxDay \subseteq Days
    BY SettingsAssumption DEF Days
  <2> QED
    BY <1>7, <2>1 DEF SetUntil
<1>8. CASE \E n \in {"shortest", "default", "longest"}, m \in Minutes : new = SetDuration(f, n, m)
  <2> PICK n \in {"shortest", "default", "longest"}, m \in Minutes : new = SetDuration(f, n, m)
    BY <1>8
  <2>1. [f.durations EXCEPT ![n] = m] \in Durations
    BY DEF Durations
  <2> QED
    BY <2>1 DEF SetDuration
<1>9. CASE \E c \in Offered : new = PickContract(f, c)
  BY <1>2, <1>9 DEF PickContract, Offered
<1> QED
  BY <1>3, <1>4, <1>5, <1>6, <1>7, <1>8, <1>9 DEF Edits

-----------------------------------------------------------------------------
(* A step that changes forms only, of whatever kind, keeps the invariant. *)
LEMMA FormStep ==
  ASSUME Inv, UNCHANGED <<resource, active, shown>>,
         form' \in [Editors -> Forms],
         \A e \in Editors : form'[e].pc = "sending" => Sendable(form'[e].sent),
         loaded' \in [Editors -> Settings \cup {None}],
         changes' \in 0..MaxChanges
  PROVE  Inv'
<1>1. TypeOK'
  BY DEF Inv, TypeOK, Forms
<1>2. SavedAsShown'
  BY DEF Inv, SavedAsShown
<1> QED
  BY <1>1, <1>2 DEF Inv

(* The same where one form becomes f. *)
LEMMA OneFormStep ==
  ASSUME Inv, UNCHANGED <<resource, active, shown>>,
         NEW e \in Editors, NEW f \in Forms, f.pc = "sending" => Sendable(f.sent),
         form' = [form EXCEPT ![e] = f],
         loaded' \in [Editors -> Settings \cup {None}],
         changes' \in 0..MaxChanges
  PROVE  Inv'
<1>1. form \in [Editors -> Forms]
  BY DEF Inv, TypeOK, Forms
<1>2. form' \in [Editors -> Forms]
  BY <1>1
<1>3. \A x \in Editors : form'[x].pc = "sending" => Sendable(form'[x].sent)
  BY <1>1 DEF Inv
<1> QED
  BY <1>2, <1>3, FormStep

LEMMA OpenStep ==
  ASSUME Inv, NEW e \in Editors,
         OpenCreate(e) \/ OpenEdit(e) \/ Reload(e) \/ Leave(e)
  PROVE  Inv'
<1> USE BlankType
<1>0. /\ form \in [Editors -> Forms] /\ loaded \in [Editors -> Settings \cup {None}]
      /\ changes \in 0..MaxChanges /\ resource \in Settings \cup {None, Deleted}
      /\ active \subseteq Contracts
  BY DEF Inv, TypeOK, Forms
<1>1. CASE OpenCreate(e)
  <2>1. [NoForm EXCEPT !.pc = "open", !.creates = TRUE] \in Forms
    BY DEF Forms
  <2>2. [NoForm EXCEPT !.pc = "open", !.creates = TRUE].pc = "open"
    BY DEF NoForm
  <2> QED
    BY <1>0, <1>1, <2>1, <2>2, OneFormStep DEF OpenCreate
<1>2. CASE OpenEdit(e)
  <2>1. PICK r \in {loaded[e], resource} \ {None, Deleted} :
          /\ loaded' = [loaded EXCEPT ![e] = r]
          /\ \E links \in LinkedTo(r) :
               form' = [form EXCEPT ![e] = [NoForm EXCEPT !.pc = "open", !.values = Opened(r, links)]]
    BY <1>2 DEF OpenEdit
  <2>2. r \in Settings
    BY <1>0, <2>1
  <2>3. PICK links \in LinkedTo(r) :
          form' = [form EXCEPT ![e] = [NoForm EXCEPT !.pc = "open", !.values = Opened(r, links)]]
    BY <2>1
  <2>4. links \in SUBSET Contracts
    BY <1>0 DEF LinkedTo, Offered
  <2>5. [NoForm EXCEPT !.pc = "open", !.values = Opened(r, links)] \in Forms
    BY <2>2, <2>4, OpenedType DEF Forms
  <2>6. [NoForm EXCEPT !.pc = "open", !.values = Opened(r, links)].pc = "open"
    BY DEF NoForm
  <2>7. loaded' \in [Editors -> Settings \cup {None}]
    BY <1>0, <2>1, <2>2
  <2> QED
    BY <1>0, <1>2, <2>3, <2>5, <2>6, <2>7, OneFormStep DEF OpenEdit
<1>3. CASE Reload(e)
  <2>1. resource \in Settings
    BY <1>0, <1>3 DEF Reload
  <2>2. loaded' \in [Editors -> Settings \cup {None}]
    BY <1>0, <1>3, <2>1 DEF Reload
  <2>3. CASE form[e].pc = "open" /\ ~form[e].touched /\ ~form[e].creates
    <3> DEFINE f == [form[e] EXCEPT !.values = Opened(resource, form[e].values.contracts)]
    <3>1. form[e].values.contracts \in SUBSET Contracts
      BY <1>0 DEF Forms, Fields
    <3>2. f \in Forms /\ f.pc = "open"
      BY <1>0, <2>1, <2>3, <3>1, OpenedType DEF Forms
    <3>3. form' = [form EXCEPT ![e] = f]
      BY <1>0, <1>3, <2>3 DEF Reload
    <3> HIDE DEF f
    <3> QED
      BY <1>0, <1>3, <2>2, <3>2, <3>3, OneFormStep DEF Reload
  <2>4. CASE ~(form[e].pc = "open" /\ ~form[e].touched /\ ~form[e].creates)
    <3>1. form' = form
      BY <1>3, <2>4 DEF Reload
    <3> QED
      BY <1>0, <1>3, <2>2, <3>1, FormStep DEF Reload, Inv
  <2> QED
    BY <2>3, <2>4
<1>4. CASE Leave(e)
  <2>1. NoForm.pc = "closed"
    BY DEF NoForm
  <2> QED
    BY <1>0, <1>4, <2>1, OneFormStep DEF Leave
<1> QED
  BY <1>1, <1>2, <1>3, <1>4

LEMMA EditStep ==
  ASSUME Inv, NEW e \in Editors, Edit(e) \/ Submit(e) \/ Fail(e)
  PROVE  Inv'
<1>0. /\ form \in [Editors -> Forms] /\ loaded \in [Editors -> Settings \cup {None}]
      /\ changes \in 0..MaxChanges /\ active \subseteq Contracts
      /\ form[e].pc = "sending" => Sendable(form[e].sent)
  BY DEF Inv, TypeOK, Forms
<1>1. CASE Edit(e)
  <2>1. PICK new \in Edits(form[e].values) :
          form' = [form EXCEPT ![e].values = new, ![e].touched = TRUE]
    BY <1>1 DEF Edit
  <2> DEFINE f == [form[e] EXCEPT !.values = new, !.touched = TRUE]
  <2>2. new \in Fields
    BY <1>0, EditsType DEF Forms
  <2>3. f \in Forms /\ f.pc = form[e].pc /\ f.sent = form[e].sent
    BY <1>0, <2>2 DEF Forms
  <2>4. form' = [form EXCEPT ![e] = f]
    BY <1>0, <2>1
  <2>5. changes < MaxChanges /\ changes' = changes + 1
    BY <1>1 DEF Edit, Change
  <2>6. changes' \in 0..MaxChanges
    BY <1>0, <2>5, SettingsAssumption
  <2> HIDE DEF f
  <2> QED
    BY <1>0, <1>1, <2>3, <2>4, <2>6, OneFormStep DEF Edit
<1>2. CASE Submit(e)
  <2> DEFINE f == [form[e] EXCEPT !.pc = "sending", !.sent = form[e].values]
  <2>1. f \in Forms /\ f.sent = form[e].values
    BY <1>0 DEF Forms
  <2>2. Sendable(f.sent)
    BY <1>2, <2>1 DEF Submit, Sendable
  <2>3. form' = [form EXCEPT ![e] = f]
    BY <1>0, <1>2 DEF Submit
  <2> HIDE DEF f
  <2> QED
    BY <1>0, <1>2, <2>1, <2>2, <2>3, OneFormStep DEF Submit
<1>3. CASE Fail(e)
  <2> DEFINE f == [form[e] EXCEPT !.pc = "open", !.sent = Blank]
  <2>1. f \in Forms /\ f.pc = "open"
    BY <1>0, BlankType DEF Forms
  <2>2. form' = [form EXCEPT ![e] = f]
    BY <1>0, <1>3 DEF Fail
  <2> HIDE DEF f
  <2> QED
    BY <1>0, <1>3, <2>1, <2>2, OneFormStep DEF Fail
<1> QED
  BY <1>1, <1>2, <1>3

(* What a save stores is what the form had said. *)
LEMMA CommitStep ==
  ASSUME Inv, NEW e \in Editors, Commit(e)
  PROVE  Inv'
<1> DEFINE values == form[e].sent
<1>0. /\ form \in [Editors -> Forms] /\ loaded \in [Editors -> Settings \cup {None}]
      /\ changes \in 0..MaxChanges /\ resource \in Settings \cup {None, Deleted}
      /\ active \subseteq Contracts
  BY DEF Inv, TypeOK, Forms
<1>1. values \in Fields /\ Sendable(values)
  BY <1>0 DEF Commit, Inv, Forms
<1>2. Payload(values) \in Settings
  BY <1>1, PayloadType DEF Sendable
<1>3. /\ resource' \in Settings
      /\ resource'.public = values.public /\ resource'.visible = values.visible
      /\ resource'.restricted = values.restricted /\ resource'.reserve = values.reserve
      /\ resource'.auto = values.auto /\ resource'.autoGroups = values.autoGroups
      /\ values.until # None => resource'.until = values.until
      /\ resource'.contracts = values.contracts /\ resource'.durations = values.durations
  <2>1. CASE form[e].creates
    BY <1>2, <2>1 DEF Commit, Payload
  <2>2. CASE ~form[e].creates
    <3>1. resource \in Settings /\ resource' = Updated(resource, Payload(values))
      BY <1>0, <2>2 DEF Commit
    <3> QED
      BY <1>2, <3>1, UpdatedType DEF Payload, Settings
  <2> QED
    BY <2>1, <2>2
<1>4. shown' = [summary |-> Summary(values), until |-> values.until, contracts |-> values.contracts]
  BY DEF Commit
<1>5. /\ active' = active /\ changes' = changes
      /\ form' \in [Editors -> Forms] /\ loaded' \in [Editors -> Settings \cup {None}]
      /\ \A x \in Editors : form'[x].pc = "sending" => form'[x] = form[x]
  <2>1. CASE form' = [form EXCEPT ![e] = NoForm] /\ loaded' = [loaded EXCEPT ![e] = resource']
    <3>1. NoForm.pc = "closed"
      BY DEF NoForm
    <3> QED
      BY <1>0, <1>3, <2>1, <3>1, BlankType DEF Commit
  <2>2. CASE form' = [form EXCEPT ![e].pc = "open", ![e].sent = Blank] /\ loaded' = loaded
    <3>1. [form[e] EXCEPT !.pc = "open", !.sent = Blank] \in Forms
      BY <1>0, BlankType DEF Forms
    <3>2. [form[e] EXCEPT !.pc = "open", !.sent = Blank].pc = "open"
      BY <1>0 DEF Forms
    <3>3. form' = [form EXCEPT ![e] = [form[e] EXCEPT !.pc = "open", !.sent = Blank]]
      BY <1>0, <2>2
    <3> QED
      BY <1>0, <2>2, <3>1, <3>2, <3>3 DEF Commit
  <2> QED
    BY <2>1, <2>2 DEF Commit
<1>6. TypeOK'
  BY <1>0, <1>3, <1>5 DEF TypeOK, Forms
<1>7. \A x \in Editors : form'[x].pc = "sending" => Sendable(form'[x].sent)
  BY <1>5 DEF Inv
<1>8. SavedAsShown'
  <2>1. /\ shown'.summary.see = Seers(values) /\ shown'.summary.reserve = Reservers(values)
        /\ shown'.summary.confirm = Confirmed(values)
        /\ shown'.until = values.until /\ shown'.contracts = values.contracts
    BY <1>4 DEF Summary
  <2>2. DurationsFit(resource'.durations)
    BY <1>1, <1>3 DEF Sendable, CanSubmit
  <2> HIDE DEF values
  <2>3. /\ \A v \in Viewers : Listed(v, resource') <=> Names(Seers(values), v)
        /\ \A v \in SignedIn :
             /\ MayReserve(v, resource') <=> Names(Reservers(values), v)
             /\ (Listed(v, resource') /\ CanReserve(v, resource')) <=> Names(Reservers(values), v)
        /\ \A g \in Groups : AutoConfirmed(g, resource') <=> Names(Confirmed(values), g)
    BY <1>1, <1>3, SummaryIsServed
  <2> QED
    BY <1>3, <2>1, <2>2, <2>3 DEF SavedAsShown
<1> QED
  BY <1>6, <1>7, <1>8 DEF Inv

LEMMA OtherStep ==
  ASSUME Inv, (\E e \in Editors : Delete(e)) \/ (\E c \in Contracts : ToggleActive(c))
  PROVE  Inv'
<1>0. changes \in 0..MaxChanges /\ active \subseteq Contracts
  BY DEF Inv, TypeOK
<1>1. CASE \E e \in Editors : Delete(e)
  <2> PICK e \in Editors : Delete(e)
    BY <1>1
  <2>1. TypeOK'
    BY <1>0, SettingsAssumption DEF Inv, TypeOK, Delete, Change
  <2>2. SavedAsShown'
    BY DEF Delete, SavedAsShown
  <2> QED
    BY <2>1, <2>2 DEF Inv, Delete
<1>2. CASE \E c \in Contracts : ToggleActive(c)
  <2> PICK c \in Contracts : ToggleActive(c)
    BY <1>2
  <2>1. active' \subseteq Contracts
    BY <1>0 DEF ToggleActive, Toggled
  <2>2. changes' \in 0..MaxChanges
    BY <1>0, SettingsAssumption DEF ToggleActive, Change
  <2>3. TypeOK'
    BY <2>1, <2>2 DEF Inv, TypeOK, ToggleActive
  <2>4. SavedAsShown'
    BY DEF Inv, ToggleActive, SavedAsShown
  <2> QED
    BY <2>3, <2>4 DEF Inv, ToggleActive
<1> QED
  BY <1>1, <1>2

-----------------------------------------------------------------------------
(* The invariant: forms that are being sent have passed the validators, and *)
(* the last save is served as its summary said.                              *)
THEOREM SettingsInvariance == SettingsSpec => []Inv
<1>1. Init => Inv
  <2> SUFFICES ASSUME Init PROVE Inv
    OBVIOUS
  <2>1. TypeOK
    BY BlankType, ExistingAssumption, SettingsAssumption DEF Init, TypeOK, Forms
  <2>2. \A e \in Editors : form[e].pc # "sending"
    BY DEF Init, NoForm
  <2>3. SavedAsShown
    BY DEF Init, SavedAsShown
  <2> QED
    BY <2>1, <2>2, <2>3 DEF Inv
<1>2. Inv /\ [Next]_vars => Inv'
  <2> SUFFICES ASSUME Inv, [Next]_vars PROVE Inv'
    OBVIOUS
  <2>1. CASE UNCHANGED vars
    BY <2>1, FormStep DEF vars, Inv, TypeOK, Forms
  <2>2. CASE Next
    BY <2>2, OpenStep, EditStep, CommitStep, OtherStep DEF Next
  <2> QED
    BY <2>1, <2>2
<1> QED
  BY <1>1, <1>2, PTL DEF SettingsSpec

(* The types of the settings, forms and cached answers. *)
THEOREM SettingsTyped == SettingsSpec => []TypeOK
<1>1. Inv => TypeOK
  BY DEF Inv
<1> QED
  BY <1>1, SettingsInvariance, PTL

(* SavedAsShown in every instance: whoever saves over whom, the server shows, *)
(* reserves and confirms as the form last saved had said.                      *)
THEOREM SummaryHolds == SettingsSpec => []SavedAsShown
<1>1. Inv => SavedAsShown
  BY DEF Inv
<1> QED
  BY <1>1, SettingsInvariance, PTL

-----------------------------------------------------------------------------
(* Batches of users *)

(* A request on its way asks for no more than its batch was shown to do.    *)
Asked(r, promise) ==
  /\ r.kind = "create" => /\ r.group \in UserGroups
                          /\ [new |-> TRUE, who |-> r.email, group |-> r.group] \in promise
  /\ r.kind # "create" /\ r.group # NoGroup =>
       [new |-> FALSE, who |-> r.id, group |-> r.group] \in promise

BatchInv ==
  /\ users \in Tables /\ known \in Tables
  /\ flight \subseteq Request
  /\ DOMAIN allowed = 1..MaxBatches
  /\ count \in [ids : 0..MaxUsers, batches : 0..MaxBatches, others : Nat]
  /\ \A r \in flight : r.batch <= count.batches /\ Asked(r, allowed[r.batch])
-----------------------------------------------------------------------------
LEMMA UsersAre ==
  ASSUME BatchInv, NEW e \in Emails
  PROVE  /\ users[e] # Nobody => users[e] \in User
         /\ Found(e) => known[e] \in User /\ known[e].id \in 0..MaxUsers
BY BatchAssumption DEF BatchInv, Tables, Found, User

(* A new account, or one with another group or contact, is still a user.    *)
LEMMA AccountType ==
  ASSUME BatchInv, NEW e \in Emails, NEW n \in User, users' = [users EXCEPT ![e] = n]
  PROVE  users' \in Tables /\ users'[e] = n /\ n # Nobody
         /\ \A x \in Emails \ {e} : users'[x] = users[x]
BY BatchAssumption DEF BatchInv, Tables

(* A batch is sent: its requests are new and its promise is its own.        *)
LEMMA SendStep ==
  ASSUME BatchInv, NEW requests, NEW promise, Send(requests, promise),
         requests \subseteq Request,
         \A r \in requests : r.batch = count.batches + 1 /\ Asked(r, promise)
  PROVE  BatchInv'
<1> DEFINE b == count.batches + 1
<1>1. /\ b \in 1..MaxBatches /\ count' = [count EXCEPT !.batches = b]
      /\ flight' = flight \cup requests /\ allowed' = [allowed EXCEPT ![b] = promise]
      /\ users' = users /\ known' = known
  BY BatchAssumption DEF Send, BatchInv
<1>2. count' \in [ids : 0..MaxUsers, batches : 0..MaxBatches, others : Nat]
      /\ count'.batches = b
  BY <1>1, BatchAssumption DEF BatchInv
<1>3. DOMAIN allowed' = 1..MaxBatches /\ allowed'[b] = promise
      /\ \A c \in 1..MaxBatches : c # b => allowed'[c] = allowed[c]
  BY <1>1 DEF BatchInv
<1>4. ASSUME NEW r \in flight'
      PROVE  r \in Request /\ r.batch <= count'.batches /\ Asked(r, allowed'[r.batch])
  <2>1. CASE r \in requests
    BY <1>2, <1>3, <2>1, BatchAssumption DEF BatchInv
  <2>2. CASE r \in flight
    <3>1. r \in Request /\ r.batch \in 1..MaxBatches /\ r.batch <= count.batches
          /\ Asked(r, allowed[r.batch]) /\ count.batches \in Nat
      BY <2>2, BatchAssumption DEF BatchInv, Request
    <3>2. r.batch # b /\ r.batch <= b
      BY <3>1, BatchAssumption
    <3> QED
      BY <1>2, <1>3, <3>1, <3>2
  <2> QED
    BY <1>1, <2>1, <2>2
<1> QED
  BY <1>1, <1>2, <1>3, <1>4 DEF BatchInv, Asked

LEMMA ImportStep ==
  ASSUME BatchInv, Import
  PROVE  BatchInv'
<1>1. PICK rows \in [Emails -> RowKinds], group \in UserGroups \cup {NoGroup}, move \in BOOLEAN :
        /\ NeedsGroup(rows, move) => group # NoGroup
        /\ Send({RowRequest(e, group, move) : e \in InFile(rows)},
                {[new |-> TRUE, who |-> e, group |-> group] : e \in Created(rows)}
                \cup {[new |-> FALSE, who |-> known[e].id, group |-> group] :
                        e \in IF move THEN InFile(rows) \ Created(rows) ELSE {}})
  BY DEF Import
<1> DEFINE requests == {RowRequest(e, group, move) : e \in InFile(rows)}
           promise == {[new |-> TRUE, who |-> e, group |-> group] : e \in Created(rows)}
                      \cup {[new |-> FALSE, who |-> known[e].id, group |-> group] :
                              e \in IF move THEN InFile(rows) \ Created(rows) ELSE {}}
<1>2. count.batches + 1 \in 1..MaxBatches
  BY <1>1, BatchAssumption DEF Send, BatchInv
<1>3. ASSUME NEW e \in InFile(rows)
      PROVE  /\ RowRequest(e, group, move) \in Request
             /\ RowRequest(e, group, move).batch = count.batches + 1
             /\ Asked(RowRequest(e, group, move), promise)
  <2> DEFINE r == RowRequest(e, group, move)
  <2>1. e \in Emails /\ (Found(e) => known[e].id \in 0..MaxUsers)
    BY <1>3, UsersAre DEF InFile
  <2>2. r \in Request /\ r.batch = count.batches + 1
    BY <1>2, <2>1, BatchAssumption DEF RowRequest, Request
  <2>3. CASE ~Found(e)
    <3>1. e \in Created(rows) /\ group \in UserGroups
      BY <1>1, <1>3, <2>3 DEF Created, NeedsGroup
    <3>2. r.kind = "create" /\ r.email = e /\ r.group = group
      BY <2>3 DEF RowRequest
    <3> QED
      BY <2>2, <3>1, <3>2 DEF Asked
  <2>4. CASE Found(e)
    <3>1. /\ r.kind = "update" /\ r.id = known[e].id
          /\ r.group = IF move THEN group ELSE NoGroup
      BY <2>4 DEF RowRequest
    <3>2. move => e \in InFile(rows) \ Created(rows)
      BY <1>3, <2>4 DEF Created
    <3> QED
      BY <2>2, <3>1, <3>2 DEF Asked
  <2> QED
    BY <2>3, <2>4
<1>4. Send(requests, promise)
  BY <1>1
<1> HIDE DEF promise
<1>5. requests \subseteq Request /\ \A r \in requests : r.batch = count.batches + 1 /\ Asked(r, promise)
  BY <1>3
<1> HIDE DEF requests
<1> QED
  BY <1>4, <1>5, SendStep

LEMMA ApplyStep ==
  ASSUME BatchInv, Apply
  PROVE  BatchInv'
<1>1. PICK ticked \in SUBSET {e \in Emails : Found(e)} \ {{}}, group \in UserGroups :
        Send({[batch |-> count.batches + 1, kind |-> "update", email |-> e,
               id |-> known[e].id, group |-> group, contact |-> FALSE,
               state |-> "sent"] : e \in ticked},
             {[new |-> FALSE, who |-> known[e].id, group |-> group] : e \in ticked})
  BY DEF Apply
<1> DEFINE req(e) == [batch |-> count.batches + 1, kind |-> "update", email |-> e,
                      id |-> known[e].id, group |-> group, contact |-> FALSE,
                      state |-> "sent"]
           requests == {req(e) : e \in ticked}
           promise == {[new |-> FALSE, who |-> known[e].id, group |-> group] : e \in ticked}
<1>2. count.batches + 1 \in 1..MaxBatches
  BY <1>1, BatchAssumption DEF Send, BatchInv
<1>3. ASSUME NEW e \in ticked
      PROVE  req(e) \in Request /\ req(e).batch = count.batches + 1 /\ Asked(req(e), promise)
  <2>1. e \in Emails /\ known[e].id \in 0..MaxUsers
    BY <1>3, UsersAre
  <2>2. req(e) \in Request
    BY <1>2, <2>1 DEF Request
  <2> QED
    BY <1>3, <2>2 DEF Asked
<1>4. Send(requests, promise)
  BY <1>1
<1> HIDE DEF promise
<1>5. requests \subseteq Request /\ \A r \in requests : r.batch = count.batches + 1 /\ Asked(r, promise)
  BY <1>3
<1> HIDE DEF requests
<1> QED
  BY <1>4, <1>5, SendStep

(* A request changes its state, or asks for less: it stays within its batch. *)
LEMMA FlightStep ==
  ASSUME BatchInv, NEW r \in flight, NEW n \in Request,
         n.batch = r.batch, Asked(n, allowed[r.batch]),
         flight' = (flight \ {r}) \cup {n}, allowed' = allowed, known' = known,
         users' \in Tables, count'.batches = count.batches,
         count' \in [ids : 0..MaxUsers, batches : 0..MaxBatches, others : Nat]
  PROVE  BatchInv'
BY DEF BatchInv, Asked

(* Its answer changes nothing of what it asks for. *)
LEMMA BecomesStep ==
  ASSUME BatchInv, NEW r \in flight, NEW state \in {"sent", "done", "failed"}
  PROVE  LET n == [r EXCEPT !.state = state] IN
         n \in Request /\ n.batch = r.batch /\ Asked(n, allowed[r.batch])
<1>1. r \in Request /\ Asked(r, allowed[r.batch])
  BY DEF BatchInv
<1> DEFINE n == [r EXCEPT !.state = state]
<1>2. /\ n \in Request /\ n.batch = r.batch /\ n.kind = r.kind /\ n.email = r.email
      /\ n.id = r.id /\ n.group = r.group
  BY <1>1 DEF Request
<1> HIDE DEF n
<1>3. Asked(n, allowed[r.batch])
  BY <1>1, <1>2 DEF Asked
<1> QED
  BY <1>2, <1>3 DEF n

LEMMA PromisedIs ==
  ASSUME BatchInv, NEW r \in flight, NEW p \in allowed[r.batch]
  PROVE  p \in Promised
BY DEF BatchInv, Request, Promised

(* What a step but another administrator's does to the accounts.            *)
OnlyAsked ==
  \A e \in Emails : users'[e] # users[e] =>
    /\ users'[e] # Nobody
    /\ users[e] = Nobody =>
         [new |-> TRUE, who |-> e, group |-> users'[e].group] \in Promised
    /\ users[e] # Nobody =>
         /\ users'[e].id = users[e].id
         /\ users'[e].group # users[e].group =>
              [new |-> FALSE, who |-> users[e].id, group |-> users'[e].group]
                \in Promised

LEMMA RegisterStep ==
  ASSUME BatchInv, NEW r \in flight, Register(r)
  PROVE  BatchInv' /\ OnlyAsked
<1>1. /\ r \in Request /\ r.kind = "create" /\ r.email \in Emails /\ Asked(r, allowed[r.batch])
      /\ users[r.email] = Nobody /\ count.ids + 1 \in 1..MaxUsers
      /\ known' = known /\ allowed' = allowed
  BY BatchAssumption DEF Register, BatchInv, Request
<1> DEFINE u == [id |-> count.ids + 1, group |-> r.group, contact |-> FALSE]
           n == [r EXCEPT !.kind = "patch", !.id = count.ids + 1, !.group = NoGroup]
<1>2. u \in User /\ u.group = r.group
  BY <1>1 DEF User, Asked
<1>3. users' = [users EXCEPT ![r.email] = u]
  BY DEF Register
<1>4. /\ count'.batches = count.batches
      /\ count' \in [ids : 0..MaxUsers, batches : 0..MaxBatches, others : Nat]
  BY <1>1, BatchAssumption DEF Register, BatchInv
<1>5. /\ n \in Request /\ n.batch = r.batch /\ n.kind = "patch" /\ n.group = NoGroup
  <2>1. count.ids + 1 \in 0..MaxUsers
    BY <1>1, BatchAssumption
  <2> QED
    BY <1>1, <2>1 DEF Request
<1>6. flight' = (flight \ {r}) \cup {n} \/ Becomes(r, "failed")
  BY DEF Register
<1> HIDE DEF u, n
<1>7. /\ users' \in Tables /\ users'[r.email] = u /\ u # Nobody
      /\ \A x \in Emails \ {r.email} : users'[x] = users[x]
  BY <1>1, <1>2, <1>3, AccountType
<1>8. Asked(n, allowed[r.batch])
  BY <1>5 DEF Asked
<1>9. BatchInv'
  <2>1. CASE flight' = (flight \ {r}) \cup {n}
    BY <1>1, <1>4, <1>5, <1>7, <1>8, <2>1, FlightStep
  <2>2. CASE Becomes(r, "failed")
    BY <1>1, <1>4, <1>7, <2>2, BecomesStep, FlightStep DEF Becomes
  <2> QED
    BY <1>6, <2>1, <2>2
<1>10. [new |-> TRUE, who |-> r.email, group |-> r.group] \in Promised
  BY <1>1, PromisedIs DEF Asked
<1> QED
  BY <1>1, <1>2, <1>7, <1>9, <1>10 DEF OnlyAsked

LEMMA UpdateStep ==
  ASSUME BatchInv, NEW r \in flight, Update(r)
  PROVE  BatchInv' /\ OnlyAsked
<1>1. PICK e \in Emails :
        /\ users[e] # Nobody /\ users[e].id = r.id
        /\ users' = [users EXCEPT ![e].group = IF r.group = NoGroup THEN @ ELSE r.group,
                                  ![e].contact = @ \/ r.contact]
  BY DEF Update
<1>2. /\ r \in Request /\ r.kind # "create" /\ Asked(r, allowed[r.batch])
      /\ known' = known /\ allowed' = allowed /\ count' = count
      /\ users[e] \in User
  BY <1>1, UsersAre DEF Update, BatchInv
<1> DEFINE g == IF r.group = NoGroup THEN users[e].group ELSE r.group
           u == [users[e] EXCEPT !.group = g, !.contact = @ \/ r.contact]
<1>3. g \in UserGroups /\ r.contact \in BOOLEAN
  BY <1>2 DEF User, Request
<1>4. users' = [users EXCEPT ![e] = u]
  BY <1>1 DEF BatchInv, Tables
<1>5. u \in User /\ u.id = users[e].id /\ u.group = g
  BY <1>2, <1>3 DEF User
<1> HIDE DEF u
<1>6. /\ users' \in Tables /\ users'[e] = u /\ u # Nobody
      /\ \A x \in Emails \ {e} : users'[x] = users[x]
  BY <1>4, <1>5, AccountType
<1>7. BatchInv'
  <2>1. PICK state \in {"done", "failed"} : Becomes(r, state)
    BY DEF Update
  <2> QED
    BY <1>2, <1>6, <2>1, BecomesStep, FlightStep DEF Becomes, BatchInv
<1>8. u.group # users[e].group =>
        [new |-> FALSE, who |-> users[e].id, group |-> u.group] \in Promised
  BY <1>1, <1>2, <1>5, PromisedIs DEF Asked
<1> QED
  BY <1>1, <1>5, <1>6, <1>7, <1>8 DEF OnlyAsked

LEMMA OthersStep ==
  ASSUME BatchInv, Others
  PROVE  BatchInv'
<1>1. known' = known /\ flight' = flight /\ allowed' = allowed
  BY DEF Others
<1>2. /\ count'.batches = count.batches
      /\ count' \in [ids : 0..MaxUsers, batches : 0..MaxBatches, others : Nat]
  <2>1. \/ count' = [count EXCEPT !.others = @ + 1]
        \/ /\ count.ids < MaxUsers
           /\ count' = [count EXCEPT !.others = @ + 1, !.ids = @ + 1]
    BY DEF Others
  <2>2. /\ count.ids \in 0..MaxUsers /\ count.others + 1 \in Nat
        /\ count.ids < MaxUsers => count.ids + 1 \in 0..MaxUsers
    BY BatchAssumption DEF BatchInv
  <2> QED
    BY <2>1, <2>2 DEF BatchInv
<1>3. users' \in Tables
  <2>1. ASSUME NEW e \in Emails, NEW g \in UserGroups, count.ids < MaxUsers,
               users' = [users EXCEPT ![e] = [id |-> count.ids + 1, group |-> g,
                                              contact |-> FALSE]]
        PROVE  users' \in Tables
    <3>1. [id |-> count.ids + 1, group |-> g, contact |-> FALSE] \in User
      BY <2>1, BatchAssumption DEF User, BatchInv
    <3> QED
      BY <2>1, <3>1, AccountType
  <2>2. ASSUME NEW e \in Emails, NEW g \in UserGroups, users[e] # Nobody,
               users' = [users EXCEPT ![e].group = g]
        PROVE  users' \in Tables
    <3>1. users[e] \in User
      BY <2>2, UsersAre
    <3>2. [users[e] EXCEPT !.group = g] \in User
      BY <3>1 DEF User
    <3>3. users' = [users EXCEPT ![e] = [users[e] EXCEPT !.group = g]]
      BY <2>2 DEF BatchInv, Tables
    <3> QED
      BY <3>2, <3>3, AccountType
  <2>3. ASSUME NEW e \in Emails, NEW to \in Emails,
               users' = [users EXCEPT ![e] = Nobody, ![to] = users[e]]
        PROVE  users' \in Tables
    BY <2>3 DEF BatchInv, Tables
  <2>4. ASSUME NEW e \in Emails, users' = [users EXCEPT ![e] = Nobody]
        PROVE  users' \in Tables
    BY <2>4 DEF BatchInv, Tables
  <2> QED
    BY <2>1, <2>2, <2>3, <2>4 DEF Others
<1> QED
  BY <1>1, <1>2, <1>3 DEF BatchInv, Asked

LEMMA SettleStep ==
  ASSUME BatchInv, NEW b \in 1..MaxBatches, Settle(b)
  PROVE  BatchInv'
<1>1. /\ flight' = flight \ {r \in flight : r.batch = b}
      /\ known' = users /\ users' = users /\ count' = count
      /\ allowed' = [allowed EXCEPT ![b] = {}]
  BY DEF Settle
<1>2. ASSUME NEW r \in flight'
      PROVE  r \in flight /\ allowed'[r.batch] = allowed[r.batch]
  BY <1>1, <1>2 DEF BatchInv, Request
<1> QED
  BY <1>1, <1>2 DEF BatchInv, Asked

LEMMA QuietStep ==
  ASSUME BatchInv, UNCHANGED <<users, flight, allowed, count>>, known' \in {known, users}
  PROVE  BatchInv'
BY DEF BatchInv, Asked

LEMMA BatchStep ==
  ASSUME BatchInv, [BatchNext]_batchVars
  PROVE  BatchInv' /\ (Others \/ OnlyAsked \/ users' = users)
<1>1. CASE Parse \/ GoTo \/ Fetch \/ UNCHANGED batchVars
  <2>1. UNCHANGED <<users, flight, allowed, count>> /\ known' \in {known, users}
    BY <1>1 DEF Parse, GoTo, Fetch, batchVars
  <2> QED
    BY <2>1, QuietStep
<1>2. CASE Import
  BY <1>2, ImportStep DEF Import, Send
<1>3. CASE Apply
  BY <1>3, ApplyStep DEF Apply, Send
<1>4. ASSUME NEW r \in flight, Register(r) \/ Update(r)
      PROVE  BatchInv' /\ OnlyAsked
  BY <1>4, RegisterStep, UpdateStep
<1>5. ASSUME NEW r \in flight, Refuse(r)
      PROVE  BatchInv' /\ users' = users
  BY <1>5, BecomesStep, FlightStep DEF Refuse, Becomes, BatchInv
<1>6. ASSUME NEW b \in 1..MaxBatches, Settle(b)
      PROVE  BatchInv' /\ users' = users
  BY <1>6, SettleStep DEF Settle
<1>7. CASE Others
  BY <1>7, OthersStep
<1> QED
  BY <1>1, <1>2, <1>3, <1>4, <1>5, <1>6, <1>7 DEF BatchNext

LEMMA BatchInitInv == BatchInit => BatchInv
BY BatchAssumption DEF BatchInit, BatchInv

(* The requests of a batch, however late, do only what the page showed when *)
(* it was sent: MovesOnlyAsked.                                             *)
THEOREM OnlyAskedMoves == BatchSpec => MovesOnlyAsked
<1>1. BatchInit => BatchInv
  BY BatchInitInv
<1>2. BatchInv /\ [BatchNext]_batchVars => BatchInv'
  BY BatchStep
<1>3. BatchInv /\ [BatchNext]_batchVars => [Others \/ OnlyAsked]_users
  BY BatchStep
<1> QED
  BY <1>1, <1>2, <1>3, PTL DEF BatchSpec, MovesOnlyAsked, OnlyAsked

-----------------------------------------------------------------------------
(* Contract documents *)

(* Every key is of an object in the store that was picked for its language. *)
Whole(keys) ==
  /\ keys \in Keys
  /\ \A l \in DOMAIN keys : keys[l] \in DOMAIN objects /\ objects[keys[l]].lang = l

Dialogs ==
  [pc : {"closed", "open", "uploading", "saving"}, edits : BOOLEAN, keys : Keys,
   langs : SUBSET Langs, titles : SUBSET Langs, files : SUBSET Langs, pick : 0..MaxSaves,
   uploaded : Keys, done : SUBSET Langs, applies : BOOLEAN]

(* What is true of a dialog: it has uploaded the files it says it has, and  *)
(* what it uploaded was picked for the save that runs.                      *)
DialogOK(d) ==
  /\ d \in Dialogs
  /\ Whole(d.keys) /\ Whole(d.uploaded)
  /\ DOMAIN d.uploaded = d.done /\ d.done \subseteq d.files
  /\ \A l \in d.done : objects[d.uploaded[l]].pick = d.pick
  /\ d.files \subseteq d.langs /\ d.titles \subseteq d.langs
  /\ d.pc = "uploading" => d.pick # 0
  /\ d.pc = "saving" => d.done = d.files /\ Collected(d) # NoKeys

Store_OK ==
  /\ objects \in Seq(Files) /\ Len(objects) <= MaxObjects
  /\ stored # NoDoc => stored \in Contract /\ Whole(stored.keys)
  /\ fetched # NoDoc => fetched \in Contract /\ Whole(fetched.keys)

DocInv ==
  /\ Store_OK /\ saves \in 0..MaxSaves
  /\ dialog \in [Writers -> Dialogs]
  /\ \A w \in Writers : DialogOK(dialog[w])
  /\ StoredIsWhole
-----------------------------------------------------------------------------
LEMMA KeysAre ==
  ASSUME NEW k
  PROVE  /\ k \in Keys => /\ DOMAIN k \subseteq Langs
                          /\ k = [l \in DOMAIN k |-> k[l]]
                          /\ \A l \in DOMAIN k : k[l] \in 1..MaxObjects
         /\ NoKeys \in Keys /\ DOMAIN NoKeys = {}
         /\ k \in Keys /\ DOMAIN k = {} => k = NoKeys
BY DEF Keys, NoKeys

(* A set of languages with a number for each is a set of keys.              *)
LEMMA KeysType ==
  ASSUME NEW ls \in SUBSET Langs, NEW k \in [ls -> 1..MaxObjects]
  PROVE  k \in Keys
BY DEF Keys

LEMMA NoDialogOK ==
  /\ NoDialog \in Dialogs /\ NoDialog.pc = "closed" /\ NoDialog.keys = NoKeys
  /\ NoDialog.uploaded = NoKeys
  /\ NoDialog.done = {} /\ NoDialog.files = {} /\ NoDialog.langs = {}
  /\ NoDialog.titles = {} /\ NoDialog.pick = 0
BY KeysAre, DocumentsAssumption DEF NoDialog, Dialogs

LEMMA WholeNothing == Whole(NoKeys)
BY KeysAre DEF Whole

(* One more object in the store leaves those there are as they were.        *)
ObjectsStay == \A i \in DOMAIN objects : i \in DOMAIN objects' /\ objects'[i] = objects[i]

LEMMA WholeStays ==
  ASSUME ObjectsStay, NEW k \in Keys, Whole(k)
  PROVE  \A l \in DOMAIN k : /\ k[l] \in DOMAIN objects' /\ objects'[k[l]] = objects[k[l]]
                            /\ objects'[k[l]].lang = l
BY DEF Whole, ObjectsStay

LEMMA DialogStays ==
  ASSUME ObjectsStay, NEW w \in Writers, DialogOK(dialog[w]), dialog'[w] = dialog[w]
  PROVE  DialogOK(dialog[w])'
<1>1. dialog[w].keys \in Keys /\ dialog[w].uploaded \in Keys
  BY DEF DialogOK, Dialogs
<1>2. Whole(dialog[w].keys)' /\ Whole(dialog[w].uploaded)'
  BY <1>1, WholeStays DEF DialogOK, Whole
<1>3. Collected(dialog[w])' = Collected(dialog[w])
  BY DEF Collected, KeyOf
<1>4. \A l \in dialog[w].done : objects'[dialog[w].uploaded[l]].pick = dialog[w].pick
  <2>1. \A l \in dialog[w].done : objects'[dialog[w].uploaded[l]] = objects[dialog[w].uploaded[l]]
    BY <1>1, WholeStays DEF DialogOK
  <2> QED
    BY <2>1 DEF DialogOK
<1> QED
  BY <1>2, <1>3, <1>4 DEF DialogOK

(* One dialog changes, and the store grows or stays.                        *)
LEMMA DialogStep ==
  ASSUME DocInv, NEW w \in Writers, NEW d \in Dialogs,
         dialog' = [dialog EXCEPT ![w] = d], DialogOK(dialog[w])', ObjectsStay,
         Store_OK', StoredIsWhole', saves' \in 0..MaxSaves
  PROVE  DocInv'
<1>1. dialog' \in [Writers -> Dialogs]
  BY DEF DocInv
<1>2. ASSUME NEW v \in Writers, v # w
      PROVE  DialogOK(dialog[v])'
  <2>1. dialog'[v] = dialog[v] /\ DialogOK(dialog[v])
    BY <1>2 DEF DocInv
  <2> QED
    BY <2>1, DialogStays
<1> QED
  BY <1>1, <1>2 DEF DocInv

(* What a dialog in which nothing was uploaded yet has to say for itself.   *)
LEMMA PlainDialog ==
  ASSUME NEW d \in Dialogs, d.pc # "saving", d.pc = "uploading" => d.pick # 0,
         d.uploaded = NoKeys, d.done = {},
         d.files \subseteq d.langs, d.titles \subseteq d.langs, Whole(d.keys)
  PROVE  DialogOK(d)
BY WholeNothing, KeysAre DEF DialogOK

(* The stored contract does not change. *)
LEMMA StoreStays ==
  ASSUME DocInv, UNCHANGED <<stored, objects, fetched, offered>>
  PROVE  Store_OK' /\ StoredIsWhole'
BY DEF DocInv, Store_OK, StoredIsWhole, Whole

(* A step of one dialog that uploads nothing. *)
LEMMA PlainStep ==
  ASSUME DocInv, UNCHANGED <<stored, objects, fetched, offered>>, saves' \in 0..MaxSaves,
         NEW w \in Writers, NEW d \in Dialogs, DialogOK(d),
         dialog' = [dialog EXCEPT ![w] = d]
  PROVE  DocInv'
<1>1. dialog'[w] = d
  BY DEF DocInv
<1>2. DialogOK(dialog[w])'
  <2>1. Whole(dialog[w].keys)' /\ Whole(dialog[w].uploaded)'
    BY <1>1 DEF DialogOK, Whole
  <2>2. Collected(dialog[w])' = Collected(d)
    BY <1>1 DEF Collected, KeyOf
  <2> QED
    BY <1>1, <2>1, <2>2 DEF DialogOK
<1>3. ObjectsStay
  BY DEF ObjectsStay
<1> QED
  BY <1>2, <1>3, StoreStays, DialogStep

LEMMA DialogOpens ==
  ASSUME DocInv, NEW w \in Writers, OpenDialog(w) \/ CloseDialog(w)
  PROVE  DocInv'
<1>0. dialog \in [Writers -> Dialogs] /\ dialog[w] \in Dialogs /\ DialogOK(dialog[w])
  BY DEF DocInv
<1>a. saves' \in 0..MaxSaves
  BY DEF DocInv, OpenDialog, CloseDialog
<1>1. CASE CloseDialog(w)
  BY <1>a, <1>1, NoDialogOK, WholeNothing, PlainDialog, PlainStep DEF CloseDialog
<1>2. CASE OpenDialog(w) /\ dialog' = [dialog EXCEPT ![w].pc = "open"]
  <2> DEFINE d == [dialog[w] EXCEPT !.pc = "open"]
  <2>1. d \in Dialogs /\ d.pc = "open" /\ DialogOK(d) /\ dialog' = [dialog EXCEPT ![w] = d]
    BY <1>0, <1>2 DEF Dialogs, DialogOK
  <2> HIDE DEF d
  <2> QED
    BY <1>a, <1>2, <2>1, PlainStep DEF OpenDialog
<1>3. CASE /\ OpenDialog(w) /\ fetched # NoDoc
           /\ dialog' = [dialog EXCEPT ![w] = [NoDialog EXCEPT
                !.pc = "open", !.edits = TRUE, !.keys = fetched.keys,
                !.applies = fetched.applies]]
  <2> DEFINE d == [NoDialog EXCEPT !.pc = "open", !.edits = TRUE, !.keys = fetched.keys,
                     !.applies = fetched.applies]
  <2>1. fetched \in Contract /\ Whole(fetched.keys)
    BY <1>3 DEF DocInv, Store_OK
  <2>2. fetched.keys \in Keys /\ fetched.applies \in BOOLEAN
    BY <2>1 DEF Contract
  <2>3. /\ d \in Dialogs /\ d.pc = "open" /\ d.uploaded = NoKeys /\ d.done = {}
        /\ d.files = {} /\ d.titles = {} /\ d.keys = fetched.keys
    BY <2>2, NoDialogOK DEF Dialogs
  <2>4. dialog' = [dialog EXCEPT ![w] = d]
    BY <1>3
  <2> HIDE DEF d
  <2>5. DialogOK(d)
    BY <2>1, <2>3, PlainDialog
  <2> QED
    BY <1>a, <1>3, <2>3, <2>4, <2>5, PlainStep DEF OpenDialog
<1> QED
  BY <1>1, <1>2, <1>3 DEF OpenDialog

LEMMA SaveStep ==
  ASSUME DocInv, NEW w \in Writers, Save(w)
  PROVE  DocInv'
<1>0. dialog \in [Writers -> Dialogs] /\ dialog[w] \in Dialogs /\ DialogOK(dialog[w])
  BY DEF DocInv
<1>a. PICK langs \in (SUBSET Langs) \ {{}} :
        \E titles, files \in SUBSET langs : \E applies \in BOOLEAN :
          dialog' = [dialog EXCEPT ![w].pc = "uploading", ![w].langs = langs,
                       ![w].titles = titles, ![w].files = files, ![w].pick = saves',
                       ![w].uploaded = NoKeys, ![w].done = {}, ![w].applies = applies]
  BY DEF Save
<1>b. PICK titles \in SUBSET langs, files \in SUBSET langs :
        \E applies \in BOOLEAN :
          dialog' = [dialog EXCEPT ![w].pc = "uploading", ![w].langs = langs,
                       ![w].titles = titles, ![w].files = files, ![w].pick = saves',
                       ![w].uploaded = NoKeys, ![w].done = {}, ![w].applies = applies]
  BY <1>a
<1>1. PICK applies \in BOOLEAN :
        dialog' = [dialog EXCEPT ![w].pc = "uploading", ![w].langs = langs,
                     ![w].titles = titles, ![w].files = files, ![w].pick = saves',
                     ![w].uploaded = NoKeys, ![w].done = {}, ![w].applies = applies]
  BY <1>b
<1> DEFINE d == [dialog[w] EXCEPT !.pc = "uploading", !.langs = langs, !.titles = titles,
                   !.files = files, !.pick = saves', !.uploaded = NoKeys, !.done = {},
                   !.applies = applies]
<1>c. saves' \in 0..MaxSaves /\ saves' # 0
  BY DocumentsAssumption DEF DocInv, Save
<1>2. langs \in SUBSET Langs /\ titles \in SUBSET Langs /\ files \in SUBSET Langs
      /\ NoKeys \in Keys
  BY KeysAre
<1>3. /\ d \in Dialogs /\ d.pc = "uploading" /\ d.uploaded = NoKeys /\ d.done = {}
      /\ d.files = files /\ d.titles = titles /\ d.langs = langs
      /\ d.keys = dialog[w].keys /\ d.pick = saves'
  BY <1>0, <1>2, <1>c DEF Dialogs
<1>4. dialog' = [dialog EXCEPT ![w] = d]
  BY <1>0, <1>1
<1> HIDE DEF d
<1>5. DialogOK(d)
  BY <1>0, <1>c, <1>1, <1>3, PlainDialog DEF DialogOK
<1> QED
  BY <1>c, <1>3, <1>4, <1>5, PlainStep DEF Save

(* The form is usable again after a failure, a lost answer or an empty form. *)
LEMMA AgainIsPlain ==
  ASSUME DocInv, NEW w \in Writers
  PROVE  LET d == Again(dialog[w]) IN d \in Dialogs /\ DialogOK(d) /\ d.pc = "open"
<1>0. dialog[w] \in Dialogs /\ DialogOK(dialog[w])
  BY DEF DocInv
<1> DEFINE d == Again(dialog[w])
<1>1. /\ dialog[w].edits \in BOOLEAN /\ dialog[w].keys \in Keys /\ dialog[w].applies \in BOOLEAN
      /\ Whole(dialog[w].keys)
  BY <1>0 DEF Dialogs, DialogOK
<1>2. /\ d \in Dialogs /\ d.pc = "open" /\ d.uploaded = NoKeys /\ d.done = {}
      /\ d.files = {} /\ d.titles = {} /\ d.langs = {} /\ d.keys = dialog[w].keys
  BY <1>1, NoDialogOK DEF Again, Dialogs
<1> HIDE DEF d
<1>3. DialogOK(d)
  BY <1>1, <1>2, PlainDialog
<1> QED
  BY <1>2, <1>3 DEF d

LEMMA BreakStep ==
  ASSUME DocInv, NEW w \in Writers, Break(w)
  PROVE  DocInv'
<1>1. /\ dialog' = [dialog EXCEPT ![w] = Again(dialog[w])]
      /\ UNCHANGED <<stored, objects, fetched, offered>> /\ saves' \in 0..MaxSaves
  BY DEF Break, DocInv
<1> QED
  BY <1>1, AgainIsPlain, PlainStep

LEMMA CollectStep ==
  ASSUME DocInv, NEW w \in Writers, Collect(w)
  PROVE  DocInv'
<1>0. dialog \in [Writers -> Dialogs] /\ dialog[w] \in Dialogs /\ DialogOK(dialog[w])
  BY DEF DocInv
<1>1. CASE Collected(dialog[w]) = NoKeys
  <2>1. /\ dialog' = [dialog EXCEPT ![w] = Again(dialog[w])]
        /\ UNCHANGED <<stored, objects, fetched, offered>> /\ saves' \in 0..MaxSaves
    BY <1>1 DEF Collect, DocInv
  <2> QED
    BY <2>1, AgainIsPlain, PlainStep
<1>2. CASE Collected(dialog[w]) # NoKeys
  <2> DEFINE d == [dialog[w] EXCEPT !.pc = "saving"]
  <2>1. dialog' = [dialog EXCEPT ![w] = d] /\ dialog[w].files \subseteq dialog[w].done
    BY <1>0, <1>2 DEF Collect
  <2>2. /\ d \in Dialogs /\ d.pc = "saving" /\ d.keys = dialog[w].keys
        /\ d.uploaded = dialog[w].uploaded /\ d.done = dialog[w].done
        /\ d.files = dialog[w].files /\ d.langs = dialog[w].langs
        /\ d.titles = dialog[w].titles /\ d.pick = dialog[w].pick
    BY <1>0 DEF Dialogs
  <2> HIDE DEF d
  <2>3. Collected(d) = Collected(dialog[w])
    BY <2>2 DEF Collected, KeyOf
  <2>4. DialogOK(d)
    BY <1>0, <1>2, <2>1, <2>2, <2>3 DEF DialogOK
  <2> QED
    BY <2>1, <2>2, <2>4, PlainStep DEF Collect, DocInv
<1> QED
  BY <1>1, <1>2

LEMMA UploadStep ==
  ASSUME DocInv, NEW w \in Writers, Upload(w)
  PROVE  DocInv'
<1>0. /\ dialog \in [Writers -> Dialogs] /\ dialog[w] \in Dialogs /\ DialogOK(dialog[w])
      /\ objects \in Seq(Files) /\ Store_OK
  BY DEF DocInv, Store_OK
<1>1. PICK l \in dialog[w].files \ dialog[w].done :
        /\ Len(objects) < MaxObjects
        /\ objects' = Append(objects, [lang |-> l, pick |-> dialog[w].pick])
        /\ dialog' = [dialog EXCEPT ![w].done = @ \cup {l},
                        ![w].uploaded = [k \in DOMAIN @ \cup {l} |->
                                           IF k = l THEN Len(objects) + 1 ELSE @[k]]]
  BY DEF Upload
<1> DEFINE file == [lang |-> l, pick |-> dialog[w].pick]
<1>2. /\ l \in Langs /\ l \in dialog[w].files /\ dialog[w].pc = "uploading"
      /\ file \in Files /\ file.lang = l /\ file.pick = dialog[w].pick
      /\ UNCHANGED <<stored, fetched, offered, saves>>
  <2>1. dialog[w].pick \in 1..MaxSaves
    BY <1>0, DocumentsAssumption DEF Dialogs, DialogOK, Upload
  <2> QED
    BY <1>0, <1>1, <2>1 DEF Dialogs, Upload, Files
<1>a. objects' = Append(objects, file)
  BY <1>1
<1> HIDE DEF file
<1>3. /\ Len(objects) \in Nat /\ DOMAIN objects = 1..Len(objects)
      /\ objects' \in Seq(Files) /\ DOMAIN objects' = 1..(Len(objects) + 1)
      /\ objects'[Len(objects) + 1] = file /\ Len(objects') <= MaxObjects
      /\ \A i \in 1..Len(objects) : objects'[i] = objects[i]
  BY <1>0, <1>1, <1>2, <1>a, AppendProperties, DocumentsAssumption
<1>b. ObjectsStay
  BY <1>3 DEF ObjectsStay
<1> DEFINE u == [k \in dialog[w].done \cup {l} |->
                   IF k = l THEN Len(objects) + 1 ELSE dialog[w].uploaded[k]]
           d == [dialog[w] EXCEPT !.done = @ \cup {l}, !.uploaded = u]
<1>4. /\ DOMAIN dialog[w].uploaded = dialog[w].done /\ dialog[w].done \subseteq Langs
      /\ \A k \in dialog[w].done : /\ dialog[w].uploaded[k] \in 1..MaxObjects
                                   /\ dialog[w].uploaded[k] \in 1..Len(objects)
                                   /\ objects[dialog[w].uploaded[k]].lang = k
                                   /\ objects[dialog[w].uploaded[k]].pick = dialog[w].pick
  BY <1>0, <1>3, KeysAre DEF DialogOK, Dialogs, Whole
<1>5. /\ u \in Keys /\ DOMAIN u = dialog[w].done \cup {l}
      /\ \A k \in DOMAIN u : /\ u[k] \in DOMAIN objects' /\ objects'[u[k]].lang = k
                            /\ objects'[u[k]].pick = dialog[w].pick
  <2>1. Len(objects) + 1 \in 1..MaxObjects
    BY <1>1, <1>3, DocumentsAssumption
  <2>2. u \in [dialog[w].done \cup {l} -> 1..MaxObjects]
    BY <1>4, <2>1
  <2>3. dialog[w].done \cup {l} \in SUBSET Langs
    BY <1>2, <1>4
  <2>4. u \in Keys
    BY <2>2, <2>3, KeysType
  <2> QED
    BY <1>2, <1>3, <1>4, <2>4
<1>6. dialog' = [dialog EXCEPT ![w] = d]
  BY <1>0, <1>1, <1>4
<1> HIDE DEF u
<1>7. /\ d \in Dialogs /\ d.pc = "uploading" /\ d.keys = dialog[w].keys
      /\ d.uploaded = u /\ d.done = dialog[w].done \cup {l} /\ d.files = dialog[w].files
      /\ d.langs = dialog[w].langs /\ d.titles = dialog[w].titles /\ d.pick = dialog[w].pick
  BY <1>0, <1>2, <1>4, <1>5 DEF Dialogs
<1> HIDE DEF d
<1>8. DialogOK(dialog[w])'
  <2>1. dialog'[w] = d
    BY <1>0, <1>6, <1>7
  <2>2. Whole(dialog[w].keys)'
    <3>1. dialog[w].keys \in Keys /\ Whole(dialog[w].keys)
      BY <1>0 DEF DialogOK, Dialogs
    <3>2. \A k \in DOMAIN dialog[w].keys :
             dialog[w].keys[k] \in DOMAIN objects' /\ objects'[dialog[w].keys[k]].lang = k
      BY <1>b, <3>1, WholeStays
    <3>3. dialog'[w].keys = dialog[w].keys
      BY <1>7, <2>1
    <3> QED
      BY <3>1, <3>2, <3>3 DEF Whole
  <2>3. Whole(dialog[w].uploaded)'
    BY <1>5, <1>7, <2>1 DEF Whole
  <2> QED
    BY <1>0, <1>2, <1>5, <1>7, <2>1, <2>2, <2>3 DEF DialogOK
<1>9. Store_OK' /\ StoredIsWhole'
  <2>1. \A k \in Keys : Whole(k) =>
           \A m \in DOMAIN k : k[m] \in DOMAIN objects' /\ objects'[k[m]].lang = m
    BY <1>b, WholeStays
  <2>2. Store_OK'
    BY <1>0, <1>2, <1>3, <2>1 DEF Store_OK, Whole, Contract
  <2>3. StoredIsWhole'
    BY <1>2, <1>b DEF DocInv, StoredIsWhole, ObjectsStay
  <2> QED
    BY <2>2, <2>3
<1> QED
  BY <1>2, <1>6, <1>7, <1>8, <1>9, <1>b, DialogStep DEF DocInv

(* What is collected is a document picked for each language that is ready.  *)
LEMMA CollectedIs ==
  ASSUME DocInv, NEW d, DialogOK(d), d.pc = "saving"
  PROVE  LET c == Collected(d) IN
         /\ c \in Keys /\ Whole(c) /\ DOMAIN c = Ready(d) /\ DOMAIN c # {}
         /\ \A l \in DOMAIN c :
              IF l \in d.files THEN objects[c[l]].pick = d.pick
              ELSE l \in DOMAIN d.keys /\ c[l] = d.keys[l]
<1> DEFINE c == Collected(d)
<1>1. /\ d \in Dialogs /\ d.keys \in Keys /\ d.uploaded \in Keys
      /\ Whole(d.keys) /\ Whole(d.uploaded)
      /\ DOMAIN d.uploaded = d.files /\ d.langs \subseteq Langs
      /\ DOMAIN d.keys \subseteq Langs
  BY KeysAre DEF DialogOK, Dialogs
<1>2. \A l \in Langs : /\ l \in d.files => KeyOf(d, l) = d.uploaded[l]
                       /\ l \notin d.files /\ l \in DOMAIN d.keys => KeyOf(d, l) = d.keys[l]
                       /\ l \notin d.files /\ l \notin DOMAIN d.keys => KeyOf(d, l) = NoDoc
  BY <1>1 DEF KeyOf
<1>3. \A l \in Langs : l \in d.files \/ l \in DOMAIN d.keys =>
         /\ KeyOf(d, l) \in 1..MaxObjects /\ KeyOf(d, l) # NoDoc
         /\ KeyOf(d, l) \in DOMAIN objects /\ objects[KeyOf(d, l)].lang = l
  <2> SUFFICES ASSUME NEW l \in Langs, l \in d.files \/ l \in DOMAIN d.keys
               PROVE  /\ KeyOf(d, l) \in 1..MaxObjects /\ KeyOf(d, l) # NoDoc
                      /\ KeyOf(d, l) \in DOMAIN objects /\ objects[KeyOf(d, l)].lang = l
    OBVIOUS
  <2>1. KeyOf(d, l) \in 1..MaxObjects
    BY <1>1, <1>2, KeysAre
  <2> QED
    BY <1>1, <1>2, <2>1, DocumentsAssumption DEF Whole
<1>4. DOMAIN c = Ready(d) /\ DOMAIN c \subseteq Langs
  BY <1>1, <1>2, <1>3 DEF Collected, Ready
<1>5. \A l \in DOMAIN c : c[l] = KeyOf(d, l) /\ (l \in d.files \/ l \in DOMAIN d.keys)
  BY <1>4 DEF Collected, Ready
<1>6. c \in [DOMAIN c -> 1..MaxObjects]
  BY <1>3, <1>4, <1>5 DEF Collected
<1>7. c \in Keys
  BY <1>4, <1>6, KeysType
<1>8. c # NoKeys
  BY DEF DialogOK
<1> HIDE DEF c
<1>9. Whole(c)
  BY <1>3, <1>4, <1>5, <1>7 DEF Whole
<1>10. DOMAIN c # {}
  BY <1>7, <1>8, KeysAre
<1>11. \A l \in DOMAIN c : l \in d.files => objects[c[l]].pick = d.pick
  <2>1. DOMAIN c = Ready(d) /\ \A l \in DOMAIN c : c[l] = KeyOf(d, l)
    BY <1>4, <1>5
  <2>2. \A l \in d.files : objects[d.uploaded[l]].pick = d.pick
    BY DEF DialogOK
  <2> QED
    BY <1>2, <1>4, <2>1, <2>2
<1> QED
  BY <1>2, <1>4, <1>5, <1>7, <1>9, <1>10, <1>11 DEF c

(* The save replaces the contract by what was collected.                    *)
LEMMA StoreStep ==
  ASSUME DocInv, NEW w \in Writers, Store(w)
  PROVE  DocInv'
<1> DEFINE d == dialog[w]
           c == Collected(d)
<1>0. /\ dialog \in [Writers -> Dialogs] /\ d \in Dialogs /\ DialogOK(d) /\ Store_OK
      /\ d.pc = "saving" /\ objects' = objects /\ saves' \in 0..MaxSaves
  BY DEF DocInv, Store
<1>1. /\ c \in Keys /\ Whole(c) /\ DOMAIN c = Ready(d) /\ DOMAIN c # {}
      /\ \A l \in DOMAIN c :
           IF l \in d.files THEN objects[c[l]].pick = d.pick
           ELSE l \in DOMAIN d.keys /\ c[l] = d.keys[l]
  BY <1>0, CollectedIs
<1>2. /\ stored' = [keys |-> c, titles |-> DOMAIN c, applies |-> d.applies]
      /\ offered' = [ready |-> Ready(d), files |-> d.files, keys |-> d.keys, pick |-> d.pick]
  BY DEF Store
<1>3. d.applies \in BOOLEAN
  BY <1>0 DEF Dialogs
<1> HIDE DEF c
<1>4. stored' \in Contract /\ stored'.keys = c /\ stored'.titles = DOMAIN c
  BY <1>1, <1>2, <1>3, KeysAre DEF Contract
<1>5. fetched' = fetched \/ fetched' = stored'
  BY DEF Store
<1>6. \A l \in DOMAIN c : c[l] \in DOMAIN objects' /\ objects'[c[l]].lang = l
  BY <1>0, <1>1 DEF Whole
<1>7. Store_OK'
  <2>1. Whole(stored.keys)'
    BY <1>1, <1>4, <1>6 DEF Whole
  <2>2. ASSUME fetched' = fetched, fetched # NoDoc
        PROVE  fetched' \in Contract /\ Whole(fetched.keys)'
    BY <1>0, <2>2 DEF Store_OK, Whole
  <2>3. ASSUME fetched' = stored'
        PROVE  fetched' \in Contract /\ Whole(fetched.keys)'
    BY <1>4, <2>1, <2>3 DEF Whole
  <2> QED
    BY <1>0, <1>4, <1>5, <2>1, <2>2, <2>3 DEF Store_OK
<1>8. StoredIsWhole'
  BY <1>0, <1>1, <1>2, <1>4, <1>6 DEF StoredIsWhole
<1>9. PICK n \in Dialogs : DialogOK(n) /\ n.pc # "saving" /\ dialog' = [dialog EXCEPT ![w] = n]
  <2>1. NoDialog \in Dialogs /\ DialogOK(NoDialog) /\ NoDialog.pc # "saving"
    BY NoDialogOK, WholeNothing, PlainDialog
  <2>2. LET m == Again(d) IN m \in Dialogs /\ DialogOK(m) /\ m.pc = "open"
    BY AgainIsPlain
  <2>3. \/ dialog' = [dialog EXCEPT ![w] = NoDialog]
        \/ dialog' = [dialog EXCEPT ![w] = Again(d)]
    BY DEF Store
  <2> QED
    BY <2>1, <2>2, <2>3
<1>10. DialogOK(dialog[w])'
  <2>1. dialog'[w] = n
    BY <1>0, <1>9
  <2> QED
    BY <1>0, <1>9, <2>1 DEF DialogOK, Whole
<1>11. ObjectsStay
  BY <1>0 DEF ObjectsStay
<1> QED
  BY <1>0, <1>7, <1>8, <1>9, <1>10, <1>11, DialogStep

(* The print page and the cache change no contract, dialog or object.       *)
LEMMA ReaderStep ==
  ASSUME DocInv, stored' = stored, objects' = objects, dialog' = dialog,
         offered' = offered, saves' = saves, fetched' \in {fetched, stored}
  PROVE  DocInv'
<1>1. Store_OK' /\ StoredIsWhole'
  BY DEF DocInv, Store_OK, StoredIsWhole, Whole
<1>2. dialog' \in [Writers -> Dialogs]
  BY DEF DocInv
<1>3. ASSUME NEW v \in Writers
      PROVE  DialogOK(dialog[v])'
  <2>1. dialog'[v] = dialog[v] /\ DialogOK(dialog[v])
    BY DEF DocInv
  <2>2. Collected(dialog[v])' = Collected(dialog[v])
    BY <2>1 DEF Collected, KeyOf
  <2> QED
    BY <2>1, <2>2 DEF DialogOK, Whole
<1> QED
  BY <1>1, <1>2, <1>3 DEF DocInv

LEMMA DocInitInv == DocInit => DocInv
<1> SUFFICES ASSUME DocInit
             PROVE  DocInv
  OBVIOUS
<1>1. DialogOK(NoDialog)
  BY NoDialogOK, WholeNothing, PlainDialog
<1>2. objects \in Seq(Files) /\ Len(objects) <= MaxObjects /\ saves \in 0..MaxSaves
  BY DocumentsAssumption DEF DocInit
<1> QED
  BY <1>1, <1>2, NoDialogOK DEF DocInit, DocInv, Store_OK, StoredIsWhole

LEMMA DocStepInv == DocInv /\ [DocNext]_docVars => DocInv'
<1> SUFFICES ASSUME DocInv, [DocNext]_docVars
             PROVE  DocInv'
  OBVIOUS
<1>1. ASSUME NEW w \in Writers, \/ OpenDialog(w) \/ CloseDialog(w) \/ Save(w) \/ Upload(w)
                                \/ Break(w) \/ Collect(w) \/ Store(w)
      PROVE  DocInv'
  BY <1>1, DialogOpens, SaveStep, UploadStep, BreakStep, CollectStep, StoreStep
<1>2. CASE Refetch
  BY <1>2, ReaderStep DEF Refetch
<1>3. CASE OpenPrint \/ ClosePrint \/ Choose \/ Build \/ Finish \/ PrintFails
  <2>1. /\ stored' = stored /\ objects' = objects /\ dialog' = dialog
        /\ offered' = offered /\ saves' = saves /\ fetched' \in {fetched, stored}
    BY <1>3 DEF OpenPrint, ClosePrint, Choose, Build, Finish, PrintFails
  <2> QED
    BY <2>1, ReaderStep
<1>4. CASE UNCHANGED docVars
  <2>1. /\ stored' = stored /\ objects' = objects /\ dialog' = dialog
        /\ offered' = offered /\ saves' = saves /\ fetched' \in {fetched, stored}
    BY <1>4 DEF docVars
  <2> QED
    BY <2>1, ReaderStep
<1> QED
  BY <1>1, <1>2, <1>3, <1>4 DEF DocNext

(* Always a contract is stored whole: a title exactly for its languages,    *)
(* and for each the file picked for that save, or else the document that    *)
(* the form showed.                                                         *)
THEOREM StoredWhole == DocSpec => []StoredIsWhole
<1>1. DocInv => StoredIsWhole
  BY DEF DocInv
<1> QED
  BY DocInitInv, DocStepInv, <1>1, PTL DEF DocSpec
-----------------------------------------------------------------------------
(* The document that a language of its own has is the one chosen. *)
LEMMA OwnDocument ==
  ASSUME NEW keys, NEW l \in DOMAIN keys, NEW order \in Seq(Langs), l \in Langs
  PROVE  Choice(keys, <<l>> \o order) = {keys[l]}
<1> DEFINE o == <<l>> \o order
           has == {i \in DOMAIN o : o[i] \in DOMAIN keys}
<1>1. o[1] = l /\ 1 \in DOMAIN o /\ DOMAIN o \subseteq Nat \ {0}
  OBVIOUS
<1>2. 1 \in has /\ \A j \in has : 1 <= j
  BY <1>1
<1>3. (CHOOSE i \in has : \A j \in has : i <= j) = 1
  BY <1>1, <1>2
<1> QED
  BY <1>1, <1>2, <1>3 DEF Choice

(* Only documents of the contract are chosen.                               *)
LEMMA ChoiceIsOfKeys ==
  ASSUME NEW keys, NEW order \in Seq(Langs)
  PROVE  Choice(keys, order) \subseteq {keys[l] : l \in DOMAIN keys}
<1> DEFINE has == {i \in DOMAIN order : order[i] \in DOMAIN keys}
<1>1. has \subseteq Nat
  OBVIOUS
<1>2. has # {} => \E i \in has : \A j \in has : i <= j
  <2> SUFFICES ASSUME NEW k \in has
               PROVE  \E i \in has : \A j \in has : i <= j
    OBVIOUS
  <2>1. IsWellFoundedOn(OpToRel(<, Nat), Nat)
    BY NatLessThanWellFounded
  <2>2. \E i \in has : \A j \in has : ~ (<<j, i>> \in OpToRel(<, Nat))
    BY <1>1, <2>1, WFMin
  <2>3. PICK i \in has : \A j \in has : ~ (<<j, i>> \in OpToRel(<, Nat))
    BY <2>2
  <2>4. ASSUME NEW j \in has
        PROVE  i <= j
    <3>1. i \in Nat /\ j \in Nat /\ ~ (<<j, i>> \in OpToRel(<, Nat))
      BY <1>1, <2>3
    <3>2. ~ (j < i)
      BY <3>1 DEF OpToRel
    <3> HIDE DEF has
    <3>3. i \in Nat /\ j \in Nat
      BY <3>1
    <3> QED
      BY <3>2, <3>3, SMT
  <2> QED
    BY <2>4
<1>3. has # {} => (CHOOSE i \in has : \A j \in has : i <= j) \in has
  BY <1>2
<1> QED
  BY <1>3 DEF Choice

Chosen == [include : BOOLEAN, lang : PrintLangs]
Printouts == [lang : PrintLangs, docs : SUBSET Nat, of : Keys, include : BOOLEAN]
Pages ==
  [open : BOOLEAN, lang : PrintLangs, include : BOOLEAN,
   pc : {"idle", "merging", "failed"}, builtFor : Chosen \cup {NoDoc},
   todo : Keys \cup {NoDoc}, pdf : Printouts \cup {NoDoc}]

(* The printout on the page is of the choices it was made for.              *)
PageOK(p) ==
  /\ p \in Pages
  /\ p.pc = "merging" => p.builtFor = BuildKey(p) /\ p.todo \in Keys
  /\ p.pc = "idle" /\ p.builtFor # NoDoc =>
       /\ p.pdf \in Printouts
       /\ p.pdf.lang = p.builtFor.lang /\ p.pdf.include = p.builtFor.include
       /\ p.pdf.lang \in DOMAIN p.pdf.of => p.pdf.docs = {p.pdf.of[p.pdf.lang]}

PrintInv == DocInv /\ PageOK(printing)

LEMMA OrdersAre ==
  /\ Fallback \in Seq(Langs) /\ SubSeq(Fallback, 1, Len(Fallback) - 1) \in Seq(Langs)
  /\ PrintLangs \subseteq Langs
BY DocumentsAssumption, SubSeqProperties, LenProperties

LEMMA NoPrintOK == PageOK(NoPrint) /\ PageOK([NoPrint EXCEPT !.open = TRUE])
BY DocumentsAssumption DEF PageOK, Pages, NoPrint

LEMMA ChooseStep ==
  ASSUME PageOK(printing), Choose
  PROVE  PageOK(printing')
<1>0. printing \in Pages /\ printing.pc = "idle"
  BY DEF PageOK, Choose, Controls
<1>1. CASE \E l \in PrintLangs : printing' = [printing EXCEPT !.lang = l]
  BY <1>0, <1>1 DEF PageOK, Pages
<1>2. CASE printing' = [printing EXCEPT !.include = ~@]
  BY <1>0, <1>2 DEF PageOK, Pages
<1> QED
  BY <1>1, <1>2 DEF Choose

LEMMA BuildStep ==
  ASSUME DocInv, PageOK(printing), Build
  PROVE  PageOK(printing')
<1>0. printing \in Pages
  BY DEF PageOK
<1> DEFINE t == IF printing.include /\ Applies(fetched) THEN fetched.keys ELSE NoKeys
           b == BuildKey(printing)
<1>1. t \in Keys
  BY KeysAre DEF DocInv, Store_OK, Contract, Applies
<1>2. b \in Chosen /\ b.lang = printing.lang /\ b.include = printing.include
  BY <1>0 DEF Pages, Chosen, BuildKey
<1>3. printing' = [printing EXCEPT !.pc = "merging", !.builtFor = b, !.todo = t]
  BY DEF Build
<1> HIDE DEF t
<1>4. b = [include |-> printing.include, lang |-> printing.lang]
  BY DEF BuildKey
<1> HIDE DEF b
<1>5. /\ printing' \in Pages /\ printing'.pc = "merging" /\ printing'.builtFor = b
      /\ printing'.todo = t /\ printing'.lang = printing.lang
      /\ printing'.include = printing.include
  BY <1>0, <1>1, <1>2, <1>3 DEF Pages
<1> QED
  BY <1>1, <1>4, <1>5 DEF PageOK, BuildKey

LEMMA FinishStep ==
  ASSUME PageOK(printing), Finish
  PROVE  PageOK(printing')
<1>0. /\ printing \in Pages /\ printing.pc = "merging" /\ printing.todo \in Keys
      /\ printing.builtFor = BuildKey(printing) /\ printing.lang \in PrintLangs
      /\ printing.include \in BOOLEAN
  BY DEF PageOK, Finish, Pages
<1> DEFINE t == printing.todo
<1>1. PICK docs \in IF t = NoKeys THEN {{}} ELSE {{doc} : doc \in Prints(t, printing.lang)} :
        printing' = [printing EXCEPT !.pc = "idle", !.todo = NoDoc,
                       !.pdf = [lang |-> printing.lang, docs |-> docs, of |-> t,
                                include |-> printing.include]]
  BY DEF Finish
<1>2. printing.lang \in DOMAIN t => docs = {t[printing.lang]}
  <2> SUFFICES ASSUME printing.lang \in DOMAIN t
               PROVE  docs = {t[printing.lang]}
    OBVIOUS
  <2>1. t # NoKeys
    BY KeysAre
  <2>2. Prints(t, printing.lang) = {t[printing.lang]}
    BY <1>0, OrdersAre, OwnDocument DEF Prints
  <2> QED
    BY <1>1, <2>1, <2>2
<1>3. docs \in SUBSET Nat
  <2>1. \A l \in DOMAIN t : t[l] \in Nat
    BY <1>0, KeysAre, DocumentsAssumption
  <2>2. Prints(t, printing.lang) \subseteq {t[l] : l \in DOMAIN t}
    <3>1. <<printing.lang>> \o SubSeq(Fallback, 1, Len(Fallback) - 1) \in Seq(Langs)
      BY <1>0, OrdersAre
    <3> QED
      BY <3>1, ChoiceIsOfKeys DEF Prints
  <2> QED
    BY <1>1, <2>1, <2>2
<1> DEFINE r == [lang |-> printing.lang, docs |-> docs, of |-> t, include |-> printing.include]
<1>4. /\ r \in Printouts /\ r.lang = printing.lang /\ r.docs = docs /\ r.of = t
      /\ r.include = printing.include
  BY <1>0, <1>3 DEF Printouts
<1>5. printing' = [printing EXCEPT !.pc = "idle", !.todo = NoDoc, !.pdf = r]
  BY <1>1
<1> HIDE DEF r
<1>6. /\ printing' \in Pages /\ printing'.pc = "idle" /\ printing'.pdf = r
      /\ printing'.builtFor = printing.builtFor
  BY <1>0, <1>4, <1>5 DEF Pages
<1>7. printing.builtFor.lang = printing.lang /\ printing.builtFor.include = printing.include
  BY <1>0 DEF BuildKey
<1> QED
  BY <1>2, <1>4, <1>6, <1>7 DEF PageOK

LEMMA PrintStepInv == PrintInv /\ [DocNext]_docVars => PrintInv'
<1> SUFFICES ASSUME DocInv, PageOK(printing), [DocNext]_docVars
             PROVE  DocInv' /\ PageOK(printing')
  BY DEF PrintInv, PageOK, BuildKey
<1>1. DocInv'
  BY DocStepInv
<1>2. CASE UNCHANGED printing
  BY <1>1, <1>2
<1>3. CASE OpenPrint \/ ClosePrint
  BY <1>1, <1>3, NoPrintOK DEF OpenPrint, ClosePrint
<1>4. CASE Choose \/ Build \/ Finish
  BY <1>1, <1>4, ChooseStep, BuildStep, FinishStep
<1>5. CASE PrintFails
  <2>1. printing \in Pages /\ printing' = [printing EXCEPT !.pc = "failed", !.todo = NoDoc]
    BY <1>5 DEF PrintFails, PageOK
  <2>2. printing' \in Pages /\ printing'.pc = "failed"
    BY <2>1 DEF Pages
  <2> QED
    BY <1>1, <2>2 DEF PageOK
<1>6. UNCHANGED printing \/ OpenPrint \/ ClosePrint \/ Choose \/ Build \/ Finish \/ PrintFails
  <2>1. ASSUME NEW w \in Writers, \/ OpenDialog(w) \/ CloseDialog(w) \/ Save(w)
                                   \/ Upload(w) \/ Break(w) \/ Collect(w) \/ Store(w)
        PROVE  UNCHANGED printing
    BY <2>1 DEF OpenDialog, CloseDialog, Save, Upload, Break, Collect, Store
  <2> QED
    BY <2>1 DEF DocNext, docVars, Refetch
<1> QED
  BY <1>1, <1>2, <1>3, <1>4, <1>5, <1>6

(* While the print page has its controls, the document on it was made for   *)
(* what they show; where the contract has a document in the language shown, *)
(* that is the one printed and the one a reserver approves.                 *)
THEOREM PrintedChosen == DocSpec => []PrintedIsChosen
<1>1. DocInit => PrintInv
  BY DocInitInv, NoPrintOK DEF DocInit, PrintInv
<1>2. PrintInv => PrintedIsChosen
  <2> SUFFICES ASSUME PageOK(printing), Controls(printing),
                      printing.builtFor = BuildKey(printing)
               PROVE  /\ printing.pdf.lang = printing.lang
                      /\ printing.pdf.include = printing.include
                      /\ printing.lang \in DOMAIN printing.pdf.of =>
                           printing.pdf.docs = Approves(printing.pdf.of, printing.lang)
    BY DEF PrintInv, PrintedIsChosen
  <2>1. /\ printing \in Pages /\ printing.lang \in PrintLangs /\ printing.include \in BOOLEAN
        /\ printing.pc = "idle"
    BY DEF PageOK, Pages, Controls
  <2>2. /\ BuildKey(printing) \in Chosen /\ BuildKey(printing).lang = printing.lang
        /\ BuildKey(printing).include = printing.include
    BY <2>1 DEF BuildKey, Chosen
  <2>3. printing.builtFor # NoDoc
    BY <2>2, DocumentsAssumption DEF Chosen
  <2>4. printing.lang \in DOMAIN printing.pdf.of =>
          Approves(printing.pdf.of, printing.lang) = {printing.pdf.of[printing.lang]}
    BY <2>1, OrdersAre, OwnDocument DEF Approves
  <2> QED
    BY <2>1, <2>2, <2>3, <2>4 DEF PageOK
<1> QED
  BY <1>1, PrintStepInv, <1>2, PTL DEF DocSpec
=============================================================================

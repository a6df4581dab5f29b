--------------------------- MODULE ReservationForm ---------------------------
(***************************************************************************)
(* The form that makes and edits a reservation:                            *)
(* client/src/components/ReservationForm.tsx, opened by                    *)
(* routes/_app/reservations/create.tsx and edit.$id.tsx.                   *)
(*                                                                         *)
(* The user changes fields while the lists of resources, contracts and     *)
(* blocks load and are fetched again, and while checks for conflicts are   *)
(* on their way.  An effect of the form runs with the change that causes   *)
(* it.  Times are points in order, the empty string is None, a recurrence  *)
(* is there or not (module Series); of the other fields only those that    *)
(* are required are kept, as filled or not.                                *)
(*                                                                         *)
(* The form library runs the validators of all fields that are on the page *)
(* before it submits.  That it may go on refusing values for an error that *)
(* an earlier value had is left out.                                       *)
(***************************************************************************)
EXTENDS Integers, FiniteSetsExt

CONSTANTS
  Resources,
  Attributes,      \* per resource, what the form reads of it; 0 is no limit
  ResourceLists,   \* the resources the user sees, and of them those they may reserve
  Contracts, GlobalContracts,
  LinkedTo,        \* per contract, its resources
  ContractLists,   \* the active contracts, as the list says
  Blocks,          \* occurrences of the blocks, each of a blocks-only resource
  TypedTimes,      \* the times a user types
  RequiredFields,  \* the title and, unless an admin fills it in, the contact
  None

ResourceAttributes ==
  [blocks_only : BOOLEAN, allow_recurring : BOOLEAN,
   min : Nat, max : Nat, default : Nat, until : Nat \cup {None}]

ASSUME FormAssumption ==
  /\ IsFiniteSet(Resources) /\ Attributes \in [Resources -> ResourceAttributes]
  /\ ResourceLists \subseteq [listed : SUBSET Resources, reservable : SUBSET Resources]
  /\ GlobalContracts \subseteq Contracts /\ LinkedTo \in [Contracts -> SUBSET Resources]
  /\ ContractLists \subseteq SUBSET Contracts
  /\ TypedTimes \subseteq Nat /\ Blocks \subseteq [of : Resources, start : Nat, end : Nat]
  /\ None \notin Nat

VARIABLES
  isAdmin, isCreate,
  values,     \* the fields: resources, start, end
  typedEnd,   \* isTouched of the end
  filled,     \* the required fields that are filled in
  recurring,  \* the state recurrence, if it is not NO_RECURRENCE
  access,     \* the list of resources: None while it is loading
  contracts,  \* the list of contracts, likewise
  reserved,   \* the list of a resource's blocks, likewise: those that are reserved
  approved,   \* contractsApproved: None, or history: what was approved
  conflicts,  \* the state conflicts, and history: whether they are those of the values
  check,      \* the check whose answer is awaited, and whether outdated ones are on their way
  pc

vars == <<isAdmin, isCreate, values, typedEnd, filled, recurring, access, contracts, reserved,
          approved, conflicts, check, pc>>
loaded == <<isAdmin, isCreate, contracts, reserved>>

Values == [ids : SUBSET Resources, start : Nat \cup {None}, end : Nat \cup {None}]
Unknown == [found |-> "unknown", current |-> FALSE]

TypeOK ==
  /\ {isAdmin, isCreate, typedEnd, recurring} \subseteq BOOLEAN
  /\ values \in Values
  /\ filled \subseteq RequiredFields
  /\ access \in ResourceLists \cup {None}
  /\ contracts \in ContractLists \cup {None}
  /\ reserved \in [of : Resources, taken : SUBSET Blocks] \cup {None}
  /\ approved = None \/ approved \in [listed : ContractLists, shown : SUBSET Contracts]
  /\ conflicts \in [found : {"unknown", "none", "some"}, current : BOOLEAN]
  /\ check \in [live : BOOLEAN, late : BOOLEAN]
  /\ pc \in {"editing", "submitting", "left"}

-----------------------------------------------------------------------------
(* resources?.find: the list has what the form knows of a resource.  One that *)
(* is hidden from the user since the reservation was made is not in it.      *)
Listed(ids, acc) == IF acc = None THEN {} ELSE ids \cap acc.listed
BlocksOnly(ids, acc) == \E r \in Listed(ids, acc) : Attributes[r].blocks_only
BlocksOnlyMode(ids, acc) == ~isAdmin /\ BlocksOnly(ids, acc)

(* An unknown resource counts as one that allows recurring reservations. *)
CanRecur(ids, acc) ==
  /\ ~BlocksOnlyMode(ids, acc)
  /\ isAdmin \/ (ids # {} /\ \A r \in Listed(ids, acc) : Attributes[r].allow_recurring)

(* The effect that takes away what a new reservation may not have *)
Allowed_AsGiven(ids, acc) == ids
Allowed(ids, acc) == IF isCreate /\ acc # None THEN ids \cap acc.reservable ELSE ids

(* blocksOnlyResourceId: the first one.  The order of the selected resources *)
(* is left out: any of them may be it.                                       *)
BlocksResource(ids, acc) == CHOOSE r \in Listed(ids, acc) : Attributes[r].blocks_only

(* blockOptions: the free ones and the selected one, within reservable_until *)
Selected(b, v) == b.start = v.start /\ b.end = v.end
Until(r, time) == Attributes[r].until # None => time <= Attributes[r].until
BlockOptions(v, acc, list) ==
  {b \in Blocks : /\ list # None /\ list.of = BlocksResource(v.ids, acc)
                  /\ b.of = list.of
                  /\ b \notin list.taken \/ Selected(b, v)
                  /\ Until(b.of, b.end)}
HasSelectedBlock == \E b \in BlockOptions(values, access, reserved) : Selected(b, values)

(* getApplicableContracts *)
Applicable(list, ids) ==
  {c \in list : c \in GlobalContracts \/ LinkedTo[c] \cap ids # {}}
ApplicableNow == IF contracts = None THEN {} ELSE Applicable(contracts, values.ids)
NeedsContractApproval == ~isAdmin /\ ApplicableNow # {} /\ approved = None

(* generateOccurrences has nothing to check or send for an empty range. *)
Asks(v) == v.ids # {} /\ None \notin {v.start, v.end} /\ v.start < v.end

(* AutomaticConflictChecker: another question makes the check on its way  *)
(* outdated and sends a new one; until that is answered, the old answer   *)
(* stays.  Turning the recurrence off takes the answer away.              *)
Check(v, again, wasReset) ==
  IF <<v, again>> = <<values, recurring>> THEN UNCHANGED <<conflicts, check>>
  ELSE /\ check' = [live |-> Asks(v), late |-> check.live \/ check.late]
       /\ conflicts' = IF wasReset \/ ~Asks(v) THEN Unknown ELSE [conflicts EXCEPT !.current = FALSE]

(* The values and the list of resources after a change, with its effects *)
Become(v, acc, again) ==
  LET kept == [v EXCEPT !.ids = Allowed(@, acc)]
      recurs == again /\ CanRecur(kept.ids, acc)
  IN /\ values' = kept /\ access' = acc /\ recurring' = recurs
     /\ Check(kept, recurs, again # recurs)

Init ==
  /\ isAdmin \in BOOLEAN /\ isCreate \in BOOLEAN
  /\ values \in [ids : SUBSET Resources, start : TypedTimes, end : TypedTimes]
  /\ ~isCreate => values.ids # {} /\ values.start < values.end
  /\ recurring \in BOOLEAN /\ (isCreate => ~recurring)
  /\ filled \in {{}, RequiredFields}
  /\ typedEnd = FALSE
  /\ access = None /\ contracts = None /\ reserved = None /\ approved = None
  /\ conflicts = Unknown
  /\ check = [live |-> Asks(values), late |-> FALSE]
  /\ pc = "editing"

Open == pc # "left"

-----------------------------------------------------------------------------
(* The user *)
Fill(field) ==
  /\ Open /\ field \notin filled
  /\ filled' = filled \cup {field}
  /\ UNCHANGED <<loaded, access, values, typedEnd, recurring, approved, conflicts, check, pc>>

(* resolveDefaultDuration *)
DefaultDuration(ids) ==
  LET of(f(_)) == {f(Attributes[r]) : r \in ids} \ {0}
      defaults == of(LAMBDA r : r.default)
      enough == Max(defaults \cup of(LAMBDA r : r.min))
  IN IF defaults = {} THEN 0 ELSE Min({enough} \cup of(LAMBDA r : r.max))

(* selectableResources *)
Selectable(r) ==
  access # None /\ r \in access.listed /\ r \in access.reservable \cup values.ids

(* A click on a resource: for users a blocks-only one is the only one.  The  *)
(* end follows the default duration until it was set.                        *)
Exclusive(r) ==
  ~isAdmin /\ (Attributes[r].blocks_only \/ BlocksOnly(values.ids, access))

NextIds(r) ==
  CASE r \in values.ids -> values.ids \ {r}
    [] r \notin values.ids /\ Exclusive(r) -> {r}
    [] OTHER -> values.ids \cup {r}

ClickResource_ApprovalKept(r) ==
  /\ Open /\ Selectable(r)
  /\ Become([values EXCEPT !.ids = NextIds(r)], access, recurring)
  /\ UNCHANGED <<loaded, filled, typedEnd, approved, pc>>

ClickResource(r) ==
  LET ids == NextIds(r)
      duration == DefaultDuration(Listed(ids, access))
      prefills == isCreate /\ values.start # None /\ duration # 0 /\ ~typedEnd
  IN /\ Open /\ Selectable(r)
     /\ Become([values EXCEPT !.ids = ids, !.end = IF prefills THEN values.start + duration ELSE @],
               access, recurring)
     /\ typedEnd' = (typedEnd \/ prefills)
     /\ approved' = None
     /\ UNCHANGED <<loaded, filled, pc>>

(* BlockPicker *)
PickBlock(b) ==
  /\ Open /\ BlocksOnlyMode(values.ids, access)
  /\ b \in BlockOptions(values, access, reserved)
  /\ Become([values EXCEPT !.start = b.start, !.end = b.end], access, recurring)
  /\ typedEnd' = TRUE
  /\ UNCHANGED <<loaded, filled, approved, pc>>

(* A start that passes the end takes it along. *)
TakesAlong(start) == start >= values.end

ChangeStart(start) ==
  LET moves == /\ None \notin {start, values.start, values.end} /\ values.start < values.end
               /\ TakesAlong(start)
      end == IF moves THEN start + (values.end - values.start) ELSE values.end
  IN /\ Open /\ ~BlocksOnlyMode(values.ids, access)
     /\ Become([values EXCEPT !.start = start, !.end = end], access, recurring)
     /\ typedEnd' = (typedEnd \/ moves)
     /\ UNCHANGED <<loaded, filled, approved, pc>>

ChangeEnd(end) ==
  /\ Open /\ ~BlocksOnlyMode(values.ids, access)
  /\ Become([values EXCEPT !.end = end], access, recurring)
  /\ typedEnd' = TRUE
  /\ UNCHANGED <<loaded, filled, approved, pc>>

(* RecurrenceSection *)
ChangeRecurrence ==
  /\ Open /\ CanRecur(values.ids, access)
  /\ Become(values, access, ~recurring)
  /\ UNCHANGED <<loaded, filled, typedEnd, approved, pc>>

(* ContractApprovalSection *)
Approve ==
  /\ Open /\ ~isAdmin /\ ApplicableNow # {}
  /\ approved' = IF approved = None THEN [listed |-> contracts, shown |-> ApplicableNow] ELSE None
  /\ UNCHANGED <<loaded, access, values, typedEnd, filled, recurring, conflicts, check, pc>>

-----------------------------------------------------------------------------
(* The validators of the fields on the page, and what disables the button *)
DurationFits(v, r) ==
  LET d == v.end - v.start
      a == Attributes[r]
  IN (a.min # 0 => d >= a.min) /\ (a.max # 0 => d <= a.max)

TimesValid(v) ==
  /\ None \notin {v.start, v.end}
  /\ v.start < v.end
  /\ \A r \in Listed(v.ids, access) : (isAdmin \/ DurationFits(v, r)) /\ Until(r, v.end)

Valid ==
  /\ filled = RequiredFields \/ (isAdmin /\ "title" \in filled)
  /\ values.ids # {}
  /\ BlocksOnlyMode(values.ids, access) \/ TimesValid(values)

Submittable_AnyTime ==
  /\ pc = "editing" /\ Valid
  /\ ~isAdmin => conflicts.found # "some"
  /\ ~NeedsContractApproval

Submittable ==
  /\ pc = "editing" /\ Valid
  /\ ~isAdmin => conflicts.found # "some"
  /\ ~NeedsContractApproval
  /\ BlocksOnlyMode(values.ids, access) => HasSelectedBlock

Submit ==
  /\ Submittable
  /\ pc' = "submitting"
  /\ UNCHANGED <<loaded, access, values, typedEnd, filled, recurring, approved, conflicts, check>>

(* The reservation is saved and its page opened, or the form stays for another try. *)
SubmitAnswered ==
  /\ pc = "submitting"
  /\ pc' \in {"left", "editing"}
  /\ UNCHANGED <<loaded, access, values, typedEnd, filled, recurring, approved, conflicts, check>>

-----------------------------------------------------------------------------
(* Lists arrive, for the first time or again. *)
ResourcesArrive(acc) ==
  /\ Open
  /\ Become(values, acc, recurring)
  /\ UNCHANGED <<loaded, filled, typedEnd, approved, pc>>

ContractsArrive(list) ==
  /\ Open /\ contracts # list
  /\ contracts' = list
  /\ UNCHANGED <<isAdmin, isCreate, access, reserved, values, typedEnd, filled, recurring,
                 approved, conflicts, check, pc>>

BlocksArrive(taken) ==
  /\ Open /\ BlocksOnly(values.ids, access)
  /\ reserved' = [of |-> BlocksResource(values.ids, access), taken |-> taken]
  /\ UNCHANGED <<isAdmin, isCreate, access, contracts, values, typedEnd, filled, recurring,
                 approved, conflicts, check, pc>>

(* The restrictions arrive: a dependency of the effect, which checks again. *)
RestrictionsArrive ==
  /\ Open /\ check.live
  /\ check' = [live |-> TRUE, late |-> TRUE]
  /\ UNCHANGED <<loaded, access, values, typedEnd, filled, recurring, approved, conflicts, pc>>

CheckAnswered ==
  /\ Open /\ check.live
  /\ check' = [check EXCEPT !.live = FALSE]
  /\ \/ \E found \in {"none", "some"} : conflicts' = [found |-> found, current |-> TRUE]
     \/ conflicts' = Unknown    \* the check failed
  /\ UNCHANGED <<loaded, access, values, typedEnd, filled, recurring, approved, pc>>

(* isCancelled: nothing is done with the answer of an outdated check. *)
LateAnswer_Taken ==
  /\ Open /\ check.late
  /\ check' = [check EXCEPT !.late = FALSE]
  /\ conflicts' \in [found : {"none", "some"}, current : {FALSE}]
  /\ UNCHANGED <<loaded, access, values, typedEnd, filled, recurring, approved, pc>>
LateAnswer ==
  /\ Open /\ check.late
  /\ check' = [check EXCEPT !.late = FALSE]
  /\ UNCHANGED <<loaded, access, values, typedEnd, filled, recurring, approved, conflicts, pc>>

UserStep ==
  \/ \E field \in RequiredFields : Fill(field)
  \/ \E r \in Resources : ClickResource(r)
  \/ \E b \in Blocks : PickBlock(b)
  \/ \E t \in TypedTimes \cup {None} : ChangeStart(t) \/ ChangeEnd(t)
  \/ ChangeRecurrence \/ Approve \/ Submit

Next ==
  \/ UserStep
  \/ SubmitAnswered
  \/ \E acc \in ResourceLists : ResourcesArrive(acc)
  \/ \E list \in ContractLists : ContractsArrive(list)
  \/ \E taken \in SUBSET Blocks : BlocksArrive(taken)
  \/ RestrictionsArrive \/ CheckAnswered \/ LateAnswer

Spec == Init /\ [][Next]_vars

-----------------------------------------------------------------------------
(* When no check is on its way, the conflicts that are shown, or their      *)
(* absence, are those of the resources, times and recurrence in the form,   *)
(* in whatever order the checks were answered.                              *)
ConflictsAreCurrent ==
  conflicts.found # "unknown" => conflicts.current \/ check.live

(* A new reservation does not keep resources that the user may not reserve, *)
(* neither from the link that opened the form nor after access was lost.    *)
OnlyReservableIds ==
  isCreate /\ access # None => values.ids \subseteq access.reservable

(* The approval covers every contract, of those that were listed when it was *)
(* given, that applies to the resources chosen since.                        *)
ApprovedWhatApplies ==
  approved # None => Applicable(approved.listed, values.ids) \subseteq approved.shown

(* What a user sends, once the list of resources has arrived: a listed block *)
(* of a blocks-only resource and once only, or a range within the durations  *)
(* and the last day of every resource in the list, and a series only where   *)
(* all of those allow it.  Of a resource that is not in the list, kept from  *)
(* an edited reservation, the form knows nothing; the server decides.        *)
SentByUser(v, series) ==
  LET known == Listed(v.ids, access) IN
  IF BlocksOnly(v.ids, access)
  THEN ~series /\ \E b \in Blocks : b.of \in known /\ Selected(b, v) /\ Until(b.of, v.end)
  ELSE /\ v.start < v.end
       /\ \A r \in known : /\ DurationFits(v, r) /\ Until(r, v.end)
                           /\ series => Attributes[r].allow_recurring

SubmitsReservable ==
  [][pc = "editing" /\ pc' = "submitting" /\ ~isAdmin /\ access # None
       => SentByUser(values, recurring)]_vars

=============================================================================
